------------------------------ MODULE Billing ------------------------------
(***************************************************************************)
(* What paying for a checkout promises, seen from outside: money first,    *)
(* then the booking of each order, once, then its opening to the seller;   *)
(* and the checkout shows PAID only when all of it is booked.  Attempts,   *)
(* sessions, webhooks and calls in flight are not seen here.               *)
(***************************************************************************)
CONSTANT Orders

VARIABLES
    paid,    \* whether the gateway took the customer's money
    booked,  \* the orders whose payment was booked
    stage,   \* the workflow status of each order
    shown    \* the status of the checkout

billingState == <<paid, booked, stage, shown>>

Init ==
    /\ paid = FALSE
    /\ booked = {}
    /\ stage = [o \in Orders |-> "CREATED"]
    /\ shown = "CREATED"

Pay ==
    /\ paid' = TRUE
    /\ UNCHANGED <<booked, stage, shown>>

Book(o) ==
    /\ paid /\ o \notin booked
    /\ booked' = booked \cup {o}
    /\ UNCHANGED <<paid, stage, shown>>

Open(o) ==
    /\ o \in booked /\ stage[o] = "CREATED"
    /\ stage' = [stage EXCEPT ![o] = "SELLER_PENDING"]
    /\ UNCHANGED <<paid, booked, shown>>

\* A failed attempt ends all the orders that are not open, and those only.
Lapse ==
    /\ stage' = [o \in Orders |-> IF stage[o] = "CREATED" THEN "CANCELLED" ELSE stage[o]]
    /\ UNCHANGED <<paid, booked, shown>>

Cancel(o) ==
    /\ stage' = [stage EXCEPT ![o] = "CANCELLED"]
    /\ UNCHANGED <<paid, booked, shown>>

\* The two statuses overwrite one another: attempts fail after others were paid.
Show(s) ==
    /\ s = "PAID" => booked = Orders
    /\ shown' = s
    /\ UNCHANGED <<paid, booked, stage>>

Next ==
    \/ Pay \/ Lapse
    \/ \E o \in Orders : Book(o) \/ Open(o) \/ Cancel(o)
    \/ \E s \in {"PAID", "CANCELLED"} : Show(s)

Spec == Init /\ [][Next]_billingState
=============================================================================
