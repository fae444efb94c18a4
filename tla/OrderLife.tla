----------------------------- MODULE OrderLife -----------------------------
(***************************************************************************)
(* What an order goes through, seen from outside: the transition table of  *)
(* backend/app/services/orderStateMachine.js, the claim by one rider, and  *)
(* the two ways in which the running system departs from the table.        *)
(***************************************************************************)
CONSTANTS Orders, Riders, NoRider

VARIABLES
    stage,  \* the order's workflow status
    owner   \* the rider who claimed it, for good

lifeState == <<stage, owner>>

\* TRANSITIONS, which no handler consults.
Successors ==
    [CREATED           |-> {"SELLER_PENDING"},
     SELLER_PENDING    |-> {"SELLER_ACCEPTED", "DELIVERY_SEARCH", "CANCELLED"},
     SELLER_ACCEPTED   |-> {"DELIVERY_SEARCH", "CANCELLED"},
     DELIVERY_SEARCH   |-> {"DELIVERY_ASSIGNED", "CANCELLED"},
     DELIVERY_ASSIGNED |-> {"PICKUP_READY", "OUT_FOR_DELIVERY", "CANCELLED"},
     PICKUP_READY      |-> {"OUT_FOR_DELIVERY", "CANCELLED"},
     OUT_FOR_DELIVERY  |-> {"DELIVERED", "CANCELLED"},
     DELIVERED         |-> {},
     CANCELLED         |-> {}]

Init ==
    /\ stage \in [Orders -> {"CREATED", "SELLER_PENDING"}]
    /\ owner = [o \in Orders |-> NoRider]

\* A step of the table; the one to DELIVERY_ASSIGNED is a rider's claim.
Advance(o) ==
    /\ \E w \in Successors[stage[o]] \ {"DELIVERY_ASSIGNED"} :
          stage' = [stage EXCEPT ![o] = w]
    /\ UNCHANGED owner

Claim(o, r) ==
    /\ stage[o] = "DELIVERY_SEARCH" /\ owner[o] = NoRider
    /\ stage' = [stage EXCEPT ![o] = "DELIVERY_ASSIGNED"]
    /\ owner' = [owner EXCEPT ![o] = r]

\* An order that is not paid for ends; the table has no such step.
Lapse(o) ==
    /\ stage[o] = "CREATED"
    /\ stage' = [stage EXCEPT ![o] = "CANCELLED"]
    /\ UNCHANGED owner

\* The start of a search, or its undoing, saves its status over whatever the order
\* has become; it leaves the rider alone.
SetBack(o) ==
    /\ stage[o] \notin {"CREATED", "SELLER_PENDING"}
    /\ \E w \in {"SELLER_ACCEPTED", "DELIVERY_SEARCH"} : stage' = [stage EXCEPT ![o] = w]
    /\ UNCHANGED owner

Next == \E o \in Orders : Advance(o) \/ Lapse(o) \/ SetBack(o)
                            \/ \E r \in Riders : Claim(o, r)

Spec == Init /\ [][Next]_lifeState
=============================================================================
