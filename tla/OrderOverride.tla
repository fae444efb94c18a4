--------------------------- MODULE OrderOverride ---------------------------
(***************************************************************************)
(* PUT /orders/status/:orderId, updateOrderStatus of                       *)
(* backend/app/controller/orderController.js, beside the order workflow:   *)
(* an admin, or the seller, writes the legacy status and the rider of an   *)
(* order directly.                                                         *)
(*                                                                         *)
(* The handler loads the order, awaits and saves the paths it changed,     *)
(* with no condition on what the workflow made of the order meanwhile; it  *)
(* never writes workflowStatus.  A version 2 seller's "confirmed" and      *)
(* "cancelled" are SellerAccept and SellerReject of OrderWorkflow.         *)
(***************************************************************************)
EXTENDS OrderWorkflow

CONSTANTS
    Admins,       \* slots for calls of updateOrderStatus in flight
    MaxOverrides  \* bound: such calls in a behaviour

ASSUME OverrideAssumption == MaxOverrides \in Nat

VARIABLES
    over,         \* the calls in flight
    overrides     \* calls so far

overrideVars == <<over, overrides>>
allVars == <<vars, overrideVars>>

Names == Riders \cup {NoRider}

\* restock gives a cancelled order's items back, save writes the order, start is
\* the search for a rider that a packed order may need.  A status equal to the one
\* that was read is not written: "same".
Overrides == [pc : {"idle", "restock", "save", "start"}, ord : Orders \cup {NoOrder},
              st : LegacyValues \cup {"same"}, rid : Names, seenRider : Names,
              search : BOOLEAN]

NoOverride == [pc |-> "idle", ord |-> NoOrder, st |-> "same", rid |-> NoRider,
               seenRider |-> NoRider, search |-> FALSE]

OverrideTypeOK ==
    /\ TypeOK
    /\ over \in [Admins -> Overrides]
    /\ \A a \in Admins : over[a].pc # "idle" => over[a].ord \in Orders
    /\ overrides \in 0..MaxOverrides

OverrideInit ==
    /\ Init
    /\ over = [a \in Admins |-> NoOverride]
    /\ overrides = 0

-----------------------------------------------------------------------------

\* Mutant of NeedsSearch: in whatever workflow status the order is.
NeedsSearchAlways(o, st, r) ==
    st \in {"packed", "out_for_delivery"} /\ r = NoRider /\ rider[o] = NoRider

\* The order as it was read, with the rider of the body, needs a rider.
NeedsSearch(o, st, r) ==
    /\ st \in {"packed", "out_for_delivery"}
    /\ r = NoRider /\ rider[o] = NoRider
    /\ wf[o] = "SELLER_ACCEPTED"

\* The request's body names a status, and a rider or none.  Only a cancellation
\* of an order whose status was not cancelled returns the items.
OverrideRead(a, o) ==
    /\ over[a].pc = "idle"
    /\ overrides < MaxOverrides
    /\ overrides' = overrides + 1
    /\ \E st \in LegacyValues, r \in Names :
        over' = [over EXCEPT ![a] =
            [pc |-> IF st = "cancelled" /\ status[o] # "cancelled" THEN "restock" ELSE "save",
             ord |-> o, st |-> IF st = status[o] THEN "same" ELSE st, rid |-> r,
             seenRider |-> rider[o], search |-> NeedsSearch(o, st, r)]]
    /\ UNCHANGED vars

\* The items go back whatever the reservation says, and leave it as it is.
OverrideRestock(a) ==
    /\ over[a].pc = "restock"
    /\ released' = [released EXCEPT ![over[a].ord] = IF @ = 2 THEN 2 ELSE @ + 1]
    /\ over' = [over EXCEPT ![a].pc = "save"]
    /\ UNCHANGED <<lifeVars, payVars, riderVars, clockVars, searchVars, leadVars,
                   reservation, call, faults, overrides>>

\* Mutant of SavedRider: the document as it was loaded.
SavedRiderLoaded(a) == IF over[a].rid = NoRider THEN over[a].seenRider ELSE over[a].rid

\* Only a rider that the body names and the order did not have is written.
SavedRider(a) ==
    IF over[a].rid \in {NoRider, over[a].seenRider} THEN rider[over[a].ord] ELSE over[a].rid

\* order.save() of the status and the rider; the search is not started in the
\* manual dispatch mode.
OverrideSave(a) ==
    /\ over[a].pc = "save"
    /\ LET o == over[a].ord IN
        /\ status' = [status EXCEPT ![o] =
                         IF over[a].st = "same" THEN @ ELSE over[a].st]
        /\ rider' = [rider EXCEPT ![o] = SavedRider(a)]
    /\ \/ /\ over[a].search /\ Plans # {"manual"}
          /\ over' = [over EXCEPT ![a].pc = "start"]
       \/ /\ ~over[a].search \/ Plans # {"auto"}
          /\ over' = [over EXCEPT ![a] = NoOverride]
    /\ UNCHANGED <<wf, revived, payVars, step, skippedBy, clockVars, searchVars, leadVars,
                   stockVars, call, faults, overrides>>

\* startDeliverySearchForOrder goes on as a call of the workflow.
OverrideStart(a, t) ==
    /\ over[a].pc = "start"
    /\ Begin(t, "load", over[a].ord, "pack")
    /\ over' = [over EXCEPT ![a] = NoOverride]
    /\ UNCHANGED <<lifeVars, payVars, riderVars, clockVars, searchVars, leadVars, stockVars,
                   faults, overrides>>

\* A write throws or the process dies; what was done stays done.
OverrideFails(a) ==
    /\ over[a].pc # "idle"
    /\ over' = [over EXCEPT ![a] = NoOverride]
    /\ UNCHANGED <<lifeVars, payVars, riderVars, clockVars, searchVars, leadVars, stockVars,
                   call, faults, overrides>>

OverrideNext ==
    \/ Next /\ UNCHANGED overrideVars
    \/ \E a \in Admins, o \in Orders : OverrideRead(a, o)
    \/ \E a \in Admins : OverrideRestock(a) \/ OverrideSave(a) \/ OverrideFails(a)
    \/ \E a \in Admins, t \in Requests : OverrideStart(a, t)

OverrideSpec == OverrideInit /\ [][OverrideNext]_allVars

-----------------------------------------------------------------------------

\* An override that names no rider never takes the order from the rider who
\* claimed it since the override read it, and no handler of the workflow takes it
\* from a rider who was put there: a rider only ever makes way for another one
\* that a request named.
RiderKeptUnlessNamed ==
    [][\A o \in Orders : rider[o] # NoRider /\ rider'[o] # rider[o] =>
          /\ rider'[o] # NoRider
          /\ \E a \in Admins : over[a].ord = o /\ over[a].rid = rider'[o]]_allVars

\* Overrides write the legacy status alone: every change of the workflow status is a
\* step of OrderLife, with overrides in flight as without them.
StageFollowsLife == [][wf' # wf => Life!Next]_allVars
=============================================================================
