--------------------------- MODULE OrderWorkflow ---------------------------
(***************************************************************************)
(* The version 2 order workflow of the backend:                            *)
(* backend/app/services/orderWorkflowService.js with the poller            *)
(* jobs/orderAutoCancelJob.js, the Bull job of the delayed rider           *)
(* broadcast and the compensation of a cancelled order.                    *)
(*                                                                         *)
(* An order document is updated by HTTP handlers, by Bull workers and by   *)
(* the poller, all at once.  A guarded findOneAndUpdate is one atomic      *)
(* step.  A handler that reads, awaits and then writes is a call in        *)
(* flight: its program counter and what it read are kept in "call", and    *)
(* other calls run between its steps.  A call dies when its process does.  *)
(*                                                                         *)
(* Deadlines are not clock values but the facts the code derives from      *)
(* them: whether the current wait, the 60 second grace, the search window  *)
(* or the broadcast lead has passed.                                       *)
(***************************************************************************)
EXTENDS Integers, FiniteSets

CONSTANTS
    Orders,       \* order documents (workflowVersion 2)
    Online,       \* the orders paid ONLINE; the others are COD or WALLET
    Riders,       \* delivery partners
    Requests,     \* slots for calls in flight in the API and worker processes
    Poller,       \* the slot of the scheduler process's poll loop
    NoOrder, NoRider,
    Plans,        \* preparation settings in force, see AllPlans
    MaxActive,    \* maxActiveOrdersPerDeliveryBoy
    MaxAttempts,  \* MAX_DELIVERY_SEARCH_ATTEMPTS
    MaxFaults     \* bound: process crashes in a behaviour

\* What follows a seller's acceptance: "delayed" and "now" are the prep flow
\* with a positive and a zero broadcast delay, "auto" and "manual" the legacy
\* flow without and with manual dispatch.
AllPlans == {"delayed", "now", "auto", "manual"}
PrepPlans == {"delayed", "now"}

Threads == Requests \cup {Poller}

ASSUME ConstantsAssumption ==
    /\ Online \subseteq Orders
    /\ NoOrder \notin Orders
    /\ NoRider \notin Riders
    /\ Poller \notin Requests
    /\ IsFiniteSet(Orders) /\ IsFiniteSet(Requests)
    /\ Plans \subseteq AllPlans
    /\ MaxActive \in Nat \ {0}
    /\ MaxAttempts \in Nat \ {0}
    /\ MaxFaults \in Nat

VARIABLES
    wf,          \* Order.workflowStatus
    status,      \* Order.status, the legacy projection
    paid,        \* Order.paymentStatus = PAID, for an ONLINE order
    captured,    \* Order.financeFlags.onlinePaymentCaptured
    rider,       \* Order.deliveryBoy
    step,        \* Order.deliveryRiderStep
    skippedBy,   \* Order.skippedBy
    waitOver,    \* the reservation (CREATED) or seller (SELLER_PENDING) window has passed
    graceOver,   \* 60 seconds have passed since createdAt
    window,      \* deliverySearchExpiresAt: unset, in the future, or in the past
    attempt,     \* deliverySearchMeta.attempt, 0 while there is none
    gaveUp,      \* history: the retry loop stopped at its last attempt
    marker,      \* deliveryBroadcastScheduledAt: none, in the future, or due
    job,         \* the Bull job "order:ID:broadcast-start"
    reservation, \* stockReservation.status: held (RESERVED or COMMITTED) or RELEASED
    released,    \* times the items went back to stock; 2 stands for more than once
    revived,     \* history: a write took the order out of CANCELLED
    call,        \* the calls in flight
    faults       \* crashes so far

lifeVars   == <<wf, status, revived>>
payVars    == <<paid, captured>>
riderVars  == <<rider, step, skippedBy>>
clockVars  == <<waitOver, graceOver>>
searchVars == <<window, attempt, gaveUp>>
leadVars   == <<marker, job>>
stockVars  == <<reservation, released>>
vars == <<lifeVars, payVars, riderVars, clockVars, searchVars, leadVars,
          stockVars, call, faults>>

WorkflowStatus ==
    {"CREATED", "SELLER_PENDING", "SELLER_ACCEPTED", "DELIVERY_SEARCH",
     "DELIVERY_ASSIGNED", "PICKUP_READY", "OUT_FOR_DELIVERY", "DELIVERED",
     "CANCELLED"}

LegacyStatus ==
    [w \in WorkflowStatus |->
        CASE w \in {"CREATED", "SELLER_PENDING"} -> "pending"
          [] w = "SELLER_ACCEPTED" -> "confirmed"
          [] w \in {"DELIVERY_SEARCH", "DELIVERY_ASSIGNED", "PICKUP_READY"} -> "packed"
          [] w = "OUT_FOR_DELIVERY" -> "out_for_delivery"
          [] w = "DELIVERED" -> "delivered"
          [] w = "CANCELLED" -> "cancelled"]

LegacyValues == {"pending", "confirmed", "packed", "out_for_delivery",
                 "delivered", "cancelled"}

\* The orders that count against a rider's limit.
ActiveStatuses == {"DELIVERY_ASSIGNED", "PICKUP_READY", "OUT_FOR_DELIVERY"}
Active(r) == {o \in Orders : rider[o] = r /\ wf[o] \in ActiveStatuses}

\* Program counters.  A broadcast runs enqueue or requeue (the Bull job),
\* then load, save and arm (startDeliverySearchForOrder), and undo when a
\* dispatch failed; assign is an acceptance past its limit check; retry a
\* delivery timeout that read the attempt; cancel a customer's request that
\* read the clock; compensate, release and mark undo the reservation; move
\* is a captured payment about to open the order to its seller; stamp and skip
\* are about to save a legacy status and a rider's skip.
PCs == {"idle", "enqueue", "requeue", "load", "save", "arm", "undo",
        "assign", "retry", "cancel", "compensate", "release", "mark", "move",
        "stamp", "skip"}

\* Who started a broadcast; "later" and "prep" are a change of preparation time
\* that schedules it and one that starts it.
Sources == {"none", "accept", "job", "poll", "later", "prep", "dispatch", "pack"}

Calls == [pc : PCs, ord : Orders \cup {NoOrder}, src : Sources,
          seenWf : WorkflowStatus, seenStatus : LegacyValues,
          seenLead : BOOLEAN,
          rid : Riders \cup {NoRider}, att : 0..MaxAttempts, grace : BOOLEAN]

Idle == [pc |-> "idle", ord |-> NoOrder, src |-> "none",
         seenWf |-> "CREATED", seenStatus |-> "pending", seenLead |-> FALSE,
         rid |-> NoRider, att |-> 0, grace |-> FALSE]

TypeOK ==
    /\ wf \in [Orders -> WorkflowStatus]
    /\ status \in [Orders -> LegacyValues]
    /\ paid \in [Orders -> BOOLEAN]
    /\ captured \in [Orders -> BOOLEAN]
    /\ rider \in [Orders -> Riders \cup {NoRider}]
    /\ step \in [Orders -> 0..4]
    /\ skippedBy \in [Orders -> SUBSET Riders]
    /\ waitOver \in [Orders -> BOOLEAN]
    /\ graceOver \in [Orders -> BOOLEAN]
    /\ window \in [Orders -> {"unset", "open", "over"}]
    /\ attempt \in [Orders -> 0..MaxAttempts]
    /\ gaveUp \in [Orders -> BOOLEAN]
    /\ marker \in [Orders -> {"none", "future", "due"}]
    /\ job \in [Orders -> {"none", "waiting", "stale", "active"}]
    /\ reservation \in [Orders -> {"HELD", "RELEASED"}]
    /\ released \in [Orders -> 0..2]
    /\ revived \in [Orders -> BOOLEAN]
    /\ call \in [Threads -> Calls]
    /\ \A t \in Threads : call[t].pc # "idle" => call[t].ord \in Orders
    /\ faults \in 0..MaxFaults

\* placeOrderAtomic has committed: stock is taken, a COD or WALLET order waits
\* for its seller and an ONLINE one for its payment.
Init ==
    /\ wf = [o \in Orders |-> IF o \in Online THEN "CREATED" ELSE "SELLER_PENDING"]
    /\ status = [o \in Orders |-> "pending"]
    /\ paid = [o \in Orders |-> FALSE]
    /\ captured = [o \in Orders |-> FALSE]
    /\ rider = [o \in Orders |-> NoRider]
    /\ step = [o \in Orders |-> 0]
    /\ skippedBy = [o \in Orders |-> {}]
    /\ waitOver = [o \in Orders |-> FALSE]
    /\ graceOver = [o \in Orders |-> FALSE]
    /\ window = [o \in Orders |-> "unset"]
    /\ attempt = [o \in Orders |-> 0]
    /\ gaveUp = [o \in Orders |-> FALSE]
    /\ marker = [o \in Orders |-> "none"]
    /\ job = [o \in Orders |-> "none"]
    /\ reservation = [o \in Orders |-> "HELD"]
    /\ released = [o \in Orders |-> 0]
    /\ revived = [o \in Orders |-> FALSE]
    /\ call = [t \in Threads |-> Idle]
    /\ faults = 0

-----------------------------------------------------------------------------
(* What the handlers are made of.                                          *)

Payable(o) == o \notin Online \/ paid[o]

\* A guarded update that sets workflowStatus and the legacy status with it.
MoveTo(o, w) ==
    /\ wf' = [wf EXCEPT ![o] = w]
    /\ status' = [status EXCEPT ![o] = LegacyStatus[w]]
    /\ UNCHANGED revived

\* An update that writes workflowStatus w whatever it was before.
Overwrite(o, w) ==
    /\ wf' = [wf EXCEPT ![o] = w]
    /\ revived' = [revived EXCEPT ![o] = @ \/ wf[o] = "CANCELLED"]

Begin(t, pc, o, src) ==
    /\ call[t].pc = "idle"
    /\ call' = [call EXCEPT ![t] = [Idle EXCEPT !.pc = pc, !.ord = o, !.src = src]]

Goto(t, pc) == call' = [call EXCEPT ![t].pc = pc]

\* Mutant of Return: forgets the order but not the program counter.
ReturnHalf(t) == call' = [call EXCEPT ![t].ord = NoOrder]

Return(t) == call' = [call EXCEPT ![t] = Idle]

At(t, pc) == call[t].pc = pc

-----------------------------------------------------------------------------
(* Payment of an ONLINE order, as far as the workflow sees it.             *)

\* Mutant of PaymentCaptured: opens the order without recording the payment.
CaptureUnrecorded(t, o) ==
    /\ o \in Online
    /\ Begin(t, "move", o, "none")
    /\ UNCHANGED <<lifeVars, payVars, riderVars, clockVars, searchVars, leadVars, stockVars, faults>>

\* A captured payment: handleOnlineOrderFinance marks the order PAID whatever
\* its workflow status, the first time; the order is opened to the seller by a
\* later update.  A repeated capture that would find nothing to open is left out.
PaymentCaptured(t, o) ==
    /\ o \in Online
    /\ ~captured[o] \/ wf[o] = "CREATED"
    /\ Begin(t, "move", o, "none")
    /\ paid' = [paid EXCEPT ![o] = @ \/ ~captured[o]]
    /\ captured' = [captured EXCEPT ![o] = TRUE]
    /\ UNCHANGED <<lifeVars, riderVars, clockVars, searchVars, leadVars, stockVars, faults>>

MoveToSellerPending(t) ==
    /\ At(t, "move")
    /\ LET o == call[t].ord IN
        \/ /\ wf[o] = "CREATED"
           /\ wf' = [wf EXCEPT ![o] = "SELLER_PENDING"]
           /\ waitOver' = [waitOver EXCEPT ![o] = FALSE]
        \/ /\ wf[o] # "CREATED"
           /\ UNCHANGED <<wf, waitOver>>
    /\ Return(t)
    /\ UNCHANGED <<status, revived, payVars, riderVars, graceOver, searchVars,
                   leadVars, stockVars, faults>>

\* A failed payment cancels a CREATED order, paid by another attempt or not,
\* and gives its stock back in the same transaction.
PaymentFailed(o) ==
    /\ o \in Online /\ wf[o] = "CREATED" /\ status[o] # "cancelled"
    /\ MoveTo(o, "CANCELLED")
    /\ paid' = [paid EXCEPT ![o] = FALSE]
    /\ reservation' = [reservation EXCEPT ![o] = "RELEASED"]
    /\ released' = [released EXCEPT ![o] =
                        IF reservation[o] = "RELEASED" \/ @ = 2 THEN @ ELSE @ + 1]
    /\ UNCHANGED <<captured, riderVars, clockVars, searchVars, leadVars, call, faults>>

\* A status check that loaded its attempt before the capture reports it as still
\* open, and unmarks the order whatever it is by now.
PaymentPending(o) ==
    /\ o \in Online /\ captured[o] /\ paid[o]
    /\ paid' = [paid EXCEPT ![o] = FALSE]
    /\ UNCHANGED <<lifeVars, captured, riderVars, clockVars, searchVars, leadVars, stockVars, call, faults>>

\* The poller cancels an order whose reservation ran out before it was paid.
CancelUnpaid(o) ==
    /\ wf[o] = "CREATED" /\ ~Payable(o) /\ waitOver[o] /\ reservation[o] # "RELEASED"
    /\ MoveTo(o, "CANCELLED")
    /\ Begin(Poller, "compensate", o, "none")
    /\ UNCHANGED <<payVars, riderVars, clockVars, searchVars, leadVars, stockVars, faults>>

-----------------------------------------------------------------------------
(* The seller accepts, rejects, changes the preparation time, dispatches.  *)

\* The update of sellerAcceptAtomic and the branch it takes afterwards.
Accept(t, o, auto) ==
    /\ wf[o] = "SELLER_PENDING"
    /\ Payable(o)
    /\ auto \/ ~waitOver[o]
    /\ MoveTo(o, "SELLER_ACCEPTED")
    /\ \E plan \in Plans :
        \/ /\ plan = "delayed"
           /\ marker' = [marker EXCEPT ![o] = "future"]
           /\ Begin(t, "enqueue", o, "accept")
        \/ /\ plan = "now"
           /\ marker' = [marker EXCEPT ![o] = "due"]
           /\ Begin(t, "load", o, "accept")
        \/ /\ plan = "auto"
           /\ UNCHANGED marker
           /\ Begin(t, "load", o, "accept")
        \/ /\ plan = "manual"
           /\ call[t].pc = "idle"
           /\ UNCHANGED <<marker, call>>
    /\ UNCHANGED <<payVars, riderVars, clockVars, searchVars, job, stockVars, faults>>

SellerAccept(t, o) == Accept(t, o, FALSE)

\* Mutant of SellerTimeout: accepts under the rules of a seller's own request.
TimeoutNotAuto(t, o) == waitOver[o] /\ Accept(t, o, FALSE)

\* processSellerTimeoutJob, from the Bull job or from the poller: it returns
\* while the window is open and otherwise accepts in the seller's name.
SellerTimeout(t, o) == waitOver[o] /\ Accept(t, o, TRUE)

SellerReject(t, o) ==
    /\ wf[o] = "SELLER_PENDING" /\ ~waitOver[o]
    /\ MoveTo(o, "CANCELLED")
    /\ Begin(t, "compensate", o, "none")
    /\ UNCHANGED <<payVars, riderVars, clockVars, searchVars, leadVars, stockVars, faults>>

\* scheduleBroadcastStart: the add is deduplicated by job id, and an add that
\* fails or times out is only logged.
EnqueueBroadcast(t) ==
    /\ At(t, "enqueue")
    /\ \/ /\ job[call[t].ord] = "none"
          /\ job' = [job EXCEPT ![call[t].ord] = "waiting"]
       \/ UNCHANGED job
    /\ Return(t)
    /\ UNCHANGED <<lifeVars, payVars, riderVars, clockVars, searchVars, marker, stockVars, faults>>

\* sellerSetPreparationTime: the job that still waits is out of date from here.
SetPreparationTime(t, o) ==
    /\ wf[o] = "SELLER_ACCEPTED"
    /\ \E plan \in Plans \cap PrepPlans :
        /\ marker' = [marker EXCEPT ![o] = IF plan = "delayed" THEN "future" ELSE "due"]
        /\ Begin(t, "requeue", o, IF plan = "delayed" THEN "later" ELSE "prep")
    /\ job' = [job EXCEPT ![o] = IF @ = "waiting" THEN "stale" ELSE @]
    /\ UNCHANGED <<lifeVars, payVars, riderVars, clockVars, searchVars, stockVars, faults>>

\* removeBroadcastStart, then the new job or the search.  A removal fails when
\* Redis does or when a worker holds the job; the add is then a duplicate.
RequeueBroadcast(t) ==
    /\ At(t, "requeue")
    /\ LET o == call[t].ord IN
        \/ /\ job[o] # "active"
           /\ job' = [job EXCEPT ![o] = "none"]
        \/ /\ job[o] # "active" /\ call[t].src = "later"
           /\ job' = [job EXCEPT ![o] = "waiting"]
        \/ UNCHANGED job
    /\ IF call[t].src = "prep" THEN Goto(t, "load") ELSE Return(t)
    /\ UNCHANGED <<lifeVars, payVars, riderVars, clockVars, searchVars, marker, stockVars, faults>>

\* The claim of sellerDispatchOrder sets workflowStatus alone.
Dispatch(t, o) ==
    /\ wf[o] = "SELLER_ACCEPTED" /\ rider[o] = NoRider
    /\ wf' = [wf EXCEPT ![o] = "DELIVERY_SEARCH"]
    /\ Begin(t, "load", o, "dispatch")
    /\ UNCHANGED <<status, revived, payVars, riderVars, clockVars, searchVars, leadVars, stockVars, faults>>

\* Attaching a basket or a bag: the tests use the order read at the start of
\* the request, and the search or the save comes several awaits later.
Pack(t, o) ==
    /\ status[o] \in {"pending", "confirmed"}
    /\ Begin(t, IF wf[o] = "SELLER_ACCEPTED" THEN "load" ELSE "stamp", o, "pack")
    /\ UNCHANGED <<lifeVars, payVars, riderVars, clockVars, searchVars, leadVars, stockVars, faults>>

StampPacked(t) ==
    /\ At(t, "stamp")
    /\ status' = [status EXCEPT ![call[t].ord] = "packed"]
    /\ Return(t)
    /\ UNCHANGED <<wf, revived, payVars, riderVars, clockVars, searchVars, leadVars, stockVars, faults>>

-----------------------------------------------------------------------------
(* The rider search.                                                       *)

StartGuard(o) == wf[o] = "SELLER_ACCEPTED" /\ rider[o] = NoRider

\* A worker takes the broadcast job; processBroadcastStartJob reads the order.
\* A job left behind by a change of preparation time keeps its old delay.
BroadcastJob(t, o) ==
    /\ t \in Requests
    /\ job[o] = "stale" \/ (job[o] = "waiting" /\ marker[o] # "future")
    /\ \/ /\ StartGuard(o)
          /\ Begin(t, "load", o, "job")
          /\ job' = [job EXCEPT ![o] = "active"]
       \/ /\ ~StartGuard(o)
          /\ call[t].pc = "idle"
          /\ job' = [job EXCEPT ![o] = "none"]
          /\ UNCHANGED call
    /\ UNCHANGED <<lifeVars, payVars, riderVars, clockVars, searchVars, marker, stockVars, faults>>

\* Mutant of PollBroadcast: trusts a job that is still in the queue.
PollBroadcastUnlessQueued(o) ==
    /\ StartGuard(o) /\ marker[o] = "due" /\ job[o] = "none"
    /\ Begin(Poller, "load", o, "poll")
    /\ UNCHANGED <<lifeVars, payVars, riderVars, clockVars, searchVars, leadVars, stockVars, faults>>

\* The fallback query of the poller, which needs no job.
PollBroadcast(o) ==
    /\ StartGuard(o) /\ marker[o] = "due"
    /\ Begin(Poller, "load", o, "poll")
    /\ UNCHANGED <<lifeVars, payVars, riderVars, clockVars, searchVars, leadVars, stockVars, faults>>

LoadOrder(t) ==
    /\ At(t, "load")
    /\ LET o == call[t].ord IN
        call' = [call EXCEPT ![t].pc = "save",
                             ![t].seenWf = wf[o],
                             ![t].seenStatus = status[o],
                             ![t].seenLead = marker[o] # "none"]
    /\ UNCHANGED <<lifeVars, payVars, riderVars, clockVars, searchVars, leadVars, stockVars, faults>>

\* order.save() has no condition on the workflow status and writes the paths
\* that differ from what was loaded.
SaveSearch(t) ==
    /\ At(t, "save")
    /\ LET o == call[t].ord IN
        /\ IF call[t].seenWf = "DELIVERY_SEARCH"
           THEN UNCHANGED <<wf, revived>>
           ELSE Overwrite(o, "DELIVERY_SEARCH")
        /\ status' = [status EXCEPT ![o] =
                          IF call[t].seenStatus = "packed" THEN @ ELSE "packed"]
        /\ window' = [window EXCEPT ![o] = "open"]
        /\ attempt' = [attempt EXCEPT ![o] = 1]
        /\ gaveUp' = [gaveUp EXCEPT ![o] = FALSE]
        /\ marker' = [marker EXCEPT ![o] = IF call[t].seenLead THEN "none" ELSE @]
    /\ Goto(t, "arm")
    /\ UNCHANGED <<payVars, riderVars, clockVars, job, stockVars, faults>>

\* The job a worker held is gone when its handler ends.
JobDone(t) == IF call[t].src = "job"
              THEN job' = [job EXCEPT ![call[t].ord] = "none"]
              ELSE UNCHANGED job

\* The delivery timeout is scheduled, the assignment recorded, riders told.
ArmSearch(t) ==
    /\ At(t, "arm")
    /\ JobDone(t)
    /\ Return(t)
    /\ UNCHANGED <<lifeVars, payVars, riderVars, clockVars, searchVars, marker, stockVars, faults>>

\* A call of startDeliverySearchForOrder that throws: a dispatch undoes its
\* claim, every other caller logs the error or lets the job fail.
StartFails(t) ==
    /\ call[t].pc \in {"load", "save", "arm"}
    /\ faults < MaxFaults
    /\ faults' = faults + 1
    /\ JobDone(t)
    /\ IF call[t].src = "dispatch" THEN Goto(t, "undo") ELSE Return(t)
    /\ UNCHANGED <<lifeVars, payVars, riderVars, clockVars, searchVars, marker, stockVars>>

UndoDispatch(t) ==
    /\ At(t, "undo")
    /\ Overwrite(call[t].ord, "SELLER_ACCEPTED")
    /\ Return(t)
    /\ UNCHANGED <<status, payVars, riderVars, clockVars, searchVars, leadVars, stockVars, faults>>

\* Mutant of LastAttempt: off by one.
PastLastAttempt(o) == attempt[o] > MaxAttempts

LastAttempt(o) == attempt[o] >= MaxAttempts

\* processDeliveryTimeoutJob reads the order; at the last attempt it stops.
\* The mark it then writes, deliverySearchMeta.exhaustedAt, is not a path of the
\* Order schema, so Mongoose drops it and the document does not change.
DeliveryTimeout(t, o) ==
    /\ wf[o] = "DELIVERY_SEARCH" /\ window[o] = "over"
    /\ \/ /\ ~LastAttempt(o)
          /\ call[t].pc = "idle"
          /\ call' = [call EXCEPT ![t] = [Idle EXCEPT !.pc = "retry", !.ord = o,
                                                      !.att = attempt[o]]]
          /\ UNCHANGED gaveUp
       \/ /\ LastAttempt(o)
          /\ call[t].pc = "idle"
          /\ gaveUp' = [gaveUp EXCEPT ![o] = TRUE]
          /\ UNCHANGED call
    /\ UNCHANGED <<lifeVars, payVars, riderVars, clockVars, window, attempt, leadVars, stockVars, faults>>

\* Mutant of NextAttempt: the counter that never grew.
SameAttempt(t) == call[t].att

NextAttempt(t) == call[t].att + 1

\* The wider broadcast: its update tests the workflow status alone.
Rebroadcast(t) ==
    /\ At(t, "retry")
    /\ LET o == call[t].ord IN
        \/ /\ wf[o] = "DELIVERY_SEARCH"
           /\ window' = [window EXCEPT ![o] = "open"]
           /\ attempt' = [attempt EXCEPT ![o] = NextAttempt(t)]
           /\ gaveUp' = [gaveUp EXCEPT ![o] = FALSE]
        \/ /\ wf[o] # "DELIVERY_SEARCH"
           /\ UNCHANGED searchVars
    /\ Return(t)
    /\ UNCHANGED <<lifeVars, payVars, riderVars, clockVars, leadVars, stockVars, faults>>

\* skipOrder reads the order, and saves the rider's skip in whatever status the
\* order is by then.
SkipRequest(t, o, r) ==
    /\ wf[o] = "DELIVERY_SEARCH" /\ r \notin skippedBy[o]
    /\ call[t].pc = "idle"
    /\ call' = [call EXCEPT ![t] = [Idle EXCEPT !.pc = "skip", !.ord = o, !.rid = r]]
    /\ UNCHANGED <<lifeVars, payVars, riderVars, clockVars, searchVars, leadVars, stockVars, faults>>

SkipOrder(t) ==
    /\ At(t, "skip")
    /\ skippedBy' = [skippedBy EXCEPT ![call[t].ord] = @ \cup {call[t].rid}]
    /\ Return(t)
    /\ UNCHANGED <<lifeVars, payVars, rider, step, clockVars, searchVars, leadVars, stockVars, faults>>

-----------------------------------------------------------------------------
(* The rider accepts, arrives, picks up and hands over.                    *)

\* Mutant of BelowLimit: no check.
NoLimit(r) == TRUE

BelowLimit(r) == Cardinality(Active(r)) < MaxActive

\* deliveryAcceptAtomic counts the rider's active orders first, whatever the order's
\* status ...
AcceptCheck(t, o, r) ==
    /\ BelowLimit(r)
    /\ call[t].pc = "idle"
    /\ call' = [call EXCEPT ![t] = [Idle EXCEPT !.pc = "assign", !.ord = o, !.rid = r]]
    /\ UNCHANGED <<lifeVars, payVars, riderVars, clockVars, searchVars, leadVars, stockVars, faults>>

\* Mutant of Assignable: the claim without "deliveryBoy: null".
AssignableTwice(o, r) ==
    /\ wf[o] = "DELIVERY_SEARCH"
    /\ window[o] = "open"
    /\ r \notin skippedBy[o]

Assignable(o, r) ==
    /\ wf[o] = "DELIVERY_SEARCH"
    /\ rider[o] = NoRider
    /\ window[o] = "open"
    /\ r \notin skippedBy[o]

\* ... and claims the order in a second step.
AssignRider(t) ==
    /\ At(t, "assign")
    /\ LET o == call[t].ord
           r == call[t].rid IN
        \/ /\ Assignable(o, r)
           /\ MoveTo(o, "DELIVERY_ASSIGNED")
           /\ rider' = [rider EXCEPT ![o] = r]
           /\ step' = [step EXCEPT ![o] = 1]
        \/ /\ ~Assignable(o, r)
           /\ UNCHANGED <<lifeVars, rider, step>>
    /\ Return(t)
    /\ UNCHANGED <<payVars, skippedBy, clockVars, searchVars, leadVars, stockVars, faults>>

\* Arrival, pickup and hand-over repeat the condition of their read in their
\* update, so each is one step.
ArriveAtStore(o) ==
    /\ wf[o] = "DELIVERY_ASSIGNED" /\ rider[o] # NoRider
    /\ MoveTo(o, "PICKUP_READY")
    /\ step' = [step EXCEPT ![o] = 2]
    /\ UNCHANGED <<payVars, rider, skippedBy, clockVars, searchVars, leadVars, stockVars, call, faults>>

\* Mutant of ConfirmPickup: any rider may pick up any packed order.
PickupByAnyone(o) ==
    /\ wf[o] \in {"DELIVERY_SEARCH", "DELIVERY_ASSIGNED", "PICKUP_READY"}
    /\ MoveTo(o, "OUT_FOR_DELIVERY")
    /\ step' = [step EXCEPT ![o] = 3]
    /\ UNCHANGED <<payVars, rider, skippedBy, clockVars, searchVars, leadVars, stockVars, call, faults>>

ConfirmPickup(o) ==
    /\ wf[o] \in {"DELIVERY_ASSIGNED", "PICKUP_READY"} /\ rider[o] # NoRider
    /\ MoveTo(o, "OUT_FOR_DELIVERY")
    /\ step' = [step EXCEPT ![o] = 3]
    /\ UNCHANGED <<payVars, rider, skippedBy, clockVars, searchVars, leadVars, stockVars, call, faults>>

\* The update of the rider's last step has no condition on the status: the order
\* was out for delivery when it was read, whatever happened since.
AdvanceRiderUi(o) ==
    /\ step[o] >= 3 /\ rider[o] # NoRider
    /\ step' = [step EXCEPT ![o] = 4]
    /\ UNCHANGED <<lifeVars, payVars, rider, skippedBy, clockVars, searchVars, leadVars, stockVars, call, faults>>

\* Mutant of HandOver: the update that forgot the pickup.
HandOverEarly(o) ==
    /\ wf[o] \in ActiveStatuses /\ rider[o] # NoRider
    /\ MoveTo(o, "DELIVERED")
    /\ UNCHANGED <<payVars, riderVars, clockVars, searchVars, leadVars, stockVars, call, faults>>

\* verifyHandoffOtpAndDeliver with the code the customer was shown.
HandOver(o) ==
    /\ wf[o] = "OUT_FOR_DELIVERY" /\ rider[o] # NoRider
    /\ MoveTo(o, "DELIVERED")
    /\ UNCHANGED <<payVars, riderVars, clockVars, searchVars, leadVars, stockVars, call, faults>>

-----------------------------------------------------------------------------
(* The customer cancels; a cancelled order is compensated.                 *)

\* customerCancelV2 reads the order and the clock ...
CancelRequest(t, o) ==
    /\ wf[o] = "SELLER_PENDING" \/ ~graceOver[o]
    /\ call[t].pc = "idle"
    /\ call' = [call EXCEPT ![t] = [Idle EXCEPT !.pc = "cancel", !.ord = o,
                                                !.grace = ~graceOver[o]]]
    /\ UNCHANGED <<lifeVars, payVars, riderVars, clockVars, searchVars, leadVars, stockVars, faults>>

\* Mutant of Cancellable: a cancelled order may be cancelled again.
CancellableAgain(grace) ==
    {"CREATED", "SELLER_PENDING", "SELLER_ACCEPTED", "DELIVERY_SEARCH", "CANCELLED"}

Cancellable(grace) ==
    {"CREATED", "SELLER_PENDING"}
        \cup (IF grace THEN {"SELLER_ACCEPTED", "DELIVERY_SEARCH"} ELSE {})

\* ... and cancels from the statuses that the clock allowed then.
CancelOrder(t) ==
    /\ At(t, "cancel")
    /\ LET o == call[t].ord IN
        \/ /\ wf[o] \in Cancellable(call[t].grace)
           /\ MoveTo(o, "CANCELLED")
           /\ Goto(t, "compensate")
        \/ /\ wf[o] \notin Cancellable(call[t].grace)
           /\ UNCHANGED lifeVars
           /\ Return(t)
    /\ UNCHANGED <<payVars, riderVars, clockVars, searchVars, leadVars, stockVars, faults>>

\* Mutant of Compensate: marks the reservation before it gives the items back.
MarkFirst(t) ==
    /\ At(t, "compensate")
    /\ IF reservation[call[t].ord] = "RELEASED" THEN Return(t) ELSE Goto(t, "mark")
    /\ UNCHANGED <<lifeVars, payVars, riderVars, clockVars, searchVars, leadVars, stockVars, faults>>

\* compensateOrderCancellation: read the reservation, give the items back,
\* save the reservation, with no transaction around the three.
Compensate(t) ==
    /\ At(t, "compensate")
    /\ IF reservation[call[t].ord] = "RELEASED" THEN Return(t) ELSE Goto(t, "release")
    /\ UNCHANGED <<lifeVars, payVars, riderVars, clockVars, searchVars, leadVars, stockVars, faults>>

ReleaseStock(t) ==
    /\ At(t, "release")
    /\ released' = [released EXCEPT ![call[t].ord] = IF @ = 2 THEN 2 ELSE @ + 1]
    /\ Goto(t, "mark")
    /\ UNCHANGED <<lifeVars, payVars, riderVars, clockVars, searchVars, leadVars, reservation, faults>>

MarkReleased(t) ==
    /\ At(t, "mark")
    /\ reservation' = [reservation EXCEPT ![call[t].ord] = "RELEASED"]
    /\ Return(t)
    /\ UNCHANGED <<lifeVars, payVars, riderVars, clockVars, searchVars, leadVars, released, faults>>

-----------------------------------------------------------------------------
(* The environment: time passes, processes die.                            *)

WaitEnds(o) ==
    /\ wf[o] \in {"CREATED", "SELLER_PENDING"} /\ ~waitOver[o]
    /\ waitOver' = [waitOver EXCEPT ![o] = TRUE]
    /\ UNCHANGED <<lifeVars, payVars, riderVars, graceOver, searchVars, leadVars, stockVars, call, faults>>

GraceEnds(o) ==
    /\ ~graceOver[o]
    /\ graceOver' = [graceOver EXCEPT ![o] = TRUE]
    /\ UNCHANGED <<lifeVars, payVars, riderVars, waitOver, searchVars, leadVars, stockVars, call, faults>>

WindowEnds(o) ==
    /\ window[o] = "open"
    /\ window' = [window EXCEPT ![o] = "over"]
    /\ UNCHANGED <<lifeVars, payVars, riderVars, clockVars, attempt, gaveUp, leadVars, stockVars, call, faults>>

LeadEnds(o) ==
    /\ marker[o] = "future"
    /\ marker' = [marker EXCEPT ![o] = "due"]
    /\ UNCHANGED <<lifeVars, payVars, riderVars, clockVars, searchVars, job, stockVars, call, faults>>

\* A call dies between two of its steps.  Bull hands a job whose worker died
\* to another worker, at once or later.
Crash(t) ==
    /\ call[t].pc # "idle"
    /\ faults < MaxFaults
    /\ faults' = faults + 1
    /\ job' = IF call[t].src = "job" THEN [job EXCEPT ![call[t].ord] = "stale"] ELSE job
    /\ Return(t)
    /\ UNCHANGED <<lifeVars, payVars, riderVars, clockVars, searchVars, marker, stockVars>>

-----------------------------------------------------------------------------

Tick(o) == WaitEnds(o) \/ GraceEnds(o) \/ WindowEnds(o) \/ LeadEnds(o)

\* The gateway's other answers, each carried to an order in one update.
PaymentReported(o) == PaymentFailed(o) \/ PaymentPending(o)

\* One handler invocation of the poll loop for one order.
Poll(o) ==
    \/ CancelUnpaid(o)
    \/ SellerTimeout(Poller, o)
    \/ PollBroadcast(o)
    \/ DeliveryTimeout(Poller, o)

\* A request or a worker starts working on an order.
Arrive(t, o) ==
    \/ PaymentCaptured(t, o)
    \/ SellerAccept(t, o)
    \/ SellerTimeout(t, o)
    \/ SellerReject(t, o)
    \/ SetPreparationTime(t, o)
    \/ Dispatch(t, o)
    \/ Pack(t, o)
    \/ BroadcastJob(t, o)
    \/ DeliveryTimeout(t, o)
    \/ CancelRequest(t, o)
    \/ \E r \in Riders : AcceptCheck(t, o, r) \/ SkipRequest(t, o, r)

\* A call in flight takes its next step.
Continue(t) ==
    \/ MoveToSellerPending(t)
    \/ EnqueueBroadcast(t)
    \/ RequeueBroadcast(t)
    \/ LoadOrder(t)
    \/ SaveSearch(t)
    \/ ArmSearch(t)
    \/ UndoDispatch(t)
    \/ StampPacked(t)
    \/ SkipOrder(t)
    \/ Rebroadcast(t)
    \/ AssignRider(t)
    \/ CancelOrder(t)
    \/ Compensate(t)
    \/ ReleaseStock(t)
    \/ MarkReleased(t)

\* Handlers that are a single guarded update.
RiderMoves(o) ==
    \/ ArriveAtStore(o)
    \/ ConfirmPickup(o)
    \/ AdvanceRiderUi(o)
    \/ HandOver(o)

Next ==
    \/ \E o \in Orders : Tick(o) \/ Poll(o) \/ PaymentReported(o) \/ RiderMoves(o)
    \/ \E t \in Requests, o \in Orders : Arrive(t, o)
    \/ \E t \in Threads : Continue(t) \/ StartFails(t) \/ Crash(t)

Spec == Init /\ [][Next]_vars

\* Clocks advance, an awaited call returns, and each tick of the poll loop
\* visits every row its queries return.  Nothing is assumed of sellers,
\* riders, customers or the Bull workers.
Fairness ==
    /\ \A o \in Orders : WF_vars(WaitEnds(o)) /\ WF_vars(WindowEnds(o)) /\ WF_vars(LeadEnds(o))
    /\ \A o \in Orders : SF_vars(SellerTimeout(Poller, o)) /\ SF_vars(PollBroadcast(o))
                          /\ SF_vars(DeliveryTimeout(Poller, o)) /\ SF_vars(CancelUnpaid(o))
    /\ \A t \in Threads : WF_vars(Continue(t))

LiveSpec == Spec /\ Fairness

-----------------------------------------------------------------------------
(* Safety.                                                                 *)

\* An order that a rider works on, or worked on, names that rider: neither the
\* unconditional saves of the search nor the undo of a dispatch can leave an
\* order on the road that belongs to nobody.
OnTheRoadHasRider ==
    \A o \in Orders :
        wf[o] \in ActiveStatuses \cup {"DELIVERED"} => rider[o] # NoRider

\* First delivery partner to accept wins, for good: no interleaving of
\* acceptances with broadcasts, retries and undone dispatches gives an order
\* that has a rider to another one.
FirstRiderWins ==
    [][\A o \in Orders : rider[o] # NoRider => rider'[o] = rider[o]]_vars

\* The limit of active orders is checked before the claim, so acceptances in
\* flight together can exceed it, but by no more than their number less one.
LimitOvershoot ==
    \A r \in Riders :
        Cardinality(Active(r)) <= MaxActive - 1 + Cardinality(Requests)

\* MAX_DELIVERY_SEARCH_ATTEMPTS is a hard stop: no mix of late workers, polls and
\* restarted searches broadcasts an attempt beyond it, and a search
\* that gave up stays at its last attempt.
HardStop ==
    \A o \in Orders :
        /\ attempt[o] <= MaxAttempts
        /\ gaveUp[o] => attempt[o] = MaxAttempts

\* A cancelled order's items go back to stock once, and the items of an order
\* that is not cancelled do not go back at all, unless a write brought the
\* order back from CANCELLED.
StockFollowsCancel ==
    \A o \in Orders :
        ~revived[o] => /\ released[o] <= 1
                       /\ released[o] > 0 => wf[o] = "CANCELLED"

\* The reservation is marked RELEASED only when the items did go back, also
\* when the process dies between the two writes of the compensation.
ReleasedMeansReturned ==
    \A o \in Orders : reservation[o] = "RELEASED" => released[o] > 0

\* No seller or rider works on an ONLINE order whose payment was not booked, whatever
\* the order in which captures, failures, stale status checks, timeouts and
\* cancellations arrive, not even one that a write brought back from CANCELLED.
Booked(o) == o \notin Online \/ captured[o]

UnpaidNeverServed ==
    \A o \in Orders : wf[o] \notin {"CREATED", "CANCELLED"} => Booked(o)

Life == INSTANCE OrderLife WITH stage <- wf, owner <- rider

\* Whatever handlers, workers and the poll loop do at once, an order only goes the
\* way of orderStateMachine.js, lapses unpaid, or is set back by the start of a
\* search; it is never claimed twice and never on the road without a claim.
FollowsLife == Life!Spec

-----------------------------------------------------------------------------
(* Liveness, under LiveSpec.                                               *)

\* A payable order never waits for its seller for ever: when its job is lost and
\* the seller silent, the poller accepts it, unless a stale check unmarks it.
SellerPendingEnds ==
    \A o \in Orders :
        wf[o] = "SELLER_PENDING" /\ Payable(o) ~> ~(wf[o] = "SELLER_PENDING" /\ Payable(o))

\* A scheduled broadcast whose lead has passed starts although its job was lost
\* or its worker died, or the seller postpones it.
BroadcastStarts ==
    \A o \in Orders :
        StartGuard(o) /\ marker[o] = "due" ~> ~(StartGuard(o) /\ marker[o] = "due")

\* A search always comes to an end of its retry loop: a rider, another status,
\* or giving up.
RetryLoopEnds ==
    \A o \in Orders :
        (wf[o] = "DELIVERY_SEARCH" /\ window[o] # "unset")
            ~> (wf[o] # "DELIVERY_SEARCH" \/ gaveUp[o])

-----------------------------------------------------------------------------
(* What the repository says and the code does not do.                      *)

\* services/orderStateMachine.js: TRANSITIONS gives CANCELLED no successor.
CancelledIsFinal ==
    [][\A o \in Orders : wf[o] = "CANCELLED" => wf'[o] = "CANCELLED"]_vars
=============================================================================
