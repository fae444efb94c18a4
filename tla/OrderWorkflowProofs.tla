------------------------- MODULE OrderWorkflowProofs ------------------------
(***************************************************************************)
(* Theorems about OrderWorkflow for every set of orders, riders and        *)
(* requests, every plan, every limit and every number of crashes: types,   *)
(* the search for a rider, the riders and the limit on their work.         *)
(***************************************************************************)
EXTENDS OrderWorkflow, FiniteSetTheorems, TLAPS

\* A retry in flight read an attempt that was not the last, an acceptance and
\* a skip in flight name their rider.
ReadsBounded ==
    \A t \in Threads :
        /\ call[t].pc = "retry" => call[t].att < MaxAttempts
        /\ call[t].pc \in {"assign", "skip"} => call[t].rid \in Riders

\* The program counters at which a call needs nothing but its order.
PlainPCs == PCs \ {"retry", "assign", "skip"}

TypeInv == TypeOK /\ ReadsBounded

LEMMA LegacyType == LegacyStatus \in [WorkflowStatus -> LegacyValues]
  BY DEF LegacyStatus, WorkflowStatus, LegacyValues

LEMMA IdleType == Idle \in Calls
  BY ConstantsAssumption DEF Idle, Calls, PCs, Sources, WorkflowStatus, LegacyValues

\* The three ways a step changes the calls in flight keep their type.
LEMMA BeginType ==
  ASSUME TypeInv, NEW t \in Threads, NEW o \in Orders,
         NEW pc \in PlainPCs, NEW src \in Sources, Begin(t, pc, o, src)
  PROVE  /\ call' \in [Threads -> Calls]
         /\ \A u \in Threads : call'[u].pc # "idle" => call'[u].ord \in Orders
         /\ ReadsBounded'
  <1>1. [Idle EXCEPT !.pc = pc, !.ord = o, !.src = src] \in Calls
    BY IdleType DEF Idle, Calls, PlainPCs
  <1> QED
    BY <1>1 DEF Begin, PlainPCs, TypeInv, TypeOK, ReadsBounded, Idle

LEMMA GotoType ==
  ASSUME TypeInv, NEW t \in Threads, NEW pc \in PlainPCs, call[t].pc # "idle", Goto(t, pc)
  PROVE  /\ call' \in [Threads -> Calls]
         /\ \A u \in Threads : call'[u].pc # "idle" => call'[u].ord \in Orders
         /\ ReadsBounded'
  <1>1. [call[t] EXCEPT !.pc = pc] \in Calls
    BY DEF TypeInv, TypeOK, Calls, PlainPCs
  <1> QED
    BY <1>1 DEF Goto, PlainPCs, TypeInv, TypeOK, ReadsBounded, Calls

LEMMA ReturnType ==
  ASSUME TypeInv, NEW t \in Threads, Return(t)
  PROVE  /\ call' \in [Threads -> Calls]
         /\ \A u \in Threads : call'[u].pc # "idle" => call'[u].ord \in Orders
         /\ ReadsBounded'
  BY IdleType DEF Return, TypeInv, TypeOK, ReadsBounded, Idle

LEMMA MoveToType ==
  ASSUME TypeInv, NEW o \in Orders, NEW w \in WorkflowStatus, MoveTo(o, w)
  PROVE  /\ wf' \in [Orders -> WorkflowStatus]
         /\ status' \in [Orders -> LegacyValues]
         /\ revived' \in [Orders -> BOOLEAN]
  BY LegacyType DEF MoveTo, TypeInv, TypeOK

LEMMA TypeInit == Init => TypeInv
  BY ConstantsAssumption, IdleType
  DEF Init, TypeInv, TypeOK, ReadsBounded, Idle, WorkflowStatus, LegacyValues

\* Accepting an order, by hand or by timeout, from any call slot.
LEMMA AcceptType ==
  ASSUME TypeInv, NEW t \in Threads, NEW o \in Orders, NEW auto \in BOOLEAN,
         Accept(t, o, auto)
  PROVE  TypeInv'
  <1>1. /\ wf' \in [Orders -> WorkflowStatus]
        /\ status' \in [Orders -> LegacyValues]
        /\ revived' \in [Orders -> BOOLEAN]
    BY MoveToType DEF Accept, WorkflowStatus
  <1>2. /\ call' \in [Threads -> Calls]
        /\ \A u \in Threads : call'[u].pc # "idle" => call'[u].ord \in Orders
        /\ ReadsBounded'
    <2>1. CASE \E pc \in {"enqueue", "load"} : Begin(t, pc, o, "accept")
      BY <2>1, BeginType DEF PCs, PlainPCs, Sources
    <2>2. CASE UNCHANGED call
      BY <2>2 DEF TypeInv, TypeOK, ReadsBounded
    <2> QED
      BY <2>1, <2>2 DEF Accept
  <1>3. marker' \in [Orders -> {"none", "future", "due"}]
    BY DEF Accept, TypeInv, TypeOK
  <1> QED
    BY <1>1, <1>2, <1>3
    DEF Accept, TypeInv, TypeOK, payVars, riderVars, clockVars, searchVars, stockVars

LEMMA RetryType ==
  ASSUME TypeInv, NEW t \in Threads, NEW o \in Orders, DeliveryTimeout(t, o)
  PROVE  TypeInv'
  <1>1. CASE LastAttempt(o)
    BY <1>1 DEF DeliveryTimeout, TypeInv, TypeOK, ReadsBounded, lifeVars, payVars, riderVars,
                clockVars, leadVars, stockVars
  <1>2. CASE ~LastAttempt(o)
    <2>1. attempt[o] \in 0..MaxAttempts /\ attempt[o] < MaxAttempts
      BY <1>2, ConstantsAssumption DEF LastAttempt, TypeInv, TypeOK
    <2>2. [Idle EXCEPT !.pc = "retry", !.ord = o, !.att = attempt[o]] \in Calls
      BY <2>1, IdleType DEF Idle, Calls, PCs
    <2> DEFINE new == [Idle EXCEPT !.pc = "retry", !.ord = o, !.att = attempt[o]]
    <2>3. call' = [call EXCEPT ![t] = new] /\ call \in [Threads -> Calls]
      BY <1>2 DEF DeliveryTimeout, TypeInv, TypeOK
    <2>4. new.pc = "retry" /\ new.ord = o /\ new.att = attempt[o]
      BY DEF Idle
    <2> HIDE DEF new
    <2>5. call' \in [Threads -> Calls]
      BY <2>2, <2>3 DEF new
    <2>6. \A u \in Threads : call'[u] = IF u = t THEN new ELSE call[u]
      BY <2>3
    <2>7. \A u \in Threads : call'[u].pc # "idle" => call'[u].ord \in Orders
      BY <2>4, <2>6 DEF TypeInv, TypeOK
    <2>8. ReadsBounded'
      BY <2>1, <2>4, <2>6, ConstantsAssumption DEF TypeInv, ReadsBounded
    <2> QED
      BY <1>2, <2>5, <2>7, <2>8 DEF DeliveryTimeout, TypeInv, TypeOK, lifeVars, payVars, riderVars,
                clockVars, leadVars, stockVars
  <1> QED
    BY <1>1, <1>2

\* What a request or a worker does when it starts on an order.
LEMMA ArriveType ==
  ASSUME TypeInv, NEW t \in Requests, NEW o \in Orders, Arrive(t, o)
  PROVE  TypeInv'
  <1> USE DEF lifeVars, payVars, riderVars, clockVars, searchVars, leadVars, stockVars
  <1>0. t \in Threads
    BY DEF Threads
  <1>1. CASE PaymentCaptured(t, o)
    BY <1>0, <1>1, BeginType DEF PaymentCaptured, PCs, PlainPCs, Sources, TypeInv, TypeOK
  <1>2. CASE SellerAccept(t, o) \/ SellerTimeout(t, o)
    BY <1>0, <1>2, AcceptType DEF SellerAccept, SellerTimeout
  <1>3. CASE SellerReject(t, o)
    BY <1>0, <1>3, BeginType, MoveToType
    DEF SellerReject, PCs, PlainPCs, Sources, WorkflowStatus, TypeInv, TypeOK
  <1>4. CASE SetPreparationTime(t, o)
    <2>1. PICK plan \in Plans \cap PrepPlans :
            /\ marker' = [marker EXCEPT ![o] = IF plan = "delayed" THEN "future" ELSE "due"]
            /\ Begin(t, "requeue", o, IF plan = "delayed" THEN "later" ELSE "prep")
      BY <1>4 DEF SetPreparationTime
    <2>2. \E src \in Sources : Begin(t, "requeue", o, src)
      BY <2>1 DEF Sources
    <2>3. /\ call' \in [Threads -> Calls]
          /\ \A u \in Threads : call'[u].pc # "idle" => call'[u].ord \in Orders
          /\ ReadsBounded'
      BY <1>0, <2>2, BeginType DEF PCs, PlainPCs
    <2> QED
      BY <1>4, <2>1, <2>3 DEF SetPreparationTime, TypeInv, TypeOK
  <1>5. CASE Dispatch(t, o)
    BY <1>0, <1>5, BeginType DEF Dispatch, PCs, PlainPCs, Sources, WorkflowStatus, TypeInv, TypeOK
  <1>6. CASE Pack(t, o)
    <2>1. \E pc \in {"load", "stamp"} : Begin(t, pc, o, "pack")
      BY <1>6 DEF Pack
    <2>2. /\ call' \in [Threads -> Calls]
          /\ \A u \in Threads : call'[u].pc # "idle" => call'[u].ord \in Orders
          /\ ReadsBounded'
      BY <1>0, <2>1, BeginType DEF PCs, PlainPCs, Sources
    <2> QED
      BY <1>6, <2>2 DEF Pack, TypeInv, TypeOK
  <1>7. CASE BroadcastJob(t, o)
    <2>1. CASE StartGuard(o)
      <3>1. Begin(t, "load", o, "job") /\ job' = [job EXCEPT ![o] = "active"]
        BY <1>7, <2>1 DEF BroadcastJob
      <3>2. /\ call' \in [Threads -> Calls]
            /\ \A u \in Threads : call'[u].pc # "idle" => call'[u].ord \in Orders
            /\ ReadsBounded'
        BY <1>0, <3>1, BeginType DEF PCs, PlainPCs, Sources
      <3>3. job' \in [Orders -> {"none", "waiting", "stale", "active"}]
        BY <3>1 DEF TypeInv, TypeOK
      <3> QED
        BY <1>7, <3>2, <3>3 DEF BroadcastJob, TypeInv, TypeOK
    <2>2. CASE ~StartGuard(o)
      BY <1>7, <2>2 DEF BroadcastJob, TypeInv, TypeOK, ReadsBounded
    <2> QED
      BY <2>1, <2>2
  <1>8. CASE DeliveryTimeout(t, o)
    BY <1>0, <1>8, RetryType
  <1>9. CASE CancelRequest(t, o)
    <2>1. [Idle EXCEPT !.pc = "cancel", !.ord = o, !.grace = ~graceOver[o]] \in Calls
      BY IdleType DEF Idle, Calls, PCs
    <2> QED
      BY <1>0, <1>9, <2>1 DEF CancelRequest, TypeInv, TypeOK, ReadsBounded, Idle
  <1>10. ASSUME NEW r \in Riders, AcceptCheck(t, o, r)
         PROVE  TypeInv'
    <2>1. [Idle EXCEPT !.pc = "assign", !.ord = o, !.rid = r] \in Calls
      BY IdleType DEF Idle, Calls, PCs
    <2> QED
      BY <1>0, <1>10, <2>1 DEF AcceptCheck, TypeInv, TypeOK, ReadsBounded, Idle
  <1>11. ASSUME NEW r \in Riders, SkipRequest(t, o, r)
         PROVE  TypeInv'
    <2>1. [Idle EXCEPT !.pc = "skip", !.ord = o, !.rid = r] \in Calls
      BY IdleType DEF Idle, Calls, PCs
    <2> QED
      BY <1>0, <1>11, <2>1 DEF SkipRequest, TypeInv, TypeOK, ReadsBounded, Idle
  <1> QED
    BY <1>1, <1>2, <1>3, <1>4, <1>5, <1>6, <1>7, <1>8, <1>9, <1>10, <1>11 DEF Arrive

\* A call in flight has an order, an attempt and what it read.
LEMMA InFlight ==
  ASSUME TypeInv, NEW t \in Threads, call[t].pc # "idle"
  PROVE  /\ call[t].ord \in Orders
         /\ call[t].rid \in Riders \cup {NoRider}
         /\ call[t].att \in 0..MaxAttempts
         /\ call[t] \in Calls
  BY DEF TypeInv, TypeOK, Calls

\* The steps of a call in flight.
LEMMA ContinueType ==
  ASSUME TypeInv, NEW t \in Threads, Continue(t)
  PROVE  TypeInv'
  <1> USE DEF lifeVars, payVars, riderVars, clockVars, searchVars, leadVars, stockVars
  <1> DEFINE o == call[t].ord
  <1>0. call[t].pc # "idle" /\ o \in Orders
    BY InFlight
    DEF Continue, At, MoveToSellerPending, EnqueueBroadcast, RequeueBroadcast, LoadOrder,
        SaveSearch, ArmSearch, UndoDispatch, Rebroadcast, AssignRider, CancelOrder,
        Compensate, ReleaseStock, MarkReleased, StampPacked, SkipOrder
  <1>1. CASE MoveToSellerPending(t)
    BY <1>0, <1>1, ReturnType DEF MoveToSellerPending, WorkflowStatus, TypeInv, TypeOK
  <1>2. CASE EnqueueBroadcast(t)
    BY <1>0, <1>2, ReturnType DEF EnqueueBroadcast, TypeInv, TypeOK
  <1>3. CASE RequeueBroadcast(t)
    <2>1. job' \in [Orders -> {"none", "waiting", "stale", "active"}]
      BY <1>0, <1>3 DEF RequeueBroadcast, TypeInv, TypeOK
    <2>2. /\ call' \in [Threads -> Calls]
          /\ \A u \in Threads : call'[u].pc # "idle" => call'[u].ord \in Orders
          /\ ReadsBounded'
      BY <1>0, <1>3, ReturnType, GotoType DEF RequeueBroadcast, PCs, PlainPCs
    <2> QED
      BY <1>3, <2>1, <2>2 DEF RequeueBroadcast, TypeInv, TypeOK
  <1>4. CASE LoadOrder(t)
    <2> DEFINE new == [call[t] EXCEPT !.pc = "save", !.seenWf = wf[o], !.seenStatus = status[o],
                                      !.seenLead = marker[o] # "none"]
    <2>1. wf[o] \in WorkflowStatus /\ status[o] \in LegacyValues
      BY <1>0 DEF TypeInv, TypeOK
    <2>2. new \in Calls
      BY <1>0, <2>1, InFlight DEF Calls, PCs
    <2>3. call' = [call EXCEPT ![t] = new] /\ call \in [Threads -> Calls]
      BY <1>4 DEF LoadOrder, TypeInv, TypeOK
    <2>4. new.pc = "save" /\ new.ord = o
      BY InFlight, <1>0 DEF Calls
    <2> HIDE DEF new
    <2>5. call' \in [Threads -> Calls]
      BY <2>2, <2>3
    <2>6. \A u \in Threads : call'[u] = IF u = t THEN new ELSE call[u]
      BY <2>3
    <2>7. \A u \in Threads : call'[u].pc # "idle" => call'[u].ord \in Orders
      BY <1>0, <2>4, <2>6 DEF TypeInv, TypeOK
    <2>8. ReadsBounded'
      BY <2>4, <2>6 DEF TypeInv, ReadsBounded
    <2> QED
      BY <1>4, <2>5, <2>7, <2>8 DEF LoadOrder, TypeInv, TypeOK
  <1>5. CASE SaveSearch(t)
    <2>1. wf' \in [Orders -> WorkflowStatus] /\ revived' \in [Orders -> BOOLEAN]
      BY <1>0, <1>5 DEF SaveSearch, Overwrite, WorkflowStatus, TypeInv, TypeOK
    <2>2. status' \in [Orders -> LegacyValues]
      BY <1>0, <1>5 DEF SaveSearch, LegacyValues, TypeInv, TypeOK
    <2>3. /\ window' \in [Orders -> {"unset", "open", "over"}]
          /\ gaveUp' \in [Orders -> BOOLEAN]
          /\ marker' \in [Orders -> {"none", "future", "due"}]
      BY <1>0, <1>5 DEF SaveSearch, TypeInv, TypeOK
    <2>4. attempt' \in [Orders -> 0..MaxAttempts]
      BY <1>0, <1>5, ConstantsAssumption DEF SaveSearch, TypeInv, TypeOK
    <2>5. /\ call' \in [Threads -> Calls]
          /\ \A u \in Threads : call'[u].pc # "idle" => call'[u].ord \in Orders
          /\ ReadsBounded'
      BY <1>0, <1>5, GotoType DEF SaveSearch, PCs, PlainPCs
    <2> QED
      BY <1>5, <2>1, <2>2, <2>3, <2>4, <2>5 DEF SaveSearch, TypeInv, TypeOK
  <1>6. CASE ArmSearch(t)
    BY <1>0, <1>6, ReturnType DEF ArmSearch, JobDone, TypeInv, TypeOK
  <1>7. CASE UndoDispatch(t)
    BY <1>0, <1>7, ReturnType DEF UndoDispatch, Overwrite, WorkflowStatus, TypeInv, TypeOK
  <1>8. CASE Rebroadcast(t)
    <2>1. NextAttempt(t) \in 0..MaxAttempts
      BY <1>0, <1>8, InFlight, ConstantsAssumption
      DEF Rebroadcast, At, NextAttempt, TypeInv, ReadsBounded
    <2>2. \/ /\ window' = [window EXCEPT ![o] = "open"]
             /\ attempt' = [attempt EXCEPT ![o] = NextAttempt(t)]
             /\ gaveUp' = [gaveUp EXCEPT ![o] = FALSE]
          \/ UNCHANGED searchVars
      BY <1>8 DEF Rebroadcast
    <2>3. attempt' \in [Orders -> 0..MaxAttempts]
      <3> HIDE DEF NextAttempt
      <3> QED
        BY <2>1, <2>2 DEF TypeInv, TypeOK
    <2>4. window' \in [Orders -> {"unset", "open", "over"}]
      <3>1. window' = window \/ window' = [window EXCEPT ![o] = "open"]
        BY <2>2
      <3> QED
        BY <3>1 DEF TypeInv, TypeOK
    <2>5. gaveUp' \in [Orders -> BOOLEAN]
      <3>1. gaveUp' = gaveUp \/ gaveUp' = [gaveUp EXCEPT ![o] = FALSE]
        BY <2>2
      <3> QED
        BY <3>1 DEF TypeInv, TypeOK
    <2> QED
      BY <1>8, <2>3, <2>4, <2>5, ReturnType DEF Rebroadcast, TypeInv, TypeOK
  <1>9. CASE AssignRider(t)
    <2>1. /\ wf' \in [Orders -> WorkflowStatus]
          /\ status' \in [Orders -> LegacyValues]
          /\ revived' \in [Orders -> BOOLEAN]
      BY <1>0, <1>9, MoveToType DEF AssignRider, WorkflowStatus, TypeInv, TypeOK
    <2>2. rider' \in [Orders -> Riders \cup {NoRider}] /\ step' \in [Orders -> 0..4]
      BY <1>0, <1>9, InFlight DEF AssignRider, TypeInv, TypeOK
    <2> QED
      BY <1>9, <2>1, <2>2, ReturnType DEF AssignRider, TypeInv, TypeOK
  <1>10. CASE CancelOrder(t)
    <2>1. /\ wf' \in [Orders -> WorkflowStatus]
          /\ status' \in [Orders -> LegacyValues]
          /\ revived' \in [Orders -> BOOLEAN]
      BY <1>0, <1>10, MoveToType DEF CancelOrder, WorkflowStatus, TypeInv, TypeOK
    <2>2. /\ call' \in [Threads -> Calls]
          /\ \A u \in Threads : call'[u].pc # "idle" => call'[u].ord \in Orders
          /\ ReadsBounded'
      BY <1>0, <1>10, ReturnType, GotoType DEF CancelOrder, PCs, PlainPCs
    <2> QED
      BY <1>10, <2>1, <2>2 DEF CancelOrder, TypeInv, TypeOK
  <1>11. CASE Compensate(t)
    <2>1. /\ call' \in [Threads -> Calls]
          /\ \A u \in Threads : call'[u].pc # "idle" => call'[u].ord \in Orders
          /\ ReadsBounded'
      BY <1>0, <1>11, ReturnType, GotoType DEF Compensate, PCs, PlainPCs
    <2> QED
      BY <1>11, <2>1 DEF Compensate, TypeInv, TypeOK
  <1>12. CASE ReleaseStock(t)
    <2>1. released' \in [Orders -> 0..2]
      BY <1>0, <1>12 DEF ReleaseStock, TypeInv, TypeOK
    <2>2. /\ call' \in [Threads -> Calls]
          /\ \A u \in Threads : call'[u].pc # "idle" => call'[u].ord \in Orders
          /\ ReadsBounded'
      BY <1>0, <1>12, GotoType DEF ReleaseStock, PCs, PlainPCs
    <2> QED
      BY <1>12, <2>1, <2>2 DEF ReleaseStock, TypeInv, TypeOK
  <1>13. CASE MarkReleased(t)
    BY <1>0, <1>13, ReturnType DEF MarkReleased, TypeInv, TypeOK
  <1>14. CASE StampPacked(t)
    BY <1>0, <1>14, ReturnType DEF StampPacked, LegacyValues, TypeInv, TypeOK
  <1>15. CASE SkipOrder(t)
    <2>1. call[t].rid \in Riders
      BY <1>15 DEF SkipOrder, At, TypeInv, ReadsBounded
    <2>2. skippedBy' \in [Orders -> SUBSET Riders]
      BY <1>0, <1>15, <2>1 DEF SkipOrder, TypeInv, TypeOK
    <2> QED
      BY <1>15, <2>2, ReturnType DEF SkipOrder, TypeInv, TypeOK
  <1> QED
    BY <1>1, <1>2, <1>3, <1>4, <1>5, <1>6, <1>7, <1>8, <1>9, <1>10, <1>11, <1>12, <1>13,
       <1>14, <1>15
    DEF Continue

\* The steps of the poll loop, of riders, of time and of the gateway.
LEMMA OrderStepType ==
  ASSUME TypeInv, NEW o \in Orders, Tick(o) \/ Poll(o) \/ PaymentReported(o) \/ RiderMoves(o)
  PROVE  TypeInv'
  <1> USE DEF lifeVars, payVars, riderVars, clockVars, searchVars, leadVars, stockVars
  <1>0. Poller \in Threads
    BY DEF Threads
  <1>1. CASE WaitEnds(o)
    BY <1>1 DEF WaitEnds, TypeInv, TypeOK, ReadsBounded
  <1>2. CASE GraceEnds(o)
    BY <1>2 DEF GraceEnds, TypeInv, TypeOK, ReadsBounded
  <1>3. CASE WindowEnds(o)
    BY <1>3 DEF WindowEnds, TypeInv, TypeOK, ReadsBounded
  <1>4. CASE LeadEnds(o)
    BY <1>4 DEF LeadEnds, TypeInv, TypeOK, ReadsBounded
  <1>5. CASE CancelUnpaid(o)
    BY <1>0, <1>5, BeginType, MoveToType
    DEF CancelUnpaid, PCs, PlainPCs, Sources, WorkflowStatus, TypeInv, TypeOK
  <1>6. CASE SellerTimeout(Poller, o)
    BY <1>0, <1>6, AcceptType DEF SellerTimeout
  <1>7. CASE PollBroadcast(o)
    BY <1>0, <1>7, BeginType DEF PollBroadcast, PCs, PlainPCs, Sources, TypeInv, TypeOK
  <1>8. CASE DeliveryTimeout(Poller, o)
    BY <1>0, <1>8, RetryType
  <1>9. CASE PaymentFailed(o)
    <2>1. released' \in [Orders -> 0..2] /\ reservation' \in [Orders -> {"HELD", "RELEASED"}]
      BY <1>9 DEF PaymentFailed, TypeInv, TypeOK
    <2> QED
      BY <1>9, <2>1, MoveToType DEF PaymentFailed, WorkflowStatus, TypeInv, TypeOK, ReadsBounded
  <1>10. CASE ArriveAtStore(o)
    BY <1>10, MoveToType DEF ArriveAtStore, WorkflowStatus, TypeInv, TypeOK, ReadsBounded
  <1>11. CASE ConfirmPickup(o)
    BY <1>11, MoveToType DEF ConfirmPickup, WorkflowStatus, TypeInv, TypeOK, ReadsBounded
  <1>12. CASE AdvanceRiderUi(o)
    BY <1>12 DEF AdvanceRiderUi, TypeInv, TypeOK, ReadsBounded
  <1>13. CASE HandOver(o)
    BY <1>13, MoveToType DEF HandOver, WorkflowStatus, TypeInv, TypeOK, ReadsBounded
  <1>14. CASE PaymentPending(o)
    BY <1>14 DEF PaymentPending, TypeInv, TypeOK, ReadsBounded
  <1> QED
    BY <1>1, <1>2, <1>3, <1>4, <1>5, <1>6, <1>7, <1>8, <1>9, <1>10, <1>11, <1>12, <1>13, <1>14
    DEF Tick, Poll, PaymentReported, RiderMoves

\* A call that fails or dies.
LEMMA FaultType ==
  ASSUME TypeInv, NEW t \in Threads, StartFails(t) \/ Crash(t)
  PROVE  TypeInv'
  <1> USE DEF lifeVars, payVars, riderVars, clockVars, searchVars, leadVars, stockVars
  <1>1. call[t].pc # "idle" /\ call[t].ord \in Orders
    BY InFlight DEF StartFails, Crash
  <1>2. faults' \in 0..MaxFaults
    BY ConstantsAssumption DEF StartFails, Crash, TypeInv, TypeOK
  <1>3. job' \in [Orders -> {"none", "waiting", "stale", "active"}]
    BY <1>1 DEF StartFails, JobDone, Crash, TypeInv, TypeOK
  <1>4. /\ call' \in [Threads -> Calls]
        /\ \A u \in Threads : call'[u].pc # "idle" => call'[u].ord \in Orders
        /\ ReadsBounded'
    BY <1>1, ReturnType, GotoType DEF StartFails, Crash, PCs, PlainPCs
  <1> QED
    BY <1>2, <1>3, <1>4 DEF StartFails, Crash, TypeInv, TypeOK

LEMMA TypeStep == TypeInv /\ [Next]_vars => TypeInv'
  <1> SUFFICES ASSUME TypeInv, [Next]_vars PROVE TypeInv'
    OBVIOUS
  <1>1. CASE UNCHANGED vars
    BY <1>1 DEF vars, lifeVars, payVars, riderVars, clockVars, searchVars, leadVars, stockVars,
                TypeInv, TypeOK, ReadsBounded
  <1>2. CASE Next
    BY <1>2, OrderStepType, ArriveType, ContinueType, FaultType DEF Next
  <1> QED
    BY <1>1, <1>2

\* Every behaviour keeps its types, and no retry in flight can write an attempt
\* beyond MAX_DELIVERY_SEARCH_ATTEMPTS (processDeliveryTimeoutJob).
THEOREM TypeInvariant == Spec => []TypeInv
  BY TypeInit, TypeStep, PTL DEF Spec

\* Type correctness of the order documents and of the calls in flight.
THEOREM TypeCorrect == Spec => []TypeOK
  BY TypeInvariant, PTL DEF TypeInv

-----------------------------------------------------------------------------
(* The retry loop of the search.                                           *)

\* Only the end of a search window, a retry and the start of a search touch
\* the attempt and the end of the retry loop.
LEMMA SearchFrame ==
  ASSUME [Next]_vars
  PROVE  \/ UNCHANGED <<attempt, gaveUp>>
         \/ \E t \in Threads : SaveSearch(t) \/ Rebroadcast(t)
         \/ \E t \in Threads, o \in Orders : DeliveryTimeout(t, o)
  <1> USE DEF searchVars
  <1>1. CASE UNCHANGED vars
    BY <1>1 DEF vars
  <1>2. ASSUME NEW o \in Orders, Tick(o) \/ PaymentReported(o) \/ RiderMoves(o)
        PROVE  UNCHANGED <<attempt, gaveUp>>
    BY <1>2 DEF Tick, WaitEnds, GraceEnds, WindowEnds, LeadEnds, PaymentReported, PaymentFailed,
        PaymentPending, RiderMoves,
                ArriveAtStore, ConfirmPickup, AdvanceRiderUi, HandOver
  <1>3. ASSUME NEW o \in Orders, Poll(o)
        PROVE  UNCHANGED <<attempt, gaveUp>> \/ DeliveryTimeout(Poller, o)
    BY <1>3 DEF Poll, CancelUnpaid, SellerTimeout, Accept, PollBroadcast
  <1>4. ASSUME NEW t \in Requests, NEW o \in Orders, Arrive(t, o)
        PROVE  UNCHANGED <<attempt, gaveUp>> \/ DeliveryTimeout(t, o)
    BY <1>4 DEF Arrive, PaymentCaptured, SellerAccept, SellerTimeout, Accept, SellerReject,
                SetPreparationTime, Dispatch, Pack, BroadcastJob, CancelRequest,
                AcceptCheck, SkipRequest
  <1>5. ASSUME NEW t \in Threads, Continue(t) \/ StartFails(t) \/ Crash(t)
        PROVE  UNCHANGED <<attempt, gaveUp>> \/ SaveSearch(t) \/ Rebroadcast(t)
    BY <1>5 DEF Continue, MoveToSellerPending, EnqueueBroadcast, RequeueBroadcast, LoadOrder,
                ArmSearch, UndoDispatch, StampPacked, SkipOrder, AssignRider, CancelOrder,
                Compensate, ReleaseStock, MarkReleased, StartFails, Crash
  <1> QED
    BY <1>1, <1>2, <1>3, <1>4, <1>5 DEF Next, Threads

LEMMA HardStopStep ==
  ASSUME TypeInv, TypeInv', HardStop, [Next]_vars
  PROVE  HardStop'
  <1>0. MaxAttempts \in Nat /\ \A o \in Orders : attempt'[o] \in 0..MaxAttempts
    BY ConstantsAssumption DEF TypeInv, TypeOK
  <1>1. CASE UNCHANGED <<attempt, gaveUp>>
    BY <1>1 DEF HardStop
  <1>2. ASSUME NEW t \in Threads, SaveSearch(t) \/ Rebroadcast(t)
        PROVE  \A o \in Orders : gaveUp'[o] => attempt'[o] = MaxAttempts
    BY <1>2, InFlight
    DEF SaveSearch, Rebroadcast, At, searchVars, HardStop, TypeInv, TypeOK
  <1>3. ASSUME NEW t \in Threads, NEW p \in Orders, DeliveryTimeout(t, p)
        PROVE  \A o \in Orders : gaveUp'[o] => attempt'[o] = MaxAttempts
    <2>1. UNCHANGED attempt /\ (UNCHANGED gaveUp \/
             (LastAttempt(p) /\ gaveUp' = [gaveUp EXCEPT ![p] = TRUE]))
      BY <1>3 DEF DeliveryTimeout
    <2>2. LastAttempt(p) => attempt[p] = MaxAttempts
      BY <1>0, <2>1 DEF LastAttempt
    <2> QED
      BY <2>1, <2>2 DEF HardStop, TypeInv, TypeOK
  <1>4. \A o \in Orders : gaveUp'[o] => attempt'[o] = MaxAttempts
    BY <1>1, <1>2, <1>3, SearchFrame DEF HardStop
  <1> QED
    BY <1>0, <1>4 DEF HardStop

\* The retry loop of processDeliveryTimeoutJob never passes
\* MAX_DELIVERY_SEARCH_ATTEMPTS and gives up at that attempt only, with any
\* number of workers, polls and restarted searches.
THEOREM HardStopHolds == Spec => []HardStop
  <1>1. Init => HardStop
    BY ConstantsAssumption DEF Init, HardStop
  <1>2. TypeInv /\ TypeInv' /\ HardStop /\ [Next]_vars => HardStop'
    BY HardStopStep
  <1> QED
    BY <1>1, <1>2, TypeInvariant, PTL DEF Spec

-----------------------------------------------------------------------------
(* The rider of an order.                                                  *)

OnTheRoad == ActiveStatuses \cup {"DELIVERED"}

\* A step that does not assign a rider leaves every rider, and puts no order on
\* the road that has none.
LEMMA RiderFrame ==
  ASSUME TypeInv, [Next]_vars
  PROVE  \/ \E t \in Threads : AssignRider(t)
         \/ /\ UNCHANGED rider
            /\ \A o \in Orders :
                 wf'[o] \in OnTheRoad => wf[o] \in OnTheRoad \/ rider[o] # NoRider
  <1> USE DEF riderVars, lifeVars, OnTheRoad, ActiveStatuses
  <1> DEFINE Frame == /\ UNCHANGED rider
                      /\ \A o \in Orders :
                           wf'[o] \in OnTheRoad => wf[o] \in OnTheRoad \/ rider[o] # NoRider
  <1>0. wf \in [Orders -> WorkflowStatus]
    BY DEF TypeInv, TypeOK
  <1>1. CASE UNCHANGED vars
    BY <1>1 DEF vars
  <1>2. ASSUME NEW o \in Orders, Tick(o) \/ PaymentReported(o) \/ RiderMoves(o)
        PROVE  Frame
    BY <1>0, <1>2
    DEF Tick, WaitEnds, GraceEnds, WindowEnds, LeadEnds, PaymentReported, PaymentFailed,
        PaymentPending, RiderMoves,
        ArriveAtStore, ConfirmPickup, AdvanceRiderUi, HandOver, MoveTo
  <1>3. ASSUME NEW o \in Orders, Poll(o)
        PROVE  Frame
    BY <1>0, <1>3
    DEF Poll, CancelUnpaid, SellerTimeout, Accept, PollBroadcast, DeliveryTimeout, MoveTo
  <1>4. ASSUME NEW t \in Requests, NEW o \in Orders, Arrive(t, o)
        PROVE  Frame
    BY <1>0, <1>4
    DEF Arrive, PaymentCaptured, SellerAccept, SellerTimeout, Accept, SellerReject,
        SetPreparationTime, Dispatch, Pack, BroadcastJob, CancelRequest,
        AcceptCheck, SkipRequest, DeliveryTimeout, MoveTo
  <1>5. ASSUME NEW t \in Threads, Continue(t) \/ StartFails(t) \/ Crash(t)
        PROVE  Frame \/ AssignRider(t)
    BY <1>0, <1>5
    DEF Continue, MoveToSellerPending, EnqueueBroadcast, RequeueBroadcast, LoadOrder,
        ArmSearch, UndoDispatch, StampPacked, SkipOrder, CancelOrder, SaveSearch,
        Rebroadcast, Overwrite, Compensate, ReleaseStock, MarkReleased, StartFails, Crash, MoveTo
  <1> QED
    BY <1>1, <1>2, <1>3, <1>4, <1>5 DEF Next

\* Assigning a rider changes the order of the call alone, which had none.
LEMMA AssignEffect ==
  ASSUME TypeInv, NEW t \in Threads, AssignRider(t)
  PROVE  /\ \A o \in Orders : rider[o] # NoRider => rider'[o] = rider[o]
         /\ \A o \in Orders :
              wf'[o] \in OnTheRoad => wf[o] \in OnTheRoad \/ rider'[o] # NoRider
  <1> DEFINE o == call[t].ord
             r == call[t].rid
  <1>1. o \in Orders /\ r \in Riders
    BY InFlight DEF AssignRider, At, TypeInv, ReadsBounded
  <1>2. r # NoRider
    BY <1>1, ConstantsAssumption
  <1>3. CASE Assignable(o, r)
    <2>1. rider[o] = NoRider /\ rider' = [rider EXCEPT ![o] = r]
      BY <1>3 DEF AssignRider, Assignable
    <2>2. wf' = [wf EXCEPT ![o] = "DELIVERY_ASSIGNED"]
      BY <1>3 DEF AssignRider, MoveTo
    <2> QED
      BY <1>1, <1>2, <2>1, <2>2 DEF TypeInv, TypeOK, OnTheRoad, ActiveStatuses
  <1>4. CASE ~Assignable(o, r)
    BY <1>4 DEF AssignRider, lifeVars
  <1> QED
    BY <1>3, <1>4

LEMMA OnTheRoadStep ==
  ASSUME TypeInv, OnTheRoadHasRider, [Next]_vars
  PROVE  OnTheRoadHasRider'
  <1>1. \A o \in Orders : rider[o] # NoRider => rider'[o] = rider[o]
    BY RiderFrame, AssignEffect
  <1>2. \A o \in Orders :
          wf'[o] \in OnTheRoad =>
              wf[o] \in OnTheRoad \/ rider[o] # NoRider \/ rider'[o] # NoRider
    BY RiderFrame, AssignEffect
  <1> QED
    BY <1>1, <1>2 DEF OnTheRoadHasRider, OnTheRoad

\* An order on its way to the customer has a rider: no interleaving of saves,
\* undone dispatches and acceptances leaves it on the road with nobody.
THEOREM OnTheRoadHolds == Spec => []OnTheRoadHasRider
  <1>1. Init => OnTheRoadHasRider
    BY DEF Init, OnTheRoadHasRider, ActiveStatuses
  <1>2. TypeInv /\ OnTheRoadHasRider /\ [Next]_vars => OnTheRoadHasRider'
    BY OnTheRoadStep
  <1> QED
    BY <1>1, <1>2, TypeInvariant, PTL DEF Spec

\* deliveryAcceptAtomic is the only writer of the rider, and it claims an order
\* that has none: the first rider keeps it.
THEOREM FirstRiderWinsHolds == Spec => FirstRiderWins
  <1>1. TypeInv /\ [Next]_vars =>
          [\A o \in Orders : rider[o] # NoRider => rider'[o] = rider[o]]_vars
    BY RiderFrame, AssignEffect
  <1> QED
    BY <1>1, TypeInvariant, PTL DEF Spec, FirstRiderWins

-----------------------------------------------------------------------------
(* The riders' limit.                                                      *)

\* The acceptances of a rider that passed their check and have not claimed yet.
Claims(r) == {t \in Requests : call[t].pc = "assign" /\ call[t].rid = r}

\* An acceptance in flight may become an active order, and only requests accept.
LimitInv ==
    /\ call[Poller].pc # "assign"
    /\ \A r \in Riders :
         Cardinality(Active(r)) + Cardinality(Claims(r)) <= MaxActive - 1 + Cardinality(Requests)

\* A step begins no claim and changes none.
NoNewClaim == \A u \in Threads : call'[u].pc = "assign" => call'[u] = call[u]

LEMMA SlotClaim ==
  ASSUME TypeInv, NEW t \in Threads, NEW c, call' = [call EXCEPT ![t] = c], c.pc # "assign"
  PROVE  NoNewClaim
  <1>1. \A u \in Threads : call'[u] = IF u = t THEN c ELSE call[u]
    BY DEF TypeInv, TypeOK
  <1> QED
    BY <1>1 DEF NoNewClaim

LEMMA BeginClaim ==
  ASSUME TypeInv, NEW t \in Threads, NEW o, NEW pc, NEW src, Begin(t, pc, o, src), pc # "assign"
  PROVE  NoNewClaim
  <1> DEFINE c == [Idle EXCEPT !.pc = pc, !.ord = o, !.src = src]
  <1>1. c.pc = pc
    BY DEF Idle
  <1>2. call' = [call EXCEPT ![t] = c]
    BY DEF Begin
  <1> HIDE DEF c
  <1> QED
    BY <1>1, <1>2, SlotClaim

LEMMA GotoClaim ==
  ASSUME TypeInv, NEW t \in Threads, NEW pc, Goto(t, pc), pc # "assign"
  PROVE  NoNewClaim
  <1> DEFINE c == [call[t] EXCEPT !.pc = pc]
  <1>1. c.pc = pc
    BY DEF TypeInv, TypeOK, Calls
  <1>2. call' = [call EXCEPT ![t] = c]
    BY DEF Goto
  <1> HIDE DEF c
  <1> QED
    BY <1>1, <1>2, SlotClaim

LEMMA ReturnClaim ==
  ASSUME TypeInv, NEW t \in Threads, Return(t)
  PROVE  NoNewClaim
  <1>1. Idle.pc # "assign"
    BY DEF Idle
  <1>2. call' = [call EXCEPT ![t] = Idle]
    BY DEF Return
  <1> QED
    BY <1>1, <1>2, SlotClaim

LEMMA AcceptClaim ==
  ASSUME TypeInv, NEW t \in Threads, NEW o \in Orders, NEW auto \in BOOLEAN, Accept(t, o, auto)
  PROVE  NoNewClaim
  <1>1. UNCHANGED call \/ \E pc \in {"enqueue", "load"} : Begin(t, pc, o, "accept")
    BY DEF Accept
  <1> QED
    BY <1>1, BeginClaim DEF NoNewClaim

LEMMA TimeoutClaim ==
  ASSUME TypeInv, NEW t \in Threads, NEW o \in Orders, DeliveryTimeout(t, o)
  PROVE  NoNewClaim
  <1> DEFINE c == [Idle EXCEPT !.pc = "retry", !.ord = o, !.att = attempt[o]]
  <1>1. c.pc = "retry"
    BY DEF Idle
  <1>2. UNCHANGED call \/ call' = [call EXCEPT ![t] = c]
    BY DEF DeliveryTimeout
  <1> HIDE DEF c
  <1> QED
    BY <1>1, <1>2, SlotClaim DEF NoNewClaim

LEMMA ArriveClaim ==
  ASSUME TypeInv, NEW t \in Requests, NEW o \in Orders, Arrive(t, o),
         \A r \in Riders : ~AcceptCheck(t, o, r)
  PROVE  NoNewClaim
  <1>0. t \in Threads
    BY DEF Threads
  <1>1. CASE SellerAccept(t, o) \/ SellerTimeout(t, o) \/ DeliveryTimeout(t, o)
    BY <1>0, <1>1, AcceptClaim, TimeoutClaim DEF SellerAccept, SellerTimeout
  <1>2. CASE \/ PaymentCaptured(t, o) \/ SellerReject(t, o) \/ SetPreparationTime(t, o)
             \/ Dispatch(t, o) \/ Pack(t, o) \/ BroadcastJob(t, o)
    <2>1. \/ UNCHANGED call
          \/ \E pc \in PCs \ {"assign"}, src \in Sources : Begin(t, pc, o, src)
      BY <1>2
      DEF PaymentCaptured, SellerReject, SetPreparationTime, Dispatch, Pack, BroadcastJob,
          PCs, Sources
    <2> QED
      BY <1>0, <2>1, BeginClaim DEF NoNewClaim
  <1>3. CASE CancelRequest(t, o)
    <2> DEFINE c == [Idle EXCEPT !.pc = "cancel", !.ord = o, !.grace = ~graceOver[o]]
    <2>1. c.pc = "cancel"
      BY DEF Idle
    <2>2. call' = [call EXCEPT ![t] = c]
      BY <1>3 DEF CancelRequest
    <2> HIDE DEF c
    <2> QED
      BY <1>0, <2>1, <2>2, SlotClaim
  <1>4. ASSUME NEW r \in Riders, SkipRequest(t, o, r)
        PROVE  NoNewClaim
    <2> DEFINE c == [Idle EXCEPT !.pc = "skip", !.ord = o, !.rid = r]
    <2>1. c.pc = "skip"
      BY DEF Idle
    <2>2. call' = [call EXCEPT ![t] = c]
      BY <1>4 DEF SkipRequest
    <2> HIDE DEF c
    <2> QED
      BY <1>0, <2>1, <2>2, SlotClaim
  <1> QED
    BY <1>1, <1>2, <1>3, <1>4 DEF Arrive

LEMMA ContinueClaim ==
  ASSUME TypeInv, NEW t \in Threads, Continue(t) \/ StartFails(t) \/ Crash(t)
  PROVE  NoNewClaim
  <1>1. CASE LoadOrder(t)
    <2> DEFINE o == call[t].ord
               c == [call[t] EXCEPT !.pc = "save", !.seenWf = wf[o], !.seenStatus = status[o],
                                    !.seenLead = marker[o] # "none"]
    <2>1. c.pc = "save"
      BY DEF TypeInv, TypeOK, Calls
    <2>2. call' = [call EXCEPT ![t] = c]
      BY <1>1 DEF LoadOrder
    <2> HIDE DEF c
    <2> QED
      BY <2>1, <2>2, SlotClaim
  <1>2. CASE ~LoadOrder(t)
    <2>1. Return(t) \/ \E pc \in PCs \ {"assign"} : Goto(t, pc)
      BY <1>2
      DEF Continue, MoveToSellerPending, EnqueueBroadcast, RequeueBroadcast, SaveSearch,
          ArmSearch, UndoDispatch, StampPacked, SkipOrder, Rebroadcast, AssignRider,
          CancelOrder, Compensate, ReleaseStock, MarkReleased, StartFails, Crash, PCs
    <2> QED
      BY <2>1, ReturnClaim, GotoClaim
  <1> QED
    BY <1>1, <1>2

\* Only an acceptance's check begins a claim.
LEMMA ClaimFrame ==
  ASSUME TypeInv, [Next]_vars
  PROVE  \/ NoNewClaim
         \/ \E t \in Requests, o \in Orders, r \in Riders : AcceptCheck(t, o, r)
  <1>1. CASE UNCHANGED vars
    BY <1>1 DEF vars, NoNewClaim
  <1>2. ASSUME NEW o \in Orders, Tick(o) \/ PaymentReported(o) \/ RiderMoves(o)
        PROVE  NoNewClaim
    BY <1>2
    DEF Tick, WaitEnds, GraceEnds, WindowEnds, LeadEnds, PaymentReported, PaymentFailed,
        PaymentPending, RiderMoves,
        ArriveAtStore, ConfirmPickup, AdvanceRiderUi, HandOver, NoNewClaim
  <1>3. ASSUME NEW o \in Orders, Poll(o)
        PROVE  NoNewClaim
    BY <1>3, BeginClaim, AcceptClaim, TimeoutClaim
    DEF Poll, CancelUnpaid, SellerTimeout, PollBroadcast, Threads
  <1> QED
    BY <1>1, <1>2, <1>3, ArriveClaim, ContinueClaim DEF Next

\* Only a claim makes an order active.
LEMMA ActiveFrame ==
  ASSUME TypeInv, [Next]_vars
  PROVE  \/ \E t \in Threads : AssignRider(t)
         \/ \A r \in Riders : Active(r)' \subseteq Active(r)
  <1> USE DEF riderVars, lifeVars, ActiveStatuses
  <1> DEFINE Frame == /\ UNCHANGED rider
                      /\ \A o \in Orders :
                           wf'[o] \in ActiveStatuses => wf[o] \in ActiveStatuses
  <1>0. wf \in [Orders -> WorkflowStatus]
    BY DEF TypeInv, TypeOK
  <1>1. CASE UNCHANGED vars
    BY <1>1 DEF vars, Active
  <1>2. ASSUME NEW o \in Orders, Tick(o) \/ PaymentReported(o) \/ RiderMoves(o)
        PROVE  Frame
    BY <1>0, <1>2
    DEF Tick, WaitEnds, GraceEnds, WindowEnds, LeadEnds, PaymentReported, PaymentFailed,
        PaymentPending, RiderMoves,
        ArriveAtStore, ConfirmPickup, AdvanceRiderUi, HandOver, MoveTo
  <1>3. ASSUME NEW o \in Orders, Poll(o)
        PROVE  Frame
    BY <1>0, <1>3
    DEF Poll, CancelUnpaid, SellerTimeout, Accept, PollBroadcast, DeliveryTimeout, MoveTo
  <1>4. ASSUME NEW t \in Requests, NEW o \in Orders, Arrive(t, o)
        PROVE  Frame
    BY <1>0, <1>4
    DEF Arrive, PaymentCaptured, SellerAccept, SellerTimeout, Accept, SellerReject,
        SetPreparationTime, Dispatch, Pack, BroadcastJob, CancelRequest,
        AcceptCheck, SkipRequest, DeliveryTimeout, MoveTo
  <1>5. ASSUME NEW t \in Threads, Continue(t) \/ StartFails(t) \/ Crash(t), ~AssignRider(t)
        PROVE  Frame
    BY <1>0, <1>5
    DEF Continue, MoveToSellerPending, EnqueueBroadcast, RequeueBroadcast, LoadOrder,
        ArmSearch, UndoDispatch, StampPacked, SkipOrder, CancelOrder, SaveSearch,
        Rebroadcast, Overwrite, Compensate, ReleaseStock, MarkReleased, StartFails, Crash, MoveTo
  <1>6. Frame => \A r \in Riders : Active(r)' \subseteq Active(r)
    BY DEF Active
  <1> HIDE DEF Frame
  <1> QED
    BY <1>1, <1>2, <1>3, <1>4, <1>5, <1>6 DEF Next

LEMMA LimitFinite ==
  /\ \A r \in Riders : IsFiniteSet(Active(r)) /\ IsFiniteSet(Claims(r))
  /\ \A r \in Riders : IsFiniteSet(Active(r)') /\ IsFiniteSet(Claims(r)')
  /\ \A r \in Riders : Cardinality(Claims(r)') <= Cardinality(Requests)
  /\ \A r \in Riders :
       /\ Cardinality(Active(r)) \in Nat /\ Cardinality(Active(r)') \in Nat
       /\ Cardinality(Claims(r)) \in Nat /\ Cardinality(Claims(r)') \in Nat
  /\ Cardinality(Requests) \in Nat
  <1>1. \A r \in Riders :
          /\ Active(r) \in SUBSET Orders /\ Active(r)' \in SUBSET Orders
          /\ Claims(r) \in SUBSET Requests /\ Claims(r)' \in SUBSET Requests
    BY DEF Active, Claims
  <1>2. IsFiniteSet(Orders) /\ IsFiniteSet(Requests)
    BY ConstantsAssumption
  <1> QED
    BY <1>1, <1>2, FS_Subset, FS_CardinalityType

LEMMA LimitInit == Init => LimitInv
  <1> SUFFICES ASSUME Init PROVE LimitInv
    OBVIOUS
  <1>1. Poller \in Threads /\ \A t \in Threads : call[t] = Idle
    BY DEF Init, Threads
  <1>2. Idle.pc = "idle"
    BY DEF Idle
  <1>3. \A r \in Riders : Active(r) = {} /\ Claims(r) = {}
    BY <1>1, <1>2, ConstantsAssumption DEF Init, Active, Claims, Threads
  <1> QED
    BY <1>1, <1>2, <1>3, LimitFinite, FS_EmptySet, ConstantsAssumption DEF LimitInv

\* A claim that is dropped or carried out leaves the set, no other one enters.
LEMMA ClaimsShrink ==
  ASSUME NoNewClaim
  PROVE  \A r \in Riders : Claims(r)' \subseteq Claims(r)
  BY DEF NoNewClaim, Claims, Threads

\* An acceptance counted less than the limit: the sum is within the bound even
\* when every request is a claim of this rider.
LEMMA CheckStep ==
  ASSUME TypeInv, LimitInv, NEW t \in Requests, NEW o \in Orders, NEW q \in Riders,
         AcceptCheck(t, o, q)
  PROVE  LimitInv'
  <1> DEFINE c == [Idle EXCEPT !.pc = "assign", !.ord = o, !.rid = q]
  <1>1. c.rid = q
    BY DEF Idle
  <1>2. call' = [call EXCEPT ![t] = c]
    BY DEF AcceptCheck
  <1> HIDE DEF c
  <1>3. \A u \in Threads : call'[u] = IF u = t THEN c ELSE call[u]
    BY <1>2 DEF TypeInv, TypeOK
  <1>4. \A r \in Riders : Active(r)' = Active(r)
    BY DEF AcceptCheck, Active, lifeVars, riderVars
  <1>5. call'[Poller].pc # "assign"
    BY <1>3, ConstantsAssumption DEF LimitInv, Threads
  <1>6. ASSUME NEW r \in Riders
        PROVE  Cardinality(Active(r)') + Cardinality(Claims(r)')
                   <= MaxActive - 1 + Cardinality(Requests)
    <2>1. CASE r = q
      <3>1. Cardinality(Active(r)) < MaxActive
        BY <2>1 DEF AcceptCheck, BelowLimit
      <3> QED
        BY <1>4, <3>1, LimitFinite, ConstantsAssumption
    <2>2. CASE r # q
      <3>1. Claims(r)' \in SUBSET Claims(r)
        BY <1>1, <1>3, <2>2 DEF Claims, Threads
      <3>2. Cardinality(Claims(r)') <= Cardinality(Claims(r))
        BY <3>1, LimitFinite, FS_Subset
      <3>3. Cardinality(Active(r)) + Cardinality(Claims(r)) <= MaxActive - 1 + Cardinality(Requests)
        BY DEF LimitInv
      <3> QED
        BY <1>4, <3>2, <3>3, LimitFinite, ConstantsAssumption
    <2> QED
      BY <2>1, <2>2
  <1> QED
    BY <1>5, <1>6 DEF LimitInv

\* A claim carried out turns into at most one active order of its rider.
LEMMA AssignStep ==
  ASSUME TypeInv, LimitInv, NEW t \in Threads, AssignRider(t)
  PROVE  LimitInv'
  <1> DEFINE o == call[t].ord
             q == call[t].rid
  <1>1. t \in Requests /\ o \in Orders /\ q \in Riders /\ call[t].pc = "assign"
    BY InFlight DEF AssignRider, At, LimitInv, Threads, TypeInv, ReadsBounded
  <1>2. NoNewClaim /\ call' = [call EXCEPT ![t] = Idle]
    BY ReturnClaim DEF AssignRider, Return
  <1>3. call'[Poller].pc # "assign"
    BY <1>2 DEF NoNewClaim, LimitInv, Threads
  <1>4. \A p \in Orders : \/ rider'[p] = rider[p] /\ wf'[p] = wf[p]
                          \/ p = o /\ rider'[p] = q
    <2>1. CASE Assignable(o, q)
      <3>1. rider' = [rider EXCEPT ![o] = q] /\ wf' = [wf EXCEPT ![o] = "DELIVERY_ASSIGNED"]
        BY <2>1 DEF AssignRider, MoveTo
      <3> QED
        BY <1>1, <3>1 DEF TypeInv, TypeOK
    <2>2. CASE ~Assignable(o, q)
      BY <2>2 DEF AssignRider, lifeVars
    <2> QED
      BY <2>1, <2>2
  <1>5. ASSUME NEW r \in Riders
        PROVE  Cardinality(Active(r)') + Cardinality(Claims(r)')
                   <= MaxActive - 1 + Cardinality(Requests)
    <2>0. Cardinality(Active(r)) + Cardinality(Claims(r)) <= MaxActive - 1 + Cardinality(Requests)
      BY DEF LimitInv
    <2>1. CASE r = q
      <3>1. Idle.pc # "assign"
        BY DEF Idle
      <3>2. Claims(r)' \in SUBSET (Claims(r) \ {t}) /\ t \in Claims(r)
        BY <1>1, <1>2, <2>1, <3>1, ClaimsShrink DEF Claims, Threads, TypeInv, TypeOK
      <3>3. Cardinality(Claims(r)') <= Cardinality(Claims(r)) - 1
        <4>1. IsFiniteSet(Claims(r))
          BY LimitFinite
        <4>2. /\ IsFiniteSet(Claims(r) \ {t})
              /\ Cardinality(Claims(r) \ {t}) = Cardinality(Claims(r)) - 1
          BY <3>2, <4>1, FS_RemoveElement
        <4>3. Cardinality(Claims(r)') <= Cardinality(Claims(r) \ {t})
          BY <3>2, <4>2, FS_Subset
        <4> QED
          BY <4>2, <4>3
      <3>4. Active(r)' \in SUBSET (Active(r) \cup {o})
        BY <1>4 DEF Active
      <3>5. Cardinality(Active(r)') <= Cardinality(Active(r)) + 1
        <4>1. IsFiniteSet(Active(r)) /\ Cardinality(Active(r)) \in Nat
          BY LimitFinite
        <4>2. /\ IsFiniteSet(Active(r) \cup {o})
              /\ \/ Cardinality(Active(r) \cup {o}) = Cardinality(Active(r))
                 \/ Cardinality(Active(r) \cup {o}) = Cardinality(Active(r)) + 1
          BY <4>1, FS_AddElement
        <4>3. Cardinality(Active(r)') <= Cardinality(Active(r) \cup {o})
          BY <3>4, <4>2, FS_Subset
        <4>4. Cardinality(Active(r)') \in Nat
          BY LimitFinite
        <4> QED
          BY <4>1, <4>2, <4>3, <4>4
      <3> QED
        BY <2>0, <3>3, <3>5, LimitFinite, ConstantsAssumption
    <2>2. CASE r # q
      <3>1. Active(r)' \in SUBSET Active(r)
        BY <1>4, <2>2 DEF Active
      <3>2. Claims(r)' \in SUBSET Claims(r)
        BY <1>2, ClaimsShrink
      <3>3. /\ Cardinality(Active(r)') <= Cardinality(Active(r))
            /\ Cardinality(Claims(r)') <= Cardinality(Claims(r))
        BY <3>1, <3>2, LimitFinite, FS_Subset
      <3> QED
        BY <2>0, <3>3, LimitFinite, ConstantsAssumption
    <2> QED
      BY <2>1, <2>2
  <1> QED
    BY <1>3, <1>5 DEF LimitInv

LEMMA LimitStep ==
  ASSUME TypeInv, LimitInv, [Next]_vars
  PROVE  LimitInv'
  <1>1. CASE NoNewClaim /\ \A r \in Riders : Active(r)' \subseteq Active(r)
    <2>1. call'[Poller].pc # "assign"
      BY <1>1 DEF NoNewClaim, LimitInv, Threads
    <2>2. ASSUME NEW r \in Riders
          PROVE  Cardinality(Active(r)') + Cardinality(Claims(r)')
                     <= MaxActive - 1 + Cardinality(Requests)
      <3>1. /\ Cardinality(Active(r)') <= Cardinality(Active(r))
            /\ Cardinality(Claims(r)') <= Cardinality(Claims(r))
        BY <1>1, ClaimsShrink, LimitFinite, FS_Subset
      <3>2. Cardinality(Active(r)) + Cardinality(Claims(r)) <= MaxActive - 1 + Cardinality(Requests)
        BY DEF LimitInv
      <3> QED
        BY <3>1, <3>2, LimitFinite, ConstantsAssumption
    <2> QED
      BY <2>1, <2>2 DEF LimitInv
  <1> QED
    BY <1>1, ClaimFrame, ActiveFrame, CheckStep, AssignStep

\* deliveryAcceptAtomic counts before it claims, so a rider's active orders can
\* exceed the limit, but never by as many as the requests that run at once.
THEOREM LimitOvershootHolds == Spec => []LimitOvershoot
  <1>1. LimitInv => LimitOvershoot
    <2>1. SUFFICES ASSUME LimitInv, NEW r \in Riders
                   PROVE  Cardinality(Active(r)) <= MaxActive - 1 + Cardinality(Requests)
      BY DEF LimitOvershoot
    <2>2. Cardinality(Active(r)) + Cardinality(Claims(r)) <= MaxActive - 1 + Cardinality(Requests)
      BY <2>1 DEF LimitInv
    <2> QED
      BY <2>2, LimitFinite, ConstantsAssumption
  <1>2. TypeInv /\ LimitInv /\ [Next]_vars => LimitInv'
    BY LimitStep
  <1> QED
    BY <1>1, <1>2, LimitInit, TypeInvariant, PTL DEF Spec
=============================================================================
