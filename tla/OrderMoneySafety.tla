-------------------------- MODULE OrderMoneySafety --------------------------
(***************************************************************************)
(* What a cancellation gives back and what a payment opens, proved for     *)
(* every instance of OrderWorkflow: the stock of a cancelled order, the    *)
(* service of an order that is not paid, and the way every order goes      *)
(* (OrderLife).                                                            *)
(***************************************************************************)
EXTENDS OrderWorkflowProofs

-----------------------------------------------------------------------------
(* The steps that have to do with a cancellation, and all the others.      *)

\* A call at one of these gives an order's items back.
UndoPCs == {"compensate", "release", "mark"}

\* A step begins no compensation and moves none on.
CallsQuiet ==
    \A u \in Threads : call'[u].pc \in UndoPCs => call'[u] = call[u]

\* A step that takes an order out of CANCELLED is recorded, for good.
RevivalSeen ==
    \A o \in Orders :
        /\ wf[o] = "CANCELLED" /\ wf'[o] # "CANCELLED" => revived'[o]
        /\ revived[o] => revived'[o]

Quiet == CallsQuiet /\ RevivalSeen /\ UNCHANGED stockVars

LEMMA SlotQuiet ==
  ASSUME TypeInv, NEW t \in Threads, NEW c, c.pc \notin UndoPCs, call' = [call EXCEPT ![t] = c]
  PROVE  CallsQuiet
  <1>1. \A u \in Threads : call'[u] = IF u = t THEN c ELSE call[u]
    BY DEF TypeInv, TypeOK
  <1> QED
    BY <1>1 DEF CallsQuiet

LEMMA BeginQuiet ==
  ASSUME TypeInv, NEW t \in Threads, NEW o \in Orders, NEW src \in Sources,
         NEW pc \in PCs \ UndoPCs, Begin(t, pc, o, src)
  PROVE  CallsQuiet
  <1> DEFINE c == [Idle EXCEPT !.pc = pc, !.ord = o, !.src = src]
  <1>1. c.pc = pc
    BY DEF Idle
  <1>2. call' = [call EXCEPT ![t] = c]
    BY DEF Begin
  <1> HIDE DEF c
  <1> QED
    BY <1>1, <1>2, SlotQuiet

LEMMA ReturnQuiet ==
  ASSUME TypeInv, NEW t \in Threads, Return(t)
  PROVE  CallsQuiet
  BY SlotQuiet DEF Return, Idle, UndoPCs

LEMMA GotoQuiet ==
  ASSUME TypeInv, NEW t \in Threads, NEW pc \in PCs \ UndoPCs, Goto(t, pc)
  PROVE  CallsQuiet
  <1> DEFINE c == [call[t] EXCEPT !.pc = pc]
  <1>1. c.pc = pc
    BY DEF TypeInv, TypeOK, Calls
  <1>2. call' = [call EXCEPT ![t] = c]
    BY DEF Goto
  <1> HIDE DEF c
  <1> QED
    BY <1>1, <1>2, SlotQuiet

\* A guarded update of an order that is not cancelled revives nothing.
LEMMA MoveToSeen ==
  ASSUME TypeInv, NEW o \in Orders, NEW w, wf[o] # "CANCELLED", MoveTo(o, w)
  PROVE  RevivalSeen
  BY DEF MoveTo, RevivalSeen, TypeInv, TypeOK

LEMMA SameLifeSeen ==
  ASSUME UNCHANGED <<wf, revived>>
  PROVE  RevivalSeen
  BY DEF RevivalSeen

LEMMA OverwriteSeen ==
  ASSUME TypeInv, NEW o \in Orders, NEW w, Overwrite(o, w)
  PROVE  RevivalSeen
  BY DEF Overwrite, RevivalSeen, TypeInv, TypeOK

LEMMA AcceptQuiet ==
  ASSUME TypeInv, NEW t \in Threads, NEW o \in Orders, NEW auto \in BOOLEAN, Accept(t, o, auto)
  PROVE  Quiet
  <1>1. UNCHANGED call \/ \E pc \in {"enqueue", "load"} : Begin(t, pc, o, "accept")
    BY DEF Accept
  <1>2. CallsQuiet
    <2>1. CASE UNCHANGED call
      BY <2>1 DEF CallsQuiet
    <2>2. CASE \E pc \in {"enqueue", "load"} : Begin(t, pc, o, "accept")
      BY <2>2, BeginQuiet DEF PCs, Sources, UndoPCs
    <2> QED
      BY <1>1, <2>1, <2>2
  <1>3. RevivalSeen
    BY MoveToSeen DEF Accept
  <1> QED
    BY <1>2, <1>3 DEF Quiet, Accept

LEMMA TimeoutQuiet ==
  ASSUME TypeInv, NEW t \in Threads, NEW o \in Orders, DeliveryTimeout(t, o)
  PROVE  Quiet
  <1> DEFINE c == [Idle EXCEPT !.pc = "retry", !.ord = o, !.att = attempt[o]]
  <1>1. c.pc = "retry"
    BY DEF Idle
  <1>2. UNCHANGED call \/ call' = [call EXCEPT ![t] = c]
    BY DEF DeliveryTimeout
  <1> HIDE DEF c
  <1>3. CallsQuiet
    <2>1. CASE UNCHANGED call
      BY <2>1 DEF CallsQuiet
    <2>2. CASE call' = [call EXCEPT ![t] = c]
      BY <1>1, <2>2, SlotQuiet DEF UndoPCs
    <2> QED
      BY <1>2, <2>1, <2>2
  <1> QED
    BY <1>3, SameLifeSeen DEF Quiet, DeliveryTimeout, lifeVars

\* What a request or a worker does first, other than rejecting an order.
LEMMA ArriveQuiet ==
  ASSUME TypeInv, NEW t \in Requests, NEW o \in Orders, Arrive(t, o), ~SellerReject(t, o)
  PROVE  Quiet
  <1>0. t \in Threads
    BY DEF Threads
  <1>1. CASE PaymentCaptured(t, o)
    BY <1>0, <1>1, BeginQuiet, SameLifeSeen
    DEF PaymentCaptured, PCs, Sources, UndoPCs, Quiet, lifeVars
  <1>2. CASE SellerAccept(t, o) \/ SellerTimeout(t, o) \/ DeliveryTimeout(t, o)
    BY <1>0, <1>2, AcceptQuiet, TimeoutQuiet DEF SellerAccept, SellerTimeout
  <1>3. CASE SetPreparationTime(t, o)
    <2>1. \E src \in Sources : Begin(t, "requeue", o, src)
      BY <1>3 DEF SetPreparationTime, Sources
    <2>2. CallsQuiet
      BY <1>0, <2>1, BeginQuiet DEF PCs, UndoPCs
    <2> QED
      BY <1>3, <2>2, SameLifeSeen DEF SetPreparationTime, Quiet, lifeVars
  <1>4. CASE Dispatch(t, o)
    <2>1. RevivalSeen
      BY <1>4 DEF Dispatch, RevivalSeen, TypeInv, TypeOK
    <2> QED
      BY <1>0, <1>4, <2>1, BeginQuiet DEF Dispatch, PCs, Sources, UndoPCs, Quiet
  <1>5. CASE Pack(t, o)
    <2>1. \E pc \in {"load", "stamp"} : Begin(t, pc, o, "pack")
      BY <1>5 DEF Pack
    <2>2. CallsQuiet
      BY <1>0, <2>1, BeginQuiet DEF PCs, Sources, UndoPCs
    <2> QED
      BY <1>5, <2>2, SameLifeSeen DEF Pack, Quiet, lifeVars
  <1>6. CASE BroadcastJob(t, o)
    <2>1. UNCHANGED call \/ Begin(t, "load", o, "job")
      BY <1>6 DEF BroadcastJob
    <2>2. CallsQuiet
      <3>1. CASE UNCHANGED call
        BY <3>1 DEF CallsQuiet
      <3>2. CASE Begin(t, "load", o, "job")
        BY <1>0, <3>2, BeginQuiet DEF PCs, Sources, UndoPCs
      <3> QED
        BY <2>1, <3>1, <3>2
    <2> QED
      BY <1>6, <2>2, SameLifeSeen DEF BroadcastJob, Quiet, lifeVars
  <1>7. CASE CancelRequest(t, o)
    <2> DEFINE c == [Idle EXCEPT !.pc = "cancel", !.ord = o, !.grace = ~graceOver[o]]
    <2>1. c.pc = "cancel"
      BY DEF Idle
    <2>2. call' = [call EXCEPT ![t] = c]
      BY <1>7 DEF CancelRequest
    <2> HIDE DEF c
    <2> QED
      BY <1>0, <1>7, <2>1, <2>2, SlotQuiet, SameLifeSeen
      DEF CancelRequest, UndoPCs, Quiet, lifeVars
  <1>8. ASSUME NEW r \in Riders, AcceptCheck(t, o, r) \/ SkipRequest(t, o, r)
        PROVE  Quiet
    <2>1. PICK pc \in {"assign", "skip"} :
            call' = [call EXCEPT ![t] = [Idle EXCEPT !.pc = pc, !.ord = o, !.rid = r]]
      BY <1>8 DEF AcceptCheck, SkipRequest
    <2> DEFINE c == [Idle EXCEPT !.pc = pc, !.ord = o, !.rid = r]
    <2>2. c.pc = pc
      BY DEF Idle
    <2>3. call' = [call EXCEPT ![t] = c]
      BY <2>1
    <2> HIDE DEF c
    <2> QED
      BY <1>0, <1>8, <2>2, <2>3, SlotQuiet, SameLifeSeen
      DEF AcceptCheck, SkipRequest, UndoPCs, Quiet, lifeVars
  <1> QED
    BY <1>1, <1>2, <1>3, <1>4, <1>5, <1>6, <1>7, <1>8 DEF Arrive

\* The steps of a call in flight that are not a cancellation's.
LEMMA ContinueQuiet ==
  ASSUME TypeInv, NEW t \in Threads, Continue(t) \/ StartFails(t) \/ Crash(t),
         ~CancelOrder(t), ~Compensate(t), ~ReleaseStock(t), ~MarkReleased(t)
  PROVE  Quiet
  <1> DEFINE o == call[t].ord
  <1>0. o \in Orders
    BY InFlight
    DEF Continue, At, MoveToSellerPending, EnqueueBroadcast, RequeueBroadcast, LoadOrder,
        SaveSearch, ArmSearch, UndoDispatch, Rebroadcast, AssignRider, StampPacked, SkipOrder,
        StartFails, Crash
  <1>1. CASE \/ EnqueueBroadcast(t) \/ ArmSearch(t) \/ StampPacked(t)
             \/ SkipOrder(t) \/ Rebroadcast(t)
    BY <1>1, ReturnQuiet, SameLifeSeen
    DEF EnqueueBroadcast, ArmSearch, StampPacked, SkipOrder, Rebroadcast, Quiet, lifeVars
  <1>2. CASE RequeueBroadcast(t) \/ StartFails(t) \/ Crash(t)
    BY <1>2, ReturnQuiet, GotoQuiet, SameLifeSeen
    DEF RequeueBroadcast, StartFails, Crash, Quiet, PCs, UndoPCs, lifeVars
  <1>3. CASE MoveToSellerPending(t)
    <2>1. RevivalSeen
      BY <1>0, <1>3 DEF MoveToSellerPending, RevivalSeen, TypeInv, TypeOK
    <2> QED
      BY <1>3, <2>1, ReturnQuiet DEF MoveToSellerPending, Quiet
  <1>4. CASE LoadOrder(t)
    <2> DEFINE c == [call[t] EXCEPT !.pc = "save", !.seenWf = wf[o], !.seenStatus = status[o],
                                    !.seenLead = marker[o] # "none"]
    <2>1. c.pc = "save"
      BY DEF TypeInv, TypeOK, Calls
    <2>2. call' = [call EXCEPT ![t] = c]
      BY <1>4 DEF LoadOrder
    <2> HIDE DEF c
    <2> QED
      BY <1>4, <2>1, <2>2, SlotQuiet, SameLifeSeen DEF LoadOrder, UndoPCs, Quiet, lifeVars
  <1>5. CASE SaveSearch(t)
    <2>1. RevivalSeen
      BY <1>0, <1>5, OverwriteSeen, SameLifeSeen DEF SaveSearch
    <2> QED
      BY <1>5, <2>1, GotoQuiet DEF SaveSearch, Quiet, PCs, UndoPCs
  <1>6. CASE UndoDispatch(t)
    BY <1>0, <1>6, ReturnQuiet, OverwriteSeen DEF UndoDispatch, Quiet
  <1>7. CASE AssignRider(t)
    <2>1. RevivalSeen
      BY <1>0, <1>7, MoveToSeen, SameLifeSeen DEF AssignRider, Assignable, lifeVars
    <2> QED
      BY <1>7, <2>1, ReturnQuiet DEF AssignRider, Quiet
  <1> QED
    BY <1>1, <1>2, <1>3, <1>4, <1>5, <1>6, <1>7 DEF Continue

\* The steps that are about a cancellation, and nothing else about all others.
LEMMA StockFrame ==
  ASSUME TypeInv, [Next]_vars
  PROVE  \/ Quiet
         \/ \E o \in Orders : PaymentFailed(o) \/ CancelUnpaid(o)
         \/ \E t \in Threads, o \in Orders : SellerReject(t, o)
         \/ \E t \in Threads :
                CancelOrder(t) \/ Compensate(t) \/ ReleaseStock(t) \/ MarkReleased(t)
  <1>1. CASE UNCHANGED vars
    BY <1>1, SameLifeSeen DEF vars, Quiet, CallsQuiet, lifeVars
  <1>2. ASSUME NEW o \in Orders, Tick(o) \/ PaymentPending(o)
        PROVE  Quiet
    BY <1>2, SameLifeSeen
    DEF Tick, WaitEnds, GraceEnds, WindowEnds, LeadEnds, PaymentPending, Quiet, CallsQuiet,
        lifeVars
  <1>3. ASSUME NEW o \in Orders, RiderMoves(o)
        PROVE  Quiet
    <2>1. RevivalSeen
      BY <1>3, MoveToSeen, SameLifeSeen
      DEF RiderMoves, ArriveAtStore, ConfirmPickup, AdvanceRiderUi, HandOver, lifeVars
    <2> QED
      BY <1>3, <2>1
      DEF RiderMoves, ArriveAtStore, ConfirmPickup, AdvanceRiderUi, HandOver, Quiet, CallsQuiet
  <1>4. ASSUME NEW o \in Orders, Poll(o), ~CancelUnpaid(o)
        PROVE  Quiet
    <2>0. Poller \in Threads
      BY DEF Threads
    <2>1. CASE PollBroadcast(o)
      BY <2>0, <2>1, BeginQuiet, SameLifeSeen
      DEF PollBroadcast, PCs, Sources, UndoPCs, Quiet, lifeVars
    <2> QED
      BY <1>4, <2>0, <2>1, AcceptQuiet, TimeoutQuiet DEF Poll, SellerTimeout
  <1> QED
    BY <1>1, <1>2, <1>3, <1>4, ArriveQuiet, ContinueQuiet DEF Next, PaymentReported, Threads

-----------------------------------------------------------------------------
(* The mark RELEASED follows the items.                                    *)

\* A compensation about to mark the reservation gave the items back.
MarkEarned ==
    \A t \in Threads : call[t].pc = "mark" => released[call[t].ord] > 0

ReturnedInv == ReleasedMeansReturned /\ MarkEarned

\* Nothing else marks a reservation, counts items or gets a call to its mark.
LEMMA MarkFrame ==
  ASSUME TypeInv, [Next]_vars
  PROVE  \/ \E o \in Orders : PaymentFailed(o)
         \/ \E t \in Threads : ReleaseStock(t) \/ MarkReleased(t)
         \/ /\ UNCHANGED stockVars
            /\ \A u \in Threads : call'[u].pc = "mark" => call'[u] = call[u]
  <1> DEFINE Frame == /\ UNCHANGED stockVars
                      /\ \A u \in Threads : call'[u].pc = "mark" => call'[u] = call[u]
  <1>1. CASE Quiet
    BY <1>1 DEF Quiet, CallsQuiet, UndoPCs
  <1>2. ASSUME NEW t \in Threads, NEW c, c.pc # "mark", call' = [call EXCEPT ![t] = c],
               UNCHANGED stockVars
        PROVE  Frame
    <2>1. \A u \in Threads : call'[u] = IF u = t THEN c ELSE call[u]
      BY <1>2 DEF TypeInv, TypeOK
    <2> QED
      BY <1>2, <2>1
  <1>3. ASSUME NEW t \in Threads, NEW o \in Orders, Begin(t, "compensate", o, "none"),
               UNCHANGED stockVars
        PROVE  Frame
    <2> DEFINE c == [Idle EXCEPT !.pc = "compensate", !.ord = o, !.src = "none"]
    <2>1. c.pc = "compensate" /\ call' = [call EXCEPT ![t] = c]
      BY <1>3 DEF Begin, Idle
    <2> HIDE DEF c
    <2> QED
      BY <1>2, <1>3, <2>1
  <1>4. ASSUME NEW t \in Threads, Return(t) \/ Goto(t, "release") \/ Goto(t, "compensate"),
               UNCHANGED stockVars
        PROVE  Frame
    <2>1. CASE Return(t)
      BY <1>2, <1>4, <2>1 DEF Return, Idle
    <2>2. ASSUME NEW pc \in {"release", "compensate"}, Goto(t, pc)
          PROVE  Frame
      <3> DEFINE c == [call[t] EXCEPT !.pc = pc]
      <3>1. c.pc = pc /\ call' = [call EXCEPT ![t] = c]
        BY <2>2 DEF Goto, TypeInv, TypeOK, Calls
      <3> HIDE DEF c
      <3> QED
        BY <1>2, <1>4, <3>1
    <2> QED
      BY <1>4, <2>1, <2>2
  <1>5. ASSUME NEW o \in Orders, CancelUnpaid(o)
        PROVE  Frame
    BY <1>3, <1>5 DEF CancelUnpaid, Threads
  <1>6. ASSUME NEW t \in Threads, NEW o \in Orders, SellerReject(t, o)
        PROVE  Frame
    BY <1>3, <1>6 DEF SellerReject
  <1>7. ASSUME NEW t \in Threads, CancelOrder(t) \/ Compensate(t)
        PROVE  Frame
    BY <1>4, <1>7 DEF CancelOrder, Compensate
  <1> QED
    BY <1>1, <1>5, <1>6, <1>7, StockFrame

LEMMA ReturnedStep ==
  ASSUME TypeInv, TypeInv', ReturnedInv, [Next]_vars
  PROVE  ReturnedInv'
  <1>0. /\ call \in [Threads -> Calls]
        /\ released \in [Orders -> 0..2] /\ released' \in [Orders -> 0..2]
        /\ reservation \in [Orders -> {"HELD", "RELEASED"}]
        /\ \A t \in Threads : call[t].pc # "idle" => call[t].ord \in Orders
    BY DEF TypeInv, TypeOK
  <1>1. CASE \E o \in Orders : PaymentFailed(o)
    <2>1. PICK o \in Orders : PaymentFailed(o)
      BY <1>1
    <2> DEFINE n == IF reservation[o] = "RELEASED" \/ released[o] = 2
                    THEN released[o] ELSE released[o] + 1
    <2>2. /\ UNCHANGED call
          /\ reservation' = [reservation EXCEPT ![o] = "RELEASED"]
          /\ released' = [released EXCEPT ![o] = n]
      BY <1>0, <2>1 DEF PaymentFailed
    <2>7. released[o] \in 0..2 /\ n \in 0..2 /\ n >= released[o] /\ n > 0
      BY <1>0 DEF ReturnedInv, ReleasedMeansReturned
    <2> HIDE DEF n
    <2>3. \A p \in Orders : released'[p] >= released[p]
      BY <1>0, <2>2, <2>7
    <2>4. released'[o] > 0
      BY <1>0, <2>2, <2>7
    <2>5. ReleasedMeansReturned'
      BY <1>0, <2>2, <2>3, <2>4 DEF ReturnedInv, ReleasedMeansReturned
    <2>6. MarkEarned'
      <3> SUFFICES ASSUME NEW u \in Threads, call[u].pc = "mark"
                   PROVE  released'[call[u].ord] > 0
        BY <2>2 DEF MarkEarned
      <3>1. call[u].ord \in Orders /\ released[call[u].ord] > 0
        BY <1>0 DEF ReturnedInv, MarkEarned
      <3> QED
        BY <1>0, <2>3, <3>1
    <2> QED
      BY <2>5, <2>6 DEF ReturnedInv
  <1>2. ASSUME NEW t \in Threads, ReleaseStock(t)
        PROVE  ReturnedInv'
    <2>1. /\ call[t].ord \in Orders
          /\ released' = [released EXCEPT ![call[t].ord] = IF @ = 2 THEN 2 ELSE @ + 1]
          /\ call' = [call EXCEPT ![t].pc = "mark"]
          /\ UNCHANGED reservation
      BY <1>0, <1>2 DEF ReleaseStock, At, Goto
    <2>2. /\ \A p \in Orders : released'[p] >= released[p]
          /\ released'[call[t].ord] > 0
      BY <1>0, <2>1
    <2>3. \A u \in Threads : call'[u].ord = call[u].ord /\ (u # t => call'[u] = call[u])
      BY <1>0, <2>1 DEF Calls
    <2>4. MarkEarned'
      <3> SUFFICES ASSUME NEW u \in Threads, call'[u].pc = "mark"
                   PROVE  released'[call[u].ord] > 0
        BY <2>3 DEF MarkEarned
      <3>1. CASE u = t
        BY <2>2, <3>1
      <3>2. CASE u # t
        <4>1. call[u].ord \in Orders /\ released[call[u].ord] > 0
          BY <1>0, <2>3, <3>2 DEF ReturnedInv, MarkEarned
        <4> QED
          BY <1>0, <2>2, <4>1
      <3> QED
        BY <3>1, <3>2
    <2> QED
      BY <1>0, <2>1, <2>2, <2>4 DEF ReturnedInv, ReleasedMeansReturned
  <1>3. ASSUME NEW t \in Threads, MarkReleased(t)
        PROVE  ReturnedInv'
    <2>1. /\ call[t].ord \in Orders /\ call[t].pc = "mark"
          /\ reservation' = [reservation EXCEPT ![call[t].ord] = "RELEASED"]
          /\ call' = [call EXCEPT ![t] = Idle]
          /\ UNCHANGED released
      BY <1>0, <1>3 DEF MarkReleased, At, Return
    <2> QED
      BY <1>0, <2>1 DEF ReturnedInv, ReleasedMeansReturned, MarkEarned, Idle
  <1>4. CASE /\ UNCHANGED stockVars
             /\ \A t \in Threads : call'[t].pc = "mark" => call'[t] = call[t]
    BY <1>4 DEF stockVars, ReturnedInv, ReleasedMeansReturned, MarkEarned
  <1> QED
    BY <1>1, <1>2, <1>3, <1>4, MarkFrame

\* compensateOrderCancellation gives the items back before it saves the mark,
\* so a mark always stands for items that are back, whichever calls interleave
\* or die on the way.
THEOREM ReleasedMeansReturnedHolds == Spec => []ReleasedMeansReturned
  <1>1. Init => ReturnedInv
    BY DEF Init, ReturnedInv, ReleasedMeansReturned, MarkEarned, Idle
  <1>2. TypeInv /\ TypeInv' /\ ReturnedInv /\ [Next]_vars => ReturnedInv'
    BY ReturnedStep
  <1>3. ReturnedInv => ReleasedMeansReturned
    BY DEF ReturnedInv
  <1> QED
    BY <1>1, <1>2, <1>3, TypeInvariant, PTL DEF Spec

-----------------------------------------------------------------------------
(* The items of a cancelled order go back once.                            *)

\* Call t is giving back the items of order o.
Undoing(t, o) == call[t].ord = o /\ call[t].pc \in UndoPCs

\* Until something revives a cancelled order: its cancellation is what starts
\* the only compensation, which counts the items once.
UndoOnce(o) ==
    ~revived[o] =>
        /\ released[o] <= 1
        /\ wf[o] # "CANCELLED" => released[o] = 0 /\ \A t \in Threads : ~Undoing(t, o)
        /\ \A t, u \in Threads : Undoing(t, o) /\ Undoing(u, o) => t = u
        /\ \A t \in Threads : Undoing(t, o) /\ call[t].pc # "mark" => released[o] = 0

OnceInv == \A o \in Orders : UndoOnce(o)

LEMMA QuietOnce ==
  ASSUME OnceInv, Quiet
  PROVE  OnceInv'
  <1> SUFFICES ASSUME NEW o \in Orders PROVE UndoOnce(o)'
    BY DEF OnceInv
  <1>1. \A t \in Threads : Undoing(t, o)' => Undoing(t, o) /\ call'[t] = call[t]
    BY DEF Quiet, CallsQuiet, Undoing
  <1>2. /\ ~revived'[o] => ~revived[o]
        /\ ~revived'[o] /\ wf'[o] # "CANCELLED" => wf[o] # "CANCELLED"
        /\ released'[o] = released[o]
    BY DEF Quiet, RevivalSeen, stockVars
  <1> QED
    BY <1>1, <1>2 DEF OnceInv, UndoOnce

\* The start of a compensation by the update that cancelled the order.
LEMMA StartOnce ==
  ASSUME TypeInv, OnceInv, NEW t \in Threads, NEW o \in Orders, NEW c,
         c.ord = o, c.pc = "compensate", call' = [call EXCEPT ![t] = c],
         call[t].pc \notin UndoPCs,
         wf[o] # "CANCELLED", MoveTo(o, "CANCELLED"), UNCHANGED stockVars
  PROVE  OnceInv'
  <1> SUFFICES ASSUME NEW p \in Orders PROVE UndoOnce(p)'
    BY DEF OnceInv
  <1>1. \A u \in Threads : call'[u] = IF u = t THEN c ELSE call[u]
    BY DEF TypeInv, TypeOK
  <1>2. /\ revived' = revived /\ released' = released
        /\ wf'[o] = "CANCELLED"
        /\ p # o => wf'[p] = wf[p]
    BY DEF MoveTo, stockVars, TypeInv, TypeOK
  <1>3. CASE p = o
    <2> SUFFICES ASSUME ~revived[o] PROVE UndoOnce(o)'
      BY <1>2, <1>3 DEF UndoOnce
    <2>1. released[o] = 0 /\ \A u \in Threads : ~Undoing(u, o)
      BY DEF OnceInv, UndoOnce
    <2>2. \A u \in Threads : Undoing(u, o)' => u = t
      BY <1>1, <2>1 DEF Undoing
    <2> QED
      BY <1>1, <1>2, <2>1, <2>2 DEF UndoOnce
  <1>4. CASE p # o
    <2>1. \A u \in Threads : Undoing(u, p)' => Undoing(u, p) /\ call'[u] = call[u]
      BY <1>1, <1>4 DEF Undoing
    <2> QED
      BY <1>2, <1>4, <2>1 DEF OnceInv, UndoOnce
  <1> QED
    BY <1>3, <1>4

\* A step that moves one call on within its compensation, or ends it.
LEMMA MoveOnOnce ==
  ASSUME TypeInv, OnceInv, NEW t \in Threads, NEW c, call' = [call EXCEPT ![t] = c],
         call[t].pc \in UndoPCs,
         c.pc \in UndoPCs => c.ord = call[t].ord,
         c.pc \in {"compensate", "release"} => call[t].pc # "mark",
         UNCHANGED <<lifeVars, released>>
  PROVE  OnceInv'
  <1> SUFFICES ASSUME NEW p \in Orders PROVE UndoOnce(p)'
    BY DEF OnceInv
  <1>1. \A u \in Threads : call'[u] = IF u = t THEN c ELSE call[u]
    BY DEF TypeInv, TypeOK
  <1>2. wf' = wf /\ revived' = revived /\ released' = released
    BY DEF lifeVars
  <1>3. \A u \in Threads : Undoing(u, p)' => Undoing(u, p)
    BY <1>1 DEF Undoing
  <1>4. \A u \in Threads : Undoing(u, p)' /\ call'[u].pc # "mark" => call[u].pc # "mark"
    BY <1>1 DEF Undoing, UndoPCs
  <1> QED
    BY <1>2, <1>3, <1>4 DEF OnceInv, UndoOnce

LEMMA ReleaseOnce ==
  ASSUME TypeInv, OnceInv, NEW t \in Threads, ReleaseStock(t)
  PROVE  OnceInv'
  <1> DEFINE o == call[t].ord
             c == [call[t] EXCEPT !.pc = "mark"]
  <1>1. o \in Orders /\ call[t].pc = "release" /\ Undoing(t, o)
    BY InFlight DEF ReleaseStock, At, Undoing, UndoPCs
  <1>2. c.ord = o /\ c.pc = "mark" /\ call' = [call EXCEPT ![t] = c]
    BY DEF ReleaseStock, Goto, TypeInv, TypeOK, Calls
  <1> HIDE DEF c
  <1>3. \A u \in Threads : call'[u] = IF u = t THEN c ELSE call[u]
    BY <1>2 DEF TypeInv, TypeOK
  <1>4. /\ wf' = wf /\ revived' = revived
        /\ released' = [released EXCEPT ![o] = IF @ = 2 THEN 2 ELSE @ + 1]
    BY DEF ReleaseStock, lifeVars
  <1> SUFFICES ASSUME NEW p \in Orders, ~revived[p] PROVE UndoOnce(p)'
    BY <1>4 DEF OnceInv, UndoOnce
  <1>5. \A u \in Threads : Undoing(u, p)' => Undoing(u, p)
    BY <1>1, <1>2, <1>3 DEF Undoing
  <1>6. CASE p = o
    <2>1. released[o] = 0 /\ wf[o] = "CANCELLED" /\ \A u \in Threads : Undoing(u, o) => u = t
      BY <1>1, <1>6 DEF OnceInv, UndoOnce
    <2>2. released'[o] = 1
      <3>1. released'[o] = IF released[o] = 2 THEN 2 ELSE released[o] + 1
        BY <1>1, <1>4 DEF TypeInv, TypeOK
      <3> QED
        BY <2>1, <3>1
    <2>3. \A u \in Threads : Undoing(u, p)' => u = t
      BY <1>5, <1>6, <2>1
    <2> QED
      BY <1>2, <1>3, <1>4, <1>6, <2>1, <2>2, <2>3 DEF UndoOnce
  <1>7. CASE p # o
    <2>1. released'[p] = released[p]
      BY <1>1, <1>4, <1>7 DEF TypeInv, TypeOK
    <2>2. \A u \in Threads : Undoing(u, p)' => call'[u] = call[u]
      BY <1>2, <1>3, <1>7 DEF Undoing
    <2> QED
      BY <1>4, <1>5, <2>1, <2>2 DEF OnceInv, UndoOnce
  <1> QED
    BY <1>6, <1>7

LEMMA PaymentOnce ==
  ASSUME TypeInv, OnceInv, NEW o \in Orders, PaymentFailed(o)
  PROVE  OnceInv'
  <1>1. /\ wf[o] = "CREATED"
        /\ \A p \in Orders : p # o => wf'[p] = wf[p]
        /\ wf'[o] = "CANCELLED" /\ UNCHANGED revived /\ UNCHANGED call
    BY DEF PaymentFailed, MoveTo, TypeInv, TypeOK
  <1>2. /\ \A p \in Orders : p # o => released'[p] = released[p]
        /\ released[o] = 0 => released'[o] \in {0, 1}
    BY DEF PaymentFailed, TypeInv, TypeOK
  <1> SUFFICES ASSUME NEW p \in Orders, ~revived[p] PROVE UndoOnce(p)'
    BY <1>1 DEF OnceInv, UndoOnce
  <1>3. \A u \in Threads : Undoing(u, p)' <=> Undoing(u, p)
    BY <1>1 DEF Undoing
  <1>4. CASE p = o
    <2>1. released[o] = 0 /\ \A u \in Threads : ~Undoing(u, o)
      BY <1>1, <1>4 DEF OnceInv, UndoOnce
    <2> QED
      BY <1>1, <1>2, <1>3, <1>4, <2>1 DEF UndoOnce
  <1>5. CASE p # o
    BY <1>1, <1>2, <1>3, <1>5 DEF OnceInv, UndoOnce
  <1> QED
    BY <1>4, <1>5

LEMMA OnceStep ==
  ASSUME TypeInv, OnceInv, [Next]_vars
  PROVE  OnceInv'
  <1>1. ASSUME NEW t \in Threads, NEW o \in Orders, Begin(t, "compensate", o, "none"),
               wf[o] # "CANCELLED", MoveTo(o, "CANCELLED"), UNCHANGED stockVars
        PROVE  OnceInv'
    <2> DEFINE c == [Idle EXCEPT !.pc = "compensate", !.ord = o, !.src = "none"]
    <2>1. c.ord = o /\ c.pc = "compensate" /\ call' = [call EXCEPT ![t] = c]
      BY <1>1 DEF Begin, Idle
    <2>2. call[t].pc \notin UndoPCs
      BY <1>1 DEF Begin, UndoPCs
    <2> HIDE DEF c
    <2> QED
      BY <1>1, <2>1, <2>2, StartOnce
  <1>2. ASSUME NEW o \in Orders, CancelUnpaid(o)
        PROVE  OnceInv'
    BY <1>1, <1>2 DEF CancelUnpaid, Threads
  <1>3. ASSUME NEW t \in Threads, NEW o \in Orders, SellerReject(t, o)
        PROVE  OnceInv'
    BY <1>1, <1>3 DEF SellerReject
  <1>4. ASSUME NEW t \in Threads, CancelOrder(t)
        PROVE  OnceInv'
    <2> DEFINE o == call[t].ord
               c == [call[t] EXCEPT !.pc = "compensate"]
    <2>0. o \in Orders /\ call[t].pc = "cancel"
      BY <1>4, InFlight DEF CancelOrder, At
    <2>1. CASE wf[o] \in Cancellable(call[t].grace)
      <3>1. MoveTo(o, "CANCELLED") /\ Goto(t, "compensate") /\ UNCHANGED stockVars
        BY <1>4, <2>1 DEF CancelOrder
      <3>2. c.ord = o /\ c.pc = "compensate" /\ call' = [call EXCEPT ![t] = c]
        BY <3>1 DEF Goto, TypeInv, TypeOK, Calls
      <3>3. wf[o] # "CANCELLED" /\ call[t].pc \notin UndoPCs
        BY <2>0, <2>1 DEF Cancellable, UndoPCs
      <3> HIDE DEF c
      <3> QED
        BY <2>0, <3>1, <3>2, <3>3, StartOnce
    <2>2. CASE wf[o] \notin Cancellable(call[t].grace)
      BY <1>4, <2>2, ReturnQuiet, SameLifeSeen, QuietOnce DEF CancelOrder, Quiet, lifeVars
    <2> QED
      BY <2>1, <2>2
  <1>5. ASSUME NEW t \in Threads, Compensate(t) \/ MarkReleased(t)
        PROVE  OnceInv'
    <2>1. call[t].pc \in {"compensate", "mark"} /\ UNCHANGED <<lifeVars, released>>
      BY <1>5 DEF Compensate, MarkReleased, At, stockVars
    <2>2. CASE Return(t)
      BY <2>1, <2>2, MoveOnOnce DEF Return, Idle, UndoPCs
    <2>3. CASE Goto(t, "release") /\ call[t].pc = "compensate"
      <3> DEFINE c == [call[t] EXCEPT !.pc = "release"]
      <3>1. c.ord = call[t].ord /\ c.pc = "release" /\ call' = [call EXCEPT ![t] = c]
        BY <2>3 DEF Goto, TypeInv, TypeOK, Calls
      <3> HIDE DEF c
      <3> QED
        BY <2>1, <2>3, <3>1, MoveOnOnce DEF UndoPCs
    <2> QED
      BY <1>5, <2>2, <2>3 DEF Compensate, MarkReleased, At
  <1> QED
    BY <1>2, <1>3, <1>4, <1>5, StockFrame, QuietOnce, ReleaseOnce, PaymentOnce

\* The guarded updates make the cancellation of an order win once, so its items
\* go back once, and never while it is not cancelled, unless an unguarded save
\* revives it.
THEOREM StockFollowsCancelHolds == Spec => []StockFollowsCancel
  <1>1. Init => OnceInv
    BY DEF Init, OnceInv, UndoOnce, Undoing, UndoPCs, Idle
  <1>2. TypeInv /\ OnceInv /\ [Next]_vars => OnceInv'
    BY OnceStep
  <1>3. TypeInv /\ OnceInv => StockFollowsCancel
    BY DEF OnceInv, UndoOnce, StockFollowsCancel, TypeInv, TypeOK
  <1> QED
    BY <1>1, <1>2, <1>3, TypeInvariant, PTL DEF Spec

-----------------------------------------------------------------------------
(* The payment, and the way of an order.                                   *)

\* A call here writes the order's workflow status with no condition, now or later.
StartPCs == {"requeue", "load", "save", "arm", "undo"}

Served(o) == wf[o] \notin {"CREATED", "CANCELLED"}

\* Such a call works on an order whose payment was booked, cancelled since or not.
StartsBooked ==
    \A t \in Threads : call[t].pc \in StartPCs => Booked(call[t].ord)

Early(o) == wf[o] \in {"CREATED", "SELLER_PENDING"}

\* It works on an order that its seller accepted.
StartsAccepted ==
    \A t \in Threads : call[t].pc \in StartPCs => ~Early(call[t].ord)

\* A captured payment that is about to open its order has been booked.
MoveCaptured ==
    \A t \in Threads : call[t].pc = "move" => captured[call[t].ord]

PayInv == UnpaidNeverServed /\ StartsBooked /\ StartsAccepted /\ MoveCaptured

-----------------------------------------------------------------------------
(* What a step does to the life of an order.                               *)

LifeStep(o) ==
    /\ Served(o)' => Served(o) \/ Booked(o)
    /\ Early(o)' => Early(o)

LEMMA LifeFrame ==
  ASSUME TypeInv, PayInv, [Next]_vars
  PROVE  \A o \in Orders : LifeStep(o)
  <1> USE DEF lifeVars, LifeStep, Served, Early
  <1>0. wf \in [Orders -> WorkflowStatus]
    BY DEF TypeInv, TypeOK
  <1>1. CASE UNCHANGED vars
    BY <1>1 DEF vars
  <1>2. ASSUME NEW p \in Orders, Tick(p) \/ PaymentReported(p) \/ RiderMoves(p)
        PROVE  \A o \in Orders : LifeStep(o)
    BY <1>0, <1>2
    DEF Tick, WaitEnds, GraceEnds, WindowEnds, LeadEnds, PaymentReported, PaymentFailed,
        PaymentPending, RiderMoves,
        ArriveAtStore, ConfirmPickup, AdvanceRiderUi, HandOver, MoveTo
  <1>3. ASSUME NEW p \in Orders, Poll(p)
        PROVE  \A o \in Orders : LifeStep(o)
    BY <1>0, <1>3
    DEF Poll, CancelUnpaid, SellerTimeout, Accept, PollBroadcast, DeliveryTimeout, MoveTo
  <1>4. ASSUME NEW t \in Requests, NEW p \in Orders, Arrive(t, p)
        PROVE  \A o \in Orders : LifeStep(o)
    BY <1>0, <1>4
    DEF Arrive, PaymentCaptured, SellerAccept, SellerTimeout, Accept, SellerReject,
        SetPreparationTime, Dispatch, Pack, BroadcastJob, CancelRequest,
        AcceptCheck, SkipRequest, DeliveryTimeout, MoveTo
  <1>5. ASSUME NEW t \in Threads, SaveSearch(t) \/ UndoDispatch(t)
        PROVE  \A o \in Orders : LifeStep(o)
    <2>1. call[t].ord \in Orders /\ Booked(call[t].ord)
      BY <1>5, InFlight DEF SaveSearch, UndoDispatch, At, PayInv, StartsBooked, StartPCs
    <2> QED
      BY <1>0, <1>5, <2>1 DEF SaveSearch, UndoDispatch, Overwrite
  <1>6. ASSUME NEW t \in Threads, MoveToSellerPending(t)
        PROVE  \A o \in Orders : LifeStep(o)
    <2>1. call[t].ord \in Orders /\ captured[call[t].ord]
      BY <1>6, InFlight DEF MoveToSellerPending, At, PayInv, MoveCaptured
    <2> QED
      BY <1>0, <1>6, <2>1 DEF MoveToSellerPending, Booked
  <1>7. ASSUME NEW t \in Threads, Continue(t) \/ StartFails(t) \/ Crash(t),
               ~SaveSearch(t), ~UndoDispatch(t), ~MoveToSellerPending(t)
        PROVE  \A o \in Orders : LifeStep(o)
    BY <1>0, <1>7
    DEF Continue, EnqueueBroadcast, RequeueBroadcast, LoadOrder, ArmSearch, StampPacked,
        SkipOrder, Rebroadcast, AssignRider, Assignable, CancelOrder, Compensate,
        ReleaseStock, MarkReleased, StartFails, Crash, MoveTo
  <1> QED
    BY <1>1, <1>2, <1>3, <1>4, <1>5, <1>6, <1>7 DEF Next

\* Three handlers write the payment of an order.
LEMMA PayFrame ==
  ASSUME [Next]_vars
  PROVE  \/ UNCHANGED payVars
         \/ \E t \in Requests, o \in Orders : PaymentCaptured(t, o)
         \/ \E o \in Orders : PaymentReported(o)
  <1>1. CASE UNCHANGED vars
    BY <1>1 DEF vars
  <1>2. ASSUME NEW o \in Orders, Tick(o) \/ RiderMoves(o) \/ Poll(o)
        PROVE  UNCHANGED payVars
    BY <1>2
    DEF Tick, WaitEnds, GraceEnds, WindowEnds, LeadEnds, RiderMoves, ArriveAtStore,
        ConfirmPickup, AdvanceRiderUi, HandOver, Poll, CancelUnpaid, SellerTimeout, Accept,
        PollBroadcast, DeliveryTimeout
  <1>3. ASSUME NEW t \in Requests, NEW o \in Orders, Arrive(t, o), ~PaymentCaptured(t, o)
        PROVE  UNCHANGED payVars
    BY <1>3
    DEF Arrive, SellerAccept, SellerTimeout, Accept, SellerReject, SetPreparationTime,
        Dispatch, Pack, BroadcastJob, CancelRequest, AcceptCheck, SkipRequest, DeliveryTimeout
  <1>4. ASSUME NEW t \in Threads, Continue(t) \/ StartFails(t) \/ Crash(t)
        PROVE  UNCHANGED payVars
    BY <1>4
    DEF Continue, MoveToSellerPending, EnqueueBroadcast, RequeueBroadcast, LoadOrder,
        SaveSearch, ArmSearch, UndoDispatch, StampPacked, SkipOrder, Rebroadcast,
        AssignRider, CancelOrder, Compensate, ReleaseStock, MarkReleased, StartFails, Crash
  <1> QED
    BY <1>1, <1>2, <1>3, <1>4 DEF Next

-----------------------------------------------------------------------------
(* What a step does to the calls in flight.                                *)

\* The order is accepted by its seller before or in this step.
Starts(o) == Served(o) /\ wf'[o] \in {"SELLER_ACCEPTED", "DELIVERY_SEARCH"}

\* Call u comes to move with its payment recorded, and to a start of the search
\* from another one or on an order that is open.
CallStep(u) ==
    /\ call'[u].pc = "move" => call'[u] = call[u] \/ captured'[call'[u].ord]
    /\ call'[u].pc \in StartPCs =>
          \/ call[u].pc \in StartPCs /\ call'[u].ord = call[u].ord
          \/ Starts(call'[u].ord)

LEMMA SlotStep ==
  ASSUME TypeInv, NEW t \in Threads, NEW c, call' = [call EXCEPT ![t] = c],
         c.pc = "move" => captured'[c.ord],
         c.pc \in StartPCs => \/ call[t].pc \in StartPCs /\ c.ord = call[t].ord
                              \/ Starts(c.ord)
  PROVE  \A u \in Threads : CallStep(u)
  <1>1. \A u \in Threads : call'[u] = IF u = t THEN c ELSE call[u]
    BY DEF TypeInv, TypeOK
  <1> QED
    BY <1>1 DEF CallStep

LEMMA BeginStep ==
  ASSUME TypeInv, NEW t \in Threads, NEW o \in Orders, NEW pc, NEW src, Begin(t, pc, o, src),
         pc = "move" => captured'[o],
         pc \in StartPCs => Starts(o)
  PROVE  \A u \in Threads : CallStep(u)
  <1> DEFINE c == [Idle EXCEPT !.pc = pc, !.ord = o, !.src = src]
  <1>1. c.pc = pc /\ c.ord = o
    BY DEF Idle
  <1>2. call' = [call EXCEPT ![t] = c]
    BY DEF Begin
  <1> HIDE DEF c
  <1> QED
    BY <1>1, <1>2, SlotStep

LEMMA GotoStep ==
  ASSUME TypeInv, NEW t \in Threads, NEW pc, Goto(t, pc), pc # "move",
         pc \in StartPCs => call[t].pc \in StartPCs
  PROVE  \A u \in Threads : CallStep(u)
  <1> DEFINE c == [call[t] EXCEPT !.pc = pc]
  <1>1. c.pc = pc /\ c.ord = call[t].ord
    BY DEF TypeInv, TypeOK, Calls
  <1>2. call' = [call EXCEPT ![t] = c]
    BY DEF Goto
  <1> HIDE DEF c
  <1> QED
    BY <1>1, <1>2, SlotStep

LEMMA ReturnStep ==
  ASSUME TypeInv, NEW t \in Threads, Return(t)
  PROVE  \A u \in Threads : CallStep(u)
  BY SlotStep DEF Return, Idle, StartPCs

LEMMA SameStep ==
  ASSUME UNCHANGED call
  PROVE  \A u \in Threads : CallStep(u)
  BY DEF CallStep

\* A call that reads an order and a rider, an attempt or the clock.
LEMMA ReadStep ==
  ASSUME TypeInv, NEW t \in Threads, NEW c, call' = [call EXCEPT ![t] = c],
         c.pc \in {"assign", "skip", "retry", "cancel"}
  PROVE  \A u \in Threads : CallStep(u)
  BY SlotStep DEF StartPCs

LEMMA AcceptStep ==
  ASSUME TypeInv, NEW t \in Threads, NEW o \in Orders, NEW auto \in BOOLEAN, Accept(t, o, auto)
  PROVE  \A u \in Threads : CallStep(u)
  <1>1. wf[o] = "SELLER_PENDING"
    BY DEF Accept
  <1>3. wf'[o] = "SELLER_ACCEPTED"
    BY DEF Accept, MoveTo, TypeInv, TypeOK
  <1>2. UNCHANGED call \/ \E pc \in {"enqueue", "load"} : Begin(t, pc, o, "accept")
    BY DEF Accept
  <1> QED
    BY <1>1, <1>2, <1>3, SameStep, BeginStep DEF StartPCs, Starts, Served

LEMMA TimeoutStep ==
  ASSUME TypeInv, NEW t \in Threads, NEW o \in Orders, DeliveryTimeout(t, o)
  PROVE  \A u \in Threads : CallStep(u)
  <1> DEFINE c == [Idle EXCEPT !.pc = "retry", !.ord = o, !.att = attempt[o]]
  <1>1. c.pc = "retry"
    BY DEF Idle
  <1>2. UNCHANGED call \/ call' = [call EXCEPT ![t] = c]
    BY DEF DeliveryTimeout
  <1> HIDE DEF c
  <1> QED
    BY <1>1, <1>2, SameStep, ReadStep

LEMMA ArriveStep ==
  ASSUME TypeInv, NEW t \in Requests, NEW o \in Orders, Arrive(t, o)
  PROVE  \A u \in Threads : CallStep(u)
  <1>0. t \in Threads
    BY DEF Threads
  <1>1. CASE PaymentCaptured(t, o)
    <2>1. captured'[o] /\ Begin(t, "move", o, "none")
      BY <1>1 DEF PaymentCaptured, TypeInv, TypeOK
    <2> QED
      BY <1>0, <2>1, BeginStep DEF StartPCs
  <1>2. CASE SellerAccept(t, o) \/ SellerTimeout(t, o) \/ DeliveryTimeout(t, o)
    BY <1>0, <1>2, AcceptStep, TimeoutStep DEF SellerAccept, SellerTimeout
  <1>3. CASE SellerReject(t, o) \/ SetPreparationTime(t, o) \/ Dispatch(t, o) \/ Pack(t, o)
    <2>1. \E pc \in PCs, src \in Sources :
             /\ Begin(t, pc, o, src)
             /\ pc # "move"
             /\ pc \in StartPCs => Starts(o)
      BY <1>3
      DEF SellerReject, SetPreparationTime, Dispatch, Pack, PCs, Sources, StartPCs, Starts,
          Served, lifeVars, TypeInv, TypeOK
    <2> QED
      BY <1>0, <2>1, BeginStep
  <1>4. CASE BroadcastJob(t, o)
    <2>1. UNCHANGED call \/ (Starts(o) /\ Begin(t, "load", o, "job"))
      BY <1>4 DEF BroadcastJob, StartGuard, Starts, Served, lifeVars
    <2> QED
      BY <1>0, <2>1, SameStep, BeginStep
  <1>5. CASE CancelRequest(t, o)
    <2> DEFINE c == [Idle EXCEPT !.pc = "cancel", !.ord = o, !.grace = ~graceOver[o]]
    <2>1. c.pc = "cancel"
      BY DEF Idle
    <2>2. call' = [call EXCEPT ![t] = c]
      BY <1>5 DEF CancelRequest
    <2> HIDE DEF c
    <2> QED
      BY <1>0, <2>1, <2>2, ReadStep
  <1>6. ASSUME NEW r \in Riders, AcceptCheck(t, o, r) \/ SkipRequest(t, o, r)
        PROVE  \A u \in Threads : CallStep(u)
    <2>1. PICK pc \in {"assign", "skip"} :
            call' = [call EXCEPT ![t] = [Idle EXCEPT !.pc = pc, !.ord = o, !.rid = r]]
      BY <1>6 DEF AcceptCheck, SkipRequest
    <2> DEFINE c == [Idle EXCEPT !.pc = pc, !.ord = o, !.rid = r]
    <2>2. c.pc = pc
      BY DEF Idle
    <2>3. call' = [call EXCEPT ![t] = c]
      BY <2>1
    <2> HIDE DEF c
    <2> QED
      BY <1>0, <2>2, <2>3, ReadStep
  <1> QED
    BY <1>1, <1>2, <1>3, <1>4, <1>5, <1>6 DEF Arrive

LEMMA ContinueStep ==
  ASSUME TypeInv, NEW t \in Threads, Continue(t) \/ StartFails(t) \/ Crash(t)
  PROVE  \A u \in Threads : CallStep(u)
  <1>1. CASE LoadOrder(t)
    <2> DEFINE o == call[t].ord
               c == [call[t] EXCEPT !.pc = "save", !.seenWf = wf[o], !.seenStatus = status[o],
                                    !.seenLead = marker[o] # "none"]
    <2>1. c.pc = "save" /\ c.ord = call[t].ord
      BY DEF TypeInv, TypeOK, Calls
    <2>2. call' = [call EXCEPT ![t] = c] /\ call[t].pc = "load"
      BY <1>1 DEF LoadOrder, At
    <2> HIDE DEF c
    <2> QED
      BY <2>1, <2>2, SlotStep DEF StartPCs
  <1>2. CASE SaveSearch(t) \/ RequeueBroadcast(t) \/ StartFails(t)
    <2>1. call[t].pc \in StartPCs
      BY <1>2 DEF SaveSearch, RequeueBroadcast, StartFails, At, StartPCs
    <2>2. Return(t) \/ Goto(t, "arm") \/ Goto(t, "load") \/ Goto(t, "undo")
      BY <1>2 DEF SaveSearch, RequeueBroadcast, StartFails
    <2> QED
      BY <2>1, <2>2, ReturnStep, GotoStep
  <1>3. CASE CancelOrder(t) \/ Compensate(t) \/ ReleaseStock(t)
    <2>1. \/ Return(t)
          \/ Goto(t, "compensate") \/ Goto(t, "release") \/ Goto(t, "mark")
      BY <1>3 DEF CancelOrder, Compensate, ReleaseStock
    <2> QED
      BY <2>1, ReturnStep, GotoStep DEF StartPCs
  <1>4. CASE \/ MoveToSellerPending(t) \/ EnqueueBroadcast(t) \/ ArmSearch(t)
             \/ UndoDispatch(t) \/ StampPacked(t) \/ SkipOrder(t) \/ Rebroadcast(t)
             \/ AssignRider(t) \/ MarkReleased(t) \/ Crash(t)
    BY <1>4, ReturnStep
    DEF MoveToSellerPending, EnqueueBroadcast, ArmSearch, UndoDispatch, StampPacked,
        SkipOrder, Rebroadcast, AssignRider, MarkReleased, Crash
  <1> QED
    BY <1>1, <1>2, <1>3, <1>4 DEF Continue

LEMMA CallFrame ==
  ASSUME TypeInv, [Next]_vars
  PROVE  \A u \in Threads : CallStep(u)
  <1>1. CASE UNCHANGED vars
    BY <1>1, SameStep DEF vars
  <1>2. ASSUME NEW o \in Orders, Tick(o) \/ PaymentReported(o) \/ RiderMoves(o)
        PROVE  \A u \in Threads : CallStep(u)
    BY <1>2, SameStep
    DEF Tick, WaitEnds, GraceEnds, WindowEnds, LeadEnds, PaymentReported, PaymentFailed,
        PaymentPending, RiderMoves,
        ArriveAtStore, ConfirmPickup, AdvanceRiderUi, HandOver
  <1>3. ASSUME NEW o \in Orders, Poll(o)
        PROVE  \A u \in Threads : CallStep(u)
    <2>0. Poller \in Threads
      BY DEF Threads
    <2>1. CASE CancelUnpaid(o)
      BY <2>0, <2>1, BeginStep DEF CancelUnpaid, StartPCs
    <2>2. CASE PollBroadcast(o)
      BY <2>0, <2>2, BeginStep DEF PollBroadcast, StartGuard, Starts, Served, lifeVars
    <2> QED
      BY <1>3, <2>0, <2>1, <2>2, AcceptStep, TimeoutStep DEF Poll, SellerTimeout
  <1> QED
    BY <1>1, <1>2, <1>3, ArriveStep, ContinueStep DEF Next, Threads

-----------------------------------------------------------------------------
(* The invariant.                                                          *)

LEMMA PayInit == Init => PayInv
  BY DEF Init, PayInv, UnpaidNeverServed, Booked, StartsBooked, StartsAccepted,
         MoveCaptured, Idle, StartPCs

\* Nothing forgets that a payment was booked.
LEMMA BookedStays ==
  ASSUME TypeInv, [Next]_vars, NEW o \in Orders
  PROVE  (captured[o] => captured'[o]) /\ (Booked(o) => Booked(o)')
  <1>1. captured[o] => captured'[o]
    <2>1. ASSUME NEW t \in Requests, NEW p \in Orders, PaymentCaptured(t, p)
          PROVE  captured[o] => captured'[o]
      BY <2>1 DEF PaymentCaptured, TypeInv, TypeOK
    <2> QED
      BY <2>1, PayFrame DEF payVars, PaymentReported, PaymentFailed, PaymentPending
  <1> QED
    BY <1>1 DEF Booked

LEMMA PayStep ==
  ASSUME TypeInv, PayInv, [Next]_vars, TypeInv'
  PROVE  PayInv'
  <1>1. UnpaidNeverServed'
    BY LifeFrame, BookedStays DEF LifeStep, Served, PayInv, UnpaidNeverServed
  <1>2. StartsBooked'
    <2>1. SUFFICES ASSUME NEW u \in Threads, call'[u].pc \in StartPCs
                   PROVE  call'[u].ord \notin Online \/ captured'[call'[u].ord]
      BY DEF StartsBooked, Booked
    <2>2. call'[u].ord \in Orders
      BY <2>1 DEF TypeInv, TypeOK, StartPCs
    <2>3. Booked(call'[u].ord)
      BY <2>1, <2>2, CallFrame DEF CallStep, Starts, PayInv, StartsBooked, UnpaidNeverServed, Served
    <2> QED
      BY <2>2, <2>3, BookedStays DEF Booked
  <1>3. MoveCaptured'
    <2>1. SUFFICES ASSUME NEW u \in Threads, call'[u].pc = "move"
                   PROVE  captured'[call'[u].ord]
      BY DEF MoveCaptured
    <2>2. call'[u].ord \in Orders
      BY <2>1 DEF TypeInv, TypeOK
    <2>3. CASE call'[u] = call[u]
      BY <2>1, <2>2, <2>3, BookedStays DEF PayInv, MoveCaptured
    <2> QED
      BY <2>1, <2>3, CallFrame DEF CallStep
  <1>4. StartsAccepted'
    <2>1. SUFFICES ASSUME NEW u \in Threads, call'[u].pc \in StartPCs
                   PROVE  wf'[call'[u].ord] \notin {"CREATED", "SELLER_PENDING"}
      BY DEF StartsAccepted, Early
    <2>2. call'[u].ord \in Orders
      BY <2>1 DEF TypeInv, TypeOK, StartPCs
    <2>3. CASE call[u].pc \in StartPCs /\ call'[u].ord = call[u].ord
      BY <2>2, <2>3, LifeFrame DEF PayInv, StartsAccepted, LifeStep, Early
    <2> QED
      BY <2>1, <2>3, CallFrame DEF CallStep, Starts
  <1> QED
    BY <1>1, <1>2, <1>3, <1>4 DEF PayInv

\* handleOnlineOrderFinance books a payment before anything opens the order, and
\* nothing starts a search on an order that was never open: no interleaving of
\* captures, failures, stale checks, timeouts and broadcasts serves an ONLINE order
\* whose payment was not booked.
THEOREM UnpaidNeverServedHolds == Spec => []UnpaidNeverServed
  <1>1. TypeInv /\ TypeInv' /\ PayInv /\ [Next]_vars => PayInv'
    BY PayStep
  <1>2. PayInv => UnpaidNeverServed
    BY DEF PayInv
  <1> QED
    BY <1>1, <1>2, PayInit, TypeInvariant, PTL DEF Spec

-----------------------------------------------------------------------------
(* OrderWorkflow implements OrderLife.                                     *)

\* A step of OrderLife that is no claim takes order o to w.
Way(o, w) ==
    \/ w \in Life!Successors[wf[o]] /\ w # "DELIVERY_ASSIGNED"
    \/ wf[o] = "CREATED" /\ w = "CANCELLED"
    \/ ~Early(o) /\ w \in {"SELLER_ACCEPTED", "DELIVERY_SEARCH"}

LEMMA Table ==
  /\ Life!Successors["CREATED"] = {"SELLER_PENDING"}
  /\ {"SELLER_ACCEPTED", "CANCELLED"} \subseteq Life!Successors["SELLER_PENDING"]
  /\ {"DELIVERY_SEARCH", "CANCELLED"} \subseteq Life!Successors["SELLER_ACCEPTED"]
  /\ "CANCELLED" \in Life!Successors["DELIVERY_SEARCH"]
  /\ {"PICKUP_READY", "OUT_FOR_DELIVERY"} \subseteq Life!Successors["DELIVERY_ASSIGNED"]
  /\ "OUT_FOR_DELIVERY" \in Life!Successors["PICKUP_READY"]
  /\ "DELIVERED" \in Life!Successors["OUT_FOR_DELIVERY"]
  BY DEF Life!Successors

WayTaken == UNCHANGED wf \/ \E o \in Orders : \E w : Way(o, w) /\ wf' = [wf EXCEPT ![o] = w]

LEMMA WayFrame ==
  ASSUME TypeInv, PayInv, [Next]_vars, ~\E t \in Threads : AssignRider(t)
  PROVE  WayTaken
  <1> USE DEF lifeVars, WayTaken
  <1>1. CASE UNCHANGED vars
    BY <1>1 DEF vars
  <1>2. ASSUME NEW o \in Orders, Tick(o) \/ PaymentReported(o) \/ RiderMoves(o)
        PROVE  WayTaken
    BY <1>2, Table
    DEF Tick, WaitEnds, GraceEnds, WindowEnds, LeadEnds, PaymentReported, PaymentFailed,
        PaymentPending, RiderMoves, ArriveAtStore, ConfirmPickup, AdvanceRiderUi, HandOver,
        MoveTo, Way
  <1>3. ASSUME NEW o \in Orders, Poll(o)
        PROVE  WayTaken
    BY <1>3, Table
    DEF Poll, CancelUnpaid, SellerTimeout, Accept, PollBroadcast, DeliveryTimeout, MoveTo, Way
  <1>4. ASSUME NEW t \in Requests, NEW o \in Orders, Arrive(t, o)
        PROVE  WayTaken
    BY <1>4, Table
    DEF Arrive, PaymentCaptured, SellerAccept, SellerTimeout, Accept, SellerReject,
        SetPreparationTime, Dispatch, Pack, BroadcastJob, CancelRequest,
        AcceptCheck, SkipRequest, DeliveryTimeout, MoveTo, Way
  <1>5. ASSUME NEW t \in Threads, SaveSearch(t) \/ UndoDispatch(t)
        PROVE  WayTaken
    <2>1. call[t].ord \in Orders /\ ~Early(call[t].ord)
      BY <1>5, InFlight DEF SaveSearch, UndoDispatch, At, PayInv, StartsAccepted, StartPCs
    <2> QED
      BY <1>5, <2>1 DEF SaveSearch, UndoDispatch, Overwrite, Way
  <1>6. ASSUME NEW t \in Threads, MoveToSellerPending(t) \/ CancelOrder(t)
        PROVE  WayTaken
    <2>1. call[t].ord \in Orders
      BY <1>6, InFlight DEF MoveToSellerPending, CancelOrder, At
    <2> QED
      BY <1>6, <2>1, Table DEF MoveToSellerPending, CancelOrder, Cancellable, MoveTo, Way
  <1>7. ASSUME NEW t \in Threads, Continue(t) \/ StartFails(t) \/ Crash(t),
               ~SaveSearch(t), ~UndoDispatch(t), ~MoveToSellerPending(t), ~CancelOrder(t)
        PROVE  UNCHANGED wf
    BY <1>7
    DEF Continue, EnqueueBroadcast, RequeueBroadcast, LoadOrder, ArmSearch, StampPacked,
        SkipOrder, Rebroadcast, Compensate, ReleaseStock, MarkReleased, StartFails, Crash
  <1> QED
    BY <1>1, <1>2, <1>3, <1>4, <1>5, <1>6, <1>7 DEF Next

LEMMA LifeStepTaken ==
  ASSUME TypeInv, PayInv, [Next]_vars
  PROVE  [Life!Next]_<<wf, rider>>
  <1>1. ASSUME NEW t \in Threads, AssignRider(t)
        PROVE  [Life!Next]_<<wf, rider>>
    <2> DEFINE o == call[t].ord
               r == call[t].rid
    <2>1. o \in Orders /\ r \in Riders
      BY <1>1, InFlight DEF AssignRider, At, TypeInv, ReadsBounded
    <2>2. UNCHANGED <<wf, rider>> \/ Life!Claim(o, r)
      BY <1>1 DEF AssignRider, Assignable, MoveTo, lifeVars, Life!Claim
    <2> QED
      BY <2>1, <2>2 DEF Life!Next
  <1>2. CASE ~\E t \in Threads : AssignRider(t)
    <2>1. UNCHANGED rider
      BY <1>2, RiderFrame
    <2>2. ASSUME NEW o \in Orders, NEW w, Way(o, w), wf' = [wf EXCEPT ![o] = w]
          PROVE  Life!Next
      <3>1. Life!Advance(o) \/ Life!Lapse(o) \/ Life!SetBack(o)
        BY <2>1, <2>2 DEF Way, Early, Life!Advance, Life!Lapse, Life!SetBack
      <3> QED
        BY <3>1 DEF Life!Next
    <2> QED
      BY <1>2, <2>1, <2>2, WayFrame DEF WayTaken
  <1> QED
    BY <1>1, <1>2

\* Every step of the workflow is one that OrderLife allows, or none: the races of
\* handlers, workers and the poll loop add nothing to orderStateMachine.js but the
\* lapse of an unpaid order and the set-back by the start of a search.
THEOREM FollowsLifeHolds == Spec => FollowsLife
  <1>1. Init => Life!Init
    BY DEF Init, Life!Init
  <1>2. TypeInv /\ TypeInv' /\ PayInv /\ [Next]_vars => PayInv' /\ [Life!Next]_<<wf, rider>>
    BY PayStep, LifeStepTaken
  <1> QED
    BY <1>1, <1>2, PayInit, TypeInvariant, PTL DEF Spec, FollowsLife, Life!Spec, Life!lifeState
=============================================================================
