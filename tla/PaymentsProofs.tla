--------------------------- MODULE PaymentsProofs ---------------------------
(***************************************************************************)
(* The safety properties of Payments, proved for every number of orders,   *)
(* attempts, calls in flight and faults.                                   *)
(***************************************************************************)
EXTENDS Payments, FiniteSetTheorems, TLAPS

\* The ways an action changes the calls in flight: one slot gets a record.
LEMMA SlotType ==
  ASSUME TypeOK, NEW t \in Calls, NEW c \in CallRecords, call' = [call EXCEPT ![t] = c],
         c.pc \in Loading => c.att \in Attempts
  PROVE  /\ call' \in [Calls -> CallRecords]
         /\ \A u \in Calls : call'[u].pc \in Loading => call'[u].att \in Attempts
         /\ \A u \in Calls : call'[u] = IF u = t THEN c ELSE call[u]
  BY DEF TypeOK

LEMMA ReturnType ==
  ASSUME TypeOK, NEW t \in Calls, Return(t)
  PROVE  /\ call' \in [Calls -> CallRecords]
         /\ \A u \in Calls : call'[u].pc \in Loading => call'[u].att \in Attempts
         /\ \A u \in Calls : call'[u] = IF u = t THEN Idle ELSE call[u]
  <1>1. Idle \in CallRecords /\ Idle.pc \notin Loading
    BY PaymentsAssumption DEF Idle, Working, CallRecords, PCs, Outcomes, Loading
  <1> QED
    BY <1>1, SlotType DEF Return

\* A call that goes on to another step with the same record otherwise.
LEMMA GotoType ==
  ASSUME TypeOK, NEW t \in Calls, NEW pc \in PCs, Goto(t, pc),
         pc \in Loading => call[t].att \in Attempts
  PROVE  /\ call' \in [Calls -> CallRecords]
         /\ \A u \in Calls : call'[u].pc \in Loading => call'[u].att \in Attempts
         /\ \A u \in Calls : call'[u] = IF u = t THEN [call[t] EXCEPT !.pc = pc] ELSE call[u]
  <1> DEFINE c == [call[t] EXCEPT !.pc = pc]
  <1>1. c \in CallRecords /\ c.pc = pc /\ c.att = call[t].att
    BY DEF TypeOK, CallRecords
  <1>2. call' = [call EXCEPT ![t] = c]
    BY DEF Goto
  <1> HIDE DEF c
  <1>3. /\ call' \in [Calls -> CallRecords]
        /\ \A u \in Calls : call'[u].pc \in Loading => call'[u].att \in Attempts
        /\ \A u \in Calls : call'[u] = IF u = t THEN c ELSE call[u]
    BY <1>1, <1>2, SlotType
  <1> QED
    BY <1>3 DEF c

\* Reports are about attempts that were recorded.
ReportsRecorded ==
    \A t \in Calls : call[t].pc \in {"find", "ask"} => pay[call[t].att] # "none"

TypeInv == TypeOK /\ ReportsRecorded

LEMMA TypeInit == Init => TypeInv
  BY PaymentsAssumption
  DEF Init, TypeInv, TypeOK, ReportsRecorded, Idle, Working, CallRecords, PCs, Outcomes, Loading

LEMMA CreatedCount == Cardinality(Created) \in Nat
  <1>1. IsFiniteSet(Attempts)
    BY PaymentsAssumption, FS_Interval DEF Attempts
  <1>2. IsFiniteSet(Created)
    BY <1>1, FS_Subset DEF Created
  <1> QED
    BY <1>2, FS_CardinalityType

LEMMA WorkingType ==
  ASSUME NEW pc \in PCs, NEW p \in Attempts, NEW x \in Outcomes, NEW y \in Outcomes
  PROVE  /\ Working(pc, p, x, y) \in CallRecords
         /\ Working(pc, p, x, y).pc = pc
         /\ Working(pc, p, x, y).att = p
  BY PaymentsAssumption DEF Working, CallRecords, Attempts

LEMMA GatewayType ==
  ASSUME TypeInv, NEW p \in Attempts, Gateway(p)
  PROVE  TypeInv'
  <1> USE DEF orderVars
  <1>1. CASE SessionExpires(p)
    BY <1>1 DEF SessionExpires, TypeInv, TypeOK, ReportsRecorded
  <1>2. CASE Pay(p)
    BY <1>2 DEF Pay, TypeInv, TypeOK, ReportsRecorded
  <1> QED
    BY <1>1, <1>2 DEF Gateway

\* A call that starts, by the request or the event it serves.
LEMMA StartType ==
  ASSUME TypeInv, NEW t \in Calls,
         \/ CreateAttempt(t)
         \/ \E p \in Attempts, y \in Outcomes : ReceiveWebhook(t, p, y)
         \/ \E p \in Attempts : CheckStatus(t, p)
         \/ \E o \in Orders : CancelUnpaid(t, o) \/ CancelOrder(t, o)
  PROVE  TypeInv'
  <1> USE DEF orderVars
  <1>1. CASE CreateAttempt(t)
    <2> DEFINE p == Cardinality(Created) + 1
               c == Working("initiate", p, "PENDING", "PENDING")
    <2>1. p \in Attempts
      BY <1>1, CreatedCount, PaymentsAssumption DEF CreateAttempt, Attempts
    <2>2. c \in CallRecords /\ c.pc = "initiate" /\ c.att = p
      BY <2>1, WorkingType DEF PCs, Outcomes
    <2>3. call' = [call EXCEPT ![t] = c]
      BY <1>1 DEF CreateAttempt
    <2> HIDE DEF c, p
    <2>4. /\ call' \in [Calls -> CallRecords]
          /\ \A u \in Calls : call'[u].pc \in Loading => call'[u].att \in Attempts
          /\ \A u \in Calls : call'[u] = IF u = t THEN c ELSE call[u]
      BY <2>1, <2>2, <2>3, SlotType DEF TypeInv
    <2>5. TypeOK'
      BY <1>1, <2>4 DEF CreateAttempt, TypeInv, TypeOK
    <2> QED
      BY <1>1, <2>1, <2>2, <2>4, <2>5 DEF CreateAttempt, TypeInv, ReportsRecorded
  <1>2. ASSUME NEW p \in Attempts, NEW y \in Outcomes, ReceiveWebhook(t, p, y)
        PROVE  TypeInv'
    <2> DEFINE c == Working("find", p, "PENDING", y)
    <2>1. pay[p] # "none"
      BY <1>2 DEF ReceiveWebhook, Created
    <2>2. c \in CallRecords /\ c.pc = "find" /\ c.att = p
      BY WorkingType DEF PCs, Outcomes
    <2>3. call' = [call EXCEPT ![t] = c]
      BY <1>2 DEF ReceiveWebhook
    <2> HIDE DEF c
    <2>4. /\ call' \in [Calls -> CallRecords]
          /\ \A u \in Calls : call'[u].pc \in Loading => call'[u].att \in Attempts
          /\ \A u \in Calls : call'[u] = IF u = t THEN c ELSE call[u]
      BY <2>2, <2>3, SlotType DEF TypeInv
    <2>5. TypeOK'
      BY <1>2, <2>4 DEF ReceiveWebhook, TypeInv, TypeOK
    <2> QED
      BY <1>2, <2>1, <2>2, <2>4, <2>5 DEF ReceiveWebhook, TypeInv, ReportsRecorded
  <1>3. ASSUME NEW p \in Attempts, CheckStatus(t, p)
        PROVE  TypeInv'
    <2> DEFINE c == Working("ask", p, pay[p], "PENDING")
    <2>1. pay[p] \in Outcomes /\ pay[p] # "none"
      BY <1>3 DEF CheckStatus, Created, TypeInv, TypeOK, Outcomes
    <2>2. c \in CallRecords /\ c.pc = "ask" /\ c.att = p
      BY <2>1, WorkingType DEF PCs, Outcomes
    <2>3. call' = [call EXCEPT ![t] = c]
      BY <1>3 DEF CheckStatus
    <2> HIDE DEF c
    <2>4. /\ call' \in [Calls -> CallRecords]
          /\ \A u \in Calls : call'[u].pc \in Loading => call'[u].att \in Attempts
          /\ \A u \in Calls : call'[u] = IF u = t THEN c ELSE call[u]
      BY <2>1, <2>2, <2>3, SlotType DEF TypeInv
    <2>5. TypeOK'
      BY <1>3, <2>4 DEF CheckStatus, TypeInv, TypeOK
    <2> QED
      BY <1>3, <2>1, <2>2, <2>4, <2>5 DEF CheckStatus, TypeInv, ReportsRecorded
  <1>4. ASSUME NEW o \in Orders, CancelUnpaid(t, o) \/ CancelOrder(t, o)
        PROVE  TypeInv'
    <2>1. Goto(t, "close") /\ "close" \in PCs
      BY <1>4 DEF CancelUnpaid, CancelOrder, Goto, PCs
    <2>2. /\ call' \in [Calls -> CallRecords]
          /\ \A u \in Calls : call'[u].pc \in Loading => call'[u].att \in Attempts
      BY <2>1, GotoType DEF TypeInv, Loading
    <2>3. \A u \in Calls : call'[u] = call[u] \/ call'[u].pc = "close"
      BY <2>1 DEF Goto, TypeInv, TypeOK, CallRecords
    <2> QED
      BY <1>4, <2>2, <2>3 DEF CancelUnpaid, CancelOrder, TypeInv, TypeOK, ReportsRecorded, At
  <1> QED
    BY <1>1, <1>2, <1>3, <1>4

\* A call whose next record is c: one slot changes, and what c says of reports holds.
LEMMA NextRecord ==
  ASSUME TypeInv, NEW t \in Calls, NEW c \in CallRecords, call' = [call EXCEPT ![t] = c],
         c.pc \in Loading => c.att \in Attempts,
         c.pc \in {"find", "ask"} => pay[c.att] # "none",
         pay' \in [Attempts -> Outcomes \cup {"none"}],
         \A p \in Attempts : pay[p] # "none" => pay'[p] # "none",
         session' \in [Attempts -> {"none", "ACTIVE", "PAID", "EXPIRED"}],
         wf' \in [Orders -> {"CREATED", "SELLER_PENDING", "CANCELLED"}],
         payStatus' \in [Orders -> {"CREATED", "PAID", "FAILED"}],
         captured' \in [Orders -> BOOLEAN],
         credits' \in [Orders -> 0..2],
         group' \in {"CREATED", "PAID", "CANCELLED"},
         faults' \in 0..MaxFaults,
         UNCHANGED seen
  PROVE  TypeInv'
  <1>1. /\ call' \in [Calls -> CallRecords]
        /\ \A u \in Calls : call'[u].pc \in Loading => call'[u].att \in Attempts
        /\ \A u \in Calls : call'[u] = IF u = t THEN c ELSE call[u]
    BY SlotType DEF TypeInv
  <1>2. TypeOK'
    BY <1>1 DEF TypeInv, TypeOK
  <1>4. \A u \in Calls : call'[u].pc \in {"find", "ask"} => pay'[call'[u].att] # "none"
    <2> SUFFICES ASSUME NEW u \in Calls, call'[u].pc \in {"find", "ask"}
                 PROVE  pay'[call'[u].att] # "none"
      OBVIOUS
    <2>1. call'[u].att \in Attempts
      BY <1>1 DEF Loading
    <2>2. pay[call'[u].att] # "none"
      BY <1>1 DEF TypeInv, ReportsRecorded
    <2> QED
      BY <2>1, <2>2
  <1> QED
    BY <1>2, <1>4 DEF TypeInv, ReportsRecorded

\* What a call in flight holds.
LEMMA Held ==
  ASSUME TypeInv, NEW t \in Calls
  PROVE  /\ call[t] \in CallRecords
         /\ call[t].pc \in Loading => call[t].att \in Attempts
         /\ call[t].pc \in {"find", "ask"} => pay[call[t].att] \in Outcomes \ {"none"}
  <1>1. call[t] \in CallRecords /\ (call[t].pc \in Loading => call[t].att \in Attempts)
    BY DEF TypeInv, TypeOK
  <1>2. call[t].pc \in {"find", "ask"} => pay[call[t].att] \in Outcomes \ {"none"}
    BY <1>1 DEF TypeInv, TypeOK, ReportsRecorded, Loading, Outcomes
  <1> QED
    BY <1>1, <1>2

LEMMA LoadType ==
  ASSUME TypeInv, NEW t \in Calls,
         InitiatePayment(t) \/ InsertAttempt(t) \/ FindPayment(t) \/ AskGateway(t)
  PROVE  TypeInv'
  <1> USE DEF orderVars
  <1>0. Idle \in CallRecords /\ Idle.pc = "idle"
    BY PaymentsAssumption DEF Idle, Working, CallRecords, PCs, Outcomes
  <1>1. CASE InitiatePayment(t)
    <2> DEFINE c == IF session[call[t].att] = "none"
                    THEN [call[t] EXCEPT !.pc = "insert"] ELSE Idle
    <2>1. c \in CallRecords /\ (c.pc \in Loading => c.att \in Attempts)
      BY <1>0, <1>1, Held DEF InitiatePayment, At, CallRecords, PCs, Loading
    <2>2. call' = [call EXCEPT ![t] = c] /\ c.pc \notin {"find", "ask"}
      BY <1>0, <1>1, Held DEF InitiatePayment, Goto, Return, CallRecords
    <2>3. session' \in [Attempts -> {"none", "ACTIVE", "PAID", "EXPIRED"}]
      BY <1>1 DEF InitiatePayment, TypeInv, TypeOK
    <2> HIDE DEF c
    <2>4. /\ UNCHANGED <<wf, payStatus, captured, credits, group, pay, seen, faults>>
          /\ TypeOK
      BY <1>1 DEF InitiatePayment, TypeInv
    <2> QED
      BY <2>1, <2>2, <2>3, <2>4, NextRecord DEF TypeOK
  <1>2. CASE InsertAttempt(t)
    <2>1. call' = [call EXCEPT ![t] = Idle] /\ TypeOK
      BY <1>2 DEF InsertAttempt, Return, TypeInv
    <2>2. /\ pay' \in [Attempts -> Outcomes \cup {"none"}]
          /\ \A p \in Attempts : pay[p] # "none" => pay'[p] # "none"
      BY <1>2 DEF InsertAttempt, TypeInv, TypeOK, Outcomes
    <2>3. UNCHANGED <<wf, payStatus, captured, credits, group, session, seen, faults>>
      BY <1>2 DEF InsertAttempt
    <2> QED
      BY <1>0, <2>1, <2>2, <2>3, NextRecord DEF TypeOK, Loading
  <1>3. CASE FindPayment(t)
    <2> DEFINE c == [call[t] EXCEPT !.pc = "save", !.seenStatus = pay[call[t].att]]
    <2>1. call[t] \in CallRecords /\ call[t].att \in Attempts /\ pay[call[t].att] \in Outcomes
      BY <1>3, Held DEF FindPayment, At, Loading
    <2>2. c \in CallRecords /\ c.pc = "save" /\ c.att = call[t].att
      BY <2>1 DEF CallRecords, PCs
    <2>3. call' = [call EXCEPT ![t] = c]
      BY <1>3 DEF FindPayment
    <2>4. /\ UNCHANGED <<wf, payStatus, captured, credits, group, pay, session, seen, faults>>
          /\ TypeOK
      BY <1>3 DEF FindPayment, TypeInv
    <2> HIDE DEF c
    <2> QED
      BY <2>1, <2>2, <2>3, <2>4, NextRecord DEF TypeOK
  <1>4. CASE AskGateway(t)
    <2> DEFINE c == [call[t] EXCEPT !.pc = "save", !.next = Reported(call[t].att)]
    <2>1. call[t] \in CallRecords /\ call[t].att \in Attempts
      BY <1>4, Held DEF AskGateway, At, Loading
    <2>5. Reported(call[t].att) \in Outcomes
      BY <2>1 DEF Reported, TypeInv, TypeOK, Outcomes
    <2>2. c \in CallRecords /\ c.pc = "save" /\ c.att = call[t].att
      BY <2>1, <2>5 DEF CallRecords, PCs
    <2>3. call' = [call EXCEPT ![t] = c]
      BY <1>4 DEF AskGateway
    <2>4. /\ UNCHANGED <<wf, payStatus, captured, credits, group, pay, session, seen, faults>>
          /\ TypeOK
      BY <1>4 DEF AskGateway, TypeInv
    <2> HIDE DEF c
    <2> QED
      BY <2>1, <2>2, <2>3, <2>4, NextRecord DEF TypeOK
  <1> QED
    BY <1>1, <1>2, <1>3, <1>4

\* The record with which an outcome is carried to the orders.
Carrying(t) == Effect(call[t].seenStatus, call[t].next)

LEMMA CarryingType ==
  ASSUME TypeInv, NEW t \in Calls
  PROVE  /\ Carrying(t) \in CallRecords
         /\ Carrying(t).next = call[t].next
         /\ call[t].next = "PENDING" => Carrying(t).seenStatus = call[t].seenStatus
         /\ Carrying(t).left = Orders
         /\ Carrying(t).pc = IF call[t].next = "PENDING" THEN "pend"
                             ELSE IF call[t].next = "CAPTURED" THEN "capture" ELSE "cancel"
  <1>1. call[t] \in CallRecords
    BY Held
  <1>2. call[t].next \in Outcomes /\ call[t].seenStatus \in Outcomes
    BY <1>1 DEF CallRecords
  <1>3. EffectOf[call[t].next] = IF call[t].next = "PENDING" THEN "pend"
                                 ELSE IF call[t].next = "CAPTURED" THEN "capture" ELSE "cancel"
    BY <1>2 DEF EffectOf, Outcomes
  <1> QED
    BY <1>2, <1>3, PaymentsAssumption DEF Carrying, Effect, Working, CallRecords, PCs, Outcomes

LEMMA SaveType ==
  ASSUME TypeInv, NEW t \in Calls, SaveTransition(t)
  PROVE  TypeInv'
  <1> DEFINE p == call[t].att
  <1>0. Idle \in CallRecords /\ Idle.pc = "idle"
    BY PaymentsAssumption DEF Idle, Working, CallRecords, PCs, Outcomes
  <1>1. p \in Attempts /\ call[t].next \in Outcomes
    BY Held DEF SaveTransition, At, Loading, CallRecords
  <1>2. /\ pay' \in [Attempts -> Outcomes \cup {"none"}]
        /\ \A q \in Attempts : pay[q] # "none" => pay'[q] # "none"
    BY <1>1 DEF SaveTransition, TypeInv, TypeOK, Outcomes
  <1>3. call' = [call EXCEPT ![t] = Carrying(t)] \/ call' = [call EXCEPT ![t] = Idle]
    BY DEF SaveTransition, Carrying, Return, HasEffects
  <1>4. /\ UNCHANGED <<wf, payStatus, captured, credits, group, session, seen, faults>>
        /\ TypeOK
    BY DEF SaveTransition, TypeInv, orderVars
  <1>5. Carrying(t) \in CallRecords /\ Carrying(t).pc \notin Loading
    BY CarryingType DEF Loading
  <1> HIDE DEF p
  <1> QED
    BY <1>0, <1>2, <1>3, <1>4, <1>5, NextRecord DEF TypeOK, Loading

LEMMA OrdersType ==
  ASSUME TypeInv, NEW t \in Calls,
         \/ \E o \in Orders : CaptureOrder(t, o) \/ MoveOrder(t, o)
         \/ CancelOrders(t) \/ WritePending(t) \/ UpdateGroup(t) \/ CloseGroup(t) \/ Crash(t)
  PROVE  TypeInv'
  <1> USE DEF orderVars
  <1>0. Idle \in CallRecords /\ Idle.pc \notin Loading
    BY PaymentsAssumption DEF Idle, Working, CallRecords, PCs, Outcomes, Loading
  <1>1. ASSUME NEW o \in Orders, CaptureOrder(t, o)
        PROVE  TypeInv'
    <2> DEFINE c == [call[t] EXCEPT !.pc = "move", !.ord = {o}]
    <2>1. c \in CallRecords /\ c.pc \notin Loading
      BY Held DEF CallRecords, PCs, Loading
    <2>2. call' = [call EXCEPT ![t] = c]
      BY <1>1 DEF CaptureOrder
    <2>3. /\ captured' \in [Orders -> BOOLEAN]
          /\ payStatus' \in [Orders -> {"CREATED", "PAID", "FAILED"}]
      BY <1>1 DEF CaptureOrder, TypeInv, TypeOK
    <2>5. credits' \in [Orders -> 0..2]
      <3> DEFINE n == IF credits[o] = 2 THEN 2 ELSE credits[o] + 1
      <3>1. credits \in [Orders -> 0..2] /\ n \in 0..2
        BY DEF TypeInv, TypeOK
      <3>2. UNCHANGED credits \/ credits' = [credits EXCEPT ![o] = n]
        BY <1>1 DEF CaptureOrder
      <3> HIDE DEF n
      <3> QED
        BY <3>1, <3>2
    <2>4. UNCHANGED <<wf, group, pay, session, seen, faults>> /\ TypeOK
      BY <1>1 DEF CaptureOrder, TypeInv
    <2> HIDE DEF c
    <2> QED
      BY <2>1, <2>2, <2>3, <2>4, <2>5, NextRecord DEF TypeOK, Loading
  <1>2. ASSUME NEW o \in Orders, MoveOrder(t, o)
        PROVE  TypeInv'
    <2> DEFINE c == [call[t] EXCEPT !.pc = NextOrder(t, o), !.left = call[t].left \ {o},
                               !.ord = {}]
    <2>0. call[t] \in CallRecords /\ NextOrder(t, o) \in {"group", "capture"}
      BY Held DEF NextOrder
    <2>1. c \in CallRecords /\ c.pc \notin Loading
      BY <2>0 DEF CallRecords, PCs, Loading
    <2>2. call' = [call EXCEPT ![t] = c]
      BY <1>2 DEF MoveOrder
    <2>3. wf' \in [Orders -> {"CREATED", "SELLER_PENDING", "CANCELLED"}]
      BY <1>2 DEF MoveOrder, TypeInv, TypeOK
    <2>4. /\ UNCHANGED <<payStatus, captured, credits, group, pay, session, seen, faults>>
          /\ TypeOK
      BY <1>2 DEF MoveOrder, TypeInv
    <2> HIDE DEF c
    <2> QED
      BY <2>1, <2>2, <2>3, <2>4, NextRecord DEF TypeOK, Loading
  <1>3. CASE CancelOrders(t)
    <2> DEFINE c == [call[t] EXCEPT !.pc = "group"]
    <2>1. c \in CallRecords /\ c.pc \notin Loading
      BY Held DEF CallRecords, PCs, Loading
    <2>2. call' = [call EXCEPT ![t] = c]
      BY <1>3 DEF CancelOrders, Goto
    <2>3. /\ wf' \in [Orders -> {"CREATED", "SELLER_PENDING", "CANCELLED"}]
          /\ payStatus' \in [Orders -> {"CREATED", "PAID", "FAILED"}]
      BY <1>3 DEF CancelOrders, TypeInv, TypeOK
    <2>4. UNCHANGED <<captured, credits, group, pay, session, seen, faults>> /\ TypeOK
      BY <1>3 DEF CancelOrders, TypeInv
    <2> HIDE DEF c
    <2> QED
      BY <2>1, <2>2, <2>3, <2>4, NextRecord DEF TypeOK, Loading
  <1>4. CASE WritePending(t) \/ UpdateGroup(t) \/ CloseGroup(t) \/ Crash(t)
    <2>1. call' = [call EXCEPT ![t] = Idle] /\ TypeOK
      BY <1>4 DEF WritePending, UpdateGroup, CloseGroup, Crash, Return, TypeInv
    <2>2. payStatus' \in [Orders -> {"CREATED", "PAID", "FAILED"}]
      BY <1>4 DEF WritePending, UpdateGroup, CloseGroup, Crash, TypeInv, TypeOK
    <2>3. group' \in {"CREATED", "PAID", "CANCELLED"}
      BY <1>4 DEF WritePending, UpdateGroup, CloseGroup, Crash, TypeInv, TypeOK
    <2>4. faults' \in 0..MaxFaults
      BY <1>4, PaymentsAssumption
      DEF WritePending, UpdateGroup, CloseGroup, Crash, TypeInv, TypeOK
    <2>5. UNCHANGED <<wf, captured, credits, pay, session, seen>>
      BY <1>4 DEF WritePending, UpdateGroup, CloseGroup, Crash
    <2> QED
      BY <1>0, <2>1, <2>2, <2>3, <2>4, <2>5, NextRecord DEF TypeOK, Loading
  <1> QED
    BY <1>1, <1>2, <1>3, <1>4

LEMMA TypeStep == TypeInv /\ [Next]_vars => TypeInv'
  <1> SUFFICES ASSUME TypeInv, [Next]_vars PROVE TypeInv'
    OBVIOUS
  <1>1. CASE UNCHANGED vars
    BY <1>1 DEF vars, orderVars, TypeInv, TypeOK, ReportsRecorded
  <1> QED
    BY <1>1, GatewayType, StartType, LoadType, SaveType, OrdersType DEF Next, Continue

THEOREM PaymentsTypeInvariant == Spec => []TypeInv
  BY TypeInit, TypeStep, PTL DEF Spec

\* Orders, attempts and calls keep their types; no call reads an attempt that was
\* not recorded.
THEOREM PaymentsTypeCorrect == Spec => []TypeOK
  BY PaymentsTypeInvariant, PTL DEF TypeInv

-----------------------------------------------------------------------------
(* What is booked when.                                                    *)

\* A call that carries an outcome to the orders: the orders it has dealt with are
\* booked when the outcome is a capture; it only writes PENDING over what it loaded
\* as PENDING.
CarryOk(c, cap) ==
    /\ c.pc \in {"capture", "move"} =>
          c.next = "CAPTURED" /\ \A o \in Orders \ c.left : cap[o]
    /\ c.pc = "move" => \A o \in c.ord : cap[o]
    /\ c.pc = "group" /\ c.next = "CAPTURED" => \A o \in Orders : cap[o]
    /\ c.pc = "cancel" => c.next # "CAPTURED"
    /\ c.pc = "pend" => c.seenStatus = "PENDING"

CarryInv == \A t \in Calls : CarryOk(call[t], captured)

BookInv == CarryInv /\ CapturedOnce /\ OpenedIsCaptured /\ GroupPaidIsCaptured

LEMMA BookInit == Init => BookInv
  BY PaymentsAssumption
  DEF Init, BookInv, CarryInv, CarryOk, CapturedOnce, OpenedIsCaptured, GroupPaidIsCaptured,
      Idle, Working

\* One slot changes, and nothing that was booked is forgotten.
LEMMA CarrySlot ==
  ASSUME TypeInv, CarryInv, NEW t \in Calls, NEW c, call' = [call EXCEPT ![t] = c],
         \A o \in Orders : captured[o] => captured'[o],
         CarryOk(c, captured')
  PROVE  CarryInv'
  <1>1. \A u \in Calls : call'[u] = IF u = t THEN c ELSE call[u]
    BY DEF TypeInv, TypeOK
  <1>2. \A u \in Calls : call[u].ord \subseteq Orders
    BY DEF TypeInv, TypeOK, CallRecords
  <1> QED
    BY <1>1, <1>2 DEF CarryInv, CarryOk

LEMMA OutsideBooks ==
  ASSUME TypeInv, BookInv, UNCHANGED <<captured, credits, group>>,
         \A o \in Orders : wf'[o] = "SELLER_PENDING" => wf[o] = "SELLER_PENDING",
         CarryInv'
  PROVE  BookInv'
  BY DEF BookInv, CapturedOnce, OpenedIsCaptured, GroupPaidIsCaptured

LEMMA StartBooks ==
  ASSUME TypeInv, BookInv, NEW t \in Calls,
         \/ CreateAttempt(t)
         \/ \E p \in Attempts, y \in Outcomes : ReceiveWebhook(t, p, y)
         \/ \E p \in Attempts : CheckStatus(t, p)
         \/ \E o \in Orders : CancelUnpaid(t, o) \/ CancelOrder(t, o)
  PROVE  BookInv'
  <1> USE DEF orderVars
  <1>1. UNCHANGED <<captured, credits, group>>
    BY DEF CreateAttempt, ReceiveWebhook, CheckStatus, CancelUnpaid, CancelOrder
  <1>2. \A o \in Orders : wf'[o] = "SELLER_PENDING" => wf[o] = "SELLER_PENDING"
    BY DEF CreateAttempt, ReceiveWebhook, CheckStatus, CancelUnpaid, CancelOrder, TypeInv, TypeOK
  <1>3. PICK c : call' = [call EXCEPT ![t] = c] /\ c.pc \in {"initiate", "find", "ask", "close"}
    <2>1. CASE \E o \in Orders : CancelUnpaid(t, o) \/ CancelOrder(t, o)
      <3> DEFINE c == [call[t] EXCEPT !.pc = "close"]
      <3>1. c.pc = "close"
        BY Held DEF CallRecords
      <3>2. call' = [call EXCEPT ![t] = c]
        BY <2>1 DEF CancelUnpaid, CancelOrder
      <3> HIDE DEF c
      <3> QED
        BY <3>1, <3>2
    <2>2. CASE CreateAttempt(t)
      <3> DEFINE c == Working("initiate", Cardinality(Created) + 1, "PENDING", "PENDING")
      <3>1. c.pc = "initiate"
        BY DEF Working
      <3>2. call' = [call EXCEPT ![t] = c]
        BY <2>2 DEF CreateAttempt
      <3> HIDE DEF c
      <3> QED
        BY <3>1, <3>2
    <2>3. ASSUME NEW p \in Attempts, NEW y \in Outcomes, ReceiveWebhook(t, p, y)
          PROVE  \E c : call' = [call EXCEPT ![t] = c] /\ c.pc \in {"initiate", "find", "ask", "close"}
      <3> DEFINE c == Working("find", p, "PENDING", y)
      <3>1. c.pc = "find"
        BY DEF Working
      <3>2. call' = [call EXCEPT ![t] = c]
        BY <2>3 DEF ReceiveWebhook
      <3> HIDE DEF c
      <3> QED
        BY <3>1, <3>2
    <2>4. ASSUME NEW p \in Attempts, CheckStatus(t, p)
          PROVE  \E c : call' = [call EXCEPT ![t] = c] /\ c.pc \in {"initiate", "find", "ask", "close"}
      <3> DEFINE c == Working("ask", p, pay[p], "PENDING")
      <3>1. c.pc = "ask"
        BY DEF Working
      <3>2. call' = [call EXCEPT ![t] = c]
        BY <2>4 DEF CheckStatus
      <3> HIDE DEF c
      <3> QED
        BY <3>1, <3>2
    <2> QED
      BY <2>1, <2>2, <2>3, <2>4
  <1>4. CarryInv'
    BY <1>1, <1>3, CarrySlot DEF BookInv, CarryOk
  <1> QED
    BY <1>1, <1>2, <1>4, OutsideBooks

LEMMA LoadBooks ==
  ASSUME TypeInv, BookInv, NEW t \in Calls,
         InitiatePayment(t) \/ InsertAttempt(t) \/ FindPayment(t) \/ AskGateway(t)
  PROVE  BookInv'
  <1> USE DEF orderVars
  <1>1. UNCHANGED <<wf, captured, credits, group>>
    BY DEF InitiatePayment, InsertAttempt, FindPayment, AskGateway
  <1>2. PICK c : call' = [call EXCEPT ![t] = c] /\ c.pc \in {"insert", "idle", "save"}
    <2>1. Idle.pc = "idle" /\ call[t] \in CallRecords
      BY Held DEF Idle, Working
    <2>2. CASE InitiatePayment(t)
      <3> DEFINE c == [call[t] EXCEPT !.pc = "insert"]
      <3>1. c.pc = "insert"
        BY <2>1 DEF CallRecords
      <3>2. call' = [call EXCEPT ![t] = c] \/ call' = [call EXCEPT ![t] = Idle]
        BY <2>2 DEF InitiatePayment, Goto, Return
      <3> HIDE DEF c
      <3> QED
        BY <2>1, <3>1, <3>2
    <2>3. CASE InsertAttempt(t)
      BY <2>1, <2>3 DEF InsertAttempt, Return
    <2>4. CASE FindPayment(t)
      <3> DEFINE c == [call[t] EXCEPT !.pc = "save", !.seenStatus = pay[call[t].att]]
      <3>1. c.pc = "save"
        BY <2>1 DEF CallRecords
      <3>2. call' = [call EXCEPT ![t] = c]
        BY <2>4 DEF FindPayment
      <3> HIDE DEF c
      <3> QED
        BY <3>1, <3>2
    <2>5. CASE AskGateway(t)
      <3> DEFINE c == [call[t] EXCEPT !.pc = "save", !.next = Reported(call[t].att)]
      <3>1. c.pc = "save"
        BY <2>1 DEF CallRecords
      <3>2. call' = [call EXCEPT ![t] = c]
        BY <2>5 DEF AskGateway
      <3> HIDE DEF c
      <3> QED
        BY <3>1, <3>2
    <2> QED
      BY <2>2, <2>3, <2>4, <2>5
  <1>3. CarryInv'
    BY <1>1, <1>2, CarrySlot DEF BookInv, CarryOk
  <1> QED
    BY <1>1, <1>3, OutsideBooks

\* TRANSITIONS leads nowhere back to PENDING.
LEMMA NoWayBack == \A x \in Outcomes : ~canTransition(x, "PENDING")
  BY DEF Outcomes, canTransition, Transitions

LEMMA SaveBooks ==
  ASSUME TypeInv, BookInv, NEW t \in Calls, SaveTransition(t)
  PROVE  BookInv'
  <1>1. UNCHANGED <<wf, captured, credits, group>>
    BY DEF SaveTransition, orderVars
  <1>2. call[t] \in CallRecords
    BY Held
  <1>3. CASE call' = [call EXCEPT ![t] = Carrying(t)] /\ Accepted(t)
    <2>1. call[t].next = "PENDING" => call[t].seenStatus = "PENDING"
      BY <1>2, <1>3, NoWayBack DEF Accepted, CallRecords
    <2>2. CarryOk(Carrying(t), captured')
      BY <2>1, CarryingType DEF CarryOk
    <2>3. CarryInv'
      BY <1>1, <1>3, <2>2, CarrySlot DEF BookInv
    <2> QED
      BY <1>1, <2>3, OutsideBooks
  <1>4. CASE Return(t)
    <2>1. CarryOk(Idle, captured')
      BY DEF CarryOk, Idle, Working
    <2>2. CarryInv'
      BY <1>1, <1>4, <2>1, CarrySlot DEF BookInv, Return
    <2> QED
      BY <1>1, <2>2, OutsideBooks
  <1> QED
    BY <1>3, <1>4 DEF SaveTransition, Carrying, HasEffects

LEMMA CaptureBooks ==
  ASSUME TypeInv, BookInv, NEW t \in Calls, NEW o \in Orders, CaptureOrder(t, o)
  PROVE  BookInv'
  <1> DEFINE c == [call[t] EXCEPT !.pc = "move", !.ord = {o}]
             n == IF credits[o] = 2 THEN 2 ELSE credits[o] + 1
  <1>1. call[t] \in CallRecords /\ CarryOk(call[t], captured) /\ call[t].pc = "capture"
    BY Held DEF CaptureOrder, At, BookInv, CarryInv
  <1>2. c.pc = "move" /\ c.ord = {o} /\ c.left = call[t].left /\ c.next = call[t].next
    BY <1>1 DEF CallRecords
  <1>3. call' = [call EXCEPT ![t] = c] /\ UNCHANGED <<wf, group>>
    BY DEF CaptureOrder
  <1>4. n = IF credits[o] = 2 THEN 2 ELSE credits[o] + 1
    OBVIOUS
  <1> HIDE DEF c, n
  <1>5. captured'[o] /\ \A p \in Orders : captured[p] => captured'[p]
    BY DEF CaptureOrder, AlreadyCaptured, TypeInv, TypeOK
  <1>6. CapturedOnce'
    <2>1. CASE AlreadyCaptured(o)
      BY <2>1 DEF CaptureOrder, BookInv, CapturedOnce
    <2>2. CASE ~AlreadyCaptured(o)
      <3>1. credits[o] = 0 /\ credits \in [Orders -> 0..2] /\ captured \in [Orders -> BOOLEAN]
        BY <2>2 DEF AlreadyCaptured, BookInv, CapturedOnce, TypeInv, TypeOK
      <3>2. captured' = [captured EXCEPT ![o] = TRUE] /\ credits' = [credits EXCEPT ![o] = n]
        BY <2>2, <1>4 DEF CaptureOrder
      <3> QED
        BY <1>4, <3>1, <3>2 DEF BookInv, CapturedOnce
    <2> QED
      BY <2>1, <2>2
  <1>7. CarryOk(c, captured')
    BY <1>1, <1>2, <1>5 DEF CarryOk
  <1>8. CarryInv'
    BY <1>3, <1>5, <1>7, CarrySlot DEF BookInv
  <1>9. OpenedIsCaptured' /\ GroupPaidIsCaptured'
    BY <1>3, <1>5 DEF BookInv, OpenedIsCaptured, GroupPaidIsCaptured
  <1> QED
    BY <1>6, <1>8, <1>9 DEF BookInv

LEMMA MoveBooks ==
  ASSUME TypeInv, BookInv, NEW t \in Calls, NEW o \in Orders, MoveOrder(t, o)
  PROVE  BookInv'
  <1> DEFINE c == [call[t] EXCEPT !.pc = NextOrder(t, o), !.left = call[t].left \ {o},
                                  !.ord = {}]
  <1>1. /\ call[t] \in CallRecords /\ CarryOk(call[t], captured)
        /\ call[t].pc = "move" /\ call[t].ord = {o}
    BY Held DEF MoveOrder, At, BookInv, CarryInv
  <1>2. /\ c.pc = NextOrder(t, o) /\ c.left = call[t].left \ {o} /\ c.next = call[t].next
        /\ c.ord = {}
    BY <1>1 DEF CallRecords
  <1>3. call' = [call EXCEPT ![t] = c] /\ UNCHANGED <<captured, credits, group>>
    BY DEF MoveOrder
  <1> HIDE DEF c
  <1>4. captured[o]
    BY <1>1 DEF CarryOk
  <1>5. NextOrder(t, o) = IF call[t].left = {o} THEN "group" ELSE "capture"
    BY DEF NextOrder
  <1>6. CarryOk(c, captured')
    BY <1>1, <1>2, <1>3, <1>4, <1>5 DEF CarryOk
  <1>7. CarryInv'
    BY <1>3, <1>6, CarrySlot DEF BookInv
  <1>8. OpenedIsCaptured'
    BY <1>3, <1>4 DEF MoveOrder, BookInv, OpenedIsCaptured, TypeInv, TypeOK
  <1> QED
    BY <1>3, <1>7, <1>8 DEF BookInv, CapturedOnce, GroupPaidIsCaptured

LEMMA EndBooks ==
  ASSUME TypeInv, BookInv, NEW t \in Calls,
         CancelOrders(t) \/ WritePending(t) \/ UpdateGroup(t) \/ CloseGroup(t) \/ Crash(t)
  PROVE  BookInv'
  <1>0. UNCHANGED <<captured, credits>> /\ CarryOk(call[t], captured) /\ call[t] \in CallRecords
    BY Held
    DEF CancelOrders, WritePending, UpdateGroup, CloseGroup, Crash, BookInv, CarryInv, orderVars
  <1>1. CarryInv'
    <2>1. CASE CancelOrders(t)
      <3> DEFINE c == [call[t] EXCEPT !.pc = "group"]
      <3>1. c.pc = "group" /\ c.next = call[t].next /\ call[t].pc = "cancel"
        BY <1>0, <2>1 DEF CallRecords, CancelOrders, At
      <3>2. call' = [call EXCEPT ![t] = c]
        BY <2>1 DEF CancelOrders, Goto
      <3> HIDE DEF c
      <3>3. CarryOk(c, captured')
        BY <1>0, <3>1 DEF CarryOk
      <3> QED
        BY <1>0, <3>2, <3>3, CarrySlot DEF BookInv
    <2>2. CASE Return(t)
      <3>1. CarryOk(Idle, captured')
        BY DEF CarryOk, Idle, Working
      <3> QED
        BY <1>0, <2>2, <3>1, CarrySlot DEF BookInv, Return
    <2> QED
      BY <2>1, <2>2 DEF WritePending, UpdateGroup, CloseGroup, Crash
  <1>2. \A o \in Orders : wf'[o] = "SELLER_PENDING" => wf[o] = "SELLER_PENDING"
    BY DEF CancelOrders, WritePending, UpdateGroup, CloseGroup, Crash, orderVars, TypeInv, TypeOK
  <1>3. GroupPaidIsCaptured'
    BY <1>0
    DEF CancelOrders, WritePending, UpdateGroup, CloseGroup, Crash, At, CarryOk, BookInv,
        GroupPaidIsCaptured
  <1> QED
    BY <1>0, <1>1, <1>2, <1>3 DEF BookInv, CapturedOnce, OpenedIsCaptured

LEMMA BookStep == TypeInv /\ BookInv /\ [Next]_vars => BookInv'
  <1> SUFFICES ASSUME TypeInv, BookInv, [Next]_vars PROVE BookInv'
    OBVIOUS
  <1>1. CASE UNCHANGED vars
    BY <1>1
    DEF vars, orderVars, BookInv, CarryInv, CapturedOnce, OpenedIsCaptured,
        GroupPaidIsCaptured
  <1>2. ASSUME NEW p \in Attempts, Gateway(p)
        PROVE  BookInv'
    BY <1>2
    DEF Gateway, Pay, SessionExpires, orderVars, BookInv, CarryInv, CapturedOnce,
        OpenedIsCaptured, GroupPaidIsCaptured
  <1> QED
    BY <1>1, <1>2, StartBooks, LoadBooks, SaveBooks, CaptureBooks, MoveBooks, EndBooks
    DEF Next, Continue

THEOREM BookInvariant == Spec => []BookInv
  <1>1. TypeInv /\ BookInv /\ [Next]_vars => BookInv'
    BY BookStep
  <1> QED
    BY <1>1, BookInit, PaymentsTypeInvariant, PTL DEF Spec

\* The platform's wallet is credited once for an order, however many attempts,
\* webhooks, checks and repetitions of them carry captures to it.
THEOREM CapturedOnceHolds == Spec => []CapturedOnce
  BY BookInvariant, PTL DEF BookInv

\* No order opens to its seller without a booked payment.
THEOREM OpenedIsCapturedHolds == Spec => []OpenedIsCaptured
  BY BookInvariant, PTL DEF BookInv

\* A checkout is shown as PAID only when all of its orders are booked.
THEOREM GroupPaidHolds == Spec => []GroupPaidIsCaptured
  BY BookInvariant, PTL DEF BookInv

-----------------------------------------------------------------------------
(* What a report may not do.                                               *)

LEMMA PaidFrame ==
  ASSUME TypeInv, [Next]_vars
  PROVE  \/ \E t \in Calls : WritePending(t)
         \/ \A o \in Orders : payStatus[o] = "PAID" => payStatus'[o] # "CREATED"
  <1> USE DEF orderVars
  <1>1. CASE UNCHANGED vars
    BY <1>1 DEF vars
  <1>2. ASSUME NEW p \in Attempts, Gateway(p)
        PROVE  UNCHANGED payStatus
    BY <1>2 DEF Gateway, Pay, SessionExpires
  <1>3. ASSUME NEW t \in Calls,
               \/ CreateAttempt(t)
               \/ \E p \in Attempts, y \in Outcomes : ReceiveWebhook(t, p, y)
               \/ \E p \in Attempts : CheckStatus(t, p)
               \/ \E o \in Orders : CancelUnpaid(t, o) \/ CancelOrder(t, o)
        PROVE  UNCHANGED payStatus
    BY <1>3 DEF CreateAttempt, ReceiveWebhook, CheckStatus, CancelUnpaid, CancelOrder
  <1>4. ASSUME NEW t \in Calls, Continue(t) \/ Crash(t), ~WritePending(t)
        PROVE  \A o \in Orders : payStatus[o] = "PAID" => payStatus'[o] # "CREATED"
    BY <1>4
    DEF Continue, InitiatePayment, InsertAttempt, FindPayment, AskGateway, SaveTransition,
        CaptureOrder, MoveOrder, CancelOrders, UpdateGroup, CloseGroup, Crash, TypeInv, TypeOK
  <1> QED
    BY <1>1, <1>2, <1>3, <1>4 DEF Next

\* Only a call that loaded its attempt as PENDING shows a paid order as unpaid
\* again: no call that loaded it later does.
THEOREM UnmarkedHolds == Spec => UnmarkedByStaleReport
  <1> DEFINE A == \A o \in Orders : payStatus[o] = "PAID" /\ payStatus'[o] = "CREATED" =>
                    \E t \in Calls : call[t].pc = "pend" /\ call[t].seenStatus = "PENDING"
  <1>1. ASSUME TypeInv, BookInv, [Next]_vars
        PROVE  [A]_vars
    <2>1. ASSUME NEW t \in Calls, WritePending(t)
          PROVE  call[t].pc = "pend" /\ call[t].seenStatus = "PENDING"
      BY <1>1, <2>1 DEF WritePending, At, BookInv, CarryInv, CarryOk
    <2> QED
      BY <1>1, <2>1, PaidFrame
  <1> QED
    BY <1>1, BookInvariant, PaymentsTypeInvariant, PTL DEF Spec, UnmarkedByStaleReport

-----------------------------------------------------------------------------
(* Payments implements Billing.                                            *)

PaidFor == \E p \in Attempts : session[p] = "PAID"

\* A call that reports a capture does so of a session that was paid.
PaidInv == \A t \in Calls : call[t].next = "CAPTURED" => PaidFor

LEMMA PaidStays ==
  ASSUME TypeInv, [Next]_vars, PaidFor
  PROVE  PaidFor'
  <1> USE DEF orderVars
  <1>1. ASSUME NEW p \in Attempts, session[p] = "PAID"
        PROVE  session'[p] = "PAID"
    <2>1. CASE UNCHANGED session
      BY <1>1, <2>1
    <2>2. ASSUME NEW q \in Attempts, Gateway(q)
          PROVE  session'[p] = "PAID"
      BY <1>1, <2>2 DEF Gateway, Pay, SessionExpires, TypeInv, TypeOK
    <2>3. ASSUME NEW t \in Calls, InitiatePayment(t)
          PROVE  session'[p] = "PAID"
      BY <1>1, <2>3 DEF InitiatePayment, TypeInv, TypeOK
    <2> QED
      BY <2>1, <2>2, <2>3
      DEF Next, vars, CreateAttempt, ReceiveWebhook, CheckStatus, CancelUnpaid, CancelOrder,
          Continue, InsertAttempt, FindPayment, AskGateway, SaveTransition, CaptureOrder,
          MoveOrder, CancelOrders, WritePending, UpdateGroup, CloseGroup, Crash
  <1> QED
    BY <1>1 DEF PaidFor

\* Where a call learns of a capture.
LEMMA Learns ==
  ASSUME TypeInv, PaidInv, [Next]_vars, NEW u \in Calls, call'[u].next = "CAPTURED"
  PROVE  PaidFor
  <1>0. call \in [Calls -> CallRecords] /\ Idle.next = "PENDING"
    BY DEF TypeInv, TypeOK, Idle, Working
  <1>1. CASE call'[u].next = call[u].next
    BY <1>1 DEF PaidInv
  <1>2. ASSUME NEW t \in Calls, Return(t)
        PROVE  PaidFor
    BY <1>0, <1>1, <1>2 DEF Return
  <1>3. ASSUME NEW t \in Calls,
               \/ CreateAttempt(t)
               \/ \E p \in Attempts : CheckStatus(t, p)
               \/ \E o \in Orders : CancelUnpaid(t, o) \/ CancelOrder(t, o)
        PROVE  PaidFor
    BY <1>0, <1>1, <1>3
    DEF CreateAttempt, CheckStatus, CancelUnpaid, CancelOrder, Working, CallRecords
  <1>4. ASSUME NEW t \in Calls, NEW p \in Attempts, NEW y \in Outcomes, ReceiveWebhook(t, p, y)
        PROVE  PaidFor
    BY <1>0, <1>1, <1>4 DEF ReceiveWebhook, Reportable, Working, PaidFor
  <1>5. ASSUME NEW t \in Calls, AskGateway(t)
        PROVE  PaidFor
    <2>1. call[t].att \in Attempts
      BY <1>5, Held DEF AskGateway, At, Loading
    <2>2. CASE u # t
      BY <1>0, <1>1, <1>5, <2>2 DEF AskGateway
    <2>3. CASE u = t
      <3>1. call'[u].next = Reported(call[t].att)
        BY <1>0, <1>5, <2>3 DEF AskGateway, CallRecords
      <3> QED
        BY <2>1, <3>1 DEF Reported, PaidFor
    <2> QED
      BY <2>2, <2>3
  <1>6. ASSUME NEW t \in Calls, SaveTransition(t)
        PROVE  PaidFor
    <2>1. CASE call' = [call EXCEPT ![t] = Carrying(t)]
      BY <1>0, <1>1, <2>1, CarryingType
    <2> QED
      BY <1>2, <1>6, <2>1 DEF SaveTransition, Carrying
  <1>7. ASSUME NEW t \in Calls,
               \/ InitiatePayment(t) \/ FindPayment(t) \/ CancelOrders(t)
               \/ \E o \in Orders : CaptureOrder(t, o) \/ MoveOrder(t, o)
        PROVE  PaidFor
    <2>1. CASE InitiatePayment(t) \/ FindPayment(t) \/ CancelOrders(t)
      BY <1>0, <1>1, <1>2, <2>1 DEF InitiatePayment, FindPayment, CancelOrders, Goto, CallRecords
    <2>2. ASSUME NEW o \in Orders, CaptureOrder(t, o)
          PROVE  PaidFor
      BY <1>0, <1>1, <2>2 DEF CaptureOrder, CallRecords
    <2>3. ASSUME NEW o \in Orders, MoveOrder(t, o)
          PROVE  PaidFor
      BY <1>0, <1>1, <2>3 DEF MoveOrder, CallRecords
    <2> QED
      BY <1>7, <2>1, <2>2, <2>3
  <1>8. CASE UNCHANGED call
    BY <1>1, <1>8
  <1> QED
    BY <1>2, <1>3, <1>4, <1>5, <1>6, <1>7, <1>8
    DEF Next, vars, Gateway, Pay, SessionExpires, Continue, InsertAttempt, WritePending,
        UpdateGroup, CloseGroup, Crash

LEMMA PaidStep == TypeInv /\ PaidInv /\ [Next]_vars => PaidInv'
  BY Learns, PaidStays DEF PaidInv

\* What Billing sees of a step.
BillState == <<PaidFor, {o \in Orders : captured[o]}, wf, group>>
BillStep == Bill!Next \/ UNCHANGED BillState

LEMMA BillGateway ==
  ASSUME TypeInv, NEW p \in Attempts, Gateway(p)
  PROVE  BillStep
  <1> USE DEF orderVars
  <1>0. UNCHANGED <<{o \in Orders : captured[o]}, wf, group>>
    BY DEF Gateway, Pay, SessionExpires
  <1>1. CASE Pay(p)
    <2>1. PaidFor'
      BY <1>1 DEF Pay, PaidFor, TypeInv, TypeOK
    <2> QED
      BY <1>0, <2>1 DEF BillStep, Bill!Next, Bill!Pay, PaidFor
  <1>3. CASE SessionExpires(p)
    <2>1. \A q \in Attempts : session'[q] = "PAID" <=> session[q] = "PAID"
      BY <1>3 DEF SessionExpires, TypeInv, TypeOK
    <2> QED
      BY <1>0, <2>1 DEF BillStep, BillState, PaidFor
  <1> QED
    BY <1>1, <1>3 DEF Gateway

LEMMA BillCapture ==
  ASSUME TypeInv, BookInv, PaidInv, NEW t \in Calls, NEW o \in Orders, CaptureOrder(t, o)
  PROVE  BillStep
  <1> DEFINE B == {q \in Orders : captured[q]}
  <1>0. UNCHANGED <<PaidFor, wf, group>>
    BY DEF CaptureOrder, PaidFor
  <1>1. CASE AlreadyCaptured(o)
    BY <1>0, <1>1 DEF CaptureOrder, AlreadyCaptured, BillStep, BillState
  <1>2. CASE ~AlreadyCaptured(o)
    <2>1. call[t].next = "CAPTURED"
      BY DEF CaptureOrder, At, BookInv, CarryInv, CarryOk
    <2>2. PaidFor
      BY <2>1 DEF PaidInv
    <2>3. \A q \in Orders : captured'[q] <=> captured[q] \/ q = o
      BY <1>2 DEF CaptureOrder, AlreadyCaptured, TypeInv, TypeOK
    <2>4. {q \in Orders : captured'[q]} = B \cup {o} /\ o \notin B
      BY <1>2, <2>3 DEF AlreadyCaptured
    <2>5. Bill!Book(o)
      BY <1>0, <2>2, <2>4 DEF Bill!Book, PaidFor
    <2> QED
      BY <2>5 DEF BillStep, Bill!Next
  <1> QED
    BY <1>1, <1>2

LEMMA BillMove ==
  ASSUME TypeInv, BookInv, NEW t \in Calls, NEW o \in Orders, MoveOrder(t, o)
  PROVE  BillStep
  <1>0. UNCHANGED <<PaidFor, {q \in Orders : captured[q]}, group>>
    BY DEF MoveOrder, PaidFor
  <1>1. captured[o]
    BY DEF MoveOrder, At, BookInv, CarryInv, CarryOk
  <1>2. CASE wf[o] = "CREATED"
    <2>1. wf' = [wf EXCEPT ![o] = "SELLER_PENDING"]
      BY <1>2 DEF MoveOrder
    <2>2. Bill!Open(o)
      BY <1>0, <1>1, <1>2, <2>1 DEF Bill!Open, PaidFor
    <2> QED
      BY <2>2 DEF BillStep, Bill!Next
  <1>3. CASE wf[o] # "CREATED"
    <2>1. wf' = wf
      BY <1>3 DEF MoveOrder, TypeInv, TypeOK
    <2> QED
      BY <1>0, <2>1 DEF BillStep, BillState
  <1> QED
    BY <1>2, <1>3

LEMMA BillCancel ==
  ASSUME TypeInv, BookInv, NEW t \in Calls,
         \/ CancelOrders(t)
         \/ \E o \in Orders : CancelUnpaid(t, o) \/ CancelOrder(t, o)
  PROVE  BillStep
  <1>0. UNCHANGED <<PaidFor, {q \in Orders : captured[q]}, group>>
    BY DEF CancelOrders, CancelUnpaid, CancelOrder, PaidFor
  <1>1. CASE CancelOrders(t)
    <2>1. Bill!Lapse
      BY <1>0, <1>1 DEF CancelOrders, CancelGuard, Bill!Lapse, PaidFor
    <2> QED
      BY <2>1 DEF BillStep, Bill!Next
  <1>2. ASSUME NEW o \in Orders, CancelUnpaid(t, o) \/ CancelOrder(t, o)
        PROVE  BillStep
    <2>1. Bill!Cancel(o)
      BY <1>0, <1>2 DEF CancelUnpaid, CancelOrder, Bill!Cancel, PaidFor
    <2> QED
      BY <2>1 DEF BillStep, Bill!Next
  <1> QED
    BY <1>1, <1>2

LEMMA BillGroup ==
  ASSUME TypeInv, BookInv, NEW t \in Calls, UpdateGroup(t) \/ CloseGroup(t)
  PROVE  BillStep
  <1>0. UNCHANGED <<PaidFor, {q \in Orders : captured[q]}, wf>>
    BY DEF UpdateGroup, CloseGroup, orderVars, PaidFor
  <1>1. CASE group' = "PAID" /\ group' # group
    <2>1. UpdateGroup(t) /\ call[t].next = "CAPTURED"
      BY <1>1 DEF UpdateGroup, CloseGroup
    <2>2. \A o \in Orders : captured[o]
      BY <2>1 DEF UpdateGroup, At, BookInv, CarryInv, CarryOk
    <2>3. Bill!Show("PAID")
      BY <1>0, <1>1, <2>2 DEF Bill!Show, PaidFor
    <2> QED
      BY <2>3 DEF BillStep, Bill!Next
  <1>2. CASE group' = "CANCELLED"
    <2>1. Bill!Show("CANCELLED")
      BY <1>0, <1>2 DEF Bill!Show, PaidFor
    <2> QED
      BY <2>1 DEF BillStep, Bill!Next
  <1>3. CASE group' = group
    BY <1>0, <1>3 DEF BillStep, BillState
  <1> QED
    BY <1>1, <1>2, <1>3 DEF UpdateGroup, CloseGroup

\* The other steps are steps of attempts and calls.
LEMMA BillOther ==
  ASSUME TypeInv, NEW t \in Calls,
         \/ CreateAttempt(t)
         \/ \E p \in Attempts, y \in Outcomes : ReceiveWebhook(t, p, y)
         \/ \E p \in Attempts : CheckStatus(t, p)
         \/ InitiatePayment(t) \/ InsertAttempt(t) \/ FindPayment(t) \/ AskGateway(t)
         \/ SaveTransition(t) \/ WritePending(t) \/ Crash(t)
  PROVE  BillStep
  <1> USE DEF orderVars
  <1>0. UNCHANGED <<captured, wf, group>>
    BY DEF CreateAttempt, ReceiveWebhook, CheckStatus, InitiatePayment, InsertAttempt, FindPayment,
           AskGateway, SaveTransition, WritePending, Crash
  <1>1. CASE UNCHANGED session
    BY <1>0, <1>1 DEF BillStep, BillState, PaidFor
  <1>2. CASE InitiatePayment(t)
    <2>1. \A q \in Attempts : session'[q] = "PAID" <=> session[q] = "PAID"
      BY <1>2 DEF InitiatePayment, TypeInv, TypeOK
    <2> QED
      BY <1>0, <2>1 DEF BillStep, BillState, PaidFor
  <1> QED
    BY <1>1, <1>2
    DEF CreateAttempt, ReceiveWebhook, CheckStatus, InsertAttempt, FindPayment, AskGateway,
        SaveTransition, WritePending, Crash

LEMMA BillRefines ==
  ASSUME TypeInv, BookInv, PaidInv, [Next]_vars
  PROVE  [Bill!Next]_(Bill!billingState)
  <1>1. BillStep
    <2>1. CASE UNCHANGED vars
      BY <2>1 DEF vars, orderVars, BillStep, BillState, PaidFor
    <2> QED
      BY <2>1, BillGateway, BillCapture, BillMove, BillCancel, BillGroup, BillOther
      DEF Next, Continue
  <1> QED
    BY <1>1 DEF BillStep, BillState, PaidFor, Bill!billingState

\* Payments implements Billing: whatever attempts, webhooks, status checks and deaths do,
\* money comes before the booking of an order, its booking before its opening, each
\* once, and the checkout shows PAID only when all of it is booked.
THEOREM FollowsBillingHolds == Spec => FollowsBilling
  <1>1. Init => Bill!Init /\ PaidInv
    BY DEF Init, Bill!Init, PaidInv, Idle, Working
  <1>2. TypeInv /\ BookInv /\ PaidInv /\ [Next]_vars => [Bill!Next]_(Bill!billingState) /\ PaidInv'
    BY BillRefines, PaidStep
  <1> QED
    BY <1>1, <1>2, BookInvariant, PaymentsTypeInvariant, PTL DEF Spec, FollowsBilling, Bill!Spec
=============================================================================
