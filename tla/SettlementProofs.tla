-------------------------- MODULE SettlementProofs --------------------------
(***************************************************************************)
(* The payouts of Settlement, proved for every number of requests, jobs    *)
(* and payout documents.  The argument is about snapshots: what a          *)
(* transaction has read of a payout still holds unless the wallet that it  *)
(* is going to write was written by another one since.                     *)
(***************************************************************************)
EXTENDS Settlement, FiniteSetTheorems, TLAPS

Documents == {"order"} \cup Types

\* The types of what has to do with neither payouts nor calls.
OtherType ==
    /\ applied \in BOOLEAN
    /\ queued \subseteq Types
    /\ sellerPayout \in {"none", "PENDING", "HOLD", "COMPLETED", "CANCELLED"}
    /\ windowOver \in BOOLEAN
    /\ ret \in ReturnStatus
    /\ refundTxn \in BOOLEAN
    /\ faults \in 0..MaxFaults

\* What a transaction r relies on when it commits.
Fresh(r) ==
    /\ r.pc = "paid" /\ r.type \notin r.stale => payout[r.type][r.doc] = "PENDING"
    /\ r.pc = "cancel" /\ "SELLER" \notin r.stale => payout["SELLER"][r.doc] = "PENDING"
    /\ r.pc = "insert" /\ r.type \notin r.stale =>
          \A n \in Docs : payout[r.type][n] \notin {"PENDING", "COMPLETED"}

SnapshotsFresh == \A t \in Calls : Fresh(call[t])

\* A debit or credit under way has read no more than was paid by then.
BalanceRead(r) ==
    r.pc = "wallet" => r.balance <= Cardinality(WithStatus(r.type, "COMPLETED"))

BalancesRead == \A t \in Calls : BalanceRead(call[t])

IInv == TypeOK /\ SnapshotsFresh /\ OnePayout /\ WalletsMatch /\ BalancesRead

\* No payout that was paid or cancelled changes in this step.
FinalStep ==
    \A y \in Types, n \in Docs :
        payout[y][n] \in {"COMPLETED", "CANCELLED"} => payout'[y][n] = payout[y][n]

LEMMA TypesAndDocs ==
  /\ IsFiniteSet(Docs)
  /\ \A S \in SUBSET Docs : IsFiniteSet(S) /\ Cardinality(S) \in Nat
  <1>1. IsFiniteSet(Docs)
    BY SettlementAssumption, FS_Interval DEF Docs
  <1> QED
    BY <1>1, FS_Subset, FS_CardinalityType

LEMMA WritesOf ==
  ASSUME NEW r \in CallRecords
  PROVE  /\ r.pc \in {"insert", "paid"} => Writes(r) = {r.type, "order"}
         /\ r.pc = "cancel" => Writes(r) = {"SELLER"}
  BY DEF Writes

\* One slot gets a record; the transactions of the others learn what was written.
LEMMA StepType ==
  ASSUME TypeOK, NEW t \in Calls, NEW c \in CallRecords, NEW docs \in SUBSET Documents,
         Step(t, c, docs)
  PROVE  /\ call' \in [Calls -> CallRecords]
         /\ call'[t] = c
         /\ \A u \in Calls \ {t} :
               /\ call'[u].pc = call[u].pc
               /\ call'[u].type = call[u].type
               /\ call'[u].doc = call[u].doc
               /\ call'[u].balance = call[u].balance
               /\ call'[u].stale = call[u].stale \cup (docs \cap Writes(call[u]))
  <1>1. ASSUME NEW u \in Calls
        PROVE  [call[u] EXCEPT !.stale = @ \cup (docs \cap Writes(call[u]))] \in CallRecords
    <2>1. call[u] \in CallRecords
      BY DEF TypeOK
    <2>2. docs \cap Writes(call[u]) \subseteq Documents
      OBVIOUS
    <2> QED
      BY <2>1, <2>2 DEF CallRecords, Documents
  <1>2. \A u \in Calls : call[u] \in CallRecords
    BY DEF TypeOK
  <1>3. call' \in [Calls -> CallRecords]
    BY <1>1, <1>2 DEF Step
  <1>4. call'[t] = c
    BY DEF Step
  <1>5. ASSUME NEW u \in Calls \ {t}
        PROVE  /\ call'[u].pc = call[u].pc
               /\ call'[u].type = call[u].type
               /\ call'[u].doc = call[u].doc
               /\ call'[u].balance = call[u].balance
               /\ call'[u].stale = call[u].stale \cup (docs \cap Writes(call[u]))
    BY <1>2 DEF Step, CallRecords
  <1> QED
    BY <1>3, <1>4, <1>5

\* A step that leaves the payouts and the wallets alone.
LEMMA QuietStep ==
  ASSUME IInv, NEW t \in Calls, NEW c \in CallRecords, NEW docs \in SUBSET Documents,
         Step(t, c, docs), Fresh(c), BalanceRead(c), OtherType', UNCHANGED walletVars
  PROVE  IInv' /\ FinalStep
  <1> USE DEF walletVars
  <1>1. TypeOK'
    BY StepType DEF IInv, TypeOK, OtherType
  <1>2. \A u \in Calls : Fresh(call'[u])
    <2>1. Fresh(call'[t])
      BY StepType DEF IInv
    <2>2. ASSUME NEW u \in Calls \ {t}
          PROVE  Fresh(call'[u])
      <3>1. Fresh(call[u])
        BY DEF IInv, SnapshotsFresh
      <3> QED
        BY <3>1, StepType DEF IInv, Fresh
    <2> QED
      BY <2>1, <2>2
  <1>3. SnapshotsFresh'
    BY <1>2 DEF SnapshotsFresh, Fresh
  <1>4. OnePayout' /\ WalletsMatch'
    BY DEF IInv, OnePayout, WalletsMatch, WithStatus
  <1>5. BalancesRead'
    <2>1. \A u \in Calls : BalanceRead(call'[u])
      BY StepType DEF IInv, BalancesRead, BalanceRead
    <2> QED
      BY <2>1 DEF BalancesRead, BalanceRead, WithStatus
  <1> QED
    BY <1>1, <1>3, <1>4, <1>5 DEF IInv, FinalStep

\* What was paid stays paid.
LEMMA PaidGrows ==
  ASSUME FinalStep, NEW y \in Types
  PROVE  /\ Cardinality(WithStatus(y, "COMPLETED")) \in Nat
         /\ Cardinality(WithStatus(y, "COMPLETED")') \in Nat
         /\ Cardinality(WithStatus(y, "COMPLETED")) <= Cardinality(WithStatus(y, "COMPLETED")')
  <1> DEFINE A == WithStatus(y, "COMPLETED")
             B == WithStatus(y, "COMPLETED")'
  <1>1. A \subseteq B /\ A \in SUBSET Docs /\ B \in SUBSET Docs
    BY DEF WithStatus, FinalStep
  <1> HIDE DEF A, B
  <1>2. Cardinality(A) \in Nat /\ Cardinality(B) \in Nat /\ Cardinality(A) <= Cardinality(B)
    BY <1>1, TypesAndDocs, FS_Subset
  <1> QED
    BY <1>2 DEF A, B

LEMMA ReadsKept ==
  ASSUME IInv, FinalStep, NEW t \in Calls, NEW c \in CallRecords, c.pc # "wallet",
         NEW docs \in SUBSET Documents, Step(t, c, docs)
  PROVE  BalancesRead'
  <1>1. ASSUME NEW u \in Calls, NEW y \in Types, call'[u].pc = "wallet", call'[u].type = y
        PROVE  call'[u].balance <= Cardinality(WithStatus(y, "COMPLETED")')
    <2>1. u # t
      BY <1>1, StepType DEF IInv
    <2>2. /\ call[u].pc = "wallet"
          /\ call[u].type = y
          /\ call'[u].balance = call[u].balance
      BY <1>1, <2>1, StepType DEF IInv
    <2>3. call[u].balance \in Nat
      BY DEF IInv, TypeOK, CallRecords
    <2>4. call[u].balance <= Cardinality(WithStatus(y, "COMPLETED"))
      BY <2>2 DEF IInv, BalancesRead, BalanceRead
    <2> QED
      BY <2>2, <2>3, <2>4, PaidGrows
  <1>2. \A u \in Calls : call'[u].type \in Types
    BY StepType DEF IInv, CallRecords
  <1>3. ASSUME NEW u \in Calls
        PROVE  BalanceRead(call[u])'
    <2>1. PICK y \in Types : call'[u].type = y
      BY <1>2
    <2>2. call'[u].pc = "wallet" => call'[u].balance <= Cardinality(WithStatus(y, "COMPLETED")')
      BY <1>1, <2>1
    <2> QED
      BY <2>1, <2>2 DEF BalanceRead, WithStatus
  <1> QED
    BY <1>3 DEF BalancesRead

\* A step that writes payouts of one type and says so to the other transactions.
LEMMA WriteStep ==
  ASSUME IInv, NEW t \in Calls, NEW c \in CallRecords, NEW docs \in SUBSET Documents,
         Step(t, c, docs), c.pc \notin {"insert", "paid", "cancel"},
         NEW y \in docs, \A x \in Types \ {y} : payout'[x] = payout[x]
  PROVE  SnapshotsFresh' /\ call' \in [Calls -> CallRecords]
  <1>1. ASSUME NEW u \in Calls
        PROVE  Fresh(call[u])'
    <2>1. CASE u = t
      BY <2>1, StepType DEF IInv, Fresh
    <2>2. CASE u # t
      <3>1. Fresh(call[u]) /\ call[u] \in CallRecords
        BY DEF IInv, SnapshotsFresh, TypeOK
      <3>2. /\ call'[u].pc = call[u].pc
            /\ call'[u].type = call[u].type
            /\ call'[u].doc = call[u].doc
            /\ call'[u].stale = call[u].stale \cup (docs \cap Writes(call[u]))
        BY <2>2, StepType DEF IInv
      <3>3. call[u].type \in Types /\ call[u].doc \in Docs /\ "SELLER" \in Types
        BY <3>1 DEF CallRecords, Types
      <3> QED
        BY <3>1, <3>2, <3>3, WritesOf DEF Fresh
    <2> QED
      BY <2>1, <2>2
  <1> QED
    BY <1>1, StepType DEF SnapshotsFresh, IInv

\* One payout written.
LEMMA Written ==
  ASSUME IInv, NEW y \in Types, NEW n \in Docs,
         NEW s \in {"PENDING", "COMPLETED", "CANCELLED"},
         payout' = [payout EXCEPT ![y][n] = s]
  PROVE  /\ payout' \in [Types -> [Docs -> {"none", "PENDING", "COMPLETED", "CANCELLED"}]]
         /\ payout'[y][n] = s
         /\ \A x \in Types \ {y} : payout'[x] = payout[x]
         /\ \A m \in Docs \ {n} : payout'[y][m] = payout[y][m]
  BY DEF IInv, TypeOK

LEMMA IdleType == Idle \in CallRecords
  BY SettlementAssumption DEF Idle, CallRecords, PCs, Types, Docs, ReturnStatus

LEMMA RefundType ==
  ASSUME TypeOK, NEW t \in Calls, NEW pc \in PCs
  PROVE  /\ [Idle EXCEPT !.pc = pc, !.to = call[t].to] \in CallRecords
         /\ [Idle EXCEPT !.pc = pc, !.to = call[t].to].pc = pc
  <1>1. call[t].to \in ReturnStatus
    BY DEF TypeOK, CallRecords
  <1> QED
    BY <1>1, IdleType DEF CallRecords, Idle

LEMMA TypeInit == Init => IInv
  <1> SUFFICES ASSUME Init
               PROVE  IInv
    OBVIOUS
  <1>1. TypeOK
    <2>1. payout \in [Types -> [Docs -> {"none", "PENDING", "COMPLETED", "CANCELLED"}]]
      BY DEF Init
    <2>2. pending \in [Types -> Nat] /\ available \in [Types -> Nat]
      BY DEF Init
    <2>3. call \in [Calls -> CallRecords]
      BY IdleType DEF Init
    <2>4. /\ applied \in BOOLEAN /\ windowOver \in BOOLEAN
          /\ refundTxn \in BOOLEAN
          /\ queued \subseteq Types /\ overwritten \subseteq Types
      BY DEF Init
    <2>5. faults \in 0..MaxFaults
      BY SettlementAssumption DEF Init
    <2> QED
      BY <2>1, <2>2, <2>3, <2>4, <2>5 DEF Init, TypeOK, ReturnStatus
  <1>2. SnapshotsFresh
    BY DEF Init, SnapshotsFresh, Fresh, Idle
  <1>3. \A y \in Types : WithStatus(y, "PENDING") = {} /\ WithStatus(y, "COMPLETED") = {}
    BY DEF Init, WithStatus
  <1>4. OnePayout /\ WalletsMatch
    BY <1>3, FS_EmptySet DEF Init, OnePayout, WalletsMatch
  <1>5. BalancesRead
    BY DEF Init, BalancesRead, BalanceRead, Idle
  <1> QED
    BY <1>1, <1>2, <1>4, <1>5 DEF IInv

-----------------------------------------------------------------------------
(* Steps that leave the payouts alone.                                     *)

\* A step to a pc at which a transaction relies on nothing.
LEMMA RestStep ==
  ASSUME IInv, NEW t \in Calls, NEW c \in CallRecords,
         c.pc \notin {"insert", "paid", "cancel", "wallet"},
         NEW docs \in SUBSET Documents, Step(t, c, docs),
         OtherType', UNCHANGED walletVars
  PROVE  IInv' /\ FinalStep
  BY QuietStep DEF Fresh, BalanceRead

LEMMA IdleStep ==
  ASSUME IInv, NEW t \in Calls, NEW docs \in SUBSET Documents, Step(t, Idle, docs),
         OtherType', UNCHANGED walletVars
  PROVE  IInv' /\ FinalStep
  BY IdleType, RestStep DEF Idle

LEMMA GotoStep ==
  ASSUME IInv, NEW t \in Calls, NEW pc \in PCs \ {"insert", "paid", "cancel", "wallet"},
         NEW docs \in SUBSET Documents, Step(t, [call[t] EXCEPT !.pc = pc], docs),
         OtherType', UNCHANGED walletVars
  PROVE  IInv' /\ FinalStep
  <1> DEFINE c == [call[t] EXCEPT !.pc = pc]
  <1>1. c \in CallRecords /\ c.pc = pc
    BY DEF IInv, TypeOK, CallRecords
  <1> HIDE DEF c
  <1> QED
    BY <1>1, RestStep DEF c

LEMMA RefundStep ==
  ASSUME IInv, NEW t \in Calls, NEW pc \in {"commission", "finish", "find"},
         NEW docs \in SUBSET Documents, Refund(t, pc, docs),
         OtherType', UNCHANGED walletVars
  PROVE  IInv' /\ FinalStep
  <1> DEFINE c == [Idle EXCEPT !.pc = pc, !.to = call[t].to]
  <1>0. pc \in PCs
    BY DEF PCs
  <1>1. c \in CallRecords /\ c.pc = pc
    BY <1>0, RefundType DEF IInv
  <1>2. Step(t, c, docs)
    BY DEF Refund
  <1> HIDE DEF c
  <1> QED
    BY <1>1, <1>2, RestStep

\* A debit or credit reads the wallet.
LEMMA ReadStep ==
  ASSUME IInv, NEW t \in Calls, NEW y \in Types, ReadWallet(t, y),
         OtherType', UNCHANGED walletVars
  PROVE  IInv' /\ FinalStep
  <1> DEFINE c == [call[t] EXCEPT !.pc = "wallet", !.type = y, !.doc = 1, !.hold = FALSE,
                                  !.balance = available[y], !.stale = {}]
  <1>1. available[y] \in Nat /\ available[y] <= Cardinality(WithStatus(y, "COMPLETED"))
    BY DEF IInv, TypeOK, WalletsMatch
  <1>2. /\ c \in CallRecords
        /\ c.pc = "wallet" /\ c.type = y /\ c.balance = available[y]
    <2>1. call[t] \in CallRecords
      BY DEF IInv, TypeOK
    <2>2. 1 \in Docs
      BY SettlementAssumption DEF Docs
    <2> QED
      BY <1>1, <2>1, <2>2 DEF CallRecords, PCs
  <1>3. Step(t, c, {})
    BY DEF ReadWallet
  <1> HIDE DEF c
  <1>4. Fresh(c) /\ BalanceRead(c)
    BY <1>1, <1>2 DEF Fresh, BalanceRead
  <1> QED
    BY <1>2, <1>3, <1>4, QuietStep

\* What changes but for the payouts keeps its type.
LEMMA OtherStep ==
  ASSUME IInv, [Next]_vars
  PROVE  OtherType'
  <1> USE DEF orderVars, walletVars
  <1>1. OtherType /\ call \in [Calls -> CallRecords]
    BY DEF IInv, TypeOK, OtherType
  <1>2. \A t \in Calls : call[t].to \in ReturnStatus /\ call[t].hold \in BOOLEAN
                         /\ call[t].type \in Types
    BY <1>1 DEF CallRecords
  <1>3. CASE UNCHANGED vars
    BY <1>1, <1>3 DEF vars, OtherType
  <1>4. CASE WindowPasses
    BY <1>1, <1>4 DEF WindowPasses, OtherType
  <1>5. ASSUME NEW t \in Calls,
               \/ SettleOrder(t) \/ ReleaseHolds(t)
               \/ \E y \in Types, n \in Docs : ProcessBatch(t, y, n)
               \/ \E to \in {"return_open", "returned"} : LoadReturn(t, to)
               \/ \E verdict \in {"qc_passed", "qc_failed"} : LoadQc(t, verdict)
               \/ QueuePayout(t) \/ InsertPayout(t) \/ BeginPay(t)
               \/ AdjustSeller(t) \/ CancelPayout(t) \/ CreditCommission(t) \/ SaveWallet(t)
        PROVE  OtherType'
    BY <1>1, <1>5 DEF SettleOrder, ReleaseHolds, ProcessBatch, LoadReturn, LoadQc, QueuePayout,
                      InsertPayout, BeginPay, AdjustSeller, CancelPayout, CreditCommission,
                      SaveWallet, OtherType
  <1>6. ASSUME NEW t \in Calls,
               ApplySettlement(t) \/ FindPayout(t) \/ CommitPay(t) \/ MarkCancelled(t)
        PROVE  OtherType'
    BY <1>1, <1>2, <1>6
    DEF ApplySettlement, FindPayout, CommitPay, MarkCancelled, OtherType, Types
  <1>7. ASSUME NEW t \in Calls,
               SaveReturn(t) \/ SaveQc(t) \/ RecordRefund(t) \/ FinishRefund(t)
        PROVE  OtherType'
    BY <1>1, <1>2, <1>7
    DEF SaveReturn, SaveQc, RecordRefund, FinishRefund, OtherType, ReturnStatus
  <1>8. ASSUME NEW t \in Calls, Crash(t)
        PROVE  OtherType'
    BY <1>1, <1>8, SettlementAssumption DEF Crash, OtherType
  <1> QED
    BY <1>3, <1>4, <1>5, <1>6, <1>7, <1>8 DEF Next, Continue

-----------------------------------------------------------------------------
(* One lemma per group of actions.                                         *)

LEMMA Requests ==
  ASSUME IInv, OtherType', NEW t \in Calls,
         \/ SettleOrder(t) \/ ReleaseHolds(t)
         \/ \E y \in Types, n \in Docs : ProcessBatch(t, y, n)
         \/ \E to \in {"return_open", "returned"} : LoadReturn(t, to)
         \/ \E verdict \in {"qc_passed", "qc_failed"} : LoadQc(t, verdict)
  PROVE  IInv' /\ FinalStep
  <1> USE DEF Begin
  <1>1. CASE SettleOrder(t)
    <2> DEFINE c == [[Idle EXCEPT !.pc = "queue", !.hold = ~windowOver] EXCEPT !.stale = {}]
    <2>1. c \in CallRecords /\ c.pc = "queue"
      BY IdleType DEF Idle, CallRecords, PCs
    <2>2. Step(t, c, {}) /\ UNCHANGED walletVars
      BY <1>1 DEF SettleOrder
    <2> HIDE DEF c
    <2> QED
      BY <2>1, <2>2, RestStep
  <1>2. CASE ReleaseHolds(t)
    <2> DEFINE c == [Idle EXCEPT !.pc = "find"]
    <2>1. c \in CallRecords /\ c.pc = "find"
      BY IdleType DEF Idle, CallRecords, PCs
    <2>2. Step(t, c, {}) /\ UNCHANGED walletVars
      BY <1>2 DEF ReleaseHolds
    <2> HIDE DEF c
    <2> QED
      BY <2>1, <2>2, RestStep
  <1>3. ASSUME NEW y \in Types, NEW n \in Docs, ProcessBatch(t, y, n)
        PROVE  IInv' /\ FinalStep
    <2> DEFINE c == [Idle EXCEPT !.pc = "pay", !.type = y, !.doc = n]
    <2>1. c \in CallRecords /\ c.pc = "pay"
      BY IdleType DEF Idle, CallRecords, PCs
    <2>2. Step(t, c, {}) /\ UNCHANGED walletVars
      BY <1>3 DEF ProcessBatch
    <2> HIDE DEF c
    <2> QED
      BY <2>1, <2>2, RestStep
  <1>4. ASSUME NEW to \in {"return_open", "returned"}, LoadReturn(t, to)
        PROVE  IInv' /\ FinalStep
    <2> DEFINE c == [Idle EXCEPT !.pc = "write", !.to = to]
    <2>1. c \in CallRecords /\ c.pc = "write"
      BY IdleType DEF Idle, CallRecords, PCs, ReturnStatus
    <2>2. Step(t, c, {}) /\ UNCHANGED walletVars
      BY <1>4 DEF LoadReturn
    <2> HIDE DEF c
    <2> QED
      BY <2>1, <2>2, RestStep
  <1>5. ASSUME NEW verdict \in {"qc_passed", "qc_failed"}, LoadQc(t, verdict)
        PROVE  IInv' /\ FinalStep
    <2> DEFINE c == [Idle EXCEPT !.pc = "judge", !.to = verdict,
                                 !.hold = (sellerPayout = "HOLD")]
    <2>1. c \in CallRecords /\ c.pc = "judge"
      BY IdleType DEF Idle, CallRecords, PCs, ReturnStatus
    <2>2. Step(t, c, {}) /\ UNCHANGED walletVars
      BY <1>5 DEF LoadQc
    <2> HIDE DEF c
    <2> QED
      BY <2>1, <2>2, RestStep
  <1> QED
    BY <1>1, <1>2, <1>3, <1>4, <1>5

LEMMA AfterQueueType ==
  ASSUME TypeOK, NEW t \in Calls
  PROVE  AfterQueue(t) \in CallRecords /\ AfterQueue(t).pc \in {"queue", "apply"}
  <1>1. call[t] \in CallRecords
    BY DEF TypeOK
  <1>2. CASE call[t].type = "SELLER"
    BY <1>1, <1>2 DEF CallRecords, AfterQueue, PCs, Types
  <1>3. CASE call[t].type # "SELLER"
    BY <1>1, <1>3 DEF CallRecords, AfterQueue, PCs, Types
  <1> QED
    BY <1>2, <1>3

\* A payout is inserted only when the snapshot shows none that counts.
LEMMA QueueStep ==
  ASSUME IInv, OtherType', NEW t \in Calls, QueuePayout(t)
  PROVE  IInv' /\ FinalStep
  <1>1. CASE Step(t, AfterQueue(t), {})
    BY <1>1, AfterQueueType, RestStep DEF IInv, QueuePayout
  <1>2. CASE /\ ~Exists(call[t].type)
             /\ Goto(t, "insert")
    <2> DEFINE c == [call[t] EXCEPT !.pc = "insert"]
    <2>1. /\ c \in CallRecords
          /\ c.type = call[t].type
          /\ c.pc = "insert"
      BY DEF IInv, TypeOK, CallRecords, PCs
    <2>2. \A n \in Docs : payout[call[t].type][n] \notin {"PENDING", "COMPLETED"}
      BY <1>2 DEF Exists, WithStatus
    <2>3. Fresh(c) /\ BalanceRead(c)
      BY <2>1, <2>2 DEF Fresh, BalanceRead
    <2> QED
      BY <1>2, <2>1, <2>3, QuietStep DEF QueuePayout, Goto
  <1> QED
    BY <1>1, <1>2 DEF QueuePayout

\* A payout is paid, or cancelled, only when the snapshot shows it pending.
LEMMA BeginStep ==
  ASSUME IInv, OtherType', NEW t \in Calls, BeginPay(t) \/ AdjustSeller(t)
  PROVE  IInv' /\ FinalStep
  <1> USE DEF Begin
  <1>1. CASE BeginPay(t)
    <2>1. CASE Return(t)
      BY <1>1, <2>1, IdleStep DEF BeginPay, Return
    <2>2. CASE payout[call[t].type][call[t].doc] = "PENDING" /\ Begin(t, [call[t] EXCEPT !.pc = "paid"])
      <3> DEFINE c == [[call[t] EXCEPT !.pc = "paid"] EXCEPT !.stale = {}]
      <3>1. /\ c \in CallRecords
            /\ c.type = call[t].type /\ c.doc = call[t].doc
            /\ c.pc = "paid"
        BY DEF IInv, TypeOK, CallRecords, PCs
      <3>2. Fresh(c) /\ BalanceRead(c)
        BY <2>2, <3>1 DEF Fresh, BalanceRead
      <3> QED
        BY <1>1, <2>2, <3>1, <3>2, QuietStep DEF BeginPay
    <2> QED
      BY <1>1, <2>1, <2>2 DEF BeginPay
  <1>2. CASE AdjustSeller(t)
    <2>0. UNCHANGED walletVars
      BY <1>2 DEF AdjustSeller
    <2>1. ASSUME NEW n \in WithStatus("SELLER", "PENDING"),
                 Begin(t, [call[t] EXCEPT !.pc = "cancel", !.doc = n])
          PROVE  IInv' /\ FinalStep
      <3> DEFINE c == [[call[t] EXCEPT !.pc = "cancel", !.doc = n] EXCEPT !.stale = {}]
      <3>1. n \in Docs /\ payout["SELLER"][n] = "PENDING"
        BY DEF WithStatus
      <3>2. /\ c \in CallRecords
            /\ c.doc = n
            /\ c.pc = "cancel"
        BY <3>1 DEF IInv, TypeOK, CallRecords, PCs
      <3>3. Fresh(c) /\ BalanceRead(c)
        BY <3>1, <3>2 DEF Fresh, BalanceRead
      <3> QED
        BY <2>0, <2>1, <3>2, <3>3, QuietStep
    <2>2. CASE Refund(t, "commission", {})
      BY <2>0, <2>2, RefundStep
    <2>3. CASE ReadWallet(t, "SELLER")
      BY <2>0, <2>3, ReadStep DEF Types
    <2> QED
      BY <1>2, <2>1, <2>2, <2>3 DEF AdjustSeller
  <1> QED
    BY <1>1, <1>2

LEMMA OtherSteps ==
  ASSUME IInv, OtherType', NEW t \in Calls,
         \/ ApplySettlement(t) \/ SaveReturn(t) \/ SaveQc(t) \/ RecordRefund(t)
         \/ MarkCancelled(t) \/ CreditCommission(t) \/ FinishRefund(t) \/ Crash(t)
  PROVE  IInv' /\ FinalStep
  <1> USE DEF Return, ReturnWrote, Goto, GotoWrote, Documents, PCs
  <1>1. CASE ApplySettlement(t)
    BY <1>1, IdleStep DEF ApplySettlement
  <1>2. CASE FinishRefund(t) \/ Crash(t)
    BY <1>2, IdleStep DEF FinishRefund, Crash, walletVars
  <1>3. CASE SaveQc(t)
    BY <1>3, GotoStep, RefundStep DEF SaveQc
  <1>6. CASE SaveReturn(t)
    BY <1>6, IdleStep, RefundStep DEF SaveReturn
  <1>7. CASE CreditCommission(t)
    BY <1>7, IdleStep, RefundStep, ReadStep DEF CreditCommission, Types
  <1>4. CASE RecordRefund(t)
    BY <1>4, GotoStep, IdleStep DEF RecordRefund
  <1>5. CASE MarkCancelled(t)
    BY <1>5, RefundStep DEF MarkCancelled
  <1> QED
    BY <1>1, <1>2, <1>3, <1>4, <1>5, <1>6, <1>7

LEMMA FindStep ==
  ASSUME IInv, OtherType', NEW t \in Calls, FindPayout(t)
  PROVE  IInv' /\ FinalStep
  <1>1. UNCHANGED walletVars
    BY DEF FindPayout
  <1>2. ASSUME NEW n \in Docs, Step(t, [Idle EXCEPT !.pc = "pay", !.doc = n], {})
        PROVE  IInv' /\ FinalStep
    <2> DEFINE c == [Idle EXCEPT !.pc = "pay", !.doc = n]
    <2>1. c \in CallRecords /\ c.pc = "pay"
      BY IdleType DEF Idle, CallRecords, PCs
    <2>2. Step(t, c, {})
      BY <1>2
    <2> HIDE DEF c
    <2> QED
      BY <1>1, <2>1, <2>2, RestStep
  <1>3. CASE Step(t, Idle, {}) \/ Step(t, Idle, {"order"})
    BY <1>1, <1>3, IdleStep DEF Documents
  <1>4. WithStatus("SELLER", "PENDING") \subseteq Docs
    BY DEF WithStatus
  <1> QED
    <2>1. CASE \E n \in WithStatus("SELLER", "PENDING") :
                  Step(t, [Idle EXCEPT !.pc = "pay", !.doc = n], {})
      BY <1>2, <1>4, <2>1
    <2>2. CASE Return(t) \/ ReturnWrote(t, {"order"})
      BY <1>3, <2>2 DEF Return, ReturnWrote
    <2>3. \/ \E n \in WithStatus("SELLER", "PENDING") :
               Step(t, [Idle EXCEPT !.pc = "pay", !.doc = n], {})
          \/ Return(t) \/ ReturnWrote(t, {"order"})
      BY DEF FindPayout
    <2> QED
      BY <2>1, <2>2, <2>3

-----------------------------------------------------------------------------
(* Steps that write a payout and its wallet.                               *)

LEMMA Counted ==
  ASSUME NEW A \in SUBSET Docs, NEW n \in Docs
  PROVE  /\ Cardinality(A) \in Nat
         /\ n \notin A => Cardinality(A \cup {n}) = Cardinality(A) + 1
         /\ n \in A => Cardinality(A \ {n}) = Cardinality(A) - 1
  BY TypesAndDocs, FS_AddElement, FS_RemoveElement

LEMMA InsertStep ==
  ASSUME IInv, OtherType', NEW t \in Calls, InsertPayout(t)
  PROVE  IInv' /\ FinalStep
  <1>0. PICK y \in Types : y = call[t].type
    BY DEF IInv, TypeOK, CallRecords
  <1>1. CASE Return(t) /\ UNCHANGED walletVars
    BY <1>1, IdleStep DEF Return, Documents
  <1>2. CASE /\ ~Conflicts(t, {y})
             /\ \E n \in WithStatus(y, "none") : payout' = [payout EXCEPT ![y][n] = "PENDING"]
             /\ pending' = [pending EXCEPT ![y] = @ + 1]
             /\ Step(t, AfterQueue(t), {y})
             /\ UNCHANGED <<available, overwritten>>
    <2>1. call[t] \in CallRecords
      BY DEF IInv, TypeOK
    <2>2. PICK n \in WithStatus(y, "none") : payout' = [payout EXCEPT ![y][n] = "PENDING"]
      BY <1>2
    <2>3. n \in Docs
      BY DEF WithStatus
    <2>5. \A m \in Docs : payout[y][m] \notin {"PENDING", "COMPLETED"}
      BY <1>0, <1>2, <2>1 DEF InsertPayout, At, IInv, SnapshotsFresh, Fresh, Conflicts
    <2>6. pending \in [Types -> Nat] /\ available \in [Types -> Nat]
      BY DEF IInv, TypeOK
    <2>7. pending' \in [Types -> Nat] /\ available' \in [Types -> Nat]
      BY <1>0, <1>2, <2>6
    <2>8. /\ AfterQueue(t) \in CallRecords
          /\ AfterQueue(t).pc \notin {"insert", "paid", "cancel", "wallet"}
      BY AfterQueueType DEF IInv
    <2>4. /\ payout' \in [Types -> [Docs -> {"none", "PENDING", "COMPLETED", "CANCELLED"}]]
          /\ payout'[y][n] = "PENDING"
          /\ \A x \in Types \ {y} : payout'[x] = payout[x]
          /\ \A m \in Docs \ {n} : payout'[y][m] = payout[y][m]
      BY <2>2, <2>3, Written
    <2>9. TypeOK' /\ SnapshotsFresh'
      <3>1. {y} \in SUBSET Documents /\ y \in {y}
        BY DEF Documents
      <3>2. SnapshotsFresh' /\ call' \in [Calls -> CallRecords]
        BY <1>2, <2>4, <2>8, <3>1, WriteStep
      <3> QED
        BY <1>2, <2>4, <2>7, <3>2 DEF IInv, TypeOK, OtherType
    <2>10. /\ WithStatus(y, "PENDING") = {} /\ WithStatus(y, "COMPLETED") = {}
           /\ WithStatus(y, "PENDING")' = {n} /\ WithStatus(y, "COMPLETED")' = {}
           /\ \A x \in Types \ {y} :
                 /\ WithStatus(x, "PENDING")' = WithStatus(x, "PENDING")
                 /\ WithStatus(x, "COMPLETED")' = WithStatus(x, "COMPLETED")
      BY <2>3, <2>4, <2>5 DEF WithStatus
    <2>11. Cardinality({}) = 0 /\ Cardinality({n}) = 1
      BY FS_EmptySet, FS_Singleton
    <2>12. WalletsMatch'
      <3>0. pending[y] = Cardinality(WithStatus(y, "PENDING"))
        BY DEF IInv, WalletsMatch
      <3>1. pending'[y] = 1
        BY <1>2, <2>6, <2>10, <2>11, <3>0
      <3>2. \A x \in Types \ {y} : pending'[x] = pending[x]
        BY <1>2, <2>6
      <3>3. available' = available
        BY <1>2
      <3>4. pending'[y] = Cardinality(WithStatus(y, "PENDING")')
        BY <2>10, <2>11, <3>1
      <3>5. ASSUME NEW x \in Types \ {y}
            PROVE  pending'[x] = Cardinality(WithStatus(x, "PENDING")')
        BY <2>10, <3>2 DEF IInv, WalletsMatch
      <3>6. \A x \in Types : WithStatus(x, "COMPLETED")' = WithStatus(x, "COMPLETED")
        BY <2>10
      <3>7. UNCHANGED overwritten
        BY <1>2
      <3> QED
        BY <3>3, <3>4, <3>5, <3>6, <3>7 DEF IInv, WalletsMatch
    <2>13. OnePayout'
      <3>1. Cardinality(WithStatus(y, "PENDING")' \cup WithStatus(y, "COMPLETED")') = 1
        BY <2>10, <2>11
      <3> QED
        BY <2>10, <3>1 DEF IInv, OnePayout
    <2>14. FinalStep
      <3>1. payout[y][n] = "none"
        BY <2>2 DEF WithStatus
      <3> QED
        BY <2>4, <3>1 DEF FinalStep
    <2>15. BalancesRead'
      BY <1>2, <2>8, <2>14, ReadsKept DEF Documents
    <2> QED
      BY <2>9, <2>12, <2>13, <2>14, <2>15 DEF IInv
  <1>3. \/ Return(t) /\ UNCHANGED walletVars
        \/ /\ ~Conflicts(t, {y})
           /\ \E n \in WithStatus(y, "none") : payout' = [payout EXCEPT ![y][n] = "PENDING"]
           /\ pending' = [pending EXCEPT ![y] = @ + 1]
           /\ Step(t, AfterQueue(t), {y})
           /\ UNCHANGED <<available, overwritten>>
    BY <1>0 DEF InsertPayout
  <1> QED
    BY <1>1, <1>2, <1>3

LEMMA CommitStep ==
  ASSUME IInv, OtherType', NEW t \in Calls, CommitPay(t)
  PROVE  IInv' /\ FinalStep
  <1>0. PICK y \in Types, n \in Docs : y = call[t].type /\ n = call[t].doc
    BY DEF IInv, TypeOK, CallRecords
  <1>1. CASE Return(t) /\ UNCHANGED walletVars
    BY <1>1, IdleStep DEF Return, Documents
  <1>2. CASE ~Conflicts(t, {y, "order"})
    <2>2. /\ payout' = [payout EXCEPT ![y][n] = "COMPLETED"]
          /\ pending' = [pending EXCEPT ![y] = IF @ = 0 THEN 0 ELSE @ - 1]
          /\ available' = [available EXCEPT ![y] = @ + 1]
          /\ UNCHANGED overwritten
          /\ Step(t, Idle, {y, "order"})
      BY <1>0, <1>2 DEF CommitPay, ReturnWrote, Conflicts, Return
    <2>3. payout[y][n] = "PENDING"
      BY <1>0, <1>2 DEF CommitPay, At, IInv, SnapshotsFresh, Fresh, Conflicts
    <2>4. pending \in [Types -> Nat] /\ available \in [Types -> Nat]
      BY DEF IInv, TypeOK
    <2>5. pending' \in [Types -> Nat] /\ available' \in [Types -> Nat]
      BY <1>0, <2>2, <2>4
    <2>6. /\ payout' \in [Types -> [Docs -> {"none", "PENDING", "COMPLETED", "CANCELLED"}]]
          /\ payout'[y][n] = "COMPLETED"
          /\ \A x \in Types \ {y} : payout'[x] = payout[x]
          /\ \A m \in Docs \ {n} : payout'[y][m] = payout[y][m]
      BY <1>0, <2>2 DEF IInv, TypeOK
    <2>1. TypeOK' /\ SnapshotsFresh'
      <3>1. Idle \in CallRecords /\ Idle.pc \notin {"insert", "paid", "cancel"}
        BY IdleType DEF Idle
      <3>2. /\ {y, "order"} \in SUBSET Documents /\ y \in {y, "order"}
        BY <1>0 DEF Documents
      <3>3. SnapshotsFresh' /\ call' \in [Calls -> CallRecords]
        BY <2>2, <2>6, <3>1, <3>2, WriteStep
      <3> QED
        BY <2>2, <2>5, <2>6, <3>3 DEF IInv, TypeOK, OtherType
    <2>7. /\ WithStatus(y, "PENDING")' = WithStatus(y, "PENDING") \ {n}
          /\ WithStatus(y, "COMPLETED")' = WithStatus(y, "COMPLETED") \cup {n}
          /\ \A x \in Types \ {y} :
                /\ WithStatus(x, "PENDING")' = WithStatus(x, "PENDING")
                /\ WithStatus(x, "COMPLETED")' = WithStatus(x, "COMPLETED")
      <3>1. WithStatus(y, "PENDING")' = WithStatus(y, "PENDING") \ {n}
        BY <1>0, <2>3, <2>6 DEF WithStatus
      <3>2. WithStatus(y, "COMPLETED")' = WithStatus(y, "COMPLETED") \cup {n}
        BY <1>0, <2>3, <2>6 DEF WithStatus
      <3>3. ASSUME NEW x \in Types \ {y}
            PROVE  /\ WithStatus(x, "PENDING")' = WithStatus(x, "PENDING")
                   /\ WithStatus(x, "COMPLETED")' = WithStatus(x, "COMPLETED")
        BY <2>6, <3>3 DEF WithStatus
      <3> QED
        BY <3>1, <3>2, <3>3
    <2>8. n \in WithStatus(y, "PENDING") /\ n \notin WithStatus(y, "COMPLETED")
      BY <1>0, <2>3 DEF WithStatus
    <2>9. /\ WithStatus(y, "PENDING") \in SUBSET Docs
          /\ WithStatus(y, "COMPLETED") \in SUBSET Docs
      BY DEF WithStatus
    <2>10. /\ Cardinality(WithStatus(y, "PENDING")') = Cardinality(WithStatus(y, "PENDING")) - 1
           /\ Cardinality(WithStatus(y, "COMPLETED")')
                 = Cardinality(WithStatus(y, "COMPLETED")) + 1
           /\ Cardinality(WithStatus(y, "PENDING")) # 0
      <3>1. /\ Cardinality(WithStatus(y, "PENDING") \ {n})
                 = Cardinality(WithStatus(y, "PENDING")) - 1
            /\ Cardinality(WithStatus(y, "COMPLETED") \cup {n})
                 = Cardinality(WithStatus(y, "COMPLETED")) + 1
        BY <1>0, <2>8, <2>9, Counted
      <3>2. Cardinality(WithStatus(y, "PENDING")) # 0
        BY <2>8, <2>9, TypesAndDocs, FS_EmptySet
      <3> QED
        BY <2>7, <3>1, <3>2
    <2>11. WalletsMatch'
      <3>1. /\ pending[y] = Cardinality(WithStatus(y, "PENDING"))
            /\ available[y] <= Cardinality(WithStatus(y, "COMPLETED"))
            /\ y \notin overwritten => available[y] = Cardinality(WithStatus(y, "COMPLETED"))
        BY DEF IInv, WalletsMatch
      <3>2. pending'[y] = pending[y] - 1 /\ available'[y] = available[y] + 1
        BY <2>2, <2>4, <2>10, <3>1
      <3>3. Cardinality(WithStatus(y, "COMPLETED")) \in Nat /\ available[y] \in Nat
        BY <2>4, <2>9, TypesAndDocs
      <3>4. /\ pending'[y] = Cardinality(WithStatus(y, "PENDING")')
            /\ available'[y] <= Cardinality(WithStatus(y, "COMPLETED")')
            /\ y \notin overwritten' => available'[y] = Cardinality(WithStatus(y, "COMPLETED")')
        BY <2>2, <2>10, <3>1, <3>2, <3>3
      <3>5. ASSUME NEW x \in Types \ {y}
            PROVE  /\ pending'[x] = Cardinality(WithStatus(x, "PENDING")')
                   /\ available'[x] <= Cardinality(WithStatus(x, "COMPLETED")')
                   /\ x \notin overwritten'
                         => available'[x] = Cardinality(WithStatus(x, "COMPLETED")')
        <4>1. pending'[x] = pending[x] /\ available'[x] = available[x]
          BY <2>2, <2>4
        <4> QED
          BY <2>2, <2>7, <4>1 DEF IInv, WalletsMatch
      <3> QED
        BY <3>4, <3>5 DEF WalletsMatch
    <2>12. OnePayout'
      <3>1. WithStatus(y, "PENDING")' \cup WithStatus(y, "COMPLETED")'
               = WithStatus(y, "PENDING") \cup WithStatus(y, "COMPLETED")
        BY <2>7, <2>8
      <3> QED
        BY <2>7, <3>1 DEF IInv, OnePayout
    <2>13. FinalStep
      BY <2>3, <2>6 DEF FinalStep
    <2>14. BalancesRead'
      <3>1. Idle \in CallRecords /\ Idle.pc # "wallet" /\ {y, "order"} \in SUBSET Documents
        BY <1>0, IdleType DEF Idle, Documents
      <3> QED
        BY <2>2, <2>13, <3>1, ReadsKept
    <2> QED
      BY <2>1, <2>11, <2>12, <2>13, <2>14 DEF IInv
  <1> QED
    BY <1>0, <1>1, <1>2 DEF CommitPay

LEMMA CancelStep ==
  ASSUME IInv, OtherType', NEW t \in Calls, CancelPayout(t)
  PROVE  IInv' /\ FinalStep
  <1>0. PICK y \in Types, n \in Docs : y = "SELLER" /\ n = call[t].doc
    BY DEF IInv, TypeOK, CallRecords, Types
  <1> DEFINE c == [call[t] EXCEPT !.pc = "mark"]
  <1>1. CASE Refund(t, "commission", {}) /\ UNCHANGED walletVars
    BY <1>1, RefundStep
  <1>2. CASE ~Conflicts(t, {"SELLER"})
    <2>2. /\ payout' = [payout EXCEPT ![y][n] = "CANCELLED"]
          /\ pending' = [pending EXCEPT ![y] = IF @ = 0 THEN 0 ELSE @ - 1]
          /\ UNCHANGED <<available, overwritten>>
          /\ Step(t, c, {y})
      BY <1>0, <1>2 DEF CancelPayout, GotoWrote
    <2>3. payout[y][n] = "PENDING"
      BY <1>0, <1>2 DEF CancelPayout, At, IInv, SnapshotsFresh, Fresh, Conflicts
    <2>4. c \in CallRecords /\ c.pc \notin {"insert", "paid", "cancel", "wallet"}
      BY DEF IInv, TypeOK, CallRecords, PCs
    <2>5. pending \in [Types -> Nat] /\ available \in [Types -> Nat]
      BY DEF IInv, TypeOK
    <2> HIDE DEF c
    <2>6. pending' \in [Types -> Nat] /\ available' \in [Types -> Nat]
      BY <1>0, <2>2, <2>5
    <2>7. /\ payout' \in [Types -> [Docs -> {"none", "PENDING", "COMPLETED", "CANCELLED"}]]
          /\ payout'[y][n] = "CANCELLED"
          /\ \A x \in Types \ {y} : payout'[x] = payout[x]
          /\ \A m \in Docs \ {n} : payout'[y][m] = payout[y][m]
      BY <1>0, <2>2 DEF IInv, TypeOK
    <2>1. TypeOK' /\ SnapshotsFresh'
      <3>1. {y} \in SUBSET Documents /\ y \in {y}
        BY <1>0 DEF Documents
      <3>2. SnapshotsFresh' /\ call' \in [Calls -> CallRecords]
        BY <2>2, <2>4, <2>7, <3>1, WriteStep
      <3> QED
        BY <2>2, <2>6, <2>7, <3>2 DEF IInv, TypeOK, OtherType
    <2>8. /\ WithStatus(y, "PENDING")' = WithStatus(y, "PENDING") \ {n}
          /\ WithStatus(y, "COMPLETED")' = WithStatus(y, "COMPLETED") \ {n}
          /\ \A x \in Types \ {y} :
                /\ WithStatus(x, "PENDING")' = WithStatus(x, "PENDING")
                /\ WithStatus(x, "COMPLETED")' = WithStatus(x, "COMPLETED")
      <3>1. WithStatus(y, "PENDING")' = WithStatus(y, "PENDING") \ {n}
        BY <1>0, <2>3, <2>7 DEF WithStatus
      <3>2. WithStatus(y, "COMPLETED")' = WithStatus(y, "COMPLETED") \ {n}
        BY <1>0, <2>3, <2>7 DEF WithStatus
      <3>3. ASSUME NEW x \in Types \ {y}
            PROVE  /\ WithStatus(x, "PENDING")' = WithStatus(x, "PENDING")
                   /\ WithStatus(x, "COMPLETED")' = WithStatus(x, "COMPLETED")
        BY <2>7, <3>3 DEF WithStatus
      <3> QED
        BY <3>1, <3>2, <3>3
    <2>9. n \in WithStatus(y, "PENDING") /\ n \notin WithStatus(y, "COMPLETED")
      BY <1>0, <2>3 DEF WithStatus
    <2>10. /\ WithStatus(y, "PENDING") \in SUBSET Docs
           /\ WithStatus(y, "COMPLETED") \in SUBSET Docs
      BY DEF WithStatus
    <2>11. /\ Cardinality(WithStatus(y, "PENDING")') = Cardinality(WithStatus(y, "PENDING")) - 1
           /\ Cardinality(WithStatus(y, "PENDING")) # 0
           /\ WithStatus(y, "COMPLETED")' = WithStatus(y, "COMPLETED")
      <3>1. Cardinality(WithStatus(y, "PENDING") \ {n})
               = Cardinality(WithStatus(y, "PENDING")) - 1
        BY <1>0, <2>9, <2>10, Counted
      <3>2. Cardinality(WithStatus(y, "PENDING")) # 0
        BY <2>9, <2>10, TypesAndDocs, FS_EmptySet
      <3> QED
        BY <2>8, <2>9, <3>1, <3>2
    <2>12. WalletsMatch'
      BY <1>0, <2>2, <2>5, <2>8, <2>11 DEF IInv, WalletsMatch
    <2>13. OnePayout'
      <3> DEFINE A == WithStatus(y, "PENDING")' \cup WithStatus(y, "COMPLETED")'
                 B == WithStatus(y, "PENDING") \cup WithStatus(y, "COMPLETED")
      <3>1. A \subseteq B /\ B \in SUBSET Docs /\ A \in SUBSET Docs
        BY <2>8, <2>10
      <3>2. Cardinality(B) <= 1
        BY <1>0 DEF IInv, OnePayout
      <3> HIDE DEF A, B
      <3>3. Cardinality(A) <= Cardinality(B)
        BY <3>1, TypesAndDocs, FS_Subset
      <3>4. Cardinality(A) <= 1
        BY <3>1, <3>2, <3>3, TypesAndDocs
      <3> QED
        BY <2>8, <3>4 DEF IInv, OnePayout, A
    <2>14. FinalStep
      BY <2>3, <2>7 DEF FinalStep
    <2>15. BalancesRead'
      <3>1. {y} \in SUBSET Documents
        BY <1>0 DEF Documents
      <3> QED
        BY <2>2, <2>4, <2>14, <3>1, ReadsKept
    <2> QED
      BY <2>1, <2>12, <2>13, <2>14, <2>15 DEF IInv
  <1> QED
    BY <1>1, <1>2 DEF CancelPayout

-----------------------------------------------------------------------------
(* The step that writes a wallet apart from the payouts.                   *)

LEMMA SaveWalletStep ==
  ASSUME IInv, OtherType', NEW t \in Calls, SaveWallet(t)
  PROVE  IInv' /\ FinalStep
  <1>0. PICK y \in Types : y = call[t].type
    BY DEF IInv, TypeOK, CallRecords
  <1> DEFINE c == IF y = "SELLER" THEN [Idle EXCEPT !.pc = "commission", !.to = call[t].to]
                  ELSE IF AfterCommission(t) = "finish"
                  THEN [Idle EXCEPT !.pc = "finish", !.to = call[t].to]
                  ELSE Idle
  <1>1. /\ available' = [available EXCEPT ![y] = call[t].balance]
        /\ overwritten' = overwritten \cup (IF available[y] = call[t].balance THEN {} ELSE {y})
        /\ UNCHANGED <<payout, pending>>
        /\ Step(t, c, {y})
    BY <1>0 DEF SaveWallet, Refund, ReturnWrote, AfterCommission, Types
  <1>2. c \in CallRecords /\ c.pc \notin {"insert", "paid", "cancel", "wallet"}
    BY RefundType, IdleType DEF IInv, PCs, Idle
  <1> HIDE DEF c
  <1>3. call[t].balance \in Nat /\ call[t].balance <= Cardinality(WithStatus(y, "COMPLETED"))
    BY <1>0 DEF SaveWallet, At, IInv, TypeOK, CallRecords, BalancesRead, BalanceRead
  <1>4. FinalStep
    BY <1>1 DEF FinalStep
  <1>5. {y} \in SUBSET Documents /\ y \in {y}
    BY DEF Documents
  <1>6. SnapshotsFresh' /\ call' \in [Calls -> CallRecords]
    BY <1>1, <1>2, <1>5, WriteStep
  <1>7. BalancesRead'
    BY <1>1, <1>2, <1>4, <1>5, ReadsKept
  <1>8. available' \in [Types -> Nat] /\ overwritten' \subseteq Types
    BY <1>1, <1>3 DEF IInv, TypeOK
  <1>9. TypeOK'
    BY <1>1, <1>6, <1>8 DEF IInv, TypeOK, OtherType
  <1>10. \A x \in Types : \A status \in {"PENDING", "COMPLETED"} :
            WithStatus(x, status)' = WithStatus(x, status)
    BY <1>1 DEF WithStatus
  <1>11. OnePayout'
    BY <1>10 DEF IInv, OnePayout
  <1>12. WalletsMatch'
    <2> SUFFICES ASSUME NEW x \in Types
                 PROVE  /\ pending'[x] = Cardinality(WithStatus(x, "PENDING")')
                        /\ available'[x] <= Cardinality(WithStatus(x, "COMPLETED")')
                        /\ x \notin overwritten' =>
                              available'[x] = Cardinality(WithStatus(x, "COMPLETED")')
      BY DEF WalletsMatch
    <2>1. /\ pending[x] = Cardinality(WithStatus(x, "PENDING"))
          /\ available[x] <= Cardinality(WithStatus(x, "COMPLETED"))
          /\ x \notin overwritten => available[x] = Cardinality(WithStatus(x, "COMPLETED"))
      BY DEF IInv, WalletsMatch
    <2>2. available'[x] = IF x = y THEN call[t].balance ELSE available[x]
      BY <1>1 DEF IInv, TypeOK
    <2> QED
      BY <1>1, <1>3, <1>10, <2>1, <2>2
  <1> QED
    BY <1>4, <1>7, <1>6, <1>9, <1>11, <1>12 DEF IInv

-----------------------------------------------------------------------------
(* The theorems.                                                           *)

LEMMA SettlementStep ==
  ASSUME IInv, [Next]_vars
  PROVE  IInv' /\ FinalStep
  <1>1. OtherType'
    BY OtherStep
  <1>2. CASE UNCHANGED vars
    BY <1>2 DEF vars, walletVars, orderVars, IInv, TypeOK, SnapshotsFresh, Fresh, OnePayout,
                WalletsMatch, WithStatus, BalancesRead, BalanceRead, FinalStep
  <1>3. CASE WindowPasses
    BY <1>1, <1>3 DEF WindowPasses, walletVars, orderVars, IInv, TypeOK, SnapshotsFresh, Fresh,
                      OnePayout, WalletsMatch, WithStatus, BalancesRead, BalanceRead, FinalStep
  <1>4. ASSUME NEW t \in Calls,
               \/ SettleOrder(t) \/ ReleaseHolds(t)
               \/ \E y \in Types, n \in Docs : ProcessBatch(t, y, n)
               \/ \E to \in {"return_open", "returned"} : LoadReturn(t, to)
               \/ \E verdict \in {"qc_passed", "qc_failed"} : LoadQc(t, verdict)
               \/ Continue(t) \/ Crash(t)
        PROVE  IInv' /\ FinalStep
    BY <1>1, <1>4, Requests, QueueStep, InsertStep, FindStep, BeginStep, CommitStep, CancelStep,
       SaveWalletStep, OtherSteps DEF Continue
  <1> QED
    BY <1>2, <1>3, <1>4 DEF Next

THEOREM SettlementInvariant == Spec => []IInv
  <1>1. IInv /\ [Next]_vars => IInv'
    BY SettlementStep
  <1> QED
    BY TypeInit, <1>1, PTL DEF Spec

\* Every variable keeps its type: no slot, document or balance leaves its range, whatever
\* the settlements, jobs, quality checks and refunds do at the same time.
THEOREM SettlementTypeCorrect == Spec => []TypeOK
  <1>1. IInv => TypeOK
    BY DEF IInv
  <1> QED
    BY <1>1, SettlementInvariant, PTL

\* createPendingPayoutForOrder leaves an order with one payout of a type that counts,
\* although it commits apart from the settlement that calls it.
THEOREM OnePayoutHolds == Spec => []OnePayout
  <1>1. IInv => OnePayout
    BY DEF IInv
  <1> QED
    BY <1>1, SettlementInvariant, PTL

\* The balances of a wallet are those of its payouts after any number of settlements,
\* payments and cancellations that overlap, die or lose to each other; only a debit or
\* credit that saves a balance it read before another write may drop paid ones, and
\* nothing makes a payout count twice.
THEOREM WalletsMatchHolds == Spec => []WalletsMatch
  <1>1. IInv => WalletsMatch
    BY DEF IInv
  <1> QED
    BY <1>1, SettlementInvariant, PTL

\* processPayout and cancelPendingPayoutForOrder never undo each other: a payout that was
\* paid or cancelled stays as it is.
THEOREM PayoutIsFinalHolds == Spec => PayoutIsFinal
  <1>1. IInv /\ [Next]_vars =>
           [\A y \in Types, n \in Docs :
               payout[y][n] \in {"COMPLETED", "CANCELLED"} => payout'[y][n] = payout[y][n]]_vars
    BY SettlementStep DEF FinalStep
  <1> QED
    BY <1>1, SettlementInvariant, PTL DEF Spec, PayoutIsFinal
=============================================================================
