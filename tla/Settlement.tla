---------------------------- MODULE Settlement ----------------------------
(***************************************************************************)
(* The money of one delivered order: its settlement and payouts            *)
(* (services/finance/orderFinanceService.js, payoutService.js), the jobs   *)
(* that pay them out (jobs/returnWindowReleaseJob.js, payoutBatchJob.js),  *)
(* and its return, whose quality check refunds the customer                *)
(* (services/order/orderReturnService.js, controller/orderController.js).  *)
(*                                                                         *)
(* A MongoDB transaction reads a snapshot and aborts when a document it    *)
(* writes was written by another one since: a request in a transaction     *)
(* remembers the documents that were.  Wallet balances are counted in the  *)
(* payouts that are in them; the sums of refunds and commissions, and the  *)
(* other orders' money in the same wallets, are left out.                  *)
(***************************************************************************)
EXTENDS Integers, FiniteSets

CONSTANTS
    Calls,        \* slots for requests and jobs in flight
    MaxPayouts,   \* bound: Payout documents of a type
    AutoRelease,  \* the settings of AUTO_RELEASE_SELLER_PAYOUT that processes run with
    MaxFaults     \* bound: requests that die, transactions that abort for other orders

ASSUME SettlementAssumption ==
    MaxPayouts \in Nat \ {0} /\ AutoRelease \subseteq BOOLEAN /\ MaxFaults \in Nat

Types == {"SELLER", "RIDER"}
Docs == 1..MaxPayouts

VARIABLES
    applied,       \* Order.financeFlags.deliveredSettlementApplied
    queued,        \* the types with a ...PayoutQueued flag
    sellerPayout,  \* Order.settlementStatus.sellerPayout
    windowOver,    \* Order.returnWindowExpiresAt has passed
    ret,           \* Order.returnStatus
    payout,        \* Payout.status of each document, by type
    pending,       \* Wallet.pendingBalance of the seller and the rider
    available,     \* Wallet.availableBalance of the seller and the rider
    overwritten,   \* history: the wallets a stale debit or credit was written to
    refundTxn,     \* the refund's Transaction, whose reference is unique
    call,          \* requests and jobs in flight
    faults

orderVars == <<applied, queued, sellerPayout>>
walletVars == <<payout, pending, available, overwritten>>
vars == <<orderVars, windowOver, ret, walletVars, refundTxn, call, faults>>

\* The statuses between a return's request and its hand-over to the seller (requested,
\* approved, rejected, pickup_assigned, in_transit, drop_pending) are one, return_open.
ReturnStatus ==
    {"none", "return_open", "returned", "qc_passed", "qc_failed", "refund_completed"}

PCs == {"idle", "queue", "insert", "apply", "find", "pay", "paid", "write",
        "judge", "record", "adjust", "cancel", "mark", "commission", "wallet", "finish"}

\* balance is what a debit or credit read of the wallet it is about to save.
CallRecords == [pc : PCs, type : Types, doc : Docs, hold : BOOLEAN, to : ReturnStatus,
                balance : Nat, stale : SUBSET ({"order"} \cup Types)]

Idle == [pc |-> "idle", type |-> "SELLER", doc |-> 1, hold |-> FALSE, to |-> "none",
         balance |-> 0, stale |-> {}]

TypeOK ==
    /\ applied \in BOOLEAN
    /\ queued \subseteq Types
    /\ sellerPayout \in {"none", "PENDING", "HOLD", "COMPLETED", "CANCELLED"}
    /\ windowOver \in BOOLEAN
    /\ ret \in ReturnStatus
    /\ payout \in [Types -> [Docs -> {"none", "PENDING", "COMPLETED", "CANCELLED"}]]
    /\ pending \in [Types -> Nat]
    /\ available \in [Types -> Nat]
    /\ overwritten \subseteq Types
    /\ refundTxn \in BOOLEAN
    /\ call \in [Calls -> CallRecords]
    /\ faults \in 0..MaxFaults

Init ==
    /\ applied = FALSE /\ queued = {} /\ sellerPayout = "none"
    /\ windowOver = FALSE
    /\ ret = "none"
    /\ payout = [y \in Types |-> [n \in Docs |-> "none"]]
    /\ pending = [y \in Types |-> 0]
    /\ available = [y \in Types |-> 0]
    /\ overwritten = {}
    /\ refundTxn = FALSE
    /\ call = [t \in Calls |-> Idle]
    /\ faults = 0

At(t, pc) == call[t].pc = pc

\* Mutant of Conflicts: the last one to commit wins.
NoConflict(t, docs) == FALSE

\* A document that t's transaction writes was written since its snapshot.
Conflicts(t, docs) == call[t].stale \cap docs # {}

\* What the transaction a call c is in will write, of which others' writes matter to it.
Writes(c) == CASE c.pc \in {"queue", "apply"} -> {"order"}
               [] c.pc \in {"insert", "paid"} -> {c.type, "order"}
               [] c.pc = "cancel" -> {"SELLER"}
               [] OTHER -> {}

\* t goes on as c and has written docs.
Step(t, c, docs) ==
    call' = [u \in Calls |->
                IF u = t THEN c
                ELSE [call[u] EXCEPT !.stale = @ \cup (docs \cap Writes(call[u]))]]

Goto(t, pc) == Step(t, [call[t] EXCEPT !.pc = pc], {})
GotoWrote(t, pc, docs) == Step(t, [call[t] EXCEPT !.pc = pc], docs)

\* Mutant of Return: the slot keeps something of its request.
ReturnHalf(t) == Step(t, [Idle EXCEPT !.doc = 0], {})

Return(t) == Step(t, Idle, {})
ReturnWrote(t, docs) == Step(t, Idle, docs)

\* A refund or pickup of t goes on to a step that needs to know no more than its kind.
Refund(t, pc, docs) == Step(t, [Idle EXCEPT !.pc = pc, !.to = call[t].to], docs)

\* A new transaction of t, from now.
Begin(t, c) == Step(t, [c EXCEPT !.stale = {}], {})

WithStatus(y, status) == {n \in Docs : payout[y][n] = status}

-----------------------------------------------------------------------------
(* settleDeliveredOrder: by the handoff, a status override or an admin.    *)

\* The window is looked at when the order is loaded.
SettleOrder(t) ==
    /\ At(t, "idle")
    /\ ~applied
    /\ Begin(t, [Idle EXCEPT !.pc = "queue", !.hold = ~windowOver])
    /\ UNCHANGED <<orderVars, windowOver, ret, walletVars, refundTxn, faults>>

AfterQueue(t) ==
    IF call[t].type = "SELLER"
    THEN [call[t] EXCEPT !.pc = "queue", !.type = "RIDER", !.stale = @ \ Types]
    ELSE [call[t] EXCEPT !.pc = "apply", !.type = "SELLER", !.stale = @ \ Types]

\* Mutant of Exists: the payouts there are are not looked at.
ExistsUnseen(y) == FALSE

Exists(y) == WithStatus(y, "PENDING") \cup WithStatus(y, "COMPLETED") # {}

\* createPendingPayoutForOrder takes a snapshot of its own, apart from the settlement's.
QueuePayout(t) ==
    LET y == call[t].type IN
    /\ At(t, "queue")
    /\ \/ /\ y \in queued \/ Exists(y)
          /\ Step(t, AfterQueue(t), {})
       \/ /\ y \notin queued /\ ~Exists(y)
          /\ Goto(t, "insert")
    /\ UNCHANGED <<orderVars, windowOver, ret, walletVars, refundTxn, faults>>

\* It commits before the settlement does, and whether or not it will.
InsertPayout(t) ==
    LET y == call[t].type IN
    /\ At(t, "insert")
    /\ \/ /\ Conflicts(t, {y})
          /\ Return(t)
          /\ UNCHANGED walletVars
       \/ /\ ~Conflicts(t, {y})
          /\ \E n \in WithStatus(y, "none") :
                /\ \A m \in WithStatus(y, "none") : n <= m
                /\ payout' = [payout EXCEPT ![y][n] = "PENDING"]
          /\ pending' = [pending EXCEPT ![y] = @ + 1]
          /\ Step(t, AfterQueue(t), {y})
          /\ UNCHANGED <<available, overwritten>>
    /\ UNCHANGED <<orderVars, windowOver, ret, refundTxn, faults>>

\* The settlement commits: the flags of the order, and the platform's earning with them.
ApplySettlement(t) ==
    /\ At(t, "apply")
    /\ \/ /\ Conflicts(t, {"order"})
          /\ Return(t)
          /\ UNCHANGED orderVars
       \/ /\ ~Conflicts(t, {"order"})
          /\ applied' = TRUE
          /\ queued' = Types
          /\ sellerPayout' = IF call[t].hold THEN "HOLD"
                             ELSE IF "SELLER" \in queued THEN sellerPayout ELSE "PENDING"
          /\ ReturnWrote(t, {"order"})
    /\ UNCHANGED <<windowOver, ret, walletVars, refundTxn, faults>>

-----------------------------------------------------------------------------
(* processPayout and the jobs that call it.                                *)

WindowPasses ==
    /\ ~windowOver
    /\ windowOver' = TRUE
    /\ UNCHANGED <<orderVars, ret, walletVars, refundTxn, call, faults>>

\* bulkProcessPayouts, of the batch job or an admin: it does not look at the hold.
ProcessBatch(t, y, n) ==
    /\ At(t, "idle")
    /\ payout[y][n] = "PENDING"
    /\ Step(t, [Idle EXCEPT !.pc = "pay", !.type = y, !.doc = n], {})
    /\ UNCHANGED <<orderVars, windowOver, ret, walletVars, refundTxn, faults>>

\* Mutant of ReleaseDue: it looks for the pending payouts.
ReleasePending == windowOver /\ ret = "none" /\ sellerPayout = "PENDING"

ReleaseDue == windowOver /\ ret = "none" /\ sellerPayout = "HOLD"

\* releaseExpiredSellerHolds lists the orders.
ReleaseHolds(t) ==
    /\ At(t, "idle")
    /\ ReleaseDue
    /\ Step(t, [Idle EXCEPT !.pc = "find"], {})
    /\ UNCHANGED <<orderVars, windowOver, ret, walletVars, refundTxn, faults>>

\* The job and a failed quality check pay out or lift the hold; the check lifts it
\* also when there is nothing to pay out.
FindPayout(t) ==
    LET due == WithStatus("SELLER", "PENDING") IN
    /\ At(t, "find")
    /\ \/ /\ TRUE \in AutoRelease
          /\ \E n \in due : Step(t, [Idle EXCEPT !.pc = "pay", !.doc = n], {})
          /\ UNCHANGED orderVars
       \/ /\ due = {}
          /\ TRUE \in AutoRelease \/ call[t].to = "none"
          /\ Return(t)
          /\ UNCHANGED orderVars
       \/ /\ FALSE \in AutoRelease
          /\ due # {} \/ call[t].to = "qc_failed"
          /\ sellerPayout' = "PENDING"
          /\ ReturnWrote(t, {"order"})
          /\ UNCHANGED <<applied, queued>>
    /\ UNCHANGED <<windowOver, ret, walletVars, refundTxn, faults>>

\* Mutant of BeginPay: the payout's status is not looked at again.
PayAnyway(t) ==
    /\ At(t, "pay")
    /\ Begin(t, [call[t] EXCEPT !.pc = "paid"])
    /\ UNCHANGED <<orderVars, windowOver, ret, walletVars, refundTxn, faults>>

BeginPay(t) ==
    /\ At(t, "pay")
    /\ \/ payout[call[t].type][call[t].doc] = "PENDING" /\ Begin(t, [call[t] EXCEPT !.pc = "paid"])
       \/ payout[call[t].type][call[t].doc] # "PENDING" /\ Return(t)
    /\ UNCHANGED <<orderVars, windowOver, ret, walletVars, refundTxn, faults>>

CommitPay(t) ==
    LET y == call[t].type IN
    /\ At(t, "paid")
    /\ \/ /\ Conflicts(t, {y, "order"})
          /\ Return(t)
          /\ UNCHANGED <<walletVars, orderVars>>
       \/ /\ ~Conflicts(t, {y, "order"})
          /\ payout' = [payout EXCEPT ![y][call[t].doc] = "COMPLETED"]
          /\ pending' = [pending EXCEPT ![y] = IF @ = 0 THEN 0 ELSE @ - 1]
          /\ available' = [available EXCEPT ![y] = @ + 1]
          /\ queued' = queued \cup {y}
          /\ sellerPayout' = IF y = "SELLER" THEN "COMPLETED" ELSE sellerPayout
          /\ ReturnWrote(t, {y, "order"})
          /\ UNCHANGED <<applied, overwritten>>
    /\ UNCHANGED <<windowOver, ret, refundTxn, faults>>

-----------------------------------------------------------------------------
(* The return, up to its quality check: every handler loads the order,     *)
(* looks at its returnStatus and saves the next one without another look.  *)

\* A return is opened, opened again or handed over from every status: the customer's
\* request needs an open window, but updateReturnStatus counts the statuses it does not
\* know as the first of all, a rider accepts a return that has no rider whatever its
\* status, and the codes of pickup and drop, once sent, are taken whatever the status
\* is by then.  Saving the status that was loaded writes nothing.
LoadReturn(t, to) ==
    /\ At(t, "idle")
    /\ ret = to => to = "return_open"
    /\ Step(t, [Idle EXCEPT !.pc = "write", !.to = to], {})
    /\ UNCHANGED <<orderVars, windowOver, ret, walletVars, refundTxn, faults>>

\* A verified pickup goes on to the rider's commission; other moves are done.
SaveReturn(t) ==
    /\ At(t, "write")
    /\ ret' = call[t].to
    /\ \/ ReturnWrote(t, {"order"})
       \/ call[t].to = "return_open" /\ Refund(t, "commission", {"order"})
    /\ UNCHANGED <<orderVars, windowOver, walletVars, refundTxn, faults>>

-----------------------------------------------------------------------------
(* updateReturnQcStatus and completeReturnAndRefund.                       *)

\* Whether the payout is on hold is read from the order as it is loaded here.
LoadQc(t, verdict) ==
    /\ At(t, "idle")
    /\ ret = "returned"
    /\ Step(t, [Idle EXCEPT !.pc = "judge", !.to = verdict,
                            !.hold = (sellerPayout = "HOLD")], {})
    /\ UNCHANGED <<orderVars, windowOver, ret, walletVars, refundTxn, faults>>

SaveQc(t) ==
    /\ At(t, "judge")
    /\ ret' = call[t].to
    /\ \/ call[t].to = "qc_passed" /\ GotoWrote(t, "record", {"order"})
       \/ call[t].to = "qc_failed" /\ Refund(t, "find", {"order"})
    /\ UNCHANGED <<orderVars, windowOver, walletVars, refundTxn, faults>>

\* The customer has been credited before (Checkout has that step).  The record of a second
\* refund is refused, and the request ends there.
RecordRefund(t) ==
    /\ At(t, "record")
    /\ refundTxn' = TRUE
    /\ IF refundTxn THEN Return(t) ELSE Goto(t, "adjust")
    /\ UNCHANGED <<orderVars, windowOver, ret, walletVars, faults>>

\* getOrCreateWallet of a debit or credit, in no transaction.
ReadWallet(t, y) ==
    Step(t, [call[t] EXCEPT !.pc = "wallet", !.type = y, !.doc = 1, !.hold = FALSE,
                            !.balance = available[y], !.stale = {}], {})

\* A payout on hold is cancelled.  Else the seller is debited, unless the balance, with
\* the other orders' money, is too small: that is logged and the refund goes on.
AdjustSeller(t) ==
    /\ At(t, "adjust")
    /\ \/ \E n \in WithStatus("SELLER", "PENDING") :
             /\ call[t].hold
             /\ Begin(t, [call[t] EXCEPT !.pc = "cancel", !.doc = n])
       \/ /\ call[t].hold /\ WithStatus("SELLER", "PENDING") = {}
          /\ Refund(t, "commission", {})
       \/ /\ ~call[t].hold
          /\ ReadWallet(t, "SELLER") \/ Refund(t, "commission", {})
    /\ UNCHANGED <<orderVars, windowOver, ret, walletVars, refundTxn, faults>>

\* Where a request goes after the commission: a pickup is done, a refund is not.
AfterCommission(t) == IF call[t].to = "qc_passed" THEN "finish" ELSE "idle"

\* The commission of the return's rider, who may be the one that delivered the order.  Its
\* flag returnPickupCommissionPaid is not in the schema: a refund credits it once more.
CreditCommission(t) ==
    /\ At(t, "commission")
    /\ \/ ReadWallet(t, "RIDER")
       \/ AfterCommission(t) = "finish" /\ Refund(t, "finish", {})
       \/ AfterCommission(t) = "idle" /\ Return(t)
    /\ UNCHANGED <<orderVars, windowOver, ret, walletVars, refundTxn, faults>>

\* debitWallet and creditWallet save a balance that they computed from the one they read, in
\* which the payouts are as they were then.
SaveWallet(t) ==
    LET y == call[t].type IN
    /\ At(t, "wallet")
    /\ available' = [available EXCEPT ![y] = call[t].balance]
    /\ overwritten' = overwritten \cup (IF available[y] = call[t].balance THEN {} ELSE {y})
    /\ \/ y = "SELLER" /\ Refund(t, "commission", {y})
       \/ y = "RIDER" /\ AfterCommission(t) = "finish" /\ Refund(t, "finish", {y})
       \/ y = "RIDER" /\ AfterCommission(t) = "idle" /\ ReturnWrote(t, {y})
    /\ UNCHANGED <<orderVars, windowOver, ret, payout, pending, refundTxn, faults>>

\* cancelPendingPayoutForOrder; a failure is logged and the refund goes on.
CancelPayout(t) ==
    /\ At(t, "cancel")
    /\ \/ /\ Conflicts(t, {"SELLER"})
          /\ Refund(t, "commission", {})
          /\ UNCHANGED walletVars
       \/ /\ ~Conflicts(t, {"SELLER"})
          /\ payout' = [payout EXCEPT !["SELLER"][call[t].doc] = "CANCELLED"]
          /\ pending' = [pending EXCEPT !["SELLER"] = IF @ = 0 THEN 0 ELSE @ - 1]
          /\ GotoWrote(t, "mark", {"SELLER"})
          /\ UNCHANGED <<available, overwritten>>
    /\ UNCHANGED <<orderVars, windowOver, ret, refundTxn, faults>>

MarkCancelled(t) ==
    /\ At(t, "mark")
    /\ sellerPayout' = "CANCELLED"
    /\ Refund(t, "commission", {"order"})
    /\ UNCHANGED <<applied, queued, windowOver, ret, walletVars, refundTxn, faults>>

FinishRefund(t) ==
    /\ At(t, "finish")
    /\ ret' = "refund_completed"
    /\ ReturnWrote(t, {"order"})
    /\ UNCHANGED <<orderVars, windowOver, walletVars, refundTxn, faults>>

\* A process dies, or a transaction meets another order's in the platform's wallet.
Crash(t) ==
    /\ ~At(t, "idle") /\ faults < MaxFaults
    /\ faults' = faults + 1
    /\ Return(t)
    /\ UNCHANGED <<orderVars, windowOver, ret, walletVars, refundTxn>>

-----------------------------------------------------------------------------

Continue(t) ==
    \/ QueuePayout(t) \/ InsertPayout(t) \/ ApplySettlement(t)
    \/ FindPayout(t) \/ BeginPay(t) \/ CommitPay(t)
    \/ SaveReturn(t)
    \/ SaveQc(t) \/ RecordRefund(t)
    \/ AdjustSeller(t) \/ CancelPayout(t) \/ MarkCancelled(t)
    \/ CreditCommission(t) \/ SaveWallet(t) \/ FinishRefund(t)

Next ==
    \/ WindowPasses
    \/ \E t \in Calls :
          \/ SettleOrder(t) \/ ReleaseHolds(t)
          \/ \E y \in Types, n \in Docs : ProcessBatch(t, y, n)
          \/ \E to \in {"return_open", "returned"} : LoadReturn(t, to)
          \/ \E verdict \in {"qc_passed", "qc_failed"} : LoadQc(t, verdict)
          \/ Continue(t) \/ Crash(t)

Spec == Init /\ [][Next]_vars

\* Requests go on and the release job runs again and again.
Fairness ==
    /\ \A t \in Calls : WF_vars(Continue(t))
    /\ SF_vars(\E t \in Calls : ReleaseHolds(t))

LiveSpec == Spec /\ Fairness

-----------------------------------------------------------------------------
(* Properties.                                                             *)

\* What is pending in a wallet is what its pending payouts say, although payouts are made,
\* paid and cancelled by settlements, jobs, admins and refunds at the same time.  What is
\* available holds every payout that was paid, unless a debit or credit saved a balance
\* that it had read before another write; and never a payout twice.
WalletsMatch ==
    \A y \in Types :
        /\ pending[y] = Cardinality(WithStatus(y, "PENDING"))
        /\ available[y] <= Cardinality(WithStatus(y, "COMPLETED"))
        /\ y \notin overwritten => available[y] = Cardinality(WithStatus(y, "COMPLETED"))

\* An order has one payout of a type that counts, also when two settlements overlap or
\* one is repeated after its own transaction failed.
OnePayout ==
    \A y \in Types :
        Cardinality(WithStatus(y, "PENDING") \cup WithStatus(y, "COMPLETED")) <= 1

\* A payout that was paid is not cancelled for a refund, and the other way round.
PayoutIsFinal ==
    [][\A y \in Types, n \in Docs :
          payout[y][n] \in {"COMPLETED", "CANCELLED"} => payout'[y][n] = payout[y][n]]_vars

\* A held payout is paid once the return window has passed without a return, through
\* jobs that died or lost to another transaction.
HeldIsReleased ==
    ~<>[](/\ windowOver /\ ret = "none" /\ sellerPayout = "HOLD"
          /\ WithStatus("SELLER", "PENDING") # {})
=============================================================================
