----------------------------- MODULE Payments -----------------------------
(***************************************************************************)
(* Paying for one checkout: backend/app/services/paymentService.js with    *)
(* handleOnlineOrderFinance of services/finance/orderFinanceService.js.    *)
(*                                                                         *)
(* A checkout is a set of orders that are paid together.  The customer     *)
(* opens payment attempts, each a session at the gateway.  The gateway's   *)
(* webhooks and the status checks of the customer's page report what       *)
(* became of a session, late, repeatedly and in any order; each report     *)
(* loads the attempt, awaits, saves it with no condition and then carries  *)
(* its outcome to the orders, one at a time.                               *)
(***************************************************************************)
EXTENDS Integers, FiniteSets

CONSTANTS
    Orders,       \* the orders of the checkout, all of payment mode ONLINE
    MaxAttempts,  \* bound: payment attempts
    Calls,        \* slots for calls in flight in the API and scheduler processes
    MaxFaults     \* bound: calls that die between two of their steps

ASSUME PaymentsAssumption ==
    /\ Orders # {}
    /\ MaxAttempts \in Nat \ {0}
    /\ MaxFaults \in Nat

Attempts == 1..MaxAttempts

VARIABLES
    wf,         \* Order.workflowStatus: CREATED, open to its seller, or cancelled
    payStatus,  \* Order.paymentStatus
    captured,   \* Order.financeFlags.onlinePaymentCaptured
    credits,    \* times the platform's wallet was credited for an order
    group,      \* CheckoutGroup.status
    pay,        \* Payment.status of each attempt
    session,    \* the session at the gateway
    seen,       \* PaymentWebhookEvent: the attempts whose capture was received
    call,       \* the calls in flight
    faults      \* calls that died

orderVars == <<wf, payStatus, captured, credits>>
vars == <<orderVars, group, pay, session, seen, call, faults>>

\* PAYMENT_STATUS; the gateway's answers are mapped to three of them.
Outcomes == {"PENDING", "CAPTURED", "FAILED"}

\* TRANSITIONS of constants/payment.js.
Transitions ==
    [PENDING  |-> {"AUTHORIZED", "CAPTURED", "FAILED", "CANCELLED"},
     CAPTURED |-> {"REFUNDED"},
     FAILED   |-> {}]

canTransition(from, to) == to \in Transitions[from]

\* find (webhook) and ask (status check) lead to save, the outcome's write to the
\* attempt; capture and move repeat for each order, then group.
PCs == {"idle", "initiate", "insert", "find", "ask", "save",
        "capture", "move", "cancel", "pend", "group", "close"}

\* The steps that work on an attempt; the others work on the orders.
Loading == {"initiate", "insert", "find", "ask", "save"}

CallRecords == [pc : PCs, att : 0..MaxAttempts, seenStatus : Outcomes,
                next : Outcomes, left : SUBSET Orders, ord : SUBSET Orders]

\* A call at step pc of attempt p, which it loaded with status x, told of outcome y.
Working(pc, p, x, y) ==
    [pc |-> pc, att |-> p, seenStatus |-> x, next |-> y, left |-> {}, ord |-> {}]

Idle == Working("idle", 0, "PENDING", "PENDING")

TypeOK ==
    /\ wf \in [Orders -> {"CREATED", "SELLER_PENDING", "CANCELLED"}]
    /\ payStatus \in [Orders -> {"CREATED", "PAID", "FAILED"}]
    /\ captured \in [Orders -> BOOLEAN]
    /\ credits \in [Orders -> 0..2]
    /\ group \in {"CREATED", "PAID", "CANCELLED"}
    /\ pay \in [Attempts -> Outcomes \cup {"none"}]
    /\ session \in [Attempts -> {"none", "ACTIVE", "PAID", "EXPIRED"}]
    /\ seen \subseteq Attempts
    /\ call \in [Calls -> CallRecords]
    /\ \A t \in Calls : call[t].pc \in Loading => call[t].att \in Attempts
    /\ faults \in 0..MaxFaults

Init ==
    /\ wf = [o \in Orders |-> "CREATED"]
    /\ payStatus = [o \in Orders |-> "CREATED"]
    /\ captured = [o \in Orders |-> FALSE]
    /\ credits = [o \in Orders |-> 0]
    /\ group = "CREATED"
    /\ pay = [p \in Attempts |-> "none"]
    /\ session = [p \in Attempts |-> "none"]
    /\ seen = {}
    /\ call = [t \in Calls |-> Idle]
    /\ faults = 0

Return(t) == call' = [call EXCEPT ![t] = Idle]
Goto(t, pc) == call' = [call EXCEPT ![t].pc = pc]
At(t, pc) == call[t].pc = pc

-----------------------------------------------------------------------------
(* The gateway and the clock.                                              *)

\* The customer pays in a session that was handed out.  A session may be declined
\* before, and reported on, any number of times.
Pay(p) ==
    /\ pay[p] # "none" /\ session[p] = "ACTIVE"
    /\ session' = [session EXCEPT ![p] = "PAID"]
    /\ UNCHANGED <<orderVars, group, pay, seen, call, faults>>

SessionExpires(p) ==
    /\ session[p] = "ACTIVE"
    /\ session' = [session EXCEPT ![p] = "EXPIRED"]
    /\ UNCHANGED <<orderVars, group, pay, seen, call, faults>>

-----------------------------------------------------------------------------
(* createPaymentOrderForOrderRef.                                          *)

Created == {p \in Attempts : pay[p] # "none"}

\* validatePaymentEligibility.
Eligible == \A o \in Orders : wf[o] # "CANCELLED" /\ payStatus[o] # "PAID"

\* The latest open attempt is handed out again for ten minutes; after that, or when
\* none is open, there is a new one.  Its number is one more than there are attempts.
CreateAttempt(t) ==
    /\ At(t, "idle")
    /\ Eligible
    /\ Cardinality(Created) < MaxAttempts
    /\ call' = [call EXCEPT ![t] =
                   Working("initiate", Cardinality(Created) + 1, "PENDING", "PENDING")]
    /\ UNCHANGED <<orderVars, group, pay, session, seen, faults>>

\* The gateway refuses a merchant order id it already knows.
InitiatePayment(t) ==
    /\ At(t, "initiate")
    /\ \/ /\ session[call[t].att] = "none"
          /\ session' = [session EXCEPT ![call[t].att] = "ACTIVE"]
          /\ Goto(t, "insert")
       \/ /\ session[call[t].att] # "none"
          /\ Return(t)
          /\ UNCHANGED session
    /\ UNCHANGED <<orderVars, group, pay, seen, faults>>

InsertAttempt(t) ==
    /\ At(t, "insert")
    /\ pay' = [pay EXCEPT ![call[t].att] = "PENDING"]
    /\ Return(t)
    /\ UNCHANGED <<orderVars, group, session, seen, faults>>

-----------------------------------------------------------------------------
(* Reports of an outcome.                                                  *)

\* The outcomes an event of a session that was handed out can carry: a declined or ended
\* try is FAILED; every state that mapStatusToInternal does not know, ACTIVE, FLAGGED or
\* none among them, is PENDING.
Reportable(p) == IF session[p] = "PAID" THEN Outcomes ELSE {"PENDING", "FAILED"}

\* processGatewayWebhook records the event first.  Each try of a session has events of
\* its own; the one of the capture is accepted once, and then is a duplicate.
ReceiveWebhook(t, p, y) ==
    /\ At(t, "idle")
    /\ p \in Created /\ y \in Reportable(p)
    /\ y = "CAPTURED" => p \notin seen
    /\ seen' = IF y = "CAPTURED" THEN seen \cup {p} ELSE seen
    /\ call' = [call EXCEPT ![t] = Working("find", p, "PENDING", y)]
    /\ UNCHANGED <<orderVars, group, pay, session, faults>>

FindPayment(t) ==
    /\ At(t, "find")
    /\ call' = [call EXCEPT ![t].pc = "save", ![t].seenStatus = pay[call[t].att]]
    /\ UNCHANGED <<orderVars, group, pay, session, seen, faults>>

\* verifyGatewayPaymentStatus loads the attempt, then asks the gateway.
CheckStatus(t, p) ==
    /\ At(t, "idle")
    /\ p \in Created
    /\ call' = [call EXCEPT ![t] = Working("ask", p, pay[p], "PENDING")]
    /\ UNCHANGED <<orderVars, group, pay, session, seen, faults>>

\* Mutant of Reported: a session that ended is taken for a paid one.
ReportedEnded(p) == IF session[p] = "ACTIVE" THEN "PENDING" ELSE "CAPTURED"

\* mapStatusToInternal.
Reported(p) == CASE session[p] = "ACTIVE" -> "PENDING"
                 [] session[p] = "PAID" -> "CAPTURED"
                 [] OTHER -> "FAILED"

AskGateway(t) ==
    /\ At(t, "ask")
    /\ call' = [call EXCEPT ![t].pc = "save", ![t].next = Reported(call[t].att)]
    /\ UNCHANGED <<orderVars, group, pay, session, seen, faults>>

\* Mutant of Accepted: any outcome is written.
AcceptedAlways(t) == TRUE

\* The status that was loaded allows the outcome.
Accepted(t) ==
    \/ call[t].seenStatus = call[t].next
    \/ canTransition(call[t].seenStatus, call[t].next)

\* Mutant of HasEffects: an outcome that is no news has none.
EffectsOnce(t) == call[t].seenStatus # call[t].next

\* The outcome is carried to the orders even when it is no news.
HasEffects(t) == TRUE

EffectOf == [PENDING |-> "pend", CAPTURED |-> "capture", FAILED |-> "cancel"]

\* A call that carries outcome y to the orders; only an open outcome still needs to
\* know the status x that was loaded.
Effect(x, y) ==
    [Working(EffectOf[y], 0, IF y = "PENDING" THEN x ELSE "PENDING", y) EXCEPT !.left = Orders]

\* transitionPaymentState: a status that differs from the loaded one is saved,
\* whatever the attempt's status is by now.  A refused one throws.
SaveTransition(t) ==
    /\ At(t, "save")
    /\ \/ /\ Accepted(t)
          /\ pay' = IF call[t].seenStatus = call[t].next THEN pay
                    ELSE [pay EXCEPT ![call[t].att] = call[t].next]
          /\ \/ /\ HasEffects(t)
                /\ call' = [call EXCEPT ![t] = Effect(call[t].seenStatus, call[t].next)]
             \/ ~HasEffects(t) /\ Return(t)
       \/ /\ ~Accepted(t)
          /\ Return(t)
          /\ UNCHANGED pay
    /\ UNCHANGED <<orderVars, group, session, seen, faults>>

-----------------------------------------------------------------------------
(* handleOrderSideEffectsFromPaymentStatus.                                *)

\* Mutant of AlreadyCaptured: the flag is not looked at.
NeverCaptured(o) == FALSE

\* Mutant of AlreadyCaptured: one captured order stands for the checkout.
AnyCaptured(o) == \E q \in Orders : captured[q]

AlreadyCaptured(o) == captured[o]

\* handleOnlineOrderFinance, one transaction.
CaptureOrder(t, o) ==
    /\ At(t, "capture")
    /\ o \in call[t].left
    /\ \/ AlreadyCaptured(o) /\ UNCHANGED <<captured, payStatus, credits>>
       \/ /\ ~AlreadyCaptured(o)
          /\ captured' = [captured EXCEPT ![o] = TRUE]
          /\ payStatus' = [payStatus EXCEPT ![o] = "PAID"]
          /\ credits' = [credits EXCEPT ![o] = IF @ = 2 THEN 2 ELSE @ + 1]
    /\ call' = [call EXCEPT ![t].pc = "move", ![t].ord = {o}]
    /\ UNCHANGED <<wf, group, pay, session, seen, faults>>

\* Mutant of NextOrder: the first order stands for all.
OnlyFirst(t, o) == "group"

\* Where the loop over the orders goes after o.
NextOrder(t, o) == IF call[t].left = {o} THEN "group" ELSE "capture"

\* moveOrderToSellerPendingAfterPayment.
MoveOrder(t, o) ==
    /\ At(t, "move") /\ call[t].ord = {o}
    /\ wf' = [wf EXCEPT ![o] = IF @ = "CREATED" THEN "SELLER_PENDING" ELSE @]
    /\ call' = [call EXCEPT ![t].pc = NextOrder(t, o), ![t].left = @ \ {o}, ![t].ord = {}]
    /\ UNCHANGED <<payStatus, captured, credits, group, pay, session, seen, faults>>

CancelGuard(o) == wf[o] = "CREATED"

\* A failed attempt cancels, in one transaction, the orders that are not open yet.
CancelOrders(t) ==
    /\ At(t, "cancel")
    /\ wf' = [o \in Orders |-> IF CancelGuard(o) THEN "CANCELLED" ELSE wf[o]]
    /\ payStatus' = [o \in Orders |-> IF CancelGuard(o) THEN "FAILED" ELSE payStatus[o]]
    /\ Goto(t, "group")
    /\ UNCHANGED <<captured, credits, group, pay, session, seen, faults>>

\* An outcome that is still open writes CREATED to every order.
WritePending(t) ==
    /\ At(t, "pend")
    /\ payStatus' = [o \in Orders |-> "CREATED"]
    /\ Return(t)
    /\ UNCHANGED <<wf, captured, credits, group, pay, session, seen, faults>>

\* updateCheckoutGroupPaymentStatus.
UpdateGroup(t) ==
    /\ At(t, "group")
    /\ group' = IF call[t].next = "CAPTURED" THEN "PAID" ELSE "CANCELLED"
    /\ Return(t)
    /\ UNCHANGED <<orderVars, pay, session, seen, faults>>

-----------------------------------------------------------------------------
(* Other writers of the orders.                                            *)

\* autoCancelExpiredOrders: the payment did not come in time.
CancelUnpaid(t, o) ==
    /\ At(t, "idle")
    /\ wf[o] = "CREATED" /\ payStatus[o] # "PAID"
    /\ wf' = [wf EXCEPT ![o] = "CANCELLED"]
    /\ call' = [call EXCEPT ![t].pc = "close"]
    /\ UNCHANGED <<payStatus, captured, credits, group, pay, session, seen, faults>>

\* The customer, or the seller of an open order, cancels.
CancelOrder(t, o) ==
    /\ At(t, "idle")
    /\ wf[o] # "CANCELLED"
    /\ wf' = [wf EXCEPT ![o] = "CANCELLED"]
    /\ call' = [call EXCEPT ![t].pc = "close"]
    /\ UNCHANGED <<payStatus, captured, credits, group, pay, session, seen, faults>>

\* compensateOrderCancellation closes a checkout without active orders.
CloseGroup(t) ==
    /\ At(t, "close")
    /\ group' = IF \A o \in Orders : wf[o] = "CANCELLED" THEN "CANCELLED" ELSE group
    /\ Return(t)
    /\ UNCHANGED <<orderVars, pay, session, seen, faults>>

\* A call throws, or its process dies, between two steps.
Crash(t) ==
    /\ call[t].pc # "idle" /\ faults < MaxFaults
    /\ faults' = faults + 1
    /\ Return(t)
    /\ UNCHANGED <<orderVars, group, pay, session, seen>>

-----------------------------------------------------------------------------

Gateway(p) == Pay(p) \/ SessionExpires(p)

Continue(t) ==
    \/ InitiatePayment(t) \/ InsertAttempt(t)
    \/ FindPayment(t) \/ AskGateway(t) \/ SaveTransition(t)
    \/ \E o \in Orders : CaptureOrder(t, o) \/ MoveOrder(t, o)
    \/ CancelOrders(t) \/ WritePending(t) \/ UpdateGroup(t) \/ CloseGroup(t)

Next ==
    \/ \E p \in Attempts : Gateway(p)
    \/ \E t \in Calls : \/ CreateAttempt(t)
                        \/ \E p \in Attempts, y \in Outcomes : ReceiveWebhook(t, p, y)
                        \/ \E p \in Attempts : CheckStatus(t, p)
                        \/ \E o \in Orders : CancelUnpaid(t, o) \/ CancelOrder(t, o)
                        \/ Continue(t) \/ Crash(t)

Spec == Init /\ [][Next]_vars

\* Calls go on, and the payment page goes on asking for the status.
Fairness ==
    /\ \A t \in Calls : WF_vars(Continue(t))
    /\ \A p \in Attempts : SF_vars(\E t \in Calls : CheckStatus(t, p))

LiveSpec == Spec /\ Fairness

-----------------------------------------------------------------------------
(* Properties.                                                             *)

\* handleOnlineOrderFinance books an order once, through however many attempts,
\* webhooks, status checks and repetitions of them the outcome arrives.
CapturedOnce == \A o \in Orders : credits[o] = IF captured[o] THEN 1 ELSE 0

\* An order is open to its seller only after its payment was booked.
OpenedIsCaptured == \A o \in Orders : wf[o] = "SELLER_PENDING" => captured[o]

\* A checkout that shows PAID has every one of its orders booked, also when the
\* call that carried the outcome to the orders died and another one went on.
GroupPaidIsCaptured == group = "PAID" => \A o \in Orders : captured[o]

\* A paid order is shown as unpaid again only by a report, of a status check or of a
\* webhook, that is about an attempt which was still open when the report loaded it:
\* before the capture was saved, or another attempt.  An attempt that was loaded as
\* captured refuses the outcome before the orders are touched.
UnmarkedByStaleReport ==
    [][\A o \in Orders : payStatus[o] = "PAID" /\ payStatus'[o] = "CREATED" =>
          \E t \in Calls : call[t].pc = "pend" /\ call[t].seenStatus = "PENDING"]_vars

Bill == INSTANCE Billing WITH paid <- \E p \in Attempts : session[p] = "PAID",
                             booked <- {o \in Orders : captured[o]},
                             stage <- wf, shown <- group

\* However attempts, webhooks, status checks and deaths of calls mix, the checkout is
\* billed as Billing says: no order is booked before the gateway took money for one
\* of the attempts, none is booked twice or opened before it was booked, and a failed
\* attempt ends the orders that are not open, and no other.
FollowsBilling == Bill!Spec

\* A capture that was saved and not overwritten opens or ends every order of its
\* checkout: a call that died on the way is made up for by the next status check.
CaptureArrives ==
    \A p \in Attempts, o \in Orders :
        <>[](pay[p] = "CAPTURED") => <>(wf[o] # "CREATED")
=============================================================================
