# TLA+ models of the Zoogno backend

Specifications, model-checking instances and proofs for the quick-commerce backend under
`backend/app`. Paths below are relative to `src/backend/app` unless they start with `src/`.

## 1. The system

A customer checks out a cart; one order document per seller is written to MongoDB in one
transaction with its stock. The seller accepts, the order is offered to riders near the
shop, one of them claims it, picks it up and hands it over against a one-time code. Three
kinds of processes act on the same documents (`core/processRole.js`): API processes run the
HTTP handlers, workers run Bull jobs from Redis, and the scheduler runs a poll loop that does
the jobs' work when Redis lost it. Nothing is locked: a handler either does one guarded
`findOneAndUpdate`, or reads, awaits and writes.

| component | state | operations | properties that make it correct |
|---|---|---|---|
| Order workflow (`services/orderWorkflowService.js`) | `workflowStatus`, legacy `status`, rider, search window, attempt, broadcast marker | accept, reject, auto-accept, set preparation time, dispatch, broadcast, retry, claim, arrive, pick up, hand over, cancel | one rider for good, no order on the road without its rider, bounded search, nothing leaves CANCELLED or DELIVERED |
| Timeouts and queues (`jobs/orderAutoCancelJob.js`, `services/workflow/bullJobScheduler.js`, `queues/`) | Bull jobs, the deadlines on the document | schedule, remove, deliver a job; poll expired rows | a lost or duplicated job never stops an order, no wait is for ever |
| Cancellation and stock (`services/orderCompensation.js`, `services/stockService.js`) | product stock, `stockReservation` | reserve, release, mark | stock goes back once and only for cancelled orders, as long as none is revived |
| Payments (`services/paymentService.js`) | payment attempts, `paymentStatus`, the checkout group's status, seen webhook events | open an attempt, check its status, webhook, capture, fail | an unpaid order is not served, a paid one is not lost, each order is booked once |
| Distributed scheduler (`services/distributedScheduler.js`) | a Redis key per job, `runningJobs` | tick, acquire, run, release, expire, stop | one execution at a time, the job keeps being run |
| Checkout (`services/orderPlacementService.js`, `services/stockService.js`, `controller/cartController.js`) | stock, the customer's wallet and cart, orders, charges for an unreachable customer | add to the cart, place, cancel and return the units, refund, claim, recover, release, waive | no unit is sold twice, no cart item ordered twice, the wallet is not overdrawn, a charge that is claimed is part of an order |
| Delivery handoff (`services/deliveryOtpService.js`, `controller/deliveryController.js`) | one-time codes | generate, verify, deliver, refuse at the door | an order is delivered against a code made for its delivery, and is not delivered after it was cancelled |
| Customer unreachable (`services/customerUnreachable/`) | a case beside the order | open, ring, report, retry, cancel and charge | case and order agree, one charge, none for an order that goes on |
| Returns and RTO (`services/order/orderReturnService.js`, `controller/orderController.js`) | `returnStatus` of an order | request, approve, assign, inspect, refund | a payout is not both paid and cancelled for a refund |
| Finance (`services/finance/`, `services/orderSettlement.js`) | wallets, ledger, payouts, finance flags | capture, settle, hold, release, pay out, cancel | an order has one payout of a type, wallets and payouts agree, a held payout is released |
| Penalties, incentives, surge, driver slots | their own documents | consume order events, cron jobs | idempotent per order and period |
| Notifications, sockets, maps, catalogue, search, media, cache, metrics, web clients | none that an order depends on | I/O | not modelled |

How they interact: placement creates the order in `CREATED` (ONLINE) or `SELLER_PENDING` (COD,
WALLET); a capture opens a `CREATED` order to its seller; the workflow calls the compensation
when it cancels; the scheduler runs the poll loop, which calls the handlers of the jobs; delivery
triggers settlement. What makes it hard: all of these update the order concurrently, processes
die between two writes, jobs are lost or run twice, the poll loop and a worker can run the same
handler at once, and deadlines pass between a check and the write that relies on it. The hazards,
at their lines, are in `PROJECT.json`.

## 2. What is modelled

### OrderWorkflow

One module for the version 2 workflow, since its handlers share one document.

*State.* Each field of an order that a decision reads is a function on `Orders`: `wf`
(`workflowStatus`), `status` (legacy), `paid`, `captured` (`financeFlags.onlinePaymentCaptured`),
`rider`, `step`, `skippedBy`, `window` (`deliverySearchExpiresAt`), `attempt`, `marker`
(`deliveryBroadcastScheduledAt`), `reservation`. `job` is the Bull job of the delayed broadcast.
`released` counts how often the items went back to stock. `gaveUp` and `revived` are history: the
retry loop stopped, and a write took the order out of CANCELLED. Deadlines are the facts the code
derives from the clock (`waitOver`, `graceOver`, `window`, `marker`).

*Steps.* A guarded `findOneAndUpdate` is one action. A handler that reads, awaits and then writes
is a *call in flight* in a slot of `Threads`: `call[t]` keeps its program counter and what it read,
and anything may happen between its steps. `startDeliverySearchForOrder` is `LoadOrder`,
`SaveSearch`, `ArmSearch`; its callers are told apart by `src`, since a failed dispatch undoes its
claim (`UndoDispatch`), a job's failure removes the job and the rest is logged. `SaveSearch`
writes what Mongoose writes: the paths that differ from what was loaded, with no condition.
`deliveryAcceptAtomic` is `AcceptCheck` (the count) then `AssignRider` (the claim);
`processDeliveryTimeoutJob` is `DeliveryTimeout` (the read) then `Rebroadcast`; `customerCancelV2`
is `CancelRequest` (the clock) then `CancelOrder`; `compensateOrderCancellation` is `Compensate`,
`ReleaseStock`, `MarkReleased`. `attachBasket` and the same code for paper bags are `Pack` and
`StampPacked`. A capture is `PaymentCaptured` (the transaction of `handleOnlineOrderFinance`) then
`MoveToSellerPending`; a report of PENDING that comes late writes CREATED over a paid
order's payment status (`PaymentPending`), for which Payments has the steps. Arrival, pickup and hand-over repeat the condition of their read in their
update, so they are one action each; a hand-over with a wrong or expired code changes no order.

*Poller and jobs.* `Poll` is what the poll loop does for one row, in the single slot `Poller`, as
its loop awaits each row. The seller- and delivery-timeout jobs call the same handlers as the
poll loop, which re-check the deadline in the document; they are `SellerTimeout` and
`DeliveryTimeout` taken by a request slot at any time after the deadline, with no queue of their
own. The broadcast job is modelled with its queue, because its id deduplicates it and a change of
preparation time removes it.

*Environment.* `Tick` moves the clocks, `StartFails` is a call to MongoDB or Redis that throws
inside `startDeliverySearchForOrder`, `Crash` ends a call between two of its steps; Bull hands a
job whose worker died to another one.

*Abstractions.* Distances, the search radius, prices, messages and notifications are left out: no
guard of the modelled code depends on them (the geofence of arrival and pickup is commented out
in the code). `DeliveryAssignment` is a log that nothing reads back into the order. The accept
request's idempotency key only short-cuts a repeated success. The statuses CUSTOMER_UNREACHABLE
and RTO are in Doorstep; the return branch of the poll is not modelled. The model does
not assume that the seller's window is longer than the 60 second grace, since both come from
the environment.

### OrderLife

What an order goes through as its customer, seller and rider see it: the transition table of
`services/orderStateMachine.js`, with one rider's claim as the step to DELIVERY_ASSIGNED. No handler
calls that file, so the table is only what the code is meant to do; the module adds the two
ways in which the code departs from it: an order that is not paid for lapses from CREATED to
CANCELLED, and the start of a search, or its undoing, sets any later status back (`SetBack`).
OrderWorkflow implements OrderLife with `stage <- wf` and `owner <- rider` (`FollowsLife`), which
says more than any of its invariants: nothing is claimed twice, no order that a rider claimed is
claimed by another after a set-back, no status is skipped, and set-backs are the only way back.

### OrderOverride

`updateOrderStatus` (`controller/orderController.js:433-650`) beside the whole workflow: the module
extends OrderWorkflow, and its next-state relation has every step of it. An admin's request, kept in a
slot of `Admins`, names any legacy status and possibly a rider. `OverrideRead` is the load with
every decision made on it: whether the items go back, which paths Mongoose will find changed and
whether a search is needed. `OverrideRestock` returns the items without a look at the reservation,
`OverrideSave` writes the changed paths with no condition, `OverrideStart` hands the order to
`startDeliverySearchForOrder`, which goes on as a call of the workflow, and `OverrideFails` ends the
request between any two of them. A seller's and a rider's requests write the same values under
stricter guards (a seller's "confirmed" and "cancelled" go to the workflow), so the admin stands
for them. The transaction record, the settlement of a delivered order, evidence photos, cache and
notifications are left out; they change nothing of the order that the workflow reads.

The handler is the reason some properties are stated of the workflow's own steps only: an admin
may name another rider for an order (so `FirstRiderWins` becomes `RiderKeptUnlessNamed`), put one
over the limit, and return items that the workflow's cancellation returns again. The stages do not
notice: the handler never writes `workflowStatus` itself, so each step that changes `wf` is still one of
OrderLife's (`StageFollowsLife`), the searches it starts being its set-backs.

### DistributedScheduler

One job, any number of processes. An *execution* is one call of `executeJob`: it awaits the SET NX
(`Acquire`, `Skip`, `AcquireFails`), the handler, and the GET and the DEL of the release as
separate steps. `runningJobs` is the in-memory guard. Two variables that `Init` chooses and nothing
changes say in which setting the processes run: `useRedis` (FALSE is the fallback without Redis) and
`leaseCovers`, whether every run ends within `lockDuration`; when it does not, `Expire` may strike
under a run. `AcquireFails` covers a SET that timed out at the client but was executed. `Stop` is
`stopScheduledJobs`, `Crash` the end of the process.

OrderWorkflow's single `Poller` slot corresponds to one execution at a time. When the lease is
outlived two poll loops overlap; the second one's seller- and delivery-timeout calls are
those of a request slot in OrderWorkflow.

### Payments

The orders of one checkout are paid together (`services/paymentService.js`; several orders come from several sellers,
which placement refuses by now, but the payment code goes on handling them). An attempt is a `Payment`
document and a session at the gateway; the customer can have several. Outcomes come from webhooks
(`ReceiveWebhook`, `FindPayment`) and from the status checks of the payment page (`CheckStatus`,
`AskGateway`), in any order and number: `Reportable` has the outcomes that the adapter may make of a session's
state, and since it makes PENDING of every state it does not know, a webhook reports that as well as a status check does.
`seen` has the captures that were recorded as received, before they were processed. `SaveTransition` is `transitionPaymentState`: the rule of
`constants/payment.js` is applied to the status that was *loaded*, and the save has no condition. Then
the outcome is carried to the orders one by one (`CaptureOrder`, a transaction, and `MoveOrder`), or to
all in one transaction (`CancelOrders`) or update (`WritePending`), and last to the checkout group
(`UpdateGroup`). `CancelUnpaid`, `CancelOrder` and `CloseGroup` are the other writers of the same
documents. `Crash` ends a call between any two steps.

`handleOnlineOrderFinance` marks a cancelled order PAID as well; the model has that, since nothing in
`CaptureOrder` looks at `wf`. The ten minutes for which an open attempt is handed out again are left
out: a new one may be opened at any time, which has more behaviours. Amounts, the mapping of the
gateway's many state names to three, refunds and the webhook's branches for other payments are left out.

Payments implements **Billing** (`FollowsBilling`), which is what paying for a checkout looks like from outside:
money first, then the booking of each order, once, then its opening to the seller, and PAID on the checkout
only when every order is booked. The mapping is `paid` for some session in which the customer paid, `booked`
for the orders whose capture was counted, `stage` for `wf` and `shown` for the group's status. Billing
leaves free what the code leaves free: an order may be cancelled at any stage, also after its capture, and
a group that showed PAID may show CANCELLED when another attempt fails.

OrderWorkflow has the same outcomes as single steps of one order (`PaymentCaptured`,
`MoveToSellerPending`, `PaymentReported`); Payments has what happens before and between them.

### Doorstep

The end of a trip: one order from OUT_FOR_DELIVERY to delivered, refused or cancelled, where OrderWorkflow
has the single step `HandOver`. Two endpoints hand over against a code: `verifyHandoffOtpAndDeliver`
(`VerifyHandoffOtp`, `FindOtp`, `ConsumeOtp`, `Deliver`), which takes the latest code of any kind and
writes DELIVERED under a guard, and `validateDeliveryOtp` (`ValidateDeliveryOtp`, `FindLatestOtp`, `SaveUsed`,
`SetDelivered`), which takes delivery codes only and writes without one. `otp` has the code
documents, numbered as they were created; `requestHandoffOtpAtomic` deletes the unconsumed ones
(`Purge`), `generateDeliveryOtp` and the drop code of a refused order mark those of their kind as consumed
(`Void`). An expired document or one out of attempts is "dead". `markOrderRto` loads, saves, books and issues
the drop code (`MarkRto`, `SaveRto`, `BookRto`, `Void`, `Issue`).

The customer unreachable case is a second document. The rider's report writes the case, then the order, and
undoes the first when the second fails (`ReportCase`, `LeaveDelivery`, `UndoReport`); the admin's retry does
the same the other way round (`AdminRetry`, `RetryDelivery`, `UndoRetry`, where the unique index on
`isActive` may refuse the undoing); the admin's cancellation is a transaction over case, order and charge.
`rung` stands for the call attempts and the waiting time that a report needs. CUSTOMER_UNREACHABLE is not
written to the legacy status, so an order in it can still be refused or delivered by the older
endpoint. `handed`, `charges` and `booked` are history.

### Settlement

What follows a delivery (`services/finance/`): the settlement, the payouts to seller and rider, the jobs
that pay them out, and the return up to its refund. MongoDB's transactions are modelled as the code uses
them: a transaction reads a snapshot and aborts when a document it writes was written by another one since.
A request in a transaction keeps in `stale` the documents written since its snapshot; `Conflicts` is the
abort. `createPendingPayoutForOrder` takes a session of its own, so a payout is committed although
the settlement that made it may abort: `QueuePayout` and `InsertPayout` apart from `ApplySettlement`.
`processPayout` (`BeginPay`, `CommitPay`) is reached from the batch job and admins (`ProcessBatch`), from the
release job (`ReleaseHolds`, `FindPayout`) and from a failed quality check. A refund cancels a held payout
(`CancelPayout`, `MarkCancelled`), or debits a seller who was paid; and it credits the return's rider with a commission, as the
pickup did before it (`CreditCommission`). Debit and credit read the wallet and save it in no transaction
(`ReadWallet`, `SaveWallet`), so they may write over a payout that a job paid in between; `overwritten` keeps the wallets
where one did. Whether the payout is held is what `settlementStatus.sellerPayout` says: the flag
`financeFlags.sellerPayoutHeld`, which the code writes and reads beside it, is not in the schema (`models/order.js:298-305`), and
Mongoose drops it. So is `returnPickupCommissionPaid`.

`returnStatus` moves by loads and saves without a condition (`LoadReturn`, `SaveReturn`). The statuses between request and
hand-over are one, `return_open`, since nothing here tells them apart. From every status some handler leads to
`return_open` and to `returned`: `updateReturnStatus` gives a status it does not know the rank 0, `acceptReturnPickup`
looks only at the rider, and the codes of pickup and drop are taken whatever the status is by then. So a refunded return can
be handed over and inspected again. `AUTO_RELEASE_SELLER_PAYOUT` is a constant of the process; the
run takes both values in the same instance, which has more behaviours than either.

A wallet's balance is a sum, and the model keeps the share in it that is this order's payouts, counted in whole payouts: a debit or
credit of another amount leaves that share as it was *read*. The ledger's and the audit log's rows are written in the same
transactions and never read.

### Checkout

One customer's orders of one product, from several requests at once. `placeOrderAtomic` is a transaction with
a snapshot: `BeginOrder` reads the customer (and with that fixes the snapshot, in which the cart is full or
empty and some charges are pending), `Look`, `Recover` and `Release` are `reconcileAppliedCharges`, which
works *outside* the transaction in the middle of it, and `Place` is the commit, refused when the stock,
the cart, the customer or a charge it writes is stale. The stock is decremented under
`stock >= quantity`, units that the cart holds are taken from it (`Taken`), and the charges that were pending in the snapshot
are claimed. A unit and a charge cost 1. Beside it run, each by the steps it has in the code:

* `addToCart`: `LoadCart`, then `SaveCart`. A product without a line gets one (`PushLine`, which changes the document's
  version); the quantity of a line is set (`SetQuantity`), which Mongoose does only if the version is the one that was
  loaded, but which leaves the version alone. So of two additions one may be lost, which `overwritten` remembers, and one that
  was begun before a checkout took the line is refused. Two additions to an empty cart leave two lines of the product, of which
  `consumeCartItems` takes the first only, so `Taken` may be less than was ordered.
* Cancellations: `CancelOrder`, `Compensate`, `ReleaseStock`, `MarkReleased` are the status, the look at the reservation, the
  return of the units and the mark, in no transaction; `Fail` may end them between any two. A failed payment does all of it in
  one transaction (`FailPayment`). `updateOrderStatus` returns the units without a look at the reservation and then saves the
  status (`LoadOverride`, `ReleaseStock`, `SaveOverride`). A cancelled order may go on (`Revive`: an override, or the
  stale search of `cancelled_is_final`) and be cancelled again. `returned` counts the units that went back.
* A refund of a delivered order: `LoadCustomer`, `SaveCustomer`, in no transaction; it may write over the debit of a checkout.
* `CreateCharge`, `WaiveCharge`, deliveries, and reconciliations outside a checkout.

What the balances then say. `NoOversell`: stock and the units of all orders ever placed are the initial stock and what was
returned. It does not say that an order's units are returned once, which is `StockFollowsCancel` of OrderWorkflow, for orders
that nothing revived, and which is false of others; nor that they are returned at all, since a process may die before. `TakenOnce`: cart and orders
together never have more than was put in the cart, and have all of it unless an addition wrote over another. `WalletCovers`: there is no
debit without an order, and payments and balance are the funds and the refunds unless a refund wrote over a payment. With
such a refund the customer has more to spend than that.

`AppliedIsCarried` says that a charge is part of the order it names. It does not say that no other order
carries it: `releaseCharge` looks at the charge's status only, so a reconciliation that read it with a cancelled order
may release it after the next order claimed it, and a third order carries it too.

`Fail` stands for every early end: an empty cart, a closed zone, an offline store, a conflict, a crash. An
order with an idempotency key never gets so far: `checkIdempotency` uses names it does not declare and throws for
every caller with Redis, and without Redis no lock is acquired (`services/idempotencyService.js:77`). The
web client sends the items with its request, so a second tap after the cart was emptied places a second
order: `TakenOnce` is about what the cart held, not about orders.

## 3. What the runs check

Bounds: one order unless orders interact (they only do through a rider's limit), two concurrent
calls beside the poller where calls race, one or two riders, one or two search attempts, one
crash. Each race in the code is between two calls, and the second crash only repeats the first
one's state. Symmetry is used in safety runs only. Deadlock checking is off because a system whose
orders are all delivered or cancelled, or whose processes have all stopped, is at its end.

| run | instance | shows |
|---|---|---|
| workflow_races | 1 COD order, 2 riders, 1 request + poller, 2 attempts, 1 crash | `OnTheRoadHasRider`, `FirstRiderWins`, `HardStop` hold although the search is saved unconditionally and a dispatch is undone unguarded, and the workflow implements OrderLife (`FollowsLife`) |
| workflow_online | 1 ONLINE order, automatic and manual dispatch, 2 requests + poller, 1 crash | `UnpaidNeverServed`, `StockFollowsCancel`, `ReleasedMeansReturned` under every order of captures, failures, stale reports, timeouts, rejections, cancellations and broadcasts |
| workflow_override | 1 ONLINE order, 2 riders, 1 request + poller, 1 override, automatic dispatch | an override with any status and rider, decided on a stale read, serves no unpaid order (`UnpaidNeverServed`) and takes none from a rider unless the request names another (`RiderKeptUnlessNamed`), and the order's stages follow OrderLife (`StageFollowsLife`) |
| workflow_limit | 3 searching orders, 1 rider, limit 1, 2 requests | the limit is exceeded by at most the other acceptances in flight |
| workflow_live | 1 order, no rider, 1 request + poller, 2 attempts, 1 crash | `SellerPendingEnds`, `BroadcastStarts`, `RetryLoopEnds` |
| scheduler | 2 processes, 2 executions each, 1 fault, all four settings | `SingleWithinLease`, `ReleaseWithinLease`, `NoSelfOverlap`, `JobKeepsRunning` |
| payments | 2 orders, 2 attempts, 2 calls, 1 call that dies | each order is booked once (`CapturedOnce`), only booked orders are opened or shown as paid together (`OpenedIsCaptured`, `GroupPaidIsCaptured`), and only a report that loaded its attempt while it was open unmarks a paid one (`UnmarkedByStaleReport`); every step is one of Billing (`FollowsBilling`) |
| payments_live | 2 orders, 1 attempt, 2 calls, 1 call that dies | a capture that was saved reaches every order (`CaptureArrives`) |
| doorstep | 3 codes, 2 cases, 2 requests, 1 that dies | `DeliveredByCode`, `AwaitingHasReport`, `ChargedOnce`; `FinalUnlessBlind`: an order leaves a final status only by the two writes that do not look at it |
| settlement | 2 requests or jobs, 2 payouts of a type, 1 fault | `WalletsMatch` (but for what a debit or credit wrote over), `OnePayout`, `PayoutIsFinal`, and a held payout is paid or its hold lifted (`HeldIsReleased`) |
| checkout | 2 requests, 2 orders, 1 charge, 1 unit of stock, 1 of money, 1 unit in the cart and 2 more put in, 1 refund, 1 override or revival | `NoOversell`, `TakenOnce`, `WalletCovers`, `AppliedIsCarried`, `SettledIsFinal` |
| cancelled_is_final | 1 COD order, 1 rider | a violation: see below |

workflow_limit starts from orders whose searches are open (`OpenSearches`) instead of walking
three orders there. workflow_override has no crash of the workflow's calls (`MaxFaults` is 0; the
override itself may end at any step) and one override: a second one only repeats a read and a save.
The other bound that cuts behaviours is `MaxFaults`; `released` and `credits` stop
counting at 2, which stands for "more than once". Two payments attempts are the least with which one
can fail while the other is captured; three codes are one consumed, one of another kind and a new one; two
cases are one decided and a new one; two payouts of a type are one cancelled and one that replaces it. In checkout one unit of stock and
one of money make two checkouts compete for each; the unit in the cart and the two that are put in are a line and two additions to it at
the same time, or two additions to a cart that a checkout emptied; one override suffices for a second return of an order's units, and one refund for a
lost debit. settlement and
payments_live have no symmetry, because they check liveness.

The type invariant is stated for every module and proved for every module; workflow_races and settlement also check it.

One statement of the code is refuted by a run: `orderStateMachine.js:35` gives CANCELLED no successor, and a
cancellation between the load and the save of a broadcast is overwritten (`cancelled_is_final`). The same
set-back is the step `SetBack` that OrderLife had to be given.

Other places where the code differs from what it says of itself, met while modelling and visible in the
modules' steps:

* A search that gave up is handled by nobody: `exhaustedAt`, which `orderWorkflowService.js:771-778` writes, is no
  path of the Order schema, and `orderAutoCancelJob` has no query for it, though the comment at
  `orderWorkflowService.js:59-60` counts on that job.
* The poll loop accepts an order that its seller left waiting (`SellerTimeout`), where
  `src/docs/backend_summary.md:27` says that it cancels it.
* The legacy status is not kept in sync (`constants/orderWorkflow.js:3`): an admin's cancellation returns the
  items and leaves `workflowStatus`, and so the order's way to its riders, as it was (`OverrideRestock`,
  `OverrideSave`).
* `financeFlags.sellerPayoutHeld` and `financeFlags.returnPickupCommissionPaid` are no paths of the Order schema, so their writes are
  dropped. The comment at `controller/orderController.js:1147-1149` counts on the second "to prevent double payment": the rider of a
  return is credited at the pickup and again with the refund (`CreditCommission`).
* A return that was refunded can be handed over and inspected again, and the customer is credited before the record of the
  second refund is refused (`LoadReturn`, `RecordRefund`).
* The customer's balance, the seller's and the rider's are read and saved outside a transaction by a refund, which can take back
  a payment or a payout that was made in between (`SaveCustomer`, `SaveWallet`).
* Two additions to a cart at the same time can count as one (`SetQuantity`), and an order can leave a second line of its product
  in the cart (`Taken`).
* An order that is cancelled, revived and cancelled again, or cancelled by an override and by the workflow, returns its units
  twice (`ReleaseStock`).
* The scheduler's lock does not ensure single execution when a run outlives it, and its release, a GET and a DEL,
  can then delete a lock it does not own (`Expire`, `ReleaseDel`); with runs shorter than the lease
  neither happens, which is proved.

### Fairness

`workflow_live` assumes that deadlines pass (WF of the clocks), that a call in flight takes its
next step unless it crashes (WF of `Continue`), and SF of each action of the poll loop: every tick
queries all matching rows and visits each one, so a row that matches again and again is visited.
Nothing is assumed of sellers, riders, customers or Bull workers, so the three properties say
that the poll loop alone suffices. `BroadcastStarts` and `SellerPendingEnds` rest on the crash
bound: a process that died at every visit would defeat any loop. `payments_live` assumes that calls go on and SF
of the status check of each attempt: the payment page asks every three seconds, up to twenty failures or open
answers, and the fault bound keeps the calls that die below that. It says nothing for a customer who closes the
page: then a webhook call that died is made up for by nobody. Webhooks are not assumed to arrive. `settlement` assumes that requests and
jobs go on and SF of the release job, which runs at a fixed interval and lists every order that is due.
`scheduler` assumes that
timers fire, Redis answers, handlers end and keys expire, and that at least one process is left.

## 4. What is proved

TLAPS proves the following for every value of the constants. The assumptions are the named ones of
the modules (`ConstantsAssumption`: finite sets of orders and requests, distinct null values,
positive limits; `SchedulerAssumption`).

* **OrderWorkflowProofs**: `TypeCorrect`. `TypeOK` is not inductive: a retry writes the attempt it
  read plus one, so the invariant adds `ReadsBounded` (a retry in flight read an attempt below the
  maximum; a claim or a skip in flight names a rider). One lemma for the ways a step changes the
  calls in flight, then one step per action.
  The same module has `HardStopHolds`, `OnTheRoadHolds`, `FirstRiderWinsHolds`,
  `LimitOvershootHolds`. A rider is only ever written by `AssignRider`, under `deliveryBoy: null`, and
  every status on the road is only reached from a state with a rider; the unconditional writes
  lead to DELIVERY_SEARCH or SELLER_ACCEPTED, never onto the road, and never touch the rider. For
  the limit the invariant counts a rider's active orders together with the claims in flight: a check
  admits a claim only below the limit, a claim carried out moves from one set to the other.
* **OrderMoneySafety**: `ReleasedMeansReturnedHolds`, `StockFollowsCancelHolds`, `UnpaidNeverServedHolds`,
  `FollowsLifeHolds`. The invariant for the stock, of
  an order that was not revived: its items went back at most once; unless it is CANCELLED they did
  not and no call compensates it; at most one call does; and before that call's mark nothing went
  back. For every order, a call about to mark the reservation has returned the items.
  The invariant for the payment (`PayInv`)
  adds to the property that a call which writes the workflow status unconditionally works on an order that was booked
  and that its seller accepted (`StartsBooked`, `StartsAccepted`), so it cannot take one on from CREATED or SELLER_PENDING,
  to which no step returns; and that a capture about to open its order has booked it (`MoveCaptured`). A step of the workflow is then a claim (`AssignRider`), or changes
  one order's status along the table, by a lapse or by a set-back (`WayFrame`) and no rider, or changes neither:
  these are the steps of OrderLife.
* **OrderOverrideProofs**: `OverrideTypeCorrect`, `OverrideOnTheRoadHolds`, `RiderKeptHolds`,
  `OverrideUnpaidHolds`, `OverrideHardStopHolds`, `OverrideReturnedHolds`, `OverrideLifeHolds`, about the workflow and the overrides together, for any number of overrides at
  once. A step of the composition is one of the workflow's, for which the lemmas above serve, or one
  of the override's, which never writes `wf`, writes a rider only if the request names one, and
  starts a search only of an order that was past CREATED when it was read (`SearchOpened`), a state
  to which no step returns. `OverridePayInvariant` is `PayInv` again for the composition; with it every step that
  changes `wf` is one of the workflow's, taken from a state in which the workflow alone would take it along OrderLife
  too. Steps that change no status are left out of it, since an admin may replace a rider; that is what
  `StageFollowsLife` leaves out of `FollowsLife`. `ReleasedMeansReturned` survives because an override returns items
  without touching the reservation, `StockFollowsCancel` does not survive for the same reason.
* **DistributedSchedulerProofs**: `SchedulerTypeCorrect`, `NoSelfOverlapHolds`,
  `SingleWithinLeaseHolds`, `ReleaseWithinLeaseHolds`. The invariant: an execution in flight has its
  flag set and is its process's only one; with Redis and covering leases the key holds the value of
  each execution past SET NX, hence there is at most one, and a release that reached its DEL deletes
  its own key; a key exists only with Redis.
* **PaymentsProofs**: `PaymentsTypeCorrect`, `CapturedOnceHolds`, `OpenedIsCapturedHolds`, `GroupPaidHolds`,
  `UnmarkedHolds`, `FollowsBillingHolds`. The type invariant adds that an attempt which the
  gateway or a call speaks of is stored (`ReportsRecorded`): without it a save would write a status to none. The others follow from one invariant about the loop over the orders
  (`CarryOk`): a call that carries a capture has booked every order that is no longer on its list, the one it is about to
  move included, and a call at the group's update has booked all of them. Nothing that was booked is forgotten, so
  what another call does in between cannot break it.
  For the refinement one more invariant is needed (`PaidInv`): a call in flight that reports a capture
  exists only when the customer paid in some session (`PaidFor`), which no step takes back. Each step of Payments is then a step of Billing or leaves what Billing sees unchanged (`BillRefines`).
* **SettlementProofs**: `SettlementTypeCorrect`, `OnePayoutHolds`, `WalletsMatchHolds`, `PayoutIsFinalHolds`. The
  invariant adds `SnapshotsFresh`: what a transaction has read of a payout (that it is pending; that there is none) still
  holds, or the wallet that the transaction is going to write has been written since and it will abort. Every
  write of a payout also writes its owner's wallet, which is why the wallet serves as the lock: two
  settlements that both saw no payout cannot both insert one. A debit or credit in no transaction has no such lock: for it the
  invariant says that the balance it read holds no more than the payouts paid by then (`BalancesRead`), so what it saves
  may lose a payout but never counts one twice.
* **DoorstepProofs**: `DoorstepTypeCorrect`, `FinalUnlessBlindHolds`, `ChargedOnceHolds`, `DeliveredByCodeHolds`,
  `AwaitingHasReportHolds`. The type invariant adds that a call past its read has a code or a case (`Fits`). Three
  inductive invariants follow. `ChargeInv`: a request about to return the items works on an order that ended
  (`RestockIsLate`), so none goes out again after it. `CodeInv`: the code documents are numbered as they are created
  (`CodesInOrder`), a drop code exists only when the order ended (`DropsAreLate`), and what each request in flight has
  checked is true of the code it is about to write (`Earned`); it is why `verifyHandoffOtpAndDeliver`, which takes the latest code of
  any kind, cannot deliver against a drop code: by then its guard fails. `CaseInv`: one request at a time reports a
  case (`OneReport`), so the undoing of a failed report takes back no one else's (`ReportStands`, `ReportDone`).
* **CheckoutProofs**: `CheckoutTypeCorrect`, `NoOversellHolds`, `TakenOnceHolds`, `WalletCoversHolds`,
  `AppliedIsCarriedHolds`, `SettledIsFinalHolds`. One inductive invariant: the three balances, that an order which is not
  placed counts nothing (`UnplacedIsEmpty`), and what a request relies on (`Safe`): a charge that was pending in a checkout's
  snapshot is pending still, unless the checkout knows that it was written and will abort; a balance read for a refund
  covers what orders paid since, which is what `WalletCovers` turns on; and the units an addition read in the cart were
  not taken by an order since, unless the cart has a new version, on which `TakenOnce` turns. A sum over orders is stated as the number of
  pairs of an order and a unit below its amount (`Total`), since the provers have no induction: the library's theorems on
  finite sets then count what a step adds or takes away.

These theorems state every safety property that a passing run checks. Model-checked only: the liveness properties,
`SellerPendingEnds`, `BroadcastStarts`, `RetryLoopEnds`, `JobKeepsRunning`, `CaptureArrives` and `HeldIsReleased`, since
fairness and ENABLED are out of the prover's reach. The theorems of OrderWorkflowProofs and OrderMoneySafety speak of
`Spec`, the workflow without overrides; those of OrderOverrideProofs of `OverrideSpec`.

## 5. Plan

Done: OrderWorkflow with OrderLife, OrderOverride, DistributedScheduler, Payments with Billing, Doorstep, Settlement and Checkout, with
proofs of their safety properties.
Next, in this order:

1. The composition of OrderWorkflow's `HandOver` with Doorstep, and of Payments' orders with OrderWorkflow's, as
   refinements of the single steps.
2. COD cash and the finance of cancellations and refusals (`orderFinanceService.js:454-798`, `1021-1196`).
3. The offer of a return to riders and its codes (`orderReturnService.js:372-480`), whose documents Doorstep has.
4. Pure algorithms against reference definitions: preparation minutes, splitting the wallet amount over a group.

## 6. Not modelled

Within the modelled components:

* Version 1 orders, the return branch of the poll, the scan of bags and baskets at pickup and delivery.
* Payments: the branches of the webhook for paper bags, COD cash and QR codes; `initiateRefund`, which no handler calls
  for an order.
* Checkout: changing a quantity, removing a line and clearing the cart (`updateQuantity`, `removeFromCart`, `clearCart`), prices, coupons and
  their use, several sellers (refused outside tests), the retry after a collision of generated ids, addresses, keyed requests (see Checkout).
  That a charge is carried by one order, and that a cancelled order's units go back exactly once, are no properties of the code (see Checkout).
* Doorstep: rate limits and proximity of code requests, the pickup code of a return, the copy of the charge's
  status in the case.
* Settlement: the amounts of refunds, debits and commissions, the customer's credit (Checkout has it), the ledger,
  COD cash, the finance of cancellations and refusals. `queueSellerPayouts` and `queueRiderPayouts` of
  `payoutService.js` have no callers.

Left out for good: notifications, sockets, maps, catalogue, search, media, metrics and the web clients,
which are I/O or presentation and decide nothing about an order. They are most of the repository's lines. `PROJECT.json`
lists every component with its reason.
