----------------------------- MODULE Checkout -----------------------------
(***************************************************************************)
(* Orders of one customer for one product, put in the cart, placed and     *)
(* cancelled by several requests at once (controller/cartController.js,    *)
(* services/orderPlacementService.js, stockService.js), and the charges    *)
(* for an unreachable customer that the next order carries                 *)
(* (services/customerUnreachable/customerUnreachableService.js).           *)
(*                                                                         *)
(* placeOrderAtomic runs in a MongoDB transaction: it reads a snapshot and *)
(* aborts when a document it writes was written by another since.  It also *)
(* reconciles the customer's charges, outside the transaction.  A request  *)
(* with an idempotency key never gets so far: checkIdempotency throws with *)
(* Redis, and without it no lock is acquired.  A product costs one unit of *)
(* money, and so does a charge.                                            *)
(***************************************************************************)
EXTENDS Integers, FiniteSets

CONSTANTS
    Calls,     \* slots for requests in flight
    Orders,    \* bound: orders that can be placed
    Charges,   \* bound: UnreachableCharge documents
    NoOrder,   \* no appliedOrder
    Stock,     \* the product's units at the start
    Funds,     \* the customer's walletBalance at the start
    InCart,    \* the units in the cart at the start
    MaxUnits,  \* bound: units put in the cart, those at the start included
    MaxRefunds,  \* bound: refunds of returned orders
    MaxOverrides \* bound: orders cancelled by hand or taken out of a cancellation

ASSUME CheckoutAssumption ==
    /\ NoOrder \notin Orders
    /\ IsFiniteSet(Orders) /\ IsFiniteSet(Charges)
    /\ {Stock, Funds, MaxUnits, MaxRefunds, MaxOverrides} \subseteq Nat
    /\ InCart \in 0..MaxUnits

VARIABLES
    stock,    \* Product.stock
    wallet,   \* User.walletBalance
    cart,     \* units in Cart.items
    added,    \* history: units that were put in the cart
    order,    \* the orders
    returned, \* history: units that went back to stock
    charge,   \* the UnreachableCharge documents
    refunds,  \* history: refunds credited
    overwritten, \* history: where a save wrote over what it had not read
    overrides,   \* orders cancelled by hand or taken out of a cancellation
    call         \* requests in flight

\* Bound: what an order takes from the wallet.  The request names the amount, and no one
\* compares it with the total; this is the largest total.
MaxPay == MaxUnits + Cardinality(Charges)

stockVars == <<stock, returned>>
cartVars == <<cart, added>>
walletVars == <<wallet, refunds>>
vars == <<stockVars, cartVars, walletVars, order, charge, overwritten, overrides, call>>

\* taken: units that the order took out of the cart; carried: unreachableRecovery.chargeIds;
\* released: stockReservation.status is RELEASED.
OrderDocs ==
    [status : {"none", "placed", "delivered", "cancelled"}, released : BOOLEAN,
     units : 0..MaxUnits, taken : 0..MaxUnits, paid : 0..MaxPay, carried : SUBSET Charges]

ChargeDocs ==
    [status : {"none", "PENDING", "APPLIED", "RECOVERED", "WAIVED"},
     order : Orders \cup {NoOrder}]

\* placing, full, due, stale: of a transaction, whether the cart had items and which charges
\* were pending in its snapshot, and the documents written by others since.  recover, release:
\* the reconciliation's decisions.  seen: the balance a refund read, or the units an addition
\* to the cart did; such an addition is stale once the cart's version has changed.
\* ord: the order being cancelled.
CallRecords ==
    [pc : {"idle", "look", "act", "commit", "save", "add", "compensate", "release", "mark",
           "restock", "overwrite"},
     placing : BOOLEAN, full : BOOLEAN, due : SUBSET Charges,
     stale : SUBSET ({"user", "cart", "version", "stock"} \cup Charges),
     recover : SUBSET Charges, release : SUBSET Charges, seen : Int,
     ord : Orders \cup {NoOrder}]

Idle == [pc |-> "idle", placing |-> FALSE, full |-> FALSE, due |-> {}, stale |-> {},
         recover |-> {}, release |-> {}, seen |-> 0, ord |-> NoOrder]

TypeOK ==
    /\ stock \in Int
    /\ wallet \in Int
    /\ cart \in 0..MaxUnits
    /\ added \in 0..MaxUnits
    /\ order \in [Orders -> OrderDocs]
    /\ charge \in [Charges -> ChargeDocs]
    /\ returned \in Nat
    /\ refunds \in 0..MaxRefunds
    /\ overwritten \subseteq {"user", "cart"}
    /\ overrides \in 0..MaxOverrides
    /\ call \in [Calls -> CallRecords]

Init ==
    /\ stock = Stock /\ wallet = Funds
    /\ cart = InCart /\ added = InCart
    /\ order = [o \in Orders |-> [status |-> "none", released |-> FALSE, units |-> 0, taken |-> 0,
                                  paid |-> 0, carried |-> {}]]
    /\ charge = [c \in Charges |-> [status |-> "none", order |-> NoOrder]]
    /\ returned = 0 /\ refunds = 0 /\ overwritten = {} /\ overrides = 0
    /\ call = [t \in Calls |-> Idle]

At(t, pc) == call[t].pc = pc

\* What another's write matters of to a request r: to a transaction what it may write itself,
\* to an addition to a line of the cart the version.
Watches(r) ==
    IF r.placing THEN {"user", "stock"} \cup r.due \cup (IF r.full THEN {"cart"} ELSE {})
    ELSE IF r.pc = "add" /\ r.seen > 0 THEN {"version"}
    ELSE {}

\* docs are written.
Aged(docs) ==
    [u \in Calls |-> [call[u] EXCEPT !.stale = @ \cup (docs \cap Watches(call[u]))]]

\* t goes on as r, after writing docs.
Step(t, r, docs) == call' = [Aged(docs) EXCEPT ![t] = r]

Lesser(m, n) == IF m < n THEN m ELSE n

-----------------------------------------------------------------------------
(* Charges.                                                                *)

\* adminCancelCase cancels an earlier order with a charge.
CreateCharge(c) ==
    /\ charge[c].status = "none"
    /\ charge' = [charge EXCEPT ![c].status = "PENDING"]
    /\ UNCHANGED <<stockVars, cartVars, walletVars, order, overwritten, overrides, call>>

WaiveCharge(c) ==
    /\ charge[c].status = "PENDING"
    /\ charge' = [charge EXCEPT ![c].status = "WAIVED"]
    /\ call' = Aged({c})
    /\ UNCHANGED <<stockVars, cartVars, walletVars, order, overwritten, overrides>>

AppliedTo(o) == {c \in Charges : charge[c].status = "APPLIED" /\ charge[c].order = o}

CarriedBy(statuses) == UNION {AppliedTo(o) : o \in {p \in Orders : order[p].status \in statuses}}

\* A reconciliation with nothing left to do returns to the checkout, if it is part of one.
Reconciled(r) ==
    IF r.recover \cup r.release # {} THEN [r EXCEPT !.pc = "act"]
    ELSE IF r.placing THEN [r EXCEPT !.pc = "commit"]
    ELSE Idle

\* reconcileAppliedCharges reads the charges and right after them their orders; that counts
\* as one read.  What becomes of either until it acts on what it read is all here.
Look(t) ==
    /\ At(t, "look") \/ At(t, "idle")
    /\ Step(t, Reconciled([call[t] EXCEPT
                              !.recover = CarriedBy({"delivered"}),
                              !.release = CarriedBy({"cancelled"})]), {})
    /\ UNCHANGED <<stockVars, cartVars, walletVars, order, charge, overwritten, overrides>>

\* recoverChargesForDeliveredOrder, once an order is settled.
LookDelivered(t, o) ==
    /\ At(t, "idle")
    /\ order[o].status = "delivered"
    /\ Step(t, Reconciled([Idle EXCEPT !.recover = AppliedTo(o)]), {})
    /\ UNCHANGED <<stockVars, cartVars, walletVars, order, charge, overwritten, overrides>>

\* Mutant of Held: a charge is let go of or recovered whatever it has become.
HeldAnyway(c) == TRUE

Held(c) == charge[c].status = "APPLIED"

\* Only the status is looked at again, not the order.
Recover(t, c) ==
    /\ At(t, "act") /\ c \in call[t].recover
    /\ charge' = IF Held(c) THEN [charge EXCEPT ![c].status = "RECOVERED"] ELSE charge
    /\ call' = [Aged(IF Held(c) THEN {c} ELSE {}) EXCEPT
                   ![t] = Reconciled([@ EXCEPT !.recover = call[t].recover \ {c}])]
    /\ UNCHANGED <<stockVars, cartVars, walletVars, order, overwritten, overrides>>

Release(t, c) ==
    /\ At(t, "act") /\ c \in call[t].release
    /\ charge' = IF Held(c) THEN [charge EXCEPT ![c] = [status |-> "PENDING", order |-> NoOrder]]
                 ELSE charge
    /\ call' = [Aged(IF Held(c) THEN {c} ELSE {}) EXCEPT
                   ![t] = Reconciled([@ EXCEPT !.release = call[t].release \ {c}])]
    /\ UNCHANGED <<stockVars, cartVars, walletVars, order, overwritten, overrides>>

-----------------------------------------------------------------------------
(* The cart and placeOrderAtomic.                                          *)

\* addToCart loads the cart, and has more to look up before it saves.
LoadCart(t) ==
    /\ At(t, "idle")
    /\ added < MaxUnits
    /\ Step(t, [Idle EXCEPT !.pc = "add", !.seen = cart], {})
    /\ UNCHANGED <<stockVars, cartVars, walletVars, order, charge, overwritten, overrides>>

\* The product had no line: one is pushed, which changes the cart's version.
PushLine(t) ==
    /\ call[t].seen = 0
    /\ cart' = cart + 1
    /\ Step(t, Idle, {"cart", "version"})
    /\ UNCHANGED overwritten

\* It had one: its quantity is set, which requires the version that was loaded and does
\* not change it.  So another quantity set since is lost.
SetQuantity(t) ==
    /\ call[t].seen > 0
    /\ "version" \notin call[t].stale
    /\ cart' = call[t].seen + 1
    /\ overwritten' = overwritten \cup (IF cart = call[t].seen THEN {} ELSE {"cart"})
    /\ Step(t, Idle, {"cart"})

SaveCart(t) ==
    /\ At(t, "add")
    /\ added < MaxUnits
    /\ added' = added + 1
    /\ PushLine(t) \/ SetQuantity(t)
    /\ UNCHANGED <<stockVars, walletVars, order, charge, overrides>>

\* The customer is read first: that is when the snapshot is taken.
BeginOrder(t) ==
    /\ At(t, "idle")
    /\ \E o \in Orders : order[o].status = "none"
    /\ Step(t, [Idle EXCEPT !.pc = "look", !.placing = TRUE, !.full = (cart > 0),
                            !.due = {c \in Charges : charge[c].status = "PENDING"}], {})
    /\ UNCHANGED <<stockVars, cartVars, walletVars, order, charge, overwritten, overrides>>

\* Mutants of InStock, Affordable, Consumed and Claimed: no check of the units or of the
\* balance, a cart that is not saved, and a claim of all that is pending by now.
InStockAnyway(units) == TRUE
AffordableAnyway(amount) == TRUE
NotConsumed(t) == {}
ClaimedByNow(t) == {c \in Charges : charge[c].status = "PENDING"}

InStock(units) == stock >= units

Affordable(amount) == wallet >= amount

\* The cart is saved, with its items replaced, unless it was empty.
Consumed(t) == IF call[t].full THEN {"cart", "version"} ELSE {}

\* claimChargesForOrder writes the charges that were pending in the snapshot.
Claimed(t) == call[t].due

\* consumeCartItems takes the units of the order out of the cart; of two lines of the product,
\* which two additions to an empty cart leave, it may be the first only.
Taken(t, units) == IF call[t].full THEN 1..Lesser(units, cart) ELSE {0}

\* units: of the whole cart, or of the request's own items.  amount: of the wallet; all of
\* the total with paymentMode WALLET.  (A new address is saved with the customer too,
\* which only adds conflicts.)
Place(t, o, units, taken, amount) ==
    LET r == call[t]
        docs == {"stock"} \cup Consumed(t) \cup Claimed(t)
                \cup (IF amount > 0 THEN {"user"} ELSE {})
    IN
    /\ order[o].status = "none"
    /\ r.stale \cap docs = {}
    /\ InStock(units) /\ Affordable(amount)
    /\ stock' = stock - units
    /\ wallet' = wallet - amount
    /\ cart' = IF "cart" \in docs THEN cart - taken ELSE cart
    /\ order' = [order EXCEPT ![o] = [status |-> "placed", released |-> FALSE, units |-> units,
                                      taken |-> taken, paid |-> amount, carried |-> r.due]]
    /\ charge' = [c \in Charges |-> IF c \in Claimed(t) THEN [status |-> "APPLIED", order |-> o]
                                    ELSE charge[c]]
    /\ Step(t, Idle, docs)
    /\ UNCHANGED <<added, returned, refunds, overwritten, overrides>>

PlaceOrder(t) ==
    /\ At(t, "commit")
    /\ \E o \in Orders, units \in 1..MaxUnits, amount \in 0..MaxPay :
          \E taken \in Taken(t, units) : Place(t, o, units, taken, amount)

\* An empty cart, a conflict, a closed zone, an offline store, too little stock or money,
\* or the end of the process: a request ends where it is.
Fail(t) ==
    /\ ~At(t, "idle")
    /\ Step(t, Idle, {})
    /\ UNCHANGED <<stockVars, cartVars, walletVars, order, charge, overwritten, overrides>>

-----------------------------------------------------------------------------
(* What becomes of the orders.                                             *)

Deliver(o) ==
    /\ order[o].status = "placed"
    /\ order' = [order EXCEPT ![o].status = "delivered"]
    /\ UNCHANGED <<stockVars, cartVars, walletVars, charge, overwritten, overrides, call>>

\* The customer, the seller, an admin or a timeout cancels the order, and what follows is in
\* no transaction with it: compensateOrderCancellation.
CancelOrder(t, o) ==
    /\ At(t, "idle")
    /\ order[o].status = "placed"
    /\ order' = [order EXCEPT ![o].status = "cancelled"]
    /\ Step(t, [Idle EXCEPT !.pc = "compensate", !.ord = o], {})
    /\ UNCHANGED <<stockVars, cartVars, walletVars, charge, overwritten, overrides>>

Compensate(t, o) ==
    /\ At(t, "compensate") /\ call[t].ord = o
    /\ IF order[o].released THEN Step(t, Idle, {})
                            ELSE Step(t, [call[t] EXCEPT !.pc = "release"], {})
    /\ UNCHANGED <<stockVars, cartVars, walletVars, order, charge, overwritten, overrides>>

\* The order's units are added to the stock.
ReturnUnits(o) ==
    /\ stock' = stock + order[o].units
    /\ returned' = returned + order[o].units

\* releaseReservedStockForOrder, and the same write of updateOrderStatus.
ReleaseStock(t, o) ==
    /\ At(t, "release") \/ At(t, "restock")
    /\ call[t].ord = o
    /\ ReturnUnits(o)
    /\ Step(t, [call[t] EXCEPT !.pc = IF @ = "release" THEN "mark" ELSE "overwrite"], {"stock"})
    /\ UNCHANGED <<cartVars, walletVars, order, charge, overwritten, overrides>>

MarkReleased(t, o) ==
    /\ At(t, "mark") /\ call[t].ord = o
    /\ order' = [order EXCEPT ![o].released = TRUE]
    /\ Step(t, Idle, {})
    /\ UNCHANGED <<stockVars, cartVars, walletVars, charge, overwritten, overrides>>

\* A failed payment cancels the order and returns its units in one transaction.
FailPayment(o) ==
    /\ order[o].status = "placed"
    /\ order' = [order EXCEPT ![o].status = "cancelled", ![o].released = TRUE]
    /\ IF order[o].released THEN UNCHANGED <<stockVars, call>>
                            ELSE ReturnUnits(o) /\ call' = Aged({"stock"})
    /\ UNCHANGED <<cartVars, walletVars, charge, overwritten, overrides>>

\* updateOrderStatus of a seller or an admin: the units go back whatever the reservation
\* says, and then the status is saved whatever it is by then.
LoadOverride(t, o) ==
    /\ At(t, "idle")
    /\ order[o].status \in {"placed", "delivered"}
    /\ overrides < MaxOverrides
    /\ overrides' = overrides + 1
    /\ Step(t, [Idle EXCEPT !.pc = "restock", !.ord = o], {})
    /\ UNCHANGED <<stockVars, cartVars, walletVars, order, charge, overwritten>>

SaveOverride(t, o) ==
    /\ At(t, "overwrite") /\ call[t].ord = o
    /\ order' = [order EXCEPT ![o].status = "cancelled"]
    /\ Step(t, Idle, {})
    /\ UNCHANGED <<stockVars, cartVars, walletVars, charge, overwritten, overrides>>

\* A cancelled order goes on: by an override, or a search for a rider that had loaded it
\* before (SaveSearch of OrderWorkflow).
Revive(o) ==
    /\ order[o].status = "cancelled"
    /\ overrides < MaxOverrides
    /\ overrides' = overrides + 1
    /\ order' = [order EXCEPT ![o].status = "placed"]
    /\ UNCHANGED <<stockVars, cartVars, walletVars, charge, overwritten, call>>

\* completeReturnAndRefund, of a delivered order, reads the customer and saves the balance,
\* in no transaction.
LoadCustomer(t, o) ==
    /\ At(t, "idle")
    /\ order[o].status = "delivered"
    /\ refunds < MaxRefunds
    /\ Step(t, [Idle EXCEPT !.pc = "save", !.seen = wallet], {})
    /\ UNCHANGED <<stockVars, cartVars, walletVars, order, charge, overwritten, overrides>>

SaveCustomer(t) ==
    /\ At(t, "save")
    /\ refunds < MaxRefunds
    /\ refunds' = refunds + 1
    /\ wallet' = call[t].seen + 1
    /\ overwritten' = overwritten \cup (IF wallet = call[t].seen THEN {} ELSE {"user"})
    /\ Step(t, Idle, {"user"})
    /\ UNCHANGED <<stockVars, cartVars, order, charge, overrides>>

-----------------------------------------------------------------------------

Next ==
    \/ \E c \in Charges : CreateCharge(c) \/ WaiveCharge(c)
    \/ \E o \in Orders : Deliver(o) \/ FailPayment(o) \/ Revive(o)
    \/ \E t \in Calls :
          \/ LoadCart(t) \/ SaveCart(t)
          \/ BeginOrder(t) \/ Look(t) \/ PlaceOrder(t) \/ Fail(t)
          \/ SaveCustomer(t)
          \/ \E c \in Charges : Recover(t, c) \/ Release(t, c)
          \/ \E o \in Orders :
                \/ LookDelivered(t, o) \/ LoadCustomer(t, o)
                \/ CancelOrder(t, o) \/ Compensate(t, o) \/ ReleaseStock(t, o)
                \/ MarkReleased(t, o) \/ LoadOverride(t, o) \/ SaveOverride(t, o)

Spec == Init /\ [][Next]_vars

-----------------------------------------------------------------------------
(* Properties.                                                             *)

\* The sum of amount[o], at most bound each, over the orders: a sum is a number of pairs.
Total(amount, bound) ==
    Cardinality({p \in Orders \X (1..bound) : p[2] <= amount[p[1]]})

OrderUnits == [o \in Orders |-> order[o].units]
TakenUnits == [o \in Orders |-> order[o].taken]
PaidAmounts == [o \in Orders |-> order[o].paid]

\* Checkouts at the same time do not sell a unit twice, also while cancellations of all
\* kinds return units: each unit that left the stock is an order's, and each that came back
\* is one that a cancellation returned.  (Whether it returned them once is StockFollowsCancel
\* of OrderWorkflow.)
NoOversell == stock >= 0 /\ stock + Total(OrderUnits, MaxUnits) = Stock + returned

\* However many times and from however many windows an order is placed, no order takes what
\* another one took, and an addition that was begun before does not bring it back.  Nor is
\* anything lost, but for additions that wrote over another addition.
TakenOnce ==
    /\ cart + Total(TakenUnits, MaxUnits) <= added
    /\ "cart" \notin overwritten => cart + Total(TakenUnits, MaxUnits) = added

\* The wallet is not overdrawn, and it is debited for orders only.  No order is paid from
\* it for nothing, but for the payments that a refund wrote over.
WalletCovers ==
    /\ wallet >= 0
    /\ wallet + Total(PaidAmounts, MaxPay) >= Funds
    /\ "user" \notin overwritten => wallet + Total(PaidAmounts, MaxPay) = Funds + refunds

\* A charge that is applied to an order, or was recovered through it, is part of what the
\* customer pays for that order.
AppliedIsCarried ==
    \A c \in Charges : charge[c].status \in {"APPLIED", "RECOVERED"} =>
        charge[c].order \in Orders /\ c \in order[charge[c].order].carried

\* A charge that was recovered or waived is not claimed, recovered or released again by a
\* reconciliation or a checkout that read it before.
SettledIsFinal ==
    [][\A c \in Charges :
          charge[c].status \in {"RECOVERED", "WAIVED"} => charge'[c] = charge[c]]_vars
=============================================================================
