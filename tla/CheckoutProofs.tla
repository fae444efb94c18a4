--------------------------- MODULE CheckoutProofs ---------------------------
(***************************************************************************)
(* Stock, cart, wallet and charges of Checkout, proved for every number of *)
(* requests, orders and charges.  Sums over the orders are numbers of      *)
(* pairs, so the theorems on finite sets count them.  The charges need the *)
(* snapshots: one that was pending when a checkout began is so still,      *)
(* unless the checkout knows that it was written.                          *)
(***************************************************************************)
EXTENDS Checkout, FiniteSetTheorems, TLAPS

Documents == {"user", "cart", "version", "stock"} \cup Charges

-----------------------------------------------------------------------------
(* Sums.                                                                   *)

Pairs(amount, bound) == {p \in Orders \X (1..bound) : p[2] <= amount[p[1]]}

LEMMA PairsFinite ==
  ASSUME NEW amount, NEW bound \in Nat
  PROVE  IsFiniteSet(Pairs(amount, bound)) /\ Total(amount, bound) \in Nat
  <1>1. IsFiniteSet(1..bound)
    BY FS_Interval
  <1>2. IsFiniteSet(Orders \X (1..bound))
    BY <1>1, CheckoutAssumption, FS_Product
  <1>3. Pairs(amount, bound) \in SUBSET (Orders \X (1..bound))
    BY DEF Pairs
  <1>4. IsFiniteSet(Pairs(amount, bound))
    BY <1>2, <1>3, FS_Subset
  <1> QED
    BY <1>4, FS_CardinalityType DEF Total, Pairs

\* The pairs of one order.
LEMMA OwnPairs ==
  ASSUME NEW o, NEW n \in Nat
  PROVE  IsFiniteSet({o} \X (1..n)) /\ Cardinality({o} \X (1..n)) = n
  <1> DEFINE f == [i \in 1..n |-> <<o, i>>]
  <1>1. f \in Bijection(1..n, {o} \X (1..n))
    <2>1. f \in [1..n -> {o} \X (1..n)]
      OBVIOUS
    <2>2. \A i, j \in 1..n : f[i] = f[j] => i = j
      OBVIOUS
    <2>3. \A p \in {o} \X (1..n) : \E i \in 1..n : f[i] = p
      OBVIOUS
    <2> QED
      BY <2>1, <2>2, <2>3 DEF Bijection, Injection, Surjection, IsInjective
  <1>2. IsFiniteSet(1..n) /\ Cardinality(1..n) = n
    BY FS_Interval
  <1> QED
    BY <1>1, <1>2, FS_Bijection DEF ExistsBijection

\* What a sum becomes when one order's part of it changes.
LEMMA TotalChange ==
  ASSUME NEW bound \in Nat, NEW f \in [Orders -> 0..bound], NEW o \in Orders,
         NEW n \in 0..bound, NEW g, g = [f EXCEPT ![o] = n]
  PROVE  Total(g, bound) = Total(f, bound) - f[o] + n
  <1> DEFINE Rest == {p \in Pairs(f, bound) : p[1] # o}
  <1>1. IsFiniteSet(Rest)
    BY PairsFinite, FS_Subset
  <1>2. ASSUME NEW h \in [Orders -> 0..bound],
               \A q \in Orders \ {o} : h[q] = f[q]
        PROVE  Total(h, bound) = Cardinality(Rest) + h[o]
    <2>0. h[o] \in Nat /\ h[o] <= bound
      <3>1. h[o] \in 0..bound
        BY <1>2
      <3> QED
        BY <3>1
    <2>1. Pairs(h, bound) = Rest \cup ({o} \X (1..h[o]))
      <3>1. ASSUME NEW q \in Orders, NEW i \in 1..bound
            PROVE  <<q, i>> \in Pairs(h, bound)
                      <=> <<q, i>> \in Rest \cup ({o} \X (1..h[o]))
        <4>1. <<q, i>> \in Pairs(h, bound) <=> i <= h[q]
          BY DEF Pairs
        <4>2. <<q, i>> \in Rest <=> q # o /\ i <= f[q]
          BY DEF Pairs
        <4>3. <<q, i>> \in {o} \X (1..h[o]) <=> q = o /\ i <= h[o]
          OBVIOUS
        <4> QED
          BY <1>2, <4>1, <4>2, <4>3
      <3>2. Pairs(h, bound) \subseteq Orders \X (1..bound) /\ Rest \subseteq Orders \X (1..bound)
        BY DEF Pairs
      <3>3. {o} \X (1..h[o]) \subseteq Orders \X (1..bound)
        BY <2>0
      <3> HIDE DEF Rest
      <3> QED
        BY <3>1, <3>2, <3>3
    <2>2. Rest \cap ({o} \X (1..h[o])) = {}
      OBVIOUS
    <2>3. /\ IsFiniteSet({o} \X (1..h[o]))
          /\ Cardinality({o} \X (1..h[o])) = h[o]
      BY <2>0, OwnPairs
    <2>4. Cardinality(Rest) \in Nat /\ Cardinality({}) = 0
      BY <1>1, FS_CardinalityType, FS_EmptySet
    <2>5. Cardinality(Rest \cup ({o} \X (1..h[o])))
             = Cardinality(Rest) + h[o] - Cardinality(Rest \cap ({o} \X (1..h[o])))
      BY <1>1, <2>3, FS_Union
    <2>6. Total(h, bound) = Cardinality(Pairs(h, bound))
      BY DEF Total, Pairs
    <2> DEFINE Own == {o} \X (1..h[o])
    <2>7. Total(h, bound) = Cardinality(Rest \cup Own)
      BY <2>1, <2>6
    <2>8. Cardinality(Rest \cap Own) = 0
      BY <2>2, <2>4
    <2>9. Cardinality(Rest \cup Own) = Cardinality(Rest) + h[o] - Cardinality(Rest \cap Own)
      BY <2>5
    <2> HIDE DEF Rest, Own
    <2> QED
      BY <2>0, <2>4, <2>7, <2>8, <2>9
  <1>3. Total(f, bound) = Cardinality(Rest) + f[o]
    BY <1>2
  <1>4. g \in [Orders -> 0..bound] /\ g[o] = n /\ \A q \in Orders \ {o} : g[q] = f[q]
    OBVIOUS
  <1>5. Total(g, bound) = Cardinality(Rest) + n
    BY <1>2, <1>4
  <1>6. Cardinality(Rest) \in Nat
    BY <1>1, FS_CardinalityType
  <1> QED
    BY <1>3, <1>5, <1>6

\* A sum of nothing.
LEMMA TotalOfNone ==
  ASSUME NEW bound \in Nat, NEW f, \A o \in Orders : f[o] = 0
  PROVE  Total(f, bound) = 0
  <1>1. Pairs(f, bound) = {}
    BY DEF Pairs
  <1> QED
    BY <1>1, FS_EmptySet DEF Total, Pairs

-----------------------------------------------------------------------------
(* The inductive invariant.                                                *)

\* What the orders have taken from the wallet.
Paid == Total(PaidAmounts, MaxPay)

\* What the orders have left of what was put in the cart.
Room == added - Total(TakenUnits, MaxUnits)

\* What a request with record r relies on, when the charges are ch, the orders have paid sum
\* and left room: a charge that was pending in its snapshot is pending, unless the request
\* knows that it was written, a balance that it read covers what was paid since, and the
\* units of a cart that it read have not been taken, unless it knows of a new version.
Safe(r, ch, sum, room) ==
    /\ r.due # {} => r.placing
    /\ \A c \in r.due \ r.stale : ch[c].status = "PENDING"
    /\ r.pc = "save" => r.seen >= 0 /\ r.seen + sum >= Funds
    /\ r.pc = "add" => ~r.placing
    /\ r.pc = "add" /\ r.seen > 0 /\ "version" \notin r.stale => r.seen <= room

CallsSafe == \A t \in Calls : Safe(call[t], charge, Paid, Room)

\* An order that is not placed takes part in no sum and carries nothing.
UnplacedIsEmpty ==
    \A o \in Orders : order[o].status = "none" =>
        order[o].units = 0 /\ order[o].taken = 0 /\ order[o].paid = 0 /\ order[o].carried = {}

Books == NoOversell /\ TakenOnce /\ WalletCovers /\ AppliedIsCarried /\ UnplacedIsEmpty

IInv == TypeOK /\ Books /\ CallsSafe

\* Charges that were recovered or waived do not change in this step.
SettledKept ==
    \A c \in Charges : charge[c].status \in {"RECOVERED", "WAIVED"} => charge'[c] = charge[c]

\* All but the calls.
DataType ==
    /\ stock \in Int
    /\ wallet \in Int
    /\ cart \in 0..MaxUnits
    /\ added \in 0..MaxUnits
    /\ order \in [Orders -> OrderDocs]
    /\ charge \in [Charges -> ChargeDocs]
    /\ returned \in Nat
    /\ refunds \in 0..MaxRefunds
    /\ overwritten \subseteq {"user", "cart"}
    /\ overrides \in 0..MaxOverrides

LEMMA Bounds ==
  /\ MaxUnits \in Nat /\ MaxPay \in Nat /\ Stock \in Nat /\ Funds \in Nat
  /\ MaxRefunds \in Nat /\ MaxOverrides \in Nat
  BY CheckoutAssumption, FS_CardinalityType DEF MaxPay

LEMMA Amounts ==
  ASSUME order \in [Orders -> OrderDocs]
  PROVE  /\ OrderUnits \in [Orders -> 0..MaxUnits]
         /\ TakenUnits \in [Orders -> 0..MaxUnits]
         /\ PaidAmounts \in [Orders -> 0..MaxPay]
         /\ Total(OrderUnits, MaxUnits) \in Nat
         /\ Total(TakenUnits, MaxUnits) \in Nat
         /\ Paid \in Nat
  <1>1. \A o \in Orders : /\ order[o].units \in 0..MaxUnits
                          /\ order[o].taken \in 0..MaxUnits
                          /\ order[o].paid \in 0..MaxPay
    BY DEF OrderDocs
  <1> QED
    BY <1>1, Bounds, PairsFinite DEF OrderUnits, TakenUnits, PaidAmounts, Paid

-----------------------------------------------------------------------------
(* The calls.                                                              *)

\* The step says which of the pending charges it writes, no order pays less after it, and
\* none takes more of the cart unless the cart has a new version.
Covered(docs) ==
    /\ \A c \in Charges \ docs : charge[c].status = "PENDING" => charge'[c].status = "PENDING"
    /\ Paid' \in Nat /\ Paid' >= Paid
    /\ Room' \in Int /\ ("version" \notin docs => Room' >= Room)

LEMMA RoomType == ASSUME TypeOK PROVE Room \in Int /\ Paid \in Nat
  <1>1. added \in Int /\ Total(TakenUnits, MaxUnits) \in Nat /\ Paid \in Nat
    BY Amounts, Bounds DEF TypeOK
  <1> QED
    BY <1>1 DEF Room

LEMMA AgedCall ==
  ASSUME IInv, NEW docs \in SUBSET Documents, Covered(docs), NEW u \in Calls
  PROVE  /\ Aged(docs)[u] \in CallRecords
         /\ Safe(Aged(docs)[u], charge', Paid', Room')
         /\ Aged(docs)[u].pc = call[u].pc
  <1>1. call[u] \in CallRecords /\ Safe(call[u], charge, Paid, Room)
    BY DEF IInv, TypeOK, CallsSafe
  <1>2. Paid \in Nat /\ Room \in Int
    BY RoomType DEF IInv
  <1> DEFINE heard == docs \cap Watches(call[u])
             r == [call[u] EXCEPT !.stale = @ \cup heard]
  <1>3. Aged(docs)[u] = r
    BY DEF Aged
  <1>4. heard \subseteq docs /\ heard \subseteq Documents
    OBVIOUS
  <1>5. call[u].placing => \A c \in call[u].due \cap docs : c \in heard
    BY DEF Watches
  <1>6. ~call[u].placing /\ call[u].pc = "add" /\ call[u].seen > 0 /\ "version" \in docs
          => "version" \in heard
    BY DEF Watches
  <1> HIDE DEF heard
  <1>7. /\ r \in CallRecords
        /\ r.due = call[u].due /\ r.placing = call[u].placing /\ r.pc = call[u].pc
        /\ r.seen = call[u].seen /\ r.stale = call[u].stale \cup heard
    BY <1>1, <1>4 DEF CallRecords, Documents
  <1>8. call[u].due \subseteq Charges /\ call[u].seen \in Int
    BY <1>1 DEF CallRecords
  <1> HIDE DEF r
  <1>9. Safe(r, charge', Paid', Room')
    <2>1. r.due # {} => r.placing
      BY <1>1, <1>7 DEF Safe
    <2>2. \A c \in r.due \ r.stale : charge'[c].status = "PENDING"
      BY <1>1, <1>5, <1>7, <1>8, <2>1 DEF Safe, Covered
    <2>3. r.pc = "save" => r.seen >= 0 /\ r.seen + Paid' >= Funds
      BY <1>1, <1>2, <1>7, <1>8, Bounds DEF Safe, Covered
    <2>4. r.pc = "add" => ~r.placing
      BY <1>1, <1>7 DEF Safe
    <2>5. r.pc = "add" /\ r.seen > 0 /\ "version" \notin r.stale => r.seen <= Room'
      BY <1>1, <1>2, <1>6, <1>7, <1>8, <2>4 DEF Safe, Covered
    <2> QED
      BY <2>1, <2>2, <2>3, <2>4, <2>5 DEF Safe
  <1> QED
    BY <1>3, <1>7, <1>9

\* One request goes on, the others learn what was written.
LEMMA CallStep ==
  ASSUME IInv, NEW docs \in SUBSET Documents, Covered(docs), NEW t \in Calls,
         NEW r \in CallRecords, Safe(r, charge', Paid', Room'), Step(t, r, docs)
  PROVE  call' \in [Calls -> CallRecords] /\ CallsSafe'
  <1>1. \A u \in Calls : call'[u] = IF u = t THEN r ELSE Aged(docs)[u]
    BY DEF Step, Aged
  <1>2. \A u \in Calls : call'[u] \in CallRecords /\ Safe(call'[u], charge', Paid', Room')
    BY <1>1, AgedCall
  <1>3. DOMAIN call' = Calls /\ call' = [u \in Calls |-> call'[u]]
    BY DEF Step, Aged
  <1> QED
    BY <1>2, <1>3 DEF CallsSafe

LEMMA CallsAge ==
  ASSUME IInv, NEW docs \in SUBSET Documents, Covered(docs), call' = Aged(docs)
  PROVE  call' \in [Calls -> CallRecords] /\ CallsSafe'
  <1>1. \A u \in Calls : call'[u] \in CallRecords /\ Safe(call'[u], charge', Paid', Room')
    BY AgedCall
  <1>2. call' = [u \in Calls |-> call'[u]]
    BY DEF Aged
  <1> QED
    BY <1>1, <1>2 DEF CallsSafe

LEMMA CallsStay ==
  ASSUME IInv, Covered({}), UNCHANGED call
  PROVE  call' \in [Calls -> CallRecords] /\ CallsSafe'
  <1>1. ASSUME NEW u \in Calls
        PROVE  Safe(call[u], charge', Paid', Room')
    <2>1. call[u] \in CallRecords /\ Safe(call[u], charge, Paid, Room)
          /\ Paid \in Nat /\ Room \in Int
      BY RoomType DEF IInv, TypeOK, CallsSafe
    <2>2. call[u].due \subseteq Charges /\ call[u].seen \in Int
      BY <2>1 DEF CallRecords
    <2> QED
      BY <2>1, <2>2, Bounds DEF Safe, Covered
  <1> QED
    BY <1>1 DEF CallsSafe, IInv, TypeOK

LEMMA IdleSafe ==
  ASSUME NEW ch, NEW sum, NEW room
  PROVE  Idle \in CallRecords /\ Safe(Idle, ch, sum, room)
  BY DEF Idle, CallRecords, Safe

LEMMA ReconciledSafe ==
  ASSUME NEW r \in CallRecords, NEW ch, NEW sum, NEW room,
         r.due # {} => r.placing, \A c \in r.due \ r.stale : ch[c].status = "PENDING"
  PROVE  Reconciled(r) \in CallRecords /\ Safe(Reconciled(r), ch, sum, room)
  <1>1. [r EXCEPT !.pc = "act"] \in CallRecords /\ [r EXCEPT !.pc = "commit"] \in CallRecords
    BY DEF CallRecords
  <1>2. /\ Safe([r EXCEPT !.pc = "act"], ch, sum, room)
        /\ Safe([r EXCEPT !.pc = "commit"], ch, sum, room)
    BY DEF CallRecords, Safe
  <1> QED
    BY <1>1, <1>2, IdleSafe DEF Reconciled

-----------------------------------------------------------------------------
(* The steps.                                                              *)

bookVars == <<stockVars, cartVars, walletVars, overwritten>>

\* A step that touches only the charges and the calls.  No charge becomes one that an
\* order pays, and none that was recovered or waived changes.
LEMMA ChargeStep ==
  ASSUME IInv, UNCHANGED <<bookVars, order>>, overrides' \in 0..MaxOverrides,
         charge' \in [Charges -> ChargeDocs],
         \A c \in Charges : charge'[c].status \in {"APPLIED", "RECOVERED"} =>
             /\ charge[c].status \in {"APPLIED", "RECOVERED"}
             /\ charge'[c].order = charge[c].order
  PROVE  DataType' /\ Books' /\ Paid' = Paid /\ Paid \in Nat /\ Room' = Room /\ Room \in Int
  <1> USE DEF bookVars, stockVars, cartVars, walletVars
  <1>1. OrderUnits' = OrderUnits /\ TakenUnits' = TakenUnits /\ PaidAmounts' = PaidAmounts
    BY DEF OrderUnits, TakenUnits, PaidAmounts
  <1>2. NoOversell' /\ TakenOnce' /\ WalletCovers' /\ UnplacedIsEmpty'
    BY <1>1 DEF IInv, Books, NoOversell, TakenOnce, WalletCovers, UnplacedIsEmpty, MaxPay, Total
  <1>3. Paid' = Paid /\ Room' = Room
    BY <1>1 DEF Paid, Room, MaxPay, Total
  <1>4. AppliedIsCarried'
    BY DEF IInv, Books, AppliedIsCarried
  <1>5. DataType'
    BY DEF IInv, TypeOK, DataType
  <1> QED
    BY <1>2, <1>3, <1>4, <1>5, RoomType DEF Books, IInv

LEMMA Assemble ==
  ASSUME DataType', Books', call' \in [Calls -> CallRecords] /\ CallsSafe'
  PROVE  IInv'
  BY DEF DataType, TypeOK, IInv

LEMMA ChargesStep ==
  ASSUME IInv, NEW c \in Charges, CreateCharge(c) \/ WaiveCharge(c)
  PROVE  IInv' /\ SettledKept
  <1>1. UNCHANGED <<bookVars, order>> /\ overrides' \in 0..MaxOverrides
    BY DEF CreateCharge, WaiveCharge, bookVars, stockVars, cartVars, walletVars, IInv, TypeOK
  <1>2. charge \in [Charges -> ChargeDocs]
    BY DEF IInv, TypeOK
  <1>3. CASE CreateCharge(c)
    <2>1. charge' = [charge EXCEPT ![c].status = "PENDING"] /\ UNCHANGED call
          /\ charge[c].status = "none"
      BY <1>3 DEF CreateCharge
    <2>2. /\ charge' \in [Charges -> ChargeDocs]
          /\ charge'[c].status = "PENDING"
          /\ \A d \in Charges \ {c} : charge'[d] = charge[d]
      BY <1>2, <2>1 DEF ChargeDocs
    <2>3. DataType' /\ Books' /\ Paid' = Paid /\ Paid \in Nat /\ Room' = Room /\ Room \in Int
      BY <1>1, <2>2, ChargeStep
    <2>4. Covered({})
      BY <2>2, <2>3 DEF Covered
    <2> QED
      BY <2>1, <2>2, <2>3, <2>4, CallsStay, Assemble DEF SettledKept
  <1>4. CASE WaiveCharge(c)
    <2>1. charge' = [charge EXCEPT ![c].status = "WAIVED"] /\ call' = Aged({c})
          /\ charge[c].status = "PENDING"
      BY <1>4 DEF WaiveCharge
    <2>2. /\ charge' \in [Charges -> ChargeDocs]
          /\ charge'[c].status = "WAIVED"
          /\ \A d \in Charges \ {c} : charge'[d] = charge[d]
      BY <1>2, <2>1 DEF ChargeDocs
    <2>3. DataType' /\ Books' /\ Paid' = Paid /\ Paid \in Nat /\ Room' = Room /\ Room \in Int
      BY <1>1, <2>2, ChargeStep
    <2>4. Covered({c}) /\ {c} \in SUBSET Documents
      BY <2>2, <2>3 DEF Covered, Documents
    <2> QED
      BY <2>1, <2>2, <2>3, <2>4, CallsAge, Assemble DEF SettledKept
  <1> QED
    BY <1>3, <1>4

\* A request that goes on as r and writes nothing.
LEMMA QuietStep ==
  ASSUME IInv, NEW t \in Calls, NEW r \in CallRecords, Step(t, r, {}),
         Safe(r, charge, Paid, Room), UNCHANGED <<bookVars, order, charge>>,
         overrides' \in 0..MaxOverrides
  PROVE  IInv' /\ SettledKept
  <1>1. charge' \in [Charges -> ChargeDocs]
    BY DEF IInv, TypeOK
  <1>2. DataType' /\ Books' /\ Paid' = Paid /\ Paid \in Nat /\ Room' = Room /\ Room \in Int
    BY <1>1, ChargeStep
  <1>3. Covered({}) /\ {} \in SUBSET Documents
    BY <1>2 DEF Covered
  <1>4. Safe(r, charge', Paid', Room')
    BY <1>2
  <1>5. call' \in [Calls -> CallRecords] /\ CallsSafe'
    BY <1>3, <1>4, CallStep
  <1> QED
    BY <1>2, <1>5, Assemble DEF SettledKept

LEMMA LookStep ==
  ASSUME IInv, NEW t \in Calls,
         Look(t) \/ (\E o \in Orders : LookDelivered(t, o)) \/ Fail(t) \/ BeginOrder(t)
  PROVE  IInv' /\ SettledKept
  <1>0. /\ call[t] \in CallRecords /\ Safe(call[t], charge, Paid, Room)
        /\ UNCHANGED <<bookVars, order, charge>> /\ overrides' \in 0..MaxOverrides
    BY DEF Look, LookDelivered, Fail, BeginOrder, bookVars, IInv, TypeOK, CallsSafe
  <1>1. CASE Look(t)
    <2> DEFINE r == [call[t] EXCEPT !.recover = CarriedBy({"delivered"}),
                                    !.release = CarriedBy({"cancelled"})]
    <2>1. CarriedBy({"delivered"}) \subseteq Charges /\ CarriedBy({"cancelled"}) \subseteq Charges
      BY DEF CarriedBy, AppliedTo
    <2>2. r \in CallRecords /\ r.due = call[t].due /\ r.placing = call[t].placing
          /\ r.stale = call[t].stale
      BY <1>0, <2>1 DEF CallRecords
    <2>3. Step(t, Reconciled(r), {})
      BY <1>1 DEF Look
    <2> HIDE DEF r
    <2>4. /\ r \in CallRecords
          /\ r.due # {} => r.placing
          /\ \A c \in r.due \ r.stale : charge[c].status = "PENDING"
      BY <1>0, <2>2 DEF Safe
    <2>5. Reconciled(r) \in CallRecords /\ Safe(Reconciled(r), charge, Paid, Room)
      BY <2>4, ReconciledSafe
    <2> QED
      BY <1>0, <2>3, <2>5, QuietStep
  <1>2. ASSUME NEW o \in Orders, LookDelivered(t, o)
        PROVE  IInv' /\ SettledKept
    <2> DEFINE r == [Idle EXCEPT !.recover = AppliedTo(o)]
    <2>1. r \in CallRecords /\ r.due = {}
      <3>1. AppliedTo(o) \in SUBSET Charges
        BY DEF AppliedTo
      <3>2. r \in CallRecords
        BY <3>1, IdleSafe DEF CallRecords
      <3> QED
        BY <3>2 DEF Idle
    <2>2. Step(t, Reconciled(r), {})
      BY <1>2 DEF LookDelivered
    <2> HIDE DEF r
    <2>3. Reconciled(r) \in CallRecords /\ Safe(Reconciled(r), charge, Paid, Room)
      BY <2>1, ReconciledSafe
    <2> QED
      BY <1>0, <2>2, <2>3, QuietStep
  <1>3. CASE Fail(t)
    BY <1>0, <1>3, IdleSafe, QuietStep DEF Fail
  <1>4. CASE BeginOrder(t)
    <2> DEFINE pending == {c \in Charges : charge[c].status = "PENDING"}
               full == cart > 0
               r == [Idle EXCEPT !.pc = "look", !.placing = TRUE, !.full = full, !.due = pending]
    <2>1. /\ full \in BOOLEAN /\ pending \in SUBSET Charges
          /\ \A c \in pending : charge[c].status = "PENDING"
      OBVIOUS
    <2> HIDE DEF pending, full
    <2>2. r \in CallRecords
      BY <2>1, IdleSafe DEF CallRecords
    <2>3. Safe(r, charge, Paid, Room)
      BY <2>1 DEF Safe, Idle
    <2>4. Step(t, r, {})
      BY <1>4 DEF BeginOrder, pending, full
    <2> HIDE DEF r
    <2> QED
      BY <1>0, <2>2, <2>3, <2>4, QuietStep
  <1> QED
    BY <1>1, <1>2, <1>3, <1>4

\* A request reads the wallet, the cart or an order that is being cancelled.
LEMMA LoadStep ==
  ASSUME IInv, NEW t \in Calls,
         \/ LoadCart(t)
         \/ \E o \in Orders : LoadCustomer(t, o) \/ Compensate(t, o) \/ LoadOverride(t, o)
  PROVE  IInv' /\ SettledKept
  <1>0. /\ call[t] \in CallRecords /\ Safe(call[t], charge, Paid, Room)
        /\ UNCHANGED <<bookVars, order, charge>> /\ overrides' \in 0..MaxOverrides
    <2>1. overrides \in 0..MaxOverrides
      BY DEF IInv, TypeOK
    <2>2. overrides' = overrides \/ (overrides < MaxOverrides /\ overrides' = overrides + 1)
      BY DEF LoadCustomer, LoadCart, Compensate, LoadOverride
    <2>3. overrides' \in 0..MaxOverrides
      BY <2>1, <2>2, Bounds
    <2>4. UNCHANGED <<bookVars, order, charge>>
      BY DEF LoadCustomer, LoadCart, Compensate, LoadOverride, bookVars
    <2> QED
      BY <2>3, <2>4 DEF IInv, TypeOK, CallsSafe
  <1>1. ASSUME NEW o \in Orders, LoadCustomer(t, o)
        PROVE  IInv' /\ SettledKept
    <2> DEFINE r == [Idle EXCEPT !.pc = "save", !.seen = wallet]
    <2>1. wallet \in Int /\ wallet >= 0 /\ wallet + Paid >= Funds
      BY DEF IInv, TypeOK, Books, WalletCovers, Paid
    <2>2. r \in CallRecords
      BY <2>1, IdleSafe DEF CallRecords
    <2>3. Safe(r, charge, Paid, Room)
      BY <2>1 DEF Safe, Idle
    <2>4. Step(t, r, {})
      BY <1>1 DEF LoadCustomer
    <2> HIDE DEF r
    <2> QED
      BY <1>0, <2>2, <2>3, <2>4, QuietStep
  <1>2. CASE LoadCart(t)
    <2> DEFINE r == [Idle EXCEPT !.pc = "add", !.seen = cart]
    <2>1. cart \in Int /\ cart <= Room
      <3>1. /\ cart \in Int /\ added \in Int /\ Total(TakenUnits, MaxUnits) \in Nat
            /\ cart + Total(TakenUnits, MaxUnits) <= added
        BY Bounds, Amounts DEF IInv, TypeOK, Books, TakenOnce
      <3> QED
        BY <3>1 DEF Room
    <2>2. r \in CallRecords
      BY <2>1, IdleSafe DEF CallRecords
    <2>3. Safe(r, charge, Paid, Room)
      BY <2>1 DEF Safe, Idle
    <2>4. Step(t, r, {})
      BY <1>2 DEF LoadCart
    <2> HIDE DEF r
    <2> QED
      BY <1>0, <2>2, <2>3, <2>4, QuietStep
  <1>3. ASSUME NEW o \in Orders, Compensate(t, o)
        PROVE  IInv' /\ SettledKept
    <2> DEFINE r == [call[t] EXCEPT !.pc = "release"]
    <2>1. r \in CallRecords /\ Safe(r, charge, Paid, Room)
      BY <1>0 DEF CallRecords, Safe
    <2>2. Step(t, r, {}) \/ Step(t, Idle, {})
      BY <1>3 DEF Compensate
    <2> HIDE DEF r
    <2> QED
      BY <1>0, <2>1, <2>2, IdleSafe, QuietStep
  <1>4. ASSUME NEW o \in Orders, LoadOverride(t, o)
        PROVE  IInv' /\ SettledKept
    <2> DEFINE r == [Idle EXCEPT !.pc = "restock", !.ord = o]
    <2>1. r \in CallRecords
      BY IdleSafe DEF CallRecords
    <2>2. Safe(r, charge, Paid, Room)
      BY DEF Safe, Idle
    <2>3. Step(t, r, {})
      BY <1>4 DEF LoadOverride
    <2> HIDE DEF r
    <2> QED
      BY <1>0, <2>1, <2>2, <2>3, QuietStep
  <1> QED
    BY <1>1, <1>2, <1>3, <1>4

\* One charge of a reconciliation's decisions.
LEMMA ActStep ==
  ASSUME IInv, NEW t \in Calls, NEW c \in Charges, Recover(t, c) \/ Release(t, c)
  PROVE  IInv' /\ SettledKept
  <1> DEFINE docs == IF Held(c) THEN {c} ELSE {}
             old == Aged(docs)[t]
  <1>1. docs \in SUBSET Documents
    BY DEF Documents
  <1>2. UNCHANGED <<bookVars, order>> /\ overrides' \in 0..MaxOverrides
    BY DEF Recover, Release, bookVars, stockVars, cartVars, walletVars, IInv, TypeOK
  <1>3. /\ charge' \in [Charges -> ChargeDocs]
        /\ \A d \in Charges \ docs : charge'[d] = charge[d]
        /\ \A d \in docs : /\ charge[d].status = "APPLIED"
                           /\ \/ charge'[d].status = "PENDING"
                              \/ charge'[d].status = "RECOVERED" /\ charge'[d].order = charge[d].order
    BY DEF IInv, TypeOK, Recover, Release, ChargeDocs, Held
  <1>4. DataType' /\ Books' /\ Paid' = Paid /\ Paid \in Nat /\ Room' = Room /\ Room \in Int
    BY <1>2, <1>3, ChargeStep
  <1>5. Covered(docs)
    BY <1>3, <1>4 DEF Covered
  <1>6. old \in CallRecords /\ Safe(old, charge', Paid', Room')
    BY <1>1, <1>5, AgedCall
  <1>7. call[t] \in CallRecords
    BY DEF IInv, TypeOK
  <1>8. \E r \in CallRecords : /\ r.due = old.due /\ r.placing = old.placing /\ r.stale = old.stale
                               /\ Step(t, Reconciled(r), docs)
    <2>1. CASE Recover(t, c)
      <3> DEFINE r == [old EXCEPT !.recover = call[t].recover \ {c}]
      <3>1. r \in CallRecords /\ r.due = old.due /\ r.placing = old.placing /\ r.stale = old.stale
        BY <1>6, <1>7 DEF CallRecords
      <3>2. call' = [Aged(docs) EXCEPT ![t] = Reconciled(r)]
        BY <2>1 DEF Recover
      <3> QED
        BY <3>1, <3>2 DEF Step
    <2>2. CASE Release(t, c)
      <3> DEFINE r == [old EXCEPT !.release = call[t].release \ {c}]
      <3>1. r \in CallRecords /\ r.due = old.due /\ r.placing = old.placing /\ r.stale = old.stale
        BY <1>6, <1>7 DEF CallRecords
      <3>2. call' = [Aged(docs) EXCEPT ![t] = Reconciled(r)]
        BY <2>2 DEF Release
      <3> QED
        BY <3>1, <3>2 DEF Step
    <2> QED
      BY <2>1, <2>2
  <1> HIDE DEF docs, old
  <1>9. PICK r \in CallRecords : /\ r.due = old.due /\ r.placing = old.placing /\ r.stale = old.stale
                                 /\ Step(t, Reconciled(r), docs)
    BY <1>8
  <1>10. Reconciled(r) \in CallRecords /\ Safe(Reconciled(r), charge', Paid', Room')
    BY <1>6, <1>9, ReconciledSafe DEF Safe
  <1>11. call' \in [Calls -> CallRecords] /\ CallsSafe'
    BY <1>1, <1>5, <1>9, <1>10, CallStep
  <1>12. SettledKept
    BY <1>3 DEF SettledKept
  <1> QED
    BY <1>4, <1>11, <1>12, Assemble

\* The line that is saved was read before others were added, but not before any was taken:
\* taking changes the version.
LEMMA CartStep ==
  ASSUME IInv, NEW t \in Calls, SaveCart(t)
  PROVE  IInv' /\ SettledKept
  <1> DEFINE seen == call[t].seen
             total == Total(TakenUnits, MaxUnits)
  <1>1. /\ added' = added + 1 /\ added < MaxUnits /\ call[t].pc = "add"
        /\ UNCHANGED <<stockVars, walletVars, order, charge, overrides>>
        /\ PushLine(t) \/ SetQuantity(t)
    BY DEF SaveCart, At
  <1>2. /\ cart \in Nat /\ added \in Nat /\ total \in Nat /\ Room \in Int /\ Paid \in Nat
        /\ cart + total <= added /\ Room = added - total
        /\ "cart" \notin overwritten => cart + total = added
    BY Bounds, Amounts, RoomType DEF IInv, TypeOK, Books, TakenOnce, Room
  <1>3. OrderUnits' = OrderUnits /\ TakenUnits' = TakenUnits /\ PaidAmounts' = PaidAmounts
    BY <1>1 DEF OrderUnits, TakenUnits, PaidAmounts
  <1>4. total' = total
    BY <1>3 DEF Total
  <1>5. Paid' = Paid /\ Room' = Room + 1
    <2>1. Paid' = Paid
      BY <1>3 DEF Paid, MaxPay, Total
    <2>2. Room' = added' - total'
      BY DEF Room
    <2> HIDE DEF total
    <2> QED
      BY <1>1, <1>2, <1>4, <2>1, <2>2
  <1>6. /\ cart' \in Nat /\ cart' + total <= added'
        /\ overwritten' \subseteq {"user", "cart"}
        /\ "cart" \notin overwritten' => cart' + total = added'
        /\ "user" \in overwritten' <=> "user" \in overwritten
        /\ \E docs \in SUBSET Documents : Step(t, Idle, docs)
    <2>0. overwritten \subseteq {"user", "cart"}
      BY DEF IInv, TypeOK
    <2>1. CASE PushLine(t)
      <3>1. /\ cart' = cart + 1 /\ overwritten' = overwritten
            /\ \E docs \in SUBSET Documents : Step(t, Idle, docs)
        BY <2>1 DEF PushLine, Documents
      <3> HIDE DEF total
      <3> QED
        BY <1>1, <1>2, <2>0, <3>1
    <2>2. CASE SetQuantity(t)
      <3>1. /\ cart' = seen + 1 /\ seen > 0
            /\ overwritten' = overwritten \cup (IF cart = seen THEN {} ELSE {"cart"})
            /\ \E docs \in SUBSET Documents : Step(t, Idle, docs)
        BY <2>2 DEF SetQuantity, Documents
      <3>2. seen \in Int /\ seen <= Room
        BY <1>1, <2>2 DEF SetQuantity, IInv, TypeOK, CallRecords, CallsSafe, Safe
      <3> HIDE DEF total, seen
      <3>3. cart' \in Nat /\ cart' + total <= added'
        BY <1>1, <1>2, <3>1, <3>2
      <3>4. CASE cart = seen
        BY <1>1, <1>2, <2>0, <3>1, <3>3, <3>4
      <3>5. CASE cart # seen
        BY <2>0, <3>1, <3>3, <3>5
      <3> QED
        BY <3>4, <3>5
    <2> QED
      BY <1>1, <2>1, <2>2
  <1> HIDE DEF total, seen
  <1>7. DataType'
    <2>1. cart' \in 0..MaxUnits /\ added' \in 0..MaxUnits
      BY <1>1, <1>2, <1>6, Bounds
    <2> QED
      BY <1>1, <1>6, <2>1 DEF IInv, TypeOK, DataType, stockVars, walletVars
  <1>8. TakenOnce'
    BY <1>4, <1>6 DEF TakenOnce, total
  <1>9. NoOversell' /\ WalletCovers'
    BY <1>1, <1>3, <1>6 DEF IInv, Books, NoOversell, WalletCovers, Total, MaxPay, stockVars,
                            walletVars
  <1>10. AppliedIsCarried' /\ UnplacedIsEmpty'
    BY <1>1 DEF IInv, Books, AppliedIsCarried, UnplacedIsEmpty
  <1>11. \A docs : Covered(docs)
    BY <1>1, <1>2, <1>5 DEF Covered
  <1>12. call' \in [Calls -> CallRecords] /\ CallsSafe'
    BY <1>6, <1>11, IdleSafe, CallStep
  <1> QED
    BY <1>1, <1>7, <1>8, <1>9, <1>10, <1>12, Assemble DEF Books, SettledKept

\* What was ordered stays so, and no order is undone.
ContentsKept ==
    \A q \in Orders :
        /\ order'[q].units = order[q].units /\ order'[q].taken = order[q].taken
        /\ order'[q].paid = order[q].paid /\ order'[q].carried = order[q].carried
        /\ order'[q].status = "none" => order[q].status = "none"

\* Orders that were placed change their status or their mark, and units go back to the stock.
LEMMA OrderStep ==
  ASSUME IInv, UNCHANGED <<cartVars, walletVars, charge, overwritten>>,
         NEW n \in Nat, stock' = stock + n, returned' = returned + n,
         overrides' \in 0..MaxOverrides, order' \in [Orders -> OrderDocs], ContentsKept
  PROVE  DataType' /\ Books' /\ SettledKept /\ Covered({}) /\ Covered({"stock"})
  <1> USE DEF cartVars, walletVars, ContentsKept
  <1>1. OrderUnits' = OrderUnits /\ TakenUnits' = TakenUnits /\ PaidAmounts' = PaidAmounts
    BY DEF OrderUnits, TakenUnits, PaidAmounts
  <1>2. /\ stock \in Int /\ returned \in Nat /\ stock >= 0
        /\ stock + Total(OrderUnits, MaxUnits) = Stock + returned
        /\ Total(OrderUnits, MaxUnits) \in Nat
    BY Amounts DEF IInv, TypeOK, Books, NoOversell
  <1>3. DataType'
    BY <1>2 DEF IInv, TypeOK, DataType
  <1>4. NoOversell'
    <2>1. Total(OrderUnits, MaxUnits)' = Total(OrderUnits, MaxUnits)
      BY <1>1 DEF Total
    <2>2. stock' >= 0 /\ stock' + Total(OrderUnits, MaxUnits) = Stock + returned'
      BY <1>2, Bounds
    <2> QED
      BY <2>1, <2>2 DEF NoOversell
  <1>5. TakenOnce' /\ WalletCovers'
    BY <1>1 DEF IInv, Books, TakenOnce, WalletCovers, Total, MaxPay
  <1>6. AppliedIsCarried' /\ UnplacedIsEmpty'
    BY DEF IInv, Books, AppliedIsCarried, UnplacedIsEmpty
  <1>7. Paid' = Paid /\ Room' = Room
    BY <1>1 DEF Paid, Room, MaxPay, Total
  <1>8. Covered({}) /\ Covered({"stock"})
    BY <1>7, RoomType DEF Covered, IInv
  <1> QED
    BY <1>3, <1>4, <1>5, <1>6, <1>8 DEF Books, SettledKept

\* An order is delivered, cancelled, or taken out of a cancellation, and one that a request
\* is cancelling is marked or overwritten.
LEMMA StatusStep ==
  ASSUME IInv, NEW o \in Orders,
         \/ Deliver(o) \/ Revive(o)
         \/ \E t \in Calls : CancelOrder(t, o) \/ MarkReleased(t, o) \/ SaveOverride(t, o)
  PROVE  IInv' /\ SettledKept
  <1>1. order \in [Orders -> OrderDocs] /\ overrides \in 0..MaxOverrides /\ stock \in Int
        /\ returned \in Nat
    BY DEF IInv, TypeOK
  <1>2. order' \in [Orders -> OrderDocs] /\ ContentsKept
    <2>1. \/ \E s \in {"placed", "delivered", "cancelled"} :
                order' = [order EXCEPT ![o].status = s]
          \/ order' = [order EXCEPT ![o].released = TRUE]
      BY DEF Deliver, Revive, CancelOrder, MarkReleased, SaveOverride
    <2>2. ASSUME NEW s \in {"placed", "delivered", "cancelled"},
                 order' = [order EXCEPT ![o].status = s]
          PROVE  order' \in [Orders -> OrderDocs] /\ ContentsKept
      BY <1>1, <2>2 DEF OrderDocs, ContentsKept
    <2>3. CASE order' = [order EXCEPT ![o].released = TRUE]
      BY <1>1, <2>3 DEF OrderDocs, ContentsKept
    <2> QED
      BY <2>1, <2>2, <2>3
  <1>3. /\ UNCHANGED <<cartVars, walletVars, charge, overwritten>>
        /\ stock' = stock + 0 /\ returned' = returned + 0
    <2>1. UNCHANGED <<stockVars, cartVars, walletVars, charge, overwritten>>
      BY DEF Deliver, Revive, CancelOrder, MarkReleased, SaveOverride
    <2> QED
      BY <1>1, <2>1 DEF stockVars
  <1>4. overrides' \in 0..MaxOverrides
    BY <1>1, Bounds DEF Deliver, Revive, CancelOrder, MarkReleased, SaveOverride
  <1>5. DataType' /\ Books' /\ SettledKept /\ Covered({})
    BY <1>2, <1>3, <1>4, OrderStep
  <1>6. CASE Deliver(o) \/ Revive(o)
    <2>1. UNCHANGED call
      BY <1>6 DEF Deliver, Revive
    <2> QED
      BY <1>5, <2>1, CallsStay, Assemble
  <1>7. ASSUME NEW t \in Calls, CancelOrder(t, o) \/ MarkReleased(t, o) \/ SaveOverride(t, o)
        PROVE  IInv' /\ SettledKept
    <2> DEFINE r == [Idle EXCEPT !.pc = "compensate", !.ord = o]
    <2>1. Step(t, r, {}) \/ Step(t, Idle, {})
      BY <1>7 DEF CancelOrder, MarkReleased, SaveOverride
    <2>2. r \in CallRecords
      BY IdleSafe DEF CallRecords
    <2>3. Safe(r, charge', Paid', Room') /\ {} \in SUBSET Documents
      BY DEF Safe, Idle
    <2> HIDE DEF r
    <2>4. call' \in [Calls -> CallRecords] /\ CallsSafe'
      BY <1>5, <2>1, <2>2, <2>3, IdleSafe, CallStep
    <2> QED
      BY <1>5, <2>4, Assemble
  <1> QED
    BY <1>6, <1>7

\* The units of an order go back: by a cancellation or an override, or by a failed payment,
\* which cancels the order with it.
LEMMA ReturnStep ==
  ASSUME IInv, NEW o \in Orders,
         FailPayment(o) \/ \E t \in Calls : ReleaseStock(t, o)
  PROVE  IInv' /\ SettledKept
  <1>1. /\ order \in [Orders -> OrderDocs] /\ overrides \in 0..MaxOverrides /\ stock \in Int
        /\ returned \in Nat
    BY DEF IInv, TypeOK
  <1>2. order[o].units \in Nat
    <2>1. order[o].units \in 0..MaxUnits
      BY <1>1 DEF OrderDocs
    <2> QED
      BY <2>1, Bounds
  <1>3. {"stock"} \in SUBSET Documents
    BY DEF Documents
  <1>4. CASE FailPayment(o)
    <2>1. order' \in [Orders -> OrderDocs] /\ ContentsKept
      <3>1. order' = [order EXCEPT ![o].status = "cancelled", ![o].released = TRUE]
        BY <1>4 DEF FailPayment
      <3> QED
        BY <1>1, <3>1 DEF OrderDocs, ContentsKept
    <2>2. UNCHANGED <<cartVars, walletVars, charge, overwritten, overrides>>
      BY <1>4 DEF FailPayment
    <2>3. CASE order[o].released
      <3>1. stock' = stock + 0 /\ returned' = returned + 0 /\ UNCHANGED call
        BY <1>1, <1>4, <2>3 DEF FailPayment, stockVars
      <3>2. DataType' /\ Books' /\ SettledKept /\ Covered({})
        BY <1>1, <2>1, <2>2, <3>1, OrderStep
      <3> QED
        BY <3>1, <3>2, CallsStay, Assemble
    <2>4. CASE ~order[o].released
      <3>1. /\ stock' = stock + order[o].units /\ returned' = returned + order[o].units
            /\ call' = Aged({"stock"})
        BY <1>4, <2>4 DEF FailPayment, ReturnUnits
      <3>2. DataType' /\ Books' /\ SettledKept /\ Covered({"stock"})
        BY <1>1, <1>2, <2>1, <2>2, <3>1, OrderStep
      <3> QED
        BY <1>3, <3>1, <3>2, CallsAge, Assemble
    <2> QED
      BY <2>3, <2>4
  <1>5. ASSUME NEW t \in Calls, ReleaseStock(t, o)
        PROVE  IInv' /\ SettledKept
    <2> DEFINE pc == IF call[t].pc = "release" THEN "mark" ELSE "overwrite"
               r == [call[t] EXCEPT !.pc = pc]
    <2>1. /\ stock' = stock + order[o].units /\ returned' = returned + order[o].units
          /\ Step(t, r, {"stock"})
          /\ UNCHANGED <<cartVars, walletVars, order, charge, overwritten, overrides>>
      BY <1>5 DEF ReleaseStock, ReturnUnits
    <2>2. DataType' /\ Books' /\ SettledKept /\ Covered({"stock"})
      <3>1. order' \in [Orders -> OrderDocs] /\ ContentsKept /\ overrides' \in 0..MaxOverrides
        BY <1>1, <2>1 DEF ContentsKept
      <3> QED
        BY <1>2, <2>1, <3>1, OrderStep
    <2>3. r \in CallRecords /\ Safe(r, charge', Paid', Room')
      <3>1. call[t] \in CallRecords /\ Safe(call[t], charge, Paid, Room)
        BY DEF IInv, TypeOK, CallsSafe
      <3>2. pc \in {"mark", "overwrite"}
        OBVIOUS
      <3> HIDE DEF pc
      <3>3. r \in CallRecords /\ r.pc = pc /\ r.due = call[t].due /\ r.stale = call[t].stale
            /\ r.placing = call[t].placing
        BY <3>1, <3>2 DEF CallRecords
      <3> HIDE DEF r
      <3>4. charge' = charge
        BY <2>1
      <3> QED
        BY <3>1, <3>2, <3>3, <3>4 DEF Safe
    <2> HIDE DEF r
    <2>4. call' \in [Calls -> CallRecords] /\ CallsSafe'
      BY <1>3, <2>1, <2>2, <2>3, CallStep
    <2> QED
      BY <2>2, <2>4, Assemble
  <1> QED
    BY <1>4, <1>5

\* The balance that is saved was read before orders that have been paid since.
LEMMA SaveStep ==
  ASSUME IInv, NEW t \in Calls, SaveCustomer(t)
  PROVE  IInv' /\ SettledKept
  <1> DEFINE seen == call[t].seen
  <1>1. /\ wallet' = seen + 1 /\ refunds' = refunds + 1 /\ refunds < MaxRefunds
        /\ overwritten' = overwritten \cup (IF wallet = seen THEN {} ELSE {"user"})
        /\ Step(t, Idle, {"user"}) /\ call[t].pc = "save"
        /\ UNCHANGED <<stockVars, cartVars, order, charge, overrides>>
    BY DEF SaveCustomer, At
  <1>2. seen \in Int /\ seen >= 0 /\ seen + Paid >= Funds
    BY <1>1 DEF IInv, TypeOK, CallsSafe, Safe, CallRecords
  <1> HIDE DEF seen
  <1>3. OrderUnits' = OrderUnits /\ TakenUnits' = TakenUnits /\ PaidAmounts' = PaidAmounts
    BY <1>1 DEF OrderUnits, TakenUnits, PaidAmounts
  <1>4. Paid' = Paid /\ Room' = Room /\ Paid \in Nat /\ Room \in Int
    BY <1>1, <1>3, RoomType DEF IInv, Paid, Room, MaxPay, Total, cartVars
  <1>5. Covered({"user"}) /\ {"user"} \in SUBSET Documents
    BY <1>1, <1>4 DEF Covered, Documents
  <1>6. call' \in [Calls -> CallRecords] /\ CallsSafe'
    BY <1>1, <1>5, IdleSafe, CallStep
  <1>7. refunds \in 0..MaxRefunds /\ overwritten \subseteq {"user", "cart"}
    BY DEF IInv, TypeOK
  <1>8. DataType'
    <2>1. refunds' \in 0..MaxRefunds /\ overwritten' \subseteq {"user", "cart"}
          /\ wallet' \in Int
      BY <1>1, <1>2, <1>7, Bounds
    <2> QED
      BY <1>1, <2>1 DEF IInv, TypeOK, DataType, stockVars, cartVars
  <1>9. WalletCovers'
    <2>1. wallet' >= 0 /\ wallet' + Paid' >= Funds
      BY <1>1, <1>2, <1>4, Bounds
    <2>2. ASSUME "user" \notin overwritten'
          PROVE  wallet' + Paid' = Funds + refunds'
      <3>1. wallet = seen /\ "user" \notin overwritten
        BY <1>1, <2>2
      <3>2. wallet + Paid = Funds + refunds
        BY <3>1 DEF IInv, Books, WalletCovers, Paid
      <3> QED
        BY <1>1, <1>2, <1>4, <1>7, <3>1, <3>2, Bounds
    <2> QED
      BY <2>1, <2>2 DEF WalletCovers, Paid
  <1>10. TakenOnce'
    <2>1. "cart" \notin overwritten' => "cart" \notin overwritten
      BY <1>1
    <2> QED
      BY <1>1, <1>3, <2>1 DEF IInv, Books, TakenOnce, Total, cartVars
  <1>11. NoOversell' /\ AppliedIsCarried' /\ UnplacedIsEmpty'
    BY <1>1, <1>3 DEF IInv, Books, NoOversell, AppliedIsCarried, UnplacedIsEmpty, Total, stockVars
  <1> QED
    BY <1>1, <1>6, <1>8, <1>9, <1>10, <1>11, Assemble DEF Books, SettledKept

\* What the sums become with the order that is placed.
LEMMA PlacedSums ==
  ASSUME TypeOK, UnplacedIsEmpty, NEW o \in Orders, order[o].status = "none",
         NEW d \in OrderDocs, d.status = "placed", order' = [order EXCEPT ![o] = d]
  PROVE  /\ Total(OrderUnits, MaxUnits)' = Total(OrderUnits, MaxUnits) + d.units
         /\ Total(TakenUnits, MaxUnits)' = Total(TakenUnits, MaxUnits) + d.taken
         /\ Paid' = Paid + d.paid
  <1>1. order'[o] = d /\ (\A q \in Orders \ {o} : order'[q] = order[q])
    BY DEF TypeOK
  <1>2. OrderUnits[o] = 0 /\ TakenUnits[o] = 0 /\ PaidAmounts[o] = 0
    BY DEF OrderUnits, TakenUnits, PaidAmounts, UnplacedIsEmpty
  <1>3. d.units \in 0..MaxUnits /\ d.taken \in 0..MaxUnits /\ d.paid \in 0..MaxPay
    BY DEF OrderDocs
  <1>4. /\ OrderUnits \in [Orders -> 0..MaxUnits] /\ TakenUnits \in [Orders -> 0..MaxUnits]
        /\ PaidAmounts \in [Orders -> 0..MaxPay]
        /\ Total(OrderUnits, MaxUnits) \in Nat /\ Total(TakenUnits, MaxUnits) \in Nat
        /\ Paid \in Nat
    BY Amounts DEF TypeOK
  <1>5. OrderUnits' = [OrderUnits EXCEPT ![o] = d.units]
    <2>1. \A q \in Orders : OrderUnits'[q] = IF q = o THEN d.units ELSE OrderUnits[q]
      BY <1>1 DEF OrderUnits
    <2>2. OrderUnits' = [q \in Orders |-> OrderUnits'[q]]
      BY DEF OrderUnits
    <2> QED
      BY <1>4, <2>1, <2>2
  <1>6. TakenUnits' = [TakenUnits EXCEPT ![o] = d.taken]
    <2>1. \A q \in Orders : TakenUnits'[q] = IF q = o THEN d.taken ELSE TakenUnits[q]
      BY <1>1 DEF TakenUnits
    <2>2. TakenUnits' = [q \in Orders |-> TakenUnits'[q]]
      BY DEF TakenUnits
    <2> QED
      BY <1>4, <2>1, <2>2
  <1>7. PaidAmounts' = [PaidAmounts EXCEPT ![o] = d.paid]
    <2>1. \A q \in Orders : PaidAmounts'[q] = IF q = o THEN d.paid ELSE PaidAmounts[q]
      BY <1>1 DEF PaidAmounts
    <2>2. PaidAmounts' = [q \in Orders |-> PaidAmounts'[q]]
      BY DEF PaidAmounts
    <2> QED
      BY <1>4, <2>1, <2>2
  <1>8. ASSUME NEW bound \in Nat, NEW f \in [Orders -> 0..bound], f[o] = 0,
               NEW n \in 0..bound, Total(f, bound) \in Nat
        PROVE  Total([f EXCEPT ![o] = n], bound) = Total(f, bound) + n
    <2>1. Total([f EXCEPT ![o] = n], bound) = Total(f, bound) - f[o] + n
      BY TotalChange
    <2>2. n \in Int
      OBVIOUS
    <2>3. Total(f, bound) \in Int /\ f[o] = 0
      BY <1>8
    <2> HIDE DEF Total
    <2> QED
      BY <2>1, <2>2, <2>3
  <1>9. Total(OrderUnits', MaxUnits) = Total(OrderUnits, MaxUnits) + d.units
    BY <1>2, <1>3, <1>4, <1>5, <1>8, Bounds
  <1>10. Total(TakenUnits', MaxUnits) = Total(TakenUnits, MaxUnits) + d.taken
    BY <1>2, <1>3, <1>4, <1>6, <1>8, Bounds
  <1>11. Total(PaidAmounts', MaxPay) = Total(PaidAmounts, MaxPay) + d.paid
    BY <1>2, <1>3, <1>4, <1>7, <1>8, Bounds DEF Paid
  <1> QED
    BY <1>9, <1>10, <1>11 DEF Total, Paid, MaxPay

\* The commit of a checkout whose snapshot is fresh enough.
LEMMA PlaceStep ==
  ASSUME IInv, NEW t \in Calls, NEW o \in Orders, NEW units \in 1..MaxUnits,
         NEW amount \in 0..MaxPay, NEW taken \in Taken(t, units),
         Place(t, o, units, taken, amount)
  PROVE  IInv' /\ SettledKept
  <1> DEFINE due == call[t].due
             docs == {"stock"} \cup Consumed(t) \cup Claimed(t)
                     \cup (IF amount > 0 THEN {"user"} ELSE {})
             d == [status |-> "placed", released |-> FALSE, units |-> units, taken |-> taken,
                   paid |-> amount, carried |-> due]
  <1>1. /\ order[o].status = "none" /\ call[t].stale \cap docs = {}
        /\ stock >= units /\ wallet >= amount
        /\ stock' = stock - units /\ wallet' = wallet - amount
        /\ cart' = IF "cart" \in docs THEN cart - taken ELSE cart
        /\ order' = [order EXCEPT ![o] = d]
        /\ charge' = [c \in Charges |-> IF c \in due THEN [status |-> "APPLIED", order |-> o]
                                        ELSE charge[c]]
        /\ Step(t, Idle, docs)
        /\ UNCHANGED <<added, returned, refunds, overwritten, overrides>>
    BY DEF Place, InStock, Affordable, Claimed
  <1>2. /\ order \in [Orders -> OrderDocs] /\ charge \in [Charges -> ChargeDocs]
        /\ stock \in Int /\ wallet \in Int /\ cart \in 0..MaxUnits /\ added \in 0..MaxUnits
        /\ returned \in Nat /\ refunds \in 0..MaxRefunds
        /\ call[t] \in CallRecords /\ Safe(call[t], charge, Paid, Room)
    BY DEF IInv, TypeOK, CallsSafe
  <1>3. due \in SUBSET Charges /\ due \subseteq docs
    BY <1>2 DEF CallRecords, Claimed
  <1>4. docs \in SUBSET Documents
    BY <1>3 DEF Documents, Consumed, Claimed
  <1>5. /\ taken \in 0..MaxUnits /\ taken <= cart /\ cart' = cart - taken
        /\ "version" \notin docs => taken = 0
    <2>1. CASE call[t].full
      <3>1. "cart" \in docs /\ "version" \in docs /\ taken \in 1..Lesser(units, cart)
        BY <2>1 DEF Consumed, Taken
      <3>2. Lesser(units, cart) \in Int /\ Lesser(units, cart) <= cart
        BY <1>2, Bounds DEF Lesser
      <3>3. taken \in Int /\ taken >= 1 /\ taken <= cart
        BY <1>2, <3>1, <3>2, Bounds
      <3> HIDE DEF docs
      <3> QED
        BY <1>1, <1>2, <3>1, <3>3, Bounds
    <2>2. CASE ~call[t].full
      <3>1. taken = 0
        BY <2>2 DEF Taken
      <3> HIDE DEF docs
      <3> QED
        BY <1>1, <1>2, <3>1, Bounds
    <2> QED
      BY <2>1, <2>2
  <1>6. \A c \in due : charge[c].status = "PENDING"
    BY <1>1, <1>2, <1>3 DEF Safe
  <1> HIDE DEF docs
  <1>7. d \in OrderDocs /\ d.status = "placed" /\ d.units = units /\ d.taken = taken
        /\ d.paid = amount /\ d.carried = due
    <2>1. units \in 0..MaxUnits
      BY Bounds
    <2> QED
      BY <1>3, <1>5, <2>1 DEF OrderDocs
  <1> HIDE DEF d, due
  <1>8. /\ Total(OrderUnits, MaxUnits)' = Total(OrderUnits, MaxUnits) + units
        /\ Total(TakenUnits, MaxUnits)' = Total(TakenUnits, MaxUnits) + taken
        /\ Paid' = Paid + amount
    BY <1>1, <1>7, PlacedSums DEF IInv, Books
  <1>9. /\ Total(OrderUnits, MaxUnits) \in Nat /\ Total(TakenUnits, MaxUnits) \in Nat
        /\ Paid \in Nat /\ units \in Nat /\ amount \in Nat /\ taken \in Nat
    BY <1>2, <1>5, Amounts, Bounds
  <1>10. /\ stock >= 0 /\ stock + Total(OrderUnits, MaxUnits) = Stock + returned
         /\ cart + Total(TakenUnits, MaxUnits) <= added
         /\ "cart" \notin overwritten => cart + Total(TakenUnits, MaxUnits) = added
         /\ wallet >= 0 /\ wallet + Paid >= Funds
         /\ "user" \notin overwritten => wallet + Paid = Funds + refunds
    BY DEF IInv, Books, NoOversell, TakenOnce, WalletCovers, Paid
  <1>11. /\ charge' \in [Charges -> ChargeDocs]
         /\ \A c \in due : charge'[c] = [status |-> "APPLIED", order |-> o]
         /\ \A c \in Charges \ due : charge'[c] = charge[c]
    BY <1>1, <1>2, <1>3 DEF ChargeDocs
  <1>12. /\ order' \in [Orders -> OrderDocs] /\ order'[o] = d
         /\ \A q \in Orders \ {o} : order'[q] = order[q]
    BY <1>1, <1>2, <1>7
  <1>13. DataType'
    <2>1. /\ refunds' \in 0..MaxRefunds /\ added' \in 0..MaxUnits /\ returned' \in Nat
          /\ overwritten' \subseteq {"user", "cart"} /\ overrides' \in 0..MaxOverrides
      BY <1>1 DEF IInv, TypeOK
    <2>2. stock' \in Int /\ wallet' \in Int /\ cart' \in 0..MaxUnits
      BY <1>1, <1>2, <1>5, <1>9, Bounds
    <2> QED
      BY <1>11, <1>12, <2>1, <2>2 DEF DataType
  <1>14. NoOversell'
    <2>1. stock' >= 0 /\ stock' + Total(OrderUnits, MaxUnits)' = Stock + returned'
      BY <1>1, <1>2, <1>8, <1>9, <1>10, Bounds
    <2> QED
      BY <2>1 DEF NoOversell
  <1>15. TakenOnce'
    <2>1. cart' + Total(TakenUnits, MaxUnits)' <= added'
      BY <1>1, <1>2, <1>5, <1>8, <1>9, <1>10, Bounds
    <2>2. "cart" \notin overwritten' => cart' + Total(TakenUnits, MaxUnits)' = added'
      BY <1>1, <1>2, <1>5, <1>8, <1>9, <1>10, Bounds
    <2> QED
      BY <2>1, <2>2 DEF TakenOnce
  <1>16. WalletCovers'
    <2>1. wallet' >= 0 /\ wallet' + Paid' >= Funds
      BY <1>1, <1>2, <1>8, <1>9, <1>10, Bounds
    <2>2. "user" \notin overwritten' => wallet' + Paid' = Funds + refunds'
      BY <1>1, <1>2, <1>8, <1>9, <1>10, Bounds
    <2> QED
      BY <2>1, <2>2 DEF WalletCovers, Paid
  <1>17. AppliedIsCarried'
    <2>1. ASSUME NEW c \in Charges, charge'[c].status \in {"APPLIED", "RECOVERED"}
          PROVE  charge'[c].order \in Orders /\ c \in order'[charge'[c].order].carried
      <3>1. CASE c \in due
        BY <1>7, <1>11, <1>12, <3>1
      <3>2. CASE c \notin due
        <4>1. charge'[c] = charge[c] /\ charge[c].order \in Orders
              /\ c \in order[charge[c].order].carried
          BY <1>11, <2>1, <3>2 DEF IInv, Books, AppliedIsCarried
        <4>2. charge[c].order # o
          BY <1>1, <4>1 DEF IInv, Books, UnplacedIsEmpty
        <4> QED
          BY <1>12, <4>1, <4>2
      <3> QED
        BY <3>1, <3>2
    <2> QED
      BY <2>1 DEF AppliedIsCarried
  <1>18. UnplacedIsEmpty'
    BY <1>7, <1>12 DEF IInv, Books, UnplacedIsEmpty
  <1>19. Covered(docs)
    <2>1. /\ Paid' \in Nat /\ Paid' >= Paid
          /\ added - Total(TakenUnits, MaxUnits)' \in Int
          /\ taken = 0 => added - Total(TakenUnits, MaxUnits)' = added - Total(TakenUnits, MaxUnits)
      BY <1>2, <1>8, <1>9, Bounds
    <2>2. Room' \in Int /\ (taken = 0 => Room' = Room)
      BY <1>1, <2>1 DEF Room
    <2>3. Room \in Int
      BY RoomType DEF IInv
    <2> QED
      BY <1>3, <1>5, <1>11, <2>1, <2>2, <2>3 DEF Covered
  <1>20. call' \in [Calls -> CallRecords] /\ CallsSafe'
    BY <1>1, <1>4, <1>19, IdleSafe, CallStep
  <1>21. SettledKept
    BY <1>6, <1>11 DEF SettledKept
  <1> QED
    BY <1>13, <1>14, <1>15, <1>16, <1>17, <1>18, <1>20, <1>21, Assemble DEF Books

-----------------------------------------------------------------------------
(* The theorems.                                                           *)

LEMMA InitIInv == Init => IInv
  <1> SUFFICES ASSUME Init
               PROVE  IInv
    OBVIOUS
  <1> USE DEF Init
  <1>1. order \in [Orders -> OrderDocs]
    BY Bounds DEF OrderDocs
  <1>2. TypeOK
    BY <1>1, Bounds, CheckoutAssumption, IdleSafe DEF TypeOK, ChargeDocs
  <1>3. \A o \in Orders : OrderUnits[o] = 0 /\ TakenUnits[o] = 0 /\ PaidAmounts[o] = 0
    BY DEF OrderUnits, TakenUnits, PaidAmounts
  <1>4. /\ Total(OrderUnits, MaxUnits) = 0 /\ Total(TakenUnits, MaxUnits) = 0
        /\ Total(PaidAmounts, MaxPay) = 0
    BY <1>3, Bounds, TotalOfNone
  <1>5. NoOversell /\ TakenOnce /\ WalletCovers
    BY <1>4, Bounds, CheckoutAssumption DEF NoOversell, TakenOnce, WalletCovers
  <1>6. AppliedIsCarried /\ UnplacedIsEmpty
    BY DEF AppliedIsCarried, UnplacedIsEmpty
  <1>7. CallsSafe
    BY IdleSafe DEF CallsSafe
  <1> QED
    BY <1>2, <1>5, <1>6, <1>7 DEF IInv, Books

LEMMA NextIInv ==
  ASSUME IInv, [Next]_vars
  PROVE  IInv' /\ SettledKept
  <1>1. CASE UNCHANGED vars
    <2> USE DEF vars, stockVars, cartVars, walletVars
    <2>1. OrderUnits' = OrderUnits /\ TakenUnits' = TakenUnits /\ PaidAmounts' = PaidAmounts
      BY <1>1 DEF OrderUnits, TakenUnits, PaidAmounts
    <2>2. Paid' = Paid /\ Room' = Room
      BY <1>1, <2>1 DEF Paid, Room, Total, MaxPay
    <2>3. NoOversell' /\ TakenOnce' /\ WalletCovers'
      BY <1>1, <2>1 DEF IInv, Books, NoOversell, TakenOnce, WalletCovers, Total, MaxPay
    <2>4. AppliedIsCarried' /\ UnplacedIsEmpty' /\ TypeOK' /\ SettledKept
      BY <1>1 DEF IInv, TypeOK, Books, AppliedIsCarried, UnplacedIsEmpty, SettledKept, MaxPay
    <2>5. CallsSafe'
      BY <1>1, <2>2 DEF IInv, CallsSafe
    <2> QED
      BY <2>3, <2>4, <2>5 DEF IInv, Books
  <1>2. ASSUME NEW c \in Charges, CreateCharge(c) \/ WaiveCharge(c)
        PROVE  IInv' /\ SettledKept
    BY <1>2, ChargesStep
  <1>3. ASSUME NEW o \in Orders, Deliver(o) \/ FailPayment(o) \/ Revive(o)
        PROVE  IInv' /\ SettledKept
    BY <1>3, StatusStep, ReturnStep
  <1>4. ASSUME NEW t \in Calls, BeginOrder(t) \/ Look(t) \/ Fail(t)
        PROVE  IInv' /\ SettledKept
    BY <1>4, LookStep
  <1>5. ASSUME NEW t \in Calls, LoadCart(t)
        PROVE  IInv' /\ SettledKept
    BY <1>5, LoadStep
  <1>6. ASSUME NEW t \in Calls, SaveCart(t)
        PROVE  IInv' /\ SettledKept
    BY <1>6, CartStep
  <1>7. ASSUME NEW t \in Calls, PlaceOrder(t)
        PROVE  IInv' /\ SettledKept
    BY <1>7, PlaceStep DEF PlaceOrder
  <1>8. ASSUME NEW t \in Calls, SaveCustomer(t)
        PROVE  IInv' /\ SettledKept
    BY <1>8, SaveStep
  <1>9. ASSUME NEW t \in Calls, NEW c \in Charges, Recover(t, c) \/ Release(t, c)
        PROVE  IInv' /\ SettledKept
    BY <1>9, ActStep
  <1>10. ASSUME NEW t \in Calls, NEW o \in Orders,
                \/ LookDelivered(t, o) \/ LoadCustomer(t, o)
                \/ CancelOrder(t, o) \/ Compensate(t, o) \/ ReleaseStock(t, o)
                \/ MarkReleased(t, o) \/ LoadOverride(t, o) \/ SaveOverride(t, o)
         PROVE  IInv' /\ SettledKept
    BY <1>10, LookStep, LoadStep, StatusStep, ReturnStep
  <1> QED
    BY <1>1, <1>2, <1>3, <1>4, <1>5, <1>6, <1>7, <1>8, <1>9, <1>10 DEF Next

LEMMA Inductive == Spec => []IInv
  <1>1. IInv /\ [Next]_vars => IInv'
    BY NextIInv
  <1> QED
    BY <1>1, InitIInv, PTL DEF Spec

\* The types of Checkout, in every reachable state; among them, that a cart never holds
\* fewer than no units, which needs the counting of what was taken from it.
THEOREM CheckoutTypeCorrect == Spec => []TypeOK
  <1>1. IInv => TypeOK
    BY DEF IInv
  <1> QED
    BY <1>1, Inductive, PTL

\* Checkouts at the same time sell no unit twice, while cancellations, overrides and failed
\* payments return units, and processes end between their steps.
THEOREM NoOversellHolds == Spec => []NoOversell
  <1>1. IInv => NoOversell
    BY DEF IInv, Books
  <1> QED
    BY <1>1, Inductive, PTL

\* consumeCartItems gives each unit of the cart to one order at most, in spite of additions
\* that save what they read before; and to one exactly, but for additions they wrote over.
THEOREM TakenOnceHolds == Spec => []TakenOnce
  <1>1. IInv => TakenOnce
    BY DEF IInv, Books
  <1> QED
    BY <1>1, Inductive, PTL

\* The wallet is not overdrawn and is debited for orders only, in spite of the stale balances
\* that completeReturnAndRefund saves; and while none has been saved, each debit has its order.
THEOREM WalletCoversHolds == Spec => []WalletCovers
  <1>1. IInv => WalletCovers
    BY DEF IInv, Books
  <1> QED
    BY <1>1, Inductive, PTL

\* A charge that claimChargesForOrder applied is part of the order that carries it.
THEOREM AppliedIsCarriedHolds == Spec => []AppliedIsCarried
  <1>1. IInv => AppliedIsCarried
    BY DEF IInv, Books
  <1> QED
    BY <1>1, Inductive, PTL

\* Neither a checkout nor a reconciliation that read a charge before touches it after it
\* was recovered or waived.
THEOREM SettledIsFinalHolds == Spec => SettledIsFinal
  <1>1. IInv /\ [Next]_vars =>
          [\A c \in Charges :
              charge[c].status \in {"RECOVERED", "WAIVED"} => charge'[c] = charge[c]]_vars
    BY NextIInv DEF SettledKept
  <1> QED
    BY <1>1, Inductive, PTL DEF Spec, SettledIsFinal

=============================================================================
