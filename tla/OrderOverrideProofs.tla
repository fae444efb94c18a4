------------------------ MODULE OrderOverrideProofs ------------------------
(***************************************************************************)
(* What updateOrderStatus leaves of the workflow's guarantees, proved for  *)
(* every instance of OrderOverride: any number of overrides at once, each  *)
(* with any status and rider, between the steps of the workflow.           *)
(***************************************************************************)
EXTENDS OrderOverride, OrderMoneySafety

OverrideTypeInv == OverrideTypeOK /\ ReadsBounded

\* A step of OverrideNext that is not one of the workflow's.
OverrideStep ==
    \/ \E a \in Admins, o \in Orders : OverrideRead(a, o)
    \/ \E a \in Admins : OverrideRestock(a) \/ OverrideSave(a) \/ OverrideFails(a)
    \/ \E a \in Admins, t \in Requests : OverrideStart(a, t)

LEMMA StepCases ==
  ASSUME [OverrideNext]_allVars
  PROVE  ([Next]_vars /\ UNCHANGED overrideVars) \/ OverrideStep
  BY DEF OverrideNext, OverrideStep, allVars

-----------------------------------------------------------------------------
(* Types.                                                                  *)

LEMMA OverrideTypeInit == OverrideInit => OverrideTypeInv
  BY TypeInit, OverrideAssumption
  DEF OverrideInit, OverrideTypeInv, OverrideTypeOK, TypeInv, NoOverride, Overrides, Names

LEMMA ReadType ==
  ASSUME OverrideTypeInv, NEW a \in Admins, NEW o \in Orders, OverrideRead(a, o)
  PROVE  OverrideTypeInv'
  <1>1. PICK st \in LegacyValues, r \in Names :
          over' = [over EXCEPT ![a] =
            [pc |-> IF st = "cancelled" /\ status[o] # "cancelled" THEN "restock" ELSE "save",
             ord |-> o, st |-> IF st = status[o] THEN "same" ELSE st, rid |-> r,
             seenRider |-> rider[o], search |-> NeedsSearch(o, st, r)]]
    BY DEF OverrideRead
  <1>2. NeedsSearch(o, st, r) \in BOOLEAN /\ rider[o] \in Names
    BY DEF NeedsSearch, OverrideTypeInv, OverrideTypeOK, TypeOK, Names
  <1>3. over' \in [Admins -> Overrides]
    BY <1>1, <1>2 DEF OverrideTypeInv, OverrideTypeOK, Overrides
  <1>4. \A b \in Admins : over'[b].pc # "idle" => over'[b].ord \in Orders
    BY <1>1 DEF OverrideTypeInv, OverrideTypeOK
  <1>5. overrides' \in 0..MaxOverrides
    BY OverrideAssumption DEF OverrideRead, OverrideTypeInv, OverrideTypeOK
  <1>6. TypeOK' /\ ReadsBounded'
    BY DEF OverrideRead, OverrideTypeInv, OverrideTypeOK, TypeOK, ReadsBounded, vars, lifeVars,
           payVars, riderVars, clockVars, searchVars, leadVars, stockVars
  <1> QED
    BY <1>3, <1>4, <1>5, <1>6 DEF OverrideTypeInv, OverrideTypeOK

\* What an override has in hand: its order, and the rider it would write.
LEMMA InHand ==
  ASSUME OverrideTypeInv, NEW a \in Admins, over[a].pc # "idle"
  PROVE  /\ over[a].ord \in Orders
         /\ over[a].rid \in Names
         /\ over[a].st \in LegacyValues \cup {"same"}
         /\ SavedRider(a) \in Names
         /\ SavedRider(a) # rider[over[a].ord] =>
                SavedRider(a) = over[a].rid /\ over[a].rid # NoRider
  BY DEF OverrideTypeInv, OverrideTypeOK, Overrides, SavedRider, TypeOK, Names

LEMMA AdvanceType ==
  ASSUME OverrideTypeInv, NEW a \in Admins, over[a].pc # "idle", UNCHANGED overrides,
         \/ over' = [over EXCEPT ![a] = NoOverride]
         \/ \E pc \in {"save", "start"} : over' = [over EXCEPT ![a].pc = pc]
  PROVE  /\ over' \in [Admins -> Overrides]
         /\ \A b \in Admins : over'[b].pc # "idle" => over'[b].ord \in Orders
         /\ overrides' \in 0..MaxOverrides
  <1>1. CASE over' = [over EXCEPT ![a] = NoOverride]
    <2>1. NoOverride \in Overrides
      BY DEF NoOverride, Overrides, Names
    <2> QED
      BY <1>1, <2>1 DEF OverrideTypeInv, OverrideTypeOK, NoOverride
  <1>2. ASSUME NEW pc \in {"save", "start"}, over' = [over EXCEPT ![a].pc = pc]
        PROVE  /\ over' \in [Admins -> Overrides]
               /\ \A b \in Admins : over'[b].pc # "idle" => over'[b].ord \in Orders
    <2>1. [over[a] EXCEPT !.pc = pc] \in Overrides
      BY DEF OverrideTypeInv, OverrideTypeOK, Overrides
    <2> QED
      BY <1>2, <2>1 DEF OverrideTypeInv, OverrideTypeOK, Overrides
  <1> QED
    BY <1>1, <1>2 DEF OverrideTypeInv, OverrideTypeOK

LEMMA OverrideStepType ==
  ASSUME OverrideTypeInv, OverrideStep
  PROVE  OverrideTypeInv'
  <1> USE DEF lifeVars, payVars, riderVars, clockVars, searchVars, leadVars, stockVars
  <1>1. ASSUME NEW a \in Admins, OverrideRestock(a)
        PROVE  OverrideTypeInv'
    <2>1. released' \in [Orders -> 0..2]
      BY <1>1, InHand DEF OverrideRestock, OverrideTypeInv, OverrideTypeOK, TypeOK
    <2>2. TypeOK' /\ ReadsBounded'
      BY <1>1, <2>1 DEF OverrideRestock, OverrideTypeInv, OverrideTypeOK, TypeOK, ReadsBounded
    <2> QED
      BY <1>1, <2>2, AdvanceType DEF OverrideRestock, OverrideTypeInv, OverrideTypeOK
  <1>2. ASSUME NEW a \in Admins, OverrideSave(a)
        PROVE  OverrideTypeInv'
    <2>1. status' \in [Orders -> LegacyValues]
      BY <1>2, InHand DEF OverrideSave, OverrideTypeInv, OverrideTypeOK, TypeOK
    <2>2. rider' \in [Orders -> Riders \cup {NoRider}]
      BY <1>2, InHand DEF OverrideSave, OverrideTypeInv, OverrideTypeOK, TypeOK, Names
    <2>3. TypeOK' /\ ReadsBounded'
      BY <1>2, <2>1, <2>2
      DEF OverrideSave, OverrideTypeInv, OverrideTypeOK, TypeOK, ReadsBounded
    <2> QED
      BY <1>2, <2>3, AdvanceType DEF OverrideSave, OverrideTypeInv, OverrideTypeOK
  <1>3. ASSUME NEW a \in Admins, OverrideFails(a)
        PROVE  OverrideTypeInv'
    <2>1. TypeOK' /\ ReadsBounded'
      BY <1>3 DEF OverrideFails, OverrideTypeInv, OverrideTypeOK, TypeOK, ReadsBounded
    <2> QED
      BY <1>3, <2>1, AdvanceType DEF OverrideFails, OverrideTypeInv, OverrideTypeOK
  <1>4. ASSUME NEW a \in Admins, NEW t \in Requests, OverrideStart(a, t)
        PROVE  OverrideTypeInv'
    <2>1. /\ call' \in [Threads -> Calls]
          /\ \A u \in Threads : call'[u].pc # "idle" => call'[u].ord \in Orders
          /\ ReadsBounded'
      BY <1>4, InHand, BeginType
      DEF OverrideStart, Threads, PlainPCs, PCs, Sources, OverrideTypeInv, OverrideTypeOK, TypeInv
    <2>2. TypeOK'
      BY <1>4, <2>1 DEF OverrideStart, OverrideTypeInv, OverrideTypeOK, TypeOK
    <2> QED
      BY <1>4, <2>1, <2>2, AdvanceType DEF OverrideStart, OverrideTypeInv, OverrideTypeOK
  <1> QED
    BY <1>1, <1>2, <1>3, <1>4, ReadType DEF OverrideStep

LEMMA OverrideTypeStep == OverrideTypeInv /\ [OverrideNext]_allVars => OverrideTypeInv'
  <1> SUFFICES ASSUME OverrideTypeInv, [OverrideNext]_allVars PROVE OverrideTypeInv'
    OBVIOUS
  <1>1. CASE [Next]_vars /\ UNCHANGED overrideVars
    BY <1>1, TypeStep DEF OverrideTypeInv, OverrideTypeOK, TypeInv, overrideVars
  <1> QED
    BY <1>1, StepCases, OverrideStepType

THEOREM OverrideTypeInvariant == OverrideSpec => []OverrideTypeInv
  BY OverrideTypeInit, OverrideTypeStep, PTL DEF OverrideSpec

\* The overrides in flight, and the workflow they run beside, keep their types.
THEOREM OverrideTypeCorrect == OverrideSpec => []OverrideTypeOK
  BY OverrideTypeInvariant, PTL DEF OverrideTypeInv

-----------------------------------------------------------------------------
(* The rider of an order.                                                  *)

LEMMA OverrideRider ==
  ASSUME OverrideTypeInv, OverrideStep
  PROVE  /\ UNCHANGED wf
         /\ \A o \in Orders : rider'[o] # rider[o] =>
              /\ rider'[o] # NoRider
              /\ \E a \in Admins : over[a].ord = o /\ over[a].rid = rider'[o]
  <1> USE DEF lifeVars, riderVars
  <1>1. ASSUME NEW a \in Admins, OverrideSave(a)
        PROVE  \A o \in Orders : rider'[o] # rider[o] =>
                 rider'[o] # NoRider /\ over[a].ord = o /\ over[a].rid = rider'[o]
    BY <1>1, InHand DEF OverrideSave, OverrideTypeInv, OverrideTypeOK, TypeOK
  <1>2. UNCHANGED wf
    BY DEF OverrideStep, OverrideRead, OverrideRestock, OverrideSave, OverrideStart,
           OverrideFails, vars
  <1>3. UNCHANGED rider \/ \E a \in Admins : OverrideSave(a)
    BY DEF OverrideStep, OverrideRead, OverrideRestock, OverrideStart, OverrideFails, vars
  <1> QED
    BY <1>1, <1>2, <1>3

\* No override puts an order on the road, and none takes its rider away without
\* naming another one: OnTheRoadHasRider survives the unconditional save.
THEOREM OverrideOnTheRoadHolds == OverrideSpec => []OnTheRoadHasRider
  <1>1. OverrideInit => OnTheRoadHasRider
    BY DEF OverrideInit, Init, OnTheRoadHasRider, ActiveStatuses
  <1>2. ASSUME OverrideTypeInv, OnTheRoadHasRider, [OverrideNext]_allVars
        PROVE  OnTheRoadHasRider'
    <2>1. CASE [Next]_vars
      BY <1>2, <2>1, OnTheRoadStep DEF OverrideTypeInv, OverrideTypeOK, TypeInv
    <2>2. CASE OverrideStep
      BY <1>2, <2>2, OverrideRider DEF OnTheRoadHasRider
    <2> QED
      BY <1>2, <2>1, <2>2, StepCases
  <1> QED
    BY <1>1, <1>2, OverrideTypeInvariant, PTL DEF OverrideSpec

\* order.save() writes a rider that the request named, or leaves the rider alone:
\* a claim made between the override's read and its save is never lost to it.
THEOREM RiderKeptHolds == OverrideSpec => RiderKeptUnlessNamed
  <1> DEFINE Kept == \A o \in Orders : rider[o] # NoRider /\ rider'[o] # rider[o] =>
                        /\ rider'[o] # NoRider
                        /\ \E a \in Admins : over[a].ord = o /\ over[a].rid = rider'[o]
  <1>1. ASSUME OverrideTypeInv, [OverrideNext]_allVars
        PROVE  [Kept]_allVars
    <2>1. CASE [Next]_vars
      BY <1>1, <2>1, RiderFrame, AssignEffect DEF OverrideTypeInv, OverrideTypeOK, TypeInv
    <2>2. CASE OverrideStep
      BY <1>1, <2>2, OverrideRider
    <2> QED
      BY <1>1, <2>1, <2>2, StepCases
  <1> QED
    BY <1>1, OverrideTypeInvariant, PTL DEF OverrideSpec, RiderKeptUnlessNamed

-----------------------------------------------------------------------------
(* Payment.                                                                *)

\* An override that will start a search works on an order that was booked and accepted.
SearchOpened ==
    \A a \in Admins :
        /\ over[a].pc = "start" => over[a].search
        /\ over[a].pc # "idle" /\ over[a].search => Booked(over[a].ord) /\ ~Early(over[a].ord)

OverridePayInv == PayInv /\ SearchOpened

LEMMA SearchStep ==
  ASSUME OverrideTypeInv, UnpaidNeverServed, SearchOpened, OverrideStep
  PROVE  SearchOpened'
  <1> USE DEF Booked, Early
  <1>1. UNCHANGED <<wf, captured>>
    BY DEF OverrideStep, OverrideRead, OverrideRestock, OverrideSave, OverrideStart,
           OverrideFails, vars, lifeVars, payVars
  <1>2. ASSUME NEW a \in Admins, NEW o \in Orders, OverrideRead(a, o)
        PROVE  SearchOpened'
    BY <1>1, <1>2
    DEF OverrideRead, NeedsSearch, SearchOpened, UnpaidNeverServed, OverrideTypeInv, OverrideTypeOK
  <1>3. ASSUME NEW a \in Admins, OverrideRestock(a) \/ OverrideSave(a)
        PROVE  SearchOpened'
    BY <1>1, <1>3
    DEF OverrideRestock, OverrideSave, SearchOpened, OverrideTypeInv, OverrideTypeOK, Overrides,
        NoOverride
  <1>4. ASSUME NEW a \in Admins, over' = [over EXCEPT ![a] = NoOverride]
        PROVE  SearchOpened'
    BY <1>1, <1>4 DEF SearchOpened, OverrideTypeInv, OverrideTypeOK, NoOverride
  <1> QED
    BY <1>2, <1>3, <1>4 DEF OverrideStep, OverrideFails, OverrideStart

LEMMA OverridePayStep ==
  ASSUME OverrideTypeInv, OverridePayInv, OverrideStep
  PROVE  PayInv'
  <1> USE DEF lifeVars, payVars, PayInv, OverridePayInv
  <1>1. UNCHANGED <<wf, revived, payVars>>
    BY DEF OverrideStep, OverrideRead, OverrideRestock, OverrideSave, OverrideStart,
           OverrideFails, vars
  <1>2. CASE UNCHANGED call
    BY <1>1, <1>2
    DEF UnpaidNeverServed, Booked, StartsBooked, StartsAccepted, MoveCaptured, Early
  <1>3. ASSUME NEW a \in Admins, NEW t \in Requests, OverrideStart(a, t)
        PROVE  PayInv'
    <2>1. Booked(over[a].ord) /\ ~Early(over[a].ord)
      BY <1>3 DEF OverrideStart, SearchOpened
    <2> DEFINE c == [Idle EXCEPT !.pc = "load", !.ord = over[a].ord, !.src = "pack"]
    <2>2. c.pc = "load" /\ c.ord = over[a].ord
      BY DEF Idle
    <2>3. call' = [call EXCEPT ![t] = c]
      BY <1>3 DEF OverrideStart, Begin
    <2> HIDE DEF c
    <2>4. \A u \in Threads : call'[u] = IF u = t THEN c ELSE call[u]
      BY <2>3 DEF OverrideTypeInv, OverrideTypeOK, TypeOK
    <2>5. StartsBooked' /\ StartsAccepted' /\ MoveCaptured'
      BY <1>1, <2>1, <2>2, <2>4 DEF StartsBooked, StartsAccepted, MoveCaptured, Booked, Early
    <2> QED
      BY <1>1, <2>5 DEF UnpaidNeverServed, Booked
  <1>4. UNCHANGED call \/ \E a \in Admins, t \in Requests : OverrideStart(a, t)
    BY DEF OverrideStep, OverrideRead, OverrideRestock, OverrideSave, OverrideFails, vars
  <1> QED
    BY <1>2, <1>3, <1>4

\* The strengthening is inductive with overrides in flight.
THEOREM OverridePayInvariant == OverrideSpec => []OverridePayInv
  <1>1. OverrideInit => OverridePayInv
    BY PayInit DEF OverrideInit, OverridePayInv, SearchOpened, NoOverride
  <1>2. ASSUME OverrideTypeInv, OverrideTypeInv', OverridePayInv, [OverrideNext]_allVars
        PROVE  OverridePayInv'
    <2>1. CASE [Next]_vars /\ UNCHANGED overrideVars
      <3>1. PayInv'
        BY <1>2, <2>1, PayStep DEF OverridePayInv, OverrideTypeInv, OverrideTypeOK, TypeInv
      <3>2. \A o \in Orders : (Booked(o) => Booked(o)') /\ (Early(o)' => Early(o))
        BY <1>2, <2>1, BookedStays, LifeFrame
        DEF LifeStep, OverridePayInv, OverrideTypeInv, OverrideTypeOK, TypeInv
      <3>3. SearchOpened'
        BY <1>2, <2>1, <3>2, InHand DEF OverridePayInv, SearchOpened, overrideVars
      <3> QED
        BY <3>1, <3>3 DEF OverridePayInv
    <2>2. CASE OverrideStep
      BY <1>2, <2>2, OverridePayStep, SearchStep DEF OverridePayInv, PayInv
    <2> QED
      BY <1>2, <2>1, <2>2, StepCases
  <1> QED
    BY <1>1, <1>2, OverrideTypeInvariant, PTL DEF OverrideSpec

\* A search that an override starts on its stale read is one of an order that was
\* open to its seller: UnpaidNeverServed survives it.
THEOREM OverrideUnpaidHolds == OverrideSpec => []UnpaidNeverServed
  <1>1. OverridePayInv => UnpaidNeverServed
    BY DEF OverridePayInv, PayInv
  <1> QED
    BY <1>1, OverridePayInvariant, PTL

-----------------------------------------------------------------------------
(* What overrides leave alone.                                             *)

LEMMA OverrideLeaves ==
  ASSUME OverrideStep
  PROVE  UNCHANGED <<wf, attempt, gaveUp, reservation>>
  BY DEF OverrideStep, OverrideRead, OverrideRestock, OverrideSave, OverrideStart, OverrideFails,
         vars, lifeVars, searchVars, stockVars

\* The search that an override starts on a stale read gives up at the limit like every
\* other: MAX_DELIVERY_SEARCH_ATTEMPTS survives.
THEOREM OverrideHardStopHolds == OverrideSpec => []HardStop
  <1>1. OverrideInit => HardStop
    BY ConstantsAssumption DEF OverrideInit, Init, HardStop
  <1>2. ASSUME OverrideTypeInv, OverrideTypeInv', HardStop, [OverrideNext]_allVars
        PROVE  HardStop'
    <2>1. CASE [Next]_vars
      BY <1>2, <2>1, HardStopStep DEF OverrideTypeInv, OverrideTypeOK, TypeInv
    <2>2. CASE OverrideStep
      BY <1>2, <2>2, OverrideLeaves DEF HardStop
    <2> QED
      BY <1>2, <2>1, <2>2, StepCases
  <1> QED
    BY <1>1, <1>2, OverrideTypeInvariant, PTL DEF OverrideSpec

LEMMA OverrideReturned ==
  ASSUME OverrideTypeInv, ReturnedInv, OverrideStep
  PROVE  ReturnedInv'
  <1>0. /\ call \in [Threads -> Calls] /\ released \in [Orders -> 0..2]
        /\ \A t \in Threads : call[t].pc # "idle" => call[t].ord \in Orders
    BY DEF OverrideTypeInv, OverrideTypeOK, TypeOK
  <1>1. \A o \in Orders : released[o] > 0 => released'[o] > 0
    <2>1. CASE UNCHANGED released
      BY <2>1
    <2>2. ASSUME NEW a \in Admins, OverrideRestock(a)
          PROVE  \A o \in Orders : released[o] > 0 => released'[o] > 0
      BY <1>0, <2>2 DEF OverrideRestock
    <2> QED
      BY <2>1, <2>2
      DEF OverrideStep, OverrideRead, OverrideSave, OverrideStart, OverrideFails, vars, stockVars
  <1>2. ReleasedMeansReturned'
    BY <1>1, OverrideLeaves DEF ReturnedInv, ReleasedMeansReturned
  <1>3. \A u \in Threads : call'[u].pc = "mark" => call'[u] = call[u]
    <2>1. CASE UNCHANGED call
      BY <2>1
    <2>2. ASSUME NEW a \in Admins, NEW t \in Requests, OverrideStart(a, t)
          PROVE  \A u \in Threads : call'[u].pc = "mark" => call'[u] = call[u]
      BY <1>0, <2>2 DEF OverrideStart, Begin, Idle
    <2> QED
      BY <2>1, <2>2
      DEF OverrideStep, OverrideRead, OverrideRestock, OverrideSave, OverrideFails, vars
  <1>4. MarkEarned'
    BY <1>0, <1>1, <1>3 DEF ReturnedInv, MarkEarned
  <1> QED
    BY <1>2, <1>4 DEF ReturnedInv

\* updateOrderStatus returns items without a look at the reservation, and so may return
\* them twice; but a reservation that says RELEASED is never one whose items stayed out.
THEOREM OverrideReturnedHolds == OverrideSpec => []ReleasedMeansReturned
  <1>1. OverrideInit => ReturnedInv
    BY DEF OverrideInit, Init, ReturnedInv, ReleasedMeansReturned, MarkEarned, Idle
  <1>2. ASSUME OverrideTypeInv, OverrideTypeInv', ReturnedInv, [OverrideNext]_allVars
        PROVE  ReturnedInv'
    <2>1. CASE [Next]_vars
      BY <1>2, <2>1, ReturnedStep DEF OverrideTypeInv, OverrideTypeOK, TypeInv
    <2>2. CASE OverrideStep
      BY <1>2, <2>2, OverrideReturned
    <2> QED
      BY <1>2, <2>1, <2>2, StepCases
  <1>3. ReturnedInv => ReleasedMeansReturned
    BY DEF ReturnedInv
  <1> QED
    BY <1>1, <1>2, <1>3, OverrideTypeInvariant, PTL DEF OverrideSpec

\* The workflow status goes the way of OrderLife whatever statuses and riders overrides
\* write beside it.
THEOREM OverrideLifeHolds == OverrideSpec => StageFollowsLife
  <1>1. ASSUME OverrideTypeInv, OverridePayInv, [OverrideNext]_allVars
        PROVE  [wf' # wf => Life!Next]_allVars
    <2>1. CASE [Next]_vars
      BY <1>1, <2>1, LifeStepTaken DEF OverrideTypeInv, OverrideTypeOK, OverridePayInv, TypeInv
    <2>2. CASE OverrideStep
      BY <2>2, OverrideLeaves
    <2> QED
      BY <1>1, <2>1, <2>2, StepCases
  <1> QED
    BY <1>1, OverridePayInvariant, OverrideTypeInvariant, PTL DEF OverrideSpec, StageFollowsLife
=============================================================================
