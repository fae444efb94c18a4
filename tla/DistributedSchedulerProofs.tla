--------------------- MODULE DistributedSchedulerProofs ---------------------
(***************************************************************************)
(* Theorems about DistributedScheduler for any number of processes, of     *)
(* executions per process and of faults.                                   *)
(***************************************************************************)
EXTENDS DistributedScheduler, TLAPS

\* An execution in flight has its process in runningJobs, and it is the only
\* one of its process.
FlagInv ==
    /\ \A e \in Execs : pc[e] # "idle" => e[1] \in runningJobs
    /\ NoSelfOverlap

\* While leases cover their runs, the key is there under every execution that
\* got past SET NX, and it holds that execution's value.
LeaseInv ==
    useRedis /\ leaseCovers => \A e \in Execs : pc[e] \in Holding => lock = e

SchedulerInv == TypeOK /\ FlagInv /\ LeaseInv

LEMMA InvInit == Init => SchedulerInv
  BY SchedulerAssumption
  DEF Init, SchedulerInv, TypeOK, FlagInv, NoSelfOverlap, LeaseInv, Holding, PCs

LEMMA ExecInstance == \A e \in Execs : e[1] \in Instances
  BY DEF Execs

\* The steps that only take an execution back to idle and clear its flag.
LEMMA FinishFlag ==
  ASSUME SchedulerInv, NEW e \in Execs, pc[e] # "idle", Finish(e)
  PROVE  /\ FlagInv'
         /\ pc' \in [Execs -> PCs]
         /\ runningJobs' \subseteq Instances
         /\ \A f \in Execs : pc'[f] # "idle" => f # e /\ pc'[f] = pc[f]
  <1>1. pc' = [pc EXCEPT ![e] = "idle"] /\ pc \in [Execs -> PCs] /\ runningJobs' = runningJobs \ {e[1]}
    BY DEF Finish, Goto, SchedulerInv, TypeOK
  <1>2. \A f \in Execs : pc'[f] # "idle" => f # e /\ pc'[f] = pc[f]
    BY <1>1
  <1>3. \A f \in Execs : pc'[f] # "idle" => f[1] # e[1]
    BY <1>2 DEF SchedulerInv, FlagInv, NoSelfOverlap
  <1>4. FlagInv'
    BY <1>1, <1>2, <1>3 DEF SchedulerInv, FlagInv, NoSelfOverlap
  <1>5. runningJobs' \subseteq Instances /\ pc' \in [Execs -> PCs]
    BY <1>1 DEF SchedulerInv, TypeOK, PCs
  <1> QED
    BY <1>2, <1>4, <1>5

\* The steps that move an execution in flight on, and touch no flag.
LEMMA GotoFlag ==
  ASSUME SchedulerInv, NEW e \in Execs, pc[e] # "idle", NEW l \in PCs, Goto(e, l),
         UNCHANGED runningJobs
  PROVE  /\ FlagInv'
         /\ pc' \in [Execs -> PCs]
         /\ \A f \in Execs : pc'[f] = IF f = e THEN l ELSE pc[f]
  <1>1. pc' = [pc EXCEPT ![e] = l] /\ pc \in [Execs -> PCs]
    BY DEF Goto, SchedulerInv, TypeOK
  <1>2. \A f \in Execs : pc'[f] = IF f = e THEN l ELSE pc[f]
    BY <1>1
  <1>3. FlagInv'
    BY <1>2 DEF SchedulerInv, FlagInv, NoSelfOverlap
  <1> QED
    BY <1>1, <1>2, <1>3

\* The steps of an execution.
LEMMA ExecStep ==
  ASSUME SchedulerInv, NEW e \in Execs,
         Tick(e) \/ Step(e) \/ AcquireFails(e) \/ HandlerThrows(e) \/ ReleaseFails(e)
  PROVE  SchedulerInv'
  <1> USE DEF SchedulerInv
  <1>0. useRedis' = useRedis /\ leaseCovers' = leaseCovers
    BY DEF Tick, Step, Acquire, Skip, HandlerEnds, ReleaseGet, ReleaseDel,
           AcquireFails, HandlerThrows, ReleaseFails, modeVars
  <1> USE <1>0
  <1>1. CASE Tick(e)
    <2>1. pc' = [pc EXCEPT ![e] = "acquire"] /\ pc \in [Execs -> PCs]
      BY <1>1 DEF Tick, Goto, TypeOK
    <2>2. \A f \in Execs : pc'[f] = IF f = e THEN "acquire" ELSE pc[f]
      BY <2>1
    <2>3. \A f \in Execs : f[1] = e[1] => pc[f] = "idle"
      BY <1>1 DEF Tick, FlagInv
    <2>4. FlagInv'
      BY <1>1, <2>2, <2>3 DEF Tick, FlagInv, NoSelfOverlap
    <2>5. TypeOK'
      BY <1>1, <2>1, ExecInstance DEF Tick, TypeOK, PCs
    <2>6. LeaseInv'
      BY <1>1, <2>2 DEF Tick, LeaseInv, Holding
    <2> QED
      BY <2>4, <2>5, <2>6
  <1>2. CASE Acquire(e)
    <2>1. /\ FlagInv'
          /\ pc' \in [Execs -> PCs]
          /\ \A f \in Execs : pc'[f] = IF f = e THEN "handler" ELSE pc[f]
      BY <1>2, GotoFlag DEF Acquire, PCs
    <2>2. TypeOK'
      BY <1>2, <2>1 DEF Acquire, TypeOK
    <2>3. LeaseInv'
      <3>1. SUFFICES ASSUME useRedis, leaseCovers, NEW f \in Execs, pc'[f] \in Holding
                     PROVE  lock' = f
        BY DEF LeaseInv
      <3>2. lock = NoLock /\ lock' = e
        BY <1>2, <3>1 DEF Acquire
      <3>3. f # e => pc[f] \in Holding
        BY <2>1, <3>1
      <3> QED
        BY <3>1, <3>2, <3>3, SchedulerAssumption DEF LeaseInv
    <2> QED
      BY <2>1, <2>2, <2>3
  <1>3. CASE Skip(e) \/ HandlerThrows(e) \/ ReleaseFails(e) \/ (HandlerEnds(e) /\ Finish(e))
            \/ (ReleaseGet(e) /\ Finish(e))
    <2>1. /\ pc[e] # "idle" /\ Finish(e) /\ UNCHANGED <<lock, ticking>>
          /\ faults' \in 0..MaxFaults
      BY <1>3, SchedulerAssumption
      DEF Skip, HandlerThrows, ReleaseFails, HandlerEnds, ReleaseGet, Fault, TypeOK
    <2>2. /\ FlagInv'
          /\ pc' \in [Execs -> PCs]
          /\ runningJobs' \subseteq Instances
          /\ \A f \in Execs : pc'[f] # "idle" => f # e /\ pc'[f] = pc[f]
      BY <2>1, FinishFlag
    <2>3. LeaseInv'
      BY <2>1, <2>2 DEF LeaseInv, Holding
    <2> QED
      BY <2>1, <2>2, <2>3 DEF TypeOK
  <1>4. CASE AcquireFails(e)
    <2>1. /\ pc[e] # "idle" /\ Finish(e) /\ UNCHANGED ticking
          /\ faults' \in 0..MaxFaults
          /\ lock' = lock \/ (lock = NoLock /\ lock' = e)
      BY <1>4, SchedulerAssumption DEF AcquireFails, Fault, TypeOK
    <2>2. /\ FlagInv'
          /\ pc' \in [Execs -> PCs]
          /\ runningJobs' \subseteq Instances
          /\ \A f \in Execs : pc'[f] # "idle" => f # e /\ pc'[f] = pc[f]
      BY <2>1, FinishFlag
    <2>3. LeaseInv'
      BY <2>1, <2>2, SchedulerAssumption DEF LeaseInv, Holding
    <2> QED
      BY <2>1, <2>2, <2>3 DEF TypeOK
  <1>5. CASE (HandlerEnds(e) /\ ~Finish(e)) \/ (ReleaseGet(e) /\ ~Finish(e))
    <2>1. PICK l \in {"get", "del"} :
            /\ Goto(e, l)
            /\ pc[e] \in Holding
            /\ UNCHANGED <<lock, runningJobs, ticking, faults>>
      BY <1>5 DEF HandlerEnds, ReleaseGet, Holding
    <2>2. /\ FlagInv'
          /\ pc' \in [Execs -> PCs]
          /\ \A f \in Execs : pc'[f] = IF f = e THEN l ELSE pc[f]
      BY <2>1, GotoFlag DEF PCs, Holding
    <2>3. LeaseInv'
      BY <2>1, <2>2 DEF LeaseInv
    <2> QED
      BY <2>1, <2>2, <2>3 DEF TypeOK
  <1>6. CASE ReleaseDel(e)
    <2>1. pc[e] = "del" /\ Finish(e) /\ UNCHANGED <<ticking, faults>> /\ lock' = NoLock
      BY <1>6 DEF ReleaseDel
    <2>2. /\ FlagInv'
          /\ pc' \in [Execs -> PCs]
          /\ runningJobs' \subseteq Instances
          /\ \A f \in Execs : pc'[f] # "idle" => f # e /\ pc'[f] = pc[f]
      BY <2>1, FinishFlag
    <2>3. LeaseInv'
      <3>1. SUFFICES ASSUME useRedis, leaseCovers, NEW f \in Execs, pc'[f] \in Holding
                     PROVE  FALSE
        BY DEF LeaseInv
      <3>2. f # e /\ pc[f] \in Holding /\ pc[e] \in Holding
        BY <2>1, <2>2, <3>1 DEF Holding
      <3> QED
        BY <3>1, <3>2 DEF LeaseInv
    <2> QED
      BY <2>1, <2>2, <2>3 DEF TypeOK
  <1> QED
    BY <1>1, <1>2, <1>3, <1>4, <1>5, <1>6 DEF Step

\* The steps of time and of the operator.
LEMMA WorldStep ==
  ASSUME SchedulerInv, Expire \/ \E i \in Instances : Stop(i) \/ Crash(i)
  PROVE  SchedulerInv'
  <1> USE DEF SchedulerInv, modeVars
  <1>1. CASE Expire
    BY <1>1 DEF Expire, TypeOK, FlagInv, NoSelfOverlap, LeaseInv
  <1>2. ASSUME NEW i \in Instances, Stop(i)
        PROVE  SchedulerInv'
    BY <1>2, SchedulerAssumption DEF Stop, Fault, TypeOK, FlagInv, NoSelfOverlap, LeaseInv
  <1>3. ASSUME NEW i \in Instances, Crash(i)
        PROVE  SchedulerInv'
    <2>1. \A e \in Execs : pc'[e] = IF e[1] = i THEN "idle" ELSE pc[e]
      BY <1>3 DEF Crash
    <2>2. TypeOK'
      BY <1>3, SchedulerAssumption DEF Crash, Fault, TypeOK, PCs
    <2>3. FlagInv'
      BY <1>3, <2>1 DEF Crash, FlagInv, NoSelfOverlap
    <2>4. LeaseInv'
      BY <1>3, <2>1 DEF Crash, LeaseInv, Holding
    <2> QED
      BY <2>2, <2>3, <2>4
  <1> QED
    BY <1>1, <1>2, <1>3

LEMMA InvStep == SchedulerInv /\ [Next]_vars => SchedulerInv'
  <1> SUFFICES ASSUME SchedulerInv, [Next]_vars PROVE SchedulerInv'
    OBVIOUS
  <1>1. CASE UNCHANGED vars
    BY <1>1 DEF vars, modeVars, SchedulerInv, TypeOK, FlagInv, NoSelfOverlap, LeaseInv
  <1>2. CASE Next
    BY <1>2, ExecStep, WorldStep DEF Next
  <1> QED
    BY <1>1, <1>2

LEMMA InvHolds == Spec => []SchedulerInv
  BY InvInit, InvStep, PTL DEF Spec

\* Type correctness of the lock, the executions and the flags.
THEOREM SchedulerTypeCorrect == Spec => []TypeOK
  BY InvHolds, PTL DEF SchedulerInv

\* executeJob's runningJobs guard keeps one process from overlapping its own runs,
\* with or without Redis and whatever the lease does.
THEOREM NoSelfOverlapHolds == Spec => []NoSelfOverlap
  BY InvHolds, PTL DEF SchedulerInv, FlagInv

\* acquireLock keeps the handler from running twice at once in any number of
\* processes, as long as every run is shorter than lockDuration.
THEOREM SingleWithinLeaseHolds == Spec => []SingleWithinLease
  <1>1. SchedulerInv => SingleWithinLease
    BY DEF SchedulerInv, LeaseInv, SingleWithinLease, Holding
  <1> QED
    BY <1>1, InvHolds, PTL

\* There is a key only where there is Redis.
KeyInv == lock # NoLock => useRedis

LEMMA KeyStep == TypeOK /\ KeyInv /\ [Next]_vars => KeyInv'
  <1> SUFFICES ASSUME TypeOK, KeyInv, [Next]_vars PROVE KeyInv'
    OBVIOUS
  <1> USE DEF TypeOK, KeyInv, modeVars
  <1>1. CASE UNCHANGED vars
    BY <1>1 DEF vars
  <1>2. ASSUME NEW e \in Execs,
               Tick(e) \/ Step(e) \/ AcquireFails(e) \/ HandlerThrows(e) \/ ReleaseFails(e)
        PROVE  KeyInv'
    BY <1>2 DEF Tick, Step, Acquire, Skip, HandlerEnds, ReleaseGet, ReleaseDel,
                AcquireFails, HandlerThrows, ReleaseFails
  <1>3. CASE Expire \/ \E i \in Instances : Stop(i) \/ Crash(i)
    BY <1>3 DEF Expire, Stop, Crash
  <1> QED
    BY <1>1, <1>2, <1>3 DEF Next

\* A step of release is a step of the lock's owner.
LEMMA NoSteal ==
  ASSUME SchedulerInv, KeyInv, leaseCovers, NEW e \in Execs
  PROVE  ~StealsLock(e)
  BY DEF SchedulerInv, LeaseInv, KeyInv, StealsLock, Holding

\* releaseLock's GET and DEL are two calls, and yet no release deletes the lock of
\* another execution as long as every run is shorter than lockDuration.
THEOREM ReleaseWithinLeaseHolds == Spec => ReleaseWithinLease
  <1>1. Init => KeyInv
    BY DEF Init, KeyInv
  <1>2. SchedulerInv => TypeOK
    BY DEF SchedulerInv
  <1>3. SchedulerInv /\ KeyInv /\ [Next]_vars
            => [leaseCovers => \A e \in Execs : ~StealsLock(e)]_vars
    BY NoSteal
  <1> QED
    BY <1>1, <1>2, <1>3, KeyStep, InvHolds, PTL DEF Spec, ReleaseWithinLease

=============================================================================
