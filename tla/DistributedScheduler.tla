------------------------ MODULE DistributedScheduler ------------------------
(***************************************************************************)
(* backend/app/services/distributedScheduler.js: every scheduler process   *)
(* ticks for a job, and a Redis key with a time to live is to keep the     *)
(* job's handler from running twice at once.                               *)
(*                                                                         *)
(* One job is modelled: each has its key and its entry in runningJobs.  An *)
(* execution is one call of executeJob, awaiting in turn the lock, the     *)
(* handler, and the GET and the DEL of the release.  The lock's value      *)
(* "instanceId:Date.now()" is the execution that wrote it: an execution    *)
(* never meets a value that an earlier one left in its slot, since it gets *)
(* past SET NX only when the key is absent.                                *)
(***************************************************************************)
EXTENDS Naturals, FiniteSets

CONSTANTS
    Instances,    \* scheduler processes, each with its own instanceId
    Slots,        \* bound: executions of the job in flight in one process
    NoLock,
    MaxFaults     \* bound: failed Redis calls, stops and crashes

Execs == Instances \X Slots

ASSUME SchedulerAssumption ==
    /\ NoLock \notin Execs
    /\ MaxFaults \in Nat

VARIABLES
    useRedis,     \* isRedisEnabled(), fixed when the processes start
    leaseCovers,  \* whether every run ends within lockDuration, twice the interval
    lock,         \* the value of the key, or NoLock
    pc,           \* where each execution is
    runningJobs,  \* the processes whose runningJobs set holds the job
    ticking,      \* the processes whose interval is set
    faults

modeVars == <<useRedis, leaseCovers>>
vars == <<modeVars, lock, pc, runningJobs, ticking, faults>>

PCs == {"idle", "acquire", "handler", "get", "del"}

\* The execution won the lock and has not tried to give it back.
Holding == {"handler", "get", "del"}

TypeOK ==
    /\ useRedis \in BOOLEAN /\ leaseCovers \in BOOLEAN
    /\ lock \in Execs \cup {NoLock}
    /\ pc \in [Execs -> PCs]
    /\ runningJobs \subseteq Instances
    /\ ticking \subseteq Instances
    /\ faults \in 0..MaxFaults

Init ==
    /\ useRedis \in BOOLEAN /\ leaseCovers \in BOOLEAN
    /\ lock = NoLock
    /\ pc = [e \in Execs |-> "idle"]
    /\ runningJobs = {}
    /\ ticking = Instances
    /\ faults = 0

Goto(e, l) == pc' = [pc EXCEPT ![e] = l]

\* The "finally" of executeJob.
Finish(e) ==
    /\ Goto(e, "idle")
    /\ runningJobs' = runningJobs \ {e[1]}

Fault ==
    /\ faults < MaxFaults
    /\ faults' = faults + 1

-----------------------------------------------------------------------------

\* Mutant of Tick: no in-memory guard.
TickUnguarded(e) ==
    /\ e[1] \in ticking
    /\ pc[e] = "idle"
    /\ runningJobs' = runningJobs \cup {e[1]}
    /\ Goto(e, "acquire")
    /\ UNCHANGED <<modeVars, lock, ticking, faults>>

\* The interval fires; a tick during a run of the same process does nothing.
Tick(e) ==
    /\ e[1] \in ticking
    /\ e[1] \notin runningJobs
    /\ pc[e] = "idle"
    /\ runningJobs' = runningJobs \cup {e[1]}
    /\ Goto(e, "acquire")
    /\ UNCHANGED <<modeVars, lock, ticking, faults>>

\* Mutant of Acquire: SET without NX.
AcquireAlways(e) ==
    /\ pc[e] = "acquire"
    /\ lock' = IF useRedis THEN e ELSE lock
    /\ Goto(e, "handler")
    /\ UNCHANGED <<modeVars, runningJobs, ticking, faults>>

\* SET NX EX wins; without Redis there is no key and the run always goes on.
Acquire(e) ==
    /\ pc[e] = "acquire"
    /\ \/ /\ useRedis /\ lock = NoLock
          /\ lock' = e
       \/ /\ ~useRedis
          /\ UNCHANGED lock
    /\ Goto(e, "handler")
    /\ UNCHANGED <<modeVars, runningJobs, ticking, faults>>

\* The key exists: the run is skipped.
Skip(e) ==
    /\ pc[e] = "acquire"
    /\ useRedis /\ lock # NoLock
    /\ Finish(e)
    /\ UNCHANGED <<modeVars, lock, ticking, faults>>

\* SET fails or times out at the client; Redis may have executed it all the same.
AcquireFails(e) ==
    /\ pc[e] = "acquire"
    /\ useRedis
    /\ Fault
    /\ lock' \in {lock, IF lock = NoLock THEN e ELSE lock}
    /\ Finish(e)
    /\ UNCHANGED <<modeVars, ticking>>

\* Without Redis the handler's end is the run's end.
HandlerEnds(e) ==
    /\ pc[e] = "handler"
    /\ IF useRedis
       THEN Goto(e, "get") /\ UNCHANGED runningJobs
       ELSE Finish(e)
    /\ UNCHANGED <<modeVars, lock, ticking, faults>>

\* Mutant of HandlerThrows: the flag is cleared on success alone.
ThrowLeavesFlag(e) ==
    /\ pc[e] = "handler"
    /\ Goto(e, "idle")
    /\ UNCHANGED <<modeVars, lock, runningJobs, ticking, faults>>

\* A handler that throws skips the release: the key stays until it expires.
HandlerThrows(e) ==
    /\ pc[e] = "handler"
    /\ Finish(e)
    /\ UNCHANGED <<modeVars, lock, ticking, faults>>

\* releaseLock reads the key ...
ReleaseGet(e) ==
    /\ pc[e] = "get"
    /\ IF lock = e
       THEN Goto(e, "del") /\ UNCHANGED runningJobs
       ELSE Finish(e)
    /\ UNCHANGED <<modeVars, lock, ticking, faults>>

\* ... and deletes it, whatever it holds by then.
ReleaseDel(e) ==
    /\ pc[e] = "del"
    /\ lock' = NoLock
    /\ Finish(e)
    /\ UNCHANGED <<modeVars, ticking, faults>>

\* A GET that fails reads null, a DEL that fails is only logged.
ReleaseFails(e) ==
    /\ pc[e] \in {"get", "del"}
    /\ Fault
    /\ Finish(e)
    /\ UNCHANGED <<modeVars, lock, ticking>>

\* The time to live runs out, under a run that is still going on unless every
\* run is shorter than its lease.
Expire ==
    /\ lock # NoLock
    /\ leaseCovers => pc[lock] \notin Holding
    /\ lock' = NoLock
    /\ UNCHANGED <<modeVars, pc, runningJobs, ticking, faults>>

\* stopScheduledJobs clears the interval; a run in flight goes on.
Stop(i) ==
    /\ i \in ticking
    /\ Fault
    /\ ticking' = ticking \ {i}
    /\ UNCHANGED <<modeVars, lock, pc, runningJobs>>

\* The process ends with whatever it was doing; the process that replaces it
\* has an instanceId of its own.
Crash(i) ==
    /\ i \in ticking \cup runningJobs
    /\ Fault
    /\ pc' = [e \in Execs |-> IF e[1] = i THEN "idle" ELSE pc[e]]
    /\ runningJobs' = runningJobs \ {i}
    /\ ticking' = ticking \ {i}
    /\ UNCHANGED <<modeVars, lock>>

-----------------------------------------------------------------------------

\* An execution takes its next step; Redis answers.
Step(e) ==
    \/ Acquire(e)
    \/ Skip(e)
    \/ HandlerEnds(e)
    \/ ReleaseGet(e)
    \/ ReleaseDel(e)

Next ==
    \/ \E e \in Execs : Tick(e) \/ Step(e)
                        \/ AcquireFails(e) \/ HandlerThrows(e) \/ ReleaseFails(e)
    \/ Expire
    \/ \E i \in Instances : Stop(i) \/ Crash(i)

Spec == Init /\ [][Next]_vars

\* Timers fire, calls to Redis return, handlers end, keys expire.
Fairness ==
    /\ \A e \in Execs : WF_vars(Tick(e)) /\ WF_vars(Step(e))
    /\ WF_vars(Expire)

LiveSpec == Spec /\ Fairness

-----------------------------------------------------------------------------

\* What the lock does ensure: while runs are shorter than their lease the handler
\* runs once at a time in all the processes together, also when processes crash or
\* stop, handlers throw and calls to Redis are lost.
SingleWithinLease ==
    useRedis /\ leaseCovers =>
        \A e, f \in Execs : pc[e] = "handler" /\ pc[f] = "handler" => e = f

\* An execution's release removes a lock that is not its own.
StealsLock(e) ==
    pc[e] = "del" /\ pc'[e] = "idle" /\ lock \notin {e, NoLock} /\ lock' = NoLock

\* While runs are shorter than their lease, no release takes the lock away from
\* the execution that holds it.
ReleaseWithinLease == [][leaseCovers => \A e \in Execs : ~StealsLock(e)]_vars

\* One process never overlaps its own runs, however long they take and
\* whatever becomes of the lock: what keeps a single process safe without Redis.
NoSelfOverlap ==
    \A e, f \in Execs : e[1] = f[1] /\ pc[e] # "idle" /\ pc[f] # "idle" => e = f

\* The job keeps being run: no crash, lost answer or failed handler leaves a lock
\* or a flag behind that stops the processes that remain.
JobKeepsRunning == []<>(\E e \in Execs : pc[e] = "handler")
=============================================================================
