SPECIFICATION LiveSpec
CONSTANTS
    Instances = {i1, i2}
    Slots = {s1, s2}
    NoLock = NoLock
    MaxFaults = 1
\* Every process may have crashed or stopped: no deadlock check.
CHECK_DEADLOCK FALSE
INVARIANTS SingleWithinLease NoSelfOverlap
PROPERTIES ReleaseWithinLease JobKeepsRunning
