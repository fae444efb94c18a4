SPECIFICATION Spec
CONSTANTS
    Orders = {o1, o2}
    MaxAttempts = 2
    Calls = {t1, t2}
    MaxFaults = 1
SYMMETRY Symmetry
CHECK_DEADLOCK FALSE
INVARIANTS CapturedOnce OpenedIsCaptured GroupPaidIsCaptured
PROPERTIES UnmarkedByStaleReport FollowsBilling
