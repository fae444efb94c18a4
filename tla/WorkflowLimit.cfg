\* An order that is delivered or cancelled ends the system: no deadlock check.
SPECIFICATION LimitSpec
CONSTANTS
    Orders = {o1, o2, o3}
    Online = {}
    Riders = {r1}
    Requests = {t1, t2}
    Poller = poller
    NoOrder = NoOrder
    NoRider = NoRider
    Plans = {}
    MaxActive = 1
    MaxAttempts = 1
    MaxFaults = 0
SYMMETRY OrderSymmetry
CHECK_DEADLOCK FALSE
INVARIANTS LimitOvershoot
