\* An order that is delivered or cancelled ends the system: no deadlock check.
SPECIFICATION Spec
CONSTANTS
    Orders = {o1}
    Online = {}
    Riders = {r1, r2}
    Requests = {t1}
    Poller = poller
    NoOrder = NoOrder
    NoRider = NoRider
    Plans = {"delayed", "now"}
    MaxActive = 1
    MaxAttempts = 2
    MaxFaults = 1
SYMMETRY Symmetry
CHECK_DEADLOCK FALSE
INVARIANTS TypeOK OnTheRoadHasRider HardStop
PROPERTIES FirstRiderWins FollowsLife
