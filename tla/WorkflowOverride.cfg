\* An order that is delivered or cancelled ends the system: no deadlock check.
SPECIFICATION OverrideSpec
CONSTANTS
    Orders = {o1}
    Online = {o1}
    Riders = {r1, r2}
    Requests = {t1}
    Poller = poller
    NoOrder = NoOrder
    NoRider = NoRider
    Plans = {"auto"}
    MaxActive = 1
    MaxAttempts = 1
    MaxFaults = 0
    Admins = {a1}
    MaxOverrides = 1
SYMMETRY Symmetry
CHECK_DEADLOCK FALSE
INVARIANTS UnpaidNeverServed
PROPERTIES RiderKeptUnlessNamed StageFollowsLife
