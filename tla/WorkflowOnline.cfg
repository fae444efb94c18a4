\* An order that is delivered or cancelled ends the system: no deadlock check.
SPECIFICATION Spec
CONSTANTS
    Orders = {o1}
    Online = {o1}
    Riders = {r1}
    Requests = {t1, t2}
    Poller = poller
    NoOrder = NoOrder
    NoRider = NoRider
    Plans = {"auto", "manual"}
    MaxActive = 1
    MaxAttempts = 1
    MaxFaults = 1
SYMMETRY Symmetry
CHECK_DEADLOCK FALSE
INVARIANTS UnpaidNeverServed StockFollowsCancel ReleasedMeansReturned
