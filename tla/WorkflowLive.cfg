\* An order that is delivered or cancelled ends the system: no deadlock check.
SPECIFICATION LiveSpec
CONSTANTS
    Orders = {o1}
    Online = {}
    Riders = {}
    Requests = {t1}
    Poller = poller
    NoOrder = NoOrder
    NoRider = NoRider
    Plans = {"delayed"}
    MaxActive = 1
    MaxAttempts = 2
    MaxFaults = 1
CHECK_DEADLOCK FALSE
PROPERTIES SellerPendingEnds BroadcastStarts RetryLoopEnds
