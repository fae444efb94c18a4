\* An order that is delivered or cancelled ends the system: no deadlock check.
SPECIFICATION LiveSpec
CONSTANTS
    Orders = {o1}
    Online = {}
    Riders = {r1}
    Requests = {t1}
    Poller = poller
    NoOrder = NoOrder
    NoRider = NoRider
    Plans = {"delayed", "now"}
    MaxActive = 1
    MaxAttempts = 1
    MaxFaults = 0
CHECK_DEADLOCK FALSE
PROPERTIES CancelledIsFinal
