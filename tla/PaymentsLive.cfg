SPECIFICATION LiveSpec
CONSTANTS
    Orders = {o1, o2}
    MaxAttempts = 1
    Calls = {t1, t2}
    MaxFaults = 1
CHECK_DEADLOCK FALSE
PROPERTIES CaptureArrives
