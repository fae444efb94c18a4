SPECIFICATION LiveSpec
CONSTANTS
    Calls = {t1, t2}
    MaxPayouts = 2
    AutoRelease = {TRUE, FALSE}
    MaxFaults = 1
CHECK_DEADLOCK FALSE
INVARIANTS TypeOK WalletsMatch OnePayout
PROPERTIES PayoutIsFinal HeldIsReleased
