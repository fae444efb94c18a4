SPECIFICATION Spec
CONSTANTS
    Calls = {t1, t2}
    MaxCodes = 3
    MaxCases = 2
    MaxFaults = 1
SYMMETRY Symmetry
CHECK_DEADLOCK FALSE
INVARIANTS DeliveredByCode AwaitingHasReport ChargedOnce
PROPERTIES FinalUnlessBlind
