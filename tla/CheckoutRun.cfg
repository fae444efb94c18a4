SPECIFICATION Spec
CONSTANTS
    Calls = {t1, t2}
    Orders = {o1, o2}
    Charges = {c1}
    NoOrder = NoOrder
    Stock = 1
    Funds = 1
    InCart = 1
    MaxUnits = 3
    MaxRefunds = 1
    MaxOverrides = 1
SYMMETRY Symmetry
CHECK_DEADLOCK FALSE
INVARIANTS NoOversell TakenOnce WalletCovers AppliedIsCarried
PROPERTIES SettledIsFinal
