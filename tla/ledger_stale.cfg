SPECIFICATION Spec
CONSTANTS
    a1 = a1
    a2 = a2
    Addresses = {a1, a2}
    Handlers = {h1, h2}
    Payments <- MCPayments
    Value <- MCOwnValue
    NoSnapshot = NoSnapshot
    MaxHeight = 2
    MaxWindow = 1
SYMMETRY Symmetry
INVARIANTS
    CarriedBalances
CHECK_DEADLOCK FALSE
