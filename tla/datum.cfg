SPECIFICATION Spec
CONSTANTS
    PayoutModes = {"solo", "pplns"}
    JobIds = {j1, j2}
    MaxIds = 1
    MaxMessages = 3
    MaxPows = 2
    MaxTemplates = 2
INVARIANTS
    ReadInStep
    PayoutsAgree
    VerdictIsItsOwn
    SessionInv
SYMMETRY JobSymmetry
CHECK_DEADLOCK FALSE
