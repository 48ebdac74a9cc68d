SPECIFICATION Spec
CONSTANTS
    Conns = {c1}
    OpeningDifficulties = {3}
    Difficulties = {2}
    Work = {2, 3}
    StartDifficulty = 2
    MinDifficulty = 2
    NetworkDifficulty = 3
    PayoutModes = {"pplns"}
    MaxPrefix = 2
    HashLimit = 1
    MaxMessages = 3
    MaxTemplates = 2
    h1 = h1
    h2 = h2
    Heights = {h1, h2}
INVARIANTS
    CreditedOnce
    ChannelsAreCurrent
    StaleIsRefused
    HoldingsInv
    AcceptedIsRecorded
SYMMETRY Symmetry
CHECK_DEADLOCK FALSE
