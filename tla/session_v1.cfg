SPECIFICATION Spec
CONSTANTS
    Conns = {c1}
    Identities <- MCIdentities
    NoIdentity = NoIdentity
    Accounts <- MCAccounts
    Difficulties = {1, 3}
    Work = {2, 3}
    StartDifficulty = 2
    MinDifficulty = 2
    NetworkDifficulty = 3
    PayoutModes = {"solo", "pplns"}
    LastOutput = "b"
    MaxMessages = 4
    MaxTemplates = 2
    MaxRetargets = 1
INVARIANTS
    CreditedOnce
    ServedIsCurrent
    RowsInv
    AcceptedIsBooked
CHECK_DEADLOCK FALSE
