SPECIFICATION FairSpec
CONSTANTS
    s1 = s1
    s2 = s2
    s3 = s3
    w1 = w1
    w2 = w2
    r1 = r1
    r2 = r2
    NoRoller = NoRoller
    Shares = {s1, s2, s3}
    PplnsShares = {s1, s2, s3}
    Workers = {w1, w2}
    Home <- MCHome
    Rollers = {r1, r2}
    Lag = 4
    MaxSharesPerBatch = 2
    MaxDelay = 1
    MaxSkew = 1
    AcceptAt <- MCAcceptAt
    Horizon = 5
    MaxAborts = 1
INVARIANTS
    BatchesDisjoint
    BatchesComplete
    NoShareSkipped
PROPERTIES
    ImplementsLedger
    EveryShareRolledUp
CHECK_DEADLOCK FALSE
