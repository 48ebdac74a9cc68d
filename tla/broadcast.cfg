SPECIFICATION FairSpec
CONSTANTS
    Workers = {w1}
    None = None
    Budget <- MCOneOfEach
    MaxTip = 1
    MaxQueue = 1
INVARIANTS
    WorkersInv
PROPERTIES
    WorkersCatchUp
CHECK_DEADLOCK FALSE
