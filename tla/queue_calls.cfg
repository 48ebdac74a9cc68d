SPECIFICATION QueueFairSpec
CONSTANTS
    CallerShares = {s1, s2, s3, s4, s5}
    BatchSize = 2
    MaxQueueSize = 3
INVARIANTS
    QueueInv
PROPERTIES
    CallsEnd
    ImplementsJournal
CHECK_DEADLOCK FALSE
