SPECIFICATION Spec
CONSTANTS
    Conns = {c1}
    ReqIds = {r1, r2}
    Ttl = 1
    Retention = 1
    MaxTime = 3
    MaxTemplates = 2
    MaxMessages = 6
    MaxSolutions = 1
INVARIANTS
    JobsInv
    PushedIsBooked
    SubmittedOnce
    TemplatesReachClient
CHECK_DEADLOCK FALSE
