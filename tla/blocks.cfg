SPECIFICATION BlocksSpec
CONSTANTS
    PoolBlocks = {b1, b2}
    GatewayBlocks = {g1}
    Claims = {c1}
    None = None
    MaxReports = 3
INVARIANTS
    BooksInv
    ListInv
PROPERTIES
    RowsOnlyGain
SYMMETRY Rivals
CHECK_DEADLOCK FALSE
