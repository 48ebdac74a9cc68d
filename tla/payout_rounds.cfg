SPECIFICATION RoundsSpec
CONSTANTS
    Addresses = {1, 2, 3}
    OutputWeight <- MCOutputWeight
    WeightBudget = 4
    MaxOutputs = 2
    MinOutput = 2
    FeeAddress = 2
    NoFee = NoFee
    FeePercent = 30
    Works = {0, 1, 4}
    Values = {4, 9}
    MaxBlocks = 3
INVARIANTS
    BooksBalance
    CoinbaseInv
    GrossIsFair
CHECK_DEADLOCK FALSE
