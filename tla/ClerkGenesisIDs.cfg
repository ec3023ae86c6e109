SPECIFICATION GenesisSpec
CONSTANTS
    None = None
    RootChain = {tron, eth}
    Base = 3
    Limit = 2
    Second = 2
    TimeSteps = {1}
    MaxID = 2
    MaxRecords = 3
    MaxTime = 3
    MaxTxs = 1
SYMMETRY MCSymmetry
INVARIANTS
    ProcessedIsRecorded
