SPECIFICATION GenesisSpec
CONSTANTS
    None = None
    RootChain = {tron, eth}
    Base = 3
    Limit = 2
    Second = 2
    TimeSteps = {1, 2}
    MaxID = 2
    MaxRecords = 3
    MaxTime = 6
    MaxTxs = 2
SYMMETRY MCSymmetry
INVARIANTS
    AnswersFinal
PROPERTIES
    LogKept
