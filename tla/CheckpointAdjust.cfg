SPECIFICATION Spec
CONSTANTS
    tron = tron
    eth = eth
    None = None
    RootChain = {tron}
    Stake = tron
    Activation <- MCActivation
    Proposer = {p1}
    Lengths = {2, 3}
    BufferTime = 1
    TimeSteps = {0, 1}
    MaxBlock = 5
    MaxNumber = 2
    MaxTime = 3
    MaxTxs = 2
INVARIANTS
    AckAdjustedToRootChain
