SPECIFICATION Spec
CONSTANTS
    v1 = v1
    v10 = v10
    ValidatorID = {v1}
    IDBytes <- MCIDBytes
    IndexBytes <- MCIndexBytes
    GenesisPower <- MCOnePower
    SignedBlocksWindow = 2
    MinSigned = 1
    SlashFractionDowntime = 25
    SlashFractionDoubleSign = 50
    JailFractionLimit = 50
    None = None
    VoterSets = {{}, {v1}}
    DoubleSigners = {v1}
    MaxMissed = 3
    MaxTicks = 2
    MaxUnjails = 1
    MaxTxs = 1
PROPERTIES
    JailedUntilUnjail
