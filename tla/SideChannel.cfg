SPECIFICATION FairSpec
CONSTANTS
    v1 = v1
    v2 = v2
    b1 = b1
    NoTx = NoTx
    Validator = {v1, v2, b1}
    Byzantine = {b1}
    PowerOf <- MCPowerOf
    ValidatorSets <- MCValidatorSets
    Tx = {t1}
    MaxHeight = 6
INVARIANTS
    NoStaleTx
    RunsOnceOnTime
    ApprovedByQuorum
    EffectConfirmed
PROPERTIES
    EventuallyRun
