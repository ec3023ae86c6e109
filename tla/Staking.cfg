SPECIFICATION FairSpec
CONSTANTS
    v1 = v1
    v2 = v2
    a = a
    b = b
    ValidatorID = {v1, v2}
    Signer = {a, b}
    GenesisSigner <- MCGenesisSigner
    SyncRoot = {"eth"}
    StakingBufferTime = 2
    TimeSteps = {1}
    None = None
    MaxNonce = 3
    MaxEpoch = 1
    MaxTxs = 1
INVARIANTS
    StoreMirrorsStakeChain
    OneSignerWithPower
    QueueHoldsUnsynced
PROPERTIES
    ImplementsReplication
    EventuallySynced
