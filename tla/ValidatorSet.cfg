SPECIFICATION FairSpec
CONSTANTS
    Signer = {1, 2, 3}
    GenesisPower <- MCGenesisPower
    MaxTotalVotingPower = 4
    SlashDivisor = 2
    MaxAckCount = 1
    ProducerCount = 1
    MaxUint64 = 15
    ByteBits = 2
    HashBytes = 2
    SlotsPerPower = 2
    MaxSlots = 8
INVARIANTS
    SetIsCurrent
    ConsensusAgrees
    PrioritiesBounded
    ProducersFollowPower
    ShuffleAsSpecified
PROPERTIES
    NewcomersWait
    EverybodyProposes
