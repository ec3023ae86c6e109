SPECIFICATION SyncFairSpec
CONSTANTS
    Sender = {a, b}
    BufferTime = 5
    TimeSteps = {0, 1, 4}
    None = None
    MaxNumber = 2
    MaxTxs = 1
PROPERTIES
    BufferedSyncKept
    EventuallyAllSynced
