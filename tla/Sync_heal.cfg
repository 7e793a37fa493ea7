\* Catching up with a peer across a fork.
SPECIFICATION BoundedSyncSpec
CONSTANTS
    TxId <- MCTxId
    Tx <- MCTx
    BodyId <- MCBodyId
    BodyOf <- MCBodyOf
    Block <- ForkBlocks
    MaxStored = 3
    SyncBatchSize = 1
    MaxForkDepth = 2
    MinRelayFee = 1
    MaxMempool = 2
    U64Max = 30
    InitialReward = 2
    HalvingInterval = 10
    MaxHalvingEras = 1
    Premint = 2
    Maturity = 0
    TargetSeconds = 2
    InitialBits = 2
    MinBits = 1
    MaxBits = 3
    RetargetWindow = 3
    RetargetActivation = 0
    EpochLength = 3
PROPERTIES
    SyncHeals
CHECK_DEADLOCK FALSE
