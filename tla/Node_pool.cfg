\* Mempool and block handlers on a node whose chain reorganises.
SPECIFICATION BoundedNodeSpec
CONSTANTS
    TxId <- MCTxId
    Tx <- MCTx
    BodyId <- MCBodyId
    BodyOf <- MCBodyOf
    Block <- NodeBlocks
    MaxStored = 6
    MinRelayFee = 1
    MaxMempool = 2
    U64Max = 30
    InitialReward = 2
    HalvingInterval = 10
    MaxHalvingEras = 1
    Premint = 6
    Maturity = 0
    TargetSeconds = 2
    InitialBits = 1
    MinBits = 1
    MaxBits = 3
    RetargetWindow = 2
    RetargetActivation = 100
    EpochLength = 100
INVARIANTS
    NoPendingConflict
    PoolWithinLimits
    TemplateAccepted
PROPERTIES
    OrphansRequeued
    RemovedOnlyIfMined
CHECK_DEADLOCK FALSE
