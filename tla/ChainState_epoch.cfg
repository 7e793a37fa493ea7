\* Branches that part before a change of the dataset epoch.
SPECIFICATION BoundedSpec
CONSTANTS
    TxId <- MCTxId
    Tx <- MCTx
    BodyId <- MCBodyId
    BodyOf <- MCBodyOf
    Block <- EpochBlocks
    MaxStored = 6
    U64Max = 30
    InitialReward = 2
    HalvingInterval = 10
    MaxHalvingEras = 1
    Premint = 1
    Maturity = 2
    TargetSeconds = 2
    InitialBits = 1
    MinBits = 1
    MaxBits = 3
    RetargetWindow = 2
    RetargetActivation = 100
    EpochLength = 2
INVARIANT ForkBlocksApply
CHECK_DEADLOCK FALSE
