\* Fork choice when retargeting makes branches differ in work per block.
SPECIFICATION BoundedSpec
CONSTANTS
    TxId <- MCTxId
    Tx <- MCTx
    BodyId <- MCBodyId
    BodyOf <- MCBodyOf
    Block <- WorkBlocks
    MaxStored = 6
    U64Max = 30
    InitialReward = 2
    HalvingInterval = 10
    MaxHalvingEras = 1
    Premint = 1
    Maturity = 2
    TargetSeconds = 2
    InitialBits = 2
    MinBits = 1
    MaxBits = 3
    RetargetWindow = 3
    RetargetActivation = 0
    EpochLength = 100
INVARIANTS
    CachesCoherent
    CanonicalIsAncestry
    TipHasMostWork
PROPERTIES
    DisconnectedReported
    ImplementsBestChain
CHECK_DEADLOCK FALSE
