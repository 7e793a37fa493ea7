\* Ledger rules under forks, crashes and rebuilds, at constant difficulty.
SPECIFICATION BoundedSpec
CONSTANTS
    TxId <- MCTxId
    Tx <- MCTx
    BodyId <- MCBodyId
    BodyOf <- MCBodyOf
    Block <- TxBlocks
    MaxStored = 5
    U64Max = 30
    InitialReward = 2
    HalvingInterval = 10
    MaxHalvingEras = 1
    Premint = 1
    Maturity = 2
    TargetSeconds = 2
    InitialBits = 1
    MinBits = 1
    MaxBits = 3
    RetargetWindow = 2
    RetargetActivation = 100
    EpochLength = 100
INVARIANTS
    TypeOK
    TipReplays
    UtxoMatchesChain
    SoundHistory
    SupplyBounded
CHECK_DEADLOCK FALSE
