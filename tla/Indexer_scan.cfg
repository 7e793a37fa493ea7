\* Scans, rollbacks, rebuilds and restarts under a moving chain.
SPECIFICATION Spec
CONSTANTS
    Address = {"alice", "bob"}
    TxId <- MCTxId
    Tx <- MCTx
    Body <- MCBody
    TxsOf <- MCTxsOf
    Block <- MCBlock
    Work <- MCWork
    MaxRoyalty = 10
    MaxDecimals = 2
    CheckpointInterval = 2
    CheckpointSafety = 1
    MaxCrashes = 1
INVARIANTS
    IndexIsReplay
    AssetsConserved
PROPERTIES
    CatchesUp
CHECK_DEADLOCK FALSE
