\* Scans, answers and restarts of the exchange adapter under a moving chain.
SPECIFICATION Spec
CONSTANTS
    Address = {"a1", "a2"}
    Body <- MCBody
    OutputsOf <- MCOutputsOf
    Block <- MCBlock
    Work <- MCWork
    MaxCrashes = 2
INVARIANTS
    CreditedOnce
    LedgerIsScan
    CursorMissesNothing
PROPERTIES
    DepositsCredited
