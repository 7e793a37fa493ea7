\* Every unlocking script of up to four tokens against every standard lock.
SPECIFICATION Spec
CONSTANTS
    Key = {"a", "b"}
    Lock <- MCLock
    Heights = {1, 2}
    MaxStackDepth = 6
    MaxSig = 4
INVARIANTS
    OpensOnlyForOwner
    OwnerOpens
CHECK_DEADLOCK FALSE
