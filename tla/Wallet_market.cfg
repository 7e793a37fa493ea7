\* Payments, sales, script spends and key files of a few wallets.
SPECIFICATION Spec
CONSTANTS
    Address = {"alice", "bob", "carol", "plat", "x1", "x2"}
    Platform = "plat"
    Managed = {"x1", "x2"}
    ChangeAddr = "x1"
    Payee = {"bob"}
    FeeBps = 1
    BpsBase = 4
    Carrier = 1
    Amount = {1, 2}
    Price = {5}
    Fee = {0, 1}
    Bps = {2}
    Tranches = {2}
    MaxSigFiles = 2
    MinFee = 1
    Maturity = 1
    MaxHeight = 3
    Scenario <- MCScenario
INVARIANTS
    FeesExact
    RefusedOnlyForRace
    KeyRecoverable
PROPERTIES
    PaidAsAgreed
    DeliveredIfHeld
CHECK_DEADLOCK FALSE
