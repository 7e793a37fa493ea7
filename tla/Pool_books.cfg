\* Shares, found blocks and payouts, with lost answers and a crash.
SPECIFICATION Spec
CONSTANTS
    h1 = h1
    h2 = h2
    Miner = {"alice", "bob"}
    Found <- MCFound
    HeightOf <- MCHeightOf
    Gross <- MCGross
    ShareBits = {0, 1}
    Handler = {h1, h2}
    WindowSize = 2
    FeeBps = 20
    FeeBase = 100
    Threshold = 5
    RelayFee = 1
    Funds = 14
    MaxShares = 1
    MaxEntries = 4
    MaxCrashes = 1
    MaxManual = 1
CONSTRAINT Orderly
SYMMETRY Symmetry
INVARIANTS
    CreditsAreReward
    BooksMatchPayments
CHECK_DEADLOCK FALSE
