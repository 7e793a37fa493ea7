\* Updates of the ban list that do not overlap.
SPECIFICATION PeersSpec
CONSTANTS
    c1 = c1
    c2 = c2
    c3 = c3
    Ip = {"a", "b"}
    Honest = {}
    Conn = {c1, c2, c3}
    Admin = "admin"
    MaxInbound = 2
    BanThreshold = 3
    BanDuration = 2
    ScoreBlock = 2
    ScoreTx = 1
    ScoreMsg = 1
    ScoreHandshake = 3
    ScoreMax = 4
    MaxPanics = 2
    MaxTime = 5
CONSTRAINT Orderly
SYMMETRY Symmetry
INVARIANTS
    InboundBounded
    ScoresAddUp
PROPERTIES
    BanHoldsUnlessRaced
CHECK_DEADLOCK FALSE
