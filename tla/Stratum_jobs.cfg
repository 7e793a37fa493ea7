\* Jobs, shares and difficulty changes on one connection.
SPECIFICATION StratumSpec
CONSTANTS
    Tip <- MCTip
    TipHeight <- MCHeight
    Work <- MCWork
    Bits <- MCBits
    Conn = {"c"}
    Poller = {"p", "q"}
    MinBits = 1
    MaxBits = 2
    InitialBits = 1
    Zeros = {1, 3}
    MaxFound = 2
    MaxUnread = 0
INVARIANTS
    SubmittedAsMined
    WeightEarned
    EndsOnCurrent
    DifficultyAgreed
PROPERTIES
    WorkFollowsHeight
