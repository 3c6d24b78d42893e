SPECIFICATION FairSpec
CONSTANTS
    Symbols <- Trio
    Classified <- TrioClassified
    Sector <- TrioSector
    Watchlists <- TrioWatchlists
    ActiveStrategies <- Strategies
    MaxPositions <- TwoAndOne
    Balances = {100, 10}
    OrderAmounts = {4}
    Modes = {"poll"}
    MaxLots = 2
    Faults = {}
INVARIANTS
    TypeOK
    NoLeakedBudget
    MomentumIsIntraday
PROPERTIES
    KillFileClosesHoldings
CHECK_DEADLOCK FALSE
