SPECIFICATION Spec
CONSTANTS
    Symbols <- Pair
    Classified <- PairClassified
    Sector <- PairSector
    Watchlists <- PairWatchlists
    ActiveStrategies <- Strategies
    MaxPositions <- TwoPerStrategy
    Balances = {100}
    OrderAmounts = {4}
    Modes = {"ws", "poll"}
    MaxLots = 2
    Faults = {"reject", "lost_reply", "cancel", "crash", "error", "disk"}
INVARIANTS
    BookMatchesBroker
PROPERTIES
    ImplementsAccount
CHECK_DEADLOCK FALSE
