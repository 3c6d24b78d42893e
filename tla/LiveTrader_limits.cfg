SPECIFICATION Spec
CONSTANTS
    Symbols <- MCSymbols
    Classified <- MCClassified
    Sector <- MCSector
    Watchlists <- WholeList
    ActiveStrategies <- Strategies
    MaxPositions <- TwoAndOne
    Balances = {100}
    OrderAmounts = {2, 25}
    Modes = {"ws"}
    MaxLots = 2
    Faults = {"reject"}
INVARIANTS
    PositionLimit
    SectorOncePerDay
    ThreeStrikes
    BudgetExact
CHECK_DEADLOCK FALSE
