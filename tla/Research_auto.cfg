SPECIFICATION Spec
CONSTANTS
    Symbols <- MCSymbols
    Markets <- MCMarkets
    PageSize = 3
    Unreadable = Unreadable
    MaxPages <- MCPages
    RsiPeriod = 2
    BollingerPeriod = 3
    AtrPeriod = 2
    AdxPeriod = 2
    VolumeDays = 2
    YearDays = 6
    TraderArgs <- MCArgs
    MinStocks = 1
    Threshold <- MCThreshold
    VolumeRatio <- MCVolumeRatio
    BullishDays = 2
    DefaultSymbols <- MCDefault
    Bars <- MCBars
    Quotes <- MCQuotes
    Times = {905, 1000, 1515}
    MaxBars = 3
    Grids <- MCGrids
    MinTrades = 1
    Histories <- MCHistories
    PoolStocks <- MCPool
    MaMonths = 3
    SlopeMonths = 2
    VolumeMonths = 2
INVARIANTS
    PagesGiveNewestDays
    WatchedTwiceOnlyIfUnloaded
    FirstExit
    ReplayBuysLikeTheTrader
    WorthEntering
    BuysWhatItMeasured
CHECK_DEADLOCK FALSE
