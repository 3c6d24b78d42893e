SPECIFICATION FairSpec
CONSTANTS
    Pids = {p1, p2, p3}
    NoPid = NoPid
INVARIANTS
    ProcessTypeOK
    AtMostOneTrader
PROPERTIES
    StopsForGood
    EveryStopEnds
    NextDayFollows
