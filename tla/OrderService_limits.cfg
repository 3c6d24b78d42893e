SPECIFICATION Spec
CONSTANTS
    Users = {"kim"}
    DiskFaults = FALSE
    Orders = {o1, o2, o3}
    Requests <- MixedBuys
    Limit <- MCLimit
    DefaultLimit = 2
    MaxOrderAmount = 2
    MaxDailyOrders = 1
    MaxConcurrent = 2
    BrokerFaults = TRUE
    StopUsers = {}
CHECK_DEADLOCK FALSE
SYMMETRY OrderSymmetry
INVARIANTS
    LimitsBounded
    RowsMatchBroker
