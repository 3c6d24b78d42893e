SPECIFICATION Spec
CONSTANTS
    Users = {"kim"}
    DiskFaults = TRUE
    Orders = {o1, o2}
    Requests <- BuysAndSells
    Limit <- MCLimit
    DefaultLimit = 2
    MaxOrderAmount = 2
    MaxDailyOrders = 2
    MaxConcurrent = 2
    BrokerFaults = FALSE
    StopUsers = {"kim"}
CHECK_DEADLOCK FALSE
SYMMETRY OrderSymmetry
INVARIANTS
    OrderTypeOK
    StoppedUsersDoNotTrade
