SPECIFICATION FairSpec
CONSTANTS
    Sessions = {r1, r2}
    Standalone = {}
    MaxCallers = 2
    MaxTokens = 5
    MaxRetries = 2
    BalanceRequests = 1
PROPERTIES
    RefusedCallEnds
CHECK_DEADLOCK FALSE
