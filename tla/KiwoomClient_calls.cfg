SPECIFICATION Spec
CONSTANTS
    Sessions = {r1, r2}
    Standalone = {trader}
    MaxCallers = 2
    MaxTokens = 6
    MaxRetries = 3
    BalanceRequests = 2
SYMMETRY RequestSymmetry
INVARIANTS
    GatewayTypeOK
    OrderOnce
    RefusedTokenNotResent
    SomeoneProceeds
CHECK_DEADLOCK FALSE
