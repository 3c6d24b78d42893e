SPECIFICATION FairSpec
CONSTANTS
    Keys = {k1, k2, k3}
    MaxRetries = 2
    MaxUnread = 2
INVARIANTS
    SocketTypeOK
    LogIsServed
    ServerKnowsWanted
PROPERTIES
    ComesThroughOrEnds
