SPECIFICATION Spec
CONSTANTS
    Users = {"admin", "user"}
    Admins = {"admin"}
    Replies <- MCReplies
    WinPercents = {30, 50}
    Typed <- MCTyped
    Seed <- MCSeed
    GeneratedIds = TRUE
    MaxDays = 2
    MaxRows = 2
INVARIANTS
    TuningTypeOK
    
    NothingAppliedUnapproved
PROPERTY
    NoLateDecision
