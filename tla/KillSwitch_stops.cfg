SPECIFICATION SwitchSpec
CONSTANTS
    Users = {kim, lee}
    DiskFaults = FALSE
INVARIANTS
    StopSurvives
PROPERTIES
    HardStopOnlyResumed
    ImplementsStopFlag
