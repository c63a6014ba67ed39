SPECIFICATION FairSpec
CONSTANTS
    Job = {j1}
    None = None
    Schedule <- AllKinds
    MaxTime = 3
    MaxCrash = 2
INVARIANTS
    AtMostOnce
PROPERTIES
    NotEarly
    RemovedStaysRemoved
    DueJobsRun
CHECK_DEADLOCK FALSE
