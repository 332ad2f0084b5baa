CONSTANTS
    r1 = r1
    r2 = r2
    e1 = e1
    e2 = e2
    e3 = e3
    e4 = e4
    None = None
    Runs <- TwoRuns
    Execs <- FourExecs
    Parent <- SecondIsChild
    Cancellable <- NoRun
    MaxTries = 2
    Faults <- NoFaults
SPECIFICATION FairSpec
INVARIANT PendingHasJob
PROPERTY EveryRunEnds
INVARIANT CascadeReachesChildren
CHECK_DEADLOCK FALSE
