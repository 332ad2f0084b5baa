SPECIFICATION Spec
CONSTANTS
    p1 = p1  p2 = p2  c1 = c1  c2 = c2  t1 = t1
    Parents <- TwoParents
    Calls <- TwoCalls
    Creator <- CreatorOf
    Thread <- ThreadOf
    Blocking <- TaskCalls
    MaxJobs = 2
    MaxRetries = 1
    Flaky <- Retried
    Cancellable <- Cancelled
    Mortal <- Dying
INVARIANTS
    OneRunPerThread
    NoChildOutlivesCascade
    ReportedChildIsOver
PROPERTIES
    BusyOnlyIfActive
    QueuedRunsEnd
CHECK_DEADLOCK FALSE
