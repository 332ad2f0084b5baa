CONSTANTS
    r1 = r1
    r2 = r2
    e1 = e1
    e2 = e2
    e3 = e3
    e4 = e4
    None = None
    Runs <- TwoRuns
    Execs <- TwoExecs
    Parent <- NoParents
    Cancellable <- SecondRun
    MaxTries = 2
    Faults <- AllFaults
SPECIFICATION Spec
INVARIANT TypeOK
INVARIANT RunningIsLeased
INVARIANT FinishedOnce
INVARIANT OneExecutionPerRun
INVARIANT OneAnswerPerRun
PROPERTY AttemptsAreFacts
PROPERTY OnlyStaleCancelsReopen
CHECK_DEADLOCK FALSE
SYMMETRY Tokens
