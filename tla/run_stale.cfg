CONSTANTS
    r1 = r1
    r2 = r2
    e1 = e1
    e2 = e2
    e3 = e3
    e4 = e4
    None = None
    Runs <- OneRun
    Execs <- TwoExecs
    Parent <- NoParents
    Cancellable <- OneRun
    MaxTries = 2
    Faults <- StallOnly
SPECIFICATION Spec
PROPERTY StaleWriteRejected
CHECK_DEADLOCK FALSE
SYMMETRY Tokens
