CONSTANTS
    r1 = r1
    r2 = r2
    e1 = e1
    e2 = e2
    e3 = e3
    e4 = e4
    None = None
    Runs <- TwoRuns
    Execs <- ThreeExecs
    Parent <- NoParents
    Cancellable <- SecondRun
    MaxTries = 2
    Faults <- NoStall
SPECIFICATION Spec
INVARIANT OutcomesAgree
PROPERTY FirstOutcomeStands
PROPERTY ImplementsLedger
CHECK_DEADLOCK FALSE
SYMMETRY Tokens
