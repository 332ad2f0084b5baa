CONSTANTS
    q1 = q1
    q2 = q2
    q3 = q3
    q4 = q4
    None = None
    Requests <- FourRequests
    Policies <- SupportedPolicies
    ApiCrashes = TRUE
SPECIFICATION Spec
INVARIANT RejectedOnlyIfBusy
INVARIANT OneActiveRun
INVARIANT DispatchedIffRun
PROPERTY FirstComeFirstServed
SYMMETRY RequestSymmetry
CHECK_DEADLOCK FALSE
