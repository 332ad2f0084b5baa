CONSTANTS
    q1 = q1
    q2 = q2
    q3 = q3
    q4 = q4
    None = None
    Requests <- FourRequests
    Policies <- EnqueueOnly
    ApiCrashes = FALSE
SPECIFICATION Spec
INVARIANT OnePendingSteer
SYMMETRY RequestSymmetry
CHECK_DEADLOCK FALSE
