--------------------------- MODULE MCRunLifecycle ---------------------------
(***************************************************************************)
(* Small instances of RunLifecycle.  Owner tokens and runs are model       *)
(* values; tokens are interchangeable.                                     *)
(***************************************************************************)
EXTENDS RunRefinement, TLC

CONSTANTS r1, r2, e1, e2, e3, e4

OneRun    == {r1}
TwoRuns   == {r1, r2}
NoRun     == {}
SecondRun == {r2}
TwoExecs  == {e1, e2}
ThreeExecs == {e1, e2, e3}
FourExecs == {e1, e2, e3, e4}

NoParents == [r \in Runs |-> None]
SecondIsChild == [r \in Runs |-> IF r = r2 THEN r1 ELSE None]

NoFaults  == {}
AllFaults == FaultKinds
CrashOnly == {"crash"}
StallOnly == {"stall"}
TimeoutOnly == {"timeout"}
NoStall   == {"timeout", "blip"}

Tokens    == Permutations(Execs)
=============================================================================
