------------------------------ MODULE RunLedger ------------------------------
(***************************************************************************)
(* What the run tables promise, whatever workers, retries, sweeps and      *)
(* faults do: a run waits until a worker takes it, is held by one worker   *)
(* at a time, may be given back and taken again by another, and ends.  A   *)
(* worker token takes at most one run, once.  Only a run that may be       *)
(* cancelled is ever taken out of the hands of the worker that holds it,   *)
(* and only such a run is open again after its end, in the same hands.     *)
(***************************************************************************)
CONSTANTS
    Runs,       \* the rows of agent_runs
    Workers,    \* owner tokens
    Stealable,  \* the runs somebody may cancel
    None        \* no holder

VARIABLES
    phase,      \* "absent", "waiting", "held" or "ended"
    holder,     \* the worker a run was last taken by and not given back by
    takers      \* every worker that ever took the run

ledgerVars == <<phase, holder, takers>>

Init ==
    /\ phase \in [Runs -> {"absent", "waiting"}]
    /\ holder = [r \in Runs |-> None]
    /\ takers = [r \in Runs |-> {}]

\* a row is created for a run
Submit(r) ==
    /\ phase[r] = "absent"
    /\ phase' = [phase EXCEPT ![r] = "waiting"]
    /\ UNCHANGED <<holder, takers>>

Take(r, w) ==
    /\ phase[r] = "waiting" \/ (phase[r] = "held" /\ r \in Stealable)
    /\ \A q \in Runs : w \notin takers[q]
    /\ phase' = [phase EXCEPT ![r] = "held"]
    /\ holder' = [holder EXCEPT ![r] = w]
    /\ takers' = [takers EXCEPT ![r] = @ \cup {w}]

GiveBack(r) ==
    /\ phase[r] = "held"
    /\ phase' = [phase EXCEPT ![r] = "waiting"]
    /\ holder' = [holder EXCEPT ![r] = None]
    /\ UNCHANGED takers

\* by the holder, or several at once by the sweep
End(S) ==
    /\ \A r \in S : phase[r] \in {"waiting", "held"}
    /\ phase' = [r \in Runs |-> IF r \in S THEN "ended" ELSE phase[r]]
    /\ UNCHANGED <<holder, takers>>

\* by cancels that saw the runs before their end
Reopen(S) ==
    /\ S \subseteq Stealable
    /\ \A r \in S : phase[r] = "ended"
    /\ phase' = [r \in Runs |-> IF r \notin S THEN phase[r]
                               ELSE IF holder[r] = None THEN "waiting" ELSE "held"]
    /\ UNCHANGED <<holder, takers>>

Next ==
    \/ \E r \in Runs : Submit(r) \/ GiveBack(r) \/ \E w \in Workers : Take(r, w)
    \/ \E S \in SUBSET Runs : End(S) \/ Reopen(S)

Spec == Init /\ [][Next]_ledgerVars
=============================================================================
