---------------------------- MODULE RunRefinement ----------------------------
(***************************************************************************)
(* RunLifecycle implements RunLedger: the phase of a run is its status     *)
(* without the cancel request, its holder is worker_id, and its takers are *)
(* the workers of its attempt rows.                                        *)
(***************************************************************************)
EXTENDS RunLifecycle

\* A cancel request changes the status of a row, and neither who holds it nor
\* whether it has ended.
PhaseOf(r) ==
    IF run[r].status \in {"absent"} \cup Terminal
    THEN IF run[r].status = "absent" THEN "absent" ELSE "ended"
    ELSE IF run[r].worker = None THEN "waiting" ELSE "held"

TakersOf(r) == {attempts[r][i].worker : i \in DOMAIN attempts[r]}

Ledger == INSTANCE RunLedger WITH
    Workers   <- Execs,
    Stealable <- Runs \ Undisturbed,
    phase     <- [r \in Runs |-> PhaseOf(r)],
    holder    <- [r \in Runs |-> run[r].worker],
    takers    <- [r \in Runs |-> TakersOf(r)]

\* Every behaviour of execute_agent_run, its heartbeat, the sweep and the
\* cancel requests, under every fault, is a behaviour of the ledger.
ImplementsLedger == Ledger!Spec
=============================================================================
