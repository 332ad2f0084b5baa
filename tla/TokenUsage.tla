----------------------------- MODULE TokenUsage -----------------------------
(***************************************************************************)
(* Token accounting: TokenUsageMiddleware keeps, in the checkpointed state *)
(* of a thread, what the current run and the whole thread have used; the   *)
(* worker takes the figures of the run from the update chunks of the       *)
(* stream and stores them in agent_runs.token_usage when the run ends.     *)
(*                                                                         *)
(* The runs of one thread follow one another and may be retried, cancelled *)
(* or lost.  What the provider bills is recorded beside the code's         *)
(* figures, to compare them.                                               *)
(***************************************************************************)
EXTENDS Integers, FiniteSetsExt

CONSTANTS
    RunCount,     \* runs of the thread
    MaxCalls,     \* model calls of a run, its retries included
    MaxRestarts   \* retries of a run

ASSUME TokenUsageAssumption ==
    RunCount \in Nat /\ MaxCalls \in Nat /\ MaxRestarts \in Nat

UsageRuns == 1..RunCount \* in order

VARIABLES
    snapshot, \* token_usage in the last checkpoint of the thread
    live,     \* token_usage in the state of the executing graph
    seen,     \* the worker's local token_usage, the empty aggregate for None
    heard,    \* whether an update of this try has reached the worker
    stored,   \* agent_runs.token_usage of each run
    ending,   \* how each run ended: "none", "completed", "failed", "cancelled", "lost"
    current,  \* the run in progress and whether its graph is running
    restarts, \* retries of the run in progress
    billed    \* per run: the calls made, those that reported their usage, and its tokens

usageVars == <<snapshot, live, seen, heard, stored, ending, current, restarts, billed>>

\* A call reports usage that can be accumulated, or none; the model names itself
\* in the response, or the name its adapter has for it is used.
Buckets == {"response", "unattributed"}
ModelCalls == [reports: BOOLEAN, bucket: Buckets]

NoBucket == [calls |-> 0, reported |-> 0, tokens |-> 0]
EmptyAggregate == [b \in Buckets |-> NoBucket]
NoUsage == [run |-> 0, used |-> EmptyAggregate, thread |-> EmptyAggregate]

CallTokens == 2

\* _usage_for_accumulation
Reported(call) == IF call.reports THEN 1 ELSE 0

\* _add_call_to_aggregate
AddCall(aggregate, call) ==
    [aggregate EXCEPT ![call.bucket] =
        [calls    |-> @.calls + 1,
         reported |-> @.reported + Reported(call),
         tokens   |-> @.tokens + CallTokens * Reported(call)]]

\* _recompute_aggregate_totals
Total(aggregate) ==
    [calls    |-> aggregate["response"].calls + aggregate["unattributed"].calls,
     reported |-> aggregate["response"].reported + aggregate["unattributed"].reported,
     tokens   |-> aggregate["response"].tokens + aggregate["unattributed"].tokens]

\* Mutants: a retry starts counting afresh; the thread is forgotten with the run.
NeverSameRun(r) == FALSE
ThreadOfSameRun(r) == IF snapshot.run = r THEN snapshot.thread ELSE EmptyAggregate

SameRun(r) == snapshot.run = r

ThreadBefore(r) == snapshot.thread

\* before_agent
OnEntry(r) ==
    [run |-> r,
     used |-> IF SameRun(r) THEN snapshot.used ELSE EmptyAggregate,
     thread |-> ThreadBefore(r)]

\* _build_snapshot
AfterCall(call) ==
    [live EXCEPT !.used = AddCall(@, call), !.thread = AddCall(@, call)]

UsageInit ==
    /\ snapshot = NoUsage /\ live = NoUsage
    /\ seen = EmptyAggregate /\ heard = FALSE
    /\ stored = [r \in UsageRuns |-> EmptyAggregate]
    /\ ending = [r \in UsageRuns |-> "none"]
    /\ current = [run |-> 1, running |-> FALSE]
    /\ restarts = 0
    /\ billed = [r \in UsageRuns |-> NoBucket]

Bill(call) ==
    billed' = [billed EXCEPT ![current.run] =
                [calls    |-> @.calls + 1,
                 reported |-> @.reported + Reported(call),
                 tokens   |-> @.tokens + CallTokens * Reported(call)]]

\* The worker starts the graph, or starts it again from the last checkpoint, and
\* has heard nothing of it yet.
Enter ==
    /\ current.run \in UsageRuns /\ ~ current.running
    /\ current' = [current EXCEPT !.running = TRUE]
    /\ live' = OnEntry(current.run)
    /\ seen' = EmptyAggregate /\ heard' = FALSE
    /\ UNCHANGED <<snapshot, stored, ending, restarts, billed>>

\* The update of before_agent, the first that carries a token_usage
FirstUpdate ==
    /\ current.running /\ ~ heard
    /\ seen' = live.used /\ heard' = TRUE
    /\ UNCHANGED <<snapshot, live, stored, ending, current, restarts, billed>>

\* A model call returns; its update reaches the worker.
ModelCall ==
    /\ current.running /\ heard /\ billed[current.run].calls < MaxCalls
    /\ \E call \in ModelCalls :
        /\ live' = AfterCall(call)
        /\ seen' = AfterCall(call).used
        /\ Bill(call)
    /\ UNCHANGED <<snapshot, heard, stored, ending, current, restarts>>

\* Checkpoints are written in the background of the next step.
Checkpoint ==
    /\ current.running
    /\ snapshot' = live
    /\ UNCHANGED <<live, seen, heard, stored, ending, current, restarts, billed>>

NextRun == current' = [run |-> current.run + 1, running |-> FALSE] /\ restarts' = 0

\* mark_terminal with the worker's token_usage: None leaves the column alone.
StoreSeen == stored' = IF heard THEN [stored EXCEPT ![current.run] = seen] ELSE stored

\* When the stream is left, the checkpoint of every update that the worker has
\* heard is written; that of before_agent may not be if nothing was heard.
LastCheckpoint == snapshot' \in IF heard THEN {live} ELSE {snapshot, live}

\* The stream ends, normally or by a permanent error, and with it the run.
EndRun ==
    /\ current.running
    /\ \E how \in IF heard THEN {"completed", "failed"} ELSE {"failed"} :
        ending' = [ending EXCEPT ![current.run] = how]
    /\ LastCheckpoint
    /\ StoreSeen /\ NextRun
    /\ UNCHANGED <<live, seen, heard, billed>>

\* The cancel key is looked at before the chunk is, so the update behind the
\* chunk is not seen, be it that of a call or that of before_agent; its
\* checkpoint may be written or not.
CancelRun ==
    /\ current.running
    /\ \/ /\ heard /\ billed[current.run].calls < MaxCalls
          /\ \E call \in ModelCalls : Bill(call) /\ snapshot' \in {live, AfterCall(call)}
       \/ LastCheckpoint /\ billed' = billed
    /\ ending' = [ending EXCEPT ![current.run] = "cancelled"]
    /\ StoreSeen /\ NextRun
    /\ UNCHANGED <<live, seen, heard>>

\* A retryable error: the run goes back to the queue.
RestartRun ==
    /\ current.running /\ restarts < MaxRestarts
    /\ LastCheckpoint
    /\ restarts' = restarts + 1
    /\ current' = [current EXCEPT !.running = FALSE]
    /\ UNCHANGED <<live, seen, heard, stored, ending, billed>>

\* The worker dies; the sweep stores no usage.
LoseRun ==
    /\ current.running
    /\ ending' = [ending EXCEPT ![current.run] = "lost"]
    /\ NextRun
    /\ UNCHANGED <<snapshot, live, seen, heard, stored, billed>>

UsageNext ==
    Enter \/ FirstUpdate \/ ModelCall \/ Checkpoint \/ EndRun \/ CancelRun \/ RestartRun \/ LoseRun

UsageSpec == UsageInit /\ [][UsageNext]_usageVars

UsageTypeOK ==
    LET Bucket == [calls: Nat, reported: Nat, tokens: Nat]
        Aggregate == [Buckets -> Bucket]
        Snapshot == [run: {0} \cup UsageRuns, used: Aggregate, thread: Aggregate]
    IN  /\ snapshot \in Snapshot /\ live \in Snapshot
        /\ seen \in Aggregate /\ heard \in BOOLEAN
        /\ stored \in [UsageRuns -> Aggregate]
        /\ ending \in [UsageRuns -> {"none", "completed", "failed", "cancelled", "lost"}]
        /\ current \in [run: 1..(RunCount + 1), running: BOOLEAN]
        /\ restarts \in 0..MaxRestarts
        /\ billed \in [UsageRuns -> Bucket]

-----------------------------------------------------------------------------
(* Properties                                                               *)

\* What is stored for a run that completed is what it was billed, calls, reports
\* and tokens, however often it was retried and whatever ran before it on the
\* thread.  For one that failed it is that or nothing: a last try that fails
\* before its first update stores none of what the earlier tries were billed.
\* For any run it is never more.
StoredUsageIsBilled ==
    \A r \in UsageRuns :
        /\ ending[r] = "completed" => Total(stored[r]) = billed[r]
        /\ ending[r] = "failed" => Total(stored[r]) \in {billed[r], NoBucket}
        /\ Total(stored[r]).tokens <= billed[r].tokens

StoredTokens == [r \in UsageRuns |-> Total(stored[r]).tokens]

\* The thread's total is never below what its runs together are stored to have
\* used, those cancelled, lost and retried included: no run's tokens are
\* forgotten by the thread that the user sees the total of.
ThreadCoversRuns ==
    Total(snapshot.thread).tokens >= MapThenSumSet(LAMBDA r : StoredTokens[r], UsageRuns)
=============================================================================
