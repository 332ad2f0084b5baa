----------------------------- MODULE Subagents -----------------------------
(***************************************************************************)
(* Subagent tool calls: a running agent run (the creator) starts child     *)
(* runs through SubagentRunService.start, waits for them or looks them up  *)
(* later, while parents and children share the slots of the ARQ workers.   *)
(* A tool call starts at most one run, because the request id is a hash of *)
(* the creator, the child thread and the tool call; so the run of a call   *)
(* is named by the call.                                                   *)
(*                                                                         *)
(* start() is one transaction that locks the row of the creator, then the  *)
(* conversation of the child thread; its steps between two awaits are      *)
(* actions.  A cancel request reads the run and writes it later, whatever  *)
(* it is by then.  The inner life of a run (leases, attempts, deliveries,  *)
(* retries of a child) is RunLifecycle's; a run here ends, retries, or     *)
(* loses its worker, and the sweep may fail it before its worker is done.  *)
(***************************************************************************)
EXTENDS Integers, FiniteSets

CONSTANTS
    Parents,     \* top-level runs
    Calls,       \* tool calls, and the child runs they start
    Creator,     \* the run whose agent makes the call
    Thread,      \* the child thread of the call, its own or one it continues
    Blocking,    \* the calls of the tool task; the others are subagent_start
    MaxJobs,     \* job slots of the worker fleet
    Flaky,       \* parents whose stream may end in an error
    MaxRetries,  \* retries of a parent after a retryable error
    Cancellable, \* runs that somebody may ask to cancel
    Mortal       \* runs whose worker may die or stall

Runs == Parents \cup Calls

ASSUME SubagentsAssumption ==
    /\ Parents \cap Calls = {}
    /\ Creator \in [Calls -> Parents] \* a subagent starts no subagent
    /\ Blocking \subseteq Calls
    /\ MaxJobs \in Nat \ {0} /\ MaxRetries \in Nat /\ Flaky \subseteq Parents
    /\ Cancellable \subseteq Runs /\ Mortal \subseteq Runs

VARIABLES
    row,       \* the status of each row of agent_runs
    rejected,  \* the calls whose request is committed as rejected
    queue,     \* the runs with a job that waits for a slot
    phase,     \* where the worker of each run stands
    retries,   \* how often each parent was released for a retry
    finished,  \* the runs whose stream ends in run-finished
    cancelReads, \* the runs that some cancel request has read as pending or running
    kids,      \* the active children each run's cascade has read
    cancelling, \* the cancel requests committed, their key not yet set
    cancelKey, \* the runs whose cancel key is set
    at,        \* where each tool call stands
    answer     \* what the tool last told the model

callVars == <<at, answer>>
cancelVars == <<cancelReads, kids, cancelling, cancelKey>>
vars == <<row, rejected, queue, phase, retries, finished, cancelVars, callVars>>

\* "finished" stands for what its own worker writes, completed or failed;
\* "failed" is written by the sweep.
Terminal == {"finished", "cancelled", "failed"}
Active   == {"pending", "running", "cancel_requested"}
\* "lost": no worker has the run, and its row has a lease that will run out;
\* "raised": an exception ended the job in its cascade.
Phases   == {"idle", "streaming", "closing", "publishing", "cascading", "cancelling",
             "lost", "raised"}
Places   == {"idle", "called", "locked", "checked", "inserted", "committed",
             "awaiting", "answered"}
Answers  == {"none", "refused", "busy", "started", "running", "aborted"} \cup Terminal

InTransaction == {"locked", "checked", "inserted"} \* the creator's row is locked
InFlight == InTransaction \cup {"called", "committed", "awaiting"}
CallsOf(p) == {c \in Calls : Creator[c] = p}
AtRest == {"idle", "lost", "raised"}
Slots == {r \in Runs : phase[r] \notin AtRest}
Keyed == cancelKey \cup cancelling

TypeOK ==
    /\ row \in [Runs -> {"absent"} \cup Active \cup Terminal]
    /\ rejected \subseteq Calls
    /\ queue \subseteq Runs
    /\ phase \in [Runs -> Phases]
    /\ retries \in [Parents -> 0..MaxRetries]
    /\ finished \subseteq Runs
    /\ cancelReads \subseteq Runs
    /\ kids \in [Runs -> SUBSET Calls]
    /\ cancelling \subseteq Runs
    /\ cancelKey \subseteq Runs
    /\ at \in [Calls -> Places]
    /\ answer \in [Calls -> Answers]

Init ==
    /\ row = [r \in Runs |-> IF r \in Parents THEN "pending" ELSE "absent"]
    /\ rejected = {} /\ finished = {}
    /\ cancelReads = {} /\ cancelling = {} /\ cancelKey = {}
    /\ kids = [r \in Runs |-> {}]
    /\ queue = Parents
    /\ phase = [r \in Runs |-> "idle"]
    /\ retries = [p \in Parents |-> 0]
    /\ at = [c \in Calls |-> "idle"]
    /\ answer = [c \in Calls |-> "none"]

-----------------------------------------------------------------------------
(* SubagentRunService.start and the tools                                   *)

Goto(c, place) == at' = [at EXCEPT ![c] = place]
Reply(c, what) == Goto(c, "answered") /\ answer' = [answer EXCEPT ![c] = what]

\* Mutant: the creator's row is read without FOR UPDATE.
CreatorNotLocked(p) == TRUE

\* lock_run_for_user: SELECT ... FOR UPDATE on the creator
CreatorFree(p) == \A c \in CallsOf(p) : at[c] \notin InTransaction

\* get_or_create leaves the conversation of the child thread locked
ThreadFree(t) == \A c \in Calls : Thread[c] = t => at[c] # "inserted"

\* Mutant: the second look at the thread is left out.
NeverActive(t) == FALSE

\* get_active_run_by_thread_for_user, over committed rows
ThreadActive(t) == \E c \in Calls : Thread[c] = t /\ row[c] \in Active

\* Mutant: the busy answer commits the rejected request.
RejectAndCommit(c) == rejected' = rejected \cup {c}

\* The exception leaves the session, which rolls back: no row is kept.
Rollback(c) == UNCHANGED rejected

\* The model asks for a subagent.
Call(c) ==
    /\ phase[Creator[c]] = "streaming"
    /\ at[c] = "idle"
    /\ Goto(c, "called")
    /\ UNCHANGED <<row, rejected, queue, phase, retries, finished, cancelVars, answer>>

LockCreator(c) ==
    /\ at[c] = "called"
    /\ CreatorFree(Creator[c])
    /\ IF row[Creator[c]] = "running"
       THEN Goto(c, "locked") /\ UNCHANGED answer
       ELSE Reply(c, "refused") \* a cancelled or finished parent starts nothing
    /\ UNCHANGED <<row, rejected, queue, phase, retries, finished, cancelVars>>

\* The first look at the thread, before its conversation is locked
CheckThread(c) ==
    /\ at[c] = "locked"
    /\ IF \E d \in Calls : Thread[d] = Thread[c] /\ row[d] \in Active
       THEN Reply(c, "busy")
       ELSE Goto(c, "checked") /\ UNCHANGED answer
    /\ UNCHANGED <<row, rejected, queue, phase, retries, finished, cancelVars>>

\* intake_request with queue_policy="reject".  A call made again finds its own
\* request; otherwise the thread is looked at under the lock, and the request
\* is dispatched or the call is busy.
Intake(c) ==
    /\ at[c] = "checked"
    /\ ThreadFree(Thread[c])
    /\ IF c \in rejected \/ (row[c] = "absent" /\ ThreadActive(Thread[c]))
       THEN Reply(c, "busy") /\ Rollback(c)
       ELSE Goto(c, "inserted") /\ UNCHANGED <<answer, rejected>>
    /\ UNCHANGED <<row, queue, phase, retries, finished, cancelVars>>

Commit(c) ==
    /\ at[c] = "inserted"
    /\ Goto(c, "committed")
    /\ row' = [row EXCEPT ![c] = IF @ = "absent" THEN "pending" ELSE @]
    /\ UNCHANGED <<rejected, queue, phase, retries, finished, cancelVars, answer>>

\* finalize_intake, after the commit; task goes on to wait
FinalizeIntake(c) ==
    /\ at[c] = "committed"
    /\ queue' = queue \cup {c}
    /\ IF c \in Blocking
       THEN Goto(c, "awaiting") /\ UNCHANGED answer
       ELSE Reply(c, "started")
    /\ UNCHANGED <<row, rejected, phase, retries, finished, cancelVars>>

\* subagent_await on a run started in the background
AwaitLater(c) ==
    /\ phase[Creator[c]] = "streaming"
    /\ at[c] = "answered" /\ answer[c] = "started"
    /\ Goto(c, "awaiting")
    /\ UNCHANGED <<row, rejected, queue, phase, retries, finished, cancelVars, answer>>

\* await_agent_run_result: run-finished was read, then the terminal row
AwaitResult(c) ==
    /\ at[c] = "awaiting"
    /\ c \in finished /\ row[c] \in Terminal
    /\ Reply(c, row[c])
    /\ UNCHANGED <<row, rejected, queue, phase, retries, finished, cancelVars>>

\* Mutant: the wait has no deadline.
WaitForEver(c) == FALSE

\* The deadline is time.monotonic(): it passes whatever the others do.
DeadlinePasses(c) == at[c] = "awaiting"

\* Mutant: a wait that timed out is reported as a failure.
TimeoutIsFailure(c) ==
    /\ DeadlinePasses(c)
    /\ Reply(c, "failed")
    /\ UNCHANGED <<row, rejected, queue, phase, retries, finished, cancelVars>>

AwaitTimeout(c) ==
    /\ DeadlinePasses(c)
    /\ Reply(c, "running")
    /\ UNCHANGED <<row, rejected, queue, phase, retries, finished, cancelVars>>

\* subagent_status on a run that has ended
CheckStatus(c) ==
    /\ phase[Creator[c]] = "streaming"
    /\ at[c] = "answered" /\ answer[c] \in {"started", "running"}
    /\ row[c] \in Terminal
    /\ Reply(c, row[c])
    /\ UNCHANGED <<row, rejected, queue, phase, retries, finished, cancelVars>>

-----------------------------------------------------------------------------
(* Workers                                                                  *)

\* A job gets a slot; mark_running refuses a run that is running or has ended.
Pick(r) ==
    /\ r \in queue
    /\ phase[r] \in AtRest
    /\ Cardinality(Slots) < MaxJobs
    /\ queue' = queue \ {r}
    /\ IF row[r] \in {"pending", "cancel_requested"}
       THEN /\ row' = [row EXCEPT ![r] = "running"]
            /\ phase' = [phase EXCEPT ![r] = "streaming"]
       ELSE UNCHANGED <<row, phase>>
    /\ UNCHANGED <<rejected, retries, finished, cancelVars, callVars>>

\* The stream ends when no tool call is open, a chunk shows the cancel key, or an
\* error is met that is not retried.
EndStream(r) ==
    /\ phase[r] = "streaming"
    /\ r \in cancelKey \/ r \in Flaky \/ \A c \in CallsOf(r) : at[c] \notin InFlight
    /\ phase' = [phase EXCEPT ![r] = "closing"]
    /\ UNCHANGED <<row, rejected, queue, retries, finished, cancelVars, callVars>>

\* Tool calls left open by a broken stream are cancelled, in no fixed order
\* with the worker's next steps; an open transaction rolls back.
Abort(c) ==
    /\ phase[Creator[c]] # "streaming"
    /\ at[c] \in InFlight
    /\ Reply(c, "aborted")
    /\ UNCHANGED <<row, rejected, queue, phase, retries, finished, cancelVars>>

\* mark_terminal locks the row, so it waits for a start() in progress.  It does not
\* look at the status: a run that was swept meanwhile is ended once more.
Finalize(r) ==
    /\ phase[r] = "closing"
    /\ CreatorFree(r)
    /\ \/ row' = [row EXCEPT ![r] = "finished"]
       \/ r \in cancelKey /\ row' = [row EXCEPT ![r] = "cancelled"]
    /\ phase' = [phase EXCEPT ![r] = "publishing"]
    /\ UNCHANGED <<rejected, queue, retries, finished, cancelVars, callVars>>

Publish(r) ==
    /\ phase[r] = "publishing"
    /\ finished' = finished \cup {r}
    /\ phase' = [phase EXCEPT ![r] = "cascading"]
    /\ UNCHANGED <<row, rejected, queue, retries, cancelVars, callVars>>

\* Where a run is left by a worker that has no more to do with it
Rest(r) == IF row[r] \in {"running", "cancel_requested"} THEN "lost" ELSE "idle"

\* _cancel_active_children: get_children, without a lock
ReadChildren(r) ==
    /\ phase[r] = "cascading"
    /\ kids' = [kids EXCEPT ![r] = {c \in CallsOf(r) : row[c] \in {"pending", "running"}}]
    /\ phase' = [phase EXCEPT ![r] = "cancelling"]
    /\ UNCHANGED <<row, rejected, queue, retries, finished, cancelReads, cancelling, cancelKey,
                   callVars>>

\* A run that has ended is active again in its thread if request_cancel had read it
\* before; it waits for a start() that has inserted a run there ...
NoInsertInTheWay(rs) ==
    \A c \in rs \cap Calls, d \in Calls :
        (row[c] \in Terminal /\ Thread[d] = Thread[c]) => ~(at[d] = "inserted" /\ row[d] = "absent")

\* ... and uq_agent_runs_one_active_per_thread refuses the second active run.
UniqueIndex(rs) ==
    \A c \in rs \cap Calls, d \in Calls :
        (Thread[d] = Thread[c] /\ (row[d] \in Active \/ d \in rs)) => d = c

\* request_cancel tests the status read before it locked the row, so the runs that
\* were read as active are cancelled whatever they are by now; the keys come after
\* the commit.
CancelRequested(rs) ==
    /\ row' = [r \in Runs |-> IF r \in rs THEN "cancel_requested" ELSE row[r]]
    /\ cancelling' = cancelling \cup (rs \ cancelKey)

\* A run without a worker that is brought back has the lease it ended with.
BroughtBack(rs) ==
    [r \in Runs |-> IF r \in rs /\ row[r] \in Terminal /\ phase[r] \in AtRest
                    THEN "lost" ELSE phase[r]]

\* The commit of the cascade; one refused child rolls all of it back, and the
\* exception ends the job.
Cascade(r) ==
    /\ phase[r] = "cancelling"
    /\ NoInsertInTheWay(kids[r])
    /\ IF UniqueIndex(kids[r])
       THEN /\ CancelRequested(kids[r])
            /\ phase' = [BroughtBack(kids[r]) EXCEPT ![r] = Rest(r)]
       ELSE /\ phase' = [phase EXCEPT ![r] = IF Rest(r) = "lost" THEN "lost" ELSE "raised"]
            /\ UNCHANGED <<row, cancelling>>
    /\ kids' = [kids EXCEPT ![r] = {}]
    /\ UNCHANGED <<rejected, queue, retries, finished, cancelReads, cancelKey, callVars>>

\* A retryable error ends the stream and the calls in it; the run goes back to
\* the queue, where the same calls may be made again: those that were open, and
\* those whose answer the checkpoint does not hold.
Retry(p) ==
    /\ p \in Flaky
    /\ phase[p] = "streaming"
    /\ retries[p] < MaxRetries
    /\ retries' = [retries EXCEPT ![p] = @ + 1]
    /\ IF row[p] = "running" \* release_lease_for_retry
       THEN row' = [row EXCEPT ![p] = "pending"] /\ phase' = [phase EXCEPT ![p] = "idle"]
       ELSE UNCHANGED row /\ phase' = [phase EXCEPT ![p] = Rest(p)]
    /\ queue' = queue \cup {p}
    /\ \E again \in SUBSET CallsOf(p) :
        /\ {c \in CallsOf(p) : at[c] \in InFlight} \subseteq again
        /\ at' = [c \in Calls |-> IF c \in again THEN "idle" ELSE at[c]]
        /\ answer' = [c \in Calls |-> IF c \in again THEN "none" ELSE answer[c]]
    /\ UNCHANGED <<rejected, finished, cancelVars>>

\* The worker dies with the tool calls of the run.
Die(r) ==
    /\ r \in Mortal
    /\ phase[r] \in {"streaming", "closing"}
    /\ phase' = [phase EXCEPT ![r] = Rest(r)]
    /\ at' = [c \in Calls |-> IF Creator[c] = r /\ at[c] \in InFlight THEN "answered" ELSE at[c]]
    /\ answer' = [c \in Calls |-> IF Creator[c] = r /\ at[c] \in InFlight THEN "aborted" ELSE answer[c]]
    /\ UNCHANGED <<row, rejected, queue, retries, finished, cancelVars>>

\* reconcile_expired_run_leases: no run-finished and no cascade.  A stalled worker
\* goes on after it.
Sweep(r) ==
    /\ row[r] \in {"running", "cancel_requested"}
    /\ phase[r] = "lost" \/ (r \in Mortal /\ phase[r] \in {"streaming", "closing"})
    /\ CreatorFree(r)
    /\ row' = [row EXCEPT ![r] = "failed"]
    /\ phase' = [phase EXCEPT ![r] = IF @ = "lost" THEN "idle" ELSE @]
    /\ UNCHANGED <<rejected, queue, retries, finished, cancelVars, callVars>>

-----------------------------------------------------------------------------
(* request_cancel_agent_run                                                 *)

\* Who asks: a client, for a parent; the tool subagent_cancel, for a child
MayCancel(r) ==
    /\ r \in Cancellable
    /\ r \in Calls =>
        /\ phase[Creator[r]] = "streaming"
        /\ at[r] = "answered" /\ answer[r] \in {"started", "running"}

\* get_run takes no lock.  Any number of requests may have read a run, and each may
\* write at any time after.
ReadForCancel(r) ==
    /\ r \notin cancelReads
    /\ MayCancel(r)
    /\ row[r] \in {"pending", "running"}
    /\ cancelReads' = cancelReads \cup {r}
    /\ UNCHANGED <<row, rejected, queue, phase, retries, finished, kids, cancelling, cancelKey,
                   callVars>>

\* The commit.  A request that the index refuses writes nothing.
RequestCancel(r) ==
    /\ r \in cancelReads
    /\ CreatorFree(r)
    /\ NoInsertInTheWay({r}) /\ UniqueIndex({r})
    /\ CancelRequested({r})
    /\ phase' = BroughtBack({r})
    /\ UNCHANGED <<rejected, queue, retries, finished, cancelReads, kids, cancelKey, callVars>>

SetCancelKey(r) ==
    /\ r \in cancelling
    /\ cancelling' = cancelling \ {r}
    /\ cancelKey' = cancelKey \cup {r}
    /\ UNCHANGED <<row, rejected, queue, phase, retries, finished, cancelReads, kids, callVars>>

CallStep(c) ==
    \/ Call(c) \/ LockCreator(c) \/ CheckThread(c) \/ Intake(c) \/ Commit(c)
    \/ FinalizeIntake(c) \/ AwaitLater(c) \/ AwaitResult(c) \/ AwaitTimeout(c)
    \/ CheckStatus(c) \/ Abort(c)

RunStep(r) ==
    \/ Pick(r) \/ EndStream(r) \/ Finalize(r) \/ Publish(r) \/ ReadChildren(r) \/ Cascade(r)
    \/ Die(r) \/ Sweep(r)

CancelStep(r) == ReadForCancel(r) \/ RequestCancel(r) \/ SetCancelKey(r)

Next ==
    \/ \E c \in Calls : CallStep(c)
    \/ \E r \in Runs : RunStep(r) \/ CancelStep(r)
    \/ \E p \in Parents : Retry(p)

\* A statement on an open connection returns, a deadline passes, ARQ fills a
\* free slot, an agent's stream ends, the sweep comes round.  Nothing obliges
\* an agent to call a tool.
Progress(c) ==
    \/ LockCreator(c) \/ CheckThread(c) \/ Intake(c) \/ Commit(c)
    \/ FinalizeIntake(c) \/ AwaitResult(c) \/ AwaitTimeout(c) \/ Abort(c)

Fairness ==
    /\ \A c \in Calls : WF_vars(Progress(c))
    /\ \A r \in Runs :
        /\ WF_vars(Pick(r))
        /\ WF_vars(\/ EndStream(r) \/ Finalize(r) \/ Publish(r) \/ ReadChildren(r) \/ Cascade(r)
                   \/ phase[r] = "lost" /\ Sweep(r))

Spec == Init /\ [][Next]_vars /\ Fairness

-----------------------------------------------------------------------------
(* Properties                                                               *)

\* Whatever calls race for a child thread, continue it from two conversations
\* or are made again by a retried parent, one run at most is active on it
\* (the second look, under the conversation lock, of intake_request).
OneRunPerThread ==
    \A c, d \in Calls :
        (Thread[c] = Thread[d] /\ row[c] \in Active /\ row[d] \in Active) => c = d

\* A parent that its own worker has ended and cascaded leaves no child to run
\* unasked: each has ended, or has its cancel key or is about to get it.  This is
\* what start() locks the creator for: a child committed after the cascade read the
\* children would escape it.  (A cascade that the index refused, "raised", told
\* nobody.)
NoChildOutlivesCascade ==
    \A c \in Calls :
        (row[Creator[c]] \in {"finished", "cancelled"} /\ phase[Creator[c]] = "idle")
            => row[c] \in {"absent"} \cup Terminal \/ c \in Keyed

\* A call is answered "busy" only while a run is active on its thread: a busy
\* answer leaves no request behind that would answer the same call, made again
\* by a retried parent, on a thread that has become free.
BusyOnlyIfActive ==
    [][\A c \in Calls :
        (at[c] \in InTransaction /\ at'[c] = "answered" /\ answer'[c] = "busy")
            => \E d \in Calls : Thread[d] = Thread[c] /\ row[d] \in Active]_vars

\* A run that a tool has reported to have ended has ended: its row may be ended a
\* second time by a stalled worker, but only a cancel request makes it active again.
\* (A wait that times out reports a run in progress, never a failure.)
ReportedChildIsOver ==
    \A c \in Calls : answer[c] \in Terminal => row[c] \in Terminal \/ c \in Keyed

\* Every run whose job is queued ends, however many parents hold the slots and
\* wait: the deadline of await_agent_run_result is what frees them.
QueuedRunsEnd ==
    \A r \in Runs : (r \in queue) ~> (row[r] \in Terminal)
=============================================================================
