---------------------------- MODULE RunLifecycle ----------------------------
(***************************************************************************)
(* The life of an agent run, from the pending row that intake leaves in    *)
(* Postgres to a terminal status: ARQ hands the run's job to a worker,     *)
(* execute_agent_run takes a lease, keeps it alive with a heartbeat task,  *)
(* streams the agent, and finalizes or releases the run, while             *)
(* reconcile_expired_run_leases and request_cancel_agent_run act on the    *)
(* same row.                                                               *)
(*                                                                         *)
(* A transaction that locks a run row before it reads it (db.get(...,      *)
(* with_for_update) in a new session) is one action.  The sweep and the    *)
(* cancel requests are two: they read a row without a lock and write it    *)
(* later, and the lock that a cancel request takes in between does not     *)
(* refresh what it has read.  An execution is named by its owner token,    *)
(* which is fresh for every delivery of the job.  Time is abstracted to    *)
(* whether the lease of a run is "live" or "expired".  The threads of the  *)
(* runs are in RequestQueue and Subagents, not here: a write that their    *)
(* unique index refuses is a write that does not happen.                   *)
(***************************************************************************)
EXTENDS Integers, Sequences

CONSTANTS
    Runs,      \* the rows of agent_runs, subagent runs that may be started included
    Execs,     \* owner tokens: one per delivery of a job (bounds deliveries)
    MaxTries,  \* settings.run_max_retries, also the max_tries of the worker
    Faults,    \* what the environment may do: see FaultKinds
    Parent,    \* parent_run_id of each run
    Cancellable, \* the runs a client may ask to cancel
    None       \* NULL: no worker_id, no run

\* crash:   a worker process dies, taking its tasks with it
\* timeout: ARQ cancels the job's coroutine (CancelledError)
\* blip:    a transaction or a Redis call raises OperationalError
\* stall:   a worker is suspended for longer than the lease
FaultKinds == {"crash", "timeout", "blip", "stall"}

ASSUME ConstantsAssumption ==
    /\ MaxTries \in Nat \ {0}
    /\ Faults \subseteq FaultKinds
    /\ Cancellable \subseteq Runs
    /\ None \notin Execs \cup Runs
    /\ Parent \in [Runs -> Runs \cup {None}]
    /\ \A r \in Runs : Parent[r] # None => Parent[Parent[r]] = None \* one level

VARIABLES
    run,        \* agent_runs: status, worker_id and the state of the lease
    attempts,   \* agent_run_attempts of each run, in attempt_no order
    outputs,    \* the executions whose assistant message is committed
    cancelKey,  \* Redis: the runs whose cancel key is set
    cancelReads, \* the runs that some cancel request has read as pending or running
    cancelling, \* cancel requests committed in Postgres, key not yet set
    published,  \* the executions that published a run-finished event
    job,        \* ARQ: the job of each run and how often it was started
    spawning,   \* the execution whose tool call has committed each subagent run and
                \* not yet enqueued its job
    pc,         \* where each execution stands
    task,       \* the run and the job_try of each execution
    result,     \* the local variable status of each execution
    beat,       \* the heartbeat task of each execution
    children,   \* the active children each execution's cascade has read
    swept       \* the runs the current sweep has read, not yet written

dbVars   == <<run, attempts, outputs>>
cancelVars == <<cancelKey, cancelReads, cancelling>>
jobVars  == <<job, spawning>>
execVars == <<pc, task, result, beat, children>>
vars     == <<dbVars, cancelVars, published, jobVars, execVars, swept>>

Active   == {"running", "cancel_requested"}
Terminal == {"completed", "failed", "cancelled"}
Statuses == {"absent", "pending"} \cup Active \cup Terminal
Outcomes == Terminal \cup {"open", "retry_released", "lease_expired"}

\* "escaped": an exception left execute_agent_run and stop_heartbeat was not set
Pcs == {"unused", "picked", "started", "streaming", "saving", "releasing",
        "retrying", "stopping", "finalizing", "publishing", "cascading", "cancelling",
        "returned", "escaped", "crashed"}
Ended == {"returned", "escaped", "crashed"}
InProgress == Pcs \ (Ended \cup {"unused"})
StopSet == {"retrying", "stopping", "finalizing", "publishing", "cascading", "cancelling",
            "returned"}
Beats == {"off", "sleeping", "renewing", "raised"}
Beating == {"sleeping", "renewing"}

RunOf(e) == task[e].run
LastAttempt(r) == attempts[r][Len(attempts[r])]

\* Mutant: one try too many is taken for retryable.
IsPastLastTry(e) == task[e].try > MaxTries

\* _is_last_try
IsLastTry(e) == task[e].try >= MaxTries

RunRows     == [status: Statuses, worker: Execs \cup {None}, lease: {"none", "live", "expired"}]
AttemptRows == [worker: Execs, outcome: Outcomes]
JobRows     == [state: {"queued", "in_progress", "gone"}, tries: 0..MaxTries]
Tasks       == [run: Runs \cup {None}, try: 0..MaxTries]

TypeOK ==
    /\ run \in [Runs -> RunRows]
    /\ attempts \in [Runs -> Seq(AttemptRows)]
    /\ outputs \subseteq Execs
    /\ cancelKey \subseteq Runs
    /\ cancelReads \subseteq Runs
    /\ cancelling \subseteq Runs
    /\ published \subseteq Execs
    /\ job \in [Runs -> JobRows]
    /\ spawning \in [Runs -> Execs \cup {None}]
    /\ pc \in [Execs -> Pcs]
    /\ task \in [Execs -> Tasks]
    /\ result \in [Execs -> Terminal]
    /\ beat \in [Execs -> Beats]
    /\ children \in [Execs -> SUBSET Runs]
    /\ swept \subseteq Runs

Init ==
    /\ run = [r \in Runs |-> [status |-> IF Parent[r] = None THEN "pending" ELSE "absent",
                              worker |-> None, lease |-> "none"]]
    /\ attempts = [r \in Runs |-> <<>>]
    /\ outputs = {} /\ published = {}
    /\ cancelKey = {} /\ cancelReads = {} /\ cancelling = {} /\ swept = {}
    /\ job = [r \in Runs |-> [state |-> IF Parent[r] = None THEN "queued" ELSE "gone", tries |-> 0]]
    /\ spawning = [r \in Runs |-> None]
    /\ pc = [e \in Execs |-> "unused"]
    /\ task = [e \in Execs |-> [run |-> None, try |-> 0]]
    /\ result = [e \in Execs |-> "failed"]
    /\ beat = [e \in Execs |-> "off"]
    /\ children = [e \in Execs |-> {}]

-----------------------------------------------------------------------------
(* Effects shared by the actions                                            *)

Goto(e, where) == pc' = [pc EXCEPT ![e] = where]
DropJob(r) == job' = [job EXCEPT ![r].state = "gone"]
RequeueJob(r) == job' = [job EXCEPT ![r].state = IF @ = "gone" THEN @ ELSE "queued"]

\* An exception or a CancelledError leaves execute_agent_run from where e is.
Escape(e) == Goto(e, IF pc[e] \in StopSet THEN "returned" ELSE "escaped")

\* Mutant: finished_at IS NULL is not asked for.
CloseAnyAttempt(r, e, outcome) ==
    [attempts EXCEPT ![r] = [i \in DOMAIN @ |->
        IF @[i].worker = e THEN [@[i] EXCEPT !.outcome = outcome] ELSE @[i]]]

\* Mutant: the outcome is taken from the row of the run.
CloseWithRunStatus(r, e, outcome) ==
    [attempts EXCEPT ![r] = [i \in DOMAIN @ |->
        IF @[i].worker = e /\ @[i].outcome = "open"
        THEN [@[i] EXCEPT !.outcome = run[r].status] ELSE @[i]]]

\* AgentRunAttemptRepository.close: only the open attempt of this worker
CloseAttempt(r, e, outcome) ==
    [attempts EXCEPT ![r] = [i \in DOMAIN @ |->
        IF @[i].worker = e /\ @[i].outcome = "open"
        THEN [@[i] EXCEPT !.outcome = outcome] ELSE @[i]]]

\* mark_terminal with a worker_id: the row must still name that worker
Owns(e) == run[RunOf(e)].worker = e

\* leave the try block with this status: the end of the loop or an exception
FinishBody(e, status) ==
    /\ result' = [result EXCEPT ![e] = status]
    /\ Goto(e, "stopping")

-----------------------------------------------------------------------------
(* ARQ: deliveries of the job                                               *)

Holders(r) == {e \in Execs : RunOf(e) = r /\ pc[e] \in InProgress}

\* The in-progress key of a crashed worker runs out, or that of a worker that
\* stalled for longer still.
Orphaned(r) == job[r].state = "in_progress" /\ (Holders(r) = {} \/ "stall" \in Faults)

Deliverable(r) == job[r].state = "queued" \/ Orphaned(r)

TriesLeft(r) == job[r].tries < MaxTries

\* ARQ starts execute_agent_run with job_try = tries + 1.
Deliver(r, e) ==
    /\ pc[e] = "unused"
    /\ Deliverable(r)
    /\ TriesLeft(r)
    /\ job' = [job EXCEPT ![r] = [state |-> "in_progress", tries |-> @.tries + 1]]
    /\ task' = [task EXCEPT ![e] = [run |-> r, try |-> job[r].tries + 1]]
    /\ Goto(e, "picked")
    /\ UNCHANGED <<dbVars, cancelVars, published, spawning, result, beat, children, swept>>

\* ARQ drops a job that was started max_tries times.
Exhaust(r) ==
    /\ Deliverable(r)
    /\ ~TriesLeft(r)
    /\ DropJob(r)
    /\ UNCHANGED <<dbVars, cancelVars, published, spawning, execVars, swept>>

-----------------------------------------------------------------------------
(* execute_agent_run                                                        *)

\* Mutants: a cancelled run is left alone; a running run is taken over; a
\* failed run is started again.
AcquirablePending(r) == run[r].status = "pending"
AcquirableRunning(r) == run[r].status \in {"pending", "running", "cancel_requested"}
AcquirableFailed(r)  == run[r].status \in {"pending", "failed", "cancel_requested"}

\* mark_running's test.  A second delivery may take a cancel_requested run from
\* the worker that holds it.
Acquirable(r) == run[r].status \in {"pending", "cancel_requested"}

\* Mutant: an attempt left open is used again.
ReuseAttempt(r, e) ==
    IF \E i \in DOMAIN attempts[r] : attempts[r][i].outcome = "open" THEN attempts
    ELSE [attempts EXCEPT ![r] = Append(@, [worker |-> e, outcome |-> "open"])]

\* open_attempt: attempt_no is the last one plus one, the index here
OpenAttempt(r, e) == [attempts EXCEPT ![r] = Append(@, [worker |-> e, outcome |-> "open"])]

\* mark_running + open_attempt, one transaction
Acquire(e) ==
    LET r == RunOf(e) IN
    /\ pc[e] = "picked"
    /\ Acquirable(r)
    /\ run' = [run EXCEPT ![r] = [status |-> "running", worker |-> e, lease |-> "live"]]
    /\ attempts' = OpenAttempt(r, e)
    /\ beat' = [beat EXCEPT ![e] = "sleeping"]
    /\ Goto(e, "started")
    /\ UNCHANGED <<outputs, cancelVars, published, jobVars, task, result, children, swept>>

\* the run is running elsewhere or terminal: return, and the job is done
Skip(e) ==
    /\ pc[e] = "picked"
    /\ ~Acquirable(RunOf(e))
    /\ Goto(e, "returned")
    /\ DropJob(RunOf(e))
    /\ UNCHANGED <<dbVars, cancelVars, published, spawning, task, result, beat, children, swept>>

\* the cancel key is looked up at every chunk, so once before any output
FirstChunk(e) ==
    /\ pc[e] = "started"
    /\ RunOf(e) \notin cancelKey
    /\ Goto(e, "streaming")
    /\ UNCHANGED <<dbVars, cancelVars, published, jobVars, task, result, beat, children, swept>>

SeeCancel(e) ==
    /\ pc[e] \in {"started", "streaming"}
    /\ RunOf(e) \in cancelKey
    /\ FinishBody(e, "cancelled")
    /\ UNCHANGED <<dbVars, cancelVars, published, jobVars, task, beat, children, swept>>

\* the stream ran out, its tool calls returned: with an answer to save, or with no
\* text
EndStream(e) ==
    /\ pc[e] = "streaming"
    /\ \A r \in Runs : spawning[r] # e
    /\ \/ Goto(e, "saving") /\ UNCHANGED result
       \/ FinishBody(e, "completed")
    /\ UNCHANGED <<dbVars, cancelVars, published, jobVars, task, beat, children, swept>>

\* the assistant message, in a transaction of its own
SaveOutput(e) ==
    /\ pc[e] = "saving"
    /\ outputs' = outputs \cup {e}
    /\ FinishBody(e, "completed")
    /\ UNCHANGED <<run, attempts, cancelVars, published, jobVars, task, beat, children, swept>>

\* A subagent tool call starts a run, only while the parent's row is running: the
\* commit of SubagentRunService.start, and then finalize_intake.
Spawn(e, r) ==
    /\ pc[e] = "streaming"
    /\ Parent[r] = RunOf(e)
    /\ run[RunOf(e)].status = "running"
    /\ run[r].status = "absent"
    /\ run' = [run EXCEPT ![r].status = "pending"]
    /\ spawning' = [spawning EXCEPT ![r] = e]
    /\ UNCHANGED <<attempts, outputs, cancelVars, published, job, execVars, swept>>

\* finalize_intake; the tool call goes on for a moment after its stream was left.
EnqueueSpawned(r) ==
    /\ spawning[r] # None
    /\ job' = [job EXCEPT ![r].state = "queued"]
    /\ spawning' = [spawning EXCEPT ![r] = None]
    /\ UNCHANGED <<dbVars, cancelVars, published, execVars, swept>>

\* The stream was left, by an error or a cancel, and its tool calls are
\* cancelled, or the call to Redis fails: the child is pending and has no job.
BreakSpawn(r) ==
    /\ spawning[r] # None
    /\ pc[spawning[r]] # "streaming" \/ "blip" \in Faults
    /\ spawning' = [spawning EXCEPT ![r] = None]
    /\ UNCHANGED <<dbVars, cancelVars, published, job, execVars, swept>>

InBody(e) == pc[e] \in {"started", "streaming", "saving"}

\* _is_retryable_exception(e) and not _is_last_try(ctx)
RetryableError(e) ==
    /\ InBody(e)
    /\ ~IsLastTry(e)
    /\ Goto(e, "releasing")
    /\ UNCHANGED <<dbVars, cancelVars, published, jobVars, task, result, beat, children, swept>>

\* any other exception, or a retryable one on the last try
PermanentError(e) ==
    /\ InBody(e)
    /\ FinishBody(e, "failed")
    /\ UNCHANGED <<dbVars, cancelVars, published, jobVars, task, beat, children, swept>>

\* Mutant: the status of the row is not tested.
ReleasableAnyStatus(e) ==
    LET r == RunOf(e) IN Owns(e) /\ run[r].lease = "live"

Releasable(e) ==
    LET r == RunOf(e) IN run[r].status = "running" /\ Owns(e) /\ run[r].lease = "live"

\* release_lease_for_retry, then stop_heartbeat.set() whatever it answered
Release(e) ==
    LET r == RunOf(e) IN
    /\ pc[e] = "releasing"
    /\ IF Releasable(e)
       THEN /\ run' = [run EXCEPT ![r] = [status |-> "pending", worker |-> None, lease |-> "none"]]
            /\ attempts' = CloseAttempt(r, e, "retry_released")
       ELSE UNCHANGED <<run, attempts>>
    /\ Goto(e, "retrying")
    /\ UNCHANGED <<outputs, cancelVars, published, jobVars, task, result, beat, children, swept>>

\* Mutant: an exception of the heartbeat task is swallowed.
HeartbeatOver(e) == beat[e] \in {"off", "raised"}

\* await heartbeat_task returns
HeartbeatDone(e) == beat[e] = "off"

\* await heartbeat_task, then raise RetryableRunError: ARQ keeps the job
Retry(e) ==
    /\ pc[e] = "retrying"
    /\ HeartbeatDone(e)
    /\ Goto(e, "returned")
    /\ RequeueJob(RunOf(e))
    /\ UNCHANGED <<dbVars, cancelVars, published, spawning, task, result, beat, children, swept>>

\* await heartbeat_task on the ordinary way out
AwaitHeartbeat(e) ==
    /\ pc[e] = "stopping"
    /\ HeartbeatDone(e)
    /\ Goto(e, "finalizing")
    /\ UNCHANGED <<dbVars, cancelVars, published, jobVars, task, result, beat, children, swept>>

\* the heartbeat task had raised: so does the await, and ARQ ends the job
AwaitRaises(e) ==
    /\ pc[e] \in {"retrying", "stopping"}
    /\ beat[e] = "raised"
    /\ Escape(e)
    /\ DropJob(RunOf(e))
    /\ UNCHANGED <<dbVars, cancelVars, published, spawning, task, result, beat, children, swept>>

\* mark_terminal as the owner + close the attempt, one transaction
Finalize(e) ==
    LET r == RunOf(e) IN
    /\ pc[e] = "finalizing"
    /\ IF Owns(e)
       THEN /\ run' = [run EXCEPT ![r].status = result[e]]
            /\ attempts' = CloseAttempt(r, e, result[e])
            /\ Goto(e, "publishing")
            /\ UNCHANGED job
       ELSE /\ Goto(e, "returned")
            /\ DropJob(r)
            /\ UNCHANGED <<run, attempts>>
    /\ UNCHANGED <<outputs, cancelVars, published, spawning, task, result, beat, children, swept>>

Publish(e) ==
    /\ pc[e] = "publishing"
    /\ published' = published \cup {e}
    /\ Goto(e, "cascading")
    /\ UNCHANGED <<dbVars, cancelVars, jobVars, task, result, beat, children, swept>>

\* Mutant: only the children that already run are cancelled.
RunningChildren(r) == {c \in Runs : Parent[c] = r /\ run[c].status = "running"}

ActiveChildren(r) == {c \in Runs : Parent[c] = r /\ run[c].status \in {"pending", "running"}}

\* _cancel_active_children: get_children reads the children without a lock, and
\* request_cancel tests what was read.
ReadChildren(e) ==
    /\ pc[e] = "cascading"
    /\ children' = [children EXCEPT ![e] = ActiveChildren(RunOf(e))]
    /\ Goto(e, "cancelling")
    /\ UNCHANGED <<dbVars, cancelVars, published, jobVars, task, result, beat, swept>>

\* The update of request_cancel writes the status and nothing else.
CancelRequested(S) ==
    [r \in Runs |-> IF r \in S THEN [run[r] EXCEPT !.status = "cancel_requested"] ELSE run[r]]

\* The commit of the cascade, whatever the children are by now, then their keys;
\* they have no children of their own.  The job is done.
Cascade(e) ==
    /\ pc[e] = "cancelling"
    /\ run' = CancelRequested(children[e])
    /\ cancelling' = cancelling \cup (children[e] \ cancelKey)
    /\ children' = [children EXCEPT ![e] = {}]
    /\ Goto(e, "returned")
    /\ DropJob(RunOf(e))
    /\ UNCHANGED <<attempts, outputs, cancelKey, cancelReads, published, spawning, task, result,
                   beat, swept>>

-----------------------------------------------------------------------------
(* _heartbeat_loop                                                          *)

\* the interval passed, or the stop event was set
Wake(e) ==
    /\ beat[e] = "sleeping"
    /\ beat' = [beat EXCEPT ![e] = IF pc[e] \in StopSet THEN "off" ELSE "renewing"]
    /\ UNCHANGED <<dbVars, cancelVars, published, jobVars, pc, task, result, children, swept>>

\* renew_lease; ownership lost ends the task, and nothing else
Renew(e) ==
    LET r == RunOf(e) IN
    /\ beat[e] = "renewing"
    /\ IF Owns(e) /\ run[r].status \in Active
       THEN /\ run' = [run EXCEPT ![r].lease = "live"]
            /\ beat' = [beat EXCEPT ![e] = "sleeping"]
       ELSE /\ beat' = [beat EXCEPT ![e] = "off"]
            /\ UNCHANGED run
    /\ UNCHANGED <<attempts, outputs, cancelVars, published, jobVars, pc, task, result, children, swept>>

-----------------------------------------------------------------------------
(* Cancellation: request_cancel_agent_run                                   *)

\* get_run takes no lock.  Any number of requests may have read a run, and each may
\* write at any time after.
ReadForCancel(r) ==
    /\ r \in Cancellable \ cancelReads
    /\ run[r].status \in {"pending", "running"}
    /\ cancelReads' = cancelReads \cup {r}
    /\ UNCHANGED <<dbVars, cancelKey, cancelling, published, jobVars, execVars, swept>>

\* request_cancel locks the row and tests the status that get_run has read: the
\* session does not refresh a loaded row, so a run that ended in between is
\* cancel_requested again.  (A key that is set already is set to the same value.)
RequestCancel(r) ==
    /\ r \in cancelReads
    /\ run' = CancelRequested({r})
    /\ cancelling' = cancelling \cup ({r} \ cancelKey)
    /\ UNCHANGED <<attempts, outputs, cancelKey, cancelReads, published, jobVars, execVars, swept>>

SetCancelKey(r) ==
    /\ r \in cancelling
    /\ cancelKey' = cancelKey \cup {r}
    /\ cancelling' = cancelling \ {r}
    /\ UNCHANGED <<dbVars, cancelReads, published, jobVars, execVars, swept>>

-----------------------------------------------------------------------------
(* Leases run out; reconcile_expired_run_leases                             *)

\* The owner's heartbeat runs three times per lease, and an owner about to
\* finalize renewed it a moment ago: only a stall lets such a lease expire.
Attended(r) == \E e \in Execs :
    /\ run[r].worker = e
    /\ beat[e] \in Beating \/ (beat[e] = "off" /\ pc[e] \in {"stopping", "finalizing"})

Expire(r) ==
    /\ run[r].status \in Active
    /\ run[r].lease = "live"
    /\ ~Attended(r) \/ "stall" \in Faults
    /\ run' = [run EXCEPT ![r].lease = "expired"]
    /\ UNCHANGED <<attempts, outputs, cancelVars, published, jobVars, execVars, swept>>

\* Mutant: the sweep looks at running runs only.
OverdueRunning == {r \in Runs : run[r].status = "running" /\ run[r].lease = "expired"}

Overdue == {r \in Runs : run[r].status \in Active /\ run[r].lease = "expired"}

\* find_expired_leases takes no lock
Sweep ==
    /\ swept = {}
    /\ Overdue # {}
    /\ swept' = Overdue
    /\ UNCHANGED <<dbVars, cancelVars, published, jobVars, execVars>>

\* Mutant: close_expired is forgotten.
KeepAttempts(S) == attempts

\* close_expired: every open attempt of the runs in S
CloseExpired(S) ==
    [r \in Runs |->
        IF r \in S
        THEN [i \in DOMAIN attempts[r] |->
                IF attempts[r][i].outcome = "open"
                THEN [attempts[r][i] EXCEPT !.outcome = "lease_expired"]
                ELSE attempts[r][i]]
        ELSE attempts[r]]

\* mark_terminal without a worker_id + close_expired for every run read, one
\* commit; nothing is checked again
Reconcile ==
    /\ swept # {}
    /\ run' = [r \in Runs |-> IF r \in swept THEN [run[r] EXCEPT !.status = "failed"] ELSE run[r]]
    /\ attempts' = CloseExpired(swept)
    /\ swept' = {}
    /\ UNCHANGED <<outputs, cancelVars, published, jobVars, execVars>>

-----------------------------------------------------------------------------
(* Faults                                                                   *)

\* a worker dies or is shut down (ARQ runs the job again), and with it the
\* execution and its heartbeat, a leaked one included
Crash(e) ==
    /\ "crash" \in Faults
    /\ pc[e] \in InProgress \/ beat[e] \in Beating
    /\ Goto(e, IF pc[e] \in InProgress THEN "crashed" ELSE pc[e])
    /\ beat' = [beat EXCEPT ![e] = "off"]
    /\ children' = [children EXCEPT ![e] = {}]
    /\ spawning' = [r \in Runs |-> IF spawning[r] = e THEN None ELSE spawning[r]]
    /\ UNCHANGED <<dbVars, cancelVars, published, job, task, result, swept>>

\* the key of a committed cancel request is never set
LoseCancelKey(r) ==
    /\ {"crash", "blip"} \cap Faults # {}
    /\ r \in cancelling
    /\ cancelling' = cancelling \ {r}
    /\ UNCHANGED <<dbVars, cancelKey, cancelReads, published, jobVars, execVars, swept>>

\* the process running the sweep dies: its transaction is rolled back
CrashSweep ==
    /\ "crash" \in Faults
    /\ swept # {}
    /\ swept' = {}
    /\ UNCHANGED <<dbVars, cancelVars, published, jobVars, execVars>>

\* job_timeout: CancelledError is no Exception, so no handler runs and the
\* heartbeat task stays on the event loop; ARQ records a failed job.
Timeout(e) ==
    /\ "timeout" \in Faults
    /\ pc[e] \in InProgress
    /\ Escape(e)
    /\ DropJob(RunOf(e))
    /\ children' = [children EXCEPT ![e] = {}]
    /\ UNCHANGED <<dbVars, cancelVars, published, spawning, task, result, beat, swept>>

\* OperationalError outside the try block: mark_running, the release, the
\* finalization, the event or the cascade.  (IntegrityError, if the cascade would
\* bring a child back on a thread that is busy again.)  ARQ ends a job that raises.
Blip(e) ==
    /\ "blip" \in Faults
    /\ pc[e] \in {"picked", "releasing", "finalizing", "publishing", "cascading", "cancelling"}
    /\ Escape(e)
    /\ DropJob(RunOf(e))
    /\ children' = [children EXCEPT ![e] = {}]
    /\ UNCHANGED <<dbVars, cancelVars, published, spawning, task, result, beat, swept>>

\* OperationalError in a renewal: the heartbeat task ends with an exception
BlipHeartbeat(e) ==
    /\ "blip" \in Faults
    /\ beat[e] = "renewing"
    /\ beat' = [beat EXCEPT ![e] = "raised"]
    /\ UNCHANGED <<dbVars, cancelVars, published, jobVars, pc, task, result, children, swept>>

-----------------------------------------------------------------------------
Execute(e) ==
    \/ Acquire(e) \/ Skip(e) \/ FirstChunk(e) \/ SeeCancel(e) \/ EndStream(e)
    \/ SaveOutput(e) \/ RetryableError(e) \/ PermanentError(e) \/ Release(e)
    \/ Retry(e) \/ AwaitHeartbeat(e) \/ AwaitRaises(e)
    \/ Finalize(e) \/ Publish(e) \/ ReadChildren(e) \/ Cascade(e)

Heartbeat(e) == Wake(e) \/ Renew(e)

Fault ==
    \/ \E e \in Execs : Crash(e) \/ Timeout(e) \/ Blip(e) \/ BlipHeartbeat(e)
    \/ \E r \in Runs : LoseCancelKey(r)
    \/ CrashSweep

Next ==
    \/ \E r \in Runs, e \in Execs : Deliver(r, e) \/ Spawn(e, r)
    \/ \E r \in Runs : Exhaust(r) \/ EnqueueSpawned(r) \/ BreakSpawn(r)
    \/ \E e \in Execs : Execute(e)
    \/ \E e \in Execs : Heartbeat(e)
    \/ \E r \in Runs : ReadForCancel(r) \/ RequestCancel(r) \/ SetCancelKey(r) \/ Expire(r)
    \/ Sweep
    \/ Reconcile
    \/ Fault

Spec == Init /\ [][Next]_vars

\* The event loop runs every task, tool calls too, ARQ polls its queue and runs the
\* cron job every 15 seconds, an unattended lease runs out with the clock, and not
\* every sweep is killed before its commit.
Fairness ==
    /\ \A r \in Runs : /\ WF_vars(\E e \in Execs : Deliver(r, e))
                       /\ WF_vars(Exhaust(r))
                       /\ WF_vars(EnqueueSpawned(r) \/ BreakSpawn(r))
                       /\ WF_vars(SetCancelKey(r))
                       /\ WF_vars(Expire(r) /\ ~Attended(r))
    /\ \A e \in Execs : WF_vars(Execute(e)) /\ WF_vars(Heartbeat(e))
    /\ WF_vars(Sweep) /\ SF_vars(Reconcile)

FairSpec == Spec /\ Fairness

-----------------------------------------------------------------------------
(* Safety                                                                   *)

\* the runs nobody cancels, neither a client nor the end of a parent
Undisturbed == {r \in Runs \ Cancellable : Parent[r] = None}

\* A run shown as running is held by one worker, and the newest row of its
\* attempt history is that worker's, still open: acquiring, releasing,
\* stealing, finalizing and sweeping keep the two tables in step.
RunningIsLeased ==
    \A r \in Runs : run[r].status = "running" =>
        /\ attempts[r] # <<>>
        /\ LastAttempt(r) = [worker |-> run[r].worker, outcome |-> "open"]

\* Clients stop reading at run-finished: a run that nobody cancels has at most one,
\* published by the execution that still owns the row, however often it was
\* delivered.  (A cancelled run may have two: brought back by a cancel request that
\* had read it before it ended, it is acquired and finished again.)
FinishedOnce ==
    \A e, f \in published :
        RunOf(e) = RunOf(f) /\ RunOf(e) \in Undisturbed => e = f

\* "Immutable fact record": a closed attempt never changes, and a row is never
\* removed or given to another worker.
AttemptsAreFacts ==
    [][\A r \in Runs : \A i \in DOMAIN attempts[r] :
          /\ i \in DOMAIN attempts'[r]
          /\ attempts'[r][i].worker = attempts[r][i].worker
          /\ attempts[r][i].outcome # "open" => attempts'[r][i] = attempts[r][i]]_vars

\* the runs that a cancel request or a cascade has read as active
CancelsUnderWay == cancelReads \cup UNION {children[e] : e \in Execs}

\* A run that reached a terminal status never leaves the terminal statuses through
\* a redelivery, a retry, a renewal or a sweep.  Only a cancel that had read the run
\* before it ended brings it back, as a run with a cancel request and with the
\* worker and the lease it ended with: a worker's lease the sweep will fail.
OnlyStaleCancelsReopen ==
    [][\A r \in Runs : run[r].status \in Terminal =>
          \/ run'[r].status \in Terminal
          \/ /\ r \in CancelsUnderWay \ Undisturbed
             /\ run'[r] = [run[r] EXCEPT !.status = "cancel_requested"]]_vars

\* The first terminal status of a run nobody cancels is its last one: a client
\* that has read "completed" never finds the run failed later.
FirstOutcomeStands ==
    [][\A r \in Undisturbed :
          run[r].status \in Terminal => run'[r].status = run[r].status]_vars

\* The status of a finished run nobody cancels is the outcome of its last
\* lease, failed for one that expired; a run never leased does not finish.
OutcomesAgree ==
    \A r \in Undisturbed : run[r].status \in Terminal =>
        /\ attempts[r] # <<>>
        /\ \/ LastAttempt(r).outcome = run[r].status
           \/ LastAttempt(r).outcome = "lease_expired" /\ run[r].status = "failed"

\* Two executions never stream into the checkpointer of a run nobody cancels,
\* even when a stalled worker lost its lease and the job was delivered again.
OneExecutionPerRun ==
    \A e, f \in Execs : InBody(e) /\ InBody(f) /\ RunOf(e) = RunOf(f)
                        /\ RunOf(e) \in Undisturbed => e = f

\* The user never gets two assistant messages for a run nobody cancels.
OneAnswerPerRun ==
    \A e, f \in outputs : RunOf(e) = RunOf(f) /\ RunOf(e) \in Undisturbed => e = f

\* a try that was broken off while it streamed, and with it its tool calls
BrokenOff(e) ==
    /\ pc[e] \notin {"unused", "picked", "started", "streaming", "saving"}
    /\ result[e] # "completed"

\* A pending run still has a job that will be delivered: nothing else ever
\* looks at a pending run, not even the sweep, and it blocks its thread.  The one
\* exception is a subagent run whose tool call is about to enqueue it, or was
\* broken off before it did, by an error or a cancel of the parent.
PendingHasJob ==
    \A r \in Runs : run[r].status = "pending" /\ job[r].state = "gone" =>
        \/ spawning[r] # None
        \/ \E e \in Execs : RunOf(e) = Parent[r] /\ BrokenOff(e)

\* No subagent run outlives its parent untold: once the job of a parent nobody
\* cancels has finished the run and cascaded, every child that has not ended has
\* its cancel key, or is about to get it, and no further child is started.
CascadeReachesChildren ==
    \A e \in published, c \in Runs :
        /\ pc[e] = "returned" /\ Parent[c] = RunOf(e) /\ RunOf(e) \in Undisturbed
        /\ run[c].status \notin Terminal \cup {"absent"}
        => c \in cancelKey \cup cancelling

\* "a stale/duplicate attempt cannot finalize a run it no longer owns": an
\* execution finalizes a run only while its attempt is the open one.
StaleWriteRejected ==
    [][\A e \in Execs : LET r == RunOf(e) IN
          /\ pc[e] = "finalizing" /\ pc'[e] = "publishing"
          => LastAttempt(r) = [worker |-> e, outcome |-> "open"]]_vars

\* "a run whose lease expired without a heartbeat ... Fail it": what the sweep
\* fails is an active run, and its lease is expired when it is failed.
SweepFailsOnlyTheDead ==
    [][\A r \in Runs : r \in swept \ swept' /\ run'[r].status # run[r].status => r \in Overdue]_vars

-----------------------------------------------------------------------------
(* Liveness                                                                 *)

\* A run that was leased is not left in the hands of a worker for ever: it is
\* finalized, released for a retry, or swept.
LeaseIsTemporary ==
    \A r \in Runs : run[r].status \in Active /\ run[r].worker # None
                        ~> run[r].status \in Terminal \cup {"pending"}

\* Every run whose job was enqueued reaches a terminal status.
EveryRunEnds ==
    \A r \in Runs : run[r].status = "pending" /\ job[r].state = "queued"
                        ~> run[r].status \in Terminal
=============================================================================
