# A TLA+ model of vazhi

vazhi is a chat backend: an HTTP API records messages and decides whether an
agent run starts or waits, ARQ workers execute the runs, and the two meet only
in Postgres and Redis.  Beside the runs it keeps knowledge bases: documents are
cut into chunks, stored in Milvus and turned into a graph.  This directory holds
TLA+ modules of that machinery, small instances for TLC, and TLAPS proofs about
them.  Paths below are relative
to `src/`; `V` stands for `backend/package/vazhi`.

## The system

| part | code | state it keeps | operations |
|---|---|---|---|
| Request queue | `V/services/agent_queue_service.py`, `V/repositories/agent_run_request_repository.py` | `agent_run_requests`: status, policy, order; `conversations` row as a lock | intake (enqueue, reject, steer), finalize, promote to steer, cancel a queued request |
| Run worker | `V/services/run_worker.py`, `V/repositories/agent_run_repository.py`, `backend/worker_main.py` | `agent_runs`: status, owner, lease; `agent_run_attempts`; a heartbeat task per execution | acquire, stream, save the answer, retry, finalize, cascade, heartbeat, sweep |
| Run control | `V/services/agent_run_service.py` | Redis cancel keys | request a cancel, await a result, progress |
| Subagents | `V/services/subagent_run_service.py`, `V/agents/middlewares/subagent_task.py` | `subagent_threads`, `parent_run_id` | start, status, cancel, await; busy detection |
| Token usage | `V/agents/middlewares/token_usage.py`, `V/services/run_worker.py` | counters in the checkpointed state of a thread, `agent_runs.token_usage` | enter a run, count a call, store at the end |
| Event stream | `backend/server/routers/agent_router.py` | one Redis stream per run, the client's cursor | publish, read from a cursor, reconnect |
| Postgres manager, migration | `V/storage/postgres/manager.py`, `backend/migrate.py` | the checkpointer's pool, the schema version, advisory locks | set up the checkpointer, migrate, check the schema |
| Agent construction | `V/agents/` | MCP tool cache, approval policy | tool loading, middlewares |
| Knowledge | `V/knowledge/`, `V/services/knowledge_service.py` | Milvus and the semaphore before it, Neo4j, `knowledge_documents` | ingest, index into the graph, query |
| Chunking | `V/knowledge/chunking/` | none; algorithms on text | the general, separator, book and qa presets |
| Small services | evaluation, feedback, history, attachments | a table each | create, list |
| Web client | `web/src/store`, `web/src/lib/api.ts` | chat store | send, stream, stop |

Interactions.  The API calls `intake_request` inside one transaction and
`finalize_intake` after its commit; the latter puts a job in Redis.  ARQ
delivers a job at least once; `execute_agent_run` takes the lease, and from
then on four parties write the same row: the execution, its heartbeat task,
cancel requests and the periodic sweep.  A running agent starts subagent runs
through the same intake, holding its job slot while it waits for them.  A
finished run publishes `run-finished` on its Redis stream and cancels its
children.  An ingestion queues one more ARQ job, which indexes the document into
the graph.

What is hard, and what makes each part correct:

- **Run worker.**  Redelivery after a crash, a worker that sleeps through its
  lease, retries at the limit, a cancel at any moment, CancelledError from a job
  timeout, the sweep's unlocked scan, a cancel that acts on a status read before
  the row was locked.  For a run nobody cancels: one execution at a time, one
  answer, one run-finished; for every run an attempt history that agrees with the
  row, a terminal status that nothing but such a cancel leaves, no run held for ever.
- **Request queue.**  Intakes are serialised by the conversation row, but
  promotions, cancellations and ends of runs are not.  One active run per
  thread, FIFO, no cancelled request with a run, at most one pending steer, and
  every waiting request served.
- **Subagents.**  Tool calls from several parents meet on a child thread; a
  parent may end, be cancelled or be retried in the middle of a call.  One active
  run per child thread, no child that outlives its parent's cascade, true answers,
  and waiting parents that do not starve their children of worker slots.
- **Token usage.**  Counters are checkpointed while the worker reads them from the
  stream; retries start from the checkpoint.  What is stored is what was billed.
- **Event stream.**  No event is lost or repeated over a reconnect.
- **Postgres manager.**  The migrator may die anywhere; first jobs wait for a lock
  with a connection in their hands.  A ready API has its schema; set-up ends.
- **Knowledge.**  Three stores without a common transaction, a pipeline of tasks
  and queues that can fail anywhere, a semaphore whose users may be cancelled.  A
  listed document is searchable, a finished job is complete, no slot is lost.
- **Chunking.**  Limits met at the boundary; no text lost; structure kept.

## Modules

### RunLifecycle

One run row and its attempts, the job ARQ keeps for it, any number of
deliveries, their heartbeats, cancel requests, the sweep, and the subagent runs
one level below.  Variables follow the tables (`run`, `attempts`, `outputs`),
Redis (`cancelKey`, `published`, `job`) and the local state of an execution
(`pc`, `task`, `result`, `beat`); `swept` is what the sweep has read and not yet
written, `cancelReads` and `children` what the cancel requests and the cascades
have, `cancelling` the cancel requests committed before their key is set,
`spawning` the tool calls between the commit of a subagent run and its job.

A transaction that locks a run row before it reads it is one action (`Acquire`,
`Release`, `Finalize`, `Renew`).  The steps of `execute_agent_run`
between transactions are separate: `FirstChunk`, `EndStream`, `SaveOutput`,
`RetryableError`, `PermanentError`, `AwaitHeartbeat`, `Publish`.
`Sweep` and `Reconcile` are the scan and the writes of
`reconcile_expired_run_leases`.  `Escape` says where an exception goes: an
execution that had not set `stop_heartbeat` leaves its heartbeat running.

A cancel is a read and a write: `ReadForCancel` and `RequestCancel`, or
`ReadChildren` and `Cascade` for the children of a run that has ended.
`request_cancel` does lock the row, with `db.get(..., with_for_update=True)`, but
its session has loaded the run before, by a query without a lock, and a loaded
object is not refreshed; so the status it tests is the one that was read, and it
writes `cancel_requested` over whatever the row says by then.  A run that ended in
between is open again, with its old `worker_id` and lease: a redelivery may take
it, or the sweep fails it when the lease runs out.

A subagent run starts in two steps: `Spawn` commits it (`SubagentRunService.start`),
`EnqueueSpawned` is `finalize_intake`, and `BreakSpawn` a tool call broken off
between them, after which the run is pending and no job will ever start it.

Abstractions.  A lease is live or expired; it expires only when nobody attends
to it, unless stalls are allowed.  The stream is one chunk of interest; what it
says, tokens, traces and messages are left out.  The hour after which a cancel
key goes is left out.  So is the unique index on the active runs of a thread,
which is in `Subagents`: a write it refuses is a write that does not happen, or an
exception out of the cascade (`Blip`).  `last try` and ARQ's `max_tries` are one
constant because both are `settings.run_max_retries`.

ARQ is external and modelled from how the worker uses it: a job is started at
most `max_tries` times; RetryJob and shutdown keep it, any other end drops it;
after a crash the in-progress key runs out and the job is delivered again; a
job timeout cancels the coroutine and drops the job.

### RequestQueue

One thread, the requests sent to it, and the runs dispatched for them.  An
intake is three steps, since other transactions commit between its statements:
`Lock` or `InsertConversation` (the lock on the conversation row and the reads
that decide the policy), `PickHead` (the new request is flushed and the head
read FOR UPDATE) and `Dispatch` (the active run is read again, the run
created, the transaction committed).  `FinalizeIntake` follows on its own, so a
crash fits in between.  `PromoteCheck` and `PromoteCommit` are the two halves
of `steer_queued_request`, holding its row lock from one to the other;
`CancelQueued` is atomic because nothing it reads before the lock matters.

Locked rows block as in Postgres: a head that is being promoted is waited
for.  The conversation of a new thread cannot be locked; two first messages
insert it, and the second is refused with an IntegrityError (`refused`).

Left out: a request id that arrives twice (only the subagent service reuses
one, and the API draws a new one for every call), queue positions, and
the content of messages.  The inside of a run is RunLifecycle's.  The cancel of a
run, and with it the one that brings an ended run back, is in `RunLifecycle` and
`Subagents`.  The partial unique index `uq_agent_runs_one_active_per_thread` is left
out here: between intakes it is a second barrier, and OneActiveRun shows that the
locks are enough without it.  Against a cancel that brings an ended run back it is
the only one.

### RunLedger and RunRefinement

`RunLedger` is the abstract specification of a run: it waits until a worker takes
it, is held by one worker at a time, may be given back, and ends; a worker
token takes at most one run; only a run that may be cancelled is taken out of a
worker's hands, or open again after its end (`Reopen`), then in the same hands.  `RunRefinement`
maps RunLifecycle to it.  The phase is the status
without the cancel request (`waiting` for a row without an owner), the holder is
`worker_id`, the takers are the workers of the attempt rows, and `Stealable` is
every run outside `Undisturbed`, the runs no client cancels.

### Subagents

`SubagentRunService.start` and the five tools of `subagent_task.py`, for any
number of parents whose calls share child threads.  `start()` is one transaction
that locks the row of the creator and then the conversation of the child thread;
its steps between awaits are actions: `LockCreator`, `CheckThread` (the look
before the lock), `Intake` (the look under it), `Commit`, and `FinalizeIntake`
after the transaction.  The request id is a hash of creator, thread and tool call,
so a call starts at most one run and the run is named by the call.  A call made
again by a retried parent finds its own request.  `AwaitResult` and `AwaitTimeout`
are the two ends of `await_agent_run_result`, `CheckStatus` is `subagent_status`,
`Abort` a call whose parent's stream has broken.  `ReadForCancel`, `RequestCancel`
and `SetCancelKey` are a cancel, `subagent_cancel`'s of a child or a client's of a
parent (`MayCancel`); as in RunLifecycle the status tested was read before the lock.
A child it brings back is active in its thread once more: the write waits for a
`start()` that has inserted a run there (`NoInsertInTheWay`), and
`uq_agent_runs_one_active_per_thread` refuses it beside another active run
(`UniqueIndex`).  A cascade refused for one child rolls back for all and ends the
job with an exception (`raised`), so none of them is told.

Workers are slots (`Pick`), of which there are `MaxJobs`; `Retry`, `Finalize`,
`Publish`, `ReadChildren` and `Cascade` are what a parent's or a child's execution
does to the rows.  `Die` is the loss of a worker; `Sweep` fails a run without a
worker, or one whose worker stalls and comes back to finalize it a second time.
Who meets what is a parameter: `Flaky` (parents whose stream may break), `Mortal`
(runs whose worker may die or stall), `Cancellable`.  The rest of the inner life of
a run (lease, attempts, retries of a child) is RunLifecycle's.

### TokenUsage

The runs of one thread in order.  `snapshot` is the checkpoint, `live` the state
of the executing graph, `seen` the worker's local figures, which it has only from
the first update of a try on (`heard`, `FirstUpdate`), `stored` the column of
`agent_runs`; `billed` is what the provider charged, recorded for comparison.
Usage is kept per bucket as in `_add_call_to_aggregate`; `Checkpoint` happens at
any time, since checkpoints are written in the background.

### MilvusGate

`_run_milvus_query_io`: a blocking call runs in a thread behind an asyncio
semaphore, its caller shields it, and a task that wraps it gives the slot back.
A release hands the slot to a waiter (`woken`) who takes it up later, as asyncio
does.  Nobody overtakes: a newcomer queues behind a woken waiter even if a slot is
free, and that waiter, when it runs, wakes as many others as there are free slots
(`WakeAll`).  A caller may be cancelled in each place it can stand.

### CheckpointerPool and SchemaMigration

`setup_langgraph_checkpointer`: each first job of a process takes a connection of
the pool, waits for an advisory lock of the database with it, and needs a second
connection under the lock; a wait in the pool times out.  `SchemaMigration` is
`migrate.py`, with its session lock over four transactions and a death between any
two of them, and the API's `require_current_schema`.  A database may come with any
of the tables, each with any of its columns, indexes and foreign keys (`parts`):
`create_all` makes the missing tables complete and leaves the others alone, to which
the ALTER TABLE and CREATE INDEX statements add only the parts in `Patched`.

### KnowledgeIngestion

`ingest_document` (owner, Milvus, graph job, row in `knowledge_documents`, each
step able to fail) and `index_document_into_graph`: an extraction queue with one
sentinel per worker, the workers, a write queue with one sentinel, one write
worker; extraction or a write may raise, the job may time out or its process die
and the job be delivered again.

### Chunking and ChunkStructure

The chunkers, as operators checked against reference definitions on every text
that can be written within the bounds.  `Chunking` has the general preset
(`Sections`, `NaiveMerge`, `EnsureLimit`) over texts whose characters are of a
kind: word, punctuation, delimiter, blank, line break.  The separator preset's
slicing loop runs one iteration per step.  `ChunkStructure` has the book preset's
`hierarchical_merge` with its binary search (`Chains`), the qa preset's two
line-by-line readers (`ByPrefix`, `ByHeadings`), and its packing of long answers
(`SplitLongChunk`), over lines named by their position and by what the regular
expressions tell apart.

### Proofs and instances

Each `*Proofs` module extends the module it is named after with theorems;
`RunLifecycleProofs` has those of `RunRefinement` too, and `ServicesProofs` those
of the gate, the schema, the pool, token usage and their composition in
`MCServices`.  `InductionLemmas` has the lemmas about numbers, finite sets,
sequences and folds that several of them need.  `SequenceParts` defines the parts
of a sequence by the set of their positions (`Ordered`, `Kept`), which the chunkers
use where the library has `SelectSeq`: that takes an operator as its argument, and
the provers cannot reason about it.
`MCRunLifecycle`, `MCRequestQueue` and `MCSubagents` give names to small sets and
functions.  `MCServices` puts the components that share no state side by side: a
behaviour is a behaviour of one of them, chosen at the start (`focus`), while the
others stay where they begin.

## Runs

| run | bounds | question | result |
|---|---|---|---|
| `run_faults` | 2 runs, one of which may be cancelled, 2 deliveries, 2 tries, all faults | Do the row and the attempt history stay in step, does only the owner finish, is a run nobody cancels executed once at a time and answered once, is a terminal status left only through a cancel that had read the run before? | holds, 3,430k states |
| `run_nostall` | 2 runs, 3 deliveries, timeouts and database errors | Is the first terminal status the last, and the outcome of the last attempt? Do the tables implement RunLedger? | holds, 655k |
| `run_crash` | 1 run, 3 deliveries, crashes, fairness | Is no run held for ever by a dead worker? | holds, 156k |
| `run_tree` | parent and child, 4 deliveries, no faults, fairness | Does every run with a job end, does a pending run have a job unless its tool call was broken off, does the cascade reach the child? | holds, 183k |
| `queue_safety` | 4 requests, all policies, API crashes | One active run, FIFO, reject decided at the lock, no run without a dispatched request | holds, 109k |
| `subagents` | 2 parents, one call each, 1 child thread, 2 slots; a cancel of one child, a dying or stalled worker of the other, a parent that errs and is retried once; fairness | One run per thread, no child that escapes the cascade, reported ends stay ends, busy only if busy, does waiting starve? | holds, 385k |
| `services` | below | Chunkers against references, usage against bills, gate, migration, pool, ingestion | holds, 177k |
| `run_stale` | stalls | Is a swept worker's write rejected? | violated |
| `run_sweep` | no faults | Does the sweep fail only dead leases? | violated |
| `run_leak` | timeouts, fairness | Is every lease temporary? | violated |
| `queue_steers` | enqueue only, promotions | At most one pending steer? | violated |
| `queue_orphan` | enqueue only, fairness | Is every dispatched run started? | violated |

Bounds.  A delivery is an owner token, so the number of tokens bounds how often
jobs are started: two suffice for a takeover and a stale worker, three for a
takeover of a takeover or a retry after one, four for a retried parent with a
retried child.  Two tries put the limit within reach.  Four requests are enough
for an active run, two requests in line (two promotions, or FIFO between
them) and an intake in progress.  Owner tokens and requests are symmetric in
the safety runs; the runs with fairness use no symmetry.  CHECK_DEADLOCK is
FALSE because the system is idle when its tokens or requests are used up, or when
no client asks anything of it.

In `subagents` two parents and one shared thread give every race of `start()`:
a call waits for the task that continues the same thread, and two slots can both
be held by parents, one of which waits.  One retry lets a call be made again.
The cancelled child can end, be reported and be brought back; its thread can be
taken by the other child meanwhile, so that the index refuses it, or the cascade
(`raised`).  The dying child can be swept and finished after that.  A client's
cancel of a parent is in the module and under the proofs, and in `run_tree` the
parent's end; adding it here multiplies the states and shows no new interleaving
of the calls.

In `services`: texts of 5 to 11 characters in seven configurations
(`MCChunkConfigs`), each long enough for its limit to be passed and for a third
chunk; documents of 5 lines, 6 heading levels and depth 5, so that a chain can
have a heading popped and a level skipped; answers of 4 lines with a limit of 8
characters, 3 of them for the frame, and every length of a question; 2 runs of
2 model calls and one retry; 3 searches at a gate of 2; 2 migrators and a server
at schema 2, from every earlier one, with two tables that may be there or not, each
with a patched part and one that is not; 3 jobs in 2 processes with pools of 2, so
that one process can fill its pool; a document of two records and one without,
2 extraction workers, one redelivery.

What the violations show:

- `run_stale`: `mark_terminal` compares the owner only.  The sweep fails a run
  but leaves `worker_id`, so the late worker still owns the row and turns
  `failed` into `completed`.
- `run_sweep`: a cancel-requested run with an expired lease can be taken over
  between the sweep's scan and its write, and is then failed with a live lease.
- `run_leak`: a job timeout is a CancelledError; `except Exception` does not
  see it, `stop_heartbeat` stays unset and the heartbeat renews for ever.
- `queue_steers`: two promotions lock different rows.
- `queue_orphan`: an intake that dispatches an older head answers `queued` for
  itself, and `finalize_intake` enqueues nothing for the head.

Disagreements and gaps met while modelling that no run of its own shows:

- A cancel that read a run before it ended writes `cancel_requested` over the
  terminal status (`agent_run_service.py:92-95`, `agent_run_repository.py:116`; the
  cascade in `run_worker.py:82-84` does the same to a child).  If its job is
  delivered once more, because its worker died before the job was done, the run is
  executed again, with a second answer and a second `run-finished`, or the
  sweep fails it.  So FinishedOnce speaks of runs nobody cancels, and
  OnlyStaleCancelsReopen says that nothing else opens an ended run again.
- A subagent run brought back by such a cancel is active in its thread beside a run
  that took the thread meanwhile, which the unique index refuses; inside a cascade
  the IntegrityError rolls back the cancel of every other child, and no one repeats it.
- A tool call broken off between the commit of a subagent run and `finalize_intake`
  leaves a pending run without a job, which blocks its thread: PendingHasJob names
  this as its one exception, and EveryRunEnds speaks of runs whose job was enqueued.
  Only the same call made again by a retried parent (in Subagents) enqueues it after
  all.  The parent's cascade makes the row `cancel_requested`, and there it stays: it
  never had a lease, so the sweep does not see it.
- `subagent_await` reads the run again after `await_agent_run_result` has answered,
  so the status and the result of one answer may come from two moments.
- A run whose last try fails before its first update reports no token usage although
  its earlier tries were billed: StoredUsageIsBilled allows a failed run nothing or
  everything.
- `create_business_tables` adds `messages.run_id` to an inherited table without the
  index and the foreign key the model declares (`models.py:57`), and no other new column
  or index of an inherited table at all, `uq_agent_runs_one_active_per_thread`
  included; the version is recorded as current all the same.  ReadyMeansMigrated
  says exactly what a ready server can count on.
- With `blip` among the faults PendingHasJob fails: an OperationalError in
  `mark_running` is outside the try block, ARQ ends the job, and nothing looks at
  a pending run again.
- A request promoted to steer after an intake has chosen the head is overtaken by
  that head if the active run ends in between.
- Only an intake dispatches the queue: when the active run ends, a waiting request
  stays queued until another message arrives.
- A child failed by the sweep publishes no `run-finished`, so a parent that awaits
  it waits for the whole deadline and is then told that it is still running.
- The usage of the model call behind the chunk at which a cancel key is seen is
  billed and not stored: StoredUsageIsBilled is an inequality for such a run.
- When an extraction worker raises, the graph job fails, its siblings go on, and
  the write task waits for a sentinel nobody sends; the job itself does end.
- `hierarchical_merge` looks for the nearest heading of every level on its own, so
  a section can be given a deeper heading of an earlier chapter (the first-level
  heading is right, which is TopHeadingIsNearest); headings beyond the depth that
  have no text under them are in no chunk.
- The slices of the separator preset end with the first letter of their last word,
  whose rest opens the next slice.

Fairness.  The asyncio loop runs every task; ARQ polls its queue and runs the
sweep every 15 seconds; leases expire with the clock.  These are weak fairness
of `Execute`, `Heartbeat`, `Deliver`, `Exhaust`, `Sweep`, `SetCancelKey`, of
`EnqueueSpawned` or `BreakSpawn` (a tool call goes on or is broken off) and of
an unattended `Expire`; `Reconcile` is strongly fair since a crash may interrupt
it, but not every time.  Faults, cancel requests and promotions have none, and
no client is obliged to send a request.  In Subagents a statement returns, a
deadline passes (`Progress` of a call), a free slot is filled (`Pick`) and a
run's own steps are taken; nothing obliges an agent to call a tool, to retry or to
cancel.  In CheckpointerPool the advisory lock is strongly fair, since Postgres
queues its waiters; connecting, finishing and giving up are weakly fair.  In
KnowledgeIngestion the tasks of a job (`PipeStep`) and the job itself (`JobStep`)
are weakly fair; timeouts and deaths are not.

## Proofs

### RunLifecycleProofs

For any sets of runs and tokens, any `MaxTries`, any set of faults and any
one-level `Parent`:

- `TypeCorrect`: `Spec => []TypeOK`.
- `RunningIsLeasedHolds`: a running run's newest attempt is open and its owner's.
- `AttemptsAreFactsHolds`: closed attempts never change, none disappears.
- `OnlyStaleCancelsReopenHolds`: a terminal status is left only through a cancel or
  a cascade that had read the run before, and then with the worker and lease it had.
- `FinishedOnceHolds`, `OneExecutionPerRunHolds`, `OneAnswerPerRunHolds`: for a run
  nobody cancels.

- `LedgerImplemented`: `Spec => ImplementsLedger`, the refinement of `RunLedger`.

and, under a restriction of the faults:

- `OutcomesAgreeHolds`, `FirstOutcomeStandsHolds`: for a run nobody cancels, while
  no worker is stalled past its lease (`"stall" \notin Faults`; crashes, timeouts and
  database errors are allowed).  `run_stale` shows that a stall breaks both.
- `CascadeReachesChildrenHolds`: while no worker dies and no call fails
  (`Faults \subseteq {"stall"}`).  A crash between publishing and cascading leaves
  the children running: the cascade is not repeated.
- `PendingHasJobHolds`: while nothing fails (`Faults = {}`), but for a subagent run
  whose tool call is about to enqueue it or was broken off.  One database error in
  `mark_running` breaks it, as said above.

They rest on `ConstantsAssumption` besides.  The argument has three layers.
`TypeInv` is TypeOK with "an execution under way has a run" (`Assigned`).  Lemmas
on the attempt rows (`CloseAttemptRows`, `OpenAttemptRows`, ...) and on the run row
(`RowMoves`: every step of Next takes, gives back, settles, renews or leaves a
row) reduce each action to what it does to the tables.  Then two inductive
invariants: `FinalizerOwns`, that an execution past its finalization is the
owner of a terminal run, if nobody cancels it, so that no second execution can
follow, and `Custody`, that an undisturbed run has no execution in its try block that is
not its owner.  The properties themselves are not inductive: FinishedOnce says
nothing about an execution that is about to publish, and OneExecutionPerRun
nothing about the row a second delivery would test.

Without stalls there is more to say of an undisturbed run.  `CalmInv` is that once
its lease has expired, or it is terminal, its owner will never reach the
finalization (`Bound`, `Doomed`), so that the sweep and the owner do not both end
it; with it `OutcomeInv` is inductive, and a step out of
a terminal status is excluded.  `CascadeInv` adds that a cancel request has its key
or a request about to set it, and that who has published is cascading or done: a
child that is active while its parent's cascade writes has its key or is among those
the cascade has read.
`JobInv` ties the job to the executions that hold it: it is in progress exactly
while one does, at most one does, and an execution that gives its job back has a
try left.  A run that has not been enqueued is in the hands of a tool call that
streams or was broken off (`SpawningOK`, `Unsent`).

For the refinement `LedgerInv` is what the mapping needs beyond types: a run
without an owner says so, the sweep has only read rows that exist, and a token that
has not taken its run is in no attempt row.  Lemmas say that no step but `Acquire`
changes the takers (`TakersKept`, `TakersTaken`); a stale cancel is the ledger's
`Reopen`, a cascade perhaps of several runs at once.  `LedgerStep` then goes through the
kinds of steps of the lemma `RowMoves` and gives the ledger's step for each.

### RequestQueueProofs

For any set of requests and policies, with and without crashes:

- `QueueTypeCorrect`, `OneActiveRunHolds`, `DispatchedIffRunHolds`,
  `RejectedOnlyIfBusyHolds`, `FirstComeFirstServedHolds`.

`IntakeMoves` sorts the steps of Next into seven kinds by what they do to the
tables.  `LockInv` says what the two locks are for: one intake at a time is
between its checks and its commit (`OneHolder`), its request is not in the
table yet (`Unrecorded`), and the head it chose stays queued (`HeadWaits`).
DispatchedIffRun is inductive with it.  RejectedOnlyIfBusy needs that an idle
thread stays idle for the holder of the lock and that a reject request then
chooses itself (`IdleForReject`, `RejectPicksItself`); FIFO needs that the chosen
head is the oldest in line when no steer request waited (`HeadIsFirst`) and that
no request is twice in the order of arrival (`DistinctOrder`).  OneActiveRun is
inductive by itself because the active run is read again at the dispatch.

### SubagentsProofs

For any parents, calls, threads and slots: `SubagentsTypeCorrect`,
`OneRunPerThreadHolds`, `NoChildOutlivesCascadeHolds`, `ReportedChildIsOverHolds`,
`BusyOnlyIfActiveHolds`.  The inductive invariant `Inv` adds what the two locks
mean: a creator is running while a call holds its row (`TransactionsHoldCreator`),
which is why no child is committed after the cascade, and an uncommitted request
is alone on its thread (`InsertedIsAlone`), which is why the second look suffices.
For the stale reads it says what a worker and a reader can still rely on: a run that
is streamed is open unless the sweep has failed it (`WorkersOwnOpenRuns`), who
publishes or cascades has written an end (`LastStepsFollowTheEnd`), a child that is
active during the cascade was read by it or has its key (`ReadBeforeCancelled`), and
what was read exists (`ReadRunsExist`).

### ServicesProofs

- `SlotsAccountedForHolds`: for any finite set of searches and any limit.  A
  release moves a slot from one holder to another or to the free ones
  (`ReleaseKeepsSlots`), and so does a coroutine that wakes others as it leaves the
  queue; that it wakes as many as there are slots keeps the second part, that
  nobody waits while one is free but behind a woken waiter.
- `ReadyMeansMigratedHolds`: the version is recorded only of tables that exist
  with their patched parts (`RecordedIsCreated`), wherever a migrator died.
- `StoredUsageIsBilledHolds`: for any number of runs, calls and retries.
  `UsageInv` says where the usage billed so far is to be found at each moment: in
  the state of the graph while an attempt executes, which is what the worker knows
  once it has heard of it (`AttemptIsBilled`); before that and between two attempts
  in the checkpoint, if it has the number of the run (`CheckpointIsBilled`).
  `Totals` and `Counting` say that
  the sum over the buckets grows by a call when its bucket does.
- `ThreadCoversRunsHolds`: from `ThreadInv`, that the thread's counters cover what
  is stored of the earlier runs together with what the run in progress has used.
- `SideBySide`: a behaviour of `MCServices` is one of each of its components,
  fairness included, so that a theorem about a component holds of the composition
  that TLC runs.  `AllTypesCorrect` follows from the components' type invariants.

### KnowledgeIngestionProofs

- `ListedIsIndexedHolds`: from `StoredInOrder`, what has been done for a document
  by where its call stands.
- `GraphJobCompleteHolds`: for any number of records and workers.  `PipeOK` is the
  invariant of a pipeline: sentinels come behind records, the write sentinel is
  last and put when all workers have stopped, and unless something raised every
  record is in a queue, in a worker, at the writer, or written.  It is a predicate
  of the parts of one pipeline, so each step has a lemma about sequences
  (`TakeKeepsPipe`, `PutKeepsPipe`, ...).

### ChunkingProofs

For every text, limit, overlap and delimiter:

- `ChunksWithinLimitHolds`.  `Within(C, limit)` is the set of texts that count at
  most a limit; the proof carries it through the stages of the preset.  Stripping
  keeps it (`StripWithin`), a hard split makes it (`HardSplitWithin`, from
  `SpanCount`: a span between two cuts has as many words as lie between them), and
  `GeneralChunksWithin` joins the parts.  `CountsWords` is why a bound on words is a
  bound on tokens.
- `ChunksKeepTextHolds`.  With K the characters that are neither blank nor dropped
  by a split, `Chosen(s, K)` is what a text says and `Said(ss, K)` what a list of
  texts says, one after the other.  Every stage of the preset says what it was
  given: splitting on the delimiter (`SplitSays`), stripping (`StrippedSays`), a
  hard split (`HardSplitSays`), the three ways of naive_merge and the limit on every
  chunk (`EnsureLimitSays`).  The first and the third rest on `SpansSay`: spans that
  follow each other say what the whole does if what lies between them says nothing.
  An overlap repeats something before a section (`AddChunkSays`), and `Holds` is the
  invariant of the merging: what the chunks say so far has, read greedily, all that
  the sections merged so far say, and is just that without an overlap.  `ReadingFollows`
  says that the greedy reading picks up the next section wherever it comes.
- `SlicingAdvancesHolds`: an overlap is less than the limit because its percentage
  is clamped (`OverlapIsLess`), so what is repeated never reaches back to the start
  of the slice.

### ChunkStructureProofs

For documents of any length and any number of levels and depth:

- `SectionsKeptHolds`, `TopHeadingIsNearestHolds`.  `SearchFinds` proves the
  hand-written binary search for every increasing list: whenever the target lies
  between the two ends, it ends at the last entry that is not above it; by
  induction on the width of the interval.  So `Climb` finds the nearest heading
  of a level (`NearestHeading`), what it makes is a chain of headings above a section
  (`ClimbIsChain`), and `ChainsRead` is the invariant of the visits in their order.
- `HeadingPairsArePathsHolds`, `PrefixPairsAreSectionsHolds`.  Each reader is a
  fold over the lines, and `HeadingsRead(d, k, acc)`, `SectionsRead(d, k, acc)` say
  what it has made of the first k of them: the stack is the path to line k, the
  open question is the last one asked, the pairs so far are those of the
  definition, and the fence is open after an odd number of fences.
- `QaChunksWithinLimitHolds`: `PutPieceFits` is the step of the packing, whose parts
  stay in `Packed(most)`; paragraphs and lines reduce to it.

### InductionLemmas

The induction theorems of the library take a predicate as a parameter, which the
provers cannot instantiate, and so do their folds.  Here both are stated of sets:
`SetInduction` and `SubsetInduction` say that a set which holds the first element
and is closed under the step holds every element, from the well-foundedness of <
on the naturals.  `FoldExists` shows from them that the function behind a fold of
the library exists, `FoldHasSteps` and `FoldByPrefixes` that the result of a fold
over a sequence is reached from prefix to prefix, which turns a statement about
a fold into an invariant.  `OrderedParts`, `KeptParts` and `KeptRange` say what
`SequenceParts` yields, `FlattenParts` what is in a flattened list of lists, and
`SumUpdate` how a sum over a function changes with one of its values.
`SequenceInduction` is induction over sequences, last item by last item; with it
`ChosenJoin`, `FlattenJoin` and `SaidNested` say that choosing items and flattening
take a concatenation to a concatenation, and a list of lists to the list.

### Only model-checked

- Liveness: LeaseIsTemporary, EveryRunEnds, QueuedRunsEnd, GraphJobsEnd, SetupsEnd.
  Fairness and ENABLED are outside the prover.  Every invariant and every action
  property of a passing run is stated by a theorem.

## Plan

Done: the life of a run and its abstract ledger, the queue, subagents, token
usage, the Milvus gate, set-up and migration, ingestion and its graph pipeline,
the chunkers, and the proofs above.

Left, in this order:

1. Queue and subagents in one module, with the conversation of a child thread that
   also receives messages from a client.
2. The MCP tool cache and tool approval, once a run uses them.

## Not modelled

- The event stream: one reader that passes on a Redis stream from a cursor; order
  and ids are Redis's.  That an event may never be published is RunLifecycle's.
- Feedback, evaluation, attachments: a read and an insert, a sequential loop, and
  plumbing over single queries.  Their hazards are listed in PROJECT.json.
- Agent construction: a run's agent has three fixed tools and three middlewares;
  tool approval, dynamic tools and the MCP cache are called from nowhere in a run.
- Prompts, models, extraction and embedding (external); queries and their ranking,
  which is numeric; recognising headings and bullets by regular expressions,
  tables, csv, packing of short book chunks.
- Tracing; routers that only pass a query through; the web client, whose buttons
  keep a second message from being sent while one is streamed.
