---------------------------- MODULE RequestQueue ----------------------------
(***************************************************************************)
(* The request queue of one conversation thread: intake_request records a  *)
(* message and dispatches the head of the queue if no run is active,       *)
(* finalize_intake hands the new run to ARQ after the commit, and          *)
(* steer_queued_request and cancel_queued_request act on queued rows.      *)
(*                                                                         *)
(* Intakes of a thread are serialised by the lock on its conversation row, *)
(* but not against promotions, cancellations and the runs themselves, so   *)
(* an intake is three steps: the reads that decide the policy, the locked  *)
(* read of the head, and the dispatch with the commit.  A request names    *)
(* the run that is dispatched for it.  What happens inside a run is        *)
(* RunLifecycle's subject: here it is pending, running and ended.          *)
(***************************************************************************)
EXTENDS Integers, Sequences, FiniteSets

CONSTANTS
    Requests,   \* request ids (bounds the requests ever sent)
    Policies,   \* the queue policies clients use
    ApiCrashes, \* whether an API process may die inside a request
    None

SupportedPolicies == {"enqueue", "reject", "steer"}

ASSUME QueueAssumption ==
    /\ Policies \subseteq SupportedPolicies
    /\ ApiCrashes \in BOOLEAN
    /\ None \notin Requests

VARIABLES
    conversation, \* the conversation row is committed
    request,      \* agent_run_requests: status and queue_policy
    order,        \* the committed requests by (created_at, id)
    run,          \* agent_runs: the run dispatched for each request
    jobs,         \* the runs whose ARQ job waits in Redis
    intake,       \* where each POST /runs stands, and what it has read
    promoting     \* the rows locked by steer_queued_request, checks passed

vars == <<conversation, request, order, run, jobs, intake, promoting>>

Stages == {"idle", "inserting", "checked", "picked", "finalizing", "done", "refused"}

RequestRows == [status: {"absent", "queued", "dispatched", "cancelled", "rejected"},
                policy: SupportedPolicies]

TypeOK ==
    /\ conversation \in BOOLEAN
    /\ request \in [Requests -> RequestRows]
    /\ order \in Seq(Requests)
    /\ run \in [Requests -> {"none", "pending", "running", "completed", "failed"}]
    /\ jobs \subseteq Requests
    /\ intake \in [Requests -> [at: Stages, sawBusy: BOOLEAN, head: Requests \cup {None}]]
    /\ promoting \subseteq Requests
    /\ \A q \in Requests : intake[q].at = "picked" => intake[q].head # None
    /\ \A q \in Requests : request[q].status # "absent" <=> \E i \in DOMAIN order : order[i] = q

Init ==
    /\ conversation = FALSE
    /\ request = [q \in Requests |-> [status |-> "absent", policy |-> "enqueue"]]
    /\ order = <<>>
    /\ run = [q \in Requests |-> "none"]
    /\ jobs = {}
    /\ intake = [q \in Requests |-> [at |-> "idle", sawBusy |-> FALSE, head |-> None]]
    /\ promoting = {}

-----------------------------------------------------------------------------
(* What the statements read                                                 *)

Queued == {q \in Requests : request[q].status = "queued"}

\* get_pending_steer
PendingSteers == {q \in Queued : request[q].policy = "steer"}

\* Mutant: only a run that a worker has started counts as active.
StartedRuns == {q \in Requests : run[q] = "running"}

\* get_active_run_by_thread_for_user: any run that is not terminal
ActiveRuns == {q \in Requests : run[q] \in {"pending", "running"}}

Before(p, q) == \E i, j \in DOMAIN order : i < j /\ order[i] = p /\ order[j] = q

\* Mutant: the queue is read newest first.
Newer(p, r, q) == r # q /\ (p = q \/ Before(r, p))

\* created_at, id: q is the request being inserted, after every other
Older(p, r, q) == p # q /\ (r = q \/ Before(p, r))

Steers(q) == request[q].policy = "steer"

\* the ORDER BY of the queue: steer first, then in order of arrival
Precedes(p, r, q) ==
    \/ Steers(p) /\ ~Steers(r)
    \/ (Steers(p) <=> Steers(r)) /\ Older(p, r, q)

\* get_queue_head, as the intake of q sees it: one request at most
Heads(q) ==
    LET waiting == Queued \cup {q} IN {h \in waiting : \A r \in waiting \ {h} : Precedes(h, r, q)}

\* Mutant: the conversation row is read without FOR UPDATE.
NeverHeld == TRUE

\* the lock on the conversation row, held from get_or_create to the commit
ConversationFree == \A q \in Requests : intake[q].at \notin {"checked", "picked"}

\* Mutant: the head is read without FOR UPDATE.
HeldByPromotion(q) == q \in promoting

\* the lock on the row of a request
RowLocked(q) ==
    q \in promoting \/ \E x \in Requests : intake[x].at = "picked" /\ intake[x].head = q

-----------------------------------------------------------------------------
(* intake_request                                                           *)

Go(q, stage) == intake' = [intake EXCEPT ![q].at = stage]

\* Under the lock: read the active run, the queue and the pending steer, and
\* refuse a steer with ValueError.
CheckPolicy(q, p) ==
    IF p = "steer" /\ (ActiveRuns = {} \/ PendingSteers # {})
    THEN Go(q, "refused") /\ UNCHANGED request
    ELSE /\ request' = [request EXCEPT ![q].policy = p]
         /\ intake' = [intake EXCEPT ![q].at = "checked",
                                     ![q].sawBusy = ActiveRuns \cup Queued # {}]

\* the conversation exists: its row is locked
Lock(q, p) ==
    /\ intake[q].at = "idle"
    /\ conversation
    /\ ConversationFree
    /\ CheckPolicy(q, p)
    /\ UNCHANGED <<conversation, order, run, jobs, promoting>>

\* There is no row to lock: the intake goes on to insert one.
FindNoConversation(q) ==
    /\ intake[q].at = "idle"
    /\ ~conversation
    /\ Go(q, "inserting")
    /\ UNCHANGED <<conversation, request, order, run, jobs, promoting>>

\* The insert waits for a concurrent one; if that one committed, thread_id is
\* taken and the request fails with an IntegrityError.
InsertConversation(q, p) ==
    /\ intake[q].at = "inserting"
    /\ ConversationFree
    /\ IF conversation THEN Go(q, "refused") /\ UNCHANGED request
                       ELSE CheckPolicy(q, p)
    /\ UNCHANGED <<conversation, order, run, jobs, promoting>>

Commit(q) == conversation' = TRUE /\ order' = Append(order, q)

\* policy reject on a busy thread: the request is recorded as rejected
Reject(q) ==
    /\ intake[q].at = "checked"
    /\ request[q].policy = "reject" /\ intake[q].sawBusy
    /\ request' = [request EXCEPT ![q].status = "rejected"]
    /\ Commit(q)
    /\ Go(q, "done")
    /\ UNCHANGED <<run, jobs, promoting>>

\* the message and the request are flushed, and the head is read FOR UPDATE
PickHead(q) ==
    /\ intake[q].at = "checked"
    /\ ~(request[q].policy = "reject" /\ intake[q].sawBusy)
    /\ \E h \in Heads(q) :
        /\ ~RowLocked(h)
        /\ intake' = [intake EXCEPT ![q].at = "picked", ![q].head = h]
    /\ UNCHANGED <<conversation, request, order, run, jobs, promoting>>

Dispatches(q) ==
    /\ ActiveRuns = {}
    /\ request[q].policy = "reject" => intake[q].head = q

\* _dispatch_ready_head after the head is locked, and the commit.  The run is
\* created whatever mark_dispatched finds.  Only the intake of the head itself
\* answers "dispatched".
Dispatch(q) ==
    LET h == intake[q].head IN
    /\ intake[q].at = "picked"
    /\ IF Dispatches(q)
       THEN /\ run' = [run EXCEPT ![h] = "pending"]
            /\ request' = [p \in Requests |->
                 [request[p] EXCEPT !.status =
                    IF p = h /\ (p = q \/ @ = "queued") THEN "dispatched"
                    ELSE IF p = q THEN "queued" ELSE @]]
       ELSE /\ request' = [request EXCEPT ![q].status =
                 IF request[q].policy = "reject" THEN "rejected" ELSE "queued"]
            /\ UNCHANGED run
    /\ Go(q, IF Dispatches(q) /\ h = q THEN "finalizing" ELSE "done")
    /\ Commit(q)
    /\ UNCHANGED <<jobs, promoting>>

\* finalize_intake: enqueue the run of this request, after the commit
FinalizeIntake(q) ==
    /\ intake[q].at = "finalizing"
    /\ jobs' = jobs \cup {q}
    /\ Go(q, "done")
    /\ UNCHANGED <<conversation, request, order, run, promoting>>

\* The API process dies or loses its connection: the transaction is rolled
\* back, and after the commit the job is never enqueued.
ApiCrash(q) ==
    /\ ApiCrashes
    /\ intake[q].at \in {"inserting", "checked", "picked", "finalizing"}
    /\ Go(q, IF intake[q].at = "finalizing" THEN "done" ELSE "refused")
    /\ UNCHANGED <<conversation, request, order, run, jobs, promoting>>

-----------------------------------------------------------------------------
(* steer_queued_request and cancel_queued_request                           *)

\* lock_by_request_id and the checks that pass; the others raise ValueError
PromoteCheck(q) ==
    /\ ~RowLocked(q)
    /\ request[q].status = "queued" /\ request[q].policy = "enqueue"
    /\ PendingSteers = {}
    /\ ActiveRuns # {}
    /\ promoting' = promoting \cup {q}
    /\ UNCHANGED <<conversation, request, order, run, jobs, intake>>

PromoteCommit(q) ==
    /\ q \in promoting
    /\ request' = [request EXCEPT ![q].policy = "steer"]
    /\ promoting' = promoting \ {q}
    /\ UNCHANGED <<conversation, order, run, jobs, intake>>

\* lock, mark_cancelled and commit
CancelQueued(q) ==
    /\ ~RowLocked(q)
    /\ request[q].status = "queued"
    /\ request' = [request EXCEPT ![q].status = "cancelled"]
    /\ UNCHANGED <<conversation, order, run, jobs, intake, promoting>>

-----------------------------------------------------------------------------
(* The runs, as the queue sees them                                         *)

StartRun(q) ==
    /\ q \in jobs
    /\ run[q] = "pending"
    /\ run' = [run EXCEPT ![q] = "running"]
    /\ jobs' = jobs \ {q}
    /\ UNCHANGED <<conversation, request, order, intake, promoting>>

EndRun(q) ==
    /\ run[q] = "running"
    /\ \E outcome \in {"completed", "failed"} : run' = [run EXCEPT ![q] = outcome]
    /\ UNCHANGED <<conversation, request, order, jobs, intake, promoting>>

\* SteerMiddleware: should_end_run_for_steer before and after a model call ends
\* the run; with two pending steers the query raises MultipleResultsFound.
SteerRun(q) ==
    /\ run[q] = "running"
    /\ PendingSteers # {}
    /\ run' = [run EXCEPT ![q] = IF Cardinality(PendingSteers) = 1 THEN "completed" ELSE "failed"]
    /\ UNCHANGED <<conversation, request, order, jobs, intake, promoting>>

-----------------------------------------------------------------------------
Intake(q) ==
    \/ \E p \in Policies : Lock(q, p) \/ InsertConversation(q, p)
    \/ FindNoConversation(q) \/ Reject(q) \/ PickHead(q) \/ Dispatch(q)
    \/ FinalizeIntake(q)

Next ==
    \E q \in Requests :
        \/ Intake(q) \/ ApiCrash(q)
        \/ PromoteCheck(q) \/ PromoteCommit(q) \/ CancelQueued(q)
        \/ StartRun(q) \/ EndRun(q) \/ SteerRun(q)

Spec == Init /\ [][Next]_vars

\* An intake that has begun goes on, workers pick up jobs, and a run that a
\* worker started ends (RunLifecycle).  No client has to send anything.
FairSpec ==
    /\ Spec
    /\ \A q \in Requests :
        /\ WF_vars(intake[q].at # "idle" /\ Intake(q))
        /\ WF_vars(PromoteCommit(q))
        /\ WF_vars(StartRun(q)) /\ WF_vars(EndRun(q) \/ SteerRun(q))

-----------------------------------------------------------------------------
(* Properties                                                               *)

\* A thread has one active run, in whatever order intakes, promotions and the
\* ends of runs fall between the three steps of an intake.
OneActiveRun == \A p, q \in ActiveRuns : p = q

\* A request is dispatched exactly if it has a run: a cancel never slips in
\* between the choice of the head and the creation of its run.
DispatchedIffRun == \A q \in Requests : request[q].status = "dispatched" <=> run[q] # "none"

\* A reject request is turned away only if the thread was busy when it got the
\* lock: no other intake takes the free thread before it.
RejectedOnlyIfBusy ==
    \A q \in Requests : request[q].status = "rejected" => intake[q].sawBusy

\* FIFO: when a request that was never promoted is dispatched, no older one
\* that was never promoted is left in the queue.
FirstComeFirstServed ==
    [][\A p, q \in Requests :
          /\ run[q] = "none" /\ run'[q] # "none"
          /\ request[q].policy = "enqueue" /\ request'[p].policy = "enqueue"
          /\ request'[p].status = "queued"
          => ~Before(p, q)']_vars

\* "Thread already has a pending steer request": there are never two.
OnePendingSteer == Cardinality(PendingSteers) <= 1

\* The worker "picks up queued work": every run intake has created is started.
EveryRunStarts == \A q \in Requests : run[q] = "pending" ~> run[q] # "pending"
=============================================================================
