------------------------- MODULE RunLifecycleProofs -------------------------
(***************************************************************************)
(* Theorems about RunLifecycle, for every set of runs and executions,      *)
(* every retry limit and every combination of faults, up to the last one:  *)
(* RunLifecycle implements RunLedger.                                      *)
(***************************************************************************)
EXTENDS RunRefinement, SequenceTheorems, TLAPS

(***************************************************************************)
(* Rewriting the rows of a history in place keeps it a history of the same *)
(* length.                                                                 *)
(***************************************************************************)
LEMMA RewriteRows ==
    ASSUME NEW S, NEW s \in Seq(S), NEW t, t \in [DOMAIN s -> S]
    PROVE  t \in Seq(S) /\ Len(t) = Len(s) /\ DOMAIN t = DOMAIN s
  <1>1. /\ Len(s) \in Nat
        /\ DOMAIN s = 1..Len(s)
    OBVIOUS
  <1>2. t \in [1..Len(s) -> S]
    BY <1>1
  <1>3. t \in Seq(S)
    BY <1>1, <1>2
  <1>. QED
    BY <1>1, <1>2, <1>3

(***************************************************************************)
(* What close and close_expired do to the histories: the rows they match   *)
(* get an outcome, every other row and every length stays.                 *)
(***************************************************************************)
LEMMA CloseAttemptRows ==
    ASSUME attempts \in [Runs -> Seq(AttemptRows)],
           NEW r \in Runs, NEW e \in Execs, NEW o \in Outcomes
    PROVE  LET new == CloseAttempt(r, e, o) IN
           /\ new \in [Runs -> Seq(AttemptRows)]
           /\ \A q \in Runs : Len(new[q]) = Len(attempts[q]) /\ DOMAIN new[q] = DOMAIN attempts[q]
           /\ \A q \in Runs : \A i \in DOMAIN attempts[q] :
                 new[q][i] = IF q = r /\ attempts[q][i].worker = e /\ attempts[q][i].outcome = "open"
                             THEN [attempts[q][i] EXCEPT !.outcome = o] ELSE attempts[q][i]
  <1>. DEFINE s == attempts[r]
              t == [i \in DOMAIN s |-> IF s[i].worker = e /\ s[i].outcome = "open"
                                       THEN [s[i] EXCEPT !.outcome = o] ELSE s[i]]
  <1>1. s \in Seq(AttemptRows)
    OBVIOUS
  <1>2. \A i \in DOMAIN s : s[i] \in AttemptRows
    BY <1>1
  <1>3. t \in [DOMAIN s -> AttemptRows]
    BY <1>2 DEF AttemptRows
  <1>. HIDE DEF t
  <1>4. /\ t \in Seq(AttemptRows)
        /\ Len(t) = Len(s)
        /\ DOMAIN t = DOMAIN s
    BY <1>1, <1>3, RewriteRows
  <1>5. CloseAttempt(r, e, o) = [attempts EXCEPT ![r] = t]
    BY DEF CloseAttempt, t
  <1>6. \A i \in DOMAIN s : t[i] = IF s[i].worker = e /\ s[i].outcome = "open"
                                   THEN [s[i] EXCEPT !.outcome = o] ELSE s[i]
    BY DEF t
  <1>. QED
    BY <1>4, <1>5, <1>6

LEMMA CloseExpiredRows ==
    ASSUME attempts \in [Runs -> Seq(AttemptRows)], NEW S \in SUBSET Runs
    PROVE  LET new == CloseExpired(S) IN
           /\ new \in [Runs -> Seq(AttemptRows)]
           /\ \A q \in Runs : Len(new[q]) = Len(attempts[q]) /\ DOMAIN new[q] = DOMAIN attempts[q]
           /\ \A q \in Runs : \A i \in DOMAIN attempts[q] :
                 new[q][i] = IF q \in S /\ attempts[q][i].outcome = "open"
                             THEN [attempts[q][i] EXCEPT !.outcome = "lease_expired"]
                             ELSE attempts[q][i]
  <1>. DEFINE t(q) == [i \in DOMAIN attempts[q] |->
                         IF attempts[q][i].outcome = "open"
                         THEN [attempts[q][i] EXCEPT !.outcome = "lease_expired"]
                         ELSE attempts[q][i]]
  <1>1. ASSUME NEW q \in Runs
        PROVE  /\ t(q) \in Seq(AttemptRows)
               /\ Len(t(q)) = Len(attempts[q])
               /\ DOMAIN t(q) = DOMAIN attempts[q]
    <2>1. attempts[q] \in Seq(AttemptRows)
      OBVIOUS
    <2>2. \A i \in DOMAIN attempts[q] : attempts[q][i] \in AttemptRows
      BY <2>1
    <2>3. t(q) \in [DOMAIN attempts[q] -> AttemptRows]
      BY <2>2 DEF AttemptRows, Outcomes
    <2>. QED
      BY <2>1, <2>3, RewriteRows
  <1>2. CloseExpired(S) = [q \in Runs |-> IF q \in S THEN t(q) ELSE attempts[q]]
    BY DEF CloseExpired
  <1>3. \A q \in Runs : \A i \in DOMAIN attempts[q] :
           t(q)[i] = IF attempts[q][i].outcome = "open"
                     THEN [attempts[q][i] EXCEPT !.outcome = "lease_expired"]
                     ELSE attempts[q][i]
    OBVIOUS
  <1>. HIDE DEF t
  <1>. QED
    BY <1>1, <1>2, <1>3

LEMMA OpenAttemptRows ==
    ASSUME attempts \in [Runs -> Seq(AttemptRows)], NEW r \in Runs, NEW e \in Execs
    PROVE  LET new == OpenAttempt(r, e) IN
           /\ new \in [Runs -> Seq(AttemptRows)]
           /\ \A q \in Runs \ {r} : new[q] = attempts[q]
           /\ new[r] # <<>>
           /\ Len(new[r]) = Len(attempts[r]) + 1
           /\ new[r][Len(new[r])] = [worker |-> e, outcome |-> "open"]
           /\ \A i \in DOMAIN attempts[r] : i \in DOMAIN new[r] /\ new[r][i] = attempts[r][i]
  <1>. DEFINE row == [worker |-> e, outcome |-> "open"]
  <1>1. row \in AttemptRows
    BY DEF AttemptRows, Outcomes
  <1>2. attempts[r] \in Seq(AttemptRows)
    OBVIOUS
  <1>3. OpenAttempt(r, e) = [attempts EXCEPT ![r] = Append(attempts[r], row)]
    BY DEF OpenAttempt
  <1>. HIDE DEF row
  <1>4. /\ Append(attempts[r], row) \in Seq(AttemptRows)
        /\ Append(attempts[r], row) # <<>>
        /\ Len(Append(attempts[r], row)) = Len(attempts[r]) + 1
        /\ Append(attempts[r], row)[Len(attempts[r]) + 1] = row
        /\ \A i \in DOMAIN attempts[r] : /\ i \in DOMAIN Append(attempts[r], row)
                                         /\ Append(attempts[r], row)[i] = attempts[r][i]
    BY <1>1, <1>2
  <1>. QED
    BY <1>3, <1>4 DEF row

-----------------------------------------------------------------------------
(***************************************************************************)
(* The inductive invariants.                                               *)
(***************************************************************************)

\* a token that was handed out names a run; only those have a heartbeat or
\* a published event; cancels are under way only for runs that somebody cancels
Assigned ==
    /\ \A e \in Execs :
          /\ pc[e] # "unused" => RunOf(e) \in Runs
          /\ beat[e] # "off" => pc[e] \notin {"unused", "picked"}
          /\ e \in published \cup outputs => pc[e] \notin {"unused", "picked"}
          /\ \A c \in children[e] : c \notin Undisturbed
    /\ \A r \in cancelReads : r \notin Undisturbed

TypeInv == TypeOK /\ Assigned

\* an execution that finalized a run nobody cancels still owns it, and the run is
\* terminal
FinalizerOwns ==
    \A e \in Execs :
        (e \in published \/ pc[e] = "publishing") /\ RunOf(e) \in Undisturbed =>
            run[RunOf(e)].status \in Terminal /\ run[RunOf(e)].worker = e

\* A run nobody cancels stays in the custody of the execution that streams it,
\* or that has answered it: it is running under that token, or over.
Custody ==
    /\ \A r \in Undisturbed : run[r].status # "cancel_requested"
    /\ \A e \in outputs : pc[e] \notin {"started", "streaming", "saving", "releasing"}
    /\ \A e \in Execs :
          (InBody(e) \/ pc[e] = "releasing" \/ e \in outputs) /\ RunOf(e) \in Undisturbed =>
              /\ run[RunOf(e)].worker = e
              /\ run[RunOf(e)].status \in {"running"} \cup Terminal

-----------------------------------------------------------------------------
(***************************************************************************)
(* Type correctness, with what a token that was handed out guarantees.     *)
(***************************************************************************)
LEMMA RunUpdates ==
    ASSUME run \in [Runs -> RunRows], NEW r \in Runs
    PROVE  /\ \A v \in Statuses : [run EXCEPT ![r].status = v] \in [Runs -> RunRows]
           /\ \A v \in {"none", "live", "expired"} :
                 [run EXCEPT ![r].lease = v] \in [Runs -> RunRows]
           /\ \A v \in RunRows : [run EXCEPT ![r] = v] \in [Runs -> RunRows]
           /\ \A v \in Statuses : [run[r] EXCEPT !.status = v] \in RunRows
  <1>1. run[r] \in RunRows
    OBVIOUS
  <1>2. \A v \in Statuses : [run[r] EXCEPT !.status = v] \in RunRows
    BY <1>1 DEF RunRows
  <1>3. \A v \in {"none", "live", "expired"} : [run[r] EXCEPT !.lease = v] \in RunRows
    BY <1>1 DEF RunRows
  <1>. QED
    BY <1>1, <1>2, <1>3

LEMMA JobUpdates ==
    ASSUME job \in [Runs -> JobRows], NEW r \in Runs,
           DropJob(r) \/ RequeueJob(r) \/ job' = [job EXCEPT ![r].state = "queued"]
    PROVE  job' \in [Runs -> JobRows]
  <1>1. job[r] \in JobRows
    OBVIOUS
  <1>2. \A v \in {"queued", "in_progress", "gone"} : [job[r] EXCEPT !.state = v] \in JobRows
    BY <1>1 DEF JobRows
  <1>3. job[r].state \in {"queued", "in_progress", "gone"}
    BY <1>1 DEF JobRows
  <1>4. CASE DropJob(r)
    BY <1>2, <1>4 DEF DropJob
  <1>5. CASE RequeueJob(r)
    BY <1>2, <1>3, <1>5 DEF RequeueJob
  <1>6. CASE job' = [job EXCEPT ![r].state = "queued"]
    BY <1>2, <1>6
  <1>. QED
    BY <1>4, <1>5, <1>6

LEMMA TypeInit == ASSUME Init PROVE TypeInv
  <1>1. \A r \in Runs : attempts[r] \in Seq(AttemptRows)
    BY EmptySeq DEF Init
  <1>2. TypeOK
    BY <1>1, ConstantsAssumption
       DEF Init, TypeOK, RunRows, JobRows, Tasks, Statuses, Active, Terminal, Pcs, Beats
  <1>3. Assigned
    BY DEF Init, Assigned
  <1>. QED
    BY <1>2, <1>3 DEF TypeInv

\* what the last steps of an execution do to where it stands
LEMMA PcUpdates ==
    ASSUME TypeOK, NEW e \in Execs
    PROVE  /\ [pc EXCEPT ![e] = "publishing"] \in [Execs -> Pcs]
           /\ [pc EXCEPT ![e] = "returned"] \in [Execs -> Pcs]
  <1>1. pc \in [Execs -> Pcs] /\ "publishing" \in Pcs /\ "returned" \in Pcs
    BY DEF TypeOK, Pcs
  <1>. QED
    BY <1>1

LEMMA TypeStep == ASSUME TypeInv, [Next]_vars PROVE TypeInv'
  <1>. USE ConstantsAssumption
           DEF TypeInv, TypeOK, Assigned, RunOf, Goto, Escape, FinishBody, Terminal,
               Pcs, Ended, InProgress, StopSet, Beats, Beating, dbVars, cancelVars, jobVars, execVars
  <1>1. ASSUME NEW r \in Runs, NEW e \in Execs, Deliver(r, e) PROVE TypeInv'
    <2>1. job[r] \in JobRows /\ job[r].tries + 1 \in 0..MaxTries
      BY <1>1 DEF Deliver, JobRows, TriesLeft
    <2>2. job' \in [Runs -> JobRows]
      BY <1>1, <2>1 DEF Deliver, JobRows
    <2>3. task' \in [Execs -> Tasks]
      BY <1>1, <2>1, <2>2 DEF Deliver, Tasks
    <2>. QED
      BY <1>1, <2>1, <2>2, <2>3 DEF Deliver, Tasks
  <1>2. ASSUME NEW r \in Runs, Exhaust(r) PROVE TypeInv'
    <2>1. job' \in [Runs -> JobRows]
      BY <1>2, JobUpdates DEF Exhaust
    <2>. QED
      BY <1>2, <2>1 DEF Exhaust
  <1>3. ASSUME NEW e \in Execs, NEW r \in Runs, Spawn(e, r) PROVE TypeInv'
    <2>1. run' \in [Runs -> RunRows]
      BY <1>3, RunUpdates DEF Spawn, Statuses
    <2>. QED
      BY <1>3, <2>1 DEF Spawn
  <1>4. ASSUME NEW e \in Execs, Skip(e) PROVE TypeInv'
    <2>1. RunOf(e) \in Runs
      BY <1>4 DEF Skip
    <2>2. job' \in [Runs -> JobRows]
      BY <1>4, <2>1, JobUpdates DEF Skip
    <2>. QED
      BY <1>4, <2>1, <2>2 DEF Skip
  <1>5. ASSUME NEW e \in Execs, Retry(e) PROVE TypeInv'
    <2>1. RunOf(e) \in Runs
      BY <1>5 DEF Retry
    <2>2. job' \in [Runs -> JobRows]
      BY <1>5, <2>1, JobUpdates DEF Retry
    <2>. QED
      BY <1>5, <2>1, <2>2 DEF Retry
  <1>6. ASSUME NEW e \in Execs, AwaitRaises(e) PROVE TypeInv'
    <2>1. RunOf(e) \in Runs
      BY <1>6 DEF AwaitRaises
    <2>2. job' \in [Runs -> JobRows]
      BY <1>6, <2>1, JobUpdates DEF AwaitRaises
    <2>. QED
      BY <1>6, <2>1, <2>2 DEF AwaitRaises
  <1>7. ASSUME NEW e \in Execs, Timeout(e) PROVE TypeInv'
    <2>1. RunOf(e) \in Runs
      BY <1>7 DEF Timeout
    <2>2. job' \in [Runs -> JobRows]
      BY <1>7, <2>1, JobUpdates DEF Timeout
    <2>. QED
      BY <1>7, <2>1, <2>2 DEF Timeout
  <1>8. ASSUME NEW e \in Execs, Blip(e) PROVE TypeInv'
    <2>1. RunOf(e) \in Runs
      BY <1>8 DEF Blip
    <2>2. job' \in [Runs -> JobRows]
      BY <1>8, <2>1, JobUpdates DEF Blip
    <2>. QED
      BY <1>8, <2>1, <2>2 DEF Blip
  <1>9. ASSUME NEW e \in Execs, FirstChunk(e) PROVE TypeInv'
    BY <1>9 DEF FirstChunk
  <1>10. ASSUME NEW e \in Execs, SeeCancel(e) PROVE TypeInv'
    BY <1>10 DEF SeeCancel
  <1>11. ASSUME NEW e \in Execs, EndStream(e) PROVE TypeInv'
    <2>1. UNCHANGED <<dbVars, cancelVars, published, jobVars, task, beat, children, swept>>
      BY <1>11 DEF EndStream
    <2>2. CASE Goto(e, "saving") /\ UNCHANGED result
      BY <1>11, <2>1, <2>2 DEF EndStream
    <2>3. CASE FinishBody(e, "completed")
      BY <1>11, <2>1, <2>3 DEF EndStream
    <2>. QED
      BY <1>11, <2>2, <2>3 DEF EndStream
  <1>12. ASSUME NEW e \in Execs, SaveOutput(e) PROVE TypeInv'
    BY <1>12 DEF SaveOutput
  <1>13. ASSUME NEW e \in Execs, RetryableError(e) PROVE TypeInv'
    BY <1>13 DEF RetryableError, InBody
  <1>14. ASSUME NEW e \in Execs, PermanentError(e) PROVE TypeInv'
    BY <1>14 DEF PermanentError, InBody
  <1>15. ASSUME NEW e \in Execs, AwaitHeartbeat(e) PROVE TypeInv'
    BY <1>15 DEF AwaitHeartbeat
  <1>16. ASSUME NEW e \in Execs, Publish(e) PROVE TypeInv'
    BY <1>16 DEF Publish
  <1>17. ASSUME NEW e \in Execs, Wake(e) PROVE TypeInv'
    BY <1>17 DEF Wake
  <1>18. ASSUME NEW e \in Execs, Crash(e) PROVE TypeInv'
    BY <1>18 DEF Crash
  <1>19. ASSUME NEW e \in Execs, BlipHeartbeat(e) PROVE TypeInv'
    BY <1>19 DEF BlipHeartbeat
  <1>20. ASSUME NEW e \in Execs, Acquire(e) PROVE TypeInv'
    <2>1. RunOf(e) \in Runs
      BY <1>20 DEF Acquire
    <2>2. [status |-> "running", worker |-> e, lease |-> "live"] \in RunRows
      BY <1>20, <2>1 DEF Acquire, RunRows, Statuses, Active
    <2>3. run' \in [Runs -> RunRows]
      BY <1>20, <2>1, <2>2, RunUpdates DEF Acquire
    <2>4. attempts' \in [Runs -> Seq(AttemptRows)]
      BY <1>20, <2>1, <2>2, <2>3, OpenAttemptRows DEF Acquire
    <2>. QED
      BY <1>20, <2>1, <2>2, <2>3, <2>4 DEF Acquire
  <1>21. ASSUME NEW e \in Execs, Release(e) PROVE TypeInv'
    <2>1. RunOf(e) \in Runs
      BY <1>21 DEF Release
    <2>2. [status |-> "pending", worker |-> None, lease |-> "none"] \in RunRows
      BY <1>21, <2>1 DEF Release, RunRows, Statuses
    <2>3. run' \in [Runs -> RunRows]
      <3>0. [run EXCEPT ![RunOf(e)] = [status |-> "pending", worker |-> None, lease |-> "none"]] \in [Runs -> RunRows]
        BY <2>1, <2>2, RunUpdates
      <3>1. CASE Releasable(e)
        BY <1>21, <3>0, <3>1 DEF Release
      <3>2. CASE ~(Releasable(e))
        BY <1>21, <3>2 DEF Release
      <3>. QED
        BY <3>1, <3>2
    <2>4. attempts' \in [Runs -> Seq(AttemptRows)]
      BY <1>21, <2>1, <2>2, <2>3, CloseAttemptRows DEF Release, Outcomes
    <2>. QED
      BY <1>21, <2>1, <2>2, <2>3, <2>4 DEF Release
  <1>22. ASSUME NEW e \in Execs, Finalize(e) PROVE TypeInv'
    <2>1. RunOf(e) \in Runs
      BY <1>22 DEF Finalize
    <2>2. result[e] \in Statuses /\ result[e] \in Outcomes
      BY <1>22, <2>1 DEF Finalize, Statuses, Outcomes
    <2>3. run' \in [Runs -> RunRows]
      <3>0. [run EXCEPT ![RunOf(e)].status = result[e]] \in [Runs -> RunRows]
        BY <2>1, <2>2, RunUpdates
      <3>1. CASE Owns(e)
        BY <1>22, <3>0, <3>1 DEF Finalize
      <3>2. CASE ~(Owns(e))
        BY <1>22, <3>2 DEF Finalize
      <3>. QED
        BY <3>1, <3>2
    <2>4. attempts' \in [Runs -> Seq(AttemptRows)]
      BY <1>22, <2>1, <2>2, <2>3, CloseAttemptRows DEF Finalize
    <2>5. job' \in [Runs -> JobRows]
      BY <1>22, <2>1, <2>2, <2>3, <2>4, JobUpdates DEF Finalize
    <2>6. pc[e] = "finalizing" /\ (pc' = [pc EXCEPT ![e] = "publishing"] \/ pc' = [pc EXCEPT ![e] = "returned"])
      BY <1>22 DEF Finalize
    <2>8. pc' \in [Execs -> Pcs]
      BY <2>6, PcUpdates
    <2>9. pc'[e] \in {"publishing", "returned"} /\ \A f \in Execs : f # e => pc'[f] = pc[f]
      BY <2>6
    <2>7. UNCHANGED <<outputs, cancelKey, cancelReads, cancelling, published, spawning, task, result,
                      beat, children, swept>>
      BY <1>22 DEF Finalize
    <2>. QED
      BY <2>1, <2>3, <2>4, <2>5, <2>6, <2>7, <2>8, <2>9
  <1>23. ASSUME NEW e \in Execs, Cascade(e) PROVE TypeInv'
    <2>1. RunOf(e) \in Runs
      BY <1>23 DEF Cascade
    <2>2. run' \in [Runs -> RunRows]
      BY <1>23, <2>1, RunUpdates DEF Cascade, CancelRequested, Statuses, Active
    <2>3. job' \in [Runs -> JobRows]
      BY <1>23, <2>1, <2>2, JobUpdates DEF Cascade
    <2>4. cancelling' \subseteq Runs
      BY <1>23, <2>1, <2>2, <2>3 DEF Cascade
    <2>. QED
      BY <1>23, <2>1, <2>2, <2>3, <2>4 DEF Cascade
  <1>24. ASSUME NEW e \in Execs, Renew(e) PROVE TypeInv'
    <2>1. RunOf(e) \in Runs
      BY <1>24 DEF Renew
    <2>2. run' \in [Runs -> RunRows]
      <3>0. [run EXCEPT ![RunOf(e)].lease = "live"] \in [Runs -> RunRows]
        BY <2>1, RunUpdates
      <3>1. CASE Owns(e) /\ run[RunOf(e)].status \in Active
        BY <1>24, <3>0, <3>1 DEF Renew
      <3>2. CASE ~(Owns(e) /\ run[RunOf(e)].status \in Active)
        BY <1>24, <3>2 DEF Renew
      <3>. QED
        BY <3>1, <3>2
    <2>. QED
      BY <1>24, <2>1, <2>2 DEF Renew
  <1>25. ASSUME NEW r \in Runs, RequestCancel(r) PROVE TypeInv'
    <2>1. run' \in [Runs -> RunRows]
      BY <1>25, RunUpdates DEF RequestCancel, CancelRequested, Statuses, Active
    <2>. QED
      BY <1>25, <2>1 DEF RequestCancel
  <1>26. ASSUME NEW r \in Runs, Expire(r) PROVE TypeInv'
    <2>1. run' \in [Runs -> RunRows]
      BY <1>26, RunUpdates DEF Expire
    <2>. QED
      BY <1>26, <2>1 DEF Expire
  <1>27. ASSUME NEW r \in Runs, SetCancelKey(r) PROVE TypeInv'
    BY <1>27 DEF SetCancelKey
  <1>28. ASSUME NEW r \in Runs, LoseCancelKey(r) PROVE TypeInv'
    BY <1>28 DEF LoseCancelKey
  <1>29. ASSUME Reconcile PROVE TypeInv'
    <2>1. run' \in [Runs -> RunRows]
      BY <1>29, RunUpdates DEF Reconcile, Statuses
    <2>2. attempts' \in [Runs -> Seq(AttemptRows)]
      BY <1>29, <2>1, CloseExpiredRows DEF Reconcile
    <2>. QED
      BY <1>29, <2>1, <2>2 DEF Reconcile
  <1>30. ASSUME Sweep PROVE TypeInv'
    BY <1>30 DEF Sweep, Overdue
  <1>31. ASSUME CrashSweep PROVE TypeInv'
    BY <1>31 DEF CrashSweep
  <1>32. CASE UNCHANGED vars
    BY <1>32 DEF vars
  <1>33. ASSUME NEW r \in Runs, EnqueueSpawned(r) PROVE TypeInv'
    <2>1. job' \in [Runs -> JobRows]
      BY <1>33, JobUpdates DEF EnqueueSpawned
    <2>. QED
      BY <1>33, <2>1 DEF EnqueueSpawned
  <1>34. ASSUME NEW r \in Runs, BreakSpawn(r) PROVE TypeInv'
    BY <1>34 DEF BreakSpawn
  <1>35. ASSUME NEW r \in Runs, ReadForCancel(r) PROVE TypeInv'
    <2>1. r \notin Undisturbed
      BY <1>35 DEF ReadForCancel, Undisturbed
    <2>. QED
      BY <1>35, <2>1 DEF ReadForCancel
  <1>36. ASSUME NEW e \in Execs, ReadChildren(e) PROVE TypeInv'
    <2>1. RunOf(e) \in Runs
      BY <1>36 DEF ReadChildren
    <2>2. /\ ActiveChildren(RunOf(e)) \subseteq Runs
          /\ \A c \in ActiveChildren(RunOf(e)) : c \notin Undisturbed
      BY <2>1 DEF ActiveChildren, Undisturbed
    <2>. QED
      BY <1>36, <2>2 DEF ReadChildren
  <1>. QED
    BY <1>33, <1>34, <1>35, <1>36, <1>1, <1>2, <1>3, <1>4, <1>5, <1>6, <1>7, <1>8, <1>9, <1>10, <1>11, <1>12, <1>13, <1>14, <1>15, <1>16, <1>17, <1>18, <1>19, <1>20, <1>21, <1>22, <1>23, <1>24, <1>25, <1>26, <1>27, <1>28, <1>29, <1>30, <1>31, <1>32 DEF Next, Execute, Heartbeat, Fault

\* Type correctness of every reachable state.
THEOREM TypeCorrect == Spec => []TypeOK
  <1>1. TypeInv => TypeOK
    BY DEF TypeInv
  <1>. QED
    BY <1>1, TypeInit, TypeStep, PTL DEF Spec

-----------------------------------------------------------------------------
(***************************************************************************)
(* The steps that touch a row of agent_runs or agent_run_attempts.         *)
(***************************************************************************)
LEMMA RowSteps ==
    ASSUME [Next]_vars
    PROVE  \/ UNCHANGED <<run, attempts>>
           \/ \E e \in Execs : Acquire(e) \/ Release(e) \/ Finalize(e) \/ Cascade(e) \/ Renew(e)
           \/ \E e \in Execs, r \in Runs : Spawn(e, r)
           \/ \E r \in Runs : RequestCancel(r) \/ Expire(r)
           \/ Reconcile
  <1>. USE DEF dbVars, cancelVars, jobVars, vars
  <1>1. ASSUME NEW r \in Runs, NEW e \in Execs, Deliver(r, e) PROVE UNCHANGED <<run, attempts>>
    BY <1>1 DEF Deliver
  <1>2. ASSUME NEW r \in Runs,
               \/ Exhaust(r) \/ EnqueueSpawned(r) \/ BreakSpawn(r) \/ ReadForCancel(r)
               \/ SetCancelKey(r) \/ LoseCancelKey(r)
        PROVE  UNCHANGED <<run, attempts>>
    BY <1>2 DEF Exhaust, EnqueueSpawned, BreakSpawn, ReadForCancel, SetCancelKey, LoseCancelKey
  <1>3. ASSUME NEW e \in Execs,
               \/ Skip(e) \/ FirstChunk(e) \/ SeeCancel(e) \/ EndStream(e) \/ SaveOutput(e)
               \/ RetryableError(e) \/ PermanentError(e) \/ Retry(e) \/ AwaitHeartbeat(e)
               \/ AwaitRaises(e) \/ Publish(e) \/ ReadChildren(e) \/ Wake(e)
        PROVE  UNCHANGED <<run, attempts>>
    BY <1>3 DEF Skip, FirstChunk, SeeCancel, EndStream, SaveOutput, RetryableError,
                PermanentError, Retry, AwaitHeartbeat, AwaitRaises, Publish, ReadChildren, Wake
  <1>4. ASSUME NEW e \in Execs, Crash(e) \/ Timeout(e) \/ Blip(e) \/ BlipHeartbeat(e)
        PROVE  UNCHANGED <<run, attempts>>
    BY <1>4 DEF Crash, Timeout, Blip, BlipHeartbeat
  <1>5. ASSUME Sweep \/ CrashSweep PROVE UNCHANGED <<run, attempts>>
    BY <1>5 DEF Sweep, CrashSweep
  <1>6. CASE UNCHANGED vars
    BY <1>6
  <1>. QED
    BY <1>1, <1>2, <1>3, <1>4, <1>5, <1>6 DEF Next, Execute, Heartbeat, Fault

\* renew_lease moves nothing but the expiry of the lease.
LEMMA RenewKeeps ==
    ASSUME TypeInv, NEW e \in Execs, Renew(e), NEW q \in Runs
    PROVE  run'[q].status = run[q].status /\ run'[q].worker = run[q].worker
  <1>1. run' = run \/ run' = [run EXCEPT ![RunOf(e)].lease = "live"]
    BY DEF Renew
  <1>2. run \in [Runs -> RunRows] /\ RunOf(e) \in Runs
    BY DEF TypeInv, TypeOK, Assigned, Renew, Beats
  <1>3. run[RunOf(e)] \in RunRows
    BY <1>2
  <1>4. CASE run' = [run EXCEPT ![RunOf(e)].lease = "live"]
    <2>1. CASE q = RunOf(e)
      BY <1>2, <1>3, <1>4, <2>1 DEF RunRows
    <2>2. CASE q # RunOf(e)
      BY <1>2, <1>4, <2>2
    <2>. QED
      BY <2>1, <2>2
  <1>. QED
    BY <1>1, <1>4

-----------------------------------------------------------------------------
(***************************************************************************)
(* A running run is leased by its worker.  The invariant is inductive over *)
(* TypeInv: only Acquire makes a run running, and it opens the last row;   *)
(* every action that closes a row takes its run out of running.            *)
(***************************************************************************)
LEMMA LeasedStep ==
    ASSUME TypeInv, RunningIsLeased, [Next]_vars
    PROVE  RunningIsLeased'
  <1>. USE DEF TypeInv, TypeOK, RunningIsLeased, LastAttempt
  <1>1. CASE UNCHANGED <<run, attempts>>
    BY <1>1
  <1>2. ASSUME NEW e \in Execs, Acquire(e) PROVE RunningIsLeased'
    <2>1. RunOf(e) \in Runs
      BY <1>2 DEF Acquire, Assigned
    <2>2. /\ \A q \in Runs \ {RunOf(e)} : attempts'[q] = attempts[q] /\ run'[q] = run[q]
          /\ attempts'[RunOf(e)] # <<>>
          /\ attempts'[RunOf(e)][Len(attempts'[RunOf(e)])] = [worker |-> e, outcome |-> "open"]
      BY <1>2, <2>1, OpenAttemptRows DEF Acquire
    <2>3. run'[RunOf(e)].worker = e
      BY <1>2, <2>1 DEF Acquire
    <2>. QED
      BY <2>1, <2>2, <2>3
  <1>3. ASSUME NEW e \in Execs, Release(e) PROVE RunningIsLeased'
    <2>1. RunOf(e) \in Runs
      BY <1>3 DEF Release, Assigned
    <2>2. CASE ~Releasable(e)
      BY <1>3, <2>2 DEF Release
    <2>3. CASE Releasable(e)
      <3>1. run'[RunOf(e)].status = "pending"
        BY <1>3, <2>1, <2>3 DEF Release
      <3>2. \A q \in Runs \ {RunOf(e)} : run'[q] = run[q] /\ attempts'[q] = attempts[q]
        BY <1>3, <2>1, <2>3 DEF Release, CloseAttempt
      <3>. QED
        BY <2>1, <3>1, <3>2
    <2>. QED
      BY <2>2, <2>3
  <1>4. ASSUME NEW e \in Execs, Finalize(e) PROVE RunningIsLeased'
    <2>1. RunOf(e) \in Runs
      BY <1>4 DEF Finalize, Assigned
    <2>2. CASE ~Owns(e)
      BY <1>4, <2>2 DEF Finalize
    <2>3. CASE Owns(e)
      <3>1. run'[RunOf(e)].status \in Terminal
        <4>1. run[RunOf(e)] \in RunRows /\ result[e] \in Terminal
          BY <2>1
        <4>. QED
          BY <1>4, <2>1, <2>3, <4>1 DEF Finalize, RunRows
      <3>2. \A q \in Runs \ {RunOf(e)} : run'[q] = run[q] /\ attempts'[q] = attempts[q]
        BY <1>4, <2>1, <2>3 DEF Finalize, CloseAttempt
      <3>. QED
        BY <2>1, <3>1, <3>2 DEF Terminal
    <2>. QED
      BY <2>2, <2>3
  <1>5. ASSUME NEW e \in Execs, Cascade(e) PROVE RunningIsLeased'
    BY <1>5 DEF Cascade, CancelRequested, RunRows
  <1>6. ASSUME NEW e \in Execs, Renew(e) PROVE RunningIsLeased'
    BY <1>6, RenewKeeps DEF Renew
  <1>7. ASSUME NEW e \in Execs, NEW r \in Runs, Spawn(e, r) PROVE RunningIsLeased'
    BY <1>7 DEF Spawn, RunRows
  <1>8. ASSUME NEW r \in Runs, RequestCancel(r) PROVE RunningIsLeased'
    BY <1>8 DEF RequestCancel, CancelRequested, RunRows
  <1>9. ASSUME NEW r \in Runs, Expire(r) PROVE RunningIsLeased'
    BY <1>9 DEF Expire, RunRows
  <1>10. ASSUME Reconcile PROVE RunningIsLeased'
    <2>1. \A r \in swept : run'[r].status = "failed"
      BY <1>10 DEF Reconcile, RunRows
    <2>2. \A r \in Runs \ swept : run'[r] = run[r] /\ attempts'[r] = attempts[r]
      BY <1>10 DEF Reconcile, CloseExpired
    <2>. QED
      BY <2>1, <2>2
  <1>. QED
    BY RowSteps, <1>1, <1>2, <1>3, <1>4, <1>5, <1>6, <1>7, <1>8, <1>9, <1>10

\* A run shown as running is held by one worker, and the newest row of its
\* history is that worker's and open: mark_running and open_attempt, mark_terminal
\* and close, the release and the sweep never let the two tables part.
THEOREM RunningIsLeasedHolds == Spec => []RunningIsLeased
  <1>1. Init => RunningIsLeased
    BY DEF Init, RunningIsLeased
  <1>2. TypeInv /\ RunningIsLeased /\ [Next]_vars => TypeInv' /\ RunningIsLeased'
    BY TypeStep, LeasedStep
  <1>. QED
    BY <1>1, <1>2, TypeInit, PTL DEF Spec

-----------------------------------------------------------------------------
(***************************************************************************)
(* What a step does to the status and the owner of one run: the table of   *)
(* transitions that the repository's methods add up to.                    *)
(***************************************************************************)
Taken(q, e) ==
    /\ Acquire(e) /\ RunOf(e) = q /\ Acquirable(q)
    /\ run'[q].status = "running" /\ run'[q].worker = e

GivenBack(q, e) ==
    /\ Release(e) /\ RunOf(e) = q /\ Releasable(e)
    /\ run'[q].status = "pending"

Settled(q, e) ==
    /\ Finalize(e) /\ RunOf(e) = q /\ run[q].worker = e
    /\ run'[q].status \in Terminal /\ run'[q].worker = e

SameOwner(q) == run'[q].worker = run[q].worker

RowMove(q) ==
    \/ run'[q].status = run[q].status /\ SameOwner(q)
    \/ \E e \in Execs : Taken(q, e) \/ GivenBack(q, e) \/ Settled(q, e)
    \/ Reconcile /\ q \in swept /\ run'[q].status = "failed" /\ SameOwner(q)
    \/ /\ q \in CancelsUnderWay \ Undisturbed
       /\ run'[q] = [run[q] EXCEPT !.status = "cancel_requested"]
       /\ run'[q].status = "cancel_requested" /\ SameOwner(q)
       /\ q \in cancelKey' \cup cancelling'
    \/ /\ \E e \in Execs : Spawn(e, q)
       /\ run[q].status = "absent" /\ run'[q].status = "pending" /\ SameOwner(q)

LEMMA RowMoves ==
    ASSUME TypeInv, [Next]_vars, NEW q \in Runs
    PROVE  RowMove(q)
  <1>. USE ConstantsAssumption DEF TypeInv, TypeOK, SameOwner
  <1>0. run[q] \in RunRows /\ \A r \in Runs : run[r] \in RunRows
    OBVIOUS
  <1>1. CASE UNCHANGED <<run, attempts>>
    BY <1>1 DEF RowMove
  <1>2. ASSUME NEW e \in Execs, Acquire(e) PROVE RowMove(q)
    <2>1. RunOf(e) \in Runs
      BY <1>2 DEF Acquire, Assigned
    <2>2. CASE q = RunOf(e)
      BY <1>2, <2>1, <2>2 DEF RowMove, Taken, Acquire
    <2>3. CASE q # RunOf(e)
      BY <1>2, <2>1, <2>3 DEF RowMove, Acquire
    <2>. QED
      BY <2>2, <2>3
  <1>3. ASSUME NEW e \in Execs, Release(e) PROVE RowMove(q)
    <2>1. RunOf(e) \in Runs
      BY <1>3 DEF Release, Assigned
    <2>2. CASE q = RunOf(e) /\ Releasable(e)
      BY <1>3, <2>1, <2>2 DEF RowMove, GivenBack, Release
    <2>3. CASE q # RunOf(e) \/ ~Releasable(e)
      <3>1. run'[q] = run[q]
        BY <1>3, <2>1, <2>3 DEF Release
      <3>. QED
        BY <3>1 DEF RowMove
    <2>. QED
      BY <2>2, <2>3
  <1>4. ASSUME NEW e \in Execs, Finalize(e) PROVE RowMove(q)
    <2>1. RunOf(e) \in Runs /\ result[e] \in Terminal
      BY <1>4 DEF Finalize, Assigned
    <2>2. CASE q = RunOf(e) /\ Owns(e)
      <3>1. run'[q] = [run[q] EXCEPT !.status = result[e]]
        BY <1>4, <2>1, <2>2 DEF Finalize
      <3>2. run'[q].status = result[e] /\ run'[q].worker = run[q].worker
        BY <1>0, <3>1 DEF RunRows
      <3>3. run[q].worker = e
        BY <2>2 DEF Owns
      <3>. QED
        BY <1>4, <2>1, <2>2, <3>2, <3>3 DEF RowMove, Settled
    <2>3. CASE q # RunOf(e) \/ ~Owns(e)
      <3>1. run'[q] = run[q]
        BY <1>4, <2>1, <2>3 DEF Finalize
      <3>. QED
        BY <3>1 DEF RowMove
    <2>. QED
      BY <2>2, <2>3
  <1>5. ASSUME NEW e \in Execs, Cascade(e) PROVE RowMove(q)
    <2>1. CASE q \in children[e]
      <3>1. q \in CancelsUnderWay \ Undisturbed
        BY <2>1 DEF CancelsUnderWay, Assigned
      <3>2. /\ run'[q] = [run[q] EXCEPT !.status = "cancel_requested"]
            /\ q \in cancelKey' \cup cancelling'
        BY <1>5, <2>1 DEF Cascade, CancelRequested
      <3>. QED
        BY <1>0, <3>1, <3>2 DEF RowMove, RunRows
    <2>2. CASE q \notin children[e]
      <3>1. run'[q] = run[q]
        BY <1>5, <2>2 DEF Cascade, CancelRequested
      <3>. QED
        BY <3>1 DEF RowMove
    <2>. QED
      BY <2>1, <2>2
  <1>6. ASSUME NEW e \in Execs, Renew(e) PROVE RowMove(q)
    BY <1>6, RenewKeeps DEF RowMove
  <1>7. ASSUME NEW e \in Execs, NEW r \in Runs, Spawn(e, r) PROVE RowMove(q)
    <2>1. CASE q = r
      <3>1. run'[q] = [run[q] EXCEPT !.status = "pending"] /\ run[q].status = "absent"
        BY <1>7, <2>1 DEF Spawn
      <3>2. run'[q].status = "pending" /\ run'[q].worker = run[q].worker
        BY <1>0, <3>1 DEF RunRows
      <3>. QED
        BY <1>7, <2>1, <3>1, <3>2 DEF RowMove
    <2>2. CASE q # r
      BY <1>7, <2>2 DEF Spawn, RowMove
    <2>. QED
      BY <2>1, <2>2
  <1>8. ASSUME NEW r \in Runs, RequestCancel(r) PROVE RowMove(q)
    <2>1. CASE q = r
      <3>1. q \in CancelsUnderWay \ Undisturbed
        BY <1>8, <2>1 DEF RequestCancel, CancelsUnderWay, Assigned
      <3>2. /\ run'[q] = [run[q] EXCEPT !.status = "cancel_requested"]
            /\ q \in cancelKey' \cup cancelling'
        BY <1>8, <2>1 DEF RequestCancel, CancelRequested
      <3>. QED
        BY <1>0, <3>1, <3>2 DEF RowMove, RunRows
    <2>2. CASE q # r
      BY <1>8, <2>2 DEF RequestCancel, CancelRequested, RowMove
    <2>. QED
      BY <2>1, <2>2
  <1>9. ASSUME NEW r \in Runs, Expire(r) PROVE RowMove(q)
    BY <1>0, <1>9 DEF Expire, RunRows, RowMove
  <1>10. ASSUME Reconcile PROVE RowMove(q)
    BY <1>0, <1>10 DEF Reconcile, RunRows, RowMove
  <1>. QED
    BY RowSteps, <1>1, <1>2, <1>3, <1>4, <1>5, <1>6, <1>7, <1>8, <1>9, <1>10

\* A run that reached a terminal status never leaves the terminal statuses by a
\* redelivery (mark_running), a retry (release_lease_for_retry), a renewal or the
\* sweep.  A cancel that read it as active brings it back as it was, and nothing
\* else does: never a run that nobody cancels.
THEOREM OnlyStaleCancelsReopenHolds == Spec => OnlyStaleCancelsReopen
  <1>1. TypeInv /\ [Next]_vars =>
          [\A r \in Runs : run[r].status \in Terminal =>
              \/ run'[r].status \in Terminal
              \/ /\ r \in CancelsUnderWay \ Undisturbed
                 /\ run'[r] = [run[r] EXCEPT !.status = "cancel_requested"]]_vars
    <2>. SUFFICES ASSUME TypeInv, [Next]_vars, NEW r \in Runs, run[r].status \in Terminal
                  PROVE  \/ run'[r].status \in Terminal
                         \/ /\ r \in CancelsUnderWay \ Undisturbed
                            /\ run'[r] = [run[r] EXCEPT !.status = "cancel_requested"]
      OBVIOUS
    <2>1. RowMove(r)
      BY RowMoves
    <2>. QED
      BY <2>1 DEF RowMove, Taken, Acquirable, GivenBack, Releasable, Settled, Terminal
  <1>. QED
    BY <1>1, TypeInit, TypeStep, PTL DEF Spec, OnlyStaleCancelsReopen

-----------------------------------------------------------------------------
(***************************************************************************)
(* What a step does to one execution.                                      *)
(***************************************************************************)
Finalizer(e) == e \in published \/ pc[e] = "publishing"
Holding(e) == InBody(e) \/ pc[e] = "releasing" \/ e \in outputs

ExecMove(e) ==
    /\ pc[e] \notin {"unused"} => RunOf(e)' = RunOf(e)
    /\ pc'[e] \in {"unused", "picked"} => pc[e] \in {"unused", "picked"}
    /\ Finalizer(e)' => Finalizer(e) \/ (Finalize(e) /\ Owns(e))
    /\ Holding(e)' => Acquire(e) \/ (Holding(e) /\ ~(pc[e] = "releasing" /\ pc'[e] = "retrying"))
                                  \/ e \in outputs
    /\ e \in outputs' /\ pc'[e] \in {"started", "streaming", "saving", "releasing"} =>
          \/ e \in outputs /\ pc[e] \in {"started", "streaming", "saving", "releasing"}
          \/ Acquire(e)

LEMMA ExecMoves ==
    ASSUME TypeInv, [Next]_vars, NEW e \in Execs
    PROVE  ExecMove(e)
  <1>. USE DEF TypeInv, TypeOK, ExecMove, Finalizer, Holding, InBody, RunOf, Goto, FinishBody,
               Escape, StopSet, Pcs, Ended, InProgress, dbVars, cancelVars, jobVars, execVars
  <1>1. ASSUME NEW r \in Runs, NEW f \in Execs, Deliver(r, f) \/ Spawn(f, r) PROVE ExecMove(e)
    BY <1>1 DEF Deliver, Spawn, Assigned
  <1>2. ASSUME NEW r \in Runs,
               \/ Exhaust(r) \/ EnqueueSpawned(r) \/ BreakSpawn(r) \/ ReadForCancel(r) \/ RequestCancel(r) \/ SetCancelKey(r) \/ Expire(r)
               \/ LoseCancelKey(r)
        PROVE  ExecMove(e)
    BY <1>2 DEF Exhaust, EnqueueSpawned, BreakSpawn, ReadForCancel, RequestCancel, SetCancelKey, Expire, LoseCancelKey
  <1>3. ASSUME NEW f \in Execs, Acquire(f) PROVE ExecMove(e)
    BY <1>3 DEF Acquire
  <1>4. ASSUME NEW f \in Execs,
               \/ Skip(f) \/ FirstChunk(f) \/ SeeCancel(f) \/ EndStream(f) \/ SaveOutput(f)
        PROVE  ExecMove(e)
    BY <1>4 DEF Skip, FirstChunk, SeeCancel, EndStream, SaveOutput
  <1>5. ASSUME NEW f \in Execs, RetryableError(f) \/ PermanentError(f) PROVE ExecMove(e)
    BY <1>5 DEF RetryableError, PermanentError
  <1>6. ASSUME NEW f \in Execs, Release(f) PROVE ExecMove(e)
    BY <1>6 DEF Release
  <1>7. ASSUME NEW f \in Execs, Retry(f) \/ AwaitHeartbeat(f) \/ AwaitRaises(f)
        PROVE  ExecMove(e)
    BY <1>7 DEF Retry, AwaitHeartbeat, AwaitRaises
  <1>8. ASSUME NEW f \in Execs, Finalize(f) PROVE ExecMove(e)
    BY <1>8 DEF Finalize
  <1>9. ASSUME NEW f \in Execs, Publish(f) \/ ReadChildren(f) \/ Cascade(f) PROVE ExecMove(e)
    BY <1>9 DEF Publish, ReadChildren, Cascade
  <1>10. ASSUME NEW f \in Execs, Wake(f) \/ Renew(f) \/ BlipHeartbeat(f) PROVE ExecMove(e)
    BY <1>10 DEF Wake, Renew, BlipHeartbeat
  <1>11. ASSUME NEW f \in Execs, Crash(f) \/ Timeout(f) \/ Blip(f) PROVE ExecMove(e)
    BY <1>11 DEF Crash, Timeout, Blip
  <1>12. CASE Sweep \/ Reconcile \/ CrashSweep \/ UNCHANGED vars
    BY <1>12 DEF Sweep, Reconcile, CrashSweep, vars
  <1>. QED
    BY <1>1, <1>2, <1>3, <1>4, <1>5, <1>6, <1>7, <1>8, <1>9, <1>10, <1>11, <1>12
    DEF Next, Execute, Heartbeat, Fault

-----------------------------------------------------------------------------
(***************************************************************************)
(* One run-finished event per run nobody cancels.  An execution that       *)
(* finalized such a run owns it for ever: the run stays terminal, and a    *)
(* terminal run is never acquired, released or finalized under another     *)
(* token.                                                                  *)
(***************************************************************************)
LEMMA FinalizerStep ==
    ASSUME TypeInv, FinalizerOwns, [Next]_vars
    PROVE  FinalizerOwns'
  <1>. SUFFICES ASSUME NEW e \in Execs, Finalizer(e)', RunOf(e)' \in Undisturbed
                PROVE  /\ run'[RunOf(e)'].status \in Terminal
                       /\ run'[RunOf(e)'].worker = e
    BY DEF FinalizerOwns, Finalizer, Undisturbed
  <1>1. ExecMove(e)
    BY ExecMoves
  <1>2. CASE Finalizer(e)
    <2>1. pc[e] # "unused"
      BY <1>2 DEF Finalizer, TypeInv, Assigned
    <2>2. RunOf(e) \in Runs /\ RunOf(e)' = RunOf(e)
      BY <1>1, <2>1 DEF ExecMove, TypeInv, Assigned
    <2>3. run[RunOf(e)].status \in Terminal /\ run[RunOf(e)].worker = e
      BY <1>2, <2>2 DEF FinalizerOwns, Finalizer
    <2>4. RowMove(RunOf(e))
      BY <2>2, RowMoves
    <2>. QED
      BY <2>2, <2>3, <2>4
      DEF RowMove, Taken, Acquirable, GivenBack, Releasable, Settled, SameOwner, Terminal
  <1>3. CASE ~Finalizer(e) /\ Finalize(e) /\ Owns(e)
    <2>1. pc[e] # "unused"
      BY <1>3 DEF Finalize
    <2>2. RunOf(e) \in Runs /\ RunOf(e)' = RunOf(e) /\ result[e] \in Terminal
      BY <1>1, <2>1 DEF ExecMove, TypeInv, TypeOK, Assigned
    <2>3. run[RunOf(e)] \in RunRows /\ run' = [run EXCEPT ![RunOf(e)].status = result[e]]
      BY <1>3, <2>2 DEF Finalize, TypeInv, TypeOK
    <2>4. run'[RunOf(e)].status = result[e] /\ run'[RunOf(e)].worker = e
      BY <1>3, <2>2, <2>3 DEF Owns, RunRows, TypeInv, TypeOK
    <2>. QED
      BY <2>2, <2>4
  <1>. QED
    BY <1>1, <1>2, <1>3 DEF ExecMove

\* Clients stop reading a run's stream at run-finished: however often the job of a
\* run nobody cancels is delivered or retried, one execution at most publishes it.
THEOREM FinishedOnceHolds == Spec => []FinishedOnce
  <1>1. Init => FinalizerOwns
    BY DEF Init, FinalizerOwns
  <1>2. TypeInv /\ FinalizerOwns /\ [Next]_vars => TypeInv' /\ FinalizerOwns'
    BY TypeStep, FinalizerStep
  <1>3. TypeInv /\ FinalizerOwns => FinishedOnce
    BY DEF FinalizerOwns, FinishedOnce, TypeInv, TypeOK
  <1>. QED
    BY <1>1, <1>2, <1>3, TypeInit, PTL DEF Spec

-----------------------------------------------------------------------------
(***************************************************************************)
(* One execution, and one answer, per run nobody cancels.                  *)
(***************************************************************************)
LEMMA CustodyStep ==
    ASSUME TypeInv, Custody, [Next]_vars
    PROVE  Custody'
  <1>1. ASSUME NEW r \in Undisturbed PROVE run'[r].status # "cancel_requested"
    <2>1. r \in Runs /\ RowMove(r)
      BY RowMoves DEF Undisturbed
    <2>. QED
      BY <2>1 DEF RowMove, Taken, GivenBack, Settled, Custody, Terminal
  <1>2. ASSUME NEW e \in outputs',
               pc'[e] \in {"started", "streaming", "saving", "releasing"}
        PROVE  FALSE
    <2>1. e \in Execs
      BY TypeStep DEF TypeInv, TypeOK
    <2>2. ExecMove(e)
      BY <2>1, ExecMoves
    <2>3. Acquire(e)
      BY <1>2, <2>2 DEF ExecMove, Custody
    <2>4. e \in outputs /\ pc[e] = "picked"
      BY <2>3 DEF Acquire
    <2>. QED
      BY <2>1, <2>4 DEF TypeInv, Assigned
  <1>3. ASSUME NEW e \in Execs, Holding(e)', RunOf(e)' \in Undisturbed
        PROVE  /\ run'[RunOf(e)'].worker = e
               /\ run'[RunOf(e)'].status \in {"running"} \cup Terminal
    <2>1. ExecMove(e)
      BY ExecMoves
    <2>2. CASE Acquire(e)
      <3>1. RunOf(e) \in Runs /\ RunOf(e)' = RunOf(e)
        BY <2>1, <2>2 DEF Acquire, ExecMove, TypeInv, Assigned
      <3>. QED
        BY <2>2, <3>1 DEF Acquire, TypeInv, TypeOK
    <2>3. CASE Holding(e) /\ ~(pc[e] = "releasing" /\ pc'[e] = "retrying")
      <3>1. pc[e] # "unused"
        BY <2>3 DEF Holding, InBody, TypeInv, Assigned
      <3>2. RunOf(e) \in Runs /\ RunOf(e)' = RunOf(e)
        BY <2>1, <3>1 DEF ExecMove, TypeInv, Assigned
      <3>3. /\ run[RunOf(e)].worker = e
            /\ run[RunOf(e)].status \in {"running"} \cup Terminal
        BY <1>3, <2>3, <3>2 DEF Custody, Holding
      <3>4. RowMove(RunOf(e))
        BY <3>2, RowMoves
      <3>5. ~(\E f \in Execs : Taken(RunOf(e), f))
        BY <3>3 DEF Taken, Acquirable, Terminal
      <3>6. ~(\E f \in Execs : GivenBack(RunOf(e), f))
        BY <2>3, <3>3 DEF GivenBack, Releasable, Owns, Release, Goto, TypeInv, TypeOK
      <3>. QED
        BY <1>1, <1>3, <3>2, <3>3, <3>4, <3>5, <3>6 DEF RowMove, Settled, SameOwner, Terminal
    <2>4. e \in outputs => ~(pc[e] = "releasing" /\ pc'[e] = "retrying")
      BY DEF Custody
    <2>. QED
      BY <1>3, <2>1, <2>2, <2>3, <2>4 DEF ExecMove, Holding
  <1>. QED
    BY <1>1, <1>2, <1>3 DEF Custody, Holding, InBody, Undisturbed

LEMMA CustodyInit == ASSUME Init PROVE Custody
  BY DEF Init, Custody, Undisturbed, InBody

\* Two executions never stream into the checkpointer of one run nobody cancels,
\* whatever crashes, stalls, timeouts and lost leases there are.
THEOREM OneExecutionPerRunHolds == Spec => []OneExecutionPerRun
  <1>1. TypeInv /\ Custody /\ [Next]_vars => TypeInv' /\ Custody'
    BY TypeStep, CustodyStep
  <1>2. Custody => OneExecutionPerRun
    BY DEF Custody, OneExecutionPerRun
  <1>. QED
    BY <1>1, <1>2, TypeInit, CustodyInit, PTL DEF Spec

\* At most one assistant message is committed for a run nobody cancels.
THEOREM OneAnswerPerRunHolds == Spec => []OneAnswerPerRun
  <1>1. TypeInv /\ Custody /\ [Next]_vars => TypeInv' /\ Custody'
    BY TypeStep, CustodyStep
  <1>2. TypeInv /\ Custody => OneAnswerPerRun
    BY DEF Custody, OneAnswerPerRun, TypeInv, TypeOK
  <1>. QED
    BY <1>1, <1>2, TypeInit, CustodyInit, PTL DEF Spec

-----------------------------------------------------------------------------
(***************************************************************************)
(* The attempt history is a fact table.                                    *)
(***************************************************************************)
FactsKept ==
    \A r \in Runs : \A i \in DOMAIN attempts[r] :
        /\ i \in DOMAIN attempts'[r]
        /\ attempts'[r][i].worker = attempts[r][i].worker
        /\ attempts[r][i].outcome # "open" => attempts'[r][i] = attempts[r][i]

LEMMA FactsStep ==
    ASSUME TypeInv, [Next]_vars
    PROVE  FactsKept
  <1>0. /\ attempts \in [Runs -> Seq(AttemptRows)]
        /\ swept \in SUBSET Runs
        /\ \A r \in Runs : \A i \in DOMAIN attempts[r] : attempts[r][i] \in AttemptRows
    <2>1. attempts \in [Runs -> Seq(AttemptRows)] /\ swept \in SUBSET Runs
      BY DEF TypeInv, TypeOK
    <2>. QED
      BY <2>1
  <1>1. CASE UNCHANGED attempts
    BY <1>1 DEF FactsKept
  <1>2. ASSUME NEW e \in Execs, Acquire(e) PROVE FactsKept
    <2>1. RunOf(e) \in Runs
      BY <1>2 DEF Acquire, TypeInv, Assigned
    <2>2. /\ \A q \in Runs \ {RunOf(e)} : attempts'[q] = attempts[q]
          /\ \A i \in DOMAIN attempts[RunOf(e)] :
                /\ i \in DOMAIN attempts'[RunOf(e)]
                /\ attempts'[RunOf(e)][i] = attempts[RunOf(e)][i]
      BY <1>0, <1>2, <2>1, OpenAttemptRows DEF Acquire
    <2>. QED
      BY <2>1, <2>2 DEF FactsKept
  <1>3. ASSUME NEW r \in Runs, NEW e \in Execs, NEW o \in Outcomes,
               attempts' = CloseAttempt(r, e, o)
        PROVE  FactsKept
    <2>1. /\ \A q \in Runs : DOMAIN attempts'[q] = DOMAIN attempts[q]
          /\ \A q \in Runs : \A i \in DOMAIN attempts[q] :
                attempts'[q][i] =
                  IF q = r /\ attempts[q][i].worker = e /\ attempts[q][i].outcome = "open"
                  THEN [attempts[q][i] EXCEPT !.outcome = o] ELSE attempts[q][i]
      BY <1>0, <1>3, CloseAttemptRows
    <2>. QED
      BY <1>0, <2>1 DEF FactsKept, AttemptRows
  <1>4. ASSUME NEW e \in Execs, Release(e) PROVE FactsKept
    <2>1. RunOf(e) \in Runs
      BY <1>4 DEF Release, TypeInv, Assigned
    <2>. QED
      BY <1>1, <1>3, <1>4, <2>1 DEF Release, Outcomes
  <1>5. ASSUME NEW e \in Execs, Finalize(e) PROVE FactsKept
    <2>1. RunOf(e) \in Runs /\ result[e] \in Outcomes
      BY <1>5 DEF Finalize, TypeInv, TypeOK, Assigned, Outcomes
    <2>. QED
      BY <1>1, <1>3, <1>5, <2>1 DEF Finalize
  <1>6. ASSUME Reconcile PROVE FactsKept
    <2>1. /\ \A q \in Runs : DOMAIN attempts'[q] = DOMAIN attempts[q]
          /\ \A q \in Runs : \A i \in DOMAIN attempts[q] :
                attempts'[q][i] =
                  IF q \in swept /\ attempts[q][i].outcome = "open"
                  THEN [attempts[q][i] EXCEPT !.outcome = "lease_expired"]
                  ELSE attempts[q][i]
      BY <1>0, <1>6, CloseExpiredRows DEF Reconcile
    <2>. QED
      BY <1>0, <2>1 DEF FactsKept, AttemptRows
  <1>7. ASSUME \/ \E e \in Execs : Cascade(e) \/ Renew(e)
               \/ \E e \in Execs, r \in Runs : Spawn(e, r)
               \/ \E r \in Runs : RequestCancel(r) \/ Expire(r)
        PROVE  UNCHANGED attempts
    BY <1>7 DEF Cascade, Renew, Spawn, RequestCancel, Expire
  <1>. QED
    BY RowSteps, <1>1, <1>2, <1>4, <1>5, <1>6, <1>7

\* "Immutable fact record": no step removes a row of agent_run_attempts, hands
\* it to another worker, or changes one that is closed.
THEOREM AttemptsAreFactsHolds == Spec => AttemptsAreFacts
  <1>1. TypeInv /\ [Next]_vars => [FactsKept]_vars
    BY FactsStep
  <1>2. [FactsKept]_vars =>
          [\A r \in Runs : \A i \in DOMAIN attempts[r] :
              /\ i \in DOMAIN attempts'[r]
              /\ attempts'[r][i].worker = attempts[r][i].worker
              /\ attempts[r][i].outcome # "open" => attempts'[r][i] = attempts[r][i]]_vars
    BY DEF FactsKept
  <1>. QED
    BY <1>1, <1>2, TypeInit, TypeStep, PTL DEF Spec, AttemptsAreFacts
-----------------------------------------------------------------------------
(***************************************************************************)
(* A run that waits has no owner, and the sweep and the cancels read rows  *)
(* that exist.                                                             *)
(***************************************************************************)
\* a run that waits for a worker, for the first time or again, names none
Unowned == \A r \in Runs : run[r].status \in {"absent", "pending"} => run[r].worker = None

\* the sweep and the cancels have only read rows that exist
SweptExist ==
    /\ \A r \in swept \cup cancelReads : run[r].status # "absent"
    /\ \A e \in Execs : \A r \in children[e] : run[r].status # "absent"

LEMMA UnownedStep ==
    ASSUME TypeInv, Unowned, [Next]_vars
    PROVE  Unowned'
  <1>. SUFFICES ASSUME NEW q \in Runs, run'[q].status \in {"absent", "pending"}
                PROVE  run'[q].worker = None
    BY DEF Unowned
  <1>0. run \in [Runs -> RunRows]
    BY DEF TypeInv, TypeOK
  <1>1. CASE \E e \in Execs : GivenBack(q, e)
    BY <1>0, <1>1 DEF GivenBack, Release
  <1>2. CASE ~ \E e \in Execs : GivenBack(q, e)
    <2>1. RowMove(q)
      BY RowMoves
    <2>. QED
      BY <1>2, <2>1 DEF RowMove, Taken, Settled, SameOwner, Unowned, Terminal
  <1>. QED
    BY <1>1, <1>2

LEMMA SweptSteps ==
    ASSUME [Next]_vars
    PROVE  Sweep \/ swept' \subseteq swept
  <1>1. CASE Sweep \/ Reconcile \/ CrashSweep \/ UNCHANGED vars
    BY <1>1 DEF Reconcile, CrashSweep, vars
  <1>2. CASE UNCHANGED swept
    BY <1>2
  <1>3. ASSUME NEW r \in Runs, NEW e \in Execs, Deliver(r, e) \/ Spawn(e, r)
        PROVE  UNCHANGED swept
    BY <1>3 DEF Deliver, Spawn
  <1>4. ASSUME NEW r \in Runs,
               \/ Exhaust(r) \/ EnqueueSpawned(r) \/ BreakSpawn(r) \/ ReadForCancel(r) \/ RequestCancel(r) \/ SetCancelKey(r) \/ Expire(r)
               \/ LoseCancelKey(r)
        PROVE  UNCHANGED swept
    BY <1>4 DEF Exhaust, EnqueueSpawned, BreakSpawn, ReadForCancel, RequestCancel, SetCancelKey, Expire, LoseCancelKey
  <1>5. ASSUME NEW e \in Execs, Execute(e) PROVE UNCHANGED swept
    BY <1>5 DEF Execute, Acquire, Skip, FirstChunk, SeeCancel, EndStream, SaveOutput,
       RetryableError, PermanentError, Release, Retry, AwaitHeartbeat, AwaitRaises, Finalize,
       Publish, ReadChildren, Cascade
  <1>6. ASSUME NEW e \in Execs,
               Heartbeat(e) \/ Crash(e) \/ Timeout(e) \/ Blip(e) \/ BlipHeartbeat(e)
        PROVE  UNCHANGED swept
    BY <1>6 DEF Heartbeat, Wake, Renew, Crash, Timeout, Blip, BlipHeartbeat
  <1>. QED
    BY <1>1, <1>2, <1>3, <1>4, <1>5, <1>6 DEF Next, Fault

\* A cancel reads a run that is there, or it has read the run before.
LEMMA ReadSteps ==
    ASSUME TypeInv, [Next]_vars
    PROVE  /\ \A r \in cancelReads' : r \in cancelReads \/ ReadForCancel(r)
           /\ \A e \in Execs : \A r \in children'[e] : r \in children[e] \/ ReadChildren(e)
  <1>. DEFINE Goal == /\ \A r \in cancelReads' : r \in cancelReads \/ ReadForCancel(r)
                      /\ \A e \in Execs : \A r \in children'[e] : r \in children[e] \/ ReadChildren(e)
  <1>. SUFFICES Goal
    OBVIOUS
  <1>. USE DEF cancelVars, execVars
  <1>0. children \in [Execs -> SUBSET Runs]
    BY DEF TypeInv, TypeOK
  <1>1. CASE Sweep \/ Reconcile \/ CrashSweep \/ UNCHANGED vars
    BY <1>1 DEF Sweep, Reconcile, CrashSweep, vars
  <1>2. ASSUME NEW r \in Runs, NEW e \in Execs, Deliver(r, e) \/ Spawn(e, r) PROVE Goal
    BY <1>2 DEF Deliver, Spawn
  <1>3. ASSUME NEW r \in Runs,
               \/ Exhaust(r) \/ EnqueueSpawned(r) \/ BreakSpawn(r) \/ RequestCancel(r)
               \/ SetCancelKey(r) \/ Expire(r) \/ LoseCancelKey(r)
        PROVE  Goal
    BY <1>3 DEF Exhaust, EnqueueSpawned, BreakSpawn, RequestCancel, SetCancelKey, Expire,
                LoseCancelKey
  <1>4. ASSUME NEW r \in Runs, ReadForCancel(r) PROVE Goal
    BY <1>4 DEF ReadForCancel
  <1>5. ASSUME NEW e \in Execs,
               \/ Acquire(e) \/ Skip(e) \/ FirstChunk(e) \/ SeeCancel(e) \/ EndStream(e)
               \/ SaveOutput(e) \/ RetryableError(e) \/ PermanentError(e) \/ Release(e)
               \/ Retry(e) \/ AwaitHeartbeat(e) \/ AwaitRaises(e) \/ Finalize(e) \/ Publish(e)
        PROVE  UNCHANGED <<cancelReads, children>>
    BY <1>5 DEF Acquire, Skip, FirstChunk, SeeCancel, EndStream, SaveOutput,
       RetryableError, PermanentError, Release, Retry, AwaitHeartbeat, AwaitRaises, Finalize,
       Publish
  <1>6. ASSUME NEW e \in Execs, ReadChildren(e) PROVE Goal
    BY <1>0, <1>6 DEF ReadChildren
  <1>7. ASSUME NEW e \in Execs, Cascade(e) PROVE Goal
    BY <1>0, <1>7 DEF Cascade
  <1>8. ASSUME NEW e \in Execs, Crash(e) \/ Timeout(e) \/ Blip(e) PROVE Goal
    BY <1>0, <1>8 DEF Crash, Timeout, Blip
  <1>9. ASSUME NEW e \in Execs, Heartbeat(e) \/ BlipHeartbeat(e) PROVE Goal
    BY <1>9 DEF Heartbeat, Wake, Renew, BlipHeartbeat
  <1>. HIDE DEF Goal
  <1>10. ASSUME UNCHANGED <<cancelReads, children>> PROVE Goal
    BY <1>10 DEF Goal
  <1>. QED
    BY <1>1, <1>2, <1>3, <1>4, <1>5, <1>6, <1>7, <1>8, <1>9, <1>10 DEF Next, Execute, Fault

LEMMA SweptExistStep ==
    ASSUME TypeInv, SweptExist, [Next]_vars
    PROVE  SweptExist'
  <1>1. ASSUME NEW q \in Runs, run[q].status # "absent" PROVE run'[q].status # "absent"
    <2>1. RowMove(q)
      BY RowMoves
    <2>2. CASE run'[q] = [run[q] EXCEPT !.status = "cancel_requested"]
      BY <2>2 DEF TypeInv, TypeOK, RunRows
    <2>. QED
      BY <1>1, <2>1, <2>2 DEF RowMove, Taken, GivenBack, Settled, Terminal
  <1>2. ASSUME NEW q \in swept' PROVE run'[q].status # "absent"
    <2>1. CASE q \in swept
      BY <1>1, <2>1 DEF SweptExist, TypeInv, TypeOK
    <2>2. CASE q \notin swept
      <3>1. Sweep
        BY <1>2, <2>2, SweptSteps
      <3>. QED
        BY <1>2, <3>1 DEF Sweep, Overdue, Active, dbVars
    <2>. QED
      BY <2>1, <2>2
  <1>3. ASSUME NEW q \in cancelReads' PROVE run'[q].status # "absent"
    <2>1. CASE q \in cancelReads
      BY <1>1, <2>1 DEF SweptExist, TypeInv, TypeOK
    <2>2. CASE ReadForCancel(q)
      BY <2>2 DEF ReadForCancel, dbVars
    <2>. QED
      BY <1>3, <2>1, <2>2, ReadSteps
  <1>4. ASSUME NEW e \in Execs, NEW q \in children'[e] PROVE run'[q].status # "absent"
    <2>1. CASE q \in children[e]
      BY <1>1, <2>1 DEF SweptExist, TypeInv, TypeOK
    <2>2. CASE ReadChildren(e)
      BY <1>4, <2>2 DEF ReadChildren, ActiveChildren, dbVars, TypeInv, TypeOK
    <2>. QED
      BY <1>4, <2>1, <2>2, ReadSteps
  <1>. QED
    BY <1>2, <1>3, <1>4 DEF SweptExist

-----------------------------------------------------------------------------
(***************************************************************************)
(* The outcome of a run nobody cancels, when no worker stalls.  A lease    *)
(* then expires only under an execution that is doomed: its heartbeat is   *)
(* over and it will never reach the finalization, so the sweep and the     *)
(* owner never both end the run.                                           *)
(***************************************************************************)
Body == {"started", "streaming", "saving", "releasing"}

\* the way out leads past the finalization, for good
Doomed(e) ==
    /\ beat[e] \notin Beating
    /\ \/ pc[e] \in {"retrying", "publishing", "cascading", "cancelling"} \cup Ended
       \/ beat[e] = "raised" /\ pc[e] \in Body \cup {"stopping"}

\* what the owner e of a run nobody cancels is bound to
Bound(e, r) ==
    /\ RunOf(e) = r
    /\ pc[e] \notin {"unused", "picked"}
    /\ run[r].lease = "expired" \/ run[r].status \in Terminal => Doomed(e)
    /\ run[r].status = "running" /\ pc[e] \in Body => beat[e] # "off"

CalmInv ==
    /\ \A e \in Execs : pc[e] = "finalizing" => beat[e] = "off"
    /\ Unowned
    /\ \A r \in Undisturbed :
         /\ run[r].status # "absent"
         /\ r \in swept => run[r].status = "running" /\ run[r].lease = "expired"
         /\ \A e \in Execs : run[r].worker = e => Bound(e, r)

\* What a step does to the heartbeat of one execution and to its way out.
CalmMove(e) ==
    /\ Doomed(e) => Doomed(e)'
    /\ pc'[e] \in Body => pc[e] \in Body \/ Acquire(e)
    /\ pc'[e] = "finalizing" => (pc[e] = "finalizing" \/ beat[e] = "off")
    /\ beat[e] = "off" => beat'[e] = "off" \/ Acquire(e)
    /\ beat[e] # "off" /\ pc'[e] \in Body =>
          \/ beat'[e] # "off"
          \/ Renew(e) /\ ~(Owns(e) /\ run[RunOf(e)].status \in Active)

LEMMA CalmMoves ==
    ASSUME TypeInv, [Next]_vars, NEW e \in Execs
    PROVE  CalmMove(e)
  <1>. USE DEF TypeInv, TypeOK, CalmMove, Doomed, Body, Goto, FinishBody, Escape, StopSet, Pcs,
               Ended, InProgress, Beats, Beating, dbVars, cancelVars, jobVars, execVars
  <1>1. ASSUME NEW r \in Runs, NEW f \in Execs, Deliver(r, f) \/ Spawn(f, r) PROVE CalmMove(e)
    BY <1>1 DEF Deliver, Spawn
  <1>2. ASSUME NEW r \in Runs,
               \/ Exhaust(r) \/ EnqueueSpawned(r) \/ BreakSpawn(r) \/ ReadForCancel(r) \/ RequestCancel(r) \/ SetCancelKey(r) \/ Expire(r)
               \/ LoseCancelKey(r)
        PROVE  CalmMove(e)
    BY <1>2 DEF Exhaust, EnqueueSpawned, BreakSpawn, ReadForCancel, RequestCancel, SetCancelKey, Expire, LoseCancelKey
  <1>3. ASSUME NEW f \in Execs, Acquire(f) PROVE CalmMove(e)
    BY <1>3 DEF Acquire
  <1>4. ASSUME NEW f \in Execs,
               \/ Skip(f) \/ FirstChunk(f) \/ SeeCancel(f) \/ EndStream(f) \/ SaveOutput(f)
        PROVE  CalmMove(e)
    BY <1>4 DEF Skip, FirstChunk, SeeCancel, EndStream, SaveOutput
  <1>5. ASSUME NEW f \in Execs, RetryableError(f) \/ PermanentError(f) PROVE CalmMove(e)
    BY <1>5 DEF RetryableError, PermanentError, InBody
  <1>6. ASSUME NEW f \in Execs, Release(f) PROVE CalmMove(e)
    BY <1>6 DEF Release
  <1>7. ASSUME NEW f \in Execs, Retry(f) \/ AwaitHeartbeat(f) \/ AwaitRaises(f)
        PROVE  CalmMove(e)
    BY <1>7 DEF Retry, AwaitHeartbeat, AwaitRaises, HeartbeatDone
  <1>8. ASSUME NEW f \in Execs, Finalize(f) PROVE CalmMove(e)
    BY <1>8 DEF Finalize
  <1>9. ASSUME NEW f \in Execs, Publish(f) \/ ReadChildren(f) \/ Cascade(f) PROVE CalmMove(e)
    BY <1>9 DEF Publish, ReadChildren, Cascade
  <1>10. ASSUME NEW f \in Execs, Wake(f) PROVE CalmMove(e)
    BY <1>10 DEF Wake
  <1>11. ASSUME NEW f \in Execs, Renew(f) PROVE CalmMove(e)
    BY <1>11 DEF Renew
  <1>12. ASSUME NEW f \in Execs, BlipHeartbeat(f) PROVE CalmMove(e)
    BY <1>12 DEF BlipHeartbeat
  <1>13. ASSUME NEW f \in Execs, Crash(f) PROVE CalmMove(e)
    BY <1>13 DEF Crash
  <1>14. ASSUME NEW f \in Execs, Timeout(f) \/ Blip(f) PROVE CalmMove(e)
    BY <1>14 DEF Timeout, Blip
  <1>15. CASE Sweep \/ Reconcile \/ CrashSweep \/ UNCHANGED vars
    BY <1>15 DEF Sweep, Reconcile, CrashSweep, vars
  <1>. QED
    BY <1>1, <1>2, <1>3, <1>4, <1>5, <1>6, <1>7, <1>8, <1>9, <1>10, <1>11, <1>12, <1>13, <1>14,
       <1>15 DEF Next, Execute, Heartbeat, Fault

\* What a step does to the row of a run nobody cancels, the lease included.
LeaseMove(r) ==
    \/ run'[r] = run[r]
    \/ \E e \in Execs : Taken(r, e) /\ run'[r].lease = "live"
    \/ \E e \in Execs : GivenBack(r, e) /\ run'[r].worker = None
    \/ \E e \in Execs : Settled(r, e) /\ run'[r].status = result[e]
    \/ Reconcile /\ r \in swept /\ run'[r].status = "failed" /\ SameOwner(r)
    \/ /\ Expire(r)
       /\ run'[r].status = run[r].status /\ SameOwner(r)
    \/ \E e \in Execs : /\ Renew(e) /\ Owns(e) /\ RunOf(e) = r
                        /\ run'[r].status = run[r].status /\ SameOwner(r)
                        /\ run'[r].lease = "live" /\ beat'[e] = "sleeping"

LEMMA LeaseMoves ==
    ASSUME TypeInv, CalmInv, [Next]_vars, NEW r \in Undisturbed
    PROVE  LeaseMove(r)
  <1>. USE ConstantsAssumption DEF TypeInv, TypeOK, SameOwner
  <1>0. r \in Runs /\ run[r] \in RunRows /\ run[r].status # "absent"
    BY DEF Undisturbed, CalmInv
  <1>1. CASE UNCHANGED <<run, attempts>>
    BY <1>1 DEF LeaseMove
  <1>2. ASSUME NEW e \in Execs, Acquire(e) PROVE LeaseMove(r)
    <2>1. RunOf(e) \in Runs
      BY <1>2 DEF Acquire, Assigned
    <2>2. CASE r = RunOf(e)
      BY <1>0, <1>2, <2>1, <2>2 DEF LeaseMove, Taken, Acquire
    <2>3. CASE r # RunOf(e)
      BY <1>2, <2>1, <2>3 DEF LeaseMove, Acquire
    <2>. QED
      BY <2>2, <2>3
  <1>3. ASSUME NEW e \in Execs, Release(e) PROVE LeaseMove(r)
    <2>1. RunOf(e) \in Runs
      BY <1>3 DEF Release, Assigned
    <2>2. CASE r = RunOf(e) /\ Releasable(e)
      BY <1>0, <1>3, <2>1, <2>2 DEF LeaseMove, GivenBack, Release
    <2>3. CASE r # RunOf(e) \/ ~Releasable(e)
      <3>1. run'[r] = run[r]
        BY <1>0, <1>3, <2>1, <2>3 DEF Release
      <3>. QED
        BY <3>1 DEF LeaseMove
    <2>. QED
      BY <2>2, <2>3
  <1>4. ASSUME NEW e \in Execs, Finalize(e) PROVE LeaseMove(r)
    <2>1. RunOf(e) \in Runs /\ result[e] \in Terminal
      BY <1>4 DEF Finalize, Assigned
    <2>2. CASE r = RunOf(e) /\ Owns(e)
      <3>1. run'[r] = [run[r] EXCEPT !.status = result[e]]
        BY <1>0, <1>4, <2>1, <2>2 DEF Finalize
      <3>2. run'[r].status = result[e] /\ run'[r].worker = run[r].worker
        BY <1>0, <3>1 DEF RunRows
      <3>3. run[r].worker = e
        BY <2>2 DEF Owns
      <3>. QED
        BY <1>4, <2>1, <2>2, <3>2, <3>3 DEF LeaseMove, Settled
    <2>3. CASE r # RunOf(e) \/ ~Owns(e)
      <3>1. run'[r] = run[r]
        BY <1>0, <1>4, <2>1, <2>3 DEF Finalize
      <3>. QED
        BY <3>1 DEF LeaseMove
    <2>. QED
      BY <2>2, <2>3
  <1>5. ASSUME NEW e \in Execs, Cascade(e) PROVE LeaseMove(r)
    <2>1. r \notin children[e]
      BY DEF Assigned
    <2>2. run'[r] = run[r]
      BY <1>0, <1>5, <2>1 DEF Cascade, CancelRequested
    <2>. QED
      BY <2>2 DEF LeaseMove
  <1>6. ASSUME NEW e \in Execs, Renew(e) PROVE LeaseMove(r)
    <2>1. CASE r = RunOf(e) /\ Owns(e) /\ run[r].status \in Active
      <3>1. run'[r] = [run[r] EXCEPT !.lease = "live"] /\ beat'[e] = "sleeping"
        BY <1>0, <1>6, <2>1 DEF Renew
      <3>2. run'[r].lease = "live"
        BY <1>0, <3>1 DEF RunRows
      <3>. QED
        BY <1>0, <1>6, <2>1, <3>1, <3>2, RenewKeeps DEF LeaseMove
    <2>2. CASE ~(r = RunOf(e) /\ Owns(e) /\ run[r].status \in Active)
      <3>1. run'[r] = run[r]
        BY <1>0, <1>6, <2>2 DEF Renew
      <3>. QED
        BY <3>1 DEF LeaseMove
    <2>. QED
      BY <2>1, <2>2
  <1>7. ASSUME NEW e \in Execs, NEW c \in Runs, Spawn(e, c) PROVE LeaseMove(r)
    <2>1. c # r
      BY <1>0, <1>7 DEF Spawn
    <2>. QED
      BY <1>0, <1>7, <2>1 DEF Spawn, LeaseMove
  <1>8. ASSUME NEW c \in Runs, RequestCancel(c) PROVE LeaseMove(r)
    <2>1. c # r
      BY <1>8 DEF RequestCancel, Assigned
    <2>. QED
      BY <1>0, <1>8, <2>1 DEF RequestCancel, CancelRequested, LeaseMove
  <1>9. ASSUME NEW c \in Runs, Expire(c) PROVE LeaseMove(r)
    <2>1. CASE c = r
      <3>1. run'[r] = [run[r] EXCEPT !.lease = "expired"]
        BY <1>0, <1>9, <2>1 DEF Expire
      <3>. QED
        BY <1>0, <1>9, <2>1, <3>1 DEF LeaseMove, RunRows
    <2>2. CASE c # r
      BY <1>0, <1>9, <2>2 DEF Expire, LeaseMove
    <2>. QED
      BY <2>1, <2>2
  <1>10. ASSUME Reconcile PROVE LeaseMove(r)
    BY <1>0, <1>10 DEF Reconcile, RunRows, LeaseMove
  <1>. QED
    BY RowSteps, <1>1, <1>2, <1>3, <1>4, <1>5, <1>6, <1>7, <1>8, <1>9, <1>10

LEMMA CalmInit == ASSUME Init PROVE CalmInv
  BY ConstantsAssumption DEF Init, CalmInv, Undisturbed, Unowned

LEMMA CalmStep ==
    ASSUME TypeInv, Custody, CalmInv, [Next]_vars, "stall" \notin Faults
    PROVE  CalmInv'
  <1>. USE ConstantsAssumption DEF TypeInv, TypeOK
  <1>0. \A r \in Undisturbed :
          /\ r \in Runs /\ run[r] \in RunRows
          /\ run[r].status \in {"pending", "running"} \cup Terminal
    BY DEF Undisturbed, Custody, CalmInv, RunRows, Statuses, Active
  <1>1. ASSUME NEW e \in Execs, pc'[e] = "finalizing" PROVE beat'[e] = "off"
    <2>1. CalmMove(e)
      BY CalmMoves
    <2>2. beat[e] = "off"
      BY <1>1, <2>1 DEF CalmMove, CalmInv
    <2>3. ~Acquire(e)
      BY <1>1 DEF Acquire, Goto
    <2>. QED
      BY <2>1, <2>2, <2>3 DEF CalmMove
  <1>2. Unowned'
    BY UnownedStep DEF CalmInv
  <1>3. ASSUME NEW r \in Undisturbed, NEW e \in Execs, run'[r].worker = e PROVE Bound(e, r)'
    <2>0. LeaseMove(r) /\ CalmMove(e) /\ ExecMove(e)
      BY LeaseMoves, CalmMoves, ExecMoves
    <2>1. ASSUME run[r].worker = e
          PROVE  /\ RunOf(e)' = r
                 /\ pc'[e] \notin {"unused", "picked"}
                 /\ Doomed(e) => Doomed(e)'
                 /\ run[r].status = "running" /\ pc'[e] \in Body /\ ~Renew(e) => beat'[e] # "off"
                 /\ run[r].status = "running" /\ pc'[e] \in Body => beat'[e] # "off"
      <3>1. Bound(e, r)
        BY <2>1 DEF CalmInv
      <3>2. ~Acquire(e)
        BY <3>1 DEF Bound, Acquire
      <3>3. Owns(e)
        BY <2>1, <3>1 DEF Bound, Owns
      <3>. QED
        BY <2>0, <3>1, <3>2, <3>3 DEF Bound, CalmMove, ExecMove, Active
    <2>2. CASE run'[r] = run[r]
      BY <1>3, <2>1, <2>2 DEF Bound, CalmInv
    <2>3. ASSUME NEW f \in Execs, Taken(r, f), run'[r].lease = "live" PROVE Bound(e, r)'
      <3>1. f = e /\ Acquire(e) /\ RunOf(e) = r
        BY <1>3, <2>3 DEF Taken
      <3>2. /\ pc'[e] = "started" /\ beat'[e] = "sleeping" /\ RunOf(e)' = r
        BY <3>1 DEF Acquire, Goto, RunOf
      <3>. QED
        BY <2>3, <3>2 DEF Bound, Taken, Terminal
    <2>4. ASSUME NEW f \in Execs, GivenBack(r, f), run'[r].worker = None PROVE Bound(e, r)'
      BY <1>3, <2>4
    <2>5. ASSUME NEW f \in Execs, Settled(r, f) PROVE Bound(e, r)'
      <3>1. f = e /\ Finalize(e) /\ run[r].worker = e /\ RunOf(e) = r
        BY <1>3, <2>5 DEF Settled
      <3>2. pc[e] = "finalizing" /\ beat[e] = "off" /\ Owns(e)
        BY <3>1 DEF Finalize, CalmInv, Owns
      <3>3. pc'[e] = "publishing" /\ beat'[e] = "off"
        BY <3>1, <3>2 DEF Finalize, Goto
      <3>4. run'[r].status \in Terminal
        BY <2>5 DEF Settled
      <3>. QED
        BY <2>1, <3>1, <3>3, <3>4 DEF Bound, Doomed, Beating, Terminal
    <2>6. CASE Reconcile /\ r \in swept /\ run'[r].status = "failed" /\ SameOwner(r)
      <3>1. run[r].worker = e /\ run[r].lease = "expired"
        BY <1>3, <2>6 DEF SameOwner, CalmInv
      <3>2. Doomed(e)
        BY <3>1 DEF CalmInv, Bound
      <3>. QED
        BY <2>1, <2>6, <3>1, <3>2 DEF Bound
    <2>7. CASE Expire(r) /\ run'[r].status = run[r].status /\ SameOwner(r)
      <3>1. run[r].worker = e
        BY <1>3, <2>7 DEF SameOwner
      <3>2. run[r].status = "running" /\ ~Attended(r)
        BY <1>0, <2>7 DEF Expire, Active, Terminal
      <3>3. Bound(e, r)
        BY <3>1 DEF CalmInv
      <3>4. beat[e] \notin Beating /\ ~(beat[e] = "off" /\ pc[e] \in {"stopping", "finalizing"})
        BY <3>1, <3>2 DEF Attended
      <3>5. Doomed(e)
        BY <3>2, <3>3, <3>4 DEF Doomed, Bound, CalmInv, Beats, Beating, Pcs, Ended, Body
      <3>. QED
        BY <2>1, <2>7, <3>1, <3>2, <3>5 DEF Bound
    <2>8. ASSUME NEW f \in Execs, Renew(f), Owns(f), RunOf(f) = r,
                 run'[r].status = run[r].status, SameOwner(r), run'[r].lease = "live",
                 beat'[f] = "sleeping"
          PROVE  Bound(e, r)'
      <3>1. f = e /\ run[r].worker = e
        BY <1>3, <2>8 DEF SameOwner, Owns
      <3>2. ~Doomed(e)
        BY <2>8, <3>1 DEF Renew, Doomed, Beating
      <3>3. run[r].status \notin Terminal
        BY <3>1, <3>2 DEF CalmInv, Bound
      <3>. QED
        BY <2>1, <2>8, <3>1, <3>3 DEF Bound
    <2>. QED
      BY <2>0, <2>2, <2>3, <2>4, <2>5, <2>6, <2>7, <2>8 DEF LeaseMove
  <1>4. ASSUME NEW r \in Undisturbed PROVE run'[r].status # "absent"
    <2>1. LeaseMove(r)
      BY LeaseMoves
    <2>. QED
      BY <2>1 DEF LeaseMove, Taken, GivenBack, Settled, CalmInv, Terminal
  <1>5. ASSUME NEW r \in Undisturbed, r \in swept'
        PROVE  run'[r].status = "running" /\ run'[r].lease = "expired"
    <2>1. CASE Sweep
      <3>1. r \in Overdue /\ run' = run
        BY <1>5, <2>1 DEF Sweep, dbVars
      <3>. QED
        BY <1>0, <3>1 DEF Overdue, Active, Terminal
    <2>2. CASE ~Sweep
      <3>1. r \in swept
        BY <1>5, <2>2, SweptSteps
      <3>2. run[r].status = "running" /\ run[r].lease = "expired"
        BY <3>1 DEF CalmInv
      <3>3. \A f \in Execs : run[r].worker = f => Doomed(f)
        BY <3>2 DEF CalmInv, Bound
      <3>4. ~Reconcile /\ ~Expire(r)
        BY <1>5, <3>2 DEF Reconcile, Expire
      <3>5. \A f \in Execs : ~Taken(r, f) /\ ~GivenBack(r, f)
        BY <3>2 DEF Taken, Acquirable, GivenBack, Releasable
      <3>6. \A f \in Execs : ~Settled(r, f)
        BY <3>3 DEF Settled, Finalize, Doomed, Body, Ended
      <3>7. \A f \in Execs : RunOf(f) = r /\ Owns(f) => ~Renew(f)
        BY <3>3 DEF Owns, Renew, Doomed, Beating
      <3>8. LeaseMove(r)
        BY LeaseMoves
      <3>. QED
        BY <3>2, <3>4, <3>5, <3>6, <3>7, <3>8 DEF LeaseMove
    <2>. QED
      BY <2>1, <2>2
  <1>. QED
    BY <1>1, <1>2, <1>3, <1>4, <1>5 DEF CalmInv, Undisturbed

-----------------------------------------------------------------------------
(***************************************************************************)
(* The history of a run grows by the taking of the run and by nothing else.*)
(***************************************************************************)
LEMMA HistoryLength ==
    ASSUME TypeInv, [Next]_vars, NEW r \in Runs
    PROVE  \/ Len(attempts'[r]) = Len(attempts[r])
           \/ \E e \in Execs : Taken(r, e)
  <1>0. /\ attempts \in [Runs -> Seq(AttemptRows)]
        /\ swept \in SUBSET Runs
    BY DEF TypeInv, TypeOK
  <1>1. CASE UNCHANGED attempts
    BY <1>1
  <1>2. ASSUME NEW e \in Execs, Acquire(e), ~Taken(r, e)
        PROVE  Len(attempts'[r]) = Len(attempts[r])
    <2>1. RunOf(e) \in Runs
      BY <1>2 DEF Acquire, TypeInv, Assigned
    <2>2. r # RunOf(e)
      BY <1>2, <2>1 DEF Acquire, Taken, TypeInv, TypeOK
    <2>3. attempts'[r] = attempts[r]
      BY <1>0, <1>2, <2>1, <2>2, OpenAttemptRows DEF Acquire
    <2>. QED
      BY <2>3
  <1>3. ASSUME NEW e \in Execs, Release(e) PROVE Len(attempts'[r]) = Len(attempts[r])
    <2>1. RunOf(e) \in Runs
      BY <1>3 DEF Release, TypeInv, Assigned
    <2>. QED
      BY <1>0, <1>3, <2>1, CloseAttemptRows DEF Release, Outcomes
  <1>4. ASSUME NEW e \in Execs, Finalize(e) PROVE Len(attempts'[r]) = Len(attempts[r])
    <2>1. RunOf(e) \in Runs /\ result[e] \in Outcomes
      BY <1>4 DEF Finalize, TypeInv, TypeOK, Assigned, Outcomes
    <2>. QED
      BY <1>0, <1>4, <2>1, CloseAttemptRows DEF Finalize
  <1>5. ASSUME Reconcile PROVE Len(attempts'[r]) = Len(attempts[r])
    BY <1>0, <1>5, CloseExpiredRows DEF Reconcile
  <1>6. ASSUME \/ \E e \in Execs : Cascade(e) \/ Renew(e)
               \/ \E e \in Execs, c \in Runs : Spawn(e, c)
               \/ \E c \in Runs : RequestCancel(c) \/ Expire(c)
        PROVE  UNCHANGED attempts
    BY <1>6 DEF Cascade, Renew, Spawn, RequestCancel, Expire
  <1>. QED
    BY RowSteps, <1>1, <1>2, <1>3, <1>4, <1>5, <1>6

(***************************************************************************)
(* A finished run nobody cancels keeps its status: its owner is past the   *)
(* finalization, and the sweep has not read it.                            *)
(***************************************************************************)
LEMMA OutcomeStands ==
    ASSUME TypeInv, CalmInv, [Next]_vars, NEW r \in Undisturbed, run[r].status \in Terminal
    PROVE  run'[r].status = run[r].status
  <1>1. RowMove(r)
    BY RowMoves DEF Undisturbed
  <1>2. \A e \in Execs : run[r].worker = e => Doomed(e)
    BY DEF CalmInv, Bound
  <1>3. \A e \in Execs : ~Settled(r, e)
    BY <1>2 DEF Settled, Finalize, Doomed, Body, Ended
  <1>4. \A e \in Execs : ~Taken(r, e) /\ ~GivenBack(r, e)
    BY DEF Taken, Acquirable, GivenBack, Releasable, Terminal
  <1>5. r \notin swept
    BY DEF CalmInv, Terminal
  <1>. QED
    BY <1>1, <1>3, <1>4, <1>5 DEF RowMove, Terminal

LEMMA OutcomeStep ==
    ASSUME TypeInv, Custody, CalmInv, RunningIsLeased, OutcomesAgree, [Next]_vars
    PROVE  OutcomesAgree'
  <1>. SUFFICES ASSUME NEW r \in Undisturbed, run'[r].status \in Terminal
                PROVE  /\ attempts'[r] # <<>>
                       /\ \/ LastAttempt(r)'.outcome = run'[r].status
                          \/ LastAttempt(r)'.outcome = "lease_expired" /\ run'[r].status = "failed"
    BY DEF OutcomesAgree, Undisturbed
  <1>0. /\ r \in Runs /\ run[r] \in RunRows
        /\ run[r].status \in {"pending", "running"} \cup Terminal
    BY DEF Undisturbed, Custody, CalmInv, RunRows, Statuses, Active, TypeInv, TypeOK
  <1>1. /\ attempts \in [Runs -> Seq(AttemptRows)] /\ attempts[r] \in Seq(AttemptRows)
        /\ attempts'[r] \in Seq(AttemptRows)
        /\ swept \in SUBSET Runs
    <2>1. attempts \in [Runs -> Seq(AttemptRows)] /\ attempts' \in [Runs -> Seq(AttemptRows)]
      BY TypeStep DEF TypeInv, TypeOK
    <2>. QED
      BY <1>0, <2>1 DEF TypeInv, TypeOK
  <1>2. ASSUME attempts[r] # <<>>
        PROVE  Len(attempts[r]) \in DOMAIN attempts[r] /\ LastAttempt(r) \in AttemptRows
    BY <1>1, <1>2 DEF LastAttempt
  <1>3. CASE run[r].status \in Terminal
    <2>1. /\ attempts[r] # <<>> /\ LastAttempt(r).outcome # "open"
          /\ \/ LastAttempt(r).outcome = run[r].status
             \/ LastAttempt(r).outcome = "lease_expired" /\ run[r].status = "failed"
      BY <1>3 DEF OutcomesAgree, Terminal
    <2>2. run'[r].status = run[r].status
      BY <1>3, OutcomeStands
    <2>3. Len(attempts'[r]) = Len(attempts[r])
      BY <1>0, <1>3, HistoryLength DEF Taken, Acquirable, Terminal
    <2>4. LastAttempt(r)' = LastAttempt(r)
      BY <1>0, <1>2, <2>1, <2>3, FactsStep DEF FactsKept, LastAttempt
    <2>5. attempts'[r] # <<>>
      BY <1>1, <2>1, <2>3
    <2>. QED
      BY <2>1, <2>2, <2>4, <2>5
  <1>4. ASSUME NEW e \in Execs, Settled(r, e), run'[r].status = result[e], run[r].status \notin Terminal
        PROVE  attempts'[r] # <<>> /\ LastAttempt(r)'.outcome = run'[r].status
    <2>1. Finalize(e) /\ RunOf(e) = r /\ run[r].worker = e /\ result[e] \in Outcomes
      BY <1>4 DEF Settled, TypeInv, TypeOK, Outcomes
    <2>2. run[r].status = "running"
      BY <1>0, <1>4, <2>1, ConstantsAssumption DEF CalmInv, Unowned
    <2>3. attempts[r] # <<>> /\ LastAttempt(r) = [worker |-> e, outcome |-> "open"]
      BY <1>0, <2>1, <2>2 DEF RunningIsLeased
    <2>4. attempts' = CloseAttempt(r, e, result[e])
      BY <2>1 DEF Finalize, Owns
    <2>. DEFINE n == Len(attempts[r])
                row == attempts[r][n]
    <2>5. n \in DOMAIN attempts[r] /\ row = [worker |-> e, outcome |-> "open"]
      BY <1>2, <2>3 DEF LastAttempt
    <2>6. /\ Len(attempts'[r]) = n
          /\ attempts'[r][n] = IF row.worker = e /\ row.outcome = "open"
                               THEN [row EXCEPT !.outcome = result[e]] ELSE row
      <3>1. ASSUME NEW o \in Outcomes, attempts' = CloseAttempt(r, e, o)
            PROVE  /\ \A q \in Runs : Len(attempts'[q]) = Len(attempts[q])
                   /\ \A q \in Runs : \A i \in DOMAIN attempts[q] :
                        attempts'[q][i] =
                          IF q = r /\ attempts[q][i].worker = e /\ attempts[q][i].outcome = "open"
                          THEN [attempts[q][i] EXCEPT !.outcome = o] ELSE attempts[q][i]
        BY <1>0, <1>1, <3>1, CloseAttemptRows
      <3>. QED
        BY <1>0, <2>1, <2>4, <2>5, <3>1
    <2>7. attempts'[r][n].outcome = result[e]
      BY <2>5, <2>6
    <2>8. attempts'[r] # <<>>
      BY <1>1, <2>3, <2>6
    <2>. QED
      BY <1>4, <2>6, <2>7, <2>8 DEF LastAttempt
  <1>5. ASSUME Reconcile, r \in swept, run'[r].status = "failed"
        PROVE  attempts'[r] # <<>> /\ LastAttempt(r)'.outcome = "lease_expired"
    <2>1. run[r].status = "running"
      BY <1>5 DEF CalmInv
    <2>2. attempts[r] # <<>> /\ LastAttempt(r).outcome = "open"
      BY <1>0, <2>1 DEF RunningIsLeased
    <2>. DEFINE n == Len(attempts[r])
                row == attempts[r][n]
    <2>3. n \in DOMAIN attempts[r] /\ row \in AttemptRows /\ row.outcome = "open"
      BY <1>2, <2>2 DEF LastAttempt
    <2>4. attempts' = CloseExpired(swept)
      BY <1>5 DEF Reconcile
    <2>5. Len(attempts'[r]) = n /\ attempts'[r][n] = [row EXCEPT !.outcome = "lease_expired"]
      BY <1>0, <1>1, <1>5, <2>3, <2>4, CloseExpiredRows
    <2>6. attempts'[r][n].outcome = "lease_expired"
      BY <2>3, <2>5 DEF AttemptRows
    <2>7. attempts'[r] # <<>>
      BY <1>1, <2>2, <2>5
    <2>. QED
      BY <2>5, <2>6, <2>7 DEF LastAttempt
  <1>6. CASE run[r].status \notin Terminal
    <2>1. LeaseMove(r)
      BY LeaseMoves
    <2>. QED
      BY <1>4, <1>5, <1>6, <2>1 DEF LeaseMove, Taken, GivenBack, Terminal
  <1>. QED
    BY <1>3, <1>6

OutcomeInv == TypeInv /\ Custody /\ CalmInv /\ RunningIsLeased /\ OutcomesAgree

LEMMA OutcomeInvariance ==
    ASSUME "stall" \notin Faults
    PROVE  (Init => OutcomeInv) /\ (OutcomeInv /\ [Next]_vars => OutcomeInv')
  <1>1. Init => RunningIsLeased /\ OutcomesAgree
    BY DEF Init, RunningIsLeased, OutcomesAgree, Undisturbed, Terminal
  <1>2. Init => OutcomeInv
    BY <1>1, TypeInit, CustodyInit, CalmInit DEF OutcomeInv
  <1>3. OutcomeInv /\ [Next]_vars => OutcomeInv'
    BY TypeStep, CustodyStep, CalmStep, LeasedStep, OutcomeStep DEF OutcomeInv
  <1>. QED
    BY <1>2, <1>3

\* While no worker is suspended for longer than its lease, the status of a
\* finished run nobody cancels is the outcome of its last attempt: the row and
\* the history never tell two stories, whatever crashes, timeouts and errors.
THEOREM OutcomesAgreeHolds ==
    ASSUME "stall" \notin Faults
    PROVE  Spec => []OutcomesAgree
  <1>1. OutcomeInv => OutcomesAgree
    BY DEF OutcomeInv
  <1>. QED
    BY <1>1, OutcomeInvariance, PTL DEF Spec

\* Under the same hypothesis the first terminal status is the last one: the
\* sweep never fails a run that its owner completes, nor the other way round.
THEOREM FirstOutcomeStandsHolds ==
    ASSUME "stall" \notin Faults
    PROVE  Spec => FirstOutcomeStands
  <1>1. OutcomeInv /\ [Next]_vars =>
          [\A r \in Undisturbed :
              run[r].status \in Terminal => run'[r].status = run[r].status]_vars
    BY OutcomeStands DEF OutcomeInv
  <1>. QED
    BY <1>1, OutcomeInvariance, PTL DEF Spec, FirstOutcomeStands
-----------------------------------------------------------------------------
(***************************************************************************)
(* The cascade to the children, when no worker dies and no call fails.     *)
(***************************************************************************)
Quiet == Faults \subseteq {"stall"}

\* a cancel request has its key, or is about to get it; an execution that
\* published goes on to the cascade, and the children it has not read have theirs
CascadeInv ==
    /\ \A r \in Runs : run[r].status = "cancel_requested" => r \in cancelKey \cup cancelling
    /\ \A e \in published : pc[e] \in {"cascading", "cancelling", "returned"}
    /\ \A e \in published, c \in Runs :
          /\ pc[e] \in {"cancelling", "returned"}
          /\ Parent[c] = RunOf(e) /\ RunOf(e) \in Undisturbed
          /\ run[c].status \notin Terminal \cup {"absent"}
          => \/ c \in cancelKey \cup cancelling
             \/ pc[e] = "cancelling" /\ c \in children[e]

\* Without the faults no cancel request is lost, and the way out of an execution
\* leads through the cascade.
KeysKept == cancelKey \cup cancelling \subseteq cancelKey' \cup cancelling'

CancelMove(e) ==
    /\ e \in published' => e \in published \/ pc'[e] = "cascading"
    /\ pc[e] = "returned" => pc'[e] = "returned"
    /\ pc[e] = "cascading" => pc'[e] = "cascading" \/ ReadChildren(e)
    /\ pc[e] = "cancelling" =>
          \/ pc'[e] = "cancelling" /\ children'[e] = children[e]
          \/ Cascade(e)

LEMMA KeysStay ==
    ASSUME TypeInv, Quiet, [Next]_vars
    PROVE  KeysKept
  <1>. USE DEF TypeInv, TypeOK, KeysKept, dbVars, cancelVars, jobVars, execVars
  <1>1. ASSUME NEW c \in Runs, NEW f \in Execs, Deliver(c, f) \/ Spawn(f, c) PROVE KeysKept
    BY <1>1 DEF Deliver, Spawn
  <1>2. ASSUME NEW c \in Runs,
               Exhaust(c) \/ EnqueueSpawned(c) \/ BreakSpawn(c) \/ ReadForCancel(c) \/ RequestCancel(c) \/ SetCancelKey(c) \/ Expire(c)
        PROVE  KeysKept
    BY <1>2 DEF Exhaust, EnqueueSpawned, BreakSpawn, ReadForCancel, RequestCancel, SetCancelKey, Expire
  <1>3. ASSUME NEW f \in Execs,
               \/ Acquire(f) \/ Skip(f) \/ FirstChunk(f) \/ SeeCancel(f) \/ EndStream(f)
               \/ SaveOutput(f)
        PROVE  KeysKept
    BY <1>3 DEF Acquire, Skip, FirstChunk, SeeCancel, EndStream, SaveOutput
  <1>4. ASSUME NEW f \in Execs, RetryableError(f) \/ PermanentError(f) \/ Release(f)
        PROVE  KeysKept
    BY <1>4 DEF RetryableError, PermanentError, Release
  <1>5. ASSUME NEW f \in Execs, Retry(f) \/ AwaitHeartbeat(f) \/ AwaitRaises(f)
        PROVE  KeysKept
    BY <1>5 DEF Retry, AwaitHeartbeat, AwaitRaises
  <1>6. ASSUME NEW f \in Execs, Finalize(f) \/ Publish(f) \/ ReadChildren(f) \/ Cascade(f) PROVE KeysKept
    BY <1>6 DEF Finalize, Publish, ReadChildren, Cascade
  <1>7. ASSUME NEW f \in Execs, Wake(f) \/ Renew(f) PROVE KeysKept
    BY <1>7 DEF Wake, Renew
  <1>8. CASE Sweep \/ Reconcile \/ UNCHANGED vars
    BY <1>8 DEF Sweep, Reconcile, vars
  <1>9. ~Fault
    BY DEF Quiet, Fault, Crash, Timeout, Blip, BlipHeartbeat, LoseCancelKey, CrashSweep
  <1>. QED
    BY <1>1, <1>2, <1>3, <1>4, <1>5, <1>6, <1>7, <1>8, <1>9 DEF Next, Execute, Heartbeat

LEMMA CancelMoves ==
    ASSUME TypeInv, Quiet, [Next]_vars, NEW e \in Execs
    PROVE  CancelMove(e)
  <1>. USE DEF TypeInv, TypeOK, CancelMove, Goto, FinishBody, Escape, Pcs, StopSet, InProgress,
               Ended, dbVars, cancelVars, jobVars, execVars
  <1>1. ASSUME NEW c \in Runs, NEW f \in Execs, Deliver(c, f) \/ Spawn(f, c) PROVE CancelMove(e)
    BY <1>1 DEF Deliver, Spawn
  <1>2. ASSUME NEW c \in Runs,
               Exhaust(c) \/ EnqueueSpawned(c) \/ BreakSpawn(c) \/ ReadForCancel(c) \/ RequestCancel(c) \/ SetCancelKey(c) \/ Expire(c)
        PROVE  CancelMove(e)
    BY <1>2 DEF Exhaust, EnqueueSpawned, BreakSpawn, ReadForCancel, RequestCancel, SetCancelKey, Expire
  <1>3. ASSUME NEW f \in Execs,
               \/ Acquire(f) \/ Skip(f) \/ FirstChunk(f) \/ SeeCancel(f) \/ EndStream(f)
               \/ SaveOutput(f)
        PROVE  CancelMove(e)
    BY <1>3 DEF Acquire, Skip, FirstChunk, SeeCancel, EndStream, SaveOutput
  <1>4. ASSUME NEW f \in Execs, RetryableError(f) \/ PermanentError(f) \/ Release(f)
        PROVE  CancelMove(e)
    BY <1>4 DEF RetryableError, PermanentError, InBody, Release
  <1>5. ASSUME NEW f \in Execs, Retry(f) \/ AwaitHeartbeat(f) \/ AwaitRaises(f)
        PROVE  CancelMove(e)
    BY <1>5 DEF Retry, AwaitHeartbeat, AwaitRaises
  <1>6. ASSUME NEW f \in Execs, Finalize(f) \/ Publish(f) \/ ReadChildren(f) \/ Cascade(f) PROVE CancelMove(e)
    BY <1>6 DEF Finalize, Publish, ReadChildren, Cascade
  <1>7. ASSUME NEW f \in Execs, Wake(f) \/ Renew(f) PROVE CancelMove(e)
    BY <1>7 DEF Wake, Renew
  <1>8. CASE Sweep \/ Reconcile \/ UNCHANGED vars
    BY <1>8 DEF Sweep, Reconcile, vars
  <1>9. ~Fault
    BY DEF Quiet, Fault, Crash, Timeout, Blip, BlipHeartbeat, LoseCancelKey, CrashSweep
  <1>. QED
    BY <1>1, <1>2, <1>3, <1>4, <1>5, <1>6, <1>7, <1>8, <1>9 DEF Next, Execute, Heartbeat

LEMMA CascadeStep ==
    ASSUME TypeInv, FinalizerOwns, Unowned, SweptExist, CascadeInv, Quiet, [Next]_vars
    PROVE  CascadeInv'
  <1>1. ASSUME NEW r \in Runs, run'[r].status = "cancel_requested"
        PROVE  r \in cancelKey' \cup cancelling'
    <2>1. RowMove(r)
      BY RowMoves
    <2>2. run[r].status = "cancel_requested" \/ r \in cancelKey' \cup cancelling'
      BY <1>1, <2>1 DEF RowMove, Taken, GivenBack, Settled, Terminal
    <2>3. CASE run[r].status = "cancel_requested"
      <3>1. r \in cancelKey \cup cancelling
        BY <2>3 DEF CascadeInv
      <3>. QED
        BY <3>1, KeysStay DEF KeysKept
    <2>. QED
      BY <2>2, <2>3
  <1>2. ASSUME NEW e \in published' PROVE pc'[e] \in {"cascading", "cancelling", "returned"}
    <2>1. e \in Execs
      BY TypeStep DEF TypeInv, TypeOK
    <2>2. CancelMove(e)
      BY <2>1, CancelMoves
    <2>. QED
      BY <1>2, <2>1, <2>2 DEF CancelMove, CascadeInv, ReadChildren, Cascade, Goto, TypeInv, TypeOK
  <1>3. ASSUME NEW e \in published', NEW c \in Runs, pc'[e] \in {"cancelling", "returned"},
               Parent[c] = RunOf(e)', RunOf(e)' \in Undisturbed,
               run'[c].status \notin Terminal \cup {"absent"}
        PROVE  \/ c \in cancelKey' \cup cancelling'
               \/ pc'[e] = "cancelling" /\ c \in children'[e]
    <2>1. e \in Execs /\ CancelMove(e) /\ ExecMove(e) /\ RowMove(c)
      BY TypeStep, CancelMoves, ExecMoves, RowMoves DEF TypeInv, TypeOK
    <2>2. /\ e \in published /\ pc[e] \in {"cascading", "cancelling", "returned"}
          /\ RunOf(e)' = RunOf(e)
      BY <1>3, <2>1 DEF CancelMove, CascadeInv, ExecMove
    <2>3. run[RunOf(e)].status \in Terminal
      BY <1>3, <2>1, <2>2 DEF FinalizerOwns
    <2>4. CASE c \in cancelKey' \cup cancelling'
      BY <2>4
    <2>. SUFFICES ASSUME c \notin cancelKey' \cup cancelling'
                  PROVE  pc'[e] = "cancelling" /\ c \in children'[e]
      BY <2>4
    <2>5. c \notin cancelKey \cup cancelling
      BY KeysStay DEF KeysKept
    <2>6. run[c].status # "absent"
      <3>1. \A f \in Execs : ~Spawn(f, c)
        BY <1>3, <2>2, <2>3 DEF Spawn, Terminal
      <3>2. run[c].status = "absent" => c \notin swept /\ run[c].worker \notin Execs
        BY ConstantsAssumption DEF Unowned, SweptExist
      <3>. QED
        BY <1>3, <2>1, <3>1, <3>2
           DEF RowMove, Taken, Acquirable, GivenBack, Releasable, Settled
    <2>7. run[c].status \notin Terminal
      BY <1>3, <2>1 DEF RowMove, Taken, Acquirable, GivenBack, Releasable, Settled, Terminal
    <2>8. run[c].status \in {"pending", "running"}
      BY <2>5, <2>6, <2>7 DEF CascadeInv, TypeInv, TypeOK, RunRows, Statuses, Active
    <2>9. CASE ReadChildren(e)
      <3>1. c \in ActiveChildren(RunOf(e))
        BY <1>3, <2>2, <2>8 DEF ActiveChildren
      <3>. QED
        BY <2>1, <2>9, <3>1 DEF ReadChildren, Goto, TypeInv, TypeOK
    <2>10. CASE pc[e] \in {"cancelling", "returned"}
      <3>1. pc[e] = "cancelling" /\ c \in children[e]
        BY <1>3, <2>2, <2>5, <2>6, <2>7, <2>10 DEF CascadeInv
      <3>2. ~Cascade(e)
        BY <2>5, <3>1 DEF Cascade
      <3>. QED
        BY <2>1, <3>1, <3>2 DEF CancelMove
    <2>. QED
      BY <1>3, <2>1, <2>2, <2>9, <2>10 DEF CancelMove
  <1>. QED
    BY <1>1, <1>2, <1>3 DEF CascadeInv, Undisturbed

\* While no worker dies and no call fails, no subagent run outlives a parent nobody
\* cancels untold: once the parent's job has finished the run and cascaded, each
\* child that has not ended has its cancel key, or is about to get it, and no child
\* is started after it.  Neither a stalled worker nor a stale read breaks this.
THEOREM CascadeReachesChildrenHolds ==
    ASSUME Faults \subseteq {"stall"}
    PROVE  Spec => []CascadeReachesChildren
  <1>. DEFINE Inv == TypeInv /\ FinalizerOwns /\ Unowned /\ SweptExist /\ CascadeInv
  <1>1. Init => Inv
    BY TypeInit DEF Init, FinalizerOwns, Unowned, SweptExist, CascadeInv
  <1>2. Inv /\ [Next]_vars => Inv'
    BY TypeStep, FinalizerStep, UnownedStep, SweptExistStep, CascadeStep DEF Quiet
  <1>3. Inv => CascadeReachesChildren
    BY DEF CascadeInv, CascadeReachesChildren
  <1>. QED
    BY <1>1, <1>2, <1>3, PTL DEF Spec
-----------------------------------------------------------------------------
(***************************************************************************)
(* A pending run keeps its job, as long as nothing fails.  ARQ's account   *)
(* of the job agrees with the execution that holds it: a job is in         *)
(* progress while exactly one execution is, and an execution that gives    *)
(* the run back was not on its last try.  Only a tool call that has not    *)
(* enqueued its run yet, or never will, leaves a pending run without one.  *)
(***************************************************************************)
Waiting(r) == run[r].status \in {"absent", "pending"}

\* the tool call that started r has not enqueued it, or was broken off
Unsent(r) ==
    \/ spawning[r] # None
    \/ \E e \in Execs : RunOf(e) = Parent[r] /\ BrokenOff(e)

JobOK(r) ==
    /\ job[r].state = "in_progress" <=> Holders(r) # {}
    /\ \A e, f \in Holders(r) : e = f
    /\ \A e \in Holders(r) : /\ task[e].try = job[r].tries
                             /\ Waiting(r) => pc[e] \in {"picked", "retrying"}
    /\ run[r].status = "absent" \/ spawning[r] # None => job[r] = [state |-> "gone", tries |-> 0]
    /\ run[r].status = "pending" =>
          \/ job[r].state = "queued" /\ TriesLeft(r)
          \/ job[r].state = "in_progress"
          \/ Unsent(r)

\* The tool call that is starting a run is streaming still, or was broken off.
SpawningOK(r) ==
    spawning[r] # None =>
        /\ run[r].status # "absent"
        /\ spawning[r] \in Execs /\ RunOf(spawning[r]) = Parent[r]
        /\ pc[spawning[r]] = "streaming" \/ BrokenOff(spawning[r])

JobInv ==
    /\ \A e \in Execs : beat[e] # "raised"
    /\ \A e \in Execs : pc[e] \in {"releasing", "retrying"} => ~IsLastTry(e)
    /\ \A e \in Execs : pc[e] \in {"unused", "picked", "started", "streaming"} =>
                          result[e] # "completed"
    /\ \A r \in Runs : SpawningOK(r)
    /\ \A r \in Runs : JobOK(r)

\* the holders stay, and with them the job
LEMMA HoldersStay ==
    ASSUME NEW r \in Runs, JobOK(r), job'[r] = job[r], Holders(r)' = Holders(r),
           \A e \in Holders(r) : /\ task'[e].try = task[e].try
                                 /\ Waiting(r)' => pc'[e] \in {"picked", "retrying"},
           run'[r].status = "absent" => run[r].status = "absent",
           run'[r].status = "pending" => run[r].status = "pending" \/ Holders(r) # {},
           spawning'[r] \in {spawning[r], None}, Unsent(r) => Unsent(r)'
    PROVE  JobOK(r)'
  BY DEF JobOK, TriesLeft

\* the only holder leaves: its job is dropped, or queued for another try
LEMMA HolderLeaves ==
    ASSUME TypeInv, NEW r \in Runs, JobOK(r), NEW e \in Holders(r),
           Holders(r)' = Holders(r) \ {e},
           run'[r] = run[r] \/ ~Waiting(r)',
           \/ DropJob(r) /\ ~Waiting(r)
           \/ RequeueJob(r) /\ ~IsLastTry(e),
           spawning'[r] = spawning[r]
    PROVE  JobOK(r)'
  <1>1. Holders(r)' = {}
    BY DEF JobOK
  <1>2. /\ job[r] \in JobRows /\ job[r].state = "in_progress" /\ task[e].try = job[r].tries
        /\ run[r].status # "absent" /\ spawning[r] = None
    BY DEF JobOK, TypeInv, TypeOK
  <1>3. job'[r].state # "in_progress" /\ job'[r].tries = job[r].tries
    BY <1>2 DEF DropJob, RequeueJob, JobRows, TypeInv, TypeOK
  <1>4. run'[r].status # "absent"
    BY <1>2 DEF Waiting
  <1>5. ASSUME run'[r].status = "pending" PROVE job'[r].state = "queued" /\ TriesLeft(r)'
    <2>1. RequeueJob(r) /\ ~IsLastTry(e)
      BY <1>5 DEF Waiting
    <2>2. job'[r].state = "queued"
      BY <1>2, <2>1 DEF RequeueJob, TypeInv, TypeOK, JobRows
    <2>3. job[r].tries < MaxTries
      BY <1>2, <2>1, ConstantsAssumption DEF IsLastTry, JobRows
    <2>. QED
      BY <1>3, <2>2, <2>3 DEF TriesLeft
  <1>. QED
    BY <1>1, <1>3, <1>4, <1>5 DEF JobOK

\* The rest of the invariant: no heartbeat raises, an execution releases its run
\* on a retryable error that is not on the last try, and the stream of one whose
\* tool call is under way is left only by breaking it off.
TryMove(e) ==
    /\ beat'[e] = "raised" => beat[e] = "raised"
    /\ pc'[e] \in {"releasing", "retrying"} =>
          pc[e] \in {"releasing", "retrying"} \/ ~IsLastTry(e)
    /\ IF pc[e] = "unused" THEN pc'[e] \in {"unused", "picked"} ELSE task'[e] = task[e]
    /\ BrokenOff(e) => BrokenOff(e)'
    /\ pc'[e] \in {"unused", "picked", "started", "streaming"} =>
          pc[e] \in {"unused", "picked", "started", "streaming"} /\ result'[e] = result[e]
    /\ pc[e] = "streaming" /\ result[e] # "completed" =>
          pc'[e] = "streaming" \/ BrokenOff(e)' \/ EndStream(e)

LEMMA TryMoves ==
    ASSUME TypeInv, Faults = {}, [Next]_vars, NEW e \in Execs
    PROVE  TryMove(e)
  <1>. USE DEF TypeInv, TypeOK, TryMove, BrokenOff, Goto, FinishBody, Escape, Beats, dbVars, cancelVars, jobVars, execVars
  <1>1. ASSUME NEW r \in Runs, NEW f \in Execs, Deliver(r, f) \/ Spawn(f, r) PROVE TryMove(e)
    BY <1>1 DEF Deliver, Spawn
  <1>2. ASSUME NEW r \in Runs,
               Exhaust(r) \/ EnqueueSpawned(r) \/ BreakSpawn(r) \/ ReadForCancel(r) \/ RequestCancel(r) \/ SetCancelKey(r) \/ Expire(r)
        PROVE  TryMove(e)
    BY <1>2 DEF Exhaust, EnqueueSpawned, BreakSpawn, ReadForCancel, RequestCancel, SetCancelKey, Expire
  <1>3. ASSUME NEW f \in Execs,
               \/ Acquire(f) \/ Skip(f) \/ FirstChunk(f) \/ SeeCancel(f) \/ EndStream(f)
               \/ SaveOutput(f)
        PROVE  TryMove(e)
    BY <1>3 DEF Acquire, Skip, FirstChunk, SeeCancel, EndStream, SaveOutput
  <1>4. ASSUME NEW f \in Execs, RetryableError(f) \/ PermanentError(f) \/ Release(f)
        PROVE  TryMove(e)
    BY <1>4 DEF RetryableError, PermanentError, InBody, Release
  <1>5. ASSUME NEW f \in Execs, Retry(f) \/ AwaitHeartbeat(f) \/ AwaitRaises(f)
        PROVE  TryMove(e)
    BY <1>5 DEF Retry, AwaitHeartbeat, AwaitRaises
  <1>6. ASSUME NEW f \in Execs, Finalize(f) \/ Publish(f) \/ ReadChildren(f) \/ Cascade(f) PROVE TryMove(e)
    BY <1>6 DEF Finalize, Publish, ReadChildren, Cascade
  <1>7. ASSUME NEW f \in Execs, Wake(f) \/ Renew(f) PROVE TryMove(e)
    BY <1>7 DEF Wake, Renew
  <1>8. CASE Sweep \/ Reconcile \/ UNCHANGED vars
    BY <1>8 DEF Sweep, Reconcile, vars
  <1>9. ~Fault
    BY DEF Fault, Crash, Timeout, Blip, BlipHeartbeat, LoseCancelKey, CrashSweep
  <1>. QED
    BY <1>1, <1>2, <1>3, <1>4, <1>5, <1>6, <1>7, <1>8, <1>9 DEF Next, Execute, Heartbeat

\* What a step does to the tool call that is starting one subagent run.
LEMMA SpawnMoves ==
    ASSUME TypeInv, Faults = {}, [Next]_vars, NEW r \in Runs
    PROVE  \/ spawning'[r] = spawning[r]
           \/ EnqueueSpawned(r) \/ BreakSpawn(r)
           \/ \E e \in Execs : Spawn(e, r)
  <1>. DEFINE Goal == \/ spawning'[r] = spawning[r]
                      \/ EnqueueSpawned(r) \/ BreakSpawn(r)
                      \/ \E e \in Execs : Spawn(e, r)
  <1>. SUFFICES Goal
    OBVIOUS
  <1>. USE DEF jobVars
  <1>0. spawning \in [Runs -> Execs \cup {None}]
    BY DEF TypeInv, TypeOK
  <1>1. ASSUME NEW q \in Runs, NEW e \in Execs, Spawn(e, q) PROVE Goal
    BY <1>0, <1>1 DEF Spawn
  <1>2. ASSUME NEW q \in Runs, EnqueueSpawned(q) \/ BreakSpawn(q) PROVE Goal
    BY <1>0, <1>2 DEF EnqueueSpawned, BreakSpawn
  <1>3. ASSUME NEW q \in Runs, NEW e \in Execs, Deliver(q, e) PROVE UNCHANGED spawning
    BY <1>3 DEF Deliver
  <1>4. ASSUME NEW q \in Runs,
               \/ Exhaust(q) \/ ReadForCancel(q) \/ RequestCancel(q) \/ SetCancelKey(q)
               \/ Expire(q)
        PROVE  UNCHANGED spawning
    BY <1>4 DEF Exhaust, ReadForCancel, RequestCancel, SetCancelKey, Expire
  <1>5. ASSUME NEW e \in Execs, Execute(e) PROVE UNCHANGED spawning
    BY <1>5 DEF Execute, Acquire, Skip, FirstChunk, SeeCancel, EndStream, SaveOutput,
       RetryableError, PermanentError, Release, Retry, AwaitHeartbeat, AwaitRaises, Finalize,
       Publish, ReadChildren, Cascade
  <1>6. ASSUME NEW e \in Execs, Heartbeat(e) PROVE UNCHANGED spawning
    BY <1>6 DEF Heartbeat, Wake, Renew
  <1>7. ASSUME Sweep \/ Reconcile \/ UNCHANGED vars PROVE UNCHANGED spawning
    BY <1>7 DEF Sweep, Reconcile, vars
  <1>8. ~Fault
    BY DEF Fault, Crash, Timeout, Blip, BlipHeartbeat, LoseCancelKey, CrashSweep
  <1>9. ASSUME UNCHANGED spawning PROVE Goal
    BY <1>9
  <1>. HIDE DEF Goal
  <1>. QED
    BY <1>1, <1>2, <1>3, <1>4, <1>5, <1>6, <1>7, <1>8, <1>9 DEF Next

\* A run that was not enqueued stays so until its tool call enqueues it.
LEMMA UnsentStays ==
    ASSUME TypeInv, JobInv, Faults = {}, [Next]_vars, NEW r \in Runs, Unsent(r)
    PROVE  Unsent(r)' \/ EnqueueSpawned(r)
  <1>1. ASSUME NEW e \in Execs, RunOf(e) = Parent[r], BrokenOff(e) PROVE Unsent(r)'
    <2>1. TryMove(e) /\ pc[e] # "unused"
      BY <1>1, TryMoves DEF BrokenOff
    <2>2. BrokenOff(e)' /\ RunOf(e)' = Parent[r]
      BY <1>1, <2>1 DEF TryMove, RunOf
    <2>. QED
      BY <2>2 DEF Unsent
  <1>2. CASE spawning[r] # None
    <2>1. CASE spawning'[r] = spawning[r]
      BY <1>2, <2>1 DEF Unsent
    <2>2. ASSUME BreakSpawn(r) PROVE Unsent(r)'
      <3>1. /\ spawning[r] \in Execs /\ RunOf(spawning[r]) = Parent[r]
            /\ BrokenOff(spawning[r])
        BY <1>2, <2>2 DEF BreakSpawn, JobInv, SpawningOK
      <3>. QED
        BY <1>1, <3>1
    <2>3. ASSUME NEW e \in Execs, Spawn(e, r) PROVE Unsent(r)'
      <3>1. spawning'[r] = e /\ e # None
        BY <2>3, ConstantsAssumption DEF Spawn, TypeInv, TypeOK
      <3>. QED
        BY <3>1 DEF Unsent
    <2>. QED
      BY <2>1, <2>2, <2>3, SpawnMoves
  <1>. QED
    BY <1>1, <1>2 DEF Unsent

LEMMA JobStep ==
    ASSUME TypeInv, JobInv, Faults = {}, [Next]_vars, NEW r \in Runs
    PROVE  JobOK(r)'
  <1>. USE DEF TypeInv, TypeOK, Goto, FinishBody, Pcs, InProgress, Ended, dbVars, cancelVars, jobVars, execVars
  <1>0. JobOK(r) /\ run[r] \in RunRows /\ job[r] \in JobRows
    BY DEF JobInv
  <1>a. ASSUME spawning'[r] = spawning[r] PROVE Unsent(r) => Unsent(r)'
    <2>1. ~EnqueueSpawned(r)
      BY <1>a DEF EnqueueSpawned
    <2>. QED
      BY <2>1, UnsentStays
  <1>1. ASSUME NEW e \in Execs, pc[e] \in InProgress, pc'[e] \in InProgress,
               \A f \in Execs \ {e} : pc'[f] = pc[f],
               UNCHANGED <<job, spawning, task>>,
               run'[r] = run[r] \/ ~Waiting(r)',
               pc[e] \in {"picked", "retrying"} => RunOf(e) # r \/ ~Waiting(r)'
        PROVE  JobOK(r)'
    <2>1. Holders(r)' = Holders(r)
      BY <1>1 DEF Holders, RunOf
    <2>2. ASSUME NEW f \in Holders(r), Waiting(r)' PROVE pc'[f] \in {"picked", "retrying"}
      BY <1>0, <1>1, <2>2 DEF JobOK, Holders, Waiting
    <2>. QED
      BY <1>0, <1>1, <2>1, <2>2, <1>a, HoldersStay DEF Waiting
  <1>2. ASSUME NEW e \in Execs, pc[e] \in InProgress, pc'[e] = "returned",
               \A f \in Execs \ {e} : pc'[f] = pc[f], UNCHANGED <<spawning, task>>,
               run'[r] = run[r] \/ ~Waiting(r)',
               \/ DropJob(RunOf(e)) /\ ~Waiting(RunOf(e))
               \/ RequeueJob(RunOf(e)) /\ ~IsLastTry(e)
        PROVE  JobOK(r)'
    <2>1. CASE RunOf(e) = r
      <3>1. e \in Holders(r) /\ Holders(r)' = Holders(r) \ {e}
        BY <1>2, <2>1 DEF Holders, RunOf
      <3>. QED
        BY <1>0, <1>2, <2>1, <3>1, HolderLeaves
    <2>2. CASE RunOf(e) # r
      <3>1. RunOf(e) \in Runs
        BY <1>2 DEF Assigned
      <3>2. job'[r] = job[r] /\ Holders(r)' = Holders(r)
        BY <1>2, <2>2, <3>1 DEF DropJob, RequeueJob, Holders, RunOf
      <3>3. \A f \in Holders(r) : pc'[f] = pc[f]
        BY <1>2, <2>2 DEF Holders
      <3>. QED
        BY <1>0, <1>2, <3>2, <3>3, <1>a, HoldersStay DEF JobOK, Waiting
    <2>. QED
      BY <2>1, <2>2
  <1>3. ASSUME UNCHANGED <<job, spawning, task, pc>>, run'[r].status = run[r].status \/ ~Waiting(r)'
        PROVE  JobOK(r)'
    <2>1. Holders(r)' = Holders(r)
      BY <1>3 DEF Holders, RunOf
    <2>. QED
      BY <1>0, <1>3, <2>1, <1>a, HoldersStay DEF JobOK, Waiting
  <1>4. ASSUME NEW q \in Runs, NEW e \in Execs, Deliver(q, e) PROVE JobOK(r)'
    <2>1. e \notin Holders(r) /\ \A f \in Execs \ {e} : task'[f] = task[f] /\ pc'[f] = pc[f]
      BY <1>4 DEF Deliver, Holders
    <2>2. RunOf(e)' = q /\ pc'[e] = "picked" /\ task'[e].try = job[q].tries + 1
      BY <1>4 DEF Deliver, RunOf
    <2>3. CASE q = r
      <3>1. job[r].state = "queued" /\ Holders(r) = {}
        BY <1>0, <1>4, <2>3 DEF Deliver, Deliverable, Orphaned, JobOK
      <3>2. Holders(r)' = {e}
        BY <2>1, <2>2, <2>3, <3>1 DEF Holders, RunOf
      <3>3. job'[r] = [state |-> "in_progress", tries |-> job[r].tries + 1] /\ run' = run
        BY <1>4, <2>3 DEF Deliver
      <3>4. run[r].status # "absent" /\ spawning'[r] = None
        BY <1>0, <1>4, <3>1 DEF Deliver, JobOK
      <3>. QED
        BY <1>0, <2>2, <2>3, <3>1, <3>2, <3>3, <3>4 DEF JobOK
    <2>4. CASE q # r
      <3>1. Holders(r)' = Holders(r)
        BY <2>1, <2>2, <2>4 DEF Holders, RunOf
      <3>2. job'[r] = job[r] /\ run' = run /\ spawning'[r] = spawning[r]
        BY <1>4, <2>4 DEF Deliver
      <3>3. \A f \in Holders(r) : task'[f] = task[f] /\ pc'[f] = pc[f]
        BY <2>1 DEF Holders
      <3>. QED
        BY <1>0, <3>1, <3>2, <3>3, <1>a, HoldersStay DEF JobOK, Waiting
    <2>. QED
      BY <2>3, <2>4
  <1>5. ASSUME NEW q \in Runs, Exhaust(q) PROVE JobOK(r)'
    <2>1. Holders(r)' = Holders(r) /\ run' = run /\ UNCHANGED <<spawning, task, pc>>
      BY <1>5 DEF Exhaust, Holders, RunOf
    <2>2. CASE q = r
      <3>1. job[r].state = "queued" /\ ~TriesLeft(r)
        BY <1>0, <1>5, <2>2 DEF Exhaust, Deliverable, Orphaned, JobOK
      <3>2. job'[r].state = "gone"
        BY <1>0, <1>5, <2>2 DEF Exhaust, DropJob, JobRows
      <3>. QED
        BY <1>0, <1>a, <2>1, <3>1, <3>2 DEF JobOK
    <2>3. CASE q # r
      <3>1. job'[r] = job[r]
        BY <1>5, <2>3 DEF Exhaust, DropJob
      <3>. QED
        BY <1>0, <2>1, <3>1, <1>a, HoldersStay DEF JobOK, Waiting
    <2>. QED
      BY <2>2, <2>3
  <1>6. ASSUME NEW e \in Execs, NEW q \in Runs, Spawn(e, q) PROVE JobOK(r)'
    <2>1. Holders(r)' = Holders(r) /\ UNCHANGED <<job, task, pc>>
      BY <1>6 DEF Spawn, Holders, RunOf
    <2>2. CASE q = r
      <3>1. run[r].status = "absent" /\ run'[r].status = "pending"
        BY <1>0, <1>6, <2>2 DEF Spawn, RunRows
      <3>2. job[r] = [state |-> "gone", tries |-> 0] /\ Holders(r) = {}
        BY <1>0, <3>1 DEF JobOK
      <3>3. Unsent(r)'
        BY <1>6, <2>2, ConstantsAssumption DEF Spawn, Unsent
      <3>. QED
        BY <2>1, <3>1, <3>2, <3>3 DEF JobOK
    <2>3. CASE q # r
      <3>1. run'[r] = run[r] /\ spawning'[r] = spawning[r]
        BY <1>6, <2>3 DEF Spawn
      <3>. QED
        BY <1>0, <2>1, <3>1, <1>a, HoldersStay DEF JobOK, Waiting
    <2>. QED
      BY <2>2, <2>3
  <1>7. ASSUME NEW e \in Execs,
               \/ FirstChunk(e) \/ SeeCancel(e) \/ EndStream(e) \/ SaveOutput(e)
               \/ RetryableError(e) \/ PermanentError(e) \/ AwaitHeartbeat(e) \/ Publish(e)
               \/ ReadChildren(e)
        PROVE  JobOK(r)'
    <2>1. /\ pc[e] \in InProgress \ {"picked", "retrying"} /\ pc'[e] \in InProgress
          /\ \A f \in Execs \ {e} : pc'[f] = pc[f]
          /\ UNCHANGED <<job, spawning, task, run>>
      BY <1>7 DEF FirstChunk, SeeCancel, EndStream, SaveOutput, RetryableError, PermanentError,
                  InBody, AwaitHeartbeat, Publish, ReadChildren
    <2>. QED
      BY <1>1, <2>1
  <1>8. ASSUME NEW e \in Execs, Acquire(e) PROVE JobOK(r)'
    <2>1. /\ pc[e] = "picked" /\ pc'[e] = "started"
          /\ \A f \in Execs \ {e} : pc'[f] = pc[f]
          /\ UNCHANGED <<job, spawning, task>> /\ RunOf(e) \in Runs
      BY <1>8 DEF Acquire, Assigned
    <2>2. IF RunOf(e) = r THEN run'[r].status = "running" ELSE run'[r] = run[r]
      BY <1>8, <2>1 DEF Acquire
    <2>. QED
      BY <1>1, <2>1, <2>2 DEF Waiting
  <1>9. ASSUME NEW e \in Execs, Release(e) PROVE JobOK(r)'
    <2>1. /\ pc[e] = "releasing" /\ pc'[e] = "retrying"
          /\ \A f \in Execs \ {e} : pc'[f] = pc[f]
          /\ UNCHANGED <<job, spawning, task>> /\ RunOf(e) \in Runs
      BY <1>9 DEF Release, Assigned
    <2>2. CASE run'[r] = run[r]
      BY <1>1, <2>1, <2>2
    <2>3. CASE run'[r] # run[r]
      <3>1. r = RunOf(e) /\ run'[r].status = "pending"
        BY <1>9, <2>1, <2>3 DEF Release
      <3>2. Holders(r)' = Holders(r) /\ e \in Holders(r)
        BY <2>1, <3>1 DEF Holders, RunOf
      <3>3. \A f \in Holders(r) : f = e
        BY <1>0, <3>2 DEF JobOK
      <3>. QED
        BY <1>0, <2>1, <3>1, <3>2, <3>3, <1>a, HoldersStay
    <2>. QED
      BY <2>2, <2>3
  <1>10. ASSUME NEW e \in Execs, Finalize(e), Owns(e) PROVE JobOK(r)'
    <2>1. /\ pc[e] = "finalizing" /\ pc'[e] = "publishing"
          /\ \A f \in Execs \ {e} : pc'[f] = pc[f]
          /\ UNCHANGED <<job, spawning, task>> /\ RunOf(e) \in Runs /\ result[e] \in Terminal
      BY <1>10 DEF Finalize, Assigned
    <2>2. IF RunOf(e) = r THEN run'[r].status = result[e] ELSE run'[r] = run[r]
      BY <1>0, <1>10, <2>1 DEF Finalize, RunRows
    <2>. QED
      BY <1>1, <2>1, <2>2 DEF Waiting, Terminal
  <1>11. ASSUME NEW e \in Execs, Finalize(e), ~Owns(e) PROVE JobOK(r)'
    <2>1. /\ pc[e] = "finalizing" /\ pc'[e] = "returned"
          /\ \A f \in Execs \ {e} : pc'[f] = pc[f]
          /\ UNCHANGED <<spawning, task, run>> /\ DropJob(RunOf(e)) /\ RunOf(e) \in Runs
      BY <1>11 DEF Finalize, Assigned
    <2>2. ~Waiting(RunOf(e))
      BY <2>1 DEF JobInv, JobOK, Holders
    <2>. QED
      BY <1>2, <2>1, <2>2
  <1>12. ASSUME NEW e \in Execs, Skip(e) PROVE JobOK(r)'
    <2>1. /\ pc[e] = "picked" /\ pc'[e] = "returned"
          /\ \A f \in Execs \ {e} : pc'[f] = pc[f]
          /\ UNCHANGED <<spawning, task, run>> /\ DropJob(RunOf(e)) /\ RunOf(e) \in Runs
      BY <1>12 DEF Skip, Assigned
    <2>2. e \in Holders(RunOf(e))
      BY <2>1 DEF Holders
    <2>3. ~Waiting(RunOf(e))
      BY SMTT(30), <1>12, <2>1, <2>2 DEF Skip, Acquirable, JobInv, JobOK, Waiting
    <2>. QED
      BY <1>2, <2>1, <2>3
  <1>13. ASSUME NEW e \in Execs, Retry(e) PROVE JobOK(r)'
    <2>1. /\ pc[e] = "retrying" /\ pc'[e] = "returned"
          /\ \A f \in Execs \ {e} : pc'[f] = pc[f]
          /\ UNCHANGED <<spawning, task, run>> /\ RequeueJob(RunOf(e))
      BY <1>13 DEF Retry
    <2>2. ~IsLastTry(e)
      BY <2>1 DEF JobInv
    <2>. QED
      BY <1>2, <2>1, <2>2
  <1>14. ASSUME NEW e \in Execs PROVE ~AwaitRaises(e)
    BY DEF AwaitRaises, JobInv
  <1>15. ASSUME NEW e \in Execs, Cascade(e) PROVE JobOK(r)'
    <2>1. /\ pc[e] = "cancelling" /\ pc'[e] = "returned"
          /\ \A f \in Execs \ {e} : pc'[f] = pc[f]
          /\ UNCHANGED <<spawning, task>> /\ DropJob(RunOf(e)) /\ RunOf(e) \in Runs
      BY <1>15 DEF Cascade, Assigned
    <2>2. ~Waiting(RunOf(e))
      BY <2>1 DEF JobInv, JobOK, Holders
    <2>3. run'[r] = run[r] \/ ~Waiting(r)'
      BY <1>0, <1>15 DEF Cascade, CancelRequested, RunRows, Waiting
    <2>. QED
      BY <1>2, <2>1, <2>2, <2>3
  <1>16. ASSUME NEW e \in Execs, Wake(e) \/ Renew(e) PROVE JobOK(r)'
    <2>1. UNCHANGED <<job, spawning, task, pc>>
      BY <1>16 DEF Wake, Renew
    <2>2. run'[r].status = run[r].status
      BY <1>16, RenewKeeps DEF Wake
    <2>. QED
      BY <1>3, <2>1, <2>2
  <1>17. ASSUME NEW q \in Runs,
                ReadForCancel(q) \/ RequestCancel(q) \/ SetCancelKey(q) \/ Expire(q)
         PROVE  JobOK(r)'
    <2>1. UNCHANGED <<job, spawning, task, pc>>
      BY <1>17 DEF ReadForCancel, RequestCancel, SetCancelKey, Expire
    <2>2. run'[r].status = run[r].status \/ ~Waiting(r)'
      <3>1. CASE RequestCancel(q) /\ q = r
        <4>1. run'[r].status = "cancel_requested"
          BY <1>0, <3>1 DEF RequestCancel, CancelRequested, RunRows
        <4>. QED
          BY <4>1 DEF Waiting
      <3>2. CASE Expire(q) /\ q = r
        BY <1>0, <3>2 DEF Expire, RunRows
      <3>3. CASE ReadForCancel(q) \/ SetCancelKey(q) \/ q # r
        BY <1>17, <3>3 DEF ReadForCancel, RequestCancel, CancelRequested, SetCancelKey, Expire
      <3>. QED
        BY <1>17, <3>1, <3>2, <3>3
    <2>. QED
      BY <1>3, <2>1, <2>2
  <1>18. CASE Sweep \/ Reconcile \/ UNCHANGED vars
    <2>1. UNCHANGED <<job, spawning, task, pc>>
      BY <1>18 DEF Sweep, Reconcile, vars
    <2>2. run'[r].status = run[r].status \/ ~Waiting(r)'
      <3>1. ASSUME Reconcile PROVE run'[r] = run[r] \/ run'[r].status = "failed"
        BY <1>0, <3>1 DEF Reconcile, RunRows
      <3>2. ASSUME Sweep \/ UNCHANGED vars PROVE run' = run
        BY <3>2 DEF Sweep, vars
      <3>. QED
        BY <1>18, <3>1, <3>2 DEF Waiting
    <2>. QED
      BY <1>3, <2>1, <2>2
  <1>19. ~Fault
    <2>1. /\ \A e \in Execs : ~Crash(e) /\ ~Timeout(e) /\ ~Blip(e) /\ ~BlipHeartbeat(e)
          /\ \A q \in Runs : ~LoseCancelKey(q)
          /\ ~CrashSweep
      BY DEF Crash, Timeout, Blip, BlipHeartbeat, LoseCancelKey, CrashSweep
    <2>. QED
      BY <2>1 DEF Fault
  <1>20. ASSUME NEW q \in Runs, EnqueueSpawned(q) PROVE JobOK(r)'
    <2>1. Holders(r)' = Holders(r) /\ UNCHANGED <<run, task, pc>>
      BY <1>20 DEF EnqueueSpawned, Holders, RunOf
    <2>2. CASE q = r
      <3>1. job[r] = [state |-> "gone", tries |-> 0] /\ Holders(r) = {}
        BY <1>0, <1>20, <2>2 DEF EnqueueSpawned, JobOK
      <3>2. job'[r] = [state |-> "queued", tries |-> 0] /\ spawning'[r] = None
        BY <1>20, <2>2, <3>1 DEF EnqueueSpawned
      <3>3. run[r].status # "absent"
        BY <1>20, <2>2 DEF EnqueueSpawned, JobInv, SpawningOK
      <3>. QED
        BY <2>1, <3>1, <3>2, <3>3, ConstantsAssumption DEF JobOK, TriesLeft
    <2>3. CASE q # r
      <3>1. job'[r] = job[r] /\ spawning'[r] = spawning[r]
        BY <1>20, <2>3 DEF EnqueueSpawned
      <3>. QED
        BY <1>0, <2>1, <3>1, <1>a, HoldersStay DEF JobOK, Waiting
    <2>. QED
      BY <2>2, <2>3
  <1>21. ASSUME NEW q \in Runs, BreakSpawn(q) PROVE JobOK(r)'
    <2>1. Holders(r)' = Holders(r) /\ UNCHANGED <<run, job, task, pc>>
      BY <1>21 DEF BreakSpawn, Holders, RunOf
    <2>2. spawning'[r] \in {spawning[r], None}
      BY <1>21 DEF BreakSpawn
    <2>3. Unsent(r) => Unsent(r)'
      <3>1. EnqueueSpawned(r) => job'[r].state = "queued" /\ job[r].state = "gone"
        BY <1>0 DEF EnqueueSpawned, JobOK
      <3>. QED
        BY <2>1, <3>1, UnsentStays
    <2>. QED
      BY <1>0, <2>1, <2>2, <2>3, HoldersStay DEF JobOK, Waiting
  <1>. QED
    BY <1>4, <1>5, <1>6, <1>7, <1>8, <1>9, <1>10, <1>11, <1>12, <1>13, <1>14, <1>15, <1>16, <1>17,
       <1>18, <1>19, <1>20, <1>21 DEF Next, Execute, Heartbeat

LEMMA SpawningStep ==
    ASSUME TypeInv, JobInv, Faults = {}, [Next]_vars, NEW r \in Runs
    PROVE  SpawningOK(r)'
  <1>. SUFFICES ASSUME spawning'[r] # None PROVE SpawningOK(r)'
    BY DEF SpawningOK
  <1>1. ASSUME spawning'[r] = spawning[r] PROVE SpawningOK(r)'
    <2>1. /\ spawning[r] \in Execs /\ RunOf(spawning[r]) = Parent[r] /\ run[r].status # "absent"
          /\ pc[spawning[r]] = "streaming" \/ BrokenOff(spawning[r])
      BY <1>1 DEF JobInv, SpawningOK
    <2>2. PICK e \in Execs : e = spawning[r]
      BY <2>1
    <2>3. TryMove(e)
      BY TryMoves
    <2>4. ~EndStream(e)
      BY <2>2 DEF EndStream
    <2>5. pc[e] = "streaming" => result[e] # "completed"
      BY DEF JobInv
    <2>6. pc'[e] = "streaming" \/ BrokenOff(e)'
      BY <2>1, <2>2, <2>3, <2>4, <2>5 DEF TryMove
    <2>7. RunOf(e)' = RunOf(e)
      BY <2>1, <2>2, <2>3 DEF TryMove, RunOf, BrokenOff
    <2>8. run'[r].status # "absent"
      <3>1. RowMove(r)
        BY RowMoves
      <3>2. CASE run'[r] = [run[r] EXCEPT !.status = "cancel_requested"]
        BY <3>2 DEF TypeInv, TypeOK, RunRows
      <3>. QED
        BY <2>1, <3>1, <3>2 DEF RowMove, Taken, GivenBack, Settled, Terminal
    <2>9. spawning'[r] = e
      BY <1>1, <2>2
    <2>. QED
      BY <2>1, <2>2, <2>6, <2>7, <2>8, <2>9 DEF SpawningOK, BrokenOff, RunOf
  <1>2. ASSUME NEW e \in Execs, Spawn(e, r) PROVE SpawningOK(r)'
    <2>1. spawning'[r] = e /\ run'[r].status = "pending"
      BY <1>2 DEF Spawn, TypeInv, TypeOK, RunRows
    <2>2. pc[e] = "streaming" /\ pc'[e] = pc[e] /\ RunOf(e)' = RunOf(e) /\ RunOf(e) = Parent[r]
      BY <1>2 DEF Spawn, execVars, RunOf
    <2>. QED
      BY <2>1, <2>2 DEF SpawningOK, BrokenOff, RunOf
  <1>3. ~EnqueueSpawned(r) /\ ~BreakSpawn(r)
    BY DEF EnqueueSpawned, BreakSpawn, TypeInv, TypeOK
  <1>. QED
    BY <1>1, <1>2, <1>3, SpawnMoves

LEMMA JobInvStep ==
    ASSUME TypeInv, JobInv, Faults = {}, [Next]_vars
    PROVE  JobInv'
  <1>1. ASSUME NEW e \in Execs
        PROVE  /\ beat'[e] # "raised"
               /\ pc'[e] \in {"releasing", "retrying"} => ~IsLastTry(e)'
               /\ pc'[e] \in {"unused", "picked", "started", "streaming"} =>
                     result'[e] # "completed"
    <2>1. TryMove(e) /\ ExecMove(e)
      BY <1>1, TryMoves, ExecMoves
    <2>. QED
      BY <1>1, <2>1 DEF TryMove, ExecMove, JobInv, IsLastTry
  <1>. QED
    BY <1>1, JobStep, SpawningStep DEF JobInv

LEMMA JobInvInit == ASSUME Init PROVE JobInv
  <1>1. \A r \in Runs : Holders(r) = {}
    BY DEF Init, Holders, InProgress
  <1>. QED
    BY <1>1, ConstantsAssumption DEF Init, JobInv, JobOK, SpawningOK, Waiting, TriesLeft

\* While nothing fails, a run that waits for a worker has a job that will be
\* delivered: a retry keeps it, and a job is dropped only when its run no longer
\* waits.  The exception is a subagent run between its commit and its enqueue, or
\* whose tool call was broken off there.  With a fault this is false: the sweep
\* never looks at pending runs.
THEOREM PendingHasJobHolds ==
    ASSUME Faults = {}
    PROVE  Spec => []PendingHasJob
  <1>1. TypeInv /\ JobInv /\ [Next]_vars => TypeInv' /\ JobInv'
    BY TypeStep, JobInvStep
  <1>2. JobInv => PendingHasJob
    BY DEF JobInv, JobOK, PendingHasJob, Unsent
  <1>. QED
    BY <1>1, <1>2, TypeInit, JobInvInit, PTL DEF Spec

-----------------------------------------------------------------------------
(***************************************************************************)
(* RunLifecycle implements RunLedger: the initial states map to initial    *)
(* states, and every step of every worker, sweep, client and fault maps to *)
(* a step of the ledger or leaves the ledger unchanged.                    *)
(***************************************************************************)
\* What the mapping needs beyond types: a run without an owner says so, the
\* sweep has only read rows that exist, and a token that has not taken its run
\* is in no attempt row.
LedgerInv ==
    /\ Unowned
    /\ SweptExist
    /\ \A e \in Execs : pc[e] \in {"unused", "picked"} => \A r \in Runs : e \notin TakersOf(r)

Untaken == \A q \in Runs : TakersOf(q)' = TakersOf(q)

\* closing an attempt keeps its worker
LEMMA CloseKept ==
    ASSUME TypeInv, NEW r \in Runs, NEW e \in Execs, NEW o \in Outcomes,
           attempts' = CloseAttempt(r, e, o)
    PROVE  Untaken
  <1>0. attempts \in [Runs -> Seq(AttemptRows)]
    BY DEF TypeInv, TypeOK
  <1>1. \A q \in Runs : \A i \in DOMAIN attempts[q] : attempts[q][i] \in AttemptRows
    BY <1>0
  <1>. DEFINE new == CloseAttempt(r, e, o)
  <1>2. /\ \A q \in Runs : DOMAIN attempts'[q] = DOMAIN attempts[q]
        /\ \A q \in Runs : \A i \in DOMAIN attempts[q] :
              attempts'[q][i] =
                IF q = r /\ attempts[q][i].worker = e /\ attempts[q][i].outcome = "open"
                THEN [attempts[q][i] EXCEPT !.outcome = o] ELSE attempts[q][i]
    <2>1. /\ \A q \in Runs : DOMAIN new[q] = DOMAIN attempts[q]
          /\ \A q \in Runs : \A i \in DOMAIN attempts[q] :
                new[q][i] =
                  IF q = r /\ attempts[q][i].worker = e /\ attempts[q][i].outcome = "open"
                  THEN [attempts[q][i] EXCEPT !.outcome = o] ELSE attempts[q][i]
      BY <1>0, CloseAttemptRows
    <2>. HIDE DEF new
    <2>2. attempts' = new
      BY DEF new
    <2>. QED
      BY <2>1, <2>2
  <1>3. \A q \in Runs : \A i \in DOMAIN attempts[q] : attempts'[q][i].worker = attempts[q][i].worker
    BY <1>1, <1>2 DEF AttemptRows
  <1>. QED
    BY <1>2, <1>3 DEF Untaken, TakersOf

\* No step but the taking of a run changes who has taken it.
LEMMA TakersKept ==
    ASSUME TypeInv,
           \/ UNCHANGED attempts
           \/ \E e \in Execs : Release(e) \/ Finalize(e) \/ Cascade(e) \/ Renew(e)
           \/ \E e \in Execs, r \in Runs : Spawn(e, r)
           \/ \E r \in Runs : RequestCancel(r) \/ Expire(r)
           \/ Reconcile
    PROVE  Untaken
  <1>0. /\ attempts \in [Runs -> Seq(AttemptRows)]
        /\ swept \in SUBSET Runs
        /\ \A r \in Runs : \A i \in DOMAIN attempts[r] : attempts[r][i] \in AttemptRows
    <2>1. attempts \in [Runs -> Seq(AttemptRows)] /\ swept \in SUBSET Runs
      BY DEF TypeInv, TypeOK
    <2>. QED
      BY <2>1
  <1>1. ASSUME UNCHANGED attempts PROVE Untaken
    BY <1>1 DEF Untaken, TakersOf
  <1>4. ASSUME NEW e \in Execs, Release(e) PROVE Untaken
    <2>1. RunOf(e) \in Runs
      BY <1>4 DEF Release, TypeInv, Assigned
    <2>. QED
      BY <1>1, <1>4, <2>1, CloseKept DEF Release, Outcomes
  <1>5. ASSUME NEW e \in Execs, Finalize(e) PROVE Untaken
    <2>1. RunOf(e) \in Runs /\ result[e] \in Outcomes
      BY <1>5 DEF Finalize, TypeInv, TypeOK, Assigned, Outcomes
    <2>. QED
      BY <1>1, <1>5, <2>1, CloseKept DEF Finalize
  <1>6. ASSUME Reconcile PROVE Untaken
    <2>1. /\ \A q \in Runs : DOMAIN attempts'[q] = DOMAIN attempts[q]
          /\ \A q \in Runs : \A i \in DOMAIN attempts[q] :
                attempts'[q][i] =
                  IF q \in swept /\ attempts[q][i].outcome = "open"
                  THEN [attempts[q][i] EXCEPT !.outcome = "lease_expired"]
                  ELSE attempts[q][i]
      BY <1>0, <1>6, CloseExpiredRows DEF Reconcile
    <2>2. \A q \in Runs : \A i \in DOMAIN attempts[q] : attempts'[q][i].worker = attempts[q][i].worker
      BY <1>0, <2>1 DEF AttemptRows
    <2>. QED
      BY <2>1, <2>2 DEF Untaken, TakersOf
  <1>7. ASSUME \/ \E e \in Execs : Cascade(e) \/ Renew(e)
               \/ \E e \in Execs, r \in Runs : Spawn(e, r)
               \/ \E r \in Runs : RequestCancel(r) \/ Expire(r)
        PROVE  UNCHANGED attempts
    BY <1>7 DEF Cascade, Renew, Spawn, RequestCancel, Expire
  <1>. QED
    BY <1>1, <1>4, <1>5, <1>6, <1>7

\* The execution that takes a run joins its takers, and those of no other run.
LEMMA TakersTaken ==
    ASSUME TypeInv, NEW e \in Execs, NEW r \in Runs, Acquire(e), r = RunOf(e)
    PROVE  /\ TakersOf(r)' = TakersOf(r) \cup {e}
           /\ \A q \in Runs \ {r} : TakersOf(q)' = TakersOf(q)
  <1>1. attempts \in [Runs -> Seq(AttemptRows)]
    BY DEF TypeInv, TypeOK
  <1>2. /\ attempts' \in [Runs -> Seq(AttemptRows)]
        /\ \A q \in Runs \ {r} : attempts'[q] = attempts[q]
        /\ Len(attempts'[r]) = Len(attempts[r]) + 1
        /\ attempts'[r][Len(attempts'[r])] = [worker |-> e, outcome |-> "open"]
        /\ \A i \in DOMAIN attempts[r] : i \in DOMAIN attempts'[r] /\ attempts'[r][i] = attempts[r][i]
    BY <1>1, OpenAttemptRows DEF Acquire
  <1>3. DOMAIN attempts'[r] = DOMAIN attempts[r] \cup {Len(attempts'[r])}
    <2>1. /\ DOMAIN attempts'[r] = 1..Len(attempts'[r])
          /\ DOMAIN attempts[r] = 1..Len(attempts[r]) /\ Len(attempts[r]) \in Nat
      BY <1>1, <1>2
    <2>. QED
      BY <1>2, <2>1
  <1>4. TakersOf(r)' = TakersOf(r) \cup {e}
    BY <1>2, <1>3 DEF TakersOf
  <1>5. \A q \in Runs \ {r} : TakersOf(q)' = TakersOf(q)
    BY <1>2 DEF TakersOf
  <1>. QED
    BY <1>4, <1>5

LEMMA TakersStep ==
    ASSUME TypeInv, [Next]_vars
    PROVE  \/ Untaken
           \/ \E e \in Execs, r \in Runs :
                /\ Acquire(e) /\ r = RunOf(e)
                /\ TakersOf(r)' = TakersOf(r) \cup {e}
                /\ \A q \in Runs \ {r} : TakersOf(q)' = TakersOf(q)
  <1>1. ASSUME NEW e \in Execs, Acquire(e) PROVE RunOf(e) \in Runs
    BY <1>1 DEF Acquire, TypeInv, Assigned
  <1>. QED
    BY RowSteps, TakersKept, TakersTaken, <1>1

-----------------------------------------------------------------------------
(***************************************************************************)
(* The invariant of the mapping is inductive over TypeInv.                 *)
(***************************************************************************)
LEMMA LedgerInvInit == ASSUME Init PROVE LedgerInv
  BY DEF Init, LedgerInv, Unowned, SweptExist, TakersOf

LEMMA LedgerInvStep ==
    ASSUME TypeInv, LedgerInv, [Next]_vars
    PROVE  LedgerInv'
  <1>1. Unowned' /\ SweptExist'
    BY UnownedStep, SweptExistStep DEF LedgerInv
  <1>2. ASSUME NEW e \in Execs, pc'[e] \in {"unused", "picked"}, NEW q \in Runs
        PROVE  e \notin TakersOf(q)'
    <2>0. ExecMove(e)
      BY ExecMoves
    <2>1. pc[e] \in {"unused", "picked"} /\ ~Acquire(e)
      BY <1>2, <2>0 DEF ExecMove, Acquire, Goto, TypeInv, TypeOK
    <2>2. e \notin TakersOf(q)
      BY <2>1 DEF LedgerInv
    <2>. QED
      BY <2>1, <2>2, TakersStep DEF Untaken
  <1>. QED
    BY <1>1, <1>2 DEF LedgerInv

-----------------------------------------------------------------------------
(***************************************************************************)
(* Every step maps to a step of the ledger or a stutter.                   *)
(***************************************************************************)

\* what the ledger sees of a run does not change
Same(q) ==
    /\ PhaseOf(q)' = PhaseOf(q)
    /\ run'[q].worker = run[q].worker
    /\ TakersOf(q)' = TakersOf(q)

LEMMA Stutter ==
    ASSUME \A q \in Runs : Same(q)
    PROVE  UNCHANGED Ledger!ledgerVars
  BY DEF Same, Ledger!ledgerVars

\* one run ends, or had ended before
LEMMA EndOne ==
    ASSUME NEW q \in Runs, Untaken,
           \A r \in Runs \ {q} : Same(r),
           PhaseOf(q)' = "ended", run'[q].worker = run[q].worker,
           PhaseOf(q) \in {"held", "ended"}
    PROVE  [Ledger!Next]_(Ledger!ledgerVars)
  <1>1. CASE PhaseOf(q) = "ended"
    BY <1>1, Stutter DEF Same, Untaken
  <1>2. CASE PhaseOf(q) = "held"
    <2>1. Ledger!End({q})
      BY <1>2 DEF Ledger!End, Same, Untaken
    <2>. QED
      BY <2>1 DEF Ledger!Next
  <1>. QED
    BY <1>1, <1>2

LEMMA LedgerStep ==
    ASSUME TypeInv, LedgerInv, Custody, [Next]_vars
    PROVE  [Ledger!Next]_(Ledger!ledgerVars)
  <1>. USE ConstantsAssumption
  <1>0. /\ run \in [Runs -> RunRows] /\ swept \in SUBSET Runs
        /\ \A q \in Runs : run[q] \in RunRows /\ None \notin Execs
    <2>1. run \in [Runs -> RunRows] /\ swept \in SUBSET Runs
      BY DEF TypeInv, TypeOK
    <2>. QED
      BY <2>1
  <1>1. ASSUME NEW e \in Execs, Acquire(e) PROVE Ledger!Next
    <2>1. PICK q \in Runs : q = RunOf(e)
      BY <1>1 DEF Acquire, TypeInv, Assigned
    <2>2. /\ run' = [run EXCEPT ![q] = [status |-> "running", worker |-> e, lease |-> "live"]]
          /\ run[q].status \in {"pending", "cancel_requested"}
          /\ pc[e] = "picked" /\ pc'[e] = "started"
      BY <1>1, <2>1 DEF Acquire, Acquirable, Goto, TypeInv, TypeOK
    <2>3. /\ TakersOf(q)' = TakersOf(q) \cup {e}
          /\ \A r \in Runs \ {q} : TakersOf(r)' = TakersOf(r)
      BY <1>1, <2>1, TakersTaken
    <2>4. \A r \in Runs : e \notin TakersOf(r)
      BY <2>2 DEF LedgerInv, Unowned, SweptExist
    <2>5. \A r \in Runs \ {q} : Same(r)
      BY <1>0, <2>2, <2>3 DEF Same, PhaseOf
    <2>6. PhaseOf(q) = "waiting" \/ (PhaseOf(q) = "held" /\ q \in Runs \ Undisturbed)
      BY <1>0, <2>2 DEF PhaseOf, LedgerInv, Unowned, Custody, Terminal, RunRows
    <2>7. PhaseOf(q)' = "held" /\ run'[q].worker = e
      BY <1>0, <2>2 DEF PhaseOf, Terminal
    <2>8. Ledger!Take(q, e)
      BY <2>3, <2>4, <2>5, <2>6, <2>7 DEF Ledger!Take, Same
    <2>. QED
      BY <2>8 DEF Ledger!Next
  <1>2. ASSUME NEW e \in Execs, Release(e) PROVE [Ledger!Next]_(Ledger!ledgerVars)
    <2>1. Untaken
      BY <1>2, TakersKept
    <2>2. PICK q \in Runs : q = RunOf(e)
      BY <1>2 DEF Release, TypeInv, Assigned
    <2>3. CASE Releasable(e)
      <3>1. /\ run' = [run EXCEPT ![q] = [status |-> "pending", worker |-> None, lease |-> "none"]]
            /\ run[q].status = "running" /\ run[q].worker = e
        BY <1>2, <2>2, <2>3 DEF Release, Releasable, Owns
      <3>2. \A r \in Runs \ {q} : Same(r)
        BY <1>0, <2>1, <3>1 DEF Same, PhaseOf, Untaken
      <3>3. /\ PhaseOf(q) = "held" /\ PhaseOf(q)' = "waiting"
            /\ run'[q].worker = None
        BY <1>0, <3>1 DEF PhaseOf, Terminal
      <3>4. Ledger!GiveBack(q)
        BY <2>1, <3>2, <3>3 DEF Ledger!GiveBack, Same, Untaken
      <3>. QED
        BY <3>4 DEF Ledger!Next
    <2>4. CASE ~Releasable(e)
      BY <1>2, <2>1, <2>4, Stutter DEF Release, Same, PhaseOf, Untaken
    <2>. QED
      BY <2>3, <2>4
  <1>3. ASSUME NEW e \in Execs, Finalize(e) PROVE [Ledger!Next]_(Ledger!ledgerVars)
    <2>1. Untaken
      BY <1>3, TakersKept
    <2>2. PICK q \in Runs : q = RunOf(e) /\ result[e] \in Terminal
      BY <1>3 DEF Finalize, TypeInv, TypeOK, Assigned
    <2>3. CASE Owns(e)
      <3>1. run' = [run EXCEPT ![q].status = result[e]] /\ run[q].worker = e
        BY <1>3, <2>2, <2>3 DEF Finalize, Owns
      <3>2. \A r \in Runs \ {q} : Same(r)
        BY <1>0, <2>1, <3>1 DEF Same, PhaseOf, Untaken
      <3>3. PhaseOf(q)' = "ended" /\ run'[q].worker = run[q].worker
        BY <1>0, <2>2, <3>1 DEF PhaseOf, Terminal, RunRows
      <3>4. PhaseOf(q) \in {"held", "ended"}
        BY <1>0, <3>1 DEF PhaseOf, LedgerInv, Unowned, SweptExist
      <3>. QED
        BY <2>1, <3>2, <3>3, <3>4, EndOne
    <2>4. CASE ~Owns(e)
      BY <1>3, <2>1, <2>4, Stutter DEF Finalize, Same, PhaseOf, Untaken
    <2>. QED
      BY <2>3, <2>4
  <1>4. ASSUME NEW e \in Execs, NEW r \in Runs, Spawn(e, r) PROVE Ledger!Next
    <2>1. Untaken
      BY <1>4, TakersKept
    <2>2. run' = [run EXCEPT ![r].status = "pending"] /\ run[r].status = "absent"
      BY <1>4 DEF Spawn
    <2>3. \A q \in Runs \ {r} : Same(q)
      BY <1>0, <2>1, <2>2 DEF Same, PhaseOf, Untaken
    <2>6. /\ run[r].worker = None /\ run'[r].worker = None
          /\ run'[r].status = "pending"
      BY <1>0, <2>2 DEF LedgerInv, Unowned, RunRows
    <2>4. /\ PhaseOf(r) = "absent" /\ PhaseOf(r)' = "waiting"
          /\ run'[r].worker = run[r].worker
      BY <2>2, <2>6 DEF PhaseOf, Terminal
    <2>5. Ledger!Submit(r)
      BY <2>1, <2>3, <2>4 DEF Ledger!Submit, Same, Untaken
    <2>. QED
      BY <2>5 DEF Ledger!Next
  <1>5. ASSUME Reconcile PROVE Ledger!Next
    <2>1. Untaken
      BY <1>5, TakersKept
    <2>. DEFINE S == {r \in swept : run[r].status \notin Terminal}
    <2>2. run' = [r \in Runs |-> IF r \in swept THEN [run[r] EXCEPT !.status = "failed"] ELSE run[r]]
      BY <1>5 DEF Reconcile
    <2>3. \A r \in Runs : run'[r].worker = run[r].worker
      BY <1>0, <2>2 DEF RunRows
    <2>4. \A r \in Runs : PhaseOf(r)' = IF r \in S THEN "ended" ELSE PhaseOf(r)
      <3>1. ASSUME NEW r \in swept PROVE r \in Runs /\ run'[r].status = "failed"
        BY <1>0, <2>2, <3>1 DEF RunRows
      <3>2. ASSUME NEW r \in Runs \ swept PROVE run'[r] = run[r]
        BY <2>2
      <3>3. ASSUME NEW r \in swept PROVE PhaseOf(r)' = "ended"
        BY <3>1 DEF PhaseOf, Terminal
      <3>4. ASSUME NEW r \in swept, r \notin S PROVE PhaseOf(r) = "ended"
        BY <1>0, <3>4 DEF PhaseOf, Terminal
      <3>5. ASSUME NEW r \in Runs \ swept PROVE PhaseOf(r)' = PhaseOf(r)
        BY <3>2 DEF PhaseOf
      <3>. QED
        BY <3>3, <3>4, <3>5
    <2>5. \A r \in S : r \in Runs /\ PhaseOf(r) \in {"waiting", "held"}
      BY <1>0 DEF PhaseOf, LedgerInv, SweptExist
    <2>. HIDE DEF S
    <2>6. Ledger!End(S)
      BY <2>1, <2>3, <2>4, <2>5 DEF Ledger!End, Untaken
    <2>7. S \in SUBSET Runs
      BY <2>5
    <2>. QED
      BY <2>6, <2>7 DEF Ledger!Next
  <1>6. ASSUME NEW e \in Execs, Renew(e) PROVE UNCHANGED Ledger!ledgerVars
    <2>1. Untaken
      BY <1>6, TakersKept
    <2>2. ASSUME NEW q \in Runs PROVE Same(q)
      BY <1>6, <2>1, RenewKeeps DEF Same, PhaseOf, Untaken
    <2>. QED
      BY <2>2, Stutter
  <1>7. ASSUME NEW r \in Runs, Expire(r) PROVE UNCHANGED Ledger!ledgerVars
    <2>1. Untaken
      BY <1>7, TakersKept
    <2>2. ASSUME NEW q \in Runs PROVE Same(q)
      BY <1>0, <1>7, <2>1 DEF Expire, Active, Same, PhaseOf, Untaken, Terminal, RunRows
    <2>. QED
      BY <2>2, Stutter
  <1>9. ASSUME NEW S \in SUBSET Runs, run' = CancelRequested(S), Untaken,
               \A r \in S : r \notin Undisturbed /\ run[r].status # "absent"
        PROVE  Ledger!Next
    <2>. DEFINE T == {r \in S : run[r].status \in Terminal}
    <2>1. \A r \in Runs : run'[r].worker = run[r].worker
      BY <1>0, <1>9 DEF CancelRequested, RunRows
    <2>2. \A r \in Runs : PhaseOf(r)' = IF r \notin T THEN PhaseOf(r)
                                     ELSE IF run[r].worker = None THEN "waiting" ELSE "held"
      <3>1. ASSUME NEW r \in S PROVE r \in Runs /\ run'[r].status = "cancel_requested"
        BY <1>0, <1>9, <3>1 DEF CancelRequested, RunRows
      <3>2. ASSUME NEW r \in Runs \ S PROVE run'[r] = run[r]
        BY <1>9 DEF CancelRequested
      <3>3. ASSUME NEW r \in S
            PROVE  PhaseOf(r)' = IF run[r].worker = None THEN "waiting" ELSE "held"
        BY <2>1, <3>1 DEF PhaseOf, Terminal
      <3>4. ASSUME NEW r \in S, r \notin T
            PROVE  PhaseOf(r) = IF run[r].worker = None THEN "waiting" ELSE "held"
        BY <1>9, <3>4 DEF PhaseOf
      <3>5. ASSUME NEW r \in Runs \ S PROVE PhaseOf(r)' = PhaseOf(r)
        BY <3>2 DEF PhaseOf
      <3>. QED
        BY <3>3, <3>4, <3>5
    <2>3. \A r \in T : r \in Runs \ Undisturbed /\ PhaseOf(r) = "ended"
      BY <1>9 DEF PhaseOf, Terminal
    <2>. HIDE DEF T
    <2>4. Ledger!Reopen(T)
      BY <1>9, <2>1, <2>2, <2>3 DEF Ledger!Reopen, Untaken
    <2>5. T \in SUBSET Runs
      BY <2>3
    <2>. QED
      BY <2>4, <2>5 DEF Ledger!Next
  <1>10. ASSUME NEW e \in Execs, Cascade(e) PROVE Ledger!Next
    <2>1. Untaken
      BY <1>10, TakersKept
    <2>2. children[e] \in SUBSET Runs
      BY DEF TypeInv, TypeOK
    <2>3. \A r \in children[e] : r \notin Undisturbed /\ run[r].status # "absent"
      BY DEF TypeInv, Assigned, LedgerInv, SweptExist
    <2>4. run' = CancelRequested(children[e])
      BY <1>10 DEF Cascade
    <2>. QED
      BY <1>9, <2>1, <2>2, <2>3, <2>4
  <1>11. ASSUME NEW r \in Runs, RequestCancel(r) PROVE Ledger!Next
    <2>1. Untaken
      BY <1>11, TakersKept
    <2>2. r \notin Undisturbed /\ run[r].status # "absent"
      BY <1>11 DEF RequestCancel, TypeInv, Assigned, LedgerInv, SweptExist
    <2>3. run' = CancelRequested({r})
      BY <1>11 DEF RequestCancel
    <2>. QED
      BY <1>9, <2>1, <2>2, <2>3
  <1>8. CASE UNCHANGED <<run, attempts>>
    BY <1>8, Stutter DEF Same, PhaseOf, TakersOf
  <1>. QED
    BY RowSteps, <1>1, <1>2, <1>3, <1>4, <1>5, <1>6, <1>7, <1>8, <1>10, <1>11

\* Whatever the workers, the sweep, the clients and the faults do, the run
\* tables keep the promises of the ledger: one holder at a time, no run taken
\* from its holder unless somebody may cancel it, no token that takes a run
\* twice, and an end that is final, for every run nobody cancels.
THEOREM LedgerImplemented == Spec => ImplementsLedger
  <1>1. Init => Ledger!Init
    <2>. SUFFICES ASSUME Init PROVE Ledger!Init
      OBVIOUS
    <2>1. ASSUME NEW r \in Runs
          PROVE  PhaseOf(r) \in {"absent", "waiting"} /\ run[r].worker = None /\ TakersOf(r) = {}
      BY DEF Init, PhaseOf, TakersOf, Terminal
    <2>. QED
      BY <2>1 DEF Ledger!Init
  <1>2. TypeInv /\ LedgerInv /\ Custody /\ [Next]_vars =>
          /\ TypeInv' /\ LedgerInv' /\ Custody'
          /\ [Ledger!Next]_(Ledger!ledgerVars)
    BY TypeStep, LedgerInvStep, CustodyStep, LedgerStep
  <1>3. Init => TypeInv /\ LedgerInv /\ Custody
    BY TypeInit, LedgerInvInit, CustodyInit
  <1>. QED
    BY <1>1, <1>2, <1>3, PTL DEF Spec, ImplementsLedger, Ledger!Spec
=============================================================================
