--------------------------- MODULE SubagentsProofs ---------------------------
(***************************************************************************)
(* What the locks of SubagentRunService.start buy, for any number of       *)
(* parents, tool calls, child threads and job slots: one active run per    *)
(* child thread, no child that escapes the cascade of its parent, and no   *)
(* reported end that anything but a cancel request undoes.                 *)
(***************************************************************************)
EXTENDS Subagents, TLAPS

\* No rejected request is ever committed.
NothingRejected == rejected = {}

\* No worker ends a run before it has closed its stream, but the sweep may.
WorkersOwnOpenRuns ==
    \A r \in Runs :
        phase[r] \in {"streaming", "closing", "lost"} =>
            row[r] \in {"running", "cancel_requested", "failed"}

\* A run in its worker's last steps has ended, or was brought back by a cancel.
LastStepsFollowTheEnd ==
    \A r \in Runs :
        phase[r] \in {"publishing", "cascading", "cancelling"} =>
            row[r] \in Terminal \cup {"cancel_requested"}

\* What the cascade of a run is about to cancel is all that is left to cancel.
ReadBeforeCancelled ==
    \A c \in Calls :
        phase[Creator[c]] = "cancelling" =>
            row[c] \in {"absent"} \cup Terminal \/ c \in Keyed \cup kids[Creator[c]]

\* Only rows that are there are read.
ReadRunsExist ==
    \A r \in Runs : (r \in cancelReads \/ \E q \in Runs : r \in kids[q]) => row[r] # "absent"

CancelsAreKeyed == \A r \in Runs : row[r] = "cancel_requested" => r \in Keyed

\* start() keeps its creator running while it holds the lock on its row.
TransactionsHoldCreator == \A c \in Calls : at[c] \in InTransaction => row[Creator[c]] = "running"

\* An uncommitted request is alone on its thread.
InsertedIsAlone ==
    \A c, d \in Calls :
        at[c] = "inserted" /\ Thread[d] = Thread[c] =>
            /\ at[d] = "inserted" => c = d
            /\ row[c] = "absent" => row[d] \notin Active

Inv ==
    /\ TypeOK /\ NothingRejected /\ WorkersOwnOpenRuns /\ LastStepsFollowTheEnd
    /\ ReadBeforeCancelled /\ ReadRunsExist /\ CancelsAreKeyed
    /\ TransactionsHoldCreator /\ InsertedIsAlone
    /\ OneRunPerThread /\ NoChildOutlivesCascade /\ ReportedChildIsOver

\* Inv holds before any run is picked or any tool called.
LEMMA InvInit == Init => Inv
  BY SubagentsAssumption
     DEF Init, Inv, TypeOK, NothingRejected, WorkersOwnOpenRuns, LastStepsFollowTheEnd,
         ReadBeforeCancelled, ReadRunsExist, CancelsAreKeyed, TransactionsHoldCreator, InsertedIsAlone,
         OneRunPerThread, NoChildOutlivesCascade, ReportedChildIsOver, Keyed, Runs, Active, Terminal,
         Phases, Places, Answers, InTransaction, InFlight

\* Every step keeps Inv: the two row locks of start() carry TransactionsHoldCreator
\* and InsertedIsAlone, the worker's phases the rest.
LEMMA InvNext == Inv /\ [Next]_vars => Inv'
  <1> SUFFICES ASSUME Inv, [Next]_vars PROVE Inv'
    OBVIOUS
  <1> USE SubagentsAssumption
  <1> USE DEF Inv, TypeOK, NothingRejected, WorkersOwnOpenRuns, LastStepsFollowTheEnd,
         ReadBeforeCancelled, ReadRunsExist, CancelsAreKeyed, TransactionsHoldCreator, InsertedIsAlone,
         OneRunPerThread, NoChildOutlivesCascade, ReportedChildIsOver, Keyed, Runs, Active, Terminal,
         Phases, Places, Answers, InTransaction, InFlight, Goto, Reply, CreatorFree, CallsOf, callVars,
         cancelVars
  <1>1. ASSUME NEW c \in Calls, Call(c) PROVE Inv'
    BY <1>1 DEF Call
  <1>2. ASSUME NEW c \in Calls, LockCreator(c) PROVE Inv'
    BY <1>2 DEF LockCreator
  <1>3. ASSUME NEW c \in Calls, CheckThread(c) PROVE Inv'
    BY <1>3 DEF CheckThread
  <1>4. ASSUME NEW c \in Calls, Intake(c) PROVE Inv'
    BY <1>4 DEF Intake, ThreadFree, ThreadActive, Rollback
  <1>5. ASSUME NEW c \in Calls, Commit(c) PROVE Inv'
    BY <1>5 DEF Commit
  <1>6. ASSUME NEW c \in Calls, FinalizeIntake(c) PROVE Inv'
    BY <1>6 DEF FinalizeIntake
  <1>7. ASSUME NEW c \in Calls, AwaitLater(c) PROVE Inv'
    BY <1>7 DEF AwaitLater
  <1>8. ASSUME NEW c \in Calls, AwaitResult(c) PROVE Inv'
    BY <1>8 DEF AwaitResult
  <1>9. ASSUME NEW c \in Calls, AwaitTimeout(c) PROVE Inv'
    BY <1>9 DEF AwaitTimeout, DeadlinePasses
  <1>10. ASSUME NEW c \in Calls, CheckStatus(c) PROVE Inv'
    BY <1>10 DEF CheckStatus
  <1>11. ASSUME NEW c \in Calls, Abort(c) PROVE Inv'
    BY <1>11 DEF Abort
  <1>12. ASSUME NEW r \in Runs, Pick(r) PROVE Inv'
    BY <1>12 DEF Pick, AtRest
  <1>13. ASSUME NEW r \in Runs, EndStream(r) PROVE Inv'
    BY <1>13 DEF EndStream
  <1>14. ASSUME NEW r \in Runs, Finalize(r) PROVE Inv'
    BY <1>14 DEF Finalize
  <1>15. ASSUME NEW r \in Runs, Publish(r) PROVE Inv'
    BY <1>15 DEF Publish
  <1>16. ASSUME NEW r \in Runs, ReadChildren(r) PROVE Inv'
    BY <1>16 DEF ReadChildren
  <1>17. ASSUME NEW r \in Runs, Cascade(r) PROVE Inv'
    <2>1. CASE UniqueIndex(kids[r])
      <3> DEFINE K == kids[r]
      <3>1. K \subseteq Calls /\ phase[r] = "cancelling" /\ row[r] \in Terminal \cup {"cancel_requested"}
        BY <1>17 DEF Cascade
      <3>2. /\ row' = [q \in Runs |-> IF q \in K THEN "cancel_requested" ELSE row[q]]
            /\ cancelling' = cancelling \cup (K \ cancelKey)
            /\ kids' = [kids EXCEPT ![r] = {}]
            /\ UNCHANGED <<rejected, queue, retries, finished, cancelReads, cancelKey, at, answer>>
        BY <1>17, <2>1 DEF Cascade, CancelRequested
      <3>3. phase' \in [Runs -> Phases]
        <4>1. BroughtBack(K) \in [Runs -> Phases]
          BY DEF BroughtBack
        <4> QED
          BY <1>17, <2>1, <4>1 DEF Cascade, Rest
      <3>4. \A q \in Runs \ {r} :
                phase'[q] = IF q \in K /\ row[q] \in Terminal /\ phase[q] \in AtRest
                           THEN "lost" ELSE phase[q]
        <4>1. phase' = [BroughtBack(K) EXCEPT ![r] = Rest(r)]
          BY <1>17, <2>1 DEF Cascade
        <4> QED
          BY <4>1 DEF BroughtBack
      <3>5. phase'[r] = IF row[r] = "cancel_requested" THEN "lost" ELSE "idle"
        BY <1>17, <2>1, <3>1 DEF Cascade, BroughtBack, Rest
      <3>6. NoInsertInTheWay(K) /\ UniqueIndex(K)
        BY <1>17, <2>1 DEF Cascade
      <3> HIDE DEF K
      <3>7. \A c \in K : row[c] # "absent"
        BY <3>1 DEF K
      <3>8. TypeOK'
        BY <3>1, <3>2, <3>3
      <3>9. WorkersOwnOpenRuns' /\ LastStepsFollowTheEnd'
        BY <3>1, <3>2, <3>4, <3>5 DEF AtRest
      <3>10. ReadBeforeCancelled' /\ NoChildOutlivesCascade'
        BY <3>1, <3>2, <3>4, <3>5 DEF AtRest, K
      <3>11. ReadRunsExist' /\ CancelsAreKeyed' /\ NothingRejected'
        BY <3>1, <3>2
      <3>12. TransactionsHoldCreator'
        BY <3>1, <3>2
      <3>13. ReportedChildIsOver'
        BY <3>1, <3>2
      <3>14. InsertedIsAlone'
        BY <3>1, <3>2, <3>6, <3>7 DEF NoInsertInTheWay
      <3>15. OneRunPerThread'
        BY <3>1, <3>2, <3>6 DEF UniqueIndex
      <3> QED
        BY <3>8, <3>9, <3>10, <3>11, <3>12, <3>13, <3>14, <3>15
    <2>2. CASE ~UniqueIndex(kids[r])
      BY <1>17, <2>2 DEF Cascade, Rest
    <2> QED
      BY <2>1, <2>2
  <1>18. ASSUME NEW r \in Runs, Die(r) PROVE Inv'
    BY <1>18 DEF Die, Rest
  <1>19. ASSUME NEW r \in Runs, Sweep(r) PROVE Inv'
    BY <1>19 DEF Sweep
  <1>20. ASSUME NEW r \in Runs, ReadForCancel(r) PROVE Inv'
    BY <1>20 DEF ReadForCancel
  <1>21. ASSUME NEW r \in Runs, RequestCancel(r) PROVE Inv'
    <2>1. /\ row' = [q \in Runs |-> IF q = r THEN "cancel_requested" ELSE row[q]]
          /\ cancelling' = cancelling \cup ({r} \ cancelKey)
          /\ UNCHANGED <<rejected, queue, retries, finished, cancelReads, kids, cancelKey,
                         at, answer>>
      BY <1>21 DEF RequestCancel, CancelRequested
    <2>2. phase' = [q \in Runs |-> IF q = r /\ row[q] \in Terminal /\ phase[q] \in AtRest
                                  THEN "lost" ELSE phase[q]]
      BY <1>21 DEF RequestCancel, BroughtBack
    <2>3. row[r] # "absent" /\ CreatorFree(r)
      BY <1>21 DEF RequestCancel
    <2>4. NoInsertInTheWay({r}) /\ UniqueIndex({r})
      BY <1>21 DEF RequestCancel
    <2>5. TypeOK'
      BY <2>1, <2>2
    <2>6. WorkersOwnOpenRuns' /\ LastStepsFollowTheEnd'
      BY <2>1, <2>2 DEF AtRest
    <2>7. ReadBeforeCancelled' /\ NoChildOutlivesCascade'
      BY <2>1, <2>2, <2>3 DEF AtRest
    <2>8. ReadRunsExist' /\ CancelsAreKeyed' /\ NothingRejected'
      BY <2>1
    <2>9. TransactionsHoldCreator'
      BY <2>1, <2>3
    <2>10. ReportedChildIsOver'
      BY <2>1
    <2>11. InsertedIsAlone'
      BY <2>1, <2>3, <2>4 DEF NoInsertInTheWay
    <2>12. OneRunPerThread'
      BY <2>1, <2>4 DEF UniqueIndex
    <2> QED
      BY <2>5, <2>6, <2>7, <2>8, <2>9, <2>10, <2>11, <2>12
  <1>22. ASSUME NEW r \in Runs, SetCancelKey(r) PROVE Inv'
    BY <1>22 DEF SetCancelKey
  <1>23. ASSUME NEW p \in Parents, Retry(p) PROVE Inv'
    <2>1. TypeOK'
      <3>1. row' \in [Runs -> {"absent"} \cup Active \cup Terminal] /\ phase' \in [Runs -> Phases]
        BY <1>23 DEF Retry, Rest
      <3>2. retries' \in [Parents -> 0..MaxRetries]
        BY <1>23 DEF Retry
      <3>3. at' \in [Calls -> Places] /\ answer' \in [Calls -> Answers]
        BY <1>23 DEF Retry
      <3> QED
        BY <1>23, <3>1, <3>2, <3>3 DEF Retry
    <2>2. WorkersOwnOpenRuns' /\ LastStepsFollowTheEnd' /\ ReadBeforeCancelled'
      BY <1>23 DEF Retry, Rest
    <2>3. NothingRejected' /\ ReadRunsExist' /\ CancelsAreKeyed'
      BY <1>23 DEF Retry
    <2>4. TransactionsHoldCreator'
      BY <1>23 DEF Retry
    <2>5. InsertedIsAlone'
      BY <1>23 DEF Retry
    <2>6. OneRunPerThread' /\ ReportedChildIsOver'
      <3>1. \A c \in Calls : row'[c] = row[c]
        BY <1>23 DEF Retry
      <3>2. OneRunPerThread'
        BY <3>1
      <3>3. ReportedChildIsOver'
        BY <1>23, <3>1 DEF Retry
      <3> QED
        BY <3>2, <3>3
    <2>7. NoChildOutlivesCascade'
      BY <1>23 DEF Retry, Rest
    <2> QED
      BY <2>1, <2>2, <2>3, <2>4, <2>5, <2>6, <2>7
  <1>24. CASE UNCHANGED vars
    BY <1>24 DEF vars
  <1> QED
    BY <1>1, <1>2, <1>3, <1>4, <1>5, <1>6, <1>7, <1>8, <1>9, <1>10, <1>11, <1>12, <1>13,
       <1>14, <1>15, <1>16, <1>17, <1>18, <1>19, <1>20, <1>21, <1>22, <1>23, <1>24
       DEF Next, CallStep, RunStep, CancelStep

\* Every reachable state satisfies Inv.
LEMMA InvHolds == Spec => []Inv
  BY InvInit, InvNext, PTL DEF Spec

\* Every reachable state is well typed.
THEOREM SubagentsTypeCorrect == Spec => []TypeOK
  <1>1. Inv => TypeOK
    BY DEF Inv
  <1> QED
    BY <1>1, InvHolds, PTL

\* At most one run is active on a child thread, for any number of calls that
\* race for it, whoever makes them (the second look of intake_request).
THEOREM OneRunPerThreadHolds == Spec => []OneRunPerThread
  <1>1. Inv => OneRunPerThread
    BY DEF Inv
  <1> QED
    BY <1>1, InvHolds, PTL

\* No child is left running unasked by a parent that its worker ended and
\* cascaded (the lock on the creator's row in start and in mark_terminal).
THEOREM NoChildOutlivesCascadeHolds == Spec => []NoChildOutlivesCascade
  <1>1. Inv => NoChildOutlivesCascade
    BY DEF Inv
  <1> QED
    BY <1>1, InvHolds, PTL

\* A child that a tool has reported to have ended stays ended, unless a cancel
\* request that had read it before brings it back.
THEOREM ReportedChildIsOverHolds == Spec => []ReportedChildIsOver
  <1>1. Inv => ReportedChildIsOver
    BY DEF Inv
  <1> QED
    BY <1>1, InvHolds, PTL

\* A call in its transaction is told "busy" only by CheckThread or Intake, and
\* only while a run is active on the thread, as no rejected request is kept.
THEOREM BusyOnlyIfActiveHolds == Spec => BusyOnlyIfActive
  <1>1. Inv /\ [Next]_vars =>
          [\A c \in Calls :
              (at[c] \in InTransaction /\ at'[c] = "answered" /\ answer'[c] = "busy")
                  => \E d \in Calls : Thread[d] = Thread[c] /\ row[d] \in Active]_vars
    <2> SUFFICES ASSUME Inv, Next, NEW c \in Calls, at[c] \in InTransaction,
                        at'[c] = "answered", answer'[c] = "busy"
                 PROVE  \E d \in Calls : Thread[d] = Thread[c] /\ row[d] \in Active
      OBVIOUS
    <2> USE DEF Inv, TypeOK, NothingRejected, Runs, Answers, Places, InTransaction, InFlight,
                Terminal, Goto, Reply
    <2>1. ASSUME NEW e \in Calls, CallStep(e)
          PROVE \E d \in Calls : Thread[d] = Thread[c] /\ row[d] \in Active
      <3>1. CASE CheckThread(e)
        BY <3>1 DEF CheckThread
      <3>2. CASE Intake(e)
        BY <3>2 DEF Intake, ThreadActive
      <3>3. CASE \/ Call(e) \/ LockCreator(e) \/ Commit(e) \/ FinalizeIntake(e)
                 \/ AwaitLater(e) \/ AwaitResult(e) \/ AwaitTimeout(e) \/ CheckStatus(e)
                 \/ Abort(e)
        BY <3>3 DEF Call, LockCreator, Commit, FinalizeIntake, AwaitLater, AwaitResult,
                    AwaitTimeout, DeadlinePasses, CheckStatus, Abort, callVars
      <3> QED
        BY <2>1, <3>1, <3>2, <3>3 DEF CallStep
    <2>2. ASSUME NEW r \in Runs, RunStep(r) \/ CancelStep(r) PROVE FALSE
      BY <2>2 DEF RunStep, Pick, EndStream, Finalize, Publish, ReadChildren, Cascade, Die, Sweep,
                  CancelStep, ReadForCancel, RequestCancel, SetCancelKey, callVars
    <2>3. ASSUME NEW p \in Parents, Retry(p) PROVE FALSE
      BY <2>3 DEF Retry, CallsOf
    <2> QED
      BY <2>1, <2>2, <2>3 DEF Next
  <1> QED
    BY <1>1, InvHolds, PTL DEF Spec, BusyOnlyIfActive
=============================================================================
