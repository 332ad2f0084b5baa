-------------------------- MODULE CheckpointerPool --------------------------
(***************************************************************************)
(* setup_langgraph_checkpointer: the first jobs of a process set up the    *)
(* checkpointer.  Each holds a connection of the process's pool while it   *)
(* waits for an advisory lock of the database, and the holder of the lock  *)
(* needs a second connection of the same pool.  ARQ runs as many jobs at a *)
(* time as the pool has connections, so the waiting jobs can hold them     *)
(* all; then only the pool's timeout, which ends the holder, lets the      *)
(* others go on.                                                           *)
(***************************************************************************)
EXTENDS Integers, FiniteSets, FiniteSetsExt

CONSTANTS
    SetupJobs,  \* job slots of all the processes
    ProcessOf,  \* the process of a slot
    PoolSize    \* max_size of the pool

ASSUME CheckpointerAssumption == IsFiniteSet(SetupJobs) /\ PoolSize \in Nat \ {0}

VARIABLES
    jobAt, \* where the job in each slot stands
    setUp  \* the processes with _langgraph_checkpointer_setup

poolVars == <<jobAt, setUp>>

Processes == {ProcessOf[j] : j \in SetupJobs}
JobPlaces == {"idle", "connecting", "connected", "locked", "settingUp", "ready", "failed"}

PoolTypeOK ==
    /\ jobAt \in [SetupJobs -> JobPlaces]
    /\ setUp \subseteq Processes

PoolInit == jobAt = [j \in SetupJobs |-> "idle"] /\ setUp = {}

MoveJob(j, place) == jobAt' = [jobAt EXCEPT ![j] = place]

Connections(j) ==
    CASE jobAt[j] \in {"connected", "locked"} -> 1
      [] jobAt[j] = "settingUp" -> 2
      [] OTHER -> 0

InUse(p) == MapThenSumSet(Connections, {j \in SetupJobs : ProcessOf[j] = p})

AdvisoryLockFree == \A j \in SetupJobs : jobAt[j] \notin {"locked", "settingUp"}

\* A job starts; the flag is read once, before the first await.
StartSetup(j) ==
    /\ jobAt[j] = "idle"
    /\ MoveJob(j, IF ProcessOf[j] \in setUp THEN "ready" ELSE "connecting")
    /\ UNCHANGED setUp

Connect(j) ==
    /\ jobAt[j] = "connecting"
    /\ InUse(ProcessOf[j]) < PoolSize
    /\ MoveJob(j, "connected")
    /\ UNCHANGED setUp

TakeAdvisoryLock(j) ==
    /\ jobAt[j] = "connected"
    /\ AdvisoryLockFree
    /\ MoveJob(j, "locked")
    /\ UNCHANGED setUp

\* checkpointer.setup() takes a connection of its own.
ConnectAgain(j) ==
    /\ jobAt[j] = "locked"
    /\ InUse(ProcessOf[j]) < PoolSize
    /\ MoveJob(j, "settingUp")
    /\ UNCHANGED setUp

\* The lock and both connections are given back.
FinishSetup(j) ==
    /\ jobAt[j] = "settingUp"
    /\ setUp' = setUp \cup {ProcessOf[j]}
    /\ MoveJob(j, "ready")

SetupFails(j) ==
    /\ jobAt[j] = "settingUp"
    /\ MoveJob(j, "failed")
    /\ UNCHANGED setUp

\* Mutant: the pool lets a request wait without a limit.
WaitsForEver(j) == FALSE

\* PoolTimeout, 30 seconds unless configured
WaitTimesOut(j) == jobAt[j] \in {"connecting", "locked"}

GiveUpWaiting(j) ==
    /\ WaitTimesOut(j)
    /\ MoveJob(j, "failed")
    /\ UNCHANGED setUp

\* The slot takes its next job.
EndJob(j) ==
    /\ jobAt[j] \in {"ready", "failed"}
    /\ MoveJob(j, "idle")
    /\ UNCHANGED setUp

PoolNext ==
    \E j \in SetupJobs :
        \/ StartSetup(j) \/ Connect(j) \/ TakeAdvisoryLock(j) \/ ConnectAgain(j)
        \/ FinishSetup(j) \/ SetupFails(j) \/ GiveUpWaiting(j) \/ EndJob(j)

\* Postgres answers, a lock that is freed again and again is granted in turn
\* (its waiters queue), and a wait in the pool times out.
PoolFairness ==
    \A j \in SetupJobs :
        /\ SF_poolVars(TakeAdvisoryLock(j))
        /\ WF_poolVars(Connect(j) \/ ConnectAgain(j) \/ FinishSetup(j) \/ GiveUpWaiting(j))

PoolSpec == PoolInit /\ [][PoolNext]_poolVars /\ PoolFairness

-----------------------------------------------------------------------------
(* Property                                                                 *)

\* Every job that sets up the checkpointer comes out of it, set up or failed,
\* although all connections may be held by jobs that wait for the one that
\* waits for a connection.
SetupsEnd ==
    \A j \in SetupJobs : (jobAt[j] = "connecting") ~> (jobAt[j] \in {"ready", "failed"})
=============================================================================
