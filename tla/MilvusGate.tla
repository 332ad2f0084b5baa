----------------------------- MODULE MilvusGate -----------------------------
(***************************************************************************)
(* _run_milvus_query_io: a blocking Milvus call runs in a thread behind a  *)
(* semaphore.  Its caller may be cancelled (a client hangs up, a job times *)
(* out); the thread cannot be, so the caller shields it and the task that  *)
(* wraps it gives the slot back when it ends.                              *)
(*                                                                         *)
(* The semaphore is asyncio's: a release hands the slot to a waiter, who   *)
(* takes it up when the event loop runs him.  Nobody overtakes: a newcomer *)
(* queues behind a waiter that is woken and has not run yet, even if a     *)
(* second slot is free, and that waiter wakes him once he runs.            *)
(***************************************************************************)
EXTENDS Integers, FiniteSets

CONSTANTS
    Searches,  \* coroutines that query Milvus, call after call
    GateLimit  \* MILVUS_QUERY_OFFLOAD_LIMIT

ASSUME MilvusGateAssumption == IsFiniteSet(Searches) /\ GateLimit \in Nat \ {0}

VARIABLES
    searchAt, \* where each coroutine stands
    threads,  \* the coroutines whose call runs in a thread
    capacity  \* free slots of the semaphore

gateVars == <<searchAt, threads, capacity>>

\* "leaving": cancelled in the queue, the handler of acquire not run yet
SearchPlaces == {"idle", "waiting", "woken", "leaving", "awaiting", "cancelled"}

GateTypeOK ==
    /\ searchAt \in [Searches -> SearchPlaces]
    /\ threads \subseteq Searches
    /\ capacity \in 0..GateLimit

GateInit ==
    /\ searchAt = [s \in Searches |-> "idle"]
    /\ threads = {} /\ capacity = GateLimit

Waiting == {s \in Searches : searchAt[s] = "waiting"} \* the semaphore's queue
Woken   == {s \in Searches : searchAt[s] = "woken"}   \* its slot is set aside
MoveSearch(s, place) == searchAt' = [searchAt EXCEPT ![s] = place]

\* locked(): no slot is free, or somebody comes first
Locked == capacity = 0 \/ Waiting # {} \/ Woken # {}

\* semaphore.acquire, and the task when it does not wait
AcquireGate(s) ==
    /\ searchAt[s] = "idle"
    /\ IF Locked
       THEN /\ MoveSearch(s, "waiting")
            /\ UNCHANGED <<threads, capacity>>
       ELSE /\ MoveSearch(s, "awaiting")
            /\ threads' = threads \cup {s} /\ capacity' = capacity - 1

\* The coroutine s leaves the queue and wakes as many as there are free slots:
\* _wake_up_next, while it finds a slot and a waiter.  Which waiters are the
\* first makes no difference here.
WakeAll(s, place, free) ==
    \E W \in SUBSET Waiting :
        /\ Cardinality(W) = free \/ (W = Waiting /\ Cardinality(W) < free)
        /\ searchAt' = [t \in Searches |->
              IF t = s THEN place ELSE IF t \in W THEN "woken" ELSE searchAt[t]]
        /\ capacity' = free - Cardinality(W)

\* A woken waiter starts its thread.
StartThread(s) ==
    /\ searchAt[s] = "woken"
    /\ WakeAll(s, "awaiting", capacity)
    /\ threads' = threads \cup {s}

\* Mutant: a release that wakes a waiter frees the slot as well.
ReleaseAndWake(s, place) ==
    /\ capacity' = capacity + 1
    /\ IF Waiting = {}
       THEN MoveSearch(s, place)
       ELSE \E w \in Waiting : searchAt' = [searchAt EXCEPT ![s] = place, ![w] = "woken"]

\* semaphore.release, as the coroutine s moves on
Release(s, place) ==
    IF Waiting = {}
    THEN MoveSearch(s, place) /\ capacity' = capacity + 1
    ELSE /\ \E w \in Waiting : searchAt' = [searchAt EXCEPT ![s] = place, ![w] = "woken"]
         /\ UNCHANGED capacity

\* release_capacity; a caller that is still there gets the result.
ThreadEnds(s) ==
    /\ s \in threads
    /\ threads' = threads \ {s}
    /\ Release(s, IF searchAt[s] = "awaiting" THEN "idle" ELSE searchAt[s])

\* Mutant: the caller releases the semaphore on its way out (async with).
ReleaseOnCancel(s) ==
    /\ searchAt[s] = "awaiting"
    /\ Release(s, "cancelled")
    /\ UNCHANGED threads

\* asyncio.shield: the caller goes, the thread and its slot stay.
CancelCaller(s) ==
    /\ searchAt[s] = "awaiting"
    /\ MoveSearch(s, "cancelled")
    /\ UNCHANGED <<threads, capacity>>

\* A caller cancelled in the queue is passed over from then on.
CancelWaiting(s) ==
    /\ searchAt[s] = "waiting"
    /\ MoveSearch(s, "leaving")
    /\ UNCHANGED <<threads, capacity>>

LeaveQueue(s) ==
    /\ searchAt[s] = "leaving"
    /\ WakeAll(s, "cancelled", capacity)
    /\ UNCHANGED threads

\* One already woken gives its slot back.
CancelWoken(s) ==
    /\ searchAt[s] = "woken"
    /\ WakeAll(s, "cancelled", capacity + 1)
    /\ UNCHANGED threads

GateNext ==
    \E s \in Searches :
        \/ AcquireGate(s) \/ StartThread(s) \/ ThreadEnds(s)
        \/ CancelCaller(s) \/ CancelWaiting(s) \/ LeaveQueue(s) \/ CancelWoken(s)

GateSpec == GateInit /\ [][GateNext]_gateVars

-----------------------------------------------------------------------------
(* Property                                                                 *)

Holders == threads \cup Woken

\* No more threads than the limit are in Milvus, whoever has been cancelled,
\* and no slot is lost: every slot is free, in use by a thread or set aside for
\* a waiter.  A coroutine waits while one is free only behind a woken waiter,
\* who will wake it.
SlotsAccountedFor ==
    /\ Cardinality(Holders) + capacity = GateLimit
    /\ Waiting # {} /\ capacity > 0 => Woken # {}
=============================================================================
