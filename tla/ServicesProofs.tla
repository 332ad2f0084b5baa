---------------------------- MODULE ServicesProofs ----------------------------
(***************************************************************************)
(* Theorems about the components that stand beside the runs: the gate in   *)
(* front of Milvus, the migration of the Postgres schema, the setup of the *)
(* checkpointer and the token accounting; and, with those of the chunking  *)
(* and the ingestion, about all of them as they are checked together.      *)
(***************************************************************************)
EXTENDS MCServices, ChunkingProofs, ChunkStructureProofs, KnowledgeIngestionProofs

-----------------------------------------------------------------------------
(***************************************************************************)
(* The slots of the Milvus gate are accounted for, for any limit and any   *)
(* number of searches, however many of them are cancelled.                 *)
(***************************************************************************)
\* A caller waits for its own thread, and a thread's caller waits or is gone.
ThreadsHaveCallers ==
    \A s \in Searches :
        /\ searchAt[s] = "awaiting" => s \in threads
        /\ s \in threads => searchAt[s] \in {"awaiting", "cancelled"}

GateInv == GateTypeOK /\ SlotsAccountedFor /\ ThreadsHaveCallers

\* What a set of searches counts, and one element more or less of it.
LEMMA HoldersCount ==
  ASSUME NEW H \in SUBSET Searches
  PROVE  /\ Cardinality(H) \in Nat
         /\ \A s \in Searches \ H : Cardinality(H \cup {s}) = Cardinality(H) + 1
         /\ \A s \in H : Cardinality(H \ {s}) = Cardinality(H) - 1
  <1>1. IsFiniteSet(H)
    BY MilvusGateAssumption, FS_Subset
  <1>2. Cardinality(H) \in Nat
    BY <1>1, FS_CardinalityType
  <1>3. ASSUME NEW s \in Searches \ H PROVE Cardinality(H \cup {s}) = Cardinality(H) + 1
    BY <1>1, FS_AddElement
  <1>4. ASSUME NEW s \in H PROVE Cardinality(H \ {s}) = Cardinality(H) - 1
    BY <1>1, FS_RemoveElement
  <1> QED
    BY <1>2, <1>3, <1>4

\* At the start every slot is free.
LEMMA GateInvInit == GateInit => GateInv
  <1> SUFFICES ASSUME GateInit PROVE GateInv
    OBVIOUS
  <1>1. Woken = {} /\ Waiting = {}
    BY DEF GateInit, Woken, Waiting
  <1>2. Cardinality(Holders) = 0
    BY <1>1, FS_EmptySet DEF GateInit, Holders
  <1> QED
    BY <1>1, <1>2, MilvusGateAssumption
       DEF GateInit, GateInv, GateTypeOK, SlotsAccountedFor, ThreadsHaveCallers, SearchPlaces

\* A release by a search that gives up its slot keeps the count: the slot goes
\* to a waiter, who becomes a holder, or to the free ones.
LEMMA ReleaseKeepsSlots ==
  ASSUME GateInv, NEW s \in threads, NEW place \in {"idle", "cancelled"},
         Release(s, place), threads' = threads \ {s}
  PROVE  GateInv'
  <1> DEFINE rest == Holders \ {s}
  <1>1. Holders \in SUBSET Searches /\ s \in Searches /\ s \in Holders
    BY DEF GateInv, GateTypeOK, Holders, Woken
  <1>2. Cardinality(rest) = Cardinality(Holders) - 1 /\ Cardinality(Holders) \in Nat
    BY <1>1, HoldersCount
  <1>3. Cardinality(rest) \in Nat
    BY <1>1, HoldersCount
  <1>4. capacity = GateLimit - Cardinality(Holders)
    BY <1>2 DEF GateInv, GateTypeOK, SlotsAccountedFor
  <1>5. searchAt[s] \in {"awaiting", "cancelled"}
    <2>1. ThreadsHaveCallers
      BY DEF GateInv
    <2> QED
      BY <1>1, <2>1 DEF ThreadsHaveCallers
  <1>6. CASE Waiting = {}
    <2>1. searchAt' = [searchAt EXCEPT ![s] = place] /\ capacity' = capacity + 1
      BY <1>6 DEF Release, MoveSearch
    <2>2. Holders' = rest /\ Waiting' = {}
      BY <2>1, <1>1, <1>5, <1>6 DEF Holders, Woken, Waiting, GateInv, GateTypeOK
    <2>3. SlotsAccountedFor'
      BY <2>1, <2>2, <1>2, <1>4, MilvusGateAssumption DEF SlotsAccountedFor
    <2>4. capacity' \in 0..GateLimit
      BY <2>1, <1>2, <1>3, <1>4, MilvusGateAssumption DEF GateInv, GateTypeOK
    <2>5. searchAt' \in [Searches -> SearchPlaces] /\ threads' \subseteq Searches
      BY <2>1 DEF GateInv, GateTypeOK, SearchPlaces
    <2>6. ThreadsHaveCallers'
      BY <2>1, <1>1 DEF GateInv, GateTypeOK, ThreadsHaveCallers
    <2> QED
      BY <2>3, <2>4, <2>5, <2>6 DEF GateInv, GateTypeOK
  <1>7. CASE Waiting # {}
    <2>1. PICK w \in Waiting :
             searchAt' = [searchAt EXCEPT ![s] = place, ![w] = "woken"] /\ capacity' = capacity
      BY <1>7 DEF Release
    <2>2. w \in Searches /\ w \notin Holders /\ w # s /\ searchAt[w] = "waiting"
      BY <1>5 DEF Waiting, Holders, Woken, GateInv, ThreadsHaveCallers, GateTypeOK
    <2>3. Holders' = rest \cup {w} /\ w \in Woken'
      BY <2>1, <2>2, <1>1, <1>5 DEF Holders, Woken, GateInv, GateTypeOK
    <2>4. Cardinality(rest \cup {w}) = Cardinality(Holders)
      BY <2>2, <1>1, <1>2, HoldersCount
    <2>5. SlotsAccountedFor'
      BY <2>1, <2>3, <2>4, <1>2, <1>4, MilvusGateAssumption DEF SlotsAccountedFor
    <2>6. searchAt' \in [Searches -> SearchPlaces] /\ threads' \subseteq Searches
      BY <2>1 DEF GateInv, GateTypeOK, SearchPlaces
    <2>7. ThreadsHaveCallers'
      BY <2>1, <2>2, <1>1 DEF GateInv, GateTypeOK, ThreadsHaveCallers
    <2> QED
      BY <2>1, <2>5, <2>6, <2>7 DEF GateInv, GateTypeOK
  <1> QED
    BY <1>6, <1>7

\* A coroutine that leaves the queue wakes others for the slots that are free
\* then: the count stays, and nobody is left waiting while one is free.
LEMMA WakingKeepsSlots ==
  ASSUME GateInv, NEW s \in Searches \ Waiting, s \notin threads,
         NEW place \in {"awaiting", "cancelled"},
         NEW free \in Nat, WakeAll(s, place, free),
         NEW stay, stay \subseteq Holders, s \notin stay \/ place = "awaiting",
         Holders \ {s} \subseteq stay,
         Cardinality(stay) + free = GateLimit,
         threads' = IF place = "awaiting" THEN threads \cup {s} ELSE threads,
         place = "awaiting" => s \in stay
  PROVE  GateInv'
  <1>1. PICK W \in SUBSET Waiting :
          /\ Cardinality(W) = free \/ (W = Waiting /\ Cardinality(W) < free)
          /\ searchAt' = [t \in Searches |->
               IF t = s THEN place ELSE IF t \in W THEN "woken" ELSE searchAt[t]]
          /\ capacity' = free - Cardinality(W)
    BY DEF WakeAll
  <1>2. /\ IsFiniteSet(W) /\ IsFiniteSet(stay) /\ W \subseteq Searches
        /\ Holders \subseteq Searches
    BY MilvusGateAssumption, FS_Subset DEF Waiting, Holders, Woken, GateInv, GateTypeOK
  <1>3. Cardinality(W) \in Nat /\ Cardinality(stay) \in Nat
    BY <1>2, FS_CardinalityType
  <1>4. stay \cap W = {}
    BY DEF Holders, Woken, Waiting, GateInv, ThreadsHaveCallers
  <1>5. Cardinality(stay \cup W) = Cardinality(stay) + Cardinality(W)
    <2>1. Cardinality(stay \cup W) = Cardinality(stay) + Cardinality(W) - Cardinality(stay \cap W)
      BY Zenon, <1>2, FS_Union
    <2>2. Cardinality(stay \cap W) = 0
      BY <1>4, FS_EmptySet
    <2> QED
      BY <1>3, <2>1, <2>2
  <1>6. Holders' = stay \cup W
    BY <1>1, <1>2 DEF Holders, Woken, Waiting, GateInv, GateTypeOK, ThreadsHaveCallers
  <1>7. capacity' \in 0..GateLimit /\ Cardinality(stay \cup W) + capacity' = GateLimit
    BY <1>1, <1>3, <1>5, MilvusGateAssumption
  <1>8. Waiting' = Waiting \ W
    BY <1>1, <1>2 DEF Waiting
  <1>9. Waiting' # {} => capacity' = 0
    BY <1>1, <1>3, <1>8
  <1>10. SlotsAccountedFor'
    BY <1>6, <1>7, <1>9 DEF SlotsAccountedFor
  <1>11. searchAt' \in [Searches -> SearchPlaces] /\ threads' \subseteq Searches
    BY <1>1, <1>2 DEF GateInv, GateTypeOK, SearchPlaces
  <1>12. ThreadsHaveCallers'
    BY <1>1, <1>2 DEF GateInv, GateTypeOK, ThreadsHaveCallers, Waiting
  <1> QED
    BY <1>7, <1>10, <1>11, <1>12 DEF GateInv, GateTypeOK

\* A step that neither takes nor gives a slot keeps GateInv.
LEMMA SameSlots ==
  ASSUME GateInv, GateTypeOK', ThreadsHaveCallers', capacity' = capacity,
         Holders' = Holders, Woken' = Woken,
         Waiting' # {} => Waiting # {} \/ capacity = 0 \/ Woken # {}
  PROVE  GateInv'
  BY DEF GateInv, SlotsAccountedFor

\* Every step keeps GateInv.
LEMMA GateInvNext == GateInv /\ [GateNext]_gateVars => GateInv'
  <1> SUFFICES ASSUME GateInv, [GateNext]_gateVars PROVE GateInv'
    OBVIOUS
  <1> USE DEF GateInv, GateTypeOK, SearchPlaces, MoveSearch
  <1>1. ASSUME NEW s \in Searches, AcquireGate(s) PROVE GateInv'
    <2>1. Holders \in SUBSET Searches /\ s \notin Holders
      BY <1>1 DEF AcquireGate, ThreadsHaveCallers, Holders, Woken
    <2>2. /\ Cardinality(Holders) \in Nat
          /\ Cardinality(Holders \cup {s}) = Cardinality(Holders) + 1
      BY <2>1, HoldersCount
    <2>3. CASE ~ Locked
      <3>1. /\ searchAt' = [searchAt EXCEPT ![s] = "awaiting"]
            /\ threads' = threads \cup {s} /\ capacity' = capacity - 1
            /\ capacity # 0 /\ Waiting = {}
        BY <1>1, <2>3 DEF AcquireGate, Locked
      <3>2. Holders' = Holders \cup {s} /\ Waiting' = {}
        BY <1>1, <2>3, <3>1 DEF AcquireGate, Holders, Woken, Waiting
      <3>3. SlotsAccountedFor'
        BY <3>1, <3>2, <2>2, MilvusGateAssumption DEF SlotsAccountedFor
      <3>4. ThreadsHaveCallers' /\ GateTypeOK'
        BY <3>1, <2>3, MilvusGateAssumption DEF ThreadsHaveCallers
      <3> QED
        BY <3>3, <3>4
    <2>4. CASE Locked
      <3>1. searchAt' = [searchAt EXCEPT ![s] = "waiting"] /\ UNCHANGED <<threads, capacity>>
        BY <1>1, <2>4 DEF AcquireGate
      <3>2. Holders' = Holders /\ Woken' = Woken
        BY <1>1, <3>1 DEF AcquireGate, Holders, Woken
      <3>3. ThreadsHaveCallers' /\ GateTypeOK'
        BY <1>1, <3>1 DEF AcquireGate, ThreadsHaveCallers
      <3>4. Waiting # {} \/ capacity = 0 \/ Woken # {}
        BY <2>4 DEF Locked
      <3> QED
        BY <3>1, <3>2, <3>3, <3>4, SameSlots
    <2> QED
      BY <2>3, <2>4
  <1>2. ASSUME NEW s \in Searches, StartThread(s) PROVE GateInv'
    <2>1. s \in Holders /\ s \notin Waiting /\ s \notin threads /\ WakeAll(s, "awaiting", capacity)
      BY <1>2 DEF StartThread, Holders, Woken, Waiting, ThreadsHaveCallers
    <2>2. capacity \in Nat /\ Cardinality(Holders) + capacity = GateLimit
      BY MilvusGateAssumption DEF SlotsAccountedFor
    <2>3. threads' = threads \cup {s}
      BY <1>2 DEF StartThread
    <2> QED
      BY <2>1, <2>2, <2>3, WakingKeepsSlots
  <1>3. ASSUME NEW s \in Searches, ThreadEnds(s) PROVE GateInv'
    <2>1. s \in threads /\ threads' = threads \ {s}
      BY <1>3 DEF ThreadEnds
    <2>2. searchAt[s] \in {"awaiting", "cancelled"}
      BY <1>3 DEF ThreadEnds, ThreadsHaveCallers
    <2>3. \/ searchAt[s] = "awaiting" /\ Release(s, "idle")
          \/ searchAt[s] = "cancelled" /\ Release(s, "cancelled")
      BY <1>3, <2>2 DEF ThreadEnds
    <2> QED
      BY <2>1, <2>3, ReleaseKeepsSlots
  <1>4. ASSUME NEW s \in Searches, CancelCaller(s) PROVE GateInv'
    <2>1. Holders' = Holders /\ Waiting' = Waiting /\ Woken' = Woken
      BY <1>4 DEF CancelCaller, Holders, Woken, Waiting
    <2>2. ThreadsHaveCallers' /\ GateTypeOK' /\ capacity' = capacity
      BY <1>4 DEF CancelCaller, ThreadsHaveCallers
    <2> QED
      BY <2>1, <2>2, SameSlots
  <1>5. ASSUME NEW s \in Searches, CancelWaiting(s) PROVE GateInv'
    <2>1. Holders' = Holders /\ Woken' = Woken /\ Waiting # {}
      BY <1>5 DEF CancelWaiting, Holders, Woken, Waiting
    <2>2. ThreadsHaveCallers' /\ GateTypeOK' /\ capacity' = capacity
      BY <1>5 DEF CancelWaiting, ThreadsHaveCallers
    <2> QED
      BY <2>1, <2>2, SameSlots
  <1>6. ASSUME NEW s \in Searches, LeaveQueue(s) PROVE GateInv'
    <2>1. /\ s \notin Holders /\ s \notin Waiting /\ s \notin threads
          /\ WakeAll(s, "cancelled", capacity) /\ threads' = threads
      BY <1>6 DEF LeaveQueue, Holders, Woken, Waiting, ThreadsHaveCallers
    <2>2. capacity \in Nat /\ Cardinality(Holders) + capacity = GateLimit
      BY MilvusGateAssumption DEF SlotsAccountedFor
    <2> QED
      BY <2>1, <2>2, WakingKeepsSlots
  <1>7. ASSUME NEW s \in Searches, CancelWoken(s) PROVE GateInv'
    <2>1. /\ s \in Holders /\ s \notin Waiting /\ s \notin threads
          /\ WakeAll(s, "cancelled", capacity + 1) /\ threads' = threads
      BY <1>7 DEF CancelWoken, Holders, Woken, Waiting, ThreadsHaveCallers
    <2>2. capacity + 1 \in Nat /\ Cardinality(Holders) + capacity = GateLimit
      BY MilvusGateAssumption DEF SlotsAccountedFor
    <2>3. Holders \in SUBSET Searches
      BY DEF Holders, Woken
    <2>4. /\ Cardinality(Holders) \in Nat
          /\ Cardinality(Holders \ {s}) = Cardinality(Holders) - 1
      BY <2>1, <2>3, HoldersCount
    <2>5. Cardinality(Holders \ {s}) + (capacity + 1) = GateLimit
      BY <2>2, <2>4, MilvusGateAssumption
    <2> QED
      BY <2>1, <2>2, <2>5, WakingKeepsSlots
  <1>8. CASE UNCHANGED gateVars
    BY <1>8 DEF gateVars, SlotsAccountedFor, ThreadsHaveCallers, Holders, Woken, Waiting
  <1> QED
    BY <1>1, <1>2, <1>3, <1>4, <1>5, <1>6, <1>7, <1>8 DEF GateNext

\* Every variable of the gate has its type.
THEOREM GateTypeCorrect == GateSpec => []GateTypeOK
  <1>1. GateInv => GateTypeOK
    BY DEF GateInv
  <1> QED
    BY <1>1, GateInvInit, GateInvNext, PTL DEF GateSpec

\* The semaphore bounds the threads in Milvus and loses no slot, for every
\* limit and any number of callers that may be cancelled at any await.
THEOREM SlotsAccountedForHolds == GateSpec => []SlotsAccountedFor
  <1>1. GateInv => SlotsAccountedFor
    BY DEF GateInv
  <1> QED
    BY <1>1, GateInvInit, GateInvNext, PTL DEF GateSpec

-----------------------------------------------------------------------------
(***************************************************************************)
(* A server that is ready serves from migrated tables, for any number of   *)
(* migrators that die wherever they like.                                  *)
(***************************************************************************)
\* The version is recorded only of tables that exist: what a migrator that has
\* created them still has to record is true already.  A table that is there and
\* was not inherited was created whole.
Created == tables = Tables /\ PartsOf(Tables \ inherited) \cup Patched \subseteq parts

RecordedIsCreated ==
    /\ PartsOf(Tables \ inherited) \subseteq parts \cup PartsOf(Tables \ tables)
    /\ recorded = CurrentSchema => Created
    /\ \A m \in Migrators : migratorAt[m] = "created" => Created

SchemaInv == SchemaTypeOK /\ RecordedIsCreated /\ ReadyMeansMigrated

\* SchemaInv holds in a new database and in one of an earlier version.
LEMMA SchemaInvInit == SchemaInit => SchemaInv
  BY SchemaAssumption
     DEF SchemaInit, SchemaInv, SchemaTypeOK, RecordedIsCreated, ReadyMeansMigrated,
         HoldsLock, MigratorPlaces, Created, PartsOf

\* Every step keeps SchemaInv; only CreateTables and RecordVersion touch the
\* database, and only TakeMigrationLock lets a migrator in.
LEMMA SchemaInvNext == SchemaInv /\ [SchemaNext]_schemaVars => SchemaInv'
  <1> SUFFICES ASSUME SchemaInv, [SchemaNext]_schemaVars PROVE SchemaInv'
    OBVIOUS
  <1> USE SchemaAssumption
  <1> USE DEF SchemaInv, SchemaTypeOK, RecordedIsCreated, ReadyMeansMigrated, HoldsLock,
              MigratorPlaces, Created, PartsOf
  <1>1. ASSUME NEW m \in Migrators, TakeMigrationLock(m) PROVE SchemaInv'
    BY <1>1 DEF TakeMigrationLock, MoveMigrator
  <1>2. ASSUME NEW m \in Migrators, ReadVersion(m) PROVE SchemaInv'
    BY <1>2 DEF ReadVersion, MoveMigrator
  <1>3. ASSUME NEW m \in Migrators, CreateTables(m) PROVE SchemaInv'
    BY <1>3 DEF CreateTables, MoveMigrator
  <1>4. ASSUME NEW m \in Migrators, RecordVersion(m) PROVE SchemaInv'
    BY <1>4 DEF RecordVersion, MoveMigrator
  <1>5. ASSUME NEW m \in Migrators, ReleaseMigrationLock(m) PROVE SchemaInv'
    BY <1>5 DEF ReleaseMigrationLock, MoveMigrator
  <1>6. ASSUME NEW m \in Migrators, MigratorDies(m) PROVE SchemaInv'
    BY <1>6 DEF MigratorDies, MoveMigrator
  <1>7. ASSUME NEW m \in Migrators, MigratorRestarts(m) PROVE SchemaInv'
    BY <1>7 DEF MigratorRestarts, MoveMigrator
  <1>8. ASSUME NEW a \in Servers, RequireSchema(a) PROVE SchemaInv'
    BY <1>8 DEF RequireSchema
  <1>9. CASE UNCHANGED schemaVars
    BY <1>9 DEF schemaVars
  <1> QED
    BY <1>1, <1>2, <1>3, <1>4, <1>5, <1>6, <1>7, <1>8, <1>9 DEF SchemaNext

\* Every variable of the migration has its type.
THEOREM SchemaTypeCorrect == SchemaSpec => []SchemaTypeOK
  <1>1. SchemaInv => SchemaTypeOK
    BY DEF SchemaInv
  <1> QED
    BY <1>1, SchemaInvInit, SchemaInvNext, PTL DEF SchemaSpec

\* require_current_schema lets a server through only onto tables of its own
\* version, and the advisory lock keeps migrators apart, for any number of both.
THEOREM ReadyMeansMigratedHolds == SchemaSpec => []ReadyMeansMigrated
  <1>1. SchemaInv => ReadyMeansMigrated
    BY DEF SchemaInv
  <1> QED
    BY <1>1, SchemaInvInit, SchemaInvNext, PTL DEF SchemaSpec

-----------------------------------------------------------------------------
(***************************************************************************)
(* The token accounting: what is stored for a run is what it was billed,   *)
(* and the total of the thread covers its runs, for any number of runs,    *)
(* calls and retries.                                                      *)
(***************************************************************************)
Bucket == [calls: Nat, reported: Nat, tokens: Nat]
Aggregate == [Buckets -> Bucket]
Snapshot == [run: {0} \cup UsageRuns, used: Aggregate, thread: Aggregate]

\* what a call adds to a bucket, and to a total
Counted(bucket, call) ==
    [calls    |-> bucket.calls + 1,
     reported |-> bucket.reported + Reported(call),
     tokens   |-> bucket.tokens + CallTokens * Reported(call)]

LEMMA Counting ==
  ASSUME NEW bucket \in Bucket, NEW call \in ModelCalls
  PROVE  /\ Counted(bucket, call) \in Bucket
         /\ Counted(bucket, call).tokens >= bucket.tokens
  <1>1. CallTokens * Reported(call) \in Nat /\ Reported(call) \in Nat
    BY DEF Reported, CallTokens
  <1> QED
    BY <1>1 DEF Counted, Bucket

\* The total of an aggregate is a bucket, which a call counts in as in its own.
LEMMA Totals ==
  ASSUME NEW aggregate \in Aggregate
  PROVE  /\ Total(aggregate) \in Bucket
         /\ \A call \in ModelCalls :
              /\ AddCall(aggregate, call) \in Aggregate
              /\ Total(AddCall(aggregate, call)) = Counted(Total(aggregate), call)
  <1>1. aggregate["response"] \in Bucket /\ aggregate["unattributed"] \in Bucket
    BY DEF Aggregate, Buckets
  <1>2. Total(aggregate) \in Bucket
    BY <1>1 DEF Total, Bucket
  <1>3. ASSUME NEW call \in ModelCalls
        PROVE  /\ AddCall(aggregate, call) \in Aggregate
               /\ Total(AddCall(aggregate, call)) = Counted(Total(aggregate), call)
    <2>1. call.bucket \in Buckets /\ aggregate[call.bucket] \in Bucket
      BY DEF ModelCalls, Aggregate
    <2>2. AddCall(aggregate, call)
            = [aggregate EXCEPT ![call.bucket] = Counted(aggregate[call.bucket], call)]
      BY DEF AddCall, Counted
    <2>3. AddCall(aggregate, call) \in Aggregate
      BY <2>1, <2>2, Counting DEF Aggregate
    <2>4. CallTokens * Reported(call) \in Nat /\ Reported(call) \in Nat
      BY DEF Reported, CallTokens
    <2>. HIDE DEF CallTokens
    <2>5. CASE call.bucket = "response"
      <3>1. /\ AddCall(aggregate, call)["response"] = Counted(aggregate["response"], call)
            /\ AddCall(aggregate, call)["unattributed"] = aggregate["unattributed"]
        BY <2>2, <2>5 DEF Aggregate, Buckets
      <3> QED
        BY <1>1, <2>3, <2>4, <3>1 DEF Total, Counted, Bucket
    <2>6. CASE call.bucket = "unattributed"
      <3>1. /\ AddCall(aggregate, call)["unattributed"] = Counted(aggregate["unattributed"], call)
            /\ AddCall(aggregate, call)["response"] = aggregate["response"]
        BY <2>2, <2>6 DEF Aggregate, Buckets
      <3> QED
        BY <1>1, <2>3, <2>4, <3>1 DEF Total, Counted, Bucket
    <2> QED
      BY <2>1, <2>5, <2>6 DEF Buckets
  <1> QED
    BY <1>2, <1>3

LEMMA Empties ==
  /\ NoBucket \in Bucket
  /\ EmptyAggregate \in Aggregate
  /\ Total(EmptyAggregate) = NoBucket
  BY DEF NoBucket, Bucket, EmptyAggregate, Aggregate, Buckets, Total

-----------------------------------------------------------------------------
(* Every variable has its type.                                             *)

\* UsageTypeOK by its parts
Typed ==
    /\ snapshot \in Snapshot /\ live \in Snapshot
    /\ seen \in Aggregate /\ heard \in BOOLEAN
    /\ stored \in [UsageRuns -> Aggregate]
    /\ ending \in [UsageRuns -> {"none", "completed", "failed", "cancelled", "lost"}]
    /\ current \in [run: 1..(RunCount + 1), running: BOOLEAN]
    /\ restarts \in 0..MaxRestarts
    /\ billed \in [UsageRuns -> Bucket]

LEMMA TypedIsTypeOK == Typed <=> UsageTypeOK
  BY DEF Typed, UsageTypeOK, Snapshot, Aggregate, Bucket

\* A run is executed while it is one of the thread's.
Executing == current.running => current.run \in UsageRuns

LEMMA TypedInit == UsageInit => Typed /\ Executing
  <1> SUFFICES ASSUME UsageInit PROVE Typed /\ Executing
    OBVIOUS
  <1>1. NoUsage \in Snapshot
    BY Empties DEF NoUsage, Snapshot
  <1> QED
    <2>1. /\ snapshot \in Snapshot /\ live \in Snapshot /\ seen \in Aggregate /\ heard \in BOOLEAN
          /\ stored \in [UsageRuns -> Aggregate] /\ billed \in [UsageRuns -> Bucket]
          /\ ending \in [UsageRuns -> {"none", "completed", "failed", "cancelled", "lost"}]
      BY <1>1, Empties DEF UsageInit
    <2>2. /\ current \in [run: 1..(RunCount + 1), running: BOOLEAN] /\ ~ current.running
          /\ restarts \in 0..MaxRestarts
      BY TokenUsageAssumption DEF UsageInit
    <2> QED
      BY <2>1, <2>2 DEF Typed, Executing

\* What the call of a run gives the state of its graph and its bill
LEMMA CallTypes ==
  ASSUME Typed, Executing, current.running, NEW call \in ModelCalls
  PROVE  /\ AfterCall(call) \in Snapshot
         /\ AfterCall(call).run = live.run
         /\ AfterCall(call).used = AddCall(live.used, call)
         /\ AfterCall(call).thread = AddCall(live.thread, call)
         /\ Bill(call) => billed' = [billed EXCEPT ![current.run] = Counted(@, call)]
         /\ Bill(call) => billed' \in [UsageRuns -> Bucket]
  <1>1. AddCall(live.used, call) \in Aggregate /\ AddCall(live.thread, call) \in Aggregate
    BY Totals DEF Typed, Snapshot
  <1>2. Counted(billed[current.run], call) \in Bucket
    BY Counting DEF Typed, Executing
  <1>3. Bill(call) => billed' = [billed EXCEPT ![current.run] = Counted(@, call)]
    BY DEF Bill, Counted
  <1>4. Bill(call) => billed' \in [UsageRuns -> Bucket]
    BY <1>2, <1>3 DEF Typed, Executing
  <1>5. live \in Snapshot
    BY DEF Typed
  <1>6. AfterCall(call) = [live EXCEPT !.used = AddCall(live.used, call),
                                      !.thread = AddCall(live.thread, call)]
    BY DEF AfterCall
  <1>7. /\ AfterCall(call) \in Snapshot
        /\ AfterCall(call).run = live.run
        /\ AfterCall(call).used = AddCall(live.used, call)
        /\ AfterCall(call).thread = AddCall(live.thread, call)
    BY <1>1, <1>5, <1>6 DEF Snapshot
  <1> QED
    BY <1>3, <1>4, <1>7

LEMMA EntryTypes ==
  ASSUME Typed, NEW r \in UsageRuns
  PROVE  OnEntry(r) \in Snapshot
  BY Empties DEF OnEntry, Typed, Snapshot, ThreadBefore

LEMMA TypedStep == Typed /\ Executing /\ [UsageNext]_usageVars => Typed' /\ Executing'
  <1> SUFFICES ASSUME Typed, Executing, [UsageNext]_usageVars PROVE Typed' /\ Executing'
    OBVIOUS
  <1>n. RunCount \in Nat /\ MaxRestarts \in Nat
    BY TokenUsageAssumption
  <1>0. current.run \in Int
    BY <1>n DEF Typed
  <1>1. CASE Enter
    <2>1. live' \in Snapshot /\ seen' \in Aggregate
      BY <1>1, EntryTypes, Empties DEF Enter
    <2> QED
      BY <1>1, <2>1 DEF Enter, Typed, Executing
  <1>f. CASE FirstUpdate
    BY <1>f DEF FirstUpdate, Typed, Snapshot, Executing
  <1>2. CASE ModelCall
    <2>1. PICK call \in ModelCalls :
            live' = AfterCall(call) /\ seen' = AfterCall(call).used /\ Bill(call)
      BY <1>2 DEF ModelCall
    <2>2. live' \in Snapshot /\ seen' \in Aggregate /\ billed' \in [UsageRuns -> Bucket]
      BY <1>2, <2>1, CallTypes DEF ModelCall, Snapshot
    <2> QED
      BY <1>2, <2>2 DEF ModelCall, Typed, Executing
  <1>3. CASE Checkpoint
    BY <1>3 DEF Checkpoint, Typed, Executing
  <1>4. CASE EndRun
    BY <1>4, <1>n DEF EndRun, NextRun, StoreSeen, LastCheckpoint, Typed, Executing, UsageRuns
  <1>5. CASE CancelRun
    <2>2. snapshot' \in Snapshot /\ billed' \in [UsageRuns -> Bucket]
      BY <1>5, CallTypes DEF CancelRun, LastCheckpoint, Typed
    <2>3. /\ ending' = [ending EXCEPT ![current.run] = "cancelled"]
          /\ stored' \in {stored, [stored EXCEPT ![current.run] = seen]}
          /\ current' = [run |-> current.run + 1, running |-> FALSE] /\ restarts' = 0
          /\ live' = live /\ seen' = seen /\ heard' = heard
      BY <1>5 DEF CancelRun, NextRun, StoreSeen
    <2>4. current.run \in UsageRuns
      BY <1>5 DEF CancelRun, Executing
    <2>5. /\ stored' \in [UsageRuns -> Aggregate] /\ live' \in Snapshot
          /\ seen' \in Aggregate /\ heard' \in BOOLEAN
          /\ ending' \in [UsageRuns -> {"none", "completed", "failed", "cancelled", "lost"}]
      BY <2>3, <2>4 DEF Typed
    <2>6. /\ current' \in [run: 1..(RunCount + 1), running: BOOLEAN] /\ ~ current'.running
          /\ restarts' \in 0..MaxRestarts
      BY <1>n, <2>3, <2>4 DEF UsageRuns
    <2> QED
      BY <2>2, <2>5, <2>6 DEF Typed, Executing
  <1>6. CASE RestartRun
    <2>1. restarts' \in 0..MaxRestarts
      BY <1>6, <1>n DEF RestartRun, Typed
    <2>2. current' = [run |-> current.run, running |-> FALSE]
      BY <1>6 DEF RestartRun, Typed
    <2> QED
      BY <1>6, <1>0, <2>1, <2>2 DEF RestartRun, LastCheckpoint, Typed, Executing
  <1>7. CASE LoseRun
    BY <1>7, <1>n DEF LoseRun, NextRun, Typed, Executing, UsageRuns
  <1>8. CASE UNCHANGED usageVars
    BY <1>8 DEF usageVars, Typed, Executing
  <1> QED
    BY <1>1, <1>f, <1>2, <1>3, <1>4, <1>5, <1>6, <1>7, <1>8 DEF UsageNext

\* Every variable of the token accounting has its type.
THEOREM UsageTypeCorrect == UsageSpec => []UsageTypeOK
  <1>1. UsageSpec => [](Typed /\ Executing)
    BY TypedInit, TypedStep, PTL DEF UsageSpec
  <1> QED
    BY <1>1, TypedIsTypeOK, PTL
-----------------------------------------------------------------------------
(***************************************************************************)
(* What is stored for a run is what it was billed.  While a run executes,  *)
(* its graph knows what it was billed so far, and so does the worker once  *)
(* it has heard of it; until then and between two attempts the checkpoint  *)
(* holds it, under the number of the run; a run that has not started has   *)
(* used nothing.                                                           *)
(***************************************************************************)
InOrder ==
    /\ snapshot.run <= current.run
    /\ \A r \in UsageRuns :
        /\ r >= current.run => stored[r] = EmptyAggregate /\ ending[r] = "none"
        /\ r > current.run => billed[r] = NoBucket

AttemptIsBilled ==
    current.running =>
        /\ live.run = current.run
        /\ Total(live.used) = billed[current.run]
        /\ seen = IF heard THEN live.used ELSE EmptyAggregate

CheckpointIsBilled ==
    ~ (current.running /\ heard) /\ current.run \in UsageRuns =>
        billed[current.run] = Total(IF SameRun(current.run) THEN snapshot.used ELSE EmptyAggregate)

UsageInv ==
    /\ Typed /\ Executing
    /\ InOrder /\ AttemptIsBilled /\ CheckpointIsBilled /\ StoredUsageIsBilled

LEMMA UsageInvInit == UsageInit => UsageInv
  <1> SUFFICES ASSUME UsageInit PROVE UsageInv
    OBVIOUS
  <1>1. Typed /\ Executing
    BY TypedInit
  <1>2. InOrder
    BY DEF UsageInit, InOrder, NoUsage
  <1>3. AttemptIsBilled
    BY DEF UsageInit, AttemptIsBilled
  <1>4. CheckpointIsBilled
    BY Empties DEF UsageInit, CheckpointIsBilled, NoUsage, SameRun
  <1>5. StoredUsageIsBilled
    BY Empties DEF UsageInit, StoredUsageIsBilled, NoBucket
  <1> QED
    BY <1>1, <1>2, <1>3, <1>4, <1>5 DEF UsageInv

\* The run in progress ends: the next one has used nothing, and the checkpoint
\* is of an earlier one.
LEMMA NextRunBegins ==
  ASSUME UsageInv, Typed', NextRun, current.run \in UsageRuns, snapshot'.run <= current.run,
         \A r \in UsageRuns : r # current.run =>
            stored'[r] = stored[r] /\ ending'[r] = ending[r] /\ billed'[r] = billed[r]
  PROVE  InOrder' /\ AttemptIsBilled' /\ CheckpointIsBilled'
  <1>1. current.run \in Int /\ \A r \in UsageRuns : r \in Int
    BY TokenUsageAssumption DEF UsageRuns
  <1>2. current'.run = current.run + 1 /\ current'.running = FALSE
    BY DEF NextRun
  <1>3. \A r \in UsageRuns : r > current.run => billed'[r] = NoBucket
    BY <1>1 DEF UsageInv, InOrder
  <1>4. \A r \in UsageRuns : r >= current.run + 1 => stored'[r] = EmptyAggregate /\ ending'[r] = "none"
    BY <1>1 DEF UsageInv, InOrder
  <1>5. snapshot'.run \in Int
    BY TokenUsageAssumption DEF Typed, Snapshot, UsageRuns
  <1>6. InOrder'
    BY <1>1, <1>2, <1>3, <1>4, <1>5 DEF InOrder
  <1>7. AttemptIsBilled'
    BY <1>2 DEF AttemptIsBilled
  <1>8. ~ SameRun(current.run)'
    BY <1>1, <1>2, <1>5 DEF SameRun
  <1>9. CheckpointIsBilled'
    BY <1>1, <1>2, <1>3, <1>8, Empties DEF CheckpointIsBilled
  <1> QED
    BY <1>6, <1>7, <1>9

\* The figures of the runs that are not in progress stay.
LEMMA OthersStay ==
  ASSUME UsageInv, Typed',
         \A r \in UsageRuns : r # current.run =>
            stored'[r] = stored[r] /\ ending'[r] = ending[r] /\ billed'[r] = billed[r],
         current.run \in UsageRuns =>
            /\ ending'[current.run] = "completed" =>
                  Total(stored'[current.run]) = billed'[current.run]
            /\ ending'[current.run] = "failed" =>
                  Total(stored'[current.run]) \in {billed'[current.run], NoBucket}
            /\ Total(stored'[current.run]).tokens <= billed'[current.run].tokens
  PROVE  StoredUsageIsBilled'
  BY DEF UsageInv, StoredUsageIsBilled

LEMMA UsageInvStep == UsageInv /\ [UsageNext]_usageVars => UsageInv'
  <1> SUFFICES ASSUME UsageInv, [UsageNext]_usageVars PROVE UsageInv'
    OBVIOUS
  <1>. DEFINE now == current.run
  <1>t. Typed' /\ Executing' /\ Typed /\ Executing
    BY TypedStep DEF UsageInv
  <1>n. /\ now \in Int /\ snapshot.run \in Int /\ live.run \in Int
        /\ \A r \in UsageRuns : r \in Int
    BY <1>t, TokenUsageAssumption DEF Typed, UsageRuns, Snapshot
  <1>s. ASSUME current.running
        PROVE  /\ now \in UsageRuns /\ live.run = now
               /\ Total(live.used) = billed[now]
               /\ seen = IF heard THEN live.used ELSE EmptyAggregate
               /\ stored[now] = EmptyAggregate /\ ending[now] = "none"
               /\ billed[now] \in Bucket
    BY <1>s, <1>t, <1>n DEF Typed, Executing, UsageInv, InOrder, AttemptIsBilled
  <1>b. ASSUME current.running
        PROVE  /\ Total(seen) = (IF heard THEN billed[now] ELSE NoBucket)
               /\ Total(seen).tokens <= billed[now].tokens
    BY <1>b, <1>s, Empties DEF NoBucket, Bucket
  <1>r. ASSUME current.running, StoreSeen
        PROVE  stored' = [stored EXCEPT ![now] = seen] /\ stored'[now] = seen
    BY <1>r, <1>s, <1>t DEF StoreSeen, Typed
  <1>l. ASSUME current.running, LastCheckpoint PROVE snapshot'.run <= now
    BY <1>l, <1>n, <1>s DEF LastCheckpoint, UsageInv, InOrder
  <1>1. CASE Enter
    <2>0. UNCHANGED <<snapshot, stored, ending, restarts, billed>>
      BY <1>1 DEF Enter
    <2>1. /\ now \in UsageRuns /\ ~ current.running
          /\ current'.run = now /\ current'.running = TRUE
      BY <1>1, <1>t DEF Enter, Typed
    <2>2. /\ live'.run = now /\ seen' = EmptyAggregate /\ heard' = FALSE
          /\ live'.used = IF SameRun(now) THEN snapshot.used ELSE EmptyAggregate
      BY <1>1 DEF Enter, OnEntry
    <2>3. billed[now] = Total(IF SameRun(now) THEN snapshot.used ELSE EmptyAggregate)
      BY <2>1 DEF UsageInv, CheckpointIsBilled
    <2>4. InOrder'
      BY <2>0, <2>1 DEF UsageInv, InOrder
    <2>5. AttemptIsBilled'
      BY <2>0, <2>1, <2>2, <2>3 DEF AttemptIsBilled
    <2>6. CheckpointIsBilled'
      BY <2>0, <2>1, <2>3 DEF CheckpointIsBilled, SameRun
    <2>7. StoredUsageIsBilled'
      BY <2>0 DEF UsageInv, StoredUsageIsBilled
    <2> QED
      BY <1>t, <2>4, <2>5, <2>6, <2>7 DEF UsageInv
  <1>f. CASE FirstUpdate
    <2>1. /\ current.running /\ seen' = live.used /\ heard' = TRUE
          /\ UNCHANGED <<snapshot, live, stored, ending, current, billed>>
      BY <1>f DEF FirstUpdate
    <2>2. AttemptIsBilled' /\ CheckpointIsBilled'
      BY <1>s, <2>1 DEF AttemptIsBilled, CheckpointIsBilled
    <2>3. InOrder' /\ StoredUsageIsBilled'
      BY <2>1 DEF UsageInv, InOrder, StoredUsageIsBilled
    <2> QED
      BY <1>t, <2>2, <2>3 DEF UsageInv
  <1>2. CASE ModelCall
    <2>1. PICK call \in ModelCalls :
            live' = AfterCall(call) /\ seen' = AfterCall(call).used /\ Bill(call)
      BY <1>2 DEF ModelCall
    <2>2. current.running /\ heard /\ UNCHANGED <<snapshot, heard, stored, ending, current, restarts>>
      BY <1>2 DEF ModelCall
    <2>3. /\ live'.run = now /\ seen' = live'.used
          /\ live'.used = AddCall(live.used, call)
          /\ billed' = [billed EXCEPT ![now] = Counted(@, call)]
      BY <1>t, <1>s, <2>1, <2>2, CallTypes
    <2>4. Total(live'.used) = Counted(Total(live.used), call)
      BY <1>t, <2>3, Totals DEF Typed, Snapshot
    <2>5. /\ \A r \in UsageRuns : r # now => billed'[r] = billed[r]
          /\ billed'[now] = Counted(billed[now], call)
      BY <1>s, <1>t, <2>2, <2>3 DEF Typed
    <2>6. AttemptIsBilled' /\ CheckpointIsBilled'
      BY <1>s, <2>2, <2>3, <2>4, <2>5 DEF AttemptIsBilled, CheckpointIsBilled
    <2>7. InOrder'
      BY <1>n, <2>2, <2>5 DEF UsageInv, InOrder
    <2>8. billed'[now] \in Bucket
      BY <1>t, <1>s, <2>2 DEF Typed
    <2>9. StoredUsageIsBilled'
      BY <1>t, <1>s, <2>2, <2>5, <2>8, OthersStay, Empties DEF NoBucket, Bucket
    <2> QED
      BY <1>t, <2>6, <2>7, <2>9 DEF UsageInv
  <1>3. CASE Checkpoint
    <2>1. current.running /\ UNCHANGED <<live, seen, heard, stored, ending, current, restarts, billed>>
          /\ snapshot' = live
      BY <1>3 DEF Checkpoint
    <2>2. InOrder'
      BY <1>n, <1>s, <2>1 DEF UsageInv, InOrder
    <2>3. AttemptIsBilled' /\ StoredUsageIsBilled'
      BY <2>1 DEF UsageInv, AttemptIsBilled, StoredUsageIsBilled
    <2>4. CheckpointIsBilled'
      BY <1>s, <2>1 DEF CheckpointIsBilled, SameRun
    <2> QED
      BY <1>t, <2>2, <2>3, <2>4 DEF UsageInv
  <1>4. CASE EndRun
    <2>1. PICK how \in IF heard THEN {"completed", "failed"} ELSE {"failed"} :
            ending' = [ending EXCEPT ![now] = how]
      BY <1>4 DEF EndRun
    <2>2. /\ current.running /\ NextRun
          /\ LastCheckpoint /\ billed' = billed /\ StoreSeen
      BY <1>4 DEF EndRun
    <2>3. \A r \in UsageRuns : r # now =>
            stored'[r] = stored[r] /\ ending'[r] = ending[r] /\ billed'[r] = billed[r]
      BY <1>t, <1>r, <2>1, <2>2 DEF Typed
    <2>4. InOrder' /\ AttemptIsBilled' /\ CheckpointIsBilled'
      BY <1>s, <1>t, <1>l, <2>2, <2>3, NextRunBegins
    <2>5. /\ ending'[now] \in {"completed", "failed"}
          /\ ending'[now] = "completed" => heard
      BY <1>s, <1>t, <2>1, <2>2 DEF Typed
    <2>6. StoredUsageIsBilled'
      BY <1>b, <1>r, <1>s, <1>t, <2>2, <2>3, <2>5, OthersStay
    <2> QED
      BY <1>t, <2>4, <2>6 DEF UsageInv
  <1>5. CASE CancelRun
    <2>1. /\ current.running /\ NextRun
          /\ ending' = [ending EXCEPT ![now] = "cancelled"] /\ StoreSeen
      BY <1>5 DEF CancelRun
    <2>2. /\ \A r \in UsageRuns : r # now => billed'[r] = billed[r]
          /\ billed'[now].tokens >= billed[now].tokens
          /\ snapshot'.run <= now
      <3>. DEFINE Goal == /\ \A r \in UsageRuns : r # now => billed'[r] = billed[r]
                          /\ billed'[now].tokens >= billed[now].tokens
                          /\ snapshot'.run <= now
      <3>1. ASSUME NEW call \in ModelCalls, Bill(call), snapshot' \in {live, AfterCall(call)}
            PROVE  Goal
        <4>1. /\ AfterCall(call).run = now
              /\ billed' = [billed EXCEPT ![now] = Counted(@, call)]
          BY <1>t, <1>s, <2>1, <3>1, CallTypes
        <4>2. Counted(billed[now], call).tokens >= billed[now].tokens
          BY <1>s, <2>1, Counting
        <4> QED
          BY <1>n, <1>s, <1>t, <2>1, <3>1, <4>1, <4>2 DEF Typed
      <3>2. ASSUME LastCheckpoint, billed' = billed
            PROVE  Goal
        BY <1>l, <1>s, <2>1, <3>2 DEF Bucket
      <3> QED
        BY <1>5, <3>1, <3>2 DEF CancelRun
    <2>3. \A r \in UsageRuns : r # now =>
            stored'[r] = stored[r] /\ ending'[r] = ending[r] /\ billed'[r] = billed[r]
      BY <1>t, <1>r, <2>1, <2>2 DEF Typed
    <2>4. InOrder' /\ AttemptIsBilled' /\ CheckpointIsBilled'
      BY <1>s, <1>t, <2>1, <2>2, <2>3, NextRunBegins
    <2>5. stored'[now] = seen /\ ending'[now] = "cancelled"
      BY <1>r, <1>s, <1>t, <2>1 DEF Typed
    <2>6. Total(stored'[now]).tokens <= billed'[now].tokens
      <3>1. billed'[now] \in Bucket /\ Total(seen) \in Bucket
        BY <1>t, <1>s, <2>1, Totals DEF Typed
      <3> QED
        BY <1>b, <1>s, <2>1, <2>2, <2>5, <3>1 DEF Bucket
    <2>7. StoredUsageIsBilled'
      BY <1>t, <2>3, <2>5, <2>6, OthersStay
    <2> QED
      BY <1>t, <2>4, <2>7 DEF UsageInv
  <1>6. CASE RestartRun
    <2>1. /\ current.running /\ LastCheckpoint
          /\ UNCHANGED <<live, seen, stored, ending, billed>>
      BY <1>6 DEF RestartRun
    <2>2. current'.run = now /\ current'.running = FALSE
      BY <1>6, <1>t DEF RestartRun, Typed
    <2>3. InOrder'
      BY <1>n, <1>l, <2>1, <2>2 DEF UsageInv, InOrder
    <2>4. AttemptIsBilled'
      BY <2>2 DEF AttemptIsBilled
    <2>5. CheckpointIsBilled'
      <3>1. CASE snapshot' = live
        BY <1>s, <2>1, <2>2, <3>1 DEF CheckpointIsBilled, SameRun
      <3>2. CASE ~ heard /\ snapshot' = snapshot
        BY <1>s, <2>1, <2>2, <3>2 DEF UsageInv, CheckpointIsBilled, SameRun
      <3> QED
        BY <2>1, <3>1, <3>2 DEF LastCheckpoint
    <2>6. StoredUsageIsBilled'
      BY <2>1 DEF UsageInv, StoredUsageIsBilled
    <2> QED
      BY <1>t, <2>3, <2>4, <2>5, <2>6 DEF UsageInv
  <1>7. CASE LoseRun
    <2>1. /\ current.running /\ NextRun
          /\ ending' = [ending EXCEPT ![now] = "lost"]
          /\ UNCHANGED <<snapshot, live, seen, stored, billed>>
      BY <1>7 DEF LoseRun
    <2>2. \A r \in UsageRuns : r # now =>
            stored'[r] = stored[r] /\ ending'[r] = ending[r] /\ billed'[r] = billed[r]
      BY <1>t, <2>1 DEF Typed
    <2>3. snapshot'.run <= now
      BY <2>1 DEF UsageInv, InOrder
    <2>4. InOrder' /\ AttemptIsBilled' /\ CheckpointIsBilled'
      BY <1>s, <1>t, <2>1, <2>2, <2>3, NextRunBegins
    <2>5. /\ ending'[now] = "lost"
          /\ Total(stored'[now]).tokens <= billed'[now].tokens
      BY <1>s, <1>t, <2>1 DEF Typed, UsageInv, StoredUsageIsBilled
    <2>6. StoredUsageIsBilled'
      BY <1>t, <2>2, <2>5, OthersStay
    <2> QED
      BY <1>t, <2>4, <2>6 DEF UsageInv
  <1>8. CASE UNCHANGED usageVars
    BY <1>8, <1>t DEF usageVars, UsageInv, InOrder, AttemptIsBilled, CheckpointIsBilled,
                      StoredUsageIsBilled, SameRun
  <1> QED
    BY <1>1, <1>f, <1>2, <1>3, <1>4, <1>5, <1>6, <1>7, <1>8 DEF UsageNext

\* Whatever the number of runs, calls and retries, and whatever ran before it
\* on the thread: a run that completed is stored with what it was billed, one
\* that failed with that or nothing, and no run with more.
THEOREM StoredUsageIsBilledHolds == UsageSpec => []StoredUsageIsBilled
  <1>1. UsageInv => StoredUsageIsBilled
    BY DEF UsageInv
  <1> QED
    BY <1>1, UsageInvInit, UsageInvStep, PTL DEF UsageSpec

-----------------------------------------------------------------------------
(***************************************************************************)
(* The thread's total covers its runs.  It holds what is stored of the     *)
(* earlier runs and, in the state of the graph or in the checkpoint the    *)
(* next attempt starts from, what the run in progress has used besides.    *)
(***************************************************************************)
Spent == SumOf(StoredTokens, UsageRuns)

ThreadInv ==
    /\ Spent <= Total(snapshot.thread).tokens
    /\ current.running => Spent + Total(live.used).tokens <= Total(live.thread).tokens
    /\ SameRun(current.run) =>
          Spent + Total(snapshot.used).tokens <= Total(snapshot.thread).tokens

LEMMA RunsFinite == IsFiniteSet(UsageRuns)
  BY TokenUsageAssumption, FS_Interval DEF UsageRuns

LEMMA SpentIsNat == Typed => Spent \in Nat
  <1> SUFFICES ASSUME Typed PROVE Spent \in Nat
    OBVIOUS
  <1>1. StoredTokens \in [UsageRuns -> Nat]
    BY Totals DEF Typed, StoredTokens, Bucket
  <1>2. CASE UsageRuns = {}
    <2>1. \A r \in UsageRuns : StoredTokens[r] = 0
      BY <1>2
    <2>2. SumOf(StoredTokens, UsageRuns) = 0
      BY Zenon, <1>1, <2>1, RunsFinite, SumOfZeros
    <2> QED
      BY <2>2 DEF Spent
  <1>3. CASE UsageRuns # {}
    <2>1. PICK x \in UsageRuns : TRUE
      BY <1>3
    <2> QED
      BY <1>1, <2>1, RunsFinite, SumUpdate DEF Spent
  <1> QED
    BY <1>2, <1>3

\* Storing what the worker has seen of a run adds it to what is spent.
LEMMA SpentGrows ==
  ASSUME Typed, Typed', NEW x \in UsageRuns, stored[x] = EmptyAggregate,
         stored' = [stored EXCEPT ![x] = seen]
  PROVE  Spent' = Spent + Total(seen).tokens
  <1>1. StoredTokens \in [UsageRuns -> Nat] /\ StoredTokens' \in [UsageRuns -> Nat]
    BY Totals DEF Typed, StoredTokens, Bucket
  <1>2. /\ StoredTokens[x] = 0 /\ StoredTokens'[x] = Total(seen).tokens
        /\ \A y \in UsageRuns \ {x} : StoredTokens'[y] = StoredTokens[y]
    BY Empties DEF Typed, StoredTokens, NoBucket
  <1>3. Spent' = Spent + StoredTokens'[x] - StoredTokens[x]
    BY <1>1, <1>2, RunsFinite, SumUpdate DEF Spent
  <1> QED
    BY <1>1, <1>2, <1>3, SpentIsNat

LEMMA ThreadInvInit == UsageInit => ThreadInv
  <1> SUFFICES ASSUME UsageInit PROVE ThreadInv
    OBVIOUS
  <1>1. StoredTokens \in [UsageRuns -> Nat] /\ \A r \in UsageRuns : StoredTokens[r] = 0
    BY Empties DEF UsageInit, StoredTokens, NoBucket
  <1>2. Spent = 0
    <2>1. SumOf(StoredTokens, UsageRuns) = 0
      BY Zenon, <1>1, RunsFinite, SumOfZeros
    <2> QED
      BY <2>1 DEF Spent
  <1> QED
    BY <1>2, Empties DEF UsageInit, ThreadInv, SameRun, NoUsage, NoBucket

LEMMA ThreadInvStep ==
  UsageInv /\ UsageInv' /\ ThreadInv /\ [UsageNext]_usageVars => ThreadInv'
  <1> SUFFICES ASSUME UsageInv, UsageInv', ThreadInv, [UsageNext]_usageVars PROVE ThreadInv'
    OBVIOUS
  <1>. DEFINE now == current.run
              T(aggregate) == Total(aggregate).tokens
  <1>t. Typed /\ Typed' /\ Executing
    BY DEF UsageInv
  <1>n. Spent \in Nat /\ now \in Int
    BY <1>t, SpentIsNat, TokenUsageAssumption DEF Typed
  <1>a. \A aggregate \in Aggregate : T(aggregate) \in Nat
    BY Totals DEF Bucket
  <1>b. /\ snapshot.used \in Aggregate /\ snapshot.thread \in Aggregate
        /\ live.used \in Aggregate /\ live.thread \in Aggregate
    BY <1>t DEF Typed, Snapshot
  <1>s. ASSUME current.running
        PROVE  /\ now \in UsageRuns /\ live.run = now /\ stored[now] = EmptyAggregate
               /\ T(seen) \in Nat /\ T(seen) <= T(live.used)
               /\ Spent + T(live.used) <= T(live.thread)
    <2>1. /\ now \in UsageRuns /\ live.run = now /\ stored[now] = EmptyAggregate
          /\ seen = IF heard THEN live.used ELSE EmptyAggregate
      BY <1>s, <1>t, <1>n DEF Executing, UsageInv, InOrder, AttemptIsBilled
    <2>2. T(seen) \in Nat /\ T(seen) <= T(live.used)
      BY <1>a, <1>b, <2>1, Empties DEF NoBucket
    <2> QED
      BY <1>s, <2>1, <2>2 DEF ThreadInv
  <1>r. ASSUME current.running, StoreSeen PROVE Spent' = Spent + T(seen)
    <2>1. stored' = [stored EXCEPT ![now] = seen]
      BY <1>r, <1>s, <1>t DEF StoreSeen, UsageInv, AttemptIsBilled, Typed
    <2> QED
      BY <1>r, <1>s, <1>t, <2>1, SpentGrows
  <1>e. ASSUME NextRun, snapshot'.run <= now, Spent' <= T(snapshot'.thread) PROVE ThreadInv'
    <2>1. current'.run = now + 1 /\ current'.running = FALSE
      BY <1>e DEF NextRun
    <2>2. snapshot'.run \in Int
      BY <1>t, TokenUsageAssumption DEF Typed, Snapshot, UsageRuns
    <2>3. snapshot'.run # current'.run
      BY <1>e, <1>n, <2>1, <2>2
    <2> QED
      BY <1>e, <2>1, <2>3 DEF ThreadInv, SameRun
  <1>u. ASSUME stored' = stored PROVE Spent' = Spent
    BY <1>u DEF Spent, StoredTokens
  <1>c. ASSUME current.running, NEW call \in ModelCalls
        PROVE  /\ AfterCall(call).run = live.run
               /\ T(AfterCall(call).used) \in Nat /\ T(AfterCall(call).thread) \in Nat
               /\ T(AfterCall(call).used) - T(live.used)
                     = T(AfterCall(call).thread) - T(live.thread)
               /\ T(AfterCall(call).used) >= T(live.used)
    <2>1. /\ AfterCall(call).run = live.run
          /\ AfterCall(call).used = AddCall(live.used, call)
          /\ AfterCall(call).thread = AddCall(live.thread, call)
      BY <1>c, <1>t, CallTypes
    <2>2. /\ Total(AddCall(live.used, call)) = Counted(Total(live.used), call)
          /\ Total(AddCall(live.thread, call)) = Counted(Total(live.thread), call)
          /\ AddCall(live.used, call) \in Aggregate /\ AddCall(live.thread, call) \in Aggregate
      BY <1>b, Totals
    <2>3. CallTokens * Reported(call) \in Nat
      BY DEF CallTokens, Reported
    <2>4. /\ T(AddCall(live.used, call)) = T(live.used) + CallTokens * Reported(call)
          /\ T(AddCall(live.thread, call)) = T(live.thread) + CallTokens * Reported(call)
      BY <2>2 DEF Counted
    <2> QED
      BY <1>a, <1>b, <2>1, <2>2, <2>3, <2>4
  <1>k. ASSUME current.running, LastCheckpoint
        PROVE  /\ snapshot'.run <= now
               /\ Spent <= T(snapshot'.thread)
               /\ heard => Spent + T(seen) <= T(snapshot'.thread)
               /\ snapshot'.run = now =>
                     Spent + T(snapshot'.used) <= T(snapshot'.thread)
    <2>1. CASE snapshot' = live
      BY <1>a, <1>b, <1>k, <1>n, <1>s, <2>1
    <2>2. CASE ~ heard /\ snapshot' = snapshot
      BY <1>k, <2>2 DEF ThreadInv, UsageInv, InOrder, SameRun
    <2> QED
      BY <1>k, <2>1, <2>2 DEF LastCheckpoint
  <1>h. ASSUME current.running, StoreSeen, LastCheckpoint
        PROVE  Spent' <= T(snapshot'.thread)
    <2>1. ~ heard => T(seen) = 0
      BY <1>h, Empties DEF UsageInv, AttemptIsBilled, NoBucket
    <2> QED
      BY <1>h, <1>k, <1>n, <1>r, <1>s, <2>1
  <1>1. CASE Enter
    <2>1. /\ ~ current.running /\ current'.running = TRUE /\ current'.run = now
          /\ snapshot' = snapshot /\ stored' = stored
          /\ live'.thread = snapshot.thread
          /\ live'.used = IF SameRun(now) THEN snapshot.used ELSE EmptyAggregate
      BY <1>1, <1>t DEF Enter, Typed, OnEntry, ThreadBefore
    <2>2. Spent + T(live'.used) <= T(live'.thread)
      <3>1. CASE SameRun(now)
        BY <2>1, <3>1 DEF ThreadInv
      <3>2. CASE ~ SameRun(now)
        BY <1>n, <2>1, <3>2, Empties DEF ThreadInv, NoBucket
      <3> QED
        BY <3>1, <3>2
    <2> QED
      BY <1>u, <2>1, <2>2 DEF ThreadInv, SameRun
  <1>f. CASE FirstUpdate
    <2>1. UNCHANGED <<snapshot, live, stored, current>>
      BY <1>f DEF FirstUpdate
    <2> QED
      BY <1>u, <2>1 DEF ThreadInv, SameRun
  <1>2. CASE ModelCall
    <2>1. PICK call \in ModelCalls : live' = AfterCall(call)
      BY <1>2 DEF ModelCall
    <2>2. current.running /\ UNCHANGED <<snapshot, stored, current>>
      BY <1>2 DEF ModelCall
    <2>3. Spent + T(live'.used) <= T(live'.thread)
      BY <1>a, <1>b, <1>c, <1>n, <2>1, <2>2 DEF ThreadInv
    <2> QED
      BY <1>u, <2>2, <2>3 DEF ThreadInv, SameRun
  <1>3. CASE Checkpoint
    <2>1. current.running /\ UNCHANGED <<live, stored, current>> /\ snapshot' = live
      BY <1>3 DEF Checkpoint
    <2>2. Spent <= T(live.thread) /\ Spent + T(live.used) <= T(live.thread)
      BY <1>a, <1>b, <1>n, <1>s, <2>1
    <2> QED
      BY <1>u, <2>1, <2>2 DEF ThreadInv, SameRun
  <1>4. CASE EndRun
    <2>1. current.running /\ NextRun /\ LastCheckpoint /\ StoreSeen
      BY <1>4 DEF EndRun
    <2> QED
      BY <1>e, <1>h, <1>k, <2>1
  <1>5. CASE CancelRun
    <2>1. current.running /\ NextRun /\ StoreSeen
      BY <1>5 DEF CancelRun
    <2>2. ASSUME heard, NEW call \in ModelCalls, snapshot' \in {live, AfterCall(call)}
          PROVE  ThreadInv'
      <3>1. snapshot'.run <= now
        BY <1>c, <1>n, <1>s, <2>1, <2>2
      <3>2. Spent' <= T(snapshot'.thread)
        BY <1>a, <1>b, <1>c, <1>n, <1>r, <1>s, <2>1, <2>2
      <3> QED
        BY <1>e, <2>1, <3>1, <3>2
    <2>3. CASE LastCheckpoint
      BY <1>e, <1>h, <1>k, <2>1, <2>3
    <2> QED
      BY <1>5, <2>2, <2>3 DEF CancelRun
  <1>6. CASE RestartRun
    <2>1. current.running /\ LastCheckpoint /\ stored' = stored
      BY <1>6 DEF RestartRun
    <2>2. current'.run = now /\ current'.running = FALSE
      BY <1>6, <1>t DEF RestartRun, Typed
    <2> QED
      BY <1>k, <1>u, <2>1, <2>2 DEF ThreadInv, SameRun
  <1>7. CASE LoseRun
    <2>1. current.running /\ NextRun /\ snapshot' = snapshot /\ stored' = stored
      BY <1>7 DEF LoseRun
    <2> QED
      BY <1>e, <1>u, <2>1 DEF UsageInv, InOrder, ThreadInv
  <1>8. CASE UNCHANGED usageVars
    BY <1>8, <1>u DEF usageVars, ThreadInv, SameRun
  <1> QED
    BY <1>1, <1>f, <1>2, <1>3, <1>4, <1>5, <1>6, <1>7, <1>8 DEF UsageNext

\* For any number of runs, calls and retries: the total of the thread is never
\* below what its runs together are stored to have used.
THEOREM ThreadCoversRunsHolds == UsageSpec => []ThreadCoversRuns
  <1>1. UsageInv /\ ThreadInv => ThreadCoversRuns
    <2>1. MapThenSumSet(LAMBDA r : StoredTokens[r], UsageRuns) = Spent
      BY Zenon DEF Spent, SumOf
    <2>2. SUFFICES ASSUME UsageInv, ThreadInv PROVE Total(snapshot.thread).tokens >= Spent
      BY Zenon, <2>1 DEF ThreadCoversRuns
    <2>3. Spent \in Nat
      BY <2>2, SpentIsNat DEF UsageInv
    <2>4. Total(snapshot.thread).tokens \in Nat
      BY <2>2, Totals DEF UsageInv, Typed, Snapshot, Bucket
    <2> QED
      BY <2>2, <2>3, <2>4 DEF ThreadInv
  <1>2. UsageSpec => [](UsageInv /\ ThreadInv)
    BY UsageInvInit, UsageInvStep, ThreadInvInit, ThreadInvStep, PTL DEF UsageSpec
  <1> QED
    BY <1>1, <1>2, PTL

-----------------------------------------------------------------------------
(* The setup of the checkpointer                                            *)

\* Every variable of the setup has its type.
THEOREM PoolTypeCorrect == PoolSpec => []PoolTypeOK
  <1>1. PoolInit => PoolTypeOK
    BY DEF PoolInit, PoolTypeOK, JobPlaces
  <1>2. PoolTypeOK /\ [PoolNext]_poolVars => PoolTypeOK'
    <2> SUFFICES ASSUME PoolTypeOK, [PoolNext]_poolVars PROVE PoolTypeOK'
      OBVIOUS
    <2>. USE DEF PoolTypeOK, JobPlaces, MoveJob
    <2>1. CASE UNCHANGED poolVars
      BY <2>1 DEF poolVars
    <2>2. ASSUME NEW j \in SetupJobs,
                 \/ StartSetup(j) \/ Connect(j) \/ TakeAdvisoryLock(j) \/ ConnectAgain(j)
                 \/ SetupFails(j) \/ GiveUpWaiting(j) \/ EndJob(j)
          PROVE  PoolTypeOK'
      BY <2>2 DEF StartSetup, Connect, TakeAdvisoryLock, ConnectAgain, SetupFails,
                  GiveUpWaiting, EndJob
    <2>3. ASSUME NEW j \in SetupJobs, FinishSetup(j) PROVE PoolTypeOK'
      BY <2>3 DEF FinishSetup, Processes
    <2> QED
      BY <2>1, <2>2, <2>3 DEF PoolNext
  <1> QED
    BY <1>1, <1>2, PTL DEF PoolSpec

-----------------------------------------------------------------------------
(***************************************************************************)
(* Side by side: a behaviour of all the components is one of each, so that *)
(* what is proved of a component holds of it there.                        *)
(***************************************************************************)
LEMMA SideBySideInit ==
  AllInit => ChunkInit /\ DocInit /\ UsageInit /\ GateInit /\ SchemaInit /\ PoolInit /\ IngestInit
  BY DEF AllInit

LEMMA SideBySideNext ==
  [AllNext]_allVars =>
    /\ [ChunkNext]_chunkVars /\ [WriteLine]_docVars /\ [UsageNext]_usageVars
    /\ [GateNext]_gateVars /\ [SchemaNext]_schemaVars /\ [PoolNext]_poolVars
    /\ [IngestNext]_ingestVars
  BY DEF AllNext, allVars, ChunkingStep, StructureStep, UsageStep, GateStep, SchemaStep,
         PoolStep, IngestStep

\* A behaviour of the services is a behaviour of each of them.
THEOREM SideBySide ==
  AllSpec => /\ ChunkSpec /\ DocSpec /\ UsageSpec /\ GateSpec
             /\ SchemaSpec /\ PoolSpec /\ IngestSpec
  BY SideBySideInit, SideBySideNext, PTL
     DEF AllSpec, ChunkSpec, DocSpec, UsageSpec, GateSpec, SchemaSpec, PoolSpec, IngestSpec

\* Every variable of the services has its type.
THEOREM AllTypesCorrect == AllSpec => []AllTypesOK
  <1>1. AllSpec => [](/\ ChunkTypeOK /\ DocTypeOK /\ UsageTypeOK /\ GateTypeOK
                      /\ SchemaTypeOK /\ PoolTypeOK /\ IngestTypeOK)
    BY SideBySide, ChunkTypeCorrect, DocTypeCorrect, UsageTypeCorrect, GateTypeCorrect,
       SchemaTypeCorrect, PoolTypeCorrect, IngestTypeCorrect, PTL
  <1> QED
    BY <1>1, PTL DEF AllTypesOK
=============================================================================
