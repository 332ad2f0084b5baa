----------------------------- MODULE MCServices -----------------------------
(***************************************************************************)
(* The components that share no state with the runs or with one another,   *)
(* checked together: a behaviour is a behaviour of one of them, chosen at  *)
(* the start, while the others stay where they begin.                      *)
(***************************************************************************)
EXTENDS Chunking, ChunkStructure, TokenUsage, MilvusGate, SchemaMigration,
        CheckpointerPool, KnowledgeIngestion

CONSTANTS s1, s2, s3, m1, m2, a1, j1, j2, j3, d1, d2

VARIABLE focus \* the component of the behaviour

Focuses == {"chunking", "structure", "usage", "gate", "schema", "pool", "ingestion"}
allVars == <<focus, chunkVars, docVars, usageVars, gateVars, schemaVars, poolVars, ingestVars>>

ThreeSearches == {s1, s2, s3}
TwoMigrators  == {m1, m2}
OneServer     == {a1}
\* Two tables, each with a part that is patched and one that is not
TwoTables     == {"messages", "agent_runs"}
FourParts     == {"messages.run_id", "ix_messages_run_id", "agent_runs.lease_expires_at",
                  "agent_runs.token_usage"}
TableOfPart   == [p \in FourParts |->
                    IF p \in {"messages.run_id", "ix_messages_run_id"} THEN "messages"
                                                                      ELSE "agent_runs"]
PatchedParts  == {"messages.run_id", "agent_runs.lease_expires_at"}
ThreeJobs     == {j1, j2, j3}
TwoProcesses  == [j \in ThreeJobs |-> IF j = j3 THEN "two" ELSE "one"]
TwoDocs       == {d1, d2}
TwoAndNone    == [d \in TwoDocs |-> IF d = d1 THEN 2 ELSE 0]

\* What is written, how long, and with which parser_config
MCChunkConfigs ==
    {[chars |-> {"w", " "}, length |-> 10, delimiter |-> "line", num |-> 2, overlap |-> 0],
     [chars |-> {"w", ".", "/", " "}, length |-> 6, delimiter |-> "line", num |-> 1, overlap |-> 0],
     [chars |-> {"w", "/"}, length |-> 11, delimiter |-> "line", num |-> 2, overlap |-> 50],
     [chars |-> {"w", "."}, length |-> 8, delimiter |-> "line", num |-> 3, overlap |-> 120],
     [chars |-> {"w", "|", "/"}, length |-> 6, delimiter |-> "char", num |-> 1, overlap |-> 0],
     [chars |-> {"w", "|", "/"}, length |-> 6, delimiter |-> "custom", num |-> 1, overlap |-> 0],
     [chars |-> {"w", "/", " "}, length |-> 5, delimiter |-> "line", num |-> -1, overlap |-> 0]}

\* The others start in the first of their initial states.
AllInit ==
    /\ focus \in Focuses
    /\ ChunkInit /\ (focus # "chunking" => config = CHOOSE c \in ChunkConfigs : TRUE)
    /\ DocInit /\ (focus # "structure" => kind = "levels")
    /\ UsageInit /\ GateInit /\ PoolInit /\ IngestInit
    /\ SchemaInit /\ (focus # "schema" => recorded = 0 /\ tables = {})

ChunkingStep  == focus = "chunking" /\ ChunkNext
    /\ UNCHANGED <<focus, docVars, usageVars, gateVars, schemaVars, poolVars, ingestVars>>
StructureStep == focus = "structure" /\ WriteLine
    /\ UNCHANGED <<focus, chunkVars, usageVars, gateVars, schemaVars, poolVars, ingestVars>>
UsageStep     == focus = "usage" /\ UsageNext
    /\ UNCHANGED <<focus, chunkVars, docVars, gateVars, schemaVars, poolVars, ingestVars>>
GateStep      == focus = "gate" /\ GateNext
    /\ UNCHANGED <<focus, chunkVars, docVars, usageVars, schemaVars, poolVars, ingestVars>>
SchemaStep    == focus = "schema" /\ SchemaNext
    /\ UNCHANGED <<focus, chunkVars, docVars, usageVars, gateVars, poolVars, ingestVars>>
PoolStep      == focus = "pool" /\ PoolNext
    /\ UNCHANGED <<focus, chunkVars, docVars, usageVars, gateVars, schemaVars, ingestVars>>
IngestStep    == focus = "ingestion" /\ IngestNext
    /\ UNCHANGED <<focus, chunkVars, docVars, usageVars, gateVars, schemaVars, poolVars>>

AllNext ==
    ChunkingStep \/ StructureStep \/ UsageStep \/ GateStep \/ SchemaStep \/ PoolStep \/ IngestStep

\* Outside its component the fairness of a component is of actions that cannot
\* be taken.
AllSpec == AllInit /\ [][AllNext]_allVars /\ IngestFairness /\ PoolFairness

\* Every variable of these components has its type.
AllTypesOK ==
    /\ ChunkTypeOK /\ DocTypeOK /\ UsageTypeOK /\ GateTypeOK
    /\ SchemaTypeOK /\ PoolTypeOK /\ IngestTypeOK
=============================================================================
