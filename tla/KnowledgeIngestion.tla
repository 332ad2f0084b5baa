-------------------------- MODULE KnowledgeIngestion --------------------------
(***************************************************************************)
(* Taking a document into a knowledge base: ingest_document writes its     *)
(* chunks to Milvus, queues a job for the graph and lists the document in  *)
(* Postgres, in this order and in no common transaction.  The job,         *)
(* index_document_into_graph, is a pipeline inside one process: extraction *)
(* workers take records from a queue until each has met one sentinel, and  *)
(* one write worker writes what they found until it meets its own.         *)
(***************************************************************************)
EXTENDS Integers, Sequences

CONSTANTS
    Docs,             \* documents; the id is made for the call, so no call repeats one
    RecordsOf,        \* the number of chunks of each document
    Concurrency,      \* GRAPH_EXTRACTION_CONCURRENCY
    Redeliveries      \* how often a job whose process died is run again

ASSUME IngestionAssumption ==
    /\ RecordsOf \in [Docs -> Nat]
    /\ Concurrency \in Nat /\ Redeliveries \in Nat

VARIABLES
    docAt,      \* where ingest_document stands
    inMilvus,   \* the documents whose chunks are in Milvus
    listed,     \* the documents with a row in knowledge_documents
    jobs,       \* the state of each graph job and how often it was redelivered
    extraction, \* per job: the extraction queue
    extractor,  \* per job: what each extraction worker does
    writes,     \* per job: the write queue
    writer,     \* per job: the write worker
    written     \* per document: the records in the graph

pipeVars == <<extraction, extractor, writes, writer, written>>
ingestVars == <<docAt, inMilvus, listed, jobs, pipeVars>>

Records(d) == 1..RecordsOf[d]
Sentinel == 0 \* None

\* What a worker of the pipeline does when it holds no record
Getting == -1
Stopped == -2
Raised  == -3
Absent  == -4

IngestTypeOK ==
    /\ docAt \in [Docs -> {"start", "owned", "stored", "queued", "done", "failed"}]
    /\ inMilvus \subseteq Docs /\ listed \subseteq Docs
    /\ jobs \in [Docs -> [state : {"none", "queued", "running", "closing", "done", "failed"},
                          redelivered : 0..Redeliveries]]
    /\ \A d \in Docs :
        /\ extraction[d] \in Seq({Sentinel} \cup Records(d))
        /\ extractor[d] \in Seq({Getting, Stopped, Raised} \cup Records(d))
        /\ writes[d] \in Seq({Sentinel} \cup Records(d))
        /\ writer[d] \in {Absent, Getting, Stopped, Raised} \cup Records(d)
        /\ written[d] \subseteq Records(d)

IngestInit ==
    /\ docAt = [d \in Docs |-> "start"]
    /\ inMilvus = {} /\ listed = {}
    /\ jobs = [d \in Docs |-> [state |-> "none", redelivered |-> 0]]
    /\ extraction = [d \in Docs |-> <<>>] /\ extractor = [d \in Docs |-> <<>>]
    /\ writes = [d \in Docs |-> <<>>] /\ writer = [d \in Docs |-> Absent]
    /\ written = [d \in Docs |-> {}]

-----------------------------------------------------------------------------
(* ingest_document, in the API                                              *)

MoveDoc(d, place) == docAt' = [docAt EXCEPT ![d] = place]
SetJob(d, state) == jobs' = [jobs EXCEPT ![d].state = state]

\* Mutant: the document is listed as soon as its owner is known.
ListFirst(d) ==
    /\ docAt[d] = "start"
    /\ listed' = listed \cup {d}
    /\ MoveDoc(d, "owned")
    /\ UNCHANGED <<inMilvus, jobs, pipeVars>>

\* _get_owned_knowledge_base
CheckOwner(d) ==
    /\ docAt[d] = "start"
    /\ MoveDoc(d, "owned")
    /\ UNCHANGED <<inMilvus, listed, jobs, pipeVars>>

\* milvus_store.add_document: chunk, embed, insert, flush.  Without chunks
\* there is nothing to store.
StoreChunks(d) ==
    /\ docAt[d] = "owned"
    /\ inMilvus' = IF Records(d) = {} THEN inMilvus ELSE inMilvus \cup {d}
    /\ MoveDoc(d, "stored")
    /\ UNCHANGED <<listed, jobs, pipeVars>>

QueueGraphJob(d) ==
    /\ docAt[d] = "stored"
    /\ IF Records(d) = {} THEN UNCHANGED jobs ELSE SetJob(d, "queued")
    /\ MoveDoc(d, "queued")
    /\ UNCHANGED <<inMilvus, listed, pipeVars>>

ListDocument(d) ==
    /\ docAt[d] = "queued"
    /\ listed' = listed \cup {d}
    /\ MoveDoc(d, "done")
    /\ UNCHANGED <<inMilvus, jobs, pipeVars>>

\* A call fails, or the API process dies; what is done stays done, and an
\* insert may have taken place before the call failed.
IngestFails(d) ==
    /\ docAt[d] \in {"start", "owned", "stored", "queued"}
    /\ inMilvus' \in {inMilvus} \cup
            (IF docAt[d] = "owned" /\ Records(d) # {} THEN {inMilvus \cup {d}} ELSE {})
    /\ MoveDoc(d, "failed")
    /\ UNCHANGED <<listed, jobs, pipeVars>>

-----------------------------------------------------------------------------
(* index_document_into_graph, in a worker                                   *)

WorkerCount(d) ==
    LET least == IF Concurrency < RecordsOf[d] THEN Concurrency ELSE RecordsOf[d]
    IN  IF least < 1 THEN 1 ELSE least

\* Mutant: one extraction worker finds no sentinel.
OneSentinelShort(d) == [i \in 1..(WorkerCount(d) - 1) |-> Sentinel]

Sentinels(d) == [i \in 1..WorkerCount(d) |-> Sentinel]

Live(d) == jobs[d].state \in {"running", "closing"}

\* The job starts: the records, then the sentinels, and all the tasks
StartJob(d) ==
    /\ jobs[d].state = "queued"
    /\ SetJob(d, "running")
    /\ extraction' = [extraction EXCEPT ![d] = [r \in Records(d) |-> r] \o Sentinels(d)]
    /\ extractor' = [extractor EXCEPT ![d] = [w \in 1..WorkerCount(d) |-> Getting]]
    /\ writes' = [writes EXCEPT ![d] = <<>>]
    /\ writer' = [writer EXCEPT ![d] = Getting]
    /\ UNCHANGED <<docAt, inMilvus, listed, written>>

\* An extraction worker takes a record or its sentinel.
TakeRecord(d, w) ==
    /\ extractor[d][w] = Getting /\ extraction[d] # <<>>
    /\ extraction' = [extraction EXCEPT ![d] = Tail(@)]
    /\ extractor' = [extractor EXCEPT ![d][w] =
                        IF Head(extraction[d]) = Sentinel THEN Stopped ELSE Head(extraction[d])]
    /\ UNCHANGED <<docAt, inMilvus, listed, jobs, writes, writer, written>>

\* extract_triples answers, and the result is put on the write queue;
Extracted(d, w) ==
    /\ extractor[d][w] \in Records(d)
    /\ writes' = [writes EXCEPT ![d] = Append(@, extractor[d][w])]
    /\ extractor' = [extractor EXCEPT ![d][w] = Getting]
    /\ UNCHANGED <<docAt, inMilvus, listed, jobs, extraction, writer, written>>

\* or it raises, and the worker is gone.
ExtractRaises(d, w) ==
    /\ extractor[d][w] \in Records(d)
    /\ extractor' = [extractor EXCEPT ![d][w] = Raised]
    /\ UNCHANGED <<docAt, inMilvus, listed, jobs, extraction, writes, writer, written>>

TakeWrite(d) ==
    /\ writer[d] = Getting /\ writes[d] # <<>>
    /\ writes' = [writes EXCEPT ![d] = Tail(@)]
    /\ writer' = [writer EXCEPT ![d] =
                    IF Head(writes[d]) = Sentinel THEN Stopped ELSE Head(writes[d])]
    /\ UNCHANGED <<docAt, inMilvus, listed, jobs, extraction, extractor, written>>

\* _write_chunk_and_triples and the entity vectors; every statement is a MERGE
\* or an upsert, so a record written again changes nothing.
WriteRecord(d) ==
    /\ writer[d] \in Records(d)
    /\ written' = [written EXCEPT ![d] = @ \cup {writer[d]}]
    /\ writer' = [writer EXCEPT ![d] = Getting]
    /\ UNCHANGED <<docAt, inMilvus, listed, jobs, extraction, extractor, writes>>

WriteRaises(d) ==
    /\ writer[d] \in Records(d)
    /\ writer' = [writer EXCEPT ![d] = Raised]
    /\ UNCHANGED <<docAt, inMilvus, listed, jobs, extraction, extractor, writes, written>>

\* Mutant: the write queue is closed while extraction workers are at work.
CloseEarly(d) == extraction[d] \in Seq({Sentinel})

\* gather returns when every extraction worker has returned.
Gathered(d) == \A w \in DOMAIN extractor[d] : extractor[d][w] = Stopped

CloseWrites(d) ==
    /\ jobs[d].state = "running" /\ Gathered(d)
    /\ writes' = [writes EXCEPT ![d] = Append(@, Sentinel)]
    /\ SetJob(d, "closing")
    /\ UNCHANGED <<docAt, inMilvus, listed, extraction, extractor, writer, written>>

\* await write_task
FinishJob(d) ==
    /\ jobs[d].state = "closing"
    /\ \/ writer[d] = Stopped /\ SetJob(d, "done")
       \/ writer[d] = Raised /\ SetJob(d, "failed")
    /\ UNCHANGED <<docAt, inMilvus, listed, pipeVars>>

\* gather raises with the first worker that does.  ARQ does not run the job
\* again; its other tasks go on, and the write worker is never told to stop.
FailJob(d) ==
    /\ jobs[d].state = "running"
    /\ \E w \in DOMAIN extractor[d] : extractor[d][w] = Raised
    /\ SetJob(d, "failed")
    /\ UNCHANGED <<docAt, inMilvus, listed, pipeVars>>

\* ARQ's job_timeout cancels what the job awaits, gather and with it the
\* extraction workers, or the write task, whose thread may still finish.
TimeOutJob(d) ==
    /\ Live(d)
    /\ SetJob(d, "failed")
    /\ IF jobs[d].state = "running"
       THEN /\ extractor' = [extractor EXCEPT ![d] =
                    [w \in DOMAIN @ |-> IF @[w] = Stopped THEN Stopped ELSE Raised]]
            /\ UNCHANGED <<writer, written>>
       ELSE /\ writer' = [writer EXCEPT ![d] = IF @ = Stopped THEN @ ELSE Raised]
            /\ written' \in {written, [written EXCEPT ![d] = @ \cup ({writer[d]} \cap Records(d))]}
            /\ UNCHANGED extractor
    /\ UNCHANGED <<docAt, inMilvus, listed, extraction, writes>>

\* The worker process dies with the tasks; ARQ delivers the job again.
WorkerDies(d) ==
    /\ Live(d) /\ jobs[d].redelivered < Redeliveries
    /\ jobs' = [jobs EXCEPT ![d] = [state |-> "queued", redelivered |-> @.redelivered + 1]]
    /\ extraction' = [extraction EXCEPT ![d] = <<>>]
    /\ extractor' = [extractor EXCEPT ![d] = <<>>]
    /\ writes' = [writes EXCEPT ![d] = <<>>]
    /\ writer' = [writer EXCEPT ![d] = Absent]
    /\ UNCHANGED <<docAt, inMilvus, listed, written>>

Ingest(d) ==
    CheckOwner(d) \/ StoreChunks(d) \/ QueueGraphJob(d) \/ ListDocument(d) \/ IngestFails(d)

PipeStep(d) ==
    \/ \E w \in DOMAIN extractor[d] : TakeRecord(d, w) \/ Extracted(d, w) \/ ExtractRaises(d, w)
    \/ TakeWrite(d) \/ WriteRecord(d) \/ WriteRaises(d)

JobStep(d) == StartJob(d) \/ CloseWrites(d) \/ FinishJob(d) \/ FailJob(d)

IngestNext == \E d \in Docs : Ingest(d) \/ PipeStep(d) \/ JobStep(d) \/ TimeOutJob(d) \/ WorkerDies(d)

\* Calls to the model and to the stores return or raise, and the event loop
\* runs every task that can go on.
IngestFairness == \A d \in Docs : WF_ingestVars(PipeStep(d)) /\ WF_ingestVars(JobStep(d))

IngestSpec == IngestInit /\ [][IngestNext]_ingestVars /\ IngestFairness

-----------------------------------------------------------------------------
(* Properties                                                               *)

\* A document that is listed can be searched, and its graph job is queued or
\* further: whatever fails on the way leaves a document unlisted, never listed
\* and unsearchable.
ListedIsIndexed ==
    \A d \in listed : Records(d) # {} => d \in inMilvus /\ jobs[d].state # "none"

\* A job that ends well has written every record of its document, although
\* the extraction workers finish out of order and the write worker stops at the
\* first sentinel it meets.
GraphJobComplete == \A d \in Docs : jobs[d].state = "done" => written[d] = Records(d)

\* A job that starts ends, well or failed, before any timeout: every extraction
\* worker finds a sentinel of its own, and one that raises ends the job. A job
\* whose process dies is "queued" again, and ends after it has started again.
GraphJobsEnd ==
    \A d \in Docs : (jobs[d].state = "running") ~> (jobs[d].state \in {"done", "failed"})
=============================================================================
