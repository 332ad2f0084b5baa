---------------------- MODULE KnowledgeIngestionProofs ----------------------
(***************************************************************************)
(* The graph job writes every record of its document before it is done,    *)
(* and a listed document is indexed, for any documents, any number of      *)
(* extraction workers and of redeliveries.                                 *)
(*                                                                         *)
(* The invariant of a pipeline, PipeOK, is a predicate of its parts, so    *)
(* that what each step does to them is a lemma about sequences; the steps  *)
(* of the module then only say which parts of which document they change.  *)
(***************************************************************************)
EXTENDS KnowledgeIngestion, SequenceTheorems, TLAPS

Working(R) == {Getting, Stopped, Raised} \cup R
Writing(R) == {Absent, Getting, Stopped, Raised} \cup R
Items(R)   == {Sentinel} \cup R

PipeTyped(R, q, ex, ws, wr, out) ==
    /\ q \in Seq(Items(R)) /\ ex \in Seq(Working(R)) /\ ws \in Seq(Items(R))
    /\ wr \in Writing(R) /\ out \subseteq R

\* The sentinels are behind the records, so one stopped worker means that no
\* record is left to extract.
RecordsComeFirst(q, ex) ==
    /\ \A i, j \in 1..Len(q) : i < j /\ q[i] = Sentinel => q[j] = Sentinel
    /\ \A w \in 1..Len(ex) : ex[w] = Stopped => \A i \in 1..Len(q) : q[i] = Sentinel

\* The write sentinel is put when all the workers have stopped, and is last.
SentinelIsLast(state, ex, ws, wr) ==
    /\ state \in {"running", "closing", "done"} => Len(ex) > 0
    /\ state = "running" => wr # Stopped /\ \A i \in 1..Len(ws) : ws[i] # Sentinel
    /\ state \in {"closing", "done"} =>
        /\ \A w \in 1..Len(ex) : ex[w] = Stopped
        /\ \A i \in 1..Len(ws) : ws[i] = Sentinel => i = Len(ws)
        /\ wr = Stopped => Len(ws) = 0
    /\ state = "done" => wr = Stopped

\* A record of a job in which nothing has raised is somewhere in the pipeline.
NoRecordIsLost(R, state, q, ex, ws, wr, out) ==
    state \in {"running", "closing", "done"} /\ wr # Raised /\ (\A w \in 1..Len(ex) : ex[w] # Raised)
    => \A r \in R :
        \/ \E i \in 1..Len(q) : q[i] = r
        \/ \E w \in 1..Len(ex) : ex[w] = r
        \/ \E i \in 1..Len(ws) : ws[i] = r
        \/ wr = r
        \/ r \in out

PipeOK(R, state, q, ex, ws, wr, out) ==
    /\ PipeTyped(R, q, ex, ws, wr, out)
    /\ RecordsComeFirst(q, ex)
    /\ SentinelIsLast(state, ex, ws, wr)
    /\ NoRecordIsLost(R, state, q, ex, ws, wr, out)

-----------------------------------------------------------------------------
(* Queues                                                                   *)

LEMMA GetFacts ==
  ASSUME NEW S, NEW s \in Seq(S), s # <<>>
  PROVE  /\ Len(s) \in Nat /\ Len(s) > 0 /\ Head(s) = s[1] /\ Head(s) \in S
         /\ Tail(s) \in Seq(S) /\ Len(Tail(s)) = Len(s) - 1
         /\ \A i \in 1..Len(Tail(s)) : Tail(s)[i] = s[i + 1]
  BY HeadTailProperties

LEMMA PutFacts ==
  ASSUME NEW S, NEW s \in Seq(S), NEW e \in S
  PROVE  /\ Len(s) \in Nat /\ Append(s, e) \in Seq(S) /\ Len(Append(s, e)) = Len(s) + 1
         /\ \A i \in 1..Len(s) : Append(s, e)[i] = s[i]
         /\ Append(s, e)[Len(s) + 1] = e
  BY AppendProperties

-----------------------------------------------------------------------------
(* What the steps do to the parts of a pipeline                             *)

\* A worker takes the first item of the extraction queue.
LEMMA TakeKeepsPipe ==
  ASSUME NEW R \in SUBSET (Nat \ {0}), NEW state, NEW q, NEW ex, NEW ws, NEW wr, NEW out,
         PipeOK(R, state, q, ex, ws, wr, out),
         NEW w \in 1..Len(ex), ex[w] = Getting, q # <<>>
  PROVE  PipeOK(R, state, Tail(q), [ex EXCEPT ![w] = IF Head(q) = Sentinel THEN Stopped ELSE Head(q)],
                ws, wr, out)
  <1> DEFINE item == IF Head(q) = Sentinel THEN Stopped ELSE Head(q)
             ex2 == [ex EXCEPT ![w] = item]
             q2 == Tail(q)
  <1> USE DEF PipeOK, PipeTyped, Items, Working, Sentinel, Getting, Stopped, Raised
  <1>1. /\ q \in Seq(Items(R)) /\ Len(q) \in Nat /\ Len(q) > 0 /\ Head(q) = q[1]
        /\ q2 \in Seq(Items(R)) /\ Len(q2) = Len(q) - 1
        /\ \A i \in 1..Len(q2) : q2[i] = q[i + 1]
        /\ Head(q) \in Items(R)
    <2>1. q \in Seq(Items(R))
      OBVIOUS
    <2> HIDE DEF Items, Working, PipeOK, PipeTyped
    <2> QED
      BY <2>1, GetFacts
  <1>2. item \in Working(R) /\ item # Raised
    BY <1>1
  <1>3. /\ ex2 \in Seq(Working(R)) /\ Len(ex2) = Len(ex)
        /\ \A v \in 1..Len(ex) : ex2[v] = IF v = w THEN item ELSE ex[v]
    <2>1. ex \in Seq(Working(R))
      OBVIOUS
    <2> HIDE DEF item, Working, PipeOK, PipeTyped
    <2> QED
      BY <1>2, <2>1, ExceptSeq
  <1> HIDE DEF ex2, q2
  <1>4. RecordsComeFirst(q2, ex2)
    <2>1. RecordsComeFirst(q, ex)
      OBVIOUS
    <2>2. \A i, j \in 1..Len(q2) : i < j /\ q2[i] = Sentinel => q2[j] = Sentinel
      <3> TAKE i, j \in 1..Len(q2)
      <3>1. i + 1 \in 1..Len(q) /\ j + 1 \in 1..Len(q) /\ (i < j => i + 1 < j + 1)
        BY <1>1
      <3> HIDE DEF Sentinel, PipeOK, PipeTyped
      <3> QED
        BY <1>1, <2>1, <3>1 DEF RecordsComeFirst
    <2>3. ASSUME NEW v \in 1..Len(ex2), ex2[v] = Stopped, NEW i \in 1..Len(q2)
          PROVE  q2[i] = Sentinel
      <3>1. i + 1 \in 1..Len(q) /\ 1 \in 1..Len(q) /\ 1 < i + 1 /\ q2[i] = q[i + 1]
        BY <1>1
      <3>2. CASE v # w
        BY <2>1, <2>3, <3>1, <3>2, <1>3 DEF RecordsComeFirst
      <3>3. CASE v = w
        <4>1. q[1] = Sentinel
          BY <2>3, <3>3, <1>1, <1>3
        <4> QED
          BY <2>1, <3>1, <4>1 DEF RecordsComeFirst
      <3> QED
        BY <3>2, <3>3
    <2> QED
      BY <2>2, <2>3 DEF RecordsComeFirst
  <1>5. SentinelIsLast(state, ex2, ws, wr)
    BY <1>1, <1>3 DEF SentinelIsLast
  <1>6. NoRecordIsLost(R, state, q2, ex2, ws, wr, out)
    <2> SUFFICES ASSUME state \in {"running", "closing", "done"}, wr # Raised,
                        \A v \in 1..Len(ex2) : ex2[v] # Raised, NEW r \in R,
                        ~ (\E i \in 1..Len(ws) : ws[i] = r), wr # r, r \notin out
                 PROVE  (\E i \in 1..Len(q2) : q2[i] = r) \/ (\E v \in 1..Len(ex2) : ex2[v] = r)
      BY DEF NoRecordIsLost
    <2>1. \A v \in 1..Len(ex) : ex[v] # Raised
      BY <1>3
    <2>2. CASE \E v \in 1..Len(ex) : ex[v] = r
      BY <2>2, <1>3
    <2>3. CASE \E i \in 1..Len(q) : q[i] = r
      <3>1. PICK i \in 1..Len(q) : q[i] = r
        BY <2>3
      <3>2. CASE i = 1
        BY <3>1, <3>2, <1>1, <1>3
      <3>3. CASE i # 1
        <4>1. i - 1 \in 1..Len(q2) /\ q2[i - 1] = r
          BY <3>1, <3>3, <1>1
        <4> QED
          BY <4>1
      <3> QED
        BY <3>2, <3>3
    <2> QED
      BY <2>1, <2>2, <2>3 DEF NoRecordIsLost
  <1> QED
    BY <1>1, <1>3, <1>4, <1>5, <1>6 DEF q2, ex2

\* A worker puts the record it holds on the write queue.
LEMMA PutKeepsPipe ==
  ASSUME NEW R \in SUBSET (Nat \ {0}), NEW state, NEW q, NEW ex, NEW ws, NEW wr, NEW out,
         PipeOK(R, state, q, ex, ws, wr, out),
         NEW w \in 1..Len(ex), ex[w] \in R
  PROVE  PipeOK(R, state, q, [ex EXCEPT ![w] = Getting], Append(ws, ex[w]), wr, out)
  <1> DEFINE ex2 == [ex EXCEPT ![w] = Getting]
             ws2 == Append(ws, ex[w])
  <1> USE DEF PipeOK, PipeTyped, Items, Working, Sentinel, Getting, Stopped, Raised
  <1>1. /\ ex2 \in Seq(Working(R)) /\ Len(ex2) = Len(ex)
        /\ \A v \in 1..Len(ex) : ex2[v] = IF v = w THEN Getting ELSE ex[v]
    BY ExceptSeq
  <1>2. /\ ws2 \in Seq(Items(R)) /\ Len(ws2) = Len(ws) + 1 /\ Len(ws) \in Nat
        /\ \A i \in 1..Len(ws) : ws2[i] = ws[i]
        /\ ws2[Len(ws) + 1] = ex[w]
    <2>1. ws \in Seq(Items(R)) /\ ex[w] \in Items(R)
      OBVIOUS
    <2> HIDE DEF Items, Working, PipeOK, PipeTyped
    <2> QED
      BY <2>1, PutFacts
  <1> HIDE DEF ex2, ws2
  <1>3. RecordsComeFirst(q, ex2)
    BY <1>1 DEF RecordsComeFirst
  <1>4. SentinelIsLast(state, ex2, ws2, wr)
    <2>1. SentinelIsLast(state, ex, ws, wr) /\ ex[w] # Stopped /\ ex[w] # Sentinel
      OBVIOUS
    <2>2. state \notin {"closing", "done"}
      BY <2>1 DEF SentinelIsLast
    <2>3. ASSUME state = "running" PROVE \A i \in 1..Len(ws2) : ws2[i] # Sentinel
      <3> TAKE i \in 1..Len(ws2)
      <3>1. CASE i \in 1..Len(ws)
        BY <3>1, <2>1, <2>3, <1>2 DEF SentinelIsLast
      <3>2. CASE i \notin 1..Len(ws)
        BY <3>2, <2>1, <1>2
      <3> QED
        BY <3>1, <3>2
    <2> HIDE DEF Stopped, Sentinel, PipeOK, PipeTyped
    <2> QED
      BY <1>1, <2>1, <2>2, <2>3 DEF SentinelIsLast
  <1>5. NoRecordIsLost(R, state, q, ex2, ws2, wr, out)
    <2> SUFFICES ASSUME state \in {"running", "closing", "done"}, wr # Raised,
                        \A v \in 1..Len(ex2) : ex2[v] # Raised, NEW r \in R,
                        ~ (\E i \in 1..Len(q) : q[i] = r), wr # r, r \notin out
                 PROVE  (\E i \in 1..Len(ws2) : ws2[i] = r) \/ (\E v \in 1..Len(ex2) : ex2[v] = r)
      BY DEF NoRecordIsLost
    <2>1. \A v \in 1..Len(ex) : ex[v] # Raised
      BY <1>1
    <2>2. CASE \E v \in 1..Len(ex) : ex[v] = r
      BY <2>2, <1>1, <1>2
    <2>3. CASE \E i \in 1..Len(ws) : ws[i] = r
      BY <2>3, <1>2
    <2> QED
      BY <2>1, <2>2, <2>3 DEF NoRecordIsLost
  <1> QED
    BY <1>1, <1>2, <1>3, <1>4, <1>5 DEF ex2, ws2

\* A worker that raises, or that a timeout cancels.
LEMMA RaiseKeepsPipe ==
  ASSUME NEW R \in SUBSET (Nat \ {0}), NEW state, NEW q, NEW ex, NEW ws, NEW wr, NEW out,
         PipeOK(R, state, q, ex, ws, wr, out),
         NEW w \in 1..Len(ex), ex[w] \in R
  PROVE  PipeOK(R, state, q, [ex EXCEPT ![w] = Raised], ws, wr, out)
  <1> DEFINE ex2 == [ex EXCEPT ![w] = Raised]
  <1> USE DEF PipeOK, PipeTyped, Items, Working, Sentinel, Getting, Stopped, Raised
  <1>1. /\ ex2 \in Seq(Working(R)) /\ Len(ex2) = Len(ex)
        /\ \A v \in 1..Len(ex) : ex2[v] = IF v = w THEN Raised ELSE ex[v]
    BY ExceptSeq
  <1> HIDE DEF ex2
  <1>2. RecordsComeFirst(q, ex2)
    BY <1>1 DEF RecordsComeFirst
  <1>3. SentinelIsLast(state, ex2, ws, wr)
    BY <1>1 DEF SentinelIsLast
  <1>4. NoRecordIsLost(R, state, q, ex2, ws, wr, out)
    BY <1>1 DEF NoRecordIsLost
  <1> QED
    BY <1>1, <1>2, <1>3, <1>4 DEF ex2

\* The write worker takes the first item of the write queue.
LEMMA TakeWriteKeepsPipe ==
  ASSUME NEW R \in SUBSET (Nat \ {0}), NEW state, NEW q, NEW ex, NEW ws, NEW wr, NEW out,
         PipeOK(R, state, q, ex, ws, wr, out), wr = Getting, ws # <<>>
  PROVE  PipeOK(R, state, q, ex, Tail(ws), IF Head(ws) = Sentinel THEN Stopped ELSE Head(ws), out)
  <1> DEFINE ws2 == Tail(ws)
             wr2 == IF Head(ws) = Sentinel THEN Stopped ELSE Head(ws)
  <1> USE DEF PipeOK, PipeTyped, Items, Working, Writing, Sentinel, Getting, Stopped, Raised, Absent
  <1>1. /\ Len(ws) \in Nat /\ Len(ws) > 0 /\ Head(ws) = ws[1] /\ Head(ws) \in Items(R)
        /\ ws2 \in Seq(Items(R)) /\ Len(ws2) = Len(ws) - 1
        /\ \A i \in 1..Len(ws2) : ws2[i] = ws[i + 1]
    <2>1. ws \in Seq(Items(R))
      OBVIOUS
    <2> HIDE DEF Items, Working, Writing, PipeOK, PipeTyped
    <2> QED
      BY <2>1, GetFacts
  <1>2. wr2 \in Writing(R) /\ wr2 # Raised /\ (wr2 = Stopped <=> ws[1] = Sentinel)
        /\ (ws[1] \in R => wr2 = ws[1])
    BY <1>1
  <1> HIDE DEF ws2, wr2
  <1>3. SentinelIsLast(state, ex, ws2, wr2)
    BY <1>1, <1>2 DEF SentinelIsLast
  <1>4. NoRecordIsLost(R, state, q, ex, ws2, wr2, out)
    <2> SUFFICES ASSUME state \in {"running", "closing", "done"},
                        \A v \in 1..Len(ex) : ex[v] # Raised, NEW r \in R,
                        ~ (\E i \in 1..Len(q) : q[i] = r), ~ (\E v \in 1..Len(ex) : ex[v] = r),
                        r \notin out
                 PROVE  (\E i \in 1..Len(ws2) : ws2[i] = r) \/ wr2 = r
      BY DEF NoRecordIsLost
    <2>1. PICK i \in 1..Len(ws) : ws[i] = r
      BY SMTT(30) DEF NoRecordIsLost
    <2>2. CASE i = 1
      BY <2>1, <2>2, <1>2
    <2>3. CASE i # 1
      <3>1. i - 1 \in 1..Len(ws2) /\ ws2[i - 1] = r
        BY <2>1, <2>3, <1>1
      <3> QED
        BY <3>1
    <2> QED
      BY <2>2, <2>3
  <1> QED
    BY <1>1, <1>2, <1>3, <1>4 DEF ws2, wr2

\* The write worker writes the record it holds, or raises over it.
LEMMA WriteKeepsPipe ==
  ASSUME NEW R \in SUBSET (Nat \ {0}), NEW state, NEW q, NEW ex, NEW ws, NEW wr, NEW out,
         PipeOK(R, state, q, ex, ws, wr, out), wr \in R
  PROVE  /\ PipeOK(R, state, q, ex, ws, Getting, out \cup {wr})
         /\ PipeOK(R, state, q, ex, ws, Raised, out)
  <1>1. /\ wr \in Nat /\ wr > 0 /\ Getting # Raised /\ Getting # Stopped /\ Raised # Stopped
        /\ wr # Raised /\ Getting \in Writing(R) /\ Raised \in Writing(R)
    BY DEF Getting, Stopped, Raised, Writing
  <1>2. PipeTyped(R, q, ex, ws, Getting, out \cup {wr}) /\ PipeTyped(R, q, ex, ws, Raised, out)
    BY <1>1 DEF PipeOK, PipeTyped
  <1>3. /\ RecordsComeFirst(q, ex)
        /\ SentinelIsLast(state, ex, ws, Getting) /\ SentinelIsLast(state, ex, ws, Raised)
    <2>1. RecordsComeFirst(q, ex) /\ SentinelIsLast(state, ex, ws, wr) /\ wr # Stopped
      BY DEF PipeOK, Stopped
    <2> QED
      BY <1>1, <2>1 DEF SentinelIsLast
  <1>4. NoRecordIsLost(R, state, q, ex, ws, Getting, out \cup {wr})
    BY <1>1 DEF PipeOK, NoRecordIsLost
  <1>5. NoRecordIsLost(R, state, q, ex, ws, Raised, out)
    BY DEF NoRecordIsLost
  <1> QED
    BY <1>2, <1>3, <1>4, <1>5 DEF PipeOK

\* gather has returned and the write sentinel is put.
LEMMA CloseKeepsPipe ==
  ASSUME NEW R \in SUBSET (Nat \ {0}), NEW q, NEW ex, NEW ws, NEW wr, NEW out,
         PipeOK(R, "running", q, ex, ws, wr, out), \A w \in 1..Len(ex) : ex[w] = Stopped
  PROVE  PipeOK(R, "closing", q, ex, Append(ws, Sentinel), wr, out)
  <1> DEFINE ws2 == Append(ws, Sentinel)
  <1> USE DEF PipeOK, PipeTyped, Items, Working, Writing, Sentinel, Getting, Stopped, Raised, Absent
  <1>1. /\ ws2 \in Seq(Items(R)) /\ Len(ws2) = Len(ws) + 1 /\ Len(ws) \in Nat
        /\ \A i \in 1..Len(ws) : ws2[i] = ws[i]
        /\ ws2[Len(ws) + 1] = Sentinel
    <2>1. ws \in Seq(Items(R)) /\ Sentinel \in Items(R)
      OBVIOUS
    <2> HIDE DEF Items, Working, Writing, Sentinel, PipeOK, PipeTyped
    <2> QED
      BY <2>1, PutFacts
  <1> HIDE DEF ws2
  <1>2. SentinelIsLast("closing", ex, ws2, wr)
    <2>1. Len(ex) > 0 /\ wr # Stopped /\ \A i \in 1..Len(ws) : ws[i] # Sentinel
      BY DEF SentinelIsLast
    <2>2. \A i \in 1..Len(ws2) : ws2[i] = Sentinel => i = Len(ws2)
      <3> TAKE i \in 1..Len(ws2)
      <3>1. CASE i \in 1..Len(ws)
        BY <3>1, <2>1, <1>1
      <3>2. CASE i \notin 1..Len(ws)
        BY <3>2, <1>1
      <3> QED
        BY <3>1, <3>2
    <2> HIDE DEF Stopped, Sentinel, PipeOK, PipeTyped
    <2> QED
      BY <2>1, <2>2 DEF SentinelIsLast
  <1>3. NoRecordIsLost(R, "closing", q, ex, ws2, wr, out)
    BY SMTT(30), <1>1 DEF NoRecordIsLost
  <1> QED
    BY <1>1, <1>2, <1>3 DEF ws2

-----------------------------------------------------------------------------
(* A listed document is indexed                                             *)

JobStates == {"none", "queued", "running", "closing", "done", "failed"}

Shape ==
    /\ docAt \in [Docs -> {"start", "owned", "stored", "queued", "done", "failed"}]
    /\ inMilvus \subseteq Docs /\ listed \subseteq Docs
    /\ jobs \in [Docs -> [state : JobStates, redelivered : Nat]]
    /\ DOMAIN extraction = Docs /\ DOMAIN extractor = Docs
    /\ DOMAIN writes = Docs /\ DOMAIN writer = Docs /\ DOMAIN written = Docs

\* What has been done for a document, by where its call stands
StoredInOrder ==
    \A d \in Docs : Records(d) # {} =>
        /\ docAt[d] \in {"stored", "queued", "done"} \/ d \in listed => d \in inMilvus
        /\ docAt[d] \in {"queued", "done"} \/ d \in listed => jobs[d].state # "none"

\* The parts of every other pipeline stay as they are.
Only(d) ==
    \A c \in Docs \ {d} :
        /\ jobs'[c] = jobs[c] /\ extraction'[c] = extraction[c] /\ extractor'[c] = extractor[c]
        /\ writes'[c] = writes[c] /\ writer'[c] = writer[c] /\ written'[c] = written[c]

LEMMA SetJobFacts ==
  ASSUME Shape, NEW d \in Docs, NEW state \in JobStates, SetJob(d, state)
  PROVE  /\ jobs' \in [Docs -> [state : JobStates, redelivered : Nat]]
         /\ jobs'[d].state = state /\ \A c \in Docs \ {d} : jobs'[c] = jobs[c]
  BY DEF Shape, SetJob, JobStates

\* The functions keep their domain, and a step is of one document.
LEMMA ShapeIsKept ==
  ASSUME Shape, NEW d \in Docs,
         Ingest(d) \/ PipeStep(d) \/ JobStep(d) \/ TimeOutJob(d) \/ WorkerDies(d)
  PROVE  Shape' /\ Only(d)
  <1> USE DEF Shape, Only, pipeVars, JobStates
  <1>1. CASE CheckOwner(d) \/ StoreChunks(d) \/ QueueGraphJob(d) \/ ListDocument(d) \/ IngestFails(d)
    BY <1>1 DEF CheckOwner, StoreChunks, QueueGraphJob, ListDocument, IngestFails, MoveDoc, SetJob
  <1>2. CASE \E w \in DOMAIN extractor[d] : TakeRecord(d, w) \/ Extracted(d, w) \/ ExtractRaises(d, w)
    BY <1>2 DEF TakeRecord, Extracted, ExtractRaises
  <1>3. CASE TakeWrite(d) \/ WriteRecord(d) \/ WriteRaises(d)
    BY <1>3 DEF TakeWrite, WriteRecord, WriteRaises
  <1>4. CASE StartJob(d)
    BY <1>4, SetJobFacts DEF StartJob
  <1>5. CASE CloseWrites(d) \/ FinishJob(d) \/ FailJob(d)
    <2>1. CASE CloseWrites(d)
      BY <2>1, SetJobFacts DEF CloseWrites
    <2>2. CASE FinishJob(d)
      BY <2>2, SetJobFacts DEF FinishJob
    <2>3. CASE FailJob(d)
      BY <2>3, SetJobFacts DEF FailJob
    <2> QED
      BY <1>5, <2>1, <2>2, <2>3
  <1>6. CASE TimeOutJob(d)
    BY <1>6, SetJobFacts DEF TimeOutJob
  <1>7. CASE WorkerDies(d)
    BY <1>7 DEF WorkerDies
  <1> QED
    BY <1>1, <1>2, <1>3, <1>4, <1>5, <1>6, <1>7 DEF Ingest, PipeStep, JobStep

\* What was stored stays stored, and a job that was queued is never forgotten.
LEMMA OrderIsKept ==
  ASSUME Shape, StoredInOrder, NEW d \in Docs,
         Ingest(d) \/ PipeStep(d) \/ JobStep(d) \/ TimeOutJob(d) \/ WorkerDies(d)
  PROVE  StoredInOrder'
  <1> USE DEF Shape, StoredInOrder, JobStates
  <1>1. CASE Ingest(d)
    <2>1. CASE CheckOwner(d)
      BY <2>1 DEF CheckOwner, MoveDoc
    <2>2. CASE StoreChunks(d)
      BY <2>2 DEF StoreChunks, MoveDoc
    <2>3. CASE QueueGraphJob(d)
      BY <2>3 DEF QueueGraphJob, MoveDoc, SetJob
    <2>4. CASE ListDocument(d)
      BY <2>4 DEF ListDocument, MoveDoc
    <2>5. CASE IngestFails(d)
      BY <2>5 DEF IngestFails, MoveDoc
    <2> QED
      BY <1>1, <2>1, <2>2, <2>3, <2>4, <2>5 DEF Ingest
  <1>2. CASE PipeStep(d)
    <2>1. UNCHANGED <<docAt, inMilvus, listed, jobs>>
      BY <1>2 DEF PipeStep, TakeRecord, Extracted, ExtractRaises, TakeWrite, WriteRecord, WriteRaises
    <2> QED
      BY <2>1
  <1>3. CASE JobStep(d) \/ TimeOutJob(d) \/ WorkerDies(d)
    <2>1. UNCHANGED <<docAt, inMilvus, listed>>
      BY <1>3 DEF JobStep, StartJob, CloseWrites, FinishJob, FailJob, TimeOutJob, WorkerDies
    <2>2. \A c \in Docs : jobs[c].state # "none" => jobs'[c].state # "none"
      <3>1. CASE StartJob(d) \/ CloseWrites(d) \/ FailJob(d)
        BY <3>1, SetJobFacts DEF StartJob, CloseWrites, FailJob
      <3>2. CASE FinishJob(d) \/ TimeOutJob(d)
        BY <3>2, SetJobFacts DEF FinishJob, TimeOutJob
      <3>3. CASE WorkerDies(d)
        BY <3>3 DEF WorkerDies
      <3> QED
        BY <1>3, <3>1, <3>2, <3>3 DEF JobStep
    <2> QED
      BY <2>1, <2>2
  <1> QED
    BY <1>1, <1>2, <1>3

\* A document that is listed can be searched, and its graph job is queued or
\* further (ingest_document stores, queues and lists in this order).
THEOREM ListedIsIndexedHolds == IngestSpec => []ListedIsIndexed
  <1>1. IngestInit => Shape /\ StoredInOrder
    BY DEF IngestInit, Shape, StoredInOrder, JobStates
  <1>2. Shape /\ StoredInOrder /\ [IngestNext]_ingestVars => (Shape /\ StoredInOrder)'
    <2> SUFFICES ASSUME Shape, StoredInOrder, [IngestNext]_ingestVars
                 PROVE  (Shape /\ StoredInOrder)'
      OBVIOUS
    <2>1. CASE IngestNext
      BY <2>1, ShapeIsKept, OrderIsKept DEF IngestNext
    <2>2. CASE UNCHANGED ingestVars
      BY <2>2 DEF ingestVars, pipeVars, Shape, StoredInOrder
    <2> QED
      BY <2>1, <2>2
  <1>3. Shape /\ StoredInOrder => ListedIsIndexed
    BY DEF Shape, StoredInOrder, ListedIsIndexed
  <1> QED
    BY <1>1, <1>2, <1>3, PTL DEF IngestSpec

-----------------------------------------------------------------------------
(* A job that is done has written every record                              *)

Pipe(d) ==
    PipeOK(Records(d), jobs[d].state, extraction[d], extractor[d], writes[d], writer[d], written[d])

LEMMA RecordsArePositive ==
  ASSUME NEW d \in Docs
  PROVE  /\ RecordsOf[d] \in Nat /\ Records(d) \in SUBSET (Nat \ {0})
         /\ WorkerCount(d) \in Nat /\ WorkerCount(d) > 0
  BY IngestionAssumption DEF Records, WorkerCount

LEMMA PipeStepKeepsPipe ==
  ASSUME Shape, NEW d \in Docs, Pipe(d), PipeStep(d)
  PROVE  Pipe(d)'
  <1> DEFINE R == Records(d)
  <1>1. R \in SUBSET (Nat \ {0})
    BY RecordsArePositive
  <1>2. /\ PipeOK(R, jobs[d].state, extraction[d], extractor[d], writes[d], writer[d], written[d])
        /\ DOMAIN extractor[d] = 1..Len(extractor[d])
    BY DEF Pipe, PipeOK, PipeTyped
  <1> SUFFICES PipeOK(R, jobs'[d].state, extraction'[d], extractor'[d], writes'[d], writer'[d], written'[d])
    BY DEF Pipe, Records
  <1> HIDE DEF R
  <1>3. ASSUME NEW w \in DOMAIN extractor[d], TakeRecord(d, w)
        PROVE  PipeOK(R, jobs'[d].state, extraction'[d], extractor'[d], writes'[d], writer'[d], written'[d])
    <2>1. /\ jobs' = jobs /\ writes' = writes /\ writer' = writer /\ written' = written
          /\ extraction'[d] = Tail(extraction[d])
          /\ extractor'[d] = [extractor[d] EXCEPT ![w] =
                IF Head(extraction[d]) = Sentinel THEN Stopped ELSE Head(extraction[d])]
          /\ extractor[d][w] = Getting /\ extraction[d] # <<>> /\ w \in 1..Len(extractor[d])
      BY <1>2, <1>3 DEF TakeRecord, Shape
    <2> QED
      BY <2>1, <1>1, <1>2, TakeKeepsPipe
  <1>4. ASSUME NEW w \in DOMAIN extractor[d], Extracted(d, w)
        PROVE  PipeOK(R, jobs'[d].state, extraction'[d], extractor'[d], writes'[d], writer'[d], written'[d])
    <2>1. /\ jobs' = jobs /\ extraction' = extraction /\ writer' = writer /\ written' = written
          /\ writes'[d] = Append(writes[d], extractor[d][w])
          /\ extractor'[d] = [extractor[d] EXCEPT ![w] = Getting]
          /\ extractor[d][w] \in R /\ w \in 1..Len(extractor[d])
      BY <1>2, <1>4 DEF Extracted, Shape, R
    <2>2. PipeOK(R, jobs[d].state, extraction[d], [extractor[d] EXCEPT ![w] = Getting],
                 Append(writes[d], extractor[d][w]), writer[d], written[d])
      <3> DEFINE st == jobs[d].state
      <3> HIDE DEF st
      <3>1. PipeOK(R, st, extraction[d], extractor[d], writes[d], writer[d], written[d])
        BY <1>2 DEF st
      <3>2. PipeOK(R, st, extraction[d], [extractor[d] EXCEPT ![w] = Getting],
                 Append(writes[d], extractor[d][w]), writer[d], written[d])
        BY <3>1, <2>1, <1>1, PutKeepsPipe
      <3> QED
        BY <3>2 DEF st
    <2> QED
      BY <2>1, <2>2
  <1>5. ASSUME NEW w \in DOMAIN extractor[d], ExtractRaises(d, w)
        PROVE  PipeOK(R, jobs'[d].state, extraction'[d], extractor'[d], writes'[d], writer'[d], written'[d])
    <2>1. /\ jobs' = jobs /\ extraction' = extraction /\ writer' = writer /\ written' = written
          /\ writes' = writes
          /\ extractor'[d] = [extractor[d] EXCEPT ![w] = Raised]
          /\ extractor[d][w] \in R /\ w \in 1..Len(extractor[d])
      BY <1>2, <1>5 DEF ExtractRaises, Shape, R
    <2>2. PipeOK(R, jobs[d].state, extraction[d], [extractor[d] EXCEPT ![w] = Raised],
                 writes[d], writer[d], written[d])
      <3> DEFINE st == jobs[d].state
      <3> HIDE DEF st
      <3>1. PipeOK(R, st, extraction[d], extractor[d], writes[d], writer[d], written[d])
        BY <1>2 DEF st
      <3>2. PipeOK(R, st, extraction[d], [extractor[d] EXCEPT ![w] = Raised],
                 writes[d], writer[d], written[d])
        BY <3>1, <2>1, <1>1, RaiseKeepsPipe
      <3> QED
        BY <3>2 DEF st
    <2> QED
      BY <2>1, <2>2
  <1>6. CASE TakeWrite(d)
    <2>1. /\ jobs' = jobs /\ extraction' = extraction /\ extractor' = extractor /\ written' = written
          /\ writes'[d] = Tail(writes[d])
          /\ writer'[d] = IF Head(writes[d]) = Sentinel THEN Stopped ELSE Head(writes[d])
          /\ writer[d] = Getting /\ writes[d] # <<>>
      BY <1>6 DEF TakeWrite, Shape
    <2> QED
      BY <2>1, <1>1, <1>2, TakeWriteKeepsPipe
  <1>7. CASE WriteRecord(d)
    <2>1. /\ jobs' = jobs /\ extraction' = extraction /\ extractor' = extractor /\ writes' = writes
          /\ writer[d] \in R /\ writer'[d] = Getting /\ written'[d] = written[d] \cup {writer[d]}
      BY <1>7 DEF WriteRecord, Shape, R
    <2>2. PipeOK(R, jobs[d].state, extraction[d], extractor[d], writes[d], Getting, written[d] \cup {writer[d]})
      BY <2>1, <1>1, <1>2, WriteKeepsPipe
    <2> QED
      BY <2>1, <2>2
  <1>8. CASE WriteRaises(d)
    <2>1. /\ jobs' = jobs /\ extraction' = extraction /\ extractor' = extractor /\ writes' = writes
          /\ writer[d] \in R /\ writer'[d] = Raised /\ written' = written
      BY <1>8 DEF WriteRaises, Shape, R
    <2>2. PipeOK(R, jobs[d].state, extraction[d], extractor[d], writes[d], Raised, written[d])
      BY <2>1, <1>1, <1>2, WriteKeepsPipe
    <2> QED
      BY <2>1, <2>2
  <1> QED
    BY <1>3, <1>4, <1>5, <1>6, <1>7, <1>8 DEF PipeStep

\* A job that is queued, or that has failed, owes its pipeline only its types
\* and the order of its records.
LEMMA StartMakesPipe ==
  ASSUME Shape, NEW d \in Docs, Pipe(d), StartJob(d)
  PROVE  Pipe(d)'
  <1> DEFINE n == RecordsOf[d]
             m == WorkerCount(d)
             R == Records(d)
             first == [r \in R |-> r]
             q == first \o Sentinels(d)
             ex == [w \in 1..m |-> Getting]
  <1>1. n \in Nat /\ m \in Nat /\ m > 0 /\ R = 1..n /\ R \in SUBSET (Nat \ {0})
    BY RecordsArePositive DEF Records
  <1>2. /\ jobs'[d].state = "running" /\ extraction'[d] = q /\ extractor'[d] = ex
        /\ writes'[d] = <<>> /\ writer'[d] = Getting /\ written'[d] = written[d]
        /\ written[d] \subseteq R
    BY DEF StartJob, SetJob, Shape, Pipe, PipeOK, PipeTyped
  <1> HIDE DEF n, m, R
  <1>3. /\ q \in Seq(Items(R)) /\ Len(q) = n + m
        /\ \A i \in 1..n : q[i] = i
        /\ \A i \in (n + 1)..(n + m) : q[i] = Sentinel
    <2>1. first \in Seq(Items(R)) /\ Len(first) = n /\ \A i \in 1..n : first[i] = i
      BY <1>1 DEF Items
    <2>2. Sentinels(d) \in Seq(Items(R)) /\ Len(Sentinels(d)) = m /\ \A i \in 1..m : Sentinels(d)[i] = Sentinel
      BY <1>1 DEF Sentinels, Items, m
    <2> HIDE DEF first
    <2>3. q \in Seq(Items(R)) /\ Len(q) = n + m
          /\ \A i \in 1..Len(q) : q[i] = IF i <= n THEN first[i] ELSE Sentinels(d)[i - n]
      BY <2>1, <2>2, ConcatProperties
    <2> HIDE DEF q
    <2>4. \A i \in 1..n : q[i] = i
      BY <1>1, <2>1, <2>3
    <2>5. \A i \in (n + 1)..(n + m) : q[i] = Sentinel
      <3> TAKE i \in (n + 1)..(n + m)
      <3>1. i \in 1..Len(q) /\ ~ (i <= n) /\ i - n \in 1..m
        BY <1>1, <2>3
      <3> QED
        BY <3>1, <2>2, <2>3
    <2> QED
      BY <2>3, <2>4, <2>5
  <1>4. ex \in Seq(Working(R)) /\ Len(ex) = m /\ \A w \in 1..Len(ex) : ex[w] = Getting
    BY <1>1 DEF Working
  <1> HIDE DEF q, ex
  <1>5. PipeTyped(R, q, ex, <<>>, Getting, written[d])
    BY <1>2, <1>3, <1>4 DEF PipeTyped, Writing
  <1>6. RecordsComeFirst(q, ex)
    <2>1. \A i, j \in 1..Len(q) : i < j /\ q[i] = Sentinel => q[j] = Sentinel
      <3> SUFFICES ASSUME NEW i \in 1..Len(q), NEW j \in 1..Len(q), i < j, q[i] = Sentinel
                   PROVE  q[j] = Sentinel
        OBVIOUS
      <3>1. i \notin 1..n
        BY <1>1, <1>3 DEF Sentinel
      <3>2. j \in (n + 1)..(n + m)
        BY <3>1, <1>1, <1>3
      <3> QED
        BY <3>2, <1>3
    <2>2. \A w \in 1..Len(ex) : ex[w] # Stopped
      BY <1>4 DEF Getting, Stopped
    <2> QED
      BY <2>1, <2>2 DEF RecordsComeFirst
  <1>7. SentinelIsLast("running", ex, <<>>, Getting)
    BY <1>1, <1>4 DEF SentinelIsLast, Getting, Stopped
  <1>8. NoRecordIsLost(R, "running", q, ex, <<>>, Getting, written[d])
    <2>1. \A r \in R : r \in 1..Len(q) /\ q[r] = r
      BY <1>1, <1>3
    <2> QED
      BY <2>1 DEF NoRecordIsLost
  <1> QED
    BY <1>2, <1>5, <1>6, <1>7, <1>8 DEF Pipe, PipeOK, Records, R

LEMMA JobStepKeepsPipe ==
  ASSUME Shape, NEW d \in Docs, Pipe(d), JobStep(d) \/ TimeOutJob(d) \/ WorkerDies(d)
  PROVE  Pipe(d)'
  <1> DEFINE R == Records(d)
  <1>1. R \in SUBSET (Nat \ {0})
    BY RecordsArePositive
  <1>2. /\ PipeOK(R, jobs[d].state, extraction[d], extractor[d], writes[d], writer[d], written[d])
        /\ DOMAIN extractor[d] = 1..Len(extractor[d])
    BY DEF Pipe, PipeOK, PipeTyped
  <1> SUFFICES PipeOK(R, jobs'[d].state, extraction'[d], extractor'[d], writes'[d], writer'[d], written'[d])
    BY DEF Pipe, Records
  <1> HIDE DEF R
  <1>3. CASE StartJob(d)
    BY <1>3, StartMakesPipe DEF Pipe, R, Records
  <1>4. CASE CloseWrites(d)
    <2>1. /\ extraction' = extraction /\ extractor' = extractor /\ writer' = writer /\ written' = written
          /\ writes'[d] = Append(writes[d], Sentinel)
          /\ jobs[d].state = "running" /\ \A w \in 1..Len(extractor[d]) : extractor[d][w] = Stopped
      BY <1>2, <1>4 DEF CloseWrites, Gathered, Shape
    <2>2. jobs'[d].state = "closing"
      BY <1>4, SetJobFacts DEF CloseWrites, JobStates
    <2> QED
      BY <2>1, <2>2, <1>1, <1>2, CloseKeepsPipe
  <1>5. CASE FinishJob(d)
    <2>1. /\ UNCHANGED pipeVars /\ jobs[d].state = "closing"
          /\ \/ jobs'[d].state = "done" /\ writer[d] = Stopped
             \/ jobs'[d].state = "failed"
      BY <1>5, SetJobFacts DEF FinishJob, JobStates
    <2> QED
      BY <2>1, <1>2 DEF pipeVars, PipeOK, SentinelIsLast, NoRecordIsLost
  <1>6. CASE FailJob(d)
    <2>1. UNCHANGED pipeVars /\ jobs'[d].state = "failed"
      BY <1>6, SetJobFacts DEF FailJob, JobStates
    <2> QED
      BY <2>1, <1>2 DEF pipeVars, PipeOK, SentinelIsLast, NoRecordIsLost
  <1>7. CASE TimeOutJob(d)
    <2>1. jobs'[d].state = "failed" /\ extraction' = extraction /\ writes' = writes
      BY <1>7, SetJobFacts DEF TimeOutJob, JobStates
    <2>2. /\ extractor'[d] \in Seq(Working(R)) /\ Len(extractor'[d]) = Len(extractor[d])
          /\ \A w \in 1..Len(extractor'[d]) : extractor'[d][w] = Stopped => extractor[d][w] = Stopped
          /\ writer'[d] \in Writing(R) /\ written'[d] \subseteq R
      <3>1. /\ extractor[d] \in Seq(Working(R)) /\ writer[d] \in Writing(R) /\ written[d] \subseteq R
        BY <1>2 DEF PipeOK, PipeTyped
      <3>2. CASE jobs[d].state = "running"
        <4>1. /\ writer' = writer /\ written' = written
              /\ extractor'[d] = [w \in 1..Len(extractor[d]) |->
                                     IF extractor[d][w] = Stopped THEN Stopped ELSE Raised]
          BY <1>2, <1>7, <3>2 DEF TimeOutJob, Shape
        <4>2. Raised # Stopped /\ Raised \in Working(R) /\ Stopped \in Working(R)
          BY DEF Raised, Stopped, Working
        <4> HIDE DEF Working
        <4>3. Len(extractor[d]) \in Nat
          BY <3>1
        <4> QED
          BY <3>1, <4>1, <4>2, <4>3
      <3>3. CASE jobs[d].state # "running"
        <4>1. /\ extractor' = extractor
              /\ writer'[d] \in {writer[d], Raised}
              /\ written'[d] \in {written[d], written[d] \cup ({writer[d]} \cap R)}
          BY <1>7, <3>3 DEF TimeOutJob, Shape, R
        <4> QED
          BY <3>1, <4>1 DEF Writing
      <3> QED
        BY <3>2, <3>3
    <2> QED
      BY <2>1, <2>2, <1>2 DEF PipeOK, PipeTyped, RecordsComeFirst, SentinelIsLast, NoRecordIsLost
  <1>8. CASE WorkerDies(d)
    <2>1. /\ jobs'[d].state = "queued" /\ extraction'[d] = <<>> /\ extractor'[d] = <<>>
          /\ writes'[d] = <<>> /\ writer'[d] = Absent /\ written' = written
      BY <1>8 DEF WorkerDies, Shape
    <2> QED
      BY <2>1, <1>2 DEF PipeOK, PipeTyped, RecordsComeFirst, SentinelIsLast, NoRecordIsLost, Writing
  <1> QED
    BY <1>3, <1>4, <1>5, <1>6, <1>7, <1>8 DEF JobStep

\* The pipelines of all the documents
AllPipes == Shape /\ \A d \in Docs : Pipe(d)

LEMMA AllPipesInit == IngestInit => AllPipes
  <1> SUFFICES ASSUME IngestInit, NEW d \in Docs
               PROVE  Shape /\ Pipe(d)
    BY DEF AllPipes, IngestInit, Shape, JobStates
  <1>1. Shape
    BY DEF IngestInit, Shape, JobStates
  <1>2. /\ jobs[d].state = "none" /\ extraction[d] = <<>> /\ extractor[d] = <<>>
        /\ writes[d] = <<>> /\ writer[d] = Absent /\ written[d] = {}
    BY DEF IngestInit
  <1> QED
    BY <1>1, <1>2
    DEF Pipe, PipeOK, PipeTyped, RecordsComeFirst, SentinelIsLast, NoRecordIsLost, Writing

LEMMA AllPipesNext == AllPipes /\ [IngestNext]_ingestVars => AllPipes'
  <1> SUFFICES ASSUME AllPipes, [IngestNext]_ingestVars
               PROVE  AllPipes'
    OBVIOUS
  <1>. USE DEF AllPipes
  <1>1. CASE UNCHANGED ingestVars
    BY <1>1 DEF ingestVars, pipeVars, Shape, Pipe, Records
  <1>2. ASSUME NEW d \in Docs,
               Ingest(d) \/ PipeStep(d) \/ JobStep(d) \/ TimeOutJob(d) \/ WorkerDies(d)
        PROVE  AllPipes'
    <2>1. Shape' /\ Only(d)
      BY <1>2, ShapeIsKept
    <2>2. \A c \in Docs \ {d} : Pipe(c)'
      BY <2>1 DEF Only, Pipe, Records
    <2>3. Pipe(d)'
      <3>1. CASE Ingest(d)
        <4>1. /\ UNCHANGED pipeVars
              /\ jobs' = jobs \/ SetJob(d, "queued")
          BY <3>1 DEF Ingest, CheckOwner, StoreChunks, QueueGraphJob, ListDocument, IngestFails
        <4>2. jobs'[d].state \in {jobs[d].state, "queued"}
          BY <4>1, SetJobFacts DEF JobStates
        <4> QED
          BY <4>1, <4>2
          DEF pipeVars, Pipe, Records, PipeOK, SentinelIsLast, NoRecordIsLost
      <3> QED
        BY <1>2, <3>1, PipeStepKeepsPipe, JobStepKeepsPipe
    <2> QED
      BY <2>1, <2>2, <2>3
  <1> QED
    BY <1>1, <1>2 DEF IngestNext

\* Every variable of the ingestion has its type.
THEOREM IngestTypeCorrect == IngestSpec => []IngestTypeOK
  <1>. DEFINE Counted == \A d \in Docs : jobs[d].redelivered \in 0..Redeliveries
  <1>1. IngestInit => AllPipes /\ Counted
    <2>1. IngestInit => Counted
      <3>1. 0 \in 0..Redeliveries
        BY IngestionAssumption
      <3>2. ASSUME IngestInit, NEW d \in Docs PROVE jobs[d].redelivered = 0
        BY <3>2 DEF IngestInit
      <3> QED
        BY <3>1, <3>2
    <2> QED
      BY <2>1, AllPipesInit
  <1>2. AllPipes /\ Counted /\ [IngestNext]_ingestVars => (AllPipes /\ Counted)'
    <2> SUFFICES ASSUME AllPipes, Counted, [IngestNext]_ingestVars
                 PROVE  Counted'
      BY AllPipesNext
    <2>1. CASE UNCHANGED ingestVars
      BY <2>1 DEF ingestVars
    <2>2. ASSUME NEW d \in Docs,
                 Ingest(d) \/ PipeStep(d) \/ JobStep(d) \/ TimeOutJob(d) \/ WorkerDies(d)
          PROVE  Counted'
      <3>1. jobs \in [Docs -> [state : JobStates, redelivered : Nat]]
        BY DEF AllPipes, Shape
      <3>2. CASE ~ WorkerDies(d)
        <4>1. jobs' = jobs \/ \E state \in JobStates : SetJob(d, state)
          <5>1. Ingest(d) => jobs' = jobs \/ SetJob(d, "queued")
            BY DEF Ingest, CheckOwner, StoreChunks, QueueGraphJob, ListDocument, IngestFails
          <5>2. PipeStep(d) => jobs' = jobs
            BY DEF PipeStep, TakeRecord, Extracted, ExtractRaises, TakeWrite, WriteRecord, WriteRaises
          <5>3. JobStep(d) => \E state \in {"running", "closing", "done", "failed"} : SetJob(d, state)
            BY DEF JobStep, StartJob, CloseWrites, FinishJob, FailJob
          <5>4. TimeOutJob(d) => SetJob(d, "failed")
            BY DEF TimeOutJob
          <5> QED
            BY <2>2, <3>2, <5>1, <5>2, <5>3, <5>4 DEF JobStates
        <4> QED
          BY <3>1, <4>1 DEF SetJob
      <3>3. CASE WorkerDies(d)
        BY <3>1, <3>3, IngestionAssumption DEF WorkerDies
      <3> QED
        BY <3>2, <3>3
    <2> QED
      BY <2>1, <2>2 DEF IngestNext
  <1>3. AllPipes /\ Counted => IngestTypeOK
    <2> SUFFICES ASSUME AllPipes, Counted PROVE IngestTypeOK
      OBVIOUS
    <2>1. jobs \in [Docs -> [state : {"none", "queued", "running", "closing", "done", "failed"},
                             redelivered : 0..Redeliveries]]
      BY DEF AllPipes, Shape, JobStates
    <2>2. ASSUME NEW d \in Docs
          PROVE  PipeTyped(Records(d), extraction[d], extractor[d], writes[d], writer[d], written[d])
      BY DEF AllPipes, Pipe, PipeOK
    <2> QED
      BY <2>1, <2>2 DEF AllPipes, Shape, IngestTypeOK, PipeTyped, Items, Working, Writing
  <1> QED
    BY <1>1, <1>2, <1>3, PTL DEF IngestSpec

\* A graph job that ends well has written every record of its document
\* (index_document_into_graph with its two kinds of workers and sentinels).
THEOREM GraphJobCompleteHolds == IngestSpec => []GraphJobComplete
  <1>1. AllPipes => GraphJobComplete
    <2> SUFFICES ASSUME AllPipes, NEW d \in Docs, jobs[d].state = "done"
                 PROVE  written[d] = Records(d)
      BY DEF GraphJobComplete
    <2>1. PipeOK(Records(d), "done", extraction[d], extractor[d], writes[d], writer[d], written[d])
      BY DEF AllPipes, Pipe
    <2>2. /\ Len(extractor[d]) \in Nat /\ Len(extractor[d]) > 0 /\ Len(writes[d]) = 0
          /\ writer[d] = Stopped /\ \A w \in 1..Len(extractor[d]) : extractor[d][w] = Stopped
          /\ written[d] \subseteq Records(d)
      BY <2>1 DEF PipeOK, PipeTyped, SentinelIsLast
    <2>3. \A i \in 1..Len(extraction[d]) : extraction[d][i] = Sentinel
      BY <2>1, <2>2 DEF PipeOK, RecordsComeFirst
    <2>4. \A r \in Records(d) : r # Sentinel /\ r # Stopped
      BY RecordsArePositive DEF Sentinel, Stopped
    <2>5. Stopped # Raised
      BY DEF Stopped, Raised
    <2>6. \A r \in Records(d) : r \in written[d]
      BY <2>1, <2>2, <2>3, <2>4, <2>5 DEF PipeOK, NoRecordIsLost
    <2> QED
      BY <2>2, <2>6
  <1> QED
    BY <1>1, AllPipesInit, AllPipesNext, PTL DEF IngestSpec
=============================================================================
