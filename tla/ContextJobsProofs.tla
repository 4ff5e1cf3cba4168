------------------------- MODULE ContextJobsProofs -------------------------
(***************************************************************************)
(* What contextualization guarantees for every number of messages, chunks, *)
(* ingesters, workers, deaths and late answers: the tables stay consistent *)
(* and, while texts only move on, no prefix lands on a text it was not     *)
(* written for and no chunk without a parent is forgotten.                 *)
(***************************************************************************)
EXTENDS ContextJobs, FiniteSetTheorems, TLAPS

\* Row ids are handed out once.
RowsDiffer ==
  /\ \A c \in Chunks : chunks[c].row <= lastRow
  /\ \A c, d \in Chunks : Stored(c) /\ chunks[c].row = chunks[d].row => c = d
  /\ \A e \in Ingesters \cup {Backfiller} : \A s \in todo[e] : s.row <= lastRow

\* A worker has loaded a chunk only for a job it holds.
LoadedIsHeld == \A w \in Workers : loaded[w] # Nothing => held[w] # NoJob

ShapeInv == ContextTypeOK /\ RowsDiffer /\ LoadedIsHeld

\* The id of a job a worker holds is never handed out again.
HeldIsUsed == \A w \in Workers : held[w] # NoJob => jobs[held[w]].status # "absent"

\* What was read is never ahead of the chunk: neither a queued digest, nor a
\* state about to be queued, nor the state a worker has loaded for its job.
JobsBehind ==
  \A j \in JobIds : InTable(j) => jobs[j].digest.text <= chunks[jobs[j].subject].text

StatesBehind ==
  \A e \in Ingesters \cup {Backfiller} : \A s \in todo[e] :
    RowExists(s) => s.digest.text <= chunks[s.chunk].text

LoadsBehind ==
  \A w \in Workers : loaded[w] # Nothing /\ InTable(held[w]) =>
    /\ jobs[held[w]].digest.text <= loaded[w].text
    /\ loaded[w].text <= chunks[jobs[held[w]].subject].text

ReadsBehind == JobsBehind /\ StatesBehind /\ LoadsBehind

TextInv == EmbedDescribesText /\ ReadsBehind /\ HeldIsUsed

\* A job of a root chunk that is done has been applied, unless the chunk has
\* moved on.
DoneIsApplied ==
  \A c \in Chunks, j \in JobIds :
    Root(c) /\ j \in QueuedFor(c, InputOf(c)) /\ jobs[j].status = "done" => Applied(c)

StateOf(c) == [chunk |-> c, row |-> chunks[c].row, digest |-> InputOf(c)]

\* Ingester i is going to queue chunk c as it now is.
Handles(i, c) ==
  /\ ingest[i].msg = MessageOf[c]
  /\ \/ ingest[i].step \in {"persisted", "retry"}
     \/ ingest[i].step = "queueing" /\ StateOf(c) \in todo[i]

RootsAreHandled ==
  \A c \in Chunks : Stored(c) /\ Root(c) => Covered(c) \/ \E i \in Ingesters : Handles(i, c)

CoverInv == DoneIsApplied /\ RootsAreHandled
-----------------------------------------------------------------------------
(* The queue's operations.                                                 *)

JobRows == Job \cup {Unused, Gone}

\* The same jobs are in the table, each for the same row and inputs.
SameJobs ==
  \A j \in JobIds :
    /\ InTable(j)' <=> InTable(j)
    /\ InTable(j) => /\ jobs'[j].subject = jobs[j].subject
                     /\ jobs'[j].row = jobs[j].row
                     /\ jobs'[j].digest = jobs[j].digest
    /\ ~InTable(j) => jobs'[j] = jobs[j]

\* No job but j is newly done.
DoneOnly(j) ==
  \A i \in JobIds : InTable(i) /\ i # j /\ jobs'[i].status = "done" => jobs[i].status = "done"

LEMMA JobInTable ==
  ASSUME QueueTypeOK, NEW j \in JobIds
  PROVE  /\ InTable(j) => jobs[j] \in Job
         /\ ~InTable(j) => jobs[j] \in {Unused, Gone}
BY DEF QueueTypeOK, InTable, Job, Unused, Gone

LEMMA ClaimedRow ==
  ASSUME NEW job \in Job
  PROVE  /\ Claimed(job) \in Job /\ Claimed(job).status = "running"
         /\ Claimed(job).subject = job.subject
         /\ Claimed(job).row = job.row /\ Claimed(job).digest = job.digest
<1> DEFINE next == job.attempts + 1
<1>1. next \in Nat
  BY DEF Job
<1> HIDE DEF next
<1> DEFINE new == [job EXCEPT !.status = "running", !.lease = "live", !.attempts = next]
<1>2. new \in Job /\ new.status = "running" /\ new.subject = job.subject
      /\ new.row = job.row /\ new.digest = job.digest
  BY <1>1 DEF Job
<1>3. Claimed(job) = new
  BY DEF Claimed, next
<1> QED  BY <1>2, <1>3

LEMMA RowEnded ==
  ASSUME QueueTypeOK, NEW w \in Workers, NEW st \in {"pending", "done", "failed"},
         jobs' = Ended(w, st)
  PROVE  /\ jobs' \in [JobIds -> JobRows]
         /\ SameJobs
         /\ DoneOnly(held[w])
         /\ st # "done" => DoneOnly(NoJob)
<1>1. ASSUME NEW j \in JobIds, j = held[w], InTable(j)
      PROVE  /\ jobs'[j] \in Job /\ jobs'[j].status = st
             /\ jobs'[j].subject = jobs[j].subject
             /\ jobs'[j].row = jobs[j].row
             /\ jobs'[j].digest = jobs[j].digest
  <2>1. jobs[j] \in Job
    BY <1>1, JobInTable
  <2>2. jobs'[j] = [jobs[j] EXCEPT !.status = st, !.lease = "none"]
    BY <1>1 DEF Ended
  <2> QED  BY <2>1, <2>2 DEF Job
<1>2. ASSUME NEW j \in JobIds, j # held[w] \/ ~InTable(j) PROVE jobs'[j] = jobs[j]
  BY <1>2 DEF Ended
<1>3. jobs' \in [JobIds -> JobRows]
  <2>1. \A j \in JobIds : jobs'[j] \in JobRows
    BY <1>1, <1>2 DEF QueueTypeOK, JobRows
  <2> QED  BY <2>1 DEF Ended
<1>4. SameJobs
  BY <1>1, <1>2 DEF SameJobs, InTable
<1>5. DoneOnly(held[w]) /\ (st # "done" => DoneOnly(NoJob))
  BY <1>1, <1>2 DEF DoneOnly
<1> QED  BY <1>3, <1>4, <1>5

LEMMA QueueStep ==
  ASSUME QueueTypeOK, NEW w \in Workers, NEW budget \in Nat,
         ClaimJob(w) \/ FailJob(w, budget) \/ RetireJob(w) \/ Crash(w)
  PROVE  /\ QueueTypeOK' /\ SameJobs /\ DoneOnly(held[w])
         /\ ~RetireJob(w) => DoneOnly(NoJob)
<1>1. CASE ClaimJob(w)
  <2>1. PICK j \in JobIds :
          /\ Claimable(j)
          /\ jobs' = [jobs EXCEPT ![j] = Claimed(@)]
          /\ held' = [held EXCEPT ![w] = j]
    BY <1>1 DEF ClaimJob
  <2>2. jobs[j] \in Job
    BY <2>1, JobInTable DEF Claimable
  <2>3. jobs'[j] \in Job /\ jobs'[j].status = "running" /\ jobs'[j].subject = jobs[j].subject
        /\ jobs'[j].row = jobs[j].row /\ jobs'[j].digest = jobs[j].digest
    <3>1. jobs'[j] = Claimed(jobs[j])
      BY <2>1 DEF QueueTypeOK
    <3> QED  BY <2>2, <3>1, ClaimedRow
  <2>4. \A i \in JobIds : i # j => jobs'[i] = jobs[i]
    BY <2>1 DEF QueueTypeOK
  <2>5. QueueTypeOK'
    BY <1>1, <2>1, <2>3, <2>4 DEF QueueTypeOK, ClaimJob, faultVars
  <2>6. SameJobs /\ DoneOnly(held[w]) /\ DoneOnly(NoJob)
    BY <2>1, <2>3, <2>4 DEF SameJobs, DoneOnly, InTable, Claimable
  <2> QED  BY <2>5, <2>6
<1>2. CASE FailJob(w, budget)
  <2>1. PICK st \in {"pending", "failed"} : jobs' = Ended(w, st)
    BY <1>2 DEF FailJob
  <2>2. jobs' \in [JobIds -> JobRows] /\ SameJobs /\ DoneOnly(held[w]) /\ DoneOnly(NoJob)
    BY <2>1, RowEnded
  <2> QED  BY <1>2, <2>2 DEF QueueTypeOK, FailJob, LetGo, faultVars, JobRows
<1>3. CASE RetireJob(w)
  <2>1. jobs' \in [JobIds -> JobRows] /\ SameJobs /\ DoneOnly(held[w])
    BY <1>3, RowEnded DEF RetireJob
  <2> QED  BY <1>3, <2>1 DEF QueueTypeOK, RetireJob, LetGo, faultVars, JobRows
<1>4. CASE Crash(w)
  BY <1>4, ContextAssumption
     DEF QueueTypeOK, Crash, LetGo, SameJobs, DoneOnly, InTable
<1> QED  BY <1>1, <1>2, <1>3, <1>4

LEMMA LeaseStep ==
  ASSUME QueueTypeOK, NEW j \in JobIds, LeaseLapses(j) \/ LeaseOverrun(j)
  PROVE  QueueTypeOK' /\ SameJobs /\ DoneOnly(NoJob) /\ UNCHANGED held
<1>1. InTable(j) /\ jobs' = Expired(j)
  BY DEF LeaseLapses, LeaseOverrun, Leased
<1>2. jobs[j] \in Job
  BY <1>1, JobInTable
<1>3. jobs'[j] \in Job /\ jobs'[j].status = jobs[j].status /\ jobs'[j].subject = jobs[j].subject
      /\ jobs'[j].row = jobs[j].row /\ jobs'[j].digest = jobs[j].digest
  BY <1>1, <1>2 DEF QueueTypeOK, Job, Expired
<1>4. \A i \in JobIds : i # j => jobs'[i] = jobs[i]
  BY <1>1 DEF QueueTypeOK, Expired
<1>5. held' = held /\ crashes' = crashes /\ overruns' \in 0 .. MaxOverruns
  BY ContextAssumption DEF QueueTypeOK, LeaseLapses, LeaseOverrun, faultVars
<1>6. QueueTypeOK'
  BY <1>1, <1>3, <1>4, <1>5 DEF QueueTypeOK, Expired
<1>7. SameJobs
  BY <1>1, <1>3, <1>4 DEF SameJobs, InTable
<1>8. DoneOnly(NoJob)
  BY <1>3, <1>4 DEF DoneOnly
<1> QED  BY <1>5, <1>6, <1>7, <1>8

\* A row is inserted, or the statement collides.
LEMMA InsertStep ==
  ASSUME QueueTypeOK, NEW c \in Chunks, NEW r \in Rows, NEW d \in Inputs, Insert(c, r, d)
  PROVE  /\ jobs' \in [JobIds -> JobRows]
         /\ \/ UNCHANGED jobs /\ QueuedFor(c, d) # {}
            \/ \E j \in JobIds :
                 /\ jobs[j].status = "absent" /\ ~InTable(j) /\ InTable(j)'
                 /\ jobs'[j].subject = c /\ jobs'[j].row = r /\ jobs'[j].digest = d
                 /\ jobs'[j].status = "pending"
                 /\ QueuedFor(c, d) = {}
                 /\ \A i \in JobIds : i # j => jobs'[i] = jobs[i]
<1>1. CASE QueuedFor(c, d) # {}
  BY <1>1 DEF Insert, QueueTypeOK, JobRows
<1>2. CASE QueuedFor(c, d) = {}
  <2> DEFINE new == [subject |-> c, row |-> r, digest |-> d,
                     status |-> "pending", attempts |-> 0, lease |-> "none"]
  <2>1. PICK j \in JobIds : jobs[j].status = "absent" /\ jobs' = [jobs EXCEPT ![j] = new]
    BY <1>2 DEF Insert
  <2>2. new \in Job
    BY DEF Job
  <2>3. jobs'[j] = new /\ \A i \in JobIds : i # j => jobs'[i] = jobs[i]
    BY <2>1 DEF QueueTypeOK
  <2>4. jobs' \in [JobIds -> JobRows]
    BY <2>1, <2>2 DEF QueueTypeOK, JobRows
  <2> QED  BY <1>2, <2>1, <2>3, <2>4 DEF InTable
<1> QED  BY <1>1, <1>2

\* The jobs of deleted rows go with them.
LEMMA CascadeStep ==
  ASSUME QueueTypeOK, NEW gone, jobs' = WithoutJobsOf(gone)
  PROVE  /\ jobs' \in [JobIds -> JobRows]
         /\ \A j \in JobIds :
              /\ InTable(j)' <=> InTable(j) /\ jobs[j].row \notin gone
              /\ InTable(j)' => jobs'[j] = jobs[j]
BY DEF QueueTypeOK, JobRows, WithoutJobsOf, InTable, Gone
-----------------------------------------------------------------------------
(* Shape.                                                                  *)

OthersKeep == ingest' = ingest /\ backfill' = backfill /\ todo' = todo

\* Between them a chunk's row and its jobs agree when rows stay and jobs stay.
LEMMA RowsKept ==
  ASSUME ShapeInv, SameJobs, \A c \in Chunks : chunks'[c].row = chunks[c].row
  PROVE  /\ \A j \in JobIds : InTable(j)' => chunks'[jobs'[j].subject].row = jobs'[j].row
         /\ \A c \in Chunks : Stored(c)' <=> Stored(c)
<1>1. \A j \in JobIds : InTable(j) => jobs[j].subject \in Chunks
  BY JobInTable DEF ShapeInv, ContextTypeOK, Job
<1> QED  BY <1>1 DEF ShapeInv, ContextTypeOK, SameJobs, Stored

LEMMA InputType ==
  ASSUME ContextTypeOK, NEW c \in Chunks, Stored(c)
  PROVE  InputOf(c) \in Inputs /\ chunks[c] \in ChunkRow
<1>1. chunks[c] \in ChunkRow
  BY DEF ContextTypeOK, Stored, NoChunk
<1>2. chunks[c].text \in Texts
  BY <1>1 DEF ChunkRow
<1> QED  BY <1>1, <1>2 DEF InputOf, Inputs, InMailbox

LEMMA StatesType ==
  ASSUME ContextTypeOK, NEW cs \in SUBSET Chunks
  PROVE  StatesToQueue(cs) \in SUBSET State
<1>1. ASSUME NEW c \in Chunks, Stored(c)
      PROVE  [chunk |-> c, row |-> chunks[c].row, digest |-> InputOf(c)] \in State
  <2>1. InputOf(c) \in Inputs /\ chunks[c].row \in Rows
    BY <1>1, InputType DEF ChunkRow
  <2> QED  BY <2>1 DEF State
<1> QED  BY <1>1 DEF StatesToQueue

\* The rows a message gets are new and distinct.
LEMMA NumberingRows ==
  ASSUME ContextTypeOK, NEW new \in SUBSET Chunks, lastRow + Cardinality(new) <= MaxRow
  PROVE  /\ Cardinality(new) \in Nat
         /\ lastRow + Cardinality(new) \in 0 .. MaxRow
         /\ \A f \in Numbering(new), c \in new :
              f[c] \in Rows /\ f[c] > lastRow /\ f[c] <= lastRow + Cardinality(new)
         /\ \A f \in Numbering(new) : \A c, d \in new : f[c] = f[d] => c = d
<1>1. Cardinality(new) \in Nat
  <2>1. IsFiniteSet(new)
    BY ContextAssumption, FS_Subset
  <2> QED  BY <2>1, FS_CardinalityType
<1>2. lastRow \in Nat /\ MaxRow \in Nat
  BY ContextAssumption DEF ContextTypeOK
<1> DEFINE n == Cardinality(new)
<1>3. ASSUME NEW f \in Numbering(new), NEW c \in new PROVE f[c] \in (lastRow + 1) .. (lastRow + n)
  BY <1>3 DEF Numbering
<1> HIDE DEF n
<1>4. n \in Nat /\ lastRow + n <= MaxRow
  BY <1>1 DEF n
<1>5. \A f \in Numbering(new), c \in new : f[c] \in Rows /\ f[c] > lastRow /\ f[c] <= lastRow + n
  BY <1>2, <1>3, <1>4 DEF Rows
<1>6. lastRow + n \in 0 .. MaxRow
  BY <1>2, <1>4
<1>7. \A f \in Numbering(new) : \A c, d \in new : f[c] = f[d] => c = d
  BY DEF Numbering
<1> QED  BY <1>4, <1>5, <1>6, <1>7 DEF n

Enqueuers == Ingesters \cup {Backfiller}

\* Steps that leave the chunks alone keep the shape if they keep the jobs and
\* read no more than stored rows.
LEMMA ShapeKept ==
  ASSUME ShapeInv, UNCHANGED chunkVars, QueueTypeOK', SameJobs,
         ingest' \in [Ingesters -> [msg : Messages \cup {NoMessage},
                                    step : {"idle", "persisted", "queueing", "retry"}]],
         backfill' \in [on : BOOLEAN, after : 0 .. MaxRow],
         todo' \in [Enqueuers -> SUBSET State],
         \A e \in Enqueuers : \A s \in todo'[e] : s \in todo[e] \/ s.row <= lastRow,
         loaded' \in [Workers -> Prefixes],
         LoadedIsHeld'
  PROVE  ShapeInv'
<1>1. chunks' = chunks /\ lastRow' = lastRow
  BY DEF chunkVars
<1>2. \A j \in JobIds : InTable(j)' => chunks'[jobs'[j].subject].row = jobs'[j].row
  BY <1>1, RowsKept
<1>3. ContextTypeOK'
  BY <1>1, <1>2 DEF ShapeInv, ContextTypeOK, Enqueuers
<1>4. \A e \in Enqueuers : \A s \in todo'[e] : s.row <= lastRow'
  BY <1>1 DEF ShapeInv, RowsDiffer, Enqueuers
<1>5. RowsDiffer'
  BY <1>1, <1>4 DEF ShapeInv, RowsDiffer, Enqueuers, Stored
<1> QED  BY <1>3, <1>5 DEF ShapeInv

LEMMA PersistShape ==
  ASSUME ShapeInv, NEW i \in Ingesters, NEW m \in Messages, Persist(i, m)
  PROVE  ShapeInv'
<1>0. ContextTypeOK /\ QueueTypeOK /\ RowsDiffer
  BY DEF ShapeInv, ContextTypeOK
<1>1. PICK now \in SUBSET ChunksOf(m) \ {{}} :
        LET new == {c \in now : ~Stored(c)}
            stale == {c \in ChunksOf(m) \ now : Stored(c)}
        IN  /\ lastRow + Cardinality(new) <= MaxRow
            /\ lastRow' = lastRow + Cardinality(new)
            /\ \E t \in [now -> Texts], id \in Numbering(new) :
                 chunks' = [c \in Chunks |->
                     IF c \in now THEN Upserted(c, t[c], IF c \in new THEN id[c] ELSE 0)
                     ELSE IF c \in stale THEN NoChunk ELSE chunks[c]]
            /\ jobs' = WithoutJobsOf({chunks[c].row : c \in stale})
  BY DEF Persist
<1> DEFINE new == {c \in now : ~Stored(c)}
           stale == {c \in ChunksOf(m) \ now : Stored(c)}
<1>2. PICK t \in [now -> Texts], id \in Numbering(new) :
        chunks' = [c \in Chunks |->
                     IF c \in now THEN Upserted(c, t[c], IF c \in new THEN id[c] ELSE 0)
                     ELSE IF c \in stale THEN NoChunk ELSE chunks[c]]
  BY <1>1
<1>3. now \subseteq Chunks /\ new \subseteq Chunks /\ stale \subseteq Chunks
  BY DEF ChunksOf
<1>4. /\ lastRow' \in 0 .. MaxRow /\ lastRow \in Nat /\ lastRow <= lastRow'
      /\ \A c \in new : id[c] \in Rows /\ id[c] > lastRow /\ id[c] <= lastRow'
      /\ \A c, d \in new : id[c] = id[d] => c = d
  <2>1. lastRow + Cardinality(new) <= MaxRow /\ lastRow' = lastRow + Cardinality(new)
    BY <1>1
  <2>2. id \in Numbering(new) /\ new \in SUBSET Chunks
    BY <1>2, <1>3
  <2> HIDE DEF new
  <2>3. /\ Cardinality(new) \in Nat
        /\ lastRow + Cardinality(new) \in 0 .. MaxRow
        /\ \A c \in new : id[c] \in Rows /\ id[c] > lastRow /\ id[c] <= lastRow + Cardinality(new)
        /\ \A c, d \in new : id[c] = id[d] => c = d
    BY <1>0, <2>1, <2>2, NumberingRows
  <2>4. lastRow \in Nat
    BY <1>0 DEF ContextTypeOK
  <2> QED  BY <2>1, <2>3, <2>4
<1>5. ASSUME NEW c \in new
      PROVE  chunks'[c] \in ChunkRow /\ chunks'[c].row = id[c] /\ ~Stored(c)
  <2>1. chunks'[c] = [row |-> id[c], text |-> t[c], hash |-> Nothing, prefix |-> Nothing,
                      embedText |-> t[c], embedPrefix |-> Nothing]
    BY <1>2, <1>3 DEF Upserted
  <2>2. t[c] \in Texts /\ id[c] \in Rows
    BY <1>2, <1>4
  <2> QED  BY <2>1, <2>2 DEF ChunkRow, Prefixes
<1>6. ASSUME NEW c \in now \ new
      PROVE  chunks'[c] \in ChunkRow /\ chunks'[c].row = chunks[c].row /\ Stored(c)
  <2>1. chunks'[c] = [chunks[c] EXCEPT !.text = t[c], !.embedText = t[c],
                                       !.embedPrefix = Nothing] /\ Stored(c)
    BY <1>2, <1>3 DEF Upserted
  <2>2. chunks[c] \in ChunkRow /\ t[c] \in Texts /\ Nothing \in Prefixes
    BY <1>0, <1>2, <1>3, <2>1, InputType DEF Prefixes
  <2> HIDE DEF new
  <2> QED  BY <2>1, <2>2 DEF ChunkRow
<1>7. ASSUME NEW c \in stale
      PROVE  chunks'[c] = NoChunk /\ Stored(c)
  BY <1>2, <1>3
<1>8. ASSUME NEW c \in Chunks, c \notin now, c \notin stale
      PROVE  chunks'[c] = chunks[c]
  BY <1>2, <1>8
<1>9. \A c \in Chunks : c \in new \/ c \in now \ new \/ c \in stale \/ (c \notin now /\ c \notin stale)
  OBVIOUS
<1>10. jobs' = WithoutJobsOf({chunks[c].row : c \in stale})
  BY <1>1
<1>11. chunks' = [c \in Chunks |-> chunks'[c]]
  BY <1>2
<1> HIDE DEF new, stale
<1>12. chunks' \in [Chunks -> ChunkRow \cup {NoChunk}]
  <2>1. \A c \in Chunks : chunks'[c] \in ChunkRow \cup {NoChunk}
    BY <1>0, <1>5, <1>6, <1>7, <1>8, <1>9 DEF ContextTypeOK
  <2> QED  BY <1>11, <2>1
<1>13. jobs' \in [JobIds -> JobRows]
       /\ \A j \in JobIds :
            /\ InTable(j)' => InTable(j) /\ jobs[j].row \notin {chunks[c].row : c \in stale}
            /\ InTable(j)' => jobs'[j] = jobs[j]
  BY <1>0, <1>10, CascadeStep
<1>14. ASSUME NEW j \in JobIds, InTable(j)'
       PROVE  chunks'[jobs'[j].subject].row = jobs'[j].row
  <2> DEFINE c == jobs[j].subject
  <2>1. InTable(j) /\ jobs'[j] = jobs[j] /\ jobs[j] \in Job
    BY <1>0, <1>13, <1>14, JobInTable
  <2>2. c \in Chunks /\ chunks[c].row = jobs[j].row /\ jobs[j].row \in Rows
    BY <1>0, <2>1 DEF ContextTypeOK, Job
  <2>3. Stored(c)
    BY <2>2 DEF Stored, Rows
  <2>4. c \notin stale
    BY <1>13, <1>14, <2>2
  <2>5. chunks'[c].row = chunks[c].row
    BY <1>5, <1>6, <1>8, <1>9, <2>2, <2>3, <2>4
  <2> QED  BY <2>1, <2>2, <2>5
<1>15. ingest' \in [Ingesters -> [msg : Messages \cup {NoMessage},
                                  step : {"idle", "persisted", "queueing", "retry"}]]
  BY <1>0 DEF Persist, ContextTypeOK
<1>16. ContextTypeOK'
  BY <1>0, <1>4, <1>12, <1>13, <1>14, <1>15 DEF Persist, ContextTypeOK, QueueTypeOK, JobRows
<1>17. \A c \in Chunks : chunks[c].row <= lastRow /\ chunks[c].row \in Nat
  <2>1. \A c \in Chunks : chunks[c].row \in Nat
    BY <1>0 DEF ContextTypeOK, ChunkRow, NoChunk, Rows
  <2> QED  BY <1>0, <2>1 DEF RowsDiffer
<1>18. ASSUME NEW c \in Chunks PROVE chunks'[c].row <= lastRow'
  <2>1. CASE c \in new
    BY <1>4, <1>5, <2>1
  <2>2. CASE c \in now \ new
    BY <1>4, <1>6, <1>17, <2>2
  <2>3. CASE c \in stale
    BY <1>4, <1>7, <2>3 DEF NoChunk
  <2>4. CASE c \notin now /\ c \notin stale
    BY <1>4, <1>8, <1>17, <2>4
  <2> QED  BY <1>9, <2>1, <2>2, <2>3, <2>4
<1>19. ASSUME NEW c \in Chunks, NEW d \in Chunks, Stored(c)', chunks'[c].row = chunks'[d].row
       PROVE  c = d
  <2>0. chunks'[c].row # 0
    BY <1>19 DEF Stored
  <2>1. \A x \in Chunks : \/ x \in new /\ chunks'[x].row = id[x]
                          \/ x \notin new /\ chunks'[x].row \in {0, chunks[x].row}
    BY <1>5, <1>6, <1>7, <1>8, <1>9 DEF NoChunk
  <2>2. CASE c \in new /\ d \in new
    BY <1>4, <1>5, <1>19, <2>2
  <2>3. CASE c \in new /\ d \notin new
    BY <1>4, <1>17, <1>19, <2>0, <2>1, <2>3
  <2>4. CASE c \notin new /\ d \in new
    BY <1>4, <1>17, <1>19, <2>0, <2>1, <2>4
  <2>5. CASE c \notin new /\ d \notin new
    BY <1>0, <1>19, <2>0, <2>1, <2>5 DEF RowsDiffer, Stored
  <2> QED  BY <2>2, <2>3, <2>4, <2>5
<1>20. RowsDiffer'
  <2>1. ASSUME NEW e \in Enqueuers, NEW s \in todo'[e] PROVE s.row <= lastRow'
    <3>1. s \in todo[e] /\ s \in State
      BY <1>0, <2>1 DEF Persist, ContextTypeOK, Enqueuers
    <3>2. s.row <= lastRow /\ s.row \in Nat
      BY <1>0, <3>1 DEF RowsDiffer, Enqueuers, State, Rows
    <3> QED  BY <1>4, <3>2
  <2> QED  BY <1>18, <1>19, <2>1 DEF RowsDiffer, Enqueuers
<1>21. LoadedIsHeld'
  BY DEF Persist, ShapeInv, LoadedIsHeld
<1> QED  BY <1>16, <1>20, <1>21 DEF ShapeInv

LEMMA DeleteShape ==
  ASSUME ShapeInv, NEW i \in Ingesters, NEW m \in Messages, DeleteMessage(i, m)
  PROVE  ShapeInv'
<1>0. ContextTypeOK /\ QueueTypeOK /\ RowsDiffer
  BY DEF ShapeInv, ContextTypeOK
<1>1. /\ \A c \in Chunks : chunks'[c] = IF MessageOf[c] = m THEN NoChunk ELSE chunks[c]
      /\ chunks' = [c \in Chunks |-> IF MessageOf[c] = m THEN NoChunk ELSE chunks[c]]
      /\ jobs' = WithoutJobsOf({chunks[c].row : c \in ChunksOf(m)})
  BY DEF DeleteMessage
<1>2. jobs' \in [JobIds -> JobRows]
      /\ \A j \in JobIds :
           /\ InTable(j)' => InTable(j) /\ jobs[j].row \notin {chunks[c].row : c \in ChunksOf(m)}
           /\ InTable(j)' => jobs'[j] = jobs[j]
  BY <1>0, <1>1, CascadeStep
<1>3. ASSUME NEW j \in JobIds, InTable(j)'
      PROVE  chunks'[jobs'[j].subject].row = jobs'[j].row
  <2>1. InTable(j) /\ jobs'[j] = jobs[j] /\ jobs[j] \in Job
    BY <1>0, <1>2, <1>3, JobInTable
  <2>2. jobs[j].subject \in Chunks /\ chunks[jobs[j].subject].row = jobs[j].row
    BY <1>0, <2>1 DEF ContextTypeOK, Job
  <2>3. MessageOf[jobs[j].subject] # m
    BY <1>2, <1>3, <2>2 DEF ChunksOf
  <2> QED  BY <1>1, <2>1, <2>2, <2>3
<1>4. chunks' \in [Chunks -> ChunkRow \cup {NoChunk}]
  BY <1>0, <1>1 DEF ContextTypeOK
<1>5. ingest' \in [Ingesters -> [msg : Messages \cup {NoMessage},
                                  step : {"idle", "persisted", "queueing", "retry"}]]
  BY <1>0 DEF DeleteMessage, ContextTypeOK, IdleIngest
<1>6. ContextTypeOK'
  BY <1>0, <1>2, <1>3, <1>4, <1>5 DEF DeleteMessage, ContextTypeOK, QueueTypeOK, JobRows
<1>7. RowsDiffer'
  <2>1. lastRow' = lastRow /\ lastRow \in Nat /\ todo' = todo
    BY <1>0 DEF ContextTypeOK, DeleteMessage
  <2>2. \A c \in Chunks : chunks'[c].row \in {0, chunks[c].row}
    BY <1>1 DEF NoChunk
  <2>3. \A c, d \in Chunks : Stored(c)' /\ chunks'[c].row = chunks'[d].row => c = d
    BY <1>0, <2>2 DEF RowsDiffer, Stored
  <2>4. \A c \in Chunks : chunks'[c].row <= lastRow'
    BY <1>0, <2>1, <2>2 DEF RowsDiffer
  <2> QED  BY <1>0, <2>1, <2>3, <2>4 DEF RowsDiffer
<1>8. LoadedIsHeld'
  BY DEF DeleteMessage, ShapeInv, LoadedIsHeld
<1> QED  BY <1>6, <1>7, <1>8 DEF ShapeInv

\* A worker's steps on the queue, and what they leave alone.
WorkerStep(w) ==
  \/ Claim(w) \/ Load(w) \/ LoadFails(w) \/ ProviderFails(w) \/ DropResult(w)
  \/ \E p \in {loaded[w], Nothing} : Commit(w, p)
  \/ WorkerDies(w)

LEMMA WorkerQueue ==
  ASSUME ContextTypeOK, NEW w \in Workers, WorkerStep(w)
  PROVE  /\ QueueTypeOK' /\ SameJobs /\ DoneOnly(held[w])
         /\ UNCHANGED ingestVars /\ lastRow' = lastRow
         /\ \A v \in Workers : v # w => held'[v] = held[v] /\ loaded'[v] = loaded[v]
<1>0. QueueTypeOK /\ held \in [Workers -> JobIds \cup {NoJob}] /\ loaded \in [Workers -> Prefixes]
  BY DEF ContextTypeOK, QueueTypeOK
<1>1. UNCHANGED ingestVars /\ lastRow' = lastRow
  BY DEF WorkerStep, Claim, Load, LoadFails, ProviderFails, DropResult, Commit, WorkerDies, chunkVars
<1>2. \A v \in Workers : v # w => loaded'[v] = loaded[v]
  BY <1>0 DEF WorkerStep, Claim, Load, LoadFails, ProviderFails, DropResult, Commit, WorkerDies, Forget
<1>3. CASE Load(w)
  BY <1>0, <1>1, <1>2, <1>3 DEF Load, SameJobs, DoneOnly, InTable, QueueTypeOK
<1>4. CASE FailJob(w, 0) \/ FailJob(w, MaxAttempts) \/ ClaimJob(w) \/ RetireJob(w) \/ Crash(w)
  <2>1. QueueTypeOK' /\ SameJobs /\ DoneOnly(held[w])
    BY <1>0, <1>4, QueueStep, ContextAssumption
  <2>2. \A v \in Workers : v # w => held'[v] = held[v]
    BY <1>0, <1>4 DEF ClaimJob, FailJob, RetireJob, Crash, LetGo
  <2> QED  BY <1>1, <1>2, <2>1, <2>2
<1> QED
  BY <1>3, <1>4 DEF WorkerStep, Claim, LoadFails, ProviderFails, DropResult, Commit, WorkerDies

LEMMA WorkerShape ==
  ASSUME ShapeInv, NEW w \in Workers, WorkerStep(w)
  PROVE  ShapeInv'
<1>0. ContextTypeOK /\ RowsDiffer /\ LoadedIsHeld
  BY DEF ShapeInv
<1>1. /\ QueueTypeOK' /\ SameJobs
      /\ UNCHANGED ingestVars /\ lastRow' = lastRow
      /\ \A v \in Workers : v # w => held'[v] = held[v] /\ loaded'[v] = loaded[v]
  BY <1>0, WorkerQueue
<1>2. /\ ingest' = ingest /\ backfill' = backfill /\ todo' = todo
  BY <1>1 DEF ingestVars
<1>3. /\ chunks' \in [Chunks -> ChunkRow \cup {NoChunk}]
      /\ \A c \in Chunks : chunks'[c].row = chunks[c].row
  <2>1. CASE UNCHANGED chunks
    BY <1>0, <2>1 DEF ContextTypeOK
  <2>2. ASSUME NEW p \in {loaded[w], Nothing}, Commit(w, p)
        PROVE  /\ chunks' \in [Chunks -> ChunkRow \cup {NoChunk}]
               /\ \A c \in Chunks : chunks'[c].row = chunks[c].row
    <3>1. PICK c \in Target(w) :
            /\ Fresh(w, c)
            /\ chunks' = [chunks EXCEPT ![c] =
                 [@ EXCEPT !.hash = jobs[held[w]].digest, !.prefix = p,
                           !.embedText = loaded[w].text, !.embedPrefix = p]]
      BY <2>2 DEF Commit
    <3>2. c \in Chunks /\ Stored(c)
      BY DEF Target
    <3>3. chunks[c] \in ChunkRow /\ InputOf(c) \in Inputs
      BY <1>0, <3>2, InputType
    <3>4. loaded[w] # Nothing /\ loaded[w] \in Prefixes
      BY <1>0, <2>2 DEF Commit, ContextTypeOK
    <3>5. p \in Prefixes /\ loaded[w].text \in Texts /\ jobs[held[w]].digest \in Prefixes
      BY <3>1, <3>3, <3>4 DEF Fresh, Prefixes, Inputs
    <3> DEFINE new == [chunks[c] EXCEPT !.hash = jobs[held[w]].digest, !.prefix = p,
                                        !.embedText = loaded[w].text, !.embedPrefix = p]
    <3>6. new \in ChunkRow /\ new.row = chunks[c].row
      BY <3>3, <3>5 DEF ChunkRow
    <3>7. chunks' = [chunks EXCEPT ![c] = new]
      BY <3>1
    <3> HIDE DEF new
    <3> QED  BY <1>0, <3>2, <3>6, <3>7 DEF ContextTypeOK
  <2> QED  BY <2>1, <2>2 DEF WorkerStep, Claim, Load, LoadFails, ProviderFails, DropResult,
                             WorkerDies, chunkVars
<1>4. /\ \A j \in JobIds : InTable(j)' => chunks'[jobs'[j].subject].row = jobs'[j].row
      /\ \A c \in Chunks : Stored(c)' <=> Stored(c)
  BY <1>1, <1>3, RowsKept
<1>5. loaded' \in [Workers -> Prefixes]
  <2>1. \A c \in Target(w) : InputOf(c) \in Prefixes
    BY <1>0, InputType DEF Target, Prefixes
  <2>2. Nothing \in Prefixes /\ loaded \in [Workers -> Prefixes]
    BY <1>0 DEF Prefixes, ContextTypeOK
  <2> QED  BY <2>1, <2>2 DEF WorkerStep, Claim, Load, LoadFails, ProviderFails, DropResult,
                             Commit, WorkerDies, Forget
<1>6. LoadedIsHeld'
  <2>1. loaded'[w] # Nothing => held'[w] # NoJob
    <3>0. loaded \in [Workers -> Prefixes] /\ held \in [Workers -> JobIds \cup {NoJob}]
      BY <1>0 DEF ContextTypeOK, QueueTypeOK
    <3>1. CASE Load(w)
      BY <3>1 DEF Load
    <3>2. CASE Claim(w)
      BY <1>0, <3>0, <3>2 DEF Claim, ClaimJob, LoadedIsHeld
    <3>3. CASE LoadFails(w)
      BY <3>0, <3>3 DEF LoadFails
    <3>4. CASE Forget(w)
      BY <3>0, <3>4 DEF Forget
    <3> QED  BY <3>1, <3>2, <3>3, <3>4 DEF WorkerStep, ProviderFails, DropResult, Commit, WorkerDies
  <2> QED  BY <1>0, <1>1, <2>1 DEF LoadedIsHeld
<1>7. ContextTypeOK'
  <2>1. chunks' \in [Chunks -> ChunkRow \cup {NoChunk}]
    BY <1>3
  <2>2. lastRow' \in 0 .. MaxRow
    BY <1>0, <1>1 DEF ContextTypeOK
  <2>3. /\ ingest' \in [Ingesters -> [msg : Messages \cup {NoMessage},
                               step : {"idle", "persisted", "queueing", "retry"}]]
        /\ backfill' \in [on : BOOLEAN, after : 0 .. MaxRow]
        /\ todo' \in [Ingesters \cup {Backfiller} -> SUBSET State]
    BY <1>0, <1>2 DEF ContextTypeOK
  <2> QED  BY <1>1, <1>4, <1>5, <2>1, <2>2, <2>3 DEF ContextTypeOK
<1>8. RowsDiffer'
  BY <1>0, <1>1, <1>2, <1>3, <1>4 DEF RowsDiffer
<1> QED  BY <1>6, <1>7, <1>8 DEF ShapeInv

\* Steps of ingesters and backfill that do not store or delete a message.
QueueingStep ==
  \/ \E i \in Ingesters : ReadStates(i) \/ EnqueueRaises(i) \/ IngestDone(i) \/ IngestDies(i)
  \/ \E e \in Enqueuers : Enqueue(e)
  \/ StartBackfill \/ ReadPage \/ BackfillEnds

LEMMA InsertKeepsShape ==
  ASSUME ShapeInv, NEW e \in Enqueuers, Enqueue(e)
  PROVE  ShapeInv'
<1>0. ContextTypeOK /\ QueueTypeOK /\ RowsDiffer /\ LoadedIsHeld
  BY DEF ShapeInv, ContextTypeOK
<1>1. PICK s \in todo[e] :
        /\ RowExists(s) \/ QueuedFor(s.chunk, s.digest) # {}
        /\ Insert(s.chunk, s.row, s.digest)
        /\ todo' = [todo EXCEPT ![e] = @ \ {s}]
  BY DEF Enqueue
<1>2. s \in State
  BY <1>0 DEF ContextTypeOK, Enqueuers
<1>3. s.chunk \in Chunks /\ s.row \in Rows /\ s.digest \in Inputs
  BY <1>2 DEF State
<1>4. /\ jobs' \in [JobIds -> JobRows]
      /\ \/ UNCHANGED jobs
         \/ /\ RowExists(s)
            /\ \E j \in JobIds :
                 /\ jobs'[j].subject = s.chunk /\ jobs'[j].row = s.row
                 /\ \A i \in JobIds : i # j => jobs'[i] = jobs[i]
  BY <1>0, <1>1, <1>3, InsertStep
<1>5. UNCHANGED <<chunkVars, ingest, backfill, loaded, held, crashes, overruns>>
  BY DEF Enqueue
<1>6. \A j \in JobIds : InTable(j)' => chunks[jobs'[j].subject].row = jobs'[j].row
  BY <1>0, <1>4 DEF ContextTypeOK, RowExists, InTable
<1>7. todo' \in [Enqueuers -> SUBSET State] /\ \A x \in Enqueuers : todo'[x] \subseteq todo[x]
  BY <1>0, <1>1 DEF ContextTypeOK, Enqueuers
<1>8. ContextTypeOK'
  BY <1>0, <1>4, <1>5, <1>6, <1>7 DEF ContextTypeOK, QueueTypeOK, JobRows, chunkVars, Enqueuers
<1>9. RowsDiffer'
  BY <1>0, <1>5, <1>7 DEF RowsDiffer, chunkVars, Stored, Enqueuers
<1>10. LoadedIsHeld'
  BY <1>0, <1>5 DEF LoadedIsHeld
<1> QED  BY <1>8, <1>9, <1>10 DEF ShapeInv

LEMMA QueueingShape ==
  ASSUME ShapeInv, QueueingStep
  PROVE  ShapeInv'
<1>0. ContextTypeOK /\ QueueTypeOK /\ RowsDiffer /\ LoadedIsHeld
  BY DEF ShapeInv, ContextTypeOK
<1>1. CASE \E e \in Enqueuers : Enqueue(e)
  BY <1>1, InsertKeepsShape
<1>2. CASE ~ \E e \in Enqueuers : Enqueue(e)
  <2>1. /\ UNCHANGED <<chunkVars, loaded, jobs, held, overruns>>
        /\ crashes' \in 0 .. MaxCrashes
    BY <1>0, <1>2, ContextAssumption
       DEF QueueingStep, ReadStates, EnqueueRaises, IngestDone, IngestDies, StartBackfill,
           ReadPage, BackfillEnds, QueueTypeOK
  <2>2. QueueTypeOK' /\ SameJobs
    BY <1>0, <2>1 DEF QueueTypeOK, SameJobs, InTable
  <2>3. ingest' \in [Ingesters -> [msg : Messages \cup {NoMessage},
                                   step : {"idle", "persisted", "queueing", "retry"}]]
    <3>1. ASSUME NEW i \in Ingesters, NEW st \in {"queueing", "retry"},
                 ingest' = [ingest EXCEPT ![i].step = st]
          PROVE  ingest' \in [Ingesters -> [msg : Messages \cup {NoMessage},
                                   step : {"idle", "persisted", "queueing", "retry"}]]
      BY <1>0, <3>1 DEF ContextTypeOK
    <3>2. ASSUME NEW i \in Ingesters, ingest' = [ingest EXCEPT ![i] = IdleIngest]
          PROVE  ingest' \in [Ingesters -> [msg : Messages \cup {NoMessage},
                                   step : {"idle", "persisted", "queueing", "retry"}]]
      BY <1>0, <3>2 DEF ContextTypeOK, IdleIngest
    <3> QED  BY <1>0, <1>2, <3>1, <3>2
             DEF QueueingStep, ReadStates, EnqueueRaises, IngestDone, IngestDies, StartBackfill,
                 ReadPage, BackfillEnds, ContextTypeOK
  <2>4. backfill' \in [on : BOOLEAN, after : 0 .. MaxRow]
    <3>1. CASE ReadPage
      <4>1. PICK c \in Chunks : Stored(c) /\ backfill' = [backfill EXCEPT !.after = chunks[c].row]
        BY <3>1 DEF ReadPage, NeedContext
      <4>2. chunks[c].row \in 0 .. MaxRow
        BY <1>0, <4>1, InputType, ContextAssumption DEF ChunkRow, Rows
      <4> QED  BY <1>0, <4>1, <4>2 DEF ContextTypeOK
    <3>2. CASE StartBackfill \/ BackfillEnds
      <4>1. PICK on \in BOOLEAN : backfill' = [on |-> on, after |-> 0]
        BY <3>2 DEF StartBackfill, BackfillEnds, IdleBackfill
      <4>2. 0 \in 0 .. MaxRow
        BY ContextAssumption
      <4> QED  BY <4>1, <4>2
    <3>3. CASE UNCHANGED backfill
      BY <1>0, <3>3 DEF ContextTypeOK
    <3> QED  BY <1>2, <3>1, <3>2, <3>3
             DEF QueueingStep, ReadStates, EnqueueRaises, IngestDone, IngestDies
  <2>5. /\ todo' \in [Enqueuers -> SUBSET State]
        /\ \A e \in Enqueuers : \A s \in todo'[e] : s \in todo[e] \/ s.row <= lastRow
    <3>1. ASSUME NEW e \in Enqueuers, NEW cs \in SUBSET Chunks,
                 todo' = [todo EXCEPT ![e] = StatesToQueue(cs)]
          PROVE  /\ todo' \in [Enqueuers -> SUBSET State]
                 /\ \A x \in Enqueuers : \A s \in todo'[x] : s \in todo[x] \/ s.row <= lastRow
      <4>1. StatesToQueue(cs) \in SUBSET State
        BY <1>0, StatesType
      <4>2. \A s \in StatesToQueue(cs) : s.row <= lastRow
        BY <1>0 DEF StatesToQueue, RowsDiffer
      <4> QED  BY <1>0, <3>1, <4>1, <4>2 DEF ContextTypeOK, Enqueuers
    <3>2. ASSUME NEW e \in Enqueuers, todo' = [todo EXCEPT ![e] = {}]
          PROVE  /\ todo' \in [Enqueuers -> SUBSET State]
                 /\ \A x \in Enqueuers : \A s \in todo'[x] : s \in todo[x] \/ s.row <= lastRow
      BY <1>0, <3>2 DEF ContextTypeOK, Enqueuers
    <3>3. CASE UNCHANGED todo
      BY <1>0, <3>3 DEF ContextTypeOK, Enqueuers
    <3>4. \A i \in Ingesters : i \in Enqueuers /\ ChunksOf(ingest[i].msg) \in SUBSET Chunks
      BY DEF Enqueuers, ChunksOf
    <3>5. Backfiller \in Enqueuers /\ \A page \in SUBSET NeedContext : page \in SUBSET Chunks
      BY DEF Enqueuers, NeedContext
    <3>6. CASE \E i \in Ingesters : ReadStates(i)
      BY <3>1, <3>4, <3>6 DEF ReadStates
    <3>7. CASE ReadPage
      BY <3>1, <3>5, <3>7 DEF ReadPage
    <3> QED  BY <1>2, <3>2, <3>3, <3>4, <3>5, <3>6, <3>7
             DEF QueueingStep, EnqueueRaises, IngestDone, IngestDies, StartBackfill, BackfillEnds
  <2>6. loaded' \in [Workers -> Prefixes] /\ LoadedIsHeld'
    BY <1>0, <2>1 DEF ContextTypeOK, LoadedIsHeld
  <2>7. UNCHANGED chunkVars
    BY <2>1
  <2> QED  BY <2>2, <2>3, <2>4, <2>5, <2>6, <2>7, ShapeKept
<1> QED  BY <1>1, <1>2

\* Next, by what it does to the chunks.
LEMMA NextSplits ==
  ASSUME Next
  PROVE  \/ \E i \in Ingesters, m \in Messages : Persist(i, m) \/ DeleteMessage(i, m)
         \/ QueueingStep
         \/ \E w \in Workers : WorkerStep(w)
         \/ \E j \in JobIds : TimePasses(j)
BY DEF Next, QueueingStep, WorkerStep, Answer, Enqueuers

LEMMA ShapeStep ==
  ASSUME ShapeInv, [Next]_vars
  PROVE  ShapeInv'
<1>1. CASE UNCHANGED vars
  BY <1>1 DEF vars, ShapeInv, ContextTypeOK, RowsDiffer, LoadedIsHeld, QueueTypeOK, InTable,
              Stored, Held
<1>2. ASSUME NEW j \in JobIds, TimePasses(j) PROVE ShapeInv'
  <2>1. QueueTypeOK' /\ SameJobs /\ UNCHANGED held
    BY <1>2, LeaseStep DEF TimePasses, ShapeInv, ContextTypeOK
  <2>2. UNCHANGED <<chunkVars, ingest, backfill, todo, loaded>>
    BY <1>2 DEF TimePasses, ingestVars
  <2>3. LoadedIsHeld'
    BY <2>1, <2>2 DEF ShapeInv, LoadedIsHeld
  <2> QED  BY <2>1, <2>2, <2>3, ShapeKept DEF ShapeInv, ContextTypeOK, Enqueuers
<1> QED  BY <1>1, <1>2, NextSplits, PersistShape, DeleteShape, QueueingShape, WorkerShape

LEMMA InitShape ==
  ASSUME Init
  PROVE  ShapeInv
<1>1. QueueTypeOK /\ \A j \in JobIds : ~InTable(j)
  BY ContextAssumption DEF Init, QueueInit, QueueTypeOK, InTable, Unused
<1>2. /\ chunks \in [Chunks -> ChunkRow \cup {NoChunk}]
      /\ lastRow \in 0 .. MaxRow
      /\ ingest \in [Ingesters -> [msg : Messages \cup {NoMessage},
                                   step : {"idle", "persisted", "queueing", "retry"}]]
      /\ todo \in [Enqueuers -> SUBSET State]
  BY ContextAssumption DEF Init, IdleIngest, Enqueuers
<1>3. backfill \in [on : BOOLEAN, after : 0 .. MaxRow]
  <2>1. 0 \in 0 .. MaxRow /\ backfill = [on |-> FALSE, after |-> 0]
    BY ContextAssumption DEF Init, IdleBackfill
  <2> QED  BY <2>1
<1>4. loaded \in [Workers -> Prefixes] /\ LoadedIsHeld
  BY DEF Init, Prefixes, LoadedIsHeld
<1>5. ContextTypeOK
  BY <1>1, <1>2, <1>3, <1>4 DEF ContextTypeOK, Enqueuers
<1>6. RowsDiffer
  BY DEF Init, RowsDiffer, Stored, NoChunk
<1> QED  BY <1>4, <1>5, <1>6 DEF ShapeInv

(* Rows, jobs, ingesters, backfill and workers stay well formed, and a job  *)
(* in the table always names a row that is still there.                     *)
THEOREM ContextTypeCorrect == Spec => []ContextTypeOK
<1>1. Spec => []ShapeInv
  BY InitShape, ShapeStep, PTL DEF Spec
<1>2. ShapeInv => ContextTypeOK
  BY DEF ShapeInv
<1> QED  BY <1>1, <1>2, PTL
-----------------------------------------------------------------------------
(* Texts.                                                                  *)

\* What storing or deleting message m does: other messages' chunks and jobs
\* stay, rows that stay keep what was contextualized and only move their text
\* on, and no job or reader changes.
MessageMoves(m) ==
  /\ \A c \in Chunks :
       /\ MessageOf[c] # m => chunks'[c] = chunks[c]
       /\ chunks'[c].row \in {0, chunks[c].row} \/ chunks'[c].row > lastRow
       /\ Stored(c) /\ Stored(c)' =>
            /\ chunks'[c].row = chunks[c].row /\ chunks'[c].hash = chunks[c].hash
            /\ chunks[c].text <= chunks'[c].text
       /\ MessageOf[c] = m /\ Stored(c)' =>
            /\ chunks'[c].embedText = chunks'[c].text
            /\ chunks'[c].embedPrefix.text = 0
  /\ \A j \in JobIds :
       /\ InTable(j)' => InTable(j) /\ jobs'[j] = jobs[j]
       /\ InTable(j) /\ MessageOf[jobs[j].subject] # m => InTable(j)' /\ jobs'[j] = jobs[j]
  /\ UNCHANGED <<todo, loaded, held>>

LEMMA PersistMoves ==
  ASSUME ShapeInv, ~MayRevert, NEW i \in Ingesters, NEW m \in Messages, Persist(i, m)
  PROVE  MessageMoves(m)
<1>0. ContextTypeOK /\ QueueTypeOK /\ RowsDiffer
  BY DEF ShapeInv, ContextTypeOK
<1>1. PICK now \in SUBSET ChunksOf(m) \ {{}} :
        LET new == {c \in now : ~Stored(c)}
            stale == {c \in ChunksOf(m) \ now : Stored(c)}
        IN  /\ lastRow + Cardinality(new) <= MaxRow
            /\ \E t \in [now -> Texts], id \in Numbering(new) :
                 /\ MayRevert \/ \A c \in now \ new : t[c] >= chunks[c].text
                 /\ chunks' = [c \in Chunks |->
                     IF c \in now THEN Upserted(c, t[c], IF c \in new THEN id[c] ELSE 0)
                     ELSE IF c \in stale THEN NoChunk ELSE chunks[c]]
            /\ jobs' = WithoutJobsOf({chunks[c].row : c \in stale})
  BY DEF Persist
<1> DEFINE new == {c \in now : ~Stored(c)}
           stale == {c \in ChunksOf(m) \ now : Stored(c)}
<1>2. PICK t \in [now -> Texts], id \in Numbering(new) :
        /\ \A c \in now \ new : t[c] >= chunks[c].text
        /\ chunks' = [c \in Chunks |->
                     IF c \in now THEN Upserted(c, t[c], IF c \in new THEN id[c] ELSE 0)
                     ELSE IF c \in stale THEN NoChunk ELSE chunks[c]]
  BY <1>1
<1>3. now \subseteq Chunks /\ new \subseteq Chunks /\ stale \subseteq Chunks
      /\ \A c \in now \cup stale : MessageOf[c] = m
  BY DEF ChunksOf
<1>4. \A c \in new : id[c] \in Rows /\ id[c] > lastRow
  <2>1. lastRow + Cardinality(new) <= MaxRow /\ id \in Numbering(new) /\ new \in SUBSET Chunks
    BY <1>1, <1>2, <1>3
  <2> HIDE DEF new
  <2> QED  BY <1>0, <2>1, NumberingRows
<1>5. ASSUME NEW c \in new
      PROVE  /\ chunks'[c].row = id[c] /\ ~Stored(c)
             /\ chunks'[c].embedText = chunks'[c].text /\ chunks'[c].embedPrefix = Nothing
  <2>1. chunks'[c] = [row |-> id[c], text |-> t[c], hash |-> Nothing, prefix |-> Nothing,
                      embedText |-> t[c], embedPrefix |-> Nothing]
    BY <1>2, <1>3 DEF Upserted
  <2> QED  BY <2>1
<1>6. ASSUME NEW c \in now \ new
      PROVE  /\ chunks'[c].row = chunks[c].row /\ chunks'[c].hash = chunks[c].hash
             /\ chunks'[c].text = t[c] /\ t[c] >= chunks[c].text
             /\ chunks'[c].embedText = t[c] /\ chunks'[c].embedPrefix = Nothing
             /\ t[c] \in Texts /\ chunks[c].text \in Texts
  <2>1. /\ chunks'[c] = [chunks[c] EXCEPT !.text = t[c], !.embedText = t[c],
                                          !.embedPrefix = Nothing]
        /\ Stored(c) /\ t[c] >= chunks[c].text
    BY <1>2, <1>3 DEF Upserted
  <2>2. chunks[c] \in ChunkRow /\ t[c] \in Texts
    BY <1>0, <1>2, <1>3, <2>1, InputType
  <2> HIDE DEF new
  <2> QED  BY <2>1, <2>2 DEF ChunkRow
<1>7. ASSUME NEW c \in stale PROVE chunks'[c].row = 0
  BY <1>2, <1>3 DEF NoChunk
<1>8. ASSUME NEW c \in Chunks, c \notin now, c \notin stale
      PROVE  chunks'[c] = chunks[c] /\ (MessageOf[c] = m => ~Stored(c))
  BY <1>2, <1>8 DEF ChunksOf
<1>9. \A c \in Chunks : c \in new \/ c \in now \ new \/ c \in stale \/ (c \notin now /\ c \notin stale)
  OBVIOUS
<1>10. jobs' = WithoutJobsOf({chunks[c].row : c \in stale})
  BY <1>1
<1> HIDE DEF new, stale
<1>11. ASSUME NEW c \in Chunks
       PROVE  /\ MessageOf[c] # m => chunks'[c] = chunks[c]
              /\ chunks'[c].row \in {0, chunks[c].row} \/ chunks'[c].row > lastRow
              /\ Stored(c) /\ Stored(c)' =>
                   /\ chunks'[c].row = chunks[c].row /\ chunks'[c].hash = chunks[c].hash
                   /\ chunks[c].text <= chunks'[c].text
              /\ MessageOf[c] = m /\ Stored(c)' =>
                   /\ chunks'[c].embedText = chunks'[c].text
                   /\ chunks'[c].embedPrefix.text = 0
  <2>1. CASE c \in new
    <3>1. c \in now
      BY <2>1 DEF new
    <3> QED  BY <1>3, <1>4, <1>5, <2>1, <3>1 DEF Nothing
  <2>2. CASE c \in now \ new
    BY <1>3, <1>6, <2>2 DEF Nothing, Texts
  <2>3. CASE c \in stale
    BY <1>3, <1>7, <2>3 DEF Stored
  <2>4. CASE c \notin now /\ c \notin stale
    <3>1. Stored(c) => chunks[c].text \in Texts
      BY <1>0, InputType DEF ChunkRow
    <3>2. chunks'[c] = chunks[c] /\ (MessageOf[c] = m => ~Stored(c))
      BY <1>8, <2>4
    <3> QED  BY <3>1, <3>2 DEF Stored, Texts
  <2> QED  BY <1>9, <2>1, <2>2, <2>3, <2>4
<1>12. ASSUME NEW j \in JobIds
       PROVE  /\ InTable(j)' => InTable(j) /\ jobs'[j] = jobs[j]
              /\ InTable(j) /\ MessageOf[jobs[j].subject] # m => InTable(j)' /\ jobs'[j] = jobs[j]
  <2>1. /\ InTable(j)' <=> InTable(j) /\ jobs[j].row \notin {chunks[c].row : c \in stale}
        /\ InTable(j)' => jobs'[j] = jobs[j]
    BY <1>0, <1>10, CascadeStep
  <2>2. ASSUME InTable(j), MessageOf[jobs[j].subject] # m
        PROVE  jobs[j].row \notin {chunks[c].row : c \in stale}
    <3>1. /\ jobs[j].subject \in Chunks /\ chunks[jobs[j].subject].row = jobs[j].row
          /\ jobs[j].row \in Rows
      BY <1>0, <2>2, JobInTable DEF ContextTypeOK, Job
    <3>2. Stored(jobs[j].subject) /\ jobs[j].subject \notin stale
      BY <1>3, <2>2, <3>1 DEF Stored, Rows
    <3>3. \A c \in stale : chunks[c].row # jobs[j].row
      BY <1>0, <1>3, <3>1, <3>2 DEF RowsDiffer
    <3> QED  BY <3>3
  <2> QED  BY <2>1, <2>2
<1>13. UNCHANGED <<todo, loaded, held>>
  BY DEF Persist
<1> QED  BY <1>11, <1>12, <1>13 DEF MessageMoves

LEMMA DeleteMoves ==
  ASSUME ShapeInv, NEW i \in Ingesters, NEW m \in Messages, DeleteMessage(i, m)
  PROVE  MessageMoves(m) /\ \A c \in ChunksOf(m) : ~Stored(c)'
<1>0. ContextTypeOK /\ QueueTypeOK /\ RowsDiffer
  BY DEF ShapeInv, ContextTypeOK
<1>1. /\ \A c \in Chunks : chunks'[c] = IF MessageOf[c] = m THEN NoChunk ELSE chunks[c]
      /\ jobs' = WithoutJobsOf({chunks[c].row : c \in ChunksOf(m)})
  BY DEF DeleteMessage
<1>2. ASSUME NEW c \in Chunks, Stored(c) PROVE chunks[c].text \in Nat
  BY <1>0, <1>2, InputType DEF ChunkRow, Texts
<1>3. ASSUME NEW j \in JobIds
      PROVE  /\ InTable(j)' => InTable(j) /\ jobs'[j] = jobs[j]
             /\ InTable(j) /\ MessageOf[jobs[j].subject] # m => InTable(j)' /\ jobs'[j] = jobs[j]
  <2>1. /\ InTable(j)' <=> InTable(j) /\ jobs[j].row \notin {chunks[c].row : c \in ChunksOf(m)}
        /\ InTable(j)' => jobs'[j] = jobs[j]
    BY <1>0, <1>1, CascadeStep
  <2>2. ASSUME InTable(j), MessageOf[jobs[j].subject] # m
        PROVE  jobs[j].row \notin {chunks[c].row : c \in ChunksOf(m)}
    <3>1. /\ jobs[j].subject \in Chunks /\ chunks[jobs[j].subject].row = jobs[j].row
          /\ jobs[j].row \in Rows
      BY <1>0, <2>2, JobInTable DEF ContextTypeOK, Job
    <3>2. Stored(jobs[j].subject) /\ jobs[j].subject \notin ChunksOf(m)
      BY <2>2, <3>1 DEF Stored, Rows, ChunksOf
    <3>3. \A c \in ChunksOf(m) : chunks[c].row # jobs[j].row
      BY <1>0, <3>1, <3>2 DEF RowsDiffer, ChunksOf
    <3> QED  BY <3>3
  <2> QED  BY <2>1, <2>2
<1>4. UNCHANGED <<todo, loaded, held>>
  BY DEF DeleteMessage
<1> QED  BY <1>1, <1>2, <1>3, <1>4 DEF MessageMoves, Stored, NoChunk, ChunksOf

LEMMA JobFacts ==
  ASSUME ContextTypeOK, NEW j \in JobIds, InTable(j)
  PROVE  /\ jobs[j].subject \in Chunks /\ Stored(jobs[j].subject)
         /\ chunks[jobs[j].subject].row = jobs[j].row /\ jobs[j].row \in Rows
         /\ jobs[j].digest \in Inputs /\ jobs[j].digest.text \in Nat
         /\ chunks[jobs[j].subject].text \in Nat
<1>1. /\ jobs[j].subject \in Chunks /\ chunks[jobs[j].subject].row = jobs[j].row
      /\ jobs[j].row \in Rows /\ jobs[j].digest \in Inputs
  BY JobInTable DEF ContextTypeOK, Job
<1>2. Stored(jobs[j].subject)
  BY <1>1 DEF Stored, Rows
<1>3. chunks[jobs[j].subject] \in ChunkRow
  BY <1>1, <1>2, InputType
<1> QED  BY <1>1, <1>2, <1>3 DEF ChunkRow, Inputs, Texts

\* A worker's job is about the chunk its row is found under.
LEMMA TargetIsSubject ==
  ASSUME ShapeInv, NEW w \in Workers, held[w] # NoJob, NEW c \in Chunks
  PROVE  c \in Target(w) <=> InTable(held[w]) /\ c = jobs[held[w]].subject
<1>1. held[w] \in JobIds
  BY DEF ShapeInv, ContextTypeOK, QueueTypeOK
<1>2. CASE InTable(held[w])
  <2>1. LET d == jobs[held[w]].subject
        IN  d \in Chunks /\ Stored(d) /\ chunks[d].row = jobs[held[w]].row
    BY <1>1, <1>2, JobFacts DEF ShapeInv
  <2> QED  BY <1>2, <2>1 DEF Target, ShapeInv, RowsDiffer
<1>3. CASE ~InTable(held[w])
  BY <1>3 DEF Target
<1> QED  BY <1>2, <1>3

LEMMA MessageText ==
  ASSUME ShapeInv, ShapeInv', TextInv, NEW m \in Messages, MessageMoves(m)
  PROVE  EmbedDescribesText' /\ ReadsBehind'
<1>0. ContextTypeOK /\ ContextTypeOK' /\ RowsDiffer
  BY DEF ShapeInv
<1>1. EmbedDescribesText'
  BY DEF TextInv, EmbedDescribesText, MessageMoves, Stored
<1>2. ASSUME NEW c \in Chunks, Stored(c), Stored(c)'
      PROVE  chunks[c].text \in Nat /\ chunks'[c].text \in Nat /\ chunks[c].text <= chunks'[c].text
  <2>1. chunks[c] \in ChunkRow /\ chunks'[c] \in ChunkRow
    BY <1>0, <1>2 DEF ContextTypeOK, Stored, NoChunk
  <2>2. chunks[c].text <= chunks'[c].text
    BY <1>2 DEF MessageMoves
  <2> QED  BY <2>1, <2>2 DEF ChunkRow, Texts
<1>3. ASSUME NEW j \in JobIds, InTable(j)'
      PROVE  /\ InTable(j) /\ jobs'[j] = jobs[j]
             /\ chunks[jobs[j].subject].text \in Nat /\ chunks'[jobs[j].subject].text \in Nat
             /\ chunks[jobs[j].subject].text <= chunks'[jobs[j].subject].text
             /\ jobs[j].digest.text \in Nat
  <2>1. InTable(j) /\ jobs'[j] = jobs[j]
    BY <1>3 DEF MessageMoves
  <2>2. /\ jobs[j].subject \in Chunks /\ Stored(jobs[j].subject) /\ jobs[j].row \in Rows
        /\ jobs[j].digest.text \in Nat
    BY <1>0, <2>1, JobFacts
  <2>3. Stored(jobs[j].subject)'
    BY <1>0, <1>3, <2>1, <2>2 DEF ContextTypeOK, Stored, Rows
  <2> QED  BY <1>2, <2>1, <2>2, <2>3
<1>4. JobsBehind'
  BY <1>3 DEF TextInv, ReadsBehind, JobsBehind
<1>5. StatesBehind'
  <2>1. SUFFICES ASSUME NEW e \in Enqueuers, NEW s \in todo[e], RowExists(s)'
                 PROVE  s.digest.text <= chunks'[s.chunk].text
    BY DEF StatesBehind, MessageMoves, Enqueuers
  <2>2. s \in State /\ s.row <= lastRow
    BY <1>0 DEF ContextTypeOK, RowsDiffer, Enqueuers
  <2>3. s.chunk \in Chunks /\ s.row \in Rows /\ s.digest.text \in Nat
    BY <2>2 DEF State, Inputs, Texts
  <2>4. chunks'[s.chunk].row = s.row /\ lastRow \in Nat
    BY <1>0, <2>1 DEF RowExists, ContextTypeOK
  <2>5. chunks'[s.chunk].row \in {0, chunks[s.chunk].row} \/ chunks'[s.chunk].row > lastRow
    BY <2>3 DEF MessageMoves
  <2>6. chunks[s.chunk].row = s.row /\ s.row # 0
    BY <2>2, <2>3, <2>4, <2>5 DEF Rows
  <2>7. Stored(s.chunk) /\ Stored(s.chunk)'
    BY <2>4, <2>6 DEF Stored
  <2>8. s.digest.text <= chunks[s.chunk].text
    BY <2>6 DEF TextInv, ReadsBehind, StatesBehind, RowExists, Enqueuers
  <2> QED  BY <1>2, <2>3, <2>7, <2>8
<1>6. LoadsBehind'
  <2>1. SUFFICES ASSUME NEW w \in Workers, loaded[w] # Nothing, InTable(held[w])'
                 PROVE  /\ jobs'[held[w]].digest.text <= loaded[w].text
                        /\ loaded[w].text <= chunks'[jobs'[held[w]].subject].text
    BY DEF LoadsBehind, MessageMoves, InTable
  <2>2. held[w] \in JobIds /\ loaded[w].text \in Nat
    BY <1>0, <2>1 DEF ShapeInv, LoadedIsHeld, ContextTypeOK, QueueTypeOK, Prefixes, Inputs, Texts
  <2>3. /\ InTable(held[w]) /\ jobs'[held[w]] = jobs[held[w]]
        /\ chunks[jobs[held[w]].subject].text \in Nat
        /\ chunks'[jobs[held[w]].subject].text \in Nat
        /\ chunks[jobs[held[w]].subject].text <= chunks'[jobs[held[w]].subject].text
    <3>1. InTable(held[w])'
      BY <2>1
    <3> QED  BY <1>3, <2>2, <3>1 DEF MessageMoves
  <2>4. /\ jobs[held[w]].digest.text <= loaded[w].text
        /\ loaded[w].text <= chunks[jobs[held[w]].subject].text
    BY <2>1, <2>3 DEF TextInv, ReadsBehind, LoadsBehind
  <2> QED  BY <2>2, <2>3, <2>4
<1> QED  BY <1>1, <1>4, <1>5, <1>6 DEF ReadsBehind

\* What a worker's step writes: nothing, or the answer to its job, computed
\* from the very text the chunk has.
Wrote(w, c) ==
  /\ loaded[w] # Nothing /\ RetireJob(w)
  /\ InTable(held[w]) /\ c = jobs[held[w]].subject /\ Stored(c)
  /\ InputOf(c) = jobs[held[w]].digest
  /\ chunks'[c].row = chunks[c].row /\ chunks'[c].text = chunks[c].text
  /\ chunks'[c].hash = InputOf(c)
  /\ chunks'[c].embedText = loaded[w].text
  /\ chunks'[c].embedPrefix \in {loaded[w], Nothing}

LEMMA WorkerWrites ==
  ASSUME ShapeInv, NEW w \in Workers, WorkerStep(w), NEW c \in Chunks
  PROVE  chunks'[c] = chunks[c] \/ Wrote(w, c)
<1>1. CASE chunks' = chunks
  BY <1>1
<1>2. ASSUME NEW p \in {loaded[w], Nothing}, Commit(w, p)
      PROVE  chunks'[c] = chunks[c] \/ Wrote(w, c)
  <2>1. PICK d \in Target(w) :
          /\ Fresh(w, d)
          /\ chunks' = [chunks EXCEPT ![d] =
               [@ EXCEPT !.hash = jobs[held[w]].digest, !.prefix = p,
                         !.embedText = loaded[w].text, !.embedPrefix = p]]
    BY <1>2 DEF Commit
  <2>2. d \in Chunks /\ Stored(d) /\ loaded[w] # Nothing /\ RetireJob(w) /\ held[w] # NoJob
    BY <1>2 DEF Target, Commit, RetireJob
  <2>3. InTable(held[w]) /\ d = jobs[held[w]].subject
    BY <2>1, <2>2, TargetIsSubject
  <2>4. chunks[d] \in ChunkRow /\ chunks \in [Chunks -> ChunkRow \cup {NoChunk}]
    BY <2>2, InputType DEF ShapeInv, ContextTypeOK
  <2> DEFINE new == [chunks[d] EXCEPT !.hash = jobs[held[w]].digest, !.prefix = p,
                                      !.embedText = loaded[w].text, !.embedPrefix = p]
  <2>5. /\ new.row = chunks[d].row /\ new.text = chunks[d].text
        /\ new.hash = jobs[held[w]].digest
        /\ new.embedText = loaded[w].text /\ new.embedPrefix = p
    BY <2>4 DEF ChunkRow
  <2>6. chunks' = [chunks EXCEPT ![d] = new]
    BY <2>1
  <2> HIDE DEF new
  <2>7. chunks'[d] = new /\ (c # d => chunks'[c] = chunks[c])
    BY <2>2, <2>4, <2>6
  <2> QED  BY <2>1, <2>2, <2>3, <2>5, <2>7 DEF Wrote, Fresh
<1> QED  BY <1>1, <1>2 DEF WorkerStep, Claim, Load, LoadFails, ProviderFails, DropResult,
                          WorkerDies, chunkVars

LEMMA WorkerText ==
  ASSUME ShapeInv, TextInv, NEW w \in Workers, WorkerStep(w)
  PROVE  EmbedDescribesText' /\ ReadsBehind'
<1>0. ContextTypeOK /\ RowsDiffer /\ LoadedIsHeld /\ QueueTypeOK
  BY DEF ShapeInv, ContextTypeOK
<1>1. /\ SameJobs /\ todo' = todo
      /\ \A v \in Workers : v # w => held'[v] = held[v] /\ loaded'[v] = loaded[v]
  BY <1>0, WorkerQueue DEF ingestVars
<1>2. \A c \in Chunks : chunks'[c].row = chunks[c].row /\ chunks'[c].text = chunks[c].text
  BY WorkerWrites DEF Wrote
<1>3. ASSUME NEW c \in Chunks, Wrote(w, c)
      PROVE  loaded[w].text = chunks[c].text
  <2>1. held[w] \in JobIds /\ loaded[w] \in Inputs
    BY <1>0, <1>3 DEF Wrote, LoadedIsHeld, ContextTypeOK, QueueTypeOK, Prefixes
  <2>2. jobs[held[w]].digest.text <= loaded[w].text /\ loaded[w].text <= chunks[c].text
    BY <1>3 DEF Wrote, TextInv, ReadsBehind, LoadsBehind
  <2>3. jobs[held[w]].digest.text = chunks[c].text /\ chunks[c].text \in Nat
    BY <1>0, <1>3, <2>1, JobFacts DEF Wrote, InputOf
  <2> QED  BY <2>1, <2>2, <2>3 DEF Inputs, Texts
<1>4. EmbedDescribesText'
  <2>1. SUFFICES ASSUME NEW c \in Chunks, Stored(c)'
                 PROVE  /\ chunks'[c].embedText = chunks'[c].text
                        /\ chunks'[c].embedPrefix.text \in {0, chunks'[c].text}
    BY DEF EmbedDescribesText
  <2>2. CASE chunks'[c] = chunks[c]
    BY <2>1, <2>2 DEF TextInv, EmbedDescribesText, Stored
  <2>3. CASE Wrote(w, c)
    BY <1>3, <2>3 DEF Wrote, Nothing
  <2> QED  BY <2>2, <2>3, WorkerWrites
<1>5. JobsBehind'
  <2>1. SUFFICES ASSUME NEW j \in JobIds, InTable(j)'
                 PROVE  jobs'[j].digest.text <= chunks'[jobs'[j].subject].text
    BY DEF JobsBehind
  <2>2. InTable(j) /\ jobs'[j].subject = jobs[j].subject /\ jobs'[j].digest = jobs[j].digest
    BY <1>1, <2>1 DEF SameJobs
  <2>3. jobs[j].subject \in Chunks
    BY <1>0, <2>2, JobFacts
  <2> QED  BY <1>2, <2>2, <2>3 DEF TextInv, ReadsBehind, JobsBehind
<1>6. StatesBehind'
  <2>1. SUFFICES ASSUME NEW e \in Enqueuers, NEW s \in todo[e], RowExists(s)'
                 PROVE  s.digest.text <= chunks'[s.chunk].text
    BY <1>1 DEF StatesBehind, Enqueuers
  <2>2. s.chunk \in Chunks
    BY <1>0 DEF ContextTypeOK, State, Enqueuers
  <2>3. RowExists(s)
    BY <1>2, <2>1, <2>2 DEF RowExists
  <2> QED  BY <1>2, <2>2, <2>3 DEF TextInv, ReadsBehind, StatesBehind, Enqueuers
<1>7. LoadsBehind'
  <2>1. ASSUME NEW v \in Workers, loaded'[v] = loaded[v], held'[v] = held[v],
               loaded[v] # Nothing, InTable(held[v])'
        PROVE  /\ jobs'[held[v]].digest.text <= loaded[v].text
               /\ loaded[v].text <= chunks'[jobs'[held[v]].subject].text
    <3>1. held[v] \in JobIds
      BY <1>0, <2>1 DEF LoadedIsHeld, QueueTypeOK
    <3>2. /\ InTable(held[v])
          /\ jobs'[held[v]].subject = jobs[held[v]].subject
          /\ jobs'[held[v]].digest = jobs[held[v]].digest
      BY <1>1, <2>1, <3>1 DEF SameJobs, InTable
    <3>3. jobs[held[v]].subject \in Chunks
      BY <1>0, <3>1, <3>2, JobFacts
    <3> QED  BY <1>2, <2>1, <3>2, <3>3 DEF TextInv, ReadsBehind, LoadsBehind
  <2>2. CASE Load(w)
    <3>1. PICK c \in Target(w) : loaded' = [loaded EXCEPT ![w] = InputOf(c)]
      BY <2>2 DEF Load
    <3>2. c \in Chunks /\ held[w] \in JobIds /\ held' = held /\ jobs' = jobs /\ chunks' = chunks
      BY <1>0, <2>2 DEF Load, Target, QueueTypeOK, chunkVars
    <3>3. InTable(held[w]) /\ c = jobs[held[w]].subject
      BY <2>2, <3>1, <3>2, TargetIsSubject DEF Load
    <3>4. loaded'[w].text = chunks[c].text /\ chunks[c].text \in Nat
      BY <1>0, <3>1, <3>2, <3>3, JobFacts DEF InputOf, ContextTypeOK
    <3>5. jobs[held[w]].digest.text <= chunks[c].text
      BY <3>2, <3>3 DEF TextInv, ReadsBehind, JobsBehind
    <3>6. /\ jobs'[held'[w]].digest.text <= loaded'[w].text
          /\ loaded'[w].text <= chunks'[jobs'[held'[w]].subject].text
      BY <3>2, <3>3, <3>4, <3>5
    <3> QED  BY <1>1, <2>1, <3>2, <3>6 DEF LoadsBehind, InTable
  <2>3. CASE loaded'[w] = Nothing
    BY <1>1, <2>1, <2>3 DEF LoadsBehind, InTable
  <2>4. Load(w) \/ loaded'[w] = Nothing
    <3>1. CASE Claim(w)
      BY <1>0, <3>1 DEF Claim, ClaimJob, LoadedIsHeld
    <3>2. CASE LoadFails(w)
      BY <3>2 DEF LoadFails
    <3>3. CASE Forget(w)
      BY <1>0, <3>3 DEF Forget, ContextTypeOK
    <3> QED  BY <3>1, <3>2, <3>3 DEF WorkerStep, ProviderFails, DropResult, Commit, WorkerDies
  <2> QED  BY <2>2, <2>3, <2>4
<1> QED  BY <1>4, <1>5, <1>6, <1>7 DEF ReadsBehind

\* What is read of a chunk is its present text.
LEMMA StatesRead ==
  ASSUME ContextTypeOK, NEW cs \in SUBSET Chunks, NEW s \in StatesToQueue(cs)
  PROVE  s.chunk \in cs /\ Stored(s.chunk) /\ s = StateOf(s.chunk)
         /\ s.digest.text = chunks[s.chunk].text /\ chunks[s.chunk].text \in Nat
<1>1. PICK c \in cs : Stored(c) /\ s = StateOf(c)
  BY DEF StatesToQueue, StateOf
<1>2. s.chunk = c /\ s.digest = InputOf(c)
  BY <1>1 DEF StateOf
<1>3. chunks[c] \in ChunkRow
  BY <1>1, InputType
<1> QED  BY <1>1, <1>2, <1>3 DEF InputOf, ChunkRow, Texts

\* What a queueing step does to the lists of states: one loses a state, is
\* emptied, or is read anew.
QueueingLists ==
  \/ UNCHANGED todo
  \/ \E e \in Enqueuers :
       \/ todo' = [todo EXCEPT ![e] = {}]
       \/ \E cs \in SUBSET Chunks : todo' = [todo EXCEPT ![e] = StatesToQueue(cs)]

LEMMA QueueingQuiet ==
  ASSUME QueueingStep, ~ \E e \in Enqueuers : Enqueue(e)
  PROVE  UNCHANGED <<chunks, loaded, jobs, held>> /\ QueueingLists
<1>1. UNCHANGED <<chunks, loaded, jobs, held>>
  BY DEF QueueingStep, ReadStates, EnqueueRaises, IngestDone, IngestDies, StartBackfill,
         ReadPage, BackfillEnds, chunkVars
<1>2. ASSUME NEW i \in Ingesters, ReadStates(i) PROVE QueueingLists
  <2>1. ChunksOf(ingest[i].msg) \in SUBSET Chunks
    BY DEF ChunksOf
  <2> QED  BY <1>2, <2>1 DEF ReadStates, QueueingLists, Enqueuers
<1>3. ASSUME ReadPage PROVE QueueingLists
  <2>1. \A page \in SUBSET NeedContext : page \in SUBSET Chunks
    BY DEF NeedContext
  <2> QED  BY <1>3, <2>1 DEF ReadPage, QueueingLists, Enqueuers
<1>4. ASSUME NEW i \in Ingesters, EnqueueRaises(i) \/ IngestDone(i) \/ IngestDies(i)
      PROVE  QueueingLists
  BY <1>4 DEF EnqueueRaises, IngestDone, IngestDies, QueueingLists, Enqueuers
<1>5. ASSUME StartBackfill \/ BackfillEnds PROVE QueueingLists
  BY <1>5 DEF StartBackfill, BackfillEnds, QueueingLists, Enqueuers
<1> QED  BY <1>1, <1>2, <1>3, <1>4, <1>5 DEF QueueingStep

LEMMA QueueingText ==
  ASSUME ShapeInv, TextInv, QueueingStep
  PROVE  EmbedDescribesText' /\ ReadsBehind'
<1>0. ContextTypeOK /\ QueueTypeOK /\ LoadedIsHeld
  BY DEF ShapeInv, ContextTypeOK
<1>1. ASSUME NEW e \in Enqueuers, Enqueue(e)
      PROVE  EmbedDescribesText' /\ ReadsBehind'
  <2>1. PICK s \in todo[e] :
          /\ RowExists(s) \/ QueuedFor(s.chunk, s.digest) # {}
          /\ Insert(s.chunk, s.row, s.digest)
          /\ todo' = [todo EXCEPT ![e] = @ \ {s}]
    BY <1>1 DEF Enqueue
  <2>2. s \in State
    BY <1>0 DEF ContextTypeOK, Enqueuers
  <2>3. s.chunk \in Chunks /\ s.row \in Rows /\ s.digest \in Inputs
    BY <2>2 DEF State
  <2>4. chunks' = chunks /\ loaded' = loaded /\ held' = held
    BY <1>1 DEF Enqueue, chunkVars
  <2>5. \A x \in Enqueuers : todo'[x] \subseteq todo[x]
    BY <1>0, <2>1 DEF ContextTypeOK, Enqueuers
  <2>6. EmbedDescribesText'
    BY <2>4 DEF TextInv, EmbedDescribesText, Stored
  <2>7. StatesBehind'
    BY <2>4, <2>5 DEF TextInv, ReadsBehind, StatesBehind, RowExists, Enqueuers
  <2>8. CASE UNCHANGED jobs
    BY <2>4, <2>6, <2>7, <2>8 DEF TextInv, ReadsBehind, JobsBehind, LoadsBehind, InTable
  <2>9. CASE ~ UNCHANGED jobs
    <3>1. PICK j \in JobIds :
            /\ jobs[j].status = "absent"
            /\ jobs'[j].subject = s.chunk /\ jobs'[j].digest = s.digest
            /\ QueuedFor(s.chunk, s.digest) = {}
            /\ \A i \in JobIds : i # j => jobs'[i] = jobs[i]
      BY <1>0, <2>1, <2>3, <2>9, InsertStep
    <3>2. s.digest.text <= chunks[s.chunk].text
      BY <2>1, <3>1 DEF TextInv, ReadsBehind, StatesBehind, Enqueuers
    <3>3. JobsBehind'
      BY <2>4, <3>1, <3>2 DEF TextInv, ReadsBehind, JobsBehind, InTable
    <3>4. \A w \in Workers : loaded[w] # Nothing => jobs'[held[w]] = jobs[held[w]]
      BY <1>0, <3>1 DEF LoadedIsHeld, TextInv, HeldIsUsed, QueueTypeOK
    <3>5. LoadsBehind'
      BY <2>4, <3>4 DEF TextInv, ReadsBehind, LoadsBehind, InTable
    <3> QED  BY <2>6, <2>7, <3>3, <3>5 DEF ReadsBehind
  <2> QED  BY <2>8, <2>9
<1>2. CASE ~ \E e \in Enqueuers : Enqueue(e)
  <2>1. UNCHANGED <<chunks, loaded, jobs, held>> /\ QueueingLists
    BY <1>2, QueueingQuiet
  <2>2. EmbedDescribesText' /\ JobsBehind' /\ LoadsBehind'
    BY <2>1 DEF TextInv, EmbedDescribesText, ReadsBehind, JobsBehind, LoadsBehind, Stored, InTable
  <2>3. StatesBehind'
    <3>1. SUFFICES ASSUME NEW e \in Enqueuers, NEW s \in todo'[e], s \notin todo[e]
                   PROVE  s.digest.text <= chunks[s.chunk].text
      BY <2>1 DEF TextInv, ReadsBehind, StatesBehind, RowExists, Enqueuers
    <3>2. PICK cs \in SUBSET Chunks : s \in StatesToQueue(cs)
      BY <1>0, <2>1, <3>1 DEF QueueingLists, ContextTypeOK, Enqueuers
    <3> QED  BY <1>0, <3>2, StatesRead
  <2> QED  BY <2>2, <2>3 DEF ReadsBehind
<1> QED  BY <1>1, <1>2

\* No id in use is freed, and a worker takes none that is not in use.
LEMMA UsedStep ==
  ASSUME ShapeInv, HeldIsUsed, [Next]_vars
  PROVE  HeldIsUsed'
<1>0. ContextTypeOK /\ QueueTypeOK
  BY DEF ShapeInv, ContextTypeOK
<1>1. ASSUME \A j \in JobIds : jobs[j].status # "absent" => jobs'[j].status # "absent",
             UNCHANGED held
      PROVE  HeldIsUsed'
  BY <1>0, <1>1 DEF HeldIsUsed, QueueTypeOK
<1>2. CASE UNCHANGED vars
  BY <1>2 DEF vars, HeldIsUsed
<1>3. ASSUME NEW i \in Ingesters, NEW m \in Messages, Persist(i, m) \/ DeleteMessage(i, m)
      PROVE  HeldIsUsed'
  <2>1. PICK gone : jobs' = WithoutJobsOf(gone)
    BY <1>3 DEF Persist, DeleteMessage
  <2>2. \A j \in JobIds : jobs'[j] \in {jobs[j], Gone}
    BY <2>1 DEF WithoutJobsOf
  <2>3. UNCHANGED held
    BY <1>3 DEF Persist, DeleteMessage
  <2> QED  BY <1>1, <2>2, <2>3 DEF Gone
<1>4. CASE QueueingStep
  <2>1. ASSUME NEW e \in Enqueuers, Enqueue(e) PROVE HeldIsUsed'
    <3>1. PICK s \in State : Insert(s.chunk, s.row, s.digest)
      BY <1>0, <2>1 DEF Enqueue, ContextTypeOK, Enqueuers
    <3>2. s.chunk \in Chunks /\ s.row \in Rows /\ s.digest \in Inputs
      BY DEF State
    <3>3. \A j \in JobIds : jobs[j].status # "absent" => jobs'[j] = jobs[j]
      BY <1>0, <3>1, <3>2, InsertStep
    <3>4. UNCHANGED held
      BY <2>1 DEF Enqueue
    <3> QED  BY <1>1, <3>3, <3>4
  <2>2. CASE ~ \E e \in Enqueuers : Enqueue(e)
    BY <1>4, <2>2, QueueingQuiet DEF HeldIsUsed
  <2> QED  BY <2>1, <2>2
<1>5. ASSUME SameJobs PROVE \A j \in JobIds : jobs[j].status # "absent" => jobs'[j].status # "absent"
  BY <1>5 DEF SameJobs, InTable
<1>6. ASSUME NEW w \in Workers, WorkerStep(w) PROVE HeldIsUsed'
  <2>1. /\ SameJobs
        /\ \A v \in Workers : v # w => held'[v] = held[v]
    BY <1>0, <1>6, WorkerQueue
  <2>2. CASE Load(w)
    BY <1>1, <1>5, <2>1, <2>2 DEF Load
  <2>3. CASE Claim(w)
    <3>1. PICK j \in JobIds : Claimable(j) /\ held' = [held EXCEPT ![w] = j]
      BY <2>3 DEF Claim, ClaimJob
    <3>2. held'[w] = j /\ jobs[j].status # "absent"
      BY <1>0, <3>1 DEF QueueTypeOK, Claimable, InTable
    <3> QED  BY <1>0, <1>5, <2>1, <3>1, <3>2 DEF HeldIsUsed, QueueTypeOK
  <2>4. CASE LetGo(w)
    <3>1. held'[w] = NoJob
      BY <1>0, <2>4 DEF LetGo, QueueTypeOK
    <3> QED  BY <1>0, <1>5, <2>1, <3>1 DEF HeldIsUsed, QueueTypeOK
  <2> QED  BY <1>6, <2>2, <2>3, <2>4
           DEF WorkerStep, LoadFails, ProviderFails, DropResult, Commit, WorkerDies,
               FailJob, RetireJob, Crash
<1>7. ASSUME NEW j \in JobIds, TimePasses(j) PROVE HeldIsUsed'
  BY <1>0, <1>1, <1>5, <1>7, LeaseStep DEF TimePasses
<1> QED  BY <1>2, <1>3, <1>4, <1>6, <1>7, NextSplits

LEMMA TextStep ==
  ASSUME ShapeInv, TextInv, ~MayRevert, [Next]_vars
  PROVE  TextInv'
<1>0. ContextTypeOK /\ QueueTypeOK /\ LoadedIsHeld
  BY DEF ShapeInv, ContextTypeOK
<1>1. HeldIsUsed' /\ ShapeInv'
  BY UsedStep, ShapeStep DEF TextInv
<1>2. CASE UNCHANGED vars
  BY <1>2 DEF vars, TextInv, EmbedDescribesText, ReadsBehind, JobsBehind, StatesBehind,
              LoadsBehind, HeldIsUsed, Stored, InTable, RowExists
<1>3. ASSUME NEW i \in Ingesters, NEW m \in Messages, Persist(i, m) \/ DeleteMessage(i, m)
      PROVE  TextInv'
  <2>1. MessageMoves(m)
    BY <1>3, PersistMoves, DeleteMoves
  <2> QED  BY <1>1, <2>1, MessageText DEF TextInv
<1>4. CASE QueueingStep
  BY <1>1, <1>4, QueueingText DEF TextInv
<1>5. ASSUME NEW w \in Workers, WorkerStep(w) PROVE TextInv'
  BY <1>1, <1>5, WorkerText DEF TextInv
<1>6. ASSUME NEW j \in JobIds, TimePasses(j) PROVE TextInv'
  <2>1. SameJobs /\ UNCHANGED held
    BY <1>0, <1>6, LeaseStep DEF TimePasses
  <2>2. UNCHANGED <<chunks, todo, loaded>>
    BY <1>6 DEF TimePasses, chunkVars, ingestVars
  <2>3. EmbedDescribesText' /\ StatesBehind'
    BY <2>2 DEF TextInv, EmbedDescribesText, ReadsBehind, StatesBehind, Stored, RowExists
  <2>4. JobsBehind'
    BY <2>1, <2>2 DEF TextInv, ReadsBehind, JobsBehind, SameJobs
  <2>5. LoadsBehind'
    <3>1. SUFFICES ASSUME NEW w \in Workers, loaded[w] # Nothing, InTable(held[w])'
                   PROVE  /\ jobs'[held[w]].digest.text <= loaded[w].text
                          /\ loaded[w].text <= chunks[jobs'[held[w]].subject].text
      BY <2>1, <2>2 DEF LoadsBehind, InTable
    <3>2. held[w] \in JobIds
      BY <1>0, <3>1 DEF LoadedIsHeld, QueueTypeOK
    <3>3. /\ InTable(held[w]) /\ jobs'[held[w]].subject = jobs[held[w]].subject
          /\ jobs'[held[w]].digest = jobs[held[w]].digest
      BY <2>1, <3>1, <3>2 DEF SameJobs, InTable
    <3> QED  BY <3>1, <3>3 DEF TextInv, ReadsBehind, LoadsBehind
  <2> QED  BY <1>1, <2>3, <2>4, <2>5 DEF TextInv, ReadsBehind
<1> QED  BY <1>2, <1>3, <1>4, <1>5, <1>6, NextSplits

LEMMA InitText ==
  ASSUME Init
  PROVE  TextInv
<1>1. \A j \in JobIds : ~InTable(j)
  BY DEF Init, QueueInit, InTable, Unused
<1>2. \A w \in Workers : held[w] = NoJob /\ loaded[w] = Nothing
  BY DEF Init, QueueInit
<1>3. \A c \in Chunks : ~Stored(c)
  BY DEF Init, Stored, NoChunk
<1>4. \A e \in Enqueuers : todo[e] = {}
  BY DEF Init, Enqueuers
<1> QED  BY <1>1, <1>2, <1>3, <1>4
         DEF TextInv, EmbedDescribesText, ReadsBehind, JobsBehind, StatesBehind, LoadsBehind,
             HeldIsUsed, Enqueuers

(* While texts only move on, embed_text and the prefix in front of it are   *)
(* always about the chunk's present text, however many workers answer late  *)
(* or twice.                                                                *)
THEOREM EmbedDescribesTextCorrect ==
  ASSUME ~MayRevert
  PROVE  Spec => []EmbedDescribesText
<1> DEFINE Inv == ShapeInv /\ TextInv
<1>1. Init => Inv
  BY InitShape, InitText
<1>2. Inv /\ [Next]_vars => Inv'
  BY ShapeStep, TextStep
<1>3. Inv => EmbedDescribesText
  BY DEF TextInv
<1> HIDE DEF Inv
<1> QED  BY <1>1, <1>2, <1>3, PTL DEF Spec
-----------------------------------------------------------------------------
(* Coverage.                                                               *)

LEMMA RootInput ==
  ASSUME NEW c \in Chunks, Root(c)
  PROVE  InputOf(c) = [text |-> chunks[c].text, parent |-> FALSE]
BY DEF Root, InputOf

\* A chunk that keeps row, text and hash keeps its inputs, if it is a root.
LEMMA RootKept ==
  ASSUME NEW c \in Chunks, Root(c), chunks'[c].text = chunks[c].text
  PROVE  /\ InputOf(c)' = InputOf(c)
         /\ chunks'[c].hash = chunks[c].hash => (Applied(c)' <=> Applied(c))
<1>1. InputOf(c)' = [text |-> chunks'[c].text, parent |-> FALSE]
  BY DEF Root, InputOf
<1>2. InputOf(c)' = InputOf(c)
  BY <1>1, RootInput
<1> QED  BY <1>2 DEF Applied

LEMMA MessageCover ==
  ASSUME ShapeInv, ShapeInv', TextInv, CoverInv, NEW i \in Ingesters, NEW m \in Messages,
         MessageMoves(m),
         \A x \in Ingesters : x # i => ingest'[x] = ingest[x],
         ingest[i].step = "idle" \/ ingest[i].msg = m,
         \A c \in ChunksOf(m) : Stored(c)' => Handles(i, c)'
  PROVE  CoverInv'
<1>0. ContextTypeOK /\ ContextTypeOK' /\ RowsDiffer
  BY DEF ShapeInv
<1>1. DoneIsApplied'
  <2>1. SUFFICES ASSUME NEW c \in Chunks, NEW j \in JobIds, Root(c),
                        j \in QueuedFor(c, InputOf(c))', jobs'[j].status = "done"
                 PROVE  Applied(c)'
    BY DEF DoneIsApplied, Root
  <2>2. InTable(j)' /\ jobs'[j].subject = c /\ jobs'[j].digest = InputOf(c)'
    BY <2>1 DEF QueuedFor
  <2>3. InTable(j) /\ jobs'[j] = jobs[j] /\ jobs[j].subject = c
    BY <2>2 DEF MessageMoves
  <2>4. /\ Stored(c) /\ jobs[j].digest.text \in Nat /\ chunks[c].text \in Nat
        /\ jobs[j].row \in Rows
    BY <1>0, <2>3, JobFacts
  <2>5. Stored(c)' /\ chunks'[c].text \in Nat
    <3>1. chunks'[c].row = jobs[j].row
      BY <1>0, <2>2, <2>3 DEF ContextTypeOK
    <3>2. chunks'[c].row # 0
      BY <2>4, <3>1 DEF Rows
    <3>3. chunks'[c] \in ChunkRow
      BY <1>0, <3>2 DEF ContextTypeOK, NoChunk
    <3> QED  BY <3>2, <3>3 DEF ChunkRow, Texts, Stored
  <2>6. chunks[c].text <= chunks'[c].text /\ chunks'[c].hash = chunks[c].hash
    BY <2>4, <2>5 DEF MessageMoves
  <2>7. jobs[j].digest.text = chunks'[c].text
    BY <2>2, <2>3 DEF InputOf
  <2>8. jobs[j].digest.text <= chunks[c].text
    BY <2>3 DEF TextInv, ReadsBehind, JobsBehind
  <2>9. chunks'[c].text = chunks[c].text
    BY <2>4, <2>5, <2>6, <2>7, <2>8
  <2>10. InputOf(c)' = InputOf(c) /\ (Applied(c)' <=> Applied(c))
    BY <2>1, <2>6, <2>9, RootKept
  <2>11. j \in QueuedFor(c, InputOf(c)) /\ jobs[j].status = "done"
    BY <2>1, <2>2, <2>3, <2>10 DEF QueuedFor
  <2> QED  BY <2>1, <2>10, <2>11 DEF CoverInv, DoneIsApplied
<1>2. RootsAreHandled'
  <2>1. SUFFICES ASSUME NEW c \in Chunks, Stored(c)', Root(c)
                 PROVE  Covered(c)' \/ \E x \in Ingesters : Handles(x, c)'
    BY DEF RootsAreHandled, Root
  <2>2. CASE MessageOf[c] = m
    BY <2>1, <2>2 DEF ChunksOf
  <2>3. CASE MessageOf[c] # m
    <3>1. chunks'[c] = chunks[c] /\ Stored(c)
      BY <2>1, <2>3 DEF MessageMoves, Stored
    <3>2. InputOf(c)' = InputOf(c) /\ (Applied(c)' <=> Applied(c))
      BY <2>1, <3>1, RootKept
    <3>3. ASSUME Covered(c) PROVE Covered(c)'
      <4>1. ASSUME NEW j \in QueuedFor(c, InputOf(c)) PROVE j \in QueuedFor(c, InputOf(c))' /\ jobs'[j] = jobs[j]
        <5>1. InTable(j)' /\ jobs'[j] = jobs[j]
          BY <2>3 DEF QueuedFor, MessageMoves
        <5> QED  BY <3>2, <5>1 DEF QueuedFor
      <4> QED  BY <3>2, <3>3, <4>1 DEF Covered
    <3>4. ASSUME NEW x \in Ingesters, Handles(x, c) PROVE Handles(x, c)'
      <4>1. x # i
        BY <2>3, <3>4 DEF Handles
      <4>2. ingest'[x] = ingest[x] /\ todo' = todo
        BY <4>1 DEF MessageMoves
      <4>3. StateOf(c)' = StateOf(c)
        BY <3>1, <3>2 DEF StateOf
      <4> QED  BY <3>4, <4>2, <4>3 DEF Handles
    <3> QED  BY <2>1, <3>1, <3>3, <3>4 DEF CoverInv, RootsAreHandled
  <2> QED  BY <2>2, <2>3
<1> QED  BY <1>1, <1>2 DEF CoverInv

\* Steps that keep rows, texts and jobs keep the coverage, if a job of a root
\* chunk is newly done only when its inputs are applied, or are not the
\* chunk's, and hashes are only set to the chunk's inputs.
LEMMA CoverKept ==
  ASSUME ShapeInv, CoverInv, SameJobs, UNCHANGED <<ingest, todo>>,
         \A c \in Chunks :
           /\ chunks'[c].row = chunks[c].row /\ chunks'[c].text = chunks[c].text
           /\ chunks'[c].hash \in {chunks[c].hash, InputOf(c)},
         \A j \in JobIds : InTable(j) /\ jobs'[j].status = "done" /\ jobs[j].status # "done" =>
           \/ jobs[j].digest # InputOf(jobs[j].subject)
           \/ chunks'[jobs[j].subject].hash = InputOf(jobs[j].subject)
  PROVE  CoverInv'
<1>0. ContextTypeOK
  BY DEF ShapeInv
<1>1. ASSUME NEW c \in Chunks, Root(c)
      PROVE  InputOf(c)' = InputOf(c) /\ (Applied(c) => Applied(c)')
             /\ (chunks'[c].hash = InputOf(c) => Applied(c)')
             /\ StateOf(c)' = StateOf(c) /\ (Stored(c)' <=> Stored(c))
  <2>1. InputOf(c)' = InputOf(c)
    BY <1>1, RootKept
  <2> QED  BY <2>1 DEF Applied, StateOf, Stored
<1>2. DoneIsApplied'
  <2>1. SUFFICES ASSUME NEW c \in Chunks, NEW j \in JobIds, Root(c),
                        j \in QueuedFor(c, InputOf(c))', jobs'[j].status = "done"
                 PROVE  Applied(c)'
    BY DEF DoneIsApplied, Root
  <2>2. InTable(j)' /\ jobs'[j].subject = c /\ jobs'[j].digest = InputOf(c)'
    BY <2>1 DEF QueuedFor
  <2>3. InTable(j) /\ jobs[j].subject = c /\ jobs[j].digest = InputOf(c)
    BY <1>1, <2>1, <2>2 DEF SameJobs
  <2>4. CASE jobs[j].status = "done"
    BY <1>1, <2>1, <2>3, <2>4 DEF CoverInv, DoneIsApplied, QueuedFor
  <2>5. CASE jobs[j].status # "done"
    BY <1>1, <2>1, <2>3, <2>5
  <2> QED  BY <2>4, <2>5
<1>3. RootsAreHandled'
  <2>1. SUFFICES ASSUME NEW c \in Chunks, Stored(c)', Root(c)
                 PROVE  Covered(c)' \/ \E x \in Ingesters : Handles(x, c)'
    BY DEF RootsAreHandled, Root
  <2>2. ASSUME NEW j \in QueuedFor(c, InputOf(c)), jobs[j].status # "done" PROVE Covered(c)'
    <3>1. j \in JobIds /\ InTable(j) /\ jobs[j].subject = c /\ jobs[j].digest = InputOf(c)
      BY DEF QueuedFor
    <3>2. j \in QueuedFor(c, InputOf(c))'
      BY <1>1, <2>1, <3>1 DEF QueuedFor, SameJobs
    <3>3. jobs'[j].status = "done" => Applied(c)'
      BY <1>1, <2>1, <2>2, <3>1
    <3> QED  BY <3>2, <3>3 DEF Covered
  <2>3. Covered(c) => Covered(c)'
    BY <1>1, <2>1, <2>2 DEF Covered
  <2>4. \A x \in Ingesters : Handles(x, c) => Handles(x, c)'
    BY <1>1, <2>1 DEF Handles
  <2> QED  BY <1>1, <2>1, <2>3, <2>4 DEF CoverInv, RootsAreHandled
<1> QED  BY <1>2, <1>3 DEF CoverInv

LEMMA WorkerCover ==
  ASSUME ShapeInv, CoverInv, NEW w \in Workers, WorkerStep(w)
  PROVE  CoverInv'
<1>0. ContextTypeOK /\ QueueTypeOK /\ LoadedIsHeld
  BY DEF ShapeInv, ContextTypeOK
<1>1. SameJobs /\ UNCHANGED <<ingest, todo>> /\ DoneOnly(held[w])
  BY <1>0, WorkerQueue DEF ingestVars
<1>2. ASSUME NEW c \in Chunks
      PROVE  /\ chunks'[c].row = chunks[c].row /\ chunks'[c].text = chunks[c].text
             /\ chunks'[c].hash \in {chunks[c].hash, InputOf(c)}
  BY WorkerWrites DEF Wrote
<1>3. ASSUME NEW j \in JobIds, InTable(j), jobs'[j].status = "done", jobs[j].status # "done"
      PROVE  \/ jobs[j].digest # InputOf(jobs[j].subject)
             \/ chunks'[jobs[j].subject].hash = InputOf(jobs[j].subject)
  <2>1. j = held[w] /\ held[w] # NoJob
    BY <1>1, <1>3 DEF DoneOnly, JobIds, NoJob
  <2>2. jobs[j].subject \in Chunks
    BY <1>0, <1>3, JobFacts
  <2>3. CASE ~RetireJob(w)
    <3>1. Load(w) \/ ClaimJob(w) \/ FailJob(w, 0) \/ FailJob(w, MaxAttempts) \/ Crash(w)
      BY <2>3 DEF WorkerStep, Claim, LoadFails, ProviderFails, DropResult, Commit, WorkerDies
    <3>2. CASE Load(w)
      BY <1>3, <3>2 DEF Load
    <3>3. CASE ~Load(w)
      BY <1>0, <1>3, <2>3, <3>1, <3>3, QueueStep, ContextAssumption DEF DoneOnly, NoJob, JobIds
    <3> QED  BY <3>2, <3>3
  <2>4. CASE RetireJob(w)
    <3>1. jobs[j].subject \in Target(w)
      BY <1>3, <2>1, <2>2, TargetIsSubject
    <3>2. CASE DropResult(w)
      BY <2>1, <3>1, <3>2 DEF DropResult, Fresh
    <3>3. CASE \E p \in {loaded[w], Nothing} : Commit(w, p)
      <4>1. PICK p \in {loaded[w], Nothing}, d \in Target(w) :
              /\ InputOf(d) = jobs[held[w]].digest
              /\ chunks' = [chunks EXCEPT ![d] =
                   [@ EXCEPT !.hash = jobs[held[w]].digest, !.prefix = p,
                             !.embedText = loaded[w].text, !.embedPrefix = p]]
        BY <3>3 DEF Commit, Fresh
      <4>2. d = jobs[j].subject /\ d \in Chunks /\ Stored(d)
        BY <2>1, <2>2, TargetIsSubject DEF Target
      <4>3. chunks[d] \in ChunkRow /\ chunks \in [Chunks -> ChunkRow \cup {NoChunk}]
        BY <1>0, <4>2, InputType DEF ContextTypeOK
      <4> DEFINE new == [chunks[d] EXCEPT !.hash = jobs[held[w]].digest, !.prefix = p,
                                          !.embedText = loaded[w].text, !.embedPrefix = p]
      <4>4. new.hash = jobs[held[w]].digest
        BY <4>3 DEF ChunkRow
      <4>5. chunks' = [chunks EXCEPT ![d] = new]
        BY <4>1
      <4> HIDE DEF new
      <4> QED  BY <4>1, <4>2, <4>3, <4>4, <4>5
    <3>4. CASE Load(w) \/ Claim(w) \/ LoadFails(w) \/ ProviderFails(w) \/ WorkerDies(w)
      <4>1. CASE Load(w)
        BY <1>3, <4>1 DEF Load
      <4>2. CASE ClaimJob(w)
        BY <2>1, <4>2 DEF ClaimJob
      <4>3. ASSUME NEW budget, FailJob(w, budget) PROVE jobs'[j].status # "done"
        <5>1. PICK st \in {"pending", "failed"} : jobs' = Ended(w, st)
          BY <4>3 DEF FailJob
        <5>2. jobs'[j] = [jobs[j] EXCEPT !.status = st, !.lease = "none"] /\ jobs[j] \in Job
          BY <1>0, <1>3, <2>1, <5>1, JobInTable DEF Ended
        <5> QED  BY <5>2 DEF Job
      <4>4. CASE Crash(w)
        BY <1>3, <4>4 DEF Crash
      <4> QED  BY <1>3, <3>4, <4>1, <4>2, <4>3, <4>4
               DEF Claim, LoadFails, ProviderFails, WorkerDies
    <3> QED  BY <3>2, <3>3, <3>4 DEF WorkerStep
  <2> QED  BY <2>3, <2>4
<1> QED  BY <1>1, <1>2, <1>3, CoverKept

LEMMA EnqueueCover ==
  ASSUME ShapeInv, CoverInv, NEW e \in Enqueuers, Enqueue(e)
  PROVE  CoverInv'
<1>0. ContextTypeOK /\ QueueTypeOK
  BY DEF ShapeInv, ContextTypeOK
<1>1. PICK s \in todo[e] :
        /\ Insert(s.chunk, s.row, s.digest)
        /\ todo' = [todo EXCEPT ![e] = @ \ {s}]
  BY DEF Enqueue
<1>2. s.chunk \in Chunks /\ s.row \in Rows /\ s.digest \in Inputs
  <2>1. s \in State
    BY <1>0 DEF ContextTypeOK, Enqueuers
  <2> QED  BY <2>1 DEF State
<1>3. chunks' = chunks /\ ingest' = ingest
  BY DEF Enqueue, chunkVars
<1>4. /\ \A j \in JobIds : jobs'[j] = jobs[j] \/ (~InTable(j) /\ jobs'[j].status = "pending")
      /\ QueuedFor(s.chunk, s.digest) # {}
         \/ \E j \in JobIds : /\ InTable(j)' /\ jobs'[j].subject = s.chunk
                              /\ jobs'[j].digest = s.digest /\ jobs'[j].status = "pending"
  BY <1>0, <1>1, <1>2, InsertStep
<1>5. ASSUME NEW c \in Chunks
      PROVE  InputOf(c)' = InputOf(c) /\ (Applied(c)' <=> Applied(c)) /\ (Stored(c)' <=> Stored(c))
             /\ StateOf(c)' = StateOf(c)
  <2>1. InputOf(c)' = InputOf(c)
    BY <1>3 DEF InputOf, InMailbox, Stored
  <2> QED  BY <1>3, <2>1 DEF Applied, Stored, StateOf
<1>6. ASSUME NEW c \in Chunks, NEW j \in QueuedFor(c, InputOf(c))
      PROVE  j \in QueuedFor(c, InputOf(c))' /\ jobs'[j] = jobs[j]
  BY <1>4, <1>5, <1>6 DEF QueuedFor, InTable
<1>7. DoneIsApplied'
  <2>1. SUFFICES ASSUME NEW c \in Chunks, NEW j \in JobIds, Root(c),
                        j \in QueuedFor(c, InputOf(c))', jobs'[j].status = "done"
                 PROVE  Applied(c)'
    BY DEF DoneIsApplied, Root
  <2>2. jobs'[j] = jobs[j]
    BY <1>4, <2>1
  <2>3. j \in QueuedFor(c, InputOf(c))
    BY <1>5, <2>1, <2>2 DEF QueuedFor, InTable
  <2> QED  BY <1>5, <2>1, <2>2, <2>3 DEF CoverInv, DoneIsApplied
<1>8. RootsAreHandled'
  <2>1. SUFFICES ASSUME NEW c \in Chunks, Stored(c)', Root(c)
                 PROVE  Covered(c)' \/ \E x \in Ingesters : Handles(x, c)'
    BY DEF RootsAreHandled, Root
  <2>2. Covered(c) => Covered(c)'
    BY <1>5, <1>6 DEF Covered
  <2>3. CASE s = StateOf(c)
    <3>1. s.chunk = c /\ s.digest = InputOf(c)
      BY <2>3 DEF StateOf
    <3>2. CASE QueuedFor(c, InputOf(c)) # {}
      <4>1. PICK j \in QueuedFor(c, InputOf(c)) : TRUE
        BY <3>2
      <4>2. Covered(c)
        BY <2>1, <4>1 DEF CoverInv, DoneIsApplied, Covered, QueuedFor
      <4> QED  BY <2>2, <4>2
    <3>3. CASE QueuedFor(c, InputOf(c)) = {}
      <4>1. PICK j \in JobIds : /\ InTable(j)' /\ jobs'[j].subject = c
                                /\ jobs'[j].digest = InputOf(c) /\ jobs'[j].status = "pending"
        BY <1>4, <3>1, <3>3
      <4> QED  BY <1>5, <4>1 DEF Covered, QueuedFor
    <3> QED  BY <3>2, <3>3
  <2>4. CASE s # StateOf(c)
    <3>1. \A x \in Ingesters : StateOf(c) \in todo[x] => StateOf(c) \in todo'[x]
      BY <1>0, <1>1, <2>4 DEF ContextTypeOK, Enqueuers
    <3>2. \A x \in Ingesters : Handles(x, c) => Handles(x, c)'
      BY <1>3, <1>5, <3>1 DEF Handles
    <3> QED  BY <1>5, <2>1, <2>2, <3>2 DEF CoverInv, RootsAreHandled
  <2> QED  BY <2>3, <2>4
<1> QED  BY <1>7, <1>8 DEF CoverInv

LEMMA QueueingCover ==
  ASSUME ShapeInv, CoverInv, QueueingStep
  PROVE  CoverInv'
<1>0. ContextTypeOK /\ QueueTypeOK
  BY DEF ShapeInv, ContextTypeOK
<1>1. CASE \E e \in Enqueuers : Enqueue(e)
  BY <1>1, EnqueueCover
<1>2. CASE ~ \E e \in Enqueuers : Enqueue(e)
  <2>1. UNCHANGED <<chunks, jobs>>
    BY <1>2, QueueingQuiet
  <2>2. ASSUME NEW c \in Chunks
        PROVE  InputOf(c)' = InputOf(c) /\ (Applied(c)' <=> Applied(c)) /\ (Stored(c)' <=> Stored(c))
               /\ StateOf(c)' = StateOf(c) /\ (Covered(c)' <=> Covered(c))
               /\ QueuedFor(c, InputOf(c))' = QueuedFor(c, InputOf(c))
    <3>1. InputOf(c)' = InputOf(c)
      BY <2>1 DEF InputOf, InMailbox, Stored
    <3>2. QueuedFor(c, InputOf(c))' = QueuedFor(c, InputOf(c))
      BY <2>1, <3>1 DEF QueuedFor, InTable
    <3> QED  BY <2>1, <3>1, <3>2 DEF Applied, Stored, StateOf, Covered
  <2>3. DoneIsApplied'
    BY <2>1, <2>2 DEF CoverInv, DoneIsApplied, Root
  <2>4. ASSUME NEW i \in Ingesters, NEW c \in Chunks, Handles(i, c), Stored(c)
        PROVE  Applied(c) \/ Handles(i, c)'
    <3>1. ASSUME NEW x \in Ingesters, ReadStates(x) PROVE Applied(c) \/ Handles(i, c)'
      <4>1. CASE x = i
        <5>1. c \in ChunksOf(ingest[i].msg) /\ ingest[i].step = "persisted"
          BY <2>4, <3>1, <4>1 DEF Handles, ChunksOf, ReadStates
        <5>2. Applied(c) \/ StateOf(c) \in StatesToQueue(ChunksOf(ingest[i].msg))
          BY <2>4, <5>1 DEF StatesToQueue, Applied, StateOf
        <5>3. /\ ingest'[i].step = "queueing" /\ ingest'[i].msg = ingest[i].msg
              /\ todo'[i] = StatesToQueue(ChunksOf(ingest[i].msg))
          BY <1>0, <3>1, <4>1 DEF ReadStates, ContextTypeOK
        <5> QED  BY <2>2, <2>4, <5>2, <5>3 DEF Handles
      <4>2. CASE x # i
        BY <1>0, <2>2, <2>4, <3>1, <4>2 DEF ReadStates, Handles, ContextTypeOK
      <4> QED  BY <4>1, <4>2
    <3>2. ASSUME NEW x \in Ingesters, EnqueueRaises(x) \/ IngestDies(x) PROVE Handles(i, c)'
      <4>1. CASE x = i
        <5>1. ingest'[i].step = "retry" /\ ingest'[i].msg = ingest[i].msg
          BY <1>0, <3>2, <4>1 DEF EnqueueRaises, IngestDies, ContextTypeOK
        <5> QED  BY <2>4, <5>1 DEF Handles
      <4>2. CASE x # i
        BY <1>0, <2>2, <2>4, <3>2, <4>2 DEF EnqueueRaises, IngestDies, Handles, ContextTypeOK
      <4> QED  BY <4>1, <4>2
    <3>3. ASSUME NEW x \in Ingesters, IngestDone(x) PROVE Handles(i, c)'
      <4>1. x # i
        BY <2>4, <3>3 DEF IngestDone, Handles
      <4> QED  BY <1>0, <2>2, <2>4, <3>3, <4>1 DEF IngestDone, Handles, ContextTypeOK
    <3>4. ASSUME StartBackfill \/ ReadPage \/ BackfillEnds PROVE Handles(i, c)'
      <4>1. ingest' = ingest /\ todo'[i] = todo[i]
        <5>1. i # Backfiller
          BY ContextAssumption DEF Backfiller
        <5> QED  BY <1>0, <3>4, <5>1 DEF StartBackfill, ReadPage, BackfillEnds, ContextTypeOK
      <4> QED  BY <2>2, <2>4, <4>1 DEF Handles
    <3> QED  BY <1>2, <3>1, <3>2, <3>3, <3>4 DEF QueueingStep
  <2>5. RootsAreHandled'
    <3>1. SUFFICES ASSUME NEW c \in Chunks, Stored(c)', Root(c)
                   PROVE  Covered(c)' \/ \E x \in Ingesters : Handles(x, c)'
      BY DEF RootsAreHandled, Root
    <3>2. Stored(c) /\ (Covered(c)' <=> Covered(c)) /\ (Applied(c) => Covered(c))
      BY <2>2, <3>1 DEF Covered
    <3> QED  BY <2>4, <3>1, <3>2 DEF CoverInv, RootsAreHandled
  <2> QED  BY <2>3, <2>5 DEF CoverInv
<1> QED  BY <1>1, <1>2

LEMMA CoverStep ==
  ASSUME ShapeInv, TextInv, CoverInv, ~MayRevert, [Next]_vars
  PROVE  CoverInv'
<1>0. ContextTypeOK /\ QueueTypeOK
  BY DEF ShapeInv, ContextTypeOK
<1>1. ShapeInv'
  BY ShapeStep
<1>2. CASE UNCHANGED vars
  <2>1. UNCHANGED <<ingest, todo, chunks, jobs>>
    BY <1>2 DEF vars
  <2>2. SameJobs
    BY <2>1 DEF SameJobs, InTable
  <2> QED  BY <2>1, <2>2, CoverKept
<1>3. ASSUME NEW i \in Ingesters, NEW m \in Messages, Persist(i, m) \/ DeleteMessage(i, m)
      PROVE  CoverInv'
  <2>1. MessageMoves(m)
    BY <1>3, PersistMoves, DeleteMoves
  <2>2. \A x \in Ingesters : x # i => ingest'[x] = ingest[x]
    BY <1>0, <1>3 DEF Persist, DeleteMessage, ContextTypeOK
  <2>3. ingest[i].step = "idle" \/ ingest[i].msg = m
    BY <1>3 DEF Persist, DeleteMessage
  <2>4. \A c \in ChunksOf(m) : Stored(c)' => Handles(i, c)'
    <3>1. CASE Persist(i, m)
      <4>1. ingest'[i] = [msg |-> m, step |-> "persisted"]
        BY <1>0, <3>1 DEF Persist, ContextTypeOK
      <4> QED  BY <4>1 DEF Handles, ChunksOf
    <3>2. CASE DeleteMessage(i, m)
      BY <3>2, DeleteMoves
    <3> QED  BY <1>3, <3>1, <3>2
  <2> QED  BY <1>1, <2>1, <2>2, <2>3, <2>4, MessageCover
<1>4. CASE QueueingStep
  BY <1>4, QueueingCover
<1>5. ASSUME NEW w \in Workers, WorkerStep(w) PROVE CoverInv'
  BY <1>5, WorkerCover
<1>6. ASSUME NEW j \in JobIds, TimePasses(j) PROVE CoverInv'
  <2>1. SameJobs /\ DoneOnly(NoJob)
    BY <1>0, <1>6, LeaseStep DEF TimePasses
  <2>2. UNCHANGED <<ingest, todo, chunks>>
    BY <1>6 DEF TimePasses, chunkVars, ingestVars
  <2>3. \A i \in JobIds : InTable(i) /\ jobs'[i].status = "done" => jobs[i].status = "done"
    BY <2>1 DEF DoneOnly, JobIds, NoJob
  <2> QED  BY <2>1, <2>2, <2>3, CoverKept
<1> QED  BY <1>2, <1>3, <1>4, <1>5, <1>6, NextSplits

LEMMA InitCover ==
  ASSUME Init
  PROVE  CoverInv
<1>1. \A j \in JobIds : ~InTable(j)
  BY DEF Init, QueueInit, InTable, Unused
<1>2. \A c \in Chunks : ~Stored(c)
  BY DEF Init, Stored, NoChunk
<1> QED  BY <1>1, <1>2 DEF CoverInv, DoneIsApplied, RootsAreHandled, QueuedFor

(* While texts only move on, no chunk without a parent is forgotten between *)
(* the transactions that store it, read it, queue it and write its prefix.  *)
THEOREM RootsAreCoveredCorrect ==
  ASSUME ~MayRevert
  PROVE  Spec => []RootsAreCovered
<1> DEFINE Inv == ShapeInv /\ TextInv /\ CoverInv
<1>1. Init => Inv
  BY InitShape, InitText, InitCover
<1>2. Inv /\ [Next]_vars => Inv'
  BY ShapeStep, TextStep, CoverStep
<1>3. Inv => RootsAreCovered
  BY DEF CoverInv, RootsAreHandled, RootsAreCovered, Handles, Underway
<1> HIDE DEF Inv
<1> QED  BY <1>1, <1>2, <1>3, PTL DEF Spec
=============================================================================
