-------------------------- MODULE GraphFactsProofs --------------------------
(***************************************************************************)
(* What the evidence graph guarantees for every number of chunks, texts,   *)
(* facts, workers, deaths and late answers: rows, jobs, evidence and links *)
(* never dangle, the graph of a chunk is that of the text it was extracted *)
(* from, a chunk asserts its fact once, a fact is superseded only with a   *)
(* cause, and no chunk that replies to nothing is forgotten.               *)
(***************************************************************************)
EXTENDS GraphFacts, WellFoundedInduction, TLAPS

\* Where an ingester and a worker may be.
Ingesting == {[step |-> "idle"]} \cup [step : {"persisted", "retry"}, chunk : Chunks]

Working ==
  {Idle} \cup [step : {"loaded"}, input : Inputs]
         \cup [step : {"writing"}, input : Inputs, prior : FactIds \cup {NoFact}]

\* Row ids are handed out once, and fact ids in order.
RowsDiffer ==
  /\ \A c \in Chunks : chunks[c].row <= lastRow
  /\ \A c, d \in Chunks : Stored(c) /\ chunks[c].row = chunks[d].row => c = d

BornInOrder == \A f, g \in FactIds : f < g /\ facts[g] # Unborn => facts[f] # Unborn

\* A worker has loaded a chunk only for a job it holds.
WorkIsHeld == \A w \in Workers : work[w] # Idle => held[w] # NoJob

\* The id of a job a worker holds is never handed out again.
HeldIsUsed == \A w \in Workers : held[w] # NoJob => jobs[held[w]].status # "absent"

\* The chunk w's job is about, and what the text it loaded states.
SubjectOf(w) == jobs[held[w]].subject
SaidTo(w) == Says[SubjectOf(w)][work[w].input.text]

\* What a worker in its transaction is about to assert has a cue.
WritersHaveCue ==
  \A w \in Workers : work[w].step = "writing" /\ InTable(held[w]) =>
    SaidTo(w) # Silent /\ SaidTo(w).cue

ShapeInv ==
  /\ GraphTypeOK
  /\ ingest \in [Ingesters -> Ingesting] /\ work \in [Workers -> Working]
  /\ RowsDiffer /\ BornInOrder /\ WorkIsHeld /\ HeldIsUsed /\ WritersHaveCue

\* What was read is never ahead of the chunk: neither a queued digest, nor the
\* input a worker has loaded for its job.
JobsBehind ==
  \A j \in JobIds : InTable(j) => jobs[j].digest.text <= chunks[jobs[j].subject].text

LoadsBehind ==
  \A w \in Workers : work[w] # Idle /\ InTable(held[w]) =>
    /\ jobs[held[w]].digest.text <= work[w].input.text
    /\ work[w].input.text <= chunks[SubjectOf(w)].text

\* While a worker waits in its transaction its chunk stays what the check of
\* the fingerprint found.
WritersAreFresh ==
  \A w \in Workers : work[w].step = "writing" /\ InTable(held[w]) =>
    /\ jobs[held[w]].digest.text = chunks[SubjectOf(w)].text
    /\ ParentOf[SubjectOf(w)] = NoParent => jobs[held[w]].digest = InputOf(SubjectOf(w))

\* A chunk that is not stored has no edges.
EdgesAreStored == \A c \in Chunks : ~Stored(c) => edges[c] = Nothing

\* The fact a worker in its transaction is about to supersede is about the
\* key of what it asserts, if that fact is still there.
WritersHaveCause ==
  \A w \in Workers : work[w].step = "writing" /\ InTable(held[w]) /\ work[w].prior # NoFact =>
    /\ facts[work[w].prior] # Unborn
    /\ Exists(work[w].prior) => facts[work[w].prior].key = SaidTo(w).key

SupersessionInv == SupersessionIsSound /\ WritersHaveCause

\* A job of a root chunk that is done has been applied, unless the chunk has
\* moved on.
DoneIsApplied ==
  \A c \in Chunks, j \in JobIds :
    ParentOf[c] = NoParent /\ j \in QueuedFor(c, InputOf(c)) /\ jobs[j].status = "done" =>
      chunks[c].hash = InputOf(c)

CoverInv == DoneIsApplied /\ ExtractionIsCovered
-----------------------------------------------------------------------------
(* The queue's operations.                                                 *)

JobRows == Job \cup {Unused, Gone}

\* The same jobs are in the table, each for the same row and inputs.
SameJobs ==
  \A j \in JobIds :
    /\ InTable(j)' <=> InTable(j)
    /\ InTable(j) => /\ jobs'[j].subject = jobs[j].subject
                     /\ jobs'[j].row = jobs[j].row
                     /\ jobs'[j].digest = jobs[j].digest
    /\ ~InTable(j) => jobs'[j] = jobs[j]

\* No job but j is newly done.
DoneOnly(j) ==
  \A i \in JobIds : InTable(i) /\ i # j /\ jobs'[i].status = "done" => jobs[i].status = "done"

LEMMA JobInTable ==
  ASSUME QueueTypeOK, NEW j \in JobIds
  PROVE  /\ InTable(j) => jobs[j] \in Job
         /\ ~InTable(j) => jobs[j] \in {Unused, Gone}
BY DEF QueueTypeOK, InTable, Job, Unused, Gone

LEMMA ClaimedRow ==
  ASSUME NEW job \in Job
  PROVE  /\ Claimed(job) \in Job /\ Claimed(job).status = "running"
         /\ Claimed(job).subject = job.subject
         /\ Claimed(job).row = job.row /\ Claimed(job).digest = job.digest
<1> DEFINE next == job.attempts + 1
<1>1. next \in Nat
  BY DEF Job
<1> HIDE DEF next
<1> DEFINE new == [job EXCEPT !.status = "running", !.lease = "live", !.attempts = next]
<1>2. new \in Job /\ new.status = "running" /\ new.subject = job.subject
      /\ new.row = job.row /\ new.digest = job.digest
  BY <1>1 DEF Job
<1>3. Claimed(job) = new
  BY DEF Claimed, next
<1> QED  BY <1>2, <1>3

LEMMA RowEnded ==
  ASSUME QueueTypeOK, NEW w \in Workers, NEW st \in {"pending", "done", "failed"},
         jobs' = Ended(w, st)
  PROVE  /\ jobs' \in [JobIds -> JobRows]
         /\ SameJobs
         /\ DoneOnly(held[w])
         /\ st # "done" => DoneOnly(NoJob)
<1>1. ASSUME NEW j \in JobIds, j = held[w], InTable(j)
      PROVE  /\ jobs'[j] \in Job /\ jobs'[j].status = st
             /\ jobs'[j].subject = jobs[j].subject
             /\ jobs'[j].row = jobs[j].row
             /\ jobs'[j].digest = jobs[j].digest
  <2>1. jobs[j] \in Job
    BY <1>1, JobInTable
  <2>2. jobs'[j] = [jobs[j] EXCEPT !.status = st, !.lease = "none"]
    BY <1>1 DEF Ended
  <2> QED  BY <2>1, <2>2 DEF Job
<1>2. ASSUME NEW j \in JobIds, j # held[w] \/ ~InTable(j) PROVE jobs'[j] = jobs[j]
  BY <1>2 DEF Ended
<1>3. jobs' \in [JobIds -> JobRows]
  <2>1. \A j \in JobIds : jobs'[j] \in JobRows
    BY <1>1, <1>2 DEF QueueTypeOK, JobRows
  <2> QED  BY <2>1 DEF Ended
<1>4. SameJobs
  BY <1>1, <1>2 DEF SameJobs, InTable
<1>5. DoneOnly(held[w]) /\ (st # "done" => DoneOnly(NoJob))
  BY <1>1, <1>2 DEF DoneOnly
<1> QED  BY <1>3, <1>4, <1>5

LEMMA QueueStep ==
  ASSUME QueueTypeOK, NEW w \in Workers, NEW budget \in Nat,
         ClaimJob(w) \/ FailJob(w, budget) \/ RetireJob(w) \/ Crash(w)
  PROVE  /\ QueueTypeOK' /\ SameJobs /\ DoneOnly(held[w])
         /\ ~RetireJob(w) => DoneOnly(NoJob)
<1>1. CASE ClaimJob(w)
  <2>1. PICK j \in JobIds :
          /\ Claimable(j)
          /\ jobs' = [jobs EXCEPT ![j] = Claimed(@)]
          /\ held' = [held EXCEPT ![w] = j]
    BY <1>1 DEF ClaimJob
  <2>2. jobs[j] \in Job
    BY <2>1, JobInTable DEF Claimable
  <2>3. jobs'[j] \in Job /\ jobs'[j].status = "running" /\ jobs'[j].subject = jobs[j].subject
        /\ jobs'[j].row = jobs[j].row /\ jobs'[j].digest = jobs[j].digest
    <3>1. jobs'[j] = Claimed(jobs[j])
      BY <2>1 DEF QueueTypeOK
    <3> QED  BY <2>2, <3>1, ClaimedRow
  <2>4. \A i \in JobIds : i # j => jobs'[i] = jobs[i]
    BY <2>1 DEF QueueTypeOK
  <2>5. QueueTypeOK'
    BY <1>1, <2>1, <2>3, <2>4 DEF QueueTypeOK, ClaimJob, faultVars
  <2>6. SameJobs /\ DoneOnly(held[w]) /\ DoneOnly(NoJob)
    BY <2>1, <2>3, <2>4 DEF SameJobs, DoneOnly, InTable, Claimable
  <2> QED  BY <2>5, <2>6
<1>2. CASE FailJob(w, budget)
  <2>1. PICK st \in {"pending", "failed"} : jobs' = Ended(w, st)
    BY <1>2 DEF FailJob
  <2>2. jobs' \in [JobIds -> JobRows] /\ SameJobs /\ DoneOnly(held[w]) /\ DoneOnly(NoJob)
    BY <2>1, RowEnded
  <2> QED  BY <1>2, <2>2 DEF QueueTypeOK, FailJob, LetGo, faultVars, JobRows
<1>3. CASE RetireJob(w)
  <2>1. jobs' \in [JobIds -> JobRows] /\ SameJobs /\ DoneOnly(held[w])
    BY <1>3, RowEnded DEF RetireJob
  <2> QED  BY <1>3, <2>1 DEF QueueTypeOK, RetireJob, LetGo, faultVars, JobRows
<1>4. CASE Crash(w)
  BY <1>4, GraphAssumption
     DEF QueueTypeOK, Crash, LetGo, SameJobs, DoneOnly, InTable
<1> QED  BY <1>1, <1>2, <1>3, <1>4

LEMMA LeaseStep ==
  ASSUME QueueTypeOK, NEW j \in JobIds, LeaseLapses(j) \/ LeaseOverrun(j)
  PROVE  QueueTypeOK' /\ SameJobs /\ DoneOnly(NoJob) /\ UNCHANGED held
<1>1. InTable(j) /\ jobs' = Expired(j)
  BY DEF LeaseLapses, LeaseOverrun, Leased
<1>2. jobs[j] \in Job
  BY <1>1, JobInTable
<1>3. jobs'[j] \in Job /\ jobs'[j].status = jobs[j].status /\ jobs'[j].subject = jobs[j].subject
      /\ jobs'[j].row = jobs[j].row /\ jobs'[j].digest = jobs[j].digest
  BY <1>1, <1>2 DEF QueueTypeOK, Job, Expired
<1>4. \A i \in JobIds : i # j => jobs'[i] = jobs[i]
  BY <1>1 DEF QueueTypeOK, Expired
<1>5. held' = held /\ crashes' = crashes /\ overruns' \in 0 .. MaxOverruns
  BY GraphAssumption DEF QueueTypeOK, LeaseLapses, LeaseOverrun, faultVars
<1>6. QueueTypeOK'
  BY <1>1, <1>3, <1>4, <1>5 DEF QueueTypeOK, Expired
<1>7. SameJobs
  BY <1>1, <1>3, <1>4 DEF SameJobs, InTable
<1>8. DoneOnly(NoJob)
  BY <1>3, <1>4 DEF DoneOnly
<1> QED  BY <1>5, <1>6, <1>7, <1>8

\* A row is inserted, or the statement collides.
LEMMA InsertStep ==
  ASSUME QueueTypeOK, NEW c \in Chunks, NEW r \in Rows, NEW d \in Inputs, Insert(c, r, d)
  PROVE  /\ jobs' \in [JobIds -> JobRows]
         /\ \/ UNCHANGED jobs /\ QueuedFor(c, d) # {}
            \/ \E j \in JobIds :
                 /\ jobs[j].status = "absent" /\ ~InTable(j) /\ InTable(j)'
                 /\ jobs'[j].subject = c /\ jobs'[j].row = r /\ jobs'[j].digest = d
                 /\ jobs'[j].status = "pending"
                 /\ QueuedFor(c, d) = {}
                 /\ \A i \in JobIds : i # j => jobs'[i] = jobs[i]
<1>1. CASE QueuedFor(c, d) # {}
  BY <1>1 DEF Insert, QueueTypeOK, JobRows
<1>2. CASE QueuedFor(c, d) = {}
  <2> DEFINE new == [subject |-> c, row |-> r, digest |-> d,
                     status |-> "pending", attempts |-> 0, lease |-> "none"]
  <2>1. PICK j \in JobIds : jobs[j].status = "absent" /\ jobs' = [jobs EXCEPT ![j] = new]
    BY <1>2 DEF Insert
  <2>2. new \in Job
    BY DEF Job
  <2>3. jobs'[j] = new /\ \A i \in JobIds : i # j => jobs'[i] = jobs[i]
    BY <2>1 DEF QueueTypeOK
  <2>4. jobs' \in [JobIds -> JobRows]
    BY <2>1, <2>2 DEF QueueTypeOK, JobRows
  <2> QED  BY <1>2, <2>1, <2>3, <2>4 DEF InTable
<1> QED  BY <1>1, <1>2

\* The jobs of deleted rows go with them.
LEMMA CascadeStep ==
  ASSUME QueueTypeOK, NEW gone, jobs' = WithoutJobsOf(gone)
  PROVE  /\ jobs' \in [JobIds -> JobRows]
         /\ \A j \in JobIds :
              /\ InTable(j)' <=> InTable(j) /\ jobs[j].row \notin gone
              /\ InTable(j)' => jobs'[j] = jobs[j]
BY DEF QueueTypeOK, JobRows, WithoutJobsOf, InTable, Gone
-----------------------------------------------------------------------------
(* Shape.                                                                  *)

LEMMA InputType ==
  ASSUME GraphTypeOK, NEW c \in Chunks, Stored(c)
  PROVE  InputOf(c) \in Inputs /\ chunks[c] \in ChunkRow
<1>1. chunks[c] \in ChunkRow
  BY DEF GraphTypeOK, Stored, NoChunk
<1>2. chunks[c].text \in Texts
  BY <1>1 DEF ChunkRow
<1> QED  BY <1>1, <1>2 DEF InputOf, Inputs

LEMMA JobFacts ==
  ASSUME GraphTypeOK, NEW j \in JobIds, InTable(j)
  PROVE  /\ jobs[j].subject \in Chunks /\ Stored(jobs[j].subject)
         /\ chunks[jobs[j].subject].row = jobs[j].row /\ jobs[j].row \in Rows
         /\ jobs[j].digest \in Inputs /\ jobs[j].digest.text \in Nat
         /\ chunks[jobs[j].subject].text \in Nat
<1>1. /\ jobs[j].subject \in Chunks /\ chunks[jobs[j].subject].row = jobs[j].row
      /\ jobs[j].row \in Rows /\ jobs[j].digest \in Inputs
  BY JobInTable DEF GraphTypeOK, Job
<1>2. Stored(jobs[j].subject)
  BY <1>1 DEF Stored, Rows
<1>3. chunks[jobs[j].subject] \in ChunkRow
  BY <1>1, <1>2, InputType
<1> QED  BY <1>1, <1>2, <1>3 DEF ChunkRow, Inputs, Texts

\* A worker's job is about the chunk its row is found under.
LEMMA TargetIsSubject ==
  ASSUME ShapeInv, NEW w \in Workers, held[w] # NoJob, NEW c \in Chunks
  PROVE  c \in Target(w) <=> InTable(held[w]) /\ c = SubjectOf(w)
<1>1. held[w] \in JobIds
  BY DEF ShapeInv, GraphTypeOK, QueueTypeOK
<1>2. CASE InTable(held[w])
  <2>1. LET d == jobs[held[w]].subject
        IN  d \in Chunks /\ Stored(d) /\ chunks[d].row = jobs[held[w]].row
    BY <1>1, <1>2, JobFacts DEF ShapeInv
  <2> QED  BY <1>2, <2>1 DEF Target, SubjectOf, ShapeInv, RowsDiffer
<1>3. CASE ~InTable(held[w])
  BY <1>3 DEF Target
<1> QED  BY <1>2, <1>3

\* A fact that exists is a row of facts, the others are no rows.
LEMMA FactRow ==
  ASSUME GraphTypeOK, NEW f \in FactIds
  PROVE  /\ Exists(f) <=> facts[f] \in Fact
         /\ ~Exists(f) <=> facts[f] \in {Unborn, Deleted}
         /\ facts[f] = Unborn => ~Exists(f)
BY DEF GraphTypeOK, Exists, Fact, Unborn, Deleted

\* Between them a chunk's row and its jobs agree when rows stay and jobs stay.
LEMMA RowsKept ==
  ASSUME ShapeInv, SameJobs, \A c \in Chunks : chunks'[c].row = chunks[c].row
  PROVE  /\ \A j \in JobIds : InTable(j)' => chunks'[jobs'[j].subject].row = jobs'[j].row
         /\ \A c \in Chunks : Stored(c)' <=> Stored(c)
<1>1. \A j \in JobIds : InTable(j) => jobs[j].subject \in Chunks
  BY JobInTable DEF ShapeInv, GraphTypeOK, Job
<1> QED  BY <1>1 DEF ShapeInv, GraphTypeOK, SameJobs, Stored

\* Where the ingester is after each of its steps.
LEMMA IngestType ==
  ASSUME ingest \in [Ingesters -> Ingesting], NEW i \in Ingesters, NEW c \in Chunks
  PROVE  /\ [ingest EXCEPT ![i] = [step |-> "idle"]] \in [Ingesters -> Ingesting]
         /\ [ingest EXCEPT ![i] = [step |-> "persisted", chunk |-> c]] \in [Ingesters -> Ingesting]
         /\ ingest[i].step = "persisted" =>
              /\ ingest[i].chunk \in Chunks
              /\ ingest[i] = [step |-> "persisted", chunk |-> ingest[i].chunk]
              /\ [ingest[i] EXCEPT !.step = "retry"] = [step |-> "retry", chunk |-> ingest[i].chunk]
              /\ [ingest EXCEPT ![i].step = "retry"] \in [Ingesters -> Ingesting]
<1>1. [step |-> "idle"] \in Ingesting /\ [step |-> "persisted", chunk |-> c] \in Ingesting
  BY DEF Ingesting
<1>2. ASSUME ingest[i].step = "persisted"
      PROVE  /\ ingest[i].chunk \in Chunks
             /\ ingest[i] = [step |-> "persisted", chunk |-> ingest[i].chunk]
             /\ [ingest[i] EXCEPT !.step = "retry"] = [step |-> "retry", chunk |-> ingest[i].chunk]
  <2>1. ingest[i] \in [step : {"persisted", "retry"}, chunk : Chunks]
    BY <1>2 DEF Ingesting
  <2> QED  BY <1>2, <2>1
<1>3. ASSUME ingest[i].step = "persisted"
      PROVE  [ingest EXCEPT ![i].step = "retry"] \in [Ingesters -> Ingesting]
  <2>1. [ingest[i] EXCEPT !.step = "retry"] \in Ingesting
    BY <1>2, <1>3 DEF Ingesting
  <2> QED  BY <2>1
<1> QED  BY <1>1, <1>2, <1>3

\* What a commit for chunk c writes to facts: the facts of the chunk's row go,
\* n is the new one (or NoFact), link the one it supersedes (or NoFact).
FactsChange(w, n, link) ==
  LET c == SubjectOf(w)
      gone == EvidencedBy(chunks[c].row)
      said == SaidTo(w)
  IN  /\ facts' \in [FactIds -> Fact \cup {Unborn, Deleted}]
      /\ \A f \in gone : f # n /\ facts'[f] = Deleted
      /\ \A f \in FactIds \ gone : f # n /\ ~Exists(f) => facts'[f] = facts[f]
      /\ \A f \in FactIds \ gone : Exists(f) =>
           /\ f # n /\ facts'[f] \in Fact
           /\ facts'[f].key = facts[f].key /\ facts'[f].cue = facts[f].cue
           /\ facts'[f].by = facts[f].by /\ facts'[f].row = facts[f].row
           /\ facts'[f].text = facts[f].text
           /\ facts'[f].status = IF f = link THEN "superseded" ELSE facts[f].status
           /\ facts'[f].supersedes =
                IF facts[f].supersedes \in gone THEN NoFact ELSE facts[f].supersedes
      /\ n # NoFact =>
           /\ n \in NextFact /\ said \in Statement
           /\ facts'[n] \in Fact /\ facts'[n].by = c /\ facts'[n].row = chunks[c].row
           /\ facts'[n].text = work[w].input.text /\ facts'[n].status = "active"
           /\ facts'[n].key = said.key /\ facts'[n].cue = said.cue
           /\ facts'[n].supersedes = link
      /\ link # NoFact =>
           /\ link \in FactIds \ gone /\ Exists(link) /\ n # NoFact
           /\ work[w].step = "writing" /\ link = work[w].prior

\* A fact that stays, superseded if it is link, its link to a deleted one cut.
KeptRow(f, link, gone) ==
  Unlink(IF f = link THEN [facts[f] EXCEPT !.status = "superseded"] ELSE facts[f], gone)

LEMMA KeptFact ==
  ASSUME GraphTypeOK, NEW f \in FactIds, Exists(f), NEW link, NEW gone
  PROVE  /\ KeptRow(f, link, gone) \in Fact
         /\ KeptRow(f, link, gone).key = facts[f].key
         /\ KeptRow(f, link, gone).cue = facts[f].cue
         /\ KeptRow(f, link, gone).by = facts[f].by
         /\ KeptRow(f, link, gone).row = facts[f].row
         /\ KeptRow(f, link, gone).text = facts[f].text
         /\ KeptRow(f, link, gone).status = IF f = link THEN "superseded" ELSE facts[f].status
         /\ KeptRow(f, link, gone).supersedes =
              IF facts[f].supersedes \in gone THEN NoFact ELSE facts[f].supersedes
<1> DEFINE row == facts[f]
           mid == IF f = link THEN [row EXCEPT !.status = "superseded"] ELSE row
<1>0. row \in Fact
  BY FactRow
<1> HIDE DEF row
<1>1. /\ mid \in Fact
      /\ mid.key = row.key /\ mid.cue = row.cue /\ mid.by = row.by
      /\ mid.row = row.row /\ mid.text = row.text
      /\ mid.status = IF f = link THEN "superseded" ELSE row.status
      /\ mid.supersedes = row.supersedes
  BY <1>0 DEF Fact
<1> HIDE DEF mid
<1> DEFINE new == IF mid.supersedes \in gone THEN [mid EXCEPT !.supersedes = NoFact] ELSE mid
<1>2. /\ new \in Fact
      /\ new.key = mid.key /\ new.cue = mid.cue /\ new.by = mid.by
      /\ new.row = mid.row /\ new.text = mid.text /\ new.status = mid.status
      /\ new.supersedes = IF mid.supersedes \in gone THEN NoFact ELSE mid.supersedes
  BY <1>1 DEF Fact
<1>3. new = KeptRow(f, link, gone)
  BY DEF KeptRow, Unlink, mid, row
<1> HIDE DEF new
<1> QED  BY <1>1, <1>2, <1>3 DEF row

LEMMA NoFactCommitted ==
  ASSUME GraphTypeOK, NEW w \in Workers, NEW c \in Chunks, c = SubjectOf(w),
         facts' = [f \in FactIds |->
            IF f \in EvidencedBy(chunks[c].row) THEN Deleted
            ELSE IF Exists(f) THEN Unlink(facts[f], EvidencedBy(chunks[c].row)) ELSE facts[f]]
  PROVE  FactsChange(w, NoFact, NoFact)
<1> DEFINE gone == EvidencedBy(chunks[c].row)
<1>1. gone \subseteq FactIds /\ NoFact \notin FactIds
  BY DEF EvidencedBy, FactIds, NoFact
<1> HIDE DEF gone
<1>2. \A f \in gone : facts'[f] = Deleted
  BY <1>1 DEF gone
<1>3. \A f \in FactIds \ gone : ~Exists(f) => facts'[f] = facts[f]
  BY DEF gone
<1>4. ASSUME NEW f \in FactIds \ gone, Exists(f)
      PROVE  /\ facts'[f] \in Fact
             /\ facts'[f].key = facts[f].key /\ facts'[f].cue = facts[f].cue
             /\ facts'[f].by = facts[f].by /\ facts'[f].row = facts[f].row
             /\ facts'[f].text = facts[f].text /\ facts'[f].status = facts[f].status
             /\ facts'[f].supersedes =
                  IF facts[f].supersedes \in gone THEN NoFact ELSE facts[f].supersedes
  <2>1. f # NoFact
    BY <1>1
  <2>2. facts'[f] = KeptRow(f, NoFact, gone)
    BY <1>4, <2>1 DEF gone, KeptRow
  <2> QED  BY <1>4, <2>1, <2>2, KeptFact
<1>5. facts' \in [FactIds -> Fact \cup {Unborn, Deleted}]
  <2>1. \A f \in FactIds : facts'[f] \in Fact \cup {Unborn, Deleted}
    BY <1>2, <1>3, <1>4 DEF GraphTypeOK
  <2> QED  BY <2>1
<1> QED  BY <1>1, <1>2, <1>3, <1>4, <1>5 DEF FactsChange, gone

LEMMA FactCommitted ==
  ASSUME GraphTypeOK, NEW w \in Workers, NEW c \in Chunks, c = SubjectOf(w), Stored(c),
         NEW prior \in FactIds \cup {NoFact},
         prior # NoFact => work[w].step = "writing" /\ prior = work[w].prior,
         work[w].input \in Inputs, SaidTo(w) # Silent,
         NEW n \in NextFact,
         facts' = FactsAfter(c, n, SaidTo(w), prior, work[w].input.text)
  PROVE  \E link \in FactIds \cup {NoFact} : FactsChange(w, n, link)
<1> DEFINE gone == EvidencedBy(chunks[c].row)
           said == SaidTo(w)
           link == IF prior # NoFact /\ Exists(prior) /\ prior \notin gone THEN prior ELSE NoFact
           new == [key |-> said.key, cue |-> said.cue, status |-> "active",
                   supersedes |-> link, by |-> c, row |-> chunks[c].row, text |-> work[w].input.text]
<1>1. gone \subseteq FactIds /\ NoFact \notin FactIds /\ n \in FactIds /\ ~Exists(n) /\ n \notin gone
      /\ n # NoFact /\ facts[n] = Unborn
  BY FactRow DEF EvidencedBy, Evident, FactIds, NoFact, NextFact
<1>2. said \in Statement /\ work[w].input.text \in Texts
  <2>1. work[w].input.text \in Texts
    BY DEF Inputs
  <2> QED  BY <2>1, GraphAssumption DEF Texts, SaidTo
<1>3. /\ link \in FactIds \cup {NoFact}
      /\ link # NoFact => /\ link \in FactIds \ gone /\ Exists(link)
                          /\ work[w].step = "writing" /\ link = work[w].prior
  OBVIOUS
<1>4. /\ facts'[n] = new
      /\ \A f \in gone : facts'[f] = Deleted
      /\ \A f \in FactIds \ gone : f # n /\ ~Exists(f) => facts'[f] = facts[f]
      /\ \A f \in FactIds \ gone : Exists(f) => facts'[f] =
           Unlink(IF f = link THEN [facts[f] EXCEPT !.status = "superseded"] ELSE facts[f], gone)
      /\ facts' = [f \in FactIds |-> facts'[f]]
  BY <1>1 DEF FactsAfter
<1>5. /\ new \in Fact /\ new.by = c /\ new.row = chunks[c].row
      /\ new.text = work[w].input.text /\ new.status = "active"
      /\ new.key = said.key /\ new.cue = said.cue /\ new.supersedes = link
  <2>1. chunks[c].row \in Rows
    BY InputType DEF ChunkRow
  <2>2. said.key \in Keys /\ said.cue \in BOOLEAN
    BY <1>2 DEF Statement
  <2> HIDE DEF said, link
  <2> QED  BY <1>2, <1>3, <2>1, <2>2 DEF Fact
<1> HIDE DEF gone, said, link, new
<1>6. ASSUME NEW f \in FactIds \ gone, Exists(f)
      PROVE  /\ facts'[f] \in Fact
             /\ facts'[f].key = facts[f].key /\ facts'[f].cue = facts[f].cue
             /\ facts'[f].by = facts[f].by /\ facts'[f].row = facts[f].row
             /\ facts'[f].text = facts[f].text
             /\ facts'[f].status = IF f = link THEN "superseded" ELSE facts[f].status
             /\ facts'[f].supersedes =
                  IF facts[f].supersedes \in gone THEN NoFact ELSE facts[f].supersedes
  <2>1. facts'[f] = KeptRow(f, link, gone)
    BY <1>4, <1>6 DEF KeptRow
  <2> QED  BY <1>6, <2>1, KeptFact
<1>7. facts' \in [FactIds -> Fact \cup {Unborn, Deleted}]
  <2>1. \A f \in FactIds : facts'[f] \in Fact \cup {Unborn, Deleted}
    <3>1. \A f \in FactIds : facts[f] \in Fact \cup {Unborn, Deleted}
      BY DEF GraphTypeOK
    <3>2. facts'[n] \in Fact /\ \A f \in gone : facts'[f] = Deleted
      BY <1>4, <1>5
    <3>3. ASSUME NEW f \in FactIds \ gone, f # n, ~Exists(f) PROVE facts'[f] = facts[f]
      BY <1>4, <3>3
    <3> QED  BY <1>6, <3>1, <3>2, <3>3
  <2> QED  BY <1>4, <2>1
<1>8. FactsChange(w, n, link)
  <2>1. gone = EvidencedBy(chunks[c].row) /\ said = SaidTo(w)
    BY DEF gone, said
  <2>2. /\ \A f \in gone : f # n /\ facts'[f] = Deleted
        /\ \A f \in FactIds \ gone : Exists(f) => f # n
    BY <1>1, <1>4
  <2>3. /\ facts'[n] \in Fact /\ facts'[n].by = c /\ facts'[n].row = chunks[c].row
        /\ facts'[n].text = work[w].input.text /\ facts'[n].status = "active"
        /\ facts'[n].key = said.key /\ facts'[n].cue = said.cue
        /\ facts'[n].supersedes = link
    BY <1>4, <1>5
  <2> QED  BY <1>1, <1>2, <1>3, <1>4, <1>6, <1>7, <2>1, <2>2, <2>3 DEF FactsChange
<1> QED  BY <1>3, <1>8

Commits(w) == CommitPlain(w) \/ CommitSuperseding(w) \/ CommitNoFact(w)

\* What else a commit of w does, for the chunk its job is about.
Recorded(w) ==
  LET c == SubjectOf(w)
  IN  /\ held[w] \in JobIds /\ InTable(held[w]) /\ RetireJob(w)
      /\ work[w].step \in {"loaded", "writing"} /\ work[w].input \in Inputs
      /\ work[w].step = "loaded" => InputOf(c) = jobs[held[w]].digest
      /\ c \in Chunks /\ Stored(c)
      /\ edges' = [edges EXCEPT ![c] = work[w].input]
      /\ chunks' \in [Chunks -> ChunkRow \cup {NoChunk}]
      /\ chunks'[c].row = chunks[c].row /\ chunks'[c].text = chunks[c].text
      /\ chunks'[c].hash = jobs[held[w]].digest
      /\ \A d \in Chunks : d # c => chunks'[d] = chunks[d]
      /\ Forget(w) /\ UNCHANGED <<lastRow, ingest>>

LEMMA WorkType ==
  ASSUME ShapeInv, NEW w \in Workers
  PROVE  /\ work[w] \in Working
         /\ work[w] # Idle <=> work[w].step \in {"loaded", "writing"}
         /\ work[w] # Idle => work[w].input \in Inputs /\ held[w] \in JobIds
         /\ work[w].step = "writing" => work[w].prior \in FactIds \cup {NoFact}
<1>1. work[w] \in Working /\ (work[w] # Idle => held[w] # NoJob)
      /\ held[w] \in JobIds \cup {NoJob}
  BY DEF ShapeInv, WorkIsHeld, GraphTypeOK, QueueTypeOK
<1> QED  BY <1>1 DEF Working, Idle

LEMMA RecordStep ==
  ASSUME ShapeInv, NEW w \in Workers, NEW c \in Target(w), Record(w, c),
         work[w].step \in {"loaded", "writing"},
         work[w].step = "loaded" => Fresh(w, c)
  PROVE  Recorded(w) /\ c = SubjectOf(w)
<1>0. GraphTypeOK /\ c \in Chunks /\ Stored(c) /\ RetireJob(w) /\ held[w] # NoJob
  BY DEF ShapeInv, Target, Record, RetireJob
<1>1. InTable(held[w]) /\ c = SubjectOf(w) /\ held[w] \in JobIds
  BY <1>0, TargetIsSubject DEF GraphTypeOK, QueueTypeOK
<1>2. work[w].input \in Inputs
  BY WorkType
<1>3. jobs[held[w]].digest \in Inputs /\ chunks[c] \in ChunkRow
  BY <1>0, <1>1, JobFacts, InputType
<1> DEFINE new == [chunks[c] EXCEPT !.hash = jobs[held[w]].digest]
<1>4. /\ new \in ChunkRow
      /\ new.row = chunks[c].row /\ new.text = chunks[c].text /\ new.hash = jobs[held[w]].digest
  BY <1>3 DEF ChunkRow
<1>5. chunks' = [chunks EXCEPT ![c] = new]
  BY DEF Record
<1> HIDE DEF new
<1>6. /\ chunks' \in [Chunks -> ChunkRow \cup {NoChunk}]
      /\ chunks'[c] = new
      /\ \A d \in Chunks : d # c => chunks'[d] = chunks[d]
  BY <1>0, <1>4, <1>5 DEF GraphTypeOK
<1> QED  BY <1>0, <1>1, <1>2, <1>4, <1>6 DEF Recorded, Record, Fresh

LEMMA CommitStep ==
  ASSUME ShapeInv, NEW w \in Workers, Commits(w)
  PROVE  /\ Recorded(w)
         /\ \E n, link \in FactIds \cup {NoFact} : FactsChange(w, n, link)
<1>0. GraphTypeOK
  BY DEF ShapeInv
<1>1. CASE CommitPlain(w)
  <2>1. PICK c \in Target(w) :
          /\ Fresh(w, c) /\ Says[c][work[w].input.text] # Silent
          /\ CommitFact(w, c, NoFact)
    BY <1>1 DEF CommitPlain
  <2>2. Recorded(w) /\ c = SubjectOf(w)
    BY <1>1, <2>1, RecordStep DEF CommitPlain, CommitFact
  <2>3. PICK n \in NextFact :
          facts' = FactsAfter(c, n, SaidTo(w), NoFact, work[w].input.text)
    BY <2>1, <2>2 DEF CommitFact, SaidTo
  <2>4. c \in Chunks /\ Stored(c) /\ work[w].input \in Inputs /\ n \in FactIds
    BY <2>2 DEF Recorded, NextFact
  <2>5. \E link \in FactIds \cup {NoFact} : FactsChange(w, n, link)
    <3>1. SaidTo(w) # Silent
      BY <2>1, <2>2 DEF SaidTo
    <3>2. NoFact \in FactIds \cup {NoFact} /\ c = SubjectOf(w) /\ c \in Chunks
      BY <2>2, <2>4
    <3> QED  BY <1>0, <2>3, <2>4, <3>1, <3>2, FactCommitted
  <2> QED  BY <2>2, <2>4, <2>5
<1>2. CASE CommitSuperseding(w)
  <2>1. PICK c \in Target(w) : CommitFact(w, c, work[w].prior)
    BY <1>2 DEF CommitSuperseding
  <2>2. Recorded(w) /\ c = SubjectOf(w)
    BY <1>2, <2>1, RecordStep DEF CommitSuperseding, CommitFact
  <2>3. PICK n \in NextFact :
          facts' = FactsAfter(c, n, SaidTo(w), work[w].prior, work[w].input.text)
    BY <2>1, <2>2 DEF CommitFact, SaidTo
  <2>4. c \in Chunks /\ Stored(c) /\ work[w].input \in Inputs /\ n \in FactIds
    BY <2>2 DEF Recorded, NextFact
  <2>5. work[w].prior \in FactIds \cup {NoFact}
    BY <1>2, WorkType DEF CommitSuperseding
  <2>6. SaidTo(w) # Silent
    BY <1>2, <2>2 DEF CommitSuperseding, Recorded, ShapeInv, WritersHaveCue
  <2>7. \E link \in FactIds \cup {NoFact} : FactsChange(w, n, link)
    <3>1. work[w].step = "writing" /\ c = SubjectOf(w) /\ c \in Chunks
      BY <1>2, <2>2, <2>4 DEF CommitSuperseding
    <3> QED  BY <1>0, <2>3, <2>4, <2>5, <2>6, <3>1, FactCommitted
  <2> QED  BY <2>2, <2>4, <2>7
<1>3. CASE CommitNoFact(w)
  <2>1. PICK c \in Target(w) :
          /\ Fresh(w, c)
          /\ facts' = [f \in FactIds |->
               IF f \in EvidencedBy(chunks[c].row) THEN Deleted
               ELSE IF Exists(f) THEN Unlink(facts[f], EvidencedBy(chunks[c].row)) ELSE facts[f]]
          /\ Record(w, c)
    BY <1>3 DEF CommitNoFact
  <2>2. Recorded(w) /\ c = SubjectOf(w)
    BY <1>3, <2>1, RecordStep DEF CommitNoFact
  <2>3. FactsChange(w, NoFact, NoFact)
    BY <1>0, <2>1, <2>2, NoFactCommitted DEF Recorded
  <2> QED  BY <2>2, <2>3
<1> QED  BY <1>1, <1>2, <1>3 DEF Commits

\* Evidence and links of the facts in GraphTypeOK.
EvidenceIsStored == \A f \in FactIds : Evident(f) => chunks[facts[f].by].row = facts[f].row
LinksExist ==
  \A f \in FactIds : Exists(f) /\ facts[f].supersedes # NoFact => Exists(facts[f].supersedes)

\* The facts before a commit that are there after it.
LEMMA FactsAfterCommit ==
  ASSUME ShapeInv, NEW w \in Workers, Recorded(w),
         NEW n \in FactIds \cup {NoFact}, NEW link \in FactIds \cup {NoFact}, FactsChange(w, n, link)
  PROVE  /\ n # NoFact => n \in FactIds /\ facts[n] = Unborn /\ ~Exists(n) /\ Exists(n)'
         /\ \A f \in FactIds : f # n => (Exists(f)' => Exists(f))
         /\ \A f \in FactIds : f # n /\ Exists(f)' =>
              /\ f \notin EvidencedBy(chunks[SubjectOf(w)].row)
              /\ facts'[f].key = facts[f].key /\ facts'[f].cue = facts[f].cue
              /\ facts'[f].by = facts[f].by /\ facts'[f].row = facts[f].row
              /\ facts'[f].text = facts[f].text
         /\ \A f \in FactIds : Exists(f) /\ f \notin EvidencedBy(chunks[SubjectOf(w)].row) =>
              f # n /\ Exists(f)'
         /\ \A f \in FactIds : facts[f] # Unborn => facts'[f] # Unborn
         /\ \A f \in FactIds : f # n /\ facts[f] = Unborn => facts'[f] = Unborn
<1> DEFINE gone == EvidencedBy(chunks[SubjectOf(w)].row)
<1>0. GraphTypeOK
  BY DEF ShapeInv
<1>1. ASSUME NEW row \in Fact
      PROVE  row.status \in {"active", "superseded"} /\ row # Unborn
  BY DEF Fact, Unborn
<1>2. \A f \in gone : f # n /\ facts'[f] = Deleted
  BY DEF FactsChange
<1>3. \A f \in FactIds \ gone : f # n /\ ~Exists(f) => facts'[f] = facts[f]
  BY DEF FactsChange
<1>4. \A f \in FactIds \ gone : Exists(f) =>
           /\ f # n /\ facts'[f] \in Fact
           /\ facts'[f].key = facts[f].key /\ facts'[f].cue = facts[f].cue
           /\ facts'[f].by = facts[f].by /\ facts'[f].row = facts[f].row
           /\ facts'[f].text = facts[f].text
  BY DEF FactsChange
<1>5. n # NoFact => n \in FactIds /\ facts[n] = Unborn /\ facts'[n] \in Fact
  BY DEF FactsChange, NextFact
<1>6. \A f \in gone : Exists(f)
  BY DEF EvidencedBy, Evident
<1> HIDE DEF gone
<1>7. ASSUME NEW f \in FactIds
      PROVE  /\ f \in gone => ~Exists(f)' /\ facts'[f] # Unborn
             /\ facts'[f] = facts[f] => (Exists(f)' <=> Exists(f))
             /\ facts'[f] \in Fact => Exists(f)' /\ facts'[f] # Unborn
             /\ facts[f] = Unborn => ~Exists(f)
  BY <1>1, <1>2 DEF Exists, Deleted, Unborn
<1>8. n # NoFact => n \in FactIds /\ facts[n] = Unborn /\ ~Exists(n) /\ Exists(n)'
  BY <1>5, <1>7
<1>9. \A f \in FactIds : f # n => (Exists(f)' => Exists(f))
  BY <1>3, <1>6, <1>7
<1>10. \A f \in FactIds : f # n /\ Exists(f)' =>
         /\ f \notin gone
         /\ facts'[f].key = facts[f].key /\ facts'[f].cue = facts[f].cue
         /\ facts'[f].by = facts[f].by /\ facts'[f].row = facts[f].row
         /\ facts'[f].text = facts[f].text
  BY <1>4, <1>7, <1>9
<1>11. \A f \in FactIds : Exists(f) /\ f \notin gone => f # n /\ Exists(f)'
  BY <1>4, <1>7
<1>12. ASSUME NEW f \in FactIds
       PROVE  /\ facts[f] # Unborn => facts'[f] # Unborn
              /\ f # n /\ facts[f] = Unborn => facts'[f] = Unborn
  <2>1. CASE f = n
    BY <1>5, <1>7, <2>1 DEF FactIds, NoFact
  <2>2. CASE f # n /\ f \in gone
    BY <1>6, <1>7, <2>2
  <2>3. CASE f # n /\ f \notin gone /\ ~Exists(f)
    BY <1>3, <2>3
  <2>4. CASE f # n /\ f \notin gone /\ Exists(f)
    BY <1>4, <1>7, <2>4
  <2> QED  BY <2>1, <2>2, <2>3, <2>4
<1> QED  BY <1>8, <1>9, <1>10, <1>11, <1>12 DEF gone

LEMMA CommitFactsShape ==
  ASSUME ShapeInv, NEW w \in Workers, Recorded(w),
         NEW n \in FactIds \cup {NoFact}, NEW link \in FactIds \cup {NoFact}, FactsChange(w, n, link)
  PROVE  /\ facts' \in [FactIds -> Fact \cup {Unborn, Deleted}]
         /\ EvidenceIsStored' /\ LinksExist' /\ BornInOrder'
<1> DEFINE c == SubjectOf(w)
           gone == EvidencedBy(chunks[c].row)
<1>0. GraphTypeOK /\ EvidenceIsStored /\ LinksExist /\ BornInOrder /\ c \in Chunks
      /\ \A d \in Chunks : chunks'[d].row = chunks[d].row
  BY DEF ShapeInv, GraphTypeOK, EvidenceIsStored, LinksExist, Recorded
<1>1. facts' \in [FactIds -> Fact \cup {Unborn, Deleted}]
  BY DEF FactsChange
<1>2. EvidenceIsStored'
  <2>1. SUFFICES ASSUME NEW f \in FactIds, Evident(f)'
                 PROVE  chunks'[facts'[f].by].row = facts'[f].row
    BY DEF EvidenceIsStored
  <2>2. CASE f = n
    BY <1>0, <2>2 DEF FactsChange, FactIds, NoFact
  <2>3. CASE f # n
    <3>1. /\ Exists(f) /\ facts'[f].by = facts[f].by /\ facts'[f].row = facts[f].row
      BY <2>1, <2>3, FactsAfterCommit DEF Evident
    <3>2. facts[f].by \in Chunks
      BY <1>0, <3>1, FactRow DEF Fact
    <3> QED  BY <1>0, <2>1, <3>1, <3>2 DEF EvidenceIsStored, Evident
  <2> QED  BY <2>2, <2>3
<1>3. LinksExist'
  <2>1. SUFFICES ASSUME NEW f \in FactIds, Exists(f)', facts'[f].supersedes # NoFact
                 PROVE  Exists(facts[f].supersedes)'
    BY DEF LinksExist
  <2>2. ASSUME NEW p \in FactIds, Exists(p), p \notin gone PROVE Exists(p)'
    BY <2>2, FactsAfterCommit
  <2>3. CASE f = n
    <3>1. facts'[f].supersedes = link /\ link \in FactIds \ gone /\ Exists(link)
      BY <2>1, <2>3 DEF FactsChange, FactIds, NoFact
    <3>2. Exists(link)'
      BY <2>2, <3>1
    <3> QED  BY <3>1, <3>2 DEF Exists
  <2>4. CASE f # n
    <3>1. Exists(f) /\ f \notin gone
      BY <2>1, <2>4, FactsAfterCommit
    <3>2. facts[f].supersedes \notin gone /\ facts'[f].supersedes = facts[f].supersedes
      BY <2>1, <2>4, <3>1 DEF FactsChange
    <3>3. facts[f].supersedes \in FactIds \cup {NoFact}
      BY <1>0, <3>1, FactRow DEF Fact
    <3>4. Exists(facts[f].supersedes) /\ facts[f].supersedes \in FactIds
      BY <1>0, <2>1, <3>1, <3>2, <3>3 DEF LinksExist
    <3>5. \A p \in FactIds : p = facts[f].supersedes => Exists(p)'
      BY <2>2, <3>2, <3>4
    <3> QED  BY <3>2, <3>4, <3>5 DEF Exists
  <2> QED  BY <2>3, <2>4
<1>4. BornInOrder'
  <2>1. SUFFICES ASSUME NEW f \in FactIds, NEW g \in FactIds, f < g, facts'[g] # Unborn
                 PROVE  facts'[f] # Unborn
    BY DEF BornInOrder
  <2>2. CASE g = n
    <3>1. g \in NextFact
      BY <2>2 DEF FactsChange, FactIds, NoFact
    <3>2. f \in 1 .. (g - 1)
      BY <2>1 DEF FactIds
    <3> QED  BY <3>1, <3>2, FactsAfterCommit DEF NextFact
  <2>3. CASE g # n
    <3>1. facts[g] # Unborn
      BY <2>1, <2>3, FactsAfterCommit
    <3> QED  BY <1>0, <2>1, <3>1, FactsAfterCommit DEF BornInOrder
  <2> QED  BY <2>2, <2>3
<1> QED  BY <1>1, <1>2, <1>3, <1>4

WorkerStep(w) == Claim(w) \/ Load(w) \/ Answer(w) \/ WorkerDies(w)

\* What a worker's step does to the queue, and what it leaves alone.
LEMMA WorkerQueue ==
  ASSUME ShapeInv, NEW w \in Workers, WorkerStep(w)
  PROVE  /\ QueueTypeOK' /\ SameJobs /\ DoneOnly(held[w])
         /\ ~RetireJob(w) => DoneOnly(NoJob)
         /\ UNCHANGED <<ingest, lastRow>>
         /\ \A v \in Workers : v # w => held'[v] = held[v] /\ work'[v] = work[v]
         /\ held'[w] = held[w] \/ work'[w] = Idle
         /\ Load(w) \/ ChoosePrior(w) \/ work'[w] = Idle
         /\ Load(w) \/ ChoosePrior(w) => held' = held /\ jobs' = jobs
         /\ Commits(w) \/ UNCHANGED <<chunks, edges, facts>>
<1>0. /\ QueueTypeOK /\ held \in [Workers -> JobIds \cup {NoJob}]
      /\ work \in [Workers -> Working] /\ WorkIsHeld
  BY DEF ShapeInv, GraphTypeOK, QueueTypeOK
<1>1. CASE Load(w) \/ ChoosePrior(w)
  <2>1. UNCHANGED <<jobs, held, crashes, overruns, ingest, chunks, lastRow, edges, facts>>
        /\ \A v \in Workers : v # w => work'[v] = work[v]
    BY <1>0, <1>1 DEF Load, ChoosePrior, chunkVars, graphVars
  <2> QED  BY <1>0, <1>1, <2>1 DEF QueueTypeOK, SameJobs, DoneOnly, InTable
<1>2. CASE Claim(w)
  <2>1. QueueTypeOK' /\ SameJobs /\ DoneOnly(held[w]) /\ (~RetireJob(w) => DoneOnly(NoJob))
    BY <1>0, <1>2, QueueStep, GraphAssumption DEF Claim
  <2>2. work' = work /\ held[w] = NoJob
        /\ \A v \in Workers : v # w => held'[v] = held[v]
    BY <1>0, <1>2 DEF Claim, ClaimJob
  <2>3. UNCHANGED <<ingest, chunks, lastRow, edges, facts>>
    BY <1>2 DEF Claim, chunkVars, graphVars
  <2>4. ~Load(w) /\ ~ChoosePrior(w) /\ work[w] = Idle
    BY <1>0, <2>2 DEF Load, ChoosePrior, WorkIsHeld, Idle
  <2> QED  BY <1>0, <2>1, <2>2, <2>3, <2>4
<1>3. CASE LoadFails(w) \/ ProviderFails(w) \/ DropResult(w) \/ Commits(w) \/ WorkerDies(w)
  <2>1. FailJob(w, 0) \/ FailJob(w, MaxAttempts) \/ RetireJob(w) \/ Crash(w)
    BY <1>3 DEF LoadFails, ProviderFails, DropResult, Commits, CommitPlain, CommitSuperseding,
                CommitNoFact, CommitFact, Record, WorkerDies
  <2>2. QueueTypeOK' /\ SameJobs /\ DoneOnly(held[w]) /\ (~RetireJob(w) => DoneOnly(NoJob))
    BY <1>0, <2>1, QueueStep, GraphAssumption
  <2>3. (work' = work /\ work[w] = Idle) \/ Forget(w)
    BY <1>3 DEF LoadFails, ProviderFails, DropResult, Commits, CommitPlain, CommitSuperseding,
                CommitNoFact, CommitFact, Record, WorkerDies
  <2>4. work'[w] = Idle /\ \A v \in Workers : v # w => work'[v] = work[v]
    BY <1>0, <2>3 DEF Forget
  <2>5. \A v \in Workers : v # w => held'[v] = held[v]
    BY <1>0, <2>1 DEF FailJob, RetireJob, Crash, LetGo
  <2>6. UNCHANGED <<ingest, lastRow>> /\ (Commits(w) \/ UNCHANGED <<chunks, edges, facts>>)
    BY <1>3 DEF LoadFails, ProviderFails, DropResult, Commits, CommitPlain, CommitSuperseding,
                CommitNoFact, CommitFact, Record, WorkerDies, chunkVars, graphVars
  <2>7. ~Load(w) /\ ~ChoosePrior(w)
    <3>1. held'[w] = NoJob /\ held[w] # NoJob
      BY <1>0, <2>1 DEF FailJob, RetireJob, Crash, LetGo
    <3> QED  BY <3>1 DEF Load, ChoosePrior
  <2> QED  BY <2>2, <2>4, <2>5, <2>6, <2>7
<1> QED  BY <1>1, <1>2, <1>3 DEF WorkerStep, Answer, Commits

\* Steps that leave workers and what they hold alone, and change no row of the
\* job table that was ever handed out but to drop it.
HoldersStay ==
  /\ held' = held /\ work' = work
  /\ \A j \in JobIds : jobs[j].status # "absent" =>
       /\ jobs'[j].status # "absent"
       /\ InTable(j)' => /\ InTable(j) /\ jobs'[j].subject = jobs[j].subject
                         /\ jobs'[j].digest = jobs[j].digest

LEMMA HoldersKept ==
  ASSUME ShapeInv, HoldersStay
  PROVE  WorkIsHeld' /\ HeldIsUsed' /\ WritersHaveCue'
<1>1. \A w \in Workers : held[w] \in JobIds \cup {NoJob} /\ (work[w].step = "writing" => held[w] \in JobIds)
  BY WorkType DEF ShapeInv, GraphTypeOK, QueueTypeOK
<1>2. WorkIsHeld' /\ HeldIsUsed'
  BY <1>1 DEF ShapeInv, WorkIsHeld, HeldIsUsed, HoldersStay
<1>3. WritersHaveCue'
  <2>1. SUFFICES ASSUME NEW w \in Workers, work[w].step = "writing", InTable(held[w])'
                 PROVE  (SaidTo(w) # Silent /\ SaidTo(w).cue)'
    BY DEF WritersHaveCue, HoldersStay
  <2>2. held[w] \in JobIds /\ held[w] # NoJob
    BY <1>1, <2>1 DEF JobIds, NoJob
  <2>3. InTable(held[w])' <=> jobs'[held[w]].status \notin {"absent", "gone"}
    BY DEF InTable, HoldersStay
  <2>4. InTable(held[w]) /\ jobs'[held[w]].subject = jobs[held[w]].subject
    BY <2>1, <2>2, <2>3 DEF ShapeInv, HeldIsUsed, HoldersStay, InTable
  <2>5. SaidTo(w)' = SaidTo(w)
    BY <2>4 DEF SaidTo, SubjectOf, HoldersStay
  <2> QED  BY <2>1, <2>4, <2>5 DEF ShapeInv, WritersHaveCue
<1> QED  BY <1>2, <1>3

JobsNameRows == \A j \in JobIds : InTable(j) => chunks[jobs[j].subject].row = jobs[j].row

\* What storing chunk c does to its row.
LEMMA PersistRow ==
  ASSUME ShapeInv, NEW i \in Ingesters, NEW c \in Chunks, Persist(i, c)
  PROVE  /\ chunks' \in [Chunks -> ChunkRow \cup {NoChunk}]
         /\ chunks'[c] \in ChunkRow /\ \A d \in Chunks : d # c => chunks'[d] = chunks[d]
         /\ lastRow' \in 0 .. MaxRow /\ lastRow <= lastRow'
         /\ Stored(c) => /\ chunks'[c].row = chunks[c].row /\ chunks'[c].hash = chunks[c].hash
                         /\ chunks[c].text <= chunks'[c].text /\ lastRow' = lastRow
         /\ ~Stored(c) => chunks'[c].row = lastRow' /\ lastRow < lastRow' /\ chunks'[c].hash = Nothing
         /\ ~Locked(c)
<1>0. /\ chunks \in [Chunks -> ChunkRow \cup {NoChunk}] /\ lastRow \in 0 .. MaxRow
      /\ MaxRow \in Nat /\ ~Locked(c)
  BY GraphAssumption DEF ShapeInv, GraphTypeOK, Persist
<1>1. PICK t \in 1 .. Versions[c] :
       IF Stored(c)
         THEN /\ t >= chunks[c].text
              /\ chunks' = [chunks EXCEPT ![c] = [@ EXCEPT !.text = t]]
              /\ UNCHANGED lastRow
         ELSE /\ lastRow < MaxRow
              /\ lastRow' = lastRow + 1
              /\ chunks' = [chunks EXCEPT ![c] = [row |-> lastRow', text |-> t, hash |-> Nothing]]
  BY DEF Persist
<1>2. t \in Texts
  <2>1. Versions[c] \in 1 .. MaxText /\ MaxText \in Nat
    BY GraphAssumption
  <2> QED  BY <2>1 DEF Texts
<1>3. CASE Stored(c)
  <2> DEFINE new == [chunks[c] EXCEPT !.text = t]
  <2>1. chunks[c] \in ChunkRow
    BY <1>3, InputType DEF ShapeInv
  <2>2. /\ new \in ChunkRow /\ new.row = chunks[c].row /\ new.hash = chunks[c].hash
        /\ new.text = t /\ chunks[c].text \in Nat
    BY <1>2, <2>1 DEF ChunkRow, Texts
  <2>3. chunks' = [chunks EXCEPT ![c] = new] /\ lastRow' = lastRow /\ t >= chunks[c].text
    BY <1>1, <1>3
  <2> HIDE DEF new
  <2>4. chunks[c].text <= t /\ lastRow <= lastRow'
    BY <1>0, <1>2, <2>2, <2>3 DEF Texts
  <2> QED  BY <1>0, <1>3, <2>2, <2>3, <2>4
<1>4. CASE ~Stored(c)
  <2> DEFINE new == [row |-> lastRow', text |-> t, hash |-> Nothing]
  <2>1. lastRow < MaxRow /\ lastRow' = lastRow + 1 /\ chunks' = [chunks EXCEPT ![c] = new]
    BY <1>1, <1>4
  <2>2. lastRow' \in Rows /\ lastRow' \in 0 .. MaxRow /\ lastRow < lastRow' /\ lastRow <= lastRow'
    BY <1>0, <2>1 DEF Rows
  <2>3. new \in ChunkRow /\ new.row = lastRow' /\ new.hash = Nothing
    BY <1>2, <2>2 DEF ChunkRow
  <2> HIDE DEF new
  <2> QED  BY <1>0, <1>4, <2>1, <2>2, <2>3
<1> QED  BY <1>3, <1>4

LEMMA PersistShape ==
  ASSUME ShapeInv, NEW i \in Ingesters, NEW c \in Chunks, Persist(i, c)
  PROVE  ShapeInv'
<1>0. GraphTypeOK /\ RowsDiffer /\ UNCHANGED <<edges, facts, work, jobs, held, crashes, overruns>>
  BY DEF ShapeInv, Persist, graphVars
<1>1. chunks' \in [Chunks -> ChunkRow \cup {NoChunk}] /\ lastRow' \in 0 .. MaxRow
  BY PersistRow
<1>2. QueueTypeOK'
  BY <1>0 DEF GraphTypeOK, QueueTypeOK
<1>3. \A d \in Chunks : Stored(d) => chunks'[d].row = chunks[d].row
  BY PersistRow
<1>4. JobsNameRows'
  <2>1. \A j \in JobIds : InTable(j)' <=> InTable(j)
    BY <1>0 DEF InTable
  <2> QED  BY <1>0, <1>3, <2>1, JobFacts DEF JobsNameRows
<1>5. EvidenceIsStored'
  <2>1. ASSUME NEW f \in FactIds, Evident(f) PROVE chunks'[facts[f].by].row = facts[f].row
    <3>1. facts[f].by \in Chunks /\ chunks[facts[f].by].row = facts[f].row /\ facts[f].row # 0
      BY <1>0, <2>1, FactRow DEF Evident, Fact, GraphTypeOK
    <3> QED  BY <1>3, <3>1 DEF Stored
  <2> QED  BY <1>0, <2>1 DEF EvidenceIsStored, Evident, Exists
<1>6. LinksExist' /\ BornInOrder'
  BY <1>0 DEF GraphTypeOK, LinksExist, Exists, ShapeInv, BornInOrder
<1>7. GraphTypeOK'
  BY <1>0, <1>1, <1>2, <1>4, <1>5, <1>6 DEF GraphTypeOK, JobsNameRows, EvidenceIsStored, LinksExist
<1>8. ingest' \in [Ingesters -> Ingesting] /\ work' \in [Workers -> Working]
  BY <1>0, IngestType DEF ShapeInv, Persist
<1>9. RowsDiffer'
  <2>1. \A d \in Chunks : chunks[d].row \in Nat /\ chunks[d].row <= lastRow
    BY <1>0 DEF GraphTypeOK, ChunkRow, NoChunk, Rows, RowsDiffer
  <2>2. lastRow \in Nat /\ lastRow' \in Nat /\ lastRow <= lastRow'
    BY <1>0, <1>1, PersistRow DEF GraphTypeOK
  <2>3. \A d \in Chunks : \/ chunks'[d].row = chunks[d].row
                          \/ d = c /\ chunks'[d].row = lastRow' /\ lastRow < lastRow'
    BY PersistRow
  <2>4. \A d \in Chunks : chunks'[d].row <= lastRow'
    BY <2>1, <2>2, <2>3
  <2>5. \A d, e \in Chunks : Stored(d)' /\ chunks'[d].row = chunks'[e].row => d = e
    BY <1>0, <2>1, <2>2, <2>3 DEF RowsDiffer, Stored
  <2> QED  BY <2>4, <2>5 DEF RowsDiffer
<1>10. HoldersStay
  BY <1>0 DEF HoldersStay, InTable
<1> QED  BY <1>6, <1>7, <1>8, <1>9, <1>10, HoldersKept DEF ShapeInv

\* What deleting chunk c does to the facts.
LEMMA FactsAfterDelete ==
  ASSUME GraphTypeOK, NEW c \in Chunks, facts' = WithoutEvidenceOf(c)
  PROVE  /\ facts' \in [FactIds -> Fact \cup {Unborn, Deleted}]
         /\ \A f \in FactIds :
              /\ Exists(f)' <=> Exists(f)
              /\ Evident(f)' => Evident(f) /\ facts[f].by # c /\ facts'[f] = facts[f]
              /\ ~Exists(f) => facts'[f] = facts[f]
              /\ Exists(f) => /\ facts'[f].key = facts[f].key /\ facts'[f].cue = facts[f].cue
                              /\ facts'[f].status = facts[f].status
                              /\ facts'[f].supersedes = facts[f].supersedes
         /\ \A f \in FactIds : facts'[f] = Unborn <=> facts[f] = Unborn
<1>1. ASSUME NEW f \in FactIds, Exists(f), facts[f].by = c
      PROVE  /\ facts'[f] \in Fact /\ facts'[f].row = 0
             /\ facts'[f].key = facts[f].key /\ facts'[f].cue = facts[f].cue
             /\ facts'[f].status = facts[f].status /\ facts'[f].supersedes = facts[f].supersedes
  <2>1. facts'[f] = [facts[f] EXCEPT !.row = 0] /\ facts[f] \in Fact
    BY <1>1, FactRow DEF WithoutEvidenceOf
  <2> QED  BY <2>1 DEF Fact
<1>2. ASSUME NEW f \in FactIds, ~(Exists(f) /\ facts[f].by = c) PROVE facts'[f] = facts[f]
  BY <1>2 DEF WithoutEvidenceOf
<1>3. facts' \in [FactIds -> Fact \cup {Unborn, Deleted}]
  <2>1. \A f \in FactIds : facts'[f] \in Fact \cup {Unborn, Deleted}
    BY <1>1, <1>2 DEF GraphTypeOK
  <2> QED  BY <2>1 DEF WithoutEvidenceOf
<1>4. ASSUME NEW f \in FactIds
      PROVE  /\ Exists(f)' <=> Exists(f)
             /\ Evident(f)' => Evident(f) /\ facts[f].by # c /\ facts'[f] = facts[f]
             /\ facts'[f] = Unborn <=> facts[f] = Unborn
  <2>1. CASE Exists(f) /\ facts[f].by = c
    <3>1. facts'[f] # Unborn /\ facts[f] # Unborn
      BY <1>1, <2>1, FactRow DEF Fact, Unborn
    <3> QED  BY <1>1, <2>1, <3>1 DEF Exists, Evident
  <2>2. CASE ~(Exists(f) /\ facts[f].by = c)
    BY <1>2, <2>2 DEF Exists, Evident
  <2> QED  BY <2>1, <2>2
<1> QED  BY <1>1, <1>2, <1>3, <1>4

LEMMA DeleteShape ==
  ASSUME ShapeInv, NEW i \in Ingesters, NEW c \in Chunks, DeleteMessage(i, c)
  PROVE  ShapeInv' /\ HoldersStay
<1>0. GraphTypeOK /\ QueueTypeOK /\ RowsDiffer
      /\ UNCHANGED <<lastRow, work, held, crashes, overruns>> /\ facts' = WithoutEvidenceOf(c)
  BY DEF ShapeInv, DeleteMessage, GraphTypeOK
<1>1. /\ chunks' \in [Chunks -> ChunkRow \cup {NoChunk}] /\ lastRow' \in 0 .. MaxRow
      /\ edges' \in [Chunks -> Inputs \cup {Nothing}]
      /\ chunks'[c].row = 0 /\ \A d \in Chunks : d # c => chunks'[d] = chunks[d]
  BY <1>0 DEF GraphTypeOK, DeleteMessage, NoChunk
<1>2. /\ jobs' \in [JobIds -> JobRows]
      /\ \A j \in JobIds :
           /\ InTable(j)' <=> InTable(j) /\ jobs[j].row \notin {chunks[c].row}
           /\ InTable(j)' => jobs'[j] = jobs[j]
  BY <1>0, CascadeStep DEF DeleteMessage
<1>3. QueueTypeOK'
  BY <1>0, <1>2 DEF QueueTypeOK, JobRows
<1>4. JobsNameRows'
  <2>1. ASSUME NEW j \in JobIds, InTable(j)'
        PROVE  chunks'[jobs'[j].subject].row = jobs'[j].row
    <3>1. InTable(j) /\ jobs'[j] = jobs[j] /\ jobs[j].row # chunks[c].row
      BY <1>2, <2>1
    <3>2. jobs[j].subject \in Chunks /\ chunks[jobs[j].subject].row = jobs[j].row
      BY <1>0, <3>1, JobFacts
    <3> QED  BY <1>1, <3>1, <3>2
  <2> QED  BY <2>1 DEF JobsNameRows
<1>5. EvidenceIsStored' /\ LinksExist' /\ BornInOrder'
      /\ facts' \in [FactIds -> Fact \cup {Unborn, Deleted}]
  <2>1. EvidenceIsStored'
    <3>1. ASSUME NEW f \in FactIds, Evident(f)' PROVE chunks'[facts'[f].by].row = facts'[f].row
      <4>1. Evident(f) /\ facts[f].by # c /\ facts'[f] = facts[f]
        BY <1>0, <3>1, FactsAfterDelete
      <4>2. facts[f].by \in Chunks
        BY <1>0, <4>1, FactRow DEF Evident, Fact
      <4> QED  BY <1>0, <1>1, <4>1, <4>2 DEF GraphTypeOK
    <3> QED  BY <3>1 DEF EvidenceIsStored
  <2>2. LinksExist'
    <3>1. SUFFICES ASSUME NEW f \in FactIds, Exists(f)', facts'[f].supersedes # NoFact
                   PROVE  Exists(facts[f].supersedes)'
      BY DEF LinksExist
    <3>2. Exists(f) /\ facts'[f].supersedes = facts[f].supersedes
      BY <1>0, <3>1, FactsAfterDelete
    <3>3. facts[f].supersedes \in FactIds /\ Exists(facts[f].supersedes)
      BY <1>0, <3>1, <3>2, FactRow DEF GraphTypeOK, Fact
    <3>4. \A p \in FactIds : Exists(p) => facts'[p].status \in {"active", "superseded"}
      BY <1>0, FactsAfterDelete DEF Exists
    <3> QED  BY <3>2, <3>3, <3>4 DEF Exists
  <2>3. BornInOrder'
    BY <1>0, FactsAfterDelete DEF ShapeInv, BornInOrder
  <2> QED  BY <1>0, <2>1, <2>2, <2>3, FactsAfterDelete
<1>6. GraphTypeOK'
  BY <1>1, <1>3, <1>4, <1>5 DEF GraphTypeOK, JobsNameRows, EvidenceIsStored, LinksExist
<1>7. ingest' \in [Ingesters -> Ingesting] /\ work' \in [Workers -> Working]
  BY <1>0, IngestType DEF ShapeInv, DeleteMessage
<1>8. RowsDiffer'
  <2>1. lastRow \in Nat /\ \A d \in Chunks : chunks'[d].row \in {0, chunks[d].row}
    BY <1>0, <1>1 DEF GraphTypeOK
  <2> QED  BY <1>0, <2>1 DEF RowsDiffer, Stored
<1>9. HoldersStay
  <2>1. \A j \in JobIds : jobs[j].status # "absent" => jobs'[j].status # "absent"
    BY DEF DeleteMessage, WithoutJobsOf, Gone
  <2> QED  BY <1>0, <1>2, <2>1 DEF HoldersStay
<1> QED  BY <1>5, <1>6, <1>7, <1>8, <1>9, HoldersKept DEF ShapeInv

\* Steps that queue, or that only move an ingester.
QueueingStep ==
  \/ \E i \in Ingesters : EnqueueMessage(i) \/ IngestDies(i)
  \/ \E c \in Chunks : Backfill(c)

\* What a queueing step does: nothing to the jobs, or one row more.
LEMMA QueueingQueue ==
  ASSUME ShapeInv, QueueingStep
  PROVE  /\ QueueTypeOK' /\ HoldersStay /\ JobsNameRows'
         /\ UNCHANGED <<chunks, lastRow, edges, facts>>
         /\ ingest' \in [Ingesters -> Ingesting]
         /\ \/ jobs' = jobs
            \/ \E c \in Chunks, j \in JobIds :
                 /\ Stored(c) /\ ~InTable(j) /\ InTable(j)' /\ jobs[j].status = "absent"
                 /\ jobs'[j].subject = c /\ jobs'[j].digest = InputOf(c)
                 /\ jobs'[j].status = "pending"
                 /\ \A k \in JobIds : k # j => jobs'[k] = jobs[k]
<1>0. GraphTypeOK /\ QueueTypeOK /\ ingest \in [Ingesters -> Ingesting]
  BY DEF ShapeInv, GraphTypeOK
<1>1. UNCHANGED <<chunks, lastRow, edges, facts, work, held, overruns>>
      /\ crashes' \in 0 .. MaxCrashes
  BY <1>0, GraphAssumption DEF QueueingStep, EnqueueMessage, IngestDies, Backfill, chunkVars,
                               graphVars, QueueTypeOK
<1>2. ingest' \in [Ingesters -> Ingesting]
  <2>1. ASSUME NEW i \in Ingesters, EnqueueMessage(i) PROVE ingest' \in [Ingesters -> Ingesting]
    <3>1. [step |-> "idle"] \in Ingesting
      BY DEF Ingesting
    <3> QED  BY <1>0, <2>1, <3>1 DEF EnqueueMessage
  <2>2. ASSUME NEW i \in Ingesters, IngestDies(i) PROVE ingest' \in [Ingesters -> Ingesting]
    <3>1. ingest[i].step = "persisted" /\ ingest' = [ingest EXCEPT ![i].step = "retry"]
      BY <2>2 DEF IngestDies
    <3>2. ingest[i].chunk \in Chunks
      BY <1>0, <3>1 DEF Ingesting
    <3> QED  BY <1>0, <3>1, <3>2, IngestType
  <2> QED  BY <1>0, <2>1, <2>2 DEF QueueingStep, Backfill
<1>3. jobs' = jobs \/ \E c \in Chunks : Stored(c) /\ Insert(c, chunks[c].row, InputOf(c))
  <2>1. ASSUME NEW i \in Ingesters, EnqueueMessage(i)
        PROVE  jobs' = jobs \/ \E c \in Chunks : Stored(c) /\ Insert(c, chunks[c].row, InputOf(c))
    <3>1. ingest[i].chunk \in Chunks
      BY <1>0, <2>1 DEF EnqueueMessage, Ingesting
    <3> QED  BY <2>1, <3>1 DEF EnqueueMessage, Enqueue
  <2>2. ASSUME NEW c \in Chunks, Backfill(c)
        PROVE  jobs' = jobs \/ (Stored(c) /\ Insert(c, chunks[c].row, InputOf(c)))
    BY <2>2 DEF Backfill, Enqueue
  <2> QED  BY <2>1, <2>2 DEF QueueingStep, IngestDies
<1>4. ASSUME NEW c \in Chunks, Stored(c), Insert(c, chunks[c].row, InputOf(c))
      PROVE  /\ jobs' \in [JobIds -> JobRows]
             /\ \/ jobs' = jobs
                \/ \E j \in JobIds :
                     /\ jobs[j].status = "absent" /\ ~InTable(j) /\ InTable(j)'
                     /\ jobs'[j].subject = c /\ jobs'[j].row = chunks[c].row
                     /\ jobs'[j].digest = InputOf(c) /\ jobs'[j].status = "pending"
                     /\ \A i \in JobIds : i # j => jobs'[i] = jobs[i]
  <2>1. chunks[c].row \in Rows /\ InputOf(c) \in Inputs
    BY <1>0, <1>4, InputType DEF ChunkRow
  <2> QED  BY <1>0, <1>4, <2>1, InsertStep
<1>5. CASE jobs' = jobs
  BY <1>0, <1>1, <1>2, <1>5 DEF QueueTypeOK, HoldersStay, JobsNameRows, InTable, GraphTypeOK
<1>6. ASSUME NEW c \in Chunks, Stored(c), Insert(c, chunks[c].row, InputOf(c)), jobs' # jobs
      PROVE  /\ QueueTypeOK' /\ HoldersStay /\ JobsNameRows'
             /\ \E j \in JobIds :
                 /\ ~InTable(j) /\ InTable(j)' /\ jobs[j].status = "absent"
                 /\ jobs'[j].subject = c /\ jobs'[j].digest = InputOf(c)
                 /\ jobs'[j].status = "pending"
                 /\ \A k \in JobIds : k # j => jobs'[k] = jobs[k]
  <2>1. PICK j \in JobIds :
                     /\ jobs[j].status = "absent" /\ ~InTable(j) /\ InTable(j)'
                     /\ jobs'[j].subject = c /\ jobs'[j].row = chunks[c].row
                     /\ jobs'[j].digest = InputOf(c) /\ jobs'[j].status = "pending"
                     /\ \A i \in JobIds : i # j => jobs'[i] = jobs[i]
    BY <1>4, <1>6
  <2>2. QueueTypeOK'
    BY <1>0, <1>1, <1>4, <1>6 DEF QueueTypeOK, JobRows
  <2>3. HoldersStay
    BY <1>1, <2>1 DEF HoldersStay, InTable
  <2>4. JobsNameRows'
    BY <1>0, <1>1, <2>1 DEF JobsNameRows, InTable, GraphTypeOK
  <2> QED  BY <2>1, <2>2, <2>3, <2>4
<1>7. CASE jobs' # jobs
  <2>1. PICK c \in Chunks : Stored(c) /\ Insert(c, chunks[c].row, InputOf(c))
    BY <1>3, <1>7
  <2> QED  BY <1>1, <1>2, <1>6, <1>7, <2>1
<1> QED  BY <1>5, <1>7, <1>1, <1>2

LEMMA QueueingShape ==
  ASSUME ShapeInv, QueueingStep
  PROVE  ShapeInv'
<1>1. /\ QueueTypeOK' /\ HoldersStay /\ JobsNameRows'
      /\ UNCHANGED <<chunks, lastRow, edges, facts>> /\ ingest' \in [Ingesters -> Ingesting]
  BY QueueingQueue
<1>2. GraphTypeOK'
  BY <1>1 DEF ShapeInv, GraphTypeOK, JobsNameRows, Evident, Exists
<1>3. RowsDiffer' /\ BornInOrder' /\ work' \in [Workers -> Working]
  BY <1>1 DEF ShapeInv, RowsDiffer, BornInOrder, Stored, HoldersStay
<1> QED  BY <1>1, <1>2, <1>3, HoldersKept DEF ShapeInv

LEMMA TimeShape ==
  ASSUME ShapeInv, NEW j \in JobIds, TimePasses(j)
  PROVE  /\ ShapeInv' /\ SameJobs /\ DoneOnly(NoJob)
         /\ UNCHANGED <<chunks, lastRow, edges, facts, ingest, work, held>>
<1>1. QueueTypeOK' /\ SameJobs /\ DoneOnly(NoJob) /\ UNCHANGED held
  BY LeaseStep DEF TimePasses, ShapeInv, GraphTypeOK
<1>2. UNCHANGED <<chunks, lastRow, edges, facts, ingest, work>>
  BY DEF TimePasses, chunkVars, graphVars
<1>3. JobsNameRows'
  BY <1>1, <1>2, RowsKept DEF JobsNameRows
<1>4. HoldersStay
  BY <1>1, <1>2 DEF HoldersStay, SameJobs, InTable
<1>5. GraphTypeOK'
  BY <1>1, <1>2, <1>3 DEF ShapeInv, GraphTypeOK, JobsNameRows, Evident, Exists
<1>6. RowsDiffer' /\ BornInOrder'
  BY <1>2 DEF ShapeInv, RowsDiffer, BornInOrder, Stored
<1> QED  BY <1>1, <1>2, <1>4, <1>5, <1>6, HoldersKept DEF ShapeInv

LEMMA LeastNumber ==
  ASSUME NEW T \in SUBSET Nat, T # {}
  PROVE  \E x \in T : \A y \in T : x <= y
<1> DEFINE R == OpToRel(<, Nat)
<1>1. \A x, y \in Nat : <<x, y>> \in R <=> x < y
  BY DEF OpToRel
<1>2. IsWellFoundedOn(R, Nat)
  BY NatLessThanWellFounded
<1> HIDE DEF R
<1>3. PICK x \in T : \A y \in T : ~(<<y, x>> \in R)
  BY <1>2, WFMin
<1>4. ASSUME NEW y \in T PROVE x <= y
  <2>1. ~(y < x) /\ x \in Nat /\ y \in Nat
    BY <1>1, <1>3
  <2> QED  BY <2>1
<1> QED  BY <1>4

LEMMA GreatestNumber ==
  ASSUME NEW n \in Nat, NEW T \in SUBSET (1 .. n), T # {}
  PROVE  \E x \in T : \A y \in T : y <= x
<1> DEFINE U == {m \in Nat : \E y \in T : m = n - y}
<1>1. U \in SUBSET Nat /\ U # {}
  <2>1. PICK y \in T : TRUE
    OBVIOUS
  <2>2. n - y \in U
    BY <2>1
  <2> QED  BY <2>2
<1>2. \A y \in T : n - y \in U
  OBVIOUS
<1>3. \A m \in U : \E y \in T : m = n - y
  OBVIOUS
<1> HIDE DEF U
<1>4. PICK m \in U : \A k \in U : m <= k
  BY <1>1, LeastNumber
<1>5. PICK x \in T : m = n - x
  BY <1>3
<1>6. ASSUME NEW y \in T PROVE y <= x
  <2>1. n - x <= n - y /\ x \in 1 .. n /\ y \in 1 .. n
    BY <1>2, <1>4, <1>5
  <2> QED  BY <2>1
<1> QED  BY <1>6

\* _supersede_prior finds no fact, or one of the key that is still active.
LEMMA PriorFound ==
  ASSUME NEW c \in Chunks, NEW key
  PROVE  \/ Prior(c, key) = NoFact
         \/ /\ Prior(c, key) \in FactIds /\ Exists(Prior(c, key))
            /\ facts[Prior(c, key)].key = key
<1> DEFINE active == {f \in FactIds \ EvidencedBy(chunks[c].row) :
                        facts[f].status = "active" /\ facts[f].key = key}
<1>1. \A f \in active : f \in FactIds /\ Exists(f) /\ facts[f].key = key
  BY DEF Exists
<1>2. active \in SUBSET (1 .. MaxFact) /\ MaxFact \in Nat
  BY GraphAssumption DEF FactIds
<1>3. Prior(c, key) = IF active = {} THEN NoFact
                      ELSE CHOOSE f \in active : \A g \in active : g <= f
  BY DEF Prior
<1> HIDE DEF active
<1>4. CASE active # {}
  <2>1. \E f \in active : \A g \in active : g <= f
    BY <1>2, <1>4, GreatestNumber
  <2>2. Prior(c, key) \in active
    BY <1>3, <1>4, <2>1
  <2> QED  BY <1>1, <2>2
<1> QED  BY <1>3, <1>4

\* What a worker loads and chooses.
LEMMA WorkerLoads ==
  ASSUME ShapeInv, NEW w \in Workers, Load(w) \/ ChoosePrior(w)
  PROVE  LET c == SubjectOf(w)
         IN  /\ held[w] \in JobIds /\ InTable(held[w]) /\ c \in Chunks /\ Stored(c)
             /\ work'[w] \in Working /\ work'[w] # Idle
             /\ Load(w) => work'[w].step = "loaded" /\ work'[w].input = InputOf(c)
             /\ ChoosePrior(w) =>
                  /\ work[w].step = "loaded" /\ work'[w].step = "writing"
                  /\ InputOf(c) = jobs[held[w]].digest
                  /\ work'[w].input = work[w].input
                  /\ SaidTo(w) # Silent /\ SaidTo(w).cue
                  /\ work'[w].prior = Prior(c, SaidTo(w).key)
<1>0. GraphTypeOK /\ work \in [Workers -> Working]
  BY DEF ShapeInv
<1>1. held[w] # NoJob
  BY WorkType DEF Load, ChoosePrior, JobIds, NoJob
<1>2. CASE Load(w)
  <2>1. PICK c \in Target(w) : work' = [work EXCEPT ![w] = Loaded(InputOf(c))]
    BY <1>2 DEF Load
  <2>2. InTable(held[w]) /\ c = SubjectOf(w) /\ c \in Chunks /\ Stored(c) /\ held[w] \in JobIds
    BY <1>0, <1>1, TargetIsSubject DEF Target, GraphTypeOK, QueueTypeOK
  <2>3. work'[w] = [step |-> "loaded", input |-> InputOf(c)] /\ InputOf(c) \in Inputs
    BY <1>0, <2>1, <2>2, InputType DEF Loaded
  <2>4. ~ChoosePrior(w)
    BY <1>2 DEF Load, ChoosePrior, Idle
  <2> QED  BY <1>2, <2>2, <2>3, <2>4 DEF Working, Idle
<1>3. CASE ChoosePrior(w)
  <2>1. PICK c \in Target(w) :
       /\ Fresh(w, c)
       /\ Says[c][work[w].input.text] # Silent
       /\ Supersedes(Says[c][work[w].input.text])
       /\ work' = [work EXCEPT ![w] = Writing(@.input, Prior(c, Says[c][@.input.text].key))]
    BY <1>3 DEF ChoosePrior
  <2>2. InTable(held[w]) /\ c = SubjectOf(w) /\ c \in Chunks /\ Stored(c) /\ held[w] \in JobIds
    BY <1>0, <1>1, TargetIsSubject DEF Target, GraphTypeOK, QueueTypeOK
  <2>3. SaidTo(w) = Says[c][work[w].input.text]
    BY <2>2 DEF SaidTo
  <2>4. work'[w] = [step |-> "writing", input |-> work[w].input, prior |-> Prior(c, SaidTo(w).key)]
    BY <1>0, <2>1, <2>3 DEF Writing
  <2>5. work[w].input \in Inputs /\ work[w].step = "loaded"
    BY <1>3, WorkType DEF ChoosePrior
  <2>6. Prior(c, SaidTo(w).key) \in FactIds \cup {NoFact}
    BY <2>2, PriorFound
  <2>7. ~Load(w)
    BY <2>5 DEF Load, Idle
  <2> QED  BY <2>1, <2>2, <2>3, <2>4, <2>5, <2>6, <2>7 DEF Working, Idle, Fresh, Supersedes
<1> QED  BY <1>2, <1>3

\* What a worker knows of its job stays, whatever any worker does.
LEMMA WorkerKeepsJobs ==
  ASSUME ShapeInv, NEW w \in Workers, WorkerStep(w), NEW v \in Workers, work'[v] # Idle
  PROVE  /\ held'[v] = held[v] /\ held[v] \in JobIds
         /\ InTable(held[v])' =>
              /\ InTable(held[v]) /\ SubjectOf(v)' = SubjectOf(v)
              /\ jobs'[held[v]].digest = jobs[held[v]].digest
         /\ v # w => work'[v] = work[v]
         /\ v = w => Load(w) \/ ChoosePrior(w)
<1>1. held'[v] = held[v] /\ (v # w => work'[v] = work[v]) /\ (v = w => Load(w) \/ ChoosePrior(w))
  BY WorkerQueue
<1>2. held[v] \in JobIds
  BY <1>1, WorkType, WorkerLoads
<1>3. InTable(held[v])' <=> jobs'[held[v]].status \notin {"absent", "gone"}
  BY <1>1 DEF InTable
<1>4. SameJobs
  BY WorkerQueue
<1>5. \A j \in JobIds : jobs'[j].status \notin {"absent", "gone"} =>
        InTable(j) /\ jobs'[j].subject = jobs[j].subject /\ jobs'[j].digest = jobs[j].digest
  BY <1>4 DEF SameJobs, InTable
<1> QED  BY <1>1, <1>2, <1>3, <1>5 DEF SubjectOf

LEMMA WorkerShape ==
  ASSUME ShapeInv, NEW w \in Workers, WorkerStep(w)
  PROVE  ShapeInv'
<1>0. GraphTypeOK /\ RowsDiffer /\ BornInOrder /\ WorkIsHeld /\ HeldIsUsed /\ QueueTypeOK
      /\ work \in [Workers -> Working] /\ held \in [Workers -> JobIds \cup {NoJob}]
  BY DEF ShapeInv, GraphTypeOK, QueueTypeOK
<1>1. /\ QueueTypeOK' /\ SameJobs /\ UNCHANGED <<ingest, lastRow>>
      /\ \A v \in Workers : v # w => held'[v] = held[v] /\ work'[v] = work[v]
      /\ held'[w] = held[w] \/ work'[w] = Idle
      /\ Load(w) \/ ChoosePrior(w) \/ work'[w] = Idle
      /\ Commits(w) \/ UNCHANGED <<chunks, edges, facts>>
  BY WorkerQueue
<1>2. /\ chunks' \in [Chunks -> ChunkRow \cup {NoChunk}]
      /\ edges' \in [Chunks -> Inputs \cup {Nothing}]
      /\ facts' \in [FactIds -> Fact \cup {Unborn, Deleted}]
      /\ \A c \in Chunks : chunks'[c].row = chunks[c].row
      /\ EvidenceIsStored' /\ LinksExist' /\ BornInOrder'
  <2>1. CASE UNCHANGED <<chunks, edges, facts>>
    BY <1>0, <2>1 DEF GraphTypeOK, EvidenceIsStored, LinksExist, BornInOrder, Evident, Exists
  <2>2. CASE Commits(w)
    <3>1. /\ Recorded(w)
          /\ \E n, link \in FactIds \cup {NoFact} : FactsChange(w, n, link)
      BY <2>2, CommitStep
    <3>2. /\ facts' \in [FactIds -> Fact \cup {Unborn, Deleted}]
          /\ EvidenceIsStored' /\ LinksExist' /\ BornInOrder'
      BY <3>1, CommitFactsShape
    <3>3. edges' \in [Chunks -> Inputs \cup {Nothing}]
      BY <1>0, <3>1 DEF Recorded, GraphTypeOK
    <3>4. chunks' \in [Chunks -> ChunkRow \cup {NoChunk}]
          /\ \A c \in Chunks : chunks'[c].row = chunks[c].row
      BY <3>1 DEF Recorded
    <3> QED  BY <3>2, <3>3, <3>4
  <2> QED  BY <1>1, <2>1, <2>2
<1>3. JobsNameRows' /\ \A c \in Chunks : Stored(c)' <=> Stored(c)
  BY <1>1, <1>2, RowsKept DEF JobsNameRows
<1>4. GraphTypeOK'
  BY <1>0, <1>1, <1>2, <1>3 DEF GraphTypeOK, JobsNameRows, EvidenceIsStored, LinksExist
<1>5. RowsDiffer'
  BY <1>0, <1>1, <1>2, <1>3 DEF RowsDiffer
<1>6. ingest' \in [Ingesters -> Ingesting]
  BY <1>1 DEF ShapeInv
<1>7. work' \in [Workers -> Working] /\ WorkIsHeld'
  <2>1. work'[w] \in Working
    BY <1>1, WorkerLoads DEF Working
  <2>2. work' = [v \in Workers |-> work'[v]]
    BY <1>0 DEF WorkerStep, Claim, Load, Answer, LoadFails, ProviderFails, DropResult, ChoosePrior,
                CommitPlain, CommitSuperseding, CommitNoFact, CommitFact, Record, WorkerDies, Forget
  <2>3. \A v \in Workers : work'[v] \in Working
    BY <1>0, <1>1, <2>1
  <2>4. \A v \in Workers : work'[v] # Idle => held'[v] # NoJob
    BY WorkerKeepsJobs DEF JobIds, NoJob
  <2> QED  BY <2>2, <2>3, <2>4 DEF WorkIsHeld
<1>8. HeldIsUsed'
  <2>1. \A j \in JobIds : jobs[j].status # "absent" => jobs'[j].status # "absent"
    BY <1>1 DEF SameJobs, InTable
  <2>2. ASSUME held'[w] # held[w], held'[w] # NoJob PROVE jobs'[held'[w]].status # "absent"
    <3>1. ClaimJob(w)
      BY <1>0, <2>2 DEF WorkerStep, Claim, Load, Answer, LoadFails, ProviderFails, DropResult,
                ChoosePrior, CommitPlain, CommitSuperseding, CommitNoFact, CommitFact, Record,
                WorkerDies, FailJob, RetireJob, Crash, LetGo
    <3>2. PICK j \in JobIds : Claimable(j) /\ held' = [held EXCEPT ![w] = j]
      BY <3>1 DEF ClaimJob
    <3> QED  BY <1>0, <2>1, <3>2 DEF Claimable, InTable
  <2>3. ASSUME NEW v \in Workers, held'[v] # NoJob PROVE jobs'[held'[v]].status # "absent"
    <3>1. CASE held'[v] = held[v]
      BY <1>0, <2>1, <2>3, <3>1 DEF HeldIsUsed
    <3>2. CASE held'[v] # held[v]
      BY <1>1, <2>2, <2>3, <3>2
    <3> QED  BY <3>1, <3>2
  <2> QED  BY <2>3 DEF HeldIsUsed
<1>9. WritersHaveCue'
  <2>1. SUFFICES ASSUME NEW v \in Workers, work'[v].step = "writing", InTable(held[v])'
                 PROVE  (SaidTo(v) # Silent /\ SaidTo(v).cue)'
    BY DEF WritersHaveCue
  <2>2. /\ InTable(held[v]) /\ SubjectOf(v)' = SubjectOf(v)
        /\ v # w => work'[v] = work[v]
        /\ v = w => Load(w) \/ ChoosePrior(w)
    BY <2>1, WorkerKeepsJobs DEF Idle
  <2>3. CASE v # w
    BY <2>1, <2>2, <2>3 DEF ShapeInv, WritersHaveCue, SaidTo
  <2>4. CASE v = w
    BY <2>1, <2>2, <2>4, WorkerLoads DEF SaidTo
  <2> QED  BY <2>3, <2>4
<1> QED  BY <1>2, <1>4, <1>5, <1>6, <1>7, <1>8, <1>9 DEF ShapeInv

LEMMA NextSplits ==
  ASSUME Next
  PROVE  \/ \E i \in Ingesters, c \in Chunks : Persist(i, c) \/ DeleteMessage(i, c)
         \/ QueueingStep
         \/ \E w \in Workers : WorkerStep(w)
         \/ \E j \in JobIds : TimePasses(j)
BY DEF Next, QueueingStep, WorkerStep

LEMMA ShapeStutters ==
  ASSUME ShapeInv, UNCHANGED vars
  PROVE  ShapeInv' /\ HoldersStay
<1>1. HoldersStay
  BY DEF vars, HoldersStay, InTable
<1>2. GraphTypeOK'
  BY DEF vars, ShapeInv, GraphTypeOK, QueueTypeOK, InTable, Evident, Exists
<1>3. RowsDiffer' /\ BornInOrder'
  BY DEF vars, ShapeInv, RowsDiffer, BornInOrder, Stored
<1> QED  BY <1>1, <1>2, <1>3, HoldersKept DEF vars, ShapeInv

LEMMA ShapeStep ==
  ASSUME ShapeInv, [Next]_vars
  PROVE  ShapeInv'
BY NextSplits, ShapeStutters, PersistShape, DeleteShape, QueueingShape, WorkerShape, TimeShape

LEMMA InitShape ==
  ASSUME Init
  PROVE  ShapeInv
<1>1. QueueTypeOK /\ \A j \in JobIds : ~InTable(j)
  BY GraphAssumption DEF Init, QueueInit, QueueTypeOK, InTable, Unused
<1>2. /\ chunks \in [Chunks -> ChunkRow \cup {NoChunk}] /\ lastRow \in 0 .. MaxRow
      /\ edges \in [Chunks -> Inputs \cup {Nothing}]
      /\ facts \in [FactIds -> Fact \cup {Unborn, Deleted}]
  BY GraphAssumption DEF Init
<1>3. \A f \in FactIds : ~Exists(f) /\ facts[f] = Unborn
  BY DEF Init, Exists, Unborn
<1>4. GraphTypeOK
  BY <1>1, <1>2, <1>3 DEF GraphTypeOK, Evident
<1>5. /\ ingest \in [Ingesters -> Ingesting] /\ work \in [Workers -> Working]
      /\ WorkIsHeld /\ HeldIsUsed /\ WritersHaveCue
  BY DEF Init, QueueInit, Ingesting, Working, WorkIsHeld, HeldIsUsed, WritersHaveCue, Idle
<1>6. RowsDiffer /\ BornInOrder
  BY <1>3 DEF Init, RowsDiffer, Stored, NoChunk, BornInOrder
<1> QED  BY <1>4, <1>5, <1>6 DEF ShapeInv

(* Rows, jobs and processes stay well formed, and no job, evidence or link  *)
(* between facts names a row that ingestion or a commit has deleted.        *)
THEOREM GraphTypeCorrect == Spec => []GraphTypeOK
<1>1. Spec => []ShapeInv
  BY InitShape, ShapeStep, PTL DEF Spec
<1>2. ShapeInv => GraphTypeOK
  BY DEF ShapeInv
<1> QED  BY <1>1, <1>2, PTL
-----------------------------------------------------------------------------
(* Texts.                                                                  *)

\* Jobs and workers read no text that the chunk does not have yet.
ReadsBehind == JobsBehind /\ LoadsBehind /\ WritersAreFresh

\* A worker that waits in its transaction keeps the chunk of its job locked.
LEMMA WritersLock ==
  ASSUME ShapeInv, NEW w \in Workers, work[w].step = "writing", InTable(held[w])
  PROVE  SubjectOf(w) \in Chunks /\ Locked(SubjectOf(w))
<1>1. held[w] \in JobIds /\ held[w] # NoJob
  BY WorkType DEF JobIds, NoJob
<1>2. SubjectOf(w) \in Chunks
  BY <1>1, JobFacts DEF ShapeInv, SubjectOf
<1>3. SubjectOf(w) \in Target(w)
  BY <1>1, <1>2, TargetIsSubject
<1> QED  BY <1>2, <1>3 DEF Locked

\* What a worker that goes on working still knows.
LEMMA HoldersKnow ==
  ASSUME ShapeInv, HoldersStay, NEW w \in Workers, work[w] # Idle, InTable(held[w])'
  PROVE  /\ held[w] \in JobIds /\ held'[w] = held[w] /\ work'[w] = work[w]
         /\ InTable(held[w]) /\ SubjectOf(w)' = SubjectOf(w)
         /\ jobs'[held[w]].subject = jobs[held[w]].subject
         /\ jobs'[held[w]].digest = jobs[held[w]].digest
         /\ SubjectOf(w) \in Chunks
<1>1. held[w] \in JobIds /\ held[w] # NoJob /\ held' = held /\ work' = work
  BY WorkType DEF HoldersStay, JobIds, NoJob
<1>2. jobs[held[w]].status # "absent"
  BY <1>1 DEF ShapeInv, HeldIsUsed
<1>3. jobs'[held[w]].status \notin {"absent", "gone"}
  BY <1>1 DEF InTable
<1>4. /\ InTable(held[w]) /\ jobs'[held[w]].subject = jobs[held[w]].subject
      /\ jobs'[held[w]].digest = jobs[held[w]].digest
  BY <1>1, <1>2, <1>3 DEF HoldersStay, InTable
<1>5. SubjectOf(w) \in Chunks
  BY <1>1, <1>4, JobFacts DEF ShapeInv, SubjectOf
<1> QED  BY <1>1, <1>4, <1>5 DEF SubjectOf

\* Storing a chunk moves its text on; no writer is at it.
LEMMA PersistReads ==
  ASSUME ShapeInv, ReadsBehind, NEW i \in Ingesters, NEW c \in Chunks, Persist(i, c)
  PROVE  ReadsBehind'
<1>0. GraphTypeOK /\ UNCHANGED <<work, jobs, held>> /\ HoldersStay
  BY DEF ShapeInv, Persist, HoldersStay, InTable
<1>1. /\ \A d \in Chunks : d # c => chunks'[d] = chunks[d]
      /\ Stored(c) => chunks[c].text <= chunks'[c].text
      /\ chunks'[c].text \in Nat /\ ~Locked(c)
  BY PersistRow DEF ChunkRow, Texts
<1>2. ASSUME NEW d \in Chunks, Stored(d)
      PROVE  chunks[d].text \in Nat /\ chunks'[d].text \in Nat /\ chunks[d].text <= chunks'[d].text
  <2>1. chunks[d].text \in Nat
    BY <1>0, <1>2, InputType DEF ChunkRow, Texts
  <2> QED  BY <1>1, <1>2, <2>1
<1>3. JobsBehind'
  <2>1. ASSUME NEW j \in JobIds, InTable(j)
        PROVE  jobs[j].digest.text <= chunks'[jobs[j].subject].text
    <3>1. /\ jobs[j].subject \in Chunks /\ Stored(jobs[j].subject) /\ jobs[j].digest.text \in Nat
          /\ jobs[j].digest.text <= chunks[jobs[j].subject].text
      BY <1>0, <2>1, JobFacts DEF ReadsBehind, JobsBehind
    <3> QED  BY <1>2, <3>1
  <2> QED  BY <1>0, <2>1 DEF JobsBehind, InTable
<1>4. LoadsBehind'
  <2>1. ASSUME NEW w \in Workers, work[w] # Idle, InTable(held[w])
        PROVE  /\ jobs[held[w]].digest.text <= work[w].input.text
               /\ work[w].input.text <= chunks'[SubjectOf(w)].text
    <3>1. held[w] \in JobIds /\ work[w].input.text \in Nat
      BY <2>1, WorkType DEF Inputs, Texts
    <3>2. SubjectOf(w) \in Chunks /\ Stored(SubjectOf(w))
      BY <1>0, <2>1, <3>1, JobFacts DEF SubjectOf
    <3>3. /\ jobs[held[w]].digest.text <= work[w].input.text
          /\ work[w].input.text <= chunks[SubjectOf(w)].text
      BY <2>1 DEF ReadsBehind, LoadsBehind
    <3> QED  BY <1>2, <3>1, <3>2, <3>3
  <2> QED  BY <1>0, <2>1 DEF LoadsBehind, InTable, SubjectOf
<1>5. WritersAreFresh'
  <2>1. ASSUME NEW w \in Workers, work[w].step = "writing", InTable(held[w])
        PROVE  /\ jobs[held[w]].digest.text = chunks'[SubjectOf(w)].text
               /\ ParentOf[SubjectOf(w)] = NoParent =>
                    jobs[held[w]].digest = [text |-> chunks'[SubjectOf(w)].text, parent |-> FALSE]
    <3>1. SubjectOf(w) \in Chunks /\ SubjectOf(w) # c
      BY <1>1, <2>1, WritersLock
    <3> QED  BY <1>1, <2>1, <3>1 DEF ReadsBehind, WritersAreFresh, InputOf
  <2> QED  BY <1>0, <2>1 DEF WritersAreFresh, InTable, SubjectOf, InputOf
<1> QED  BY <1>3, <1>4, <1>5 DEF ReadsBehind

\* Steps that change no text, no worker and no row of the job table but to
\* drop it or to queue a chunk's present inputs.
LEMMA ReadsKept ==
  ASSUME ShapeInv, ReadsBehind, HoldersStay,
         \A j \in JobIds : InTable(j)' =>
           /\ jobs'[j].subject \in Chunks /\ Stored(jobs'[j].subject)
           /\ chunks'[jobs'[j].subject] = chunks[jobs'[j].subject]
           /\ \/ InTable(j) /\ jobs'[j].subject = jobs[j].subject /\ jobs'[j].digest = jobs[j].digest
              \/ jobs'[j].digest = InputOf(jobs'[j].subject)
  PROVE  ReadsBehind'
<1>0. GraphTypeOK
  BY DEF ShapeInv
<1>1. JobsBehind'
  <2>1. SUFFICES ASSUME NEW j \in JobIds, InTable(j)'
                 PROVE  jobs'[j].digest.text <= chunks'[jobs'[j].subject].text
    BY DEF JobsBehind
  <2>2. jobs'[j].subject \in Chunks /\ Stored(jobs'[j].subject)
        /\ chunks'[jobs'[j].subject] = chunks[jobs'[j].subject]
    BY <2>1
  <2>3. chunks[jobs'[j].subject].text \in Nat
    BY <1>0, <2>2, InputType DEF ChunkRow, Texts
  <2>4. CASE InTable(j) /\ jobs'[j].subject = jobs[j].subject /\ jobs'[j].digest = jobs[j].digest
    BY <2>2, <2>4 DEF ReadsBehind, JobsBehind
  <2>5. CASE jobs'[j].digest = InputOf(jobs'[j].subject)
    BY <2>2, <2>3, <2>5 DEF InputOf
  <2> QED  BY <2>1, <2>4, <2>5
<1>2. ASSUME NEW w \in Workers, work[w] # Idle, InTable(held[w])'
      PROVE  /\ held'[w] = held[w] /\ work'[w] = work[w]
             /\ InTable(held[w]) /\ SubjectOf(w)' = SubjectOf(w) /\ SubjectOf(w) \in Chunks
             /\ jobs'[held[w]].digest = jobs[held[w]].digest
             /\ chunks'[SubjectOf(w)] = chunks[SubjectOf(w)]
  <2>1. /\ held[w] \in JobIds /\ held'[w] = held[w] /\ work'[w] = work[w]
        /\ InTable(held[w]) /\ SubjectOf(w)' = SubjectOf(w)
        /\ jobs'[held[w]].subject = jobs[held[w]].subject
        /\ jobs'[held[w]].digest = jobs[held[w]].digest
        /\ SubjectOf(w) \in Chunks
    BY <1>2, HoldersKnow
  <2>2. InTable(held[w])' <=> jobs'[held[w]].status \notin {"absent", "gone"}
    BY <2>1 DEF InTable
  <2>3. chunks'[jobs'[held[w]].subject] = chunks[jobs'[held[w]].subject]
    <3>1. \A j \in JobIds : jobs'[j].status \notin {"absent", "gone"} =>
            chunks'[jobs'[j].subject] = chunks[jobs'[j].subject]
      BY DEF InTable
    <3> QED  BY <1>2, <2>1, <2>2, <3>1
  <2> QED  BY <2>1, <2>3 DEF SubjectOf
<1>3. LoadsBehind'
  <2>1. SUFFICES ASSUME NEW w \in Workers, work'[w] # Idle, InTable(held[w])'
                 PROVE  /\ jobs'[held'[w]].digest.text <= work'[w].input.text
                        /\ work'[w].input.text <= chunks'[SubjectOf(w)'].text
    BY DEF LoadsBehind
  <2>2. work[w] # Idle
    BY <2>1 DEF HoldersStay
  <2> QED  BY <1>2, <2>1, <2>2 DEF ReadsBehind, LoadsBehind
<1>4. WritersAreFresh'
  <2>1. SUFFICES ASSUME NEW w \in Workers, work'[w].step = "writing", InTable(held[w])'
                 PROVE  /\ jobs'[held'[w]].digest.text = chunks'[SubjectOf(w)'].text
                        /\ ParentOf[SubjectOf(w)'] = NoParent =>
                             jobs'[held'[w]].digest = InputOf(SubjectOf(w))'
    BY DEF WritersAreFresh
  <2>2. work[w].step = "writing" /\ work[w] # Idle
    BY <2>1 DEF HoldersStay, Idle
  <2>3. ParentOf[SubjectOf(w)] = NoParent => InputOf(SubjectOf(w))' = InputOf(SubjectOf(w))
    BY <1>2, <2>1, <2>2 DEF InputOf
  <2> QED  BY <1>2, <2>1, <2>2, <2>3 DEF ReadsBehind, WritersAreFresh
<1> QED  BY <1>1, <1>3, <1>4 DEF ReadsBehind

LEMMA DeleteReads ==
  ASSUME ShapeInv, ReadsBehind, NEW i \in Ingesters, NEW c \in Chunks, DeleteMessage(i, c)
  PROVE  ReadsBehind'
<1>0. GraphTypeOK /\ QueueTypeOK /\ HoldersStay
  BY DeleteShape DEF ShapeInv, GraphTypeOK
<1>1. \A d \in Chunks : d # c => chunks'[d] = chunks[d]
  BY DEF DeleteMessage, ShapeInv, GraphTypeOK
<1>2. ASSUME NEW j \in JobIds, InTable(j)'
      PROVE  /\ jobs'[j].subject \in Chunks /\ Stored(jobs'[j].subject)
             /\ chunks'[jobs'[j].subject] = chunks[jobs'[j].subject]
             /\ InTable(j) /\ jobs'[j] = jobs[j]
  <2>1. InTable(j) /\ jobs'[j] = jobs[j] /\ jobs[j].row # chunks[c].row
    BY <1>0, <1>2, CascadeStep DEF DeleteMessage
  <2>2. jobs[j].subject \in Chunks /\ Stored(jobs[j].subject) /\ chunks[jobs[j].subject].row = jobs[j].row
    BY <1>0, <2>1, JobFacts
  <2> QED  BY <1>1, <2>1, <2>2
<1> QED  BY <1>0, <1>2, ReadsKept

\* Steps that leave the chunks alone, keep what the workers hold and at most
\* queue a chunk's present inputs.
LEMMA QuietReads ==
  ASSUME ShapeInv, ReadsBehind, HoldersStay, UNCHANGED chunks,
         \/ \A j \in JobIds : InTable(j)' =>
              InTable(j) /\ jobs'[j].subject = jobs[j].subject /\ jobs'[j].digest = jobs[j].digest
         \/ \E c \in Chunks, j \in JobIds :
              /\ Stored(c) /\ jobs'[j].subject = c /\ jobs'[j].digest = InputOf(c)
              /\ \A k \in JobIds : k # j => jobs'[k] = jobs[k]
  PROVE  ReadsBehind'
<1>1. ASSUME NEW j \in JobIds, InTable(j)',
             InTable(j), jobs'[j].subject = jobs[j].subject, jobs'[j].digest = jobs[j].digest
      PROVE  jobs'[j].subject \in Chunks /\ Stored(jobs'[j].subject)
  BY <1>1, JobFacts DEF ShapeInv
<1>2. \A j \in JobIds : jobs'[j] = jobs[j] => (InTable(j)' <=> InTable(j))
  BY DEF InTable
<1>3. \A j \in JobIds : InTable(j)' =>
           /\ jobs'[j].subject \in Chunks /\ Stored(jobs'[j].subject)
           /\ \/ InTable(j) /\ jobs'[j].subject = jobs[j].subject /\ jobs'[j].digest = jobs[j].digest
              \/ jobs'[j].digest = InputOf(jobs'[j].subject)
  BY <1>1, <1>2
<1>4. \A j \in JobIds : InTable(j)' => chunks'[jobs'[j].subject] = chunks[jobs'[j].subject]
  OBVIOUS
<1> QED  BY <1>3, <1>4, ReadsKept

LEMMA WorkerReads ==
  ASSUME ShapeInv, ReadsBehind, NEW w \in Workers, WorkerStep(w)
  PROVE  ReadsBehind'
<1>0. GraphTypeOK
  BY DEF ShapeInv
<1>1. SameJobs /\ (Commits(w) \/ UNCHANGED <<chunks, edges, facts>>)
  BY WorkerQueue
<1>2. \A c \in Chunks : Stored(c) => chunks'[c].text = chunks[c].text
  BY <1>1, CommitStep DEF Recorded
<1>3. JobsBehind'
  <2>1. SUFFICES ASSUME NEW j \in JobIds, InTable(j)'
                 PROVE  jobs'[j].digest.text <= chunks'[jobs'[j].subject].text
    BY DEF JobsBehind
  <2>2. InTable(j) /\ jobs'[j].subject = jobs[j].subject /\ jobs'[j].digest = jobs[j].digest
    BY <1>1, <2>1 DEF SameJobs
  <2>3. jobs[j].subject \in Chunks /\ Stored(jobs[j].subject)
    BY <1>0, <2>2, JobFacts
  <2> QED  BY <1>2, <2>2, <2>3 DEF ReadsBehind, JobsBehind
<1>4. ASSUME NEW v \in Workers, work'[v] # Idle, InTable(held[v])'
      PROVE  /\ held'[v] = held[v] /\ InTable(held[v]) /\ SubjectOf(v)' = SubjectOf(v)
             /\ jobs'[held[v]].digest = jobs[held[v]].digest /\ held[v] \in JobIds
             /\ SubjectOf(v) \in Chunks /\ Stored(SubjectOf(v))
             /\ chunks'[SubjectOf(v)].text = chunks[SubjectOf(v)].text
             /\ chunks[SubjectOf(v)].text \in Nat
             /\ v # w => work'[v] = work[v]
             /\ v = w => Load(w) \/ ChoosePrior(w)
  <2>1. /\ held'[v] = held[v] /\ InTable(held[v]) /\ SubjectOf(v)' = SubjectOf(v)
        /\ jobs'[held[v]].digest = jobs[held[v]].digest /\ held[v] \in JobIds
        /\ v # w => work'[v] = work[v]
        /\ v = w => Load(w) \/ ChoosePrior(w)
    BY <1>4, WorkerKeepsJobs
  <2>2. SubjectOf(v) \in Chunks /\ Stored(SubjectOf(v)) /\ chunks[SubjectOf(v)].text \in Nat
    BY <1>0, <2>1, JobFacts DEF SubjectOf
  <2> QED  BY <1>2, <2>1, <2>2
<1>5. LoadsBehind'
  <2>1. SUFFICES ASSUME NEW v \in Workers, work'[v] # Idle, InTable(held[v])'
                 PROVE  /\ jobs'[held'[v]].digest.text <= work'[v].input.text
                        /\ work'[v].input.text <= chunks'[SubjectOf(v)'].text
    BY DEF LoadsBehind
  <2>2. CASE v # w
    BY <1>4, <2>1, <2>2 DEF ReadsBehind, LoadsBehind
  <2>3. CASE v = w /\ Load(w)
    <3>1. work'[v].input = InputOf(SubjectOf(v))
      BY <2>3, WorkerLoads
    <3>2. jobs[held[v]].digest.text <= chunks[SubjectOf(v)].text
      BY <1>4, <2>1 DEF ReadsBehind, JobsBehind, SubjectOf
    <3> QED  BY <1>4, <2>1, <3>1, <3>2 DEF InputOf
  <2>4. CASE v = w /\ ChoosePrior(w)
    <3>1. work'[v].input = work[v].input /\ work[v] # Idle
      BY <2>4, WorkerLoads DEF Idle
    <3> QED  BY <1>4, <2>1, <3>1 DEF ReadsBehind, LoadsBehind
  <2> QED  BY <1>4, <2>1, <2>2, <2>3, <2>4
<1>6. WritersAreFresh'
  <2>1. SUFFICES ASSUME NEW v \in Workers, work'[v].step = "writing", InTable(held[v])'
                 PROVE  /\ jobs'[held'[v]].digest.text = chunks'[SubjectOf(v)'].text
                        /\ ParentOf[SubjectOf(v)'] = NoParent =>
                             jobs'[held'[v]].digest = InputOf(SubjectOf(v))'
    BY DEF WritersAreFresh
  <2>2. work'[v] # Idle
    BY <2>1 DEF Idle
  <2>3. ParentOf[SubjectOf(v)] = NoParent => InputOf(SubjectOf(v))' = InputOf(SubjectOf(v))
    BY <1>4, <2>1, <2>2 DEF InputOf
  <2>4. CASE v # w
    BY <1>4, <2>1, <2>2, <2>3, <2>4 DEF ReadsBehind, WritersAreFresh
  <2>5. CASE v = w
    <3>1. ChoosePrior(w)
      BY <1>4, <2>1, <2>2, <2>5, WorkerLoads
    <3>2. InputOf(SubjectOf(v)) = jobs[held[v]].digest
      BY <2>5, <3>1, WorkerLoads
    <3>3. jobs[held[v]].digest.text = chunks[SubjectOf(v)].text
      BY <3>2 DEF InputOf
    <3> QED  BY <1>4, <2>1, <2>2, <2>3, <3>2, <3>3
  <2> QED  BY <2>4, <2>5
<1> QED  BY <1>3, <1>5, <1>6 DEF ReadsBehind

LEMMA ReadsStep ==
  ASSUME ShapeInv, ReadsBehind, [Next]_vars
  PROVE  ReadsBehind'
<1>1. CASE UNCHANGED vars
  BY <1>1, ShapeStutters, QuietReads DEF vars, InTable
<1>2. CASE QueueingStep
  BY <1>2, QueueingQueue, QuietReads DEF InTable
<1>3. ASSUME NEW j \in JobIds, TimePasses(j) PROVE ReadsBehind'
  <2>1. SameJobs /\ UNCHANGED <<chunks, work, held>>
    BY <1>3, TimeShape
  <2>2. HoldersStay
    BY <2>1 DEF HoldersStay, SameJobs, InTable
  <2> QED  BY <2>1, <2>2, QuietReads DEF SameJobs
<1> QED  BY <1>1, <1>2, <1>3, NextSplits, PersistReads, DeleteReads, WorkerReads

\* What a commit writes was loaded from the text the chunk has, the one its
\* job was queued for.
LEMMA CommitsPresentText ==
  ASSUME ShapeInv, ReadsBehind, NEW w \in Workers, Recorded(w)
  PROVE  LET c == SubjectOf(w)
         IN  work[w].input.text = jobs[held[w]].digest.text /\ work[w].input.text = chunks[c].text
<1>1. /\ held[w] \in JobIds /\ InTable(held[w]) /\ work[w].step \in {"loaded", "writing"}
      /\ SubjectOf(w) \in Chunks /\ Stored(SubjectOf(w)) /\ work[w].input.text \in Nat
      /\ chunks[SubjectOf(w)].text \in Nat
  BY JobFacts DEF ShapeInv, Recorded, SubjectOf, Inputs, Texts
<1>2. jobs[held[w]].digest.text = chunks[SubjectOf(w)].text
  BY <1>1 DEF Recorded, InputOf, ReadsBehind, WritersAreFresh
<1>3. /\ jobs[held[w]].digest.text <= work[w].input.text
      /\ work[w].input.text <= chunks[SubjectOf(w)].text
  BY <1>1 DEF ReadsBehind, LoadsBehind, Idle
<1> QED  BY <1>1, <1>2, <1>3

GraphInv == EdgesAreStored /\ GraphMatchesHash /\ AssertedOnce

LEMMA PersistGraph ==
  ASSUME ShapeInv, GraphInv, NEW i \in Ingesters, NEW c \in Chunks, Persist(i, c)
  PROVE  GraphInv'
<1>0. GraphTypeOK /\ UNCHANGED <<edges, facts>>
  BY DEF ShapeInv, Persist, graphVars
<1>1. /\ \A d \in Chunks : d # c => chunks'[d] = chunks[d]
      /\ Stored(c) => chunks'[c].hash = chunks[c].hash /\ Stored(c)'
      /\ ~Stored(c) => chunks'[c].hash = Nothing
      /\ Stored(c)'
  BY PersistRow DEF Stored, ChunkRow, Rows
<1>2. \A f \in FactIds : Evident(f)' <=> Evident(f)
  BY <1>0 DEF Evident, Exists
<1>3. \A f \in FactIds : Evident(f) =>
        /\ facts[f].by \in Chunks /\ Stored(facts[f].by)
  BY <1>0, FactRow DEF GraphTypeOK, Evident, Fact, Stored
<1>4. AssertedOnce'
  BY <1>0, <1>2 DEF GraphInv, AssertedOnce
<1>5. EdgesAreStored'
  BY <1>0, <1>1 DEF GraphInv, EdgesAreStored, Stored
<1>6. GraphMatchesHash'
  <2>1. \A f \in FactIds : Evident(f) => facts[f].text = chunks'[facts[f].by].hash.text
    BY <1>1, <1>3 DEF GraphInv, GraphMatchesHash
  <2>2. \A d \in Chunks : Stored(d)' => edges[d].text = chunks'[d].hash.text
    BY <1>1 DEF GraphInv, GraphMatchesHash, EdgesAreStored, Stored
  <2> QED  BY <1>0, <1>2, <2>1, <2>2 DEF GraphMatchesHash
<1> QED  BY <1>4, <1>5, <1>6 DEF GraphInv

LEMMA DeleteGraph ==
  ASSUME ShapeInv, GraphInv, NEW i \in Ingesters, NEW c \in Chunks, DeleteMessage(i, c)
  PROVE  GraphInv'
<1>0. GraphTypeOK /\ facts' = WithoutEvidenceOf(c)
  BY DEF ShapeInv, DeleteMessage
<1>1. /\ \A d \in Chunks : d # c => chunks'[d] = chunks[d] /\ edges'[d] = edges[d]
      /\ chunks'[c].row = 0 /\ edges'[c] = Nothing
  BY <1>0 DEF DeleteMessage, GraphTypeOK, NoChunk
<1>2. \A f \in FactIds : Evident(f)' => Evident(f) /\ facts[f].by # c /\ facts'[f] = facts[f]
  BY <1>0, FactsAfterDelete
<1>3. \A f \in FactIds : Evident(f) => facts[f].by \in Chunks
  BY <1>0, FactRow DEF Evident, Fact
<1>4. AssertedOnce'
  BY <1>2 DEF GraphInv, AssertedOnce
<1>5. EdgesAreStored'
  BY <1>1 DEF GraphInv, EdgesAreStored, Stored
<1>6. GraphMatchesHash'
  <2>1. \A f \in FactIds : Evident(f)' => facts'[f].text = chunks'[facts'[f].by].hash.text
    BY <1>1, <1>2, <1>3 DEF GraphInv, GraphMatchesHash
  <2>2. \A d \in Chunks : Stored(d)' => edges'[d].text = chunks'[d].hash.text
    BY <1>1 DEF GraphInv, GraphMatchesHash, Stored
  <2> QED  BY <2>1, <2>2 DEF GraphMatchesHash
<1> QED  BY <1>4, <1>5, <1>6 DEF GraphInv

LEMMA CommitGraph ==
  ASSUME ShapeInv, ReadsBehind, GraphInv, NEW w \in Workers, Commits(w)
  PROVE  GraphInv'
<1> DEFINE c == SubjectOf(w)
           gone == EvidencedBy(chunks[c].row)
<1>0. GraphTypeOK /\ Recorded(w)
  BY CommitStep DEF ShapeInv
<1>1. PICK n \in FactIds \cup {NoFact}, link \in FactIds \cup {NoFact} : FactsChange(w, n, link)
  BY CommitStep
<1>2. /\ c \in Chunks /\ Stored(c) /\ chunks'[c].row = chunks[c].row
      /\ \A d \in Chunks : d # c => chunks'[d] = chunks[d] /\ edges'[d] = edges[d]
      /\ edges'[c] = work[w].input /\ chunks'[c].hash = jobs[held[w]].digest
  BY <1>0 DEF Recorded, GraphTypeOK
<1>3. work[w].input.text = jobs[held[w]].digest.text
  BY <1>0, CommitsPresentText
<1>4. ASSUME NEW f \in FactIds, f # n, Evident(f)'
      PROVE  /\ Evident(f) /\ facts'[f].by = facts[f].by /\ facts'[f].row = facts[f].row
             /\ facts'[f].text = facts[f].text /\ facts[f].row # chunks[c].row
             /\ facts[f].by \in Chunks /\ facts[f].by # c
  <2>1. Exists(f)' /\ facts'[f].row # 0
    BY <1>4 DEF Evident
  <2>2. /\ Exists(f) /\ f \notin gone
        /\ facts'[f].by = facts[f].by /\ facts'[f].row = facts[f].row
        /\ facts'[f].text = facts[f].text
    BY <1>0, <1>1, <1>4, <2>1, FactsAfterCommit
  <2>3. Evident(f) /\ facts[f].row # chunks[c].row
    BY <2>1, <2>2 DEF Evident, EvidencedBy
  <2>4. facts[f].by \in Chunks /\ chunks[facts[f].by].row = facts[f].row
    BY <1>0, <2>2, <2>3, FactRow DEF Fact, GraphTypeOK
  <2> QED  BY <2>2, <2>3, <2>4
<1>5. n # NoFact => /\ facts'[n].by = c /\ facts'[n].row = chunks[c].row
                    /\ facts'[n].text = work[w].input.text
  BY <1>1 DEF FactsChange
<1>6. NoFact \notin FactIds
  BY DEF FactIds, NoFact
<1> HIDE DEF c, gone
<1>7. AssertedOnce'
  <2>1. SUFFICES ASSUME NEW f \in FactIds, NEW g \in FactIds, Evident(f)', Evident(g)',
                        facts'[f].row = facts'[g].row
                 PROVE  f = g
    BY DEF AssertedOnce
  <2>2. CASE f # n /\ g # n
    BY <1>4, <2>1, <2>2 DEF GraphInv, AssertedOnce
  <2>3. CASE f = n /\ g # n
    BY <1>4, <1>5, <1>6, <2>1, <2>3
  <2>4. CASE f # n /\ g = n
    BY <1>4, <1>5, <1>6, <2>1, <2>4
  <2> QED  BY <2>2, <2>3, <2>4
<1>8. EdgesAreStored'
  BY <1>2 DEF GraphInv, EdgesAreStored, Stored
<1>9. GraphMatchesHash'
  <2>1. ASSUME NEW f \in FactIds, Evident(f)'
        PROVE  facts'[f].text = chunks'[facts'[f].by].hash.text
    <3>1. CASE f = n
      BY <1>2, <1>3, <1>5, <1>6, <3>1
    <3>2. CASE f # n
      BY <1>2, <1>4, <2>1, <3>2 DEF GraphInv, GraphMatchesHash
    <3> QED  BY <3>1, <3>2
  <2>2. \A d \in Chunks : Stored(d)' => edges'[d].text = chunks'[d].hash.text
    BY <1>2, <1>3 DEF GraphInv, GraphMatchesHash, Stored
  <2> QED  BY <2>1, <2>2 DEF GraphMatchesHash
<1> QED  BY <1>7, <1>8, <1>9 DEF GraphInv

LEMMA GraphStep ==
  ASSUME ShapeInv, ReadsBehind, GraphInv, [Next]_vars
  PROVE  GraphInv'
<1>1. CASE UNCHANGED <<chunks, edges, facts>>
  BY <1>1 DEF GraphInv, EdgesAreStored, GraphMatchesHash, AssertedOnce, Stored, Evident, Exists
<1>2. ASSUME NEW w \in Workers, WorkerStep(w) PROVE GraphInv'
  BY <1>1, <1>2, WorkerQueue, CommitGraph
<1>3. ASSUME NEW j \in JobIds, TimePasses(j) PROVE GraphInv'
  BY <1>1, <1>3, TimeShape
<1> QED  BY <1>1, <1>2, <1>3, NextSplits, PersistGraph, DeleteGraph, QueueingQueue DEF vars

LEMMA InitGraph ==
  ASSUME Init
  PROVE  ReadsBehind /\ GraphInv
<1>1. \A j \in JobIds : ~InTable(j)
  BY DEF Init, QueueInit, InTable, Unused
<1>2. \A f \in FactIds : ~Evident(f)
  BY DEF Init, Evident, Exists, Unborn
<1>3. \A w \in Workers : work[w] = Idle /\ work[w].step = "idle"
  BY DEF Init, Idle
<1>4. \A c \in Chunks : ~Stored(c) /\ edges[c] = Nothing
  BY DEF Init, Stored, NoChunk
<1>5. ReadsBehind
  BY <1>1, <1>3 DEF ReadsBehind, JobsBehind, LoadsBehind, WritersAreFresh
<1> QED  BY <1>2, <1>4, <1>5 DEF GraphInv, EdgesAreStored, GraphMatchesHash, AssertedOnce

(* The graph of a chunk is what the text behind its graph_input_hash says:  *)
(* a late, repeated or overtaken commit_graph leaves no fact or edge of     *)
(* another text behind.                                                     *)
THEOREM GraphMatchesHashCorrect == Spec => []GraphMatchesHash
<1> DEFINE Inv == ShapeInv /\ ReadsBehind /\ GraphInv
<1>1. Init => Inv
  BY InitShape, InitGraph
<1>2. Inv /\ [Next]_vars => Inv'
  BY ShapeStep, ReadsStep, GraphStep
<1>3. Inv => GraphMatchesHash
  BY DEF GraphInv
<1> HIDE DEF Inv
<1> QED  BY <1>1, <1>2, <1>3, PTL DEF Spec

(* However often the job of a chunk is committed, by however many workers,  *)
(* commit_graph leaves its statement in the graph once.                     *)
THEOREM AssertedOnceCorrect == Spec => []AssertedOnce
<1> DEFINE Inv == ShapeInv /\ ReadsBehind /\ GraphInv
<1>1. Init => Inv
  BY InitShape, InitGraph
<1>2. Inv /\ [Next]_vars => Inv'
  BY ShapeStep, ReadsStep, GraphStep
<1>3. Inv => AssertedOnce
  BY DEF GraphInv
<1> HIDE DEF Inv
<1> QED  BY <1>1, <1>2, <1>3, PTL DEF Spec
-----------------------------------------------------------------------------
(* Supersession.                                                           *)

\* Facts that keep key, cue, status and link keep their reasons.
LEMMA SupersessionKept ==
  ASSUME ShapeInv, SupersessionIsSound,
         \A f \in FactIds :
           /\ Exists(f)' <=> Exists(f)
           /\ Exists(f) => /\ facts'[f].key = facts[f].key /\ facts'[f].cue = facts[f].cue
                           /\ facts'[f].status = facts[f].status
                           /\ facts'[f].supersedes = facts[f].supersedes
  PROVE  SupersessionIsSound'
<1>1. SUFFICES ASSUME NEW f \in FactIds, Exists(f)', facts'[f].supersedes # NoFact,
                      NEW p, p = facts'[f].supersedes
               PROVE  /\ facts'[p].status = "superseded"
                      /\ p < f /\ facts'[p].key = facts'[f].key /\ facts'[f].cue
  BY DEF SupersessionIsSound
<1>2. Exists(f) /\ facts[f].supersedes = p /\ p # NoFact
  BY <1>1
<1>3. p \in FactIds /\ Exists(p)
  BY <1>2, FactRow DEF ShapeInv, GraphTypeOK, Fact
<1> QED  BY <1>1, <1>2, <1>3 DEF SupersessionIsSound

\* Facts that still exist keep their key, and no fact is born again.
LEMMA CauseKept ==
  ASSUME ShapeInv, WritersHaveCause, HoldersStay,
         \A f \in FactIds : /\ facts[f] # Unborn => facts'[f] # Unborn
                            /\ Exists(f)' /\ facts[f] # Unborn =>
                                 Exists(f) /\ facts'[f].key = facts[f].key
  PROVE  WritersHaveCause'
<1>1. SUFFICES ASSUME NEW w \in Workers, work'[w].step = "writing", InTable(held[w])',
                      NEW p, p = work'[w].prior, p # NoFact
               PROVE  /\ facts'[p] # Unborn
                      /\ facts'[p].status \in {"active", "superseded"} =>
                           facts'[p].key = SaidTo(w)'.key
  BY DEF WritersHaveCause, Exists
<1>2. work[w].step = "writing" /\ work[w] # Idle /\ p = work[w].prior
  BY <1>1 DEF HoldersStay, Idle
<1>3. InTable(held[w]) /\ SaidTo(w)' = SaidTo(w)
  BY <1>1, <1>2, HoldersKnow DEF SaidTo
<1>4. p \in FactIds
  BY <1>1, <1>2, WorkType
<1>5. facts[p] # Unborn /\ (Exists(p) => facts[p].key = SaidTo(w).key)
  BY <1>1, <1>2, <1>3 DEF WritersHaveCause
<1>6. Exists(p)' <=> facts'[p].status \in {"active", "superseded"}
  BY DEF Exists
<1> QED  BY <1>3, <1>4, <1>5, <1>6

LEMMA CommitSupersession ==
  ASSUME ShapeInv, SupersessionInv, NEW w \in Workers, Commits(w)
  PROVE  SupersessionIsSound'
<1> DEFINE c == SubjectOf(w)
           gone == EvidencedBy(chunks[c].row)
<1>0. GraphTypeOK /\ Recorded(w) /\ BornInOrder /\ InTable(held[w])
  BY CommitStep DEF ShapeInv, Recorded
<1>1. PICK n \in FactIds \cup {NoFact}, link \in FactIds \cup {NoFact} : FactsChange(w, n, link)
  BY CommitStep
<1>2. SUFFICES ASSUME NEW f \in FactIds, Exists(f)', facts'[f].supersedes # NoFact,
                      NEW p, p = facts'[f].supersedes
               PROVE  /\ facts'[p].status = "superseded"
                      /\ p < f /\ facts'[p].key = facts'[f].key /\ facts'[f].cue
  BY DEF SupersessionIsSound
<1>3. CASE f = n
  <2>1. /\ n \in FactIds /\ n # NoFact /\ p = link /\ link # NoFact
        /\ facts'[n].key = SaidTo(w).key /\ facts'[n].cue = SaidTo(w).cue
        /\ n \in NextFact
    BY <1>1, <1>2, <1>3 DEF FactsChange, FactIds, NoFact
  <2>2. /\ link \in FactIds \ gone /\ Exists(link)
        /\ work[w].step = "writing" /\ link = work[w].prior
    BY <1>1, <2>1 DEF FactsChange
  <2>3. facts[link].key = SaidTo(w).key /\ SaidTo(w).cue /\ facts[link] # Unborn
    BY <1>0, <2>1, <2>2 DEF SupersessionInv, WritersHaveCause, ShapeInv, WritersHaveCue
  <2>4. facts'[link].status = "superseded" /\ facts'[link].key = facts[link].key
    BY <1>1, <2>2 DEF FactsChange
  <2>5. link < n
    <3>1. facts[n] = Unborn /\ n # link
      BY <2>1, <2>3 DEF NextFact
    <3>2. ~(n < link)
      BY <1>0, <2>1, <2>2, <2>3, <3>1 DEF BornInOrder
    <3> QED  BY <2>1, <2>2, <3>1, <3>2 DEF FactIds
  <2> QED  BY <1>3, <2>1, <2>3, <2>4, <2>5
<1>4. CASE f # n
  <2>1. /\ Exists(f) /\ f \notin gone
        /\ facts'[f].key = facts[f].key /\ facts'[f].cue = facts[f].cue
    BY <1>0, <1>1, <1>2, <1>4, FactsAfterCommit
  <2>2. facts[f].supersedes = p /\ p \notin gone /\ p # NoFact
    BY <1>1, <1>2, <2>1 DEF FactsChange
  <2>3. p \in FactIds /\ Exists(p)
    BY <1>0, <2>1, <2>2, FactRow DEF GraphTypeOK, Fact
  <2>4. /\ facts[p].status = "superseded" /\ p < f
        /\ facts[p].key = facts[f].key /\ facts[f].cue
    BY <2>1, <2>2 DEF SupersessionInv, SupersessionIsSound
  <2>5. facts'[p].status = "superseded" /\ facts'[p].key = facts[p].key
    BY <1>1, <2>2, <2>3, <2>4 DEF FactsChange
  <2> QED  BY <2>1, <2>4, <2>5
<1> QED  BY <1>3, <1>4

LEMMA WorkerCause ==
  ASSUME ShapeInv, SupersessionInv, NEW w \in Workers, WorkerStep(w)
  PROVE  WritersHaveCause'
<1>1. ASSUME NEW f \in FactIds
      PROVE  /\ facts[f] # Unborn => facts'[f] # Unborn
             /\ Exists(f)' /\ facts[f] # Unborn => Exists(f) /\ facts'[f].key = facts[f].key
  <2>1. CASE UNCHANGED facts
    BY <2>1 DEF Exists
  <2>2. CASE Commits(w)
    <3>1. PICK n \in FactIds \cup {NoFact}, link \in FactIds \cup {NoFact} : FactsChange(w, n, link)
      BY <2>2, CommitStep
    <3>2. Recorded(w)
      BY <2>2, CommitStep
    <3>3. f = n => facts[f] = Unborn
      BY <3>1 DEF FactsChange, NextFact, FactIds, NoFact
    <3> QED  BY <3>1, <3>2, <3>3, FactsAfterCommit
  <2> QED  BY <2>1, <2>2, WorkerQueue
<1>2. SUFFICES ASSUME NEW v \in Workers, work'[v].step = "writing", InTable(held[v])',
                      NEW p, p = work'[v].prior, p # NoFact
               PROVE  /\ facts'[p] # Unborn
                      /\ facts'[p].status \in {"active", "superseded"} =>
                           facts'[p].key = SaidTo(v)'.key
  BY DEF WritersHaveCause, Exists
<1>3. /\ InTable(held[v]) /\ SubjectOf(v)' = SubjectOf(v)
      /\ v # w => work'[v] = work[v]
      /\ v = w => Load(w) \/ ChoosePrior(w)
  BY <1>2, WorkerKeepsJobs DEF Idle
<1>4. SaidTo(v)' = SaidTo(v) /\ p \in FactIds
      /\ facts[p] # Unborn /\ (Exists(p) => facts[p].key = SaidTo(v).key)
  <2>1. CASE v # w
    <3>1. work[v].step = "writing" /\ p = work[v].prior /\ SaidTo(v)' = SaidTo(v)
      BY <1>2, <1>3, <2>1 DEF SaidTo
    <3>2. p \in FactIds
      BY <1>2, <3>1, WorkType
    <3> QED  BY <1>2, <1>3, <3>1, <3>2 DEF SupersessionInv, WritersHaveCause
  <2>2. CASE v = w
    <3>1. ChoosePrior(w)
      BY <1>2, <1>3, <2>2, WorkerLoads
    <3>2. /\ work'[w].input = work[w].input /\ SubjectOf(w) \in Chunks
          /\ p = Prior(SubjectOf(w), SaidTo(w).key)
      BY <1>2, <2>2, <3>1, WorkerLoads
    <3>3. p \in FactIds /\ Exists(p) /\ facts[p].key = SaidTo(w).key
      BY <1>2, <3>2, PriorFound
    <3>4. facts[p] # Unborn
      BY <3>3 DEF Exists, Unborn
    <3>5. SaidTo(v)' = SaidTo(v)
      BY <1>3, <2>2, <3>2 DEF SaidTo
    <3> QED  BY <2>2, <3>3, <3>4, <3>5
  <2> QED  BY <2>1, <2>2
<1>5. Exists(p)' <=> facts'[p].status \in {"active", "superseded"}
  BY DEF Exists
<1> QED  BY <1>1, <1>4, <1>5

LEMMA SupersessionStep ==
  ASSUME ShapeInv, SupersessionInv, [Next]_vars
  PROVE  SupersessionInv'
<1>0. GraphTypeOK
  BY DEF ShapeInv
<1>1. ASSUME UNCHANGED facts, HoldersStay PROVE SupersessionInv'
  BY <1>1, SupersessionKept, CauseKept DEF SupersessionInv, Exists
<1>2. CASE UNCHANGED vars
  BY <1>1, <1>2, ShapeStutters DEF vars
<1>3. CASE QueueingStep
  BY <1>1, <1>3, QueueingQueue
<1>4. ASSUME NEW j \in JobIds, TimePasses(j) PROVE SupersessionInv'
  <2>1. SameJobs /\ UNCHANGED <<facts, work, held>>
    BY <1>4, TimeShape
  <2>2. HoldersStay
    BY <2>1 DEF HoldersStay, SameJobs, InTable
  <2> QED  BY <1>1, <2>1, <2>2
<1>5. ASSUME NEW i \in Ingesters, NEW c \in Chunks, Persist(i, c) PROVE SupersessionInv'
  BY <1>1, <1>5 DEF Persist, HoldersStay, InTable, graphVars
<1>6. ASSUME NEW i \in Ingesters, NEW c \in Chunks, DeleteMessage(i, c) PROVE SupersessionInv'
  <2>1. facts' = WithoutEvidenceOf(c) /\ HoldersStay
    BY <1>6, DeleteShape DEF DeleteMessage
  <2> QED  BY <1>0, <2>1, FactsAfterDelete, SupersessionKept, CauseKept DEF SupersessionInv
<1>7. ASSUME NEW w \in Workers, WorkerStep(w) PROVE SupersessionInv'
  <2>1. WritersHaveCause'
    BY <1>7, WorkerCause
  <2>2. CASE Commits(w)
    BY <2>1, <2>2, CommitSupersession DEF SupersessionInv
  <2>3. CASE ~Commits(w)
    <3>1. UNCHANGED facts
      BY <1>7, <2>3, WorkerQueue
    <3>2. SupersessionIsSound'
      BY <3>1, SupersessionKept DEF SupersessionInv, Exists
    <3> QED  BY <2>1, <3>2 DEF SupersessionInv
  <2> QED  BY <2>2, <2>3
<1> QED  BY <1>2, <1>3, <1>4, <1>5, <1>6, <1>7, NextSplits

LEMMA InitSupersession ==
  ASSUME Init
  PROVE  SupersessionInv
BY DEF Init, SupersessionInv, SupersessionIsSound, WritersHaveCause, Exists, Unborn, Idle

(* However two commits overtake each other between _supersede_prior's SELECT *)
(* and its UPDATE, a fact that names the one it replaced is newer, has a cue, *)
(* is about the same key, and the other one is not current any more.         *)
THEOREM SupersessionIsSoundCorrect == Spec => []SupersessionIsSound
<1> DEFINE Inv == ShapeInv /\ SupersessionInv
<1>1. Init => Inv
  BY InitShape, InitSupersession
<1>2. Inv /\ [Next]_vars => Inv'
  BY ShapeStep, SupersessionStep
<1>3. Inv => SupersessionIsSound
  BY DEF SupersessionInv
<1> HIDE DEF Inv
<1> QED  BY <1>1, <1>2, <1>3, PTL DEF Spec

\* The step of OnlyCuesSupersede.
CueStep ==
  \A p \in FactIds :
    facts[p].status = "active" /\ facts'[p].status = "superseded" =>
      \E f \in FactIds : facts[f] = Unborn /\ facts'[f] # Unborn
                         /\ facts'[f].cue /\ facts'[f].supersedes = p

LEMMA CueStepTaken ==
  ASSUME ShapeInv, [Next]_vars
  PROVE  CueStep
<1>0. GraphTypeOK
  BY DEF ShapeInv
<1>1. ASSUME UNCHANGED facts PROVE CueStep
  BY <1>1 DEF CueStep
<1>2. ASSUME NEW i \in Ingesters, NEW c \in Chunks, DeleteMessage(i, c) PROVE CueStep
  <2>1. \A f \in FactIds : Exists(f) => facts'[f].status = facts[f].status
    BY <1>0, <1>2, FactsAfterDelete DEF DeleteMessage
  <2> QED  BY <2>1 DEF CueStep, Exists
<1>3. ASSUME NEW w \in Workers, Commits(w) PROVE CueStep
  <2>0. Recorded(w) /\ InTable(held[w])
    BY <1>3, CommitStep DEF Recorded
  <2>1. PICK n \in FactIds \cup {NoFact}, link \in FactIds \cup {NoFact} : FactsChange(w, n, link)
    BY <1>3, CommitStep
  <2>2. SUFFICES ASSUME NEW p \in FactIds, facts[p].status = "active", facts'[p].status = "superseded"
                 PROVE  \E f \in FactIds : facts[f] = Unborn /\ facts'[f] # Unborn
                         /\ facts'[f].cue /\ facts'[f].supersedes = p
    BY DEF CueStep
  <2>3. Exists(p) /\ Exists(p)'
    BY <2>2 DEF Exists
  <2>4. p \notin EvidencedBy(chunks[SubjectOf(w)].row)
    <3>1. n # p
      BY <2>1, <2>3 DEF FactsChange, NextFact, Exists, Unborn, FactIds, NoFact
    <3> QED  BY <2>0, <2>1, <2>3, <3>1, FactsAfterCommit
  <2>5. p = link /\ link # NoFact
    BY <2>1, <2>2, <2>3, <2>4 DEF FactsChange, FactIds, NoFact
  <2>6. /\ n # NoFact /\ n \in NextFact /\ facts'[n] \in Fact /\ facts'[n].supersedes = p
        /\ facts'[n].cue = SaidTo(w).cue /\ work[w].step = "writing"
    BY <2>1, <2>5 DEF FactsChange
  <2>7. SaidTo(w).cue
    BY <2>0, <2>6 DEF ShapeInv, WritersHaveCue
  <2>8. n \in FactIds /\ facts[n] = Unborn /\ facts'[n] # Unborn
    BY <2>6 DEF NextFact, Fact, Unborn
  <2> QED  BY <2>6, <2>7, <2>8
<1>4. ASSUME NEW w \in Workers, WorkerStep(w) PROVE CueStep
  BY <1>1, <1>3, <1>4, WorkerQueue
<1>5. ASSUME NEW j \in JobIds, TimePasses(j) PROVE CueStep
  BY <1>1, <1>5, TimeShape
<1>6. ASSUME NEW i \in Ingesters, NEW c \in Chunks, Persist(i, c) PROVE CueStep
  BY <1>1, <1>6 DEF Persist, graphVars
<1> QED  BY <1>1, <1>2, <1>4, <1>5, <1>6, NextSplits, QueueingQueue DEF vars

(* docs/ARCHITECTURE.md:405, for every interleaving of commits: no step of   *)
(* any ingester, worker, crash or expiry supersedes a fact but the insertion *)
(* of one whose evidence has a cue and which names it.                       *)
THEOREM OnlyCuesSupersedeCorrect == Spec => OnlyCuesSupersede
<1>1. Spec => []ShapeInv
  BY InitShape, ShapeStep, PTL DEF Spec
<1>2. ShapeInv /\ [Next]_vars => [CueStep]_vars
  BY CueStepTaken
<1>3. Spec => [][CueStep]_vars
  BY <1>1, <1>2, PTL DEF Spec
<1> QED  BY <1>3 DEF OnlyCuesSupersede, CueStep
-----------------------------------------------------------------------------
(* Coverage.                                                               *)

Root(c) == ParentOf[c] = NoParent

\* The inputs of a chunk that replies to nothing are its text.
LEMMA RootInput ==
  ASSUME NEW c \in Chunks, Root(c)
  PROVE  /\ InputOf(c) = [text |-> chunks[c].text, parent |-> FALSE]
         /\ InputOf(c)' = [text |-> chunks'[c].text, parent |-> FALSE]
         /\ chunks'[c].text = chunks[c].text => InputOf(c)' = InputOf(c)
         /\ InputOf(c).text = chunks[c].text /\ InputOf(c)'.text = chunks'[c].text
BY DEF InputOf, Root

\* Steps that keep the jobs but end some, and write a hash only with the
\* chunk's inputs.
LEMMA CoverKept ==
  ASSUME ShapeInv, CoverInv, SameJobs, UNCHANGED ingest,
         \A c \in Chunks :
           /\ chunks'[c].row = chunks[c].row
           /\ Stored(c) => chunks'[c].text = chunks[c].text
           /\ Root(c) => chunks'[c].hash \in {chunks[c].hash, InputOf(c)},
         \A j \in JobIds :
           /\ InTable(j) /\ jobs'[j].status = "done" /\ jobs[j].status # "done"
           /\ Root(jobs[j].subject)
           => \/ jobs[j].digest # InputOf(jobs[j].subject)
              \/ chunks'[jobs[j].subject].hash = InputOf(jobs[j].subject)
  PROVE  CoverInv'
<1>0. GraphTypeOK
  BY DEF ShapeInv
<1>1. ASSUME NEW c \in Chunks, Root(c), Stored(c)
      PROVE  /\ InputOf(c)' = InputOf(c)
             /\ chunks[c].hash = InputOf(c) => chunks'[c].hash = InputOf(c)'
  <2>1. InputOf(c)' = InputOf(c)
    BY <1>1, RootInput
  <2> QED  BY <1>1, <2>1
<1>2. \A c \in Chunks : Stored(c)' <=> Stored(c)
  BY DEF Stored
<1>3. DoneIsApplied'
  <2>1. SUFFICES ASSUME NEW c \in Chunks, NEW j \in JobIds, Root(c),
                        j \in QueuedFor(c, InputOf(c))', jobs'[j].status = "done"
                 PROVE  chunks'[c].hash = InputOf(c)'
    BY DEF DoneIsApplied, Root
  <2>2. InTable(j)' /\ jobs'[j].subject = c /\ jobs'[j].digest = InputOf(c)'
    BY <2>1 DEF QueuedFor
  <2>3. InTable(j) /\ jobs[j].subject = c /\ jobs[j].digest = InputOf(c)' /\ Stored(c)
    BY <1>0, <2>2, JobFacts DEF SameJobs
  <2>4. CASE jobs[j].status = "done"
    BY <1>1, <2>1, <2>3, <2>4 DEF CoverInv, DoneIsApplied, QueuedFor, Root
  <2>5. CASE jobs[j].status # "done"
    BY <1>1, <2>1, <2>3, <2>5
  <2> QED  BY <2>4, <2>5
<1>4. ExtractionIsCovered'
  <2>1. SUFFICES ASSUME NEW c \in Chunks, Stored(c)', Root(c)
                 PROVE  Covered(c)' \/ Underway(c)'
    BY DEF ExtractionIsCovered, Root
  <2>2. ASSUME NEW j \in QueuedFor(c, InputOf(c)), jobs[j].status # "done" PROVE Covered(c)'
    <3>1. j \in JobIds /\ InTable(j) /\ jobs[j].subject = c /\ jobs[j].digest = InputOf(c)
      BY DEF QueuedFor
    <3>2. j \in QueuedFor(c, InputOf(c))'
      BY <1>1, <1>2, <2>1, <3>1 DEF QueuedFor, SameJobs
    <3>3. jobs'[j].status = "done" => chunks'[c].hash = InputOf(c)'
      BY <1>1, <1>2, <2>1, <2>2, <3>1
    <3> QED  BY <3>2, <3>3 DEF Covered
  <2>3. Covered(c) => Covered(c)'
    BY <1>1, <1>2, <2>1, <2>2 DEF Covered
  <2>4. Underway(c) => Underway(c)'
    BY DEF Underway
  <2> QED  BY <1>2, <2>1, <2>3, <2>4 DEF CoverInv, ExtractionIsCovered, Root
<1> QED  BY <1>3, <1>4 DEF CoverInv

LEMMA WorkerCover ==
  ASSUME ShapeInv, ReadsBehind, CoverInv, NEW w \in Workers, WorkerStep(w)
  PROVE  CoverInv'
<1>0. GraphTypeOK /\ QueueTypeOK
  BY DEF ShapeInv, GraphTypeOK
<1>1. /\ SameJobs /\ UNCHANGED ingest /\ DoneOnly(held[w])
      /\ ~RetireJob(w) => DoneOnly(NoJob)
      /\ Load(w) \/ ChoosePrior(w) => jobs' = jobs
      /\ Commits(w) \/ UNCHANGED <<chunks, edges, facts>>
  BY WorkerQueue
<1>2. ASSUME Commits(w)
      PROVE  /\ SubjectOf(w) \in Chunks /\ held[w] \in JobIds
             /\ Root(SubjectOf(w)) => jobs[held[w]].digest = InputOf(SubjectOf(w))
             /\ chunks'[SubjectOf(w)].hash = jobs[held[w]].digest
  <2>1. Recorded(w)
    BY <1>2, CommitStep
  <2> QED  BY <2>1 DEF Recorded, ReadsBehind, WritersAreFresh, Root
<1>3. ASSUME NEW c \in Chunks
      PROVE  /\ chunks'[c].row = chunks[c].row
             /\ Stored(c) => chunks'[c].text = chunks[c].text
             /\ Root(c) => chunks'[c].hash \in {chunks[c].hash, InputOf(c)}
  <2>1. CASE UNCHANGED <<chunks, edges, facts>>
    BY <2>1
  <2>2. CASE Commits(w)
    <3>1. Recorded(w)
      BY <2>2, CommitStep
    <3>2. CASE c = SubjectOf(w)
      BY <1>2, <2>2, <3>1, <3>2 DEF Recorded
    <3>3. CASE c # SubjectOf(w)
      BY <3>1, <3>3 DEF Recorded
    <3> QED  BY <3>2, <3>3
  <2> QED  BY <1>1, <2>1, <2>2
<1>4. ASSUME NEW j \in JobIds, InTable(j), jobs'[j].status = "done", jobs[j].status # "done",
             Root(jobs[j].subject)
      PROVE  \/ jobs[j].digest # InputOf(jobs[j].subject)
             \/ chunks'[jobs[j].subject].hash = InputOf(jobs[j].subject)
  <2>1. j = held[w] /\ held[w] # NoJob /\ RetireJob(w) /\ SubjectOf(w) = jobs[j].subject
        /\ SubjectOf(w) \in Chunks
    BY <1>0, <1>1, <1>4, JobFacts DEF DoneOnly, JobIds, NoJob, SubjectOf
  <2>2. CASE Commits(w)
    BY <1>2, <1>4, <2>1, <2>2
  <2>3. CASE DropResult(w)
    <3>1. SubjectOf(w) \in Target(w)
      BY <1>4, <2>1, TargetIsSubject
    <3> QED  BY <2>1, <2>3, <3>1 DEF DropResult, Fresh
  <2>4. CASE Load(w) \/ ChoosePrior(w)
    BY <1>1, <1>4, <2>4
  <2>5. CASE Claim(w)
    BY <2>1, <2>5 DEF Claim, ClaimJob
  <2>6. CASE WorkerDies(w)
    BY <1>4, <2>6 DEF WorkerDies, Crash
  <2>7. CASE LoadFails(w) \/ ProviderFails(w)
    <3>1. PICK st \in {"pending", "failed"} : jobs' = Ended(w, st)
      BY <2>7 DEF LoadFails, ProviderFails, FailJob
    <3>2. jobs'[j] = [jobs[j] EXCEPT !.status = st, !.lease = "none"] /\ jobs[j] \in Job
      BY <1>0, <1>4, <2>1, <3>1, JobInTable DEF Ended
    <3>3. jobs'[j].status = st
      BY <3>2 DEF Job
    <3> QED  BY <1>4, <3>3
  <2> QED  BY <2>2, <2>3, <2>4, <2>5, <2>6, <2>7 DEF WorkerStep, Answer, Commits
<1> QED  BY <1>1, <1>3, <1>4, CoverKept

\* Chunks that an ingester does not touch stay as covered as they were.
LEMMA OthersCovered ==
  ASSUME ShapeInv, CoverInv, NEW c \in Chunks, Root(c), chunks'[c] = chunks[c],
         \A j \in JobIds : jobs[j].subject = c /\ InTable(j) => jobs'[j] = jobs[j],
         \A j \in JobIds : InTable(j)' /\ jobs'[j].subject = c =>
           jobs'[j] = jobs[j] \/ jobs'[j].status = "pending"
  PROVE  /\ InputOf(c)' = InputOf(c) /\ (Covered(c) => Covered(c)')
         /\ \A j \in JobIds : j \in QueuedFor(c, InputOf(c))' /\ jobs'[j].status = "done" =>
              chunks'[c].hash = InputOf(c)'
<1>1. InputOf(c)' = InputOf(c)
  BY RootInput
<1>2. \A j \in JobIds : jobs'[j] = jobs[j] => (InTable(j)' <=> InTable(j))
  BY DEF InTable
<1>3. Covered(c) => Covered(c)'
  BY <1>1, <1>2 DEF Covered, QueuedFor
<1>4. \A j \in JobIds : j \in QueuedFor(c, InputOf(c))' /\ jobs'[j].status = "done" =>
        jobs'[j] = jobs[j] /\ j \in QueuedFor(c, InputOf(c))
  BY <1>1, <1>2 DEF QueuedFor
<1> QED  BY <1>1, <1>3, <1>4 DEF CoverInv, DoneIsApplied, Root

LEMMA PersistCover ==
  ASSUME ShapeInv, ReadsBehind, CoverInv, NEW i \in Ingesters, NEW c \in Chunks, Persist(i, c)
  PROVE  CoverInv'
<1>0. GraphTypeOK /\ jobs' = jobs /\ ingest \in [Ingesters -> Ingesting]
  BY DEF ShapeInv, Persist
<1>1. /\ \A d \in Chunks : d # c => chunks'[d] = chunks[d]
      /\ Stored(c) => chunks[c].text <= chunks'[c].text /\ chunks'[c].hash = chunks[c].hash
      /\ chunks'[c].text \in Nat
  BY PersistRow DEF ChunkRow, Texts
<1>2. ASSUME NEW d \in Chunks, d # c, Root(d)
      PROVE  /\ InputOf(d)' = InputOf(d) /\ (Covered(d) => Covered(d)')
             /\ \A j \in JobIds : j \in QueuedFor(d, InputOf(d))' /\ jobs'[j].status = "done" =>
                  chunks'[d].hash = InputOf(d)'
  BY <1>0, <1>1, <1>2, OthersCovered
<1>3. ASSUME NEW j \in JobIds, Root(c), j \in QueuedFor(c, InputOf(c))', jobs'[j].status = "done"
      PROVE  chunks'[c].hash = InputOf(c)'
  <2>1. InTable(j) /\ jobs[j].subject = c /\ jobs[j].digest = InputOf(c)'
    BY <1>0, <1>3 DEF QueuedFor, InTable
  <2>2. Stored(c) /\ jobs[j].digest.text <= chunks[c].text /\ chunks[c].text \in Nat
    BY <1>0, <2>1, JobFacts DEF ReadsBehind, JobsBehind
  <2>3. chunks'[c].text = chunks[c].text /\ chunks'[c].hash = chunks[c].hash
    BY <1>1, <1>3, <2>1, <2>2, RootInput
  <2>4. InputOf(c)' = InputOf(c)
    BY <1>3, <2>3, RootInput
  <2> QED  BY <1>0, <1>3, <2>1, <2>3, <2>4 DEF CoverInv, DoneIsApplied, QueuedFor, Root
<1>4. DoneIsApplied'
  BY <1>2, <1>3 DEF DoneIsApplied, Root
<1>5. Underway(c)'
  <2>1. ingest'[i] = [step |-> "persisted", chunk |-> c]
    BY <1>0 DEF Persist
  <2> QED  BY <2>1 DEF Underway
<1>6. ASSUME NEW d \in Chunks, d # c, Underway(d) PROVE Underway(d)'
  <2>1. PICK k \in Ingesters : ingest[k].step # "idle" /\ ingest[k].chunk = d
    BY <1>6 DEF Underway
  <2>2. k # i
    BY <1>6, <2>1 DEF Persist
  <2>3. ingest'[k] = ingest[k]
    BY <1>0, <2>2 DEF Persist
  <2> QED  BY <2>1, <2>3 DEF Underway
<1>7. ExtractionIsCovered'
  <2>1. SUFFICES ASSUME NEW d \in Chunks, Stored(d)', Root(d) PROVE Covered(d)' \/ Underway(d)'
    BY DEF ExtractionIsCovered, Root
  <2>2. d # c => Stored(d)
    BY <1>1, <2>1 DEF Stored
  <2> QED  BY <1>2, <1>5, <1>6, <2>1, <2>2 DEF CoverInv, ExtractionIsCovered, Root
<1> QED  BY <1>4, <1>7 DEF CoverInv

LEMMA DeleteCover ==
  ASSUME ShapeInv, CoverInv, NEW i \in Ingesters, NEW c \in Chunks, DeleteMessage(i, c)
  PROVE  CoverInv'
<1>0. GraphTypeOK /\ QueueTypeOK /\ RowsDiffer /\ ingest \in [Ingesters -> Ingesting]
  BY DEF ShapeInv, GraphTypeOK
<1>1. /\ \A d \in Chunks : d # c => chunks'[d] = chunks[d]
      /\ chunks'[c].row = 0
  BY <1>0 DEF DeleteMessage, GraphTypeOK, NoChunk
<1>2. \A j \in JobIds :
        /\ InTable(j)' <=> InTable(j) /\ jobs[j].row # chunks[c].row
        /\ InTable(j)' => jobs'[j] = jobs[j]
  BY <1>0, CascadeStep DEF DeleteMessage
<1>3. \A j \in JobIds : InTable(j) /\ jobs[j].subject # c => jobs'[j] = jobs[j]
  <2>1. ASSUME NEW j \in JobIds, InTable(j), jobs[j].subject # c PROVE jobs[j].row # chunks[c].row
    <3>1. /\ jobs[j].subject \in Chunks /\ Stored(jobs[j].subject)
          /\ chunks[jobs[j].subject].row = jobs[j].row
      BY <1>0, <2>1, JobFacts
    <3> QED  BY <1>0, <2>1, <3>1 DEF RowsDiffer
  <2> QED  BY <1>2, <2>1
<1>4. \A j \in JobIds : InTable(j)' => jobs[j].subject # c /\ jobs'[j] = jobs[j]
  BY <1>0, <1>2, JobFacts
<1>5. ASSUME NEW d \in Chunks, d # c, Root(d)
      PROVE  /\ InputOf(d)' = InputOf(d) /\ (Covered(d) => Covered(d)')
             /\ \A j \in JobIds : j \in QueuedFor(d, InputOf(d))' /\ jobs'[j].status = "done" =>
                  chunks'[d].hash = InputOf(d)'
  <2>1. \A j \in JobIds : jobs[j].subject = d /\ InTable(j) => jobs'[j] = jobs[j]
    BY <1>3, <1>5
  <2>2. \A j \in JobIds : InTable(j)' /\ jobs'[j].subject = d =>
           jobs'[j] = jobs[j] \/ jobs'[j].status = "pending"
    BY <1>4
  <2> QED  BY <1>1, <1>5, <2>1, <2>2, OthersCovered
<1>6. DoneIsApplied'
  <2>1. \A j \in JobIds : j \notin QueuedFor(c, InputOf(c))'
    BY <1>4 DEF QueuedFor
  <2> QED  BY <1>5, <2>1 DEF DoneIsApplied, Root
<1>7. ASSUME NEW d \in Chunks, d # c, Underway(d) PROVE Underway(d)'
  <2>1. PICK k \in Ingesters : ingest[k].step # "idle" /\ ingest[k].chunk = d
    BY <1>7 DEF Underway
  <2>2. k # i
    BY <1>7, <2>1 DEF DeleteMessage
  <2>3. ingest'[k] = ingest[k]
    BY <1>0, <2>2 DEF DeleteMessage
  <2> QED  BY <2>1, <2>3 DEF Underway
<1>8. ExtractionIsCovered'
  <2>1. SUFFICES ASSUME NEW d \in Chunks, Stored(d)', Root(d) PROVE Covered(d)' \/ Underway(d)'
    BY DEF ExtractionIsCovered, Root
  <2>2. d # c /\ Stored(d)
    BY <1>1, <2>1 DEF Stored
  <2> QED  BY <1>5, <1>7, <2>1, <2>2 DEF CoverInv, ExtractionIsCovered, Root
<1> QED  BY <1>6, <1>8 DEF CoverInv

\* A chunk that was just looked at is extracted or queued.
LEMMA EnqueueCovers ==
  ASSUME ShapeInv, CoverInv, NEW c \in Chunks, Root(c), Stored(c), Enqueue(c), UNCHANGED chunks
  PROVE  Covered(c)'
<1>0. GraphTypeOK /\ QueueTypeOK /\ InputOf(c)' = InputOf(c) /\ chunks[c].row \in Rows /\ InputOf(c) \in Inputs
  BY RootInput, InputType DEF ShapeInv, GraphTypeOK, ChunkRow
<1>1. CASE chunks[c].hash = InputOf(c)
  BY <1>0, <1>1 DEF Covered
<1>2. CASE chunks[c].hash # InputOf(c)
  <2>1. Insert(c, chunks[c].row, InputOf(c))
    BY <1>2 DEF Enqueue
  <2>2. CASE UNCHANGED jobs /\ QueuedFor(c, InputOf(c)) # {}
    <3>1. PICK j \in JobIds : j \in QueuedFor(c, InputOf(c))
      BY <2>2 DEF QueuedFor
    <3>2. jobs[j].status # "done"
      BY <1>2, <3>1 DEF CoverInv, DoneIsApplied, Root
    <3>3. j \in QueuedFor(c, InputOf(c))'
      BY <1>0, <2>2, <3>1 DEF QueuedFor, InTable
    <3> QED  BY <2>2, <3>2, <3>3 DEF Covered
  <2>3. ASSUME NEW j \in JobIds, InTable(j)', jobs'[j].subject = c, jobs'[j].digest = InputOf(c),
               jobs'[j].status = "pending"
        PROVE  Covered(c)'
    <3>1. j \in QueuedFor(c, InputOf(c))'
      BY <1>0, <2>3 DEF QueuedFor
    <3> QED  BY <2>3, <3>1 DEF Covered
  <2> QED  BY <1>0, <2>1, <2>2, <2>3, InsertStep
<1> QED  BY <1>1, <1>2

LEMMA QueueingCover ==
  ASSUME ShapeInv, CoverInv, QueueingStep
  PROVE  CoverInv'
<1>0. GraphTypeOK /\ ingest \in [Ingesters -> Ingesting] /\ UNCHANGED chunks
  BY QueueingQueue DEF ShapeInv
<1>1. /\ \A j \in JobIds : InTable(j) => jobs'[j] = jobs[j]
      /\ \A j \in JobIds : jobs'[j] = jobs[j] \/ jobs'[j].status = "pending"
  BY QueueingQueue
<1>2. ASSUME NEW d \in Chunks, Root(d)
      PROVE  /\ InputOf(d)' = InputOf(d) /\ (Covered(d) => Covered(d)')
             /\ \A j \in JobIds : j \in QueuedFor(d, InputOf(d))' /\ jobs'[j].status = "done" =>
                  chunks'[d].hash = InputOf(d)'
  BY <1>0, <1>1, <1>2, OthersCovered
<1>3. DoneIsApplied'
  BY <1>2 DEF DoneIsApplied, Root
<1>4. ASSUME NEW d \in Chunks, Root(d), Stored(d), Underway(d) PROVE Covered(d)' \/ Underway(d)'
  <2>1. PICK k \in Ingesters : ingest[k].step # "idle" /\ ingest[k].chunk = d
    BY <1>4 DEF Underway
  <2>2. CASE ingest'[k] = ingest[k]
    BY <2>1, <2>2 DEF Underway
  <2>3. CASE EnqueueMessage(k)
    BY <1>0, <1>4, <2>1, <2>3, EnqueueCovers DEF EnqueueMessage
  <2>4. CASE IngestDies(k)
    <3>1. ingest[k].step = "persisted" /\ ingest' = [ingest EXCEPT ![k].step = "retry"]
      BY <2>4 DEF IngestDies
    <3>2. ingest'[k] = [step |-> "retry", chunk |-> d]
      BY <1>0, <2>1, <3>1, IngestType
    <3> QED  BY <3>2 DEF Underway
  <2>5. ASSUME NEW i \in Ingesters, i # k, EnqueueMessage(i) \/ IngestDies(i)
        PROVE  ingest'[k] = ingest[k]
    BY <1>0, <2>5 DEF EnqueueMessage, IngestDies
  <2> QED  BY <2>2, <2>3, <2>4, <2>5 DEF QueueingStep, Backfill
<1>5. ExtractionIsCovered'
  <2>1. SUFFICES ASSUME NEW d \in Chunks, Stored(d)', Root(d) PROVE Covered(d)' \/ Underway(d)'
    BY DEF ExtractionIsCovered, Root
  <2>2. Stored(d)
    BY <1>0, <2>1 DEF Stored
  <2> QED  BY <1>2, <1>4, <2>1, <2>2 DEF CoverInv, ExtractionIsCovered, Root
<1> QED  BY <1>3, <1>5 DEF CoverInv

LEMMA CoverStep ==
  ASSUME ShapeInv, ReadsBehind, CoverInv, [Next]_vars
  PROVE  CoverInv'
<1>1. CASE UNCHANGED vars
  <2>1. SameJobs /\ UNCHANGED <<ingest, chunks, jobs>>
    BY <1>1 DEF vars, SameJobs, InTable
  <2> QED  BY <2>1, CoverKept
<1>2. ASSUME NEW j \in JobIds, TimePasses(j) PROVE CoverInv'
  <2>1. SameJobs /\ DoneOnly(NoJob) /\ UNCHANGED <<ingest, chunks>>
    BY <1>2, TimeShape
  <2>2. \A k \in JobIds : InTable(k) /\ jobs'[k].status = "done" => jobs[k].status = "done"
    BY <2>1 DEF DoneOnly, JobIds, NoJob
  <2> QED  BY <2>1, <2>2, CoverKept
<1> QED  BY <1>1, <1>2, NextSplits, PersistCover, DeleteCover, QueueingCover, WorkerCover

LEMMA InitCover ==
  ASSUME Init
  PROVE  CoverInv
<1>1. \A j \in JobIds : ~InTable(j)
  BY DEF Init, QueueInit, InTable, Unused
<1>2. \A c \in Chunks : ~Stored(c)
  BY DEF Init, Stored, NoChunk
<1> QED  BY <1>1, <1>2 DEF CoverInv, DoneIsApplied, ExtractionIsCovered, QueuedFor

(* Between storing a message, queueing its chunk, extracting it and           *)
(* committing, no chunk that replies to nothing is forgotten: deaths, dropped *)
(* results and overtaken commits leave it extracted, queued or given up on.   *)
THEOREM ExtractionIsCoveredCorrect == Spec => []ExtractionIsCovered
<1> DEFINE Inv == ShapeInv /\ ReadsBehind /\ CoverInv
<1>1. Init => Inv
  BY InitShape, InitGraph, InitCover
<1>2. Inv /\ [Next]_vars => Inv'
  BY ShapeStep, ReadsStep, CoverStep
<1>3. Inv => ExtractionIsCovered
  BY DEF CoverInv
<1> HIDE DEF Inv
<1> QED  BY <1>1, <1>2, <1>3, PTL DEF Spec
=============================================================================
