------------------------ MODULE AttachmentJobsProofs ------------------------
(***************************************************************************)
(* What the extraction of attachments guarantees for every number of       *)
(* messages, attachments, syncs, workers, deaths and overruns: rows, jobs  *)
(* and pages stay consistent, no page outlives its message, a PDF of       *)
(* stored mail is queued, what is done was written, and what was written   *)
(* is queued for its context and its graph.                                *)
(***************************************************************************)
EXTENDS AttachmentJobs, TLAPS

JobRows == Job \cup {Unused, Gone}

StoreOK ==
  /\ gmail \in [Messages -> [there : BOOLEAN, version : Versions]]
  /\ stored \subseteq HasText
  /\ rows \in [Attachments -> AttachmentRow \cup {NoRow}]
  /\ lastRow \in 0 .. MaxRow
  /\ pages \in [Attachments -> 0 .. MaxVersion]
  /\ queued \in [Attachments -> 0 .. MaxVersion]
  /\ wiped \subseteq Attachments /\ missed \subseteq Attachments /\ skipped \subseteq Messages

\* What a sync's locals hold at each step of its way.
IngestOK ==
  /\ ingest \in [Ingesters -> IngestLocals]
  /\ \A i \in Ingesters :
       /\ ingest[i].step # "idle" => ingest[i].msg \in Messages
       /\ ingest[i].step \notin {"idle", "retry"} => ingest[i].version \in Versions
       /\ ingest[i].step \in {"found", "recorded", "marking"} => ingest[i].att \in Attachments
       /\ ingest[i].step \in {"recorded", "marking"} => ingest[i].row \in Rows

\* A worker past load_attachment knows the attachment and its row.
WorkOK ==
  /\ work \in [Workers -> WorkLocals]
  /\ \A w \in Workers :
       work[w].step # "idle" => work[w].att \in Attachments /\ work[w].row \in Rows

\* The foreign key of the job table.
JobsHaveRows == \A j \in JobIds : InTable(j) => rows[jobs[j].subject].row = jobs[j].row

ShapeInv == StoreOK /\ IngestOK /\ WorkOK /\ QueueTypeOK /\ JobsHaveRows
-----------------------------------------------------------------------------
(* The queue's operations.                                                 *)

\* The same jobs are in the table, each for the same row of its attachment.
SameJobs ==
  \A j \in JobIds :
    /\ InTable(j)' => InTable(j)
    /\ InTable(j) => jobs'[j].subject = jobs[j].subject /\ jobs'[j].row = jobs[j].row

LEMMA JobInTable ==
  ASSUME QueueTypeOK, NEW j \in JobIds, InTable(j)
  PROVE  jobs[j] \in Job
BY DEF QueueTypeOK, InTable, Unused, Gone

LEMMA ClaimedRow ==
  ASSUME NEW job \in Job
  PROVE  /\ Claimed(job) \in Job
         /\ Claimed(job).subject = job.subject /\ Claimed(job).row = job.row
<1> DEFINE next == job.attempts + 1
<1>1. next \in Nat
  BY DEF Job
<1> HIDE DEF next
<1> DEFINE new == [job EXCEPT !.status = "running", !.lease = "live", !.attempts = next]
<1>2. new \in Job /\ new.subject = job.subject /\ new.row = job.row
  BY <1>1 DEF Job
<1>3. Claimed(job) = new
  BY DEF Claimed, next
<1> QED  BY <1>2, <1>3

\* A table in which every row is as it was, or changed in its status, its
\* attempts or its lease only.
LEMMA RowsChange ==
  ASSUME QueueTypeOK,
         jobs' = [j \in JobIds |-> jobs'[j]],
         \A j \in JobIds :
           \/ jobs'[j] = jobs[j]
           \/ /\ InTable(j) /\ jobs'[j] \in Job
              /\ jobs'[j].subject = jobs[j].subject /\ jobs'[j].row = jobs[j].row
  PROVE  jobs' \in [JobIds -> JobRows] /\ SameJobs
<1>1. \A j \in JobIds : jobs'[j] \in JobRows
  BY DEF QueueTypeOK, JobRows
<1>2. jobs' \in [JobIds -> JobRows]
  BY <1>1
<1>3. SameJobs
  BY DEF SameJobs, InTable
<1> QED  BY <1>2, <1>3

LEMMA RowEnded ==
  ASSUME QueueTypeOK, NEW w \in Workers, NEW st \in {"pending", "done", "failed"},
         jobs' = Ended(w, st)
  PROVE  jobs' \in [JobIds -> JobRows] /\ SameJobs
<1>1. ASSUME NEW j \in JobIds, j = held[w], InTable(j)
      PROVE  /\ jobs'[j] \in Job
             /\ jobs'[j].subject = jobs[j].subject /\ jobs'[j].row = jobs[j].row
  <2>1. jobs[j] \in Job
    BY <1>1, JobInTable
  <2>2. jobs'[j] = [jobs[j] EXCEPT !.status = st, !.lease = "none"]
    BY <1>1 DEF Ended
  <2> QED  BY <2>1, <2>2 DEF Job
<1>2. ASSUME NEW j \in JobIds, j # held[w] \/ ~InTable(j) PROVE jobs'[j] = jobs[j]
  BY <1>2 DEF Ended
<1>3. jobs' = [j \in JobIds |-> jobs'[j]]
  BY DEF Ended
<1> QED  BY <1>1, <1>2, <1>3, RowsChange

LEMMA QueueStep ==
  ASSUME QueueTypeOK, NEW w \in Workers, NEW budget \in Nat,
         ClaimJob(w) \/ FailJob(w, budget) \/ Crash(w)
  PROVE  QueueTypeOK' /\ SameJobs
<1>1. CASE ClaimJob(w)
  <2>1. PICK j \in JobIds :
          /\ Claimable(j)
          /\ jobs' = [jobs EXCEPT ![j] = Claimed(@)]
          /\ held' = [held EXCEPT ![w] = j]
    BY <1>1 DEF ClaimJob
  <2>2. jobs[j] \in Job
    BY <2>1, JobInTable DEF Claimable
  <2>3. jobs'[j] = Claimed(jobs[j]) /\ \A i \in JobIds : i # j => jobs'[i] = jobs[i]
    BY <2>1 DEF QueueTypeOK
  <2>4. /\ jobs'[j] \in Job
        /\ jobs'[j].subject = jobs[j].subject /\ jobs'[j].row = jobs[j].row
    BY <2>2, <2>3, ClaimedRow
  <2>5. jobs' = [i \in JobIds |-> jobs'[i]]
    BY <2>1 DEF QueueTypeOK
  <2>6. jobs' \in [JobIds -> JobRows] /\ SameJobs
    BY <2>1, <2>3, <2>4, <2>5, RowsChange DEF Claimable
  <2> QED  BY <1>1, <2>1, <2>6 DEF QueueTypeOK, ClaimJob, faultVars, JobRows
<1>2. CASE FailJob(w, budget)
  <2>1. PICK st \in {"pending", "failed"} : jobs' = Ended(w, st)
    BY <1>2 DEF FailJob
  <2>2. jobs' \in [JobIds -> JobRows] /\ SameJobs
    BY <2>1, RowEnded
  <2> QED  BY <1>2, <2>2 DEF QueueTypeOK, FailJob, LetGo, faultVars, JobRows
<1>3. CASE Crash(w)
  BY <1>3, AttachmentAssumption DEF QueueTypeOK, Crash, LetGo, SameJobs, InTable
<1> QED  BY <1>1, <1>2, <1>3

LEMMA LeaseStep ==
  ASSUME QueueTypeOK, NEW j \in JobIds, LeaseLapses(j) \/ LeaseOverrun(j)
  PROVE  QueueTypeOK' /\ SameJobs
<1>1. InTable(j) /\ jobs' = Expired(j)
  BY DEF LeaseLapses, LeaseOverrun, Leased
<1>2. jobs[j] \in Job
  BY <1>1, JobInTable
<1>3. /\ jobs'[j] \in Job
      /\ jobs'[j].subject = jobs[j].subject /\ jobs'[j].row = jobs[j].row
  BY <1>1, <1>2 DEF QueueTypeOK, Job, Expired
<1>4. \A i \in JobIds : i # j => jobs'[i] = jobs[i]
  BY <1>1 DEF QueueTypeOK, Expired
<1>5. held' = held /\ crashes' = crashes /\ overruns' \in 0 .. MaxOverruns
  BY AttachmentAssumption DEF QueueTypeOK, LeaseLapses, LeaseOverrun, faultVars
<1>6. jobs' = [i \in JobIds |-> jobs'[i]]
  BY <1>1 DEF QueueTypeOK, Expired
<1>7. jobs' \in [JobIds -> JobRows] /\ SameJobs
  BY <1>1, <1>3, <1>4, <1>6, RowsChange
<1> QED  BY <1>5, <1>7 DEF QueueTypeOK, JobRows

\* Rows of email_attachments that keep their ids keep their jobs.
LEMMA RowsKept ==
  ASSUME QueueTypeOK, JobsHaveRows, SameJobs,
         \A a \in Attachments : rows'[a].row = rows[a].row
  PROVE  JobsHaveRows'
<1>1. \A j \in JobIds : InTable(j) => jobs[j].subject \in Attachments
  BY JobInTable DEF Job
<1> QED  BY <1>1 DEF JobsHaveRows, SameJobs

LEMMA SameTable ==
  ASSUME QueueTypeOK, UNCHANGED <<jobs, held, crashes, overruns>>
  PROVE  QueueTypeOK' /\ SameJobs
BY DEF QueueTypeOK, SameJobs, InTable
-----------------------------------------------------------------------------
(* Locals.                                                                 *)

\* What sync i may know at each step of its way.
LocalOK(l) ==
  /\ l \in IngestLocals
  /\ l.step # "idle" => l.msg \in Messages
  /\ l.step \notin {"idle", "retry"} => l.version \in Versions
  /\ l.step \in {"found", "recorded", "marking"} => l.att \in Attachments
  /\ l.step \in {"recorded", "marking"} => l.row \in Rows

LEMMA OneLocal ==
  ASSUME IngestOK, NEW i \in Ingesters, NEW l, LocalOK(l),
         ingest' = [ingest EXCEPT ![i] = l]
  PROVE  IngestOK'
<1>1. \A k \in Ingesters : ingest'[k] = IF k = i THEN l ELSE ingest[k]
  BY DEF IngestOK
<1>2. ingest' \in [Ingesters -> IngestLocals]
  BY DEF IngestOK, LocalOK
<1> QED  BY <1>1, <1>2 DEF IngestOK, LocalOK

\* A deletion takes nothing from another sync but what it knew of the row.
LEMMA UnlinkedKeeps ==
  ASSUME NEW l \in IngestLocals, NEW m
  PROVE  /\ Unlinked(l, m) \in IngestLocals
         /\ Unlinked(l, m).step = l.step /\ Unlinked(l, m).msg = l.msg
         /\ Unlinked(l, m).version = l.version /\ Unlinked(l, m).todo = l.todo
         /\ Unlinked(l, m).att = l.att /\ Unlinked(l, m).row = l.row
BY DEF Unlinked, IngestLocals

\* A sync turns to one of the parts still to do.
LEMMA FoundLocal ==
  ASSUME IngestOK, NEW i \in Ingesters, FindMessage(i)
  PROVE  \E a \in ingest[i].todo, link \in {"none", "row"} :
           ingest' = [ingest EXCEPT ![i] =
             [ingest[i] EXCEPT !.step = "found", !.todo = ingest[i].todo \ {a}, !.att = a,
                               !.link = link]]
<1> DEFINE link == IF ingest[i].msg \in stored THEN "row" ELSE "none"
<1>1. PICK a \in ingest[i].todo :
        ingest' = [ingest EXCEPT ![i] =
          [ingest[i] EXCEPT !.step = "found", !.todo = ingest[i].todo \ {a}, !.att = a,
                            !.link = link]]
  BY Zenon DEF FindMessage
<1>2. link \in {"none", "row"}
  OBVIOUS
<1> HIDE DEF link
<1> QED  BY <1>1, <1>2

LEMMA LocalMoves ==
  ASSUME IngestOK, NEW i \in Ingesters, ingest[i].step \notin {"idle", "retry"},
         NEW st \in {"persisted", "listing", "marking"}, NEW t \in SUBSET Attachments,
         st = "marking" => ingest[i].step = "recorded",
         ingest' = [ingest EXCEPT ![i].step = st, ![i].todo = t]
  PROVE  IngestOK'
<1> DEFINE l == [ingest[i] EXCEPT !.step = st, !.todo = t]
<1>1. /\ ingest[i] \in IngestLocals
      /\ ingest[i].msg \in Messages /\ ingest[i].version \in Versions
      /\ ingest[i].step = "recorded" => ingest[i].att \in Attachments /\ ingest[i].row \in Rows
  BY DEF IngestOK
<1>2. LocalOK(l)
  BY <1>1 DEF LocalOK, IngestLocals
<1>3. ingest' = [ingest EXCEPT ![i] = l]
  BY DEF IngestOK
<1> QED  BY <1>2, <1>3, OneLocal

LEMMA LocalStays ==
  ASSUME IngestOK, NEW i \in Ingesters, ingest[i].step \notin {"idle", "retry"},
         NEW st \in {"persisted", "listing", "marking"},
         st = "marking" => ingest[i].step = "recorded",
         ingest' = [ingest EXCEPT ![i].step = st]
  PROVE  IngestOK'
<1>1. ingest[i].todo \in SUBSET Attachments /\ ingest[i] \in IngestLocals
  BY DEF IngestOK, IngestLocals
<1>2. [ingest[i] EXCEPT !.step = st] = [ingest[i] EXCEPT !.step = st, !.todo = ingest[i].todo]
  BY <1>1 DEF IngestLocals
<1>3. ingest' = [ingest EXCEPT ![i].step = st, ![i].todo = ingest[i].todo]
  BY <1>2 DEF IngestOK
<1> QED  BY <1>1, <1>3, LocalMoves

LEMMA IngestLocalsStep ==
  ASSUME ShapeInv, NEW i \in Ingesters, Take(i) \/ IngestStep(i) \/ IngestDies(i)
  PROVE  IngestOK'
<1>0. /\ IngestOK /\ ingest[i] \in IngestLocals
      /\ Versions \subseteq 0 .. MaxVersion /\ Rows \subseteq 0 .. MaxRow
  BY AttachmentAssumption DEF ShapeInv, IngestOK, Versions, Rows
<1>1. AtRest \in IngestLocals /\ AtRest.step = "idle"
  BY AttachmentAssumption DEF AtRest, IngestLocals
<1>2. CASE \E m \in Messages : GetMessage(i, m)
  <2>1. PICK m \in Messages : GetMessage(i, m)
    BY <1>2
  <2> DEFINE v == gmail[m].version
  <2>2. v \in Versions /\ v \in 0 .. MaxVersion
    BY <1>0 DEF ShapeInv, StoreOK
  <2>3. ingest' = [ingest EXCEPT ![i] =
                     [AtRest EXCEPT !.step = "fetched", !.msg = m, !.version = v]]
    BY <2>1 DEF GetMessage
  <2> HIDE DEF v
  <2>4. LocalOK([AtRest EXCEPT !.step = "fetched", !.msg = m, !.version = v])
    BY <1>1, <2>2 DEF LocalOK, IngestLocals
  <2> QED  BY <1>0, <2>3, <2>4, OneLocal
<1>3. LocalOK(AtRest)
  BY <1>1 DEF LocalOK, AtRest
<1>10. CASE SkipVanished(i) \/ IngestDone(i)
  <2>1. ingest' = [ingest EXCEPT ![i] = AtRest]
    BY <1>10 DEF SkipVanished, IngestDone
  <2> QED  BY <1>0, <1>3, <2>1, OneLocal
<1>11. ASSUME NEW m \in Messages, DeleteMessage(i, m) PROVE IngestOK'
  <2>1. ingest' = [k \in Ingesters |-> IF k = i THEN AtRest ELSE Unlinked(ingest[k], m)]
    BY <1>11 DEF DeleteMessage
  <2>2. ASSUME NEW k \in Ingesters PROVE LocalOK(ingest'[k])
    <3>1. LocalOK(ingest[k])
      BY <1>0 DEF IngestOK, LocalOK
    <3>2. LocalOK(Unlinked(ingest[k], m))
      BY <3>1, UnlinkedKeeps DEF LocalOK
    <3> QED  BY <1>3, <2>1, <3>2
  <2> QED  BY <2>1, <2>2 DEF IngestOK, LocalOK
<1>4. CASE EnqueueRaises(i) \/ IngestDies(i)
  <2> DEFINE m == ingest[i].msg
  <2>1. /\ ingest' = [ingest EXCEPT ![i] = [AtRest EXCEPT !.step = "retry", !.msg = m]]
        /\ ingest[i].step # "idle"
    BY <1>4 DEF EnqueueRaises, IngestDies
  <2>2. m \in Messages
    BY <1>0, <2>1 DEF IngestOK
  <2> HIDE DEF m
  <2>3. LocalOK([AtRest EXCEPT !.step = "retry", !.msg = m])
    BY <1>1, <2>2 DEF LocalOK, IngestLocals
  <2> QED  BY <1>0, <2>1, <2>3, OneLocal
<1>5. CASE Persist(i)
  <2>1. PartsOf(ingest[i].msg) \in SUBSET Attachments
    BY DEF PartsOf
  <2> QED  BY <1>0, <1>5, <2>1, LocalMoves, LocalStays DEF Persist
<1>6. CASE EnqueueBody(i)
  <2>1. PartsOf(ingest[i].msg) \in SUBSET Attachments
    BY DEF PartsOf
  <2> QED  BY <1>0, <1>6, <2>1, LocalMoves DEF EnqueueBody
<1>7. CASE InsertJob(i)
  <2>1. CASE JobExists(i)
    BY <1>0, <1>7, <2>1, LocalStays DEF InsertJob
  <2>2. CASE ~JobExists(i)
    BY <1>0, <1>7, <2>2, LocalStays DEF InsertJob
  <2> QED  BY <2>1, <2>2
<1>8. CASE MarkPending(i)
  BY <1>0, <1>8, LocalStays DEF MarkPending
<1>12. CASE FindMessage(i)
  <2> DEFINE found(a, link) ==
        [ingest[i] EXCEPT !.step = "found", !.todo = ingest[i].todo \ {a}, !.att = a, !.link = link]
  <2>2. PICK a \in ingest[i].todo, link \in {"none", "row"} :
          ingest' = [ingest EXCEPT ![i] = found(a, link)]
    BY <1>0, <1>12, FoundLocal
  <2>3. ingest[i].msg \in Messages /\ ingest[i].version \in Versions
    BY <1>0, <1>12 DEF FindMessage, IngestOK
  <2>4. LocalOK(found(a, link))
    BY <1>0, <2>3 DEF LocalOK, IngestLocals
  <2> HIDE DEF found
  <2> QED  BY <1>0, <2>2, <2>4, OneLocal
<1>9. CASE UpsertRow(i)
  <2> DEFINE a == ingest[i].att
             link == ingest[i].link = "row"
  <2>1. /\ Recorded(a) \/ lastRow < MaxRow
        /\ rows' = [rows EXCEPT ![a] =
             IF Recorded(a)
               THEN [@ EXCEPT !.linked = link, !.version = ingest[i].version]
               ELSE [row |-> lastRow + 1, linked |-> link,
                     version |-> ingest[i].version, status |-> "pending"]]
        /\ ingest' = [ingest EXCEPT ![i] =
             [ingest[i] EXCEPT !.step = "recorded", !.link = "none", !.row = rows'[a].row]]
    BY <1>9 DEF UpsertRow
  <2>2. a \in Attachments
    BY <1>0, <1>9 DEF UpsertRow, IngestOK
  <2> HIDE DEF link
  <2> DEFINE r == rows'[a].row
  <2>3. r \in Rows
    <3>1. CASE Recorded(a)
      <4>1. rows[a] \in AttachmentRow
        BY <2>2, <3>1 DEF ShapeInv, StoreOK, Recorded, NoRow
      <4> QED  BY <2>1, <2>2, <3>1, <4>1 DEF ShapeInv, StoreOK, AttachmentRow
    <3>2. CASE ~Recorded(a)
      BY <2>1, <2>2, <3>2, AttachmentAssumption DEF ShapeInv, StoreOK, Rows
    <3> QED  BY <3>1, <3>2
  <2> DEFINE l == [ingest[i] EXCEPT !.step = "recorded", !.link = "none", !.row = r]
  <2>4. ingest' = [ingest EXCEPT ![i] = l]
    BY <2>1
  <2> HIDE DEF r
  <2>5. ingest[i].msg \in Messages /\ ingest[i].version \in Versions
    BY <1>0, <1>9 DEF UpsertRow, IngestOK
  <2>6. LocalOK(l)
    BY <1>0, <2>2, <2>3, <2>5 DEF LocalOK, IngestLocals
  <2> HIDE DEF l
  <2> QED  BY <1>0, <2>4, <2>6, OneLocal
<1> QED  BY <1>2, <1>10, <1>11, <1>4, <1>5, <1>6, <1>7, <1>8, <1>9, <1>12 DEF Take, IngestStep

AnyWork(w) == WorkerStep(w) \/ WorkerDies(w)

LEMMA OneWork ==
  ASSUME WorkOK, NEW w \in Workers, NEW l \in WorkLocals,
         l.step # "idle" => l.att \in Attachments /\ l.row \in Rows,
         work' = [work EXCEPT ![w] = l]
  PROVE  WorkOK'
<1>1. \A v \in Workers : work'[v] = IF v = w THEN l ELSE work[v]
  BY DEF WorkOK
<1> QED  BY <1>1 DEF WorkOK

LEMMA WorkMoves ==
  ASSUME WorkOK, NEW w \in Workers, work[w].step # "idle",
         NEW st \in {"condemned", "marked", "chunked", "replaced", "committed"},
         Moves(w, st)
  PROVE  WorkOK'
<1>1. work[w] \in WorkLocals /\ work[w].att \in Attachments /\ work[w].row \in Rows
  BY DEF WorkOK
<1>2. work' = [work EXCEPT ![w] = [work[w] EXCEPT !.step = st]]
  BY DEF Moves, WorkOK
<1>3. [work[w] EXCEPT !.step = st] \in WorkLocals
  BY <1>1 DEF WorkLocals
<1> QED  BY <1>1, <1>2, <1>3, OneWork DEF WorkLocals

LEMMA WorkLocalsStep ==
  ASSUME ShapeInv, NEW w \in Workers, AnyWork(w)
  PROVE  WorkOK'
<1>0. WorkOK /\ work[w] \in WorkLocals /\ Versions \subseteq 0 .. MaxVersion
      /\ Rows \subseteq 0 .. MaxRow
  BY AttachmentAssumption DEF ShapeInv, WorkOK, Versions, Rows
<1>1. CASE Claim(w)
  BY <1>1 DEF Claim, ShapeInv, WorkOK
<1>2. CASE Load(w)
  <2>1. PICK a \in Attachments :
          /\ Recorded(a)
          /\ work' = [work EXCEPT ![w] = [step |-> "loaded", att |-> a,
                                          row |-> rows[a].row, version |-> 0]]
    BY <1>2 DEF Load
  <2>2. rows[a].row \in Rows
    BY <2>1 DEF ShapeInv, StoreOK, Recorded, NoRow, AttachmentRow
  <2>3. [step |-> "loaded", att |-> a, row |-> rows[a].row, version |-> 0] \in WorkLocals
    <3>1. rows[a].row \in 0 .. MaxRow
      BY <1>0, <2>2
    <3>2. 0 \in 0 .. MaxVersion
      BY AttachmentAssumption
    <3> QED  BY <3>1, <3>2 DEF WorkLocals
  <2> QED  BY <1>0, <2>1, <2>2, <2>3, OneWork
<1>3. CASE Fetch(w)
  <2> DEFINE a == work[w].att
             v == gmail[MessageOf[a]].version
  <2>1. work[w].step = "loaded"
    BY <1>3 DEF Fetch, At
  <2>2. a \in Attachments /\ work[w].row \in Rows
    BY <1>0, <2>1 DEF WorkOK
  <2>3. v \in 0 .. MaxVersion
    BY <1>0, <2>2, AttachmentAssumption DEF ShapeInv, StoreOK
  <2>4. CASE work' = [work EXCEPT ![w].step = "fetched", ![w].version = v]
    <3> HIDE DEF v
    <3> DEFINE l == [work[w] EXCEPT !.step = "fetched", !.version = v]
    <3>1. l \in WorkLocals /\ l.att = a /\ l.row = work[w].row
      BY <1>0, <2>3 DEF WorkLocals
    <3>2. work' = [work EXCEPT ![w] = l]
      BY <1>0, <2>4 DEF WorkOK
    <3> QED  BY <1>0, <2>2, <3>1, <3>2, OneWork
  <2>5. CASE Moves(w, "condemned")
    BY <1>0, <2>1, <2>5, WorkMoves
  <2> QED  BY <1>3, <2>4, <2>5 DEF Fetch
<1>4. CASE ClearPages(w) \/ MarkFailed(w) \/ FindParent(w) \/ ReplacePages(w)
           \/ CommitExtraction(w)
  BY <1>0, <1>4, WorkMoves
     DEF ClearPages, MarkFailed, FindParent, ReplacePages, CommitExtraction, At, Readable
<1>5. CASE LoadFails(w) \/ FetchFails(w) \/ FailForGood(w) \/ MissingParent(w)
           \/ EnqueueDownstream(w) \/ WorkerDies(w)
  <2>1. work' = [work EXCEPT ![w] = Idle]
    BY <1>5 DEF LoadFails, FetchFails, FailForGood, MissingParent, EnqueueDownstream,
                WorkerDies, GivesUp
  <2>2. Idle \in WorkLocals /\ Idle.step = "idle"
    BY AttachmentAssumption DEF Idle, WorkLocals
  <2> QED  BY <1>0, <2>1, <2>2, OneWork
<1> QED  BY <1>1, <1>2, <1>3, <1>4, <1>5 DEF AnyWork, WorkerStep
-----------------------------------------------------------------------------
(* The store and the job table.                                            *)

\* Steps that only move gmail, stored, pages, queued, wiped, missed and skipped.
QuietIngest(i) ==
  \/ \E m \in Messages : GetMessage(i, m)
  \/ SkipVanished(i) \/ Persist(i) \/ EnqueueBody(i) \/ FindMessage(i) \/ IngestDone(i)
  \/ EnqueueRaises(i) \/ IngestDies(i)

QuietWork(w) ==
  Load(w) \/ Fetch(w) \/ ClearPages(w) \/ FindParent(w) \/ ReplacePages(w)

\* What they may do to the store; the attachments' rows are another matter.
PagesOK ==
  /\ stored \subseteq HasText
  /\ pages \in [Attachments -> 0 .. MaxVersion]
  /\ queued \in [Attachments -> 0 .. MaxVersion]
  /\ wiped \subseteq Attachments /\ missed \subseteq Attachments /\ skipped \subseteq Messages

LEMMA DroppedPages ==
  ASSUME PagesOK, NEW as \in SUBSET Attachments, DropPages(as)
  PROVE  /\ pages' \in [Attachments -> 0 .. MaxVersion]
         /\ queued' \in [Attachments -> 0 .. MaxVersion]
         /\ wiped' \subseteq Attachments
<1>1. \A a \in Attachments : pages[a] \in 0 .. MaxVersion /\ queued[a] \in 0 .. MaxVersion
  BY DEF PagesOK
<1>2. 0 \in 0 .. MaxVersion
  BY AttachmentAssumption
<1>3. pages' = [a \in Attachments |-> IF a \in as THEN 0 ELSE pages[a]]
      /\ queued' = [a \in Attachments |-> IF a \in as THEN 0 ELSE queued[a]]
      /\ wiped' \subseteq Attachments
  BY DEF DropPages, PagesOK
<1> QED  BY <1>1, <1>2, <1>3

LEMMA QueuedChunks ==
  ASSUME PagesOK, NEW m, QueueChunksOf(m)
  PROVE  queued' \in [Attachments -> 0 .. MaxVersion]
BY DEF PagesOK, QueueChunksOf

LEMMA PagesStep ==
  ASSUME ShapeInv, Next
  PROVE  PagesOK'
<1>0. PagesOK
  BY DEF ShapeInv, StoreOK, PagesOK
<1>1. ASSUME NEW m \in Messages, GmailChanges(m) \/ GmailToggles(m) PROVE PagesOK'
  BY <1>0, <1>1 DEF PagesOK, GmailChanges, GmailToggles, storeVars
<1>2. ASSUME NEW i \in Ingesters, NEW m \in Messages, GetMessage(i, m) \/ DeleteMessage(i, m)
      PROVE  PagesOK'
  <2>1. CASE GetMessage(i, m)
    BY <1>0, <2>1 DEF PagesOK, GetMessage, storeVars
  <2>2. CASE DeleteMessage(i, m)
    <3>1. PartsOf(m) \in SUBSET Attachments
      BY DEF PartsOf
    <3> QED  BY <1>0, <2>2, <3>1, DroppedPages DEF PagesOK, DeleteMessage
  <2> QED  BY <1>2, <2>1, <2>2
<1>3. ASSUME NEW i \in Ingesters, IngestStep(i) \/ IngestDies(i) PROVE PagesOK'
  <2>1. CASE SkipVanished(i)
    BY <1>0, <2>1 DEF PagesOK, SkipVanished, storeVars, ShapeInv, IngestOK
  <2>2. CASE Persist(i)
    <3>1. PartsOf(ingest[i].msg) \in SUBSET Attachments
      BY DEF PartsOf
    <3> QED  BY <1>0, <2>2, <3>1, DroppedPages DEF PagesOK, Persist
  <2>3. CASE EnqueueBody(i)
    BY <1>0, <2>3, QueuedChunks DEF PagesOK, EnqueueBody
  <2>4. CASE UpsertRow(i)
    BY <1>0, <2>4 DEF PagesOK, UpsertRow
  <2>5. CASE FindMessage(i) \/ InsertJob(i) \/ MarkPending(i) \/ IngestDone(i)
             \/ EnqueueRaises(i) \/ IngestDies(i)
    BY <1>0, <2>5 DEF PagesOK, FindMessage, InsertJob, MarkPending, IngestDone, EnqueueRaises,
                      IngestDies, storeVars
  <2> QED  BY <1>3, <2>1, <2>2, <2>3, <2>4, <2>5 DEF IngestStep
<1>4. ASSUME NEW w \in Workers, AnyWork(w) PROVE PagesOK'
  <2>1. CASE ClearPages(w)
    <3>1. work[w].att \in Attachments
      BY <2>1 DEF ClearPages, At, ShapeInv, WorkOK
    <3>2. {a \in {work[w].att} : MessageOf[a] \in stored} \in SUBSET Attachments
      BY <3>1
    <3> QED  BY <1>0, <2>1, <3>2, DroppedPages DEF PagesOK, ClearPages
  <2>2. CASE ReplacePages(w)
    <3>1. work[w].version \in 0 .. MaxVersion /\ work[w].att \in Attachments
      BY <2>2 DEF ShapeInv, WorkOK, WorkLocals, ReplacePages, At
    <3> QED  BY <1>0, <2>2, <3>1, AttachmentAssumption DEF PagesOK, ReplacePages, WritePages
  <2>3. CASE EnqueueDownstream(w)
    BY <1>0, <2>3, QueuedChunks DEF PagesOK, EnqueueDownstream
  <2>4. CASE Claim(w) \/ Load(w) \/ LoadFails(w) \/ FetchFails(w) \/ Fetch(w)
             \/ MarkFailed(w) \/ FailForGood(w) \/ MissingParent(w) \/ FindParent(w)
             \/ CommitExtraction(w) \/ WorkerDies(w)
    BY <1>0, <2>4 DEF PagesOK, Claim, Load, LoadFails, FetchFails, Fetch, MarkFailed,
                      FailForGood, MissingParent, FindParent, CommitExtraction, WorkerDies,
                      GivesUp, storeVars
  <2> QED  BY <1>4, <2>1, <2>2, <2>3, <2>4 DEF AnyWork, WorkerStep
<1>5. ASSUME NEW j \in JobIds, TimePasses(j) PROVE PagesOK'
  BY <1>0, <1>5 DEF PagesOK, TimePasses, storeVars
<1> QED  BY <1>1, <1>2, <1>3, <1>4, <1>5 DEF Next, Take, AnyWork

\* Steps that leave the attachments' rows and the job table's foreign key be.
Rowless ==
  /\ rows' = rows /\ lastRow' = lastRow
  /\ gmail' \in [Messages -> [there : BOOLEAN, version : Versions]]
  /\ QueueTypeOK' /\ SameJobs

\* What the other steps have to show.
RowsOK ==
  /\ gmail \in [Messages -> [there : BOOLEAN, version : Versions]]
  /\ rows \in [Attachments -> AttachmentRow \cup {NoRow}]
  /\ lastRow \in 0 .. MaxRow
  /\ QueueTypeOK /\ JobsHaveRows

LEMMA RowlessStep ==
  ASSUME RowsOK, Rowless
  PROVE  RowsOK'
BY RowsKept DEF RowsOK, Rowless

LEMMA StatusSet ==
  ASSUME RowsOK, NEW a \in Attachments, NEW r, NEW st \in {"pending", "done", "failed"},
         SetStatus(a, r, st), UNCHANGED <<gmail, lastRow>>, QueueTypeOK', SameJobs
  PROVE  RowsOK'
<1>1. \A b \in Attachments : rows'[b].row = rows[b].row /\ rows'[b] \in AttachmentRow \cup {NoRow}
  <2>1. ASSUME NEW b \in Attachments, rows'[b] # rows[b]
        PROVE  rows'[b].row = rows[b].row /\ rows'[b] \in AttachmentRow
    <3>1. rows[b] \in AttachmentRow \cup {NoRow}
      BY DEF RowsOK
    <3>2. CASE rows[b] \in AttachmentRow
      <4>1. rows'[b] = [rows[b] EXCEPT !.status = st]
        BY <2>1 DEF SetStatus, RowsOK
      <4> QED  BY <3>2, <4>1 DEF AttachmentRow
    <3>3. CASE rows[b] = NoRow
      <4>1. rows'[b] = [rows[b] EXCEPT !.status = st]
        BY <2>1 DEF SetStatus, RowsOK
      <4>2. [NoRow EXCEPT !.status = st] = NoRow
        BY DEF NoRow
      <4> QED  BY <2>1, <3>3, <4>1, <4>2
    <3> QED  BY <3>1, <3>2, <3>3
  <2> QED  BY <2>1 DEF RowsOK
<1>2. rows' \in [Attachments -> AttachmentRow \cup {NoRow}]
  BY <1>1 DEF SetStatus, RowsOK
<1>3. JobsHaveRows'
  BY <1>1, RowsKept DEF RowsOK
<1> QED  BY <1>2, <1>3 DEF RowsOK

LEMMA GmailRows ==
  ASSUME ShapeInv, NEW m \in Messages, GmailChanges(m) \/ GmailToggles(m)
  PROVE  Rowless
<1>1. UNCHANGED <<rows, lastRow, jobs, held, crashes, overruns>>
  BY DEF GmailChanges, GmailToggles, storeVars
<1>2. gmail' \in [Messages -> [there : BOOLEAN, version : Versions]]
  <2>1. CASE GmailToggles(m)
    BY <2>1 DEF ShapeInv, StoreOK, GmailToggles
  <2>2. CASE GmailChanges(m)
    <3> DEFINE v == gmail[m].version + 1
    <3>1. v \in Versions
      BY <2>2, AttachmentAssumption DEF ShapeInv, StoreOK, GmailChanges, Versions
    <3>2. gmail' = [gmail EXCEPT ![m].version = v]
      BY <2>2 DEF GmailChanges
    <3> HIDE DEF v
    <3> QED  BY <3>1, <3>2 DEF ShapeInv, StoreOK
  <2> QED  BY <2>1, <2>2
<1> QED  BY <1>1, <1>2, SameTable DEF Rowless, ShapeInv

\* A row and its job are written one after the other; the foreign key holds in
\* between, since a row that is new has no job yet.
LEMMA UpsertRows ==
  ASSUME ShapeInv, NEW i \in Ingesters, UpsertRow(i)
  PROVE  RowsOK'
<1> DEFINE a == ingest[i].att
           link == ingest[i].link = "row"
           v == ingest[i].version
<1>1. /\ Recorded(a) \/ lastRow < MaxRow
      /\ lastRow' = IF Recorded(a) THEN lastRow ELSE lastRow + 1
      /\ rows' = [rows EXCEPT ![a] =
           IF Recorded(a)
             THEN [@ EXCEPT !.linked = link, !.version = v]
             ELSE [row |-> lastRow + 1, linked |-> link, version |-> v, status |-> "pending"]]
  BY DEF UpsertRow
<1>2. a \in Attachments /\ v \in Versions
  BY DEF ShapeInv, IngestOK, IngestLocals, UpsertRow
<1>3. UNCHANGED <<gmail, jobs, held, crashes, overruns>>
  BY DEF UpsertRow
<1> HIDE DEF a
<1>4. link \in BOOLEAN /\ v \in Versions
  BY <1>2
<1>5. lastRow' \in 0 .. MaxRow
  BY <1>1, AttachmentAssumption DEF ShapeInv, StoreOK
<1>6. \A b \in Attachments : b # a => rows'[b] = rows[b]
  BY <1>1 DEF ShapeInv, StoreOK
<1>7. rows'[a] \in AttachmentRow /\ (Recorded(a) => rows'[a].row = rows[a].row)
  <2>1. CASE Recorded(a)
    <3>1. rows[a] \in AttachmentRow
      BY <1>2, <2>1 DEF ShapeInv, StoreOK, Recorded, NoRow
    <3>2. rows'[a] = [rows[a] EXCEPT !.linked = link, !.version = v]
      BY <1>1, <1>2, <2>1 DEF ShapeInv, StoreOK
    <3> HIDE DEF link, v
    <3> QED  BY <1>4, <3>1, <3>2 DEF AttachmentRow
  <2>2. CASE ~Recorded(a)
    <3>1. rows'[a] = [row |-> lastRow + 1, linked |-> link, version |-> v, status |-> "pending"]
      BY <1>1, <1>2, <2>2 DEF ShapeInv, StoreOK
    <3>2. lastRow + 1 \in Rows
      BY <1>1, <2>2, AttachmentAssumption DEF ShapeInv, StoreOK, Rows
    <3> HIDE DEF link, v
    <3> QED  BY <1>4, <2>2, <3>1, <3>2 DEF AttachmentRow
  <2> QED  BY <2>1, <2>2
<1>8. rows' \in [Attachments -> AttachmentRow \cup {NoRow}]
  BY <1>1, <1>6, <1>7 DEF ShapeInv, StoreOK
<1>9. ASSUME NEW j \in JobIds, InTable(j)'
      PROVE  rows'[jobs'[j].subject].row = jobs'[j].row
  <2>1. InTable(j) /\ jobs'[j] = jobs[j]
    BY <1>3, <1>9 DEF InTable
  <2>2. jobs[j] \in Job /\ rows[jobs[j].subject].row = jobs[j].row
    BY <2>1, JobInTable DEF ShapeInv, JobsHaveRows
  <2>3. jobs[j].subject \in Attachments /\ Recorded(jobs[j].subject)
    BY <2>2 DEF Job, Recorded, Rows
  <2> QED  BY <1>6, <1>7, <2>1, <2>2, <2>3
<1> QED  BY <1>3, <1>5, <1>8, <1>9, SameTable DEF RowsOK, ShapeInv, StoreOK, JobsHaveRows

LEMMA InsertRows ==
  ASSUME ShapeInv, NEW i \in Ingesters, InsertJob(i)
  PROVE  RowsOK'
<1> DEFINE a == ingest[i].att
           r == ingest[i].row
           v == ingest[i].version
<1>1. a \in Attachments /\ r \in Rows /\ v \in Versions
  BY DEF InsertJob, ShapeInv, IngestOK
<1>2. UNCHANGED <<gmail, rows, lastRow, held, crashes, overruns>>
  BY DEF InsertJob, storeVars
<1>3. CASE QueuedFor(a, v) # {}
  <2>1. UNCHANGED jobs
    BY <1>3 DEF InsertJob, Insert
  <2> QED  BY <1>2, <2>1, SameTable, RowlessStep DEF ShapeInv, StoreOK, RowsOK, Rowless
<1>4. CASE QueuedFor(a, v) = {}
  <2> DEFINE new == [subject |-> a, row |-> r, digest |-> v,
                     status |-> "pending", attempts |-> 0, lease |-> "none"]
  <2>1. PICK j \in JobIds : jobs' = [jobs EXCEPT ![j] = new]
    BY <1>4 DEF InsertJob, Insert
  <2>2. rows[a].row = r
    BY <1>4 DEF InsertJob, JobExists, RowExists
  <2>3. new \in Job /\ new.subject = a /\ new.row = r
    BY <1>1 DEF Job
  <2>4. jobs'[j] = new /\ \A k \in JobIds : k # j => jobs'[k] = jobs[k]
    BY <2>1 DEF ShapeInv, QueueTypeOK
  <2> HIDE DEF new, a, r, v
  <2>5. jobs' \in [JobIds -> JobRows]
    BY <2>1, <2>3 DEF ShapeInv, QueueTypeOK, JobRows
  <2>6. JobsHaveRows'
    BY <1>2, <2>2, <2>3, <2>4 DEF ShapeInv, JobsHaveRows, InTable
  <2> QED  BY <1>2, <2>5, <2>6 DEF ShapeInv, StoreOK, RowsOK, QueueTypeOK, JobRows
<1> QED  BY <1>3, <1>4

\* delete_message: rows go, and every job that named one.
LEMMA DeleteRows ==
  ASSUME ShapeInv, NEW i \in Ingesters, NEW m \in Messages, DeleteMessage(i, m)
  PROVE  RowsOK'
<1> DEFINE linked == {a \in PartsOf(m) : Recorded(a) /\ rows[a].linked}
           gone == {rows[a].row : a \in linked}
<1>1. /\ rows' = [a \in Attachments |-> IF a \in linked THEN NoRow ELSE rows[a]]
      /\ jobs' = WithoutJobsOf(gone)
      /\ UNCHANGED <<gmail, lastRow, held, crashes, overruns>>
  BY DEF DeleteMessage
<1>2. \A a \in linked : rows[a].row \in gone
  OBVIOUS
<1> HIDE DEF linked, gone
<1>3. rows' \in [Attachments -> AttachmentRow \cup {NoRow}]
  BY <1>1 DEF ShapeInv, StoreOK
<1>4. /\ jobs' \in [JobIds -> JobRows]
      /\ \A j \in JobIds : InTable(j)' =>
           InTable(j) /\ jobs[j].row \notin gone /\ jobs'[j] = jobs[j]
  BY <1>1 DEF ShapeInv, QueueTypeOK, JobRows, WithoutJobsOf, InTable, Gone
<1>5. ASSUME NEW j \in JobIds, InTable(j)'
      PROVE  rows'[jobs'[j].subject].row = jobs'[j].row
  <2>1. InTable(j) /\ jobs[j].row \notin gone /\ jobs'[j] = jobs[j]
    BY <1>4, <1>5
  <2>2. jobs[j].subject \in Attachments /\ rows[jobs[j].subject].row = jobs[j].row
    BY <2>1, JobInTable DEF ShapeInv, JobsHaveRows, Job
  <2>3. jobs[j].subject \notin linked
    BY <1>2, <2>1, <2>2
  <2> QED  BY <1>1, <2>1, <2>2, <2>3
<1> QED  BY <1>1, <1>3, <1>4, <1>5 DEF RowsOK, ShapeInv, StoreOK, QueueTypeOK, JobRows, JobsHaveRows

LEMMA WorkerRows ==
  ASSUME ShapeInv, NEW w \in Workers, AnyWork(w)
  PROVE  RowsOK'
<1>0. RowsOK /\ QueueTypeOK
  BY DEF ShapeInv, StoreOK, RowsOK
<1>1. CASE QuietWork(w)
  <2>1. UNCHANGED <<gmail, rows, lastRow, jobs, held, crashes, overruns>>
    BY <1>1 DEF QuietWork, Load, Fetch, ClearPages, FindParent, ReplacePages, storeVars
  <2> QED  BY <1>0, <2>1, SameTable, RowlessStep DEF RowsOK, Rowless
<1>2. CASE Claim(w) \/ LoadFails(w) \/ FetchFails(w) \/ FailForGood(w) \/ MissingParent(w)
           \/ WorkerDies(w)
  <2>1. ClaimJob(w) \/ FailJob(w, 0) \/ FailJob(w, MaxAttempts) \/ Crash(w)
    BY <1>2 DEF Claim, LoadFails, FetchFails, FailForGood, MissingParent, GivesUp, WorkerDies
  <2>2. QueueTypeOK' /\ SameJobs
    BY <1>0, <2>1, QueueStep, AttachmentAssumption
  <2>3. UNCHANGED <<gmail, rows, lastRow>>
    BY <1>2 DEF Claim, LoadFails, FetchFails, FailForGood, MissingParent, GivesUp, WorkerDies,
                storeVars
  <2> QED  BY <1>0, <2>2, <2>3, RowlessStep DEF RowsOK, Rowless
<1>3. CASE MarkFailed(w)
  <2>1. work[w].att \in Attachments
    BY <1>3 DEF MarkFailed, At, ShapeInv, WorkOK
  <2>2. QueueTypeOK' /\ SameJobs
    BY <1>0, <1>3, SameTable DEF MarkFailed
  <2> QED  BY <1>0, <1>3, <2>1, <2>2, StatusSet DEF MarkFailed
<1>4. CASE CommitExtraction(w)
  <2>1. work[w].att \in Attachments
    BY <1>4 DEF CommitExtraction, At, ShapeInv, WorkOK
  <2>2. UNCHANGED <<gmail, lastRow, held, crashes, overruns>>
    BY <1>4 DEF CommitExtraction
  <2>3. CASE Running(w)
    <3>1. SetStatus(work[w].att, work[w].row, "done") /\ jobs' = Ended(w, "done")
      BY <1>4, <2>3 DEF CommitExtraction
    <3>2. jobs' \in [JobIds -> JobRows] /\ SameJobs
      BY <1>0, <3>1, RowEnded
    <3>3. QueueTypeOK'
      BY <1>0, <2>2, <3>2 DEF QueueTypeOK, JobRows
    <3> QED  BY <1>0, <2>1, <2>2, <3>1, <3>2, <3>3, StatusSet
  <2>4. CASE ~Running(w)
    <3>1. UNCHANGED <<rows, jobs>>
      BY <1>4, <2>4 DEF CommitExtraction
    <3> QED  BY <1>0, <2>2, <3>1, SameTable, RowlessStep DEF RowsOK, Rowless
  <2> QED  BY <2>3, <2>4
<1>5. CASE EnqueueDownstream(w)
  <2>1. UNCHANGED <<gmail, rows, lastRow, jobs, crashes, overruns>>
        /\ held' \in [Workers -> JobIds \cup {NoJob}]
    BY <1>0, <1>5 DEF EnqueueDownstream, LetGo, QueueTypeOK
  <2>2. QueueTypeOK' /\ SameJobs
    BY <1>0, <2>1 DEF QueueTypeOK, SameJobs, InTable
  <2> QED  BY <1>0, <2>1, <2>2, RowlessStep DEF RowsOK, Rowless
<1> QED  BY <1>1, <1>2, <1>3, <1>4, <1>5 DEF AnyWork, WorkerStep, QuietWork
-----------------------------------------------------------------------------
(* The theorems.                                                           *)

LEMMA RowsStep ==
  ASSUME ShapeInv, Next
  PROVE  RowsOK'
<1>0. RowsOK /\ QueueTypeOK
  BY DEF ShapeInv, StoreOK, RowsOK
<1>1. ASSUME NEW m \in Messages, GmailChanges(m) \/ GmailToggles(m) PROVE RowsOK'
  BY <1>0, <1>1, GmailRows, RowlessStep
<1>2. ASSUME NEW i \in Ingesters, QuietIngest(i) PROVE RowsOK'
  <2>1. CASE IngestDies(i)
    <3>1. UNCHANGED <<gmail, rows, lastRow, jobs, held, overruns>> /\ crashes' \in 0 .. MaxCrashes
      BY <1>0, <2>1, AttachmentAssumption DEF IngestDies, storeVars, QueueTypeOK
    <3>2. QueueTypeOK' /\ SameJobs
      BY <1>0, <3>1 DEF QueueTypeOK, SameJobs, InTable
    <3> QED  BY <1>0, <3>1, <3>2, RowlessStep DEF RowsOK, Rowless
  <2>2. CASE ~IngestDies(i)
    <3>1. UNCHANGED <<gmail, rows, lastRow, jobs, held, crashes, overruns>>
      BY <1>2, <2>2 DEF QuietIngest, GetMessage, SkipVanished, Persist, EnqueueBody, FindMessage, IngestDone,
                        EnqueueRaises, storeVars
    <3> QED  BY <1>0, <3>1, SameTable, RowlessStep DEF RowsOK, Rowless
  <2> QED  BY <2>1, <2>2
<1>3. ASSUME NEW i \in Ingesters, MarkPending(i) PROVE RowsOK'
  <2>1. ingest[i].att \in Attachments
    BY <1>3 DEF MarkPending, ShapeInv, IngestOK
  <2>2. QueueTypeOK' /\ SameJobs
    BY <1>0, <1>3, SameTable DEF MarkPending
  <2> QED  BY <1>0, <1>3, <2>1, <2>2, StatusSet DEF MarkPending
<1>4. ASSUME NEW j \in JobIds, TimePasses(j) PROVE RowsOK'
  <2>1. QueueTypeOK' /\ SameJobs
    BY <1>0, <1>4, LeaseStep DEF TimePasses
  <2> QED  BY <1>0, <1>4, <2>1, RowlessStep DEF TimePasses, storeVars, RowsOK, Rowless
<1>5. ASSUME NEW i \in Ingesters, Take(i) \/ IngestStep(i) \/ IngestDies(i) PROVE RowsOK'
  BY <1>2, <1>3, <1>5, UpsertRows, InsertRows, DeleteRows DEF Take, IngestStep, QuietIngest
<1> QED  BY <1>1, <1>4, <1>5, WorkerRows DEF Next, AnyWork

LEMMA LocalsStep ==
  ASSUME ShapeInv, Next
  PROVE  IngestOK' /\ WorkOK'
<1>0. IngestOK /\ WorkOK
  BY DEF ShapeInv
<1>1. ASSUME NEW i \in Ingesters, Take(i) \/ IngestStep(i) \/ IngestDies(i)
      PROVE  IngestOK' /\ WorkOK'
  <2>1. work' = work
    BY <1>1 DEF Take, IngestStep, GetMessage, DeleteMessage, SkipVanished, Persist, EnqueueBody,
                FindMessage, UpsertRow, InsertJob, MarkPending, IngestDone, EnqueueRaises, IngestDies
  <2> QED  BY <1>0, <1>1, <2>1, IngestLocalsStep DEF WorkOK
<1>2. ASSUME NEW w \in Workers, AnyWork(w) PROVE IngestOK' /\ WorkOK'
  <2>1. ingest' = ingest
    BY <1>2 DEF AnyWork, WorkerStep, Claim, Load, LoadFails, FetchFails, Fetch, ClearPages,
                MarkFailed, FailForGood, MissingParent, FindParent, ReplacePages,
                CommitExtraction, EnqueueDownstream, WorkerDies, GivesUp
  <2> QED  BY <1>0, <1>2, <2>1, WorkLocalsStep DEF IngestOK
<1>3. ASSUME UNCHANGED <<ingest, work>> PROVE IngestOK' /\ WorkOK'
  BY <1>0, <1>3 DEF IngestOK, WorkOK
<1>4. ASSUME NEW m \in Messages, GmailChanges(m) \/ GmailToggles(m) PROVE UNCHANGED <<ingest, work>>
  BY <1>4 DEF GmailChanges, GmailToggles
<1>5. ASSUME NEW j \in JobIds, TimePasses(j) PROVE UNCHANGED <<ingest, work>>
  BY <1>5 DEF TimePasses
<1> QED  BY <1>1, <1>2, <1>3, <1>4, <1>5 DEF Next, AnyWork

LEMMA ShapeStep ==
  ASSUME ShapeInv, [Next]_vars
  PROVE  ShapeInv'
<1>1. CASE Next
  <2>1. RowsOK' /\ PagesOK' /\ IngestOK' /\ WorkOK'
    BY <1>1, RowsStep, PagesStep, LocalsStep
  <2> QED  BY <2>1 DEF ShapeInv, StoreOK, RowsOK, PagesOK
<1>2. CASE UNCHANGED vars
  BY <1>2 DEF vars, storeVars, ShapeInv, StoreOK, IngestOK, WorkOK, QueueTypeOK, JobsHaveRows, InTable
<1> QED  BY <1>1, <1>2

LEMMA InitShape == Init => ShapeInv
<1> SUFFICES ASSUME Init PROVE ShapeInv
  OBVIOUS
<1>1. 1 \in Versions /\ 0 \in 0 .. MaxVersion /\ 0 \in 0 .. MaxRow
      /\ 0 \in 0 .. MaxCrashes /\ 0 \in 0 .. MaxOverruns
  BY AttachmentAssumption DEF Versions
<1>2. StoreOK
  BY <1>1 DEF Init, StoreOK
<1>3. IngestOK
  <2>1. AtRest \in IngestLocals /\ AtRest.step = "idle"
    BY <1>1 DEF AtRest, IngestLocals
  <2> QED  BY <2>1 DEF Init, IngestOK
<1>4. WorkOK
  <2>1. Idle \in WorkLocals /\ Idle.step = "idle"
    BY <1>1 DEF Idle, WorkLocals
  <2> QED  BY <2>1 DEF Init, WorkOK
<1>5. QueueTypeOK /\ JobsHaveRows
  BY <1>1 DEF Init, QueueInit, QueueTypeOK, JobsHaveRows, InTable, Unused
<1> QED  BY <1>2, <1>3, <1>4, <1>5 DEF ShapeInv

LEMMA ShapeAlways == Spec => []ShapeInv
BY InitShape, ShapeStep, PTL DEF Spec

\* Rows, jobs, pages and every process's locals are well formed, and each job
\* in the table names the row its attachment now has, whichever way syncs and
\* deletions interleave: a deleted row takes its jobs along.
THEOREM AttachmentTypeCorrect == Spec => []AttachmentTypeOK
<1>1. ShapeInv => AttachmentTypeOK
  BY DEF ShapeInv, StoreOK, IngestOK, WorkOK, JobsHaveRows, AttachmentTypeOK
<1> QED  BY <1>1, ShapeAlways, PTL

LEMMA ParentsKept ==
  ASSUME ShapeInv, PagesHaveParent, [Next]_vars
  PROVE  PagesHaveParent'
<1>1. ASSUME UNCHANGED <<pages, stored>> PROVE PagesHaveParent'
  BY <1>1 DEF PagesHaveParent
<1>2. CASE UNCHANGED vars
  BY <1>1, <1>2 DEF vars, storeVars
<1>3. ASSUME NEW m \in Messages, GmailChanges(m) \/ GmailToggles(m) PROVE PagesHaveParent'
  BY <1>1, <1>3 DEF GmailChanges, GmailToggles, storeVars
<1>4. ASSUME NEW i \in Ingesters, NEW m \in Messages, DeleteMessage(i, m)
      PROVE  PagesHaveParent'
  <2>1. stored' = stored \ {m}
        /\ \A a \in Attachments : pages'[a] = IF a \in PartsOf(m) THEN 0 ELSE pages[a]
    BY <1>4 DEF DeleteMessage, DropPages
  <2> QED  BY <2>1 DEF PagesHaveParent, PartsOf
<1>5. ASSUME NEW i \in Ingesters, Persist(i) PROVE PagesHaveParent'
  <2>1. stored \subseteq stored'
        /\ \A a \in Attachments : pages'[a] \in {0, pages[a]}
    BY <1>5 DEF Persist, DropPages
  <2> QED  BY <2>1 DEF PagesHaveParent
<1>6. ASSUME NEW i \in Ingesters, Take(i) \/ IngestStep(i) \/ IngestDies(i)
      PROVE  PagesHaveParent'
  BY <1>1, <1>4, <1>5, <1>6
     DEF Take, IngestStep, GetMessage, SkipVanished, EnqueueBody, FindMessage, UpsertRow, InsertJob,
         MarkPending, IngestDone, EnqueueRaises, IngestDies, storeVars
<1>7. ASSUME NEW w \in Workers, ClearPages(w) PROVE PagesHaveParent'
  <2>1. stored' = stored /\ \A a \in Attachments : pages'[a] \in {0, pages[a]}
    BY <1>7 DEF ClearPages, DropPages
  <2> QED  BY <2>1 DEF PagesHaveParent
<1>8. ASSUME NEW w \in Workers, ReplacePages(w) PROVE PagesHaveParent'
  <2>1. CASE ParentStored(w)
    <3>1. stored' = stored
          /\ \A a \in Attachments : pages'[a] = pages[a] \/ a = work[w].att
      BY <1>8, <2>1 DEF ReplacePages, WritePages, ShapeInv, StoreOK
    <3> QED  BY <2>1, <3>1 DEF PagesHaveParent, ParentStored
  <2>2. CASE ~ParentStored(w)
    BY <1>1, <1>8, <2>2 DEF ReplacePages
  <2> QED  BY <2>1, <2>2
<1>9. ASSUME NEW w \in Workers, AnyWork(w) PROVE PagesHaveParent'
  BY <1>1, <1>7, <1>8, <1>9
     DEF AnyWork, WorkerStep, Claim, Load, LoadFails, FetchFails, Fetch, MarkFailed, FailForGood,
         MissingParent, FindParent, CommitExtraction, EnqueueDownstream, WorkerDies, GivesUp,
         storeVars
<1>10. ASSUME NEW j \in JobIds, TimePasses(j) PROVE PagesHaveParent'
  BY <1>1, <1>10 DEF TimePasses, storeVars
<1> QED  BY <1>2, <1>3, <1>6, <1>9, <1>10 DEF Next, AnyWork

\* No page of a PDF is in the index without the message it came with, for any
\* number of syncs deleting and storing messages while workers write, late or
\* twice: replace_attachment_chunks looks for the message in its transaction.
THEOREM PagesHaveParentCorrect == Spec => []PagesHaveParent
<1>1. Init => PagesHaveParent
  BY DEF Init, PagesHaveParent
<1>2. ShapeInv /\ PagesHaveParent /\ [Next]_vars => PagesHaveParent'
  BY ParentsKept
<1> QED  BY <1>1, <1>2, ShapeAlways, PTL DEF Spec
-----------------------------------------------------------------------------
(* Rows keep their ids.                                                    *)

\* Ids are given once: rows differ in them, and nobody knows a later one.
RowsBorn ==
  /\ \A a \in Attachments : Recorded(a) => rows[a].row <= lastRow
  /\ \A a, b \in Attachments : Recorded(a) /\ rows[a].row = rows[b].row => a = b
  /\ \A w \in Workers : work[w].step # "idle" => work[w].row <= lastRow

\* Beside work, a step may change the status, the version and the link of rows
\* and delete rows.
SameIds == lastRow' = lastRow /\ \A a \in Attachments : rows'[a].row \in {0, rows[a].row}

LEMMA IdsKept ==
  ASSUME RowsBorn, SameIds, UNCHANGED work
  PROVE  RowsBorn'
BY DEF RowsBorn, SameIds, Recorded

LEMMA StatusOnly ==
  ASSUME ShapeInv, NEW a \in Attachments, NEW r, NEW st, SetStatus(a, r, st)
  PROVE  \A b \in Attachments : /\ rows'[b].row = rows[b].row
                                /\ Recorded(b) => rows'[b].version = rows[b].version
                                /\ b # a \/ rows[b].row # r => rows'[b] = rows[b]
<1>1. \A b \in Attachments : rows[b] \in AttachmentRow \cup {NoRow}
  BY DEF ShapeInv, StoreOK
<1>2. \A b \in Attachments : b # a => rows'[b] = rows[b]
  BY DEF SetStatus, ShapeInv, StoreOK
<1>3. rows'[a] = IF rows[a].row = r THEN [rows[a] EXCEPT !.status = st] ELSE rows[a]
  BY DEF SetStatus, ShapeInv, StoreOK
<1>4. CASE rows[a] \in AttachmentRow
  BY <1>2, <1>3, <1>4 DEF AttachmentRow
<1>5. CASE rows[a] = NoRow
  BY <1>2, <1>3, <1>5 DEF NoRow, Recorded
<1> QED  BY <1>1, <1>4, <1>5

\* What sync i's upsert does: a row keeps its id, or gets the next one.
RowUpserted(i, a) ==
  /\ a = ingest[i].att
  /\ \A b \in Attachments : b # a => rows'[b] = rows[b]
  /\ rows'[a].version = ingest[i].version
  /\ rows'[a].row # 0
  /\ IF Recorded(a)
       THEN /\ rows'[a].row = rows[a].row /\ rows'[a].status = rows[a].status
            /\ UNCHANGED <<lastRow, wiped, missed>>
       ELSE /\ rows'[a].row = lastRow + 1 /\ rows'[a].status = "pending"
            /\ lastRow' = lastRow + 1 /\ wiped' = wiped \ {a} /\ missed' = missed \ {a}
  /\ ingest' = [ingest EXCEPT ![i] =
       [ingest[i] EXCEPT !.step = "recorded", !.link = "none", !.row = rows'[a].row]]

LEMMA Upserted ==
  ASSUME ShapeInv, NEW i \in Ingesters, UpsertRow(i)
  PROVE  \E a \in Attachments : RowUpserted(i, a)
<1> DEFINE a == ingest[i].att
           link == ingest[i].link = "row"
<1>1. /\ Recorded(a) \/ lastRow < MaxRow
      /\ lastRow' = IF Recorded(a) THEN lastRow ELSE lastRow + 1
      /\ rows' = [rows EXCEPT ![a] =
           IF Recorded(a)
             THEN [@ EXCEPT !.linked = link, !.version = ingest[i].version]
             ELSE [row |-> lastRow + 1, linked |-> link,
                   version |-> ingest[i].version, status |-> "pending"]]
      /\ wiped' = IF Recorded(a) THEN wiped ELSE wiped \ {a}
      /\ missed' = IF Recorded(a) THEN missed ELSE missed \ {a}
      /\ ingest' = [ingest EXCEPT ![i] =
           [ingest[i] EXCEPT !.step = "recorded", !.link = "none", !.row = rows'[a].row]]
  BY DEF UpsertRow
<1>2. a \in Attachments
  BY DEF ShapeInv, IngestOK, UpsertRow
<1>6. a = ingest[i].att
  OBVIOUS
<1> HIDE DEF a, link
<1>3. \A b \in Attachments : b # a => rows'[b] = rows[b]
  BY <1>1 DEF ShapeInv, StoreOK
<1>4. CASE Recorded(a)
  <2>1. rows[a] \in AttachmentRow /\ rows[a].row # 0
    BY <1>2, <1>4 DEF ShapeInv, StoreOK, Recorded, NoRow
  <2>2. rows'[a] = [rows[a] EXCEPT !.linked = link, !.version = ingest[i].version]
    BY <1>1, <1>2, <1>4 DEF ShapeInv, StoreOK
  <2>3. /\ rows'[a].version = ingest[i].version /\ rows'[a].row = rows[a].row
        /\ rows'[a].status = rows[a].status
    BY <2>1, <2>2 DEF AttachmentRow
  <2> QED  BY <1>1, <1>2, <1>3, <1>4, <1>6, <2>1, <2>3 DEF RowUpserted
<1>5. CASE ~Recorded(a)
  <2>1. rows'[a] = [row |-> lastRow + 1, linked |-> link,
                    version |-> ingest[i].version, status |-> "pending"]
    BY <1>1, <1>2, <1>5 DEF ShapeInv, StoreOK
  <2>2. lastRow + 1 # 0
    BY AttachmentAssumption DEF ShapeInv, StoreOK
  <2>3. /\ rows'[a].row = lastRow + 1 /\ rows'[a].status = "pending"
        /\ rows'[a].version = ingest[i].version
    BY <2>1
  <2>4. rows'[a].row # 0
    BY <2>2, <2>3
  <2>5. lastRow' = lastRow + 1 /\ wiped' = wiped \ {a} /\ missed' = missed \ {a}
    BY <1>1, <1>5
  <2> QED  BY <1>1, <1>2, <1>3, <1>5, <1>6, <2>3, <2>4, <2>5 DEF RowUpserted
<1> QED  BY <1>2, <1>4, <1>5

\* What a step of worker w does to its locals.
Proceeds(w) ==
  \/ UNCHANGED work
  \/ /\ work[w].step # "idle"
     /\ \E st \in {"condemned", "marked", "chunked", "replaced", "committed"} :
          work' = [work EXCEPT ![w].step = st]
  \/ work' = [work EXCEPT ![w] = Idle]

LEMMA WorkSteps ==
  ASSUME NEW w \in Workers, AnyWork(w)
  PROVE  Load(w) \/ Fetch(w) \/ Proceeds(w)
<1>1. CASE Claim(w)
  BY <1>1 DEF Claim, Proceeds
<1>2. CASE ClearPages(w) \/ MarkFailed(w) \/ FindParent(w) \/ ReplacePages(w)
           \/ CommitExtraction(w)
  <2>1. \E st \in {"condemned", "marked", "chunked", "replaced", "committed"} : Moves(w, st)
    BY <1>2 DEF ClearPages, MarkFailed, FindParent, ReplacePages, CommitExtraction
  <2>2. work[w].step # "idle"
    BY <1>2 DEF ClearPages, MarkFailed, FindParent, ReplacePages, CommitExtraction, Readable, At
  <2> QED  BY <2>1, <2>2 DEF Moves, Proceeds
<1>3. CASE LoadFails(w) \/ FetchFails(w) \/ FailForGood(w) \/ MissingParent(w)
           \/ EnqueueDownstream(w) \/ WorkerDies(w)
  BY <1>3 DEF LoadFails, FetchFails, FailForGood, MissingParent, EnqueueDownstream,
              WorkerDies, GivesUp, Proceeds
<1> QED  BY <1>1, <1>2, <1>3 DEF AnyWork, WorkerStep

\* Past load_attachment a worker stays with the row it found.
LEMMA WorkIds ==
  ASSUME ShapeInv, NEW w \in Workers, AnyWork(w), NEW v \in Workers,
         work'[v].step # "idle"
  PROVE  \/ /\ work[v].step # "idle"
            /\ work'[v].att = work[v].att /\ work'[v].row = work[v].row
         \/ Recorded(work'[v].att) /\ work'[v].att \in Attachments
            /\ work'[v].row = rows[work'[v].att].row
<1>1. work \in [Workers -> WorkLocals]
  BY DEF ShapeInv, WorkOK
<1>2. CASE Load(w)
  <2>1. PICK a \in Attachments :
          /\ Recorded(a)
          /\ work' = [work EXCEPT ![w] = [step |-> "loaded", att |-> a,
                                          row |-> rows[a].row, version |-> 0]]
    BY <1>2 DEF Load
  <2> QED  BY <1>1, <2>1
<1>3. CASE Fetch(w)
  <2>1. work[w].step = "loaded"
    BY <1>3 DEF Fetch, At
  <2>2. \A u \in Workers : work'[u].att = work[u].att /\ work'[u].row = work[u].row
                           /\ (u # w => work'[u] = work[u])
    BY <1>1, <1>3 DEF Fetch, Moves, WorkLocals
  <2> QED  BY <2>1, <2>2
<1>4. CASE Proceeds(w)
  <2>1. CASE UNCHANGED work
    BY <2>1
  <2>2. ASSUME NEW st \in {"condemned", "marked", "chunked", "replaced", "committed"},
               work' = [work EXCEPT ![w].step = st]
        PROVE  work'[v].att = work[v].att /\ work'[v].row = work[v].row
               /\ (v # w => work'[v] = work[v])
    BY <1>1, <2>2 DEF WorkLocals
  <2>3. CASE work' = [work EXCEPT ![w] = Idle]
    BY <1>1, <2>3 DEF Idle
  <2> QED  BY <1>4, <2>1, <2>2, <2>3 DEF Proceeds
<1> QED  BY <1>2, <1>3, <1>4, WorkSteps

LEMMA RowsBornStep ==
  ASSUME ShapeInv, RowsBorn, [Next]_vars
  PROVE  RowsBorn'
<1>1. ASSUME UNCHANGED <<rows, lastRow>> PROVE SameIds
  BY <1>1 DEF SameIds
<1>2. CASE UNCHANGED vars
  BY <1>1, <1>2, IdsKept DEF vars, storeVars
<1>3. ASSUME NEW m \in Messages, GmailChanges(m) \/ GmailToggles(m) PROVE RowsBorn'
  BY <1>1, <1>3, IdsKept DEF GmailChanges, GmailToggles, storeVars
<1>4. ASSUME NEW i \in Ingesters, Take(i) \/ IngestStep(i) \/ IngestDies(i) PROVE RowsBorn'
  <2>0. UNCHANGED work
    BY <1>4 DEF Take, IngestStep, GetMessage, DeleteMessage, SkipVanished, Persist, EnqueueBody,
                FindMessage, UpsertRow, InsertJob, MarkPending, IngestDone, EnqueueRaises, IngestDies
  <2>1. CASE UpsertRow(i)
    <3>1. PICK a \in Attachments : RowUpserted(i, a)
      BY <2>1, Upserted
    <3>2. lastRow \in Nat /\ \A v \in Workers : work[v].row \in Nat
      BY AttachmentAssumption DEF ShapeInv, StoreOK, WorkOK, WorkLocals
    <3>3. \A b \in Attachments : Recorded(b) => rows[b].row \in Nat
      BY DEF ShapeInv, StoreOK, Recorded, NoRow, AttachmentRow, Rows
    <3>4. CASE Recorded(a)
      <4>1. lastRow' = lastRow /\ \A b \in Attachments : rows'[b].row = rows[b].row
        BY <3>1, <3>4 DEF RowUpserted
      <4> QED  BY <2>0, <4>1, IdsKept DEF SameIds
    <3>5. CASE ~Recorded(a)
      <4>1. /\ lastRow' = lastRow + 1 /\ rows'[a].row = lastRow + 1
            /\ \A b \in Attachments : b # a => rows'[b].row = rows[b].row
        BY <3>1, <3>5 DEF RowUpserted
      <4> QED  BY <2>0, <3>2, <3>3, <4>1 DEF RowsBorn, Recorded
    <3> QED  BY <3>4, <3>5
  <2>2. CASE MarkPending(i)
    <3>1. ingest[i].att \in Attachments
      BY <2>2 DEF MarkPending, ShapeInv, IngestOK
    <3> QED  BY <2>0, <2>2, <3>1, StatusOnly, IdsKept DEF MarkPending, SameIds
  <2>3. CASE \E m \in Messages : DeleteMessage(i, m)
    <3>1. \A a \in Attachments : rows'[a] \in {NoRow, rows[a]}
      BY <2>3 DEF DeleteMessage
    <3>2. lastRow' = lastRow
      BY <2>3 DEF DeleteMessage
    <3> QED  BY <2>0, <3>1, <3>2, IdsKept DEF SameIds, NoRow
  <2> QED  BY <1>1, <1>4, <2>0, <2>1, <2>2, <2>3, IdsKept
           DEF Take, IngestStep, GetMessage, SkipVanished, Persist, EnqueueBody, FindMessage, InsertJob,
               IngestDone, EnqueueRaises, IngestDies, storeVars
<1>5. ASSUME NEW w \in Workers, AnyWork(w) PROVE RowsBorn'
  <2>1. SameIds /\ \A a \in Attachments : rows'[a].row = rows[a].row
    <3>1. CASE MarkFailed(w)
      <4>1. work[w].att \in Attachments
        BY <3>1 DEF MarkFailed, At, ShapeInv, WorkOK
      <4> QED  BY <3>1, <4>1, StatusOnly DEF MarkFailed, SameIds
    <3>2. CASE CommitExtraction(w)
      <4>1. work[w].att \in Attachments
        BY <3>2 DEF CommitExtraction, At, ShapeInv, WorkOK
      <4> QED  BY <3>2, <4>1, StatusOnly DEF CommitExtraction, SameIds
    <3> QED  BY <1>5, <3>1, <3>2
             DEF AnyWork, WorkerStep, Claim, Load, LoadFails, FetchFails, Fetch, ClearPages,
                 FailForGood, MissingParent, FindParent, ReplacePages, EnqueueDownstream,
                 WorkerDies, GivesUp, storeVars, SameIds
  <2>2. \A v \in Workers : work'[v].step # "idle" => work'[v].row <= lastRow
    BY <1>5, WorkIds DEF RowsBorn
  <2> QED  BY <2>1, <2>2 DEF RowsBorn, SameIds, Recorded
<1>6. ASSUME NEW j \in JobIds, TimePasses(j) PROVE RowsBorn'
  BY <1>1, <1>6, IdsKept DEF TimePasses, storeVars
<1> QED  BY <1>2, <1>3, <1>4, <1>5, <1>6 DEF Next, AnyWork
-----------------------------------------------------------------------------
(* What was extracted was written.                                         *)

Shown(a) == pages[a] # 0 \/ a \in wiped \cup missed

\* The row worker w found is still the attachment's.
Current(w) == rows[work[w].att].row = work[w].row

FetchedVersion ==
  \A w \in Workers :
    work[w].step \in {"fetched", "chunked", "replaced"} => work[w].version \in Versions

\* Whoever has written the pages, or found no message for them, can show it,
\* unless the attachment was recorded anew since.
WritersShow ==
  \A w \in Workers : Current(w) /\ work[w].step = "replaced" => Shown(work[w].att)

DoneInv == FetchedVersion /\ WritersShow /\ DoneWasWritten

NewRow(a) == ~Recorded(a) /\ rows'[a].row = lastRow + 1 /\ rows'[a].status = "pending"

\* What a step may do to an attachment that no worker commits.
Moved(a) ==
  /\ \/ rows'[a].row = 0
     \/ NewRow(a)
     \/ rows'[a].row = rows[a].row
        /\ (Recorded(a) /\ rows'[a].status = "done" => rows[a].status = "done")
  /\ Shown(a) => Shown(a)' \/ NewRow(a)

LEMMA StatusMoves ==
  ASSUME ShapeInv, NEW a \in Attachments, NEW r, NEW st, SetStatus(a, r, st),
         UNCHANGED <<pages, wiped, missed, stored>>, NEW b \in Attachments,
         st # "done" \/ b # a \/ rows[b].row # r
  PROVE  Moved(b)
<1>1. rows'[b].row = rows[b].row /\ (b # a \/ rows[b].row # r => rows'[b] = rows[b])
  BY StatusOnly
<1>2. b = a /\ rows[b].row = r /\ Recorded(b) => rows'[b].status = st
  <2> SUFFICES ASSUME b = a, rows[b].row = r, Recorded(b) PROVE rows'[b].status = st
    OBVIOUS
  <2>1. rows[a] \in AttachmentRow
    BY DEF ShapeInv, StoreOK, Recorded, NoRow
  <2>2. rows'[a] = [rows[a] EXCEPT !.status = st]
    BY DEF SetStatus, ShapeInv, StoreOK
  <2> QED  BY <2>1, <2>2 DEF AttachmentRow
<1> QED  BY <1>1, <1>2 DEF Moved, Shown

LEMMA IngestMoves ==
  ASSUME ShapeInv, NEW i \in Ingesters, Take(i) \/ IngestStep(i) \/ IngestDies(i),
         NEW b \in Attachments
  PROVE  Moved(b)
<1>0. ASSUME UNCHANGED <<rows, pages, wiped, missed, stored>> PROVE Moved(b)
  BY <1>0 DEF Moved, Shown
<1>1. CASE UpsertRow(i)
  <2>1. PICK a \in Attachments : RowUpserted(i, a)
    BY <1>1, Upserted
  <2>2. UNCHANGED <<pages, stored>>
    BY <1>1 DEF UpsertRow
  <2>3. b # a => rows'[b] = rows[b]
    BY <2>1 DEF RowUpserted
  <2>4. /\ wiped \subseteq wiped' \cup {a} /\ missed \subseteq missed' \cup {a}
        /\ b = a /\ Recorded(a) => UNCHANGED <<wiped, missed>>
    BY <2>1 DEF RowUpserted
  <2>5. CASE b = a
    BY <2>1, <2>2, <2>4, <2>5 DEF RowUpserted, Moved, NewRow, Shown
  <2> QED  BY <2>2, <2>3, <2>4, <2>5 DEF Moved, Shown
<1>2. CASE MarkPending(i)
  <2>1. ingest[i].att \in Attachments
    BY <1>2 DEF MarkPending, ShapeInv, IngestOK
  <2>2. UNCHANGED <<pages, wiped, missed, stored>> /\ SetStatus(ingest[i].att, ingest[i].row, "pending")
    BY <1>2 DEF MarkPending
  <2> QED  BY <2>1, <2>2, StatusMoves
<1>3. ASSUME NEW m \in Messages, DeleteMessage(i, m) PROVE Moved(b)
  <2>1. rows'[b] \in {NoRow, rows[b]} /\ (Shown(b) => Shown(b)')
    BY <1>3 DEF DeleteMessage, DropPages, Shown
  <2> QED  BY <2>1 DEF Moved, NoRow
<1>4. CASE Persist(i)
  <2>1. rows' = rows /\ stored \subseteq stored' /\ (Shown(b) => Shown(b)')
    BY <1>4 DEF Persist, DropPages, Shown
  <2> QED  BY <2>1 DEF Moved
<1>5. CASE EnqueueBody(i)
  BY <1>0, <1>5 DEF EnqueueBody
<1> QED  BY <1>0, <1>1, <1>2, <1>3, <1>4, <1>5
         DEF Take, IngestStep, GetMessage, SkipVanished, FindMessage, InsertJob, IngestDone, EnqueueRaises,
             IngestDies, storeVars

LEMMA WorkerMoves ==
  ASSUME ShapeInv, FetchedVersion, NEW w \in Workers, AnyWork(w), NEW b \in Attachments
  PROVE  Moved(b) \/ (CommitExtraction(w) /\ b = work[w].att /\ Current(w))
<1>0. ASSUME UNCHANGED <<rows, pages, wiped, missed, stored>> PROVE Moved(b)
  BY <1>0 DEF Moved, Shown
<1>1. CASE MarkFailed(w)
  <2>1. work[w].att \in Attachments
    BY <1>1 DEF MarkFailed, At, ShapeInv, WorkOK
  <2>2. UNCHANGED <<pages, wiped, missed, stored>> /\ SetStatus(work[w].att, work[w].row, "failed")
    BY <1>1 DEF MarkFailed
  <2> QED  BY <2>1, <2>2, StatusMoves
<1>2. CASE CommitExtraction(w)
  <2>1. work[w].att \in Attachments
    BY <1>2 DEF CommitExtraction, At, ShapeInv, WorkOK
  <2>2. UNCHANGED <<pages, wiped, missed, stored>>
        /\ (rows' = rows \/ SetStatus(work[w].att, work[w].row, "done"))
    BY <1>2 DEF CommitExtraction
  <2> QED  BY <1>0, <1>2, <2>1, <2>2, StatusMoves DEF Current
<1>3. CASE ClearPages(w)
  BY <1>3 DEF ClearPages, DropPages, Moved, Shown
<1>4. CASE ReplacePages(w)
  <2>1. CASE ParentStored(w)
    <3>1. work[w].version # 0
      BY <1>4, AttachmentAssumption DEF ReplacePages, At, FetchedVersion, Versions
    <3>2. UNCHANGED <<rows, stored>>
      BY <1>4 DEF ReplacePages
    <3>3. Shown(b) => Shown(b)'
      BY <1>4, <2>1, <3>1 DEF ReplacePages, WritePages, Shown, ShapeInv, StoreOK
    <3> QED  BY <3>2, <3>3 DEF Moved
  <2>2. CASE ~ParentStored(w)
    BY <1>4, <2>2 DEF ReplacePages, Moved, Shown
  <2> QED  BY <2>1, <2>2
<1> QED  BY <1>0, <1>1, <1>2, <1>3, <1>4
         DEF AnyWork, WorkerStep, Claim, Load, LoadFails, FetchFails, Fetch, FailForGood,
             MissingParent, FindParent, EnqueueDownstream, WorkerDies, GivesUp, storeVars

\* How a worker comes by a version, a parent and written pages.
Enters(w) ==
  \/ work'[w] = work[w]
  \/ work'[w].step \notin {"fetched", "chunked", "replaced"}
  \/ work'[w].step = "fetched" /\ work'[w].version \in Versions
  \/ FindParent(w) /\ work'[w] = [work[w] EXCEPT !.step = "chunked"]
  \/ ReplacePages(w) /\ work'[w] = [work[w] EXCEPT !.step = "replaced"]

LEMMA WorkEnters ==
  ASSUME ShapeInv, NEW w \in Workers, AnyWork(w)
  PROVE  Enters(w) /\ \A v \in Workers : v # w => work'[v] = work[v]
<1>1. work \in [Workers -> WorkLocals]
  BY DEF ShapeInv, WorkOK
<1>2. CASE Claim(w)
  BY <1>2 DEF Claim, Enters
<1>3. CASE Load(w)
  BY <1>1, <1>3 DEF Load, Enters
<1>4. CASE Fetch(w)
  <2> DEFINE v == gmail[MessageOf[work[w].att]].version
  <2>1. v \in Versions
    BY <1>4, AttachmentAssumption DEF Fetch, At, ShapeInv, StoreOK, WorkOK
  <2>2. \/ work' = [work EXCEPT ![w].step = "fetched", ![w].version = v]
        \/ work' = [work EXCEPT ![w].step = "condemned"]
    BY <1>4 DEF Fetch, Moves
  <2> HIDE DEF v
  <2> QED  BY <1>1, <2>1, <2>2 DEF Enters, WorkLocals
<1>5. CASE ClearPages(w) \/ MarkFailed(w) \/ CommitExtraction(w)
  BY <1>1, <1>5 DEF ClearPages, MarkFailed, CommitExtraction, Moves, Enters, WorkLocals
<1>6. CASE FindParent(w) \/ ReplacePages(w)
  BY <1>1, <1>6 DEF FindParent, ReplacePages, Moves, Enters
<1>7. CASE LoadFails(w) \/ FetchFails(w) \/ FailForGood(w) \/ MissingParent(w)
           \/ EnqueueDownstream(w) \/ WorkerDies(w)
  BY <1>1, <1>7 DEF LoadFails, FetchFails, FailForGood, MissingParent, EnqueueDownstream,
                    WorkerDies, GivesUp, Idle, Enters
<1> QED  BY <1>2, <1>3, <1>4, <1>5, <1>6, <1>7 DEF AnyWork, WorkerStep

\* Work that stays as it is while attachments move.
LEMMA WriterStays ==
  ASSUME ShapeInv, RowsBorn, WritersShow, NEW v \in Workers, work'[v] = work[v],
         Moved(work[v].att), Current(v)', work[v].step = "replaced"
  PROVE  Shown(work[v].att)'
<1> DEFINE a == work[v].att
<1>1. a \in Attachments /\ work[v].row \in Rows /\ work[v].row <= lastRow
      /\ lastRow \in Nat
  BY AttachmentAssumption DEF ShapeInv, StoreOK, WorkOK, RowsBorn
<1>2. rows'[a].row = work[v].row
  BY DEF Current
<1>3. ~NewRow(a) /\ rows'[a].row # 0
  BY <1>1, <1>2 DEF NewRow, Rows
<1>4. Current(v)
  BY <1>2, <1>3 DEF Moved, Current
<1> QED  BY <1>3, <1>4 DEF WritersShow, Moved

LEMMA WritersStep ==
  ASSUME ShapeInv, RowsBorn, FetchedVersion, WritersShow, NEW w \in Workers, AnyWork(w)
  PROVE  FetchedVersion' /\ WritersShow'
<1>1. FetchedVersion'
  BY WorkEnters DEF FetchedVersion, Enters, FindParent, ReplacePages, At, Readable, ShapeInv,
                    WorkOK, WorkLocals
<1>2. \A v \in Workers :
        work'[v] = work[v] /\ Current(v)' /\ work[v].step = "replaced" => Shown(work[v].att)'
  <2> SUFFICES ASSUME NEW v \in Workers, work'[v] = work[v], Current(v)', work[v].step = "replaced"
               PROVE  Shown(work[v].att)'
    OBVIOUS
  <2>1. work[v].att \in Attachments
    BY DEF ShapeInv, WorkOK
  <2>2. CASE Moved(work[v].att)
    BY <2>2, WriterStays
  <2>3. CASE CommitExtraction(w)
    <3>1. work[w].att \in Attachments
      BY <2>3 DEF CommitExtraction, At, ShapeInv, WorkOK
    <3>2. rows'[work[v].att].row = rows[work[v].att].row
      BY <2>1, <2>3, <3>1, StatusOnly DEF CommitExtraction
    <3>3. UNCHANGED <<pages, wiped, missed, stored>> /\ Current(v)
      BY <2>3, <3>2 DEF CommitExtraction, Current
    <3> QED  BY <3>3 DEF WritersShow, Shown
  <2> QED  BY <2>1, <2>2, <2>3, WorkerMoves
<1>3. CASE work'[w] = work[w]
  <2>1. \A v \in Workers : work'[v] = work[v]
    BY <1>3, WorkEnters
  <2> QED  BY <1>1, <1>2, <2>1 DEF WritersShow, Shown, Current
<1>4. CASE work'[w].step # "replaced"
  <2>1. \A v \in Workers : v # w => work'[v] = work[v]
    BY WorkEnters
  <2> QED  BY <1>1, <1>2, <1>4, <2>1 DEF WritersShow, Shown, Current
<1>5. CASE FindParent(w) /\ work'[w] = [work[w] EXCEPT !.step = "chunked"]
  BY <1>4, <1>5 DEF ShapeInv, WorkOK, WorkLocals
<1>6. CASE ReplacePages(w) /\ work'[w] = [work[w] EXCEPT !.step = "replaced"]
  <2>1. /\ work'[w].att = work[w].att /\ work'[w].step = "replaced" /\ work'[w].row = work[w].row
        /\ work[w].step = "chunked" /\ rows' = rows /\ work[w].att \in Attachments
    BY <1>6 DEF ShapeInv, WorkOK, WorkLocals, ReplacePages, At
  <2>2. Current(w)' => Shown(work[w].att)'
    <3>1. CASE ParentStored(w)
      <4>1. work[w].version # 0
        BY <2>1, AttachmentAssumption DEF FetchedVersion, Versions
      <4>2. pages'[work[w].att] = work[w].version
        BY <1>6, <2>1, <3>1 DEF ReplacePages, WritePages, ShapeInv, StoreOK
      <4> QED  BY <2>1, <4>1, <4>2 DEF Shown
    <3>2. CASE ~ParentStored(w)
      <4>1. work[w].att \in missed'
        BY <1>6, <3>2 DEF ReplacePages
      <4> QED  BY <2>1, <4>1 DEF Shown
    <3> QED  BY <3>1, <3>2
  <2>3. \A v \in Workers : v # w => work'[v] = work[v]
    BY WorkEnters
  <2> QED  BY <1>1, <1>2, <2>1, <2>2, <2>3 DEF WritersShow, Shown, Current
<1> QED  BY <1>3, <1>4, <1>5, <1>6, WorkEnters DEF Enters

\* Only a commit whose row is current makes an attachment "done".
LEMMA DoneKept ==
  ASSUME DoneWasWritten, NEW a \in Attachments, Moved(a)
  PROVE  Recorded(a)' /\ rows'[a].status = "done" => Shown(a)'
<1> SUFFICES ASSUME rows'[a].row # 0, rows'[a].status = "done" PROVE Shown(a)'
  BY DEF Recorded
<1>1. ~NewRow(a)
  BY DEF NewRow
<1>2. Recorded(a) /\ rows[a].status = "done"
  BY <1>1 DEF Moved, Recorded
<1> QED  BY <1>1, <1>2 DEF DoneWasWritten, Moved, Shown

LEMMA DoneStep ==
  ASSUME ShapeInv, RowsBorn, DoneInv, [Next]_vars
  PROVE  DoneInv'
<1>0. FetchedVersion /\ WritersShow /\ DoneWasWritten
  BY DEF DoneInv
<1>1. ASSUME UNCHANGED work, \A a \in Attachments : Moved(a) PROVE DoneInv'
  <2>1. FetchedVersion'
    BY <1>0, <1>1 DEF FetchedVersion
  <2>2. ASSUME NEW v \in Workers, Current(v)', work[v].step = "replaced"
        PROVE  Shown(work[v].att)'
    <3>1. work[v].att \in Attachments /\ work'[v] = work[v]
      BY <1>1, <2>2 DEF ShapeInv, WorkOK
    <3> QED  BY <1>0, <1>1, <2>2, <3>1, WriterStays
  <2>3. WritersShow'
    BY <1>1, <2>2 DEF WritersShow, Shown, Current
  <2>4. DoneWasWritten'
    BY <1>0, <1>1, DoneKept DEF DoneWasWritten, Shown
  <2> QED  BY <2>1, <2>3, <2>4 DEF DoneInv
<1>2. ASSUME UNCHANGED <<work, rows, pages, wiped, missed, stored>> PROVE DoneInv'
  BY <1>1, <1>2 DEF Moved, Shown
<1>3. ASSUME NEW i \in Ingesters, Take(i) \/ IngestStep(i) \/ IngestDies(i) PROVE DoneInv'
  <2>1. UNCHANGED work
    BY <1>3 DEF Take, IngestStep, GetMessage, DeleteMessage, SkipVanished, Persist, EnqueueBody,
                FindMessage, UpsertRow, InsertJob, MarkPending, IngestDone, EnqueueRaises, IngestDies
  <2> QED  BY <1>1, <1>3, <2>1, IngestMoves
<1>4. ASSUME NEW w \in Workers, AnyWork(w) PROVE DoneInv'
  <2>1. FetchedVersion' /\ WritersShow'
    BY <1>0, <1>4, WritersStep
  <2>2. ASSUME NEW a \in Attachments, CommitExtraction(w), a = work[w].att, Current(w)
        PROVE  Shown(a)'
    <3>1. UNCHANGED <<pages, wiped, missed>> /\ work[w].step = "replaced"
      BY <2>2 DEF CommitExtraction, At
    <3> QED  BY <1>0, <2>2, <3>1 DEF WritersShow, Shown
  <2>3. DoneWasWritten'
    BY <1>0, <1>4, <2>2, WorkerMoves, DoneKept DEF DoneWasWritten, Shown
  <2> QED  BY <2>1, <2>3 DEF DoneInv
<1>5. ASSUME NEW m \in Messages, GmailChanges(m) \/ GmailToggles(m) PROVE DoneInv'
  BY <1>2, <1>5 DEF GmailChanges, GmailToggles, storeVars
<1>6. ASSUME NEW j \in JobIds, TimePasses(j) PROVE DoneInv'
  BY <1>2, <1>6 DEF TimePasses, storeVars
<1>7. CASE UNCHANGED vars
  BY <1>2, <1>7 DEF vars, storeVars
<1> QED  BY <1>3, <1>4, <1>5, <1>6, <1>7 DEF Next, AnyWork

LEMMA InitRows == Init => RowsBorn /\ DoneInv
<1> SUFFICES ASSUME Init PROVE RowsBorn /\ DoneInv
  OBVIOUS
<1>1. /\ \A a \in Attachments : ~Recorded(a)
      /\ \A w \in Workers : work[w].step = "idle"
  BY DEF Init, Recorded, NoRow, Idle
<1> QED  BY <1>1 DEF RowsBorn, DoneInv, FetchedVersion, WritersShow, DoneWasWritten

LEMMA RowsAlways == Spec => [](ShapeInv /\ RowsBorn)
<1>1. Init => ShapeInv /\ RowsBorn
  BY InitShape, InitRows
<1>2. ShapeInv /\ RowsBorn /\ [Next]_vars => (ShapeInv /\ RowsBorn)'
  BY ShapeStep, RowsBornStep
<1> QED  BY <1>1, <1>2, PTL DEF Spec

\* Whoever commits an extraction has written its pages, or has looked for the
\* message they belong to and found it gone: no interleaving of two extractions
\* of an attachment with deletions, new rows, expired leases and deaths reports
\* a PDF as done whose pages nobody wrote while there was a message for them.
THEOREM DoneWasWrittenCorrect == Spec => []DoneWasWritten
<1>1. Init => DoneInv
  BY InitRows
<1>2. ShapeInv /\ RowsBorn /\ DoneInv /\ [Next]_vars => DoneInv'
  BY DoneStep
<1>3. DoneInv => DoneWasWritten
  BY DEF DoneInv
<1> QED  BY <1>1, <1>2, <1>3, RowsAlways, PTL DEF Spec
-----------------------------------------------------------------------------
(* Written pages are queued for.                                           *)

Queues(w, a) ==
  held[w] # NoJob /\ work[w].step \in {"replaced", "committed"} /\ work[w].att = a

Unqueued(a) == pages[a] # 0 /\ queued[a] # pages[a]

\* Whoever writes pages nobody queued for queues for them, if it lives.
WritersQueue ==
  crashes = 0 => \A a \in Attachments : Unqueued(a) => \E w \in Workers : Queues(w, a)

\* Removing pages, or queueing for them, leaves none of them unqueued.
LEMMA FewerUnqueued ==
  ASSUME NEW a \in Attachments, NEW as, NEW m,
         (UNCHANGED <<pages, queued>>) \/ DropPages(as) \/ (QueueChunksOf(m) /\ pages' = pages)
  PROVE  Unqueued(a)' => Unqueued(a)
BY DEF Unqueued, DropPages, QueueChunksOf

\* Nothing more unqueued, and no worker quits.
LEMMA QueuersStay ==
  ASSUME WritersQueue, crashes' = 0 => crashes = 0,
         \A a \in Attachments : Unqueued(a)' => Unqueued(a),
         \A w \in Workers, a \in Attachments : Queues(w, a) /\ Unqueued(a)' => Queues(w, a)'
  PROVE  WritersQueue'
BY DEF WritersQueue

LEMMA IngestQueues ==
  ASSUME ShapeInv, WritersQueue, NEW i \in Ingesters, Take(i) \/ IngestStep(i) \/ IngestDies(i)
  PROVE  WritersQueue'
<1>1. UNCHANGED <<work, held>>
  BY DEF Take, IngestStep, GetMessage, DeleteMessage, SkipVanished, Persist, EnqueueBody,
         FindMessage, UpsertRow, InsertJob, MarkPending, IngestDone, EnqueueRaises, IngestDies
<1>2. crashes' = crashes \/ crashes' = crashes + 1
  BY DEF Take, IngestStep, GetMessage, DeleteMessage, SkipVanished, Persist, EnqueueBody,
         FindMessage, UpsertRow, InsertJob, MarkPending, IngestDone, EnqueueRaises, IngestDies
<1>3. crashes' = 0 => crashes = 0
  BY <1>2, AttachmentAssumption DEF ShapeInv, QueueTypeOK
<1>4. \A a \in Attachments : Unqueued(a)' => Unqueued(a)
  <2>1. \/ UNCHANGED <<pages, queued>>
        \/ \E as \in SUBSET Attachments : DropPages(as)
        \/ (QueueChunksOf(ingest[i].msg) /\ pages' = pages)
    BY DEF Take, IngestStep, GetMessage, DeleteMessage, SkipVanished, Persist, EnqueueBody,
           FindMessage, UpsertRow, InsertJob, MarkPending, IngestDone, EnqueueRaises, IngestDies, DropPages,
           PartsOf, storeVars
  <2> QED  BY <2>1, FewerUnqueued
<1> QED  BY <1>1, <1>3, <1>4, QueuersStay DEF Queues

LEMMA WorkerQueues ==
  ASSUME ShapeInv, WritersQueue, NEW w \in Workers, AnyWork(w)
  PROVE  WritersQueue'
<1>0. /\ work \in [Workers -> WorkLocals] /\ held \in [Workers -> JobIds \cup {NoJob}]
      /\ crashes \in Nat
  BY AttachmentAssumption DEF ShapeInv, WorkOK, QueueTypeOK
<1>1. CASE WorkerDies(w)
  <2>1. crashes' # 0
    BY <1>0, <1>1 DEF WorkerDies, Crash
  <2> QED  BY <2>1 DEF WritersQueue
<1>2. CASE Claim(w)
  <2>1. /\ UNCHANGED <<work, pages, queued, crashes>> /\ held[w] = NoJob
        /\ \A v \in Workers : v # w => held'[v] = held[v]
    BY <1>0, <1>2 DEF Claim, ClaimJob, faultVars, storeVars
  <2>2. \A v \in Workers, a \in Attachments : Queues(v, a) => Queues(v, a)'
    BY <2>1 DEF Queues
  <2> QED  BY <2>1, <2>2, FewerUnqueued, QueuersStay
<1>3. CASE LoadFails(w) \/ FetchFails(w) \/ FailForGood(w) \/ MissingParent(w)
  <2>1. /\ UNCHANGED <<pages, queued, crashes>>
        /\ work[w].step \notin {"replaced", "committed"}
        /\ \A v \in Workers : v # w => held'[v] = held[v] /\ work'[v] = work[v]
    BY <1>0, <1>3 DEF LoadFails, FetchFails, FailForGood, MissingParent, GivesUp, FailJob, LetGo,
                      At, Readable, faultVars, storeVars
  <2>2. \A v \in Workers, a \in Attachments : Queues(v, a) => Queues(v, a)'
    BY <2>1 DEF Queues
  <2> QED  BY <2>1, <2>2, FewerUnqueued, QueuersStay
<1>4. CASE Load(w) \/ Fetch(w) \/ ClearPages(w) \/ MarkFailed(w) \/ FindParent(w)
  <2>1. /\ UNCHANGED <<held, crashes>>
        /\ work[w].step \notin {"replaced", "committed"}
        /\ \A v \in Workers : v # w => work'[v] = work[v]
    BY <1>0, <1>4 DEF Load, Fetch, ClearPages, MarkFailed, FindParent, At, Readable, Moves
  <2>2. \A v \in Workers, a \in Attachments : Queues(v, a) => Queues(v, a)'
    BY <2>1 DEF Queues
  <2>3. \/ UNCHANGED <<pages, queued>>
        \/ DropPages({a \in {work[w].att} : MessageOf[a] \in stored})
    BY <1>4 DEF Load, Fetch, ClearPages, MarkFailed, FindParent, DropPages, storeVars
  <2> QED  BY <2>1, <2>2, <2>3, FewerUnqueued, QueuersStay
<1>5. CASE CommitExtraction(w)
  <2>1. /\ UNCHANGED <<held, crashes, pages, queued>> /\ work[w].step = "replaced"
        /\ \A v \in Workers : v # w => work'[v] = work[v]
        /\ work'[w].step = "committed" /\ work'[w].att = work[w].att
    BY <1>0, <1>5 DEF CommitExtraction, At, Moves, WorkLocals
  <2>2. \A v \in Workers, a \in Attachments : Queues(v, a) => Queues(v, a)'
    BY <2>1 DEF Queues
  <2> QED  BY <2>1, <2>2, FewerUnqueued, QueuersStay
<1>6. CASE ReplacePages(w)
  <2> DEFINE b == work[w].att
  <2>1. /\ UNCHANGED <<held, crashes>> /\ work[w].step = "chunked" /\ held[w] # NoJob
        /\ \A v \in Workers : v # w => work'[v] = work[v]
        /\ work'[w].step = "replaced" /\ work'[w].att = b
    BY <1>0, <1>6 DEF ReplacePages, At, Moves, WorkLocals
  <2>2. \A a \in Attachments : a # b => pages'[a] = pages[a] /\ queued'[a] = queued[a]
    BY <1>6 DEF ReplacePages, WritePages, ShapeInv, StoreOK
  <2>3. \A v \in Workers, a \in Attachments : Queues(v, a) => Queues(v, a)'
    BY <2>1 DEF Queues
  <2>4. Queues(w, b)'
    BY <2>1 DEF Queues
  <2> QED  BY <2>1, <2>2, <2>3, <2>4 DEF WritersQueue, Unqueued
<1>7. CASE EnqueueDownstream(w)
  <2> DEFINE b == work[w].att
  <2>1. /\ UNCHANGED <<crashes, pages>> /\ QueueChunksOf(MessageOf[b])
        /\ \A v \in Workers : v # w => held'[v] = held[v] /\ work'[v] = work[v]
    BY <1>0, <1>7 DEF EnqueueDownstream, LetGo
  <2>2. \A a \in Attachments : a = b => ~Unqueued(a)'
    BY <2>1 DEF QueueChunksOf, Unqueued
  <2>3. \A v \in Workers, a \in Attachments : Queues(v, a) /\ Unqueued(a)' => Queues(v, a)'
    BY <2>1, <2>2 DEF Queues
  <2> QED  BY <2>1, <2>3, FewerUnqueued, QueuersStay
<1> QED  BY <1>1, <1>2, <1>3, <1>4, <1>5, <1>6, <1>7 DEF AnyWork, WorkerStep

LEMMA QueuersStep ==
  ASSUME ShapeInv, WritersQueue, [Next]_vars
  PROVE  WritersQueue'
<1>1. ASSUME UNCHANGED <<work, held, crashes, pages, queued>> PROVE WritersQueue'
  BY <1>1 DEF WritersQueue, Queues, Unqueued
<1>2. ASSUME NEW m \in Messages, GmailChanges(m) \/ GmailToggles(m) PROVE WritersQueue'
  BY <1>1, <1>2 DEF GmailChanges, GmailToggles, storeVars
<1>3. ASSUME NEW j \in JobIds, TimePasses(j) PROVE WritersQueue'
  BY <1>1, <1>3 DEF TimePasses, LeaseLapses, LeaseOverrun, faultVars, storeVars
<1>4. CASE UNCHANGED vars
  BY <1>1, <1>4 DEF vars, storeVars
<1> QED  BY <1>2, <1>3, <1>4, IngestQueues, WorkerQueues DEF Next, AnyWork

\* While no process dies, pages in the index have their context and graph jobs
\* once no worker of the attachment is left: _enqueue_downstream follows every
\* write, whether or not commit_extraction was refused, and looks at the pages
\* that are there, not at those it wrote.
THEOREM PagesAreQueuedCorrect == Spec => []PagesAreQueued
<1>1. Init => WritersQueue
  BY DEF Init, WritersQueue, Unqueued
<1>2. ShapeInv /\ WritersQueue /\ [Next]_vars => WritersQueue'
  BY QueuersStep
<1>3. WritersQueue => PagesAreQueued
  BY DEF WritersQueue, PagesAreQueued, Queues, Unqueued, ToBeQueued
<1> QED  BY <1>1, <1>2, <1>3, ShapeAlways, PTL DEF Spec
-----------------------------------------------------------------------------
(* The parts of stored mail have their jobs.                               *)

\* No row of the job table goes, nor what it is for changes.
JobsStay ==
  \A j \in JobIds : InTable(j) =>
    InTable(j)' /\ jobs'[j].subject = jobs[j].subject /\ jobs'[j].digest = jobs[j].digest

HasJob(a) == Recorded(a) /\ QueuedFor(a, rows[a].version) # {}

\* Sync i is still to queue the extraction of a's bytes.
WillQueue(i, a) ==
  /\ ingest[i].msg = MessageOf[a]
  /\ \/ ingest[i].step \in {"retry", "fetched", "persisted"}
     \/ ingest[i].step \in {"listing", "found", "recorded", "marking"} /\ a \in ingest[i].todo
     \/ ingest[i].step = "found" /\ ingest[i].att = a
     \/ /\ ingest[i].step = "recorded" /\ ingest[i].att = a
        /\ Recorded(a) /\ ingest[i].version = rows[a].version

Covered(a) == HasJob(a) \/ \E i \in Ingesters : WillQueue(i, a)

\* A sync lists the parts of its message.
OwnParts ==
  \A i \in Ingesters :
    /\ ingest[i].step \in {"listing", "found", "recorded", "marking"} =>
         ingest[i].todo \subseteq PartsOf(ingest[i].msg)
    /\ ingest[i].step = "found" => ingest[i].att \in PartsOf(ingest[i].msg)

PartsCovered == \A a \in Attachments : MessageOf[a] \in stored \ skipped => Covered(a)

LEMMA ClaimedDigest ==
  ASSUME NEW job \in Job
  PROVE  Claimed(job).digest = job.digest /\ Claimed(job).status = "running"
BY DEF Claimed, Job

LEMMA EndedStays ==
  ASSUME QueueTypeOK, NEW w \in Workers, NEW st \in {"pending", "done", "failed"},
         jobs' = Ended(w, st)
  PROVE  JobsStay
<1> SUFFICES ASSUME NEW j \in JobIds, InTable(j)
             PROVE  InTable(j)' /\ jobs'[j].subject = jobs[j].subject
                    /\ jobs'[j].digest = jobs[j].digest
  BY DEF JobsStay
<1>1. jobs[j] \in Job
  BY JobInTable
<1>2. jobs'[j] = jobs[j] \/ jobs'[j] = [jobs[j] EXCEPT !.status = st, !.lease = "none"]
  BY DEF Ended
<1>3. jobs'[j].status \in {jobs[j].status, st} /\ jobs'[j].subject = jobs[j].subject
      /\ jobs'[j].digest = jobs[j].digest
  BY <1>1, <1>2 DEF Job
<1> QED  BY <1>3 DEF InTable

LEMMA QueueStays ==
  ASSUME QueueTypeOK, NEW w \in Workers, NEW budget \in Nat,
         ClaimJob(w) \/ FailJob(w, budget) \/ Crash(w)
  PROVE  JobsStay
<1>1. CASE ClaimJob(w)
  <2>1. PICK j \in JobIds : Claimable(j) /\ jobs' = [jobs EXCEPT ![j] = Claimed(@)]
    BY <1>1 DEF ClaimJob
  <2>2. jobs[j] \in Job
    BY <2>1, JobInTable DEF Claimable
  <2>3. jobs'[j] = Claimed(jobs[j]) /\ \A k \in JobIds : k # j => jobs'[k] = jobs[k]
    BY <2>1 DEF QueueTypeOK
  <2> QED  BY <2>2, <2>3, ClaimedRow, ClaimedDigest DEF JobsStay, InTable
<1>2. CASE FailJob(w, budget)
  <2>1. PICK st \in {"pending", "failed"} : jobs' = Ended(w, st)
    BY <1>2 DEF FailJob
  <2> QED  BY <2>1, EndedStays
<1>3. CASE Crash(w)
  BY <1>3 DEF Crash, JobsStay, InTable
<1> QED  BY <1>1, <1>2, <1>3

LEMMA LeaseStays ==
  ASSUME QueueTypeOK, NEW j \in JobIds, LeaseLapses(j) \/ LeaseOverrun(j)
  PROVE  JobsStay
<1>1. InTable(j) /\ jobs' = Expired(j)
  BY DEF LeaseLapses, LeaseOverrun, Leased
<1>2. jobs[j] \in Job
  BY <1>1, JobInTable
<1>3. /\ jobs'[j].status = jobs[j].status
      /\ jobs'[j].subject = jobs[j].subject /\ jobs'[j].digest = jobs[j].digest
  BY <1>1, <1>2 DEF QueueTypeOK, Job, Expired
<1>4. \A i \in JobIds : i # j => jobs'[i] = jobs[i]
  BY <1>1 DEF QueueTypeOK, Expired
<1> QED  BY <1>3, <1>4 DEF JobsStay, InTable

\* A row that keeps its id and its bytes keeps its job.
LEMMA JobKept ==
  ASSUME JobsStay, NEW a \in Attachments,
         Recorded(a) => rows'[a].row = rows[a].row /\ rows'[a].version = rows[a].version
  PROVE  HasJob(a) => HasJob(a)'
BY DEF HasJob, JobsStay, QueuedFor, Recorded

LEMMA CoverKept ==
  ASSUME PartsCovered, JobsStay, UNCHANGED ingest,
         stored' \ skipped' \subseteq stored \ skipped,
         \A a \in Attachments : Recorded(a) =>
            rows'[a].row = rows[a].row /\ rows'[a].version = rows[a].version
  PROVE  PartsCovered'
<1> SUFFICES ASSUME NEW a \in Attachments, MessageOf[a] \in stored' \ skipped'
             PROVE  Covered(a)'
  BY DEF PartsCovered
<1>1. Covered(a)
  BY DEF PartsCovered
<1>2. CASE HasJob(a)
  BY <1>2, JobKept DEF Covered
<1>3. ASSUME NEW i \in Ingesters, WillQueue(i, a) PROVE WillQueue(i, a)'
  BY <1>3 DEF WillQueue, Recorded
<1> QED  BY <1>1, <1>2, <1>3 DEF Covered

LEMMA WorkerCovers ==
  ASSUME ShapeInv, PartsCovered, NEW w \in Workers, AnyWork(w)
  PROVE  PartsCovered'
<1>0. QueueTypeOK
  BY DEF ShapeInv
<1>1. UNCHANGED <<ingest, stored, skipped>>
  BY DEF AnyWork, WorkerStep, Claim, Load, LoadFails, FetchFails, Fetch, ClearPages, MarkFailed,
         FailForGood, MissingParent, FindParent, ReplacePages, CommitExtraction,
         EnqueueDownstream, WorkerDies, GivesUp, storeVars
<1>2. JobsStay
  <2>1. ASSUME UNCHANGED jobs PROVE JobsStay
    BY <2>1 DEF JobsStay, InTable
  <2>2. CASE CommitExtraction(w)
    BY <1>0, <2>1, <2>2, EndedStays DEF CommitExtraction
  <2>3. CASE Claim(w) \/ LoadFails(w) \/ FetchFails(w) \/ FailForGood(w) \/ MissingParent(w)
             \/ WorkerDies(w)
    <3>1. ClaimJob(w) \/ FailJob(w, 0) \/ FailJob(w, MaxAttempts) \/ Crash(w)
      BY <2>3 DEF Claim, LoadFails, FetchFails, FailForGood, MissingParent, GivesUp, WorkerDies
    <3> QED  BY <1>0, <3>1, QueueStays, AttachmentAssumption
  <2> QED  BY <2>1, <2>2, <2>3
           DEF AnyWork, WorkerStep, Load, Fetch, ClearPages, MarkFailed, FindParent, ReplacePages,
               EnqueueDownstream, storeVars
<1>3. \A a \in Attachments : Recorded(a) =>
        rows'[a].row = rows[a].row /\ rows'[a].version = rows[a].version
  <2>1. CASE MarkFailed(w) \/ CommitExtraction(w)
    <3>1. work[w].att \in Attachments
      BY <2>1 DEF MarkFailed, CommitExtraction, At, ShapeInv, WorkOK
    <3> QED  BY <2>1, <3>1, StatusOnly DEF MarkFailed, CommitExtraction
  <2> QED  BY <2>1
           DEF AnyWork, WorkerStep, Claim, Load, LoadFails, FetchFails, Fetch, ClearPages,
               FailForGood, MissingParent, FindParent, ReplacePages, EnqueueDownstream,
               WorkerDies, GivesUp, storeVars
<1> QED  BY <1>1, <1>2, <1>3, CoverKept

\* A step of sync i that hands on, or has done, what it was still to do.
LEMMA HandsOn ==
  ASSUME PartsCovered, JobsStay, NEW i \in Ingesters,
         \A k \in Ingesters : k # i => ingest'[k] = ingest[k],
         \A a \in Attachments : Recorded(a) =>
            rows'[a].row = rows[a].row /\ rows'[a].version = rows[a].version,
         \A a \in Attachments : MessageOf[a] \in stored' \ skipped' =>
            \/ Covered(a)'
            \/ MessageOf[a] \in stored \ skipped /\ ~WillQueue(i, a)
  PROVE  PartsCovered'
<1> SUFFICES ASSUME NEW a \in Attachments, MessageOf[a] \in stored \ skipped,
                    ~WillQueue(i, a)
             PROVE  Covered(a)'
  BY DEF PartsCovered
<1>1. Covered(a)
  BY DEF PartsCovered
<1>2. CASE HasJob(a)
  BY <1>2, JobKept DEF Covered
<1>3. ASSUME NEW k \in Ingesters, WillQueue(k, a) PROVE WillQueue(k, a)'
  <2>1. ingest'[k] = ingest[k]
    BY <1>3
  <2> QED  BY <1>3, <2>1 DEF WillQueue, Recorded
<1> QED  BY <1>1, <1>2, <1>3 DEF Covered

LEMMA QuietCovers ==
  ASSUME ShapeInv, PartsCovered, NEW i \in Ingesters, QuietIngest(i)
  PROVE  PartsCovered'
<1>0. /\ ingest \in [Ingesters -> IngestLocals] /\ stored \subseteq HasText
      /\ ingest[i].step # "idle" => ingest[i].msg \in Messages
  BY DEF ShapeInv, IngestOK, StoreOK
<1>1. UNCHANGED <<rows, jobs>>
  BY DEF QuietIngest, GetMessage, SkipVanished, Persist, EnqueueBody, FindMessage, IngestDone, EnqueueRaises,
         IngestDies, storeVars
<1>2. JobsStay
  BY <1>1 DEF JobsStay, InTable
<1>3. \A k \in Ingesters : k # i => ingest'[k] = ingest[k]
  BY <1>0 DEF QuietIngest, GetMessage, SkipVanished, Persist, EnqueueBody, FindMessage, IngestDone,
              EnqueueRaises, IngestDies
<1>4. ASSUME NEW a \in Attachments, MessageOf[a] \in stored' \ skipped'
      PROVE  WillQueue(i, a)' \/ (MessageOf[a] \in stored \ skipped /\ ~WillQueue(i, a))
  <2>1. ASSUME NEW m \in Messages, GetMessage(i, m)
        PROVE  WillQueue(i, a)' \/ (MessageOf[a] \in stored \ skipped /\ ~WillQueue(i, a))
    <3>1. /\ ingest'[i].step = "fetched" /\ ingest'[i].msg = m
          /\ skipped' = skipped \ {m} /\ stored' = stored /\ MayTake(i, m)
      BY <1>0, <2>1 DEF GetMessage, AtRest, storeVars
    <3> QED  BY <1>4, <3>1 DEF MayTake, WillQueue
  <2>2. CASE SkipVanished(i)
    BY <1>4, <2>2 DEF SkipVanished, WillQueue, storeVars
  <2>3. CASE Persist(i)
    <3>1. CASE ingest[i].msg \in HasText
      <4>1. /\ ingest'[i].step = "persisted" /\ ingest'[i].msg = ingest[i].msg
            /\ skipped' = skipped /\ stored' = stored \cup {ingest[i].msg}
        BY <1>0, <2>3, <3>1 DEF Persist, IngestLocals
      <4> QED  BY <1>4, <4>1 DEF WillQueue
    <3>2. CASE ingest[i].msg \notin HasText
      BY <1>0, <1>4, <2>3, <3>2 DEF Persist, WillQueue
    <3> QED  BY <3>1, <3>2
  <2>4. CASE EnqueueBody(i)
    <3>1. /\ ingest'[i].step = "listing" /\ ingest'[i].todo = PartsOf(ingest[i].msg)
          /\ ingest'[i].msg = ingest[i].msg /\ UNCHANGED <<stored, skipped>>
      BY <1>0, <2>4 DEF EnqueueBody, IngestLocals
    <3> QED  BY <1>4, <3>1 DEF WillQueue, PartsOf
  <2>5. CASE IngestDone(i)
    BY <1>4, <2>5 DEF IngestDone, WillQueue, storeVars
  <2>7. CASE FindMessage(i)
    <3>1. /\ ingest[i].step = "listing" /\ ingest'[i].step = "found"
          /\ ingest'[i].todo = ingest[i].todo \ {ingest'[i].att}
          /\ ingest'[i].msg = ingest[i].msg /\ UNCHANGED <<stored, skipped>>
      <4>1. /\ ingest[i] \in IngestLocals /\ IngestOK
            /\ ingest[i].step = "listing" /\ UNCHANGED <<stored, skipped>>
        BY <1>0, <2>7 DEF FindMessage, storeVars, ShapeInv
      <4>2. PICK b \in ingest[i].todo, link \in {"none", "row"} : ingest' = [ingest EXCEPT ![i] =
              [ingest[i] EXCEPT !.step = "found", !.todo = ingest[i].todo \ {b}, !.att = b,
                                !.link = link]]
        BY <2>7, <4>1, FoundLocal
      <4> QED  BY <1>0, <4>1, <4>2 DEF IngestLocals
    <3> QED  BY <1>4, <3>1 DEF WillQueue
  <2>6. CASE EnqueueRaises(i) \/ IngestDies(i)
    <3>1. /\ ingest'[i].step = "retry" /\ ingest'[i].msg = ingest[i].msg
          /\ UNCHANGED <<stored, skipped>>
      BY <1>0, <2>6 DEF EnqueueRaises, IngestDies, AtRest, storeVars
    <3> QED  BY <1>4, <3>1 DEF WillQueue
  <2> QED  BY <2>1, <2>2, <2>3, <2>4, <2>5, <2>6, <2>7 DEF QuietIngest
<1>5. \A a \in Attachments : MessageOf[a] \in stored' \ skipped' =>
        \/ Covered(a)'
        \/ MessageOf[a] \in stored \ skipped /\ ~WillQueue(i, a)
  BY <1>4 DEF Covered
<1> QED  BY <1>1, <1>2, <1>3, <1>5, HandsOn

\* The message's parts lose rows and jobs, those of other messages neither:
\* rows of two attachments have two ids.
LEMMA DeletionCovers ==
  ASSUME ShapeInv, RowsBorn, PartsCovered, NEW i \in Ingesters, NEW m \in Messages,
         DeleteMessage(i, m)
  PROVE  PartsCovered'
<1> DEFINE linked == {a \in PartsOf(m) : Recorded(a) /\ rows[a].linked}
           gone == {rows[a].row : a \in linked}
<1>1. /\ rows' = [a \in Attachments |-> IF a \in linked THEN NoRow ELSE rows[a]]
      /\ jobs' = WithoutJobsOf(gone)
      /\ stored' = stored \ {m} /\ skipped' = skipped \ {m}
      /\ ingest' = [k \in Ingesters |-> IF k = i THEN AtRest ELSE Unlinked(ingest[k], m)]
      /\ MayTake(i, m)
  BY DEF DeleteMessage
<1>2. \A r \in gone : \E b \in Attachments : MessageOf[b] = m /\ Recorded(b) /\ rows[b].row = r
  BY DEF PartsOf
<1>3. \A a \in linked : a \in Attachments /\ MessageOf[a] = m
  BY DEF PartsOf
<1> HIDE DEF linked, gone
<1> SUFFICES ASSUME NEW a \in Attachments, MessageOf[a] \in stored' \ skipped'
             PROVE  Covered(a)'
  BY DEF PartsCovered
<1>4. MessageOf[a] # m /\ MessageOf[a] \in stored \ skipped
  BY <1>1
<1>5. Covered(a)
  BY <1>4 DEF PartsCovered
<1>6. rows'[a] = rows[a]
  BY <1>1, <1>3, <1>4
<1>7. CASE HasJob(a)
  <2>1. PICK j \in JobIds : InTable(j) /\ jobs[j].subject = a /\ jobs[j].digest = rows[a].version
    BY <1>7 DEF HasJob, QueuedFor
  <2>2. jobs[j].row = rows[a].row
    BY <2>1 DEF ShapeInv, JobsHaveRows
  <2>3. jobs[j].row \notin gone
    BY <1>2, <1>4, <2>2 DEF RowsBorn
  <2>4. jobs'[j] = jobs[j]
    BY <1>1, <2>1, <2>3 DEF WithoutJobsOf
  <2> QED  BY <1>6, <1>7, <2>1, <2>4 DEF Covered, HasJob, QueuedFor, InTable, Recorded
<1>8. ASSUME NEW k \in Ingesters, WillQueue(k, a) PROVE WillQueue(k, a)'
  <2>1. k # i
    BY <1>1, <1>4, <1>8 DEF MayTake, WillQueue
  <2>2. /\ ingest'[k].step = ingest[k].step /\ ingest'[k].msg = ingest[k].msg
        /\ ingest'[k].version = ingest[k].version /\ ingest'[k].todo = ingest[k].todo
        /\ ingest'[k].att = ingest[k].att
    BY <1>1, <2>1, UnlinkedKeeps DEF ShapeInv, IngestOK
  <2> QED  BY <1>6, <1>8, <2>2 DEF WillQueue, Recorded
<1> QED  BY <1>5, <1>7, <1>8 DEF Covered

\* The row has new bytes, and the sync that gave it them is to queue for them.
LEMMA UpsertCovers ==
  ASSUME ShapeInv, OwnParts, PartsCovered, NEW i \in Ingesters, UpsertRow(i)
  PROVE  PartsCovered'
<1>1. PICK b \in Attachments : RowUpserted(i, b)
  BY Upserted
<1>2. UNCHANGED <<jobs, stored, skipped>> /\ ingest[i].step = "found"
  BY DEF UpsertRow
<1>3. ingest \in [Ingesters -> IngestLocals]
  BY DEF ShapeInv, IngestOK
<1>4. /\ ingest'[i].step = "recorded" /\ ingest'[i].todo = ingest[i].todo
      /\ ingest'[i].att = b /\ ingest[i].att = b /\ ingest'[i].msg = ingest[i].msg
      /\ ingest'[i].version = ingest[i].version
      /\ \A k \in Ingesters : k # i => ingest'[k] = ingest[k]
  BY <1>1, <1>3 DEF RowUpserted, IngestLocals
<1> SUFFICES ASSUME NEW a \in Attachments, MessageOf[a] \in stored \ skipped
             PROVE  Covered(a)'
  BY <1>2 DEF PartsCovered
<1>5. Covered(a)
  BY DEF PartsCovered
<1>6. CASE a # b
  <2>1. rows'[a] = rows[a]
    BY <1>1, <1>6 DEF RowUpserted
  <2>2. HasJob(a) => HasJob(a)'
    BY <1>2, <2>1 DEF HasJob, QueuedFor, InTable, Recorded
  <2>3. ASSUME NEW k \in Ingesters, WillQueue(k, a) PROVE WillQueue(k, a)'
    BY <1>2, <1>4, <1>6, <2>1, <2>3 DEF WillQueue, Recorded
  <2> QED  BY <1>5, <2>2, <2>3 DEF Covered
<1>7. CASE a = b
  <2>1. rows'[a].row # 0 /\ rows'[a].version = ingest[i].version
    BY <1>1, <1>7 DEF RowUpserted
  <2>2. MessageOf[a] = ingest[i].msg
    BY <1>1, <1>2, <1>7 DEF RowUpserted, OwnParts, PartsOf
  <2>3. WillQueue(i, a)'
    BY <1>4, <1>7, <2>1, <2>2 DEF WillQueue, Recorded
  <2> QED  BY <2>3 DEF Covered
<1> QED  BY <1>6, <1>7

\* A job for the bytes the sync recorded, of the row it recorded.
LEMMA InsertCovers ==
  ASSUME ShapeInv, PartsCovered, NEW i \in Ingesters, InsertJob(i)
  PROVE  PartsCovered'
<1> DEFINE b == ingest[i].att
           v == ingest[i].version
           r == ingest[i].row
<1>1. /\ UNCHANGED <<rows, stored, skipped>> /\ ingest[i].step = "recorded"
      /\ b \in Attachments /\ r \in Rows /\ v \in Versions
  BY DEF InsertJob, storeVars, ShapeInv, IngestOK
<1>2. /\ ingest'[i].step \in {"listing", "marking"} /\ ingest'[i].todo = ingest[i].todo
      /\ ingest'[i].msg = ingest[i].msg
      /\ \A k \in Ingesters : k # i => ingest'[k] = ingest[k]
  BY DEF InsertJob, ShapeInv, IngestOK, IngestLocals
<1>3. JobsStay /\ \E j \in JobIds : InTable(j)' /\ jobs'[j].subject = b /\ jobs'[j].digest = v
  <2>1. CASE QueuedFor(b, v) # {}
    <3>1. UNCHANGED jobs
      BY <2>1 DEF InsertJob, Insert
    <3> QED  BY <2>1, <3>1 DEF JobsStay, QueuedFor, InTable
  <2>2. CASE QueuedFor(b, v) = {}
    <3> DEFINE new == [subject |-> b, row |-> r, digest |-> v,
                       status |-> "pending", attempts |-> 0, lease |-> "none"]
    <3>1. PICK j \in JobIds : jobs[j].status = "absent" /\ jobs' = [jobs EXCEPT ![j] = new]
      BY <2>2 DEF InsertJob, Insert
    <3>2. new.subject = b /\ new.digest = v /\ new.status = "pending"
      OBVIOUS
    <3>3. jobs'[j] = new /\ \A k \in JobIds : k # j => jobs'[k] = jobs[k]
      BY <3>1 DEF ShapeInv, QueueTypeOK
    <3> HIDE DEF new
    <3>4. JobsStay
      BY <3>1, <3>3 DEF JobsStay, InTable
    <3>5. InTable(j)' /\ jobs'[j].subject = b /\ jobs'[j].digest = v
      BY <3>2, <3>3 DEF InTable
    <3> QED  BY <3>4, <3>5
  <2> QED  BY <2>1, <2>2
<1>4. Recorded(b)
  <2>1. CASE RowExists(i)
    BY <1>1, <2>1 DEF RowExists, Recorded, Rows
  <2>2. CASE JobExists(i)
    <3>1. PICK j \in JobIds : InTable(j) /\ jobs[j].subject = b
      BY <2>2 DEF JobExists, QueuedFor
    <3>2. jobs[j].row \in Rows /\ rows[b].row = jobs[j].row
      BY <3>1, JobInTable DEF ShapeInv, JobsHaveRows, Job
    <3> QED  BY <3>2 DEF Recorded, Rows
  <2> QED  BY <2>1, <2>2 DEF InsertJob
<1>5. ASSUME NEW a \in Attachments, a = b, rows[a].version = v PROVE HasJob(a)'
  <2>1. rows'[a].row # 0 /\ rows'[a].version = v
    BY <1>1, <1>4, <1>5 DEF Recorded
  <2>2. \E j \in JobIds : InTable(j)' /\ jobs'[j].subject = a /\ jobs'[j].digest = rows'[a].version
    BY <1>3, <1>5, <2>1
  <2> QED  BY <2>1, <2>2 DEF HasJob, Recorded, QueuedFor, InTable
<1> SUFFICES ASSUME NEW a \in Attachments, MessageOf[a] \in stored \ skipped
             PROVE  Covered(a)'
  BY <1>1 DEF PartsCovered
<1>6. Covered(a)
  BY DEF PartsCovered
<1>7. HasJob(a) => HasJob(a)'
  BY <1>1, <1>3, JobKept
<1>8. ASSUME NEW k \in Ingesters, WillQueue(k, a) PROVE WillQueue(k, a)' \/ HasJob(a)'
  <2>1. CASE k # i
    <3>1. ingest'[k] = ingest[k]
      BY <1>2, <2>1
    <3> QED  BY <1>1, <1>8, <3>1 DEF WillQueue, Recorded
  <2>2. CASE k = i /\ a \in ingest[i].todo
    <3>1. ingest[i].msg = MessageOf[a]
      BY <1>8, <2>2 DEF WillQueue
    <3> QED  BY <1>2, <2>2, <3>1 DEF WillQueue
  <2>3. CASE k = i /\ a \notin ingest[i].todo
    <3>1. a = b /\ rows[a].version = v
      BY <1>1, <1>8, <2>3 DEF WillQueue
    <3> QED  BY <1>5, <3>1
  <2> QED  BY <2>1, <2>2, <2>3
<1> QED  BY <1>6, <1>7, <1>8 DEF Covered

LEMMA OwnPartsStep ==
  ASSUME ShapeInv, OwnParts, NEW i \in Ingesters, Take(i) \/ IngestStep(i) \/ IngestDies(i)
  PROVE  OwnParts'
<1>1. ingest \in [Ingesters -> IngestLocals]
  BY DEF ShapeInv, IngestOK
<1>2. \A k \in Ingesters : k # i =>
         /\ ingest'[k].step = ingest[k].step /\ ingest'[k].msg = ingest[k].msg
         /\ ingest'[k].todo = ingest[k].todo /\ ingest'[k].att = ingest[k].att
  <2>1. ASSUME NEW m \in Messages, DeleteMessage(i, m), NEW k \in Ingesters, k # i
        PROVE  ingest'[k] = Unlinked(ingest[k], m)
    BY <2>1 DEF DeleteMessage
  <2>2. \/ \A k \in Ingesters : k # i => ingest'[k] = ingest[k]
        \/ \E m \in Messages : DeleteMessage(i, m)
    BY <1>1 DEF Take, IngestStep, GetMessage, SkipVanished, Persist, EnqueueBody, FindMessage,
                UpsertRow, InsertJob, MarkPending, IngestDone, EnqueueRaises, IngestDies
  <2> QED  BY <1>1, <2>1, <2>2, UnlinkedKeeps
<1>3. /\ ingest'[i].step \in {"listing", "found", "recorded", "marking"} =>
           ingest'[i].todo \subseteq PartsOf(ingest'[i].msg)
      /\ ingest'[i].step = "found" => ingest'[i].att \in PartsOf(ingest'[i].msg)
  <2>1. ASSUME ingest[i].step \in {"listing", "found", "recorded", "marking"},
               ingest'[i].todo \subseteq ingest[i].todo, ingest'[i].msg = ingest[i].msg
        PROVE  ingest'[i].todo \subseteq PartsOf(ingest'[i].msg)
    BY <2>1 DEF OwnParts
  <2>4. CASE UpsertRow(i)
    <3>1. PICK b \in Attachments : RowUpserted(i, b)
      BY <2>4, Upserted
    <3>2. /\ ingest'[i].todo = ingest[i].todo /\ ingest'[i].msg = ingest[i].msg
          /\ ingest'[i].step = "recorded"
      BY <1>1, <3>1 DEF RowUpserted, IngestLocals
    <3> QED  BY <2>1, <2>4, <3>2 DEF UpsertRow
  <2>6. CASE FindMessage(i)
    <3>1. /\ ingest[i].step = "listing" /\ ingest'[i].att \in ingest[i].todo
          /\ ingest'[i].todo \subseteq ingest[i].todo /\ ingest'[i].msg = ingest[i].msg
      <4>1. ingest[i] \in IngestLocals /\ IngestOK /\ ingest[i].step = "listing"
        BY <1>1, <2>6 DEF FindMessage, ShapeInv
      <4>2. PICK b \in ingest[i].todo, link \in {"none", "row"} : ingest' = [ingest EXCEPT ![i] =
              [ingest[i] EXCEPT !.step = "found", !.todo = ingest[i].todo \ {b}, !.att = b,
                                !.link = link]]
        BY <2>6, <4>1, FoundLocal
      <4> QED  BY <1>1, <4>1, <4>2 DEF IngestLocals
    <3> QED  BY <2>1, <3>1 DEF OwnParts
  <2>5. CASE InsertJob(i) \/ MarkPending(i)
    <3>1. /\ ingest'[i].todo = ingest[i].todo /\ ingest'[i].msg = ingest[i].msg
          /\ ingest'[i].step \in {"listing", "marking"}
      BY <1>1, <2>5 DEF InsertJob, MarkPending, IngestLocals
    <3> QED  BY <2>1, <2>5, <3>1 DEF InsertJob, MarkPending
  <2>2. CASE Persist(i) \/ EnqueueBody(i)
    <3>1. /\ ingest'[i].msg = ingest[i].msg /\ ingest'[i].step \in {"persisted", "listing"}
          /\ (ingest'[i].step = "persisted" \/ ingest'[i].todo = PartsOf(ingest[i].msg))
      BY <1>1, <2>2 DEF Persist, EnqueueBody, IngestLocals
    <3> QED  BY <3>1
  <2>3. CASE Take(i) \/ SkipVanished(i) \/ IngestDone(i) \/ EnqueueRaises(i) \/ IngestDies(i)
    <3>1. ASSUME NEW m \in Messages, GetMessage(i, m) PROVE ingest'[i].step = "fetched"
      BY <1>1, <3>1 DEF GetMessage, AtRest
    <3>2. ASSUME NEW m \in Messages, DeleteMessage(i, m) PROVE ingest'[i].step = "idle"
      BY <1>1, <3>2 DEF DeleteMessage, AtRest
    <3>3. CASE SkipVanished(i) \/ IngestDone(i)
      BY <1>1, <3>3 DEF SkipVanished, IngestDone, AtRest
    <3>4. CASE EnqueueRaises(i) \/ IngestDies(i)
      BY <1>1, <3>4 DEF EnqueueRaises, IngestDies, AtRest
    <3> QED  BY <2>3, <3>1, <3>2, <3>3, <3>4 DEF Take
  <2> QED  BY <2>2, <2>3, <2>4, <2>5, <2>6 DEF IngestStep
<1> QED  BY <1>2, <1>3 DEF OwnParts, PartsOf

LEMMA PartsStep ==
  ASSUME ShapeInv, RowsBorn, OwnParts, PartsCovered, [Next]_vars
  PROVE  OwnParts' /\ PartsCovered'
<1>1. ASSUME UNCHANGED <<ingest, rows, stored, skipped>>, JobsStay
      PROVE  OwnParts' /\ PartsCovered'
  BY <1>1, CoverKept DEF OwnParts, PartsOf
<1>2. ASSUME UNCHANGED jobs PROVE JobsStay
  BY <1>2 DEF JobsStay, InTable
<1>3. ASSUME NEW m \in Messages, GmailChanges(m) \/ GmailToggles(m)
      PROVE  OwnParts' /\ PartsCovered'
  BY <1>1, <1>2, <1>3 DEF GmailChanges, GmailToggles, storeVars
<1>4. ASSUME NEW j \in JobIds, TimePasses(j) PROVE OwnParts' /\ PartsCovered'
  BY <1>1, <1>4, LeaseStays DEF TimePasses, storeVars, ShapeInv
<1>5. CASE UNCHANGED vars
  BY <1>1, <1>2, <1>5 DEF vars, storeVars
<1>6. ASSUME NEW w \in Workers, AnyWork(w) PROVE OwnParts' /\ PartsCovered'
  <2>1. ingest' = ingest
    BY <1>6 DEF AnyWork, WorkerStep, Claim, Load, LoadFails, FetchFails, Fetch, ClearPages,
                MarkFailed, FailForGood, MissingParent, FindParent, ReplacePages,
                CommitExtraction, EnqueueDownstream, WorkerDies, GivesUp
  <2> QED  BY <1>6, <2>1, WorkerCovers DEF OwnParts, PartsOf
<1>7. ASSUME NEW i \in Ingesters, Take(i) \/ IngestStep(i) \/ IngestDies(i)
      PROVE  OwnParts' /\ PartsCovered'
  <2>1. CASE MarkPending(i)
    <3>1. ingest[i].att \in Attachments /\ ingest \in [Ingesters -> IngestLocals]
      BY <2>1 DEF MarkPending, ShapeInv, IngestOK
    <3>2. UNCHANGED <<jobs, stored, skipped>> /\ ingest[i].step = "marking"
      BY <2>1 DEF MarkPending
    <3>3. \A a \in Attachments : Recorded(a) =>
            rows'[a].row = rows[a].row /\ rows'[a].version = rows[a].version
      BY <2>1, <3>1, StatusOnly DEF MarkPending
    <3>4. /\ ingest'[i].step = "listing" /\ ingest'[i].todo = ingest[i].todo
          /\ ingest'[i].msg = ingest[i].msg
          /\ \A k \in Ingesters : k # i => ingest'[k] = ingest[k]
      BY <2>1, <3>1 DEF MarkPending, IngestLocals
    <3>5. \A a \in Attachments : WillQueue(i, a) => WillQueue(i, a)'
      BY <3>2, <3>4 DEF WillQueue
    <3> QED  BY <1>2, <1>7, <3>2, <3>3, <3>4, <3>5, HandsOn, OwnPartsStep DEF Covered
  <2> QED  BY <1>7, <2>1, QuietCovers, DeletionCovers, UpsertCovers, InsertCovers, OwnPartsStep
           DEF Take, IngestStep, QuietIngest
<1> QED  BY <1>3, <1>4, <1>5, <1>6, <1>7 DEF Next, AnyWork

\* Stored mail that no sync is at has a row for each of its PDFs and a job for
\* the bytes in that row, whatever deaths, retries, deletions and second syncs
\* of the message fall between the four statements of enqueue.
THEOREM PartsAreQueuedCorrect == Spec => []PartsAreQueued
<1>1. Init => OwnParts /\ PartsCovered
  BY DEF Init, OwnParts, PartsCovered, AtRest
<1>2. ShapeInv /\ RowsBorn /\ (OwnParts /\ PartsCovered) /\ [Next]_vars => (OwnParts /\ PartsCovered)'
  BY PartsStep
<1>3. PartsCovered => PartsAreQueued
  BY DEF PartsCovered, PartsAreQueued, Covered, HasJob, WillQueue, Underway
<1> QED  BY <1>1, <1>2, <1>3, RowsAlways, PTL DEF Spec
=============================================================================
