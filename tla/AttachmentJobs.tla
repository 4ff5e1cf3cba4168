--------------------------- MODULE AttachmentJobs ---------------------------
(***************************************************************************)
(* PDF attachments: the sync persists a message, records its PDF parts and *)
(* queues an extraction each (gmail/sink.py), and the workers of           *)
(* rag/attachments/worker.py fetch the bytes, write page chunks next to    *)
(* the message's own and mark the job done.                                *)
(*                                                                         *)
(* Every committed statement is one step: nothing here spans two of them.  *)
(* The bytes of an attachment are the number of their version, its page    *)
(* chunks the version they were made from.                                 *)
(***************************************************************************)
EXTENDS Integers, FiniteSets

CONSTANTS
  Messages,     \* message ids
  Attachments,  \* Gmail attachment ids of PDF parts
  MessageOf,    \* attachment -> message
  HasText,      \* the messages whose body has authored text to chunk
  Unreadable,   \* the versions that are no PDF, encrypted or oversized
  NoMessage, NoAttachment,
  Ingesters,    \* sync workers
  Storers,      \* bound: those that store mail; the others only apply deletions
  Workers,      \* attachment workers
  MaxVersion,   \* bound: versions of an attachment
  MaxRow,       \* bound: rows ever inserted into email_attachments
  MaxAttempts, MaxJobs, MaxCrashes, MaxOverruns,
  MaxFaults     \* bound: crashes and overruns together

ASSUME AttachmentAssumption ==
  /\ NoMessage \notin Messages /\ NoAttachment \notin Attachments
  /\ MessageOf \in [Attachments -> Messages]
  /\ HasText \subseteq Messages
  /\ MaxVersion \in Nat \ {0}
  /\ Unreadable \subseteq 1 .. MaxVersion
  /\ Storers \subseteq Ingesters /\ MaxFaults \in Nat
  /\ MaxRow \in Nat /\ MaxJobs \in Nat /\ MaxAttempts \in Nat \ {0}
  /\ MaxCrashes \in Nat /\ MaxOverruns \in Nat

VARIABLES
  gmail,    \* message -> whether Gmail has it, and the version of its parts
  stored,   \* the messages in email_messages
  rows,     \* email_attachments: attachment -> row, or NoRow
  lastRow,  \* newest id given to a row
  pages,    \* attachment -> version of its chunks in email_chunks, or 0
  queued,   \* attachment -> version of its chunks that context and graph jobs
            \* were queued for, or 0
  wiped,    \* history: attachments whose chunks were written and dropped since
  missed,   \* history: those whose message was gone when they were to be written
  skipped,  \* history: messages a retried sync left as they were, as Gmail
            \* had them no more
  ingest,   \* ingester -> the message it stores and how far it is
  work,     \* worker -> its locals
  jobs, held, crashes, overruns

storeVars == <<stored, rows, lastRow, pages, queued, wiped, missed>>
vars == <<gmail, skipped, storeVars, ingest, work, jobs, held, crashes, overruns>>

Versions == 1 .. MaxVersion
Rows == 1 .. MaxRow

INSTANCE EnrichmentQueue
  WITH Subjects <- Attachments, RowIds <- Rows, Digests <- Versions

\* version is the byte_size column, which the digest is made from; linked says
\* whether message_db_id names the message's row.
AttachmentRow == [row : Rows, linked : BOOLEAN, version : Versions,
                  status : {"pending", "done", "failed"}]
NoRow == [row |-> 0]

PartsOf(m) == {a \in Attachments : MessageOf[a] = m}
Recorded(a) == rows[a].row # 0

\* link is the id of the message's row that enqueue has looked up: none, the
\* present row's, or that of a row deleted since.
IngestLocals == [step : {"idle", "fetched", "persisted", "listing", "found", "recorded",
                         "marking", "retry"},
                 msg : Messages \cup {NoMessage}, version : 0 .. MaxVersion,
                 todo : SUBSET Attachments, att : Attachments \cup {NoAttachment},
                 link : {"none", "row", "lost"}, row : 0 .. MaxRow]
WorkLocals == [step : {"idle", "loaded", "fetched", "condemned", "marked", "chunked",
                       "replaced", "committed"},
               att : Attachments \cup {NoAttachment}, row : 0 .. MaxRow,
               version : 0 .. MaxVersion]

AtRest == [step |-> "idle", msg |-> NoMessage, version |-> 0,
           todo |-> {}, att |-> NoAttachment, link |-> "none", row |-> 0]
Idle == [step |-> "idle", att |-> NoAttachment, row |-> 0, version |-> 0]

Init ==
  /\ gmail = [m \in Messages |-> [there |-> TRUE, version |-> 1]]
  /\ stored = {}
  /\ rows = [a \in Attachments |-> NoRow]
  /\ lastRow = 0
  /\ pages = [a \in Attachments |-> 0]
  /\ queued = [a \in Attachments |-> 0]
  /\ wiped = {} /\ missed = {} /\ skipped = {}
  /\ ingest = [i \in Ingesters |-> AtRest]
  /\ work = [w \in Workers |-> Idle]
  /\ QueueInit

-----------------------------------------------------------------------------
(* Gmail.                                                                  *)

GmailChanges(m) ==
  /\ gmail[m].there /\ gmail[m].version < MaxVersion
  /\ gmail' = [gmail EXCEPT ![m].version = @ + 1]
  /\ UNCHANGED <<skipped, storeVars, ingest, work, jobs, held, crashes, overruns>>

\* Moved to the trash, or out of it.
GmailToggles(m) ==
  /\ gmail' = [gmail EXCEPT ![m].there = ~@]
  /\ UNCHANGED <<skipped, storeVars, ingest, work, jobs, held, crashes, overruns>>

-----------------------------------------------------------------------------
(* The sync.                                                               *)

MayTake(i, m) ==
  \/ ingest[i].step = "idle"
  \/ ingest[i].step = "retry" /\ ingest[i].msg = m

\* _ingest_messages reads the message ...
GetMessage(i, m) ==
  /\ i \in Storers /\ MayTake(i, m) /\ gmail[m].there
  /\ ingest' = [ingest EXCEPT ![i] =
       [AtRest EXCEPT !.step = "fetched", !.msg = m, !.version = gmail[m].version]]
  /\ skipped' = skipped \ {m}
  /\ UNCHANGED <<gmail, storeVars, work, jobs, held, crashes, overruns>>

\* ... or finds, when retried, that it vanished.
SkipVanished(i) ==
  /\ ingest[i].step = "retry" /\ ~gmail[ingest[i].msg].there
  /\ ingest' = [ingest EXCEPT ![i] = AtRest]
  /\ skipped' = skipped \cup {ingest[i].msg}
  /\ UNCHANGED <<gmail, storeVars, work, jobs, held, crashes, overruns>>

\* The chunks of these attachments leave email_chunks, their jobs with them.
DropPages(as) ==
  /\ pages' = [a \in Attachments |-> IF a \in as THEN 0 ELSE pages[a]]
  /\ queued' = [a \in Attachments |-> IF a \in as THEN 0 ELSE queued[a]]
  /\ wiped' = wiped \cup {a \in as : pages[a] # 0}

\* persist: reprocess_message keeps the chunks of the body and deletes every
\* other chunk of the message, page chunks too. Without a chunk, nothing is
\* stored, not even the message.
Persist(i) ==
  /\ ingest[i].step = "fetched"
  /\ IF ingest[i].msg \in HasText
       THEN /\ stored' = stored \cup {ingest[i].msg}
            /\ DropPages(PartsOf(ingest[i].msg))
            /\ ingest' = [ingest EXCEPT ![i].step = "persisted"]
       ELSE /\ UNCHANGED <<stored, pages, queued, wiped>>
            /\ ingest' = [ingest EXCEPT ![i].step = "listing",
                                        ![i].todo = PartsOf(ingest[i].msg)]
  /\ UNCHANGED <<gmail, skipped, rows, lastRow, missed, work, jobs, held, crashes, overruns>>

\* Every chunk of the message gets its context and graph jobs.
QueueChunksOf(m) ==
  queued' = [a \in Attachments |-> IF MessageOf[a] = m THEN pages[a] ELSE queued[a]]

EnqueueBody(i) ==
  /\ ingest[i].step = "persisted"
  /\ QueueChunksOf(ingest[i].msg)
  /\ ingest' = [ingest EXCEPT ![i].step = "listing", ![i].todo = PartsOf(ingest[i].msg)]
  /\ UNCHANGED <<gmail, skipped, stored, rows, lastRow, pages, wiped, missed, work, jobs, held, crashes, overruns>>

\* enqueue, statement 1: the id of the message's row.
FindMessage(i) ==
  /\ ingest[i].step = "listing"
  /\ \E a \in ingest[i].todo :
       ingest' = [ingest EXCEPT ![i] = [ingest[i] EXCEPT
         !.step = "found", !.todo = ingest[i].todo \ {a}, !.att = a,
         !.link = IF ingest[i].msg \in stored THEN "row" ELSE "none"]]
  /\ UNCHANGED <<gmail, skipped, storeVars, work, jobs, held, crashes, overruns>>

\* enqueue, statement 2: upsert the attachment's row.
UpsertRow(i) ==
  /\ ingest[i].step = "found" /\ ingest[i].link # "lost"
  /\ LET a == ingest[i].att
         link == ingest[i].link = "row"
         new == [row |-> lastRow + 1, linked |-> link,
                 version |-> ingest[i].version, status |-> "pending"]
     IN  /\ Recorded(a) \/ lastRow < MaxRow
         /\ lastRow' = IF Recorded(a) THEN lastRow ELSE lastRow + 1
         /\ rows' = [rows EXCEPT ![a] =
              IF Recorded(a)
                THEN [@ EXCEPT !.linked = link, !.version = ingest[i].version]
                ELSE new]
         /\ wiped' = IF Recorded(a) THEN wiped ELSE wiped \ {a}
         /\ missed' = IF Recorded(a) THEN missed ELSE missed \ {a}
         /\ ingest' = [ingest EXCEPT ![i] = [@ EXCEPT
              !.step = "recorded", !.link = "none", !.row = rows'[a].row]]
  /\ UNCHANGED <<gmail, skipped, stored, pages, queued, work, jobs, held, crashes, overruns>>

JobExists(i) == QueuedFor(ingest[i].att, ingest[i].version) # {}
RowExists(i) == rows[ingest[i].att].row = ingest[i].row

\* Mutant: queue a job for a row just inserted only.
InsertForNewRow(i) ==
  /\ ingest[i].step = "recorded"
  /\ RowExists(i) \/ JobExists(i)
  /\ IF \E j \in JobIds : InTable(j) /\ jobs[j].subject = ingest[i].att
       THEN UNCHANGED jobs
       ELSE Insert(ingest[i].att, ingest[i].row, ingest[i].version)
  /\ ingest' = [ingest EXCEPT ![i].step = "listing"]
  /\ UNCHANGED <<gmail, skipped, storeVars, work, held, crashes, overruns>>

\* enqueue, statement 3: insert the job, or find one in any state.
InsertJob(i) ==
  /\ ingest[i].step = "recorded"
  /\ RowExists(i) \/ JobExists(i)
  /\ Insert(ingest[i].att, ingest[i].row, ingest[i].version)
  /\ ingest' = [ingest EXCEPT ![i].step = IF JobExists(i) THEN "listing" ELSE "marking"]
  /\ UNCHANGED <<gmail, skipped, storeVars, work, held, crashes, overruns>>

SetStatus(a, r, st) ==
  rows' = [rows EXCEPT ![a] = IF @.row = r THEN [@ EXCEPT !.status = st] ELSE @]

\* enqueue, statement 4: the attachment has new work.
MarkPending(i) ==
  /\ ingest[i].step = "marking"
  /\ SetStatus(ingest[i].att, ingest[i].row, "pending")
  /\ ingest' = [ingest EXCEPT ![i].step = "listing"]
  /\ UNCHANGED <<gmail, skipped, stored, lastRow, pages, queued, wiped, missed, work, jobs, held, crashes, overruns>>

IngestDone(i) ==
  /\ ingest[i].step = "listing" /\ ingest[i].todo = {}
  /\ ingest' = [ingest EXCEPT ![i] = AtRest]
  /\ UNCHANGED <<gmail, skipped, storeVars, work, jobs, held, crashes, overruns>>

\* The foreign key refuses a row of a message, or a job of a row, deleted since;
\* the sync job fails and is retried.
EnqueueRaises(i) ==
  /\ \/ ingest[i].step = "found" /\ ingest[i].link = "lost"
     \/ ingest[i].step = "recorded" /\ ~RowExists(i) /\ ~JobExists(i)
  /\ ingest' = [ingest EXCEPT ![i] = [AtRest EXCEPT !.step = "retry", !.msg = ingest[i].msg]]
  /\ UNCHANGED <<gmail, skipped, storeVars, work, jobs, held, crashes, overruns>>

\* A bound.
MayFault == crashes + overruns < MaxFaults

IngestDies(i) ==
  /\ ingest[i].step \notin {"idle", "retry"}
  /\ crashes < MaxCrashes /\ MayFault
  /\ crashes' = crashes + 1
  /\ ingest' = [ingest EXCEPT ![i] = [AtRest EXCEPT !.step = "retry", !.msg = ingest[i].msg]]
  /\ UNCHANGED <<gmail, skipped, storeVars, work, jobs, held, overruns>>

\* What a sync knows of a message's row is of no use once that is deleted.
Unlinked(sync, m) ==
  IF sync.msg = m /\ sync.link = "row" THEN [sync EXCEPT !.link = "lost"] ELSE sync

\* delete_message: the chunks of the message by its id, the attachment rows and
\* their jobs by cascade from the message's row.
DeleteMessage(i, m) ==
  /\ MayTake(i, m) /\ ~gmail[m].there
  /\ LET linked == {a \in PartsOf(m) : Recorded(a) /\ rows[a].linked}
     IN  /\ rows' = [a \in Attachments |-> IF a \in linked THEN NoRow ELSE rows[a]]
         /\ jobs' = WithoutJobsOf({rows[a].row : a \in linked})
  /\ stored' = stored \ {m} /\ skipped' = skipped \ {m}
  /\ DropPages(PartsOf(m))
  /\ ingest' = [k \in Ingesters |-> IF k = i THEN AtRest ELSE Unlinked(ingest[k], m)]
  /\ UNCHANGED <<gmail, lastRow, missed, work, held, crashes, overruns>>

-----------------------------------------------------------------------------
(* The workers.                                                            *)

At(w, step) == held[w] # NoJob /\ work[w].step = step

Claim(w) == ClaimJob(w) /\ UNCHANGED <<gmail, skipped, storeVars, ingest, work>>

Moves(w, step) == work' = [work EXCEPT ![w].step = step]

JobRow(w) == IF InTable(held[w]) THEN jobs[held[w]].row ELSE 0

\* load_attachment finds the row the job names, if row and job are there.
Load(w) ==
  /\ At(w, "idle")
  /\ \E a \in Attachments :
       /\ Recorded(a) /\ rows[a].row = JobRow(w)
       /\ work' = [work EXCEPT ![w] = [step |-> "loaded", att |-> a,
                                       row |-> rows[a].row, version |-> 0]]
  /\ UNCHANGED <<gmail, skipped, storeVars, ingest, jobs, held, crashes, overruns>>

\* The job goes back, or is given up, and the worker is free.
GivesUp(w, budget) ==
  /\ FailJob(w, budget)
  /\ work' = [work EXCEPT ![w] = Idle]
  /\ UNCHANGED <<gmail, skipped, storeVars, ingest>>

LoadFails(w) ==
  /\ At(w, "idle")
  /\ \A a \in Attachments : Recorded(a) => rows[a].row # JobRow(w)
  /\ GivesUp(w, 0)

\* get_attachment raises.
FetchFails(w) == At(w, "loaded") /\ GivesUp(w, MaxAttempts)

\* get_attachment: the present bytes, or none when the message is gone.
Fetch(w) ==
  /\ At(w, "loaded")
  /\ LET at == gmail[MessageOf[work[w].att]]
     IN  IF at.there
           THEN work' = [work EXCEPT ![w].step = "fetched", ![w].version = at.version]
           ELSE Moves(w, "condemned")
  /\ UNCHANGED <<gmail, skipped, storeVars, ingest, jobs, held, crashes, overruns>>

\* No PDF, encrypted, oversized: the chunks of an earlier version go.
ClearPages(w) ==
  /\ At(w, "fetched") /\ work[w].version \in Unreadable
  /\ DropPages({a \in {work[w].att} : MessageOf[a] \in stored})
  /\ Moves(w, "condemned")
  /\ UNCHANGED <<gmail, skipped, stored, rows, lastRow, missed, ingest, jobs, held, crashes, overruns>>

MarkFailed(w) ==
  /\ At(w, "condemned")
  /\ SetStatus(work[w].att, work[w].row, "failed")
  /\ Moves(w, "marked")
  /\ UNCHANGED <<gmail, skipped, stored, lastRow, pages, queued, wiped, missed, ingest, jobs, held, crashes, overruns>>

FailForGood(w) == At(w, "marked") /\ GivesUp(w, 0)

Readable(w) == At(w, "fetched") /\ work[w].version \notin Unreadable
ParentStored(w) == MessageOf[work[w].att] \in stored

\* _parent_message.
MissingParent(w) == Readable(w) /\ ~ParentStored(w) /\ GivesUp(w, MaxAttempts)

\* Mutant: the job is finished before the chunks are written.
FinishFirst(w) ==
  /\ Readable(w) /\ ParentStored(w)
  /\ SetStatus(work[w].att, work[w].row, "done")
  /\ jobs' = Ended(w, "done")
  /\ Moves(w, "chunked")
  /\ UNCHANGED <<gmail, skipped, stored, lastRow, pages, queued, wiped, missed, ingest, held, crashes, overruns>>

FindParent(w) ==
  /\ Readable(w) /\ ParentStored(w)
  /\ Moves(w, "chunked")
  /\ UNCHANGED <<gmail, skipped, storeVars, ingest, jobs, held, crashes, overruns>>

WritePages(w) ==
  /\ pages' = [pages EXCEPT ![work[w].att] = work[w].version]
  /\ queued' = [queued EXCEPT ![work[w].att] = IF @ = work[w].version THEN @ ELSE 0]
  /\ wiped' = wiped \ {work[w].att} /\ missed' = missed \ {work[w].att}

\* Mutant: the parent was looked up already.
ReplaceBlindly(w) ==
  /\ At(w, "chunked")
  /\ WritePages(w)
  /\ Moves(w, "replaced")
  /\ UNCHANGED <<gmail, skipped, stored, rows, lastRow, ingest, jobs, held, crashes, overruns>>

\* replace_attachment_chunks looks for the message once more; nobody asks
\* whether it found one.
ReplacePages(w) ==
  /\ At(w, "chunked")
  /\ IF ParentStored(w)
       THEN WritePages(w)
       ELSE missed' = missed \cup {work[w].att} /\ UNCHANGED <<pages, queued, wiped>>
  /\ Moves(w, "replaced")
  /\ UNCHANGED <<gmail, skipped, stored, rows, lastRow, ingest, jobs, held, crashes, overruns>>

Running(w) == InTable(held[w]) /\ jobs[held[w]].status = "running"

\* Mutant: a worker whose commit is refused does not go on.
CommitOrQuit(w) ==
  /\ At(w, "replaced")
  /\ IF Running(w)
       THEN /\ SetStatus(work[w].att, work[w].row, "done")
            /\ jobs' = Ended(w, "done")
            /\ Moves(w, "committed")
            /\ UNCHANGED held
       ELSE /\ work' = [work EXCEPT ![w] = Idle]
            /\ LetGo(w)
            /\ UNCHANGED <<rows, jobs>>
  /\ UNCHANGED <<gmail, skipped, stored, lastRow, pages, queued, wiped, missed, ingest, crashes, overruns>>

\* commit_extraction: nothing is written unless the job is still running; the
\* worker goes on either way.
CommitExtraction(w) ==
  /\ At(w, "replaced")
  /\ IF Running(w)
       THEN /\ SetStatus(work[w].att, work[w].row, "done")
            /\ jobs' = Ended(w, "done")
       ELSE UNCHANGED <<rows, jobs>>
  /\ Moves(w, "committed")
  /\ UNCHANGED <<gmail, skipped, stored, lastRow, pages, queued, wiped, missed, ingest, held, crashes, overruns>>

EnqueueDownstream(w) ==
  /\ At(w, "committed")
  /\ QueueChunksOf(MessageOf[work[w].att])
  /\ work' = [work EXCEPT ![w] = Idle]
  /\ LetGo(w)
  /\ UNCHANGED <<gmail, skipped, stored, rows, lastRow, pages, wiped, missed, ingest, jobs, crashes, overruns>>

WorkerDies(w) ==
  /\ Crash(w) /\ MayFault
  /\ work' = [work EXCEPT ![w] = Idle]
  /\ UNCHANGED <<gmail, skipped, storeVars, ingest>>

TimePasses(j) ==
  /\ LeaseLapses(j) \/ (LeaseOverrun(j) /\ MayFault)
  /\ UNCHANGED <<gmail, skipped, storeVars, ingest, work>>

-----------------------------------------------------------------------------
IngestStep(i) ==
  \/ SkipVanished(i) \/ Persist(i) \/ EnqueueBody(i) \/ FindMessage(i) \/ UpsertRow(i)
  \/ InsertJob(i) \/ MarkPending(i) \/ IngestDone(i) \/ EnqueueRaises(i)

Take(i) == \E m \in Messages : GetMessage(i, m) \/ DeleteMessage(i, m)

\* What a sync does with a message once it has begun.
Proceed(i) == IngestStep(i) \/ (ingest[i].step = "retry" /\ Take(i))

WorkerStep(w) ==
  \/ Claim(w) \/ Load(w) \/ LoadFails(w) \/ FetchFails(w) \/ Fetch(w)
  \/ ClearPages(w) \/ MarkFailed(w) \/ FailForGood(w)
  \/ MissingParent(w) \/ FindParent(w) \/ ReplacePages(w)
  \/ CommitExtraction(w) \/ EnqueueDownstream(w)

Next ==
  \/ \E m \in Messages : GmailChanges(m) \/ GmailToggles(m)
  \/ \E i \in Ingesters : Take(i) \/ IngestStep(i) \/ IngestDies(i)
  \/ \E w \in Workers : WorkerStep(w) \/ WorkerDies(w)
  \/ \E j \in JobIds : TimePasses(j)

Spec == Init /\ [][Next]_vars

\* Workers poll for ever and what they call returns or raises; a sync under way
\* goes on or is retried; clocks advance. Nothing makes Gmail change, a new
\* sync begin or a process die.
Fairness ==
  /\ \A i \in Ingesters : WF_vars(Proceed(i))
  /\ \A w \in Workers : WF_vars(WorkerStep(w))
  /\ \A j \in JobIds : WF_vars(LeaseLapses(j) /\ UNCHANGED <<gmail, skipped, storeVars, ingest, work>>)

FairSpec == Spec /\ Fairness

-----------------------------------------------------------------------------
(* Properties.                                                             *)

\* Rows, jobs and processes stay well formed; a job in the table names a row
\* that is still there, of the attachment it is for.
AttachmentTypeOK ==
  /\ gmail \in [Messages -> [there : BOOLEAN, version : Versions]]
  /\ stored \subseteq HasText
  /\ rows \in [Attachments -> AttachmentRow \cup {NoRow}]
  /\ lastRow \in 0 .. MaxRow
  /\ pages \in [Attachments -> 0 .. MaxVersion]
  /\ queued \in [Attachments -> 0 .. MaxVersion]
  /\ wiped \subseteq Attachments /\ missed \subseteq Attachments /\ skipped \subseteq Messages
  /\ ingest \in [Ingesters -> IngestLocals]
  /\ work \in [Workers -> WorkLocals]
  /\ QueueTypeOK
  /\ \A j \in JobIds : InTable(j) => rows[jobs[j].subject].row = jobs[j].row

\* A page chunk is never in the index without its message, however late a
\* worker writes: mail that was deleted cannot be found through its PDF.
PagesHaveParent ==
  \A a \in Attachments : pages[a] # 0 => MessageOf[a] \in stored

Underway(m) == \E i \in Ingesters : ingest[i].msg = m

\* When a message is stored and nobody is at it, each of its PDFs has a row and
\* that row's bytes a job, whichever statement a crash came between. (A sync
\* that is retried after Gmail lost the message leaves what there is.)
PartsAreQueued ==
  \A a \in Attachments :
    MessageOf[a] \in stored \ skipped /\ ~Underway(MessageOf[a]) =>
      Recorded(a) /\ QueuedFor(a, rows[a].version) # {}

\* An attachment is reported as extracted only when its pages were written, or
\* when the message was gone as they were to be: the worker then reports it all
\* the same (hence `missed`). Written pages may have been dropped since: by a
\* sync that stored the message again or deleted it, or by a worker that found
\* newer bytes unreadable (hence `wiped`).
DoneWasWritten ==
  \A a \in Attachments :
    Recorded(a) /\ rows[a].status = "done" => pages[a] # 0 \/ a \in wiped \cup missed

\* Somebody is still to queue the chunks of a: a worker, or a sync.
ToBeQueued(a) ==
  \/ \E w \in Workers : held[w] # NoJob /\ work[w].att = a
  \/ \E i \in Ingesters : ingest[i].msg = MessageOf[a]

Finished(a) == \A j \in JobIds : InTable(j) /\ jobs[j].subject = a => jobs[j].status = "done"

\* While no process dies, the page chunks of a finished extraction have context
\* and graph jobs, though two workers wrote them in turns. (One that dies after
\* commit_extraction leaves them without: nothing retries a finished job.)
PagesAreQueued ==
  \A a \in Attachments :
    crashes = 0 /\ pages[a] # 0 /\ Finished(a) /\ ~ToBeQueued(a) => queued[a] = pages[a]

Waits(a, v) == Recorded(a) /\ rows[a].version = v /\ QueuedFor(a, v) # {}
Resolved(a, v) == \E j \in QueuedFor(a, v) : jobs[j].status \in {"done", "failed"}

\* Every recorded version of an attachment is extracted or given up on in the
\* end, unless its message goes or it changes first.
ExtractionSettles ==
  \A a \in Attachments, v \in Versions : Waits(a, v) ~> ~Waits(a, v) \/ Resolved(a, v)
=============================================================================
