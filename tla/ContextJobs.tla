---------------------------- MODULE ContextJobs ----------------------------
(***************************************************************************)
(* Asynchronous contextualization: ingestion persists messages as chunks   *)
(* and queues a job per chunk (gmail/sink.py, context/enqueue.py), the     *)
(* backfill queues chunks never contextualized, and the workers of         *)
(* context/worker.py ask a model for a prefix, rebuild embed_text with it  *)
(* and write both, guarded by the fingerprint of the chunk's inputs.       *)
(*                                                                         *)
(* Every committed transaction is one step; between a worker's load and    *)
(* its commit lies the call to the model, between persisting and queueing  *)
(* every chunk other processes may run. A text is the number of its        *)
(* version. Of the fingerprint's inputs two vary here: the text, and       *)
(* whether the message replied to is stored (parent_subject is joined).    *)
(***************************************************************************)
EXTENDS Integers, FiniteSets

CONSTANTS
  Messages,    \* message ids, each with its chunks:
  Chunks,      \* chunk ids
  MessageOf,   \* chunk -> message
  ParentOf,    \* message -> message named by In-Reply-To, or NoMessage
  NoMessage,
  Ingesters,   \* sync workers, or the corpus ingestion
  Storers,     \* bound: those that store mail; the others only apply deletions
  Workers,     \* context workers
  BatchSize,   \* page of the backfill
  MayRevert,   \* whether an ingester may restore an earlier text
  MaxText,     \* bound: versions of a text
  MaxRow,      \* bound: rows ever inserted into email_chunks
  MaxAttempts, MaxJobs, MaxCrashes, MaxOverruns

ASSUME ContextAssumption ==
  /\ IsFiniteSet(Chunks)
  /\ "backfill" \notin Ingesters
  /\ NoMessage \notin Messages
  /\ MessageOf \in [Chunks -> Messages]
  /\ ParentOf \in [Messages -> Messages \cup {NoMessage}]
  /\ Storers \subseteq Ingesters
  /\ BatchSize \in Nat \ {0}
  /\ MaxText \in Nat \ {0}
  /\ MaxRow \in Nat /\ MaxJobs \in Nat /\ MaxAttempts \in Nat \ {0}
  /\ MaxCrashes \in Nat /\ MaxOverruns \in Nat
  /\ MayRevert \in BOOLEAN

VARIABLES
  chunks,   \* email_chunks: chunk id -> row, or NoChunk
  lastRow,  \* newest id given to a row
  ingest,   \* ingester -> the message it stores and how far it is
  backfill, \* the backfill: whether it runs, and its cursor
  todo,     \* ingester or the backfill -> chunk states read, still to enqueue
  loaded,   \* worker -> chunk state it loaded for its job, or Nothing
  jobs, held, crashes, overruns

ingestVars == <<ingest, backfill, todo>>
chunkVars == <<chunks, lastRow>>
vars == <<chunks, lastRow, ingest, backfill, todo, loaded, jobs, held, crashes, overruns>>

Texts == 1 .. MaxText
Rows == 1 .. MaxRow
\* What the fingerprint covers.
Inputs == [text : Texts, parent : BOOLEAN]
Nothing == [text |-> 0, parent |-> FALSE]
Prefixes == Inputs \cup {Nothing}
Backfiller == "backfill"

INSTANCE EnrichmentQueue WITH Subjects <- Chunks, RowIds <- Rows, Digests <- Inputs

\* A prefix is identified by the inputs the model saw; embed_text is the text
\* and the prefix it was assembled from; the embedding goes with it.
ChunkRow == [row : Rows, text : Texts, hash : Prefixes, prefix : Prefixes,
             embedText : Texts, embedPrefix : Prefixes]
NoChunk == [row |-> 0]
State == [chunk : Chunks, row : Rows, digest : Inputs]

Stored(c) == chunks[c].row # 0
ChunksOf(m) == {c \in Chunks : MessageOf[c] = m}
InMailbox(m) == \E c \in ChunksOf(m) : Stored(c)

\* as_context_input over the join with the parent's row.
InputOf(c) ==
  [text |-> chunks[c].text,
   parent |-> ParentOf[MessageOf[c]] # NoMessage /\ InMailbox(ParentOf[MessageOf[c]])]

IdleIngest == [msg |-> NoMessage, step |-> "idle"]
IdleBackfill == [on |-> FALSE, after |-> 0]

Init ==
  /\ chunks = [c \in Chunks |-> NoChunk]
  /\ lastRow = 0
  /\ ingest = [i \in Ingesters |-> IdleIngest]
  /\ backfill = IdleBackfill
  /\ todo = [e \in Ingesters \cup {Backfiller} |-> {}]
  /\ loaded = [w \in Workers |-> Nothing]
  /\ QueueInit

-----------------------------------------------------------------------------
(* Ingestion.                                                              *)

\* upsert_chunks: a new row, or new text, embed_text and embedding for an old
\* one, whose context_* columns the upsert leaves alone.
Upserted(c, t, r) ==
  IF Stored(c)
    THEN [chunks[c] EXCEPT !.text = t, !.embedText = t, !.embedPrefix = Nothing]
    ELSE [row |-> r, text |-> t, hash |-> Nothing, prefix |-> Nothing,
          embedText |-> t, embedPrefix |-> Nothing]

\* A numbering of the chunks new to the table, from lastRow + 1 on.
Numbering(new) ==
  {f \in [new -> (lastRow + 1) .. (lastRow + Cardinality(new))] :
     \A c, d \in new : f[c] = f[d] => c = d}

\* reprocess_message: upsert the chunks the chunker yields now, delete the
\* stale ones. A message without chunks is not touched at all.
Persist(i, m) ==
  /\ i \in Storers
  /\ ingest[i].step = "idle" \/ ingest[i] = [msg |-> m, step |-> "retry"]
  /\ \E now \in SUBSET ChunksOf(m) \ {{}} :
       LET new == {c \in now : ~Stored(c)}
           stale == {c \in ChunksOf(m) \ now : Stored(c)}
       IN  /\ lastRow + Cardinality(new) <= MaxRow
           /\ lastRow' = lastRow + Cardinality(new)
           /\ \E t \in [now -> Texts], id \in Numbering(new) :
                /\ MayRevert \/ \A c \in now \ new : t[c] >= chunks[c].text
                /\ chunks' = [c \in Chunks |->
                     IF c \in now THEN Upserted(c, t[c], IF c \in new THEN id[c] ELSE 0)
                     ELSE IF c \in stale THEN NoChunk ELSE chunks[c]]
           /\ jobs' = WithoutJobsOf({chunks[c].row : c \in stale})
  /\ ingest' = [ingest EXCEPT ![i] = [msg |-> m, step |-> "persisted"]]
  /\ UNCHANGED <<backfill, todo, loaded, held, crashes, overruns>>

\* enqueue skips a chunk whose stored hash is the digest of its inputs.
StatesToQueue(cs) ==
  {[chunk |-> c, row |-> chunks[c].row, digest |-> InputOf(c)] :
     c \in {d \in cs : Stored(d) /\ chunks[d].hash # InputOf(d)}}

\* enqueue_message reads the message's chunks with one SELECT.
ReadStates(i) ==
  /\ ingest[i].step = "persisted"
  /\ todo' = [todo EXCEPT ![i] = StatesToQueue(ChunksOf(ingest[i].msg))]
  /\ ingest' = [ingest EXCEPT ![i].step = "queueing"]
  /\ UNCHANGED <<chunkVars, backfill, loaded, jobs, held, crashes, overruns>>

RowExists(s) == chunks[s.chunk].row = s.row

\* One INSERT per state read; a foreign key guards the row it names.
Enqueue(e) ==
  /\ \E s \in todo[e] :
       /\ RowExists(s) \/ QueuedFor(s.chunk, s.digest) # {}
       /\ Insert(s.chunk, s.row, s.digest)
       /\ todo' = [todo EXCEPT ![e] = @ \ {s}]
  /\ UNCHANGED <<chunkVars, ingest, backfill, loaded, held, crashes, overruns>>

Refused(e) ==
  \E s \in todo[e] : ~RowExists(s) /\ QueuedFor(s.chunk, s.digest) = {}

\* The foreign key refuses a row deleted since the SELECT: the error fails the
\* sync job, whose retry stores the message again.
EnqueueRaises(i) ==
  /\ Refused(i)
  /\ ingest' = [ingest EXCEPT ![i].step = "retry"]
  /\ todo' = [todo EXCEPT ![i] = {}]
  /\ UNCHANGED <<chunkVars, backfill, loaded, jobs, held, crashes, overruns>>

IngestDone(i) ==
  /\ ingest[i].step = "queueing" /\ todo[i] = {}
  /\ ingest' = [ingest EXCEPT ![i] = IdleIngest]
  /\ UNCHANGED <<chunkVars, backfill, todo, loaded, jobs, held, crashes, overruns>>

\* The process dies after the message is stored; its sync job is retried.
IngestDies(i) ==
  /\ ingest[i].step \in {"persisted", "queueing"}
  /\ crashes < MaxCrashes
  /\ crashes' = crashes + 1
  /\ ingest' = [ingest EXCEPT ![i].step = "retry"]
  /\ todo' = [todo EXCEPT ![i] = {}]
  /\ UNCHANGED <<chunkVars, backfill, loaded, jobs, held, overruns>>

\* delete_message; also what a retry may find the message deleted.
DeleteMessage(i, m) ==
  /\ ingest[i].step = "idle" \/ ingest[i] = [msg |-> m, step |-> "retry"]
  /\ InMailbox(m)
  /\ chunks' = [c \in Chunks |-> IF MessageOf[c] = m THEN NoChunk ELSE chunks[c]]
  /\ jobs' = WithoutJobsOf({chunks[c].row : c \in ChunksOf(m)})
  /\ ingest' = [ingest EXCEPT ![i] = IdleIngest]
  /\ UNCHANGED <<lastRow, backfill, todo, loaded, held, crashes, overruns>>

-----------------------------------------------------------------------------
(* The backfill.                                                           *)

StartBackfill ==
  /\ ~backfill.on
  /\ \E c \in Chunks : Stored(c)
  /\ backfill' = [on |-> TRUE, after |-> 0]
  /\ UNCHANGED <<chunkVars, ingest, todo, loaded, jobs, held, crashes, overruns>>

NeedContext == {c \in Chunks : Stored(c) /\ chunks[c].hash = Nothing /\ chunks[c].row > backfill.after}

\* chunks_needing_context: the next page, in the order of the row ids.
ReadPage ==
  /\ backfill.on /\ todo[Backfiller] = {} /\ NeedContext # {}
  /\ \E page \in SUBSET NeedContext :
       /\ page # {} /\ Cardinality(page) <= BatchSize
       /\ page # NeedContext => Cardinality(page) = BatchSize
       /\ \A c \in page, d \in NeedContext \ page : chunks[c].row < chunks[d].row
       /\ todo' = [todo EXCEPT ![Backfiller] = StatesToQueue(page)]
       /\ \E c \in page :
            /\ \A d \in page : chunks[d].row <= chunks[c].row
            /\ backfill' = [backfill EXCEPT !.after = chunks[c].row]
  /\ UNCHANGED <<chunkVars, ingest, loaded, jobs, held, crashes, overruns>>

\* The last page was empty, the foreign key refused a row that is gone, or
\* max_chunks were scanned (which also stands for the process dying).
BackfillEnds ==
  /\ backfill.on
  /\ \/ todo[Backfiller] = {} /\ NeedContext = {}
     \/ Refused(Backfiller)
     \/ backfill.after # 0
  /\ backfill' = IdleBackfill
  /\ todo' = [todo EXCEPT ![Backfiller] = {}]
  /\ UNCHANGED <<chunkVars, ingest, loaded, jobs, held, crashes, overruns>>

-----------------------------------------------------------------------------
(* The workers.                                                            *)

Claim(w) == ClaimJob(w) /\ UNCHANGED <<chunkVars, ingestVars, loaded>>

\* The chunk whose row w's job names, if job and row are still there.
Target(w) ==
  {c \in Chunks : Stored(c) /\ InTable(held[w]) /\ chunks[c].row = jobs[held[w]].row}

\* load_chunk_state, before the call to the model.
Load(w) ==
  /\ held[w] # NoJob /\ loaded[w] = Nothing
  /\ \E c \in Target(w) : loaded' = [loaded EXCEPT ![w] = InputOf(c)]
  /\ UNCHANGED <<chunkVars, ingestVars, jobs, held, crashes, overruns>>

Forget(w) == loaded' = [loaded EXCEPT ![w] = Nothing]

\* The chunk is gone: fail the job for good.
LoadFails(w) ==
  /\ held[w] # NoJob /\ loaded[w] = Nothing /\ Target(w) = {}
  /\ FailJob(w, 0)
  /\ UNCHANGED <<chunkVars, ingestVars, loaded>>

\* ContextProviderError: try again while attempts are left.
ProviderFails(w) ==
  /\ loaded[w] # Nothing
  /\ FailJob(w, MaxAttempts)
  /\ Forget(w)
  /\ UNCHANGED <<chunkVars, ingestVars>>

\* Mutant: commit_context without the check of the fingerprint.
AnyInputs(w, c) == TRUE

\* commit_context: the inputs are those the job was queued for.
Fresh(w, c) == InputOf(c) = jobs[held[w]].digest

\* The prefix and embed_text assembled from the loaded state (no prefix when
\* the model's answer is not valid) are written, and the job is retired.
Commit(w, p) ==
  /\ loaded[w] # Nothing
  /\ \E c \in Target(w) :
       /\ Fresh(w, c)
       /\ chunks' = [chunks EXCEPT ![c] =
            [@ EXCEPT !.hash = jobs[held[w]].digest, !.prefix = p,
                      !.embedText = loaded[w].text, !.embedPrefix = p]]
  /\ RetireJob(w)
  /\ Forget(w)
  /\ UNCHANGED <<lastRow, ingestVars>>

\* The chunk changed or went during the call: the result is dropped, the job
\* retired.
DropResult(w) ==
  /\ loaded[w] # Nothing
  /\ \A c \in Target(w) : ~Fresh(w, c)
  /\ RetireJob(w)
  /\ Forget(w)
  /\ UNCHANGED <<chunkVars, ingestVars>>

WorkerDies(w) == Crash(w) /\ Forget(w) /\ UNCHANGED <<chunkVars, ingestVars>>

TimePasses(j) ==
  /\ LeaseLapses(j) \/ LeaseOverrun(j)
  /\ UNCHANGED <<chunkVars, ingestVars, loaded>>

-----------------------------------------------------------------------------
\* What an ingester does once it has begun with a message.
Proceed(i) ==
  \/ ReadStates(i) \/ Enqueue(i) \/ EnqueueRaises(i) \/ IngestDone(i)
  \/ ingest[i].step = "retry" /\ \E m \in Messages : Persist(i, m) \/ DeleteMessage(i, m)

Answer(w) ==
  \/ LoadFails(w) \/ ProviderFails(w) \/ DropResult(w)
  \/ \E p \in {loaded[w], Nothing} : Commit(w, p)

Next ==
  \/ \E i \in Ingesters :
       \/ \E m \in Messages : Persist(i, m) \/ DeleteMessage(i, m)
       \/ ReadStates(i) \/ Enqueue(i) \/ EnqueueRaises(i) \/ IngestDone(i) \/ IngestDies(i)
  \/ StartBackfill \/ ReadPage \/ Enqueue(Backfiller) \/ BackfillEnds
  \/ \E w \in Workers : Claim(w) \/ Load(w) \/ Answer(w) \/ WorkerDies(w)
  \/ \E j \in JobIds : TimePasses(j)

Spec == Init /\ [][Next]_vars

\* Workers poll for ever, calls to the model return or time out, a sync job
\* under way is finished or retried, and clocks advance. Nothing makes mail
\* arrive, anyone start a backfill, or a process die.
Fairness ==
  /\ \A i \in Ingesters : WF_vars(Proceed(i))
  /\ \A w \in Workers : WF_vars(Claim(w)) /\ WF_vars(Load(w)) /\ WF_vars(Answer(w))
  /\ \A j \in JobIds : WF_vars(LeaseLapses(j) /\ UNCHANGED <<chunkVars, ingestVars, loaded>>)

FairSpec == Spec /\ Fairness

-----------------------------------------------------------------------------
(* Properties.                                                             *)

\* Rows, jobs and processes stay well formed; a job in the table names a row
\* that is still there.
ContextTypeOK ==
  /\ chunks \in [Chunks -> ChunkRow \cup {NoChunk}]
  /\ lastRow \in 0 .. MaxRow
  /\ ingest \in [Ingesters -> [msg : Messages \cup {NoMessage},
                               step : {"idle", "persisted", "queueing", "retry"}]]
  /\ backfill \in [on : BOOLEAN, after : 0 .. MaxRow]
  /\ todo \in [Ingesters \cup {Backfiller} -> SUBSET State]
  /\ loaded \in [Workers -> Prefixes]
  /\ QueueTypeOK
  /\ \A j \in JobIds : InTable(j) => chunks[jobs[j].subject].row = jobs[j].row

\* While texts only move on, embed_text is always made of the text next to it,
\* and so is the sentence in front: no slow worker leaves a prefix about an
\* earlier text, or embeds one.
EmbedDescribesText ==
  \A c \in Chunks : Stored(c) =>
    /\ chunks[c].embedText = chunks[c].text
    /\ chunks[c].embedPrefix.text \in {0, chunks[c].text}

Applied(c) == chunks[c].hash = InputOf(c)

\* Somebody will still queue message m: an ingester has stored it and not done.
Underway(m) == \E i \in Ingesters : ingest[i].msg = m

\* The chunk's present inputs are applied, queued, or were given up on.
Covered(c) ==
  \/ Applied(c)
  \/ \E j \in QueuedFor(c, InputOf(c)) : jobs[j].status # "done"

Root(c) == ParentOf[MessageOf[c]] = NoMessage

\* No chunk whose text is all its fingerprint depends on is forgotten: when
\* its ingestion is through, its present text is applied, queued or failed,
\* whatever was committed, dropped, retried or deleted in between.
RootsAreCovered ==
  \A c \in Chunks : Stored(c) /\ Root(c) => Covered(c) \/ Underway(MessageOf[c])

Failed(c) == \E j \in QueuedFor(c, InputOf(c)) : jobs[j].status = "failed"

\* Every stored chunk without a parent is eventually contextualized for the
\* text it then has, or the attempts for it are spent.
RootsSettle ==
  \A c \in Chunks : Root(c) => (Stored(c) ~> ~Stored(c) \/ Applied(c) \/ Failed(c))
=============================================================================
