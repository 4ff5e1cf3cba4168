----------------------------- MODULE GraphFacts -----------------------------
(***************************************************************************)
(* The evidence graph: a worker of graph/worker.py asks a model what a     *)
(* chunk states, grounds the answer in the chunk's text, and writes        *)
(* mentions, relations and facts with their evidence; a fact whose         *)
(* evidence says "now" or "instead of" supersedes an earlier one.          *)
(*                                                                         *)
(* Every message has one chunk here; a text is the number of its version   *)
(* and states at most one fact. Ingestion is that of ContextJobs, on a job *)
(* table and a fingerprint of their own, coarser here: reading a chunk's   *)
(* state and queueing it is one step. What is new is the commit: one       *)
(* transaction that replaces the graph of its chunk and changes a fact of  *)
(* another chunk, chosen by a SELECT that other transactions may overtake. *)
(***************************************************************************)
EXTENDS Integers, FiniteSets

CONSTANTS
  Chunks,      \* chunk ids, each the one chunk of its message
  NoParent,
  ParentOf,    \* chunk -> chunk of the message replied to, or NoParent
  Keys,        \* normalized (subject, predicate) of a fact
  Silent,      \* what a text states that states no fact
  Versions,    \* chunk -> how many texts it may have one after the other
  Says,        \* chunk -> text -> the fact it states: [key, cue], or Silent
  Ingesters, Workers,
  MaxText,     \* bound: versions of a text
  MaxRow,      \* bound: rows ever inserted into email_chunks
  MaxFact,     \* bound: rows ever inserted into facts
  MaxAttempts, MaxJobs, MaxCrashes, MaxOverruns

Statement == [key : Keys, cue : BOOLEAN]

ASSUME GraphAssumption ==
  /\ IsFiniteSet(Chunks) /\ NoParent \notin Chunks
  /\ ParentOf \in [Chunks -> Chunks \cup {NoParent}]
  /\ Versions \in [Chunks -> 1 .. MaxText]
  /\ Says \in [Chunks -> [1 .. MaxText -> Statement \cup {Silent}]]
  /\ Silent \notin Statement
  /\ MaxText \in Nat \ {0}
  /\ MaxRow \in Nat /\ MaxFact \in Nat /\ MaxJobs \in Nat /\ MaxAttempts \in Nat \ {0}
  /\ MaxCrashes \in Nat /\ MaxOverruns \in Nat

VARIABLES
  chunks,   \* email_chunks: chunk -> row, or NoChunk
  lastRow,  \* newest id given to a row of email_chunks
  edges,    \* chunk -> what its mentions and relations were extracted from
  facts,    \* facts and fact_evidence: fact id -> row
  ingest,   \* ingester -> the chunk it stores and how far it is
  work,     \* worker -> what it loaded, and its open commit
  jobs, held, crashes, overruns

chunkVars == <<chunks, lastRow>>
graphVars == <<edges, facts>>
vars == <<chunks, lastRow, edges, facts, ingest, work,
          jobs, held, crashes, overruns>>

Texts == 1 .. MaxText
Rows == 1 .. MaxRow
FactIds == 1 .. MaxFact
NoFact == 0
\* Of ExtractionInput two fields vary: the text, and the sender replied to.
Inputs == [text : Texts, parent : BOOLEAN]
Nothing == [text |-> 0, parent |-> FALSE]

INSTANCE EnrichmentQueue WITH Subjects <- Chunks, RowIds <- Rows, Digests <- Inputs

ChunkRow == [row : Rows, text : Texts, hash : Inputs \cup {Nothing}]
NoChunk == [row |-> 0]

\* A fact with its one evidence row: by, row and text say where the evidence
\* is; row is 0 when the evidence went with its chunk and left the fact.
Fact == [key : Keys, cue : BOOLEAN, status : {"active", "superseded"},
         supersedes : FactIds \cup {NoFact},
         by : Chunks, row : Rows \cup {0}, text : Texts]
Unborn == [status |-> "unborn"]
Deleted == [status |-> "deleted"]

Exists(f) == facts[f].status \in {"active", "superseded"}
Evident(f) == Exists(f) /\ facts[f].row # 0

Stored(c) == chunks[c].row # 0

InputOf(c) ==
  [text |-> chunks[c].text,
   parent |-> ParentOf[c] # NoParent /\ Stored(ParentOf[c])]

\* A worker between its load and its commit; prior is the fact its open
\* transaction is about to supersede.
Idle == [step |-> "idle"]
Loaded(input) == [step |-> "loaded", input |-> input]
Writing(input, prior) == [step |-> "writing", input |-> input, prior |-> prior]

Init ==
  /\ chunks = [c \in Chunks |-> NoChunk]
  /\ lastRow = 0
  /\ edges = [c \in Chunks |-> Nothing]
  /\ facts = [f \in FactIds |-> Unborn]
  /\ ingest = [i \in Ingesters |-> [step |-> "idle"]]
  /\ work = [w \in Workers |-> Idle]
  /\ QueueInit

-----------------------------------------------------------------------------
(* Ingestion and the backfill.                                             *)

\* The chunk of the row w's job names, if job and row are still there.
Target(w) ==
  {c \in Chunks : Stored(c) /\ InTable(held[w]) /\ chunks[c].row = jobs[held[w]].row}

\* commit_graph holds the chunk's row FOR UPDATE.
Locked(c) == \E w \in Workers : work[w].step = "writing" /\ c \in Target(w)

\* reprocess_message: a new row, or another text for the old one, whose
\* graph_* columns and graph the upsert leaves alone.
Persist(i, c) ==
  /\ ingest[i].step = "idle" \/ ingest[i] = [step |-> "retry", chunk |-> c]
  /\ ~Locked(c)
  /\ \E t \in 1 .. Versions[c] :
       IF Stored(c)
         THEN /\ t >= chunks[c].text
              /\ chunks' = [chunks EXCEPT ![c] = [@ EXCEPT !.text = t]]
              /\ UNCHANGED lastRow
         ELSE /\ lastRow < MaxRow
              /\ lastRow' = lastRow + 1
              /\ chunks' = [chunks EXCEPT ![c] = [row |-> lastRow', text |-> t, hash |-> Nothing]]
  /\ ingest' = [ingest EXCEPT ![i] = [step |-> "persisted", chunk |-> c]]
  /\ UNCHANGED <<graphVars, work, jobs, held, crashes, overruns>>

\* enqueue skips a chunk whose stored hash is the digest of its inputs; the
\* job table collides with a job queued for them in any state.
Enqueue(c) ==
  IF ~Stored(c) \/ chunks[c].hash = InputOf(c)
    THEN UNCHANGED jobs
    ELSE Insert(c, chunks[c].row, InputOf(c))

\* enqueue_message, after the message is committed.
EnqueueMessage(i) ==
  /\ ingest[i].step = "persisted"
  /\ Enqueue(ingest[i].chunk)
  /\ ingest' = [ingest EXCEPT ![i] = [step |-> "idle"]]
  /\ UNCHANGED <<chunkVars, graphVars, work, held, crashes, overruns>>

\* The backfill queues the chunks that were never extracted.
Backfill(c) ==
  /\ Stored(c) /\ chunks[c].hash = Nothing
  /\ Enqueue(c)
  /\ UNCHANGED <<chunkVars, graphVars, ingest, work, held, crashes, overruns>>

\* The process dies after the message is stored; its sync job is retried.
IngestDies(i) ==
  /\ ingest[i].step = "persisted"
  /\ crashes < MaxCrashes
  /\ crashes' = crashes + 1
  /\ ingest' = [ingest EXCEPT ![i].step = "retry"]
  /\ UNCHANGED <<chunkVars, graphVars, work, jobs, held, overruns>>

\* Mutant: evidence without ON DELETE CASCADE.
EvidenceStays(c) == facts

\* The rows of fact_evidence go with their chunk, the rows of facts do not.
WithoutEvidenceOf(c) ==
  [f \in FactIds |-> IF Exists(f) /\ facts[f].by = c THEN [facts[f] EXCEPT !.row = 0] ELSE facts[f]]

\* delete_message; also what a retry may find the message deleted.
DeleteMessage(i, c) ==
  /\ ingest[i].step = "idle" \/ ingest[i] = [step |-> "retry", chunk |-> c]
  /\ Stored(c) /\ ~Locked(c)
  /\ chunks' = [chunks EXCEPT ![c] = NoChunk]
  /\ edges' = [edges EXCEPT ![c] = Nothing]
  /\ facts' = WithoutEvidenceOf(c)
  /\ jobs' = WithoutJobsOf({chunks[c].row})
  /\ ingest' = [ingest EXCEPT ![i] = [step |-> "idle"]]
  /\ UNCHANGED <<lastRow, work, held, crashes, overruns>>

-----------------------------------------------------------------------------
(* The workers.                                                            *)

Claim(w) == ClaimJob(w) /\ UNCHANGED <<chunkVars, graphVars, ingest, work>>

Load(w) ==
  /\ held[w] # NoJob /\ work[w] = Idle
  /\ \E c \in Target(w) : work' = [work EXCEPT ![w] = Loaded(InputOf(c))]
  /\ UNCHANGED <<chunkVars, graphVars, ingest, jobs, held, crashes, overruns>>

\* The chunk is gone: fail the job for good.
LoadFails(w) ==
  /\ held[w] # NoJob /\ work[w] = Idle /\ Target(w) = {}
  /\ FailJob(w, 0)
  /\ UNCHANGED <<chunkVars, graphVars, ingest, work>>

Forget(w) == work' = [work EXCEPT ![w] = Idle]

\* GraphProviderError: try again while attempts are left.
ProviderFails(w) ==
  /\ work[w].step = "loaded"
  /\ FailJob(w, MaxAttempts)
  /\ Forget(w)
  /\ UNCHANGED <<chunkVars, graphVars, ingest>>

\* Mutant: commit_graph without the check of the fingerprint.
AnyInputs(w, c) == TRUE

\* commit_graph: the inputs are those the job was queued for.
Fresh(w, c) == InputOf(c) = jobs[held[w]].digest

\* The chunk changed or went during the call: drop the result, retire the job.
DropResult(w) ==
  /\ work[w].step = "loaded"
  /\ \A c \in Target(w) : ~Fresh(w, c)
  /\ RetireJob(w)
  /\ Forget(w)
  /\ UNCHANGED <<chunkVars, graphVars, ingest>>

\* Mutant: a first extraction deletes nothing, and neither does a later one.
NoneOf(row) == {}

\* _delete_chunk_graph deletes the facts whose evidence is this chunk's row.
EvidencedBy(row) == {f \in FactIds : Evident(f) /\ facts[f].row = row}

\* _supersede_prior's SELECT: the newest active fact of the key that the
\* transaction sees, which has deleted the facts of its own chunk.
Prior(c, key) ==
  LET active == {f \in FactIds \ EvidencedBy(chunks[c].row) :
                   facts[f].status = "active" /\ facts[f].key = key}
  IN  IF active = {} THEN NoFact
      ELSE CHOOSE f \in active : \A g \in active : g <= f

\* Mutant: every later fact supersedes.
Always(statement) == TRUE

\* has_update_cue.
Supersedes(statement) == statement.cue

\* A transaction that supersedes has chosen the prior fact; it may yet have to
\* wait for the row, and others may commit in the meantime.
ChoosePrior(w) ==
  /\ work[w].step = "loaded"
  /\ \E c \in Target(w) :
       /\ Fresh(w, c) /\ ~Locked(c)
       /\ Says[c][work[w].input.text] # Silent
       /\ Supersedes(Says[c][work[w].input.text])
       /\ work' = [work EXCEPT ![w] =
            Writing(@.input, Prior(c, Says[c][@.input.text].key))]
  /\ UNCHANGED <<chunkVars, graphVars, ingest, jobs, held, crashes, overruns>>

\* Mutant: no ON DELETE SET NULL.
Dangle(row, gone) == row

\* A link to a deleted fact is set to NULL.
Unlink(row, gone) == IF row.supersedes \in gone THEN [row EXCEPT !.supersedes = NoFact] ELSE row

\* The facts after the commit: those of the chunk deleted, prior superseded if
\* it is still there, and the new one inserted as id n.
FactsAfter(c, n, statement, prior, text) ==
  LET gone == EvidencedBy(chunks[c].row)
      link == IF prior # NoFact /\ Exists(prior) /\ prior \notin gone THEN prior ELSE NoFact
  IN  [f \in FactIds |->
        IF f = n
          THEN [key |-> statement.key, cue |-> statement.cue, status |-> "active",
                supersedes |-> link, by |-> c, row |-> chunks[c].row, text |-> text]
        ELSE IF f \in gone THEN Deleted
        ELSE IF ~Exists(f) THEN facts[f]
        ELSE Unlink(IF f = link THEN [facts[f] EXCEPT !.status = "superseded"] ELSE facts[f], gone)]

\* The rest of what a commit writes: edges, the hash, the job.
Record(w, c) ==
  /\ edges' = [edges EXCEPT ![c] = work[w].input]
  /\ chunks' = [chunks EXCEPT ![c] = [@ EXCEPT !.hash = jobs[held[w]].digest]]
  /\ RetireJob(w)
  /\ Forget(w)
  /\ UNCHANGED <<lastRow, ingest>>

NextFact == {n \in FactIds : facts[n] = Unborn /\ \A f \in 1 .. (n - 1) : facts[f] # Unborn}

CommitFact(w, c, prior) ==
  /\ \E n \in NextFact :
       facts' = FactsAfter(c, n, Says[c][work[w].input.text], prior, work[w].input.text)
  /\ Record(w, c)

\* A grounded fact without a cue.
CommitPlain(w) ==
  /\ work[w].step = "loaded"
  /\ \E c \in Target(w) :
       /\ Fresh(w, c) /\ ~Locked(c)
       /\ Says[c][work[w].input.text] # Silent
       /\ ~Supersedes(Says[c][work[w].input.text])
       /\ CommitFact(w, c, NoFact)

\* The UPDATE waits while another transaction has deleted the row and may
\* still roll back; of two that wait for each other one dies.
CommitSuperseding(w) ==
  /\ work[w].step = "writing"
  /\ \E c \in Target(w) :
       /\ \A v \in Workers \ {w} : work[v].step = "writing" =>
            \A d \in Target(v) : work[w].prior \notin EvidencedBy(chunks[d].row)
       /\ CommitFact(w, c, work[w].prior)

\* Nothing to assert: the text states no fact, the model did not find it, its
\* evidence was not in the text, or its output was no JSON ("deterministic").
CommitNoFact(w) ==
  /\ work[w].step = "loaded"
  /\ \E c \in Target(w) :
       /\ Fresh(w, c) /\ ~Locked(c)
       /\ facts' = [f \in FactIds |->
            IF f \in EvidencedBy(chunks[c].row) THEN Deleted
            ELSE IF Exists(f) THEN Unlink(facts[f], EvidencedBy(chunks[c].row)) ELSE facts[f]]
       /\ Record(w, c)

\* The process dies, or Postgres picks its transaction to break a deadlock.
WorkerDies(w) == Crash(w) /\ Forget(w) /\ UNCHANGED <<chunkVars, graphVars, ingest>>

TimePasses(j) ==
  /\ LeaseLapses(j) \/ LeaseOverrun(j)
  /\ UNCHANGED <<chunkVars, graphVars, ingest, work>>

-----------------------------------------------------------------------------
Answer(w) ==
  \/ LoadFails(w) \/ ProviderFails(w) \/ DropResult(w)
  \/ ChoosePrior(w) \/ CommitPlain(w) \/ CommitSuperseding(w) \/ CommitNoFact(w)

Next ==
  \/ \E i \in Ingesters :
       \/ \E c \in Chunks : Persist(i, c) \/ DeleteMessage(i, c)
       \/ EnqueueMessage(i) \/ IngestDies(i)
  \/ \E c \in Chunks : Backfill(c)
  \/ \E w \in Workers : Claim(w) \/ Load(w) \/ Answer(w) \/ WorkerDies(w)
  \/ \E j \in JobIds : TimePasses(j)

Spec == Init /\ [][Next]_vars

-----------------------------------------------------------------------------
(* Properties.                                                             *)

\* Rows, jobs and processes stay well formed; jobs, evidence and links between
\* facts name rows that are still there.
GraphTypeOK ==
  /\ chunks \in [Chunks -> ChunkRow \cup {NoChunk}]
  /\ lastRow \in 0 .. MaxRow
  /\ edges \in [Chunks -> Inputs \cup {Nothing}]
  /\ facts \in [FactIds -> Fact \cup {Unborn, Deleted}]
  /\ QueueTypeOK
  /\ \A j \in JobIds : InTable(j) => chunks[jobs[j].subject].row = jobs[j].row
  /\ \A f \in FactIds : Evident(f) => chunks[facts[f].by].row = facts[f].row
  /\ \A f \in FactIds : Exists(f) /\ facts[f].supersedes # NoFact => Exists(facts[f].supersedes)

\* What is in the graph about a chunk was extracted from the text its
\* graph_input_hash stands for: a late, repeated or overtaken commit leaves no
\* fact or edge of another text behind.
GraphMatchesHash ==
  /\ \A f \in FactIds : Evident(f) => facts[f].text = chunks[facts[f].by].hash.text
  /\ \A c \in Chunks : Stored(c) => edges[c].text = chunks[c].hash.text

\* A chunk asserts a fact once, however often its job was committed.
AssertedOnce ==
  \A f, g \in FactIds : Evident(f) /\ Evident(g) /\ facts[f].row = facts[g].row => f = g

\* A fact that supersedes another is newer, about the same key, from evidence
\* with a cue, and the other one is not shown as current any more; this holds
\* however two commits overtake each other.
SupersessionIsSound ==
  \A f \in FactIds : Exists(f) /\ facts[f].supersedes # NoFact =>
    LET p == facts[f].supersedes
    IN  /\ facts[p].status = "superseded"
        /\ p < f /\ facts[p].key = facts[f].key /\ facts[f].cue

\* docs/ARCHITECTURE.md:405: a fact moves to superseded only when another
\* fact's evidence has a cue, which then says which fact it replaced.
OnlyCuesSupersede ==
  [][\A p \in FactIds :
       facts[p].status = "active" /\ facts'[p].status = "superseded" =>
         \E f \in FactIds : facts[f] = Unborn /\ facts'[f] # Unborn
                            /\ facts'[f].cue /\ facts'[f].supersedes = p]_vars

Covered(c) ==
  \/ chunks[c].hash = InputOf(c)
  \/ \E j \in QueuedFor(c, InputOf(c)) : jobs[j].status # "done"

Underway(c) == \E i \in Ingesters : ingest[i].step # "idle" /\ ingest[i].chunk = c

\* No chunk that replies to nothing is forgotten: when its ingestion is
\* through, its present text is extracted, queued, or was given up on.
ExtractionIsCovered ==
  \A c \in Chunks : Stored(c) /\ ParentOf[c] = NoParent => Covered(c) \/ Underway(c)
=============================================================================
