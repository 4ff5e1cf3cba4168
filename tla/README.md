# Email-Thread-RAG-Chatbot: a TLA+ development

The program keeps connected Gmail mailboxes in step with Gmail, stores their
mail as chunks in ParadeDB (Postgres), enriches the chunks in the background
(context prefixes, attachment text, a knowledge graph) and answers questions
about mail threads with cited evidence. This directory holds TLA+ models of
its processes and of the functions that decide what is indexed, found, cited
and answered, TLC configurations that check them on small instances, and
proofs that hold for instances of every size.

Paths below are relative to `src/email_thread_rag/` unless they start with
`src/`.

## 1. Inventory

### Components

| Component | Code | State it keeps | Operations |
|---|---|---|---|
| Sync job queue | `gmail/repository.py`, `migrations/0002_gmail.sql` | `gmail_sync_jobs`, `gmail_pubsub_messages` | `record_notification`, `claim_job`, `complete_job`, `fail_job`, `mark_job_needs_full_sync` |
| Gmail sync | `gmail/sync.py`, `gmail/worker.py`, `gmail/sink.py` | the mailbox's cursor and status, the stored messages, a worker's locals | `run_once`, `run_sync`, `run_delta_sync`, `run_full_sync`, `collect_history`, `_ingest_messages` |
| Mailbox lifecycle, OAuth | `gmail/service.py`, `gmail/routes.py`, `gmail/oauth.py` | `gmail_mailboxes`, `gmail_oauth_states` | `start_authorization`, `exchange_code`, `connect_mailbox`, `renew_expiring_watches`, `disconnect_mailbox`, `set_mailbox_status` |
| Webhook | `gmail/webhook.py` | none | `gmail_push`: verify, decode, `record_notification`, acknowledge |
| Gmail client, messages, cipher | `gmail/client.py`, `gmail/message.py`, `gmail/cipher.py` | none | HTTP calls, MIME parsing, encryption |
| Message and chunk store | `rag/paradedb/repository.py` | `email_messages`, `email_chunks` | `upsert_chunks`, `delete_stale_chunks`, `reprocess_message`, `delete_message`, `replace_attachment_chunks` |
| Context jobs | `context/` | `chunk_context_jobs`, a chunk's `context_*` columns | enqueue, claim, `commit_context`, fail, skip, backfill |
| Attachment jobs | `rag/attachments/` | extraction jobs, attachment chunks | enqueue, claim, `commit_extraction`, fail |
| Graph jobs | `graph/` | extraction jobs, entities, relationships, facts and their evidence | enqueue, claim, `commit_graph` with `_supersede_prior`, fail |
| Retrieval and ranking | `rag/paradedb/retrieval.py`, `rag/retrieval.py`, `rag/fusion.py`, `rag/reranker.py`, `rag/*_index.py`, `rag/planner.py` | none | plan, lexical, dense and graph search, three fusions, reranking |
| Answering | `rag/engine.py`, `rag/grounded_answer.py`, `rag/answer.py`, `rag/citation_validator.py` | none of their own | retrieve, draft, validate, retry, abstain |
| Dialogue | `rag/memory.py`, `rag/rewrite.py` | the memory slots of a session | remember, resolve follow-ups and corrections, rewrite |
| Sessions and API | `app/` | `SessionStore` in memory | start, switch and reset a session, ask |
| Browser tab | `src/frontend/src/lib/api.ts`, `routes/index.tsx` | a session id, a pending turn | ask, time out, start a new chat |
| Chunking and parsing | `rag/chunking.py`, `rag/email_segmentation.py`, `rag/parse_*.py` | none | text to chunks with source offsets |
| Batch scripts, the rest of the frontend, deployment | `scripts/`, `src/frontend`, `src/infra` | none of the system's | |

### How they interact

Postgres is the only thing the processes share. Gmail pushes a notification to
the webhook, which commits a job and acknowledges. A worker (its own process,
or a thread of the API) claims the job under a lease, reads Gmail, writes
messages through the sink, commits the cursor and completes the job. The sink
queues context, attachment and graph jobs in tables of their own, which three
more workers drain. OAuth callbacks and a cron job write the same mailbox rows
as the workers. The API answers questions from what is indexed, with sessions
in memory: each request runs in a thread of the server, reads a copy of its
session, searches, perhaps asks a model, and saves what it has. The browser
holds the id of its session and stops waiting after a while.

### What is hard

- *Interleaving.* Every statement commits on its own (autocommit), and no
  transaction spans a Gmail call: between any two steps of a run another
  worker, the webhook, an OAuth callback, the cron or Gmail itself may act.
- *Leases.* A lease is never renewed and never checked by the writer that held
  it. A slow worker and the one that reclaimed its job both finish.
- *READ COMMITTED.* `fail_job` and `upsert_mailbox` read and write in separate
  statements of one transaction, which see different snapshots.
- *Crashes.* A run has up to a dozen commits, and may stop between any two.
- *Gmail.* History expires, messages vanish between list and get, messages
  come back, notifications are late, reordered, repeated and coalesced.
- *Sessions.* A turn saves its session three times, each time whole, with no
  lock over two steps; the client may have given up, asked again, or hold the
  id of a session a restart has forgotten.
- *Models.* A model may return anything: no JSON, a made-up quote, a chunk it
  was not shown, an offset that does not fit, an entity the text does not have.

### What makes each component correct

- *Queue*: at most one pending job per mailbox; retries within the budget;
  every job resolved.
- *Sync*: the cursor never passes a change that has not been applied and never
  rewinds; an acknowledged notification is never lost and is eventually synced.
- *Lifecycle*: an address has at most one live mailbox; an active mailbox has
  a cursor and a watch; a watch does not run out unnoticed.
- *Derived jobs*: what is stored belongs to the text it was computed from; no
  chunk is left without a job it needs.
- *Graph*: what it asserts about a chunk comes from the chunk's present text;
  of two facts where one supersedes the other, exactly that is shown.
- *Search*: no branch lets a chunk of another mailbox or thread in; fusion keeps
  what all branches agree on.
- *Answers*: every cited passage is in the evidence, word for word; a rejected
  draft is never shown; a turn is in its session wholly or not at all.
- *Dialogue*: what is searched for was said in this session, since its last
  reset, and is what a correction says it is.

## 2. Modules

| Module | Models | Builds on |
|---|---|---|
| `SyncJobQueue` | the queue | |
| `GmailSync` | workers, sync, webhook, Gmail, crashes | EXTENDS `SyncJobQueue` |
| `MCGmailSync` | values for TLC | EXTENDS `GmailSync` |
| `MailboxLifecycle` | connect, renewal, disconnect, status writes | |
| `EnrichmentQueue` | the statements on a job table that the enrichments share in kind | |
| `ContextJobs` | chunks, ingestion, backfill and the context workers | INSTANCE `EnrichmentQueue` |
| `MCContextJobs` | values for TLC | EXTENDS `ContextJobs` |
| `AttachmentJobs` | a message and its PDF parts, their rows, jobs and page chunks, syncs and attachment workers | INSTANCE `EnrichmentQueue` |
| `MCAttachmentJobs` | values for TLC | EXTENDS `AttachmentJobs` |
| `GraphFacts` | chunks, ingestion, graph workers, facts and supersession | INSTANCE `EnrichmentQueue` |
| `MCGraphFacts` | values for TLC | EXTENDS `GraphFacts` |
| `Conversation` | what a session promises, a turn being one step | |
| `ChatTurn` | tabs, request threads, the session store, both answering paths | INSTANCE `Conversation` (refinement) |
| `MCChatTurn` | values for TLC | EXTENDS `ChatTurn` |
| `Orders` | sorting and filtering, by ranks | |
| `MailText` | segmentation of mail, chunking of mail and attachments | EXTENDS `Orders` |
| `Quotes` | what is believed of a model's quotes and extractions | EXTENDS `Orders` |
| `Retrieval` | planner, searches, fusions, reranker | EXTENDS `Orders` |
| `Answers` | deterministic answers and the citation validator | |
| `Dialogue` | memory slots and query rewriting | |
| `MCAnswering` | the inputs of the five, evaluated one by one, and what their results must satisfy | EXTENDS all five |
| `SyncJobQueueProofs`, `GmailSyncProofs`, `MailboxLifecycleProofs`, `ContextJobsProofs`, `AttachmentJobsProofs`, `GraphFactsProofs`, `ChatTurnProofs` | theorems | EXTEND the module they are about |
| `TextProofs` | theorems about the cutting of texts, the checking of quotes, the searches and their fusion | EXTENDS `MCAnswering` |

### SyncJobQueue

`jobs` is the table; `seen` the dedup table (a Pub/Sub message is named by its
mailbox and history id); `held[w]` the job a worker believes it is running;
`failTx[w]` its open `fail_job` transaction. One action per repository method,
named after it (`RecordNotification`, `ClaimJob`, `CompleteJob`,
`MarkJobNeedsFullSync`). `fail_job` is two steps: `FailRead` locks the row and
looks for a successor, then `GiveUp`, `Release` or `FailConflict` writes.
`FailConflict` is the case no test covers: a notification queues a pending job
in between, the release hits the partial unique index and the error escapes
`run_once`. `Crash` rolls an open transaction back and leaves the lease;
`LeaseLapses` is time passing for a lease without a worker, `LeaseOverrun` for
one whose worker is still at it.

Left out: `lease_owner` and `last_error`, which nothing reads. Time is "live"
or "expired".

`GiveUp` may fold a job into a successor that has itself been finished since
it was read, as the code's UPDATE by id does.

### GmailSync

Gmail is a log per mailbox: change `i` is `history[mb][i]`, an add or a
delete; changes up to `horizon[mb]` have expired. `cursor`, `status` are the
columns, `sink[mb]` the stored message ids, `run[w]` a worker's locals and
`pc[w]` its place in `run_once`:

    idle -> read -> history -> ingest <-> persist -> activate -> complete -> idle
                 \-> profile -> scan -> ingest ...  -> history (replay) -> ingest ...
            history -> markJob -> markMailbox -> profile     (history expired)
    any of these -> fail -> error -> idle                    (run_sync raises)

Each Gmail call and each committed statement is one step. `ReadMailbox` keeps
the snapshot the code keeps: the run starts from the cursor it read, however
late. `collect_history` is its result: a message is added or deleted according
to its last change in the window. `CommitCursor` uses GREATEST.

Abstractions: a paged `history.list` or `messages.list` is one step; the order
in which messages are ingested is arbitrary; `record_notification` is one step
(its race on the unique index is resolved by ON CONFLICT); persisting a message
and its attachments is one step (`reprocess_message` is one transaction; the
enqueues after it belong to the derived jobs). `Die` also stands for an error
that escapes `run_once` outside its `try`. A mailbox here is never
disconnected. `base` and `rebuilt` are history variables.

### MailboxLifecycle

`row` is `gmail_mailboxes`; `conn[s]` the OAuth callback that uses state `s`,
which bounds the number of connects; `sync[w]` a sync run reduced to its writes
of the row; `renew` the cron run with the list and the credentials it read;
`watched` the accounts that Gmail may push. `upsert_mailbox` is two steps, as
its SELECT takes no lock. `Put` is an UPDATE or INSERT the partial unique index
admits; where it does not, the code's error path is an action (`ConnectEnds`,
`SyncFails`, `ErrorRefused`, `RenewBreaks`). That an address has one live row is
therefore what the index says, and not stated as a property: it could not fail. `disconnect_mailbox` has no caller
in the program but its tests; the model lets it happen at any time. Time is
"the watch expires within the margin" or not. The expiry of an OAuth state, a
failed exchange and a failed Gmail call are `ConnectEnds`.

### EnrichmentQueue and ContextJobs

`EnrichmentQueue` holds the statements on a job table as operators over `jobs`
and `held` (`Insert`, `ClaimJob`, `FailJob`, `RetireJob`, the cascade
`WithoutJobsOf`); `ContextJobs`, `AttachmentJobs` and `GraphFacts` instantiate
it and put them into their transactions. A row is identified by its database id; the id of a deleted
chunk's job is "gone" and never used again. Unlike `gmail_sync_jobs`, the
unique key has the digest of the inputs in it, and failing is one statement.

`chunks[c]` is the row of `email_chunks` with its `text`, its fingerprint
(`hash`), its `prefix` and what `embed_text` was assembled from (`embedText`,
`embedPrefix`; the embedding always goes with it). `ingest[i]` is an ingester
between `persist` and the last enqueue, `todo` the chunk states a SELECT has
returned and nobody has queued yet, `loaded[w]` the state a worker loaded before
it called the model:

    ingester:  idle -> persisted -> queueing -> idle,  with retry after an error
    worker:    Claim -> Load -> ProviderFails | DropResult | Commit

`Persist` is `reprocess_message` with any non-empty set of the message's chunks
(the chunker may drop or add some) and any texts. The foreign key may refuse a
state whose row was deleted since it was read (`EnqueueRaises`); the sync job
then fails, and its retry persists the message again or finds it deleted.
`Commit` has the prefix the model gave or none (validation failed).

Abstractions: of the nine fields of the fingerprint two vary, the text and
whether the parent's subject is known; a text is the number of its version. One
prompt version and one model: the worker uses the constant `PROMPT_VERSION`
where the enqueue reads a setting, so a deployment that overrides the setting
has every job retired as stale; the model has no such deployment. The
dataclass stores that tests use are not modelled.

### AttachmentJobs

`gmail[m]` says whether Gmail has the message and which version its parts are
at; `stored` is `email_messages`; `rows[a]` the row of `email_attachments`
(`version` is its `byte_size`, which the digest of a job is made from);
`pages[a]` the version of the attachment's chunks in `email_chunks`;
`queued[a]` the version for which their context and graph jobs were queued.
`ingest[i]` is a sync at work on one message, `work[w]` a worker's locals:

    sync:   idle -> fetched -> persisted -> listing -> idle
                       (no body chunk: -> listing)
            listing -> found -> recorded [-> marking] -> listing   once per PDF part
            any of these -> retry (death, or a foreign key refused a row or a job)
    worker: Claim -> loaded -> fetched -> chunked -> replaced -> committed -> idle
            loaded -> condemned                    (the message is gone in Gmail)
            fetched -> condemned                   (no PDF, encrypted, oversized)
            condemned -> marked -> idle            (failed for good)
            loaded or fetched -> idle              (an error: back to the queue)

Each arrow is one committed statement or transaction, or one Gmail call; a
message may be trashed, restored, deleted by another sync or stored again
between any two. `Persist` is `reprocess_message`, which keeps the body's chunks
and deletes every other chunk of the message, page chunks too; a body without
authored text is not stored at all. `ReplacePages` looks for the message a
second time, and `CommitExtraction` writes only while the job is running but
does not stop the worker, who queues the downstream jobs in either case.
`enqueue` is its four statements: `FindMessage` reads the id of the message's row,
`UpsertRow` uses it, and is refused when that row was deleted in between
(`Unlinked`, `EnqueueRaises`); `InsertJob` and `MarkPending` follow. A row that
one sync records after another deleted the message belongs to no message
(`linked`), and a deletion does not take it; stored again, the message gets it
back with the status and the jobs it has.

`wiped`, `missed` and `skipped` are history variables, read by properties only.
`wiped` has the attachments whose pages were written and dropped since, `missed`
those for whose pages `ReplacePages` looked for the message and found none. The
worker does not look at what `replace_attachment_chunks` returns and reports
such an extraction as done, so `DoneWasWritten` says: done means written, or
looked for and missed. It is about writers that report without having written,
and does not say that the pages are still there (section 5).

Abstractions: a message and its parts have one version, so a change of the
message changes its PDFs; Gmail's attachment id is taken to be stable, as the
code's unique key does; the context and graph jobs of a message's chunks are
queued in one step; a sync deletes only a message Gmail does not have. Whether
a version can be read, and whether a body has text, are constants
(`Unreadable`, `HasText`), for the models to vary.

### GraphFacts

`facts` is `facts` with its one row of `fact_evidence`; `edges[c]` the inputs a
chunk's mentions and relations were extracted from; `chunks`, `ingest` and the
job table as in `ContextJobs`, coarser in that reading a chunk's state and
queueing it is one step. `work[w]` is a worker's locals:

    Claim -> loaded -> ProviderFails | DropResult | CommitNoFact | CommitPlain
                    -> ChoosePrior -> CommitSuperseding

A commit is one transaction that deletes the graph of its chunk, inserts what
was extracted, and for a fact whose evidence has an update cue sets the newest
active fact of the same subject and predicate to `superseded`. Only that last
case is two steps, as only there another transaction can come between what a
SELECT saw and what the UPDATE finds. The row lock on the chunk (`Locked`) and
the wait for a row that another open transaction has deleted are guards.
Deleting a message takes its evidence and leaves its facts; a link to a deleted
fact becomes NULL.

Abstractions: one chunk per message; a text states at most one fact, and what it
states is a constant (`Says`); of the fingerprint the text and the parent's
sender vary; validity of what the model returned is the business of `Quotes`.

### Conversation and ChatTurn

`Conversation` is the promise: a question becomes a whole turn, asked and
answered on the history it was asked on, or leaves nothing behind. `ChatTurn`
takes up to eight steps for that:

    tab:      free -> opening -> posted -> waiting -> free
    handler:  idle -> search -> draft -> ... -> ready      (models answer)
              idle -> search [-> wider] -> ready           (rules answer)
              ready -> saved -> copied -> asked -> answering -> reply -> idle
              idle -> switch | reset -> reply

`sessions` is `SessionStore` (a deep copy per read, a whole write per save);
`handler[h]` a request with its locals, `seen` the copy it read and `copy` the
one `append_turn` reads again. A handler may fail before anything is saved
(`SearchFails`) or when all is saved but the trace cannot be written
(`AppendAnswer`). `TimesOut` is the tab's AbortSignal, which the server does not
notice; `Restart` empties the store and ends the requests.

`LeaveOpening` is a new chat while a session is being opened: the request goes
on in a session nobody else will know. A timeout may come before or after the
server has taken the request up. What an answer says and cites is not part of
this module: an attempt ends with an answer, with another attempt or without one, and
`Quotes` has what may be cited. What a session remembers is reduced to the
questions heard and the one that set the focus (`Dialogue` has the slots). The refinement maps a session whose turn is
being saved to what it was before (`Before`). It is claimed for sessions whose
client waits for its answers; with one that does not, turns interleave
(section 5), and only `HistoryIsOnce` and the invariants are claimed.

### MailText, Quotes, Retrieval, Answers, Dialogue

These are the pure functions, one operator per function of the code, over
abstract data: a line of mail is its kind and the sizes of its words, a chunk a number with scores, a
sentence its set of words, a question a sequence of words. `MCAnswering` picks an
area and one of its inputs, evaluates the code's function on it once and checks
the result; a behaviour has two states.

- `MailText`: `normalize_body`, the four segments of `segment_email_body` with
  the restoring of a body that would be empty, the paragraphs, windows, overlap
  and spans of `EmailAwareChunker.split`, `build_embed_text`, and the spans of
  attachment chunks. Words and tokens are two units, as in the code: limits
  count tokens (`\b\w+\b`, of which a word may have none, as `--`, or several,
  as an address), while an oversized paragraph is cut into windows of `text.split()`
  words, joined again by single spaces, each with the span of the whole
  paragraph. A word is the number of its tokens. The branch of `normalize_body` that
  has a parser take text out of HTML (`rag/email_segmentation.py:73-83`) is left
  out: a body here is what that branch yields.
- `Quotes`: Python's slices and `find`, `_normalize_ws` with its map back to the
  source, `_locate_quote`, `validate_draft`, the deduplication of citations;
  `validate_extraction` with the strip of every field, `resolve_extraction` and
  `metadata_relations`. A text is a sequence of characters. A chunk comes with
  its `home`: the body it was cut from and the end of its span there, so that
  where an item stands in the body can be looked up.
- `Retrieval`: the planner's routes, the lexical, dense and graph branches with
  their filters, limits and tie-breaking, `reciprocal_rank_fusion`,
  `weighted_rrf`, `weighted_rrf_multi`, the reranker's mix of scores. Fractions
  1/(k + rank) are counted in units of 1/((k+1)(k+2)...(k+n)), so that they are
  whole numbers.
  `Orders` says what Python's `sorted`, SQL's ORDER BY and a filtered list are: the
  k-th element is the one with k - 1 before it. `MailText`, `Quotes` and `Retrieval` sort
  and filter with it only, as the provers know nothing of `SortSeq` and `SelectSeq`.
- `Answers`: which hits are preferred and in which order, the metadata,
  structured, direct, timeline and comparison answers, `CitationValidator`
  with its thresholds, and whether to leave the thread. Scores are per cent or
  thousandths.
- `Dialogue`: the slots that `update_from_user_text`, `update_from_hits` and
  `update_from_answer` write, the rules of `_rule_based_rewrite`, and when the
  rewrite a model suggests is used instead.

## 3. Runs

| Run | Instance | Question |
|---|---|---|
| `sync` | 1 worker, 2 messages, 3 changes, connect from `pending`, a crash | Does the cursor ever pass something not applied? |
| `sync_shared` | 2 workers, 1 message, 2 changes, a crash or an overrun | Do overlapping jobs break the index, retry a job more often than faults account for or rewind the cursor? Without an overrun, do they lose a notification or report work done that is not? |
| `sync_live` | 1 worker, a crash, an overrun, fairness | Is every acknowledged change synced, and every job resolved, in the end? |
| `lifecycle` | 2 mailbox ids for 1 account, 2 connects, 1 worker, a death, fair cron | Is a row ever active without a cursor, a due watch starved? |
| `context` | 1 message, 1 chunk, 2 ingesters of which one stores, 2 workers, 2 texts, 1 row, 2 jobs, a death, an overrun, fairness | Does a late or repeated answer land on another text? Is a chunk forgotten? Is every chunk contextualized or given up on? |
| `attachments` | 1 message with 1 PDF, 2 syncs of which one stores, 2 workers, 2 versions (the second unreadable), 2 rows, 1 job, a death or an overrun, fairness | Are pages ever stored without their message, reported although the worker never came to write them, or left without jobs? Does every extraction end? |
| `graph` | 2 chunks, the second correcting the first in its first text only, 1 ingester, 2 workers, 2 rows, 3 facts, 3 jobs, a death, an overrun | Does a late, repeated or overtaken commit leave a fact of another text, a fact twice, or a broken chain of supersession? |
| `chat` | 1 tab, patient or not, 2 handlers, 2 questions, 2 threads, 2 attempts, 3 turns kept, a restart, fairness | Is a turn whole, a history free of repetitions, and does every request end? |
| `functions` | the inputs named in `MCAnswering`, 8 areas | Is text lost, a false quote believed, a foreign chunk found, an uncited word shown, a question resolved to something nobody said? |
| `sync_overlap`, `chat_restart`, `support` | smallest that shows it | Documented promises the code does not keep (section 5) |

Bounds and why they are enough. `MaxJobs = 2` of the sync queue is a running job
and the pending one behind it, which the index never lets grow further; resolved
rows keep their place, so the bound also limits how many jobs a behaviour
creates. `MaxAttempts = 2` has a first try, a retry and giving up.
`MaxHistory = 3` is the initial mail, a change and its undoing, with expiry in
between. One mailbox: mailboxes share only the order in which jobs are claimed.
One message suffices where two workers race, two where a window is half
ingested. Crashes and overruns are bounded by one; nothing else is.

`sync_shared` has one fault, a crash or an overrun (`OneFault`). After an overrun
`AcknowledgedIsCovered` and `DoneMeansSynced` do not hold in general (section 5):
both are claimed while `overruns = 0`, the other properties always. `sync` runs one worker because of what `sync_overlap` shows: with
two, neither `DeletionsApplied` nor, for a message that is deleted and restored
(with `MaxHistory = 3` and two workers), `ArrivalsStored` holds.

In `context` and `attachments` one process stores mail and a second one deletes
it at any moment (`Storers`), which is what a foreign key that refuses a job
takes; the proofs are for any `Storers`.

In `context`, two texts are a change; two jobs, one for each, let the queue
refuse nothing for want of room. The chunk's message has no parent. With one row a chunk may be
deleted but is not stored again under a new one; that case, and any number of
chunks, is covered by the proofs of all three invariants (section 6).
`MayRevert = FALSE`: a message's text comes from an immutable Gmail message or a
corpus file, and changes when the parser does. If an old text came back, a
worker that loaded the text in between could commit a prefix about it, as the
fingerprint is the old one again.

In `attachments`, two versions are a readable PDF and what replaces it, which
nothing can be read from, and two rows a message that is deleted and stored
again. With one job a behaviour extracts one of the versions. A death and an
overrun are not combined in a behaviour (`MaxFaults = 1`), for the sake of the
liveness property; without it the instance with two syncs that both store and
with both faults (3.0 million states up to symmetry) satisfies the five
invariants too. With `Unreadable = {}` and two jobs two workers may write their pages in the wrong
order (section 5), which `PagesAreQueued` does not speak of. One message with
one part suffices: a sync's parts share only the order in which they are listed.

In `graph`, two chunks are the fact that is corrected and the correction; the
second text of the correction has no cue, so that it is taken back; a third fact
is what a second commit of a chunk inserts; both workers may hold open
transactions at once. Neither mail replies to the other, since a chunk whose
parent arrives later is not queued again (section 5).

In `chat`, two handlers and two questions are what can overlap in one tab, once
it no longer waits; three turns kept is one less than two questions and answers,
so that the cut falls inside a turn; two attempts are a rejected draft and
another; two threads are what a switch of the session's thread takes.

In `functions`, the bodies are all of up to four lines of twelve kinds, longer
ones of the kinds that matter for paragraphs and signatures, and all of up to six
lines that are blank or have one or two words of no token, one or two; texts are all
of up to four characters, with every quote of up to three and offsets from -2;
drafts have up to two claims and citations; searches all scores of 0 to 2 over
three chunks in two threads and two mailboxes, on each route; answers all
questions of up to two of nineteen words, and longer ones, over every two of
five hits; dialogues two turns, or resets, from ten questions and five replies.

Deadlock checking is off: every system here may come to rest when no mail
arrives and the bounds are used up.

### Fairness

Weak fairness of a worker's whole step relation: the poll loops of
`gmail/worker.py` run forever and `InlineWorker` catches what escapes; for a
worker process the deployment's restart is assumed. It is fairness of *some*
step, so a run may still fail each time. Weak fairness of lease expiry: clocks
advance. In the lifecycle, weak fairness of starting a renewal run and of its
steps (`worker.py` asks for a daily cron); dying is bounded. In the
contextualization, weak fairness of a worker's claim, load and answer, of an
ingester that has begun with a message (its sync job is retried) and of lease
expiry; none of the backfill, which is run by hand. In the extraction, weak
fairness of a worker's whole step relation, of a sync that has begun with a
message, and of lease expiry. In `ChatTurn`, weak fairness of a handler that has
work (a thread of the server runs; its HTTP calls have time limits and either
return or raise), of a tab that is opening a session, and of the server taking
up a request that was sent; no fairness of a tab's timeout, and none of a new
chat. Nothing makes a notification arrive, Gmail change, a user connect or ask,
or a process fail or die.

## 4. Properties and mutants

Each property states in its comment what code behaviour it is about. Every one
has a mutant in `PROJECT.json`: a plausible bug, defined next to the action it
changes (`ReplayLate`: the full-sync checkpoint taken after the scan;
`CommitBeforeDelete`; `Overwrite`: no GREATEST; `SwallowError`;
`EnqueueIntoOpen`: coalescing into a running job; `ClaimableNotExpired`;
`ReleaseAnyway`: no unique index; `RetryOnceMore`: `>` for `>=` in `fail_job`;
`AnyInputs`: a commit without the comparison of fingerprints; `LoadedByBox`: graph chunks without the filter of the thread; ...),
which TLC finds violated.

`ArrivalsStored` and `DeletionsApplied` say of each message what its last
change up to the cursor demands of the sink. Deletions are claimed only after
the seed and after the newest full-sync checkpoint: a full sync jumps over
expired history and only adds.

`AcknowledgedIsCovered` is the safety half of delivery: an acknowledged history
id is behind the cursor, or a job that may still bring it there exists, or a
job has used up its attempts. `AcknowledgedIsSynced` is the liveness half.

`AttemptsAreBounded` adds up what several steps do: `claim_job` counts attempts
and compares them with nothing, `fail_job` compares, and for the caller only. A
job is reclaimed past `MaxAttempts` when its worker died or outlived its lease,
and a stale worker may fail the row under the one that runs it; what holds is
one claim more for each of these faults, in the whole system, and no other.

`TurnsAreWhole` is the refinement of `Conversation`: it says at once that
memory, turns and focus of a turn belong together, that a failed turn leaves
nothing, and that what is kept is the history the turn was asked on.
`GraphMatchesHash` is the graph's counterpart of `EmbedDescribesText`.
`EvidenceIsInScope` has a rule no weights can break: a chunk that every branch
ranks ahead of another is ahead of it after fusion.

## 5. Where the code departs from its documentation

With a run that shows it:

- `sync_overlap`. `gmail/worker.py:3-6` calls two worker processes safe. A
  notification during a running job queues a second job; the slower worker
  stores a message it fetched before the faster one applied its deletion and
  committed past it. The deleted message stays. The twin, a slow deletion
  after a restore, needs one more change.
- `chat_restart`. `src/frontend/src/lib/api.ts:247`: the session of a tab is
  re-created if the backend forgets it. `askInbox` does that on 404 and 422; an
  unknown session is a `KeyError` and 500 (`app/sessions.py:32`).
- `support`. `rag/paradedb/retrieval.py:7-10`: the adapter returns hits of the
  same shape, so that the answer pipeline needs no change. Its hits lack the
  normalised scores the reranker mixes in, so support stays at most 0.5, below
  the threshold of 0.55: over ParadeDB the deterministic engine never confirms.

Seen while modelling, in the models, and without a run of their own:

- `gmail/service.py:19-21` leaves a day for a failed renewal to be retried. The
  failure sets status `error`, and the renewal list has `active` and
  `needs_full_sync` mailboxes only.
- `context/repository.py:174-176`: a result dropped as stale is covered by a
  newer job. When the message replied to is stored after its reply, the reply's
  fingerprint changes and nobody queues it again. `RootsAreCovered` and
  `ExtractionIsCovered` are therefore about chunks without a parent.
- `src/README.md:115-117` calls replaying a window idempotent. A sync that
  persists a message again deletes its page chunks
  (`rag/paradedb/repository.py:262`), finds the extraction job done and queues
  none: the attachment stays `done` and is no longer searchable.
- `src/docs/ARCHITECTURE.md:404-405`: a fact is superseded only by a *later* one.
  Later is what is committed later: workers and retries extract mail in any
  order, so the fact of an older mail may supersede that of a newer one.
- After a lease overrun, `complete_job` (`gmail/repository.py`) checks neither
  status nor owner, and marks done a job that was failed back to pending and has
  taken in a newer notification: the notification is lost.
- A full sync (`gmail/sync.py:124`: "rebuild the mailbox") never removes mail
  deleted in the expired part of the history.
- A sync of a mailbox still `pending` sets it `active` before its watch is
  stored (`gmail/service.py:41-44`); if the connect then dies, the watch is never
  renewed.
- `src/docs/ARCHITECTURE.md:207`: `embed_text` is headers, context and text.
  Persisting an unchanged chunk again resets it to headers and text, keeps the
  stored hash, and so queues nothing: the prefix is stored but not searched.
- A message without authored text is not stored, so its PDFs are retried and
  fail for want of a parent (`rag/attachments/worker.py:103`), though
  `gmail/sink.py:91` records them.
- An attachment's `done` may be overwritten by the `pending` of the sync that
  queued its job, when the worker was faster
  (`rag/attachments/repository.py:89`).
- A worker that dies after `commit_extraction` and before it queues the context
  and graph jobs of the new pages leaves them without: a done job is not retried
  (`PagesAreQueued` is therefore about runs in which no process dies).
- Two workers on two versions of an attachment may write the older pages last.
- `rag/attachments/worker.py:115` does not look at what
  `replace_attachment_chunks` returns. If the message is deleted between the worker's
  first look for it and the write, nothing is written, and the job and the
  attachment are reported as done. Where the attachment's row outlives the
  deletion (it was recorded without a message), the mail may be stored again:
  it then has an attachment that is `done`, never had pages, and is not queued
  again. `DoneWasWritten` names this case (`missed`).

In the graph: extracting a chunk again deletes its facts and inserts them as
`active`, also one that had been superseded; two commits with cues may supersede
the same prior fact; a changed text keeps its facts until the next extraction,
and a deleted message leaves facts without evidence; nothing writes
`effective_date`, so the route for questions about the past finds nothing
(`graph/repository.py:426`). The comment of `_source_offsets`
(`graph/extract.py:60-63`), that a chunk is a contiguous slice of the body and
its offsets translate, is not so for windows of an oversized paragraph: each has
the start of the paragraph, and its words are joined anew, so an item found in
a later window is given a place in the right paragraph where something else
stands. `QuotesAreReal` claims the place in the body only for chunks that stand
there (`StandsInBody`), and the span of the chunk for all.

In sessions: a tab that timed out may ask again while the first turn is being
saved, and the two turns then interleave, one losing its memory (`heard`); a
trace that cannot be written turns an answered question into an error although
the turn is recorded (`rag/engine.py:176`); a weak second answer from outside
the thread replaces the text only, its citations stay (`rag/engine.py:139`).

In text: a chunk may exceed the limit by the overlap it starts with, and a window
of an oversized paragraph by any number of tokens, since it is measured in words
(`rag/chunking.py:70` against `rag/utils.py:40`); its text need not stand in the
mail character by character, though it is what is cited; a block of headers is taken for quoted history only if the first non-blank of the four
lines after it is a header too.

In answers: the pattern of file names takes in the words before one
(`rag/answer.py:209`, `rag/memory.py:14`); a clause that needs two supports may
cite two hits of one chunk; a refusal keeps the citations of what it refuses; a
model's negative `start` and a quote of white space are accepted
(`rag/grounded_answer.py:293`); the graph branch is cut to its limit before
the filter of the thread, so a thread's evidence may be cut away; in the trace
of the dense search the nearest hit has score 0.

In dialogue: a correction stays in force until the next one or a reset
(`rag/rewrite.py:221`), except that a rule for one particular meeting precedes
it (`rag/rewrite.py:233`); a question that names one file may be sent to search
with the focus on another, the last name the session has heard
(`rag/memory.py:182-185`); a refusal becomes the focus of the session, as only
"I could not confirm" is exempt (`rag/memory.py:149`); `src/README.md:174`
suggests "And when is the deadline?", of which the rules resolve only "and when"
by itself.

## 6. Proofs

All theorems are for arbitrary sets of mailboxes, workers, messages, rows and
arbitrary bounds, from the named assumptions on constants only
(`QueueAssumption`, `SyncAssumption`, `LifecycleAssumption`,
`ContextAssumption`, `AttachmentAssumption`, `GraphAssumption`,
`ChatAssumption`, `MailTextAssumption`, `QuotesAssumption`: None is not a pair of
offsets, `RetrievalAssumption`: limits are positive); where a theorem needs more, it says so. No run lists the
queue's type invariant any more; it is proved, and carried over to `GmailSync`.

- *Queue.* `QueueTypeCorrect`, `OnePendingCorrect`, `AttemptsBoundedCorrect`.
  "One pending job" needs to know that a pending row belongs to a mailbox
  (`Placed`), and then that each action writes at most one row to `pending`
  and only when the mailbox has none; lemmas about writing a single row carry it.
  The bound on attempts needs `HasClaimLeft`: a pending row has one of its own
  attempts left, and a running row that nobody works on, or whose lease has run
  out, one that a fault has added. So whoever claims next stays within the bound;
  who let go of the row has passed `fail_job`'s comparison, or has died or
  outlived its lease, and has been counted.
- *Sync implements the queue.* `SyncImplementsQueue`: every step of the
  composed system is a step of `QueueNext` or leaves the queue's variables
  alone. `SyncKeepsQueue` carries the queue's invariants over without proving
  them again.
- *Sync.* `SyncTypeCorrect`, `CursorMonotoneCorrect`, by the invariant
  `CursorInv`. The cursor's type is not inductive by itself: a commit writes
  the `next` of the worker's window, so the invariant (`LocalOK`) says of every
  worker's locals that start and next are history ids Gmail has reached, that a
  replay starts from a checkpoint and that a worker in a run knows its mailbox;
  Gmail's log only grows (`NowGrows`), so snapshots stay valid.
- *Nothing asked for is lost.* `DoneMeansSyncedCorrect` and
  `AcknowledgedIsCoveredCorrect`, while `overruns = 0`. The invariant (`CoverInv`)
  says of a worker holding a job which history ids its run `Reaches` at each
  step: the end of its window, the checkpoint of its scan, or the cursor it has
  committed. A holder reaches what its job was asked for (`SyncsRequested`), which
  needs that requests name changes Gmail has already logged (`Asked`), so that a
  window read after the claim includes them. A `fail_job` that has read a successor
  folds its request into a job that may be running or done by then: that is safe
  since whoever claimed it has done so after this job's request was logged
  (`SuccessorsSync`). `HeldOK` says that a live lease has one holder. The
  hypothesis is needed: with three attempts and one overrun TLC finds a run of 18
  steps after which both are false (section 5, `complete_job`); with two
  attempts it finds none.
- *What is stored agrees with the cursor.* `ArrivalsStoredCorrect` and
  `DeletionsAppliedCorrect`, assuming `[]Apart`: no two runs sync one mailbox at
  once. `sync_overlap` shows that the condition is needed; with one worker it
  holds by itself, so `OneWorkerStores` has no condition but that, whatever
  crashes or lapses. The invariant (`SinkInv`) follows each message through a
  run (`MessageOK`): what the window added last is stored, still listed or
  fetched; what it deleted last is deleted or still listed; and nothing is fetched
  or listed whose last change within the window says otherwise, so a write never
  undoes what is behind the cursor. Such a run opens at the cursor, or took its
  checkpoint at or after it, unless the seed of the cursor came meanwhile
  (`SyncOK`). Two lemmas carry the arithmetic of Gmail's log: `LastAgrees` (the
  last change in a window that ends now is the last change of all, or outside it)
  and `ChangeIsLast` (a new change is after every window and leaves other
  messages alone).
- *Lifecycle.* `LifecycleTypeCorrect`, `ActiveHasCursorCorrect`, by `LifecycleInv`. The strengthening is
  `CommitsFirst`: a run about to set its mailbox active has committed a cursor,
  and no write takes a cursor away (`CursorsStay`).
- *Contextualization.* `ContextTypeCorrect`, `EmbedDescribesTextCorrect`,
  `RootsAreCoveredCorrect`, the last two assuming `~MayRevert`. The first needs
  that row ids are handed out once (`RowsDiffer`), or a cascade would miss a
  job or hit another chunk's. The second needs that everything read is behind
  the chunk (`ReadsBehind`): a queued digest is no newer than the text a worker
  loaded, which is no newer than the chunk's, so equal fingerprints at commit
  mean equal texts. The third needs that a done job with the chunk's present
  inputs has been applied (`DoneIsApplied`), since `Insert` collides with done
  jobs, and that an ingester not yet through will queue the chunk as it is
  (`RootsAreHandled`). `ShapeInv`, `TextInv` and `CoverInv` were checked by
  TLC as invariants before they were proved.
- *Attachments.* `AttachmentTypeCorrect`, `PagesHaveParentCorrect`,
  `PartsAreQueuedCorrect`, `DoneWasWrittenCorrect`, `PagesAreQueuedCorrect`. That a job in
  the table names its attachment's present row (`JobsHaveRows`) is what a sync
  disturbs which records a row in one statement and its job in the next, and a
  deletion in between; it holds since a new row has no job yet, a job is refused
  for a row that is gone, and a deletion takes every job that names the row. The
  invariant adds what the locals hold at each step (`IngestOK`, `WorkOK`). Pages
  have their message since `replace_attachment_chunks` looks for it in the
  transaction that writes; the worker's first look proves nothing.
  The other three need that ids of rows are given once (`RowsBorn`), as an
  attachment may be deleted and recorded anew under a worker. `PartsAreQueued`
  is about mail at rest; its invariant also covers mail a sync is at, part by
  part (`PartsCovered`). `DoneWasWritten` needs what a worker that is about to
  report has shown of the row it works for (`WritersShow`): pages, pages dropped
  since, or a look for the message that found none. And `PagesAreQueued` that whoever last wrote pages
  has yet to queue for them (`WritersQueue`).
- *Graph.* `GraphTypeCorrect`, `GraphMatchesHashCorrect`, `AssertedOnceCorrect`,
  `SupersessionIsSoundCorrect`, `OnlyCuesSupersedeCorrect`,
  `ExtractionIsCoveredCorrect`. `ReadsBehind` is the argument of
  `EmbedDescribesText` once more, with one part more: a worker that waits for a
  row lock in its transaction has passed the comparison of fingerprints, so its
  chunk must stay as it was until it commits (`WritersAreFresh`), which holds as
  the transaction locks the chunk's row. Supersession needs that facts are
  numbered in the order they are born (`BornInOrder`) and that the fact a
  transaction chose, and may find gone, is about the key of what it asserts
  (`WritersHaveCause`): then a link is stored with the fact that gives it, and
  the deletion of that fact frees the one it superseded. `ExtractionIsCovered`
  needs `DoneIsApplied` as contextualization does.

- *Answering.* `ChatTypeCorrect`, by `ChatInv`. Its
  parts need each other: a handler's request names a session its tab has opened
  (`IsKnown`), which stays so because tabs only count up (`Grown`) and, until a
  restart, no session disappears (`Kept`) - so that what `append_turn` reads again
  is a session and not the mark of a closed one. The bound on turns is a lemma about `LastTurns`.
- *A history is told once.* `HistoryIsOnceCorrect`, by `TalkInv`: not only what is
  stored but every copy a handler may still save, and what is left to say of its
  question, must fit together (`SessionsFit`, `CopiesFit`). A copy holds nothing a
  handler of that session has yet to append, and no two handlers answer one
  question (`OwnQuestions`), so an append is new wherever it lands; and saving an
  older copy over a newer session, which the code may do, loses turns but repeats
  none.
- *A turn is whole.* `TurnsAreWholeCorrect`, the refinement of `Conversation` for a
  session whose tab waits. The abstract session is the stored one, except while its
  one request is being saved: then it is the session as that request found it
  (`Before`). Under this mapping the last save, with the answer in it, is the whole
  `Turn`; opening, clearing and a restart are `Open`, `Clear` and `Forget`; the
  seven steps in between, and whatever other sessions do, stutter. The invariant
  (`PromiseInv`) says that a patient tab has one request at a time (`Patience`),
  that nothing is said in a session before it is opened (`Unopened`), and at each
  step what that request has stored already (`Progresses`).
- *Texts and quotes*, about functions, for texts of any length.
  `SegmentsAreWhole`: the four segments of a normalised mail are passages of it,
  one after the other, that leave out blank lines only, and history starts where it
  starts first. The lemma `CutAt` carries it: each of the three cuts leaves
  a prefix of the text and a passage. `PagesAreKept`: no word of a page is lost,
  whatever size and overlap are configured (an overlap as large as the size is
  allowed, the step is one then), and a span holds the words of its chunk.
  `AcceptedIsQuoted`: of a draft that `validate_draft` accepts, every citation of
  every claim is kept and says what stands at its span; a quote found only up to
  white space is replaced by what stands there, and an offset the model gives is
  taken as a slice of Python's, negative ones included. `LocatedIsThere`: the span of
  an extracted item is the first place that holds its evidence. What is
  recursive here, as `FlattenSeq`, is followed by its least counterexample
  (`LeastCounterexample`, from the library's `WFMin`), since the induction theorems
  cannot be used.
- *What is indexed of a mail*: `MailsAreKept`, and with `PagesAreKept`
  `TextIsKeptCorrect`. What is written in a text (`Written`) is cut with it: if one
  passage follows another, what is written in both is what is written in the first
  and then in the second (`ThoseOfBoth`), so four passages that leave out blank lines
  only hold all that is written, in its order. A chunk needs an invariant of the loop
  over the paragraphs, `Reaches`: the closed chunks are cuts in the order of
  the text and none ends behind the last paragraph read; an open one ends there, begins
  with text and has no more tokens than limit and overlap; every line of the paragraphs read
  is in one of them, or each word of its paragraph in a window. The order of the chunks is what is not obvious of it: a new chunk is
  seeded from the open one, and begins nowhere before it (`SeedIs`). That each paragraph keeps
  it is `AddKeeps`, one case for each way a paragraph is added: cut into windows,
  appended, or seeding the next chunk. The limit holds up to the
  overlap only: a paragraph that did not fit is put behind the seed without comparing both
  with the limit (`rag/chunking.py:82-92`). For a window no bound on tokens is claimed,
  since none holds, only one on words.
- *What is believed of a model*: `AnswersAreReal` and `GraphsAreReal`, and from
  both `QuotesAreRealCorrect`. Everything in them is filtered, so it rests on what
  `InOrder` yields: a relation that orders a finite set strictly gives each element
  a rank of its own, and the ranks are 1 to n (by the pigeonhole lemma for sets of
  numbers); then `Increasing` and `Those` keep order, elements and nothing else. The pack takes
  the first place of each hit, so it has exactly as many different hits as there are,
  up to the budget. A quote found up to white space needs the map back
  from the normal form to the text: between two neighbouring places of the normal
  form there is only white space, so what stands there reads like the quote
  again. Of an extraction, an item that survives has its stripped evidence in
  the chunk, and a relation's ends are keys of mentions that survived. Where it stands
  in the body follows for a chunk that stands there; `HasRoom`, that a chunk's text
  is no longer than its span, keeps it in the span otherwise.
- *What a search may find*: `HybridSearchIsRight`, `DatabaseSearchIsRight`,
  `MemorySearchIsRight`, and from them `EvidenceIsInScopeCorrect`, for any mailbox,
  graph, question and limits. Scope is carried from each branch through the fusion
  to the reranked hits; the graph branch is not in scope before
  `LoadGraphChunks`, whatever `CollectGraphChunkIds` found. That what every
  branch ranks ahead stays ahead needs numbers: `Unit(n)` is divisible by each of its
  factors, so a branch's part falls strictly with the rank (`RrfPart`), a chunk a branch
  does not have gets less than any it has, and a sum of parts that are each no smaller, one
  larger, is larger (`RrfScore`); two orders by falling score then agree. Stable
  sorting keeps the order of arrival where scores are equal.

The inductive invariants were checked by TLC, on instances like those of the runs,
before they were proved.

Every safety property of the processes that a passing run lists is stated by a
theorem. Only model-checked, on every input of their bounded sets, are two properties
of `MCAnswering`: `AnswersAreCited` and `QueriesAreResolved`. They
follow tables of words and patterns case by case, so that a proof would repeat the
enumeration TLC does; and that a mail's fields are cited from that mail only holds for
the questions the code expects, not for every combination of words. And all
liveness properties
(`EveryJobResolves`, `AcknowledgedIsSynced`, `DueIsTried`, `RootsSettle`,
`ExtractionSettles`, `RequestsEnd`): the prover has no ENABLED, so liveness under
fairness is out of its reach too.

## 7. Plan

Done: queue, sync, lifecycle, contextualization, attachments, graph, chat, and
the pure functions from text to answer; the proofs of every safety property of
all but the last, and of mails, pages, quotes, extractions and searches for
every input. Left, in order of weight:

1. An abstract leased queue (claim, finish, fail, reclaim) which both queue
   modules implement.
2. Two accounts in the lifecycle: the credential that lands on another account's
   row, the cursor kept when a mailbox is reconnected elsewhere.

## 8. Not modelled

MIME parsing and the reconstruction of threads from corpus files (where a reply
keeps the parent's thread id, `rag/threading.py:17-22`), the prompts and HTTP
calls of providers, embeddings and the scores of models, text recognition,
encryption, the consent URL and PKCE, paging, schema migrations, building the
in-memory indexes, batch scripts, rendering, deployment: they hold no state that
several processes share, or are data the models leave open. Of the pure functions
a word's form is left out (case, punctuation, the exact regular expressions):
the models say which kind of word or line a pattern sees. Whether the claims of a
model's answer follow from its quotes is not checked by the code and not stated
here. The in-memory stores of tests mirror the Postgres stores under one lock;
the models follow Postgres. `PROJECT.json` lists every component with its
status and every hazard with the property that covers it or the reason none
does.
