----------------------------- MODULE GmailSync -----------------------------
(***************************************************************************)
(* Keeping connected mailboxes in step with Gmail: the workers of          *)
(* gmail/worker.py run the jobs of SyncJobQueue through the cursor state   *)
(* machine of gmail/sync.py, against Gmail and the idempotent sink.        *)
(*                                                                         *)
(* Gmail is a log per mailbox: the change with history id i is             *)
(* history[mb][i]. Changes up to horizon[mb] are no longer served. Every   *)
(* Gmail call and every committed statement of a sync is a step of its     *)
(* own, so changes, notifications, other workers and crashes fall between  *)
(* any two of them. A mailbox here is connected and never disconnected     *)
(* (MailboxLifecycle covers that).                                         *)
(***************************************************************************)
EXTENDS SyncJobQueue, Sequences

CONSTANTS
  Messages,  \* Gmail message ids
  Prior,     \* the changes Gmail has logged before the run begins
  Connected  \* mailboxes whose connection is complete when the run begins

VARIABLES
  history,   \* mailbox -> Gmail's log of changes
  horizon,   \* mailbox -> newest history id Gmail has forgotten
  status,    \* gmail_mailboxes.status
  cursor,    \* gmail_mailboxes.last_committed_history_id, or NoCursor (NULL)
  watch,     \* mailbox -> historyId users.watch answered, until it is stored
  sink,      \* mailbox -> message ids stored in email_messages
  pc, run,   \* worker -> where it is in run_once, and its local variables
  base,      \* history variable: cursor the first activation seeded
  rebuilt    \* history variable: newest committed full-sync checkpoint

mailVars == <<history, horizon>>
rowVars == <<status, cursor, watch, base, rebuilt>>
syncVars == <<history, horizon, status, cursor, watch, sink, pc, run, base, rebuilt>>
vars == <<queueVars, syncVars>>

NoCursor == -1
NotCalled == -1
Stored == -2
NoMessage == "none"

Change == [kind : {"add", "delete"}, msg : Messages]

ASSUME SyncAssumption ==
  /\ Prior \in Seq(Change) /\ Len(Prior) <= MaxHistory
  /\ NoMessage \notin Messages

\* A worker's locals: the mailbox, how it syncs, the start of its window, the
\* cursor it will commit, the messages still to fetch or to delete, and the
\* message fetched but not persisted.
NewRun(mb, full) ==
  [mailbox |-> mb, mode |-> "delta", full |-> full, start |-> 0, next |-> 0,
   adds |-> {}, deletes |-> {}, fetched |-> NoMessage]

IdleRun == NewRun(NoMailbox, FALSE)

Syncing ==
  {"history", "markJob", "markMailbox", "profile", "scan", "ingest", "persist", "activate"}

PCs == {"idle", "read", "complete", "fail", "error"} \cup Syncing

-----------------------------------------------------------------------------
(* Gmail.                                                                  *)

Now(mb) == Len(history[mb])

\* The last change of message m in the window (lo, hi].
LastIn(mb, m, lo, hi) ==
  LET hits == {i \in (lo + 1) .. hi : history[mb][i].msg = m}
  IN  IF hits = {} THEN 0 ELSE CHOOSE i \in hits : \A k \in hits : k <= i

IsAdd(mb, i) == i # 0 /\ history[mb][i].kind = "add"
IsDelete(mb, i) == i # 0 /\ history[mb][i].kind = "delete"

InMailbox(mb, m) == IsAdd(mb, LastIn(mb, m, 0, Now(mb)))

\* Mail arrives, is restored, or is deleted.
GmailChange(mb, m) ==
  /\ Now(mb) < MaxHistory
  /\ history' = [history EXCEPT ![mb] =
       Append(@, [kind |-> IF InMailbox(mb, m) THEN "delete" ELSE "add", msg |-> m])]
  /\ UNCHANGED <<queueVars, horizon, rowVars, sink, pc, run>>

\* Gmail keeps history for a limited time only.
GmailForgets(mb) ==
  /\ \E h \in (horizon[mb] + 1) .. Now(mb) : horizon' = [horizon EXCEPT ![mb] = h]
  /\ UNCHANGED <<queueVars, history, rowVars, sink, pc, run>>

\* Pub/Sub pushes a change of the mailbox, in any order and after any delay.
Notify(mb, h) ==
  /\ h > Len(Prior) /\ h <= Now(mb)
  /\ RecordNotification(mb, h, status[mb] = "needs_full_sync")
  /\ UNCHANGED syncVars

-----------------------------------------------------------------------------
(* connect_mailbox after upsert_mailbox, which leaves the row 'pending'.    *)

CallWatch(mb) ==
  /\ watch[mb] = NotCalled
  /\ watch' = [watch EXCEPT ![mb] = Now(mb)]
  /\ UNCHANGED <<queueVars, mailVars, status, cursor, base, rebuilt, sink, pc, run>>

\* activate_watch: COALESCE keeps a cursor that is already there.
ActivateWatch(mb) ==
  /\ watch[mb] >= 0
  /\ IF cursor[mb] = NoCursor
       THEN /\ cursor' = [cursor EXCEPT ![mb] = watch[mb]]
            /\ base' = [base EXCEPT ![mb] = watch[mb]]
       ELSE UNCHANGED <<cursor, base>>
  /\ status' = [status EXCEPT ![mb] = "active"]
  /\ watch' = [watch EXCEPT ![mb] = Stored]
  /\ UNCHANGED <<queueVars, mailVars, rebuilt, sink, pc, run>>

-----------------------------------------------------------------------------
(* A worker.                                                               *)

Of(w) == run[w].mailbox

Goto(w, label) == pc' = [pc EXCEPT ![w] = label]

SetRun(w, locals) == run' = [run EXCEPT ![w] = locals]

\* run_once: claim. The job it returns is a snapshot.
Claim(w) ==
  /\ pc[w] = "idle"
  /\ ClaimJob(w)
  /\ SetRun(w, NewRun(jobs'[held'[w]].mailbox, jobs'[held'[w]].needsFull))
  /\ Goto(w, "read")
  /\ UNCHANGED <<mailVars, rowVars, sink>>

\* run_once: read the mailbox, also a snapshot; run_sync: decide what to run.
ReadMailbox(w) ==
  LET full == \/ run[w].full \/ status[Of(w)] = "needs_full_sync"
              \/ cursor[Of(w)] = NoCursor
  IN  /\ pc[w] = "read"
      /\ SetRun(w, [run[w] EXCEPT !.start = cursor[Of(w)]])
      /\ Goto(w, IF full THEN "profile" ELSE "history")
      /\ UNCHANGED <<queueVars, mailVars, rowVars, sink>>

\* collect_history: the last change of a message in the window wins.
ListHistory(w) ==
  LET mb == Of(w)
      last(m) == LastIn(mb, m, run[w].start, Now(mb))
  IN  /\ pc[w] = "history" /\ run[w].start >= horizon[mb]
      /\ SetRun(w, [run[w] EXCEPT !.adds = {m \in Messages : IsAdd(mb, last(m))},
                                  !.deletes = {m \in Messages : IsDelete(mb, last(m))},
                                  !.next = Larger(run[w].start, Now(mb))])
      /\ Goto(w, "ingest")
      /\ UNCHANGED <<queueVars, mailVars, rowVars, sink>>

\* GmailHistoryExpired: a delta becomes a full sync; a replay is cut short.
HistoryGone(w) ==
  /\ pc[w] = "history" /\ run[w].start < horizon[Of(w)]
  /\ IF run[w].mode = "replay"
       THEN SetRun(w, [run[w] EXCEPT !.next = run[w].start]) /\ Goto(w, "ingest")
       ELSE Goto(w, "markJob") /\ UNCHANGED run
  /\ UNCHANGED <<queueVars, mailVars, rowVars, sink>>

MarkJob(w) ==
  /\ pc[w] = "markJob"
  /\ MarkJobNeedsFullSync(w)
  /\ Goto(w, "markMailbox")
  /\ UNCHANGED <<mailVars, rowVars, sink, run>>

MarkMailbox(w) ==
  /\ pc[w] = "markMailbox"
  /\ status' = [status EXCEPT ![Of(w)] = "needs_full_sync"]
  /\ Goto(w, "profile")
  /\ UNCHANGED <<queueVars, mailVars, cursor, watch, base, rebuilt, sink, run>>

\* run_full_sync takes its checkpoint before it scans.
TakeCheckpoint(w) ==
  /\ pc[w] = "profile"
  /\ SetRun(w, [run[w] EXCEPT !.mode = "scan", !.start = Now(Of(w))])
  /\ Goto(w, "scan")
  /\ UNCHANGED <<queueVars, mailVars, rowVars, sink>>

Scan(w) ==
  /\ pc[w] = "scan"
  /\ SetRun(w, [run[w] EXCEPT !.adds = {m \in Messages : InMailbox(Of(w), m)}])
  /\ Goto(w, "ingest")
  /\ UNCHANGED <<queueVars, mailVars, rowVars, sink>>

\* _ingest_messages: a message that vanished since it was listed is skipped.
Fetch(w) ==
  /\ pc[w] = "ingest"
  /\ \E m \in run[w].adds :
       IF InMailbox(Of(w), m)
         THEN SetRun(w, [run[w] EXCEPT !.adds = @ \ {m}, !.fetched = m]) /\ Goto(w, "persist")
         ELSE SetRun(w, [run[w] EXCEPT !.adds = @ \ {m}]) /\ UNCHANGED pc
  /\ UNCHANGED <<queueVars, mailVars, rowVars, sink>>

Persist(w) ==
  /\ pc[w] = "persist"
  /\ sink' = [sink EXCEPT ![Of(w)] = @ \cup {run[w].fetched}]
  /\ SetRun(w, [run[w] EXCEPT !.fetched = NoMessage])
  /\ Goto(w, "ingest")
  /\ UNCHANGED <<queueVars, mailVars, rowVars>>

\* Mutant: the checkpoint is taken after the scan.
ReplayLate(w) ==
  /\ pc[w] = "ingest" /\ run[w].adds = {} /\ run[w].mode = "scan"
  /\ SetRun(w, [run[w] EXCEPT !.mode = "replay", !.start = Now(Of(w))])
  /\ Goto(w, "history")
  /\ UNCHANGED <<queueVars, mailVars, rowVars, sink>>

\* The scan is ingested: replay the history since the checkpoint.
Replay(w) ==
  /\ pc[w] = "ingest" /\ run[w].adds = {} /\ run[w].mode = "scan"
  /\ SetRun(w, [run[w] EXCEPT !.mode = "replay"])
  /\ Goto(w, "history")
  /\ UNCHANGED <<queueVars, mailVars, rowVars, sink>>

Delete(w) ==
  /\ pc[w] = "ingest" /\ run[w].adds = {}
  /\ \E m \in run[w].deletes :
       /\ sink' = [sink EXCEPT ![Of(w)] = @ \ {m}]
       /\ SetRun(w, [run[w] EXCEPT !.deletes = @ \ {m}])
  /\ UNCHANGED <<queueVars, mailVars, rowVars, pc>>

\* Mutants: no GREATEST; one past the change.
Overwrite(mb, h) == cursor' = [cursor EXCEPT ![mb] = h]
AdvancePast(mb, h) == cursor' = [cursor EXCEPT ![mb] = Larger(@, h + 1)]

Advance(mb, h) == cursor' = [cursor EXCEPT ![mb] = Larger(@, h)]

\* Mutant: the cursor is committed before the deletions are applied.
CommitBeforeDelete(w) ==
  /\ pc[w] = "ingest" /\ run[w].adds = {} /\ run[w].mode # "scan"
  /\ Advance(Of(w), run[w].next)
  /\ rebuilt' = rebuilt
  /\ Goto(w, IF run[w].deletes = {} THEN "activate" ELSE "ingest")
  /\ UNCHANGED <<queueVars, mailVars, status, watch, base, sink, run>>

\* run_sync: everything is persisted, commit_history_cursor.
CommitCursor(w) ==
  /\ pc[w] = "ingest" /\ run[w].adds = {} /\ run[w].deletes = {} /\ run[w].mode # "scan"
  /\ Advance(Of(w), run[w].next)
  /\ rebuilt' = IF run[w].mode = "replay"
                  THEN [rebuilt EXCEPT ![Of(w)] = Larger(@, run[w].start)] ELSE rebuilt
  /\ Goto(w, "activate")
  /\ UNCHANGED <<queueVars, mailVars, status, watch, base, sink, run>>

SetActive(w) ==
  /\ pc[w] = "activate"
  /\ status' = [status EXCEPT ![Of(w)] = "active"]
  /\ SetRun(w, IdleRun)
  /\ Goto(w, "complete")
  /\ UNCHANGED <<queueVars, mailVars, cursor, watch, base, rebuilt, sink>>

Complete(w) ==
  /\ pc[w] = "complete"
  /\ CompleteJob(w)
  /\ Goto(w, "idle")
  /\ UNCHANGED <<mailVars, rowVars, sink, run>>

-----------------------------------------------------------------------------
(* Failure.                                                                *)

\* Mutant: run_once completes the job although run_sync raised.
SwallowError(w) ==
  /\ pc[w] \in Syncing
  /\ SetRun(w, IdleRun)
  /\ Goto(w, "complete")
  /\ UNCHANGED <<queueVars, mailVars, rowVars, sink>>

\* A Gmail call or a statement of run_sync raises.
SyncRaises(w) ==
  /\ pc[w] \in Syncing
  /\ SetRun(w, NewRun(Of(w), FALSE))
  /\ Goto(w, "fail")
  /\ UNCHANGED <<queueVars, mailVars, rowVars, sink>>

\* run_once calls fail_job; when that raises itself the run ends here.
ReadSuccessor(w) ==
  /\ pc[w] = "fail" /\ FailRead(w)
  /\ UNCHANGED syncVars

FailWrite(w) ==
  /\ pc[w] = "fail"
  /\ GiveUp(w) \/ Release(w)
  /\ Goto(w, "error")
  /\ UNCHANGED <<mailVars, rowVars, sink, run>>

FailRaises(w) ==
  /\ pc[w] = "fail" /\ FailConflict(w)
  /\ SetRun(w, IdleRun)
  /\ Goto(w, "idle")
  /\ UNCHANGED <<mailVars, rowVars, sink>>

\* run_once records the failure on the mailbox, whatever its status is now.
SetError(w) ==
  /\ pc[w] = "error"
  /\ status' = [status EXCEPT ![Of(w)] = "error"]
  /\ SetRun(w, IdleRun)
  /\ Goto(w, "idle")
  /\ UNCHANGED <<queueVars, mailVars, cursor, watch, base, rebuilt, sink>>

Die(w) ==
  /\ Crash(w) \/ (pc[w] = "error" /\ UNCHANGED queueVars)
  /\ SetRun(w, IdleRun)
  /\ Goto(w, "idle")
  /\ UNCHANGED <<mailVars, rowVars, sink>>

Lapse(j) == LeaseLapses(j) /\ UNCHANGED syncVars

Overrun(j) == LeaseOverrun(j) /\ UNCHANGED syncVars

-----------------------------------------------------------------------------
Work(w) ==
  \/ Claim(w) \/ ReadMailbox(w) \/ ListHistory(w) \/ HistoryGone(w)
  \/ MarkJob(w) \/ MarkMailbox(w) \/ TakeCheckpoint(w) \/ Scan(w)
  \/ Fetch(w) \/ Persist(w) \/ Replay(w) \/ Delete(w)
  \/ CommitCursor(w) \/ SetActive(w) \/ Complete(w)
  \/ ReadSuccessor(w) \/ FailWrite(w) \/ FailRaises(w) \/ SetError(w)

Gmail(mb) ==
  \/ \E m \in Messages : GmailChange(mb, m)
  \/ GmailForgets(mb)
  \/ \E h \in HistoryIds : Notify(mb, h)

Connection(mb) == CallWatch(mb) \/ ActivateWatch(mb)

Init ==
  /\ QueueInit
  /\ history = [mb \in Mailboxes |-> Prior]
  /\ horizon = [mb \in Mailboxes |-> 0]
  /\ status = [mb \in Mailboxes |-> IF mb \in Connected THEN "active" ELSE "pending"]
  /\ cursor = [mb \in Mailboxes |-> IF mb \in Connected THEN Len(Prior) ELSE NoCursor]
  /\ watch = [mb \in Mailboxes |-> IF mb \in Connected THEN Stored ELSE NotCalled]
  /\ sink = [mb \in Mailboxes |-> {}]
  /\ pc = [w \in Workers |-> "idle"]
  /\ run = [w \in Workers |-> IdleRun]
  /\ base = [mb \in Mailboxes |-> IF mb \in Connected THEN Len(Prior) ELSE 0]
  /\ rebuilt = [mb \in Mailboxes |-> 0]

Next ==
  \/ \E mb \in Mailboxes : Gmail(mb) \/ Connection(mb)
  \/ \E w \in Workers : Work(w) \/ SyncRaises(w) \/ Die(w)
  \/ \E j \in JobIds : Lapse(j) \/ Overrun(j)

Spec == Init /\ [][Next]_vars

\* A worker keeps polling and keeps stepping through the run it is in, and
\* clocks advance. Failing, dying, Gmail and the connection need not act.
Fairness ==
  /\ \A w \in Workers : WF_vars(Work(w))
  /\ \A j \in JobIds : WF_vars(Lapse(j))

FairSpec == Spec /\ Fairness

-----------------------------------------------------------------------------
(* Properties.                                                             *)

Statuses == {"pending", "active", "needs_full_sync", "error"}

Run == [mailbox : Mailboxes \cup {NoMailbox}, mode : {"delta", "scan", "replay"},
        full : BOOLEAN, start : -1 .. MaxHistory, next : 0 .. MaxHistory,
        adds : SUBSET Messages, deletes : SUBSET Messages,
        fetched : Messages \cup {NoMessage}]

\* The state of the mailboxes, of Gmail and of the workers is well formed.
TypeOK ==
  /\ QueueTypeOK
  /\ history \in [Mailboxes -> Seq(Change)]
  /\ \A mb \in Mailboxes : Now(mb) \in 0 .. MaxHistory
  /\ horizon \in [Mailboxes -> 0 .. MaxHistory]
  /\ status \in [Mailboxes -> Statuses]
  /\ cursor \in [Mailboxes -> -1 .. MaxHistory]
  /\ watch \in [Mailboxes -> -2 .. MaxHistory]
  /\ sink \in [Mailboxes -> SUBSET Messages]
  /\ pc \in [Workers -> PCs]
  /\ run \in [Workers -> Run]
  /\ base \in [Mailboxes -> 0 .. MaxHistory]
  /\ rebuilt \in [Mailboxes -> 0 .. MaxHistory]

LastChange(mb, m) == LastIn(mb, m, 0, Now(mb))

\* The cursor never passes mail that is not stored: a message whose last
\* change is an arrival or a restore between the seed of the cursor and the
\* cursor is in the sink, whatever failed, died or was retried on the way
\* ("advances only after every change in the run has been persisted").
ArrivalsStored ==
  \A mb \in Mailboxes, m \in Messages :
    LET i == LastChange(mb, m)
    IN  IsAdd(mb, i) /\ base[mb] < i /\ i <= cursor[mb] => m \in sink[mb]

\* The cursor never passes a deletion that is not applied, unless a jump of
\* the cursor skipped it: a full sync, which only adds, or the seed that
\* activate_watch gives a mailbox whose first full sync is already running.
DeletionsApplied ==
  \A mb \in Mailboxes, m \in Messages :
    LET i == LastChange(mb, m)
    IN  IsDelete(mb, i) /\ Larger(base[mb], rebuilt[mb]) < i /\ i <= cursor[mb]
          => m \notin sink[mb]

DoneIsSynced ==
  \A j \in JobIds :
    jobs[j].status = "done" => cursor[jobs[j].mailbox] >= jobs[j].requested

\* A job reported done was done, as long as no worker has outlived its lease: its mailbox
\* is synced at least up to the history id that was asked for, including ids
\* folded in from failed jobs.
DoneMeansSynced == overruns = 0 => DoneIsSynced

SeenIsCovered ==
  \A mb \in Mailboxes : \A h \in seen[mb] :
    \/ h <= cursor[mb] \/ Open(mb) # {}
    \/ \E j \in JobIds : jobs[j].mailbox = mb /\ Exhausted(j)

\* A notification the webhook acknowledged is never lost, as long as no worker has
\* outlived its lease: its change is behind the cursor, or a job of the mailbox is
\* still to run or running, or a job used up its attempts.
AcknowledgedIsCovered == overruns = 0 => SeenIsCovered

\* The cursor only moves forward, and never past what Gmail has.
CursorMonotone ==
  [][\A mb \in Mailboxes : cursor[mb] <= cursor'[mb] /\ cursor'[mb] <= Now(mb)']_vars

\* Every acknowledged change is eventually synced, unless a job of the
\* mailbox runs out of attempts.
AcknowledgedIsSynced ==
  \A mb \in Mailboxes, h \in HistoryIds :
    h \in seen[mb] ~>
      h <= cursor[mb] \/ \E j \in JobIds : jobs[j].mailbox = mb /\ Exhausted(j)
=============================================================================
