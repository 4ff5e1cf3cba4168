-------------------------- MODULE GmailSyncProofs --------------------------
(***************************************************************************)
(* What syncing guarantees for every number of mailboxes, messages,        *)
(* workers, jobs, attempts, crashes and changes.                           *)
(*                                                                         *)
(* First: it only uses the queue as SyncJobQueue specifies it, and the     *)
(* cursor never moves back or ahead of Gmail.                              *)
(*                                                                         *)
(* Second: no acknowledged notification is lost and no job is done before  *)
(* its work, as long as no worker has outlived the lease of its job        *)
(* (overruns = 0: complete_job does not check who owns the row, and after  *)
(* an overrun both are false). The argument follows a history id h of a    *)
(* mailbox through the system. A worker Reaches h when the window of its   *)
(* run will include h, or its run has committed a cursor at h or later. A  *)
(* run that has just claimed a job Reaches every change so far, and goes   *)
(* on to do so until it ends; what has to be shown is that h is never left *)
(* to a run that does not.                                                 *)
(*                                                                         *)
(* Third: the cursor passes no arrival that is not stored and no deletion  *)
(* that is not applied, as long as no two runs sync one mailbox at once    *)
(* (Apart). The argument follows a message through a run: what the window  *)
(* adds or deletes is in the run's lists, or done, when the cursor moves.  *)
(***************************************************************************)
EXTENDS GmailSync, SyncJobQueueProofs, WellFoundedInduction

-----------------------------------------------------------------------------
(* Syncing implements the queue.                                           *)

\* Every step of a worker, of Gmail or of time is one step of the queue, or
\* leaves the queue alone.
LEMMA SyncStepIsQueueStep == [Next]_vars => [QueueNext]_queueVars
<1> SUFFICES ASSUME [Next]_vars PROVE [QueueNext]_queueVars
  OBVIOUS
<1>1. ASSUME NEW mb \in Mailboxes, Gmail(mb) PROVE [QueueNext]_queueVars
  <2>1. ASSUME NEW h \in HistoryIds, Notify(mb, h) PROVE QueueNext
    <3>1. (status[mb] = "needs_full_sync") \in BOOLEAN
      OBVIOUS
    <3>2. RecordNotification(mb, h, status[mb] = "needs_full_sync")
      BY <2>1 DEF Notify
    <3> QED  BY <3>1, <3>2 DEF QueueNext
  <2> QED  BY <1>1, <2>1 DEF Gmail, GmailChange, GmailForgets
<1>2. ASSUME NEW mb \in Mailboxes, Connection(mb) PROVE [QueueNext]_queueVars
  BY <1>2 DEF Connection, CallWatch, ActivateWatch
<1>3. ASSUME NEW w \in Workers, Work(w) PROVE [QueueNext]_queueVars
  <2>1. CASE UNCHANGED queueVars
    BY <2>1
  <2>2. CASE Claim(w) \/ MarkJob(w) \/ Complete(w)
    BY <2>2 DEF Claim, MarkJob, Complete, QueueNext
  <2>3. CASE ReadSuccessor(w) \/ FailWrite(w) \/ FailRaises(w)
    BY <2>3 DEF ReadSuccessor, FailWrite, FailRaises, QueueNext, FailJob
  <2>4. \/ UNCHANGED queueVars
        \/ Claim(w) \/ MarkJob(w) \/ Complete(w)
        \/ ReadSuccessor(w) \/ FailWrite(w) \/ FailRaises(w)
    BY <1>3 DEF Work, ReadMailbox, ListHistory, HistoryGone, MarkMailbox, TakeCheckpoint,
                Scan, Fetch, Persist, Replay, Delete, CommitCursor, SetActive, SetError
  <2> QED  BY <2>1, <2>2, <2>3, <2>4
<1>4. ASSUME NEW w \in Workers, SyncRaises(w) \/ Die(w) PROVE [QueueNext]_queueVars
  BY <1>4 DEF SyncRaises, Die, QueueNext
<1>5. ASSUME NEW j \in JobIds, Lapse(j) \/ Overrun(j) PROVE [QueueNext]_queueVars
  BY <1>5 DEF Lapse, Overrun, QueueNext
<1>6. CASE UNCHANGED vars
  BY <1>6 DEF vars
<1> QED  BY <1>1, <1>2, <1>3, <1>4, <1>5, <1>6 DEF Next

\* The workers, the webhook and time use the queue only as its specification
\* allows: whatever the queue guarantees to any caller holds of the system.
THEOREM SyncImplementsQueue == Spec => QueueSpec
<1>1. Init => QueueInit
  BY DEF Init
<1> QED  BY <1>1, SyncStepIsQueueStep, PTL DEF Spec, QueueSpec

\* So a mailbox that is being synced never has two pending jobs, and no job
\* is claimed more often than its attempts and the faults account for.
THEOREM SyncKeepsQueue == Spec => [](QueueTypeOK /\ OnePendingPerMailbox /\ AttemptsAreBounded)
BY SyncImplementsQueue, QueueTypeCorrect, OnePendingCorrect, AttemptsBoundedCorrect, PTL

-----------------------------------------------------------------------------
(* The cursor neither rewinds nor runs ahead of Gmail.                      *)

\* Where a worker knows which mailbox its run is about.
Busy == {"read", "fail", "error"} \cup Syncing

\* A worker's locals at a label: the window start and the cursor it will
\* commit are history ids Gmail has already reached.
LocalOK(r, label) ==
  /\ r \in Run /\ label \in PCs
  /\ label \in Busy => r.mailbox \in Mailboxes
  /\ label = "read" => r.mode = "delta"
  /\ label = "persist" => r.fetched \in Messages
  /\ r.mode # "delta" => r.start >= 0
  /\ r.mailbox \in Mailboxes => r.start <= Now(r.mailbox) /\ r.next <= Now(r.mailbox)

RunsOK ==
  /\ pc \in [Workers -> PCs]
  /\ run \in [Workers -> Run]
  /\ \A w \in Workers : LocalOK(run[w], pc[w])

RowsOK ==
  /\ history \in [Mailboxes -> Seq(Change)]
  /\ \A mb \in Mailboxes : Now(mb) \in 0 .. MaxHistory
  /\ horizon \in [Mailboxes -> 0 .. MaxHistory]
  /\ status \in [Mailboxes -> Statuses]
  /\ cursor \in [Mailboxes -> -1 .. MaxHistory]
  /\ watch \in [Mailboxes -> -2 .. MaxHistory]
  /\ sink \in [Mailboxes -> SUBSET Messages]
  /\ base \in [Mailboxes -> 0 .. MaxHistory]
  /\ rebuilt \in [Mailboxes -> 0 .. MaxHistory]
  /\ \A mb \in Mailboxes : cursor[mb] <= Now(mb) /\ watch[mb] <= Now(mb)

CursorInv == QueueTypeOK /\ Placed /\ RowsOK /\ RunsOK

\* Gmail's log only grows.
LEMMA NowGrows ==
  ASSUME RowsOK, NEW mb \in Mailboxes, NEW m \in Messages, GmailChange(mb, m)
  PROVE  /\ history' \in [Mailboxes -> Seq(Change)]
         /\ \A b \in Mailboxes : Now(b)' \in 0 .. MaxHistory /\ Now(b) <= Now(b)'
<1> DEFINE c == [kind |-> IF InMailbox(mb, m) THEN "delete" ELSE "add", msg |-> m]
<1>1. c \in Change
  BY DEF Change
<1>2. history' = [history EXCEPT ![mb] = Append(@, c)] /\ Now(mb) < MaxHistory
  BY DEF GmailChange
<1> HIDE DEF c
<1>3. history[mb] \in Seq(Change)
  BY DEF RowsOK
<1>4. Append(history[mb], c) \in Seq(Change)
      /\ Len(Append(history[mb], c)) = Len(history[mb]) + 1
  BY <1>1, <1>3
<1>5. \A b \in Mailboxes : history'[b] = IF b = mb THEN Append(history[mb], c) ELSE history[b]
  BY <1>2 DEF RowsOK
<1> QED  BY <1>2, <1>4, <1>5, QueueAssumption DEF RowsOK, Now

\* A step of one worker that leaves Gmail alone keeps the locals of all
\* workers in order, if it keeps its own.
LEMMA LocalStep ==
  ASSUME RunsOK, NEW w \in Workers, NEW r, NEW label, LocalOK(r, label),
         SetRun(w, r) \/ (UNCHANGED run /\ r = run[w]),
         Goto(w, label) \/ (UNCHANGED pc /\ label = pc[w]),
         UNCHANGED history
  PROVE  RunsOK'
<1>1. run' \in [Workers -> Run] /\ pc' \in [Workers -> PCs]
  BY DEF RunsOK, LocalOK, SetRun, Goto
<1>2. ASSUME NEW v \in Workers PROVE LocalOK(run[v], pc[v])'
  <2>1. /\ run'[v] = IF v = w THEN r ELSE run[v]
        /\ pc'[v] = IF v = w THEN label ELSE pc[v]
    BY DEF RunsOK, SetRun, Goto
  <2>2. LocalOK(run'[v], pc'[v])
    BY <2>1 DEF RunsOK
  <2> QED  BY <2>2 DEF LocalOK, Now
<1> QED  BY <1>1, <1>2 DEF RunsOK

\* What run_once knows when it has claimed: a mailbox, and nothing else.
LEMMA ClaimLocal ==
  ASSUME CursorInv, NEW w \in Workers, Claim(w)
  PROVE  RunsOK'
<1> DEFINE j == held'[w]
           r == NewRun(jobs'[j].mailbox, jobs'[j].needsFull)
<1>1. PICK k \in JobIds :
        /\ Claimable(k)
        /\ jobs' = [jobs EXCEPT ![k] = Claimed(@)] /\ held' = [held EXCEPT ![w] = k]
  BY DEF Claim, ClaimJob
<1>2. jobs[k] \in Job /\ jobs[k].mailbox \in Mailboxes
  BY <1>1 DEF Claimable, CursorInv, Placed, QueueTypeOK
<1>3. Claimed(jobs[k]).mailbox = jobs[k].mailbox /\ Claimed(jobs[k]).needsFull \in BOOLEAN
  BY <1>2 DEF Claimed, Job
<1>4. j = k /\ jobs'[k] = Claimed(jobs[k])
  BY <1>1 DEF CursorInv, QueueTypeOK
<1>5. jobs'[j].mailbox \in Mailboxes /\ jobs'[j].needsFull \in BOOLEAN
  BY <1>2, <1>3, <1>4
<1>6. r \in Run /\ r.mode = "delta" /\ r.start = 0 /\ r.next = 0 /\ r.mailbox \in Mailboxes
  <2>1. 0 \in -1 .. MaxHistory /\ 0 \in 0 .. MaxHistory
    BY QueueAssumption
  <2> QED  BY <1>5, <2>1 DEF Run, NewRun
<1>7. SetRun(w, r) /\ Goto(w, "read") /\ UNCHANGED history
  BY DEF Claim, mailVars
<1> HIDE DEF r, j
<1>8. LocalOK(r, "read")
  BY <1>6 DEF LocalOK, PCs, CursorInv, RowsOK
<1> QED  BY <1>7, <1>8, LocalStep DEF CursorInv

\* Reading the mailbox or Gmail sets the window start and the next cursor to
\* history ids Gmail has reached.
LEMMA ReadsLocal ==
  ASSUME CursorInv, NEW w \in Workers,
         \/ ReadMailbox(w) \/ ListHistory(w) \/ HistoryGone(w) \/ TakeCheckpoint(w)
  PROVE  RunsOK'
<1> DEFINE mb == Of(w)
<1>0. /\ RunsOK /\ run[w] \in Run /\ LocalOK(run[w], pc[w])
      /\ mb = run[w].mailbox
  BY DEF CursorInv, RunsOK, Of
<1>1. pc[w] \in {"read", "history", "profile"} /\ UNCHANGED history
  BY DEF ReadMailbox, ListHistory, HistoryGone, TakeCheckpoint, mailVars
<1>2. mb \in Mailboxes
  BY <1>0, <1>1 DEF LocalOK, Busy, Syncing
<1>3. Now(mb) \in 0 .. MaxHistory /\ cursor[mb] \in -1 .. MaxHistory /\ cursor[mb] <= Now(mb)
  BY <1>2 DEF CursorInv, RowsOK
<1>4. /\ run[w].start \in -1 .. MaxHistory /\ run[w].start <= Now(mb)
      /\ run[w].next \in 0 .. MaxHistory /\ run[w].next <= Now(mb)
      /\ run[w].mode # "delta" => run[w].start >= 0
  BY <1>0, <1>2 DEF LocalOK, Run
<1> HIDE DEF mb
<1>5. ASSUME ReadMailbox(w) PROVE RunsOK'
  <2> DEFINE r == [run[w] EXCEPT !.start = cursor[mb]]
             label == IF \/ run[w].full \/ status[mb] = "needs_full_sync"
                         \/ cursor[mb] = NoCursor THEN "profile" ELSE "history"
  <2>1. r \in Run /\ r.mailbox = mb /\ r.start = cursor[mb] /\ r.next = run[w].next
    BY <1>0, <1>3 DEF Run
  <2>2. SetRun(w, r) /\ Goto(w, label)
    BY <1>5 DEF ReadMailbox, mb
  <2>3. label \in PCs /\ label # "persist"
    BY DEF PCs, Syncing
  <2>4. r.mode = run[w].mode
    BY <1>0 DEF Run
  <2>5. run[w].mode = "delta"
    BY <1>0, <1>5 DEF ReadMailbox, LocalOK
  <2> HIDE DEF r, label
  <2>6. LocalOK(r, label)
    BY <1>2, <1>3, <1>4, <2>1, <2>3, <2>4, <2>5 DEF LocalOK
  <2> QED  BY <2>6, <1>0, <1>1, <2>2, LocalStep
<1>6. ASSUME ListHistory(w) PROVE RunsOK'
  <2> DEFINE A == {m \in Messages : IsAdd(mb, LastIn(mb, m, run[w].start, Now(mb)))}
             D == {m \in Messages : IsDelete(mb, LastIn(mb, m, run[w].start, Now(mb)))}
             n == Larger(run[w].start, Now(mb))
             r == [run[w] EXCEPT !.adds = A, !.deletes = D, !.next = n]
  <2>1. A \subseteq Messages /\ D \subseteq Messages
    OBVIOUS
  <2>2. n \in 0 .. MaxHistory /\ n <= Now(mb)
    BY <1>3, <1>4 DEF Larger
  <2>3. SetRun(w, r) /\ Goto(w, "ingest")
    BY <1>6 DEF ListHistory, mb
  <2> HIDE DEF A, D, n
  <2>4. /\ r \in Run /\ r.mailbox = mb /\ r.start = run[w].start /\ r.next = n
        /\ r.mode = run[w].mode
    BY <1>0, <2>1, <2>2 DEF Run
  <2> HIDE DEF r
  <2>5. LocalOK(r, "ingest")
    BY <1>2, <1>4, <2>2, <2>4 DEF LocalOK, PCs, Syncing
  <2> QED  BY <1>0, <1>1, <2>3, <2>5, LocalStep
<1>7. ASSUME HistoryGone(w) PROVE RunsOK'
  <2>1. CASE run[w].mode = "replay"
    <3> DEFINE r == [run[w] EXCEPT !.next = run[w].start]
    <3>1. SetRun(w, r) /\ Goto(w, "ingest")
      BY <1>7, <2>1 DEF HistoryGone
    <3>2. run[w].start \in 0 .. MaxHistory
      BY <1>4, <2>1
    <3>3. /\ r \in Run /\ r.mailbox = mb /\ r.start = run[w].start
          /\ r.next = run[w].start
      BY <1>0, <3>2 DEF Run
    <3> HIDE DEF r
    <3>4. LocalOK(r, "ingest")
      BY <1>2, <1>4, <3>2, <3>3 DEF LocalOK, PCs, Syncing
    <3> QED  BY <1>0, <1>1, <3>1, <3>4, LocalStep
  <2>2. CASE run[w].mode # "replay"
    <3>1. UNCHANGED run /\ Goto(w, "markJob")
      BY <1>7, <2>2 DEF HistoryGone
    <3>2. LocalOK(run[w], "markJob")
      BY <1>0, <1>2 DEF LocalOK, PCs, Syncing
    <3> QED  BY <1>0, <1>1, <3>1, <3>2, LocalStep
  <2> QED  BY <2>1, <2>2
<1>8. ASSUME TakeCheckpoint(w) PROVE RunsOK'
  <2> DEFINE n == Now(mb)
             r == [run[w] EXCEPT !.mode = "scan", !.start = n]
  <2>1. SetRun(w, r) /\ Goto(w, "scan")
    BY <1>8 DEF TakeCheckpoint, mb
  <2>0. n \in -1 .. MaxHistory /\ n = Now(mb)
    BY <1>3
  <2> HIDE DEF n
  <2>2. /\ r \in Run /\ r.mailbox = mb /\ r.start = n /\ r.next = run[w].next
    BY <1>0, <2>0 DEF Run
  <2> HIDE DEF r
  <2>3. LocalOK(r, "scan")
    BY <1>2, <1>3, <1>4, <2>0, <2>2 DEF LocalOK, PCs, Syncing
  <2> QED  BY <1>0, <1>1, <2>1, <2>3, LocalStep
<1> QED  BY <1>5, <1>6, <1>7, <1>8

\* Working through a window changes neither the window nor the mailbox.
LEMMA WindowLocal ==
  ASSUME CursorInv, NEW w \in Workers,
         \/ Scan(w) \/ Fetch(w) \/ Persist(w) \/ Replay(w) \/ Delete(w)
  PROVE  RunsOK'
<1>0. /\ RunsOK /\ run[w] \in Run /\ LocalOK(run[w], pc[w]) /\ UNCHANGED history
  BY DEF CursorInv, RunsOK, Scan, Fetch, Persist, Replay, Delete, mailVars
<1>1. pc[w] \in {"scan", "ingest", "persist"}
  BY DEF Scan, Fetch, Persist, Replay, Delete
<1>2. ASSUME NEW r \in Run, r.mailbox = run[w].mailbox, r.start = run[w].start,
             r.next = run[w].next, r.mode = run[w].mode \/ run[w].mode = "scan",
             NEW label \in PCs, label # "read", label = "persist" => r.fetched \in Messages
      PROVE  LocalOK(r, label)
  BY <1>0, <1>1, <1>2 DEF LocalOK, Busy, Syncing
<1>3. ASSUME Scan(w) PROVE RunsOK'
  <2> DEFINE A == {m \in Messages : InMailbox(Of(w), m)}
             r == [run[w] EXCEPT !.adds = A]
  <2>1. SetRun(w, r) /\ Goto(w, "ingest")
    BY <1>3 DEF Scan
  <2>2. A \subseteq Messages
    OBVIOUS
  <2> HIDE DEF A
  <2>3. /\ r \in Run /\ r.mailbox = run[w].mailbox /\ r.start = run[w].start
        /\ r.next = run[w].next /\ r.mode = run[w].mode
    BY <1>0, <2>2 DEF Run
  <2> HIDE DEF r
  <2>4. LocalOK(r, "ingest")
    BY <1>2, <2>3 DEF PCs, Syncing
  <2> QED  BY <1>0, <2>1, <2>4, LocalStep
<1>4. ASSUME Fetch(w) PROVE RunsOK'
  <2>1. PICK m \in run[w].adds :
          \/ SetRun(w, [run[w] EXCEPT !.adds = @ \ {m}, !.fetched = m]) /\ Goto(w, "persist")
          \/ SetRun(w, [run[w] EXCEPT !.adds = @ \ {m}]) /\ UNCHANGED pc
    BY <1>4 DEF Fetch
  <2> DEFINE A == run[w].adds \ {m}
             r1 == [run[w] EXCEPT !.adds = A, !.fetched = m]
             r2 == [run[w] EXCEPT !.adds = A]
  <2>2. m \in Messages /\ A \subseteq Messages
    BY <1>0 DEF Run
  <2>3. \/ SetRun(w, r1) /\ Goto(w, "persist")
        \/ SetRun(w, r2) /\ UNCHANGED pc
    BY <2>1
  <2> HIDE DEF A
  <2>4. /\ r1 \in Run /\ r1.mailbox = run[w].mailbox /\ r1.start = run[w].start
        /\ r1.next = run[w].next /\ r1.mode = run[w].mode /\ r1.fetched = m
    BY <1>0, <2>2 DEF Run
  <2>5. /\ r2 \in Run /\ r2.mailbox = run[w].mailbox /\ r2.start = run[w].start
        /\ r2.next = run[w].next /\ r2.mode = run[w].mode
    BY <1>0, <2>2 DEF Run
  <2> HIDE DEF r1, r2
  <2>6. pc[w] = "ingest"
    BY <1>4 DEF Fetch
  <2>7. LocalOK(r1, "persist") /\ LocalOK(r2, pc[w])
    BY <1>2, <2>2, <2>4, <2>5, <2>6 DEF PCs, Syncing
  <2> QED  BY <1>0, <2>3, <2>7, LocalStep
<1>5. ASSUME Persist(w) PROVE RunsOK'
  <2> DEFINE r == [run[w] EXCEPT !.fetched = NoMessage]
  <2>1. SetRun(w, r) /\ Goto(w, "ingest")
    BY <1>5 DEF Persist
  <2>2. /\ r \in Run /\ r.mailbox = run[w].mailbox /\ r.start = run[w].start
        /\ r.next = run[w].next /\ r.mode = run[w].mode
    BY <1>0 DEF Run
  <2> HIDE DEF r
  <2>3. LocalOK(r, "ingest")
    BY <1>2, <2>2 DEF PCs, Syncing
  <2> QED  BY <1>0, <2>1, <2>3, LocalStep
<1>6. ASSUME Replay(w) PROVE RunsOK'
  <2> DEFINE r == [run[w] EXCEPT !.mode = "replay"]
  <2>1. SetRun(w, r) /\ Goto(w, "history") /\ run[w].mode = "scan"
    BY <1>6 DEF Replay
  <2>2. /\ r \in Run /\ r.mailbox = run[w].mailbox /\ r.start = run[w].start
        /\ r.next = run[w].next
    BY <1>0 DEF Run
  <2> HIDE DEF r
  <2>3. LocalOK(r, "history")
    BY <1>2, <2>1, <2>2 DEF PCs, Syncing
  <2> QED  BY <1>0, <2>1, <2>3, LocalStep
<1>7. ASSUME Delete(w) PROVE RunsOK'
  <2>1. PICK m \in run[w].deletes :
          SetRun(w, [run[w] EXCEPT !.deletes = @ \ {m}]) /\ UNCHANGED pc
    BY <1>7 DEF Delete
  <2> DEFINE D == run[w].deletes \ {m}
             r == [run[w] EXCEPT !.deletes = D]
  <2>2. SetRun(w, r) /\ UNCHANGED pc
    BY <2>1
  <2>3. D \subseteq Messages
    BY <1>0 DEF Run
  <2> HIDE DEF D
  <2>4. /\ r \in Run /\ r.mailbox = run[w].mailbox /\ r.start = run[w].start
        /\ r.next = run[w].next /\ r.mode = run[w].mode
    BY <1>0, <2>3 DEF Run
  <2> HIDE DEF r
  <2>5. pc[w] = "ingest"
    BY <1>7 DEF Delete
  <2>6. LocalOK(r, pc[w])
    BY <1>2, <2>4, <2>5 DEF PCs, Syncing
  <2> QED  BY <1>0, <2>2, <2>6, LocalStep
<1> QED  BY <1>3, <1>4, <1>5, <1>6, <1>7

\* Marking, committing and ending a run keep the locals or drop them.
LEMMA EndLocal ==
  ASSUME CursorInv, NEW w \in Workers,
         \/ MarkJob(w) \/ MarkMailbox(w) \/ CommitCursor(w) \/ SetActive(w)
         \/ Complete(w) \/ FailWrite(w) \/ FailRaises(w) \/ SetError(w)
         \/ SyncRaises(w) \/ Die(w)
  PROVE  RunsOK'
<1>0. /\ RunsOK /\ run[w] \in Run /\ LocalOK(run[w], pc[w])
  BY DEF CursorInv, RunsOK
<1>1. UNCHANGED history
  BY DEF MarkJob, MarkMailbox, CommitCursor, SetActive, Complete, FailWrite,
         FailRaises, SetError, SyncRaises, Die, mailVars
<1>2. ASSUME NEW label \in {"idle", "complete"} PROVE LocalOK(IdleRun, label)
  <2>1. IdleRun \in Run /\ IdleRun.mailbox = NoMailbox /\ IdleRun.mode = "delta"
    <3>1. 0 \in -1 .. MaxHistory /\ 0 \in 0 .. MaxHistory
      BY QueueAssumption
    <3> QED  BY <3>1 DEF IdleRun, NewRun, Run
  <2> QED  BY <2>1, QueueAssumption DEF LocalOK, PCs, Busy, Syncing
<1>3. ASSUME SetActive(w) \/ FailRaises(w) \/ SetError(w) \/ Die(w) PROVE RunsOK'
  <2>1. SetRun(w, IdleRun) /\ (Goto(w, "idle") \/ Goto(w, "complete"))
    BY <1>3 DEF SetActive, FailRaises, SetError, Die
  <2> QED  BY <1>0, <1>1, <1>2, <2>1, LocalStep
<1>4. ASSUME NEW label \in {"markMailbox", "profile", "activate", "error"},
             pc[w] \in Busy, UNCHANGED run, Goto(w, label)
      PROVE  RunsOK'
  <2>1. LocalOK(run[w], label)
    BY <1>0, <1>4 DEF LocalOK, PCs, Syncing
  <2> QED  BY <1>0, <1>1, <1>4, <2>1, LocalStep
<1>5. ASSUME MarkJob(w) \/ MarkMailbox(w) \/ CommitCursor(w) \/ FailWrite(w) PROVE RunsOK'
  <2>1. pc[w] \in Busy /\ UNCHANGED run
    BY <1>5 DEF MarkJob, MarkMailbox, CommitCursor, FailWrite, Busy, Syncing
  <2> QED  BY <1>4, <1>5, <2>1 DEF MarkJob, MarkMailbox, CommitCursor, FailWrite
<1>6. ASSUME Complete(w) PROVE RunsOK'
  <2>1. LocalOK(run[w], "idle")
    BY <1>0 DEF LocalOK, PCs, Busy, Syncing
  <2> QED  BY <1>0, <1>1, <1>6, <2>1, LocalStep DEF Complete
<1>7. ASSUME SyncRaises(w) PROVE RunsOK'
  <2> DEFINE r == NewRun(Of(w), FALSE)
  <2>1. Of(w) \in Mailboxes
    BY <1>0, <1>7 DEF SyncRaises, LocalOK, Busy, Of
  <2>2. r \in Run /\ r.mailbox = Of(w) /\ r.mode = "delta" /\ r.start = 0 /\ r.next = 0
    <3>1. 0 \in -1 .. MaxHistory /\ 0 \in 0 .. MaxHistory
      BY QueueAssumption
    <3> QED  BY <2>1, <3>1 DEF NewRun, Run
  <2>3. SetRun(w, r) /\ Goto(w, "fail")
    BY <1>7 DEF SyncRaises
  <2> HIDE DEF r
  <2>4. LocalOK(r, "fail")
    BY <2>1, <2>2 DEF LocalOK, PCs, CursorInv, RowsOK
  <2> QED  BY <1>0, <1>1, <2>3, <2>4, LocalStep
<1> QED  BY <1>3, <1>5, <1>6, <1>7

\* Every step keeps the locals of every worker in order.
LEMMA RunsStep ==
  ASSUME CursorInv, [Next]_vars
  PROVE  RunsOK'
<1>1. ASSUME UNCHANGED <<history, pc, run>> PROVE RunsOK'
  BY <1>1 DEF CursorInv, RunsOK, LocalOK, Now
<1>2. ASSUME NEW mb \in Mailboxes, Gmail(mb) PROVE RunsOK'
  <2>1. ASSUME NEW m \in Messages, GmailChange(mb, m) PROVE RunsOK'
    <3>1. UNCHANGED <<pc, run>>
      BY <2>1 DEF GmailChange
    <3>2. \A b \in Mailboxes : Now(b) \in 0 .. MaxHistory /\ Now(b)' \in 0 .. MaxHistory
                               /\ Now(b) <= Now(b)'
      BY <2>1, NowGrows DEF CursorInv, RowsOK
    <3>3. ASSUME NEW w \in Workers PROVE LocalOK(run[w], pc[w])'
      <4> DEFINE r == run[w]
      <4>1. LocalOK(r, pc[w]) /\ r \in Run /\ run'[w] = r /\ pc'[w] = pc[w]
        BY <3>1 DEF CursorInv, RunsOK
      <4>2. r.start \in -1 .. MaxHistory /\ r.next \in 0 .. MaxHistory
        BY <4>1 DEF Run
      <4>3. ASSUME r.mailbox \in Mailboxes
            PROVE  r.start <= Now(r.mailbox)' /\ r.next <= Now(r.mailbox)'
        BY <3>2, <4>1, <4>2, <4>3 DEF LocalOK
      <4> HIDE DEF r
      <4> QED  BY <3>1, <4>1, <4>3 DEF LocalOK, r
    <3> QED  BY <3>1, <3>3 DEF CursorInv, RunsOK
  <2> QED
    BY <1>1, <1>2, <2>1 DEF Gmail, GmailForgets, Notify, syncVars
<1>3. ASSUME NEW mb \in Mailboxes, Connection(mb) PROVE RunsOK'
  BY <1>1, <1>3 DEF Connection, CallWatch, ActivateWatch, mailVars
<1>4. ASSUME NEW w \in Workers, Work(w) \/ SyncRaises(w) \/ Die(w) PROVE RunsOK'
  <2>1. ASSUME ReadSuccessor(w) PROVE RunsOK'
    BY <1>1, <2>1 DEF ReadSuccessor, syncVars
  <2> QED  BY <1>4, <2>1, ClaimLocal, ReadsLocal, WindowLocal, EndLocal DEF Work
<1>5. ASSUME NEW j \in JobIds, Lapse(j) \/ Overrun(j) PROVE RunsOK'
  BY <1>1, <1>5 DEF Lapse, Overrun, syncVars
<1>6. CASE UNCHANGED vars
  BY <1>1, <1>6 DEF vars, syncVars
<1> QED  BY <1>2, <1>3, <1>4, <1>5, <1>6 DEF Next

\* A committed cursor and a stored seed are history ids Gmail has reached,
\* and no step moves a cursor back.
LEMMA RowsStep ==
  ASSUME CursorInv, [Next]_vars
  PROVE  RowsOK' /\ \A mb \in Mailboxes : cursor[mb] <= cursor'[mb]
<1> DEFINE Kept == RowsOK' /\ \A b \in Mailboxes : cursor[b] <= cursor'[b]
<1>0. RowsOK /\ RunsOK
  BY DEF CursorInv
<1>t. /\ cursor \in [Mailboxes -> -1 .. MaxHistory]
      /\ watch \in [Mailboxes -> -2 .. MaxHistory]
      /\ \A b \in Mailboxes : /\ Now(b) \in 0 .. MaxHistory
                              /\ cursor[b] <= Now(b) /\ watch[b] <= Now(b)
  BY <1>0 DEF RowsOK
<1>r. \A b \in Mailboxes : cursor[b] <= cursor[b]
  BY <1>t
\* A step that leaves the log and the cursors alone.
<1>1. ASSUME UNCHANGED <<history, cursor, watch, base, rebuilt>>,
             horizon' \in [Mailboxes -> 0 .. MaxHistory],
             status' \in [Mailboxes -> Statuses],
             sink' \in [Mailboxes -> SUBSET Messages]
      PROVE  Kept
  BY <1>0, <1>1, <1>r DEF RowsOK, Now
<1>u. ASSUME UNCHANGED <<history, horizon, status, cursor, watch, sink, base, rebuilt>>
      PROVE  Kept
  BY <1>0, <1>1, <1>u DEF RowsOK
<1>2. ASSUME NEW mb \in Mailboxes, Gmail(mb) PROVE Kept
  <2>1. ASSUME NEW m \in Messages, GmailChange(mb, m) PROVE Kept
    <3>1. UNCHANGED <<horizon, status, cursor, watch, sink, base, rebuilt>>
      BY <2>1 DEF GmailChange, rowVars
    <3>2. /\ history' \in [Mailboxes -> Seq(Change)]
          /\ \A b \in Mailboxes : Now(b)' \in 0 .. MaxHistory /\ Now(b) <= Now(b)'
      BY <1>0, <2>1, NowGrows
    <3>3. ASSUME NEW b \in Mailboxes
          PROVE  cursor'[b] <= Now(b)' /\ watch'[b] <= Now(b)' /\ cursor[b] <= cursor'[b]
      <4>1. /\ Now(b) \in Int /\ Now(b)' \in Int /\ Now(b) <= Now(b)'
            /\ cursor[b] \in Int /\ watch[b] \in Int
            /\ cursor[b] <= Now(b) /\ watch[b] <= Now(b)
        BY <1>t, <3>2
      <4>2. cursor[b] <= Now(b)' /\ watch[b] <= Now(b)' /\ cursor[b] <= cursor[b]
        BY <4>1
      <4> QED  BY <3>1, <4>2
    <3> QED  BY <1>0, <3>1, <3>2, <3>3 DEF RowsOK
  <2>2. ASSUME GmailForgets(mb) PROVE Kept
    <3>1. PICK h \in (horizon[mb] + 1) .. Now(mb) : horizon' = [horizon EXCEPT ![mb] = h]
      BY <2>2 DEF GmailForgets
    <3>2. horizon \in [Mailboxes -> 0 .. MaxHistory]
      BY <1>0 DEF RowsOK
    <3>3. horizon[mb] \in 0 .. MaxHistory /\ Now(mb) \in 0 .. MaxHistory
      BY <1>t, <3>2
    <3>4. h \in 0 .. MaxHistory
      <4> DEFINE lo == horizon[mb]
                 n == Now(mb)
      <4>1. lo \in 0 .. MaxHistory /\ n \in 0 .. MaxHistory /\ h \in (lo + 1) .. n
        BY <3>3
      <4> HIDE DEF lo, n
      <4> QED  BY <4>1, QueueAssumption
    <3>5. horizon' \in [Mailboxes -> 0 .. MaxHistory]
      BY <3>1, <3>2, <3>4
    <3> QED  BY <1>0, <1>1, <2>2, <3>5 DEF GmailForgets, rowVars, RowsOK
  <2>3. ASSUME NEW h \in HistoryIds, Notify(mb, h) PROVE Kept
    BY <1>u, <2>3 DEF Notify, syncVars
  <2> QED  BY <1>2, <2>1, <2>2, <2>3 DEF Gmail
<1>3. ASSUME NEW mb \in Mailboxes, CallWatch(mb) PROVE Kept
  <2> DEFINE n == Now(mb)
  <2>1. n \in -2 .. MaxHistory
    BY <1>t
  <2>2. watch' = [watch EXCEPT ![mb] = n]
        /\ UNCHANGED <<history, horizon, status, cursor, sink, base, rebuilt>>
    BY <1>3 DEF CallWatch, mailVars
  <2> HIDE DEF n
  <2>3. watch' \in [Mailboxes -> -2 .. MaxHistory]
        /\ \A b \in Mailboxes : watch'[b] = IF b = mb THEN n ELSE watch[b]
    BY <1>t, <2>1, <2>2
  <2>4. \A b \in Mailboxes : watch'[b] <= Now(b)
    BY <1>t, <2>1, <2>3 DEF n
  <2> QED  BY <1>0, <1>r, <2>2, <2>3, <2>4 DEF RowsOK, Now
<1>4. ASSUME NEW mb \in Mailboxes, ActivateWatch(mb) PROVE Kept
  <2>1. UNCHANGED <<history, horizon, sink, rebuilt>>
    BY <1>4 DEF ActivateWatch, mailVars
  <2>2. status' \in [Mailboxes -> Statuses]
    BY <1>0, <1>4 DEF ActivateWatch, Statuses, RowsOK
  <2>3. watch[mb] \in 0 .. MaxHistory /\ watch[mb] <= Now(mb)
    BY <1>t, <1>4 DEF ActivateWatch
  <2>4. watch' \in [Mailboxes -> -2 .. MaxHistory]
        /\ \A b \in Mailboxes : watch'[b] = IF b = mb THEN Stored ELSE watch[b]
    <3>1. Stored \in -2 .. MaxHistory
      BY QueueAssumption DEF Stored
    <3>2. watch' = [watch EXCEPT ![mb] = Stored]
      BY <1>4 DEF ActivateWatch
    <3> HIDE DEF Stored
    <3> QED  BY <1>t, <3>1, <3>2
  <2>5. \A b \in Mailboxes : watch'[b] <= Now(b)
    BY <1>t, <2>4 DEF Stored
  <2>6. /\ cursor' \in [Mailboxes -> -1 .. MaxHistory]
        /\ base' \in [Mailboxes -> 0 .. MaxHistory]
        /\ \A b \in Mailboxes : cursor[b] <= cursor'[b] /\ cursor'[b] <= Now(b)
    <3> DEFINE s == watch[mb]
    <3>1. base \in [Mailboxes -> 0 .. MaxHistory]
      BY <1>0 DEF RowsOK
    <3>2. CASE cursor[mb] = NoCursor
      <4>1. cursor' = [cursor EXCEPT ![mb] = s] /\ base' = [base EXCEPT ![mb] = s]
        BY <1>4, <3>2 DEF ActivateWatch
      <4>2. s \in 0 .. MaxHistory /\ s \in -1 .. MaxHistory /\ s <= Now(mb) /\ cursor[mb] <= s
        BY <2>3, <3>2 DEF NoCursor
      <4> HIDE DEF s
      <4>3. /\ cursor' \in [Mailboxes -> -1 .. MaxHistory]
            /\ \A b \in Mailboxes : cursor'[b] = IF b = mb THEN s ELSE cursor[b]
        BY <1>t, <4>1, <4>2
      <4> QED  BY <1>t, <1>r, <3>1, <4>1, <4>2, <4>3
    <3>3. CASE cursor[mb] # NoCursor
      <4>1. UNCHANGED <<cursor, base>>
        BY <1>4, <3>3 DEF ActivateWatch
      <4> QED  BY <1>t, <1>r, <3>1, <4>1
    <3> QED  BY <3>2, <3>3
  <2> QED  BY <1>0, <2>1, <2>2, <2>4, <2>5, <2>6 DEF RowsOK, Now
<1>5. ASSUME NEW w \in Workers, MarkMailbox(w) \/ SetActive(w) \/ SetError(w) PROVE Kept
  <2>1. UNCHANGED <<history, horizon, cursor, watch, sink, base, rebuilt>>
    BY <1>5 DEF MarkMailbox, SetActive, SetError, mailVars
  <2>2. status' \in [Mailboxes -> Statuses]
    BY <1>0, <1>5 DEF MarkMailbox, SetActive, SetError, Statuses, RowsOK
  <2> QED  BY <1>0, <1>1, <2>1, <2>2 DEF RowsOK
<1>6. ASSUME NEW w \in Workers, Persist(w) PROVE Kept
  <2>1. UNCHANGED <<history, horizon, status, cursor, watch, base, rebuilt>>
    BY <1>6 DEF Persist, mailVars, rowVars
  <2>2. run[w].fetched \in Messages
    BY <1>0, <1>6 DEF Persist, RunsOK, LocalOK
  <2>3. sink' = [sink EXCEPT ![Of(w)] = @ \cup {run[w].fetched}]
    BY <1>6 DEF Persist
  <2>4. sink' \in [Mailboxes -> SUBSET Messages]
    BY <1>0, <2>2, <2>3 DEF RowsOK
  <2> QED  BY <1>0, <1>1, <2>1, <2>4 DEF RowsOK
<1>7. ASSUME NEW w \in Workers, Delete(w) PROVE Kept
  <2>1. UNCHANGED <<history, horizon, status, cursor, watch, base, rebuilt>>
    BY <1>7 DEF Delete, mailVars, rowVars
  <2>2. PICK m : sink' = [sink EXCEPT ![Of(w)] = @ \ {m}]
    BY <1>7 DEF Delete
  <2>3. sink' \in [Mailboxes -> SUBSET Messages]
    BY <1>0, <2>2 DEF RowsOK
  <2> QED  BY <1>0, <1>1, <2>1, <2>3 DEF RowsOK
<1>8. ASSUME NEW w \in Workers, CommitCursor(w) PROVE Kept
  <2> DEFINE mb == Of(w)
             next == Larger(cursor[mb], run[w].next)
  <2>1. mb \in Mailboxes /\ run[w] \in Run /\ LocalOK(run[w], pc[w])
    BY <1>0, <1>8 DEF RunsOK, LocalOK, Busy, Syncing, CommitCursor, Of
  <2>2. run[w].next \in 0 .. MaxHistory /\ run[w].next <= Now(mb)
    BY <2>1 DEF Run, LocalOK, Of
  <2>3. run[w].mode = "replay" => run[w].start \in 0 .. MaxHistory
    BY <2>1 DEF Run, LocalOK
  <2>4. cursor' = [cursor EXCEPT ![mb] = next]
    BY <1>8 DEF CommitCursor, Advance
  <2>5. next \in -1 .. MaxHistory /\ cursor[mb] <= next /\ next <= Now(mb)
    BY <1>t, <2>1, <2>2 DEF Larger
  <2>6. rebuilt' \in [Mailboxes -> 0 .. MaxHistory]
    <3>0. rebuilt \in [Mailboxes -> 0 .. MaxHistory]
      BY <1>0 DEF RowsOK
    <3>1. CASE run[w].mode = "replay"
      <4> DEFINE n == Larger(rebuilt[mb], run[w].start)
      <4>1. rebuilt' = [rebuilt EXCEPT ![mb] = n]
        BY <1>8, <3>1 DEF CommitCursor
      <4>2. n \in 0 .. MaxHistory
        BY <3>0, <2>1, <2>3, <3>1 DEF Larger
      <4> HIDE DEF n
      <4> QED  BY <3>0, <4>1, <4>2
    <3>2. CASE run[w].mode # "replay"
      BY <1>8, <3>0, <3>2 DEF CommitCursor
    <3> QED  BY <3>1, <3>2
  <2> HIDE DEF mb, next
  <2>7. /\ cursor' \in [Mailboxes -> -1 .. MaxHistory]
        /\ \A b \in Mailboxes : cursor'[b] = IF b = mb THEN next ELSE cursor[b]
    BY <1>t, <2>4, <2>5
  <2>8. \A b \in Mailboxes : cursor[b] <= cursor'[b] /\ cursor'[b] <= Now(b)
    BY <1>t, <1>r, <2>5, <2>7
  <2>9. UNCHANGED <<history, horizon, status, watch, sink, base>>
    BY <1>8 DEF CommitCursor, mailVars
  <2> QED  BY <1>0, <2>6, <2>7, <2>8, <2>9 DEF RowsOK, Now
<1>9. ASSUME NEW w \in Workers, Work(w) \/ SyncRaises(w) \/ Die(w) PROVE Kept
  <2>1. \/ MarkMailbox(w) \/ SetActive(w) \/ SetError(w)
        \/ Persist(w) \/ Delete(w) \/ CommitCursor(w)
        \/ UNCHANGED <<history, horizon, status, cursor, watch, sink, base, rebuilt>>
    BY <1>9 DEF Work, SyncRaises, Die, Claim, ReadMailbox,
       ListHistory, HistoryGone, MarkJob, TakeCheckpoint, Scan, Fetch, Replay, Complete,
       ReadSuccessor, FailWrite, FailRaises, mailVars, rowVars, syncVars
  <2> QED  BY <1>u, <1>5, <1>6, <1>7, <1>8, <2>1
<1>10. ASSUME NEW j \in JobIds, Lapse(j) \/ Overrun(j) PROVE Kept
  BY <1>u, <1>10 DEF Lapse, Overrun, syncVars
<1>11. CASE UNCHANGED vars
  BY <1>u, <1>11 DEF vars, syncVars
<1> QED  BY <1>2, <1>3, <1>4, <1>9, <1>10, <1>11 DEF Next, Connection

LEMMA CursorInvStep == CursorInv /\ [Next]_vars => CursorInv'
<1> SUFFICES ASSUME CursorInv, [Next]_vars PROVE CursorInv'
  OBVIOUS
<1>1. QueueTypeOK' /\ Placed'
  BY SyncStepIsQueueStep, QueueTypeStep, PlacedStep DEF CursorInv
<1> QED  BY <1>1, RunsStep, RowsStep DEF CursorInv

LEMMA CursorInvInit == Init => CursorInv
<1> SUFFICES ASSUME Init PROVE CursorInv
  OBVIOUS
<1>1. QueueTypeOK /\ Placed
  BY QueueAssumption
     DEF Init, QueueInit, QueueTypeOK, JobIds, NoJob, Job, Absent, NoTx, Placed
<1>2. Prior \in Seq(Change) /\ Len(Prior) \in 0 .. MaxHistory
  BY SyncAssumption, QueueAssumption
<1>3. \A mb \in Mailboxes : history[mb] = Prior /\ Now(mb) = Len(Prior)
  BY DEF Init, Now
<1>4. RowsOK
  <2>1. history \in [Mailboxes -> Seq(Change)] /\ \A mb \in Mailboxes : Now(mb) \in 0 .. MaxHistory
    BY <1>2, <1>3 DEF Init
  <2>2. /\ -1 \in -1 .. MaxHistory /\ -1 \in -2 .. MaxHistory /\ -2 \in -2 .. MaxHistory
        /\ 0 \in 0 .. MaxHistory /\ Len(Prior) \in -1 .. MaxHistory
        /\ -1 <= Len(Prior) /\ -2 <= Len(Prior)
    BY <1>2, QueueAssumption
  <2>3. /\ cursor \in [Mailboxes -> -1 .. MaxHistory]
        /\ watch \in [Mailboxes -> -2 .. MaxHistory]
        /\ \A mb \in Mailboxes : cursor[mb] <= Now(mb) /\ watch[mb] <= Now(mb)
    BY <1>2, <1>3, <2>2 DEF Init, NoCursor, NotCalled, Stored
  <2> QED  BY <1>2, <2>1, <2>2, <2>3 DEF Init, RowsOK, Statuses
<1>5. RunsOK
  <2>1. 0 \in -1 .. MaxHistory /\ 0 \in 0 .. MaxHistory
    BY QueueAssumption
  <2>2. IdleRun \in Run /\ IdleRun.mailbox = NoMailbox /\ IdleRun.mode = "delta"
    BY <2>1 DEF IdleRun, NewRun, Run
  <2> HIDE DEF IdleRun
  <2>3. LocalOK(IdleRun, "idle")
    BY <2>2, QueueAssumption DEF LocalOK, PCs, Busy, Syncing
  <2> QED  BY <2>2, <2>3 DEF Init, RunsOK, PCs
<1> QED  BY <1>1, <1>4, <1>5 DEF CursorInv

\* Mailboxes, workers and their windows stay well formed.
THEOREM SyncTypeCorrect == Spec => []TypeOK
<1>1. CursorInv => TypeOK
  BY DEF CursorInv, RowsOK, RunsOK, TypeOK
<1> QED  BY <1>1, CursorInvInit, CursorInvStep, PTL DEF Spec

\* The cursor of a mailbox never moves back and never passes what Gmail has,
\* however many workers sync it, fail, crash or outlive their leases.
THEOREM CursorMonotoneCorrect == Spec => CursorMonotone
<1>1. CursorInv /\ CursorInv' /\ [Next]_vars
        => [\A mb \in Mailboxes : cursor[mb] <= cursor'[mb] /\ cursor'[mb] <= Now(mb)']_vars
  <2> SUFFICES ASSUME CursorInv, CursorInv', [Next]_vars, NEW mb \in Mailboxes
               PROVE  cursor[mb] <= cursor'[mb] /\ cursor'[mb] <= Now(mb)'
    OBVIOUS
  <2>1. cursor[mb] <= cursor'[mb]
    BY RowsStep
  <2>2. cursor'[mb] <= Now(mb)'
    BY DEF CursorInv, RowsOK
  <2> QED  BY <2>1, <2>2
<1> QED  BY <1>1, CursorInvInit, CursorInvStep, PTL DEF Spec, CursorMonotone

-----------------------------------------------------------------------------
(* The invariant.                                                          *)

Holds(w) == held[w] # NoJob

\* A worker within its lease is the only holder of a running row, and
\* run_once is where it says: holding a job, and its own mailbox's.
HeldLive ==
  /\ \A w \in Workers : Holds(w) =>
       jobs[held[w]].status = "running" /\ jobs[held[w]].lease = "live"
  /\ \A v, w \in Workers : Holds(v) /\ held[v] = held[w] => v = w

InPlace(w) ==
  /\ Holds(w) <=> pc[w] \notin {"idle", "error"}
  /\ pc[w] \in {"read", "fail"} \cup Syncing => jobs[held[w]].mailbox = Of(w)
  /\ failTx[w].open => pc[w] = "fail"

HeldOK == HeldLive /\ \A w \in Workers : InPlace(w)

\* The webhook records and asks for changes Gmail has already logged.
Asked ==
  /\ \A mb \in Mailboxes : \A h \in seen[mb] : h <= Now(mb)
  /\ \A j \in JobIds :
       jobs[j].status # "absent" => jobs[j].requested <= Now(jobs[j].mailbox)

\* The run of worker w will have, or has, committed a cursor at h or later if
\* it ends without failing.
Reaches(w, h) ==
  /\ pc[w] = "scan" => run[w].mode = "scan" /\ h <= run[w].start
  /\ pc[w] = "history" /\ run[w].mode # "delta" => h <= run[w].start
  /\ pc[w] \in {"ingest", "persist"} =>
       IF run[w].mode = "scan" THEN h <= run[w].start ELSE h <= run[w].next
  /\ pc[w] \in {"activate", "complete"} => h <= cursor[jobs[held[w]].mailbox]

SyncsRequested == \A w \in Workers : Holds(w) => Reaches(w, jobs[held[w]].requested)

\* What a failing job asked for is, or will be, synced by the successor its
\* fail_job transaction has read, even if that runs or is done by now.
SuccessorSyncs(v) ==
  failTx[v].open /\ failTx[v].succ # NoJob =>
    LET s == failTx[v].succ
        r == jobs[held[v]].requested
    IN  /\ s # held[v] /\ jobs[s].mailbox = jobs[held[v]].mailbox
        /\ jobs[s].status = "done" => r <= cursor[jobs[s].mailbox]
        /\ \A w \in Workers : held[w] = s => Reaches(w, r)

SuccessorsSync == \A v \in Workers : SuccessorSyncs(v)

HandedOn(w) == failTx[w].open /\ failTx[w].succ # NoJob

\* Job k is still to be run, or run by a worker that reaches h and has not
\* handed its work to another job.
WillSync(k, h) == \A w \in Workers : held[w] = k => Reaches(w, h) /\ ~HandedOn(w)

Covered(mb, h) ==
  \/ h <= cursor[mb]
  \/ \E j \in JobIds : jobs[j].mailbox = mb /\ Exhausted(j)
  \/ \E k \in Open(mb) : WillSync(k, h)

SeenCovered == \A mb \in Mailboxes : \A h \in seen[mb] : Covered(mb, h)

CoverInv ==
  HeldOK /\ Asked /\ SyncsRequested /\ SuccessorsSync /\ DoneIsSynced /\ SeenCovered

-----------------------------------------------------------------------------
(* What a step does to a worker.                                           *)

Rests(v) ==
  held'[v] = held[v] /\ failTx'[v] = failTx[v] /\ pc'[v] = pc[v] /\ run'[v] = run[v]

Acts(v) == Work(v) \/ SyncRaises(v) \/ Die(v)

\* A step of one worker leaves the others where they are.
LEMMA OneActor ==
  ASSUME CursorInv, NEW w \in Workers, Acts(w), NEW v \in Workers, v # w
  PROVE  Rests(v)
<1>0. /\ held \in [Workers -> JobIds \cup {NoJob}]
      /\ failTx \in [Workers -> [open : BOOLEAN, succ : JobIds \cup {NoJob}]]
      /\ pc \in [Workers -> PCs] /\ run \in [Workers -> Run]
  BY DEF CursorInv, QueueTypeOK, RunsOK
<1>1. (\E r : SetRun(w, r)) \/ UNCHANGED run
  BY DEF Acts, Work, SyncRaises, Die, Claim, ReadMailbox, ListHistory, HistoryGone,
     MarkJob, MarkMailbox, TakeCheckpoint, Scan, Fetch, Persist, Replay, Delete,
     CommitCursor, SetActive, Complete, ReadSuccessor, FailWrite, FailRaises, SetError,
     syncVars
<1>2. (\E l : Goto(w, l)) \/ UNCHANGED pc
  BY DEF Acts, Work, SyncRaises, Die, Claim, ReadMailbox, ListHistory, HistoryGone,
     MarkJob, MarkMailbox, TakeCheckpoint, Scan, Fetch, Persist, Replay, Delete,
     CommitCursor, SetActive, Complete, ReadSuccessor, FailWrite, FailRaises, SetError,
     syncVars
<1>3. /\ (\E k : held' = [held EXCEPT ![w] = k]) \/ UNCHANGED held
      /\ (\E t : failTx' = [failTx EXCEPT ![w] = t]) \/ UNCHANGED failTx
  <2>1. CASE UNCHANGED queueVars
    BY <2>1 DEF queueVars
  <2>2. CASE Claim(w) \/ MarkJob(w) \/ Complete(w)
    BY <2>2 DEF Claim, MarkJob, Complete, ClaimJob, MarkJobNeedsFullSync, CompleteJob
  <2>3. CASE ReadSuccessor(w) \/ FailWrite(w) \/ FailRaises(w) \/ Die(w)
    BY <2>3 DEF ReadSuccessor, FailWrite, FailRaises, Die, FailRead, GiveUp, Release,
       FailConflict, Crash, CloseFailTx, queueVars
  <2>4. \/ UNCHANGED queueVars
        \/ Claim(w) \/ MarkJob(w) \/ Complete(w)
        \/ ReadSuccessor(w) \/ FailWrite(w) \/ FailRaises(w) \/ Die(w)
    BY DEF Acts, Work, SyncRaises, ReadMailbox, ListHistory, HistoryGone,
       MarkMailbox, TakeCheckpoint, Scan, Fetch, Persist, Replay, Delete,
       CommitCursor, SetActive, SetError
  <2> QED  BY <2>1, <2>2, <2>3, <2>4
<1>4. run'[v] = run[v]
  BY <1>0, <1>1 DEF SetRun
<1>5. pc'[v] = pc[v]
  BY <1>0, <1>2 DEF Goto
<1>6. held'[v] = held[v] /\ failTx'[v] = failTx[v]
  BY <1>0, <1>3
<1> QED  BY <1>4, <1>5, <1>6 DEF Rests

LEMMA OneWorker ==
  ASSUME CursorInv, [Next]_vars, NEW v \in Workers
  PROVE  Rests(v) \/ Acts(v)
<1>1. ASSUME UNCHANGED <<held, failTx, pc, run>> PROVE Rests(v)
  BY <1>1 DEF Rests
<1>2. ASSUME NEW mb \in Mailboxes, Gmail(mb) \/ Connection(mb) PROVE Rests(v)
  BY <1>1, <1>2 DEF Gmail, GmailChange, GmailForgets, Notify, RecordNotification,
     Connection, CallWatch, ActivateWatch, queueVars, syncVars
<1>3. ASSUME NEW j \in JobIds, Lapse(j) \/ Overrun(j) PROVE Rests(v)
  BY <1>1, <1>3 DEF Lapse, Overrun, LeaseLapses, LeaseOverrun, syncVars
<1>4. CASE UNCHANGED vars
  BY <1>1, <1>4 DEF vars, queueVars, syncVars
<1>5. ASSUME NEW w \in Workers, Acts(w), v # w PROVE Rests(v)
  BY <1>5, OneActor
<1> QED  BY <1>2, <1>3, <1>4, <1>5 DEF Next, Acts

\* A worker takes a job by claiming it, and drops it with its transaction.
Takes(w) ==
  /\ Claim(w) /\ held[w] = NoJob /\ held'[w] \in JobIds
  /\ failTx'[w] = failTx[w] /\ pc'[w] = "read"

Drops(w) == held'[w] = NoJob /\ ~failTx'[w].open

KeepsJob(w) == held'[w] = held[w] /\ (failTx'[w] = failTx[w] \/ ReadSuccessor(w))

LEMMA HeldMoves ==
  ASSUME CursorInv, [Next]_vars, NEW w \in Workers
  PROVE  Takes(w) \/ Drops(w) \/ KeepsJob(w)
<1>0. /\ held \in [Workers -> JobIds \cup {NoJob}]
      /\ failTx \in [Workers -> [open : BOOLEAN, succ : JobIds \cup {NoJob}]]
      /\ pc \in [Workers -> PCs]
  BY DEF CursorInv, QueueTypeOK, RunsOK
<1>1. CASE Rests(w)
  BY <1>1 DEF Rests, KeepsJob
<1>2. CASE Claim(w)
  <2>1. PICK k \in JobIds : held' = [held EXCEPT ![w] = k]
    BY <1>2 DEF Claim, ClaimJob
  <2>2. held[w] = NoJob /\ UNCHANGED failTx /\ Goto(w, "read")
    BY <1>2 DEF Claim, ClaimJob
  <2> QED  BY <1>0, <1>2, <2>1, <2>2 DEF Takes, Goto
<1>3. CASE Complete(w)
  <2>1. ~failTx[w].open
    BY <1>3 DEF Complete, CompleteJob, Locked
  <2> QED  BY <1>0, <1>3, <2>1 DEF Drops, Complete, CompleteJob
<1>4. CASE FailWrite(w) \/ FailRaises(w)
  BY <1>0, <1>4 DEF FailWrite, FailRaises, GiveUp, Release, FailConflict, CloseFailTx, NoTx, Drops
<1>5. CASE Die(w)
  BY <1>0, <1>5 DEF Die, Crash, CloseFailTx, NoTx, Drops, KeepsJob, queueVars
<1>6. CASE ReadSuccessor(w)
  BY <1>6 DEF ReadSuccessor, FailRead, KeepsJob
<1>7. CASE UNCHANGED <<held, failTx>>
  BY <1>7 DEF KeepsJob
<1>8. ASSUME Acts(w)
      PROVE  \/ Claim(w) \/ Complete(w) \/ FailWrite(w) \/ FailRaises(w) \/ Die(w)
             \/ ReadSuccessor(w) \/ UNCHANGED <<held, failTx>>
  BY <1>8 DEF Acts, Work, SyncRaises, ReadMailbox, ListHistory, HistoryGone, MarkJob,
     MarkJobNeedsFullSync, MarkMailbox, TakeCheckpoint, Scan, Fetch, Persist, Replay, Delete,
     CommitCursor, SetActive, SetError, queueVars
<1> QED  BY OneWorker, <1>1, <1>2, <1>3, <1>4, <1>5, <1>6, <1>7, <1>8

-----------------------------------------------------------------------------
(* What a step does to a row.                                              *)

SameWork(j) ==
  jobs'[j].mailbox = jobs[j].mailbox /\ jobs'[j].requested = jobs[j].requested

\* Nothing happens to the row but its needs_full_sync mark, or the lapse of
\* a lease nobody works under.
Still(j) ==
  /\ SameWork(j)
  /\ jobs'[j].status = jobs[j].status /\ jobs'[j].attempts = jobs[j].attempts
  /\ Held(j) => jobs'[j].lease = jobs[j].lease

BeAsked(j) ==
  \E mb \in Mailboxes : \E h \in HistoryIds :
    /\ Notify(mb, h)
    /\ jobs[j].status \in {"absent", "pending"}
    /\ jobs'[j].status = "pending" /\ jobs'[j].mailbox = mb
    /\ \/ jobs'[j].requested = h
       \/ jobs[j].status = "pending" /\ SameWork(j)

BeClaimed(j) ==
  /\ Claimable(j) /\ SameWork(j)
  /\ jobs'[j].status = "running" /\ jobs'[j].lease = "live"

BeDone(j) ==
  \E w \in Workers :
    /\ pc[w] = "complete" /\ held[w] = j /\ held'[w] = NoJob
    /\ SameWork(j) /\ jobs'[j].status = "done"

BeFailed(j) ==
  \E w \in Workers :
    /\ failTx[w].open /\ held[w] = j /\ held'[w] = NoJob
    /\ SameWork(j) /\ jobs'[j].status = "failed" /\ jobs'[j].attempts = jobs[j].attempts
    /\ failTx[w].succ # NoJob \/ jobs[j].attempts >= MaxAttempts

BeReleased(j) ==
  \E w \in Workers :
    held[w] = j /\ held'[w] = NoJob /\ SameWork(j) /\ jobs'[j].status = "pending"

BeFolded(j) ==
  \E w \in Workers :
    /\ failTx[w].open /\ failTx[w].succ = j /\ ~Locked(j)
    /\ jobs'[j].mailbox = jobs[j].mailbox
    /\ jobs'[j].requested = Larger(jobs[j].requested, jobs[held[w]].requested)
    /\ jobs'[j].status = jobs[j].status /\ jobs'[j].attempts = jobs[j].attempts
    /\ jobs'[j].lease = jobs[j].lease

Moves(j) ==
  \/ Still(j) \/ BeAsked(j) \/ BeClaimed(j) \/ BeDone(j)
  \/ BeFailed(j) \/ BeReleased(j) \/ BeFolded(j)

LEMMA StillSame ==
  ASSUME NEW j, jobs'[j] = jobs[j]
  PROVE  Moves(j)
BY DEF Moves, Still, SameWork

\* A step that writes one row leaves the others still.
LEMMA OthersStill ==
  ASSUME QueueTypeOK, NEW k, NEW row, jobs' = [jobs EXCEPT ![k] = row], NEW j \in JobIds
  PROVE  Moves(j) \/ (j = k /\ jobs'[j] = row)
BY StillSame DEF QueueTypeOK

LEMMA AskMoves ==
  ASSUME CursorInv, NEW mb \in Mailboxes, NEW h \in HistoryIds, Notify(mb, h), NEW j \in JobIds
  PROVE  Moves(j)
<1>0. QueueTypeOK /\ \A k \in JobIds : jobs[k] \in Job
  BY DEF CursorInv, QueueTypeOK
<1>1. PICK full \in BOOLEAN : Enqueue(mb, h, full)
  <2>1. (status[mb] = "needs_full_sync") \in BOOLEAN
    OBVIOUS
  <2> QED  BY <2>1 DEF Notify, RecordNotification
<1>2. CASE Pending(mb) # {}
  <2>1. PICK p \in Pending(mb) : jobs' = [jobs EXCEPT ![p] = Asking(@, h)]
    BY <1>1, <1>2 DEF Enqueue
  <2>2. p \in JobIds /\ jobs[p].status = "pending" /\ jobs[p].mailbox = mb
    BY DEF Pending
  <2>3. CASE j = p
    <3>1. jobs'[j] = Asking(jobs[j], h)
      BY <1>0, <2>1, <2>3 DEF QueueTypeOK
    <3>2. /\ jobs'[j].status = "pending" /\ jobs'[j].mailbox = mb
          /\ jobs'[j].requested = Larger(jobs[j].requested, h)
      BY <1>0, <2>2, <2>3, <3>1 DEF Asking, Job
    <3>3. jobs'[j].requested = h \/ SameWork(j)
      BY <2>2, <2>3, <3>2 DEF Larger, SameWork
    <3>4. BeAsked(j)
      BY <2>2, <2>3, <3>2, <3>3 DEF BeAsked
    <3> QED  BY <3>4 DEF Moves
  <2> QED  BY <1>0, <2>1, <2>3, OthersStill
<1>3. CASE Pending(mb) = {}
  <2> DEFINE row == [mailbox |-> mb, requested |-> h, needsFull |-> full,
                     status |-> "pending", attempts |-> 0, lease |-> "none"]
  <2>1. PICK k \in JobIds : jobs[k].status = "absent" /\ jobs' = [jobs EXCEPT ![k] = row]
    BY <1>1, <1>3 DEF Enqueue
  <2>2. row.status = "pending" /\ row.mailbox = mb /\ row.requested = h
    OBVIOUS
  <2> HIDE DEF row
  <2>3. CASE j = k
    <3>1. jobs'[j] = row
      BY <1>0, <2>1, <2>3 DEF QueueTypeOK
    <3>2. BeAsked(j)
      BY <2>1, <2>2, <2>3, <3>1 DEF BeAsked
    <3> QED  BY <3>2 DEF Moves
  <2> QED  BY <1>0, <2>1, <2>3, OthersStill
<1> QED  BY <1>2, <1>3

LEMMA GiveUpMoves ==
  ASSUME CursorInv, NEW w \in Workers, GiveUp(w), NEW j \in JobIds
  PROVE  Moves(j)
<1>0. \A k \in JobIds : jobs[k] \in Job
  BY DEF CursorInv, QueueTypeOK
<1> DEFINE k == held[w]
           s == failTx[w].succ
           folded == [jobs[s] EXCEPT !.requested = Larger(@, jobs[k].requested),
                                     !.needsFull = @ \/ jobs[k].needsFull]
<1>1. /\ failTx[w].open /\ k \in JobIds /\ held'[w] = NoJob
      /\ s # NoJob \/ jobs[k].attempts >= MaxAttempts
      /\ s # NoJob => ~Locked(s)
  BY DEF CursorInv, QueueTypeOK, GiveUp, CloseFailTx
<1>2. jobs'[j] = IF j = k THEN Ended(jobs[k], "failed")
                 ELSE IF j = s THEN folded ELSE jobs[j]
  BY DEF GiveUp
<1>3. CASE j = k
  <2>1. /\ jobs'[j].status = "failed" /\ jobs'[j].attempts = jobs[j].attempts
        /\ SameWork(j)
    BY <1>0, <1>2, <1>3 DEF Ended, Job, SameWork
  <2>2. BeFailed(j)
    BY <1>1, <1>3, <2>1 DEF BeFailed
  <2> QED  BY <2>2 DEF Moves
<1>4. CASE j # k /\ j = s
  <2>1. jobs'[j] = folded
    BY <1>2, <1>4
  <2>2. /\ jobs'[j].status = jobs[j].status /\ jobs'[j].attempts = jobs[j].attempts
        /\ jobs'[j].lease = jobs[j].lease /\ jobs'[j].mailbox = jobs[j].mailbox
        /\ jobs'[j].requested = Larger(jobs[j].requested, jobs[k].requested)
    BY <1>0, <1>4, <2>1 DEF Job
  <2>3. j # NoJob
    BY DEF JobIds, NoJob
  <2>4. BeFolded(j)
    BY <1>1, <1>4, <2>2, <2>3 DEF BeFolded
  <2> QED  BY <2>4 DEF Moves
<1> QED  BY <1>2, <1>3, <1>4, StillSame

\* What the statements of the queue do to a row, as long as no lease is
\* overrun.
LEMMA RowMoves ==
  ASSUME CursorInv, [Next]_vars, overruns' = 0, NEW j \in JobIds
  PROVE  Moves(j)
<1>0. /\ QueueTypeOK /\ \A k \in JobIds : jobs[k] \in Job
      /\ \A w \in Workers : held[w] # NoJob => held[w] \in JobIds
  BY DEF CursorInv, QueueTypeOK
<1>1. CASE UNCHANGED jobs
  BY <1>1, StillSame
<1>2. ASSUME NEW mb \in Mailboxes, Gmail(mb) \/ Connection(mb) PROVE Moves(j)
  BY <1>1, <1>2, AskMoves DEF Gmail, GmailChange, GmailForgets, Connection, CallWatch,
     ActivateWatch, queueVars
<1>3. ASSUME NEW k \in JobIds, Lapse(k) PROVE Moves(j)
  <2> DEFINE row == [jobs[k] EXCEPT !.lease = "expired"]
  <2>1. jobs' = [jobs EXCEPT ![k] = row] /\ ~Held(k)
    BY <1>3 DEF Lapse, LeaseLapses
  <2>2. /\ row.mailbox = jobs[k].mailbox /\ row.requested = jobs[k].requested
        /\ row.status = jobs[k].status /\ row.attempts = jobs[k].attempts
    BY <1>0 DEF Job
  <2> HIDE DEF row
  <2>3. ASSUME j = k, jobs'[j] = row PROVE Still(j)
    BY <2>1, <2>2, <2>3 DEF Still, SameWork
  <2> QED  BY <1>0, <2>1, <2>3, OthersStill DEF Moves
<1>4. ASSUME NEW k \in JobIds, Overrun(k) PROVE FALSE
  <2>1. overruns \in Nat /\ overruns' = overruns + 1
    BY <1>4, QueueAssumption DEF Overrun, LeaseOverrun, CursorInv, QueueTypeOK
  <2> QED  BY <2>1
<1>5. CASE UNCHANGED vars
  BY <1>1, <1>5 DEF vars, queueVars
<1>6. ASSUME NEW w \in Workers, Claim(w) PROVE Moves(j)
  <2>1. PICK k \in JobIds : Claimable(k) /\ jobs' = [jobs EXCEPT ![k] = Claimed(@)]
    BY <1>6 DEF Claim, ClaimJob
  <2>2. ASSUME j = k, jobs'[j] = Claimed(jobs[k]) PROVE Moves(j)
    <3>1. jobs[j] \in Job /\ jobs'[j] = Claimed(jobs[j])
      BY <1>0, <2>2
    <3>2. SameWork(j) /\ jobs'[j].status = "running" /\ jobs'[j].lease = "live"
      BY <3>1 DEF SameWork, Claimed, Job
    <3> QED  BY <2>1, <2>2, <3>2 DEF BeClaimed, Moves
  <2> QED  BY <1>0, <2>1, <2>2, OthersStill
<1>7. ASSUME NEW w \in Workers, MarkJob(w) PROVE Moves(j)
  <2> DEFINE k == held[w]
             row == [jobs[k] EXCEPT !.needsFull = TRUE]
  <2>1. jobs' = [jobs EXCEPT ![k] = row] /\ k \in JobIds
    BY <1>0, <1>7 DEF MarkJob, MarkJobNeedsFullSync
  <2>2. /\ row.mailbox = jobs[k].mailbox /\ row.requested = jobs[k].requested
        /\ row.status = jobs[k].status /\ row.attempts = jobs[k].attempts
        /\ row.lease = jobs[k].lease
    BY <1>0, <2>1 DEF Job
  <2> HIDE DEF row, k
  <2>3. ASSUME j = k, jobs'[j] = row PROVE Still(j)
    BY <2>2, <2>3 DEF Still, SameWork
  <2> QED  BY <1>0, <2>1, <2>3, OthersStill DEF Moves
<1>8. ASSUME NEW w \in Workers, Complete(w) PROVE Moves(j)
  <2> DEFINE k == held[w]
  <2>1. /\ jobs' = [jobs EXCEPT ![k] = Ended(@, "done")] /\ k \in JobIds
        /\ held'[w] = NoJob /\ pc[w] = "complete"
    BY <1>0, <1>8 DEF Complete, CompleteJob, QueueTypeOK
  <2>2. ASSUME j = k, jobs'[j] = Ended(jobs[k], "done") PROVE Moves(j)
    <3>1. jobs[j] \in Job /\ jobs'[j] = Ended(jobs[j], "done")
      BY <1>0, <2>2
    <3>2. SameWork(j) /\ jobs'[j].status = "done"
      BY <3>1 DEF SameWork, Ended, Job
    <3> QED  BY <2>1, <2>2, <3>2 DEF BeDone, Moves
  <2> QED  BY <1>0, <2>1, <2>2, OthersStill
<1>9. ASSUME NEW w \in Workers, Release(w) PROVE Moves(j)
  <2> DEFINE k == held[w]
  <2>1. /\ jobs' = [jobs EXCEPT ![k] = Ended(@, "pending")] /\ k \in JobIds
        /\ held'[w] = NoJob
    BY <1>0, <1>9 DEF Release, MayRetry, CloseFailTx, QueueTypeOK
  <2>2. ASSUME j = k, jobs'[j] = Ended(jobs[k], "pending") PROVE Moves(j)
    <3>1. jobs[j] \in Job /\ jobs'[j] = Ended(jobs[j], "pending")
      BY <1>0, <2>2
    <3>2. SameWork(j) /\ jobs'[j].status = "pending"
      BY <3>1 DEF SameWork, Ended, Job
    <3> QED  BY <2>1, <2>2, <3>2 DEF BeReleased, Moves
  <2> QED  BY <1>0, <2>1, <2>2, OthersStill
<1>10. ASSUME NEW w \in Workers, Acts(w) PROVE Moves(j)
  <2>1. \/ Claim(w) \/ MarkJob(w) \/ Complete(w) \/ GiveUp(w) \/ Release(w) \/ UNCHANGED jobs
    BY <1>10 DEF Acts, Work, SyncRaises, Die, ReadMailbox, ListHistory, HistoryGone,
       MarkMailbox, TakeCheckpoint, Scan, Fetch, Persist, Replay, Delete, CommitCursor,
       SetActive, ReadSuccessor, FailRead, FailWrite, FailRaises, FailConflict, Crash,
       SetError, queueVars
  <2> QED  BY <1>1, <1>6, <1>7, <1>8, <1>9, <2>1, GiveUpMoves
<1> QED  BY <1>2, <1>3, <1>4, <1>5, <1>10 DEF Next, Acts

-----------------------------------------------------------------------------
(* A run stays with its job and its mailbox, and reaches what it reached.  *)

\* A row that is there stays there, in its mailbox.
LEMMA SameMailbox ==
  ASSUME CursorInv, [Next]_vars, NEW j \in JobIds, jobs[j].status # "absent"
  PROVE  /\ jobs'[j].status # "absent" /\ jobs'[j].mailbox = jobs[j].mailbox
         /\ jobs[j].mailbox \in Mailboxes
<1>1. RowKept(j) \/ RowInserted(j) \/ jobs'[j] = jobs[j]
  BY SyncStepIsQueueStep, RowsKept DEF CursorInv
<1> QED  BY <1>1 DEF RowKept, RowInserted, CursorInv, Placed

\* The steps of run_sync, up to the commit of its cursor.
SyncStep(w) ==
  \/ ReadMailbox(w) \/ ListHistory(w) \/ HistoryGone(w)
  \/ MarkJob(w) \/ MarkMailbox(w) \/ TakeCheckpoint(w) \/ Scan(w)
  \/ Fetch(w) \/ Persist(w) \/ Replay(w) \/ Delete(w) \/ CommitCursor(w)

LEMMA SyncStepStays ==
  ASSUME CursorInv, NEW w \in Workers, SyncStep(w)
  PROVE  /\ pc[w] \in {"read"} \cup Syncing /\ pc'[w] \in Syncing
         /\ UNCHANGED <<held, failTx>> /\ run'[w].mailbox = run[w].mailbox
<1>0. pc \in [Workers -> PCs] /\ run \in [Workers -> Run] /\ run[w] \in Run
  BY DEF CursorInv, RunsOK
<1>1. pc[w] \in {"read"} \cup Syncing
  BY DEF SyncStep, ReadMailbox, ListHistory, HistoryGone, MarkJob, MarkMailbox,
     TakeCheckpoint, Scan, Fetch, Persist, Replay, Delete, CommitCursor, Syncing
<1>2. pc'[w] \in Syncing
  BY <1>0, <1>1 DEF SyncStep, ReadMailbox, ListHistory, HistoryGone, MarkJob, MarkMailbox,
     TakeCheckpoint, Scan, Fetch, Persist, Replay, Delete, CommitCursor, Syncing, Goto
<1>3. UNCHANGED <<held, failTx>>
  BY DEF SyncStep, ReadMailbox, ListHistory, HistoryGone, MarkJob, MarkJobNeedsFullSync,
     MarkMailbox, TakeCheckpoint, Scan, Fetch, Persist, Replay, Delete, CommitCursor, queueVars
<1>4. ASSUME ReadMailbox(w) \/ TakeCheckpoint(w) \/ Scan(w) \/ Persist(w) \/ Replay(w)
      PROVE  run'[w].mailbox = run[w].mailbox
  <2>1. ASSUME ReadMailbox(w) PROVE run'[w].mailbox = run[w].mailbox
    BY <1>0, <2>1 DEF ReadMailbox, SetRun, Run
  <2>2. ASSUME TakeCheckpoint(w) PROVE run'[w].mailbox = run[w].mailbox
    BY <1>0, <2>2 DEF TakeCheckpoint, SetRun, Run
  <2>3. ASSUME Scan(w) PROVE run'[w].mailbox = run[w].mailbox
    BY <1>0, <2>3 DEF Scan, SetRun, Run
  <2>4. ASSUME Persist(w) \/ Replay(w) PROVE run'[w].mailbox = run[w].mailbox
    BY <1>0, <2>4 DEF Persist, Replay, SetRun, Run
  <2> QED  BY <1>4, <2>1, <2>2, <2>3, <2>4
<1>5. ASSUME ListHistory(w) PROVE run'[w].mailbox = run[w].mailbox
  <2>1. \E A, D, n : run' = [run EXCEPT ![w] =
                               [run[w] EXCEPT !.adds = A, !.deletes = D, !.next = n]]
    BY <1>5 DEF ListHistory, SetRun
  <2> QED  BY <1>0, <2>1 DEF Run
<1>6. ASSUME HistoryGone(w) PROVE run'[w].mailbox = run[w].mailbox
  BY <1>0, <1>6 DEF HistoryGone, SetRun, Run
<1>7. ASSUME Fetch(w) \/ Delete(w) PROVE run'[w].mailbox = run[w].mailbox
  <2>1. ASSUME Fetch(w) PROVE run'[w].mailbox = run[w].mailbox
    <3>1. \/ \E A, m : run' = [run EXCEPT ![w] = [run[w] EXCEPT !.adds = A, !.fetched = m]]
          \/ \E A : run' = [run EXCEPT ![w] = [run[w] EXCEPT !.adds = A]]
      BY <2>1 DEF Fetch, SetRun
    <3> QED  BY <1>0, <3>1 DEF Run
  <2>2. ASSUME Delete(w) PROVE run'[w].mailbox = run[w].mailbox
    <3>1. \E D : run' = [run EXCEPT ![w] = [run[w] EXCEPT !.deletes = D]]
      BY <2>2 DEF Delete, SetRun
    <3> QED  BY <1>0, <3>1 DEF Run
  <2> QED  BY <1>7, <2>1, <2>2
<1>8. ASSUME MarkJob(w) \/ MarkMailbox(w) \/ CommitCursor(w)
      PROVE  run'[w].mailbox = run[w].mailbox
  BY <1>8 DEF MarkJob, MarkMailbox, CommitCursor
<1> QED  BY <1>1, <1>2, <1>3, <1>4, <1>5, <1>6, <1>7, <1>8 DEF SyncStep

LEMMA InPlaceStep ==
  ASSUME CursorInv, HeldOK, [Next]_vars, NEW w \in Workers
  PROVE  InPlace(w)'
<1>0. /\ held \in [Workers -> JobIds \cup {NoJob}]
      /\ failTx \in [Workers -> [open : BOOLEAN, succ : JobIds \cup {NoJob}]]
      /\ pc \in [Workers -> PCs] /\ run \in [Workers -> Run] /\ run[w] \in Run
      /\ failTx[w].open => held[w] # NoJob
  BY DEF CursorInv, QueueTypeOK, RunsOK
<1>1. InPlace(w)
  BY DEF HeldOK
<1>2. held[w] # NoJob => /\ held[w] \in JobIds
                         /\ jobs'[held[w]].mailbox = jobs[held[w]].mailbox
  BY <1>0, SameMailbox DEF CursorInv, Placed
<1>3. NoJob \notin JobIds
  BY DEF JobIds, NoJob
<1>4. CASE Rests(w)
  BY <1>1, <1>2, <1>4 DEF Rests, InPlace, Holds, Of, Syncing
<1>5. CASE Claim(w)
  <2>1. PICK k \in JobIds : held' = [held EXCEPT ![w] = k]
    BY <1>5 DEF Claim, ClaimJob
  <2>2. held'[w] = k /\ pc'[w] = "read" /\ failTx'[w] = failTx[w] /\ held[w] = NoJob
    BY <1>0, <1>5, <2>1 DEF Claim, ClaimJob, Goto
  <2>3. run'[w].mailbox = jobs'[held'[w]].mailbox
    BY <1>0, <1>5 DEF Claim, SetRun, NewRun
  <2> QED  BY <1>0, <1>3, <2>2, <2>3 DEF InPlace, Holds, Of
<1>6. CASE SyncStep(w)
  <2>1. /\ pc[w] \in {"read"} \cup Syncing /\ pc'[w] \in Syncing
        /\ UNCHANGED <<held, failTx>> /\ run'[w].mailbox = run[w].mailbox
    BY <1>6, SyncStepStays
  <2>2. held[w] # NoJob /\ jobs[held[w]].mailbox = run[w].mailbox /\ ~failTx[w].open
    BY <1>1, <2>1 DEF InPlace, Holds, Of, Syncing
  <2> QED  BY <1>2, <2>1, <2>2 DEF InPlace, Holds, Of, Syncing
<1>7. CASE SetActive(w)
  <2>1. pc[w] = "activate" /\ pc'[w] = "complete" /\ UNCHANGED <<held, failTx>>
    BY <1>0, <1>7 DEF SetActive, Goto, queueVars
  <2> QED  BY <1>1, <2>1 DEF InPlace, Holds, Syncing
<1>8. CASE Complete(w) \/ FailRaises(w) \/ FailWrite(w)
  <2>1. pc'[w] \in {"idle", "error"}
    BY <1>0, <1>8 DEF Complete, FailRaises, FailWrite, Goto
  <2>2. held'[w] = NoJob
    BY <1>0, <1>8 DEF Complete, CompleteJob, FailRaises, FailConflict, FailWrite, GiveUp,
       Release, CloseFailTx
  <2>3. ~failTx'[w].open
    BY <1>0, <1>8 DEF Complete, CompleteJob, Locked, FailRaises, FailConflict, FailWrite,
       GiveUp, Release, CloseFailTx, NoTx
  <2> QED  BY <2>1, <2>2, <2>3 DEF InPlace, Holds, Syncing
<1>9. CASE SyncRaises(w)
  <2>1. pc[w] \in Syncing /\ pc'[w] = "fail" /\ UNCHANGED <<held, failTx>>
    BY <1>0, <1>9 DEF SyncRaises, Goto, queueVars
  <2>2. run'[w].mailbox = run[w].mailbox
    BY <1>0, <1>9 DEF SyncRaises, SetRun, NewRun, Of
  <2> QED  BY <1>1, <1>2, <2>1, <2>2 DEF InPlace, Holds, Of, Syncing
<1>10. CASE ReadSuccessor(w)
  BY <1>1, <1>2, <1>10 DEF ReadSuccessor, FailRead, syncVars, InPlace, Holds, Of, Syncing
<1>11. CASE SetError(w) \/ Die(w)
  <2>1. pc'[w] = "idle"
    BY <1>0, <1>11 DEF SetError, Die, Goto
  <2>2. held'[w] = NoJob /\ ~failTx'[w].open
    BY <1>0, <1>1, <1>11 DEF SetError, Die, Crash, CloseFailTx, NoTx, queueVars, InPlace, Holds
  <2> QED  BY <2>1, <2>2 DEF InPlace, Holds, Syncing
<1> QED
  BY OneWorker, <1>4, <1>5, <1>6, <1>7, <1>8, <1>9, <1>10, <1>11 DEF Acts, Work, SyncStep

\* To the row of a worker that goes on with it nothing happens, unless
\* fail_job folds another job into it.
LEMMA HeldRow ==
  ASSUME CursorInv, HeldLive, [Next]_vars, overruns' = 0,
         NEW w \in Workers, held[w] # NoJob, held'[w] = held[w]
  PROVE  Still(held[w]) \/ BeFolded(held[w])
<1> DEFINE k == held[w]
<1>0. \A v \in Workers : failTx[v].open => held[v] # NoJob
  BY DEF CursorInv, QueueTypeOK
<1>1. /\ k \in JobIds /\ held'[w] = k /\ k # NoJob
      /\ jobs[k].status = "running" /\ jobs[k].lease = "live"
  BY DEF HeldLive, Holds, CursorInv, QueueTypeOK
<1>2. \A v \in Workers : held[v] = k => v = w
  BY <1>1 DEF HeldLive, Holds
<1> HIDE DEF k
<1>3. Moves(k)
  BY <1>1, RowMoves
<1>4. ~BeAsked(k) /\ ~BeClaimed(k)
  BY <1>1 DEF BeAsked, BeClaimed, Claimable
<1>5. ~BeDone(k) /\ ~BeFailed(k) /\ ~BeReleased(k)
  BY <1>0, <1>1, <1>2 DEF BeDone, BeFailed, BeReleased
<1>6. Still(k) \/ BeFolded(k)
  BY <1>3, <1>4, <1>5 DEF Moves
<1> QED  BY <1>6 DEF k

\* The only holder of a job within its lease stays its only holder.
LEMMA HeldLiveStep ==
  ASSUME CursorInv, HeldLive, [Next]_vars, overruns' = 0
  PROVE  HeldLive'
<1>0. /\ held \in [Workers -> JobIds \cup {NoJob}] /\ NoJob \notin JobIds
      /\ \A v \in Workers : failTx[v].open => held[v] # NoJob
  BY DEF CursorInv, QueueTypeOK, JobIds, NoJob
<1>1. ASSUME NEW w \in Workers, held'[w] # NoJob, held'[w] # held[w]
      PROVE  /\ held' = [held EXCEPT ![w] = held'[w]]
             /\ held'[w] \in JobIds /\ Claimable(held'[w])
             /\ jobs'[held'[w]] = Claimed(jobs[held'[w]])
  <2>1. Claim(w)
    BY <1>1, HeldMoves DEF Takes, Drops, KeepsJob
  <2>2. PICK k \in JobIds : /\ Claimable(k) /\ jobs' = [jobs EXCEPT ![k] = Claimed(@)]
                            /\ held' = [held EXCEPT ![w] = k]
    BY <2>1 DEF Claim, ClaimJob
  <2>3. held'[w] = k /\ jobs'[k] = Claimed(jobs[k])
    BY <1>0, <2>2 DEF CursorInv, QueueTypeOK
  <2> QED  BY <2>2, <2>3
<1>2. ASSUME NEW w \in Workers, held'[w] # NoJob
      PROVE  jobs'[held'[w]].status = "running" /\ jobs'[held'[w]].lease = "live"
  <2>1. CASE held'[w] # held[w]
    <3>1. held'[w] \in JobIds /\ jobs'[held'[w]] = Claimed(jobs[held'[w]])
      BY <1>1, <1>2, <2>1
    <3>2. jobs[held'[w]] \in Job
      BY <3>1 DEF CursorInv, QueueTypeOK
    <3> QED  BY <3>1, <3>2 DEF Claimed, Job
  <2>2. CASE held'[w] = held[w]
    <3>1. /\ jobs[held[w]].status = "running" /\ jobs[held[w]].lease = "live"
          /\ Held(held[w])
      BY <1>2, <2>2 DEF HeldLive, Holds, Held
    <3>2. Still(held[w]) \/ BeFolded(held[w])
      BY <1>2, <2>2, HeldRow
    <3> QED  BY <2>2, <3>1, <3>2 DEF Still, BeFolded
  <2> QED  BY <2>1, <2>2
<1>3. ASSUME NEW v \in Workers, NEW w \in Workers, held'[v] # NoJob, held'[v] = held'[w]
      PROVE  v = w
  <2>1. ASSUME NEW u \in Workers, NEW x \in Workers, u # x,
               held'[u] # NoJob, held'[u] # held[u], held'[x] = held'[u]
        PROVE  FALSE
    <3>1. held'[x] = held[x] /\ Claimable(held'[u])
      BY <1>0, <1>1, <2>1
    <3>2. jobs[held[x]].status = "running" /\ jobs[held[x]].lease = "live"
      BY <2>1, <3>1 DEF HeldLive, Holds
    <3> QED  BY <2>1, <3>1, <3>2 DEF Claimable
  <2>2. CASE held'[v] = held[v] /\ held'[w] = held[w]
    BY <1>3, <2>2 DEF HeldLive, Holds
  <2> QED  BY <1>3, <2>1, <2>2
<1> QED  BY <1>2, <1>3 DEF HeldLive, Holds

LEMMA NowStep ==
  ASSUME CursorInv, [Next]_vars, NEW b \in Mailboxes
  PROVE  /\ Len(history[b]) \in 0 .. MaxHistory /\ Len(history'[b]) \in 0 .. MaxHistory
         /\ Len(history[b]) <= Len(history'[b])
<1>0. RowsOK /\ Len(history[b]) \in 0 .. MaxHistory
  BY DEF CursorInv, RowsOK, Now
<1>1. CASE UNCHANGED history
  BY <1>0, <1>1
<1>2. ASSUME NEW mb \in Mailboxes, NEW m \in Messages, GmailChange(mb, m)
      PROVE  Len(history'[b]) \in 0 .. MaxHistory /\ Len(history[b]) <= Len(history'[b])
  BY <1>0, <1>2, NowGrows DEF Now
<1>3. UNCHANGED history \/ \E mb \in Mailboxes, m \in Messages : GmailChange(mb, m)
  BY DEF Next, Gmail, Connection, GmailForgets, Notify, CallWatch, ActivateWatch,
     Work, SyncRaises, Die, Lapse, Overrun, Claim, ReadMailbox, ListHistory, HistoryGone,
     MarkJob, MarkMailbox, TakeCheckpoint, Scan, Fetch, Persist, Replay, Delete,
     CommitCursor, SetActive, Complete, ReadSuccessor, FailWrite, FailRaises, SetError,
     mailVars, syncVars, vars
<1> QED  BY <1>0, <1>1, <1>2, <1>3

LEMMA CursorStep ==
  ASSUME CursorInv, [Next]_vars, NEW b \in Mailboxes
  PROVE  cursor[b] \in Int /\ cursor'[b] \in Int /\ cursor[b] <= cursor'[b]
<1>1. cursor[b] \in -1 .. MaxHistory /\ cursor'[b] \in -1 .. MaxHistory
  BY RowsStep DEF CursorInv, RowsOK
<1> QED  BY <1>1, RowsStep

\* What a sync step leaves of the mode and the window of the run.
SameWindow(w) ==
  /\ run'[w].mode = run[w].mode /\ run'[w].start = run[w].start
  /\ run'[w].next = run[w].next

\* Scanning, ingesting and deleting go on with the window there is.
LEMMA WindowKept ==
  ASSUME CursorInv, NEW w \in Workers, Scan(w) \/ Fetch(w) \/ Persist(w) \/ Delete(w)
  PROVE  SameWindow(w)
<1>0. run \in [Workers -> Run] /\ run[w] \in Run
  BY DEF CursorInv, RunsOK
<1>1. ASSUME Scan(w) PROVE SameWindow(w)
  <2>1. \E A : run' = [run EXCEPT ![w] = [run[w] EXCEPT !.adds = A]]
    BY <1>1 DEF Scan, SetRun
  <2> QED  BY <1>0, <2>1 DEF Run, SameWindow
<1>2. ASSUME Fetch(w) PROVE SameWindow(w)
  <2>1. \/ \E A, m : run' = [run EXCEPT ![w] = [run[w] EXCEPT !.adds = A, !.fetched = m]]
        \/ \E A : run' = [run EXCEPT ![w] = [run[w] EXCEPT !.adds = A]]
    BY <1>2 DEF Fetch, SetRun
  <2> QED  BY <1>0, <2>1 DEF Run, SameWindow
<1>3. ASSUME Persist(w) PROVE SameWindow(w)
  BY <1>0, <1>3 DEF Persist, SetRun, Run, SameWindow
<1>4. ASSUME Delete(w) PROVE SameWindow(w)
  <2>1. \E D : run' = [run EXCEPT ![w] = [run[w] EXCEPT !.deletes = D]]
    BY <1>4 DEF Delete, SetRun
  <2> QED  BY <1>0, <2>1 DEF Run, SameWindow
<1> QED  BY <1>1, <1>2, <1>3, <1>4

\* A sync that reaches h goes on to: its window opens behind h, is read up to
\* now, and its cursor is committed at the end of the window.
LEMMA SyncReaches ==
  ASSUME CursorInv, NEW w \in Workers, SyncStep(w), NEW mb \in Mailboxes, run[w].mailbox = mb,
         NEW h \in Int, h <= Now(mb), Reaches(w, h)
  PROVE  /\ pc'[w] = "scan" => run'[w].mode = "scan" /\ h <= run'[w].start
         /\ pc'[w] = "history" /\ run'[w].mode # "delta" => h <= run'[w].start
         /\ pc'[w] \in {"ingest", "persist"} =>
              IF run'[w].mode = "scan" THEN h <= run'[w].start ELSE h <= run'[w].next
         /\ pc'[w] \in {"activate", "complete"} => h <= cursor'[mb]
<1> DEFINE Goal ==
         /\ pc'[w] = "scan" => run'[w].mode = "scan" /\ h <= run'[w].start
         /\ pc'[w] = "history" /\ run'[w].mode # "delta" => h <= run'[w].start
         /\ pc'[w] \in {"ingest", "persist"} =>
              IF run'[w].mode = "scan" THEN h <= run'[w].start ELSE h <= run'[w].next
         /\ pc'[w] \in {"activate", "complete"} => h <= cursor'[mb]
<1>0. /\ pc \in [Workers -> PCs] /\ run \in [Workers -> Run] /\ run[w] \in Run
      /\ LocalOK(run[w], pc[w])
  BY DEF CursorInv, RunsOK
<1>n. Now(mb) \in Int /\ cursor[mb] \in Int /\ run[w].start \in Int /\ run[w].next \in Int
      /\ cursor \in [Mailboxes -> -1 .. MaxHistory]
  <2>1. /\ Now(mb) \in 0 .. MaxHistory /\ cursor[mb] \in -1 .. MaxHistory
        /\ cursor \in [Mailboxes -> -1 .. MaxHistory]
    BY DEF CursorInv, RowsOK
  <2>2. run[w].start \in -1 .. MaxHistory /\ run[w].next \in 0 .. MaxHistory
    BY <1>0 DEF Run
  <2> QED  BY <2>1, <2>2
<1>1. ASSUME ReadMailbox(w) PROVE Goal
  <2>1. run[w].mode = "delta" /\ pc'[w] \in {"profile", "history"}
    BY <1>0, <1>1 DEF ReadMailbox, LocalOK, Goto
  <2>2. run'[w].mode = run[w].mode
    BY <1>0, <1>1 DEF ReadMailbox, SetRun, Run
  <2> QED  BY <2>1, <2>2
<1>2. ASSUME ListHistory(w) PROVE Goal
  <2>1. /\ pc[w] = "history" /\ pc'[w] = "ingest"
        /\ \E A, D : run' = [run EXCEPT ![w] = [run[w] EXCEPT !.adds = A, !.deletes = D,
                                                !.next = Larger(run[w].start, Now(mb))]]
    BY <1>0, <1>2 DEF ListHistory, SetRun, Goto, Of
  <2> DEFINE n == Larger(run[w].start, Now(mb))
  <2>2. h <= n
    BY <1>n DEF Larger
  <2> HIDE DEF n
  <2>3. \E A, D : run' = [run EXCEPT ![w] = [run[w] EXCEPT !.adds = A, !.deletes = D, !.next = n]]
    BY <2>1 DEF n
  <2>4. run'[w].mode = run[w].mode /\ run'[w].start = run[w].start /\ run'[w].next = n
    BY <1>0, <2>3 DEF Run
  <2> QED  BY <2>1, <2>2, <2>4 DEF Reaches
<1>3. ASSUME HistoryGone(w) PROVE Goal
  <2>1. CASE run[w].mode = "replay"
    <3>1. pc[w] = "history" /\ pc'[w] = "ingest"
      BY <1>0, <1>3, <2>1 DEF HistoryGone, Goto
    <3>2. run' = [run EXCEPT ![w] = [run[w] EXCEPT !.next = run[w].start]]
      BY <1>3, <2>1 DEF HistoryGone, SetRun
    <3>3. run'[w].mode = "replay" /\ run'[w].next = run[w].start
      BY <1>0, <2>1, <3>2 DEF Run
    <3>4. h <= run[w].start
      BY <2>1, <3>1 DEF Reaches
    <3> QED  BY <3>1, <3>3, <3>4
  <2>2. CASE run[w].mode # "replay"
    BY <1>0, <1>3, <2>2 DEF HistoryGone, Goto
  <2> QED  BY <2>1, <2>2
<1>4. ASSUME MarkJob(w) \/ MarkMailbox(w) PROVE Goal
  BY <1>0, <1>4 DEF MarkJob, MarkMailbox, Goto
<1>5. ASSUME TakeCheckpoint(w) PROVE Goal
  <2> DEFINE n == Now(mb)
  <2>1. pc'[w] = "scan" /\ run' = [run EXCEPT ![w] = [run[w] EXCEPT !.mode = "scan", !.start = n]]
    BY <1>0, <1>5 DEF TakeCheckpoint, SetRun, Goto, Of
  <2>2. h <= n
    OBVIOUS
  <2> HIDE DEF n
  <2>3. run'[w].mode = "scan" /\ run'[w].start = n
    BY <1>0, <2>1 DEF Run
  <2> QED  BY <2>1, <2>2, <2>3
<1>6. ASSUME Scan(w) \/ Fetch(w) \/ Persist(w) \/ Delete(w) PROVE Goal
  <2>1. SameWindow(w)
    BY <1>6, WindowKept
  <2>2. pc[w] \in {"scan", "ingest", "persist"} /\ pc'[w] \in {"ingest", "persist"}
    BY <1>0, <1>6 DEF Scan, Fetch, Persist, Delete, Goto
  <2> QED  BY <2>1, <2>2 DEF SameWindow, Reaches
<1>7. ASSUME Replay(w) PROVE Goal
  <2>1. pc[w] = "ingest" /\ pc'[w] = "history" /\ run[w].mode = "scan"
    BY <1>0, <1>7 DEF Replay, Goto
  <2>2. run'[w].start = run[w].start
    BY <1>0, <1>7 DEF Replay, SetRun, Run
  <2> QED  BY <2>1, <2>2 DEF Reaches
<1>8. ASSUME CommitCursor(w) PROVE Goal
  <2>1. pc[w] = "ingest" /\ pc'[w] = "activate" /\ run[w].mode # "scan"
    BY <1>0, <1>8 DEF CommitCursor, Goto
  <2>2. cursor'[mb] = Larger(cursor[mb], run[w].next)
    BY <1>n, <1>8 DEF CommitCursor, Advance, Of
  <2>3. h <= cursor'[mb]
    BY <1>n, <2>1, <2>2 DEF Reaches, Larger
  <2> QED  BY <2>1, <2>3
<1> QED  BY <1>1, <1>2, <1>3, <1>4, <1>5, <1>6, <1>7, <1>8 DEF SyncStep

\* A worker that keeps its job reaches what it reached.
LEMMA ReachKept ==
  ASSUME CursorInv, HeldOK, [Next]_vars, NEW w \in Workers, held[w] # NoJob, held'[w] = held[w],
         NEW h \in Int, h <= Now(jobs[held[w]].mailbox), Reaches(w, h)
  PROVE  Reaches(w, h)'
<1> DEFINE mb == jobs[held[w]].mailbox
<1>0. held[w] \in JobIds /\ jobs[held[w]].status # "absent"
  BY DEF CursorInv, QueueTypeOK, Placed
<1>1. mb \in Mailboxes /\ jobs'[held'[w]].mailbox = mb /\ h <= Now(mb)
  BY <1>0, SameMailbox
<1>p. InPlace(w) /\ pc \in [Workers -> PCs] /\ run \in [Workers -> Run]
      /\ held \in [Workers -> JobIds \cup {NoJob}]
  BY DEF HeldOK, CursorInv, RunsOK, QueueTypeOK
<1>2. SUFFICES
         /\ pc'[w] = "scan" => run'[w].mode = "scan" /\ h <= run'[w].start
         /\ pc'[w] = "history" /\ run'[w].mode # "delta" => h <= run'[w].start
         /\ pc'[w] \in {"ingest", "persist"} =>
              IF run'[w].mode = "scan" THEN h <= run'[w].start ELSE h <= run'[w].next
         /\ pc'[w] \in {"activate", "complete"} => h <= cursor'[mb]
  BY <1>1 DEF Reaches
<1>3. pc[w] \in {"activate", "complete"} => h <= cursor[mb] /\ h <= cursor'[mb]
  BY <1>1, CursorStep DEF Reaches
<1>4. pc[w] \in {"read"} \cup Syncing => run[w].mailbox = mb
  BY <1>p DEF InPlace, Of
<1> HIDE DEF mb
<1>5. CASE Rests(w)
  BY <1>3, <1>5 DEF Rests, Reaches
<1>6. CASE SyncStep(w)
  <2>1. run[w].mailbox = mb
    BY <1>4, <1>6, SyncStepStays
  <2> QED  BY <1>1, <1>6, <2>1, SyncReaches
<1>7. CASE SetActive(w)
  <2>1. pc[w] = "activate" /\ pc'[w] = "complete"
    BY <1>p, <1>7 DEF SetActive, Goto
  <2> QED  BY <1>3, <2>1
<1>8. CASE SyncRaises(w) \/ ReadSuccessor(w)
  <2>1. pc'[w] = "fail"
    BY <1>p, <1>8 DEF SyncRaises, ReadSuccessor, Goto, syncVars
  <2> QED  BY <2>1
<1>9. ~Claim(w) /\ ~SetError(w)
  BY <1>p DEF Claim, ClaimJob, SetError, InPlace, Holds
<1>10. CASE Complete(w) \/ FailWrite(w) \/ FailRaises(w)
  <2>1. held'[w] = NoJob
    BY <1>p, <1>10 DEF Complete, CompleteJob, FailRaises, FailConflict, FailWrite, GiveUp,
       Release, CloseFailTx
  <2> QED  BY <2>1
<1>11. CASE Die(w)
  <2>1. held'[w] = NoJob
    BY <1>p, <1>11 DEF Die, Crash, CloseFailTx, InPlace, Holds
  <2> QED  BY <2>1
<1> QED  BY OneWorker, <1>5, <1>6, <1>7, <1>8, <1>9, <1>10, <1>11 DEF Acts, Work, SyncStep

-----------------------------------------------------------------------------
(* The steps of the invariant.                                             *)

\* A worker that holds a job after a step has just claimed it, before any
\* read of Gmail, or reaches what it reached.
LEMMA ReachesOn ==
  ASSUME CursorInv, HeldOK, [Next]_vars, NEW w \in Workers, held'[w] # NoJob, NEW h \in Int,
         held'[w] = held[w] => h <= Now(jobs[held[w]].mailbox) /\ Reaches(w, h)
  PROVE  Reaches(w, h)'
<1>1. CASE held'[w] = held[w]
  BY <1>1, ReachKept
<1>2. CASE held'[w] # held[w]
  <2>1. pc'[w] = "read"
    BY <1>2, HeldMoves DEF Takes, Drops, KeepsJob
  <2> QED  BY <2>1 DEF Reaches
<1> QED  BY <1>1, <1>2

\* Only the webhook records a notification.
LEMMA SeenGrows ==
  ASSUME CursorInv, [Next]_vars, seen' # seen
  PROVE  \E mb \in Mailboxes, h \in HistoryIds : Notify(mb, h)
<1>1. ASSUME NEW w \in Workers, Acts(w) PROVE UNCHANGED seen
  BY <1>1 DEF Acts, Work, SyncRaises, Die, Claim, ClaimJob, ReadMailbox, ListHistory,
     HistoryGone, MarkJob, MarkJobNeedsFullSync, MarkMailbox, TakeCheckpoint, Scan, Fetch,
     Persist, Replay, Delete, CommitCursor, SetActive, Complete, CompleteJob, ReadSuccessor,
     FailRead, FailWrite, GiveUp, Release, FailRaises, FailConflict, Crash, SetError, queueVars
<1>2. ASSUME NEW j \in JobIds, Lapse(j) \/ Overrun(j) PROVE UNCHANGED seen
  BY <1>2 DEF Lapse, Overrun, LeaseLapses, LeaseOverrun
<1>3. ASSUME NEW mb \in Mailboxes, Connection(mb) PROVE UNCHANGED seen
  BY <1>3 DEF Connection, CallWatch, ActivateWatch, queueVars
<1>4. ASSUME NEW mb \in Mailboxes, Gmail(mb)
      PROVE  UNCHANGED seen \/ \E h \in HistoryIds : Notify(mb, h)
  BY <1>4 DEF Gmail, GmailChange, GmailForgets, queueVars
<1> QED  BY <1>1, <1>2, <1>3, <1>4 DEF Next, Acts, vars, queueVars

LEMMA RequestTypes ==
  ASSUME CursorInv, NEW j \in JobIds
  PROVE  jobs[j].requested \in Int
BY DEF CursorInv, QueueTypeOK, Job

\* What is asked of a row is in its mailbox's log.
LEMMA RequestedLogged ==
  ASSUME CursorInv, Asked, NEW j \in JobIds, jobs[j].status # "absent"
  PROVE  /\ jobs[j].mailbox \in Mailboxes /\ Len(history[jobs[j].mailbox]) \in Int
         /\ jobs[j].requested <= Len(history[jobs[j].mailbox])
<1>1. jobs[j].mailbox \in Mailboxes
  BY DEF CursorInv, Placed
<1>2. Now(jobs[j].mailbox) \in 0 .. MaxHistory /\ jobs[j].requested <= Now(jobs[j].mailbox)
  BY <1>1 DEF CursorInv, RowsOK, Asked
<1> QED  BY <1>1, <1>2 DEF Now

\* The row a fold reads from is that of the failing job of the mailbox.
LEMMA FoldFacts ==
  ASSUME CursorInv, Asked, SuccessorsSync, NEW j \in JobIds, BeFolded(j)
  PROVE  \E v \in Workers :
           /\ failTx[v].open /\ failTx[v].succ = j /\ held[v] \in JobIds /\ SuccessorSyncs(v)
           /\ jobs[held[v]].mailbox = jobs[j].mailbox
           /\ jobs[held[v]].requested \in Int
           /\ jobs[held[v]].requested <= Len(history[jobs[j].mailbox])
           /\ jobs'[j].requested = Larger(jobs[j].requested, jobs[held[v]].requested)
<1>1. PICK v \in Workers :
        /\ failTx[v].open /\ failTx[v].succ = j
        /\ jobs'[j].requested = Larger(jobs[j].requested, jobs[held[v]].requested)
  BY DEF BeFolded
<1>2. held[v] \in JobIds /\ jobs[held[v]].status # "absent"
  BY <1>1 DEF CursorInv, QueueTypeOK, Placed
<1>3. SuccessorSyncs(v) /\ j # NoJob
  BY DEF SuccessorsSync, JobIds, NoJob
<1>4. jobs[held[v]].mailbox = jobs[j].mailbox
  BY <1>1, <1>3 DEF SuccessorSyncs
<1>5. /\ jobs[held[v]].requested \in Int
      /\ jobs[held[v]].requested <= Len(history[jobs[j].mailbox])
  BY <1>2, <1>4, RequestTypes, RequestedLogged
<1> QED  BY <1>1, <1>2, <1>3, <1>4, <1>5

LEMMA AskedStep ==
  ASSUME CursorInv, Asked, SuccessorsSync, [Next]_vars, overruns' = 0
  PROVE  Asked'
<1>1. ASSUME NEW mb \in Mailboxes, NEW h \in seen'[mb] PROVE h <= Len(history'[mb])
  <2>0. /\ seen \in [Mailboxes -> SUBSET HistoryIds]
        /\ Len(history[mb]) \in Int /\ Len(history'[mb]) \in Int
        /\ Len(history[mb]) <= Len(history'[mb])
    BY NowStep DEF CursorInv, QueueTypeOK
  <2>1. CASE h \in seen[mb]
    <3>1. h \in Int /\ h <= Len(history[mb])
      BY <2>0, <2>1 DEF HistoryIds, Asked, Now
    <3> QED  BY <2>0, <3>1
  <2>2. CASE h \notin seen[mb]
    <3>1. \E b \in Mailboxes, g \in HistoryIds : Notify(b, g)
      BY <2>2, SeenGrows
    <3>2. PICK b \in Mailboxes, g \in HistoryIds : Notify(b, g)
      BY <3>1
    <3>3. b = mb /\ g = h
      BY <2>0, <2>2, <3>2 DEF Notify, RecordNotification
    <3>4. g <= Len(history[b]) /\ UNCHANGED history
      BY <3>2 DEF Notify, Now, syncVars
    <3> QED  BY <3>3, <3>4
  <2> QED  BY <2>1, <2>2
<1>2. ASSUME NEW j \in JobIds, jobs'[j].status # "absent"
      PROVE  jobs'[j].requested <= Len(history'[jobs'[j].mailbox])
  <2>1. Moves(j)
    BY RowMoves
  <2>2. CASE BeAsked(j)
    <3>1. PICK mb \in Mailboxes, h \in HistoryIds :
            /\ Notify(mb, h) /\ jobs'[j].mailbox = mb
            /\ \/ jobs'[j].requested = h
               \/ jobs[j].status = "pending" /\ SameWork(j)
      BY <2>2 DEF BeAsked
    <3>2. h <= Len(history[mb]) /\ UNCHANGED history
      BY <3>1 DEF Notify, Now, syncVars
    <3>3. CASE jobs'[j].requested = h
      BY <3>1, <3>2, <3>3
    <3>4. CASE jobs[j].status = "pending" /\ SameWork(j)
      BY <3>2, <3>4, RequestedLogged DEF SameWork
    <3> QED  BY <3>1, <3>3, <3>4
  <2>3. ASSUME jobs[j].status # "absent"
        PROVE  /\ jobs[j].mailbox \in Mailboxes
               /\ jobs'[j].mailbox = jobs[j].mailbox
               /\ Len(history[jobs[j].mailbox]) \in Int
               /\ Len(history'[jobs[j].mailbox]) \in Int
               /\ Len(history[jobs[j].mailbox]) <= Len(history'[jobs[j].mailbox])
               /\ jobs[j].requested \in Int
               /\ jobs[j].requested <= Len(history[jobs[j].mailbox])
    <3>1. jobs[j].mailbox \in Mailboxes
      BY <2>3 DEF CursorInv, Placed
    <3>2. /\ Len(history[jobs[j].mailbox]) \in 0 .. MaxHistory
          /\ Len(history'[jobs[j].mailbox]) \in 0 .. MaxHistory
          /\ Len(history[jobs[j].mailbox]) <= Len(history'[jobs[j].mailbox])
      BY <3>1, NowStep
    <3> QED  BY <2>3, <3>1, <3>2, SameMailbox, RequestTypes, RequestedLogged
  <2>4. CASE BeFolded(j)
    <3>1. PICK v \in Workers :
           /\ failTx[v].open /\ failTx[v].succ = j
           /\ jobs[held[v]].requested \in Int
           /\ jobs[held[v]].requested <= Len(history[jobs[j].mailbox])
           /\ jobs'[j].requested = Larger(jobs[j].requested, jobs[held[v]].requested)
      BY <2>4, FoldFacts
    <3>2. jobs[j].status # "absent"
      BY <1>2, <2>4 DEF BeFolded
    <3>3. jobs'[j].requested <= Len(history[jobs[j].mailbox]) /\ jobs'[j].requested \in Int
      BY <2>3, <3>1, <3>2 DEF Larger
    <3> QED  BY <2>3, <3>2, <3>3
  <2>5. CASE SameWork(j) /\ jobs[j].status # "absent"
    BY <2>3, <2>5 DEF SameWork
  <2>6. \A w \in Workers : held[w] = j => jobs[j].status # "absent"
    BY DEF CursorInv, Placed, JobIds, NoJob
  <2>7. BeAsked(j) \/ BeFolded(j) \/ (SameWork(j) /\ jobs[j].status # "absent")
    BY <1>2, <2>1, <2>6 DEF Moves, Still, BeClaimed, Claimable, BeDone, BeFailed, BeReleased
  <2> QED  BY <2>2, <2>4, <2>5, <2>7
<1> QED  BY <1>1, <1>2 DEF Asked, Now

\* A run reaches what its job asks for, also after another job was folded
\* into it: the fold is read off a row whose work this run reaches too.
LEMMA SyncsRequestedStep ==
  ASSUME CursorInv, CoverInv, [Next]_vars, overruns' = 0
  PROVE  SyncsRequested'
<1>0. HeldOK /\ HeldLive /\ Asked /\ SyncsRequested /\ SuccessorsSync
  BY DEF CoverInv, HeldOK
<1>1. ASSUME NEW w \in Workers, held'[w] # NoJob,
             NEW r, r = jobs'[held'[w]].requested, held'[w] = held[w]
      PROVE  r \in Int /\ r <= Now(jobs[held[w]].mailbox) /\ Reaches(w, r)
  <2> DEFINE k == held[w]
  <2>1. /\ k \in JobIds /\ jobs[k].status # "absent" /\ r = jobs'[k].requested
        /\ Reaches(w, jobs[k].requested) /\ held[w] = k
    BY <1>0, <1>1 DEF CursorInv, QueueTypeOK, Placed, SyncsRequested, Holds
  <2>2. Still(k) \/ BeFolded(k)
    BY <1>0, <1>1, HeldRow
  <2> HIDE DEF k
  <2>3. /\ jobs[k].requested \in Int /\ Len(history[jobs[k].mailbox]) \in Int
        /\ jobs[k].requested <= Len(history[jobs[k].mailbox])
    BY <1>0, <2>1, RequestTypes, RequestedLogged
  <2>4. CASE Still(k)
    BY <2>1, <2>3, <2>4 DEF Still, SameWork, Now
  <2>5. CASE BeFolded(k)
    <3>1. PICK v \in Workers :
           /\ failTx[v].open /\ failTx[v].succ = k /\ SuccessorSyncs(v)
           /\ jobs[held[v]].requested \in Int
           /\ jobs[held[v]].requested <= Len(history[jobs[k].mailbox])
           /\ jobs'[k].requested = Larger(jobs[k].requested, jobs[held[v]].requested)
      BY <1>0, <2>1, <2>5, FoldFacts
    <3>2. Reaches(w, jobs[held[v]].requested)
      BY <2>1, <3>1 DEF SuccessorSyncs, JobIds, NoJob
    <3>3. r = jobs[k].requested \/ r = jobs[held[v]].requested
      BY <2>1, <3>1 DEF Larger
    <3>4. Reaches(w, r)
      BY <2>1, <3>2, <3>3
    <3>5. r \in Int /\ r <= Len(history[jobs[k].mailbox])
      BY <2>3, <3>1, <3>3
    <3> QED  BY <2>1, <3>4, <3>5 DEF Now
  <2> QED  BY <2>2, <2>4, <2>5
<1>2. ASSUME NEW w \in Workers, held'[w] # NoJob, NEW r, r = jobs'[held'[w]].requested
      PROVE  Reaches(w, r)'
  <2>1. CursorInv'
    BY CursorInvStep
  <2>2. r \in Int
    BY <1>2, <2>1 DEF CursorInv, QueueTypeOK, Job
  <2> QED  BY <1>0, <1>1, <1>2, <2>2, ReachesOn
<1>3. ASSUME NEW w \in Workers, held'[w] # NoJob
      PROVE  Reaches(w, jobs[held[w]].requested)'
  <2>1. PICK r : r = jobs'[held'[w]].requested
    OBVIOUS
  <2>2. Reaches(w, r)'
    BY <1>2, <1>3, <2>1
  <2> QED  BY <2>1, <2>2 DEF Reaches
<1> QED  BY <1>3 DEF SyncsRequested, Holds

\* A row is done because it was, or because its run has just completed.
LEMMA WhyDone ==
  ASSUME CursorInv, [Next]_vars, overruns' = 0, NEW j \in JobIds, jobs'[j].status = "done"
  PROVE  \/ jobs[j].status = "done" /\ (SameWork(j) \/ BeFolded(j))
         \/ BeDone(j)
<1>1. Moves(j)
  BY RowMoves
<1> QED
  BY <1>1 DEF Moves, Still, BeAsked, BeClaimed, BeDone, BeFailed, BeReleased, BeFolded

\* complete_job reports what its run, and every failed job folded into it,
\* asked for.
LEMMA DoneStep ==
  ASSUME CursorInv, CoverInv, [Next]_vars, overruns' = 0
  PROVE  DoneIsSynced'
<1>0. HeldOK /\ Asked /\ SyncsRequested /\ SuccessorsSync /\ DoneIsSynced
  BY DEF CoverInv
<1>1. ASSUME NEW j \in JobIds, jobs'[j].status = "done"
      PROVE  jobs'[j].requested <= cursor'[jobs'[j].mailbox]
  <2>1. jobs[j].status # "absent"
    BY <1>1, WhyDone DEF BeDone, CursorInv, Placed, JobIds, NoJob
  <2>2. /\ jobs[j].mailbox \in Mailboxes /\ jobs'[j].mailbox = jobs[j].mailbox
        /\ jobs[j].requested \in Int
    BY <2>1, SameMailbox, RequestTypes
  <2>3. /\ cursor[jobs[j].mailbox] \in Int /\ cursor'[jobs[j].mailbox] \in Int
        /\ cursor[jobs[j].mailbox] <= cursor'[jobs[j].mailbox]
    BY <2>2, CursorStep
  <2>4. CASE jobs[j].status = "done" /\ SameWork(j)
    <3>1. jobs[j].requested <= cursor[jobs[j].mailbox]
      BY <1>0, <2>2, <2>3, <2>4 DEF DoneIsSynced
    <3> QED  BY <2>2, <2>3, <2>4, <3>1 DEF SameWork
  <2>5. CASE jobs[j].status = "done" /\ BeFolded(j)
    <3>1. PICK v \in Workers :
           /\ failTx[v].open /\ failTx[v].succ = j /\ SuccessorSyncs(v)
           /\ jobs[held[v]].requested \in Int
           /\ jobs'[j].requested = Larger(jobs[j].requested, jobs[held[v]].requested)
      BY <1>0, <2>5, FoldFacts
    <3>2. jobs[held[v]].requested <= cursor[jobs[j].mailbox]
      BY <2>5, <3>1 DEF SuccessorSyncs, JobIds, NoJob
    <3>3. jobs[j].requested <= cursor[jobs[j].mailbox]
      BY <1>0, <2>2, <2>3, <2>5 DEF DoneIsSynced
    <3>4. jobs'[j].requested \in Int /\ jobs'[j].requested <= cursor[jobs[j].mailbox]
      BY <2>2, <3>1, <3>2, <3>3 DEF Larger
    <3> QED  BY <2>2, <2>3, <3>4
  <2>6. CASE BeDone(j)
    <3>1. PICK w \in Workers : pc[w] = "complete" /\ held[w] = j /\ SameWork(j)
      BY <2>6 DEF BeDone
    <3>2. Reaches(w, jobs[j].requested)
      BY <1>0, <3>1 DEF SyncsRequested, Holds, JobIds, NoJob
    <3>3. jobs[j].requested <= cursor[jobs[j].mailbox]
      BY <3>1, <3>2 DEF Reaches
    <3> QED  BY <2>2, <2>3, <3>1, <3>3 DEF SameWork
  <2> QED  BY <1>1, <2>4, <2>5, <2>6, WhyDone
<1>2. ASSUME NEW j \in JobIds, jobs'[j].status = "done"
      PROVE  cursor'[jobs'[j].mailbox] >= jobs'[j].requested
  <2>1. jobs'[j].requested \in Int /\ jobs'[j].mailbox \in Mailboxes
    BY <1>2, CursorInvStep DEF CursorInv, QueueTypeOK, Job, Placed
  <2>2. cursor'[jobs'[j].mailbox] \in Int
    <3>1. \A b \in Mailboxes : cursor'[b] \in Int
      BY CursorStep
    <3> QED  BY <2>1, <3>1
  <2> QED  BY <1>1, <1>2, <2>1, <2>2
<1> QED  BY <1>2 DEF DoneIsSynced

\* No worker runs a job that is only waiting.
LEMMA PendingIsFree ==
  ASSUME HeldLive, NEW j \in JobIds, jobs[j].status \in {"pending", "absent"}
  PROVE  \A w \in Workers : held[w] # j
BY DEF HeldLive, Holds, JobIds, NoJob

\* While a fail_job transaction is open, its own row is locked and keeps what
\* it asks for, and the successor it read, whoever has claimed or completed
\* it since, read Gmail after that.
LEMMA SuccessorsSyncStep ==
  ASSUME CursorInv, CoverInv, [Next]_vars, overruns' = 0
  PROVE  SuccessorsSync'
<1>0. HeldOK /\ HeldLive /\ Asked /\ SyncsRequested /\ SuccessorsSync
  BY DEF CoverInv, HeldOK
<1>1. ASSUME NEW v \in Workers, failTx'[v].open, failTx'[v].succ # NoJob,
             NEW s, s = failTx'[v].succ, NEW k, k = held'[v], NEW r, r = jobs'[k].requested
      PROVE  /\ s # k /\ jobs'[s].mailbox = jobs'[k].mailbox
             /\ jobs'[s].status = "done" => r <= cursor'[jobs'[s].mailbox]
             /\ \A w \in Workers : held'[w] = s => Reaches(w, r)'
  <2>1. KeepsJob(v) /\ held[v] # NoJob
    <3>1. KeepsJob(v)
      BY <1>1, HeldMoves DEF Takes, Drops, CursorInv, QueueTypeOK
    <3> QED  BY <1>1, <3>1 DEF KeepsJob, ReadSuccessor, FailRead, CursorInv, QueueTypeOK
  <2>2. /\ k = held[v] /\ k \in JobIds /\ k # NoJob /\ jobs[k].status # "absent"
        /\ held'[v] = held[v]
    BY <1>1, <2>1 DEF KeepsJob, CursorInv, QueueTypeOK, Placed
  <2>3. /\ jobs[k].mailbox \in Mailboxes /\ jobs'[k].mailbox = jobs[k].mailbox
        /\ jobs[k].requested \in Int /\ jobs[k].requested <= Len(history[jobs[k].mailbox])
    BY <1>0, <2>2, SameMailbox, RequestTypes, RequestedLogged
  <2>4. CASE ReadSuccessor(v)
    <3>1. UNCHANGED <<jobs, held>> /\ s \in Pending(jobs[k].mailbox) \ {k}
      <4>1. PICK t \in JobIds \cup {NoJob} :
              /\ t = NoJob \/ t \in Pending(jobs[held[v]].mailbox) \ {held[v]}
              /\ failTx' = [failTx EXCEPT ![v] = [open |-> TRUE, succ |-> t]]
        BY <2>4 DEF ReadSuccessor, FailRead
      <4>2. failTx'[v].succ = t
        BY <4>1 DEF CursorInv, QueueTypeOK
      <4> QED  BY <1>1, <2>2, <2>4, <4>1, <4>2 DEF ReadSuccessor, FailRead
    <3>2. s \in JobIds /\ jobs[s].status = "pending" /\ jobs[s].mailbox = jobs[k].mailbox /\ s # k
      BY <3>1 DEF Pending
    <3>3. \A w \in Workers : held[w] # s
      BY <1>0, <3>2, PendingIsFree
    <3> QED  BY <3>1, <3>2, <3>3
  <2>5. CASE failTx'[v] = failTx[v]
    <3>1. /\ s \in JobIds /\ failTx[v].open /\ failTx[v].succ = s /\ s # NoJob
          /\ jobs[s].status # "absent"
      BY <1>1, <2>5 DEF CursorInv, QueueTypeOK, Placed
    <3>2. /\ jobs[s].mailbox \in Mailboxes /\ jobs'[s].mailbox = jobs[s].mailbox
      BY <3>1, SameMailbox
    <3>3. r = jobs[k].requested
      <4>1. Locked(k)
        BY <2>2, <3>1 DEF Locked
      <4>2. Still(k)
        BY <1>0, <2>2, <4>1, HeldRow DEF BeFolded
      <4> QED  BY <1>1, <4>2 DEF Still, SameWork
    <3>4. /\ s # k /\ jobs[s].mailbox = jobs[k].mailbox
          /\ jobs[s].status = "done" => r <= cursor[jobs[s].mailbox]
          /\ \A w \in Workers : held[w] = s => Reaches(w, r)
      BY <1>0, <2>2, <3>1, <3>3 DEF SuccessorsSync, SuccessorSyncs
    <3>5. ASSUME jobs'[s].status = "done" PROVE r <= cursor'[jobs'[s].mailbox]
      <4>1. r <= cursor[jobs[s].mailbox]
        <5>1. CASE jobs[s].status = "done"
          BY <3>4, <5>1
        <5>2. CASE BeDone(s)
          BY <3>4, <5>2 DEF BeDone, Reaches
        <5> QED  BY <3>1, <3>5, <5>1, <5>2, WhyDone
      <4> QED  BY <2>3, <3>2, <3>3, <4>1, CursorStep
    <3>6. ASSUME NEW w \in Workers, held'[w] = s PROVE Reaches(w, r)'
      <4>1. held[w] = s => r <= Now(jobs[s].mailbox) /\ Reaches(w, r)
        BY <2>3, <3>3, <3>4 DEF Now
      <4>2. held'[w] # NoJob /\ r \in Int
        BY <2>3, <3>1, <3>3, <3>6
      <4> QED  BY <1>0, <3>6, <4>1, <4>2, ReachesOn
    <3> QED  BY <2>3, <3>2, <3>4, <3>5, <3>6
  <2> QED  BY <2>1, <2>4, <2>5 DEF KeepsJob
<1>2. ASSUME NEW v \in Workers, failTx'[v].open, failTx'[v].succ # NoJob
      PROVE  LET s == failTx'[v].succ
                 r == jobs'[held'[v]].requested
             IN  /\ s # held'[v] /\ jobs'[s].mailbox = jobs'[held'[v]].mailbox
                 /\ jobs'[s].status = "done" => r <= cursor'[jobs'[s].mailbox]
                 /\ \A w \in Workers :
                      held'[w] = s => Reaches(w, jobs[held[v]].requested)'
  <2>1. PICK s : s = failTx'[v].succ
    OBVIOUS
  <2>2. PICK k : k = held'[v]
    OBVIOUS
  <2>3. PICK r : r = jobs'[k].requested
    OBVIOUS
  <2>4. /\ s # k /\ jobs'[s].mailbox = jobs'[k].mailbox
        /\ jobs'[s].status = "done" => r <= cursor'[jobs'[s].mailbox]
        /\ \A w \in Workers : held'[w] = s => Reaches(w, r)'
    BY <1>1, <1>2, <2>1, <2>2, <2>3
  <2>5. ASSUME NEW w \in Workers, held'[w] = s PROVE Reaches(w, jobs[held[v]].requested)'
    <3>1. Reaches(w, r)'
      BY <2>4, <2>5
    <3> QED  BY <2>2, <2>3, <3>1 DEF Reaches
  <2> QED  BY <2>1, <2>2, <2>3, <2>4, <2>5
<1> QED  BY <1>2 DEF SuccessorsSync, SuccessorSyncs

\* A job given up for good stays so.
LEMMA ExhaustedStays ==
  ASSUME CursorInv, HeldLive, [Next]_vars, overruns' = 0, NEW j \in JobIds, Exhausted(j)
  PROVE  jobs'[j].mailbox = jobs[j].mailbox /\ Exhausted(j)'
<1>1. jobs[j].status = "failed" /\ jobs[j].attempts >= MaxAttempts
  BY DEF Exhausted
<1>2. Moves(j) /\ \A w \in Workers : held[w] # j
  BY <1>1, RowMoves DEF HeldLive, Holds, JobIds, NoJob
<1>3. Still(j) \/ BeFolded(j)
  BY <1>1, <1>2 DEF Moves, BeAsked, BeClaimed, Claimable, BeDone, BeFailed, BeReleased
<1> QED  BY <1>1, <1>3 DEF Still, SameWork, BeFolded, Exhausted

\* An open job that will sync h goes on to, hands h to the pending successor
\* it reads, ends with the cursor at h or later, or exhausts its attempts.
LEMMA OpenCovers ==
  ASSUME CursorInv, HeldOK, HeldLive', [Next]_vars, overruns' = 0,
         NEW mb \in Mailboxes, NEW h \in Int, h <= Now(mb),
         NEW k \in Open(mb), WillSync(k, h)
  PROVE  Covered(mb, h)'
<1>0. /\ k \in JobIds /\ k # NoJob /\ jobs[k].mailbox = mb /\ HeldLive
      /\ jobs[k].status \in {"pending", "running"} /\ jobs'[k].mailbox = mb
  BY SameMailbox DEF Open, HeldOK, JobIds, NoJob
<1>1. ASSUME NEW w \in Workers, held[w] = k, ReadSuccessor(w), failTx'[w].succ # NoJob
      PROVE  Covered(mb, h)'
  <2>1. UNCHANGED <<jobs, held>> /\ failTx'[w].succ \in Pending(mb)
    <3>1. PICK t \in JobIds \cup {NoJob} :
            /\ t = NoJob \/ t \in Pending(jobs[held[w]].mailbox) \ {held[w]}
            /\ failTx' = [failTx EXCEPT ![w] = [open |-> TRUE, succ |-> t]]
      BY <1>1 DEF ReadSuccessor, FailRead
    <3>2. failTx'[w].succ = t
      BY <3>1 DEF CursorInv, QueueTypeOK
    <3> QED  BY <1>0, <1>1, <3>1, <3>2 DEF ReadSuccessor, FailRead
  <2>2. PICK s \in JobIds : jobs[s].status = "pending" /\ jobs[s].mailbox = mb
    BY <2>1 DEF Pending
  <2>3. \A v \in Workers : held'[v] # s
    BY <1>0, <2>1, <2>2, PendingIsFree
  <2>4. s \in Open(mb)' /\ WillSync(s, h)'
    BY <2>1, <2>2, <2>3 DEF Open, WillSync
  <2> QED  BY <2>4 DEF Covered
<1>2. ASSUME \A w \in Workers : held[w] = k /\ ReadSuccessor(w) => failTx'[w].succ = NoJob,
             jobs'[k].status \in {"pending", "running"}
      PROVE  Covered(mb, h)'
  <2>1. k \in Open(mb)'
    BY <1>0, <1>2 DEF Open
  <2>2. ASSUME NEW w \in Workers, held'[w] = k PROVE Reaches(w, h)' /\ ~HandedOn(w)'
    <3>1. held'[w] # NoJob
      BY <1>0, <2>2
    <3>2. held'[w] = held[w] => h <= Now(jobs[held[w]].mailbox) /\ Reaches(w, h)
      BY <1>0, <2>2 DEF WillSync
    <3>3. Reaches(w, h)'
      BY <3>1, <3>2, ReachesOn
    <3>4. ~HandedOn(w)'
      <4>1. CASE Takes(w)
        BY <4>1 DEF Takes, HandedOn, CursorInv, QueueTypeOK
      <4>2. CASE KeepsJob(w)
        BY <1>2, <2>2, <4>2 DEF KeepsJob, HandedOn, WillSync
      <4>3. CASE Drops(w)
        BY <3>1, <4>3 DEF Drops
      <4> QED  BY <4>1, <4>2, <4>3, HeldMoves
    <3> QED  BY <3>3, <3>4
  <2>3. WillSync(k, h)'
    BY <2>2 DEF WillSync
  <2> QED  BY <2>1, <2>3 DEF Covered
<1>3. CASE BeDone(k)
  <2>1. PICK w \in Workers : pc[w] = "complete" /\ held[w] = k
    BY <1>3 DEF BeDone
  <2>2. h <= cursor[mb]
    BY <1>0, <2>1 DEF WillSync, Reaches
  <2>3. h <= cursor'[mb]
    BY <2>2, CursorStep
  <2> QED  BY <2>3 DEF Covered
<1>4. CASE BeFailed(k)
  <2>1. PICK w \in Workers :
          /\ failTx[w].open /\ held[w] = k
          /\ jobs'[k].status = "failed" /\ jobs'[k].attempts = jobs[k].attempts
          /\ failTx[w].succ # NoJob \/ jobs[k].attempts >= MaxAttempts
    BY <1>4 DEF BeFailed
  <2>2. Exhausted(k)'
    BY <2>1 DEF WillSync, HandedOn, Exhausted
  <2> QED  BY <1>0, <2>2 DEF Covered
<1>5. BeDone(k) \/ BeFailed(k) \/ jobs'[k].status \in {"pending", "running"}
  BY <1>0, RowMoves DEF Moves, Still, BeAsked, BeClaimed, BeReleased, BeFolded
<1> QED  BY <1>1, <1>2, <1>3, <1>4, <1>5

\* A notification the webhook has just acknowledged leaves a pending job.
LEMMA NewIsCovered ==
  ASSUME CursorInv, HeldLive, NEW mb \in Mailboxes, NEW h \in HistoryIds, Notify(mb, h)
  PROVE  Covered(mb, h)'
<1>0. UNCHANGED held /\ \A k \in JobIds : jobs[k] \in Job
  BY DEF Notify, RecordNotification, CursorInv, QueueTypeOK
<1>1. PICK full : Enqueue(mb, h, full)
  BY DEF Notify, RecordNotification
<1>2. \E p \in JobIds : /\ jobs[p].status \in {"pending", "absent"}
                        /\ jobs'[p].status = "pending" /\ jobs'[p].mailbox = mb
  <2>1. CASE Pending(mb) # {}
    <3>1. PICK p \in Pending(mb) : jobs' = [jobs EXCEPT ![p] = Asking(@, h)]
      BY <1>1, <2>1 DEF Enqueue
    <3>2. p \in JobIds /\ jobs[p].status = "pending" /\ jobs[p].mailbox = mb
      BY DEF Pending
    <3>3. jobs'[p] = Asking(jobs[p], h)
      BY <3>1, <3>2 DEF CursorInv, QueueTypeOK
    <3>4. jobs'[p].status = "pending" /\ jobs'[p].mailbox = mb
      BY <1>0, <3>2, <3>3 DEF Asking, Job
    <3> QED  BY <3>2, <3>4
  <2>2. CASE Pending(mb) = {}
    <3> DEFINE row == [mailbox |-> mb, requested |-> h, needsFull |-> full,
                       status |-> "pending", attempts |-> 0, lease |-> "none"]
    <3>1. PICK p \in JobIds : jobs[p].status = "absent" /\ jobs' = [jobs EXCEPT ![p] = row]
      BY <1>1, <2>2 DEF Enqueue
    <3>2. row.status = "pending" /\ row.mailbox = mb
      OBVIOUS
    <3> HIDE DEF row
    <3>3. jobs'[p] = row
      BY <3>1 DEF CursorInv, QueueTypeOK
    <3> QED  BY <3>1, <3>2, <3>3
  <2> QED  BY <2>1, <2>2
<1>3. PICK p \in JobIds : /\ jobs[p].status \in {"pending", "absent"}
                          /\ jobs'[p].status = "pending" /\ jobs'[p].mailbox = mb
  BY <1>2
<1>4. \A w \in Workers : held'[w] # p
  BY <1>0, <1>3, PendingIsFree
<1>5. p \in Open(mb)' /\ WillSync(p, h)'
  BY <1>3, <1>4 DEF Open, WillSync
<1> QED  BY <1>5 DEF Covered

LEMMA SeenCoveredStep ==
  ASSUME CursorInv, CoverInv, HeldLive', [Next]_vars, overruns' = 0
  PROVE  SeenCovered'
<1>0. HeldOK /\ HeldLive /\ Asked /\ SeenCovered
  BY DEF CoverInv, HeldOK
<1>1. ASSUME NEW mb \in Mailboxes, NEW h \in seen'[mb] PROVE Covered(mb, h)'
  <2>1. CASE h \in seen[mb]
    <3>1. h \in Int /\ h <= Now(mb) /\ Covered(mb, h)
      BY <1>0, <2>1 DEF Asked, SeenCovered, CursorInv, QueueTypeOK, HistoryIds
    <3>2. ASSUME h <= cursor[mb] PROVE Covered(mb, h)'
      <4>1. h <= cursor'[mb]
        BY <3>1, <3>2, CursorStep
      <4> QED  BY <4>1 DEF Covered
    <3>3. ASSUME NEW j \in JobIds, jobs[j].mailbox = mb, Exhausted(j) PROVE Covered(mb, h)'
      <4>1. jobs'[j].mailbox = mb /\ Exhausted(j)'
        BY <1>0, <3>3, ExhaustedStays
      <4> QED  BY <4>1 DEF Covered
    <3>4. ASSUME NEW k \in Open(mb), WillSync(k, h) PROVE Covered(mb, h)'
      BY <1>0, <3>1, <3>4, OpenCovers
    <3> QED  BY <3>1, <3>2, <3>3, <3>4 DEF Covered
  <2>2. CASE h \notin seen[mb]
    <3>1. PICK b \in Mailboxes, g \in HistoryIds : Notify(b, g)
      BY <1>1, <2>2, SeenGrows
    <3>2. b = mb /\ g = h
      BY <2>2, <3>1 DEF Notify, RecordNotification, CursorInv, QueueTypeOK
    <3> QED  BY <1>0, <3>1, <3>2, NewIsCovered
  <2> QED  BY <2>1, <2>2
<1> QED  BY <1>1 DEF SeenCovered

LEMMA CoverInvInit == Init => CoverInv
<1> SUFFICES ASSUME Init PROVE CoverInv
  OBVIOUS
<1>1. /\ \A j \in JobIds : jobs[j].status = "absent"
      /\ \A w \in Workers : held[w] = NoJob /\ ~failTx[w].open /\ pc[w] = "idle"
      /\ \A mb \in Mailboxes : seen[mb] = {}
  BY DEF Init, QueueInit, Absent, NoTx
<1>2. HeldOK
  BY <1>1 DEF HeldOK, HeldLive, InPlace, Holds, Syncing
<1>3. Asked /\ SyncsRequested /\ SuccessorsSync /\ DoneIsSynced /\ SeenCovered
  BY <1>1 DEF Asked, SyncsRequested, Holds, SuccessorsSync, SuccessorSyncs, DoneIsSynced,
     SeenCovered
<1> QED  BY <1>2, <1>3 DEF CoverInv

LEMMA CoverInvStep ==
  ASSUME CursorInv, CoverInv, [Next]_vars, overruns' = 0
  PROVE  CoverInv'
<1>1. HeldOK /\ HeldLive /\ Asked /\ SuccessorsSync
  BY DEF CoverInv, HeldOK
<1>2. HeldLive'
  BY <1>1, HeldLiveStep
<1>3. HeldOK'
  BY <1>1, <1>2, InPlaceStep DEF HeldOK
<1>4. Asked'
  BY <1>1, AskedStep
<1> QED
  BY <1>2, <1>3, <1>4, SyncsRequestedStep, SuccessorsSyncStep, DoneStep, SeenCoveredStep
     DEF CoverInv

\* Leases that have been overrun stay counted.
LEMMA OverrunsGrow ==
  ASSUME CursorInv, [Next]_vars, overruns' = 0
  PROVE  overruns = 0
<1>1. overruns \in Nat
  BY QueueAssumption DEF CursorInv, QueueTypeOK
<1>2. overruns' = overruns \/ overruns' = overruns + 1
  BY SyncStepIsQueueStep DEF QueueNext, RecordNotification, ClaimJob, CompleteJob,
     MarkJobNeedsFullSync, FailJob, FailRead, GiveUp, Release, FailConflict, Crash,
     LeaseLapses, LeaseOverrun, faultVars, queueVars
<1> QED  BY <1>1, <1>2

LEMMA CoverageHolds == Spec => [](overruns = 0 => CoverInv)
<1>1. CursorInv /\ (overruns = 0 => CoverInv) /\ [Next]_vars => (overruns = 0 => CoverInv)'
  BY CoverInvStep, OverrunsGrow
<1> QED  BY <1>1, CursorInvInit, CursorInvStep, CoverInvInit, PTL DEF Spec

\* A job that complete_job has reported done was done: its mailbox is synced
\* up to every history id the job asked for, ids that fail_job folded into
\* the row while it ran, or even after it was done, included.
THEOREM DoneMeansSyncedCorrect == Spec => []DoneMeansSynced
<1>1. (overruns = 0 => CoverInv) => DoneMeansSynced
  BY DEF CoverInv, DoneMeansSynced
<1> QED  BY <1>1, CoverageHolds, PTL

\* A notification the webhook acknowledged is never lost, whatever fails,
\* dies, is reclaimed, retried or handed to a successor before it is synced:
\* its change is behind the cursor, or a job of the mailbox is still open, or
\* one has used up its attempts.
THEOREM AcknowledgedIsCoveredCorrect == Spec => []AcknowledgedIsCovered
<1>1. (overruns = 0 => CoverInv) => AcknowledgedIsCovered
  BY DEF CoverInv, SeenCovered, Covered, AcknowledgedIsCovered, SeenIsCovered
<1> QED  BY <1>1, CoverageHolds, PTL

-----------------------------------------------------------------------------
(* The last change of a message.                                           *)

\* What Gmail's log says of message m of mailbox mb now.
Added(mb, m) == IsAdd(mb, LastChange(mb, m))

Deleted(mb, m) == IsDelete(mb, LastChange(mb, m))

LEMMA LeastNumber ==
  ASSUME NEW T \in SUBSET Nat, T # {}
  PROVE  \E x \in T : \A y \in T : x <= y
<1> DEFINE R == OpToRel(<, Nat)
<1>1. \A x, y \in Nat : <<x, y>> \in R <=> x < y
  BY DEF OpToRel
<1>2. IsWellFoundedOn(R, Nat)
  BY NatLessThanWellFounded
<1> HIDE DEF R
<1>3. PICK x \in T : \A y \in T : ~(<<y, x>> \in R)
  BY <1>2, WFMin
<1>4. ASSUME NEW y \in T PROVE x <= y
  <2>1. ~(y < x) /\ x \in Nat /\ y \in Nat
    BY <1>1, <1>3
  <2> QED  BY <2>1
<1> QED  BY <1>4

LEMMA GreatestNumber ==
  ASSUME NEW n \in Nat, NEW T \in SUBSET (1 .. n), T # {}
  PROVE  \E x \in T : \A y \in T : y <= x
<1> DEFINE U == {m \in Nat : \E y \in T : m = n - y}
<1>1. U \in SUBSET Nat /\ U # {}
  <2>1. PICK y \in T : TRUE
    OBVIOUS
  <2>2. n - y \in U
    BY <2>1
  <2> QED  BY <2>2
<1>2. \A y \in T : n - y \in U
  OBVIOUS
<1>3. \A m \in U : \E y \in T : m = n - y
  OBVIOUS
<1> HIDE DEF U
<1>4. PICK m \in U : \A k \in U : m <= k
  BY <1>1, LeastNumber
<1>5. PICK x \in T : m = n - x
  BY <1>3
<1>6. ASSUME NEW y \in T PROVE y <= x
  <2>1. n - x <= n - y /\ x \in 1 .. n /\ y \in 1 .. n
    BY <1>2, <1>4, <1>5
  <2> QED  BY <2>1
<1> QED  BY <1>6

\* LastIn of a given log.
LastOf(log, m, lo, hi) ==
  LET hits == {i \in (lo + 1) .. hi : log[i].msg = m}
  IN  IF hits = {} THEN 0 ELSE CHOOSE i \in hits : \A k \in hits : k <= i

IsLast(log, m, lo, hi, i) ==
  \/ i = 0 /\ \A k \in (lo + 1) .. hi : log[k].msg # m
  \/ /\ i \in (lo + 1) .. hi /\ log[i].msg = m
     /\ \A k \in (lo + 1) .. hi : log[k].msg = m => k <= i

\* It is the greatest index of a change of m in the window, or 0.
LEMMA LastOfFinds ==
  ASSUME NEW log, NEW m, NEW lo \in Nat, NEW hi \in Nat
  PROVE  IsLast(log, m, lo, hi, LastOf(log, m, lo, hi))
<1> DEFINE hits == {i \in (lo + 1) .. hi : log[i].msg = m}
<1>1. LastOf(log, m, lo, hi) = IF hits = {} THEN 0 ELSE CHOOSE i \in hits : \A k \in hits : k <= i
  BY DEF LastOf
<1>2. hits \subseteq 1 .. hi
  OBVIOUS
<1>3. \A k \in (lo + 1) .. hi : k \in hits <=> log[k].msg = m
  OBVIOUS
<1>4. \A i \in hits : i \in (lo + 1) .. hi /\ log[i].msg = m
  OBVIOUS
<1> HIDE DEF hits
<1>5. CASE hits = {}
  BY <1>1, <1>3, <1>5 DEF IsLast
<1>6. CASE hits # {}
  <2>1. \E i \in hits : \A k \in hits : k <= i
    BY <1>2, <1>6, GreatestNumber
  <2>2. LastOf(log, m, lo, hi) \in hits /\ \A k \in hits : k <= LastOf(log, m, lo, hi)
    BY <1>1, <1>6, <2>1
  <2> QED  BY <1>3, <1>4, <2>2 DEF IsLast
<1> QED  BY <1>5, <1>6

LEMMA LastInOf ==
  ASSUME NEW mb, NEW m, NEW lo, NEW hi
  PROVE  LastIn(mb, m, lo, hi) = LastOf(history[mb], m, lo, hi)
BY DEF LastIn, LastOf

\* The last change in a window that ends now, or after the last change of
\* all, is the last change of all; it is not in a window that ends before it.
LEMMA LastAgrees ==
  ASSUME RowsOK, NEW mb \in Mailboxes, NEW m \in Messages, NEW lo \in Nat
  PROVE  /\ LastChange(mb, m) \in Nat /\ LastChange(mb, m) <= Now(mb)
         /\ lo < LastChange(mb, m) => LastIn(mb, m, lo, Now(mb)) = LastChange(mb, m)
         /\ LastIn(mb, m, lo, Now(mb)) # 0 =>
              LastIn(mb, m, lo, Now(mb)) = LastChange(mb, m) /\ lo < LastChange(mb, m)
<1> DEFINE n == Now(mb)
           l == LastIn(mb, m, 0, n)
           i == LastIn(mb, m, lo, n)
<1>1. n \in Nat /\ 0 \in Nat
  BY DEF RowsOK
<1>2. LastChange(mb, m) = l
  BY DEF LastChange
<1> HIDE DEF n
<1>3. IsLast(history[mb], m, 0, n, l)
  BY <1>1, LastInOf, LastOfFinds
<1>4. IsLast(history[mb], m, lo, n, i)
  BY <1>1, LastInOf, LastOfFinds
<1> HIDE DEF l, i
<1>5. l \in Nat /\ l <= n
  BY <1>1, <1>3 DEF IsLast
<1>6. ASSUME lo < l PROVE i = l
  <2>1. l \in (lo + 1) .. n /\ l \in 1 .. n /\ history[mb][l].msg = m
    BY <1>1, <1>3, <1>6 DEF IsLast
  <2>2. i \in (lo + 1) .. n /\ i \in 1 .. n /\ history[mb][i].msg = m /\ l <= i
    BY <1>1, <1>4, <2>1 DEF IsLast
  <2>3. i <= l
    BY <1>3, <2>1, <2>2 DEF IsLast
  <2> QED  BY <2>1, <2>2, <2>3
<1>7. ASSUME i # 0 PROVE i = l /\ lo < l
  <2>1. i \in (lo + 1) .. n /\ i \in 1 .. n /\ history[mb][i].msg = m
    BY <1>1, <1>4, <1>7 DEF IsLast
  <2>2. l \in 1 .. n /\ i <= l
    BY <1>3, <2>1 DEF IsLast
  <2>3. lo < l
    BY <2>1, <2>2
  <2> QED  BY <1>6, <2>3
<1> QED  BY <1>2, <1>5, <1>6, <1>7 DEF n, l, i

LEMMA KindsDiffer ==
  ASSUME NEW mb, NEW m
  PROVE  ~(Added(mb, m) /\ Deleted(mb, m))
BY DEF Added, Deleted, IsAdd, IsDelete

\* A message's last change as a step leaves it.
SameLast(mb, m) ==
  /\ LastChange(mb, m)' = LastChange(mb, m)
  /\ Added(mb, m)' <=> Added(mb, m)
  /\ Deleted(mb, m)' <=> Deleted(mb, m)

LEMMA HistoryKept ==
  ASSUME UNCHANGED history, NEW mb, NEW m
  PROVE  SameLast(mb, m)
BY DEF SameLast, LastChange, LastIn, Added, Deleted, IsAdd, IsDelete, Now

\* A change of m is after all that was, and leaves other messages alone.
LEMMA ChangeIsLast ==
  ASSUME RowsOK, NEW b \in Mailboxes, NEW c \in Messages, GmailChange(b, c),
         NEW mb \in Mailboxes, NEW m \in Messages
  PROVE  SameLast(mb, m) \/ (LastChange(mb, m)' \in Nat /\ Now(mb) < LastChange(mb, m)')
<1> DEFINE e == [kind |-> IF InMailbox(b, c) THEN "delete" ELSE "add", msg |-> c]
<1>1. e \in Change /\ e.msg = c
  BY DEF Change
<1>2. history' = [history EXCEPT ![b] = Append(@, e)]
  BY DEF GmailChange
<1> HIDE DEF e
<1>3. CASE mb # b
  <2>1. history'[mb] = history[mb]
    BY <1>2, <1>3 DEF RowsOK
  <2> QED
    BY <2>1 DEF SameLast, LastChange, LastIn, Added, Deleted, IsAdd, IsDelete, Now
<1>4. CASE mb = b
  <2> DEFINE n == Len(history[mb])
             g == history[mb]
             h == history'[mb]
             l == LastOf(g, m, 0, n)
             k == LastOf(h, m, 0, n + 1)
  <2>1. n \in Nat /\ g \in Seq(Change)
    BY DEF RowsOK, Now
  <2>2. h = Append(g, e)
    BY <1>2, <1>4 DEF RowsOK
  <2>3. /\ Len(h) = n + 1 /\ h[n + 1] = e
        /\ \A i \in 1 .. n : h[i] = g[i]
    BY <1>1, <2>1, <2>2
  <2>4. LastChange(mb, m) = l /\ Now(mb) = n
    BY DEF LastChange, LastIn, LastOf, Now
  <2>5. LastChange(mb, m)' = k
    BY <2>3 DEF LastChange, LastIn, LastOf, Now
  <2>6. /\ Added(mb, m) <=> l # 0 /\ g[l].kind = "add"
        /\ Deleted(mb, m) <=> l # 0 /\ g[l].kind = "delete"
    BY <2>4 DEF Added, Deleted, IsAdd, IsDelete
  <2>7. /\ Added(mb, m)' <=> k # 0 /\ h[k].kind = "add"
        /\ Deleted(mb, m)' <=> k # 0 /\ h[k].kind = "delete"
    BY <2>5 DEF Added, Deleted, IsAdd, IsDelete
  <2>8. IsLast(g, m, 0, n, l) /\ IsLast(h, m, 0, n + 1, k)
    BY <2>1, LastOfFinds
  <2> HIDE DEF n, g, h, l, k
  <2>9. CASE m = c
    <3>1. k \in Nat /\ n < k
      BY <1>1, <2>1, <2>3, <2>8, <2>9 DEF IsLast
    <3> QED  BY <2>4, <2>5, <3>1
  <2>10. CASE m # c
    <3>1. k = l
      <4>1. CASE k = 0
        <5>1. \A i \in 1 .. n : g[i].msg # m
          BY <2>1, <2>3, <2>8, <4>1 DEF IsLast
        <5> QED  BY <2>1, <2>8, <4>1, <5>1 DEF IsLast
      <4>2. CASE k # 0
        <5>1. k \in 1 .. n /\ g[k].msg = m
          BY <1>1, <2>1, <2>3, <2>8, <2>10, <4>2 DEF IsLast
        <5>2. l \in 1 .. n /\ g[l].msg = m /\ k <= l
          BY <2>1, <2>8, <5>1 DEF IsLast
        <5>3. l <= k
          BY <2>1, <2>3, <2>8, <4>2, <5>2 DEF IsLast
        <5> QED  BY <5>1, <5>2, <5>3
      <4> QED  BY <4>1, <4>2
    <3>2. l # 0 => h[l] = g[l]
      BY <2>1, <2>3, <2>8 DEF IsLast
    <3> QED  BY <2>4, <2>5, <2>6, <2>7, <3>1, <3>2 DEF SameLast
  <2> QED  BY <2>9, <2>10
<1> QED  BY <1>3, <1>4

-----------------------------------------------------------------------------
(* What is stored agrees with the cursor, as long as no two workers sync a  *)
(* mailbox at once (two may: the run sync_overlap shows what happens then). *)

Apart ==
  \A v, w \in Workers : pc[v] \in Syncing /\ pc[w] \in Syncing /\ Of(v) = Of(w) => v = w

Reading == {"ingest", "persist"}

\* How far the window reaches that a run is ingesting.
WindowEnd(r) == IF r.mode = "scan" THEN r.start ELSE r.next

ToStore(r, l, m) == m \in r.adds \/ (l = "persist" /\ r.fetched = m)

\* A run with locals r at label l, S being what is stored: what its window
\* adds is stored or will be; what it deletes is deleted or will be; it
\* deletes nothing that is back within the window, and what it has fetched
\* was there when the window was read.
MessageOK(mb, r, l, S, m) ==
  /\ l = "history" /\ r.mode = "replay" /\ Added(mb, m) /\ LastChange(mb, m) <= r.start
       => m \in S
  /\ l \in Reading /\ Added(mb, m) /\ LastChange(mb, m) <= WindowEnd(r)
       /\ (r.mode = "delta" => r.start < LastChange(mb, m))
       => m \in S \/ ToStore(r, l, m)
  /\ l \in Reading /\ r.mode # "scan" /\ Deleted(mb, m)
       /\ r.start < LastChange(mb, m) /\ LastChange(mb, m) <= r.next
       => m \in r.deletes \/ m \notin S
  /\ l \in Reading /\ m \in r.deletes /\ Added(mb, m) => r.next < LastChange(mb, m)
  /\ l = "persist" /\ r.fetched = m /\ Deleted(mb, m) => WindowEnd(r) < LastChange(mb, m)

\* A delta opens at the cursor c; a full sync takes its checkpoint behind it,
\* unless the connection seeds the cursor (with b) meanwhile.
SyncOK(mb, r, l, c, b, S) ==
  /\ l \in {"history"} \cup Reading /\ r.mode = "delta" => r.start = c /\ r.start >= 0
  /\ l = "scan" => r.mode = "scan"
  /\ l = "history" => r.mode # "scan"
  /\ l \in {"scan", "history"} \cup Reading /\ r.mode # "delta" => c <= r.start \/ c <= b
  /\ l \in Reading /\ r.mode # "scan" => r.start <= r.next
  /\ l \in {"read"} \cup Syncing /\ (l \notin Reading \/ r.mode = "scan") => r.deletes = {}
  /\ \A m \in Messages : MessageOK(mb, r, l, S, m)

RunOK(w) ==
  \A mb \in Mailboxes :
    Of(w) = mb => SyncOK(mb, run[w], pc[w], cursor[mb], base[mb], sink[mb])

\* ArrivalsStored and DeletionsApplied, of one message.
MailOK(mb, m, c, b, n, S) ==
  /\ Added(mb, m) /\ b < LastChange(mb, m) /\ LastChange(mb, m) <= c => m \in S
  /\ Deleted(mb, m) /\ Larger(b, n) < LastChange(mb, m) /\ LastChange(mb, m) <= c => m \notin S

SinkInv ==
  /\ \A w \in Workers : RunOK(w)
  /\ \A mb \in Mailboxes, m \in Messages :
       MailOK(mb, m, cursor[mb], base[mb], rebuilt[mb], sink[mb])

LEMMA SinkInvMeans == SinkInv => ArrivalsStored /\ DeletionsApplied
BY DEF SinkInv, MailOK, ArrivalsStored, DeletionsApplied, Added, Deleted

\* A worker that is not syncing has nothing to keep.
LEMMA NotSyncing ==
  ASSUME NEW mb, NEW r, NEW l, NEW c, NEW b, NEW S,
         l \notin {"read"} \cup Syncing \/ (l \notin Syncing /\ r.deletes = {})
  PROVE  SyncOK(mb, r, l, c, b, S)
BY DEF SyncOK, MessageOK, Reading, Syncing

\* The numbers a run and its mailbox hold.
LEMMA Numbers ==
  ASSUME CursorInv, NEW w \in Workers, NEW mb \in Mailboxes, Of(w) = mb
  PROVE  /\ run[w] \in Run /\ run[w].start \in Int /\ run[w].next \in Int
         /\ run[w].start <= Now(mb) /\ run[w].next <= Now(mb)
         /\ run[w].mode # "delta" => run[w].start >= 0
         /\ Now(mb) \in Nat /\ cursor[mb] \in Int /\ base[mb] \in Int /\ rebuilt[mb] \in Int
         /\ cursor[mb] <= Now(mb)
         /\ cursor[mb] # NoCursor => cursor[mb] >= 0
         /\ \A m \in Messages : LastChange(mb, m) \in Int /\ LastChange(mb, m) <= Now(mb)
<1>1. run[w] \in Run /\ LocalOK(run[w], pc[w]) /\ run[w].mailbox = mb
  BY DEF CursorInv, RunsOK, Of
<1>2. run[w].start \in -1 .. MaxHistory /\ run[w].next \in 0 .. MaxHistory
  BY <1>1 DEF Run
<1>3. /\ Now(mb) \in 0 .. MaxHistory /\ cursor[mb] \in -1 .. MaxHistory
      /\ base[mb] \in 0 .. MaxHistory /\ rebuilt[mb] \in 0 .. MaxHistory
      /\ cursor[mb] <= Now(mb)
  BY DEF CursorInv, RowsOK
<1>4. \A m \in Messages : LastChange(mb, m) \in Nat /\ LastChange(mb, m) <= Now(mb)
  <2>1. 0 \in Nat /\ RowsOK
    BY DEF CursorInv
  <2> QED  BY <2>1, LastAgrees
<1> QED  BY <1>1, <1>2, <1>3, <1>4 DEF LocalOK, NoCursor

\* The run after a step of its worker, S being what is stored after it.
NextOK(w, mb, c, S) == SyncOK(mb, run'[w], pc'[w], c, base[mb], S)

LEMMA ReadOK ==
  ASSUME CursorInv, NEW w \in Workers, NEW mb \in Mailboxes, Of(w) = mb,
         SyncOK(mb, run[w], pc[w], cursor[mb], base[mb], sink[mb]), ReadMailbox(w)
  PROVE  NextOK(w, mb, cursor[mb], sink[mb])
<1>0. /\ pc \in [Workers -> PCs] /\ run \in [Workers -> Run] /\ run[w] \in Run
      /\ LocalOK(run[w], pc[w])
  BY DEF CursorInv, RunsOK
<1> DEFINE c == cursor[mb]
<1>1. /\ pc[w] = "read" /\ pc'[w] \in {"profile", "history"}
      /\ pc'[w] = "history" => c # NoCursor
      /\ run' = [run EXCEPT ![w] = [run[w] EXCEPT !.start = c]]
  BY <1>0 DEF ReadMailbox, SetRun, Goto, Of
<1>2. c # NoCursor => c >= 0
  BY Numbers
<1> HIDE DEF c
<1>3. /\ run'[w].start = c /\ run'[w].mode = run[w].mode
      /\ run'[w].deletes = run[w].deletes
  BY <1>0, <1>1 DEF Run
<1>4. run[w].mode = "delta" /\ run[w].deletes = {}
  BY <1>0, <1>1 DEF LocalOK, SyncOK, Reading
<1>5. SyncOK(mb, run'[w], pc'[w], c, base[mb], sink[mb])
  BY <1>1, <1>2, <1>3, <1>4 DEF SyncOK, MessageOK, Reading
<1> QED  BY <1>5 DEF NextOK, c

\* collect_history over the window since start: what it lists is what was
\* last added, and last deleted, in the window.
LEMMA Lists ==
  ASSUME CursorInv, NEW w \in Workers, NEW mb \in Mailboxes, Of(w) = mb,
         SyncOK(mb, run[w], pc[w], cursor[mb], base[mb], sink[mb]), ListHistory(w)
  PROVE  /\ pc[w] = "history" /\ pc'[w] = "ingest" /\ run'[w].mode = run[w].mode
         /\ run'[w].start = run[w].start /\ run'[w].next = Now(mb)
         /\ \A m \in Messages :
              /\ m \in run'[w].adds <=> Added(mb, m) /\ run[w].start < LastChange(mb, m)
              /\ m \in run'[w].deletes <=> Deleted(mb, m) /\ run[w].start < LastChange(mb, m)
<1>0. /\ pc \in [Workers -> PCs] /\ run \in [Workers -> Run] /\ run[w] \in Run
      /\ RowsOK /\ run[w].mode \in {"delta", "scan", "replay"}
  BY DEF CursorInv, RunsOK, Run
<1> DEFINE s == run[w].start
           last(m) == LastIn(mb, m, s, Now(mb))
           A == {m \in Messages : IsAdd(mb, last(m))}
           D == {m \in Messages : IsDelete(mb, last(m))}
           n == Larger(s, Now(mb))
<1>1. /\ pc[w] = "history" /\ pc'[w] = "ingest"
      /\ run' = [run EXCEPT ![w] = [run[w] EXCEPT !.adds = A, !.deletes = D, !.next = n]]
  BY <1>0 DEF ListHistory, SetRun, Goto, Of
<1>2. s \in Nat /\ s <= Now(mb) /\ Now(mb) \in Nat
  BY <1>0, <1>1, Numbers DEF SyncOK
<1>3. n = Now(mb)
  BY <1>2 DEF Larger
<1>4. ASSUME NEW m \in Messages
      PROVE  /\ m \in A <=> Added(mb, m) /\ s < LastChange(mb, m)
             /\ m \in D <=> Deleted(mb, m) /\ s < LastChange(mb, m)
  <2>1. /\ s < LastChange(mb, m) => last(m) = LastChange(mb, m)
        /\ last(m) # 0 => last(m) = LastChange(mb, m) /\ s < LastChange(mb, m)
    BY <1>0, <1>2, LastAgrees
  <2>2. /\ m \in A <=> IsAdd(mb, last(m))
        /\ m \in D <=> IsDelete(mb, last(m))
    OBVIOUS
  <2> HIDE DEF A, D, last, s
  <2> QED  BY <2>1, <2>2 DEF Added, Deleted, IsAdd, IsDelete
<1> HIDE DEF A, D, n
<1>5. /\ run'[w].mode = run[w].mode /\ run'[w].start = run[w].start
      /\ run'[w].adds = A /\ run'[w].deletes = D /\ run'[w].next = n
  BY <1>0, <1>1 DEF Run
<1> QED  BY <1>1, <1>3, <1>4, <1>5

LEMMA ListOK ==
  ASSUME CursorInv, NEW w \in Workers, NEW mb \in Mailboxes, Of(w) = mb,
         SyncOK(mb, run[w], pc[w], cursor[mb], base[mb], sink[mb]), ListHistory(w)
  PROVE  NextOK(w, mb, cursor[mb], sink[mb])
<1>1. /\ pc[w] = "history" /\ pc'[w] = "ingest" /\ run'[w].mode = run[w].mode
      /\ run'[w].start = run[w].start /\ run'[w].next = Now(mb)
      /\ \A m \in Messages :
           /\ m \in run'[w].adds <=> Added(mb, m) /\ run[w].start < LastChange(mb, m)
           /\ m \in run'[w].deletes <=> Deleted(mb, m) /\ run[w].start < LastChange(mb, m)
  BY Lists
<1>2. /\ run[w].start \in Int /\ run[w].start <= Now(mb) /\ Now(mb) \in Nat
      /\ \A m \in Messages : LastChange(mb, m) \in Int /\ LastChange(mb, m) <= Now(mb)
      /\ run[w].mode \in {"delta", "scan", "replay"}
  BY Numbers DEF Run
<1>3. ASSUME NEW m \in Messages PROVE MessageOK(mb, run'[w], pc'[w], sink[mb], m)
  <2>1. ~(Added(mb, m) /\ Deleted(mb, m))
    BY KindsDiffer
  <2>2. /\ run[w].mode # "scan"
        /\ run[w].mode = "replay" /\ Added(mb, m) /\ LastChange(mb, m) <= run[w].start
             => m \in sink[mb]
    BY <1>1 DEF SyncOK, MessageOK
  <2> QED  BY <1>1, <1>2, <2>1, <2>2 DEF MessageOK, WindowEnd, ToStore, Reading
<1> QED  BY <1>1, <1>2, <1>3 DEF NextOK, SyncOK, Reading

\* An expired delta becomes a full sync; a replay that expired commits its
\* checkpoint.
LEMMA GoneOK ==
  ASSUME CursorInv, NEW w \in Workers, NEW mb \in Mailboxes, Of(w) = mb,
         SyncOK(mb, run[w], pc[w], cursor[mb], base[mb], sink[mb]), HistoryGone(w)
  PROVE  NextOK(w, mb, cursor[mb], sink[mb])
<1>0. /\ pc \in [Workers -> PCs] /\ run \in [Workers -> Run] /\ run[w] \in Run
      /\ pc[w] = "history"
  BY DEF CursorInv, RunsOK, HistoryGone
<1>1. CASE run[w].mode = "replay"
  <2>1. pc'[w] = "ingest" /\ run' = [run EXCEPT ![w] = [run[w] EXCEPT !.next = run[w].start]]
    BY <1>0, <1>1 DEF HistoryGone, SetRun, Goto
  <2>2. /\ run'[w].mode = "replay" /\ run'[w].start = run[w].start
        /\ run'[w].next = run[w].start /\ run'[w].adds = run[w].adds
        /\ run'[w].deletes = run[w].deletes
    BY <1>0, <1>1, <2>1 DEF Run
  <2>3. run[w].deletes = {}
    BY <1>0 DEF SyncOK, Reading, Syncing
  <2>4. run[w].start \in Int /\ \A m \in Messages : LastChange(mb, m) \in Int
    BY Numbers
  <2>5. ASSUME NEW m \in Messages PROVE MessageOK(mb, run'[w], pc'[w], sink[mb], m)
    <3>1. Added(mb, m) /\ LastChange(mb, m) <= run[w].start => m \in sink[mb]
      BY <1>0, <1>1 DEF SyncOK, MessageOK
    <3> QED  BY <2>1, <2>2, <2>3, <2>4, <3>1 DEF MessageOK, WindowEnd, ToStore, Reading
  <2> QED  BY <1>0, <1>1, <2>1, <2>2, <2>3, <2>4, <2>5 DEF NextOK, SyncOK, Reading
<1>2. CASE run[w].mode # "replay"
  <2>1. pc'[w] = "markJob" /\ run'[w] = run[w] /\ run[w].deletes = {}
    BY <1>0, <1>2 DEF HistoryGone, Goto, SyncOK, Reading, Syncing
  <2> QED  BY <2>1 DEF NextOK, SyncOK, MessageOK, Reading
<1> QED  BY <1>1, <1>2

LEMMA MarksOK ==
  ASSUME CursorInv, NEW w \in Workers, NEW mb \in Mailboxes, Of(w) = mb,
         SyncOK(mb, run[w], pc[w], cursor[mb], base[mb], sink[mb]),
         MarkJob(w) \/ MarkMailbox(w)
  PROVE  NextOK(w, mb, cursor[mb], sink[mb])
<1>0. pc \in [Workers -> PCs]
  BY DEF CursorInv, RunsOK
<1>1. /\ pc[w] \in {"markJob", "markMailbox"} /\ pc'[w] \in {"markMailbox", "profile"}
      /\ run'[w] = run[w]
  BY <1>0 DEF MarkJob, MarkMailbox, Goto
<1>2. run[w].deletes = {}
  BY <1>1 DEF SyncOK, Reading, Syncing
<1> QED  BY <1>1, <1>2 DEF NextOK, SyncOK, MessageOK, Reading

\* The checkpoint is not behind the cursor, which is not ahead of Gmail.
LEMMA CheckpointOK ==
  ASSUME CursorInv, NEW w \in Workers, NEW mb \in Mailboxes, Of(w) = mb,
         SyncOK(mb, run[w], pc[w], cursor[mb], base[mb], sink[mb]), TakeCheckpoint(w)
  PROVE  NextOK(w, mb, cursor[mb], sink[mb])
<1>0. /\ pc \in [Workers -> PCs] /\ run \in [Workers -> Run] /\ run[w] \in Run
  BY DEF CursorInv, RunsOK
<1>1. /\ pc[w] = "profile" /\ pc'[w] = "scan"
      /\ run' = [run EXCEPT ![w] = [run[w] EXCEPT !.mode = "scan", !.start = Now(mb)]]
  BY <1>0 DEF TakeCheckpoint, SetRun, Goto, Of
<1>2. /\ run'[w].mode = "scan" /\ run'[w].start = Now(mb)
      /\ run'[w].deletes = run[w].deletes
  BY <1>0, <1>1 DEF Run
<1>3. run[w].deletes = {}
  BY <1>1 DEF SyncOK, Reading, Syncing
<1>4. cursor[mb] <= Now(mb)
  BY Numbers
<1> QED  BY <1>1, <1>2, <1>3, <1>4 DEF NextOK, SyncOK, MessageOK, Reading

\* The scan finds whatever was last added.
LEMMA ScanOK ==
  ASSUME CursorInv, NEW w \in Workers, NEW mb \in Mailboxes, Of(w) = mb,
         SyncOK(mb, run[w], pc[w], cursor[mb], base[mb], sink[mb]), Scan(w)
  PROVE  NextOK(w, mb, cursor[mb], sink[mb])
<1>0. /\ pc \in [Workers -> PCs] /\ run \in [Workers -> Run] /\ run[w] \in Run
  BY DEF CursorInv, RunsOK
<1> DEFINE A == {m \in Messages : Added(mb, m)}
<1>1. /\ pc[w] = "scan" /\ pc'[w] = "ingest"
      /\ run' = [run EXCEPT ![w] = [run[w] EXCEPT !.adds = A]]
  BY <1>0 DEF Scan, SetRun, Goto, Of, InMailbox, Added, LastChange
<1>2. \A m \in Messages : Added(mb, m) => m \in A
  OBVIOUS
<1> HIDE DEF A
<1>3. /\ run'[w].mode = run[w].mode /\ run'[w].start = run[w].start
      /\ run'[w].adds = A /\ run'[w].deletes = run[w].deletes
  BY <1>0, <1>1 DEF Run
<1>4. /\ run[w].mode = "scan" /\ run[w].deletes = {}
      /\ cursor[mb] <= run[w].start \/ cursor[mb] <= base[mb]
  BY <1>1 DEF SyncOK, Reading, Syncing
<1>5. ASSUME NEW m \in Messages PROVE MessageOK(mb, run'[w], pc'[w], sink[mb], m)
  BY <1>1, <1>2, <1>3, <1>4 DEF MessageOK, WindowEnd, ToStore, Reading
<1> QED  BY <1>1, <1>3, <1>4, <1>5 DEF NextOK, SyncOK, Reading

\* A message that is fetched is in Gmail; one that is skipped is not.
LEMMA FetchOK ==
  ASSUME CursorInv, NEW w \in Workers, NEW mb \in Mailboxes, Of(w) = mb,
         SyncOK(mb, run[w], pc[w], cursor[mb], base[mb], sink[mb]), Fetch(w)
  PROVE  NextOK(w, mb, cursor[mb], sink[mb])
<1>0. /\ pc \in [Workers -> PCs] /\ run \in [Workers -> Run] /\ run[w] \in Run
      /\ pc[w] = "ingest" /\ NoMessage \notin Messages
  BY SyncAssumption DEF CursorInv, RunsOK, Fetch
<1>1. PICK m \in run[w].adds :
        IF InMailbox(mb, m)
          THEN /\ pc'[w] = "persist"
               /\ run' = [run EXCEPT ![w] = [run[w] EXCEPT !.adds = run[w].adds \ {m}, !.fetched = m]]
          ELSE /\ pc'[w] = "ingest"
               /\ run' = [run EXCEPT ![w] = [run[w] EXCEPT !.adds = run[w].adds \ {m}]]
  BY <1>0 DEF Fetch, SetRun, Goto, Of
<1>2. Added(mb, m) <=> InMailbox(mb, m)
  BY DEF Added, InMailbox, LastChange
<1>3. /\ run'[w].mode = run[w].mode /\ run'[w].start = run[w].start
      /\ run'[w].next = run[w].next /\ run'[w].deletes = run[w].deletes
      /\ run'[w].adds = run[w].adds \ {m}
      /\ Added(mb, m) => run'[w].fetched = m
      /\ pc'[w] = IF Added(mb, m) THEN "persist" ELSE "ingest"
  <2>1. CASE InMailbox(mb, m)
    <3>1. run' = [run EXCEPT ![w] = [run[w] EXCEPT !.adds = run[w].adds \ {m}, !.fetched = m]]
      BY <1>1, <2>1
    <3> QED  BY <1>0, <1>1, <1>2, <2>1, <3>1 DEF Run
  <2>2. CASE ~InMailbox(mb, m)
    <3>1. run' = [run EXCEPT ![w] = [run[w] EXCEPT !.adds = run[w].adds \ {m}]]
      BY <1>1, <2>2
    <3> QED  BY <1>0, <1>1, <1>2, <2>2, <3>1 DEF Run
  <2> QED  BY <2>1, <2>2
<1>4. ASSUME NEW n \in Messages PROVE MessageOK(mb, run'[w], pc'[w], sink[mb], n)
  <2>1. MessageOK(mb, run[w], pc[w], sink[mb], n)
    BY DEF SyncOK
  <2>2. ~(Added(mb, n) /\ Deleted(mb, n))
    BY KindsDiffer
  <2>3. WindowEnd(run'[w]) = WindowEnd(run[w])
    BY <1>3 DEF WindowEnd
  <2> QED  BY <1>0, <1>3, <2>1, <2>2, <2>3 DEF MessageOK, ToStore, Reading
<1> QED  BY <1>0, <1>3, <1>4 DEF NextOK, SyncOK, Reading, Syncing

LEMMA ReplayOK ==
  ASSUME CursorInv, NEW w \in Workers, NEW mb \in Mailboxes, Of(w) = mb,
         SyncOK(mb, run[w], pc[w], cursor[mb], base[mb], sink[mb]), Replay(w)
  PROVE  NextOK(w, mb, cursor[mb], sink[mb])
<1>0. /\ pc \in [Workers -> PCs] /\ run \in [Workers -> Run] /\ run[w] \in Run
      /\ pc[w] = "ingest" /\ run[w].mode = "scan" /\ run[w].adds = {}
  BY DEF CursorInv, RunsOK, Replay
<1>1. pc'[w] = "history" /\ run' = [run EXCEPT ![w] = [run[w] EXCEPT !.mode = "replay"]]
  BY <1>0 DEF Replay, SetRun, Goto
<1>2. /\ run'[w].mode = "replay" /\ run'[w].start = run[w].start
      /\ run'[w].deletes = run[w].deletes
  BY <1>0, <1>1 DEF Run
<1>3. /\ run[w].deletes = {}
      /\ cursor[mb] <= run[w].start \/ cursor[mb] <= base[mb]
  BY <1>0 DEF SyncOK, Reading, Syncing
<1>4. ASSUME NEW m \in Messages PROVE MessageOK(mb, run'[w], pc'[w], sink[mb], m)
  <2>1. Added(mb, m) /\ LastChange(mb, m) <= run[w].start => m \in sink[mb]
    BY <1>0 DEF SyncOK, MessageOK, WindowEnd, ToStore, Reading
  <2> QED  BY <1>1, <1>2, <1>3, <2>1 DEF MessageOK, Reading
<1> QED  BY <1>1, <1>2, <1>3, <1>4 DEF NextOK, SyncOK, Reading

\* The sink is changed for the message, and the mailbox, at hand only.
LEMMA PersistOK ==
  ASSUME CursorInv, NEW w \in Workers, NEW mb \in Mailboxes, Of(w) = mb,
         SyncOK(mb, run[w], pc[w], cursor[mb], base[mb], sink[mb]), Persist(w)
  PROVE  /\ NextOK(w, mb, cursor[mb], sink'[mb])
         /\ sink'[mb] = sink[mb] \cup {run[w].fetched}
         /\ \A b \in Mailboxes : b # mb => sink'[b] = sink[b]
<1>0. /\ pc \in [Workers -> PCs] /\ run \in [Workers -> Run] /\ run[w] \in Run
      /\ pc[w] = "persist" /\ NoMessage \notin Messages
      /\ sink \in [Mailboxes -> SUBSET Messages]
  BY SyncAssumption DEF CursorInv, RunsOK, RowsOK, Persist
<1>1. /\ pc'[w] = "ingest" /\ run' = [run EXCEPT ![w] = [run[w] EXCEPT !.fetched = NoMessage]]
      /\ sink' = [sink EXCEPT ![mb] = sink[mb] \cup {run[w].fetched}]
  BY <1>0 DEF Persist, SetRun, Goto, Of
<1>2. /\ run'[w].mode = run[w].mode /\ run'[w].start = run[w].start
      /\ run'[w].next = run[w].next /\ run'[w].deletes = run[w].deletes
      /\ run'[w].adds = run[w].adds
  BY <1>0, <1>1 DEF Run
<1>3. /\ sink'[mb] = sink[mb] \cup {run[w].fetched}
      /\ \A b \in Mailboxes : b # mb => sink'[b] = sink[b]
  BY <1>0, <1>1
<1>4. ASSUME NEW m \in Messages PROVE MessageOK(mb, run'[w], pc'[w], sink'[mb], m)
  <2>1. MessageOK(mb, run[w], pc[w], sink[mb], m)
    BY DEF SyncOK
  <2>2. WindowEnd(run'[w]) = WindowEnd(run[w])
    BY <1>2 DEF WindowEnd
  <2>3. /\ run[w].next \in Int /\ run[w].start \in Int /\ LastChange(mb, m) \in Int
    BY Numbers
  <2>4. run[w].fetched = m /\ Deleted(mb, m) /\ run[w].mode # "scan"
          => ~(LastChange(mb, m) <= run[w].next)
    BY <1>0, <2>1, <2>3 DEF MessageOK, WindowEnd
  <2> QED  BY <1>0, <1>1, <1>2, <1>3, <2>1, <2>2, <2>4 DEF MessageOK, ToStore, Reading
<1>5. SyncOK(mb, run'[w], pc'[w], cursor[mb], base[mb], sink'[mb])
  BY <1>0, <1>1, <1>2, <1>4 DEF SyncOK, Reading, Syncing
<1> QED  BY <1>3, <1>5 DEF NextOK

LEMMA DeleteOK ==
  ASSUME CursorInv, NEW w \in Workers, NEW mb \in Mailboxes, Of(w) = mb,
         SyncOK(mb, run[w], pc[w], cursor[mb], base[mb], sink[mb]), Delete(w)
  PROVE  /\ NextOK(w, mb, cursor[mb], sink'[mb])
         /\ \E m \in run[w].deletes : sink'[mb] = sink[mb] \ {m}
         /\ \A b \in Mailboxes : b # mb => sink'[b] = sink[b]
<1>0. /\ pc \in [Workers -> PCs] /\ run \in [Workers -> Run] /\ run[w] \in Run
      /\ pc[w] = "ingest" /\ run[w].adds = {} /\ pc'[w] = "ingest"
      /\ sink \in [Mailboxes -> SUBSET Messages]
  BY DEF CursorInv, RunsOK, RowsOK, Delete
<1>1. PICK d \in run[w].deletes :
        /\ sink' = [sink EXCEPT ![mb] = sink[mb] \ {d}]
        /\ run' = [run EXCEPT ![w] = [run[w] EXCEPT !.deletes = run[w].deletes \ {d}]]
  BY <1>0 DEF Delete, SetRun, Of
<1>2. /\ run'[w].mode = run[w].mode /\ run'[w].start = run[w].start
      /\ run'[w].next = run[w].next /\ run'[w].deletes = run[w].deletes \ {d}
      /\ run'[w].adds = run[w].adds
  BY <1>0, <1>1 DEF Run
<1>3. /\ sink'[mb] = sink[mb] \ {d}
      /\ \A b \in Mailboxes : b # mb => sink'[b] = sink[b]
  BY <1>0, <1>1
<1>4. run[w].mode # "scan"
  BY <1>0, <1>1 DEF SyncOK, Syncing
<1>5. ASSUME NEW m \in Messages PROVE MessageOK(mb, run'[w], pc'[w], sink'[mb], m)
  <2>1. MessageOK(mb, run[w], pc[w], sink[mb], m)
    BY DEF SyncOK
  <2>2. /\ run[w].next \in Int /\ LastChange(mb, m) \in Int
    BY Numbers
  <2>3. m = d /\ Added(mb, m) => ~(LastChange(mb, m) <= run[w].next)
    BY <1>0, <1>1, <2>1, <2>2 DEF MessageOK, Reading
  <2> QED
    BY <1>0, <1>2, <1>3, <1>4, <2>1, <2>3 DEF MessageOK, ToStore, WindowEnd, Reading
<1>6. SyncOK(mb, run'[w], pc'[w], cursor[mb], base[mb], sink'[mb])
  BY <1>0, <1>2, <1>4, <1>5 DEF SyncOK, Reading, Syncing
<1> QED  BY <1>1, <1>3, <1>6 DEF NextOK

\* The cursor is committed when everything in the window is done.
LEMMA CommitOK ==
  ASSUME CursorInv, NEW w \in Workers, NEW mb \in Mailboxes, Of(w) = mb,
         SyncOK(mb, run[w], pc[w], cursor[mb], base[mb], sink[mb]), CommitCursor(w)
  PROVE  /\ NextOK(w, mb, cursor'[mb], sink[mb])
         /\ cursor'[mb] = Larger(cursor[mb], run[w].next)
         /\ rebuilt'[mb] = IF run[w].mode = "replay"
                             THEN Larger(rebuilt[mb], run[w].start) ELSE rebuilt[mb]
         /\ \A b \in Mailboxes : b # mb => cursor'[b] = cursor[b] /\ rebuilt'[b] = rebuilt[b]
<1>0. /\ pc \in [Workers -> PCs] /\ run \in [Workers -> Run] /\ run[w] \in Run
      /\ pc[w] = "ingest" /\ run[w].deletes = {} /\ run'[w] = run[w] /\ pc'[w] = "activate"
      /\ cursor \in [Mailboxes -> -1 .. MaxHistory] /\ rebuilt \in [Mailboxes -> 0 .. MaxHistory]
  BY DEF CursorInv, RunsOK, RowsOK, CommitCursor, Goto
<1>1. SyncOK(mb, run'[w], pc'[w], cursor'[mb], base[mb], sink[mb])
  BY <1>0 DEF SyncOK, MessageOK, Reading
<1>2. /\ cursor'[mb] = Larger(cursor[mb], run[w].next)
      /\ \A b \in Mailboxes : b # mb => cursor'[b] = cursor[b]
  BY <1>0 DEF CommitCursor, Advance, Of
<1>3. /\ rebuilt'[mb] = IF run[w].mode = "replay"
                          THEN Larger(rebuilt[mb], run[w].start) ELSE rebuilt[mb]
      /\ \A b \in Mailboxes : b # mb => rebuilt'[b] = rebuilt[b]
  BY <1>0 DEF CommitCursor, Of
<1> QED  BY <1>1, <1>2, <1>3 DEF NextOK

\* A worker that is not syncing keeps nothing of its mailbox.
LEMMA Indifferent ==
  ASSUME NEW mb, NEW r, NEW l, NEW c, NEW b, NEW S, NEW cc, NEW bb, NEW SS,
         SyncOK(mb, r, l, c, b, S), l \notin Syncing
  PROVE  SyncOK(mb, r, l, cc, bb, SS)
<1>1. l = "read" => r.deletes = {}
  BY DEF SyncOK, Reading, Syncing
<1> QED  BY <1>1, NotSyncing

\* What a worker's step changes: its own mailbox, while it syncs.
LEMMA WorkFrame ==
  ASSUME CursorInv, NEW w \in Workers, Acts(w)
  PROVE  /\ UNCHANGED <<history, base>>
         /\ \/ UNCHANGED <<cursor, rebuilt, sink>>
            \/ Persist(w) \/ Delete(w) \/ CommitCursor(w)
BY DEF Acts, Work, SyncRaises, Die, Claim, ReadMailbox, ListHistory, HistoryGone,
   MarkJob, MarkMailbox, TakeCheckpoint, Scan, Fetch, Persist, Replay, Delete,
   CommitCursor, SetActive, Complete, ReadSuccessor, FailWrite, FailRaises, SetError,
   mailVars, rowVars, syncVars

\* The run of the worker that acts, in the mailbox it then has.
LEMMA ActorOK ==
  ASSUME CursorInv, SinkInv, NEW w \in Workers, Acts(w),
         NEW mb \in Mailboxes, run'[w].mailbox = mb
  PROVE  NextOK(w, mb, cursor'[mb], sink'[mb])
<1>0. /\ pc \in [Workers -> PCs] /\ run \in [Workers -> Run]
      /\ Of(w) = mb => SyncOK(mb, run[w], pc[w], cursor[mb], base[mb], sink[mb])
  BY DEF CursorInv, RunsOK, SinkInv, RunOK
<1>1. CASE SyncStep(w)
  <2>1. Of(w) = mb
    BY <1>1, SyncStepStays DEF Of
  <2>2. SyncOK(mb, run[w], pc[w], cursor[mb], base[mb], sink[mb])
    BY <1>0, <2>1
  <2>3. CASE Persist(w)
    <3>1. cursor' = cursor
      BY <2>3 DEF Persist, rowVars
    <3> QED  BY <2>1, <2>2, <2>3, <3>1, PersistOK
  <2>4. CASE Delete(w)
    <3>1. cursor' = cursor
      BY <2>4 DEF Delete, rowVars
    <3> QED  BY <2>1, <2>2, <2>4, <3>1, DeleteOK
  <2>5. CASE CommitCursor(w)
    <3>1. sink' = sink
      BY <2>5 DEF CommitCursor
    <3> QED  BY <2>1, <2>2, <2>5, <3>1, CommitOK
  <2>6. CASE ~(Persist(w) \/ Delete(w) \/ CommitCursor(w))
    <3>1. cursor' = cursor /\ sink' = sink
      BY <2>6, WorkFrame
    <3>2. \/ ReadMailbox(w) \/ ListHistory(w) \/ HistoryGone(w) \/ MarkJob(w)
          \/ MarkMailbox(w) \/ TakeCheckpoint(w) \/ Scan(w) \/ Fetch(w) \/ Replay(w)
      BY <1>1, <2>6 DEF SyncStep
    <3>3. NextOK(w, mb, cursor[mb], sink[mb])
      BY <2>1, <2>2, <3>2, ReadOK, ListOK, GoneOK, MarksOK, CheckpointOK, ScanOK, FetchOK,
         ReplayOK
    <3> QED  BY <3>1, <3>3
  <2> QED  BY <2>3, <2>4, <2>5, <2>6
<1>2. CASE Claim(w)
  <2>1. pc'[w] = "read" /\ run'[w].deletes = {}
    BY <1>0, <1>2 DEF Claim, SetRun, Goto, NewRun
  <2> QED  BY <2>1, NotSyncing DEF NextOK, Syncing
<1>3. CASE \/ SetActive(w) \/ Complete(w) \/ SyncRaises(w) \/ Die(w)
           \/ ReadSuccessor(w) \/ FailWrite(w) \/ FailRaises(w) \/ SetError(w)
  <2>1. pc'[w] \in {"idle", "complete", "fail", "error"}
    BY <1>0, <1>3 DEF SetActive, Complete, SyncRaises, Die, ReadSuccessor, FailWrite,
       FailRaises, SetError, Goto, syncVars
  <2>2. pc'[w] \notin {"read"} \cup Syncing
    BY <2>1 DEF Syncing
  <2> QED  BY <2>2, NotSyncing DEF NextOK
<1> QED  BY <1>1, <1>2, <1>3 DEF Acts, Work, SyncStep

\* The runs of the others: the worker that acts has its mailbox to itself.
LEMMA OthersOK ==
  ASSUME CursorInv, SinkInv, Apart, NEW w \in Workers, Acts(w),
         NEW v \in Workers, v # w, Rests(v), NEW mb \in Mailboxes, Of(v) = mb
  PROVE  NextOK(v, mb, cursor'[mb], sink'[mb])
<1>1. SyncOK(mb, run[v], pc[v], cursor[mb], base[mb], sink[mb])
  BY DEF SinkInv, RunOK
<1>2. run'[v] = run[v] /\ pc'[v] = pc[v]
  BY DEF Rests
<1>3. CASE UNCHANGED <<cursor, sink>>
  BY <1>1, <1>2, <1>3 DEF NextOK
<1>4. CASE Persist(w) \/ Delete(w) \/ CommitCursor(w)
  <2>1. pc[w] \in Syncing /\ Of(w) \in Mailboxes
    <3>1. pc[w] \in {"ingest", "persist"}
      BY <1>4 DEF Persist, Delete, CommitCursor
    <3> QED  BY <3>1 DEF CursorInv, RunsOK, LocalOK, Busy, Syncing, Of
  <2>2. CASE Of(w) = mb
    <3>1. pc[v] \notin Syncing
      BY <2>1, <2>2 DEF Apart
    <3> QED  BY <1>1, <1>2, <3>1, Indifferent DEF NextOK
  <2>3. CASE Of(w) # mb
    <3>1. SyncOK(Of(w), run[w], pc[w], cursor[Of(w)], base[Of(w)], sink[Of(w)])
      BY <2>1 DEF SinkInv, RunOK
    <3>2. CASE Persist(w)
      <4>1. sink'[mb] = sink[mb] /\ cursor' = cursor
        BY <2>1, <2>3, <3>1, <3>2, PersistOK DEF Persist, rowVars
      <4> QED  BY <1>1, <1>2, <4>1 DEF NextOK
    <3>3. CASE Delete(w)
      <4>1. sink'[mb] = sink[mb] /\ cursor' = cursor
        BY <2>1, <2>3, <3>1, <3>3, DeleteOK DEF Delete, rowVars
      <4> QED  BY <1>1, <1>2, <4>1 DEF NextOK
    <3>4. CASE CommitCursor(w)
      <4>1. cursor'[mb] = cursor[mb] /\ sink' = sink
        BY <2>1, <2>3, <3>1, <3>4, CommitOK DEF CommitCursor
      <4> QED  BY <1>1, <1>2, <4>1 DEF NextOK
    <3> QED  BY <1>4, <3>2, <3>3, <3>4
  <2> QED  BY <2>2, <2>3
<1> QED  BY <1>3, <1>4, WorkFrame

-----------------------------------------------------------------------------
(* What is stored, through the steps of a run.                             *)

LEMMA Largest ==
  ASSUME NEW a \in Int, NEW b \in Int
  PROVE  Larger(a, b) \in Int /\ a <= Larger(a, b) /\ b <= Larger(a, b)
         /\ (Larger(a, b) = a \/ Larger(a, b) = b)
BY DEF Larger

\* Fetched behind the cursor, a message is not one whose deletion is.
LEMMA PersistMail ==
  ASSUME CursorInv, NEW w \in Workers, NEW mb \in Mailboxes, Of(w) = mb, NEW m \in Messages,
         SyncOK(mb, run[w], pc[w], cursor[mb], base[mb], sink[mb]), Persist(w),
         MailOK(mb, m, cursor[mb], base[mb], rebuilt[mb], sink[mb])
  PROVE  MailOK(mb, m, cursor[mb], base[mb], rebuilt[mb], sink'[mb])
<1>1. sink'[mb] = sink[mb] \cup {run[w].fetched} /\ pc[w] = "persist"
  BY PersistOK DEF Persist
<1>2. /\ run[w].start \in Int /\ run[w].next \in Int /\ LastChange(mb, m) \in Int
      /\ cursor[mb] \in Int /\ base[mb] \in Int /\ rebuilt[mb] \in Int
      /\ run[w].mode \in {"delta", "scan", "replay"}
  BY Numbers DEF Run
<1>3. Larger(base[mb], rebuilt[mb]) \in Int /\ base[mb] <= Larger(base[mb], rebuilt[mb])
  BY <1>2, Largest
<1>4. ASSUME run[w].fetched = m, Deleted(mb, m), base[mb] < LastChange(mb, m)
      PROVE  ~(LastChange(mb, m) <= cursor[mb])
  <2>1. WindowEnd(run[w]) < LastChange(mb, m)
    BY <1>1, <1>4 DEF SyncOK, MessageOK
  <2>2. /\ run[w].mode = "delta" => run[w].start = cursor[mb]
        /\ run[w].mode # "delta" => cursor[mb] <= run[w].start \/ cursor[mb] <= base[mb]
        /\ run[w].mode # "scan" => run[w].start <= run[w].next
    BY <1>1 DEF SyncOK, Reading
  <2>3. CASE run[w].mode = "scan"
    BY <1>2, <1>4, <2>1, <2>2, <2>3 DEF WindowEnd
  <2>4. CASE run[w].mode # "scan"
    BY <1>2, <1>4, <2>1, <2>2, <2>4 DEF WindowEnd
  <2> QED  BY <2>3, <2>4
<1> HIDE DEF Larger
<1> QED  BY <1>1, <1>2, <1>3, <1>4 DEF MailOK

\* Deleted by a run, a message is not one that is back behind the cursor.
LEMMA DeleteMail ==
  ASSUME CursorInv, NEW w \in Workers, NEW mb \in Mailboxes, Of(w) = mb, NEW m \in Messages,
         SyncOK(mb, run[w], pc[w], cursor[mb], base[mb], sink[mb]), Delete(w),
         MailOK(mb, m, cursor[mb], base[mb], rebuilt[mb], sink[mb])
  PROVE  MailOK(mb, m, cursor[mb], base[mb], rebuilt[mb], sink'[mb])
<1>1. PICK d \in run[w].deletes : sink'[mb] = sink[mb] \ {d}
  BY DeleteOK
<1>2. /\ run[w].start \in Int /\ run[w].next \in Int /\ LastChange(mb, m) \in Int
      /\ cursor[mb] \in Int /\ base[mb] \in Int /\ pc[w] = "ingest"
  BY Numbers DEF Delete
<1>3. ASSUME m = d, Added(mb, m), base[mb] < LastChange(mb, m)
      PROVE  ~(LastChange(mb, m) <= cursor[mb])
  <2>1. run[w].next < LastChange(mb, m)
    BY <1>1, <1>2, <1>3 DEF SyncOK, MessageOK, Reading
  <2>2. run[w].mode # "scan"
    BY <1>1, <1>2 DEF SyncOK, Syncing
  <2>3. /\ run[w].mode = "delta" => run[w].start = cursor[mb]
        /\ run[w].mode # "delta" => cursor[mb] <= run[w].start \/ cursor[mb] <= base[mb]
        /\ run[w].start <= run[w].next
    BY <1>2, <2>2 DEF SyncOK, Reading
  <2> QED  BY <1>2, <1>3, <2>1, <2>3
<1> HIDE DEF Larger
<1> QED  BY <1>1, <1>3 DEF MailOK

\* The window that the cursor is moved over has been stored.
LEMMA CommitMail ==
  ASSUME CursorInv, NEW w \in Workers, NEW mb \in Mailboxes, Of(w) = mb, NEW m \in Messages,
         SyncOK(mb, run[w], pc[w], cursor[mb], base[mb], sink[mb]), CommitCursor(w),
         MailOK(mb, m, cursor[mb], base[mb], rebuilt[mb], sink[mb])
  PROVE  MailOK(mb, m, cursor'[mb], base[mb], rebuilt'[mb], sink[mb])
<1> DEFINE l == LastChange(mb, m)
           b == base[mb]
           n == rebuilt[mb]
           c == cursor[mb]
           r == run[w]
<1>1. /\ cursor'[mb] = Larger(c, r.next)
      /\ rebuilt'[mb] = IF r.mode = "replay" THEN Larger(n, r.start) ELSE n
      /\ pc[w] = "ingest" /\ r.adds = {} /\ r.deletes = {} /\ r.mode # "scan"
  BY CommitOK DEF CommitCursor
<1>2. /\ r.start \in Int /\ r.next \in Int /\ l \in Int /\ c \in Int /\ b \in Int /\ n \in Int
      /\ r.mode \in {"delta", "scan", "replay"}
  BY Numbers DEF Run
<1>3. /\ r.mode = "delta" => r.start = c
      /\ MessageOK(mb, r, "ingest", sink[mb], m)
  BY <1>1 DEF SyncOK, Reading
<1>4. cursor'[mb] = c \/ cursor'[mb] = r.next
  BY <1>1, <1>2, Largest
<1>5. rebuilt'[mb] \in Int /\ n <= rebuilt'[mb] /\ (r.mode = "replay" => r.start <= rebuilt'[mb])
  <2>1. /\ Larger(n, r.start) \in Int
        /\ n <= Larger(n, r.start) /\ r.start <= Larger(n, r.start) /\ n <= n
    BY <1>2, Largest
  <2> HIDE DEF n, r
  <2> QED  BY <1>1, <1>2, <2>1
<1>6. /\ b <= Larger(b, rebuilt'[mb]) /\ rebuilt'[mb] <= Larger(b, rebuilt'[mb])
      /\ Larger(b, rebuilt'[mb]) \in Int /\ Larger(b, n) \in Int
      /\ (Larger(b, n) = b \/ Larger(b, n) = n)
  <2>1. PICK k \in Int : k = rebuilt'[mb]
    BY <1>5
  <2> HIDE DEF b, n
  <2> QED  BY <1>2, <2>1, Largest
<1>7. ASSUME Added(mb, m), b < l, l <= cursor'[mb]
      PROVE  m \in sink[mb]
  <2>1. CASE l <= c
    BY <1>7, <2>1 DEF MailOK
  <2>2. CASE ~(l <= c)
    <3>1. l <= r.next /\ c < l
      BY <1>2, <1>4, <1>7, <2>2
    <3>2. WindowEnd(r) = r.next
      BY <1>1 DEF WindowEnd
    <3> QED  BY <1>1, <1>3, <1>7, <3>1, <3>2 DEF MessageOK, ToStore, Reading
  <2> QED  BY <2>1, <2>2
<1>8. ASSUME Deleted(mb, m), Larger(b, rebuilt'[mb]) < l, l <= cursor'[mb]
      PROVE  m \notin sink[mb]
  <2>1. CASE l <= c
    <3>1. Larger(b, n) < l
      BY <1>2, <1>5, <1>6, <1>8
    <3> QED  BY <1>8, <2>1, <3>1 DEF MailOK
  <2>2. CASE ~(l <= c)
    <3>1. l <= r.next /\ c < l
      BY <1>2, <1>4, <1>8, <2>2
    <3>2. r.start < l
      BY <1>1, <1>2, <1>3, <1>5, <1>6, <1>8, <3>1
    <3> QED  BY <1>1, <1>3, <1>8, <3>1, <3>2 DEF MessageOK, Reading
  <2> QED  BY <2>1, <2>2
<1> QED  BY <1>7, <1>8 DEF MailOK

LEMMA WorkMail ==
  ASSUME CursorInv, SinkInv, NEW w \in Workers, Acts(w), NEW mb \in Mailboxes, NEW m \in Messages
  PROVE  MailOK(mb, m, cursor'[mb], base[mb], rebuilt'[mb], sink'[mb])
<1>1. MailOK(mb, m, cursor[mb], base[mb], rebuilt[mb], sink[mb])
  BY DEF SinkInv
<1>2. CASE UNCHANGED <<cursor, rebuilt, sink>>
  BY <1>1, <1>2
<1>3. CASE Persist(w) \/ Delete(w) \/ CommitCursor(w)
  <2>1. Of(w) \in Mailboxes
    <3>1. pc[w] \in {"ingest", "persist"}
      BY <1>3 DEF Persist, Delete, CommitCursor
    <3> QED  BY <3>1 DEF CursorInv, RunsOK, LocalOK, Busy, Syncing, Of
  <2>2. SyncOK(Of(w), run[w], pc[w], cursor[Of(w)], base[Of(w)], sink[Of(w)])
    BY <2>1 DEF SinkInv, RunOK
  <2>3. CASE Persist(w)
    <3>1. cursor' = cursor /\ rebuilt' = rebuilt
      BY <2>3 DEF Persist, rowVars
    <3>2. CASE Of(w) = mb
      <4>1. MailOK(mb, m, cursor[mb], base[mb], rebuilt[mb], sink'[mb])
        BY <1>1, <2>2, <2>3, <3>2, PersistMail
      <4> QED  BY <3>1, <4>1
    <3>3. CASE Of(w) # mb
      <4>1. sink'[mb] = sink[mb]
        BY <2>1, <2>2, <2>3, <3>3, PersistOK
      <4> QED  BY <1>1, <3>1, <4>1
    <3> QED  BY <3>2, <3>3
  <2>4. CASE Delete(w)
    <3>1. cursor' = cursor /\ rebuilt' = rebuilt
      BY <2>4 DEF Delete, rowVars
    <3>2. CASE Of(w) = mb
      <4>1. MailOK(mb, m, cursor[mb], base[mb], rebuilt[mb], sink'[mb])
        BY <1>1, <2>2, <2>4, <3>2, DeleteMail
      <4> QED  BY <3>1, <4>1
    <3>3. CASE Of(w) # mb
      <4>1. sink'[mb] = sink[mb]
        BY <2>1, <2>2, <2>4, <3>3, DeleteOK
      <4> QED  BY <1>1, <3>1, <4>1
    <3> QED  BY <3>2, <3>3
  <2>5. CASE CommitCursor(w)
    <3>1. sink' = sink
      BY <2>5 DEF CommitCursor
    <3>2. CASE Of(w) = mb
      <4>1. MailOK(mb, m, cursor'[mb], base[mb], rebuilt'[mb], sink[mb])
        BY <1>1, <2>2, <2>5, <3>2, CommitMail
      <4> QED  BY <3>1, <4>1
    <3>3. CASE Of(w) # mb
      <4>1. cursor'[mb] = cursor[mb] /\ rebuilt'[mb] = rebuilt[mb]
        BY <2>1, <2>2, <2>5, <3>3, CommitOK
      <4> QED  BY <1>1, <3>1, <4>1
    <3> QED  BY <3>2, <3>3
  <2> QED  BY <1>3, <2>3, <2>4, <2>5
<1> QED  BY <1>2, <1>3, WorkFrame

\* While Gmail logs nothing, the invariant of the next state can be read here.
LEMMA Carry ==
  ASSUME UNCHANGED history, NEW mb, NEW w,
         SyncOK(mb, run'[w], pc'[w], cursor'[mb], base'[mb], sink'[mb])
  PROVE  SyncOK(mb, run[w], pc[w], cursor[mb], base[mb], sink[mb])'
<1>1. ASSUME NEW m \in Messages PROVE MessageOK(mb, run[w], pc[w], sink[mb], m)'
  <2>1. SameLast(mb, m)
    BY HistoryKept
  <2>2. MessageOK(mb, run'[w], pc'[w], sink'[mb], m)
    BY DEF SyncOK
  <2> QED  BY <2>1, <2>2 DEF SameLast, MessageOK, WindowEnd, ToStore, Reading
<1> QED  BY <1>1 DEF SyncOK, Reading

LEMMA CarryMail ==
  ASSUME UNCHANGED history, NEW mb, NEW m,
         MailOK(mb, m, cursor'[mb], base'[mb], rebuilt'[mb], sink'[mb])
  PROVE  MailOK(mb, m, cursor[mb], base[mb], rebuilt[mb], sink[mb])'
<1>1. SameLast(mb, m)
  BY HistoryKept
<1> QED  BY <1>1 DEF SameLast, MailOK, Larger

\* A change that Gmail logs is ahead of every window and of the cursor.
LEMMA ChangeOK ==
  ASSUME CursorInv, NEW b \in Mailboxes, NEW d \in Messages, GmailChange(b, d),
         NEW w \in Workers, NEW mb \in Mailboxes, Of(w) = mb,
         SyncOK(mb, run[w], pc[w], cursor[mb], base[mb], sink[mb])
  PROVE  SyncOK(mb, run[w], pc[w], cursor[mb], base[mb], sink[mb])'
<1>1. UNCHANGED <<run, pc, cursor, base, sink>> /\ RowsOK
  BY DEF CursorInv, GmailChange, rowVars
<1>2. ASSUME NEW m \in Messages PROVE MessageOK(mb, run[w], pc[w], sink[mb], m)'
  <2>1. MessageOK(mb, run[w], pc[w], sink[mb], m)
    BY DEF SyncOK
  <2>2. CASE SameLast(mb, m)
    BY <1>1, <2>1, <2>2 DEF SameLast, MessageOK, WindowEnd, ToStore, Reading
  <2>3. CASE LastChange(mb, m)' \in Nat /\ Now(mb) < LastChange(mb, m)'
    <3>1. /\ Now(mb) \in Nat /\ run[w].start \in Int /\ run[w].next \in Int
          /\ run[w].start <= Now(mb) /\ run[w].next <= Now(mb)
      BY Numbers
    <3>2. /\ ~(LastChange(mb, m)' <= run[w].start) /\ run[w].start < LastChange(mb, m)'
          /\ ~(LastChange(mb, m)' <= run[w].next) /\ run[w].next < LastChange(mb, m)'
      BY <2>3, <3>1
    <3> QED  BY <1>1, <3>2 DEF MessageOK, WindowEnd, Reading
  <2> QED  BY <1>1, <2>2, <2>3, ChangeIsLast
<1> QED  BY <1>1, <1>2 DEF SyncOK, Reading

LEMMA ChangeMail ==
  ASSUME CursorInv, NEW b \in Mailboxes, NEW d \in Messages, GmailChange(b, d),
         NEW mb \in Mailboxes, NEW m \in Messages,
         MailOK(mb, m, cursor[mb], base[mb], rebuilt[mb], sink[mb])
  PROVE  MailOK(mb, m, cursor[mb], base[mb], rebuilt[mb], sink[mb])'
<1>1. UNCHANGED <<cursor, base, rebuilt, sink>> /\ RowsOK
  BY DEF CursorInv, GmailChange, rowVars
<1>2. CASE SameLast(mb, m)
  BY <1>1, <1>2 DEF SameLast, MailOK, Larger
<1>3. CASE LastChange(mb, m)' \in Nat /\ Now(mb) < LastChange(mb, m)'
  <2>1. cursor[mb] \in Int /\ Now(mb) \in Nat /\ cursor[mb] <= Now(mb)
    <3>1. cursor[mb] \in -1 .. MaxHistory /\ Now(mb) \in 0 .. MaxHistory /\ cursor[mb] <= Now(mb)
      BY <1>1 DEF RowsOK
    <3> QED  BY <3>1
  <2>2. ~(LastChange(mb, m)' <= cursor[mb])
    BY <1>3, <2>1
  <2> QED  BY <1>1, <2>2 DEF MailOK
<1> QED  BY <1>1, <1>2, <1>3, ChangeIsLast

\* The seed of a cursor leaves nothing between itself and the cursor; a run
\* that is under way is a full sync.
LEMMA SeedOK ==
  ASSUME CursorInv, NEW b \in Mailboxes, ActivateWatch(b), NEW mb \in Mailboxes
  PROVE  /\ \A w \in Workers :
              Of(w) = mb /\ SyncOK(mb, run[w], pc[w], cursor[mb], base[mb], sink[mb])
                => SyncOK(mb, run[w], pc[w], cursor'[mb], base'[mb], sink[mb])
         /\ \A m \in Messages : MailOK(mb, m, cursor[mb], base[mb], rebuilt[mb], sink[mb])
              => MailOK(mb, m, cursor'[mb], base'[mb], rebuilt[mb], sink[mb])
<1>1. /\ cursor \in [Mailboxes -> -1 .. MaxHistory] /\ base \in [Mailboxes -> 0 .. MaxHistory]
      /\ rebuilt \in [Mailboxes -> 0 .. MaxHistory]
      /\ watch \in [Mailboxes -> -2 .. MaxHistory] /\ MaxHistory \in Nat /\ watch[b] >= 0
  BY QueueAssumption DEF CursorInv, RowsOK, ActivateWatch
<1>2. CASE cursor'[mb] = cursor[mb] /\ base'[mb] = base[mb]
  BY <1>2
<1>3. CASE ~(cursor'[mb] = cursor[mb] /\ base'[mb] = base[mb])
  <2>1. /\ cursor[mb] = NoCursor /\ cursor'[mb] = watch[b] /\ base'[mb] = watch[b]
    BY <1>1, <1>3 DEF ActivateWatch
  <2>2. watch[b] \in Int /\ watch[b] <= watch[b] /\ ~(NoCursor >= 0)
        /\ rebuilt[mb] \in Int
    BY <1>1 DEF NoCursor
  <2>3. ASSUME NEW w \in Workers, Of(w) = mb,
               SyncOK(mb, run[w], pc[w], cursor[mb], base[mb], sink[mb])
        PROVE  SyncOK(mb, run[w], pc[w], watch[b], watch[b], sink[mb])
    <3>1. ~(pc[w] \in {"history"} \cup Reading /\ run[w].mode = "delta")
      BY <2>1, <2>2, <2>3 DEF SyncOK
    <3> QED  BY <2>2, <2>3, <3>1 DEF SyncOK
  <2>4. ASSUME NEW m \in Messages
        PROVE  MailOK(mb, m, watch[b], watch[b], rebuilt[mb], sink[mb])
    <3>1. LastChange(mb, m) \in Nat
      BY LastAgrees DEF CursorInv
    <3>2. Larger(watch[b], rebuilt[mb]) \in Int /\ watch[b] <= Larger(watch[b], rebuilt[mb])
      BY <2>2, Largest
    <3>3. /\ ~(watch[b] < LastChange(mb, m) /\ LastChange(mb, m) <= watch[b])
          /\ ~(Larger(watch[b], rebuilt[mb]) < LastChange(mb, m)
               /\ LastChange(mb, m) <= watch[b])
      BY <2>2, <3>1, <3>2
    <3> QED  BY <3>3 DEF MailOK
  <2> QED  BY <2>1, <2>3, <2>4
<1> QED  BY <1>2, <1>3

\* The steps of nobody's run.
World(mb) == Gmail(mb) \/ Connection(mb)

LEMMA WorldStep ==
  ASSUME CursorInv, SinkInv, NEW b \in Mailboxes, World(b)
  PROVE  SinkInv'
<1>0. UNCHANGED <<pc, run, rebuilt, sink>>
  BY DEF World, Gmail, GmailChange, GmailForgets, Notify, Connection, CallWatch,
     ActivateWatch, rowVars, syncVars
<1>1. ASSUME NEW w \in Workers, NEW mb \in Mailboxes, Of(w) = mb
      PROVE  SyncOK(mb, run[w], pc[w], cursor[mb], base[mb], sink[mb])'
  <2>1. SyncOK(mb, run[w], pc[w], cursor[mb], base[mb], sink[mb])
    BY <1>1 DEF SinkInv, RunOK
  <2>2. ASSUME NEW d \in Messages, GmailChange(b, d)
        PROVE  SyncOK(mb, run[w], pc[w], cursor[mb], base[mb], sink[mb])'
    BY <1>1, <2>1, <2>2, ChangeOK
  <2>3. CASE GmailForgets(b) \/ CallWatch(b) \/ \E h \in HistoryIds : Notify(b, h)
    <3>1. UNCHANGED <<history, cursor, base>>
      BY <2>3 DEF GmailForgets, CallWatch, Notify, mailVars, rowVars, syncVars
    <3> QED  BY <1>0, <2>1, <3>1, Carry
  <2>4. CASE ActivateWatch(b)
    <3>1. UNCHANGED history
      BY <2>4 DEF ActivateWatch, mailVars
    <3>2. SyncOK(mb, run[w], pc[w], cursor'[mb], base'[mb], sink[mb])
      BY <1>1, <2>1, <2>4, SeedOK
    <3> QED  BY <1>0, <3>1, <3>2, Carry
  <2> QED  BY <2>2, <2>3, <2>4 DEF World, Gmail, Connection
<1>2. ASSUME NEW mb \in Mailboxes, NEW m \in Messages
      PROVE  MailOK(mb, m, cursor[mb], base[mb], rebuilt[mb], sink[mb])'
  <2>1. MailOK(mb, m, cursor[mb], base[mb], rebuilt[mb], sink[mb])
    BY DEF SinkInv
  <2>2. ASSUME NEW d \in Messages, GmailChange(b, d)
        PROVE  MailOK(mb, m, cursor[mb], base[mb], rebuilt[mb], sink[mb])'
    BY <2>1, <2>2, ChangeMail
  <2>3. CASE GmailForgets(b) \/ CallWatch(b) \/ \E h \in HistoryIds : Notify(b, h)
    <3>1. UNCHANGED <<history, cursor, base>>
      BY <2>3 DEF GmailForgets, CallWatch, Notify, mailVars, rowVars, syncVars
    <3> QED  BY <1>0, <2>1, <3>1, CarryMail
  <2>4. CASE ActivateWatch(b)
    <3>1. UNCHANGED history
      BY <2>4 DEF ActivateWatch, mailVars
    <3>2. MailOK(mb, m, cursor'[mb], base'[mb], rebuilt[mb], sink[mb])
      BY <2>1, <2>4, SeedOK
    <3> QED  BY <1>0, <3>1, <3>2, CarryMail
  <2> QED  BY <2>2, <2>3, <2>4 DEF World, Gmail, Connection
<1>3. \A w \in Workers : Of(w)' = Of(w)
  BY <1>0 DEF Of
<1> QED  BY <1>1, <1>2, <1>3 DEF SinkInv, RunOK

LEMMA WorkStep ==
  ASSUME CursorInv, SinkInv, Apart, [Next]_vars, NEW w \in Workers, Acts(w),
         \A v \in Workers : v # w => Rests(v)
  PROVE  SinkInv'
<1>0. UNCHANGED <<history, base>>
  BY WorkFrame
<1>1. ASSUME NEW v \in Workers, NEW mb \in Mailboxes, run'[v].mailbox = mb
      PROVE  SyncOK(mb, run[v], pc[v], cursor[mb], base[mb], sink[mb])'
  <2>1. NextOK(v, mb, cursor'[mb], sink'[mb])
    <3>1. CASE v = w
      BY <1>1, <3>1, ActorOK
    <3>2. CASE v # w
      <4>1. Rests(v) /\ Of(v) = mb
        BY <1>1, <3>2 DEF Rests, Of
      <4> QED  BY <3>2, <4>1, OthersOK
    <3> QED  BY <3>1, <3>2
  <2>2. SyncOK(mb, run'[v], pc'[v], cursor'[mb], base'[mb], sink'[mb])
    BY <1>0, <2>1 DEF NextOK
  <2> QED  BY <1>0, <2>2, Carry
<1>2. ASSUME NEW mb \in Mailboxes, NEW m \in Messages
      PROVE  MailOK(mb, m, cursor[mb], base[mb], rebuilt[mb], sink[mb])'
  <2>1. MailOK(mb, m, cursor'[mb], base'[mb], rebuilt'[mb], sink'[mb])
    BY <1>0, WorkMail
  <2> QED  BY <1>0, <2>1, CarryMail
<1> QED  BY <1>1, <1>2 DEF SinkInv, RunOK, Of

LEMMA SinkInvStep ==
  ASSUME CursorInv, SinkInv, Apart, [Next]_vars
  PROVE  SinkInv'
<1>1. CASE \E b \in Mailboxes : World(b)
  BY <1>1, WorldStep
<1>2. ASSUME NEW w \in Workers, Acts(w) PROVE SinkInv'
  <2>1. \A v \in Workers : v # w => Rests(v)
    BY <1>2, OneActor
  <2> QED  BY <1>2, <2>1, WorkStep
<1>3. CASE UNCHANGED syncVars
  <2>1. UNCHANGED <<history, run, pc, cursor, base, rebuilt, sink>>
    BY <1>3 DEF syncVars
  <2>2. ASSUME NEW w \in Workers, NEW mb \in Mailboxes, Of(w) = mb
        PROVE  SyncOK(mb, run[w], pc[w], cursor[mb], base[mb], sink[mb])'
    <3>1. SyncOK(mb, run[w], pc[w], cursor[mb], base[mb], sink[mb])
      BY <2>2 DEF SinkInv, RunOK
    <3> QED  BY <2>1, <3>1, Carry
  <2>3. ASSUME NEW mb \in Mailboxes, NEW m \in Messages
        PROVE  MailOK(mb, m, cursor[mb], base[mb], rebuilt[mb], sink[mb])'
    <3>1. MailOK(mb, m, cursor[mb], base[mb], rebuilt[mb], sink[mb])
      BY DEF SinkInv
    <3> QED  BY <2>1, <3>1, CarryMail
  <2>4. \A w \in Workers : Of(w)' = Of(w)
    BY <2>1 DEF Of
  <2> QED  BY <2>2, <2>3, <2>4 DEF SinkInv, RunOK
<1>4. ASSUME NEW j \in JobIds, Lapse(j) \/ Overrun(j) PROVE UNCHANGED syncVars
  BY <1>4 DEF Lapse, Overrun
<1>5. UNCHANGED vars => UNCHANGED syncVars
  BY DEF vars
<1> QED  BY <1>1, <1>2, <1>3, <1>4, <1>5 DEF Next, World, Acts

LEMMA SinkInvInit == Init => SinkInv
<1> SUFFICES ASSUME Init PROVE SinkInv
  OBVIOUS
<1>1. ASSUME NEW w \in Workers PROVE RunOK(w)
  <2>1. pc[w] \notin {"read"} \cup Syncing
    BY DEF Init, Syncing
  <2> QED  BY <2>1, NotSyncing DEF RunOK
<1>2. ASSUME NEW mb \in Mailboxes, NEW m \in Messages
      PROVE  MailOK(mb, m, cursor[mb], base[mb], rebuilt[mb], sink[mb])
  <2>1. LastChange(mb, m) \in Nat
    BY CursorInvInit, LastAgrees DEF CursorInv
  <2>2. Len(Prior) \in Nat
    BY SyncAssumption
  <2>3. sink[mb] = {} /\ (cursor[mb] = base[mb] \/ cursor[mb] = NoCursor) /\ base[mb] \in Nat
    BY <2>2 DEF Init
  <2>4. ~(base[mb] < LastChange(mb, m) /\ LastChange(mb, m) <= cursor[mb])
    BY <2>1, <2>3 DEF NoCursor
  <2> QED  BY <2>3, <2>4 DEF MailOK
<1> QED  BY <1>1, <1>2 DEF SinkInv

LEMMA StoreHolds == Spec /\ []Apart => []SinkInv
<1>1. CursorInv /\ SinkInv /\ Apart /\ [Next]_vars => SinkInv'
  BY SinkInvStep
<1> QED  BY <1>1, CursorInvInit, CursorInvStep, SinkInvInit, PTL DEF Spec

\* The cursor never passes a message that is not stored ("advances only after
\* every change in the run has been persisted"), whatever Gmail logs or
\* forgets, and wherever a run fails, dies, is retried or becomes a full sync,
\* as long as no two runs sync a mailbox at once.
THEOREM ArrivalsStoredCorrect == Spec /\ []Apart => []ArrivalsStored
BY SinkInvMeans, StoreHolds, PTL

\* The cursor never passes a deletion that is not applied, except one that a
\* full sync or the seed of activate_watch jumped over, as long as no two runs
\* sync a mailbox at once.
THEOREM DeletionsAppliedCorrect == Spec /\ []Apart => []DeletionsApplied
BY SinkInvMeans, StoreHolds, PTL

\* A deployment with one gmail-worker process needs no such condition, even
\* when its leases lapse: both hold in every behaviour.
THEOREM OneWorkerStores ==
  ASSUME \A v, w \in Workers : v = w
  PROVE  Spec => [](ArrivalsStored /\ DeletionsApplied)
<1>1. Apart
  BY DEF Apart
<1> QED  BY <1>1, SinkInvMeans, StoreHolds, PTL
=============================================================================
