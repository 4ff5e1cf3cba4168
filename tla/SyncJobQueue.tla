--------------------------- MODULE SyncJobQueue ---------------------------
(***************************************************************************)
(* The durable queue of Gmail sync work: table gmail_sync_jobs, the        *)
(* dedup table gmail_pubsub_messages, and the statements of                *)
(* gmail/repository.py that webhook and workers run on them.               *)
(*                                                                         *)
(* Each action is one committed transaction, except fail_job: Postgres     *)
(* runs it under READ COMMITTED, so its SELECT of a successor and its      *)
(* UPDATE see different snapshots, and it is modelled as two steps         *)
(* (FailRead, FailWrite or FailConflict) between which other callers may   *)
(* commit, while the failing row stays locked by SELECT ... FOR UPDATE.    *)
(*                                                                         *)
(* Time is abstracted to "the lease is live" or "the lease has expired".   *)
(* lease_owner and last_error are written but never read by the code, and  *)
(* are left out.                                                           *)
(***************************************************************************)
EXTENDS Integers, FiniteSets

CONSTANTS
  Mailboxes,    \* gmail_mailboxes rows
  Workers,      \* sync worker processes and the API's inline worker thread
  MaxAttempts,  \* SyncWorker.max_attempts
  MaxJobs,      \* bound: rows the model's job table can hold
  MaxHistory,   \* bound: largest Gmail history id
  MaxCrashes,   \* bound: how often a worker dies holding a job
  MaxOverruns,  \* bound: how often a worker outlives the lease of its job
  NoMailbox     \* mailbox of a row that is not inserted yet

ASSUME QueueAssumption ==
  /\ NoMailbox \notin Mailboxes
  /\ MaxAttempts \in Nat \ {0}
  /\ MaxJobs \in Nat
  /\ MaxHistory \in Nat
  /\ MaxCrashes \in Nat
  /\ MaxOverruns \in Nat

VARIABLES
  jobs,    \* the table: id -> row
  seen,    \* mailbox -> Pub/Sub messages recorded, named by their history id
  held,    \* worker -> id of the job it believes it is running, or NoJob
  failTx,  \* worker -> its open fail_job transaction and the successor it read
  crashes, overruns  \* how often each has happened

faultVars == <<crashes, overruns>>
queueVars == <<jobs, seen, held, failTx, crashes, overruns>>

NoJob == 0
JobIds == 1 .. MaxJobs
HistoryIds == 1 .. MaxHistory
NoTx == [open |-> FALSE, succ |-> NoJob]

Job == [mailbox : Mailboxes \cup {NoMailbox}, requested : 0 .. MaxHistory,
        needsFull : BOOLEAN,
        status : {"absent", "pending", "running", "done", "failed"},
        attempts : Nat, lease : {"none", "live", "expired"}]

Absent == [mailbox |-> NoMailbox, requested |-> 0, needsFull |-> FALSE,
           status |-> "absent", attempts |-> 0, lease |-> "none"]

QueueInit ==
  /\ jobs = [j \in JobIds |-> Absent]
  /\ seen = [mb \in Mailboxes |-> {}]
  /\ held = [w \in Workers |-> NoJob]
  /\ failTx = [w \in Workers |-> NoTx]
  /\ crashes = 0 /\ overruns = 0

-----------------------------------------------------------------------------
(* What a statement writes to a row, and what it sees.                     *)

Larger(a, b) == IF a >= b THEN a ELSE b

Asking(row, h) == [row EXCEPT !.requested = Larger(@, h)]

Claimed(row) ==
  [row EXCEPT !.status = "running", !.lease = "live", !.attempts = @ + 1]

Ended(row, st) == [row EXCEPT !.status = st, !.lease = "none"]

Pending(mb) == {j \in JobIds : jobs[j].mailbox = mb /\ jobs[j].status = "pending"}

Open(mb) ==
  {j \in JobIds : jobs[j].mailbox = mb /\ jobs[j].status \in {"pending", "running"}}

Exhausted(j) == jobs[j].status = "failed" /\ jobs[j].attempts >= MaxAttempts

\* Row j is locked by a fail_job transaction of some worker.
Locked(j) == \E w \in Workers : failTx[w].open /\ held[w] = j

\* Mutant: claim_job without its expired-lease clause.
ClaimableNotExpired(j) == jobs[j].status = "pending" /\ ~Locked(j)

\* claim_job's WHERE clause, skipping locked rows.
Claimable(j) ==
  /\ \/ jobs[j].status = "pending"
     \/ jobs[j].status = "running" /\ jobs[j].lease = "expired"
  /\ ~Locked(j)

-----------------------------------------------------------------------------
(* The webhook.                                                            *)

\* Mutant: the ON CONFLICT clause covers running jobs too.
EnqueueIntoOpen(mb, h, full) ==
  IF Open(mb) # {}
    THEN \E p \in Open(mb) : ~Locked(p) /\ jobs' = [jobs EXCEPT ![p] = Asking(@, h)]
    ELSE \E j \in JobIds :
           /\ jobs[j].status = "absent"
           /\ \A i \in 1 .. (j - 1) : jobs[i].status # "absent"
           /\ jobs' = [jobs EXCEPT ![j] =
                [mailbox |-> mb, requested |-> h, needsFull |-> full,
                 status |-> "pending", attempts |-> 0, lease |-> "none"]]

\* INSERT ... ON CONFLICT (mailbox_db_id) WHERE status = 'pending' DO UPDATE.
Enqueue(mb, h, full) ==
  IF Pending(mb) # {}
    THEN \E p \in Pending(mb) :
           /\ ~Locked(p)
           /\ jobs' = [jobs EXCEPT ![p] = Asking(@, h)]
    ELSE \E j \in JobIds :
           /\ jobs[j].status = "absent"
           /\ \A i \in 1 .. (j - 1) : jobs[i].status # "absent"
           /\ jobs' = [jobs EXCEPT ![j] =
                [mailbox |-> mb, requested |-> h, needsFull |-> full,
                 status |-> "pending", attempts |-> 0, lease |-> "none"]]

\* record_notification for a message not seen before and a live mailbox. A
\* redelivered message changes nothing.
RecordNotification(mb, h, full) ==
  /\ h \notin seen[mb]
  /\ seen' = [seen EXCEPT ![mb] = @ \cup {h}]
  /\ Enqueue(mb, h, full)
  /\ UNCHANGED <<held, failTx, faultVars>>

-----------------------------------------------------------------------------
(* The workers.                                                            *)

ClaimJob(w) ==
  /\ held[w] = NoJob
  /\ \E j \in JobIds :
       /\ Claimable(j)
       /\ \A i \in 1 .. (j - 1) : ~Claimable(i)
       /\ jobs' = [jobs EXCEPT ![j] = Claimed(@)]
       /\ held' = [held EXCEPT ![w] = j]
  /\ UNCHANGED <<seen, failTx, faultVars>>

\* complete_job names the row by id alone: neither the status nor the owner
\* of the lease is checked.
CompleteJob(w) ==
  /\ held[w] # NoJob /\ ~Locked(held[w])
  /\ jobs' = [jobs EXCEPT ![held[w]] = Ended(@, "done")]
  /\ held' = [held EXCEPT ![w] = NoJob]
  /\ UNCHANGED <<seen, failTx, faultVars>>

MarkJobNeedsFullSync(w) ==
  /\ held[w] # NoJob /\ ~Locked(held[w])
  /\ jobs' = [jobs EXCEPT ![held[w]] = [@ EXCEPT !.needsFull = TRUE]]
  /\ UNCHANGED <<seen, held, failTx, faultVars>>

\* fail_job, the reads: lock the row, look for a successor.
FailRead(w) ==
  /\ held[w] # NoJob /\ ~Locked(held[w])
  /\ \E s \in JobIds \cup {NoJob} :
       /\ LET successors == Pending(jobs[held[w]].mailbox) \ {held[w]}
          IN  IF successors = {} THEN s = NoJob ELSE s \in successors
       /\ failTx' = [failTx EXCEPT ![w] = [open |-> TRUE, succ |-> s]]
  /\ UNCHANGED <<jobs, seen, held, faultVars>>

\* Mutant: the transaction is left open.
KeepFailTx(w) == held' = [held EXCEPT ![w] = NoJob] /\ UNCHANGED failTx

CloseFailTx(w) ==
  /\ failTx' = [failTx EXCEPT ![w] = NoTx]
  /\ held' = [held EXCEPT ![w] = NoJob]

\* fail_job hands the work to the successor it read, or gives up.
GiveUp(w) ==
  LET j == held[w]
      s == failTx[w].succ
  IN  /\ failTx[w].open
      /\ s # NoJob \/ jobs[j].attempts >= MaxAttempts
      /\ s # NoJob => ~Locked(s)
      /\ jobs' = [i \in JobIds |->
           IF i = j THEN Ended(jobs[j], "failed")
           ELSE IF i = s
             THEN [jobs[s] EXCEPT !.requested = Larger(@, jobs[j].requested),
                                  !.needsFull = @ \/ jobs[j].needsFull]
             ELSE jobs[i]]
      /\ CloseFailTx(w)
      /\ UNCHANGED <<seen, faultVars>>

\* Mutant: fail_job gives up one attempt late.
RetryOnceMore(w) ==
  failTx[w].open /\ failTx[w].succ = NoJob /\ jobs[held[w]].attempts <= MaxAttempts

\* fail_job found no successor and attempts are left.
MayRetry(w) ==
  /\ failTx[w].open /\ failTx[w].succ = NoJob
  /\ jobs[held[w]].attempts < MaxAttempts

\* Mutant: no unique index on the pending job of a mailbox.
ReleaseAnyway(w) ==
  /\ MayRetry(w)
  /\ jobs' = [jobs EXCEPT ![held[w]] = Ended(@, "pending")]
  /\ CloseFailTx(w)
  /\ UNCHANGED <<seen, faultVars>>

\* fail_job releases the row for another attempt; the partial unique index
\* admits the update only while no other job of the mailbox is pending.
Release(w) ==
  /\ MayRetry(w)
  /\ Pending(jobs[held[w]].mailbox) \subseteq {held[w]}
  /\ jobs' = [jobs EXCEPT ![held[w]] = Ended(@, "pending")]
  /\ CloseFailTx(w)
  /\ UNCHANGED <<seen, faultVars>>

\* A notification queued a pending job after FailRead: the release hits the
\* unique index, the transaction rolls back and the error escapes run_once.
FailConflict(w) ==
  /\ MayRetry(w)
  /\ ~ (Pending(jobs[held[w]].mailbox) \subseteq {held[w]})
  /\ CloseFailTx(w)
  /\ UNCHANGED <<jobs, seen, faultVars>>

\* The process dies; its open transaction rolls back, its lease stays.
Crash(w) ==
  /\ held[w] # NoJob /\ crashes < MaxCrashes
  /\ crashes' = crashes + 1
  /\ CloseFailTx(w)
  /\ UNCHANGED <<jobs, seen, overruns>>

Held(j) == \E w \in Workers : held[w] = j

\* Time passes a lease nobody works under.
LeaseLapses(j) ==
  /\ jobs[j].status = "running" /\ jobs[j].lease = "live" /\ ~Held(j)
  /\ jobs' = [jobs EXCEPT ![j] = [@ EXCEPT !.lease = "expired"]]
  /\ UNCHANGED <<seen, held, failTx, faultVars>>

\* A sync outlives its lease of lease_seconds: nothing renews a lease.
LeaseOverrun(j) ==
  /\ jobs[j].status = "running" /\ jobs[j].lease = "live" /\ Held(j)
  /\ overruns < MaxOverruns
  /\ overruns' = overruns + 1
  /\ jobs' = [jobs EXCEPT ![j] = [@ EXCEPT !.lease = "expired"]]
  /\ UNCHANGED <<seen, held, failTx, crashes>>

-----------------------------------------------------------------------------
FailJob(w) == FailRead(w) \/ GiveUp(w) \/ Release(w) \/ FailConflict(w)

QueueNext ==
  \/ \E mb \in Mailboxes, h \in HistoryIds, full \in BOOLEAN :
       RecordNotification(mb, h, full)
  \/ \E w \in Workers :
       \/ ClaimJob(w) \/ CompleteJob(w) \/ MarkJobNeedsFullSync(w)
       \/ FailJob(w) \/ Crash(w)
  \/ \E j \in JobIds : LeaseLapses(j) \/ LeaseOverrun(j)

QueueSpec == QueueInit /\ [][QueueNext]_queueVars

-----------------------------------------------------------------------------
(* Properties.                                                             *)

\* Rows, claims and transactions stay well formed.
QueueTypeOK ==
  /\ jobs \in [JobIds -> Job]
  /\ seen \in [Mailboxes -> SUBSET HistoryIds]
  /\ held \in [Workers -> JobIds \cup {NoJob}]
  /\ failTx \in [Workers -> [open : BOOLEAN, succ : JobIds \cup {NoJob}]]
  /\ \A w \in Workers : failTx[w].open => held[w] # NoJob
  /\ crashes \in 0 .. MaxCrashes
  /\ overruns \in 0 .. MaxOverruns

\* A mailbox never has two pending jobs, whatever notifications, retries and
\* stale workers do: the webhook coalesces and fail_job releases a row only
\* when that keeps the unique index on pending rows true.
OnePendingPerMailbox ==
  \A mb \in Mailboxes : \A i, j \in Pending(mb) : i = j

\* claim_job counts attempts and compares them with nothing; only fail_job does,
\* and only for the worker that reports the failure. A job is still claimed at most
\* MaxAttempts times, and once more for each death of a worker and each lease that was outlived,
\* whatever stale workers do to the row that another worker has claimed since.
AttemptsAreBounded ==
  \A j \in JobIds : jobs[j].attempts <= MaxAttempts + crashes + overruns

\* Every queued job is eventually done or failed: no job starves behind
\* retries of older ones, a crashed worker's job is reclaimed, and the
\* conflict in fail_job does not strand its row.
EveryJobResolves ==
  \A j \in JobIds : jobs[j].status = "pending" ~> jobs[j].status \in {"done", "failed"}
=============================================================================
