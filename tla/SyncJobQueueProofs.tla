------------------------ MODULE SyncJobQueueProofs ------------------------
(***************************************************************************)
(* What the job queue guarantees to any caller, for every number of        *)
(* mailboxes, workers, jobs, crashes and overrun leases.                   *)
(***************************************************************************)
EXTENDS SyncJobQueue, TLAPS

\* Replacing one row of the table by a well-formed row keeps it well formed.
LEMMA RowUpdate ==
  ASSUME jobs \in [JobIds -> Job], NEW j,
         NEW row, j \in JobIds => row \in Job
  PROVE  [jobs EXCEPT ![j] = row] \in [JobIds -> Job]
OBVIOUS

\* Every UPDATE of the queue writes a well-formed row.
LEMMA RowTypes ==
  ASSUME NEW row \in Job
  PROVE  /\ \A h \in HistoryIds : Asking(row, h) \in Job
         /\ Claimed(row) \in Job
         /\ \A st \in {"pending", "done", "failed"} :
              Ended(row, st) \in Job
         /\ [row EXCEPT !.needsFull = TRUE] \in Job
         /\ [row EXCEPT !.lease = "expired"] \in Job
         /\ \A other \in Job : [row EXCEPT !.requested = Larger(@, other.requested),
                                           !.needsFull = @ \/ other.needsFull] \in Job
<1> USE DEF Job
<1>1. \A a, b \in 0 .. MaxHistory : Larger(a, b) \in 0 .. MaxHistory
  BY DEF Larger
<1>2. ASSUME NEW h \in HistoryIds PROVE Asking(row, h) \in Job
  <2>1. row.requested \in 0 .. MaxHistory /\ h \in 0 .. MaxHistory
    BY QueueAssumption DEF HistoryIds
  <2>2. Larger(row.requested, h) \in 0 .. MaxHistory
    BY <1>1, <2>1
  <2> QED  BY <2>2 DEF Asking
<1>3. Claimed(row) \in Job
  <2>1. row.attempts + 1 \in Nat
    OBVIOUS
  <2> DEFINE next == row.attempts + 1
  <2> HIDE DEF next
  <2>2. [row EXCEPT !.status = "running", !.lease = "live", !.attempts = next] \in Job
    BY <2>1 DEF next
  <2> QED  BY <2>2 DEF next, Claimed
<1>4. ASSUME NEW st \in {"pending", "done", "failed"}
      PROVE  Ended(row, st) \in Job
  BY DEF Ended
<1>5. /\ [row EXCEPT !.needsFull = TRUE] \in Job
      /\ [row EXCEPT !.lease = "expired"] \in Job
  OBVIOUS
<1>6. ASSUME NEW other \in Job
      PROVE  [row EXCEPT !.requested = Larger(@, other.requested),
                         !.needsFull = @ \/ other.needsFull] \in Job
  <2>1. Larger(row.requested, other.requested) \in 0 .. MaxHistory
    BY <1>1
  <2>2. (row.needsFull \/ other.needsFull) \in BOOLEAN
    OBVIOUS
  <2> DEFINE both == row.needsFull \/ other.needsFull
             most == Larger(row.requested, other.requested)
  <2>3. both \in BOOLEAN /\ most \in 0 .. MaxHistory
    BY <2>1, <2>2
  <2> HIDE DEF both, most
  <2>4. [row EXCEPT !.requested = most, !.needsFull = both] \in Job
    BY <2>3
  <2> QED  BY <2>4 DEF both, most
<1> QED  BY <1>2, <1>3, <1>4, <1>5, <1>6

\* A row that an INSERT ... ON CONFLICT writes is a well-formed row.
LEMMA EnqueueTypeOK ==
  ASSUME QueueTypeOK,
         NEW mb \in Mailboxes, NEW h \in HistoryIds, NEW full \in BOOLEAN,
         Enqueue(mb, h, full)
  PROVE  jobs' \in [JobIds -> Job]
<1>1. CASE Pending(mb) # {}
  <2>1. PICK p \in Pending(mb) :
          jobs' = [jobs EXCEPT ![p] = Asking(@, h)]
    BY <1>1 DEF Enqueue
  <2>2. p \in JobIds /\ jobs[p] \in Job
    BY DEF Pending, QueueTypeOK
  <2>3. Asking(jobs[p], h) \in Job
    BY <2>2, RowTypes
  <2> QED  BY <2>1, <2>3, RowUpdate DEF QueueTypeOK
<1>2. CASE Pending(mb) = {}
  <2> DEFINE row == [mailbox |-> mb, requested |-> h, needsFull |-> full,
                     status |-> "pending", attempts |-> 0, lease |-> "none"]
  <2>1. row \in Job
    BY QueueAssumption DEF Job, HistoryIds
  <2>2. PICK j \in JobIds : jobs' = [jobs EXCEPT ![j] = row]
    BY <1>2 DEF Enqueue
  <2> HIDE DEF row
  <2> QED  BY <2>1, <2>2, RowUpdate DEF QueueTypeOK
<1> QED  BY <1>1, <1>2

\* Every step of the queue keeps its state well formed.
LEMMA QueueTypeStep == QueueTypeOK /\ [QueueNext]_queueVars => QueueTypeOK'
<1> SUFFICES ASSUME QueueTypeOK, [QueueNext]_queueVars PROVE QueueTypeOK'
  OBVIOUS
<1> USE DEF QueueTypeOK
<1>1. ASSUME NEW mb \in Mailboxes, NEW h \in HistoryIds, NEW full \in BOOLEAN,
             RecordNotification(mb, h, full)
      PROVE  QueueTypeOK'
  <2>1. jobs' \in [JobIds -> Job]
    BY <1>1, EnqueueTypeOK DEF RecordNotification
  <2>2. seen' \in [Mailboxes -> SUBSET HistoryIds]
    BY <1>1 DEF RecordNotification
  <2> QED  BY <1>1, <2>1, <2>2 DEF RecordNotification, faultVars
<1>2. ASSUME NEW w \in Workers, ClaimJob(w) PROVE QueueTypeOK'
  <2>1. PICK j \in JobIds :
          /\ jobs' = [jobs EXCEPT ![j] = Claimed(@)]
          /\ held' = [held EXCEPT ![w] = j]
    BY <1>2 DEF ClaimJob
  <2>2. jobs' \in [JobIds -> Job]
    <3>1. jobs[j] \in Job
      OBVIOUS
    <3>2. Claimed(jobs[j]) \in Job
      BY <3>1, RowTypes
    <3> QED  BY <2>1, <3>2, RowUpdate
  <2>3. j # NoJob
    BY DEF JobIds, NoJob
  <2>4. held' \in [Workers -> JobIds \cup {NoJob}]
    BY <2>1
  <2>5. UNCHANGED <<seen, failTx, crashes, overruns>>
    BY <1>2 DEF ClaimJob, faultVars
  <2>6. \A v \in Workers : failTx'[v].open => held'[v] # NoJob
    BY <2>1, <2>3, <2>5
  <2> QED  BY <2>2, <2>4, <2>5, <2>6
<1>3. ASSUME NEW w \in Workers, CompleteJob(w) PROVE QueueTypeOK'
  <2>1. held[w] \in JobIds => Ended(jobs[held[w]], "done") \in Job
    BY RowTypes
  <2>2. jobs' \in [JobIds -> Job]
    BY <1>3, <2>1, RowUpdate DEF CompleteJob
  <2>3. ~failTx[w].open
    BY <1>3 DEF CompleteJob, Locked
  <2>4. \A v \in Workers : failTx'[v].open => held'[v] # NoJob
    BY <1>3, <2>3 DEF CompleteJob
  <2> QED  BY <1>3, <2>2, <2>4 DEF CompleteJob, faultVars
<1>4. ASSUME NEW w \in Workers, MarkJobNeedsFullSync(w) PROVE QueueTypeOK'
  <2>1. held[w] \in JobIds => [jobs[held[w]] EXCEPT !.needsFull = TRUE] \in Job
    BY RowTypes
  <2>2. jobs' \in [JobIds -> Job]
    BY <1>4, <2>1, RowUpdate DEF MarkJobNeedsFullSync
  <2> QED  BY <1>4, <2>2 DEF MarkJobNeedsFullSync, faultVars
<1>5. ASSUME NEW w \in Workers, FailRead(w) PROVE QueueTypeOK'
  BY <1>5 DEF FailRead, faultVars
<1>6. ASSUME NEW w \in Workers, GiveUp(w) PROVE QueueTypeOK'
  <2> DEFINE j == held[w]
             s == failTx[w].succ
             failed == Ended(jobs[j], "failed")
             folded == [jobs[s] EXCEPT !.requested = Larger(@, jobs[j].requested),
                                       !.needsFull = @ \/ jobs[j].needsFull]
  <2>1. j \in JobIds => failed \in Job
    BY RowTypes
  <2>2. j \in JobIds /\ s \in JobIds => folded \in Job
    BY RowTypes
  <2>3. s = NoJob \/ s \in JobIds
    OBVIOUS
  <2>4. j = NoJob \/ j \in JobIds
    OBVIOUS
  <2>5. jobs' = [i \in JobIds |-> IF i = j THEN failed ELSE IF i = s THEN folded ELSE jobs[i]]
    BY <1>6 DEF GiveUp
  <2>6. j \in JobIds
    BY <1>6, <2>4 DEF GiveUp
  <2> HIDE DEF failed, folded, j, s
  <2>7. jobs' \in [JobIds -> Job]
    BY <2>1, <2>2, <2>5, <2>6
  <2> QED  BY <1>6, <2>7 DEF GiveUp, CloseFailTx, NoTx, faultVars
<1>7. ASSUME NEW w \in Workers, Release(w) PROVE QueueTypeOK'
  <2>1. held[w] \in JobIds => Ended(jobs[held[w]], "pending") \in Job
    BY RowTypes
  <2>2. jobs' \in [JobIds -> Job]
    BY <1>7, <2>1, RowUpdate DEF Release
  <2> QED  BY <1>7, <2>2 DEF Release, CloseFailTx, NoTx, faultVars
<1>8. ASSUME NEW w \in Workers, FailConflict(w) PROVE QueueTypeOK'
  BY <1>8 DEF FailConflict, CloseFailTx, NoTx, faultVars
<1>9. ASSUME NEW w \in Workers, Crash(w) PROVE QueueTypeOK'
  BY <1>9, QueueAssumption DEF Crash, CloseFailTx, NoTx
<1>10. ASSUME NEW j \in JobIds, LeaseLapses(j) PROVE QueueTypeOK'
  <2>1. [jobs[j] EXCEPT !.lease = "expired"] \in Job
    BY RowTypes
  <2>2. jobs' \in [JobIds -> Job]
    BY <1>10, <2>1, RowUpdate DEF LeaseLapses
  <2> QED  BY <1>10, <2>2 DEF LeaseLapses, faultVars
<1>11. ASSUME NEW j \in JobIds, LeaseOverrun(j) PROVE QueueTypeOK'
  <2>1. [jobs[j] EXCEPT !.lease = "expired"] \in Job
    BY RowTypes
  <2>2. jobs' \in [JobIds -> Job]
    BY <1>11, <2>1, RowUpdate DEF LeaseOverrun
  <2> QED  BY <1>11, <2>2, QueueAssumption DEF LeaseOverrun
<1>12. CASE UNCHANGED queueVars
  BY <1>12 DEF queueVars
<1> QED
  BY <1>1, <1>2, <1>3, <1>4, <1>5, <1>6, <1>7, <1>8, <1>9, <1>10, <1>11, <1>12
     DEF QueueNext, FailJob

\* Rows, claims and transactions stay well formed, for every caller.
THEOREM QueueTypeCorrect == QueueSpec => []QueueTypeOK
<1>1. QueueInit => QueueTypeOK
  BY QueueAssumption
     DEF QueueInit, QueueTypeOK, JobIds, NoJob, Job, Absent, NoTx
<1> QED  BY <1>1, QueueTypeStep, PTL DEF QueueSpec

-----------------------------------------------------------------------------
\* Row j is pending after a step because it was pending before it.
PendingKept(j) ==
  /\ jobs[j].status = "pending"
  /\ jobs'[j].mailbox = jobs[j].mailbox
  /\ jobs'[j].attempts = jobs[j].attempts

\* Row j became pending in this step: no other row of its mailbox is.
BecamePending(j) ==
  /\ jobs'[j].attempts < MaxAttempts
  /\ \A i \in JobIds \ {j} :
       /\ jobs'[i] = jobs[i]
       /\ jobs[i].status = "pending" => jobs[i].mailbox # jobs'[j].mailbox

\* An UPDATE that writes one row, and does not make it pending, adds no
\* pending row to the table.
LEMMA OneRowWritten ==
  ASSUME QueueTypeOK, NEW k, NEW row,
         k \in JobIds /\ row.status = "pending" =>
           /\ jobs[k].status = "pending"
           /\ row.mailbox = jobs[k].mailbox /\ row.attempts = jobs[k].attempts,
         jobs' = [jobs EXCEPT ![k] = row],
         NEW j \in JobIds, jobs'[j].status = "pending"
  PROVE  PendingKept(j)
<1>1. jobs'[j] = IF j = k THEN row ELSE jobs[j]
  BY DEF QueueTypeOK
<1> QED  BY <1>1 DEF PendingKept

\* A row is pending only because it was, or because nothing else of its
\* mailbox is and it has attempts left: the ON CONFLICT clause of the webhook
\* and the unique index under fail_job see to that.
LEMMA WhyPending ==
  ASSUME QueueTypeOK, [QueueNext]_queueVars,
         NEW j \in JobIds, jobs'[j].status = "pending"
  PROVE  PendingKept(j) \/ BecamePending(j)
<1>0. \A k \in JobIds : jobs[k] \in Job
  BY DEF QueueTypeOK
<1>1. ASSUME NEW mb \in Mailboxes, NEW h \in HistoryIds, NEW full \in BOOLEAN,
             RecordNotification(mb, h, full)
      PROVE  PendingKept(j) \/ BecamePending(j)
  <2>1. CASE Pending(mb) # {}
    <3>1. PICK p \in Pending(mb) : jobs' = [jobs EXCEPT ![p] = Asking(@, h)]
      BY <1>1, <2>1 DEF RecordNotification, Enqueue
    <3>2. /\ p \in JobIds /\ jobs[p].status = "pending"
          /\ Asking(jobs[p], h).mailbox = jobs[p].mailbox
          /\ Asking(jobs[p], h).attempts = jobs[p].attempts
      BY <1>0 DEF Pending, Asking, Job
    <3> QED  BY <3>1, <3>2, OneRowWritten
  <2>2. CASE Pending(mb) = {}
    <3> DEFINE row == [mailbox |-> mb, requested |-> h, needsFull |-> full,
                       status |-> "pending", attempts |-> 0, lease |-> "none"]
    <3>1. PICK k \in JobIds : jobs' = [jobs EXCEPT ![k] = row]
      BY <1>1, <2>2 DEF RecordNotification, Enqueue
    <3>2. row.mailbox = mb /\ row.attempts = 0
      OBVIOUS
    <3> HIDE DEF row
    <3>3. \A i \in JobIds : jobs'[i] = IF i = k THEN row ELSE jobs[i]
      BY <3>1 DEF QueueTypeOK
    <3>4. CASE j = k
      <4>1. 0 < MaxAttempts
        BY QueueAssumption
      <4> QED  BY <2>2, <3>2, <3>3, <3>4, <4>1 DEF BecamePending, Pending
    <3>5. CASE j # k
      BY <3>3, <3>5 DEF PendingKept
    <3> QED  BY <3>4, <3>5
  <2> QED  BY <2>1, <2>2
<1>2. ASSUME NEW w \in Workers, ClaimJob(w) PROVE PendingKept(j)
  <2>1. PICK k \in JobIds : jobs' = [jobs EXCEPT ![k] = Claimed(@)]
    BY <1>2 DEF ClaimJob
  <2>2. Claimed(jobs[k]).status # "pending"
    BY <1>0 DEF Claimed, Job
  <2> QED  BY <2>1, <2>2, OneRowWritten
<1>3. ASSUME NEW w \in Workers, CompleteJob(w) PROVE PendingKept(j)
  <2>1. held[w] \in JobIds => Ended(jobs[held[w]], "done").status # "pending"
    BY <1>0 DEF Ended, Job
  <2> QED  BY <1>3, <2>1, OneRowWritten DEF CompleteJob
<1>4. ASSUME NEW w \in Workers, MarkJobNeedsFullSync(w) PROVE PendingKept(j)
  <2>1. ASSUME held[w] \in JobIds
        PROVE  LET row == [jobs[held[w]] EXCEPT !.needsFull = TRUE]
               IN  /\ row.status = jobs[held[w]].status
                   /\ row.mailbox = jobs[held[w]].mailbox
                   /\ row.attempts = jobs[held[w]].attempts
    BY <1>0, <2>1 DEF Job
  <2> QED  BY <1>4, <2>1, OneRowWritten DEF MarkJobNeedsFullSync
<1>5. ASSUME NEW w \in Workers, GiveUp(w) PROVE PendingKept(j)
  <2> DEFINE k == held[w]
             s == failTx[w].succ
             folded == [jobs[s] EXCEPT !.requested = Larger(@, jobs[k].requested),
                                       !.needsFull = @ \/ jobs[k].needsFull]
  <2>1. k \in JobIds => Ended(jobs[k], "failed").status # "pending"
    BY <1>0 DEF Ended, Job
  <2>2. s \in JobIds => /\ folded.status = jobs[s].status
                        /\ folded.mailbox = jobs[s].mailbox
                        /\ folded.attempts = jobs[s].attempts
    BY <1>0 DEF Job
  <2>3. jobs'[j] = IF j = k THEN Ended(jobs[k], "failed")
                   ELSE IF j = s THEN folded ELSE jobs[j]
    BY <1>5 DEF GiveUp
  <2> HIDE DEF k, s, folded
  <2> QED  BY <2>1, <2>2, <2>3 DEF PendingKept
<1>6. ASSUME NEW w \in Workers, Release(w) PROVE PendingKept(j) \/ BecamePending(j)
  <2> DEFINE k == held[w]
             row == Ended(jobs[k], "pending")
  <2>1. k \in JobIds
    BY <1>6 DEF Release, MayRetry, QueueTypeOK
  <2>2. row.mailbox = jobs[k].mailbox /\ row.attempts = jobs[k].attempts
    BY <1>0, <2>1 DEF Ended, Job
  <2>3. jobs[k].attempts < MaxAttempts /\ Pending(jobs[k].mailbox) \subseteq {k}
    BY <1>6 DEF Release, MayRetry
  <2>4. jobs' = [jobs EXCEPT ![k] = row]
    BY <1>6 DEF Release
  <2> HIDE DEF k, row
  <2>5. \A i \in JobIds : jobs'[i] = IF i = k THEN row ELSE jobs[i]
    BY <2>4 DEF QueueTypeOK
  <2>6. CASE j = k
    BY <2>2, <2>3, <2>5, <2>6 DEF BecamePending, Pending
  <2>7. CASE j # k
    BY <2>5, <2>7 DEF PendingKept
  <2> QED  BY <2>6, <2>7
<1>7. ASSUME NEW k \in JobIds, LeaseLapses(k) \/ LeaseOverrun(k) PROVE PendingKept(j)
  <2>1. jobs[k].status = "running"
    BY <1>7 DEF LeaseLapses, LeaseOverrun
  <2>2. [jobs[k] EXCEPT !.lease = "expired"].status # "pending"
    BY <1>0, <2>1 DEF Job
  <2>3. jobs' = [jobs EXCEPT ![k] = [@ EXCEPT !.lease = "expired"]]
    BY <1>7 DEF LeaseLapses, LeaseOverrun
  <2> QED  BY <2>2, <2>3, OneRowWritten
<1>8. CASE UNCHANGED jobs
  BY <1>8 DEF PendingKept
<1>9. CASE UNCHANGED queueVars
  BY <1>8, <1>9 DEF queueVars
<1>10. ASSUME NEW w \in Workers, FailRead(w) \/ FailConflict(w) \/ Crash(w)
       PROVE  PendingKept(j) \/ BecamePending(j)
  BY <1>8, <1>10 DEF FailRead, FailConflict, Crash
<1> QED
  BY <1>1, <1>2, <1>3, <1>4, <1>5, <1>6, <1>7, <1>9, <1>10 DEF QueueNext, FailJob

\* Webhook, workers, retries and crashes together never leave a mailbox with
\* two pending jobs.
THEOREM OnePendingCorrect == QueueSpec => []OnePendingPerMailbox
<1>1. QueueInit => OnePendingPerMailbox
  BY DEF QueueInit, OnePendingPerMailbox, Pending, Absent
<1>2. QueueTypeOK /\ OnePendingPerMailbox /\ [QueueNext]_queueVars => OnePendingPerMailbox'
  <2> SUFFICES ASSUME QueueTypeOK, OnePendingPerMailbox, [QueueNext]_queueVars,
                      NEW mb \in Mailboxes, NEW i \in Pending(mb)', NEW j \in Pending(mb)'
               PROVE  i = j
    BY DEF OnePendingPerMailbox
  <2>1. /\ i \in JobIds /\ jobs'[i].status = "pending" /\ jobs'[i].mailbox = mb
        /\ j \in JobIds /\ jobs'[j].status = "pending" /\ jobs'[j].mailbox = mb
    BY DEF Pending
  <2>2. /\ PendingKept(i) \/ BecamePending(i)
        /\ PendingKept(j) \/ BecamePending(j)
    BY <2>1, WhyPending
  <2>3. CASE PendingKept(i) /\ PendingKept(j)
    BY <2>1, <2>3 DEF PendingKept, OnePendingPerMailbox, Pending
  <2>4. CASE BecamePending(i)
    BY <2>1, <2>4 DEF BecamePending
  <2>5. CASE BecamePending(j)
    BY <2>1, <2>5 DEF BecamePending
  <2> QED  BY <2>2, <2>3, <2>4, <2>5
<1> QED  BY <1>1, <1>2, QueueTypeCorrect, PTL DEF QueueSpec

-----------------------------------------------------------------------------
(* Attempts.                                                               *)

\* The claims that a job may have seen.
Budget == MaxAttempts + crashes + overruns

\* A row that claim_job may take, now or when its lease has run out, has a claim left: a
\* pending row one of its attempts, a running one that nobody works on, or that has outlived
\* its lease, one that a fault has added.
HasClaimLeft(j) ==
  /\ jobs[j].status = "pending" => jobs[j].attempts < MaxAttempts
  /\ jobs[j].status = "running" /\ (jobs[j].lease = "expired" \/ ~Held(j)) => jobs[j].attempts < Budget
  /\ jobs[j].attempts <= Budget

BudgetInv == \A j \in JobIds : HasClaimLeft(j)

SameUse(j) ==
  /\ jobs'[j].status = jobs[j].status /\ jobs'[j].attempts = jobs[j].attempts
  /\ jobs'[j].lease = jobs[j].lease
  /\ Held(j) => Held(j)'

\* A budget of naturals whose two counts each stay or grow by one stays or grows.
LEMMA SumsGrow ==
  ASSUME NEW m \in Nat, NEW a \in Nat, NEW b \in Nat, NEW c \in {a, a + 1}, NEW d \in {b, b + 1}
  PROVE  m + a + b \in Nat /\ m + c + d \in Nat /\ m <= m + c + d /\ m + a + b <= m + c + d
OBVIOUS

\* Faults are only ever added.
LEMMA FaultsAreAdded ==
  ASSUME [QueueNext]_queueVars
  PROVE  crashes' \in {crashes, crashes + 1} /\ overruns' \in {overruns, overruns + 1}
BY DEF QueueNext, RecordNotification, ClaimJob, CompleteJob, MarkJobNeedsFullSync, FailJob,
   FailRead, GiveUp, Release, FailConflict, Crash, LeaseLapses, LeaseOverrun, faultVars, queueVars

LEMMA BudgetGrows ==
  ASSUME QueueTypeOK, [QueueNext]_queueVars
  PROVE  /\ MaxAttempts \in Nat /\ crashes \in Nat /\ overruns \in Nat /\ Budget \in Nat /\ Budget' \in Nat
         /\ MaxAttempts <= Budget' /\ Budget <= Budget'
         /\ \A j \in JobIds : jobs[j].attempts \in Nat
<1>1. MaxAttempts \in Nat /\ crashes \in Nat /\ overruns \in Nat
  BY QueueAssumption DEF QueueTypeOK
<1>2. \A j \in JobIds : jobs[j].attempts \in Nat
  BY DEF QueueTypeOK, Job
<1>3. Budget = MaxAttempts + crashes + overruns /\ Budget' = MaxAttempts + crashes' + overruns'
  BY DEF Budget
<1> QED  BY <1>1, <1>2, <1>3, FaultsAreAdded, SumsGrow, Zenon

\* A row that is used as before keeps its claims.
LEMMA SameUseKeeps ==
  ASSUME QueueTypeOK, [QueueNext]_queueVars, NEW j \in JobIds, HasClaimLeft(j), SameUse(j)
  PROVE  HasClaimLeft(j)'
BY BudgetGrows DEF HasClaimLeft, SameUse

\* A worker that lets go of its job takes no other row from anybody.
LEMMA OthersStayHeld ==
  ASSUME QueueTypeOK, NEW w \in Workers, held' = [held EXCEPT ![w] = NoJob],
         NEW j \in JobIds, j # held[w], Held(j)
  PROVE  Held(j)'
BY DEF Held, QueueTypeOK

LEMMA BudgetStep ==
  ASSUME QueueTypeOK, BudgetInv, [QueueNext]_queueVars
  PROVE  BudgetInv'
<1> SUFFICES ASSUME NEW j \in JobIds PROVE HasClaimLeft(j)'
  BY DEF BudgetInv
<1>0. /\ HasClaimLeft(j) /\ jobs[j] \in Job /\ \A k \in JobIds : jobs[k] \in Job
      /\ \A k \in JobIds : HasClaimLeft(k)
  BY DEF BudgetInv, QueueTypeOK
<1>1. /\ MaxAttempts \in Nat /\ crashes \in Nat /\ overruns \in Nat /\ Budget \in Nat /\ Budget' \in Nat
      /\ MaxAttempts <= Budget' /\ Budget <= Budget' /\ jobs[j].attempts \in Nat
  BY BudgetGrows
<1>2. SameUse(j) => HasClaimLeft(j)'
  BY <1>0, SameUseKeeps
<1>3. ASSUME NEW mb \in Mailboxes, NEW h \in HistoryIds, NEW full \in BOOLEAN,
             RecordNotification(mb, h, full)
      PROVE  HasClaimLeft(j)'
  <2>0. Held(j) => Held(j)'
    BY <1>3 DEF RecordNotification, Held
  <2>1. CASE Pending(mb) # {}
    <3>1. PICK p \in Pending(mb) : jobs' = [jobs EXCEPT ![p] = Asking(@, h)]
      BY <1>3, <2>1 DEF RecordNotification, Enqueue
    <3>2. SameUse(j)
      BY <1>0, <2>0, <3>1 DEF SameUse, Asking, Job, QueueTypeOK
    <3> QED  BY <1>2, <3>2
  <2>2. CASE Pending(mb) = {}
    <3> DEFINE row == [mailbox |-> mb, requested |-> h, needsFull |-> full,
                       status |-> "pending", attempts |-> 0, lease |-> "none"]
    <3>1. PICK k \in JobIds : jobs' = [jobs EXCEPT ![k] = row]
      BY <1>3, <2>2 DEF RecordNotification, Enqueue
    <3>2. row.status = "pending" /\ row.attempts = 0
      OBVIOUS
    <3> HIDE DEF row
    <3>3. CASE j = k
      <4>1. jobs'[j].status = "pending" /\ jobs'[j].attempts = 0
        BY <3>1, <3>2, <3>3 DEF QueueTypeOK
      <4> QED  BY <1>1, <4>1, QueueAssumption DEF HasClaimLeft
    <3>4. CASE j # k
      BY <1>2, <2>0, <3>1, <3>4 DEF SameUse, QueueTypeOK
    <3> QED  BY <3>3, <3>4
  <2> QED  BY <2>1, <2>2
<1>4. ASSUME NEW w \in Workers, ClaimJob(w) PROVE HasClaimLeft(j)'
  <2>1. PICK k \in JobIds : /\ Claimable(k) /\ jobs' = [jobs EXCEPT ![k] = Claimed(@)]
                            /\ held' = [held EXCEPT ![w] = k]
    BY <1>4 DEF ClaimJob
  <2>2. held[w] = NoJob
    BY <1>4 DEF ClaimJob
  <2>3. Held(j) => Held(j)'
    BY <2>1, <2>2 DEF Held, QueueTypeOK, JobIds, NoJob
  <2>4. CASE j = k
    <3>1. jobs[j].attempts < Budget'
      BY <1>0, <1>1, <2>1, <2>4 DEF Claimable, HasClaimLeft
    <3>2. /\ jobs'[j].status = "running" /\ jobs'[j].lease = "live"
          /\ jobs'[j].attempts = jobs[j].attempts + 1
      BY <1>0, <2>1, <2>4 DEF Claimed, Job, QueueTypeOK
    <3>3. Held(j)'
      BY <2>1, <2>4 DEF Held, QueueTypeOK
    <3> QED  BY <1>1, <3>1, <3>2, <3>3 DEF HasClaimLeft
  <2>5. CASE j # k
    BY <1>2, <2>1, <2>3, <2>5 DEF SameUse, QueueTypeOK
  <2> QED  BY <2>4, <2>5
<1>5. ASSUME NEW w \in Workers, NEW st \in {"pending", "done"}, held' = [held EXCEPT ![w] = NoJob],
             jobs' = [jobs EXCEPT ![held[w]] = Ended(@, st)],
             st = "pending" => jobs[held[w]].attempts < MaxAttempts
      PROVE  HasClaimLeft(j)'
  <2>1. CASE j = held[w]
    <3>1. jobs'[j].status = st /\ jobs'[j].attempts = jobs[j].attempts
      BY <1>0, <1>5, <2>1 DEF Ended, Job, QueueTypeOK
    <3> QED  BY <1>0, <1>1, <1>5, <2>1, <3>1 DEF HasClaimLeft
  <2>2. CASE j # held[w]
    <3>1. jobs'[j] = jobs[j] /\ (Held(j) => Held(j)')
      BY <1>5, <2>2, OthersStayHeld DEF QueueTypeOK
    <3> QED  BY <1>2, <3>1 DEF SameUse
  <2> QED  BY <2>1, <2>2
<1>6. ASSUME NEW w \in Workers, CompleteJob(w) PROVE HasClaimLeft(j)'
  BY <1>5, <1>6 DEF CompleteJob
<1>7. ASSUME NEW w \in Workers, MarkJobNeedsFullSync(w) PROVE HasClaimLeft(j)'
  <2>1. SameUse(j)
    BY <1>0, <1>7 DEF MarkJobNeedsFullSync, SameUse, Held, Job, QueueTypeOK
  <2> QED  BY <1>2, <2>1
<1>8. ASSUME NEW w \in Workers, FailRead(w) PROVE HasClaimLeft(j)'
  BY <1>2, <1>8 DEF FailRead, SameUse, Held
<1>9. ASSUME NEW w \in Workers, GiveUp(w) PROVE HasClaimLeft(j)'
  <2> DEFINE k == held[w]
             s == failTx[w].succ
             folded == [jobs[s] EXCEPT !.requested = Larger(@, jobs[k].requested),
                                       !.needsFull = @ \/ jobs[k].needsFull]
  <2>1. jobs'[j] = IF j = k THEN Ended(jobs[k], "failed") ELSE IF j = s THEN folded ELSE jobs[j]
    BY <1>9 DEF GiveUp
  <2>2. j = s => /\ folded.status = jobs[j].status /\ folded.attempts = jobs[j].attempts
                 /\ folded.lease = jobs[j].lease
    BY <1>0 DEF Job
  <2>3. j # k /\ Held(j) => Held(j)'
    BY <1>9, OthersStayHeld DEF GiveUp, CloseFailTx
  <2>4. j = k => Ended(jobs[k], "failed").status = "failed" /\ Ended(jobs[k], "failed").attempts = jobs[j].attempts
    BY <1>0 DEF Ended, Job
  <2> HIDE DEF k, s, folded
  <2>5. CASE j = k
    BY <1>0, <1>1, <2>1, <2>4, <2>5 DEF HasClaimLeft
  <2>6. CASE j # k
    BY <1>2, <2>1, <2>2, <2>3, <2>6 DEF SameUse
  <2> QED  BY <2>5, <2>6
<1>10. ASSUME NEW w \in Workers, Release(w) PROVE HasClaimLeft(j)'
  BY <1>5, <1>10 DEF Release, MayRetry, CloseFailTx
<1>11. ASSUME NEW w \in Workers, jobs' = jobs, held' = [held EXCEPT ![w] = NoJob],
              j = held[w] => jobs[j].attempts < Budget'
       PROVE  HasClaimLeft(j)'
  <2>1. CASE j = held[w]
    BY <1>0, <1>1, <1>11, <2>1 DEF HasClaimLeft
  <2>2. CASE j # held[w]
    <3>1. Held(j) => Held(j)'
      BY <1>11, <2>2, OthersStayHeld
    <3> QED  BY <1>2, <1>11, <3>1 DEF SameUse
  <2> QED  BY <2>1, <2>2
<1>12. ASSUME NEW w \in Workers, FailConflict(w) PROVE HasClaimLeft(j)'
  <2>1. jobs' = jobs /\ held' = [held EXCEPT ![w] = NoJob] /\ jobs[held[w]].attempts < MaxAttempts
    BY <1>12 DEF FailConflict, MayRetry, CloseFailTx
  <2>2. j = held[w] => jobs[j].attempts < Budget'
    BY <1>1, <2>1
  <2> QED  BY <1>11, <2>1, <2>2
<1>13. ASSUME NEW w \in Workers, Crash(w) PROVE HasClaimLeft(j)'
  <2>1. jobs' = jobs /\ held' = [held EXCEPT ![w] = NoJob] /\ crashes' = crashes + 1 /\ overruns' = overruns
    BY <1>13 DEF Crash, CloseFailTx
  <2>2. jobs[j].attempts < Budget'
    BY <1>0, <1>1, <2>1 DEF HasClaimLeft, Budget
  <2> QED  BY <1>11, <2>1, <2>2
<1>14. ASSUME NEW k \in JobIds, jobs' = [jobs EXCEPT ![k] = [@ EXCEPT !.lease = "expired"]], held' = held,
              j = k => jobs[j].attempts < Budget', jobs[k].status = "running"
       PROVE  HasClaimLeft(j)'
  <2>1. CASE j = k
    <3>1. jobs'[j].status = "running" /\ jobs'[j].attempts = jobs[j].attempts
      BY <1>0, <1>14, <2>1 DEF Job, QueueTypeOK
    <3> QED  BY <1>1, <1>14, <2>1, <3>1 DEF HasClaimLeft
  <2>2. CASE j # k
    BY <1>2, <1>14, <2>2 DEF SameUse, Held, QueueTypeOK
  <2> QED  BY <2>1, <2>2
<1>15. ASSUME NEW k \in JobIds, LeaseLapses(k) PROVE HasClaimLeft(j)'
  <2>1. j = k => jobs[j].attempts < Budget'
    BY <1>0, <1>1, <1>15 DEF LeaseLapses, HasClaimLeft
  <2> QED  BY <1>14, <1>15, <2>1 DEF LeaseLapses
<1>16. ASSUME NEW k \in JobIds, LeaseOverrun(k) PROVE HasClaimLeft(j)'
  <2>1. crashes' = crashes /\ overruns' = overruns + 1
    BY <1>16 DEF LeaseOverrun
  <2>2. jobs[j].attempts < Budget'
    BY <1>0, <1>1, <2>1 DEF HasClaimLeft, Budget
  <2> QED  BY <1>14, <1>16, <2>2 DEF LeaseOverrun
<1>17. CASE UNCHANGED queueVars
  BY <1>2, <1>17 DEF queueVars, SameUse, Held
<1> QED
  BY <1>3, <1>4, <1>6, <1>7, <1>8, <1>9, <1>10, <1>12, <1>13, <1>15, <1>16, <1>17
     DEF QueueNext, FailJob

\* A job is claimed at most MaxAttempts times, and once more for each worker that died and
\* each lease that was outlived: claim_job counts without a limit, but whoever lets go
\* of a row that could be claimed again has either been checked by fail_job or died.
THEOREM AttemptsBoundedCorrect == QueueSpec => []AttemptsAreBounded
<1>1. QueueInit => BudgetInv
  <2> SUFFICES ASSUME QueueInit, NEW j \in JobIds PROVE HasClaimLeft(j)
    BY DEF BudgetInv
  <2>1. jobs[j].status = "absent" /\ jobs[j].attempts = 0 /\ crashes = 0 /\ overruns = 0
    BY DEF QueueInit, Absent
  <2> QED  BY <2>1, QueueAssumption DEF HasClaimLeft, Budget
<1>2. BudgetInv => AttemptsAreBounded
  BY DEF BudgetInv, HasClaimLeft, Budget, AttemptsAreBounded
<1> QED  BY <1>1, <1>2, BudgetStep, QueueTypeCorrect, PTL DEF QueueSpec

-----------------------------------------------------------------------------
(* Rows are never deleted and never change their mailbox.                  *)

\* What is not absent belongs to a mailbox, and workers and open
\* transactions name only rows that are there.
Placed ==
  /\ \A j \in JobIds : jobs[j].status # "absent" => jobs[j].mailbox \in Mailboxes
  /\ \A w \in Workers : held[w] # NoJob => jobs[held[w]].status # "absent"
  /\ \A w \in Workers : failTx[w].succ # NoJob => jobs[failTx[w].succ].status # "absent"

RowKept(j) ==
  /\ jobs[j].status # "absent" /\ jobs'[j].status # "absent"
  /\ jobs'[j].mailbox = jobs[j].mailbox

RowInserted(j) ==
  /\ jobs[j].status = "absent" /\ jobs'[j].status = "pending"
  /\ jobs'[j].mailbox \in Mailboxes

\* An UPDATE of a row that is there keeps every row in its mailbox.
LEMMA OneRowKept ==
  ASSUME QueueTypeOK, NEW k, NEW row,
         k \in JobIds => /\ jobs[k].status # "absent"
                         /\ row.status # "absent" /\ row.mailbox = jobs[k].mailbox,
         jobs' = [jobs EXCEPT ![k] = row],
         NEW j \in JobIds
  PROVE  RowKept(j) \/ jobs'[j] = jobs[j]
<1>1. jobs'[j] = IF j = k THEN row ELSE jobs[j]
  BY DEF QueueTypeOK
<1> QED  BY <1>1 DEF RowKept

\* Every statement of the queue inserts a row or keeps it in its mailbox.
LEMMA RowsKept ==
  ASSUME QueueTypeOK, Placed, [QueueNext]_queueVars, NEW j \in JobIds
  PROVE  RowKept(j) \/ RowInserted(j) \/ jobs'[j] = jobs[j]
<1>0. \A k \in JobIds : jobs[k] \in Job
  BY DEF QueueTypeOK
<1>1. ASSUME NEW mb \in Mailboxes, NEW h \in HistoryIds, NEW full \in BOOLEAN,
             RecordNotification(mb, h, full)
      PROVE  RowKept(j) \/ RowInserted(j) \/ jobs'[j] = jobs[j]
  <2>1. CASE Pending(mb) # {}
    <3>1. PICK p \in Pending(mb) : jobs' = [jobs EXCEPT ![p] = Asking(@, h)]
      BY <1>1, <2>1 DEF RecordNotification, Enqueue
    <3>2. /\ p \in JobIds /\ jobs[p].status = "pending"
          /\ Asking(jobs[p], h).mailbox = jobs[p].mailbox
          /\ Asking(jobs[p], h).status = jobs[p].status
      BY <1>0 DEF Pending, Asking, Job
    <3> QED  BY <3>1, <3>2, OneRowKept
  <2>2. CASE Pending(mb) = {}
    <3> DEFINE row == [mailbox |-> mb, requested |-> h, needsFull |-> full,
                       status |-> "pending", attempts |-> 0, lease |-> "none"]
    <3>1. PICK k \in JobIds : jobs[k].status = "absent" /\ jobs' = [jobs EXCEPT ![k] = row]
      BY <1>1, <2>2 DEF RecordNotification, Enqueue
    <3>2. row.mailbox = mb /\ row.status = "pending"
      OBVIOUS
    <3> HIDE DEF row
    <3>3. jobs'[j] = IF j = k THEN row ELSE jobs[j]
      BY <3>1 DEF QueueTypeOK
    <3> QED  BY <3>1, <3>2, <3>3 DEF RowInserted
  <2> QED  BY <2>1, <2>2
<1>2. ASSUME NEW w \in Workers, ClaimJob(w) PROVE RowKept(j) \/ jobs'[j] = jobs[j]
  <2>1. PICK k \in JobIds : Claimable(k) /\ jobs' = [jobs EXCEPT ![k] = Claimed(@)]
    BY <1>2 DEF ClaimJob
  <2>2. /\ jobs[k].status # "absent" /\ Claimed(jobs[k]).status # "absent"
        /\ Claimed(jobs[k]).mailbox = jobs[k].mailbox
    BY <1>0, <2>1 DEF Claimed, Claimable, Job
  <2> QED  BY <2>1, <2>2, OneRowKept
<1>3. ASSUME NEW w \in Workers, held[w] # NoJob, NEW st \in {"pending", "done"},
             jobs' = [jobs EXCEPT ![held[w]] = Ended(@, st)]
      PROVE  RowKept(j) \/ jobs'[j] = jobs[j]
  <2>1. held[w] \in JobIds =>
          /\ jobs[held[w]].status # "absent"
          /\ Ended(jobs[held[w]], st).status # "absent"
          /\ Ended(jobs[held[w]], st).mailbox = jobs[held[w]].mailbox
    BY <1>0, <1>3 DEF Ended, Job, Placed
  <2> QED  BY <1>3, <2>1, OneRowKept
<1>4. ASSUME NEW w \in Workers, CompleteJob(w) PROVE RowKept(j) \/ jobs'[j] = jobs[j]
  BY <1>3, <1>4 DEF CompleteJob
<1>5. ASSUME NEW w \in Workers, MarkJobNeedsFullSync(w) PROVE RowKept(j) \/ jobs'[j] = jobs[j]
  <2>1. held[w] \in JobIds =>
          LET row == [jobs[held[w]] EXCEPT !.needsFull = TRUE]
          IN  /\ jobs[held[w]].status # "absent"
              /\ row.status # "absent" /\ row.mailbox = jobs[held[w]].mailbox
    BY <1>0, <1>5 DEF Job, Placed, MarkJobNeedsFullSync
  <2> QED  BY <1>5, <2>1, OneRowKept DEF MarkJobNeedsFullSync
<1>6. ASSUME NEW w \in Workers, GiveUp(w) PROVE RowKept(j) \/ jobs'[j] = jobs[j]
  <2> DEFINE k == held[w]
             s == failTx[w].succ
             folded == [jobs[s] EXCEPT !.requested = Larger(@, jobs[k].requested),
                                       !.needsFull = @ \/ jobs[k].needsFull]
  <2>1. k \in JobIds => /\ jobs[k].status # "absent"
                        /\ Ended(jobs[k], "failed").status # "absent"
                        /\ Ended(jobs[k], "failed").mailbox = jobs[k].mailbox
    BY <1>0, <1>6 DEF Ended, Job, Placed, GiveUp, QueueTypeOK
  <2>2. s \in JobIds => /\ jobs[s].status # "absent"
                        /\ folded.status = jobs[s].status
                        /\ folded.mailbox = jobs[s].mailbox
    BY <1>0 DEF Job, Placed, JobIds, NoJob
  <2>3. jobs'[j] = IF j = k THEN Ended(jobs[k], "failed")
                   ELSE IF j = s THEN folded ELSE jobs[j]
    BY <1>6 DEF GiveUp
  <2> HIDE DEF k, s, folded
  <2> QED  BY <2>1, <2>2, <2>3 DEF RowKept
<1>7. ASSUME NEW w \in Workers, Release(w) PROVE RowKept(j) \/ jobs'[j] = jobs[j]
  <2>1. held[w] # NoJob
    BY <1>7 DEF Release, MayRetry, QueueTypeOK
  <2> QED  BY <1>3, <1>7, <2>1 DEF Release
<1>8. ASSUME NEW k \in JobIds, LeaseLapses(k) \/ LeaseOverrun(k)
      PROVE  RowKept(j) \/ jobs'[j] = jobs[j]
  <2>1. LET row == [jobs[k] EXCEPT !.lease = "expired"]
        IN  /\ jobs[k].status # "absent"
            /\ row.status # "absent" /\ row.mailbox = jobs[k].mailbox
    BY <1>0, <1>8 DEF Job, LeaseLapses, LeaseOverrun
  <2>2. jobs' = [jobs EXCEPT ![k] = [@ EXCEPT !.lease = "expired"]]
    BY <1>8 DEF LeaseLapses, LeaseOverrun
  <2> QED  BY <2>1, <2>2, OneRowKept
<1>9. ASSUME NEW w \in Workers, FailRead(w) \/ FailConflict(w) \/ Crash(w)
      PROVE  jobs'[j] = jobs[j]
  BY <1>9 DEF FailRead, FailConflict, Crash
<1>10. CASE UNCHANGED queueVars
  BY <1>10 DEF queueVars
<1> QED
  BY <1>1, <1>2, <1>4, <1>5, <1>6, <1>7, <1>8, <1>9, <1>10 DEF QueueNext, FailJob

\* Rows stay in their mailbox and workers keep naming rows that are there.
LEMMA PlacedStep == QueueTypeOK /\ Placed /\ [QueueNext]_queueVars => Placed'
<1> SUFFICES ASSUME QueueTypeOK, Placed, [QueueNext]_queueVars PROVE Placed'
  OBVIOUS
<1>1. \A j \in JobIds : RowKept(j) \/ RowInserted(j) \/ jobs'[j] = jobs[j]
  BY RowsKept
<1>2. \A j \in JobIds : jobs'[j].status # "absent" => jobs'[j].mailbox \in Mailboxes
  BY <1>1 DEF RowKept, RowInserted, Placed
<1>3. \A j \in JobIds : jobs[j].status # "absent" => jobs'[j].status # "absent"
  BY <1>1 DEF RowKept, RowInserted
<1>4. ASSUME NEW w \in Workers
      PROVE  held'[w] = held[w] \/ held'[w] = NoJob
             \/ (held'[w] \in JobIds /\ jobs[held'[w]].status # "absent")
  <2>1. ASSUME NEW v \in Workers, ClaimJob(v)
        PROVE  held'[w] = held[w] \/ (held'[w] \in JobIds /\ jobs[held'[w]].status # "absent")
    <3>1. PICK k \in JobIds : Claimable(k) /\ held' = [held EXCEPT ![v] = k]
      BY <2>1 DEF ClaimJob
    <3>2. jobs[k].status # "absent"
      BY <3>1 DEF Claimable
    <3> QED  BY <3>1, <3>2 DEF QueueTypeOK
  <2>2. ASSUME NEW v \in Workers, held' = [held EXCEPT ![v] = NoJob]
        PROVE  held'[w] = held[w] \/ held'[w] = NoJob
    BY <2>2 DEF QueueTypeOK
  <2> QED
    BY <2>1, <2>2 DEF QueueNext, queueVars, RecordNotification, CompleteJob,
       MarkJobNeedsFullSync, FailJob, FailRead, GiveUp, Release, FailConflict, CloseFailTx,
       Crash, LeaseLapses, LeaseOverrun, faultVars
<1>5. \A w \in Workers : held'[w] # NoJob => jobs'[held'[w]].status # "absent"
  BY <1>3, <1>4 DEF Placed, QueueTypeOK
<1>6. ASSUME NEW w \in Workers
      PROVE  failTx'[w].succ = failTx[w].succ \/ failTx'[w].succ = NoJob
             \/ (failTx'[w].succ \in JobIds /\ jobs[failTx'[w].succ].status # "absent")
  <2>1. ASSUME NEW v \in Workers, FailRead(v)
        PROVE  failTx'[w].succ = failTx[w].succ \/ failTx'[w].succ = NoJob
               \/ (failTx'[w].succ \in JobIds /\ jobs[failTx'[w].succ].status # "absent")
    <3>1. PICK s \in JobIds \cup {NoJob} :
            /\ s = NoJob \/ s \in Pending(jobs[held[v]].mailbox)
            /\ failTx' = [failTx EXCEPT ![v] = [open |-> TRUE, succ |-> s]]
      BY <2>1 DEF FailRead
    <3> QED  BY <3>1 DEF QueueTypeOK, Pending
  <2>2. ASSUME NEW v \in Workers, CloseFailTx(v)
        PROVE  failTx'[w].succ = failTx[w].succ \/ failTx'[w].succ = NoJob
    BY <2>2 DEF QueueTypeOK, CloseFailTx, NoTx
  <2> QED
    BY <2>1, <2>2 DEF QueueNext, queueVars, RecordNotification, CompleteJob, ClaimJob,
       MarkJobNeedsFullSync, FailJob, GiveUp, Release, FailConflict,
       Crash, LeaseLapses, LeaseOverrun, faultVars
<1>7. \A w \in Workers : failTx'[w].succ # NoJob => jobs'[failTx'[w].succ].status # "absent"
  BY <1>3, <1>6 DEF Placed, QueueTypeOK
<1> QED  BY <1>2, <1>5, <1>7 DEF Placed
=============================================================================
