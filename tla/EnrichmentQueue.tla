-------------------------- MODULE EnrichmentQueue --------------------------
(***************************************************************************)
(* The job table the asynchronous enrichments share in kind: one row per   *)
(* stored row to enrich and digest of its inputs. chunk_context_jobs is    *)
(* the one mapped here; the statements graph/repository.py and             *)
(* rag/attachments/repository.py run on their tables differ in names only. *)
(*                                                                         *)
(* A row whose subject is deleted goes with it (ON DELETE CASCADE): it is  *)
(* "gone", its id is never used again, and updates that name it change     *)
(* nothing. Unlike SyncJobQueue, failing a job is one UPDATE.              *)
(*                                                                         *)
(* The operators say what happens to jobs, held and the fault counters;    *)
(* the modules that instantiate this one put them into their transactions. *)
(***************************************************************************)
EXTENDS Integers, FiniteSets

CONSTANTS
  Subjects,     \* chunk_id or attachment_id: what a job is about
  RowIds,       \* database ids of the subjects' rows
  Digests,      \* fingerprints of the inputs a job was queued for
  Workers,
  MaxAttempts,  \* the workers' max_attempts
  MaxJobs,      \* bound: rows the model's job table can hold
  MaxCrashes,   \* bound: how often a worker dies holding a job
  MaxOverruns   \* bound: how often a worker outlives the lease of its job

VARIABLES
  jobs,    \* the table: id -> row
  held,    \* worker -> id of the job it believes it is running, or NoJob
  crashes, overruns  \* how often each has happened

NoJob == 0
JobIds == 1 .. MaxJobs
faultVars == <<crashes, overruns>>
queueVars == <<jobs, held, crashes, overruns>>

Unused == [status |-> "absent"]
Gone == [status |-> "gone"]

Job == [subject : Subjects, row : RowIds, digest : Digests,
        status : {"pending", "running", "done", "failed"},
        attempts : Nat, lease : {"none", "live", "expired"}]

QueueInit ==
  /\ jobs = [j \in JobIds |-> Unused]
  /\ held = [w \in Workers |-> NoJob]
  /\ crashes = 0 /\ overruns = 0

QueueTypeOK ==
  /\ jobs \in [JobIds -> Job \cup {Unused, Gone}]
  /\ held \in [Workers -> JobIds \cup {NoJob}]
  /\ crashes \in 0 .. MaxCrashes
  /\ overruns \in 0 .. MaxOverruns

-----------------------------------------------------------------------------
InTable(j) == jobs[j].status \notin {"absent", "gone"}

\* The rows of a subject that were queued for a digest: at most one.
QueuedFor(s, d) == {j \in JobIds : InTable(j) /\ jobs[j].subject = s /\ jobs[j].digest = d}

\* Mutant: one job per subject, whatever its inputs were.
InsertOncePerSubject(s, r, d) ==
  IF \E j \in JobIds : InTable(j) /\ jobs[j].subject = s
    THEN UNCHANGED jobs
    ELSE \E j \in JobIds :
           /\ jobs[j].status = "absent"
           /\ \A i \in 1 .. (j - 1) : jobs[i].status # "absent"
           /\ jobs' = [jobs EXCEPT ![j] =
                [subject |-> s, row |-> r, digest |-> d,
                 status |-> "pending", attempts |-> 0, lease |-> "none"]]

\* INSERT ... ON CONFLICT DO NOTHING: a row in any state collides.
Insert(s, r, d) ==
  IF QueuedFor(s, d) # {}
    THEN UNCHANGED jobs
    ELSE \E j \in JobIds :
           /\ jobs[j].status = "absent"
           /\ \A i \in 1 .. (j - 1) : jobs[i].status # "absent"
           /\ jobs' = [jobs EXCEPT ![j] =
                [subject |-> s, row |-> r, digest |-> d,
                 status |-> "pending", attempts |-> 0, lease |-> "none"]]

\* Mutant: a foreign key without ON DELETE CASCADE.
KeepJobs(rows) == jobs

\* The table after the subjects' rows with these ids are deleted.
WithoutJobsOf(rows) ==
  [j \in JobIds |-> IF InTable(j) /\ jobs[j].row \in rows THEN Gone ELSE jobs[j]]

-----------------------------------------------------------------------------
\* Mutant: claim_job without its expired-lease clause.
ClaimablePending(j) == InTable(j) /\ jobs[j].status = "pending"

Claimable(j) ==
  /\ InTable(j)
  /\ \/ jobs[j].status = "pending"
     \/ jobs[j].status = "running" /\ jobs[j].lease = "expired"

Claimed(row) ==
  [row EXCEPT !.status = "running", !.lease = "live", !.attempts = @ + 1]

\* claim_job: the claimable row of lowest id.
ClaimJob(w) ==
  /\ held[w] = NoJob
  /\ \E j \in JobIds :
       /\ Claimable(j)
       /\ \A i \in 1 .. (j - 1) : ~Claimable(i)
       /\ jobs' = [jobs EXCEPT ![j] = Claimed(@)]
       /\ held' = [held EXCEPT ![w] = j]
  /\ UNCHANGED faultVars

\* The row named by w's job set to a status, if it is still there; neither its
\* present status nor the owner of its lease is checked.
Ended(w, st) ==
  [j \in JobIds |-> IF j = held[w] /\ InTable(j)
                      THEN [jobs[j] EXCEPT !.status = st, !.lease = "none"] ELSE jobs[j]]

LetGo(w) == held' = [held EXCEPT ![w] = NoJob]

\* Mutant: fail_job gives every job another attempt.
FailAgain(w, budget) == jobs' = Ended(w, "pending") /\ LetGo(w) /\ UNCHANGED faultVars

\* fail_job: another attempt while the budget lasts.
FailJob(w, budget) ==
  /\ held[w] # NoJob
  /\ jobs' = Ended(w, IF InTable(held[w]) /\ jobs[held[w]].attempts >= budget
                        THEN "failed" ELSE "pending")
  /\ LetGo(w)
  /\ UNCHANGED faultVars

\* _retire.
RetireJob(w) ==
  /\ held[w] # NoJob
  /\ jobs' = Ended(w, "done")
  /\ LetGo(w)
  /\ UNCHANGED faultVars

\* The process dies; the row keeps its lease.
Crash(w) ==
  /\ held[w] # NoJob /\ crashes < MaxCrashes
  /\ crashes' = crashes + 1
  /\ LetGo(w)
  /\ UNCHANGED <<jobs, overruns>>

Held(j) == \E w \in Workers : held[w] = j

Leased(j) == InTable(j) /\ jobs[j].lease = "live"

Expired(j) == [jobs EXCEPT ![j] = [@ EXCEPT !.lease = "expired"]]

\* Time passes a lease nobody works under.
LeaseLapses(j) ==
  /\ Leased(j) /\ ~Held(j)
  /\ jobs' = Expired(j)
  /\ UNCHANGED <<held, faultVars>>

\* The call to the model outlives the lease: nothing renews it.
LeaseOverrun(j) ==
  /\ Leased(j) /\ Held(j)
  /\ overruns < MaxOverruns
  /\ overruns' = overruns + 1
  /\ jobs' = Expired(j)
  /\ UNCHANGED <<held, crashes>>
=============================================================================
