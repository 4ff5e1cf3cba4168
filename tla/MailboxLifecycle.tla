------------------------- MODULE MailboxLifecycle -------------------------
(***************************************************************************)
(* The life of a row of gmail_mailboxes: connected through OAuth           *)
(* (gmail/routes.py, gmail/service.py), its watch renewed by cron, its     *)
(* status overwritten by sync runs, disconnected and connected again.      *)
(*                                                                         *)
(* Callbacks, the renewal run, workers and disconnects run in processes of *)
(* their own; every committed statement is a step, so any of them may      *)
(* overtake another that works from a row it read earlier. What a sync     *)
(* does to mail is GmailSync; here only its writes to the row count.       *)
(*                                                                         *)
(* Time is abstracted to "the watch expires within the renewal margin".    *)
(***************************************************************************)
EXTENDS Naturals, FiniteSets

CONSTANTS
  Rows,        \* gmail_mailboxes rows, named by their (tenant, mailbox_id)
  Addresses,   \* Gmail accounts
  States,      \* OAuth states; bound: how many connects are started
  Workers,     \* sync workers
  MaxCrashes,  \* bound: how often a worker or a renewal run dies
  None         \* NULL

ASSUME LifecycleAssumption ==
  /\ None \notin Rows /\ None \notin Addresses
  /\ MaxCrashes \in Nat

VARIABLES
  row,      \* the table
  watched,  \* accounts users.watch was ever called for: Gmail may push them
  conn,     \* OAuth state -> the callback that uses it
  jobs,     \* rows a worker still has to sync
  sync,     \* worker -> its run
  renew,    \* the renewal run: where it is, rows still to renew, credentials read
  crashes,  \* how often one has died
  missed    \* history variable: rows whose last renewal failed

vars == <<row, watched, conn, jobs, sync, renew, crashes, missed>>

Mailbox ==
  [address : Addresses \cup {None}, cred : Addresses \cup {None},
   status : {"absent", "pending", "active", "needs_full_sync", "error", "disconnected"},
   cursor : BOOLEAN, expiry : {"none", "far", "near"}]

NotConnected ==
  [address |-> None, cred |-> None, status |-> "absent", cursor |-> FALSE,
   expiry |-> "none"]

Connect ==
  [at : {"unused", "open", "read", "write", "watch", "activate", "spent"},
   key : Rows \cup {None}, address : Addresses \cup {None}, target : Rows \cup {None}]

Idle == [at |-> "idle", on |-> None, cred |-> None]

Renewal ==
  [at : {"idle", "next", "store"}, todo : SUBSET Rows, on : Rows \cup {None},
   creds : [Rows -> Addresses \cup {None}]]

Resting == [at |-> "idle", todo |-> {}, on |-> None, creds |-> [r \in Rows |-> None]]

Init ==
  /\ row = [r \in Rows |-> NotConnected]
  /\ watched = {}
  /\ conn = [s \in States |->
       [at |-> "unused", key |-> None, address |-> None, target |-> None]]
  /\ jobs = {}
  /\ sync = [w \in Workers |-> Idle]
  /\ renew = Resting
  /\ crashes = 0
  /\ missed = {}

-----------------------------------------------------------------------------
(* The table.                                                              *)

Live(r) == row[r].status \notin {"absent", "disconnected"}

LiveAt(a) == {r \in Rows : Live(r) /\ row[r].address = a}

\* gmail_mailboxes_live_address_idx admits the row.
Admits(r, mailbox) == LiveAt(mailbox.address) \subseteq {r}

\* A write that the index may refuse: the writer's transaction then fails, which each
\* of them below has a step for.
Put(r, mailbox) == Admits(r, mailbox) /\ row' = [row EXCEPT ![r] = mailbox]

\* set_mailbox_status: whatever status the row has now.
WithStatus(r, st) == [row[r] EXCEPT !.status = st]

\* activate_watch: COALESCE keeps a cursor that is there.
Watched(r) == [row[r] EXCEPT !.cursor = TRUE, !.expiry = "far", !.status = "active"]

-----------------------------------------------------------------------------
(* OAuth and connect_mailbox.                                              *)

Move(s, label) == conn' = [conn EXCEPT ![s].at = label]

\* start_authorization stores a state for one mailbox.
Start(s, r) ==
  /\ conn[s].at = "unused"
  /\ conn' = [conn EXCEPT ![s] = [@ EXCEPT !.at = "open", !.key = r]]
  /\ UNCHANGED <<row, watched, jobs, sync, renew, crashes, missed>>

\* The callback consumes the state, exchanges the code and reads the profile
\* of the account the user has chosen. A second callback finds it consumed.
Callback(s, a) ==
  /\ conn[s].at = "open"
  /\ conn' = [conn EXCEPT ![s] = [@ EXCEPT !.at = "read", !.address = a]]
  /\ UNCHANGED <<row, watched, jobs, sync, renew, crashes, missed>>

\* upsert_mailbox, its SELECT: a live row of another mailbox has the address.
\* The SELECT takes no lock.
UpsertRead(s) ==
  LET others == LiveAt(conn[s].address) \ {conn[s].key}
  IN  /\ conn[s].at = "read"
      /\ \E t \in Rows \cup {None} :
           /\ IF others = {} THEN t = None ELSE t \in others
           /\ conn' = [conn EXCEPT ![s] = [@ EXCEPT !.at = "write", !.target = t]]
      /\ UNCHANGED <<row, watched, jobs, sync, renew, crashes, missed>>

\* upsert_mailbox, its write: refresh that row in place, or insert the
\* mailbox's own row; cursor and expiration of an existing row stay.
UpsertWrite(s) ==
  LET c == conn[s]
      r == IF c.target = None THEN c.key ELSE c.target
      a == IF c.target = None THEN c.address ELSE row[r].address
  IN  /\ c.at = "write"
      /\ Put(r, [row[r] EXCEPT !.address = a, !.cred = c.address, !.status = "pending"])
      /\ conn' = [conn EXCEPT ![s] = [@ EXCEPT !.at = "watch", !.target = r]]
      /\ missed' = missed \ {r}
      /\ UNCHANGED <<watched, jobs, sync, renew, crashes>>

\* users.watch: from here on Gmail pushes.
CallWatch(s) ==
  /\ conn[s].at = "watch"
  /\ watched' = watched \cup {conn[s].address}
  /\ Move(s, "activate")
  /\ UNCHANGED <<row, jobs, sync, renew, crashes, missed>>

Activate(s) ==
  /\ conn[s].at = "activate"
  /\ Put(conn[s].target, Watched(conn[s].target))
  /\ Move(s, "spent")
  /\ UNCHANGED <<watched, jobs, sync, renew, crashes, missed>>

\* The state expires, Google or Gmail refuses, the unique index refuses the
\* row, or the process dies: the connect ends where it is.
ConnectEnds(s) ==
  /\ conn[s].at \notin {"unused", "spent"}
  /\ Move(s, "spent")
  /\ UNCHANGED <<row, watched, jobs, sync, renew, crashes, missed>>

\* disconnect_mailbox, for a row its caller has read before. The cursor and
\* the address stay.
Disconnect(r) ==
  /\ row[r].status # "absent"
  /\ row' = [row EXCEPT ![r] =
       [@ EXCEPT !.status = "disconnected", !.cred = None, !.expiry = "none"]]
  /\ missed' = missed \ {r}
  /\ UNCHANGED <<watched, conn, jobs, sync, renew, crashes>>

-----------------------------------------------------------------------------
(* Sync runs, as far as they write the row.                                *)

\* record_notification: a push names an address; at most one row is live.
Notify(a) ==
  /\ a \in watched
  /\ \E r \in LiveAt(a) : jobs' = jobs \cup {r}
  /\ UNCHANGED <<row, watched, conn, sync, renew, crashes, missed>>

Step(w, label) == sync' = [sync EXCEPT ![w].at = label]

Claim(w) ==
  /\ sync[w].at = "idle"
  /\ \E r \in jobs :
       /\ jobs' = jobs \ {r}
       /\ sync' = [sync EXCEPT ![w] = [at |-> "read", on |-> r, cred |-> None]]
  /\ UNCHANGED <<row, watched, conn, renew, crashes, missed>>

\* run_once drops the job of a disconnected mailbox.
ReadRow(w) ==
  LET r == sync[w].on
  IN  /\ sync[w].at = "read"
      /\ sync' = [sync EXCEPT ![w] =
           IF row[r].status = "disconnected" THEN Idle
           ELSE [at |-> "sync", on |-> r, cred |-> row[r].cred]]
      /\ UNCHANGED <<row, watched, conn, jobs, renew, crashes, missed>>

\* run_sync: the history has expired.
MarkRow(w) ==
  /\ sync[w].at = "sync" /\ sync[w].cred # None
  /\ Put(sync[w].on, WithStatus(sync[w].on, "needs_full_sync"))
  /\ Step(w, "full")
  /\ UNCHANGED <<watched, conn, jobs, renew, crashes, missed>>

\* Mutant: the status is set before the cursor is committed.
ActiveFirst(w) ==
  /\ sync[w].at \in {"sync", "full"} /\ sync[w].cred # None
  /\ Put(sync[w].on, WithStatus(sync[w].on, "active"))
  /\ Step(w, "active")
  /\ UNCHANGED <<watched, conn, jobs, renew, crashes, missed>>

\* run_sync: commit_history_cursor.
Commit(w) ==
  /\ sync[w].at \in {"sync", "full"} /\ sync[w].cred # None
  /\ row' = [row EXCEPT ![sync[w].on].cursor = TRUE]
  /\ Step(w, "active")
  /\ UNCHANGED <<watched, conn, jobs, renew, crashes, missed>>

\* run_sync, last: set_mailbox_status; run_once completes the job.
SetActive(w) ==
  /\ sync[w].at = "active"
  /\ Put(sync[w].on, WithStatus(sync[w].on, "active"))
  /\ sync' = [sync EXCEPT ![w] = Idle]
  /\ UNCHANGED <<watched, conn, jobs, renew, crashes, missed>>

\* No credential, a Gmail error or a refused row: fail_job retries or gives up.
SyncFails(w) ==
  /\ sync[w].at \in {"sync", "full", "active"}
  /\ jobs' \in {jobs, jobs \cup {sync[w].on}}
  /\ Step(w, "error")
  /\ UNCHANGED <<row, watched, conn, renew, crashes, missed>>

SetError(w) ==
  /\ sync[w].at = "error"
  /\ Put(sync[w].on, WithStatus(sync[w].on, "error"))
  /\ sync' = [sync EXCEPT ![w] = Idle]
  /\ UNCHANGED <<watched, conn, jobs, renew, crashes, missed>>

\* The index refuses the status: the error escapes run_once.
ErrorRefused(w) ==
  /\ sync[w].at = "error" /\ ~Admits(sync[w].on, WithStatus(sync[w].on, "error"))
  /\ sync' = [sync EXCEPT ![w] = Idle]
  /\ UNCHANGED <<row, watched, conn, jobs, renew, crashes, missed>>

\* A job that is not done or failed is claimed again when its lease runs out.
WorkerDies(w) ==
  /\ sync[w].at # "idle" /\ crashes < MaxCrashes
  /\ crashes' = crashes + 1
  /\ jobs' = IF sync[w].at = "error" THEN jobs ELSE jobs \cup {sync[w].on}
  /\ sync' = [sync EXCEPT ![w] = Idle]
  /\ UNCHANGED <<row, watched, conn, renew, missed>>

-----------------------------------------------------------------------------
(* renew_expiring_watches, run from cron.                                  *)

\* The watch comes within the margin of its expiration.
Age(r) ==
  /\ row[r].expiry = "far"
  /\ row' = [row EXCEPT ![r].expiry = "near"]
  /\ UNCHANGED <<watched, conn, jobs, sync, renew, crashes, missed>>

\* mailboxes_due_for_watch_renewal.
Due ==
  {r \in Rows : row[r].status \in {"active", "needs_full_sync"} /\ row[r].expiry = "near"}

\* Mutant: only active mailboxes are listed.
RenewActive ==
  LET due == {r \in Due : row[r].status = "active"}
  IN  /\ renew.at = "idle" /\ due # {}
      /\ renew' = [at |-> "next", todo |-> due, on |-> None,
                   creds |-> [r \in Rows |-> IF r \in due THEN row[r].cred ELSE None]]
      /\ UNCHANGED <<row, watched, conn, jobs, sync, crashes, missed>>

RenewList ==
  /\ renew.at = "idle" /\ Due # {}
  /\ renew' = [at |-> "next", todo |-> Due, on |-> None,
               creds |-> [r \in Rows |-> IF r \in Due THEN row[r].cred ELSE None]]
  /\ UNCHANGED <<row, watched, conn, jobs, sync, crashes, missed>>

\* Mutant: the run does not notice that its list is done.
RestForEver(todo) == renew' = [renew EXCEPT !.at = "next", !.todo = todo, !.on = None]

\* The run goes on with the rest of its list, or ends.
Rest(todo) ==
  renew' = IF todo = {} THEN Resting
           ELSE [renew EXCEPT !.at = "next", !.todo = todo, !.on = None]

\* users.watch with the credential of the row as it was listed.
RenewCall ==
  /\ renew.at = "next"
  /\ \E r \in renew.todo :
       /\ renew.creds[r] # None
       /\ watched' = watched \cup {renew.creds[r]}
       /\ renew' = [renew EXCEPT !.at = "store", !.on = r]
  /\ UNCHANGED <<row, conn, jobs, sync, crashes, missed>>

RenewStore ==
  /\ renew.at = "store"
  /\ Put(renew.on, Watched(renew.on))
  /\ Rest(renew.todo \ {renew.on})
  /\ missed' = missed \ {renew.on}
  /\ UNCHANGED <<watched, conn, jobs, sync, crashes>>

\* A renewal raises: the row is marked, the run goes on.
RenewFails ==
  /\ renew.at \in {"next", "store"}
  /\ \E r \in IF renew.at = "store" THEN {renew.on} ELSE renew.todo :
       /\ Put(r, WithStatus(r, "error"))
       /\ Rest(renew.todo \ {r})
       /\ missed' = IF Live(r) THEN missed \cup {r} ELSE missed
  /\ UNCHANGED <<watched, conn, jobs, sync, crashes>>

\* The mark itself is refused: the row was disconnected and its address is
\* live elsewhere. The error ends the run.
RenewBreaks ==
  /\ renew.at \in {"next", "store"}
  /\ \E r \in IF renew.at = "store" THEN {renew.on} ELSE renew.todo :
       ~Admits(r, WithStatus(r, "error"))
  /\ renew' = Resting
  /\ UNCHANGED <<row, watched, conn, jobs, sync, crashes, missed>>

RenewDies ==
  /\ renew.at # "idle" /\ crashes < MaxCrashes
  /\ crashes' = crashes + 1
  /\ renew' = Resting
  /\ UNCHANGED <<row, watched, conn, jobs, sync, missed>>

-----------------------------------------------------------------------------
Connecting(s) ==
  \/ \E r \in Rows : Start(s, r)
  \/ \E a \in Addresses : Callback(s, a)
  \/ UpsertRead(s) \/ UpsertWrite(s) \/ CallWatch(s) \/ Activate(s) \/ ConnectEnds(s)

Syncing(w) ==
  \/ Claim(w) \/ ReadRow(w) \/ MarkRow(w) \/ Commit(w) \/ SetActive(w)
  \/ SyncFails(w) \/ SetError(w) \/ ErrorRefused(w) \/ WorkerDies(w)

Renewing == RenewCall \/ RenewStore \/ RenewFails \/ RenewBreaks

Next ==
  \/ \E s \in States : Connecting(s)
  \/ \E r \in Rows : Disconnect(r) \/ Age(r)
  \/ \E a \in Addresses : Notify(a)
  \/ \E w \in Workers : Syncing(w)
  \/ RenewList \/ Renewing \/ RenewDies

Spec == Init /\ [][Next]_vars

\* Cron starts a renewal run again and again, and a run that does not die
\* works through its list. Nothing makes users connect or mail arrive.
Fairness == WF_vars(RenewList) /\ WF_vars(Renewing)

FairSpec == Spec /\ Fairness

-----------------------------------------------------------------------------
(* Properties.                                                             *)

\* Rows, callbacks, runs and the renewal stay well formed: a step that writes
\* a row knows which, and a renewal run that goes on has rows left.
LifecycleTypeOK ==
  /\ row \in [Rows -> Mailbox]
  /\ watched \subseteq Addresses
  /\ conn \in [States -> Connect]
  /\ jobs \subseteq Rows
  /\ sync \in [Workers -> [at : {"idle", "read", "sync", "full", "active", "error"},
                           on : Rows \cup {None}, cred : Addresses \cup {None}]]
  /\ \A w \in Workers : sync[w].at # "idle" => sync[w].on \in Rows
  /\ \A s \in States :
       /\ conn[s].at \notin {"unused", "spent"} => conn[s].key \in Rows
       /\ conn[s].at \in {"read", "write", "watch", "activate"} => conn[s].address \in Addresses
       /\ conn[s].at \in {"watch", "activate"} => conn[s].target \in Rows
  /\ renew \in Renewal
  /\ renew.at = "next" => renew.todo # {}
  /\ renew.at = "store" => renew.on \in renew.todo
  /\ crashes \in 0 .. MaxCrashes
  /\ missed \subseteq Rows

\* An active mailbox has a cursor, although three kinds of process set the
\* status and two the cursor ("never an active mailbox with no cursor").
ActiveHasCursor == \A r \in Rows : row[r].status = "active" => row[r].cursor

\* A watch close to expiry is eventually renewed or its renewal has failed,
\* while the mailbox keeps a status that is renewed: neither a broken or dying
\* run nor the other mailboxes on its list starve it.
DueIsTried ==
  \A r \in Rows :
    r \in Due ~> \/ row[r].expiry = "far" \/ r \in missed
                \/ row[r].status \notin {"active", "needs_full_sync"}
=============================================================================
