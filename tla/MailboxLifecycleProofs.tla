---------------------- MODULE MailboxLifecycleProofs ----------------------
(***************************************************************************)
(* What the table of mailboxes guarantees for every number of rows,        *)
(* accounts, connects, workers and deaths: no active mailbox is without a  *)
(* cursor.                                                                 *)
(***************************************************************************)
EXTENDS MailboxLifecycle, TLAPS

\* A run that will set its mailbox active has committed the cursor.
CommitsFirst == \A w \in Workers : sync[w].at = "active" => row[sync[w].on].cursor

RowsOK == row \in [Rows -> Mailbox] /\ ActiveHasCursor

LifecycleInv == LifecycleTypeOK /\ RowsOK /\ CommitsFirst

\* No row loses its cursor.
CursorsStay == \A r \in Rows : row[r].cursor => row'[r].cursor

-----------------------------------------------------------------------------
(* One row is written.                                                     *)

\* A write keeps the table in order if it keeps the cursor of the row, and makes it active
\* only with one.
LEMMA RowWritten ==
  ASSUME RowsOK, NEW r \in Rows, NEW m \in Mailbox, row' = [row EXCEPT ![r] = m],
         m.status = "active" \/ row[r].cursor => m.cursor
  PROVE  RowsOK' /\ CursorsStay
BY DEF RowsOK, ActiveHasCursor, CursorsStay

\* A new status, with the cursor the row has.
LEMMA StatusWritten ==
  ASSUME RowsOK, NEW r \in Rows,
         NEW st \in {"pending", "active", "needs_full_sync", "error"},
         Put(r, WithStatus(r, st)), st = "active" => row[r].cursor
  PROVE  RowsOK' /\ CursorsStay
<1> DEFINE m == WithStatus(r, st)
<1>1. m \in Mailbox /\ m.status = st /\ m.cursor = row[r].cursor
  BY DEF RowsOK, WithStatus, Mailbox
<1>2. row' = [row EXCEPT ![r] = m]
  BY DEF Put
<1> HIDE DEF m
<1> QED  BY <1>1, <1>2, RowWritten

\* A watch that is stored.
LEMMA WatchWritten ==
  ASSUME RowsOK, NEW r \in Rows, Put(r, Watched(r))
  PROVE  RowsOK' /\ CursorsStay
<1> DEFINE m == Watched(r)
<1>1. m \in Mailbox /\ m.cursor
  BY DEF RowsOK, Watched, Mailbox
<1>2. row' = [row EXCEPT ![r] = m]
  BY DEF Put
<1> HIDE DEF m
<1> QED  BY <1>1, <1>2, RowWritten

\* A write that leaves the status as it was, or disconnects the row.
LEMMA RowEdited ==
  ASSUME RowsOK, NEW r \in Rows, NEW m \in Mailbox, row' = [row EXCEPT ![r] = m],
         m.status \in {row[r].status, "disconnected"},
         row[r].cursor => m.cursor
  PROVE  RowsOK' /\ CursorsStay
<1>1. m.status = "active" => m.cursor
  BY DEF RowsOK, ActiveHasCursor
<1> QED  BY <1>1, RowWritten

-----------------------------------------------------------------------------
(* Every step keeps the table in order.                                    *)

LEMMA RowsStep ==
  ASSUME LifecycleInv, [Next]_vars
  PROVE  RowsOK' /\ CursorsStay
<1> DEFINE Kept == RowsOK' /\ CursorsStay
<1>0. RowsOK /\ LifecycleTypeOK
  BY DEF LifecycleInv
<1>1. ASSUME UNCHANGED row PROVE Kept
  BY <1>0, <1>1 DEF RowsOK, ActiveHasCursor, CursorsStay
<1>2. ASSUME NEW s \in States, UpsertWrite(s) PROVE Kept
  <2> DEFINE c == conn[s]
             r == IF c.target = None THEN c.key ELSE c.target
             a == IF c.target = None THEN c.address ELSE row[r].address
             m == [row[r] EXCEPT !.address = a, !.cred = c.address, !.status = "pending"]
  <2>1. c \in Connect /\ c.key \in Rows /\ c.address \in Addresses
    BY <1>0, <1>2 DEF LifecycleTypeOK, UpsertWrite
  <2>2. r \in Rows
    BY <2>1 DEF Connect
  <2>3. row[r] \in Mailbox
    BY <1>0, <2>2 DEF RowsOK
  <2>4. a \in Addresses \cup {None}
    BY <2>1, <2>3 DEF Mailbox
  <2>5. Put(r, m)
    BY <1>2 DEF UpsertWrite
  <2> HIDE DEF a, r, c
  <2>6. m \in Mailbox /\ m.status = "pending" /\ m.cursor = row[r].cursor
    BY <2>1, <2>3, <2>4 DEF Mailbox
  <2> HIDE DEF m
  <2>7. row' = [row EXCEPT ![r] = m]
    BY <2>5 DEF Put
  <2> QED  BY <1>0, <2>2, <2>6, <2>7, RowWritten
<1>3. ASSUME NEW s \in States, Activate(s) PROVE Kept
  BY <1>0, <1>3, WatchWritten DEF Activate, LifecycleTypeOK
<1>4. ASSUME NEW s \in States, Connecting(s) PROVE Kept
  <2>1. UpsertWrite(s) \/ Activate(s) \/ UNCHANGED row
    BY <1>4 DEF Connecting, Start, Callback, UpsertRead, CallWatch, ConnectEnds
  <2> QED  BY <1>1, <1>2, <1>3, <2>1
<1>5. ASSUME NEW r \in Rows, Disconnect(r) \/ Age(r) PROVE Kept
  <2>1. row[r] \in Mailbox
    BY <1>0 DEF RowsOK
  <2>2. CASE Disconnect(r)
    <3> DEFINE m == [row[r] EXCEPT !.status = "disconnected", !.cred = None, !.expiry = "none"]
    <3>1. row' = [row EXCEPT ![r] = m]
      BY <1>0, <2>2 DEF Disconnect, RowsOK
    <3>2. m \in Mailbox /\ m.address = row[r].address /\ m.status = "disconnected"
          /\ m.cursor = row[r].cursor
      BY <2>1 DEF Mailbox
    <3> HIDE DEF m
    <3> QED  BY <1>0, <3>1, <3>2, RowEdited
  <2>3. CASE Age(r)
    <3> DEFINE m == [row[r] EXCEPT !.expiry = "near"]
    <3>1. row' = [row EXCEPT ![r] = m]
      BY <1>0, <2>3 DEF Age, RowsOK
    <3>2. m \in Mailbox /\ m.address = row[r].address /\ m.status = row[r].status
          /\ m.cursor = row[r].cursor
      BY <2>1 DEF Mailbox
    <3> HIDE DEF m
    <3> QED  BY <1>0, <3>1, <3>2, RowEdited
  <2> QED  BY <1>5, <2>2, <2>3
<1>6. ASSUME NEW w \in Workers, Syncing(w) PROVE Kept
  <2>1. sync[w].at # "idle" => sync[w].on \in Rows
    BY <1>0 DEF LifecycleTypeOK
  <2>2. CASE MarkRow(w)
    BY <1>0, <2>1, <2>2, StatusWritten DEF MarkRow
  <2>3. CASE Commit(w)
    <3> DEFINE r == sync[w].on
               m == [row[r] EXCEPT !.cursor = TRUE]
    <3>1. r \in Rows /\ row[r] \in Mailbox
      BY <1>0, <2>1, <2>3 DEF Commit, RowsOK
    <3>2. row' = [row EXCEPT ![r] = m]
      BY <1>0, <2>3 DEF Commit, RowsOK
    <3> HIDE DEF r
    <3>3. m \in Mailbox /\ m.address = row[r].address /\ m.status = row[r].status /\ m.cursor
      BY <3>1 DEF Mailbox
    <3> HIDE DEF m
    <3> QED  BY <1>0, <3>1, <3>2, <3>3, RowEdited
  <2>4. CASE SetActive(w)
    <3>1. row[sync[w].on].cursor
      BY <2>4 DEF SetActive, LifecycleInv, CommitsFirst
    <3> QED  BY <1>0, <2>1, <2>4, <3>1, StatusWritten DEF SetActive
  <2>5. CASE SetError(w)
    BY <1>0, <2>1, <2>5, StatusWritten DEF SetError
  <2>6. MarkRow(w) \/ Commit(w) \/ SetActive(w) \/ SetError(w) \/ UNCHANGED row
    BY <1>6 DEF Syncing, Claim, ReadRow, SyncFails, ErrorRefused, WorkerDies
  <2> QED  BY <1>1, <2>2, <2>3, <2>4, <2>5, <2>6
<1>7. ASSUME RenewList \/ Renewing \/ RenewDies PROVE Kept
  <2>1. renew \in Renewal /\ (renew.at = "store" => renew.on \in renew.todo)
    BY <1>0 DEF LifecycleTypeOK
  <2>2. CASE RenewStore
    <3>1. renew.on \in Rows
      BY <2>1, <2>2 DEF RenewStore, Renewal
    <3> QED  BY <1>0, <2>2, <3>1, WatchWritten DEF RenewStore
  <2>3. CASE RenewFails
    <3>1. PICK r \in IF renew.at = "store" THEN {renew.on} ELSE renew.todo :
             Put(r, WithStatus(r, "error"))
      BY <2>3 DEF RenewFails
    <3>2. r \in Rows
      BY <2>1, <3>1 DEF Renewal
    <3> QED  BY <1>0, <3>1, <3>2, StatusWritten
  <2>4. RenewStore \/ RenewFails \/ UNCHANGED row
    BY <1>7 DEF RenewList, Renewing, RenewCall, RenewBreaks, RenewDies
  <2> QED  BY <1>1, <2>2, <2>3, <2>4
<1>8. ASSUME NEW a \in Addresses, Notify(a) PROVE Kept
  BY <1>1, <1>8 DEF Notify
<1>9. CASE UNCHANGED vars
  BY <1>1, <1>9 DEF vars
<1> QED  BY <1>4, <1>5, <1>6, <1>7, <1>8, <1>9 DEF Next

-----------------------------------------------------------------------------
(* Every step knows the row it will write.                                 *)

Syncs == [at : {"idle", "read", "sync", "full", "active", "error"},
          on : Rows \cup {None}, cred : Addresses \cup {None}]

\* What each callback, each run and the renewal know of their rows.
ConnOK(c) ==
  /\ c \in Connect
  /\ c.at \notin {"unused", "spent"} => c.key \in Rows
  /\ c.at \in {"read", "write", "watch", "activate"} => c.address \in Addresses
  /\ c.at \in {"watch", "activate"} => c.target \in Rows

SyncOK(x) == x \in Syncs /\ (x.at # "idle" => x.on \in Rows)

RenewOK(x) ==
  /\ x \in Renewal
  /\ x.at = "next" => x.todo # {}
  /\ x.at = "store" => x.on \in x.todo

LEMMA TypeParts ==
  LifecycleTypeOK <=>
    /\ row \in [Rows -> Mailbox] /\ watched \subseteq Addresses
    /\ conn \in [States -> Connect] /\ \A s \in States : ConnOK(conn[s])
    /\ jobs \subseteq Rows
    /\ sync \in [Workers -> Syncs] /\ \A w \in Workers : SyncOK(sync[w])
    /\ RenewOK(renew) /\ crashes \in 0 .. MaxCrashes /\ missed \subseteq Rows
BY DEF LifecycleTypeOK, ConnOK, SyncOK, RenewOK, Syncs

\* A callback that moves on.
LEMMA ConnStep ==
  ASSUME LifecycleTypeOK, NEW s \in States, NEW c, ConnOK(c), conn' = [conn EXCEPT ![s] = c]
  PROVE  conn' \in [States -> Connect] /\ \A t \in States : ConnOK(conn[t])'
<1>1. conn \in [States -> Connect] /\ \A t \in States : ConnOK(conn[t])
  BY TypeParts
<1>2. c \in Connect
  BY DEF ConnOK
<1>3. \A t \in States : ConnOK(conn'[t])
  BY <1>1
<1>4. \A t \in States : ConnOK(conn[t])'
  BY <1>3 DEF ConnOK
<1> QED  BY <1>1, <1>2, <1>4

\* A worker that moves on.
LEMMA SyncStep ==
  ASSUME LifecycleTypeOK, NEW w \in Workers, NEW x, SyncOK(x), sync' = [sync EXCEPT ![w] = x]
  PROVE  sync' \in [Workers -> Syncs] /\ \A v \in Workers : SyncOK(sync[v])'
<1>1. sync \in [Workers -> Syncs] /\ \A v \in Workers : SyncOK(sync[v])
  BY TypeParts
<1>2. x \in Syncs
  BY DEF SyncOK
<1>3. \A v \in Workers : SyncOK(sync'[v])
  BY <1>1
<1>4. \A v \in Workers : SyncOK(sync[v])'
  BY <1>3 DEF SyncOK
<1> QED  BY <1>1, <1>2, <1>4

\* Callbacks stay well formed.
LEMMA ConnsStep ==
  ASSUME LifecycleTypeOK, NEW s \in States, Connecting(s)
  PROVE  /\ conn' \in [States -> Connect] /\ \A t \in States : ConnOK(conn[t])'
         /\ watched' \subseteq Addresses /\ missed' \subseteq Rows
         /\ UNCHANGED <<jobs, sync, renew, crashes>>
<1> DEFINE c == conn[s]
<1>1. ConnOK(c) /\ c \in Connect /\ conn \in [States -> Connect]
      /\ watched \subseteq Addresses /\ missed \subseteq Rows
  BY TypeParts
<1>2. PICK d : conn' = [conn EXCEPT ![s] = d] /\ ConnOK(d)
  <2>1. ASSUME NEW r \in Rows, Start(s, r)
        PROVE  \E d : conn' = [conn EXCEPT ![s] = d] /\ ConnOK(d)
    <3> DEFINE d == [c EXCEPT !.at = "open", !.key = r]
    <3>1. conn' = [conn EXCEPT ![s] = d]
      BY <2>1 DEF Start
    <3>2. ConnOK(d)
      BY <1>1 DEF ConnOK, Connect
    <3> QED  BY <3>1, <3>2
  <2>2. ASSUME NEW a \in Addresses, Callback(s, a)
        PROVE  \E d : conn' = [conn EXCEPT ![s] = d] /\ ConnOK(d)
    <3> DEFINE d == [c EXCEPT !.at = "read", !.address = a]
    <3>1. conn' = [conn EXCEPT ![s] = d]
      BY <2>2 DEF Callback
    <3>2. ConnOK(d)
      BY <1>1, <2>2 DEF Callback, ConnOK, Connect
    <3> QED  BY <3>1, <3>2
  <2>3. ASSUME UpsertRead(s)
        PROVE  \E d : conn' = [conn EXCEPT ![s] = d] /\ ConnOK(d)
    <3>1. PICK t \in Rows \cup {None} :
            conn' = [conn EXCEPT ![s] = [@ EXCEPT !.at = "write", !.target = t]]
      BY <2>3 DEF UpsertRead
    <3> DEFINE d == [c EXCEPT !.at = "write", !.target = t]
    <3>2. conn' = [conn EXCEPT ![s] = d]
      BY <3>1
    <3>3. ConnOK(d)
      BY <1>1, <2>3 DEF UpsertRead, ConnOK, Connect
    <3> QED  BY <3>2, <3>3
  <2>4. ASSUME UpsertWrite(s)
        PROVE  \E d : conn' = [conn EXCEPT ![s] = d] /\ ConnOK(d)
    <3> DEFINE r == IF c.target = None THEN c.key ELSE c.target
               d == [c EXCEPT !.at = "watch", !.target = r]
    <3>1. conn' = [conn EXCEPT ![s] = d]
      BY <2>4 DEF UpsertWrite
    <3>2. c.key \in Rows /\ c.address \in Addresses
      BY <1>1, <2>4 DEF UpsertWrite, ConnOK
    <3>3. r \in Rows
      BY <1>1, <3>2 DEF Connect
    <3> HIDE DEF r
    <3>4. ConnOK(d)
      BY <1>1, <3>2, <3>3 DEF ConnOK, Connect
    <3> QED  BY <3>1, <3>4
  <2>5. ASSUME CallWatch(s)
        PROVE  \E d : conn' = [conn EXCEPT ![s] = d] /\ ConnOK(d)
    <3> DEFINE d == [c EXCEPT !.at = "activate"]
    <3>1. conn' = [conn EXCEPT ![s] = d]
      BY <1>1, <2>5 DEF CallWatch, Move
    <3>2. ConnOK(d)
      BY <1>1, <2>5 DEF CallWatch, ConnOK, Connect
    <3> QED  BY <3>1, <3>2
  <2>6. ASSUME Activate(s) \/ ConnectEnds(s)
        PROVE  \E d : conn' = [conn EXCEPT ![s] = d] /\ ConnOK(d)
    <3> DEFINE d == [c EXCEPT !.at = "spent"]
    <3>1. conn' = [conn EXCEPT ![s] = d]
      BY <1>1, <2>6 DEF Activate, ConnectEnds, Move
    <3>2. ConnOK(d)
      BY <1>1, <2>6 DEF ConnOK, Connect
    <3> QED  BY <3>1, <3>2
  <2> QED  BY <2>1, <2>2, <2>3, <2>4, <2>5, <2>6 DEF Connecting
<1>3. CallWatch(s) => c.address \in Addresses
  BY <1>1 DEF CallWatch, ConnOK
<1>4. watched' \subseteq Addresses /\ missed' \subseteq Rows
  BY <1>1, <1>3 DEF Connecting, Start, Callback, UpsertRead, UpsertWrite, CallWatch,
     Activate, ConnectEnds
<1>5. UNCHANGED <<jobs, sync, renew, crashes>>
  BY DEF Connecting, Start, Callback, UpsertRead, UpsertWrite, CallWatch,
     Activate, ConnectEnds
<1> QED  BY <1>1, <1>2, <1>4, <1>5, ConnStep

\* Sync runs stay well formed.
LEMMA SyncsStep ==
  ASSUME LifecycleTypeOK, NEW w \in Workers, Syncing(w)
  PROVE  /\ sync' \in [Workers -> Syncs] /\ \A v \in Workers : SyncOK(sync[v])'
         /\ jobs' \subseteq Rows /\ crashes' \in 0 .. MaxCrashes
         /\ UNCHANGED <<watched, conn, renew, missed>>
<1> DEFINE x == sync[w]
<1>1. /\ SyncOK(x) /\ x \in Syncs /\ sync \in [Workers -> Syncs] /\ jobs \subseteq Rows
      /\ row \in [Rows -> Mailbox] /\ crashes \in 0 .. MaxCrashes
  BY TypeParts
<1>2. x.at # "idle" => x.on \in Rows
  BY <1>1 DEF SyncOK
<1>3. SyncOK(Idle)
  BY DEF SyncOK, Syncs, Idle
<1>4. PICK y : sync' = [sync EXCEPT ![w] = y] /\ SyncOK(y)
  <2>1. ASSUME Claim(w) PROVE \E y : sync' = [sync EXCEPT ![w] = y] /\ SyncOK(y)
    <3>1. PICK r \in jobs : sync' = [sync EXCEPT ![w] = [at |-> "read", on |-> r, cred |-> None]]
      BY <2>1 DEF Claim
    <3>2. SyncOK([at |-> "read", on |-> r, cred |-> None])
      BY <1>1 DEF SyncOK, Syncs
    <3> QED  BY <3>1, <3>2
  <2>2. ASSUME ReadRow(w) PROVE \E y : sync' = [sync EXCEPT ![w] = y] /\ SyncOK(y)
    <3> DEFINE y == [at |-> "sync", on |-> x.on, cred |-> row[x.on].cred]
    <3>1. x.on \in Rows /\ row[x.on] \in Mailbox
      BY <1>1, <1>2, <2>2 DEF ReadRow
    <3>2. SyncOK(y)
      BY <3>1 DEF SyncOK, Syncs, Mailbox
    <3>3. sync' = [sync EXCEPT ![w] = Idle] \/ sync' = [sync EXCEPT ![w] = y]
      BY <2>2 DEF ReadRow
    <3> QED  BY <1>3, <3>2, <3>3
  <2>3. ASSUME NEW label \in {"full", "active", "error"}, Step(w, label), x.at # "idle"
        PROVE  \E y : sync' = [sync EXCEPT ![w] = y] /\ SyncOK(y)
    <3> DEFINE y == [x EXCEPT !.at = label]
    <3>1. sync' = [sync EXCEPT ![w] = y]
      BY <1>1, <2>3 DEF Step
    <3>2. SyncOK(y)
      BY <1>1, <1>2, <2>3 DEF SyncOK, Syncs
    <3> QED  BY <3>1, <3>2
  <2>4. ASSUME MarkRow(w) \/ Commit(w) \/ SyncFails(w)
        PROVE  \E y : sync' = [sync EXCEPT ![w] = y] /\ SyncOK(y)
    BY <2>3, <2>4 DEF MarkRow, Commit, SyncFails
  <2>5. ASSUME SetActive(w) \/ SetError(w) \/ ErrorRefused(w) \/ WorkerDies(w)
        PROVE  \E y : sync' = [sync EXCEPT ![w] = y] /\ SyncOK(y)
    BY <1>3, <2>5 DEF SetActive, SetError, ErrorRefused, WorkerDies
  <2> QED  BY <2>1, <2>2, <2>4, <2>5 DEF Syncing
<1>5. jobs' \subseteq Rows
  BY <1>1, <1>2 DEF Syncing, Claim, ReadRow, MarkRow, Commit, SetActive, SyncFails, SetError,
     ErrorRefused, WorkerDies
<1>6. crashes' \in 0 .. MaxCrashes
  BY <1>1, LifecycleAssumption DEF Syncing, Claim, ReadRow, MarkRow, Commit, SetActive,
     SyncFails, SetError, ErrorRefused, WorkerDies
<1>7. UNCHANGED <<watched, conn, renew, missed>>
  BY DEF Syncing, Claim, ReadRow, MarkRow, Commit, SetActive, SyncFails, SetError,
     ErrorRefused, WorkerDies
<1> QED  BY <1>4, <1>5, <1>6, <1>7, SyncStep

\* The renewal run stays well formed.
LEMMA RenewStep ==
  ASSUME LifecycleTypeOK, RenewList \/ Renewing \/ RenewDies
  PROVE  /\ RenewOK(renew)' /\ watched' \subseteq Addresses /\ missed' \subseteq Rows
         /\ crashes' \in 0 .. MaxCrashes /\ UNCHANGED <<conn, jobs, sync>>
<1>1. /\ RenewOK(renew) /\ renew \in Renewal /\ row \in [Rows -> Mailbox]
      /\ watched \subseteq Addresses /\ missed \subseteq Rows /\ crashes \in 0 .. MaxCrashes
  BY TypeParts DEF RenewOK
<1>2. renew.todo \subseteq Rows /\ (renew.at = "store" => renew.on \in renew.todo)
      /\ renew.creds \in [Rows -> Addresses \cup {None}]
  BY <1>1 DEF RenewOK, Renewal
<1>3. RenewOK(Resting)
  BY DEF RenewOK, Resting, Renewal
<1>4. ASSUME NEW todo, todo \subseteq Rows, Rest(todo) PROVE RenewOK(renew')
  <2>1. CASE todo = {}
    BY <1>3, <1>4, <2>1 DEF Rest
  <2>2. CASE todo # {}
    <3> DEFINE x == [renew EXCEPT !.at = "next", !.todo = todo, !.on = None]
    <3>1. renew' = x
      BY <1>4, <2>2 DEF Rest
    <3>2. RenewOK(x)
      BY <1>1, <1>4, <2>2 DEF RenewOK, Renewal
    <3> QED  BY <3>1, <3>2
  <2> QED  BY <2>1, <2>2
<1>5. RenewOK(renew')
  <2>1. CASE RenewList
    <3> DEFINE creds == [r \in Rows |-> IF r \in Due THEN row[r].cred ELSE None]
    <3>1. creds \in [Rows -> Addresses \cup {None}]
      BY <1>1 DEF Mailbox
    <3>2. Due # {} /\ Due \subseteq Rows
      BY <2>1 DEF RenewList, Due
    <3>3. renew' = [at |-> "next", todo |-> Due, on |-> None, creds |-> creds]
      BY <2>1 DEF RenewList
    <3> HIDE DEF creds
    <3> QED  BY <3>1, <3>2, <3>3 DEF RenewOK, Renewal
  <2>2. CASE RenewCall
    <3>1. PICK r \in renew.todo : renew' = [renew EXCEPT !.at = "store", !.on = r]
      BY <2>2 DEF RenewCall
    <3> DEFINE x == [renew EXCEPT !.at = "store", !.on = r]
    <3>2. RenewOK(x)
      BY <1>1, <1>2 DEF RenewOK, Renewal
    <3> QED  BY <3>1, <3>2
  <2>3. CASE RenewStore \/ RenewFails
    <3>1. PICK r : Rest(renew.todo \ {r})
      BY <2>3 DEF RenewStore, RenewFails
    <3>2. renew.todo \ {r} \subseteq Rows
      BY <1>2
    <3> QED  BY <1>4, <3>1, <3>2
  <2>4. CASE RenewBreaks \/ RenewDies
    BY <1>3, <2>4 DEF RenewBreaks, RenewDies
  <2> QED  BY <2>1, <2>2, <2>3, <2>4 DEF Renewing
<1>6. watched' \subseteq Addresses
  BY <1>1, <1>2 DEF RenewList, Renewing, RenewCall, RenewStore, RenewFails, RenewBreaks, RenewDies
<1>7. missed' \subseteq Rows
  <2>1. CASE RenewFails
    <3>1. PICK r \in IF renew.at = "store" THEN {renew.on} ELSE renew.todo :
             missed' = IF Live(r) THEN missed \cup {r} ELSE missed
      BY <2>1 DEF RenewFails
    <3>2. r \in Rows
      BY <1>2, <3>1
    <3> QED  BY <1>1, <3>1, <3>2
  <2>2. CASE RenewStore
    BY <1>1, <2>2 DEF RenewStore
  <2>3. RenewFails \/ RenewStore \/ UNCHANGED missed
    BY DEF RenewList, Renewing, RenewCall, RenewBreaks, RenewDies
  <2> QED  BY <1>1, <2>1, <2>2, <2>3
<1>8. crashes' \in 0 .. MaxCrashes /\ UNCHANGED <<conn, jobs, sync>>
  <2>1. crashes' = crashes \/ (crashes < MaxCrashes /\ crashes' = crashes + 1)
    BY DEF RenewList, Renewing, RenewCall, RenewStore, RenewFails, RenewBreaks, RenewDies
  <2>2. crashes' \in 0 .. MaxCrashes
    BY <1>1, <2>1, LifecycleAssumption
  <2>3. UNCHANGED <<conn, jobs, sync>>
    BY DEF RenewList, Renewing, RenewCall, RenewStore, RenewFails, RenewBreaks, RenewDies
  <2> QED  BY <2>2, <2>3
<1>9. RenewOK(renew)'
  BY <1>5 DEF RenewOK
<1> QED  BY <1>6, <1>7, <1>8, <1>9

LEMMA TypeStep ==
  ASSUME LifecycleInv, [Next]_vars
  PROVE  LifecycleTypeOK'
<1> DEFINE Rest1 ==
      /\ watched' \subseteq Addresses
      /\ conn' \in [States -> Connect] /\ \A s \in States : ConnOK(conn[s])'
      /\ jobs' \subseteq Rows
      /\ sync' \in [Workers -> Syncs] /\ \A w \in Workers : SyncOK(sync[w])'
      /\ RenewOK(renew)' /\ crashes' \in 0 .. MaxCrashes /\ missed' \subseteq Rows
<1>1. row' \in [Rows -> Mailbox]
  BY RowsStep DEF RowsOK
<1>2. /\ LifecycleTypeOK /\ watched \subseteq Addresses
      /\ conn \in [States -> Connect] /\ \A s \in States : ConnOK(conn[s])
      /\ jobs \subseteq Rows
      /\ sync \in [Workers -> Syncs] /\ \A w \in Workers : SyncOK(sync[w])
      /\ RenewOK(renew) /\ crashes \in 0 .. MaxCrashes /\ missed \subseteq Rows
  BY TypeParts DEF LifecycleInv
<1>3. ASSUME UNCHANGED conn PROVE \A s \in States : ConnOK(conn[s])'
  BY <1>2, <1>3 DEF ConnOK
<1>4. ASSUME UNCHANGED sync PROVE \A w \in Workers : SyncOK(sync[w])'
  BY <1>2, <1>4 DEF SyncOK
<1>5. ASSUME UNCHANGED renew PROVE RenewOK(renew)'
  BY <1>2, <1>5 DEF RenewOK
<1>6. ASSUME NEW s \in States, Connecting(s) PROVE Rest1
  BY <1>2, <1>4, <1>5, <1>6, ConnsStep
<1>7. ASSUME NEW w \in Workers, Syncing(w) PROVE Rest1
  BY <1>2, <1>3, <1>5, <1>7, SyncsStep
<1>8. ASSUME RenewList \/ Renewing \/ RenewDies PROVE Rest1
  BY <1>2, <1>3, <1>4, <1>8, RenewStep
<1>9. ASSUME UNCHANGED <<conn, sync, renew, watched, crashes>>,
             jobs' \subseteq Rows, missed' \subseteq Rows
      PROVE  Rest1
  BY <1>2, <1>3, <1>4, <1>5, <1>9
<1>10. ASSUME NEW r \in Rows, Disconnect(r) \/ Age(r) PROVE Rest1
  <2>1. UNCHANGED <<conn, sync, renew, watched, crashes, jobs>>
        /\ (missed' = missed \/ missed' = missed \ {r})
    BY <1>10 DEF Disconnect, Age
  <2>2. jobs' \subseteq Rows /\ missed' \subseteq Rows
    BY <1>2, <2>1
  <2> HIDE DEF Rest1
  <2> QED  BY <1>9, <2>1, <2>2
<1>11. ASSUME NEW a \in Addresses, Notify(a) PROVE Rest1
  <2>1. /\ UNCHANGED <<conn, sync, renew, watched, crashes, missed>>
        /\ \E r \in Rows : jobs' = jobs \cup {r}
    BY <1>11 DEF Notify, LiveAt
  <2>2. jobs' \subseteq Rows /\ missed' \subseteq Rows
    BY <1>2, <2>1
  <2> HIDE DEF Rest1
  <2> QED  BY <1>9, <2>1, <2>2
<1>12. ASSUME UNCHANGED vars PROVE Rest1
  <2>1. UNCHANGED <<conn, sync, renew, watched, crashes, jobs, missed>>
    BY <1>12 DEF vars
  <2>2. jobs' \subseteq Rows /\ missed' \subseteq Rows
    BY <1>2, <2>1
  <2> HIDE DEF Rest1
  <2> QED  BY <1>9, <2>1, <2>2
<1>13. Rest1
  <2> HIDE DEF Rest1
  <2> QED  BY <1>6, <1>7, <1>8, <1>10, <1>11, <1>12 DEF Next
<1>14. LifecycleTypeOK'
  BY <1>1, <1>13 DEF LifecycleTypeOK, ConnOK, SyncOK, RenewOK, Syncs
<1> QED  BY <1>14

-----------------------------------------------------------------------------
(* The theorems.                                                           *)

\* A run is about to set its mailbox active only after its commit.
LEMMA CommitsStep ==
  ASSUME LifecycleInv, [Next]_vars
  PROVE  CommitsFirst'
<1> SUFFICES ASSUME NEW w \in Workers, sync'[w].at = "active" PROVE row'[sync'[w].on].cursor
  BY DEF CommitsFirst
<1>1. CursorsStay /\ LifecycleTypeOK /\ CommitsFirst
  BY RowsStep DEF LifecycleInv
<1>2. sync \in [Workers -> Syncs] /\ (sync[w].at # "idle" => sync[w].on \in Rows)
  BY <1>1 DEF LifecycleTypeOK, Syncs
<1>3. CASE sync'[w] = sync[w]
  BY <1>1, <1>2, <1>3 DEF CommitsFirst, CursorsStay
<1>4. CASE sync'[w] # sync[w]
  <2>1. PICK v \in Workers : Syncing(v)
    BY <1>4 DEF Next, Connecting, Start, Callback, UpsertRead, UpsertWrite, CallWatch, Activate,
       ConnectEnds, Disconnect, Age, Notify, RenewList, Renewing, RenewCall, RenewStore,
       RenewFails, RenewBreaks, RenewDies, vars
  <2>2. v = w /\ Commit(w)
    <3>1. \E y : sync' = [sync EXCEPT ![v] = y] /\ (y.at = "active" => Commit(v))
      <4>1. CASE Claim(v)
        BY <4>1 DEF Claim
      <4>2. CASE ReadRow(v)
        <5> DEFINE y == IF row[sync[v].on].status = "disconnected" THEN Idle
                        ELSE [at |-> "sync", on |-> sync[v].on, cred |-> row[sync[v].on].cred]
        <5>1. sync' = [sync EXCEPT ![v] = y]
          BY <4>2 DEF ReadRow
        <5>2. y.at # "active"
          BY DEF Idle
        <5> HIDE DEF y
        <5> QED  BY <5>1, <5>2
      <4>3. CASE MarkRow(v) \/ SyncFails(v)
        <5>1. PICK label \in {"full", "error"} : Step(v, label)
          BY <4>3 DEF MarkRow, SyncFails
        <5> DEFINE y == [sync[v] EXCEPT !.at = label]
        <5>2. sync' = [sync EXCEPT ![v] = y] /\ y.at # "active"
          BY <1>2, <5>1 DEF Step, Syncs
        <5> QED  BY <5>2
      <4>4. CASE Commit(v)
        BY <1>2, <4>4 DEF Commit, Step
      <4>5. CASE SetActive(v) \/ SetError(v) \/ ErrorRefused(v) \/ WorkerDies(v)
        <5>1. sync' = [sync EXCEPT ![v] = Idle]
          BY <4>5 DEF SetActive, SetError, ErrorRefused, WorkerDies
        <5>2. Idle.at # "active"
          BY DEF Idle
        <5> QED  BY <5>1, <5>2
      <4> QED  BY <2>1, <4>1, <4>2, <4>3, <4>4, <4>5 DEF Syncing
    <3> QED  BY <1>2, <1>4, <3>1
  <2>3. sync'[w].on = sync[w].on /\ sync[w].on \in Rows
    BY <1>2, <2>2 DEF Commit, Step
  <2>4. row'[sync[w].on].cursor
    BY <1>1, <2>2, <2>3 DEF Commit, LifecycleTypeOK, Mailbox
  <2> QED  BY <2>3, <2>4
<1> QED  BY <1>3, <1>4

LEMMA LifecycleInvInit == Init => LifecycleInv
<1> SUFFICES ASSUME Init PROVE LifecycleInv
  OBVIOUS
<1>1. row \in [Rows -> Mailbox] /\ \A r \in Rows : row[r] = NotConnected
  BY DEF Init, NotConnected, Mailbox
<1>2. RowsOK
  BY <1>1 DEF RowsOK, ActiveHasCursor, NotConnected
<1>3. CommitsFirst
  BY DEF Init, CommitsFirst, Idle
<1>4. LifecycleTypeOK
  BY <1>1, LifecycleAssumption
     DEF Init, LifecycleTypeOK, Connect, Idle, Resting, Renewal
<1> QED  BY <1>2, <1>3, <1>4 DEF LifecycleInv

LEMMA LifecycleInvStep == LifecycleInv /\ [Next]_vars => LifecycleInv'
BY TypeStep, RowsStep, CommitsStep DEF LifecycleInv

\* The table, the callbacks, the runs and the renewal stay well formed: every
\* process that is about to write a row knows which.
THEOREM LifecycleTypeCorrect == Spec => []LifecycleTypeOK
<1>1. LifecycleInv => LifecycleTypeOK
  BY DEF LifecycleInv
<1> QED  BY <1>1, LifecycleInvInit, LifecycleInvStep, PTL DEF Spec

\* An active mailbox has a cursor, whichever of connect, renewal and sync made
\* it active and whatever they overtook.
THEOREM ActiveHasCursorCorrect == Spec => []ActiveHasCursor
<1>1. LifecycleInv => ActiveHasCursor
  BY DEF LifecycleInv, RowsOK
<1> QED  BY <1>1, LifecycleInvInit, LifecycleInvStep, PTL DEF Spec
=============================================================================
