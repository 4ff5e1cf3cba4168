--------------------------- MODULE ChatTurnProofs ---------------------------
(***************************************************************************)
(* What the answering of questions guarantees for any number of tabs,      *)
(* handlers and attempts: sessions and requests stay well formed, a        *)
(* history tells nothing twice, and to a client that waits a session is a  *)
(* Conversation.                                                           *)
(***************************************************************************)
EXTENDS ChatTurn, TLAPS, SequenceTheorems

Histories == UNION {[1 .. n -> Turns] : n \in 0 .. MaxTurns}
Kinds == {"ask", "switch", "reset"}

Tab == [session : 0 .. MaxSessions, opened : 0 .. MaxSessions, q : 0 .. MaxQuestions,
        step : {"free", "opening", "posted", "waiting"}, kind : Kinds, outside : BOOLEAN]

\* A tab that waits has asked, in a session it has opened.
TabsOK ==
  /\ tab \in [Tabs -> Tab]
  /\ \A t \in Tabs :
       /\ tab[t].session <= tab[t].opened
       /\ tab[t].step # "free" => tab[t].q >= 1
       /\ tab[t].step \in {"posted", "waiting"} => tab[t].session >= 1

SessionsOK == sessions \in [SessionIds -> Session \cup {Gone}]

\* The requests in a handler, by what is known of them on the way.
Queue == [step : {"queued"}, sid : SessionIds, q : Questions, kind : Kinds, outside : BOOLEAN]
Replies == [step : {"reply"}, sid : SessionIds, q : Questions, outcome : {"answer", "failed", "unknown"}]
Searches == [step : {"search", "switch", "reset", "draft", "wider"}, sid : SessionIds, q : Questions,
             outside : BOOLEAN, seen : Session, attempt : Nat]
Saved == [step : {"ready", "saved", "asked"}, sid : SessionIds, q : Questions, seen : Session]
Copied == [step : {"copied", "answering"}, sid : SessionIds, q : Questions, seen : Session, copy : Session]

Active == Searches \cup Saved \cup Copied
Requests == {Idle} \cup Queue \cup Replies \cup Active

\* A request is one its tab has made, in a session that is there while the
\* request is worked on.
IsKnown(request, tabs) ==
  LET t == request.sid[1]
  IN  /\ request.sid[2] \in 1 .. tabs[t].opened
      /\ request.q \in 1 .. tabs[t].q

HandlersOK ==
  /\ handler \in [Handlers -> Requests]
  /\ \A h \in Handlers :
       /\ handler[h] # Idle => IsKnown(handler[h], tab)
       /\ handler[h] \in Active => sessions[handler[h].sid] # Gone

ChatInv == TabsOK /\ SessionsOK /\ HandlersOK

-----------------------------------------------------------------------------
(* Facts about single values.                                              *)

LEMMA GoneIsNoSession == Gone \notin Session
BY ChatAssumption DEF Gone, Session

LEMMA NewSessionOK == \A topic \in Threads : NewSession(topic) \in Session
<1>1. << >> \in [1 .. 0 -> Turns] /\ 0 \in 0 .. MaxTurns
  BY ChatAssumption
<1>2. << >> \in Histories
  BY <1>1 DEF Histories
<1> QED  BY <1>2 DEF NewSession, Session, Histories

\* A turn more, and what is kept of the turns is still bounded.
LEMMA LastTurnsOK ==
  ASSUME NEW turns \in Histories, NEW turn \in Turns
  PROVE  LastTurns(turns \o <<turn>>) \in Histories
<1> DEFINE all == turns \o <<turn>>
           first == IF Len(all) > MaxTurns THEN Len(all) - MaxTurns + 1 ELSE 1
           last == SubSeq(all, first, Len(all))
<1>1. PICK n \in 0 .. MaxTurns : turns \in [1 .. n -> Turns]
  BY DEF Histories
<1>2. turns \in Seq(Turns) /\ Len(turns) = n
  BY <1>1, ChatAssumption
<1>3. all \in Seq(Turns) /\ Len(all) = n + 1
  BY <1>2, ChatAssumption, ConcatProperties
<1> HIDE DEF all
<1>4. first \in 1 .. Len(all) /\ Len(all) - first + 1 \in 0 .. MaxTurns
  BY <1>3, ChatAssumption
<1> HIDE DEF first
<1>5. \A i \in first .. Len(all) : all[i] \in Turns
  BY <1>3, <1>4, ElementOfSeq
<1>6. last \in Seq(Turns) /\ Len(last) = Len(all) - first + 1
  BY <1>3, <1>4, <1>5, SubSeqProperties
<1>7. last \in [1 .. Len(last) -> Turns]
  BY <1>6, LenProperties
<1>8. last \in Histories
  BY <1>4, <1>6, <1>7 DEF Histories
<1> QED  BY <1>8 DEF LastTurns, all, first, last

\* The kinds of requests are told apart by their steps.
LEMMA ActiveSteps ==
  /\ Idle \notin Active
  /\ \A request \in Queue \cup Replies : request \notin Active /\ request # Idle
  /\ \A request \in Requests :
       /\ request.step = "idle" => request = Idle
       /\ request.step = "queued" => request \in Queue
       /\ request.step = "reply" => request \in Replies
       /\ request.step \in {"search", "switch", "reset", "draft", "wider"} => request \in Searches
       /\ request.step \in {"ready", "saved", "asked"} => request \in Saved
       /\ request.step \in {"copied", "answering"} => request \in Copied
<1>1. Idle.step = "idle"
  BY DEF Idle
<1>2. \A request \in Active : request.step \in
        {"search", "switch", "reset", "draft", "wider", "ready", "saved", "asked", "copied", "answering"}
  BY DEF Active, Searches, Saved, Copied
<1>3. /\ \A request \in Replies : request.step = "reply"
      /\ \A request \in Queue : request.step = "queued"
  BY DEF Replies, Queue
<1> QED  BY <1>1, <1>2, <1>3 DEF Requests, Active, Searches, Saved, Copied

-----------------------------------------------------------------------------
(* The tabs.                                                               *)

\* A step of the system never forgets what a tab has opened and asked.
Grown == \A t \in Tabs : tab'[t].opened >= tab[t].opened /\ tab'[t].q >= tab[t].q

TabOK(new) ==
  /\ new \in Tab /\ new.session <= new.opened
  /\ new.step # "free" => new.q >= 1
  /\ new.step \in {"posted", "waiting"} => new.session >= 1

LEMMA TabChanges ==
  ASSUME TabsOK, NEW t \in Tabs, NEW new, TabOK(new),
         new.opened >= tab[t].opened, new.q >= tab[t].q,
         tab' = [tab EXCEPT ![t] = new]
  PROVE  TabsOK' /\ Grown
<1>1. \A u \in Tabs : tab'[u] = IF u = t THEN new ELSE tab[u]
  BY DEF TabsOK
<1>2. tab' \in [Tabs -> Tab]
  BY DEF TabsOK, TabOK
<1>3. \A u \in Tabs : TabOK(tab'[u])
  BY <1>1 DEF TabsOK, TabOK
<1>4. \A u \in Tabs : tab[u].opened \in Int /\ tab[u].q \in Int
  BY ChatAssumption DEF TabsOK, Tab
<1>5. Grown
  BY <1>1, <1>4 DEF Grown
<1> QED  BY <1>2, <1>3, <1>5 DEF TabsOK, TabOK

LEMMA TabsChange ==
  ASSUME TabsOK, tab' = [u \in Tabs |-> tab'[u]],
         \A u \in Tabs : /\ TabOK(tab'[u])
                         /\ tab'[u].opened = tab[u].opened /\ tab'[u].q = tab[u].q
  PROVE  TabsOK' /\ Grown
<1>1. \A u \in Tabs : tab[u].opened \in Int /\ tab[u].q \in Int
  BY ChatAssumption DEF TabsOK, Tab
<1>2. tab' \in [Tabs -> Tab]
  BY DEF TabOK
<1> QED  BY <1>1, <1>2 DEF TabsOK, TabOK, Grown

LEMMA FreedTab ==
  ASSUME TabsOK, NEW t \in Tabs,
         NEW new, new = tab[t] \/ new = [tab[t] EXCEPT !.step = "free"]
  PROVE  TabOK(new) /\ new.opened = tab[t].opened /\ new.q = tab[t].q
<1>1. tab[t] \in Tab /\ TabOK(tab[t])
  BY DEF TabsOK, TabOK
<1>2. /\ new \in Tab /\ new.session = tab[t].session /\ new.opened = tab[t].opened
      /\ new.q = tab[t].q /\ (new = tab[t] \/ new.step = "free")
  BY <1>1 DEF Tab
<1> QED  BY <1>1, <1>2 DEF TabOK

LEMMA TabsStay == ASSUME TabsOK, UNCHANGED tab PROVE TabsOK' /\ Grown
<1>1. \A t \in Tabs : tab[t].opened \in Int /\ tab[t].q \in Int
  BY ChatAssumption DEF TabsOK, Tab
<1> QED  BY <1>1 DEF TabsOK, Grown

LEMMA TabsStep ==
  ASSUME TabsOK, [Next]_vars
  PROVE  TabsOK' /\ Grown
<1>1. ASSUME NEW t \in Tabs, Submit(t) PROVE TabsOK' /\ Grown
  <2>1. PICK kind \in Kinds, outside \in BOOLEAN :
          tab' = [tab EXCEPT ![t] = [@ EXCEPT
            !.q = tab[t].q + 1, !.kind = kind, !.outside = outside,
            !.step = IF tab[t].session = 0 THEN "opening" ELSE "posted"]]
    BY <1>1 DEF Submit, Kinds
  <2> DEFINE new == [tab[t] EXCEPT !.q = tab[t].q + 1, !.kind = kind, !.outside = outside,
                       !.step = IF tab[t].session = 0 THEN "opening" ELSE "posted"]
  <2>2. tab' = [tab EXCEPT ![t] = new]
    BY <2>1
  <2>3. tab[t] \in Tab /\ tab[t].session <= tab[t].opened
    BY DEF TabsOK
  <2>4. tab[t].q < MaxQuestions
    BY <1>1 DEF Submit
  <2>5. /\ tab[t].session \in Nat /\ tab[t].opened \in Nat /\ tab[t].q \in Nat
        /\ tab[t].q + 1 \in 0 .. MaxQuestions
    BY <2>3, <2>4, ChatAssumption DEF Tab
  <2>6. /\ new \in Tab /\ new.session = tab[t].session /\ new.opened = tab[t].opened
        /\ new.q = tab[t].q + 1
        /\ new.step = IF tab[t].session = 0 THEN "opening" ELSE "posted"
    BY <2>3, <2>5 DEF Tab
  <2> HIDE DEF new
  <2>7. TabOK(new) /\ new.opened >= tab[t].opened /\ new.q >= tab[t].q
    BY <2>3, <2>5, <2>6 DEF TabOK
  <2> QED  BY <2>2, <2>7, TabChanges
<1>2. ASSUME NEW t \in Tabs, OpenSession(t) PROVE TabsOK' /\ Grown
  <2> DEFINE n == tab[t].opened + 1
             new == [tab[t] EXCEPT !.session = n, !.opened = n, !.step = "posted"]
  <2>1. tab' = [tab EXCEPT ![t] = new] /\ tab[t].opened < MaxSessions /\ tab[t].step = "opening"
    BY <1>2 DEF OpenSession
  <2>2. tab[t] \in Tab /\ (tab[t].step # "free" => tab[t].q >= 1)
    BY DEF TabsOK
  <2>3. tab[t].opened \in Nat /\ n \in 1 .. MaxSessions /\ n \in 0 .. MaxSessions /\ tab[t].q \in Nat
    BY <2>1, <2>2, ChatAssumption DEF Tab
  <2> HIDE DEF n
  <2>4. new \in Tab /\ new.session = n /\ new.opened = n /\ new.q = tab[t].q /\ new.step = "posted"
    BY <2>2, <2>3 DEF Tab
  <2> HIDE DEF new
  <2>5. TabOK(new) /\ new.opened >= tab[t].opened /\ new.q >= tab[t].q
    BY <2>1, <2>2, <2>3, <2>4 DEF TabOK, n
  <2> QED  BY <2>1, <2>5, TabChanges
<1>3. ASSUME NEW t \in Tabs, OpenFails(t) \/ TimesOut(t) \/ NewChat(t) PROVE TabsOK' /\ Grown
  <2>1. tab[t] \in Tab /\ tab[t].session <= tab[t].opened
    BY DEF TabsOK
  <2>2. CASE OpenFails(t)
    <3> DEFINE new == [tab[t] EXCEPT !.step = "free"]
    <3>1. tab' = [tab EXCEPT ![t] = new]
      BY <2>2 DEF OpenFails
    <3>2. TabOK(new) /\ new.opened >= tab[t].opened /\ new.q >= tab[t].q
      BY <2>1, ChatAssumption DEF TabOK, Tab
    <3> QED  BY <3>1, <3>2, TabChanges
  <2>3. CASE TimesOut(t)
    <3> DEFINE new == [tab[t] EXCEPT !.step = "free"]
    <3>1. tab' = [tab EXCEPT ![t] = new]
      BY <2>3 DEF TimesOut, TriesAgain
    <3>2. TabOK(new) /\ new.opened >= tab[t].opened /\ new.q >= tab[t].q
      BY <2>1, ChatAssumption DEF TabOK, Tab
    <3> QED  BY <3>1, <3>2, TabChanges
  <2>4. CASE NewChat(t)
    <3> DEFINE new == [tab[t] EXCEPT !.session = 0, !.step = "free"]
    <3>1. tab' = [tab EXCEPT ![t] = new]
      BY <2>4 DEF NewChat
    <3>2. tab[t].opened \in Nat /\ tab[t].q \in Nat /\ 0 \in 0 .. MaxSessions
      BY <2>1, ChatAssumption DEF Tab
    <3>3. /\ new \in Tab /\ new.session = 0 /\ new.opened = tab[t].opened
          /\ new.q = tab[t].q /\ new.step = "free"
      BY <2>1, <3>2 DEF Tab
    <3> HIDE DEF new
    <3>4. TabOK(new) /\ new.opened >= tab[t].opened /\ new.q >= tab[t].q
      BY <3>2, <3>3 DEF TabOK
    <3> QED  BY <3>1, <3>4, TabChanges
  <2> QED  BY <1>3, <2>2, <2>3, <2>4
<1>4. ASSUME NEW h \in Handlers, NEW t \in Tabs, Post(h, t) PROVE TabsOK' /\ Grown
  <2> DEFINE new == [tab[t] EXCEPT !.step = "waiting"]
  <2>1. tab' = [tab EXCEPT ![t] = new] /\ tab[t].step = "posted"
    BY <1>4 DEF Post
  <2>2. /\ tab[t] \in Tab /\ tab[t].session <= tab[t].opened
        /\ tab[t].step # "free" => tab[t].q >= 1
        /\ tab[t].step = "posted" => tab[t].session >= 1
    BY DEF TabsOK
  <2>3. TabOK(new) /\ new.opened >= tab[t].opened /\ new.q >= tab[t].q
    BY <2>1, <2>2, ChatAssumption DEF TabOK, Tab
  <2> QED  BY <2>1, <2>3, TabChanges
<1>5. ASSUME NEW h \in Handlers, Receive(h) PROVE TabsOK' /\ Grown
  <2>1. tab' = [t \in Tabs |-> IF t \notin AwaitedBy(h) THEN tab[t]
                             ELSE [tab[t] EXCEPT !.step = "free"]]
    BY <1>5 DEF Receive, TriesAgain, Status
  <2>2. \A t \in Tabs : tab'[t] = tab[t] \/ tab'[t] = [tab[t] EXCEPT !.step = "free"]
    BY <2>1
  <2>3. \A t \in Tabs : /\ TabOK(tab'[t])
                        /\ tab'[t].opened = tab[t].opened /\ tab'[t].q = tab[t].q
    BY <2>2, FreedTab
  <2>4. tab' = [t \in Tabs |-> tab'[t]]
    BY <2>1
  <2> QED  BY <2>3, <2>4, TabsChange
<1>6. ASSUME Restart PROVE TabsOK' /\ Grown
  <2>1. tab' = [t \in Tabs |-> IF tab[t].step = "free" THEN tab[t] ELSE [tab[t] EXCEPT !.step = "free"]]
    BY <1>6 DEF Restart
  <2>2. \A t \in Tabs : tab'[t] = tab[t] \/ tab'[t] = [tab[t] EXCEPT !.step = "free"]
    BY <2>1
  <2>3. \A t \in Tabs : /\ TabOK(tab'[t])
                        /\ tab'[t].opened = tab[t].opened /\ tab'[t].q = tab[t].q
    BY <2>2, FreedTab
  <2>4. tab' = [t \in Tabs |-> tab'[t]]
    BY <2>1
  <2> QED  BY <2>3, <2>4, TabsChange
<1>7. ASSUME NEW h \in Handlers, Work(h), ~Receive(h) PROVE TabsOK' /\ Grown
  <2>1. UNCHANGED tab
    BY <1>7 DEF Work, Begin, SaveCleared, SearchFails, SearchEvidence, ModelAnswers,
       SearchThread, SearchOutside, SaveMemory, CopyFor, AppendUser, AppendAnswer
  <2> QED  BY <2>1, TabsStay
<1>8. ASSUME UNCHANGED vars PROVE TabsOK' /\ Grown
  BY <1>8, TabsStay DEF vars
<1>9. ASSUME NEW h \in Handlers, NEW t \in Tabs, LeaveOpening(h, t) PROVE TabsOK' /\ Grown
  <2> DEFINE n == tab[t].opened + 1
             new == [tab[t] EXCEPT !.session = 0, !.opened = n, !.step = "free"]
  <2>1. tab' = [tab EXCEPT ![t] = new] /\ tab[t].opened < MaxSessions
    BY <1>9 DEF LeaveOpening
  <2>2. tab[t] \in Tab
    BY DEF TabsOK
  <2>3. tab[t].opened \in Nat /\ n \in 0 .. MaxSessions /\ 0 \in 0 .. MaxSessions /\ tab[t].q \in Nat
    BY <2>1, <2>2, ChatAssumption DEF Tab
  <2> HIDE DEF n
  <2>4. new \in Tab /\ new.session = 0 /\ new.opened = n /\ new.q = tab[t].q /\ new.step = "free"
    BY <2>2, <2>3 DEF Tab
  <2> HIDE DEF new
  <2>5. TabOK(new) /\ new.opened >= tab[t].opened /\ new.q >= tab[t].q
    BY <2>3, <2>4 DEF TabOK, n
  <2> QED  BY <2>1, <2>5, TabChanges
<1> QED  BY <1>1, <1>2, <1>3, <1>4, <1>5, <1>6, <1>7, <1>8, <1>9 DEF Next

-----------------------------------------------------------------------------
(* The sessions.                                                           *)

\* A session that is there stays there, until the server restarts.
Kept == \A s \in SessionIds : sessions[s] # Gone => sessions'[s] # Gone

LEMMA SessionChanges ==
  ASSUME SessionsOK, NEW s \in SessionIds, NEW session \in Session,
         sessions' = [sessions EXCEPT ![s] = session]
  PROVE  SessionsOK' /\ Kept
BY GoneIsNoSession DEF SessionsOK, Kept

LEMMA SessionsStep ==
  ASSUME TabsOK, SessionsOK, HandlersOK, [Next]_vars
  PROVE  SessionsOK' /\ (Kept \/ Restart)
<1>1. ASSUME UNCHANGED sessions PROVE SessionsOK' /\ Kept
  BY <1>1 DEF SessionsOK, Kept
<1>2. ASSUME NEW t \in Tabs, OpenSession(t) \/ \E h \in Handlers : LeaveOpening(h, t)
      PROVE  SessionsOK' /\ Kept
  <2>1. PICK topic \in Threads :
          sessions' = [sessions EXCEPT ![<<t, tab[t].opened + 1>>] = NewSession(topic)]
    BY <1>2 DEF OpenSession, LeaveOpening
  <2>2. <<t, tab[t].opened + 1>> \in SessionIds
    BY <1>2, ChatAssumption DEF OpenSession, LeaveOpening, SessionIds, TabsOK, Tab
  <2> QED  BY <2>1, <2>2, NewSessionOK, SessionChanges
<1>3. ASSUME NEW h \in Handlers, SaveCleared(h) PROVE SessionsOK' /\ Kept
  <2>1. handler[h] \in Searches
    BY <1>3, ActiveSteps DEF SaveCleared, HandlersOK
  <2>2. handler[h].sid \in SessionIds /\ handler[h].seen.thread \in Threads
    BY <2>1 DEF Searches, Session
  <2>3. PICK topic \in Threads : sessions' = [sessions EXCEPT ![handler[h].sid] = NewSession(topic)]
    BY <1>3, <2>2 DEF SaveCleared
  <2> QED  BY <2>2, <2>3, NewSessionOK, SessionChanges
<1>4. ASSUME NEW h \in Handlers, SaveMemory(h) PROVE SessionsOK' /\ Kept
  <2>1. handler[h] \in Saved
    BY <1>4, ActiveSteps DEF SaveMemory, HandlersOK
  <2>2. /\ handler[h].sid \in SessionIds /\ handler[h].q \in Questions
        /\ handler[h].seen \in Session
    BY <2>1 DEF Saved
  <2>3. PICK focus \in Focuses(h) : sessions' = [sessions EXCEPT ![handler[h].sid] =
          [handler[h].seen EXCEPT !.heard = handler[h].seen.heard \cup {handler[h].q}, !.focus = focus]]
    BY <1>4 DEF SaveMemory
  <2>4. focus \in {handler[h].q, handler[h].seen.focus}
    BY <2>3 DEF Focuses
  <2>5. focus \in {0} \cup Questions
    BY <2>2, <2>4 DEF Session
  <2> DEFINE session == [handler[h].seen EXCEPT !.heard = handler[h].seen.heard \cup {handler[h].q}, !.focus = focus]
  <2>6. session \in Session
    BY <2>2, <2>5 DEF Session
  <2> HIDE DEF session
  <2>7. sessions' = [sessions EXCEPT ![handler[h].sid] = session]
    BY <2>3 DEF session
  <2> QED  BY <2>2, <2>6, <2>7, SessionChanges
<1>5. ASSUME NEW h \in Handlers, AppendUser(h) \/ AppendAnswer(h) PROVE SessionsOK' /\ Kept
  <2>1. handler[h] \in Copied
    BY <1>5, ActiveSteps DEF AppendUser, AppendAnswer, HandlersOK
  <2>2. /\ handler[h].sid \in SessionIds /\ handler[h].q \in Questions
        /\ handler[h].copy \in Session
    BY <2>1 DEF Copied
  <2>3. PICK role \in {"user", "assistant"} : AppendTurn(h, role)
    BY <1>5 DEF AppendUser, AppendAnswer
  <2> DEFINE turn == [role |-> role, q |-> handler[h].q]
             turns == LastTurns(handler[h].copy.turns \o <<turn>>)
             session == [handler[h].copy EXCEPT !.turns = turns]
  <2>4. sessions' = [sessions EXCEPT ![handler[h].sid] = session]
    BY <2>3 DEF AppendTurn
  <2>5. turn \in Turns /\ handler[h].copy.turns \in Histories
    BY <2>2 DEF Turns, Session, Histories
  <2> HIDE DEF turn
  <2>6. turns \in Histories
    BY <2>5, LastTurnsOK
  <2> HIDE DEF turns
  <2>7. session \in Session
    BY <2>2, <2>6 DEF Session, Histories
  <2> HIDE DEF session
  <2> QED  BY <2>2, <2>4, <2>7, SessionChanges
<1>6. ASSUME Restart PROVE SessionsOK'
  BY <1>6 DEF Restart, SessionsOK
<1>7. ASSUME NEW t \in Tabs, Submit(t) \/ OpenFails(t) \/ TimesOut(t) \/ NewChat(t)
      PROVE  UNCHANGED sessions
  BY <1>7 DEF Submit, OpenFails, TimesOut, NewChat
<1>8. ASSUME NEW h \in Handlers, Receive(h) \/ Begin(h) \/ \E t \in Tabs : Post(h, t)
      PROVE  UNCHANGED sessions
  BY <1>8 DEF Receive, Begin, Post
<1>9. ASSUME NEW h \in Handlers,
             \/ SearchFails(h) \/ SearchEvidence(h) \/ ModelAnswers(h)
             \/ SearchThread(h) \/ SearchOutside(h) \/ CopyFor(h)
      PROVE  UNCHANGED sessions
  BY <1>9 DEF SearchFails, SearchEvidence, ModelAnswers, SearchThread, SearchOutside, CopyFor
<1>10. UNCHANGED vars => UNCHANGED sessions
  BY DEF vars
<1> QED  BY <1>1, <1>2, <1>3, <1>4, <1>5, <1>6, <1>7, <1>8, <1>9, <1>10 DEF Next, Work

-----------------------------------------------------------------------------
(* The handlers.                                                           *)

LEMMA RequestSessions ==
  \A request \in Requests : request # Idle =>
    request.sid \in SessionIds /\ request.sid[1] \in Tabs /\ request.q \in Questions
BY DEF Requests, Queue, Active, Replies, Searches, Saved, Copied, SessionIds

\* What a tab has opened and asked, it has opened and asked ever after.
LEMMA StaysKnown ==
  ASSUME TabsOK, TabsOK', Grown, NEW request \in Requests, request # Idle, IsKnown(request, tab)
  PROVE  IsKnown(request, tab')
<1> DEFINE t == request.sid[1]
<1>1. t \in Tabs
  BY RequestSessions
<1>2. /\ tab[t].opened \in Int /\ tab[t].q \in Int
      /\ tab'[t].opened \in Int /\ tab'[t].q \in Int
  BY <1>1, ChatAssumption DEF TabsOK, Tab
<1>3. tab'[t].opened >= tab[t].opened /\ tab'[t].q >= tab[t].q
  BY <1>1 DEF Grown
<1> QED  BY <1>2, <1>3 DEF IsKnown

LEMMA HandlersStay ==
  ASSUME TabsOK, TabsOK', HandlersOK, Grown, Kept, UNCHANGED handler
  PROVE  HandlersOK'
<1>1. \A h \in Handlers : handler[h] \in Requests
  BY DEF HandlersOK
<1>2. \A h \in Handlers : handler[h] # Idle => IsKnown(handler[h], tab')
  BY <1>1, StaysKnown DEF HandlersOK
<1>3. \A h \in Handlers : handler[h] \in Active => sessions'[handler[h].sid] # Gone
  BY <1>1, RequestSessions, ActiveSteps DEF HandlersOK, Kept
<1> QED  BY <1>2, <1>3 DEF HandlersOK

LEMMA HandlerChanges ==
  ASSUME TabsOK, TabsOK', HandlersOK, Grown, Kept,
         NEW h \in Handlers, NEW new \in Requests,
         new # Idle => IsKnown(new, tab'),
         new \in Active => sessions[new.sid] # Gone,
         handler' = [handler EXCEPT ![h] = new]
  PROVE  HandlersOK'
<1>1. \A g \in Handlers : handler'[g] = IF g = h THEN new ELSE handler[g]
  BY DEF HandlersOK
<1>2. handler' \in [Handlers -> Requests]
  BY DEF HandlersOK
<1>5. \A g \in Handlers : handler'[g] # Idle => IsKnown(handler'[g], tab')
  BY <1>1, StaysKnown DEF HandlersOK
<1>6. \A g \in Handlers : handler'[g] \in Active => sessions[handler'[g].sid] # Gone
  BY <1>1 DEF HandlersOK
<1>7. \A g \in Handlers : handler'[g] \in Active => handler'[g].sid \in SessionIds
  BY <1>2, RequestSessions, ActiveSteps
<1>8. \A g \in Handlers : handler'[g] \in Active => sessions'[handler'[g].sid] # Gone
  BY <1>6, <1>7 DEF Kept
<1> QED  BY <1>2, <1>5, <1>8 DEF HandlersOK

\* A handler goes on with its request.
LEMMA RequestGoesOn ==
  ASSUME TabsOK, TabsOK', HandlersOK, Grown, Kept,
         NEW h \in Handlers, handler[h] \in Active,
         NEW new \in Replies \cup Active,
         new.sid = handler[h].sid, new.q = handler[h].q,
         handler' = [handler EXCEPT ![h] = new]
  PROVE  HandlersOK'
<1>1. new \in Requests
  BY DEF Requests
<1>2. handler[h] # Idle
  BY ActiveSteps
<1>3. IsKnown(handler[h], tab) /\ sessions[handler[h].sid] # Gone
  BY <1>2 DEF HandlersOK
<1>4. handler[h] \in Requests /\ IsKnown(handler[h], tab')
  BY <1>2, <1>3, StaysKnown DEF HandlersOK
<1>5. IsKnown(new, tab')
  BY <1>4 DEF IsKnown
<1> QED  BY <1>1, <1>3, <1>5, HandlerChanges

LEMMA ReplyOK ==
  ASSUME NEW h \in Handlers, handler[h] \in Queue \cup Active,
         NEW outcome \in {"answer", "failed", "unknown"}
  PROVE  /\ Reply(h, outcome) \in Replies
         /\ Reply(h, outcome).sid = handler[h].sid /\ Reply(h, outcome).q = handler[h].q
<1>1. handler[h].sid \in SessionIds /\ handler[h].q \in Questions
  BY RequestSessions, ActiveSteps DEF Requests
<1> QED  BY <1>1 DEF Reply, Replies

LEMMA ReadyOK ==
  ASSUME NEW h \in Handlers, handler[h] \in Searches
  PROVE  Ready(h) \in Saved /\ Ready(h).sid = handler[h].sid /\ Ready(h).q = handler[h].q
BY DEF Ready, Searches, Saved

LEMMA SearchOK ==
  ASSUME NEW h \in Handlers, handler[h] \in Searches, NEW step \in {"search", "draft", "wider"}, NEW n \in Nat
  PROVE  /\ Search(h, step, n) \in Searches
         /\ Search(h, step, n).sid = handler[h].sid /\ Search(h, step, n).q = handler[h].q
BY DEF Search, Searches

\* Another attempt, or an abstention.
LEMMA NextAttemptOK ==
  ASSUME NEW h \in Handlers, handler[h] \in Searches, NEW n \in Nat
  PROVE  LET new == NextAttempt(h, n)
         IN  new \in Active /\ new.sid = handler[h].sid /\ new.q = handler[h].q
BY SearchOK, ReadyOK DEF NextAttempt, Active

\* A request comes into a handler.
LEMMA QueuedStep ==
  ASSUME TabsOK, TabsOK', HandlersOK, Grown, Kept, NEW h \in Handlers, NEW t \in Tabs,
         Post(h, t) \/ LeaveOpening(h, t)
  PROVE  HandlersOK'
<1>1. PICK n \in 1 .. MaxSessions : /\ handler' = [handler EXCEPT ![h] = Queued(<<t, n>>, t)]
                                   /\ n <= tab'[t].opened /\ tab'[t].q = tab[t].q
  <2>1. /\ tab[t] \in Tab /\ tab[t].session <= tab[t].opened
        /\ tab[t].step = "posted" => tab[t].session >= 1
    BY DEF TabsOK
  <2>2. CASE Post(h, t)
    <3>1. /\ tab[t].session \in 1 .. MaxSessions
          /\ handler' = [handler EXCEPT ![h] = Queued(<<t, tab[t].session>>, t)]
      BY <2>1, <2>2, ChatAssumption DEF Post, Tab
    <3>2. tab'[t].opened = tab[t].opened /\ tab'[t].q = tab[t].q
      BY <2>1, <2>2 DEF Post, TabsOK, Tab
    <3> QED  BY <2>1, <3>1, <3>2
  <2>3. CASE LeaveOpening(h, t)
    <3> DEFINE n == tab[t].opened + 1
    <3>1. n \in 1 .. MaxSessions
      BY <2>1, <2>3, ChatAssumption DEF LeaveOpening, Tab
    <3>2. /\ handler' = [handler EXCEPT ![h] = Queued(<<t, n>>, t)]
          /\ tab' = [tab EXCEPT ![t] = [tab[t] EXCEPT !.session = 0, !.opened = n, !.step = "free"]]
      BY <2>3 DEF LeaveOpening
    <3> HIDE DEF n
    <3>3. tab'[t].opened = n /\ tab'[t].q = tab[t].q
      BY <2>1, <3>2 DEF TabsOK, Tab
    <3>4. n <= tab'[t].opened
      BY <3>1, <3>3, ChatAssumption
    <3> QED  BY <3>1, <3>2, <3>3, <3>4, Zenon
  <2> QED  BY <2>2, <2>3
<1>2. /\ tab[t] \in Tab /\ tab[t].q >= 1 /\ tab'[t] \in Tab
  BY DEF Post, LeaveOpening, TabsOK
<1>3. <<t, n>> \in SessionIds /\ tab[t].q \in Questions /\ n \in 1 .. tab'[t].opened /\ tab[t].q \in 1 .. tab'[t].q
  BY <1>1, <1>2, ChatAssumption DEF SessionIds, Tab, Questions
<1> DEFINE new == Queued(<<t, n>>, t)
<1>4. new \in Queue /\ new.sid = <<t, n>> /\ new.q = tab[t].q
  BY <1>2, <1>3 DEF Queued, Queue, Tab
<1>5. handler' = [handler EXCEPT ![h] = new]
  BY <1>1
<1> HIDE DEF new
<1>6. new \in Requests /\ new \notin Active
  BY <1>4, ActiveSteps DEF Requests
<1>7. IsKnown(new, tab')
  BY <1>3, <1>4 DEF IsKnown
<1> QED  BY <1>5, <1>6, <1>7, HandlerChanges

\* The handler reads the session.
Began(h) ==
  [step |-> IF handler[h].kind = "ask" THEN "search" ELSE handler[h].kind, sid |-> handler[h].sid,
   q |-> handler[h].q, outside |-> handler[h].outside, seen |-> sessions[handler[h].sid], attempt |-> 0]

LEMMA BeginStep ==
  ASSUME TabsOK, TabsOK', SessionsOK, HandlersOK, Grown, Kept, NEW h \in Handlers, Begin(h)
  PROVE  HandlersOK'
<1>1. /\ handler[h] \in Queue /\ handler[h] \in Requests /\ handler[h] # Idle
  BY ActiveSteps DEF Begin, HandlersOK
<1>2. /\ handler[h].sid \in SessionIds /\ handler[h].q \in Questions
      /\ handler[h].kind \in Kinds /\ handler[h].outside \in BOOLEAN
  BY <1>1 DEF Queue
<1>3. IsKnown(handler[h], tab')
  BY <1>1, StaysKnown DEF HandlersOK
<1>4. CASE sessions[handler[h].sid] = Gone
  <2> DEFINE new == Reply(h, "unknown")
  <2>1. handler' = [handler EXCEPT ![h] = new]
    BY <1>4 DEF Begin
  <2>2. new \in Replies /\ new.sid = handler[h].sid /\ new.q = handler[h].q
    BY <1>1, ReplyOK
  <2> HIDE DEF new
  <2>3. new \in Requests /\ new \notin Active /\ IsKnown(new, tab')
    BY <1>3, <2>2, ActiveSteps DEF Requests, IsKnown
  <2> QED  BY <2>1, <2>3, HandlerChanges
<1>5. CASE sessions[handler[h].sid] # Gone
  <2>1. handler' = [handler EXCEPT ![h] = Began(h)]
    BY <1>5 DEF Begin, Began
  <2>2. sessions[handler[h].sid] \in Session
    BY <1>2, <1>5 DEF SessionsOK
  <2>3. Began(h) \in Searches /\ Began(h).sid = handler[h].sid /\ Began(h).q = handler[h].q
    BY <1>2, <2>2 DEF Began, Searches, Kinds
  <2>4. Began(h) \in Requests /\ IsKnown(Began(h), tab')
    BY <1>3, <2>3 DEF Requests, Active, IsKnown
  <2> QED  BY <1>5, <2>1, <2>3, <2>4, HandlerChanges
<1> QED  BY <1>4, <1>5

LEMMA HandlersStep ==
  ASSUME TabsOK, TabsOK', SessionsOK, HandlersOK, Grown, Kept, NEW h \in Handlers, Work(h)
  PROVE  HandlersOK'
<1>0. handler[h] \in Requests
  BY DEF HandlersOK
<1>1. CASE SaveCleared(h)
  <2>1. handler[h] \in Active /\ handler' = [handler EXCEPT ![h] = Reply(h, "answer")]
    BY <1>0, <1>1, ActiveSteps DEF SaveCleared, Active
  <2> QED  BY <2>1, ReplyOK, RequestGoesOn
<1>2. CASE SearchFails(h)
  <2>1. handler[h] \in Active /\ handler' = [handler EXCEPT ![h] = Reply(h, "failed")]
    BY <1>0, <1>2, ActiveSteps DEF SearchFails, Active
  <2> QED  BY <2>1, ReplyOK, RequestGoesOn
<1>3. CASE SearchEvidence(h)
  <2>1. handler[h] \in Searches
    BY <1>0, <1>3, ActiveSteps DEF SearchEvidence
  <2> DEFINE n == handler[h].attempt + 1
  <2>2. n \in Nat
    BY <2>1 DEF Searches
  <2>3. PICK new \in {Search(h, "draft", n), NextAttempt(h, n)} : handler' = [handler EXCEPT ![h] = new]
    BY <1>3 DEF SearchEvidence
  <2>4. new \in Active /\ new.sid = handler[h].sid /\ new.q = handler[h].q
    BY <2>1, <2>2, <2>3, SearchOK, NextAttemptOK DEF Active
  <2> QED  BY <2>1, <2>3, <2>4, RequestGoesOn DEF Active
<1>4. CASE ModelAnswers(h)
  <2>1. handler[h] \in Searches
    BY <1>0, <1>4, ActiveSteps DEF ModelAnswers
  <2>2. PICK new \in {Ready(h), NextAttempt(h, handler[h].attempt)} : handler' = [handler EXCEPT ![h] = new]
    BY <1>4 DEF ModelAnswers
  <2>3. handler[h].attempt \in Nat
    BY <2>1 DEF Searches
  <2>4. new \in Active /\ new.sid = handler[h].sid /\ new.q = handler[h].q
    BY <2>1, <2>2, <2>3, ReadyOK, NextAttemptOK DEF Active
  <2> QED  BY <2>1, <2>2, <2>4, RequestGoesOn DEF Active
<1>6. CASE SearchThread(h) \/ SearchOutside(h)
  <2>1. handler[h] \in Searches
    BY <1>0, <1>6, ActiveSteps DEF SearchThread, SearchOutside
  <2>2. PICK new \in {Search(h, "wider", 0), Ready(h)} : handler' = [handler EXCEPT ![h] = new]
    BY <1>6 DEF SearchThread, SearchOutside
  <2>3. new \in Active /\ new.sid = handler[h].sid /\ new.q = handler[h].q
    BY <2>1, <2>2, ReadyOK, SearchOK DEF Active
  <2> QED  BY <2>1, <2>2, <2>3, RequestGoesOn DEF Active
<1>8. CASE SaveMemory(h) \/ AppendUser(h)
  <2> DEFINE new(step) == [step |-> step, sid |-> handler[h].sid, q |-> handler[h].q,
                           seen |-> handler[h].seen]
  <2>1. handler[h] \in Saved \cup Copied
    BY <1>0, <1>8, ActiveSteps DEF SaveMemory, AppendUser
  <2>2. PICK step \in {"saved", "asked"} : handler' = [handler EXCEPT ![h] = new(step)]
    BY <1>8 DEF SaveMemory, AppendUser
  <2>3. new(step) \in Saved
    BY <2>1 DEF Copied, Saved
  <2>4. new(step).sid = handler[h].sid /\ new(step).q = handler[h].q
    OBVIOUS
  <2> HIDE DEF new
  <2> QED  BY <2>1, <2>2, <2>3, <2>4, RequestGoesOn DEF Active
<1>9. CASE CopyFor(h)
  <2>1. handler[h] \in Saved
    BY <1>0, <1>9, ActiveSteps DEF CopyFor
  <2>2. handler[h].sid \in SessionIds /\ handler[h].q \in Questions /\ handler[h].seen \in Session
    BY <2>1 DEF Saved
  <2>3. sessions[handler[h].sid] \in Session
    BY <2>1, <2>2 DEF HandlersOK, SessionsOK, Active
  <2> DEFINE new == [step |-> IF handler[h].step = "saved" THEN "copied" ELSE "answering",
                     sid |-> handler[h].sid, q |-> handler[h].q, seen |-> handler[h].seen,
                     copy |-> sessions[handler[h].sid]]
  <2>4. handler' = [handler EXCEPT ![h] = new]
    BY <1>9 DEF CopyFor, ReadAgain
  <2>5. new \in Copied /\ new.sid = handler[h].sid /\ new.q = handler[h].q
    BY <2>2, <2>3 DEF Copied
  <2> HIDE DEF new
  <2> QED  BY <2>1, <2>4, <2>5, RequestGoesOn DEF Active
<1>10. CASE AppendAnswer(h)
  <2>1. handler[h] \in Copied
    BY <1>0, <1>10, ActiveSteps DEF AppendAnswer
  <2>2. PICK outcome \in {"answer", "failed"} : handler' = [handler EXCEPT ![h] = Reply(h, outcome)]
    BY <1>10 DEF AppendAnswer
  <2> QED  BY <2>1, <2>2, ReplyOK, RequestGoesOn DEF Active
<1>11. CASE Receive(h)
  <2>1. handler' = [handler EXCEPT ![h] = Idle]
    BY <1>11 DEF Receive
  <2>2. Idle \in Requests /\ Idle \notin Active
    BY ActiveSteps DEF Requests
  <2> QED  BY <2>1, <2>2, HandlerChanges
<1> QED  BY <1>1, <1>2, <1>3, <1>4, <1>6, <1>8, <1>9, <1>10, <1>11, BeginStep DEF Work

-----------------------------------------------------------------------------
(* The system.                                                             *)

LEMMA ChatInvInit == Init => ChatInv
<1> SUFFICES ASSUME Init PROVE ChatInv
  OBVIOUS
<1>1. TabsOK
  <2>1. FreeTab \in Tab
    BY ChatAssumption DEF FreeTab, Tab, Kinds
  <2> QED  BY <2>1 DEF Init, TabsOK, FreeTab
<1>2. SessionsOK
  BY DEF Init, SessionsOK
<1>3. HandlersOK
  <2>1. Idle \in Requests /\ Idle \notin Active
    BY ActiveSteps DEF Requests
  <2> QED  BY <2>1 DEF Init, HandlersOK
<1> QED  BY <1>1, <1>2, <1>3 DEF ChatInv

LEMMA ChatInvNext == ChatInv /\ [Next]_vars => ChatInv'
<1> SUFFICES ASSUME TabsOK, SessionsOK, HandlersOK, [Next]_vars PROVE ChatInv'
  BY DEF ChatInv
<1>1. TabsOK' /\ Grown
  BY TabsStep
<1>2. SessionsOK' /\ (Kept \/ Restart)
  BY SessionsStep
<1>3. CASE Restart
  <2>1. handler' = [h \in Handlers |-> Idle]
    BY <1>3 DEF Restart
  <2>2. Idle \in Requests /\ Idle \notin Active
    BY ActiveSteps DEF Requests
  <2>3. HandlersOK'
    BY <2>1, <2>2 DEF HandlersOK
  <2> QED  BY <1>1, <1>2, <2>3 DEF ChatInv
<1>4. CASE Kept
  <2>1. ASSUME UNCHANGED handler PROVE HandlersOK'
    BY <1>1, <1>4, <2>1, HandlersStay
  <2>2. ASSUME NEW t \in Tabs,
               Submit(t) \/ OpenSession(t) \/ OpenFails(t) \/ TimesOut(t) \/ NewChat(t)
        PROVE  UNCHANGED handler
    BY <2>2 DEF Submit, OpenSession, OpenFails, TimesOut, NewChat
  <2>3. ASSUME NEW h \in Handlers, Work(h) PROVE HandlersOK'
    BY <1>1, <1>4, <2>3, HandlersStep
  <2>4. ASSUME NEW h \in Handlers, NEW t \in Tabs, Post(h, t) \/ LeaveOpening(h, t) PROVE HandlersOK'
    BY <1>1, <1>4, <2>4, QueuedStep
  <2>5. UNCHANGED vars => UNCHANGED handler
    BY DEF vars
  <2>6. HandlersOK'
    BY <1>2, <1>3, <2>1, <2>2, <2>3, <2>4, <2>5 DEF Next, ChatInv
  <2> QED  BY <1>1, <1>2, <2>6 DEF ChatInv
<1> QED  BY <1>2, <1>3, <1>4

\* The invariant of the answering: tabs, sessions and the requests between them
\* agree.
THEOREM ChatInvariant == Spec => []ChatInv
<1>1. Init => ChatInv
  BY ChatInvInit
<1>2. ChatInv /\ [Next]_vars => ChatInv'
  BY ChatInvNext
<1> QED  BY <1>1, <1>2, PTL DEF Spec

\* Whatever fails or restarts, sessions keep at most max_recent_turns turns and
\* a handler works on a request of its tab, in a session the tab has opened.
THEOREM ChatTypeCorrect == Spec => []ChatTypeOK
<1>1. ChatInv => ChatTypeOK
  <2> SUFFICES ASSUME ChatInv PROVE ChatTypeOK
    OBVIOUS
  <2>1. sessions \in [SessionIds -> Session \cup {Gone}]
    BY DEF ChatInv, SessionsOK
  <2>2. \A t \in Tabs : tab[t].session \in 0 .. tab[t].opened /\ tab[t].q \in 0 .. MaxQuestions
    BY ChatAssumption DEF ChatInv, TabsOK, Tab
  <2>3. \A h \in Handlers : Underway(h) => IsKnown(handler[h], tab)
    BY DEF ChatInv, HandlersOK, Underway
  <2> QED  BY <2>1, <2>2, <2>3 DEF ChatTypeOK, IsKnown
<1> QED  BY <1>1, ChatInvariant, PTL

-----------------------------------------------------------------------------
(* The history of a session.                                               *)

Deciding == {"search", "draft", "wider"}

\* Question q of tab t has come to the server, or never will.
Sent(tabs, t, q) ==
  q < tabs[t].q \/ (q = tabs[t].q /\ tabs[t].step \notin {"opening", "posted"})

\* The turns that a request has yet to append.
RolesLeft(step) ==
  IF step \in Deciding \cup {"queued", "ready", "saved", "copied"} THEN {"user", "assistant"}
  ELSE IF step \in {"asked", "answering"} THEN {"assistant"} ELSE {}

ToSay(request) == [role : RolesLeft(request.step), q : {request.q}]

IsOnce(turns) ==
  \A i, j \in 1 .. Len(turns) : i < j =>
    turns[i] # turns[j] /\ ~(turns[i].q = turns[j].q /\ turns[i].role = "assistant")

\* A copy of a session of tab t: no turn twice, and none of a question that is
\* not sent, or that a handler has yet to append.
Fits(tabs, requests, t, copy) ==
  /\ IsOnce(copy.turns)
  /\ \A i \in 1 .. Len(copy.turns) :
       /\ Sent(tabs, t, copy.turns[i].q)
       /\ \A h \in Handlers : requests[h] # Idle /\ requests[h].sid[1] = t =>
            copy.turns[i] \notin ToSay(requests[h])
  /\ \A q \in copy.heard : Sent(tabs, t, q)

SessionsFit ==
  \A s \in SessionIds : sessions[s] # Gone => Fits(tab, handler, s[1], sessions[s])

CopiesFit ==
  \A h \in Handlers :
    /\ handler[h] \in Active => Fits(tab, handler, handler[h].sid[1], handler[h].seen)
    /\ handler[h].step \in {"copied", "answering"} =>
         Fits(tab, handler, handler[h].sid[1], handler[h].copy)

\* A handler's question is sent, and nobody else's.
OwnQuestions ==
  /\ \A h \in Handlers : handler[h] # Idle => Sent(tab, handler[h].sid[1], handler[h].q)
  /\ \A g, h \in Handlers :
       /\ handler[g] # Idle /\ handler[h] # Idle
       /\ handler[g].sid[1] = handler[h].sid[1] /\ handler[g].q = handler[h].q
       => g = h

TalkInv == SessionsFit /\ CopiesFit /\ OwnQuestions

-----------------------------------------------------------------------------
(* What a step does to questions.                                          *)

\* Questions are sent once and for all; a request says less and less, and a
\* new one is of a question that was not sent.
Goes(tabs, old, new) ==
  \/ /\ old # Idle /\ new.sid = old.sid /\ new.q = old.q
     /\ RolesLeft(new.step) \subseteq RolesLeft(old.step)
  \/ ~Sent(tabs, new.sid[1], new.q)

Moves(tabs, old, tabs2, new) ==
  /\ \A t \in Tabs, q \in Questions : Sent(tabs, t, q) => Sent(tabs2, t, q)
  /\ \A h \in Handlers : new[h] # Idle => Goes(tabs, old[h], new[h])

LEMMA IsQuestion == \A q \in Questions : q \in Nat /\ q >= 1
BY ChatAssumption DEF Questions

LEMMA SentStep ==
  ASSUME TabsOK, [Next]_vars, NEW t \in Tabs, NEW q \in Questions, Sent(tab, t, q)
  PROVE  Sent(tab', t, q)
<1>0. tab \in [Tabs -> Tab] /\ tab[t] \in Tab
  BY DEF TabsOK
<1>1. CASE tab'[t] = tab[t]
  BY <1>1 DEF Sent
<1>2. ASSUME NEW u \in Tabs, Submit(u) PROVE Sent(tab', t, q)
  <2>1. PICK kind \in Kinds, outside \in BOOLEAN :
          tab' = [tab EXCEPT ![u] = [tab[u] EXCEPT
            !.q = tab[u].q + 1, !.kind = kind, !.outside = outside,
            !.step = IF tab[u].session = 0 THEN "opening" ELSE "posted"]]
    BY <1>2 DEF Submit, Kinds
  <2>2. CASE u = t
    <3> DEFINE new == [tab[t] EXCEPT
            !.q = tab[t].q + 1, !.kind = kind, !.outside = outside,
            !.step = IF tab[t].session = 0 THEN "opening" ELSE "posted"]
    <3>1. tab' = [tab EXCEPT ![t] = new] /\ new.q = tab[t].q + 1
      BY <1>0, <2>1, <2>2 DEF Tab
    <3> HIDE DEF new
    <3>2. tab'[t].q = tab[t].q + 1
      BY <1>0, <3>1
    <3>3. tab[t].q \in Nat /\ q \in Nat /\ q <= tab[t].q
      BY <1>0, IsQuestion, ChatAssumption DEF Tab, Sent
    <3> QED  BY <3>2, <3>3 DEF Sent
  <2> QED  BY <1>0, <1>1, <2>1, <2>2
<1>3. ASSUME NEW u \in Tabs, OpenSession(u) PROVE Sent(tab', t, q)
  <2>1. /\ tab[u].step = "opening"
        /\ tab' = [tab EXCEPT ![u] = [tab[u] EXCEPT
             !.session = tab[u].opened + 1, !.opened = tab[u].opened + 1, !.step = "posted"]]
    BY <1>3 DEF OpenSession
  <2>2. CASE u = t
    <3>1. tab'[t].q = tab[t].q
      BY <1>0, <2>1, <2>2 DEF Tab
    <3> QED  BY <2>1, <2>2, <3>1 DEF Sent
  <2> QED  BY <1>0, <1>1, <2>1, <2>2
<1>4. ASSUME tab'[t].q = tab[t].q, tab'[t].step \in {"free", "waiting", tab[t].step}
      PROVE  Sent(tab', t, q)
  BY <1>4 DEF Sent
<1>5. ASSUME NEW u \in Tabs, OpenFails(u) \/ TimesOut(u) \/ NewChat(u) PROVE Sent(tab', t, q)
  <2>1. \/ tab' = [tab EXCEPT ![u].step = "free"]
        \/ tab' = [tab EXCEPT ![u] = [tab[u] EXCEPT !.session = 0, !.step = "free"]]
    BY <1>5 DEF OpenFails, TimesOut, NewChat, TriesAgain
  <2>2. \/ tab'[t] = tab[t] \/ tab'[t] = [tab[t] EXCEPT !.step = "free"]
        \/ tab'[t] = [tab[t] EXCEPT !.session = 0, !.step = "free"]
    BY <1>0, <2>1
  <2>3. ASSUME tab'[t] = [tab[t] EXCEPT !.step = "free"] PROVE Sent(tab', t, q)
    BY <1>0, <1>4, <2>3 DEF Tab
  <2>4. ASSUME tab'[t] = [tab[t] EXCEPT !.session = 0, !.step = "free"] PROVE Sent(tab', t, q)
    BY <1>0, <1>4, <2>4 DEF Tab
  <2> QED  BY <1>1, <2>2, <2>3, <2>4
<1>6. ASSUME NEW h \in Handlers, NEW u \in Tabs, Post(h, u) \/ LeaveOpening(h, u)
      PROVE  Sent(tab', t, q)
  <2>1. CASE Post(h, u)
    <3>1. tab' = [tab EXCEPT ![u].step = "waiting"]
      BY <2>1 DEF Post
    <3>2. tab'[t].q = tab[t].q /\ tab'[t].step \in {"waiting", tab[t].step}
      BY <1>0, <3>1 DEF Tab
    <3> QED  BY <1>4, <3>2
  <2>2. CASE LeaveOpening(h, u)
    <3>1. PICK n : tab' = [tab EXCEPT ![u] = [tab[u] EXCEPT !.session = 0, !.opened = n, !.step = "free"]]
      BY <2>2 DEF LeaveOpening
    <3>2. tab'[t].q = tab[t].q /\ tab'[t].step \in {"free", tab[t].step}
      BY <1>0, <3>1 DEF Tab
    <3> QED  BY <1>4, <3>2
  <2> QED  BY <1>6, <2>1, <2>2
<1>7. ASSUME (\E h \in Handlers : Receive(h)) \/ Restart PROVE Sent(tab', t, q)
  <2>1. tab'[t] = tab[t] \/ tab'[t] = [tab[t] EXCEPT !.step = "free"]
    BY <1>7 DEF Receive, Restart, TriesAgain, Status
  <2>2. tab'[t].q = tab[t].q /\ tab'[t].step \in {"free", tab[t].step}
    BY <1>0, <2>1 DEF Tab
  <2> QED  BY <1>4, <2>2
<1>8. ASSUME NEW h \in Handlers, Work(h), ~Receive(h) PROVE UNCHANGED tab
  BY <1>8 DEF Work, Begin, SaveCleared, SearchFails, SearchEvidence, ModelAnswers,
     SearchThread, SearchOutside, SaveMemory, CopyFor, AppendUser, AppendAnswer
<1>9. UNCHANGED vars => UNCHANGED tab
  BY DEF vars
<1> QED  BY <1>1, <1>2, <1>3, <1>5, <1>6, <1>7, <1>8, <1>9 DEF Next

\* The request of handler h is now new; the others are what they were.
OnlyOne(h, new) ==
  /\ handler'[h] = new
  /\ \A g \in Handlers : g # h => handler'[g] = handler[g]

LEMMA OneChanges ==
  ASSUME HandlersOK, NEW h \in Handlers, NEW new, handler' = [handler EXCEPT ![h] = new]
  PROVE  OnlyOne(h, new)
BY DEF HandlersOK, OnlyOne

Proceeds(old, new) ==
  /\ new.sid = old.sid /\ new.q = old.q
  /\ new.step \in Deciding \cup {"ready", "reply"}
  /\ new.step # "reply" => new.seen = old.seen

Decides(h) ==
  \/ SearchFails(h) \/ SearchEvidence(h) \/ ModelAnswers(h)
  \/ SearchThread(h) \/ SearchOutside(h)

\* Until a decision is saved, only the handler's own request changes.
LEMMA DecidesStep ==
  ASSUME HandlersOK, NEW h \in Handlers, Decides(h)
  PROVE  /\ handler[h].step \in Deciding
         /\ UNCHANGED <<sessions, tab, impatient>>
         /\ \E new : OnlyOne(h, new) /\ Proceeds(handler[h], new)
<1>1. handler[h].step \in Deciding /\ UNCHANGED <<sessions, tab, impatient>>
  BY DEF Decides, SearchFails, SearchEvidence, ModelAnswers, SearchThread, SearchOutside, Deciding
<1>2. ASSUME NEW new, handler' = [handler EXCEPT ![h] = new], Proceeds(handler[h], new)
      PROVE  \E now : OnlyOne(h, now) /\ Proceeds(handler[h], now)
  BY <1>2, OneChanges
<1>3. \A outcome : Proceeds(handler[h], Reply(h, outcome))
  BY DEF Proceeds, Reply
<1>4. Proceeds(handler[h], Ready(h))
  BY DEF Proceeds, Ready
<1>5. \A step \in Deciding : \A n : Proceeds(handler[h], Search(h, step, n))
  BY DEF Proceeds, Search, Deciding
<1>6. \A n : Proceeds(handler[h], NextAttempt(h, n))
  BY <1>4, <1>5 DEF NextAttempt, Deciding
<1>7. \E new : handler' = [handler EXCEPT ![h] = new] /\ Proceeds(handler[h], new)
  <2>1. CASE SearchFails(h)
    BY <1>3, <2>1 DEF SearchFails
  <2>2. CASE SearchEvidence(h)
    <3> DEFINE n == handler[h].attempt + 1
    <3>1. PICK new \in {Search(h, "draft", n), NextAttempt(h, n)} : handler' = [handler EXCEPT ![h] = new]
      BY <2>2 DEF SearchEvidence
    <3> HIDE DEF n
    <3> QED  BY <1>5, <1>6, <3>1 DEF Deciding
  <2>3. CASE ModelAnswers(h)
    <3>1. PICK new \in {Ready(h), NextAttempt(h, handler[h].attempt)} : handler' = [handler EXCEPT ![h] = new]
      BY <2>3 DEF ModelAnswers
    <3> QED  BY <1>4, <1>6, <3>1
  <2>4. CASE SearchThread(h) \/ SearchOutside(h)
    <3>1. PICK new \in {Search(h, "wider", 0), Ready(h)} : handler' = [handler EXCEPT ![h] = new]
      BY <2>4 DEF SearchThread, SearchOutside
    <3> QED  BY <1>4, <1>5, <3>1 DEF Deciding
  <2> QED  BY <2>1, <2>2, <2>3, <2>4 DEF Decides
<1> QED  BY <1>1, <1>2, <1>7

-----------------------------------------------------------------------------
(* A copy that fits goes on fitting.                                       *)

Continues(old, new) ==
  /\ old # Idle /\ new.sid = old.sid /\ new.q = old.q
  /\ RolesLeft(new.step) \subseteq RolesLeft(old.step)

LEMMA TabsMove ==
  ASSUME TabsOK, [Next]_vars
  PROVE  \A t \in Tabs, q \in Questions : Sent(tab, t, q) => Sent(tab', t, q)
BY SentStep

LEMMA NobodyMoves ==
  ASSUME TabsOK, [Next]_vars, \A h \in Handlers : handler'[h] \in {Idle, handler[h]}
  PROVE  Moves(tab, handler, tab', handler')
<1>1. \A h \in Handlers : handler'[h] # Idle => Goes(tab, handler[h], handler'[h])
  BY DEF Goes
<1> QED  BY <1>1, TabsMove DEF Moves

LEMMA OneMoves ==
  ASSUME TabsOK, [Next]_vars, NEW h \in Handlers, NEW new, OnlyOne(h, new),
         new = Idle \/ Continues(handler[h], new) \/ ~Sent(tab, new.sid[1], new.q)
  PROVE  Moves(tab, handler, tab', handler')
<1>1. new # Idle => Goes(tab, handler[h], new)
  BY DEF Goes, Continues
<1>2. \A g \in Handlers : handler'[g] # Idle => Goes(tab, handler[g], handler'[g])
  BY <1>1 DEF OnlyOne, Goes
<1> QED  BY <1>2, TabsMove DEF Moves

LEMMA HistoryTurns ==
  ASSUME NEW session \in Session
  PROVE  /\ session.turns \in Histories /\ session.turns \in Seq(Turns)
         /\ Len(session.turns) \in Nat
         /\ \A i \in 1 .. Len(session.turns) : session.turns[i] \in Turns
<1>1. session.turns \in Histories
  BY DEF Session, Histories
<1>2. PICK n \in 0 .. MaxTurns : session.turns \in [1 .. n -> Turns]
  BY <1>1 DEF Histories
<1>3. session.turns \in Seq(Turns) /\ Len(session.turns) = n
  BY <1>2, ChatAssumption
<1> QED  BY <1>1, <1>2, <1>3, ChatAssumption

LEMMA TurnToSay ==
  \A turn \in Turns : \A request :
    turn \in ToSay(request) <=> turn.role \in RolesLeft(request.step) /\ turn.q = request.q
<1> TAKE turn \in Turns
<1> TAKE request
<1>1. turn = [role |-> turn.role, q |-> turn.q]
  BY DEF Turns
<1> QED  BY <1>1 DEF ToSay

LEMMA FitsOn ==
  ASSUME NEW tabs, NEW old, NEW tabs2, NEW new, Moves(tabs, old, tabs2, new),
         NEW t \in Tabs, NEW x \in Session, NEW y \in Session, Fits(tabs, old, t, x),
         y.turns = x.turns \/ y.turns = << >>,
         \A q \in y.heard : q \in x.heard \/ Sent(tabs2, t, q)
  PROVE  Fits(tabs2, new, t, y)
<1>1. \A q \in Questions : Sent(tabs, t, q) => Sent(tabs2, t, q)
  BY DEF Moves
<1>2. \A q \in y.heard : Sent(tabs2, t, q)
  BY <1>1 DEF Fits, Session
<1>3. CASE y.turns = << >>
  BY <1>2, <1>3 DEF Fits, IsOnce
<1>4. CASE y.turns = x.turns
  <2>1. \A i \in 1 .. Len(x.turns) : x.turns[i] \in Turns
    BY HistoryTurns
  <2>2. ASSUME NEW i \in 1 .. Len(x.turns) PROVE Sent(tabs2, t, x.turns[i].q)
    BY <1>1, <2>1 DEF Fits, Turns
  <2>3. ASSUME NEW i \in 1 .. Len(x.turns), NEW h \in Handlers, new[h] # Idle, new[h].sid[1] = t
        PROVE  x.turns[i] \notin ToSay(new[h])
    <3> DEFINE turn == x.turns[i]
    <3>1. turn \in Turns /\ Sent(tabs, t, turn.q)
      BY <2>1 DEF Fits
    <3>2. Goes(tabs, old[h], new[h])
      BY <2>3 DEF Moves
    <3>3. CASE ~Sent(tabs, t, new[h].q)
      BY <3>1, <3>3, TurnToSay
    <3>4. CASE Continues(old[h], new[h])
      <4>1. turn \notin ToSay(old[h])
        BY <2>3, <3>4 DEF Fits, Continues
      <4> QED  BY <3>1, <3>4, <4>1, TurnToSay DEF Continues
    <3> QED  BY <2>3, <3>2, <3>3, <3>4 DEF Goes, Continues
  <2> QED  BY <1>2, <1>4, <2>2, <2>3 DEF Fits
<1> QED  BY <1>3, <1>4

\* What is kept of the turns are the last ones, in their order.
Dropped(all) == IF Len(all) > MaxTurns THEN Len(all) - MaxTurns ELSE 0

LEMMA LastTurnsAre ==
  ASSUME NEW all \in Seq(Turns)
  PROVE  /\ LastTurns(all) \in Seq(Turns)
         /\ Dropped(all) \in 0 .. Len(all) /\ Len(LastTurns(all)) = Len(all) - Dropped(all)
         /\ \A i \in 1 .. Len(LastTurns(all)) : LastTurns(all)[i] = all[i + Dropped(all)]
<1> DEFINE first == IF Len(all) > MaxTurns THEN Len(all) - MaxTurns + 1 ELSE 1
           last == SubSeq(all, first, Len(all))
<1>1. Len(all) \in Nat /\ MaxTurns \in Nat
  BY ChatAssumption
<1>2. /\ Dropped(all) \in 0 .. Len(all) /\ first = Dropped(all) + 1
      /\ first \in 1 .. Len(all) + 1
  BY <1>1 DEF Dropped
<1>3. LastTurns(all) = last
  BY DEF LastTurns
<1> HIDE DEF first
<1>4. \A i \in first .. Len(all) : all[i] \in Turns
  BY <1>1, <1>2, ElementOfSeq
<1>5. /\ last \in Seq(Turns)
      /\ Len(last) = IF first <= Len(all) THEN Len(all) - first + 1 ELSE 0
      /\ \A i \in 1 .. Len(all) - first + 1 : last[i] = all[first + i - 1]
  BY <1>1, <1>2, <1>4, SubSeqProperties
<1> HIDE DEF last
<1>6. Len(last) = Len(all) - Dropped(all)
  BY <1>1, <1>2, <1>5
<1>7. ASSUME NEW i \in 1 .. Len(last) PROVE last[i] = all[i + Dropped(all)]
  <2>1. i \in 1 .. Len(all) - first + 1 /\ first + i - 1 = i + Dropped(all)
    BY <1>1, <1>2, <1>6
  <2> QED  BY <1>5, <2>1
<1> QED  BY <1>2, <1>3, <1>5, <1>6, <1>7

LEMMA AppendFits ==
  ASSUME NEW tabs, NEW old, NEW tabs2, NEW new, Moves(tabs, old, tabs2, new),
         NEW t \in Tabs, NEW h \in Handlers, old[h] # Idle, old[h].sid[1] = t,
         NEW turn \in Turns, turn \in ToSay(old[h]), turn \notin ToSay(new[h]),
         Sent(tabs, t, turn.q),
         \A g \in Handlers \ {h} : old[g] # Idle /\ old[g].sid[1] = t => old[g].q # turn.q,
         NEW x \in Session, Fits(tabs, old, t, x), NEW y, y.heard = x.heard,
         y.turns = LastTurns(x.turns \o <<turn>>)
  PROVE  Fits(tabs2, new, t, y)
<1> DEFINE all == x.turns \o <<turn>>
           n == Len(x.turns)
<1>0. n \in Nat /\ x.turns \in Seq(Turns) /\ \A i \in 1 .. n : x.turns[i] \in Turns
  BY HistoryTurns
<1>1. /\ all \in Seq(Turns) /\ Len(all) = n + 1 /\ all[n + 1] = turn
      /\ \A i \in 1 .. n : all[i] = x.turns[i]
  BY <1>0, ConcatProperties
<1>2. \A q \in Questions : Sent(tabs, t, q) => Sent(tabs2, t, q)
  BY DEF Moves
<1>3. Fits(tabs2, new, t, x)
  BY <1>2, FitsOn DEF Fits, Session
<1>4. \A i \in 1 .. n : x.turns[i] # turn /\ ~(x.turns[i].q = turn.q /\ x.turns[i].role = "assistant")
  <2> TAKE i \in 1 .. n
  <2>1. x.turns[i] \in Turns /\ x.turns[i] \notin ToSay(old[h])
    BY <1>0 DEF Fits
  <2>2. turn.role \in RolesLeft(old[h].step) /\ turn.q = old[h].q
    BY TurnToSay
  <2>3. "assistant" \in RolesLeft(old[h].step)
    BY <2>2 DEF RolesLeft
  <2> QED  BY <2>1, <2>2, <2>3, TurnToSay
<1>5. ASSUME NEW g \in Handlers, new[g] # Idle, new[g].sid[1] = t PROVE turn \notin ToSay(new[g])
  <2>1. CASE g = h
    BY <2>1
  <2>2. CASE g # h
    <3>1. new[g].q # turn.q
      BY <1>5, <2>2 DEF Moves, Goes
    <3> QED  BY <3>1, TurnToSay
  <2> QED  BY <2>1, <2>2
<1>6. Sent(tabs2, t, turn.q)
  BY <1>2 DEF Turns
<1> HIDE DEF all
<1>7. \A i \in 1 .. n + 1 : all[i] = IF i = n + 1 THEN turn ELSE x.turns[i]
  BY <1>0, <1>1
<1>8. IsOnce(all)
  <2> SUFFICES ASSUME NEW i \in 1 .. n + 1, NEW j \in 1 .. n + 1, i < j
               PROVE  all[i] # all[j] /\ ~(all[i].q = all[j].q /\ all[i].role = "assistant")
    BY <1>1 DEF IsOnce
  <2>1. i \in 1 .. n /\ (j \in 1 .. n \/ j = n + 1)
    BY <1>0
  <2> QED  BY <1>1, <1>3, <1>4, <2>1 DEF Fits, IsOnce
<1>9. ASSUME NEW i \in 1 .. n + 1
      PROVE  /\ Sent(tabs2, t, all[i].q)
             /\ \A g \in Handlers : new[g] # Idle /\ new[g].sid[1] = t => all[i] \notin ToSay(new[g])
  <2>1. CASE i = n + 1
    BY <1>1, <1>5, <1>6, <2>1
  <2>2. CASE i \in 1 .. n
    BY <1>1, <1>3, <2>2 DEF Fits
  <2> QED  BY <1>0, <2>1, <2>2
<1>10. y.turns = LastTurns(all)
  BY DEF all
<1> DEFINE last == LastTurns(all)
           off == Dropped(all)
<1>11. /\ Len(last) = n + 1 - off /\ off \in 0 .. n + 1
       /\ \A i \in 1 .. Len(last) : last[i] = all[i + off]
  BY <1>1, LastTurnsAre
<1> HIDE DEF last, off
<1>12. \A i \in 1 .. Len(last) : i + off \in 1 .. n + 1
  BY <1>0, <1>11
<1>13. IsOnce(last)
  <2> SUFFICES ASSUME NEW i \in 1 .. Len(last), NEW j \in 1 .. Len(last), i < j
               PROVE  last[i] # last[j] /\ ~(last[i].q = last[j].q /\ last[i].role = "assistant")
    BY DEF IsOnce
  <2>1. i + off \in 1 .. n + 1 /\ j + off \in 1 .. n + 1 /\ i + off < j + off
    BY <1>0, <1>11
  <2>2. all[i + off] # all[j + off] /\ ~(all[i + off].q = all[j + off].q /\ all[i + off].role = "assistant")
    BY <1>1, <1>8, <2>1 DEF IsOnce
  <2> QED  BY <1>11, <2>2
<1>14. \A q \in y.heard : Sent(tabs2, t, q)
  BY <1>3 DEF Fits
<1>15. ASSUME NEW i \in 1 .. Len(last)
       PROVE  /\ Sent(tabs2, t, last[i].q)
              /\ \A g \in Handlers : new[g] # Idle /\ new[g].sid[1] = t => last[i] \notin ToSay(new[g])
  <2>1. last[i] = all[i + off] /\ i + off \in 1 .. n + 1
    BY <1>11, <1>12
  <2> QED  BY <1>9, <2>1
<1>16. y.turns = last
  BY <1>10 DEF last
<1> QED  BY <1>13, <1>14, <1>15, <1>16 DEF Fits

-----------------------------------------------------------------------------
(* The history goes on being told once.                                    *)

LEMMA SessionsFitOn ==
  ASSUME SessionsOK, SessionsOK', SessionsFit, Moves(tab, handler, tab', handler'),
         \A s \in SessionIds :
           \/ sessions'[s] \in {Gone, sessions[s]} \/ Fits(tab', handler', s[1], sessions'[s])
  PROVE  SessionsFit'
<1> SUFFICES ASSUME NEW s \in SessionIds, sessions'[s] # Gone
             PROVE  Fits(tab', handler', s[1], sessions'[s])
  BY DEF SessionsFit
<1>1. CASE sessions'[s] = sessions[s]
  <2>1. s[1] \in Tabs /\ sessions[s] \in Session /\ Fits(tab, handler, s[1], sessions[s])
    BY <1>1 DEF SessionsFit, SessionsOK, SessionIds
  <2>2. Fits(tab', handler', s[1], sessions[s])
    BY <2>1, FitsOn
  <2> QED  BY <1>1, <2>2
<1> QED  BY <1>1

LEMMA OneSessionFits ==
  ASSUME SessionsOK, SessionsOK', SessionsFit, Moves(tab, handler, tab', handler'),
         NEW s \in SessionIds, NEW y, sessions' = [sessions EXCEPT ![s] = y],
         Fits(tab', handler', s[1], y)
  PROVE  SessionsFit'
<1>1. \A r \in SessionIds : sessions'[r] = IF r = s THEN y ELSE sessions[r]
  BY DEF SessionsOK
<1>2. \A r \in SessionIds :
        \/ sessions'[r] \in {Gone, sessions[r]} \/ Fits(tab', handler', r[1], sessions'[r])
  BY <1>1
<1> QED  BY <1>2, SessionsFitOn

\* A handler keeps what it has seen and copied, or has it from the session.
FromSessions ==
  \A h \in Handlers :
    /\ handler'[h] \in Active =>
         \/ /\ handler[h] \in Active /\ handler'[h].sid = handler[h].sid
            /\ handler'[h].seen = handler[h].seen
         \/ handler'[h].seen = sessions[handler'[h].sid]
    /\ handler'[h].step \in {"copied", "answering"} =>
         handler'[h] = handler[h] \/ handler'[h].copy = sessions[handler'[h].sid]

LEMMA ActiveParts ==
  ASSUME NEW request \in Active
  PROVE  /\ request.sid \in SessionIds /\ request.sid[1] \in Tabs /\ request.q \in Questions
         /\ request.seen \in Session
         /\ request.step \in {"copied", "answering"} => request.copy \in Session
BY DEF Active, Searches, Saved, Copied, SessionIds

LEMMA CopiesFitOn ==
  ASSUME SessionsOK, HandlersOK, HandlersOK', SessionsFit, CopiesFit,
         Moves(tab, handler, tab', handler'), FromSessions
  PROVE  CopiesFit'
<1>1. ASSUME NEW s \in SessionIds, sessions[s] \in Session
      PROVE  Fits(tab', handler', s[1], sessions[s])
  <2>1. s[1] \in Tabs /\ Fits(tab, handler, s[1], sessions[s])
    BY <1>1, GoneIsNoSession DEF SessionsFit, SessionIds
  <2> QED  BY <1>1, <2>1, FitsOn
<1>2. ASSUME NEW h \in Handlers, handler'[h] \in Active
      PROVE  Fits(tab', handler', handler'[h].sid[1], handler'[h].seen)
  <2>1. /\ handler'[h].sid \in SessionIds /\ handler'[h].sid[1] \in Tabs
        /\ handler'[h].seen \in Session
    BY <1>2, ActiveParts
  <2>2. CASE /\ handler[h] \in Active /\ handler'[h].sid = handler[h].sid
             /\ handler'[h].seen = handler[h].seen
    <3>1. Fits(tab, handler, handler'[h].sid[1], handler'[h].seen)
      BY <2>2 DEF CopiesFit
    <3> QED  BY <2>1, <3>1, FitsOn
  <2>3. CASE handler'[h].seen = sessions[handler'[h].sid]
    BY <1>1, <2>1, <2>3
  <2> QED  BY <1>2, <2>2, <2>3 DEF FromSessions
<1>3. ASSUME NEW h \in Handlers, handler'[h].step \in {"copied", "answering"}
      PROVE  Fits(tab', handler', handler'[h].sid[1], handler'[h].copy)
  <2>1. handler'[h] \in Copied
    BY <1>3, ActiveSteps DEF HandlersOK
  <2>2. /\ handler'[h].sid \in SessionIds /\ handler'[h].sid[1] \in Tabs
        /\ handler'[h].copy \in Session
    BY <1>3, <2>1, ActiveParts DEF Active
  <2>3. CASE handler'[h] = handler[h]
    <3>1. Fits(tab, handler, handler'[h].sid[1], handler'[h].copy)
      BY <1>3, <2>3 DEF CopiesFit
    <3> QED  BY <2>2, <3>1, FitsOn
  <2>4. CASE handler'[h].copy = sessions[handler'[h].sid]
    BY <1>1, <2>2, <2>4
  <2> QED  BY <1>3, <2>3, <2>4 DEF FromSessions
<1> QED  BY <1>2, <1>3 DEF CopiesFit

LEMMA OwnNobody ==
  ASSUME HandlersOK, OwnQuestions, Moves(tab, handler, tab', handler'),
         \A g \in Handlers : handler'[g] \in {Idle, handler[g]}
  PROVE  OwnQuestions'
<1>1. \A g \in Handlers : handler[g] # Idle =>
        handler[g].sid[1] \in Tabs /\ handler[g].q \in Questions
  BY RequestSessions DEF HandlersOK
<1>2. \A g \in Handlers : handler'[g] # Idle => handler'[g] = handler[g]
  OBVIOUS
<1>3. \A g \in Handlers : handler'[g] # Idle => Sent(tab', handler'[g].sid[1], handler'[g].q)
  BY <1>1, <1>2 DEF OwnQuestions, Moves
<1> QED  BY <1>2, <1>3 DEF OwnQuestions

LEMMA OwnOne ==
  ASSUME HandlersOK, OwnQuestions, Moves(tab, handler, tab', handler'),
         NEW h \in Handlers, NEW new, OnlyOne(h, new),
         \/ new = Idle \/ Continues(handler[h], new)
         \/ ~Sent(tab, new.sid[1], new.q) /\ Sent(tab', new.sid[1], new.q)
  PROVE  OwnQuestions'
<1>1. \A g \in Handlers : handler[g] # Idle =>
        /\ handler[g].sid[1] \in Tabs /\ handler[g].q \in Questions
        /\ Sent(tab, handler[g].sid[1], handler[g].q)
  BY RequestSessions DEF HandlersOK, OwnQuestions
<1>2. \A g \in Handlers : handler[g] # Idle => Sent(tab', handler[g].sid[1], handler[g].q)
  BY <1>1 DEF Moves
<1>3. /\ handler'[h] = new /\ \A g \in Handlers : g # h => handler'[g] = handler[g]
  BY DEF OnlyOne
<1>4. \A g \in Handlers : handler'[g] # Idle => Sent(tab', handler'[g].sid[1], handler'[g].q)
  BY <1>2, <1>3 DEF Continues
<1>5. ASSUME NEW g \in Handlers, g # h, handler[g] # Idle, new # Idle
      PROVE  ~(handler[g].sid[1] = new.sid[1] /\ handler[g].q = new.q)
  BY <1>1, <1>5 DEF OwnQuestions, Continues
<1>6. \A f, g \in Handlers :
        /\ handler'[f] # Idle /\ handler'[g] # Idle
        /\ handler'[f].sid[1] = handler'[g].sid[1] /\ handler'[f].q = handler'[g].q
        => f = g
  BY <1>3, <1>5 DEF OwnQuestions
<1> QED  BY <1>4, <1>6 DEF OwnQuestions

LEMMA FreshFits == \A tabs, requests, t, topic : Fits(tabs, requests, t, NewSession(topic))
BY DEF Fits, IsOnce, NewSession

LEMMA IdleStep == Idle.step = "idle" /\ Idle \notin Active
BY ActiveSteps DEF Idle

\* No request moves: the tabs act, a response arrives or the server restarts.
LEMMA QuietTalk ==
  ASSUME ChatInv, ChatInv', TalkInv, [Next]_vars,
         \A g \in Handlers : handler'[g] \in {Idle, handler[g]},
         \A s \in SessionIds :
           \/ sessions'[s] \in {Gone, sessions[s]} \/ \E topic : sessions'[s] = NewSession(topic)
  PROVE  TalkInv'
<1>1. Moves(tab, handler, tab', handler')
  BY NobodyMoves DEF ChatInv
<1>2. SessionsFit'
  BY <1>1, FreshFits, SessionsFitOn DEF ChatInv, TalkInv
<1>3. FromSessions
  BY IdleStep DEF FromSessions
<1>4. CopiesFit'
  BY <1>1, <1>3, CopiesFitOn DEF ChatInv, TalkInv
<1>5. OwnQuestions'
  BY <1>1, OwnNobody DEF ChatInv, TalkInv
<1> QED  BY <1>2, <1>4, <1>5 DEF TalkInv

\* One request goes on.
LEMMA OneTalks ==
  ASSUME ChatInv, ChatInv', TalkInv, [Next]_vars,
         NEW h \in Handlers, handler[h] \in Active, NEW new, OnlyOne(h, new),
         Continues(handler[h], new), new.step # "reply" => new.seen = handler[h].seen,
         new.step \in {"copied", "answering"} => new.copy = sessions[new.sid],
         SessionsFit'
  PROVE  TalkInv'
<1>1. Moves(tab, handler, tab', handler')
  BY OneMoves DEF ChatInv
<1>2. FromSessions
  BY ActiveSteps DEF FromSessions, OnlyOne, Continues, ChatInv, HandlersOK, Replies
<1>3. CopiesFit'
  BY <1>1, <1>2, CopiesFitOn DEF ChatInv, TalkInv
<1>4. OwnQuestions'
  BY <1>1, OwnOne DEF ChatInv, TalkInv
<1> QED  BY <1>3, <1>4 DEF TalkInv

LEMMA SameSessionsFit ==
  ASSUME SessionsOK, SessionsOK', SessionsFit, Moves(tab, handler, tab', handler'), UNCHANGED sessions
  PROVE  SessionsFit'
BY SessionsFitOn

LEMMA DecidesTalk ==
  ASSUME ChatInv, ChatInv', TalkInv, [Next]_vars, NEW h \in Handlers, Decides(h)
  PROVE  TalkInv'
<1>1. /\ handler[h].step \in Deciding /\ UNCHANGED sessions
      /\ \E new : OnlyOne(h, new) /\ Proceeds(handler[h], new)
  BY DecidesStep DEF ChatInv
<1>2. PICK new : OnlyOne(h, new) /\ Proceeds(handler[h], new)
  BY <1>1
<1>3. handler[h] \in Active
  BY <1>1, ActiveSteps DEF ChatInv, HandlersOK, Deciding, Active
<1>4. Continues(handler[h], new)
  BY <1>1, <1>2, <1>3, IdleStep DEF Continues, Proceeds, RolesLeft, Deciding
<1>5. Moves(tab, handler, tab', handler')
  BY <1>2, <1>4, OneMoves DEF ChatInv
<1>6. SessionsFit'
  BY <1>1, <1>5, SameSessionsFit DEF ChatInv, TalkInv
<1> QED  BY <1>2, <1>3, <1>4, <1>6, OneTalks DEF Proceeds, Deciding

\* A request comes into a handler: the one its tab has posted, in the session
\* the tab has, or the one of an opening that was left.
LEMMA QueuedRequest ==
  ASSUME ChatInv, NEW h \in Handlers, NEW t \in Tabs, Post(h, t) \/ LeaveOpening(h, t)
  PROVE  \E new :
           /\ handler[h] = Idle /\ OnlyOne(h, new) /\ new.step = "queued"
           /\ new.sid[1] = t /\ new.q = tab[t].q
           /\ Post(h, t) => new.sid = <<t, tab[t].session>>
           /\ LeaveOpening(h, t) => new.sid = <<t, tab[t].opened + 1>>
<1>1. PICK n : /\ handler' = [handler EXCEPT ![h] = Queued(<<t, n>>, t)]
               /\ Post(h, t) => n = tab[t].session
               /\ LeaveOpening(h, t) => n = tab[t].opened + 1
  <2>1. ~(Post(h, t) /\ LeaveOpening(h, t))
    BY DEF Post, LeaveOpening
  <2> QED  BY <2>1 DEF Post, LeaveOpening
<1>2. handler[h] = Idle
  BY DEF Post, LeaveOpening
<1> DEFINE new == Queued(<<t, n>>, t)
<1>3. new.step = "queued" /\ new.sid = <<t, n>> /\ new.q = tab[t].q
  BY DEF Queued
<1>4. handler' = [handler EXCEPT ![h] = new]
  BY <1>1
<1> HIDE DEF new
<1>5. OnlyOne(h, new)
  BY <1>4, OneChanges DEF ChatInv
<1> QED  BY <1>1, <1>2, <1>3, <1>5

LEMMA QueuedTalk ==
  ASSUME ChatInv, ChatInv', TalkInv, [Next]_vars, NEW h \in Handlers, NEW t \in Tabs,
         Post(h, t) \/ LeaveOpening(h, t)
  PROVE  TalkInv'
<1>1. PICK new : OnlyOne(h, new) /\ new.step = "queued" /\ new.sid[1] = t /\ new.q = tab[t].q
  BY QueuedRequest
<1>2. tab[t] \in Tab /\ tab[t].step \in {"posted", "opening"}
  BY DEF ChatInv, TabsOK, Post, LeaveOpening
<1>3. tab'[t].q = tab[t].q /\ tab'[t].step \in {"waiting", "free"}
  <2>1. CASE Post(h, t)
    BY <1>2, <2>1 DEF Post, ChatInv, TabsOK, Tab
  <2>2. CASE LeaveOpening(h, t)
    <3>1. PICK n : tab' = [tab EXCEPT ![t] = [tab[t] EXCEPT !.session = 0, !.opened = n, !.step = "free"]]
      BY <2>2 DEF LeaveOpening
    <3> QED  BY <1>2, <3>1 DEF ChatInv, TabsOK, Tab
  <2> QED  BY <2>1, <2>2
<1>4. ~Sent(tab, new.sid[1], new.q) /\ Sent(tab', new.sid[1], new.q)
  BY <1>1, <1>2, <1>3, ChatAssumption DEF Sent, Tab
<1>5. Moves(tab, handler, tab', handler')
  BY <1>1, <1>4, OneMoves DEF ChatInv
<1>6. \A s \in SessionIds : sessions'[s] = sessions[s] \/ \E topic : sessions'[s] = NewSession(topic)
  <2>1. CASE Post(h, t)
    BY <2>1 DEF Post
  <2>2. CASE LeaveOpening(h, t)
    <3>1. PICK r, topic : sessions' = [sessions EXCEPT ![r] = NewSession(topic)]
      BY <2>2 DEF LeaveOpening
    <3> QED  BY <3>1 DEF ChatInv, SessionsOK
  <2> QED  BY <2>1, <2>2
<1>7. SessionsFit'
  BY <1>5, <1>6, FreshFits, SessionsFitOn DEF ChatInv, TalkInv
<1>8. handler'[h] \notin Active
  BY <1>1, ActiveSteps DEF OnlyOne, ChatInv, HandlersOK
<1>9. FromSessions
  BY <1>1, <1>8 DEF FromSessions, OnlyOne
<1>10. CopiesFit'
  BY <1>5, <1>9, CopiesFitOn DEF ChatInv, TalkInv
<1>11. OwnQuestions'
  BY <1>1, <1>4, <1>5, OwnOne DEF ChatInv, TalkInv
<1> QED  BY <1>7, <1>10, <1>11 DEF TalkInv

\* The request reads its session, or finds there is none.
Begun(r, new) ==
  /\ new.sid = r.sid /\ new.q = r.q
  /\ new.step \in {"reply", "search", "switch", "reset"}
  /\ new.step # "reply" => new.seen = sessions[r.sid]

LEMMA BeginsRequest ==
  ASSUME ChatInv, NEW h \in Handlers, Begin(h)
  PROVE  /\ handler[h].step = "queued" /\ handler[h] # Idle /\ handler[h] \notin Active
         /\ handler[h].sid \in SessionIds /\ UNCHANGED <<sessions, tab, impatient>>
         /\ \E new : OnlyOne(h, new) /\ Begun(handler[h], new)
<1>1. /\ handler[h] \in Queue /\ handler[h] # Idle /\ handler[h] \notin Active
      /\ handler[h].step = "queued"
  BY ActiveSteps DEF Begin, ChatInv, HandlersOK
<1>2. handler[h].kind \in Kinds /\ handler[h].sid \in SessionIds
  BY <1>1 DEF Queue
<1> DEFINE new == IF sessions[handler[h].sid] = Gone THEN Reply(h, "unknown") ELSE Began(h)
<1>3. handler' = [handler EXCEPT ![h] = new] /\ UNCHANGED <<sessions, tab, impatient>>
  BY DEF Begin, Began
<1>4. Begun(handler[h], Reply(h, "unknown"))
  BY DEF Begun, Reply
<1>5. Begun(handler[h], Began(h))
  BY <1>2 DEF Begun, Began, Kinds
<1>6. Begun(handler[h], new)
  BY <1>4, <1>5
<1> HIDE DEF new
<1>7. OnlyOne(h, new)
  BY <1>3, OneChanges DEF ChatInv
<1> QED  BY <1>1, <1>2, <1>3, <1>6, <1>7

LEMMA BeginTalk ==
  ASSUME ChatInv, ChatInv', TalkInv, [Next]_vars, NEW h \in Handlers, Begin(h)
  PROVE  TalkInv'
<1>1. /\ handler[h].step = "queued" /\ handler[h] # Idle /\ UNCHANGED sessions
      /\ \E new : OnlyOne(h, new) /\ Begun(handler[h], new)
  BY BeginsRequest
<1>2. PICK new : OnlyOne(h, new) /\ Begun(handler[h], new)
  BY <1>1
<1>3. Continues(handler[h], new)
  BY <1>1, <1>2 DEF Continues, Begun, RolesLeft, Deciding
<1>4. Moves(tab, handler, tab', handler')
  BY <1>2, <1>3, OneMoves DEF ChatInv
<1>5. SessionsFit'
  BY <1>1, <1>4, SameSessionsFit DEF ChatInv, TalkInv
<1>6. FromSessions
  BY <1>1, <1>2, ActiveSteps DEF FromSessions, OnlyOne, Begun, ChatInv, HandlersOK, Replies
<1>7. CopiesFit'
  BY <1>4, <1>6, CopiesFitOn DEF ChatInv, TalkInv
<1>8. OwnQuestions'
  BY <1>2, <1>3, <1>4, OwnOne DEF ChatInv, TalkInv
<1> QED  BY <1>5, <1>7, <1>8 DEF TalkInv

LEMMA ClearedTalk ==
  ASSUME ChatInv, ChatInv', TalkInv, [Next]_vars, NEW h \in Handlers, SaveCleared(h)
  PROVE  TalkInv'
<1> DEFINE new == Reply(h, "answer")
<1>1. handler[h] \in Active /\ handler[h].sid \in SessionIds
  BY ActiveSteps, ActiveParts DEF SaveCleared, ChatInv, HandlersOK, Active
<1>2. OnlyOne(h, new)
  BY OneChanges DEF SaveCleared, ChatInv
<1>3. new.step = "reply" /\ Continues(handler[h], new)
  BY <1>1, IdleStep DEF Reply, Continues, RolesLeft, Deciding
<1> HIDE DEF new
<1>4. Moves(tab, handler, tab', handler')
  BY <1>2, <1>3, OneMoves DEF ChatInv
<1>5. PICK topic : sessions' = [sessions EXCEPT ![handler[h].sid] = NewSession(topic)]
  BY DEF SaveCleared
<1>6. SessionsFit'
  BY <1>1, <1>4, <1>5, FreshFits, OneSessionFits DEF ChatInv, TalkInv
<1> QED  BY <1>1, <1>2, <1>3, <1>6, OneTalks

LEMMA MemoryTalk ==
  ASSUME ChatInv, ChatInv', TalkInv, [Next]_vars, NEW h \in Handlers, SaveMemory(h)
  PROVE  TalkInv'
<1> DEFINE old == handler[h]
           new == [step |-> "saved", sid |-> old.sid, q |-> old.q, seen |-> old.seen]
<1>1. /\ old \in Active /\ old.step = "ready" /\ old.sid \in SessionIds /\ old.sid[1] \in Tabs
      /\ old.q \in Questions /\ old.seen \in Session
  BY ActiveSteps, ActiveParts DEF SaveMemory, ChatInv, HandlersOK, Active
<1>2. OnlyOne(h, new)
  BY OneChanges DEF SaveMemory, ChatInv
<1>3. new.step = "saved" /\ new.seen = old.seen /\ Continues(old, new)
  BY <1>1, IdleStep DEF Continues, RolesLeft, Deciding
<1> HIDE DEF new
<1>4. Moves(tab, handler, tab', handler')
  BY <1>2, <1>3, OneMoves DEF ChatInv
<1>5. PICK focus \in Focuses(h) : sessions' = [sessions EXCEPT ![old.sid] =
        [old.seen EXCEPT !.heard = old.seen.heard \cup {old.q}, !.focus = focus]]
  BY DEF SaveMemory
<1> DEFINE y == [old.seen EXCEPT !.heard = old.seen.heard \cup {old.q}, !.focus = focus]
<1>6. y.turns = old.seen.turns /\ y.heard = old.seen.heard \cup {old.q}
  BY <1>1 DEF Session
<1>7. sessions'[old.sid] = y /\ sessions' = [sessions EXCEPT ![old.sid] = y]
  BY <1>1, <1>5 DEF ChatInv, SessionsOK
<1> HIDE DEF y
<1>8. y \in Session
  <2>1. old.sid \in SessionIds /\ sessions'[old.sid] # Gone
    BY <1>1, <1>2, <1>3, ActiveSteps DEF ChatInv, HandlersOK, OnlyOne, Continues, Active
  <2> QED  BY <1>7, <2>1 DEF ChatInv, SessionsOK
<1>9. Fits(tab, handler, old.sid[1], old.seen) /\ Sent(tab', old.sid[1], old.q)
  BY <1>1, <1>4, IdleStep DEF TalkInv, CopiesFit, OwnQuestions, Moves
<1>10. Fits(tab', handler', old.sid[1], y)
  BY <1>1, <1>4, <1>6, <1>8, <1>9, FitsOn
<1>11. SessionsFit'
  BY <1>1, <1>4, <1>7, <1>10, OneSessionFits DEF ChatInv, TalkInv
<1> QED  BY <1>1, <1>2, <1>3, <1>11, OneTalks

LEMMA CopyTalk ==
  ASSUME ChatInv, ChatInv', TalkInv, [Next]_vars, NEW h \in Handlers, CopyFor(h)
  PROVE  TalkInv'
<1> DEFINE old == handler[h]
           new == [step |-> IF old.step = "saved" THEN "copied" ELSE "answering", sid |-> old.sid,
                   q |-> old.q, seen |-> old.seen, copy |-> sessions[old.sid]]
<1>1. old \in Active /\ old.step \in {"saved", "asked"} /\ UNCHANGED sessions
  BY ActiveSteps DEF CopyFor, ChatInv, HandlersOK, Active
<1>2. OnlyOne(h, new)
  BY OneChanges DEF CopyFor, ReadAgain, ChatInv
<1>3. /\ new.step = IF old.step = "saved" THEN "copied" ELSE "answering"
      /\ new.seen = old.seen /\ new.sid = old.sid /\ new.copy = sessions[old.sid]
      /\ new.q = old.q
  OBVIOUS
<1> HIDE DEF new
<1>4. Continues(old, new)
  BY <1>1, <1>3, IdleStep DEF Continues, RolesLeft, Deciding
<1>5. Moves(tab, handler, tab', handler')
  BY <1>2, <1>4, OneMoves DEF ChatInv
<1>6. SessionsFit'
  BY <1>1, <1>5, SameSessionsFit DEF ChatInv, TalkInv
<1> QED  BY <1>1, <1>2, <1>3, <1>4, <1>6, OneTalks

LEMMA AppendTalk ==
  ASSUME ChatInv, ChatInv', TalkInv, [Next]_vars, NEW h \in Handlers, handler[h] \in Copied,
         NEW role \in {"user", "assistant"}, AppendTurn(h, role), NEW new, OnlyOne(h, new),
         new.sid = handler[h].sid, new.q = handler[h].q,
         \/ handler[h].step = "copied" /\ role = "user" /\ new.step = "asked"
            /\ new.seen = handler[h].seen
         \/ handler[h].step = "answering" /\ role = "assistant" /\ new.step = "reply"
  PROVE  TalkInv'
<1> DEFINE old == handler[h]
           turn == [role |-> role, q |-> old.q]
           y == [old.copy EXCEPT !.turns = LastTurns(old.copy.turns \o <<turn>>)]
<1>1. /\ old \in Active /\ old # Idle /\ old.sid \in SessionIds /\ old.sid[1] \in Tabs
      /\ old.q \in Questions /\ old.copy \in Session
  BY ActiveParts, ActiveSteps DEF Active
<1>2. turn \in Turns /\ turn.role = role /\ turn.q = old.q
  BY <1>1 DEF Turns
<1>3. y.turns = LastTurns(old.copy.turns \o <<turn>>) /\ y.heard = old.copy.heard
  BY <1>1 DEF Session
<1>4. sessions' = [sessions EXCEPT ![old.sid] = y]
  BY DEF AppendTurn
<1> HIDE DEF turn, y
<1>5. Continues(old, new)
  BY <1>1 DEF Continues, RolesLeft, Deciding
<1>6. Moves(tab, handler, tab', handler')
  BY <1>5, OneMoves DEF ChatInv
<1>7. turn \in ToSay(handler[h]) /\ turn \notin ToSay(handler'[h])
  BY <1>2, TurnToSay DEF RolesLeft, Deciding, OnlyOne
<1>8. /\ Fits(tab, handler, old.sid[1], old.copy) /\ Sent(tab, old.sid[1], turn.q)
      /\ \A g \in Handlers \ {h} : handler[g] # Idle /\ handler[g].sid[1] = old.sid[1] => handler[g].q # turn.q
  BY <1>1, <1>2 DEF TalkInv, CopiesFit, OwnQuestions
<1>9. Fits(tab', handler', old.sid[1], y)
  BY <1>1, <1>2, <1>3, <1>6, <1>7, <1>8, AppendFits
<1>10. SessionsFit'
  BY <1>1, <1>4, <1>6, <1>9, OneSessionFits DEF ChatInv, TalkInv
<1> QED  BY <1>1, <1>5, <1>10, OneTalks

LEMMA TalkInvInit == Init => TalkInv
BY DEF Init, TalkInv, SessionsFit, CopiesFit, OwnQuestions, Active, Searches, Saved, Copied, Idle

LEMMA TalkInvNext == ChatInv /\ ChatInv' /\ TalkInv /\ [Next]_vars => TalkInv'
<1> SUFFICES ASSUME ChatInv, ChatInv', TalkInv, [Next]_vars PROVE TalkInv'
  OBVIOUS
<1>1. ASSUME UNCHANGED <<sessions, handler>> PROVE TalkInv'
  BY <1>1, QuietTalk
<1>2. ASSUME NEW t \in Tabs, Submit(t) \/ OpenFails(t) \/ TimesOut(t) \/ NewChat(t)
      PROVE  UNCHANGED <<sessions, handler>>
  BY <1>2 DEF Submit, OpenFails, TimesOut, NewChat
<1>3. ASSUME NEW t \in Tabs, OpenSession(t) PROVE TalkInv'
  <2>1. PICK s, topic : sessions' = [sessions EXCEPT ![s] = NewSession(topic)]
    BY <1>3 DEF OpenSession
  <2>2. \A r \in SessionIds : sessions'[r] \in {Gone, sessions[r]} \/ \E new : sessions'[r] = NewSession(new)
    BY <2>1 DEF ChatInv, SessionsOK
  <2>3. UNCHANGED handler
    BY <1>3 DEF OpenSession
  <2> QED  BY <2>2, <2>3, QuietTalk
<1>4. ASSUME NEW h \in Handlers, Receive(h) PROVE TalkInv'
  <2>1. UNCHANGED sessions /\ handler' = [handler EXCEPT ![h] = Idle]
    BY <1>4 DEF Receive
  <2>2. \A g \in Handlers : handler'[g] \in {Idle, handler[g]}
    BY <2>1 DEF ChatInv, HandlersOK
  <2> QED  BY <2>1, <2>2, QuietTalk
<1>5. ASSUME Restart PROVE TalkInv'
  BY <1>5, QuietTalk DEF Restart
<1>6. ASSUME NEW h \in Handlers, AppendUser(h) PROVE TalkInv'
  <2> DEFINE new == [step |-> "asked", sid |-> handler[h].sid, q |-> handler[h].q, seen |-> handler[h].seen]
  <2>1. /\ handler[h].step = "copied" /\ AppendTurn(h, "user")
        /\ handler' = [handler EXCEPT ![h] = new]
    BY <1>6 DEF AppendUser
  <2>2. /\ new.step = "asked" /\ new.sid = handler[h].sid /\ new.q = handler[h].q
        /\ new.seen = handler[h].seen
    OBVIOUS
  <2> HIDE DEF new
  <2>3. OnlyOne(h, new) /\ handler[h] \in Copied
    BY <2>1, OneChanges, ActiveSteps DEF ChatInv, HandlersOK
  <2> QED  BY <2>1, <2>2, <2>3, AppendTalk
<1>7. ASSUME NEW h \in Handlers, AppendAnswer(h) PROVE TalkInv'
  <2>1. PICK outcome : handler' = [handler EXCEPT ![h] = Reply(h, outcome)]
    BY <1>7 DEF AppendAnswer
  <2>2. handler[h].step = "answering" /\ AppendTurn(h, "assistant")
    BY <1>7 DEF AppendAnswer
  <2>3. /\ Reply(h, outcome).step = "reply" /\ Reply(h, outcome).sid = handler[h].sid
        /\ Reply(h, outcome).q = handler[h].q
    BY DEF Reply
  <2>4. OnlyOne(h, Reply(h, outcome)) /\ handler[h] \in Copied
    BY <2>1, <2>2, OneChanges, ActiveSteps DEF ChatInv, HandlersOK
  <2> QED  BY <2>2, <2>3, <2>4, AppendTalk
<1>8. UNCHANGED vars => UNCHANGED <<sessions, handler>>
  BY DEF vars
<1>9. ASSUME NEW h \in Handlers, Work(h) PROVE TalkInv'
  BY <1>4, <1>6, <1>7, <1>9, BeginTalk, ClearedTalk, DecidesTalk, MemoryTalk, CopyTalk DEF Work, Decides
<1> QED  BY <1>1, <1>2, <1>3, <1>5, <1>8, <1>9, QueuedTalk DEF Next

\* However many requests of one session overlap, whatever restarts and whoever
\* stops waiting, its history shows no question and no answer twice, and no
\* question after its answer: each turn is appended once, by the handler of its
\* question, to a copy that holds nothing a handler has yet to say.
THEOREM HistoryIsOnceCorrect == Spec => []HistoryIsOnce
<1>1. Init => ChatInv /\ TalkInv
  BY ChatInvInit, TalkInvInit
<1>2. ChatInv /\ TalkInv /\ [Next]_vars => (ChatInv /\ TalkInv)'
  BY ChatInvNext, TalkInvNext
<1>3. TalkInv => HistoryIsOnce
  BY DEF TalkInv, SessionsFit, Fits, IsOnce, HistoryIsOnce
<1> QED  BY <1>1, <1>2, <1>3, PTL DEF Spec

-----------------------------------------------------------------------------
(* A session whose client waits is a conversation.                         *)

\* A patient tab waits for its only request in its session.
Patience ==
  /\ \A g, h \in Handlers :
       handler[g] # Idle /\ handler[h] # Idle /\ handler[g].sid = handler[h].sid
         /\ handler[g].sid[1] \notin impatient
       => g = h
  /\ \A h \in Handlers, t \in Tabs \ impatient :
       handler[h] # Idle /\ handler[h].sid = <<t, tab[t].session>> =>
         tab[t].step = "waiting" /\ tab[t].q = handler[h].q

\* Sessions that are not opened yet are not there.
Unopened == \A s \in SessionIds : s[2] > tab[s[1]].opened => sessions[s] = Gone

\* The session after the steps request r has taken of its turn.
Remembers(r, focus, turns) ==
  [thread |-> r.seen.thread, turns |-> turns, heard |-> r.seen.heard \cup {r.q}, focus |-> focus]

Asked(r) == LastTurns(r.seen.turns \o <<[role |-> "user", q |-> r.q]>>)

Progress(r, session) ==
  /\ r.step \in Deciding \cup {"ready", "switch", "reset"} => session = r.seen
  /\ r.step \in {"saved", "copied"} =>
       \E focus \in {r.seen.focus, r.q} : session = Remembers(r, focus, r.seen.turns)
  /\ r.step \in {"asked", "answering"} =>
       \E focus \in {r.seen.focus, r.q} : session = Remembers(r, focus, Asked(r))
  /\ r.step \in {"copied", "answering"} => r.copy = session
  /\ r.q \notin r.seen.heard

Progresses ==
  \A h \in Handlers :
    handler[h] \in Active /\ handler[h].sid[1] \notin impatient =>
      Progress(handler[h], sessions[handler[h].sid])

\* A question that is queued is new to its session.
QueuedAreNew ==
  \A h \in Handlers :
    handler[h].step = "queued" /\ handler[h].sid[1] \notin impatient
      /\ sessions[handler[h].sid] # Gone
    => handler[h].q \notin sessions[handler[h].sid].heard

PromiseInv == Unopened /\ Patience /\ Progresses /\ QueuedAreNew

\* A request stays the one it is until it is gone.
SameRequests ==
  \A g \in Handlers : handler'[g] # Idle =>
    handler[g] # Idle /\ handler'[g].sid = handler[g].sid /\ handler'[g].q = handler[g].q

LEMMA WorkStep ==
  ASSUME ChatInv, NEW h \in Handlers, Work(h)
  PROVE  /\ handler[h] # Idle /\ handler[h].sid \in SessionIds /\ UNCHANGED impatient /\ SameRequests
         /\ \A s \in SessionIds : s # handler[h].sid => sessions'[s] = sessions[s]
         /\ \A g \in Handlers : g # h => handler'[g] = handler[g]
<1>1. handler[h].step # "idle" /\ UNCHANGED impatient
  BY DEF Work, Begin, SaveCleared, SearchFails, SearchEvidence, ModelAnswers,
     SearchThread, SearchOutside, SaveMemory, CopyFor, AppendUser, AppendAnswer, Receive
<1>2. handler[h] # Idle
  BY <1>1, IdleStep
<1>3. handler[h].sid \in SessionIds
  BY <1>2, RequestSessions DEF ChatInv, HandlersOK
<1>4. ASSUME NEW new, OnlyOne(h, new), new = Idle \/ (new.sid = handler[h].sid /\ new.q = handler[h].q)
      PROVE  SameRequests /\ \A g \in Handlers : g # h => handler'[g] = handler[g]
  BY <1>2, <1>4 DEF SameRequests, OnlyOne
<1>5. SameRequests /\ \A g \in Handlers : g # h => handler'[g] = handler[g]
  <2>1. CASE Decides(h)
    <3>1. PICK new : OnlyOne(h, new) /\ Proceeds(handler[h], new)
      BY <2>1, DecidesStep DEF ChatInv
    <3> QED  BY <1>4, <3>1 DEF Proceeds
  <2>2. CASE CopyFor(h)
    <3> DEFINE new == [step |-> IF handler[h].step = "saved" THEN "copied" ELSE "answering",
                       sid |-> handler[h].sid, q |-> handler[h].q, seen |-> handler[h].seen,
                       copy |-> ReadAgain(h)]
    <3>1. handler' = [handler EXCEPT ![h] = new] /\ new.sid = handler[h].sid /\ new.q = handler[h].q
      BY <2>2 DEF CopyFor
    <3> HIDE DEF new
    <3> QED  BY <1>4, <3>1, OneChanges DEF ChatInv
  <2>3. CASE Receive(h)
    <3>1. handler' = [handler EXCEPT ![h] = Idle]
      BY <2>3 DEF Receive
    <3> QED  BY <1>4, <3>1, OneChanges DEF ChatInv
  <2>4. CASE SaveCleared(h) \/ AppendAnswer(h)
    <3>1. PICK outcome \in {"answer", "failed"} : handler' = [handler EXCEPT ![h] = Reply(h, outcome)]
      BY <2>4 DEF SaveCleared, AppendAnswer
    <3>2. Reply(h, outcome).sid = handler[h].sid /\ Reply(h, outcome).q = handler[h].q
      BY DEF Reply
    <3> QED  BY <1>4, <3>1, <3>2, OneChanges DEF ChatInv
  <2>5. CASE SaveMemory(h) \/ AppendUser(h)
    <3> DEFINE new(step) == [step |-> step, sid |-> handler[h].sid, q |-> handler[h].q,
                             seen |-> handler[h].seen]
    <3>1. PICK step \in {"saved", "asked"} : handler' = [handler EXCEPT ![h] = new(step)]
      BY <2>5 DEF SaveMemory, AppendUser
    <3>2. new(step).sid = handler[h].sid /\ new(step).q = handler[h].q
      OBVIOUS
    <3> HIDE DEF new
    <3> QED  BY <1>4, <3>1, <3>2, OneChanges DEF ChatInv
  <2>6. CASE Begin(h)
    <3>1. PICK new : OnlyOne(h, new) /\ Begun(handler[h], new)
      BY <2>6, BeginsRequest
    <3> QED  BY <1>4, <3>1 DEF Begun
  <2> QED  BY <2>1, <2>2, <2>3, <2>4, <2>5, <2>6 DEF Work, Decides
<1>6. UNCHANGED sessions \/ \E y : sessions' = [sessions EXCEPT ![handler[h].sid] = y]
  BY DecidesStep, BeginsRequest DEF ChatInv, Work, Decides, SaveCleared, SaveMemory, CopyFor, AppendUser, AppendAnswer, AppendTurn, Receive
<1>7. \A s \in SessionIds : s # handler[h].sid => sessions'[s] = sessions[s]
  BY <1>6 DEF ChatInv, SessionsOK
<1> QED  BY <1>1, <1>2, <1>3, <1>5, <1>7

LEMMA ImpatientStays == [Next]_vars => UNCHANGED impatient
BY DEF Next, vars, Work, Submit, OpenSession, OpenFails, TimesOut, NewChat, Post, LeaveOpening, Restart,
   Receive, Begin, SaveCleared, SearchFails, SearchEvidence, ModelAnswers, SearchThread, SearchOutside,
   SaveMemory, CopyFor, AppendUser, AppendAnswer

LEMMA UnopenedStep ==
  ASSUME ChatInv, ChatInv', Unopened, [Next]_vars
  PROVE  Unopened'
<1> SUFFICES ASSUME NEW s \in SessionIds, s[2] > tab'[s[1]].opened PROVE sessions'[s] = Gone
  BY DEF Unopened
<1>0. /\ s[1] \in Tabs /\ s[2] \in Nat
      /\ tab[s[1]].opened \in Nat /\ tab'[s[1]].opened \in Nat
      /\ tab'[s[1]].opened >= tab[s[1]].opened
  BY TabsStep, ChatAssumption DEF ChatInv, TabsOK, Tab, Grown, SessionIds
<1>1. sessions[s] = Gone
  BY <1>0 DEF Unopened
<1>2. CASE UNCHANGED sessions
  BY <1>1, <1>2
<1>3. ASSUME NEW t \in Tabs, OpenSession(t) \/ \E h \in Handlers : LeaveOpening(h, t)
      PROVE  sessions'[s] = Gone
  <2> DEFINE n == tab[t].opened + 1
  <2>1. PICK topic \in Threads : sessions' = [sessions EXCEPT ![<<t, n>>] = NewSession(topic)]
    BY <1>3 DEF OpenSession, LeaveOpening
  <2>2. tab[t] \in Tab /\ \E session, step :
          tab' = [tab EXCEPT ![t] = [tab[t] EXCEPT !.session = session, !.opened = n, !.step = step]]
    BY <1>3 DEF OpenSession, LeaveOpening, ChatInv, TabsOK
  <2> HIDE DEF n
  <2>3. tab'[t].opened = n
    BY <2>2 DEF ChatInv, TabsOK, Tab
  <2>4. n \in Nat
    BY <2>2, ChatAssumption DEF n, Tab
  <2>5. s # <<t, n>>
    BY <1>0, <2>3, <2>4
  <2> QED  BY <1>1, <2>1, <2>5 DEF ChatInv, SessionsOK
<1>4. ASSUME NEW h \in Handlers, Work(h) PROVE sessions'[s] = Gone
  <2>1. handler[h] # Idle /\ (s # handler[h].sid => sessions'[s] = sessions[s])
    BY <1>4, WorkStep
  <2>2. s # handler[h].sid
    BY <1>0, <2>1, ChatAssumption DEF ChatInv, HandlersOK, IsKnown
  <2> QED  BY <1>1, <2>1, <2>2
<1>5. ASSUME Restart PROVE sessions'[s] = Gone
  BY <1>5 DEF Restart
<1>6. ASSUME NEW t \in Tabs, Submit(t) \/ OpenFails(t) \/ TimesOut(t) \/ NewChat(t)
      PROVE  UNCHANGED sessions
  BY <1>6 DEF Submit, OpenFails, TimesOut, NewChat
<1>7. ASSUME NEW h \in Handlers, NEW t \in Tabs, Post(h, t) PROVE UNCHANGED sessions
  BY <1>7 DEF Post
<1>8. UNCHANGED vars => UNCHANGED sessions
  BY DEF vars
<1> QED  BY <1>2, <1>3, <1>4, <1>5, <1>6, <1>7, <1>8 DEF Next

\* Where no request comes in, a tab waits for its request in its session, or
\* no handler has a request of that session any more.
LEMMA TabKeepsPatience ==
  ASSUME ChatInv, ChatInv', Patience, [Next]_vars, SameRequests,
         NEW t \in Tabs \ impatient, NEW h \in Handlers,
         handler'[h] # Idle, handler'[h].sid = <<t, tab'[t].session>>
  PROVE  tab'[t].step = "waiting" /\ tab'[t].q = handler'[h].q
<1>0. handler[h] # Idle /\ handler'[h].sid = handler[h].sid /\ handler'[h].q = handler[h].q
  BY DEF SameRequests
<1>1. /\ tab[t] \in Tab /\ tab \in [Tabs -> Tab]
      /\ handler[h].sid[1] = t /\ handler[h].sid[2] = tab'[t].session
      /\ tab'[t].session \in 1 .. tab[t].opened /\ tab[t].opened \in Nat
  BY <1>0, ChatAssumption DEF ChatInv, TabsOK, Tab, HandlersOK, IsKnown
<1>2. tab'[t].session = tab[t].session => tab[t].step = "waiting" /\ tab[t].q = handler[h].q
  BY <1>0 DEF Patience
<1>3. CASE tab'[t] = tab[t]
  BY <1>0, <1>2, <1>3
<1>4. ASSUME NEW u \in Tabs, Submit(u) \/ OpenFails(u) PROVE tab'[t] = tab[t]
  <2>1. CASE u # t
    BY <1>1, <1>4, <2>1 DEF Submit, OpenFails
  <2>2. CASE u = t
    <3>1. tab[t].step # "waiting"
      BY <1>4, <2>2 DEF Submit, OpenFails
    <3>2. tab'[t].session = tab[t].session
      <4>1. CASE OpenFails(t)
        BY <1>1, <4>1 DEF OpenFails, Tab
      <4>2. CASE Submit(t)
        <5>1. PICK kind \in Kinds, outside \in BOOLEAN :
                tab' = [tab EXCEPT ![t] = [tab[t] EXCEPT
                  !.q = tab[t].q + 1, !.kind = kind, !.outside = outside,
                  !.step = IF tab[t].session = 0 THEN "opening" ELSE "posted"]]
          BY <4>2 DEF Submit, Kinds
        <5>2. tab'[t] = [tab[t] EXCEPT
                  !.q = tab[t].q + 1, !.kind = kind, !.outside = outside,
                  !.step = IF tab[t].session = 0 THEN "opening" ELSE "posted"]
          BY <1>1, <5>1
        <5> QED  BY <1>1, <5>2 DEF Tab
      <4> QED  BY <1>4, <2>2, <4>1, <4>2
    <3> QED  BY <1>2, <3>1, <3>2
  <2> QED  BY <2>1, <2>2
<1>5. ASSUME NEW u \in Tabs, OpenSession(u) PROVE tab'[t] = tab[t]
  <2> DEFINE n == tab[u].opened + 1
  <2>1. tab' = [tab EXCEPT ![u] = [tab[u] EXCEPT !.session = n, !.opened = n, !.step = "posted"]]
    BY <1>5 DEF OpenSession
  <2> HIDE DEF n
  <2>2. u = t => tab'[t].session = n
    BY <1>1, <2>1 DEF Tab
  <2>3. u # t
    BY <1>1, <2>2 DEF n
  <2> QED  BY <1>1, <2>1, <2>3
<1>6. ASSUME NEW u \in Tabs, TimesOut(u) \/ NewChat(u) PROVE tab'[t] = tab[t]
  <2>1. CASE TimesOut(u)
    BY <1>1, <2>1 DEF TimesOut
  <2>2. CASE NewChat(u)
    <3>1. tab' = [tab EXCEPT ![u] = [tab[u] EXCEPT !.session = 0, !.step = "free"]]
      BY <2>2 DEF NewChat
    <3>2. u = t => tab'[t].session = 0
      BY <1>1, <3>1 DEF Tab
    <3> QED  BY <1>1, <3>1, <3>2
  <2> QED  BY <1>6, <2>1, <2>2
<1>7. ASSUME NEW g \in Handlers, Receive(g) PROVE tab'[t] = tab[t]
  <2>1. /\ tab'[t] = IF t \notin AwaitedBy(g) THEN tab[t] ELSE [tab[t] EXCEPT !.step = "free"]
        /\ handler'[g] = Idle /\ handler[g] # Idle
    BY <1>7, IdleStep DEF Receive, TriesAgain, Status, ChatInv, HandlersOK
  <2>2. ASSUME t \in AwaitedBy(g) PROVE FALSE
    <3>1. tab'[t].session = tab[t].session
      BY <1>1, <2>1, <2>2 DEF Tab
    <3>2. handler[g].sid = handler[h].sid
      BY <1>0, <2>2, <3>1 DEF AwaitedBy
    <3>3. g = h
      BY <1>0, <1>1, <2>1, <3>2 DEF Patience
    <3> QED  BY <2>1, <3>3
  <2> QED  BY <2>1, <2>2
<1>8. ASSUME NEW g \in Handlers, Work(g), ~Receive(g) PROVE UNCHANGED tab
  BY <1>8 DEF Work, Begin, SaveCleared, SearchFails, SearchEvidence, ModelAnswers,
     SearchThread, SearchOutside, SaveMemory, CopyFor, AppendUser, AppendAnswer
<1>9. ~Restart
  BY DEF Restart
<1>10. ASSUME NEW g \in Handlers, NEW u \in Tabs, Post(g, u) \/ LeaveOpening(g, u) PROVE FALSE
  <2>1. PICK new : handler[g] = Idle /\ OnlyOne(g, new) /\ new.step = "queued"
    BY <1>10, QueuedRequest
  <2> QED  BY <2>1, IdleStep DEF OnlyOne, SameRequests
<1>11. UNCHANGED vars => UNCHANGED tab
  BY DEF vars
<1> QED  BY <1>3, <1>4, <1>5, <1>6, <1>7, <1>8, <1>9, <1>10, <1>11 DEF Next

LEMMA PatienceStep ==
  ASSUME ChatInv, ChatInv', Patience, [Next]_vars
  PROVE  Patience'
<1>0. UNCHANGED impatient
  BY ImpatientStays
<1>1. CASE SameRequests
  <2>1. \A g, h \in Handlers :
          handler'[g] # Idle /\ handler'[h] # Idle /\ handler'[g].sid = handler'[h].sid
            /\ handler'[g].sid[1] \notin impatient'
          => g = h
    BY <1>0, <1>1 DEF SameRequests, Patience
  <2>2. \A h \in Handlers, t \in Tabs \ impatient' :
          handler'[h] # Idle /\ handler'[h].sid = <<t, tab'[t].session>> =>
            tab'[t].step = "waiting" /\ tab'[t].q = handler'[h].q
    BY <1>0, <1>1, TabKeepsPatience
  <2> QED  BY <2>1, <2>2 DEF Patience
<1>2. ASSUME NEW h \in Handlers, NEW t \in Tabs, Post(h, t) PROVE Patience'
  <2> DEFINE sid == <<t, tab[t].session>>
  <2>1. PICK new : handler[h] = Idle /\ OnlyOne(h, new) /\ new.sid = sid /\ new.q = tab[t].q
    BY <1>2, QueuedRequest
  <2>2. handler'[h] = new /\ \A g \in Handlers : g # h => handler'[g] = handler[g]
    BY <2>1 DEF OnlyOne
  <2>3. tab[t].step = "posted" /\ tab[t] \in Tab /\ tab' = [tab EXCEPT ![t].step = "waiting"]
    BY <1>2 DEF Post, ChatInv, TabsOK
  <2>4. tab'[t].session = tab[t].session /\ tab'[t].q = tab[t].q /\ tab'[t].step = "waiting"
    BY <2>3 DEF ChatInv, TabsOK, Tab
  <2>5. \A u \in Tabs : u # t => tab'[u] = tab[u]
    BY <2>3 DEF ChatInv, TabsOK
  <2>6. t \notin impatient => \A g \in Handlers : handler[g] # Idle => handler[g].sid # sid
    BY <2>3 DEF Patience
  <2>7. \A f, g \in Handlers :
          handler'[f] # Idle /\ handler'[g] # Idle /\ handler'[f].sid = handler'[g].sid
            /\ handler'[f].sid[1] \notin impatient
          => f = g
    BY <2>1, <2>2, <2>6 DEF Patience
  <2>8. ASSUME NEW g \in Handlers, NEW u \in Tabs \ impatient, handler'[g] # Idle,
               handler'[g].sid = <<u, tab'[u].session>>
        PROVE  tab'[u].step = "waiting" /\ tab'[u].q = handler'[g].q
    <3>1. CASE g = h
      BY <2>1, <2>2, <2>4, <2>8, <3>1
    <3>2. CASE g # h /\ u # t
      BY <2>2, <2>5, <2>8, <3>2 DEF Patience
    <3>3. CASE g # h /\ u = t
      BY <2>2, <2>4, <2>6, <2>8, <3>3
    <3> QED  BY <3>1, <3>2, <3>3
  <2> QED  BY <1>0, <2>7, <2>8 DEF Patience
<1>7. ASSUME NEW h \in Handlers, NEW t \in Tabs, LeaveOpening(h, t) PROVE Patience'
  <2> DEFINE n == tab[t].opened + 1
             sid == <<t, n>>
  <2>1. PICK new : handler[h] = Idle /\ OnlyOne(h, new) /\ new.sid = sid
    BY <1>7, QueuedRequest
  <2>2. handler'[h] = new /\ \A g \in Handlers : g # h => handler'[g] = handler[g]
    BY <2>1 DEF OnlyOne
  <2>3. tab[t] \in Tab /\ tab' = [tab EXCEPT ![t] = [tab[t] EXCEPT !.session = 0, !.opened = n, !.step = "free"]]
    BY <1>7 DEF LeaveOpening, ChatInv, TabsOK
  <2>4. n \in Nat /\ n # 0 /\ ~(n <= tab[t].opened)
    BY <2>3, ChatAssumption DEF Tab
  <2>5. \A g \in Handlers : handler[g] # Idle => handler[g].sid # sid /\ (handler[g].sid[1] = t => handler[g].sid[2] # 0)
    BY <2>4 DEF ChatInv, HandlersOK, IsKnown
  <2> HIDE DEF n
  <2>6. tab'[t].session = 0 /\ \A u \in Tabs : u # t => tab'[u] = tab[u]
    BY <2>3 DEF ChatInv, TabsOK, Tab
  <2>7. \A f, g \in Handlers :
          handler'[f] # Idle /\ handler'[g] # Idle /\ handler'[f].sid = handler'[g].sid
            /\ handler'[f].sid[1] \notin impatient
          => f = g
    BY <2>1, <2>2, <2>5 DEF Patience
  <2>8. ASSUME NEW g \in Handlers, NEW u \in Tabs \ impatient, handler'[g] # Idle,
               handler'[g].sid = <<u, tab'[u].session>>
        PROVE  tab'[u].step = "waiting" /\ tab'[u].q = handler'[g].q
    <3>1. CASE g = h
      BY <2>1, <2>2, <2>4, <2>6, <2>8, <3>1
    <3>2. CASE g # h /\ u # t
      BY <2>2, <2>6, <2>8, <3>2 DEF Patience
    <3>3. CASE g # h /\ u = t
      BY <2>2, <2>5, <2>6, <2>8, <3>3
    <3> QED  BY <3>1, <3>2, <3>3
  <2> QED  BY <1>0, <2>7, <2>8 DEF Patience
<1>3. ASSUME UNCHANGED handler \/ Restart PROVE SameRequests
  BY <1>3 DEF SameRequests, Restart
<1>4. ASSUME NEW h \in Handlers, Work(h) PROVE SameRequests
  BY <1>4, WorkStep
<1>5. ASSUME NEW t \in Tabs, Submit(t) \/ OpenSession(t) \/ OpenFails(t) \/ TimesOut(t) \/ NewChat(t)
      PROVE  UNCHANGED handler
  BY <1>5 DEF Submit, OpenSession, OpenFails, TimesOut, NewChat
<1>6. UNCHANGED vars => UNCHANGED handler
  BY DEF vars
<1> QED  BY <1>1, <1>2, <1>3, <1>4, <1>5, <1>6, <1>7 DEF Next

LEMMA Remembering ==
  ASSUME NEW session \in Session, NEW heard, NEW focus
  PROVE  [session EXCEPT !.heard = heard, !.focus = focus] =
           [thread |-> session.thread, turns |-> session.turns, heard |-> heard, focus |-> focus]
<1> DEFINE one == [session EXCEPT !.heard = heard]
<1>1. one = [thread |-> session.thread, turns |-> session.turns, heard |-> heard, focus |-> session.focus]
  BY DEF Session
<1>2. [one EXCEPT !.focus = focus] =
        [thread |-> session.thread, turns |-> session.turns, heard |-> heard, focus |-> focus]
  <2> HIDE DEF one
  <2> QED  BY <1>1
<1>3. [session EXCEPT !.heard = heard, !.focus = focus] = [one EXCEPT !.focus = focus]
  OBVIOUS
<1> QED  BY <1>2, <1>3

LEMMA MemoryIsSaved ==
  ASSUME ChatInv, NEW h \in Handlers, SaveMemory(h)
  PROVE  \E focus \in {handler[h].seen.focus, handler[h].q} :
           sessions'[handler[h].sid] = Remembers(handler[h], focus, handler[h].seen.turns)
<1> DEFINE r == handler[h]
<1>1. r \in Saved /\ r.sid \in SessionIds /\ r.seen \in Session
  BY ActiveSteps DEF SaveMemory, ChatInv, HandlersOK, Saved
<1>2. PICK focus \in Focuses(h) : sessions' = [sessions EXCEPT ![r.sid] =
        [r.seen EXCEPT !.heard = r.seen.heard \cup {r.q}, !.focus = focus]]
  BY DEF SaveMemory
<1>3. focus \in {r.seen.focus, r.q}
  BY DEF Focuses
<1>4. [r.seen EXCEPT !.heard = r.seen.heard \cup {r.q}, !.focus = focus]
        = Remembers(r, focus, r.seen.turns)
  <2> DEFINE heard == r.seen.heard \cup {r.q}
  <2> HIDE DEF heard
  <2>1. [r.seen EXCEPT !.heard = heard, !.focus = focus] =
          [thread |-> r.seen.thread, turns |-> r.seen.turns, heard |-> heard, focus |-> focus]
    BY <1>1, Remembering
  <2> QED  BY <2>1 DEF Remembers, heard
<1>5. sessions'[r.sid] = [r.seen EXCEPT !.heard = r.seen.heard \cup {r.q}, !.focus = focus]
  BY <1>1, <1>2 DEF ChatInv, SessionsOK
<1> QED  BY <1>3, <1>4, <1>5

LEMMA TurnIsAppended ==
  ASSUME ChatInv, NEW h \in Handlers, handler[h] \in Copied, NEW role, AppendTurn(h, role)
  PROVE  LET copy == handler[h].copy
         IN  sessions'[handler[h].sid] =
               [thread |-> copy.thread, heard |-> copy.heard, focus |-> copy.focus,
                turns |-> LastTurns(copy.turns \o <<[role |-> role, q |-> handler[h].q]>>)]
<1> DEFINE copy == handler[h].copy
           turns == LastTurns(copy.turns \o <<[role |-> role, q |-> handler[h].q]>>)
<1>1. handler[h].sid \in SessionIds /\ copy \in Session
  BY DEF Copied
<1>2. sessions' = [sessions EXCEPT ![handler[h].sid] = [copy EXCEPT !.turns = turns]]
  BY DEF AppendTurn
<1> HIDE DEF turns
<1>3. sessions'[handler[h].sid] = [copy EXCEPT !.turns = turns]
  BY <1>1, <1>2 DEF ChatInv, SessionsOK
<1>4. [copy EXCEPT !.turns = turns] =
        [thread |-> copy.thread, heard |-> copy.heard, focus |-> copy.focus, turns |-> turns]
  BY <1>1 DEF Session
<1> QED  BY <1>3, <1>4 DEF turns

LEMMA ProgressOfRequest ==
  ASSUME ChatInv, ChatInv', Progresses, QueuedAreNew, NEW h \in Handlers, Work(h),
         handler'[h] \in Active, handler[h].sid[1] \notin impatient
  PROVE  Progress(handler'[h], sessions'[handler'[h].sid])
<1> DEFINE r == handler[h]
           session == sessions[r.sid]
<1>0. r \in Requests /\ r # Idle
  BY WorkStep DEF ChatInv, HandlersOK
<1>1. ASSUME r \in Active PROVE Progress(r, session)
  BY <1>1 DEF Progresses
<1>2. CASE Decides(h)
  <2>1. PICK new : OnlyOne(h, new) /\ Proceeds(r, new)
    BY <1>2, DecidesStep DEF ChatInv
  <2>2. r.step \in Deciding /\ UNCHANGED sessions
    BY <1>2, DecidesStep DEF ChatInv
  <2>3. r \in Active
    BY <1>0, <2>2, ActiveSteps DEF Deciding, Active
  <2>4. /\ handler'[h] = new /\ new.sid = r.sid /\ new.q = r.q
        /\ new.step \in Deciding \cup {"ready"} /\ new.seen = r.seen
    BY <2>1, ActiveSteps DEF OnlyOne, Proceeds, Requests, Replies
  <2> QED  BY <1>1, <2>2, <2>3, <2>4 DEF Progress, Deciding
<1>3. CASE SaveMemory(h)
  <2> DEFINE new == [step |-> "saved", sid |-> r.sid, q |-> r.q, seen |-> r.seen]
  <2>1. r.step = "ready" /\ handler' = [handler EXCEPT ![h] = new]
    BY <1>3 DEF SaveMemory
  <2>2. r \in Active
    BY <1>0, <2>1, ActiveSteps DEF Active
  <2>3. PICK focus \in {r.seen.focus, r.q} : sessions'[r.sid] = Remembers(r, focus, r.seen.turns)
    BY <1>3, MemoryIsSaved
  <2>4. new.step = "saved" /\ new.sid = r.sid /\ new.q = r.q /\ new.seen = r.seen
    OBVIOUS
  <2> HIDE DEF new
  <2>5. handler'[h] = new
    BY <2>1 DEF ChatInv, HandlersOK
  <2>6. r.q \notin r.seen.heard
    BY <1>1, <2>2 DEF Progress
  <2> QED  BY <2>3, <2>4, <2>5, <2>6 DEF Progress, Remembers, Deciding
<1>4. CASE CopyFor(h)
  <2> DEFINE new == [step |-> IF r.step = "saved" THEN "copied" ELSE "answering", sid |-> r.sid,
                     q |-> r.q, seen |-> r.seen, copy |-> session]
  <2>1. /\ r.step \in {"saved", "asked"} /\ handler' = [handler EXCEPT ![h] = new]
        /\ UNCHANGED sessions
    BY <1>4 DEF CopyFor, ReadAgain
  <2>2. r \in Active
    BY <1>0, <2>1, ActiveSteps DEF Active
  <2>3. /\ new.step = IF r.step = "saved" THEN "copied" ELSE "answering"
        /\ new.sid = r.sid /\ new.q = r.q /\ new.seen = r.seen /\ new.copy = session
    OBVIOUS
  <2> HIDE DEF new
  <2>4. handler'[h] = new
    BY <2>1 DEF ChatInv, HandlersOK
  <2>5. Progress(r, session)
    BY <1>1, <2>2
  <2> QED  BY <2>1, <2>3, <2>4, <2>5 DEF Progress, Remembers, Asked, Deciding
<1>5. CASE AppendUser(h)
  <2> DEFINE new == [step |-> "asked", sid |-> r.sid, q |-> r.q, seen |-> r.seen]
  <2>1. /\ r.step = "copied" /\ handler' = [handler EXCEPT ![h] = new]
        /\ AppendTurn(h, "user")
    BY <1>5 DEF AppendUser
  <2>2. r \in Copied /\ r \in Active
    BY <1>0, <2>1, ActiveSteps DEF Active
  <2>3. new.step = "asked" /\ new.sid = r.sid /\ new.q = r.q /\ new.seen = r.seen
    OBVIOUS
  <2> HIDE DEF new
  <2>4. handler'[h] = new
    BY <2>1 DEF ChatInv, HandlersOK
  <2>5. PICK focus \in {r.seen.focus, r.q} : r.copy = Remembers(r, focus, r.seen.turns)
    BY <1>1, <2>1, <2>2 DEF Progress
  <2>6. sessions'[r.sid] = Remembers(r, focus, Asked(r))
    BY <2>1, <2>2, <2>5, TurnIsAppended DEF Remembers, Asked
  <2>7. r.q \notin r.seen.heard
    BY <1>1, <2>2 DEF Progress
  <2> QED  BY <2>3, <2>4, <2>6, <2>7 DEF Progress, Remembers, Asked, Deciding
<1>6. ASSUME SaveCleared(h) \/ AppendAnswer(h) \/ Receive(h) PROVE FALSE
  <2>1. \A outcome : Reply(h, outcome).step = "reply"
    BY DEF Reply
  <2>2. \/ handler'[h] = Idle
        \/ \E outcome \in {"answer", "failed"} : handler'[h] = Reply(h, outcome)
    BY <1>6 DEF SaveCleared, AppendAnswer, Receive, ChatInv, HandlersOK
  <2>3. handler'[h].step \in {"idle", "reply"}
    BY <2>1, <2>2, IdleStep
  <2> QED  BY <2>3, IdleStep, ActiveSteps DEF Requests, Replies
<1>7. CASE Begin(h)
  <2>1. /\ r.step = "queued" /\ UNCHANGED sessions /\ r.sid \in SessionIds
        /\ \E new : OnlyOne(h, new) /\ Begun(r, new)
    BY <1>7, BeginsRequest
  <2>2. PICK new : OnlyOne(h, new) /\ Begun(r, new)
    BY <2>1
  <2>3. /\ handler'[h] = new /\ new.sid = r.sid /\ new.q = r.q
        /\ new.step \in {"search", "switch", "reset"} /\ new.seen = session
    BY <2>2, ActiveSteps DEF OnlyOne, Begun, ChatInv, HandlersOK, Requests, Replies
  <2>4. session \in Session /\ session # Gone
    BY <2>3, ActiveParts, GoneIsNoSession
  <2>5. r.q \notin session.heard
    BY <2>1, <2>4 DEF QueuedAreNew
  <2> QED  BY <2>1, <2>3, <2>5 DEF Progress, Deciding
<1> QED  BY <1>2, <1>3, <1>4, <1>5, <1>6, <1>7 DEF Work, Decides

\* A session that is opened is nobody's yet.
LEMMA OpenedIsNew ==
  ASSUME ChatInv, NEW t \in Tabs, OpenSession(t) \/ \E g \in Handlers : LeaveOpening(g, t),
         NEW h \in Handlers, handler[h] # Idle
  PROVE  handler[h].sid # <<t, tab[t].opened + 1>> /\ sessions'[handler[h].sid] = sessions[handler[h].sid]
<1> DEFINE n == tab[t].opened + 1
<1>1. \E topic \in Threads : sessions' = [sessions EXCEPT ![<<t, n>>] = NewSession(topic)]
  BY DEF OpenSession, LeaveOpening
<1>2. handler[h].sid # <<t, n>>
  BY ChatAssumption DEF ChatInv, HandlersOK, IsKnown, TabsOK, Tab
<1> HIDE DEF n
<1>3. handler[h].sid \in SessionIds
  BY RequestSessions DEF ChatInv, HandlersOK
<1>4. sessions'[handler[h].sid] = sessions[handler[h].sid]
  BY <1>1, <1>2, <1>3 DEF ChatInv, SessionsOK
<1> QED  BY <1>2, <1>4 DEF n

\* What another request does to the session of a patient client: nothing.
LEMMA OthersKeepOut ==
  ASSUME ChatInv, Patience, NEW g \in Handlers, Work(g), NEW h \in Handlers, g # h,
         handler[h] # Idle, handler[h].sid[1] \notin impatient
  PROVE  handler'[h] = handler[h] /\ sessions'[handler[h].sid] = sessions[handler[h].sid]
<1>1. /\ handler[g] # Idle /\ handler'[h] = handler[h]
      /\ \A s \in SessionIds : s # handler[g].sid => sessions'[s] = sessions[s]
  BY WorkStep
<1>2. handler[g].sid # handler[h].sid /\ handler[h].sid \in SessionIds
  BY <1>1, RequestSessions DEF Patience, ChatInv, HandlersOK
<1> QED  BY <1>1, <1>2

\* A handler queues nothing.
LEMMA NeverQueued ==
  ASSUME ChatInv, NEW h \in Handlers, Work(h)
  PROVE  handler'[h].step # "queued"
<1>1. CASE Decides(h)
  BY <1>1, DecidesStep DEF ChatInv, OnlyOne, Proceeds, Deciding
<1>2. CASE Begin(h)
  BY <1>2, BeginsRequest DEF OnlyOne, Begun
<1>3. ASSUME NEW new, handler' = [handler EXCEPT ![h] = new], new.step # "queued"
      PROVE  handler'[h].step # "queued"
  BY <1>3 DEF ChatInv, HandlersOK
<1>4. CASE SaveMemory(h) \/ AppendUser(h)
  <2> DEFINE new(step) ==
        [step |-> step, sid |-> handler[h].sid, q |-> handler[h].q, seen |-> handler[h].seen]
  <2>1. PICK step \in {"saved", "asked"} : handler' = [handler EXCEPT ![h] = new(step)]
    BY <1>4 DEF SaveMemory, AppendUser
  <2>2. new(step).step # "queued"
    BY <2>1
  <2> HIDE DEF new
  <2> QED  BY <1>3, <2>1, <2>2
<1>5. CASE CopyFor(h)
  <2> DEFINE new(step) ==
        [step |-> step, sid |-> handler[h].sid, q |-> handler[h].q, seen |-> handler[h].seen,
         copy |-> ReadAgain(h)]
  <2>1. PICK step \in {"copied", "answering"} : handler' = [handler EXCEPT ![h] = new(step)]
    BY <1>5 DEF CopyFor
  <2>2. new(step).step # "queued"
    BY <2>1
  <2> HIDE DEF new
  <2> QED  BY <1>3, <2>1, <2>2
<1>6. CASE SaveCleared(h) \/ AppendAnswer(h)
  <2>1. PICK outcome \in {"answer", "failed"} : handler' = [handler EXCEPT ![h] = Reply(h, outcome)]
    BY <1>6 DEF SaveCleared, AppendAnswer
  <2>2. Reply(h, outcome).step = "reply"
    BY DEF Reply
  <2> QED  BY <1>3, <2>1, <2>2
<1>7. CASE Receive(h)
  BY <1>3, <1>7, IdleStep DEF Receive
<1> QED  BY <1>1, <1>2, <1>4, <1>5, <1>6, <1>7 DEF Work, Decides

LEMMA ProgressesStep ==
  ASSUME ChatInv, ChatInv', Patience, Progresses, QueuedAreNew, [Next]_vars
  PROVE  Progresses'
<1>0. UNCHANGED impatient
  BY ImpatientStays
<1> SUFFICES ASSUME NEW h \in Handlers, handler'[h] \in Active, handler'[h].sid[1] \notin impatient
             PROVE  Progress(handler'[h], sessions'[handler'[h].sid])
  BY <1>0 DEF Progresses
<1>1. handler'[h] # Idle /\ handler'[h].step # "queued"
  BY IdleStep, ActiveSteps DEF ChatInv, HandlersOK
<1>2. CASE handler'[h] = handler[h] /\ sessions'[handler[h].sid] = sessions[handler[h].sid]
  BY <1>2 DEF Progresses
<1>3. ASSUME NEW t \in Tabs, OpenSession(t)
      PROVE  handler'[h] = handler[h] /\ sessions'[handler[h].sid] = sessions[handler[h].sid]
  <2>1. handler'[h] = handler[h]
    BY <1>3 DEF OpenSession
  <2> QED  BY <1>1, <1>3, <2>1, OpenedIsNew
<1>4. ASSUME NEW g \in Handlers, Work(g) PROVE Progress(handler'[h], sessions'[handler'[h].sid])
  <2>1. handler[h] # Idle /\ handler'[h].sid = handler[h].sid
    BY <1>1, <1>4, WorkStep DEF SameRequests
  <2>2. CASE g = h
    BY <1>4, <2>1, <2>2, ProgressOfRequest
  <2>3. CASE g # h
    BY <1>2, <1>4, <2>1, <2>3, OthersKeepOut
  <2> QED  BY <2>2, <2>3
<1>5. ASSUME NEW g \in Handlers, NEW t \in Tabs, Post(g, t) \/ LeaveOpening(g, t)
      PROVE  handler'[h] = handler[h] /\ sessions'[handler[h].sid] = sessions[handler[h].sid]
  <2>1. PICK new : OnlyOne(g, new) /\ new.step = "queued"
    BY <1>5, QueuedRequest
  <2>2. handler'[h] = handler[h]
    BY <1>1, <2>1 DEF OnlyOne
  <2>3. CASE Post(g, t)
    BY <2>2, <2>3 DEF Post
  <2>4. CASE LeaveOpening(g, t)
    BY <1>1, <2>2, <2>4, OpenedIsNew
  <2> QED  BY <1>5, <2>3, <2>4
<1>6. ASSUME NEW t \in Tabs, Submit(t) \/ OpenFails(t) \/ TimesOut(t) \/ NewChat(t)
      PROVE  UNCHANGED <<sessions, handler>>
  BY <1>6 DEF Submit, OpenFails, TimesOut, NewChat
<1>7. ~Restart
  BY <1>1 DEF Restart
<1>8. UNCHANGED vars => UNCHANGED <<sessions, handler>>
  BY DEF vars
<1> QED  BY <1>2, <1>3, <1>4, <1>5, <1>6, <1>7, <1>8 DEF Next

LEMMA QueuedAreNewStep ==
  ASSUME ChatInv, ChatInv', TalkInv, Patience, QueuedAreNew, [Next]_vars
  PROVE  QueuedAreNew'
<1>0. UNCHANGED impatient
  BY ImpatientStays
<1> SUFFICES ASSUME NEW h \in Handlers, handler'[h].step = "queued", handler'[h].sid[1] \notin impatient,
                    sessions'[handler'[h].sid] # Gone
             PROVE  handler'[h].q \notin sessions'[handler'[h].sid].heard
  BY <1>0 DEF QueuedAreNew
<1>1. handler'[h] # Idle
  BY IdleStep
<1>2. CASE handler'[h] = handler[h] /\ sessions'[handler[h].sid] = sessions[handler[h].sid]
  BY <1>2 DEF QueuedAreNew
<1>3. ASSUME NEW t \in Tabs, OpenSession(t)
      PROVE  handler'[h] = handler[h] /\ sessions'[handler[h].sid] = sessions[handler[h].sid]
  <2>1. handler'[h] = handler[h]
    BY <1>3 DEF OpenSession
  <2> QED  BY <1>1, <1>3, <2>1, OpenedIsNew
<1>4. ASSUME NEW g \in Handlers, Work(g)
      PROVE  handler'[h] = handler[h] /\ sessions'[handler[h].sid] = sessions[handler[h].sid]
  <2>1. handler[h] # Idle /\ handler'[h].sid = handler[h].sid
    BY <1>1, <1>4, WorkStep DEF SameRequests
  <2>2. g # h
    BY <1>4, NeverQueued
  <2> QED  BY <1>4, <2>1, <2>2, OthersKeepOut
<1>5. ASSUME NEW g \in Handlers, NEW t \in Tabs, Post(g, t)
      PROVE  handler'[h].q \notin sessions'[handler'[h].sid].heard
  <2>1. PICK new : OnlyOne(g, new) /\ new.sid = <<t, tab[t].session>> /\ new.q = tab[t].q
    BY <1>5, QueuedRequest
  <2>2. UNCHANGED sessions /\ tab[t].step = "posted"
    BY <1>5 DEF Post
  <2>3. CASE g # h
    BY <1>2, <2>1, <2>2, <2>3 DEF OnlyOne
  <2>4. CASE g = h
    <3> DEFINE sid == <<t, tab[t].session>>
    <3>1. handler'[h].sid = sid /\ handler'[h].q = tab[t].q
      BY <2>1, <2>4 DEF OnlyOne
    <3>2. sid \in SessionIds /\ sessions[sid] # Gone
      BY <1>1, <2>2, <3>1, RequestSessions DEF ChatInv, HandlersOK
    <3>3. \A q \in sessions[sid].heard : Sent(tab, t, q)
      BY <3>2 DEF TalkInv, SessionsFit, Fits
    <3>4. ~Sent(tab, t, tab[t].q)
      BY <2>2, ChatAssumption DEF Sent, ChatInv, TabsOK, Tab
    <3> QED  BY <2>2, <3>1, <3>3, <3>4
  <2> QED  BY <2>3, <2>4
<1>6. ASSUME NEW g \in Handlers, NEW t \in Tabs, LeaveOpening(g, t)
      PROVE  handler'[h].q \notin sessions'[handler'[h].sid].heard
  <2> DEFINE sid == <<t, tab[t].opened + 1>>
  <2>1. PICK new : OnlyOne(g, new) /\ new.sid = sid
    BY <1>6, QueuedRequest
  <2>2. PICK topic \in Threads : sessions' = [sessions EXCEPT ![sid] = NewSession(topic)]
    BY <1>6 DEF LeaveOpening
  <2>3. CASE g # h
    <3>1. handler'[h] = handler[h]
      BY <2>1, <2>3 DEF OnlyOne
    <3> QED  BY <1>1, <1>2, <1>6, <3>1, OpenedIsNew
  <2>4. CASE g = h
    <3>1. handler'[h].sid = sid
      BY <2>1, <2>4 DEF OnlyOne
    <3> HIDE DEF sid
    <3>2. sid \in SessionIds
      BY <1>1, <3>1, RequestSessions DEF ChatInv, HandlersOK
    <3>3. sessions'[sid] = NewSession(topic)
      BY <2>2, <3>2 DEF ChatInv, SessionsOK
    <3> QED  BY <3>1, <3>3 DEF NewSession
  <2> QED  BY <2>3, <2>4
<1>7. ASSUME NEW t \in Tabs, Submit(t) \/ OpenFails(t) \/ TimesOut(t) \/ NewChat(t)
      PROVE  UNCHANGED <<sessions, handler>>
  BY <1>7 DEF Submit, OpenFails, TimesOut, NewChat
<1>8. ~Restart
  BY <1>1 DEF Restart
<1>9. UNCHANGED vars => UNCHANGED <<sessions, handler>>
  BY DEF vars
<1> QED  BY <1>2, <1>3, <1>4, <1>5, <1>6, <1>7, <1>8, <1>9 DEF Next

LEMMA PromiseInvInit == Init => PromiseInv
BY IdleStep DEF Init, PromiseInv, Unopened, Patience, Progresses, QueuedAreNew

LEMMA PromiseInvNext ==
  ChatInv /\ ChatInv' /\ TalkInv /\ PromiseInv /\ [Next]_vars => PromiseInv'
BY UnopenedStep, PatienceStep, ProgressesStep, QueuedAreNewStep DEF PromiseInv

-----------------------------------------------------------------------------
(* Every step is a step of the conversation, or none.                      *)

SavingSteps == {"saved", "copied", "asked", "answering"}
Patient(s) == s[1] \notin impatient

\* Before, of any requests and sessions.
Saves(requests, h, s) ==
  requests[h] # Idle /\ requests[h].sid = s /\ requests[h].step \in SavingSteps

BeforeIn(requests, all, s) ==
  IF \E h \in Handlers : Saves(requests, h, s)
    THEN requests[CHOOSE h \in Handlers : Saves(requests, h, s)].seen
    ELSE all[s]

LEMMA BeforeIs ==
  ASSUME NEW s
  PROVE  /\ Before(s) = BeforeIn(handler, sessions, s)
         /\ Before(s)' = BeforeIn(handler', sessions', s)
BY DEF Before, BeforeIn, Saving, Saves, Underway, SavingSteps

LEMMA BeforeSaving ==
  ASSUME NEW requests, NEW all, NEW s, NEW h \in Handlers, Saves(requests, h, s),
         \A g \in Handlers : Saves(requests, g, s) => g = h
  PROVE  BeforeIn(requests, all, s) = requests[h].seen
BY DEF BeforeIn

LEMMA BeforeOpen ==
  ASSUME NEW requests, NEW all, NEW s, \A g \in Handlers : ~Saves(requests, g, s)
  PROVE  BeforeIn(requests, all, s) = all[s]
BY DEF BeforeIn

LEMMA BeforeStays ==
  ASSUME Patience, NEW s \in SessionIds, Patient(s),
         \A g \in Handlers : Saves(handler, g, s) <=> Saves(handler', g, s),
         \A g \in Handlers : Saves(handler, g, s) => handler'[g].seen = handler[g].seen,
         (\A g \in Handlers : ~Saves(handler, g, s)) => sessions'[s] = sessions[s]
  PROVE  Before(s)' = Before(s)
<1>1. CASE \A g \in Handlers : ~Saves(handler, g, s)
  <2>1. \A g \in Handlers : ~Saves(handler', g, s)
    BY <1>1
  <2> QED  BY <1>1, <2>1, BeforeIs, BeforeOpen
<1>2. ASSUME NEW h \in Handlers, Saves(handler, h, s) PROVE Before(s)' = Before(s)
  <2>1. \A g \in Handlers : Saves(handler, g, s) => g = h
    BY <1>2 DEF Patience, Patient, Saves
  <2>2. Saves(handler', h, s) /\ \A g \in Handlers : Saves(handler', g, s) => g = h
    BY <1>2, <2>1
  <2>3. BeforeIn(handler, sessions, s) = handler[h].seen
    BY <1>2, <2>1, BeforeSaving
  <2>4. BeforeIn(handler', sessions', s) = handler'[h].seen
    BY <2>2, BeforeSaving
  <2> QED  BY <1>2, <2>3, <2>4, BeforeIs
<1> QED  BY <1>1, <1>2

\* A session another request is working on.
LEMMA OtherSession ==
  ASSUME ChatInv, Patience, NEW h \in Handlers, Work(h),
         NEW s \in SessionIds, Patient(s), s # handler[h].sid
  PROVE  Before(s)' = Before(s)
<1>1. /\ sessions'[s] = sessions[s]
      /\ (handler'[h] # Idle => handler'[h].sid # s)
      /\ \A g \in Handlers : g # h => handler'[g] = handler[g]
  BY WorkStep DEF SameRequests
<1>2. \A g \in Handlers : Saves(handler, g, s) <=> Saves(handler', g, s)
  BY <1>1 DEF Saves
<1>3. \A g \in Handlers : Saves(handler, g, s) => handler'[g].seen = handler[g].seen
  BY <1>1 DEF Saves
<1> QED  BY <1>1, <1>2, <1>3, BeforeStays

\* The session a request is working on: no other handler has one of it.
LEMMA OwnSession ==
  ASSUME ChatInv, Patience, NEW h \in Handlers, Work(h), NEW s, s = handler[h].sid, Patient(s)
  PROVE  /\ Before(s) = IF handler[h].step \in SavingSteps THEN handler[h].seen ELSE sessions[s]
         /\ Before(s)' = IF handler'[h].step \in SavingSteps THEN handler'[h].seen ELSE sessions'[s]
<1>1. /\ handler[h] # Idle /\ s \in SessionIds /\ Patient(s)
      /\ (handler'[h] # Idle => handler'[h].sid = s)
      /\ \A g \in Handlers : g # h => handler'[g] = handler[g]
  BY WorkStep DEF SameRequests
<1>2. \A g \in Handlers : g # h => ~Saves(handler, g, s) /\ ~Saves(handler', g, s)
  BY <1>1 DEF Saves, Patience, Patient
<1>3. /\ Saves(handler, h, s) <=> handler[h].step \in SavingSteps
      /\ Saves(handler', h, s) <=> handler'[h].step \in SavingSteps
  BY <1>1, IdleStep DEF Saves, SavingSteps
<1>4. Before(s) = IF handler[h].step \in SavingSteps THEN handler[h].seen ELSE sessions[s]
  <2>1. CASE Saves(handler, h, s)
    BY <1>2, <1>3, <2>1, BeforeIs, BeforeSaving
  <2>2. CASE ~Saves(handler, h, s)
    BY <1>2, <1>3, <2>2, BeforeIs, BeforeOpen
  <2> QED  BY <2>1, <2>2
<1>5. Before(s)' = IF handler'[h].step \in SavingSteps THEN handler'[h].seen ELSE sessions'[s]
  <2>1. CASE Saves(handler', h, s)
    BY <1>2, <1>3, <2>1, BeforeIs, BeforeSaving
  <2>2. CASE ~Saves(handler', h, s)
    BY <1>2, <1>3, <2>2, BeforeIs, BeforeOpen
  <2> QED  BY <2>1, <2>2
<1> QED  BY <1>4, <1>5

\* What a request changes of its session, seen from outside: nothing until the
\* answer is appended, then the whole turn; or it is cleared.
LEMMA RequestTalks ==
  ASSUME ChatInv, ChatInv', PromiseInv, NEW h \in Handlers, Work(h),
         NEW s, s = handler[h].sid, Patient(s)
  PROVE  \/ Before(s)' = Before(s)
         \/ /\ SaveCleared(h) /\ Before(s) # Gone
            /\ \E topic \in Threads : Before(s)' = NewSession(topic)
         \/ /\ AppendAnswer(h) /\ Before(s) = handler[h].seen /\ handler[h].step = "answering"
            /\ Before(s)' = sessions'[s]
<1>0. /\ handler[h] # Idle /\ handler[h] \in Requests /\ s \in SessionIds
      /\ (handler[h] \in Active => Progress(handler[h], sessions[s]) /\ sessions[s] # Gone)
  BY WorkStep DEF ChatInv, HandlersOK, PromiseInv, Progresses, Patient
<1>1. /\ Before(s) = IF handler[h].step \in SavingSteps THEN handler[h].seen ELSE sessions[s]
      /\ Before(s)' = IF handler'[h].step \in SavingSteps THEN handler'[h].seen ELSE sessions'[s]
  BY OwnSession DEF PromiseInv
<1>2. CASE Decides(h)
  <2>1. PICK new : OnlyOne(h, new) /\ Proceeds(handler[h], new)
    BY <1>2, DecidesStep DEF ChatInv
  <2>2. handler[h].step \in Deciding /\ UNCHANGED sessions
    BY <1>2, DecidesStep DEF ChatInv
  <2> QED  BY <1>1, <2>1, <2>2 DEF OnlyOne, Proceeds, Deciding, SavingSteps
<1>3. CASE SaveMemory(h)
  <2> DEFINE new == [step |-> "saved", sid |-> handler[h].sid, q |-> handler[h].q, seen |-> handler[h].seen]
  <2>1. handler[h].step = "ready" /\ handler' = [handler EXCEPT ![h] = new]
    BY <1>3 DEF SaveMemory
  <2>2. handler'[h] = new
    BY <2>1 DEF ChatInv, HandlersOK
  <2>3. handler'[h].step = "saved" /\ handler'[h].seen = handler[h].seen
    BY <2>2
  <2>4. handler[h] \in Active
    BY <1>0, <2>1, ActiveSteps DEF Active
  <2>5. sessions[s] = handler[h].seen
    BY <1>0, <2>1, <2>4 DEF Progress
  <2> QED  BY <1>1, <2>1, <2>3, <2>5 DEF SavingSteps
<1>4. CASE CopyFor(h)
  <2> DEFINE new == [step |-> IF handler[h].step = "saved" THEN "copied" ELSE "answering",
                     sid |-> handler[h].sid, q |-> handler[h].q, seen |-> handler[h].seen,
                     copy |-> ReadAgain(h)]
  <2>1. handler[h].step \in {"saved", "asked"} /\ handler' = [handler EXCEPT ![h] = new]
    BY <1>4 DEF CopyFor
  <2>2. handler'[h] = new
    BY <2>1 DEF ChatInv, HandlersOK
  <2>3. handler'[h].step \in {"copied", "answering"} /\ handler'[h].seen = handler[h].seen
    BY <2>2
  <2> QED  BY <1>1, <2>1, <2>3 DEF SavingSteps
<1>5. CASE AppendUser(h)
  <2> DEFINE new == [step |-> "asked", sid |-> handler[h].sid, q |-> handler[h].q, seen |-> handler[h].seen]
  <2>1. handler[h].step = "copied" /\ handler' = [handler EXCEPT ![h] = new]
    BY <1>5 DEF AppendUser
  <2>2. handler'[h] = new
    BY <2>1 DEF ChatInv, HandlersOK
  <2>3. handler'[h].step = "asked" /\ handler'[h].seen = handler[h].seen
    BY <2>2
  <2> QED  BY <1>1, <2>1, <2>3 DEF SavingSteps
<1>6. CASE Receive(h)
  <2>1. handler[h].step = "reply" /\ handler'[h] = Idle /\ UNCHANGED sessions
    BY <1>6 DEF Receive, ChatInv, HandlersOK
  <2> QED  BY <1>1, <2>1, IdleStep DEF SavingSteps
<1>7. CASE SaveCleared(h)
  <2>1. handler[h].step \in {"switch", "reset"} /\ handler' = [handler EXCEPT ![h] = Reply(h, "answer")]
    BY <1>7 DEF SaveCleared
  <2>2. handler'[h].step = "reply"
    BY <2>1 DEF ChatInv, HandlersOK, Reply
  <2>3. handler[h] \in Searches /\ handler[h] \in Active
    BY <1>0, <2>1, ActiveSteps DEF Active
  <2>4. handler[h].seen.thread \in Threads
    BY <2>3 DEF Searches, Session
  <2>5. PICK topic \in Threads : sessions' = [sessions EXCEPT ![handler[h].sid] = NewSession(topic)]
    BY <1>7, <2>4 DEF SaveCleared
  <2>6. sessions'[s] = NewSession(topic)
    BY <1>0, <2>5 DEF ChatInv, SessionsOK
  <2> QED  BY <1>0, <1>1, <1>7, <2>1, <2>2, <2>3, <2>6 DEF SavingSteps
<1>8. CASE AppendAnswer(h)
  <2>1. PICK outcome : handler' = [handler EXCEPT ![h] = Reply(h, outcome)]
    BY <1>8 DEF AppendAnswer
  <2>2. handler[h].step = "answering"
    BY <1>8 DEF AppendAnswer
  <2>3. handler'[h].step = "reply"
    BY <2>1 DEF ChatInv, HandlersOK, Reply
  <2> QED  BY <1>1, <1>8, <2>2, <2>3 DEF SavingSteps
<1>9. CASE Begin(h)
  <2>1. /\ handler[h].step = "queued" /\ UNCHANGED sessions
        /\ \E new : OnlyOne(h, new) /\ Begun(handler[h], new)
    BY <1>9, BeginsRequest
  <2>2. PICK new : OnlyOne(h, new) /\ Begun(handler[h], new)
    BY <2>1
  <2> QED  BY <1>1, <2>1, <2>2 DEF OnlyOne, Begun, SavingSteps
<1> QED  BY <1>2, <1>3, <1>4, <1>5, <1>6, <1>7, <1>8, <1>9 DEF Work, Decides

\* To append twice and keep the last turns each time is to append both at once.
LEMMA LastTwice ==
  ASSUME NEW turns \in Seq(Turns), NEW x \in Turns, NEW y \in Turns
  PROVE  LastTurns(LastTurns(turns \o <<x>>) \o <<y>>) = LastTurns(turns \o <<x, y>>)
<1> DEFINE n == Len(turns)
           one == turns \o <<x>>
           kept == LastTurns(one)
           two == kept \o <<y>>
           all == turns \o <<x, y>>
<1>1. n \in Nat /\ MaxTurns \in Nat
  BY ChatAssumption
<1>2. /\ one \in Seq(Turns) /\ Len(one) = n + 1
      /\ \A i \in 1 .. n + 1 : one[i] = IF i <= n THEN turns[i] ELSE x
  BY <1>1, ConcatProperties
<1>3. <<x, y>> \in Seq(Turns) /\ Len(<<x, y>>) = 2 /\ <<x, y>>[1] = x /\ <<x, y>>[2] = y
  OBVIOUS
<1>4. /\ all \in Seq(Turns) /\ Len(all) = n + 2
      /\ \A i \in 1 .. n + 2 : all[i] = IF i <= n THEN turns[i] ELSE IF i = n + 1 THEN x ELSE y
  <2>1. /\ all \in Seq(Turns) /\ Len(all) = n + 2
        /\ \A i \in 1 .. n + 2 : all[i] = IF i <= n THEN turns[i] ELSE <<x, y>>[i - n]
    BY <1>1, <1>3, ConcatProperties
  <2>2. \A i \in 1 .. n + 2 : ~(i <= n) => i = n + 1 \/ i = n + 2
    BY <1>1
  <2>3. n + 1 - n = 1 /\ n + 2 - n = 2
    BY <1>1
  <2> HIDE DEF all
  <2> QED  BY <1>1, <1>3, <2>1, <2>2, <2>3
<1> HIDE DEF one, all, n
<1>5. one \in Seq(Turns) /\ all \in Seq(Turns)
  BY <1>2, <1>4
<1> DEFINE a == Dropped(one)
           b == Dropped(two)
           c == Dropped(all)
           m == Len(kept)
<1>6. /\ kept \in Seq(Turns) /\ m = Len(one) - a /\ a \in 0 .. Len(one)
      /\ \A i \in 1 .. m : kept[i] = one[i + a]
  BY <1>5, LastTurnsAre
<1> HIDE DEF kept
<1>7. m \in Nat
  BY <1>6
<1>8. /\ two \in Seq(Turns) /\ Len(two) = m + 1
      /\ \A i \in 1 .. m + 1 : two[i] = IF i <= m THEN kept[i] ELSE y
  <2>1. <<y>> \in Seq(Turns) /\ Len(<<y>>) = 1 /\ <<y>>[1] = y
    OBVIOUS
  <2>2. /\ two \in Seq(Turns) /\ Len(two) = m + 1
        /\ \A i \in 1 .. m + 1 : two[i] = IF i <= m THEN kept[i] ELSE <<y>>[i - m]
    BY <1>6, <2>1, ConcatProperties
  <2> HIDE DEF two, m
  <2>3. \A i \in 1 .. m + 1 : ~(i <= m) => i - m = 1
    BY <1>7
  <2> QED  BY <2>1, <2>2, <2>3
<1> HIDE DEF two
<1>9. two \in Seq(Turns)
  BY <1>8
<1> DEFINE left == LastTurns(two)
           right == LastTurns(all)
<1>10. /\ left \in Seq(Turns) /\ Len(left) = Len(two) - b /\ b \in 0 .. Len(two)
       /\ \A i \in 1 .. Len(left) : left[i] = two[i + b]
  BY <1>9, LastTurnsAre
<1>11. /\ right \in Seq(Turns) /\ Len(right) = Len(all) - c /\ c \in 0 .. Len(all)
       /\ \A i \in 1 .. Len(right) : right[i] = all[i + c]
  BY <1>5, LastTurnsAre
<1>12. /\ a = IF n + 1 > MaxTurns THEN n + 1 - MaxTurns ELSE 0
       /\ b = IF m + 1 > MaxTurns THEN m + 1 - MaxTurns ELSE 0
       /\ c = IF n + 2 > MaxTurns THEN n + 2 - MaxTurns ELSE 0
  BY <1>1, <1>2, <1>4, <1>7, <1>8 DEF Dropped
<1> HIDE DEF a, b, c, m, left, right
<1>13. m = n + 1 - a
  BY <1>1, <1>2, <1>6
<1>14. a \in Nat /\ b \in Nat /\ c \in Nat /\ a + b = c
  BY <1>1, <1>7, <1>12, <1>13
<1>15. Len(left) = m + 1 - b /\ Len(right) = n + 2 - c
  BY <1>1, <1>4, <1>7, <1>8, <1>10, <1>11
<1>16. Len(left) = Len(right) /\ Len(left) \in Nat
  <2>1. m + 1 - b = n + 2 - c
    BY <1>1, <1>13, <1>14
  <2>2. Len(left) \in Nat
    BY <1>10, LenProperties
  <2> QED  BY <1>15, <2>1, <2>2
<1>17. ASSUME NEW i \in 1 .. Len(left) PROVE left[i] = right[i]
  <2>1. PICK j, k : j = i + b /\ k = i + c
    OBVIOUS
  <2>2. left[i] = two[j] /\ right[i] = all[k]
    BY <1>10, <1>11, <1>16, <2>1
  <2>3. /\ j \in 1 .. m + 1 /\ k \in 1 .. n + 2 /\ k = j + a /\ j \in Nat /\ k \in Nat
        /\ j <= m <=> k <= n + 1
    BY <1>1, <1>7, <1>13, <1>14, <1>15, <1>16, <2>1
  <2>4. CASE j <= m
    <3>1. j \in 1 .. m /\ k \in 1 .. n + 1
      BY <1>1, <1>7, <2>3, <2>4
    <3>2. two[j] = one[k]
      BY <1>6, <1>8, <2>3, <2>4, <3>1
    <3>3. one[k] = all[k]
      BY <1>1, <1>2, <1>4, <2>3, <3>1
    <3> QED  BY <2>2, <3>2, <3>3
  <2>5. CASE ~(j <= m)
    <3>1. k = n + 2
      BY <1>1, <2>3, <2>5
    <3>2. two[j] = y
      BY <1>8, <2>3, <2>5
    <3>3. all[k] = y
      BY <1>1, <1>4, <2>3, <3>1
    <3> QED  BY <2>2, <3>2, <3>3
  <2> QED  BY <2>4, <2>5
<1>18. left = right
  BY <1>10, <1>11, <1>16, <1>17, SeqEqual
<1> QED  BY <1>18 DEF one, kept, two, all, left, right

\* The turn is whole: the question stands before its answer.
LEMMA WholeTurn ==
  ASSUME ChatInv, PromiseInv, NEW h \in Handlers, AppendAnswer(h), NEW s, s = handler[h].sid, Patient(s)
  PROVE  LET r == handler[h]
         IN  /\ r.q \in Questions /\ r.q \notin r.seen.heard /\ r.seen # Gone
             /\ \E focus \in {r.seen.focus, r.q} :
                  sessions'[s] =
                    [thread |-> r.seen.thread,
                     turns |-> LastTurns(r.seen.turns \o
                       << [role |-> "user", q |-> r.q], [role |-> "assistant", q |-> r.q] >>),
                     heard |-> r.seen.heard \cup {r.q}, focus |-> focus]
<1> DEFINE r == handler[h]
           x == [role |-> "user", q |-> r.q]
           y == [role |-> "assistant", q |-> r.q]
<1>1. r.step = "answering" /\ r \in Copied /\ r \in Active /\ AppendTurn(h, "assistant")
  BY ActiveSteps DEF AppendAnswer, ChatInv, HandlersOK, Active
<1>2. r.q \in Questions /\ r.seen \in Session /\ r.seen # Gone
  BY <1>1, GoneIsNoSession DEF Copied
<1>3. Progress(r, sessions[s])
  BY <1>1 DEF PromiseInv, Progresses, Patient
<1>4. r.q \notin r.seen.heard
  BY <1>3 DEF Progress
<1>5. PICK focus \in {r.seen.focus, r.q} : r.copy = Remembers(r, focus, Asked(r))
  BY <1>1, <1>3 DEF Progress
<1>6. x \in Turns /\ y \in Turns /\ r.seen.turns \in Seq(Turns)
  BY <1>2, HistoryTurns DEF Turns
<1>7. LastTurns(Asked(r) \o <<y>>) = LastTurns(r.seen.turns \o <<x, y>>)
  BY <1>6, LastTwice DEF Asked
<1>8. /\ r.copy.thread = r.seen.thread /\ r.copy.heard = r.seen.heard \cup {r.q}
      /\ r.copy.focus = focus /\ r.copy.turns = Asked(r)
  BY <1>5 DEF Remembers
<1>9. sessions'[s] =
        [thread |-> r.copy.thread, heard |-> r.copy.heard, focus |-> r.copy.focus,
         turns |-> LastTurns(r.copy.turns \o <<y>>)]
  BY <1>1, TurnIsAppended
<1>10. sessions'[s] =
        [thread |-> r.seen.thread, turns |-> LastTurns(r.seen.turns \o <<x, y>>),
         heard |-> r.seen.heard \cup {r.q}, focus |-> focus]
  BY <1>7, <1>8, <1>9
<1> QED  BY <1>2, <1>4, <1>10

\* What the sessions of patient clients are, as a Conversation shows it.
Talk == [s \in SessionIds |-> IF s[1] \in impatient THEN Gone ELSE Before(s)]

\* Only session s may have changed.
OnlySession(s) == \A r \in SessionIds : r # s /\ Patient(r) => Before(r)' = Before(r)

LEMMA TalkStays ==
  ASSUME UNCHANGED impatient, \A r \in SessionIds : Patient(r) => Before(r)' = Before(r)
  PROVE  Talk' = Talk
BY DEF Talk, Patient

LEMMA TalkChanges ==
  ASSUME UNCHANGED impatient, NEW s \in SessionIds, Patient(s), OnlySession(s),
         NEW y, Before(s)' = y
  PROVE  Talk' = [Talk EXCEPT ![s] = y] /\ Talk[s] = Before(s)
BY DEF Talk, Patient, OnlySession

LEMMA TalkOpens ==
  ASSUME NEW s \in SessionIds, NEW topic \in Threads,
         Talk[s] = Gone, Talk' = [Talk EXCEPT ![s] = NewSession(topic)]
  PROVE  Promise!Next
BY DEF Promise!Next, Promise!Open, Promise!Closed, Promise!Fresh, Talk, Gone, NewSession

LEMMA TalkClears ==
  ASSUME NEW s \in SessionIds, NEW topic \in Threads,
         Talk[s] # Gone, Talk' = [Talk EXCEPT ![s] = NewSession(topic)]
  PROVE  Promise!Next
BY DEF Promise!Next, Promise!Clear, Promise!Closed, Promise!Fresh, Talk, Gone, NewSession

LEMMA TalkForgets ==
  ASSUME Talk' = [s \in SessionIds |-> Gone]
  PROVE  Promise!Next
BY DEF Promise!Next, Promise!Forget, Promise!Closed, Talk, Gone

LEMMA TalkTurns ==
  ASSUME NEW s \in SessionIds, NEW q \in Questions, NEW before, Talk[s] = before,
         before # Gone, q \notin before.heard, NEW focus \in {before.focus, q},
         Talk' = [Talk EXCEPT ![s] =
           [thread |-> before.thread,
            turns |-> LastTurns(before.turns \o
              << [role |-> "user", q |-> q], [role |-> "assistant", q |-> q] >>),
            heard |-> before.heard \cup {q}, focus |-> focus]]
  PROVE  Promise!Next
<1>1. \A turns : Promise!LastOf(turns) = LastTurns(turns)
  BY DEF Promise!LastOf, LastTurns
<1>2. Talk' = [Talk EXCEPT ![s] =
        [thread |-> Talk[s].thread,
         turns |-> Promise!LastOf(Talk[s].turns \o
           << [role |-> "user", q |-> q], [role |-> "assistant", q |-> q] >>),
         heard |-> Talk[s].heard \cup {q}, focus |-> focus]]
  BY <1>1
<1>3. Talk[s] # Gone /\ q \notin Talk[s].heard /\ focus \in {Talk[s].focus, q}
  OBVIOUS
<1>4. Promise!Turn(s, q)
  BY <1>2, <1>3 DEF Promise!Turn, Promise!Closed, Talk, Gone
<1> QED  BY <1>4 DEF Promise!Next

\* A step of the answering is a step of the conversation: a session opens, is
\* cleared, gets a whole turn, or all of them are forgotten; or nothing happens.
LEMMA TalkStep ==
  ASSUME ChatInv, ChatInv', TalkInv, PromiseInv, PromiseInv', [Next]_vars
  PROVE  Promise!Next \/ Talk' = Talk
<1>0. UNCHANGED impatient
  BY ImpatientStays
<1>1. ASSUME UNCHANGED <<sessions, handler>> PROVE Talk' = Talk
  <2>1. \A s : Before(s)' = Before(s)
    BY <1>1, BeforeIs
  <2> QED  BY <1>0, <2>1, TalkStays
<1>2. ASSUME NEW t \in Tabs, Submit(t) \/ OpenFails(t) \/ TimesOut(t) \/ NewChat(t)
      PROVE  UNCHANGED <<sessions, handler>>
  BY <1>2 DEF Submit, OpenFails, TimesOut, NewChat
<1>3. ASSUME NEW t \in Tabs, OpenSession(t) \/ \E h \in Handlers : LeaveOpening(h, t)
      PROVE  Promise!Next \/ Talk' = Talk
  <2>1. PICK s : s = <<t, tab[t].opened + 1>>
    OBVIOUS
  <2>2. PICK topic \in Threads : sessions' = [sessions EXCEPT ![s] = NewSession(topic)]
    BY <1>3, <2>1 DEF OpenSession, LeaveOpening
  <2>3. s \in SessionIds /\ s[1] = t /\ s[2] = tab[t].opened + 1
    BY <1>3, <2>1, ChatAssumption DEF OpenSession, LeaveOpening, SessionIds, ChatInv, TabsOK, Tab
  <2>4. \A h \in Handlers : handler[h] # Idle => handler[h].sid # s
    BY <1>3, <2>1, OpenedIsNew
  <2>5. sessions[s] = Gone
    BY <2>3, ChatAssumption DEF PromiseInv, Unopened, ChatInv, TabsOK, Tab
  <2>6. \A g \in Handlers : \/ handler'[g] = handler[g]
                            \/ handler[g] = Idle /\ handler'[g].step = "queued"
    <3>1. CASE OpenSession(t)
      BY <3>1 DEF OpenSession
    <3>2. ASSUME NEW h \in Handlers, LeaveOpening(h, t)
          PROVE  \A g \in Handlers : \/ handler'[g] = handler[g]
                                     \/ handler[g] = Idle /\ handler'[g].step = "queued"
      <4>1. PICK new : handler[h] = Idle /\ OnlyOne(h, new) /\ new.step = "queued"
        BY <3>2, QueuedRequest
      <4> QED  BY <4>1 DEF OnlyOne
    <3> QED  BY <1>3, <3>1, <3>2
  <2>7. \A g \in Handlers, r \in SessionIds : Saves(handler, g, r) <=> Saves(handler', g, r)
    BY <2>6 DEF Saves, SavingSteps
  <2>8. \A g \in Handlers, r \in SessionIds : Saves(handler, g, r) => handler'[g].seen = handler[g].seen
    BY <2>6 DEF Saves
  <2>9. \A h \in Handlers : ~Saves(handler, h, s) /\ ~Saves(handler', h, s)
    BY <2>3, <2>4, <2>7 DEF Saves
  <2>10. /\ sessions'[s] = NewSession(topic)
         /\ \A r \in SessionIds : r # s => sessions'[r] = sessions[r]
    BY <2>2, <2>3 DEF ChatInv, SessionsOK
  <2>11. Before(s) = Gone /\ Before(s)' = NewSession(topic)
    BY <2>5, <2>9, <2>10, BeforeIs, BeforeOpen
  <2>12. OnlySession(s)
    BY <2>7, <2>8, <2>10, BeforeStays DEF OnlySession, PromiseInv
  <2>13. CASE Patient(s)
    BY <1>0, <2>3, <2>11, <2>12, <2>13, TalkChanges, TalkOpens
  <2>14. CASE ~Patient(s)
    BY <1>0, <2>12, <2>14, TalkStays DEF OnlySession
  <2> QED  BY <2>13, <2>14
<1>4. ASSUME NEW h \in Handlers, Work(h) PROVE Promise!Next \/ Talk' = Talk
  <2>1. PICK s : s = handler[h].sid
    OBVIOUS
  <2>2. s \in SessionIds
    BY <1>4, <2>1, WorkStep
  <2>3. OnlySession(s)
    BY <1>4, <2>1, OtherSession DEF OnlySession, PromiseInv
  <2>4. CASE ~Patient(s) \/ Before(s)' = Before(s)
    BY <1>0, <2>3, <2>4, TalkStays DEF OnlySession
  <2>5. ASSUME Patient(s), Before(s) # Gone, NEW topic \in Threads, Before(s)' = NewSession(topic)
        PROVE  Promise!Next
    <3>1. Talk' = [Talk EXCEPT ![s] = NewSession(topic)] /\ Talk[s] = Before(s)
      BY <1>0, <2>2, <2>3, <2>5, TalkChanges
    <3> QED  BY <2>2, <2>5, <3>1, TalkClears
  <2>6. ASSUME Patient(s), AppendAnswer(h), Before(s) = handler[h].seen, Before(s)' = sessions'[s]
        PROVE  Promise!Next
    <3> DEFINE r == handler[h]
    <3>1. r.q \in Questions /\ r.q \notin r.seen.heard /\ r.seen # Gone
      BY <2>1, <2>6, WholeTurn
    <3>2. PICK focus \in {r.seen.focus, r.q} : sessions'[s] =
            [thread |-> r.seen.thread,
             turns |-> LastTurns(r.seen.turns \o
               << [role |-> "user", q |-> r.q], [role |-> "assistant", q |-> r.q] >>),
             heard |-> r.seen.heard \cup {r.q}, focus |-> focus]
      BY <2>1, <2>6, WholeTurn
    <3>3. PICK q, before : q = r.q /\ before = r.seen
      OBVIOUS
    <3>4. Talk' = [Talk EXCEPT ![s] = sessions'[s]] /\ Talk[s] = before
      BY <1>0, <2>2, <2>3, <2>6, <3>3, TalkChanges
    <3>5. Talk' = [Talk EXCEPT ![s] =
            [thread |-> before.thread,
             turns |-> LastTurns(before.turns \o
               << [role |-> "user", q |-> q], [role |-> "assistant", q |-> q] >>),
             heard |-> before.heard \cup {q}, focus |-> focus]]
      BY <3>2, <3>3, <3>4
    <3>6. /\ q \in Questions /\ q \notin before.heard /\ before # Gone
          /\ focus \in {before.focus, q} /\ Talk[s] = before
      BY <3>1, <3>2, <3>3, <3>4
    <3> QED  BY <2>2, <3>5, <3>6, TalkTurns
  <2> QED  BY <1>4, <2>1, <2>4, <2>5, <2>6, RequestTalks
<1>5. ASSUME Restart PROVE Promise!Next
  <2>1. sessions' = [s \in SessionIds |-> Gone] /\ handler' = [h \in Handlers |-> Idle]
    BY <1>5 DEF Restart
  <2>2. \A s \in SessionIds, h \in Handlers : ~Saves(handler', h, s)
    BY <2>1 DEF Saves
  <2>3. \A s \in SessionIds : Before(s)' = Gone
    BY <2>1, <2>2, BeforeIs, BeforeOpen
  <2>4. Talk' = [s \in SessionIds |-> Gone]
    BY <2>3 DEF Talk
  <2> QED  BY <2>4, TalkForgets
<1>6. ASSUME NEW h \in Handlers, NEW t \in Tabs, Post(h, t) PROVE Talk' = Talk
  <2>1. PICK new : handler[h] = Idle /\ OnlyOne(h, new) /\ new.step = "queued"
    BY <1>6, QueuedRequest
  <2>2. UNCHANGED sessions
    BY <1>6 DEF Post
  <2>3. \A g \in Handlers, s \in SessionIds : Saves(handler, g, s) <=> Saves(handler', g, s)
    BY <2>1, <2>2 DEF OnlyOne, Saves, SavingSteps
  <2>4. \A g \in Handlers, s \in SessionIds : Saves(handler, g, s) => handler'[g].seen = handler[g].seen
    BY <2>1 DEF OnlyOne, Saves
  <2>5. \A s \in SessionIds : Patient(s) => Before(s)' = Before(s)
    BY <2>2, <2>3, <2>4, BeforeStays DEF PromiseInv
  <2> QED  BY <1>0, <2>5, TalkStays
<1>7. UNCHANGED vars => UNCHANGED <<sessions, handler>>
  BY DEF vars
<1> QED  BY <1>1, <1>2, <1>3, <1>4, <1>5, <1>6, <1>7 DEF Next

LEMMA TalkInit == Init => Promise!Init
<1> SUFFICES ASSUME Init PROVE Promise!Init
  OBVIOUS
<1>1. \A h \in Handlers : ~Underway(h)
  BY DEF Init, Underway
<1>2. \A s \in SessionIds : Before(s) = Gone
  BY <1>1 DEF Before, Saving, Init
<1> QED  BY <1>2 DEF Promise!Init, Promise!Closed, Gone

\* A session whose client waits for its answers is a Conversation: although an
\* answer is saved in eight steps and read back between them, other clients
\* time out and the server restarts, seen from outside every question becomes a
\* whole turn, heard once and answered on the history it was asked on, or leaves
\* nothing behind.
THEOREM TurnsAreWholeCorrect == Spec => TurnsAreWhole
<1>1. Init => ChatInv /\ TalkInv /\ PromiseInv
  BY ChatInvInit, TalkInvInit, PromiseInvInit
<1>2. ChatInv /\ TalkInv /\ PromiseInv /\ [Next]_vars => (ChatInv /\ TalkInv /\ PromiseInv)'
  BY ChatInvNext, TalkInvNext, PromiseInvNext
<1>3. ChatInv /\ ChatInv' /\ TalkInv /\ PromiseInv /\ PromiseInv' /\ [Next]_vars => [Promise!Next]_Talk
  BY TalkStep
<1>4. Init => Promise!Init
  BY TalkInit
<1> QED  BY <1>1, <1>2, <1>3, <1>4, PTL DEF Spec, TurnsAreWhole, Promise!Spec, Talk
=============================================================================
