------------------------------ MODULE ChatTurn ------------------------------
(***************************************************************************)
(* A question from the browser to its answer: the tab of the frontend      *)
(* (lib/api.ts, routes/index.tsx), the handlers of app/main.py that run in *)
(* threads, the session store they share, and the two answering paths of   *)
(* rag/engine.py.                                                          *)
(*                                                                         *)
(* A handler reads a copy of its session, works on it for as long as       *)
(* retrieval and a language model take, saves the copy whole, and appends  *)
(* the two turns with a read and a write each; no lock spans two of these  *)
(* steps. A tab has one question under way, unless it stops waiting; API   *)
(* clients may also switch the thread of a session or reset it. Sessions   *)
(* live in memory: a restart of the server forgets them, not the tabs.     *)
(***************************************************************************)
EXTENDS Integers, Sequences, FiniteSets

CONSTANTS
  Tabs,
  Threads,        \* mail threads
  Handlers,       \* threads of the server
  MaxTurns,       \* settings.max_recent_turns
  MaxAttempts,    \* MAX_ATTEMPTS of the grounded answerer
  MaxQuestions,   \* bound: requests a tab makes
  MaxSessions,    \* bound: sessions a tab opens
  MaxRestarts     \* bound: restarts of the server

ASSUME ChatAssumption ==
  /\ Threads # {} /\ "closed" \notin Threads
  /\ MaxTurns \in Nat \ {0} /\ MaxAttempts \in Nat \ {0}
  /\ MaxQuestions \in Nat /\ MaxSessions \in Nat /\ MaxRestarts \in Nat

VARIABLES
  impatient,   \* tabs whose requests may time out before the server is done
  generates,   \* answer_generation_enabled: the grounded path answers
  sessions,    \* SessionStore: session id -> session, or Gone
  tab,         \* tab -> its session and the request it waits for
  handler,     \* handler -> the request it works on
  restarts

vars == <<impatient, generates, sessions, tab, handler, restarts>>

Questions == 1 .. MaxQuestions
SessionIds == Tabs \X (1 .. MaxSessions)

\* A turn of recent_turns, and what is kept of MemorySlots: the questions whose
\* names, dates and amounts were collected, and the one that set current_focus.
Turns == [role : {"user", "assistant"}, q : Questions]
Gone == [thread |-> "closed"]
NewSession(topic) == [thread |-> topic, turns |-> << >>, heard |-> {}, focus |-> 0]

\* Mutant: no slice.
AllTurns(turns) == turns

\* recent_turns[-max_recent_turns:]
LastTurns(turns) ==
  SubSeq(turns, IF Len(turns) > MaxTurns THEN Len(turns) - MaxTurns + 1 ELSE 1, Len(turns))

Idle == [step |-> "idle"]

\* A tab: its sessionPromise (0 when null), how many it has opened, and the
\* request under way: its number, what it asks of the server, and how far it is.
FreeTab == [session |-> 0, opened |-> 0, q |-> 0, step |-> "free", kind |-> "ask", outside |-> FALSE]

Init ==
  /\ impatient \in SUBSET Tabs
  /\ generates \in BOOLEAN
  /\ sessions = [s \in SessionIds |-> Gone]
  /\ tab = [t \in Tabs |-> FreeTab]
  /\ handler = [h \in Handlers |-> Idle]
  /\ restarts = 0

-----------------------------------------------------------------------------
(* The tab.                                                                *)

\* submit, which returns at once while a turn is pending; or an API client's
\* switch_thread or reset_session. askInbox opens a session when it has none.
Submit(t) ==
  /\ tab[t].step = "free" /\ tab[t].q < MaxQuestions
  /\ \E kind \in {"ask", "switch", "reset"}, outside \in BOOLEAN :
       /\ kind = "ask" \/ (tab[t].session # 0 /\ ~outside)
       /\ tab' = [tab EXCEPT ![t] = [@ EXCEPT
            !.q = tab[t].q + 1, !.kind = kind, !.outside = outside,
            !.step = IF tab[t].session = 0 THEN "opening" ELSE "posted"]]
  /\ UNCHANGED <<impatient, generates, sessions, handler, restarts>>

\* openSession: POST /start_session with a thread of the index, then POST /ask.
OpenSession(t) ==
  /\ tab[t].step = "opening" /\ tab[t].opened < MaxSessions
  /\ LET n == tab[t].opened + 1
     IN  /\ \E topic \in Threads : sessions' = [sessions EXCEPT ![<<t, n>>] = NewSession(topic)]
         /\ tab' = [tab EXCEPT ![t] = [@ EXCEPT !.session = n, !.opened = n, !.step = "posted"]]
  /\ UNCHANGED <<impatient, generates, handler, restarts>>

\* The request of /start_session fails: the promise is dropped again.
OpenFails(t) ==
  /\ tab[t].step = "opening"
  /\ tab' = [tab EXCEPT ![t].step = "free"]
  /\ UNCHANGED <<impatient, generates, sessions, handler, restarts>>

\* Mutant: a request that timed out is sent again.
AnyError(error) == TRUE

\* askInbox tries again, in a new session, on 404 and 422 only; the errors that
\* the server and the network really give are of other kinds.
TriesAgain(error) == error \in {"404", "422"}

\* AbortSignal.timeout: the tab stops waiting; the server does not notice, be
\* the request queued or under way, unless it was lost before it came there.
TimesOut(t) ==
  /\ t \in impatient /\ tab[t].step \in {"posted", "waiting"}
  /\ tab' = [tab EXCEPT ![t].step = IF TriesAgain("timeout") THEN "posted" ELSE "free"]
  /\ UNCHANGED <<impatient, generates, sessions, handler, restarts>>

\* startNewChat: forget the session and the turn that is pending. (The session
\* still being opened for that turn fails, or else: LeaveOpening.)
NewChat(t) ==
  /\ tab[t].session # 0 \/ tab[t].step = "opening"
  /\ tab' = [tab EXCEPT ![t] = [@ EXCEPT !.session = 0, !.step = "free"]]
  /\ UNCHANGED <<impatient, generates, sessions, handler, restarts>>

\* An unknown session is a KeyError, which FastAPI answers with 500.
Status(outcome) == IF outcome = "answer" THEN "200" ELSE "500"

AwaitedBy(h) ==
  {t \in Tabs : /\ tab[t].step = "waiting"
                /\ handler[h].sid = <<t, tab[t].session>> /\ handler[h].q = tab[t].q}

\* The response arrives, or nobody waits for it any more.
Receive(h) ==
  /\ handler[h].step = "reply"
  /\ tab' = [t \in Tabs |->
       IF t \notin AwaitedBy(h) THEN tab[t]
       ELSE IF TriesAgain(Status(handler[h].outcome))
         THEN [tab[t] EXCEPT !.session = 0, !.step = "opening"]
       ELSE [tab[t] EXCEPT !.step = "free"]]
  /\ handler' = [handler EXCEPT ![h] = Idle]
  /\ UNCHANGED <<impatient, generates, sessions, restarts>>

-----------------------------------------------------------------------------
(* A request in a thread of the server.                                    *)

Reply(h, outcome) ==
  [step |-> "reply", sid |-> handler[h].sid, q |-> handler[h].q, outcome |-> outcome]

\* The server has a request and a thread for it.
Queued(s, t) ==
  [step |-> "queued", sid |-> s, q |-> tab[t].q, kind |-> tab[t].kind, outside |-> tab[t].outside]

Post(h, t) ==
  /\ handler[h] = Idle /\ tab[t].step = "posted"
  /\ tab' = [tab EXCEPT ![t].step = "waiting"]
  /\ handler' = [handler EXCEPT ![h] = Queued(<<t, tab[t].session>>, t)]
  /\ UNCHANGED <<impatient, generates, sessions, restarts>>

\* startNewChat while a session is being opened: askInbox goes on, opens it and
\* asks there, in a session that no other request will ever know of.
LeaveOpening(h, t) ==
  /\ handler[h] = Idle /\ tab[t].step = "opening" /\ tab[t].opened < MaxSessions
  /\ LET n == tab[t].opened + 1
     IN  /\ \E topic \in Threads : sessions' = [sessions EXCEPT ![<<t, n>>] = NewSession(topic)]
         /\ tab' = [tab EXCEPT ![t] = [@ EXCEPT !.session = 0, !.opened = n, !.step = "free"]]
         /\ handler' = [handler EXCEPT ![h] = Queued(<<t, n>>, t)]
  /\ UNCHANGED <<impatient, generates, restarts>>

\* SessionStore.get: a deep copy, or KeyError.
Begin(h) ==
  /\ handler[h].step = "queued"
  /\ handler' = [handler EXCEPT ![h] =
       IF sessions[@.sid] = Gone THEN Reply(h, "unknown")
       ELSE [step |-> IF @.kind = "ask" THEN "search" ELSE @.kind, sid |-> @.sid, q |-> @.q,
             outside |-> @.outside, seen |-> sessions[@.sid], attempt |-> 0]]
  /\ UNCHANGED <<impatient, generates, sessions, tab, restarts>>

\* switch_thread and reset: save the copy under a thread, without its turns.
SaveCleared(h) ==
  /\ handler[h].step \in {"switch", "reset"}
  /\ \E topic \in IF handler[h].step = "switch" THEN Threads ELSE {handler[h].seen.thread} :
       sessions' = [sessions EXCEPT ![handler[h].sid] = NewSession(topic)]
  /\ handler' = [handler EXCEPT ![h] = Reply(h, "answer")]
  /\ UNCHANGED <<impatient, generates, tab, restarts>>

\* The answer is decided, or that there is none. (What it may cite: Quotes.)
Ready(h) == [step |-> "ready", sid |-> handler[h].sid, q |-> handler[h].q, seen |-> handler[h].seen]

\* Retrieval or the rewriter's session raises before anything is saved: 500.
SearchFails(h) ==
  /\ handler[h].step \in {"search", "wider"}
  /\ handler' = [handler EXCEPT ![h] = Reply(h, "failed")]
  /\ UNCHANGED <<impatient, generates, sessions, tab, restarts>>

\* The search goes on, n attempts of the model having been made.
Search(h, step, n) ==
  [step |-> step, sid |-> handler[h].sid, q |-> handler[h].q, outside |-> handler[h].outside,
   seen |-> handler[h].seen, attempt |-> n]

\* Mutant: the attempts are not counted.
Endless(h, n) == Search(h, "search", 0)

\* After attempt n of GroundedAnswerer.answer: another one, or give up.
NextAttempt(h, n) == IF n < MaxAttempts THEN Search(h, "search", n) ELSE Ready(h)

\* An attempt finds evidence, or no model is asked.
SearchEvidence(h) ==
  /\ generates /\ handler[h].step = "search"
  /\ LET n == handler[h].attempt + 1
     IN  \E new \in {Search(h, "draft", n), NextAttempt(h, n)} :
           handler' = [handler EXCEPT ![h] = new]
  /\ UNCHANGED <<impatient, generates, sessions, tab, restarts>>

\* The model answers: accept, try once more with wider retrieval, or abstain;
\* or its provider raises: abstain at once.
ModelAnswers(h) ==
  /\ handler[h].step = "draft"
  /\ \E new \in {Ready(h), NextAttempt(h, handler[h].attempt)} :
       handler' = [handler EXCEPT ![h] = new]
  /\ UNCHANGED <<impatient, generates, sessions, tab, restarts>>

\* The deterministic path: a weak answer from the thread is followed by a search
\* of the mailbox if the client allowed it.
SearchThread(h) ==
  /\ ~generates /\ handler[h].step = "search"
  /\ \E weak \in BOOLEAN :
       handler' = [handler EXCEPT ![h] =
         IF weak /\ @.outside THEN Search(h, "wider", 0) ELSE Ready(h)]
  /\ UNCHANGED <<impatient, generates, sessions, tab, restarts>>

SearchOutside(h) ==
  /\ handler[h].step = "wider"
  /\ handler' = [handler EXCEPT ![h] = Ready(h)]
  /\ UNCHANGED <<impatient, generates, sessions, tab, restarts>>

\* What is remembered of the turn: the question, the hits or the answer may set
\* what the session is about.
Focuses(h) == {handler[h].seen.focus, handler[h].q}

\* session_store.save of the copy, with its memory and its old turns.
SaveMemory(h) ==
  /\ handler[h].step = "ready"
  /\ \E focus \in Focuses(h) :
       sessions' = [sessions EXCEPT ![handler[h].sid] =
         [handler[h].seen EXCEPT !.heard = @ \cup {handler[h].q}, !.focus = focus]]
  /\ handler' = [handler EXCEPT ![h] =
       [step |-> "saved", sid |-> @.sid, q |-> @.q, seen |-> @.seen]]
  /\ UNCHANGED <<impatient, generates, tab, restarts>>

\* Mutant: append_turn works on the copy the handler already has.
OwnCopy(h) == [handler[h].seen EXCEPT !.heard = @ \cup {handler[h].q}]

\* append_turn reads the session again.
ReadAgain(h) == sessions[handler[h].sid]

CopyFor(h) ==
  /\ handler[h].step \in {"saved", "asked"}
  /\ handler' = [handler EXCEPT ![h] =
       [step |-> IF @.step = "saved" THEN "copied" ELSE "answering", sid |-> @.sid, q |-> @.q,
        seen |-> @.seen, copy |-> ReadAgain(h)]]
  /\ UNCHANGED <<impatient, generates, sessions, tab, restarts>>

\* append_turn saves what it read and one turn more.
AppendTurn(h, role) ==
  sessions' = [sessions EXCEPT ![handler[h].sid] =
    [handler[h].copy EXCEPT !.turns = LastTurns(@ \o <<[role |-> role, q |-> handler[h].q]>>)]]

AppendUser(h) ==
  /\ handler[h].step = "copied"
  /\ AppendTurn(h, "user")
  /\ handler' = [handler EXCEPT ![h] =
       [step |-> "asked", sid |-> @.sid, q |-> @.q, seen |-> @.seen]]
  /\ UNCHANGED <<impatient, generates, tab, restarts>>

\* After the last append the trace is written, which may fail.
AppendAnswer(h) ==
  /\ handler[h].step = "answering"
  /\ AppendTurn(h, "assistant")
  /\ \E outcome \in {"answer", "failed"} : handler' = [handler EXCEPT ![h] = Reply(h, outcome)]
  /\ UNCHANGED <<impatient, generates, tab, restarts>>

\* The server restarts: sessions and handlers are gone, callers are told so.
Restart ==
  /\ restarts < MaxRestarts
  /\ restarts' = restarts + 1
  /\ sessions' = [s \in SessionIds |-> Gone]
  /\ handler' = [h \in Handlers |-> Idle]
  /\ tab' = [t \in Tabs |-> IF tab[t].step = "free" THEN tab[t] ELSE [tab[t] EXCEPT !.step = "free"]]
  /\ UNCHANGED <<impatient, generates>>

-----------------------------------------------------------------------------
Work(h) ==
  \/ Begin(h) \/ SaveCleared(h) \/ SearchFails(h)
  \/ SearchEvidence(h) \/ ModelAnswers(h)
  \/ SearchThread(h) \/ SearchOutside(h)
  \/ SaveMemory(h) \/ CopyFor(h) \/ AppendUser(h) \/ AppendAnswer(h)
  \/ Receive(h)

Next ==
  \/ \E t \in Tabs : Submit(t) \/ OpenSession(t) \/ OpenFails(t) \/ TimesOut(t) \/ NewChat(t)
  \/ \E h \in Handlers : Work(h) \/ \E t \in Tabs : Post(h, t) \/ LeaveOpening(h, t)
  \/ Restart

Spec == Init /\ [][Next]_vars

\* A thread of the server that has work does it; HTTP calls have time limits;
\* a request that was sent is taken up.
Fairness ==
  /\ \A h \in Handlers : WF_vars(Work(h))
  /\ \A t \in Tabs : WF_vars(OpenSession(t) \/ OpenFails(t))
  /\ \A t \in Tabs : WF_vars(\E h \in Handlers : Post(h, t))

FairSpec == Spec /\ Fairness

-----------------------------------------------------------------------------
(* Properties.                                                             *)

Session == [thread : Threads, turns : UNION {[1 .. n -> Turns] : n \in 0 .. MaxTurns},
            heard : SUBSET Questions, focus : {0} \cup Questions]

Underway(h) == handler[h] # Idle

\* Sessions keep at most max_recent_turns turns, and every request in a handler
\* is one its tab has made in a session it has opened.
ChatTypeOK ==
  /\ sessions \in [SessionIds -> Session \cup {Gone}]
  /\ \A t \in Tabs : tab[t].session \in 0 .. tab[t].opened /\ tab[t].q \in 0 .. MaxQuestions
  /\ \A h \in Handlers : Underway(h) =>
       LET t == handler[h].sid[1]
       IN  /\ handler[h].sid[2] \in 1 .. tab[t].opened
           /\ handler[h].q \in 1 .. tab[t].q

\* However requests of one session overlap, its history shows no question and
\* no answer twice, and no question after its answer.
HistoryIsOnce ==
  \A s \in SessionIds : sessions[s] # Gone =>
    \A i, j \in 1 .. Len(sessions[s].turns) : i < j =>
      LET a == sessions[s].turns[i]
          b == sessions[s].turns[j]
      IN  a # b /\ ~(a.q = b.q /\ a.role = "assistant")

\* What a session was before the turn that is being saved into it.
Saving(h, s) == Underway(h) /\ handler[h].sid = s /\ handler[h].step \in {"saved", "copied", "asked", "answering"}
Before(s) ==
  IF \E h \in Handlers : Saving(h, s)
    THEN handler[CHOOSE h \in Handlers : Saving(h, s)].seen
    ELSE sessions[s]

Promise == INSTANCE Conversation WITH
  Ids <- SessionIds, Topics <- Threads,
  talk <- [s \in SessionIds |-> IF s[1] \in impatient THEN Gone ELSE Before(s)]

\* A session whose client waits for its answers is a Conversation, whatever
\* fails and whenever the server restarts or the client starts a new chat.
TurnsAreWhole == Promise!Spec

\* Every request of a tab ends: with an answer, an error, or by giving up.
RequestsEnd == \A t \in Tabs : tab[t].step # "free" ~> tab[t].step = "free"

\* frontend/src/lib/api.ts:247: the session of a tab "is re-created if the
\* backend forgets it": an answer that the session is unknown makes the tab
\* drop it. It does not hold: see chat_restart.
ForgottenIsReplaced ==
  [][\A h \in Handlers, t \in Tabs :
       handler[h].step = "reply" /\ handler'[h] = Idle /\ t \in AwaitedBy(h)
       /\ handler[h].outcome = "unknown" /\ restarts' = restarts
         => tab'[t].session # tab[t].session]_vars
=============================================================================
