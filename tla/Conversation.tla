---------------------------- MODULE Conversation ----------------------------
(***************************************************************************)
(* What a chat session promises a client that asks one thing at a time: a  *)
(* question either becomes a whole turn, remembered and answered on the    *)
(* history it was asked on, or leaves nothing behind. Switching the thread *)
(* and resetting forget; a restart of the server forgets everything.       *)
(* ChatTurn, which takes eight steps for a turn, implements this.          *)
(***************************************************************************)
EXTENDS Integers, Sequences

CONSTANTS Ids, Topics, Questions, MaxTurns

VARIABLE talk   \* session id -> what the session remembers, or Closed

Closed == [thread |-> "closed"]
Fresh(topic) == [thread |-> topic, turns |-> << >>, heard |-> {}, focus |-> 0]

LastOf(turns) ==
  SubSeq(turns, IF Len(turns) > MaxTurns THEN Len(turns) - MaxTurns + 1 ELSE 1, Len(turns))

Init == talk = [s \in Ids |-> Closed]

Open(s) ==
  /\ talk[s] = Closed
  /\ \E topic \in Topics : talk' = [talk EXCEPT ![s] = Fresh(topic)]

\* The whole turn: the question is new, is heard, and stands before its answer.
Turn(s, q) ==
  /\ talk[s] # Closed /\ q \notin talk[s].heard
  /\ \E focus \in {talk[s].focus, q} :
       talk' = [talk EXCEPT ![s] =
         [thread |-> @.thread,
          turns |-> LastOf(@.turns \o << [role |-> "user", q |-> q], [role |-> "assistant", q |-> q] >>),
          heard |-> @.heard \cup {q},
          focus |-> focus]]

\* switch_thread, and reset when the topic stays.
Clear(s) ==
  /\ talk[s] # Closed
  /\ \E topic \in Topics : talk' = [talk EXCEPT ![s] = Fresh(topic)]

Forget == talk' = [s \in Ids |-> Closed]

Next ==
  \/ \E s \in Ids : Open(s) \/ Clear(s) \/ \E q \in Questions : Turn(s, q)
  \/ Forget

Spec == Init /\ [][Next]_talk
=============================================================================
