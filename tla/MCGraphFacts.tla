---------------------------- MODULE MCGraphFacts ----------------------------
(* Values for TLC: two mails about one budget. The second corrects the      *)
(* first, and a later version of its text has no cue.                       *)
EXTENDS GraphFacts, TLC

CONSTANTS c1, c2, budget

NoReply == [c \in Chunks |-> NoParent]
SecondChanges == [c \in Chunks |-> IF c = c2 THEN MaxText ELSE 1]
SecondCorrects == [c \in Chunks |-> [t \in 1 .. MaxText |-> [key |-> budget, cue |-> c = c2 /\ t = 1]]]
Alike == Permutations(Workers) \cup Permutations(Ingesters)
=============================================================================
