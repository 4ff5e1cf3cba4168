---------------------------- MODULE MCContextJobs ----------------------------
(* Values for TLC: a message and a reply to it, one chunk each.            *)
EXTENDS ContextJobs, TLC

CONSTANTS m1, m2, c1, c2

OneEach == [c \in Chunks |-> IF c = c1 THEN m1 ELSE m2]
Reply == [m \in Messages |-> IF m = m2 THEN m1 ELSE NoMessage]
Alike == Permutations(Workers)
=============================================================================
