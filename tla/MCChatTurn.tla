----------------------------- MODULE MCChatTurn -----------------------------
(* Values for TLC: a patient and an impatient tab, two mail threads, and a   *)
(* history one turn shorter than two questions and answers.                  *)
EXTENDS ChatTurn, TLC

CONSTANTS budget, offsite

Alike == Permutations(Handlers)
=============================================================================
