-------------------------- MODULE MCAttachmentJobs --------------------------
(* Values for TLC: one message with one PDF.                               *)
EXTENDS AttachmentJobs, TLC

CONSTANTS m1, a1

OneEach == [a \in Attachments |-> m1]
Alike == Permutations(Workers)
=============================================================================
