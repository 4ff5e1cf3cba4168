---------------------------- MODULE MCGmailSync ----------------------------
(* Values for TLC: a mailbox that holds one message when it is connected.  *)
EXTENDS GmailSync, TLC

CONSTANTS m1, m2

OneMessage == <<[kind |-> "add", msg |-> m1]>>
NoMail == << >>

\* The workers are alike.
AnyWorker == Permutations(Workers)

\* Bound: a worker dies or outlives its lease, once.
OneFault == crashes + overruns <= 1
=============================================================================
