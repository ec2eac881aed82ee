----------------------------- MODULE MCDispatcher -----------------------------
(* Instances of Dispatcher: one GUI process that is restarted, and one job.    *)
EXTENDS Dispatcher, TLC

CONSTANTS j1, g1

OneJob    == {j1}
OneGui    == {g1}
NoQuitter == {}

MCKind     == [o \in Ops |-> "job"]

\* Revisions that clients name: none, or those of a job until its launch is journaled.
NoCommands    == [o \in Ops |-> 0]
UntilLaunched == [o \in Ops |-> 3]
===============================================================================
