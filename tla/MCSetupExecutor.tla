---------------------------- MODULE MCSetupExecutor ----------------------------
(* One GUI process, restarted at will, one plan with one approval, a setup and *)
(* its retry.                                                                  *)
EXTENDS SetupExecutor, TLC

CONSTANTS s1, s2, g1, g2, p1, a1

OneSetup  == {s1}
TwoSetups == {s1, s2}
OneGui    == {g1}
TwoGuis   == {g1, g2}
NoQuitter == {}
OnePlan   == {p1}
OneApproval == {a1}

MCKind == [o \in Ops |-> "setup_operation"]

\* Revisions that clients name: of the first setup those up to the end of its
\* first step begins, of its retry the one with which it waits.
Early == [o \in Ops |-> IF o = s1 THEN 4 ELSE 1]

\* Those of the only setup until its first step has started.
UntilStarted == [o \in Ops |-> 3]
===============================================================================
