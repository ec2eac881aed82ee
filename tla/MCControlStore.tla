---------------------------- MODULE MCControlStore ----------------------------
(* A job and a setup operation that compete for the heavy slot, and a second  *)
(* job that no client commands but which is submitted, retried into,          *)
(* reordered, held and recovered around them.                                 *)
EXTENDS ControlStoreSlots, TLC

CONSTANTS j1, j2, s1

MCOps         == {j1, j2, s1}
MCKind        == [o \in MCOps |-> IF o = s1 THEN "setup_operation" ELSE "job"]
MCMaxRevision == [o \in MCOps |-> IF o = j2 THEN 0 ELSE 3]
===============================================================================
