--------------------------- MODULE ControlStoreSlots ---------------------------
(***************************************************************************)
(* The store, with all its tables, implements FencedSlots.                 *)
(***************************************************************************)
EXTENDS ControlStore

\* The phase of an operation is read off its status.
PhaseOf(kind, s) ==
    CASE s = "absent"     -> "new"
      [] s \in WAITING    -> "waiting"
      [] s \in ACTIVE     -> "granted"
      [] s # "absent" /\ s \notin WAITING \cup ACTIVE ->
             IF IsFinal(kind, s) THEN "over" ELSE "idle"

Promised ==
    INSTANCE FencedSlots
    WITH SlotNames <- Slots,
         SlotOf    <- [o \in Ops |-> Slot(o)],
         phase     <- [o \in Ops |-> PhaseOf(Kind[o], status[o])],
         holder    <- lease,
         granted   <- [f \in Fences |-> attempts[f].op]

\* The transactions of the store, whoever calls them in whatever order, give out
\* each slot as FencedSlots does: to one operation at a time, under a new token,
\* until that operation has ended or was interrupted (store.py begin_attempt,
\* _release, recover; job_repository.py and setup_repository.py, every method).
KeepsPromise == Promised!Spec
===============================================================================
