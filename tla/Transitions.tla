------------------------------ MODULE Transitions ------------------------------
(***************************************************************************)
(* The kind-specific status tables of the control store                    *)
(* (src/src/utteran_control/transitions.py).  A table is the set of its    *)
(* <<current, target>> rows; what the code looks up with check() is        *)
(* membership of such a row.                                               *)
(***************************************************************************)

Kinds == {"job", "setup_operation", "refresh_operation"}

Statuses == {"queued", "held", "blocked", "running", "cancelling", "waiting_user",
             "succeeded", "failed", "cancelled", "interrupted"}

TERMINAL == {"succeeded", "failed", "cancelled"}
ACTIVE   == {"running", "cancelling"}
WAITING  == {"queued", "held", "blocked"}

JobRows ==
    ({"queued"} \X {"held", "blocked", "cancelled", "running"})
        \cup ({"held"} \X {"queued", "cancelled"})
        \cup ({"blocked"} \X {"queued", "held", "cancelled"})
        \cup ({"running"} \X {"cancelling", "succeeded", "failed", "interrupted"})
        \cup ({"cancelling"} \X {"cancelled", "failed", "interrupted"})

SetupRows ==
    ({"queued"} \X {"cancelled", "running"})
        \cup ({"running"} \X {"waiting_user", "cancelling", "succeeded", "failed", "interrupted"})
        \cup ({"waiting_user", "interrupted"} \X {"queued", "cancelled"})
        \cup ({"cancelling"} \X {"cancelled", "interrupted"})

RefreshRows ==
    ({"queued"} \X {"cancelled", "running"})
        \cup ({"running"} \X {"cancelling", "succeeded", "failed", "interrupted"})
        \cup ({"cancelling"} \X {"cancelled", "interrupted"})

TRANSITIONS(kind) ==
    CASE kind = "job"               -> JobRows
      [] kind = "setup_operation"   -> SetupRows
      [] kind = "refresh_operation" -> RefreshRows

Check(kind, current, target) == <<current, target>> \in TRANSITIONS(kind)

QUEUED_KINDS == {"job", "setup_operation"}
Slots        == {"heavy", "refresh"}
SLOT(kind)   == IF kind \in QUEUED_KINDS THEN "heavy" ELSE "refresh"

IsFinal(kind, status) == \A target \in Statuses : ~Check(kind, status, target)
================================================================================
