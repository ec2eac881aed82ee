------------------------------ MODULE MCRuntimes ------------------------------
(***************************************************************************)
(* Two GUI processes on one store; the first state chooses `part'.  In     *)
(* "takeover" two jobs are submitted and left alone by their users.  In    *)
(* "stop" there is one job with all its commands, and users deactivate the *)
(* runtime.                                                                *)
(***************************************************************************)
EXTENDS Dispatcher, TLC

CONSTANTS j1, j2, g1, g2

VARIABLE part

MCKind   == [o \in Ops |-> "job"]
Symmetry == Permutations(Guis)

\* The revisions that commands name are those of a job until its launch is journaled.
UntilLaunched == [o \in Ops |-> 3]

RuntimesInit == part \in {"takeover", "stop"} /\ Init

\* Commands do nothing to a job that is there.
JobsLeftAlone ==
    \A o \in Ops : status[o] # "absent" =>
        status'[o] = status[o] /\ revision'[o] = revision[o] /\ item'[o] = item[o]

RuntimesNext ==
    /\ UNCHANGED part
    /\ \/ part = "takeover" /\ Command /\ JobsLeftAlone
       \/ part = "takeover" /\ GuiStep /\ UNCHANGED stopper
       \/ part = "takeover" /\ \E f \in workers : WorkerExits(f)
       \/ part = "stop" /\ Next /\ status'[j2] = "absent"

RuntimesSpec == RuntimesInit /\ [][RuntimesNext]_<<part, vars>>
===============================================================================
