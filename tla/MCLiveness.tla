----------------------------- MODULE MCLiveness -----------------------------
(***************************************************************************)
(* Dispatcher and WorkerProtocol under their fairness, each alone: the      *)
(* first state chooses `part', and the variables of the other part keep     *)
(* their initial values.  A property of one part says nothing in the        *)
(* behaviours of the other.                                                *)
(***************************************************************************)
EXTENDS MCDispatcher, WorkerProtocol

VARIABLE part

liveVars == <<part, vars, protocolVars>>

\* A step of a part leaves the other alone.
Dis_(A) == part = "dispatcher" /\ A /\ UNCHANGED <<part, protocolVars>>
Wp_(A)  == part = "protocol" /\ A /\ UNCHANGED <<part, vars>>

LiveInit ==
    /\ part \in {"dispatcher", "protocol"}
    /\ Init /\ ProtocolInit

LiveNext == Dis_(Next) \/ Wp_(ProtocolNext)

\* The conjuncts of the two Fairness definitions, each in the behaviours of its part.
LiveFairness ==
    /\ \A g \in Guis :
        /\ WF_liveVars(Dis_(Dispatch(g))) /\ WF_liveVars(Dis_(Heartbeat(g)))
        /\ WF_liveVars(Dis_(CancelledWorkerStops(g))) /\ WF_liveVars(Dis_(Stop(g)))
        /\ WF_liveVars(Dis_(StartGui(g))) /\ WF_liveVars(Dis_(RestartForRecovery(g)))
        /\ SF_liveVars(Dis_(ActivateRead(g))) /\ SF_liveVars(Dis_(ActivateObserve(g)))
        /\ SF_liveVars(Dis_(ActivateCommit(g)))
    /\ WF_liveVars(Wp_(WorkerMain)) /\ WF_liveVars(Wp_(WorkerControl))
    /\ WF_liveVars(Wp_(ClientReads)) /\ WF_liveVars(Wp_(ClientWrites))
    /\ WF_liveVars(Wp_(Finally))

LiveSpec == LiveInit /\ [][LiveNext]_liveVars /\ LiveFairness
=============================================================================
