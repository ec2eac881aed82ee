------------------------------ MODULE SetupProofs ------------------------------
(***************************************************************************)
(* Theorems of SetupExecutor, for any number of GUI processes, operations, *)
(* plans, approvals and children, any crashes and any observations of the  *)
(* operating system.  First that approvals are used once; then the slot,   *)
(* the children and the journal.                                           *)
(*                                                                         *)
(* The invariant of DispatcherProofs also holds of the setup half of the   *)
(* thread; what is about the children comes on top of it.                  *)
(***************************************************************************)
EXTENDS SetupExecutor, DispatcherProofs

-------------------------------------------------------------------------------
(* The inductive invariant *)

MachineTypes == [profile : {"absent", "broken", "ok"}, model : {"absent", "partial", "complete"},
                 credential : BOOLEAN]

PlanTypes == [state : PlanStates, revision : Nat, seen : Fingerprints \cup {Unseen},
              steps : {<<>>} \cup {PlanSteps(m) : m \in MachineTypes}, expired : BOOLEAN]

ApprovalTypes == [plan : Plans \cup {NoId}, revision : Nat, op : Ops \cup {NoId},
                  expired : BOOLEAN]

LinkTypes == [plan : Plans \cup {NoId}, approval : Approvals \cup {NoId},
              retryOf : Ops \cup {NoId}]

StatusTypes == [Ops -> Statuses \cup {"absent"}]

Shapes ==
    /\ machine \in MachineTypes
    /\ plan \in [Plans -> PlanTypes]
    /\ approval \in [Approvals -> ApprovalTypes]
    /\ link \in [Ops -> LinkTypes]
    /\ status \in StatusTypes

\* An operation has a link only once its row exists, and the link names a plan
\* and an approval; only operations that exist are retried.
LinksAreOfOperations ==
    \A o \in Ops : IsSetup(o) =>
        /\ status[o] # "absent"
        /\ link[o].plan \in Plans /\ link[o].approval \in Approvals
        /\ link[o].retryOf # NoId => link[o].retryOf \in Ops /\ IsSetup(link[o].retryOf)

SetupInv == Shapes /\ LinksAreOfOperations /\ ApprovalIsOneUse

-------------------------------------------------------------------------------
(* Steps that leave plans, approvals and links alone *)

\* No operation loses its row.
RowsStay ==
    /\ status' \in StatusTypes
    /\ \A o \in Ops : status[o] # "absent" => status'[o] # "absent"

LEMMA RowsUnchanged == ASSUME Shapes, status' = status PROVE RowsStay
  BY DEF Shapes, RowsStay

LEMMA RecordKeepsRows ==
    ASSUME Shapes, NEW o, NEW new, NEW newFlag, Record(o, new, newFlag),
           new \in Statuses \/ (new = status[o] /\ o \in Ops)
    PROVE  RowsStay
  <1>1. status' = [status EXCEPT ![o] = new] /\ status \in StatusTypes
    BY DEF Record, Shapes
  <1>2. "absent" \notin Statuses
    BY DEF Statuses
  <1>3. CASE o \notin Ops
    BY <1>1, <1>3 DEF RowsStay, StatusTypes
  <1>4. CASE o \in Ops
    BY <1>1, <1>2, <1>4 DEF RowsStay, StatusTypes
  <1> QED
    BY <1>3, <1>4

LEMMA InvariantKept ==
    ASSUME SetupInv, machine' \in MachineTypes, UNCHANGED <<plan, approval, link>>, RowsStay
    PROVE  SetupInv'
  <1>1. Shapes'
    BY DEF SetupInv, Shapes, RowsStay
  <1>2. LinksAreOfOperations'
    BY DEF SetupInv, Shapes, RowsStay, LinksAreOfOperations, IsSetup
  <1>3. ApprovalIsOneUse'
    BY DEF SetupInv, ApprovalIsOneUse, IsSetup
  <1> QED
    BY <1>1, <1>2, <1>3 DEF SetupInv

\* The statuses that the transactions record.
LEMMA RecordedStatuses ==
    /\ {"queued", "held", "blocked", "running", "cancelling", "waiting_user", "succeeded",
        "failed", "cancelled", "interrupted"} \subseteq Statuses
    /\ \A o, outcome : FinishTarget(o, outcome) \in Statuses
    /\ \A o, outcome : SetupTarget(o, outcome) \in Statuses
  BY DEF Statuses, FinishTarget, SetupTarget

\* The commands of the jobs API.
LEMMA CommandKeepsRows == ASSUME Shapes, Command PROVE RowsStay
  <1> USE RecordedStatuses, RecordKeepsRows
  <1>1. ASSUME NEW rank, AcceptBatch(rank) PROVE RowsStay
    BY <1>1 DEF AcceptBatch, RowsStay, StatusTypes, Shapes
  <1>2. ASSUME NEW o \in Ops, NEW expected, CancelJob(o, expected) PROVE RowsStay
    <2>1. Record(o, "cancelled", "none") \/ Record(o, "cancelling", "none")
      BY <1>2 DEF CancelJob
    <2> QED
      BY <2>1
  <1>3. ASSUME NEW o \in Ops, NEW expected, Revalidated(o, expected) PROVE RowsStay
    <2>1. Record(o, "held", "none") \/ Record(o, "queued", "none")
      BY <1>3 DEF Revalidated
    <2> QED
      BY <2>1
  <1>4. ASSUME NEW o \in Ops, NEW held, HoldChange(o, held) PROVE RowsStay
    <2>1. \/ Record(o, "held", "none") \/ Record(o, "queued", "none")
          \/ Record(o, status[o], "none")
      BY <1>4 DEF HoldChange
    <2> QED
      BY <1>4, <2>1
  <1>5. ASSUME JobCommand PROVE RowsStay
    BY <1>1, <1>2, <1>3, <1>5 DEF JobCommand, RetryJob
  <1>6. ASSUME QueueCommand PROVE RowsStay
    <2>1. CASE status' = status
      BY <2>1, RowsUnchanged
    <2>2. CASE \E o \in Ops, held \in BOOLEAN : HoldChange(o, held)
      BY <2>2, <1>4
    <2> QED
      BY <1>6, <2>1, <2>2 DEF QueueCommand, SetItemHold, SetDispatch, Reorder, opVars
  <1> QED
    BY <1>5, <1>6 DEF Command

\* The transactions of the threads, of recovery and of the stopping.
LEMMA ThreadCommitsKeepRows ==
    ASSUME Shapes, NEW g \in Guis,
           \/ ActivateCommit(g) \/ PrestartFails(g) \/ Begin(g) \/ ConfirmLaunch(g)
           \/ RecordNoWorker(g) \/ Flag(g) \/ Finish(g) \/ StopCancel(g)
    PROVE  RowsStay
  <1> USE RecordedStatuses, RecordKeepsRows
  <1>1. ASSUME NEW o, NEW newFlag, Record(o, status[o], newFlag) PROVE RowsStay
    <2>1. CASE o \in Ops
      BY <1>1, <2>1
    <2>2. CASE o \notin Ops
      BY <1>1, <2>2 DEF Record, Shapes, RowsStay, StatusTypes
    <2> QED
      BY <2>1, <2>2
  <1>2. CASE UNCHANGED storeVars
    BY <1>2, RowsUnchanged DEF storeVars, opVars
  <1>3. CASE ActivateCommit(g)
    <2>1. PICK decisions : Recover(decisions)
      BY <1>3 DEF ActivateCommit
    <2> QED
      BY <2>1 DEF Recover, RowsStay, StatusTypes, Shapes
  <1>4. CASE PrestartFails(g)
    <2>1. UNCHANGED storeVars \/ Record(loop[g].job, "blocked", "none")
      BY <1>4 DEF PrestartFails, BlockJob
    <2> QED
      BY <1>2, <2>1
  <1>5. CASE Begin(g)
    <2>1. Record(loop[g].job, "running", "none")
      BY <1>5 DEF Begin, BeginAttempt
    <2> QED
      BY <2>1
  <1>6. CASE ConfirmLaunch(g) \/ RecordNoWorker(g)
    <2>1. \/ UNCHANGED storeVars
          \/ Record(loop[g].job, status[loop[g].job], flag[loop[g].job])
      BY <1>6 DEF ConfirmLaunch, RecordNoWorker, RecordLaunch
    <2> QED
      BY <1>1, <1>2, <2>1
  <1>7. CASE Flag(g)
    <2>1. \/ UNCHANGED storeVars
          \/ Record(loop[g].job, status[loop[g].job], "termination_failed")
      BY <1>7 DEF Flag, FlagUnconfirmed
    <2> QED
      BY <1>1, <1>2, <2>1
  <1>8. CASE Finish(g)
    <2>1. PICK outcome : Record(loop[g].job, FinishTarget(loop[g].job, outcome), "none")
      BY <1>8 DEF Finish, FinishAttempt
    <2> QED
      BY <2>1
  <1>9. CASE StopCancel(g)
    <2>1. UNCHANGED storeVars \/ Record(attempts[stopper[g].fence].op, "cancelling", "none")
      BY <1>9 DEF StopCancel, Transition
    <2> QED
      BY <1>2, <2>1
  <1> QED
    BY <1>3, <1>4, <1>5, <1>6, <1>7, <1>8, <1>9

LEMMA ProcessStepKeeps == ASSUME SetupInv, ProcessStep PROVE SetupInv'
  <1>1. /\ machine' \in MachineTypes /\ UNCHANGED <<plan, approval, link>> /\ Shapes
    BY DEF ProcessStep, setupVars, worldVars, SetupInv, Shapes
  <1>2. RowsStay
    <2>1. CASE Command
      BY <1>1, <2>1, CommandKeepsRows
    <2>2. CASE UNCHANGED storeVars
      BY <1>1, <2>2, RowsUnchanged DEF storeVars, opVars
    <2>3. ASSUME NEW g \in Guis,
                 \/ ActivateCommit(g) \/ PrestartFails(g) \/ Begin(g) \/ ConfirmLaunch(g)
                 \/ RecordNoWorker(g) \/ Flag(g) \/ Finish(g) \/ StopCancel(g)
          PROVE  RowsStay
      BY <1>1, <2>3, ThreadCommitsKeepRows
    <2>4. ASSUME NEW g \in Guis,
                 \/ ActivateRead(g) \/ ObserveChild(g) \/ ActivateFails(g)
                 \/ Pick(g) \/ LoopEnds(g) \/ BeginRefused(g) \/ PublishActive(g)
                 \/ Spawn(g) \/ SpawnFails(g) \/ ConfirmLaunchFails(g)
                 \/ SendCancel(g) \/ WorkerAnswered(g) \/ GiveUp(g) \/ Kill(g)
                 \/ DeferReport(g) \/ Heartbeat(g)
                 \/ StopBegin(g) \/ StopRead(g) \/ StopJoined(g) \/ StopTimesOut(g)
                 \/ Crash(g) \/ StartGui(g)
          PROVE  UNCHANGED storeVars
      BY <2>4 DEF ActivateRead, ObserveChild, ObserveWith, ActivateFails, Pick, LoopEnds, BeginRefused,
                  PublishActive, Spawn, SpawnFails, ConfirmLaunchFails, SendCancel,
                  WorkerAnswered, GiveUp, Kill, DeferReport, Heartbeat, Beat, Local,
                  StopBegin, StopRead, StopJoined, StopTimesOut, Crash, StartGui
    <2>5. ASSUME NEW f, WorkerExits(f) PROVE UNCHANGED storeVars
      BY <2>5 DEF WorkerExits
    <2>6. ASSUME NEW g \in Guis, ObserveChild(g) \/ OwnStep(g) PROVE RowsStay
      BY <2>2, <2>3, <2>4, <2>6 DEF OwnStep
    <2> QED
      BY <2>1, <2>2, <2>5, <2>6 DEF ProcessStep
  <1> QED
    BY <1>1, <1>2, InvariantKept

LEMMA WorldKeeps == ASSUME SetupInv, World PROVE SetupInv'
  <1>1. UNCHANGED <<vars, setupVars>> \/ \E f : ChildExits(f)
    BY DEF World, Drift, ChildWorks, DescendantsExit
  <1>2. UNCHANGED <<plan, approval, link>> /\ status' = status
    BY <1>1 DEF ChildExits, WorkerExits, setupVars, vars, storeVars, opVars
  <1>3. machine' \in MachineTypes
    BY DEF World, Drift, ChildWorks, ChildExits, DescendantsExit, SetupInv, Shapes, MachineTypes
  <1> QED
    BY <1>2, <1>3, RowsUnchanged, InvariantKept DEF SetupInv

\* The transactions of the thread that runs a setup.
LEMMA ThreadKeeps == ASSUME SetupInv, SetupStep PROVE SetupInv'
  <1> USE RecordedStatuses, RecordKeepsRows
  <1>1. Shapes
    BY DEF SetupInv
  <1>2. PICK g \in Guis : \/ SetupThread(g) \/ ChildUnconfirmed(g) \/ BookkeepingFails(g)
                          \/ DeferSetup(g) \/ SetupHeartbeat(g) \/ SetupStopTimesOut(g)
    BY DEF SetupStep
  <1> DEFINE Keeps == UNCHANGED <<machine, plan, approval, link>> /\ RowsStay
  <1> SUFFICES Keeps
    BY <1>1, InvariantKept DEF Shapes
  <1>3. ASSUME NEW o, NEW newFlag, Record(o, status[o], newFlag) PROVE RowsStay
    <2>1. CASE o \in Ops
      BY <1>1, <1>3, <2>1
    <2>2. CASE o \notin Ops
      BY <1>1, <1>3, <2>2 DEF Record, Shapes, RowsStay, StatusTypes
    <2> QED
      BY <2>1, <2>2
  <1>4. ASSUME UNCHANGED <<storeVars, machine, plan, approval, link>> PROVE Keeps
    BY <1>1, <1>4, RowsUnchanged DEF storeVars, opVars
  <1>5. ASSUME NEW next, NEW x, SetupLocal(g, next, x) PROVE Keeps
    BY <1>4, <1>5 DEF SetupLocal, Local, setupVars, worldVars
  <1>6. ASSUME NEW o, NEW target \in Statuses, NEW seen, FinishCommon(o, target, seen)
        PROVE  UNCHANGED <<plan, approval, link>> /\ RowsStay
    <2>1. Record(o, target, "none")
      BY <1>6 DEF FinishCommon
    <2> QED
      BY <1>1, <1>6, <2>1 DEF FinishCommon
  <1>7. ASSUME NEW o, NEW fence, NEW seen, SetupWait(o, fence, seen)
        PROVE  UNCHANGED <<plan, approval, link>> /\ RowsStay
    <2>1. FinishCommon(o, "cancelled", seen) \/ FinishCommon(o, "waiting_user", seen)
      BY <1>7 DEF SetupWait
    <2> QED
      BY <1>6, <2>1
  <1>8. ASSUME NEW o, NEW fence, NEW outcome, NEW seen, FinishSetup(o, fence, outcome, seen)
        PROVE  UNCHANGED <<plan, approval, link>> /\ RowsStay
    <2>1. FinishCommon(o, SetupTarget(o, outcome), seen)
      BY <1>8 DEF FinishSetup
    <2> QED
      BY <1>6, <2>1
  <1>9. ASSUME \/ PickSetup(g) \/ ObservePlan(g) \/ BeginSetupRefused(g) \/ PublishRun(g)
               \/ Boundary(g) \/ StepRefused(g) \/ ChildBoundary(g) \/ ChildEnded(g)
               \/ ChildUnconfirmed(g) \/ BookkeepingFails(g) \/ DeferSetup(g)
        PROVE  Keeps
    <2>1. \E next, x : SetupLocal(g, next, x)
      BY <1>9 DEF PickSetup, ObservePlan, BeginSetupRefused, PublishRun, Boundary, StepRefused,
                  ChildBoundary, ChildEnded, ChildUnconfirmed, BookkeepingFails, DeferSetup, Close
    <2> QED
      BY <1>5, <2>1
  <1>10. CASE SpawnChild(g) \/ KillChild(g) \/ SetupHeartbeat(g) \/ SetupStopTimesOut(g)
    BY <1>4, <1>10 DEF SpawnChild, KillChild, SetupHeartbeat, SetupStopTimesOut, Beat, Local,
                       setupVars, worldVars
  <1>11. CASE BeginSetup(g)
    <2>1. Record(Job(g), "running", "none") /\ UNCHANGED <<setupVars, worldVars>>
      BY <1>11 DEF BeginSetup, BeginAttempt
    <2> QED
      BY <1>1, <2>1 DEF setupVars, worldVars
  <1>12. CASE \/ Intend(g) \/ SpawnChildFails(g) \/ ConfirmChild(g) \/ Reset(g)
    <2>1. UNCHANGED <<status, machine, plan, approval, link>>
      BY <1>12 DEF Intend, SpawnChildFails, ConfirmChild, Reset, ChildIntent, StepLaunched,
                   ResetSteps, SetupCommit, setupVars, worldVars, storeVars, opVars
    <2> QED
      BY <1>1, <2>1, RowsUnchanged
  <1>13. CASE StartStep(g)
    <2>1. /\ Record(Job(g), status[Job(g)], flag[Job(g)])
          /\ UNCHANGED <<machine, plan, approval, link>>
      BY <1>13 DEF StartStep, StepStarted, SetupCommit, worldVars
    <2> QED
      BY <1>3, <2>1
  <1>14. CASE FinishStep(g)
    <2>1. /\ Record(Job(g), status[Job(g)], flag[Job(g)])
          /\ UNCHANGED <<plan, approval, link>>
      BY <1>14 DEF FinishStep, StepFinished
    <2>2. UNCHANGED machine
      BY <1>14 DEF FinishStep, SetupCommit, worldVars
    <2> QED
      BY <1>3, <2>1, <2>2
  <1>15. CASE WaitOutdated(g)
    <2>1. SetupWait(Job(g), Fence(g), Unseen) /\ UNCHANGED machine
      BY <1>15 DEF WaitOutdated, SetupCommit, worldVars
    <2> QED
      BY <1>7, <2>1
  <1>16. CASE Report(g)
    <2>1. UNCHANGED machine
      BY <1>16 DEF Report, SetupCommit, worldVars
    <2>2. \/ FlagSetupUnconfirmed(Job(g), Fence(g))
          \/ UNCHANGED <<storeVars, setupVars>>
          \/ SetupWait(Job(g), Fence(g), Fingerprint(machine))
          \/ FinishSetup(Job(g), Fence(g), loop[g].outcome, Fingerprint(machine))
      BY <1>16 DEF Report
    <2>3. CASE FlagSetupUnconfirmed(Job(g), Fence(g))
      <3>1. /\ Record(Job(g), status[Job(g)], "termination_failed")
            /\ UNCHANGED <<plan, approval, link>>
        BY <2>3 DEF FlagSetupUnconfirmed, FlagUnconfirmed, setupVars
      <3> QED
        BY <1>3, <2>1, <3>1
    <2>4. CASE UNCHANGED <<storeVars, setupVars>>
      BY <1>4, <2>1, <2>4 DEF setupVars
    <2> QED
      BY <1>7, <1>8, <2>1, <2>2, <2>3, <2>4
  <1> QED
    BY <1>2, <1>9, <1>10, <1>11, <1>12, <1>13, <1>14, <1>15, <1>16 DEF SetupThread

-------------------------------------------------------------------------------
(* The commands of the setup API *)

\* The fingerprint and the steps of a plan have their types.
LEMMA PlanningTypes ==
    ASSUME Shapes
    PROVE  /\ Fingerprint(machine) \in Fingerprints
           /\ PlanSteps(machine) \in {PlanSteps(m) : m \in MachineTypes}
  BY DEF Shapes, MachineTypes, Fingerprint, Fingerprints

LEMMA PlanCommandsKeep ==
    ASSUME SetupInv, UNCHANGED machine,
           NEW p \in Plans,
           \/ CreatePlan(p, machine) \/ PlanExpires(p)
           \/ \E expected \in 1..3 : DiscardPlan(p, expected)
    PROVE  SetupInv'
  <1>1. Shapes /\ LinksAreOfOperations /\ ApprovalIsOneUse
    BY DEF SetupInv
  <1>2. status' = status /\ link' = link
    BY DEF CreatePlan, PlanExpires, DiscardPlan, storeVars, opVars
  <1>3. plan[p].state # "consumed" /\ \A q \in Plans : q # p => plan'[q] = plan[q]
    BY <1>1 DEF CreatePlan, PlanExpires, DiscardPlan, Shapes
  <1>4. \A a \in Approvals : approval'[a].plan = approval[a].plan /\ approval'[a].op = approval[a].op
    BY <1>1 DEF CreatePlan, PlanExpires, DiscardPlan, Shapes, ApprovalTypes
  <1>5. plan' \in [Plans -> PlanTypes]
    <2>1. CASE CreatePlan(p, machine)
      BY <1>1, <2>1, PlanningTypes DEF CreatePlan, NoPlan, Shapes, PlanTypes, PlanStates
    <2>2. CASE PlanExpires(p)
      BY <1>1, <2>2 DEF PlanExpires, Shapes, PlanTypes
    <2>3. CASE \E expected \in 1..3 : DiscardPlan(p, expected)
      BY <1>1, <2>3 DEF DiscardPlan, Shapes, PlanTypes, PlanStates
    <2> QED
      BY <2>1, <2>2, <2>3
  <1>6. approval' \in [Approvals -> ApprovalTypes]
    <2>1. CASE CreatePlan(p, machine) \/ \E expected \in 1..3 : DiscardPlan(p, expected)
      BY <1>1, <2>1 DEF CreatePlan, DiscardPlan, Shapes
    <2>2. CASE PlanExpires(p)
      BY <1>1, <2>2 DEF PlanExpires, Shapes, ApprovalTypes
    <2> QED
      BY <2>1, <2>2
  <1>7. Shapes'
    BY <1>1, <1>2, <1>5, <1>6 DEF Shapes
  <1>8. LinksAreOfOperations'
    BY <1>1, <1>2 DEF LinksAreOfOperations, IsSetup
  <1>9. ApprovalIsOneUse'
    <2> SUFFICES ASSUME NEW o \in Ops, IsSetup(o)'
                 PROVE  /\ plan'[link[o].plan].state = "consumed"
                        /\ approval'[link[o].approval].plan = link[o].plan
                        /\ link[o].retryOf = NoId => approval'[link[o].approval].op = o
                        /\ link[o].retryOf # NoId =>
                              link[link[o].retryOf].approval = link[o].approval
      BY <1>2 DEF ApprovalIsOneUse
    <2>1. IsSetup(o)
      BY <1>2 DEF IsSetup
    <2>2. link[o].plan \in Plans /\ link[o].approval \in Approvals
      BY <1>1, <2>1 DEF LinksAreOfOperations
    <2> QED
      BY <1>1, <1>3, <1>4, <2>1, <2>2 DEF ApprovalIsOneUse
  <1> QED
    BY <1>7, <1>8, <1>9 DEF SetupInv

LEMMA ApprovalCommandsKeep ==
    ASSUME SetupInv, UNCHANGED machine, NEW a \in Approvals,
           \/ ApprovalExpires(a)
           \/ \E p \in Plans, expected \in 1..3 : ApprovePlan(p, expected, a, machine)
    PROVE  SetupInv'
  <1>1. Shapes /\ LinksAreOfOperations /\ ApprovalIsOneUse
    BY DEF SetupInv
  <1>2. status' = status /\ link' = link
    BY DEF ApprovalExpires, ApprovePlan, storeVars, opVars
  <1>3. plan' \in [Plans -> PlanTypes]
    <2>1. CASE ApprovalExpires(a)
      BY <1>1, <2>1 DEF ApprovalExpires, Shapes
    <2>2. ASSUME NEW p \in Plans, NEW expected \in 1..3, ApprovePlan(p, expected, a, machine)
          PROVE  plan' \in [Plans -> PlanTypes]
      <3>1. plan[p] \in PlanTypes
        BY <1>1 DEF Shapes
      <3>2. [plan[p] EXCEPT !.state = "approved", !.revision = @ + 1] \in PlanTypes
        <4>1. /\ plan[p].revision + 1 \in Nat /\ "approved" \in PlanStates
              /\ plan[p] = [state |-> plan[p].state, revision |-> plan[p].revision,
                            seen |-> plan[p].seen, steps |-> plan[p].steps,
                            expired |-> plan[p].expired]
          BY <3>1 DEF PlanTypes, PlanStates
        <4> QED
          BY <3>1, <4>1 DEF PlanTypes
      <3>3. plan' = [plan EXCEPT ![p] = [plan[p] EXCEPT !.state = "approved", !.revision = @ + 1]]
        BY <2>2 DEF ApprovePlan
      <3> QED
        BY <1>1, <3>2, <3>3 DEF Shapes
    <2> QED
      BY <2>1, <2>2
  <1>4. approval' \in [Approvals -> ApprovalTypes]
    <2>1. CASE ApprovalExpires(a)
      BY <1>1, <2>1 DEF ApprovalExpires, Shapes, ApprovalTypes
    <2>2. ASSUME NEW p \in Plans, NEW expected \in 1..3, ApprovePlan(p, expected, a, machine)
          PROVE  approval' \in [Approvals -> ApprovalTypes]
      <3>1. [plan |-> p, revision |-> expected + 1, op |-> NoId, expired |-> FALSE]
            \in ApprovalTypes
        BY DEF ApprovalTypes
      <3>2. approval' = [approval EXCEPT ![a] =
                [plan |-> p, revision |-> expected + 1, op |-> NoId, expired |-> FALSE]]
        BY <2>2 DEF ApprovePlan
      <3> QED
        BY <1>1, <3>1, <3>2 DEF Shapes
    <2> QED
      BY <2>1, <2>2
  <1>5. \A p \in Plans : plan[p].state = "consumed" => plan'[p].state = "consumed"
    BY <1>1 DEF ApprovalExpires, ApprovePlan, Shapes
  <1>6. \A b \in Approvals : approval[b].plan # NoId =>
            approval'[b].plan = approval[b].plan /\ approval'[b].op = approval[b].op
    <2>1. CASE ApprovalExpires(a)
      BY <1>1, <2>1 DEF ApprovalExpires, Shapes, ApprovalTypes
    <2>2. ASSUME NEW p \in Plans, NEW expected \in 1..3, ApprovePlan(p, expected, a, machine)
          PROVE  /\ approval[a].plan = NoId
                 /\ \A b \in Approvals : b # a => approval'[b] = approval[b]
      BY <1>1, <2>2 DEF ApprovePlan, Shapes
    <2> QED
      BY <2>1, <2>2
  <1>7. Shapes'
    BY <1>1, <1>2, <1>3, <1>4 DEF Shapes
  <1>8. LinksAreOfOperations'
    BY <1>1, <1>2 DEF LinksAreOfOperations, IsSetup
  <1>9. ApprovalIsOneUse'
    <2> SUFFICES ASSUME NEW o \in Ops, IsSetup(o)'
                 PROVE  /\ plan'[link[o].plan].state = "consumed"
                        /\ approval'[link[o].approval].plan = link[o].plan
                        /\ link[o].retryOf = NoId => approval'[link[o].approval].op = o
                        /\ link[o].retryOf # NoId =>
                              link[link[o].retryOf].approval = link[o].approval
      BY <1>2 DEF ApprovalIsOneUse
    <2>1. IsSetup(o)
      BY <1>2 DEF IsSetup
    <2>2. link[o].plan \in Plans /\ link[o].approval \in Approvals /\ NoId \notin Plans
      BY <1>1, <2>1, SetupAssumption DEF LinksAreOfOperations
    <2> QED
      BY <1>1, <1>5, <1>6, <2>1, <2>2 DEF ApprovalIsOneUse
  <1> QED
    BY <1>7, <1>8, <1>9 DEF SetupInv

\* A new setup, by an approval nothing has used or as the retry of another.
LEMMA InsertKeeps ==
    ASSUME SetupInv, UNCHANGED machine,
           NEW o \in Ops, NEW p \in Plans, NEW a \in Approvals, NEW source,
           InsertSetup(o, p, a, source),
           plan' \in [Plans -> PlanTypes], approval' \in [Approvals -> ApprovalTypes],
           plan'[p].state = "consumed", approval'[a].plan = p,
           \A q \in Plans : plan[q].state = "consumed" => plan'[q].state = "consumed",
           \A b \in Approvals : approval'[b].plan = approval[b].plan,
           \/ /\ source = NoId /\ approval'[a].op = o
              /\ \A b \in Approvals : approval[b].op # NoId => approval'[b].op = approval[b].op
           \/ /\ source \in Ops /\ IsSetup(source) /\ link[source].approval = a
              /\ approval' = approval
    PROVE  SetupInv'
  <1>1. Shapes /\ LinksAreOfOperations /\ ApprovalIsOneUse
    BY DEF SetupInv
  <1>2. status[o] = "absent" /\ Record(o, "queued", "none") /\ ~IsSetup(o)
    BY <1>1 DEF InsertSetup, StartOperation, LinksAreOfOperations
  <1>3. RowsStay /\ status'[o] # "absent"
    BY <1>1, <1>2, RecordKeepsRows, RecordedStatuses DEF Record, Shapes, StatusTypes
  <1>4. link' = [link EXCEPT ![o] = [plan |-> p, approval |-> a, retryOf |-> source]]
    BY DEF InsertSetup
  <1>5. source \in Ops \cup {NoId} /\ NoId \notin Ops /\ NoId \notin Plans /\ source # o
    BY <1>2, SetupAssumption
  <1>6. link' \in [Ops -> LinkTypes]
    BY <1>1, <1>4, <1>5 DEF Shapes, LinkTypes
  <1>7. /\ link'[o].plan = p /\ link'[o].approval = a /\ link'[o].retryOf = source
        /\ \A x \in Ops : x # o => link'[x] = link[x]
    BY <1>1, <1>4 DEF Shapes
  <1>8. Shapes'
    BY <1>1, <1>3, <1>6 DEF Shapes, RowsStay
  <1>9. LinksAreOfOperations'
    <2> SUFFICES ASSUME NEW x \in Ops, IsSetup(x)'
                 PROVE  /\ status'[x] # "absent"
                        /\ link'[x].plan \in Plans /\ link'[x].approval \in Approvals
                        /\ link'[x].retryOf # NoId =>
                              link'[x].retryOf \in Ops /\ IsSetup(link[x].retryOf)'
      BY <1>4, <1>7 DEF LinksAreOfOperations, IsSetup
    <2>1. CASE x = o
      BY <1>3, <1>5, <1>7, <2>1 DEF IsSetup
    <2>2. CASE x # o
      <3>1. IsSetup(x)
        BY <1>7, <2>2 DEF IsSetup
      <3> QED
        BY <1>1, <1>2, <1>3, <1>7, <2>2, <3>1 DEF LinksAreOfOperations, RowsStay, IsSetup
    <2> QED
      BY <2>1, <2>2
  <1>10. ApprovalIsOneUse'
    <2> SUFFICES ASSUME NEW x \in Ops, IsSetup(x)'
                 PROVE  /\ plan'[link'[x].plan].state = "consumed"
                        /\ approval'[link'[x].approval].plan = link'[x].plan
                        /\ link'[x].retryOf = NoId => approval'[link'[x].approval].op = x
                        /\ link'[x].retryOf # NoId =>
                              link'[link'[x].retryOf].approval = link'[x].approval
      BY DEF ApprovalIsOneUse
    <2>1. CASE x = o
      BY <1>5, <1>7, <2>1
    <2>2. CASE x # o
      <3>1. IsSetup(x) /\ link'[x] = link[x]
        BY <1>7, <2>2 DEF IsSetup
      <3>2. link[x].plan \in Plans /\ link[x].approval \in Approvals
        BY <1>1, <3>1 DEF LinksAreOfOperations
      <3>3. link[x].retryOf # NoId => link[x].retryOf \in Ops /\ link[x].retryOf # o
        BY <1>1, <1>2, <3>1 DEF LinksAreOfOperations
      <3>4. link[x].retryOf = NoId => approval'[link[x].approval].op = x
        BY <1>1, <1>5, <3>1, <3>2 DEF ApprovalIsOneUse
      <3> QED
        BY <1>1, <1>7, <3>1, <3>2, <3>3, <3>4 DEF ApprovalIsOneUse
    <2> QED
      BY <2>1, <2>2
  <1> QED
    BY <1>8, <1>9, <1>10 DEF SetupInv

LEMMA StartKeeps ==
    ASSUME SetupInv, UNCHANGED machine,
           NEW o \in Ops, NEW p \in Plans, NEW a \in Approvals, NEW expected,
           StartSetup(o, p, expected, a, machine)
    PROVE  SetupInv'
  <1>1. Shapes
    BY DEF SetupInv
  <1>2. plan[p] \in PlanTypes /\ approval[a] \in ApprovalTypes
    BY <1>1 DEF Shapes
  <1>3. /\ plan' = [plan EXCEPT ![p] = [plan[p] EXCEPT !.state = "consumed", !.revision = @ + 1]]
        /\ approval' = [approval EXCEPT ![a] = [approval[a] EXCEPT !.op = o]]
        /\ approval[a].op = NoId /\ approval[a].plan = p
        /\ InsertSetup(o, p, a, NoId)
    BY DEF StartSetup
  <1>4. [plan[p] EXCEPT !.state = "consumed", !.revision = @ + 1] \in PlanTypes
    <2>1. plan[p].revision + 1 \in Nat /\ "consumed" \in PlanStates
      BY <1>2 DEF PlanTypes, PlanStates
    <2> QED
      BY <1>2, <2>1 DEF PlanTypes
  <1>5. [approval[a] EXCEPT !.op = o] \in ApprovalTypes
    BY <1>2 DEF ApprovalTypes
  <1>6. plan' \in [Plans -> PlanTypes] /\ approval' \in [Approvals -> ApprovalTypes]
    BY <1>1, <1>3, <1>4, <1>5 DEF Shapes
  <1>7. /\ plan'[p].state = "consumed"
        /\ \A q \in Plans : plan[q].state = "consumed" => plan'[q].state = "consumed"
    BY <1>1, <1>2, <1>3 DEF Shapes, PlanTypes
  <1>8. /\ approval'[a].op = o /\ approval'[a].plan = p
        /\ \A b \in Approvals : approval'[b].plan = approval[b].plan
        /\ \A b \in Approvals : approval[b].op # NoId => approval'[b].op = approval[b].op
    BY <1>1, <1>2, <1>3 DEF Shapes, ApprovalTypes
  <1> QED
    BY <1>3, <1>6, <1>7, <1>8, InsertKeeps

LEMMA RetryKeeps ==
    ASSUME SetupInv, UNCHANGED machine, NEW source \in Ops, NEW expected, NEW o \in Ops,
           RetrySetup(source, expected, o, machine)
    PROVE  SetupInv'
  <1>1. /\ IsSetup(source) /\ InsertSetup(o, link[source].plan, link[source].approval, source)
        /\ plan' = plan /\ approval' = approval
    BY DEF RetrySetup
  <1>2. /\ link[source].plan \in Plans /\ link[source].approval \in Approvals
        /\ plan[link[source].plan].state = "consumed"
        /\ approval[link[source].approval].plan = link[source].plan
    BY <1>1 DEF SetupInv, LinksAreOfOperations, ApprovalIsOneUse
  <1>3. plan' \in [Plans -> PlanTypes] /\ approval' \in [Approvals -> ApprovalTypes]
    BY <1>1 DEF SetupInv, Shapes
  <1> QED
    BY <1>1, <1>2, <1>3, InsertKeeps

LEMMA ServedKeeps == ASSUME SetupInv, ServedCommand PROVE SetupInv'
  <1>1. SetupCommand /\ UNCHANGED machine
    BY DEF ServedCommand, worldVars
  <1>2. ASSUME NEW o \in Ops, NEW expected,
               CancelSetup(o, expected) \/ ResumeSetup(o, expected, machine)
        PROVE  SetupInv'
    <2>1. Record(o, "cancelled", "none") \/ Record(o, "cancelling", "none")
          \/ Record(o, "queued", "none")
      BY <1>2 DEF CancelSetup, ResumeSetup
    <2>2. RowsStay
      BY <2>1, RecordKeepsRows, RecordedStatuses DEF SetupInv
    <2>3. UNCHANGED <<plan, approval, link>>
      BY <1>2 DEF CancelSetup, ResumeSetup, setupVars
    <2> QED
      BY <1>1, <2>2, <2>3, InvariantKept DEF SetupInv, Shapes
  <1>3. ASSUME NEW p \in Plans,
               \/ CreatePlan(p, machine) \/ PlanExpires(p)
               \/ \E expected \in 1..3 : DiscardPlan(p, expected)
        PROVE  SetupInv'
    BY <1>1, <1>3, PlanCommandsKeep
  <1>4. ASSUME NEW a \in Approvals,
               \/ ApprovalExpires(a)
               \/ \E p \in Plans, expected \in 1..3 : ApprovePlan(p, expected, a, machine)
        PROVE  SetupInv'
    BY <1>1, <1>4, ApprovalCommandsKeep
  <1>5. ASSUME NEW o \in Ops, NEW p \in Plans, NEW a \in Approvals, NEW expected \in 1..3,
               StartSetup(o, p, expected, a, machine)
        PROVE  SetupInv'
    BY <1>1, <1>5, StartKeeps
  <1>6. ASSUME NEW o \in Ops, NEW expected, NEW new \in Ops, RetrySetup(o, expected, new, machine)
        PROVE  SetupInv'
    BY <1>1, <1>6, RetryKeeps
  <1> QED
    BY <1>1, <1>2, <1>3, <1>4, <1>5, <1>6 DEF SetupCommand

-------------------------------------------------------------------------------
(* The theorem *)

LEMMA SetupInvInit == ASSUME ExecutorInit PROVE SetupInv
  <1>1. machine \in MachineTypes
    BY DEF ExecutorInit, MachineTypes
  <1>2. plan \in [Plans -> PlanTypes] /\ approval \in [Approvals -> ApprovalTypes]
    <2>1. NoPlan \in PlanTypes
      BY DEF NoPlan, PlanTypes, PlanStates
    <2>2. NoApproval \in ApprovalTypes
      BY DEF NoApproval, ApprovalTypes
    <2> QED
      BY <2>1, <2>2 DEF ExecutorInit, SetupInit
  <1>3. link \in [Ops -> LinkTypes] /\ \A o \in Ops : ~IsSetup(o)
    BY DEF ExecutorInit, SetupInit, NoLink, LinkTypes, IsSetup
  <1>4. status \in StatusTypes
    BY DEF ExecutorInit, SetupInit, StoreInit, StatusTypes
  <1> QED
    BY <1>1, <1>2, <1>3, <1>4 DEF SetupInv, Shapes, LinksAreOfOperations, ApprovalIsOneUse

LEMMA SetupInvStep == SetupInv /\ [ExecutorNext]_allVars => SetupInv'
  <1> SUFFICES ASSUME SetupInv, [ExecutorNext]_allVars PROVE SetupInv'
    OBVIOUS
  <1>1. CASE UNCHANGED allVars
    BY <1>1, RowsUnchanged, InvariantKept
       DEF SetupInv, Shapes, allVars, vars, storeVars, opVars, setupVars, worldVars
  <1> QED
    BY <1>1, ServedKeeps, ThreadKeeps, ProcessStepKeeps, WorldKeeps DEF ExecutorNext

\* What the user approved is what runs, once, whatever the number of plans,
\* approvals and operations, and whichever processes start, die and take over in
\* between: an approval is consumed by one operation, others share it as its
\* retries only, and the plan of an operation is never discarded
\* (setup_repository.py start_operation, discard_plan, retry_setup).
THEOREM SetupApprovalIsOneUse == ExecutorSpec => []ApprovalIsOneUse
  <1>1. ExecutorInit => SetupInv
    BY SetupInvInit
  <1>2. SetupInv /\ [ExecutorNext]_allVars => SetupInv'
    BY SetupInvStep
  <1>3. SetupInv => ApprovalIsOneUse
    BY DEF SetupInv
  <1> QED
    BY <1>1, <1>2, <1>3, PTL DEF ExecutorSpec

-------------------------------------------------------------------------------
(* What the transactions of a setup do to the slot and to the journal *)

LEMMA SetupIsHeavy ==
    ASSUME NEW o \in Ops, Kind[o] = "setup_operation" PROVE Slot(o) = "heavy"
  BY HeavySlot, KindIsQueued

LEMMA ReporterIsActive ==
    ASSUME TypeOK, LeaseCoherence, NEW o \in Ops, NEW fence, Fenced(o, fence)
    PROVE  /\ fence \in Fences /\ status[o] \in ACTIVE /\ lease[Slot(o)] = fence
           /\ attempts[fence].op = o /\ HeldFence(o) = fence
  BY HeldFenceType, SlotType DEF Fenced, LeaseCoherence, LeaseHolderIsActive

\* A step of the plan starts or ends: the row of the operation is touched, no more.
LEMMA TouchKeeps ==
    ASSUME TypeOK, LeaseCoherence, NEW o \in Ops, NEW fence, Fenced(o, fence),
           Record(o, status[o], flag[o]),
           UNCHANGED <<queueVars, attempts, lease, known, results>>
    PROVE  TypeOK' /\ LeaseCoherence' /\ lease' = lease /\ JournalKept
  <1>1. status[o] \in Statuses /\ flag[o] \in RecoveryReasons \cup {"none"}
    BY ReporterIsActive DEF ACTIVE, Statuses, TypeOK
  <1>2. TypeOK'
    BY <1>1, RecordType DEF TypeOK, queueVars
  <1>3. \A other \in Ops : status'[other] \in ACTIVE <=> status[other] \in ACTIVE
    BY RecordKeepsActive
  <1>4. LeaseCoherence'
    BY <1>3, LeasesKept
  <1> QED
    BY <1>2, <1>4 DEF JournalKept

\* The journal forgets a child, names another one, or says that there is none.
LEMMA LaunchKeeps ==
    ASSUME TypeOK, LeaseCoherence, NEW fence \in Fences,
           NEW outcome \in {"intended", "confirmed", "failed"},
           attempts' = [attempts EXCEPT ![fence].launch = outcome],
           UNCHANGED <<opVars, queueVars, lease, known, results>>
    PROVE  /\ TypeOK' /\ LeaseCoherence' /\ lease' = lease
           /\ Len(attempts') = Len(attempts)
           /\ \A f \in Fences : attempts'[f].op = attempts[f].op
           /\ \A f \in Fences \ {fence} : attempts'[f].launch = attempts[f].launch
           /\ attempts'[fence].launch = outcome
  <1>1. attempts[fence] \in Attempt /\ attempts \in Seq(Attempt)
    BY AttemptType DEF TypeOK
  <1>2. /\ [attempts[fence] EXCEPT !.launch = outcome] \in Attempt
        /\ [attempts[fence] EXCEPT !.launch = outcome].op = attempts[fence].op
        /\ [attempts[fence] EXCEPT !.launch = outcome].state = attempts[fence].state
        /\ [attempts[fence] EXCEPT !.launch = outcome].launch = outcome
    BY <1>1 DEF Attempt
  <1>3. /\ attempts' \in Seq(Attempt) /\ Len(attempts') = Len(attempts)
        /\ attempts'[fence] = [attempts[fence] EXCEPT !.launch = outcome]
        /\ \A f \in Fences \ {fence} : attempts'[f] = attempts[f]
    BY <1>1, <1>2 DEF Fences
  <1>4. \A f \in Fences : /\ attempts'[f].op = attempts[f].op
                          /\ attempts'[f].state = attempts[f].state
    BY <1>2, <1>3
  <1>5. TypeOK'
    BY <1>3 DEF TypeOK, opVars, queueVars
  <1>6. LeaseCoherence'
    BY <1>3, <1>4, LeasesKept DEF opVars
  <1> QED
    BY <1>2, <1>3, <1>4, <1>5, <1>6

\* The end of an attempt frees the heavy slot.
LEMMA EndFrees ==
    ASSUME TypeOK, LeaseCoherence, NEW o \in Ops, Kind[o] = "setup_operation",
           NEW fence, Fenced(o, fence),
           NEW target \in {"waiting_user", "succeeded", "failed", "cancelled"}, NEW seen,
           FinishCommon(o, target, seen)
    PROVE  TypeOK' /\ LeaseCoherence' /\ JournalKept /\ lease'["heavy"] = 0
  <1>1. /\ Release(o, "released") /\ Record(o, target, "none") /\ QueueChanged
        /\ UNCHANGED <<enqueueOrder, dispatch, known, results>>
    BY DEF FinishCommon
  <1>2. HeldFence(o) # 0 /\ Slot(o) = "heavy"
    BY SetupIsHeavy DEF Fenced
  <1>3. TypeOK'
    <2>1. /\ status' \in [Ops -> Statuses \cup {"absent"}]
          /\ revision' \in [Ops -> Nat]
          /\ flag' \in [Ops -> RecoveryReasons \cup {"none"}]
      <3>1. target \in Statuses /\ "none" \in RecoveryReasons \cup {"none"}
        BY DEF Statuses
      <3> QED
        BY <1>1, <3>1, RecordType
    <2>2. /\ item' \in [Ops -> Item] /\ attempts' \in Seq(Attempt)
          /\ lease' \in [Slots -> 0..Len(attempts')]
      BY <1>1, ReleaseType
    <2> QED
      BY <1>1, <2>1, <2>2 DEF TypeOK, QueueChanged
  <1>4. LeaseCoherence'
    BY <1>1, LeasesAfterRelease DEF ACTIVE
  <1>5. JournalKept /\ lease' = [lease EXCEPT !["heavy"] = 0]
    BY <1>1, <1>2, ReleaseKeepsJournal DEF Release
  <1> QED
    BY <1>3, <1>4, <1>5, SlotIsHeavy DEF TypeOK

LEMMA WaitFrees ==
    ASSUME TypeOK, LeaseCoherence, NEW o \in Ops, Kind[o] = "setup_operation", NEW fence,
           NEW seen, SetupWait(o, fence, seen)
    PROVE  TypeOK' /\ LeaseCoherence' /\ JournalKept /\ lease'["heavy"] = 0
  BY EndFrees DEF SetupWait

LEMMA FinishSetupFrees ==
    ASSUME TypeOK, LeaseCoherence, NEW o \in Ops, Kind[o] = "setup_operation", NEW fence,
           NEW outcome, NEW seen, FinishSetup(o, fence, outcome, seen)
    PROVE  TypeOK' /\ LeaseCoherence' /\ JournalKept /\ lease'["heavy"] = 0
  BY EndFrees DEF FinishSetup, SetupTarget

\* The commands of the setup API leave the slot and the journal alone.
LEMMA CancelSetupKeeps ==
    ASSUME TypeOK, LeaseCoherence, NEW o \in Ops, NEW expected, CancelSetup(o, expected)
    PROVE  TypeOK' /\ LeaseCoherence' /\ lease' = lease /\ JournalKept
  <1>1. CASE /\ status[o] \in {"queued", "waiting_user", "interrupted"}
             /\ Release(o, "released") /\ Record(o, "cancelled", "none")
             /\ queueRevision' \in {queueRevision, queueRevision + 1}
             /\ UNCHANGED <<enqueueOrder, dispatch, known, results>>
    <2>1. HeldFence(o) = 0
      BY <1>1, IdleHoldsNothing DEF LeaseCoherence, ACTIVE
    <2>2. /\ item' \in [Ops -> Item] /\ attempts' \in Seq(Attempt)
          /\ lease' \in [Slots -> 0..Len(attempts')]
      BY <1>1, ReleaseType
    <2>3. /\ status' \in [Ops -> Statuses \cup {"absent"}]
          /\ revision' \in [Ops -> Nat]
          /\ flag' \in [Ops -> RecoveryReasons \cup {"none"}]
      BY <1>1, RecordType, "cancelled" \in Statuses DEF Statuses
    <2>4. TypeOK'
      BY <1>1, <2>2, <2>3 DEF TypeOK
    <2>5. LeaseCoherence'
      BY <1>1, LeasesAfterRelease DEF ACTIVE
    <2> QED
      BY <1>1, <2>1, <2>4, <2>5, ReleaseKeepsJournal
  <1>2. CASE /\ status[o] = "running" /\ Record(o, "cancelling", "none")
             /\ UNCHANGED <<queueVars, attempts, lease, known, results>>
    <2>1. /\ status' \in [Ops -> Statuses \cup {"absent"}]
          /\ revision' \in [Ops -> Nat]
          /\ flag' \in [Ops -> RecoveryReasons \cup {"none"}]
      BY <1>2, RecordType, "cancelling" \in Statuses DEF Statuses
    <2>2. TypeOK'
      BY <1>2, <2>1 DEF TypeOK, queueVars
    <2>3. LeaseCoherence'
      BY <1>2, LeasesKept, RecordKeepsActive DEF ACTIVE
    <2> QED
      BY <1>2, <2>2, <2>3 DEF JournalKept
  <1>3. queueRevision' = queueRevision + 1 \/ UNCHANGED queueRevision
           => queueRevision' \in {queueRevision, queueRevision + 1}
    OBVIOUS
  <1> QED
    BY <1>1, <1>2, <1>3 DEF CancelSetup, QueueChanged

LEMMA ResumeSetupKeeps ==
    ASSUME TypeOK, LeaseCoherence, NEW o \in Ops, NEW expected, ResumeSetup(o, expected, machine)
    PROVE  TypeOK' /\ LeaseCoherence' /\ lease' = lease /\ JournalKept
  <1>1. /\ Enqueue(o) /\ Record(o, "queued", "none") /\ QueueChanged
        /\ UNCHANGED <<dispatch, attempts, lease, known, results>>
        /\ status[o] \in RESUMABLE_SETUP
    BY DEF ResumeSetup
  <1>2. /\ status' \in [Ops -> Statuses \cup {"absent"}]
        /\ revision' \in [Ops -> Nat]
        /\ flag' \in [Ops -> RecoveryReasons \cup {"none"}]
    BY <1>1, RecordType, "queued" \in Statuses DEF Statuses
  <1>3. TypeOK'
    BY <1>1, <1>2, EnqueueType DEF TypeOK, QueueChanged
  <1>4. LeaseCoherence'
    BY <1>1, LeasesKept, RecordKeepsActive DEF ACTIVE, RESUMABLE_SETUP
  <1> QED
    BY <1>1, <1>3, <1>4 DEF JournalKept

LEMMA InsertSetupKeeps ==
    ASSUME TypeOK, LeaseCoherence, NEW o \in Ops, NEW p, NEW a, NEW source,
           InsertSetup(o, p, a, source)
    PROVE  TypeOK' /\ LeaseCoherence' /\ lease' = lease /\ JournalKept
  <1>1. Create /\ UNCHANGED <<attempts, lease>>
    BY DEF InsertSetup, Create, StartOperation
  <1> QED
    BY <1>1, CreateType, CreateLeases DEF JournalKept

LEMMA SetupCommandKeeps ==
    ASSUME TypeOK, LeaseCoherence, SetupCommand
    PROVE  TypeOK' /\ LeaseCoherence' /\ lease' = lease /\ JournalKept
  <1>1. ASSUME UNCHANGED storeVars
        PROVE  TypeOK' /\ LeaseCoherence' /\ lease' = lease /\ JournalKept
    BY <1>1, StutterType, StepLeases DEF storeVars, JournalKept
  <1>2. ASSUME NEW o \in Ops, NEW p, NEW expected, NEW a, StartSetup(o, p, expected, a, machine)
        PROVE  TypeOK' /\ LeaseCoherence' /\ lease' = lease /\ JournalKept
    BY <1>2, InsertSetupKeeps DEF StartSetup
  <1>3. ASSUME NEW o \in Ops, NEW new \in Ops, NEW expected, RetrySetup(o, expected, new, machine)
        PROVE  TypeOK' /\ LeaseCoherence' /\ lease' = lease /\ JournalKept
    BY <1>3, InsertSetupKeeps DEF RetrySetup
  <1>4. CASE \/ \E p \in Plans : CreatePlan(p, machine) \/ PlanExpires(p)
             \/ \E p \in Plans, expected \in 1..3 : DiscardPlan(p, expected)
             \/ \E p \in Plans, expected \in 1..3, a \in Approvals :
                   ApprovePlan(p, expected, a, machine)
             \/ \E a \in Approvals : ApprovalExpires(a)
    <2>1. UNCHANGED storeVars
      BY <1>4 DEF CreatePlan, PlanExpires, DiscardPlan, ApprovePlan, ApprovalExpires
    <2> QED
      BY <2>1, <1>1
  <1> QED
    BY <1>2, <1>3, <1>4, CancelSetupKeeps, ResumeSetupKeeps DEF SetupCommand

-------------------------------------------------------------------------------
(* The setup half of the thread.  A thread that runs a setup has no worker but *)
(* the child it has started and not yet seen the end of.                       *)

\* What the locals of a thread that runs a setup may become.
LEMMA RunMoves ==
    ASSUME BaseInv, NEW g \in Guis, loop[g].pc \in SetupRun, NEW running,
           NEW next \in ThreadTypes, next.fence = loop[g].fence, next.job = loop[g].job,
           next.pc \in SetupRun \ {"closing"} =>
              loop[g].pc # "closing" /\ next.outcome \notin {"wait", "unconfirmed"},
           next.pc \in SetupRun,
           next.pc \in Childless \/ (next.pc = "closing" /\ next.outcome # "unconfirmed")
              => loop[g].fence \notin running
    PROVE  Moves(g, next, running)
  <1>1. /\ next.pc \in Holding /\ loop[g].pc \in Holding
        /\ next.pc \notin JobPcs \cup {"down", "checking", "picked", "observed"}
        /\ loop[g].pc # "down"
    BY DEF Holding, SetupRun, JobPcs
  <1>2. next.pc \in Launchable => loop[g].pc \in Launchable
    BY DEF Launchable, SetupRun
  <1> QED
    BY <1>1, <1>2 DEF Moves

LEMMA RunOutcome ==
    ASSUME BaseInv, NEW g \in Guis, loop[g].pc \in SetupRun \ {"closing"}
    PROVE  loop[g].outcome \notin {"wait", "unconfirmed"}
  BY ThreadType DEF SetupRun

\* The thread goes on to another part of the run ...
LEMMA GotoMoves ==
    ASSUME BaseInv, NEW g \in Guis, loop[g].pc \in SetupRun \ {"closing"},
           NEW pc \in SetupRun \ {"closing"}, NEW running,
           pc \in Childless => loop[g].fence \notin running
    PROVE  /\ Goto(g, pc) \in ThreadTypes
           /\ Moves(g, Goto(g, pc), running)
  <1>1. loop[g] \in ThreadTypes /\ loop[g].outcome \notin {"wait", "unconfirmed"}
    BY ThreadType, RunOutcome
  <1>2. /\ Goto(g, pc) \in ThreadTypes /\ Goto(g, pc).pc = pc
        /\ Goto(g, pc).fence = loop[g].fence /\ Goto(g, pc).job = loop[g].job
        /\ Goto(g, pc).outcome = loop[g].outcome
    BY <1>1 DEF Goto, ThreadTypes, LoopPcs, Holding, SetupRun
  <1> QED
    BY <1>1, <1>2, RunMoves

\* ... or to its end.
LEMMA CloseMoves ==
    ASSUME BaseInv, NEW g \in Guis, loop[g].pc \in SetupRun \ {"closing"},
           NEW outcome \in {"succeeded", "failed", "cancelled", "wait", "unconfirmed"}, NEW running,
           outcome # "unconfirmed" => loop[g].fence \notin running
    PROVE  /\ [loop[g] EXCEPT !.pc = "closing", !.outcome = outcome] \in ThreadTypes
           /\ Moves(g, [loop[g] EXCEPT !.pc = "closing", !.outcome = outcome], running)
  <1> DEFINE next == [loop[g] EXCEPT !.pc = "closing", !.outcome = outcome]
  <1>1. loop[g] \in ThreadTypes
    BY ThreadType
  <1>2. /\ next \in ThreadTypes /\ next.pc = "closing" /\ next.outcome = outcome
        /\ next.fence = loop[g].fence /\ next.job = loop[g].job
    BY <1>1 DEF ThreadTypes, LoopPcs, Holding, SetupRun
  <1>3. "closing" \in SetupRun /\ "closing" \notin Childless
    BY DEF SetupRun, Childless
  <1> HIDE DEF next
  <1>4. Moves(g, next, running)
    BY <1>2, <1>3, RunMoves
  <1> QED
    BY <1>2, <1>4 DEF next

LEMMA IdleMoves ==
    ASSUME BaseInv, NEW g \in Guis, NEW running, loop[g].pc # "down"
    PROVE  Idle \in ThreadTypes /\ Moves(g, Idle, running)
  <1>1. Idle \in ThreadTypes
    BY IdleType, TypesOf DEF BaseInv
  <1> QED
    BY <1>1 DEF Moves, Idle, Holding, JobPcs, SetupRun, Childless, Launchable

LEMMA ClosesQuietly ==
    ASSUME BaseInv, NEW g \in Guis, loop[g].pc \in SetupRun \ {"closing"},
           NEW outcome \in {"succeeded", "failed", "cancelled", "wait", "unconfirmed"},
           outcome # "unconfirmed" => loop[g].fence \notin workers, Close(g, outcome)
    PROVE  Kept
  BY CloseMoves, LocalMoves DEF Close, SetupLocal

LEMMA GoesQuietly ==
    ASSUME BaseInv, NEW g \in Guis, loop[g].pc \in SetupRun \ {"closing"},
           NEW pc \in SetupRun \ {"closing"}, pc \in Childless => loop[g].fence \notin workers,
           NEW x, SetupLocal(g, Goto(g, pc), x)
    PROVE  Kept
  BY GotoMoves, LocalMoves DEF SetupLocal

\* A thread without a child.
LEMMA NoChild ==
    ASSUME BaseInv, NEW g \in Guis, loop[g].pc \in SetupRun \cap Childless
    PROVE  /\ loop[g].fence \notin workers /\ loop[g].pc \in SetupRun \ {"closing"}
           /\ loop[g].pc \in Holding
  BY ThreadType, PcSets DEF Childless

LEMMA RunPcs ==
    /\ {"begun", "outdated", "resetting", "boundary", "stepping", "working", "intending",
        "launching"} = SetupRun \cap Childless
    /\ {"launched", "waiting"} = (SetupRun \ Childless) \ {"closing"}
    /\ "closing" \in SetupRun \ Childless
  BY DEF SetupRun, Childless

LEMMA PickSteps ==
    ASSUME BaseInv, NEW g \in Guis,
           \/ PickSetup(g) \/ ObservePlan(g) \/ BeginSetup(g) \/ BeginSetupRefused(g)
    PROVE  Kept
  <1> USE ThreadType DEF ThreadTypes
  <1>0. TypeOK /\ Idle \in ThreadTypes
    BY TypesOf, IdleType DEF BaseInv
  <1>1. CASE PickSetup(g)
    <2>1. PICK o \in Ops :
             /\ DispatchGuard(o) /\ Kind[o] = "setup_operation"
             /\ SetupLocal(g, [Idle EXCEPT !.pc = "picked", !.job = o, !.revision = revision[o]],
                           NoRun)
      BY <1>1 DEF PickSetup
    <2> DEFINE next == [Idle EXCEPT !.pc = "picked", !.job = o, !.revision = revision[o]]
    <2>2. revision[o] \in Nat
      BY <1>0 DEF TypeOK
    <2>3. next \in ThreadTypes
      BY <1>0, <2>2 DEF Idle, LoopPcs
    <2>4. Moves(g, next, workers)
      BY <1>1, <2>1 DEF Moves, PickSetup, Idle, Holding, JobPcs, SetupRun, Childless, Launchable
    <2>5. Local(g, next)
      BY <2>1 DEF SetupLocal
    <2> HIDE DEF next
    <2> QED
      BY <2>3, <2>4, <2>5, LocalMoves
  <1>2. CASE ObservePlan(g)
    <2> DEFINE next == [loop[g] EXCEPT !.pc = "observed"]
    <2>1. next \in ThreadTypes
      BY DEF LoopPcs
    <2>2. loop[g].pc = "picked" /\ Local(g, next)
      BY <1>2 DEF ObservePlan, SetupLocal, Goto
    <2>3. Moves(g, next, workers)
      BY <2>2 DEF Moves, BaseInv, Threads, Holding, JobPcs, SetupRun, Childless, Launchable
    <2> HIDE DEF next
    <2> QED
      BY <2>1, <2>2, <2>3, LocalMoves
  <1>3. CASE BeginSetup(g)
    BY <1>3, AttemptBegins DEF BeginSetup, Job
  <1>4. CASE BeginSetupRefused(g)
    <2>1. loop[g].pc # "down" /\ Local(g, Idle)
      BY <1>4 DEF BeginSetupRefused, SetupLocal
    <2> QED
      BY <2>1, IdleMoves, LocalMoves
  <1> QED
    BY <1>1, <1>2, <1>3, <1>4

LEMMA PublishStep == ASSUME BaseInv, NEW g \in Guis, PublishRun(g) PROVE Kept
  <1>1. loop[g].pc = "begun" /\ loop[g].pc \in SetupRun \cap Childless
    BY RunPcs DEF PublishRun
  <1>2. PICK pc \in {"resetting", "outdated"} :
           Local(g, [loop[g] EXCEPT !.active = TRUE, !.pc = pc])
    <2>1. Local(g, [loop[g] EXCEPT !.active = TRUE, !.pc =
                       IF exec[g].seen \in {plan[link[Job(g)].plan].seen, lastSeen[Job(g)]}
                       THEN "resetting" ELSE "outdated"])
      BY DEF PublishRun, SetupLocal
    <2>2. CASE exec[g].seen \in {plan[link[Job(g)].plan].seen, lastSeen[Job(g)]}
      BY <2>1, <2>2
    <2>3. CASE exec[g].seen \notin {plan[link[Job(g)].plan].seen, lastSeen[Job(g)]}
      BY <2>1, <2>3
    <2> QED
      BY <2>2, <2>3
  <1> DEFINE next == [loop[g] EXCEPT !.active = TRUE, !.pc = pc]
  <1>3. /\ next \in ThreadTypes /\ next.pc = pc /\ next.fence = loop[g].fence
        /\ next.job = loop[g].job /\ next.outcome = loop[g].outcome
    BY ThreadType DEF ThreadTypes, LoopPcs, Holding, SetupRun
  <1>4. Local(g, next)
    BY <1>2
  <1> HIDE DEF next
  <1>5. pc \in SetupRun \ {"closing"} /\ loop[g].pc \in SetupRun \ {"closing"}
    BY <1>1 DEF SetupRun
  <1>6. Moves(g, next, workers)
    BY <1>1, <1>3, <1>5, NoChild, RunOutcome, RunMoves
  <1> QED
    BY <1>3, <1>4, <1>6, LocalMoves

\* Steps of the run between two children, and those that give it up.
LEMMA BoundarySteps ==
    ASSUME BaseInv, NEW g \in Guis,
           \/ Boundary(g) \/ StepRefused(g) \/ ChildBoundary(g) \/ ChildEnded(g)
           \/ ChildUnconfirmed(g) \/ BookkeepingFails(g)
    PROVE  Kept
  <1> USE RunPcs
  <1>1. CASE Boundary(g)
    <2>1. loop[g].pc \in SetupRun \cap Childless
      BY <1>1 DEF Boundary
    <2>2. \/ Close(g, "cancelled") \/ Close(g, "succeeded")
          \/ SetupLocal(g, Goto(g, "stepping"), exec[g])
      BY <1>1 DEF Boundary
    <2> QED
      BY <2>1, <2>2, NoChild, ClosesQuietly, GoesQuietly
  <1>2. CASE StepRefused(g)
    <2>1. loop[g].pc \in SetupRun \cap Childless /\ Close(g, "failed")
      BY <1>2 DEF StepRefused
    <2> QED
      BY <2>1, NoChild, ClosesQuietly
  <1>3. CASE ChildBoundary(g)
    <2>1. loop[g].pc \in SetupRun \cap Childless
      BY <1>3 DEF ChildBoundary
    <2>2. Close(g, "cancelled") \/ SetupLocal(g, Goto(g, "intending"), exec[g])
      BY <1>3 DEF ChildBoundary
    <2> QED
      BY <2>1, <2>2, NoChild, ClosesQuietly, GoesQuietly
  <1>4. CASE ChildEnded(g)
    <2>1. /\ loop[g].pc \in SetupRun \ {"closing"} /\ loop[g].fence \notin workers
          /\ \E x : SetupLocal(g, Goto(g, "working"), x)
      BY <1>4 DEF ChildEnded, Fence
    <2> QED
      BY <2>1, GoesQuietly
  <1>5. CASE ChildUnconfirmed(g)
    <2>1. loop[g].pc \in SetupRun \ {"closing"} /\ Close(g, "unconfirmed")
      BY <1>5 DEF ChildUnconfirmed
    <2> QED
      BY <2>1, ClosesQuietly
  <1>6. CASE BookkeepingFails(g)
    <2>1. /\ loop[g].pc \in SetupRun \ {"closing"} /\ Close(g, "failed")
          /\ loop[g].pc \in SetupRun \cap Childless \/ loop[g].fence \notin workers
      BY <1>6 DEF BookkeepingFails, Fence
    <2> QED
      BY <2>1, NoChild, ClosesQuietly
  <1> QED
    BY <1>1, <1>2, <1>3, <1>4, <1>5, <1>6

\* A report that keeps the slot and the journal, or that frees the slot.
LEMMA RunCommitSteps ==
    ASSUME BaseInv, NEW g \in Guis,
           WaitOutdated(g) \/ Reset(g) \/ StartStep(g) \/ FinishStep(g) \/ DeferSetup(g)
    PROVE  Kept
  <1> USE RunPcs
  <1>0. TypeOK /\ LeaseCoherence
    BY TypesOf DEF BaseInv
  <1>1. CASE WaitOutdated(g)
    <2>1. /\ loop[g].pc \in SetupRun \cap Childless
          /\ SetupWait(loop[g].job, loop[g].fence, Unseen) /\ Commit(g, Idle)
      BY <1>1 DEF WaitOutdated, SetupCommit, Job, Fence
    <2>2. TypeOK' /\ LeaseCoherence' /\ JournalKept /\ lease'["heavy"] = 0
      BY <1>0, <2>1, NoChild, HolderFacts, WaitFrees
    <2> QED
      BY <2>1, <2>2, NoChild, SlotFreed DEF Commit, osVars
  <1>2. CASE Reset(g)
    <2>1. /\ loop[g].pc \in SetupRun \cap Childless
          /\ UNCHANGED storeVars /\ Commit(g, Goto(g, "boundary"))
      BY <1>2 DEF Reset, ResetSteps, SetupCommit
    <2> QED
      BY <2>1, NoChild, GotoMoves, StoreStutters, CommitMoves
  <1>3. CASE StartStep(g)
    <2>1. /\ loop[g].pc \in SetupRun \cap Childless /\ Commit(g, Goto(g, "working"))
          /\ Fenced(loop[g].job, loop[g].fence)
          /\ Record(loop[g].job, status[loop[g].job], flag[loop[g].job])
          /\ UNCHANGED <<queueVars, attempts, lease, known, results>>
      BY <1>3 DEF StartStep, StepStarted, SetupCommit, Job, Fence
    <2>2. TypeOK' /\ LeaseCoherence' /\ lease' = lease /\ JournalKept
      BY <1>0, <2>1, NoChild, HolderFacts, TouchKeeps
    <2> QED
      BY <2>1, <2>2, NoChild, GotoMoves, CommitMoves
  <1>4. CASE FinishStep(g)
    <2>1. /\ loop[g].pc \in SetupRun \cap Childless
          /\ Fenced(loop[g].job, loop[g].fence)
          /\ Record(loop[g].job, status[loop[g].job], flag[loop[g].job])
          /\ UNCHANGED <<queueVars, attempts, lease, known, results>>
      BY <1>4 DEF FinishStep, StepFinished, Job, Fence
    <2>2. TypeOK' /\ LeaseCoherence' /\ lease' = lease /\ JournalKept
      BY <1>0, <2>1, NoChild, HolderFacts, TouchKeeps
    <2>3. CASE Commit(g, Goto(g, "boundary"))
      BY <2>1, <2>2, <2>3, NoChild, GotoMoves, CommitMoves
    <2>4. ASSUME NEW outcome \in {"wait", "failed"},
                 Commit(g, [loop[g] EXCEPT !.pc = "closing", !.outcome = outcome])
          PROVE  Kept
      BY <2>1, <2>2, <2>4, NoChild, CloseMoves, CommitMoves
    <2>5. \/ Commit(g, Goto(g, "boundary"))
          \/ Commit(g, [loop[g] EXCEPT !.pc = "closing", !.outcome = "wait"])
          \/ Commit(g, [loop[g] EXCEPT !.pc = "closing", !.outcome = "failed"])
      <3>1. CASE Decided(g) = "pending"
        BY <1>4, <3>1 DEF FinishStep, SetupCommit
      <3>2. CASE Decided(g) # "pending"
        BY <1>4, <3>2 DEF FinishStep, SetupCommit
      <3> QED
        BY <3>1, <3>2
    <2> QED
      BY <2>3, <2>4, <2>5
  <1>5. CASE DeferSetup(g)
    <2>1. loop[g].pc # "down" /\ Local(g, Idle)
      BY <1>5 DEF DeferSetup, SetupLocal
    <2> QED
      BY <2>1, IdleMoves, LocalMoves
  <1> QED
    BY <1>1, <1>2, <1>3, <1>4, <1>5

\* The journal of the thread's own attempt, of which nobody else reads "failed"
\* while there is a child.
LEMMA ChildJournalSteps ==
    ASSUME BaseInv, NEW g \in Guis, Intend(g) \/ SpawnChildFails(g) \/ ConfirmChild(g)
    PROVE  /\ Kept
           /\ \A f \in Fences : /\ attempts'[f].op = attempts[f].op
                                /\ f # Fence(g) => attempts'[f].launch = attempts[f].launch
           /\ Len(attempts') = Len(attempts)
           /\ attempts'[Fence(g)].launch =
                 IF loop[g].pc = "intending" THEN "intended"
                 ELSE IF loop[g].pc = "launching" THEN "failed" ELSE "confirmed"
  <1> USE RunPcs
  <1>0. TypeOK /\ LeaseCoherence
    BY TypesOf DEF BaseInv
  <1>1. ASSUME loop[g].pc \in SetupRun \ {"closing"},
               NEW next \in ThreadTypes, Commit(g, next), Moves(g, next, workers),
               NEW outcome \in {"intended", "confirmed", "failed"},
               attempts' = [attempts EXCEPT ![Fence(g)].launch = outcome],
               UNCHANGED <<opVars, queueVars, lease, known, results>>,
               outcome = "failed" => loop[g].fence \notin workers /\ next.pc \notin Launchable
        PROVE  /\ Kept
               /\ \A f \in Fences : /\ attempts'[f].op = attempts[f].op
                                    /\ f # Fence(g) => attempts'[f].launch = attempts[f].launch
               /\ Len(attempts') = Len(attempts)
               /\ attempts'[Fence(g)].launch = outcome
    <2>1. /\ loop[g].pc \in Holding /\ loop[g].pc \in Launchable
      BY <1>1 DEF Holding, Launchable
    <2>2. Fence(g) = loop[g].fence /\ loop[g].fence \in Fences
      BY <2>1, HolderFacts DEF Fence
    <2>3. /\ TypeOK' /\ LeaseCoherence' /\ lease' = lease
          /\ Len(attempts') = Len(attempts)
          /\ \A f \in Fences : attempts'[f].op = attempts[f].op
          /\ \A f \in Fences \ {loop[g].fence} : attempts'[f].launch = attempts[f].launch
          /\ attempts'[loop[g].fence].launch = outcome
      BY <1>0, <1>1, <2>2, LaunchKeeps
    <2>4. attempts[loop[g].fence].launch # "failed"
      BY <2>1 DEF BaseInv, Unstarted
    <2>5. loop' = [loop EXCEPT ![g] = next] /\ loop'[g] = next
      BY <1>1, TypesOf DEF Commit, BaseInv
    <2>6. JournalOf(g)
      BY <1>1, <2>1, <2>3, <2>4, <2>5 DEF JournalOf
    <2>7. /\ UNCHANGED <<up, runtime, owner, orphans, unclear>> /\ workers' = workers
          /\ stopper' \in [Guis -> StopperTypes]
          /\ \A h \in Guis : stopper'[h].pc \in {"reading", "cancelling"}
                                => stopper'[h].fence \in Fences
      BY <1>1, Stoppers DEF Commit, osVars
    <2>8. Kept
      BY <1>1, <2>3, <2>5, <2>6, <2>7, ThreadMoves
    <2> QED
      BY <2>2, <2>3, <2>8
  <1>2. CASE Intend(g)
    <2>1. /\ loop[g].pc = "intending" /\ Commit(g, Goto(g, "launching"))
          /\ attempts' = [attempts EXCEPT ![Fence(g)].launch = "intended"]
          /\ UNCHANGED <<opVars, queueVars, lease, known, results>>
      BY <1>2 DEF Intend, ChildIntent
    <2>2. loop[g].pc \in SetupRun \cap Childless
      BY <2>1
    <2>3. Goto(g, "launching") \in ThreadTypes /\ Moves(g, Goto(g, "launching"), workers)
      BY <2>2, NoChild, GotoMoves
    <2> QED
      BY <1>1, <2>1, <2>2, <2>3, NoChild
  <1>3. CASE SpawnChildFails(g)
    <2> DEFINE next == [loop[g] EXCEPT !.pc = "closing", !.outcome = "failed"]
    <2>1. /\ loop[g].pc = "launching" /\ Commit(g, next)
          /\ attempts' = [attempts EXCEPT ![Fence(g)].launch = "failed"]
          /\ UNCHANGED <<opVars, queueVars, lease, known, results>>
      BY <1>3 DEF SpawnChildFails, StepLaunched, SetupCommit
    <2>2. loop[g].pc \in SetupRun \cap Childless
      BY <2>1
    <2>3. next \in ThreadTypes /\ Moves(g, next, workers)
      BY <2>2, NoChild, CloseMoves
    <2>4. next.pc = "closing" /\ "closing" \notin Launchable
      BY ThreadType DEF ThreadTypes, Launchable
    <2> HIDE DEF next
    <2> QED
      BY <1>1, <2>1, <2>2, <2>3, <2>4, NoChild
  <1>4. CASE ConfirmChild(g)
    <2>1. /\ loop[g].pc = "launched" /\ Commit(g, Goto(g, "waiting"))
          /\ attempts' = [attempts EXCEPT ![Fence(g)].launch = "confirmed"]
          /\ UNCHANGED <<opVars, queueVars, lease, known, results>>
      BY <1>4 DEF ConfirmChild, StepLaunched
    <2>2. loop[g].pc \in SetupRun \ {"closing"}
      BY <2>1
    <2>3. Goto(g, "waiting") \in ThreadTypes /\ Moves(g, Goto(g, "waiting"), workers)
      BY <2>2, GotoMoves
    <2> QED
      BY <1>1, <2>1, <2>2, <2>3
  <1> QED
    BY <1>2, <1>3, <1>4

LEMMA ChildStarts == ASSUME BaseInv, NEW g \in Guis, SpawnChild(g) PROVE Kept
  BY WorkerStarts DEF SpawnChild, Fence

LEMMA KillChildStep == ASSUME BaseInv, NEW g \in Guis, KillChild(g) PROVE Kept
  <1>1. /\ loop[g].pc = "launched" /\ workers' \subseteq workers /\ UNCHANGED storeVars
        /\ UNCHANGED <<up, runtime, stopper, owner, orphans, unclear>>
    BY DEF KillChild
  <1>2. PICK outcome \in {"failed", "unconfirmed"} :
           /\ loop' = [loop EXCEPT ![g].pc = "closing", ![g].outcome = outcome]
           /\ outcome # "unconfirmed" => loop[g].fence \notin workers'
    BY DEF KillChild, Fence
  <1> DEFINE next == [loop[g] EXCEPT !.pc = "closing", !.outcome = outcome]
  <1>3. next \in ThreadTypes /\ Moves(g, next, workers')
    BY <1>1, <1>2, RunPcs, CloseMoves
  <1>4. loop' = [loop EXCEPT ![g] = next]
    BY <1>2
  <1> HIDE DEF next
  <1>5. TypeOK' /\ LeaseCoherence' /\ lease' = lease /\ JournalKept
    BY <1>1, StoreStutters
  <1> QED
    BY <1>1, <1>3, <1>4, <1>5, QuietMoves

\* The terminal report; that of a child whose end was not observed keeps the slot.
LEMMA SetupReportStep == ASSUME BaseInv, NEW g \in Guis, Report(g) PROVE Kept
  <1>0. /\ TypeOK /\ LeaseCoherence /\ loop[g].pc = "closing" /\ loop[g].pc \in SetupRun
        /\ loop[g].pc \in Holding
    BY TypesOf, RunPcs, PcSets DEF BaseInv, Report
  <1>1. Commit(g, Idle) /\ Idle \in ThreadTypes /\ Moves(g, Idle, workers)
    BY <1>0, IdleMoves DEF Report, SetupCommit
  <1>2. CASE loop[g].outcome = "unconfirmed"
    <2>1. \/ FlagUnconfirmed(loop[g].job, loop[g].fence)
          \/ UNCHANGED storeVars
      BY <1>2 DEF Report, FlagSetupUnconfirmed, Job, Fence
    <2>2. TypeOK' /\ LeaseCoherence' /\ lease' = lease /\ JournalKept
      BY <1>0, <2>1, HolderFacts, FlagKeeps, StoreStutters
    <2> QED
      BY <1>1, <2>2, CommitMoves
  <1>3. CASE loop[g].outcome # "unconfirmed"
    <2>1. \/ SetupWait(loop[g].job, loop[g].fence, Fingerprint(machine))
          \/ FinishSetup(loop[g].job, loop[g].fence, loop[g].outcome, Fingerprint(machine))
      BY <1>3 DEF Report, Job, Fence
    <2>2. TypeOK' /\ LeaseCoherence' /\ JournalKept /\ lease'["heavy"] = 0
      BY <1>0, <2>1, HolderFacts, WaitFrees, FinishSetupFrees
    <2>3. loop[g].fence \notin workers
      BY <1>0, <1>3 DEF BaseInv, Unstarted
    <2> QED
      BY <1>0, <1>1, <2>2, <2>3, SlotFreed DEF Commit, osVars
  <1> QED
    BY <1>2, <1>3

LEMMA BesideSteps ==
    ASSUME BaseInv, NEW g \in Guis, SetupHeartbeat(g) \/ SetupStopTimesOut(g)
    PROVE  Kept
  <1>1. CASE SetupHeartbeat(g)
    <2>1. /\ loop[g].pc \in SetupRun \ {"closing"}
          /\ loop[g] \in ThreadTypes
      BY <1>1, ThreadType DEF SetupHeartbeat, SetupBeating, SetupPcs
    <2>2. ASSUME NEW next \in ThreadTypes, Local(g, next), next.pc = loop[g].pc,
                 next.fence = loop[g].fence, next.job = loop[g].job,
                 next.outcome = loop[g].outcome
          PROVE  Kept
      <3>1. Moves(g, next, workers)
        BY <2>1, <2>2, ThreadType, RunOutcome, RunMoves
      <3> QED
        BY <2>2, <3>1, LocalMoves
    <2>3. CASE Local(g, [loop[g] EXCEPT !.cancel = TRUE])
      <3> DEFINE next == [loop[g] EXCEPT !.cancel = TRUE]
      <3>1. /\ next \in ThreadTypes /\ next.pc = loop[g].pc /\ next.fence = loop[g].fence
            /\ next.job = loop[g].job /\ next.outcome = loop[g].outcome
        BY <2>1 DEF ThreadTypes
      <3> QED
        BY <2>2, <2>3, <3>1
    <2>4. CASE Local(g, [loop[g] EXCEPT !.cancel = TRUE, !.lost = TRUE])
      <3> DEFINE next == [loop[g] EXCEPT !.cancel = TRUE, !.lost = TRUE]
      <3>1. /\ next \in ThreadTypes /\ next.pc = loop[g].pc /\ next.fence = loop[g].fence
            /\ next.job = loop[g].job /\ next.outcome = loop[g].outcome
        BY <2>1 DEF ThreadTypes
      <3> QED
        BY <2>2, <2>4, <3>1
    <2> QED
      BY <1>1, <2>3, <2>4 DEF SetupHeartbeat, Beat
  <1>2. CASE SetupStopTimesOut(g)
    <2> DEFINE next == [stopper[g] EXCEPT !.pc = "refused"]
    <2>1. next \in StopperTypes /\ next.pc = "refused"
      BY Stoppers DEF StopperTypes
    <2>2. Stopping(g, next) /\ UNCHANGED <<storeVars, loop>>
      BY <1>2 DEF SetupStopTimesOut
    <2> HIDE DEF next
    <2> QED
      BY <2>1, <2>2, StopperMoves
  <1> QED
    BY <1>1, <1>2

LEMMA SetupSteps == ASSUME BaseInv, SetupStep PROVE Kept
  <1>1. ASSUME NEW g \in Guis, SetupThread(g) PROVE Kept
    BY <1>1, PickSteps, PublishStep, BoundarySteps, RunCommitSteps, ChildJournalSteps, ChildStarts,
       KillChildStep, SetupReportStep DEF SetupThread
  <1>2. ASSUME NEW g \in Guis,
               \/ ChildUnconfirmed(g) \/ BookkeepingFails(g) \/ DeferSetup(g)
               \/ SetupHeartbeat(g) \/ SetupStopTimesOut(g)
        PROVE  Kept
    BY <1>2, BoundarySteps, RunCommitSteps, BesideSteps
  <1> QED
    BY <1>1, <1>2 DEF SetupStep

-------------------------------------------------------------------------------
(* The invariant of the dispatcher, kept by everything the executor adds *)

LEMMA ProcessesKeep ==
    ASSUME BaseInv, ProcessStep
    PROVE  BaseInv' /\ (SlotInv /\ stale = {} => SlotInv')
  <1>1. CASE Command
    BY <1>1, CommandStep DEF Kept
  <1>2. ASSUME NEW g \in Guis, OwnStep(g) PROVE Kept
    BY <1>2, OwnSteps
  <1>3. ASSUME NEW g \in Guis, ObserveChild(g)
        PROVE  BaseInv' /\ (SlotInv /\ stale = {} => SlotInv')
    <2>1. PICK gone \in BOOLEAN : gone = (g \in stale \/ runtime[g].fence \notin workers)
      OBVIOUS
    <2>2. ObserveWith(g, gone)
      BY <1>3, <2>1 DEF ObserveChild
    <2>3. stale = {} => (gone => runtime[g].fence \notin workers)
      BY <2>1
    <2> QED
      BY <2>2, <2>3, ObserveStep
  <1>4. ASSUME NEW f, WorkerExits(f) PROVE Kept
    BY <1>4, WorkerExitsStep
  <1> QED
    BY <1>1, <1>2, <1>3, <1>4 DEF ProcessStep, Kept

LEMMA WorldKeepsSlot == ASSUME BaseInv, World PROVE Kept
  <1>1. UNCHANGED vars \/ \E f : WorkerExits(f)
    BY DEF World, Drift, ChildWorks, ChildExits, DescendantsExit
  <1> QED
    BY <1>1, StutterHolds, WorkerExitsStep

LEMMA ServedKeepsSlot == ASSUME BaseInv, ServedCommand PROVE Kept
  <1>1. TypeOK /\ LeaseCoherence
    BY TypesOf DEF BaseInv
  <1>2. TypeOK' /\ LeaseCoherence' /\ lease' = lease /\ JournalKept
    BY <1>1, SetupCommandKeeps DEF ServedCommand
  <1>3. UNCHANGED <<up, runtime, loop, stopper, owner, orphans, workers, unclear>>
    BY DEF ServedCommand, guiVars, osVars
  <1> QED
    BY <1>2, <1>3, StoreStep

LEMMA ExecutorKeeps ==
    ASSUME BaseInv, [ExecutorNext]_allVars
    PROVE  BaseInv' /\ (SlotInv /\ stale = {} => SlotInv')
  <1>1. CASE UNCHANGED allVars
    BY <1>1, StutterHolds DEF allVars, Kept
  <1> QED
    BY <1>1, ProcessesKeep, WorldKeepsSlot, ServedKeepsSlot, SetupSteps DEF ExecutorNext, Kept

LEMMA ExecutorInitHolds == ExecutorInit => BaseInv /\ SlotInv
  BY InitHolds DEF ExecutorInit

LEMMA ExecutorBase == ExecutorSpec => []BaseInv
  <1>1. BaseInv /\ [ExecutorNext]_allVars => BaseInv'
    BY ExecutorKeeps
  <1> QED
    BY <1>1, ExecutorInitHolds, PTL DEF ExecutorSpec

-------------------------------------------------------------------------------
(* What the steps of Dispatcher leave of the setup half *)

\* A thread that runs a setup goes on with it, at most asked to cancel.
SetupThreadsStay ==
    \A h \in Guis : loop'[h].pc \in SetupPcs =>
        /\ loop'[h].pc = loop[h].pc /\ loop'[h].fence = loop[h].fence
        /\ loop'[h].job = loop[h].job /\ loop'[h].outcome = loop[h].outcome

\* The attempts of setups keep their rows and start no worker.
SetupJournalStays ==
    /\ Fences \subseteq Fences'
    /\ \A f \in Fences :
          /\ attempts'[f].op = attempts[f].op
          /\ Kind[attempts[f].op] = "setup_operation" => attempts'[f].launch = attempts[f].launch
    /\ \A f \in workers' \ workers : Kind[attempts[f].op] = "job"

LEMMA ThreadStays ==
    ASSUME BaseInv, NEW g \in Guis, NEW next, loop' = [loop EXCEPT ![g] = next],
           next.pc \notin SetupPcs
    PROVE  SetupThreadsStay
  BY TypesOf DEF BaseInv, SetupThreadsStay

LEMMA JournalStays ==
    ASSUME JournalKept, workers' \subseteq workers PROVE SetupJournalStays
  BY DEF JournalKept, SetupJournalStays, Fences

LEMMA OwnStepStays ==
    ASSUME BaseInv, NEW g \in Guis, OwnStep(g)
    PROVE  SetupThreadsStay /\ SetupJournalStays
  <1> USE JournalStays
  <1>0. /\ TypeOK /\ LeaseCoherence /\ loop \in [Guis -> ThreadTypes]
        /\ loop[g] \in ThreadTypes
        /\ HeavyOnly /\ \A h \in Guis : runtime[h].fence \in 0..Len(attempts)
    BY TypesOf, ThreadType, RuntimeType DEF BaseInv, RuntimeTypes
  <1>1. ASSUME loop' = loop PROVE SetupThreadsStay
    BY <1>1 DEF SetupThreadsStay
  <1>2. ASSUME UNCHANGED storeVars, workers' \subseteq workers PROVE SetupJournalStays
    BY <1>2, StoreStutters
  <1>3. /\ \A pc \in {"granted", "starting", "spawned", "executing", "killing", "unstarted",
                      "exited", "idle", "down", "checking"} : pc \notin SetupPcs
        /\ Idle.pc = "idle" /\ Down.pc = "down"
    BY DEF SetupPcs, SetupRun, Idle, Down
  <1>4. CASE \/ ActivateRead(g) \/ ActivateFails(g) \/ StopBegin(g) \/ StopRead(g)
             \/ StopJoined(g) \/ StopTimesOut(g) \/ StartGui(g)
    BY <1>1, <1>2, <1>4 DEF ActivateRead, ActivateFails, StopBegin, StopRead, StopJoined,
                            StopTimesOut, Stopping, StartGui, osVars
  <1>5. ASSUME NEW next, Local(g, next), next.pc \notin SetupPcs
        PROVE  SetupThreadsStay /\ SetupJournalStays
    BY <1>2, <1>5, ThreadStays DEF Local, osVars
  <1>6. CASE \/ Pick(g) \/ LoopEnds(g) \/ BeginRefused(g) \/ PublishActive(g)
             \/ SpawnFails(g) \/ ConfirmLaunchFails(g) \/ SendCancel(g) \/ WorkerAnswered(g)
             \/ GiveUp(g) \/ DeferReport(g) \/ Heartbeat(g)
    <2> USE <1>0, <1>3, <1>5
    <2>1. CASE Pick(g)
      <3>1. PICK o, n : Local(g, [Idle EXCEPT !.pc = "checking", !.job = o, !.revision = n])
        BY <2>1 DEF Pick
      <3>2. [Idle EXCEPT !.pc = "checking", !.job = o, !.revision = n].pc = "checking"
        BY DEF Idle
      <3> QED
        BY <3>1, <3>2
    <2>2. CASE LoopEnds(g) \/ BeginRefused(g) \/ DeferReport(g)
      BY <2>2 DEF LoopEnds, BeginRefused, DeferReport
    <2>3. CASE PublishActive(g)
      <3>1. [loop[g] EXCEPT !.pc = "starting", !.active = TRUE].pc = "starting"
        BY DEF ThreadTypes
      <3> QED
        BY <2>3, <3>1 DEF PublishActive
    <2>4. ASSUME NEW pc \in {"unstarted", "killing"}, Local(g, [loop[g] EXCEPT !.pc = pc])
          PROVE  SetupThreadsStay /\ SetupJournalStays
      <3>1. [loop[g] EXCEPT !.pc = pc].pc = pc
        BY DEF ThreadTypes
      <3> QED
        BY <2>4, <3>1
    <2>5. CASE SendCancel(g)
      <3>1. [loop[g] EXCEPT !.sent = TRUE].pc = "executing"
        BY <2>5 DEF ThreadTypes, SendCancel
      <3> QED
        BY <2>5, <3>1 DEF SendCancel
    <2>6. CASE WorkerAnswered(g)
      <3>1. PICK outcome : Local(g, [loop[g] EXCEPT !.pc = "exited", !.outcome = outcome])
        BY <2>6 DEF WorkerAnswered
      <3>2. [loop[g] EXCEPT !.pc = "exited", !.outcome = outcome].pc = "exited"
        BY DEF ThreadTypes
      <3> QED
        BY <3>1, <3>2
    <2>7. CASE Heartbeat(g)
      <3>1. loop[g].pc \notin SetupPcs
        BY <2>7 DEF Heartbeat, Beating
      <3>2. /\ [loop[g] EXCEPT !.cancel = TRUE].pc = loop[g].pc
            /\ [loop[g] EXCEPT !.cancel = TRUE, !.lost = TRUE].pc = loop[g].pc
        BY DEF ThreadTypes
      <3> QED
        BY <2>7, <3>1, <3>2 DEF Heartbeat, Beat
    <2> QED
      BY <1>6, <2>1, <2>2, <2>3, <2>4, <2>5, <2>6, <2>7 DEF SpawnFails, ConfirmLaunchFails, GiveUp
  <1>7. CASE ActivateCommit(g)
    <2>1. /\ loop' = [loop EXCEPT ![g] = Idle] /\ workers' = workers
          /\ Recover(DecisionsOf(g))
      BY <1>7 DEF ActivateCommit, osVars
    <2>2. JournalKept
      BY <1>0, <2>1, RecoverFrees
    <2> QED
      BY <1>3, <2>1, <2>2, ThreadStays
  <1>8. CASE PrestartFails(g) \/ Flag(g)
    <2>1. loop' = [loop EXCEPT ![g] = Idle] /\ workers' = workers
      BY <1>8 DEF PrestartFails, Flag, Commit, osVars
    <2>2. attempts' = attempts
      BY <1>8 DEF PrestartFails, Flag, BlockJob, FlagUnconfirmed, storeVars
    <2> QED
      BY <1>3, <2>1, <2>2, ThreadStays DEF JournalKept
  <1>9. CASE Begin(g)
    <2> DEFINE next == [loop[g] EXCEPT !.pc = "granted", !.fence = Len(attempts) + 1, !.revision = 0]
    <2>1. loop' = [loop EXCEPT ![g] = next] /\ next.pc \notin SetupPcs
      BY <1>0, <1>3, <1>9 DEF Begin, ThreadTypes
    <2> HIDE DEF next
    <2>2. /\ loop[g].job \in Ops /\ Queued(loop[g].job) /\ workers' = workers
          /\ BeginAttempt(loop[g].job, loop[g].revision)
      BY <1>9, KindIsQueued DEF Begin, BaseInv, Threads
    <2>3. SetupJournalStays
      <3>1. TypeOK /\ LeaseCoherence /\ Len(attempts) \in Nat
        BY <1>0, TypesOf DEF BaseInv, StoreOK, TypeOK
      <3>2. /\ Len(attempts') = Len(attempts) + 1
            /\ \A f \in Fences : attempts'[f] = attempts[f]
        BY <2>2, <3>1, BeginTakes
      <3>3. Fences \subseteq Fences'
        BY <3>1, <3>2 DEF Fences
      <3> QED
        BY <2>2, <3>2, <3>3 DEF SetupJournalStays
    <2> QED
      BY <2>1, <2>3, ThreadStays
  <1>10. CASE Spawn(g) \/ Kill(g)
    <2>1. PICK next : loop' = [loop EXCEPT ![g] = next] /\ next.pc \notin SetupPcs
      BY <1>0, <1>3, <1>10 DEF Spawn, Kill, ThreadTypes
    <2>2. UNCHANGED storeVars /\ workers' \subseteq workers \cup {loop[g].fence}
      BY <1>10 DEF Spawn, Kill
    <2>3. Kind[attempts[loop[g].fence].op] = "job"
      BY <1>10, HolderFacts DEF Spawn, Kill, Holding, JobPcs
    <2>4. SetupJournalStays
      BY <2>2, <2>3, StoreStutters DEF SetupJournalStays, JournalKept, Fences
    <2> QED
      BY <2>1, <2>4, ThreadStays
  <1>11. CASE ConfirmLaunch(g) \/ RecordNoWorker(g)
    <2>1. PICK next : loop' = [loop EXCEPT ![g] = next] /\ next.pc \notin SetupPcs
      BY <1>0, <1>3, <1>11 DEF ConfirmLaunch, RecordNoWorker, Commit, ThreadTypes
    <2>2. /\ loop[g].pc \in JobPcs /\ loop[g].pc \in Holding /\ workers' = workers
      BY <1>11 DEF ConfirmLaunch, RecordNoWorker, Commit, osVars, Holding, JobPcs
    <2>3. /\ loop[g].fence \in Fences /\ loop[g].job \in Ops
          /\ Kind[attempts[loop[g].fence].op] = "job"
      BY <2>2, HolderFacts
    <2>4. CASE UNCHANGED storeVars
      BY <1>2, <2>1, <2>2, <2>4, ThreadStays
    <2>5. CASE \E outcome \in {"confirmed", "failed"} : RecordLaunch(loop[g].job, loop[g].fence, outcome)
      <3>1. /\ Len(attempts') = Len(attempts)
            /\ \A f \in Fences : attempts'[f].op = attempts[f].op
            /\ \A f \in Fences \ {loop[g].fence} : attempts'[f].launch = attempts[f].launch
        BY <1>0, <2>3, <2>5, RecordLaunchKeeps
      <3>2. SetupJournalStays
        BY <2>2, <2>3, <3>1 DEF SetupJournalStays, Fences
      <3> QED
        BY <2>1, <3>2, ThreadStays
    <2> QED
      BY <1>11, <2>4, <2>5 DEF ConfirmLaunch, RecordNoWorker
  <1>12. CASE Finish(g)
    <2>1. /\ loop' = [loop EXCEPT ![g] = Idle] /\ workers' = workers
          /\ loop[g].pc \in Holding /\ loop[g].pc = "exited"
      BY <1>12 DEF Finish, Commit, osVars, Holding, JobPcs
    <2>2. PICK outcome \in {"succeeded", "failed", "cancelled"} :
             FinishAttempt(loop[g].job, loop[g].fence, outcome)
      BY <1>0, <1>12, <2>1, ThreadType DEF Finish, ThreadTypes
    <2>3. JournalKept
      BY <1>0, <2>1, <2>2, HolderFacts, FinishFrees
    <2> QED
      BY <1>3, <2>1, <2>3, ThreadStays
  <1>13. CASE StopCancel(g)
    <2>1. workers' = workers /\ SetupThreadsStay
      <3>1. PICK c : loop' = [loop EXCEPT ![g].cancel = c]
        BY <1>13 DEF StopCancel
      <3> QED
        BY <1>0, <1>13, <3>1 DEF StopCancel, Stopping, osVars, SetupThreadsStay, ThreadTypes
    <2>2. CASE UNCHANGED storeVars
      BY <1>2, <2>1, <2>2
    <2>3. CASE Transition(attempts[stopper[g].fence].op, stopper[g].revision, "cancelling", 0)
      <3>1. attempts[stopper[g].fence].op \in Ops
        BY <1>0, <1>13, Stoppers, AttemptType DEF StopCancel
      <3> QED
        BY <1>0, <2>1, <2>3, <3>1, CancellingKeeps
    <2> QED
      BY <1>13, <2>2, <2>3 DEF StopCancel
  <1>14. CASE Crash(g)
    <2>1. loop' = [loop EXCEPT ![g] = Down] /\ UNCHANGED storeVars /\ workers' = workers
      BY <1>14 DEF Crash
    <2> QED
      BY <1>2, <1>3, <2>1, ThreadStays
  <1> QED
    BY <1>4, <1>6, <1>7, <1>8, <1>9, <1>10, <1>11, <1>12, <1>13, <1>14 DEF OwnStep

-------------------------------------------------------------------------------
(* The children and the journal *)

\* Only setups have children that are known by what they do; before one is
\* spawned, and as long as its identity is not recorded, the journal says so.
Children ==
    /\ DOMAIN doing \subseteq Fences
    /\ \A f \in DOMAIN doing :
          /\ doing[f] = [command |-> doing[f].command, journaled |-> doing[f].journaled]
          /\ Kind[attempts[f].op] = "setup_operation"
    /\ \A g \in Guis : loop[g].pc = "launching" => attempts[loop[g].fence].launch = "intended"

ChildInv == Children /\ JournalNamesTheChild

LaunchingStays ==
    \A h \in Guis : loop'[h].pc = "launching" =>
        loop[h].pc = "launching" /\ loop'[h].fence = loop[h].fence

LEMMA ChildrenStay ==
    ASSUME BaseInv, ChildInv, doing' = doing, SetupJournalStays, LaunchingStays
    PROVE  ChildInv'
  <1>1. \A h \in Guis : loop[h].pc = "launching" =>
           loop[h].fence \in Fences /\ Kind[attempts[loop[h].fence].op] = "setup_operation"
    BY HolderFacts DEF Holding, SetupRun
  <1>2. Children'
    BY <1>1 DEF ChildInv, Children, SetupJournalStays, LaunchingStays
  <1>3. JournalNamesTheChild'
    <2> SUFFICES ASSUME NEW f \in workers' \cap DOMAIN doing, ~doing[f].journaled
                 PROVE  attempts'[f].launch = "intended"
      BY DEF JournalNamesTheChild
    <2>1. f \in Fences /\ Kind[attempts[f].op] = "setup_operation"
      BY DEF ChildInv, Children
    <2>2. f \in workers
      BY <2>1 DEF SetupJournalStays
    <2> QED
      BY <2>1, <2>2 DEF ChildInv, JournalNamesTheChild, SetupJournalStays
  <1> QED
    BY <1>2, <1>3 DEF ChildInv

\* Most steps of the thread do not touch the children.
LEMMA QuietSetupStays ==
    ASSUME BaseInv, NEW g \in Guis,
           \/ PickSetup(g) \/ ObservePlan(g) \/ BeginSetup(g) \/ BeginSetupRefused(g)
           \/ PublishRun(g) \/ WaitOutdated(g)
           \/ Reset(g) \/ Boundary(g) \/ StartStep(g) \/ StepRefused(g) \/ FinishStep(g)
           \/ ChildBoundary(g) \/ KillChild(g) \/ ChildEnded(g) \/ Report(g)
           \/ ChildUnconfirmed(g) \/ BookkeepingFails(g) \/ DeferSetup(g)
           \/ SetupHeartbeat(g) \/ SetupStopTimesOut(g)
    PROVE  doing' = doing /\ SetupJournalStays /\ LaunchingStays
  <1> USE JournalStays
  <1>0. /\ TypeOK /\ LeaseCoherence /\ loop \in [Guis -> ThreadTypes]
        /\ loop[g] \in ThreadTypes /\ Idle.pc = "idle"
    BY TypesOf, ThreadType DEF BaseInv, Idle
  <1>1. ASSUME NEW next, loop' = [loop EXCEPT ![g] = next], next.pc # "launching"
        PROVE  LaunchingStays
    BY <1>0, <1>1 DEF LaunchingStays
  <1>2. ASSUME UNCHANGED storeVars, workers' \subseteq workers PROVE SetupJournalStays
    BY <1>2, StoreStutters
  <1>3. ASSUME NEW next, NEW x, SetupLocal(g, next, x), next.pc # "launching"
        PROVE  doing' = doing /\ SetupJournalStays /\ LaunchingStays
    BY <1>1, <1>2, <1>3 DEF SetupLocal, Local, osVars, worldVars
  <1>4. ASSUME NEW outcome, Close(g, outcome)
        PROVE  doing' = doing /\ SetupJournalStays /\ LaunchingStays
    <2>1. [loop[g] EXCEPT !.pc = "closing", !.outcome = outcome].pc = "closing"
      BY <1>0 DEF ThreadTypes
    <2> QED
      BY <1>3, <1>4, <2>1 DEF Close
  <1>5. ASSUME NEW pc, NEW x, pc # "launching", SetupLocal(g, Goto(g, pc), x)
        PROVE  doing' = doing /\ SetupJournalStays /\ LaunchingStays
    <2>1. Goto(g, pc).pc = pc
      BY <1>0 DEF ThreadTypes, Goto
    <2> QED
      BY <1>3, <1>5, <2>1
  <1>6. CASE \/ ObservePlan(g) \/ BeginSetupRefused(g) \/ Boundary(g) \/ StepRefused(g)
             \/ ChildBoundary(g) \/ ChildEnded(g) \/ ChildUnconfirmed(g)
             \/ BookkeepingFails(g) \/ DeferSetup(g)
    BY <1>0, <1>3, <1>4, <1>5, <1>6
       DEF ObservePlan, BeginSetupRefused, Boundary, StepRefused, ChildBoundary, ChildEnded,
           ChildUnconfirmed, BookkeepingFails, DeferSetup
  <1>7. CASE PickSetup(g)
    <2>1. PICK o, n : SetupLocal(g, [Idle EXCEPT !.pc = "picked", !.job = o, !.revision = n], NoRun)
      BY <1>7 DEF PickSetup
    <2>2. [Idle EXCEPT !.pc = "picked", !.job = o, !.revision = n].pc = "picked"
      BY DEF Idle
    <2> QED
      BY <1>3, <2>1, <2>2
  <1>8. CASE PublishRun(g)
    <2>1. PICK pc \in {"resetting", "outdated"} :
             SetupLocal(g, [loop[g] EXCEPT !.active = TRUE, !.pc = pc], NoRun)
      BY <1>8 DEF PublishRun
    <2>2. [loop[g] EXCEPT !.active = TRUE, !.pc = pc].pc = pc
      BY <1>0 DEF ThreadTypes
    <2> QED
      BY <1>3, <2>1, <2>2
  <1>9. CASE BeginSetup(g)
    <2> DEFINE next == [loop[g] EXCEPT !.pc = "begun", !.fence = Len(attempts) + 1, !.revision = 0]
    <2>1. loop' = [loop EXCEPT ![g] = next] /\ next.pc = "begun"
      BY <1>0, <1>9 DEF BeginSetup, ThreadTypes
    <2> HIDE DEF next
    <2>2. /\ loop[g].job \in Ops /\ Queued(loop[g].job) /\ workers' = workers /\ doing' = doing
          /\ BeginAttempt(loop[g].job, loop[g].revision)
      BY <1>9, KindIsQueued DEF BeginSetup, BaseInv, Threads, Job, worldVars
    <2>3. SetupJournalStays
      BY <1>0, <2>2, BeginTakes, TypesOf DEF SetupJournalStays, Fences, TypeOK
    <2> QED
      BY <1>1, <2>1, <2>2, <2>3
  <1>10. ASSUME NEW next, NEW x, SetupCommit(g, next, x), next.pc # "launching", JournalKept
        PROVE  doing' = doing /\ SetupJournalStays /\ LaunchingStays
    BY <1>1, <1>10 DEF SetupCommit, Commit, osVars, worldVars
  <1>11. CASE Reset(g) \/ StartStep(g) \/ FinishStep(g)
    <2>1. attempts' = attempts
      BY <1>11 DEF Reset, StartStep, FinishStep, ResetSteps, StepStarted, StepFinished, storeVars
    <2>2. \E next, x : SetupCommit(g, next, x) /\ next.pc # "launching"
      <3>1. /\ Goto(g, "boundary").pc # "launching" /\ Goto(g, "working").pc # "launching"
            /\ [loop[g] EXCEPT !.pc = "closing", !.outcome = "wait"].pc # "launching"
            /\ [loop[g] EXCEPT !.pc = "closing", !.outcome = "failed"].pc # "launching"
        BY <1>0 DEF ThreadTypes, Goto
      <3>2. CASE Reset(g) \/ StartStep(g)
        BY <3>1, <3>2 DEF Reset, StartStep
      <3>3. CASE FinishStep(g)
        <4>1. \/ SetupCommit(g, Goto(g, "boundary"), [NoRun EXCEPT !.index = exec[g].index + 1])
              \/ SetupCommit(g, [loop[g] EXCEPT !.pc = "closing", !.outcome = "wait"], NoRun)
              \/ SetupCommit(g, [loop[g] EXCEPT !.pc = "closing", !.outcome = "failed"], NoRun)
          BY <3>3 DEF FinishStep
        <4> QED
          BY <3>1, <4>1
      <3> QED
        BY <1>11, <3>2, <3>3
    <2> QED
      BY <1>10, <2>1, <2>2 DEF JournalKept
  <1>12. CASE WaitOutdated(g) \/ Report(g)
    <2>1. SetupCommit(g, Idle, NoRun) /\ loop[g].pc \in SetupRun
      BY <1>12 DEF WaitOutdated, Report, SetupRun
    <2>2. loop[g].job \in Ops /\ Kind[loop[g].job] = "setup_operation"
      BY <2>1, HolderFacts DEF Holding
    <2>3. \/ \E seen : SetupWait(loop[g].job, loop[g].fence, seen)
          \/ \E outcome, seen : FinishSetup(loop[g].job, loop[g].fence, outcome, seen)
          \/ FlagUnconfirmed(loop[g].job, loop[g].fence) \/ UNCHANGED storeVars
      BY <1>12 DEF WaitOutdated, Report, FlagSetupUnconfirmed, Job, Fence
    <2>4. JournalKept
      BY <1>0, <2>2, <2>3, WaitFrees, FinishSetupFrees, FlagKeeps, StoreStutters
    <2> QED
      BY <1>0, <1>10, <2>1, <2>4
  <1>13. CASE KillChild(g)
    <2>1. /\ UNCHANGED storeVars /\ workers' \subseteq workers /\ doing' = doing
      BY <1>13 DEF KillChild, worldVars
    <2>2. PICK outcome : loop' = [loop EXCEPT ![g].pc = "closing", ![g].outcome = outcome]
      BY <1>13 DEF KillChild
    <2>3. LaunchingStays
      BY <1>0, <2>2 DEF LaunchingStays, ThreadTypes
    <2> QED
      BY <1>2, <2>1, <2>3
  <1>14. CASE SetupHeartbeat(g) \/ SetupStopTimesOut(g)
    <2>1. UNCHANGED storeVars /\ workers' = workers /\ doing' = doing
      BY <1>14 DEF SetupHeartbeat, SetupStopTimesOut, Beat, Local, Stopping, osVars, worldVars
    <2>2. \/ loop' = loop
          \/ loop' = [loop EXCEPT ![g] = [loop[g] EXCEPT !.cancel = TRUE]]
          \/ loop' = [loop EXCEPT ![g] = [loop[g] EXCEPT !.cancel = TRUE, !.lost = TRUE]]
      BY <1>14 DEF SetupHeartbeat, SetupStopTimesOut, Beat, Local
    <2>3. ASSUME NEW next, loop' = [loop EXCEPT ![g] = next], next.pc = loop[g].pc,
                 next.fence = loop[g].fence
          PROVE  LaunchingStays
      BY <1>0, <2>3 DEF LaunchingStays
    <2>4. /\ [loop[g] EXCEPT !.cancel = TRUE].pc = loop[g].pc
          /\ [loop[g] EXCEPT !.cancel = TRUE].fence = loop[g].fence
          /\ [loop[g] EXCEPT !.cancel = TRUE, !.lost = TRUE].pc = loop[g].pc
          /\ [loop[g] EXCEPT !.cancel = TRUE, !.lost = TRUE].fence = loop[g].fence
      BY <1>0 DEF ThreadTypes
    <2>5. LaunchingStays
      BY <2>2, <2>3, <2>4 DEF LaunchingStays
    <2> QED
      BY <1>2, <2>1, <2>5
  <1> QED
    BY <1>6, <1>7, <1>8, <1>9, <1>11, <1>12, <1>13, <1>14

\* The record of a child follows its life, in this order.
LEMMA ChildSteps ==
    ASSUME BaseInv, ChildInv, NEW g \in Guis,
           Intend(g) \/ SpawnChild(g) \/ SpawnChildFails(g) \/ ConfirmChild(g)
    PROVE  ChildInv'
  <1>0. /\ loop \in [Guis -> ThreadTypes] /\ loop[g] \in ThreadTypes
        /\ loop[g].pc \in SetupRun /\ loop[g].pc \in Holding
    BY TypesOf, ThreadType
       DEF BaseInv, Intend, SpawnChild, SpawnChildFails, ConfirmChild, Holding, SetupRun
  <1>1. /\ loop[g].fence \in Fences /\ Kind[attempts[loop[g].fence].op] = "setup_operation"
        /\ \A h \in Guis \ {g} : loop[h].pc # "launching"
    BY <1>0, HolderFacts DEF Holding, SetupRun
  <1>2. ASSUME Intend(g) \/ SpawnChildFails(g) \/ ConfirmChild(g)
        PROVE  /\ workers' = workers /\ Fences' = Fences
               /\ \A f \in Fences : /\ attempts'[f].op = attempts[f].op
                                    /\ f # loop[g].fence => attempts'[f].launch = attempts[f].launch
               /\ attempts'[loop[g].fence].launch =
                     IF loop[g].pc = "intending" THEN "intended"
                     ELSE IF loop[g].pc = "launching" THEN "failed" ELSE "confirmed"
    BY <1>2, ChildJournalSteps
       DEF Intend, SpawnChildFails, ConfirmChild, SetupCommit, Commit, osVars, Fence, Fences
  <1>3. CASE Intend(g)
    <2>1. /\ doing' = doing /\ loop' = [loop EXCEPT ![g] = Goto(g, "launching")]
          /\ Goto(g, "launching").fence = loop[g].fence /\ loop[g].pc = "intending"
      BY <1>0, <1>3 DEF Intend, Commit, Goto, ThreadTypes
    <2>2. attempts'[loop[g].fence].launch = "intended"
      BY <1>2, <1>3, <2>1
    <2>3. Children'
      BY <1>0, <1>1, <1>2, <1>3, <2>1, <2>2 DEF ChildInv, Children
    <2>4. JournalNamesTheChild'
      BY <1>1, <1>2, <1>3, <2>1, <2>2 DEF ChildInv, Children, JournalNamesTheChild
    <2> QED
      BY <2>3, <2>4 DEF ChildInv
  <1>4. CASE SpawnChildFails(g)
    <2>1. /\ doing' = doing /\ loop[g].pc = "launching"
          /\ loop' = [loop EXCEPT ![g] = [loop[g] EXCEPT !.pc = "closing", !.outcome = "failed"]]
      BY <1>4 DEF SpawnChildFails, SetupCommit, Commit, worldVars
    <2>2. loop[g].fence \notin workers
      BY <2>1, ThreadType DEF Childless
    <2>3. loop'[g].pc = "closing" /\ \A h \in Guis \ {g} : loop'[h] = loop[h]
      BY <1>0, <2>1 DEF ThreadTypes
    <2>4. Children'
      BY <1>1, <1>2, <1>4, <2>1, <2>3 DEF ChildInv, Children
    <2>5. JournalNamesTheChild'
      BY <1>1, <1>2, <1>4, <2>1, <2>2 DEF ChildInv, Children, JournalNamesTheChild
    <2> QED
      BY <2>4, <2>5 DEF ChildInv
  <1>5. CASE ConfirmChild(g)
    <2>1. /\ doing' = [doing EXCEPT ![loop[g].fence].journaled = TRUE] /\ loop[g].pc = "launched"
          /\ loop' = [loop EXCEPT ![g] = Goto(g, "waiting")]
      BY <1>5 DEF ConfirmChild, Commit, Fence
    <2>2. loop'[g].pc = "waiting" /\ \A h \in Guis \ {g} : loop'[h] = loop[h]
      BY <1>0, <2>1 DEF ThreadTypes, Goto
    <2>3. /\ DOMAIN doing' = DOMAIN doing
          /\ \A f \in DOMAIN doing : f # loop[g].fence => doing'[f] = doing[f]
          /\ loop[g].fence \in DOMAIN doing =>
                doing'[loop[g].fence] = [doing[loop[g].fence] EXCEPT !.journaled = TRUE]
      BY <2>1
    <2>4. \A f \in DOMAIN doing :
             doing[f] = [command |-> doing[f].command, journaled |-> doing[f].journaled]
      BY DEF ChildInv, Children
    <2>5. loop[g].fence \in DOMAIN doing =>
             doing'[loop[g].fence] = [command |-> doing[loop[g].fence].command, journaled |-> TRUE]
      BY <2>3, <2>4
    <2>6. Children'
      BY <1>1, <1>2, <1>5, <2>2, <2>3, <2>5 DEF ChildInv, Children
    <2>7. JournalNamesTheChild'
      BY <1>1, <1>2, <1>5, <2>3, <2>5 DEF ChildInv, Children, JournalNamesTheChild
    <2> QED
      BY <2>6, <2>7 DEF ChildInv
  <1>6. CASE SpawnChild(g)
    <2> DEFINE child == [command |-> ChildCommand(Kind_(g), exec[g].phase), journaled |-> FALSE]
    <2>1. /\ doing' = [f \in DOMAIN doing \cup {loop[g].fence} |->
                          IF f = loop[g].fence THEN child ELSE doing[f]]
          /\ loop[g].pc = "launching" /\ workers' = workers \cup {loop[g].fence}
          /\ loop' = [loop EXCEPT ![g].pc = "launched"] /\ attempts' = attempts
      BY <1>6 DEF SpawnChild, Fence, storeVars
    <2>2. child = [command |-> child.command, journaled |-> child.journaled]
      OBVIOUS
    <2> HIDE DEF child
    <2>3. loop'[g].pc = "launched" /\ \A h \in Guis \ {g} : loop'[h] = loop[h]
      BY <1>0, <2>1 DEF ThreadTypes
    <2>4. attempts[loop[g].fence].launch = "intended"
      BY <2>1 DEF ChildInv, Children
    <2>5. Children'
      BY <1>1, <2>1, <2>2, <2>3 DEF ChildInv, Children, Fences
    <2>6. JournalNamesTheChild'
      BY <2>1, <2>4 DEF ChildInv, JournalNamesTheChild
    <2> QED
      BY <2>5, <2>6 DEF ChildInv
  <1> QED
    BY <1>3, <1>4, <1>5, <1>6

LEMMA ChildInvStep == ASSUME BaseInv, ChildInv, [ExecutorNext]_allVars PROVE ChildInv'
  <1>1. ASSUME doing' = doing, loop' = loop, JournalKept, workers' \subseteq workers PROVE ChildInv'
    BY <1>1, ChildrenStay, JournalStays DEF LaunchingStays
  <1>2. TypeOK /\ LeaseCoherence
    BY TypesOf DEF BaseInv
  <1>3. CASE SetupStep
    BY <1>3, QuietSetupStays, ChildSteps, ChildrenStay DEF SetupStep, SetupThread
  <1>4. CASE ServedCommand
    BY <1>1, <1>2, <1>4, SetupCommandKeeps DEF ServedCommand, guiVars, osVars, worldVars
  <1>5. CASE World
    <2>1. /\ UNCHANGED storeVars /\ loop' = loop /\ workers' \subseteq workers /\ doing' = doing
      BY <1>5 DEF World, Drift, ChildWorks, ChildExits, DescendantsExit, WorkerExits, vars,
                  guiVars, osVars
    <2> QED
      BY <1>1, <2>1, StoreStutters
  <1>6. CASE ProcessStep
    <2>1. doing' = doing
      BY <1>6 DEF ProcessStep
    <2>2. CASE Command
      BY <1>1, <1>2, <2>1, <2>2, CommandKeeps DEF Command, guiVars, osVars
    <2>3. CASE \E g \in Guis : OwnStep(g)
      <3>1. SetupThreadsStay /\ SetupJournalStays
        BY <2>3, OwnStepStays
      <3>2. LaunchingStays
        BY <3>1 DEF SetupThreadsStay, LaunchingStays, SetupPcs, SetupRun
      <3> QED
        BY <2>1, <3>1, <3>2, ChildrenStay
    <2>4. CASE \E g \in Guis : ObserveChild(g)
      <3>1. UNCHANGED <<storeVars, loop, workers>>
        BY <2>4 DEF ObserveChild, ObserveWith
      <3> QED
        BY <1>1, <2>1, <3>1, StoreStutters
    <2>5. CASE \E f : WorkerExits(f)
      <3>1. UNCHANGED storeVars /\ loop' = loop /\ workers' \subseteq workers
        BY <2>5 DEF WorkerExits, guiVars
      <3> QED
        BY <1>1, <2>1, <3>1, StoreStutters
    <2> QED
      BY <1>6, <2>2, <2>3, <2>4, <2>5 DEF ProcessStep
  <1>7. CASE UNCHANGED allVars
    <2>1. UNCHANGED storeVars /\ loop' = loop /\ workers' = workers /\ doing' = doing
      BY <1>7 DEF allVars, vars, guiVars, osVars, worldVars
    <2> QED
      BY <1>1, <2>1, StoreStutters
  <1> QED
    BY <1>3, <1>4, <1>5, <1>6, <1>7 DEF ExecutorNext

LEMMA ChildInvInit == ASSUME ExecutorInit PROVE ChildInv
  <1>1. doing = <<>> /\ \A g \in Guis : loop[g] = Down
    BY DEF ExecutorInit, Init
  <1>2. DOMAIN doing = {} /\ Down.pc = "down"
    BY <1>1 DEF Down, Idle
  <1> QED
    BY <1>1, <1>2 DEF ChildInv, Children, JournalNamesTheChild

-------------------------------------------------------------------------------
(* The theorems *)

LEMMA ChildInvariance == ExecutorSpec => [](BaseInv /\ ChildInv)
  <1>1. ExecutorInit => BaseInv /\ ChildInv
    BY ExecutorInitHolds, ChildInvInit
  <1>2. BaseInv /\ ChildInv /\ [ExecutorNext]_allVars => (BaseInv /\ ChildInv)'
    BY ExecutorKeeps, ChildInvStep
  <1> QED
    BY <1>1, <1>2, PTL DEF ExecutorSpec

\* The locals of the thread that runs a setup keep their shape, as do those of
\* the other threads beside it (setup_executor.py, job_dispatcher.py).
THEOREM SetupTypeOK == ExecutorSpec => []DispatcherTypeOK
  <1>1. BaseInv => DispatcherTypeOK
    BY DEF BaseInv
  <1> QED
    BY <1>1, ExecutorBase, PTL

\* A thread that runs a setup keeps its slot until it has reported, whoever
\* recovers meanwhile (setup_executor.py dispatch, store.py recover).
THEOREM SetupLiveOwnerKeepsLease == ExecutorSpec => []LiveOwnerKeepsLease
  <1>1. BaseInv => LiveOwnerKeepsLease
    <2> SUFFICES ASSUME BaseInv, NEW g \in Guis, loop[g].pc \in Holding
                 PROVE  /\ Fenced(loop[g].job, loop[g].fence)
                        /\ owner[loop[g].fence] = g /\ loop[g].fence \notin orphans
      BY DEF LiveOwnerKeepsLease
    <2>1. Slot(loop[g].job) = "heavy"
      BY HolderFacts, HeavySlot
    <2> QED
      BY <2>1, HolderFacts DEF Fenced, HeldFence
  <1> QED
    BY <1>1, ExecutorBase, PTL

\* With many children to an attempt, the journal still says "launch failed" only
\* while none of them runs (setup_repository.py child_intent, step_launched).
THEOREM SetupLaunchFailedMeansNoWorker == ExecutorSpec => []LaunchFailedMeansNoWorker
  <1>1. BaseInv => LaunchFailedMeansNoWorker
    BY DEF BaseInv
  <1> QED
    BY <1>1, ExecutorBase, PTL

\* As long as the journal does not name the child that runs, it says so: between
\* a spawn and its record recovery concludes nothing, however many processes
\* have the store open (setup_repository.py child_intent, step_launched).
THEOREM SetupJournalNamesTheChild == ExecutorSpec => []JournalNamesTheChild
  <1>1. BaseInv /\ ChildInv => JournalNamesTheChild
    BY DEF ChildInv
  <1> QED
    BY <1>1, ChildInvariance, PTL

\* No activation works with what it has read of an earlier child.
LEMMA NothingStale ==
    ASSUME BaseInv, \A g, h \in Guis : g = h, stale = {}, [ExecutorNext]_allVars
    PROVE  stale' = {}
  <1>1. ASSUME NEW g \in Guis, loop[g].pc = "intending" PROVE runtime[g].state = "active"
    BY <1>1 DEF BaseInv, Threads
  <1>2. ASSUME NEW g \in Guis, Intend(g) PROVE stale' = {}
    BY <1>1, <1>2 DEF Intend
  <1>3. stale' = stale \/ stale' \subseteq stale \/ \E g \in Guis : Intend(g)
    <2>1. CASE SetupStep
      <3> USE DEF worldVars
      <3>1. PICK g \in Guis : \/ SetupThread(g) \/ ChildUnconfirmed(g) \/ BookkeepingFails(g)
                              \/ DeferSetup(g) \/ SetupHeartbeat(g) \/ SetupStopTimesOut(g)
        BY <2>1 DEF SetupStep
      <3>2. ASSUME NEW next, NEW x, SetupLocal(g, next, x) PROVE stale' = stale
        BY <3>2 DEF SetupLocal
      <3>3. CASE \/ PickSetup(g) \/ ObservePlan(g) \/ BeginSetupRefused(g) \/ PublishRun(g)
                 \/ Boundary(g) \/ StepRefused(g) \/ ChildBoundary(g) \/ ChildEnded(g)
                 \/ ChildUnconfirmed(g) \/ BookkeepingFails(g) \/ DeferSetup(g)
        <4>1. \E next, x : SetupLocal(g, next, x)
          BY <3>3 DEF PickSetup, ObservePlan, BeginSetupRefused, PublishRun, Boundary, StepRefused,
                      ChildBoundary, ChildEnded, ChildUnconfirmed, BookkeepingFails, DeferSetup, Close
        <4> QED
          BY <3>2, <4>1
      <3>4. CASE WaitOutdated(g) \/ Reset(g) \/ StartStep(g) \/ FinishStep(g)
                 \/ SpawnChildFails(g) \/ Report(g)
        <4>1. \E next, x : SetupCommit(g, next, x)
          BY <3>4 DEF WaitOutdated, Reset, StartStep, FinishStep, SpawnChildFails, Report
        <4> QED
          BY <4>1 DEF SetupCommit
      <3>5. CASE \/ BeginSetup(g) \/ SpawnChild(g) \/ ConfirmChild(g) \/ KillChild(g)
                 \/ SetupHeartbeat(g) \/ SetupStopTimesOut(g)
        BY <3>5 DEF BeginSetup, SpawnChild, ConfirmChild, KillChild, SetupHeartbeat, SetupStopTimesOut
      <3> QED
        BY <3>1, <3>3, <3>4, <3>5 DEF SetupThread
    <2>2. CASE ServedCommand \/ ProcessStep
      BY <2>2 DEF ServedCommand, ProcessStep, worldVars
    <2>3. CASE World
      BY <2>3 DEF World, Drift, ChildWorks, ChildExits, DescendantsExit
    <2>4. CASE UNCHANGED allVars
      BY <2>4 DEF allVars, worldVars
    <2> QED
      BY <2>1, <2>2, <2>3, <2>4 DEF ExecutorNext
  <1> QED
    BY <1>2, <1>3

\* No child of a setup is left beside the slot when the application, restarted at
\* will, is the only one on its store: recovery never frees the slot while a child
\* of its attempt runs, and a new attempt never starts beside one
\* (setup_repository.py child_intent, step_launched; store.py recover).  Two
\* processes on one store can leave one: see InterruptedMeansGone.
THEOREM SetupNoStrayChild ==
    ASSUME \A g, h \in Guis : g = h
    PROVE  ExecutorSpec => []NoStrayChild
  <1> DEFINE Inv == BaseInv /\ ChildInv /\ SlotInv /\ stale = {}
  <1>1. ExecutorInit => Inv
    BY ExecutorInitHolds, ChildInvInit DEF ExecutorInit
  <1>2. Inv /\ [ExecutorNext]_allVars => Inv'
    BY ExecutorKeeps, ChildInvStep, NothingStale
  <1>3. Inv => NoStrayChild
    BY DEF NoStrayChild, SlotInv, ChildInv
  <1> QED
    BY <1>1, <1>2, <1>3, PTL DEF ExecutorSpec

-------------------------------------------------------------------------------
(* The rows of the setups, under the steps of Dispatcher *)

\* A setup is asked to cancel, or it is interrupted; no more happens to its row.
SetupRowsStay ==
    \A o \in Ops : Kind[o] = "setup_operation" =>
        \/ status'[o] = status[o]
        \/ status[o] = "running" /\ status'[o] = "cancelling"
        \/ status[o] \in ACTIVE /\ status'[o] = "interrupted"

\* The slot is freed or kept, or taken by a new attempt.
SlotMoves ==
    \/ Len(attempts') = Len(attempts) /\ lease'["heavy"] \in {0, lease["heavy"]}
    \/ Len(attempts') = Len(attempts) + 1 /\ lease'["heavy"] = Len(attempts')

LEMMA RecordStays ==
    ASSUME TypeOK, NEW o \in Ops, NEW new, NEW newFlag, Record(o, new, newFlag),
           Kind[o] # "setup_operation" \/ new = status[o]
    PROVE  SetupRowsStay
  BY RecordOthers DEF SetupRowsStay

LEMMA CommandRows == ASSUME BaseInv, Command PROVE SetupRowsStay /\ SlotMoves
  <1> USE RecordStays
  <1>0. TypeOK /\ LeaseCoherence
    BY TypesOf DEF BaseInv
  <1>1. ASSUME status' = status PROVE SetupRowsStay
    BY <1>1 DEF SetupRowsStay
  <1>2. ASSUME NEW rank, AcceptBatch(rank) PROVE SetupRowsStay
    BY <1>0, <1>2 DEF AcceptBatch, SetupRowsStay
  <1>3. ASSUME NEW o \in Ops, NEW expected, CancelJob(o, expected) PROVE SetupRowsStay
    <2>1. PICK new : Record(o, new, "none")
      BY <1>3 DEF CancelJob
    <2> QED
      BY <1>0, <1>3, <2>1 DEF CancelJob
  <1>4. ASSUME NEW o \in Ops, NEW expected, Revalidated(o, expected) PROVE SetupRowsStay
    <2>1. PICK new : Record(o, new, "none")
      BY <1>4 DEF Revalidated
    <2> QED
      BY <1>0, <1>4, <2>1 DEF Revalidated
  <1>5. ASSUME NEW o \in Ops, NEW held, HoldChange(o, held) PROVE SetupRowsStay
    <2>1. PICK new : Record(o, new, "none") /\ (Kind[o] # "job" => new = status[o])
      BY <1>5 DEF HoldChange
    <2> QED
      BY <1>0, <2>1
  <1>6. ASSUME JobCommand PROVE SetupRowsStay
    BY <1>2, <1>3, <1>4, <1>6 DEF JobCommand, RetryJob
  <1>7. ASSUME QueueCommand PROVE SetupRowsStay
    BY <1>1, <1>5, <1>7 DEF QueueCommand, SetItemHold, SetDispatch, Reorder, opVars
  <1>8. SlotMoves
    BY <1>0, CommandKeeps DEF SlotMoves, JournalKept
  <1> QED
    BY <1>6, <1>7, <1>8 DEF Command

LEMMA OwnStepRows ==
    ASSUME BaseInv, NEW g \in Guis, OwnStep(g) PROVE SetupRowsStay /\ SlotMoves
  <1> USE RecordStays
  <1>0. /\ TypeOK /\ LeaseCoherence /\ HeavyOnly
        /\ \A h \in Guis : runtime[h].fence \in 0..Len(attempts)
    BY TypesOf, RuntimeType DEF BaseInv, RuntimeTypes
  <1>1. CASE UNCHANGED storeVars
    BY <1>1 DEF storeVars, opVars, SetupRowsStay, SlotMoves
  <1>2. ASSUME lease' = lease, attempts' = attempts \/ JournalKept PROVE SlotMoves
    BY <1>2 DEF SlotMoves, JournalKept
  <1>3. CASE ActivateCommit(g)
    <2>1. Recover(DecisionsOf(g))
      BY <1>3 DEF ActivateCommit
    <2>2. SetupRowsStay
      BY <1>0, <2>1 DEF Recover, Interrupted, SetupRowsStay
    <2>3. SlotMoves
      BY <1>0, <2>1, RecoverFrees DEF SlotMoves, JournalKept
    <2> QED
      BY <2>2, <2>3
  <1>4. CASE PrestartFails(g)
    <2>1. CASE BlockJob(loop[g].job, loop[g].revision)
      <3>1. /\ loop[g].job \in Ops /\ Kind[loop[g].job] = "job"
            /\ Record(loop[g].job, "blocked", "none") /\ UNCHANGED <<lease, attempts>>
        BY <1>4, <2>1 DEF PrestartFails, BlockJob, BaseInv, Threads
      <3> QED
        BY <1>0, <1>2, <3>1
    <2> QED
      BY <1>1, <1>4, <2>1 DEF PrestartFails
  <1>5. CASE Begin(g)
    <2>1. /\ loop[g].job \in Ops /\ Kind[loop[g].job] = "job"
          /\ BeginAttempt(loop[g].job, loop[g].revision)
      BY <1>5 DEF Begin, BaseInv, Threads
    <2>2. Record(loop[g].job, "running", "none")
      BY <2>1 DEF BeginAttempt
    <2>3. SlotMoves
      BY <1>0, <2>1, BeginTakes, KindIsQueued DEF SlotMoves
    <2> QED
      BY <1>0, <2>1, <2>2, <2>3
  <1>6. ASSUME \/ ConfirmLaunch(g) \/ RecordNoWorker(g) \/ Flag(g) \/ Finish(g)
        PROVE  /\ loop[g].job \in Ops /\ Kind[loop[g].job] = "job" /\ loop[g].fence \in Fences
    BY <1>6, HolderFacts
       DEF ConfirmLaunch, RecordNoWorker, Flag, Finish, Holding, JobPcs
  <1>7. CASE ConfirmLaunch(g) \/ RecordNoWorker(g)
    <2>1. CASE \E outcome \in {"confirmed", "failed"} : RecordLaunch(loop[g].job, loop[g].fence, outcome)
      <3>1. /\ Record(loop[g].job, status[loop[g].job], flag[loop[g].job]) /\ lease' = lease
            /\ Len(attempts') = Len(attempts)
        BY <1>0, <1>6, <1>7, <2>1, RecordLaunchKeeps DEF RecordLaunch
      <3> QED
        BY <1>0, <1>6, <1>7, <3>1 DEF SlotMoves
    <2> QED
      BY <1>1, <1>7, <2>1 DEF ConfirmLaunch, RecordNoWorker
  <1>8. CASE Flag(g)
    <2>1. CASE FlagUnconfirmed(loop[g].job, loop[g].fence)
      <3>1. /\ Record(loop[g].job, status[loop[g].job], "termination_failed")
            /\ UNCHANGED <<lease, attempts>>
        BY <2>1 DEF FlagUnconfirmed
      <3> QED
        BY <1>0, <1>2, <1>6, <1>8, <3>1
    <2> QED
      BY <1>1, <1>8, <2>1 DEF Flag
  <1>9. CASE Finish(g)
    <2>1. PICK outcome \in {"succeeded", "failed", "cancelled"} :
             FinishAttempt(loop[g].job, loop[g].fence, outcome)
      BY <1>9, ThreadType DEF Finish, ThreadTypes
    <2>2. Record(loop[g].job, FinishTarget(loop[g].job, outcome), "none")
      BY <2>1 DEF FinishAttempt
    <2>3. SlotMoves
      BY <1>0, <1>6, <1>9, <2>1, FinishFrees DEF SlotMoves, JournalKept
    <2> QED
      BY <1>0, <1>6, <1>9, <2>2, <2>3
  <1>10. CASE StopCancel(g)
    <2>1. CASE Transition(attempts[stopper[g].fence].op, stopper[g].revision, "cancelling", 0)
      <3>1. attempts[stopper[g].fence].op \in Ops
        BY <1>0, <1>10, Stoppers, AttemptType DEF StopCancel
      <3>2. /\ Record(attempts[stopper[g].fence].op, "cancelling", "none")
            /\ status[attempts[stopper[g].fence].op] = "running"
        BY <2>1, <3>1, SlotType, TableFacts DEF Transition
      <3>3. SetupRowsStay
        BY <1>0, <3>1, <3>2, RecordOthers DEF SetupRowsStay
      <3> QED
        BY <1>0, <1>2, <2>1, <3>1, <3>3, CancellingKeeps
    <2> QED
      BY <1>1, <1>10, <2>1 DEF StopCancel
  <1>11. CASE \/ ActivateRead(g) \/ ActivateFails(g)
              \/ Pick(g) \/ LoopEnds(g) \/ BeginRefused(g) \/ PublishActive(g)
              \/ Spawn(g) \/ SpawnFails(g) \/ ConfirmLaunchFails(g)
              \/ SendCancel(g) \/ WorkerAnswered(g) \/ GiveUp(g) \/ Kill(g)
              \/ DeferReport(g) \/ Heartbeat(g)
              \/ StopBegin(g) \/ StopRead(g) \/ StopJoined(g) \/ StopTimesOut(g)
              \/ Crash(g) \/ StartGui(g)
    <2>1. UNCHANGED storeVars
      BY <1>11 DEF ActivateRead, ActivateFails, Pick, LoopEnds, BeginRefused,
                   PublishActive, Spawn, SpawnFails, ConfirmLaunchFails, SendCancel,
                   WorkerAnswered, GiveUp, Kill, DeferReport, Heartbeat, Beat, Local,
                   StopBegin, StopRead, StopJoined, StopTimesOut, Crash, StartGui
    <2> QED
      BY <1>1, <2>1
  <1> QED
    BY <1>3, <1>4, <1>5, <1>7, <1>8, <1>9, <1>10, <1>11 DEF OwnStep

LEMMA ProcessRows == ASSUME BaseInv, ProcessStep PROVE SetupRowsStay /\ SlotMoves
  <1>1. ASSUME UNCHANGED storeVars PROVE SetupRowsStay /\ SlotMoves
    BY <1>1 DEF storeVars, opVars, SetupRowsStay, SlotMoves
  <1>2. ASSUME NEW g \in Guis, ObserveChild(g) PROVE UNCHANGED storeVars
    BY <1>2 DEF ObserveChild, ObserveWith
  <1>3. ASSUME NEW f, WorkerExits(f) PROVE UNCHANGED storeVars
    BY <1>3 DEF WorkerExits
  <1> QED
    BY <1>1, <1>2, <1>3, CommandRows, OwnStepRows DEF ProcessStep

-------------------------------------------------------------------------------
(* The rows of the setups, under their own steps *)

\* A setup that is being cancelled goes on being cancelled, or it ends so.
CancelHolds ==
    \A o \in Ops : Kind[o] = "setup_operation" /\ status[o] = "cancelling" =>
        status'[o] \in {"cancelling", "cancelled", "interrupted"}

LEMMA StayingHolds == ASSUME SetupRowsStay PROVE CancelHolds
  BY DEF SetupRowsStay, CancelHolds

LEMMA RecordHolds ==
    ASSUME TypeOK, NEW o \in Ops, NEW new, NEW newFlag, Record(o, new, newFlag),
           status[o] = "cancelling" => new \in {"cancelling", "cancelled"}
    PROVE  CancelHolds
  BY RecordOthers DEF CancelHolds

LEMMA ServedHolds == ASSUME BaseInv, ServedCommand PROVE CancelHolds
  <1>0. TypeOK /\ SetupCommand
    BY TypesOf DEF BaseInv, ServedCommand
  <1>1. ASSUME NEW o \in Ops, NEW expected, CancelSetup(o, expected) PROVE CancelHolds
    <2>1. PICK new \in {"cancelling", "cancelled"} : Record(o, new, "none")
      BY <1>1 DEF CancelSetup
    <2> QED
      BY <1>0, <2>1, RecordHolds
  <1>2. ASSUME NEW o \in Ops, NEW expected, ResumeSetup(o, expected, machine) PROVE CancelHolds
    <2>1. Record(o, "queued", "none") /\ status[o] # "cancelling"
      BY <1>2 DEF ResumeSetup, RESUMABLE_SETUP
    <2> QED
      BY <1>0, <2>1, RecordHolds
  <1>3. ASSUME NEW o \in Ops, StartOperation(o) PROVE CancelHolds
    <2>1. Record(o, "queued", "none") /\ status[o] # "cancelling"
      BY <1>3 DEF StartOperation
    <2> QED
      BY <1>0, <2>1, RecordHolds
  <1>4. ASSUME status' = status PROVE CancelHolds
    BY <1>4 DEF CancelHolds
  <1>5. CASE \/ \E p \in Plans : CreatePlan(p, machine) \/ PlanExpires(p)
             \/ \E p \in Plans, expected \in 1..3 : DiscardPlan(p, expected)
             \/ \E p \in Plans, expected \in 1..3, a \in Approvals :
                   ApprovePlan(p, expected, a, machine)
             \/ \E a \in Approvals : ApprovalExpires(a)
    <2>1. UNCHANGED storeVars
      BY <1>5 DEF CreatePlan, PlanExpires, DiscardPlan, ApprovePlan, ApprovalExpires
    <2> QED
      BY <1>4, <2>1 DEF storeVars, opVars
  <1>6. ASSUME NEW o \in Ops, NEW p \in Plans, NEW expected \in 1..3, NEW a \in Approvals,
               StartSetup(o, p, expected, a, machine)
        PROVE  CancelHolds
    BY <1>3, <1>6 DEF StartSetup, InsertSetup
  <1>7. ASSUME NEW source \in Ops, NEW expected, NEW o \in Ops,
               RetrySetup(source, expected, o, machine)
        PROVE  CancelHolds
    BY <1>3, <1>7 DEF RetrySetup, InsertSetup
  <1> QED
    BY <1>0, <1>1, <1>2, <1>5, <1>6, <1>7 DEF SetupCommand

LEMMA EndHolds ==
    ASSUME TypeOK, NEW o \in Ops, NEW fence, NEW seen, NEW outcome,
           SetupWait(o, fence, seen) \/ FinishSetup(o, fence, outcome, seen)
    PROVE  CancelHolds
  <1>1. \E new : Record(o, new, "none") /\ (status[o] = "cancelling" => new = "cancelled")
    BY DEF SetupWait, FinishSetup, FinishCommon, SetupTarget
  <1> QED
    BY <1>1, RecordHolds

LEMMA SetupStepHolds == ASSUME BaseInv, SetupStep PROVE CancelHolds
  <1>0. TypeOK
    BY TypesOf DEF BaseInv
  <1>1. PICK g \in Guis : \/ SetupThread(g) \/ ChildUnconfirmed(g) \/ BookkeepingFails(g)
                          \/ DeferSetup(g) \/ SetupHeartbeat(g) \/ SetupStopTimesOut(g)
    BY DEF SetupStep
  <1>2. ASSUME loop[g].pc \in SetupRun PROVE loop[g].job \in Ops
    BY <1>2, HolderFacts DEF Holding
  <1>3. ASSUME status' = status PROVE CancelHolds
    BY <1>3 DEF CancelHolds
  <1>4. CASE UNCHANGED storeVars
    BY <1>3, <1>4 DEF storeVars, opVars
  <1>5. ASSUME NEW newFlag, loop[g].job \in Ops, Record(loop[g].job, status[loop[g].job], newFlag)
        PROVE  CancelHolds
    BY <1>0, <1>5, RecordHolds
  <1>6. CASE \/ PickSetup(g) \/ ObservePlan(g) \/ BeginSetupRefused(g) \/ PublishRun(g)
             \/ Boundary(g) \/ StepRefused(g) \/ ChildBoundary(g) \/ ChildEnded(g)
             \/ ChildUnconfirmed(g) \/ BookkeepingFails(g) \/ DeferSetup(g)
    <2>1. \E next, x : SetupLocal(g, next, x)
      BY <1>6 DEF PickSetup, ObservePlan, BeginSetupRefused, PublishRun, Boundary, StepRefused,
                  ChildBoundary, ChildEnded, ChildUnconfirmed, BookkeepingFails, DeferSetup, Close
    <2> QED
      BY <1>4, <2>1 DEF SetupLocal, Local
  <1>7. CASE SpawnChild(g) \/ KillChild(g) \/ SetupHeartbeat(g) \/ SetupStopTimesOut(g) \/ Reset(g)
    <2>1. UNCHANGED storeVars
      BY <1>7 DEF SpawnChild, KillChild, SetupHeartbeat, SetupStopTimesOut, Beat, Local, Reset,
                  ResetSteps
    <2> QED
      BY <1>4, <2>1
  <1>8. CASE Intend(g) \/ SpawnChildFails(g) \/ ConfirmChild(g)
    BY <1>3, <1>8 DEF Intend, SpawnChildFails, ConfirmChild, ChildIntent, StepLaunched, opVars
  <1>9. CASE StartStep(g) \/ FinishStep(g)
    <2>1. /\ loop[g].pc \in SetupRun
          /\ Record(loop[g].job, status[loop[g].job], flag[loop[g].job])
      BY <1>9 DEF StartStep, FinishStep, StepStarted, StepFinished, SetupRun, Job
    <2> QED
      BY <1>2, <1>5, <2>1
  <1>10. CASE BeginSetup(g)
    <2>1. /\ loop[g].job \in Ops /\ Record(loop[g].job, "running", "none")
          /\ Check(Kind[loop[g].job], status[loop[g].job], "running")
      BY <1>10 DEF BeginSetup, BeginAttempt, CanBegin, Job, BaseInv, Threads
    <2>2. status[loop[g].job] # "cancelling"
      BY <2>1, TableFacts, SlotType
    <2> QED
      BY <1>0, <2>1, <2>2, RecordHolds
  <1>11. CASE WaitOutdated(g)
    <2>1. loop[g].pc \in SetupRun /\ SetupWait(loop[g].job, loop[g].fence, Unseen)
      BY <1>11 DEF WaitOutdated, SetupRun, Job, Fence
    <2> QED
      BY <1>0, <1>2, <2>1, EndHolds
  <1>12. CASE Report(g)
    <2>1. /\ loop[g].pc \in SetupRun
          /\ \/ Record(loop[g].job, status[loop[g].job], "termination_failed")
             \/ UNCHANGED storeVars
             \/ SetupWait(loop[g].job, loop[g].fence, Fingerprint(machine))
             \/ FinishSetup(loop[g].job, loop[g].fence, loop[g].outcome, Fingerprint(machine))
      BY <1>12 DEF Report, FlagSetupUnconfirmed, FlagUnconfirmed, SetupRun, Job, Fence
    <2> QED
      BY <1>0, <1>2, <1>4, <1>5, <2>1, EndHolds
  <1> QED
    BY <1>1, <1>6, <1>7, <1>8, <1>9, <1>10, <1>11, <1>12 DEF SetupThread

\* A cancel that was accepted is not overtaken by a wait, a failure or a
\* completion that was on its way, whatever processes die and recover meanwhile
\* (setup_repository.py setup_wait, finish_setup; setup_executor.py _attempt).
THEOREM SetupCancelWins == ExecutorSpec => CancelWins
  <1>1. ASSUME BaseInv, [ExecutorNext]_allVars PROVE CancelHolds
    <2>1. CASE SetupStep \/ ServedCommand
      BY <1>1, <2>1, SetupStepHolds, ServedHolds
    <2>2. CASE ProcessStep
      BY <1>1, <2>2, ProcessRows, StayingHolds
    <2>3. CASE World \/ UNCHANGED allVars
      <3>1. status' = status
        BY <2>3 DEF World, Drift, ChildWorks, ChildExits, DescendantsExit, WorkerExits, allVars,
                    vars, storeVars, opVars
      <3> QED
        BY <3>1 DEF CancelHolds
    <2> QED
      BY <1>1, <2>1, <2>2, <2>3 DEF ExecutorNext
  <1>2. BaseInv /\ [ExecutorNext]_allVars => [CancelHolds]_allVars
    BY <1>1
  <1>3. [][CancelHolds]_allVars => CancelWins
    <2>1. [CancelHolds]_allVars <=>
             [\A o \in Ops : Kind[o] = "setup_operation" /\ status[o] = "cancelling" =>
                 status'[o] \in {"cancelling", "cancelled", "interrupted"}]_allVars
      BY DEF CancelHolds
    <2> QED
      BY <2>1, PTL DEF CancelWins
  <1> QED
    BY <1>2, <1>3, ExecutorBase, PTL DEF ExecutorSpec
================================================================================
