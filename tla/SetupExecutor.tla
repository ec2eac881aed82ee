----------------------------- MODULE SetupExecutor -----------------------------
(***************************************************************************)
(* The setup half of the dispatcher thread: SetupExecutor and              *)
(* ProcessChildRunner of src/src/utteran_gui/setup_executor.py, composed   *)
(* with the processes of Dispatcher and the tables of SetupStore.          *)
(*                                                                         *)
(* The thread observes the machine, begins an attempt, and runs the steps  *)
(* of the plan one after the other through child processes that change the *)
(* machine while they run.  Of every child the intent, the identity and    *)
(* the exit are journaled.  The process may die between any two of these,  *)
(* its child lives on.  workers (of Dispatcher) holds the attempts whose   *)
(* child process exists.                                                   *)
(***************************************************************************)
EXTENDS Dispatcher, SetupStore

CONSTANT MaxDrift  \* bound: changes of the machine that are not the work of a child

ASSUME DriftAssumption == MaxDrift \in Nat

VARIABLES
    machine,     \* what the observer would see now
    drift,       \* changes made by others so far
    exec,        \* the locals of SetupExecutor.dispatch beside those in loop
    doing,       \* the latest child of an attempt: its command, and whether the
                 \* identity in the journal is its own
    descendants, \* attempts whose child has ended and left processes that hold its pipes
    stale        \* activations that have read of a child which is not the attempt's last

worldVars == <<machine, drift, doing, descendants, stale>>
allVars   == <<vars, setupVars, worldVars, exec>>

NoRun == [seen |-> Unseen, index |-> 1, phase |-> 0, exit |-> "none"]

Exits    == {"ok", "bad", "unready", "network"}

\* The pcs of the thread in dispatch, those
\* in which the heartbeat runs, and those that may outlast the patience of stop().
SetupPcs == {"picked", "observed"} \cup SetupRun
SetupBeating == SetupPcs \ {"picked", "observed", "begun", "outdated", "closing"}
SetupBusy    == {"picked", "observed", "launched", "waiting", "closing"}

-------------------------------------------------------------------------------
(* Steps of the thread, by what they change *)

Stays(g, x) == exec' = [exec EXCEPT ![g] = x]

\* Nothing but the locals of the thread.
SetupLocal(g, next, x) ==
    /\ Local(g, next) /\ Stays(g, x)
    /\ UNCHANGED <<setupVars, worldVars>>

\* Besides, a transaction of the store.
SetupCommit(g, next, x) ==
    /\ Commit(g, next) /\ Stays(g, x)
    /\ UNCHANGED worldVars

Goto(g, pc) == [loop[g] EXCEPT !.pc = pc]

Close(g, outcome) == SetupLocal(g, [loop[g] EXCEPT !.pc = "closing", !.outcome = outcome], NoRun)

Job(g)   == loop[g].job
Fence(g) == loop[g].fence
Kind_(g) == StepsOf(Job(g))[exec[g].index]

-------------------------------------------------------------------------------
(* dispatch *)

PickSetup(g) ==
    /\ loop[g].pc = "idle" /\ ~StopIsSet(g)
    /\ dispatch = "running" /\ lease["heavy"] = 0
    /\ \E o \in Ops :
          /\ DispatchGuard(o) /\ Kind[o] = "setup_operation"
          /\ SetupLocal(g, [Idle EXCEPT !.pc = "picked", !.job = o, !.revision = revision[o]], NoRun)

ObservePlan(g) ==
    /\ loop[g].pc = "picked"
    /\ SetupLocal(g, Goto(g, "observed"), [NoRun EXCEPT !.seen = Fingerprint(machine)])

BeginSetup(g) ==
    /\ loop[g].pc = "observed"
    /\ BeginAttempt(Job(g), loop[g].revision)
    /\ loop' = [loop EXCEPT ![g].pc = "begun", ![g].fence = Len(attempts) + 1, ![g].revision = 0]
    /\ owner' = Append(owner, g)
    /\ UNCHANGED <<up, runtime, stopper, orphans, workers, unclear, setupVars, worldVars, exec>>

BeginSetupRefused(g) ==
    /\ loop[g].pc = "observed"
    /\ ~CanBegin(Job(g), loop[g].revision)
    /\ SetupLocal(g, Idle, NoRun)

\* The plan is run only if the machine looked as it did when the plan was made
\* or when the last attempt ended.
PublishRun(g) ==
    /\ loop[g].pc = "begun"
    /\ SetupLocal(g, [loop[g] EXCEPT !.active = TRUE, !.pc =
                         IF exec[g].seen \in {plan[link[Job(g)].plan].seen, lastSeen[Job(g)]}
                         THEN "resetting" ELSE "outdated"], NoRun)

WaitOutdated(g) ==
    /\ loop[g].pc = "outdated"
    /\ SetupWait(Job(g), Fence(g), Unseen)
    /\ SetupCommit(g, Idle, NoRun)

-------------------------------------------------------------------------------
(* _attempt and _step *)

Reset(g) ==
    /\ loop[g].pc = "resetting"
    /\ ResetSteps(Job(g), Fence(g))
    /\ SetupCommit(g, Goto(g, "boundary"), exec[g])

\* _boundary
MustStop(g) == loop[g].lost \/ loop[g].cancel \/ status[Job(g)] = "cancelling"

Boundary(g) ==
    /\ loop[g].pc = "boundary"
    /\ IF MustStop(g) THEN Close(g, "cancelled")
       ELSE IF exec[g].index > Len(StepsOf(Job(g))) THEN Close(g, "succeeded")
       ELSE SetupLocal(g, Goto(g, "stepping"), exec[g])

StartStep(g) ==
    /\ loop[g].pc = "stepping"
    /\ StepStarted(Job(g), Fence(g), Kind_(g))
    /\ SetupCommit(g, Goto(g, "working"), exec[g])

\* A cancel was accepted after the boundary: the step is refused, which ends the
\* attempt like a failure.
StepRefused(g) ==
    /\ loop[g].pc = "stepping" /\ status[Job(g)] # "running"
    /\ Close(g, "failed")

\* _venv, _preflight, _model and _smoke: what comes after so many children of
\* the step, the last of which ended so: another child, or the step's result.
\* "pending" is the result of a step that has to wait for the user.
Decision(kind, phase, exit) ==
    CASE kind = "venv_sync" /\ phase = 0 ->
            IF machine.profile = "ok" THEN "skipped" ELSE "child"
      [] kind = "venv_sync" /\ phase = 1 ->
            IF exit = "ok" /\ machine.profile = "ok" THEN "succeeded" ELSE "failed"
      [] kind = "credential_preflight" /\ phase = 0 ->
            IF machine.credential THEN "child" ELSE "pending"
      [] kind = "credential_preflight" /\ phase = 1 ->
            IF exit = "ok" THEN "succeeded" ELSE IF exit = "unready" THEN "pending" ELSE "failed"
      [] kind = "model_download" /\ phase = 0 -> "child"
      [] kind = "model_download" /\ phase = 1 -> IF exit = "ok" THEN "skipped" ELSE "child"
      [] kind = "model_download" /\ phase = 2 -> IF exit = "ok" THEN "child" ELSE "failed"
      [] kind = "model_download" /\ phase = 3 -> IF exit = "ok" THEN "succeeded" ELSE "failed"
      [] kind = "smoke" /\ phase = 0 -> "child"
      [] kind = "smoke" /\ phase = 1 -> IF exit = "ok" THEN "succeeded" ELSE "failed"

ChildCommand(kind, phase) ==
    CASE kind = "venv_sync"            -> "build"
      [] kind = "credential_preflight" -> "check"
      [] kind = "model_download"       -> IF phase = 1 THEN "download" ELSE "verify"
      [] kind = "smoke"                -> "transcribe"

Decided(g) == Decision(Kind_(g), exec[g].phase, exec[g].exit)

FinishStep(g) ==
    /\ loop[g].pc = "working" /\ Decided(g) # "child"
    /\ StepFinished(Job(g), Fence(g), Kind_(g), Decided(g))
    /\ IF Decided(g) \in SATISFIED
       THEN SetupCommit(g, Goto(g, "boundary"), [NoRun EXCEPT !.index = exec[g].index + 1])
       ELSE SetupCommit(g, [loop[g] EXCEPT !.pc = "closing", !.outcome =
                                IF Decided(g) = "pending" THEN "wait" ELSE "failed"], NoRun)

-------------------------------------------------------------------------------
(* _child and ProcessChildRunner.run *)

ChildBoundary(g) ==
    /\ loop[g].pc = "working" /\ Decided(g) = "child"
    /\ IF MustStop(g) THEN Close(g, "cancelled")
       ELSE SetupLocal(g, Goto(g, "intending"), exec[g])

\* Who has read the journal meanwhile knows a child that has ended.
Intend(g) ==
    /\ loop[g].pc = "intending"
    /\ ChildIntent(Job(g), Fence(g), Kind_(g))
    /\ Commit(g, Goto(g, "launching")) /\ Stays(g, exec[g])
    /\ stale' = stale \cup {h \in Guis : /\ runtime[h].state = "observing"
                                         /\ runtime[h].fence = Fence(g)
                                         /\ runtime[h].launch = "confirmed"}
    /\ UNCHANGED <<machine, drift, doing, descendants>>

SpawnChild(g) ==
    /\ loop[g].pc = "launching"
    /\ loop' = [loop EXCEPT ![g].pc = "launched"]
    /\ workers' = workers \cup {Fence(g)}
    /\ doing' = [f \in DOMAIN doing \cup {Fence(g)} |->
                    IF f = Fence(g)
                    THEN [command |-> ChildCommand(Kind_(g), exec[g].phase), journaled |-> FALSE]
                    ELSE doing[f]]
    /\ UNCHANGED <<storeVars, up, runtime, stopper, owner, orphans, unclear, setupVars,
                   machine, drift, exec, descendants, stale>>

SpawnChildFails(g) ==
    /\ loop[g].pc = "launching"
    /\ StepLaunched(Job(g), Fence(g), Kind_(g), "failed")
    /\ SetupCommit(g, [loop[g] EXCEPT !.pc = "closing", !.outcome = "failed"], NoRun)

ConfirmChild(g) ==
    /\ loop[g].pc = "launched"
    /\ StepLaunched(Job(g), Fence(g), Kind_(g), "confirmed")
    /\ doing' = [doing EXCEPT ![Fence(g)].journaled = TRUE]
    /\ Commit(g, Goto(g, "waiting")) /\ Stays(g, exec[g])
    /\ UNCHANGED <<machine, drift, descendants, stale>>

\* on_spawn failed: the tree is killed, which a child may survive.
KillChild(g) ==
    /\ loop[g].pc = "launched"
    /\ workers' \in {workers, workers \ {Fence(g)}}
    /\ loop' = [loop EXCEPT ![g].pc = "closing", ![g].outcome =
                    IF Fence(g) \in workers' THEN "unconfirmed" ELSE "failed"]
    /\ Stays(g, NoRun)
    /\ UNCHANGED <<storeVars, up, runtime, stopper, owner, orphans, unclear, setupVars, worldVars>>

\* How a command can end: verify alone tells a complete copy from any other.
ExitsOf(command) ==
    CASE command = "verify" -> IF machine.model = "complete" THEN {"ok"} ELSE {"bad"}
      [] command = "check"  -> IF machine.credential THEN Exits ELSE Exits \ {"ok"}
      [] OTHER              -> {"ok", "bad"}

\* The child has exited and both its pipes are at their end.
ChildEnded(g) ==
    /\ loop[g].pc = "waiting" /\ Fence(g) \notin workers \cup descendants
    /\ \E exit \in ExitsOf(doing[Fence(g)].command) :
          SetupLocal(g, Goto(g, "working"),
                     [exec[g] EXCEPT !.phase = @ + 1, !.exit = exit])

\* A pipe cannot be drained while the child runs, or outlives it by the grace.
ChildUnconfirmed(g) ==
    /\ loop[g].pc = "waiting" /\ Fence(g) \in workers \cup descendants
    /\ Close(g, "unconfirmed")

\* A transaction of the attempt is refused or fails, or the output of a child
\* that has ended cannot be read.
BookkeepingFails(g) ==
    /\ \/ loop[g].pc \in {"resetting", "stepping", "intending", "launching"}
       \/ loop[g].pc = "working" /\ Decided(g) # "child"
       \/ loop[g].pc = "waiting" /\ Fence(g) \notin workers \cup descendants
    /\ Close(g, "failed")

-------------------------------------------------------------------------------
(* The end of an attempt *)

\* The machine is observed once more and the attempt ends with one commit.
Report(g) ==
    /\ loop[g].pc = "closing" /\ ~loop[g].lost
    /\ CASE loop[g].outcome = "unconfirmed" ->
               \/ FlagSetupUnconfirmed(Job(g), Fence(g))
               \/ flag[Job(g)] = "termination_failed" /\ UNCHANGED <<storeVars, setupVars>>
         [] loop[g].outcome = "wait" -> SetupWait(Job(g), Fence(g), Fingerprint(machine))
         [] OTHER -> FinishSetup(Job(g), Fence(g), loop[g].outcome, Fingerprint(machine))
    /\ SetupCommit(g, Idle, NoRun)

\* The observation raises, or _commit is refused or gives up after its retries:
\* the lease is left for recovery.
DeferSetup(g) ==
    /\ loop[g].pc \in {"closing", "outdated"}
    /\ SetupLocal(g, Idle, NoRun)

SetupHeartbeat(g) ==
    /\ loop[g].pc \in SetupBeating
    /\ Beat(g)
    /\ UNCHANGED <<setupVars, worldVars, exec>>

SetupStopTimesOut(g) ==
    /\ stopper[g].pc = "joining" /\ loop[g].pc \in SetupBusy
    /\ Stopping(g, [stopper[g] EXCEPT !.pc = "refused"])
    /\ UNCHANGED <<storeVars, loop, setupVars, worldVars, exec>>

-------------------------------------------------------------------------------
(* Children and the machine *)

\* A child at work, its owner alive or not.
ChildWorks(f) ==
    /\ f \in workers \cap DOMAIN doing
    /\ \/ /\ doing[f].command = "build"
          /\ \/ machine.profile = "absent" /\ machine' = [machine EXCEPT !.profile = "broken"]
             \/ machine.profile = "broken" /\ machine' = [machine EXCEPT !.profile = "ok"]
       \/ /\ doing[f].command = "download"
          /\ \/ machine.model = "absent"  /\ machine' = [machine EXCEPT !.model = "partial"]
             \/ machine.model = "partial" /\ machine' = [machine EXCEPT !.model = "complete"]
    /\ UNCHANGED <<vars, setupVars, drift, exec, doing, descendants, stale>>

ChildExits(f) ==
    /\ f \in DOMAIN doing
    /\ WorkerExits(f)
    /\ descendants' \in {descendants, descendants \cup {f}}
    /\ UNCHANGED <<setupVars, machine, drift, exec, doing, stale>>

DescendantsExit(f) ==
    /\ descendants' = descendants \ {f}
    /\ UNCHANGED <<vars, setupVars, machine, drift, exec, doing, stale>>

\* The user removes a profile or a model, stores or removes a credential.
Drift ==
    /\ drift < MaxDrift
    /\ drift' = drift + 1
    /\ \/ machine' = [machine EXCEPT !.profile = "absent"]
       \/ machine' = [machine EXCEPT !.model = "absent"]
       \/ machine' = [machine EXCEPT !.credential = ~@]
    /\ machine' # machine
    /\ UNCHANGED <<vars, setupVars, exec, doing, descendants, stale>>

-------------------------------------------------------------------------------
(* The setup API, served while some runtime is active *)

SetupCommand ==
    \/ \E p \in Plans :
          \/ CreatePlan(p, machine)
          \/ PlanExpires(p)
          \/ \E expected \in 1..3 :
                \/ DiscardPlan(p, expected)
                \/ \E a \in Approvals :
                      \/ ApprovePlan(p, expected, a, machine)
                      \/ \E o \in Ops : StartSetup(o, p, expected, a, machine)
    \/ \E a \in Approvals : ApprovalExpires(a)
    \/ \E o \in Ops : \E expected \in 1..MaxRevision[o] :
          \/ CancelSetup(o, expected)
          \/ ResumeSetup(o, expected, machine)
          \/ \E new \in Ops : RetrySetup(o, expected, new, machine)

ServedCommand ==
    /\ \E g \in up : runtime[g].state = "active"
    /\ SetupCommand
    /\ UNCHANGED <<guiVars, osVars, worldVars, exec>>

SetupThread(g) ==
    \/ PickSetup(g) \/ ObservePlan(g) \/ BeginSetup(g) \/ BeginSetupRefused(g)
    \/ PublishRun(g) \/ WaitOutdated(g)
    \/ Reset(g) \/ Boundary(g) \/ StartStep(g) \/ StepRefused(g) \/ FinishStep(g)
    \/ ChildBoundary(g) \/ Intend(g) \/ SpawnChild(g) \/ SpawnChildFails(g)
    \/ ConfirmChild(g) \/ KillChild(g) \/ ChildEnded(g) \/ Report(g)

SetupStep ==
    \E g \in Guis :
       \/ SetupThread(g) \/ ChildUnconfirmed(g) \/ BookkeepingFails(g) \/ DeferSetup(g)
       \/ SetupHeartbeat(g) \/ SetupStopTimesOut(g)

\* recover() observes the child that it read of, and its second transaction
\* compares the operation and the fencing token alone: that child may be gone
\* and another one of the same attempt be running.
ObserveChild(g) == ObserveWith(g, g \in stale \/ runtime[g].fence \notin workers)

\* The processes of Dispatcher; a process that dies takes its locals with it.
ProcessStep ==
    /\ \/ Command
       \/ \E g \in Guis : ObserveChild(g) \/ OwnStep(g)
       \/ \E f \in workers \ DOMAIN doing : WorkerExits(f)
    /\ exec' = [g \in Guis |-> IF g \in up' THEN exec[g] ELSE NoRun]
    /\ stale' = {g \in stale : runtime'[g].state = "observing"}
    /\ UNCHANGED <<setupVars, machine, drift, doing, descendants>>

World == Drift \/ (\E f \in workers : ChildWorks(f) \/ ChildExits(f))
               \/ (\E f \in descendants : DescendantsExit(f))

ExecutorInit ==
    /\ Init /\ SetupInit
    /\ machine \in [profile : {"ok"}, model : {"absent"}, credential : {TRUE}]
    /\ drift = 0
    /\ exec = [g \in Guis |-> NoRun]
    /\ doing = <<>>
    /\ descendants = {} /\ stale = {}

ExecutorNext == ServedCommand \/ SetupStep \/ ProcessStep \/ World

ExecutorSpec == ExecutorInit /\ [][ExecutorNext]_allVars

-------------------------------------------------------------------------------
(* Safety *)

\* Recovery looks at the child the journal names.  As long as that is not the
\* child that runs, the journal says so, and recovery concludes nothing: between
\* a spawn and its record, and whichever of the two processes dies then
\* (setup_repository.py child_intent, step_launched).
JournalNamesTheChild ==
    \A f \in workers \cap DOMAIN doing :
        ~doing[f].journaled => attempts[f].launch = "intended"

\* No child is left beside the slot: recovery never concludes from a journal that does
\* not name the running child, and a child runs only for the attempt that holds the slot.
NoStrayChild == JournalNamesTheChild /\ WorkerHoldsLease

\* A step runs only when the steps it depends on have been satisfied by the same
\* attempt: no download before the agreement was checked, none into a profile
\* that was not verified (setup_planner.py build_plan, setup_executor.py _attempt).
StepsFollowDependencies ==
    \A o \in Ops, k \in StepKinds : step[o][k].status = "running" /\ status[o] \in ACTIVE =>
        \A d \in DependsOn(k) : step[o][d].status # "none" =>
            step[o][d].status \in SATISFIED /\ step[o][d].attempt = step[o][k].attempt

\* What is shown of a setup's steps is true: one runs only under an attempt and after
\* what it depends on.
StepsAreCoherent == StepsFollowDependencies /\ RunningStepHasAttempt

\* A cancel that was accepted is not overtaken: neither the wait for the user nor
\* a completion that was already on its way is stored instead
\* (setup_repository.py setup_wait, finish_setup; setup_executor.py _attempt).
CancelWins ==
    [][ \A o \in Ops : Kind[o] = "setup_operation" /\ status[o] = "cancelling" =>
            status'[o] \in {"cancelling", "cancelled", "interrupted"} ]_allVars

\* ControlStore.recover, its docstring (store.py:1471): an attempt is ended as
\* interrupted only when its owner and any recorded child are verified gone, so
\* that no second worker starts beside one that still runs.
InterruptedMeansGone == \A f \in workers : attempts[f].state # "interrupted"

-------------------------------------------------------------------------------
(* Liveness: the threads are scheduled and a child ends, with all it has      *)
(* started.                                                                   *)

SetupFairness ==
    /\ \A g \in Guis :
          /\ WF_allVars(SetupThread(g)) /\ WF_allVars(SetupHeartbeat(g))
          /\ WF_allVars(Stop(g) /\ UNCHANGED <<setupVars, worldVars, exec>>)
    /\ \A f \in 1..2 * Cardinality(Ops) :
          WF_allVars(ChildExits(f)) /\ WF_allVars(f \in descendants /\ DescendantsExit(f))

FairExecutorSpec == ExecutorSpec /\ SetupFairness

AttendedSetup(o) == \E g \in Guis : loop[g].pc \in SetupPcs /\ loop[g].job = o /\ ~loop[g].lost

\* The cancel of a setup that runs is honoured at the next boundary between its
\* children, after which the slot is free, unless the end of a child could not
\* be observed (then the setup is flagged) or the report was given up
\* (setup_executor.py _boundary, request_cancel, notify_cancel).
SetupCancelIsAnswered ==
    \A o \in Ops : status[o] = "cancelling" ~>
        status[o] # "cancelling" \/ flag[o] = "termination_failed" \/ ~AttendedSetup(o)
===============================================================================
