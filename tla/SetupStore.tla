------------------------------ MODULE SetupStore ------------------------------
(***************************************************************************)
(* Guided setup in the store: SetupControlStore of                         *)
(* src/src/utteran_control/setup_repository.py on top of ControlStore, and *)
(* the planner that fills a plan (src/src/utteran_gui/setup_planner.py).   *)
(*                                                                         *)
(* A plan is proposed from an observation of the machine, approved once,   *)
(* and consumed by the one operation that its approval may start.  The     *)
(* operation has a row per step and is run, attempt by attempt, under the  *)
(* heavy lease.  Time shows only as the expiry of plans and approvals.     *)
(* A plan has one model reference, so a step is named by its kind.         *)
(***************************************************************************)
EXTENDS ControlStore

CONSTANTS
    Plans, Approvals,  \* ids, those not yet created included
    NoId,              \* neither
    Gated              \* whether the model asks for a credential and an agreement

ASSUME SetupAssumption == NoId \notin Plans \cup Approvals \cup Ops /\ Gated \in BOOLEAN

VARIABLES
    plan,      \* setup_plans
    approval,  \* setup_approvals
    link,      \* setup_operations: the plan, the approval and the retried operation
    step,      \* setup_steps
    lastSeen   \* setup_state.last_fingerprint

setupVars == <<plan, approval, link, step, lastSeen>>

-------------------------------------------------------------------------------
(* Observations and plans *)

\* The credential is not part of it, nor is the completeness of a model.
Fingerprint(machine) == <<machine.profile, machine.model # "absent">>
Fingerprints == {"absent", "broken", "ok"} \X BOOLEAN
Unseen == <<"unseen", FALSE>>

StepKinds == {"venv_sync", "credential_preflight", "model_download", "smoke"}

\* Mutant of PlanSteps: the model is fetched before its agreement is checked.
PlanStepsCheckLate(machine) ==
    (IF machine.profile = "ok" THEN <<>> ELSE <<"venv_sync">>)
        \o <<"model_download">>
        \o (IF Gated THEN <<"credential_preflight">> ELSE <<>>)
        \o <<"smoke">>

\* build_plan: the steps in the order of their dependencies.
PlanSteps(machine) ==
    (IF machine.profile = "ok" THEN <<>> ELSE <<"venv_sync">>)
        \o (IF Gated THEN <<"credential_preflight">> ELSE <<>>)
        \o <<"model_download", "smoke">>

\* What a step depends on, as far as the plan has it.
DependsOn(kind) ==
    CASE kind = "venv_sync"            -> {}
      [] kind = "credential_preflight" -> {"venv_sync"}
      [] kind = "model_download"       -> {"venv_sync", "credential_preflight"}
      [] kind = "smoke"                -> {"venv_sync", "credential_preflight", "model_download"}

PlanStates == {"absent", "proposed", "approved", "consumed", "discarded"}
NoPlan     == [state |-> "absent", revision |-> 0, seen |-> Unseen, steps |-> <<>>, expired |-> FALSE]
NoApproval == [plan |-> NoId, revision |-> 0, op |-> NoId, expired |-> FALSE]
NoLink     == [plan |-> NoId, approval |-> NoId, retryOf |-> NoId]
NoStep     == [status |-> "none", evidence |-> FALSE, attempt |-> 0]
Pending    == [NoStep EXCEPT !.status = "pending"]

StepsOf(o) == plan[link[o].plan].steps
SATISFIED  == {"succeeded", "skipped"}

\* required_credentials
CredentialsMissing(machine) == Gated /\ ~machine.credential

-------------------------------------------------------------------------------
(* Plans and approvals *)

CreatePlan(p, machine) ==
    /\ plan[p].state = "absent"
    /\ machine.profile # "broken"        \* an existing profile is not rebuilt in place
    /\ plan' = [plan EXCEPT ![p] =
           [NoPlan EXCEPT !.state = "proposed", !.revision = 1,
                          !.seen = Fingerprint(machine), !.steps = PlanSteps(machine)]]
    /\ UNCHANGED <<storeVars, approval, link, step, lastSeen>>

DiscardPlan(p, expected) ==
    /\ plan[p].state \in {"proposed", "approved"}
    /\ plan[p].revision = expected
    /\ plan' = [plan EXCEPT ![p].state = "discarded", ![p].revision = @ + 1]
    /\ UNCHANGED <<storeVars, approval, link, step, lastSeen>>

ApprovePlan(p, expected, a, machine) ==
    /\ plan[p].state = "proposed" /\ ~plan[p].expired
    /\ plan[p].revision = expected
    /\ plan[p].seen = Fingerprint(machine)
    /\ ~CredentialsMissing(machine)
    /\ approval[a].plan = NoId
    /\ plan' = [plan EXCEPT ![p].state = "approved", ![p].revision = @ + 1]
    /\ approval' = [approval EXCEPT ![a] =
           [plan |-> p, revision |-> expected + 1, op |-> NoId, expired |-> FALSE]]
    /\ UNCHANGED <<storeVars, link, step, lastSeen>>

\* An approval never outlives its plan.
ApprovalExpires(a) ==
    /\ approval[a].plan # NoId /\ ~approval[a].expired
    /\ approval' = [approval EXCEPT ![a].expired = TRUE]
    /\ UNCHANGED <<storeVars, plan, link, step, lastSeen>>

\* Nothing looks at the expiry of a plan that was consumed or discarded.
PlanExpires(p) ==
    /\ plan[p].state \in {"proposed", "approved"} /\ ~plan[p].expired
    /\ plan' = [plan EXCEPT ![p].expired = TRUE]
    /\ approval' = [a \in Approvals |->
           IF approval[a].plan = p THEN [approval[a] EXCEPT !.expired = TRUE] ELSE approval[a]]
    /\ UNCHANGED <<storeVars, link, step, lastSeen>>

-------------------------------------------------------------------------------
(* Operations *)

\* _insert_setup: the operation, its link, its steps and its place in the queue.
InsertSetup(o, p, a, source) ==
    /\ StartOperation(o)
    /\ link' = [link EXCEPT ![o] = [plan |-> p, approval |-> a, retryOf |-> source]]
    /\ step' = [step EXCEPT ![o] = [k \in StepKinds |->
           IF \E i \in DOMAIN plan[p].steps : plan[p].steps[i] = k THEN Pending ELSE NoStep]]

\* Mutant of StartSetup: the approval is compared with the plan, not looked at for its use.
StartSetupUnconsumed(o, p, expected, a, machine) ==
    /\ plan[p].state \in {"approved", "consumed"}
    /\ approval[a].plan = p /\ ~approval[a].expired
    /\ plan[p].seen = Fingerprint(machine)
    /\ InsertSetup(o, p, a, NoId)
    /\ approval' = [approval EXCEPT ![a].op = o]
    /\ plan' = [plan EXCEPT ![p].state = "consumed", ![p].revision = @ + 1]
    /\ UNCHANGED lastSeen

\* start_operation
StartSetup(o, p, expected, a, machine) ==
    /\ plan[p].state = "approved" /\ ~plan[p].expired
    /\ plan[p].revision = expected
    /\ approval[a].plan = p /\ approval[a].revision = plan[p].revision
    /\ approval[a].op = NoId /\ ~approval[a].expired
    /\ plan[p].seen = Fingerprint(machine)
    /\ InsertSetup(o, p, a, NoId)
    /\ approval' = [approval EXCEPT ![a].op = o]
    /\ plan' = [plan EXCEPT ![p].state = "consumed", ![p].revision = @ + 1]
    /\ UNCHANGED lastSeen

IsSetup(o) == link[o].plan # NoId

\* cancel_setup
CancelSetup(o, expected) ==
    /\ IsSetup(o) /\ revision[o] = expected
    /\ \/ /\ status[o] \in {"queued", "waiting_user", "interrupted"}
          /\ Release(o, "released")
          /\ Record(o, "cancelled", "none")
          /\ IF item[o].place # "none" THEN QueueChanged ELSE UNCHANGED queueRevision
          /\ UNCHANGED <<enqueueOrder, dispatch, known, results>>
       \/ /\ status[o] = "running"
          /\ HeldFence(o) # 0
          /\ Record(o, "cancelling", "none")
          /\ UNCHANGED <<queueVars, attempts, lease, known, results>>
    /\ UNCHANGED setupVars

\* _revalidate: the approval holds, and the machine is as planned or as the
\* last attempt left it.
Revalidates(o, machine) ==
    /\ plan[link[o].plan].state # "discarded"
    /\ ~approval[link[o].approval].expired
    /\ Fingerprint(machine) \in {plan[link[o].plan].seen, lastSeen[o]}
    /\ ~CredentialsMissing(machine)

RETRYABLE_SETUP == {"failed", "cancelled"}
RESUMABLE_SETUP == {"waiting_user", "interrupted"}

RetrySetup(source, expected, o, machine) ==
    /\ IsSetup(source) /\ revision[source] = expected
    /\ status[source] \in RETRYABLE_SETUP
    /\ Revalidates(source, machine)
    /\ InsertSetup(o, link[source].plan, link[source].approval, source)
    /\ lastSeen' = [lastSeen EXCEPT ![o] = lastSeen[source]]
    /\ UNCHANGED <<plan, approval>>

ResumeSetup(o, expected, machine) ==
    /\ IsSetup(o) /\ revision[o] = expected
    /\ status[o] \in RESUMABLE_SETUP
    /\ Revalidates(o, machine)
    /\ Enqueue(o)
    /\ step' = [step EXCEPT ![o] = [k \in StepKinds |->
           IF step[o][k].status \in {"running", "failed"}
           THEN [step[o][k] EXCEPT !.status = "pending", !.evidence = FALSE] ELSE step[o][k]]]
    /\ Record(o, "queued", "none")
    /\ QueueChanged
    /\ UNCHANGED <<dispatch, attempts, lease, known, results, plan, approval, link, lastSeen>>

-------------------------------------------------------------------------------
(* The owner of an attempt *)

\* reset_steps leaves the attempt column as it was.
ResetSteps(o, fence) ==
    /\ Fenced(o, fence)
    /\ step' = [step EXCEPT ![o] = [k \in StepKinds |->
           IF step[o][k].status = "none" THEN NoStep
           ELSE [step[o][k] EXCEPT !.status = "pending", !.evidence = FALSE]]]
    /\ UNCHANGED <<storeVars, plan, approval, link, lastSeen>>

StepStarted(o, fence, k) ==
    /\ Fenced(o, fence)
    /\ status[o] = "running" /\ step[o][k].status = "pending"
    /\ step' = [step EXCEPT ![o][k] = [status |-> "running", evidence |-> FALSE, attempt |-> fence]]
    /\ Record(o, status[o], flag[o])
    /\ UNCHANGED <<queueVars, attempts, lease, known, results, plan, approval, link, lastSeen>>

\* Mutant of ChildIntent: the identity of an earlier child of the attempt is kept.
ChildIntentKeepsLaunch(o, fence, k) ==
    /\ Fenced(o, fence)
    /\ step[o][k].status = "running"
    /\ UNCHANGED <<storeVars, setupVars>>

\* The child recorded before, if any, is forgotten before the next is spawned.
ChildIntent(o, fence, k) ==
    /\ Fenced(o, fence)
    /\ step[o][k].status = "running"
    /\ attempts' = [attempts EXCEPT ![fence].launch = "intended"]
    /\ UNCHANGED <<opVars, queueVars, lease, known, results, setupVars>>

StepLaunched(o, fence, k, outcome) ==
    /\ Fenced(o, fence)
    /\ step[o][k].status = "running"
    /\ attempts' = [attempts EXCEPT ![fence].launch = outcome]
    /\ UNCHANGED <<opVars, queueVars, lease, known, results, setupVars>>

StepFinished(o, fence, k, newStatus) ==
    /\ Fenced(o, fence)
    /\ step[o][k].status = "running"
    /\ step' = [step EXCEPT ![o][k].status = newStatus, ![o][k].evidence = newStatus \in SATISFIED]
    /\ Record(o, status[o], flag[o])
    /\ UNCHANGED <<queueVars, attempts, lease, known, results, plan, approval, link, lastSeen>>

\* What setup_wait and finish_setup have in common.
FinishCommon(o, target, seen) ==
    /\ Release(o, "released")
    /\ lastSeen' = IF seen = Unseen THEN lastSeen ELSE [lastSeen EXCEPT ![o] = seen]
    /\ Record(o, target, "none")
    /\ QueueChanged
    /\ UNCHANGED <<enqueueOrder, dispatch, known, results, plan, approval, link>>

RunningToPending(o) ==
    step' = [step EXCEPT ![o] = [k \in StepKinds |->
                IF step[o][k].status = "running" THEN [step[o][k] EXCEPT !.status = "pending"]
                ELSE step[o][k]]]

\* Mutant of SetupWait: the wait is stored although a cancel came first.
SetupWaitAlways(o, fence, seen) ==
    /\ Fenced(o, fence)
    /\ status[o] \in ACTIVE
    /\ RunningToPending(o)
    /\ FinishCommon(o, "waiting_user", seen)

\* A recorded cancel wins over the wait.
SetupWait(o, fence, seen) ==
    /\ Fenced(o, fence)
    /\ status[o] \in ACTIVE
    /\ RunningToPending(o)
    /\ FinishCommon(o, IF status[o] = "cancelling" THEN "cancelled" ELSE "waiting_user", seen)

AllSatisfied(o) ==
    \A k \in StepKinds : step[o][k].status # "none" => step[o][k].status \in SATISFIED /\ step[o][k].evidence

\* Mutant of SetupTarget: an attempt that ended without a failure has succeeded.
SetupTargetNotFailed(o, outcome) ==
    IF status[o] = "cancelling" THEN "cancelled"
    ELSE IF outcome = "failed" THEN "failed" ELSE "succeeded"

\* A cancelled end that nobody had recorded is a failure.
SetupTarget(o, outcome) ==
    IF status[o] = "cancelling" THEN "cancelled"
    ELSE IF outcome = "succeeded" THEN "succeeded" ELSE "failed"

\* Mutant of FinishSetup: the end of a setup that is being cancelled is refused.
FinishSetupRunning(o, fence, outcome, seen) ==
    /\ Fenced(o, fence)
    /\ status[o] = "running"
    /\ outcome = "succeeded" => AllSatisfied(o)
    /\ RunningToPending(o)
    /\ FinishCommon(o, SetupTarget(o, outcome), seen)

FinishSetup(o, fence, outcome, seen) ==
    /\ Fenced(o, fence)
    /\ status[o] \in ACTIVE
    /\ outcome = "succeeded" => AllSatisfied(o)
    /\ Check("setup_operation", status[o], SetupTarget(o, outcome))
    /\ RunningToPending(o)
    /\ FinishCommon(o, SetupTarget(o, outcome), seen)

FlagSetupUnconfirmed(o, fence) == FlagUnconfirmed(o, fence) /\ UNCHANGED setupVars

-------------------------------------------------------------------------------

SetupInit ==
    /\ StoreInit
    /\ plan = [p \in Plans |-> NoPlan]
    /\ approval = [a \in Approvals |-> NoApproval]
    /\ link = [o \in Ops |-> NoLink]
    /\ step = [o \in Ops |-> [k \in StepKinds |-> NoStep]]
    /\ lastSeen = [o \in Ops |-> Unseen]

\* What the user approved is what runs, once: every setup operation that is not
\* a retry is the one its approval was consumed by, two operations never share
\* an approval but by retry, and the plan of an operation is never discarded,
\* which would leave the head of the queue to be refused for ever
\* (setup_repository.py start_operation, approve_plan, discard_plan, retry_setup;
\* setup_executor.py dispatch).
ApprovalIsOneUse ==
    \A o \in Ops : IsSetup(o) =>
        /\ plan[link[o].plan].state = "consumed"
        /\ approval[link[o].approval].plan = link[o].plan
        /\ link[o].retryOf = NoId => approval[link[o].approval].op = o
        /\ link[o].retryOf # NoId =>
              link[link[o].retryOf].approval = link[o].approval

\* No step is shown running of a setup that is queued, waits for the user or has
\* reported its end (a setup cancelled while interrupted keeps the row it had).
RunningStepHasAttempt ==
    \A o \in Ops, k \in StepKinds :
        step[o][k].status = "running" => status[o] \in ACTIVE \cup {"interrupted", "cancelled"}

\* A setup succeeds on evidence of the attempt that reports it: nothing that an
\* earlier attempt has verified is taken on trust (setup_repository.py
\* reset_steps, finish_setup).
SuccessHasFreshEvidence ==
    \A o \in Ops : IsSetup(o) /\ status[o] = "succeeded" =>
        /\ AllSatisfied(o)
        /\ \A k \in StepKinds : step[o][k].status # "none" =>
              \A f \in Fences : attempts[f].op = o => f <= step[o][k].attempt
===============================================================================
