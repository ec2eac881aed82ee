----------------------------- MODULE JobCommands -----------------------------
(***************************************************************************)
(* Commands that a client may repeat: the handlers of jobs_api.py and      *)
(* setup_api.py for jobs, the queue, plans and the start of a setup, the   *)
(* checks that job_admission.py makes before some of them, and the tables  *)
(* of replays in the store (job_repository.py, setup_repository.py).       *)
(*                                                                         *)
(* A handler looks for a replay, looks at the machine, and only then       *)
(* commits, each in a transaction of its own; other handlers, the          *)
(* dispatcher and the machine go on between them.  The client may be gone  *)
(* at any time, and sends the request again with the same key.             *)
(*                                                                         *)
(* What is checked outside the store - an input, an output directory, the  *)
(* candidate of a job, the inventory of a plan - is one state of the       *)
(* machine.  Expiry and the approvals of a plan are SetupStore's; a        *)
(* submission and a rerun are JobAdmission's.                              *)
(***************************************************************************)
EXTENDS Naturals, Sequences

CONSTANTS
    Handlers,      \* requests in service at once
    Scenes,        \* the jobs of the store at first, and the requests [do, of, key] that come
    Machines,      \* what a check of the machine may find
    MaxRevision,   \* changes of a job by others than the handlers
    MaxMade        \* jobs, and plans

Commands == {"cancel", "retry", "revalidate", "hold", "control", "plan", "approve", "start"}

Statuses == {"queued", "held", "blocked", "running", "cancelling", "succeeded", "failed",
             "cancelled", "interrupted"}
WAITING == {"queued", "held", "blocked"}
TERMINAL == {"succeeded", "failed", "cancelled"}
RETRYABLE == {"failed", "cancelled", "interrupted"}

(* A job that was submitted, not retried. *)
FirstJob ==
    [status : Statuses \ {"blocked"}, revision : Nat \ {0}, held : BOOLEAN, resolved : Machines,
     ready : {FALSE}, retryOf : {0}]

ASSUME CommandsAssumption ==
    /\ \A scene \in Scenes :
          /\ scene.asked \subseteq [do : Commands, of : Nat, key : STRING]
          /\ scene.jobs \in Seq(FirstJob)
    /\ MaxRevision \in Nat /\ MaxMade \in Nat

VARIABLES
    job,       \* operations and queue_items: status, revision, held, what it was resolved for
    queue,     \* the revision and the dispatch of the queue
    plan,      \* setup_plans
    setup,     \* the plan of each setup operation
    machine,
    asked,     \* the requests of the scene
    serving,   \* handler -> its request and how far it is
    answers    \* job_replays, queue_replays, setup_replays: NoRow or the first answer

commandVars == <<job, queue, plan, setup, machine, asked, serving, answers>>

View(id, status, revision) == [id |-> id, status |-> status, revision |-> revision]
Answer(code, view) == [code |-> code, view |-> view]
RefusedWith(code) == Answer(code, View(0, "none", 0))
NoAnswer == RefusedWith("none")
AcceptedCodes == {"200", "201", "202"}

NoRow == [body |-> <<>>, answer |-> NoAnswer]

ViewOfJob(j) == View(j, job'[j].status, job'[j].revision)
ViewOfQueue == View(0, queue'.dispatch, queue'.revision)
ViewOfPlan(p) == View(p, plan'[p].state, plan'[p].revision)

(* A body is the revision that the client saw, or the plan to start, and what to set. *)
Body(seen, to) == <<seen, to>>

----------------------------------------------------------------------------
(* Handlers. *)

\* The scope of a key is the path: the command and what it is of.
Scope(h) == serving[h].ask
Row(h) == answers[Scope(h)]
Does(h, command) == serving[h].ask.do = command
Target(h) == serving[h].ask.of
Expected(h) == serving[h].body[1]
To(h) == serving[h].body[2]

NoCommand ==
    [pc |-> "absent", ask |-> [do |-> "none", of |-> 0, key |-> "none"],
     body |-> <<>>, known |-> NoRow, seen |-> 0, answer |-> NoAnswer]

Proceeds(h, pc) == serving' = [serving EXCEPT ![h].pc = pc]
Answers(h, answer) ==
    serving' = [serving EXCEPT ![h].pc = "answered", ![h].answer = answer]

StoreIsLeft == UNCHANGED <<job, queue, plan, setup, answers>>
Refuse(h, code) == Answers(h, RefusedWith(code)) /\ StoreIsLeft /\ UNCHANGED machine

\* The replay, or the refusal of another body under the same key.
Replayed(h) ==
    IF Row(h).body = serving[h].body THEN Row(h).answer ELSE RefusedWith("idempotency_conflict")

\* Those that look before they check, and those that check before they commit.
LooksUp == {"retry", "revalidate", "plan", "start"}
Checks == {"retry", "revalidate", "plan", "approve", "start"}

FirstStep(command) ==
    IF command \in LooksUp THEN "lookup" ELSE IF command \in Checks THEN "check" ELSE "commit"

\* Bodies of a request: the resource as some client saw it, or as it will be.
BodiesOf(ask) ==
    CASE ask.do \in {"cancel", "retry", "revalidate"} /\ ask.of \in DOMAIN job ->
            {Body(r, 0) : r \in 1..job[ask.of].revision}
      [] ask.do = "hold" /\ ask.of \in DOMAIN job ->
            {Body(queue.revision, to) : to \in {0, 1}}
      [] ask.do = "control" -> {Body(queue.revision, to) : to \in {0, 1}}
      [] ask.do = "plan" -> {Body(0, 0)}
      [] ask.do = "approve" /\ ask.of \in DOMAIN plan ->
            {Body(r, 0) : r \in 1..plan[ask.of].revision}
      [] ask.do = "start" -> UNION {{Body(p, r) : r \in 1..plan[p].revision} : p \in DOMAIN plan}
      [] OTHER -> {}

\* A request: a new one, or that of the recorded answer again.
CommandArrives(h) ==
    /\ serving[h].pc = "absent"
    /\ \E ask \in asked :
         \E body \in BodiesOf(ask) \cup
                     (IF answers[ask] = NoRow THEN {} ELSE {answers[ask].body}) :
            serving' = [serving EXCEPT ![h] =
                [NoCommand EXCEPT !.pc = FirstStep(ask.do), !.ask = ask, !.body = body,
                                  !.known = answers[ask]]]
    /\ UNCHANGED <<job, queue, plan, setup, machine, answers>>

\* lookup_job, lookup_setup: a replay needs no check.
LookUp(h) ==
    /\ serving[h].pc = "lookup"
    /\ \/ Row(h) # NoRow /\ Answers(h, Replayed(h))
       \/ Row(h) = NoRow /\ Proceeds(h, IF Does(h, "revalidate") THEN "read" ELSE "check")
    /\ UNCHANGED <<job, queue, plan, setup, machine, answers>>

\* revalidate reads the job before it checks the snapshot.
Read(h) ==
    /\ serving[h].pc = "read"
    /\ LET j == job[Target(h)] IN
        \/ j.status # "blocked" /\ Refuse(h, "invalid_transition")
        \/ j.status = "blocked" /\ j.revision # Expected(h) /\ Refuse(h, "revision_conflict")
        \/ /\ j.status = "blocked" /\ j.revision = Expected(h)
           /\ Proceeds(h, "check") /\ UNCHANGED machine /\ StoreIsLeft

\* What is found outside every transaction, and used in the transaction after it.
Sees(h) ==
    /\ serving' = [serving EXCEPT ![h].pc = "commit", ![h].seen = machine]
    /\ UNCHANGED machine /\ StoreIsLeft

\* capture_input: a retry of a changed input stops here, whatever the store has recorded
\* since the lookup.
CaptureInput(h) ==
    /\ serving[h].pc = "check" /\ Does(h, "retry")
    /\ IF machine = job[Target(h)].resolved THEN Sees(h) ELSE Refuse(h, "input_changed")

\* prestart_check: the failure, if it is one, is reported in the transaction.
PrestartCheck(h) ==
    serving[h].pc = "check" /\ Does(h, "revalidate") /\ Sees(h)

\* observe: the inventory of the machine.
Observe(h) ==
    /\ serving[h].pc = "check"
    /\ \E command \in {"plan", "approve", "start"} : Does(h, command)
    /\ Sees(h)

\* The answer reaches the client or is lost; a process that dies answers nobody.
CommandLeaves(h) ==
    /\ serving[h].pc # "absent"
    /\ serving' = [serving EXCEPT ![h] = NoCommand]
    /\ UNCHANGED <<job, queue, plan, setup, machine, answers>>

----------------------------------------------------------------------------
(* The transactions.  Each looks for the replay first. *)

Commits(h, command) == serving[h].pc = "commit" /\ Does(h, command)

CommitReplays(h) ==
    /\ serving[h].pc = "commit" /\ Row(h) # NoRow
    /\ Answers(h, Replayed(h))
    /\ UNCHANGED <<job, queue, plan, setup, machine, answers>>

Fresh(h, command) == Commits(h, command) /\ Row(h) = NoRow

\* _remember_job, _remember_queue, _remember_setup: the answer, in the transaction of the effect.
Accept(h, code, view) ==
    /\ Answers(h, Answer(code, view))
    /\ answers' = [answers EXCEPT ![Scope(h)] =
                        [body |-> serving[h].body, answer |-> Answer(code, view)]]

\* _cas_job.
RefuseStale(h) ==
    /\ \E command \in {"cancel", "retry", "revalidate"} : Fresh(h, command)
    /\ job[Target(h)].revision # Expected(h)
    /\ Refuse(h, "revision_conflict")

\* Mutant of Current: the status is compared, the revision is not.
CurrentUnversioned(h) == TRUE

Current(h) == job[Target(h)].revision = Expected(h)

\* _record, _queue_changed.
Becomes(j, status) ==
    job' = [job EXCEPT ![j].status = status, ![j].revision = @ + 1, ![j].ready = FALSE]
QueueChanges == queue' = [queue EXCEPT !.revision = @ + 1]

\* cancel_job.
CancelJob(h) ==
    /\ Fresh(h, "cancel") /\ Current(h)
    /\ LET j == Target(h)
           status == job[j].status
       IN
        \/ /\ status \in TERMINAL \cup {"interrupted"}
           /\ UNCHANGED <<job, queue>> /\ Accept(h, "200", ViewOfJob(j))
        \/ /\ status = "cancelling"
           /\ UNCHANGED <<job, queue>> /\ Accept(h, "202", ViewOfJob(j))
        \/ /\ status \in WAITING
           /\ Becomes(j, "cancelled") /\ QueueChanges /\ Accept(h, "202", ViewOfJob(j))
        \/ /\ status = "running"
           /\ Becomes(j, "cancelling") /\ UNCHANGED queue /\ Accept(h, "202", ViewOfJob(j))
    /\ UNCHANGED <<plan, setup, machine>>

\* retry_job: a new job with the snapshot of the old one.
RetryJob(h) ==
    /\ Fresh(h, "retry") /\ Current(h)
    /\ LET j == job[Target(h)] IN
        \/ j.status \notin RETRYABLE /\ Refuse(h, "invalid_transition")
        \/ /\ j.status \in RETRYABLE /\ Len(job) < MaxMade
           /\ job' = Append(job, [status |-> "queued", revision |-> 1, held |-> FALSE,
                                  resolved |-> j.resolved, ready |-> FALSE,
                                  retryOf |-> Target(h)])
           /\ QueueChanges
           /\ Accept(h, "202", ViewOfJob(Len(job) + 1))
           /\ UNCHANGED <<plan, setup, machine>>

\* _still_ready, and the identity of the input: what was found is what was resolved.
Fits(h) == serving[h].seen = job[Target(h)].resolved

\* revalidated: a failure rolls the whole transaction back.
Revalidate(h) ==
    /\ Fresh(h, "revalidate") /\ Current(h)
    /\ LET j == Target(h) IN
        \/ job[j].status # "blocked" /\ Refuse(h, "invalid_transition")
        \/ /\ job[j].status = "blocked" /\ ~Fits(h)
           /\ Refuse(h, "revalidation_failed")
        \/ /\ job[j].status = "blocked" /\ Fits(h)
           /\ Becomes(j, IF job[j].held THEN "held" ELSE "queued")
           /\ QueueChanges
           /\ Accept(h, "202", ViewOfJob(j))
           /\ UNCHANGED <<plan, setup, machine>>

\* set_item_hold: a blocked job stays blocked.
HoldItem(h) ==
    /\ Fresh(h, "hold")
    /\ LET j == Target(h)
           held == To(h) = 1
       IN
        \/ queue.revision # Expected(h) /\ Refuse(h, "revision_conflict")
        \/ /\ queue.revision = Expected(h) /\ job[j].status \notin WAITING
           /\ Refuse(h, "invalid_transition")
        \/ /\ queue.revision = Expected(h) /\ job[j].status \in WAITING
           /\ IF job[j].held = held THEN UNCHANGED <<job, queue>>
              ELSE /\ job' = [job EXCEPT ![j].held = held, ![j].revision = @ + 1,
                        ![j].status = IF @ = "blocked" THEN @
                                      ELSE IF held THEN "held" ELSE "queued"]
                   /\ QueueChanges
           /\ Accept(h, "200", ViewOfQueue)
           /\ UNCHANGED <<plan, setup, machine>>

\* set_dispatch: what changes nothing is remembered too.
SetDispatch(h) ==
    /\ Fresh(h, "control")
    /\ LET dispatch == IF To(h) = 1 THEN "running" ELSE "paused" IN
        \/ queue.revision # Expected(h) /\ Refuse(h, "revision_conflict")
        \/ /\ queue.revision = Expected(h)
           /\ IF queue.dispatch = dispatch THEN UNCHANGED queue
              ELSE queue' = [revision |-> queue.revision + 1, dispatch |-> dispatch]
           /\ Accept(h, "200", ViewOfQueue)
           /\ UNCHANGED <<job, plan, setup, machine>>

\* create_plan: from what was observed.
CreatePlan(h) ==
    /\ Fresh(h, "plan") /\ Len(plan) < MaxMade
    /\ plan' = Append(plan, [state |-> "proposed", revision |-> 1, of |-> serving[h].seen])
    /\ Accept(h, "201", ViewOfPlan(Len(plan) + 1))
    /\ UNCHANGED <<job, queue, setup, machine>>

\* approve_plan.
ApprovePlan(h) ==
    /\ Fresh(h, "approve")
    /\ LET p == plan[Target(h)] IN
        \/ p.revision # Expected(h) /\ Refuse(h, "revision_conflict")
        \/ /\ p.revision = Expected(h) /\ p.state # "proposed"
           /\ Refuse(h, IF p.state = "approved" THEN "plan_already_approved"
                        ELSE "plan_consumed")
        \/ /\ p.revision = Expected(h) /\ p.state = "proposed" /\ p.of # serving[h].seen
           /\ Refuse(h, "inventory_stale")
        \/ /\ p.revision = Expected(h) /\ p.state = "proposed" /\ p.of = serving[h].seen
           /\ plan' = [plan EXCEPT ![Target(h)].state = "approved",
                                   ![Target(h)].revision = @ + 1]
           /\ Accept(h, "201", ViewOfPlan(Target(h)))
           /\ UNCHANGED <<job, queue, setup, machine>>

\* start_operation consumes the plan and enqueues its operation.
StartOperation(h) ==
    /\ Fresh(h, "start")
    /\ LET n == Expected(h)
           p == plan[n]
       IN
        \/ p.state = "consumed" /\ Refuse(h, "plan_consumed")
        \/ p.state = "proposed" /\ Refuse(h, "plan_not_approved")
        \/ p.state = "approved" /\ p.revision # To(h) /\ Refuse(h, "plan_revision_mismatch")
        \/ /\ p.state = "approved" /\ p.revision = To(h) /\ p.of # serving[h].seen
           /\ Refuse(h, "inventory_stale")
        \/ /\ p.state = "approved" /\ p.revision = To(h) /\ p.of = serving[h].seen
           /\ plan' = [plan EXCEPT ![n].state = "consumed", ![n].revision = @ + 1]
           /\ setup' = Append(setup, n)
           /\ QueueChanges
           /\ Accept(h, "202", View(Len(setup) + 1, "queued", 1))
           /\ UNCHANGED <<job, machine>>

----------------------------------------------------------------------------
(* What goes on meanwhile: the dispatcher, the attempts and the machine. *)

Ends(status) ==
    CASE status = "queued"     -> {"running", "blocked"}
      [] status = "running"    -> {"succeeded", "failed", "interrupted"}
      [] status = "cancelling" -> {"cancelled", "failed", "interrupted"}
      [] OTHER                 -> {}

\* A dispatch, a block (block_job) or the end of an attempt.
JobGoesOn(j) ==
    /\ job[j].revision < MaxRevision
    /\ \E status \in Ends(job[j].status) :
          /\ status = "running" => queue.dispatch = "running"
          /\ job' = [job EXCEPT ![j].status = status, ![j].revision = @ + 1,
                        ![j].ready = status = "blocked" /\ machine = job[j].resolved]
    /\ QueueChanges
    /\ UNCHANGED <<plan, setup, machine, serving, answers>>

\* A job that is blocked while the machine is again as it was resolved for is ready.
MachineChanges ==
    /\ \E m \in Machines \ {machine} :
          /\ machine' = m
          /\ job' = [j \in DOMAIN job |-> [job[j] EXCEPT
                        !.ready = @ \/ (job[j].status = "blocked" /\ job[j].resolved = m)]]
    /\ UNCHANGED <<queue, plan, setup, serving, answers>>

----------------------------------------------------------------------------
CommandInit ==
    /\ \E scene \in Scenes : job = scene.jobs /\ asked = scene.asked
    /\ queue = [revision |-> 1, dispatch |-> "running"]
    /\ plan = <<>> /\ setup = <<>>
    /\ machine \in Machines
    /\ serving = [h \in Handlers |-> NoCommand]
    /\ answers = [ask \in asked |-> NoRow]

HandlerStep(h) ==
    \/ CommandArrives(h) \/ LookUp(h) \/ Read(h) \/ CommandLeaves(h)
    \/ CaptureInput(h) \/ PrestartCheck(h) \/ Observe(h)
    \/ CommitReplays(h) \/ RefuseStale(h)
    \/ CancelJob(h) \/ RetryJob(h) \/ Revalidate(h) \/ HoldItem(h) \/ SetDispatch(h)
    \/ CreatePlan(h) \/ ApprovePlan(h) \/ StartOperation(h)

CommandNext ==
    /\ \/ \E h \in Handlers : HandlerStep(h)
       \/ \E j \in DOMAIN job : JobGoesOn(j)
       \/ MachineChanges
    /\ UNCHANGED asked

CommandSpec == CommandInit /\ [][CommandNext]_commandVars

----------------------------------------------------------------------------
(* What every answer that is accepted tells is what the store remembers of its key, so that
   all who are told of one key are told the same (_remember_job, _remember_queue,
   _remember_setup). *)
AcceptedIsRemembered ==
    \A h \in Handlers :
        serving[h].pc = "answered" /\ serving[h].answer.code \in AcceptedCodes
            => Row(h) = [body |-> serving[h].body, answer |-> serving[h].answer]

(* A request whose key was answered before it came gets that answer, or the conflict of
   another body, whatever has become of the job, the plan or the machine since (lookup_job,
   lookup_setup, and the replay that each transaction begins with). *)
RepetitionIsReplayed ==
    \A h \in Handlers :
        serving[h].pc = "answered" /\ serving[h].known # NoRow
            => serving[h].answer = Replayed(h)

(* Whatever was made by a command - a job by a retry, a plan, a setup - is what one key was
   told of: no repetition makes a second one; and a plan starts one setup. *)
MadeByOneKey ==
    /\ \A n \in DOMAIN job : job[n].retryOf # 0 =>
          \E ask \in asked : /\ ask.do = "retry" /\ ask.of = job[n].retryOf
                             /\ answers[ask].answer.view.id = n
    /\ \A n \in DOMAIN plan :
          \E ask \in asked : ask.do = "plan" /\ answers[ask].answer.view.id = n
    /\ \A n \in DOMAIN setup :
          /\ plan[setup[n]].state = "consumed"
          /\ \E ask \in asked : ask.do = "start" /\ answers[ask].answer.view.id = n
    /\ \A m, n \in DOMAIN setup : setup[m] = setup[n] => m = n

CommandsHappenOnce == AcceptedIsRemembered /\ RepetitionIsReplayed /\ MadeByOneKey

(* A job leaves the block only if the machine was as the job needs it at some time since it
   was blocked, though the check and the transaction that lifts the block are apart
   (revalidate, revalidated). *)
BlockIsLiftedReady ==
    \A j \in DOMAIN job :
        job[j].status = "blocked" /\ job'[j].status \in {"queued", "held"} => job[j].ready

(* What a command does and tells, it does and tells once, and on a check that still holds. *)
CommandsAreOnce == []CommandsHappenOnce /\ [][BlockIsLiftedReady]_commandVars
=============================================================================
