------------------------------ MODULE Cutover ------------------------------
(***************************************************************************)
(* Who runs heavy work in one GUI process: the legacy queue                 *)
(* (operation_queue.py) with the jobs of JobManager and SetupWizardService  *)
(* (jobs.py, setup_wizard.py: the same code for what is modelled here), or  *)
(* a v1 runtime that has taken the queue over (job_runtime.py); and the     *)
(* shutdown of the process with its supervisor of children (processes.py).  *)
(*                                                                         *)
(* The lock of the job manager is held while a child is launched.  What the *)
(* dispatcher of a runtime does is its attempt: none, running, or           *)
(* unverified, which is also what a crash of an earlier process may leave.  *)
(***************************************************************************)
EXTENDS Naturals, Sequences

CONSTANTS
    Jobs,      \* legacy jobs
    Clients,   \* threads that cancel
    Runtimes,  \* v1 runtimes of the process
    Shutdown   \* the thread that shuts the process down; it cancels, too

VARIABLES
    items,     \* item of the queue: "absent", "waiting", "running", or how it ended
    order,     \* the items in the order they came
    closedBy,  \* the runtime whose token has closed the queue, or None
    jobs,      \* pc of the request ("raised" once its runner has), status, cancelRequested
    child,     \* process of a job: "none", "alive", "killed", or its exit code
    worker,    \* thread of the queue: pc and job
    cancels,   \* what each thread that cancels is doing: pc and job
    runtimes,  \* state, step of a change of it, stop: the dispatcher was told to stop
    attempt,   \* of the control store: "none", "running", "unverified"
    super,     \* the supervisor: closed, and the children it knows
    shutdown   \* pc of the shutdown and what is left of its step

vars == <<items, order, closedBy, jobs, child, worker, cancels, runtimes, attempt, super, shutdown>>
v1Vars == <<runtimes, attempt>>

None == "none"
Terminal == {"completed", "failed", "cancelled"}
Idle == [pc |-> "idle"]

ASSUME CutoverAssumption == None \notin Runtimes

LockFree == worker.pc \notin {"launch", "spawned"}

\* _finish: the exit code says how the job has ended.
Finished(j, code) ==
    [jobs EXCEPT ![j].status = CASE code = "130" -> "cancelled"
                                 [] code = "0"   -> "completed"
                                 [] OTHER        -> "failed"]

----------------------------------------------------------------------------
(* Requests to the legacy queue. *)

\* start keeps the job before the queue may refuse it: such a job stays "starting".
Start(j) ==
    /\ jobs[j].pc = "new" /\ LockFree
    /\ jobs' = [jobs EXCEPT ![j].pc = "kept", ![j].status = "starting"]
    /\ UNCHANGED <<items, order, closedBy, child, worker, cancels, v1Vars, super, shutdown>>

Submit(j) ==
    /\ jobs[j].pc = "kept"
    /\ IF closedBy # None
       THEN jobs' = [jobs EXCEPT ![j].pc = "refused"] /\ UNCHANGED <<items, order>>
       ELSE /\ jobs' = [jobs EXCEPT ![j].pc = "queued"]
            /\ items' = [items EXCEPT ![j] = "waiting"]
            /\ order' = Append(order, j)
    /\ UNCHANGED <<closedBy, child, worker, cancels, v1Vars, super, shutdown>>

\* An item that waits is cancelled in the queue, and then its job is.
Cancel(c, j) ==
    /\ cancels[c] = Idle /\ items[j] \in {"waiting", "running"}
    /\ items' = [items EXCEPT ![j] = IF @ = "waiting" THEN "cancelled" ELSE @]
    /\ cancels' = [cancels EXCEPT ![c] = [pc |-> "direct", job |-> j]]
    /\ UNCHANGED <<order, closedBy, jobs, child, worker, v1Vars, super, shutdown>>

\* _cancel_direct: without a child the job ends here, otherwise with its child.
Direct(c) ==
    LET j == cancels[c].job
    IN  /\ cancels[c].pc = "direct" /\ LockFree
        /\ CASE jobs[j].status \in Terminal ->
                    cancels' = [cancels EXCEPT ![c] = Idle] /\ UNCHANGED jobs
             [] jobs[j].status = "starting" ->
                    /\ jobs' = [Finished(j, "130") EXCEPT ![j].cancelRequested = TRUE]
                    /\ cancels' = [cancels EXCEPT ![c] = Idle]
             [] OTHER ->
                    /\ jobs' = [jobs EXCEPT ![j].cancelRequested = TRUE]
                    /\ cancels' = [cancels EXCEPT ![c].pc = "kill"]
        /\ UNCHANGED <<items, order, closedBy, child, worker, v1Vars, super, shutdown>>

Killed(c) == IF c = "alive" THEN "killed" ELSE c

Kill(c) ==
    /\ cancels[c].pc = "kill"
    /\ child' = [child EXCEPT ![cancels[c].job] = Killed(@)]
    /\ cancels' = [cancels EXCEPT ![c] = Idle]
    /\ UNCHANGED <<items, order, closedBy, jobs, worker, v1Vars, super, shutdown>>

----------------------------------------------------------------------------
(* The thread of the queue. *)

\* The first item that waits, while none runs.
Take ==
    /\ worker.pc = "idle"
    /\ \A j \in Jobs : items[j] # "running"
    /\ \E i \in DOMAIN order :
        /\ items[order[i]] = "waiting"
        /\ \A k \in 1 .. i - 1 : items[order[k]] # "waiting"
        /\ items' = [items EXCEPT ![order[i]] = "running"]
        /\ worker' = [pc |-> "run", job |-> order[i]]
    /\ UNCHANGED <<order, closedBy, jobs, child, cancels, v1Vars, super, shutdown>>

Run ==
    /\ worker.pc = "run"
    /\ IF jobs[worker.job].cancelRequested
       THEN jobs' = Finished(worker.job, "130") /\ worker' = [worker EXCEPT !.pc = "report"]
       ELSE worker' = [worker EXCEPT !.pc = "launch"] /\ UNCHANGED jobs
    /\ UNCHANGED <<items, order, closedBy, child, cancels, v1Vars, super, shutdown>>

\* popen of the supervisor: refused once it is closed; the program may be missing.
Launch ==
    /\ worker.pc = "launch"
    /\ \/ /\ ~super.closed
          /\ child' = [child EXCEPT ![worker.job] = "alive"]
          /\ worker' = [worker EXCEPT !.pc = "spawned"]
          /\ UNCHANGED jobs
       \/ /\ jobs' = Finished(worker.job, "1")
          /\ worker' = [worker EXCEPT !.pc = "report"]
          /\ UNCHANGED child
    /\ UNCHANGED <<items, order, closedBy, cancels, v1Vars, super, shutdown>>

\* A child launched while the supervisor closed is killed by who launched it.
Attach ==
    /\ worker.pc = "spawned"
    /\ IF super.closed
       THEN /\ child' = [child EXCEPT ![worker.job] = Killed(@)]
            /\ jobs' = Finished(worker.job, "1")
            /\ worker' = [worker EXCEPT !.pc = "report"]
            /\ UNCHANGED super
       ELSE /\ super' = [super EXCEPT !.known = @ \union {worker.job}]
            /\ jobs' = [jobs EXCEPT ![worker.job].status = "running"]
            /\ worker' = [worker EXCEPT !.pc = "reads"]
            /\ UNCHANGED child
    /\ UNCHANGED <<items, order, closedBy, cancels, v1Vars, shutdown>>

ChildEnds(j) ==
    /\ child[j] \in {"alive", "killed"}
    /\ \E code \in IF child[j] = "alive" THEN {"0", "1"} ELSE {"1"} :
            child' = [child EXCEPT ![j] = code]
    /\ UNCHANGED <<items, order, closedBy, jobs, worker, cancels, v1Vars, super, shutdown>>

\* The exit code is known before the lock is taken: a cancel may come in between.
Reaped ==
    /\ worker.pc = "reads" /\ child[worker.job] \in {"0", "1"}
    /\ worker' = [worker EXCEPT !.pc = "reaped"]
    /\ UNCHANGED <<items, order, closedBy, jobs, child, cancels, v1Vars, super, shutdown>>

RunEnds ==
    /\ worker.pc = "reaped"
    /\ jobs' = Finished(worker.job,
                        IF jobs[worker.job].cancelRequested THEN "130" ELSE child[worker.job])
    /\ worker' = [worker EXCEPT !.pc = "report"]
    /\ UNCHANGED <<items, order, closedBy, child, cancels, v1Vars, super, shutdown>>

Report ==
    /\ worker.pc = "report"
    /\ items' = [items EXCEPT ![worker.job] = jobs[worker.job].status]
    /\ worker' = Idle
    /\ UNCHANGED <<order, closedBy, jobs, child, cancels, v1Vars, super, shutdown>>

\* _work: the item of a runner that raises has failed, at whatever point that was: no
\* thread for the output, a line that cannot be read, what a finished job runs. The job
\* keeps its status and the child is left as it is.
RunnerRaises ==
    /\ worker.pc \in {"run", "reads", "reaped", "report"}
    /\ items' = [items EXCEPT ![worker.job] = "failed"]
    /\ jobs' = [jobs EXCEPT ![worker.job].pc = "raised"]
    /\ worker' = Idle
    /\ UNCHANGED <<order, closedBy, child, cancels, v1Vars, super, shutdown>>

----------------------------------------------------------------------------
(* A v1 runtime. *)

\* reopen: only with the token that has closed the queue.
Reopened(r) == IF closedBy = r THEN None ELSE closedBy

\* Mutant: only an item that runs keeps the queue open.
CloseForIfNoneRuns(r) ==
    /\ runtimes[r].state = "inactive" /\ runtimes[r].step = None
    /\ closedBy = None /\ \A j \in Jobs : items[j] # "running"
    /\ closedBy' = r
    /\ runtimes' = [runtimes EXCEPT ![r].step = "opening"]
    /\ UNCHANGED <<items, order, jobs, child, worker, cancels, attempt, super, shutdown>>

\* close_for: nobody owns the queue and every item has ended, in one step.
CloseFor(r) ==
    /\ runtimes[r].state = "inactive" /\ runtimes[r].step = None
    /\ closedBy = None /\ \A j \in Jobs : items[j] \in {"absent"} \union Terminal
    /\ closedBy' = r
    /\ runtimes' = [runtimes EXCEPT ![r].step = "opening"]
    /\ UNCHANGED <<items, order, jobs, child, worker, cancels, attempt, super, shutdown>>

\* The store is opened and recovered, the dispatcher started; or something of it fails.
Activate(r) ==
    /\ runtimes[r].step = "opening"
    /\ \/ /\ runtimes' = [runtimes EXCEPT ![r] = [state |-> "active", step |-> None, stop |-> FALSE]]
          /\ attempt' \in {None, attempt}
          /\ UNCHANGED closedBy
       \/ /\ runtimes' = [runtimes EXCEPT ![r].step = None]
          /\ closedBy' = Reopened(r)
          /\ UNCHANGED attempt
    /\ UNCHANGED <<items, order, jobs, child, worker, cancels, super, shutdown>>

Dispatch(r) ==
    /\ runtimes[r].state = "active" /\ ~runtimes[r].stop /\ attempt = None
    /\ attempt' = "running"
    /\ UNCHANGED <<items, order, closedBy, jobs, child, worker, cancels, runtimes, super, shutdown>>

\* An attempt ends, or nobody can say whether it did.
AttemptEnds ==
    /\ attempt = "running"
    /\ attempt' \in {None, "unverified"}
    /\ UNCHANGED <<items, order, closedBy, jobs, child, worker, cancels, runtimes, super, shutdown>>

StopDispatcher(r) ==
    /\ runtimes[r].state = "active" /\ runtimes[r].step = None
    /\ runtimes' = [runtimes EXCEPT ![r].step = "stopping", ![r].stop = TRUE]
    /\ UNCHANGED <<items, order, closedBy, jobs, child, worker, cancels, attempt, super, shutdown>>

\* Nothing is given back while an attempt runs or is unverified, or when the backup
\* fails: the runtime stays active, its dispatcher stays stopped.
Deactivate(r) ==
    /\ runtimes[r].step = "stopping"
    /\ \/ /\ attempt = None /\ closedBy = r
          /\ runtimes' = [runtimes EXCEPT ![r] = [state |-> "inactive", step |-> None, stop |-> TRUE]]
          /\ closedBy' = Reopened(r)
       \/ /\ runtimes' = [runtimes EXCEPT ![r].step = None]
          /\ UNCHANGED closedBy
    /\ UNCHANGED <<items, order, jobs, child, worker, cancels, attempt, super, shutdown>>

----------------------------------------------------------------------------
(* The shutdown of the process, in the order of shutdown_processes. *)

\* runtime.shutdown: the runtimes are asked to give the queue back.
ShutdownRuntimes ==
    /\ shutdown.pc = "running"
    /\ \A r \in Runtimes : runtimes[r].state = "inactive" \/ runtimes[r].stop
    /\ \A r \in Runtimes : runtimes[r].step = None
    /\ shutdown' = [pc |-> "snapshot"]
    /\ UNCHANGED <<items, order, closedBy, jobs, child, worker, cancels, v1Vars, super>>

\* The jobs that have not ended, then each of them as a cancel does.
ShutdownJobs ==
    /\ shutdown.pc = "snapshot" /\ LockFree
    /\ shutdown' = [pc |-> "jobs", left |->
            {j \in Jobs : jobs[j].pc # "new" /\ jobs[j].status \notin Terminal}]
    /\ UNCHANGED <<items, order, closedBy, jobs, child, worker, cancels, v1Vars, super>>

ShutdownJob ==
    /\ shutdown.pc = "jobs" /\ cancels[Shutdown] = Idle
    /\ \E j \in shutdown.left :
        /\ cancels' = [cancels EXCEPT ![Shutdown] = [pc |-> "direct", job |-> j]]
        /\ shutdown' = [shutdown EXCEPT !.left = @ \ {j}]
    /\ UNCHANGED <<items, order, closedBy, jobs, child, worker, v1Vars, super>>

CloseSupervisor ==
    /\ shutdown.pc = "jobs" /\ shutdown.left = {} /\ cancels[Shutdown] = Idle
    /\ super' = [super EXCEPT !.closed = TRUE]
    /\ shutdown' = [pc |-> "kill", left |-> super.known]
    /\ UNCHANGED <<items, order, closedBy, jobs, child, worker, cancels, v1Vars>>

KillChildren ==
    /\ shutdown.pc = "kill"
    /\ IF shutdown.left = {}
       THEN shutdown' = [pc |-> "done"] /\ UNCHANGED child
       ELSE \E j \in shutdown.left :
              /\ child' = [child EXCEPT ![j] = Killed(@)]
              /\ shutdown' = [shutdown EXCEPT !.left = @ \ {j}]
    /\ UNCHANGED <<items, order, closedBy, jobs, worker, cancels, v1Vars, super>>

----------------------------------------------------------------------------
Init ==
    /\ items = [j \in Jobs |-> "absent"]
    /\ order = <<>>
    /\ closedBy = None
    /\ jobs = [j \in Jobs |-> [pc |-> "new", status |-> None, cancelRequested |-> FALSE]]
    /\ child = [j \in Jobs |-> "none"]
    /\ worker = Idle
    /\ cancels = [c \in Clients \union {Shutdown} |-> Idle]
    /\ runtimes = [r \in Runtimes |-> [state |-> "inactive", step |-> None, stop |-> TRUE]]
    /\ attempt \in {None, "unverified"}
    /\ super = [closed |-> FALSE, known |-> {}]
    /\ shutdown = [pc |-> "running"]

Worker == Take \/ Run \/ Launch \/ Attach \/ Reaped \/ RunEnds \/ Report \/ RunnerRaises

Next ==
    \/ \E j \in Jobs : Start(j) \/ Submit(j) \/ ChildEnds(j)
    \/ \E c \in Clients, j \in Jobs : Cancel(c, j)
    \/ \E c \in DOMAIN cancels : Direct(c) \/ Kill(c)
    \/ Worker
    \/ \E r \in Runtimes :
        CloseFor(r) \/ Activate(r) \/ Dispatch(r) \/ StopDispatcher(r) \/ Deactivate(r)
    \/ AttemptEnds
    \/ ShutdownRuntimes \/ ShutdownJobs \/ ShutdownJob \/ CloseSupervisor \/ KillChildren

Spec == Init /\ [][Next]_vars

----------------------------------------------------------------------------
(* Properties. *)

\* While a v1 attempt runs the legacy queue runs nothing, and one runtime at most has
\* the queue (operation_queue.py:66, job_runtime.py:180). Only a child whose runner has
\* raised may be alive beside the attempt: its item has failed (operation_queue.py:131).
OneExecutor ==
    /\ attempt = "running" =>
            \A j \in Jobs : /\ items[j] # "running"
                            /\ child[j] = "alive" => jobs[j].pc = "raised"
    /\ \A r \in Runtimes : runtimes[r].state = "active" => closedBy = r

\* Once the process has shut down every child has been told to end, whenever it was
\* launched and even if its runner has raised, but for the one whose launch is not over
\* (processes.py:44).
NoChildSurvives ==
    shutdown.pc = "done" =>
        \A j \in Jobs : child[j] = "alive" => worker = [pc |-> "spawned", job |-> j]

\* A legacy item that has ended says what its job says, once no cancel is on its way
\* between the two, or that it failed if its runner raised (operation_queue.py:97,
\* operation_queue.py:131, jobs.py:97).
ItemEndsAsItsJob ==
    \A j \in Jobs :
        items[j] \in Terminal /\ (\A c \in DOMAIN cancels : cancels[c] = Idle \/ cancels[c].job # j) =>
            items[j] = IF jobs[j].pc = "raised" THEN "failed" ELSE jobs[j].status

\* The legacy queue and the v1 runtime never work at once, the shutdown leaves no child,
\* and an item of the legacy queue ends as its job does.
HandOverIsSafe == OneExecutor /\ NoChildSurvives /\ ItemEndsAsItsJob
============================================================================
