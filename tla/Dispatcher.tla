------------------------------ MODULE Dispatcher ------------------------------
(***************************************************************************)
(* The processes around the store: GUI processes that activate the v1      *)
(* runtime (job_runtime.py), recover what a former process left behind,    *)
(* run the dispatcher thread and its heartbeat (job_dispatcher.py), spawn  *)
(* worker processes through WorkerClient (worker_client.py) and stop.      *)
(* The thread runs the jobs itself; the setup operations it hands to the   *)
(* executor are in SetupExecutor, which extends this module.               *)
(*                                                                         *)
(* A GUI process may die between any two steps, its worker lives on, and   *)
(* the next process finds only the store and what the operating system     *)
(* still knows (recovery.py, process_verifier.py).  Two GUI processes may  *)
(* have the same store open: the store is what keeps them apart.           *)
(***************************************************************************)
EXTENDS ControlStore

CONSTANTS
    Guis,       \* GUI processes
    Quitters,   \* bound: the processes whose user ever deactivates the runtime
    NoJob,      \* no operation
    MaxUnclear  \* bound: observations of a process that are not ALIVE or GONE

ASSUME DispatcherAssumption ==
    /\ NoJob \notin Ops /\ Quitters \subseteq Guis
    /\ MaxUnclear \in Nat

VARIABLES
    up,       \* the GUI processes that exist
    runtime,  \* JobRuntime.activate of each process
    loop,     \* the dispatcher thread of each process, with its _Active object
    stopper,  \* JobDispatcher.stop as called by JobRuntime.deactivate
    owner,    \* the process that began each attempt, by fencing token
    orphans,  \* attempts whose owner process has died
    workers,  \* attempts whose worker process is running
    unclear   \* observations so far that told nothing

guiVars == <<up, runtime, loop, stopper>>
osVars  == <<owner, orphans, workers, unclear>>
vars    == <<storeVars, guiVars, osVars>>

\* activate: the lease it read in the first transaction of recover(), and what
\* it concluded about it.
Inactive == [state |-> "inactive", fence |-> 0, launch |-> "failed", verdict |-> "skip"]

\* One round of the loop: the locals of run_once and _run.
Idle == [pc |-> "idle", job |-> NoJob, revision |-> 0, fence |-> 0, active |-> FALSE,
         cancel |-> FALSE, sent |-> FALSE, lost |-> FALSE, outcome |-> "failed"]
Down == [Idle EXCEPT !.pc = "down"]

NotStopping == [pc |-> "none", fence |-> 0, revision |-> 0]  \* revision 0: not running
StopIsSet(g) == stopper[g].pc # "none"

\* The thread is past begin_attempt and not yet back in run_once: with a job, or
\* with a setup operation (the steps of SetupExecutor).
JobPcs   == {"granted", "starting", "spawned", "executing", "killing", "unstarted", "exited"}
SetupRun == {"begun", "outdated", "resetting", "boundary", "stepping", "working",
             "intending", "launching", "launched", "waiting", "closing"}
Holding  == JobPcs \cup SetupRun
\* The part of it during which the heartbeat thread runs.
Beating == {"starting", "spawned", "executing", "killing"}

-------------------------------------------------------------------------------
(* Activation and recovery *)

\* recover(), first transaction: the heavy lease and its attempt's launch record.
ActivateRead(g) ==
    /\ g \in up
    /\ runtime[g].state = "inactive"
    /\ runtime' = [runtime EXCEPT ![g] =
           [Inactive EXCEPT !.state = "observing", !.fence = lease["heavy"],
                            !.launch = IF lease["heavy"] = 0 THEN "failed"
                                       ELSE attempts[lease["heavy"]].launch]]
    /\ UNCHANGED <<storeVars, up, loop, stopper, osVars>>

\* OsProcessVerifier.check: PID_REUSED and UNKNOWN can only be answered while
\* the bound lasts; ALIVE and GONE are never wrong.
Observations(gone) ==
    (IF gone THEN {"gone"} ELSE {"alive"})
        \cup (IF unclear = MaxUnclear THEN {}
              ELSE {"unknown"} \cup (IF gone THEN {"pid_reused"} ELSE {}))

\* Mutant of Decide: a worker that is gone ends the attempt, its owner ignored.
DecideByWorker(ownerSeen, launch, workerSeen) ==
    IF launch = "confirmed" /\ workerSeen = "gone" THEN "interrupted"
    ELSE IF ownerSeen = "alive" THEN "owner_alive" ELSE "recovery_launch_unconfirmed"

\* Mutant of Decide: only a failed launch is evidence that there is no worker.
DecideByLaunch(ownerSeen, launch, workerSeen) ==
    CASE ownerSeen = "alive" -> "owner_alive"
      [] ownerSeen = "gone" /\ launch = "failed" -> "interrupted"
      [] OTHER -> "recovery_launch_unconfirmed"

\* recovery.decide for an owner and a worker; the worker counts only if its
\* identity was recorded.
Decide(ownerSeen, launch, workerSeen) ==
    CASE ownerSeen = "alive"      -> "owner_alive"
      [] ownerSeen = "pid_reused" -> "recovery_pid_reused"
      [] ownerSeen = "unknown"    -> "recovery_owner_unverified"
      [] ownerSeen = "gone" /\ launch = "failed"   -> "interrupted"
      [] ownerSeen = "gone" /\ launch = "intended" -> "recovery_launch_unconfirmed"
      [] ownerSeen = "gone" /\ launch = "confirmed" ->
            CASE workerSeen = "gone"       -> "interrupted"
              [] workerSeen = "alive"      -> "recovery_child_alive"
              [] workerSeen = "pid_reused" -> "recovery_pid_reused"
              [] workerSeen = "unknown"    -> "recovery_owner_unverified"

\* Both processes are observed outside any transaction; workerGone: the worker
\* that the journal named has ended.
ObserveWith(g, workerGone) ==
    LET fence == runtime[g].fence
        launch == runtime[g].launch
    IN  /\ runtime[g].state = "observing"
        /\ IF fence = 0
           THEN /\ runtime' = [runtime EXCEPT ![g].state = "committing"]
                /\ UNCHANGED unclear
           ELSE \E ownerSeen \in Observations(fence \in orphans),
                   workerSeen \in Observations(workerGone) :
                    /\ runtime' = [runtime EXCEPT ![g].state = "committing",
                                        ![g].launch = "failed",
                                        ![g].verdict = Decide(ownerSeen, launch, workerSeen)]
                    /\ unclear' = IF {ownerSeen, workerSeen} \subseteq {"alive", "gone"}
                                  THEN unclear ELSE unclear + 1
        /\ UNCHANGED <<storeVars, up, loop, stopper, owner, orphans, workers>>

\* The worker of a job is its only child.
ActivateObserve(g) == ObserveWith(g, runtime[g].fence \notin workers)

DecisionsOf(g) == IF runtime[g].fence = 0 THEN <<>>
                  ELSE [f \in {runtime[g].fence} |-> runtime[g].verdict]

\* recover(), second transaction; then the dispatcher thread starts.
ActivateCommit(g) ==
    /\ runtime[g].state = "committing"
    /\ Recover(DecisionsOf(g))
    /\ runtime' = [runtime EXCEPT ![g] = [Inactive EXCEPT !.state = "active"]]
    /\ loop' = [loop EXCEPT ![g] = Idle]
    /\ stopper' = [stopper EXCEPT ![g] = NotStopping]
    /\ UNCHANGED <<up, osVars>>

\* The store was busy or unreadable: nothing was acquired.
ActivateFails(g) ==
    /\ runtime[g].state \in {"observing", "committing"}
    /\ runtime' = [runtime EXCEPT ![g] = Inactive]
    /\ UNCHANGED <<storeVars, up, loop, stopper, osVars>>

-------------------------------------------------------------------------------
(* The dispatcher thread: run_once and _run *)

\* A step of g's thread that touches nothing but its own locals.
Local(g, next) ==
    /\ loop' = [loop EXCEPT ![g] = next]
    /\ UNCHANGED <<storeVars, up, runtime, stopper, osVars>>

\* A step of g's thread that also commits a transaction of the store.
Commit(g, next) ==
    /\ loop' = [loop EXCEPT ![g] = next]
    /\ UNCHANGED <<up, runtime, stopper, osVars>>

\* next_dispatchable: a hint read outside the transaction that uses it.
Pick(g) ==
    /\ loop[g].pc = "idle" /\ ~StopIsSet(g)
    /\ dispatch = "running" /\ lease["heavy"] = 0
    /\ \E o \in Ops :
          /\ DispatchGuard(o) /\ Kind[o] = "job"
          /\ Local(g, [Idle EXCEPT !.pc = "checking", !.job = o, !.revision = revision[o]])

LoopEnds(g) ==
    /\ loop[g].pc = "idle" /\ StopIsSet(g)
    /\ Local(g, Down)

\* The pre-start checks fail: the job is blocked, unless it has changed.
PrestartFails(g) ==
    /\ loop[g].pc = "checking"
    /\ \/ BlockJob(loop[g].job, loop[g].revision)
       \/ revision[loop[g].job] # loop[g].revision /\ UNCHANGED storeVars
    /\ Commit(g, Idle)

\* They pass, and begin_attempt commits, or refuses what has changed since.
Begin(g) ==
    /\ loop[g].pc = "checking"
    /\ BeginAttempt(loop[g].job, loop[g].revision)
    /\ loop' = [loop EXCEPT ![g].pc = "granted", ![g].fence = Len(attempts) + 1,
                            ![g].revision = 0]
    /\ owner' = Append(owner, g)
    /\ UNCHANGED <<up, runtime, stopper, orphans, workers, unclear>>

BeginRefused(g) ==
    /\ loop[g].pc = "checking"
    /\ ~CanBegin(loop[g].job, loop[g].revision)
    /\ Local(g, Idle)

\* Only now does stop() find the attempt.
PublishActive(g) ==
    /\ loop[g].pc = "granted"
    /\ Local(g, [loop[g] EXCEPT !.pc = "starting", !.active = TRUE])

Spawn(g) ==
    /\ loop[g].pc = "starting"
    /\ loop' = [loop EXCEPT ![g].pc = "spawned"]
    /\ workers' = workers \cup {loop[g].fence}
    /\ UNCHANGED <<storeVars, up, runtime, stopper, owner, orphans, unclear>>

\* No plan, no supervisor or no process: execute raises before on_spawn.
SpawnFails(g) ==
    /\ loop[g].pc = "starting"
    /\ Local(g, [loop[g] EXCEPT !.pc = "unstarted"])

\* on_spawn journals the worker's identity; if that fails the worker is killed.
ConfirmLaunch(g) ==
    /\ loop[g].pc = "spawned"
    /\ RecordLaunch(loop[g].job, loop[g].fence, "confirmed")
    /\ Commit(g, [loop[g] EXCEPT !.pc = "executing"])

\* Mutant of ConfirmLaunchFails: the launch is journaled as failed at once.
ConfirmLaunchFailsRecorded(g) ==
    /\ loop[g].pc = "spawned"
    /\ RecordLaunch(loop[g].job, loop[g].fence, "failed")
    /\ Commit(g, [loop[g] EXCEPT !.pc = "killing"])

ConfirmLaunchFails(g) ==
    /\ loop[g].pc = "spawned"
    /\ Local(g, [loop[g] EXCEPT !.pc = "killing"])

\* The request loop of WorkerClient sends one cancel message.
SendCancel(g) ==
    /\ loop[g].pc = "executing" /\ loop[g].cancel /\ ~loop[g].sent
    /\ Local(g, [loop[g] EXCEPT !.sent = TRUE])

\* The worker has exited and its answer was read to the end: a verified
\* completion, a cancellation it was asked for, or a failure.
WorkerAnswered(g) ==
    /\ loop[g].pc = "executing" /\ loop[g].fence \notin workers
    /\ \E outcome \in {"succeeded", "failed"} \cup (IF loop[g].sent THEN {"cancelled"} ELSE {}) :
          Local(g, [loop[g] EXCEPT !.pc = "exited", !.outcome = outcome])

\* A timeout, a malformed message or a wrong sequence: give up and kill.
GiveUp(g) ==
    /\ loop[g].pc = "executing"
    /\ Local(g, [loop[g] EXCEPT !.pc = "killing"])

\* kill_process_tree and a bounded wait, which the worker may survive.
Kill(g) ==
    /\ loop[g].pc = "killing"
    /\ loop' = [loop EXCEPT ![g].pc = "exited"]
    /\ workers' \in {workers, workers \ {loop[g].fence}}
    /\ UNCHANGED <<storeVars, up, runtime, stopper, owner, orphans, unclear>>

\* execute is over and nothing was spawned: evidence that there is no worker.
\* The commit may be refused or given up, finish_attempt follows anyway.
RecordNoWorker(g) ==
    /\ loop[g].pc = "unstarted" /\ ~loop[g].lost
    /\ \/ RecordLaunch(loop[g].job, loop[g].fence, "failed")
       \/ UNCHANGED storeVars
    /\ Commit(g, [loop[g] EXCEPT !.pc = "exited"])

\* poll() is None: the slot must stay occupied.
Flag(g) ==
    /\ loop[g].pc = "exited" /\ ~loop[g].lost
    /\ loop[g].fence \in workers
    /\ \/ FlagUnconfirmed(loop[g].job, loop[g].fence)
       \/ flag[loop[g].job] = "termination_failed" /\ UNCHANGED storeVars
    /\ Commit(g, Idle)

\* Mutant of Finish: reported although the exit was not observed.
FinishUnobserved(g) ==
    /\ loop[g].pc = "exited" /\ ~loop[g].lost
    /\ FinishAttempt(loop[g].job, loop[g].fence, loop[g].outcome)
    /\ Commit(g, Idle)

\* The fenced terminal report; a verified completion whose input has changed
\* meanwhile is reported as a failure.
Finish(g) ==
    /\ loop[g].pc = "exited" /\ ~loop[g].lost
    /\ loop[g].fence \notin workers
    /\ \E outcome \in {loop[g].outcome} \cup (IF loop[g].outcome = "succeeded" THEN {"failed"} ELSE {}) :
          FinishAttempt(loop[g].job, loop[g].fence, outcome)
    /\ Commit(g, Idle)

\* No report: _commit gave up after its retries and leaves the lease for
\* recovery, or the lease was lost to another owner.
DeferReport(g) ==
    /\ loop[g].pc = "exited" \/ (loop[g].pc = "unstarted" /\ loop[g].lost)
    /\ Local(g, Idle)

\* Mutant of Heartbeat: renews the lease and does not look at the status.
HeartbeatRenewsOnly(g) ==
    /\ loop[g].pc \in Beating
    /\ ~Fenced(loop[g].job, loop[g].fence) /\ ~loop[g].lost
    /\ Local(g, [loop[g] EXCEPT !.cancel = TRUE, !.lost = TRUE])

\* One beat of the heartbeat thread, which also does what notify_cancel does.
Beat(g) ==
    /\ IF Fenced(loop[g].job, loop[g].fence)
       THEN /\ status[loop[g].job] = "cancelling" /\ ~loop[g].cancel
            /\ Local(g, [loop[g] EXCEPT !.cancel = TRUE])
       ELSE /\ ~loop[g].lost
            /\ Local(g, [loop[g] EXCEPT !.cancel = TRUE, !.lost = TRUE])

Heartbeat(g) == loop[g].pc \in Beating /\ Beat(g)
-------------------------------------------------------------------------------
(* JobRuntime.deactivate and JobDispatcher.stop *)

\* A step of the thread that calls deactivate, none of the dispatcher's.
Stopping(g, next) ==
    /\ stopper' = [stopper EXCEPT ![g] = next]
    /\ UNCHANGED <<up, runtime, osVars>>

\* The stop event is set, then _active is read under its lock.
StopBegin(g) ==
    /\ g \in Quitters
    /\ runtime[g].state = "active" /\ stopper[g].pc \in {"none", "refused"}
    /\ Stopping(g, [NotStopping EXCEPT
           !.pc = IF loop[g].active THEN "reading" ELSE "joining",
           !.fence = IF loop[g].active THEN loop[g].fence ELSE 0])
    /\ UNCHANGED <<storeVars, loop>>

\* _request_cancel: store.get ...
StopRead(g) ==
    LET job == attempts[stopper[g].fence].op
    IN  /\ stopper[g].pc = "reading"
        /\ Stopping(g, [stopper[g] EXCEPT !.pc = "cancelling",
               !.revision = IF status[job] = "running" THEN revision[job] ELSE 0])
        /\ UNCHANGED <<storeVars, loop>>

\* ... then a transition with the revision read, whose refusal is ignored, and
\* the cancel event of the attempt.
StopCancel(g) ==
    LET fence == stopper[g].fence
        job   == attempts[fence].op
    IN  /\ stopper[g].pc = "cancelling"
        /\ IF stopper[g].revision = revision[job]
           THEN Transition(job, stopper[g].revision, "cancelling", 0)
           ELSE UNCHANGED storeVars
        /\ loop' = [loop EXCEPT ![g].cancel = @ \/ (loop[g].active /\ loop[g].fence = fence)]
        /\ Stopping(g, [stopper[g] EXCEPT !.pc = "joining"])

\* Mutant of StopJoined: an ended thread is taken for a free slot.
StopJoinedUnchecked(g) ==
    /\ stopper[g].pc = "joining" /\ loop[g].pc = "down"
    /\ runtime' = [runtime EXCEPT ![g] = Inactive]
    /\ stopper' = [stopper EXCEPT ![g] = NotStopping]
    /\ UNCHANGED <<storeVars, up, loop, osVars>>

\* The thread has ended: back to the legacy queue, unless the slot is occupied.
StopJoined(g) ==
    /\ stopper[g].pc = "joining" /\ loop[g].pc = "down"
    /\ IF lease["heavy"] = 0
       THEN /\ runtime' = [runtime EXCEPT ![g] = Inactive]
            /\ stopper' = [stopper EXCEPT ![g] = NotStopping]
       ELSE /\ stopper' = [stopper EXCEPT ![g].pc = "refused"]
            /\ UNCHANGED runtime
    /\ UNCHANGED <<storeVars, up, loop, osVars>>

\* join() timed out, in the pre-start checks or in an attempt that has a
\* worker: the attempt keeps its slot, the runtime stays active.
StopTimesOut(g) ==
    /\ stopper[g].pc = "joining"
    /\ loop[g].pc \in {"checking", "spawned", "executing", "killing", "exited"}
    /\ Stopping(g, [stopper[g] EXCEPT !.pc = "refused"])
    /\ UNCHANGED <<storeVars, loop>>

-------------------------------------------------------------------------------
(* Processes *)

\* The GUI process ends, whatever its threads were doing; a worker lives on.
Crash(g) ==
    /\ g \in up
    /\ up' = up \ {g}
    /\ runtime' = [runtime EXCEPT ![g] = Inactive]
    /\ loop' = [loop EXCEPT ![g] = Down]
    /\ stopper' = [stopper EXCEPT ![g] = NotStopping]
    /\ orphans' = orphans \cup {f \in Fences : owner[f] = g}
    /\ UNCHANGED <<storeVars, owner, workers, unclear>>

StartGui(g) ==
    /\ g \notin up
    /\ up' = up \cup {g}
    /\ UNCHANGED <<storeVars, runtime, loop, stopper, osVars>>

WorkerExits(f) ==
    /\ f \in workers
    /\ workers' = workers \ {f}
    /\ UNCHANGED <<storeVars, guiVars, owner, orphans, unclear>>

-------------------------------------------------------------------------------
(* The v1 API, served while some process has an active runtime, and the      *)
(* whole system                                                              *)

JobCommand ==
    \/ \E rank \in Batches : AcceptBatch(rank)
    \/ \E o \in Ops : \E expected \in 1..MaxRevision[o] :
          \/ CancelJob(o, expected)
          \/ Revalidated(o, expected)
          \/ \E new \in Ops : RetryJob(o, expected, new)

QueueCommand ==
    \E expectedQueue \in 1..MaxQueueRevision :
       \/ \E o \in Ops, held \in BOOLEAN :
             revision[o] <= MaxRevision[o] /\ SetItemHold(o, expectedQueue, held)
       \/ \E target \in {"running", "paused"} : SetDispatch(expectedQueue, target)
       \/ /\ \A o \in Waiting : revision[o] <= MaxRevision[o]
          /\ \E takes \in Bijection(Waiting, Waiting) : Reorder(expectedQueue, takes)

Command ==
    /\ \E g \in up : runtime[g].state = "active"
    /\ JobCommand \/ QueueCommand
    /\ UNCHANGED <<guiVars, osVars>>

Activate(g) == ActivateRead(g) \/ ActivateObserve(g) \/ ActivateCommit(g)

\* What the thread does by itself, timeouts and store faults left out.
Dispatch(g) ==
    \/ Pick(g) \/ LoopEnds(g) \/ PrestartFails(g)
    \/ Begin(g) \/ BeginRefused(g) \/ PublishActive(g)
    \/ Spawn(g) \/ SpawnFails(g) \/ ConfirmLaunch(g) \/ ConfirmLaunchFails(g)
    \/ SendCancel(g) \/ WorkerAnswered(g) \/ Kill(g)
    \/ RecordNoWorker(g) \/ Flag(g) \/ Finish(g)

Stop(g) == StopRead(g) \/ StopCancel(g) \/ StopJoined(g) \/ StopTimesOut(g)

\* Every step of a process but the observation of other processes.
OwnStep(g) ==
    \/ ActivateRead(g) \/ ActivateCommit(g) \/ ActivateFails(g)
    \/ Pick(g) \/ LoopEnds(g) \/ PrestartFails(g)
    \/ Begin(g) \/ BeginRefused(g) \/ PublishActive(g)
    \/ Spawn(g) \/ SpawnFails(g) \/ ConfirmLaunch(g) \/ ConfirmLaunchFails(g)
    \/ SendCancel(g) \/ WorkerAnswered(g) \/ GiveUp(g) \/ Kill(g)
    \/ RecordNoWorker(g) \/ Flag(g) \/ Finish(g) \/ DeferReport(g) \/ Heartbeat(g)
    \/ StopBegin(g) \/ StopRead(g) \/ StopCancel(g) \/ StopJoined(g) \/ StopTimesOut(g)
    \/ Crash(g) \/ StartGui(g)

GuiStep == \E g \in Guis : ActivateObserve(g) \/ OwnStep(g)

Init ==
    /\ StoreInit
    /\ up = {}
    /\ runtime = [g \in Guis |-> Inactive]
    /\ loop = [g \in Guis |-> Down]
    /\ stopper = [g \in Guis |-> NotStopping]
    /\ owner = <<>> /\ orphans = {} /\ workers = {}
    /\ unclear = 0

Next == Command \/ GuiStep \/ (\E f \in workers : WorkerExits(f))

Spec == Init /\ [][Next]_vars
-------------------------------------------------------------------------------
(* Safety *)

LoopPcs == {"down", "idle", "checking", "picked", "observed"} \cup Holding

DispatcherTypeOK ==
    /\ TypeOK
    /\ up \subseteq Guis
    /\ runtime \in [Guis -> [state : {"inactive", "observing", "committing", "active"},
                             fence : 0..Len(attempts), launch : {"intended", "confirmed", "failed"},
                             verdict : Verdicts \cup {"skip"}]]
    /\ loop \in [Guis -> [pc : LoopPcs, job : Ops \cup {NoJob}, revision : Nat,
                          fence : 0..Len(attempts), active : BOOLEAN, cancel : BOOLEAN,
                          sent : BOOLEAN, lost : BOOLEAN,
                          outcome : {"succeeded", "failed", "cancelled", "wait", "unconfirmed"}]]
    /\ stopper \in [Guis -> [pc : {"none", "reading", "cancelling", "joining", "refused"},
                             fence : 0..Len(attempts), revision : Nat]]
    /\ owner \in Seq(Guis) /\ Len(owner) = Len(attempts)
    /\ orphans \subseteq Fences /\ workers \subseteq Fences
    /\ unclear \in 0..MaxUnclear

\* A worker process runs only for the attempt that holds the heavy slot, so
\* never two at once, across crashes, failed kills and two GUI processes
\* (job_dispatcher.py _run, recovery.py decide).
WorkerHoldsLease == \A f \in workers : lease["heavy"] = f

\* Recovery, which another process may run at any moment, never takes the slot
\* from an attempt whose thread is still on its way to a report.
LiveOwnerKeepsLease ==
    \A g \in Guis : loop[g].pc \in Holding =>
        /\ Fenced(loop[g].job, loop[g].fence)
        /\ owner[loop[g].fence] = g /\ loop[g].fence \notin orphans

\* What recovery.decide relies on: launch = failed is evidence that there is no
\* worker process.
LaunchFailedMeansNoWorker == \A f \in workers : attempts[f].launch # "failed"

\* A runtime that gave the legacy queue back (deactivate returned, or never
\* activated) has no v1 attempt of its own that holds the slot or still runs.
DeactivatedOwnsNothing ==
    \A g \in up : runtime[g].state = "inactive" =>
        \A f \in Fences \ orphans : owner[f] = g =>
            lease["heavy"] # f /\ f \notin workers

\* The pre-start checks are made on a queued job and take their time; a job the
\* user has put on hold meanwhile is not blocked behind his back, although
\* block_job itself would accept it.
NeverBlocksHeld ==
    [][ \A o \in Ops : ~(status[o] = "held" /\ status'[o] = "blocked") ]_vars

\* recover() is idempotent: repeated with what it concluded, it changes nothing.
RecoverIsIdempotent ==
    [][ \A g \in Guis :
          runtime[g].state = "committing" /\ runtime'[g].state = "active"
              => \A decisions \in {DecisionsOf(g)} : ~RecoverChanges(decisions)' ]_vars

-------------------------------------------------------------------------------
(* Liveness.  The threads of a process are scheduled; a worker that received  *)
(* the cancel message exits; a user restarts an application that is closed or *)
(* that shows an attempt as recovery_required, and not every activation is    *)
(* cut short.  Nothing is assumed of a worker that was not cancelled, nor of  *)
(* timeouts.                                                                  *)

CancelledWorkerStops(g) ==
    loop[g].sent /\ loop[g].fence \in workers /\ WorkerExits(loop[g].fence)

RestartForRecovery(g) ==
    runtime[g].state = "active" /\ lease["heavy"] \in orphans /\ Crash(g)

Fairness ==
    \A g \in Guis :
        /\ WF_vars(Dispatch(g)) /\ WF_vars(Heartbeat(g)) /\ WF_vars(CancelledWorkerStops(g))
        /\ WF_vars(Stop(g))
        /\ WF_vars(StartGui(g)) /\ WF_vars(RestartForRecovery(g))
        /\ SF_vars(ActivateRead(g)) /\ SF_vars(ActivateObserve(g)) /\ SF_vars(ActivateCommit(g))

FairSpec == Spec /\ Fairness

Attended(o) == \E g \in Guis : loop[g].pc \in Holding /\ loop[g].job = o

\* A cancellation that was accepted while the job's process lives reaches the
\* worker and ends the attempt, unless the worker could not be stopped (then the
\* job is flagged) or the process died or gave up its report.
CancelIsAnswered ==
    \A o \in Ops : status[o] = "cancelling" ~>
        status[o] # "cancelling" \/ flag[o] = "termination_failed" \/ ~Attended(o)

\* The attempt f holds the slot, its process and its worker are gone.
Abandoned(f) == lease["heavy"] = f /\ f \in orphans \ workers

\* An attempt whose launch was journaled does not occupy the slot for ever once
\* its processes are gone and the application is started again.
RecoveryFreesSlot ==
    \A f \in 1..Cardinality(Ops) :
        Abandoned(f) /\ attempts[f].launch # "intended" ~> lease["heavy"] # f

-------------------------------------------------------------------------------
(* What the documentation says and the code does not do                       *)

\* dispatch-recovery.md, how recovery_required is lifted: the user ends the
\* child and the old GUI and activates again, recover confirms that they are
\* gone.
RestartLiftsRecovery ==
    \A f \in 1..Cardinality(Ops) : Abandoned(f) ~> lease["heavy"] # f

\* dispatch-recovery.md and stop(): no new dispatch once stop was called, and
\* the attempt that runs is cancelled before the wait for its exit.
StopAsksTheAttempt ==
    \A g \in Guis :
        stopper[g].pc = "refused" /\ loop[g].pc = "executing" => loop[g].cancel
===============================================================================
