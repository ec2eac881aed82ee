--------------------------- MODULE ServicesProofs ---------------------------
(***************************************************************************)
(* Theorems of seven services beside the control store, each of its own    *)
(* specification and proved from an inductive invariant of its own:        *)
(*   - Cutover: the hand-over between the queue and the runtimes is safe,  *)
(*     for any number of legacy jobs, cancelling threads and runtimes;     *)
(*   - Settings: a listing over several pages is one snapshot, for any     *)
(*     number of entries, callers and changes between the pages;           *)
(*   - JobDirectory: a run that resumes reports what its settings produce  *)
(*     and forgets nothing completed, for any number of processes, each    *)
(*     killed anywhere, if one works at a time;                            *)
(*   - BridgeRead: an answer of a child is whole and nothing is left of    *)
(*     it, for any lengths of its output and any limit;                    *)
(*   - StoreFiles: the file of the store is whole, one, and has its copy,  *)
(*     for any number of openers of any layouts and any crashes;           *)
(*   - SetupWizard: what the first-run wizard counts as done was done, for *)
(*     any number of pages, tasks and restarts;                            *)
(*   - Capability: what is chosen to run a file has fresh evidence of its  *)
(*     own, for any deployments, policies and reports.                     *)
(***************************************************************************)
EXTENDS BridgeRead, Capability, Cutover, JobDirectory, Settings, SetupWizard, StoreFiles,
        TLAPS, FiniteSetTheorems, WellFoundedInduction

(* The hand-over. *)

WorkerPcs == {"run", "launch", "spawned", "reads", "reaped", "report"}

-------------------------------------------------------------------------------
(* The inductive invariant *)

RequestPcs   == {"new", "kept", "queued", "refused", "raised"}
JobStatuses  == {None, "starting", "running"} \cup Terminal
JobTypes     == [pc : RequestPcs, status : JobStatuses, cancelRequested : BOOLEAN]
RuntimeTypes == [state : {"inactive", "active"}, step : {None, "opening", "stopping"},
                 stop : BOOLEAN]

CutoverTypeOK ==
    /\ items \in [Jobs -> {"absent", "waiting", "running"} \cup Terminal]
    /\ order \in Seq(Jobs)
    /\ closedBy \in Runtimes \cup {None}
    /\ jobs \in [Jobs -> JobTypes]
    /\ child \in [Jobs -> {"none", "alive", "killed", "0", "1"}]
    /\ worker \in {Idle} \cup [pc : WorkerPcs, job : Jobs]
    /\ cancels \in [Clients \cup {Shutdown} -> {Idle} \cup [pc : {"direct", "kill"}, job : Jobs]]
    /\ runtimes \in [Runtimes -> RuntimeTypes]
    /\ attempt \in {None, "running", "unverified"}
    /\ super \in [closed : BOOLEAN, known : SUBSET Jobs]
    /\ shutdown \in [pc : {"running", "snapshot", "done"}]
                    \cup [pc : {"jobs", "kill"}, left : SUBSET Jobs]

\* Who has the queue: the runtime that is active or on its way to be, and then no
\* legacy item waits or runs.
Ownership ==
    /\ \A r \in Runtimes :
          /\ runtimes[r].state = "active" \/ runtimes[r].step = "opening" => closedBy = r
          /\ runtimes[r].step = "opening" => runtimes[r].state = "inactive"
          /\ runtimes[r].step = "stopping" => runtimes[r].state = "active"
    /\ closedBy # None => \A j \in Jobs : items[j] \in {"absent"} \cup Terminal
    /\ attempt = "running" => \E r \in Runtimes : runtimes[r].state = "active"

\* The item that runs is the one the thread of the queue works on, and a child is alive
\* only while that thread waits for it, or when its runner has raised.
Thread ==
    /\ \A j \in Jobs : items[j] = "running" <=> worker.pc # "idle" /\ worker.job = j
    /\ \A j \in Jobs : child[j] = "alive" =>
          jobs[j].pc = "raised" \/ (worker.pc \in {"spawned", "reads"} /\ worker.job = j)

\* The child of this job is the one that is being launched.
Spawned(j) == worker.pc = "spawned" /\ worker.job = j

\* A child that lives is known to the supervisor once it is launched, and a closing
\* supervisor has every child it knew left to kill.
Supervision ==
    /\ worker.pc = "reads" => worker.job \in super.known
    /\ \A j \in Jobs : child[j] = "alive" /\ jobs[j].pc = "raised" => j \in super.known
    /\ super.closed <=> shutdown.pc \in {"kill", "done"}
    /\ shutdown.pc = "kill" =>
          \A j \in Jobs : child[j] = "alive" => Spawned(j) \/ j \in shutdown.left
    /\ shutdown.pc = "done" =>
          \A j \in Jobs : child[j] = "alive" => Spawned(j)

\* The status of a job that has not been run yet.
Unrun(j) == \/ jobs[j].status = "starting"
            \/ jobs[j].status = "cancelled" /\ jobs[j].cancelRequested

\* Where a job is, by its request, its item and the thread.
CoherentAt(j) ==
    /\ items[j] = "absent" <=> jobs[j].pc \notin {"queued", "raised"}
    /\ jobs[j].pc = "raised" => items[j] = "failed"
    /\ jobs[j].pc = "kept" => Unrun(j)
    /\ items[j] = "waiting" => Unrun(j)
    /\ items[j] \in Terminal /\ jobs[j].pc = "queued" /\ items[j] # jobs[j].status =>
          /\ items[j] = "cancelled" /\ jobs[j].status = "starting"
          /\ \E c \in DOMAIN cancels : cancels[c] = [pc |-> "direct", job |-> j]
    /\ worker.pc # "idle" /\ worker.job = j =>
          /\ worker.pc = "run" => Unrun(j)
          /\ worker.pc \in {"launch", "spawned"} => jobs[j].status = "starting"
          /\ worker.pc \in {"reads", "reaped"} => jobs[j].status = "running"
          /\ worker.pc = "report" => jobs[j].status \in Terminal

Coherent == \A j \in Jobs : CoherentAt(j)

CutoverInv == CutoverTypeOK /\ Ownership /\ Thread /\ Supervision /\ Coherent

-------------------------------------------------------------------------------
(* Types *)

LEMMA WorkerType ==
    ASSUME CutoverTypeOK, worker.pc # "idle"
    PROVE  worker.job \in Jobs /\ worker.pc \in WorkerPcs
           /\ worker = [pc |-> worker.pc, job |-> worker.job]
  BY DEF CutoverTypeOK, Idle

LEMMA CancelType ==
    ASSUME CutoverTypeOK, NEW c \in DOMAIN cancels, cancels[c].pc \in {"direct", "kill"}
    PROVE  cancels[c].job \in Jobs /\ cancels[c] = [pc |-> cancels[c].pc, job |-> cancels[c].job]
  BY DEF CutoverTypeOK, Idle

LEMMA JobsUpdated ==
    ASSUME NEW f \in [Jobs -> JobTypes], NEW j \in Jobs
    PROVE  /\ \A s \in JobStatuses : [f EXCEPT ![j].status = s] \in [Jobs -> JobTypes]
           /\ \A s \in RequestPcs : [f EXCEPT ![j].pc = s] \in [Jobs -> JobTypes]
           /\ [f EXCEPT ![j].cancelRequested = TRUE] \in [Jobs -> JobTypes]
  <1>1. f[j] \in JobTypes
    OBVIOUS
  <1>2. \A s \in JobStatuses : [f[j] EXCEPT !.status = s] \in JobTypes
    BY <1>1 DEF JobTypes
  <1>3. \A s \in RequestPcs : [f[j] EXCEPT !.pc = s] \in JobTypes
    BY <1>1 DEF JobTypes
  <1>4. [f[j] EXCEPT !.cancelRequested = TRUE] \in JobTypes
    BY <1>1 DEF JobTypes
  <1> QED
    BY <1>2, <1>3, <1>4

LEMMA FinishedType ==
    ASSUME CutoverTypeOK, NEW j \in Jobs, NEW code PROVE Finished(j, code) \in [Jobs -> JobTypes]
  BY JobsUpdated DEF Finished, CutoverTypeOK, JobStatuses, Terminal

LEMMA RuntimesUpdated ==
    ASSUME CutoverTypeOK, NEW r \in Runtimes
    PROVE  /\ \A s \in {None, "opening", "stopping"} :
                 /\ [runtimes EXCEPT ![r].step = s] \in [Runtimes -> RuntimeTypes]
                 /\ [runtimes EXCEPT ![r].step = s, ![r].stop = TRUE] \in [Runtimes -> RuntimeTypes]
           /\ \A new \in RuntimeTypes : [runtimes EXCEPT ![r] = new] \in [Runtimes -> RuntimeTypes]
  <1>1. runtimes[r] \in RuntimeTypes /\ runtimes \in [Runtimes -> RuntimeTypes]
    BY DEF CutoverTypeOK
  <1>2. \A s \in {None, "opening", "stopping"} : [runtimes[r] EXCEPT !.step = s] \in RuntimeTypes
    BY <1>1 DEF RuntimeTypes
  <1>3. \A s \in {None, "opening", "stopping"} :
            [runtimes[r] EXCEPT !.step = s, !.stop = TRUE] \in RuntimeTypes
    BY <1>1 DEF RuntimeTypes
  <1> QED
    BY <1>1, <1>2, <1>3

LEMMA TypeInit == Init => CutoverTypeOK
  BY DEF Init, CutoverTypeOK, JobTypes, JobStatuses, RequestPcs, RuntimeTypes, Idle, None

\* What an item ends with is what the coherence knows of its job.
LEMMA TypeStep == CutoverTypeOK /\ Coherent /\ [Next]_vars => CutoverTypeOK'
  <1> SUFFICES ASSUME CutoverTypeOK, Coherent, [Next]_vars PROVE CutoverTypeOK'
    OBVIOUS
  <1> USE DEF v1Vars
  <1>1. ASSUME NEW j \in Jobs, Start(j) PROVE CutoverTypeOK'
    <2>1. [jobs EXCEPT ![j].pc = "kept"] \in [Jobs -> JobTypes]
      BY JobsUpdated DEF CutoverTypeOK, RequestPcs
    <2>2. jobs' \in [Jobs -> JobTypes]
      BY <1>1, <2>1, JobsUpdated DEF Start, JobStatuses
    <2> QED
      BY <1>1, <2>2 DEF Start, CutoverTypeOK
  <1>2. ASSUME NEW j \in Jobs, Submit(j) PROVE CutoverTypeOK'
    <2>1. jobs' \in [Jobs -> JobTypes]
      <3>1. jobs' = [jobs EXCEPT ![j].pc = "refused"] \/ jobs' = [jobs EXCEPT ![j].pc = "queued"]
        BY <1>2 DEF Submit
      <3> QED
        <4>1. \A s \in RequestPcs : [jobs EXCEPT ![j].pc = s] \in [Jobs -> JobTypes]
          BY JobsUpdated DEF CutoverTypeOK
        <4>2. {"refused", "queued"} \subseteq RequestPcs
          BY DEF RequestPcs
        <4> QED
          BY <3>1, <4>1, <4>2
    <2>2. order' \in Seq(Jobs)
      <3>1. order' = order \/ order' = Append(order, j)
        BY <1>2 DEF Submit
      <3>2. order \in Seq(Jobs)
        BY DEF CutoverTypeOK
      <3> QED
        BY <3>1, <3>2
    <2>3. items' \in [Jobs -> {"absent", "waiting", "running"} \cup Terminal]
      BY <1>2 DEF Submit, CutoverTypeOK
    <2> QED
      BY <1>2, <2>1, <2>2, <2>3 DEF Submit, CutoverTypeOK
  <1>3. ASSUME NEW j \in Jobs, ChildEnds(j) PROVE CutoverTypeOK'
    BY <1>3 DEF ChildEnds, CutoverTypeOK
  <1>4. ASSUME NEW c \in Clients, NEW j \in Jobs, Cancel(c, j) PROVE CutoverTypeOK'
    <2>1. items' \in [Jobs -> {"absent", "waiting", "running"} \cup Terminal]
      BY <1>4 DEF Cancel, CutoverTypeOK, Terminal
    <2>2. cancels' \in [Clients \cup {Shutdown} -> {Idle} \cup [pc : {"direct", "kill"}, job : Jobs]]
      BY <1>4 DEF Cancel, CutoverTypeOK
    <2> QED
      BY <1>4, <2>1, <2>2 DEF Cancel, CutoverTypeOK
  <1>5. ASSUME NEW c \in DOMAIN cancels, Direct(c) PROVE CutoverTypeOK'
    <2>1. cancels[c].job \in Jobs /\ cancels[c] = [pc |-> cancels[c].pc, job |-> cancels[c].job]
      BY <1>5, CancelType DEF Direct
    <2>2. jobs' \in [Jobs -> JobTypes]
      <3> DEFINE j == cancels[c].job
      <3>1. \/ jobs' = jobs
            \/ jobs' = [jobs EXCEPT ![j].cancelRequested = TRUE]
            \/ jobs' = [Finished(j, "130") EXCEPT ![j].cancelRequested = TRUE]
        BY <1>5 DEF Direct
      <3>2. jobs \in [Jobs -> JobTypes] /\ Finished(j, "130") \in [Jobs -> JobTypes] /\ j \in Jobs
        BY <2>1, FinishedType DEF CutoverTypeOK
      <3> HIDE DEF j
      <3> QED
        BY <3>1, <3>2, JobsUpdated
    <2>3. [cancels[c] EXCEPT !.pc = "kill"] \in [pc : {"direct", "kill"}, job : Jobs]
      BY <2>1
    <2>4. \/ cancels' = [cancels EXCEPT ![c] = Idle]
          \/ cancels' = [cancels EXCEPT ![c] = [cancels[c] EXCEPT !.pc = "kill"]]
      BY <1>5 DEF Direct
    <2>5. cancels' \in [Clients \cup {Shutdown} -> {Idle} \cup [pc : {"direct", "kill"}, job : Jobs]]
      BY <2>3, <2>4 DEF CutoverTypeOK
    <2> QED
      BY <1>5, <2>2, <2>5 DEF Direct, CutoverTypeOK
  <1>6. ASSUME NEW c \in DOMAIN cancels, Kill(c) PROVE CutoverTypeOK'
    BY <1>6 DEF Kill, Killed, CutoverTypeOK
  <1>7. CASE Worker
    <2>1. CASE Take
      <3>1. \A i \in DOMAIN order : order[i] \in Jobs
        BY DEF CutoverTypeOK
      <3> QED
        BY <2>1, <3>1 DEF Take, CutoverTypeOK, WorkerPcs
    <2>2. ASSUME worker.pc # "idle", NEW pc \in WorkerPcs
          PROVE  [worker EXCEPT !.pc = pc] \in {Idle} \cup [pc : WorkerPcs, job : Jobs]
      BY <2>2, WorkerType
    <2>3. CASE Run \/ Launch \/ Attach \/ Reaped \/ RunEnds \/ Report
      <3>1. worker.pc # "idle" /\ worker.job \in Jobs
        BY <2>3, WorkerType DEF Run, Launch, Attach, Reaped, RunEnds, Report
      <3>2. worker' \in {Idle} \cup [pc : WorkerPcs, job : Jobs]
        BY <2>2, <2>3, <3>1 DEF Run, Launch, Attach, Reaped, RunEnds, Report, WorkerPcs
      <3>3. jobs' \in [Jobs -> JobTypes]
        <4>1. \/ jobs' = jobs
              \/ \E code : jobs' = Finished(worker.job, code)
              \/ jobs' = [jobs EXCEPT ![worker.job].status = "running"]
          BY <2>3 DEF Run, Launch, Attach, Reaped, RunEnds, Report
        <4>2. jobs \in [Jobs -> JobTypes]
          BY DEF CutoverTypeOK
        <4> QED
          <5>1. CASE \E code : jobs' = Finished(worker.job, code)
            BY <3>1, <5>1, FinishedType
          <5>2. [jobs EXCEPT ![worker.job].status = "running"] \in [Jobs -> JobTypes]
            BY <3>1, <4>2, JobsUpdated DEF JobStatuses
          <5> QED
            BY <4>1, <4>2, <5>1, <5>2
      <3>4. child' \in [Jobs -> {"none", "alive", "killed", "0", "1"}]
        BY <2>3, <3>1 DEF Run, Launch, Attach, Reaped, RunEnds, Report, Killed, CutoverTypeOK
      <3>5. super' \in [closed : BOOLEAN, known : SUBSET Jobs]
        BY <2>3, <3>1 DEF Run, Launch, Attach, Reaped, RunEnds, Report, CutoverTypeOK
      <3>6. items' \in [Jobs -> {"absent", "waiting", "running"} \cup Terminal]
        <4>1. CASE Report
          <5>1. jobs[worker.job].status \in {"absent", "waiting", "running"} \cup Terminal
            BY <3>1, <4>1 DEF Report, Coherent, CoherentAt
          <5> QED
            BY <4>1, <5>1 DEF Report, CutoverTypeOK
        <4>2. CASE ~Report
          BY <2>3, <4>2 DEF Run, Launch, Attach, Reaped, RunEnds, CutoverTypeOK
        <4> QED
          BY <4>1, <4>2
      <3>7. UNCHANGED <<order, closedBy, cancels, v1Vars, shutdown>>
        BY <2>3 DEF Run, Launch, Attach, Reaped, RunEnds, Report
      <3> QED
        BY <3>2, <3>3, <3>4, <3>5, <3>6, <3>7 DEF CutoverTypeOK
    <2>4. CASE RunnerRaises
      <3>1. worker.job \in Jobs
        BY <2>4, WorkerType DEF RunnerRaises
      <3>2. jobs' \in [Jobs -> JobTypes]
        BY <2>4, <3>1, JobsUpdated DEF RunnerRaises, CutoverTypeOK, RequestPcs
      <3>3. items' \in [Jobs -> {"absent", "waiting", "running"} \cup Terminal]
        BY <2>4, <3>1 DEF RunnerRaises, CutoverTypeOK, Terminal
      <3> QED
        BY <2>4, <3>2, <3>3 DEF RunnerRaises, CutoverTypeOK
    <2> QED
      BY <1>7, <2>1, <2>3, <2>4 DEF Worker
  <1>8. ASSUME NEW r \in Runtimes,
               CloseFor(r) \/ Activate(r) \/ Dispatch(r) \/ StopDispatcher(r) \/ Deactivate(r)
        PROVE  CutoverTypeOK'
    <2>1. runtimes' \in [Runtimes -> RuntimeTypes]
      <3>1. /\ [state |-> "active", step |-> None, stop |-> FALSE] \in RuntimeTypes
            /\ [state |-> "inactive", step |-> None, stop |-> TRUE] \in RuntimeTypes
        BY DEF RuntimeTypes
      <3> DEFINE active   == [runtimes EXCEPT ![r] = [state |-> "active", step |-> None, stop |-> FALSE]]
                 inactive == [runtimes EXCEPT ![r] = [state |-> "inactive", step |-> None, stop |-> TRUE]]
                 stepped(s) == [runtimes EXCEPT ![r].step = s]
      <3>a. active \in [Runtimes -> RuntimeTypes] /\ inactive \in [Runtimes -> RuntimeTypes]
        BY <3>1, RuntimesUpdated
      <3>b. stepped(None) \in [Runtimes -> RuntimeTypes] /\ stepped("opening") \in [Runtimes -> RuntimeTypes]
        BY RuntimesUpdated
      <3>2. CASE CloseFor(r) \/ Activate(r)
        <4>1. runtimes' = stepped("opening") \/ runtimes' = stepped(None) \/ runtimes' = active
          BY <3>2 DEF CloseFor, Activate
        <4> QED
          BY <3>a, <3>b, <4>1
      <3>3. CASE Dispatch(r)
        BY <3>3 DEF Dispatch, CutoverTypeOK
      <3>4. CASE StopDispatcher(r)
        BY <3>1, <3>4, RuntimesUpdated DEF StopDispatcher
      <3>5. CASE Deactivate(r)
        <4>1. runtimes' = stepped(None) \/ runtimes' = inactive
          BY <3>5 DEF Deactivate
        <4> QED
          BY <3>a, <3>b, <4>1
      <3> QED
        BY <1>8, <3>2, <3>3, <3>4, <3>5
    <2>2. closedBy' \in Runtimes \cup {None} /\ attempt' \in {None, "running", "unverified"}
      BY <1>8 DEF CloseFor, Activate, Dispatch, StopDispatcher, Deactivate, Reopened, CutoverTypeOK
    <2>3. UNCHANGED <<items, order, jobs, child, worker, cancels, super, shutdown>>
      BY <1>8 DEF CloseFor, Activate, Dispatch, StopDispatcher, Deactivate
    <2> QED
      BY <2>1, <2>2, <2>3 DEF CutoverTypeOK
  <1>9. CASE AttemptEnds
    BY <1>9 DEF AttemptEnds, CutoverTypeOK
  <1>10. CASE ShutdownRuntimes \/ ShutdownJobs \/ CloseSupervisor
    <2>1. shutdown' \in [pc : {"running", "snapshot", "done"}]
                         \cup [pc : {"jobs", "kill"}, left : SUBSET Jobs]
      BY <1>10 DEF ShutdownRuntimes, ShutdownJobs, CloseSupervisor, CutoverTypeOK
    <2>2. super' \in [closed : BOOLEAN, known : SUBSET Jobs]
      BY <1>10 DEF ShutdownRuntimes, ShutdownJobs, CloseSupervisor, CutoverTypeOK
    <2> QED
      BY <1>10, <2>1, <2>2 DEF ShutdownRuntimes, ShutdownJobs, CloseSupervisor, CutoverTypeOK
  <1>11. CASE ShutdownJob
    BY <1>11 DEF ShutdownJob, CutoverTypeOK
  <1>12. CASE KillChildren
    BY <1>12 DEF KillChildren, Killed, CutoverTypeOK
  <1>13. CASE UNCHANGED vars
    BY <1>13 DEF vars, CutoverTypeOK
  <1> QED
    BY <1>1, <1>2, <1>3, <1>4, <1>5, <1>6, <1>7, <1>8, <1>9, <1>10, <1>11, <1>12, <1>13 DEF Next

-------------------------------------------------------------------------------
(* Ownership of the queue *)

LEMMA OwnershipStep ==
    ASSUME None \notin Runtimes, CutoverInv, [Next]_vars PROVE Ownership'
  <1>1. CutoverTypeOK /\ Ownership /\ Thread /\ Coherent
    BY DEF CutoverInv
  <1> USE DEF v1Vars
  <1>2. ASSUME UNCHANGED <<runtimes, closedBy, attempt>>,
               \A j \in Jobs : closedBy # None => items'[j] = items[j]
        PROVE  Ownership'
    BY <1>1, <1>2 DEF Ownership
  <1>3. ASSUME NEW j \in Jobs, Start(j) \/ Submit(j) \/ ChildEnds(j) PROVE Ownership'
    BY <1>1, <1>2, <1>3 DEF Start, Submit, ChildEnds
  <1>4. ASSUME NEW c \in Clients, NEW j \in Jobs, Cancel(c, j) PROVE Ownership'
    <2>1. closedBy = None
      BY <1>1, <1>4 DEF Cancel, Ownership, Terminal
    <2> QED
      BY <1>2, <1>4, <2>1 DEF Cancel
  <1>5. ASSUME NEW c \in DOMAIN cancels, Direct(c) \/ Kill(c) PROVE Ownership'
    BY <1>2, <1>5 DEF Direct, Kill
  <1>6. CASE Take
    <2>1. \E j \in Jobs : items[j] = "waiting"
      BY <1>1, <1>6 DEF Take, CutoverTypeOK
    <2>2. closedBy = None
      BY <1>1, <2>1 DEF Ownership, Terminal
    <2> QED
      BY <1>2, <1>6, <2>2 DEF Take
  <1>7. CASE Run \/ Launch \/ Attach \/ Reaped \/ RunEnds
    BY <1>2, <1>7 DEF Run, Launch, Attach, Reaped, RunEnds
  <1>8. CASE Report \/ RunnerRaises
    <2>1. worker.job \in Jobs /\ items[worker.job] = "running"
      BY <1>1, <1>8, WorkerType DEF Report, RunnerRaises, Thread
    <2>2. closedBy = None
      BY <1>1, <2>1 DEF Ownership, Terminal
    <2> QED
      BY <1>2, <1>8, <2>2 DEF Report, RunnerRaises
  <1>9. ASSUME NEW r \in Runtimes, CloseFor(r) PROVE Ownership'
    <2>1. \A q \in Runtimes : /\ q # r => runtimes'[q] = runtimes[q]
                              /\ runtimes'[q].state = runtimes[q].state
                              /\ runtimes[q].state # "active" /\ runtimes[q].step # "opening"
      BY <1>1, <1>9 DEF CloseFor, CutoverTypeOK, RuntimeTypes, Ownership
    <2>2. runtimes[r].state = "inactive" /\ runtimes'[r].step = "opening" /\ closedBy' = r
      BY <1>1, <1>9 DEF CloseFor, CutoverTypeOK, RuntimeTypes
    <2>3. UNCHANGED <<items, attempt>> /\ \A j \in Jobs : items[j] \in {"absent"} \cup Terminal
      BY <1>9 DEF CloseFor
    <2> QED
      BY <1>1, <2>1, <2>2, <2>3 DEF Ownership
  <1>10. ASSUME NEW r \in Runtimes, Activate(r) PROVE Ownership'
    <2>1. /\ closedBy = r /\ runtimes[r].state = "inactive"
          /\ \A q \in Runtimes : q # r => runtimes'[q] = runtimes[q]
      BY <1>1, <1>10 DEF Activate, CutoverTypeOK, Ownership
    <2>2. UNCHANGED items
      BY <1>10 DEF Activate
    <2>3. \/ /\ runtimes'[r].state = "active" /\ runtimes'[r].step = None
             /\ attempt' \in {None, attempt} /\ closedBy' = closedBy
          \/ /\ runtimes'[r].state = "inactive" /\ runtimes'[r].step = None
             /\ closedBy' = None /\ attempt' = attempt
      BY <1>1, <1>10, <2>1 DEF Activate, Reopened, CutoverTypeOK, RuntimeTypes
    <2> QED
      BY <1>1, <2>1, <2>2, <2>3 DEF Ownership, None
  <1>11. ASSUME NEW r \in Runtimes, Dispatch(r) PROVE Ownership'
    BY <1>1, <1>11 DEF Dispatch, Ownership
  <1>12. CASE AttemptEnds
    BY <1>1, <1>12 DEF AttemptEnds, Ownership, None
  <1>13. ASSUME NEW r \in Runtimes, StopDispatcher(r) PROVE Ownership'
    <2>1. /\ runtimes[r].state = "active" /\ runtimes'[r].state = "active"
          /\ runtimes'[r].step = "stopping"
          /\ \A q \in Runtimes : q # r => runtimes'[q] = runtimes[q]
      BY <1>1, <1>13 DEF StopDispatcher, CutoverTypeOK, RuntimeTypes
    <2>2. UNCHANGED <<items, closedBy, attempt>>
      BY <1>13 DEF StopDispatcher
    <2> QED
      BY <1>1, <2>1, <2>2 DEF Ownership
  <1>14. ASSUME NEW r \in Runtimes, Deactivate(r) PROVE Ownership'
    <2>1. /\ runtimes[r].state = "active" /\ runtimes[r].step = "stopping" /\ closedBy = r
          /\ \A q \in Runtimes : q # r => runtimes'[q] = runtimes[q]
      BY <1>1, <1>14 DEF Deactivate, CutoverTypeOK, Ownership
    <2>2. UNCHANGED <<items, attempt>>
      BY <1>14 DEF Deactivate
    <2>3. \/ /\ runtimes'[r].state = "inactive" /\ runtimes'[r].step = None
             /\ attempt = None /\ closedBy' = None
          \/ /\ runtimes'[r].state = "active" /\ runtimes'[r].step = None
             /\ closedBy' = closedBy
      BY <1>1, <1>14, <2>1 DEF Deactivate, Reopened, CutoverTypeOK, RuntimeTypes
    <2> QED
      BY <1>1, <2>1, <2>2, <2>3 DEF Ownership, None
  <1>15. CASE ShutdownRuntimes \/ ShutdownJobs \/ ShutdownJob \/ CloseSupervisor \/ KillChildren
    BY <1>2, <1>15 DEF ShutdownRuntimes, ShutdownJobs, ShutdownJob, CloseSupervisor, KillChildren
  <1>16. CASE UNCHANGED vars
    BY <1>2, <1>16 DEF vars
  <1> QED
    BY <1>3, <1>4, <1>5, <1>6, <1>7, <1>8, <1>9, <1>10, <1>11, <1>12, <1>13, <1>14, <1>15, <1>16
       DEF Next, Worker

-------------------------------------------------------------------------------
(* The thread of the queue and its children *)

\* Nothing else befalls the request of a job whose runner has raised.
LEMMA RaisedStays ==
    ASSUME CutoverTypeOK, [Next]_vars, ~RunnerRaises \/ UNCHANGED jobs, NEW i \in Jobs
    PROVE  jobs'[i].pc = "raised" <=> jobs[i].pc = "raised"
  <1> USE DEF v1Vars
  <1>1. CASE UNCHANGED jobs
    BY <1>1
  <1>2. ASSUME NEW j \in Jobs, Start(j) \/ Submit(j) PROVE jobs'[i].pc = "raised" <=> jobs[i].pc = "raised"
    <2>1. jobs[j].pc # "raised" /\ \E pc \in {"kept", "queued", "refused"} :
              jobs' = [jobs EXCEPT ![j].pc = pc] \/ jobs' = [jobs EXCEPT ![j].pc = pc, ![j].status = "starting"]
      BY <1>2 DEF Start, Submit
    <2> QED
      BY <2>1 DEF CutoverTypeOK, JobTypes
  <1>3. ASSUME NEW j \in Jobs, NEW code
        PROVE  /\ Finished(j, code)[i].pc = jobs[i].pc
               /\ Finished(j, code) \in [Jobs -> JobTypes]
    <2>1. Finished(j, code) \in [Jobs -> JobTypes]
      BY FinishedType
    <2>2. Finished(j, code)[i].pc = jobs[i].pc
      BY DEF Finished, CutoverTypeOK, JobTypes
    <2> QED
      BY <2>1, <2>2
  <1>4. ASSUME NEW c \in DOMAIN cancels, Direct(c) PROVE jobs'[i].pc = jobs[i].pc
    <2> DEFINE j == cancels[c].job
    <2>1. j \in Jobs
      BY <1>4, CancelType DEF Direct
    <2>2. \/ jobs' = jobs
          \/ jobs' = [jobs EXCEPT ![j].cancelRequested = TRUE]
          \/ jobs' = [Finished(j, "130") EXCEPT ![j].cancelRequested = TRUE]
      BY <1>4 DEF Direct
    <2> HIDE DEF j
    <2>3. \A f \in [Jobs -> JobTypes] : [f EXCEPT ![j].cancelRequested = TRUE][i].pc = f[i].pc
      BY <2>1 DEF JobTypes
    <2> QED
      BY <1>3, <2>1, <2>2, <2>3 DEF CutoverTypeOK
  <1>5. CASE Worker
    <2>1. worker.pc # "idle" => worker.job \in Jobs
      BY WorkerType
    <2>2. \/ jobs' = jobs
          \/ worker.pc # "idle" /\ \E code : jobs' = Finished(worker.job, code)
          \/ worker.pc # "idle" /\ jobs' = [jobs EXCEPT ![worker.job].status = "running"]
      BY <1>5 DEF Worker, Take, Run, Launch, Attach, Reaped, RunEnds, Report
    <2>3. [jobs EXCEPT ![worker.job].status = "running"][i].pc = jobs[i].pc
      BY DEF CutoverTypeOK, JobTypes
    <2> QED
      BY <1>3, <2>1, <2>2, <2>3
  <1>6. ASSUME NEW c \in Clients, NEW j \in Jobs, Cancel(c, j) PROVE UNCHANGED jobs
    BY <1>6 DEF Cancel
  <1>7. ASSUME NEW c \in DOMAIN cancels, Kill(c) PROVE UNCHANGED jobs
    BY <1>7 DEF Kill
  <1>8. ASSUME NEW j \in Jobs, ChildEnds(j) PROVE UNCHANGED jobs
    BY <1>8 DEF ChildEnds
  <1>9. ASSUME NEW r \in Runtimes,
               CloseFor(r) \/ Activate(r) \/ Dispatch(r) \/ StopDispatcher(r) \/ Deactivate(r)
        PROVE  UNCHANGED jobs
    BY <1>9 DEF CloseFor, Activate, Dispatch, StopDispatcher, Deactivate
  <1>10. CASE AttemptEnds \/ ShutdownRuntimes \/ ShutdownJobs \/ ShutdownJob \/ CloseSupervisor
              \/ KillChildren \/ UNCHANGED vars
    BY <1>1, <1>10 DEF AttemptEnds, ShutdownRuntimes, ShutdownJobs, ShutdownJob, CloseSupervisor,
                       KillChildren, vars
  <1> QED
    BY <1>1, <1>2, <1>4, <1>5, <1>6, <1>7, <1>8, <1>9, <1>10 DEF Next

LEMMA ThreadStep == ASSUME CutoverInv, [Next]_vars PROVE Thread'
  <1>1. CutoverTypeOK /\ Thread /\ Coherent /\ Supervision
    BY DEF CutoverInv
  <1> USE DEF v1Vars
  <1>0. ~RunnerRaises \/ UNCHANGED jobs => \A j \in Jobs : jobs'[j].pc = "raised" <=> jobs[j].pc = "raised"
    BY <1>1, RaisedStays
  <1>2. ASSUME UNCHANGED worker,
               \A j \in Jobs : items'[j] = "running" <=> items[j] = "running",
               \A j \in Jobs : child'[j] = "alive" => child[j] = "alive"
        PROVE  Thread'
    <2>1. ~RunnerRaises
      BY <1>2 DEF RunnerRaises, Idle
    <2> QED
      BY <1>0, <1>1, <1>2, <2>1 DEF Thread
  <1>3. ASSUME NEW j \in Jobs, Start(j) \/ Submit(j) \/ ChildEnds(j) PROVE Thread'
    <2>1. CASE Start(j) \/ ChildEnds(j)
      BY <1>1, <1>2, <2>1 DEF Start, ChildEnds, CutoverTypeOK
    <2>2. CASE Submit(j)
      <3>1. items[j] = "absent"
        BY <1>1, <2>2 DEF Submit, Coherent, CoherentAt
      <3>2. \A i \in Jobs : items'[i] = "running" <=> items[i] = "running"
        BY <1>1, <2>2, <3>1 DEF Submit, CutoverTypeOK
      <3>3. UNCHANGED <<worker, child>>
        BY <2>2 DEF Submit
      <3> QED
        BY <1>2, <3>2, <3>3
    <2> QED
      BY <1>3, <2>1, <2>2
  <1>4. ASSUME NEW c \in Clients, NEW j \in Jobs, Cancel(c, j) PROVE Thread'
    BY <1>1, <1>2, <1>4 DEF Cancel, CutoverTypeOK
  <1>5. ASSUME NEW c \in DOMAIN cancels, Direct(c) \/ Kill(c) PROVE Thread'
    <2>1. CASE Direct(c)
      BY <1>2, <2>1 DEF Direct
    <2>2. CASE Kill(c)
      BY <1>1, <1>2, <2>2 DEF Kill, Killed, CutoverTypeOK
    <2> QED
      BY <1>5, <2>1, <2>2
  <1>6. CASE Take
    <2>1. PICK j \in Jobs : /\ items[j] = "waiting"
                            /\ items' = [items EXCEPT ![j] = "running"]
                            /\ worker' = [pc |-> "run", job |-> j]
      <3>1. PICK i \in DOMAIN order : /\ items[order[i]] = "waiting"
                                      /\ items' = [items EXCEPT ![order[i]] = "running"]
                                      /\ worker' = [pc |-> "run", job |-> order[i]]
        BY <1>6 DEF Take
      <3>2. order[i] \in Jobs
        BY <1>1 DEF CutoverTypeOK
      <3> QED
        BY <3>1, <3>2
    <2>2. worker.pc = "idle" /\ (\A i \in Jobs : items[i] # "running") /\ UNCHANGED <<child, jobs>>
      BY <1>6 DEF Take
    <2>3. \A i \in Jobs : items'[i] = "running" <=> i = j
      BY <1>1, <2>1, <2>2 DEF CutoverTypeOK
    <2> QED
      BY <1>1, <2>1, <2>2, <2>3 DEF Thread
  <1>7. CASE Run \/ Launch \/ Attach \/ Reaped \/ RunEnds
    <2>1. worker.pc # "idle" /\ worker.job \in Jobs /\ worker'.job = worker.job
          /\ worker'.pc \in WorkerPcs /\ items' = items
      BY <1>1, <1>7, WorkerType DEF Run, Launch, Attach, Reaped, RunEnds, WorkerPcs
    <2>2. \A j \in Jobs : child'[j] = "alive" =>
              jobs[j].pc = "raised" \/ (worker'.pc \in {"spawned", "reads"} /\ j = worker.job)
      <3>1. CASE Run \/ Reaped \/ RunEnds
        BY <1>1, <3>1 DEF Run, Reaped, RunEnds, Thread
      <3>2. CASE Launch
        BY <1>1, <2>1, <3>2, WorkerType DEF Launch, Thread, CutoverTypeOK
      <3>3. CASE Attach
        BY <1>1, <2>1, <3>3, WorkerType DEF Attach, Killed, Thread, CutoverTypeOK
      <3> QED
        BY <1>7, <3>1, <3>2, <3>3
    <2>3. ~RunnerRaises
      BY <2>1 DEF RunnerRaises, Idle, WorkerPcs
    <2> QED
      BY <1>0, <1>1, <2>1, <2>2, <2>3 DEF Thread, WorkerPcs
  <1>8. CASE Report
    <2>1. worker.job \in Jobs /\ jobs[worker.job].status \in Terminal
      BY <1>1, <1>8, WorkerType DEF Report, Coherent, CoherentAt
    <2>2. \A j \in Jobs : items'[j] # "running"
      BY <1>1, <1>8, <2>1 DEF Report, Thread, CutoverTypeOK, Terminal
    <2>3. worker'.pc = "idle" /\ UNCHANGED <<child, jobs>>
          /\ \A j \in Jobs : child[j] = "alive" => jobs[j].pc = "raised"
      BY <1>1, <1>8 DEF Report, Thread, Idle
    <2> QED
      BY <2>2, <2>3 DEF Thread
  <1>9. ASSUME NEW r \in Runtimes,
               CloseFor(r) \/ Activate(r) \/ Dispatch(r) \/ StopDispatcher(r) \/ Deactivate(r)
        PROVE  Thread'
    BY <1>2, <1>9 DEF CloseFor, Activate, Dispatch, StopDispatcher, Deactivate
  <1>10. CASE AttemptEnds \/ ShutdownRuntimes \/ ShutdownJobs \/ ShutdownJob \/ CloseSupervisor
    BY <1>2, <1>10 DEF AttemptEnds, ShutdownRuntimes, ShutdownJobs, ShutdownJob, CloseSupervisor
  <1>11. CASE KillChildren
    BY <1>1, <1>2, <1>11 DEF KillChildren, Killed, CutoverTypeOK
  <1>12. CASE UNCHANGED vars
    BY <1>2, <1>12 DEF vars
  <1>13. CASE RunnerRaises
    <2>1. worker.job \in Jobs /\ worker'.pc = "idle" /\ UNCHANGED child
      BY <1>1, <1>13, WorkerType DEF RunnerRaises, Idle
    <2>2. \A j \in Jobs : items'[j] # "running"
      BY <1>1, <1>13, <2>1 DEF RunnerRaises, Thread, CutoverTypeOK
    <2>3. \A j \in Jobs : j = worker.job \/ jobs[j].pc = "raised" => jobs'[j].pc = "raised"
      BY <1>1, <1>13, <2>1 DEF RunnerRaises, CutoverTypeOK, JobTypes
    <2> QED
      BY <1>1, <2>1, <2>2, <2>3 DEF Thread
  <1> QED
    BY <1>3, <1>4, <1>5, <1>6, <1>7, <1>8, <1>9, <1>10, <1>11, <1>12, <1>13 DEF Next, Worker

-------------------------------------------------------------------------------
(* The supervisor of the children *)

LEMMA SupervisionStep == ASSUME CutoverInv, [Next]_vars PROVE Supervision'
  <1>1. CutoverTypeOK /\ Thread /\ Supervision /\ Coherent
    BY DEF CutoverInv
  <1> USE DEF v1Vars
  <1>0. ~RunnerRaises \/ UNCHANGED jobs => \A j \in Jobs : jobs'[j].pc = "raised" <=> jobs[j].pc = "raised"
    BY <1>1, RaisedStays
  <1> USE DEF Spawned
  <1>3. ASSUME UNCHANGED <<worker, super, shutdown>>,
               \A j \in Jobs : child'[j] = "alive" => child[j] = "alive"
        PROVE  Supervision'
    <2>1. ~RunnerRaises
      BY <1>3 DEF RunnerRaises, Idle
    <2> QED
      BY <1>0, <1>1, <1>3, <2>1 DEF Supervision
  <1>4. ASSUME NEW j \in Jobs, Start(j) \/ Submit(j) \/ ChildEnds(j) PROVE Supervision'
    BY <1>1, <1>3, <1>4 DEF Start, Submit, ChildEnds, CutoverTypeOK
  <1>5. ASSUME NEW c, NEW j, Cancel(c, j) PROVE Supervision'
    BY <1>3, <1>5 DEF Cancel
  <1>6. ASSUME NEW c \in DOMAIN cancels, Direct(c) \/ Kill(c) PROVE Supervision'
    <2>1. CASE Direct(c)
      BY <1>3, <2>1 DEF Direct
    <2>2. CASE Kill(c)
      BY <1>1, <1>3, <2>2 DEF Kill, Killed, CutoverTypeOK
    <2> QED
      BY <1>6, <2>1, <2>2
  <1>7. CASE Take \/ Run \/ Reaped \/ RunEnds \/ Report
    <2>1. UNCHANGED <<child, super, shutdown>>
      BY <1>7 DEF Take, Run, Reaped, RunEnds, Report
    <2>2. /\ worker'.pc \notin {"spawned", "reads"} /\ (~RunnerRaises \/ UNCHANGED jobs)
          /\ \A j \in Jobs : child[j] = "alive" => jobs[j].pc = "raised" /\ ~Spawned(j)
      <3>1. CASE Take \/ Report
        BY <1>1, <3>1 DEF Take, Report, RunnerRaises, Thread, Idle
      <3>2. CASE Run \/ RunEnds
        BY <1>1, <3>2, WorkerType DEF Run, RunEnds, RunnerRaises, Thread, Idle
      <3>3. CASE Reaped
        BY <1>1, <3>3, WorkerType DEF Reaped, RunnerRaises, Thread, Idle
      <3> QED
        BY <1>7, <3>1, <3>2, <3>3
    <2> QED
      BY <1>0, <1>1, <2>1, <2>2 DEF Supervision
  <1>8. CASE Launch
    <2>1. /\ worker.job \in Jobs /\ UNCHANGED <<super, shutdown>>
          /\ \A j \in Jobs : child[j] = "alive" => jobs[j].pc = "raised"
          /\ ~RunnerRaises /\ items[worker.job] = "running"
      BY <1>1, <1>8, WorkerType DEF Launch, RunnerRaises, Thread
    <2>2. jobs[worker.job].pc # "raised"
      BY <1>1, <2>1 DEF Coherent, CoherentAt
    <2>3. \/ /\ ~super.closed /\ worker'.pc = "spawned" /\ worker'.job = worker.job
             /\ \A j \in Jobs : child'[j] = "alive" => child[j] = "alive" \/ j = worker.job
          \/ /\ worker'.pc = "report" /\ child' = child
      BY <1>1, <1>8, WorkerType DEF Launch, CutoverTypeOK
    <2> QED
      BY <1>0, <1>1, <2>1, <2>2, <2>3 DEF Supervision
  <1>9. CASE Attach
    <2>1. /\ worker.job \in Jobs /\ UNCHANGED shutdown
          /\ \A j \in Jobs : child[j] = "alive" => jobs[j].pc = "raised" \/ j = worker.job
          /\ ~RunnerRaises
      BY <1>1, <1>9, WorkerType DEF Attach, RunnerRaises, Thread
    <2>2. \/ /\ super.closed /\ worker'.pc = "report" /\ UNCHANGED super
             /\ \A j \in Jobs : child'[j] = "alive" => child[j] = "alive" /\ j # worker.job
          \/ /\ ~super.closed /\ worker'.pc = "reads" /\ worker'.job = worker.job
             /\ super'.known = super.known \cup {worker.job} /\ super'.closed = super.closed
             /\ UNCHANGED child
      <3>1. CASE super.closed
        BY <1>1, <1>9, <2>1, <3>1, WorkerType DEF Attach, Killed, CutoverTypeOK
      <3>2. CASE ~super.closed
        BY <1>1, <1>9, <2>1, <3>2, WorkerType DEF Attach, CutoverTypeOK
      <3> QED
        BY <3>1, <3>2
    <2> QED
      BY <1>0, <1>1, <2>1, <2>2 DEF Supervision
  <1>10. ASSUME NEW r \in Runtimes,
                CloseFor(r) \/ Activate(r) \/ Dispatch(r) \/ StopDispatcher(r) \/ Deactivate(r)
         PROVE  Supervision'
    BY <1>3, <1>10 DEF CloseFor, Activate, Dispatch, StopDispatcher, Deactivate
  <1>11. CASE AttemptEnds
    BY <1>3, <1>11 DEF AttemptEnds
  <1>12. CASE ShutdownRuntimes \/ ShutdownJobs \/ ShutdownJob
    <2>1. UNCHANGED <<worker, child, super>>
      BY <1>12 DEF ShutdownRuntimes, ShutdownJobs, ShutdownJob
    <2>3. UNCHANGED jobs
      BY <1>12 DEF ShutdownRuntimes, ShutdownJobs, ShutdownJob
    <2>2. shutdown.pc \notin {"kill", "done"} /\ shutdown'.pc \notin {"kill", "done"}
      BY <1>1, <1>12 DEF ShutdownRuntimes, ShutdownJobs, ShutdownJob, CutoverTypeOK
    <2> QED
      BY <1>1, <2>1, <2>2, <2>3 DEF Supervision
  <1>13. CASE CloseSupervisor
    <2>1. /\ UNCHANGED <<worker, child, jobs>> /\ super'.closed /\ super'.known = super.known
          /\ shutdown'.pc = "kill" /\ shutdown'.left = super.known
      BY <1>1, <1>13 DEF CloseSupervisor, CutoverTypeOK
    <2> QED
      BY <1>1, <2>1 DEF Supervision, Thread
  <1>14. CASE KillChildren
    <2>1. shutdown.pc = "kill" /\ UNCHANGED <<worker, super, jobs>>
      BY <1>14 DEF KillChildren
    <2>2. CASE shutdown.left = {}
      BY <1>1, <1>14, <2>1, <2>2 DEF KillChildren, Supervision
    <2>3. CASE shutdown.left # {}
      <3>1. PICK j \in shutdown.left : /\ child' = [child EXCEPT ![j] = Killed(@)]
                                       /\ shutdown' = [shutdown EXCEPT !.left = @ \ {j}]
        BY <1>14, <2>3 DEF KillChildren
      <3>2. shutdown'.pc = "kill" /\ shutdown'.left = shutdown.left \ {j}
        BY <1>1, <2>1, <3>1 DEF CutoverTypeOK
      <3>3. \A i \in Jobs : child'[i] = "alive" => child[i] = "alive" /\ i # j
        BY <1>1, <3>1 DEF Killed, CutoverTypeOK
      <3> QED
        BY <1>1, <2>1, <3>2, <3>3 DEF Supervision
    <2> QED
      BY <2>2, <2>3
  <1>15. CASE UNCHANGED vars
    BY <1>3, <1>15 DEF vars
  <1>16. CASE RunnerRaises
    <2>1. worker.job \in Jobs /\ worker'.pc = "idle" /\ UNCHANGED <<child, super, shutdown>>
      BY <1>1, <1>16, WorkerType DEF RunnerRaises, Idle
    <2>2. \A j \in Jobs : /\ j # worker.job => jobs'[j] = jobs[j]
                          /\ child[j] = "alive" /\ j = worker.job => j \in super.known
      <3>1. CASE worker.pc = "reads"
        BY <1>1, <1>16, <2>1, <3>1 DEF RunnerRaises, CutoverTypeOK, Supervision
      <3>2. CASE worker.pc # "reads"
        <4>1. worker.pc \notin {"spawned", "reads"}
          BY <1>16, <3>2 DEF RunnerRaises
        <4> QED
          BY <1>1, <1>16, <2>1, <4>1 DEF RunnerRaises, CutoverTypeOK, Thread, Supervision
      <3> QED
        BY <3>1, <3>2
    <2>3. \A j \in Jobs : ~Spawned(j)
      BY <1>16 DEF RunnerRaises
    <2> QED
      BY <1>1, <2>1, <2>2, <2>3 DEF Supervision
  <1> QED
    BY <1>4, <1>5, <1>6, <1>7, <1>8, <1>9, <1>10, <1>11, <1>12, <1>13, <1>14, <1>15, <1>16
       DEF Next, Worker

-------------------------------------------------------------------------------
(* Jobs and their items *)

\* The cancels of a job that have yet to reach it are still on their way.
CancelsStay(j) ==
    \A c \in DOMAIN cancels : cancels[c] = [pc |-> "direct", job |-> j] =>
        c \in DOMAIN cancels' /\ cancels'[c] = cancels[c]

LEMMA CoherentStays ==
    ASSUME NEW j \in Jobs, CoherentAt(j), UNCHANGED worker,
           items'[j] = items[j], jobs'[j] = jobs[j], CancelsStay(j)
    PROVE  CoherentAt(j)'
  BY DEF CoherentAt, CancelsStay, Unrun

\* What _finish makes of a job.
LEMMA FinishedJob ==
    ASSUME CutoverTypeOK, NEW j \in Jobs, NEW code
    PROVE  /\ Finished(j, code)[j].pc = jobs[j].pc
           /\ Finished(j, code)[j].cancelRequested = jobs[j].cancelRequested
           /\ Finished(j, code)[j].status \in Terminal
           /\ code = "130" => Finished(j, code)[j].status = "cancelled"
           /\ \A i \in Jobs : i # j => Finished(j, code)[i] = jobs[i]
  BY DEF Finished, CutoverTypeOK, JobTypes, Terminal

LEMMA CoherentRequest ==
    ASSUME CutoverInv, NEW j \in Jobs, Start(j) \/ Submit(j) \/ ChildEnds(j) PROVE Coherent'
  <1>1. CutoverTypeOK /\ Thread /\ Coherent
    BY DEF CutoverInv
  <1> SUFFICES ASSUME NEW i \in Jobs PROVE CoherentAt(i)'
    BY DEF Coherent
  <1>2. CoherentAt(i) /\ UNCHANGED <<worker, cancels>> /\ CancelsStay(i)
    BY <1>1 DEF Coherent, Start, Submit, ChildEnds, CancelsStay
  <1>3. CASE i # j \/ ChildEnds(j)
    <2>1. items'[i] = items[i] /\ jobs'[i] = jobs[i]
      BY <1>1, <1>3 DEF Start, Submit, ChildEnds, CutoverTypeOK
    <2> QED
      BY <1>2, <2>1, CoherentStays
  <1>4. CASE i = j /\ Start(j)
    <2>1. jobs'[i].pc = "kept" /\ jobs'[i].status = "starting" /\ items' = items
      BY <1>1, <1>4 DEF Start, CutoverTypeOK, JobTypes
    <2>2. items[i] = "absent"
      BY <1>2, <1>4 DEF Start, CoherentAt
    <2>3. ~(worker.pc # "idle" /\ worker.job = i)
      BY <1>1, <2>2 DEF Thread
    <2> QED
      BY <1>2, <2>1, <2>2, <2>3 DEF CoherentAt, Unrun, Terminal
  <1>5. CASE i = j /\ Submit(j)
    <2>1. jobs[i].pc = "kept" /\ items[i] = "absent" /\ Unrun(i)
      BY <1>2, <1>5 DEF Submit, CoherentAt
    <2>2. jobs'[i].status = jobs[i].status /\ jobs'[i].cancelRequested = jobs[i].cancelRequested
      BY <1>1, <1>5 DEF Submit, CutoverTypeOK, JobTypes
    <2>3. \/ jobs'[i].pc = "refused" /\ items'[i] = "absent"
          \/ jobs'[i].pc = "queued" /\ items'[i] = "waiting"
      BY <1>1, <1>5, <2>1 DEF Submit, CutoverTypeOK, JobTypes
    <2>4. ~(worker.pc # "idle" /\ worker.job = i)
      BY <1>1, <2>1 DEF Thread
    <2> QED
      BY <1>2, <2>1, <2>2, <2>3, <2>4 DEF CoherentAt, Unrun, Terminal
  <1> QED
    BY <1>3, <1>4, <1>5

LEMMA CoherentCancel ==
    ASSUME CutoverInv, NEW c \in Clients, NEW j \in Jobs, Cancel(c, j) PROVE Coherent'
  <1>1. CutoverTypeOK /\ Thread /\ Coherent
    BY DEF CutoverInv
  <1> SUFFICES ASSUME NEW i \in Jobs PROVE CoherentAt(i)'
    BY DEF Coherent
  <1>2. CoherentAt(i) /\ UNCHANGED <<worker, jobs>>
    BY <1>1 DEF Coherent, Cancel
  <1>3. CancelsStay(i) /\ c \in DOMAIN cancels' /\ cancels'[c] = [pc |-> "direct", job |-> j]
    BY <1>1 DEF Cancel, CancelsStay, CutoverTypeOK, Idle
  <1>4. CASE i # j \/ items[j] = "running"
    <2>1. items'[i] = items[i]
      BY <1>1, <1>4 DEF Cancel, CutoverTypeOK
    <2> QED
      BY <1>2, <1>3, <2>1, CoherentStays
  <1>5. CASE i = j /\ items[j] = "waiting"
    <2>1. items'[i] = "cancelled" /\ jobs[i].pc = "queued" /\ Unrun(i)
      BY <1>1, <1>2, <1>5 DEF Cancel, CutoverTypeOK, CoherentAt
    <2>2. ~(worker.pc # "idle" /\ worker.job = i)
      BY <1>1, <1>5 DEF Thread
    <2> QED
      BY <1>2, <1>3, <1>5, <2>1, <2>2 DEF CoherentAt, Unrun
  <1> QED
    BY <1>4, <1>5 DEF Cancel

LEMMA CoherentDirect ==
    ASSUME CutoverInv, NEW c \in DOMAIN cancels, Direct(c) PROVE Coherent'
  <1>1. CutoverTypeOK /\ Thread /\ Coherent
    BY DEF CutoverInv
  <1> DEFINE j == cancels[c].job
  <1>2. j \in Jobs /\ cancels[c].pc = "direct"
    BY <1>1, CancelType DEF Direct
  <1> SUFFICES ASSUME NEW i \in Jobs PROVE CoherentAt(i)'
    BY DEF Coherent
  <1>3. CoherentAt(i) /\ UNCHANGED <<worker, items>> /\ LockFree
    BY <1>1 DEF Coherent, Direct
  <1>4. \A d \in DOMAIN cancels : d # c => d \in DOMAIN cancels' /\ cancels'[d] = cancels[d]
    BY <1>1 DEF Direct, CutoverTypeOK
  <1>5. CASE i # j
    <2>1. jobs'[i] = jobs[i]
      BY <1>1, <1>2, <1>5, FinishedJob DEF Direct, CutoverTypeOK, JobTypes, Finished
    <2>2. CancelsStay(i)
      BY <1>2, <1>4, <1>5 DEF CancelsStay
    <2> QED
      BY <1>3, <2>1, <2>2, CoherentStays
  <1>6. CASE i = j /\ jobs[j].status \in Terminal
    <2>1. jobs' = jobs /\ jobs[i].status # "starting"
      BY <1>6 DEF Direct, Terminal
    <2> QED
      BY <1>3, <2>1 DEF CoherentAt, Unrun
  <1>7. CASE i = j /\ jobs[j].status = "starting"
    <2>1. jobs' = [Finished(j, "130") EXCEPT ![j].cancelRequested = TRUE]
      BY <1>7 DEF Direct, Terminal
    <2>2. Finished(j, "130") \in [Jobs -> JobTypes]
      BY <1>1, <1>2, FinishedType
    <2>3. /\ jobs'[i].pc = jobs[i].pc /\ jobs'[i].status = "cancelled"
          /\ jobs'[i].cancelRequested
      BY <1>1, <1>2, <1>7, <2>1, <2>2, FinishedJob DEF JobTypes
    <2>4. worker.pc # "idle" /\ worker.job = i => worker.pc = "run" \/ worker.pc = "report"
      BY <1>1, <1>3, <1>7, WorkerType DEF CoherentAt, LockFree, WorkerPcs
    <2>5. items[i] \in Terminal => items[i] = "cancelled" \/ jobs[i].pc = "raised"
      <3>1. items[i] \in Terminal => jobs[i].pc \in {"queued", "raised"}
        BY <1>3 DEF CoherentAt, Terminal
      <3> QED
        BY <1>3, <1>7, <3>1 DEF CoherentAt, Terminal
    <2> QED
      BY <1>3, <1>7, <2>3, <2>4, <2>5 DEF CoherentAt, Unrun, Terminal
  <1>8. CASE i = j /\ jobs[j].status \notin Terminal \cup {"starting"}
    <2>1. jobs' = [jobs EXCEPT ![j].cancelRequested = TRUE]
      BY <1>8 DEF Direct
    <2>2. jobs'[i].pc = jobs[i].pc /\ jobs'[i].status = jobs[i].status
      BY <1>1, <1>8, <2>1 DEF CutoverTypeOK, JobTypes
    <2> QED
      BY <1>3, <1>8, <2>2 DEF CoherentAt, Unrun, Terminal
  <1> QED
    BY <1>5, <1>6, <1>7, <1>8

\* The steps of the thread of the queue, which works on the item that runs.
LEMMA CoherentWorker == ASSUME CutoverInv, Worker PROVE Coherent'
  <1>1. CutoverTypeOK /\ Thread /\ Coherent
    BY DEF CutoverInv
  <1> SUFFICES ASSUME NEW i \in Jobs PROVE CoherentAt(i)'
    BY DEF Coherent
  <1>2. CoherentAt(i) /\ UNCHANGED cancels
    BY <1>1 DEF Coherent, Worker, Take, Run, Launch, Attach, Reaped, RunEnds, Report, RunnerRaises
  <1>3. CASE Take
    <2>1. PICK k \in DOMAIN order : /\ items[order[k]] = "waiting"
                                    /\ items' = [items EXCEPT ![order[k]] = "running"]
                                    /\ worker' = [pc |-> "run", job |-> order[k]]
      BY <1>3 DEF Take
    <2> DEFINE j == order[k]
    <2>2. j \in Jobs
      BY <1>1 DEF CutoverTypeOK
    <2>3. worker.pc = "idle" /\ UNCHANGED jobs
      BY <1>3 DEF Take
    <2>4. CASE i = j
      <3>1. items'[i] = "running" /\ items[i] = "waiting" /\ worker'.pc = "run"
        BY <1>1, <2>1, <2>2, <2>4 DEF CutoverTypeOK
      <3> QED
        BY <1>2, <2>3, <3>1 DEF CoherentAt, Unrun, Terminal
    <2>5. CASE i # j
      <3>1. items'[i] = items[i] /\ worker'.job # i
        BY <1>1, <2>1, <2>2, <2>5 DEF CutoverTypeOK
      <3> QED
        BY <1>2, <2>3, <3>1 DEF CoherentAt, Unrun
    <2> QED
      BY <2>4, <2>5
  <1>4. CASE Run \/ Launch \/ Attach \/ Reaped \/ RunEnds
    <2>1. worker.pc # "idle"
      BY <1>4 DEF Run, Launch, Attach, Reaped, RunEnds
    <2>2. worker.job \in Jobs /\ items' = items /\ worker'.job = worker.job /\ worker'.pc # "idle"
      BY <1>1, <1>4, <2>1, WorkerType DEF Run, Launch, Attach, Reaped, RunEnds
    <2>3. items[worker.job] = "running"
      BY <1>1, <2>1, <2>2 DEF Thread
    <2>4. \A k \in Jobs : /\ jobs'[k].pc = jobs[k].pc
                          /\ k # worker.job => jobs'[k] = jobs[k]
      <3>1. \/ jobs' = jobs \/ \E code : jobs' = Finished(worker.job, code)
            \/ jobs' = [jobs EXCEPT ![worker.job].status = "running"]
        BY <1>4 DEF Run, Launch, Attach, Reaped, RunEnds
      <3>2. CASE \E code : jobs' = Finished(worker.job, code)
        BY <1>1, <2>2, <3>2, FinishedJob
      <3>3. CASE jobs' = [jobs EXCEPT ![worker.job].status = "running"]
        BY <1>1, <2>2, <3>3 DEF CutoverTypeOK, JobTypes
      <3> QED
        BY <3>1, <3>2, <3>3
    <2>5. CASE i # worker.job
      BY <1>2, <2>2, <2>4, <2>5 DEF CoherentAt, Unrun
    <2>6. CASE i = worker.job
      <3>1. jobs[i].pc = "queued"
        BY <1>2, <2>3, <2>6 DEF CoherentAt
      <3>2. /\ worker'.pc \notin {"run", "spawned"} \/ jobs'[i].status = "starting"
            /\ worker'.pc = "launch" => jobs'[i].status = "starting"
            /\ worker'.pc \in {"reads", "reaped"} => jobs'[i].status = "running"
            /\ worker'.pc = "report" => jobs'[i].status \in Terminal
        <4>1. CASE Run
          <5>1. CASE jobs[i].cancelRequested
            BY <1>1, <2>6, <4>1, <5>1, FinishedJob, WorkerType DEF Run
          <5>2. CASE ~jobs[i].cancelRequested
            BY <1>1, <1>2, <2>6, <4>1, <5>2, WorkerType DEF Run, CoherentAt, Unrun
          <5> QED
            BY <5>1, <5>2
        <4>2. CASE Launch
          BY <1>1, <1>2, <2>2, <2>6, <4>2, FinishedJob, WorkerType DEF Launch, CoherentAt
        <4>3. CASE Attach
          <5>1. CASE super.closed
            BY <1>1, <2>2, <2>6, <4>3, <5>1, FinishedJob, WorkerType DEF Attach
          <5>2. CASE ~super.closed
            BY <1>1, <2>2, <2>6, <4>3, <5>2, WorkerType DEF Attach, CutoverTypeOK, JobTypes
          <5> QED
            BY <5>1, <5>2
        <4>4. CASE Reaped
          BY <1>1, <1>2, <2>6, <4>4, WorkerType DEF Reaped, CoherentAt
        <4>5. CASE RunEnds
          BY <1>1, <2>2, <2>6, <4>5, FinishedJob, WorkerType DEF RunEnds
        <4> QED
          BY <1>4, <4>1, <4>2, <4>3, <4>4, <4>5
      <3>3. jobs'[i].pc = "queued" /\ items'[i] = "running"
        BY <2>2, <2>3, <2>4, <2>6, <3>1
      <3> QED
        BY <3>2, <3>3 DEF CoherentAt, Unrun, Terminal
    <2> QED
      BY <2>5, <2>6
  <1>5. CASE Report
    <2>1. worker.job \in Jobs /\ worker'.pc = "idle" /\ UNCHANGED jobs
      BY <1>1, <1>5, WorkerType DEF Report, Idle
    <2>2. CASE i = worker.job
      <3>1. /\ items'[i] = jobs[i].status /\ jobs[i].status \in Terminal
            /\ jobs[i].pc = "queued"
        BY <1>1, <1>2, <1>5, <2>2 DEF Report, CutoverTypeOK, CoherentAt, Thread
      <3> QED
        BY <2>1, <3>1 DEF CoherentAt, Terminal
    <2>3. CASE i # worker.job
      <3>1. items'[i] = items[i]
        BY <1>1, <1>5, <2>1, <2>3 DEF Report, CutoverTypeOK
      <3> QED
        BY <1>2, <2>1, <3>1 DEF CoherentAt, Unrun
    <2> QED
      BY <2>2, <2>3
  <1>6. CASE RunnerRaises
    <2>1. worker.job \in Jobs /\ worker.pc # "idle" /\ worker'.pc = "idle"
      BY <1>1, <1>6, WorkerType DEF RunnerRaises, Idle
    <2>2. CASE i = worker.job
      <3>1. items'[i] = "failed" /\ jobs'[i].pc = "raised"
        BY <1>1, <1>6, <2>2 DEF RunnerRaises, CutoverTypeOK, JobTypes
      <3> QED
        BY <2>1, <3>1 DEF CoherentAt, Terminal
    <2>3. CASE i # worker.job
      <3>1. items'[i] = items[i] /\ jobs'[i] = jobs[i]
        BY <1>1, <1>6, <2>1, <2>3 DEF RunnerRaises, CutoverTypeOK
      <3> QED
        BY <1>2, <2>1, <2>3, <3>1 DEF CoherentAt, Unrun
    <2> QED
      BY <2>2, <2>3
  <1> QED
    BY <1>3, <1>4, <1>5, <1>6 DEF Worker

LEMMA CoherentStep == ASSUME CutoverInv, [Next]_vars PROVE Coherent'
  <1>1. CutoverTypeOK /\ Coherent
    BY DEF CutoverInv
  <1> USE DEF v1Vars
  <1>2. ASSUME UNCHANGED <<worker, items, jobs>>, \A j \in Jobs : CancelsStay(j) PROVE Coherent'
    BY <1>1, <1>2, CoherentStays DEF Coherent
  <1>3. ASSUME NEW c \in DOMAIN cancels, Kill(c) PROVE Coherent'
    <2>1. \A d \in DOMAIN cancels : cancels[d].pc = "direct" =>
              d \in DOMAIN cancels' /\ cancels'[d] = cancels[d]
      BY <1>1, <1>3 DEF Kill, CutoverTypeOK
    <2> QED
      BY <1>2, <1>3, <2>1 DEF Kill, CancelsStay
  <1>4. CASE ShutdownJob
    <2>1. \A d \in DOMAIN cancels : cancels[d].pc = "direct" =>
              d \in DOMAIN cancels' /\ cancels'[d] = cancels[d]
      BY <1>1, <1>4 DEF ShutdownJob, CutoverTypeOK, Idle
    <2> QED
      BY <1>2, <1>4, <2>1 DEF ShutdownJob, CancelsStay
  <1>5. ASSUME UNCHANGED <<worker, items, jobs, cancels>> PROVE Coherent'
    BY <1>2, <1>5 DEF CancelsStay
  <1>6. ASSUME NEW r \in Runtimes,
               CloseFor(r) \/ Activate(r) \/ Dispatch(r) \/ StopDispatcher(r) \/ Deactivate(r)
        PROVE  Coherent'
    BY <1>5, <1>6 DEF CloseFor, Activate, Dispatch, StopDispatcher, Deactivate
  <1>7. CASE AttemptEnds \/ ShutdownRuntimes \/ ShutdownJobs \/ CloseSupervisor \/ KillChildren
    BY <1>5, <1>7 DEF AttemptEnds, ShutdownRuntimes, ShutdownJobs, CloseSupervisor, KillChildren
  <1>8. CASE UNCHANGED vars
    BY <1>5, <1>8 DEF vars
  <1> QED
    BY <1>3, <1>4, <1>6, <1>7, <1>8, CoherentRequest, CoherentCancel, CoherentDirect, CoherentWorker
       DEF Next

-------------------------------------------------------------------------------
(* The theorem *)

LEMMA CutoverInit == Init => CutoverInv
  <1> SUFFICES ASSUME Init PROVE CutoverInv
    OBVIOUS
  <1>1. CutoverTypeOK
    BY TypeInit
  <1>2. Ownership
    BY DEF Init, Ownership, None
  <1>3. Thread
    BY DEF Init, Thread, Idle
  <1>4. Supervision
    BY DEF Init, Supervision, Idle
  <1>5. Coherent
    BY DEF Init, Coherent, CoherentAt, Idle, Terminal
  <1> QED
    BY <1>1, <1>2, <1>3, <1>4, <1>5 DEF CutoverInv

LEMMA CutoverSafe == ASSUME None \notin Runtimes, CutoverInv PROVE HandOverIsSafe
  <1>1. CutoverTypeOK /\ Ownership /\ Thread /\ Supervision /\ Coherent
    BY DEF CutoverInv
  <1>2. OneExecutor
    <2>1. ASSUME attempt = "running", NEW j \in Jobs
          PROVE  /\ items[j] # "running"
                 /\ child[j] = "alive" => jobs[j].pc = "raised"
      <3>1. PICK r \in Runtimes : closedBy = r
        BY <1>1, <2>1 DEF Ownership
      <3> QED
        BY <1>1, <3>1 DEF Ownership, Thread, Terminal
    <2> QED
      BY <1>1, <2>1 DEF OneExecutor, Ownership
  <1>3. NoChildSurvives
    BY <1>1, WorkerType DEF NoChildSurvives, Supervision, Spawned
  <1>4. ItemEndsAsItsJob
    <2>1. \A j \in Jobs : items[j] \in Terminal => jobs[j].pc \in {"queued", "raised"}
      BY <1>1 DEF Coherent, CoherentAt, Terminal
    <2> QED
      BY <1>1, <2>1 DEF ItemEndsAsItsJob, Coherent, CoherentAt, Idle
  <1> QED
    BY <1>2, <1>3, <1>4 DEF HandOverIsSafe

\* For any number of legacy jobs, cancelling threads and runtimes, wherever a runner
\* raises and whenever the process shuts down: no legacy item runs beside a v1 attempt,
\* and no child but one whose runner has raised; one runtime has the queue, no child is
\* left behind, and an item ends as its job does, or failed when its runner raised
\* (operation_queue.py, job_runtime.py, jobs.py, processes.py).
THEOREM CutoverHandOverIsSafe == Spec => []HandOverIsSafe
  <1>1. Init => CutoverInv
    BY CutoverInit
  <1>2. CutoverInv /\ [Next]_vars => CutoverInv'
    BY CutoverAssumption, TypeStep, OwnershipStep, ThreadStep, SupervisionStep, CoherentStep DEF CutoverInv
  <1>3. CutoverInv => HandOverIsSafe
    BY CutoverAssumption, CutoverSafe
  <1> QED
    BY <1>1, <1>2, <1>3, PTL DEF Spec

----------------------------------------------------------------------------
(* A listing is a snapshot: pages and generations. *)

\* Every non-empty set of numbers has a first one.
LEMMA FirstNumber ==
  ASSUME NEW T, T \subseteq Nat, T # {}
  PROVE  \E x \in T : \A y \in T : x <= y
  <1> DEFINE R == {ss \in Nat \X Nat : ss[1] < ss[2]}
  <1>1. IsWellFoundedOn(R, Nat)
    BY NatLessThanWellFounded DEF OpToRel
  <1>2. PICK x \in T : \A y \in T : ~ (<<y, x>> \in R)
    BY <1>1, WFMin
  <1>3. x \in Nat /\ \A y \in T : y \in Nat
    OBVIOUS
  <1>4. \A y \in T : ~ (y < x)
    BY <1>2, <1>3
  <1> QED
    BY <1>3, <1>4

LEMMA LastOne ==
  ASSUME NEW S \in SUBSET Ids, S # {}
  PROVE  \E x \in S : \A y \in S : x >= y
  <1> DEFINE T == {LastId - x : x \in S}
  <1>1. LastId \in Nat /\ \A x \in S : x \in Int /\ x <= LastId
    BY ListAssumption DEF ListAssumption, Ids
  <1>2. T \subseteq Nat /\ T # {}
    BY <1>1
  <1>3. PICK t \in T : \A u \in T : t <= u
    BY ONLY <1>2, FirstNumber
  <1>4. PICK x \in S : t = LastId - x
    BY <1>3
  <1>5. \A y \in S : LastId - x <= LastId - y
    BY <1>3, <1>4
  <1> QED
    BY <1>1, <1>5

LEMMA FirstOne ==
  ASSUME NEW S \in SUBSET Ids, S # {}
  PROVE  \E x \in S : \A y \in S : x <= y
  <1>1. S \subseteq Nat
    BY ListAssumption DEF ListAssumption, Ids
  <1> QED
    BY <1>1, FirstNumber

\* What comes next in the list comes first: a page has no gap ...
LEMMA PageHasNoGap ==
  ASSUME NEW snapshot, NEW after \in Int, NEW i \in Page(snapshot, after),
         NEW j \in Listed(snapshot), j > after, j < i
  PROVE  j \in Page(snapshot, after)
  <1> USE ListAssumption DEF ListAssumption
  <1> DEFINE rest == {k \in Listed(snapshot) : k > after}
             A == {k \in rest : k < i}
             B == {k \in rest : k < j}
  <1>1. Listed(snapshot) \subseteq Ids /\ Ids \subseteq Int
    BY DEF Listed, Ids
  <1>2. i \in rest /\ j \in rest /\ Cardinality(A) < PageLimit
    BY DEF Page
  <1>3. IsFiniteSet(Ids)
    BY FS_Interval DEF Ids
  <1>4. IsFiniteSet(A)
    <2>1. A \subseteq Ids
      BY <1>1
    <2> QED
      BY <1>3, <2>1, FS_Subset
  <1>5. B \subseteq A
    <2>1. (\A k \in rest : k \in Int) /\ i \in Int /\ j \in Int
      BY <1>1, <1>2
    <2> HIDE DEF rest
    <2>2. \A k \in rest : k < j => k < i
      BY <2>1
    <2> QED
      BY <2>2
  <1> HIDE DEF A, B
  <1>6. IsFiniteSet(B) /\ Cardinality(B) <= Cardinality(A)
    BY <1>4, <1>5, FS_Subset
  <1>7. Cardinality(A) \in Nat /\ Cardinality(B) \in Nat
    BY <1>4, <1>6, FS_CardinalityType
  <1>8. Cardinality(B) < PageLimit
    BY <1>2, <1>6, <1>7
  <1> QED
    BY <1>2, <1>8 DEF Page, B

\* ... and is not empty while something is left.
LEMMA PageHasOne ==
  ASSUME NEW snapshot, NEW after \in Int, NEW i \in Listed(snapshot), i > after
  PROVE  Page(snapshot, after) # {}
  <1> USE ListAssumption DEF ListAssumption
  <1> DEFINE rest == {k \in Listed(snapshot) : k > after}
  <1>1. rest \in SUBSET Ids /\ rest # {}
    BY DEF Listed
  <1> HIDE DEF rest
  <1>2. PICK f \in rest : \A y \in rest : f <= y
    BY <1>1, FirstOne
  <1>3. {k \in rest : k < f} = {}
    <2>1. \A k \in rest : k \in Int
      BY <1>1 DEF Ids
    <2>2. \A k \in rest : ~ (k < f)
      BY <1>2, <2>1
    <2> QED
      BY <2>2
  <1>4. Cardinality({k \in rest : k < f}) = 0
    BY <1>3, FS_EmptySet
  <1> QED
    BY <1>2, <1>4 DEF Page, rest

----------------------------------------------------------------------------
(* The invariant: a snapshot is not touched by what comes after it. *)

Revision == [generation : Nat, deleted : BOOLEAN]

StoreType ==
  /\ generation \in Nat
  /\ records \in [Ids -> Seq(Revision)]
  /\ \A i \in Ids : \A r \in DOMAIN records[i] : records[i][r].generation <= generation

Reading == [pc : {"lists", "listed"}, snapshot : Nat, items : SUBSET Ids, shown : SUBSET Ids]

\* What a reader has seen: all of the snapshot up to the last row it was given.
ReadsSnapshot(c) ==
  sender[c].pc \in {"lists", "listed"} =>
    /\ sender[c] \in Reading
    /\ sender[c].snapshot <= generation
    /\ sender[c].shown = Listed(sender[c].snapshot)
    /\ sender[c].items \subseteq sender[c].shown
    /\ \A i \in sender[c].items : \A j \in sender[c].shown : j < i => j \in sender[c].items
    /\ sender[c].pc = "listed" => sender[c].items = sender[c].shown
    /\ sender[c].pc = "lists" => sender[c].items # {}

EditsOne(c) == sender[c].pc = "edits" => sender[c].id \in Ids

SettingsInvariant ==
  /\ StoreType
  /\ sender = [c \in Senders |-> sender[c]]
  /\ \A c \in Senders : ReadsSnapshot(c) /\ EditsOne(c)

\* All that is there at the first page is in its snapshot.
LEMMA SnapshotIsAll ==
  ASSUME StoreType
  PROVE  Listed(generation) = {i \in Ids : Exists(i)}
  <1> SUFFICES ASSUME NEW i \in Ids
               PROVE  i \in Listed(generation) <=> Exists(i)
    BY DEF Listed
  <1> DEFINE s == records[i]
  <1>1. s \in Seq(Revision) /\ \A r \in DOMAIN s : s[r].generation <= generation
    BY DEF StoreType
  <1>2. Len(s) \in Nat /\ DOMAIN s = 1..Len(s) /\ \A r \in DOMAIN s : s[r] \in Revision
    BY <1>1
  <1>3. \A r \in DOMAIN s : s[r].generation \in Nat
    BY <1>2 DEF Revision
  <1>4. ASSUME NEW r \in DOMAIN s, LatestUpTo(i, r, generation)
        PROVE  r = Len(s)
    <2>1. Len(s) > r => s[Len(s)].generation > generation
      BY <1>2, <1>4 DEF LatestUpTo
    <2>2. Len(s) \in DOMAIN s
      BY <1>2
    <2> QED
      BY <1>1, <1>2, <1>3, <2>1, <2>2 DEF StoreType
  <1>5. s # <<>> => Len(s) \in DOMAIN s /\ LatestUpTo(i, Len(s), generation)
    BY <1>1, <1>2 DEF LatestUpTo
  <1>6. s # <<>> => Last(s) = s[Len(s)]
    BY DEF Last
  <1>7. s = <<>> => DOMAIN s = {}
    BY <1>2
  <1> QED
    BY <1>4, <1>5, <1>6, <1>7 DEF Listed, Exists

\* A revision that is appended belongs to no snapshot that was taken.
LEMMA AppendKeepsSnapshots ==
  ASSUME StoreType, NEW i \in Ids, NEW deleted \in BOOLEAN, Append_(i, deleted)
  PROVE  /\ StoreType'
         /\ generation' = generation + 1
         /\ \A snapshot \in Nat : snapshot <= generation => Listed(snapshot)' = Listed(snapshot)
  <1> DEFINE e == [generation |-> generation + 1, deleted |-> deleted]
  <1>1. generation \in Nat /\ generation' = generation + 1
    BY DEF StoreType, Append_
  <1>2. e \in Revision /\ e.generation = generation + 1
    BY <1>1 DEF Revision
  <1>3. records' = [records EXCEPT ![i] = Append(records[i], e)]
    BY <1>1 DEF Append_
  <1> HIDE DEF e
  <1>4. records \in [Ids -> Seq(Revision)] /\ records[i] \in Seq(Revision)
    BY DEF StoreType
  <1>5. Append(records[i], e) \in Seq(Revision)
    BY <1>2, <1>4
  <1>6. records' \in [Ids -> Seq(Revision)]
    BY <1>3, <1>4, <1>5
  <1>7. records'[i] = Append(records[i], e) /\ \A k \in Ids : k # i => records'[k] = records[k]
    BY <1>3, <1>4
  <1>n. PICK n \in Nat : n = Len(records[i])
    BY <1>4
  <1>8. /\ n \in Nat /\ DOMAIN records[i] = 1..n /\ DOMAIN records'[i] = 1..(n+1)
        /\ records'[i][n+1] = e
        /\ \A r \in 1..n : records'[i][r] = records[i][r]
    BY <1>n, <1>2, <1>4, <1>5, <1>7
  <1>9. \A r \in 1..(n+1) : r \in 1..n \/ r = n + 1
    BY <1>8
  <1>10. \A k \in Ids : \A r \in DOMAIN records[k] :
            records[k][r].generation \in Nat /\ records[k][r].generation <= generation
    <2>1. \A k \in Ids : \A r \in DOMAIN records[k] : records[k][r] \in Revision
      BY <1>4
    <2> QED
      BY <2>1 DEF StoreType, Revision
  <1>11. \A k \in Ids : \A r \in DOMAIN records'[k] : records'[k][r].generation <= generation + 1
    <2>1. SUFFICES ASSUME NEW k \in Ids, NEW r \in DOMAIN records'[k]
                   PROVE  records'[k][r].generation <= generation + 1
      OBVIOUS
    <2>2. CASE k = i /\ r = n + 1
      BY <1>1, <1>2, <1>8, <2>2
    <2>3. CASE ~(k = i /\ r = n + 1)
      <3>1. r \in DOMAIN records[k] /\ records'[k][r] = records[k][r]
        BY <1>7, <1>8, <1>9, <2>1, <2>3
      <3>2. records[k][r].generation \in Nat /\ records[k][r].generation <= generation
        BY <1>10, <3>1
      <3> QED
        BY <1>1, <3>1, <3>2
    <2> QED
      BY <2>2, <2>3
  <1>12. StoreType'
    BY <1>1, <1>6, <1>11 DEF StoreType
  <1>13. ASSUME NEW snapshot \in Nat, snapshot <= generation
         PROVE  Listed(snapshot)' = Listed(snapshot)
    <2>1. \A r \in 1..n : LatestUpTo(i, r, snapshot)' <=> LatestUpTo(i, r, snapshot)
      <3>1. SUFFICES ASSUME NEW r \in 1..n
                     PROVE  LatestUpTo(i, r, snapshot)' <=> LatestUpTo(i, r, snapshot)
        OBVIOUS
      <3>2. (n+1 > r) => records'[i][n+1].generation > snapshot
        BY <1>1, <1>2, <1>8, <1>13
      <3>3. /\ \A q \in DOMAIN records[i] : q \in DOMAIN records'[i] /\ records'[i][q] = records[i][q]
            /\ \A q \in DOMAIN records'[i] : q \in DOMAIN records[i] \/ q = n + 1
            /\ r \in DOMAIN records[i]
        BY <1>8, <1>9
      <3>4. (\A q \in DOMAIN records'[i] : q > r => records'[i][q].generation > snapshot)
              <=> \A q \in DOMAIN records[i] : q > r => records[i][q].generation > snapshot
        BY <3>2, <3>3
      <3> QED
        BY <3>3, <3>4 DEF LatestUpTo
    <2>2. ~ LatestUpTo(i, n+1, snapshot)'
      BY <1>1, <1>2, <1>8, <1>13 DEF LatestUpTo
    <2>3. \A k \in Ids \ {i} : \A r : LatestUpTo(k, r, snapshot)' <=> LatestUpTo(k, r, snapshot)
      BY <1>7 DEF LatestUpTo
    <2>4. ASSUME NEW k \in Ids
          PROVE  (\E r \in DOMAIN records'[k] : LatestUpTo(k, r, snapshot)' /\ ~records'[k][r].deleted)
                  <=> (\E r \in DOMAIN records[k] : LatestUpTo(k, r, snapshot) /\ ~records[k][r].deleted)
      <3>1. CASE k = i
        BY <1>8, <1>9, <2>1, <2>2, <3>1
      <3>2. CASE k # i
        BY <1>7, <2>3, <3>2
      <3> QED
        BY <3>1, <3>2
    <2> QED
      BY <2>4 DEF Listed, Ids
  <1> QED
    BY <1>1, <1>12, <1>13

StoreGrows ==
  /\ StoreType'
  /\ generation' \in Nat /\ generation <= generation'
  /\ \A snapshot \in Nat : snapshot <= generation => Listed(snapshot)' = Listed(snapshot)

LEMMA SameStoreGrows ==
  ASSUME StoreType, UNCHANGED <<generation, records>>
  PROVE  StoreGrows
  <1>1. generation \in Nat /\ generation' = generation /\ records' = records
    BY DEF StoreType
  <1>2. StoreType'
    BY <1>1 DEF StoreType
  <1>3. \A snapshot \in Nat : Listed(snapshot)' = Listed(snapshot)
    BY <1>1 DEF Listed, LatestUpTo, Ids
  <1> QED
    BY <1>1, <1>2, <1>3 DEF StoreGrows

LEMMA AppendGrows ==
  ASSUME StoreType, NEW i \in Ids, NEW deleted \in BOOLEAN, Append_(i, deleted)
  PROVE  StoreGrows
  <1>1. generation \in Nat
    BY DEF StoreType
  <1>2. /\ StoreType'
        /\ generation' = generation + 1
        /\ \A snapshot \in Nat : snapshot <= generation => Listed(snapshot)' = Listed(snapshot)
    BY AppendKeepsSnapshots
  <1> QED
    BY <1>1, <1>2 DEF StoreGrows

\* No request takes a row out of a snapshot, or puts one in.
LEMMA RequestsGrowStore ==
  ASSUME SettingsInvariant, NEW c \in Senders,
         \/ CreateFile(c)
         \/ CreateSchema(c)
         \/ CreatorDies(c)
         \/ \E k \in PostKeys, b \in PostBodies, i \in Ids : Post(c, k, b, i)
         \/ Told(c)
         \/ \E i \in Ids : Get(c, i)
         \/ \E d \in BOOLEAN : Mutate(c, d)
         \/ List(c)
         \/ ListNext(c)
         \/ ListRead(c)
  PROVE  StoreGrows
  <1> USE DEF SettingsInvariant
  <1>1. CASE UNCHANGED <<generation, records>>
    BY <1>1, SameStoreGrows
  <1>2. ASSUME NEW k \in PostKeys, NEW b \in PostBodies, NEW i \in Ids, Post(c, k, b, i)
        PROVE  StoreGrows
    <2>1. Append_(i, FALSE) \/ UNCHANGED <<generation, records>>
      BY <1>2 DEF Post
    <2> QED
      BY <2>1, AppendGrows, SameStoreGrows
  <1>3. ASSUME NEW d \in BOOLEAN, Mutate(c, d)
        PROVE  StoreGrows
    <2>1. sender[c].id \in Ids
      BY <1>3 DEF Mutate, Doing, EditsOne
    <2>2. Append_(sender[c].id, d) \/ UNCHANGED <<generation, records>>
      BY <1>3 DEF Mutate, Doing
    <2> QED
      BY <2>1, <2>2, AppendGrows, SameStoreGrows
  <1> QED
    BY <1>1, <1>2, <1>3
       DEF CreateFile, CreateSchema, CreatorDies, Told, Get, List, ListNext, ListRead

\* A reader that does nothing still reads its snapshot.
LEMMA OthersRead ==
  ASSUME NEW c, ReadsSnapshot(c), EditsOne(c), StoreType, StoreGrows, sender'[c] = sender[c]
  PROVE  ReadsSnapshot(c)' /\ EditsOne(c)'
  <1>1. EditsOne(c)'
    BY DEF EditsOne, Ids
  <1>2. ASSUME sender[c].pc \in {"lists", "listed"}
        PROVE  ReadsSnapshot(c)'
    <2>1. PICK n \in Nat : n = sender[c].snapshot
      BY <1>2 DEF ReadsSnapshot, Reading
    <2>2. n <= generation /\ n <= generation'
      BY <1>2, <2>1 DEF ReadsSnapshot, StoreGrows, StoreType
    <2>3. Listed(n)' = Listed(n)
      BY <2>1, <2>2 DEF StoreGrows
    <2>4. n = sender'[c].snapshot
      BY <2>1
    <2>5. Listed(sender[c].snapshot)' = Listed(n)'
      BY <2>4
    <2> QED
      BY <1>2, <2>1, <2>2, <2>3, <2>4, <2>5 DEF ReadsSnapshot, Reading, Ids
  <1>3. sender[c].pc \notin {"lists", "listed"} => ReadsSnapshot(c)'
    BY DEF ReadsSnapshot
  <1> QED
    BY <1>1, <1>2, <1>3

\* The page that is given next has no gap with what was read before.
LEMMA PagesHaveNoGap ==
  ASSUME StoreType, NEW n \in Nat, NEW seen \in SUBSET Listed(n), seen # {},
         \A i \in seen : \A j \in Listed(n) : j < i => j \in seen,
         NEW given, given = Page(n, Max(seen))
  PROVE  /\ Max(seen) \in Int
         /\ given \subseteq Listed(n)
         /\ \A i \in seen \union given : \A j \in Listed(n) : j < i => j \in seen \union given
         /\ given = {i \in Listed(n) : i > Max(seen)} => seen \union given = Listed(n)
  <1>1. Listed(n) \subseteq Ids /\ Ids \subseteq Int
    BY DEF Listed, Ids
  <1>2. \E x \in seen : \A y \in seen : x >= y
    BY <1>1, LastOne
  <1>3. Max(seen) \in seen /\ \A y \in seen : Max(seen) >= y
    BY <1>2 DEF Max
  <1>4. PICK m \in Int : m = Max(seen) /\ m \in seen
    BY <1>1, <1>3
  <1>5. given \subseteq Listed(n) /\ \A i \in given : i > m
    BY <1>4 DEF Page
  <1>6. \A j \in Listed(n) : j \in Int /\ (j <= m => j \in seen)
    BY <1>1, <1>4
  <1>7. \A i \in given : \A j \in Listed(n) : j > m /\ j < i => j \in given
    BY <1>4, PageHasNoGap
  <1>8. ASSUME NEW i \in seen \union given, NEW j \in Listed(n), j < i
        PROVE  j \in seen \union given
    <2>1. CASE i \in seen
      BY <1>8, <2>1
    <2>2. CASE i \in given
      BY <1>4, <1>6, <1>7, <1>8, <2>2
    <2> QED
      BY <2>1, <2>2
  <1>9. ASSUME given = {i \in Listed(n) : i > Max(seen)}
        PROVE  seen \union given = Listed(n)
    <2>1. \A j \in Listed(n) : j > m => j \in given
      BY <1>4, <1>9
    <2>2. \A j \in Listed(n) : j \in seen \/ j \in given
      BY <1>6, <2>1
    <2> QED
      BY <1>5, <2>2
  <1> QED
    BY <1>4, <1>5, <1>8, <1>9

\* The first page.
LEMMA ListReads ==
  ASSUME SettingsInvariant, StoreGrows, NEW c \in Senders, List(c)
  PROVE  ReadsSnapshot(c)' /\ EditsOne(c)'
  <1> DEFINE given == Page(generation, 0)
             reply == [pc |-> IF given = Listed(generation) THEN "listed" ELSE "lists",
                        snapshot |-> generation, items |-> given, shown |-> {i \in Ids : Exists(i)}]
  <1>1. generation \in Nat /\ generation' = generation /\ records' = records
    BY DEF SettingsInvariant, StoreType, List
  <1>2. sender'[c] = reply
    BY DEF SettingsInvariant, List, Tells
  <1>3. {i \in Ids : Exists(i)} = Listed(generation)
    BY SnapshotIsAll DEF SettingsInvariant
  <1>4. given \subseteq Listed(generation) /\ Listed(generation) \subseteq Ids
    BY DEF Page, Listed
  <1>5. \A i \in given : \A j \in Listed(generation) : j < i => j \in given
    <2>1. SUFFICES ASSUME NEW i \in given, NEW j \in Listed(generation), j < i
                   PROVE  j \in given
      OBVIOUS
    <2>2. j > 0
      BY <1>4 DEF Ids
    <2> QED
      BY <2>1, <2>2, PageHasNoGap
  <1>6. given # Listed(generation) => given # {}
    <2>1. ASSUME NEW i \in Listed(generation)
          PROVE  given # {}
      <3>1. i > 0
        BY <1>4 DEF Ids
      <3> QED
        BY <3>1, PageHasOne
    <2> QED
      BY <1>4, <2>1
  <1> HIDE DEF given
  <1>7. PICK n \in Nat : n = generation
    BY <1>1
  <1>8. Listed(n)' = Listed(n)
    BY <1>7, <1>1 DEF Listed, LatestUpTo, Ids
  <1>9. /\ reply.pc \in {"lists", "listed"}
        /\ reply.snapshot = n /\ reply.items = given /\ reply.shown = Listed(n)
        /\ reply.pc = "listed" <=> given = Listed(n)
        /\ reply \in [pc : {"lists", "listed"}, snapshot : Nat, items : SUBSET Ids, shown : SUBSET Ids]
    BY <1>3, <1>4, <1>7
  <1> HIDE DEF reply
  <1>10. reply.pc = "lists" => given # {}
    BY <1>6, <1>7, <1>9
  <1>11. sender'[c].snapshot = n
    BY <1>2, <1>9
  <1>12. Listed(sender[c].snapshot)' = Listed(n)
    BY <1>8, <1>11
  <1>13. ReadsSnapshot(c)'
    BY <1>1, <1>2, <1>4, <1>5, <1>7, <1>9, <1>10, <1>11, <1>12 DEF ReadsSnapshot, Reading, Ids
  <1>14. EditsOne(c)'
    BY <1>2, <1>9 DEF EditsOne
  <1> QED
    BY <1>13, <1>14

\* The pages after it.
LEMMA ListNextReads ==
  ASSUME SettingsInvariant, StoreGrows, NEW c \in Senders, ListNext(c)
  PROVE  ReadsSnapshot(c)' /\ EditsOne(c)'
  <1>1. /\ generation \in Nat /\ generation' = generation /\ records' = records
        /\ sender[c].pc = "lists" /\ StoreType /\ ReadsSnapshot(c)
    BY DEF SettingsInvariant, StoreType, ListNext, Doing
  <1>2. PICK me \in Reading : me = sender[c]
    BY <1>1 DEF ReadsSnapshot
  <1>3. PICK n \in Nat : n = me.snapshot
    BY <1>2 DEF Reading
  <1>4. PICK seen : seen = me.items
    OBVIOUS
  <1>5. /\ n <= generation /\ me.shown = Listed(n) /\ me.pc = "lists"
        /\ seen \subseteq Listed(n) /\ seen # {}
        /\ \A i \in seen : \A j \in Listed(n) : j < i => j \in seen
    BY <1>1, <1>2, <1>3, <1>4 DEF ReadsSnapshot
  <1>6. PICK given : given = Page(n, Max(seen))
    OBVIOUS
  <1>7. /\ given \subseteq Listed(n)
        /\ \A i \in seen \union given : \A j \in Listed(n) : j < i => j \in seen \union given
        /\ given = {i \in Listed(n) : i > Max(seen)} => seen \union given = Listed(n)
    BY <1>1, <1>5, <1>6, PagesHaveNoGap
  <1>8. PICK pc \in {"lists", "listed"} :
           pc = IF given = {i \in Listed(n) : i > Max(seen)} THEN "listed" ELSE me.pc
    BY <1>5
  <1>9. sender'[c] = [me EXCEPT !.items = seen \union given, !.pc = pc]
    BY <1>2, <1>3, <1>4, <1>5, <1>6, <1>8 DEF SettingsInvariant, ListNext, Doing, Tells
  <1>10. PICK new : new = [me EXCEPT !.items = seen \union given, !.pc = pc]
    OBVIOUS
  <1>11. seen \union given \in SUBSET Ids
    BY <1>5, <1>7 DEF Listed
  <1>12. /\ new \in Reading /\ new.pc = pc /\ new.items = seen \union given
         /\ new.snapshot = n /\ new.shown = Listed(n)
    BY ONLY <1>10, <1>11, <1>3, <1>5, me \in Reading, pc \in {"lists", "listed"} DEF Reading
  <1>13. pc = "listed" => seen \union given = Listed(n)
    BY <1>5, <1>7, <1>8
  <1>14. Listed(n)' = Listed(n)
    BY <1>1 DEF Listed, LatestUpTo, Ids
  <1>15. sender'[c] = new
    BY <1>9, <1>10
  <1>16. Listed(sender[c].snapshot)' = Listed(n)
    BY <1>12, <1>14, <1>15
  <1>17. ReadsSnapshot(c)'
    BY <1>1, <1>5, <1>7, <1>12, <1>13, <1>15, <1>16 DEF ReadsSnapshot, Reading, Ids
  <1>18. EditsOne(c)'
    BY <1>8, <1>12, <1>15 DEF EditsOne
  <1> QED
    BY <1>17, <1>18

LEMMA SettingsStep ==
  ASSUME SettingsInvariant, [SettingsNext]_settingsVars
  PROVE  SettingsInvariant'
  <1>1. CASE UNCHANGED settingsVars
    BY <1>1 DEF settingsVars, SettingsInvariant, StoreType, ReadsSnapshot, EditsOne, Reading,
                Listed, LatestUpTo, Ids
  <1>2. ASSUME NEW c \in Senders,
               \/ CreateFile(c)
               \/ CreateSchema(c)
               \/ CreatorDies(c)
               \/ \E k \in PostKeys, b \in PostBodies, i \in Ids : Post(c, k, b, i)
               \/ Told(c)
               \/ \E i \in Ids : Get(c, i)
               \/ \E d \in BOOLEAN : Mutate(c, d)
               \/ List(c)
               \/ ListNext(c)
               \/ ListRead(c)
        PROVE  SettingsInvariant'
    <2>1. StoreGrows
      BY <1>2, RequestsGrowStore
    <2>2. PICK reply : sender' = [sender EXCEPT ![c] = reply]
      BY <1>2 DEF CreateFile, CreateSchema, CreatorDies, Post, Told, Get, Mutate, List, ListNext,
                  ListRead, Tells
    <2>3. sender' = [d \in Senders |-> sender'[d]] /\ \A d \in Senders \ {c} : sender'[d] = sender[d]
      BY <2>2 DEF SettingsInvariant
    <2>4. ASSUME NEW d \in Senders, d # c
          PROVE  ReadsSnapshot(d)' /\ EditsOne(d)'
      BY <2>1, <2>3, <2>4, OthersRead DEF SettingsInvariant
    <2>5. ReadsSnapshot(c)' /\ EditsOne(c)'
      <3>1. CASE List(c)
        BY <2>1, <3>1, ListReads
      <3>2. CASE ListNext(c)
        BY <2>1, <3>2, ListNextReads
      <3>3. ASSUME sender'[c].pc \notin {"lists", "listed", "edits"}
            PROVE  ReadsSnapshot(c)' /\ EditsOne(c)'
        BY <3>3 DEF ReadsSnapshot, EditsOne
      <3>4. ASSUME NEW i \in Ids, Get(c, i)
            PROVE  ReadsSnapshot(c)' /\ EditsOne(c)'
        <4>1. sender'[c].pc = "edits" /\ sender'[c].id = i
          BY <3>4 DEF SettingsInvariant, Get, Tells
        <4> QED
          BY <4>1 DEF ReadsSnapshot, EditsOne, Ids
      <3>5. ASSUME \/ CreateFile(c)
                   \/ CreateSchema(c) \/ CreatorDies(c) \/ Told(c) \/ ListRead(c)
                   \/ \E d \in BOOLEAN : Mutate(c, d)
            PROVE  sender'[c].pc \notin {"lists", "listed", "edits"}
        BY <3>5 DEF SettingsInvariant, CreateFile, CreateSchema, CreatorDies, Told, ListRead, Mutate,
                    Tells, NoCall
      <3>6. ASSUME NEW k \in PostKeys, NEW b \in PostBodies, NEW i \in Ids, Post(c, k, b, i)
            PROVE  sender'[c].pc \notin {"lists", "listed", "edits"}
        <4>1. \E id : Tells(c, [pc |-> "told", key |-> k, body |-> b, id |-> id])
          BY <3>6 DEF Post
        <4>2. PICK id : sender' = [sender EXCEPT ![c] = [pc |-> "told", key |-> k, body |-> b, id |-> id]]
          BY <4>1 DEF Tells
        <4>3. sender'[c] = [pc |-> "told", key |-> k, body |-> b, id |-> id]
          BY <4>2 DEF SettingsInvariant
        <4> QED
          BY <4>3
      <3> QED
        BY <1>2, <3>1, <3>2, <3>3, <3>4, <3>5, <3>6
    <2>6. \A d \in Senders : ReadsSnapshot(d)' /\ EditsOne(d)'
      BY <2>4, <2>5
    <2> QED
      BY <2>1, <2>3, <2>6 DEF SettingsInvariant, StoreGrows
  <1> QED
    BY <1>1, <1>2 DEF SettingsNext

\* A listing of several pages is what existed at its first page, for any number of
\* identifiers and senders, any page size and any writes in between
\* (repository.py:242 list).
THEOREM ListingsAreSnapshots == SettingsSpec => []ListIsASnapshot
  <1>1. SettingsInit => SettingsInvariant
    <2>1. \A i \in Ids : <<>> \in Seq(Revision) /\ DOMAIN <<>> = {}
      OBVIOUS
    <2> QED
      BY <2>1 DEF SettingsInit, SettingsInvariant, StoreType, ReadsSnapshot, EditsOne, NoCall
  <1>2. SettingsInvariant /\ [SettingsNext]_settingsVars => SettingsInvariant'
    BY SettingsStep
  <1>3. SettingsInvariant => ListIsASnapshot
    BY DEF SettingsInvariant, ReadsSnapshot, ListIsASnapshot, Doing
  <1> QED
    BY <1>1, <1>2, <1>3, PTL DEF SettingsSpec

----------------------------------------------------------------------------
(* The directory when one process works at a time. *)

Cfgs == {l.cfg : l \in Launches}

Values == {Hashed(c, s) : c \in Cfgs, s \in Stage} \union {Used(c, s) : c \in Cfgs, s \in Stage}

\* Functions of some of the stages: hashes and results.
OfStages == UNION {[D -> Values] : D \in SUBSET Stage}

StageRecords ==
  [status : {"pending", "running", "done", "failed"}, hash : OfStages \union {NoHash}]

Manifests == [Stage -> StageRecords]
Artifacts == [Stage -> OfStages \union {Missing}]

Kinds == {"run", "export", "clean"}

ToLock == {"lock", "create", "owner", "unlink"}
InStage == {"stage", "work", "wrote", "saved"}
Pcs == {"open", "opened", "rmtree", "exported", "release", "locked"} \union ToLock \union InStage

Running ==
  [pc : Pcs, kind : Kinds, cfg : Cfgs, force : BOOLEAN, at : 1..5, tries : 0..1,
   man : Manifests \union {NoManifest}, mem : Artifacts,
   outcome : {"none", "ok", "failed", "cancelled"}]

DirectoryTypes ==
  /\ manifest \in Manifests \union {NoManifest}
  /\ artifact \in Artifacts
  /\ lock = NoLock \/ lock \in [by : Procs, pid : Procs \union {NoPid}]
  /\ proc = [p \in Procs |-> proc[p]]
  /\ \A p \in Procs : Alive(p) => proc[p] \in Running
  /\ \A p, q \in Procs : Alive(p) /\ Alive(q) => p = q

\* The lock is of the process that works, or of a dead one.
LockOf(p) ==
  /\ proc[p].pc = "locked out" => proc[p].by \in Reused
  /\ proc[p].pc \in {"absent", "open", "opened", "rmtree"} \union ToLock
       => lock = NoLock \/ lock.pid # p
  /\ proc[p].pc = "lock" => proc[p].tries = 0 \/ lock = NoLock
  /\ proc[p].pc \in {"open", "opened", "owner", "unlink"} => proc[p].tries = 0
  /\ proc[p].pc = "create" => lock # NoLock /\ lock.by = p
  /\ proc[p].pc \in {"locked", "exported", "release"} \union InStage
       => lock # NoLock /\ lock.pid = p

\* What the process has in memory of the manifest.
MemoryOf(p) ==
  /\ proc[p].pc \in {"open", "opened", "locked"} \union ToLock => proc[p].at = 1
  /\ proc[p].pc = "opened" =>
       /\ proc[p].kind = "run"
       /\ proc[p].man = IF manifest = NoManifest THEN [s \in Stage |-> Unrecorded] ELSE Loaded(manifest)
  /\ proc[p].pc \in ToLock \union {"locked"} =>
       /\ proc[p].kind \in {"run", "export"}
       /\ manifest # NoManifest
       /\ proc[p].man = IF proc[p].kind = "run" THEN manifest ELSE Loaded(manifest)
  /\ proc[p].pc \in InStage => proc[p].kind = "run" /\ manifest # NoManifest /\ proc[p].man = manifest
  /\ proc[p].pc = "exported" =>
       /\ proc[p].kind = "export" /\ manifest # NoManifest /\ proc[p].man = Loaded(manifest)
  /\ proc[p].pc = "rmtree" => proc[p].kind = "clean"

Domain(s) == Upstream(s) \union {s}

\* A result is what its hash says.
MadeAs(h, a, s) ==
  /\ DOMAIN a = Domain(s)
  /\ \A d \in Domain(s) : \E c \in Cfgs : h[d] = Hashed(c, d) /\ a[d] = Used(c, d)

\* An export that is done again, or was killed: the outputs may not be the recorded ones.
OutputsUnsure == \E p \in Procs : proc[p].pc \in {"exported", "killed"} /\ proc[p].kind = "export"

DoneIn(m, s) == m[s].status = "done"
DoneUpTo(m, s) == \A d \in Domain(s) : DoneIn(m, d)

HashesAgree(m) ==
  \A s \in Stage : DoneUpTo(m, s) =>
    /\ DOMAIN m[s].hash = Domain(s)
    /\ \A d \in Upstream(s) : \A e \in Domain(d) : m[d].hash[e] = m[s].hash[e]

ResultsAgree(m) ==
  \A s \in Stage :
    DoneUpTo(m, s) /\ artifact[s] # Missing /\ (s = "export" => ~OutputsUnsure)
      => MadeAs(m[s].hash, artifact[s], s)

ManifestIsTrue == manifest # NoManifest => HashesAgree(manifest) /\ ResultsAgree(manifest)

\* A stage that is not reached: it starts from nothing, or will be reused.
Ready(m, a, c, s) ==
  \/ m[s] = Unrecorded
  \/ /\ m[s] = Record("done", Hash(c, s)) /\ a[s] # Missing
     /\ \A d \in Upstream(s) : DoneIn(m, d)

Passed(n) == {STAGES[i] : i \in 1..(n - 1)}

\* The stages that are passed are of these settings, the others are ready, the one it
\* is in is recorded as running.
StagesOf(m, a, me) ==
  LET c == me.cfg  this == STAGES[me.at] IN
  /\ \A s \in Passed(me.at) :
       /\ m[s] = Record("done", Hash(c, s))
       /\ me.mem[s] = Produced(c, s) /\ a[s] = Produced(c, s)
  /\ \A s \in Stage \ (Passed(me.at) \union {this}) : Ready(m, a, c, s)
  /\ me.pc = "stage" => Ready(m, a, c, this)
  /\ me.pc \in {"work", "wrote"} => m[this] = Record("running", Hash(c, this))
  /\ me.pc = "saved" => m[this] = Record("done", Hash(c, this))
  /\ me.pc \in {"wrote", "saved"} => a[this] = Produced(c, this) /\ me.mem[this] = Produced(c, this)

RunOf(p) ==
  /\ proc[p].pc \in InStage => StagesOf(manifest, artifact, proc[p])
  /\ proc[p].pc = "release" /\ proc[p].kind = "run" /\ proc[p].outcome = "ok" =>
       /\ artifact["merge"] = Produced(proc[p].cfg, "merge")
       /\ artifact["export"] = Produced(proc[p].cfg, "export") \/ OutputsMayDiffer
  /\ proc[p].pc = "exported" =>
       /\ artifact["merge"] # Missing
       /\ artifact["export"] = Upon("export", proc[p].cfg.out, artifact["merge"])

ProcessIsRight(p) == LockOf(p) /\ MemoryOf(p) /\ RunOf(p)

DirectoryInvariant ==
  DirectoryTypes /\ ManifestIsTrue /\ \A p \in Procs : ProcessIsRight(p)

----------------------------------------------------------------------------
(* Stages, hashes and results. *)

LEMMA FiveStages ==
  /\ Stage = {"audio", "asr", "diarization", "merge", "export"}
  /\ Upstream("audio") = {}
  /\ Upstream("asr") = {"audio"} /\ Upstream("diarization") = {"audio"}
  /\ Upstream("merge") = {"audio", "asr", "diarization"}
  /\ Upstream("export") = {"audio", "asr", "diarization", "merge"}
  <1>1. DOMAIN STAGES = 1..5 /\ 1..5 = {1, 2, 3, 4, 5}
    BY DEF STAGES
  <1>2. /\ STAGES[1] = "audio" /\ STAGES[2] = "asr" /\ STAGES[3] = "diarization"
        /\ STAGES[4] = "merge" /\ STAGES[5] = "export"
    BY DEF STAGES
  <1>3. Stage = {"audio", "asr", "diarization", "merge", "export"}
    BY <1>1, <1>2 DEF Stage
  <1> QED
    BY <1>3 DEF Upstream, DEPENDENTS

LEMMA UpstreamIsBefore ==
  ASSUME NEW s \in Stage
  PROVE  /\ Upstream(s) \subseteq Stage /\ Domain(s) \subseteq Stage
         /\ s \notin Upstream(s) /\ s \in Domain(s) /\ Upstream(s) \subseteq Domain(s)
         /\ \A d \in Upstream(s) : Domain(d) \subseteq Upstream(s)
  <1> USE FiveStages
  <1>1. CASE s = "audio"
    BY <1>1 DEF Domain
  <1>2. CASE s = "asr"
    BY <1>2 DEF Domain
  <1>3. CASE s = "diarization"
    BY <1>3 DEF Domain
  <1>4. CASE s = "merge"
    BY <1>4 DEF Domain
  <1>5. CASE s = "export"
    BY <1>5 DEF Domain
  <1> QED
    BY <1>1, <1>2, <1>3, <1>4, <1>5

LEMMA DependentsAreAfter ==
  ASSUME NEW s \in Stage, NEW d \in Stage
  PROVE  d \in DEPENDENTS[s] <=> s \in Upstream(d)
  BY DEF Upstream

\* What is passed is before, and what is upstream was passed.
LEMMA PassedIsBefore ==
  ASSUME NEW n \in 1..5
  PROVE  /\ STAGES[n] \in Stage /\ STAGES[n] \notin Passed(n) /\ Passed(n) \subseteq Stage
         /\ Upstream(STAGES[n]) \subseteq Passed(n)
         /\ \A s \in Passed(n) : STAGES[n] \notin Upstream(s) /\ Upstream(s) \subseteq Passed(n)
         /\ n < 5 => Passed(n + 1) = Passed(n) \union {STAGES[n]} /\ "export" # STAGES[n]
         /\ n = 5 => STAGES[n] = "export" /\ "merge" \in Passed(n)
         /\ "export" \notin Passed(n)
         /\ Len(STAGES) = 5
  <1>1. /\ STAGES[1] = "audio" /\ STAGES[2] = "asr" /\ STAGES[3] = "diarization"
        /\ STAGES[4] = "merge" /\ STAGES[5] = "export" /\ Len(STAGES) = 5
    BY DEF STAGES
  <1>2. /\ Passed(1) = {} /\ Passed(2) = {"audio"} /\ Passed(3) = {"audio", "asr"}
        /\ Passed(4) = {"audio", "asr", "diarization"}
        /\ Passed(5) = {"audio", "asr", "diarization", "merge"}
    <2>1. Passed(1) = {STAGES[i] : i \in {}}
      BY DEF Passed
    <2>2. 1..1 = {1} /\ 1..2 = {1, 2} /\ 1..3 = {1, 2, 3} /\ 1..4 = {1, 2, 3, 4}
      OBVIOUS
    <2> QED
      BY <1>1, <2>1, <2>2 DEF Passed
  <1> USE FiveStages
  <1>3. CASE n = 1
    BY <1>1, <1>2, <1>3
  <1>4. CASE n = 2
    BY <1>1, <1>2, <1>4
  <1>5. CASE n = 3
    BY <1>1, <1>2, <1>5
  <1>6. CASE n = 4
    BY <1>1, <1>2, <1>6
  <1>7. CASE n = 5
    BY <1>1, <1>2, <1>7
  <1> QED
    BY <1>3, <1>4, <1>5, <1>6, <1>7

LEMMA HashesAreOfStages ==
  ASSUME NEW c \in Cfgs, NEW s \in Stage
  PROVE  /\ Hash(c, s) \in OfStages /\ Produced(c, s) \in OfStages
         /\ Hash(c, s) = [d \in Domain(s) |-> Hashed(c, d)]
         /\ Produced(c, s) = [d \in Domain(s) |-> Used(c, d)]
         /\ MadeAs(Hash(c, s), Produced(c, s), s)
  <1>1. Domain(s) \in SUBSET Stage
    BY UpstreamIsBefore
  <1>2. \A d \in Domain(s) : Hashed(c, d) \in Values /\ Used(c, d) \in Values
    BY <1>1 DEF Values
  <1>3. /\ Hash(c, s) = [d \in Domain(s) |-> Hashed(c, d)]
        /\ Produced(c, s) = [d \in Domain(s) |-> Used(c, d)]
    BY DEF Hash, Produced, Domain
  <1>4. Hash(c, s) \in [Domain(s) -> Values] /\ Produced(c, s) \in [Domain(s) -> Values]
    BY <1>2, <1>3
  <1>5. Hash(c, s) \in OfStages /\ Produced(c, s) \in OfStages
    BY <1>1, <1>4 DEF OfStages
  <1>6. MadeAs(Hash(c, s), Produced(c, s), s)
    BY <1>3 DEF MadeAs
  <1> QED
    BY <1>3, <1>5, <1>6

\* Something that a stage made is there.
LEMMA MadeIsNotMissing ==
  ASSUME NEW a \in OfStages
  PROVE  a # Missing
  <1>1. PICK D \in SUBSET Stage : a \in [D -> Values]
    BY DEF OfStages
  <1>2. DOMAIN a \subseteq Stage
    BY <1>1
  <1>3. "none" \notin Stage
    BY FiveStages
  <1>4. DOMAIN Missing = {"none"}
    BY DEF Missing
  <1> QED
    BY <1>2, <1>3, <1>4

\* A result whose hash is of the settings is what they produce.
LEMMA HashTellsResult ==
  ASSUME HashTellsUse, NEW c \in Cfgs, NEW s \in Stage, NEW a \in OfStages,
         MadeAs(Hash(c, s), a, s)
  PROVE  a = Produced(c, s)
  <1>1. a = [d \in Domain(s) |-> a[d]]
    BY DEF OfStages, MadeAs
  <1>2. ASSUME NEW d \in Domain(s)
        PROVE  a[d] = Used(c, d)
    <2>1. d \in Stage
      BY UpstreamIsBefore
    <2>2. PICK e \in Cfgs : Hash(c, s)[d] = Hashed(e, d) /\ a[d] = Used(e, d)
      BY DEF MadeAs
    <2>3. Hash(c, s)[d] = Hashed(c, d)
      BY HashesAreOfStages
    <2>4. PICK l \in Launches, m \in Launches : c = l.cfg /\ e = m.cfg
      BY DEF Cfgs
    <2> QED
      BY <2>1, <2>2, <2>3, <2>4 DEF HashTellsUse
  <1>3. Produced(c, s) = [d \in Domain(s) |-> Used(c, d)]
    BY HashesAreOfStages
  <1> QED
    BY <1>1, <1>2, <1>3

\* A stage makes what the settings produce if the stages before it did.
LEMMA StageProduces ==
  ASSUME NEW c \in Cfgs, NEW s \in Stage, NEW mem, NEW audio,
         \A d \in Upstream(s) : mem[d] = Produced(c, d),
         "audio" \in Upstream(s) => audio = Produced(c, "audio")
  PROVE  Result(c, s, mem, audio) = Produced(c, s)
  <1> USE FiveStages
  <1>1. \A d \in Stage : Produced(c, d) = [e \in Domain(d) |-> Used(c, e)]
    BY HashesAreOfStages
  <1>2. CASE s = "audio"
    <2>1. Result(c, s, mem, audio) = Upon(s, Used(c, s), <<>>)
      BY <1>2 DEF Result
    <2>2. DOMAIN <<>> = {}
      OBVIOUS
    <2>3. Upon(s, Used(c, s), <<>>) = [d \in {s} |-> Used(c, d)]
      BY <2>2 DEF Upon
    <2> QED
      BY <1>1, <1>2, <2>1, <2>3 DEF Domain
  <1>3. CASE s \in {"asr", "diarization"}
    <2>1. Result(c, s, mem, audio) = Upon(s, Used(c, s), audio)
      BY <1>3 DEF Result
    <2>2. audio = [e \in {"audio"} |-> Used(c, e)]
      BY <1>1, <1>3 DEF Domain
    <2>3. Upon(s, Used(c, s), audio) = [d \in {"audio", s} |-> Used(c, d)]
      BY <1>3, <2>2 DEF Upon
    <2> QED
      BY <1>1, <1>3, <2>1, <2>3 DEF Domain
  <1>4. CASE s = "merge"
    <2>1. Result(c, s, mem, audio) = Upon(s, Used(c, s), Both(mem["asr"], mem["diarization"]))
      BY <1>4 DEF Result
    <2>2. /\ mem["asr"] = [e \in {"audio", "asr"} |-> Used(c, e)]
          /\ mem["diarization"] = [e \in {"audio", "diarization"} |-> Used(c, e)]
      BY <1>1, <1>4 DEF Domain
    <2>3. Both(mem["asr"], mem["diarization"])
            = [e \in {"audio", "asr", "diarization"} |-> Used(c, e)]
      BY <2>2 DEF Both
    <2>4. Upon(s, Used(c, s), Both(mem["asr"], mem["diarization"]))
            = [e \in {"audio", "asr", "diarization", "merge"} |-> Used(c, e)]
      BY <1>4, <2>3 DEF Upon
    <2> QED
      BY <1>1, <1>4, <2>1, <2>4 DEF Domain
  <1>5. CASE s = "export"
    <2>1. Result(c, s, mem, audio) = Upon(s, Used(c, s), mem["merge"])
      BY <1>5 DEF Result
    <2>2. mem["merge"] = [e \in {"audio", "asr", "diarization", "merge"} |-> Used(c, e)]
      BY <1>1, <1>5 DEF Domain
    <2>3. Upon(s, Used(c, s), mem["merge"])
            = [e \in {"audio", "asr", "diarization", "merge", "export"} |-> Used(c, e)]
      BY <1>5, <2>2 DEF Upon
    <2> QED
      BY <1>1, <1>5, <2>1, <2>3 DEF Domain
  <1> QED
    BY <1>2, <1>3, <1>4, <1>5

\* What an export makes of a merge, and of the hash of one.
LEMMA ExportIsOfStages ==
  ASSUME NEW c \in Cfgs, NEW f \in OfStages \union {NoHash}
  PROVE  Upon("export", c.out, f) \in OfStages
  <1>1. "export" \in Stage /\ Hashed(c, "export") = c.out
    BY FiveStages DEF Hashed
  <1>2. c.out \in Values
    BY <1>1 DEF Values
  <1>3. PICK D \in SUBSET Stage : f \in [D -> Values]
    <2>1. CASE f \in OfStages
      BY <2>1 DEF OfStages
    <2>2. CASE f = NoHash
      <3>1. NoHash \in [{} -> Values]
        BY DEF NoHash
      <3> QED
        BY <2>2, <3>1
    <2> QED
      BY <2>1, <2>2
  <1>4. {"export"} \union D \in SUBSET Stage
    BY <1>1
  <1>5. Upon("export", c.out, f) \in [{"export"} \union D -> Values]
    BY <1>2, <1>3 DEF Upon
  <1> QED
    BY <1>4, <1>5 DEF OfStages

----------------------------------------------------------------------------
(* The manifest. *)

\* A manifest that records no more than one that was true, of results that are the same,
\* gone or unsure, is true.
LEMMA LessStaysTrue ==
  ASSUME NEW m, NEW n, HashesAgree(m), ResultsAgree(m),
         \A s \in Stage : DoneIn(n, s) => n[s] = m[s],
         OutputsUnsure => OutputsUnsure',
         \A s \in Stage : DoneUpTo(n, s) =>
            \/ artifact'[s] = artifact[s]
            \/ artifact'[s] = Missing
            \/ s = "export" /\ OutputsUnsure'
  PROVE  HashesAgree(n) /\ ResultsAgree(n)'
  <1>1. ASSUME NEW s \in Stage, DoneUpTo(n, s)
        PROVE  DoneUpTo(m, s) /\ \A d \in Domain(s) : n[d] = m[d]
    BY <1>1, UpstreamIsBefore DEF DoneUpTo, DoneIn
  <1>2. HashesAgree(n)
    BY <1>1, UpstreamIsBefore DEF HashesAgree
  <1>3. ASSUME NEW s \in Stage, DoneUpTo(n, s), artifact'[s] # Missing,
               s = "export" => ~OutputsUnsure'
        PROVE  MadeAs(n[s].hash, artifact'[s], s)
    <2>1. artifact'[s] = artifact[s]
      BY <1>3
    <2>2. DoneUpTo(m, s) /\ n[s] = m[s]
      BY <1>1, <1>3, UpstreamIsBefore
    <2>3. s = "export" => ~OutputsUnsure
      BY <1>3
    <2> QED
      BY <1>3, <2>1, <2>2, <2>3 DEF ResultsAgree
  <1>4. ResultsAgree(n)' <=>
          \A s \in Stage :
            DoneUpTo(n, s) /\ artifact'[s] # Missing /\ (s = "export" => ~OutputsUnsure')
              => MadeAs(n[s].hash, artifact'[s], s)
    BY DEF ResultsAgree, DoneUpTo, DoneIn, MadeAs, Domain, Upstream, Stage, Cfgs
  <1> QED
    BY <1>2, <1>3, <1>4

LEMMA LoadedIsTheSame ==
  ASSUME NEW m \in Manifests
  PROVE  /\ Loaded(m) \in Manifests
         /\ \A s \in Stage : (DoneIn(Loaded(m), s) <=> DoneIn(m, s))
                             /\ (DoneIn(m, s) => Loaded(m)[s] = m[s])
  <1>1. \A s \in Stage : m[s] \in StageRecords
    BY DEF Manifests
  <1>2. ASSUME NEW s \in Stage
        PROVE  /\ Loaded(m)[s] \in StageRecords
               /\ Loaded(m)[s].status = "done" <=> m[s].status = "done"
               /\ m[s].status = "done" => Loaded(m)[s] = m[s]
    <2>1. PICK r \in StageRecords : r = m[s]
      BY <1>1
    <2>2. Loaded(m)[s] = IF r.status = "running" THEN [r EXCEPT !.status = "pending"] ELSE r
      BY <2>1 DEF Loaded
    <2>3. [r EXCEPT !.status = "pending"] \in StageRecords /\ [r EXCEPT !.status = "pending"].status = "pending"
      BY ONLY r \in StageRecords DEF StageRecords
    <2> QED
      BY <2>1, <2>2, <2>3
  <1>3. Loaded(m) = [s \in Stage |-> Loaded(m)[s]]
    BY DEF Loaded
  <1>4. Loaded(m) \in Manifests
    BY <1>2, <1>3 DEF Manifests
  <1> QED
    BY <1>2, <1>4 DEF DoneIn

LEMMA ManifestIsNotMissing ==
  ASSUME NEW m \in Manifests
  PROVE  m # NoManifest
  <1>1. DOMAIN m = Stage /\ DOMAIN NoManifest = {"none"}
    BY DEF Manifests, NoManifest
  <1>2. "audio" \in Stage /\ "audio" # "none"
    BY FiveStages
  <1> QED
    BY <1>1, <1>2

LEMMA RecordsAreRecords ==
  /\ Unrecorded \in StageRecords /\ Unrecorded.status = "pending"
  /\ \A h \in OfStages : \A x \in {"running", "done", "failed"} :
        Record(x, h) \in StageRecords /\ Record(x, h).status = x /\ Record(x, h).hash = h
  BY DEF Unrecorded, Record, StageRecords

\* Nothing is recorded of a directory without a manifest.
LEMMA NewManifest ==
  /\ [s \in Stage |-> Unrecorded] \in Manifests
  /\ \A s \in Stage : ~DoneIn([t \in Stage |-> Unrecorded], s)
  BY RecordsAreRecords DEF Manifests, DoneIn

\* The lock is not nothing.
LEMMA LockIsNotMissing ==
  ASSUME NEW k \in [by : Procs, pid : Procs \union {NoPid}]
  PROVE  k # NoLock
  <1>1. DOMAIN k = {"by", "pid"} /\ DOMAIN NoLock = {"none"}
    BY DEF NoLock
  <1> QED
    BY <1>1

----------------------------------------------------------------------------
(* A step of one process leaves the others right: they are gone. *)

LEMMA OneActs ==
  ASSUME DirectoryInvariant, NEW p \in Procs,
         \A q \in Procs : Alive(q) => q = p,
         NEW new, proc' = [proc EXCEPT ![p] = new],
         new.pc \notin Gone => new \in Running,
         manifest' \in Manifests \union {NoManifest},
         artifact' \in Artifacts,
         lock' = lock \/ lock' = NoLock
           \/ (lock' \in [by : Procs, pid : Procs \union {NoPid}] /\ lock'.pid \in {p, NoPid}),
         ManifestIsTrue',
         ProcessIsRight(p)'
  PROVE  DirectoryInvariant'
  <1> USE DEF DirectoryInvariant
  <1>1. /\ proc = [q \in Procs |-> proc[q]]
        /\ proc'[p] = new /\ \A q \in Procs \ {p} : proc'[q] = proc[q]
        /\ proc' = [q \in Procs |-> proc'[q]]
    BY DEF DirectoryTypes
  <1>2. \A q \in Procs : Alive(q)' => q = p
    BY <1>1 DEF Alive
  <1>3. lock' = NoLock \/ lock' \in [by : Procs, pid : Procs \union {NoPid}]
    BY DEF DirectoryTypes
  <1>4. DirectoryTypes'
    <2>1. \A q \in Procs : Alive(q)' => proc'[q] \in Running
      BY <1>1, <1>2 DEF Alive
    <2>2. \A q, r \in Procs : Alive(q)' /\ Alive(r)' => q = r
      BY <1>2
    <2> QED
      BY <1>1, <1>3, <2>1, <2>2 DEF DirectoryTypes
  <1>5. ASSUME NEW q \in Procs, q # p
        PROVE  ProcessIsRight(q)'
    <2>1. proc'[q].pc \in Gone /\ proc'[q].pc = proc[q].pc
      BY <1>1, <1>2, <1>5 DEF Alive
    <2>2. /\ proc[q].pc = "locked out" => proc[q].by \in Reused
          /\ proc[q].pc = "absent" => lock = NoLock \/ lock.pid # q
      BY DEF ProcessIsRight, LockOf
    <2>3. proc[q].pc = "absent" => lock' = NoLock \/ lock'.pid # q
      BY <1>5, <2>2, DirectoryAssumption DEF DirectoryAssumption
    <2>4. LockOf(q)'
      BY <1>1, <1>5, <2>1, <2>2, <2>3 DEF LockOf, Gone, ToLock, InStage
    <2>5. MemoryOf(q)' /\ RunOf(q)'
      BY <2>1 DEF MemoryOf, RunOf, Gone, ToLock, InStage
    <2> QED
      BY <2>4, <2>5 DEF ProcessIsRight
  <1> QED
    BY <1>4, <1>5

----------------------------------------------------------------------------
(* Steps that leave the manifest and the results alone. *)

LEMMA TheOneAlive ==
  ASSUME DirectoryInvariant, NEW p \in Procs, Alive(p)
  PROVE  /\ proc[p] \in Running /\ \A q \in Procs : Alive(q) => q = p
         /\ manifest \in Manifests \union {NoManifest} /\ artifact \in Artifacts
         /\ lock = NoLock \/ lock \in [by : Procs, pid : Procs \union {NoPid}]
         /\ proc = [q \in Procs |-> proc[q]]
         /\ LockOf(p) /\ MemoryOf(p) /\ RunOf(p)
  BY DEF DirectoryInvariant, DirectoryTypes, ProcessIsRight

LEMMA WhoseManifest ==
  ASSUME NEW n, n = manifest', HashesAgree(n), ResultsAgree(n)'
  PROVE  ManifestIsTrue'
  <1>1. HashesAgree(manifest)'
    BY DEF HashesAgree, DoneUpTo, DoneIn, Domain, Upstream, Stage
  <1>2. ResultsAgree(manifest)'
    BY DEF ResultsAgree, DoneUpTo, DoneIn, MadeAs, Domain, Upstream, Stage, Cfgs
  <1> QED
    BY <1>1, <1>2 DEF ManifestIsTrue

LEMMA UnsureStays ==
  ASSUME NEW p \in Procs, Alive(p), proc = [q \in Procs |-> proc[q]],
         NEW new, proc' = [proc EXCEPT ![p] = new],
         proc[p].pc = "exported" => new.pc \in {"exported", "killed"} /\ new.kind = proc[p].kind
  PROVE  OutputsUnsure => OutputsUnsure'
  <1>1. proc'[p] = new /\ \A q \in Procs \ {p} : proc'[q] = proc[q]
    OBVIOUS
  <1>2. proc[p].pc # "killed"
    BY DEF Alive, Gone
  <1> QED
    BY <1>1, <1>2 DEF OutputsUnsure

LEMMA DirectoryStays ==
  ASSUME ManifestIsTrue, UNCHANGED <<manifest, artifact>>, OutputsUnsure => OutputsUnsure'
  PROVE  ManifestIsTrue'
  <1>1. PICK n : n = manifest
    OBVIOUS
  <1>2. CASE n = NoManifest
    BY <1>1, <1>2 DEF ManifestIsTrue
  <1>3. CASE n # NoManifest
    <2>1. HashesAgree(n) /\ ResultsAgree(n)
      BY <1>1, <1>3 DEF ManifestIsTrue
    <2>2. HashesAgree(n) /\ ResultsAgree(n)'
      BY <2>1, LessStaysTrue
    <2> QED
      BY <1>1, <2>2, WhoseManifest
  <1> QED
    BY <1>2, <1>3

\* A process that ends.
LEMMA EndsRight ==
  ASSUME DirectoryInvariant, NEW p \in Procs, Alive(p), NEW how \in {"ended", "killed"}, Ended(p, how),
         UNCHANGED <<manifest, artifact>>, lock' = lock \/ lock' = NoLock,
         how = "killed" \/ proc[p].pc # "exported"
  PROVE  DirectoryInvariant'
  <1> DEFINE new == [pc |-> how, kind |-> proc[p].kind]
  <1>1. proc' = [proc EXCEPT ![p] = new] /\ new.pc = how /\ new.kind = proc[p].kind
    BY DEF Ended, SetProcess, Self
  <1> HIDE DEF new
  <1>2. new.pc \in Gone
    BY <1>1 DEF Gone
  <1>3. ManifestIsTrue'
    BY <1>1, TheOneAlive, UnsureStays, DirectoryStays DEF DirectoryInvariant
  <1>4. proc'[p] = new
    BY <1>1, TheOneAlive
  <1>5. ProcessIsRight(p)'
    BY <1>1, <1>4 DEF ProcessIsRight, LockOf, MemoryOf, RunOf, ToLock, InStage
  <1> QED
    BY <1>1, <1>2, <1>3, <1>5, TheOneAlive, OneActs

LEMMA KillKeepsRight ==
  ASSUME DirectoryInvariant, NEW p \in Procs, KillProcess(p)
  PROVE  DirectoryInvariant'
  BY EndsRight DEF KillProcess

\* A process that goes on.
LEMMA GoesOn ==
  ASSUME DirectoryInvariant, NEW p \in Procs, Alive(p), proc[p].pc # "exported",
         NEW new \in Running, proc' = [proc EXCEPT ![p] = new],
         UNCHANGED <<manifest, artifact>>,
         lock' = lock \/ lock' = NoLock
           \/ (lock' \in [by : Procs, pid : Procs \union {NoPid}] /\ lock'.pid \in {p, NoPid}),
         proc'[p] = new => LockOf(p)' /\ MemoryOf(p)' /\ RunOf(p)'
  PROVE  DirectoryInvariant'
  <1>1. ManifestIsTrue'
    BY TheOneAlive, UnsureStays, DirectoryStays DEF DirectoryInvariant
  <1>2. proc'[p] = new
    BY TheOneAlive
  <1>3. ProcessIsRight(p)'
    BY <1>2 DEF ProcessIsRight
  <1> QED
    BY <1>1, <1>3, TheOneAlive, OneActs

LEMMA LaunchKeepsRight ==
  ASSUME DirectoryInvariant, ~Overlap, NEW p \in Procs, NEW l \in Launches, LaunchProcess(p, l)
  PROVE  DirectoryInvariant'
  <1> DEFINE new == [pc |-> "open", kind |-> l.kind, cfg |-> l.cfg, force |-> l.force,
                     at |-> 1, tries |-> 0, man |-> NoManifest,
                     mem |-> [s \in Stage |-> Missing], outcome |-> "none"]
  <1>1. /\ proc' = [proc EXCEPT ![p] = new] /\ proc[p] = Absent /\ UNCHANGED <<manifest, artifact, lock>>
        /\ \A q \in Procs : ~Alive(q)
    BY DEF LaunchProcess, SetProcess, Self
  <1>2. l.kind \in Kinds /\ l.force \in BOOLEAN /\ l.cfg \in Cfgs
    BY DirectoryAssumption DEF DirectoryAssumption, Kinds, Cfgs
  <1>3. [s \in Stage |-> Missing] \in Artifacts
    BY DEF Artifacts
  <1>4. new \in Running
    BY <1>2, <1>3 DEF Running, Pcs
  <1>5. new.pc = "open" /\ new.tries = 0 /\ new.at = 1
    OBVIOUS
  <1> HIDE DEF new
  <1>6. /\ proc = [q \in Procs |-> proc[q]] /\ manifest \in Manifests \union {NoManifest}
        /\ artifact \in Artifacts /\ LockOf(p) /\ ManifestIsTrue
    BY DEF DirectoryInvariant, DirectoryTypes, ProcessIsRight
  <1>7. proc'[p] = new /\ \A q \in Procs \ {p} : proc'[q] = proc[q]
    BY <1>1, <1>6
  <1>8. OutputsUnsure => OutputsUnsure'
    BY <1>1, <1>7 DEF OutputsUnsure, Absent
  <1>9. ManifestIsTrue'
    BY <1>1, <1>6, <1>8, DirectoryStays
  <1>10. proc[p].pc = "absent"
    BY <1>1 DEF Absent
  <1>11. ProcessIsRight(p)'
    BY <1>1, <1>5, <1>6, <1>7, <1>10 DEF ProcessIsRight, LockOf, MemoryOf, RunOf, ToLock, InStage
  <1> QED
    BY <1>1, <1>4, <1>6, <1>9, <1>11, OneActs

LEMMA OpenKeepsRight ==
  ASSUME DirectoryInvariant, NEW p \in Procs, Open(p)
  PROVE  DirectoryInvariant'
  <1>1. Alive(p) /\ proc[p].pc = "open" /\ proc[p].kind = "run" /\ UNCHANGED <<manifest, artifact, lock>>
    BY DEF Open, Self, Alive, Gone
  <1>2. PICK me \in Running : me = proc[p]
    BY <1>1, TheOneAlive
  <1>3. PICK man : man = IF manifest = NoManifest THEN [s \in Stage |-> Unrecorded] ELSE Loaded(manifest)
    OBVIOUS
  <1>4. man \in Manifests \union {NoManifest}
    BY <1>1, <1>3, TheOneAlive, LoadedIsTheSame, NewManifest
  <1>5. PICK new : new = [me EXCEPT !.pc = "opened", !.man = man]
    OBVIOUS
  <1>6. proc' = [proc EXCEPT ![p] = new]
    BY <1>2, <1>3, <1>5 DEF Open, SetProcess, Self
  <1>7. "opened" \in Pcs
    BY DEF Pcs
  <1>8. new \in Running /\ new.pc = "opened" /\ new.man = man /\ new.kind = me.kind /\ new.at = me.at /\ new.tries = me.tries
    BY ONLY <1>4, <1>5, <1>7, me \in Running DEF Running
  <1>9. proc'[p] = new => LockOf(p)' /\ MemoryOf(p)' /\ RunOf(p)'
    <2>1. SUFFICES ASSUME proc'[p] = new PROVE LockOf(p)' /\ MemoryOf(p)' /\ RunOf(p)'
      OBVIOUS
    <2>2. LockOf(p)
      BY <1>1, TheOneAlive
    <2>3. LockOf(p)' /\ RunOf(p)'
      BY <1>1, <1>2, <1>8, <2>1, <2>2 DEF LockOf, RunOf, ToLock, InStage
    <2>at. new.at = 1
      BY <1>1, <1>2, <1>8, TheOneAlive DEF MemoryOf
    <2>4. MemoryOf(p)'
      BY <1>1, <1>2, <1>3, <1>8, <2>1, <2>at DEF MemoryOf, ToLock, InStage, Loaded, Unrecorded
    <2> QED
      BY <2>3, <2>4
  <1> QED
    BY <1>1, <1>6, <1>8, <1>9, GoesOn

LEMMA GetKeepsRight ==
  ASSUME DirectoryInvariant, NEW p \in Procs, GetJob(p)
  PROVE  DirectoryInvariant'
  <1>1. Alive(p) /\ proc[p].pc = "open" /\ proc[p].kind = "export" /\ UNCHANGED <<manifest, artifact, lock>>
    BY DEF GetJob, Self, Alive, Gone
  <1>2. CASE manifest = NoManifest
    BY <1>1, <1>2, EndsRight DEF GetJob
  <1>3. CASE manifest # NoManifest
    <2>1. PICK me \in Running : me = proc[p]
      BY <1>1, TheOneAlive
    <2>2. PICK man \in Manifests : man = Loaded(manifest)
      BY <1>1, <1>3, TheOneAlive, LoadedIsTheSame
    <2>3. PICK new : new = [me EXCEPT !.pc = "lock", !.man = man]
      OBVIOUS
    <2>4. proc' = [proc EXCEPT ![p] = new]
      BY <1>3, <2>1, <2>2, <2>3 DEF GetJob, SetProcess, Self
    <2>5. "lock" \in Pcs
      BY DEF Pcs, ToLock
    <2>6. new \in Running /\ new.pc = "lock" /\ new.man = man /\ new.kind = me.kind /\ new.at = me.at /\ new.tries = me.tries
      BY ONLY <2>2, <2>3, <2>5, me \in Running DEF Running
    <2>7. proc'[p] = new => LockOf(p)' /\ MemoryOf(p)' /\ RunOf(p)'
      <3>1. SUFFICES ASSUME proc'[p] = new PROVE LockOf(p)' /\ MemoryOf(p)' /\ RunOf(p)'
        OBVIOUS
      <3>2. LockOf(p)
        BY <1>1, TheOneAlive
      <3>3. LockOf(p)' /\ RunOf(p)'
        BY <1>1, <2>1, <2>6, <3>1, <3>2 DEF LockOf, RunOf, ToLock, InStage
      <3>at. new.at = 1
        BY <1>1, <2>1, <2>6, TheOneAlive DEF MemoryOf
      <3>4. MemoryOf(p)'
        BY <1>1, <1>3, <2>1, <2>2, <2>6, <3>1, <3>at DEF MemoryOf, ToLock, InStage, Loaded
      <3> QED
        BY <3>3, <3>4
    <2> QED
      BY <1>1, <2>4, <2>6, <2>7, GoesOn
  <1> QED
    BY <1>2, <1>3

\* The owner is asked for: where another program has its pid, the process ends locked
\* out; nobody else is alive.
LEMMA AskKeepsRight ==
  ASSUME DirectoryInvariant, NEW p \in Procs, Alive(p), proc[p].pc \in {"owner", "open"},
         NEW next \in {"unlink", "rmtree"}, AskOwner(p, next),
         next = "unlink" <=> proc[p].pc = "owner", next = "rmtree" => proc[p].kind = "clean"
  PROVE  DirectoryInvariant'
  <1>1. UNCHANGED <<manifest, artifact, lock>>
    BY DEF AskOwner
  <1>2. LockOf(p) /\ MemoryOf(p) /\ \A q \in Procs : Alive(q) => q = p
    BY TheOneAlive
  <1>3. lock = NoLock \/ (lock.pid # p /\ lock.pid \in Procs \union {NoPid})
    BY <1>2, TheOneAlive DEF LockOf, ToLock
  <1>4. CASE PidFound /\ LockedOut(p, lock.pid)
    <2> DEFINE new == [pc |-> "locked out", kind |-> proc[p].kind, by |-> lock.pid]
    <2>1. proc' = [proc EXCEPT ![p] = new] /\ new.pc = "locked out" /\ new.by = lock.pid
      BY <1>4 DEF LockedOut, SetProcess, Self
    <2>2. new.by \in Reused
      BY <1>2, <1>3, <1>4, <2>1 DEF PidFound
    <2> HIDE DEF new
    <2>3. new.pc \in Gone
      BY <2>1 DEF Gone
    <2>4. ManifestIsTrue'
      BY <1>1, <2>1, TheOneAlive, UnsureStays, DirectoryStays DEF DirectoryInvariant
    <2>5. proc'[p] = new
      BY <2>1, TheOneAlive
    <2>6. ProcessIsRight(p)'
      BY <2>1, <2>2, <2>5 DEF ProcessIsRight, LockOf, MemoryOf, RunOf, ToLock, InStage
    <2> QED
      BY <1>1, <2>1, <2>3, <2>4, <2>6, TheOneAlive, OneActs
  <1>5. CASE PidFree /\ SetProcess(p, [Self(p) EXCEPT !.pc = next])
    <2>1. PICK me \in Running : me = proc[p]
      BY TheOneAlive
    <2>2. PICK new : new = [me EXCEPT !.pc = next]
      OBVIOUS
    <2>3. proc' = [proc EXCEPT ![p] = new]
      BY <1>5, <2>1, <2>2 DEF SetProcess, Self
    <2>4. next \in Pcs
      BY DEF Pcs, ToLock
    <2>5. /\ new \in Running /\ new.pc = next /\ new.man = me.man /\ new.kind = me.kind
          /\ new.at = me.at /\ new.tries = me.tries
      BY ONLY <2>2, <2>4, me \in Running DEF Running
    <2>6. proc'[p] = new => LockOf(p)' /\ MemoryOf(p)' /\ RunOf(p)'
      <3>1. SUFFICES ASSUME proc'[p] = new PROVE LockOf(p)' /\ MemoryOf(p)' /\ RunOf(p)'
        OBVIOUS
      <3>2. LockOf(p)' /\ RunOf(p)'
        BY <1>1, <1>2, <2>1, <2>5, <3>1 DEF LockOf, RunOf, ToLock, InStage
      <3>3. MemoryOf(p)'
        BY <1>1, <1>2, <2>1, <2>5, <3>1 DEF MemoryOf, ToLock, InStage, Loaded
      <3> QED
        BY <3>2, <3>3
    <2> QED
      BY <1>1, <2>3, <2>5, <2>6, GoesOn
  <1> QED
    BY <1>4, <1>5 DEF AskOwner

LEMMA ReadOwnerKeepsRight ==
  ASSUME DirectoryInvariant, NEW p \in Procs, ReadOwner(p)
  PROVE  DirectoryInvariant'
  <1>1. Alive(p) /\ proc[p].pc = "owner" /\ AskOwner(p, "unlink")
    BY DEF ReadOwner, Self, Alive, Gone
  <1> QED
    BY <1>1, AskKeepsRight

LEMMA UnlinkKeepsRight ==
  ASSUME DirectoryInvariant, NEW p \in Procs, Unlink(p)
  PROVE  DirectoryInvariant'
  <1>1. Alive(p) /\ proc[p].pc = "unlink" /\ UNCHANGED <<manifest, artifact>> /\ lock' = NoLock
    BY DEF Unlink, Self, Alive, Gone
  <1>2. LockOf(p) /\ MemoryOf(p)
    BY <1>1, TheOneAlive
  <1>3. PICK me \in Running : me = proc[p]
    BY <1>1, TheOneAlive
  <1>4. me.tries = 0
    BY <1>1, <1>2, <1>3 DEF LockOf
  <1>5. PICK new : new = [me EXCEPT !.pc = "lock", !.tries = 1]
    OBVIOUS
  <1>6. proc' = [proc EXCEPT ![p] = new]
    BY <1>3, <1>4, <1>5 DEF Unlink, SetProcess, Self
  <1>7. "lock" \in Pcs /\ 1 \in 0..1
    BY DEF Pcs, ToLock
  <1>8. new \in Running /\ new.pc = "lock" /\ new.man = me.man /\ new.kind = me.kind /\ new.at = me.at
    BY ONLY <1>5, <1>7, me \in Running DEF Running
  <1>9. proc'[p] = new => LockOf(p)' /\ MemoryOf(p)' /\ RunOf(p)'
    <2>1. SUFFICES ASSUME proc'[p] = new PROVE LockOf(p)' /\ MemoryOf(p)' /\ RunOf(p)'
      OBVIOUS
    <2>2. LockOf(p)' /\ RunOf(p)'
      BY <1>1, <1>2, <1>3, <1>8, <2>1 DEF LockOf, RunOf, ToLock, InStage
    <2>3. MemoryOf(p)'
      BY <1>1, <1>2, <1>3, <1>8, <2>1 DEF MemoryOf, ToLock, InStage, Loaded
    <2> QED
      BY <2>2, <2>3
  <1> QED
    BY <1>1, <1>6, <1>8, <1>9, GoesOn

LEMMA TryLockKeepsRight ==
  ASSUME DirectoryInvariant, NEW p \in Procs, TryLock(p)
  PROVE  DirectoryInvariant'
  <1>1. Alive(p) /\ proc[p].pc = "lock" /\ UNCHANGED <<manifest, artifact>>
    BY DEF TryLock, Self, Alive, Gone
  <1>2. LockOf(p) /\ MemoryOf(p)
    BY <1>1, TheOneAlive
  <1>3. PICK me \in Running : me = proc[p]
    BY <1>1, TheOneAlive
  <1>4. PICK pc \in {"create", "owner"} : pc = IF lock = NoLock THEN "create" ELSE "owner"
    OBVIOUS
  <1>5. PICK new : new = [me EXCEPT !.pc = pc]
    OBVIOUS
  <1>6. proc' = [proc EXCEPT ![p] = new]
    BY <1>3, <1>4, <1>5 DEF TryLock, SetProcess, Self
  <1>7. pc \in Pcs
    BY DEF Pcs, ToLock
  <1>8. /\ new \in Running /\ new.pc = pc /\ new.man = me.man /\ new.kind = me.kind /\ new.at = me.at
        /\ new.tries = me.tries
    BY ONLY <1>5, <1>7, me \in Running DEF Running
  <1>9. PICK k \in [by : Procs, pid : Procs \union {NoPid}] : k = [by |-> p, pid |-> NoPid]
    OBVIOUS
  <1>10. k # NoLock /\ k.by = p /\ k.pid = NoPid /\ NoPid # p
    BY <1>9, LockIsNotMissing, DirectoryAssumption DEF DirectoryAssumption
  <1>11. lock' = IF lock = NoLock THEN k ELSE lock
    BY <1>9 DEF TryLock
  <1>12. proc'[p] = new => LockOf(p)' /\ MemoryOf(p)' /\ RunOf(p)'
    <2>1. SUFFICES ASSUME proc'[p] = new PROVE LockOf(p)' /\ MemoryOf(p)' /\ RunOf(p)'
      OBVIOUS
    <2>2. LockOf(p)' /\ RunOf(p)'
      BY <1>1, <1>2, <1>3, <1>4, <1>8, <1>10, <1>11, <2>1 DEF LockOf, RunOf, ToLock, InStage
    <2>3. MemoryOf(p)'
      BY <1>1, <1>2, <1>3, <1>4, <1>8, <2>1 DEF MemoryOf, ToLock, InStage, Loaded
    <2> QED
      BY <2>2, <2>3
  <1>13. lock' = lock \/ lock' = NoLock
           \/ (lock' \in [by : Procs, pid : Procs \union {NoPid}] /\ lock'.pid \in {p, NoPid})
    BY <1>10, <1>11
  <1> QED
    BY <1>1, <1>4, <1>6, <1>8, <1>12, <1>13, GoesOn

LEMMA WritePidKeepsRight ==
  ASSUME DirectoryInvariant, NEW p \in Procs, WritePid(p)
  PROVE  DirectoryInvariant'
  <1>1. Alive(p) /\ proc[p].pc = "create" /\ UNCHANGED <<manifest, artifact>>
    BY DEF WritePid, Self, Alive, Gone
  <1>2. LockOf(p) /\ MemoryOf(p)
    BY <1>1, TheOneAlive
  <1>3. PICK me \in Running : me = proc[p]
    BY <1>1, TheOneAlive
  <1>4. PICK k \in [by : Procs, pid : Procs \union {NoPid}] : k = lock /\ k.by = p
    BY <1>1, <1>2, TheOneAlive DEF LockOf
  <1>5. PICK new : new = [me EXCEPT !.pc = "locked"]
    OBVIOUS
  <1>6. proc' = [proc EXCEPT ![p] = new]
    BY <1>3, <1>5 DEF WritePid, SetProcess, Self
  <1>7. "locked" \in Pcs
    BY DEF Pcs
  <1>8. new \in Running /\ new.pc = "locked" /\ new.man = me.man /\ new.kind = me.kind /\ new.at = me.at
    BY ONLY <1>5, <1>7, me \in Running DEF Running
  <1>9. lock' = [k EXCEPT !.pid = p]
    BY <1>1, <1>2, <1>4 DEF WritePid, LockOf
  <1>10. PICK j : j = [k EXCEPT !.pid = p]
    OBVIOUS
  <1>11. j \in [by : Procs, pid : Procs \union {NoPid}] /\ j.pid = p
    BY <1>10
  <1>12. lock' = j /\ j # NoLock
    BY <1>9, <1>10, <1>11, LockIsNotMissing
  <1>13. proc'[p] = new => LockOf(p)' /\ MemoryOf(p)' /\ RunOf(p)'
    <2>1. SUFFICES ASSUME proc'[p] = new PROVE LockOf(p)' /\ MemoryOf(p)' /\ RunOf(p)'
      OBVIOUS
    <2>2. LockOf(p)' /\ RunOf(p)'
      BY <1>8, <1>11, <1>12, <2>1 DEF LockOf, RunOf, ToLock, InStage
    <2>3. MemoryOf(p)'
      BY <1>1, <1>2, <1>3, <1>8, <2>1 DEF MemoryOf, ToLock, InStage, Loaded
    <2> QED
      BY <2>2, <2>3
  <1> QED
    BY <1>1, <1>6, <1>8, <1>11, <1>12, <1>13, GoesOn

LEMMA ReleaseKeepsRight ==
  ASSUME DirectoryInvariant, NEW p \in Procs, Release(p)
  PROVE  DirectoryInvariant'
  <1>1. Alive(p) /\ proc[p].pc = "release"
    BY DEF Release, Self, Alive, Gone
  <1>2. lock' = lock \/ lock' = NoLock
    BY DEF Release
  <1> QED
    BY <1>1, <1>2, EndsRight DEF Release

LEMMA CleanChecksKeepsRight ==
  ASSUME DirectoryInvariant, NEW p \in Procs, CleanChecks(p)
  PROVE  DirectoryInvariant'
  <1>1. Alive(p) /\ proc[p].pc = "open" /\ proc[p].kind = "clean" /\ AskOwner(p, "rmtree")
    BY DEF CleanChecks, Self, Alive, Gone
  <1> QED
    BY <1>1, AskKeepsRight

----------------------------------------------------------------------------
(* Steps that change the manifest or a result. *)

LEMMA CleanRemovesKeepsRight ==
  ASSUME DirectoryInvariant, NEW p \in Procs, CleanRemoves(p)
  PROVE  DirectoryInvariant'
  <1>1. Alive(p) /\ proc[p].pc = "rmtree" /\ manifest' = NoManifest /\ lock' = NoLock
    BY DEF CleanRemoves, Self, Alive, Gone
  <1> DEFINE new == [pc |-> "ended", kind |-> proc[p].kind]
  <1>2. proc' = [proc EXCEPT ![p] = new] /\ new.pc = "ended"
    BY DEF CleanRemoves, Ended, SetProcess, Self
  <1> HIDE DEF new
  <1>3. new.pc \in Gone
    BY <1>2 DEF Gone
  <1>4. artifact' \in Artifacts
    BY <1>1, TheOneAlive DEF CleanRemoves, Artifacts
  <1>5. ManifestIsTrue'
    BY <1>1 DEF ManifestIsTrue, NoManifest
  <1>6. proc'[p] = new
    BY <1>1, <1>2, TheOneAlive
  <1>7. ProcessIsRight(p)'
    BY <1>2, <1>6 DEF ProcessIsRight, LockOf, MemoryOf, RunOf, ToLock, InStage
  <1> QED
    BY <1>1, <1>2, <1>3, <1>4, <1>5, <1>7, TheOneAlive, OneActs

\* The user moves the outputs away.
LEMMA OutputsGoKeepsRight ==
  ASSUME DirectoryInvariant, OutputsGo
  PROVE  DirectoryInvariant'
  <1>1. (\A p \in Procs : ~Alive(p)) /\ UNCHANGED <<manifest, lock, proc>>
        /\ artifact' = [artifact EXCEPT !["export"] = Missing]
    BY DEF OutputsGo
  <1>2. artifact \in Artifacts /\ artifact' \in Artifacts
    BY <1>1 DEF DirectoryInvariant, DirectoryTypes, Artifacts
  <1>3. \A s \in Stage : artifact'[s] = artifact[s] \/ artifact'[s] = Missing
    BY <1>1, <1>2 DEF Artifacts
  <1>4. OutputsUnsure => OutputsUnsure'
    BY <1>1 DEF OutputsUnsure
  <1>5. ManifestIsTrue'
    <2>1. PICK n : n = manifest
      OBVIOUS
    <2>2. CASE n = NoManifest
      BY <1>1, <2>1, <2>2 DEF ManifestIsTrue
    <2>3. CASE n # NoManifest
      <3>1. HashesAgree(n) /\ ResultsAgree(n)
        BY <2>1, <2>3 DEF DirectoryInvariant, ManifestIsTrue
      <3>2. HashesAgree(n) /\ ResultsAgree(n)'
        BY <1>3, <1>4, <3>1, LessStaysTrue
      <3> QED
        BY <1>1, <2>1, <3>2, WhoseManifest
    <2> QED
      BY <2>2, <2>3
  <1>6. DirectoryTypes'
    BY <1>1, <1>2 DEF DirectoryInvariant, DirectoryTypes, Alive
  <1>7. ASSUME NEW p \in Procs
        PROVE  ProcessIsRight(p)'
    <2>1. proc'[p].pc \in Gone /\ proc'[p] = proc[p]
      BY <1>1 DEF Alive
    <2>2. ProcessIsRight(p)
      BY DEF DirectoryInvariant
    <2> QED
      BY <1>1, <2>1, <2>2 DEF ProcessIsRight, LockOf, MemoryOf, RunOf, Gone, ToLock, InStage
  <1> QED
    BY <1>5, <1>6, <1>7 DEF DirectoryInvariant

LEMMA SavesRight ==
  ASSUME DirectoryInvariant, NEW p \in Procs, Alive(p),
         NEW new \in Running, proc' = [proc EXCEPT ![p] = new],
         NEW n \in Manifests, manifest' = n, HashesAgree(n), ResultsAgree(n)',
         artifact' \in Artifacts, lock' = lock,
         proc'[p] = new => LockOf(p)' /\ MemoryOf(p)' /\ RunOf(p)'
  PROVE  DirectoryInvariant'
  <1>1. ManifestIsTrue'
    BY WhoseManifest
  <1>2. proc'[p] = new
    BY TheOneAlive
  <1>3. ProcessIsRight(p)'
    BY <1>2 DEF ProcessIsRight
  <1> QED
    BY <1>1, <1>3, TheOneAlive, OneActs

\* What the lock and the kind say of a process that has the lock, and still has it.
LEMMA HoldsOn ==
  ASSUME NEW p \in Procs, LockOf(p), lock' = lock,
         proc[p].pc \in {"locked", "exported"} \union InStage,
         proc'[p].pc \in {"locked", "exported", "release"} \union InStage
  PROVE  LockOf(p)'
  BY DEF LockOf, ToLock, InStage

LEMMA OpenSavesKeepsRight ==
  ASSUME DirectoryInvariant, NEW p \in Procs, OpenSaves(p)
  PROVE  DirectoryInvariant'
  <1>1. Alive(p) /\ proc[p].pc = "opened" /\ UNCHANGED <<artifact, lock>>
    BY DEF OpenSaves, Self, Alive, Gone
  <1>2. LockOf(p) /\ MemoryOf(p) /\ ManifestIsTrue /\ artifact \in Artifacts
        /\ manifest \in Manifests \union {NoManifest}
    BY <1>1, TheOneAlive DEF DirectoryInvariant
  <1>3. PICK me \in Running : me = proc[p]
    BY <1>1, TheOneAlive
  <1>4. PICK n : n = me.man
    OBVIOUS
  <1>5. me.kind = "run" /\ n = IF manifest = NoManifest THEN [s \in Stage |-> Unrecorded] ELSE Loaded(manifest)
    BY <1>1, <1>2, <1>3, <1>4 DEF MemoryOf
  <1>6. PICK new : new = [me EXCEPT !.pc = "lock"]
    OBVIOUS
  <1>7. proc' = [proc EXCEPT ![p] = new] /\ manifest' = n
    BY <1>3, <1>4, <1>6 DEF OpenSaves, SetProcess, Self
  <1>8. "lock" \in Pcs
    BY DEF Pcs, ToLock
  <1>9. /\ new \in Running /\ new.pc = "lock" /\ new.man = n /\ new.kind = me.kind /\ new.at = me.at
        /\ new.tries = me.tries
    BY ONLY <1>4, <1>6, <1>8, me \in Running DEF Running
  <1>10. OutputsUnsure => OutputsUnsure'
    BY <1>1, <1>7, TheOneAlive, UnsureStays
  <1>11. n \in Manifests /\ HashesAgree(n) /\ ResultsAgree(n)'
    <2>1. CASE manifest = NoManifest
      <3>1. n \in Manifests /\ \A s \in Stage : ~DoneIn(n, s)
        BY <1>5, <2>1, NewManifest
      <3>2. \A s \in Stage : ~DoneUpTo(n, s)
        BY <3>1, UpstreamIsBefore DEF DoneUpTo
      <3>3. HashesAgree(n)
        BY <3>2 DEF HashesAgree
      <3>4. ResultsAgree(n)'
        BY <3>2 DEF ResultsAgree, DoneUpTo, DoneIn, Domain, Upstream, Stage
      <3> QED
        BY <3>1, <3>3, <3>4
    <2>2. CASE manifest # NoManifest
      <3>1. PICK m \in Manifests : m = manifest
        BY <1>2, <2>2
      <3>2. HashesAgree(m) /\ ResultsAgree(m)
        BY <1>2, <2>2, <3>1 DEF ManifestIsTrue
      <3>3. n \in Manifests /\ \A s \in Stage : DoneIn(n, s) => n[s] = m[s]
        BY <1>5, <2>2, <3>1, LoadedIsTheSame
      <3>4. \A s \in Stage : artifact'[s] = artifact[s]
        BY <1>1
      <3> QED
        BY <1>10, <3>2, <3>3, <3>4, LessStaysTrue
    <2> QED
      BY <2>1, <2>2
  <1>12. proc'[p] = new => LockOf(p)' /\ MemoryOf(p)' /\ RunOf(p)'
    <2>1. SUFFICES ASSUME proc'[p] = new PROVE LockOf(p)' /\ MemoryOf(p)' /\ RunOf(p)'
      OBVIOUS
    <2>2. LockOf(p)' /\ RunOf(p)'
      BY <1>1, <1>2, <1>3, <1>9, <2>1 DEF LockOf, RunOf, ToLock, InStage
    <2>3. n # NoManifest
      BY <1>11, ManifestIsNotMissing
    <2>at. new.at = 1
      BY <1>1, <1>2, <1>3, <1>9 DEF MemoryOf
    <2>4. MemoryOf(p)'
      BY <1>5, <1>7, <1>9, <2>1, <2>3, <2>at DEF MemoryOf, ToLock, InStage, NoManifest
    <2> QED
      BY <2>2, <2>4
  <1> QED
    BY <1>1, <1>2, <1>7, <1>9, <1>11, <1>12, SavesRight

----------------------------------------------------------------------------
(* A run goes through the stages. *)

\* Only the stage the run is in changes: what is passed and what is ready stays so.
LEMMA OtherStagesStay ==
  ASSUME NEW me \in Running, NEW m \in Manifests, NEW a, StagesOf(m, a, me), m[STAGES[me.at]].status # "done",
         NEW n, NEW b, \A s \in Stage : s # STAGES[me.at] => n[s] = m[s] /\ b[s] = a[s]
  PROVE  /\ \A s \in Passed(me.at) :
              n[s] = Record("done", Hash(me.cfg, s)) /\ b[s] = Produced(me.cfg, s)
         /\ \A s \in Stage \ (Passed(me.at) \union {STAGES[me.at]}) :
              Ready(n, b, me.cfg, s) /\ (n[s] # Unrecorded => STAGES[me.at] \notin Upstream(s))
  <1>1. me.at \in 1..5
    BY DEF Running
  <1>2. PICK this \in Stage : this = STAGES[me.at]
    BY <1>1, PassedIsBefore
  <1>3. this \notin Passed(me.at) /\ Passed(me.at) \subseteq Stage
    BY <1>1, <1>2, PassedIsBefore
  <1>4. \A s \in Passed(me.at) :
           n[s] = Record("done", Hash(me.cfg, s)) /\ b[s] = Produced(me.cfg, s)
    BY <1>2, <1>3 DEF StagesOf
  <1>5. ASSUME NEW s \in Stage \ (Passed(me.at) \union {this})
        PROVE  Ready(n, b, me.cfg, s) /\ (n[s] # Unrecorded => this \notin Upstream(s))
    <2>1. Ready(m, a, me.cfg, s) /\ n[s] = m[s] /\ b[s] = a[s]
      BY <1>2, <1>5 DEF StagesOf
    <2>2. CASE m[s] = Unrecorded
      BY <2>1, <2>2 DEF Ready
    <2>3. CASE m[s] # Unrecorded
      <3>1. this \notin Upstream(s)
        BY <1>2, <2>1, <2>3 DEF Ready, DoneIn
      <3>2. \A d \in Upstream(s) : DoneIn(n, d)
        BY <1>2, <2>1, <2>3, <3>1, UpstreamIsBefore DEF Ready, DoneIn
      <3> QED
        BY <2>1, <2>3, <3>1, <3>2 DEF Ready
    <2> QED
      BY <2>2, <2>3
  <1> QED
    BY <1>2, <1>4, <1>5

\* A stage that is done is passed.
LEMMA StageIsPassed ==
  ASSUME NEW me \in Running, me.at < 5, NEW n, NEW b,
         \A s \in Passed(me.at) :
            /\ n[s] = Record("done", Hash(me.cfg, s))
            /\ me.mem[s] = Produced(me.cfg, s) /\ b[s] = Produced(me.cfg, s),
         \A s \in Stage \ (Passed(me.at) \union {STAGES[me.at]}) : Ready(n, b, me.cfg, s),
         n[STAGES[me.at]] = Record("done", Hash(me.cfg, STAGES[me.at])),
         b[STAGES[me.at]] = Produced(me.cfg, STAGES[me.at]),
         NEW new, new.at = me.at + 1, new.cfg = me.cfg, new.pc = "stage",
         \A s \in Passed(me.at) : new.mem[s] = me.mem[s],
         new.mem[STAGES[me.at]] = Produced(me.cfg, STAGES[me.at])
  PROVE  StagesOf(n, b, new)
  <1>1. me.at \in 1..5 /\ me.at + 1 \in 1..5
    BY DEF Running
  <1>2. Passed(new.at) = Passed(me.at) \union {STAGES[me.at]}
    BY <1>1, PassedIsBefore
  <1>3. STAGES[new.at] \in Stage /\ STAGES[new.at] \notin Passed(new.at)
    BY <1>1, PassedIsBefore
  <1>4. \A s \in Stage \ Passed(new.at) : Ready(n, b, new.cfg, s)
    BY <1>2
  <1>5. \A s \in Passed(new.at) :
           /\ n[s] = Record("done", Hash(new.cfg, s))
           /\ new.mem[s] = Produced(new.cfg, s) /\ b[s] = Produced(new.cfg, s)
    BY <1>2
  <1> QED
    BY <1>3, <1>4, <1>5 DEF StagesOf

LEMMA TheRun ==
  ASSUME DirectoryInvariant, NEW p \in Procs, Alive(p), proc[p].pc \in InStage
  PROVE  /\ proc[p].kind = "run" /\ manifest \in Manifests /\ proc[p].man = manifest
         /\ HashesAgree(manifest) /\ ResultsAgree(manifest)
         /\ StagesOf(manifest, artifact, proc[p])
         /\ \A q \in Procs : proc[q].pc # "exported"
  <1>1. MemoryOf(p) /\ RunOf(p) /\ manifest \in Manifests \union {NoManifest} /\ ManifestIsTrue
    BY TheOneAlive DEF DirectoryInvariant
  <1>2. manifest \in Manifests /\ proc[p].kind = "run" /\ proc[p].man = manifest
    BY <1>1 DEF MemoryOf
  <1>3. StagesOf(manifest, artifact, proc[p])
    BY <1>1 DEF RunOf
  <1>4. HashesAgree(manifest) /\ ResultsAgree(manifest)
    BY <1>1, <1>2, ManifestIsNotMissing DEF ManifestIsTrue
  <1>5. ASSUME NEW q \in Procs, proc[q].pc = "exported"
        PROVE  FALSE
    <2>1. Alive(q)
      BY <1>5 DEF Alive, Gone
    <2>2. q = p
      BY <2>1, TheOneAlive
    <2> QED
      BY <1>5, <2>2 DEF InStage
  <1> QED
    BY <1>2, <1>3, <1>4, <1>5

\* Where a stage is done, and the stages before it, its result is what the settings produce.
LEMMA DoneIsProduced ==
  ASSUME HashTellsUse, NEW c \in Cfgs, NEW s \in Stage, NEW m \in Manifests, ResultsAgree(m),
         artifact \in Artifacts, artifact[s] # Missing, s = "export" => ~OutputsUnsure,
         m[s] = Record("done", Hash(c, s)), \A d \in Upstream(s) : DoneIn(m, d)
  PROVE  artifact[s] = Produced(c, s)
  <1>1. Hash(c, s) \in OfStages
    BY HashesAreOfStages
  <1>2. m[s].status = "done" /\ m[s].hash = Hash(c, s)
    BY <1>1, RecordsAreRecords
  <1>3. DoneUpTo(m, s)
    BY <1>2 DEF DoneUpTo, DoneIn, Domain
  <1>4. MadeAs(Hash(c, s), artifact[s], s)
    BY <1>2, <1>3 DEF ResultsAgree
  <1>5. artifact[s] \in OfStages
    BY DEF Artifacts
  <1> QED
    BY <1>4, <1>5, HashTellsResult

LEMMA StartStageKeepsRight ==
  ASSUME DirectoryInvariant, NEW p \in Procs, StartStage(p)
  PROVE  DirectoryInvariant'
  <1>1. Alive(p) /\ proc[p].pc = "stage" /\ UNCHANGED <<artifact, lock>> /\ ~IsDone(p, Now(p))
    BY DEF StartStage, Self, Alive, Gone
  <1>2. /\ LockOf(p) /\ proc[p].kind = "run" /\ proc[p].man = manifest /\ artifact \in Artifacts
        /\ StagesOf(manifest, artifact, proc[p])
    BY <1>1, TheOneAlive, TheRun DEF InStage
  <1>3. PICK m \in Manifests : m = manifest /\ HashesAgree(m) /\ ResultsAgree(m)
    BY <1>1, TheRun DEF InStage
  <1>4. PICK me \in Running : me = proc[p]
    BY <1>1, TheOneAlive
  <1>5. me.at \in 1..5 /\ me.cfg \in Cfgs /\ me.pc = "stage" /\ me.kind = "run" /\ me.man = m
    BY <1>1, <1>2, <1>3, <1>4 DEF Running
  <1>6. PICK this \in Stage : this = STAGES[me.at]
    BY <1>5, PassedIsBefore
  <1>7. PICK h \in OfStages : h = Hash(me.cfg, this)
    BY <1>5, HashesAreOfStages
  <1>8. PICK r \in StageRecords : r = Record("running", h) /\ r.status = "running"
    BY RecordsAreRecords
  <1>9. PICK n : n = [m EXCEPT ![this] = r]
    OBVIOUS
  <1>10. n \in Manifests /\ n[this] = r /\ \A s \in Stage : s # this => n[s] = m[s]
    BY <1>9 DEF Manifests
  <1>11. PICK new : new = [me EXCEPT !.man = n, !.pc = "work"]
    OBVIOUS
  <1>12. proc' = [proc EXCEPT ![p] = new] /\ manifest' = n
    BY <1>4, <1>5, <1>6, <1>7, <1>8, <1>9, <1>11 DEF StartStage, Saved, SetProcess, Self, Now
  <1>13. "work" \in Pcs
    BY DEF Pcs, InStage
  <1>14. /\ new \in Running /\ new.pc = "work" /\ new.man = n /\ new.kind = me.kind
         /\ new.at = me.at /\ new.cfg = me.cfg /\ new.mem = me.mem
    BY ONLY <1>10, <1>11, <1>13, me \in Running DEF Running
  <1>15. PICK a : a = artifact
    OBVIOUS
  <1>16. StagesOf(m, a, me)
    BY <1>2, <1>3, <1>4, <1>15
  <1>17. m[this].status # "done"
    <2>1. Ready(m, a, me.cfg, this)
      BY <1>5, <1>6, <1>16 DEF StagesOf
    <2>2. Record("done", h).status = "done" /\ Record("done", h).hash = h /\ Unrecorded.status = "pending"
      BY RecordsAreRecords
    <2>3. ~ (m[this].status = "done" /\ m[this].hash = h /\ a[this] # Missing)
      BY <1>1, <1>3, <1>4, <1>5, <1>6, <1>7, <1>15 DEF IsDone, Self, Now
    <2> QED
      BY <1>7, <2>1, <2>2, <2>3 DEF Ready
  <1>18. StagesOf(n, a, new)
    <2>1. /\ \A s \in Passed(me.at) :
               n[s] = Record("done", Hash(me.cfg, s)) /\ a[s] = Produced(me.cfg, s)
          /\ \A s \in Stage \ (Passed(me.at) \union {this}) : Ready(n, a, me.cfg, s)
      BY <1>6, <1>10, <1>16, <1>17, OtherStagesStay
    <2>2. \A s \in Passed(me.at) : me.mem[s] = Produced(me.cfg, s)
      BY <1>16 DEF StagesOf
    <2> QED
      BY <1>6, <1>7, <1>8, <1>10, <1>14, <2>1, <2>2 DEF StagesOf
  <1>19. HashesAgree(n) /\ ResultsAgree(n)'
    <2>1. \A s \in Stage : DoneIn(n, s) => n[s] = m[s]
      BY <1>8, <1>10 DEF DoneIn
    <2>2. OutputsUnsure => OutputsUnsure'
      BY <1>1, <1>12, TheOneAlive, UnsureStays
    <2> QED
      BY <1>1, <1>3, <2>1, <2>2, LessStaysTrue
  <1>20. proc'[p] = new => LockOf(p)' /\ MemoryOf(p)' /\ RunOf(p)'
    <2>1. SUFFICES ASSUME proc'[p] = new PROVE LockOf(p)' /\ MemoryOf(p)' /\ RunOf(p)'
      OBVIOUS
    <2>2. LockOf(p)'
      BY <1>1, <1>2, <1>14, <2>1, HoldsOn DEF InStage
    <2>3. n # NoManifest
      BY <1>10, ManifestIsNotMissing
    <2>4. MemoryOf(p)'
      BY <1>5, <1>12, <1>14, <2>1, <2>3 DEF MemoryOf, ToLock, InStage, NoManifest
    <2>5. StagesOf(manifest, artifact, proc[p])'
      BY <1>1, <1>12, <1>15, <1>18, <2>1
    <2>6. RunOf(p)'
      BY <1>14, <2>1, <2>5 DEF RunOf
    <2> QED
      BY <2>2, <2>4, <2>6
  <1> QED
    BY <1>1, <1>2, <1>10, <1>12, <1>14, <1>19, <1>20, SavesRight

LEMMA WorkKeepsRight ==
  ASSUME DirectoryInvariant, NEW p \in Procs, Work(p)
  PROVE  DirectoryInvariant'
  <1>1. Alive(p) /\ proc[p].pc = "work" /\ UNCHANGED <<manifest, lock>>
    BY DEF Work, Self, Alive, Gone
  <1>2. /\ LockOf(p) /\ proc[p].kind = "run" /\ proc[p].man = manifest /\ artifact \in Artifacts
        /\ StagesOf(manifest, artifact, proc[p])
    BY <1>1, TheOneAlive, TheRun DEF InStage
  <1>3. PICK m \in Manifests : m = manifest /\ HashesAgree(m) /\ ResultsAgree(m)
    BY <1>1, TheRun DEF InStage
  <1>4. PICK me \in Running : me = proc[p]
    BY <1>1, TheOneAlive
  <1>5. /\ me.at \in 1..5 /\ me.cfg \in Cfgs /\ me.pc = "work" /\ me.kind = "run" /\ me.man = m
        /\ me.mem \in Artifacts
    BY <1>1, <1>2, <1>3, <1>4 DEF Running
  <1>6. PICK this \in Stage : this = STAGES[me.at]
    BY <1>5, PassedIsBefore
  <1>7. Upstream(this) \subseteq Passed(me.at) /\ this \notin Passed(me.at)
    BY <1>5, <1>6, PassedIsBefore
  <1>8. PICK a \in Artifacts : a = artifact
    BY <1>2
  <1>9. StagesOf(m, a, me)
    BY <1>2, <1>3, <1>4, <1>8
  <1>10. PICK r \in OfStages : r = Produced(me.cfg, this)
    BY <1>5, HashesAreOfStages
  <1>11. Result(me.cfg, this, me.mem, a["audio"]) = r
    <2>1. \A d \in Upstream(this) : me.mem[d] = Produced(me.cfg, d)
      BY <1>7, <1>9 DEF StagesOf
    <2>2. "audio" \in Upstream(this) => a["audio"] = Produced(me.cfg, "audio")
      BY <1>7, <1>9 DEF StagesOf
    <2> QED
      BY <1>5, <1>10, <2>1, <2>2, StageProduces
  <1>12. PICK mem : mem = [me.mem EXCEPT ![this] = r]
    OBVIOUS
  <1>13. mem \in Artifacts /\ mem[this] = r /\ \A s \in Stage : s # this => mem[s] = me.mem[s]
    BY <1>5, <1>12 DEF Artifacts
  <1>14. PICK b : b = [a EXCEPT ![this] = r]
    OBVIOUS
  <1>15. b \in Artifacts /\ b[this] = r /\ \A s \in Stage : s # this => b[s] = a[s]
    BY <1>14 DEF Artifacts
  <1>16. PICK new : new = [me EXCEPT !.pc = "wrote", !.mem = mem]
    OBVIOUS
  <1>17. proc' = [proc EXCEPT ![p] = new] /\ artifact' = b
    <2>1. proc' = [proc EXCEPT ![p] = [me EXCEPT !.pc = "wrote", !.mem[this] = r]] /\ artifact' = b
      BY <1>4, <1>6, <1>8, <1>11, <1>14 DEF Work, SetProcess, Self, Now
    <2> QED
      BY <1>12, <1>16, <2>1
  <1>18. "wrote" \in Pcs
    BY DEF Pcs, InStage
  <1>19. /\ new \in Running /\ new.pc = "wrote" /\ new.man = me.man /\ new.kind = me.kind
         /\ new.at = me.at /\ new.cfg = me.cfg /\ new.mem = mem
    BY ONLY <1>13, <1>16, <1>18, me \in Running DEF Running
  <1>20. m[this] = Record("running", Hash(me.cfg, this)) /\ m[this].status = "running"
    <2>1. m[this] = Record("running", Hash(me.cfg, this))
      BY <1>5, <1>6, <1>9 DEF StagesOf
    <2>2. Hash(me.cfg, this) \in OfStages
      BY <1>5, HashesAreOfStages
    <2> QED
      BY <2>1, <2>2, RecordsAreRecords
  <1>21. StagesOf(m, b, new)
    <2>1. /\ \A s \in Passed(me.at) :
               m[s] = Record("done", Hash(me.cfg, s)) /\ b[s] = Produced(me.cfg, s)
          /\ \A s \in Stage \ (Passed(me.at) \union {this}) : Ready(m, b, me.cfg, s)
      BY <1>6, <1>9, <1>15, <1>20, OtherStagesStay
    <2>2. \A s \in Passed(me.at) : s \in Stage /\ s # this /\ me.mem[s] = Produced(me.cfg, s)
      BY <1>5, <1>7, <1>9, PassedIsBefore DEF StagesOf
    <2>3. \A s \in Passed(me.at) : new.mem[s] = Produced(me.cfg, s)
      BY <1>13, <1>19, <2>2
    <2> QED
      BY <1>6, <1>10, <1>13, <1>15, <1>19, <1>20, <2>1, <2>3 DEF StagesOf
  <1>22. HashesAgree(m) /\ ResultsAgree(m)'
    <2>1. OutputsUnsure => OutputsUnsure'
      BY <1>1, <1>17, TheOneAlive, UnsureStays
    <2>2. \A s \in Stage : DoneUpTo(m, s) => s # this
      BY <1>20, UpstreamIsBefore DEF DoneUpTo, DoneIn
    <2>3. \A s \in Stage : DoneUpTo(m, s) => artifact'[s] = artifact[s]
      BY <1>8, <1>15, <1>17, <2>2
    <2> QED
      BY <1>3, <2>1, <2>3, LessStaysTrue
  <1>23. proc'[p] = new => LockOf(p)' /\ MemoryOf(p)' /\ RunOf(p)'
    <2>1. SUFFICES ASSUME proc'[p] = new PROVE LockOf(p)' /\ MemoryOf(p)' /\ RunOf(p)'
      OBVIOUS
    <2>2. LockOf(p)'
      BY <1>1, <1>2, <1>19, <2>1, HoldsOn DEF InStage
    <2>3. m # NoManifest
      BY ManifestIsNotMissing
    <2>4. MemoryOf(p)'
      BY <1>1, <1>3, <1>5, <1>19, <2>1, <2>3 DEF MemoryOf, ToLock, InStage, NoManifest
    <2>5. StagesOf(manifest, artifact, proc[p])'
      BY <1>1, <1>3, <1>17, <1>21, <2>1
    <2>6. RunOf(p)'
      BY <1>19, <2>1, <2>5 DEF RunOf
    <2> QED
      BY <2>2, <2>4, <2>6
  <1>24. manifest' = m
    BY <1>1, <1>3
  <1> QED
    BY <1>1, <1>15, <1>17, <1>19, <1>22, <1>23, <1>24, SavesRight

LEMMA StageEndsKeepsRight ==
  ASSUME DirectoryInvariant, NEW p \in Procs, NEW outcome \in {"failed", "cancelled"}, StageEnds(p, outcome)
  PROVE  DirectoryInvariant'
  <1>1. Alive(p) /\ proc[p].pc \in {"work", "wrote", "saved"} /\ UNCHANGED <<artifact, lock>>
    BY DEF StageEnds, Self, Alive, Gone
  <1>2. /\ LockOf(p) /\ proc[p].kind = "run" /\ proc[p].man = manifest /\ artifact \in Artifacts
    BY <1>1, TheOneAlive, TheRun DEF InStage
  <1>3. PICK m \in Manifests : m = manifest /\ HashesAgree(m) /\ ResultsAgree(m)
    BY <1>1, TheRun DEF InStage
  <1>4. PICK me \in Running : me = proc[p]
    BY <1>1, TheOneAlive
  <1>5. me.at \in 1..5 /\ me.cfg \in Cfgs /\ me.kind = "run" /\ me.man = m
    BY <1>2, <1>3, <1>4 DEF Running
  <1>6. PICK this \in Stage : this = STAGES[me.at]
    BY <1>5, PassedIsBefore
  <1>7. PICK h \in OfStages : h = Hash(me.cfg, this)
    BY <1>5, HashesAreOfStages
  <1>8. PICK r \in StageRecords : r = (IF outcome = "failed" THEN Record("failed", h) ELSE Unrecorded)
                                  /\ r.status # "done"
    BY RecordsAreRecords
  <1>9. PICK n : n = [m EXCEPT ![this] = r]
    OBVIOUS
  <1>10. n \in Manifests /\ n[this] = r /\ \A s \in Stage : s # this => n[s] = m[s]
    BY <1>9 DEF Manifests
  <1>11. PICK new : new = [me EXCEPT !.man = n, !.pc = "release", !.outcome = outcome]
    OBVIOUS
  <1>12. proc' = [proc EXCEPT ![p] = new] /\ manifest' = n
    BY <1>4, <1>5, <1>6, <1>7, <1>8, <1>9, <1>11 DEF StageEnds, SetProcess, Self, Now
  <1>13. "release" \in Pcs /\ outcome \in {"none", "ok", "failed", "cancelled"}
    BY DEF Pcs
  <1>14. new \in Running /\ new.pc = "release" /\ new.kind = me.kind /\ new.outcome = outcome
    BY ONLY <1>10, <1>11, <1>13, me \in Running DEF Running
  <1>15. HashesAgree(n) /\ ResultsAgree(n)'
    <2>1. \A s \in Stage : DoneIn(n, s) => n[s] = m[s]
      BY <1>8, <1>10 DEF DoneIn
    <2>2. OutputsUnsure => OutputsUnsure'
      BY <1>1, <1>12, TheOneAlive, UnsureStays
    <2> QED
      BY <1>1, <1>3, <2>1, <2>2, LessStaysTrue
  <1>16. proc'[p] = new => LockOf(p)' /\ MemoryOf(p)' /\ RunOf(p)'
    <2>1. SUFFICES ASSUME proc'[p] = new PROVE LockOf(p)' /\ MemoryOf(p)' /\ RunOf(p)'
      OBVIOUS
    <2>2. LockOf(p)'
      BY <1>1, <1>2, <1>14, <2>1, HoldsOn DEF InStage
    <2>3. MemoryOf(p)' /\ RunOf(p)'
      BY <1>14, <2>1 DEF MemoryOf, RunOf, ToLock, InStage
    <2> QED
      BY <2>2, <2>3
  <1> QED
    BY <1>1, <1>2, <1>10, <1>12, <1>14, <1>15, <1>16, SavesRight

LEMMA LeaveOffKeepsRight ==
  ASSUME DirectoryInvariant, NEW p \in Procs, NEW outcome \in {"failed", "cancelled"}, LeaveOff(p, outcome)
  PROVE  DirectoryInvariant'
  <1>1. Alive(p) /\ proc[p].pc \in {"stage", "work", "saved"} /\ UNCHANGED <<manifest, artifact, lock>>
    BY DEF LeaveOff, Self, Alive, Gone
  <1>2. LockOf(p)
    BY <1>1, TheOneAlive
  <1>3. PICK me \in Running : me = proc[p]
    BY <1>1, TheOneAlive
  <1>4. PICK new : new = [me EXCEPT !.pc = "release", !.outcome = outcome]
    OBVIOUS
  <1>5. proc' = [proc EXCEPT ![p] = new]
    BY <1>3, <1>4 DEF LeaveOff, SetProcess, Self
  <1>6. "release" \in Pcs /\ outcome \in {"none", "ok", "failed", "cancelled"}
    BY DEF Pcs
  <1>7. new \in Running /\ new.pc = "release" /\ new.kind = me.kind /\ new.outcome = outcome
    BY ONLY <1>4, <1>6, me \in Running DEF Running
  <1>8. proc'[p] = new => LockOf(p)' /\ MemoryOf(p)' /\ RunOf(p)'
    <2>1. SUFFICES ASSUME proc'[p] = new PROVE LockOf(p)' /\ MemoryOf(p)' /\ RunOf(p)'
      OBVIOUS
    <2>2. LockOf(p)'
      BY <1>1, <1>2, <1>7, <2>1, HoldsOn DEF InStage
    <2>3. MemoryOf(p)' /\ RunOf(p)'
      BY <1>7, <2>1 DEF MemoryOf, RunOf, ToLock, InStage
    <2> QED
      BY <2>2, <2>3
  <1> QED
    BY <1>1, <1>5, <1>7, <1>8, GoesOn

\* The outputs are sure while a run works, or an export was killed.
LEMMA UnsureIsKilled ==
  ASSUME DirectoryInvariant, NEW p \in Procs, Alive(p), proc[p].pc \in InStage, OutputsUnsure
  PROVE  OutputsMayDiffer
  BY TheRun DEF OutputsUnsure, OutputsMayDiffer, Self

LEMMA KilledStays ==
  ASSUME NEW p \in Procs, Alive(p), proc = [q \in Procs |-> proc[q]], NEW new,
         proc' = [proc EXCEPT ![p] = new]
  PROVE  OutputsMayDiffer => OutputsMayDiffer'
  <1>1. \A q \in Procs \ {p} : proc'[q] = proc[q]
    OBVIOUS
  <1>2. proc[p].pc # "killed"
    BY DEF Alive, Gone
  <1> QED
    BY <1>1, <1>2 DEF OutputsMayDiffer, Self

LEMMA AdvancedIs ==
  ASSUME NEW p, NEW me \in Running, NEW new, new = Advanced(p, me)
  PROVE  /\ new \in Running /\ new.kind = me.kind /\ new.cfg = me.cfg /\ new.man = me.man
         /\ new.mem = me.mem
         /\ me.at < 5 => new.pc = "stage" /\ new.at = me.at + 1
         /\ me.at = 5 => new.pc = "release" /\ new.outcome = "ok"
  <1>1. Len(STAGES) = 5
    BY DEF STAGES
  <1>2. me.at \in 1..5 /\ me.outcome \in {"none", "ok", "failed", "cancelled"}
    BY DEF Running
  <1>3. PICK pc \in {"release", "stage"} : pc = IF me.at = 5 THEN "release" ELSE "stage"
    OBVIOUS
  <1>4. PICK o \in {"none", "ok", "failed", "cancelled"} : o = IF me.at = 5 THEN "ok" ELSE me.outcome
    BY <1>2
  <1>5. PICK at \in 1..5 : at = IF me.at = 5 THEN me.at ELSE me.at + 1
    BY <1>2
  <1>6. new = [me EXCEPT !.pc = pc, !.outcome = o, !.at = at]
    BY <1>1, <1>3, <1>4, <1>5 DEF Advanced
  <1>7. pc \in Pcs
    BY DEF Pcs, InStage
  <1>8. /\ new \in Running /\ new.kind = me.kind /\ new.cfg = me.cfg /\ new.man = me.man
        /\ new.mem = me.mem /\ new.pc = pc /\ new.outcome = o /\ new.at = at
    BY ONLY <1>6, <1>7, me \in Running, at \in 1..5, o \in {"none", "ok", "failed", "cancelled"} DEF Running
  <1> QED
    BY <1>2, <1>3, <1>4, <1>5, <1>8

\* The stage is done and was the result of the settings; of the outputs, only if they are sure.
StagePassed(n, a, me, this) ==
  /\ me \in Running /\ me.kind = "run" /\ me.man = n /\ n \in Manifests
  /\ this \in Stage /\ this = STAGES[me.at]
  /\ \A s \in Passed(me.at) :
       /\ n[s] = Record("done", Hash(me.cfg, s))
       /\ me.mem[s] = Produced(me.cfg, s) /\ a[s] = Produced(me.cfg, s)
  /\ \A s \in Stage \ (Passed(me.at) \union {this}) : Ready(n, a, me.cfg, s)
  /\ n[this] = Record("done", Hash(me.cfg, this))
  /\ me.mem[this] = a[this]
  /\ a[this] = Produced(me.cfg, this) \/ this = "export"

\* The run goes on to the next stage, or reports its result.
LEMMA AdvanceKeepsRight ==
  ASSUME DirectoryInvariant, NEW p \in Procs, Alive(p), proc[p].pc \in InStage,
         NEW me, NEW n, NEW a, NEW this, StagePassed(n, a, me, this), a = artifact,
         a[this] = Produced(me.cfg, this) \/ OutputsMayDiffer,
         manifest' = n, artifact' = artifact, lock' = lock,
         HashesAgree(n), ResultsAgree(n)',
         proc' = [proc EXCEPT ![p] = Advanced(p, me)]
  PROVE  DirectoryInvariant'
  <1> DEFINE new == Advanced(p, me)
  <1>0. proc' = [proc EXCEPT ![p] = new]
    OBVIOUS
  <1>1. /\ new \in Running /\ new.kind = "run" /\ new.cfg = me.cfg /\ new.man = n /\ new.mem = me.mem
        /\ me.at < 5 => new.pc = "stage" /\ new.at = me.at + 1
        /\ me.at = 5 => new.pc = "release" /\ new.outcome = "ok"
    BY AdvancedIs DEF StagePassed
  <1> HIDE DEF new
  <1>2. me.at \in 1..5 /\ n \in Manifests /\ this \in Stage /\ this = STAGES[me.at]
    BY DEF Running, StagePassed
  <1>3. LockOf(p) /\ artifact \in Artifacts
    BY TheOneAlive
  <1>4. CASE me.at < 5
    <2>1. this # "export"
      BY <1>2, <1>4, PassedIsBefore
    <2>2. StagesOf(n, a, new)
      BY <1>1, <1>2, <1>4, <2>1, StageIsPassed DEF StagePassed
    <2>3. proc'[p] = new => LockOf(p)' /\ MemoryOf(p)' /\ RunOf(p)'
      <3>1. SUFFICES ASSUME proc'[p] = new PROVE LockOf(p)' /\ MemoryOf(p)' /\ RunOf(p)'
        OBVIOUS
      <3>2. LockOf(p)'
        BY <1>1, <1>3, <1>4, <3>1, HoldsOn DEF InStage
      <3>3. n # NoManifest
        BY <1>2, ManifestIsNotMissing
      <3>4. MemoryOf(p)'
        BY <1>1, <1>4, <3>1, <3>3 DEF MemoryOf, ToLock, InStage, NoManifest
      <3>5. StagesOf(manifest, artifact, proc[p])'
        BY <2>2, <3>1
      <3>6. RunOf(p)'
        BY <1>1, <1>4, <3>1, <3>5 DEF RunOf
      <3> QED
        BY <3>2, <3>4, <3>6
    <2> QED
      BY <1>0, <1>1, <1>2, <1>3, <2>3, SavesRight
  <1>5. CASE me.at = 5
    <2>1. this = "export" /\ "merge" \in Passed(me.at)
      BY <1>2, <1>5, PassedIsBefore
    <2>2. OutputsMayDiffer => OutputsMayDiffer'
      BY TheOneAlive, KilledStays
    <2>3. proc'[p] = new => LockOf(p)' /\ MemoryOf(p)' /\ RunOf(p)'
      <3>1. SUFFICES ASSUME proc'[p] = new PROVE LockOf(p)' /\ MemoryOf(p)' /\ RunOf(p)'
        OBVIOUS
      <3>2. LockOf(p)'
        BY <1>1, <1>3, <1>5, <3>1, HoldsOn DEF InStage
      <3>3. MemoryOf(p)'
        BY <1>1, <1>5, <3>1 DEF MemoryOf, ToLock, InStage
      <3>4. artifact'["merge"] = Produced(new.cfg, "merge")
        BY <1>1, <2>1 DEF StagePassed
      <3>5. artifact'["export"] = Produced(new.cfg, "export") \/ OutputsMayDiffer'
        BY <1>1, <2>1, <2>2
      <3>6. RunOf(p)'
        BY <1>1, <1>5, <3>1, <3>4, <3>5 DEF RunOf, InStage, Produced
      <3> QED
        BY <3>2, <3>3, <3>6
    <2> QED
      BY <1>0, <1>1, <1>2, <1>3, <2>3, SavesRight
  <1> QED
    BY <1>2, <1>4, <1>5

LEMMA SkipKeepsRight ==
  ASSUME DirectoryInvariant, HashTellsUse, NEW p \in Procs, Skip(p)
  PROVE  DirectoryInvariant'
  <1>1. Alive(p) /\ proc[p].pc = "stage" /\ UNCHANGED <<manifest, artifact, lock>> /\ IsDone(p, Now(p))
    BY DEF Skip, Restored, Self, Alive, Gone
  <1>2. /\ proc[p].kind = "run" /\ proc[p].man = manifest /\ artifact \in Artifacts
        /\ StagesOf(manifest, artifact, proc[p])
    BY <1>1, TheOneAlive, TheRun DEF InStage
  <1>3. PICK m \in Manifests : m = manifest /\ HashesAgree(m) /\ ResultsAgree(m)
    BY <1>1, TheRun DEF InStage
  <1>4. PICK me \in Running : me = proc[p]
    BY <1>1, TheOneAlive
  <1>5. /\ me.at \in 1..5 /\ me.cfg \in Cfgs /\ me.pc = "stage" /\ me.kind = "run" /\ me.man = m
        /\ me.mem \in Artifacts
    BY <1>1, <1>2, <1>3, <1>4 DEF Running
  <1>6. PICK this \in Stage : this = STAGES[me.at]
    BY <1>5, PassedIsBefore
  <1>7. Upstream(this) \subseteq Passed(me.at) /\ this \notin Passed(me.at) /\ Passed(me.at) \subseteq Stage
    BY <1>5, <1>6, PassedIsBefore
  <1>8. PICK a \in Artifacts : a = artifact
    BY <1>2
  <1>9. StagesOf(m, a, me)
    BY <1>2, <1>3, <1>4, <1>8
  <1>10. m[this] = Record("done", Hash(me.cfg, this)) /\ a[this] # Missing
    <2>1. Ready(m, a, me.cfg, this)
      BY <1>5, <1>6, <1>9 DEF StagesOf
    <2>2. m[this].status = "done" /\ a[this] # Missing
      BY <1>1, <1>3, <1>4, <1>5, <1>6, <1>8 DEF IsDone, Self, Now
    <2> QED
      BY <2>1, <2>2, RecordsAreRecords DEF Ready
  <1>11. a[this] = Produced(me.cfg, this) \/ (this = "export" /\ OutputsMayDiffer)
    <2>1. CASE this = "export" /\ OutputsUnsure
      BY <1>1, <2>1, UnsureIsKilled DEF InStage
    <2>2. CASE this = "export" => ~OutputsUnsure
      <3>1. ASSUME NEW d \in Upstream(this)
            PROVE  DoneIn(m, d)
        <4>1. d \in Stage /\ m[d] = Record("done", Hash(me.cfg, d))
          BY <1>7, <1>9 DEF StagesOf
        <4>2. Hash(me.cfg, d) \in OfStages
          BY <1>5, <4>1, HashesAreOfStages
        <4> QED
          BY <4>1, <4>2, RecordsAreRecords DEF DoneIn
      <3> QED
        BY <1>2, <1>3, <1>5, <1>8, <1>10, <2>2, <3>1, DoneIsProduced
    <2> QED
      BY <2>1, <2>2
  <1>12. PICK mem : mem = [me.mem EXCEPT ![this] = a[this]]
    OBVIOUS
  <1>13. a[this] \in OfStages \union {Missing}
    BY DEF Artifacts
  <1>14. mem \in Artifacts /\ mem[this] = a[this] /\ \A s \in Stage : s # this => mem[s] = me.mem[s]
    BY <1>5, <1>12, <1>13 DEF Artifacts
  <1>15. PICK mid : mid = [me EXCEPT !.mem = mem]
    OBVIOUS
  <1>16. /\ mid \in Running /\ mid.man = me.man /\ mid.kind = me.kind
         /\ mid.at = me.at /\ mid.cfg = me.cfg /\ mid.mem = mem
    BY ONLY <1>14, <1>15, me \in Running DEF Running
  <1>17. PICK new : new = Advanced(p, mid)
    OBVIOUS
  <1>18. proc' = [proc EXCEPT ![p] = new]
    <2>1. mid = [me EXCEPT !.mem[this] = a[this]]
      BY <1>12, <1>15
    <2> QED
      BY <1>4, <1>6, <1>8, <1>17, <2>1 DEF Skip, Restored, SetProcess, Self, Now
  <1>19. HashesAgree(m) /\ ResultsAgree(m)'
    <2>1. (\A s \in Stage : artifact'[s] = artifact[s]) /\ (OutputsUnsure => OutputsUnsure')
      BY <1>1, <1>18, TheOneAlive, UnsureStays
    <2> QED
      BY <1>3, <2>1, LessStaysTrue
  <1>20. \A s \in Passed(me.at) :
            /\ m[s] = Record("done", Hash(me.cfg, s))
            /\ mid.mem[s] = Produced(me.cfg, s) /\ a[s] = Produced(me.cfg, s)
    <2>1. \A s \in Passed(me.at) : s \in Stage /\ s # this /\ me.mem[s] = Produced(me.cfg, s)
      BY <1>7, <1>9 DEF StagesOf
    <2> QED
      BY <1>9, <1>14, <1>16, <2>1 DEF StagesOf
  <1>21. \A s \in Stage \ (Passed(me.at) \union {this}) : Ready(m, a, me.cfg, s)
    BY <1>6, <1>9 DEF StagesOf
  <1>22. manifest' = m /\ artifact' = artifact /\ lock' = lock /\ proc[p].pc \in InStage
    BY <1>1, <1>3 DEF InStage
  <1>23. /\ \A s \in Passed(mid.at) :
              /\ m[s] = Record("done", Hash(mid.cfg, s))
              /\ mid.mem[s] = Produced(mid.cfg, s) /\ a[s] = Produced(mid.cfg, s)
         /\ \A s \in Stage \ (Passed(mid.at) \union {this}) : Ready(m, a, mid.cfg, s)
    BY <1>16, <1>20, <1>21
  <1>24. /\ this = STAGES[mid.at] /\ m[this] = Record("done", Hash(mid.cfg, this))
         /\ a[this] = Produced(mid.cfg, this) \/ (this = "export" /\ OutputsMayDiffer)
         /\ mid.mem[this] = a[this] /\ mid.kind = "run" /\ mid.man = m /\ mid \in Running
    BY <1>5, <1>6, <1>10, <1>11, <1>14, <1>16
  <1> QED
    <2>1. StagePassed(m, a, mid, this)
      BY <1>23, <1>24 DEF StagePassed
    <2>2. a[this] = Produced(mid.cfg, this) \/ OutputsMayDiffer
      BY <1>24
    <2>3. proc' = [proc EXCEPT ![p] = Advanced(p, mid)]
      BY <1>17, <1>18
    <2> QED
      BY <1>1, <1>8, <1>19, <1>22, <2>1, <2>2, <2>3, AdvanceKeepsRight

LEMMA CompleteStageKeepsRight ==
  ASSUME DirectoryInvariant, NEW p \in Procs, CompleteStage(p)
  PROVE  DirectoryInvariant'
  <1>1. Alive(p) /\ proc[p].pc = "wrote" /\ UNCHANGED <<artifact, lock>>
    BY DEF CompleteStage, Self, Alive, Gone
  <1>2. /\ proc[p].kind = "run" /\ proc[p].man = manifest /\ artifact \in Artifacts
        /\ StagesOf(manifest, artifact, proc[p])
    BY <1>1, TheOneAlive, TheRun DEF InStage
  <1>3. PICK m \in Manifests : m = manifest /\ HashesAgree(m) /\ ResultsAgree(m)
    BY <1>1, TheRun DEF InStage
  <1>4. PICK me \in Running : me = proc[p]
    BY <1>1, TheOneAlive
  <1>5. /\ me.at \in 1..5 /\ me.cfg \in Cfgs /\ me.pc = "wrote" /\ me.kind = "run" /\ me.man = m
    BY <1>1, <1>2, <1>3, <1>4 DEF Running
  <1>6. PICK this \in Stage : this = STAGES[me.at]
    BY <1>5, PassedIsBefore
  <1>7. Upstream(this) \subseteq Passed(me.at) /\ this \notin Passed(me.at) /\ Passed(me.at) \subseteq Stage
    BY <1>5, <1>6, PassedIsBefore
  <1>8. PICK a \in Artifacts : a = artifact
    BY <1>2
  <1>9. StagesOf(m, a, me)
    BY <1>2, <1>3, <1>4, <1>8
  <1>10. PICK h \in OfStages : h = Hash(me.cfg, this)
    BY <1>5, HashesAreOfStages
  <1>11. PICK r \in StageRecords : r = Record("done", h) /\ r.status = "done" /\ r.hash = h
    BY RecordsAreRecords
  <1>12. PICK n : n = [m EXCEPT ![this] = r]
    OBVIOUS
  <1>13. n \in Manifests /\ n[this] = r /\ \A s \in Stage : s # this => n[s] = m[s]
    BY <1>12 DEF Manifests
  <1>14. PICK new : new = [me EXCEPT !.man = n, !.pc = "saved"]
    OBVIOUS
  <1>15. "saved" \in Pcs
    BY DEF Pcs, InStage
  <1>16. /\ new \in Running /\ new.pc = "saved" /\ new.man = n /\ new.kind = me.kind
         /\ new.at = me.at /\ new.cfg = me.cfg /\ new.mem = me.mem
    BY ONLY <1>13, <1>14, <1>15, me \in Running DEF Running
  <1>17. proc' = [proc EXCEPT ![p] = new] /\ manifest' = n
    BY <1>4, <1>5, <1>6, <1>10, <1>11, <1>12, <1>14 DEF CompleteStage, Saved, SetProcess, Self, Now
  <1>18. m[this].status # "done" /\ a[this] = Produced(me.cfg, this) /\ me.mem[this] = a[this]
    <2>1. m[this] = Record("running", h) /\ a[this] = Produced(me.cfg, this) /\ me.mem[this] = a[this]
      BY <1>5, <1>6, <1>9, <1>10 DEF StagesOf
    <2> QED
      BY <2>1, RecordsAreRecords
  <1>19. /\ \A s \in Passed(me.at) :
              n[s] = Record("done", Hash(me.cfg, s)) /\ a[s] = Produced(me.cfg, s)
         /\ \A s \in Stage \ (Passed(me.at) \union {this}) :
              Ready(n, a, me.cfg, s) /\ (n[s] # Unrecorded => this \notin Upstream(s))
    BY <1>6, <1>9, <1>13, <1>18, OtherStagesStay
  <1>20. \A s \in Passed(me.at) : me.mem[s] = Produced(me.cfg, s)
    BY <1>9 DEF StagesOf
  \* What depends on the stage is not done: it will be made again.
  <1>21. ASSUME NEW s \in Stage, DoneUpTo(n, s), s # this
         PROVE  this \notin Domain(s)
    <2>1. n[s].status = "done"
      BY <1>21, UpstreamIsBefore DEF DoneUpTo, DoneIn
    <2>2. n[s] # Unrecorded
      BY <2>1, RecordsAreRecords
    <2>3. s \in Passed(me.at) => this \notin Upstream(s)
      BY <1>5, <1>6, PassedIsBefore
    <2> QED
      BY <1>19, <1>21, <2>2, <2>3 DEF Domain
  <1>22. \A d \in Upstream(this) : d \in Stage /\ d # this /\ n[d] = Record("done", Hash(me.cfg, d))
    BY <1>7, <1>19
  <1>23. \A d \in Domain(this) : d \in Stage /\ n[d].hash = Hash(me.cfg, d)
    <2>1. ASSUME NEW d \in Domain(this)
          PROVE  d \in Stage /\ n[d].hash = Hash(me.cfg, d)
      <3>1. d \in Stage /\ n[d] = Record("done", Hash(me.cfg, d))
        BY <1>10, <1>11, <1>13, <1>22 DEF Domain
      <3>2. Hash(me.cfg, d) \in OfStages
        BY <1>5, <3>1, HashesAreOfStages
      <3> QED
        BY <3>1, <3>2, RecordsAreRecords
    <2> QED
      BY <2>1
  <1>24. HashesAgree(n)
    <2>1. ASSUME NEW s \in Stage, DoneUpTo(n, s)
          PROVE  /\ DOMAIN n[s].hash = Domain(s)
                 /\ \A d \in Upstream(s) : \A e \in Domain(d) : n[d].hash[e] = n[s].hash[e]
      <3>1. CASE s = this
        <4>1. \A d \in Domain(s) : n[d].hash = [e \in Domain(d) |-> Hashed(me.cfg, e)]
          BY <1>5, <1>23, <3>1, HashesAreOfStages
        <4>2. /\ s \in Domain(s) /\ Upstream(s) \subseteq Domain(s)
              /\ \A d \in Upstream(s) : Domain(d) \subseteq Domain(s)
          BY UpstreamIsBefore
        <4>3. n[s].hash = [e \in Domain(s) |-> Hashed(me.cfg, e)]
          BY <4>1, <4>2
        <4>4. ASSUME NEW d \in Upstream(s), NEW e \in Domain(d)
              PROVE  n[d].hash[e] = n[s].hash[e]
          <5>1. n[d].hash[e] = Hashed(me.cfg, e)
            BY <4>1, <4>2
          <5>2. e \in Domain(s)
            BY <4>2
          <5> QED
            BY <4>3, <5>1, <5>2
        <4> QED
          BY <4>3, <4>4
      <3>2. CASE s # this
        <4>1. this \notin Domain(s)
          BY <1>21, <2>1, <3>2
        <4>2. \A d \in Domain(s) : d \in Stage /\ n[d] = m[d]
          BY <1>13, <4>1, UpstreamIsBefore
        <4>3. DoneUpTo(m, s)
          BY <2>1, <4>2 DEF DoneUpTo, DoneIn
        <4>4. s \in Domain(s) /\ Upstream(s) \subseteq Domain(s)
          BY UpstreamIsBefore
        <4>5. /\ DOMAIN m[s].hash = Domain(s)
              /\ \A d \in Upstream(s) : \A e \in Domain(d) : m[d].hash[e] = m[s].hash[e]
          BY <1>3, <4>3 DEF HashesAgree
        <4> QED
          BY <4>2, <4>4, <4>5
      <3> QED
        BY <3>1, <3>2
    <2> QED
      BY <2>1 DEF HashesAgree
  <1>25. ResultsAgree(n)'
    <2>1. OutputsUnsure => OutputsUnsure'
      BY <1>1, <1>17, TheOneAlive, UnsureStays
    <2>2. ASSUME NEW s \in Stage, DoneUpTo(n, s), artifact'[s] # Missing, s = "export" => ~OutputsUnsure'
          PROVE  MadeAs(n[s].hash, artifact'[s], s)
      <3>1. CASE s = this
        <4>1. n[s].hash = Hash(me.cfg, s) /\ artifact'[s] = Produced(me.cfg, s)
          BY <1>1, <1>8, <1>10, <1>11, <1>13, <1>18, <3>1
        <4> QED
          BY <1>5, <4>1, HashesAreOfStages
      <3>2. CASE s # this
        <4>1. this \notin Domain(s)
          BY <1>21, <2>2, <3>2
        <4>2. \A d \in Domain(s) : d \in Stage /\ n[d] = m[d]
          BY <1>13, <4>1, UpstreamIsBefore
        <4>3. DoneUpTo(m, s)
          BY <2>2, <4>2 DEF DoneUpTo, DoneIn
        <4>4. MadeAs(m[s].hash, artifact[s], s)
          BY <1>1, <1>3, <2>1, <2>2, <4>3 DEF ResultsAgree
        <4> QED
          BY <1>1, <4>2, <4>4, UpstreamIsBefore
      <3> QED
        BY <3>1, <3>2
    <2>3. ResultsAgree(n)' <=>
            \A s \in Stage :
              DoneUpTo(n, s) /\ artifact'[s] # Missing /\ (s = "export" => ~OutputsUnsure')
                => MadeAs(n[s].hash, artifact'[s], s)
      BY DEF ResultsAgree, DoneUpTo, DoneIn, MadeAs, Domain, Upstream, Stage, Cfgs
    <2> QED
      BY <2>2, <2>3
  <1>26. StagesOf(n, a, new)
    <2>1. n[this] = Record("done", Hash(me.cfg, this))
      BY <1>10, <1>11, <1>13
    <2> QED
      BY <1>6, <1>16, <1>18, <1>19, <1>20, <2>1 DEF StagesOf
  <1>27. proc'[p] = new => LockOf(p)' /\ MemoryOf(p)' /\ RunOf(p)'
    <2>1. SUFFICES ASSUME proc'[p] = new PROVE LockOf(p)' /\ MemoryOf(p)' /\ RunOf(p)'
      OBVIOUS
    <2>2. LockOf(p)'
      BY <1>1, <1>16, <2>1, TheOneAlive, HoldsOn DEF InStage
    <2>3. n # NoManifest
      BY <1>13, ManifestIsNotMissing
    <2>4. MemoryOf(p)'
      BY <1>5, <1>16, <1>17, <2>1, <2>3 DEF MemoryOf, ToLock, InStage, NoManifest
    <2>5. StagesOf(manifest, artifact, proc[p])'
      BY <1>1, <1>8, <1>17, <1>26, <2>1
    <2>6. RunOf(p)'
      BY <1>16, <2>1, <2>5 DEF RunOf
    <2> QED
      BY <2>2, <2>4, <2>6
  <1> QED
    BY <1>1, <1>2, <1>13, <1>16, <1>17, <1>24, <1>25, <1>27, SavesRight

LEMMA GoOnKeepsRight ==
  ASSUME DirectoryInvariant, NEW p \in Procs, GoOn(p)
  PROVE  DirectoryInvariant'
  <1>1. Alive(p) /\ proc[p].pc = "saved" /\ UNCHANGED <<manifest, artifact, lock>>
        /\ proc[p].pc \in InStage
    BY DEF GoOn, Self, Alive, Gone, InStage
  <1>2. /\ proc[p].kind = "run" /\ proc[p].man = manifest /\ artifact \in Artifacts
        /\ StagesOf(manifest, artifact, proc[p])
    BY <1>1, TheOneAlive, TheRun
  <1>3. PICK m \in Manifests : m = manifest /\ HashesAgree(m) /\ ResultsAgree(m)
    BY <1>1, TheRun
  <1>4. PICK me \in Running : me = proc[p]
    BY <1>1, TheOneAlive
  <1>5. me.at \in 1..5 /\ me.pc = "saved" /\ me.kind = "run" /\ me.man = m
    BY <1>1, <1>2, <1>3, <1>4 DEF Running
  <1>6. PICK this \in Stage : this = STAGES[me.at]
    BY <1>5, PassedIsBefore
  <1>7. PICK a \in Artifacts : a = artifact
    BY <1>2
  <1>8. StagesOf(m, a, me)
    BY <1>2, <1>3, <1>4, <1>7
  <1>9. StagePassed(m, a, me, this)
    BY <1>5, <1>6, <1>8 DEF StagePassed, StagesOf
  <1>10. a[this] = Produced(me.cfg, this)
    BY <1>5, <1>6, <1>8 DEF StagesOf
  <1>11. PICK new : new = Advanced(p, me)
    OBVIOUS
  <1>12. proc' = [proc EXCEPT ![p] = new]
    BY <1>4, <1>11 DEF GoOn, SetProcess, Self
  <1>13. HashesAgree(m) /\ ResultsAgree(m)'
    <2>1. (\A s \in Stage : artifact'[s] = artifact[s]) /\ (OutputsUnsure => OutputsUnsure')
      BY <1>1, <1>12, TheOneAlive, UnsureStays
    <2> QED
      BY <1>3, <2>1, LessStaysTrue
  <1>14. manifest' = m /\ artifact' = artifact /\ lock' = lock
    BY <1>1, <1>3
  <1> QED
    BY <1>1, <1>7, <1>9, <1>10, <1>11, <1>12, <1>13, <1>14, AdvanceKeepsRight

\* What reconcile keeps is done with these settings, and so is all it depends on.
LEMMA KeptIsDone ==
  ASSUME NEW p \in Procs, NEW s \in Stage, s \notin Invalid(p)
  PROVE  IsDone(p, s) /\ \A d \in Upstream(s) : d \notin Invalid(p)
  <1>1. PICK own : own = IF Self(p).force THEN Stage ELSE {t \in Stage : ~IsDone(p, t)}
    OBVIOUS
  <1>2. Invalid(p) = own \union UNION {DEPENDENTS[t] : t \in own}
    BY <1>1 DEF Invalid
  <1>3. own \subseteq Stage
    BY <1>1
  <1>4. s \notin own /\ IsDone(p, s)
    BY <1>1, <1>2
  <1>5. ASSUME NEW d \in Upstream(s), d \in Invalid(p)
        PROVE  FALSE
    <2>1. d \in Stage /\ Domain(d) \subseteq Upstream(s)
      BY UpstreamIsBefore
    <2>2. PICK e \in own : e = d \/ d \in DEPENDENTS[e]
      BY <1>2, <1>5
    <2>3. e \in Domain(d)
      BY <1>3, <2>1, <2>2, DependentsAreAfter DEF Domain
    <2>4. s \in DEPENDENTS[e]
      BY <1>3, <2>1, <2>3, DependentsAreAfter
    <2> QED
      BY <1>2, <2>2, <2>4
  <1> QED
    BY <1>4, <1>5

LEMMA ReconcileKeepsRight ==
  ASSUME DirectoryInvariant, NEW p \in Procs, Reconcile(p)
  PROVE  DirectoryInvariant'
  <1>1. Alive(p) /\ proc[p].pc = "locked" /\ proc[p].kind = "run" /\ UNCHANGED <<artifact, lock>>
    BY DEF Reconcile, Self, Alive, Gone
  <1>2. LockOf(p) /\ MemoryOf(p) /\ ManifestIsTrue /\ artifact \in Artifacts
        /\ manifest \in Manifests \union {NoManifest}
    BY <1>1, TheOneAlive DEF DirectoryInvariant
  <1>3. PICK me \in Running : me = proc[p]
    BY <1>1, TheOneAlive
  <1>4. PICK m \in Manifests : m = manifest /\ m = me.man /\ HashesAgree(m) /\ ResultsAgree(m)
    BY <1>1, <1>2, <1>3 DEF MemoryOf, ManifestIsTrue
  <1>5. me.at = 1 /\ me.cfg \in Cfgs /\ me.kind = "run"
    BY <1>1, <1>2, <1>3 DEF MemoryOf, Running
  <1>6. PICK left : left = Invalid(p)
    OBVIOUS
  <1>7. PICK n : n = [s \in Stage |-> IF s \in left THEN Unrecorded ELSE m[s]]
    OBVIOUS
  <1>8. n \in Manifests /\ \A s \in Stage : n[s] = IF s \in left THEN Unrecorded ELSE m[s]
    BY <1>7, RecordsAreRecords DEF Manifests
  <1>9. PICK new : new = [me EXCEPT !.man = n, !.pc = "stage"]
    OBVIOUS
  <1>10. proc' = [proc EXCEPT ![p] = new] /\ manifest' = n
    BY <1>3, <1>4, <1>6, <1>7, <1>9 DEF Reconcile, Saved, SetProcess, Self
  <1>11. "stage" \in Pcs
    BY DEF Pcs, InStage
  <1>12. /\ new \in Running /\ new.pc = "stage" /\ new.man = n /\ new.kind = me.kind
         /\ new.at = me.at /\ new.cfg = me.cfg
    BY ONLY <1>8, <1>9, <1>11, me \in Running DEF Running
  <1>13. PICK a : a = artifact
    OBVIOUS
  <1>14. ASSUME NEW s \in Stage, s \notin left
         PROVE  /\ m[s] = Record("done", Hash(me.cfg, s)) /\ a[s] # Missing
                /\ DoneIn(m, s) /\ \A d \in Upstream(s) : d \notin left
    <2>1. IsDone(p, s) /\ \A d \in Upstream(s) : d \notin left
      BY <1>6, <1>14, KeptIsDone
    <2>2. m[s].status = "done" /\ m[s].hash = Hash(me.cfg, s) /\ a[s] # Missing
      BY <1>3, <1>4, <1>13, <2>1 DEF IsDone, Self
    <2>3. m[s] = [status |-> m[s].status, hash |-> m[s].hash]
      <3>1. m[s] \in StageRecords
        BY DEF Manifests
      <3> QED
        BY <3>1 DEF StageRecords
    <2> QED
      BY <2>1, <2>2, <2>3 DEF Record, DoneIn
  <1>15. ASSUME NEW s \in Stage
         PROVE  Ready(n, a, me.cfg, s)
    <2>1. CASE s \in left
      BY <1>8, <2>1 DEF Ready
    <2>2. CASE s \notin left
      <3>1. ASSUME NEW d \in Upstream(s)
            PROVE  DoneIn(n, d)
        <4>1. d \in Stage /\ d \notin left
          BY <1>14, <2>2, UpstreamIsBefore
        <4> QED
          BY <1>8, <1>14, <4>1 DEF DoneIn
      <3> QED
        BY <1>8, <1>14, <2>2, <3>1 DEF Ready
    <2> QED
      BY <2>1, <2>2
  <1>16. StagesOf(n, a, new)
    <2>1. Passed(1) = {}
      <3>1. 1..(1 - 1) = {}
        OBVIOUS
      <3> QED
        BY <3>1 DEF Passed
    <2>2. STAGES[1] \in Stage
      BY PassedIsBefore
    <2> QED
      BY <1>5, <1>12, <1>15, <2>1, <2>2 DEF StagesOf
  <1>17. HashesAgree(n) /\ ResultsAgree(n)'
    <2>1. \A s \in Stage : DoneIn(n, s) => n[s] = m[s]
      BY <1>8, RecordsAreRecords DEF DoneIn
    <2>2. OutputsUnsure => OutputsUnsure'
      BY <1>1, <1>10, TheOneAlive, UnsureStays
    <2>3. \A s \in Stage : artifact'[s] = artifact[s]
      BY <1>1
    <2> QED
      BY <1>4, <2>1, <2>2, <2>3, LessStaysTrue
  <1>18. proc'[p] = new => LockOf(p)' /\ MemoryOf(p)' /\ RunOf(p)'
    <2>1. SUFFICES ASSUME proc'[p] = new PROVE LockOf(p)' /\ MemoryOf(p)' /\ RunOf(p)'
      OBVIOUS
    <2>2. LockOf(p)'
      BY <1>1, <1>2, <1>12, <2>1, HoldsOn DEF InStage
    <2>3. n # NoManifest
      BY <1>8, ManifestIsNotMissing
    <2>4. MemoryOf(p)'
      BY <1>5, <1>10, <1>12, <2>1, <2>3 DEF MemoryOf, ToLock, InStage, NoManifest
    <2>5. StagesOf(manifest, artifact, proc[p])'
      BY <1>1, <1>10, <1>13, <1>16, <2>1
    <2>6. RunOf(p)'
      BY <1>12, <2>1, <2>5 DEF RunOf
    <2> QED
      BY <2>2, <2>4, <2>6
  <1> QED
    BY <1>1, <1>2, <1>8, <1>10, <1>12, <1>17, <1>18, SavesRight

----------------------------------------------------------------------------
(* The export of an existing job. *)

LEMMA ExportAgainKeepsRight ==
  ASSUME DirectoryInvariant, NEW p \in Procs, ExportAgain(p)
  PROVE  DirectoryInvariant'
  <1>1. Alive(p) /\ proc[p].pc = "locked" /\ proc[p].kind = "export" /\ UNCHANGED <<manifest, lock>>
    BY DEF ExportAgain, NothingMerged, Self, Alive, Gone
  <1>2. LockOf(p) /\ MemoryOf(p) /\ ManifestIsTrue /\ artifact \in Artifacts
        /\ manifest \in Manifests \union {NoManifest}
    BY <1>1, TheOneAlive DEF DirectoryInvariant
  <1>3. PICK me \in Running : me = proc[p]
    BY <1>1, TheOneAlive
  <1>4. PICK m \in Manifests : m = manifest /\ HashesAgree(m) /\ ResultsAgree(m) /\ me.man = Loaded(m)
    BY <1>1, <1>2, <1>3 DEF MemoryOf, ManifestIsTrue
  <1>5. me.kind = "export" /\ me.cfg \in Cfgs
    BY <1>1, <1>3 DEF Running
  <1>6. CASE artifact["merge"] = Missing
    <2>1. PICK new : new = [me EXCEPT !.pc = "release", !.outcome = "failed"]
      OBVIOUS
    <2>2. proc' = [proc EXCEPT ![p] = new] /\ UNCHANGED artifact
      BY <1>3, <1>6, <2>1 DEF ExportAgain, NothingMerged, SetProcess, Self
    <2>3. "release" \in Pcs
      BY DEF Pcs
    <2>4. new \in Running /\ new.pc = "release" /\ new.kind = me.kind
      BY ONLY <2>1, <2>3, me \in Running DEF Running
    <2>5. proc'[p] = new => LockOf(p)' /\ MemoryOf(p)' /\ RunOf(p)'
      <3>1. SUFFICES ASSUME proc'[p] = new PROVE LockOf(p)' /\ MemoryOf(p)' /\ RunOf(p)'
        OBVIOUS
      <3>2. LockOf(p)'
        BY <1>1, <1>2, <2>4, <3>1, HoldsOn
      <3> QED
        BY <1>5, <2>4, <3>1, <3>2 DEF MemoryOf, RunOf, ToLock, InStage
    <2> QED
      BY <1>1, <2>2, <2>4, <2>5, GoesOn
  <1>7. CASE artifact["merge"] # Missing
    <2>1. PICK x : x = Upon("export", me.cfg.out, artifact["merge"])
      OBVIOUS
    <2>2. x \in OfStages
      <3>1. artifact["merge"] \in OfStages
        BY <1>2, <1>7, FiveStages DEF Artifacts
      <3> QED
        BY <1>5, <2>1, <3>1, ExportIsOfStages
    <2>3. PICK new : new = [me EXCEPT !.pc = "exported"]
      OBVIOUS
    <2>4. proc' = [proc EXCEPT ![p] = new] /\ artifact' = [artifact EXCEPT !["export"] = x]
      BY <1>3, <1>7, <2>1, <2>3 DEF ExportAgain, NothingMerged, SetProcess, Self
    <2>5. "exported" \in Pcs
      BY DEF Pcs
    <2>6. new \in Running /\ new.pc = "exported" /\ new.kind = me.kind /\ new.man = me.man /\ new.cfg = me.cfg
      BY ONLY <2>3, <2>5, me \in Running DEF Running
    <2>7. "export" \in Stage /\ "merge" \in Stage
      BY FiveStages
    <2>8. artifact' \in Artifacts /\ artifact'["export"] = x /\ \A s \in Stage : s # "export" => artifact'[s] = artifact[s]
      BY <1>2, <2>2, <2>4, <2>7 DEF Artifacts
    <2>9. proc'[p] = new
      BY <1>1, <2>4, TheOneAlive
    <2>10. OutputsUnsure'
      BY <1>5, <2>6, <2>9 DEF OutputsUnsure
    <2>11. HashesAgree(m) /\ ResultsAgree(m)'
      BY <1>4, <2>8, <2>10, LessStaysTrue
    <2>12. LockOf(p)' /\ MemoryOf(p)' /\ RunOf(p)'
      <3>1. LockOf(p)'
        BY <1>1, <1>2, <2>6, <2>9, HoldsOn
      <3>2. m # NoManifest /\ manifest' = m
        BY <1>1, <1>4, ManifestIsNotMissing
      <3>3. MemoryOf(p)'
        <4>1. proc'[p].pc = "exported" /\ proc'[p].kind = "export" /\ proc'[p].man = Loaded(manifest)'
          BY <1>1, <1>4, <1>5, <2>6, <2>9 DEF Loaded
        <4> QED
          BY <3>2, <4>1 DEF MemoryOf, ToLock, InStage
      <3>4. RunOf(p)'
        <4>1. artifact'["merge"] = artifact["merge"]
          BY <2>7, <2>8
        <4>2. artifact'["export"] = Upon("export", proc'[p].cfg.out, artifact'["merge"])
          BY <2>1, <2>6, <2>8, <2>9, <4>1
        <4> QED
          BY <1>7, <2>6, <2>9, <4>1, <4>2 DEF RunOf, InStage, Upon
      <3> QED
        BY <3>1, <3>3, <3>4
    <2>13. manifest' = m
      BY <1>1, <1>4
    <2> QED
      BY <1>1, <2>4, <2>6, <2>8, <2>11, <2>12, <2>13, SavesRight
  <1> QED
    BY <1>6, <1>7

\* An export of a merge is what its hash says if the merge is.
LEMMA ExportIsMade ==
  ASSUME NEW c \in Cfgs, NEW h, NEW a, DOMAIN h = Domain("merge"), MadeAs(h, a, "merge")
  PROVE  /\ DOMAIN Upon("export", c.out, h) = Domain("export")
         /\ \A e \in Domain("merge") : Upon("export", c.out, h)[e] = h[e]
         /\ MadeAs(Upon("export", c.out, h), Upon("export", c.out, a), "export")
  <1>1. Domain("export") = {"export"} \union Domain("merge") /\ "export" \notin Domain("merge")
    BY FiveStages DEF Domain
  <1>2. DOMAIN a = Domain("merge")
    BY DEF MadeAs
  <1>3. PICK g : g = Upon("export", c.out, h)
    OBVIOUS
  <1>4. DOMAIN g = Domain("export") /\ g["export"] = c.out /\ \A e \in Domain("merge") : g[e] = h[e]
    BY <1>1, <1>3 DEF Upon
  <1>5. PICK b : b = Upon("export", c.out, a)
    OBVIOUS
  <1>6. DOMAIN b = Domain("export") /\ b["export"] = c.out /\ \A e \in Domain("merge") : b[e] = a[e]
    BY <1>1, <1>2, <1>5 DEF Upon
  <1>7. Hashed(c, "export") = c.out /\ Used(c, "export") = c.out
    BY DEF Hashed, Used
  <1>8. \A d \in Domain("merge") : \E e \in Cfgs : h[d] = Hashed(e, d) /\ a[d] = Used(e, d)
    BY DEF MadeAs
  <1>9. ASSUME NEW d \in Domain("export")
        PROVE  \E e \in Cfgs : g[d] = Hashed(e, d) /\ b[d] = Used(e, d)
    <2>1. CASE d = "export"
      BY <1>4, <1>6, <1>7, <2>1
    <2>2. CASE d \in Domain("merge")
      BY <1>4, <1>6, <1>8, <2>2
    <2> QED
      BY <1>1, <1>9, <2>1, <2>2
  <1>10. MadeAs(g, b, "export")
    BY <1>6, <1>9 DEF MadeAs
  <1> QED
    BY <1>3, <1>4, <1>5, <1>10

LEMMA ExportCompletesKeepsRight ==
  ASSUME DirectoryInvariant, NEW p \in Procs, ExportCompletes(p)
  PROVE  DirectoryInvariant'
  <1>1. Alive(p) /\ proc[p].pc = "exported" /\ UNCHANGED <<artifact, lock>>
    BY DEF ExportCompletes, Self, Alive, Gone
  <1>2. LockOf(p) /\ MemoryOf(p) /\ RunOf(p) /\ ManifestIsTrue /\ artifact \in Artifacts
        /\ manifest \in Manifests \union {NoManifest}
    BY <1>1, TheOneAlive DEF DirectoryInvariant
  <1>3. PICK me \in Running : me = proc[p]
    BY <1>1, TheOneAlive
  <1>4. PICK m \in Manifests : m = manifest /\ HashesAgree(m) /\ ResultsAgree(m) /\ me.man = Loaded(m)
    BY <1>1, <1>2, <1>3 DEF MemoryOf, ManifestIsTrue
  <1>5. /\ me.kind = "export" /\ me.cfg \in Cfgs /\ artifact["merge"] # Missing
        /\ artifact["export"] = Upon("export", me.cfg.out, artifact["merge"])
    BY <1>1, <1>2, <1>3 DEF Running, MemoryOf, RunOf
  <1>6. PICK man \in Manifests : man = Loaded(m)
    BY LoadedIsTheSame
  <1>7. /\ "export" \in Stage /\ "merge" \in Stage /\ "merge" \in Upstream("export")
        /\ Upstream("export") = Domain("merge") /\ "export" \notin Domain("merge")
        /\ \A s \in Stage : s # "export" => "export" \notin Domain(s)
    BY FiveStages DEF Domain
  <1>8. PICK h : h = Upon("export", me.cfg.out, man["merge"].hash)
    OBVIOUS
  <1>9. h \in OfStages
    <2>1. man["merge"].hash \in OfStages \union {NoHash}
      BY <1>7 DEF Manifests, StageRecords
    <2> QED
      BY <1>5, <1>8, <2>1, ExportIsOfStages
  <1>10. PICK r \in StageRecords : r = Record("done", h) /\ r.hash = h
    BY <1>9, RecordsAreRecords
  <1>11. PICK n : n = [man EXCEPT !["export"] = r]
    OBVIOUS
  <1>12. n \in Manifests /\ n["export"] = r /\ \A s \in Stage : s # "export" => n[s] = man[s]
    BY <1>7, <1>11 DEF Manifests
  <1>13. PICK new : new = [me EXCEPT !.man = n, !.pc = "release"]
    OBVIOUS
  <1>14. proc' = [proc EXCEPT ![p] = new] /\ manifest' = n
    BY <1>3, <1>4, <1>6, <1>8, <1>10, <1>11, <1>13 DEF ExportCompletes, Saved, SetProcess, Self
  <1>15. "release" \in Pcs
    BY DEF Pcs
  <1>16. new \in Running /\ new.pc = "release" /\ new.kind = me.kind
    BY ONLY <1>12, <1>13, <1>15, me \in Running DEF Running
  \* What is done before the export was so.
  <1>17. ASSUME NEW s \in Stage, s # "export", DoneUpTo(n, s)
         PROVE  DoneUpTo(m, s) /\ \A d \in Domain(s) : n[d] = m[d]
    <2>1. \A d \in Domain(s) : d \in Stage /\ d # "export" /\ DoneIn(man, d)
      BY <1>7, <1>12, <1>17, UpstreamIsBefore DEF DoneUpTo, DoneIn
    <2>2. \A d \in Domain(s) : DoneIn(m, d) /\ man[d] = m[d]
      BY <1>6, <2>1, LoadedIsTheSame
    <2> QED
      BY <1>12, <2>1, <2>2 DEF DoneUpTo
  \* The export is done after a merge that is.
  <1>18. ASSUME DoneUpTo(n, "export")
         PROVE  /\ DoneUpTo(m, "merge") /\ DOMAIN m["merge"].hash = Domain("merge")
                /\ h = Upon("export", me.cfg.out, m["merge"].hash)
                /\ \A d \in Domain("merge") : n[d] = m[d]
                /\ MadeAs(m["merge"].hash, artifact["merge"], "merge")
    <2>1. DoneUpTo(n, "merge")
      BY <1>7, <1>18 DEF DoneUpTo, Domain
    <2>2. DoneUpTo(m, "merge") /\ \A d \in Domain("merge") : n[d] = m[d]
      BY <1>7, <1>17, <2>1
    <2>3. DOMAIN m["merge"].hash = Domain("merge")
      BY <1>4, <1>7, <2>2 DEF HashesAgree
    <2>4. man["merge"] = m["merge"]
      BY <1>7, <1>12, <2>2 DEF Domain
    <2>5. MadeAs(m["merge"].hash, artifact["merge"], "merge")
      BY <1>4, <1>5, <1>7, <2>2 DEF ResultsAgree
    <2> QED
      BY <1>8, <2>2, <2>3, <2>4, <2>5
  <1>19. HashesAgree(n)
    <2>1. ASSUME NEW s \in Stage, DoneUpTo(n, s)
          PROVE  /\ DOMAIN n[s].hash = Domain(s)
                 /\ \A d \in Upstream(s) : \A e \in Domain(d) : n[d].hash[e] = n[s].hash[e]
      <3>1. CASE s # "export"
        <4>1. DoneUpTo(m, s) /\ \A d \in Domain(s) : n[d] = m[d]
          BY <1>17, <2>1, <3>1
        <4>2. s \in Domain(s) /\ Upstream(s) \subseteq Domain(s)
          BY UpstreamIsBefore
        <4>3. /\ DOMAIN m[s].hash = Domain(s)
              /\ \A d \in Upstream(s) : \A e \in Domain(d) : m[d].hash[e] = m[s].hash[e]
          BY <1>4, <4>1 DEF HashesAgree
        <4> QED
          BY <4>1, <4>2, <4>3
      <3>2. CASE s = "export"
        <4>1. /\ DoneUpTo(m, "merge") /\ DOMAIN m["merge"].hash = Domain("merge")
              /\ h = Upon("export", me.cfg.out, m["merge"].hash)
              /\ \A d \in Domain("merge") : n[d] = m[d]
              /\ MadeAs(m["merge"].hash, artifact["merge"], "merge")
          BY <1>18, <2>1, <3>2
        <4>2. n[s].hash = h
          BY <1>10, <1>12, <3>2
        <4>3. DOMAIN h = Domain("export") /\ \A e \in Domain("merge") : h[e] = m["merge"].hash[e]
          BY <1>5, <4>1, ExportIsMade
        <4>4. ASSUME NEW d \in Upstream("export"), NEW e \in Domain(d)
              PROVE  n[d].hash[e] = h[e]
          <5>1. d \in Domain("merge") /\ d \in Stage
            BY <1>7, UpstreamIsBefore
          <5>2. e \in Domain("merge")
            BY <1>7, UpstreamIsBefore
          <5>3. m[d].hash[e] = m["merge"].hash[e]
            <6>1. CASE d = "merge"
              BY <6>1
            <6>2. CASE d \in Upstream("merge")
              BY <1>4, <1>7, <4>1, <6>2 DEF HashesAgree
            <6> QED
              BY <5>1, <6>1, <6>2 DEF Domain
          <5> QED
            BY <4>1, <4>3, <5>1, <5>2, <5>3
        <4> QED
          BY <3>2, <4>2, <4>3, <4>4
      <3> QED
        BY <3>1, <3>2
    <2> QED
      BY <2>1 DEF HashesAgree
  <1>20. ResultsAgree(n)'
    <2>1. ASSUME NEW s \in Stage, DoneUpTo(n, s), artifact'[s] # Missing
          PROVE  MadeAs(n[s].hash, artifact'[s], s)
      <3>1. CASE s # "export"
        <4>1. DoneUpTo(m, s) /\ \A d \in Domain(s) : n[d] = m[d]
          BY <1>17, <2>1, <3>1
        <4>2. MadeAs(m[s].hash, artifact[s], s)
          BY <1>1, <1>4, <2>1, <3>1, <4>1 DEF ResultsAgree
        <4> QED
          BY <1>1, <4>1, <4>2, UpstreamIsBefore
      <3>2. CASE s = "export"
        <4>1. /\ DOMAIN m["merge"].hash = Domain("merge")
              /\ h = Upon("export", me.cfg.out, m["merge"].hash)
              /\ MadeAs(m["merge"].hash, artifact["merge"], "merge")
          BY <1>18, <2>1, <3>2
        <4>2. MadeAs(h, artifact["export"], "export")
          BY <1>5, <4>1, ExportIsMade
        <4> QED
          BY <1>1, <1>10, <1>12, <3>2, <4>2
      <3> QED
        BY <3>1, <3>2
    <2>2. ResultsAgree(n)' <=>
            \A s \in Stage :
              DoneUpTo(n, s) /\ artifact'[s] # Missing /\ (s = "export" => ~OutputsUnsure')
                => MadeAs(n[s].hash, artifact'[s], s)
      BY DEF ResultsAgree, DoneUpTo, DoneIn, MadeAs, Domain, Upstream, Stage, Cfgs
    <2> QED
      BY <2>1, <2>2
  <1>21. proc'[p] = new => LockOf(p)' /\ MemoryOf(p)' /\ RunOf(p)'
    <2>1. SUFFICES ASSUME proc'[p] = new PROVE LockOf(p)' /\ MemoryOf(p)' /\ RunOf(p)'
      OBVIOUS
    <2>2. LockOf(p)'
      BY <1>1, <1>2, <1>16, <2>1, HoldsOn
    <2> QED
      BY <1>5, <1>16, <2>1, <2>2 DEF MemoryOf, RunOf, ToLock, InStage
  <1> QED
    BY <1>1, <1>2, <1>12, <1>14, <1>16, <1>19, <1>20, <1>21, SavesRight

----------------------------------------------------------------------------
(* When settings of one hash are used alike. *)

\* They are unless word timestamps are "auto" and only some of the settings separate the
\* speakers: pipeline.py:578 decides the words by a choice that is no part of the hash.
LEMMA WhenHashTellsUse ==
  ASSUME \/ \A l \in Launches : l.cfg.words # "auto"
         \/ \A l, m \in Launches : l.cfg.diar = m.cfg.diar
  PROVE  HashTellsUse
  <1>1. SUFFICES ASSUME NEW l \in Launches, NEW m \in Launches, NEW s \in Stage,
                        Hashed(l.cfg, s) = Hashed(m.cfg, s)
                 PROVE  Used(l.cfg, s) = Used(m.cfg, s)
    BY DEF HashTellsUse
  <1>2. CASE s # "asr"
    BY <1>1, <1>2 DEF Used
  <1>3. CASE s = "asr"
    <2>1. l.cfg.asr = m.cfg.asr /\ l.cfg.words = m.cfg.words
      BY <1>1, <1>3 DEF Hashed
    <2> QED
      BY <1>3, <2>1 DEF Used
  <1> QED
    BY <1>2, <1>3

----------------------------------------------------------------------------
(* The directory. *)

LEMMA DirectoryStarts ==
  ASSUME DirectoryInit
  PROVE  DirectoryInvariant
  <1>1. [s \in Stage |-> Missing] \in Artifacts
    BY DEF Artifacts
  <1>2. \A p \in Procs : proc[p].pc = "absent"
    BY DEF DirectoryInit, Absent
  <1>3. \A p \in Procs : ~Alive(p)
    BY <1>2 DEF Alive, Gone
  <1>4. DirectoryTypes
    BY <1>1, <1>3 DEF DirectoryInit, DirectoryTypes
  <1>5. ManifestIsTrue
    BY DEF DirectoryInit, ManifestIsTrue
  <1>6. \A p \in Procs : ProcessIsRight(p)
    BY <1>2 DEF DirectoryInit, ProcessIsRight, LockOf, MemoryOf, RunOf, ToLock, InStage
  <1> QED
    BY <1>4, <1>5, <1>6 DEF DirectoryInvariant

LEMMA ProcessKeepsRight ==
  ASSUME DirectoryInvariant, HashTellsUse, NEW p \in Procs, ProcessStep(p)
  PROVE  DirectoryInvariant'
  <1>1. CASE Open(p)
    BY <1>1, OpenKeepsRight
  <1>2. CASE OpenSaves(p)
    BY <1>2, OpenSavesKeepsRight
  <1>3. CASE GetJob(p)
    BY <1>3, GetKeepsRight
  <1>4. CASE TryLock(p)
    BY <1>4, TryLockKeepsRight
  <1>5. CASE WritePid(p)
    BY <1>5, WritePidKeepsRight
  <1>6. CASE ReadOwner(p)
    BY <1>6, ReadOwnerKeepsRight
  <1>7. CASE Unlink(p)
    BY <1>7, UnlinkKeepsRight
  <1>8. CASE Release(p)
    BY <1>8, ReleaseKeepsRight
  <1>9. CASE Reconcile(p)
    BY <1>9, ReconcileKeepsRight
  <1>10. CASE Skip(p)
    BY <1>10, SkipKeepsRight
  <1>11. CASE StartStage(p)
    BY <1>11, StartStageKeepsRight
  <1>12. CASE Work(p)
    BY <1>12, WorkKeepsRight
  <1>13. CASE CompleteStage(p)
    BY <1>13, CompleteStageKeepsRight
  <1>14. CASE \E o \in {"failed", "cancelled"} : StageEnds(p, o) \/ LeaveOff(p, o)
    BY <1>14, StageEndsKeepsRight, LeaveOffKeepsRight
  <1>15. CASE ExportAgain(p)
    BY <1>15, ExportAgainKeepsRight
  <1>16. CASE ExportCompletes(p)
    BY <1>16, ExportCompletesKeepsRight
  <1>17. CASE CleanChecks(p)
    BY <1>17, CleanChecksKeepsRight
  <1>18. CASE CleanRemoves(p)
    BY <1>18, CleanRemovesKeepsRight
  <1>19. CASE GoOn(p)
    BY <1>19, GoOnKeepsRight
  <1> QED
    BY <1>1, <1>2, <1>3, <1>4, <1>5, <1>6, <1>7, <1>8, <1>9, <1>10, <1>11, <1>12, <1>13, <1>14,
       <1>15, <1>16, <1>17, <1>18, <1>19 DEF ProcessStep

LEMMA DirectoryStutters ==
  ASSUME DirectoryInvariant, UNCHANGED directoryVars
  PROVE  DirectoryInvariant'
  <1>1. UNCHANGED <<manifest, artifact, lock, proc>>
    BY DEF directoryVars
  <1>2. DirectoryTypes'
    BY <1>1 DEF DirectoryInvariant, DirectoryTypes, Alive
  <1>3. OutputsUnsure <=> OutputsUnsure'
    BY <1>1 DEF OutputsUnsure
  <1>4. ManifestIsTrue'
    BY <1>1, <1>3, DirectoryStays DEF DirectoryInvariant
  <1>5. ASSUME NEW p \in Procs
        PROVE  ProcessIsRight(p)'
    <2>1. LockOf(p) /\ MemoryOf(p) /\ RunOf(p)
      BY DEF DirectoryInvariant, ProcessIsRight
    <2>2. LockOf(p)'
      BY <1>1, <2>1 DEF LockOf
    <2>3. MemoryOf(p)'
      BY <1>1, <2>1 DEF MemoryOf, Loaded
    <2>4. StagesOf(manifest, artifact, proc[p]) => StagesOf(manifest, artifact, proc[p])'
      BY <1>1
    <2>5. OutputsMayDiffer => OutputsMayDiffer'
      BY <1>1 DEF OutputsMayDiffer, Self
    <2>6. RunOf(p)'
      BY <1>1, <2>1, <2>4, <2>5 DEF RunOf
    <2> QED
      BY <2>2, <2>3, <2>6 DEF ProcessIsRight
  <1> QED
    BY <1>2, <1>4, <1>5 DEF DirectoryInvariant

LEMMA DirectoryStep ==
  ASSUME DirectoryInvariant, ~Overlap, HashTellsUse, [DirectoryNext]_directoryVars
  PROVE  DirectoryInvariant'
  <1>1. CASE \E p \in Procs, l \in Launches : LaunchProcess(p, l)
    BY <1>1, LaunchKeepsRight
  <1>2. CASE \E p \in Procs : ProcessStep(p)
    BY <1>2, ProcessKeepsRight
  <1>3. CASE \E p \in Procs : KillProcess(p)
    BY <1>3, KillKeepsRight
  <1>4. CASE OutputsGo
    BY <1>4, OutputsGoKeepsRight
  <1>5. CASE UNCHANGED directoryVars
    BY <1>5, DirectoryStutters
  <1> QED
    BY <1>1, <1>2, <1>3, <1>4, <1>5 DEF DirectoryNext

\* The invariant holds if processes do not overlap and settings of one hash are used
\* alike: with two at once the lock fails (jobs.py:481), and the hash of the transcription
\* does not tell whether word timestamps were made (jobs.py:772, pipeline.py:578).
THEOREM DirectoryIsRight ==
  ASSUME ~Overlap, HashTellsUse
  PROVE  DirectorySpec => []DirectoryInvariant
  <1>1. DirectoryInit => DirectoryInvariant
    BY DirectoryStarts
  <1>2. DirectoryInvariant /\ [DirectoryNext]_directoryVars => DirectoryInvariant'
    BY DirectoryStep
  <1> QED
    BY <1>1, <1>2, PTL DEF DirectorySpec

\* What a run reports is what its settings produce, and a process that is alone is locked
\* out only where another program has the pid of the lock, if the settings of one hash are
\* used alike (jobs.py:266, jobs.py:464, jobs.py:902).
THEOREM ResumeIsRight ==
  ASSUME ~Overlap, HashTellsUse
  PROVE  DirectorySpec => []ResumeIsSafe
  <1>1. DirectoryInvariant => ResumeIsSafe
    BY DEF DirectoryInvariant, ProcessIsRight, LockOf, RunOf, ResumeIsSafe, ResultIsOfItsConfig,
           DeadSeldomLockOut, Self
  <1> QED
    BY <1>1, DirectoryIsRight, PTL

----------------------------------------------------------------------------
(* What is completed is kept. *)

MayForget(s) ==
  \E p \in Procs :
     /\ lock # NoLock /\ lock.pid = p /\ Alive(p)
     /\ \/ proc[p].force
        \/ JustCompleted(p, s)
        \/ proc[p].kind = "export" /\ s = "export"
        \/ manifest[s].hash # Hash(proc[p].cfg, s)
        \/ \E d \in Upstream(s) \union {s} : artifact[d] = Missing \/ manifest[d].status # "done"

\* The stage a run is in is not done, unless it was just completed.
LEMMA NowIsNotDone ==
  ASSUME DirectoryInvariant, NEW p \in Procs, proc[p].pc \in InStage, proc[p].pc = "stage" => ~IsDone(p, Now(p))
  PROVE  /\ proc[p].man = manifest /\ manifest \in Manifests
         /\ Now(p) \in Stage /\ (proc[p].pc = "saved" \/ manifest[Now(p)].status # "done")
  <1>1. Alive(p)
    BY DEF Alive, Gone, InStage
  <1>2. /\ proc[p].man = manifest /\ StagesOf(manifest, artifact, proc[p]) /\ manifest \in Manifests
    BY <1>1, TheRun
  <1>3. PICK me \in Running : me = proc[p]
    BY <1>1, TheOneAlive
  <1>4. me.at \in 1..5 /\ me.cfg \in Cfgs
    BY <1>3 DEF Running
  <1>5. PICK this \in Stage : this = STAGES[me.at] /\ this = Now(p)
    BY <1>3, <1>4, PassedIsBefore DEF Now, Self
  <1>6. PICK h \in OfStages : h = Hash(me.cfg, this)
    BY <1>4, HashesAreOfStages
  <1>7. CASE me.pc = "stage"
    <2>1. Ready(manifest, artifact, me.cfg, this)
      BY <1>2, <1>3, <1>5, <1>7 DEF StagesOf
    <2>2. ~ (manifest[this].status = "done" /\ manifest[this].hash = h /\ artifact[this] # Missing)
      BY <1>2, <1>3, <1>5, <1>6, <1>7 DEF IsDone, Self
    <2> QED
      BY <1>2, <1>5, <1>6, <2>1, <2>2, RecordsAreRecords DEF Ready
  <1>8. CASE me.pc \in {"work", "wrote"}
    <2>1. manifest[this] = Record("running", h)
      BY <1>2, <1>3, <1>5, <1>6, <1>8 DEF StagesOf
    <2> QED
      BY <1>2, <1>5, <2>1, RecordsAreRecords
  <1> QED
    BY <1>2, <1>3, <1>5, <1>7, <1>8 DEF InStage

\* Hashes that agree: if that of a stage is of the settings, so is that of a stage before.
LEMMA HashTellsBefore ==
  ASSUME NEW m \in Manifests, HashesAgree(m), NEW c \in Cfgs, NEW s \in Stage, DoneUpTo(m, s),
         m[s].hash = Hash(c, s), NEW e \in Upstream(s)
  PROVE  m[e].hash = Hash(c, e)
  <1>1. e \in Stage /\ Domain(e) \subseteq Domain(s)
    BY UpstreamIsBefore
  <1>2. DoneUpTo(m, e)
    BY <1>1 DEF DoneUpTo
  <1>3. DOMAIN m[e].hash = Domain(e) /\ \A d \in Domain(e) : m[e].hash[d] = m[s].hash[d]
    BY <1>1, <1>2 DEF HashesAgree
  <1>4. m[s].hash = [d \in Domain(s) |-> Hashed(c, d)]
    BY HashesAreOfStages
  <1>5. Hash(c, e) = [d \in Domain(e) |-> Hashed(c, d)]
    BY <1>1, HashesAreOfStages
  <1>6. m[e].hash \in OfStages \union {NoHash}
    BY <1>1 DEF Manifests, StageRecords
  <1>7. m[e].hash = [d \in Domain(e) |-> m[e].hash[d]]
    BY <1>3, <1>6 DEF OfStages, NoHash
  <1> QED
    BY <1>1, <1>3, <1>4, <1>5, <1>7

LEMMA ReconcileMayForget ==
  ASSUME DirectoryInvariant, NEW p \in Procs, Reconcile(p), NEW s \in Stage, manifest[s].status = "done",
         manifest'[s] # manifest[s]
  PROVE  MayForget(s)
  <1>1. Alive(p) /\ proc[p].pc = "locked" /\ proc[p].kind = "run"
    BY DEF Reconcile, Self, Alive, Gone
  <1>2. LockOf(p) /\ MemoryOf(p) /\ ManifestIsTrue /\ manifest \in Manifests \union {NoManifest}
        /\ proc[p] \in Running
    BY <1>1, TheOneAlive DEF DirectoryInvariant
  <1>3. PICK m \in Manifests : m = manifest /\ m = proc[p].man /\ HashesAgree(m)
    BY <1>1, <1>2 DEF MemoryOf, ManifestIsTrue
  <1>4. lock # NoLock /\ lock.pid = p
    BY <1>1, <1>2 DEF LockOf, ToLock, InStage
  <1>5. PICK c \in Cfgs : c = proc[p].cfg
    BY <1>2 DEF Running
  <1>6. PICK own : own = IF Self(p).force THEN Stage ELSE {t \in Stage : ~IsDone(p, t)}
    OBVIOUS
  <1>7. Invalid(p) = own \union UNION {DEPENDENTS[t] : t \in own} /\ own \subseteq Stage
    BY <1>6 DEF Invalid
  <1>8. s \in Invalid(p)
    BY <1>3 DEF Reconcile, Saved, Self
  <1>9. PICK e \in own : e \in Domain(s)
    BY <1>7, <1>8, DependentsAreAfter DEF Domain
  <1>10. proc[p].force \/ ~IsDone(p, e)
    BY <1>6 DEF Self
  <1>11. CASE ~proc[p].force /\ ~ \E d \in Domain(s) : artifact[d] = Missing \/ manifest[d].status # "done"
    <2>1. m[e].status = "done" /\ artifact[e] # Missing
      BY <1>3, <1>9, <1>11
    <2>2. m[e].hash # Hash(c, e)
      BY <1>3, <1>5, <1>10, <1>11, <2>1 DEF IsDone, Self
    <2>3. DoneUpTo(m, s)
      BY <1>3, <1>11 DEF DoneUpTo, DoneIn
    <2>4. m[s].hash # Hash(c, s)
      BY <1>3, <1>9, <2>2, <2>3, HashTellsBefore DEF Domain
    <2> QED
      BY <1>1, <1>3, <1>4, <1>5, <2>4 DEF MayForget
  <1>12. CASE proc[p].force \/ \E d \in Domain(s) : artifact[d] = Missing \/ manifest[d].status # "done"
    BY <1>1, <1>4, <1>12 DEF MayForget, Domain
  <1> QED
    BY <1>11, <1>12

LEMMA StepMayForget ==
  ASSUME DirectoryInvariant, [DirectoryNext]_directoryVars, NEW s \in Stage,
         manifest # NoManifest, manifest' # NoManifest, manifest[s].status = "done",
         manifest'[s] # manifest[s]
  PROVE  MayForget(s)
  <1>1. PICK m \in Manifests : m = manifest
    BY DEF DirectoryInvariant, DirectoryTypes
  <1>2. manifest' # manifest /\ DoneIn(m, s)
    BY <1>1 DEF DoneIn
  <1>3. PICK p \in Procs : \/ OpenSaves(p) \/ Reconcile(p) \/ StartStage(p) \/ CompleteStage(p)
                           \/ \E o \in {"failed", "cancelled"} : StageEnds(p, o)
                           \/ ExportCompletes(p)
    BY <1>2 DEF DirectoryNext, ProcessStep, directoryVars, LaunchProcess, KillProcess, OutputsGo, Open,
                GetJob, TryLock, WritePid, ReadOwner, AskOwner, Unlink, Release, Skip, Work, GoOn, LeaveOff,
                ExportAgain, CleanChecks, CleanRemoves
  <1>4. CASE OpenSaves(p)
    <2>1. Alive(p) /\ proc[p].pc = "opened" /\ manifest' = proc[p].man
      BY <1>4 DEF OpenSaves, Self, Alive, Gone
    <2>2. manifest' = Loaded(m)
      BY <1>1, <2>1, TheOneAlive DEF MemoryOf
    <2> QED
      BY <1>1, <1>2, <2>2, LoadedIsTheSame
  <1>5. CASE Reconcile(p)
    BY <1>5, ReconcileMayForget
  <1>6. CASE StartStage(p) \/ CompleteStage(p) \/ \E o \in {"failed", "cancelled"} : StageEnds(p, o)
    <2>1. proc[p].pc \in InStage /\ (proc[p].pc = "stage" => ~IsDone(p, Now(p)))
      BY <1>6 DEF StartStage, CompleteStage, StageEnds, Self, InStage
    <2>2. /\ proc[p].man = m /\ Now(p) \in Stage
          /\ proc[p].pc = "saved" \/ m[Now(p)].status # "done"
      BY <1>1, <2>1, NowIsNotDone
    <2>3. \E r : manifest' = [m EXCEPT ![Now(p)] = r]
      BY <1>6, <2>2 DEF StartStage, CompleteStage, StageEnds, Saved, Self
    <2>4. \A t \in Stage : t # Now(p) => manifest'[t] = m[t]
      BY <2>3 DEF Manifests
    <2>5. s = Now(p)
      BY <1>1, <2>4
    <2>6. CASE proc[p].pc = "saved"
      <3>1. Alive(p)
        BY <2>6 DEF Alive, Gone
      <3>2. lock # NoLock /\ lock.pid = p
        BY <2>1, <3>1, TheOneAlive DEF LockOf
      <3> QED
        BY <2>5, <2>6, <3>1, <3>2 DEF MayForget, JustCompleted, Self
    <2> QED
      BY <1>1, <2>2, <2>5, <2>6
  <1>7. CASE ExportCompletes(p)
    <2>1. Alive(p) /\ proc[p].pc = "exported"
      BY <1>7 DEF ExportCompletes, Self, Alive, Gone
    <2>2. proc[p].kind = "export" /\ proc[p].man = Loaded(m) /\ lock # NoLock /\ lock.pid = p
      BY <1>1, <2>1, TheOneAlive DEF MemoryOf, LockOf, ToLock, InStage
    <2>3. PICK n \in Manifests : n = Loaded(m) /\ n[s] = m[s]
      BY <1>2, LoadedIsTheSame
    <2>4. \E r : manifest' = [n EXCEPT !["export"] = r]
      BY <1>7, <2>2, <2>3 DEF ExportCompletes, Saved, Self
    <2>5. s = "export"
      BY <1>1, <2>3, <2>4 DEF Manifests
    <2> QED
      BY <2>1, <2>2, <2>5 DEF MayForget
  <1> QED
    BY <1>3, <1>4, <1>5, <1>6, <1>7

\* A completed stage is forgotten only by the holder of the lock, and only for a reason
\* (jobs.py:266, pipeline.py:225).
THEOREM CompletedIsKept ==
  ASSUME ~Overlap, HashTellsUse
  PROVE  DirectorySpec => CompletedStagesAreKept
  <1> DEFINE Keeps == \A s \in Stage :
        manifest # NoManifest /\ manifest' # NoManifest =>
        (manifest[s].status = "done" /\ manifest'[s] # manifest[s] => MayForget(s))
  <1>1. DirectoryInvariant /\ [DirectoryNext]_directoryVars => [Keeps]_directoryVars
    BY StepMayForget
  <1> HIDE DEF Keeps
  <1>2. DirectorySpec => [][Keeps]_directoryVars
    BY <1>1, DirectoryIsRight, PTL DEF DirectorySpec
  <1> QED
    BY <1>2 DEF CompletedStagesAreKept, Keeps, MayForget, Self

-------------------------------------------------------------------------------
(* An answer of a child *)

Failures == {"none", "limit", "io", "unavailable"}

Children == [alive : BOOLEAN, orphan : BOOLEAN, code : {0, 1},
             left : [Streams -> Nat], wrote : [Streams -> Nat]]

Askers == [pc : {"loop", "events", "check", "reap", "join", "returned"},
           answer : Failures \cup {"timeout", "answer"}]

BridgeTypeOK ==
    /\ process \in Children
    /\ pipe \in [Streams -> {0, 1}]
    /\ total \in [Streams -> Nat]
    /\ finished \in [Pumps -> BOOLEAN]
    /\ failures \in Failures
    /\ asker \in Askers

\* While nothing has failed no block is lost: what a child writes is still to come, in the
\* pipe or read, and a thread that has finished has seen the end of its pipe.
NothingLost ==
    failures = "none" =>
      \A s \in Streams :
        /\ total[s] + pipe[s] + process.left[s] = process.wrote[s]
        /\ finished[s] => ~PipesOpen /\ pipe[s] = 0

\* A child that ended well has written everything, and no more is kept than the limit.
EndedWell ==
    \A s \in Streams :
      /\ ~process.alive /\ process.code = 0 => process.left[s] = 0
      /\ total[s] <= Limit

AllFinished == \A t \in Pumps : finished[t]

\* What the caller knows, from where it is and from what it answers.
CallerKnows ==
    /\ AskerAt("check") => AllFinished /\ ~process.alive
    /\ asker.answer = "answer" =>
         /\ AllFinished /\ ~process.alive /\ process.code = 0
         /\ \A s \in Streams : total[s] = process.wrote[s]
    /\ AskerAt("join") => ~process.alive /\ ~process.orphan
    /\ AskerAt("returned") /\ asker.answer # "io" =>
         ~process.alive /\ ~process.orphan /\ AllFinished

BridgeInv == BridgeTypeOK /\ NothingLost /\ EndedWell /\ CallerKnows

LEMMA BridgeStarts == BridgeInit => BridgeInv
  <1> SUFFICES ASSUME BridgeInit PROVE BridgeInv
    OBVIOUS
  <1>1. PICK w \in [Streams -> Writes] :
          process = [alive |-> TRUE, orphan |-> FALSE, code |-> 0, left |-> w, wrote |-> w]
    BY DEF BridgeInit
  <1>2. w \in [Streams -> Nat]
    BY BridgeAssumption DEF BridgeAssumption
  <1>3. BridgeTypeOK
    BY <1>1, <1>2 DEF BridgeInit, BridgeTypeOK, Children, Askers, Failures, Pumps, Streams
  <1>4. NothingLost /\ EndedWell /\ CallerKnows
    BY <1>1, <1>2, BridgeAssumption
       DEF BridgeAssumption, BridgeInit, NothingLost, EndedWell, CallerKnows, AskerAt, Pumps, Streams
  <1> QED
    BY <1>3, <1>4 DEF BridgeInv

\* The child.
LEMMA ChildStep ==
    ASSUME BridgeInv, NEW s \in Streams, WriteBlock(s) \/ AskedEnds \/ OrphanEnds
    PROVE  BridgeInv'
  <1> USE DEF BridgeInv, PipesOpen
  <1>1. CASE WriteBlock(s)
    <2>1. /\ process.left[s] \in Nat /\ process.left[s] > 0 /\ process.left[s] - 1 \in Nat
          /\ process' = [process EXCEPT !.left = [process.left EXCEPT ![s] = process.left[s] - 1]]
      BY <1>1 DEF WriteBlock, BridgeTypeOK, Children
    <2>2. BridgeTypeOK'
      BY <1>1, <2>1 DEF WriteBlock, BridgeTypeOK, Children
    <2>3. NothingLost'
      BY <1>1, <2>1 DEF WriteBlock, BridgeTypeOK, Children, NothingLost, Pumps, Streams
    <2>4. EndedWell' /\ CallerKnows'
      BY <1>1, <2>1 DEF WriteBlock, BridgeTypeOK, Children, EndedWell, CallerKnows, AllFinished, AskerAt
    <2> QED
      BY <2>2, <2>3, <2>4
  <1>2. CASE AskedEnds
    <2>1. PICK code \in {0, 1}, orphan \in BOOLEAN :
            /\ code = 0 => \A t \in Streams : process.left[t] = 0
            /\ process' = [process EXCEPT !.alive = FALSE, !.orphan = orphan, !.code = code]
      BY <1>2 DEF AskedEnds
    <2>2. process.alive /\ UNCHANGED <<pipe, total, finished, failures, asker>>
      BY <1>2 DEF AskedEnds
    <2>3. BridgeTypeOK'
      BY <2>1, <2>2 DEF BridgeTypeOK, Children
    <2>4. NothingLost'
      BY <2>1, <2>2 DEF BridgeTypeOK, Children, NothingLost
    <2>5. EndedWell' /\ CallerKnows'
      BY <2>1, <2>2 DEF BridgeTypeOK, Children, EndedWell, CallerKnows, AllFinished, AskerAt
    <2> QED
      BY <2>3, <2>4, <2>5
  <1>3. CASE OrphanEnds
    <2>1. /\ ~process.alive /\ process' = [process EXCEPT !.orphan = FALSE]
          /\ UNCHANGED <<pipe, total, finished, failures, asker>>
      BY <1>3 DEF OrphanEnds
    <2>2. BridgeTypeOK'
      BY <2>1 DEF BridgeTypeOK, Children
    <2>3. NothingLost' /\ EndedWell' /\ CallerKnows'
      BY <2>1 DEF BridgeTypeOK, Children, NothingLost, EndedWell, CallerKnows, AllFinished, AskerAt
    <2> QED
      BY <2>2, <2>3
  <1> QED
    BY <1>1, <1>2, <1>3

\* A first failure stays, and a failure is never forgotten.
LEMMA FailKeeps ==
    ASSUME failures \in Failures, NEW code \in Failures \ {"none"}, Fail(code)
    PROVE  failures' \in Failures /\ failures' # "none"
  BY DEF Fail, Failures

\* The threads.
LEMMA PumpStep ==
    ASSUME BridgeInv, NEW s \in Streams, Drain(s) \/ DrainEnds(s) \/ Send
    PROVE  BridgeInv'
  <1> USE DEF BridgeInv
  <1>0. Streams \subseteq Pumps /\ "send" \in Pumps /\ "send" \notin Streams
    BY DEF Pumps, Streams
  <1>1. CASE Drain(s)
    <2>1. /\ ~finished[s] /\ pipe[s] = 1 /\ pipe' = [pipe EXCEPT ![s] = 0]
          /\ UNCHANGED <<process, asker>>
      BY <1>1 DEF Drain
    <2>2. asker.answer # "answer" /\ ~AllFinished
      BY <1>0, <2>1 DEF CallerKnows, AllFinished
    <2>3. CASE total[s] < Limit /\ total' = [total EXCEPT ![s] = @ + 1] /\ UNCHANGED <<finished, failures>>
      <3>1. BridgeTypeOK'
        BY <2>1, <2>3 DEF BridgeTypeOK
      <3>2. NothingLost'
        BY <1>0, <2>1, <2>3 DEF BridgeTypeOK, Children, NothingLost, PipesOpen
      <3>3. EndedWell'
        BY <2>1, <2>3, BridgeAssumption DEF BridgeAssumption, BridgeTypeOK, EndedWell
      <3>4. CallerKnows'
        BY <2>1, <2>2, <2>3 DEF CallerKnows, AllFinished, AskerAt
      <3> QED
        BY <3>1, <3>2, <3>3, <3>4
    <2>4. CASE total[s] = Limit /\ Fail("limit") /\ finished' = [finished EXCEPT ![s] = TRUE] /\ UNCHANGED total
      <3>1. failures' \in Failures /\ failures' # "none"
        BY <2>4, FailKeeps DEF BridgeTypeOK, Failures
      <3>2. BridgeTypeOK'
        BY <1>0, <2>1, <2>4, <3>1 DEF BridgeTypeOK
      <3>3. NothingLost' /\ EndedWell'
        BY <2>1, <2>4, <3>1 DEF NothingLost, EndedWell
      <3>4. CallerKnows'
        BY <2>1, <2>2, <2>4 DEF CallerKnows, AllFinished, AskerAt
      <3> QED
        BY <3>2, <3>3, <3>4
    <2> QED
      BY <1>1, <2>3, <2>4 DEF Drain
  <1>2. CASE DrainEnds(s)
    <2>1. /\ ~finished[s] /\ finished' = [finished EXCEPT ![s] = TRUE]
          /\ UNCHANGED <<process, pipe, total, asker>>
          /\ (~PipesOpen /\ pipe[s] = 0 /\ failures' = failures) \/ Fail("io")
      BY <1>2 DEF DrainEnds
    <2>2. asker.answer # "answer" /\ ~AllFinished
      BY <1>0, <2>1 DEF CallerKnows, AllFinished
    <2>3. failures' \in Failures /\ (failures' = "none" => failures = "none" /\ ~PipesOpen /\ pipe[s] = 0)
      BY <2>1, FailKeeps DEF BridgeTypeOK, Failures
    <2>4. BridgeTypeOK'
      BY <1>0, <2>1, <2>3 DEF BridgeTypeOK
    <2>5. NothingLost'
      BY <1>0, <2>1, <2>3 DEF BridgeTypeOK, NothingLost, PipesOpen
    <2>6. EndedWell' /\ CallerKnows'
      BY <2>1, <2>2 DEF EndedWell, CallerKnows, AllFinished, AskerAt
    <2> QED
      BY <2>4, <2>5, <2>6
  <1>3. CASE Send
    <2>1. /\ ~finished["send"] /\ finished' = [finished EXCEPT !["send"] = TRUE]
          /\ UNCHANGED <<process, pipe, total, asker>>
          /\ failures' = failures \/ Fail("unavailable")
      BY <1>3 DEF Send
    <2>2. asker.answer # "answer" /\ ~AllFinished
      BY <1>0, <2>1 DEF CallerKnows, AllFinished
    <2>3. failures' \in Failures /\ (failures' = "none" => failures = "none")
      BY <2>1, FailKeeps DEF BridgeTypeOK, Failures
    <2>4. BridgeTypeOK'
      BY <1>0, <2>1, <2>3 DEF BridgeTypeOK
    <2>5. NothingLost'
      BY <1>0, <2>1, <2>3 DEF BridgeTypeOK, NothingLost, PipesOpen
    <2>6. EndedWell' /\ CallerKnows'
      BY <2>1, <2>2 DEF EndedWell, CallerKnows, AllFinished, AskerAt
    <2> QED
      BY <2>4, <2>5, <2>6
  <1> QED
    BY <1>1, <1>2, <1>3

\* The caller.
LEMMA CallerStep ==
    ASSUME BridgeInv, LookAtFailures \/ LookAtEvents \/ GiveAnswer \/ Reap \/ JoinThreads
    PROVE  BridgeInv'
  <1> USE DEF BridgeInv
  <1>0. /\ \A pc \in {"loop", "events", "check", "reap", "join", "returned"} :
              [asker EXCEPT !.pc = pc] \in Askers
        /\ \A code \in Failures \cup {"timeout", "answer"} :
              [asker EXCEPT !.pc = "reap", !.answer = code] \in Askers
    BY DEF BridgeTypeOK, Askers
  <1>1. CASE LookAtFailures
    <2>1. /\ asker' = [asker EXCEPT !.pc = "events"] \/ asker' = [asker EXCEPT !.pc = "reap", !.answer = failures]
          /\ UNCHANGED <<process, pipe, total, finished, failures>>
      BY <1>1 DEF LookAtFailures, AskerGoes, Reaps, AskerAlone
    <2>2. BridgeTypeOK' /\ NothingLost' /\ EndedWell'
      BY <1>0, <2>1 DEF BridgeTypeOK, NothingLost, EndedWell, PipesOpen
    <2>3. CallerKnows'
      BY <2>1 DEF BridgeTypeOK, Askers, Failures, CallerKnows, AllFinished, AskerAt
    <2> QED
      BY <2>2, <2>3
  <1>2. CASE LookAtEvents
    <2>1. /\ \/ AllFinished /\ ~process.alive /\ asker' = [asker EXCEPT !.pc = "check"]
             \/ asker' = [asker EXCEPT !.pc = "loop"]
             \/ asker' = [asker EXCEPT !.pc = "reap", !.answer = "timeout"]
          /\ UNCHANGED <<process, pipe, total, finished, failures>>
      BY <1>2 DEF LookAtEvents, AskerGoes, Reaps, AskerAlone, AllFinished
    <2>2. BridgeTypeOK' /\ NothingLost' /\ EndedWell'
      <3>1. asker' \in Askers
        BY <1>0, <2>1
      <3> QED
        BY <2>1, <3>1 DEF BridgeTypeOK, NothingLost, EndedWell, PipesOpen
    <2>3. CallerKnows'
      BY <2>1 DEF BridgeTypeOK, Askers, Failures, CallerKnows, AllFinished, AskerAt
    <2> QED
      BY <2>2, <2>3
  <1>3. CASE GiveAnswer
    <2>1. /\ AllFinished /\ ~process.alive
          /\ UNCHANGED <<process, pipe, total, finished, failures>>
      BY <1>3 DEF GiveAnswer, AskerAlone, CallerKnows
    <2>2. PICK code \in Failures \cup {"answer"} :
            /\ asker' = [asker EXCEPT !.pc = "reap", !.answer = code]
            /\ code = "answer" => failures = "none" /\ process.code = 0
      <3> DEFINE code == IF failures # "none" THEN failures
                         ELSE IF process.code = 0 THEN "answer" ELSE "unavailable"
      <3>1. code \in Failures \cup {"answer"} /\ (code = "answer" => failures = "none" /\ process.code = 0)
        BY DEF BridgeTypeOK, Failures
      <3>2. asker' = [asker EXCEPT !.pc = "reap", !.answer = code]
        BY <1>3 DEF GiveAnswer, Reaps
      <3> QED
        BY <3>1, <3>2
    <2>3. BridgeTypeOK' /\ NothingLost' /\ EndedWell'
      BY <1>0, <2>1, <2>2 DEF BridgeTypeOK, NothingLost, EndedWell, PipesOpen
    <2>4. code = "answer" => \A s \in Streams : total[s] = process.wrote[s]
      BY <2>1, <2>2 DEF BridgeTypeOK, Children, NothingLost, EndedWell, AllFinished, Pumps
    <2>5. CallerKnows'
      BY <2>1, <2>2, <2>4 DEF BridgeTypeOK, Askers, CallerKnows, AllFinished, AskerAt
    <2> QED
      BY <2>3, <2>5
  <1>4. CASE Reap
    <2>1. UNCHANGED <<pipe, total, finished, failures>>
      BY <1>4 DEF Reap
    <2>2. CASE /\ process' = [process EXCEPT !.alive = FALSE, !.orphan = FALSE,
                                             !.code = IF process.alive THEN 1 ELSE @]
               /\ asker' = [asker EXCEPT !.pc = "join"]
      <3>1. BridgeTypeOK'
        BY <1>0, <2>1, <2>2 DEF BridgeTypeOK, Children
      <3>2. NothingLost' /\ EndedWell'
        BY <2>1, <2>2 DEF BridgeTypeOK, Children, NothingLost, EndedWell, PipesOpen
      <3>3. CallerKnows'
        BY <2>1, <2>2 DEF BridgeTypeOK, Children, Askers, CallerKnows, AllFinished, AskerAt
      <3> QED
        BY <3>1, <3>2, <3>3
    <2>3. CASE process' = process /\ asker' = [pc |-> "returned", answer |-> "io"]
      <3>1. BridgeTypeOK' /\ NothingLost' /\ EndedWell'
        BY <2>1, <2>3 DEF BridgeTypeOK, NothingLost, EndedWell, PipesOpen, Askers, Failures
      <3>2. CallerKnows'
        BY <2>3 DEF CallerKnows, AskerAt
      <3> QED
        BY <3>1, <3>2
    <2> QED
      BY <1>4, <2>2, <2>3 DEF Reap, AskerGoes
  <1>5. CASE JoinThreads
    <2>1. /\ AskerAt("join") /\ UNCHANGED <<process, pipe, total, finished, failures>>
          /\ \/ AllFinished /\ asker' = [pc |-> "returned", answer |-> asker.answer]
             \/ asker' = [pc |-> "returned", answer |-> "io"]
      BY <1>5 DEF JoinThreads, AskerAlone, AllFinished
    <2>2. BridgeTypeOK' /\ NothingLost' /\ EndedWell'
      BY <2>1 DEF BridgeTypeOK, NothingLost, EndedWell, PipesOpen, Askers, Failures
    <2>3. CallerKnows'
      BY <2>1 DEF CallerKnows, AllFinished, AskerAt
    <2> QED
      BY <2>2, <2>3
  <1> QED
    BY <1>1, <1>2, <1>3, <1>4, <1>5

LEMMA BridgeIsRight == BridgeSpec => []BridgeInv
  <1>1. BridgeInv /\ [BridgeNext]_bridgeVars => BridgeInv'
    <2> SUFFICES ASSUME BridgeInv, [BridgeNext]_bridgeVars PROVE BridgeInv'
      OBVIOUS
    <2>0. "stdout" \in Streams
      BY DEF Streams
    <2>1. CASE UNCHANGED bridgeVars
      BY <2>1 DEF bridgeVars, BridgeInv, BridgeTypeOK, NothingLost, EndedWell, CallerKnows,
                  AllFinished, AskerAt, PipesOpen
    <2> QED
      BY <2>0, <2>1, ChildStep, PumpStep, CallerStep DEF BridgeNext
  <1> QED
    BY <1>1, BridgeStarts, PTL DEF BridgeSpec

\* An answer is given only by a child that ended well and of which every block was read, and
\* nothing of it is left behind, however its threads and its end interleave with the two looks of
\* the caller, for any limit and any lengths of output (capability_transport.py:110-240).
THEOREM AnswersAreWhole == BridgeSpec => []AnswerIsWhole
  <1>1. BridgeInv => AnswerIsWhole
    BY DEF BridgeInv, CallerKnows, EndedWell, AnswerIsWhole, AnsweredInFull, NothingIsLeft,
           AllFinished, AskerAt
  <1> QED
    BY <1>1, BridgeIsRight, PTL

-------------------------------------------------------------------------------
(* The file of the store *)

DbIds == Openers \cup {"none", "found"}

OpenerPcs == {"start", "copy", "backup", "open", "create", "build", "publish", "migrate",
              "upgrade", "verify", "opened", "failed"}

OpenerTypes == [pc : OpenerPcs, existed : BOOLEAN, from : Nat, id : DbIds]

IsDb(db) ==
    /\ db = [version |-> db.version, tables |-> db.tables, id |-> db.id, writes |-> db.writes]
    /\ db.version \in Nat /\ db.id \in DbIds

FileTypeOK ==
    /\ IsDb(disk)
    /\ temp = [p \in Openers |-> temp[p]] /\ copy = [p \in Openers |-> copy[p]]
    /\ opener \in [Openers -> OpenerTypes]

\* What is published is a whole new store.
BuiltInFull == \A p \in Openers : OpenerAt(p, "publish") => temp[p] = NewStore(Layout[p], p)

SameTables(a, b) == a.version = b.version /\ a.tables = b.tables

\* A store of which the code of layout v or of an earlier one can say that it is whole.
OpenableBy(db, v) == Verified(db, db.version) /\ db.version \in 1..v

\* A file that was at the path does not go away, and whoever copied it has a copy that is
\* like it, or is a store of its layout or of an earlier one.
CopiedIn(p) ==
    /\ opener[p].existed => Present(disk)
    /\ opener[p].existed /\ p \in Copying /\ opener[p].pc \notin {"start", "copy", "backup"} =>
         SameTables(copy[p], disk) \/ OpenableBy(copy[p], disk.version)
    /\ opener[p].from > 0 => opener[p].pc \in {"verify", "opened"}
    /\ opener[p].from > 0 /\ opener[p].existed /\ p \in Copying => OpenableBy(copy[p], opener[p].from)

FilesInv == FileTypeOK /\ BuiltInFull /\ StoreIsWhole /\ \A p \in Openers : CopiedIn(p)

LEMMA SixLayouts == DOMAIN DDL = 1..6
  BY DEF DDL

LEMMA LayoutType == ASSUME NEW p \in Openers PROVE Layout[p] \in 1..6 /\ Layout[p] \in Nat
  BY SixLayouts, LayoutAssumption DEF LayoutAssumption

\* A layout has the tables of the ones below it.
LEMMA LayersAdd ==
    ASSUME NEW v \in Nat, NEW w \in Nat, v <= w
    PROVE  Required(w) = Required(v) \cup UNION {DDL[i] : i \in v + 1..w}
  <1>1. 1..w = 1..v \cup (v + 1..w)
    OBVIOUS
  <1> QED
    BY <1>1, Zenon DEF Required

\* What an upgrade makes of a store that is whole for its layout.
LEMMA UpgradedIsWhole ==
    ASSUME NEW db, IsDb(db), NEW v \in Nat, db.version < v, Verified(db, db.version)
    PROVE  /\ IsDb(Upgraded(db, v))
           /\ Upgraded(db, v).version = v /\ Verified(Upgraded(db, v), v)
           /\ Upgraded(db, v).id = db.id /\ Upgraded(db, v).writes = db.writes
           /\ \A S : db.tables = Required(db.version) \cup S =>
                        Upgraded(db, v).tables = Required(v) \cup S
  <1> DEFINE new == UNION {DDL[i] : i \in db.version + 1..v}
  <1>1. Upgraded(db, v) = [version |-> v, tables |-> db.tables \cup new, id |-> db.id, writes |-> db.writes]
    <2>1. Upgraded(db, v) = [db EXCEPT !.version = v, !.tables = db.tables \cup new]
      BY Zenon DEF Upgraded
    <2> HIDE DEF new
    <2>2. PICK u : u = db.tables \cup new
      OBVIOUS
    <2>3. PICK a, t, i, w : db = [version |-> a, tables |-> t, id |-> i, writes |-> w]
      BY DEF IsDb
    <2>4. [db EXCEPT !.version = v, !.tables = u]
          = [version |-> v, tables |-> u, id |-> i, writes |-> w]
      <3>1. PICK d : d = [db EXCEPT !.version = v]
        OBVIOUS
      <3>2. d = [version |-> v, tables |-> t, id |-> i, writes |-> w]
        BY ONLY <2>3, <3>1
      <3>3. [d EXCEPT !.tables = u] = [version |-> v, tables |-> u, id |-> i, writes |-> w]
        BY ONLY <3>2
      <3>4. [db EXCEPT !.version = v, !.tables = u] = [d EXCEPT !.tables = u]
        BY ONLY <3>1
      <3> QED
        BY <3>3, <3>4
    <2> QED
      BY <2>1, <2>2, <2>3, <2>4
  <1>2. Required(v) = Required(db.version) \cup new
    BY LayersAdd DEF IsDb
  <1> HIDE DEF new
  <1> QED
    BY <1>1, <1>2 DEF IsDb, Verified

LEMMA NoFileHasNoLayout == NoFile.version = 0 /\ EmptyFile.version = 0
  BY DEF NoFile, EmptyFile, Db

\* A file that was found and has all tables of its layout.
LEMMA FoundIsWhole ==
    ASSUME NEW db, IsDb(db), [db EXCEPT !.writes = {}] \in AtFirst, db.version > 0,
           Verified(db, db.version)
    PROVE  \E f \in Found : /\ db.id = "found" /\ f.version <= db.version
                            /\ db.tables = Required(db.version) \cup f.has
  <1>1. [db EXCEPT !.writes = {}].version = db.version /\ [db EXCEPT !.writes = {}].tables = db.tables
        /\ [db EXCEPT !.writes = {}].id = db.id
    BY DEF IsDb
  <1>3. PICK f \in Found : [db EXCEPT !.writes = {}] = FoundFile(f)
    <2>1. [db EXCEPT !.writes = {}] # NoFile /\ [db EXCEPT !.writes = {}] # EmptyFile
      BY <1>1, NoFileHasNoLayout DEF IsDb
    <2> QED
      BY <2>1, Zenon DEF AtFirst
  <1>4. db.version = f.version /\ db.id = "found" /\ db.tables = (Required(f.version) \ f.lacks) \cup f.has
    BY <1>1, <1>3 DEF FoundFile, Db
  <1>5. db.tables = Required(f.version) \cup f.has
    BY <1>4 DEF Verified
  <1> QED
    BY <1>4, <1>5 DEF IsDb

LEMMA FilesStart == FilesInit => FilesInv
  <1> SUFFICES ASSUME FilesInit PROVE FilesInv
    OBVIOUS
  <1>1. IsDb(disk) /\ disk \in AtFirst
    <2>1. IsDb(NoFile) /\ IsDb(EmptyFile) /\ \A f \in Found : IsDb(FoundFile(f))
      BY LayoutAssumption DEF LayoutAssumption, IsDb, NoFile, EmptyFile, FoundFile, Db, DbIds
    <2> QED
      BY <2>1 DEF FilesInit, AtFirst
  <1>2. [disk EXCEPT !.writes = {}] = disk
    <2>1. \A v, t, i : [Db(v, t, i) EXCEPT !.writes = {}] = Db(v, t, i)
      BY DEF Db
    <2>2. PICK v, t, i : disk = Db(v, t, i)
      BY <1>1, Zenon DEF AtFirst, NoFile, EmptyFile, FoundFile
    <2> QED
      BY <2>1, <2>2
  <1>3. \A p \in Openers : opener[p] = Closed
    BY DEF FilesInit
  <1>4. FileTypeOK
    BY <1>1 DEF FilesInit, FileTypeOK, Closed, OpenerTypes, OpenerPcs, DbIds
  <1> QED
    BY <1>1, <1>2, <1>3, <1>4
       DEF FilesInv, BuiltInFull, StoreIsWhole, CopiedIn, OpenerAt, Closed

\* What an opener does alone: it moves, and leaves the file at the path as it is.
LEMMA OpenerMoves ==
    ASSUME FilesInv, NEW p \in Openers,
           NEW o \in OpenerTypes,
           opener' = [opener EXCEPT ![p] = o], disk' = disk,
           temp' = [q \in Openers |-> temp'[q]], copy' = [q \in Openers |-> copy'[q]],
           \A q \in Openers \ {p} : temp'[q] = temp[q] /\ copy'[q] = copy[q],
           o.pc = "publish" => temp'[p] = NewStore(Layout[p], p),
           o.pc = "opened" => disk.version >= Layout[p] /\ Verified(disk, disk.version),
           CopiedIn(p)'
    PROVE  FilesInv'
  <1>1. opener'[p] = o /\ \A q \in Openers \ {p} : opener'[q] = opener[q]
    BY DEF FilesInv, FileTypeOK
  <1>2. FileTypeOK'
    BY DEF FilesInv, FileTypeOK
  <1>3. BuiltInFull' /\ StoreIsWhole'
    BY <1>1 DEF FilesInv, BuiltInFull, StoreIsWhole, OpenerAt
  <1>4. \A q \in Openers \ {p} : CopiedIn(q)'
    BY <1>1 DEF FilesInv, CopiedIn
  <1> QED
    BY <1>2, <1>3, <1>4 DEF FilesInv

LEMMA Goes ==
    ASSUME FilesInv, NEW p \in Openers, NEW pc \in OpenerPcs, OpenerGoes(p, pc)
    PROVE  \E o \in OpenerTypes :
             /\ opener' = [opener EXCEPT ![p] = o] /\ o.pc = pc
             /\ o.existed = opener[p].existed /\ o.from = opener[p].from
  <1>1. opener[p] \in OpenerTypes
    BY DEF FilesInv, FileTypeOK, OpenerTypes
  <1>2. PICK r : r = [opener[p] EXCEPT !.pc = pc]
    OBVIOUS
  <1>3. r \in OpenerTypes /\ r.pc = pc /\ r.existed = opener[p].existed /\ r.from = opener[p].from
    BY <1>1, <1>2 DEF OpenerTypes
  <1> QED
    BY <1>2, <1>3 DEF OpenerGoes

\* Whoever fails, closes or dies starts afresh.
LEMMA Ends ==
    ASSUME FilesInv, NEW p \in Openers, NEW pc \in {"start", "failed"},
           opener' = [opener EXCEPT ![p] = [Closed EXCEPT !.pc = pc]], disk' = disk,
           temp' = [q \in Openers |-> temp'[q]], copy' = [q \in Openers |-> copy'[q]],
           \A q \in Openers \ {p} : temp'[q] = temp[q] /\ copy'[q] = copy[q]
    PROVE  FilesInv'
  <1> DEFINE o == [Closed EXCEPT !.pc = pc]
  <1>1. o \in OpenerTypes /\ o.pc = pc /\ ~o.existed /\ ~(o.from > 0)
    <2>1. PICK c \in OpenerTypes : c = Closed /\ ~c.existed /\ c.from = 0
      <3>1. Closed \in OpenerTypes
        BY DEF Closed, OpenerTypes, OpenerPcs, DbIds
      <3>2. ~Closed.existed /\ Closed.from = 0
        BY DEF Closed
      <3> QED
        BY <3>1, <3>2
    <2>2. PICK r : r = [c EXCEPT !.pc = pc]
      OBVIOUS
    <2>3. pc \in OpenerPcs
      BY DEF OpenerPcs
    <2>4. r \in OpenerTypes /\ r.pc = pc /\ ~r.existed /\ r.from = 0
      BY ONLY <2>1, <2>2, <2>3 DEF OpenerTypes
    <2> QED
      BY <2>1, <2>2, <2>4
  <1> HIDE DEF o
  <1>2. opener'[p] = o
    BY DEF FilesInv, FileTypeOK, o
  <1>3. CopiedIn(p)'
    <2>1. ~opener'[p].existed /\ ~(opener'[p].from > 0)
      BY <1>1, <1>2
    <2> QED
      BY ONLY <2>1 DEF CopiedIn
  <1> QED
    BY <1>1, <1>3, OpenerMoves DEF OpenerTypes, o

\* The copy before, and the look at the path.
LEMMA CopySteps ==
    ASSUME FilesInv, NEW p \in Openers,
           StartOpening(p) \/ BeginCopy(p) \/ Backup(p) \/ BackupFails(p) \/ CheckFile(p)
    PROVE  FilesInv'
  <1>0. /\ FileTypeOK /\ opener[p] \in OpenerTypes /\ CopiedIn(p)
        /\ temp = [q \in Openers |-> temp[q]] /\ copy = [q \in Openers |-> copy[q]]
        /\ {"copy", "open", "backup", "migrate", "create"} \subseteq OpenerPcs
    BY DEF FilesInv, FileTypeOK, OpenerTypes, OpenerPcs
  <1>1. CASE StartOpening(p)
    <2> DEFINE pc == IF p \in Copying /\ Present(disk) THEN "copy" ELSE "open"
               o  == [opener[p] EXCEPT !.pc = pc, !.existed = Present(disk)]
    <2>1. OpenerAt(p, "start") /\ opener' = [opener EXCEPT ![p] = o] /\ UNCHANGED <<disk, temp, copy, crashes>>
      BY <1>0, <1>1 DEF StartOpening, FileTypeOK
    <2>2. o \in OpenerTypes /\ o.pc = pc /\ o.existed = Present(disk) /\ o.from = opener[p].from
      BY <1>0 DEF OpenerTypes, Present
    <2> HIDE DEF o
    <2>3. opener'[p] = o
      BY <2>1 DEF FilesInv, FileTypeOK
    <2>4. CopiedIn(p)'
      BY <1>0, <2>1, <2>2, <2>3 DEF CopiedIn, OpenerAt, OpenerTypes
    <2> QED
      BY <1>0, <2>1, <2>2, <2>4, OpenerMoves DEF OpenerTypes
  <1>2. CASE BeginCopy(p)
    <2>1. OpenerAt(p, "copy") /\ copy' = [copy EXCEPT ![p] = EmptyFile] /\ UNCHANGED <<disk, temp, crashes>>
          /\ OpenerGoes(p, "backup")
      BY <1>2 DEF BeginCopy
    <2>2. PICK o \in OpenerTypes :
             /\ opener' = [opener EXCEPT ![p] = o] /\ o.pc = "backup"
             /\ o.existed = opener[p].existed /\ o.from = opener[p].from
      BY <1>0, <2>1, Goes
    <2>3. opener'[p] = o
      BY <2>2 DEF FilesInv, FileTypeOK
    <2>4. CopiedIn(p)'
      BY <1>0, <2>1, <2>2, <2>3 DEF CopiedIn, OpenerAt, OpenerTypes
    <2>5. copy' = [q \in Openers |-> copy'[q]] /\ \A q \in Openers \ {p} : copy'[q] = copy[q]
      BY <1>0, <2>1
    <2> QED
      BY <1>0, <2>1, <2>2, <2>4, <2>5, OpenerMoves DEF OpenerTypes
  <1>3. CASE Backup(p)
    <2>1. OpenerAt(p, "backup") /\ copy' = [copy EXCEPT ![p] = disk] /\ UNCHANGED <<disk, temp, crashes>>
          /\ OpenerGoes(p, "open")
      BY <1>3 DEF Backup
    <2>2. PICK o \in OpenerTypes :
             /\ opener' = [opener EXCEPT ![p] = o] /\ o.pc = "open"
             /\ o.existed = opener[p].existed /\ o.from = opener[p].from
      BY <1>0, <2>1, Goes
    <2>3. opener'[p] = o
      BY <2>2 DEF FilesInv, FileTypeOK
    <2>4. copy' = [q \in Openers |-> copy'[q]] /\ copy'[p] = disk /\ \A q \in Openers \ {p} : copy'[q] = copy[q]
      BY <1>0, <2>1
    <2>5. CopiedIn(p)'
      BY <1>0, <2>1, <2>2, <2>3, <2>4 DEF CopiedIn, OpenerAt, OpenerTypes, SameTables
    <2> QED
      BY <1>0, <2>1, <2>2, <2>4, <2>5, OpenerMoves DEF OpenerTypes
  <1>4. CASE BackupFails(p)
    <2>1. copy' = [copy EXCEPT ![p] = NoFile] /\ UNCHANGED <<disk, temp, crashes>>
          /\ opener' = [opener EXCEPT ![p] = [Closed EXCEPT !.pc = "failed"]]
      BY <1>4 DEF BackupFails, Fails
    <2>2. copy' = [q \in Openers |-> copy'[q]] /\ \A q \in Openers \ {p} : copy'[q] = copy[q]
      BY <1>0, <2>1
    <2> QED
      BY <1>0, <2>1, <2>2, Ends
  <1>5. CASE CheckFile(p)
    <2>1. OpenerAt(p, "open") /\ UNCHANGED <<disk, temp, copy, crashes>>
      BY <1>5 DEF CheckFile
    <2>2. PICK pc \in {"migrate", "create"} : OpenerGoes(p, pc)
      BY <1>5 DEF CheckFile
    <2>3. PICK o \in OpenerTypes :
             /\ opener' = [opener EXCEPT ![p] = o] /\ o.pc = pc
             /\ o.existed = opener[p].existed /\ o.from = opener[p].from
      BY <1>0, <2>2, Goes
    <2>4. opener'[p] = o
      BY <2>3 DEF FilesInv, FileTypeOK
    <2>5. CopiedIn(p)'
      BY <1>0, <2>1, <2>2, <2>3, <2>4 DEF CopiedIn, OpenerAt, OpenerTypes
    <2> QED
      BY <1>0, <2>1, <2>2, <2>3, <2>5, OpenerMoves DEF OpenerTypes
  <1> QED
    BY <1>1, <1>2, <1>3, <1>4, <1>5

\* What an opener does to the file at the path: a copy that was like it, or openable, is openable.
LEMMA CopyStaysOpenable ==
    ASSUME FilesInv, NEW p \in Openers, IsDb(disk'), copy'[p] = copy[p],
           Present(disk) => Present(disk') /\ disk.version <= disk'.version,
           Present(disk) => SameTables(disk', disk) \/ OpenableBy(disk, disk.version),
           opener'[p] = opener[p]
    PROVE  CopiedIn(p)'
  <1>1. CopiedIn(p) /\ disk.version \in Nat /\ disk'.version \in Nat
    BY DEF FilesInv, FileTypeOK, IsDb
  <1>2. opener[p].existed => Present(disk')
    BY <1>1 DEF CopiedIn
  <1>3. ASSUME opener[p].existed, p \in Copying, opener[p].pc \notin {"start", "copy", "backup"}
        PROVE  SameTables(copy[p], disk') \/ OpenableBy(copy[p], disk'.version)
    <2>1. /\ SameTables(copy[p], disk) \/ OpenableBy(copy[p], disk.version)
          /\ Present(disk)
      BY <1>1, <1>3 DEF CopiedIn
    <2>2. SameTables(copy[p], disk) /\ OpenableBy(disk, disk.version) => OpenableBy(copy[p], disk.version)
      BY DEF SameTables, OpenableBy, Verified
    <2>3. SameTables(copy[p], disk) /\ SameTables(disk', disk) => SameTables(copy[p], disk')
      BY DEF SameTables
    <2>4. OpenableBy(copy[p], disk.version) => OpenableBy(copy[p], disk'.version)
      BY <1>1, <2>1 DEF OpenableBy
    <2> QED
      BY <2>1, <2>2, <2>3, <2>4
  <1> QED
    BY <1>1, <1>2, <1>3 DEF CopiedIn

LEMMA CreateSteps ==
    ASSUME FilesInv, NEW p \in Openers,
           CreateTemporary(p) \/ BuildSchema(p) \/ InitializeFails(p) \/ Publish(p)
    PROVE  FilesInv'
  <1>0. /\ FileTypeOK /\ opener[p] \in OpenerTypes /\ CopiedIn(p)
        /\ temp = [q \in Openers |-> temp[q]] /\ copy = [q \in Openers |-> copy[q]]
        /\ {"create", "build", "publish", "migrate"} \subseteq OpenerPcs
    BY DEF FilesInv, FileTypeOK, OpenerTypes, OpenerPcs
  <1>1. CASE CreateTemporary(p)
    <2>1. OpenerAt(p, "create") /\ temp' = [temp EXCEPT ![p] = EmptyFile] /\ UNCHANGED <<disk, copy, crashes>>
          /\ OpenerGoes(p, "build")
      BY <1>1 DEF CreateTemporary
    <2>2. PICK o \in OpenerTypes :
             /\ opener' = [opener EXCEPT ![p] = o] /\ o.pc = "build"
             /\ o.existed = opener[p].existed /\ o.from = opener[p].from
      BY <1>0, <2>1, Goes
    <2>3. opener'[p] = o
      BY <2>2 DEF FilesInv, FileTypeOK
    <2>4. CopiedIn(p)'
      BY <1>0, <2>1, <2>2, <2>3 DEF CopiedIn, OpenerAt, OpenerTypes
    <2>5. temp' = [q \in Openers |-> temp'[q]] /\ \A q \in Openers \ {p} : temp'[q] = temp[q]
      BY <1>0, <2>1
    <2> QED
      BY <1>0, <2>1, <2>2, <2>4, <2>5, OpenerMoves
  <1>2. CASE BuildSchema(p)
    <2>1. OpenerAt(p, "build") /\ temp' = [temp EXCEPT ![p] = NewStore(Layout[p], p)]
          /\ UNCHANGED <<disk, copy, crashes>> /\ OpenerGoes(p, "publish")
      BY <1>2 DEF BuildSchema
    <2>2. PICK o \in OpenerTypes :
             /\ opener' = [opener EXCEPT ![p] = o] /\ o.pc = "publish"
             /\ o.existed = opener[p].existed /\ o.from = opener[p].from
      BY <1>0, <2>1, Goes
    <2>3. opener'[p] = o
      BY <2>2 DEF FilesInv, FileTypeOK
    <2>4. CopiedIn(p)'
      BY <1>0, <2>1, <2>2, <2>3 DEF CopiedIn, OpenerAt, OpenerTypes
    <2>5. /\ temp' = [q \in Openers |-> temp'[q]] /\ \A q \in Openers \ {p} : temp'[q] = temp[q]
          /\ temp'[p] = NewStore(Layout[p], p)
      BY <1>0, <2>1
    <2> QED
      BY <1>0, <2>1, <2>2, <2>4, <2>5, OpenerMoves
  <1>3. CASE InitializeFails(p)
    <2>1. temp' = [temp EXCEPT ![p] = NoFile] /\ UNCHANGED <<disk, copy, crashes>>
          /\ opener' = [opener EXCEPT ![p] = [Closed EXCEPT !.pc = "failed"]]
      BY <1>3 DEF InitializeFails, Fails
    <2>2. temp' = [q \in Openers |-> temp'[q]] /\ \A q \in Openers \ {p} : temp'[q] = temp[q]
      BY <1>0, <2>1
    <2> QED
      BY <1>0, <2>1, <2>2, Ends
  <1>4. CASE Publish(p)
    <2>1. /\ OpenerAt(p, "publish") /\ temp' = [temp EXCEPT ![p] = NoFile]
          /\ UNCHANGED <<copy, crashes>> /\ OpenerGoes(p, "migrate")
          /\ disk' = IF Present(disk) THEN disk ELSE temp[p]
      BY <1>4 DEF Publish
    <2>2. PICK o \in OpenerTypes :
             /\ opener' = [opener EXCEPT ![p] = o] /\ o.pc = "migrate"
             /\ o.existed = opener[p].existed /\ o.from = opener[p].from
      BY <1>0, <2>1, Goes
    <2>3. opener'[p] = o /\ \A q \in Openers \ {p} : opener'[q] = opener[q]
      BY <2>2 DEF FilesInv, FileTypeOK
    <2>4. temp' = [q \in Openers |-> temp'[q]] /\ \A q \in Openers \ {p} : temp'[q] = temp[q]
      BY <1>0, <2>1
    <2>5. CASE Present(disk)
      <3>1. CopiedIn(p)'
        BY <1>0, <2>1, <2>2, <2>3, <2>5 DEF CopiedIn, OpenerAt, OpenerTypes
      <3> QED
        BY <1>0, <2>1, <2>2, <2>4, <2>5, <3>1, OpenerMoves
    <2>6. CASE ~Present(disk)
      <3>1. disk' = NewStore(Layout[p], p)
        BY <2>1, <2>6 DEF FilesInv, BuiltInFull
      <3>2. /\ disk'.version = Layout[p] /\ disk'.tables = Required(Layout[p])
            /\ IsDb(disk')
        BY <3>1, LayoutType DEF NewStore, Db, IsDb, DbIds
      <3>3. Whole(disk')
        BY <3>2, LayoutType, SixLayouts DEF Whole
      <3>4. disk.version = 0
        BY <2>6, NoFileHasNoLayout DEF Present
      <3>5. \A q \in Openers : ~OpenerAt(q, "opened") /\ ~opener[q].existed
        BY <2>6, <3>4, LayoutType DEF FilesInv, StoreIsWhole, CopiedIn
      <3>6. \A q \in Openers : CopiedIn(q)'
        BY <2>1, <2>2, <2>3, <3>5 DEF FilesInv, CopiedIn, OpenerAt
      <3>7. StoreIsWhole'
        BY <2>2, <2>3, <3>3, <3>5 DEF StoreIsWhole, OpenerAt
      <3>8. BuiltInFull'
        BY <2>2, <2>3, <2>4 DEF FilesInv, BuiltInFull, OpenerAt
      <3>9. FileTypeOK'
        BY <1>0, <2>1, <2>2, <2>4, <3>2 DEF FileTypeOK
      <3> QED
        BY <3>6, <3>7, <3>8, <3>9 DEF FilesInv
    <2> QED
      BY <2>5, <2>6
  <1> QED
    BY <1>1, <1>2, <1>3, <1>4

\* The migration under the write lock.
LEMMA UpgradeStep ==
    ASSUME FilesInv, NEW p \in Openers, Upgrade(p), Upgradable(p), disk.version # Layout[p]
    PROVE  FilesInv'
  <1>0. /\ FileTypeOK /\ IsDb(disk) /\ opener[p] \in OpenerTypes /\ CopiedIn(p)
        /\ temp = [q \in Openers |-> temp[q]] /\ copy = [q \in Openers |-> copy[q]]
        /\ Layout[p] \in 1..6 /\ DOMAIN DDL = 1..6
    BY LayoutType, SixLayouts DEF FilesInv, FileTypeOK
  <1>1. /\ OpenerAt(p, "upgrade") /\ disk' = Upgraded(disk, Layout[p]) /\ UNCHANGED <<temp, copy, crashes>>
        /\ opener' = [opener EXCEPT ![p].pc = "verify", ![p].from = disk.version]
    BY DEF Upgrade
  <1>2. disk.version \in Nat /\ disk.version > 0 /\ disk.version < Layout[p] /\ Verified(disk, disk.version)
    BY <1>0 DEF Upgradable, IsDb
  <1>3. /\ IsDb(disk') /\ disk'.version = Layout[p] /\ Verified(disk', Layout[p])
        /\ disk'.id = disk.id
        /\ \A S : disk.tables = Required(disk.version) \cup S => disk'.tables = Required(Layout[p]) \cup S
    BY <1>0, <1>1, <1>2, UpgradedIsWhole
  <1>4. Present(disk) /\ Present(disk')
    BY <1>0, <1>2, <1>3, NoFileHasNoLayout DEF Present
  <1>5. Whole(disk')
    <2>1. CASE disk.tables = Required(disk.version)
      <3>1. disk.tables = Required(disk.version) \cup {}
        BY <2>1
      <3>2. disk'.tables = Required(Layout[p])
        <4>1. disk'.tables = Required(Layout[p]) \cup {}
          BY <1>3, <3>1
        <4> QED
          BY <4>1
      <3> QED
        BY <1>0, <1>3, <3>2 DEF Whole
    <2>2. CASE \E f \in Found : /\ disk.id = "found" /\ f.version <= disk.version
                                /\ disk.tables = Required(disk.version) \cup f.has
      <3>1. PICK f \in Found : /\ disk.id = "found" /\ f.version <= disk.version
                               /\ disk.tables = Required(disk.version) \cup f.has
        BY <2>2
      <3>2. f.version \in Nat
        BY LayoutAssumption DEF LayoutAssumption
      <3>3. disk'.tables = Required(Layout[p]) \cup f.has /\ f.version <= Layout[p]
        BY <1>0, <1>2, <1>3, <3>1, <3>2
      <3> QED
        BY <1>0, <1>3, <3>1, <3>3 DEF Whole
    <2> QED
      BY <1>0, <1>2, <1>4, <2>1, <2>2, FoundIsWhole DEF FilesInv, StoreIsWhole, Whole
  <1>6. PICK o \in OpenerTypes : /\ opener' = [opener EXCEPT ![p] = o] /\ o.pc = "verify"
                                 /\ o.from = disk.version /\ o.existed = opener[p].existed
    <2>1. PICK r : r = [opener[p] EXCEPT !.pc = "verify", !.from = disk.version]
      OBVIOUS
    <2>2. r \in OpenerTypes /\ r.pc = "verify" /\ r.from = disk.version /\ r.existed = opener[p].existed
      BY <1>0, <1>2, <2>1 DEF OpenerTypes, OpenerPcs
    <2>3. opener' = [opener EXCEPT ![p] = r]
      BY <1>0, <1>1, <2>1 DEF FileTypeOK
    <2> QED
      BY <2>2, <2>3
  <1>7. opener'[p] = o /\ \A q \in Openers \ {p} : opener'[q] = opener[q]
    BY <1>0, <1>6 DEF FileTypeOK
  <1>8. FileTypeOK'
    <2>1. temp' = [q \in Openers |-> temp'[q]] /\ copy' = [q \in Openers |-> copy'[q]]
      BY <1>0, <1>1
    <2>2. opener \in [Openers -> OpenerTypes]
      BY <1>0 DEF FileTypeOK
    <2>3. opener' \in [Openers -> OpenerTypes]
      BY ONLY <1>6, <2>2
    <2> QED
      BY <1>3, <2>1, <2>3 DEF FileTypeOK
  <1>9. BuiltInFull'
    BY <1>1, <1>6, <1>7 DEF FilesInv, BuiltInFull, OpenerAt
  <1>10. StoreIsWhole'
    <2>1. \A q \in Openers : OpenerAt(q, "opened")' => disk.version >= Layout[q]
      BY <1>6, <1>7 DEF FilesInv, StoreIsWhole, OpenerAt
    <2>2. \A q \in Openers : OpenerAt(q, "opened")' => disk'.version >= Layout[q] /\ Verified(disk', disk'.version)
      BY <1>0, <1>2, <1>3, <2>1, LayoutType
    <2> QED
      BY <1>5, <2>2 DEF StoreIsWhole
  <1>11. OpenableBy(disk, disk.version)
    BY <1>2 DEF OpenableBy
  <1>12. \A q \in Openers \ {p} : CopiedIn(q)'
    <2> SUFFICES ASSUME NEW q \in Openers \ {p} PROVE CopiedIn(q)'
      OBVIOUS
    <2>1. disk.version <= disk'.version /\ copy'[q] = copy[q] /\ opener'[q] = opener[q]
      <3>1. disk.version <= disk'.version
        BY <1>0, <1>2, <1>3
      <3> QED
        BY <1>1, <1>7, <3>1
    <2> QED
      BY <1>3, <1>4, <1>11, <2>1, CopyStaysOpenable
  <1>13. CopiedIn(p)'
    <2>1. SUFFICES ASSUME opener[p].existed, p \in Copying
                   PROVE  OpenableBy(copy[p], disk.version)
                          /\ (SameTables(copy[p], disk') \/ OpenableBy(copy[p], disk'.version))
      BY <1>1, <1>4, <1>6, <1>7 DEF CopiedIn
    <2>2. SameTables(copy[p], disk) \/ OpenableBy(copy[p], disk.version)
      BY <1>0, <1>1, <2>1 DEF CopiedIn, OpenerAt
    <2>3. OpenableBy(copy[p], disk.version)
      BY <1>11, <2>2 DEF SameTables, OpenableBy, Verified
    <2>4. OpenableBy(copy[p], disk'.version)
      BY <1>0, <1>2, <1>3, <2>3 DEF OpenableBy
    <2> QED
      BY <2>3, <2>4
  <1> QED
    BY <1>8, <1>9, <1>10, <1>12, <1>13 DEF FilesInv

LEMMA WriteStep == ASSUME FilesInv, NEW p \in Openers, WriteStore(p) PROVE FilesInv'
  <1>0. FileTypeOK /\ IsDb(disk) /\ Layout[p] \in 1..6
    BY LayoutType DEF FilesInv, FileTypeOK
  <1>1. PICK w : disk' = [disk EXCEPT !.writes = w]
    BY DEF WriteStore
  <1>2. OpenerAt(p, "opened") /\ UNCHANGED <<temp, copy, opener, crashes>>
    BY DEF WriteStore
  <1>3. /\ IsDb(disk') /\ SameTables(disk', disk) /\ disk'.id = disk.id
        /\ [disk' EXCEPT !.writes = {}] = [disk EXCEPT !.writes = {}]
    <2>1. PICK a, t, i, x : disk = [version |-> a, tables |-> t, id |-> i, writes |-> x]
      BY <1>0 DEF IsDb
    <2>2. disk' = [version |-> a, tables |-> t, id |-> i, writes |-> w]
      BY ONLY <1>1, <2>1
    <2>3. [disk' EXCEPT !.writes = {}] = [disk EXCEPT !.writes = {}]
      BY ONLY <2>1, <2>2
    <2>4. disk'.version = a /\ disk'.tables = t /\ disk'.id = i /\ disk'.writes = w
      BY ONLY <2>2
    <2>5. disk.version = a /\ disk.tables = t /\ disk.id = i
      BY ONLY <2>1
    <2> QED
      BY <1>0, <2>2, <2>3, <2>4, <2>5 DEF IsDb, SameTables
  <1>4. disk.version > 0 /\ disk.version \in Nat /\ Present(disk) /\ Present(disk')
    <2>1. disk.version > 0 /\ disk.version \in Nat
      BY <1>0, <1>2 DEF FilesInv, StoreIsWhole, IsDb
    <2> QED
      <3>1. disk'.version > 0 /\ NoFile.version = 0
        BY <1>3, <2>1, NoFileHasNoLayout DEF SameTables
      <3>2. disk # NoFile /\ disk' # NoFile
        BY <2>1, <3>1
      <3> QED
        BY <2>1, <3>2 DEF Present
  <1>5. FileTypeOK'
    BY <1>0, <1>2, <1>3 DEF FileTypeOK
  <1>6. BuiltInFull'
    BY <1>2 DEF FilesInv, BuiltInFull, OpenerAt
  <1>7. StoreIsWhole'
    <2>1. Whole(disk) => Whole(disk')
      BY <1>3 DEF Whole, SameTables
    <2>2. \A q \in Openers : OpenerAt(q, "opened")' => disk'.version >= Layout[q] /\ Verified(disk', disk'.version)
      BY <1>2, <1>3 DEF FilesInv, StoreIsWhole, OpenerAt, Verified, SameTables
    <2> QED
      BY <1>3, <1>4, <2>1, <2>2 DEF FilesInv, StoreIsWhole
  <1>8. \A q \in Openers : CopiedIn(q)'
    <2> SUFFICES ASSUME NEW q \in Openers PROVE CopiedIn(q)'
      OBVIOUS
    <2>1. disk.version <= disk'.version /\ copy'[q] = copy[q] /\ opener'[q] = opener[q]
      BY <1>2, <1>3, <1>4 DEF SameTables
    <2> QED
      BY <1>3, <1>4, <2>1, CopyStaysOpenable
  <1> QED
    BY <1>5, <1>6, <1>7, <1>8 DEF FilesInv

LEMMA OpenSteps ==
    ASSUME FilesInv, NEW p \in Openers,
           \/ ReadVersion(p) \/ Upgrade(p) \/ OpenFails(p) \/ VerifyStore(p) \/ WriteStore(p)
           \/ CloseStore(p) \/ CrashOpener(p)
    PROVE  FilesInv'
  <1>0. /\ FileTypeOK /\ IsDb(disk) /\ opener[p] \in OpenerTypes /\ CopiedIn(p)
        /\ temp = [q \in Openers |-> temp[q]] /\ copy = [q \in Openers |-> copy[q]]
        /\ {"verify", "upgrade", "opened"} \subseteq OpenerPcs
    BY DEF FilesInv, FileTypeOK, OpenerPcs
  <1>1. ASSUME Fails(p), UNCHANGED <<disk, temp, copy>> PROVE FilesInv'
    <2>1. opener' = [opener EXCEPT ![p] = [Closed EXCEPT !.pc = "failed"]]
      BY <1>1 DEF Fails
    <2> QED
      BY <1>0, <1>1, <2>1, Ends
  <1>2. ASSUME opener' = [opener EXCEPT ![p] = Closed], UNCHANGED <<disk, temp, copy>> PROVE FilesInv'
    <2>1. Closed = [Closed EXCEPT !.pc = "start"]
      BY DEF Closed
    <2>2. opener' = [opener EXCEPT ![p] = [Closed EXCEPT !.pc = "start"]]
      BY <1>2, <2>1
    <2> QED
      BY <1>0, <1>2, <2>2, Ends
  <1>3. ASSUME NEW pc \in {"verify", "upgrade"}, OpenerGoes(p, pc), opener[p].pc \in {"migrate", "upgrade"},
               UNCHANGED <<disk, temp, copy>>
        PROVE  FilesInv'
    <2>1. PICK o \in OpenerTypes :
             /\ opener' = [opener EXCEPT ![p] = o] /\ o.pc = pc
             /\ o.existed = opener[p].existed /\ o.from = opener[p].from
      BY <1>0, <1>3, Goes
    <2>2. opener'[p] = o
      BY <1>0, <2>1 DEF FileTypeOK
    <2>3. CopiedIn(p)'
      BY <1>0, <1>3, <2>1, <2>2 DEF CopiedIn, OpenerTypes
    <2> QED
      BY <1>0, <1>3, <2>1, <2>3, OpenerMoves
  <1>4. CASE ReadVersion(p)
    <2>1. UNCHANGED <<disk, temp, copy>> /\ opener[p].pc = "migrate"
          /\ (OpenerGoes(p, "verify") \/ OpenerGoes(p, "upgrade") \/ Fails(p))
      BY <1>4 DEF ReadVersion, OpenerAt
    <2> QED
      BY <1>1, <1>3, <2>1
  <1>5. CASE Upgrade(p)
    <2>1. CASE disk.version = Layout[p]
      <3>1. OpenerAt(p, "upgrade") /\ UNCHANGED <<disk, temp, copy>> /\ OpenerGoes(p, "verify")
        <4>1. ~Upgradable(p)
          BY <2>1, LayoutType DEF Upgradable
        <4> QED
          BY <1>5, <2>1, <4>1 DEF Upgrade
      <3> QED
        BY <1>3, <3>1 DEF OpenerAt
    <2>2. CASE disk.version # Layout[p] /\ Upgradable(p)
      BY <1>5, <2>2, UpgradeStep
    <2>3. CASE disk.version # Layout[p] /\ ~Upgradable(p)
      BY <1>1, <1>5, <2>3 DEF Upgrade
    <2> QED
      BY <2>1, <2>2, <2>3
  <1>6. CASE OpenFails(p)
    BY <1>1, <1>6 DEF OpenFails
  <1>7. CASE VerifyStore(p)
    <2>1. CASE ~Verified(disk, Layout[p])
      BY <1>1, <1>7, <2>1 DEF VerifyStore
    <2>2. CASE Verified(disk, Layout[p])
      <3>1. /\ OpenerAt(p, "verify") /\ UNCHANGED <<disk, temp, copy, crashes>>
            /\ opener' = [opener EXCEPT ![p].pc = "opened", ![p].id = disk.id]
        BY <1>7, <2>2 DEF VerifyStore
      <3>2. PICK o : o = [opener[p] EXCEPT !.pc = "opened", !.id = disk.id]
        OBVIOUS
      <3>3. o \in OpenerTypes /\ o.pc = "opened" /\ o.from = opener[p].from /\ o.existed = opener[p].existed
        BY <1>0, <3>2 DEF OpenerTypes, IsDb
      <3>4. opener' = [opener EXCEPT ![p] = o] /\ opener'[p] = o
        BY <1>0, <3>1, <3>2 DEF FileTypeOK
      <3>5. disk.version >= Layout[p] /\ Verified(disk, disk.version)
        BY <2>2, LayoutType DEF Verified
      <3>6. CopiedIn(p)'
        BY <1>0, <3>1, <3>3, <3>4 DEF CopiedIn, OpenerAt, OpenerTypes
      <3> QED
        BY <1>0, <3>1, <3>3, <3>4, <3>5, <3>6, OpenerMoves
    <2> QED
      BY <2>1, <2>2
  <1>8. CASE WriteStore(p)
    BY <1>8, WriteStep
  <1>9. CASE CloseStore(p)
    BY <1>2, <1>9 DEF CloseStore
  <1>10. CASE CrashOpener(p)
    BY <1>2, <1>10 DEF CrashOpener
  <1> QED
    BY <1>4, <1>5, <1>6, <1>7, <1>8, <1>9, <1>10

LEMMA FilesAreRight == FilesSpec => []FilesInv
  <1>1. FilesInv /\ [FilesNext]_fileVars => FilesInv'
    <2> SUFFICES ASSUME FilesInv, [FilesNext]_fileVars PROVE FilesInv'
      OBVIOUS
    <2>1. CASE UNCHANGED fileVars
      BY <2>1 DEF fileVars, FilesInv, FileTypeOK, BuiltInFull, StoreIsWhole, CopiedIn, OpenerAt
    <2>2. CASE FilesNext
      BY <2>2, CopySteps, CreateSteps, OpenSteps DEF FilesNext
    <2> QED
      BY <2>1, <2>2
  <1> QED
    BY <1>1, FilesStart, PTL DEF FilesSpec

\* The store at the path is replaced by no step, and loses no write and no layout.
LEMMA StepKeepsTheStore ==
    ASSUME FilesInv, [FilesNext]_fileVars, Present(disk)
    PROVE  disk'.id = disk.id /\ disk.writes \subseteq disk'.writes /\ disk.version <= disk'.version
  <1>0. IsDb(disk) /\ disk.version \in Nat
    BY DEF FilesInv, FileTypeOK, IsDb
  <1>1. CASE disk' = disk
    BY <1>0, <1>1
  <1>2. ASSUME NEW p \in Openers, Upgrade(p), disk' # disk
        PROVE  disk'.id = disk.id /\ disk.writes \subseteq disk'.writes /\ disk.version <= disk'.version
    <2>1. Upgradable(p) /\ disk' = Upgraded(disk, Layout[p])
      BY <1>2 DEF Upgrade
    <2>2. disk.version < Layout[p] /\ Verified(disk, disk.version) /\ Layout[p] \in Nat
      BY <1>0, <2>1, LayoutType DEF Upgradable
    <2> QED
      BY <1>0, <2>1, <2>2, UpgradedIsWhole
  <1>3. ASSUME NEW p \in Openers, WriteStore(p)
        PROVE  disk'.id = disk.id /\ disk.writes \subseteq disk'.writes /\ disk.version <= disk'.version
    <2>1. PICK w : disk' = [disk EXCEPT !.writes = w] /\ disk.writes \subseteq w
      BY <1>3 DEF WriteStore
    <2>2. PICK a, t, i, x : disk = [version |-> a, tables |-> t, id |-> i, writes |-> x]
      BY <1>0 DEF IsDb
    <2>3. disk' = [version |-> a, tables |-> t, id |-> i, writes |-> w]
      BY ONLY <2>1, <2>2
    <2> QED
      BY <1>0, <2>1, <2>2, <2>3
  <1>4. ASSUME NEW p \in Openers,
               \/ StartOpening(p) \/ BeginCopy(p) \/ Backup(p) \/ BackupFails(p) \/ CheckFile(p)
               \/ CreateTemporary(p) \/ BuildSchema(p) \/ Publish(p) \/ InitializeFails(p)
               \/ ReadVersion(p) \/ OpenFails(p) \/ VerifyStore(p) \/ CloseStore(p) \/ CrashOpener(p)
        PROVE  disk' = disk
    BY <1>4 DEF StartOpening, BeginCopy, Backup, BackupFails, CheckFile, CreateTemporary, BuildSchema,
                Publish, InitializeFails, ReadVersion, OpenFails, VerifyStore, CloseStore, CrashOpener
  <1> QED
    BY <1>1, <1>2, <1>3, <1>4 DEF FilesNext, fileVars

\* What the property says of one step.
Kept == Present(disk) =>
          disk'.id = disk.id /\ disk.writes \subseteq disk'.writes /\ disk.version <= disk'.version

\* No half-made store is ever at the path, processes that create it at once agree on one, which
\* loses no write and no layout, and a runtime that migrated one holds a copy the code before
\* opens, for any number of openers of any layouts, each killed anywhere and any number of times,
\* and whatever files are found at the path (store.py:458-560, job_runtime.py:130).
THEOREM StoreStaysSafe == FilesSpec => StoreIsSafe
  <1>1. FilesInv => StoreIsWhole /\ MigrationHasItsBackup
    BY DEF FilesInv, CopiedIn, MigrationHasItsBackup, OpenableBy
  <1>2. FilesInv /\ [FilesNext]_fileVars => [Kept]_disk
    BY StepKeepsTheStore DEF Kept
  <1>3. FilesSpec => [][Kept]_disk
    BY <1>2, FilesAreRight, PTL DEF FilesSpec
  <1>4. OneInstallation <=> [][Kept]_disk
    BY PTL DEF OneInstallation, Kept
  <1>5. FilesSpec => [](StoreIsWhole /\ MigrationHasItsBackup)
    BY <1>1, FilesAreRight, PTL
  <1> QED
    BY <1>3, <1>4, <1>5 DEF StoreIsSafe

-------------------------------------------------------------------------------
(* The first-run wizard: what counts as done was done. *)

TaskStatuses  == {"waiting", "running", "ended", "recording", "completing"} \cup TaskTerminal
TaskNames     == {Tasks[n] : n \in DOMAIN Tasks}
Steps         == {"welcome", "profile", "diarization", "token", "model", "confirm", "execution", "done"}
Views         == (Steps \ {"execution"}) \cup {"away", "run", "progress", "error"}
ProfileNames  == Profiles \cup {NoProfile}
SettingsTypes == [started : BOOLEAN, completed : BOOLEAN, step : Steps, profile : ProfileNames,
                  diarize : BOOLEAN, stages : SUBSET TaskNames]
PageTypes     == [at : Views, profile : ProfileNames, diarize : BOOLEAN, stages : SUBSET TaskNames,
                  resume : BOOLEAN, job : Nat]
MemoTypes     == [stages : SUBSET TaskNames, profile : ProfileNames, strays : SUBSET TaskNames]
TaskTypes     == [task : TaskNames, profile : ProfileNames, status : TaskStatuses,
                  cancelled : BOOLEAN, ok : BOOLEAN, memo : MemoTypes]

WizardTypeOK ==
    /\ settings \in SettingsTypes
    /\ page \in [Pages -> PageTypes]
    /\ tasks \in Seq(TaskTypes)
    /\ \A p \in Pages : page[p].job <= Len(tasks)
    /\ smoked \in BOOLEAN
    /\ strays \subseteq TaskNames

\* A task between its start and its end: its child, or what is recorded of it.
Under(i) == tasks[i].status \notin TaskTerminal \cup {"waiting"}

\* Stages that count for a profile: earned for some profile, and but for the strays for
\* this one.
Counts(stages, others, profile) ==
    /\ stages \subseteq EarnedStages
    /\ \A stage \in stages \ others : <<profile, stage>> \in earned

\* What a task may still write is earned, and it is alone.
TaskIsEarned(i) ==
    /\ Counts(tasks[i].memo.stages, tasks[i].memo.strays, tasks[i].memo.profile)
    /\ tasks[i].status = "recording" => <<tasks[i].profile, tasks[i].task>> \in earned
    /\ tasks[i].status = "completing" => "smoke" \in EarnedStages
    /\ Under(i) => \A k \in 1 .. i - 1 : tasks[k].status \in TaskTerminal

WizardInv ==
    /\ WizardTypeOK
    /\ Counts(settings.stages, strays, settings.profile)
    /\ settings.completed \/ smoked => "smoke" \in EarnedStages
    /\ \A i \in DOMAIN tasks : TaskIsEarned(i)

\* Settings that claim nothing new.
ClaimsNoMore(s) ==
    /\ s \in SettingsTypes
    /\ s.stages \subseteq settings.stages
    /\ s.stages = {} \/ s.profile = settings.profile
    /\ s.completed => settings.completed

\* What has been earned stays earned.
LEMMA EarnedStays ==
    ASSUME earned \subseteq earned', NEW stages, NEW others, NEW profile
    PROVE  /\ EarnedStages \subseteq EarnedStages'
           /\ Counts(stages, others, profile) =>
                /\ stages \subseteq EarnedStages'
                /\ \A stage \in stages \ others : <<profile, stage>> \in earned'
  <1>1. EarnedStages \subseteq EarnedStages'
    BY DEF EarnedStages
  <1> QED
    BY <1>1 DEF Counts

LEMMA StatusClaims == ASSUME settings \in SettingsTypes PROVE ClaimsNoMore(Status)
  <1>1. PICK s : s = [settings EXCEPT !.step = "profile", !.stages = {}]
    OBVIOUS
  <1>2. ClaimsNoMore(s)
    BY <1>1 DEF ClaimsNoMore, SettingsTypes, Steps
  <1>3. ClaimsNoMore(settings)
    BY DEF ClaimsNoMore
  <1> QED
    BY <1>1, <1>2, <1>3 DEF Status

LEMMA StartedClaims == ASSUME settings \in SettingsTypes PROVE ClaimsNoMore(Started)
  <1>1. PICK s : s = [settings EXCEPT !.started = TRUE, !.completed = FALSE, !.step = "profile",
                                      !.profile = NoProfile, !.stages = {}]
    OBVIOUS
  <1>2. ClaimsNoMore(s)
    BY <1>1 DEF ClaimsNoMore, SettingsTypes, Steps, ProfileNames
  <1>3. PICK r : r = [settings EXCEPT !.started = TRUE, !.step = "profile"]
    OBVIOUS
  <1>4. ClaimsNoMore(r)
    BY <1>3 DEF ClaimsNoMore, SettingsTypes, Steps
  <1>5. ClaimsNoMore(settings)
    BY DEF ClaimsNoMore
  <1> QED
    BY <1>1, <1>2, <1>3, <1>4, <1>5 DEF Started

LEMMA SavedClaims ==
    ASSUME settings \in SettingsTypes, NEW step \in Steps, NEW pg \in PageTypes
    PROVE  ClaimsNoMore(SavedState(step, pg))
  <1>1. PICK b, c, st, pr, d, g :
          settings = [started |-> b, completed |-> c, step |-> st, profile |-> pr, diarize |-> d, stages |-> g]
    BY DEF SettingsTypes
  <1> DEFINE profile == IF pg.profile # NoProfile THEN pg.profile ELSE settings.profile
             to      == IF profile = NoProfile /\ step \notin {"welcome", "profile"} THEN "profile" ELSE step
             left    == IF profile # settings.profile \/ profile = NoProfile THEN {} ELSE settings.stages
  <1>2. SavedState(step, pg)
          = [settings EXCEPT !.step = to, !.profile = profile, !.diarize = pg.diarize, !.stages = left]
    BY DEF SavedState
  <1>3. profile \in ProfileNames /\ left \in SUBSET TaskNames /\ left \subseteq settings.stages
        /\ (left = {} \/ profile = settings.profile)
    BY DEF PageTypes, SettingsTypes
  <1>5. to \in Steps /\ pg.diarize \in BOOLEAN
    BY DEF Steps, PageTypes
  <1> HIDE DEF profile, to, left
  <1>4. SavedState(step, pg)
          = [started |-> b, completed |-> c, step |-> to, profile |-> profile, diarize |-> pg.diarize,
             stages |-> left]
    BY <1>1, <1>2
  <1> QED
    BY <1>1, <1>3, <1>4, <1>5 DEF ClaimsNoMore, SettingsTypes

\* The task a page asks for next is one of the list.
LEMMA NextIsATask == ASSUME NEW pg, Remaining(pg) # {} PROVE NextTask(pg) \in TaskNames
  <1>1. Remaining(pg) \subseteq Nat /\ Remaining(pg) \subseteq DOMAIN Tasks
    BY DEF Remaining, Tasks
  <1>2. \E n \in Remaining(pg) : \A k \in Remaining(pg) : n <= k
    BY <1>1, FirstNumber
  <1>3. (CHOOSE m \in Remaining(pg) : \A k \in Remaining(pg) : m <= k) \in Remaining(pg)
    BY <1>2
  <1> QED
    BY <1>1, <1>3 DEF NextTask, TaskNames

-------------------------------------------------------------------------------
(* Steps of a page that leave the tasks alone *)

LEMMA PageOnly ==
    ASSUME WizardInv, UNCHANGED <<tasks, smoked>>, earned \subseteq earned',
           settings' \in SettingsTypes, strays' \subseteq TaskNames,
           Counts(settings.stages, strays, settings.profile)',
           settings'.completed => "smoke" \in EarnedStages',
           NEW p \in Pages, NEW pg \in PageTypes, Show(p, pg), pg.job <= Len(tasks)
    PROVE  WizardInv'
  <1>1. page' \in [Pages -> PageTypes] /\ \A q \in Pages : page'[q] = IF q = p THEN pg ELSE page[q]
    BY DEF WizardInv, WizardTypeOK, Show
  <1>2. WizardTypeOK'
    BY <1>1 DEF WizardInv, WizardTypeOK
  <1>3. \A i \in DOMAIN tasks : TaskIsEarned(i)'
    <2> SUFFICES ASSUME NEW i \in DOMAIN tasks PROVE TaskIsEarned(i)'
      OBVIOUS
    <2>1. TaskIsEarned(i)
      BY DEF WizardInv
    <2>2. Counts(tasks[i].memo.stages, tasks[i].memo.strays, tasks[i].memo.profile)'
      BY <2>1, EarnedStays DEF TaskIsEarned, Counts
    <2> QED
      BY <2>1, <2>2, EarnedStays DEF TaskIsEarned, Under
  <1> QED
    BY <1>2, <1>3, EarnedStays DEF WizardInv

LEMMA PageSaves ==
    ASSUME WizardInv, KeepsServer, ClaimsNoMore(settings'),
           NEW p \in Pages, NEW pg \in PageTypes, Show(p, pg), pg.job <= Len(tasks)
    PROVE  WizardInv'
  <1>1. /\ UNCHANGED <<tasks, smoked, earned>> /\ strays' = strays \cap settings'.stages
        /\ strays \subseteq TaskNames /\ EarnedStages' = EarnedStages
    BY DEF KeepsServer, WizardInv, WizardTypeOK, EarnedStages
  <1>2. Counts(settings.stages, strays, settings.profile)'
    BY <1>1 DEF ClaimsNoMore, Counts, WizardInv
  <1> QED
    BY <1>1, <1>2, PageOnly DEF ClaimsNoMore, WizardInv

LEMMA Stays == ASSUME WizardInv, UNCHANGED settings PROVE ClaimsNoMore(settings')
  BY DEF ClaimsNoMore, WizardInv, WizardTypeOK

LEMMA PageAt ==
    ASSUME NEW pg \in PageTypes, NEW at \in Views
    PROVE  [pg EXCEPT !.at = at] \in PageTypes /\ [pg EXCEPT !.at = at].job = pg.job
  BY DEF PageTypes

LEMMA SaveStep ==
    ASSUME WizardInv, NEW p \in Pages, NEW step \in Steps, NEW pg \in PageTypes, pg.job <= Len(tasks),
           Save(p, step, pg)
    PROVE  WizardInv'
  <1>1. PICK at \in Views : Show(p, [pg EXCEPT !.at = at])
    BY DEF Save, Steps, Views
  <1>2. ClaimsNoMore(settings')
    BY SavedClaims DEF Save, WizardInv, WizardTypeOK
  <1> QED
    BY <1>1, <1>2, PageAt, PageSaves DEF Save

LEMMA FreshIsAPage == FreshPage \in PageTypes /\ FreshPage.job = 0
  BY DEF FreshPage, PageTypes, ProfileNames, Steps, Views

LEMMA BrowseSteps ==
    ASSUME WizardInv, NEW p \in Pages,
           \/ OpenPage(p) \/ WizardBegin(p)
           \/ \E profile \in Profiles : ProfileNext(p, profile)
           \/ \E want \in BOOLEAN : DiarizationNext(p, want) \/ TokenNext(p, want)
           \/ ModelChoiceNext(p) \/ ConfirmStart(p) \/ ConfirmBack(p) \/ RunUnattended(p)
           \/ Retry(p) \/ AllDone(p) \/ LeaveWizard(p)
    PROVE  WizardInv'
  <1>0. settings \in SettingsTypes /\ page[p] \in PageTypes /\ page[p].job <= Len(tasks) /\ Len(tasks) \in Nat
    BY DEF WizardInv, WizardTypeOK
  <1>a. ASSUME NEW at \in Views, Show(p, [page[p] EXCEPT !.at = at]), KeepsServer, ClaimsNoMore(settings')
        PROVE  WizardInv'
    BY <1>0, <1>a, PageAt, PageSaves
  <1>1. CASE OpenPage(p)
    <2>1. CASE settings.completed
      BY <1>0, <1>1, <1>a, <2>1, StartedClaims DEF OpenPage, Steps, Views
    <2>2. CASE ~settings.completed
      <3> DEFINE pg == [at |-> IF Status.step = "execution" THEN "run" ELSE Status.step,
                        profile |-> Status.profile, diarize |-> Status.diarize,
                        stages |-> Status.stages, resume |-> "venv" \in Status.stages, job |-> 0]
      <3>1. Show(p, pg) /\ UNCHANGED settings /\ KeepsServer
        BY <1>1, <2>2 DEF OpenPage
      <3>2. pg \in PageTypes /\ pg.job <= Len(tasks)
        BY <1>0, StatusClaims DEF ClaimsNoMore, SettingsTypes, PageTypes, Steps, Views
      <3> QED
        BY <3>1, <3>2, Stays, PageSaves
    <2> QED
      BY <2>1, <2>2
  <1>2. CASE WizardBegin(p)
    BY <1>0, <1>2, <1>a, StartedClaims DEF WizardBegin, Steps, Views
  <1>3. ASSUME NEW profile \in Profiles, ProfileNext(p, profile) PROVE WizardInv'
    <2>1. [page[p] EXCEPT !.profile = profile] \in PageTypes
          /\ [page[p] EXCEPT !.profile = profile].job <= Len(tasks)
      BY <1>0 DEF PageTypes, ProfileNames
    <2> QED
      BY <1>3, <2>1, SaveStep DEF ProfileNext, Steps, Views
  <1>4. ASSUME NEW want \in BOOLEAN, DiarizationNext(p, want) \/ TokenNext(p, want) PROVE WizardInv'
    <2>1. [page[p] EXCEPT !.diarize = want] \in PageTypes
          /\ [page[p] EXCEPT !.diarize = want].job <= Len(tasks)
      BY <1>0 DEF PageTypes
    <2>2. PICK step \in Steps : Save(p, step, [page[p] EXCEPT !.diarize = want])
      BY <1>4 DEF DiarizationNext, TokenNext, Steps, Views
    <2> QED
      BY <2>1, <2>2, SaveStep
  <1>5. CASE ModelChoiceNext(p) \/ ConfirmStart(p)
    BY <1>0, <1>5, SaveStep DEF ModelChoiceNext, ConfirmStart, Steps, Views
  <1>6. CASE ConfirmBack(p) \/ Retry(p) \/ AllDone(p)
    <2>1. PICK at \in Views : Show(p, [page[p] EXCEPT !.at = at])
      BY <1>6 DEF ConfirmBack, Retry, AllDone, Steps, Views
    <2>2. UNCHANGED settings /\ KeepsServer
      BY <1>6 DEF ConfirmBack, Retry, AllDone
    <2> QED
      BY <1>a, <2>1, <2>2, Stays
  <1>7. CASE RunUnattended(p)
    <2>1. CASE page[p].profile = NoProfile
      BY <1>0, <1>7, <1>a, <2>1, SavedClaims DEF RunUnattended, Steps, Views
    <2>2. CASE page[p].profile # NoProfile
      <3>1. PICK pg : pg = [page[p] EXCEPT !.at = "progress", !.stages = Status.stages]
        OBVIOUS
      <3>2. Show(p, pg) /\ UNCHANGED settings /\ KeepsServer
        BY <1>7, <2>2, <3>1 DEF RunUnattended
      <3>3. Status.stages \in SUBSET TaskNames
        BY <1>0, StatusClaims DEF ClaimsNoMore, SettingsTypes
      <3>4. pg \in PageTypes /\ pg.job <= Len(tasks)
        BY <1>0, <3>1, <3>3 DEF PageTypes, Steps, Views
      <3> QED
        BY <3>2, <3>4, Stays, PageSaves
    <2> QED
      BY <2>1, <2>2
  <1>8. CASE LeaveWizard(p)
    <2>1. Show(p, FreshPage) /\ UNCHANGED <<settings, tasks, smoked, earned, strays>>
      BY <1>8 DEF LeaveWizard
    <2>2. EarnedStages' = EarnedStages
      BY <2>1 DEF EarnedStages
    <2> QED
      BY <1>0, <2>1, <2>2, FreshIsAPage, PageOnly DEF WizardInv, WizardTypeOK, Counts
  <1> QED
    BY <1>1, <1>2, <1>3, <1>4, <1>5, <1>6, <1>7, <1>8

LEMMA AnswerSteps ==
    ASSUME WizardInv, NEW p \in Pages,
           JobSeen(p) \/ FinishSetup(p) \/ \E want \in BOOLEAN : Preflight(p, want)
    PROVE  WizardInv'
  <1>0. settings \in SettingsTypes /\ page[p] \in PageTypes /\ page[p].job <= Len(tasks) /\ Len(tasks) \in Nat
        /\ tasks \in Seq(TaskTypes)
    BY DEF WizardInv, WizardTypeOK
  <1>1. CASE JobSeen(p)
    <2>0. page[p].job \in DOMAIN tasks /\ tasks[page[p].job].task \in TaskNames
      <3>1. page[p].job # 0
        BY <1>1 DEF JobSeen
      <3>2. page[p].job \in 1 .. Len(tasks)
        BY <1>0, <3>1 DEF PageTypes
      <3>3. tasks[page[p].job] \in TaskTypes
        BY <1>0, <3>2
      <3> QED
        BY <1>0, <3>2, <3>3 DEF TaskTypes
    <2>1. PICK pg \in PageTypes : Show(p, pg) /\ pg.job = 0
      <3>1. CASE Show(p, [page[p] EXCEPT !.stages = @ \cup {tasks[page[p].job].task}, !.job = 0])
        <4>1. PICK pg : pg = [page[p] EXCEPT !.stages = @ \cup {tasks[page[p].job].task}, !.job = 0]
          OBVIOUS
        <4>2. pg \in PageTypes /\ pg.job = 0
          BY <1>0, <2>0, <4>1 DEF PageTypes
        <4> QED
          BY <3>1, <4>1, <4>2
      <3>2. CASE Show(p, [page[p] EXCEPT !.at = "error", !.job = 0])
        <4>1. PICK pg : pg = [page[p] EXCEPT !.at = "error", !.job = 0]
          OBVIOUS
        <4>2. pg \in PageTypes /\ pg.job = 0
          BY <1>0, <4>1 DEF PageTypes, Steps, Views
        <4> QED
          BY <3>2, <4>1, <4>2
      <3>3. CASE Show(p, [page[p] EXCEPT !.at = "token", !.resume = TRUE, !.job = 0])
        <4>1. PICK pg : pg = [page[p] EXCEPT !.at = "token", !.resume = TRUE, !.job = 0]
          OBVIOUS
        <4>2. pg \in PageTypes /\ pg.job = 0
          BY <1>0, <4>1 DEF PageTypes, Steps, Views
        <4> QED
          BY <3>3, <4>1, <4>2
      <3> QED
        BY <1>1, <3>1, <3>2, <3>3 DEF JobSeen
    <2>2. UNCHANGED settings \/ settings' = SavedState("token", page[p])
      BY <1>1 DEF JobSeen
    <2>3. ClaimsNoMore(settings')
      BY <1>0, <2>2, SavedClaims, Stays DEF Steps, Views
    <2> QED
      BY <1>0, <1>1, <2>1, <2>3, PageSaves DEF JobSeen
  <1>2. CASE FinishSetup(p)
    <2>1. settings' \in SettingsTypes /\ settings'.stages = settings.stages
          /\ settings'.profile = settings.profile
      BY <1>0, <1>2 DEF FinishSetup, SettingsTypes
    <2>2. UNCHANGED <<tasks, smoked, earned>> /\ "smoke" \in EarnedStages
          /\ EarnedStages' = EarnedStages /\ strays' = strays \cap settings.stages
      BY <1>2, <2>1 DEF FinishSetup, KeepsServer, WizardInv, EarnedStages
    <2>3. Show(p, [page[p] EXCEPT !.at = "away"])
      BY <1>2 DEF FinishSetup
    <2>4. Counts(settings.stages, strays, settings.profile)' /\ strays' \subseteq TaskNames
      BY <2>1, <2>2 DEF WizardInv, WizardTypeOK, Counts
    <2> QED
      BY <1>0, <2>1, <2>2, <2>3, <2>4, PageAt, PageOnly DEF Steps, Views
  <1>3. CASE Preflight(p, TRUE)
    <2>1. settings' = [settings EXCEPT !.stages = @ \cup {"preflight"}]
          /\ earned' = earned \cup {<<page[p].profile, "preflight">>}
          /\ UNCHANGED <<tasks, smoked>> /\ Show(p, [page[p] EXCEPT !.stages = @ \cup {"preflight"}])
      BY <1>3 DEF Preflight
    <2>2. settings' \in SettingsTypes /\ settings'.stages = settings.stages \cup {"preflight"}
          /\ settings'.completed = settings.completed /\ settings'.profile = settings.profile
      BY <1>0, <2>1 DEF SettingsTypes, TaskNames, Tasks
    <2>3. [page[p] EXCEPT !.stages = @ \cup {"preflight"}] \in PageTypes
          /\ [page[p] EXCEPT !.stages = @ \cup {"preflight"}].job <= Len(tasks)
      BY <1>0 DEF PageTypes, TaskNames, Tasks
    <2>4. EarnedStages' = EarnedStages \cup {"preflight"}
      <3> DEFINE new == <<page[p].profile, "preflight">>
      <3>1. earned' = earned \cup {new} /\ new[2] = "preflight"
        BY <2>1
      <3> HIDE DEF new
      <3> QED
        BY <3>1 DEF EarnedStages
    <2>5. \/ /\ strays' = strays \cap settings'.stages
             /\ "preflight" \in settings.stages \/ page[p].profile = settings.profile
          \/ strays' = strays \cup {"preflight"}
      BY <1>3 DEF Preflight
    <2>6. strays' \subseteq TaskNames
      BY <2>5 DEF WizardInv, WizardTypeOK, TaskNames, Tasks
    <2>7. Counts(settings.stages, strays, settings.profile)'
      BY <2>1, <2>2, <2>4, <2>5 DEF WizardInv, Counts
    <2>8. settings'.completed => "smoke" \in EarnedStages'
      BY <2>2, <2>4 DEF WizardInv
    <2> QED
      BY <2>1, <2>2, <2>3, <2>6, <2>7, <2>8, PageOnly
  <1>4. CASE Preflight(p, FALSE)
    <2>1. settings' = [settings EXCEPT !.stages = @ \ {"preflight"}, !.step = "token"] /\ earned' = earned
          /\ UNCHANGED <<tasks, smoked>> /\ Show(p, [page[p] EXCEPT !.at = "token", !.resume = TRUE])
      BY <1>4 DEF Preflight
    <2>2. PICK s : s = [settings EXCEPT !.stages = @ \ {"preflight"}, !.step = "token"]
      OBVIOUS
    <2>3. s \in SettingsTypes /\ s.stages \subseteq settings.stages /\ s.completed = settings.completed
          /\ s.profile = settings.profile
      BY <1>0, <2>2 DEF SettingsTypes, Steps, Views
    <2>4. PICK pg : pg = [page[p] EXCEPT !.at = "token", !.resume = TRUE]
      OBVIOUS
    <2>5. pg \in PageTypes /\ pg.job <= Len(tasks)
      BY <1>0, <2>4 DEF PageTypes, Steps, Views
    <2>6. EarnedStages' = EarnedStages /\ strays' = strays \cap settings'.stages
      BY <1>4, <2>1 DEF Preflight, EarnedStages
    <2>7. Counts(settings.stages, strays, settings.profile)' /\ strays' \subseteq TaskNames
          /\ (settings'.completed => "smoke" \in EarnedStages')
      BY <2>1, <2>2, <2>3, <2>6 DEF WizardInv, WizardTypeOK, Counts
    <2> QED
      BY <2>1, <2>2, <2>3, <2>4, <2>5, <2>7, PageOnly
  <1> QED
    BY <1>1, <1>2, <1>3, <1>4

-------------------------------------------------------------------------------
(* Steps of the tasks *)

\* One task becomes another record.
LEMMA TaskBecomesAnother ==
    ASSUME WizardInv, UNCHANGED page, earned \subseteq earned',
           settings' \in SettingsTypes, strays' \subseteq TaskNames, smoked' \in BOOLEAN,
           Counts(settings.stages, strays, settings.profile)',
           settings'.completed \/ smoked' => "smoke" \in EarnedStages',
           NEW i \in DOMAIN tasks, NEW t \in TaskTypes, tasks' = [tasks EXCEPT ![i] = t],
           TaskIsEarned(i)', tasks[i].status \in TaskTerminal => t.status \in TaskTerminal,
           t.status \in TaskTerminal \cup {"waiting"} \/ tasks[i].status \notin TaskTerminal
    PROVE  WizardInv'
  <1>1. tasks \in Seq(TaskTypes) /\ Len(tasks) \in Nat /\ DOMAIN tasks = 1 .. Len(tasks)
    BY DEF WizardInv, WizardTypeOK
  <1>2. tasks' \in Seq(TaskTypes) /\ Len(tasks') = Len(tasks) /\ DOMAIN tasks' = DOMAIN tasks
        /\ \A k \in DOMAIN tasks : tasks'[k] = IF k = i THEN t ELSE tasks[k]
    BY <1>1
  <1>3. WizardTypeOK'
    BY <1>2 DEF WizardInv, WizardTypeOK
  <1>4. ASSUME NEW j \in DOMAIN tasks', j # i PROVE TaskIsEarned(j)'
    <2>1. tasks'[j] = tasks[j] /\ TaskIsEarned(j) /\ j \in 1 .. Len(tasks)
      BY <1>1, <1>2, <1>4 DEF WizardInv
    <2>2. ASSUME Under(j), NEW k \in 1 .. j - 1 PROVE tasks'[k].status \in TaskTerminal
      <3>1. k \in DOMAIN tasks /\ tasks[k].status \in TaskTerminal
        BY <1>1, <2>1, <2>2 DEF TaskIsEarned
      <3> QED
        BY <1>2, <3>1
    <2>3. Counts(tasks[j].memo.stages, tasks[j].memo.strays, tasks[j].memo.profile)'
      BY <2>1, EarnedStays DEF TaskIsEarned, Counts
    <2> QED
      BY <2>1, <2>2, <2>3, EarnedStays DEF TaskIsEarned, Under
  <1> QED
    BY <1>2, <1>3, <1>4 DEF WizardInv

\* What a task and its place in the list say, in the form the steps need.
LEMMA TaskAt ==
    ASSUME WizardInv, NEW i \in DOMAIN tasks
    PROVE  tasks[i] \in TaskTypes /\ TaskIsEarned(i)
  BY DEF WizardInv, WizardTypeOK

LEMMA SubmitStep == ASSUME WizardInv, NEW p \in Pages, NextJob(p) PROVE WizardInv'
  <1>0. /\ settings \in SettingsTypes /\ page \in [Pages -> PageTypes] /\ tasks \in Seq(TaskTypes)
        /\ \A q \in Pages : page[q].job <= Len(tasks)
        /\ page[p] \in PageTypes /\ Len(tasks) \in Nat
    BY DEF WizardInv, WizardTypeOK
  <1>1. CASE Show(p, [page[p] EXCEPT !.at = "error"]) /\ UNCHANGED tasks
    <2>1. /\ UNCHANGED <<settings, tasks, smoked, earned, strays>> /\ page[p].job <= Len(tasks)
          /\ EarnedStages' = EarnedStages
      BY <1>0, <1>1 DEF NextJob, EarnedStages
    <2>2. "error" \in Views
      BY DEF Views
    <2>3. Counts(settings.stages, strays, settings.profile)' /\ strays' \subseteq TaskNames
          /\ (settings'.completed => "smoke" \in EarnedStages')
      BY <2>1 DEF WizardInv, WizardTypeOK, Counts
    <2> QED
      BY <1>0, <1>1, <2>1, <2>2, <2>3, PageAt, PageOnly
  <1> DEFINE t == [task |-> NextTask(page[p]), profile |-> page[p].profile, status |-> "waiting",
                   cancelled |-> FALSE, ok |-> FALSE, memo |-> NoMemo]
  <1>2. CASE tasks' = Append(tasks, t) /\ Show(p, [page[p] EXCEPT !.job = Len(tasks) + 1])
    <2>0. NoMemo \in MemoTypes
      BY DEF NoMemo, MemoTypes, ProfileNames
    <2>1. t \in TaskTypes /\ t.status = "waiting" /\ t.memo = NoMemo
      BY <1>0, <1>2, <2>0, NextIsATask DEF NextJob, TaskTypes, PageTypes, TaskStatuses
    <2> HIDE DEF t
    <2>2. /\ tasks' \in Seq(TaskTypes) /\ Len(tasks') = Len(tasks) + 1 /\ DOMAIN tasks' = 1 .. Len(tasks) + 1
          /\ tasks'[Len(tasks) + 1] = t /\ \A k \in 1 .. Len(tasks) : tasks'[k] = tasks[k]
      BY <1>0, <1>2, <2>1
    <2>3. UNCHANGED <<settings, earned, smoked, strays>> /\ EarnedStages' = EarnedStages
      BY <1>2 DEF NextJob, EarnedStages
    <2>4. PICK pg : pg = [page[p] EXCEPT !.job = Len(tasks) + 1]
      OBVIOUS
    <2>5. pg \in PageTypes /\ pg.job = Len(tasks) + 1
      BY <1>0, <2>4 DEF PageTypes
    <2>6. page' = [page EXCEPT ![p] = pg]
      BY <1>2, <2>4 DEF Show
    <2>7. page' \in [Pages -> PageTypes] /\ \A q \in Pages : page'[q] = IF q = p THEN pg ELSE page[q]
      BY <1>0, <2>5, <2>6
    <2>8. \A q \in Pages : page'[q].job <= Len(tasks')
      <3> SUFFICES ASSUME NEW q \in Pages PROVE page'[q].job <= Len(tasks')
        OBVIOUS
      <3>1. page[q].job \in Nat
        BY <1>0 DEF PageTypes
      <3> QED
        BY <1>0, <2>2, <2>5, <2>7, <3>1
    <2>9. WizardTypeOK'
      BY <2>2, <2>3, <2>7, <2>8 DEF WizardInv, WizardTypeOK
    <2>10. ASSUME NEW j \in DOMAIN tasks' PROVE TaskIsEarned(j)'
      <3>1. CASE j = Len(tasks) + 1
        <4>1. tasks'[j].status = "waiting" /\ tasks'[j].memo = NoMemo
          BY <2>1, <2>2, <3>1
        <4> QED
          BY <4>1 DEF TaskIsEarned, Under, Counts, NoMemo
      <3>2. CASE j # Len(tasks) + 1
        <4>1. j \in 1 .. Len(tasks) /\ j \in DOMAIN tasks /\ tasks'[j] = tasks[j]
          BY <1>0, <2>2, <3>2
        <4>2. \A k \in 1 .. j - 1 : tasks'[k] = tasks[k]
          BY <1>0, <2>2, <4>1
        <4>3. TaskIsEarned(j)
          BY <4>1, TaskAt
        <4> QED
          BY <2>3, <4>1, <4>2, <4>3 DEF TaskIsEarned, Under, Counts
      <3> QED
        BY <3>1, <3>2
    <2> QED
      BY <2>3, <2>9, <2>10 DEF WizardInv, Counts
  <1> QED
    BY <1>1, <1>2 DEF NextJob

LEMMA CancelStep == ASSUME WizardInv, NEW p \in Pages, CancelTask(p) PROVE WizardInv'
  <1> DEFINE i == page[p].job
             to == IF tasks[i].status = "waiting" THEN "cancelled"
                   ELSE IF tasks[i].status = "running" THEN "ended" ELSE tasks[i].status
  <1>0. /\ tasks \in Seq(TaskTypes) /\ Len(tasks) \in Nat /\ i \in Nat /\ i # 0 /\ i <= Len(tasks)
        /\ tasks[i].status \in {"waiting", "running", "ended"}
        /\ UNCHANGED <<settings, page, smoked, earned, strays>> /\ EarnedStages' = EarnedStages
    BY DEF WizardInv, WizardTypeOK, PageTypes, CancelTask, KeepsRest, EarnedStages
  <1>1. i \in DOMAIN tasks /\ tasks[i] \in TaskTypes /\ TaskIsEarned(i)
    BY <1>0, TaskAt
  <1>2. PICK t : t = [tasks[i] EXCEPT !.cancelled = TRUE, !.status = to]
    OBVIOUS
  <1>3. to \in {"cancelled", "ended"}
    BY <1>0
  <1>4. t \in TaskTypes /\ t.status = to /\ t.memo = tasks[i].memo /\ t.task = tasks[i].task
        /\ t.profile = tasks[i].profile
    BY <1>1, <1>2, <1>3 DEF TaskTypes, TaskStatuses, TaskTerminal
  <1>5. tasks' = [tasks EXCEPT ![i] = t]
    BY <1>0, <1>1, <1>2 DEF CancelTask
  <1>6. to = "ended" => Under(i)
    BY <1>0 DEF Under, TaskTerminal
  <1>7. TaskIsEarned(i)'
    <2>1. tasks'[i] = t /\ \A k \in 1 .. i - 1 : tasks'[k] = tasks[k]
      BY <1>0, <1>1, <1>5
    <2> QED
      BY <1>0, <1>1, <1>3, <1>4, <1>6, <2>1 DEF TaskIsEarned, Under, TaskTerminal, Counts
  <1> QED
    BY <1>0, <1>1, <1>3, <1>4, <1>5, <1>7, TaskBecomesAnother
       DEF WizardInv, WizardTypeOK, TaskTerminal, Counts

\* A task that is under way, or that may start, gets another status.
LEMMA TaskGoes ==
    ASSUME WizardInv, UNCHANGED page, earned \subseteq earned',
           settings' \in SettingsTypes, strays' \subseteq TaskNames, smoked' \in BOOLEAN,
           Counts(settings.stages, strays, settings.profile)',
           settings'.completed \/ smoked' => "smoke" \in EarnedStages',
           NEW i \in DOMAIN tasks, NEW t \in TaskTypes, tasks' = [tasks EXCEPT ![i] = t],
           tasks[i].status \notin TaskTerminal,
           \A k \in 1 .. i - 1 : tasks[k].status \in TaskTerminal,
           t.memo.stages \subseteq EarnedStages',
           \A stage \in t.memo.stages \ t.memo.strays : <<t.memo.profile, stage>> \in earned',
           t.status = "recording" => <<t.profile, t.task>> \in earned',
           t.status = "completing" => "smoke" \in EarnedStages'
    PROVE  WizardInv'
  <1>1. tasks \in Seq(TaskTypes) /\ Len(tasks) \in Nat /\ DOMAIN tasks = 1 .. Len(tasks)
    BY DEF WizardInv, WizardTypeOK
  <1>2. tasks'[i] = t /\ \A k \in 1 .. i - 1 : tasks'[k] = tasks[k]
    BY <1>1
  <1>3. TaskIsEarned(i)'
    BY <1>2 DEF TaskIsEarned, Counts
  <1> QED
    BY <1>3, TaskBecomesAnother

LEMMA TaskSteps == ASSUME WizardInv, NEW i \in DOMAIN tasks, JobStep(i) PROVE WizardInv'
  <1>0. /\ tasks[i] \in TaskTypes /\ TaskIsEarned(i) /\ tasks \in Seq(TaskTypes)
        /\ settings \in SettingsTypes /\ Counts(settings.stages, strays, settings.profile)
        /\ smoked \in BOOLEAN /\ strays \subseteq TaskNames
        /\ (settings.completed \/ smoked => "smoke" \in EarnedStages)
    BY TaskAt DEF WizardInv, WizardTypeOK
  <1>u. ASSUME tasks[i].status \in {"running", "ended", "recording", "completing"}
        PROVE  tasks[i].status \notin TaskTerminal /\ \A k \in 1 .. i - 1 : tasks[k].status \in TaskTerminal
    BY <1>0, <1>u DEF TaskIsEarned, Under, TaskTerminal
  <1>s. ASSUME UNCHANGED <<settings, strays>>, earned \subseteq earned'
        PROVE  /\ settings' \in SettingsTypes /\ strays' \subseteq TaskNames
               /\ Counts(settings.stages, strays, settings.profile)'
               /\ EarnedStages \subseteq EarnedStages'
    BY <1>0, <1>s, EarnedStays DEF Counts
  <1>n. NoMemo \in MemoTypes /\ NoMemo.stages = {}
    BY DEF NoMemo, MemoTypes, ProfileNames
  <1>m. ASSUME NEW status \in TaskStatuses, TaskBecomes(i, status)
        PROVE  \E t \in TaskTypes : /\ tasks' = [tasks EXCEPT ![i] = t]
                                    /\ t.status = status /\ t.memo.stages = {}
    <2>1. PICK t : t = [tasks[i] EXCEPT !.status = status, !.memo = NoMemo]
      OBVIOUS
    <2>2. t \in TaskTypes /\ t.status = status /\ t.memo.stages = {}
      BY <1>0, <1>n, <2>1 DEF TaskTypes
    <2>3. tasks' = [tasks EXCEPT ![i] = t]
      BY <1>0, <1>m, <2>1 DEF TaskBecomes
    <2> QED
      BY <2>2, <2>3
  <1>1. CASE RunTask(i)
    <2>1. PICK status \in {"running", "failed"} : TaskBecomes(i, status)
      BY <1>1 DEF RunTask
    <2>2. PICK t \in TaskTypes : /\ tasks' = [tasks EXCEPT ![i] = t]
                                 /\ t.status = status /\ t.memo.stages = {}
      BY <1>m, <2>1 DEF TaskStatuses, TaskTerminal
    <2>3. /\ UNCHANGED <<settings, page, smoked, earned, strays>> /\ tasks[i].status \notin TaskTerminal
          /\ \A k \in 1 .. i - 1 : tasks[k].status \in TaskTerminal
      BY <1>1 DEF RunTask, KeepsRest, TaskTerminal
    <2> QED
      BY <1>0, <1>s, <2>1, <2>2, <2>3, TaskGoes
  <1>2. ASSUME NEW ok \in BOOLEAN, TaskEnds(i, ok) PROVE WizardInv'
    <2>1. PICK t : t = [tasks[i] EXCEPT !.status = "ended", !.ok = ok]
      OBVIOUS
    <2>2. t \in TaskTypes /\ t.status = "ended" /\ t.memo = tasks[i].memo
      BY <1>0, <2>1 DEF TaskTypes, TaskStatuses
    <2>3. tasks' = [tasks EXCEPT ![i] = t]
      BY <1>0, <1>2, <2>1 DEF TaskEnds
    <2>4. UNCHANGED <<settings, page, smoked, earned, strays>> /\ tasks[i].status = "running"
          /\ EarnedStages' = EarnedStages
      BY <1>2 DEF TaskEnds, KeepsRest, EarnedStages
    <2> QED
      BY <1>0, <1>s, <1>u, <2>2, <2>3, <2>4, TaskGoes DEF TaskIsEarned, Counts
  <1>3. CASE Finish(i)
    <2> DEFINE memo == [stages |-> settings.stages, profile |-> settings.profile, strays |-> strays]
    <2>1. PICK t : t = [tasks[i] EXCEPT !.status = Outcome(i), !.cancelled = FALSE, !.memo = memo]
      OBVIOUS
    <2>2. Outcome(i) \in TaskStatuses /\ memo \in MemoTypes
      BY <1>0 DEF Outcome, TaskStatuses, TaskTerminal, SettingsTypes, MemoTypes
    <2>3. t \in TaskTypes /\ t.status = Outcome(i) /\ t.memo = memo /\ t.task = tasks[i].task
          /\ t.profile = tasks[i].profile
      BY <1>0, <2>1, <2>2 DEF TaskTypes
    <2>4. tasks' = [tasks EXCEPT ![i] = t]
      BY <1>0, <1>3, <2>1 DEF Finish
    <2>5. UNCHANGED <<settings, page, smoked, strays>> /\ tasks[i].status = "ended"
      BY <1>3 DEF Finish, KeepsRest
    <2>6. earned \subseteq earned'
          /\ (Outcome(i) = "recording" => <<tasks[i].profile, tasks[i].task>> \in earned')
          /\ Outcome(i) # "completing"
      BY <1>3 DEF Finish, Outcome
    <2>7. /\ t.memo.stages \subseteq EarnedStages'
          /\ \A stage \in t.memo.stages \ t.memo.strays : <<t.memo.profile, stage>> \in earned'
      BY <1>0, <2>3, <2>6, EarnedStays
    <2> HIDE DEF memo
    <2> QED
      BY <1>0, <1>s, <1>u, <2>3, <2>4, <2>5, <2>6, <2>7, TaskGoes
  <1>4. CASE RecordStage(i)
    <2> DEFINE memo  == tasks[i].memo
               wrote == [settings EXCEPT !.stages = memo.stages \cup {tasks[i].task}]
    <2>1. tasks[i].status = "recording" /\ UNCHANGED <<page, earned>> /\ EarnedStages' = EarnedStages
          /\ <<tasks[i].profile, tasks[i].task>> \in earned /\ tasks[i].task \in EarnedStages
          /\ Counts(memo.stages, memo.strays, memo.profile) /\ memo \in MemoTypes
      BY <1>0, <1>4 DEF RecordStage, TaskIsEarned, EarnedStages, TaskTypes
    <2>2. PICK t \in TaskTypes : /\ tasks' = [tasks EXCEPT ![i] = t] /\ t.memo.stages = {}
                                 /\ t.status \in {"completing", "completed"}
                                 /\ (t.status = "completing" => tasks[i].task = "smoke")
      BY <1>4, <1>m DEF RecordStage, TaskStatuses, TaskTerminal
    <2>3. /\ settings' \in SettingsTypes /\ settings'.completed = settings.completed
          /\ Counts(settings.stages, strays, settings.profile)' /\ strays' \subseteq TaskNames
      <3>1. CASE UNCHANGED <<settings, strays>>
        BY <1>0, <1>s, <2>1, <3>1
      <3>2. CASE settings' = wrote /\ strays' = Strayed(i)
        <4>1. memo.stages \cup {tasks[i].task} \in SUBSET TaskNames
          BY <1>0, <2>1 DEF TaskTypes, MemoTypes
        <4>2. /\ wrote \in SettingsTypes /\ wrote.stages = memo.stages \cup {tasks[i].task}
              /\ wrote.completed = settings.completed /\ wrote.profile = settings.profile
          BY <1>0, <4>1 DEF SettingsTypes
        <4>3. Strayed(i) \subseteq TaskNames
          BY <1>0, <2>1 DEF Strayed, TaskTypes, MemoTypes
        <4>4. \A stage \in wrote.stages \ Strayed(i) : <<settings.profile, stage>> \in earned
          <5> SUFFICES ASSUME NEW stage \in wrote.stages \ Strayed(i)
                       PROVE  <<settings.profile, stage>> \in earned
            OBVIOUS
          <5>1. CASE stage = tasks[i].task
            <6>1. tasks[i].profile = settings.profile
              BY <5>1 DEF Strayed
            <6> QED
              BY <2>1, <5>1, <6>1
          <5>2. CASE stage # tasks[i].task
            <6>1. memo.profile = settings.profile /\ stage \in memo.stages \ memo.strays
              BY <4>2, <5>2 DEF Strayed
            <6>2. <<memo.profile, stage>> \in earned
              BY <2>1, <6>1 DEF Counts
            <6> QED
              BY <6>1, <6>2
          <5> QED
            BY <5>1, <5>2
        <4>5. wrote.stages \subseteq EarnedStages
          BY <2>1, <4>2 DEF Counts
        <4> HIDE DEF wrote, memo
        <4> QED
          BY <2>1, <3>2, <4>2, <4>3, <4>4, <4>5 DEF Counts
      <3> QED
        BY <1>4, <3>1, <3>2 DEF RecordStage
    <2>4. smoked' = (smoked \/ tasks[i].task = "smoke")
      BY <1>4 DEF RecordStage
    <2>5. smoked' \in BOOLEAN /\ (settings'.completed \/ smoked' => "smoke" \in EarnedStages')
      BY <1>0, <2>1, <2>3, <2>4
    <2> HIDE DEF memo, wrote
    <2> QED
      BY <1>u, <2>1, <2>2, <2>3, <2>5, TaskGoes
  <1>5. CASE Complete(i)
    <2>1. tasks[i].status = "completing" /\ UNCHANGED <<page, earned, smoked, strays>>
          /\ "smoke" \in EarnedStages /\ EarnedStages' = EarnedStages
      BY <1>0, <1>5 DEF Complete, KeepsRest, TaskIsEarned, EarnedStages
    <2>2. PICK t \in TaskTypes : /\ tasks' = [tasks EXCEPT ![i] = t] /\ t.memo.stages = {}
                                 /\ t.status = "completed"
      BY <1>5, <1>m DEF Complete, TaskStatuses, TaskTerminal
    <2>3. PICK s : s = [settings EXCEPT !.completed = TRUE, !.step = "done"]
      OBVIOUS
    <2>4. s \in SettingsTypes /\ s.stages = settings.stages /\ s.profile = settings.profile
      BY <1>0, <2>3 DEF SettingsTypes, Steps
    <2>5. settings' = s
      BY <1>5, <2>3 DEF Complete
    <2>6. settings' \in SettingsTypes /\ Counts(settings.stages, strays, settings.profile)'
      BY <1>0, <2>1, <2>4, <2>5 DEF Counts
    <2> QED
      BY <1>0, <1>u, <2>1, <2>2, <2>6, TaskGoes
  <1> QED
    BY <1>1, <1>2, <1>3, <1>4, <1>5 DEF JobStep

LEMMA RestartStep == ASSUME WizardInv, RestartServer PROVE WizardInv'
  <1>1. /\ tasks' = <<>> /\ smoked' = FALSE /\ UNCHANGED <<settings, earned, strays>>
        /\ page' = [p \in Pages |-> FreshPage] /\ EarnedStages' = EarnedStages
    BY DEF RestartServer, EarnedStages
  <1>2. tasks' \in Seq(TaskTypes) /\ Len(tasks') = 0 /\ DOMAIN tasks' = {}
    BY <1>1
  <1>3. page' \in [Pages -> PageTypes] /\ \A p \in Pages : page'[p].job <= Len(tasks')
    BY <1>1, <1>2, FreshIsAPage
  <1> QED
    BY <1>1, <1>2, <1>3 DEF WizardInv, WizardTypeOK, Counts

LEMMA WizardStart == WizardInit => WizardInv
  <1> SUFFICES ASSUME WizardInit PROVE WizardInv
    OBVIOUS
  <1>1. settings \in SettingsTypes /\ settings.stages = {} /\ settings.completed = FALSE
    BY DEF WizardInit, SettingsTypes, Steps, ProfileNames
  <1>2. tasks = <<>> /\ tasks \in Seq(TaskTypes) /\ Len(tasks) = 0 /\ DOMAIN tasks = {} /\ smoked = FALSE
    BY DEF WizardInit
  <1>3. page \in [Pages -> PageTypes] /\ \A p \in Pages : page[p].job <= Len(tasks)
    BY <1>2, FreshIsAPage DEF WizardInit
  <1>4. strays = {}
    BY DEF WizardInit
  <1> QED
    BY <1>1, <1>2, <1>3, <1>4 DEF WizardInv, WizardTypeOK, Counts

LEMMA WizardIsEarned == WizardSpec => []WizardInv
  <1>1. WizardInv /\ [WizardNext]_wizard => WizardInv'
    <2> SUFFICES ASSUME WizardInv, [WizardNext]_wizard PROVE WizardInv'
      OBVIOUS
    <2>1. CASE UNCHANGED wizard
      BY <2>1 DEF wizard, WizardInv, WizardTypeOK, TaskIsEarned, Under, Counts, EarnedStages
    <2>2. ASSUME NEW p \in Pages, PageStep(p) PROVE WizardInv'
      BY <2>2, BrowseSteps, AnswerSteps, SubmitStep, CancelStep DEF PageStep
    <2>3. CASE RestartServer
      BY <2>3, RestartStep
    <2> QED
      BY <2>1, <2>2, <2>3, TaskSteps DEF WizardNext
  <1> QED
    BY <1>1, WizardStart, PTL DEF WizardSpec

\* A stage of the first-run wizard counts as completed only if a task that was not cancelled, or
\* a preflight, completed it for the profile of the settings, and a stray one for some profile;
\* the wizard only if a smoke test passed; and never do two children run, for any number of pages, tasks, profiles, cancellations, reloads and restarts
\* (setup_wizard.py:109-271, 412-624).
THEOREM StagesAreEarned == WizardSpec => []DoneIsEarned
  <1>1. ASSUME WizardInv PROVE DoneIsEarned
    <2> DEFINE U == {i \in DOMAIN tasks : tasks[i].status \notin TaskTerminal \cup {"waiting"}}
    <2>1. DOMAIN tasks = 1 .. Len(tasks) /\ Len(tasks) \in Nat
      BY <1>1 DEF WizardInv, WizardTypeOK
    <2>2. ASSUME NEW i \in U, NEW j \in U PROVE i = j
      <3>1. ASSUME NEW k \in U, NEW m \in U, k < m PROVE FALSE
        <4>1. TaskIsEarned(m) /\ Under(m) /\ k \in 1 .. m - 1
          BY <1>1, <2>1, <3>1 DEF WizardInv, Under
        <4> QED
          BY <3>1, <4>1 DEF TaskIsEarned
      <3>2. i \in Nat /\ j \in Nat
        BY <2>1
      <3> QED
        BY <3>1, <3>2
    <2>3. Cardinality(U) <= 1
      <3>1. CASE U = {}
        BY <3>1, FS_EmptySet
      <3>2. CASE U # {}
        <4>1. PICK i : U = {i}
          BY <2>2, <3>2
        <4>2. Cardinality({i}) = 1
          BY FS_Singleton
        <4> QED
          BY <4>1, <4>2
      <3> QED
        BY <3>1, <3>2
    <2> QED
      BY <1>1, <2>3 DEF DoneIsEarned, WizardInv, Counts
  <1> QED
    BY <1>1, WizardIsEarned, PTL

-------------------------------------------------------------------------------
(* Capability: what a resolution rests on *)

\* What an inventory holds that the comparison of times needs.
InventoryTyped ==
    inventory # NoEvidence => \A d \in inventory.candidates :
                            d.benchmark = NoEvidence \/ d.benchmark.elapsed \in Int

\* The settings that no candidate of an answer objects to.
ChosenAccepts ==
    answer # NoEvidence => \A d \in answer.chosen : SettingsIssues(d.identity, answer.settings) = {}

ChoiceInv == InventoryTyped /\ ChosenAccepts /\ MeasuredFairly

\* A candidate that is ready has evidence of every kind that applies, and nothing against it.
LEMMA ReadyIsProven ==
    ASSUME NEW d, NEW s, NEW t, Runnable(d, s, t) = "ready"
    PROVE  /\ SettingsIssues(d.identity, s) = {}
           /\ \A kind \in EvidenceKinds :
                KindApplies(kind, d.identity, s) => Judged(kind, d, s, t) = "passed"
  <1> DEFINE required == {kind \in EvidenceKinds : KindApplies(kind, d.identity, s)}
             states   == [kind \in required |-> Judged(kind, d, s, t)]
             blocked  == \/ SettingsIssues(d.identity, s) # {}
                         \/ ~d.identity.supported
                         \/ TransportIssues(d.identity, s, inventory.path) # {}
                         \/ \E kind \in required : states[kind] = "failed"
                         \/ d.required > d.available
             unknown  == \/ ~d.identity.complete
                         \/ \E kind \in required : states[kind] # "passed"
  <1>1. Runnable(d, s, t) = IF blocked THEN "blocked" ELSE IF unknown THEN "unknown" ELSE "ready"
    BY Zenon DEF Runnable
  <1>2. ~blocked /\ ~unknown
    <2> HIDE DEF blocked, unknown
    <2> QED
      BY <1>1
  <1>3. \A kind \in required : states[kind] = "passed"
    BY <1>2
  <1>4. \A kind \in required : Judged(kind, d, s, t) = "passed"
    BY <1>3
  <1>5. SettingsIssues(d.identity, s) = {}
    BY <1>2
  <1> QED
    BY <1>4, <1>5

\* What is judged to have passed was reported to have, of this deployment, and lasts.
LEMMA PassedIsFresh ==
    ASSUME NEW d, NEW s, NEW t, NEW kind \in EvidenceKinds, Judged(kind, d, s, t) = "passed"
    PROVE  /\ kind \in DOMAIN d.evidence
           /\ d.evidence[kind].state = "passed"
           /\ d.evidence[kind].print = Fingerprint(d, s)
           /\ d.evidence[kind].at <= t /\ t < d.evidence[kind].until
           /\ kind = "smoke" => SmokeRoute(d.evidence[kind], d.identity) = "passed"
  <1>1. kind \in DOMAIN d.evidence
    BY DEF Judged
  <1> DEFINE o     == d.evidence[kind]
             state == StateOf(o, Fingerprint(d, s), t)
  <1>2. Judged(kind, d, s, t)
          = IF kind = "smoke" /\ state = "passed" THEN SmokeRoute(o, d.identity) ELSE state
    BY <1>1, Zenon DEF Judged
  <1>3. state = "passed" /\ (kind = "smoke" => SmokeRoute(o, d.identity) = "passed")
    <2> HIDE DEF state, o
    <2> QED
      BY <1>2
  <1>4. o.state = "passed" /\ StillFresh(o, Fingerprint(d, s), t)
    <2> HIDE DEF o
    <2> QED
      BY <1>3 DEF StateOf
  <1> QED
    BY <1>1, <1>3, <1>4 DEF StillFresh

\* A route that passed ran on the components that the recipe names.
LEMMA RouteIsNamed ==
    ASSUME NEW o, NEW identity, SmokeRoute(o, identity) = "passed",
           NEW c \in {"encoder", "decoder"},
           Recipes[identity.recipe][c] \notin {"backend-default", "selected-device"}
    PROVE  o[c] = Recipes[identity.recipe][c]
  <1> DEFINE recipe      == Recipes[identity.recipe]
             Expected(k) == IF recipe[k] = "selected-device" THEN identity.device ELSE recipe[k]
             named       == {k \in {"encoder", "decoder"} : recipe[k] # "backend-default"}
             mismatch    == \/ o.variant \notin {"unknown", recipe.variant}
                            \/ \E k \in named : o[k] \notin {"unknown", Expected(k)}
                            \/ \E k \in named : o[k] # "unknown"
                                                  /\ o.index \notin {Unknown, identity.index}
             missing     == \/ recipe.variant # "none" /\ o.variant = "unknown"
                            \/ \E k \in named : o[k] = "unknown"
                            \/ \E k \in named : Expected(k) # "cpu" /\ o.index = Unknown
  <1>1. SmokeRoute(o, identity)
          = IF mismatch THEN "failed" ELSE IF missing THEN "unknown" ELSE "passed"
    BY Zenon DEF SmokeRoute
  <1>2. ~mismatch /\ ~missing
    <2> HIDE DEF mismatch, missing
    <2> QED
      BY <1>1
  <1>3. c \in named /\ Expected(c) = recipe[c]
    OBVIOUS
  <1>4. o[c] \in {"unknown", Expected(c)} /\ o[c] # "unknown"
    BY <1>2, <1>3
  <1> QED
    BY <1>3, <1>4

\* What the evaluator accepts, the preview of the settings does not refuse.
LEMMA AcceptedIsNotRefused ==
    ASSUME NEW identity, NEW s, SettingsIssues(identity, s) = {}
    PROVE  SemanticIssues(s) = {}
  <1> DEFINE backend == Recipes[identity.recipe].backend
  <1>1. \A code \in {"model_language_conflict", "backend_conflict", "model_conflict",
                     "inactive_backend_settings", "unsupported_setting",
                     "genai_diarization_language", "diarization_device_conflict"} :
           code \notin SettingsIssues(identity, s)
    OBVIOUS
  <1>2. /\ s.backend \in {"auto", backend}
        /\ s.namespaces \ {backend} = {}
        /\ ~s.arguments
        /\ ~(backend = "whisper-cpp" /\ s.vadConflict)
        /\ ~(backend = "openvino-genai" /\ s.words = "always" /\ s.language \in NonSpace)
        /\ ~(s.diarize /\ s.words = "never")
        /\ ~(s.diarize /\ backend = "openvino-genai" /\ s.language \in NonSpace)
    BY <1>1 DEF SettingsIssues
  <1> HIDE DEF backend
  <1>3. s.backend # "auto" => s.backend = backend /\ s.namespaces \ {s.backend} = {}
    BY <1>2
  <1> QED
    BY <1>2, <1>3 DEF SemanticIssues

\* What a resolution answers.
LEMMA ResolveAnswers ==
    ASSUME NEW policy, Resolve(policy)
    PROVE  /\ inventory # NoEvidence /\ inventory' = inventory
           /\ answer'.settings = inventory.settings
           /\ answer'.eligible = Eligible(policy)
           /\ answer'.chosen \subseteq Eligible(policy)
           /\ answer'.preapproved \subseteq Eligible(policy)
           /\ policy.mode = "fixed" =>
                \A d \in answer'.chosen \cup answer'.preapproved : d.id = policy.candidate
           /\ answer'.measured =>
                /\ Comparable(Eligible(policy), policy)
                /\ answer'.chosen = First(Eligible(policy), TRUE)
  <1> DEFINE eligible == Eligible(policy)
             measured == Comparable(eligible, policy)
             chosen   == IF policy.mode = "fixed"
                           THEN {d \in eligible : d.id = policy.candidate}
                           ELSE First(eligible, measured)
             others   == IF policy.mode = "auto" /\ policy.preapproved
                           THEN eligible \ chosen ELSE {}
  <1>1. /\ inventory # NoEvidence /\ inventory' = inventory
        /\ answer' = [policy |-> policy, settings |-> inventory.settings,
                      chosen |-> chosen, eligible |-> eligible,
                      measured |-> policy.mode = "auto" /\ measured,
                      preapproved |-> others,
                      models |-> {d.id : d \in {e \in eligible :
                          inventory.path = "worker" /\ e.identity.local}}]
    BY Zenon DEF Resolve
  <1> HIDE DEF eligible, measured, chosen, others
  <1>2. /\ answer'.settings = inventory.settings /\ answer'.eligible = eligible
        /\ answer'.chosen = chosen /\ answer'.preapproved = others
        /\ answer'.measured = (policy.mode = "auto" /\ measured)
    BY <1>1
  <1>3. chosen \subseteq eligible /\ others \subseteq eligible
    BY DEF chosen, others, First
  <1>4. policy.mode = "fixed" => others = {} /\ \A d \in chosen : d.id = policy.candidate
    BY DEF chosen, others
  <1>5. policy.mode = "auto" => chosen = First(eligible, measured)
    BY DEF chosen
  <1>6. policy.mode = "auto" /\ measured => measured = TRUE
    BY DEF measured, Comparable
  <1> QED
    BY <1>1, <1>2, <1>3, <1>4, <1>5, <1>6 DEF eligible, measured

LEMMA ChoiceStarts == CapabilityInit => ChoiceInv
  BY DEF CapabilityInit, ChoiceInv, InventoryTyped, ChosenAccepts, MeasuredFairly

LEMMA RefreshIsTyped ==
    ASSUME NEW s, NEW path, NEW reports \in [DOMAIN Deployments -> Reports],
           Refresh(s, path, reports)
    PROVE  InventoryTyped'
  <1> DEFINE kept == {j \in DOMAIN Deployments :
                        /\ s.backend \in {"auto", Recipes[Deployments[j].recipe].backend}
                        /\ s.model \in {"auto", Deployments[j].model}}
  <1>1. inventory'.candidates = {Deployment(i, s, reports[i]) : i \in kept}
    BY DEF Refresh
  <1> SUFFICES ASSUME NEW d \in inventory'.candidates
               PROVE  d.benchmark = NoEvidence \/ d.benchmark.elapsed \in Int
    BY DEF InventoryTyped
  <1>2. PICK i \in kept : d = Deployment(i, s, reports[i])
    BY <1>1
  <1>3. reports[i] \in Reports
    BY <1>2
  <1>4. d.benchmark = Benchmark(reports[i], i, s)
    BY <1>2 DEF Deployment
  <1>5. Benchmark(reports[i], i, s) = NoEvidence
          \/ Benchmark(reports[i], i, s).elapsed = reports[i].benchmark.elapsed
    BY DEF Benchmark
  <1>6. reports[i].benchmark = NoEvidence => Benchmark(reports[i], i, s) = NoEvidence
    BY DEF Benchmark
  <1> QED
    BY <1>3, <1>4, <1>5, <1>6, ReportsAssumption DEF ReportsAssumption

\* The first by measured times is as fast as any.
LEMMA FirstIsFastest ==
    ASSUME NEW S, \A d \in S : d.benchmark # NoEvidence /\ d.benchmark.elapsed \in Int,
           NEW d \in First(S, TRUE), NEW e \in S
    PROVE  d.benchmark.elapsed <= e.benchmark.elapsed
  <1>1. d \in S /\ (e # d => Before(d, e, TRUE))
    BY DEF First
  <1>2. CASE e = d
    BY <1>1, <1>2
  <1>3. CASE e # d
    <2>1. d.benchmark.elapsed < e.benchmark.elapsed \/ d.benchmark.elapsed = e.benchmark.elapsed
      BY <1>1, <1>3 DEF Before
    <2> QED
      BY <1>1, <2>1
  <1> QED
    BY <1>2, <1>3

LEMMA ResolveIsFair ==
    ASSUME ChoiceInv, NEW policy, Resolve(policy)
    PROVE  ChoiceInv'
  <1>1. /\ inventory # NoEvidence /\ inventory' = inventory
        /\ answer'.settings = inventory.settings /\ answer'.eligible = Eligible(policy)
        /\ answer'.chosen \subseteq Eligible(policy)
        /\ answer'.measured =>
             /\ Comparable(Eligible(policy), policy)
             /\ answer'.chosen = First(Eligible(policy), TRUE)
    BY ResolveAnswers
  <1>2. \A d \in Eligible(policy) :
          /\ d \in inventory.candidates
          /\ Runnable(d, inventory.settings, now) = "ready"
    BY DEF Eligible
  <1>3. InventoryTyped'
    BY <1>1 DEF ChoiceInv, InventoryTyped
  <1>4. ChosenAccepts'
    <2> SUFFICES ASSUME NEW d \in answer'.chosen
                 PROVE  SettingsIssues(d.identity, answer'.settings) = {}
      BY DEF ChosenAccepts, SettingsIssues
    <2> QED
      BY <1>1, <1>2, ReadyIsProven
  <1>5. MeasuredFairly'
    <2> SUFFICES ASSUME answer'.measured, NEW d \in answer'.chosen, NEW e \in answer'.eligible
                 PROVE  /\ d.benchmark # NoEvidence /\ e.benchmark # NoEvidence
                        /\ e.benchmark.group = d.benchmark.group
                        /\ e.benchmark.print = Fingerprint(e, answer'.settings)
                        /\ d.benchmark.elapsed <= e.benchmark.elapsed
      BY DEF MeasuredFairly, Fingerprint
    <2>1. /\ d \in First(Eligible(policy), TRUE) /\ d \in Eligible(policy)
          /\ e \in Eligible(policy) /\ Comparable(Eligible(policy), policy)
      BY <1>1
    <2>2. \A c \in Eligible(policy) : ValidBenchmark(c, inventory.settings, now)
      BY <2>1 DEF Comparable
    <2>3. \A c \in Eligible(policy) : c.benchmark # NoEvidence /\ c.benchmark.elapsed \in Int
      BY <1>1, <1>2, <2>2 DEF ValidBenchmark, ChoiceInv, InventoryTyped
    <2>4. d.benchmark.elapsed <= e.benchmark.elapsed
      BY <2>1, <2>3, FirstIsFastest
    <2>5. e.benchmark.print = Fingerprint(e, inventory.settings)
      BY <2>1, <2>2 DEF ValidBenchmark, StillFresh
    <2>6. e.benchmark.group = d.benchmark.group
      BY <2>1 DEF Comparable
    <2> QED
      BY <1>1, <2>1, <2>3, <2>4, <2>5, <2>6
  <1> QED
    BY <1>3, <1>4, <1>5 DEF ChoiceInv

LEMMA ChoiceStays ==
    ASSUME ChoiceInv, [CapabilityNext]_capability
    PROVE  ChoiceInv'
  <1>1. CASE inventory' = inventory /\ answer' = answer
    BY <1>1 DEF ChoiceInv, InventoryTyped, ChosenAccepts, MeasuredFairly, SettingsIssues,
                Fingerprint
  <1>2. ASSUME NEW common \in Common, NEW own \in Files, NEW path \in Paths,
               NEW reports \in [DOMAIN Deployments -> Reports],
               Refresh(Effective(common, own), path, reports)
        PROVE  ChoiceInv'
    <2>1. answer' = answer
      BY <1>2 DEF Refresh
    <2>2. ChosenAccepts' /\ MeasuredFairly'
      BY <2>1 DEF ChoiceInv, ChosenAccepts, MeasuredFairly, SettingsIssues, Fingerprint
    <2>3. InventoryTyped'
      BY <1>2, RefreshIsTyped
    <2> QED
      BY <2>2, <2>3 DEF ChoiceInv
  <1>3. ASSUME NEW policy \in Policies, Resolve(policy) PROVE ChoiceInv'
    BY <1>3, ResolveIsFair
  <1> QED
    BY <1>1, <1>2, <1>3 DEF CapabilityNext, Tick, TakeAnswer, capability

LEMMA RefusedIsNotChosen == ChoiceInv => RefusedNeverRuns
  BY AcceptedIsNotRefused DEF ChoiceInv, ChosenAccepts, RefusedNeverRuns

\* For any recipes, deployments, policies and reports: whatever was collected when, what is
\* chosen or preapproved rests on evidence of its own that is fresh at the choice, times are
\* compared only under the same conditions, and what the settings refuse is run by nobody.
THEOREM ChoicesAreProven == CapabilitySpec => ChosenIsProven
  <1>1. CapabilityInit => ChoiceInv
    BY ChoiceStarts
  <1>2. ChoiceInv /\ [CapabilityNext]_capability => ChoiceInv'
    BY ChoiceStays
  <1>3. ChoiceInv => MeasuredFairly /\ RefusedNeverRuns
    BY RefusedIsNotChosen DEF ChoiceInv
  <1>4. ASSUME NEW policy \in Policies, Resolve(policy),
               NEW d \in answer'.chosen \cup answer'.preapproved
        PROVE  EvidenceIsItsOwn(d, policy)
    <2>1. /\ d \in Eligible(policy)
          /\ policy.mode = "fixed" => d.id = policy.candidate
      BY <1>4, ResolveAnswers
    <2>2. Runnable(d, inventory.settings, now) = "ready" /\ Allowed(d, policy)
      BY <2>1 DEF Eligible
    <2>3. ASSUME NEW kind \in EvidenceKinds, KindApplies(kind, d.identity, inventory.settings)
          PROVE  /\ kind \in DOMAIN d.evidence
                 /\ d.evidence[kind].state = "passed"
                 /\ d.evidence[kind].print = Fingerprint(d, inventory.settings)
                 /\ d.evidence[kind].at <= now /\ now < d.evidence[kind].until
                 /\ kind = "smoke" => SmokeRoute(d.evidence[kind], d.identity) = "passed"
      BY <2>2, <2>3, ReadyIsProven, PassedIsFresh
    <2>4. SmokeRoute(d.evidence["smoke"], d.identity) = "passed"
      <3>1. "smoke" \in EvidenceKinds /\ KindApplies("smoke", d.identity, inventory.settings)
        BY DEF EvidenceKinds, KindApplies
      <3> QED
        BY <2>3, <3>1
    <2>5. \A c \in {"encoder", "decoder"} :
            Recipes[d.identity.recipe][c] \notin {"backend-default", "selected-device"}
              => d.evidence["smoke"][c] = Recipes[d.identity.recipe][c]
      BY <2>4, RouteIsNamed
    <2>6. policy.profiles # {} => d.identity.profile \in policy.profiles
      BY <2>2 DEF Allowed
    <2> QED
      BY <2>1, <2>3, <2>5, <2>6, Zenon DEF EvidenceIsItsOwn
  <1>5. [CapabilityNext]_capability
          => [\A policy \in Policies : Resolve(policy) =>
                \A d \in answer'.chosen \cup answer'.preapproved :
                   EvidenceIsItsOwn(d, policy)]_capability
    BY <1>4
  <1> QED
    BY <1>1, <1>2, <1>3, <1>5, PTL DEF CapabilitySpec, ChosenIsProven
===============================================================================
