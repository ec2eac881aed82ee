--------------------------- MODULE DispatcherProofs ---------------------------
(***************************************************************************)
(* Theorems of Dispatcher, for any number of GUI processes, jobs and       *)
(* attempts, any crashes and any observations of the operating system.     *)
(***************************************************************************)
EXTENDS Dispatcher, ControlStoreProofs

-------------------------------------------------------------------------------
(* The inductive invariant.  It covers the steps that the thread makes with a *)
(* setup operation too, and the processes without what depends on the workers: *)
(* SetupProofs uses both.                                                  *)

StoreOK == TypeOK /\ LeaseCoherence

\* A thread runs only in an active runtime, and knows what it is about.
Threads ==
    \A g \in Guis :
       /\ loop[g].pc # "down" => runtime[g].state = "active"
       /\ runtime[g].state # "inactive" => g \in up
       /\ loop[g].active => loop[g].pc \in Holding
       /\ loop[g].pc = "checking" => loop[g].job \in Ops /\ Kind[loop[g].job] = "job"
       /\ loop[g].pc \in {"picked", "observed"}
             => loop[g].job \in Ops /\ Kind[loop[g].job] = "setup_operation"
       /\ loop[g].outcome \in {"wait", "unconfirmed"} => loop[g].pc = "closing"
       /\ stopper[g].pc \in {"reading", "cancelling"} => stopper[g].fence \in Fences

\* A thread that holds an attempt holds the slot, and its process began it.
Holders ==
    \A g \in Guis : loop[g].pc \in Holding =>
       /\ loop[g].fence \in Fences
       /\ attempts[loop[g].fence].op = loop[g].job
       /\ loop[g].pc \in JobPcs => Kind[loop[g].job] = "job"
       /\ loop[g].pc \in SetupRun => Kind[loop[g].job] = "setup_operation"
       /\ lease["heavy"] = loop[g].fence
       /\ owner[loop[g].fence] = g
       /\ loop[g].fence \notin orphans

\* Where a thread has no worker, and where the journal does not say that it has none.
Childless  == {"granted", "starting", "unstarted", "begun", "outdated", "resetting",
               "boundary", "stepping", "working", "intending", "launching"}
Launchable == {"granted", "starting"} \cup (SetupRun \ {"closing"})

Unstarted ==
    \A g \in Guis :
       /\ loop[g].pc \in Childless => loop[g].fence \notin workers
       /\ loop[g].pc = "closing" /\ loop[g].outcome # "unconfirmed"
             => loop[g].fence \notin workers
       /\ loop[g].pc \in Launchable => attempts[loop[g].fence].launch # "failed"

\* Only jobs and setup operations are begun.
HeavyOnly == \A f \in Fences : Queued(attempts[f].op)

\* What an activation has read or concluded of the journal and of an owner does
\* not become wrong.
Known ==
    \A g \in Guis :
       /\ runtime[g].state = "observing" /\ runtime[g].fence # 0 /\ runtime[g].launch = "failed"
             => attempts[runtime[g].fence].launch = "failed"
       /\ runtime[g].state = "committing" /\ runtime[g].fence # 0
             /\ runtime[g].verdict = "interrupted"
             => runtime[g].fence \in orphans

\* The attempts of a process that is gone are orphans.
Absent == \A f \in Fences : owner[f] \notin up => f \in orphans

\* A process whose runtime is not active has no attempt in the slot.
GivenBack ==
    \A g \in up : runtime[g].state # "active" =>
        \A f \in Fences \ orphans : owner[f] = g => lease["heavy"] # f

BaseInv ==
    /\ DispatcherTypeOK /\ LeaseCoherence
    /\ Threads /\ Holders /\ Unstarted /\ HeavyOnly /\ Known /\ Absent /\ GivenBack
    /\ LaunchFailedMeansNoWorker

\* What an activation has concluded of a worker does not become wrong.
WorkerKnown ==
    \A g \in Guis :
       runtime[g].state = "committing" /\ runtime[g].fence # 0
          /\ runtime[g].verdict = "interrupted"
          => runtime[g].fence \notin workers

SlotInv == WorkerHoldsLease /\ WorkerKnown

\* What most steps do to the two.
Kept == BaseInv' /\ (SlotInv => SlotInv')

-------------------------------------------------------------------------------
(* What the transactions of the store do to the slot and to the journal *)

\* The journal keeps its attempts and their launches.
JournalKept ==
    /\ Len(attempts') = Len(attempts)
    /\ \A f \in Fences : /\ attempts'[f].op = attempts[f].op
                         /\ attempts'[f].launch = attempts[f].launch

\* Jobs and setup operations occupy the heavy slot: their fencing tokens are its.
LEMMA HeavySlot == ASSUME NEW o \in Ops, Queued(o) PROVE Slot(o) = "heavy"
  BY DEF Slot, SLOT, Queued, QUEUED_KINDS

LEMMA KindIsQueued ==
    ASSUME NEW o \in Ops, Kind[o] \in {"job", "setup_operation"} PROVE Queued(o)
  BY DEF Queued, QUEUED_KINDS

LEMMA SlotIsHeavy == "heavy" \in Slots
  BY DEF Slots

\* Release drops at most the slot of its operation.
LEMMA ReleaseKeepsJournal ==
    ASSUME TypeOK, NEW o \in Ops, NEW state \in {"released", "interrupted"}, Release(o, state)
    PROVE  /\ JournalKept
           /\ lease' = lease \/ (HeldFence(o) # 0 /\ lease' = [lease EXCEPT ![Slot(o)] = 0])
           /\ HeldFence(o) = 0 => lease' = lease
  <1>1. CASE HeldFence(o) = 0
    BY <1>1 DEF Release, JournalKept
  <1>2. CASE HeldFence(o) # 0
    <2>1. HeldFence(o) \in Fences
      BY <1>2, HeldFenceType
    <2>2. attempts' = [attempts EXCEPT ![HeldFence(o)].state = state]
      BY <1>2 DEF Release
    <2>3. /\ Len(attempts') = Len(attempts)
          /\ attempts'[HeldFence(o)] = [attempts[HeldFence(o)] EXCEPT !.state = state]
          /\ \A f \in Fences \ {HeldFence(o)} : attempts'[f] = attempts[f]
      BY <2>1, <2>2, AttemptStateType
    <2>4. attempts[HeldFence(o)] \in Attempt
      BY <2>1, AttemptType
    <2>5. JournalKept
      BY <2>3, <2>4 DEF JournalKept, Attempt
    <2> QED
      BY <1>2, <2>5 DEF Release
  <1> QED
    BY <1>1, <1>2

\* The commands of the API: the slot and the journal stay as they are.
LEMMA CommandKeeps ==
    ASSUME TypeOK, LeaseCoherence, Command
    PROVE  lease' = lease /\ JournalKept
  <1>1. ASSUME UNCHANGED <<attempts, lease>> PROVE lease' = lease /\ JournalKept
    BY <1>1 DEF JournalKept
  <1>2. ASSUME NEW rank, AcceptBatch(rank) PROVE UNCHANGED <<attempts, lease>>
    BY <1>2 DEF AcceptBatch
  <1>3. ASSUME NEW o \in Ops, NEW expected, CancelJob(o, expected)
        PROVE  lease' = lease /\ JournalKept
    <2>1. CASE status[o] \in WAITING /\ Release(o, "released")
      <3>1. HeldFence(o) = 0
        BY <2>1, IdleHoldsNothing DEF LeaseCoherence, WAITING, ACTIVE
      <3> QED
        BY <2>1, <3>1, ReleaseKeepsJournal
    <2>2. CASE UNCHANGED <<attempts, lease>>
      BY <2>2, <1>1
    <2> QED
      BY <1>3, <2>1, <2>2 DEF CancelJob
  <1>4. ASSUME NEW o, NEW expected, Revalidated(o, expected) PROVE UNCHANGED <<attempts, lease>>
    BY <1>4 DEF Revalidated
  <1>5. ASSUME NEW o, NEW expected, NEW new, RetryJob(o, expected, new)
        PROVE  UNCHANGED <<attempts, lease>>
    BY <1>5, <1>2 DEF RetryJob
  <1>6. ASSUME QueueCommand PROVE UNCHANGED <<attempts, lease>>
    BY <1>6 DEF QueueCommand, SetItemHold, HoldChange, SetDispatch, Reorder
  <1>7. ASSUME JobCommand PROVE lease' = lease /\ JournalKept
    BY <1>7, <1>1, <1>2, <1>3, <1>4, <1>5 DEF JobCommand
  <1> QED
    BY <1>1, <1>6, <1>7 DEF Command

LEMMA CommandKeepsStore ==
    ASSUME TypeOK, LeaseCoherence, Command
    PROVE  TypeOK' /\ LeaseCoherence'
  <1>1. Create \/ UserCommand
    BY DEF Command, JobCommand, QueueCommand, Create, UserCommand
  <1> QED
    BY <1>1, CreateType, UserCommandType, CreateLeases, UserCommandLeases

\* The pre-start check's block, a flag, a cancellation: the slot stays.
LEMMA BlockJobKeeps ==
    ASSUME TypeOK, LeaseCoherence, NEW o \in Ops, NEW expected, BlockJob(o, expected)
    PROVE  TypeOK' /\ LeaseCoherence' /\ lease' = lease /\ JournalKept
  <1>1. Record(o, "blocked", "none") /\ UNCHANGED <<attempts, lease>>
    BY DEF BlockJob
  <1>2. TypeOK'
    <2>1. /\ status' \in [Ops -> Statuses \cup {"absent"}]
          /\ revision' \in [Ops -> Nat]
          /\ flag' \in [Ops -> RecoveryReasons \cup {"none"}]
      BY <1>1, RecordType, "blocked" \in Statuses DEF Statuses
    <2>2. item' \in [Ops -> Item]
      BY DEF BlockJob, TypeOK, Item
    <2>3. queueRevision' \in Nat
      BY DEF BlockJob, TypeOK, QueueChanged
    <2> QED
      BY <2>1, <2>2, <2>3 DEF BlockJob, TypeOK
  <1>3. "blocked" \in ACTIVE <=> status[o] \in ACTIVE
    BY DEF BlockJob, ACTIVE
  <1>4. \A other \in Ops : status'[other] \in ACTIVE <=> status[other] \in ACTIVE
    BY <1>1, <1>3, RecordKeepsActive
  <1>5. LeaseCoherence'
    BY <1>1, <1>4, LeasesKept
  <1> QED
    BY <1>1, <1>2, <1>5 DEF JournalKept

LEMMA FlagKeeps ==
    ASSUME TypeOK, LeaseCoherence, NEW o \in Ops, NEW fence, FlagUnconfirmed(o, fence)
    PROVE  TypeOK' /\ LeaseCoherence' /\ lease' = lease /\ JournalKept
  <1>1. Record(o, status[o], "termination_failed") /\ UNCHANGED <<attempts, lease>>
    BY DEF FlagUnconfirmed
  <1>2. status[o] \in ACTIVE
    BY HeldFenceType, SlotType DEF FlagUnconfirmed, Fenced, LeaseCoherence, LeaseHolderIsActive
  <1>3. TypeOK'
    <2>1. /\ status' \in [Ops -> Statuses \cup {"absent"}]
          /\ revision' \in [Ops -> Nat]
          /\ flag' \in [Ops -> RecoveryReasons \cup {"none"}]
      <3>1. status[o] \in Statuses
        BY <1>2 DEF ACTIVE, Statuses
      <3>2. "termination_failed" \in RecoveryReasons \cup {"none"}
        BY DEF RecoveryReasons
      <3> QED
        BY <1>1, <3>1, <3>2, RecordType
    <2> QED
      BY <2>1 DEF FlagUnconfirmed, TypeOK, queueVars
  <1>4. \A other \in Ops : status'[other] \in ACTIVE <=> status[other] \in ACTIVE
    BY <1>1, RecordKeepsActive
  <1>5. LeaseCoherence'
    BY <1>1, <1>4, LeasesKept
  <1> QED
    BY <1>1, <1>3, <1>5 DEF JournalKept

LEMMA CancellingKeeps ==
    ASSUME TypeOK, LeaseCoherence, NEW o \in Ops, NEW expected,
           Transition(o, expected, "cancelling", 0)
    PROVE  TypeOK' /\ LeaseCoherence' /\ lease' = lease /\ JournalKept
  <1>1. status[o] = "running"
    <2>1. Kind[o] \in Kinds
      BY SlotType
    <2> QED
      BY <2>1, TableFacts DEF Transition
  <1>2. UNCHANGED <<attempts, lease>>
    BY <1>1 DEF Transition, ApplyActive, ACTIVE
  <1> QED
    BY <1>2, TransitionType, LeasesAfterTransition DEF JournalKept

LEMMA RecordLaunchKeeps ==
    ASSUME TypeOK, LeaseCoherence, NEW o \in Ops, NEW fence \in Fences,
           NEW outcome \in {"confirmed", "failed"}, RecordLaunch(o, fence, outcome)
    PROVE  /\ TypeOK' /\ LeaseCoherence' /\ lease' = lease
           /\ Len(attempts') = Len(attempts)
           /\ \A f \in Fences : attempts'[f].op = attempts[f].op
           /\ \A f \in Fences \ {fence} : attempts'[f].launch = attempts[f].launch
           /\ attempts[fence].launch = "intended" /\ attempts'[fence].launch = outcome
  <1>1. OwnerCall
    BY DEF OwnerCall
  <1>2. attempts' = [attempts EXCEPT ![fence].launch = outcome]
    BY DEF RecordLaunch
  <1>3. attempts \in Seq(Attempt) /\ attempts[fence] \in Attempt
    BY AttemptType DEF TypeOK
  <1>4. attempts'[fence].launch = outcome
    BY <1>2, <1>3 DEF Attempt, Fences
  <1>5. \A f \in Fences \ {fence} : attempts'[f] = attempts[f]
    BY <1>2, <1>3 DEF Fences
  <1>6. lease' = lease /\ attempts[fence].launch = "intended"
    BY DEF RecordLaunch
  <1> QED
    BY <1>1, <1>4, <1>5, <1>6, OwnerCallType, OwnerCallLeases, RecordLaunchType

LEMMA FinishFrees ==
    ASSUME TypeOK, LeaseCoherence, NEW o \in Ops, NEW fence \in Fences,
           NEW outcome \in {"succeeded", "failed", "cancelled"}, FinishAttempt(o, fence, outcome)
    PROVE  /\ TypeOK' /\ LeaseCoherence'
           /\ lease'["heavy"] = 0 /\ lease["heavy"] = fence
           /\ JournalKept
  <1>1. OwnerCall
    BY DEF OwnerCall
  <1>2. Slot(o) = "heavy" /\ Release(o, "released") /\ HeldFence(o) = fence /\ fence # 0
    BY HeavySlot, KindIsQueued DEF FinishAttempt, Fenced
  <1>3. lease["heavy"] = fence
    BY <1>2, HeldFenceType
  <1>4. JournalKept
    BY <1>2, ReleaseKeepsJournal
  <1>5. lease'["heavy"] = 0
    BY <1>2, SlotIsHeavy DEF Release, TypeOK
  <1> QED
    BY <1>1, <1>3, <1>4, <1>5, OwnerCallType, OwnerCallLeases

LEMMA BeginTakes ==
    ASSUME TypeOK, LeaseCoherence, NEW o \in Ops, Queued(o), NEW expected,
           BeginAttempt(o, expected)
    PROVE  /\ TypeOK' /\ LeaseCoherence'
           /\ lease["heavy"] = 0 /\ lease'["heavy"] = Len(attempts) + 1
           /\ Len(attempts') = Len(attempts) + 1
           /\ \A f \in Fences : attempts'[f] = attempts[f]
           /\ attempts'[Len(attempts) + 1].op = o
           /\ attempts'[Len(attempts) + 1].launch = "intended"
  <1>1. /\ attempts' \in Seq(Attempt) /\ Len(attempts') = Len(attempts) + 1
        /\ attempts'[Len(attempts) + 1] = [op |-> o, state |-> "active", launch |-> "intended"]
        /\ \A f \in Fences : attempts'[f] = attempts[f]
    BY BeginAttemptType
  <1>2. lease["heavy"] = 0 /\ lease' = [lease EXCEPT !["heavy"] = Len(attempts) + 1]
    BY HeavySlot DEF BeginAttempt, CanBegin
  <1>3. lease'["heavy"] = Len(attempts) + 1
    BY <1>2, SlotIsHeavy DEF TypeOK
  <1>4. TypeOK'
    <2>1. Record(o, "running", "none")
      BY DEF BeginAttempt
    <2>2. /\ status' \in [Ops -> Statuses \cup {"absent"}]
          /\ revision' \in [Ops -> Nat]
          /\ flag' \in [Ops -> RecoveryReasons \cup {"none"}]
      BY <2>1, RecordType, "running" \in Statuses DEF Statuses
    <2>3. lease' \in [Slots -> 0..Len(attempts')]
      <3>1. Len(attempts) \in Nat
        BY DEF TypeOK
      <3>2. lease' = [lease EXCEPT !["heavy"] = Len(attempts')]
        BY <1>1, <1>2
      <3>3. lease \in [Slots -> 0..Len(attempts')]
        BY <1>1, <3>1 DEF TypeOK
      <3>4. Len(attempts') \in 0..Len(attempts')
        BY <1>1, <3>1
      <3> QED
        BY <3>2, <3>3, <3>4
    <2>4. item' \in [Ops -> Item] /\ queueRevision' \in Nat
      <3>1. item \in [Ops -> Item] /\ queueRevision \in Nat
        BY DEF TypeOK
      <3>2. /\ item' = item \/ item' = [item EXCEPT ![o] = ActiveItem]
            /\ queueRevision' = queueRevision \/ queueRevision' = queueRevision + 1
        BY DEF BeginAttempt, QueueChanged
      <3> QED
        BY <3>1, <3>2, ItemTypes
    <2> QED
      BY <1>1, <2>2, <2>3, <2>4 DEF BeginAttempt, TypeOK
  <1> QED
    BY <1>1, <1>2, <1>3, <1>4, LeaseTaken

\* recover() as an activation calls it frees at most the slot it looked at,
\* when it found the owner and the worker gone.
LEMMA RecoverFrees ==
    ASSUME TypeOK, LeaseCoherence, HeavyOnly, NEW g \in Guis, Recover(DecisionsOf(g)),
           runtime[g].fence \in 0..Len(attempts)
    PROVE  /\ TypeOK' /\ LeaseCoherence' /\ JournalKept
           /\ \/ lease'["heavy"] = lease["heavy"]
              \/ /\ lease'["heavy"] = 0
                 /\ lease["heavy"] = runtime[g].fence /\ runtime[g].fence # 0
                 /\ runtime[g].verdict = "interrupted"
  <1> DEFINE gone == Interrupted(DecisionsOf(g))
  <1>1. TypeOK' /\ Len(attempts') = Len(attempts)
    BY RecoverType
  <1>2. LeaseCoherence'
    BY LeasesRecovered
  <1>3. /\ lease' = [s \in Slots |->
                IF \E o \in gone : lease[s] = HeldFence(o) THEN 0 ELSE lease[s]]
        /\ attempts' = [f \in Fences |->
                IF \E o \in gone : f = HeldFence(o)
                THEN [attempts[f] EXCEPT !.state = "interrupted"] ELSE attempts[f]]
    BY DEF Recover
  <1>4. JournalKept
    <2>1. ASSUME NEW f \in Fences
          PROVE  attempts'[f].op = attempts[f].op /\ attempts'[f].launch = attempts[f].launch
      <3>1. attempts[f] \in Attempt
        BY AttemptType
      <3>2. attempts'[f] = attempts[f]
            \/ attempts'[f] = [attempts[f] EXCEPT !.state = "interrupted"]
        BY <1>3
      <3> QED
        BY <3>1, <3>2 DEF Attempt
    <2> QED
      BY <1>1, <2>1 DEF JournalKept
  <1>5. ASSUME NEW o \in Ops, o \in gone
        PROVE  /\ lease["heavy"] = HeldFence(o) /\ HeldFence(o) # 0
               /\ HeldFence(o) = runtime[g].fence /\ runtime[g].verdict = "interrupted"
    <2>1. status[o] \in ACTIVE /\ Verdict(o, DecisionsOf(g)) = "interrupted"
      BY <1>5 DEF Interrupted
    <2>2. HeldFence(o) \in Fences /\ lease[Slot(o)] = HeldFence(o)
          /\ attempts[HeldFence(o)].op = o /\ HeldFence(o) # 0
      BY <2>1, HeldFenceType DEF LeaseCoherence, ActiveHoldsLease
    <2>3. Slot(o) = "heavy"
      BY <2>2, HeavySlot DEF HeavyOnly
    <2>4. HeldFence(o) \in DOMAIN DecisionsOf(g)
          /\ DecisionsOf(g)[HeldFence(o)] = "interrupted"
      BY <2>1, <2>2 DEF Verdict
    <2>5. runtime[g].fence # 0
      <3>1. DOMAIN <<>> = {}
        OBVIOUS
      <3> QED
        BY <2>4, <3>1 DEF DecisionsOf
    <2>6. DecisionsOf(g) = [f \in {runtime[g].fence} |-> runtime[g].verdict]
      BY <2>5 DEF DecisionsOf
    <2>7. HeldFence(o) = runtime[g].fence /\ runtime[g].verdict = "interrupted"
      BY <2>4, <2>6
    <2> QED
      BY <2>2, <2>3, <2>7
  <1>6. CASE gone = {}
    BY <1>1, <1>2, <1>3, <1>4, <1>6, SlotIsHeavy DEF TypeOK
  <1>7. CASE gone # {}
    <2>1. PICK o \in Ops : o \in gone
      BY <1>7 DEF Interrupted
    <2>2. lease'["heavy"] = 0
      BY <1>3, <1>5, <2>1, SlotIsHeavy
    <2> QED
      BY <1>1, <1>2, <1>4, <1>5, <2>1, <2>2
  <1> QED
    BY <1>6, <1>7


-------------------------------------------------------------------------------
(* What one step does to the processes *)

ThreadTypes ==
    [pc : LoopPcs, job : Ops \cup {NoJob}, revision : Nat, fence : 0..Len(attempts),
     active : BOOLEAN, cancel : BOOLEAN, sent : BOOLEAN, lost : BOOLEAN,
     outcome : {"succeeded", "failed", "cancelled", "wait", "unconfirmed"}]

RuntimeTypes ==
    [state : {"inactive", "observing", "committing", "active"}, fence : 0..Len(attempts),
     launch : {"intended", "confirmed", "failed"}, verdict : Verdicts \cup {"skip"}]

StopperTypes ==
    [pc : {"none", "reading", "cancelling", "joining", "refused"}, fence : 0..Len(attempts),
     revision : Nat]

LEMMA TypesOf ==
    DispatcherTypeOK <=>
       /\ TypeOK
       /\ up \subseteq Guis
       /\ runtime \in [Guis -> RuntimeTypes]
       /\ loop \in [Guis -> ThreadTypes]
       /\ stopper \in [Guis -> StopperTypes]
       /\ owner \in Seq(Guis) /\ Len(owner) = Len(attempts)
       /\ orphans \subseteq Fences /\ workers \subseteq Fences
       /\ unclear \in 0..MaxUnclear
  BY DEF DispatcherTypeOK, ThreadTypes, RuntimeTypes, StopperTypes

LEMMA FencesAre ==
    ASSUME TypeOK
    PROVE  /\ Len(attempts) \in Nat
           /\ \A f : f \in Fences <=> f \in 0..Len(attempts) /\ f # 0
  BY DEF TypeOK, Fences

\* What a step of g's thread may write to the journal: the launch of its attempt.
JournalOf(g) ==
    /\ Len(attempts') = Len(attempts)
    /\ \A f \in Fences :
          /\ attempts'[f].op = attempts[f].op
          /\ attempts'[f].launch # attempts[f].launch =>
                /\ loop[g].pc \in Holding /\ f = loop[g].fence
                /\ attempts[f].launch # "failed"
                /\ attempts'[f].launch = "failed" =>
                      f \notin workers /\ loop'[g].pc \notin Launchable

\* What the locals of a thread may become in a step after which running are the
\* workers, unless it begins an attempt or starts a worker.
Moves(g, next, running) ==
    /\ next.pc # "down" => loop[g].pc # "down"
    /\ next.active => next.pc \in Holding
    /\ next.pc = "checking" => next.job \in Ops /\ Kind[next.job] = "job"
    /\ next.pc \in {"picked", "observed"}
          => next.job \in Ops /\ Kind[next.job] = "setup_operation"
    /\ next.outcome \in {"wait", "unconfirmed"} => next.pc = "closing"
    /\ next.pc \in Holding => /\ loop[g].pc \in Holding
                              /\ next.fence = loop[g].fence /\ next.job = loop[g].job
    /\ next.pc \in JobPcs => loop[g].pc \in JobPcs
    /\ next.pc \in SetupRun => loop[g].pc \in SetupRun
    /\ next.pc \in Childless => loop[g].fence \notin running
    /\ next.pc = "closing" /\ next.outcome # "unconfirmed" => loop[g].fence \notin running
    /\ next.pc \in Launchable => loop[g].pc \in Launchable

LEMMA PcSets ==
    /\ Holding = JobPcs \cup SetupRun
    /\ Childless \subseteq Holding /\ Launchable \subseteq Holding /\ "closing" \in Holding
  BY DEF Holding, JobPcs, SetupRun, Childless, Launchable

LEMMA ThreadMoves ==
    ASSUME BaseInv, NEW g \in Guis, NEW next \in ThreadTypes, Moves(g, next, workers'),
           loop' = [loop EXCEPT ![g] = next],
           TypeOK', LeaseCoherence', lease' = lease, JournalOf(g),
           workers' \subseteq workers,
           UNCHANGED <<up, runtime, owner, orphans, unclear>>,
           stopper' \in [Guis -> StopperTypes],
           \A h \in Guis : stopper'[h].pc \in {"reading", "cancelling"}
                              => stopper'[h].fence \in Fences
    PROVE  Kept
  <1> USE DEF JournalOf
  <1>1. /\ loop \in [Guis -> ThreadTypes] /\ loop'[g] = next
        /\ \A h \in Guis \ {g} : loop'[h] = loop[h]
    BY TypesOf DEF BaseInv
  <1>2. Fences' = Fences
    BY DEF Fences
  <1>3. DispatcherTypeOK'
    <2>1. ThreadTypes' = ThreadTypes /\ RuntimeTypes' = RuntimeTypes /\ StopperTypes' = StopperTypes
      BY DEF ThreadTypes, RuntimeTypes, StopperTypes
    <2>2. /\ loop' \in [Guis -> ThreadTypes']
          /\ runtime' \in [Guis -> RuntimeTypes']
          /\ stopper' \in [Guis -> StopperTypes']
      BY <2>1, TypesOf DEF BaseInv
    <2>3. /\ up' \subseteq Guis /\ owner' \in Seq(Guis) /\ Len(owner') = Len(attempts')
          /\ orphans' \subseteq Fences' /\ workers' \subseteq Fences'
          /\ unclear' \in 0..MaxUnclear
      BY <1>2, TypesOf DEF BaseInv
    <2> QED
      BY <2>2, <2>3 DEF DispatcherTypeOK, ThreadTypes, RuntimeTypes, StopperTypes
  <1>4. Threads'
    BY <1>1, <1>2 DEF BaseInv, Threads, Moves
  <1>5. Holders'
    BY <1>1, <1>2 DEF BaseInv, Holders, Moves
  <1>6. Unstarted'
    <2>1. ASSUME NEW h \in Guis, loop'[h].pc \in Holding
          PROVE  /\ loop[h].pc \in Holding /\ loop'[h].fence = loop[h].fence
                 /\ loop[h].fence \in Fences /\ owner[loop[h].fence] = h
      BY <1>1, <2>1 DEF BaseInv, Holders, Moves
    <2>2. ASSUME NEW h \in Guis
          PROVE  /\ loop'[h].pc \in Childless => loop'[h].fence \notin workers'
                 /\ loop'[h].pc = "closing" /\ loop'[h].outcome # "unconfirmed"
                       => loop'[h].fence \notin workers'
      <3>1. CASE h = g
        BY <1>1, <2>1, <3>1, PcSets DEF Moves
      <3>2. CASE h # g
        BY <1>1, <3>2 DEF BaseInv, Unstarted
      <3> QED
        BY <3>1, <3>2
    <2>3. ASSUME NEW h \in Guis, loop'[h].pc \in Launchable
          PROVE  attempts'[loop'[h].fence].launch # "failed"
      <3>1. loop[h].pc \in Launchable /\ loop'[h].pc \in Holding
        BY <1>1, <2>3, PcSets DEF Moves
      <3>2. attempts[loop[h].fence].launch # "failed"
        BY <3>1 DEF BaseInv, Unstarted
      <3>3. CASE attempts'[loop[h].fence].launch = attempts[loop[h].fence].launch
        BY <2>1, <3>1, <3>2, <3>3
      <3>4. CASE attempts'[loop[h].fence].launch # attempts[loop[h].fence].launch
        <4>1. loop[g].pc \in Holding /\ loop[h].fence = loop[g].fence
          BY <2>1, <3>1, <3>4
        <4>2. h = g
          BY <2>1, <3>1, <4>1 DEF BaseInv, Holders
        <4> QED
          BY <2>1, <2>3, <3>1, <3>4, <4>2
      <3> QED
        BY <3>3, <3>4
    <2> QED
      BY <2>2, <2>3 DEF Unstarted
  <1>7. HeavyOnly'
    BY <1>2 DEF BaseInv, HeavyOnly, Queued
  <1>8. Known'
    <2>1. ASSUME NEW h \in Guis, runtime[h].state = "observing", runtime[h].fence # 0,
                 runtime[h].launch = "failed"
          PROVE  attempts'[runtime[h].fence].launch = "failed"
      <3>1. runtime[h].fence \in Fences
        BY <2>1, TypesOf, FencesAre DEF BaseInv, RuntimeTypes
      <3>2. attempts[runtime[h].fence].launch = "failed"
        BY <2>1 DEF BaseInv, Known
      <3> QED
        BY <3>1, <3>2
    <2> QED
      BY <2>1 DEF BaseInv, Known
  <1>9. Absent' /\ GivenBack'
    BY <1>2 DEF BaseInv, Absent, GivenBack
  <1>10. LaunchFailedMeansNoWorker'
    <2>1. ASSUME NEW f \in workers' PROVE attempts'[f].launch # "failed"
      <3>1. f \in Fences /\ f \in workers /\ attempts[f].launch # "failed"
        BY <2>1, TypesOf DEF BaseInv, LaunchFailedMeansNoWorker
      <3> QED
        BY <3>1
    <2> QED
      BY <2>1 DEF LaunchFailedMeansNoWorker
  <1>11. SlotInv => SlotInv'
    BY DEF SlotInv, WorkerHoldsLease, WorkerKnown
  <1> QED
    BY <1>3, <1>4, <1>5, <1>6, <1>7, <1>8, <1>9, <1>10, <1>11 DEF BaseInv, Kept

\* A step that touches no thread, slot or journal.
LEMMA OthersMove ==
    ASSUME BaseInv, TypeOK', LeaseCoherence', lease' = lease, JournalKept,
           workers' \subseteq workers, unclear' \in 0..MaxUnclear,
           UNCHANGED <<up, loop, owner, orphans>>,
           runtime' \in [Guis -> RuntimeTypes], stopper' \in [Guis -> StopperTypes],
           \A h \in Guis : stopper'[h].pc \in {"reading", "cancelling"}
                              => stopper'[h].fence \in Fences,
           \A h \in Guis : runtime'[h] # runtime[h] =>
              /\ runtime[h].state # "active" /\ runtime'[h].state # "active"
              /\ h \in up,
           Known'
    PROVE  BaseInv' /\ (WorkerHoldsLease => WorkerHoldsLease')
  <1> USE DEF JournalKept
  <1>1. Fences' = Fences
    BY DEF Fences
  <1>2. DispatcherTypeOK'
    <2>1. ThreadTypes' = ThreadTypes /\ RuntimeTypes' = RuntimeTypes /\ StopperTypes' = StopperTypes
      BY DEF ThreadTypes, RuntimeTypes, StopperTypes
    <2>2. /\ loop' \in [Guis -> ThreadTypes']
          /\ runtime' \in [Guis -> RuntimeTypes']
          /\ stopper' \in [Guis -> StopperTypes']
      BY <2>1, TypesOf DEF BaseInv
    <2>3. /\ up' \subseteq Guis /\ owner' \in Seq(Guis) /\ Len(owner') = Len(attempts')
          /\ orphans' \subseteq Fences' /\ workers' \subseteq Fences'
          /\ unclear' \in 0..MaxUnclear
      BY <1>1, TypesOf DEF BaseInv
    <2> QED
      BY <2>2, <2>3 DEF DispatcherTypeOK, ThreadTypes, RuntimeTypes, StopperTypes
  <1>3. Threads'
    BY <1>1 DEF BaseInv, Threads
  <1>4. Holders' /\ HeavyOnly' /\ Absent'
    BY <1>1 DEF BaseInv, Holders, HeavyOnly, Absent, Queued
  <1>5. Unstarted'
    <2>1. ASSUME NEW h \in Guis, loop[h].pc \in Launchable
          PROVE  attempts'[loop[h].fence].launch # "failed"
      BY <2>1, PcSets DEF BaseInv, Unstarted, Holders
    <2> QED
      BY <2>1 DEF BaseInv, Unstarted
  <1>6. GivenBack'
    BY <1>1, TypesOf DEF BaseInv, GivenBack
  <1>7. LaunchFailedMeansNoWorker'
    BY <1>1, TypesOf DEF BaseInv, LaunchFailedMeansNoWorker
  <1>8. WorkerHoldsLease => WorkerHoldsLease'
    BY DEF WorkerHoldsLease
  <1> QED
    BY <1>2, <1>3, <1>4, <1>5, <1>6, <1>7, <1>8 DEF BaseInv

LEMMA StoreStutters ==
    ASSUME BaseInv, UNCHANGED storeVars
    PROVE  TypeOK' /\ LeaseCoherence' /\ lease' = lease /\ JournalKept
  BY TypesOf, StutterType, StepLeases DEF BaseInv, storeVars, JournalKept

LEMMA Stoppers ==
    ASSUME BaseInv
    PROVE  /\ stopper \in [Guis -> StopperTypes]
           /\ \A h \in Guis : stopper[h].pc \in {"reading", "cancelling"}
                                 => stopper[h].fence \in Fences
  BY TypesOf DEF BaseInv, Threads

\* A step of the thread with a transaction that keeps the slot and the journal.
LEMMA QuietMoves ==
    ASSUME BaseInv, NEW g \in Guis, NEW next \in ThreadTypes, Moves(g, next, workers'),
           loop' = [loop EXCEPT ![g] = next],
           TypeOK', LeaseCoherence', lease' = lease, JournalKept, workers' \subseteq workers,
           UNCHANGED <<up, runtime, stopper, owner, orphans, unclear>>
    PROVE  Kept
  <1>1. JournalOf(g)
    BY DEF JournalKept, JournalOf
  <1>2. /\ stopper' \in [Guis -> StopperTypes]
        /\ \A h \in Guis : stopper'[h].pc \in {"reading", "cancelling"}
                              => stopper'[h].fence \in Fences
    BY Stoppers
  <1> QED
    BY <1>1, <1>2, ThreadMoves

LEMMA CommitMoves ==
    ASSUME BaseInv, NEW g \in Guis, NEW next \in ThreadTypes, Moves(g, next, workers),
           Commit(g, next), TypeOK', LeaseCoherence', lease' = lease, JournalKept
    PROVE  Kept
  <1>1. /\ UNCHANGED <<up, runtime, stopper, owner, orphans, unclear>>
        /\ workers' = workers /\ loop' = [loop EXCEPT ![g] = next]
    BY DEF Commit, osVars
  <1>2. Moves(g, next, workers')
    BY <1>1
  <1> QED
    BY <1>1, <1>2, QuietMoves

LEMMA LocalMoves ==
    ASSUME BaseInv, NEW g \in Guis, NEW next \in ThreadTypes, Moves(g, next, workers),
           Local(g, next)
    PROVE  Kept
  <1>1. UNCHANGED storeVars /\ Commit(g, next)
    BY DEF Local, Commit
  <1>2. TypeOK' /\ LeaseCoherence' /\ lease' = lease /\ JournalKept
    BY <1>1, StoreStutters
  <1> QED
    BY <1>1, <1>2, CommitMoves

LEMMA ThreadType ==
    ASSUME BaseInv, NEW g \in Guis
    PROVE  /\ loop[g] \in ThreadTypes
           /\ loop[g].outcome \in {"wait", "unconfirmed"} => loop[g].pc = "closing"
           /\ loop[g].pc \in Childless => loop[g].fence \notin workers
  BY TypesOf DEF BaseInv, Threads, Unstarted

LEMMA IdleType == ASSUME TypeOK PROVE Idle \in ThreadTypes /\ Down \in ThreadTypes
  <1>1. 0 \in 0..Len(attempts)
    BY FencesAre
  <1>2. Idle \in ThreadTypes
    BY <1>1 DEF ThreadTypes, Idle, LoopPcs
  <1>3. Down \in ThreadTypes
    BY <1>2 DEF ThreadTypes, Down, LoopPcs
  <1> QED
    BY <1>2, <1>3

-------------------------------------------------------------------------------
(* The dispatcher thread *)

LEMMA ThreadSteps ==
    ASSUME BaseInv, NEW g \in Guis,
           \/ Pick(g) \/ LoopEnds(g) \/ BeginRefused(g) \/ PublishActive(g)
           \/ SpawnFails(g) \/ ConfirmLaunchFails(g) \/ SendCancel(g) \/ WorkerAnswered(g)
           \/ GiveUp(g) \/ DeferReport(g) \/ Heartbeat(g)
    PROVE  Kept
  <1> USE ThreadType DEF ThreadTypes, Moves
  <1>0. TypeOK /\ Idle \in ThreadTypes /\ Down \in ThreadTypes
    BY TypesOf, IdleType DEF BaseInv
  <1>1. CASE Pick(g)
    <2>1. PICK o \in Ops :
             /\ DispatchGuard(o) /\ Kind[o] = "job"
             /\ Local(g, [Idle EXCEPT !.pc = "checking", !.job = o, !.revision = revision[o]])
      BY <1>1 DEF Pick
    <2> DEFINE next == [Idle EXCEPT !.pc = "checking", !.job = o, !.revision = revision[o]]
    <2>2. revision[o] \in Nat
      BY <1>0 DEF TypeOK
    <2>3. next \in ThreadTypes
      BY <1>0, <2>2 DEF Idle, LoopPcs
    <2>4. Moves(g, next, workers)
      BY <1>1, <2>1 DEF Pick, Idle, Holding, JobPcs, SetupRun, Childless, Launchable
    <2>5. Local(g, next)
      BY <2>1
    <2> HIDE DEF next
    <2> QED
      BY <2>3, <2>4, <2>5, LocalMoves
  <1>2. CASE LoopEnds(g)
    <2>1. Local(g, Down) /\ Moves(g, Down, workers)
      BY <1>2 DEF LoopEnds, Down, Idle, Holding, JobPcs, SetupRun, Childless, Launchable
    <2> QED
      BY <1>0, <2>1, LocalMoves
  <1>3. CASE BeginRefused(g)
    <2>1. Local(g, Idle) /\ Moves(g, Idle, workers)
      BY <1>3 DEF BeginRefused, Idle, Holding, JobPcs, SetupRun, Childless, Launchable
    <2> QED
      BY <1>0, <2>1, LocalMoves
  <1>4. CASE PublishActive(g)
    <2> DEFINE next == [loop[g] EXCEPT !.pc = "starting", !.active = TRUE]
    <2>1. next \in ThreadTypes
      <3>1. "starting" \in LoopPcs
        BY DEF LoopPcs, Holding, JobPcs
      <3> QED
        BY <3>1
    <2>2. Local(g, next) /\ Moves(g, next, workers)
      BY <1>4 DEF PublishActive, Holding, JobPcs, SetupRun, Childless, Launchable
    <2> HIDE DEF next
    <2> QED
      BY <2>1, <2>2, LocalMoves
  <1>5. CASE SpawnFails(g)
    <2> DEFINE next == [loop[g] EXCEPT !.pc = "unstarted"]
    <2>1. next \in ThreadTypes
      BY DEF LoopPcs, Holding, JobPcs, SetupRun, Childless, Launchable
    <2>2. Local(g, next) /\ Moves(g, next, workers)
      BY <1>5 DEF SpawnFails, Holding, JobPcs, SetupRun, Childless, Launchable
    <2> HIDE DEF next
    <2> QED
      BY <2>1, <2>2, LocalMoves
  <1>6. CASE ConfirmLaunchFails(g)
    <2> DEFINE next == [loop[g] EXCEPT !.pc = "killing"]
    <2>1. next \in ThreadTypes
      BY DEF LoopPcs, Holding, JobPcs, SetupRun, Childless, Launchable
    <2>2. Local(g, next) /\ Moves(g, next, workers)
      BY <1>6 DEF ConfirmLaunchFails, Holding, JobPcs, SetupRun, Childless, Launchable
    <2> HIDE DEF next
    <2> QED
      BY <2>1, <2>2, LocalMoves
  <1>7. CASE SendCancel(g)
    <2> DEFINE next == [loop[g] EXCEPT !.sent = TRUE]
    <2>1. next \in ThreadTypes
      OBVIOUS
    <2>2. Local(g, next) /\ Moves(g, next, workers)
      BY <1>7 DEF SendCancel, Holding, JobPcs, SetupRun, Childless, Launchable
    <2> HIDE DEF next
    <2> QED
      BY <2>1, <2>2, LocalMoves
  <1>8. CASE WorkerAnswered(g)
    <2>1. PICK outcome \in {"succeeded", "failed"} \cup (IF loop[g].sent THEN {"cancelled"} ELSE {}) :
             Local(g, [loop[g] EXCEPT !.pc = "exited", !.outcome = outcome])
      BY <1>8 DEF WorkerAnswered
    <2> DEFINE next == [loop[g] EXCEPT !.pc = "exited", !.outcome = outcome]
    <2>2. next \in ThreadTypes
      <3>1. "exited" \in LoopPcs
        BY DEF LoopPcs, Holding, JobPcs
      <3>2. outcome \in {"succeeded", "failed", "cancelled"}
        BY <2>1
      <3> QED
        BY <3>1, <3>2
    <2>3. Local(g, next) /\ Moves(g, next, workers)
      BY <1>8, <2>1 DEF WorkerAnswered, Holding, JobPcs, SetupRun, Childless, Launchable
    <2> HIDE DEF next
    <2> QED
      BY <2>2, <2>3, LocalMoves
  <1>9. CASE GiveUp(g)
    <2> DEFINE next == [loop[g] EXCEPT !.pc = "killing"]
    <2>1. next \in ThreadTypes
      BY DEF LoopPcs, Holding, JobPcs, SetupRun, Childless, Launchable
    <2>2. Local(g, next) /\ Moves(g, next, workers)
      BY <1>9 DEF GiveUp, Holding, JobPcs, SetupRun, Childless, Launchable
    <2> HIDE DEF next
    <2> QED
      BY <2>1, <2>2, LocalMoves
  <1>10. CASE DeferReport(g)
    <2>1. Local(g, Idle) /\ Moves(g, Idle, workers)
      BY <1>10 DEF DeferReport, Idle, Holding, JobPcs, SetupRun, Childless, Launchable
    <2> QED
      BY <1>0, <2>1, LocalMoves
  <1>11. CASE Heartbeat(g)
    <2>1. loop[g].pc \in Beating
      BY <1>11 DEF Heartbeat
    <2>2. CASE Local(g, [loop[g] EXCEPT !.cancel = TRUE])
      <3> DEFINE next == [loop[g] EXCEPT !.cancel = TRUE]
      <3>1. next \in ThreadTypes
        OBVIOUS
      <3>2. Local(g, next) /\ Moves(g, next, workers)
        BY <2>1, <2>2 DEF Beating, Holding, JobPcs, SetupRun, Childless, Launchable
      <3> HIDE DEF next
      <3> QED
        BY <3>1, <3>2, LocalMoves
    <2>3. CASE Local(g, [loop[g] EXCEPT !.cancel = TRUE, !.lost = TRUE])
      <3> DEFINE next == [loop[g] EXCEPT !.cancel = TRUE, !.lost = TRUE]
      <3>1. next \in ThreadTypes
        OBVIOUS
      <3>2. Local(g, next) /\ Moves(g, next, workers)
        BY <2>1, <2>3 DEF Beating, Holding, JobPcs, SetupRun, Childless, Launchable
      <3> HIDE DEF next
      <3> QED
        BY <3>1, <3>2, LocalMoves
    <2> QED
      BY <1>11, <2>2, <2>3 DEF Heartbeat, Beat
  <1> QED
    BY <1>1, <1>2, <1>3, <1>4, <1>5, <1>6, <1>7, <1>8, <1>9, <1>10, <1>11

LEMMA CommitSteps ==
    ASSUME BaseInv, NEW g \in Guis, PrestartFails(g) \/ Flag(g)
    PROVE  Kept
  <1> USE ThreadType DEF ThreadTypes, Moves
  <1>0. TypeOK /\ LeaseCoherence /\ Idle \in ThreadTypes
    BY TypesOf, IdleType DEF BaseInv
  <1>1. Commit(g, Idle) /\ Moves(g, Idle, workers)
    BY DEF PrestartFails, Flag, Idle, Holding, JobPcs, SetupRun, Childless, Launchable
  <1>2. CASE UNCHANGED storeVars
    BY <1>0, <1>1, <1>2, StoreStutters, CommitMoves
  <1>3. CASE PrestartFails(g) /\ BlockJob(loop[g].job, loop[g].revision)
    <2>1. loop[g].job \in Ops
      BY <1>3 DEF PrestartFails, BaseInv, Threads
    <2> QED
      BY <1>0, <1>1, <1>3, <2>1, BlockJobKeeps, CommitMoves
  <1>4. CASE Flag(g) /\ FlagUnconfirmed(loop[g].job, loop[g].fence)
    <2>1. loop[g].job \in Ops
      BY <1>0, <1>4, AttemptType
         DEF Flag, BaseInv, Holders, Holding, JobPcs, SetupRun, Childless, Launchable
    <2> QED
      BY <1>0, <1>1, <1>4, <2>1, FlagKeeps, CommitMoves
  <1> QED
    BY <1>2, <1>3, <1>4 DEF PrestartFails, Flag

LEMMA HolderFacts ==
    ASSUME BaseInv, NEW g \in Guis, loop[g].pc \in Holding
    PROVE  /\ loop[g].fence \in Fences /\ loop[g].job \in Ops
           /\ Queued(loop[g].job) /\ attempts[loop[g].fence].op = loop[g].job
           /\ loop[g].pc \in JobPcs => Kind[loop[g].job] = "job"
           /\ loop[g].pc \in SetupRun => Kind[loop[g].job] = "setup_operation"
           /\ lease["heavy"] = loop[g].fence /\ owner[loop[g].fence] = g
           /\ loop[g].fence \notin orphans /\ runtime[g].state = "active" /\ g \in up
           /\ loop[g].fence # 0
           /\ \A h \in Guis \ {g} : loop[h].pc \notin Holding
  <1>1. /\ loop[g].fence \in Fences /\ attempts[loop[g].fence].op = loop[g].job
        /\ lease["heavy"] = loop[g].fence /\ owner[loop[g].fence] = g
        /\ loop[g].fence \notin orphans
        /\ loop[g].pc \in JobPcs => Kind[loop[g].job] = "job"
        /\ loop[g].pc \in SetupRun => Kind[loop[g].job] = "setup_operation"
        /\ \A h \in Guis \ {g} : loop[h].pc \notin Holding
    BY DEF BaseInv, Holders
  <1>2. TypeOK
    BY TypesOf DEF BaseInv
  <1>3. loop[g].job \in Ops /\ Queued(loop[g].job)
    BY <1>1, <1>2, AttemptType DEF BaseInv, HeavyOnly
  <1>4. runtime[g].state = "active" /\ g \in up
    BY DEF BaseInv, Threads, Holding, JobPcs, SetupRun, Childless, Launchable
  <1> QED
    BY <1>1, <1>2, <1>3, <1>4, FencesAre

LEMMA JournalSteps ==
    ASSUME BaseInv, NEW g \in Guis, ConfirmLaunch(g) \/ RecordNoWorker(g)
    PROVE  Kept
  <1>0. TypeOK /\ LeaseCoherence /\ loop[g] \in ThreadTypes
    BY TypesOf, ThreadType DEF BaseInv
  <1>1. /\ loop[g].pc \in {"spawned", "unstarted"} /\ loop[g].pc \in Holding
        /\ loop[g].outcome \notin {"wait", "unconfirmed"}
    BY ThreadType DEF ConfirmLaunch, RecordNoWorker, Holding, JobPcs
  <1>2. ASSUME NEW pc \in {"executing", "exited"}, NEW outcome \in {"confirmed", "failed"},
               Commit(g, [loop[g] EXCEPT !.pc = pc]),
               RecordLaunch(loop[g].job, loop[g].fence, outcome),
               outcome = "failed" => loop[g].fence \notin workers
        PROVE  Kept
    <2> DEFINE next == [loop[g] EXCEPT !.pc = pc]
    <2>1. next \in ThreadTypes /\ next.pc = pc /\ next.pc \in Holding
      BY <1>0 DEF ThreadTypes, LoopPcs, Holding, JobPcs, SetupRun, Childless, Launchable
    <2>2. Moves(g, next, workers)
      BY <1>0, <1>1, <2>1
         DEF Moves, ThreadTypes, Holding, JobPcs, SetupRun, Childless, Launchable
    <2>3. /\ TypeOK' /\ LeaseCoherence' /\ lease' = lease
          /\ Len(attempts') = Len(attempts)
          /\ \A f \in Fences : attempts'[f].op = attempts[f].op
          /\ \A f \in Fences \ {loop[g].fence} : attempts'[f].launch = attempts[f].launch
          /\ attempts[loop[g].fence].launch = "intended"
          /\ attempts'[loop[g].fence].launch = outcome
      BY <1>0, <1>1, <1>2, HolderFacts, RecordLaunchKeeps
    <2>4. loop' = [loop EXCEPT ![g] = next] /\ loop'[g] = next
      BY <1>2, TypesOf DEF Commit, BaseInv
    <2>5. JournalOf(g)
      <3>1. loop'[g].pc \notin Launchable
        BY <2>1, <2>4 DEF Launchable, SetupRun
      <3> HIDE DEF next
      <3> QED
        BY <1>1, <1>2, <2>3, <3>1 DEF JournalOf
    <2>6. /\ UNCHANGED <<up, runtime, owner, orphans, unclear>> /\ workers' = workers
          /\ stopper' \in [Guis -> StopperTypes]
          /\ \A h \in Guis : stopper'[h].pc \in {"reading", "cancelling"}
                                => stopper'[h].fence \in Fences
      BY <1>2, Stoppers DEF Commit, osVars
    <2> HIDE DEF next
    <2> QED
      BY <2>1, <2>2, <2>3, <2>4, <2>5, <2>6, ThreadMoves
  <1>3. CASE ConfirmLaunch(g)
    BY <1>2, <1>3 DEF ConfirmLaunch
  <1>4. CASE RecordNoWorker(g)
    <2>1. loop[g].fence \notin workers /\ Commit(g, [loop[g] EXCEPT !.pc = "exited"])
      BY <1>4, ThreadType DEF RecordNoWorker, Childless
    <2>2. CASE RecordLaunch(loop[g].job, loop[g].fence, "failed")
      BY <1>2, <2>1, <2>2
    <2>3. CASE UNCHANGED storeVars
      <3> DEFINE next == [loop[g] EXCEPT !.pc = "exited"]
      <3>1. next \in ThreadTypes /\ Moves(g, next, workers)
        BY <1>0, <1>1
           DEF ThreadTypes, LoopPcs, Holding, JobPcs, SetupRun, Childless, Launchable, Moves
      <3>2. Commit(g, next)
        BY <2>1
      <3> HIDE DEF next
      <3> QED
        BY <2>3, <3>1, <3>2, StoreStutters, CommitMoves
    <2> QED
      BY <1>4, <2>2, <2>3 DEF RecordNoWorker
  <1> QED
    BY <1>3, <1>4

LEMMA KillStep == ASSUME BaseInv, NEW g \in Guis, Kill(g) PROVE Kept
  <1> DEFINE next == [loop[g] EXCEPT !.pc = "exited"]
  <1>1. loop[g] \in ThreadTypes /\ loop[g].pc = "killing"
    BY ThreadType DEF Kill
  <1>6. loop[g].outcome \notin {"wait", "unconfirmed"}
    BY <1>1, ThreadType
  <1>2. next \in ThreadTypes /\ Moves(g, next, workers)
    BY <1>1, <1>6
       DEF ThreadTypes, LoopPcs, Holding, JobPcs, SetupRun, Childless, Launchable, Moves
  <1>3. loop' = [loop EXCEPT ![g] = next]
    <2>1. loop' = [loop EXCEPT ![g].pc = "exited"]
      BY DEF Kill
    <2> QED
      BY <2>1
  <1>4. /\ UNCHANGED storeVars /\ workers' \subseteq workers
        /\ UNCHANGED <<up, runtime, stopper, owner, orphans, unclear>>
    BY DEF Kill
  <1> HIDE DEF next
  <1>5. TypeOK' /\ LeaseCoherence' /\ lease' = lease /\ JournalKept
    BY <1>4, StoreStutters
  <1>7. Moves(g, next, workers')
    BY <1>2, <1>4 DEF Moves
  <1> QED
    BY <1>2, <1>3, <1>4, <1>5, <1>7, QuietMoves

\* The worker is of the attempt that holds the slot, and was not recorded absent.
LEMMA WorkerStarts ==
    ASSUME BaseInv, NEW g \in Guis, NEW pc,
           \/ loop[g].pc = "starting" /\ pc = "spawned"
           \/ loop[g].pc = "launching" /\ pc = "launched",
           loop' = [loop EXCEPT ![g].pc = pc],
           workers' = workers \cup {loop[g].fence},
           UNCHANGED <<storeVars, up, runtime, stopper, owner, orphans, unclear>>
    PROVE  Kept
  <1>1. /\ loop[g] \in ThreadTypes /\ loop[g].pc \in Holding /\ loop[g].pc \in Launchable
        /\ loop \in [Guis -> ThreadTypes] /\ pc \in Holding /\ pc \notin Childless
        /\ pc # "closing" /\ pc \notin {"checking", "picked", "observed", "down"}
        /\ loop[g].outcome \notin {"wait", "unconfirmed"}
        /\ loop[g].pc \in JobPcs <=> pc \in JobPcs
        /\ loop[g].pc \in SetupRun <=> pc \in SetupRun
    BY ThreadType, TypesOf DEF Holding, JobPcs, SetupRun, Childless, Launchable, BaseInv
  <1>2. attempts' = attempts
    BY DEF storeVars
  <1>3. /\ loop'[g] = [loop[g] EXCEPT !.pc = pc]
        /\ \A h \in Guis \ {g} : loop'[h] = loop[h]
    BY <1>1
  <1>4. TypeOK' /\ LeaseCoherence' /\ lease' = lease
    BY StoreStutters
  <1>5. Fences' = Fences /\ loop[g].fence \in Fences
    BY <1>1, <1>2, HolderFacts DEF Fences
  <1>6. DispatcherTypeOK'
    <2>1. loop' \in [Guis -> ThreadTypes]
      <3>1. [loop[g] EXCEPT !.pc = pc] \in ThreadTypes
        BY <1>1 DEF ThreadTypes, LoopPcs
      <3> QED
        BY <1>1, <3>1
    <2>2. ThreadTypes' = ThreadTypes /\ RuntimeTypes' = RuntimeTypes /\ StopperTypes' = StopperTypes
      BY <1>2 DEF ThreadTypes, RuntimeTypes, StopperTypes
    <2>3. /\ loop' \in [Guis -> ThreadTypes']
          /\ runtime' \in [Guis -> RuntimeTypes']
          /\ stopper' \in [Guis -> StopperTypes']
      BY <2>1, <2>2, TypesOf DEF BaseInv
    <2>4. /\ up' \subseteq Guis /\ owner' \in Seq(Guis) /\ Len(owner') = Len(attempts')
          /\ orphans' \subseteq Fences' /\ workers' \subseteq Fences'
          /\ unclear' \in 0..MaxUnclear
      BY <1>2, <1>5, TypesOf DEF BaseInv
    <2> QED
      BY <1>4, <2>3, <2>4 DEF DispatcherTypeOK, ThreadTypes, RuntimeTypes, StopperTypes
  <1>7. /\ loop'[g].pc = pc /\ loop'[g].job = loop[g].job /\ loop'[g].fence = loop[g].fence
        /\ loop'[g].active = loop[g].active /\ loop'[g].outcome = loop[g].outcome
    BY <1>1, <1>3 DEF ThreadTypes
  <1>8. Threads' /\ Holders'
    <2>1. Threads'
      BY <1>1, <1>3, <1>5, <1>7, HolderFacts DEF BaseInv, Threads
    <2>2. Holders'
      BY <1>1, <1>2, <1>3, <1>4, <1>5, <1>7 DEF BaseInv, Holders
    <2> QED
      BY <2>1, <2>2
  <1>9. Unstarted'
    <2>1. \A h \in Guis \ {g} : loop'[h].pc \notin Holding
      BY <1>1, <1>3, HolderFacts
    <2>2. attempts[loop[g].fence].launch # "failed"
      BY <1>1 DEF BaseInv, Unstarted
    <2> QED
      BY <1>1, <1>2, <1>7, <2>1, <2>2, PcSets DEF Unstarted
  <1>10. HeavyOnly' /\ Absent' /\ GivenBack'
    BY <1>2, <1>4, <1>5 DEF BaseInv, HeavyOnly, Absent, GivenBack, Queued
  <1>11. Known'
    BY <1>2 DEF BaseInv, Known
  <1>12. LaunchFailedMeansNoWorker'
    <2>1. attempts[loop[g].fence].launch # "failed"
      BY <1>1 DEF BaseInv, Unstarted
    <2> QED
      BY <1>2, <2>1 DEF BaseInv, LaunchFailedMeansNoWorker
  <1>13. ASSUME SlotInv PROVE SlotInv'
    <2>1. lease["heavy"] = loop[g].fence /\ loop[g].fence \notin orphans
      BY <1>1, HolderFacts
    <2> QED
      BY <1>4, <1>13, <2>1 DEF SlotInv, WorkerHoldsLease, WorkerKnown, BaseInv, Known
  <1> QED
    BY <1>4, <1>6, <1>8, <1>9, <1>10, <1>11, <1>12, <1>13 DEF BaseInv, Kept

\* A report that ends the attempt of a thread without a worker frees the slot.
LEMMA SlotFreed ==
    ASSUME BaseInv, NEW g \in Guis, loop[g].pc \in Holding, loop[g].fence \notin workers,
           loop' = [loop EXCEPT ![g] = Idle],
           TypeOK', LeaseCoherence', JournalKept, lease'["heavy"] = 0,
           UNCHANGED <<up, runtime, stopper, owner, orphans, workers, unclear>>
    PROVE  Kept
  <1>1. /\ loop[g] \in ThreadTypes /\ loop \in [Guis -> ThreadTypes] /\ TypeOK /\ LeaseCoherence
        /\ Idle \in ThreadTypes /\ lease["heavy"] = loop[g].fence /\ runtime[g].state = "active"
    BY ThreadType, TypesOf, IdleType, HolderFacts DEF BaseInv
  <1>2. Fences' = Fences
    BY DEF JournalKept, Fences
  <1>3. /\ loop'[g] = Idle
        /\ \A h \in Guis \ {g} : loop'[h] = loop[h] /\ loop[h].pc \notin Holding
    BY <1>1, HolderFacts
  <1>4. \A h \in Guis : loop'[h].pc \notin Holding
    BY <1>3 DEF Idle, Holding, JobPcs, SetupRun
  <1>5. DispatcherTypeOK'
    <2>1. ThreadTypes' = ThreadTypes /\ RuntimeTypes' = RuntimeTypes /\ StopperTypes' = StopperTypes
      BY DEF JournalKept, ThreadTypes, RuntimeTypes, StopperTypes
    <2>2. /\ loop' \in [Guis -> ThreadTypes']
          /\ runtime' \in [Guis -> RuntimeTypes']
          /\ stopper' \in [Guis -> StopperTypes']
      BY <1>1, <2>1, TypesOf DEF BaseInv
    <2>3. /\ up' \subseteq Guis /\ owner' \in Seq(Guis) /\ Len(owner') = Len(attempts')
          /\ orphans' \subseteq Fences' /\ workers' \subseteq Fences'
          /\ unclear' \in 0..MaxUnclear
      BY <1>2, TypesOf DEF BaseInv, JournalKept
    <2> QED
      BY <2>2, <2>3 DEF DispatcherTypeOK, ThreadTypes, RuntimeTypes, StopperTypes
  <1>6. Threads'
    BY <1>1, <1>2, <1>3, <1>4 DEF BaseInv, Threads, Idle
  <1>7. Holders' /\ Unstarted'
    BY <1>4, PcSets DEF Holders, Unstarted
  <1>8. HeavyOnly' /\ Absent'
    BY <1>2 DEF BaseInv, HeavyOnly, Absent, JournalKept, Queued
  <1>9. GivenBack'
    BY <1>1, <1>2, FencesAre DEF GivenBack
  <1>10. Known'
    <2>1. \A h \in Guis : runtime[h].fence # 0 => runtime[h].fence \in Fences
      BY <1>1, TypesOf, FencesAre DEF BaseInv, RuntimeTypes
    <2> QED
      BY <2>1 DEF BaseInv, Known, JournalKept
  <1>11. LaunchFailedMeansNoWorker'
    BY TypesOf DEF BaseInv, LaunchFailedMeansNoWorker, JournalKept
  <1>12. ASSUME SlotInv PROVE SlotInv'
    <2>1. workers = {}
      BY <1>1, <1>12 DEF SlotInv, WorkerHoldsLease
    <2> QED
      BY <2>1 DEF SlotInv, WorkerHoldsLease, WorkerKnown
  <1> QED
    BY <1>5, <1>6, <1>7, <1>8, <1>9, <1>10, <1>11, <1>12 DEF BaseInv, Kept

\* The terminal report of a job; the exit of the worker was observed.
LEMMA ReportStep == ASSUME BaseInv, NEW g \in Guis, Finish(g) PROVE Kept
  <1>1. /\ loop[g] \in ThreadTypes /\ loop[g].pc \in Holding /\ loop[g].pc \in JobPcs
        /\ TypeOK /\ LeaseCoherence /\ loop[g].outcome \notin {"wait", "unconfirmed"}
    BY ThreadType, TypesOf DEF Finish, Holding, JobPcs, BaseInv
  <1>2. PICK outcome \in {"succeeded", "failed", "cancelled"} :
           FinishAttempt(loop[g].job, loop[g].fence, outcome)
    BY <1>1 DEF Finish, ThreadTypes
  <1>3. /\ loop' = [loop EXCEPT ![g] = Idle] /\ loop[g].fence \notin workers
        /\ UNCHANGED <<up, runtime, stopper, owner, orphans, workers, unclear>>
    BY DEF Finish, Commit, osVars
  <1>4. TypeOK' /\ LeaseCoherence' /\ JournalKept /\ lease'["heavy"] = 0
    BY <1>1, <1>2, HolderFacts, FinishFrees
  <1> QED
    BY <1>1, <1>3, <1>4, SlotFreed

\* The slot was free, so nobody holds an attempt.
LEMMA FreeSlot ==
    ASSUME BaseInv, lease["heavy"] = 0
    PROVE  /\ \A h \in Guis : loop[h].pc \notin Holding
           /\ WorkerHoldsLease => workers = {}
  <1>1. TypeOK /\ workers \subseteq Fences
    BY TypesOf DEF BaseInv
  <1>2. 0 \notin Fences
    BY <1>1, FencesAre
  <1> QED
    BY <1>1, <1>2 DEF BaseInv, WorkerHoldsLease, Holders

LEMMA AttemptBegins ==
    ASSUME BaseInv, NEW g \in Guis, NEW pc,
           \/ loop[g].pc = "checking" /\ pc = "granted"
           \/ loop[g].pc = "observed" /\ pc = "begun",
           BeginAttempt(loop[g].job, loop[g].revision),
           loop' = [loop EXCEPT ![g].pc = pc, ![g].fence = Len(attempts) + 1, ![g].revision = 0],
           owner' = Append(owner, g),
           UNCHANGED <<up, runtime, stopper, orphans, workers, unclear>>
    PROVE  Kept
  <1> DEFINE n == Len(attempts) + 1
             next == [loop[g] EXCEPT !.pc = pc, !.fence = n, !.revision = 0]
  <1>1. /\ loop[g] \in ThreadTypes /\ loop \in [Guis -> ThreadTypes] /\ TypeOK /\ LeaseCoherence
        /\ loop[g].job \in Ops
        /\ pc = "granted" => Kind[loop[g].job] = "job"
        /\ pc = "begun" => Kind[loop[g].job] = "setup_operation"
        /\ g \in up /\ runtime[g].state = "active"
        /\ ~loop[g].active /\ loop[g].outcome \notin {"wait", "unconfirmed"}
    BY ThreadType, TypesOf DEF BaseInv, Threads, Holding, JobPcs, SetupRun
  <1>2. pc \in {"granted", "begun"} /\ Queued(loop[g].job)
    BY <1>1, KindIsQueued
  <1>3. /\ TypeOK' /\ LeaseCoherence'
        /\ lease["heavy"] = 0 /\ lease'["heavy"] = n
        /\ Len(attempts') = n
        /\ \A f \in Fences : attempts'[f] = attempts[f]
        /\ attempts'[n].op = loop[g].job /\ attempts'[n].launch = "intended"
    BY <1>1, <1>2, BeginTakes
  <1>4. /\ Len(attempts) \in Nat /\ n \in Nat /\ n # 0 /\ n \notin Fences
        /\ Fences' = Fences \cup {n}
    <2>1. Len(attempts) \in Nat
      BY <1>1, FencesAre
    <2> QED
      BY <2>1, <1>3 DEF Fences
  <1>5. /\ \A h \in Guis : loop[h].pc \notin Holding
        /\ n \notin workers /\ workers \subseteq Fences /\ n \notin orphans
    BY <1>3, <1>4, FreeSlot, TypesOf DEF BaseInv
  <1>6. /\ owner \in Seq(Guis) /\ Len(owner) = Len(attempts)
        /\ owner' \in Seq(Guis) /\ Len(owner') = n /\ owner'[n] = g
        /\ \A f \in Fences : owner'[f] = owner[f]
    <2>1. owner \in Seq(Guis) /\ Len(owner) = Len(attempts)
      BY TypesOf DEF BaseInv
    <2> QED
      BY <1>4, <2>1 DEF Fences
  <1>7. loop' = [loop EXCEPT ![g] = next]
    OBVIOUS
  <1>8. loop'[g] = next /\ \A h \in Guis \ {g} : loop'[h] = loop[h]
    BY <1>1, <1>7
  <1>9. DispatcherTypeOK'
    <2>1. 0..Len(attempts) \subseteq 0..Len(attempts') /\ n \in 0..Len(attempts')
      BY <1>3, <1>4
    <2>2. ThreadTypes \subseteq ThreadTypes' /\ RuntimeTypes \subseteq RuntimeTypes'
          /\ StopperTypes \subseteq StopperTypes'
      BY <2>1 DEF ThreadTypes, RuntimeTypes, StopperTypes
    <2>3. next \in ThreadTypes'
      BY <1>1, <1>2, <2>1 DEF ThreadTypes, LoopPcs, Holding, JobPcs, SetupRun
    <2>4. /\ loop' \in [Guis -> ThreadTypes']
          /\ runtime' \in [Guis -> RuntimeTypes']
          /\ stopper' \in [Guis -> StopperTypes']
      <3> HIDE DEF next
      <3>1. /\ loop \in [Guis -> ThreadTypes'] /\ runtime \in [Guis -> RuntimeTypes']
            /\ stopper \in [Guis -> StopperTypes']
        BY <2>2, TypesOf DEF BaseInv
      <3>2. loop' \in [Guis -> ThreadTypes']
        BY <1>7, <2>3, <3>1
      <3>3. runtime' \in [Guis -> RuntimeTypes'] /\ stopper' \in [Guis -> StopperTypes']
        BY <3>1
      <3> QED
        BY <3>2, <3>3
    <2>5. /\ up' \subseteq Guis /\ owner' \in Seq(Guis) /\ Len(owner') = Len(attempts')
          /\ orphans' \subseteq Fences' /\ workers' \subseteq Fences'
          /\ unclear' \in 0..MaxUnclear
      BY <1>3, <1>4, <1>6, TypesOf DEF BaseInv
    <2> QED
      BY <1>3, <2>4, <2>5 DEF DispatcherTypeOK, ThreadTypes, RuntimeTypes, StopperTypes
  <1>10. /\ next.pc = pc /\ next.fence = n /\ next.job = loop[g].job /\ ~next.active
         /\ next.outcome = loop[g].outcome
    BY <1>1 DEF ThreadTypes
  <1> HIDE DEF n, next
  <1>11. Threads'
    BY <1>1, <1>2, <1>4, <1>8, <1>10 DEF BaseInv, Threads
  <1>12. Holders'
    BY <1>1, <1>2, <1>3, <1>4, <1>5, <1>6, <1>8, <1>10 DEF Holders, JobPcs, SetupRun
  <1>13. Unstarted'
    <2>1. \A h \in Guis \ {g} : loop'[h].pc \notin Holding
      BY <1>5, <1>8
    <2>2. /\ loop'[g].pc # "closing" /\ loop'[g].fence = n /\ n \notin workers'
          /\ attempts'[n].launch # "failed"
      BY <1>2, <1>3, <1>5, <1>8, <1>10
    <2> QED
      BY <2>1, <2>2, PcSets DEF Unstarted
  <1>14. HeavyOnly' /\ Absent'
    BY <1>1, <1>2, <1>3, <1>4, <1>6 DEF BaseInv, HeavyOnly, Absent, Queued
  <1>15. GivenBack'
    BY <1>1, <1>3, <1>4, <1>6 DEF GivenBack
  <1>16. Known'
    <2>1. \A h \in Guis : runtime[h].fence # 0 => runtime[h].fence \in Fences
      BY <1>1, TypesOf, FencesAre DEF BaseInv, RuntimeTypes
    <2> QED
      BY <1>3, <2>1 DEF BaseInv, Known
  <1>17. LaunchFailedMeansNoWorker'
    BY <1>3, <1>5 DEF BaseInv, LaunchFailedMeansNoWorker
  <1>18. SlotInv => SlotInv'
    BY <1>3, FreeSlot DEF SlotInv, WorkerHoldsLease, WorkerKnown
  <1> QED
    BY <1>3, <1>9, <1>11, <1>12, <1>13, <1>14, <1>15, <1>16, <1>17, <1>18 DEF BaseInv, Kept

-------------------------------------------------------------------------------
(* Activation and recovery *)

LEMMA RuntimeType ==
    ASSUME BaseInv, NEW g \in Guis
    PROVE  /\ runtime[g] \in RuntimeTypes /\ runtime[g].fence \in 0..Len(attempts)
           /\ runtime[g].fence # 0 => runtime[g].fence \in Fences
           /\ Inactive \in RuntimeTypes
  <1>1. TypeOK /\ runtime[g] \in RuntimeTypes
    BY TypesOf DEF BaseInv
  <1>2. Inactive \in RuntimeTypes
    BY <1>1, FencesAre DEF Inactive, RuntimeTypes
  <1> QED
    BY <1>1, <1>2, FencesAre DEF RuntimeTypes

\* An activation that has not committed moves on, or gives up.
LEMMA RuntimeMoves ==
    ASSUME BaseInv, NEW g \in up, NEW next \in RuntimeTypes,
           runtime' = [runtime EXCEPT ![g] = next],
           runtime[g].state # "active", next.state # "active",
           next.state = "observing" /\ next.fence # 0 /\ next.launch = "failed"
              => attempts[next.fence].launch = "failed",
           next.state = "committing" /\ next.fence # 0 /\ next.verdict = "interrupted"
              => next.fence \in orphans,
           unclear' \in 0..MaxUnclear,
           UNCHANGED <<storeVars, up, loop, stopper, owner, orphans, workers>>
    PROVE  /\ BaseInv'
           /\ SlotInv /\ (next.state = "committing" /\ next.fence # 0
                            /\ next.verdict = "interrupted" => next.fence \notin workers)
                 => SlotInv'
  <1>1. runtime \in [Guis -> RuntimeTypes] /\ g \in Guis
    BY TypesOf DEF BaseInv
  <1>2. /\ runtime' \in [Guis -> RuntimeTypes] /\ runtime'[g] = next
        /\ \A h \in Guis \ {g} : runtime'[h] = runtime[h]
    BY <1>1
  <1>3. TypeOK' /\ LeaseCoherence' /\ lease' = lease /\ JournalKept /\ attempts' = attempts
    BY StoreStutters DEF storeVars
  <1>4. Known'
    BY <1>2, <1>3 DEF BaseInv, Known
  <1>5. \A h \in Guis : runtime'[h] # runtime[h] =>
           runtime[h].state # "active" /\ runtime'[h].state # "active" /\ h \in up
    BY <1>2
  <1>6. /\ stopper' \in [Guis -> StopperTypes]
        /\ \A h \in Guis : stopper'[h].pc \in {"reading", "cancelling"}
                              => stopper'[h].fence \in Fences
    BY Stoppers
  <1>7. BaseInv' /\ (WorkerHoldsLease => WorkerHoldsLease')
    BY <1>2, <1>3, <1>4, <1>5, <1>6, OthersMove
  <1>8. ASSUME SlotInv,
               next.state = "committing" /\ next.fence # 0 /\ next.verdict = "interrupted"
                  => next.fence \notin workers
        PROVE  WorkerKnown'
    BY <1>2, <1>8 DEF SlotInv, WorkerKnown
  <1> QED
    BY <1>7, <1>8 DEF SlotInv

\* recovery.decide concludes that an attempt is over only from an owner that is
\* gone, with a worker that is gone or was never started.
LEMMA DecideIsSound ==
    ASSUME NEW ownerSeen \in {"alive", "gone", "unknown", "pid_reused"},
           NEW workerSeen \in {"alive", "gone", "unknown", "pid_reused"},
           NEW launch \in {"intended", "confirmed", "failed"}
    PROVE  /\ Decide(ownerSeen, launch, workerSeen) \in Verdicts
           /\ Decide(ownerSeen, launch, workerSeen) = "interrupted" =>
                 ownerSeen = "gone" /\ (launch = "failed" \/ workerSeen = "gone")
  BY DEF Decide, Verdicts, RecoveryReasons

\* An observation is right about the owner; it is right about the worker too if
\* the worker it looked for was the last of the attempt.
LEMMA ObserveStep ==
    ASSUME BaseInv, NEW g \in Guis, NEW workerGone \in BOOLEAN, ObserveWith(g, workerGone)
    PROVE  /\ BaseInv'
           /\ SlotInv /\ (workerGone => runtime[g].fence \notin workers) => SlotInv'
  <1> USE RuntimeType
  <1>0. TypeOK /\ unclear \in 0..MaxUnclear /\ MaxUnclear \in Nat
    BY TypesOf, DispatcherAssumption DEF BaseInv
  <1>1. /\ g \in up /\ runtime[g].state = "observing"
        /\ UNCHANGED <<storeVars, up, loop, stopper, owner, orphans, workers>>
    BY DEF ObserveWith, BaseInv, Threads
  <1>2. CASE runtime[g].fence = 0
    <2> DEFINE next == [runtime[g] EXCEPT !.state = "committing"]
    <2>1. next \in RuntimeTypes /\ next.fence = 0 /\ next.state = "committing"
      BY <1>2 DEF RuntimeTypes
    <2>2. runtime' = [runtime EXCEPT ![g] = next] /\ unclear' = unclear
      BY <1>2 DEF ObserveWith
    <2> HIDE DEF next
    <2> QED
      BY <1>0, <1>1, <2>1, <2>2, RuntimeMoves
  <1>3. CASE runtime[g].fence # 0
    <2> DEFINE fence == runtime[g].fence
               launch == runtime[g].launch
    <2>1. PICK ownerSeen \in Observations(fence \in orphans),
               workerSeen \in Observations(workerGone) :
             /\ runtime' = [runtime EXCEPT ![g].state = "committing", ![g].launch = "failed",
                               ![g].verdict = Decide(ownerSeen, launch, workerSeen)]
             /\ unclear' = IF {ownerSeen, workerSeen} \subseteq {"alive", "gone"}
                           THEN unclear ELSE unclear + 1
      BY <1>3 DEF ObserveWith
    <2> DEFINE verdict == Decide(ownerSeen, launch, workerSeen)
               next == [runtime[g] EXCEPT !.state = "committing", !.launch = "failed",
                                          !.verdict = verdict]
    <2>2. launch \in {"intended", "confirmed", "failed"}
      BY DEF RuntimeTypes
    <2>3. /\ verdict \in Verdicts
          /\ verdict = "interrupted" =>
                fence \in orphans /\ (launch = "failed" \/ workerGone = TRUE)
      <3>1. /\ ownerSeen \in {"alive", "gone", "unknown", "pid_reused"}
            /\ ownerSeen = "gone" => fence \in orphans
        BY <2>1 DEF Observations
      <3>2. /\ workerSeen \in {"alive", "gone", "unknown", "pid_reused"}
            /\ workerSeen = "gone" => workerGone = TRUE
        <4>1. CASE workerGone = TRUE
          BY <2>1, <4>1 DEF Observations
        <4>2. CASE workerGone = FALSE
          BY <2>1, <4>2 DEF Observations
        <4> QED
          BY <4>1, <4>2
      <3> QED
        BY <2>2, <3>1, <3>2, DecideIsSound
    <2>4. next \in RuntimeTypes /\ next.fence = fence /\ next.state = "committing"
          /\ next.verdict = verdict
      BY <2>3 DEF RuntimeTypes
    <2>5. launch = "failed" => fence \notin workers
      BY <1>1, <1>3 DEF BaseInv, Known, LaunchFailedMeansNoWorker
    <2>6. unclear' \in 0..MaxUnclear
      <3>1. unclear = MaxUnclear => {ownerSeen, workerSeen} \subseteq {"alive", "gone"}
        BY <2>1 DEF Observations
      <3> QED
        BY <1>0, <2>1, <3>1
    <2>7. runtime' = [runtime EXCEPT ![g] = next]
      BY <2>1
    <2> HIDE DEF next, verdict
    <2>8. /\ BaseInv'
          /\ SlotInv /\ (verdict = "interrupted" => fence \notin workers) => SlotInv'
      BY <1>1, <2>3, <2>4, <2>6, <2>7, RuntimeMoves
    <2> QED
      BY <2>3, <2>5, <2>8
  <1> QED
    BY <1>2, <1>3

LEMMA ActivationSteps ==
    ASSUME BaseInv, NEW g \in Guis, ActivateRead(g) \/ ActivateFails(g)
    PROVE  Kept
  <1> USE RuntimeType
  <1>0. TypeOK /\ unclear \in 0..MaxUnclear
    BY TypesOf DEF BaseInv
  <1>1. CASE ActivateRead(g)
    <2> DEFINE launch == IF lease["heavy"] = 0 THEN "failed" ELSE attempts[lease["heavy"]].launch
               next == [Inactive EXCEPT !.state = "observing", !.fence = lease["heavy"],
                                        !.launch = launch]
    <2>1. lease["heavy"] \in 0..Len(attempts)
      BY <1>0, SlotIsHeavy DEF TypeOK
    <2>2. launch \in {"intended", "confirmed", "failed"}
      BY <1>0, <2>1, AttemptType, FencesAre DEF Attempt
    <2>3. next \in RuntimeTypes
      BY <2>1, <2>2 DEF RuntimeTypes, Inactive
    <2>4. /\ next.state = "observing" /\ next.fence = lease["heavy"] /\ next.launch = launch
      BY DEF Inactive
    <2>5. next.fence # 0 /\ next.launch = "failed" => attempts[next.fence].launch = "failed"
      BY <2>4
    <2>6. /\ runtime' = [runtime EXCEPT ![g] = next] /\ g \in up
          /\ runtime[g].state # "active" /\ unclear' = unclear
          /\ UNCHANGED <<storeVars, up, loop, stopper, owner, orphans, workers>>
      BY <1>1 DEF ActivateRead, osVars
    <2> HIDE DEF next
    <2> QED
      BY <1>0, <2>3, <2>4, <2>5, <2>6, RuntimeMoves DEF Kept
  <1>2. CASE ActivateFails(g)
    <2>1. /\ runtime' = [runtime EXCEPT ![g] = Inactive] /\ g \in up
          /\ runtime[g].state # "active" /\ unclear' = unclear
          /\ UNCHANGED <<storeVars, up, loop, stopper, owner, orphans, workers>>
      BY <1>2 DEF ActivateFails, osVars, BaseInv, Threads
    <2> QED
      BY <1>0, <2>1, RuntimeMoves DEF Inactive, Kept
  <1> QED
    BY <1>1, <1>2

LEMMA CommitActivation == ASSUME BaseInv, NEW g \in Guis, ActivateCommit(g) PROVE Kept
  <1> USE RuntimeType DEF JournalKept
  <1>1. /\ TypeOK /\ LeaseCoherence /\ HeavyOnly
        /\ loop \in [Guis -> ThreadTypes] /\ runtime \in [Guis -> RuntimeTypes]
        /\ stopper \in [Guis -> StopperTypes]
        /\ Idle \in ThreadTypes
    BY TypesOf, IdleType DEF BaseInv
  <1>2. /\ runtime[g].state = "committing" /\ g \in up /\ loop[g].pc = "down"
        /\ ~loop[g].active
    BY DEF ActivateCommit, BaseInv, Threads, Holding, JobPcs, SetupRun, Childless, Launchable
  <1> DEFINE on == [Inactive EXCEPT !.state = "active"]
  <1>3. /\ runtime' = [runtime EXCEPT ![g] = on]
        /\ loop' = [loop EXCEPT ![g] = Idle]
        /\ stopper' = [stopper EXCEPT ![g] = NotStopping]
        /\ UNCHANGED <<up, owner, orphans, workers, unclear>>
        /\ Recover(DecisionsOf(g))
    BY DEF ActivateCommit, osVars
  <1>4. /\ TypeOK' /\ LeaseCoherence' /\ JournalKept
        /\ \/ lease'["heavy"] = lease["heavy"]
           \/ /\ lease'["heavy"] = 0 /\ lease["heavy"] \in orphans
              /\ lease["heavy"] = runtime[g].fence /\ runtime[g].fence # 0
              /\ runtime[g].verdict = "interrupted"
    BY <1>1, <1>2, <1>3, RecoverFrees DEF BaseInv, Known
  <1>5. Fences' = Fences
    BY <1>4 DEF Fences
  <1>6. on \in RuntimeTypes /\ on.state = "active"
    BY DEF RuntimeTypes, Inactive
  <1> HIDE DEF on
  <1>7. /\ loop'[g] = Idle /\ runtime'[g] = on /\ stopper'[g] = NotStopping
        /\ \A h \in Guis \ {g} : /\ loop'[h] = loop[h] /\ runtime'[h] = runtime[h]
                                 /\ stopper'[h] = stopper[h]
    BY <1>1, <1>3
  <1>8. \A h \in Guis : loop'[h].pc \in Holding =>
           /\ h # g /\ loop[h].pc \in Holding /\ lease'["heavy"] = lease["heavy"]
    <2>1. Idle.pc \notin Holding
      BY DEF Idle, Holding, JobPcs, SetupRun, Childless, Launchable
    <2> QED
      BY <1>4, <1>7, <2>1, HolderFacts
  <1>9. DispatcherTypeOK'
    <2>1. ThreadTypes' = ThreadTypes /\ RuntimeTypes' = RuntimeTypes /\ StopperTypes' = StopperTypes
      BY <1>4 DEF ThreadTypes, RuntimeTypes, StopperTypes
    <2>2. NotStopping \in StopperTypes
      BY <1>1, FencesAre DEF NotStopping, StopperTypes
    <2>3. /\ loop' \in [Guis -> ThreadTypes']
          /\ runtime' \in [Guis -> RuntimeTypes']
          /\ stopper' \in [Guis -> StopperTypes']
      BY <1>1, <1>3, <1>6, <2>1, <2>2
    <2>4. /\ up' \subseteq Guis /\ owner' \in Seq(Guis) /\ Len(owner') = Len(attempts')
          /\ orphans' \subseteq Fences' /\ workers' \subseteq Fences'
          /\ unclear' \in 0..MaxUnclear
      BY <1>3, <1>4, <1>5, TypesOf DEF BaseInv
    <2> QED
      BY <1>4, <2>3, <2>4 DEF DispatcherTypeOK, ThreadTypes, RuntimeTypes, StopperTypes
  <1>10. Threads'
    BY <1>1, <1>2, <1>3, <1>5, <1>6, <1>7 DEF BaseInv, Threads, Idle, NotStopping
  <1>11. Holders'
    BY <1>3, <1>4, <1>5, <1>7, <1>8 DEF BaseInv, Holders
  <1>12. Unstarted'
    <2>1. \A h \in Guis : loop'[h].pc \in Holding => loop[h].fence \in Fences /\ loop'[h] = loop[h]
      BY <1>7, <1>8 DEF BaseInv, Holders
    <2> QED
      BY <1>3, <1>4, <2>1, PcSets DEF BaseInv, Unstarted
  <1>13. HeavyOnly' /\ Absent'
    BY <1>3, <1>4, <1>5 DEF BaseInv, HeavyOnly, Absent, Queued
  <1>14. GivenBack'
    <2>1. 0 \notin Fences
      BY <1>1, FencesAre
    <2> QED
      BY <1>3, <1>4, <1>5, <1>6, <1>7, <2>1, TypesOf DEF BaseInv, GivenBack
  <1>15. Known'
    BY <1>3, <1>4, <1>6, <1>7 DEF BaseInv, Known
  <1>16. LaunchFailedMeansNoWorker'
    BY <1>3, <1>4, TypesOf DEF BaseInv, LaunchFailedMeansNoWorker
  <1>17. ASSUME SlotInv PROVE SlotInv'
    <2>1. lease'["heavy"] = lease["heavy"] \/ workers = {}
      BY <1>2, <1>4, <1>17 DEF SlotInv, WorkerHoldsLease, WorkerKnown
    <2> QED
      BY <1>3, <1>6, <1>7, <1>17, <2>1 DEF SlotInv, WorkerHoldsLease, WorkerKnown
  <1> QED
    BY <1>4, <1>9, <1>10, <1>11, <1>12, <1>13, <1>14, <1>15, <1>16, <1>17 DEF BaseInv, Kept

-------------------------------------------------------------------------------
(* Stopping *)

LEMMA StopperMoves ==
    ASSUME BaseInv, NEW g \in Guis, NEW next \in StopperTypes,
           next.pc \in {"reading", "cancelling"} => next.fence \in Fences,
           Stopping(g, next), UNCHANGED <<storeVars, loop>>
    PROVE  Kept
  <1>1. /\ stopper \in [Guis -> StopperTypes] /\ stopper' = [stopper EXCEPT ![g] = next]
        /\ UNCHANGED <<up, runtime, owner, orphans, workers, unclear>>
    BY TypesOf DEF Stopping, osVars, BaseInv
  <1>2. /\ stopper' \in [Guis -> StopperTypes]
        /\ \A h \in Guis : stopper'[h].pc \in {"reading", "cancelling"}
                              => stopper'[h].fence \in Fences
    BY <1>1, Stoppers
  <1>3. TypeOK' /\ LeaseCoherence' /\ lease' = lease /\ JournalKept /\ attempts' = attempts
    BY StoreStutters DEF storeVars
  <1>4. Known' /\ runtime' \in [Guis -> RuntimeTypes] /\ unclear' \in 0..MaxUnclear
    BY <1>1, <1>3, TypesOf DEF BaseInv, Known
  <1>5. WorkerKnown => WorkerKnown'
    BY <1>1 DEF WorkerKnown
  <1> QED
    BY <1>1, <1>2, <1>3, <1>4, <1>5, OthersMove DEF Kept, SlotInv

LEMMA StopSteps ==
    ASSUME BaseInv, NEW g \in Guis,
           \/ StopBegin(g) \/ StopRead(g) \/ StopTimesOut(g)
           \/ (StopJoined(g) /\ lease["heavy"] # 0)
    PROVE  Kept
  <1>0. /\ TypeOK /\ stopper[g] \in StopperTypes /\ loop[g] \in ThreadTypes
        /\ stopper[g].pc \in {"reading", "cancelling"} => stopper[g].fence \in Fences
        /\ 0 \in 0..Len(attempts)
    BY Stoppers, ThreadType, TypesOf, FencesAre DEF BaseInv
  <1>1. CASE StopBegin(g)
    <2> DEFINE next == [NotStopping EXCEPT
                  !.pc = IF loop[g].active THEN "reading" ELSE "joining",
                  !.fence = IF loop[g].active THEN loop[g].fence ELSE 0]
    <2>1. loop[g].active => loop[g].fence \in Fences
      BY HolderFacts DEF BaseInv, Threads
    <2>2. next \in StopperTypes
      BY <1>0 DEF StopperTypes, ThreadTypes, NotStopping
    <2>3. next.pc \in {"reading", "cancelling"} => next.fence \in Fences
      BY <2>1 DEF NotStopping
    <2>4. Stopping(g, next) /\ UNCHANGED <<storeVars, loop>>
      BY <1>1 DEF StopBegin
    <2> HIDE DEF next
    <2> QED
      BY <2>2, <2>3, <2>4, StopperMoves
  <1>2. CASE StopRead(g)
    <2> DEFINE job == attempts[stopper[g].fence].op
               next == [stopper[g] EXCEPT !.pc = "cancelling",
                           !.revision = IF status[job] = "running" THEN revision[job] ELSE 0]
    <2>1. stopper[g].fence \in Fences
      BY <1>0, <1>2 DEF StopRead
    <2>2. revision[job] \in Nat
      BY <1>0, <2>1, AttemptType DEF TypeOK
    <2>3. next \in StopperTypes /\ next.fence = stopper[g].fence
      BY <1>0, <2>2 DEF StopperTypes
    <2>4. Stopping(g, next) /\ UNCHANGED <<storeVars, loop>>
      BY <1>2 DEF StopRead
    <2> HIDE DEF next
    <2> QED
      BY <2>1, <2>3, <2>4, StopperMoves
  <1>3. CASE StopTimesOut(g) \/ (StopJoined(g) /\ lease["heavy"] # 0)
    <2> DEFINE next == [stopper[g] EXCEPT !.pc = "refused"]
    <2>1. next \in StopperTypes /\ next.pc = "refused"
      BY <1>0 DEF StopperTypes
    <2>2. Stopping(g, next) /\ UNCHANGED <<storeVars, loop>>
      <3>1. CASE StopTimesOut(g)
        BY <3>1 DEF StopTimesOut
      <3>2. CASE StopJoined(g) /\ lease["heavy"] # 0
        BY <3>2 DEF StopJoined, Stopping
      <3> QED
        BY <1>3, <3>1, <3>2
    <2> HIDE DEF next
    <2> QED
      BY <2>1, <2>2, StopperMoves
  <1> QED
    BY <1>1, <1>2, <1>3

\* The legacy queue gets the machine back only while the slot is free.
LEMMA StopJoinedFree ==
    ASSUME BaseInv, NEW g \in Guis, StopJoined(g), lease["heavy"] = 0
    PROVE  Kept
  <1> USE DEF JournalKept
  <1>1. /\ TypeOK /\ runtime \in [Guis -> RuntimeTypes] /\ stopper \in [Guis -> StopperTypes]
        /\ Inactive \in RuntimeTypes /\ loop[g].pc = "down"
    BY TypesOf, RuntimeType DEF BaseInv, StopJoined
  <1>2. /\ runtime' = [runtime EXCEPT ![g] = Inactive]
        /\ stopper' = [stopper EXCEPT ![g] = NotStopping]
        /\ UNCHANGED <<up, loop, owner, orphans, workers, unclear>> /\ UNCHANGED storeVars
    BY DEF StopJoined, osVars
  <1>3. TypeOK' /\ LeaseCoherence' /\ lease' = lease /\ attempts' = attempts
    BY <1>2, StoreStutters DEF storeVars
  <1>4. Fences' = Fences
    BY <1>3 DEF Fences
  <1>5. /\ runtime'[g] = Inactive /\ stopper'[g] = NotStopping
        /\ \A h \in Guis \ {g} : runtime'[h] = runtime[h] /\ stopper'[h] = stopper[h]
    BY <1>1, <1>2
  <1>6. DispatcherTypeOK'
    <2>1. ThreadTypes' = ThreadTypes /\ RuntimeTypes' = RuntimeTypes /\ StopperTypes' = StopperTypes
      BY <1>3 DEF ThreadTypes, RuntimeTypes, StopperTypes
    <2>2. NotStopping \in StopperTypes
      BY <1>1, FencesAre DEF NotStopping, StopperTypes
    <2>3. /\ loop' \in [Guis -> ThreadTypes']
          /\ runtime' \in [Guis -> RuntimeTypes']
          /\ stopper' \in [Guis -> StopperTypes']
      BY <1>1, <1>2, <2>1, <2>2, TypesOf DEF BaseInv
    <2>4. /\ up' \subseteq Guis /\ owner' \in Seq(Guis) /\ Len(owner') = Len(attempts')
          /\ orphans' \subseteq Fences' /\ workers' \subseteq Fences'
          /\ unclear' \in 0..MaxUnclear
      BY <1>2, <1>3, <1>4, TypesOf DEF BaseInv
    <2> QED
      BY <1>3, <2>3, <2>4 DEF DispatcherTypeOK, ThreadTypes, RuntimeTypes, StopperTypes
  <1>7. Threads'
    BY <1>1, <1>2, <1>4, <1>5 DEF BaseInv, Threads, Inactive, NotStopping
  <1>8. Holders' /\ Unstarted' /\ HeavyOnly' /\ Absent'
    BY <1>2, <1>3, <1>4 DEF BaseInv, Holders, Unstarted, HeavyOnly, Absent, Queued
  <1>9. GivenBack'
    BY <1>1, <1>2, <1>3, <1>4, FencesAre DEF GivenBack
  <1>10. Known'
    BY <1>2, <1>3, <1>5 DEF BaseInv, Known, Inactive
  <1>11. LaunchFailedMeansNoWorker'
    BY <1>2, <1>3 DEF BaseInv, LaunchFailedMeansNoWorker
  <1>12. SlotInv => SlotInv'
    BY <1>2, <1>3, <1>5 DEF SlotInv, WorkerHoldsLease, WorkerKnown, Inactive
  <1> QED
    BY <1>3, <1>6, <1>7, <1>8, <1>9, <1>10, <1>11, <1>12 DEF BaseInv, Kept

LEMMA StopCancelStep == ASSUME BaseInv, NEW g \in Guis, StopCancel(g) PROVE Kept
  <1> DEFINE fence == stopper[g].fence
             job == attempts[fence].op
             next == [loop[g] EXCEPT !.cancel = @ \/ (loop[g].active /\ loop[g].fence = fence)]
             stopped == [stopper[g] EXCEPT !.pc = "joining"]
  <1>1. /\ TypeOK /\ LeaseCoherence /\ loop[g] \in ThreadTypes
        /\ stopper \in [Guis -> StopperTypes] /\ stopper[g] \in StopperTypes
        /\ fence \in Fences
    BY Stoppers, ThreadType, TypesOf DEF StopCancel, BaseInv
  <1>2. job \in Ops
    BY <1>1, AttemptType
  <1>3. TypeOK' /\ LeaseCoherence' /\ lease' = lease /\ JournalKept
    <2>1. CASE Transition(job, stopper[g].revision, "cancelling", 0)
      BY <1>1, <1>2, <2>1, CancellingKeeps
    <2>2. CASE UNCHANGED storeVars
      BY <2>2, StoreStutters
    <2> QED
      BY <2>1, <2>2 DEF StopCancel
  <1>4. /\ loop' = [loop EXCEPT ![g] = next]
        /\ stopper' = [stopper EXCEPT ![g] = stopped]
        /\ UNCHANGED <<up, runtime, owner, orphans, workers, unclear>>
    BY DEF StopCancel, Stopping, osVars
  <1>5. next \in ThreadTypes /\ Moves(g, next, workers')
    <2>1. (loop[g].cancel \/ (loop[g].active /\ loop[g].fence = fence)) \in BOOLEAN
      OBVIOUS
    <2>2. PICK c \in BOOLEAN : next = [loop[g] EXCEPT !.cancel = c]
      BY <2>1
    <2>3. /\ [loop[g] EXCEPT !.cancel = c] \in ThreadTypes
          /\ Moves(g, [loop[g] EXCEPT !.cancel = c], workers')
      BY <1>1, <1>4 DEF ThreadTypes, Moves, BaseInv, Threads, Unstarted
    <2> QED
      BY <2>2, <2>3
  <1>6. stopped \in StopperTypes /\ stopped.pc = "joining"
    BY <1>1 DEF StopperTypes
  <1> HIDE DEF next, stopped
  <1>7. /\ stopper' \in [Guis -> StopperTypes]
        /\ \A h \in Guis : stopper'[h].pc \in {"reading", "cancelling"}
                              => stopper'[h].fence \in Fences
    BY <1>1, <1>4, <1>6, Stoppers
  <1>8. JournalOf(g) /\ workers' \subseteq workers
    BY <1>3, <1>4 DEF JournalKept, JournalOf
  <1> QED
    BY <1>3, <1>4, <1>5, <1>7, <1>8, ThreadMoves

-------------------------------------------------------------------------------
(* Processes and commands *)

\* A transaction, committed outside the threads, that keeps the slot and the journal.
LEMMA StoreStep ==
    ASSUME BaseInv, TypeOK', LeaseCoherence', lease' = lease, JournalKept,
           UNCHANGED <<up, runtime, loop, stopper, owner, orphans, workers, unclear>>
    PROVE  Kept
  <1>1. Known'
    <2>1. \A h \in Guis : runtime[h].fence # 0 => runtime[h].fence \in Fences
      BY RuntimeType
    <2> QED
      BY <2>1 DEF BaseInv, Known, JournalKept
  <1>2. /\ runtime' \in [Guis -> RuntimeTypes] /\ stopper' \in [Guis -> StopperTypes]
        /\ unclear' \in 0..MaxUnclear
        /\ \A h \in Guis : stopper'[h].pc \in {"reading", "cancelling"}
                              => stopper'[h].fence \in Fences
    BY TypesOf, Stoppers DEF BaseInv
  <1>3. WorkerKnown => WorkerKnown'
    BY DEF WorkerKnown
  <1> QED
    BY <1>1, <1>2, <1>3, OthersMove DEF Kept, SlotInv

LEMMA CommandStep == ASSUME BaseInv, Command PROVE Kept
  <1>1. TypeOK /\ LeaseCoherence
    BY TypesOf DEF BaseInv
  <1>2. TypeOK' /\ LeaseCoherence' /\ lease' = lease /\ JournalKept
    BY <1>1, CommandKeeps, CommandKeepsStore
  <1>3. UNCHANGED <<up, runtime, loop, stopper, owner, orphans, workers, unclear>>
    BY DEF Command, guiVars, osVars
  <1> QED
    BY <1>2, <1>3, StoreStep

LEMMA WorkerExitsStep == ASSUME BaseInv, NEW f, WorkerExits(f) PROVE Kept
  <1>1. /\ UNCHANGED <<up, runtime, loop, stopper, owner, orphans, unclear>>
        /\ UNCHANGED storeVars /\ workers' \subseteq workers
    BY DEF WorkerExits, guiVars
  <1>2. TypeOK' /\ LeaseCoherence' /\ lease' = lease /\ JournalKept /\ attempts' = attempts
    BY <1>1, StoreStutters DEF storeVars
  <1>3. Known'
    BY <1>1, <1>2 DEF BaseInv, Known
  <1>4. /\ runtime' \in [Guis -> RuntimeTypes] /\ stopper' \in [Guis -> StopperTypes]
        /\ unclear' \in 0..MaxUnclear
        /\ \A h \in Guis : stopper'[h].pc \in {"reading", "cancelling"}
                              => stopper'[h].fence \in Fences
    BY <1>1, TypesOf, Stoppers DEF BaseInv
  <1>5. WorkerKnown => WorkerKnown'
    BY <1>1 DEF WorkerKnown
  <1> QED
    BY <1>1, <1>2, <1>3, <1>4, <1>5, OthersMove DEF Kept, SlotInv

LEMMA StartGuiStep == ASSUME BaseInv, NEW g \in Guis, StartGui(g) PROVE Kept
  <1>1. /\ g \notin up /\ up' = up \cup {g}
        /\ UNCHANGED <<runtime, loop, stopper, owner, orphans, workers, unclear>>
        /\ UNCHANGED storeVars
    BY DEF StartGui, osVars
  <1>2. TypeOK' /\ LeaseCoherence' /\ lease' = lease /\ attempts' = attempts
    BY <1>1, StoreStutters DEF storeVars
  <1>3. Fences' = Fences
    BY <1>2 DEF Fences
  <1>4. DispatcherTypeOK'
    BY <1>1, <1>2, <1>3 DEF BaseInv, DispatcherTypeOK
  <1>5. Threads' /\ Holders' /\ Unstarted' /\ HeavyOnly' /\ Known'
    BY <1>1, <1>2, <1>3 DEF BaseInv, Threads, Holders, Unstarted, HeavyOnly, Known, Queued
  <1>6. Absent' /\ GivenBack'
    BY <1>1, <1>2, <1>3 DEF BaseInv, Absent, GivenBack
  <1>7. LaunchFailedMeansNoWorker'
    BY <1>1, <1>2 DEF BaseInv, LaunchFailedMeansNoWorker
  <1>8. SlotInv => SlotInv'
    BY <1>1, <1>2 DEF SlotInv, WorkerHoldsLease, WorkerKnown
  <1> QED
    BY <1>2, <1>4, <1>5, <1>6, <1>7, <1>8 DEF BaseInv, Kept

\* The threads of a process end with it; what it began is orphaned.
LEMMA CrashStep == ASSUME BaseInv, NEW g \in Guis, Crash(g) PROVE Kept
  <1>1. /\ g \in up /\ up' = up \ {g}
        /\ runtime' = [runtime EXCEPT ![g] = Inactive]
        /\ loop' = [loop EXCEPT ![g] = Down]
        /\ stopper' = [stopper EXCEPT ![g] = NotStopping]
        /\ orphans' = orphans \cup {f \in Fences : owner[f] = g}
        /\ UNCHANGED <<owner, workers, unclear>> /\ UNCHANGED storeVars
    BY DEF Crash
  <1>2. TypeOK' /\ LeaseCoherence' /\ lease' = lease /\ attempts' = attempts
    BY <1>1, StoreStutters DEF storeVars
  <1>3. Fences' = Fences
    BY <1>2 DEF Fences
  <1>4. /\ TypeOK /\ runtime \in [Guis -> RuntimeTypes] /\ stopper \in [Guis -> StopperTypes]
        /\ loop \in [Guis -> ThreadTypes] /\ Inactive \in RuntimeTypes /\ Down \in ThreadTypes
        /\ orphans \subseteq Fences /\ up \subseteq Guis
    BY TypesOf, RuntimeType, IdleType DEF BaseInv
  <1>5. /\ loop'[g] = Down /\ runtime'[g] = Inactive /\ stopper'[g] = NotStopping
        /\ \A h \in Guis \ {g} : /\ loop'[h] = loop[h] /\ runtime'[h] = runtime[h]
                                 /\ stopper'[h] = stopper[h]
    BY <1>1, <1>4
  <1>6. DispatcherTypeOK'
    <2>1. ThreadTypes' = ThreadTypes /\ RuntimeTypes' = RuntimeTypes /\ StopperTypes' = StopperTypes
      BY <1>2 DEF ThreadTypes, RuntimeTypes, StopperTypes
    <2>2. NotStopping \in StopperTypes
      BY <1>4, FencesAre DEF NotStopping, StopperTypes
    <2>3. /\ loop' \in [Guis -> ThreadTypes']
          /\ runtime' \in [Guis -> RuntimeTypes']
          /\ stopper' \in [Guis -> StopperTypes']
      BY <1>1, <1>4, <2>1, <2>2
    <2>4. /\ up' \subseteq Guis /\ owner' \in Seq(Guis) /\ Len(owner') = Len(attempts')
          /\ orphans' \subseteq Fences' /\ workers' \subseteq Fences'
          /\ unclear' \in 0..MaxUnclear
      BY <1>1, <1>2, <1>3, <1>4, TypesOf DEF BaseInv
    <2> QED
      BY <1>2, <2>3, <2>4 DEF DispatcherTypeOK, ThreadTypes, RuntimeTypes, StopperTypes
  <1>7. /\ Down.pc = "down" /\ Down.active = FALSE /\ "down" \notin Holding
        /\ Down.outcome = "failed"
    BY DEF Down, Idle, Holding, JobPcs, SetupRun
  <1>8. Threads'
    BY <1>1, <1>3, <1>5, <1>7 DEF BaseInv, Threads, Inactive, NotStopping
  <1>9. Holders'
    BY <1>1, <1>2, <1>3, <1>5, <1>7 DEF BaseInv, Holders
  <1>10. Unstarted'
    BY <1>1, <1>2, <1>5, <1>7, PcSets DEF BaseInv, Unstarted
  <1>11. HeavyOnly' /\ Absent' /\ GivenBack'
    BY <1>1, <1>2, <1>3, <1>4, <1>5 DEF BaseInv, HeavyOnly, Absent, GivenBack, Queued
  <1>12. Known'
    BY <1>1, <1>2, <1>5 DEF BaseInv, Known, Inactive
  <1>13. LaunchFailedMeansNoWorker'
    BY <1>1, <1>2 DEF BaseInv, LaunchFailedMeansNoWorker
  <1>14. SlotInv => SlotInv'
    BY <1>1, <1>2, <1>5 DEF SlotInv, WorkerHoldsLease, WorkerKnown, Inactive
  <1> QED
    BY <1>2, <1>6, <1>8, <1>9, <1>10, <1>11, <1>12, <1>13, <1>14 DEF BaseInv, Kept

-------------------------------------------------------------------------------
(* The theorems *)

LEMMA InitHolds == Init => BaseInv /\ SlotInv
  <1> SUFFICES ASSUME Init PROVE BaseInv /\ SlotInv
    OBVIOUS
  <1>1. TypeOK /\ LeaseCoherence
    BY InitType, InitLeases DEF Init
  <1>2. attempts = <<>> /\ lease = [s \in Slots |-> 0] /\ Fences = {}
    BY DEF Init, StoreInit, Fences
  <1>3. Down \in ThreadTypes /\ Inactive \in RuntimeTypes /\ NotStopping \in StopperTypes
    BY <1>1, IdleType, FencesAre
       DEF Inactive, RuntimeTypes, NotStopping, StopperTypes
  <1>4. DispatcherTypeOK
    <2>1. /\ runtime \in [Guis -> RuntimeTypes] /\ loop \in [Guis -> ThreadTypes]
          /\ stopper \in [Guis -> StopperTypes]
      BY <1>3 DEF Init
    <2>2. /\ up \subseteq Guis /\ orphans \subseteq Fences /\ workers \subseteq Fences
          /\ owner \in Seq(Guis) /\ Len(owner) = Len(attempts)
          /\ unclear \in 0..MaxUnclear
      BY <1>2, DispatcherAssumption DEF Init
    <2> QED
      BY <1>1, <2>1, <2>2, TypesOf
  <1>5. \A g \in Guis : loop[g] = Down /\ runtime[g] = Inactive /\ stopper[g] = NotStopping
    BY DEF Init
  <1>6. Threads /\ Holders /\ Unstarted /\ Known /\ WorkerKnown
    BY <1>5
       DEF Threads, Holders, Unstarted, Known, WorkerKnown, Down, Idle, Inactive, NotStopping, Holding, JobPcs, SetupRun, Childless, Launchable
  <1>7. HeavyOnly /\ Absent /\ GivenBack /\ WorkerHoldsLease /\ LaunchFailedMeansNoWorker
    BY <1>2 DEF Init, HeavyOnly, Absent, GivenBack, WorkerHoldsLease, LaunchFailedMeansNoWorker
  <1> QED
    BY <1>1, <1>4, <1>6, <1>7 DEF BaseInv, SlotInv

LEMMA StutterHolds == ASSUME BaseInv, UNCHANGED vars PROVE Kept
  <1>1. /\ UNCHANGED <<up, runtime, loop, stopper, owner, orphans, workers, unclear>>
        /\ UNCHANGED storeVars
    BY DEF vars, guiVars, osVars
  <1>2. TypeOK' /\ LeaseCoherence' /\ lease' = lease /\ JournalKept
    BY <1>1, StoreStutters
  <1> QED
    BY <1>1, <1>2, StoreStep

\* The steps of a process of its own; the observation of others is apart.
LEMMA OwnSteps == ASSUME BaseInv, NEW g \in Guis, OwnStep(g) PROVE Kept
  <1>1. CASE ActivateRead(g) \/ ActivateFails(g)
    BY <1>1, ActivationSteps
  <1>2. CASE ActivateCommit(g)
    BY <1>2, CommitActivation
  <1>3. CASE \/ Pick(g) \/ LoopEnds(g) \/ BeginRefused(g) \/ PublishActive(g)
             \/ SpawnFails(g) \/ ConfirmLaunchFails(g) \/ SendCancel(g) \/ WorkerAnswered(g)
             \/ GiveUp(g) \/ DeferReport(g) \/ Heartbeat(g)
    BY <1>3, ThreadSteps
  <1>4. CASE PrestartFails(g) \/ Flag(g)
    BY <1>4, CommitSteps
  <1>5. CASE ConfirmLaunch(g) \/ RecordNoWorker(g)
    BY <1>5, JournalSteps
  <1>6. CASE Begin(g)
    BY <1>6, AttemptBegins DEF Begin
  <1>7. CASE Spawn(g)
    BY <1>7, WorkerStarts DEF Spawn
  <1>8. CASE Kill(g) \/ Finish(g)
    BY <1>8, KillStep, ReportStep
  <1>9. CASE StopBegin(g) \/ StopRead(g) \/ StopTimesOut(g)
    BY <1>9, StopSteps
  <1>10. CASE StopCancel(g) \/ StopJoined(g)
    BY <1>10, StopCancelStep, StopSteps, StopJoinedFree
  <1>11. CASE Crash(g) \/ StartGui(g)
    BY <1>11, CrashStep, StartGuiStep
  <1> QED
    BY <1>1, <1>2, <1>3, <1>4, <1>5, <1>6, <1>7, <1>8, <1>9, <1>10, <1>11 DEF OwnStep

LEMMA NextHolds == BaseInv /\ SlotInv /\ [Next]_vars => (BaseInv /\ SlotInv)'
  <1> SUFFICES ASSUME BaseInv, SlotInv, [Next]_vars PROVE Kept
    BY DEF Kept
  <1>1. CASE Command
    BY <1>1, CommandStep
  <1>2. ASSUME NEW g \in Guis, ActivateObserve(g) PROVE Kept
    <2>1. PICK gone \in BOOLEAN : gone = (runtime[g].fence \notin workers)
      OBVIOUS
    <2>2. ObserveWith(g, gone)
      BY <1>2, <2>1 DEF ActivateObserve
    <2> QED
      BY <2>1, <2>2, ObserveStep DEF Kept
  <1>3. ASSUME NEW g \in Guis, OwnStep(g) PROVE Kept
    BY <1>3, OwnSteps
  <1>4. ASSUME NEW f \in workers, WorkerExits(f) PROVE Kept
    BY <1>4, WorkerExitsStep
  <1>5. CASE UNCHANGED vars
    BY <1>5, StutterHolds
  <1> QED
    BY <1>1, <1>2, <1>3, <1>4, <1>5 DEF Next, GuiStep

LEMMA Invariance == Spec => [](BaseInv /\ SlotInv)
  BY InitHolds, NextHolds, PTL DEF Spec

\* Every local of the threads, of the activations and of the stopping keeps its
\* shape; in particular every fencing token in use names an attempt
\* (job_dispatcher.py, job_runtime.py).
THEOREM RuntimesTypeOK == Spec => []DispatcherTypeOK
  <1>1. BaseInv /\ SlotInv => DispatcherTypeOK
    BY DEF BaseInv
  <1> QED
    BY <1>1, Invariance, PTL

\* A worker process runs only for the attempt that holds the slot, whatever
\* crashes, failed kills and recoveries by other processes happen.
THEOREM RuntimesWorkerHoldsLease == Spec => []WorkerHoldsLease
  <1>1. BaseInv /\ SlotInv => WorkerHoldsLease
    BY DEF SlotInv
  <1> QED
    BY <1>1, Invariance, PTL

\* A thread on its way to a report keeps the slot, whoever activates meanwhile.
THEOREM RuntimesLiveOwnerKeepsLease == Spec => []LiveOwnerKeepsLease
  <1>1. BaseInv /\ SlotInv => LiveOwnerKeepsLease
    <2> SUFFICES ASSUME BaseInv, NEW g \in Guis, loop[g].pc \in Holding
                 PROVE  /\ Fenced(loop[g].job, loop[g].fence)
                        /\ owner[loop[g].fence] = g /\ loop[g].fence \notin orphans
      BY DEF LiveOwnerKeepsLease
    <2>1. Slot(loop[g].job) = "heavy"
      BY HolderFacts, HeavySlot
    <2> QED
      BY <2>1, HolderFacts DEF Fenced, HeldFence
  <1> QED
    BY <1>1, Invariance, PTL

\* The journal says "launch failed" only of attempts that have no worker, which
\* is what recovery.decide takes it for.
THEOREM RuntimesLaunchFailedMeansNoWorker == Spec => []LaunchFailedMeansNoWorker
  <1>1. BaseInv /\ SlotInv => LaunchFailedMeansNoWorker
    BY DEF BaseInv
  <1> QED
    BY <1>1, Invariance, PTL

\* A runtime that is not active has no attempt of its own in the slot or running.
THEOREM RuntimesDeactivatedOwnsNothing == Spec => []DeactivatedOwnsNothing
  <1>1. BaseInv /\ SlotInv => DeactivatedOwnsNothing
    BY DEF BaseInv, SlotInv, GivenBack, WorkerHoldsLease, DeactivatedOwnsNothing
  <1> QED
    BY <1>1, Invariance, PTL


-------------------------------------------------------------------------------
(* What the processes do to the store is a sequence of its calls, so that all   *)
(* that CallSpec implies holds of them too.                                     *)

LEMMA CommandCalls == Command => StoreCall
  <1>1. ASSUME NEW o \in Ops, NEW expected \in 1..MaxRevision[o],
               CancelJob(o, expected) \/ Revalidated(o, expected)
        PROVE  UserCommand
    BY <1>1 DEF UserCommand
  <1>2. ASSUME NEW rank \in Batches, AcceptBatch(rank) PROVE Create
    BY <1>2 DEF Create
  <1>3. ASSUME NEW o \in Ops, NEW expected \in 1..MaxRevision[o], NEW new \in Ops,
               RetryJob(o, expected, new)
        PROVE  Create
    BY <1>3 DEF Create
  <1>4. QueueCommand => UserCommand
    BY DEF QueueCommand, UserCommand
  <1> QED
    BY <1>1, <1>2, <1>3, <1>4 DEF Command, JobCommand, StoreCall

\* A fenced call names an attempt.
LEMMA FencedCalls ==
    ASSUME TypeOK, NEW o \in Ops, NEW fence,
           \/ \E outcome \in {"confirmed", "failed"} : RecordLaunch(o, fence, outcome)
           \/ \E outcome \in {"succeeded", "failed", "cancelled"} : FinishAttempt(o, fence, outcome)
           \/ FlagUnconfirmed(o, fence)
    PROVE  StoreCall
  <1>1. Fenced(o, fence)
    BY DEF RecordLaunch, FinishAttempt, FlagUnconfirmed
  <1>2. fence \in Fences
    BY <1>1, HeldFenceType DEF Fenced
  <1> QED
    BY <1>2 DEF StoreCall, OwnerCall

\* The dispatcher's calls name the revision that it has read.
LEMMA CheckedCalls ==
    ASSUME NEW o \in Ops, NEW expected \in Nat,
           BlockJob(o, expected) \/ BeginAttempt(o, expected)
    PROVE  StoreCall
  BY DEF StoreCall, OwnerCall

LEMMA CancelCalls ==
    ASSUME TypeOK, NEW o \in Ops, NEW expected \in Nat, Transition(o, expected, "cancelling", 0)
    PROVE  StoreCall
  <1>1. "cancelling" \in Statuses /\ 0 \in 0..Len(attempts)
    BY LenProperties DEF Statuses, TypeOK
  <1> QED
    BY <1>1 DEF StoreCall, OwnerCall

\* The steps of a process that leave the store alone.
LEMMA QuietSteps ==
    ASSUME NEW g,
           \/ ActivateRead(g) \/ ActivateFails(g)
           \/ Pick(g) \/ LoopEnds(g) \/ BeginRefused(g) \/ PublishActive(g)
           \/ Spawn(g) \/ SpawnFails(g) \/ ConfirmLaunchFails(g)
           \/ SendCancel(g) \/ WorkerAnswered(g) \/ GiveUp(g) \/ Kill(g)
           \/ DeferReport(g) \/ Heartbeat(g)
           \/ StopBegin(g) \/ StopRead(g) \/ StopJoined(g) \/ StopTimesOut(g)
           \/ Crash(g) \/ StartGui(g)
    PROVE  UNCHANGED storeVars
  BY DEF ActivateRead, ActivateFails, Pick, LoopEnds, BeginRefused, PublishActive, Spawn,
         SpawnFails, ConfirmLaunchFails, SendCancel, WorkerAnswered, GiveUp, Kill,
         DeferReport, Heartbeat, Beat, Local, StopBegin, StopRead, StopJoined, StopTimesOut,
         Crash, StartGui

LEMMA OwnStepCalls ==
    ASSUME BaseInv, NEW g \in Guis, OwnStep(g)
    PROVE  StoreCall \/ UNCHANGED storeVars
  <1>0. TypeOK /\ DispatcherTypeOK /\ loop[g] \in ThreadTypes
    BY ThreadType, TypesOf DEF BaseInv
  <1>1. CASE ActivateCommit(g)
    BY <1>1 DEF ActivateCommit, StoreCall
  <1>2. CASE PrestartFails(g) \/ Begin(g)
    <2>1. loop[g].job \in Ops /\ loop[g].revision \in Nat
      BY <1>0, <1>2 DEF PrestartFails, Begin, BaseInv, Threads, ThreadTypes
    <2>2. CASE BlockJob(loop[g].job, loop[g].revision) \/ BeginAttempt(loop[g].job, loop[g].revision)
      BY <2>1, <2>2, CheckedCalls
    <2> QED
      BY <1>2, <2>2 DEF PrestartFails, Begin
  <1>3. CASE ConfirmLaunch(g) \/ RecordNoWorker(g) \/ Flag(g) \/ Finish(g)
    <2>1. loop[g].job \in Ops
      BY <1>3, HolderFacts DEF ConfirmLaunch, RecordNoWorker, Flag, Finish, Holding, JobPcs
    <2>2. loop[g].outcome \in {"succeeded", "failed", "cancelled"} \/ ~Finish(g)
      BY <1>0 DEF Finish, BaseInv, Threads, ThreadTypes
    <2>3. PICK o, fence : o \in Ops /\ o = loop[g].job /\ fence = loop[g].fence
      BY <2>1
    <2>4. \/ UNCHANGED storeVars
          \/ \E outcome \in {"confirmed", "failed"} : RecordLaunch(o, fence, outcome)
          \/ \E outcome \in {"succeeded", "failed", "cancelled"} : FinishAttempt(o, fence, outcome)
          \/ FlagUnconfirmed(o, fence)
      BY <1>3, <2>2, <2>3 DEF ConfirmLaunch, RecordNoWorker, Flag, Finish
    <2> QED
      BY <1>0, <2>3, <2>4, FencedCalls
  <1>4. CASE StopCancel(g)
    <2>1. /\ stopper[g].fence \in Fences /\ stopper[g].revision \in Nat
      BY <1>0, <1>4 DEF StopCancel, BaseInv, Threads, DispatcherTypeOK
    <2>2. attempts[stopper[g].fence].op \in Ops
      BY <1>0, <2>1, AttemptType DEF Attempt
    <2>3. \/ Transition(attempts[stopper[g].fence].op, stopper[g].revision, "cancelling", 0)
          \/ UNCHANGED storeVars
      BY <1>4 DEF StopCancel
    <2> QED
      BY <1>0, <2>1, <2>2, <2>3, CancelCalls
  <1>5. CASE \/ ActivateRead(g) \/ ActivateFails(g)
             \/ Pick(g) \/ LoopEnds(g) \/ BeginRefused(g) \/ PublishActive(g)
             \/ Spawn(g) \/ SpawnFails(g) \/ ConfirmLaunchFails(g)
             \/ SendCancel(g) \/ WorkerAnswered(g) \/ GiveUp(g) \/ Kill(g)
             \/ DeferReport(g) \/ Heartbeat(g)
             \/ StopBegin(g) \/ StopRead(g) \/ StopJoined(g) \/ StopTimesOut(g)
             \/ Crash(g) \/ StartGui(g)
    BY <1>5, QuietSteps
  <1> QED
    BY <1>1, <1>2, <1>3, <1>4, <1>5 DEF OwnStep

LEMMA StepCalls == BaseInv /\ [Next]_vars => [StoreCall]_storeVars
  <1> SUFFICES ASSUME BaseInv, [Next]_vars PROVE StoreCall \/ UNCHANGED storeVars
    OBVIOUS
  <1>1. CASE Command
    BY <1>1, CommandCalls
  <1>2. ASSUME NEW g \in Guis, ActivateObserve(g) PROVE UNCHANGED storeVars
    BY <1>2 DEF ActivateObserve, ObserveWith
  <1>3. ASSUME NEW f \in workers, WorkerExits(f) PROVE UNCHANGED storeVars
    BY <1>3 DEF WorkerExits
  <1>4. CASE UNCHANGED vars
    BY <1>4 DEF vars
  <1> QED
    BY <1>1, <1>2, <1>3, <1>4, OwnStepCalls DEF Next, GuiStep

LEMMA RuntimesCallTheStore == Spec => CallSpec
  <1>1. Init => StoreInit
    BY DEF Init
  <1> QED
    BY <1>1, StepCalls, Invariance, PTL DEF Spec, CallSpec

\* Lease, status, attempt and queue item agree while instances are started,
\* killed and started again, whatever their threads were about
\* (job_dispatcher.py, job_runtime.py on store.py).
THEOREM RuntimesSlotCoherence == Spec => []SlotCoherence
  BY RuntimesCallTheStore, CallsSlotCoherence, PTL

\* The flags shown beside a status agree with it in the whole system too.
THEOREM RuntimesFlagsMatchStatus == Spec => []FlagsMatchStatus
  BY RuntimesCallTheStore, CallsFlagsMatchStatus, PTL

\* Nothing that instances, their crashes and recoveries do rewrites what has ended.
THEOREM RuntimesHistoryIsLawful == Spec => HistoryIsLawful
  BY RuntimesCallTheStore, CallsHistoryIsLawful, PTL

\* The runtimes around the store give out the heavy slot as FencedSlots does: the
\* abstract specification holds of the whole system, not of its store alone.
THEOREM RuntimesKeepPromise == Spec => KeepsPromise
  BY RuntimesCallTheStore, CallsKeepsPromise, PTL

-------------------------------------------------------------------------------
(* A revision that a thread has read names what it has read *)

\* A row that exists goes on to exist, and whatever changes its status moves its
\* revision on.
RevisionStep(o) ==
    status[o] # "absent" =>
        /\ status'[o] # "absent" /\ revision'[o] >= revision[o]
        /\ revision'[o] = revision[o] => status'[o] = status[o]

LEMMA CallsRecord ==
    ASSUME StoreCall
    PROVE  \/ \E o \in Ops : \E new, newFlag : Record(o, new, newFlag)
           \/ UNCHANGED <<status, revision>>
           \/ \E rank : AcceptBatch(rank)
           \/ \E decisions : Recover(decisions)
  <1> DEFINE Recorded == \E o \in Ops : \E new, newFlag : Record(o, new, newFlag)
  <1>1. ASSUME Create PROVE Recorded \/ \E rank : AcceptBatch(rank)
    BY <1>1 DEF Create, Submit, StartOperation, RetryJob
  <1>2. ASSUME NEW o \in Ops, NEW expected, NEW held,
               CancelJob(o, expected) \/ Revalidated(o, expected) \/ HoldChange(o, held)
        PROVE  Recorded
    BY <1>2 DEF CancelJob, Revalidated, HoldChange
  <1>3. ASSUME NEW expected, NEW target, NEW takes, SetDispatch(expected, target) \/ Reorder(expected, takes)
        PROVE  UNCHANGED <<status, revision>>
    BY <1>3 DEF SetDispatch, Reorder, opVars
  <1>4. ASSUME UserCommand PROVE Recorded \/ UNCHANGED <<status, revision>>
    BY <1>2, <1>3, <1>4 DEF UserCommand, SetHold, SetItemHold
  <1>5. ASSUME OwnerCall PROVE Recorded
    BY <1>5 DEF OwnerCall, BlockJob, BeginAttempt, Transition, RecordLaunch, FinishAttempt,
                FlagUnconfirmed
  <1> QED
    BY <1>1, <1>4, <1>5 DEF StoreCall

LEMMA CallsMoveRevisions ==
    ASSUME StoreInv, [StoreCall]_storeVars, NEW o \in Ops
    PROVE  RevisionStep(o)
  <1> SUFFICES ASSUME status[o] # "absent" PROVE RevisionStep(o)
    BY DEF RevisionStep
  <1>0. TypeOK /\ revision[o] \in Nat
    BY DEF StoreInv, TypeOK
  <1>1. status'[o] # "absent"
    <2>1. MayBecome(o, status'[o])
      BY StepRows DEF StoreInv, RowsStep, RowStep
    <2>2. Kind[o] \in Kinds
      BY SlotType
    <2> QED
      BY <2>1, <2>2, TableFacts DEF MayBecome, Statuses
  <1>2. ASSUME NEW x \in Ops, NEW new, NEW newFlag, Record(x, new, newFlag)
        PROVE  revision'[o] >= revision[o] /\ (revision'[o] = revision[o] => status'[o] = status[o])
    BY <1>0, <1>2 DEF Record, TypeOK
  <1>3. ASSUME UNCHANGED <<status, revision>>
        PROVE  revision'[o] >= revision[o] /\ (revision'[o] = revision[o] => status'[o] = status[o])
    BY <1>0, <1>3
  <1>4. ASSUME NEW rank, AcceptBatch(rank)
        PROVE  revision'[o] >= revision[o] /\ (revision'[o] = revision[o] => status'[o] = status[o])
    <2>1. o \notin DOMAIN rank
      BY <1>4 DEF AcceptBatch
    <2> QED
      BY <1>0, <1>4, <2>1 DEF AcceptBatch
  <1>5. ASSUME NEW decisions, Recover(decisions)
        PROVE  revision'[o] >= revision[o] /\ (revision'[o] = revision[o] => status'[o] = status[o])
    <2>1. CASE o \in Recovered(decisions)
      BY <1>0, <1>5, <2>1 DEF Recover
    <2>2. CASE o \notin Recovered(decisions)
      BY <1>0, <1>5, <2>2 DEF Recover, Recovered
    <2> QED
      BY <2>1, <2>2
  <1>6. UNCHANGED storeVars => UNCHANGED <<status, revision>>
    BY DEF storeVars, opVars
  <1> QED
    BY <1>1, <1>2, <1>3, <1>4, <1>5, <1>6, CallsRecord DEF RevisionStep

\* A thread checks a job that was queued at the revision it has read.
Checks ==
    \A g \in Guis : loop[g].pc = "checking" =>
       /\ loop[g].revision <= revision[loop[g].job]
       /\ status[loop[g].job] # "absent"
       /\ loop[g].revision = revision[loop[g].job] => status[loop[g].job] = "queued"

\* What holds of the store and of the processes.
Sound == BaseInv /\ StoreInv /\ StatusMirrorsFlags

LEMMA ChecksStart ==
    ASSUME Sound, NEW g \in Guis, Pick(g)
    PROVE  /\ loop'[g].revision \in Nat /\ loop'[g].revision = revision'[loop'[g].job]
           /\ status'[loop'[g].job] = "queued"
           /\ \A h \in Guis \ {g} : loop'[h] = loop[h]
           /\ UNCHANGED storeVars
  <1>1. PICK o \in Ops : /\ DispatchGuard(o)
                         /\ Local(g, [Idle EXCEPT !.pc = "checking", !.job = o, !.revision = revision[o]])
    BY DEF Pick
  <1>2. loop \in [Guis -> ThreadTypes]
    BY TypesOf DEF Sound, BaseInv
  <1>3. status[o] = "queued"
    BY <1>1 DEF DispatchGuard, Eligible, Waiting, Sound, StatusMirrorsFlags
  <1>4. loop'[g].job = o /\ loop'[g].revision = revision[o] /\ revision[o] \in Nat
    BY <1>1, <1>2 DEF Local, Idle, Sound, BaseInv, StoreInv, TypeOK
  <1> QED
    BY <1>1, <1>2, <1>3, <1>4 DEF Local, storeVars, opVars

\* The thread of g checks no more, or goes on with the check it made before.
CheckStays(g) ==
    loop'[g].pc = "checking" =>
       /\ loop[g].pc = "checking"
       /\ loop'[g].job = loop[g].job /\ loop'[g].revision = loop[g].revision

\* Only Pick makes a thread check.
LEMMA ChecksGoOn ==
    ASSUME BaseInv, NEW g \in Guis, OwnStep(g), ~Pick(g), NEW h \in Guis
    PROVE  CheckStays(h)
  <1>0. loop \in [Guis -> ThreadTypes] /\ loop[g] \in ThreadTypes
    BY ThreadType, TypesOf DEF BaseInv
  <1>1. CASE UNCHANGED loop
    BY <1>1 DEF CheckStays
  <1>2. ASSUME NEW next, loop' = [loop EXCEPT ![g] = next], next.pc # "checking"
        PROVE  CheckStays(h)
    BY <1>0, <1>2 DEF CheckStays
  <1>3. CASE ActivateCommit(g) \/ LoopEnds(g) \/ PrestartFails(g) \/ BeginRefused(g)
             \/ Flag(g) \/ Finish(g) \/ DeferReport(g) \/ Crash(g)
    BY <1>2, <1>3 DEF ActivateCommit, LoopEnds, PrestartFails, BeginRefused, Flag, Finish,
                      DeferReport, Crash, Local, Commit, Idle, Down
  <1>4. ASSUME NEW pc \in LoopPcs \ {"checking"},
               \/ loop' = [loop EXCEPT ![g] = [loop[g] EXCEPT !.pc = pc]]
               \/ loop' = [loop EXCEPT ![g] = [loop[g] EXCEPT !.pc = pc, !.active = TRUE]]
               \/ \E outcome : loop' = [loop EXCEPT ![g] = [loop[g] EXCEPT !.pc = pc, !.outcome = outcome]]
               \/ loop' = [loop EXCEPT ![g].pc = pc]
        PROVE  CheckStays(h)
    <2>1. h # g => loop'[h] = loop[h]
      BY <1>0, <1>4
    <2>2. loop'[g].pc = pc
      <3>1. PICK next : loop' = [loop EXCEPT ![g] = next] /\ next.pc = pc
        <4>1. /\ [loop[g] EXCEPT !.pc = pc].pc = pc
              /\ [loop[g] EXCEPT !.pc = pc, !.active = TRUE].pc = pc
              /\ \A outcome : [loop[g] EXCEPT !.pc = pc, !.outcome = outcome].pc = pc
          BY <1>0 DEF ThreadTypes
        <4> QED
          BY <1>4, <4>1
      <3> QED
        BY <1>0, <3>1
    <2> QED
      BY <1>4, <2>1, <2>2 DEF CheckStays
  <1>5. CASE PublishActive(g) \/ SpawnFails(g) \/ ConfirmLaunch(g) \/ ConfirmLaunchFails(g)
             \/ WorkerAnswered(g) \/ GiveUp(g) \/ RecordNoWorker(g) \/ Spawn(g) \/ Kill(g)
    <2>1. JobPcs \subseteq LoopPcs \ {"checking"}
      BY DEF LoopPcs, Holding, JobPcs, SetupRun
    <2>2. PublishActive(g) => loop' = [loop EXCEPT ![g] = [loop[g] EXCEPT !.pc = "starting", !.active = TRUE]]
      BY DEF PublishActive, Local
    <2>3. WorkerAnswered(g) =>
             \E outcome : loop' = [loop EXCEPT ![g] = [loop[g] EXCEPT !.pc = "exited", !.outcome = outcome]]
      BY DEF WorkerAnswered, Local
    <2>4. SpawnFails(g) => loop' = [loop EXCEPT ![g] = [loop[g] EXCEPT !.pc = "unstarted"]]
      BY DEF SpawnFails, Local
    <2>5. ConfirmLaunch(g) => loop' = [loop EXCEPT ![g] = [loop[g] EXCEPT !.pc = "executing"]]
      BY DEF ConfirmLaunch, Commit
    <2>6. ConfirmLaunchFails(g) \/ GiveUp(g) => loop' = [loop EXCEPT ![g] = [loop[g] EXCEPT !.pc = "killing"]]
      BY DEF ConfirmLaunchFails, GiveUp, Local
    <2>7. RecordNoWorker(g) => loop' = [loop EXCEPT ![g] = [loop[g] EXCEPT !.pc = "exited"]]
      BY DEF RecordNoWorker, Commit
    <2>8. /\ Spawn(g) => loop' = [loop EXCEPT ![g].pc = "spawned"]
          /\ Kill(g) => loop' = [loop EXCEPT ![g].pc = "exited"]
      BY DEF Spawn, Kill
    <2>9. {"starting", "exited", "unstarted", "executing", "killing", "spawned"} \subseteq JobPcs
      BY DEF JobPcs
    <2> QED
      BY <1>4, <1>5, <2>1, <2>2, <2>3, <2>4, <2>5, <2>6, <2>7, <2>8, <2>9
  <1>6. CASE Begin(g)
    BY <1>0, <1>6 DEF Begin, CheckStays, ThreadTypes
  <1>7. CASE SendCancel(g) \/ Heartbeat(g)
    <2>1. SendCancel(g) => loop'[h] = [loop[h] EXCEPT !.sent = TRUE] \/ loop'[h] = loop[h]
      BY <1>0 DEF SendCancel, Local
    <2>2. Heartbeat(g) => \/ loop'[h] = [loop[h] EXCEPT !.cancel = TRUE]
                          \/ loop'[h] = [loop[h] EXCEPT !.cancel = TRUE, !.lost = TRUE]
                          \/ loop'[h] = loop[h]
      BY <1>0 DEF Heartbeat, Beat, Local
    <2> QED
      BY <1>0, <1>7, <2>1, <2>2 DEF CheckStays, ThreadTypes
  <1>8. CASE StopCancel(g)
    <2>1. PICK cancel : loop' = [loop EXCEPT ![g].cancel = cancel]
      BY <1>8, Zenon DEF StopCancel
    <2> QED
      BY <1>0, <2>1 DEF CheckStays, ThreadTypes
  <1>9. CASE ActivateRead(g) \/ ActivateFails(g) \/ StopBegin(g) \/ StopRead(g) \/ StopJoined(g)
             \/ StopTimesOut(g) \/ StartGui(g)
    BY <1>1, <1>9 DEF ActivateRead, ActivateFails, StopBegin, StopRead, StopJoined, StopTimesOut,
                      StartGui
  <1> QED
    BY <1>3, <1>5, <1>6, <1>7, <1>8, <1>9 DEF OwnStep

\* What a thread checks stays what it is until its revision moves on.
LEMMA ChecksHold ==
    ASSUME Sound, Checks, [StoreCall]_storeVars, NEW h \in Guis, CheckStays(h), loop'[h].pc = "checking"
    PROVE  /\ loop'[h].revision <= revision'[loop'[h].job]
           /\ status'[loop'[h].job] # "absent"
           /\ loop'[h].revision = revision'[loop'[h].job] => status'[loop'[h].job] = "queued"
  <1>1. loop[h].pc = "checking" /\ loop[h].job \in Ops /\ loop[h].revision \in Nat
    BY ThreadType DEF CheckStays, Sound, BaseInv, Threads, ThreadTypes
  <1>2. PICK o \in Ops, read \in Nat : o = loop[h].job /\ read = loop[h].revision
    BY <1>1
  <1>3. loop'[h].job = o /\ loop'[h].revision = read
    BY <1>2 DEF CheckStays
  <1>4. revision[o] \in Nat /\ revision'[o] \in Nat
    BY StepType DEF Sound, StoreInv, TypeOK
  <1>5. read <= revision[o] /\ status[o] # "absent" /\ (read = revision[o] => status[o] = "queued")
    BY <1>1, <1>2 DEF Checks
  <1>6. RevisionStep(o)
    BY CallsMoveRevisions DEF Sound
  <1> QED
    BY <1>3, <1>4, <1>5, <1>6 DEF RevisionStep

LEMMA ChecksStep == Sound /\ Checks /\ [Next]_vars => Checks'
  <1> SUFFICES ASSUME Sound, Checks, [Next]_vars, NEW h \in Guis, loop'[h].pc = "checking"
               PROVE  /\ loop'[h].revision <= revision'[loop'[h].job]
                      /\ status'[loop'[h].job] # "absent"
                      /\ loop'[h].revision = revision'[loop'[h].job] => status'[loop'[h].job] = "queued"
    BY DEF Checks
  <1>1. [StoreCall]_storeVars
    BY StepCalls DEF Sound
  <1>2. CASE UNCHANGED loop
    <2>1. CheckStays(h)
      BY <1>2 DEF CheckStays
    <2> QED
      BY <1>1, <2>1, ChecksHold
  <1>3. ASSUME NEW g \in Guis, OwnStep(g), ~Pick(g) PROVE CheckStays(h)
    BY <1>3, ChecksGoOn DEF Sound
  <1>4. ASSUME NEW g \in Guis, Pick(g), h # g PROVE CheckStays(h)
    BY <1>4, ChecksStart DEF CheckStays
  <1>5. ASSUME Pick(h)
        PROVE  /\ loop'[h].revision <= revision'[loop'[h].job]
               /\ status'[loop'[h].job] # "absent"
               /\ loop'[h].revision = revision'[loop'[h].job] => status'[loop'[h].job] = "queued"
    <2>1. /\ loop'[h].revision \in Nat /\ loop'[h].revision = revision'[loop'[h].job]
          /\ status'[loop'[h].job] = "queued"
      BY <1>5, ChecksStart
    <2> QED
      BY <2>1
  <1>6. ASSUME NEW g \in Guis, ActivateObserve(g) PROVE UNCHANGED loop
    BY <1>6 DEF ActivateObserve, ObserveWith
  <1>7. (Command \/ UNCHANGED vars \/ \E f \in workers : WorkerExits(f)) => UNCHANGED loop
    BY DEF Command, WorkerExits, vars, guiVars
  <1> QED
    BY <1>1, <1>2, <1>3, <1>4, <1>5, <1>6, <1>7, ChecksHold DEF Next, GuiStep, OwnStep

LEMMA SoundHolds == Spec => []Sound
  BY Invariance, RuntimesCallTheStore, CallInvariant, CallsStatusMirrorsFlags, PTL DEF Sound

LEMMA ChecksInvariant == Spec => []Checks
  <1>1. Init => Checks
    BY DEF Init, Checks, Down, Idle
  <1> QED
    BY <1>1, ChecksStep, SoundHolds, PTL DEF Spec

NoHeldBlocked == \A o \in Ops : ~(status[o] = "held" /\ status'[o] = "blocked")

LEMMA RecordBlocksNoHeld ==
    ASSUME TypeOK, NEW x \in Ops, NEW new, NEW newFlag, Record(x, new, newFlag),
           new # "blocked" \/ status[x] # "held"
    PROVE  NoHeldBlocked
  <1> SUFFICES ASSUME NEW o \in Ops PROVE ~(status[o] = "held" /\ status'[o] = "blocked")
    BY DEF NoHeldBlocked
  <1>1. CASE o = x
    BY <1>1, RecordOthers
  <1>2. CASE o # x
    BY <1>2, RecordOthers
  <1> QED
    BY <1>1, <1>2

LEMMA CommandBlocksNoHeld == ASSUME TypeOK, Command PROVE NoHeldBlocked
  <1>1. ASSUME NEW rank, AcceptBatch(rank) PROVE NoHeldBlocked
    <2>1. \A o \in Ops : status'[o] = "queued" \/ status'[o] = status[o]
      BY <1>1 DEF AcceptBatch
    <2> QED
      BY <2>1 DEF NoHeldBlocked
  <1>2. ASSUME NEW o \in Ops, NEW expected, CancelJob(o, expected) PROVE NoHeldBlocked
    BY <1>2, RecordBlocksNoHeld DEF CancelJob
  <1>3. ASSUME NEW o \in Ops, NEW expected, Revalidated(o, expected) PROVE NoHeldBlocked
    <2>1. status[o] # "held"
      BY <1>3 DEF Revalidated
    <2>2. PICK new : Record(o, new, "none")
      BY <1>3 DEF Revalidated
    <2> QED
      BY <2>1, <2>2, RecordBlocksNoHeld
  <1>4. ASSUME NEW o \in Ops, NEW held, HoldChange(o, held) PROVE NoHeldBlocked
    <2>1. PICK new : Record(o, new, "none") /\ new \in {"held", "queued", status[o]}
      BY <1>4 DEF HoldChange
    <2> QED
      BY <2>1, RecordBlocksNoHeld
  <1>5. ASSUME UNCHANGED status PROVE NoHeldBlocked
    BY <1>5 DEF NoHeldBlocked
  <1>6. ASSUME NEW o \in Ops, NEW expected, NEW new, RetryJob(o, expected, new) PROVE NoHeldBlocked
    BY <1>1, <1>6 DEF RetryJob
  <1>7. JobCommand => NoHeldBlocked
    BY <1>1, <1>2, <1>3, <1>6 DEF JobCommand
  <1>8. QueueCommand => NoHeldBlocked
    BY <1>4, <1>5 DEF QueueCommand, SetItemHold, SetDispatch, Reorder, opVars
  <1> QED
    BY <1>7, <1>8 DEF Command

LEMMA OwnStepBlocksNoHeld ==
    ASSUME Sound, Checks, NEW g \in Guis, OwnStep(g)
    PROVE  NoHeldBlocked
  <1>0. BaseInv /\ TypeOK /\ loop[g] \in ThreadTypes
    BY ThreadType, TypesOf DEF Sound, BaseInv
  <1>1. ASSUME UNCHANGED storeVars PROVE NoHeldBlocked
    BY <1>1 DEF NoHeldBlocked, storeVars, opVars
  <1>2. CASE PrestartFails(g)
    <2>1. PICK o \in Ops, read \in Nat : o = loop[g].job /\ read = loop[g].revision
      BY <1>0, <1>2 DEF PrestartFails, BaseInv, Threads, ThreadTypes
    <2>2. CASE BlockJob(o, read)
      <3>1. status[o] = "queued"
        BY <1>2, <2>1, <2>2 DEF Checks, PrestartFails, BlockJob
      <3> QED
        BY <1>0, <2>2, <3>1, RecordBlocksNoHeld DEF BlockJob
    <2> QED
      BY <1>1, <1>2, <2>1, <2>2 DEF PrestartFails
  <1>3. CASE Begin(g)
    <2>1. loop[g].job \in Ops /\ Record(loop[g].job, "running", "none")
      BY <1>0, <1>3 DEF Begin, BeginAttempt, BaseInv, Threads
    <2> QED
      BY <1>0, <2>1, RecordBlocksNoHeld
  <1>4. CASE ConfirmLaunch(g) \/ RecordNoWorker(g) \/ Flag(g) \/ Finish(g)
    <2>1. PICK o, fence : o \in Ops /\ o = loop[g].job /\ fence = loop[g].fence
      BY <1>0, <1>4, HolderFacts DEF ConfirmLaunch, RecordNoWorker, Flag, Finish, Holding, JobPcs
    <2>2. ASSUME NEW outcome, FinishAttempt(o, fence, outcome) PROVE NoHeldBlocked
      <3>1. FinishTarget(o, outcome) # "blocked" /\ Record(o, FinishTarget(o, outcome), "none")
        BY <2>2 DEF FinishAttempt, FinishTarget
      <3> QED
        BY <1>0, <2>1, <3>1, RecordBlocksNoHeld
    <2>3. ASSUME NEW newFlag, Record(o, status[o], newFlag) PROVE NoHeldBlocked
      BY <1>0, <2>1, <2>3, RecordBlocksNoHeld
    <2> QED
      BY <1>1, <1>4, <2>1, <2>2, <2>3
         DEF ConfirmLaunch, RecordNoWorker, Flag, Finish, RecordLaunch, FlagUnconfirmed
  <1>5. CASE ActivateCommit(g)
    <2>1. PICK decisions : Recover(decisions)
      BY <1>5 DEF ActivateCommit
    <2>2. \A o \in Ops : status'[o] \in {status[o], "interrupted", "held"}
      BY <2>1 DEF Recover
    <2> QED
      BY <2>2 DEF NoHeldBlocked
  <1>6. CASE StopCancel(g)
    <2>1. stopper[g].fence \in Fences
      BY <1>0, <1>6 DEF StopCancel, BaseInv, Threads
    <2>2. attempts[stopper[g].fence].op \in Ops
      BY <1>0, <2>1, AttemptType DEF Attempt
    <2>3. Record(attempts[stopper[g].fence].op, "cancelling", "none") \/ UNCHANGED storeVars
      BY <1>6 DEF StopCancel, Transition
    <2> QED
      BY <1>0, <1>1, <2>2, <2>3, RecordBlocksNoHeld
  <1>7. CASE \/ ActivateRead(g) \/ ActivateFails(g)
             \/ Pick(g) \/ LoopEnds(g) \/ BeginRefused(g) \/ PublishActive(g)
             \/ Spawn(g) \/ SpawnFails(g) \/ ConfirmLaunchFails(g)
             \/ SendCancel(g) \/ WorkerAnswered(g) \/ GiveUp(g) \/ Kill(g)
             \/ DeferReport(g) \/ Heartbeat(g)
             \/ StopBegin(g) \/ StopRead(g) \/ StopJoined(g) \/ StopTimesOut(g)
             \/ Crash(g) \/ StartGui(g)
    BY <1>1, <1>7, QuietSteps
  <1> QED
    BY <1>2, <1>3, <1>4, <1>5, <1>6, <1>7 DEF OwnStep

\* A job that the user puts on hold while it is checked is not blocked behind his
\* back: the thread blocks it only at the revision it has read, at which it was
\* queued (job_dispatcher.py run_once; job_repository.py block_job).
THEOREM RuntimesNeverBlockHeld == Spec => NeverBlocksHeld
  <1>1. Sound /\ Checks /\ [Next]_vars => [NoHeldBlocked]_vars
    <2> SUFFICES ASSUME Sound, Checks, Next PROVE NoHeldBlocked
      OBVIOUS
    <2>1. ASSUME UNCHANGED storeVars PROVE NoHeldBlocked
      BY <2>1 DEF NoHeldBlocked, storeVars, opVars
    <2>2. ASSUME NEW g \in Guis, ActivateObserve(g) PROVE UNCHANGED storeVars
      BY <2>2 DEF ActivateObserve, ObserveWith
    <2>3. ASSUME NEW f \in workers, WorkerExits(f) PROVE UNCHANGED storeVars
      BY <2>3 DEF WorkerExits
    <2> QED
      BY <2>1, <2>2, <2>3, OwnStepBlocksNoHeld, CommandBlocksNoHeld DEF Next, GuiStep, Sound, StoreInv
  <1>2. [NoHeldBlocked]_vars <=> [\A o \in Ops : ~(status[o] = "held" /\ status'[o] = "blocked")]_vars
    BY DEF NoHeldBlocked
  <1> QED
    BY <1>1, <1>2, SoundHolds, ChecksInvariant, PTL DEF Spec, NeverBlocksHeld

\* Recovery done once leaves nothing for the same conclusions to change.
LEMMA RecoverSettles ==
    ASSUME TypeOK, LeaseCoherence, QueueShowsStatus, NEW decisions, Recover(decisions)
    PROVE  ~RecoverChanges(decisions)'
  <1>0. TypeOK' /\ Fences' = Fences
    BY RecoverType DEF Fences
  <1>1. dispatch' = "paused"
    BY DEF Recover
  <1>2. RecoveryHeld' = {}
    <2> SUFFICES ASSUME NEW o \in Ops, item'[o].place = "waiting" PROVE item'[o].held
      BY DEF RecoveryHeld, Waiting
    <2>1. item[o] \in Item
      BY DEF TypeOK
    <2>2. CASE o \in Interrupted(decisions)
      BY <2>2 DEF Recover, NoItem
    <2>3. CASE o \notin Interrupted(decisions)
      BY <2>1, <2>3 DEF Recover, RecoveryHeld, Waiting, Item
    <2> QED
      BY <2>2, <2>3
  <1>3. ASSUME NEW o \in Ops, status'[o] \in ACTIVE
        PROVE  /\ o \notin Interrupted(decisions) /\ status[o] \in ACTIVE
               /\ HeldFence(o)' = HeldFence(o) /\ HeldFence(o) # 0
    <2>1. o \notin Interrupted(decisions) /\ status[o] \in ACTIVE
      BY <1>3 DEF Recover, ACTIVE
    <2>2. HeldFence(o) \in Fences /\ lease[Slot(o)] = HeldFence(o) /\ attempts[HeldFence(o)].op = o
      BY <2>1, HeldFenceType DEF LeaseCoherence, ActiveHoldsLease
    <2>3. ~ \E x \in Interrupted(decisions) : lease[Slot(o)] = HeldFence(x)
      BY <2>1, <2>2, HeldFenceType DEF Interrupted, LeaseCoherence, ActiveHoldsLease
    <2>4. lease'[Slot(o)] = HeldFence(o) /\ attempts'[HeldFence(o)] = attempts[HeldFence(o)]
      BY <2>2, <2>3, SlotType DEF Recover
    <2>5. PICK f \in Fences : f = HeldFence(o)
      BY <2>2
    <2>6. lease'[Slot(o)] = f /\ attempts'[f].op = o /\ f \in Fences' /\ f # 0
      BY <1>0, <2>2, <2>4, <2>5 DEF Fences
    <2>7. HeldFence(o)' = f
      BY <2>6 DEF HeldFence, Slot
    <2> QED
      BY <2>1, <2>5, <2>6, <2>7
  <1>4. ASSUME NEW o \in Ops, status'[o] \in ACTIVE
        PROVE  Verdict(o, decisions)' = Verdict(o, decisions)
    BY <1>3, <1>4 DEF Verdict
  <1>5. Interrupted(decisions)' = {}
    BY <1>3, <1>4 DEF Interrupted
  <1>6. Flagged(decisions)' = {}
    <2> SUFFICES ASSUME NEW o \in Ops, status'[o] \in ACTIVE, Verdict(o, decisions) \in RecoveryReasons
                 PROVE  flag'[o] = Verdict(o, decisions)
      BY <1>4 DEF Flagged
    <2>1. o \notin Interrupted(decisions) /\ status[o] \in ACTIVE
      BY <1>3
    <2>2. o \notin RecoveryHeld
      BY <2>1 DEF RecoveryHeld, Waiting, QueueShowsStatus, ACTIVE, WAITING
    <2> QED
      BY <2>1, <2>2 DEF Recover, Flagged
  <1> QED
    BY <1>1, <1>2, <1>5, <1>6 DEF RecoverChanges, RecoverQueueChanged, Recovered

Settled ==
    \A g \in Guis :
       runtime[g].state = "committing" /\ runtime'[g].state = "active"
          => \A decisions \in {DecisionsOf(g)} : ~RecoverChanges(decisions)'

\* The steps of a process that leave its activation alone.
LEMMA RuntimeStays ==
    ASSUME NEW g, OwnStep(g)
    PROVE  \/ ActivateRead(g) \/ ActivateCommit(g) \/ ActivateFails(g) \/ StopJoined(g) \/ Crash(g)
           \/ UNCHANGED runtime
  BY DEF OwnStep, Pick, LoopEnds, PrestartFails, Begin, BeginRefused, PublishActive, Spawn,
         SpawnFails, ConfirmLaunch, ConfirmLaunchFails, SendCancel, WorkerAnswered, GiveUp, Kill,
         RecordNoWorker, Flag, Finish, DeferReport, Heartbeat, Beat, Local, Commit, Stopping,
         StopBegin, StopRead, StopCancel, StopTimesOut, StartGui

LEMMA NextSettles == ASSUME Sound, Next PROVE Settled
  <1> SUFFICES ASSUME NEW g \in Guis, runtime[g].state = "committing", runtime'[g].state = "active",
                      NEW decisions \in {DecisionsOf(g)}
               PROVE  ~RecoverChanges(decisions)'
    BY DEF Settled
  <1>1. runtime \in [Guis -> RuntimeTypes]
    BY TypesOf DEF Sound, BaseInv
  <1>2. ASSUME NEW h \in Guis, ActivateObserve(h) PROVE FALSE
    <2>1. PICK r : runtime' = [runtime EXCEPT ![h] = r] /\ r.state = "committing"
      BY <1>1, <1>2 DEF ActivateObserve, ObserveWith, RuntimeTypes
    <2> QED
      BY <1>1, <2>1
  <1>3. ASSUME UNCHANGED runtime PROVE FALSE
    BY <1>3
  <1>4. ASSUME NEW h \in Guis, NEW r, runtime' = [runtime EXCEPT ![h] = r], r.state # "active" PROVE FALSE
    BY <1>1, <1>4
  <1>5. ASSUME NEW h \in Guis, ActivateCommit(h) PROVE h = g
    BY <1>1, <1>5 DEF ActivateCommit
  <1>6. ASSUME NEW h \in Guis, OwnStep(h), ~ActivateCommit(h) PROVE FALSE
    <2>1. CASE ActivateRead(h) \/ ActivateFails(h) \/ Crash(h)
      <3>1. Inactive.state = "inactive"
        BY DEF Inactive
      <3>2. ASSUME NEW fence, NEW launch
            PROVE  [Inactive EXCEPT !.state = "observing", !.fence = fence, !.launch = launch].state
                      = "observing"
        BY DEF Inactive
      <3>3. CASE ActivateRead(h)
        <4>1. PICK fence, launch :
                 runtime' = [runtime EXCEPT ![h] =
                     [Inactive EXCEPT !.state = "observing", !.fence = fence, !.launch = launch]]
          BY <3>3, Zenon DEF ActivateRead
        <4> QED
          BY <1>4, <3>2, <4>1
      <3> QED
        BY <1>4, <2>1, <3>1, <3>3 DEF ActivateFails, Crash
    <2>2. CASE StopJoined(h)
      BY <1>3, <1>4, <2>2 DEF StopJoined, Inactive
    <2>3. CASE UNCHANGED runtime
      BY <1>3, <2>3
    <2> QED
      BY <1>6, <2>1, <2>2, <2>3, RuntimeStays
  <1>7. ActivateCommit(g)
    BY <1>2, <1>3, <1>5, <1>6 DEF Next, GuiStep, Command, guiVars, WorkerExits
  <1>8. Recover(decisions)
    BY <1>7 DEF ActivateCommit
  <1> QED
    BY <1>8, RecoverSettles DEF Sound, StoreInv

\* recover() is idempotent: repeated at once with what it concluded, it would
\* change nothing, whatever it found (store.py recover).
THEOREM RuntimesRecoverIsIdempotent == Spec => RecoverIsIdempotent
  <1>1. Sound /\ [Next]_vars => [Settled]_vars
    BY NextSettles
  <1>2. [Settled]_vars <=>
           [ \A g \in Guis :
               runtime[g].state = "committing" /\ runtime'[g].state = "active"
                   => \A decisions \in {DecisionsOf(g)} : ~RecoverChanges(decisions)' ]_vars
    BY DEF Settled
  <1> QED
    BY <1>1, <1>2, SoundHolds, PTL DEF Spec, RecoverIsIdempotent
===============================================================================
