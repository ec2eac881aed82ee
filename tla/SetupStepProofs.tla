---------------------------- MODULE SetupStepProofs ----------------------------
(***************************************************************************)
(* Theorems of SetupExecutor about the steps of a setup: in which order    *)
(* they run, under which attempt, and on what evidence a setup succeeds.   *)
(* They hold for any plans, operations and processes, any crashes and any  *)
(* changes of the machine.                                                 *)
(***************************************************************************)
EXTENDS SetupProofs

-------------------------------------------------------------------------------
(* The inductive invariant *)

\* The rows of one operation.  It has a plan once it exists, it has rows for the
\* steps of that plan only, and what the invariants say of the rows.
OpInv(o) ==
    /\ step[o] = [k \in StepKinds |-> [status   |-> step[o][k].status,
                                       evidence |-> step[o][k].evidence,
                                       attempt  |-> step[o][k].attempt]]
    /\ IsSetup(o) <=> Kind[o] = "setup_operation" /\ status[o] # "absent"
    /\ \A k \in StepKinds : step[o][k].status # "none" =>
          IsSetup(o) /\ \E i \in DOMAIN StepsOf(o) : StepsOf(o)[i] = k
    /\ \A k \in StepKinds : step[o][k].status = "running" =>
          status[o] \in ACTIVE \cup {"interrupted", "cancelled"}
    /\ \A k \in StepKinds : step[o][k].status = "running" /\ status[o] \in ACTIVE =>
          \A d \in DependsOn(k) : step[o][d].status # "none" =>
             step[o][d].status \in SATISFIED /\ step[o][d].attempt = step[o][k].attempt
    /\ status[o] = "succeeded" /\ IsSetup(o) =>
          /\ AllSatisfied(o)
          /\ \A k \in StepKinds : step[o][k].status # "none" =>
                \A f \in Fences : attempts[f].op = o => f <= step[o][k].attempt

\* The steps of the plan before the n-th were done by this attempt.
DoneBefore(o, n, fence) ==
    \A i \in DOMAIN StepsOf(o) : i < n =>
        /\ step[o][StepsOf(o)[i]].status \in SATISFIED
        /\ step[o][StepsOf(o)[i]].attempt = fence

\* Those from the n-th on do not run.
QuietFrom(o, n) ==
    \A i \in DOMAIN StepsOf(o) : i >= n => step[o][StepsOf(o)[i]].status # "running"

\* The n-th runs under this attempt.
RunsAt(o, n, fence) ==
    /\ n \in DOMAIN StepsOf(o)
    /\ step[o][StepsOf(o)[n]].status = "running"
    /\ step[o][StepsOf(o)[n]].attempt = fence

\* All the rows were written by this attempt.
AllBy(o, fence) ==
    \A k \in StepKinds : step[o][k].status # "none" => step[o][k].attempt = fence

\* A thread between two steps of its plan, and in one.
Between == {"boundary", "stepping"}
AtStep  == {"working", "intending", "launching", "launched", "waiting"}

\* How far the thread has come.
RunInv(g) ==
    /\ exec[g] = [seen  |-> exec[g].seen,  index |-> exec[g].index,
                  phase |-> exec[g].phase, exit  |-> exec[g].exit]
    /\ exec[g].index \in Nat \ {0}
    /\ loop[g].pc = "resetting" => exec[g].index = 1
    /\ loop[g].pc \in Between \cup AtStep => DoneBefore(loop[g].job, exec[g].index, loop[g].fence)
    /\ loop[g].pc \in Between => QuietFrom(loop[g].job, exec[g].index)
    /\ loop[g].pc = "stepping" => exec[g].index \in DOMAIN StepsOf(loop[g].job)
    /\ loop[g].pc \in AtStep => /\ RunsAt(loop[g].job, exec[g].index, loop[g].fence)
                                /\ QuietFrom(loop[g].job, exec[g].index + 1)
    /\ loop[g].pc = "closing" /\ loop[g].outcome = "succeeded" => AllBy(loop[g].job, loop[g].fence)

StepsInv ==
    /\ step = [o \in Ops |-> step[o]]
    /\ exec = [g \in Guis |-> exec[g]]
    /\ \A o \in Ops : OpInv(o)
    /\ \A g \in Guis : RunInv(g)
    /\ lease["heavy"] \in {0, Len(attempts)}

\* What all steps rely on.
Standing == BaseInv /\ SetupInv /\ StepsInv

-------------------------------------------------------------------------------
(* Plans *)

\* The steps of a plan are distinct, and each comes after those it depends on.
InOrder(s) ==
    /\ DOMAIN s = 1..Len(s) /\ Len(s) \in Nat
    /\ \A i \in DOMAIN s : s[i] \in StepKinds
    /\ \A i, j \in DOMAIN s : s[i] = s[j] => i = j
    /\ \A i, j \in DOMAIN s : s[j] \in DependsOn(s[i]) => j < i

LEMMA Joined ==
    ASSUME NEW S, NEW s \in Seq(S), NEW t \in Seq(S), NEW u \in Seq(S),
           Len(u) = Len(s) + Len(t),
           \A i \in 1..Len(s) : u[i] = s[i],
           \A i \in 1..Len(t) : u[Len(s) + i] = t[i]
    PROVE  s \o t = u
  <1>1. \A i \in 1..Len(u) : (s \o t)[i] = u[i]
    <2> TAKE i \in 1..Len(u)
    <2>1. CASE i <= Len(s)
      BY <2>1, ConcatProperties
    <2>2. CASE i > Len(s)
      <3>1. i - Len(s) \in 1..Len(t) /\ i = Len(s) + (i - Len(s))
        BY <2>2
      <3> QED
        BY <2>2, <3>1, ConcatProperties
    <2> QED
      BY <2>1, <2>2
  <1>2. s \o t \in Seq(S) /\ Len(s \o t) = Len(u)
    BY ConcatProperties
  <1> QED
    BY <1>1, <1>2, SeqEqual

LEMMA OneAndOne ==
    ASSUME NEW S, NEW a \in S, NEW b \in S PROVE <<a>> \o <<b>> = <<a, b>>
  <1> DEFINE s == <<a>>
             t == <<b>>
             u == <<a, b>>
  <1>1. s \in Seq(S) /\ t \in Seq(S) /\ u \in Seq(S)
    OBVIOUS
  <1>2. Len(s) = 1 /\ Len(t) = 1 /\ Len(u) = 2
    OBVIOUS
  <1>3. s[1] = u[1] /\ t[1] = u[2]
    OBVIOUS
  <1> HIDE DEF s, t, u
  <1>4. Len(u) = Len(s) + Len(t)
    BY <1>2
  <1>5. \A i \in 1..Len(s) : u[i] = s[i]
    <2> TAKE i \in 1..Len(s)
    <2>1. i = 1
      BY <1>2
    <2> QED
      BY <1>3, <2>1
  <1>6. \A i \in 1..Len(t) : u[Len(s) + i] = t[i]
    <2> TAKE i \in 1..Len(t)
    <2>1. i = 1
      BY <1>2
    <2> QED
      BY <1>2, <1>3, <2>1
  <1>7. s \o t = u
    BY <1>1, <1>4, <1>5, <1>6, Joined, Zenon
  <1> QED
    BY <1>7 DEF s, t, u

LEMMA OneAndTwo ==
    ASSUME NEW S, NEW a \in S, NEW b \in S, NEW c \in S PROVE <<a>> \o <<b, c>> = <<a, b, c>>
  <1> DEFINE s == <<a>>
             t == <<b, c>>
             u == <<a, b, c>>
  <1>1. s \in Seq(S) /\ t \in Seq(S) /\ u \in Seq(S)
    OBVIOUS
  <1>2. Len(s) = 1 /\ Len(t) = 2 /\ Len(u) = 3
    OBVIOUS
  <1>3. s[1] = u[1] /\ t[1] = u[2] /\ t[2] = u[3]
    OBVIOUS
  <1> HIDE DEF s, t, u
  <1>4. Len(u) = Len(s) + Len(t)
    BY <1>2
  <1>5. \A i \in 1..Len(s) : u[i] = s[i]
    <2> TAKE i \in 1..Len(s)
    <2>1. i = 1
      BY <1>2
    <2> QED
      BY <1>3, <2>1
  <1>6. \A i \in 1..Len(t) : u[Len(s) + i] = t[i]
    <2> TAKE i \in 1..Len(t)
    <2>1. i = 1 \/ i = 2
      BY <1>2
    <2> QED
      BY <1>2, <1>3, <2>1
  <1>7. s \o t = u
    BY <1>1, <1>4, <1>5, <1>6, Joined, Zenon
  <1> QED
    BY <1>7 DEF s, t, u

LEMMA TwoAndTwo ==
    ASSUME NEW S, NEW a \in S, NEW b \in S, NEW c \in S, NEW d \in S PROVE <<a, b>> \o <<c, d>> = <<a, b, c, d>>
  <1> DEFINE s == <<a, b>>
             t == <<c, d>>
             u == <<a, b, c, d>>
  <1>1. s \in Seq(S) /\ t \in Seq(S) /\ u \in Seq(S)
    OBVIOUS
  <1>2. Len(s) = 2 /\ Len(t) = 2 /\ Len(u) = 4
    OBVIOUS
  <1>3. s[1] = u[1] /\ s[2] = u[2] /\ t[1] = u[3] /\ t[2] = u[4]
    OBVIOUS
  <1> HIDE DEF s, t, u
  <1>4. Len(u) = Len(s) + Len(t)
    BY <1>2
  <1>5. \A i \in 1..Len(s) : u[i] = s[i]
    <2> TAKE i \in 1..Len(s)
    <2>1. i = 1 \/ i = 2
      BY <1>2
    <2> QED
      BY <1>3, <2>1
  <1>6. \A i \in 1..Len(t) : u[Len(s) + i] = t[i]
    <2> TAKE i \in 1..Len(t)
    <2>1. i = 1 \/ i = 2
      BY <1>2
    <2> QED
      BY <1>2, <1>3, <2>1
  <1>7. s \o t = u
    BY <1>1, <1>4, <1>5, <1>6, Joined, Zenon
  <1> QED
    BY <1>7 DEF s, t, u

LEMMA PlanTuples ==
    ASSUME NEW m
    PROVE  PlanSteps(m) \in {<<"model_download", "smoke">>,
                             <<"venv_sync", "model_download", "smoke">>,
                             <<"credential_preflight", "model_download", "smoke">>,
                             <<"venv_sync", "credential_preflight", "model_download", "smoke">>}
  <1>0. /\ "venv_sync" \in StepKinds /\ "credential_preflight" \in StepKinds
        /\ "model_download" \in StepKinds /\ "smoke" \in StepKinds
    BY DEF StepKinds
  <1>1. /\ <<>> \o <<"credential_preflight">> = <<"credential_preflight">>
        /\ <<>> \o <<>> = <<>>
        /\ <<"venv_sync">> \o <<>> = <<"venv_sync">>
        /\ <<>> \o <<"model_download", "smoke">> = <<"model_download", "smoke">>
    OBVIOUS
  <1>2. <<"credential_preflight">> \o <<"model_download", "smoke">>
           = <<"credential_preflight", "model_download", "smoke">>
    BY <1>0, OneAndTwo
  <1>3. <<"venv_sync">> \o <<"model_download", "smoke">>
           = <<"venv_sync", "model_download", "smoke">>
    BY <1>0, OneAndTwo
  <1>4. <<"venv_sync">> \o <<"credential_preflight">> = <<"venv_sync", "credential_preflight">>
    BY <1>0, OneAndOne
  <1>5. <<"venv_sync", "credential_preflight">> \o <<"model_download", "smoke">>
           = <<"venv_sync", "credential_preflight", "model_download", "smoke">>
    BY <1>0, TwoAndTwo
  <1>6. CASE m.profile = "ok" /\ Gated
    BY <1>1, <1>2, <1>6 DEF PlanSteps
  <1>7. CASE m.profile = "ok" /\ ~Gated
    BY <1>1, <1>7 DEF PlanSteps
  <1>8. CASE m.profile # "ok" /\ Gated
    BY <1>4, <1>5, <1>8 DEF PlanSteps
  <1>9. CASE m.profile # "ok" /\ ~Gated
    BY <1>1, <1>3, <1>9 DEF PlanSteps
  <1> QED
    BY <1>6, <1>7, <1>8, <1>9

LEMMA PlanOrder ==
    ASSUME NEW s \in {<<>>} \cup {PlanSteps(m) : m \in MachineTypes}
    PROVE  InOrder(s)
  <1>1. InOrder(<<>>)
    BY DEF InOrder
  <1>2. InOrder(<<"model_download", "smoke">>)
    BY DEF InOrder, StepKinds, DependsOn
  <1>3. InOrder(<<"venv_sync", "model_download", "smoke">>)
    BY DEF InOrder, StepKinds, DependsOn
  <1>4. InOrder(<<"credential_preflight", "model_download", "smoke">>)
    BY DEF InOrder, StepKinds, DependsOn
  <1>5. InOrder(<<"venv_sync", "credential_preflight", "model_download", "smoke">>)
    BY DEF InOrder, StepKinds, DependsOn
  <1> QED
    BY <1>1, <1>2, <1>3, <1>4, <1>5, PlanTuples

\* The plan of an operation that exists.
LEMMA PlanOf ==
    ASSUME Shapes, LinksAreOfOperations, NEW o \in Ops, IsSetup(o) PROVE InOrder(StepsOf(o))
  <1>1. link[o].plan \in Plans
    BY DEF LinksAreOfOperations
  <1>2. StepsOf(o) \in {<<>>} \cup {PlanSteps(m) : m \in MachineTypes}
    BY <1>1 DEF StepsOf, Shapes, PlanTypes
  <1> QED
    BY <1>2, PlanOrder

-------------------------------------------------------------------------------
(* The journal: it only grows, and the attempt it grows by takes the slot *)

Granted ==
    /\ SlotMoves
    /\ Fences \subseteq Fences'
    /\ \A f \in Fences : attempts'[f].op = attempts[f].op

LEMMA KeptIsGranted ==
    ASSUME JournalKept, lease'["heavy"] \in {0, lease["heavy"]} PROVE Granted
  BY DEF JournalKept, Granted, SlotMoves, Fences

LEMMA SetupStepGrants == ASSUME BaseInv, SetupStep PROVE Granted
  <1> USE KeptIsGranted
  <1>0. TypeOK /\ LeaseCoherence
    BY TypesOf DEF BaseInv
  <1>1. PICK g \in Guis : \/ SetupThread(g) \/ ChildUnconfirmed(g) \/ BookkeepingFails(g)
                          \/ DeferSetup(g) \/ SetupHeartbeat(g) \/ SetupStopTimesOut(g)
    BY DEF SetupStep
  <1>2. CASE UNCHANGED <<attempts, lease>>
    BY <1>2 DEF JournalKept
  <1>3. ASSUME loop[g].pc \in SetupRun
        PROVE  /\ loop[g].job \in Ops /\ Kind[loop[g].job] = "setup_operation"
               /\ loop[g].fence \in Fences
    BY <1>3, HolderFacts DEF Holding
  <1>4. CASE \/ PickSetup(g) \/ ObservePlan(g) \/ BeginSetupRefused(g) \/ PublishRun(g)
             \/ Boundary(g) \/ StepRefused(g) \/ ChildBoundary(g) \/ ChildEnded(g)
             \/ ChildUnconfirmed(g) \/ BookkeepingFails(g) \/ DeferSetup(g)
    <2>1. \E next, x : SetupLocal(g, next, x)
      BY <1>4 DEF PickSetup, ObservePlan, BeginSetupRefused, PublishRun, Boundary, StepRefused,
                  ChildBoundary, ChildEnded, ChildUnconfirmed, BookkeepingFails, DeferSetup, Close
    <2> QED
      BY <1>2, <2>1 DEF SetupLocal, Local, storeVars
  <1>5. CASE SpawnChild(g) \/ KillChild(g) \/ SetupHeartbeat(g) \/ SetupStopTimesOut(g) \/ Reset(g)
    BY <1>2, <1>5 DEF SpawnChild, KillChild, SetupHeartbeat, SetupStopTimesOut, Beat, Local, Reset,
                      ResetSteps, storeVars
  <1>6. CASE StartStep(g) \/ FinishStep(g)
    BY <1>2, <1>6 DEF StartStep, FinishStep, StepStarted, StepFinished
  <1>7. CASE Intend(g) \/ SpawnChildFails(g) \/ ConfirmChild(g)
    <2>1. /\ loop[g].pc \in SetupRun /\ UNCHANGED <<opVars, queueVars, lease, known, results>>
          /\ \E outcome \in {"intended", "confirmed", "failed"} :
                attempts' = [attempts EXCEPT ![loop[g].fence].launch = outcome]
      BY <1>7 DEF Intend, SpawnChildFails, ConfirmChild, ChildIntent, StepLaunched, SetupRun, Fence
    <2>2. lease' = lease /\ Len(attempts') = Len(attempts)
          /\ \A f \in Fences : attempts'[f].op = attempts[f].op
      BY <1>0, <1>3, <2>1, LaunchKeeps
    <2> QED
      BY <2>2 DEF Granted, SlotMoves, Fences
  <1>8. CASE BeginSetup(g)
    <2>1. /\ loop[g].job \in Ops /\ Queued(loop[g].job)
          /\ BeginAttempt(loop[g].job, loop[g].revision)
      BY <1>8, KindIsQueued DEF BeginSetup, BaseInv, Threads, Job
    <2>2. /\ Len(attempts') = Len(attempts) + 1 /\ lease'["heavy"] = Len(attempts) + 1
          /\ \A f \in Fences : attempts'[f] = attempts[f]
      BY <1>0, <2>1, BeginTakes
    <2>3. Len(attempts) \in Nat
      BY <1>0 DEF TypeOK
    <2> QED
      BY <2>2, <2>3 DEF Granted, SlotMoves, Fences
  <1>9. CASE WaitOutdated(g) \/ Report(g)
    <2>1. loop[g].pc \in SetupRun
      BY <1>9 DEF WaitOutdated, Report, SetupRun
    <2>2. \/ \E seen : SetupWait(loop[g].job, loop[g].fence, seen)
          \/ \E outcome, seen : FinishSetup(loop[g].job, loop[g].fence, outcome, seen)
          \/ FlagUnconfirmed(loop[g].job, loop[g].fence) \/ UNCHANGED <<attempts, lease>>
      BY <1>9 DEF WaitOutdated, Report, FlagSetupUnconfirmed, Job, Fence, storeVars
    <2> QED
      BY <1>0, <1>2, <1>3, <2>1, <2>2, WaitFrees, FinishSetupFrees, FlagKeeps
  <1> QED
    BY <1>1, <1>4, <1>5, <1>6, <1>7, <1>8, <1>9 DEF SetupThread

LEMMA StepGrants == ASSUME BaseInv, [ExecutorNext]_allVars PROVE Granted
  <1>0. TypeOK /\ LeaseCoherence
    BY TypesOf DEF BaseInv
  <1>1. ASSUME UNCHANGED storeVars PROVE Granted
    BY <1>1, StoreStutters, KeptIsGranted DEF storeVars
  <1>2. CASE ServedCommand
    BY <1>0, <1>2, SetupCommandKeeps, KeptIsGranted DEF ServedCommand
  <1>3. CASE World \/ UNCHANGED allVars
    <2>1. UNCHANGED storeVars
      BY <1>3 DEF World, Drift, ChildWorks, ChildExits, DescendantsExit, WorkerExits, allVars, vars
    <2> QED
      BY <1>1, <2>1
  <1>4. CASE ProcessStep
    <2>1. SlotMoves
      BY <1>4, ProcessRows
    <2>2. CASE Command
      BY <1>0, <2>2, CommandKeeps, KeptIsGranted
    <2>3. CASE \E g \in Guis : OwnStep(g)
      BY <2>1, <2>3, OwnStepStays DEF Granted, SetupJournalStays
    <2>4. CASE (\E g \in Guis : ObserveChild(g)) \/ (\E f : WorkerExits(f))
      BY <1>1, <2>4 DEF ObserveChild, ObserveWith, WorkerExits
    <2> QED
      BY <1>4, <2>2, <2>3, <2>4 DEF ProcessStep
  <1> QED
    BY <1>2, <1>3, <1>4, SetupStepGrants DEF ExecutorNext

\* The heavy slot is held by the latest attempt.
LEMMA LastHolds ==
    ASSUME BaseInv, Granted, lease["heavy"] \in {0, Len(attempts)}
    PROVE  lease'["heavy"] \in {0, Len(attempts')}
  BY DEF Granted, SlotMoves

-------------------------------------------------------------------------------
(* Rows and runs that a step leaves alone *)

\* What the status of a setup may become while its rows stay.
StatusMoves(o) ==
    \/ status'[o] = status[o]
    \/ status[o] = "running" /\ status'[o] = "cancelling"
    \/ status[o] \in ACTIVE /\ status'[o] = "interrupted"
    \/ status[o] = "queued" /\ status'[o] = "running"
    \/ status[o] \in {"queued", "waiting_user", "interrupted"} /\ status'[o] = "cancelled"

\* The plan of a setup is not replaced.
PlanStays(o) ==
    /\ link'[o] = link[o]
    /\ IsSetup(o) => plan'[link[o].plan].steps = plan[link[o].plan].steps

LEMMA OpStays ==
    ASSUME BaseInv', Granted, NEW o \in Ops, OpInv(o), PlanStays(o), step'[o] = step[o],
           Kind[o] = "setup_operation" => StatusMoves(o)
    PROVE  OpInv(o)'
  <1>1. IsSetup(o)' <=> IsSetup(o)
    BY DEF PlanStays, IsSetup
  <1>2. Kind[o] = "setup_operation" => (status'[o] = "absent" <=> status[o] = "absent")
    BY DEF StatusMoves, ACTIVE
  <1>3. IsSetup(o) => StepsOf(o)' = StepsOf(o) /\ Kind[o] = "setup_operation"
    BY DEF PlanStays, StepsOf, OpInv
  <1>4. \A k \in StepKinds : step[o][k].status # "none" =>
          IsSetup(o) /\ \E i \in DOMAIN StepsOf(o) : StepsOf(o)[i] = k
    BY DEF OpInv
  <1>5. \A k \in StepKinds : step'[o][k].status = "running" =>
          /\ status'[o] \in ACTIVE \cup {"interrupted", "cancelled"}
          /\ status'[o] \in ACTIVE => status[o] \in ACTIVE
    BY <1>3, <1>4 DEF OpInv, StatusMoves, ACTIVE
  <1>6. ASSUME status'[o] = "succeeded", IsSetup(o)
        PROVE  /\ AllSatisfied(o)'
               /\ \A k \in StepKinds : step'[o][k].status # "none" =>
                     \A f \in Fences' : attempts'[f].op = o => f <= step'[o][k].attempt
    <2>1. status[o] = "succeeded"
      BY <1>3, <1>6 DEF StatusMoves
    <2>2. AllSatisfied(o)'
      BY <1>6, <2>1 DEF OpInv, AllSatisfied
    <2>3. \A f \in Fences' : attempts'[f].op = o => f \in Fences
      <3> SUFFICES ASSUME NEW f \in Fences', attempts'[f].op = o, f \notin Fences PROVE FALSE
        OBVIOUS
      <3>1. lease'["heavy"] = f
        BY DEF Granted, SlotMoves, Fences
      <3>2. status'[o] \in ACTIVE
        BY <3>1, SlotIsHeavy DEF BaseInv, LeaseCoherence, LeaseHolderIsActive, Fences
      <3> QED
        BY <1>6, <3>2 DEF ACTIVE
    <2> QED
      BY <1>6, <2>1, <2>2, <2>3 DEF OpInv, Granted
  <1> QED
    BY <1>1, <1>2, <1>3, <1>4, <1>5, <1>6 DEF OpInv

LEMMA RunStays ==
    ASSUME NEW g \in Guis, RunInv(g), exec'[g] = exec[g],
           loop'[g].pc = loop[g].pc, loop'[g].job = loop[g].job, loop'[g].fence = loop[g].fence,
           loop'[g].outcome = loop[g].outcome,
           loop[g].pc \in SetupRun => /\ step'[loop[g].job] = step[loop[g].job]
                                      /\ IsSetup(loop[g].job) /\ PlanStays(loop[g].job)
    PROVE  RunInv(g)'
  <1>1. CASE loop[g].pc \notin SetupRun
    BY <1>1 DEF RunInv, SetupRun, Between, AtStep
  <1>2. CASE loop[g].pc \in SetupRun
    <2> DEFINE o == loop[g].job
               n == exec[g].index
               f == loop[g].fence
    <2>1. StepsOf(o)' = StepsOf(o) /\ step'[o] = step[o]
      BY <1>2 DEF StepsOf, PlanStays
    <2>2. o' = o /\ n' = n /\ f' = f
      OBVIOUS
    <2>3. /\ DoneBefore(o, n, f) => DoneBefore(o, n, f)'
          /\ QuietFrom(o, n) => QuietFrom(o, n)'
          /\ QuietFrom(o, n + 1) => QuietFrom(o, n + 1)'
          /\ RunsAt(o, n, f) => RunsAt(o, n, f)'
          /\ AllBy(o, f) => AllBy(o, f)'
      BY <2>1, <2>2 DEF DoneBefore, QuietFrom, RunsAt, AllBy
    <2> QED
      BY <2>1, <2>2, <2>3 DEF RunInv
  <1> QED
    BY <1>1, <1>2

LEMMA RunIsSetup ==
    ASSUME Standing, NEW g \in Guis, loop[g].pc \in SetupRun
    PROVE  /\ loop[g].job \in Ops /\ IsSetup(loop[g].job) /\ InOrder(StepsOf(loop[g].job))
           /\ lease["heavy"] = loop[g].fence /\ loop[g].fence \in Fences
           /\ Kind[loop[g].job] = "setup_operation" /\ status[loop[g].job] \in ACTIVE
           /\ attempts[loop[g].fence].op = loop[g].job
           /\ \A h \in Guis \ {g} : loop[h].pc \notin SetupRun
  <1>1. /\ loop[g].job \in Ops /\ Kind[loop[g].job] = "setup_operation"
        /\ lease["heavy"] = loop[g].fence /\ loop[g].fence # 0 /\ loop[g].fence \in Fences
        /\ attempts[loop[g].fence].op = loop[g].job
        /\ \A h \in Guis \ {g} : loop[h].pc \notin SetupRun
    BY HolderFacts DEF Standing, Holding
  <1>2. status[loop[g].job] \in ACTIVE
    BY <1>1, SlotIsHeavy DEF Standing, BaseInv, LeaseCoherence, LeaseHolderIsActive
  <1>3. IsSetup(loop[g].job)
    BY <1>1, <1>2 DEF Standing, StepsInv, OpInv, ACTIVE
  <1> QED
    BY <1>1, <1>2, <1>3, PlanOf DEF Standing, SetupInv

\* A thread outside a run knows of no step.
LEMMA Aside ==
    ASSUME NEW g \in Guis, loop'[g].pc \notin SetupRun \/ loop'[g].pc \in {"begun", "outdated"},
           exec'[g] = [seen  |-> exec'[g].seen,  index |-> exec'[g].index,
                       phase |-> exec'[g].phase, exit  |-> exec'[g].exit],
           exec'[g].index \in Nat \ {0}
    PROVE  RunInv(g)'
  BY DEF RunInv, SetupRun, Between, AtStep

LEMMA PlansStay ==
    ASSUME UNCHANGED <<plan, link>> PROVE \A o \in Ops : PlanStays(o)
  BY DEF PlanStays

LEMMA NoRunShape ==
    /\ NoRun = [seen |-> NoRun.seen, index |-> NoRun.index, phase |-> NoRun.phase, exit |-> NoRun.exit]
    /\ NoRun.index = 1
  BY DEF NoRun

LEMMA ProcessesKeepSteps ==
    ASSUME Standing, BaseInv', ProcessStep PROVE StepsInv'
  <1>0. /\ UNCHANGED setupVars
        /\ exec' = [g \in Guis |-> IF g \in up' THEN exec[g] ELSE NoRun]
        /\ [ExecutorNext]_allVars
    BY DEF ProcessStep, ExecutorNext
  <1>1. Granted /\ SetupRowsStay
    BY <1>0, StepGrants, ProcessRows DEF Standing
  <1>2. \A o \in Ops : OpInv(o)'
    BY <1>0, <1>1, OpStays, PlansStay DEF Standing, StepsInv, setupVars, SetupRowsStay, StatusMoves
  <1>3. SetupThreadsStay
    <2>1. CASE loop' = loop
      BY <2>1 DEF SetupThreadsStay
    <2>2. CASE \E g \in Guis : OwnStep(g)
      BY <2>2, OwnStepStays DEF Standing
    <2>3. CASE Command \/ (\E g \in Guis : ObserveChild(g)) \/ (\E f : WorkerExits(f))
      <3>1. loop' = loop
        BY <2>3 DEF Command, ObserveChild, ObserveWith, WorkerExits, guiVars
      <3> QED
        BY <2>1, <3>1
    <2> QED
      BY <2>2, <2>3 DEF ProcessStep
  <1>4. ASSUME NEW g \in Guis PROVE RunInv(g)'
    <2>1. CASE loop'[g].pc \in SetupPcs
      <3>1. /\ loop'[g].pc = loop[g].pc /\ loop'[g].fence = loop[g].fence
            /\ loop'[g].job = loop[g].job /\ loop'[g].outcome = loop[g].outcome
        BY <1>3, <2>1 DEF SetupThreadsStay
      <3>2. g \in up'
        <4>1. loop'[g].pc # "down"
          BY <2>1 DEF SetupPcs, SetupRun
        <4> QED
          BY <4>1 DEF BaseInv, Threads
      <3>3. exec'[g] = exec[g]
        BY <1>0, <3>2
      <3>4. loop[g].pc \in SetupRun => loop[g].job \in Ops /\ IsSetup(loop[g].job)
        BY RunIsSetup
      <3> QED
        BY <1>0, <3>1, <3>3, <3>4, RunStays, PlansStay DEF Standing, StepsInv, setupVars
    <2>2. CASE loop'[g].pc \notin SetupPcs
      <3>1. exec'[g] = exec[g] \/ exec'[g] = NoRun
        BY <1>0
      <3>2. /\ exec[g] = [seen |-> exec[g].seen, index |-> exec[g].index,
                          phase |-> exec[g].phase, exit |-> exec[g].exit]
            /\ exec[g].index \in Nat \ {0}
        BY DEF Standing, StepsInv, RunInv
      <3> QED
        BY <2>2, <3>1, <3>2, Aside, NoRunShape DEF SetupPcs
    <2> QED
      BY <2>1, <2>2
  <1>5. step' = [o \in Ops |-> step'[o]] /\ exec' = [g \in Guis |-> exec'[g]]
    BY <1>0 DEF Standing, StepsInv, setupVars
  <1> QED
    BY <1>1, <1>2, <1>4, <1>5, LastHolds DEF Standing, StepsInv

LEMMA WorldKeepsSteps ==
    ASSUME Standing, BaseInv', World \/ UNCHANGED allVars PROVE StepsInv'
  <1>0. UNCHANGED <<storeVars, setupVars, loop, exec>> /\ [ExecutorNext]_allVars
    BY DEF World, Drift, ChildWorks, ChildExits, DescendantsExit, WorkerExits, allVars, vars,
           guiVars, ExecutorNext
  <1>1. Granted
    BY <1>0, StepGrants DEF Standing
  <1>2. \A o \in Ops : OpInv(o)'
    BY <1>0, <1>1, OpStays, PlansStay DEF Standing, StepsInv, setupVars, storeVars, opVars, StatusMoves
  <1>3. \A g \in Guis : RunInv(g)'
    <2> TAKE g \in Guis
    <2>1. loop[g].pc \in SetupRun => loop[g].job \in Ops /\ IsSetup(loop[g].job)
      BY RunIsSetup
    <2> QED
      BY <1>0, <2>1, RunStays, PlansStay DEF Standing, StepsInv, setupVars
  <1> QED
    BY <1>0, <1>1, <1>2, <1>3, LastHolds DEF Standing, StepsInv, setupVars

-------------------------------------------------------------------------------
(* Rows as records *)

LEMMA RowFields ==
    ASSUME NEW r, NEW a, NEW b, NEW c, r = [status |-> a, evidence |-> b, attempt |-> c]
    PROVE  /\ r.status = a /\ r.evidence = b /\ r.attempt = c
           /\ r = [status |-> r.status, evidence |-> r.evidence, attempt |-> r.attempt]
  <1>1. r.status = a /\ r.evidence = b /\ r.attempt = c
    OBVIOUS
  <1> QED
    BY <1>1

LEMMA RowUpdate ==
    ASSUME NEW r, NEW s, NEW e,
           r = [status |-> r.status, evidence |-> r.evidence, attempt |-> r.attempt]
    PROVE  /\ [r EXCEPT !.status = s] = [status |-> s, evidence |-> r.evidence, attempt |-> r.attempt]
           /\ [r EXCEPT !.status = s, !.evidence = e]
                 = [status |-> s, evidence |-> e, attempt |-> r.attempt]
  <1>1. PICK a, b, c : r = [status |-> a, evidence |-> b, attempt |-> c]
    OBVIOUS
  <1>2. r.status = a /\ r.evidence = b /\ r.attempt = c
    BY <1>1
  <1>3. [[status |-> a, evidence |-> b, attempt |-> c] EXCEPT !.status = s]
           = [status |-> s, evidence |-> b, attempt |-> c]
    OBVIOUS
  <1>4. [[status |-> s, evidence |-> b, attempt |-> c] EXCEPT !.evidence = e]
           = [status |-> s, evidence |-> e, attempt |-> c]
    OBVIOUS
  <1>5. [r EXCEPT !.status = s, !.evidence = e] = [[r EXCEPT !.status = s] EXCEPT !.evidence = e]
    OBVIOUS
  <1>6. [r EXCEPT !.status = s] = [status |-> s, evidence |-> b, attempt |-> c]
    BY <1>1, <1>3, Zenon
  <1>7. [r EXCEPT !.status = s, !.evidence = e] = [status |-> s, evidence |-> e, attempt |-> c]
    BY <1>4, <1>5, <1>6, Zenon
  <1> QED
    BY <1>2, <1>6, <1>7

\* reset_steps, resume
LEMMA RowForgotten ==
    ASSUME NEW r, r = [status |-> r.status, evidence |-> r.evidence, attempt |-> r.attempt]
    PROVE  [r EXCEPT !.status = "pending", !.evidence = FALSE]
              = [status |-> "pending", evidence |-> FALSE, attempt |-> r.attempt]
  <1>1. \A s, e : [r EXCEPT !.status = s, !.evidence = e]
                     = [status |-> s, evidence |-> e, attempt |-> r.attempt]
    BY RowUpdate
  <1> QED
    BY <1>1, Zenon

LEMMA RowConstants ==
    /\ NoStep = [status |-> "none", evidence |-> FALSE, attempt |-> 0]
    /\ Pending = [status |-> "pending", evidence |-> FALSE, attempt |-> 0]
  <1>1. NoStep = [status |-> "none", evidence |-> FALSE, attempt |-> 0]
    BY DEF NoStep
  <1>2. /\ NoStep.status = "none" /\ NoStep.evidence = FALSE /\ NoStep.attempt = 0
        /\ NoStep = [status |-> NoStep.status, evidence |-> NoStep.evidence, attempt |-> NoStep.attempt]
    BY <1>1, RowFields
  <1>3. [NoStep EXCEPT !.status = "pending"]
           = [status |-> "pending", evidence |-> NoStep.evidence, attempt |-> NoStep.attempt]
    BY <1>2, RowUpdate
  <1> QED
    BY <1>1, <1>2, <1>3 DEF Pending

-------------------------------------------------------------------------------
(* The commands of the setup API *)

\* Each of them leaves the rows of the operations that have a slot alone.
LEMMA ServedRows ==
    ASSUME Standing, BaseInv', ServedCommand, step' = [o \in Ops |-> step'[o]],
           \A o \in Ops : \/ PlanStays(o) /\ step'[o] = step[o] /\ StatusMoves(o)
                          \/ OpInv(o)' /\ status[o] \notin ACTIVE
    PROVE  StepsInv'
  <1>0. UNCHANGED <<loop, exec>> /\ [ExecutorNext]_allVars
    BY DEF ServedCommand, guiVars, ExecutorNext
  <1>1. Granted
    BY <1>0, StepGrants DEF Standing
  <1>2. \A o \in Ops : OpInv(o)'
    BY <1>1, OpStays DEF Standing, StepsInv
  <1>3. \A g \in Guis : RunInv(g)'
    <2> TAKE g \in Guis
    <2>1. loop[g].pc \in SetupRun =>
             /\ IsSetup(loop[g].job) /\ step'[loop[g].job] = step[loop[g].job]
             /\ PlanStays(loop[g].job)
      BY RunIsSetup
    <2> QED
      BY <1>0, <2>1, RunStays DEF Standing, StepsInv
  <1> QED
    BY <1>0, <1>1, <1>2, <1>3, LastHolds DEF Standing, StepsInv

LEMMA PlanCommandRows ==
    ASSUME Standing, BaseInv', ServedCommand,
           \/ \E p \in Plans : CreatePlan(p, machine) \/ PlanExpires(p)
           \/ \E p \in Plans, expected \in 1..3 : DiscardPlan(p, expected)
           \/ \E p \in Plans, expected \in 1..3, a \in Approvals : ApprovePlan(p, expected, a, machine)
           \/ \E a \in Approvals : ApprovalExpires(a)
    PROVE  StepsInv'
  <1>0. UNCHANGED <<storeVars, link, step>>
    BY DEF CreatePlan, PlanExpires, DiscardPlan, ApprovePlan, ApprovalExpires
  <1>1. ASSUME NEW o \in Ops, IsSetup(o) PROVE plan'[link[o].plan].steps = plan[link[o].plan].steps
    <2>0. /\ link[o].plan \in Plans /\ plan[link[o].plan].state = "consumed"
          /\ plan \in [Plans -> PlanTypes] /\ plan[link[o].plan] \in PlanTypes
      BY <1>1 DEF Standing, SetupInv, Shapes, LinksAreOfOperations, ApprovalIsOneUse
    <2>1. ASSUME NEW p \in Plans, CreatePlan(p, machine)
          PROVE  plan'[link[o].plan].steps = plan[link[o].plan].steps
      BY <2>0, <2>1 DEF CreatePlan
    <2>2. ASSUME NEW p \in Plans, PlanExpires(p)
          PROVE  plan'[link[o].plan].steps = plan[link[o].plan].steps
      BY <2>0, <2>2 DEF PlanExpires, PlanTypes
    <2>3. ASSUME NEW p \in Plans, NEW expected, DiscardPlan(p, expected)
          PROVE  plan'[link[o].plan].steps = plan[link[o].plan].steps
      BY <2>0, <2>3 DEF DiscardPlan, PlanTypes
    <2>4. ASSUME NEW p \in Plans, NEW expected, NEW a, ApprovePlan(p, expected, a, machine)
          PROVE  plan'[link[o].plan].steps = plan[link[o].plan].steps
      BY <2>0, <2>4 DEF ApprovePlan, PlanTypes
    <2>5. ASSUME NEW a, ApprovalExpires(a)
          PROVE  plan'[link[o].plan].steps = plan[link[o].plan].steps
      BY <2>5 DEF ApprovalExpires
    <2> QED
      BY <2>1, <2>2, <2>3, <2>4, <2>5
  <1>2. \A o \in Ops : PlanStays(o) /\ step'[o] = step[o] /\ StatusMoves(o)
    BY <1>0, <1>1 DEF PlanStays, StatusMoves, storeVars, opVars
  <1>3. step' = [o \in Ops |-> step'[o]]
    BY <1>0 DEF Standing, StepsInv
  <1> QED
    BY <1>2, <1>3, ServedRows

LEMMA InsertRows ==
    ASSUME Standing, BaseInv', ServedCommand, NEW o \in Ops, NEW p \in Plans, NEW a, NEW source,
           InsertSetup(o, p, a, source),
           \A q \in Plans : plan'[q].steps = plan[q].steps
    PROVE  StepsInv'
  <1>0. /\ status[o] = "absent" /\ Kind[o] = "setup_operation" /\ Record(o, "queued", "none")
        /\ link' = [link EXCEPT ![o] = [plan |-> p, approval |-> a, retryOf |-> source]]
        /\ step' = [step EXCEPT ![o] = [k \in StepKinds |->
              IF \E i \in DOMAIN plan[p].steps : plan[p].steps[i] = k THEN Pending ELSE NoStep]]
    BY DEF InsertSetup, StartOperation
  <1>1. /\ step = [other \in Ops |-> step[other]] /\ link \in [Ops -> LinkTypes] /\ TypeOK
    BY TypesOf DEF Standing, StepsInv, SetupInv, Shapes, BaseInv
  <1>2. ASSUME NEW other \in Ops \ {o}
        PROVE  PlanStays(other) /\ step'[other] = step[other] /\ StatusMoves(other)
    <2>1. status'[other] = status[other]
      BY <1>0, <1>1, RecordOthers
    <2>2. IsSetup(other) => link[other].plan \in Plans
      BY DEF Standing, SetupInv, LinksAreOfOperations
    <2>3. link'[other] = link[other] /\ step'[other] = step[other]
      BY <1>0, <1>1
    <2> QED
      BY <2>1, <2>2, <2>3 DEF PlanStays, StatusMoves
  <1>3. OpInv(o)'
    <2>1. status'[o] = "queued" /\ link'[o].plan = p /\ p # NoId
      BY <1>0, <1>1, SetupAssumption DEF Record, TypeOK
    <2>2. \A k \in StepKinds : step'[o][k] =
             IF \E i \in DOMAIN plan[p].steps : plan[p].steps[i] = k THEN Pending ELSE NoStep
      BY <1>0, <1>1
    <2>3. step'[o] = [k \in StepKinds |-> step'[o][k]]
      BY <1>0, <1>1
    <2>4. /\ Pending = [status |-> "pending", evidence |-> FALSE, attempt |-> 0]
          /\ NoStep = [status |-> "none", evidence |-> FALSE, attempt |-> 0]
      BY RowConstants
    <2>5. \A k \in StepKinds : /\ step'[o][k] = [status   |-> step'[o][k].status,
                                                 evidence |-> step'[o][k].evidence,
                                                 attempt  |-> step'[o][k].attempt]
                               /\ step'[o][k].status # "running"
                               /\ step'[o][k].status # "none" =>
                                     \E i \in DOMAIN plan[p].steps : plan[p].steps[i] = k
      BY <2>2, <2>4
    <2>6. StepsOf(o)' = plan[p].steps /\ IsSetup(o)'
      BY <2>1 DEF StepsOf, IsSetup
    <2>7. step'[o] = [k \in StepKinds |-> [status   |-> step'[o][k].status,
                                           evidence |-> step'[o][k].evidence,
                                           attempt  |-> step'[o][k].attempt]]
      BY <2>3, <2>5
    <2>8. (IsSetup(o)' <=> Kind[o] = "setup_operation" /\ status'[o] # "absent")
             /\ status'[o] # "succeeded"
      BY <1>0, <2>1, <2>6
    <2>9. \A k \in StepKinds : step'[o][k].status # "none" =>
             IsSetup(o)' /\ \E i \in DOMAIN StepsOf(o)' : StepsOf(o)'[i] = k
      BY <2>5, <2>6
    <2> QED
      BY <2>5, <2>7, <2>8, <2>9 DEF OpInv
  <1>4. status[o] \notin ACTIVE
    BY <1>0 DEF ACTIVE
  <1>5. step' = [other \in Ops |-> step'[other]]
    BY <1>0, <1>1
  <1> QED
    BY <1>2, <1>3, <1>4, <1>5, ServedRows

LEMMA ResumeRows ==
    ASSUME Standing, BaseInv', ServedCommand, NEW o \in Ops, NEW expected,
           ResumeSetup(o, expected, machine)
    PROVE  StepsInv'
  <1>0. /\ IsSetup(o) /\ status[o] \in {"waiting_user", "interrupted"} /\ Record(o, "queued", "none")
        /\ UNCHANGED <<plan, link>>
        /\ step' = [step EXCEPT ![o] = [k \in StepKinds |->
              IF step[o][k].status \in {"running", "failed"}
              THEN [step[o][k] EXCEPT !.status = "pending", !.evidence = FALSE] ELSE step[o][k]]]
    BY DEF ResumeSetup, RESUMABLE_SETUP
  <1>1. /\ step = [other \in Ops |-> step[other]] /\ TypeOK /\ OpInv(o)
    BY TypesOf DEF Standing, StepsInv, BaseInv
  <1>2. ASSUME NEW other \in Ops \ {o}
        PROVE  PlanStays(other) /\ step'[other] = step[other] /\ StatusMoves(other)
    <2>1. status'[other] = status[other]
      BY <1>0, <1>1, RecordOthers
    <2> QED
      BY <1>0, <1>1, <2>1 DEF PlanStays, StatusMoves
  <1>3. OpInv(o)'
    <2>1. status'[o] = "queued" /\ StepsOf(o)' = StepsOf(o) /\ IsSetup(o)'
      BY <1>0, <1>1 DEF Record, TypeOK, StepsOf, IsSetup
    <2>2. \A k \in StepKinds : step[o][k] = [status   |-> step[o][k].status,
                                             evidence |-> step[o][k].evidence,
                                             attempt  |-> step[o][k].attempt]
      BY <1>1 DEF OpInv
    <2>3. \A k \in StepKinds : step'[o][k] =
             IF step[o][k].status \in {"running", "failed"}
             THEN [status |-> "pending", evidence |-> FALSE, attempt |-> step[o][k].attempt]
             ELSE [status |-> step[o][k].status, evidence |-> step[o][k].evidence,
                   attempt |-> step[o][k].attempt]
      <3> TAKE k \in StepKinds
      <3>1. step'[o][k] =
               IF step[o][k].status \in {"running", "failed"}
               THEN [step[o][k] EXCEPT !.status = "pending", !.evidence = FALSE] ELSE step[o][k]
        BY <1>0, <1>1
      <3>2. [step[o][k] EXCEPT !.status = "pending", !.evidence = FALSE]
               = [status |-> "pending", evidence |-> FALSE, attempt |-> step[o][k].attempt]
        BY <2>2, RowForgotten
      <3> QED
        BY <2>2, <3>1, <3>2
    <2>4. \A k \in StepKinds : /\ step'[o][k] = [status   |-> step'[o][k].status,
                                                 evidence |-> step'[o][k].evidence,
                                                 attempt  |-> step'[o][k].attempt]
                               /\ step'[o][k].status # "running"
                               /\ step'[o][k].status # "none" => step[o][k].status # "none"
      <3> TAKE k \in StepKinds
      <3> DEFINE r == step'[o][k]
      <3>1. PICK a, b, c : /\ r = [status |-> a, evidence |-> b, attempt |-> c]
                           /\ a # "running" /\ (a # "none" => step[o][k].status # "none")
        <4>1. CASE step[o][k].status \in {"running", "failed"}
          BY <2>3, <4>1
        <4>2. CASE step[o][k].status \notin {"running", "failed"}
          BY <2>3, <4>2
        <4> QED
          BY <4>1, <4>2
      <3> HIDE DEF r
      <3>2. /\ r = [status |-> r.status, evidence |-> r.evidence, attempt |-> r.attempt]
            /\ r.status # "running" /\ (r.status # "none" => step[o][k].status # "none")
        BY <3>1, RowFields
      <3> QED
        BY <3>2 DEF r
    <2>5. step'[o] = [k \in StepKinds |-> step'[o][k]]
      BY <1>0, <1>1
    <2>6. step'[o] = [k \in StepKinds |-> [status   |-> step'[o][k].status,
                                           evidence |-> step'[o][k].evidence,
                                           attempt  |-> step'[o][k].attempt]]
      BY <2>4, <2>5
    <2>7. Kind[o] = "setup_operation"
      BY <1>0, <1>1 DEF OpInv
    <2> QED
      BY <1>1, <2>1, <2>4, <2>6, <2>7 DEF OpInv
  <1>4. status[o] \notin ACTIVE
    BY <1>0 DEF ACTIVE
  <1>5. step' = [other \in Ops |-> step'[other]]
    BY <1>0, <1>1
  <1> QED
    BY <1>2, <1>3, <1>4, <1>5, ServedRows

LEMMA CancelRows ==
    ASSUME Standing, BaseInv', ServedCommand, NEW o \in Ops, NEW expected, CancelSetup(o, expected)
    PROVE  StepsInv'
  <1>0. /\ UNCHANGED setupVars
        /\ \/ status[o] \in {"queued", "waiting_user", "interrupted"} /\ Record(o, "cancelled", "none")
           \/ status[o] = "running" /\ Record(o, "cancelling", "none")
    BY DEF CancelSetup
  <1>1. TypeOK /\ step = [other \in Ops |-> step[other]]
    BY TypesOf DEF Standing, StepsInv, BaseInv
  <1>2. \A other \in Ops : StatusMoves(other)
    BY <1>0, <1>1, RecordOthers DEF StatusMoves
  <1> QED
    BY <1>0, <1>1, <1>2, PlansStay, ServedRows DEF setupVars

LEMMA ServedKeepsSteps == ASSUME Standing, BaseInv', ServedCommand PROVE StepsInv'
  <1>0. SetupCommand /\ plan \in [Plans -> PlanTypes]
    BY DEF ServedCommand, Standing, SetupInv, Shapes
  <1>1. ASSUME NEW o \in Ops, NEW p \in Plans, NEW expected, NEW a,
               StartSetup(o, p, expected, a, machine)
        PROVE  StepsInv'
    <2>1. \A q \in Plans : plan'[q].steps = plan[q].steps
      BY <1>0, <1>1 DEF StartSetup, PlanTypes
    <2> QED
      BY <1>1, <2>1, InsertRows DEF StartSetup
  <1>2. ASSUME NEW source \in Ops, NEW expected, NEW o \in Ops, RetrySetup(source, expected, o, machine)
        PROVE  StepsInv'
    <2>1. link[source].plan \in Plans /\ plan' = plan
      BY <1>2 DEF RetrySetup, Standing, SetupInv, LinksAreOfOperations
    <2> QED
      BY <1>2, <2>1, InsertRows DEF RetrySetup
  <1> QED
    BY <1>0, <1>1, <1>2, PlanCommandRows, CancelRows, ResumeRows DEF SetupCommand

-------------------------------------------------------------------------------
(* The rows of the operation that a thread runs *)

LEMMA RowsAreRecords ==
    ASSUME NEW o \in Ops, OpInv(o), NEW k \in StepKinds
    PROVE  step[o][k] = [status |-> step[o][k].status, evidence |-> step[o][k].evidence,
                         attempt |-> step[o][k].attempt]
  BY DEF OpInv

\* What is left to show of them while the attempt goes on.
LEMMA RunningRows ==
    ASSUME NEW o \in Ops, OpInv(o), IsSetup(o), UNCHANGED <<plan, link>>, status'[o] \in ACTIVE,
           step'[o] = [k \in StepKinds |-> step'[o][k]],
           \A k \in StepKinds :
              /\ step'[o][k] = [status |-> step'[o][k].status, evidence |-> step'[o][k].evidence,
                                attempt |-> step'[o][k].attempt]
              /\ step'[o][k].status # "none" => step[o][k].status # "none"
              /\ step'[o][k].status = "running" =>
                    \A d \in DependsOn(k) : step'[o][d].status # "none" =>
                       step'[o][d].status \in SATISFIED /\ step'[o][d].attempt = step'[o][k].attempt
    PROVE  OpInv(o)'
  <1>1. IsSetup(o)' /\ StepsOf(o)' = StepsOf(o)
    BY DEF IsSetup, StepsOf
  <1>2. Kind[o] = "setup_operation" /\ status'[o] # "absent" /\ status'[o] # "succeeded"
    BY DEF OpInv, ACTIVE
  <1>3. step'[o] = [k \in StepKinds |-> [status   |-> step'[o][k].status,
                                         evidence |-> step'[o][k].evidence,
                                         attempt  |-> step'[o][k].attempt]]
    OBVIOUS
  <1>4. \A k \in StepKinds : step'[o][k].status # "none" =>
           \E i \in DOMAIN StepsOf(o) : StepsOf(o)[i] = k
    BY DEF OpInv
  <1>5. \A k \in StepKinds : step'[o][k].status # "none" =>
           IsSetup(o)' /\ \E i \in DOMAIN StepsOf(o)' : StepsOf(o)'[i] = k
    BY <1>1, <1>4
  <1>6. IsSetup(o)' <=> Kind[o] = "setup_operation" /\ status'[o] # "absent"
    BY <1>1, <1>2
  <1>7. /\ \A k \in StepKinds : step'[o][k].status = "running" =>
              status'[o] \in ACTIVE \cup {"interrupted", "cancelled"}
        /\ \A k \in StepKinds : step'[o][k].status = "running" /\ status'[o] \in ACTIVE =>
              \A d \in DependsOn(k) : step'[o][d].status # "none" =>
                 step'[o][d].status \in SATISFIED /\ step'[o][d].attempt = step'[o][k].attempt
    OBVIOUS
  <1> QED
    BY <1>2, <1>3, <1>5, <1>6, <1>7 DEF OpInv

LEMMA ResetRows ==
    ASSUME NEW o \in Ops, OpInv(o), IsSetup(o), status[o] \in ACTIVE,
           step = [other \in Ops |-> step[other]], NEW fence, ResetSteps(o, fence)
    PROVE  /\ OpInv(o)' /\ step' = [other \in Ops |-> step'[other]]
           /\ \A other \in Ops \ {o} : step'[other] = step[other]
           /\ \A k \in StepKinds : step'[o][k].status # "running"
  <1>1. /\ step' = [step EXCEPT ![o] = [k \in StepKinds |->
              IF step[o][k].status = "none" THEN NoStep
              ELSE [step[o][k] EXCEPT !.status = "pending", !.evidence = FALSE]]]
        /\ UNCHANGED <<plan, link>> /\ status' = status
    BY DEF ResetSteps, storeVars, opVars
  <1>2. ASSUME NEW k \in StepKinds
        PROVE  /\ step'[o][k] = [status |-> step'[o][k].status, evidence |-> step'[o][k].evidence,
                                 attempt |-> step'[o][k].attempt]
               /\ step'[o][k].status # "none" => step[o][k].status # "none"
               /\ step'[o][k].status # "running"
    <2> DEFINE r == step'[o][k]
    <2>1. r = IF step[o][k].status = "none" THEN NoStep
              ELSE [step[o][k] EXCEPT !.status = "pending", !.evidence = FALSE]
      BY <1>1
    <2>2. [step[o][k] EXCEPT !.status = "pending", !.evidence = FALSE]
             = [status |-> "pending", evidence |-> FALSE, attempt |-> step[o][k].attempt]
      BY RowsAreRecords, RowForgotten
    <2>3. PICK a, b, c : /\ r = [status |-> a, evidence |-> b, attempt |-> c]
                         /\ a # "running" /\ (a # "none" => step[o][k].status # "none")
      <3>1. CASE step[o][k].status = "none"
        BY <2>1, <3>1, RowConstants
      <3>2. CASE step[o][k].status # "none"
        BY <2>1, <2>2, <3>2
      <3> QED
        BY <3>1, <3>2
    <2> HIDE DEF r
    <2>4. /\ r = [status |-> r.status, evidence |-> r.evidence, attempt |-> r.attempt]
          /\ r.status # "running" /\ (r.status # "none" => step[o][k].status # "none")
      BY <2>3, RowFields
    <2> QED
      BY <2>4 DEF r
  <1>3. /\ step'[o] = [k \in StepKinds |-> step'[o][k]]
        /\ step' = [other \in Ops |-> step'[other]]
        /\ \A other \in Ops \ {o} : step'[other] = step[other]
    BY <1>1
  <1>4. OpInv(o)'
    BY <1>1, <1>2, <1>3, RunningRows
  <1> QED
    BY <1>2, <1>3, <1>4

LEMMA StartRows ==
    ASSUME NEW o \in Ops, OpInv(o), IsSetup(o), InOrder(StepsOf(o)), status[o] \in ACTIVE, TypeOK,
           step = [other \in Ops |-> step[other]], NEW fence, NEW n \in DOMAIN StepsOf(o),
           DoneBefore(o, n, fence), QuietFrom(o, n), StepStarted(o, fence, StepsOf(o)[n])
    PROVE  /\ OpInv(o)' /\ step' = [other \in Ops |-> step'[other]]
           /\ \A other \in Ops \ {o} : step'[other] = step[other]
           /\ DoneBefore(o, n, fence)' /\ RunsAt(o, n, fence)' /\ QuietFrom(o, n + 1)'
  <1> DEFINE s == StepsOf(o)
             k0 == s[n]
  <1>1. /\ step' = [step EXCEPT ![o][k0] =
                       [status |-> "running", evidence |-> FALSE, attempt |-> fence]]
        /\ UNCHANGED <<plan, link>> /\ status'[o] = status[o] /\ step[o][k0].status = "pending"
    BY RecordOthers DEF StepStarted
  <1>2. /\ \A i \in DOMAIN s : s[i] \in StepKinds /\ i \in Nat
        /\ \A i, j \in DOMAIN s : s[i] = s[j] => i = j
        /\ \A i, j \in DOMAIN s : s[j] \in DependsOn(s[i]) => j < i
        /\ n \in Nat /\ k0 \in StepKinds
    BY DEF InOrder
  <1>3. /\ step[o] = [k \in StepKinds |-> step[o][k]]
        /\ \A k \in StepKinds : step[o][k].status # "none" => \E i \in DOMAIN s : s[i] = k
    BY DEF OpInv
  <1>4. s' = s
    BY <1>1 DEF StepsOf
  <1> HIDE DEF s, k0
  <1>5. /\ step'[o][k0] = [status |-> "running", evidence |-> FALSE, attempt |-> fence]
        /\ \A k \in StepKinds \ {k0} : step'[o][k] = step[o][k]
        /\ step'[o] = [k \in StepKinds |-> step'[o][k]]
        /\ step' = [other \in Ops |-> step'[other]]
        /\ \A other \in Ops \ {o} : step'[other] = step[other]
    BY <1>1, <1>2, <1>3
  <1>6. step'[o][k0].status = "running" /\ step'[o][k0].attempt = fence
    BY <1>5
  <1>7. \A k \in StepKinds \ {k0} : step'[o][k].status # "running"
    BY <1>2, <1>3, <1>5 DEF DoneBefore, QuietFrom, SATISFIED, s, k0
  <1>8. \A d \in DependsOn(k0) : step'[o][d].status # "none" =>
           step'[o][d].status \in SATISFIED /\ step'[o][d].attempt = fence
    <2> TAKE d \in DependsOn(k0)
    <2> HAVE step'[o][d].status # "none"
    <2>1. d \in StepKinds /\ d # k0
      BY <1>2 DEF DependsOn, StepKinds
    <2>2. PICK j \in DOMAIN s : s[j] = d
      BY <1>3, <1>5, <2>1
    <2>3. j < n
      BY <1>2, <2>2 DEF s, k0
    <2> QED
      BY <1>5, <2>1, <2>2, <2>3 DEF DoneBefore, s
  <1>9. \A k \in StepKinds :
           step'[o][k] = [status |-> step'[o][k].status, evidence |-> step'[o][k].evidence,
                          attempt |-> step'[o][k].attempt]
    <2> TAKE k \in StepKinds
    <2>1. CASE k # k0
      <3>1. step'[o][k] = step[o][k]
        BY <1>5, <2>1
      <3>2. step[o][k] = [status |-> step[o][k].status, evidence |-> step[o][k].evidence,
                          attempt |-> step[o][k].attempt]
        BY RowsAreRecords
      <3> QED
        BY <3>1, <3>2
    <2>2. CASE k = k0
      <3> DEFINE r == step'[o][k]
      <3>1. PICK b : r = [status |-> "running", evidence |-> b, attempt |-> fence]
        BY <1>5, <2>2
      <3> HIDE DEF r
      <3>2. r = [status |-> r.status, evidence |-> r.evidence, attempt |-> r.attempt]
        BY <3>1, RowFields
      <3> QED
        BY <3>2 DEF r
    <2> QED
      BY <2>1, <2>2
  <1>10. OpInv(o)'
    <2>1. \A k \in StepKinds : step'[o][k].status # "none" => step[o][k].status # "none"
      BY <1>1, <1>5
    <2>2. \A k \in StepKinds : step'[o][k].status = "running" =>
             \A d \in DependsOn(k) : step'[o][d].status # "none" =>
                step'[o][d].status \in SATISFIED /\ step'[o][d].attempt = step'[o][k].attempt
      BY <1>6, <1>7, <1>8
    <2> QED
      BY <1>1, <1>5, <1>9, <2>1, <2>2, RunningRows
  <1>11. \A i \in DOMAIN s : i # n => step'[o][s[i]] = step[o][s[i]]
    BY <1>2, <1>5 DEF s, k0
  <1>12. DoneBefore(o, n, fence)' /\ QuietFrom(o, n + 1)' /\ RunsAt(o, n, fence)'
    BY <1>2, <1>4, <1>6, <1>11 DEF DoneBefore, QuietFrom, RunsAt, s, k0
  <1> QED
    BY <1>5, <1>10, <1>12

LEMMA FinishRows ==
    ASSUME NEW o \in Ops, OpInv(o), IsSetup(o), InOrder(StepsOf(o)), status[o] \in ACTIVE, TypeOK,
           step = [other \in Ops |-> step[other]], NEW fence, NEW n \in DOMAIN StepsOf(o), NEW new,
           DoneBefore(o, n, fence), RunsAt(o, n, fence), QuietFrom(o, n + 1),
           StepFinished(o, fence, StepsOf(o)[n], new)
    PROVE  /\ OpInv(o)' /\ step' = [other \in Ops |-> step'[other]]
           /\ \A other \in Ops \ {o} : step'[other] = step[other]
           /\ new \in SATISFIED => DoneBefore(o, n + 1, fence)' /\ QuietFrom(o, n + 1)'
  <1> DEFINE s == StepsOf(o)
             k0 == s[n]
             e == new \in SATISFIED
  <1>1. /\ step' = [step EXCEPT ![o][k0].status = new, ![o][k0].evidence = e]
        /\ UNCHANGED <<plan, link>> /\ status'[o] = status[o]
    BY RecordOthers DEF StepFinished
  <1>2. /\ \A i \in DOMAIN s : s[i] \in StepKinds /\ i \in Nat
        /\ \A i, j \in DOMAIN s : s[i] = s[j] => i = j
        /\ n \in Nat /\ n \in DOMAIN s /\ k0 \in StepKinds
    BY DEF InOrder
  <1>3. /\ step[o] = [k \in StepKinds |-> step[o][k]]
        /\ \A k \in StepKinds : step[o][k].status # "none" => \E i \in DOMAIN s : s[i] = k
        /\ step[o][k0].status = "running" /\ step[o][k0].attempt = fence
    BY DEF OpInv, RunsAt
  <1>4. s' = s
    BY <1>1 DEF StepsOf
  <1> HIDE DEF s, k0, e
  <1>6. step' = [step EXCEPT ![o] = [step[o] EXCEPT ![k0] =
                    [step[o][k0] EXCEPT !.status = new, !.evidence = e]]]
    <2> DEFINE mid == [step EXCEPT ![o][k0].status = new]
    <2>1. step' = [mid EXCEPT ![o][k0].evidence = e]
      BY <1>1
    <2>2. mid = [step EXCEPT ![o] = [step[o] EXCEPT ![k0] = [step[o][k0] EXCEPT !.status = new]]]
      OBVIOUS
    <2> HIDE DEF mid
    <2>3. step' = [mid EXCEPT ![o] = [mid[o] EXCEPT ![k0] = [mid[o][k0] EXCEPT !.evidence = e]]]
      BY <2>1
    <2>4. /\ mid[o] = [step[o] EXCEPT ![k0] = [step[o][k0] EXCEPT !.status = new]]
          /\ mid[o][k0] = [step[o][k0] EXCEPT !.status = new]
      BY <1>2, <1>3, <2>2
    <2>5. [[step[o][k0] EXCEPT !.status = new] EXCEPT !.evidence = e]
             = [step[o][k0] EXCEPT !.status = new, !.evidence = e]
      OBVIOUS
    <2>6. /\ step'[o] = [mid[o] EXCEPT ![k0] = [step[o][k0] EXCEPT !.status = new, !.evidence = e]]
          /\ step' = [other \in Ops |-> step'[other]]
          /\ \A other \in Ops \ {o} : step'[other] = step[other]
      <3>1. mid = [other \in Ops |-> mid[other]] /\ \A other \in Ops \ {o} : mid[other] = step[other]
        BY <2>2
      <3>2. /\ step'[o] = [mid[o] EXCEPT ![k0] = [mid[o][k0] EXCEPT !.evidence = e]]
            /\ step' = [other \in Ops |-> step'[other]]
            /\ \A other \in Ops \ {o} : step'[other] = step[other]
        BY <2>3, <3>1
      <3>3. [mid[o][k0] EXCEPT !.evidence = e] = [step[o][k0] EXCEPT !.status = new, !.evidence = e]
        BY <2>4, <2>5, Zenon
      <3> QED
        BY <3>2, <3>3, Zenon
    <2>7. step'[o] = [step[o] EXCEPT ![k0] = [step[o][k0] EXCEPT !.status = new, !.evidence = e]]
      BY <1>3, <2>4, <2>6
    <2> QED
      BY <2>6, <2>7
  <1>7. [step[o][k0] EXCEPT !.status = new, !.evidence = e]
           = [status |-> new, evidence |-> e, attempt |-> step[o][k0].attempt]
    <2>1. step[o][k0] = [status |-> step[o][k0].status, evidence |-> step[o][k0].evidence,
                         attempt |-> step[o][k0].attempt]
      BY <1>2, RowsAreRecords
    <2> DEFINE r == step[o][k0]
    <2> HIDE DEF r
    <2>2. r = [status |-> r.status, evidence |-> r.evidence, attempt |-> r.attempt]
      BY <2>1 DEF r
    <2>3. [r EXCEPT !.status = new, !.evidence = e]
             = [status |-> new, evidence |-> e, attempt |-> r.attempt]
      BY <2>2, RowUpdate
    <2> QED
      BY <2>3 DEF r
  <1>8. /\ step'[o][k0] = [status |-> new, evidence |-> e, attempt |-> fence]
        /\ \A k \in StepKinds \ {k0} : step'[o][k] = step[o][k]
        /\ step'[o] = [k \in StepKinds |-> step'[o][k]]
        /\ step' = [other \in Ops |-> step'[other]]
        /\ \A other \in Ops \ {o} : step'[other] = step[other]
    BY <1>2, <1>3, <1>6, <1>7
  <1>9. step'[o][k0].status = new /\ step'[o][k0].attempt = fence
    BY <1>8
  <1>10. \A k \in StepKinds \ {k0} : step'[o][k].status # "running"
    <2>1. \A i \in DOMAIN s : i # n => step[o][s[i]].status # "running"
      BY <1>2 DEF DoneBefore, QuietFrom, SATISFIED, s
    <2> QED
      BY <1>2, <1>3, <1>8, <2>1 DEF k0
  <1>11. \A k \in StepKinds :
           step'[o][k] = [status |-> step'[o][k].status, evidence |-> step'[o][k].evidence,
                          attempt |-> step'[o][k].attempt]
    <2> TAKE k \in StepKinds
    <2>1. CASE k # k0
      <3>1. step'[o][k] = step[o][k]
        BY <1>8, <2>1
      <3>2. step[o][k] = [status |-> step[o][k].status, evidence |-> step[o][k].evidence,
                          attempt |-> step[o][k].attempt]
        BY RowsAreRecords
      <3> QED
        BY <3>1, <3>2
    <2>2. CASE k = k0
      <3> DEFINE r == step'[o][k]
      <3>1. r = [status |-> new, evidence |-> e, attempt |-> fence]
        BY <1>8, <2>2
      <3> HIDE DEF r
      <3>2. r = [status |-> r.status, evidence |-> r.evidence, attempt |-> r.attempt]
        BY <3>1, RowFields
      <3> QED
        BY <3>2 DEF r
    <2> QED
      BY <2>1, <2>2
  <1>12. OpInv(o)'
    <2>1. \A k \in StepKinds : step'[o][k].status # "none" => step[o][k].status # "none"
      BY <1>3, <1>8
    <2>2. \A d \in DependsOn(k0) : step'[o][d].status # "none" =>
             step'[o][d].status \in SATISFIED /\ step'[o][d].attempt = fence
      <3>1. \A d \in DependsOn(k0) : d \in StepKinds \ {k0}
        BY <1>2 DEF DependsOn, StepKinds
      <3>2. \A d \in DependsOn(k0) : step[o][d].status # "none" =>
               step[o][d].status \in SATISFIED /\ step[o][d].attempt = fence
        BY <1>2, <1>3 DEF OpInv
      <3> QED
        BY <1>8, <3>1, <3>2
    <2>3. \A k \in StepKinds : step'[o][k].status = "running" =>
             \A d \in DependsOn(k) : step'[o][d].status # "none" =>
                step'[o][d].status \in SATISFIED /\ step'[o][d].attempt = step'[o][k].attempt
      BY <1>9, <1>10, <2>2
    <2>4. step'[o] = [k \in StepKinds |-> step'[o][k]] /\ status'[o] \in ACTIVE
             /\ OpInv(o) /\ IsSetup(o) /\ UNCHANGED <<plan, link>>
      BY <1>1, <1>8
    <2>5. \A k \in StepKinds :
             /\ step'[o][k] = [status |-> step'[o][k].status, evidence |-> step'[o][k].evidence,
                               attempt |-> step'[o][k].attempt]
             /\ step'[o][k].status # "none" => step[o][k].status # "none"
             /\ step'[o][k].status = "running" =>
                   \A d \in DependsOn(k) : step'[o][d].status # "none" =>
                      step'[o][d].status \in SATISFIED /\ step'[o][d].attempt = step'[o][k].attempt
      BY <1>11, <2>1, <2>3
    <2> QED
      BY <2>4, <2>5, RunningRows
  <1>13. \A i \in DOMAIN s : i # n => step'[o][s[i]] = step[o][s[i]]
    <2>1. \A i \in DOMAIN s : i # n => s[i] \in StepKinds \ {k0}
      BY <1>2 DEF k0
    <2> QED
      BY <1>8, <2>1
  <1>14. new \in SATISFIED => DoneBefore(o, n + 1, fence)' /\ QuietFrom(o, n + 1)'
    BY <1>2, <1>4, <1>9, <1>13 DEF DoneBefore, QuietFrom, s, k0
  <1> QED
    BY <1>8, <1>12, <1>14

LEMMA PendingRows ==
    ASSUME NEW o \in Ops, OpInv(o), step = [other \in Ops |-> step[other]], RunningToPending(o)
    PROVE  /\ step' = [other \in Ops |-> step'[other]]
           /\ \A other \in Ops \ {o} : step'[other] = step[other]
           /\ step'[o] = [k \in StepKinds |-> [status   |-> step'[o][k].status,
                                               evidence |-> step'[o][k].evidence,
                                               attempt  |-> step'[o][k].attempt]]
           /\ \A k \in StepKinds :
                 /\ step'[o][k].status # "running"
                 /\ step'[o][k].status # "none" => step[o][k].status # "none"
                 /\ step[o][k].status # "running" => step'[o][k] = step[o][k]
  <1>1. step' = [step EXCEPT ![o] = [k \in StepKinds |->
           IF step[o][k].status = "running" THEN [step[o][k] EXCEPT !.status = "pending"]
           ELSE step[o][k]]]
    BY DEF RunningToPending
  <1>2. ASSUME NEW k \in StepKinds
        PROVE  /\ step'[o][k] = [status |-> step'[o][k].status, evidence |-> step'[o][k].evidence,
                                 attempt |-> step'[o][k].attempt]
               /\ step'[o][k].status # "none" => step[o][k].status # "none"
               /\ step'[o][k].status # "running"
               /\ step[o][k].status # "running" => step'[o][k] = step[o][k]
    <2> DEFINE r == step'[o][k]
    <2>1. r = IF step[o][k].status = "running" THEN [step[o][k] EXCEPT !.status = "pending"]
              ELSE step[o][k]
      BY <1>1
    <2>2. [step[o][k] EXCEPT !.status = "pending"]
             = [status |-> "pending", evidence |-> step[o][k].evidence, attempt |-> step[o][k].attempt]
      <3>1. PICK row : row = step[o][k]
        OBVIOUS
      <3>2. row = [status |-> row.status, evidence |-> row.evidence, attempt |-> row.attempt]
        BY <3>1, RowsAreRecords
      <3>3. [row EXCEPT !.status = "pending"]
               = [status |-> "pending", evidence |-> row.evidence, attempt |-> row.attempt]
        BY <3>2, RowUpdate
      <3> QED
        BY <3>1, <3>3
    <2>3. step[o][k] = [status |-> step[o][k].status, evidence |-> step[o][k].evidence,
                        attempt |-> step[o][k].attempt]
      BY RowsAreRecords
    <2>4. PICK a, b, c : /\ r = [status |-> a, evidence |-> b, attempt |-> c]
                         /\ a # "running" /\ (a # "none" => step[o][k].status # "none")
      <3>1. CASE step[o][k].status = "running"
        BY <2>1, <2>2, <3>1
      <3>2. CASE step[o][k].status # "running"
        BY <2>1, <2>3, <3>2
      <3> QED
        BY <3>1, <3>2
    <2>5. step[o][k].status # "running" => r = step[o][k]
      BY <2>1
    <2> HIDE DEF r
    <2>6. /\ r = [status |-> r.status, evidence |-> r.evidence, attempt |-> r.attempt]
          /\ r.status # "running" /\ (r.status # "none" => step[o][k].status # "none")
      BY <2>4, RowFields
    <2> QED
      BY <2>5, <2>6 DEF r
  <1>3. /\ step'[o] = [k \in StepKinds |-> step'[o][k]]
        /\ step' = [other \in Ops |-> step'[other]]
        /\ \A other \in Ops \ {o} : step'[other] = step[other]
    BY <1>1
  <1>4. step'[o] = [k \in StepKinds |-> [status   |-> step'[o][k].status,
                                         evidence |-> step'[o][k].evidence,
                                         attempt  |-> step'[o][k].attempt]]
    BY <1>2, <1>3
  <1> QED
    BY <1>2, <1>3, <1>4

\* The end of an attempt: a success rests on rows that all are this attempt's.
LEMMA EndRows ==
    ASSUME Standing, NEW g \in Guis, loop[g].pc \in {"outdated", "closing"}, NEW seen,
           NEW o \in Ops, o = loop[g].job,
           \/ SetupWait(loop[g].job, loop[g].fence, seen)
           \/ /\ loop[g].pc = "closing"
              /\ FinishSetup(loop[g].job, loop[g].fence, loop[g].outcome, seen)
    PROVE  /\ OpInv(o)' /\ step' = [other \in Ops |-> step'[other]]
           /\ \A other \in Ops \ {o} : /\ step'[other] = step[other]
                                      /\ status'[other] = status[other]
           /\ UNCHANGED <<plan, link>>
  <1> DEFINE fence == loop[g].fence
  <1>1. /\ o \in Ops /\ IsSetup(o) /\ OpInv(o) /\ Kind[o] = "setup_operation"
        /\ lease["heavy"] = fence /\ fence \in Fences /\ TypeOK /\ LeaseCoherence
        /\ step = [other \in Ops |-> step[other]]
    BY RunIsSetup, TypesOf DEF SetupRun, Standing, StepsInv, BaseInv
  <1>2. RunningToPending(o) /\ UNCHANGED <<plan, link>>
    BY DEF SetupWait, FinishSetup, FinishCommon
  <1>3. JournalKept
    BY <1>1, WaitFrees, FinishSetupFrees
  <1>4. PICK new \in {"waiting_user", "cancelled", "succeeded", "failed"} :
           /\ Record(o, new, "none")
           /\ new = "succeeded" => /\ loop[g].pc = "closing" /\ loop[g].outcome = "succeeded"
                                   /\ AllSatisfied(o)
    BY DEF SetupWait, FinishSetup, FinishCommon, SetupTarget
  <1>5. status'[o] = new /\ \A other \in Ops \ {o} : status'[other] = status[other]
    BY <1>1, <1>4, RecordOthers
  <1>6. /\ step' = [other \in Ops |-> step'[other]]
        /\ \A other \in Ops \ {o} : step'[other] = step[other]
        /\ step'[o] = [k \in StepKinds |-> [status   |-> step'[o][k].status,
                                            evidence |-> step'[o][k].evidence,
                                            attempt  |-> step'[o][k].attempt]]
        /\ \A k \in StepKinds :
              /\ step'[o][k].status # "running"
              /\ step'[o][k].status # "none" => step[o][k].status # "none"
              /\ step[o][k].status # "running" => step'[o][k] = step[o][k]
    BY <1>1, <1>2, PendingRows
  <1>7. ASSUME new = "succeeded"
        PROVE  /\ AllSatisfied(o)'
               /\ \A k \in StepKinds : step'[o][k].status # "none" =>
                     \A f \in Fences' : attempts'[f].op = o => f <= step'[o][k].attempt
    <2>1. \A k \in StepKinds : step'[o][k] = step[o][k]
      BY <1>4, <1>6, <1>7 DEF AllSatisfied, SATISFIED
    <2>2. AllSatisfied(o)'
      BY <1>4, <1>7, <2>1 DEF AllSatisfied
    <2>3. AllBy(o, fence)
      BY <1>4, <1>7 DEF Standing, StepsInv, RunInv
    <2>4. \A f \in Fences' : f <= fence
      BY <1>1, <1>3 DEF Standing, StepsInv, JournalKept, Fences, TypeOK
    <2> QED
      BY <2>1, <2>2, <2>3, <2>4 DEF AllBy
  <1>8. IsSetup(o)' /\ StepsOf(o)' = StepsOf(o)
    BY <1>1, <1>2 DEF IsSetup, StepsOf
  <1>9. \A k \in StepKinds : step'[o][k].status # "none" =>
           \E i \in DOMAIN StepsOf(o) : StepsOf(o)[i] = k
    BY <1>1, <1>6 DEF OpInv
  <1>10. OpInv(o)'
    <2>1. IsSetup(o)' <=> Kind[o] = "setup_operation" /\ status'[o] # "absent"
      BY <1>1, <1>5, <1>8
    <2>2. status'[o] = "succeeded" =>
             /\ AllSatisfied(o)'
             /\ \A k \in StepKinds : step'[o][k].status # "none" =>
                   \A f \in Fences' : attempts'[f].op = o => f <= step'[o][k].attempt
      BY <1>5, <1>7
    <2>3. step'[o] = [k \in StepKinds |-> [status   |-> step'[o][k].status,
                                           evidence |-> step'[o][k].evidence,
                                           attempt  |-> step'[o][k].attempt]]
      BY <1>6
    <2>4. \A k \in StepKinds : step'[o][k].status # "running"
      BY <1>6
    <2>5. /\ IsSetup(o)'
          /\ \A k \in StepKinds : step'[o][k].status # "none" =>
                IsSetup(o)' /\ \E i \in DOMAIN StepsOf(o)' : StepsOf(o)'[i] = k
      BY <1>8, <1>9
    <2> QED
      BY <2>1, <2>2, <2>3, <2>4, <2>5 DEF OpInv
  <1> QED
    BY <1>2, <1>5, <1>6, <1>10

-------------------------------------------------------------------------------
(* The steps of the thread *)

LEMMA ThreadKeepsSteps ==
    ASSUME Standing, BaseInv', Granted, NEW g \in Guis, NEW next, NEW x,
           loop' = [loop EXCEPT ![g] = next], exec' = [exec EXCEPT ![g] = x], RunInv(g)',
           UNCHANGED <<plan, link>>, step' = [o \in Ops |-> step'[o]],
           \A o \in Ops : \/ step'[o] = step[o] /\ (Kind[o] = "setup_operation" => StatusMoves(o))
                          \/ OpInv(o)' /\ loop[g].pc \in SetupRun /\ o = loop[g].job
    PROVE  StepsInv'
  <1>1. \A o \in Ops : OpInv(o)'
    BY OpStays, PlansStay DEF Standing, StepsInv
  <1>2. ASSUME NEW h \in Guis \ {g} PROVE RunInv(h)'
    <2>1. loop'[h] = loop[h] /\ exec'[h] = exec[h]
      BY TypesOf DEF Standing, StepsInv, BaseInv
    <2>2. loop[h].pc \in SetupRun => /\ step'[loop[h].job] = step[loop[h].job]
                                     /\ IsSetup(loop[h].job) /\ PlanStays(loop[h].job)
      BY RunIsSetup, PlansStay
    <2> QED
      BY <2>1, <2>2, RunStays DEF Standing, StepsInv
  <1>3. exec' = [h \in Guis |-> exec'[h]]
    BY DEF Standing, StepsInv
  <1> QED
    BY <1>1, <1>2, <1>3, LastHolds DEF Standing, StepsInv

\* What a thread knows of its steps when it runs none.
LEMMA OutsideSteps ==
    ASSUME Standing, NEW g \in Guis, NEW next, NEW x,
           loop' = [loop EXCEPT ![g] = next], exec' = [exec EXCEPT ![g] = x],
           next.pc \notin Between \cup AtStep,
           next.pc = "closing" => next.outcome # "succeeded",
           x = NoRun \/ \E v : x = [NoRun EXCEPT !.seen = v]
    PROVE  RunInv(g)'
  <1>1. loop'[g] = next /\ exec'[g] = x
    BY TypesOf DEF Standing, StepsInv, BaseInv
  <1>2. \A v : [NoRun EXCEPT !.seen = v] = [seen |-> v, index |-> 1, phase |-> 0, exit |-> "none"]
    BY DEF NoRun
  <1>3. PICK v : x = [seen |-> v, index |-> 1, phase |-> 0, exit |-> "none"]
    BY <1>2 DEF NoRun
  <1>4. x.seen = v /\ x.index = 1 /\ x.phase = 0 /\ x.exit = "none"
    BY <1>3
  <1> QED
    BY <1>1, <1>3, <1>4 DEF RunInv, Between, AtStep

LEMMA LocalKeepsSteps ==
    ASSUME Standing, BaseInv', Granted, NEW g \in Guis, NEW next, NEW x, SetupLocal(g, next, x),
           RunInv(g)'
    PROVE  StepsInv'
  <1>1. /\ loop' = [loop EXCEPT ![g] = next] /\ exec' = [exec EXCEPT ![g] = x]
        /\ UNCHANGED <<plan, link, step, status>>
    BY DEF SetupLocal, Local, Stays, setupVars, storeVars, opVars
  <1>2. \A o \in Ops : step'[o] = step[o] /\ StatusMoves(o)
    BY <1>1 DEF StatusMoves
  <1>3. step' = [o \in Ops |-> step'[o]]
    BY <1>1 DEF Standing, StepsInv
  <1> QED
    BY <1>1, <1>2, <1>3, ThreadKeepsSteps

\* The thread takes up a setup, or gives it up without a success.
LEMMA QuietKeepsSteps ==
    ASSUME Standing, BaseInv', Granted, NEW g \in Guis,
           \/ PickSetup(g) \/ ObservePlan(g) \/ BeginSetupRefused(g) \/ PublishRun(g) \/ DeferSetup(g)
           \/ (\E outcome \in {"failed", "cancelled", "unconfirmed"} : Close(g, outcome))
    PROVE  StepsInv'
  <1>0. loop[g] \in ThreadTypes
    BY ThreadType DEF Standing
  <1>1. ASSUME NEW next, NEW x, SetupLocal(g, next, x),
               next.pc \notin Between \cup AtStep,
               next.pc = "closing" => next.outcome # "succeeded",
               x = NoRun \/ \E v : x = [NoRun EXCEPT !.seen = v]
        PROVE  StepsInv'
    <2>1. RunInv(g)'
      BY <1>1, OutsideSteps DEF SetupLocal, Local, Stays
    <2> QED
      BY <1>1, <2>1, LocalKeepsSteps
  <1>2. CASE PickSetup(g)
    <2>1. PICK o, n : SetupLocal(g, [Idle EXCEPT !.pc = "picked", !.job = o, !.revision = n], NoRun)
      BY <1>2 DEF PickSetup
    <2>2. [Idle EXCEPT !.pc = "picked", !.job = o, !.revision = n].pc = "picked"
      BY DEF Idle
    <2> QED
      BY <1>1, <2>1, <2>2 DEF Between, AtStep
  <1>3. CASE ObservePlan(g)
    <2>1. Goto(g, "observed").pc = "observed"
      BY <1>0 DEF Goto, ThreadTypes
    <2> QED
      BY <1>1, <1>3, <2>1 DEF ObservePlan, Between, AtStep
  <1>4. CASE BeginSetupRefused(g) \/ DeferSetup(g)
    <2>1. SetupLocal(g, Idle, NoRun) /\ Idle.pc = "idle"
      BY <1>4 DEF BeginSetupRefused, DeferSetup, Idle
    <2> QED
      BY <1>1, <2>1 DEF Between, AtStep
  <1>5. CASE PublishRun(g)
    <2>1. PICK pc \in {"resetting", "outdated"} :
             SetupLocal(g, [loop[g] EXCEPT !.active = TRUE, !.pc = pc], NoRun)
      BY <1>5 DEF PublishRun
    <2>2. [loop[g] EXCEPT !.active = TRUE, !.pc = pc].pc = pc
      BY <1>0 DEF ThreadTypes
    <2> QED
      BY <1>1, <2>1, <2>2 DEF Between, AtStep
  <1>6. ASSUME NEW outcome \in {"failed", "cancelled", "unconfirmed"}, Close(g, outcome)
        PROVE  StepsInv'
    <2> DEFINE next == [loop[g] EXCEPT !.pc = "closing", !.outcome = outcome]
    <2>1. next.pc = "closing" /\ next.outcome = outcome
      BY <1>0 DEF ThreadTypes
    <2>2. SetupLocal(g, next, NoRun)
      BY <1>6 DEF Close
    <2> HIDE DEF next
    <2> QED
      BY <1>1, <2>1, <2>2 DEF Between, AtStep
  <1> QED
    BY <1>2, <1>3, <1>4, <1>5, <1>6

\* What a thread has to show of its steps after it moved.
LEMMA RunHolds ==
    ASSUME NEW g \in Guis, NEW o, NEW f, NEW n \in Nat \ {0}, NEW pc, NEW outcome,
           NEW seen, NEW phase, NEW exit,
           loop'[g].job = o, loop'[g].fence = f, loop'[g].pc = pc, loop'[g].outcome = outcome,
           exec'[g] = [seen |-> seen, index |-> n, phase |-> phase, exit |-> exit],
           pc = "resetting" => n = 1,
           pc \in Between \cup AtStep => DoneBefore(o, n, f)',
           pc \in Between => QuietFrom(o, n)',
           pc = "stepping" => n \in DOMAIN StepsOf(o)',
           pc \in AtStep => RunsAt(o, n, f)' /\ QuietFrom(o, n + 1)',
           pc = "closing" /\ outcome = "succeeded" => AllBy(o, f)'
    PROVE  RunInv(g)'
  <1>1. /\ exec'[g].seen = seen /\ exec'[g].index = n /\ exec'[g].phase = phase
        /\ exec'[g].exit = exit
    OBVIOUS
  <1>2. exec'[g] = [seen  |-> exec'[g].seen,  index |-> exec'[g].index,
                    phase |-> exec'[g].phase, exit  |-> exec'[g].exit]
    BY <1>1
  <1>3. DoneBefore(loop[g].job, exec[g].index, loop[g].fence)' = DoneBefore(o, n, f)'
    BY <1>1 DEF DoneBefore, StepsOf
  <1>4. QuietFrom(loop[g].job, exec[g].index)' = QuietFrom(o, n)'
    BY <1>1 DEF QuietFrom, StepsOf
  <1>5. QuietFrom(loop[g].job, exec[g].index + 1)' = QuietFrom(o, n + 1)'
    BY <1>1 DEF QuietFrom, StepsOf
  <1>6. RunsAt(loop[g].job, exec[g].index, loop[g].fence)' = RunsAt(o, n, f)'
    BY <1>1 DEF RunsAt, StepsOf
  <1>7. AllBy(loop[g].job, loop[g].fence)' = AllBy(o, f)'
    BY <1>1 DEF AllBy
  <1>8. StepsOf(loop[g].job)' = StepsOf(o)'
    BY DEF StepsOf
  <1> QED
    BY <1>1, <1>2, <1>3, <1>4, <1>5, <1>6, <1>7, <1>8, Zenon DEF RunInv, Between, AtStep

\* All the steps have been done by the attempt when the last boundary is passed.
LEMMA BoundaryKeepsSteps ==
    ASSUME Standing, BaseInv', Granted, NEW g \in Guis, Boundary(g) PROVE StepsInv'
  <1>0. /\ loop[g] \in ThreadTypes /\ loop[g].pc = "boundary" /\ loop[g].pc \in SetupRun
        /\ loop \in [Guis -> ThreadTypes] /\ exec = [h \in Guis |-> exec[h]]
    BY ThreadType, TypesOf DEF Standing, Boundary, SetupRun, StepsInv, BaseInv
  <1>1. PICK o \in Ops : o = loop[g].job /\ InOrder(StepsOf(o)) /\ IsSetup(o) /\ OpInv(o)
    BY <1>0, RunIsSetup DEF Standing, StepsInv
  <1>2. /\ DoneBefore(o, exec[g].index, loop[g].fence) /\ QuietFrom(o, exec[g].index)
        /\ exec[g].index \in Nat \ {0}
        /\ exec[g] = [seen  |-> exec[g].seen,  index |-> exec[g].index,
                      phase |-> exec[g].phase, exit  |-> exec[g].exit]
    BY <1>0, <1>1 DEF Standing, StepsInv, RunInv, Between
  <1>3. CASE Close(g, "cancelled")
    BY <1>3, QuietKeepsSteps
  <1>4. CASE exec[g].index > Len(StepsOf(Job(g))) /\ Close(g, "succeeded")
    <2> DEFINE next == [loop[g] EXCEPT !.pc = "closing", !.outcome = "succeeded"]
    <2>1. /\ next.pc = "closing" /\ next.outcome = "succeeded"
          /\ next.job = loop[g].job /\ next.fence = loop[g].fence
      BY <1>0 DEF ThreadTypes
    <2>2. SetupLocal(g, next, NoRun)
      BY <1>4 DEF Close
    <2> HIDE DEF next
    <2>3. PICK f : f = loop[g].fence
      OBVIOUS
    <2>4. \A i \in DOMAIN StepsOf(o) : step[o][StepsOf(o)[i]].attempt = f
      BY <1>1, <1>2, <1>4, <2>3 DEF DoneBefore, InOrder, Job
    <2>5. AllBy(o, f)
      <3>1. \A k \in StepKinds : step[o][k].status # "none" =>
               \E i \in DOMAIN StepsOf(o) : StepsOf(o)[i] = k
        BY <1>1 DEF OpInv
      <3> QED
        BY <2>4, <3>1 DEF AllBy
    <2>6. step' = step /\ loop'[g] = next /\ exec'[g] = NoRun
      BY <1>0, <2>2 DEF SetupLocal, Local, Stays, setupVars
    <2>7. AllBy(o, f)'
      BY <2>5, <2>6 DEF AllBy
    <2>8. RunInv(g)'
      BY <1>1, <2>1, <2>3, <2>6, <2>7, RunHolds DEF Between, AtStep, NoRun
    <2> QED
      BY <2>2, <2>8, LocalKeepsSteps
  <1>5. CASE exec[g].index <= Len(StepsOf(Job(g))) /\ SetupLocal(g, Goto(g, "stepping"), exec[g])
    <2> DEFINE next == Goto(g, "stepping")
    <2>1. next.pc = "stepping" /\ next.job = loop[g].job /\ next.fence = loop[g].fence
      BY <1>0 DEF ThreadTypes, Goto
    <2>2. SetupLocal(g, next, exec[g])
      BY <1>5
    <2> HIDE DEF next
    <2>3. /\ UNCHANGED <<step, plan, link>> /\ loop'[g] = next /\ exec'[g] = exec[g]
      BY <1>0, <2>2 DEF SetupLocal, Local, Stays, setupVars
    <2>4. exec[g].index \in DOMAIN StepsOf(o)
      BY <1>1, <1>2, <1>5 DEF InOrder, Job
    <2>5. PICK n, f : n \in Nat \ {0} /\ n = exec[g].index /\ f = loop[g].fence
      BY <1>2
    <2>6. StepsOf(o)' = StepsOf(o) /\ DoneBefore(o, n, f)' /\ QuietFrom(o, n)'
      BY <1>2, <2>3, <2>5 DEF DoneBefore, QuietFrom, StepsOf
    <2>7. PICK seen, phase, exit :
             exec[g] = [seen |-> seen, index |-> n, phase |-> phase, exit |-> exit]
      BY <1>2, <2>5
    <2>8. RunInv(g)'
      BY <1>1, <2>1, <2>3, <2>4, <2>5, <2>6, <2>7, RunHolds DEF Between, AtStep
    <2> QED
      BY <2>2, <2>8, LocalKeepsSteps
  <1> QED
    <2>1. exec[g].index > Len(StepsOf(Job(g))) \/ exec[g].index <= Len(StepsOf(Job(g)))
      BY <1>1, <1>2 DEF InOrder, Job
    <2> QED
      BY <1>3, <1>4, <1>5, <2>1 DEF Boundary

-------------------------------------------------------------------------------
(* The steps of the thread in a run *)

\* What a thread in a run stands on.
RunFacts(g, o, n, f) ==
    /\ o = loop[g].job /\ f = loop[g].fence /\ n = exec[g].index
    /\ exec[g] = [seen |-> exec[g].seen, index |-> n, phase |-> exec[g].phase, exit |-> exec[g].exit]
    /\ InOrder(StepsOf(o)) /\ IsSetup(o) /\ OpInv(o) /\ status[o] \in ACTIVE
    /\ loop[g] \in ThreadTypes /\ loop \in [Guis -> ThreadTypes] /\ TypeOK
    /\ exec = [h \in Guis |-> exec[h]] /\ step = [other \in Ops |-> step[other]]
    /\ loop[g].pc = "resetting" => n = 1
    /\ loop[g].pc \in Between \cup AtStep => DoneBefore(o, n, f)
    /\ loop[g].pc \in Between => QuietFrom(o, n)
    /\ loop[g].pc = "stepping" => n \in DOMAIN StepsOf(o)
    /\ loop[g].pc \in AtStep => RunsAt(o, n, f) /\ QuietFrom(o, n + 1)

LEMMA InRun ==
    ASSUME Standing, NEW g \in Guis, loop[g].pc \in SetupRun
    PROVE  \E o \in Ops, n \in Nat \ {0}, f \in Fences : RunFacts(g, o, n, f)
  <1>1. /\ loop[g].job \in Ops /\ IsSetup(loop[g].job) /\ InOrder(StepsOf(loop[g].job))
        /\ status[loop[g].job] \in ACTIVE
    BY RunIsSetup
  <1>2. loop[g] \in ThreadTypes /\ loop \in [Guis -> ThreadTypes] /\ TypeOK
    BY ThreadType, TypesOf DEF Standing, BaseInv
  <1>3. /\ exec = [h \in Guis |-> exec[h]] /\ step = [other \in Ops |-> step[other]]
        /\ OpInv(loop[g].job) /\ RunInv(g)
    BY <1>1 DEF Standing, StepsInv
  <1>4. PICK o \in Ops, n \in Nat \ {0}, f \in Fences :
           o = loop[g].job /\ f = loop[g].fence /\ n = exec[g].index
    <2>1. loop[g].fence \in Fences
      BY PcSets DEF Standing, BaseInv, Holders
    <2> QED
      BY <1>1, <1>3, <2>1 DEF RunInv
  <1>5. /\ loop[g].pc = "resetting" => n = 1
        /\ loop[g].pc \in Between \cup AtStep => DoneBefore(o, n, f)
        /\ loop[g].pc \in Between => QuietFrom(o, n)
        /\ loop[g].pc = "stepping" => n \in DOMAIN StepsOf(o)
        /\ loop[g].pc \in AtStep => RunsAt(o, n, f) /\ QuietFrom(o, n + 1)
    BY <1>3, <1>4 DEF RunInv
  <1>6. exec[g] = [seen  |-> exec[g].seen,  index |-> n,
                   phase |-> exec[g].phase, exit  |-> exec[g].exit]
    BY <1>3, <1>4 DEF RunInv
  <1>7. RunFacts(g, o, n, f)
    BY <1>1, <1>2, <1>3, <1>4, <1>5, <1>6 DEF RunFacts
  <1> QED
    BY <1>7

\* A step of the plan goes on.
LEMMA GoesOn ==
    ASSUME Standing, BaseInv', Granted, NEW g \in Guis, loop[g].pc \in AtStep, NEW pc \in AtStep,
           loop' = [loop EXCEPT ![g] = [loop[g] EXCEPT !.pc = pc]],
           NEW x, exec' = [exec EXCEPT ![g] = x], NEW phase, NEW exit,
           x = [seen |-> exec[g].seen, index |-> exec[g].index, phase |-> phase, exit |-> exit],
           UNCHANGED <<plan, link, step, status>>
    PROVE  StepsInv'
  <1>1. loop[g].pc \in SetupRun
    BY DEF AtStep, SetupRun
  <1>a. PICK o \in Ops, n \in Nat \ {0}, f \in Fences : RunFacts(g, o, n, f)
    BY <1>1, InRun
  <1>2. /\ o = loop[g].job /\ f = loop[g].fence /\ n = exec[g].index
        /\ loop[g] \in ThreadTypes /\ loop \in [Guis -> ThreadTypes]
        /\ exec = [h \in Guis |-> exec[h]] /\ step = [other \in Ops |-> step[other]]
        /\ DoneBefore(o, n, f) /\ RunsAt(o, n, f) /\ QuietFrom(o, n + 1)
    BY <1>a DEF RunFacts
  <1> DEFINE next == [loop[g] EXCEPT !.pc = pc]
  <1>3. /\ next.pc = pc /\ next.job = o /\ next.fence = f /\ next.outcome = loop[g].outcome
        /\ loop' = [loop EXCEPT ![g] = next]
    BY <1>2 DEF ThreadTypes
  <1> HIDE DEF next
  <1>4. loop'[g] = next /\ exec'[g] = x
    BY <1>2, <1>3
  <1>5. DoneBefore(o, n, f)' /\ RunsAt(o, n, f)' /\ QuietFrom(o, n + 1)'
    BY <1>2 DEF DoneBefore, RunsAt, QuietFrom, StepsOf
  <1>6. pc \notin Between /\ pc # "resetting" /\ pc # "closing" /\ pc # "stepping"
    BY DEF Between, AtStep
  <1>7. PICK seen : x = [seen |-> seen, index |-> n, phase |-> phase, exit |-> exit]
    BY <1>2
  <1>8. RunInv(g)'
    <2>1. PICK outcome : outcome = loop[g].outcome
      OBVIOUS
    <2>2. /\ loop'[g].job = o /\ loop'[g].fence = f /\ loop'[g].pc = pc
          /\ loop'[g].outcome = outcome
          /\ exec'[g] = [seen |-> seen, index |-> n, phase |-> phase, exit |-> exit]
      BY <1>3, <1>4, <1>7, <2>1
    <2> QED
      BY <1>5, <1>6, <2>2, RunHolds
  <1>9. \A other \in Ops : step'[other] = step[other] /\ StatusMoves(other)
    BY DEF StatusMoves
  <1> QED
    BY <1>2, <1>3, <1>8, <1>9, ThreadKeepsSteps

\* An attempt ends without a success.
LEMMA GivesUp ==
    ASSUME Standing, BaseInv', Granted, NEW g \in Guis, NEW next, next.pc = "closing",
           next.outcome # "succeeded", loop' = [loop EXCEPT ![g] = next],
           exec' = [exec EXCEPT ![g] = NoRun], UNCHANGED <<plan, link, step, status>>
    PROVE  StepsInv'
  <1>1. RunInv(g)'
    BY OutsideSteps DEF Between, AtStep
  <1>2. \A other \in Ops : step'[other] = step[other] /\ StatusMoves(other)
    BY DEF StatusMoves
  <1>3. step' = [other \in Ops |-> step'[other]]
    BY DEF Standing, StepsInv
  <1> QED
    BY <1>1, <1>2, <1>3, ThreadKeepsSteps

LEMMA BeginKeepsSteps ==
    ASSUME Standing, BaseInv', Granted, NEW g \in Guis, BeginSetup(g) PROVE StepsInv'
  <1>1. /\ loop[g] \in ThreadTypes /\ loop \in [Guis -> ThreadTypes] /\ TypeOK
        /\ exec = [h \in Guis |-> exec[h]] /\ step = [other \in Ops |-> step[other]]
        /\ loop[g].job \in Ops /\ RunInv(g)
    BY ThreadType, TypesOf DEF Standing, StepsInv, BaseInv, Threads, BeginSetup
  <1> DEFINE next == [loop[g] EXCEPT !.pc = "begun", !.fence = Len(attempts) + 1, !.revision = 0]
  <1>2. loop' = [loop EXCEPT ![g] = next]
    BY <1>1 DEF BeginSetup
  <1>3. next.pc = "begun"
    BY <1>1 DEF ThreadTypes
  <1> HIDE DEF next
  <1>4. loop'[g].pc = "begun" /\ exec' = exec /\ UNCHANGED <<step, plan, link>>
    BY <1>1, <1>2, <1>3 DEF BeginSetup, setupVars
  <1>5. exec' = [exec EXCEPT ![g] = exec[g]]
    BY <1>1, <1>4
  <1>6. RunInv(g)'
    BY <1>1, <1>4, Aside DEF RunInv
  <1>7. PICK o \in Ops : /\ o = loop[g].job /\ Record(o, "running", "none")
                         /\ CanBegin(o, loop[g].revision)
    BY <1>1 DEF BeginSetup, BeginAttempt, Job
  <1>8. status[o] = "queued"
    BY <1>7, TableFacts, SlotType DEF CanBegin
  <1>9. \A other \in Ops : /\ step'[other] = step[other]
                           /\ Kind[other] = "setup_operation" => StatusMoves(other)
    BY <1>1, <1>4, <1>7, <1>8, RecordOthers DEF StatusMoves
  <1>10. step' = [other \in Ops |-> step'[other]]
    BY <1>1, <1>4
  <1> QED
    BY <1>2, <1>4, <1>5, <1>6, <1>9, <1>10, ThreadKeepsSteps

LEMMA ResetKeepsSteps ==
    ASSUME Standing, BaseInv', Granted, NEW g \in Guis, Reset(g) PROVE StepsInv'
  <1>1. loop[g].pc \in SetupRun /\ loop[g].pc = "resetting"
    BY DEF Reset, SetupRun
  <1>a. PICK o \in Ops, n \in Nat \ {0}, f \in Fences : RunFacts(g, o, n, f)
    BY <1>1, InRun
  <1>2. /\ o = loop[g].job /\ f = loop[g].fence /\ n = exec[g].index
        /\ InOrder(StepsOf(o)) /\ IsSetup(o) /\ OpInv(o) /\ status[o] \in ACTIVE
        /\ loop[g] \in ThreadTypes /\ loop \in [Guis -> ThreadTypes]
        /\ exec = [h \in Guis |-> exec[h]] /\ step = [other \in Ops |-> step[other]] /\ n = 1
    BY <1>1, <1>a DEF RunFacts
  <1>b. PICK seen, phase, exit :
           exec[g] = [seen |-> seen, index |-> n, phase |-> phase, exit |-> exit]
    BY <1>a DEF RunFacts
  <1>3. ResetSteps(o, f) /\ UNCHANGED <<storeVars, plan, link>>
    BY <1>2 DEF Reset, ResetSteps, Job, Fence
  <1>4. /\ OpInv(o)' /\ step' = [other \in Ops |-> step'[other]]
        /\ \A other \in Ops \ {o} : step'[other] = step[other]
        /\ \A k \in StepKinds : step'[o][k].status # "running"
    BY <1>2, <1>3, ResetRows
  <1> DEFINE next == Goto(g, "boundary")
  <1>5. /\ next.pc = "boundary" /\ next.job = o /\ next.fence = f
        /\ next.outcome = loop[g].outcome
    BY <1>2 DEF ThreadTypes, Goto
  <1>6. loop' = [loop EXCEPT ![g] = next] /\ exec' = [exec EXCEPT ![g] = exec[g]]
    BY DEF Reset, SetupCommit, Commit, Stays
  <1> HIDE DEF next
  <1>7. loop'[g] = next /\ exec'[g] = exec[g]
    BY <1>2, <1>6
  <1>8. StepsOf(o)' = StepsOf(o)
    BY <1>3 DEF StepsOf
  <1>9. DoneBefore(o, n, f)' /\ QuietFrom(o, n)'
    BY <1>2, <1>4, <1>8 DEF DoneBefore, QuietFrom, InOrder
  <1>10. RunInv(g)'
    BY <1>2, <1>b, <1>5, <1>7, <1>9, RunHolds DEF Between, AtStep
  <1>11. \A other \in Ops : \/ step'[other] = step[other] /\ StatusMoves(other)
                            \/ OpInv(other)' /\ other = loop[g].job
    BY <1>2, <1>3, <1>4 DEF storeVars, opVars, StatusMoves
  <1> QED
    BY <1>1, <1>3, <1>4, <1>6, <1>10, <1>11, ThreadKeepsSteps

LEMMA StartKeepsSteps ==
    ASSUME Standing, BaseInv', Granted, NEW g \in Guis, StartStep(g) PROVE StepsInv'
  <1>1. loop[g].pc \in SetupRun /\ loop[g].pc = "stepping"
    BY DEF StartStep, SetupRun
  <1>2. PICK o \in Ops, n \in Nat \ {0}, f \in Fences : RunFacts(g, o, n, f)
    BY <1>1, InRun
  <1>3. /\ o = loop[g].job /\ f = loop[g].fence /\ n = exec[g].index
        /\ InOrder(StepsOf(o)) /\ IsSetup(o) /\ OpInv(o) /\ status[o] \in ACTIVE /\ TypeOK
        /\ loop[g] \in ThreadTypes /\ loop \in [Guis -> ThreadTypes]
        /\ exec = [h \in Guis |-> exec[h]] /\ step = [other \in Ops |-> step[other]]
        /\ n \in DOMAIN StepsOf(o) /\ DoneBefore(o, n, f) /\ QuietFrom(o, n)
    BY <1>1, <1>2 DEF RunFacts, Between
  <1>4. PICK seen, phase, exit :
           exec[g] = [seen |-> seen, index |-> n, phase |-> phase, exit |-> exit]
    BY <1>2 DEF RunFacts
  <1>5. StepStarted(o, f, StepsOf(o)[n])
    BY <1>3 DEF StartStep, Job, Fence, Kind_
  <1>6. /\ OpInv(o)' /\ step' = [other \in Ops |-> step'[other]]
        /\ \A other \in Ops \ {o} : step'[other] = step[other]
        /\ DoneBefore(o, n, f)' /\ RunsAt(o, n, f)' /\ QuietFrom(o, n + 1)'
    BY <1>3, <1>5, StartRows
  <1>7. Record(o, status[o], flag[o]) /\ UNCHANGED <<plan, link>>
    BY <1>5 DEF StepStarted
  <1> DEFINE next == Goto(g, "working")
  <1>8. next.pc = "working" /\ next.job = o /\ next.fence = f /\ next.outcome = loop[g].outcome
    BY <1>3 DEF ThreadTypes, Goto
  <1>9. loop' = [loop EXCEPT ![g] = next] /\ exec' = [exec EXCEPT ![g] = exec[g]]
    BY DEF StartStep, SetupCommit, Commit, Stays
  <1> HIDE DEF next
  <1>10. loop'[g] = next /\ exec'[g] = exec[g]
    BY <1>3, <1>9
  <1>11. RunInv(g)'
    BY <1>3, <1>4, <1>6, <1>8, <1>10, RunHolds DEF Between, AtStep
  <1>12. \A other \in Ops : \/ step'[other] = step[other] /\ StatusMoves(other)
                            \/ OpInv(other)' /\ other = loop[g].job
    BY <1>3, <1>6, <1>7, RecordOthers DEF StatusMoves
  <1> QED
    BY <1>1, <1>6, <1>7, <1>9, <1>11, <1>12, ThreadKeepsSteps

LEMMA FinishKeepsSteps ==
    ASSUME Standing, BaseInv', Granted, NEW g \in Guis, FinishStep(g) PROVE StepsInv'
  <1>1. loop[g].pc \in SetupRun /\ loop[g].pc \in AtStep /\ loop[g].pc = "working"
    BY DEF FinishStep, SetupRun, AtStep
  <1>2. PICK o \in Ops, n \in Nat \ {0}, f \in Fences : RunFacts(g, o, n, f)
    BY <1>1, InRun
  <1>3. /\ o = loop[g].job /\ f = loop[g].fence /\ n = exec[g].index
        /\ InOrder(StepsOf(o)) /\ IsSetup(o) /\ OpInv(o) /\ status[o] \in ACTIVE /\ TypeOK
        /\ loop[g] \in ThreadTypes /\ loop \in [Guis -> ThreadTypes]
        /\ exec = [h \in Guis |-> exec[h]] /\ step = [other \in Ops |-> step[other]]
        /\ DoneBefore(o, n, f) /\ RunsAt(o, n, f) /\ QuietFrom(o, n + 1)
    BY <1>1, <1>2 DEF RunFacts
  <1>4. n \in DOMAIN StepsOf(o)
    BY <1>3 DEF RunsAt
  <1>5. PICK new : new = Decided(g) /\ StepFinished(o, f, StepsOf(o)[n], new)
    BY <1>3 DEF FinishStep, Job, Fence, Kind_
  <1>6. /\ OpInv(o)' /\ step' = [other \in Ops |-> step'[other]]
        /\ \A other \in Ops \ {o} : step'[other] = step[other]
        /\ new \in SATISFIED => DoneBefore(o, n + 1, f)' /\ QuietFrom(o, n + 1)'
    BY <1>3, <1>4, <1>5, FinishRows
  <1>7. Record(o, status[o], flag[o]) /\ UNCHANGED <<plan, link>>
    BY <1>5 DEF StepFinished
  <1>8. \A other \in Ops : \/ step'[other] = step[other] /\ StatusMoves(other)
                           \/ OpInv(other)' /\ other = loop[g].job
    BY <1>3, <1>6, <1>7, RecordOthers DEF StatusMoves
  <1>9. ASSUME NEW next, NEW x, loop' = [loop EXCEPT ![g] = next],
               exec' = [exec EXCEPT ![g] = x], RunInv(g)'
        PROVE  StepsInv'
    BY <1>1, <1>6, <1>7, <1>8, <1>9, ThreadKeepsSteps
  <1>10. CASE new \in SATISFIED
    <2> DEFINE next == Goto(g, "boundary")
               x == [NoRun EXCEPT !.index = exec[g].index + 1]
    <2>1. next.pc = "boundary" /\ next.job = o /\ next.fence = f /\ next.outcome = loop[g].outcome
      BY <1>3 DEF ThreadTypes, Goto
    <2>2. x = [seen |-> Unseen, index |-> n + 1, phase |-> 0, exit |-> "none"]
      BY <1>3 DEF NoRun
    <2>3. loop' = [loop EXCEPT ![g] = next] /\ exec' = [exec EXCEPT ![g] = x]
      BY <1>5, <1>10 DEF FinishStep, SetupCommit, Commit, Stays
    <2> HIDE DEF next, x
    <2>4. loop'[g] = next /\ exec'[g] = x
      BY <1>3, <2>3
    <2>5. PICK m \in Nat \ {0} : m = n + 1
      OBVIOUS
    <2>6. DoneBefore(o, m, f)' /\ QuietFrom(o, m)'
      BY <1>6, <1>10, <2>5
    <2>7. RunInv(g)'
      BY <2>1, <2>2, <2>4, <2>5, <2>6, RunHolds DEF Between, AtStep
    <2> QED
      BY <1>9, <2>3, <2>7
  <1>11. CASE new \notin SATISFIED
    <2>1. PICK outcome \in {"wait", "failed"} :
             SetupCommit(g, [loop[g] EXCEPT !.pc = "closing", !.outcome = outcome], NoRun)
      BY <1>5, <1>11 DEF FinishStep
    <2> DEFINE next == [loop[g] EXCEPT !.pc = "closing", !.outcome = outcome]
    <2>2. next.pc = "closing" /\ next.outcome = outcome
      BY <1>3 DEF ThreadTypes
    <2>3. loop' = [loop EXCEPT ![g] = next] /\ exec' = [exec EXCEPT ![g] = NoRun]
      BY <2>1 DEF SetupCommit, Commit, Stays
    <2> HIDE DEF next
    <2>4. RunInv(g)'
      BY <2>2, <2>3, OutsideSteps DEF Between, AtStep
    <2> QED
      BY <1>9, <2>3, <2>4
  <1> QED
    BY <1>10, <1>11

\* A child has ended.
LEMMA RunUpdate ==
    ASSUME NEW r, NEW e, r = [seen |-> r.seen, index |-> r.index, phase |-> r.phase, exit |-> r.exit]
    PROVE  \E p : [r EXCEPT !.phase = @ + 1, !.exit = e]
                     = [seen |-> r.seen, index |-> r.index, phase |-> p, exit |-> e]
  <1>1. PICK a, b, c, d : r = [seen |-> a, index |-> b, phase |-> c, exit |-> d]
    OBVIOUS
  <1>2. r.seen = a /\ r.index = b /\ r.phase = c
    BY <1>1
  <1>3. PICK p : p = r.phase + 1
    OBVIOUS
  <1>4. [[seen |-> a, index |-> b, phase |-> c, exit |-> d] EXCEPT !.phase = p]
           = [seen |-> a, index |-> b, phase |-> p, exit |-> d]
    OBVIOUS
  <1>5. [[seen |-> a, index |-> b, phase |-> p, exit |-> d] EXCEPT !.exit = e]
           = [seen |-> a, index |-> b, phase |-> p, exit |-> e]
    OBVIOUS
  <1>6. [r EXCEPT !.phase = p, !.exit = e] = [[r EXCEPT !.phase = p] EXCEPT !.exit = e]
    OBVIOUS
  <1>7. [r EXCEPT !.phase = p] = [seen |-> a, index |-> b, phase |-> p, exit |-> d]
    BY <1>1, <1>4, Zenon
  <1>8. [r EXCEPT !.phase = p, !.exit = e] = [seen |-> a, index |-> b, phase |-> p, exit |-> e]
    BY <1>5, <1>6, <1>7, Zenon
  <1> QED
    BY <1>2, <1>3, <1>8

\* The children of a step.
LEMMA ChildrenKeepSteps ==
    ASSUME Standing, BaseInv', Granted, NEW g \in Guis,
           \/ ChildBoundary(g) \/ Intend(g) \/ SpawnChild(g) \/ ConfirmChild(g) \/ ChildEnded(g)
           \/ SpawnChildFails(g) \/ KillChild(g)
    PROVE  StepsInv'
  <1>0. /\ loop[g] \in ThreadTypes /\ loop \in [Guis -> ThreadTypes]
        /\ exec = [h \in Guis |-> exec[h]]
        /\ exec[g] = [seen  |-> exec[g].seen,  index |-> exec[g].index,
                      phase |-> exec[g].phase, exit  |-> exec[g].exit]
    BY ThreadType, TypesOf DEF Standing, StepsInv, RunInv, BaseInv
  <1>1. ASSUME NEW pc \in AtStep, loop[g].pc \in AtStep,
               loop' = [loop EXCEPT ![g] = [loop[g] EXCEPT !.pc = pc]],
               exec' = [exec EXCEPT ![g] = exec[g]] \/ exec' = exec,
               UNCHANGED <<plan, link, step, status>>
        PROVE  StepsInv'
    <2>1. exec' = [exec EXCEPT ![g] = exec[g]]
      BY <1>0, <1>1
    <2>2. PICK phase, exit : phase = exec[g].phase /\ exit = exec[g].exit
      OBVIOUS
    <2>3. exec[g] = [seen |-> exec[g].seen, index |-> exec[g].index, phase |-> phase, exit |-> exit]
      BY <1>0, <2>2
    <2> QED
      BY <1>1, <2>1, <2>3, GoesOn
  <1>2. ASSUME NEW outcome \in {"failed", "unconfirmed"},
               loop' = [loop EXCEPT ![g] = [loop[g] EXCEPT !.pc = "closing", !.outcome = outcome]],
               exec' = [exec EXCEPT ![g] = NoRun], UNCHANGED <<plan, link, step, status>>
        PROVE  StepsInv'
    <2> DEFINE next == [loop[g] EXCEPT !.pc = "closing", !.outcome = outcome]
    <2>1. next.pc = "closing" /\ next.outcome = outcome
      BY <1>0 DEF ThreadTypes
    <2> HIDE DEF next
    <2> QED
      BY <1>2, <2>1, GivesUp DEF next
  <1>3. CASE ChildBoundary(g)
    <2>1. CASE Close(g, "cancelled")
      BY <2>1, QuietKeepsSteps
    <2>2. CASE SetupLocal(g, Goto(g, "intending"), exec[g])
      BY <1>1, <1>3, <2>2 DEF ChildBoundary, SetupLocal, Local, Stays, Goto, AtStep, setupVars,
                             storeVars, opVars
    <2> QED
      BY <1>3, <2>1, <2>2 DEF ChildBoundary
  <1>4. CASE Intend(g)
    BY <1>1, <1>4 DEF Intend, ChildIntent, Commit, Stays, Goto, AtStep, setupVars, opVars
  <1>5. CASE SpawnChild(g)
    <2>1. loop' = [loop EXCEPT ![g] = [loop[g] EXCEPT !.pc = "launched"]]
      BY <1>5 DEF SpawnChild
    <2> QED
      BY <1>1, <1>5, <2>1 DEF SpawnChild, AtStep, setupVars, storeVars, opVars
  <1>6. CASE ConfirmChild(g)
    BY <1>1, <1>6 DEF ConfirmChild, StepLaunched, Commit, Stays, Goto, AtStep, setupVars, opVars
  <1>7. CASE ChildEnded(g)
    <2>1. PICK exit : SetupLocal(g, Goto(g, "working"),
                                 [exec[g] EXCEPT !.phase = @ + 1, !.exit = exit])
      BY <1>7 DEF ChildEnded
    <2> DEFINE x == [exec[g] EXCEPT !.phase = @ + 1, !.exit = exit]
    <2>2. PICK phase : x = [seen |-> exec[g].seen, index |-> exec[g].index, phase |-> phase, exit |-> exit]
      BY <1>0, RunUpdate
    <2>4. SetupLocal(g, Goto(g, "working"), x)
      BY <2>1
    <2> HIDE DEF x
    <2>5. /\ loop' = [loop EXCEPT ![g] = [loop[g] EXCEPT !.pc = "working"]]
          /\ exec' = [exec EXCEPT ![g] = x]
          /\ UNCHANGED <<plan, link, step, status>>
      BY <2>4 DEF SetupLocal, Local, Stays, Goto, setupVars, storeVars, opVars
    <2>6. loop[g].pc \in AtStep /\ "working" \in AtStep
      BY <1>7 DEF ChildEnded, AtStep
    <2> QED
      BY <2>2, <2>5, <2>6, GoesOn
  <1>8. CASE SpawnChildFails(g)
    BY <1>2, <1>8 DEF SpawnChildFails, StepLaunched, SetupCommit, Commit, Stays, setupVars, opVars
  <1>9. CASE KillChild(g)
    <2>1. PICK outcome \in {"failed", "unconfirmed"} :
             loop' = [loop EXCEPT ![g] = [loop[g] EXCEPT !.pc = "closing", !.outcome = outcome]]
      BY <1>9 DEF KillChild
    <2> QED
      BY <1>2, <1>9, <2>1 DEF KillChild, Stays, setupVars, storeVars, opVars
  <1> QED
    BY <1>3, <1>4, <1>5, <1>6, <1>7, <1>8, <1>9

\* The attempt ends, or what is beside it acts.
LEMMA EndKeepsSteps ==
    ASSUME Standing, BaseInv', Granted, NEW g \in Guis, WaitOutdated(g) \/ Report(g)
    PROVE  StepsInv'
  <1>1. loop[g].pc \in SetupRun /\ loop[g].pc \in {"outdated", "closing"}
    BY DEF WaitOutdated, Report, SetupRun
  <1>2. /\ loop' = [loop EXCEPT ![g] = Idle] /\ exec' = [exec EXCEPT ![g] = NoRun]
    BY DEF WaitOutdated, Report, SetupCommit, Commit, Stays
  <1>3. RunInv(g)'
    BY <1>2, OutsideSteps DEF Idle, Between, AtStep
  <1>4. PICK o \in Ops : o = loop[g].job /\ TypeOK
    BY <1>1, RunIsSetup, TypesOf DEF Standing, BaseInv
  <1>5. CASE \/ \E seen : SetupWait(loop[g].job, loop[g].fence, seen)
             \/ \E seen : loop[g].pc = "closing" /\
                          FinishSetup(loop[g].job, loop[g].fence, loop[g].outcome, seen)
    <2>1. /\ OpInv(o)' /\ step' = [other \in Ops |-> step'[other]]
          /\ \A other \in Ops \ {o} : /\ step'[other] = step[other]
                                      /\ status'[other] = status[other]
          /\ UNCHANGED <<plan, link>>
      BY <1>1, <1>4, <1>5, EndRows
    <2>2. \A other \in Ops : \/ step'[other] = step[other] /\ StatusMoves(other)
                             \/ OpInv(other)' /\ other = loop[g].job
      BY <1>4, <2>1 DEF StatusMoves
    <2> QED
      BY <1>1, <1>2, <1>3, <2>1, <2>2, ThreadKeepsSteps
  <1>6. CASE FlagSetupUnconfirmed(loop[g].job, loop[g].fence) \/ UNCHANGED <<storeVars, setupVars>>
    <2>1. UNCHANGED <<plan, link, step>>
      BY <1>6 DEF FlagSetupUnconfirmed, setupVars
    <2>2. status'[o] = status[o] /\ \A other \in Ops \ {o} : status'[other] = status[other]
      BY <1>4, <1>6, RecordOthers DEF FlagSetupUnconfirmed, FlagUnconfirmed, storeVars, opVars
    <2>3. \A other \in Ops : step'[other] = step[other] /\ StatusMoves(other)
      BY <2>1, <2>2 DEF StatusMoves
    <2>4. step' = [other \in Ops |-> step'[other]]
      BY <2>1 DEF Standing, StepsInv
    <2> QED
      BY <1>2, <1>3, <2>1, <2>3, <2>4, ThreadKeepsSteps
  <1> QED
    BY <1>5, <1>6 DEF WaitOutdated, Report, Job, Fence

LEMMA BesideKeepsSteps ==
    ASSUME Standing, BaseInv', Granted, NEW g \in Guis, SetupHeartbeat(g) \/ SetupStopTimesOut(g)
    PROVE  StepsInv'
  <1>1. /\ loop[g] \in ThreadTypes /\ loop \in [Guis -> ThreadTypes]
        /\ exec = [h \in Guis |-> exec[h]] /\ step = [other \in Ops |-> step[other]]
        /\ loop = [h \in Guis |-> loop[h]] /\ RunInv(g)
    BY ThreadType, TypesOf DEF Standing, StepsInv, BaseInv
  <1>2. UNCHANGED <<plan, link, step, status, exec>>
    BY DEF SetupHeartbeat, SetupStopTimesOut, Beat, Local, setupVars, storeVars, opVars
  <1>3. PICK next : /\ loop' = [loop EXCEPT ![g] = next] /\ next.pc = loop[g].pc
                    /\ next.job = loop[g].job /\ next.fence = loop[g].fence
                    /\ next.outcome = loop[g].outcome
    <2>1. CASE SetupHeartbeat(g)
      <3> DEFINE a == [loop[g] EXCEPT !.cancel = TRUE]
                 b == [loop[g] EXCEPT !.cancel = TRUE, !.lost = TRUE]
      <3>1. /\ a.pc = loop[g].pc /\ a.job = loop[g].job /\ a.fence = loop[g].fence
            /\ a.outcome = loop[g].outcome
        BY <1>1 DEF ThreadTypes
      <3>2. /\ b.pc = loop[g].pc /\ b.job = loop[g].job /\ b.fence = loop[g].fence
            /\ b.outcome = loop[g].outcome
        BY <1>1 DEF ThreadTypes
      <3>3. loop' = [loop EXCEPT ![g] = a] \/ loop' = [loop EXCEPT ![g] = b]
        BY <2>1 DEF SetupHeartbeat, Beat, Local
      <3> HIDE DEF a, b
      <3> QED
        BY <3>1, <3>2, <3>3
    <2>2. CASE SetupStopTimesOut(g)
      <3>1. loop' = [loop EXCEPT ![g] = loop[g]]
        BY <1>1, <2>2 DEF SetupStopTimesOut
      <3> QED
        BY <3>1
    <2> QED
      BY <2>1, <2>2
  <1>4. loop'[g] = next
    BY <1>1, <1>3
  <1>5. loop[g].pc \in SetupRun => loop[g].job \in Ops /\ IsSetup(loop[g].job)
    BY RunIsSetup
  <1>6. exec'[g] = exec[g]
    BY <1>2
  <1>7. loop[g].pc \in SetupRun => /\ step'[loop[g].job] = step[loop[g].job]
                                   /\ IsSetup(loop[g].job) /\ PlanStays(loop[g].job)
    BY <1>2, <1>5, PlansStay
  <1>8. RunInv(g)'
    BY <1>1, <1>3, <1>4, <1>6, <1>7, RunStays
  <1>9. \A other \in Ops : step'[other] = step[other] /\ StatusMoves(other)
    BY <1>2 DEF StatusMoves
  <1>10. exec' = [exec EXCEPT ![g] = exec[g]] /\ step' = [other \in Ops |-> step'[other]]
    BY <1>1, <1>2
  <1> QED
    BY <1>2, <1>3, <1>8, <1>9, <1>10, ThreadKeepsSteps

LEMMA SetupKeepsSteps == ASSUME Standing, BaseInv', Granted, SetupStep PROVE StepsInv'
  <1>1. ASSUME NEW g \in Guis, SetupThread(g) PROVE StepsInv'
    <2>1. StepRefused(g) => Close(g, "failed")
      BY DEF StepRefused
    <2> QED
      BY <1>1, <2>1, QuietKeepsSteps, BoundaryKeepsSteps, BeginKeepsSteps, ResetKeepsSteps,
         StartKeepsSteps, FinishKeepsSteps, ChildrenKeepSteps, EndKeepsSteps DEF SetupThread
  <1>2. ASSUME NEW g \in Guis,
               \/ ChildUnconfirmed(g) \/ BookkeepingFails(g) \/ DeferSetup(g)
               \/ SetupHeartbeat(g) \/ SetupStopTimesOut(g)
        PROVE  StepsInv'
    <2>1. ChildUnconfirmed(g) => Close(g, "unconfirmed")
      BY DEF ChildUnconfirmed
    <2>2. BookkeepingFails(g) => Close(g, "failed")
      BY DEF BookkeepingFails
    <2> QED
      BY <1>2, <2>1, <2>2, QuietKeepsSteps, BesideKeepsSteps
  <1> QED
    BY <1>1, <1>2 DEF SetupStep

-------------------------------------------------------------------------------
(* The invariant and what it gives *)

LEMMA StepInvInit == ASSUME ExecutorInit PROVE StepsInv
  <1>1. /\ step = [o \in Ops |-> [k \in StepKinds |-> NoStep]] /\ exec = [g \in Guis |-> NoRun]
        /\ link = [o \in Ops |-> NoLink] /\ status = [o \in Ops |-> "absent"]
        /\ loop = [g \in Guis |-> Down] /\ lease["heavy"] = 0
    BY SlotIsHeavy DEF ExecutorInit, Init, SetupInit, StoreInit
  <1>2. ASSUME NEW o \in Ops PROVE OpInv(o)
    <2>1. status[o] = "absent" /\ ~IsSetup(o)
      BY <1>1 DEF IsSetup, NoLink
    <2>2. /\ step[o] = [k \in StepKinds |-> NoStep]
          /\ \A k \in StepKinds : step[o][k].status = "none"
      BY <1>1 DEF NoStep
    <2>3. \A k \in StepKinds :
             NoStep = [status |-> step[o][k].status, evidence |-> step[o][k].evidence,
                       attempt |-> step[o][k].attempt]
      BY <2>2 DEF NoStep
    <2>4. step[o] = [k \in StepKinds |-> [status   |-> step[o][k].status,
                                          evidence |-> step[o][k].evidence,
                                          attempt  |-> step[o][k].attempt]]
      BY <2>2, <2>3
    <2> QED
      BY <2>1, <2>2, <2>4 DEF OpInv
  <1>3. ASSUME NEW g \in Guis PROVE RunInv(g)
    <2>1. exec[g] = NoRun /\ loop[g].pc = "down"
      BY <1>1 DEF Down, Idle
    <2> QED
      BY <2>1, NoRunShape DEF RunInv, Between, AtStep
  <1>4. step = [o \in Ops |-> step[o]] /\ exec = [g \in Guis |-> exec[g]]
    BY <1>1
  <1> QED
    BY <1>1, <1>2, <1>3, <1>4 DEF StepsInv

LEMMA StandingStep == Standing /\ [ExecutorNext]_allVars => Standing'
  <1> SUFFICES ASSUME Standing, [ExecutorNext]_allVars PROVE Standing'
    OBVIOUS
  <1>1. BaseInv' /\ SetupInv' /\ Granted
    BY ExecutorKeeps, SetupInvStep, StepGrants DEF Standing
  <1>2. StepsInv'
    BY <1>1, SetupKeepsSteps, ServedKeepsSteps, ProcessesKeepSteps, WorldKeepsSteps
       DEF ExecutorNext
  <1> QED
    BY <1>1, <1>2 DEF Standing

LEMMA StandingInvariance == ExecutorSpec => []Standing
  <1>1. ExecutorInit => Standing
    BY ExecutorInitHolds, SetupInvInit, StepInvInit DEF Standing
  <1> QED
    BY <1>1, StandingStep, PTL DEF ExecutorSpec

\* What is shown of the steps of a setup is true, in every plan and after every
\* crash: a step runs only under an attempt, and only when all that it depends on
\* has been satisfied by that same attempt (setup_planner.py build_plan,
\* setup_repository.py reset_steps and step_started, setup_executor.py _attempt).
THEOREM SetupStepsAreCoherent == ExecutorSpec => []StepsAreCoherent
  <1>1. Standing => StepsAreCoherent
    BY DEF Standing, StepsInv, OpInv, StepsAreCoherent, StepsFollowDependencies,
           RunningStepHasAttempt
  <1> QED
    BY <1>1, StandingInvariance, PTL

\* A setup has succeeded only if every step of its plan was done, with evidence,
\* by the attempt that reported it, however many attempts came before
\* (setup_repository.py reset_steps, finish_setup).
THEOREM SetupSuccessHasFreshEvidence == ExecutorSpec => []SuccessHasFreshEvidence
  <1>1. Standing => SuccessHasFreshEvidence
    BY DEF Standing, StepsInv, OpInv, SuccessHasFreshEvidence
  <1> QED
    BY <1>1, StandingInvariance, PTL
===============================================================================
