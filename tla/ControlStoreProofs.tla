-------------------------- MODULE ControlStoreProofs --------------------------
(***************************************************************************)
(* Theorems of ControlStore, for every set of operations of every kind and *)
(* without its bounds on revisions: types, leases and queue; what a        *)
(* transaction may do to the row of one operation (one lemma, StepRows,    *)
(* covers every method, and theorems are read off it); the order of the    *)
(* waiting items; and that the store implements FencedSlots.               *)
(***************************************************************************)
EXTENDS ControlStoreSlots, SequenceTheorems, FiniteSetTheorems, TLAPS

-------------------------------------------------------------------------------
(* The calls that the store answers, whatever revision their callers name.  The *)
(* clients of StoreNext are those of the model checker; the dispatcher and the  *)
(* setup executor name any revision that they have read.                        *)

OwnerCall ==
    \E o \in Ops :
       \/ \E expected \in Nat :
             \/ BlockJob(o, expected)
             \/ BeginAttempt(o, expected)
             \/ \E target \in Statuses, fence \in 0..Len(attempts) :
                   Transition(o, expected, target, fence)
       \/ \E fence \in Fences :
             \/ \E outcome \in {"confirmed", "failed"} : RecordLaunch(o, fence, outcome)
             \/ \E outcome \in {"succeeded", "failed", "cancelled"} :
                   FinishAttempt(o, fence, outcome)
             \/ FlagUnconfirmed(o, fence)

StoreCall == Create \/ UserCommand \/ OwnerCall \/ \E decisions : Recover(decisions)

CallSpec == StoreInit /\ [][StoreCall]_storeVars

LEMMA NextIsCall == StoreNext => StoreCall
<1>1. OwnerCommand => OwnerCall
  BY BoundAssumption DEF OwnerCommand, OwnerCall
<1>2. RecoverStore => \E decisions : Recover(decisions)
  BY DEF RecoverStore
<1> QED BY <1>1, <1>2 DEF StoreNext, StoreCall

LEMMA SpecIsCalls == StoreSpec => CallSpec
BY NextIsCall, PTL DEF StoreSpec, CallSpec

-------------------------------------------------------------------------------
(* The status tables *)

\* What the rows of transitions.py say, as far as the store relies on it.
LEMMA TableFacts ==
    ASSUME NEW kind \in Kinds, NEW current, NEW target, Check(kind, current, target)
    PROVE  /\ current \in Statuses /\ target \in Statuses
           /\ target = "running" => current = "queued"
           /\ target = "cancelling" => current = "running"
           /\ target \in {"held", "blocked"} => kind = "job" /\ current \in WAITING
           /\ target = "queued" =>
                  \/ kind = "job" /\ current \in WAITING
                  \/ kind = "setup_operation" /\ current \in {"waiting_user", "interrupted"}
           /\ current \in ACTIVE => target \notin WAITING
<1>1. CASE kind = "job"
  BY <1>1 DEF Check, TRANSITIONS, JobRows, Statuses, WAITING, ACTIVE
<1>2. CASE kind = "setup_operation"
  BY <1>2 DEF Check, TRANSITIONS, SetupRows, Statuses, WAITING, ACTIVE
<1>3. CASE kind = "refresh_operation"
  BY <1>3 DEF Check, TRANSITIONS, RefreshRows, Statuses, WAITING, ACTIVE
<1> QED BY <1>1, <1>2, <1>3 DEF Kinds

\* A row never starts from a terminal status nor from an absent operation.
LEMMA TableSources ==
    ASSUME NEW kind \in Kinds, NEW current, NEW target, Check(kind, current, target)
    PROVE  current \notin TERMINAL \cup {"absent"}
<1>1. CASE kind = "job"
  BY <1>1 DEF Check, TRANSITIONS, JobRows, TERMINAL
<1>2. CASE kind = "setup_operation"
  BY <1>2 DEF Check, TRANSITIONS, SetupRows, TERMINAL
<1>3. CASE kind = "refresh_operation"
  BY <1>3 DEF Check, TRANSITIONS, RefreshRows, TERMINAL
<1> QED BY <1>1, <1>2, <1>3 DEF Kinds

-------------------------------------------------------------------------------
(* Pieces of a transaction *)

LEMMA AttemptType ==
    ASSUME TypeOK, NEW f \in Fences
    PROVE  attempts[f] \in Attempt /\ attempts[f].op \in Ops
<1>1. attempts[f] \in Attempt
  BY ElementOfSeq DEF TypeOK, Fences
<1> QED BY <1>1 DEF Attempt

LEMMA SlotType == ASSUME NEW o \in Ops PROVE Kind[o] \in Kinds /\ Slot(o) \in Slots
BY KindAssumption DEF Slot, SLOT, Slots, Kinds, QUEUED_KINDS

LEMMA HeldFenceType ==
    ASSUME TypeOK, NEW o \in Ops
    PROVE  /\ HeldFence(o) \in 0..Len(attempts)
           /\ HeldFence(o) # 0 => HeldFence(o) \in Fences /\ lease[Slot(o)] = HeldFence(o)
                                   /\ attempts[HeldFence(o)].op = o
<1> USE SlotType DEF TypeOK
<1>1. Len(attempts) \in Nat
  BY LenProperties
<1> QED BY <1>1 DEF HeldFence, Fences

LEMMA RecordType ==
    ASSUME TypeOK, NEW o \in Ops, NEW s \in Statuses, NEW f \in RecoveryReasons \cup {"none"},
           Record(o, s, f)
    PROVE  /\ status' \in [Ops -> Statuses \cup {"absent"}]
           /\ revision' \in [Ops -> Nat]
           /\ flag' \in [Ops -> RecoveryReasons \cup {"none"}]
BY DEF Record, TypeOK

\* Only the state of one attempt is overwritten.
LEMMA AttemptStateType ==
    ASSUME TypeOK, NEW f \in Fences, NEW state \in {"active", "released", "interrupted"},
           attempts' = [attempts EXCEPT ![f].state = state]
    PROVE  /\ attempts' \in Seq(Attempt) /\ Len(attempts') = Len(attempts)
           /\ attempts'[f] = [attempts[f] EXCEPT !.state = state]
           /\ \A g \in Fences \ {f} : attempts'[g] = attempts[g]
<1>1. attempts[f] \in Attempt
  BY AttemptType
<1>2. [attempts[f] EXCEPT !.state = state] \in Attempt
  BY <1>1 DEF Attempt
<1>3. attempts' = [attempts EXCEPT ![f] = [attempts[f] EXCEPT !.state = state]]
  OBVIOUS
<1> QED BY <1>2, <1>3, ExceptSeq DEF TypeOK, Fences

LEMMA ReleaseType ==
    ASSUME TypeOK, NEW o \in Ops, NEW state \in {"released", "interrupted"}, Release(o, state)
    PROVE  /\ item' \in [Ops -> Item]
           /\ attempts' \in Seq(Attempt) /\ Len(attempts') = Len(attempts)
           /\ lease' \in [Slots -> 0..Len(attempts)]
<1>1. item' \in [Ops -> Item]
  BY DEF Release, TypeOK, NoItem, Item
<1>2. CASE HeldFence(o) = 0
  BY <1>1, <1>2 DEF Release, TypeOK
<1>3. CASE HeldFence(o) # 0
  <2>1. HeldFence(o) \in Fences
    BY <1>3, HeldFenceType
  <2>2. attempts' \in Seq(Attempt) /\ Len(attempts') = Len(attempts)
    BY <1>3, <2>1, AttemptStateType DEF Release
  <2>3. lease' \in [Slots -> 0..Len(attempts)]
    BY <1>3, LenProperties DEF Release, TypeOK
  <2> QED BY <1>1, <2>2, <2>3
<1> QED BY <1>2, <1>3
\* record_launch: only the launch of one attempt is overwritten.
LEMMA RecordLaunchType ==
    ASSUME TypeOK, NEW o \in Ops, NEW fence \in Fences, NEW outcome \in {"confirmed", "failed"},
           RecordLaunch(o, fence, outcome)
    PROVE  /\ attempts' \in Seq(Attempt) /\ Len(attempts') = Len(attempts)
           /\ \A f \in Fences : /\ attempts'[f].op = attempts[f].op
                                /\ attempts'[f].state = attempts[f].state
<1>1. attempts[fence] \in Attempt
  BY AttemptType
<1>2. [attempts[fence] EXCEPT !.launch = outcome] \in Attempt
  BY <1>1 DEF Attempt
<1>3. attempts' = [attempts EXCEPT ![fence] = [attempts[fence] EXCEPT !.launch = outcome]]
  BY DEF RecordLaunch
<1>4. /\ attempts' \in Seq(Attempt) /\ Len(attempts') = Len(attempts)
      /\ attempts'[fence] = [attempts[fence] EXCEPT !.launch = outcome]
      /\ \A f \in Fences \ {fence} : attempts'[f] = attempts[f]
  BY <1>2, <1>3, ExceptSeq DEF TypeOK, Fences
<1> QED BY <1>1, <1>4 DEF Attempt

\* A sequence of as many attempts as before, each well typed.
LEMMA AttemptsAsFunction ==
    ASSUME TypeOK, attempts' \in [Fences -> Attempt]
    PROVE  attempts' \in Seq(Attempt) /\ Len(attempts') = Len(attempts)
<1>1. Len(attempts) \in Nat
  BY LenProperties DEF TypeOK
<1>2. attempts' \in Seq(Attempt)
  BY <1>1, SeqDef DEF Fences
<1>3. DOMAIN attempts' = 1..Len(attempts)
  BY DEF Fences
<1> QED BY <1>1, <1>2, <1>3, LenProperties

-------------------------------------------------------------------------------
(* Type correctness *)

LEMMA ItemTypes ==
    /\ NoItem \in Item /\ ActiveItem \in Item
    /\ \A ord \in Nat : WaitingItem(ord) \in Item
BY DEF NoItem, ActiveItem, WaitingItem, Item

LEMMA EnqueueType ==
    ASSUME TypeOK, NEW o \in Ops, Enqueue(o)
    PROVE  item' \in [Ops -> Item] /\ enqueueOrder' \in Nat
<1>1. enqueueOrder + 1 \in Nat
  BY DEF TypeOK
<1>2. WaitingItem(enqueueOrder + 1) \in Item
  BY <1>1, ItemTypes
<1> QED BY <1>1, <1>2 DEF Enqueue, TypeOK

LEMMA BatchType ==
    ASSUME TypeOK, NEW rank, NEW batch \in SUBSET Ops, rank \in [batch -> 1..Cardinality(batch)],
           AcceptBatch(rank)
    PROVE  TypeOK'
<1>1. Cardinality(batch) \in Nat
  BY OpsAssumption, FS_Subset, FS_CardinalityType
<1>2. DOMAIN rank = batch /\ \A o \in batch : enqueueOrder + rank[o] \in Nat
  BY <1>1 DEF TypeOK
<1>3. item' \in [Ops -> Item]
  BY <1>2, ItemTypes DEF AcceptBatch, TypeOK
<1>4. enqueueOrder' \in Nat /\ queueRevision' \in Nat
  BY <1>1, <1>2 DEF AcceptBatch, QueueChanged, TypeOK
<1>5. status' \in [Ops -> Statuses \cup {"absent"}] /\ revision' \in [Ops -> Nat]
  BY <1>2 DEF AcceptBatch, TypeOK, Statuses
<1>6. known' \subseteq Ops
  BY <1>2 DEF AcceptBatch, TypeOK
<1> QED BY <1>3, <1>4, <1>5, <1>6 DEF AcceptBatch, TypeOK

LEMMA CreateType == TypeOK /\ Create => TypeOK'
<1> SUFFICES ASSUME TypeOK, Create PROVE TypeOK'
  OBVIOUS
<1> USE KindAssumption
<1>1. ASSUME NEW o \in Ops, Submit(o) PROVE TypeOK'
  <2>1. item' \in [Ops -> Item] /\ enqueueOrder' \in Nat
    BY <1>1, EnqueueType DEF Submit, TypeOK
  <2>2. /\ status' \in [Ops -> Statuses \cup {"absent"}] /\ revision' \in [Ops -> Nat]
        /\ flag' \in [Ops -> RecoveryReasons \cup {"none"}]
    BY <1>1, RecordType DEF Submit, Statuses
  <2> QED BY <1>1, <2>1, <2>2 DEF Submit, QueueChanged, TypeOK
<1>2. ASSUME NEW o \in Ops, StartOperation(o) PROVE TypeOK'
  <2>1. item' \in [Ops -> Item] /\ enqueueOrder' \in Nat
    BY <1>2, EnqueueType DEF StartOperation, TypeOK
  <2>2. /\ status' \in [Ops -> Statuses \cup {"absent"}] /\ revision' \in [Ops -> Nat]
        /\ flag' \in [Ops -> RecoveryReasons \cup {"none"}]
    BY <1>2, RecordType DEF StartOperation, Statuses
  <2> QED BY <1>2, <2>1, <2>2 DEF StartOperation, QueueChanged, TypeOK
<1>3. ASSUME NEW rank \in Batches, AcceptBatch(rank) PROVE TypeOK'
  <2>1. PICK batch \in SUBSET Ops : rank \in Injection(batch, 1..Cardinality(batch))
    BY DEF Batches
  <2> QED BY <1>3, <2>1, BatchType DEF Injection
<1>4. ASSUME NEW source \in Ops, NEW o \in Ops, NEW expected, RetryJob(source, expected, o)
      PROVE  TypeOK'
  <2>1. Cardinality({o}) = 1
    BY FS_Singleton
  <2>2. [x \in {o} |-> 1] \in [{o} -> 1..Cardinality({o})]
    BY <2>1
  <2> QED BY <1>4, <2>2, BatchType DEF RetryJob
<1> QED BY <1>1, <1>2, <1>3, <1>4 DEF Create

LEMMA UserCommandType == TypeOK /\ UserCommand => TypeOK'
<1> SUFFICES ASSUME TypeOK, UserCommand PROVE TypeOK'
  OBVIOUS
<1>1. ASSUME NEW o \in Ops, NEW expected, CancelJob(o, expected) PROVE TypeOK'
  <2>1. CASE Release(o, "released") /\ Record(o, "cancelled", "none") /\ QueueChanged
               /\ UNCHANGED <<enqueueOrder, dispatch, known, results>>
    <3>1. /\ status' \in [Ops -> Statuses \cup {"absent"}] /\ revision' \in [Ops -> Nat]
          /\ flag' \in [Ops -> RecoveryReasons \cup {"none"}]
      BY <2>1, RecordType DEF Statuses
    <3> QED BY <2>1, <3>1, ReleaseType DEF QueueChanged, TypeOK
  <2>2. CASE Record(o, "cancelling", "none") /\ UNCHANGED <<queueVars, attempts, lease, known, results>>
    <3>1. /\ status' \in [Ops -> Statuses \cup {"absent"}] /\ revision' \in [Ops -> Nat]
          /\ flag' \in [Ops -> RecoveryReasons \cup {"none"}]
      BY <2>2, RecordType DEF Statuses
    <3> QED BY <2>2, <3>1 DEF queueVars, TypeOK
  <2> QED BY <1>1, <2>1, <2>2 DEF CancelJob
<1>2. ASSUME NEW o \in Ops, NEW expected, Revalidated(o, expected) PROVE TypeOK'
  <2>1. item' \in [Ops -> Item]
    BY <1>2 DEF Revalidated, TypeOK, Item
  <2>2. /\ status' \in [Ops -> Statuses \cup {"absent"}] /\ revision' \in [Ops -> Nat]
        /\ flag' \in [Ops -> RecoveryReasons \cup {"none"}]
    BY <1>2, RecordType DEF Revalidated, Statuses
  <2> QED BY <1>2, <2>1, <2>2 DEF Revalidated, QueueChanged, TypeOK
<1>3. ASSUME NEW o \in Ops, NEW held \in BOOLEAN, HoldChange(o, held) PROVE TypeOK'
  <2>1. item' \in [Ops -> Item]
    BY <1>3 DEF HoldChange, TypeOK, Item
  <2>2. /\ status' \in [Ops -> Statuses \cup {"absent"}] /\ revision' \in [Ops -> Nat]
        /\ flag' \in [Ops -> RecoveryReasons \cup {"none"}]
    BY <1>3 DEF HoldChange, Record, Statuses, WAITING, TypeOK
  <2> QED BY <1>3, <2>1, <2>2 DEF HoldChange, QueueChanged, TypeOK
<1>4. ASSUME NEW expectedQueue, NEW target \in {"running", "paused"},
             SetDispatch(expectedQueue, target)
      PROVE  TypeOK'
  BY <1>4 DEF SetDispatch, QueueChanged, opVars, TypeOK
<1>5. ASSUME NEW expectedQueue, NEW takes \in Bijection(Waiting, Waiting),
             Reorder(expectedQueue, takes)
      PROVE  TypeOK'
  <2>1. \A o \in Waiting : takes[o] \in Ops
    BY DEF Bijection, Injection, Waiting
  <2>2. item' \in [Ops -> Item]
    <3>1. \A o \in Ops : item[o] \in Item
      BY DEF TypeOK
    <3>2. \A o \in Waiting : o \in Ops /\ [item[o] EXCEPT !.ord = item[takes[o]].ord] \in Item
      BY <2>1, <3>1 DEF Item, Waiting
    <3> QED
      BY <1>5, <3>1, <3>2 DEF Reorder
  <2> QED BY <1>5, <2>2 DEF Reorder, QueueChanged, opVars, TypeOK
<1> QED BY <1>1, <1>2, <1>3, <1>4, <1>5 DEF UserCommand, SetHold, SetItemHold

\* The new attempt of begin_attempt gets the next fencing token.
LEMMA BeginAttemptType ==
    ASSUME TypeOK, NEW o \in Ops, NEW expected, BeginAttempt(o, expected)
    PROVE  /\ attempts' \in Seq(Attempt) /\ Len(attempts') = Len(attempts) + 1
           /\ attempts'[Len(attempts) + 1] = [op |-> o, state |-> "active", launch |-> "intended"]
           /\ \A g \in Fences : attempts'[g] = attempts[g]
<1>1. [op |-> o, state |-> "active", launch |-> "intended"] \in Attempt
  BY DEF Attempt
<1> QED BY <1>1, AppendProperties DEF BeginAttempt, TypeOK, Fences

LEMMA TransitionType ==
    ASSUME TypeOK, NEW o \in Ops, NEW expected, NEW target, NEW fence,
           Transition(o, expected, target, fence)
    PROVE  TypeOK'
<1>1. target \in Statuses
  BY TableFacts, SlotType DEF Transition
<1>2. /\ status' \in [Ops -> Statuses \cup {"absent"}] /\ revision' \in [Ops -> Nat]
      /\ flag' \in [Ops -> RecoveryReasons \cup {"none"}]
  BY <1>1, RecordType DEF Transition
<1>3. queueRevision' \in Nat
  BY DEF Transition, QueueChanged, TypeOK
<1>4. /\ item' \in [Ops -> Item] /\ enqueueOrder' \in Nat
      /\ attempts' \in Seq(Attempt) /\ Len(attempts') = Len(attempts)
      /\ lease' \in [Slots -> 0..Len(attempts)]
  <2>1. CASE ApplyActive(o, target, fence)
    BY <2>1, ReleaseType DEF ApplyActive, TypeOK
  <2>2. CASE ApplyIdle(o, target)
    <3>1. CASE Release(o, "released") /\ UNCHANGED enqueueOrder
      BY <3>1, ReleaseType DEF TypeOK
    <3>2. CASE Enqueue(o) /\ UNCHANGED <<lease, attempts>>
      BY <3>2, EnqueueType DEF TypeOK
    <3>3. CASE /\ \/ item' = [item EXCEPT ![o].held = TRUE, ![o].blocked = FALSE]
                  \/ item' = [item EXCEPT ![o].held = FALSE, ![o].blocked = FALSE]
                  \/ item' = [item EXCEPT ![o].blocked = TRUE]
               /\ UNCHANGED <<enqueueOrder, lease, attempts>>
      <4>1. item[o] \in Item
        BY DEF TypeOK
      <4>2. /\ [item[o] EXCEPT !.held = TRUE, !.blocked = FALSE] \in Item
            /\ [item[o] EXCEPT !.held = FALSE, !.blocked = FALSE] \in Item
            /\ [item[o] EXCEPT !.blocked = TRUE] \in Item
        BY <4>1 DEF Item
      <4>3. \/ item' = [item EXCEPT ![o] = [item[o] EXCEPT !.held = TRUE, !.blocked = FALSE]]
            \/ item' = [item EXCEPT ![o] = [item[o] EXCEPT !.held = FALSE, !.blocked = FALSE]]
            \/ item' = [item EXCEPT ![o] = [item[o] EXCEPT !.blocked = TRUE]]
        BY <3>3, Zenon DEF TypeOK
      <4>4. item' \in [Ops -> Item]
        BY <4>2, <4>3 DEF TypeOK
      <4> QED BY <3>3, <4>4 DEF TypeOK
    <3> QED BY <2>2, <3>1, <3>2, <3>3 DEF ApplyIdle
  <2> QED BY <2>1, <2>2 DEF Transition
<1> QED BY <1>2, <1>3, <1>4 DEF Transition, TypeOK

LEMMA FinishTargetFacts ==
    ASSUME NEW o, NEW outcome
    PROVE  FinishTarget(o, outcome) \in TERMINAL
BY DEF FinishTarget, TERMINAL

LEMMA OwnerCallType == TypeOK /\ OwnerCall => TypeOK'
<1> SUFFICES ASSUME TypeOK, OwnerCall PROVE TypeOK'
  OBVIOUS
<1> DEFINE RowsOK == /\ status' \in [Ops -> Statuses \cup {"absent"}]
                     /\ revision' \in [Ops -> Nat]
                     /\ flag' \in [Ops -> RecoveryReasons \cup {"none"}]
<1>1. ASSUME NEW o \in Ops, NEW expected, BlockJob(o, expected) PROVE TypeOK'
  <2>1. item' \in [Ops -> Item]
    BY <1>1 DEF BlockJob, TypeOK, Item
  <2>2. RowsOK
    BY <1>1, RecordType DEF BlockJob, Statuses
  <2> QED BY <1>1, <2>1, <2>2 DEF BlockJob, QueueChanged, TypeOK
<1>2. ASSUME NEW o \in Ops, NEW expected, BeginAttempt(o, expected) PROVE TypeOK'
  <2>1. Len(attempts) \in Nat /\ attempts' \in Seq(Attempt) /\ Len(attempts') = Len(attempts) + 1
    BY <1>2, BeginAttemptType, LenProperties DEF TypeOK
  <2>2. lease' \in [Slots -> 0..Len(attempts')]
    <3>1. lease' = [lease EXCEPT ![Slot(o)] = Len(attempts')]
      BY <1>2, <2>1 DEF BeginAttempt
    <3>2. lease \in [Slots -> 0..Len(attempts')]
      BY <2>1 DEF TypeOK
    <3>3. Len(attempts') \in 0..Len(attempts')
      BY <2>1
    <3> QED BY <3>1, <3>2, <3>3
  <2>3. item' \in [Ops -> Item] /\ queueRevision' \in Nat
    BY <1>2, ItemTypes DEF BeginAttempt, QueueChanged, TypeOK
  <2>4. RowsOK
    BY <1>2, RecordType DEF BeginAttempt, Statuses
  <2> QED BY <1>2, <2>1, <2>2, <2>3, <2>4 DEF BeginAttempt, TypeOK
<1>3. ASSUME NEW o \in Ops, NEW fence \in Fences, NEW outcome \in {"confirmed", "failed"},
             RecordLaunch(o, fence, outcome)
      PROVE  TypeOK'
  <2>1. RowsOK
    BY <1>3 DEF RecordLaunch, Record, TypeOK
  <2> QED BY <1>3, <2>1, RecordLaunchType DEF RecordLaunch, queueVars, TypeOK
<1>4. ASSUME NEW o \in Ops, NEW fence, NEW outcome, FinishAttempt(o, fence, outcome)
      PROVE  TypeOK'
  <2>1. RowsOK
    BY <1>4, RecordType, FinishTargetFacts DEF FinishAttempt, Statuses, TERMINAL
  <2>2. results' \subseteq Ops
    BY <1>4 DEF FinishAttempt, TypeOK
  <2> QED BY <1>4, <2>1, <2>2, ReleaseType DEF FinishAttempt, QueueChanged, TypeOK
<1>5. ASSUME NEW o \in Ops, NEW fence, FlagUnconfirmed(o, fence) PROVE TypeOK'
  <2>1. RowsOK
    BY <1>5 DEF FlagUnconfirmed, Record, RecoveryReasons, TypeOK
  <2> QED BY <1>5, <2>1 DEF FlagUnconfirmed, queueVars, TypeOK
<1> QED BY <1>1, <1>2, <1>3, <1>4, <1>5, TransitionType DEF OwnerCall

LEMMA VerdictType ==
    ASSUME NEW o, NEW decisions \in Decisions
    PROVE  Verdict(o, decisions) \in Verdicts \cup {"skip"}
BY DEF Verdict, Decisions, Verdicts, RecoveryReasons

LEMMA RecoverType ==
    ASSUME TypeOK, NEW decisions, Recover(decisions)
    PROVE  TypeOK' /\ Len(attempts') = Len(attempts)
<1>1. status' \in [Ops -> Statuses \cup {"absent"}]
  BY DEF Recover, TypeOK, Statuses
<1>2. revision' \in [Ops -> Nat] /\ queueRevision' \in Nat /\ dispatch' \in {"running", "paused"}
  BY DEF Recover, TypeOK
<1>3. flag' \in [Ops -> RecoveryReasons \cup {"none"}]
  BY DEF Recover, Flagged, TypeOK
<1>4. item' \in [Ops -> Item]
  <2>1. \A o \in Ops : [item[o] EXCEPT !.held = TRUE] \in Item
    BY DEF TypeOK, Item
  <2> QED BY <2>1, ItemTypes DEF Recover, TypeOK
<1>5. attempts' \in Seq(Attempt) /\ Len(attempts') = Len(attempts)
  <2>1. \A f \in Fences : /\ attempts[f] \in Attempt
                          /\ [attempts[f] EXCEPT !.state = "interrupted"] \in Attempt
    <3>1. \A f \in Fences : attempts[f] \in Attempt
      BY AttemptType
    <3> QED BY <3>1 DEF Attempt
  <2>2. attempts' \in [Fences -> Attempt]
    BY <2>1 DEF Recover
  <2> QED BY <2>2, AttemptsAsFunction
<1>6. lease' \in [Slots -> 0..Len(attempts)]
  BY LenProperties DEF Recover, TypeOK
<1> QED BY <1>1, <1>2, <1>3, <1>4, <1>5, <1>6 DEF Recover, TypeOK

LEMMA InitType == StoreInit => TypeOK
BY ItemTypes DEF StoreInit, TypeOK, Statuses

LEMMA StutterType == TypeOK /\ UNCHANGED storeVars => TypeOK'
BY DEF TypeOK, storeVars, opVars, queueVars

LEMMA StepType == TypeOK /\ [StoreCall]_storeVars => TypeOK'
BY CreateType, UserCommandType, OwnerCallType, RecoverType, StutterType
   DEF StoreCall

LEMMA CallsTypeOK == CallSpec => []TypeOK
BY InitType, StepType, PTL DEF CallSpec

\* Every table of the store keeps its shape: in particular a lease never names
\* an attempt that does not exist, whatever clients call (store.py, DDL and the
\* methods that write leases and attempts).
THEOREM StoreTypeOK == StoreSpec => []TypeOK
BY CallsTypeOK, SpecIsCalls, PTL

-------------------------------------------------------------------------------
(* Leases, attempts and statuses.  Every action either leaves the leases and   *)
(* the set of active operations alone, or ends one attempt, or begins one, or  *)
(* is recover().                                                               *)

LeaseCoherence == LeaseHolderIsActive /\ ActiveHoldsLease

LEMMA IdleHoldsNothing ==
    ASSUME LeaseHolderIsActive, NEW o \in Ops, status[o] \notin ACTIVE, TypeOK
    PROVE  HeldFence(o) = 0
BY SlotType DEF LeaseHolderIsActive, HeldFence, TypeOK, Fences

LEMMA LeasesKept ==
    ASSUME TypeOK, LeaseCoherence, lease' = lease, Len(attempts') = Len(attempts),
           \A f \in Fences : /\ attempts'[f].op = attempts[f].op
                             /\ attempts'[f].state = attempts[f].state,
           \A o \in Ops : status'[o] \in ACTIVE <=> status[o] \in ACTIVE
    PROVE  LeaseCoherence'
<1> USE DEF LeaseCoherence
<1>1. Fences' = Fences /\ \A s \in Slots : lease[s] # 0 => lease[s] \in Fences
  BY LenProperties DEF Fences, TypeOK
<1>2. \A f \in Fences : attempts[f].op \in Ops
  BY AttemptType
<1>3. LeaseHolderIsActive'
  BY <1>1, <1>2 DEF LeaseHolderIsActive
<1>4. \A o \in Ops : HeldFence(o)' = HeldFence(o)
  BY <1>1 DEF HeldFence
<1>5. ActiveHoldsLease'
  BY <1>1, <1>4 DEF ActiveHoldsLease
<1> QED BY <1>3, <1>5

LEMMA LeaseReleased ==
    ASSUME TypeOK, LeaseCoherence, NEW o \in Ops, HeldFence(o) # 0,
           NEW state \in {"released", "interrupted"}, Release(o, state),
           status'[o] \notin ACTIVE,
           \A other \in Ops \ {o} : status'[other] = status[other]
    PROVE  LeaseCoherence'
<1> DEFINE fence == HeldFence(o)
<1>1. fence \in Fences /\ lease[Slot(o)] = fence /\ attempts[fence].op = o
  BY HeldFenceType
<1>2. lease' = [lease EXCEPT ![Slot(o)] = 0]
      /\ attempts' = [attempts EXCEPT ![fence].state = state]
  BY DEF Release
<1> HIDE DEF fence
<1>3. Len(attempts') = Len(attempts) /\ attempts'[fence] = [attempts[fence] EXCEPT !.state = state]
      /\ \A g \in Fences \ {fence} : attempts'[g] = attempts[g]
  BY <1>1, <1>2, AttemptStateType
<1>4. \A f \in Fences : attempts[f] \in Attempt
  BY AttemptType
<1>5. \A f \in Fences : attempts'[f].op = attempts[f].op
  BY <1>3, <1>4 DEF Attempt
<1>6. Fences' = Fences /\ \A s \in Slots : lease[s] # 0 => lease[s] \in Fences
  BY <1>3, LenProperties DEF Fences, TypeOK
<1>7. Slot(o) \in Slots /\ DOMAIN lease = Slots
  BY SlotType DEF TypeOK
<1>8. ASSUME NEW s \in Slots, lease'[s] # 0
      PROVE  /\ s # Slot(o) /\ lease'[s] = lease[s] /\ lease[s] \in Fences \ {fence}
             /\ attempts'[lease[s]] = attempts[lease[s]]
  <2>1. s # Slot(o) /\ lease'[s] = lease[s]
    BY <1>2, <1>7, <1>8
  <2>2. lease[s] # fence
    BY <1>1, <1>8, <2>1 DEF LeaseCoherence, LeaseHolderIsActive
  <2> QED BY <1>3, <1>6, <1>8, <2>1, <2>2
<1>9. LeaseHolderIsActive'
  <2> SUFFICES ASSUME NEW s \in Slots, lease'[s] # 0
               PROVE  /\ attempts'[lease'[s]].state = "active"
                      /\ Slot(attempts'[lease'[s]].op) = s
                      /\ status'[attempts'[lease'[s]].op] \in ACTIVE
    BY DEF LeaseHolderIsActive
  <2>1. /\ attempts[lease[s]].state = "active" /\ Slot(attempts[lease[s]].op) = s
        /\ status[attempts[lease[s]].op] \in ACTIVE
    BY <1>8 DEF LeaseCoherence, LeaseHolderIsActive
  <2>2. attempts[lease[s]].op \in Ops \ {o}
    BY <1>4, <1>8, <2>1 DEF Attempt
  <2> QED BY <1>8, <2>1, <2>2
<1>10. ASSUME NEW other \in Ops, status'[other] \in ACTIVE PROVE HeldFence(other)' # 0
  <2>1. other # o /\ HeldFence(other) # 0
    BY <1>10 DEF LeaseCoherence, ActiveHoldsLease
  <2>2. HeldFence(other) \in Fences /\ lease[Slot(other)] = HeldFence(other)
        /\ attempts[HeldFence(other)].op = other
    BY <2>1, HeldFenceType
  <2>3. Slot(other) # Slot(o)
    BY <1>1, <2>1, <2>2
  <2>4. lease'[Slot(other)] = HeldFence(other)
    BY <1>2, <1>7, <2>2, <2>3
  <2> QED BY <1>5, <1>6, <2>2, <2>4 DEF HeldFence, Fences
<1>11. ASSUME NEW f \in Fences, attempts'[f].state = "active"
       PROVE  lease'[Slot(attempts'[f].op)] = f
  <2>1. f # fence
    BY <1>1, <1>3, <1>4, <1>11 DEF Attempt
  <2>2. attempts[f].state = "active" /\ attempts[f].op \in Ops
    BY <1>3, <1>4, <1>11, <2>1 DEF Attempt
  <2>3. lease[Slot(attempts[f].op)] = f
    BY <2>2 DEF LeaseCoherence, ActiveHoldsLease
  <2>4. Slot(attempts[f].op) # Slot(o)
    BY <1>1, <2>1, <2>3
  <2> QED BY <1>2, <1>5, <1>7, <2>2, <2>3, <2>4, SlotType
<1>12. ActiveHoldsLease'
  BY <1>6, <1>10, <1>11 DEF ActiveHoldsLease
<1> QED BY <1>9, <1>12 DEF LeaseCoherence

LEMMA LeaseTaken ==
    ASSUME TypeOK, LeaseCoherence, NEW o \in Ops, NEW expected, BeginAttempt(o, expected)
    PROVE  LeaseCoherence'
<1> DEFINE fence == Len(attempts) + 1
<1>1. /\ Len(attempts) \in Nat /\ Len(attempts') = fence
      /\ attempts'[fence] = [op |-> o, state |-> "active", launch |-> "intended"]
      /\ \A g \in Fences : attempts'[g] = attempts[g]
  BY BeginAttemptType, LenProperties DEF TypeOK
<1>2. Slot(o) \in Slots /\ lease[Slot(o)] = 0 /\ lease' = [lease EXCEPT ![Slot(o)] = fence]
  BY SlotType DEF BeginAttempt, CanBegin
<1>3. /\ status[o] \notin ACTIVE /\ status' = [status EXCEPT ![o] = "running"]
  <2>1. status[o] = "queued"
    BY TableFacts, SlotType DEF BeginAttempt, CanBegin
  <2> QED BY <2>1 DEF BeginAttempt, Record, ACTIVE
<1> HIDE DEF fence
<1>4. Fences' = Fences \cup {fence} /\ fence \notin Fences /\ fence # 0
  BY <1>1 DEF Fences, fence
<1>5. ASSUME NEW s \in Slots, s # Slot(o), lease[s] # 0
      PROVE  /\ lease'[s] = lease[s] /\ lease[s] \in Fences
             /\ attempts'[lease[s]] = attempts[lease[s]]
             /\ attempts[lease[s]].op \in Ops \ {o}
             /\ attempts[lease[s]].state = "active" /\ Slot(attempts[lease[s]].op) = s
             /\ status[attempts[lease[s]].op] \in ACTIVE
  <2>1. lease'[s] = lease[s] /\ lease[s] \in Fences
    BY <1>1, <1>2, <1>5 DEF TypeOK, Fences
  <2>2. /\ attempts[lease[s]].state = "active" /\ Slot(attempts[lease[s]].op) = s
        /\ status[attempts[lease[s]].op] \in ACTIVE
    BY <1>5 DEF LeaseCoherence, LeaseHolderIsActive
  <2> QED BY <1>1, <1>3, <2>1, <2>2, AttemptType
<1>6. LeaseHolderIsActive'
  <2> SUFFICES ASSUME NEW s \in Slots, lease'[s] # 0
               PROVE  /\ attempts'[lease'[s]].state = "active"
                      /\ Slot(attempts'[lease'[s]].op) = s
                      /\ status'[attempts'[lease'[s]].op] \in ACTIVE
    BY DEF LeaseHolderIsActive
  <2>1. CASE s = Slot(o)
    BY <1>1, <1>2, <1>3, <2>1 DEF TypeOK, ACTIVE
  <2>2. CASE s # Slot(o)
    BY <1>2, <1>3, <1>5, <2>2 DEF TypeOK
  <2> QED BY <2>1, <2>2
<1>7. ASSUME NEW other \in Ops, status'[other] \in ACTIVE PROVE HeldFence(other)' # 0
  <2>1. CASE other = o
    BY <1>1, <1>2, <1>4, <2>1 DEF HeldFence, TypeOK
  <2>2. CASE other # o
    <3>1. status[other] \in ACTIVE
      BY <1>3, <1>7, <2>2 DEF TypeOK
    <3>2. HeldFence(other) # 0
      BY <3>1 DEF LeaseCoherence, ActiveHoldsLease
    <3>3. HeldFence(other) \in Fences /\ lease[Slot(other)] = HeldFence(other)
          /\ attempts[HeldFence(other)].op = other /\ Slot(other) \in Slots
      BY <3>2, HeldFenceType, SlotType
    <3>4. lease'[Slot(other)] = HeldFence(other)
      BY <1>2, <3>2, <3>3, <1>5
    <3> QED BY <1>1, <1>4, <3>2, <3>3, <3>4 DEF HeldFence
  <2> QED BY <2>1, <2>2
<1>8. ASSUME NEW f \in Fences', attempts'[f].state = "active"
      PROVE  lease'[Slot(attempts'[f].op)] = f
  <2>1. CASE f = fence
    BY <1>1, <1>2, <2>1 DEF TypeOK
  <2>2. CASE f \in Fences
    <3>1. attempts'[f] = attempts[f] /\ lease[Slot(attempts[f].op)] = f /\ f # 0
      BY <1>1, <1>8, <2>2 DEF LeaseCoherence, ActiveHoldsLease, Fences
    <3>2. Slot(attempts[f].op) \in Slots
      BY <2>2, AttemptType, SlotType
    <3> QED BY <1>2, <1>5, <3>1, <3>2
  <2> QED BY <1>4, <2>1, <2>2
<1>9. ActiveHoldsLease'
  BY <1>7, <1>8 DEF ActiveHoldsLease
<1> QED BY <1>6, <1>9 DEF LeaseCoherence

LEMMA LeasesRecovered ==
    ASSUME TypeOK, LeaseCoherence, NEW decisions, Recover(decisions)
    PROVE  LeaseCoherence'
<1> DEFINE gone == Interrupted(decisions)
           ended == {f \in Fences : \E o \in gone : f = HeldFence(o)}
<1>1. \A o \in gone : /\ o \in Ops /\ status[o] \in ACTIVE /\ HeldFence(o) \in Fences
                      /\ lease[Slot(o)] = HeldFence(o) /\ attempts[HeldFence(o)].op = o
  BY HeldFenceType DEF Interrupted, LeaseCoherence, ActiveHoldsLease
<1>2. /\ attempts' = [f \in Fences |-> IF f \in ended
                         THEN [attempts[f] EXCEPT !.state = "interrupted"] ELSE attempts[f]]
      /\ lease' = [s \in Slots |-> IF lease[s] \in ended THEN 0 ELSE lease[s]]
  <2>1. \A s \in Slots : (\E o \in gone : lease[s] = HeldFence(o)) <=> lease[s] \in ended
    BY <1>1
  <2> QED BY <2>1 DEF Recover
<1>3. Len(attempts') = Len(attempts)
  BY RecoverType
<1>4. \A o \in gone : status'[o] \notin ACTIVE
  BY <1>1 DEF Recover, ACTIVE
<1>5. \A o \in Ops \ gone : status'[o] \in ACTIVE <=> status[o] \in ACTIVE
  BY DEF Recover, ACTIVE
<1>6. \A f \in Fences : f \in ended <=> attempts[f].state = "active" /\ attempts[f].op \in gone
  <2> SUFFICES ASSUME NEW f \in Fences
               PROVE  f \in ended <=> attempts[f].state = "active" /\ attempts[f].op \in gone
    OBVIOUS
  <2>1. ASSUME f \in ended PROVE attempts[f].state = "active" /\ attempts[f].op \in gone
    <3>1. PICK o \in gone : f = HeldFence(o)
      BY <2>1
    <3>2. Slot(o) \in Slots /\ lease[Slot(o)] = f /\ f # 0
      BY <1>1, <3>1, SlotType DEF Fences
    <3> QED BY <1>1, <3>1, <3>2 DEF LeaseCoherence, LeaseHolderIsActive
  <2>2. ASSUME attempts[f].state = "active", attempts[f].op \in gone PROVE f \in ended
    <3>1. lease[Slot(attempts[f].op)] = f
      BY <2>2 DEF LeaseCoherence, ActiveHoldsLease
    <3> QED BY <1>1, <2>2, <3>1
  <2> QED BY <2>1, <2>2
<1> HIDE DEF gone, ended
<1>7. Fences' = Fences /\ \A s \in Slots : lease[s] # 0 => lease[s] \in Fences
  BY <1>3, LenProperties DEF Fences, TypeOK
<1>8. \A f \in Fences : /\ attempts'[f].op = attempts[f].op
                        /\ attempts'[f].state = "active" <=>
                               attempts[f].state = "active" /\ attempts[f].op \notin gone
  BY <1>2, <1>6, AttemptType DEF Attempt
<1>9. LeaseHolderIsActive'
  <2> SUFFICES ASSUME NEW s \in Slots, lease'[s] # 0
               PROVE  /\ attempts'[lease'[s]].state = "active"
                      /\ Slot(attempts'[lease'[s]].op) = s
                      /\ status'[attempts'[lease'[s]].op] \in ACTIVE
    BY DEF LeaseHolderIsActive
  <2>1. lease'[s] = lease[s] /\ lease[s] \in Fences /\ lease[s] \notin ended
    BY <1>2, <1>7
  <2>2. /\ attempts[lease[s]].state = "active" /\ Slot(attempts[lease[s]].op) = s
        /\ status[attempts[lease[s]].op] \in ACTIVE
    BY <2>1, <1>7 DEF LeaseCoherence, LeaseHolderIsActive, Fences
  <2> QED BY <1>5, <1>6, <1>8, <2>1, <2>2, AttemptType
<1>10. ASSUME NEW o \in Ops, status'[o] \in ACTIVE PROVE HeldFence(o)' # 0
  <2>1. o \notin gone /\ HeldFence(o) # 0
    BY <1>4, <1>5, <1>10 DEF LeaseCoherence, ActiveHoldsLease
  <2>2. HeldFence(o) \in Fences /\ lease[Slot(o)] = HeldFence(o) /\ attempts[HeldFence(o)].op = o
        /\ Slot(o) \in Slots
    BY <2>1, HeldFenceType, SlotType
  <2>3. lease'[Slot(o)] = HeldFence(o)
    BY <1>2, <1>6, <2>1, <2>2
  <2> QED BY <1>7, <1>8, <2>1, <2>2, <2>3 DEF HeldFence
<1>11. ASSUME NEW f \in Fences, attempts'[f].state = "active"
       PROVE  lease'[Slot(attempts'[f].op)] = f
  <2>1. lease[Slot(attempts[f].op)] = f /\ f \notin ended /\ attempts'[f].op = attempts[f].op
    BY <1>6, <1>8, <1>11 DEF LeaseCoherence, ActiveHoldsLease
  <2>2. Slot(attempts[f].op) \in Slots
    BY AttemptType, SlotType
  <2> QED BY <1>2, <2>1, <2>2
<1>12. ActiveHoldsLease'
  BY <1>7, <1>10, <1>11 DEF ActiveHoldsLease
<1> QED BY <1>9, <1>12 DEF LeaseCoherence

\* An operation's new status neither enters nor leaves the active ones.
LEMMA RecordKeepsActive ==
    ASSUME TypeOK, NEW o \in Ops, NEW new, NEW newFlag, Record(o, new, newFlag),
           new \in ACTIVE <=> status[o] \in ACTIVE
    PROVE  \A other \in Ops : status'[other] \in ACTIVE <=> status[other] \in ACTIVE
BY DEF Record, TypeOK

LEMMA RecordOthers ==
    ASSUME TypeOK, NEW o \in Ops, NEW new, NEW newFlag, Record(o, new, newFlag)
    PROVE  status'[o] = new /\ \A other \in Ops \ {o} : status'[other] = status[other]
BY DEF Record, TypeOK

\* Ending an operation: its attempt ends with it, or it had none.
LEMMA LeasesAfterRelease ==
    ASSUME TypeOK, LeaseCoherence, NEW o \in Ops, NEW new, NEW newFlag, Record(o, new, newFlag),
           new \notin ACTIVE, NEW state \in {"released", "interrupted"}, Release(o, state)
    PROVE  LeaseCoherence'
<1>1. status'[o] = new /\ \A other \in Ops \ {o} : status'[other] = status[other]
  BY RecordOthers
<1>2. CASE HeldFence(o) # 0
  BY <1>1, <1>2, LeaseReleased
<1>3. CASE HeldFence(o) = 0
  <2>1. status[o] \notin ACTIVE
    BY <1>3 DEF LeaseCoherence, ActiveHoldsLease
  <2>2. lease' = lease /\ attempts' = attempts
    BY <1>3 DEF Release
  <2> QED BY <2>1, <2>2, LeasesKept, RecordKeepsActive
<1> QED BY <1>2, <1>3

LEMMA LeasesAfterTransition ==
    ASSUME TypeOK, LeaseCoherence, NEW o \in Ops, NEW expected, NEW target, NEW fence,
           Transition(o, expected, target, fence)
    PROVE  LeaseCoherence'
<1>1. Record(o, target, "none") /\ target # "running" /\ Check(Kind[o], status[o], target)
  BY DEF Transition
<1>2. target = "cancelling" => status[o] = "running"
  BY <1>1, TableFacts, SlotType
<1>3. CASE status[o] \in ACTIVE
  <2>1. ApplyActive(o, target, fence)
    BY <1>3 DEF Transition
  <2>2. CASE target = "cancelling"
    <3>1. lease' = lease /\ attempts' = attempts
      BY <2>1, <2>2 DEF ApplyActive
    <3> QED BY <1>1, <1>3, <2>2, <3>1, LeasesKept, RecordKeepsActive DEF ACTIVE
  <2>3. CASE target # "cancelling"
    BY <1>1, <2>1, <2>3, LeasesAfterRelease DEF ApplyActive, ACTIVE
  <2> QED BY <2>2, <2>3
<1>4. CASE status[o] \notin ACTIVE
  <2>1. ApplyIdle(o, target) /\ target \notin ACTIVE
    BY <1>1, <1>2, <1>4 DEF Transition, ACTIVE
  <2>2. CASE Release(o, "released")
    BY <1>1, <2>1, <2>2, LeasesAfterRelease
  <2>3. CASE UNCHANGED <<lease, attempts>>
    BY <1>1, <1>4, <2>1, <2>3, LeasesKept, RecordKeepsActive
  <2> QED BY <2>1, <2>2, <2>3 DEF ApplyIdle
<1> QED BY <1>3, <1>4

LEMMA LeasesAfterBatch ==
    ASSUME TypeOK, LeaseCoherence, NEW rank, AcceptBatch(rank)
    PROVE  LeaseCoherence'
<1>1. \A o \in Ops : status'[o] \in ACTIVE <=> status[o] \in ACTIVE
  BY DEF AcceptBatch, ACTIVE
<1> QED BY <1>1, LeasesKept DEF AcceptBatch

LEMMA CreateLeases == TypeOK /\ LeaseCoherence /\ Create => LeaseCoherence'
<1> SUFFICES ASSUME TypeOK, LeaseCoherence, Create PROVE LeaseCoherence'
  OBVIOUS
<1>1. ASSUME NEW o \in Ops, Submit(o) \/ StartOperation(o) PROVE LeaseCoherence'
  <2>1. Record(o, "queued", "none") /\ status[o] = "absent" /\ UNCHANGED <<attempts, lease>>
    BY <1>1 DEF Submit, StartOperation
  <2> QED BY <2>1, LeasesKept, RecordKeepsActive DEF ACTIVE
<1> QED BY <1>1, LeasesAfterBatch DEF Create, RetryJob

LEMMA UserCommandLeases == TypeOK /\ LeaseCoherence /\ UserCommand => LeaseCoherence'
<1> SUFFICES ASSUME TypeOK, LeaseCoherence, UserCommand PROVE LeaseCoherence'
  OBVIOUS
<1>1. ASSUME NEW o \in Ops, NEW expected, CancelJob(o, expected) PROVE LeaseCoherence'
  <2>1. CASE Release(o, "released") /\ Record(o, "cancelled", "none")
    BY <2>1, LeasesAfterRelease DEF ACTIVE
  <2>2. CASE status[o] = "running" /\ Record(o, "cancelling", "none") /\ UNCHANGED <<attempts, lease>>
    BY <2>2, LeasesKept, RecordKeepsActive DEF ACTIVE
  <2> QED BY <1>1, <2>1, <2>2 DEF CancelJob
<1>2. ASSUME NEW o \in Ops, NEW expected, Revalidated(o, expected) PROVE LeaseCoherence'
  <2>1. PICK new \in {"held", "queued"} : Record(o, new, "none")
    BY <1>2 DEF Revalidated
  <2> QED BY <1>2, <2>1, LeasesKept, RecordKeepsActive DEF Revalidated, ACTIVE
<1>3. ASSUME NEW o \in Ops, NEW held \in BOOLEAN, HoldChange(o, held) PROVE LeaseCoherence'
  <2>1. PICK new \in WAITING : Record(o, new, "none")
    BY <1>3 DEF HoldChange, WAITING
  <2> QED BY <1>3, <2>1, LeasesKept, RecordKeepsActive DEF HoldChange, WAITING, ACTIVE
<1>4. ASSUME UNCHANGED <<status, lease, attempts>> PROVE LeaseCoherence'
  BY <1>4, LeasesKept
<1> QED BY <1>1, <1>2, <1>3, <1>4
        DEF UserCommand, SetHold, SetItemHold, SetDispatch, Reorder, opVars

LEMMA OwnerCallLeases == TypeOK /\ LeaseCoherence /\ OwnerCall => LeaseCoherence'
<1> SUFFICES ASSUME TypeOK, LeaseCoherence, OwnerCall PROVE LeaseCoherence'
  OBVIOUS
<1>1. ASSUME NEW o \in Ops, NEW expected, BlockJob(o, expected) PROVE LeaseCoherence'
  BY <1>1, LeasesKept, RecordKeepsActive DEF BlockJob, ACTIVE
<1>2. ASSUME NEW o \in Ops, NEW fence \in Fences, NEW outcome \in {"confirmed", "failed"},
             RecordLaunch(o, fence, outcome)
      PROVE  LeaseCoherence'
  <2>1. \A f \in Fences : attempts'[f].op = attempts[f].op /\ attempts'[f].state = attempts[f].state
    BY <1>2, RecordLaunchType
  <2>2. lease' = lease /\ Len(attempts') = Len(attempts) /\ Record(o, status[o], flag[o])
    BY <1>2, RecordLaunchType DEF RecordLaunch
  <2> QED BY <2>1, <2>2, LeasesKept, RecordKeepsActive
<1>3. ASSUME NEW o \in Ops, NEW fence, NEW outcome, FinishAttempt(o, fence, outcome)
      PROVE  LeaseCoherence'
  <2>1. FinishTarget(o, outcome) \notin ACTIVE
    BY FinishTargetFacts DEF TERMINAL, ACTIVE
  <2> QED BY <1>3, <2>1, LeasesAfterRelease DEF FinishAttempt
<1>4. ASSUME NEW o \in Ops, NEW fence, FlagUnconfirmed(o, fence) PROVE LeaseCoherence'
  BY <1>4, LeasesKept, RecordKeepsActive DEF FlagUnconfirmed
<1> QED BY <1>1, <1>2, <1>3, <1>4, LeaseTaken, LeasesAfterTransition DEF OwnerCall

LEMMA InitLeases == StoreInit => LeaseCoherence
BY DEF StoreInit, LeaseCoherence, LeaseHolderIsActive, ActiveHoldsLease, Fences, ACTIVE

LEMMA StepLeases == TypeOK /\ LeaseCoherence /\ [StoreCall]_storeVars => LeaseCoherence'
<1>1. TypeOK /\ LeaseCoherence /\ UNCHANGED storeVars => LeaseCoherence'
  BY LeasesKept DEF storeVars, opVars
<1> QED BY <1>1, CreateLeases, UserCommandLeases, OwnerCallLeases, LeasesRecovered
        DEF StoreCall

-------------------------------------------------------------------------------
(* Queue items and statuses *)

QueueRow(o) ==
    /\ item[o].place = "waiting" <=> Queued(o) /\ status[o] \in WAITING
    /\ item[o].place = "active"  <=> Queued(o) /\ status[o] \in ACTIVE
    /\ item[o].place # "waiting" => ~item[o].held /\ ~item[o].blocked

LEMMA QueueRows == QueueShowsStatus <=> \A o \in Ops : QueueRow(o)
BY DEF QueueShowsStatus, QueueRow

LEMMA OneRowChanged ==
    ASSUME TypeOK, QueueShowsStatus, NEW o \in Ops, NEW new, NEW newFlag, Record(o, new, newFlag),
           \A other \in Ops \ {o} : item'[other] = item[other],
           QueueRow(o)'
    PROVE  QueueShowsStatus'
<1>1. \A other \in Ops \ {o} : status'[other] = status[other]
  BY RecordOthers
<1>2. \A other \in Ops \ {o} : QueueRow(other)'
  BY <1>1 DEF QueueShowsStatus, QueueRow, Queued
<1> QED BY <1>2 DEF QueueShowsStatus, QueueRow

\* A status recorded without touching the queue: both old and new are active,
\* or both are the same.
LEMMA ItemsKept ==
    ASSUME TypeOK, QueueShowsStatus, NEW o \in Ops, NEW new, NEW newFlag, Record(o, new, newFlag),
           item' = item, new = status[o] \/ (new \in ACTIVE /\ status[o] \in ACTIVE)
    PROVE  QueueShowsStatus'
<1>1. status'[o] = new
  BY RecordOthers
<1>2. QueueRow(o)'
  BY <1>1 DEF QueueShowsStatus, QueueRow, Queued, ACTIVE, WAITING
<1> QED BY <1>2, OneRowChanged

LEMMA ItemDropped ==
    ASSUME TypeOK, QueueShowsStatus, NEW o \in Ops, NEW new, NEW newFlag, Record(o, new, newFlag),
           new \notin ACTIVE \cup WAITING, NEW state, Release(o, state)
    PROVE  QueueShowsStatus'
<1>1. status'[o] = new
  BY RecordOthers
<1>2. item'[o] = NoItem /\ \A other \in Ops \ {o} : item'[other] = item[other]
  BY DEF Release, TypeOK
<1>3. QueueRow(o)'
  BY <1>1, <1>2 DEF QueueRow, NoItem
<1> QED BY <1>2, <1>3, OneRowChanged

LEMMA ItemEnqueued ==
    ASSUME TypeOK, QueueShowsStatus, NEW o \in Ops, NEW newFlag, Record(o, "queued", newFlag),
           Queued(o), Enqueue(o)
    PROVE  QueueShowsStatus'
<1>1. status'[o] = "queued"
  BY RecordOthers
<1>2. item'[o].place = "waiting" /\ \A other \in Ops \ {o} : item'[other] = item[other]
  BY DEF Enqueue, WaitingItem, NoItem, TypeOK
<1>3. QueueRow(o)'
  BY <1>1, <1>2 DEF QueueRow, Queued, ACTIVE, WAITING
<1> QED BY <1>2, <1>3, OneRowChanged

\* Hold, unhold, block, unblock: a waiting item stays in its place.
LEMMA ItemWaits ==
    ASSUME TypeOK, QueueShowsStatus, NEW o \in Ops, NEW new, NEW newFlag, Record(o, new, newFlag),
           item[o].place = "waiting", new \in WAITING, item'[o].place = "waiting",
           \A other \in Ops \ {o} : item'[other] = item[other]
    PROVE  QueueShowsStatus'
<1>1. status'[o] = new
  BY RecordOthers
<1>2. Queued(o)
  BY DEF QueueShowsStatus
<1>3. QueueRow(o)'
  BY <1>1, <1>2 DEF QueueRow, Queued, ACTIVE, WAITING
<1> QED BY <1>3, OneRowChanged

LEMMA ItemOthers ==
    ASSUME TypeOK, NEW o \in Ops,
           \/ \E held \in BOOLEAN : item' = [item EXCEPT ![o].held = held]
           \/ \E blocked \in BOOLEAN : item' = [item EXCEPT ![o].blocked = blocked]
           \/ \E held, blocked \in BOOLEAN :
                 item' = [item EXCEPT ![o].held = held, ![o].blocked = blocked]
    PROVE  /\ item'[o].place = item[o].place
           /\ \A other \in Ops \ {o} : item'[other] = item[other]
<1>1. item[o] \in Item
  BY DEF TypeOK
<1>2. ASSUME NEW held \in BOOLEAN, item' = [item EXCEPT ![o].held = held]
      PROVE  /\ item'[o].place = item[o].place
             /\ \A other \in Ops \ {o} : item'[other] = item[other]
  BY <1>1, <1>2 DEF TypeOK, Item
<1>3. ASSUME NEW blocked \in BOOLEAN, item' = [item EXCEPT ![o].blocked = blocked]
      PROVE  /\ item'[o].place = item[o].place
             /\ \A other \in Ops \ {o} : item'[other] = item[other]
  BY <1>1, <1>3 DEF TypeOK, Item
<1>4. ASSUME NEW held \in BOOLEAN, NEW blocked \in BOOLEAN,
             item' = [item EXCEPT ![o].held = held, ![o].blocked = blocked]
      PROVE  /\ item'[o].place = item[o].place
             /\ \A other \in Ops \ {o} : item'[other] = item[other]
  <2>1. item' = [item EXCEPT ![o] = [item[o] EXCEPT !.held = held, !.blocked = blocked]]
    BY <1>4, Zenon DEF TypeOK
  <2> QED BY <1>1, <2>1 DEF TypeOK, Item
<1> QED BY <1>2, <1>3, <1>4

LEMMA QueueAfterTransition ==
    ASSUME TypeOK, QueueShowsStatus, NEW o \in Ops, NEW expected, NEW target, NEW fence,
           Transition(o, expected, target, fence)
    PROVE  QueueShowsStatus'
<1>1. /\ Record(o, target, "none") /\ target # "running" /\ Check(Kind[o], status[o], target)
      /\ Kind[o] \in Kinds
  BY SlotType DEF Transition
<1>2. CASE status[o] \in ACTIVE
  <2>1. ApplyActive(o, target, fence) /\ target \notin WAITING
    BY <1>1, <1>2, TableFacts DEF Transition
  <2>2. CASE target = "cancelling"
    BY <1>1, <1>2, <2>1, <2>2, ItemsKept DEF ApplyActive, ACTIVE
  <2>3. CASE target # "cancelling"
    BY <1>1, <2>1, <2>3, ItemDropped DEF ApplyActive, ACTIVE
  <2> QED BY <2>2, <2>3
<1>3. CASE status[o] \notin ACTIVE
  <2>1. ApplyIdle(o, target)
    BY <1>3 DEF Transition
  <2>2. CASE target \in TERMINAL
    BY <1>1, <2>1, <2>2, ItemDropped DEF ApplyIdle, TERMINAL, ACTIVE, WAITING
  <2>3. CASE target \in {"held", "blocked"}
    <3>1. Kind[o] = "job" /\ status[o] \in WAITING
      BY <1>1, <2>3, TableFacts
    <3>2. item[o].place = "waiting"
      BY <3>1 DEF QueueShowsStatus, Queued, QUEUED_KINDS
    <3>3. /\ item'[o].place = item[o].place
          /\ \A other \in Ops \ {o} : item'[other] = item[other]
      BY <2>1, <2>3, ItemOthers DEF ApplyIdle, TERMINAL
    <3> QED BY <1>1, <2>3, <3>2, <3>3, ItemWaits DEF WAITING
  <2>4. CASE target = "queued" /\ item[o].place = "none"
    <3>1. Queued(o)
      BY <1>1, <2>4, TableFacts DEF Queued, QUEUED_KINDS
    <3> QED BY <1>1, <2>1, <2>4, <3>1, ItemEnqueued DEF ApplyIdle, TERMINAL
  <2>5. CASE target = "queued" /\ item[o].place # "none"
    <3>1. item[o] \in Item
      BY DEF TypeOK
    <3>2. item[o].place = "waiting"
      BY <1>3, <2>5, <3>1 DEF QueueShowsStatus, Item
    <3>3. /\ item'[o].place = item[o].place
          /\ \A other \in Ops \ {o} : item'[other] = item[other]
      BY <2>1, <2>5, ItemOthers DEF ApplyIdle, TERMINAL
    <3> QED BY <1>1, <2>5, <3>2, <3>3, ItemWaits DEF WAITING
  <2> QED BY <2>1, <2>2, <2>3, <2>4, <2>5 DEF ApplyIdle
<1> QED BY <1>2, <1>3

LEMMA QueueAfterBatch ==
    ASSUME TypeOK, QueueShowsStatus, NEW rank, AcceptBatch(rank), DOMAIN rank \subseteq Ops
    PROVE  QueueShowsStatus'
<1>1. ASSUME NEW o \in DOMAIN rank PROVE QueueRow(o)'
  <2>1. Queued(o) /\ status'[o] = "queued" /\ item'[o] = WaitingItem(enqueueOrder + rank[o])
    BY <1>1 DEF AcceptBatch, Queued, QUEUED_KINDS
  <2> QED BY <2>1 DEF QueueRow, Queued, WaitingItem, NoItem, WAITING, ACTIVE
<1>2. ASSUME NEW o \in Ops \ DOMAIN rank PROVE QueueRow(o)'
  <2>1. status'[o] = status[o] /\ item'[o] = item[o]
    BY <1>2 DEF AcceptBatch
  <2> QED BY <2>1 DEF QueueRow, QueueShowsStatus, Queued
<1> QED BY <1>1, <1>2 DEF QueueShowsStatus, QueueRow

LEMMA CreateQueue == TypeOK /\ QueueShowsStatus /\ Create => QueueShowsStatus'
<1> SUFFICES ASSUME TypeOK, QueueShowsStatus, Create PROVE QueueShowsStatus'
  OBVIOUS
<1>1. ASSUME NEW o \in Ops, Submit(o) PROVE QueueShowsStatus'
  <2>1. CASE Queued(o)
    BY <1>1, <2>1, ItemEnqueued DEF Submit
  <2>2. CASE ~Queued(o)
    <3>1. item' = item /\ status'[o] = "queued"
      BY <1>1, <2>2, RecordOthers DEF Submit
    <3>2. QueueRow(o)'
      BY <2>2, <3>1 DEF QueueRow, QueueShowsStatus, Queued
    <3> QED BY <1>1, <3>1, <3>2, OneRowChanged DEF Submit
  <2> QED BY <2>1, <2>2
<1>2. ASSUME NEW o \in Ops, StartOperation(o) PROVE QueueShowsStatus'
  BY <1>2, ItemEnqueued DEF StartOperation, Queued, QUEUED_KINDS
<1>3. ASSUME NEW rank \in Batches, AcceptBatch(rank) PROVE QueueShowsStatus'
  <2>1. DOMAIN rank \subseteq Ops
    BY DEF Batches, Injection
  <2> QED BY <1>3, <2>1, QueueAfterBatch
<1>4. ASSUME NEW source \in Ops, NEW o \in Ops, NEW expected, RetryJob(source, expected, o)
      PROVE  QueueShowsStatus'
  <2>1. DOMAIN [x \in {o} |-> 1] \subseteq Ops
    OBVIOUS
  <2> QED BY <1>4, <2>1, QueueAfterBatch DEF RetryJob
<1> QED BY <1>1, <1>2, <1>3, <1>4 DEF Create

LEMMA UserCommandQueue == TypeOK /\ QueueShowsStatus /\ UserCommand => QueueShowsStatus'
<1> SUFFICES ASSUME TypeOK, QueueShowsStatus, UserCommand PROVE QueueShowsStatus'
  OBVIOUS
<1>1. ASSUME NEW o \in Ops, NEW expected, CancelJob(o, expected) PROVE QueueShowsStatus'
  <2>1. CASE Release(o, "released") /\ Record(o, "cancelled", "none")
    BY <2>1, ItemDropped DEF ACTIVE, WAITING
  <2>2. CASE status[o] = "running" /\ Record(o, "cancelling", "none") /\ item' = item
    BY <2>2, ItemsKept DEF ACTIVE
  <2> QED BY <1>1, <2>1, <2>2 DEF CancelJob, queueVars
<1>2. ASSUME NEW o \in Ops, NEW expected, Revalidated(o, expected) PROVE QueueShowsStatus'
  <2>1. item[o].place = "waiting"
    BY <1>2 DEF Revalidated, QueueShowsStatus, Queued, QUEUED_KINDS, WAITING
  <2>2. PICK new \in WAITING : Record(o, new, "none")
    BY <1>2 DEF Revalidated, WAITING
  <2>3. item'[o].place = item[o].place /\ \A other \in Ops \ {o} : item'[other] = item[other]
    BY <1>2, ItemOthers DEF Revalidated
  <2> QED BY <2>1, <2>2, <2>3, ItemWaits
<1>3. ASSUME NEW o \in Ops, NEW held \in BOOLEAN, HoldChange(o, held) PROVE QueueShowsStatus'
  <2>1. PICK new \in WAITING : Record(o, new, "none")
    BY <1>3 DEF HoldChange, WAITING
  <2>2. item'[o].place = item[o].place /\ \A other \in Ops \ {o} : item'[other] = item[other]
    BY <1>3, ItemOthers DEF HoldChange
  <2> QED BY <1>3, <2>1, <2>2, ItemWaits DEF HoldChange
<1>4. ASSUME NEW expectedQueue, NEW target, SetDispatch(expectedQueue, target)
      PROVE  QueueShowsStatus'
  BY <1>4 DEF SetDispatch, opVars, QueueShowsStatus, Queued
<1>5. ASSUME NEW expectedQueue, NEW takes, Reorder(expectedQueue, takes) PROVE QueueShowsStatus'
  <2>1. \A o \in Ops : item[o] \in Item
    BY DEF TypeOK
  <2>2. \A o \in Ops : /\ item'[o].place = item[o].place /\ item'[o].held = item[o].held
                       /\ item'[o].blocked = item[o].blocked /\ status'[o] = status[o]
    BY <1>5, <2>1 DEF Reorder, opVars, Item
  <2> QED BY <2>2 DEF QueueShowsStatus, Queued
<1> QED BY <1>1, <1>2, <1>3, <1>4, <1>5 DEF UserCommand, SetHold, SetItemHold

LEMMA OwnerCallQueue == TypeOK /\ QueueShowsStatus /\ OwnerCall => QueueShowsStatus'
<1> SUFFICES ASSUME TypeOK, QueueShowsStatus, OwnerCall PROVE QueueShowsStatus'
  OBVIOUS
<1>1. ASSUME NEW o \in Ops, NEW expected, BlockJob(o, expected) PROVE QueueShowsStatus'
  <2>1. item[o].place = "waiting"
    BY <1>1 DEF BlockJob, QueueShowsStatus, Queued, QUEUED_KINDS, WAITING
  <2>2. item'[o].place = item[o].place /\ \A other \in Ops \ {o} : item'[other] = item[other]
    BY <1>1, ItemOthers DEF BlockJob
  <2> QED BY <1>1, <2>1, <2>2, ItemWaits DEF BlockJob, WAITING
<1>2. ASSUME NEW o \in Ops, NEW expected, BeginAttempt(o, expected) PROVE QueueShowsStatus'
  <2>1. Record(o, "running", "none") /\ status'[o] = "running"
    BY <1>2, RecordOthers DEF BeginAttempt
  <2>2. CASE Queued(o)
    <3>1. item' = [item EXCEPT ![o] = ActiveItem]
      BY <1>2, <2>2 DEF BeginAttempt
    <3>2. QueueRow(o)'
      BY <2>1, <2>2, <3>1 DEF QueueRow, Queued, ActiveItem, NoItem, ACTIVE, WAITING, TypeOK
    <3> QED BY <2>1, <3>1, <3>2, OneRowChanged DEF TypeOK
  <2>3. CASE ~Queued(o)
    <3>1. item' = item
      BY <1>2, <2>3 DEF BeginAttempt
    <3>2. QueueRow(o)'
      BY <2>1, <2>3, <3>1 DEF QueueRow, QueueShowsStatus, Queued
    <3> QED BY <2>1, <3>1, <3>2, OneRowChanged
  <2> QED BY <2>2, <2>3
<1>3. ASSUME NEW o \in Ops, NEW newFlag, Record(o, status[o], newFlag), item' = item
      PROVE  QueueShowsStatus'
  BY <1>3, ItemsKept
<1>4. ASSUME NEW o \in Ops, NEW fence, NEW outcome, FinishAttempt(o, fence, outcome)
      PROVE  QueueShowsStatus'
  <2>1. FinishTarget(o, outcome) \notin ACTIVE \cup WAITING
    BY FinishTargetFacts DEF TERMINAL, ACTIVE, WAITING
  <2> QED BY <1>4, <2>1, ItemDropped DEF FinishAttempt
<1> QED BY <1>1, <1>2, <1>3, <1>4, QueueAfterTransition
        DEF OwnerCall, RecordLaunch, FlagUnconfirmed, queueVars

LEMMA QueueRecovered ==
    ASSUME TypeOK, QueueShowsStatus, NEW decisions, Recover(decisions)
    PROVE  QueueShowsStatus'
<1> SUFFICES ASSUME NEW o \in Ops PROVE QueueRow(o)'
  BY DEF QueueShowsStatus, QueueRow
<1> DEFINE gone == Interrupted(decisions)
<1>1. item[o] \in Item /\ QueueRow(o)
  BY DEF TypeOK, QueueShowsStatus, QueueRow
<1>2. CASE o \in gone
  <2>1. status'[o] = "interrupted" /\ item'[o] = NoItem
    BY <1>2 DEF Recover
  <2> QED BY <2>1 DEF QueueRow, Queued, NoItem, ACTIVE, WAITING
<1>3. CASE o \notin gone /\ o \in RecoveryHeld
  <2>1. item'[o].place = "waiting" /\ item[o].place = "waiting"
    BY <1>1, <1>3 DEF Recover, RecoveryHeld, Waiting, Item
  <2>2. status'[o] \in {status[o], "held"} /\ status[o] \in WAITING /\ Queued(o)
    BY <1>1, <1>3, <2>1 DEF Recover, QueueRow
  <2> QED BY <2>1, <2>2 DEF QueueRow, Queued, ACTIVE, WAITING
<1>4. CASE o \notin gone /\ o \notin RecoveryHeld
  <2>1. status'[o] = status[o] /\ item'[o] = item[o]
    BY <1>4 DEF Recover
  <2> QED BY <1>1, <2>1 DEF QueueRow, Queued
<1> QED BY <1>2, <1>3, <1>4

LEMMA InitQueue == StoreInit => QueueShowsStatus
BY DEF StoreInit, QueueShowsStatus, NoItem, ACTIVE, WAITING

LEMMA StepQueue == TypeOK /\ QueueShowsStatus /\ [StoreCall]_storeVars => QueueShowsStatus'
<1>1. QueueShowsStatus /\ UNCHANGED storeVars => QueueShowsStatus'
  BY DEF storeVars, opVars, queueVars, QueueShowsStatus, Queued
<1> QED BY <1>1, CreateQueue, UserCommandQueue, OwnerCallQueue, QueueRecovered
        DEF StoreCall

-------------------------------------------------------------------------------
(* The theorems *)

LEMMA CallsSlotCoherence == CallSpec => []SlotCoherence
<1> DEFINE IInv == TypeOK /\ LeaseCoherence /\ QueueShowsStatus
<1>1. StoreInit => IInv
  BY InitType, InitLeases, InitQueue
<1>2. IInv /\ [StoreCall]_storeVars => IInv'
  BY StepType, StepLeases, StepQueue
<1>3. IInv => SlotCoherence
  BY DEF LeaseCoherence, SlotCoherence
<1> QED BY <1>1, <1>2, <1>3, PTL DEF CallSpec

\* Lease, operation status, attempt journal and queue item agree after every
\* sequence of calls, for any number of operations and attempts.
THEOREM StoreSlotCoherence == StoreSpec => []SlotCoherence
BY CallsSlotCoherence, SpecIsCalls, PTL

\* Two active operations of the heavy slot would hold the same lease.
LEMMA CoherenceImpliesSingle == TypeOK /\ SlotCoherence => SingleHeavySlot
<1> SUFFICES ASSUME TypeOK, SlotCoherence, NEW a \in Ops, NEW b \in Ops, Queued(a), Queued(b),
                    status[a] \in ACTIVE, status[b] \in ACTIVE
             PROVE  a = b
  BY DEF SingleHeavySlot
<1>1. HeldFence(a) # 0 /\ HeldFence(b) # 0
  BY DEF SlotCoherence, ActiveHoldsLease
<1>2. Slot(a) = Slot(b)
  BY DEF Slot, SLOT, Queued
<1> QED BY <1>1, <1>2, HeldFenceType

LEMMA CallsSingleHeavySlot == CallSpec => []SingleHeavySlot
BY CallsTypeOK, CallsSlotCoherence, CoherenceImpliesSingle, PTL

\* Never more than one heavy operation at a time, whatever the clients do.
THEOREM StoreSingleHeavySlot == StoreSpec => []SingleHeavySlot
BY CallsSingleHeavySlot, SpecIsCalls, PTL

-------------------------------------------------------------------------------
(* What one transaction does to one row *)

\* Only jobs are ever shown held or blocked.
OnlyJobsHeld == \A o \in Ops : Kind[o] # "job" => status[o] \notin {"held", "blocked"}

\* The status may be written: the operation is new, or its table goes on.
Open(o) == status[o] = "absent" \/ ~IsFinal(Kind[o], status[o])

MayBecome(o, new) ==
    \/ new = status[o]
    \/ status[o] = "absent" /\ new = "queued"
    \/ Check(Kind[o], status[o], new)
    \/ Kind[o] = "job" /\ status[o] = "held" /\ new = "blocked"

RowKept(o) ==
    /\ status'[o] = status[o] /\ revision'[o] = revision[o]
    /\ flag'[o] = flag[o] /\ item'[o] = item[o]

RowStep(o) ==
    /\ MayBecome(o, status'[o])
    /\ Open(o) \/ RowKept(o)
    /\ \/ flag'[o] = "none"
       \/ flag'[o] = flag[o] /\ status[o] = "absent"
       \/ status'[o] = status[o] /\ (flag'[o] = flag[o] \/ status[o] \in ACTIVE)

RowsStep == \A o \in Ops : RowStep(o)

ResultsStep == \A o \in results' : o \in results \/ status'[o] = "succeeded"

-------------------------------------------------------------------------------
(* Facts of the tables *)

LEMMA WaitingRows ==
    /\ \A s \in WAITING : Check("job", s, "cancelled")
    /\ \A s \in WAITING : \A t \in {"held", "queued"} : s = t \/ Check("job", s, t)
    /\ Check("job", "queued", "blocked")
BY DEF Check, TRANSITIONS, JobRows, WAITING

\* Whatever runs, of whatever kind, can be interrupted by recovery.
LEMMA ActiveRows ==
    ASSUME NEW kind \in Kinds, NEW s \in ACTIVE
    PROVE  Check(kind, s, "interrupted")
<1>1. CASE kind = "job"
  BY <1>1 DEF Check, TRANSITIONS, JobRows, ACTIVE
<1>2. CASE kind = "setup_operation"
  BY <1>2 DEF Check, TRANSITIONS, SetupRows, ACTIVE
<1>3. CASE kind = "refresh_operation"
  BY <1>3 DEF Check, TRANSITIONS, RefreshRows, ACTIVE
<1> QED BY <1>1, <1>2, <1>3 DEF Kinds

LEMMA QueuedRows == ASSUME NEW kind \in Kinds PROVE Check(kind, "queued", "cancelled")
<1>1. CASE kind = "job"
  BY <1>1 DEF Check, TRANSITIONS, JobRows
<1>2. CASE kind = "setup_operation"
  BY <1>2 DEF Check, TRANSITIONS, SetupRows
<1>3. CASE kind = "refresh_operation"
  BY <1>3 DEF Check, TRANSITIONS, RefreshRows
<1> QED BY <1>1, <1>2, <1>3 DEF Kinds

\* A waiting or active operation, one with a row to follow, and a new one are open.
LEMMA OpenFacts ==
    ASSUME OnlyJobsHeld, NEW o \in Ops
    PROVE  /\ status[o] \in ACTIVE \cup WAITING \cup {"absent"} => Open(o)
           /\ \A new : Check(Kind[o], status[o], new) => Open(o)
<1>1. ASSUME NEW new, Check(Kind[o], status[o], new) PROVE Open(o)
  <2>1. new \in Statuses
    BY <1>1, TableFacts, SlotType
  <2> QED BY <1>1, <2>1 DEF Open, IsFinal
<1>2. CASE status[o] \in ACTIVE
  BY <1>1, <1>2, ActiveRows, SlotType
<1>3. CASE status[o] \in WAITING
  <2>1. CASE Kind[o] = "job"
    BY <1>1, <1>3, <2>1, WaitingRows
  <2>2. CASE Kind[o] # "job"
    <3>1. status[o] = "queued"
      BY <1>3, <2>2 DEF OnlyJobsHeld, WAITING
    <3> QED BY <1>1, <3>1, QueuedRows, SlotType
  <2> QED BY <2>1, <2>2
<1> QED BY <1>1, <1>2, <1>3 DEF Open

\* A finished operation is not open.
LEMMA TerminalIsFinal ==
    ASSUME NEW o \in Ops, status[o] \in TERMINAL
    PROVE  ~Open(o)
<1>1. \A new : ~Check(Kind[o], status[o], new)
  BY TableSources, SlotType
<1> QED BY <1>1 DEF Open, IsFinal, TERMINAL

-------------------------------------------------------------------------------
(* Every method *)

\* A transaction that records one operation and touches no other item.
LEMMA OneRecorded ==
    ASSUME TypeOK, NEW o \in Ops, NEW new, NEW newFlag, Record(o, new, newFlag),
           \A other \in Ops \ {o} : item'[other] = item[other],
           MayBecome(o, new), Open(o),
           newFlag = "none" \/ (new = status[o] /\ (newFlag = flag[o] \/ status[o] \in ACTIVE))
    PROVE  RowsStep
<1>1. status'[o] = new /\ flag'[o] = newFlag
  BY DEF Record, TypeOK
<1>2. RowStep(o)
  BY <1>1 DEF RowStep
<1>3. ASSUME NEW other \in Ops \ {o} PROVE RowStep(other)
  <2>1. RowKept(other)
    BY <1>3 DEF RowKept, Record, TypeOK
  <2> QED BY <2>1 DEF RowStep, RowKept, MayBecome
<1> QED BY <1>2, <1>3 DEF RowsStep

\* A transaction that only touches the items of waiting operations.
LEMMA NothingRecorded ==
    ASSUME TypeOK, QueueShowsStatus, OnlyJobsHeld, UNCHANGED opVars,
           \A o \in Ops : item'[o] = item[o] \/ item[o].place = "waiting"
    PROVE  RowsStep
<1> SUFFICES ASSUME NEW o \in Ops PROVE RowStep(o)
  BY DEF RowsStep
<1>1. Open(o) \/ item'[o] = item[o]
  BY OpenFacts DEF QueueShowsStatus
<1> QED BY <1>1 DEF RowStep, RowKept, MayBecome, opVars

LEMMA BatchRows ==
    ASSUME TypeOK, OnlyJobsHeld, NEW rank, AcceptBatch(rank)
    PROVE  RowsStep
<1>1. ASSUME NEW o \in Ops, o \in DOMAIN rank PROVE RowStep(o)
  <2>1. status[o] = "absent" /\ status'[o] = "queued" /\ flag'[o] = flag[o]
    BY <1>1 DEF AcceptBatch
  <2> QED BY <2>1 DEF RowStep, MayBecome, Open
<1>2. ASSUME NEW o \in Ops, o \notin DOMAIN rank PROVE RowStep(o)
  BY <1>2 DEF AcceptBatch, RowStep, RowKept, MayBecome
<1> QED BY <1>1, <1>2 DEF RowsStep

LEMMA CreateRows == TypeOK /\ OnlyJobsHeld /\ Create => RowsStep
<1> SUFFICES ASSUME TypeOK, OnlyJobsHeld, Create PROVE RowsStep
  OBVIOUS
<1>1. ASSUME NEW o \in Ops, Submit(o) \/ StartOperation(o) PROVE RowsStep
  <2>1. status[o] = "absent" /\ Record(o, "queued", "none")
    BY <1>1 DEF Submit, StartOperation
  <2>2. \A other \in Ops \ {o} : item'[other] = item[other]
    BY <1>1 DEF Submit, StartOperation, Enqueue, TypeOK
  <2> QED BY <2>1, <2>2, OneRecorded DEF MayBecome, Open
<1> QED BY <1>1, BatchRows DEF Create, RetryJob

LEMMA UserCommandRows ==
    TypeOK /\ QueueShowsStatus /\ OnlyJobsHeld /\ UserCommand => RowsStep
<1> SUFFICES ASSUME TypeOK, QueueShowsStatus, OnlyJobsHeld, UserCommand PROVE RowsStep
  OBVIOUS
<1>1. ASSUME NEW o \in Ops, NEW expected, CancelJob(o, expected) PROVE RowsStep
  <2>1. CASE status[o] \in WAITING /\ Release(o, "released") /\ Record(o, "cancelled", "none")
    <3>1. MayBecome(o, "cancelled")
      BY <1>1, <2>1, WaitingRows DEF CancelJob, MayBecome
    <3>2. \A other \in Ops \ {o} : item'[other] = item[other]
      BY <2>1 DEF Release, TypeOK
    <3> QED BY <2>1, <3>1, <3>2, OneRecorded, OpenFacts
  <2>2. CASE status[o] = "running" /\ Record(o, "cancelling", "none") /\ item' = item
    <3>1. MayBecome(o, "cancelling")
      BY <1>1, <2>2 DEF CancelJob, MayBecome, Check, TRANSITIONS, JobRows
    <3> QED BY <2>2, <3>1, OneRecorded, OpenFacts DEF ACTIVE
  <2> QED BY <1>1, <2>1, <2>2 DEF CancelJob, queueVars
<1>2. ASSUME NEW o \in Ops, NEW expected, Revalidated(o, expected) PROVE RowsStep
  <2>1. Kind[o] = "job" /\ status[o] \in WAITING
    BY <1>2 DEF Revalidated, WAITING
  <2>2. PICK new \in {"held", "queued"} : Record(o, new, "none")
    BY <1>2 DEF Revalidated
  <2>3. MayBecome(o, new)
    BY <2>1, WaitingRows DEF MayBecome
  <2>4. \A other \in Ops \ {o} : item'[other] = item[other]
    BY <1>2 DEF Revalidated, TypeOK
  <2> QED BY <2>1, <2>2, <2>3, <2>4, OneRecorded, OpenFacts
<1>3. ASSUME NEW o \in Ops, NEW held \in BOOLEAN, HoldChange(o, held) PROVE RowsStep
  <2>1. status[o] \in WAITING
    BY <1>3 DEF HoldChange
  <2>2. PICK new : /\ Record(o, new, "none")
                   /\ new = status[o] \/ (Kind[o] = "job" /\ new \in {"held", "queued"})
    BY <1>3 DEF HoldChange
  <2>3. MayBecome(o, new)
    BY <2>1, <2>2, WaitingRows DEF MayBecome
  <2>4. \A other \in Ops \ {o} : item'[other] = item[other]
    BY <1>3 DEF HoldChange, TypeOK
  <2> QED BY <2>1, <2>2, <2>3, <2>4, OneRecorded, OpenFacts
<1>4. ASSUME NEW expectedQueue, NEW target, SetDispatch(expectedQueue, target) PROVE RowsStep
  BY <1>4, NothingRecorded DEF SetDispatch
<1>5. ASSUME NEW expectedQueue, NEW takes, Reorder(expectedQueue, takes) PROVE RowsStep
  <2>1. UNCHANGED opVars /\ \A o \in Ops : item'[o] = item[o] \/ item[o].place = "waiting"
    BY <1>5 DEF Reorder, Waiting
  <2> QED BY <2>1, NothingRecorded
<1> QED BY <1>1, <1>2, <1>3, <1>4, <1>5 DEF UserCommand, SetHold, SetItemHold

LEMMA TransitionRows ==
    ASSUME TypeOK, OnlyJobsHeld, NEW o \in Ops, NEW expected, NEW target, NEW fence,
           Transition(o, expected, target, fence)
    PROVE  RowsStep
<1>1. Record(o, target, "none") /\ Check(Kind[o], status[o], target)
  BY DEF Transition
<1>2. \A other \in Ops \ {o} : item'[other] = item[other]
  <2>1. CASE item' = item
    BY <2>1
  <2>2. ASSUME NEW state, Release(o, state)
        PROVE  \A other \in Ops \ {o} : item'[other] = item[other]
    BY <2>2 DEF Release, TypeOK
  <2>3. CASE Enqueue(o)
    BY <2>3 DEF Enqueue, TypeOK
  <2>4. CASE item' = [item EXCEPT ![o].held = TRUE, ![o].blocked = FALSE]
    BY <2>4, ItemOthers
  <2>5. CASE item' = [item EXCEPT ![o].held = FALSE, ![o].blocked = FALSE]
    BY <2>5, ItemOthers
  <2>6. CASE item' = [item EXCEPT ![o].blocked = TRUE]
    BY <2>6, ItemOthers
  <2> QED BY <2>1, <2>2, <2>3, <2>4, <2>5, <2>6 DEF Transition, ApplyActive, ApplyIdle
<1>3. MayBecome(o, target) /\ Open(o)
  BY <1>1, OpenFacts DEF MayBecome
<1> QED BY <1>1, <1>2, <1>3, OneRecorded

\* The caller of a fenced method owns an operation that runs.
LEMMA FencedIsActive ==
    ASSUME TypeOK, LeaseCoherence, NEW o \in Ops, NEW fence, Fenced(o, fence)
    PROVE  status[o] \in ACTIVE
<1>1. HeldFence(o) # 0 /\ lease[Slot(o)] = HeldFence(o) /\ attempts[HeldFence(o)].op = o
  BY HeldFenceType DEF Fenced
<1> QED BY <1>1, SlotType DEF LeaseCoherence, LeaseHolderIsActive

LEMMA OwnerCallRows ==
    TypeOK /\ LeaseCoherence /\ OnlyJobsHeld /\ OwnerCall => RowsStep
<1> SUFFICES ASSUME TypeOK, LeaseCoherence, OnlyJobsHeld, OwnerCall PROVE RowsStep
  OBVIOUS
<1>1. ASSUME NEW o \in Ops, NEW expected, BlockJob(o, expected) PROVE RowsStep
  <2>1. MayBecome(o, "blocked") /\ status[o] \in WAITING
    BY <1>1, WaitingRows DEF BlockJob, MayBecome, WAITING
  <2>2. \A other \in Ops \ {o} : item'[other] = item[other]
    BY <1>1 DEF BlockJob, TypeOK
  <2> QED BY <1>1, <2>1, <2>2, OneRecorded, OpenFacts DEF BlockJob
<1>2. ASSUME NEW o \in Ops, NEW expected, BeginAttempt(o, expected) PROVE RowsStep
  <2>1. Record(o, "running", "none") /\ Check(Kind[o], status[o], "running")
    BY <1>2 DEF BeginAttempt, CanBegin
  <2>2. \A other \in Ops \ {o} : item'[other] = item[other]
    BY <1>2 DEF BeginAttempt, TypeOK
  <2> QED BY <2>1, <2>2, OneRecorded, OpenFacts DEF MayBecome
<1>3. ASSUME NEW o \in Ops, NEW fence, Fenced(o, fence), NEW newFlag,
             Record(o, status[o], newFlag), item' = item
      PROVE  RowsStep
  BY <1>3, FencedIsActive, OneRecorded, OpenFacts DEF MayBecome
<1>4. ASSUME NEW o \in Ops, NEW fence, NEW outcome, FinishAttempt(o, fence, outcome)
      PROVE  RowsStep
  <2>1. /\ Record(o, FinishTarget(o, outcome), "none")
        /\ Check(Kind[o], status[o], FinishTarget(o, outcome))
    BY <1>4 DEF FinishAttempt
  <2>2. \A other \in Ops \ {o} : item'[other] = item[other]
    BY <1>4 DEF FinishAttempt, Release, TypeOK
  <2> QED BY <2>1, <2>2, OneRecorded, OpenFacts DEF MayBecome
<1> QED BY <1>1, <1>2, <1>3, <1>4, TransitionRows
        DEF OwnerCall, RecordLaunch, FlagUnconfirmed, queueVars

LEMMA RecoveredRows ==
    ASSUME TypeOK, QueueShowsStatus, OnlyJobsHeld, NEW decisions, Recover(decisions)
    PROVE  RowsStep
<1> SUFFICES ASSUME NEW o \in Ops PROVE RowStep(o)
  BY DEF RowsStep
<1>1. CASE o \in Interrupted(decisions)
  <2>1. status[o] \in ACTIVE
    BY <1>1 DEF Interrupted
  <2>2. status'[o] = "interrupted" /\ MayBecome(o, "interrupted")
    BY <1>1, <2>1, ActiveRows, SlotType DEF Recover, MayBecome
  <2>3. flag'[o] = "none"
    BY <1>1 DEF Recover, Flagged, Interrupted, RecoveryReasons
  <2> QED BY <2>1, <2>2, <2>3, OpenFacts DEF RowStep
<1>2. CASE o \in RecoveryHeld
  <2>1. status[o] \in WAITING
    BY <1>2 DEF RecoveryHeld, Waiting, QueueShowsStatus
  <2>2. o \notin Interrupted(decisions) /\ o \notin Flagged(decisions)
    BY <2>1 DEF Interrupted, Flagged, ACTIVE, WAITING
  <2>3. \/ status'[o] = status[o]
        \/ status'[o] = "held" /\ Kind[o] = "job"
    BY <1>2, <2>2 DEF Recover
  <2>4. MayBecome(o, status'[o])
    BY <2>1, <2>3, WaitingRows DEF MayBecome
  <2>5. flag'[o] = "none"
    BY <1>2, <2>2 DEF Recover
  <2> QED BY <2>1, <2>4, <2>5, OpenFacts DEF RowStep
<1>3. CASE o \in Flagged(decisions) /\ o \notin Interrupted(decisions) \cup RecoveryHeld
  <2>1. status[o] \in ACTIVE /\ status'[o] = status[o]
    BY <1>3 DEF Recover, Flagged
  <2> QED BY <2>1, OpenFacts DEF RowStep, MayBecome
<1>4. CASE o \notin Recovered(decisions)
  BY <1>4 DEF Recover, Recovered, RowStep, RowKept, MayBecome
<1> QED BY <1>1, <1>2, <1>3, <1>4 DEF Recovered

\* Every method writes a row only while its table goes on, and as it says.
LEMMA StepRows ==
    TypeOK /\ LeaseCoherence /\ QueueShowsStatus /\ OnlyJobsHeld /\ [StoreCall]_storeVars => RowsStep
<1>1. UNCHANGED storeVars => RowsStep
  BY DEF storeVars, opVars, queueVars, RowsStep, RowStep, RowKept, MayBecome
<1> QED BY <1>1, CreateRows, UserCommandRows, OwnerCallRows, RecoveredRows
        DEF StoreCall

\* A result row is inserted with the status succeeded, and only then.
LEMMA StepResults == TypeOK /\ [StoreCall]_storeVars => ResultsStep
<1> SUFFICES ASSUME TypeOK, [StoreCall]_storeVars PROVE ResultsStep
  OBVIOUS
<1>1. ASSUME NEW o \in Ops, NEW fence, NEW outcome, FinishAttempt(o, fence, outcome)
      PROVE  ResultsStep
  <2>1. status'[o] = FinishTarget(o, outcome)
    BY <1>1, RecordOthers DEF FinishAttempt
  <2> QED BY <1>1, <2>1 DEF FinishAttempt, ResultsStep
<1>2. CASE results' = results
  BY <1>2 DEF ResultsStep
<1>3. UserCommand => results' = results
  BY DEF UserCommand, CancelJob, Revalidated, SetHold, SetItemHold, HoldChange, SetDispatch, Reorder
<1>4. Create => results' = results
  BY DEF Create, Submit, StartOperation, RetryJob, AcceptBatch
<1>5. (\E decisions : Recover(decisions)) \/ UNCHANGED storeVars => results' = results
  BY DEF Recover, storeVars
<1>6. OwnerCall => ResultsStep
  BY <1>1, <1>2
     DEF OwnerCall, BlockJob, BeginAttempt, Transition, RecordLaunch, FlagUnconfirmed
<1> QED BY <1>2, <1>3, <1>4, <1>5, <1>6 DEF StoreCall

-------------------------------------------------------------------------------
(* The invariant of the store and the theorems *)

StoreInv == TypeOK /\ LeaseCoherence /\ QueueShowsStatus /\ OnlyJobsHeld

LEMMA RowsKeepKinds == ASSUME OnlyJobsHeld, RowsStep PROVE OnlyJobsHeld'
<1> SUFFICES ASSUME NEW o \in Ops, Kind[o] # "job" PROVE status'[o] \notin {"held", "blocked"}
  BY DEF OnlyJobsHeld
<1>1. MayBecome(o, status'[o])
  BY DEF RowsStep, RowStep
<1> QED BY <1>1, TableFacts, SlotType DEF MayBecome, OnlyJobsHeld

LEMMA InitInv == StoreInit => StoreInv
<1>1. StoreInit => OnlyJobsHeld
  BY DEF StoreInit, OnlyJobsHeld
<1> QED BY <1>1, InitType, InitLeases, InitQueue DEF StoreInv

LEMMA StepInv == StoreInv /\ [StoreCall]_storeVars => StoreInv'
BY StepType, StepLeases, StepQueue, StepRows, RowsKeepKinds DEF StoreInv

LEMMA CallInvariant == CallSpec => []StoreInv
BY InitInv, StepInv, PTL DEF CallSpec

LEMMA CallsFlaggedIsActive == CallSpec => []FlaggedIsActive
<1>1. StoreInit => FlaggedIsActive
  BY DEF StoreInit, FlaggedIsActive
<1>2. StoreInv /\ FlaggedIsActive /\ [StoreCall]_storeVars => FlaggedIsActive'
  <2> SUFFICES ASSUME StoreInv, FlaggedIsActive, [StoreCall]_storeVars,
                      NEW o \in Ops, flag'[o] # "none"
               PROVE  status'[o] \in ACTIVE
    BY DEF FlaggedIsActive
  <2>1. RowStep(o)
    BY StepRows DEF StoreInv, RowsStep
  <2> QED BY <2>1 DEF RowStep, FlaggedIsActive, ACTIVE
<1> QED BY <1>1, <1>2, CallInvariant, PTL DEF CallSpec

\* recovery_required is shown only of operations that occupy their slot, for
\* any number of them: whatever frees the slot clears it (store.py _record,
\* recover; job_repository.py flag_unconfirmed).
THEOREM StoreFlaggedIsActive == StoreSpec => []FlaggedIsActive
BY CallsFlaggedIsActive, SpecIsCalls, PTL

LEMMA CallsResultOnlyIfSucceeded == CallSpec => []ResultOnlyIfSucceeded
<1>1. StoreInit => ResultOnlyIfSucceeded
  BY DEF StoreInit, ResultOnlyIfSucceeded
<1>2. StoreInv /\ ResultOnlyIfSucceeded /\ [StoreCall]_storeVars => ResultOnlyIfSucceeded'
  <2> SUFFICES ASSUME StoreInv, ResultOnlyIfSucceeded, [StoreCall]_storeVars, NEW o \in results'
               PROVE  status'[o] = "succeeded"
    BY DEF ResultOnlyIfSucceeded
  <2>1. CASE o \in results
    <3>1. o \in Ops /\ status[o] = "succeeded"
      BY <2>1 DEF StoreInv, TypeOK, ResultOnlyIfSucceeded
    <3>2. ~Open(o)
      BY <3>1, TerminalIsFinal DEF TERMINAL
    <3> QED BY <3>1, <3>2, StepRows DEF StoreInv, RowsStep, RowStep, RowKept
  <2>2. CASE o \notin results
    BY <2>2, StepResults DEF StoreInv, ResultsStep
  <2> QED BY <2>1, <2>2
<1> QED BY <1>1, <1>2, CallInvariant, PTL DEF CallSpec

\* Only what succeeded has a result: never a job whose cancellation was
\* accepted before its completion was reported (job_repository.py finish_attempt).
THEOREM StoreResultOnlyIfSucceeded == StoreSpec => []ResultOnlyIfSucceeded
BY CallsResultOnlyIfSucceeded, SpecIsCalls, PTL

LEMMA CallsFinalIsFinal == CallSpec => FinalIsFinal
<1>1. StoreInv /\ [StoreCall]_storeVars =>
        \A o \in Ops : status[o] # "absent" /\ IsFinal(Kind[o], status[o]) => RowKept(o)
  BY StepRows DEF StoreInv, RowsStep, RowStep, Open
<1>2. StoreInv /\ [StoreCall]_storeVars =>
        [\A o \in Ops : status[o] # "absent" /\ IsFinal(Kind[o], status[o]) =>
            <<status[o], revision[o], flag[o], item[o]>>'
                = <<status[o], revision[o], flag[o], item[o]>>]_storeVars
  BY <1>1 DEF RowKept
<1> QED BY <1>2, CallInvariant, PTL DEF CallSpec, FinalIsFinal

\* A finished operation is never written again, by whatever late report, stale
\* command or recovery.
THEOREM StoreFinalIsFinal == StoreSpec => FinalIsFinal
BY CallsFinalIsFinal, SpecIsCalls, PTL

LEMMA CallsStatusFollowsTable == CallSpec => StatusFollowsTable
<1>1. StoreInv /\ [StoreCall]_storeVars =>
        [\A o \in Ops : status'[o] # status[o] =>
            \/ status[o] = "absent" /\ status'[o] = "queued"
            \/ Check(Kind[o], status[o], status'[o])
            \/ status[o] = "held" /\ status'[o] = "blocked"]_storeVars
  BY StepRows DEF StoreInv, RowsStep, RowStep, MayBecome
<1> QED BY <1>1, CallInvariant, PTL DEF CallSpec, StatusFollowsTable

\* Every change of a status is a row of its table, but for block_job on a held job.
THEOREM StoreStatusFollowsTable == StoreSpec => StatusFollowsTable
BY CallsStatusFollowsTable, SpecIsCalls, PTL
-------------------------------------------------------------------------------
(* Attempts *)

AttemptsStep ==
    /\ Len(attempts') >= Len(attempts)
    /\ \A f \in Fences : /\ attempts'[f].op = attempts[f].op
                         /\ attempts[f].state # "active" => attempts'[f] = attempts[f]

\* Only an attempt that has not ended is written.
LEMMA OneAttemptWritten ==
    ASSUME TypeOK, NEW h \in Fences, attempts[h].state = "active", Len(attempts') = Len(attempts),
           attempts'[h].op = attempts[h].op,
           \A f \in Fences \ {h} : attempts'[f] = attempts[f]
    PROVE  AttemptsStep
<1>1. Len(attempts) \in Nat
  BY LenProperties DEF TypeOK
<1> QED BY <1>1 DEF AttemptsStep

LEMMA AttemptsKept == ASSUME TypeOK, attempts' = attempts PROVE AttemptsStep
<1>1. Len(attempts) \in Nat
  BY LenProperties DEF TypeOK
<1> QED BY <1>1 DEF AttemptsStep

\* The attempt through which an operation holds its slot has not ended.
LEMMA HeldIsOpen ==
    ASSUME TypeOK, LeaseCoherence, NEW o \in Ops, HeldFence(o) # 0
    PROVE  HeldFence(o) \in Fences /\ attempts[HeldFence(o)].state = "active"
<1>1. HeldFence(o) \in Fences /\ lease[Slot(o)] = HeldFence(o) /\ Slot(o) \in Slots
  BY HeldFenceType, SlotType
<1> QED BY <1>1 DEF LeaseCoherence, LeaseHolderIsActive

LEMMA AttemptsAfterRelease ==
    ASSUME TypeOK, LeaseCoherence, NEW o \in Ops, NEW state \in {"released", "interrupted"},
           Release(o, state)
    PROVE  AttemptsStep
<1>1. CASE HeldFence(o) # 0
  <2>1. HeldFence(o) \in Fences /\ attempts[HeldFence(o)].state = "active"
    BY <1>1, HeldIsOpen
  <2>2. attempts' = [attempts EXCEPT ![HeldFence(o)].state = state]
    BY <1>1 DEF Release
  <2>3. /\ Len(attempts') = Len(attempts)
        /\ attempts'[HeldFence(o)] = [attempts[HeldFence(o)] EXCEPT !.state = state]
        /\ \A g \in Fences \ {HeldFence(o)} : attempts'[g] = attempts[g]
    BY <2>1, <2>2, AttemptStateType
  <2>4. attempts'[HeldFence(o)].op = attempts[HeldFence(o)].op
    BY <2>1, <2>3, AttemptType DEF Attempt
  <2> QED BY <2>1, <2>3, <2>4, OneAttemptWritten
<1>2. CASE HeldFence(o) = 0
  BY <1>2, AttemptsKept DEF Release
<1> QED BY <1>1, <1>2

LEMMA AttemptsAfterLaunch ==
    ASSUME TypeOK, LeaseCoherence, NEW o \in Ops, NEW fence, NEW outcome \in {"confirmed", "failed"},
           RecordLaunch(o, fence, outcome)
    PROVE  AttemptsStep
<1>1. fence \in Fences /\ attempts[fence].state = "active"
  BY HeldIsOpen DEF RecordLaunch, Fenced
<1>2. /\ Len(attempts') = Len(attempts)
      /\ \A f \in Fences : attempts'[f].op = attempts[f].op
  BY <1>1, RecordLaunchType
<1>3. \A f \in Fences \ {fence} : attempts'[f] = attempts[f]
  BY DEF RecordLaunch, TypeOK, Fences
<1> QED BY <1>1, <1>2, <1>3, OneAttemptWritten

LEMMA AttemptsRecovered ==
    ASSUME TypeOK, LeaseCoherence, NEW decisions, Recover(decisions)
    PROVE  AttemptsStep
<1>1. Len(attempts') = Len(attempts) /\ Len(attempts) \in Nat
  BY RecoverType, LenProperties DEF TypeOK
<1>2. ASSUME NEW f \in Fences
      PROVE  /\ attempts'[f].op = attempts[f].op
             /\ attempts[f].state # "active" => attempts'[f] = attempts[f]
  <2>1. CASE \E o \in Interrupted(decisions) : f = HeldFence(o)
    <3>1. PICK o \in Interrupted(decisions) : f = HeldFence(o)
      BY <2>1
    <3>2. attempts[f].state = "active"
      BY <3>1, HeldIsOpen DEF Interrupted, LeaseCoherence, ActiveHoldsLease
    <3>3. attempts'[f] = [attempts[f] EXCEPT !.state = "interrupted"]
      BY <2>1 DEF Recover
    <3> QED BY <3>2, <3>3, AttemptType DEF Attempt
  <2>2. CASE ~\E o \in Interrupted(decisions) : f = HeldFence(o)
    BY <2>2 DEF Recover
  <2> QED BY <2>1, <2>2
<1> QED BY <1>1, <1>2 DEF AttemptsStep

LEMMA StepAttempts == TypeOK /\ LeaseCoherence /\ [StoreCall]_storeVars => AttemptsStep
<1> SUFFICES ASSUME TypeOK, LeaseCoherence, [StoreCall]_storeVars PROVE AttemptsStep
  OBVIOUS
<1>1. Create => attempts' = attempts
  BY DEF Create, Submit, StartOperation, RetryJob, AcceptBatch
<1>2. ASSUME UserCommand PROVE AttemptsStep
  <2>1. ASSUME NEW o \in Ops, NEW expected, CancelJob(o, expected) PROVE AttemptsStep
    BY <2>1, AttemptsAfterRelease, AttemptsKept DEF CancelJob
  <2> QED BY <1>2, <2>1, AttemptsKept
          DEF UserCommand, Revalidated, SetHold, SetItemHold, HoldChange, SetDispatch, Reorder
<1>3. ASSUME OwnerCall PROVE AttemptsStep
  <2>1. ASSUME NEW o \in Ops, NEW expected, NEW target, NEW fence,
               Transition(o, expected, target, fence)
        PROVE  AttemptsStep
    <3>1. CASE attempts' = attempts
      BY <3>1, AttemptsKept
    <3>2. CASE \E state \in {"released", "interrupted"} : Release(o, state)
      BY <3>2, AttemptsAfterRelease
    <3> QED BY <2>1, <3>1, <3>2 DEF Transition, ApplyActive, ApplyIdle
  <2>2. ASSUME NEW o \in Ops, NEW expected, BeginAttempt(o, expected) PROVE AttemptsStep
    <3>1. Len(attempts) \in Nat
      BY LenProperties DEF TypeOK
    <3>2. Len(attempts') = Len(attempts) + 1 /\ \A f \in Fences : attempts'[f] = attempts[f]
      BY <2>2, BeginAttemptType
    <3> QED BY <3>1, <3>2 DEF AttemptsStep
  <2>3. ASSUME NEW o \in Ops, NEW fence, NEW outcome, FinishAttempt(o, fence, outcome)
        PROVE  AttemptsStep
    BY <2>3, AttemptsAfterRelease DEF FinishAttempt
  <2> QED BY <1>3, <2>1, <2>2, <2>3, AttemptsAfterLaunch, AttemptsKept
          DEF OwnerCall, BlockJob, FlagUnconfirmed
<1> QED BY <1>1, <1>2, <1>3, AttemptsKept, AttemptsRecovered
        DEF StoreCall, storeVars

LEMMA CallsEndedAttemptsAreFrozen == CallSpec => EndedAttemptsAreFrozen
<1>1. StoreInv /\ [StoreCall]_storeVars =>
        [ /\ Len(attempts') >= Len(attempts)
          /\ \A f \in Fences : /\ attempts'[f].op = attempts[f].op
                               /\ attempts[f].state # "active" => attempts'[f] = attempts[f]
        ]_storeVars
  BY StepAttempts DEF StoreInv, AttemptsStep
<1> QED BY <1>1, CallInvariant, PTL DEF CallSpec, EndedAttemptsAreFrozen

\* History stays: whoever reports late, an attempt that ended is not changed,
\* and the journal only grows (store.py _fenced, _release, recover).
THEOREM StoreEndedAttemptsAreFrozen == StoreSpec => EndedAttemptsAreFrozen
BY CallsEndedAttemptsAreFrozen, SpecIsCalls, PTL

LEMMA CallsHistoryIsLawful == CallSpec => HistoryIsLawful
BY CallsEndedAttemptsAreFrozen, CallsStatusFollowsTable, CallsFinalIsFinal DEF HistoryIsLawful

\* No sequence of calls rewrites what has ended, or leaves the table of a status.
THEOREM StoreHistoryIsLawful == StoreSpec => HistoryIsLawful
BY CallsHistoryIsLawful, SpecIsCalls, PTL

-------------------------------------------------------------------------------
(* The order of the waiting items *)

\* Items leave the queue or stay where they are.
LEMMA OrderKept ==
    ASSUME TypeOK, OrderIsStrict, enqueueOrder' = enqueueOrder,
           \A o \in Ops : item'[o].place = "waiting" =>
               item[o].place = "waiting" /\ item'[o].ord = item[o].ord
    PROVE  OrderIsStrict'
BY DEF OrderIsStrict, Waiting

LEMMA OrderEnqueued ==
    ASSUME TypeOK, OrderIsStrict, NEW o \in Ops, Enqueue(o)
    PROVE  OrderIsStrict'
<1>1. enqueueOrder \in Nat /\ enqueueOrder' = enqueueOrder + 1
  BY DEF Enqueue, TypeOK
<1>2. /\ item'[o].ord = enqueueOrder + 1
      /\ \A other \in Ops \ {o} : item'[other] = item[other]
  BY DEF Enqueue, WaitingItem, NoItem, TypeOK
<1>3. \A other \in Ops \ {o} : item'[other].place = "waiting" =>
          item'[other].ord = item[other].ord /\ item[other].ord \in 1..enqueueOrder
  BY <1>2 DEF OrderIsStrict, Waiting
<1>4. ASSUME NEW a \in Ops, NEW b \in Ops, item'[a].place = "waiting", item'[b].place = "waiting",
             item'[a].ord = item'[b].ord
      PROVE  a = b
  <2>1. CASE a = o \/ b = o
    BY <1>1, <1>2, <1>3, <1>4, <2>1
  <2>2. CASE a # o /\ b # o
    BY <1>2, <1>4, <2>2 DEF OrderIsStrict, Waiting
  <2> QED BY <2>1, <2>2
<1>5. \A other \in Ops : item'[other].place = "waiting" => item'[other].ord \in 1..enqueueOrder'
  BY <1>1, <1>2, <1>3
<1> QED BY <1>4, <1>5 DEF OrderIsStrict, Waiting

\* A batch takes as many values as it has jobs.
LEMMA OrderAfterBatch ==
    ASSUME TypeOK, OrderIsStrict, NEW batch \in SUBSET Ops,
           NEW rank \in [batch -> 1..Cardinality(batch)],
           \A a, b \in batch : rank[a] = rank[b] => a = b,
           AcceptBatch(rank)
    PROVE  OrderIsStrict'
<1>1. /\ enqueueOrder \in Nat /\ Cardinality(batch) \in Nat /\ DOMAIN rank = batch
      /\ enqueueOrder' = enqueueOrder + Cardinality(batch)
  BY OpsAssumption, FS_Subset, FS_CardinalityType DEF AcceptBatch, TypeOK
<1>2. /\ \A o \in batch : item'[o].ord = enqueueOrder + rank[o] /\ rank[o] \in 1..Cardinality(batch)
      /\ \A o \in Ops \ batch : item'[o] = item[o]
  BY <1>1 DEF AcceptBatch, WaitingItem, NoItem
<1>3. \A o \in Ops \ batch : item'[o].place = "waiting" =>
          item'[o].ord = item[o].ord /\ item[o].ord \in 1..enqueueOrder
  BY <1>2 DEF OrderIsStrict, Waiting
<1>4. \A o \in Ops : item'[o].place = "waiting" => item'[o].ord \in 1..enqueueOrder'
  BY <1>1, <1>2, <1>3
<1>5. ASSUME NEW a \in Ops, NEW b \in Ops, item'[a].place = "waiting", item'[b].place = "waiting",
             item'[a].ord = item'[b].ord
      PROVE  a = b
  <2>1. CASE a \in batch /\ b \in batch
    BY <1>1, <1>2, <1>5, <2>1
  <2>2. CASE a \notin batch /\ b \notin batch
    BY <1>2, <1>5, <2>2 DEF OrderIsStrict, Waiting
  <2>3. CASE a \in batch /\ b \notin batch
    BY <1>1, <1>2, <1>3, <1>5, <2>3
  <2>4. CASE a \notin batch /\ b \in batch
    BY <1>1, <1>2, <1>3, <1>5, <2>4
  <2> QED BY <2>1, <2>2, <2>3, <2>4
<1> QED BY <1>4, <1>5 DEF OrderIsStrict, Waiting

\* A reorder gives the waiting items each other's values.
LEMMA OrderReordered ==
    ASSUME TypeOK, OrderIsStrict, NEW expectedQueue, NEW takes \in Bijection(Waiting, Waiting),
           Reorder(expectedQueue, takes)
    PROVE  OrderIsStrict'
<1>1. /\ takes \in [Waiting -> Waiting]
      /\ \A a, b \in Waiting : takes[a] = takes[b] => a = b
  BY DEF Bijection, Injection, IsInjective
<1>2. \A o \in Ops : item[o] \in Item
  BY DEF TypeOK
<1>3. /\ \A o \in Waiting : item'[o].ord = item[takes[o]].ord
      /\ \A o \in Ops : item'[o].place = item[o].place
      /\ enqueueOrder' = enqueueOrder
  BY <1>2 DEF Reorder, Waiting, Item
<1>4. Waiting' = Waiting
  BY <1>3 DEF Waiting
<1>5. \A o \in Waiting : item'[o].ord \in 1..enqueueOrder
  BY <1>1, <1>3 DEF OrderIsStrict
<1>6. ASSUME NEW a \in Waiting, NEW b \in Waiting, item'[a].ord = item'[b].ord PROVE a = b
  <2>1. takes[a] = takes[b]
    BY <1>1, <1>3, <1>6 DEF OrderIsStrict
  <2> QED BY <1>1, <2>1
<1> QED BY <1>3, <1>4, <1>5, <1>6 DEF OrderIsStrict

LEMMA OrderAfterTransition ==
    ASSUME TypeOK, OrderIsStrict, NEW o \in Ops, NEW expected, NEW target, NEW fence,
           Transition(o, expected, target, fence)
    PROVE  OrderIsStrict'
<1>1. CASE Enqueue(o)
  BY <1>1, OrderEnqueued
<1>2. ASSUME NEW state, Release(o, state), enqueueOrder' = enqueueOrder PROVE OrderIsStrict'
  BY <1>2, OrderKept DEF Release, NoItem, TypeOK
<1>3. CASE item' = item /\ enqueueOrder' = enqueueOrder
  BY <1>3, OrderKept
<1>4. ASSUME NEW held \in BOOLEAN, NEW blocked \in BOOLEAN,
             item' = [item EXCEPT ![o].held = held, ![o].blocked = blocked],
             enqueueOrder' = enqueueOrder
      PROVE  OrderIsStrict'
  <2>1. item' = [item EXCEPT ![o] = [item[o] EXCEPT !.held = held, !.blocked = blocked]]
    BY <1>4, Zenon DEF TypeOK
  <2>2. item[o] \in Item
    BY DEF TypeOK
  <2>3. \A other \in Ops : /\ item'[other].place = item[other].place
                           /\ item'[other].ord = item[other].ord
    BY <2>1, <2>2 DEF TypeOK, Item
  <2> QED BY <1>4, <2>3, OrderKept
<1>5. ASSUME item' = [item EXCEPT ![o].blocked = TRUE], enqueueOrder' = enqueueOrder
      PROVE  OrderIsStrict'
  <2>1. item[o] \in Item
    BY DEF TypeOK
  <2>2. \A other \in Ops : /\ item'[other].place = item[other].place
                           /\ item'[other].ord = item[other].ord
    BY <1>5, <2>1 DEF TypeOK, Item
  <2> QED BY <1>5, <2>2, OrderKept
<1>6. CASE ApplyActive(o, target, fence)
  BY <1>2, <1>3, <1>6 DEF ApplyActive
<1>7. CASE ApplyIdle(o, target)
  BY <1>1, <1>2, <1>4, <1>5, <1>7 DEF ApplyIdle
<1> QED BY <1>6, <1>7 DEF Transition

LEMMA StepOrder == TypeOK /\ OrderIsStrict /\ [StoreCall]_storeVars => OrderIsStrict'
<1> SUFFICES ASSUME TypeOK, OrderIsStrict, [StoreCall]_storeVars PROVE OrderIsStrict'
  OBVIOUS
<1> DEFINE Stays == \A o \in Ops : item'[o].place = "waiting" =>
                        item[o].place = "waiting" /\ item'[o].ord = item[o].ord
<1>1. \A o \in Ops : item[o] \in Item
  BY DEF TypeOK
<1>2. ASSUME Create PROVE OrderIsStrict'
  <2>1. ASSUME NEW o \in Ops, Submit(o) PROVE OrderIsStrict'
    BY <2>1, OrderEnqueued, OrderKept DEF Submit
  <2>2. ASSUME NEW o \in Ops, StartOperation(o) PROVE OrderIsStrict'
    BY <2>2, OrderEnqueued DEF StartOperation
  <2>3. ASSUME NEW rank \in Batches, AcceptBatch(rank) PROVE OrderIsStrict'
    <3>1. PICK S \in SUBSET Ops : rank \in Injection(S, 1..Cardinality(S))
      BY DEF Batches
    <3>2. rank \in [S -> 1..Cardinality(S)] /\ \A a, b \in S : rank[a] = rank[b] => a = b
      BY <3>1 DEF Injection, IsInjective
    <3> QED BY <2>3, <3>2, OrderAfterBatch
  <2>4. ASSUME NEW o \in Ops, AcceptBatch([x \in {o} |-> 1]) PROVE OrderIsStrict'
    <3>1. Cardinality({o}) = 1
      BY FS_Singleton
    <3>2. {o} \in SUBSET Ops /\ [x \in {o} |-> 1] \in [{o} -> 1..Cardinality({o})]
      BY <3>1
    <3>3. \A a, b \in {o} : [x \in {o} |-> 1][a] = [x \in {o} |-> 1][b] => a = b
      OBVIOUS
    <3> QED BY <2>4, <3>2, <3>3, OrderAfterBatch
  <2> QED BY <1>2, <2>1, <2>2, <2>3, <2>4 DEF Create, RetryJob
<1>3. ASSUME UserCommand PROVE OrderIsStrict'
  <2>1. ASSUME NEW o \in Ops, NEW expected, CancelJob(o, expected) PROVE OrderIsStrict'
    <3>1. enqueueOrder' = enqueueOrder /\ (item' = item \/ item' = [item EXCEPT ![o] = NoItem])
      BY <2>1 DEF CancelJob, Release, queueVars
    <3>2. CASE item' = item
      BY <3>1, <3>2, OrderKept
    <3>3. CASE item' = [item EXCEPT ![o] = NoItem]
      <4>1. item'[o].place = "none" /\ \A other \in Ops \ {o} : item'[other] = item[other]
        BY <3>3 DEF NoItem, TypeOK
      <4> QED BY <3>1, <4>1, OrderKept
    <3> QED BY <3>1, <3>2, <3>3
  <2>2. ASSUME NEW o \in Ops, NEW expected, Revalidated(o, expected) PROVE OrderIsStrict'
    <3>1. Stays /\ enqueueOrder' = enqueueOrder
      BY <1>1, <2>2 DEF Revalidated, TypeOK, Item
    <3> QED BY <3>1, OrderKept
  <2>3. ASSUME NEW o \in Ops, NEW held \in BOOLEAN, HoldChange(o, held) PROVE OrderIsStrict'
    <3>1. Stays /\ enqueueOrder' = enqueueOrder
      BY <1>1, <2>3 DEF HoldChange, TypeOK, Item
    <3> QED BY <3>1, OrderKept
  <2>4. ASSUME NEW expectedQueue, NEW target, SetDispatch(expectedQueue, target)
        PROVE  OrderIsStrict'
    BY <2>4, OrderKept DEF SetDispatch
  <2> QED BY <1>3, <2>1, <2>2, <2>3, <2>4, OrderReordered
          DEF UserCommand, SetHold, SetItemHold
<1>4. ASSUME OwnerCall PROVE OrderIsStrict'
  <2>1. ASSUME NEW o \in Ops, NEW expected, BlockJob(o, expected) PROVE OrderIsStrict'
    <3>1. Stays /\ enqueueOrder' = enqueueOrder
      BY <1>1, <2>1 DEF BlockJob, TypeOK, Item
    <3> QED BY <3>1, OrderKept
  <2>2. ASSUME NEW o \in Ops, NEW expected, BeginAttempt(o, expected) PROVE OrderIsStrict'
    <3>1. Stays /\ enqueueOrder' = enqueueOrder
      BY <2>2 DEF BeginAttempt, ActiveItem, NoItem, TypeOK
    <3> QED BY <3>1, OrderKept
  <2>3. ASSUME NEW o \in Ops, NEW fence, NEW outcome, FinishAttempt(o, fence, outcome)
        PROVE  OrderIsStrict'
    <3>1. Stays /\ enqueueOrder' = enqueueOrder
      BY <2>3 DEF FinishAttempt, Release, NoItem, TypeOK
    <3> QED BY <3>1, OrderKept
  <2>4. CASE UNCHANGED queueVars
    BY <2>4, OrderKept DEF queueVars
  <2> QED BY <1>4, <2>1, <2>2, <2>3, <2>4, OrderAfterTransition
          DEF OwnerCall, RecordLaunch, FlagUnconfirmed
<1>5. ASSUME NEW decisions, Recover(decisions) PROVE OrderIsStrict'
  <2>1. Stays /\ enqueueOrder' = enqueueOrder
    BY <1>1, <1>5 DEF Recover, NoItem, Item
  <2> QED BY <2>1, OrderKept
<1>6. CASE UNCHANGED storeVars
  BY <1>6, OrderKept DEF storeVars, queueVars
<1> QED BY <1>2, <1>3, <1>4, <1>5, <1>6 DEF StoreCall

LEMMA CallsOrderIsStrict == CallSpec => []OrderIsStrict
<1>1. StoreInit => OrderIsStrict
  BY DEF StoreInit, OrderIsStrict, Waiting, NoItem
<1> QED BY <1>1, StepOrder, CallInvariant, PTL DEF CallSpec, StoreInv

\* No two waiting items ever share a position, so that no enqueue, batch or
\* reorder fails on UNIQUE(ord), however many there are (store.py _enqueue;
\* job_repository.py accept_batch, reorder).
THEOREM StoreOrderIsStrict == StoreSpec => []OrderIsStrict
BY CallsOrderIsStrict, SpecIsCalls, PTL

-------------------------------------------------------------------------------
(* The flags of a waiting item and its status *)

Shown(o) == IF item[o].blocked THEN "blocked"
            ELSE IF item[o].held /\ Kind[o] = "job" THEN "held" ELSE "queued"

MirrorRow(o) == item[o].place = "waiting" => status[o] = Shown(o)

LEMMA MirrorRows == StatusMirrorsFlags <=> \A o \in Ops : MirrorRow(o)
BY DEF StatusMirrorsFlags, MirrorRow, Shown, Waiting

\* A transaction that writes one operation and its item.
LEMMA OneMirrored ==
    ASSUME TypeOK, StatusMirrorsFlags, NEW o \in Ops, NEW new, NEW newFlag, Record(o, new, newFlag),
           \A other \in Ops \ {o} : item'[other] = item[other],
           item'[o].place = "waiting" =>
               new = IF item'[o].blocked THEN "blocked"
                     ELSE IF item'[o].held /\ Kind[o] = "job" THEN "held" ELSE "queued"
    PROVE  StatusMirrorsFlags'
<1>1. status'[o] = new /\ \A other \in Ops \ {o} : status'[other] = status[other]
  BY RecordOthers
<1>2. MirrorRow(o)'
  BY <1>1 DEF MirrorRow, Shown
<1>3. ASSUME NEW other \in Ops \ {o} PROVE MirrorRow(other)'
  <2>1. MirrorRow(other)
    BY MirrorRows
  <2> QED BY <1>1, <2>1 DEF MirrorRow, Shown
<1> QED BY <1>2, <1>3, MirrorRows DEF StatusMirrorsFlags, MirrorRow, Shown, Waiting

\* The item goes, or the operation had no waiting item and gets none.
LEMMA MirrorDropped ==
    ASSUME TypeOK, StatusMirrorsFlags, NEW o \in Ops, NEW new, NEW newFlag, Record(o, new, newFlag),
           item' = [item EXCEPT ![o] = NoItem] \/ (item' = item /\ item[o].place # "waiting")
    PROVE  StatusMirrorsFlags'
<1>1. item'[o].place # "waiting" /\ \A other \in Ops \ {o} : item'[other] = item[other]
  BY DEF NoItem, TypeOK
<1> QED BY <1>1, OneMirrored

LEMMA MirrorEnqueued ==
    ASSUME TypeOK, StatusMirrorsFlags, NEW o \in Ops, NEW newFlag, Record(o, "queued", newFlag),
           Enqueue(o)
    PROVE  StatusMirrorsFlags'
<1>1. ~item'[o].held /\ ~item'[o].blocked /\ \A other \in Ops \ {o} : item'[other] = item[other]
  BY DEF Enqueue, WaitingItem, NoItem, TypeOK
<1> QED BY <1>1, OneMirrored

\* The flags are overwritten and the status that they stand for is recorded.
LEMMA MirrorFlags ==
    ASSUME TypeOK, StatusMirrorsFlags, NEW o \in Ops, NEW held \in BOOLEAN, NEW blocked \in BOOLEAN,
           \/ item' = [item EXCEPT ![o].held = held, ![o].blocked = blocked]
           \/ item' = [item EXCEPT ![o].held = held] /\ item[o].blocked = blocked
           \/ item' = [item EXCEPT ![o].blocked = blocked] /\ item[o].held = held,
           NEW newFlag,
           Record(o, IF blocked THEN "blocked"
                     ELSE IF held /\ Kind[o] = "job" THEN "held" ELSE "queued", newFlag)
    PROVE  StatusMirrorsFlags'
<1>1. item[o] \in Item
  BY DEF TypeOK
<1>2. ASSUME item' = [item EXCEPT ![o].held = held, ![o].blocked = blocked]
      PROVE  item' = [item EXCEPT ![o] = [item[o] EXCEPT !.held = held, !.blocked = blocked]]
  BY <1>2, Zenon DEF TypeOK
<1>3. item'[o].held = held /\ item'[o].blocked = blocked
      /\ \A other \in Ops \ {o} : item'[other] = item[other]
  BY <1>1, <1>2 DEF TypeOK, Item
<1> QED BY <1>3, OneMirrored

LEMMA MirrorNothingRecorded ==
    ASSUME StatusMirrorsFlags, UNCHANGED status,
           \A o \in Ops : /\ item'[o].place = item[o].place /\ item'[o].held = item[o].held
                          /\ item'[o].blocked = item[o].blocked
    PROVE  StatusMirrorsFlags'
BY DEF StatusMirrorsFlags, Waiting

LEMMA MirrorAfterBatch ==
    ASSUME TypeOK, StatusMirrorsFlags, NEW rank, AcceptBatch(rank)
    PROVE  StatusMirrorsFlags'
<1>1. ASSUME NEW o \in Ops, o \in DOMAIN rank PROVE MirrorRow(o)'
  BY <1>1 DEF AcceptBatch, MirrorRow, Shown, WaitingItem, NoItem
<1>2. ASSUME NEW o \in Ops, o \notin DOMAIN rank PROVE MirrorRow(o)'
  <2>1. MirrorRow(o) /\ status'[o] = status[o] /\ item'[o] = item[o]
    BY <1>2, MirrorRows DEF AcceptBatch
  <2> QED BY <2>1 DEF MirrorRow, Shown
<1> QED BY <1>1, <1>2 DEF StatusMirrorsFlags, MirrorRow, Shown, Waiting

LEMMA MirrorAfterTransition ==
    ASSUME TypeOK, QueueShowsStatus, StatusMirrorsFlags,
           NEW o \in Ops, NEW expected, NEW target, NEW fence, Transition(o, expected, target, fence)
    PROVE  StatusMirrorsFlags'
<1>1. Record(o, target, "none") /\ Check(Kind[o], status[o], target)
  BY DEF Transition
<1>2. CASE ApplyActive(o, target, fence) /\ status[o] \in ACTIVE
  <2>1. item[o].place # "waiting"
    BY <1>2 DEF QueueShowsStatus, ACTIVE, WAITING
  <2> QED BY <1>1, <1>2, <2>1, MirrorDropped DEF ApplyActive, Release
<1>3. CASE ApplyIdle(o, target)
  <2>1. CASE Release(o, "released")
    BY <1>1, <2>1, MirrorDropped DEF Release
  <2>2. CASE target = "held" /\ item' = [item EXCEPT ![o].held = TRUE, ![o].blocked = FALSE]
    <3>1. Kind[o] = "job"
      BY <1>1, <2>2, TableFacts, SlotType
    <3>2. Record(o, IF FALSE THEN "blocked"
                    ELSE IF TRUE /\ Kind[o] = "job" THEN "held" ELSE "queued", "none")
      BY <1>1, <2>2, <3>1
    <3> QED BY <2>2, <3>2, MirrorFlags
  <2>3. CASE target = "blocked" /\ item' = [item EXCEPT ![o].blocked = TRUE]
    <3>1. item[o].held \in BOOLEAN
      BY DEF TypeOK, Item
    <3>2. Record(o, IF TRUE THEN "blocked"
                    ELSE IF item[o].held /\ Kind[o] = "job" THEN "held" ELSE "queued", "none")
      BY <1>1, <2>3
    <3> QED BY <2>3, <3>1, <3>2, MirrorFlags
  <2>4. CASE target = "queued" /\ Enqueue(o)
    BY <1>1, <2>4, MirrorEnqueued
  <2>5. CASE target = "queued" /\ item' = [item EXCEPT ![o].held = FALSE, ![o].blocked = FALSE]
    <3>1. Record(o, IF FALSE THEN "blocked"
                    ELSE IF FALSE /\ Kind[o] = "job" THEN "held" ELSE "queued", "none")
      BY <1>1, <2>5
    <3> QED BY <2>5, <3>1, MirrorFlags
  <2> QED BY <1>3, <2>1, <2>2, <2>3, <2>4, <2>5 DEF ApplyIdle
<1> QED BY <1>2, <1>3 DEF Transition

LEMMA MirrorRecovered ==
    ASSUME TypeOK, QueueShowsStatus, StatusMirrorsFlags, NEW decisions, Recover(decisions)
    PROVE  StatusMirrorsFlags'
<1> SUFFICES ASSUME NEW o \in Ops PROVE MirrorRow(o)'
  BY DEF StatusMirrorsFlags, MirrorRow, Shown, Waiting
<1>1. MirrorRow(o) /\ item[o] \in Item
  BY MirrorRows DEF TypeOK
<1>2. CASE o \in Interrupted(decisions)
  BY <1>2 DEF Recover, MirrorRow, NoItem
<1>3. CASE o \in RecoveryHeld /\ o \notin Interrupted(decisions)
  <2>1. item'[o] = [item[o] EXCEPT !.held = TRUE] /\ ~item[o].held /\ item[o].place = "waiting"
    BY <1>3 DEF Recover, RecoveryHeld, Waiting
  <2>2. item'[o].held /\ item'[o].blocked = item[o].blocked
    BY <1>1, <2>1 DEF Item
  <2>3. status'[o] = IF Kind[o] = "job" /\ status[o] = "queued" THEN "held" ELSE status[o]
    BY <1>3 DEF Recover
  <2>4. status[o] = IF item[o].blocked THEN "blocked" ELSE "queued"
    BY <1>1, <2>1 DEF MirrorRow, Shown
  <2> QED BY <2>2, <2>3, <2>4 DEF MirrorRow, Shown
<1>4. CASE o \notin RecoveryHeld \cup Interrupted(decisions)
  <2>1. status'[o] = status[o] /\ item'[o] = item[o]
    BY <1>4 DEF Recover
  <2> QED BY <1>1, <2>1 DEF MirrorRow, Shown
<1> QED BY <1>2, <1>3, <1>4

LEMMA StepMirrors ==
    TypeOK /\ QueueShowsStatus /\ StatusMirrorsFlags /\ [StoreCall]_storeVars => StatusMirrorsFlags'
<1> SUFFICES ASSUME TypeOK, QueueShowsStatus, StatusMirrorsFlags, [StoreCall]_storeVars
             PROVE  StatusMirrorsFlags'
  OBVIOUS
<1>1. ASSUME Create PROVE StatusMirrorsFlags'
  <2>1. ASSUME NEW o \in Ops, Submit(o) PROVE StatusMirrorsFlags'
    <3>1. CASE Queued(o)
      BY <2>1, <3>1, MirrorEnqueued DEF Submit
    <3>2. CASE ~Queued(o)
      <4>1. item[o].place # "waiting"
        BY <3>2 DEF QueueShowsStatus
      <4> QED BY <2>1, <3>2, <4>1, MirrorDropped DEF Submit
    <3> QED BY <3>1, <3>2
  <2>2. ASSUME NEW o \in Ops, StartOperation(o) PROVE StatusMirrorsFlags'
    BY <2>2, MirrorEnqueued DEF StartOperation
  <2> QED BY <1>1, <2>1, <2>2, MirrorAfterBatch DEF Create, RetryJob
<1>2. ASSUME UserCommand PROVE StatusMirrorsFlags'
  <2>1. ASSUME NEW o \in Ops, NEW expected, CancelJob(o, expected) PROVE StatusMirrorsFlags'
    <3>1. CASE Release(o, "released") /\ Record(o, "cancelled", "none")
      BY <3>1, MirrorDropped DEF Release
    <3>2. CASE status[o] = "running" /\ Record(o, "cancelling", "none") /\ item' = item
      BY <3>2, MirrorDropped DEF QueueShowsStatus, WAITING
    <3> QED BY <2>1, <3>1, <3>2 DEF CancelJob, queueVars
  <2>2. ASSUME NEW o \in Ops, NEW expected, Revalidated(o, expected) PROVE StatusMirrorsFlags'
    <3>1. item[o].held \in BOOLEAN
      BY DEF TypeOK, Item
    <3>2. Record(o, IF FALSE THEN "blocked"
                    ELSE IF item[o].held /\ Kind[o] = "job" THEN "held" ELSE "queued", "none")
      BY <2>2 DEF Revalidated
    <3> QED BY <2>2, <3>1, <3>2, MirrorFlags DEF Revalidated
  <2>3. ASSUME NEW o \in Ops, NEW held \in BOOLEAN, HoldChange(o, held) PROVE StatusMirrorsFlags'
    <3>1. item[o].blocked \in BOOLEAN
      BY DEF TypeOK, Item
    <3>2. status[o] = Shown(o)
      BY <2>3, MirrorRows DEF HoldChange, MirrorRow
    <3>3. Record(o, IF item[o].blocked THEN "blocked"
                    ELSE IF held /\ Kind[o] = "job" THEN "held" ELSE "queued", "none")
      BY <2>3, <3>2 DEF HoldChange, Shown
    <3> QED BY <2>3, <3>1, <3>3, MirrorFlags DEF HoldChange
  <2>4. ASSUME NEW expectedQueue, NEW target, SetDispatch(expectedQueue, target)
        PROVE  StatusMirrorsFlags'
    BY <2>4, MirrorNothingRecorded DEF SetDispatch, opVars
  <2>5. ASSUME NEW expectedQueue, NEW takes, Reorder(expectedQueue, takes)
        PROVE  StatusMirrorsFlags'
    <3>1. \A o \in Ops : item[o] \in Item
      BY DEF TypeOK
    <3>2. \A o \in Ops : /\ item'[o].place = item[o].place /\ item'[o].held = item[o].held
                         /\ item'[o].blocked = item[o].blocked
      BY <2>5, <3>1 DEF Reorder, Item
    <3> QED BY <2>5, <3>2, MirrorNothingRecorded DEF Reorder, opVars
  <2> QED BY <1>2, <2>1, <2>2, <2>3, <2>4, <2>5 DEF UserCommand, SetHold, SetItemHold
<1>3. ASSUME OwnerCall PROVE StatusMirrorsFlags'
  <2>1. ASSUME NEW o \in Ops, NEW expected, BlockJob(o, expected) PROVE StatusMirrorsFlags'
    <3>1. item[o].held \in BOOLEAN
      BY DEF TypeOK, Item
    <3>2. Record(o, IF TRUE THEN "blocked"
                    ELSE IF item[o].held /\ Kind[o] = "job" THEN "held" ELSE "queued", "none")
      BY <2>1 DEF BlockJob
    <3> QED BY <2>1, <3>1, <3>2, MirrorFlags DEF BlockJob
  <2>2. ASSUME NEW o \in Ops, NEW expected, BeginAttempt(o, expected) PROVE StatusMirrorsFlags'
    <3>1. /\ item'[o].place # "waiting"
          /\ \A other \in Ops \ {o} : item'[other] = item[other]
      BY <2>2 DEF BeginAttempt, ActiveItem, NoItem, QueueShowsStatus, TypeOK
    <3> QED BY <2>2, <3>1, OneMirrored DEF BeginAttempt
  <2>3. ASSUME NEW o \in Ops, NEW newFlag, Record(o, status[o], newFlag), item' = item
        PROVE  StatusMirrorsFlags'
    <3>1. MirrorRow(o)
      BY MirrorRows
    <3> QED BY <2>3, <3>1, OneMirrored DEF MirrorRow, Shown
  <2>4. ASSUME NEW o \in Ops, NEW fence, NEW outcome, FinishAttempt(o, fence, outcome)
        PROVE  StatusMirrorsFlags'
    BY <2>4, MirrorDropped DEF FinishAttempt, Release
  <2> QED BY <1>3, <2>1, <2>2, <2>3, <2>4, MirrorAfterTransition
          DEF OwnerCall, RecordLaunch, FlagUnconfirmed, queueVars
<1>4. CASE UNCHANGED storeVars
  BY <1>4, MirrorNothingRecorded DEF storeVars, opVars, queueVars
<1> QED BY <1>1, <1>2, <1>3, <1>4, MirrorRecovered DEF StoreCall

LEMMA CallsStatusMirrorsFlags == CallSpec => []StatusMirrorsFlags
<1>1. StoreInit => StatusMirrorsFlags
  BY DEF StoreInit, StatusMirrorsFlags, Waiting, NoItem
<1> QED BY <1>1, StepMirrors, CallInvariant, PTL DEF CallSpec, StoreInv

\* The status shown to the user is what the two flags of the item say, whatever
\* sequence of hold, block, revalidation, reorder, resume and recovery led there.
THEOREM StoreStatusMirrorsFlags == StoreSpec => []StatusMirrorsFlags
BY CallsStatusMirrorsFlags, SpecIsCalls, PTL

LEMMA CallsFlagsMatchStatus == CallSpec => []FlagsMatchStatus
<1>1. StatusMirrorsFlags /\ FlaggedIsActive /\ ResultOnlyIfSucceeded <=> FlagsMatchStatus
  BY DEF FlagsMatchStatus
<1> QED
  BY <1>1, CallsStatusMirrorsFlags, CallsFlaggedIsActive, CallsResultOnlyIfSucceeded, PTL

\* All flags and the result shown beside a status agree with it, for any number of
\* operations.
THEOREM StoreFlagsMatchStatus == StoreSpec => []FlagsMatchStatus
BY CallsFlagsMatchStatus, SpecIsCalls, PTL

-------------------------------------------------------------------------------
(* Each transaction asks for slots, leaves the queue, grants one slot, yields   *)
(* slots, or is a stutter of FencedSlots.                                       *)


Slots_next == Promised!Next \/ UNCHANGED Promised!slotVars

\* The attempts of each operation are those there were.
SameGrants ==
    /\ Len(attempts') = Len(attempts)
    /\ \A f \in Fences : attempts'[f].op = attempts[f].op

-------------------------------------------------------------------------------
(* Phases *)

LEMMA PhaseFacts ==
    ASSUME NEW kind \in Kinds, NEW s
    PROVE  /\ PhaseOf(kind, s) = "new" <=> s = "absent"
           /\ PhaseOf(kind, s) = "waiting" <=> s \in WAITING
           /\ PhaseOf(kind, s) = "granted" <=> s \in ACTIVE
           /\ s \notin WAITING \cup ACTIVE \cup {"absent"} => PhaseOf(kind, s) \in {"idle", "over"}
           /\ s \in TERMINAL => PhaseOf(kind, s) = "over"
           /\ \A t : Check(kind, s, t) => PhaseOf(kind, s) # "over"
<1>1. s \in TERMINAL => IsFinal(kind, s)
  BY TableSources DEF IsFinal
<1>2. ASSUME NEW t, Check(kind, s, t) PROVE ~IsFinal(kind, s)
  BY <1>2, TableFacts DEF IsFinal
<1> QED BY <1>1, <1>2 DEF PhaseOf, WAITING, ACTIVE, TERMINAL

LEMMA GrantsKept == ASSUME TypeOK, SameGrants
                    PROVE  /\ Fences' = Fences
                           /\ [f \in Fences |-> attempts[f].op]' = [f \in Fences |-> attempts[f].op]
BY DEF SameGrants, Fences

LEMMA AttemptsSame == ASSUME TypeOK, attempts' = attempts PROVE SameGrants
BY DEF SameGrants

-------------------------------------------------------------------------------
(* Steps of the abstract specification *)

LEMMA StutterStep ==
    ASSUME TypeOK, SameGrants, lease' = lease,
           \A o \in Ops : PhaseOf(Kind[o], status'[o]) = PhaseOf(Kind[o], status[o])
    PROVE  Slots_next
BY GrantsKept DEF Slots_next, Promised!slotVars

LEMMA AskStep ==
    ASSUME TypeOK, SameGrants, lease' = lease, NEW S \in SUBSET Ops, S # {},
           \A o \in S : /\ PhaseOf(Kind[o], status[o]) \in {"new", "idle"}
                        /\ status'[o] \in WAITING,
           \A o \in Ops \ S : status'[o] = status[o]
    PROVE  Slots_next
<1>1. \A o \in S : PhaseOf(Kind[o], status'[o]) = "waiting"
  BY PhaseFacts, SlotType
<1>2. [o \in Ops |-> PhaseOf(Kind[o], status[o])]'
        = [o \in Ops |-> IF o \in S THEN [x \in S |-> "waiting"][o]
                         ELSE [x \in Ops |-> PhaseOf(Kind[x], status[x])][o]]
  BY <1>1
<1>3. Promised!Ask(S)
  BY <1>2, GrantsKept DEF Promised!Ask, Promised!Move
<1> QED BY <1>3 DEF Slots_next, Promised!Next

LEMMA LeaveStep ==
    ASSUME TypeOK, SameGrants, lease' = lease, NEW o \in Ops,
           PhaseOf(Kind[o], status[o]) \in {"waiting", "idle"},
           PhaseOf(Kind[o], status'[o]) = "over",
           \A other \in Ops \ {o} : status'[other] = status[other]
    PROVE  Slots_next
<1>1. [x \in Ops |-> PhaseOf(Kind[x], status[x])]'
        = [x \in Ops |-> IF x \in {o} THEN [y \in {o} |-> "over"][x]
                         ELSE [y \in Ops |-> PhaseOf(Kind[y], status[y])][x]]
  OBVIOUS
<1>2. Promised!Leave(o)
  BY <1>1, GrantsKept DEF Promised!Leave, Promised!Move
<1> QED BY <1>2 DEF Slots_next, Promised!Next

\* Of the operations in S, each holds the slot it needs.
LEMMA YieldStep ==
    ASSUME TypeOK, SameGrants, NEW S \in SUBSET Ops, S # {},
           \A o \in S : status[o] \in ACTIVE /\ status'[o] \notin WAITING \cup ACTIVE \cup {"absent"},
           \A o \in Ops \ S : PhaseOf(Kind[o], status'[o]) = PhaseOf(Kind[o], status[o]),
           lease' = [s \in Slots |-> IF lease[s] # 0 /\ attempts[lease[s]].op \in S
                                     THEN 0 ELSE lease[s]]
    PROVE  Slots_next
<1> DEFINE target == [o \in S |-> PhaseOf(Kind[o], status'[o])]
<1>1. target \in [S -> {"idle", "over"}]
  BY PhaseFacts, SlotType
<1>2. [o \in Ops |-> PhaseOf(Kind[o], status[o])]'
        = [o \in Ops |-> IF o \in S THEN target[o]
                         ELSE [x \in Ops |-> PhaseOf(Kind[x], status[x])][o]]
  OBVIOUS
<1>3. \A o \in S : [x \in Ops |-> PhaseOf(Kind[x], status[x])][o] = "granted"
  BY PhaseFacts, SlotType
<1>4. \A s \in Slots : lease[s] # 0 =>
         [f \in Fences |-> attempts[f].op][lease[s]] = attempts[lease[s]].op
  BY LenProperties DEF TypeOK, Fences
<1>5. lease' = [s \in Slots |->
         IF lease[s] # 0 /\ [f \in Fences |-> attempts[f].op][lease[s]] \in S THEN 0 ELSE lease[s]]
  BY <1>4
<1>6. Promised!Yield(S)
  BY <1>1, <1>2, <1>3, <1>5, GrantsKept DEF Promised!Yield, Promised!Move
<1> QED BY <1>6 DEF Slots_next, Promised!Next

-------------------------------------------------------------------------------
(* Transactions *)

\* A new status of the same phase, nothing granted or given back.
LEMMA SamePhase ==
    ASSUME TypeOK, NEW o \in Ops, NEW new, NEW newFlag, Record(o, new, newFlag),
           PhaseOf(Kind[o], new) = PhaseOf(Kind[o], status[o]), SameGrants, lease' = lease
    PROVE  Slots_next
BY RecordOthers, StutterStep

\* An operation that ends, or is interrupted, with what it holds.
LEMMA EndStep ==
    ASSUME TypeOK, LeaseCoherence, NEW o \in Ops, NEW new, NEW newFlag, Record(o, new, newFlag),
           NEW state \in {"released", "interrupted"}, Release(o, state),
           new \notin WAITING \cup ACTIVE \cup {"absent"},
           \/ status[o] \in ACTIVE
           \/ new \in TERMINAL /\ PhaseOf(Kind[o], status[o]) \in {"waiting", "idle"}
    PROVE  Slots_next
<1>1. status'[o] = new /\ \A other \in Ops \ {o} : status'[other] = status[other]
  BY RecordOthers
<1>2. CASE status[o] \in ACTIVE
  <2>1. /\ HeldFence(o) # 0 /\ HeldFence(o) \in Fences
        /\ lease[Slot(o)] = HeldFence(o) /\ attempts[HeldFence(o)].op = o
    BY <1>2, HeldFenceType DEF LeaseCoherence, ActiveHoldsLease
  <2>2. attempts' = [attempts EXCEPT ![HeldFence(o)].state = state]
    BY <2>1 DEF Release
  <2>3. /\ Len(attempts') = Len(attempts)
        /\ attempts'[HeldFence(o)] = [attempts[HeldFence(o)] EXCEPT !.state = state]
        /\ \A g \in Fences \ {HeldFence(o)} : attempts'[g] = attempts[g]
    BY <2>1, <2>2, AttemptStateType
  <2>4. SameGrants
    BY <2>1, <2>3, AttemptType DEF SameGrants, Attempt
  <2>5. \A s \in Slots : lease[s] # 0 =>
           (attempts[lease[s]].op = o <=> s = Slot(o))
    BY <2>1, LenProperties DEF LeaseCoherence, LeaseHolderIsActive, TypeOK, Fences
  <2>6. lease' = [s \in Slots |-> IF lease[s] # 0 /\ attempts[lease[s]].op \in {o}
                                  THEN 0 ELSE lease[s]]
    BY <2>1, <2>5, SlotType DEF Release, TypeOK
  <2> DEFINE S == {o}
  <2>7. S \in SUBSET Ops /\ S # {}
    OBVIOUS
  <2>8. /\ \A x \in S : status[x] \in ACTIVE /\ status'[x] \notin WAITING \cup ACTIVE \cup {"absent"}
        /\ \A x \in Ops \ S : PhaseOf(Kind[x], status'[x]) = PhaseOf(Kind[x], status[x])
    BY <1>1, <1>2
  <2> HIDE DEF S
  <2> QED BY <2>4, <2>6, <2>7, <2>8, YieldStep DEF S
<1>3. CASE status[o] \notin ACTIVE
  <2>1. lease' = lease /\ attempts' = attempts
    BY <1>3, IdleHoldsNothing DEF Release, LeaseCoherence
  <2>2. new \in TERMINAL /\ PhaseOf(Kind[o], status[o]) \in {"waiting", "idle"}
    BY <1>3
  <2>3. PhaseOf(Kind[o], new) = "over"
    BY <2>2, PhaseFacts, SlotType
  <2> QED BY <1>1, <2>1, <2>2, <2>3, AttemptsSame, LeaveStep
<1> QED BY <1>2, <1>3

LEMMA CreateSlots == TypeOK /\ Create => Slots_next
<1> SUFFICES ASSUME TypeOK, Create PROVE Slots_next
  OBVIOUS
<1>1. ASSUME NEW o \in Ops, Submit(o) \/ StartOperation(o) PROVE Slots_next
  <2>1. status[o] = "absent" /\ Record(o, "queued", "none") /\ lease' = lease /\ attempts' = attempts
    BY <1>1 DEF Submit, StartOperation
  <2>2. PhaseOf(Kind[o], status[o]) = "new"
    BY <2>1, PhaseFacts, SlotType
  <2> DEFINE S == {o}
  <2>3. S \in SUBSET Ops /\ S # {}
    OBVIOUS
  <2>4. /\ \A x \in S : PhaseOf(Kind[x], status[x]) \in {"new", "idle"} /\ status'[x] \in WAITING
        /\ \A x \in Ops \ S : status'[x] = status[x]
    BY <2>1, <2>2, RecordOthers DEF WAITING
  <2> HIDE DEF S
  <2> QED BY <2>1, <2>3, <2>4, AttemptsSame, AskStep
<1>2. ASSUME NEW rank, AcceptBatch(rank), DOMAIN rank \subseteq Ops PROVE Slots_next
  <2>1. \A o \in DOMAIN rank : status[o] = "absent" /\ status'[o] \in WAITING
    BY <1>2 DEF AcceptBatch, WAITING
  <2>2. \A o \in DOMAIN rank : PhaseOf(Kind[o], status[o]) = "new"
    BY <1>2, <2>1, PhaseFacts, SlotType
  <2>3. \A o \in Ops \ DOMAIN rank : status'[o] = status[o]
    BY <1>2 DEF AcceptBatch
  <2>4. DOMAIN rank # {} /\ lease' = lease /\ attempts' = attempts
    BY <1>2 DEF AcceptBatch
  <2> QED BY <1>2, <2>1, <2>2, <2>3, <2>4, AttemptsSame, AskStep
<1>3. \A rank \in Batches : DOMAIN rank \subseteq Ops
  BY DEF Batches, Injection, IsInjective
<1> QED BY <1>1, <1>2, <1>3 DEF Create, RetryJob

LEMMA UserCommandSlots == StoreInv /\ UserCommand => Slots_next
<1> SUFFICES ASSUME StoreInv, UserCommand PROVE Slots_next
  OBVIOUS
<1> USE DEF StoreInv
<1>1. ASSUME NEW o \in Ops, NEW expected, CancelJob(o, expected) PROVE Slots_next
  <2>1. CASE status[o] \in WAITING /\ Release(o, "released") /\ Record(o, "cancelled", "none")
    <3>1. PhaseOf(Kind[o], status[o]) = "waiting"
      BY <2>1, PhaseFacts, SlotType
    <3> QED BY <2>1, <3>1, EndStep DEF TERMINAL, WAITING, ACTIVE
  <2>2. CASE /\ status[o] = "running" /\ Record(o, "cancelling", "none")
             /\ lease' = lease /\ attempts' = attempts
    <3>1. PhaseOf(Kind[o], "cancelling") = PhaseOf(Kind[o], status[o])
      BY <2>2, PhaseFacts, SlotType DEF ACTIVE
    <3> QED BY <2>2, <3>1, SamePhase, AttemptsSame
  <2> QED BY <1>1, <2>1, <2>2 DEF CancelJob
<1>2. ASSUME NEW o \in Ops, NEW new \in WAITING, Record(o, new, "none"), status[o] \in WAITING,
             lease' = lease, attempts' = attempts
      PROVE  Slots_next
  <2>1. PhaseOf(Kind[o], new) = PhaseOf(Kind[o], status[o])
    BY <1>2, PhaseFacts, SlotType
  <2> QED BY <1>2, <2>1, SamePhase, AttemptsSame
<1>3. ASSUME NEW o \in Ops, NEW expected, Revalidated(o, expected) PROVE Slots_next
  BY <1>2, <1>3 DEF Revalidated, WAITING
<1>4. ASSUME NEW o \in Ops, NEW held \in BOOLEAN, HoldChange(o, held) PROVE Slots_next
  BY <1>2, <1>4 DEF HoldChange, WAITING
<1>5. CASE UNCHANGED <<status, attempts, lease>>
  BY <1>5, StutterStep, AttemptsSame
<1> QED BY <1>1, <1>3, <1>4, <1>5
        DEF UserCommand, SetHold, SetItemHold, SetDispatch, Reorder, opVars

LEMMA TransitionSlots ==
    ASSUME StoreInv, NEW o \in Ops, NEW expected, NEW target, NEW fence,
           Transition(o, expected, target, fence)
    PROVE  Slots_next
<1> USE DEF StoreInv
<1>1. Record(o, target, "none") /\ target # "running" /\ Check(Kind[o], status[o], target)
  BY DEF Transition
<1>2. /\ target \in Statuses
      /\ target = "cancelling" => status[o] = "running"
      /\ status[o] \in ACTIVE => target \notin WAITING
      /\ target \in {"held", "blocked"} => status[o] \in WAITING
      /\ target = "queued" => status[o] \in WAITING \/ status[o] \in {"waiting_user", "interrupted"}
      /\ status[o] # "absent"
  BY <1>1, TableFacts, TableSources, SlotType
<1>3. PhaseOf(Kind[o], status[o]) \notin {"new", "over"}
  BY <1>1, <1>2, PhaseFacts, SlotType
<1>4. CASE status[o] \in ACTIVE
  <2>1. ApplyActive(o, target, fence)
    BY <1>4 DEF Transition
  <2>2. CASE target = "cancelling"
    <3>1. lease' = lease /\ attempts' = attempts
      BY <2>1, <2>2 DEF ApplyActive
    <3>2. PhaseOf(Kind[o], target) = PhaseOf(Kind[o], status[o])
      BY <1>4, <2>2, PhaseFacts, SlotType DEF ACTIVE
    <3> QED BY <1>1, <3>1, <3>2, SamePhase, AttemptsSame
  <2>3. CASE target # "cancelling"
    <3>1. target \notin WAITING \cup ACTIVE \cup {"absent"}
      <4>1. target \in Statuses /\ target \notin {"running", "cancelling"}
        BY <1>1, <1>2, <2>3
      <4>2. target \notin WAITING
        BY <1>2, <1>4
      <4> QED BY <4>1, <4>2 DEF ACTIVE, Statuses
    <3>2. PICK state \in {"released", "interrupted"} : Release(o, state)
      BY <2>1, <2>3 DEF ApplyActive
    <3> QED BY <1>1, <1>4, <3>1, <3>2, EndStep
  <2> QED BY <2>2, <2>3
<1>5. CASE status[o] \notin ACTIVE
  <2>1. ApplyIdle(o, target)
    BY <1>5 DEF Transition
  <2>2. PhaseOf(Kind[o], status[o]) \in {"waiting", "idle"}
    BY <1>2, <1>3, <1>5, PhaseFacts, SlotType
  <2>3. CASE target \in TERMINAL /\ Release(o, "released")
    BY <1>1, <2>2, <2>3, EndStep DEF TERMINAL, WAITING, ACTIVE
  <2>4. CASE target \in WAITING /\ status[o] \in WAITING /\ UNCHANGED <<lease, attempts>>
    <3>1. PhaseOf(Kind[o], target) = PhaseOf(Kind[o], status[o])
      BY <2>4, PhaseFacts, SlotType
    <3> QED BY <1>1, <2>4, <3>1, SamePhase, AttemptsSame
  <2>5. CASE target \in WAITING /\ status[o] \notin WAITING /\ UNCHANGED <<lease, attempts>>
    <3> DEFINE S == {o}
    <3>1. S \in SUBSET Ops /\ S # {}
      OBVIOUS
    <3>2. PhaseOf(Kind[o], status[o]) = "idle"
      BY <2>2, <2>5, PhaseFacts, SlotType
    <3>3. /\ \A x \in S : PhaseOf(Kind[x], status[x]) \in {"new", "idle"} /\ status'[x] \in WAITING
          /\ \A x \in Ops \ S : status'[x] = status[x]
      BY <1>1, <2>5, <3>2, RecordOthers
    <3> HIDE DEF S
    <3> QED BY <2>5, <3>1, <3>3, AttemptsSame, AskStep
  <2>6. target = "queued" => target \in WAITING
    BY DEF WAITING
  <2>7. target \in {"held", "blocked"} => target \in WAITING /\ status[o] \in WAITING
    BY <1>2 DEF WAITING
  <2> QED BY <2>1, <2>3, <2>4, <2>5, <2>6, <2>7 DEF ApplyIdle
<1> QED BY <1>4, <1>5

LEMMA BeginAttemptSlots ==
    ASSUME StoreInv, NEW o \in Ops, NEW expected, BeginAttempt(o, expected)
    PROVE  Slots_next
<1> USE DEF StoreInv
<1>1. /\ Check(Kind[o], status[o], "running") /\ Record(o, "running", "none")
      /\ lease[Slot(o)] = 0 /\ lease' = [lease EXCEPT ![Slot(o)] = Len(attempts) + 1]
  BY DEF BeginAttempt, CanBegin
<1>2. PhaseOf(Kind[o], status[o]) = "waiting" /\ PhaseOf(Kind[o], "running") = "granted"
  <2>1. status[o] = "queued"
    BY <1>1, TableFacts, SlotType
  <2> QED BY <2>1, PhaseFacts, SlotType DEF WAITING, ACTIVE
<1>3. status'[o] = "running" /\ \A other \in Ops \ {o} : status'[other] = status[other]
  BY <1>1, RecordOthers
<1>4. [x \in Ops |-> PhaseOf(Kind[x], status[x])]'
        = [x \in Ops |-> IF x \in {o} THEN [y \in {o} |-> "granted"][x]
                         ELSE [y \in Ops |-> PhaseOf(Kind[y], status[y])][x]]
  BY <1>2, <1>3
<1>5. /\ Len(attempts') = Len(attempts) + 1 /\ attempts'[Len(attempts) + 1].op = o
      /\ \A g \in Fences : attempts'[g] = attempts[g]
  <2>1. /\ Len(attempts') = Len(attempts) + 1 /\ \A g \in Fences : attempts'[g] = attempts[g]
        /\ attempts'[Len(attempts) + 1] = [op |-> o, state |-> "active", launch |-> "intended"]
    BY BeginAttemptType
  <2> QED BY <2>1
<1> DEFINE given == [f \in Fences |-> attempts[f].op]
<1>6. given \in Seq(Ops) /\ Len(given) = Len(attempts)
  <2>1. Len(attempts) \in Nat
    BY LenProperties DEF TypeOK
  <2>2. \A f \in 1..Len(attempts) : attempts[f].op \in Ops
    BY AttemptType DEF Fences
  <2>3. given \in [1..Len(attempts) -> Ops]
    BY <2>2 DEF Fences
  <2>4. given \in Seq(Ops)
    BY <2>1, <2>3, SeqDef
  <2>5. DOMAIN given = 1..Len(attempts) /\ DOMAIN given = 1..Len(given) /\ Len(given) \in Nat
    BY <2>3, <2>4, LenProperties
  <2> QED BY <2>1, <2>4, <2>5
<1>7. given' = Append(given, o)
  <2>1. /\ Append(given, o) \in Seq(Ops) /\ Len(Append(given, o)) = Len(attempts) + 1
        /\ \A f \in 1..Len(attempts) : Append(given, o)[f] = attempts[f].op
        /\ Append(given, o)[Len(attempts) + 1] = o
    BY <1>6, AppendProperties DEF Fences
  <2>2. Append(given, o) = [f \in 1..Len(attempts) + 1 |-> Append(given, o)[f]]
    BY <2>1, LenProperties
  <2>3. Len(attempts) \in Nat
    BY LenProperties DEF TypeOK
  <2>4. \A f \in 1..Len(attempts) + 1 : Append(given, o)[f] = attempts'[f].op
    <3>1. \A f \in 1..Len(attempts) + 1 : f \in 1..Len(attempts) \/ f = Len(attempts) + 1
      BY <2>3
    <3> QED BY <1>5, <2>1, <3>1 DEF Fences
  <2>5. given' = [f \in 1..Len(attempts) + 1 |-> attempts'[f].op]
    BY <1>5 DEF Fences
  <2> QED BY <2>2, <2>4, <2>5
<1>8. Promised!Grant(o)
  BY <1>1, <1>2, <1>4, <1>6, <1>7 DEF Promised!Grant, Promised!Move
<1> QED BY <1>8 DEF Slots_next, Promised!Next

LEMMA OwnerCallSlots == StoreInv /\ OwnerCall => Slots_next
<1> SUFFICES ASSUME StoreInv, OwnerCall PROVE Slots_next
  OBVIOUS
<1> USE DEF StoreInv
<1>1. ASSUME NEW o \in Ops, NEW expected, BlockJob(o, expected) PROVE Slots_next
  <2>1. PhaseOf(Kind[o], "blocked") = PhaseOf(Kind[o], status[o])
    BY <1>1, PhaseFacts, SlotType DEF BlockJob, WAITING
  <2> QED BY <1>1, <2>1, SamePhase, AttemptsSame DEF BlockJob
<1>2. ASSUME NEW o \in Ops, NEW fence \in Fences, NEW outcome \in {"confirmed", "failed"},
             RecordLaunch(o, fence, outcome)
      PROVE  Slots_next
  <2>1. SameGrants
    BY <1>2, RecordLaunchType DEF SameGrants
  <2> QED BY <1>2, <2>1, SamePhase DEF RecordLaunch
<1>3. ASSUME NEW o \in Ops, NEW fence, FlagUnconfirmed(o, fence) PROVE Slots_next
  BY <1>3, SamePhase, AttemptsSame DEF FlagUnconfirmed
<1>4. ASSUME NEW o \in Ops, NEW fence, NEW outcome, FinishAttempt(o, fence, outcome)
      PROVE  Slots_next
  <2>1. FinishTarget(o, outcome) \notin WAITING \cup ACTIVE \cup {"absent"}
    BY DEF FinishTarget, WAITING, ACTIVE
  <2> QED BY <1>4, <2>1, EndStep DEF FinishAttempt
<1> QED BY <1>1, <1>2, <1>3, <1>4, TransitionSlots, BeginAttemptSlots DEF OwnerCall

LEMMA RecoverSlots == ASSUME StoreInv, NEW decisions, Recover(decisions) PROVE Slots_next
<1> USE DEF StoreInv
<1> DEFINE gone == Interrupted(decisions)
<1>1. \A o \in gone : /\ o \in Ops /\ status[o] \in ACTIVE /\ HeldFence(o) \in Fences
                      /\ lease[Slot(o)] = HeldFence(o) /\ attempts[HeldFence(o)].op = o
  BY HeldFenceType DEF Interrupted, LeaseCoherence, ActiveHoldsLease
<1>2. SameGrants
  <2>1. Len(attempts') = Len(attempts)
    BY RecoverType
  <2>2. AttemptsStep
    BY AttemptsRecovered
  <2> QED BY <2>1, <2>2 DEF SameGrants, AttemptsStep
<1>3. \A o \in gone : status'[o] = "interrupted"
  BY <1>1 DEF Recover
<1>4. \A o \in Ops \ gone : PhaseOf(Kind[o], status'[o]) = PhaseOf(Kind[o], status[o])
  <2> SUFFICES ASSUME NEW o \in Ops \ gone
               PROVE  PhaseOf(Kind[o], status'[o]) = PhaseOf(Kind[o], status[o])
    OBVIOUS
  <2>1. status'[o] = status[o] \/ (status[o] = "queued" /\ status'[o] = "held")
    BY DEF Recover
  <2> QED BY <2>1, PhaseFacts, SlotType DEF WAITING
<1>5. \A s \in Slots : lease[s] # 0 =>
         ((\E o \in gone : lease[s] = HeldFence(o)) <=> attempts[lease[s]].op \in gone)
  <2> SUFFICES ASSUME NEW s \in Slots, lease[s] # 0, attempts[lease[s]].op \in gone
               PROVE  lease[s] = HeldFence(attempts[lease[s]].op)
    BY <1>1
  <2> QED BY <1>1 DEF LeaseCoherence, LeaseHolderIsActive
<1>6. \A s \in Slots : (\E o \in gone : lease[s] = HeldFence(o)) => lease[s] # 0
  BY <1>1 DEF Fences
<1>7. lease' = [s \in Slots |-> IF \E o \in gone : lease[s] = HeldFence(o) THEN 0 ELSE lease[s]]
  BY DEF Recover
<1>8. lease' = [s \in Slots |-> IF lease[s] # 0 /\ attempts[lease[s]].op \in gone
                                THEN 0 ELSE lease[s]]
  BY <1>5, <1>6, <1>7
<1> HIDE DEF gone
<1>9. CASE gone = {}
  <2>1. lease' = lease
    BY <1>7, <1>9 DEF TypeOK
  <2> QED BY <1>2, <1>4, <1>9, <2>1, StutterStep
<1>10. CASE gone # {}
  <2>1. gone \in SUBSET Ops
    BY <1>1
  <2>2. \A o \in gone : /\ status[o] \in ACTIVE
                        /\ status'[o] \notin WAITING \cup ACTIVE \cup {"absent"}
    BY <1>1, <1>3 DEF WAITING, ACTIVE
  <2> QED BY <1>2, <1>4, <1>8, <1>10, <2>1, <2>2, YieldStep
<1> QED BY <1>9, <1>10

LEMMA InitSlots == StoreInit => Promised!Init
<1> SUFFICES ASSUME StoreInit PROVE Promised!Init
  OBVIOUS
<1>1. \A o \in Ops : PhaseOf(Kind[o], status[o]) = "new"
  BY PhaseFacts, SlotType DEF StoreInit
<1>2. Fences = {} /\ [f \in Fences |-> attempts[f].op] = <<>>
  BY DEF StoreInit, Fences
<1> QED BY <1>1, <1>2 DEF Promised!Init, StoreInit

LEMMA StepSlots == StoreInv /\ [StoreCall]_storeVars => Slots_next
<1> SUFFICES ASSUME StoreInv, [StoreCall]_storeVars PROVE Slots_next
  OBVIOUS
<1>1. CASE UNCHANGED storeVars
  BY <1>1, StutterStep, AttemptsSame DEF storeVars, opVars, StoreInv
<1>2. CASE StoreCall
  BY <1>2, CreateSlots, UserCommandSlots, OwnerCallSlots, RecoverSlots
     DEF StoreCall, StoreInv
<1> QED BY <1>1, <1>2

LEMMA CallsKeepsPromise == CallSpec => KeepsPromise
<1>1. StoreInv /\ [StoreCall]_storeVars => [Promised!Next]_(Promised!slotVars)
  BY StepSlots DEF Slots_next
<1> QED BY <1>1, InitSlots, CallInvariant, PTL DEF CallSpec, KeepsPromise, Promised!Spec

\* The store gives out its slots as FencedSlots does, for every set of
\* operations and whatever its clients and recovery call: to one operation at a
\* time, under a new token, until it has ended or was interrupted (store.py
\* begin_attempt, _release, recover; every method of job_repository.py).
THEOREM StoreKeepsPromise == StoreSpec => KeepsPromise
BY CallsKeepsPromise, SpecIsCalls, PTL
===============================================================================
