----------------------------- MODULE ControlStore -----------------------------
(***************************************************************************)
(* The SQLite operation store behind the v1 API: ControlStore of           *)
(* src/src/utteran_control/store.py with the job commands that             *)
(* JobControlStore of job_repository.py adds to it.                        *)
(*                                                                         *)
(* Every public method is one BEGIN IMMEDIATE transaction that either      *)
(* commits or leaves the file untouched, so every method is one action; a  *)
(* call that raises, replays a stored response or finds nothing to change  *)
(* is a stuttering step and has no disjunct.  Clients are arbitrary: they  *)
(* may call any method at any time with any revision and any fencing token *)
(* they ever saw.  Modules that extend this one say who calls what.        *)
(*                                                                         *)
(* The outbox, the operation history and the idempotency tables are        *)
(* append-only copies of what the transaction did and are not modelled     *)
(* here; timestamps and lease expiry are advisory and are left out.        *)
(***************************************************************************)
EXTENDS Naturals, Sequences, FiniteSets, Functions, Transitions

CONSTANTS
    Ops,          \* operation ids, those not yet created included
    Kind,         \* the kind of each operation id
    MaxRevision,  \* bound: no client names a revision of an operation above this one
    MaxQueueRevision \* bound: nor a revision of the queue above this one

ASSUME OpsAssumption == IsFiniteSet(Ops)
ASSUME KindAssumption == Kind \in [Ops -> Kinds]
ASSUME BoundAssumption == MaxRevision \in [Ops -> Nat] /\ MaxQueueRevision \in Nat

VARIABLES
    status,        \* operations.status, "absent" before the row is inserted
    revision,      \* operations.revision, 0 before the row is inserted
    flag,          \* operations.recovery_required
    item,          \* the operation's row in queue_items
    enqueueOrder,  \* the counter that hands out ord values
    queueRevision, \* queue.revision
    dispatch,      \* queue.dispatch
    attempts,      \* attempts, indexed by fencing token
    lease,         \* leases: the fencing token that holds each slot, 0 if free
    known,         \* operations with a job_snapshots or setup_operations row
    results        \* operations with a job_results row

opVars    == <<status, revision, flag>>
queueVars == <<item, enqueueOrder, queueRevision, dispatch>>
storeVars == <<opVars, queueVars, attempts, lease, known, results>>

-------------------------------------------------------------------------------
(* Rows *)

RecoveryReasons ==
    {"recovery_pid_reused", "recovery_owner_unverified", "recovery_launch_unconfirmed",
     "recovery_child_alive", "termination_failed"}

Item == [place : {"none", "waiting", "active"}, held : BOOLEAN, blocked : BOOLEAN, ord : Nat]
NoItem == [place |-> "none", held |-> FALSE, blocked |-> FALSE, ord |-> 0]
WaitingItem(ord) == [NoItem EXCEPT !.place = "waiting", !.ord = ord]
ActiveItem == [NoItem EXCEPT !.place = "active"]

Attempt == [op : Ops, state : {"active", "released", "interrupted"},
            launch : {"intended", "confirmed", "failed"}]

Queued(o) == Kind[o] \in QUEUED_KINDS
Slot(o)   == SLOT(Kind[o])

Waiting   == {o \in Ops : item[o].place = "waiting"}
Eligible  == {o \in Waiting : ~item[o].held /\ ~item[o].blocked}

Fences    == 1..Len(attempts)

\* The fencing token with which o holds its slot, 0 if o has no lease.
HeldFence(o) ==
    IF lease[Slot(o)] \in Fences /\ attempts[lease[Slot(o)]].op = o THEN lease[Slot(o)] ELSE 0

\* _fenced: the caller's token is the one the lease carries.
Fenced(o, fence) == fence # 0 /\ HeldFence(o) = fence

-------------------------------------------------------------------------------
(* Pieces of a transaction *)

Record(o, newStatus, newFlag) ==
    /\ status'   = [status   EXCEPT ![o] = newStatus]
    /\ revision' = [revision EXCEPT ![o] = @ + 1]
    /\ flag'     = [flag     EXCEPT ![o] = newFlag]

QueueChanged == queueRevision' = queueRevision + 1

Enqueue(o) ==
    /\ enqueueOrder' = enqueueOrder + 1
    /\ item' = [item EXCEPT ![o] = WaitingItem(enqueueOrder + 1)]

\* Mutant of Release: the attempt row is left open.
ReleaseLeavesAttempt(o, attemptState) ==
    /\ item' = [item EXCEPT ![o] = NoItem]
    /\ lease' = IF HeldFence(o) # 0 THEN [lease EXCEPT ![Slot(o)] = 0] ELSE lease
    /\ UNCHANGED attempts

\* Drop the lease and the queue item of o; its attempt, if any, has ended.
Release(o, attemptState) ==
    /\ item' = [item EXCEPT ![o] = NoItem]
    /\ IF HeldFence(o) # 0
       THEN /\ lease' = [lease EXCEPT ![Slot(o)] = 0]
            /\ attempts' = [attempts EXCEPT ![HeldFence(o)].state = attemptState]
       ELSE UNCHANGED <<lease, attempts>>

-------------------------------------------------------------------------------
(* Creating operations *)

\* ControlStore.submit: the row exists, but nothing the dispatcher could run.
Submit(o) ==
    /\ status[o] = "absent"
    /\ Record(o, "queued", "none")
    /\ IF Queued(o) THEN Enqueue(o) /\ QueueChanged
                    ELSE UNCHANGED <<item, enqueueOrder, queueRevision>>
    /\ UNCHANGED <<dispatch, attempts, lease, known, results>>

\* Mutant of AcceptBatch: the order counter moves by one, not by the batch.
AcceptBatchOneOrder(rank) ==
    LET batch == DOMAIN rank
    IN  /\ batch # {}
        /\ \A o \in batch : status[o] = "absent" /\ Kind[o] = "job"
        /\ status' = [o \in Ops |-> IF o \in batch THEN "queued" ELSE status[o]]
        /\ revision' = [o \in Ops |-> IF o \in batch THEN 1 ELSE revision[o]]
        /\ item' = [o \in Ops |->
                        IF o \in batch THEN WaitingItem(enqueueOrder + rank[o]) ELSE item[o]]
        /\ enqueueOrder' = enqueueOrder + 1
        /\ known' = known \cup batch
        /\ QueueChanged
        /\ UNCHANGED <<flag, dispatch, attempts, lease, results>>

\* JobControlStore.accept_batch: all jobs of a submission, enqueued in its order.
AcceptBatch(rank) ==
    LET batch == DOMAIN rank
    IN  /\ batch # {}
        /\ \A o \in batch : status[o] = "absent" /\ Kind[o] = "job"
        /\ status' = [o \in Ops |-> IF o \in batch THEN "queued" ELSE status[o]]
        /\ revision' = [o \in Ops |-> IF o \in batch THEN 1 ELSE revision[o]]
        /\ item' = [o \in Ops |->
                        IF o \in batch THEN WaitingItem(enqueueOrder + rank[o]) ELSE item[o]]
        /\ enqueueOrder' = enqueueOrder + Cardinality(batch)
        /\ known' = known \cup batch
        /\ QueueChanged
        /\ UNCHANGED <<flag, dispatch, attempts, lease, results>>

RETRYABLE == {"failed", "cancelled", "interrupted"}

\* JobControlStore.retry_job: a new job with the snapshot of a finished one.
RetryJob(source, expected, o) ==
    /\ Kind[source] = "job" /\ source \in known
    /\ revision[source] = expected
    /\ status[source] \in RETRYABLE
    /\ AcceptBatch([x \in {o} |-> 1])

\* The insertion of SetupControlStore.start_operation (its plan and its
\* approval are outside this module).
StartOperation(o) ==
    /\ status[o] = "absent" /\ Kind[o] = "setup_operation"
    /\ Record(o, "queued", "none")
    /\ Enqueue(o) /\ QueueChanged
    /\ known' = known \cup {o}
    /\ UNCHANGED <<dispatch, attempts, lease, results>>

-------------------------------------------------------------------------------
(* User commands *)

\* JobControlStore.cancel_job: a waiting job ends here, a running one is asked to.
CancelJob(o, expected) ==
    /\ Kind[o] = "job" /\ o \in known
    /\ revision[o] = expected
    /\ \/ /\ status[o] \in WAITING
          /\ Release(o, "released")
          /\ Record(o, "cancelled", "none")
          /\ QueueChanged
          /\ UNCHANGED <<enqueueOrder, dispatch, known, results>>
       \/ /\ status[o] = "running"
          /\ HeldFence(o) # 0
          /\ Record(o, "cancelling", "none")
          /\ UNCHANGED <<queueVars, attempts, lease, known, results>>

\* Mutant of HoldChange: the status of a blocked job shows the hold.
HoldChangeShownAlways(o, held) ==
    /\ item[o].place = "waiting" /\ status[o] \in WAITING
    /\ item[o].held # held
    /\ item' = [item EXCEPT ![o].held = held]
    /\ Record(o, IF Kind[o] # "job" THEN status[o] ELSE IF held THEN "held" ELSE "queued", "none")
    /\ QueueChanged
    /\ UNCHANGED <<enqueueOrder, dispatch, attempts, lease, known, results>>

HoldChange(o, held) ==
    /\ item[o].place = "waiting" /\ status[o] \in WAITING
    /\ item[o].held # held
    /\ item' = [item EXCEPT ![o].held = held]
    /\ Record(o, IF Kind[o] = "job" /\ ~item[o].blocked
                 THEN IF held THEN "held" ELSE "queued"
                 ELSE status[o], "none")
    /\ QueueChanged
    /\ UNCHANGED <<enqueueOrder, dispatch, attempts, lease, known, results>>

SetHold(o, expected, held) == revision[o] = expected /\ HoldChange(o, held)

SetItemHold(o, expectedQueue, held) == queueRevision = expectedQueue /\ HoldChange(o, held)

SetDispatch(expectedQueue, target) ==
    /\ queueRevision = expectedQueue
    /\ dispatch # target
    /\ dispatch' = target
    /\ QueueChanged
    /\ UNCHANGED <<opVars, item, enqueueOrder, attempts, lease, known, results>>

\* JobControlStore.reorder: a permutation of all waiting items over the ord
\* values they already have.
Reorder(expectedQueue, takes) ==
    /\ queueRevision = expectedQueue
    /\ \E o \in Waiting : takes[o] # o
    /\ item' = [o \in Ops |-> IF o \in Waiting
                              THEN [item[o] EXCEPT !.ord = item[takes[o]].ord] ELSE item[o]]
    /\ QueueChanged
    /\ UNCHANGED <<opVars, enqueueOrder, dispatch, attempts, lease, known, results>>

\* JobControlStore.revalidated with failure = None.  With a failure the call
\* raises inside the transaction and everything is rolled back.
Revalidated(o, expected) ==
    /\ Kind[o] = "job" /\ o \in known
    /\ revision[o] = expected
    /\ status[o] = "blocked"
    /\ item' = [item EXCEPT ![o].blocked = FALSE]
    /\ Record(o, IF item[o].held THEN "held" ELSE "queued", "none")
    /\ QueueChanged
    /\ UNCHANGED <<enqueueOrder, dispatch, attempts, lease, known, results>>
-------------------------------------------------------------------------------
(* ControlStore.transition: one row of the table, never into running *)

\* Mutant of ApplyActive: a cancellation frees the slot when it is accepted.
ApplyActiveFreesAtOnce(o, target, fence) ==
    /\ HeldFence(o) # 0
    /\ target = "cancelling" \/ Fenced(o, fence)
    /\ Release(o, IF target = "interrupted" THEN "interrupted" ELSE "released")
    /\ UNCHANGED enqueueOrder

\* _apply for an operation that holds its slot.
ApplyActive(o, target, fence) ==
    /\ HeldFence(o) # 0
    /\ IF target = "cancelling"
       THEN UNCHANGED <<item, lease, attempts>>   \* the slot stays occupied
       ELSE /\ Fenced(o, fence)
            /\ Release(o, IF target = "interrupted" THEN "interrupted" ELSE "released")
    /\ UNCHANGED enqueueOrder

\* _apply for an operation that does not.
ApplyIdle(o, target) ==
    \/ /\ target \in TERMINAL
       /\ Release(o, "released")
       /\ UNCHANGED enqueueOrder
    \/ /\ target = "held"
       /\ status[o] = "blocked" => item[o].held
       /\ item' = [item EXCEPT ![o].held = TRUE, ![o].blocked = FALSE]
       /\ UNCHANGED <<enqueueOrder, lease, attempts>>
    \/ /\ target = "blocked"
       /\ item' = [item EXCEPT ![o].blocked = TRUE]
       /\ UNCHANGED <<enqueueOrder, lease, attempts>>
    \/ /\ target = "queued" /\ item[o].place = "none"
       /\ Enqueue(o)                              \* explicit resume: back to the tail
       /\ UNCHANGED <<lease, attempts>>
    \/ /\ target = "queued" /\ item[o].place # "none"
       /\ ~(status[o] = "blocked" /\ item[o].held)
       /\ item' = [item EXCEPT ![o].held = FALSE, ![o].blocked = FALSE]
       /\ UNCHANGED <<enqueueOrder, lease, attempts>>

Transition(o, expected, target, fence) ==
    /\ revision[o] = expected
    /\ target # "running"
    /\ Check(Kind[o], status[o], target)
    /\ IF status[o] \in ACTIVE THEN ApplyActive(o, target, fence) ELSE ApplyIdle(o, target)
    /\ Record(o, target, "none")
    /\ IF Queued(o) /\ ~(status[o] \in ACTIVE /\ target = "cancelling")
       THEN QueueChanged ELSE UNCHANGED queueRevision
    /\ UNCHANGED <<dispatch, known, results>>

-------------------------------------------------------------------------------
(* Dispatch and the fenced reports of the attempt's owner *)

\* _dispatch_guard: only the first eligible item, and only one that can be run.
DispatchGuard(o) ==
    /\ o \in known
    /\ o \in Eligible
    /\ \A other \in Eligible : item[o].ord <= item[other].ord

CanBegin(o, expected) ==
    /\ revision[o] = expected
    /\ Check(Kind[o], status[o], "running")
    /\ Queued(o) => dispatch = "running" /\ DispatchGuard(o)
    /\ lease[Slot(o)] = 0

\* Mutant of BeginAttempt: the fencing counter is drawn once for the attempt and
\* once for the lease.
BeginAttemptTwoFences(o, expected) ==
    /\ CanBegin(o, expected)
    /\ attempts' = Append(attempts, [op |-> o, state |-> "active", launch |-> "intended"])
    /\ lease' = [lease EXCEPT ![Slot(o)] = Len(attempts) + 2]
    /\ Record(o, "running", "none")
    /\ IF Queued(o) THEN item' = [item EXCEPT ![o] = ActiveItem] /\ QueueChanged
                    ELSE UNCHANGED <<item, queueRevision>>
    /\ UNCHANGED <<enqueueOrder, dispatch, known, results>>

BeginAttempt(o, expected) ==
    /\ CanBegin(o, expected)
    /\ attempts' = Append(attempts, [op |-> o, state |-> "active", launch |-> "intended"])
    /\ lease' = [lease EXCEPT ![Slot(o)] = Len(attempts) + 1]
    /\ Record(o, "running", "none")
    /\ IF Queued(o) THEN item' = [item EXCEPT ![o] = ActiveItem] /\ QueueChanged
                    ELSE UNCHANGED <<item, queueRevision>>
    /\ UNCHANGED <<enqueueOrder, dispatch, known, results>>

\* Mutant of RecordLaunch: unfenced, the journal alone is looked at.
RecordLaunchUnfenced(o, fence, outcome) ==
    /\ attempts[fence].op = o /\ attempts[fence].launch = "intended"
    /\ attempts' = [attempts EXCEPT ![fence].launch = outcome]
    /\ Record(o, status[o], flag[o])
    /\ UNCHANGED <<queueVars, lease, known, results>>

\* record_launch keeps the status and the recovery flag.
RecordLaunch(o, fence, outcome) ==
    /\ Fenced(o, fence)
    /\ attempts[fence].launch = "intended"
    /\ attempts' = [attempts EXCEPT ![fence].launch = outcome]
    /\ Record(o, status[o], flag[o])
    /\ UNCHANGED <<queueVars, lease, known, results>>

\* Where finish_attempt ends: a cancel recorded before it wins over a
\* completion, and a worker that stopped uncancelled has failed.
FinishTarget(o, outcome) ==
    IF status[o] = "cancelling"
    THEN IF outcome = "failed" THEN "failed" ELSE "cancelled"
    ELSE IF outcome = "succeeded" THEN "succeeded" ELSE "failed"

FinishAttempt(o, fence, outcome) ==
    /\ Kind[o] = "job" /\ o \in known
    /\ Fenced(o, fence)
    /\ status[o] \in ACTIVE
    /\ Check("job", status[o], FinishTarget(o, outcome))
    /\ Release(o, "released")
    /\ results' = IF FinishTarget(o, outcome) = "succeeded" THEN results \cup {o} ELSE results
    /\ Record(o, FinishTarget(o, outcome), "none")
    /\ QueueChanged
    /\ UNCHANGED <<enqueueOrder, dispatch, known>>

FlagUnconfirmed(o, fence) ==
    /\ Fenced(o, fence)
    /\ flag[o] # "termination_failed"
    /\ Record(o, status[o], "termination_failed")
    /\ UNCHANGED <<queueVars, attempts, lease, known, results>>

\* Mutant of BlockJob: blocks whatever the job has become since it was read.
BlockJobAnyRevision(o, expected) ==
    /\ Kind[o] = "job" /\ o \in known
    /\ status[o] \in {"queued", "held"}
    /\ item' = [item EXCEPT ![o].blocked = TRUE]
    /\ Record(o, "blocked", "none")
    /\ QueueChanged
    /\ UNCHANGED <<enqueueOrder, dispatch, attempts, lease, known, results>>

\* JobControlStore.block_job.  An already blocked job only gets a new reason.
BlockJob(o, expected) ==
    /\ Kind[o] = "job" /\ o \in known
    /\ revision[o] = expected
    /\ status[o] \in {"queued", "held"}
    /\ item' = [item EXCEPT ![o].blocked = TRUE]
    /\ Record(o, "blocked", "none")
    /\ QueueChanged
    /\ UNCHANGED <<enqueueOrder, dispatch, attempts, lease, known, results>>

-------------------------------------------------------------------------------
(* ControlStore.recover, second transaction.  decisions maps the fencing     *)
(* tokens found in the first one to what recovery.decide() made of the       *)
(* observed processes.                                                       *)

Verdicts == {"owner_alive", "interrupted"} \cup (RecoveryReasons \ {"termination_failed"})

\* "skip": the lease changed after the observation.
Verdict(o, decisions) ==
    IF HeldFence(o) = 0 THEN "recovery_owner_unverified"
    ELSE IF HeldFence(o) \in DOMAIN decisions THEN decisions[HeldFence(o)] ELSE "skip"

RecoveryHeld == {o \in Waiting : ~item[o].held}
Interrupted(decisions) ==
    {o \in Ops : status[o] \in ACTIVE /\ Verdict(o, decisions) = "interrupted"}
\* Mutant of Flagged: records the reason again although it is there.
FlaggedAgain(decisions) ==
    {o \in Ops : status[o] \in ACTIVE /\ Verdict(o, decisions) \in RecoveryReasons}
Flagged(decisions) ==
    {o \in Ops : /\ status[o] \in ACTIVE
                 /\ Verdict(o, decisions) \in RecoveryReasons
                 /\ flag[o] # Verdict(o, decisions)}

RecoverQueueChanged(decisions) ==
    \/ dispatch # "paused"
    \/ RecoveryHeld # {}
    \/ \E o \in Interrupted(decisions) : Queued(o)

Recovered(decisions) == RecoveryHeld \cup Interrupted(decisions) \cup Flagged(decisions)

RecoverChanges(decisions) == RecoverQueueChanged(decisions) \/ Recovered(decisions) # {}

Recover(decisions) ==
    LET gone    == Interrupted(decisions)
        flagged == Flagged(decisions)
    IN  /\ dispatch' = "paused"
        /\ status' = [o \in Ops |->
               IF o \in gone THEN "interrupted"
               ELSE IF o \in RecoveryHeld /\ Kind[o] = "job" /\ status[o] = "queued" THEN "held"
               ELSE status[o]]
        /\ revision' = [o \in Ops |->
               IF o \in Recovered(decisions) THEN revision[o] + 1 ELSE revision[o]]
        /\ flag' = [o \in Ops |->
               IF o \in flagged THEN Verdict(o, decisions)
               ELSE IF o \in RecoveryHeld \cup gone THEN "none" ELSE flag[o]]
        /\ item' = [o \in Ops |->
               IF o \in gone THEN NoItem
               ELSE IF o \in RecoveryHeld THEN [item[o] EXCEPT !.held = TRUE] ELSE item[o]]
        /\ lease' = [s \in Slots |->
               IF \E o \in gone : lease[s] = HeldFence(o) THEN 0 ELSE lease[s]]
        /\ attempts' = [f \in Fences |->
               IF \E o \in gone : f = HeldFence(o)
               THEN [attempts[f] EXCEPT !.state = "interrupted"] ELSE attempts[f]]
        /\ queueRevision' = IF RecoverQueueChanged(decisions) THEN queueRevision + 1
                                                             ELSE queueRevision
        /\ UNCHANGED <<enqueueOrder, known, results>>
-------------------------------------------------------------------------------
(* The store with arbitrary clients *)

StoreInit ==
    /\ status        = [o \in Ops |-> "absent"]
    /\ revision      = [o \in Ops |-> 0]
    /\ flag          = [o \in Ops |-> "none"]
    /\ item          = [o \in Ops |-> NoItem]
    /\ enqueueOrder  = 0
    /\ queueRevision = 1
    /\ dispatch      = "running"
    /\ attempts      = <<>>
    /\ lease         = [s \in Slots |-> 0]
    /\ known         = {}
    /\ results       = {}

Batches == UNION {Injection(S, 1..Cardinality(S)) : S \in (SUBSET Ops) \ {{}}}

\* What recover() may have concluded about the leases it read, all of them or
\* those that existed when it looked.
Decisions == UNION {[F -> Verdicts] : F \in SUBSET {lease[s] : s \in Slots} \ {{0}}}

Create ==
    \/ \E o \in Ops : Submit(o) \/ StartOperation(o)
    \/ \E rank \in Batches : AcceptBatch(rank)
    \/ \E source, o \in Ops : \E expected \in 1..MaxRevision[source] : RetryJob(source, expected, o)

UserCommand ==
    \/ \E o \in Ops : \E expected \in 1..MaxRevision[o] :
           \/ CancelJob(o, expected)
           \/ Revalidated(o, expected)
           \/ \E held \in BOOLEAN : SetHold(o, expected, held)
    \/ \E expectedQueue \in 1..MaxQueueRevision :
           \/ \E o \in Ops, held \in BOOLEAN : SetItemHold(o, expectedQueue, held)
           \/ \E target \in {"running", "paused"} : SetDispatch(expectedQueue, target)
           \/ \E takes \in Bijection(Waiting, Waiting) : Reorder(expectedQueue, takes)

OwnerCommand ==
    \/ \E o \in Ops : \E expected \in 1..MaxRevision[o] :
           \/ BlockJob(o, expected)
           \/ BeginAttempt(o, expected)
           \/ \E target \in Statuses, fence \in 0..Len(attempts) :
                 Transition(o, expected, target, fence)
    \/ \E o \in Ops, fence \in Fences :
           \/ \E outcome \in {"confirmed", "failed"} : RecordLaunch(o, fence, outcome)
           \/ \E outcome \in {"succeeded", "failed", "cancelled"} : FinishAttempt(o, fence, outcome)
           \/ revision[o] <= MaxRevision[o] /\ FlagUnconfirmed(o, fence)

\* recover() as called on an activation, within the bounds.
RecoverStore ==
    /\ queueRevision <= MaxQueueRevision
    /\ \E decisions \in Decisions :
          /\ RecoverChanges(decisions)
          /\ \A o \in Recovered(decisions) : revision[o] <= MaxRevision[o]
          /\ Recover(decisions)

StoreNext == Create \/ UserCommand \/ OwnerCommand \/ RecoverStore

StoreSpec == StoreInit /\ [][StoreNext]_storeVars

-------------------------------------------------------------------------------
(* Properties *)

TypeOK ==
    /\ status \in [Ops -> Statuses \cup {"absent"}]
    /\ revision \in [Ops -> Nat]
    /\ flag \in [Ops -> RecoveryReasons \cup {"none"}]
    /\ item \in [Ops -> Item]
    /\ enqueueOrder \in Nat
    /\ queueRevision \in Nat
    /\ dispatch \in {"running", "paused"}
    /\ attempts \in Seq(Attempt)
    /\ lease \in [Slots -> 0..Len(attempts)]
    /\ known \subseteq Ops
    /\ results \subseteq Ops

\* A slot is held by an operation that is running or being cancelled, through
\* the only attempt of that operation which has not ended.
LeaseHolderIsActive ==
    \A s \in Slots : lease[s] # 0 =>
        /\ attempts[lease[s]].state = "active"
        /\ Slot(attempts[lease[s]].op) = s
        /\ status[attempts[lease[s]].op] \in ACTIVE

\* Conversely nothing is running, and no attempt is open, without the lease.
ActiveHoldsLease ==
    /\ \A o \in Ops : status[o] \in ACTIVE => HeldFence(o) # 0
    /\ \A f \in Fences : attempts[f].state = "active" => lease[Slot(attempts[f].op)] = f

\* The queue shows exactly the waiting and the running operations.
QueueShowsStatus ==
    \A o \in Ops :
        /\ item[o].place = "waiting" <=> Queued(o) /\ status[o] \in WAITING
        /\ item[o].place = "active"  <=> Queued(o) /\ status[o] \in ACTIVE
        /\ item[o].place # "waiting" => ~item[o].held /\ ~item[o].blocked

\* Lease, operation status, attempt journal and queue item, which the code
\* keeps in four tables and changes from a dozen methods, always tell the same
\* story (store.py _release, begin_attempt, recover; job_repository.py
\* finish_attempt, cancel_job).
SlotCoherence == LeaseHolderIsActive /\ ActiveHoldsLease /\ QueueShowsStatus

\* The single resource-heavy slot: of all jobs and setup operations at most one
\* is running or being cancelled, whatever the clients and recovery do.
SingleHeavySlot ==
    \A a, b \in Ops :
        Queued(a) /\ Queued(b) /\ status[a] \in ACTIVE /\ status[b] \in ACTIVE => a = b

\* The two independent flags of a waiting item and the status shown to the user
\* agree: a job is blocked, else held, else queued exactly as its item says
\* (store.py set_hold; job_repository.py block_job, revalidated, set_item_hold).
StatusMirrorsFlags ==
    \A o \in Waiting :
        status[o] = IF item[o].blocked THEN "blocked"
                    ELSE IF item[o].held /\ Kind[o] = "job" THEN "held" ELSE "queued"

\* Waiting items never share an ord, and every ord is below the counter, so
\* that neither an enqueue nor a reorder can hit UNIQUE(ord).
OrderIsStrict ==
    /\ \A o \in Waiting : item[o].ord \in 1..enqueueOrder
    /\ \A a, b \in Waiting : item[a].ord = item[b].ord => a = b

\* Only a job that ended succeeded has a result row; in particular never one
\* whose cancellation was accepted before its completion was reported.
ResultOnlyIfSucceeded == \A o \in results : status[o] = "succeeded"

\* recovery_required is shown only of an operation that still occupies its slot;
\* whatever frees the slot clears it.
FlaggedIsActive == \A o \in Ops : flag[o] # "none" => status[o] \in ACTIVE

\* An attempt that ended is history: a late report of its former owner changes
\* nothing of it, nor of the operation while a newer attempt runs.
EndedAttemptsAreFrozen ==
    [][ /\ Len(attempts') >= Len(attempts)
        /\ \A f \in Fences : /\ attempts'[f].op = attempts[f].op
                             /\ attempts[f].state # "active" => attempts'[f] = attempts[f] ]_storeVars

\* Every change of a status is a row of its kind's table (transitions.py), the
\* one exception being block_job on a held job.
StatusFollowsTable ==
    [][ \A o \in Ops : status'[o] # status[o] =>
          \/ status[o] = "absent" /\ status'[o] = "queued"
          \/ Check(Kind[o], status[o], status'[o])
          \/ status[o] = "held" /\ status'[o] = "blocked" ]_storeVars

\* A finished operation is never written again, not even its revision or flag.
FinalIsFinal ==
    [][ \A o \in Ops : status[o] # "absent" /\ IsFinal(Kind[o], status[o]) =>
          <<status[o], revision[o], flag[o], item[o]>>' = <<status[o], revision[o], flag[o], item[o]>>
      ]_storeVars
\* What a user sees beside a status - held, blocked, recovery required, a result - always
\* agrees with it, whatever sequence of commands, failed checks and recovery led there.
FlagsMatchStatus == StatusMirrorsFlags /\ FlaggedIsActive /\ ResultOnlyIfSucceeded

\* No step rewrites history: what has ended stays, and every status follows its table.
HistoryIsLawful == EndedAttemptsAreFrozen /\ StatusFollowsTable /\ FinalIsFinal
===============================================================================
