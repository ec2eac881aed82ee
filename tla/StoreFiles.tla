----------------------------- MODULE StoreFiles -----------------------------
(***************************************************************************)
(* The file of the control store: how it is created, checked, migrated and *)
(* copied (utteran_control/store.py), by processes that open it with        *)
(* classes of different layouts, some of which take a copy first            *)
(* (utteran_gui/job_runtime.py).  What the file says of operations is a     *)
(* set of marks, one per committed write.                                   *)
(*                                                                         *)
(* A transaction of SQLite is one step, all or nothing, also when the       *)
(* process dies in it; that much of SQLite is assumed.                      *)
(***************************************************************************)
EXTENDS Naturals, FiniteSets

CONSTANTS
    Openers,    \* processes that construct a store on the same path
    Layout,     \* [opener -> the layout of the class it constructs]
    Copying,    \* those that construct JobRuntime, which copies the file first
    Found,      \* files that may be at the path at first: [version, lacks, has]
    MaxWrites, MaxCrashes

VARIABLES
    disk,    \* the file at the path of the store
    temp,    \* the temporary file of each initializer
    copy,    \* the backup of each opener
    opener,  \* the control state of each opener
    crashes

fileVars == <<disk, temp, copy, opener, crashes>>

----------------------------------------------------------------------------
(* Layouts. *)

DDL == <<
    {"installation", "counters", "operations", "operation_history", "operation_private", "queue",
     "queue_items", "attempts", "attempt_private", "leases", "outbox", "replays"},
    {"queue_replays"},
    {"job_snapshots", "job_state", "job_results", "batch_replays", "job_replays"},
    {"setup_inventory", "setup_plans", "setup_approvals", "setup_operations", "setup_state",
     "setup_steps", "setup_step_journal", "setup_replays"},
    {"outbox_compaction"},
    {"operation_history_attempts"} >>

Required(v) == UNION {DDL[i] : i \in 1..v}

ASSUME LayoutAssumption == Layout \in [Openers -> DOMAIN DDL] /\ \A f \in Found : f.version \in Nat

\* A file: PRAGMA user_version, its tables, the installation it identifies, its writes.
Db(v, tables, id) == [version |-> v, tables |-> tables, id |-> id, writes |-> {}]
NoFile    == Db(0, {"no file"}, "none")
EmptyFile == Db(0, {}, "none")
NewStore(v, id) == Db(v, Required(v), id)

\* A file found at the path: the tables of its layout, without some or with others.
FoundFile(f) ==
    Db(f.version, (Required(f.version) \ f.lacks) \union f.has, "found")

AtFirst == {NoFile, EmptyFile} \union {FoundFile(f) : f \in Found}

\* _verify for the layout v.
Verified(db, v) == db.version = v /\ Required(v) \subseteq db.tables

Present(db) == db # NoFile

----------------------------------------------------------------------------
(* The openers. *)

Closed == [pc |-> "start", existed |-> FALSE, from |-> 0, id |-> "none"]

OpenerAt(p, pc) == opener[p].pc = pc
OpenerGoes(p, pc) == opener' = [opener EXCEPT ![p].pc = pc]

\* The constructor or the activation raises.
Fails(p) == opener' = [opener EXCEPT ![p] = [Closed EXCEPT !.pc = "failed"]]

\* activate looks at the path before it constructs the class.
StartOpening(p) ==
    /\ OpenerAt(p, "start")
    /\ opener' = [opener EXCEPT ![p].pc = IF p \in Copying /\ Present(disk) THEN "copy" ELSE "open",
                                ![p].existed = Present(disk)]
    /\ UNCHANGED <<disk, temp, copy, crashes>>

\* _copy_database: a new exclusive file first.
BeginCopy(p) ==
    /\ OpenerAt(p, "copy")
    /\ copy' = [copy EXCEPT ![p] = EmptyFile]
    /\ OpenerGoes(p, "backup")
    /\ UNCHANGED <<disk, temp, crashes>>

\* The online backup reads one snapshot; quick_check accepts any layout.
Backup(p) ==
    /\ OpenerAt(p, "backup")
    /\ copy' = [copy EXCEPT ![p] = disk]
    /\ OpenerGoes(p, "open")
    /\ UNCHANGED <<disk, temp, crashes>>

\* The copy of a failed backup is removed.
BackupFails(p) ==
    /\ OpenerAt(p, "backup")
    /\ copy' = [copy EXCEPT ![p] = NoFile]
    /\ Fails(p)
    /\ UNCHANGED <<disk, temp, crashes>>

CheckFile(p) ==
    /\ OpenerAt(p, "open")
    /\ IF Present(disk) THEN OpenerGoes(p, "migrate") ELSE OpenerGoes(p, "create")
    /\ UNCHANGED <<disk, temp, copy, crashes>>

\* _initialize: a file of its own, with the whole schema in one transaction.
CreateTemporary(p) ==
    /\ OpenerAt(p, "create")
    /\ temp' = [temp EXCEPT ![p] = EmptyFile]
    /\ OpenerGoes(p, "build")
    /\ UNCHANGED <<disk, copy, crashes>>

BuildSchema(p) ==
    /\ OpenerAt(p, "build")
    /\ temp' = [temp EXCEPT ![p] = NewStore(Layout[p], p)]
    /\ OpenerGoes(p, "publish")
    /\ UNCHANGED <<disk, copy, crashes>>

\* Mutant: the new file replaces whatever is there.
PublishOver(p) ==
    /\ OpenerAt(p, "publish")
    /\ disk' = temp[p]
    /\ temp' = [temp EXCEPT ![p] = NoFile]
    /\ OpenerGoes(p, "migrate")
    /\ UNCHANGED <<copy, crashes>>

\* The link never overwrites: who comes second opens the file of the first.
Publish(p) ==
    /\ OpenerAt(p, "publish")
    /\ disk' = IF Present(disk) THEN disk ELSE temp[p]
    /\ temp' = [temp EXCEPT ![p] = NoFile]
    /\ OpenerGoes(p, "migrate")
    /\ UNCHANGED <<copy, crashes>>

InitializeFails(p) ==
    /\ opener[p].pc \in {"build", "publish"}
    /\ temp' = [temp EXCEPT ![p] = NoFile]
    /\ Fails(p)
    /\ UNCHANGED <<disk, copy, crashes>>

\* _migrate looks first without the write lock.
ReadVersion(p) ==
    /\ OpenerAt(p, "migrate")
    /\ CASE disk.version = Layout[p]          -> OpenerGoes(p, "verify")
         [] disk.version \in 1..Layout[p] - 1 -> OpenerGoes(p, "upgrade")
         [] OTHER                             -> Fails(p)
    /\ UNCHANGED <<disk, temp, copy, crashes>>

\* The file can be upgraded: it is whole, and has no table of a layer to come.
Upgradable(p) ==
    /\ disk.version \in 1..Layout[p] - 1
    /\ Verified(disk, disk.version)
    /\ disk.tables \intersect (Required(Layout[p]) \ Required(disk.version)) = {}

\* The layers above its own are added.
Upgraded(db, v) ==
    [db EXCEPT !.version = v, !.tables = @ \union UNION {DDL[i] : i \in db.version + 1..v}]

\* The second look is under the write lock, with the whole migration.
Upgrade(p) ==
    /\ OpenerAt(p, "upgrade")
    /\ CASE disk.version = Layout[p] -> UNCHANGED disk /\ OpenerGoes(p, "verify")
         [] Upgradable(p) ->
              /\ disk' = Upgraded(disk, Layout[p])
              /\ opener' = [opener EXCEPT ![p].pc = "verify", ![p].from = disk.version]
         [] OTHER -> UNCHANGED disk /\ Fails(p)
    /\ UNCHANGED <<temp, copy, crashes>>

\* A busy, full or read-only file: the transaction is rolled back.
OpenFails(p) ==
    /\ opener[p].pc \in {"migrate", "upgrade", "verify"}
    /\ Fails(p)
    /\ UNCHANGED <<disk, temp, copy, crashes>>

VerifyStore(p) ==
    /\ OpenerAt(p, "verify")
    /\ IF Verified(disk, Layout[p])
       THEN opener' = [opener EXCEPT ![p].pc = "opened", ![p].id = disk.id]
       ELSE Fails(p)
    /\ UNCHANGED <<disk, temp, copy, crashes>>

\* Any operation of an open store; the layout is not looked at again.
WriteStore(p) ==
    /\ OpenerAt(p, "opened")
    /\ Cardinality(disk.writes) < MaxWrites
    /\ disk' = [disk EXCEPT !.writes = @ \union {Cardinality(@) + 1}]
    /\ UNCHANGED <<temp, copy, opener, crashes>>

CloseStore(p) ==
    /\ opener[p].pc \in {"opened", "failed"}
    /\ opener' = [opener EXCEPT ![p] = Closed]
    /\ UNCHANGED <<disk, temp, copy, crashes>>

\* The process dies; what it was writing stays where it is.
CrashOpener(p) ==
    /\ opener[p].pc \notin {"start", "failed"}
    /\ crashes < MaxCrashes
    /\ crashes' = crashes + 1
    /\ opener' = [opener EXCEPT ![p] = Closed]
    /\ UNCHANGED <<disk, temp, copy>>

----------------------------------------------------------------------------
FilesInit ==
    /\ disk \in AtFirst
    /\ temp = [p \in Openers |-> NoFile]
    /\ copy = [p \in Openers |-> NoFile]
    /\ opener = [p \in Openers |-> Closed]
    /\ crashes = 0

FilesNext ==
    \E p \in Openers :
        \/ StartOpening(p)
        \/ BeginCopy(p)
        \/ Backup(p)
        \/ BackupFails(p)
        \/ CheckFile(p)
        \/ CreateTemporary(p)
        \/ BuildSchema(p)
        \/ Publish(p)
        \/ InitializeFails(p)
        \/ ReadVersion(p)
        \/ Upgrade(p)
        \/ OpenFails(p)
        \/ VerifyStore(p)
        \/ WriteStore(p)
        \/ CloseStore(p)
        \/ CrashOpener(p)

FilesSpec == FilesInit /\ [][FilesNext]_fileVars

----------------------------------------------------------------------------
(* Properties. *)

\* A store has the tables of its layout and no others but those it was found with.
Whole(db) ==
    /\ db.version \in DOMAIN DDL
    /\ \/ db.tables = Required(db.version)
       \/ \E f \in Found : /\ db.id = "found" /\ f.version <= db.version
                           /\ db.tables = Required(db.version) \union f.has

\* No half-made store is ever at the path (docs/architecture/b6/storage.md:25): a process
\* that has opened one found all of its layout, and the layout of a file that is no proper
\* store stays as it was found, whoever tries to open it.
StoreIsWhole ==
    /\ Present(disk) => Whole(disk) \/ [disk EXCEPT !.writes = {}] \in AtFirst
    /\ \A p \in Openers :
          OpenerAt(p, "opened") => disk.version >= Layout[p] /\ Verified(disk, disk.version)

\* Processes that create the store at once agree on one installation, and from then on it
\* neither loses a write nor goes back to an older layout (store.py:458, 493).
OneInstallation ==
    [][Present(disk) =>
         /\ disk'.id = disk.id
         /\ disk.writes \subseteq disk'.writes
         /\ disk.version <= disk'.version]_disk

\* A runtime that migrated a store it had found holds a copy that the code before the
\* migration opens (job_runtime.py:130, store.py:1580).
MigrationHasItsBackup ==
    \A p \in Openers :
        p \in Copying /\ opener[p].existed /\ opener[p].from > 0 =>
          Verified(copy[p], copy[p].version) /\ copy[p].version \in 1..opener[p].from

\* The three together: the store at the path is whole, one, and has its copy.
StoreIsSafe == [](StoreIsWhole /\ MigrationHasItsBackup) /\ OneInstallation
=============================================================================
