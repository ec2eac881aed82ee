---------------------------- MODULE JobDirectory ----------------------------
(***************************************************************************)
(* One directory of JobStore (utteran/jobs.py): the manifest, the artifacts *)
(* of the five stages and the pid lock, with the processes that work in it: *)
(* the pipeline (pipeline.py) of the command line, of a batch or of a       *)
(* worker, `utteran jobs export' and `utteran jobs clean' (cli.py).         *)
(*                                                                         *)
(* The input file is fixed: another content has another directory.  Every  *)
(* JSON file is replaced atomically.  A hash stands for what is hashed, and *)
(* an artifact for the choices it was made with, so that the two can be     *)
(* compared.  Each process is launched once and may be killed between any   *)
(* two steps.  Its pid is its own while it lives; afterwards the system may *)
(* give it to a process of another program (Reused).                        *)
(***************************************************************************)
EXTENDS Naturals, FiniteSets, Sequences

CONSTANTS
    Procs,     \* processes that are ever launched
    Launches,  \* [kind, cfg, force]: what may be launched; kind is "run", "export" or
               \* "clean", cfg the settings [asr, words, diar, out], force --force
    Overlap,   \* whether processes are launched while others run
    Reused     \* processes whose pid another program may have after their end


VARIABLES
    manifest,  \* manifest.json: stage -> record, or NoManifest
    artifact,  \* stage -> what it was made with, or Missing
    lock,      \* .lock: creator and written pid, or NoLock
    proc       \* the processes

directoryVars == <<manifest, artifact, lock, proc>>

STAGES == <<"audio", "asr", "diarization", "merge", "export">>
Stage  == {STAGES[i] : i \in DOMAIN STAGES}

DEPENDENTS ==
    [audio |-> {"asr", "diarization", "merge", "export"}, asr |-> {"merge", "export"},
     diarization |-> {"merge", "export"}, merge |-> {"export"}, export |-> {}]

Upstream(s) == {d \in Stage : s \in DEPENDENTS[d]}

NoManifest == [none |-> TRUE]
NoLock     == [none |-> TRUE]
NoPid      == "no pid"
Missing    == [none |-> TRUE]
NoHash     == <<>>

ASSUME DirectoryAssumption ==
    /\ \A l \in Launches : l.kind \in {"run", "export", "clean"} /\ l.force \in BOOLEAN
    /\ NoPid \notin Procs /\ Reused \subseteq Procs

Record(status, hash) == [status |-> status, hash |-> hash]
Unrecorded == Record("pending", NoHash)

----------------------------------------------------------------------------
(* Hashes and results. *)

\* What stage_config_hashes takes of the settings, per stage.
Hashed(c, s) == CASE s = "asr"         -> <<c.asr, c.words>>
                  [] s = "diarization" -> c.diar
                  [] s = "export"      -> c.out
                  [] OTHER             -> 0

\* A hash contains the hashes of the stages it depends on.
Hash(c, s) == [d \in Upstream(s) \union {s} |-> Hashed(c, d)]

\* What the stage does with the settings: _asr_options asks for word timestamps
\* always, or automatically if the speakers are separated.
Used(c, s) == IF s = "asr"
              THEN <<c.asr, c.words = "always" \/ (c.words = "auto" /\ c.diar)>>
              ELSE Hashed(c, s)

\* Settings of one hash are used alike.  Not so with word timestamps "auto": separating
\* the speakers decides them, and the hash of "asr" does not tell it.
HashTellsUse ==
    \A l, m \in Launches, s \in Stage :
        Hashed(l.cfg, s) = Hashed(m.cfg, s) => Used(l.cfg, s) = Used(m.cfg, s)

\* What the settings produce from nothing.
Produced(c, s) == [d \in Upstream(s) \union {s} |-> Used(c, d)]

\* What stage s makes with x from the results of other stages, and the hash of that.
Upon(s, x, from) == [d \in {s} \union DOMAIN from |-> IF d = s THEN x ELSE from[d]]

Both(f, g) == [d \in DOMAIN f \union DOMAIN g |-> IF d \in DOMAIN f THEN f[d] ELSE g[d]]

\* The result of a stage from the results it is given.
Result(c, s, mem, audio) ==
    Upon(s, Used(c, s),
         CASE s = "audio"  -> <<>>
           [] s \in {"asr", "diarization"} -> audio
           [] s = "merge"  -> Both(mem["asr"], mem["diarization"])
           [] s = "export" -> mem["merge"])

----------------------------------------------------------------------------
(* Processes. *)

Absent == [pc |-> "absent"]

Gone  == {"absent", "ended", "locked out", "killed"}
Alive(p) == proc[p].pc \notin Gone

\* Where a process believes that it holds the lock.
Holding == {"locked", "stage", "work", "wrote", "saved", "exported", "release"}

SetProcess(p, f) == proc' = [proc EXCEPT ![p] = f]
Self(p) == proc[p]

LaunchProcess(p, l) ==
    /\ Self(p) = Absent
    /\ Overlap \/ \A q \in Procs : ~Alive(q)
    /\ SetProcess(p, [pc |-> "open", kind |-> l.kind, cfg |-> l.cfg, force |-> l.force,
                      at |-> 1, tries |-> 0, man |-> NoManifest,
                      mem |-> [s \in Stage |-> Missing], outcome |-> "none"])
    /\ UNCHANGED <<manifest, artifact, lock>>

\* from_dict: work that was interrupted is pending.
Loaded(m) == [s \in Stage |-> IF m[s].status = "running"
                              THEN [m[s] EXCEPT !.status = "pending"] ELSE m[s]]

\* Only how it ended is kept of a process.
Ended(p, how) == SetProcess(p, [pc |-> how, kind |-> Self(p).kind])

\* JobStore.open reads the manifest, or makes one ...
Open(p) ==
    /\ Self(p).pc = "open" /\ Self(p).kind = "run"
    /\ SetProcess(p, [Self(p) EXCEPT !.pc = "opened",
                            !.man = IF manifest = NoManifest THEN [s \in Stage |-> Unrecorded]
                                    ELSE Loaded(manifest)])
    /\ UNCHANGED <<manifest, artifact, lock>>

\* ... and saves it, before the lock is taken.
OpenSaves(p) ==
    /\ Self(p).pc = "opened"
    /\ manifest' = Self(p).man
    /\ SetProcess(p, [Self(p) EXCEPT !.pc = "lock"])
    /\ UNCHANGED <<artifact, lock>>

\* JobStore.get, for the export of an existing job.
GetJob(p) ==
    /\ Self(p).pc = "open" /\ Self(p).kind = "export"
    /\ IF manifest = NoManifest THEN Ended(p, "ended")
       ELSE SetProcess(p, [Self(p) EXCEPT !.pc = "lock", !.man = Loaded(manifest)])
    /\ UNCHANGED <<manifest, artifact, lock>>

----------------------------------------------------------------------------
(* JobLock. *)

TryLock(p) ==
    /\ Self(p).pc = "lock"
    /\ IF lock = NoLock
       THEN lock' = [by |-> p, pid |-> NoPid] /\ SetProcess(p, [Self(p) EXCEPT !.pc = "create"])
       ELSE UNCHANGED lock /\ SetProcess(p, [Self(p) EXCEPT !.pc = "owner"])
    /\ UNCHANGED <<manifest, artifact>>

\* The pid goes into the file that was created, if it is still there.
WritePid(p) ==
    /\ Self(p).pc = "create"
    /\ lock' = IF lock # NoLock /\ lock.by = p THEN [lock EXCEPT !.pid = p] ELSE lock
    /\ SetProcess(p, [Self(p) EXCEPT !.pc = "locked"])
    /\ UNCHANGED <<manifest, artifact>>

\* Mutant: a lock that names a pid is taken for one that is held.
PidNamed == lock # NoLock /\ lock.pid # NoPid

\* _process_exists: a process has the pid of the lock, though perhaps not its owner ...
PidFound == lock # NoLock /\ lock.pid # NoPid /\ (Alive(lock.pid) \/ lock.pid \in Reused)

\* ... or none has.
PidFree == lock # NoLock /\ lock.pid # NoPid => ~Alive(lock.pid)

LockedOut(p, by) == SetProcess(p, [pc |-> "locked out", kind |-> Self(p).kind, by |-> by])

\* The owner named by the lock is looked for; where there is none, the step is "next".
AskOwner(p, next) ==
    /\ \/ PidFound /\ LockedOut(p, lock.pid)
       \/ PidFree /\ SetProcess(p, [Self(p) EXCEPT !.pc = next])
    /\ UNCHANGED <<manifest, artifact, lock>>

ReadOwner(p) == Self(p).pc = "owner" /\ AskOwner(p, "unlink")

Unlink(p) ==
    /\ Self(p).pc = "unlink"
    /\ lock' = NoLock
    /\ IF Self(p).tries = 2 THEN LockedOut(p, NoPid)
       ELSE SetProcess(p, [Self(p) EXCEPT !.pc = "lock", !.tries = @ + 1])
    /\ UNCHANGED <<manifest, artifact>>

Release(p) ==
    /\ Self(p).pc = "release"
    /\ lock' = IF lock # NoLock /\ lock.pid = p THEN NoLock ELSE lock
    /\ Ended(p, "ended")
    /\ UNCHANGED <<manifest, artifact>>

----------------------------------------------------------------------------
(* The stages. *)

\* The manifest is changed in memory and saved as a whole.
Saved(p, man, pc) ==
    /\ manifest' = man
    /\ SetProcess(p, [Self(p) EXCEPT !.man = man, !.pc = pc])

IsDone(p, s) ==
    LET r == Self(p).man[s]
    IN  r.status = "done" /\ r.hash = Hash(Self(p).cfg, s) /\ artifact[s] # Missing

\* Mutant: every start begins from nothing.
InvalidAll(p) == Stage

\* Stages that are not done, and all that depends on them, start anew.
Invalid(p) ==
    LET own == IF Self(p).force THEN Stage ELSE {s \in Stage : ~IsDone(p, s)}
    IN  own \union UNION {DEPENDENTS[s] : s \in own}

Reconcile(p) ==
    /\ Self(p).pc = "locked" /\ Self(p).kind = "run"
    /\ Saved(p, [s \in Stage |-> IF s \in Invalid(p) THEN Unrecorded ELSE Self(p).man[s]], "stage")
    /\ UNCHANGED <<artifact, lock>>

Now(p) == STAGES[Self(p).at]

Advanced(p, me) == [me EXCEPT !.pc = IF me.at = Len(STAGES) THEN "release" ELSE "stage",
                              !.outcome = IF me.at = Len(STAGES) THEN "ok" ELSE @,
                              !.at = IF me.at = Len(STAGES) THEN @ ELSE @ + 1]

\* read_intermediate: what write_intermediate left, whoever did.
Restored(s) == artifact[s]

\* A finished stage is loaded, not repeated.
Skip(p) ==
    /\ Self(p).pc = "stage" /\ IsDone(p, Now(p))
    /\ SetProcess(p, Advanced(p, [Self(p) EXCEPT !.mem[Now(p)] = Restored(Now(p))]))
    /\ UNCHANGED <<manifest, artifact, lock>>

StartStage(p) ==
    /\ Self(p).pc = "stage" /\ ~IsDone(p, Now(p))
    /\ Saved(p, [Self(p).man EXCEPT ![Now(p)] = Record("running", Hash(Self(p).cfg, Now(p)))], "work")
    /\ UNCHANGED <<artifact, lock>>

\* The operation and the file it leaves.
Work(p) ==
    /\ Self(p).pc = "work"
    /\ LET r == Result(Self(p).cfg, Now(p), Self(p).mem, artifact["audio"])
       IN  /\ artifact' = [artifact EXCEPT ![Now(p)] = r]
           /\ SetProcess(p, [Self(p) EXCEPT !.pc = "wrote", !.mem[Now(p)] = r])
    /\ UNCHANGED <<manifest, lock>>

\* complete_stage.  The progress that reports it is still within the try of
\* _execute_stage.
CompleteStage(p) ==
    /\ Self(p).pc = "wrote"
    /\ Saved(p, [Self(p).man EXCEPT ![Now(p)] = Record("done", Hash(Self(p).cfg, Now(p)))], "saved")
    /\ UNCHANGED <<artifact, lock>>

GoOn(p) ==
    /\ Self(p).pc = "saved"
    /\ SetProcess(p, Advanced(p, Self(p)))
    /\ UNCHANGED <<manifest, artifact, lock>>

\* fail_stage and interrupt_stage: the operation, writing its file or reporting the
\* end raised, or a cancel was seen or Ctrl-C came.  A "done" just saved is undone.
StageEnds(p, outcome) ==
    /\ Self(p).pc \in {"work", "wrote", "saved"}
    /\ LET man == [Self(p).man EXCEPT ![Now(p)] =
                     IF outcome = "failed" THEN Record("failed", Hash(Self(p).cfg, Now(p))) ELSE Unrecorded]
       IN  manifest' = man /\ SetProcess(p, [Self(p) EXCEPT !.man = man, !.pc = "release", !.outcome = outcome])
    /\ UNCHANGED <<artifact, lock>>

\* Outside that try (the check before start_stage, the progress of a start or of a
\* skipped stage, write_presentation) the manifest stays as it is.
LeaveOff(p, outcome) ==
    /\ Self(p).pc \in {"stage", "work", "saved"}
    /\ SetProcess(p, [Self(p) EXCEPT !.pc = "release", !.outcome = outcome])
    /\ UNCHANGED <<manifest, artifact, lock>>

----------------------------------------------------------------------------
(* utteran jobs export and utteran jobs clean. *)

\* read_merged_payload finds nothing to export.
NothingMerged == artifact["merge"] = Missing

ExportAgain(p) ==
    /\ Self(p).pc = "locked" /\ Self(p).kind = "export"
    /\ IF NothingMerged
       THEN /\ SetProcess(p, [Self(p) EXCEPT !.pc = "release", !.outcome = "failed"])
            /\ UNCHANGED artifact
       ELSE /\ artifact' = [artifact EXCEPT !["export"] =
                               Upon("export", Self(p).cfg.out, artifact["merge"])]
            /\ SetProcess(p, [Self(p) EXCEPT !.pc = "exported"])
    /\ UNCHANGED <<manifest, lock>>

ExportCompletes(p) ==
    /\ Self(p).pc = "exported"
    /\ LET hash == Upon("export", Self(p).cfg.out, Self(p).man["merge"].hash)
       IN  Saved(p, [Self(p).man EXCEPT !["export"] = Record("done", hash)], "release")
    /\ UNCHANGED <<artifact, lock>>

CleanChecks(p) ==
    /\ Self(p).pc = "open" /\ Self(p).kind = "clean"
    /\ AskOwner(p, "rmtree")

\* The outputs are elsewhere and stay.
CleanRemoves(p) ==
    /\ Self(p).pc = "rmtree"
    /\ manifest' = NoManifest
    /\ artifact' = [s \in Stage |-> IF s = "export" THEN artifact[s] ELSE Missing]
    /\ lock' = NoLock
    /\ Ended(p, "ended")

KillProcess(p) ==
    /\ Alive(p)
    /\ Ended(p, "killed")
    /\ UNCHANGED <<manifest, artifact, lock>>

\* The user moves the outputs away.
OutputsGo ==
    /\ artifact["export"] # Missing /\ \A p \in Procs : ~Alive(p)
    /\ artifact' = [artifact EXCEPT !["export"] = Missing]
    /\ UNCHANGED <<manifest, lock, proc>>

----------------------------------------------------------------------------
DirectoryInit ==
    /\ manifest = NoManifest
    /\ artifact = [s \in Stage |-> Missing]
    /\ lock = NoLock
    /\ proc = [p \in Procs |-> Absent]

ProcessStep(p) ==
    \/ Open(p)
    \/ OpenSaves(p)
    \/ GetJob(p)
    \/ TryLock(p)
    \/ WritePid(p)
    \/ ReadOwner(p)
    \/ Unlink(p)
    \/ Release(p)
    \/ Reconcile(p)
    \/ Skip(p)
    \/ StartStage(p)
    \/ Work(p)
    \/ CompleteStage(p)
    \/ GoOn(p)
    \/ \E o \in {"failed", "cancelled"} : StageEnds(p, o) \/ LeaveOff(p, o)
    \/ ExportAgain(p)
    \/ ExportCompletes(p)
    \/ CleanChecks(p)
    \/ CleanRemoves(p)

DirectoryNext ==
    \/ \E p \in Procs, l \in Launches : LaunchProcess(p, l)
    \/ \E p \in Procs : ProcessStep(p) \/ KillProcess(p)
    \/ OutputsGo

DirectorySpec == DirectoryInit /\ [][DirectoryNext]_directoryVars

----------------------------------------------------------------------------
(* Properties. *)

\* An export of an existing job writes the outputs before it records that they are
\* other ones; killed in between, it leaves outputs nobody knows of.
OutputsMayDiffer == \E p \in Procs : Self(p).pc = "killed" /\ Self(p).kind = "export"

\* What a run reports as its result is what its settings produce from nothing,
\* whatever earlier runs, kills, exports and cleanings left in the directory
\* (jobs.py:266 reconcile, pipeline.py:225 _run_stages).
ResultIsOfItsConfig ==
    \A p \in Procs :
        Self(p).pc = "release" /\ Self(p).kind = "run" /\ Self(p).outcome = "ok" =>
            /\ artifact["merge"] = Produced(Self(p).cfg, "merge")
            /\ artifact["export"] = Produced(Self(p).cfg, "export") \/ OutputsMayDiffer

\* p completed stage s just now and is still within the try of _execute_stage: when the
\* progress of the end raises or Ctrl-C comes there, the stage is undone
\* (pipeline.py:413-455), though its artifact stays.
JustCompleted(p, s) == Self(p).pc = "saved" /\ s = Now(p)

\* A completed stage is forgotten only by the holder of the lock, and only if it
\* was made with other settings, something it depends on is to be made again, its
\* artifact is missing, the user asked for it, or the run that completed it fails
\* before it goes on (docs/utteran_Phase2_指示書.md:112: what is completed is not lost
\* when the process dies).
CompletedStagesAreKept ==
    [][\A s \in Stage :
        manifest # NoManifest /\ manifest' # NoManifest =>
        (manifest[s].status = "done" /\ manifest'[s] # manifest[s] =>
            \E p \in Procs :
                /\ lock # NoLock /\ lock.pid = p /\ Alive(p)
                /\ \/ Self(p).force
                   \/ JustCompleted(p, s)
                   \/ Self(p).kind = "export" /\ s = "export"
                   \/ manifest[s].hash # Hash(Self(p).cfg, s)
                   \/ \E d \in Upstream(s) \union {s} :
                        artifact[d] = Missing \/ manifest[d].status # "done")]_directoryVars

\* A process that is alone is locked out by what a killed one left only when another
\* program has the pid that the lock names (_process_exists asks for no more).
DeadSeldomLockOut ==
    ~Overlap => \A p \in Procs : Self(p).pc = "locked out" => Self(p).by \in Reused

\* What a run reports is what its settings produce, and a killed process locks nobody
\* out of the directory of its job unless its pid was given away (jobs.py:266
\* reconcile, jobs.py:464 JobLock, jobs.py:902 _process_exists).
ResumeIsSafe == ResultIsOfItsConfig /\ DeadSeldomLockOut

\* Two processes never work in the directory at once
\* (docs/utteran_Phase2_指示書.md:272).
OneWorksAtATime ==
    Cardinality({p \in Procs : Self(p).pc \in Holding}) <= 1

============================================================================
