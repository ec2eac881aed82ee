---------------------------- MODULE NativeBuild ----------------------------
(***************************************************************************)
(* The builds of whisper.cpp (utteran/native.py): one source tree, a build  *)
(* directory and a staging directory per variant, and the manifest that     *)
(* the recogniser (utteran/asr/whisper_cpp.py) and `native status' read.    *)
(*                                                                         *)
(* A release of utteran pins a commit and a patch of whisper.cpp and may be *)
(* replaced by another between two commands.  A tree of files is removed    *)
(* file by file: a removal that fails or dies leaves a damaged tree, whose  *)
(* executable may still be there.  One build runs at a time.                *)
(***************************************************************************)
EXTENDS Naturals, Sequences, FiniteSets

CONSTANTS
    Releases,   \* numbers of what utteran may pin, the newer the larger
    Requests,   \* the sets of variants asked for
    MaxBuilds   \* how many builds are started

\* No source has no release.
ASSUME ReleaseAssumption ==
    /\ Releases \subseteq Nat \ {0}
    /\ Requests \subseteq SUBSET {"cpu", "openvino", "vulkan", "openvino_vulkan"}

VARIABLES
    pinned,     \* the installed release
    tree,       \* the source tree
    build,      \* the build directory of each variant
    staging,    \* the staging directory of each variant
    manifest,   \* manifest.json
    run,        \* the command at hand
    builds

buildVars == <<pinned, tree, build, staging, manifest, run, builds>>

VARIANT_NAMES == <<"cpu", "openvino", "vulkan", "openvino_vulkan">>
Backends == {VARIANT_NAMES[i] : i \in 1..4}

NoTree   == [of |-> 0, state |-> "absent"]
Tree(s)  == [of |-> pinned, state |-> s]
NoManifest == [of |-> 0, backends |-> {}, errors |-> {}]

\* Mutant: whatever the manifest says counts.
LoadAnyManifest == manifest

\* load_manifest: only the manifest of the pinned source counts.
LoadManifest == IF manifest.of = pinned THEN manifest ELSE NoManifest

\* An executable may be found in a tree that is not whole.
HasExecutable(v) == build[v] # NoTree

\* status, and what the recogniser is willing to run.
Runnable == {v \in LoadManifest.backends : HasExecutable(v)}

----------------------------------------------------------------------------
(* build_all. *)

NoRun == [pc |-> "idle", want |-> {}, force |-> FALSE, known |-> NoManifest, at |-> 0,
         ready |-> {}, results |-> {}, errors |-> {}]

BuildAt(pc) == run.pc = pc
BuildGoes(pc) == run' = [run EXCEPT !.pc = pc]
Current == VARIANT_NAMES[run.at]

StartBuild ==
    /\ BuildAt("idle") /\ builds < MaxBuilds
    /\ \E want \in Requests, force \in BOOLEAN :
         run' = [NoRun EXCEPT !.pc = "source", !.want = want, !.force = force]
    /\ builds' = builds + 1
    /\ UNCHANGED <<pinned, tree, build, staging, manifest>>

\* The command raises: nothing is written.
Abort == run' = NoRun

\* _ensure_source: a tree of the pinned commit is used as it is, another one is fetched and
\* checked out, which git may refuse over the patch applied to it; a clone may be cut short.
EnsureSource ==
    /\ BuildAt("source")
    /\ \/ /\ tree' = Tree("patched")
          /\ run' = [run EXCEPT !.pc = "variant", !.at = 1, !.known = LoadManifest]
       \/ /\ tree' \in IF tree = NoTree THEN {NoTree, Tree("cloning")} ELSE {tree}
          /\ Abort
    /\ UNCHANGED <<pinned, build, staging, manifest, builds>>

\* The prerequisites of the combination are looked at although only it was asked for.
Probed == run.want \union
          IF "openvino_vulkan" \in run.want THEN {"openvino", "vulkan"} ELSE {}

Prerequisites ==
    CASE Current = "cpu"                    -> {TRUE}
      [] Current \in {"openvino", "vulkan"} -> BOOLEAN
      [] OTHER                              -> {{"openvino", "vulkan"} \subseteq run.ready}

Following(r) == [r EXCEPT !.pc = "variant", !.at = @ + 1]

Built(r)  == Following([r EXCEPT !.results = @ \union {Current}, !.ready = @ \union {Current}])
Failed(r) == Following([r EXCEPT !.errors = @ \union {Current}])

StillBuilt == ~run.force /\ Current \in run.known.backends /\ HasExecutable(Current)

Considered == BuildAt("variant") /\ run.at <= 4

SkipVariant ==
    /\ Considered /\ Current \notin Probed
    /\ run' = Following(run)
    /\ UNCHANGED <<pinned, tree, build, staging, manifest, builds>>

LacksPrerequisite ==
    /\ Considered /\ Current \in Probed /\ FALSE \in Prerequisites
    /\ run' = Failed(run)
    /\ UNCHANGED <<pinned, tree, build, staging, manifest, builds>>

\* The flags of a variant are the same in every build of a release, but for the path of
\* OpenVINO, which is left out of the comparison.
ReuseBuild ==
    /\ Considered /\ Current \in Probed /\ TRUE \in Prerequisites
    /\ IF Current \notin run.want
       THEN run' = Following([run EXCEPT !.ready = @ \union {Current}])
       ELSE StillBuilt /\ run' = Built(run)
    /\ UNCHANGED <<pinned, tree, build, staging, manifest, builds>>

\* What an interrupted build left in the staging directory is removed first.
Configure ==
    /\ Considered /\ Current \in run.want /\ TRUE \in Prerequisites /\ ~StillBuilt
    /\ staging' = [staging EXCEPT ![Current] = Tree("partial")]
    /\ BuildGoes("compile")
    /\ UNCHANGED <<pinned, tree, build, manifest, builds>>

\* A failure, a timeout or a missing executable removes the staging directory.
CompileFails ==
    /\ BuildAt("compile")
    /\ staging' = [staging EXCEPT ![Current] = NoTree]
    /\ run' = Failed(run)
    /\ UNCHANGED <<pinned, tree, build, manifest, builds>>

Compile ==
    /\ BuildAt("compile")
    /\ staging' = [staging EXCEPT ![Current] = Tree("whole")]
    /\ BuildGoes("remove")
    /\ UNCHANGED <<pinned, tree, build, manifest, builds>>

\* The build before is removed; a file in use makes that fail half-way, and ends the command.
RemoveOld ==
    /\ BuildAt("remove")
    /\ build' = [build EXCEPT ![Current] = NoTree]
    /\ BuildGoes("replace")
    /\ UNCHANGED <<pinned, tree, staging, manifest, builds>>

Damaged(v) == IF build[v].state = "whole" THEN [build[v] EXCEPT !.state = "damaged"] ELSE build[v]

RemoveOldFails ==
    /\ BuildAt("remove") /\ build[Current] # NoTree
    /\ build' = [build EXCEPT ![Current] = Damaged(Current)]
    /\ staging' = [staging EXCEPT ![Current] = NoTree]
    /\ Abort
    /\ UNCHANGED <<pinned, tree, manifest, builds>>

Replace ==
    /\ BuildAt("replace")
    /\ build' = [build EXCEPT ![Current] = staging[Current]]
    /\ staging' = [staging EXCEPT ![Current] = NoTree]
    /\ run' = Built(run)
    /\ UNCHANGED <<pinned, tree, manifest, builds>>

NewManifest ==
    [of |-> pinned,
     backends |-> (run.known.backends \ run.want) \union run.results,
     errors |-> (run.known.errors \ run.want) \union run.errors]

\* The manifest is replaced as a whole, at the end.
WriteManifest ==
    /\ BuildAt("variant") /\ run.at > 4
    /\ manifest' = NewManifest
    /\ run' = [run EXCEPT !.pc = "done"]
    /\ UNCHANGED <<pinned, tree, build, staging, builds>>

Return ==
    /\ BuildAt("done")
    /\ run' = NoRun
    /\ UNCHANGED <<pinned, tree, build, staging, manifest, builds>>

\* The command dies, in the middle of what it is doing.
CrashBuild ==
    /\ run.pc \notin {"idle", "done"}
    /\ run' = NoRun
    /\ IF BuildAt("remove") THEN build' = [build EXCEPT ![Current] = Damaged(Current)] ELSE UNCHANGED build
    /\ UNCHANGED <<pinned, tree, staging, manifest, builds>>

----------------------------------------------------------------------------
(* native clean, and another release of utteran. *)

\* clean of one variant: the directory, then its entry.
CleanVariant(v) ==
    /\ BuildAt("idle")
    /\ \/ /\ build' = [build EXCEPT ![v] = NoTree]
          /\ manifest' = IF v \in LoadManifest.backends
                         THEN [manifest EXCEPT !.backends = @ \ {v}] ELSE manifest
       \/ build' = [build EXCEPT ![v] = Damaged(v)] /\ UNCHANGED manifest
    /\ UNCHANGED <<pinned, tree, staging, run, builds>>

\* clean of everything, in an order of the file system; the manifest may survive.
CleanAll ==
    /\ BuildAt("idle")
    /\ \/ /\ tree' = NoTree /\ manifest' = NoManifest
          /\ build' = [v \in Backends |-> NoTree] /\ staging' = [v \in Backends |-> NoTree]
       \/ /\ \E S \in SUBSET Backends :
               build' = [v \in Backends |-> IF v \in S THEN NoTree ELSE build[v]]
          /\ UNCHANGED <<tree, manifest, staging>>
    /\ UNCHANGED <<pinned, run, builds>>

\* Only newer ones: after a build that died, an older release would find its own manifest
\* beside the directories of the newer one.
Install ==
    /\ BuildAt("idle")
    /\ pinned' \in {r \in Releases : r > pinned}
    /\ UNCHANGED <<tree, build, staging, manifest, run, builds>>

----------------------------------------------------------------------------
BuildInit ==
    /\ pinned \in Releases
    /\ tree = NoTree
    /\ build = [v \in Backends |-> NoTree]
    /\ staging = [v \in Backends |-> NoTree]
    /\ manifest = NoManifest
    /\ run = NoRun
    /\ builds = 0

BuildNext ==
    \/ StartBuild
    \/ EnsureSource
    \/ SkipVariant
    \/ LacksPrerequisite
    \/ ReuseBuild
    \/ Configure
    \/ CompileFails
    \/ Compile
    \/ RemoveOld
    \/ RemoveOldFails
    \/ Replace
    \/ WriteManifest
    \/ Return
    \/ CrashBuild
    \/ \E v \in Backends : CleanVariant(v)
    \/ CleanAll
    \/ Install

BuildSpec == BuildInit /\ [][BuildNext]_buildVars

----------------------------------------------------------------------------
(* Properties. *)

\* What the recogniser may run was compiled to the end, from the source the installed release
\* pins, whichever builds failed, died or belong to another release (native.py:342, 650).
OnlyCurrentRuns ==
    \A v \in Runnable : build[v].of = pinned /\ build[v].state # "partial"

\* A build that returns says of every variant it was asked for either that it is built or why
\* not, and leaves what is said of the others (docs/utteran_Phase3a_指示書.md:408).
BuildAnswersAll ==
    BuildAt("done") =>
      /\ \A v \in run.want : (v \in manifest.backends) # (v \in manifest.errors)
      /\ manifest.backends \ run.want = run.known.backends \ run.want

\* What may be run was built to the end from the pinned source, and a build answers for all it
\* was asked for.
RunnableIsCurrent == OnlyCurrentRuns /\ BuildAnswersAll
=============================================================================
