------------------------------- MODULE Batch -------------------------------
(***************************************************************************)
(* A folder processed file by file with shared backends: run_batch          *)
(* (utteran/batch.py), BackendPool and the memory guard (pipeline.py,       *)
(* memory.py), and the backends as the pool sees them (diarization/         *)
(* pyannote.py, asr/faster_whisper.py, asr/whisper_cpp.py).                 *)
(*                                                                         *)
(* The settings are those of one batch.  What the machine does is chosen    *)
(* anew at every call: an accelerator can be used or not, so much memory is *)
(* free, a model loads or not, an inference succeeds, runs out of memory or *)
(* fails.  Memory is counted in GiB.                                        *)
(***************************************************************************)
EXTENDS Integers, Sequences, FiniteSetsExt, Functions

CONSTANTS
    Settings,  \* [asr, device, variant, built, diar, guard, dry]: the settings of a batch
    Minutes,   \* the length of each selected file
    Readings   \* amounts of free memory a probe may read, and Unknown

Variants == <<"openvino_vulkan", "vulkan", "openvino", "cpu">>

\* Only what there is can be built.
ASSUME BatchAssumption ==
    /\ \A cfg \in Settings : cfg.built \subseteq {Variants[i] : i \in 1..4}
    /\ Minutes \in Seq(Nat)

VARIABLES
    batch,     \* settings, position, how it goes on
    file,      \* what has been done for the file at hand
    pool,      \* BackendPool
    items      \* the results

batchVars == <<batch, file, pool, items>>

Unknown == -1
Nowhere == "none"

CUDA == "cuda:0"
XPU  == "xpu:0"
Accelerators == {CUDA, XPU}

----------------------------------------------------------------------------
(* The memory guard. *)

\* DEFAULT_MODELS for pyannote, rounded: GiB at rest, and further GiB in 1000 minutes.
PeakModel(d) ==
    CASE d = CUDA -> [base |-> 7, grows |-> 0]
      [] d = XPU  -> [base |-> 5, grows |-> 9]
      [] OTHER    -> [base |-> 2, grows |-> 6]

EstimateOf(d, minutes) == PeakModel(d).base + ((minutes * PeakModel(d).grows) \div 1000)

\* DEFAULT_SAFETY_MARGINS, in percent.
SafetyMargin(d) == CASE d = CUDA -> 10 [] d = XPU -> 30 [] OTHER -> 20

\* CUDA has memory of its own; an XPU shares that of the system, and both readings are needed.
CalculateBudget(d, read) ==
    LET raw == CASE d = CUDA -> read.own
                 [] d = XPU  -> IF Unknown \in {read.system, read.own} THEN Unknown
                                ELSE Min({read.system, read.own})
                 [] OTHER    -> read.system
    IN  IF raw = Unknown THEN Unknown ELSE (raw * (100 - SafetyMargin(d))) \div 100

AssessMemory(d, minutes, usable) ==
    CASE usable = Unknown                                     -> "unknown"
      [] usable # Unknown /\ PeakModel(d).base > usable       -> "impossible"
      [] OTHER -> IF 10 * EstimateOf(d, minutes) >= 9 * usable THEN "danger" ELSE "safe"

Assessed(d, minutes, read) == AssessMemory(d, minutes, CalculateBudget(d, read))

\* Only an automatic choice retreats, and only to a CPU that is safe.
Retreats(cfg, d, minutes, read) ==
    /\ cfg.guard = "auto" /\ cfg.diar = "auto" /\ d \in Accelerators
    /\ Assessed(d, minutes, read) \in {"danger", "impossible"}
    /\ Assessed("cpu", minutes, read) = "safe"

\* The device of plan_diarization_memory, and the status of that device.
MemoryPlan(cfg, d, minutes, read) ==
    IF cfg.guard = "off" THEN [device |-> d, status |-> "not assessed"]
    ELSE IF Retreats(cfg, d, minutes, read)
         THEN [device |-> "cpu", status |-> Assessed("cpu", minutes, read)]
         ELSE [device |-> d, status |-> Assessed(d, minutes, read)]

\* _select_device: a minimal kernel shows whether the accelerator can be used now; CUDA
\* is looked at before XPU.
Selectable == Accelerators \cup {"cpu"}

\* _resolve_diarization_device: auto is probed.
Resolved(cfg) == IF cfg.diar = "auto" THEN Selectable ELSE {cfg.diar}

\* _report_memory_decision warns of every other verdict and goes on.
Refuses(plan) == plan.status = "impossible"

----------------------------------------------------------------------------
(* The files of the batch. *)

Cfg == batch.cfg
BatchAt(pc) == batch.pc = pc
BatchGoes(pc) == batch' = [batch EXCEPT !.pc = pc]

NoFile == [ran |-> FALSE, decided |-> Nowhere, left |-> {}, text |-> Nowhere]

\* _report_file_done and the next file.
ReportFile(status) ==
    /\ items' = Append(items, [status |-> status, text |-> file.text])
    /\ batch' = [batch EXCEPT !.pc = "file", !.at = @ + 1]
    /\ file' = NoFile

\* Whatever goes wrong with a file is the result of that file.
FileFails == ReportFile("failed")

\* run_pipeline opens the job and takes its lock; the sound may be reused.
StartFile ==
    /\ BatchAt("file") /\ batch.at <= Len(Minutes)
    /\ IF Cfg.dry THEN ReportFile("skipped")
       ELSE \/ FileFails
            \/ \E ran \in BOOLEAN :
                 file' = [NoFile EXCEPT !.ran = ran] /\ BatchGoes("asr") /\ UNCHANGED items
    /\ UNCHANGED pool

\* A stage that an earlier run completed is not repeated.
SkipStage ==
    /\ \/ BatchAt("asr") /\ BatchGoes("diarization")
       \/ BatchAt("diarization") /\ BatchGoes("export")
    /\ UNCHANGED <<file, pool, items>>

Export ==
    /\ BatchAt("export")
    /\ \/ ReportFile(IF file.ran THEN "success" ELSE "skipped")
       \/ FileFails
    /\ UNCHANGED pool

\* What a backend remembers after load, and after unload.
LoadedAsr(d) == [runs |-> d, fell |-> FALSE]
NoAsr  == LoadedAsr(Nowhere)
Closed == [asr |-> NoAsr, asrKey |-> FALSE, diar |-> Nowhere, diarKey |-> Nowhere]

BatchEnds ==
    \/ BatchAt("file") /\ batch.at > Len(Minutes) /\ BatchGoes("done")
    \/ batch.pc # "done" /\ batch' = [batch EXCEPT !.pc = "done", !.raised = TRUE]

\* The end of the loop closes the pool, also when a cancel or the keyboard ended it.
FinishBatch ==
    /\ BatchEnds
    /\ pool' = Closed
    /\ UNCHANGED <<file, items>>

----------------------------------------------------------------------------
(* Speech recognition.  A loaded whisper.cpp is the variant it runs and     *)
(* whether it already fell back; a loaded faster-whisper is its device.     *)

\* _choose_variant prefers plain Vulkan.
ChosenVariant(built) ==
    IF "vulkan" \in built THEN "vulkan"
    ELSE IF "openvino_vulkan" \in built THEN "openvino_vulkan"
    ELSE IF "openvino" \in built THEN "openvino" ELSE "cpu"

RequestedVariant(cfg) ==
    LET wanted == IF cfg.variant # "auto" THEN cfg.variant ELSE cfg.device
    IN  IF wanted = "auto" THEN ChosenVariant(cfg.built) ELSE wanted

\* What load may end with; faster-whisper tries the CPU after CUDA, if it chose CUDA itself.
Loadable(cfg) ==
    IF cfg.asr = "whisper-cpp" THEN {RequestedVariant(cfg)} \intersect cfg.built
    ELSE IF cfg.device = "auto" THEN {"cuda:0", "cpu"} ELSE {cfg.device}

\* The batch has one configuration, so a loaded backend always has the right key.
LoadAsr ==
    /\ BatchAt("asr")
    /\ IF pool.asrKey THEN UNCHANGED pool
       ELSE \E d \in Loadable(Cfg) :
              pool' = [pool EXCEPT !.asr = LoadedAsr(d), !.asrKey = TRUE]
    /\ BatchGoes("transcribe")
    /\ file' = [file EXCEPT !.ran = TRUE]
    /\ UNCHANGED items

\* A model that is missing or does not load leaves a backend without a key.
LoadAsrFails == BatchAt("asr") /\ ~pool.asrKey /\ FileFails /\ UNCHANGED pool

Transcribed(d) ==
    /\ file' = [file EXCEPT !.text = d]
    /\ BatchGoes("diarization")
    /\ UNCHANGED items

\* faster-whisper reads its segments to the end; it never falls back, out of memory or not.
TranscribeFaster ==
    /\ BatchAt("transcribe") /\ Cfg.asr = "faster-whisper"
    /\ Transcribed(pool.asr.runs) \/ FileFails
    /\ UNCHANGED pool

Transcribe ==
    /\ BatchAt("transcribe") /\ Cfg.asr = "whisper-cpp"
    /\ Transcribed(pool.asr.runs)
    /\ UNCHANGED pool

\* whisper-cli fails, with another diagnostic or with nothing left to fall back to.
TranscribeFails == BatchAt("transcribe") /\ Cfg.asr = "whisper-cpp" /\ FileFails /\ UNCHANGED pool

\* _fallback_variant: the variants after the one that failed, once and never the CPU.
FallbackVariants(cfg, asr) ==
    IF cfg.variant # "auto" \/ asr.fell THEN {}
    ELSE {i \in 1..3 : Variants[i] \in cfg.built /\ \E j \in 1..3 : Variants[j] = asr.runs /\ i > j}

\* The GPU could not be initialised: the next variant that is built is tried at once.
FallBack ==
    /\ BatchAt("transcribe") /\ Cfg.asr = "whisper-cpp"
    /\ FallbackVariants(Cfg, pool.asr) # {}
    /\ LET next == Variants[Min(FallbackVariants(Cfg, pool.asr))]
       IN  /\ pool' = [pool EXCEPT !.asr = [runs |-> next, fell |-> TRUE]]
           /\ Transcribed(next) \/ FileFails

----------------------------------------------------------------------------
(* Speaker diarization.  A backend is the device its pipeline is loaded on. *)

NotLoaded == "not loaded"

\* The check before the stage, the probe, the plan and what it says.
PlanDiarization ==
    /\ BatchAt("diarization")
    /\ \/ FileFails
       \/ \E d \in Resolved(Cfg), s, own \in Readings :
            LET plan == MemoryPlan(Cfg, d, Minutes[batch.at], [system |-> s, own |-> own])
            IN  IF Refuses(plan) THEN FileFails
                ELSE /\ file' = [file EXCEPT !.ran = TRUE, !.decided = plan.device]
                     /\ BatchGoes("load") /\ UNCHANGED items
    /\ UNCHANGED pool

\* Mutant: a loaded backend is the right one.
ReusableIfLoaded(d) == pool.diar # Nowhere /\ pool.diarKey # Nowhere

\* diarization: the key and the backend are there.
ReusableBackend(d) == pool.diar # Nowhere /\ pool.diarKey = d

ReuseBackend ==
    /\ BatchAt("load") /\ ReusableBackend(file.decided)
    /\ BatchGoes("diarize")
    /\ UNCHANGED <<file, pool, items>>

LoadDiarization ==
    /\ BatchAt("load") /\ ~ReusableBackend(file.decided)
    /\ pool' = [pool EXCEPT !.diar = file.decided, !.diarKey = file.decided]
    /\ BatchGoes("diarize")
    /\ UNCHANGED <<file, items>>

\* VramExhaustedError: the accelerator may be left once, if it was not asked for.
MayRetry ==
    /\ Cfg.guard \in {"auto", "off"} /\ Cfg.diar = "auto" /\ file.decided \in Accelerators

AttemptFails(oom) ==
    IF oom /\ MayRetry
    THEN /\ file' = [file EXCEPT !.left = @ \union {file.decided}, !.decided = "cpu"]
         /\ BatchGoes("reset") /\ UNCHANGED items
    ELSE FileFails

\* The old pipeline is unloaded and the new one does not load; the key is that of the old.
LoadDiarizationFails ==
    /\ BatchAt("load") /\ ~ReusableBackend(file.decided)
    /\ pool' = [pool EXCEPT !.diar = NotLoaded]
    /\ \E oom \in BOOLEAN : AttemptFails(oom)

\* reset_diarization, and the second attempt on the CPU.
ResetDiarization ==
    /\ BatchAt("reset")
    /\ pool' = [pool EXCEPT !.diar = Nowhere, !.diarKey = Nowhere]
    /\ BatchGoes("load")
    /\ UNCHANGED <<file, items>>

Diarize ==
    /\ BatchAt("diarize") /\ pool.diar # NotLoaded
    /\ BatchGoes("export")
    /\ UNCHANGED <<file, pool, items>>

\* A backend that is not loaded says so.
DiarizeFails ==
    /\ BatchAt("diarize")
    /\ UNCHANGED pool
    /\ \E oom \in BOOLEAN : (oom => pool.diar # NotLoaded) /\ AttemptFails(oom)

----------------------------------------------------------------------------
BatchInit ==
    /\ batch \in [cfg : Settings, pc : {"file"}, at : {1}, raised : {FALSE}]
    /\ file = NoFile
    /\ pool = Closed
    /\ items = <<>>

BatchNext ==
    \/ StartFile
    \/ SkipStage
    \/ LoadAsr
    \/ LoadAsrFails
    \/ TranscribeFaster
    \/ Transcribe
    \/ TranscribeFails
    \/ FallBack
    \/ PlanDiarization
    \/ ReuseBackend
    \/ LoadDiarization
    \/ LoadDiarizationFails
    \/ ResetDiarization
    \/ Diarize
    \/ DiarizeFails
    \/ Export
    \/ FinishBatch

BatchSpec == BatchInit /\ [][BatchNext]_batchVars

----------------------------------------------------------------------------
(* Properties. *)

\* The failure of a file never ends the batch: it reports every file unless the user
\* ended it, and it keeps no model loaded whichever way it ends
\* (docs/utteran_設計書.md:593, batch.py:209).
BatchIsComplete ==
    BatchAt("done") => /\ pool = Closed
                       /\ batch.raised \/ Len(items) = Len(Minutes)

\* The speakers are separated on the device that was decided for this file, whatever
\* earlier files left in the pool; a device the user named is never left, and one chosen
\* automatically is left once for the CPU (pipeline.py:95, 690).
DiarizesWhereDecided ==
    BatchAt("diarize") =>
        /\ pool.diar \in {NotLoaded, file.decided}
        /\ Cfg.diar # "auto" => file.decided = Cfg.diar
        /\ file.left # {} => file.decided = "cpu" /\ \E d \in Accelerators : file.left = {d}

\* A transcription moves to another variant of whisper.cpp at most once in a batch, to one
\* further down and never to the CPU, and not at all if the variant was named
\* (docs/utteran_Phase3c_指示書.md:313, whisper_cpp.py:244).
FallsBackOnce ==
    LET Order(v) == CHOOSE i \in 1..4 : Variants[i] = v
        done    == {i \in DOMAIN items : items[i].text # Nowhere}
    IN  Cfg.asr = "whisper-cpp" =>
          /\ Cardinality({items[i].text : i \in done}) <= 2
          /\ \A i, j \in done : i <= j => Order(items[i].text) <= Order(items[j].text)
          /\ \A i \in done : /\ Cfg.variant # "auto" => items[i].text = Cfg.variant
                             /\ items[i].text = "cpu" => items[1].text \in {"cpu", Nowhere}

\* A file that fails costs the others nothing, speakers are separated on the device decided for
\* the file, and the recogniser falls back once.
BatchIsSound == BatchIsComplete /\ DiarizesWhereDecided /\ FallsBackOnce
=============================================================================
