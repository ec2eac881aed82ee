------------------------------ MODULE Devices ------------------------------
(***************************************************************************)
(* Device detection (src/src/utteran/devices.py): every native runtime is  *)
(* probed by a child process of its own that is killed when it takes too   *)
(* long; a detection whose probes all completed is kept in a cache under   *)
(* the fingerprint of the machine, and the automatic choice of backends    *)
(* is derived anew from the (cached or fresh) reports, the CUDA libraries  *)
(* and the native builds that are there now.                               *)
(*                                                                         *)
(* The machine moves on by itself: its drivers and packages change (a new  *)
(* fingerprint), CUDA libraries and native builds come and go (no part of  *)
(* the fingerprint).  It never returns to an earlier fingerprint.          *)
(***************************************************************************)
EXTENDS Integers, Sequences

CONSTANTS
    Callers,        \* processes that detect devices
    Machine,        \* fingerprint |-> what its runtimes can do
    Found,          \* cache files that may be there at first
    Asked,          \* [device, index, compute] explicit or automatic requests
    Surroundings,   \* [libraries, native] the machine may have
    MaxChanges,     \* bound on the changes of the machine
    MaxFailures     \* bound on probes that fail, hang or hide a failure

VARIABLES
    here,       \* the machine's fingerprint now
    around,     \* its CUDA libraries and native builds now
    cache,      \* the probe cache file, or NoCache
    caller,     \* what each process is doing
    answer,     \* what was chosen last, unless a detection began since
    changes, failures

devices == <<here, around, cache, caller, answer, changes, failures>>

NoCache == [print |-> 0]
Refused == [backend |-> "refused"]
Idle    == [pc |-> "idle"]
NoAnswer == [asr |-> Refused, diarization |-> <<"none", 0>>]

(***************************************************************************)
(* Reports.  A CUDA device is the set of its compute types; one that       *)
(* could not be probed has none.  "hidden" is kept for the properties: the *)
(* kinds of probe that told a failure of the runtime as a completed result *)
(* (there is nothing to use).                                              *)
(***************************************************************************)
EmptyReport == [available |-> FALSE, cpu |-> {}, cuda |-> <<>>,
                torchCuda |-> {}, torchXpu |-> {}, openvino |-> {},
                vulkan |-> FALSE, hidden |-> {}]

TrueReport(m) ==
    [available |-> "ctranslate2" \in m.installed,
     cpu       |-> IF "ctranslate2" \in m.installed THEN m.cpu ELSE {},
     cuda      |-> IF "ctranslate2" \in m.installed THEN m.cuda ELSE <<>>,
     torchCuda |-> IF "torch" \in m.installed THEN m.torchCuda ELSE {},
     torchXpu  |-> IF "torch" \in m.installed THEN m.torchXpu ELSE {},
     openvino  |-> IF "openvino" \in m.installed THEN m.openvino ELSE {},
     vulkan    |-> m.vulkan, hidden |-> {}]

\* Probes that catch a failure of their runtime and report "not usable".
Hides == {"torch_cuda", "torch_xpu", "vulkan"}

\* The report when probes of these kinds answered that there is nothing.
Without(r, kinds) ==
    [available |-> r.available, cpu |-> r.cpu, cuda |-> r.cuda, openvino |-> r.openvino,
     torchCuda |-> IF "torch_cuda" \in kinds THEN {} ELSE r.torchCuda,
     torchXpu  |-> IF "torch_xpu" \in kinds THEN {} ELSE r.torchXpu,
     vulkan    |-> r.vulkan /\ "vulkan" \notin kinds, hidden |-> kinds]

\* The package whose runtime is probed; the driver's metadata and Vulkan are in none.
Package(probe) ==
    IF probe[1] \in {"cpu", "count", "cuda"} THEN {"ctranslate2"}
    ELSE IF probe[1] \in {"torch_cuda", "torch_xpu"} THEN {"torch"}
    ELSE {probe[1]} \ {"metadata", "vulkan"}

\* What the probe adds to the report when its child answers.
Completed(probe, m, r) ==
    LET Kind == probe[1] IN
    [available |-> r.available \/ Kind \in {"cpu", "count"},
     cpu       |-> IF Kind = "cpu" THEN m.cpu ELSE r.cpu,
     cuda      |-> IF Kind = "count" THEN [i \in 1 .. Len(m.cuda) |-> {}]
                   ELSE IF Kind = "cuda" /\ probe[2] \in DOMAIN m.cuda
                   THEN [r.cuda EXCEPT ![probe[2]] = m.cuda[probe[2]]]
                   ELSE r.cuda,
     torchCuda |-> IF Kind = "torch_cuda" THEN m.torchCuda ELSE r.torchCuda,
     torchXpu  |-> IF Kind = "torch_xpu" THEN m.torchXpu ELSE r.torchXpu,
     openvino  |-> IF Kind = "openvino" THEN m.openvino ELSE r.openvino,
     vulkan    |-> IF Kind = "vulkan" THEN m.vulkan ELSE r.vulkan,
     hidden    |-> r.hidden \ {Kind}]

RuntimeProbes == <<<<"cpu", 0>>, <<"count", 0>>, <<"torch_cuda", 0>>, <<"torch_xpu", 0>>,
                   <<"openvino", 0>>, <<"onnxruntime", 0>>, <<"vulkan", 0>>>>
Ctranslate2Probes == <<<<"cpu", 0>>, <<"count", 0>>>>

\* The count decides which further probes are run, right after it.
AfterCount(report) ==
    IF report.cuda = <<>> THEN <<>>
    ELSE <<<<"metadata", 0>>>> \o [i \in 1 .. Len(report.cuda) |-> <<"cuda", i>>]

(***************************************************************************)
(* What the constants may be.  A cache file that is there at first was     *)
(* written by such a detection, on this machine or on an earlier one (0).  *)
(***************************************************************************)
Probes == {"cpu", "count", "metadata", "cuda", "torch_cuda", "torch_xpu", "openvino",
           "onnxruntime", "vulkan"} \X Nat

Machines == [installed : SUBSET STRING, cpu : SUBSET STRING, cuda : Seq(SUBSET STRING),
             torchCuda : SUBSET Nat, torchXpu : SUBSET Nat, openvino : SUBSET STRING,
             vulkan : BOOLEAN]
Reports  == [available : BOOLEAN, cpu : SUBSET STRING, cuda : Seq(SUBSET STRING),
             torchCuda : SUBSET Nat, torchXpu : SUBSET Nat, openvino : SUBSET STRING,
             vulkan : BOOLEAN, hidden : SUBSET Hides]
CacheFiles == [print : Nat, report : Reports, failed : SUBSET Probes]

\* The report claims no more than there is.
Claims(r, t) ==
    /\ r.available => t.available
    /\ r.cpu \subseteq t.cpu
    /\ Len(r.cuda) <= Len(t.cuda)
    /\ \A i \in 1 .. Len(r.cuda) : r.cuda[i] \subseteq t.cuda[i]
    /\ r.torchCuda \subseteq t.torchCuda /\ r.torchXpu \subseteq t.torchXpu
    /\ r.openvino \subseteq t.openvino
    /\ r.vulkan => t.vulkan

\* An entry of the fingerprint p can be believed, but for what its probes hid.
Credible(entry, p) ==
    /\ entry \in CacheFiles /\ entry.print <= p
    /\ entry.print = p /\ entry.failed = {} =>
         entry.report = Without(TrueReport(Machine[p]), entry.report.hidden)

ASSUME MachineAssumption == Machine \in Seq(Machines) /\ Machine # <<>>
ASSUME FoundAssumption   == \A f \in Found : f = NoCache \/ Credible(f, 1)
ASSUME AskedAssumption   ==
    \A r \in Asked : r.device \in {"auto", "cpu", "cuda"} /\ (r.device = "cpu" => r.index = 1)

(***************************************************************************)
(* The choice.                                                             *)
(***************************************************************************)
Preference(device) ==
    IF device = "cuda" THEN <<"float16", "int8_float16", "int8", "float32", "int8_float32">>
                       ELSE <<"int8", "int8_float32", "float32", "int16">>

Least(S) == CHOOSE i \in S : \A j \in S : i <= j

\* The first of the order that is in S.
Among(order, S) == {i \in 1 .. Len(order) : order[i] \in S}
FirstOf(order, S) == order[Least(Among(order, S))]

ChooseComputeType(requested, supported, device) ==
    LET wanted == IF requested = "auto" THEN Preference(device) ELSE <<requested>>
    IN IF Among(wanted, supported) = {} THEN "none" ELSE FirstOf(wanted, supported)

FasterWhisper(device, index, compute) ==
    IF compute = "none" THEN Refused
    ELSE [backend |-> "faster-whisper", device |-> device, index |-> index, compute |-> compute]

UsableCuda(report) == {i \in DOMAIN report.cuda : report.cuda[i] # {}}
Automatic == [device |-> "auto", index |-> 1, compute |-> "auto"]

\* request.device: "auto", "cpu" or "cuda"; request.index counts from one.
SelectFasterWhisperDevice(request, report) ==
    LET cuda == UsableCuda(report) IN
    IF ~report.available THEN Refused
    ELSE IF request.device = "auto" /\ cuda # {}
    THEN FasterWhisper("cuda", Least(cuda),
             ChooseComputeType(request.compute, report.cuda[Least(cuda)], "cuda"))
    ELSE IF request.device \in {"auto", "cpu"}
    THEN FasterWhisper("cpu", 1, ChooseComputeType(request.compute, report.cpu, "cpu"))
    ELSE IF request.index \in cuda
    THEN FasterWhisper("cuda", request.index,
             ChooseComputeType(request.compute, report.cuda[request.index], "cuda"))
    ELSE Refused

\* Without cuDNN and cuBLAS no CUDA device is usable, whatever its probe said.
ApplyCudaLibraryStatus(report, libraries) ==
    IF libraries THEN report
    ELSE [report EXCEPT !.cuda = [i \in DOMAIN report.cuda |-> {}]]

\* What is looked up at every choice, and kept in no cache.
LibrariesNow == around.libraries
NativeNow == around.native

WhisperCpp(variant) == [backend |-> "whisper-cpp", device |-> variant, index |-> 1,
                        compute |-> "ggml"]
PlainCpu == [backend |-> "faster-whisper", device |-> "cpu", index |-> 1, compute |-> "int8"]

VariantOrder == <<"vulkan", "openvino_vulkan", "openvino">>

AutoAsr(report, native) ==
    LET variants == {v \in native : IF v = "vulkan" THEN report.vulkan
                                    ELSE "GPU" \in report.openvino}
        cuda == SelectFasterWhisperDevice(Automatic, report)
    IN IF UsableCuda(report) # {} THEN (IF cuda = Refused THEN PlainCpu ELSE cuda)
       ELSE IF Among(VariantOrder, variants) # {} THEN WhisperCpp(FirstOf(VariantOrder, variants))
       ELSE PlainCpu

AutoDiarization(report) ==
    IF report.torchCuda # {} THEN <<"cuda", Least(report.torchCuda)>>
    ELSE IF report.torchXpu # {} THEN <<"xpu", Least(report.torchXpu)>>
    ELSE <<"cpu", 0>>

AutoSelection(report, libraries, native) ==
    [asr |-> AutoAsr(ApplyCudaLibraryStatus(report, libraries), native),
     diarization |-> AutoDiarization(report)]

(***************************************************************************)
(* The cache file: written beside and put in place in one step, so that    *)
(* two writers leave one of their files.                                   *)
(***************************************************************************)
Cacheable(entry) == entry.failed = {}

LoadProbeCache(print) ==
    IF cache.print = print /\ Cacheable(cache) THEN cache ELSE NoCache

ClearProbeCache == cache' \in {cache, NoCache}    \* an OSError leaves the file

(***************************************************************************)
(* Actions.  The fingerprint is taken before the cache is read and the     *)
(* probes are run; the file is saved under that fingerprint.               *)
(***************************************************************************)
DevicesInit ==
    /\ here = 1 /\ around \in Surroundings
    /\ cache \in Found
    /\ caller = [c \in Callers |-> Idle]
    /\ answer = NoAnswer
    /\ changes = 0 /\ failures = 0

Moves(c, detection) == caller' = [caller EXCEPT ![c] = detection]

\* "steady" is kept for the properties: nothing changed since the fingerprint.
Begin(c, how, pc, probes, request) ==
    /\ Moves(c, [pc |-> pc, print |-> here, left |-> probes, request |-> request,
                 report |-> EmptyReport, failed |-> {}, how |-> how, steady |-> TRUE])
    /\ answer' = NoAnswer

\* detect_devices: the fingerprint, then the refresh that throws the cache away.
Detect(c, refresh) ==
    /\ caller[c] = Idle
    /\ Begin(c, "fresh", IF refresh THEN "probing" ELSE "loading", RuntimeProbes, Automatic)
    /\ IF refresh THEN ClearProbeCache ELSE UNCHANGED cache
    /\ UNCHANGED <<here, around, changes, failures>>

\* FasterWhisperBackend.load: its own probes, never the cache.
Resolve(c, request) ==
    /\ caller[c] = Idle
    /\ Begin(c, "resolved", "probing", Ctranslate2Probes, request)
    /\ UNCHANGED <<here, around, cache, changes, failures>>

LoadCache(c) ==
    /\ caller[c].pc = "loading"
    /\ LET entry == LoadProbeCache(caller[c].print) IN
       Moves(c, IF entry = NoCache THEN [caller[c] EXCEPT !.pc = "probing"]
                ELSE [caller[c] EXCEPT !.pc = "selecting", !.how = "cached",
                                       !.report = entry.report, !.failed = entry.failed])
    /\ UNCHANGED <<here, around, cache, answer, changes, failures>>

Probing(c) == caller[c].pc = "probing" /\ caller[c].left # <<>>
Present(probe) == Package(probe) \subseteq Machine[here].installed

\* No child is run for a package that is not there: its probe has completed.
ProbeUnavailable(c) ==
    /\ Probing(c) /\ ~Present(Head(caller[c].left))
    /\ Moves(c, [caller[c] EXCEPT !.left = Tail(@)])
    /\ UNCHANGED <<here, around, cache, answer, changes, failures>>

\* The child answered with a JSON object.
ProbeCompletes(c) ==
    /\ Probing(c) /\ Present(Head(caller[c].left))
    /\ LET probe  == Head(caller[c].left)
           report == Completed(probe, Machine[here], caller[c].report)
           more   == IF probe[1] = "count" THEN AfterCount(report) ELSE <<>>
       IN Moves(c, [caller[c] EXCEPT !.report = report, !.left = more \o Tail(@)])
    /\ UNCHANGED <<here, around, cache, answer, changes, failures>>

\* A probe that does not answer, or answers that there is nothing.
Fails(c) ==
    /\ Probing(c) /\ Present(Head(caller[c].left))
    /\ failures < MaxFailures
    /\ failures' = failures + 1
    /\ UNCHANGED <<here, around, cache, answer, changes>>

\* It could not be started, exited with an error, sent no JSON object, or was killed
\* with its children when its time was over.
ProbeFails(c) ==
    /\ Fails(c)
    /\ Moves(c, [caller[c] EXCEPT !.failed = @ \cup {Head(caller[c].left)}, !.left = Tail(@)])

\* The runtime failed and the probe answers that there is nothing to use.
ProbeHidesFailure(c) ==
    /\ Fails(c) /\ Head(caller[c].left)[1] \in Hides
    /\ LET r == caller[c].report IN
       Moves(c, [caller[c] EXCEPT !.left = Tail(@),
                     !.report = Without(r, r.hidden \cup {Head(caller[c].left)[1]})])

\* A plausible slip: the fingerprint is taken when the file is written.
SavedUnderTheLatest(c) == here
SavedUnder(c) == caller[c].print

\* The probes are done: only a conclusive detection is saved (the write may fail).
SaveCache(c) ==
    /\ caller[c].pc = "probing" /\ caller[c].left = <<>>
    /\ Moves(c, [caller[c] EXCEPT !.pc = "selecting"])
    /\ LET entry == [print |-> SavedUnder(c), report |-> caller[c].report,
                     failed |-> caller[c].failed]
       IN cache' \in IF caller[c].how = "fresh" /\ Cacheable(entry)
                     THEN {cache, entry} ELSE {cache}
    /\ UNCHANGED <<here, around, answer, changes, failures>>

\* The libraries and the native builds are looked up now, never cached.
Select(c) ==
    /\ caller[c].pc = "selecting"
    /\ LET r == caller[c].report IN
       answer' = IF caller[c].how = "resolved"
           THEN [asr |-> SelectFasterWhisperDevice(caller[c].request,
                             ApplyCudaLibraryStatus(r, LibrariesNow)),
                 diarization |-> <<"none", 0>>]
           ELSE AutoSelection(r, LibrariesNow, NativeNow)
    /\ Moves(c, Idle)
    /\ UNCHANGED <<here, around, cache, changes, failures>>

\* The process is killed; the cache file is whole at every moment.
Killed(c) ==
    /\ caller[c] # Idle
    /\ Moves(c, Idle)
    /\ UNCHANGED <<here, around, cache, answer, changes, failures>>

\* Drivers or packages change, libraries are installed or removed, builds come and go.
MachineChanges ==
    /\ changes < MaxChanges
    /\ changes' = changes + 1
    /\ here' \in {p \in DOMAIN Machine : p >= here} /\ around' \in Surroundings
    /\ <<here', around'>> # <<here, around>>
    /\ caller' = [c \in Callers |-> IF caller[c] = Idle \/ here' = here
                                    THEN caller[c] ELSE [caller[c] EXCEPT !.steady = FALSE]]
    /\ UNCHANGED <<cache, answer, failures>>

DevicesNext ==
    \/ \E c \in Callers :
        \/ \E refresh \in BOOLEAN : Detect(c, refresh)
        \/ \E request \in Asked : Resolve(c, request)
        \/ LoadCache(c) \/ ProbeUnavailable(c) \/ ProbeCompletes(c) \/ ProbeFails(c)
        \/ ProbeHidesFailure(c) \/ SaveCache(c) \/ Select(c) \/ Killed(c)
    \/ MachineChanges

DevicesSpec == DevicesInit /\ [][DevicesNext]_devices

(***************************************************************************)
(* Properties.                                                             *)
(***************************************************************************)
TrueSelection(m, hidden) ==
    AutoSelection(Without(TrueReport(m), hidden), around.libraries, around.native)

Works(chosen, m) ==
    LET r == ApplyCudaLibraryStatus(TrueReport(m), around.libraries) IN
    /\ chosen.asr.backend = "faster-whisper" =>
           \/ chosen.asr = PlainCpu
           \/ chosen.asr.device = "cpu" /\ chosen.asr.compute \in r.cpu
           \/ chosen.asr.device = "cuda" /\ chosen.asr.index \in UsableCuda(r)
                /\ chosen.asr.compute \in r.cuda[chosen.asr.index]
    /\ chosen.asr.backend = "whisper-cpp" =>
           chosen.asr.device \in around.native
           /\ (IF chosen.asr.device = "vulkan" THEN r.vulkan ELSE "GPU" \in r.openvino)
    /\ chosen.diarization[1] = "cuda" => chosen.diarization[2] \in r.torchCuda
    /\ chosen.diarization[1] = "xpu" => chosen.diarization[2] \in r.torchXpu

\* Whatever probes failed or hung, here or when the cache was written by any process,
\* a choice names only what works on this machine with the libraries and builds it has
\* now.  A choice from the cache is the one that undisturbed probes would give now, on
\* a machine without what the probes of the cached detection answered there is not: a
\* probe that fails or hangs is never kept, one that hides its failure is kept until the
\* machine changes or a refresh.  An explicit request gets what it names or nothing.
ChoosesWhatIsThere ==
    [][\A c \in Callers : Select(c) /\ caller[c].steady =>
        LET m == Machine[caller[c].print]
            chosen == answer'
            request == caller[c].request
        IN /\ Works(chosen, m)
           /\ caller[c].how = "cached" =>
                  chosen = TrueSelection(m, caller[c].report.hidden)
           /\ request.device # "auto" /\ chosen.asr # Refused =>
                  chosen.asr.device = request.device /\ chosen.asr.index = request.index
           /\ request.compute # "auto" /\ chosen.asr # Refused =>
                  chosen.asr.compute = request.compute]_devices
=============================================================================
