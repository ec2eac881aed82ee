----------------------------- MODULE Capability -----------------------------
(***************************************************************************)
(* Which installation runs a file: the settings of a file are layered      *)
(* (utteran_settings/inheritance.py), the deployments of a profile are     *)
(* collected with the evidence known of them (utteran/capabilities), the   *)
(* evidence is judged when the inventory is made and again when a policy   *)
(* is resolved, and the GUI takes the profile's answer after checking that *)
(* it is an answer to its question (utteran_gui/capability_inventory.py).  *)
(*                                                                         *)
(* Digests are the values they are taken of.  A provider may report        *)
(* evidence that was taken for other settings or of an earlier version of  *)
(* the deployment, at any time.                                            *)
(***************************************************************************)
EXTENDS Integers

CONSTANTS
    Recipes,        \* recipe id |-> [backend, variant, encoder, decoder, worker]
    Deployments,    \* deployment id |-> its identity
    Preset,         \* the settings the layers start from
    Common, Files,  \* sets of overrides: functions from some settings
    Policies,
    Reports,        \* what a provider may report of a deployment
    Paths,          \* "worker", "cli": how the file would be executed
    MaxTime

VARIABLES
    now,
    inventory,      \* the snapshot of the last refresh
    answer,         \* the resolution of a policy, on its way to the GUI
    taken           \* what the GUI makes of it

capability == <<now, inventory, answer, taken>>

NoEvidence == [none |-> TRUE]
Unknown == -1     \* a device index nobody attested
EvidenceKinds ==
    {"hardware", "runtime", "venv", "model", "native", "smoke", "memory", "diarization"}

(***************************************************************************)
(* Settings: a file's overrides, over the common ones, over the preset.    *)
(***************************************************************************)
Effective(common, file) ==
    LET Leaf(f) == IF f \in DOMAIN file THEN file[f]
                   ELSE IF f \in DOMAIN common THEN common[f] ELSE Preset[f]
    IN [f \in DOMAIN Preset |->
           IF f = "language" /\ Leaf(f) = "AUTO" THEN "auto" ELSE Leaf(f)]

NonSpace == {"ja", "auto", ""}

\* semantic_issues: what the preview of the settings refuses.
SemanticIssues(s) ==
    {code \in {"incompatible_override", "context_conflict", "diarization_requires_timestamps",
               "genai_diarization_language", "genai_word_timestamps_language", "argument"} :
        \/ code = "incompatible_override" /\ s.backend # "auto" /\ s.namespaces \ {s.backend} # {}
        \/ code = "context_conflict" /\ s.backend = "whisper-cpp" /\ s.vadConflict
        \/ code = "diarization_requires_timestamps" /\ s.diarize /\ s.words = "never"
        \/ /\ code = "genai_diarization_language" /\ s.diarize
           /\ s.backend = "openvino-genai" /\ s.language \in NonSpace
        \/ /\ code = "genai_word_timestamps_language" /\ s.words = "always"
           /\ s.backend = "openvino-genai" /\ s.language \in NonSpace
        \/ code = "argument" /\ s.arguments}

\* The evaluator states the same rules again, for one deployment.
SettingsIssues(identity, s) ==
    LET backend == Recipes[identity.recipe].backend IN
    {code \in {"model_language_conflict", "backend_conflict", "model_conflict",
               "inactive_backend_settings", "unsupported_setting",
               "genai_diarization_language", "diarization_device_conflict"} :
        \/ /\ code = "model_language_conflict"
           /\ identity.englishOnly /\ s.language \notin {"en", "auto"}
        \/ code = "backend_conflict" /\ s.backend \notin {"auto", backend}
        \/ code = "model_conflict" /\ s.model \notin {"auto", identity.model}
        \/ code = "inactive_backend_settings" /\ s.namespaces \ {backend} # {}
        \/ /\ code = "unsupported_setting"
           /\ \/ s.arguments
              \/ backend = "faster-whisper" /\ (s.words = "never" \/ s.threshold)
              \/ backend = "whisper-cpp" /\ s.vadConflict
              \/ backend = "openvino-genai" /\ s.words = "always" /\ s.language \in NonSpace
              \/ s.diarize /\ s.words = "never"
        \/ /\ code = "genai_diarization_language" /\ s.diarize
           /\ backend = "openvino-genai" /\ s.language \in NonSpace
        \/ /\ code = "diarization_device_conflict"
           /\ s.diarize /\ s.diarDevice \notin {"auto", identity.diarDevice}}

(***************************************************************************)
(* Evidence.                                                               *)
(***************************************************************************)
Fingerprint(deployment, s) == <<deployment.identity, s>>

StillFresh(o, print, t) == o.print = print /\ o.at <= t /\ t < o.until

\* normalize_observation: stale evidence of any kind is unknown.
StateOf(o, print, t) ==
    IF o.state = "not_applicable" \/ StillFresh(o, print, t) THEN o.state ELSE "unknown"

\* _verify_smoke_route: only attested components count as executed.
SmokeRoute(o, identity) ==
    LET recipe   == Recipes[identity.recipe]
        Expected(c) == IF recipe[c] = "selected-device" THEN identity.device ELSE recipe[c]
        named    == {c \in {"encoder", "decoder"} : recipe[c] # "backend-default"}
        mismatch == \/ o.variant \notin {"unknown", recipe.variant}
                    \/ \E c \in named : o[c] \notin {"unknown", Expected(c)}
                    \/ \E c \in named : o[c] # "unknown"
                                        /\ o.index \notin {Unknown, identity.index}
        missing  == \/ recipe.variant # "none" /\ o.variant = "unknown"
                    \/ \E c \in named : o[c] = "unknown"
                    \/ \E c \in named : Expected(c) # "cpu" /\ o.index = Unknown
    IN IF mismatch THEN "failed" ELSE IF missing THEN "unknown" ELSE "passed"

KindApplies(kind, identity, s) ==
    /\ kind = "native" => Recipes[identity.recipe].variant # "none"
    /\ kind = "diarization" => s.diarize

Judged(kind, d, s, t) ==
    IF kind \notin DOMAIN d.evidence THEN "unknown"
    ELSE LET o == d.evidence[kind]
             state == StateOf(o, Fingerprint(d, s), t)
         IN IF kind = "smoke" /\ state = "passed" THEN SmokeRoute(o, d.identity) ELSE state

\* evaluate_candidate.
TransportIssues(identity, s, path) ==
    {code \in {"worker_backend_unsupported", "worker_diarization_unsupported",
               "worker_model_not_local"} :
        /\ path = "worker"
        /\ \/ code = "worker_backend_unsupported" /\ ~Recipes[identity.recipe].worker
           \/ code = "worker_diarization_unsupported" /\ s.diarize
           \/ code = "worker_model_not_local" /\ ~identity.local}

Runnable(d, s, t) ==
    LET required == {kind \in EvidenceKinds : KindApplies(kind, d.identity, s)}
        states   == [kind \in required |-> Judged(kind, d, s, t)]
        blocked  == \/ SettingsIssues(d.identity, s) # {}
                    \/ ~d.identity.supported
                    \/ TransportIssues(d.identity, s, inventory.path) # {}
                    \/ \E kind \in required : states[kind] = "failed"
                    \/ d.required > d.available
        unknown  == \/ ~d.identity.complete
                    \/ \E kind \in required : states[kind] # "passed"
    IN IF blocked THEN "blocked" ELSE IF unknown THEN "unknown" ELSE "ready"

(***************************************************************************)
(* Resolution.                                                             *)
(***************************************************************************)
StaticOrder == <<"fw-cuda", "wc-vulkan", "wc-ov-vk", "wc-ov", "genai-ov", "fw-cpu", "wc-cpu">>

Rank(d) == CHOOSE i \in DOMAIN StaticOrder : StaticOrder[i] = d.identity.recipe

ValidBenchmark(d, s, t) ==
    /\ d.benchmark # NoEvidence
    /\ StillFresh(d.benchmark, Fingerprint(d, s), t)
    /\ s.words \in {"auto", d.benchmark.words}

Allowed(d, policy) ==
    /\ policy.profiles = {} \/ d.identity.profile \in policy.profiles
    /\ policy.memory = 0 \/ d.required <= policy.memory
    /\ ~policy.deadline

\* A plausible slip: the verdict of the refresh is taken as it is.
EligibleAsCollected(policy) ==
    {d \in inventory.candidates :
        Runnable(d, inventory.settings, inventory.at) = "ready" /\ Allowed(d, policy)}

Eligible(policy) ==
    {d \in inventory.candidates :
        Runnable(d, inventory.settings, now) = "ready" /\ Allowed(d, policy)}

\* Benchmarks are compared only if every eligible candidate has one of the same group.
Comparable(eligible, policy) ==
    /\ policy.objective \in {"speed", "balanced"}
    /\ eligible # {}
    /\ \A d \in eligible : ValidBenchmark(d, inventory.settings, now)
    /\ \A d, e \in eligible : d.benchmark.group = e.benchmark.group

Before(d, e, measured) ==
    IF measured
    THEN LET x == IF d.benchmark = NoEvidence THEN MaxTime ELSE d.benchmark.elapsed
             y == IF e.benchmark = NoEvidence THEN MaxTime ELSE e.benchmark.elapsed
         IN x < y \/ (x = y /\ d.id < e.id)
    ELSE Rank(d) < Rank(e) \/ (Rank(d) = Rank(e) /\ d.id < e.id)

\* The head of the sorted list.
First(eligible, measured) ==
    {d \in eligible : \A e \in eligible \ {d} : Before(d, e, measured)}

CapabilityInit == now = 1 /\ inventory = NoEvidence /\ answer = NoEvidence /\ taken = "nothing"

Tick ==
    /\ now < MaxTime
    /\ now' = now + 1
    /\ UNCHANGED <<inventory, answer, taken>>

\* A report: [at, until, same, passed, failed, smoke, benchmark]; "same" tells whether it
\* was taken of this deployment with these settings.
StampOf(report, i, s) == IF report.same THEN <<Deployments[i], s>> ELSE <<>>

Observation(report, kind, i, s) ==
    [state |-> IF kind \in report.failed THEN "failed" ELSE "passed",
     at |-> report.at, until |-> report.until, print |-> StampOf(report, i, s),
     variant |-> report.smoke.variant, encoder |-> report.smoke.encoder,
     decoder |-> report.smoke.decoder, index |-> report.smoke.index]

Benchmark(report, i, s) ==
    IF report.benchmark = NoEvidence THEN NoEvidence
    ELSE [at |-> report.at, until |-> report.until, print |-> StampOf(report, i, s),
          group |-> report.benchmark.group, elapsed |-> report.benchmark.elapsed,
          words |-> report.benchmark.words]

Deployment(i, s, report) ==
    [id |-> i, identity |-> Deployments[i],
     required |-> Deployments[i].required, available |-> Deployments[i].available,
     evidence |-> [kind \in report.passed \cup report.failed |-> Observation(report, kind, i, s)],
     benchmark |-> Benchmark(report, i, s)]

\* Whoever measures reports a number.
ASSUME ReportsAssumption ==
    \A report \in Reports : report.benchmark = NoEvidence \/ report.benchmark.elapsed \in Int

\* refresh_inventory and make_inventory: deployments for other backends or models are left out.
\* Nothing of an inventory outlives the next one, so that one is followed.
Refresh(s, path, reports) ==
    /\ inventory = NoEvidence
    /\ inventory' = [settings |-> s, path |-> path, at |-> now, candidates |->
           {Deployment(i, s, reports[i]) :
               i \in {j \in DOMAIN Deployments :
                         /\ s.backend \in {"auto", Recipes[Deployments[j].recipe].backend}
                         /\ s.model \in {"auto", Deployments[j].model}}}]
    /\ UNCHANGED <<now, answer, taken>>

\* resolve, and the model directories that the bridge adds for the worker.
Resolve(policy) ==
    /\ inventory # NoEvidence /\ answer = NoEvidence
    /\ LET eligible == Eligible(policy)
           measured == Comparable(eligible, policy)
           chosen   == IF policy.mode = "fixed" THEN {d \in eligible : d.id = policy.candidate}
                       ELSE First(eligible, measured)
       IN answer' = [policy |-> policy, settings |-> inventory.settings,
                     chosen |-> chosen, eligible |-> eligible,
                     measured |-> policy.mode = "auto" /\ measured,
                     preapproved |-> IF policy.mode = "auto" /\ policy.preapproved
                                     THEN eligible \ chosen ELSE {},
                     models |-> {d.id : d \in {e \in eligible :
                         inventory.path = "worker" /\ e.identity.local}}]
    /\ taken' = "pending"
    /\ UNCHANGED <<now, inventory>>

\* The GUI's adapter accepts an answer whose model directories are those of the chosen.
TakeAnswer ==
    /\ taken = "pending"
    /\ LET ids == IF answer.chosen = {} THEN {}
                  ELSE {d.id : d \in answer.chosen \cup answer.preapproved}
       IN taken' = IF answer.models \subseteq ids THEN "supported" ELSE "profile_scope_mismatch"
    /\ UNCHANGED <<now, inventory, answer>>

CapabilityNext ==
    \/ Tick \/ TakeAnswer
    \/ \E common \in Common, file \in Files, path \in Paths,
          reports \in [DOMAIN Deployments -> Reports] :
        Refresh(Effective(common, file), path, reports)
    \/ \E policy \in Policies : Resolve(policy)

CapabilitySpec == CapabilityInit /\ [][CapabilityNext]_capability

(***************************************************************************)
(* Properties.                                                             *)
(***************************************************************************)
\* What a choice by a policy must rest on.
EvidenceIsItsOwn(d, policy) ==
    /\ \A kind \in EvidenceKinds : KindApplies(kind, d.identity, inventory.settings) =>
           /\ kind \in DOMAIN d.evidence
           /\ d.evidence[kind].state = "passed"
           /\ d.evidence[kind].print = Fingerprint(d, inventory.settings)
           /\ d.evidence[kind].at <= now /\ now < d.evidence[kind].until
    /\ LET recipe == Recipes[d.identity.recipe] IN
       \A c \in {"encoder", "decoder"} :
           recipe[c] \notin {"backend-default", "selected-device"}
               => d.evidence["smoke"][c] = recipe[c]
    /\ policy.profiles # {} => d.identity.profile \in policy.profiles
    /\ policy.mode = "fixed" => d.id = policy.candidate

\* A candidate is preferred by its measured time only over candidates whose measurements
\* are valid now and were taken under the same conditions (resolver.py: never compare the
\* winners of groups).
MeasuredFairly ==
    answer # NoEvidence /\ answer.measured =>
        \A d \in answer.chosen, e \in answer.eligible :
            /\ d.benchmark # NoEvidence /\ e.benchmark # NoEvidence
            /\ e.benchmark.group = d.benchmark.group
            /\ e.benchmark.print = Fingerprint(e, answer.settings)
            /\ d.benchmark.elapsed <= e.benchmark.elapsed

\* Two modules state the rules for settings: what the preview of the settings refuses is
\* not run by any candidate of the evaluator either.
RefusedNeverRuns ==
    answer # NoEvidence /\ SemanticIssues(answer.settings) # {} => answer.chosen = {}

\* Whatever was collected when, a candidate that is chosen or preapproved has evidence of
\* its own, for these very settings and unexpired at the moment of the choice, that it
\* works and that it ran on the devices its recipe names (resolver.py: evidence is checked
\* again at resolution); its times are compared with those measured under the same
\* conditions, and refused settings run nowhere.
ChosenIsProven ==
    /\ [][\A policy \in Policies : Resolve(policy) =>
             \A d \in answer'.chosen \cup answer'.preapproved :
                EvidenceIsItsOwn(d, policy)]_capability
    /\ [](MeasuredFairly /\ RefusedNeverRuns)
=============================================================================
