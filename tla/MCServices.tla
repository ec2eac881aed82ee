----------------------------- MODULE MCServices -----------------------------
(***************************************************************************)
(* Components that share no state, each alone: the first state chooses      *)
(* `part', and the variables of the other parts keep their initial values.  *)
(* A property of one part says nothing in the behaviours of the others.  The *)
(* legacy jobs and the runtimes of a hand-over are told apart by nothing.   *)
(***************************************************************************)
EXTENDS BridgeRead, Capability, Cutover, JobAdmission, JobCommands, JobDirectory, Settings,
        SetupWizard, StoreFiles, TLC

CONSTANTS
    o1, o2                               \* StoreFiles

VARIABLE part

Symmetry == Permutations(Jobs) \cup Permutations(Runtimes)

dirVars  == directoryVars
admVars  == admissionVars
comVars  == commandVars
setVars  == settingsVars
cutVars  == vars    \* of Cutover
filVars  == fileVars
briVars  == bridgeVars
capVars  == capability
wizVars  == wizard

servicesVars ==
    <<part, dirVars, admVars, comVars, setVars, cutVars, filVars, briVars, capVars, wizVars>>

----------------------------------------------------------------------------
(* Launches of JobDirectory: two models, with and without speakers and --force, *)
(* an export to another format and a cleaning.                                  *)
Chosen(a, w, d, o) == [asr |-> a, words |-> w, diar |-> d, out |-> o]

SomeLaunches ==
    { [kind |-> "run", cfg |-> Chosen(1, "always", TRUE, 1), force |-> FALSE],
      [kind |-> "run", cfg |-> Chosen(2, "always", FALSE, 1), force |-> TRUE],
      [kind |-> "export", cfg |-> Chosen(1, "always", TRUE, 2), force |-> FALSE],
      [kind |-> "clean", cfg |-> Chosen(1, "always", TRUE, 1), force |-> FALSE] }

\* Two requests with the same token of resolution, one edited after it.
TokenBodies == {[token |-> "r1", edited |-> e] : e \in BOOLEAN}

(* Requests of JobCommands: two keys or two commands that meet at one job, at the queue   *)
(* and at a plan that is made on the way.                                                *)
Ask(do, of, key) == [do |-> do, of |-> of, key |-> key]

JobThatIs(status) ==
    <<[status |-> status, revision |-> 1, held |-> FALSE, resolved |-> "as resolved",
       ready |-> FALSE, retryOf |-> 0]>>

Scene(first, asks) == [jobs |-> first, asked |-> asks]

SomeScenes ==
    { Scene(JobThatIs("queued"), {Ask("revalidate", 1, "k1"), Ask("revalidate", 1, "k2")}),
      Scene(JobThatIs("queued"), {Ask("revalidate", 1, "k1"), Ask("hold", 1, "k1")}),
      Scene(JobThatIs("failed"), {Ask("retry", 1, "k1"), Ask("retry", 1, "k2")}),
      Scene(JobThatIs("failed"), {Ask("retry", 1, "k1"), Ask("hold", 2, "k1")}),
      Scene(JobThatIs("running"), {Ask("cancel", 1, "k1"), Ask("control", 0, "k1")}),
      Scene(<<>>, {Ask("plan", 0, "k1"), Ask("approve", 1, "k1"), Ask("start", 0, "k1"),
                   Ask("start", 0, "k2")}) }

\* One hash, one use: what the theorem about the results assumes of the launches.
ASSUME HashTellsUse

----------------------------------------------------------------------------
(* StoreFiles: a class of layout 3, and the runtime's of layout 6, which takes a   *)
(* copy first.  At the path there may be stores of three layouts, one that lacks a *)
(* table and one with a table of a layer to come.                                  *)
TwoLayouts == [p \in {o1, o2} |-> IF p = o1 THEN 3 ELSE 6]

SomeFiles ==
    {[version |-> v, lacks |-> {}, has |-> {}] : v \in {1, 3, 6}}
        \cup {[version |-> 2, lacks |-> {"leases"}, has |-> {}],
              [version |-> 2, lacks |-> {}, has |-> {"outbox_compaction"}]}

----------------------------------------------------------------------------
(* Capability: two deployments, evidence that is complete, expires, is not yet       *)
(* valid, is of other settings, lacks a kind or ran elsewhere, with and without a    *)
(* benchmark.                                                                       *)
Recipe(backend, variant, encoder, decoder, forWorker) ==
    [backend |-> backend, variant |-> variant, encoder |-> encoder, decoder |-> decoder,
     worker |-> forWorker]

SomeRecipes ==
    [r \in {"fw-cuda", "wc-ov"} |->
        IF r = "fw-cuda" THEN Recipe("faster-whisper", "none", "cuda", "cuda", TRUE)
        ELSE Recipe("whisper-cpp", "openvino", "openvino-gpu", "backend-default", FALSE)]

Installed(recipe, device) ==
    [recipe |-> recipe, device |-> device, index |-> 0, model |-> "tiny",
     englishOnly |-> FALSE, diarDevice |-> "none", local |-> TRUE, supported |-> TRUE,
     complete |-> TRUE, profile |-> "cpu", required |-> 1, available |-> 2]

TheDefaults ==
    [backend |-> "auto", model |-> "auto", namespaces |-> {}, language |-> "ja",
     words |-> "auto", diarize |-> FALSE, diarDevice |-> "auto", vadConflict |-> FALSE,
     threshold |-> FALSE, arguments |-> FALSE]

SomeOverrides ==
    {<<>>, [diarize |-> TRUE, words |-> "never"],
     [backend |-> "whisper-cpp", vadConflict |-> TRUE],
     [backend |-> "faster-whisper", namespaces |-> {"whisper-cpp"}]}

Policy(mode, objective, preapproved) ==
    [mode |-> mode, candidate |-> 1, profiles |-> {}, memory |-> 0, deadline |-> FALSE,
     objective |-> objective, preapproved |-> preapproved]

Ran(encoder, decoder, variant) ==
    [encoder |-> encoder, decoder |-> decoder, variant |-> variant, index |-> 0]

Timed(g, e) == [group |-> g, elapsed |-> e, words |-> "always"]

Says(at, until, ran, benchmark) ==
    [at |-> at, until |-> until, same |-> TRUE, passed |-> EvidenceKinds, failed |-> {},
     smoke |-> ran, benchmark |-> benchmark]

OnCuda == Ran("cuda", "cuda", "unknown")
OnOpenvino == Ran("openvino-gpu", "unknown", "openvino")

SomeReports ==
    UNION {{Says(1, 3, ran, NoEvidence), Says(1, 2, ran, NoEvidence),
            Says(2, 3, ran, NoEvidence), Says(1, 3, ran, Timed("short", 1)),
            Says(1, 2, ran, Timed("short", 2)), Says(1, 3, ran, Timed("long", 1))}
             : ran \in {OnCuda, OnOpenvino}}
      \cup {[Says(1, 2, OnCuda, NoEvidence) EXCEPT !.same = FALSE],
            [Says(1, 2, OnCuda, NoEvidence) EXCEPT !.failed = {"runtime"}],
            [Says(1, 2, OnCuda, NoEvidence) EXCEPT !.passed = @ \ {"smoke"}]}

SomeDeployments == <<Installed("fw-cuda", "cuda"), Installed("wc-ov", "gpu")>>
NoCommonOnes    == {<<>>}
SomePolicies    == {Policy("auto", "speed", FALSE), Policy("auto", "quality", TRUE),
                    Policy("fixed", "speed", FALSE)}

----------------------------------------------------------------------------
(* A part is there, or its variables are those of an idle one. *)
NoCommands ==
    /\ job = <<>> /\ queue = 0 /\ plan = <<>> /\ setup = <<>> /\ machine = 0
    /\ asked = {} /\ serving = [h \in Handlers |-> NoCommand] /\ answers = <<>>

ServicesInit ==
    /\ part \in {"directory", "admission", "commands", "settings", "cutover", "files", "bridge",
                 "capability", "wizard"}
    /\ DirectoryInit /\ AdmissionInit /\ SettingsInit /\ Init /\ FilesInit /\ BridgeInit
    /\ CapabilityInit /\ WizardInit
    /\ attempt = "none" \/ part = "cutover"
    /\ disk = NoFile \/ part = "files"
    /\ process.wrote = [s \in Streams |-> 0] \/ part = "bridge"
    /\ IF part = "commands" THEN CommandInit ELSE NoCommands

\* A step of a part leaves the others alone.
Alone(name, A, others) == part = name /\ A /\ UNCHANGED <<part, others>>

ServicesNext ==
    \/ Alone("directory", DirectoryNext,
             <<admVars, comVars, setVars, cutVars, filVars, briVars, capVars, wizVars>>)
    \/ Alone("admission", AdmissionNext,
             <<dirVars, comVars, setVars, cutVars, filVars, briVars, capVars, wizVars>>)
    \/ Alone("commands", CommandNext,
             <<dirVars, admVars, setVars, cutVars, filVars, briVars, capVars, wizVars>>)
    \/ Alone("settings", SettingsNext,
             <<dirVars, admVars, comVars, cutVars, filVars, briVars, capVars, wizVars>>)
    \/ Alone("cutover", Next,
             <<dirVars, admVars, comVars, setVars, filVars, briVars, capVars, wizVars>>)
    \/ Alone("files", FilesNext,
             <<dirVars, admVars, comVars, setVars, cutVars, briVars, capVars, wizVars>>)
    \/ Alone("bridge", BridgeNext,
             <<dirVars, admVars, comVars, setVars, cutVars, filVars, capVars, wizVars>>)
    \/ Alone("capability", CapabilityNext,
             <<dirVars, admVars, comVars, setVars, cutVars, filVars, briVars, wizVars>>)
    \/ Alone("wizard", WizardNext,
             <<dirVars, admVars, comVars, setVars, cutVars, filVars, briVars, capVars>>)

ServicesSpec == ServicesInit /\ [][ServicesNext]_servicesVars

=============================================================================
