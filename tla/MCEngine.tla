------------------------------ MODULE MCEngine ------------------------------
(***************************************************************************)
(* What the worker and the command line do, component by component: the     *)
(* first state chooses `part', and the variables of the other parts keep    *)
(* their initial values.  A property of one part says nothing in the        *)
(* behaviours of the others.                                               *)
(***************************************************************************)
EXTENDS Batch, NativeBuild, ModelStore, Devices

VARIABLES
    part,
    stage, source, turns, scores, pointers, speakers, segments,
    raw, requested, phase, tokens, pending, pieces, words, current, heard, previous, repeats,
    dtwFound

alignVars == <<stage, source, turns, scores, pointers, speakers, segments>>
wordVars  == <<raw, requested, phase, tokens, pending, pieces, words, current, heard, previous,
               repeats, dtwFound>>

vars == <<part, batchVars, alignVars, wordVars, devices, buildVars, modelVars>>

----------------------------------------------------------------------------
(* Batch: three files, the second long enough to need more memory, under four  *)
(* settings: automatic choices, a build without Vulkan, a fixed device of each  *)
(* kind, a dry run.                                                            *)
Chosen(asr, device, built, diar, guard, dry) ==
    [asr |-> asr, device |-> device, variant |-> "auto", built |-> built, diar |-> diar,
     guard |-> guard, dry |-> dry]

AllVariants == {"openvino_vulkan", "vulkan", "openvino", "cpu"}

BatchSettings ==
    { Chosen("whisper-cpp", "auto", AllVariants, "auto", "auto", FALSE),
      Chosen("whisper-cpp", "auto", {"openvino_vulkan", "openvino"}, "xpu:0", "off", FALSE),
      Chosen("faster-whisper", "auto", {}, "cuda:0", "warn", FALSE),
      Chosen("faster-whisper", "cuda:0", {}, "cpu", "auto", TRUE) }

SomeMinutes  == <<30, 500, 30>>
SomeReadings == {-1, 6, 8, 12}

----------------------------------------------------------------------------
(* Align: a segment of three words, of which two may share an interval, one may *)
(* end after the next begins or one had no duration and is gone; a second one    *)
(* without words, with words, or with fewer words than its text, because they    *)
(* had no duration (which leaves it "high") or no believable one; up to three    *)
(* turns.                                                                       *)
Word(s, e, t) == [start |-> s, end |-> e, text |-> t]
Turn(s, e, p) == [start |-> s, end |-> e, speaker |-> p]
Recognised(ws, text, s, e, confidence) ==
    [start |-> s, end |-> e, text |-> text, words |-> ws, speaker |-> "UNKNOWN",
     confidence |-> confidence]

FirstWords ==
    {<<Word(0, 5, 1), Word(5, a, 2), Word(b, b + 2, 3)>> : a \in {8, 15}, b \in {9, 43}}
        \cup {<<Word(0, 8, 1), Word(0, 8, 2), Word(c, 15, 3)>> : c \in {8, 0}}
        \cup {<<Word(0, 5, 1), Word(b, b + 2, 3)>> : b \in {5, 43}}

SecondSegments(t) ==
    {Recognised(<<>>, <<4>>, t, e, "high") : e \in {t + 6, t + 60}}
        \cup {Recognised(<<Word(t, t + 3, 4), Word(t + 3, t + l, 5)>>, <<4, 5>>, t, t + l, "high")
                : l \in {4, 20}}
        \cup {Recognised(<<Word(t, t + 8, 5)>>, <<4, 5>>, t, t + 8, "high")}
        \cup {Recognised(<<Word(t + 1, t + 2, 4), Word(t + 3, t + 9, 6)>>, <<4, 5, 6>>,
                         t + 1, t + 9, "low")}

SomeTranscripts ==
    UNION {{<<Recognised(ws, <<1, 2, 3>>, 0, ws[Len(ws)].end, "high"), second>>
              : second \in SecondSegments(ws[Len(ws)].end)} : ws \in FirstWords}

SomeTurns ==
    {<<>>, <<Turn(0, 5, "A"), Turn(6, 12, "B")>>}
        \cup {<<Turn(0, a, "A"), Turn(45, 60, "B")>> : a \in {5, 9}}
        \cup {<<Turn(0, a, "A"), Turn(a, a + d, "B"), Turn(a + g, 70, "A")>>
                : a \in {4, 9}, d \in {1, 12}, g \in {3, 12}}

Ali == INSTANCE Align WITH
    Transcripts <- SomeTranscripts, Diarizations <- SomeTurns, Boundaries <- {{0, 1, 3}, {2}}

----------------------------------------------------------------------------
(* TokenWords: segments of three tokens around an end-of-text token, a character *)
(* of two tokens, times that are missing, outside, reversed or from DTW; and     *)
(* repetitions, one of them without duration.                                    *)
TokenTimes == {<<-1, -1, -1>>, <<0, 2, -1>>, <<12, 13, -1>>, <<17, 30, 14>>, <<16, 12, -1>>,
               <<25, 26, -1>>}
SomeTokens ==
    {[text |-> x, from |-> t[1], to |-> t[2], dtw |-> t[3], special |-> FALSE]
       : x \in {<<" ", "a">>, <<"k1">>, <<"k2", "a">>, <<".">>}, t \in TokenTimes}
EndOfText == [text |-> <<"a">>, from |-> -1, to |-> -1, dtw |-> -1, special |-> TRUE]
Reported(ts) == [from |-> 10, to |-> 18, text |-> "x", tokens |-> ts]

SomeOutputs ==
    {<<Reported(<<a, b, EndOfText, c>>)>> : a \in SomeTokens, b \in SomeTokens,
        c \in {t \in SomeTokens : t.from \in {-1, 12} /\ t.text # <<".">>}}
      \cup {<<Reported(<<>>), [Reported(<<>>) EXCEPT !.to = 10], Reported(<<>>), Reported(<<a>>)>>
              : a \in SomeTokens}

Tok == INSTANCE TokenWords WITH
    Outputs <- SomeOutputs, RequestedWords <- {TRUE, FALSE}, MaxWord <- 3, RepetitionLimit <- 2,
    stage <- phase, segments <- heard

----------------------------------------------------------------------------
(* Devices: a machine that loses PyTorch and Vulkan and gains CTranslate2, its    *)
(* cache absent or with a failed probe of Vulkan, and two processes.             *)
TwoMachines ==
    <<[installed |-> {"torch"}, cpu |-> {"int8", "float32"}, cuda |-> <<>>,
       torchCuda |-> {}, torchXpu |-> {1}, openvino |-> {"GPU"}, vulkan |-> TRUE],
      [installed |-> {"ctranslate2", "openvino"}, cpu |-> {"int8"},
       cuda |-> <<{"float16", "int8"}>>, torchCuda |-> {1}, torchXpu |-> {},
       openvino |-> {"GPU"}, vulkan |-> FALSE]>>

FailedVulkan ==
    [print |-> 1, failed |-> {<<"vulkan", 0>>},
     report |-> [available |-> FALSE, cpu |-> {}, cuda |-> <<>>, torchCuda |-> {},
                 torchXpu |-> {1}, openvino |-> {}, vulkan |-> FALSE, hidden |-> {}]]

SomeFound        == {NoCache, FailedVulkan}
SomeAsked        == {[device |-> "cuda", index |-> 1, compute |-> "auto"],
                     [device |-> "cuda", index |-> 2, compute |-> "float32"]}
SomeSurroundings == {[libraries |-> TRUE, native |-> {"vulkan"}],
                     [libraries |-> FALSE, native |-> {"openvino"}]}

----------------------------------------------------------------------------
(* NativeBuild: two releases, one variant or all of them, two builds.  ModelStore: *)
(* two processes, two quantisations of which one is in the cache.                  *)
SomeRequests      == {{"vulkan"}, AllVariants}
SomeQuantisations == <<"q5", "q8">>

----------------------------------------------------------------------------
(* A part is there, or its variables hold nothing, and its processes do nothing; *)
(* a batch, a build or a model store that is not there has one initial state.    *)
NoBatch == BatchInit /\ batch.cfg = CHOOSE cfg \in BatchSettings : TRUE
NoAlign ==
    /\ stage = 0 /\ source = 0 /\ turns = 0 /\ scores = 0 /\ pointers = 0 /\ speakers = 0
    /\ segments = 0
NoWords ==
    /\ raw = 0 /\ requested = 0 /\ phase = 0 /\ tokens = 0 /\ pending = 0 /\ pieces = 0
    /\ words = 0 /\ current = 0 /\ heard = 0 /\ previous = 0 /\ repeats = 0 /\ dtwFound = 0
NoDevices ==
    /\ here = 0 /\ around = 0 /\ cache = 0 /\ caller = [c \in Callers |-> Idle]
    /\ answer = 0 /\ changes = 0 /\ failures = 0
NoBuilds == BuildInit /\ pinned = 1

Init ==
    /\ part \in {"batch", "align", "words", "devices", "builds", "models"}
    /\ IF part = "batch" THEN BatchInit ELSE NoBatch
    /\ IF part = "align" THEN Ali!Init ELSE NoAlign
    /\ IF part = "words" THEN Tok!Init ELSE NoWords
    /\ IF part = "devices" THEN DevicesInit ELSE NoDevices
    /\ IF part = "builds" THEN BuildInit ELSE NoBuilds
    /\ ModelInit

\* A step of a part leaves the others alone.
Alone(name, A, others) == part = name /\ A /\ UNCHANGED <<part, others>>

Next ==
    \/ Alone("batch", BatchNext,
             <<alignVars, wordVars, devices, buildVars, modelVars>>)
    \/ Alone("align", Ali!Next,
             <<batchVars, wordVars, devices, buildVars, modelVars>>)
    \/ Alone("words", Tok!Next,
             <<batchVars, alignVars, devices, buildVars, modelVars>>)
    \/ Alone("devices", DevicesNext,
             <<batchVars, alignVars, wordVars, buildVars, modelVars>>)
    \/ Alone("builds", BuildNext,
             <<batchVars, alignVars, wordVars, devices, modelVars>>)
    \/ Alone("models", ModelNext,
             <<batchVars, alignVars, wordVars, devices, buildVars>>)

Spec == Init /\ [][Next]_vars

----------------------------------------------------------------------------
(* The properties of the parts; BatchIsSound, RunnableIsCurrent,                 *)
(* VerifiedEncoderIsCurrent and ChoosesWhatIsThere are those of Batch,           *)
(* NativeBuild, ModelStore and Devices.                                          *)

\* The words of a segment spell its tokens, and those that reach the result have a duration
\* and lie in their segment (TokenWords); from there to the speakers, whose sequence is the
\* best there is, no word is lost, and no text but what the words of a segment leave out (Align).
TranscriptIsWhole ==
    /\ part = "words" => Tok!TextIsWhole /\ Tok!WordsStayInside
    /\ part = "align" => Ali!NothingIsLost /\ Ali!GroupsStayWhole /\ Ali!BestSequence
=============================================================================
