----------------------------- MODULE ModelStore -----------------------------
(***************************************************************************)
(* The model directory (utteran/models/manager.py) and the OpenVINO encoder *)
(* of whisper.cpp (utteran/models/openvino.py).  One CTranslate2 model is    *)
(* several files; a GGML model is one, with the two files of the encoder    *)
(* linked beside it under its own name.  One encoder serves every           *)
(* quantisation of its size.                                                *)
(*                                                                         *)
(* Commands are processes: a download may run beside another one and beside *)
(* the preparation of the encoder, whatever removes files or makes another  *)
(* encoder runs without another such command.  No lock guards any of it.    *)
(***************************************************************************)
EXTENDS Naturals, Sequences, FiniteSets

CONSTANTS
    Processes,     \* the commands that may run at once
    Quantisations, \* the quantisations of one size, in the order of the catalog
    Cached,        \* the entries complete in the standard Hugging Face cache
    BadHeads,      \* does the repository ship heads the decoder does not have?
    MaxCommands,   \* how many commands are started
    MaxEncoders,   \* how many encoders are converted
    MaxCrashes     \* how many commands are killed, or give up on a file

VARIABLES
    copies,       \* [entry -> [place -> the files of its copy]]
    heads,        \* the alignment heads of the managed config.json
    pair,         \* the canonical encoder: the version of each file, 0: absent
    alias,        \* [variant -> the version of each file beside it]
    command,      \* [process -> the command at hand]
    commands, encoders, crashes,
    damaged       \* ghost: has a command stopped amid the files of the encoder?

modelVars == <<copies, heads, pair, alias, command, commands, encoders, crashes, damaged>>

Faster == "faster-whisper"
Quantised == {Quantisations[i] : i \in 1..Len(Quantisations)}
Entries == {Faster} \union Quantised
Halves == {"xml", "bin"}

\* The catalog lists each quantisation once, and none is called like the other model.
ASSUME CatalogAssumption ==
    /\ Quantisations \in Seq(Quantised) /\ Quantisations # <<>>
    /\ \A i, j \in 1..Len(Quantisations) : Quantisations[i] = Quantisations[j] => i = j
    /\ Faster \notin Quantised
    /\ MaxEncoders \in Nat

\* What a repository holds.
RepositoryFiles(e) == IF e = Faster THEN {"config", "model", "tokenizer"} ELSE {"ggml"}

\* _missing_required_files: what a copy is judged by.
Required(e) == IF e = Faster THEN {"config", "model"} ELSE {"ggml"}

LooksInstalled(e, place) == Required(e) \subseteq copies[e][place]

\* The managed directory holds the files of the copy and the names of the encoder.
DirectoryLeft(e) ==
    copies[e]["managed"] # {} \/ (e # Faster /\ \E h \in Halves : alias[e][h] > 0)

\* _candidate_paths and find_installed: a complete managed copy, then the cache.
CandidatePlaces(e) ==
    {place \in {"managed", "cache"} :
       IF place = "managed" THEN DirectoryLeft(e) ELSE copies[e][place] # {}}
FoundAt(e) == {place \in CandidatePlaces(e) : LooksInstalled(e, place)}
ModelInstalled(e) == FoundAt(e) # {}

\* status: the complete copy, else the first candidate.
StatusPlace(e) ==
    LET of == IF ModelInstalled(e) THEN FoundAt(e) ELSE CandidatePlaces(e)
    IN IF "managed" \in of THEN "managed" ELSE IF of = {} THEN "none" ELSE "cache"

PairInstalled == \A h \in Halves : pair[h] > 0

----------------------------------------------------------------------------
NoCommand == [does |-> "nothing", entry |-> Faster, pc |-> "done", at |-> 0]

AtRest(p) == command[p].does = "nothing"
CommandAt(p, does, pc) == command[p].does = does /\ command[p].pc = pc
CommandGoes(p, pc) == command' = [command EXCEPT ![p].pc = pc]
CommandEnds(p) == command' = [command EXCEPT ![p] = NoCommand]

\* Commands that take files away, or convert, do so alone among their kind.
Exclusive == {"remove", "prepare", "remove-openvino"}
MayStart(does) ==
    \A p \in Processes :
      /\ does \in Exclusive => command[p].does \notin Exclusive
      /\ does \in {"remove", "remove-openvino"} => AtRest(p)
      /\ command[p].does \in {"remove", "remove-openvino"} => does = "nothing"

StartCommand(p) ==
    /\ AtRest(p) /\ commands < MaxCommands
    /\ \E does \in {"download", "verify", "remove", "prepare", "remove-openvino"}, e \in Entries :
         /\ MayStart(does)
         /\ does \in {"prepare", "remove-openvino"} => e = Quantisations[1]
         /\ does = "prepare" => encoders < MaxEncoders
         /\ command' = [command EXCEPT ![p] =
                          [does |-> does, entry |-> e, pc |-> "start", at |-> 0]]
    /\ commands' = commands + 1
    /\ UNCHANGED <<copies, heads, pair, alias, encoders, crashes, damaged>>

----------------------------------------------------------------------------
(* download. *)

\* A copy that looks installed is returned as it is; a missing token ends the command.
DownloadLooks(p) ==
    /\ CommandAt(p, "download", "start")
    /\ \/ CommandEnds(p)
       \/ ~ModelInstalled(command[p].entry) /\ CommandGoes(p, "fetch")
    /\ UNCHANGED <<copies, heads, pair, alias, commands, encoders, crashes, damaged>>

\* _download_hub_entry: each file appears whole; a file that is there is not fetched again.
FetchFile(p) ==
    LET e == command[p].entry IN
    /\ CommandAt(p, "download", "fetch")
    /\ \E f \in RepositoryFiles(e) \ copies[e]["managed"] :
         /\ copies' = [copies EXCEPT ![e]["managed"] = @ \union {f}]
         /\ heads' = IF f = "config" THEN IF BadHeads THEN "bad" ELSE "good" ELSE heads
    /\ UNCHANGED <<pair, alias, command, commands, encoders, crashes, damaged>>

\* The Hub fails or the user cancels, between two files or after the last one.
FetchStops(p) ==
    /\ CommandAt(p, "download", "fetch")
    /\ CommandEnds(p)
    /\ UNCHANGED <<copies, heads, pair, alias, commands, encoders, crashes, damaged>>

\* Everything is there: the metadata are written, then the copy is looked at once more.
Fetched(p) ==
    LET e == command[p].entry IN
    /\ CommandAt(p, "download", "fetch") /\ RepositoryFiles(e) \subseteq copies[e]["managed"]
    /\ CommandGoes(p, IF e = Faster THEN "probe" ELSE "refresh")
    /\ UNCHANGED <<copies, heads, pair, alias, commands, encoders, crashes, damaged>>

\* _verify_alignment_heads: heads known to be safe are not tried again; a probe that answers
\* nothing (a timeout, a missing library) changes nothing; a probe that dies has them replaced.
ProbeHeads(p) ==
    /\ command[p].pc = "probe"
    /\ heads' \in IF heads = "bad" THEN {"bad", "safe"} ELSE {heads}
    /\ CommandEnds(p)
    /\ UNCHANGED <<copies, pair, alias, commands, encoders, crashes, damaged>>

----------------------------------------------------------------------------
(* refresh_aliases, the end of a download and of a preparation: for every variant that is   *)
(* there, the two files are unlinked and linked again.                                      *)

\* Nothing to link: the encoder is not whole.
RefreshAliases(p) ==
    /\ command[p].pc = "refresh"
    /\ IF PairInstalled
         THEN command' = [command EXCEPT ![p].pc = "unlink", ![p].at = 1]
         ELSE CommandEnds(p)
    /\ UNCHANGED <<copies, heads, pair, alias, commands, encoders, crashes, damaged>>

AliasTurn(p) == (command[p].at + 1) \div 2
AliasOf(p) == Quantisations[AliasTurn(p)]
AliasHalf(p) == IF command[p].at % 2 = 1 THEN "xml" ELSE "bin"

NextAlias(p, n) ==
    IF command[p].at + n > 2 * Len(Quantisations)
      THEN CommandEnds(p)
      ELSE command' = [command EXCEPT ![p].pc = "unlink", ![p].at = @ + n]

Unlink(p) ==
    /\ command[p].pc = "unlink"
    /\ IF AliasHalf(p) = "xml" /\ "ggml" \notin copies[AliasOf(p)]["managed"]
         THEN NextAlias(p, 2) /\ alias' = alias
         ELSE CommandGoes(p, "link") /\ alias' = [alias EXCEPT ![AliasOf(p)][AliasHalf(p)] = 0]
    /\ UNCHANGED <<copies, heads, pair, commands, encoders, crashes, damaged>>

\* _link_or_copy: another command may have linked the same file meanwhile, to which the copy is
\* then refused as it is the same file; where links are not possible it is overwritten.
Link(p) ==
    /\ command[p].pc = "link"
    /\ \/ /\ alias' = [alias EXCEPT ![AliasOf(p)][AliasHalf(p)] = pair[AliasHalf(p)]]
          /\ NextAlias(p, 1)
       \/ /\ alias[AliasOf(p)][AliasHalf(p)] = pair[AliasHalf(p)]
          /\ CommandEnds(p) /\ alias' = alias
    /\ UNCHANGED <<copies, heads, pair, commands, encoders, crashes, damaged>>

----------------------------------------------------------------------------
(* prepare and remove of the encoder. *)

\* The converter works in a directory of its own: when it fails nothing has changed.
ConvertEncoder(p) ==
    /\ CommandAt(p, "prepare", "start")
    /\ \/ CommandGoes(p, "xml") /\ encoders' = encoders + 1
       \/ CommandEnds(p) /\ encoders' = encoders
    /\ UNCHANGED <<copies, heads, pair, alias, commands, crashes, damaged>>

MoveXml(p) ==
    /\ CommandAt(p, "prepare", "xml") /\ CommandGoes(p, "bin")
    /\ pair' = [pair EXCEPT !["xml"] = encoders]
    /\ UNCHANGED <<copies, heads, alias, commands, encoders, crashes, damaged>>

MoveBin(p) ==
    /\ CommandAt(p, "prepare", "bin") /\ CommandGoes(p, "refresh")
    /\ pair' = [pair EXCEPT !["bin"] = encoders]
    /\ UNCHANGED <<copies, heads, alias, commands, encoders, crashes, damaged>>

\* Mutant: the names beside the models are left.
RemovePairOnly(p) ==
    /\ CommandAt(p, "remove-openvino", "start")
    /\ pair' = [h \in Halves |-> 0]
    /\ CommandEnds(p)
    /\ UNCHANGED <<copies, heads, alias, commands, encoders, crashes, damaged>>

\* The files go one after the other, the canonical pair first.
RemoveEncoder(p) ==
    /\ CommandAt(p, "remove-openvino", "start")
    /\ IF pair["xml"] + pair["bin"] > 0
         THEN /\ \/ pair["xml"] > 0 /\ pair' = [pair EXCEPT !["xml"] = 0]
                 \/ pair["xml"] = 0 /\ pair' = [pair EXCEPT !["bin"] = 0]
              /\ UNCHANGED <<alias, command, damaged>>
         ELSE IF \E v \in Quantised, h \in Halves : alias[v][h] > 0
           THEN /\ \E v \in Quantised, h \in Halves :
                     alias[v][h] > 0 /\ alias' = [alias EXCEPT ![v][h] = 0]
                /\ UNCHANGED <<pair, command, damaged>>
           ELSE CommandEnds(p) /\ damaged' = FALSE /\ UNCHANGED <<pair, alias>>
    /\ UNCHANGED <<copies, heads, commands, encoders, crashes>>

----------------------------------------------------------------------------
(* remove and verify of a model. *)

\* The copy that status shows: the managed one file by file, the cached one by its owner.
RemoveModel(p) ==
    LET e == command[p].entry
        place == command[p].pc
    IN
    /\ command[p].does = "remove"
    /\ IF place = "start"
         THEN /\ IF StatusPlace(e) = "none"
                 THEN CommandEnds(p) ELSE CommandGoes(p, StatusPlace(e))
              /\ UNCHANGED <<copies, alias>>
         ELSE IF place = "cache"
           THEN /\ copies' = [copies EXCEPT ![e]["cache"] = {}]
                /\ CommandEnds(p) /\ UNCHANGED alias
         ELSE IF DirectoryLeft(e)
           THEN /\ \/ \E f \in copies[e]["managed"] :
                        copies' = [copies EXCEPT ![e]["managed"] = @ \ {f}] /\ UNCHANGED alias
                   \/ \E h \in Halves :
                        /\ e # Faster /\ alias[e][h] > 0
                        /\ alias' = [alias EXCEPT ![e][h] = 0] /\ UNCHANGED copies
                /\ UNCHANGED command
         ELSE CommandEnds(p) /\ UNCHANGED <<copies, alias>>
    /\ UNCHANGED <<heads, pair, commands, encoders, crashes, damaged>>

\* Only the copy of a CTranslate2 model is tried; the rest only looks.
VerifyModel(p) ==
    /\ CommandAt(p, "verify", "start")
    /\ IF command[p].entry = Faster /\ LooksInstalled(Faster, "managed")
         THEN CommandGoes(p, "probe") ELSE CommandEnds(p)
    /\ UNCHANGED <<copies, heads, pair, alias, commands, encoders, crashes, damaged>>

\* What verify answers of a copy: its files, the pair, and its names beside the model.
Healthy(e) ==
    /\ ModelInstalled(e)
    /\ e # Faster =>
         /\ (pair["xml"] > 0) = (pair["bin"] > 0)
         /\ PairInstalled => "managed" \in FoundAt(e) /\ \A h \in Halves : alias[e][h] > 0

\* A command stops amid the files of the encoder, with some of them moved, linked or removed.
AmidTheFiles(p) ==
    \/ command[p].pc \in {"xml", "bin", "refresh", "unlink", "link", "managed"}
    \/ command[p].does = "remove-openvino"

\* What was being copied, to its place (shutil.move between volumes) or beside a model, may be
\* cut short: a file of no encoder.
Torn == MaxEncoders + 1

CutShort(p) ==
    \/ UNCHANGED <<pair, alias>>
    \/ /\ command[p].pc \in Halves
       /\ pair' = [pair EXCEPT ![command[p].pc] = Torn] /\ UNCHANGED alias
    \/ /\ command[p].pc = "link"
       /\ alias' = [alias EXCEPT ![AliasOf(p)][AliasHalf(p)] = Torn] /\ UNCHANGED pair

Stopped(p) ==
    /\ crashes < MaxCrashes /\ crashes' = crashes + 1
    /\ CutShort(p)
    /\ CommandEnds(p)
    /\ damaged' = (damaged \/ AmidTheFiles(p))
    /\ UNCHANGED <<copies, commands, encoders>>

\* The process is killed; config.json is written in place and may be cut short.
KillCommand(p) ==
    /\ ~AtRest(p)
    /\ Stopped(p)
    /\ heads' \in {heads} \union IF command[p].pc = "probe" /\ heads = "bad" THEN {"torn"} ELSE {}

\* A file is in use, or the disk is full: the move, link, copy or removal raises, and the
\* command ends where it is.
FileOperationFails(p) ==
    /\ command[p].pc \in {"xml", "bin", "unlink", "link", "managed", "cache"}
       \/ command[p].does = "remove-openvino"
    /\ Stopped(p)
    /\ UNCHANGED heads

----------------------------------------------------------------------------
ModelInit ==
    /\ copies = [e \in Entries |->
                    [managed |-> {}, cache |-> IF e \in Cached THEN RepositoryFiles(e) ELSE {}]]
    /\ heads = "none"
    /\ pair = [h \in Halves |-> 0]
    /\ alias = [v \in Quantised |-> [h \in Halves |-> 0]]
    /\ command = [p \in Processes |-> NoCommand]
    /\ commands = 0 /\ encoders = 0 /\ crashes = 0 /\ damaged = FALSE

ModelNext == \E p \in Processes :
    \/ StartCommand(p) \/ DownloadLooks(p) \/ FetchFile(p) \/ FetchStops(p) \/ Fetched(p)
    \/ ProbeHeads(p) \/ RefreshAliases(p) \/ Unlink(p) \/ Link(p) \/ ConvertEncoder(p)
    \/ MoveXml(p) \/ MoveBin(p) \/ RemoveEncoder(p) \/ RemoveModel(p) \/ VerifyModel(p)
    \/ KillCommand(p) \/ FileOperationFails(p)

ModelSpec == ModelInit /\ [][ModelNext]_modelVars

----------------------------------------------------------------------------
\* Once no command runs: a quantisation that verify calls normal has the encoder converted last
\* beside it, both files of it, and where there is no encoder no file of one is left beside a
\* model, where the recogniser would take it.  A command that was killed, or whose move, link,
\* copy or removal failed, amid the files of the encoder takes this away, and the next removal
\* of the encoder that runs to its end brings it back.
VerifiedEncoderIsCurrent ==
    (~damaged /\ \A p \in Processes : AtRest(p)) =>
      \A v \in Quantised :
        /\ Healthy(v) /\ PairInstalled => alias[v] = pair
        /\ pair["xml"] = 0 => \A h \in Halves : alias[v][h] = 0
=============================================================================
