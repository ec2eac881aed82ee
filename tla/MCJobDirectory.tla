--------------------------- MODULE MCJobDirectory ---------------------------
(***************************************************************************)
(* Launches for JobDirectory.  Resumes: two models, with and without        *)
(* speakers, --force, an export to another format and a cleaning.          *)
(* AutoWords: whisper.cpp with word_timestamps = "auto", without and with   *)
(* separation of speakers.                                                 *)
(***************************************************************************)
EXTENDS JobDirectory

Settings(a, w, d, o) == [asr |-> a, words |-> w, diar |-> d, out |-> o]

Run(c)  == [kind |-> "run", cfg |-> c, force |-> FALSE]

Resumes ==
    { Run(Settings(1, "always", TRUE, 1)), Run(Settings(2, "always", TRUE, 1)),
      [kind |-> "run", cfg |-> Settings(1, "always", FALSE, 1), force |-> TRUE],
      [kind |-> "export", cfg |-> Settings(1, "always", TRUE, 2), force |-> FALSE],
      [kind |-> "clean", cfg |-> Settings(1, "always", TRUE, 1), force |-> FALSE] }

AutoWords == { Run(Settings(1, "auto", d, 1)) : d \in BOOLEAN }

============================================================================
