----------------------------- MODULE BridgeRead -----------------------------
(***************************************************************************)
(* One question to a child process (utteran_gui/capability_transport.py,    *)
(* read_bridge): two threads drain its pipes within their limits, a third   *)
(* sends the request, and the caller waits for all of them, for the child   *)
(* and for a deadline, whichever comes first, and reaps before it returns.  *)
(*                                                                         *)
(* A pipe holds one block.  The child may leave a process behind that holds *)
(* the pipes open after it has gone.                                        *)
(***************************************************************************)
EXTENDS Naturals

CONSTANTS
    Writes,   \* how many blocks a child may write on each pipe
    Limit     \* how many blocks are kept of each

ASSUME BridgeAssumption == Writes \subseteq Nat /\ Limit \in Nat

VARIABLES
    process,  \* the process and the one it leaves behind
    pipe,     \* [stream -> blocks waiting in it]
    total,    \* [stream -> blocks read]
    finished, \* [thread -> its event is set]
    failures, \* the queue of one failure
    asker     \* where read_bridge is, and its answer

bridgeVars == <<process, pipe, total, finished, failures, asker>>

Streams == {"stdout", "stderr"}
Pumps == Streams \union {"send"}

PipesOpen == process.alive \/ process.orphan

\* fail: the first failure stays in the queue.
Fail(code) == failures' = IF failures = "none" THEN code ELSE failures

----------------------------------------------------------------------------
(* The child. *)

WriteBlock(s) ==
    /\ PipesOpen /\ pipe[s] = 0 /\ process.left[s] > 0
    /\ pipe' = [pipe EXCEPT ![s] = 1]
    /\ process' = [process EXCEPT !.left[s] = @ - 1]
    /\ UNCHANGED <<total, finished, failures, asker>>

\* It ends once it has written all, or dies before; a process it started may outlive it.
AskedEnds ==
    /\ process.alive
    /\ \E code \in {0, 1}, orphan \in BOOLEAN :
         /\ code = 0 => \A s \in Streams : process.left[s] = 0
         /\ process' = [process EXCEPT !.alive = FALSE, !.orphan = orphan, !.code = code]
    /\ UNCHANGED <<pipe, total, finished, failures, asker>>

OrphanEnds ==
    /\ ~process.alive /\ process.orphan
    /\ process' = [process EXCEPT !.orphan = FALSE]
    /\ UNCHANGED <<pipe, total, finished, failures, asker>>

----------------------------------------------------------------------------
(* The threads. *)

\* drain: one block more than the limit is a failure; so may be any read.
Drain(s) ==
    /\ ~finished[s] /\ pipe[s] = 1
    /\ pipe' = [pipe EXCEPT ![s] = 0]
    /\ \/ /\ total[s] < Limit
          /\ total' = [total EXCEPT ![s] = @ + 1] /\ UNCHANGED <<finished, failures>>
       \/ /\ total[s] = Limit
          /\ Fail("limit") /\ finished' = [finished EXCEPT ![s] = TRUE] /\ UNCHANGED total
    /\ UNCHANGED <<process, asker>>

DrainEnds(s) ==
    /\ ~finished[s]
    /\ \/ ~PipesOpen /\ pipe[s] = 0 /\ failures' = failures
       \/ Fail("io")
    /\ finished' = [finished EXCEPT ![s] = TRUE]
    /\ UNCHANGED <<process, pipe, total, asker>>

\* send: a child that has gone does not take the rest.
Send ==
    /\ ~finished["send"]
    /\ \/ process.alive /\ failures' = failures
       \/ ~process.alive /\ Fail("unavailable")
    /\ finished' = [finished EXCEPT !["send"] = TRUE]
    /\ UNCHANGED <<process, pipe, total, asker>>

----------------------------------------------------------------------------
(* The asker. *)

AskerAt(pc) == asker.pc = pc
AskerGoes(pc) == asker' = [asker EXCEPT !.pc = pc]
Reaps(code) == asker' = [asker EXCEPT !.pc = "reap", !.answer = code]
AskerAlone == UNCHANGED <<process, pipe, total, finished, failures>>

\* The top of the loop looks at the failures only.
LookAtFailures ==
    /\ AskerAt("loop")
    /\ IF failures # "none" THEN Reaps(failures) ELSE AskerGoes("events")
    /\ AskerAlone

\* Then at the threads and the child; then it waits, until the deadline.
LookAtEvents ==
    /\ AskerAt("events")
    /\ \/ (\A t \in Pumps : finished[t]) /\ ~process.alive /\ AskerGoes("check")
       \/ ~((\A t \in Pumps : finished[t]) /\ ~process.alive) /\ (AskerGoes("loop") \/ Reaps("timeout"))
    /\ AskerAlone

\* Mutant: the threads are done, so nothing can have failed since.
AnswerAtOnce ==
    /\ AskerAt("check")
    /\ Reaps(IF process.code = 0 THEN "answer" ELSE "unavailable")
    /\ AskerAlone

\* A failure between the two looks must not be passed by.
GiveAnswer ==
    /\ AskerAt("check")
    /\ Reaps(IF failures # "none" THEN failures
             ELSE IF process.code = 0 THEN "answer" ELSE "unavailable")
    /\ AskerAlone

\* _reap: the whole group, though its leader has gone; a child that cannot be waited for raises.
Reap ==
    /\ AskerAt("reap")
    /\ \/ /\ process' = [process EXCEPT !.alive = FALSE, !.orphan = FALSE,
                                    !.code = IF process.alive THEN 1 ELSE @]
          /\ AskerGoes("join")
       \/ /\ process.alive /\ process' = process
          /\ asker' = [pc |-> "returned", answer |-> "io"]
    /\ UNCHANGED <<pipe, total, finished, failures>>

\* The threads are joined, each for a while, and the pipes closed.
JoinThreads ==
    /\ AskerAt("join")
    /\ asker' = [pc |-> "returned",
                  answer |-> IF \E t \in Pumps : ~finished[t] THEN "io" ELSE asker.answer]
    /\ AskerAlone

----------------------------------------------------------------------------
BridgeInit ==
    /\ \E w \in [Streams -> Writes] :
         process = [alive |-> TRUE, orphan |-> FALSE, code |-> 0, left |-> w, wrote |-> w]
    /\ pipe = [s \in Streams |-> 0] /\ total = [s \in Streams |-> 0]
    /\ finished = [t \in Pumps |-> FALSE]
    /\ failures = "none"
    /\ asker = [pc |-> "loop", answer |-> "none"]

BridgeNext ==
    \/ \E s \in Streams : WriteBlock(s) \/ Drain(s) \/ DrainEnds(s)
    \/ AskedEnds \/ OrphanEnds \/ Send
    \/ LookAtFailures \/ LookAtEvents \/ GiveAnswer \/ Reap \/ JoinThreads

BridgeSpec == BridgeInit /\ [][BridgeNext]_bridgeVars

----------------------------------------------------------------------------
\* An answer is whole: the child ended well, and every block it wrote was read within the limits,
\* whatever a thread found out between the two looks of the caller (read_bridge).
AnsweredInFull ==
    asker.answer = "answer" =>
      /\ ~process.alive /\ process.code = 0
      /\ \A s \in Streams : total[s] = process.wrote[s] /\ process.wrote[s] <= Limit

\* Once it has returned, with an answer or with an error other than that it could not clean up,
\* neither the child nor what it left behind runs, and no thread reads.
NothingIsLeft ==
    AskerAt("returned") /\ asker.answer # "io" =>
      ~process.alive /\ ~process.orphan /\ \A t \in Pumps : finished[t]

\* The answer of a child is whole, and nothing is left of the child.
AnswerIsWhole == AnsweredInFull /\ NothingIsLeft
=============================================================================
