--------------------------- MODULE WorkerProtocol ---------------------------
(***************************************************************************)
(* One run of a profile worker: WorkerClient._execute (worker_client.py) in *)
(* the GUI process, serve (worker.py) with its main and its control thread  *)
(* in the worker process, and the two pipes between them.  Either process   *)
(* may die at any step.  Timers expire at any moment they are armed.        *)
(*                                                                         *)
(* Records are whole: framing and JSON are below this level, both sides     *)
(* write only records of the contract.  What the core does is one step per  *)
(* progress report, and it looks at the cancel token at each.              *)
(***************************************************************************)
EXTENDS Naturals, Sequences, SequencesExt

CONSTANT MaxProgress   \* progress reports of one execution

VARIABLES
    client,  \* pc, cancel (the event of the caller), sent (a cancel was sent), seq,
             \* accepted, terminal, timedOut, outcome
    worker,  \* pc of the main thread, control: that of the control thread, terminal,
             \* cancelled: the token, error: control_error, code, seq, rc
    stdin,   \* of the worker: messages in flight
    stdout   \* its protocol output: events in flight

protocolVars == <<client, worker, stdin, stdout>>

None    == "none"
Running == "running"
Broken  == {"done", "dead"}

ClientInit ==
    [pc |-> "hello", cancel |-> FALSE, sent |-> FALSE, seq |-> 0, accepted |-> FALSE,
     validated |-> FALSE, terminal |-> None, timedOut |-> None, outcome |-> None]

WorkerInit ==
    [pc |-> "start", control |-> None, terminal |-> FALSE, cancelled |-> FALSE, error |-> None,
     code |-> None, seq |-> 0, work |-> 0, asked |-> FALSE, rc |-> Running]

\* A process that has ended reads nothing and its pipes are closed.
WorkerEnded == worker.rc # Running
StdinClosed == client.pc \in Broken

Event(type) == [type |-> type, seq |-> worker.seq]

\* The lock of serve: the control thread keeps it from its error to the cancel.
LockFree == worker.control # "failing"

\* emit: nothing after the terminal event.
Emit(type, next) ==
    /\ LockFree
    /\ IF worker.terminal
       THEN worker' = next /\ UNCHANGED stdout
       ELSE /\ stdout' = Append(stdout, Event(type))
            /\ worker' = [next EXCEPT !.seq = @ + 1,
                                      !.terminal = type \notin {"hello", "accepted", "progress",
                                                                "validated", "acknowledged"}]

----------------------------------------------------------------------------
(* The worker, main thread. *)

Hello ==
    /\ worker.pc = "start" /\ ~WorkerEnded
    /\ Emit("hello", [worker EXCEPT !.pc = "request"])
    /\ UNCHANGED <<client, stdin>>

\* The request binds the IDs; the control thread starts once it is accepted.
ReadRequest ==
    /\ worker.pc = "request" /\ ~WorkerEnded
    /\ \/ /\ stdin # <<>>
          /\ stdin' = Tail(stdin)
          /\ Emit("accepted", [worker EXCEPT !.pc = "check", !.control = "reading"])
       \/ /\ stdin = <<>> /\ StdinClosed
          /\ Emit("unexpected_eof", [worker EXCEPT !.pc = "exit", !.code = "unexpected_eof"])
          /\ UNCHANGED stdin
    /\ UNCHANGED client

\* execute reads the request and looks for what is missing.
Validate ==
    /\ worker.pc = "check" /\ ~WorkerEnded
    /\ \/ worker.cancelled /\ worker' = [worker EXCEPT !.pc = "raised", !.code = "cancelled"]
                           /\ UNCHANGED stdout
       \/ /\ worker' = [worker EXCEPT !.pc = "raised", !.code = "model_missing"]
          /\ UNCHANGED stdout
       \/ ~worker.cancelled /\ Emit("validated", [worker EXCEPT !.pc = "work"])
    /\ UNCHANGED <<client, stdin>>

\* The core works: it reports ...
Report ==
    /\ worker.pc = "work" /\ ~WorkerEnded
    /\ ~worker.cancelled /\ worker.work < MaxProgress
    /\ Emit("progress", [worker EXCEPT !.work = @ + 1])
    /\ UNCHANGED <<client, stdin>>

\* ... fails, or has finished ...
CoreEnds ==
    /\ worker.pc = "work" /\ ~WorkerEnded
    /\ \/ worker' = [worker EXCEPT !.pc = "raised", !.code = "core_failure"]
       \/ worker' = [worker EXCEPT !.pc = "finished"]
    /\ UNCHANGED <<client, stdin, stdout>>

\* ... or is cancelled at a report.
CoreStops ==
    /\ worker.pc = "work" /\ ~WorkerEnded /\ worker.cancelled
    /\ worker' = [worker EXCEPT !.pc = "raised", !.code = "cancelled"]
    /\ UNCHANGED <<client, stdin, stdout>>

\* The result is reported unless the control thread has failed.
Complete ==
    /\ worker.pc = "finished" /\ ~WorkerEnded
    /\ IF worker.error = None
       THEN Emit("completed", [worker EXCEPT !.pc = "exit", !.code = "completed"])
       ELSE /\ LockFree
            /\ worker' = [worker EXCEPT !.pc = "raised", !.code = worker.error]
            /\ UNCHANGED stdout
    /\ UNCHANGED <<client, stdin>>

\* The code is chosen before the lock is taken: an error of the control thread
\* comes before what the cancel it caused has raised.
ChooseCode ==
    /\ worker.pc = "raised" /\ ~WorkerEnded
    /\ worker' = [worker EXCEPT !.pc = "report",
                                !.code = IF worker.error # None THEN worker.error ELSE @]
    /\ UNCHANGED <<client, stdin, stdout>>

ReportError ==
    /\ worker.pc = "report" /\ ~WorkerEnded
    /\ Emit(worker.code, [worker EXCEPT !.pc = "exit"])
    /\ UNCHANGED <<client, stdin>>

Exit ==
    /\ worker.pc = "exit" /\ ~WorkerEnded
    /\ worker' = [worker EXCEPT !.rc = IF worker.code = "completed" THEN "0" ELSE "1"]
    /\ UNCHANGED <<client, stdin, stdout>>

\* Killed from outside, or a crash of native code.
WorkerCrashes ==
    /\ ~WorkerEnded
    /\ worker' = [worker EXCEPT !.rc = "killed"]
    /\ UNCHANGED <<client, stdin, stdout>>

----------------------------------------------------------------------------
(* The worker, control thread. *)

\* Mutant: the cancel is acknowledged and the token forgotten.
AcknowledgeOnly ==
    /\ worker.control = "reading" /\ ~WorkerEnded /\ stdin # <<>>
    /\ stdin' = Tail(stdin)
    /\ IF worker.terminal
       THEN worker' = [worker EXCEPT !.control = "ended"] /\ UNCHANGED stdout
       ELSE Emit("acknowledged", [worker EXCEPT !.asked = TRUE])
    /\ UNCHANGED client

\* Mutant: the acknowledgement does not look at the terminal event.
AcknowledgeAlways ==
    /\ worker.control = "reading" /\ ~WorkerEnded /\ stdin # <<>>
    /\ stdin' = Tail(stdin)
    /\ stdout' = Append(stdout, Event("acknowledged"))
    /\ worker' = [worker EXCEPT !.cancelled = TRUE, !.asked = TRUE, !.seq = @ + 1]
    /\ UNCHANGED client

\* A cancel is acknowledged, or too late.
Acknowledge ==
    /\ worker.control = "reading" /\ ~WorkerEnded /\ stdin # <<>>
    /\ stdin' = Tail(stdin)
    /\ IF worker.terminal
       THEN worker' = [worker EXCEPT !.control = "ended"] /\ UNCHANGED stdout
       ELSE Emit("acknowledged", [worker EXCEPT !.cancelled = TRUE, !.asked = TRUE])
    /\ UNCHANGED client

\* End of input: the error is recorded, then the token cancelled, under the lock.
ControlFails ==
    /\ worker.control = "reading" /\ ~WorkerEnded /\ stdin = <<>> /\ StdinClosed
    /\ ~worker.terminal
    /\ worker' = [worker EXCEPT !.control = "failing", !.error = "unexpected_eof"]
    /\ UNCHANGED <<client, stdin, stdout>>

ControlCancels ==
    /\ worker.control = "failing" /\ ~WorkerEnded
    /\ worker' = [worker EXCEPT !.control = "ended", !.cancelled = TRUE, !.error = "unexpected_eof"]
    /\ UNCHANGED <<client, stdin, stdout>>

----------------------------------------------------------------------------
(* The client. *)

\* What is raised or returned; then the process is cleaned up.
Ends(outcome) == client' = [client EXCEPT !.pc = "finally", !.outcome = outcome]

CallerCancels ==
    /\ ~client.cancel /\ client.pc \notin Broken
    /\ client' = [client EXCEPT !.cancel = TRUE]
    /\ UNCHANGED <<worker, stdin, stdout>>

\* A write fails once the process has ended.
Writes(message, next) ==
    IF WorkerEnded
    THEN Ends("unexpected_eof") /\ UNCHANGED stdin
    ELSE client' = next /\ stdin' = Append(stdin, message)

AtEof == stdout = <<>> /\ WorkerEnded

ReceiveHello ==
    /\ client.pc = "hello" /\ stdout # <<>>
    /\ stdout' = Tail(stdout)
    /\ IF Head(stdout).type = "hello" /\ Head(stdout).seq = 0
       THEN client' = [client EXCEPT !.pc = "send", !.seq = 1]
       ELSE Ends("invalid_sequence")
    /\ UNCHANGED <<worker, stdin>>

\* The output ends before a hello.
HelloEof ==
    /\ client.pc = "hello" /\ AtEof
    /\ Ends(IF worker.rc # "0" THEN "worker_crash" ELSE "unexpected_eof")
    /\ UNCHANGED <<worker, stdin, stdout>>

HandshakeTimesOut ==
    /\ client.pc = "hello" /\ stdout = <<>>
    /\ Ends("handshake_timeout")
    /\ UNCHANGED <<worker, stdin, stdout>>

\* on_spawn could not journal the process: no request is sent.
SpawnRefused ==
    /\ client.pc = "hello" /\ client.seq = 0 /\ worker = WorkerInit
    /\ Ends("not journaled")
    /\ UNCHANGED <<worker, stdin, stdout>>

SendRequest ==
    /\ client.pc = "send"
    /\ \/ Writes("request", [client EXCEPT !.pc = "loop"])
       \/ ~WorkerEnded /\ Ends("io_timeout") /\ UNCHANGED stdin
    /\ UNCHANGED <<worker, stdout>>

\* A deadline that passes before the terminal event asks for a cancellation, once.
TimesOut(code) ==
    /\ client.pc = "loop" /\ client.timedOut = None /\ client.terminal = None
    /\ code = "validation_timeout" => ~client.validated
    /\ IF client.sent
       THEN client' = [client EXCEPT !.timedOut = code] /\ UNCHANGED stdin
       ELSE Writes("cancel", [client EXCEPT !.timedOut = code, !.sent = TRUE])
    /\ UNCHANGED <<worker, stdout>>

SendCancelMessage ==
    /\ client.pc = "loop" /\ client.terminal = None /\ client.cancel /\ ~client.sent
    /\ Writes("cancel", [client EXCEPT !.sent = TRUE])
    /\ UNCHANGED <<worker, stdout>>

\* EventSequence.accept, for an event after hello.
InSequence(e) ==
    /\ e.seq = client.seq /\ client.terminal = None
    /\ e.type # "hello"
    /\ e.type = "accepted" => ~client.accepted
    /\ e.type \in {"progress", "validated", "acknowledged", "completed"} => client.accepted
    /\ e.type = "acknowledged" => client.sent

IsTerminal(e) == e.type \notin {"hello", "accepted", "progress", "validated", "acknowledged"}

Receive ==
    /\ client.pc = "loop" /\ stdout # <<>>
    /\ stdout' = Tail(stdout)
    /\ LET e == Head(stdout)
       IN  IF InSequence(e)
           THEN client' = [client EXCEPT !.seq = @ + 1,
                                         !.accepted = @ \/ e.type = "accepted",
                                         !.validated = @ \/ e.type = "validated",
                                         !.terminal = IF IsTerminal(e) THEN e.type ELSE @]
           ELSE Ends("invalid_sequence")
    /\ UNCHANGED <<worker, stdin>>

\* The pipe stays silent, or the process stays, after the terminal event.
SilentEnd ==
    /\ client.pc = "loop" /\ client.terminal # None /\ ~WorkerEnded
    /\ Ends("io_timeout")
    /\ UNCHANGED <<worker, stdin, stdout>>

\* The verdict on a terminal event and an exit code.
VerdictOf(rc) ==
    CASE client.terminal = None        -> IF rc # "0" THEN "worker_crash" ELSE "unexpected_eof"
      [] client.terminal # None /\ client.timedOut # None -> client.timedOut
      [] client.terminal # None /\ client.timedOut = None ->
            CASE client.terminal = "completed" -> IF rc # "0" THEN "worker_crash" ELSE "completed"
              [] client.terminal = "cancelled" /\ ~client.sent -> "invalid_sequence"
              [] OTHER -> IF rc = "0" THEN "invalid_sequence" ELSE client.terminal

\* verify_result may find that a file of the result is not the reported one.
EndOfOutput ==
    /\ client.pc = "loop" /\ AtEof
    /\ \/ Ends(VerdictOf(worker.rc))
       \/ VerdictOf(worker.rc) = "completed" /\ Ends("artifact_invalid")
    /\ UNCHANGED <<worker, stdin, stdout>>

\* The process is killed if it is still there, and the pipes are closed.
Finally ==
    /\ client.pc = "finally"
    /\ client' = [client EXCEPT !.pc = "done"]
    /\ worker' = [worker EXCEPT !.rc = IF WorkerEnded THEN @ ELSE "killed"]
    /\ UNCHANGED <<stdin, stdout>>

\* The GUI process dies; its pipes close with it.
ClientDies ==
    /\ client.pc \notin Broken
    /\ client' = [client EXCEPT !.pc = "dead"]
    /\ UNCHANGED <<worker, stdin, stdout>>

----------------------------------------------------------------------------
ProtocolInit == client = ClientInit /\ worker = WorkerInit /\ stdin = <<>> /\ stdout = <<>>

WorkerMain == Hello \/ ReadRequest \/ Validate \/ CoreStops \/ Complete
              \/ ChooseCode \/ ReportError \/ Exit

WorkerControl == Acknowledge \/ ControlFails \/ ControlCancels

ClientReads == ReceiveHello \/ HelloEof \/ Receive \/ EndOfOutput

ClientWrites == SendRequest \/ SendCancelMessage

ProtocolNext ==
    \/ WorkerMain \/ Report \/ CoreEnds \/ WorkerControl \/ WorkerCrashes
    \/ CallerCancels \/ ClientReads \/ ClientWrites \/ HandshakeTimesOut \/ SpawnRefused
    \/ \E code \in {"process_timeout", "validation_timeout"} : TimesOut(code)
    \/ SilentEnd \/ Finally \/ ClientDies

ProtocolSpec == ProtocolInit /\ [][ProtocolNext]_protocolVars

\* The threads run, and the core comes to look at a cancelled token.  Nothing says that
\* it ends otherwise, that anybody cancels, or that a timer expires.
ProtocolFairness ==
    /\ WF_protocolVars(WorkerMain) /\ WF_protocolVars(WorkerControl)
    /\ WF_protocolVars(ClientReads) /\ WF_protocolVars(ClientWrites) /\ WF_protocolVars(Finally)

ProtocolFairSpec == ProtocolSpec /\ ProtocolFairness

----------------------------------------------------------------------------
(* Properties. *)

\* Both sides agree on how a run ended: a worker that keeps the contract is never
\* refused, success is the worker's own and observed to its exit, and the caller sees
\* `cancelled' only of a core that stopped because of this client's cancel
\* (docs/architecture/b3/protocol.md:66, :75).  The worker itself calls a run cancelled
\* only if a cancel message was read: the end of its input stops it as well, and is an
\* error (protocol.md:76).
BothAgreeOnTheEnd ==
    /\ client.outcome # "invalid_sequence"
    /\ client.outcome = "completed" => worker.code = "completed" /\ worker.rc = "0"
    /\ client.outcome = "cancelled" => worker.code = "cancelled" /\ client.sent /\ worker.asked
    /\ worker.code = "cancelled" /\ worker.pc = "exit" => worker.asked

\* A cancel that is set ends the call, and a worker whose client is gone ends too,
\* however long the core would have worked.
CancelEndsRun ==
    /\ client.cancel ~> client.pc \in Broken
    /\ client.pc = "dead" ~> WorkerEnded
============================================================================
