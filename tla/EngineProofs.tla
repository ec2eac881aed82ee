---------------------------- MODULE EngineProofs ----------------------------
(***************************************************************************)
(* Theorems of WorkerProtocol, NativeBuild, Batch, ModelStore and Devices: *)
(* client and worker agree on how a run has ended, whichever process dies, *)
(* whatever times out, and wherever the cancel crosses the events of the   *)
(* worker; what may be run was built to the end from the pinned source; a  *)
(* file costs the others of its batch nothing; a model that is called      *)
(* normal has the encoder converted last beside it; and a device that is   *)
(* chosen is there and works.                                              *)
(***************************************************************************)
EXTENDS WorkerProtocol, NativeBuild, Batch, ModelStore, Devices, SequenceTheorems,
        FiniteSetTheorems, WellFoundedInduction, TLAPS

-------------------------------------------------------------------------------
(* The inductive invariant *)

Errors        == {"cancelled", "model_missing", "core_failure", "unexpected_eof"}
TerminalTypes == Errors \cup {"completed"}
EventTypes    == {"hello", "accepted", "progress", "validated", "acknowledged"} \cup TerminalTypes
EventRecords  == [type : EventTypes, seq : Nat]

ClientTypes ==
    [pc : {"hello", "send", "loop", "finally"} \cup Broken, cancel : BOOLEAN, sent : BOOLEAN,
     seq : Nat, accepted : BOOLEAN, validated : BOOLEAN, terminal : TerminalTypes \cup {None},
     timedOut : {None, "process_timeout", "validation_timeout"},
     outcome : TerminalTypes \cup {None, "worker_crash", "invalid_sequence", "handshake_timeout",
                  "not journaled", "io_timeout", "artifact_invalid", "process_timeout",
                  "validation_timeout"}]

WorkerTypes ==
    [pc : {"start", "request", "check", "work", "finished", "raised", "report", "exit"},
     control : {None, "reading", "failing", "ended"}, terminal : BOOLEAN, cancelled : BOOLEAN,
     error : {None, "unexpected_eof"}, code : TerminalTypes \cup {None}, seq : Nat, work : Nat,
     asked : BOOLEAN, rc : {Running, "0", "1", "killed"}]

ProtocolTypeOK ==
    /\ client \in ClientTypes
    /\ worker \in WorkerTypes
    /\ stdin \in Seq({"request", "cancel"})
    /\ stdout \in Seq(EventRecords)

\* Before the request is read, and while the client reads events.
Early   == {"start", "request"}
Reading == {"hello", "send", "loop"}

\* What has been sent to the worker: a message that is still there once the request was
\* read is the cancel, and only a cancel makes it acknowledge one.
Messages ==
    /\ client.pc \in {"hello", "send"} => stdin = <<>> /\ ~client.sent /\ worker.pc \in Early
    /\ worker.pc \in Early => Len(stdin) <= 1 \/ client.sent
    /\ worker.pc \notin Early => stdin = <<>> \/ client.sent
    /\ worker.asked => client.sent

\* How far the worker is: the terminal event is its last, and what it was cancelled by
\* decides what it calls the end.
Progress ==
    /\ worker.terminal <=> worker.pc = "exit"
    /\ worker.pc = "start" => worker.seq = 0
    /\ worker.pc = "request" => worker.seq = 1
    /\ worker.pc \notin Early \cup {"exit"} => worker.seq >= 2
    /\ worker.control # None => worker.pc \notin Early /\ worker.seq >= 2
    /\ worker.pc \in {"raised", "report"} => worker.code \in Errors
    /\ worker.pc = "exit" => worker.code \in TerminalTypes
    /\ worker.cancelled => worker.asked \/ worker.error # None
    /\ worker.pc = "raised" /\ worker.code = "cancelled" => worker.cancelled
    /\ worker.pc \in {"report", "exit"} /\ worker.code = "cancelled" => worker.asked
    /\ worker.rc = "0" => worker.pc = "exit" /\ worker.code = "completed"

\* An event on its way: its place in the protocol follows from its number.
InPlace(e, c, w) ==
    /\ e.seq = 0 <=> e.type = "hello"
    /\ e.seq = 1 => e.type \in {"accepted", "unexpected_eof"}
    /\ e.type = "accepted" => e.seq = 1
    /\ e.type = "acknowledged" => c.sent
    /\ e.type \in TerminalTypes => w.pc = "exit" /\ e.type = w.code /\ e.seq = w.seq - 1

Stream ==
    /\ Len(stdout) <= worker.seq
    /\ \A i \in 1..Len(stdout) :
          stdout[i].seq = worker.seq - Len(stdout) + i - 1 /\ InPlace(stdout[i], client, worker)

\* What the client has received.
Received ==
    /\ client.pc \in Reading => client.seq + Len(stdout) = worker.seq
    /\ client.pc = "hello" => client.seq = 0
    /\ client.pc \in {"send", "loop"} => client.seq >= 1
    /\ client.pc \in Reading /\ client.accepted => client.seq >= 2
    /\ client.pc \in Reading /\ client.seq >= 2 => client.accepted \/ client.terminal # None
    /\ client.pc \in Reading /\ client.terminal # None =>
          stdout = <<>> /\ worker.pc = "exit" /\ client.terminal = worker.code

\* What the caller has been told.
Told ==
    /\ client.outcome # "invalid_sequence"
    /\ client.outcome = "completed" => worker.rc = "0"
    /\ client.outcome = "cancelled" =>
          worker.pc = "exit" /\ worker.code = "cancelled" /\ client.sent

ProtocolInv == ProtocolTypeOK /\ Messages /\ Progress /\ Stream /\ Received /\ Told

-------------------------------------------------------------------------------
(* The worker *)

\* A step of the worker that writes nothing, and may read a message.
LEMMA QuietStep ==
    ASSUME ProtocolInv, worker' \in WorkerTypes, Progress', worker'.seq = worker.seq,
           worker.pc = "exit" => worker'.pc = "exit" /\ worker'.code = worker.code,
           worker.rc = "0" => worker'.rc = "0",
           stdin' \in Seq({"request", "cancel"}), Messages',
           UNCHANGED <<client, stdout>>
    PROVE  ProtocolInv'
  <1>1. ProtocolTypeOK'
    BY DEF ProtocolInv, ProtocolTypeOK
  <1>2. Received' /\ Told'
    BY DEF ProtocolInv, Received, Told
  <1>3. Stream'
    <2>1. \A i \in 1..Len(stdout) : InPlace(stdout[i], client, worker')
      BY DEF ProtocolInv, Stream, InPlace
    <2> QED
      BY <2>1 DEF ProtocolInv, Stream
  <1> QED
    BY <1>1, <1>2, <1>3 DEF ProtocolInv

\* A step of the worker that neither reads nor writes.
LEMMA SilentStep ==
    ASSUME ProtocolInv, worker' \in WorkerTypes, Progress',
           worker'.seq = worker.seq, worker'.asked = worker.asked,
           worker'.pc \in Early <=> worker.pc \in Early,
           worker.pc = "exit" => worker'.pc = "exit" /\ worker'.code = worker.code,
           worker.rc = "0" => worker'.rc = "0",
           UNCHANGED <<client, stdin, stdout>>
    PROVE  ProtocolInv'
  <1>1. stdin' \in Seq({"request", "cancel"}) /\ Messages'
    BY DEF ProtocolInv, ProtocolTypeOK, Messages
  <1> QED
    BY <1>1, QuietStep

\* A step of the worker that writes an event.
LEMMA EmitStep ==
    ASSUME ProtocolInv, NEW type \in EventTypes, worker.pc # "exit",
           stdout' = Append(stdout, [type |-> type, seq |-> worker.seq]),
           worker' \in WorkerTypes, Progress', worker'.seq = worker.seq + 1,
           stdin' \in Seq({"request", "cancel"}), Messages', worker'.rc = worker.rc,
           worker.seq = 0 <=> type = "hello",
           worker.seq = 1 => type \in {"accepted", "unexpected_eof"},
           type = "accepted" => worker.seq = 1,
           type = "acknowledged" => client.sent,
           type \in TerminalTypes => worker'.pc = "exit" /\ type = worker'.code,
           UNCHANGED client
    PROVE  ProtocolInv'
  <1> DEFINE e == [type |-> type, seq |-> worker.seq]
  <1>0. worker \in WorkerTypes /\ client \in ClientTypes /\ worker.seq \in Nat /\ client.seq \in Nat
        /\ stdout \in Seq(EventRecords)
    BY DEF ProtocolInv, ProtocolTypeOK, WorkerTypes, ClientTypes
  <1>1. e \in EventRecords /\ e.type = type /\ e.seq = worker.seq
    BY <1>0 DEF EventRecords
  <1> HIDE DEF e
  <1>2. /\ stdout' \in Seq(EventRecords) /\ Len(stdout') = Len(stdout) + 1
        /\ stdout'[Len(stdout) + 1] = e
        /\ \A i \in 1..Len(stdout) : stdout'[i] = stdout[i]
    BY <1>0, <1>1, AppendProperties DEF e
  <1>3. ProtocolTypeOK'
    BY <1>2 DEF ProtocolInv, ProtocolTypeOK
  <1>4. Stream'
    <2>1. Len(stdout) \in Nat /\ Len(stdout) <= worker.seq
      BY <1>0, LenProperties DEF ProtocolInv, Stream
    <2>2. ASSUME NEW i \in 1..Len(stdout)
          PROVE  /\ stdout'[i].seq = worker'.seq - Len(stdout') + i - 1
                 /\ InPlace(stdout'[i], client, worker')
      <3>1. stdout[i].seq = worker.seq - Len(stdout) + i - 1 /\ InPlace(stdout[i], client, worker)
        BY <2>2 DEF ProtocolInv, Stream
      <3>2. stdout'[i] = stdout[i]
        BY <1>2
      <3>3. InPlace(stdout[i], client, worker')
        BY <3>1 DEF InPlace
      <3> QED
        BY <1>0, <1>2, <2>1, <3>1, <3>2, <3>3
    <2>3. e.seq = worker'.seq - Len(stdout') + (Len(stdout) + 1) - 1 /\ InPlace(e, client, worker')
      <3>1. InPlace(e, client, worker')
        BY <1>0, <1>1 DEF InPlace
      <3>2. \A n, l \in Nat : n = (n + 1) - (l + 1) + (l + 1) - 1
        OBVIOUS
      <3>3. worker.seq = worker'.seq - Len(stdout') + (Len(stdout) + 1) - 1
        <4> QED
          BY ONLY <1>0, <1>2, <2>1, <3>2, worker'.seq = worker.seq + 1
      <3> QED
        BY <1>1, <3>1, <3>3
    <2>4. Len(stdout') <= worker'.seq
      BY <1>0, <1>2, <2>1
    <2> QED
      BY <1>2, <2>1, <2>2, <2>3, <2>4 DEF Stream
  <1>5. Received'
    <2>1. Len(stdout) \in Nat
      BY <1>0, LenProperties
    <2>2. client.pc \in Reading => client.seq + Len(stdout) = worker.seq /\ client.terminal = None
      BY DEF ProtocolInv, Received
    <2>3. client.pc \in Reading => client.seq + Len(stdout') = worker'.seq
      BY <1>0, <1>2, <2>1, <2>2
    <2> QED
      BY <2>2, <2>3 DEF ProtocolInv, Received
  <1>6. Told'
    BY DEF ProtocolInv, Told
  <1> QED
    BY <1>3, <1>4, <1>5, <1>6 DEF ProtocolInv


\* What Emit leaves, before the terminal event.
LEMMA EmitWrites ==
    ASSUME ProtocolInv, NEW type \in EventTypes, NEW next \in WorkerTypes,
           next.seq = worker.seq, worker.pc # "exit", Emit(type, next)
    PROVE  /\ stdout' = Append(stdout, [type |-> type, seq |-> worker.seq])
           /\ worker' \in WorkerTypes
           /\ worker'.seq = worker.seq + 1 /\ (worker'.terminal <=> type \in TerminalTypes)
           /\ worker'.pc = next.pc /\ worker'.control = next.control
           /\ worker'.cancelled = next.cancelled /\ worker'.error = next.error
           /\ worker'.code = next.code /\ worker'.asked = next.asked /\ worker'.rc = next.rc
  <1>1. ~worker.terminal
    BY DEF ProtocolInv, Progress
  <1>2. PICK t \in BOOLEAN : t <=> type \in TerminalTypes
    <2>1. CASE type \in TerminalTypes
      BY <2>1
    <2>2. CASE type \notin TerminalTypes
      BY <2>2
    <2> QED
      BY <2>1, <2>2
  <1>3. t = (type \notin {"hello", "accepted", "progress", "validated", "acknowledged"})
    BY <1>2 DEF EventTypes, TerminalTypes, Errors
  <1>4. worker' = [next EXCEPT !.seq = @ + 1, !.terminal = t]
    BY <1>1, <1>3, Zenon DEF Emit
  <1>5. stdout' = Append(stdout, [type |-> type, seq |-> worker.seq])
    BY <1>1 DEF Emit, Event
  <1>6. PICK n \in Nat : n = next.seq + 1
    BY DEF WorkerTypes
  <1>7. worker' = [next EXCEPT !.seq = n, !.terminal = t]
    BY <1>4, <1>6
  <1>8. worker' \in WorkerTypes /\ worker'.terminal = t
    BY <1>7 DEF WorkerTypes
  <1>9. /\ worker'.pc = next.pc /\ worker'.control = next.control
        /\ worker'.cancelled = next.cancelled /\ worker'.error = next.error
        /\ worker'.code = next.code /\ worker'.asked = next.asked /\ worker'.rc = next.rc
        /\ worker'.seq = n
    BY <1>7 DEF WorkerTypes
  <1> QED
    BY <1>2, <1>5, <1>6, <1>8, <1>9

LEMMA HelloStep == ASSUME ProtocolInv, Hello PROVE ProtocolInv'
  <1>1. worker \in WorkerTypes /\ worker.pc = "start" /\ UNCHANGED <<client, stdin>>
    BY DEF Hello, ProtocolInv, ProtocolTypeOK
  <1>2. PICK next : next = [worker EXCEPT !.pc = "request"]
    OBVIOUS
  <1>3. /\ next \in WorkerTypes /\ next.pc = "request" /\ next.control = worker.control
        /\ next.cancelled = worker.cancelled /\ next.error = worker.error
        /\ next.code = worker.code /\ next.asked = worker.asked /\ next.rc = worker.rc
        /\ next.seq = worker.seq
    BY <1>1, <1>2 DEF WorkerTypes
  <1>4. Emit("hello", next)
    BY <1>2 DEF Hello
  <1>5. "hello" \in EventTypes /\ "hello" \notin TerminalTypes
    BY DEF EventTypes, TerminalTypes, Errors
  <1>6. /\ stdout' = Append(stdout, [type |-> "hello", seq |-> worker.seq])
        /\ worker' \in WorkerTypes /\ worker'.seq = worker.seq + 1 /\ ~worker'.terminal
        /\ worker'.pc = "request" /\ worker'.control = worker.control
        /\ worker'.cancelled = worker.cancelled /\ worker'.error = worker.error
        /\ worker'.code = worker.code /\ worker'.asked = worker.asked /\ worker'.rc = worker.rc
    BY <1>1, <1>3, <1>4, <1>5, EmitWrites
  <1>7. worker.seq = 0 /\ Progress'
    BY <1>1, <1>6 DEF ProtocolInv, Progress, Early
  <1>8. Messages' /\ stdin' \in Seq({"request", "cancel"})
    BY <1>1, <1>6 DEF ProtocolInv, ProtocolTypeOK, Messages, Early
  <1> QED
    BY <1>1, <1>5, <1>6, <1>7, <1>8, EmitStep


LEMMA ReadRequestStep == ASSUME ProtocolInv, ReadRequest PROVE ProtocolInv'
  <1>1. /\ worker \in WorkerTypes /\ worker.pc = "request" /\ worker.seq = 1 /\ ~worker.terminal
        /\ stdin \in Seq({"request", "cancel"}) /\ UNCHANGED client
    BY DEF ReadRequest, ProtocolInv, ProtocolTypeOK, Progress
  <1>2. /\ "accepted" \in EventTypes /\ "accepted" \notin TerminalTypes
        /\ "unexpected_eof" \in EventTypes /\ "unexpected_eof" \in TerminalTypes
    BY DEF EventTypes, TerminalTypes, Errors
  <1>3. CASE /\ stdin # <<>> /\ stdin' = Tail(stdin)
             /\ Emit("accepted", [worker EXCEPT !.pc = "check", !.control = "reading"])
    <2>1. PICK next : next = [worker EXCEPT !.pc = "check", !.control = "reading"]
      OBVIOUS
    <2>2. /\ next \in WorkerTypes /\ next.pc = "check" /\ next.control = "reading"
          /\ next.cancelled = worker.cancelled /\ next.error = worker.error
          /\ next.code = worker.code /\ next.asked = worker.asked /\ next.rc = worker.rc
          /\ next.seq = worker.seq
      BY <1>1, <2>1 DEF WorkerTypes
    <2>3. Emit("accepted", next)
      BY <1>3, <2>1
    <2>4. /\ stdout' = Append(stdout, [type |-> "accepted", seq |-> worker.seq])
          /\ worker' \in WorkerTypes /\ worker'.seq = worker.seq + 1 /\ ~worker'.terminal
          /\ worker'.pc = "check" /\ worker'.control = "reading"
          /\ worker'.cancelled = worker.cancelled /\ worker'.error = worker.error
          /\ worker'.code = worker.code /\ worker'.asked = worker.asked /\ worker'.rc = worker.rc
      BY <1>1, <1>2, <2>2, <2>3, EmitWrites
    <2>5. Progress'
      BY <1>1, <2>4 DEF ProtocolInv, Progress, Early
    <2>6. stdin' \in Seq({"request", "cancel"}) /\ (Len(stdin) <= 1 => stdin' = <<>>)
      BY <1>1, <1>3
    <2>7. Messages'
      BY <1>1, <1>3, <2>4, <2>6 DEF ProtocolInv, Messages, Early
    <2> QED
      BY <1>1, <1>2, <2>4, <2>5, <2>6, <2>7, EmitStep
  <1>4. CASE /\ stdin = <<>> /\ StdinClosed /\ UNCHANGED stdin
             /\ Emit("unexpected_eof", [worker EXCEPT !.pc = "exit", !.code = "unexpected_eof"])
    <2>1. PICK next : next = [worker EXCEPT !.pc = "exit", !.code = "unexpected_eof"]
      OBVIOUS
    <2>2. /\ next \in WorkerTypes /\ next.pc = "exit" /\ next.control = worker.control
          /\ next.cancelled = worker.cancelled /\ next.error = worker.error
          /\ next.code = "unexpected_eof" /\ next.asked = worker.asked /\ next.rc = worker.rc
          /\ next.seq = worker.seq
      BY <1>1, <2>1 DEF WorkerTypes, TerminalTypes, Errors
    <2>3. Emit("unexpected_eof", next)
      BY <1>4, <2>1
    <2>4. /\ stdout' = Append(stdout, [type |-> "unexpected_eof", seq |-> worker.seq])
          /\ worker' \in WorkerTypes /\ worker'.seq = worker.seq + 1 /\ worker'.terminal
          /\ worker'.pc = "exit" /\ worker'.control = worker.control
          /\ worker'.cancelled = worker.cancelled /\ worker'.error = worker.error
          /\ worker'.code = "unexpected_eof" /\ worker'.asked = worker.asked
          /\ worker'.rc = worker.rc
      BY <1>1, <1>2, <2>2, <2>3, EmitWrites
    <2>5. Progress'
      BY <1>1, <1>2, <2>4 DEF ProtocolInv, Progress, Early
    <2>6. client.pc \notin {"hello", "send"}
      BY <1>4 DEF StdinClosed, Broken
    <2>7. Messages'
      BY <1>1, <1>4, <2>4, <2>6 DEF ProtocolInv, Messages, Early
    <2> QED
      BY <1>1, <1>2, <1>4, <2>4, <2>5, <2>7, EmitStep
  <1> QED
    BY <1>3, <1>4 DEF ReadRequest

LEMMA ValidateStep == ASSUME ProtocolInv, Validate PROVE ProtocolInv'
  <1>1. /\ worker \in WorkerTypes /\ worker.pc = "check" /\ worker.seq >= 2 /\ ~worker.terminal
        /\ stdin \in Seq({"request", "cancel"}) /\ UNCHANGED <<client, stdin>>
    BY DEF Validate, ProtocolInv, ProtocolTypeOK, Progress, Early
  <1>2. CASE \E c \in {"cancelled", "model_missing"} :
               /\ c = "cancelled" => worker.cancelled
               /\ worker' = [worker EXCEPT !.pc = "raised", !.code = c] /\ UNCHANGED stdout
    <2>1. PICK c \in {"cancelled", "model_missing"} :
             /\ c = "cancelled" => worker.cancelled
             /\ worker' = [worker EXCEPT !.pc = "raised", !.code = c]
      BY <1>2
    <2>2. /\ worker' \in WorkerTypes /\ worker'.pc = "raised" /\ worker'.code = c
          /\ worker'.seq = worker.seq /\ worker'.control = worker.control
          /\ worker'.terminal = worker.terminal /\ worker'.cancelled = worker.cancelled
          /\ worker'.error = worker.error /\ worker'.asked = worker.asked /\ worker'.rc = worker.rc
      BY <1>1, <2>1 DEF WorkerTypes, TerminalTypes, Errors
    <2>3. Progress'
      BY <1>1, <2>1, <2>2 DEF ProtocolInv, Progress, Early, Errors
    <2> QED
      BY <1>1, <1>2, <2>2, <2>3, SilentStep DEF Early
  <1>3. CASE ~worker.cancelled /\ Emit("validated", [worker EXCEPT !.pc = "work"])
    <2>1. PICK next : next = [worker EXCEPT !.pc = "work"]
      OBVIOUS
    <2>2. /\ next \in WorkerTypes /\ next.pc = "work" /\ next.control = worker.control
          /\ next.cancelled = worker.cancelled /\ next.error = worker.error
          /\ next.code = worker.code /\ next.asked = worker.asked /\ next.rc = worker.rc
          /\ next.seq = worker.seq
      BY <1>1, <2>1 DEF WorkerTypes
    <2>3. Emit("validated", next)
      BY <1>3, <2>1
    <2>4. "validated" \in EventTypes /\ "validated" \notin TerminalTypes
      BY DEF EventTypes, TerminalTypes, Errors
    <2>5. /\ stdout' = Append(stdout, [type |-> "validated", seq |-> worker.seq])
          /\ worker' \in WorkerTypes /\ worker'.seq = worker.seq + 1 /\ ~worker'.terminal
          /\ worker'.pc = "work" /\ worker'.control = worker.control
          /\ worker'.cancelled = worker.cancelled /\ worker'.error = worker.error
          /\ worker'.code = worker.code /\ worker'.asked = worker.asked /\ worker'.rc = worker.rc
      BY <1>1, <2>2, <2>3, <2>4, EmitWrites
    <2>6. worker.seq \in Nat /\ Progress'
      BY <1>1, <2>5 DEF ProtocolInv, Progress, Early, WorkerTypes
    <2>7. Messages'
      BY <1>1, <2>5 DEF ProtocolInv, Messages, Early
    <2> QED
      BY <1>1, <2>4, <2>5, <2>6, <2>7, EmitStep
  <1> QED
    BY <1>2, <1>3 DEF Validate

LEMMA ReportStep == ASSUME ProtocolInv, Report PROVE ProtocolInv'
  <1>1. /\ worker \in WorkerTypes /\ worker.pc = "work" /\ worker.seq >= 2 /\ ~worker.terminal
        /\ stdin \in Seq({"request", "cancel"}) /\ UNCHANGED <<client, stdin>>
    BY DEF Report, ProtocolInv, ProtocolTypeOK, Progress, Early
  <1>2. PICK next : next = [worker EXCEPT !.work = @ + 1]
    OBVIOUS
  <1>3. /\ next \in WorkerTypes /\ next.pc = "work" /\ next.control = worker.control
        /\ next.cancelled = worker.cancelled /\ next.error = worker.error
        /\ next.code = worker.code /\ next.asked = worker.asked /\ next.rc = worker.rc
        /\ next.seq = worker.seq
    BY <1>1, <1>2 DEF WorkerTypes
  <1>4. Emit("progress", next)
    BY <1>2 DEF Report
  <1>5. "progress" \in EventTypes /\ "progress" \notin TerminalTypes
    BY DEF EventTypes, TerminalTypes, Errors
  <1>6. /\ stdout' = Append(stdout, [type |-> "progress", seq |-> worker.seq])
        /\ worker' \in WorkerTypes /\ worker'.seq = worker.seq + 1 /\ ~worker'.terminal
        /\ worker'.pc = "work" /\ worker'.control = worker.control
        /\ worker'.cancelled = worker.cancelled /\ worker'.error = worker.error
        /\ worker'.code = worker.code /\ worker'.asked = worker.asked /\ worker'.rc = worker.rc
    BY <1>1, <1>3, <1>4, <1>5, EmitWrites
  <1>7. worker.seq \in Nat /\ Progress'
    BY <1>1, <1>6 DEF ProtocolInv, Progress, Early, WorkerTypes
  <1>8. Messages'
    BY <1>1, <1>6 DEF ProtocolInv, Messages, Early
  <1> QED
    BY <1>1, <1>5, <1>6, <1>7, <1>8, EmitStep


\* What a silent step leaves alone.
Kept(next) ==
    /\ next \in WorkerTypes /\ next.seq = worker.seq /\ next.asked = worker.asked
    /\ next.terminal = worker.terminal

LEMMA CoreStep == ASSUME ProtocolInv, CoreEnds \/ CoreStops PROVE ProtocolInv'
  <1>1. /\ worker \in WorkerTypes /\ worker.pc = "work" /\ worker.seq >= 2 /\ ~worker.terminal
        /\ UNCHANGED <<client, stdin, stdout>>
    BY DEF CoreEnds, CoreStops, ProtocolInv, ProtocolTypeOK, Progress, Early
  <1>2. CASE \E c \in {"cancelled", "core_failure"} :
               /\ c = "cancelled" => worker.cancelled
               /\ worker' = [worker EXCEPT !.pc = "raised", !.code = c]
    <2>1. PICK c \in {"cancelled", "core_failure"} :
             /\ c = "cancelled" => worker.cancelled
             /\ worker' = [worker EXCEPT !.pc = "raised", !.code = c]
      BY <1>2
    <2>2. /\ Kept(worker') /\ worker'.pc = "raised" /\ worker'.code = c
          /\ worker'.control = worker.control /\ worker'.cancelled = worker.cancelled
          /\ worker'.error = worker.error /\ worker'.rc = worker.rc
      BY <1>1, <2>1 DEF Kept, WorkerTypes, TerminalTypes, Errors
    <2>3. Progress'
      BY <1>1, <2>1, <2>2 DEF ProtocolInv, Progress, Early, Errors, Kept
    <2> QED
      BY <1>1, <2>2, <2>3, SilentStep DEF Early, Kept
  <1>3. CASE worker' = [worker EXCEPT !.pc = "finished"]
    <2>1. /\ Kept(worker') /\ worker'.pc = "finished" /\ worker'.code = worker.code
          /\ worker'.control = worker.control /\ worker'.cancelled = worker.cancelled
          /\ worker'.error = worker.error /\ worker'.rc = worker.rc
      BY <1>1, <1>3 DEF Kept, WorkerTypes
    <2>2. Progress'
      BY <1>1, <2>1 DEF ProtocolInv, Progress, Early, Kept
    <2> QED
      BY <1>1, <2>1, <2>2, SilentStep DEF Early, Kept
  <1> QED
    BY <1>2, <1>3 DEF CoreEnds, CoreStops

LEMMA CompleteStep == ASSUME ProtocolInv, Complete PROVE ProtocolInv'
  <1>1. /\ worker \in WorkerTypes /\ worker.pc = "finished" /\ worker.seq >= 2 /\ ~worker.terminal
        /\ stdin \in Seq({"request", "cancel"}) /\ UNCHANGED <<client, stdin>>
    BY DEF Complete, ProtocolInv, ProtocolTypeOK, Progress, Early
  <1>2. CASE worker.error = None
    <2>1. PICK next : next = [worker EXCEPT !.pc = "exit", !.code = "completed"]
      OBVIOUS
    <2>2. /\ next \in WorkerTypes /\ next.pc = "exit" /\ next.control = worker.control
          /\ next.cancelled = worker.cancelled /\ next.error = worker.error
          /\ next.code = "completed" /\ next.asked = worker.asked /\ next.rc = worker.rc
          /\ next.seq = worker.seq
      BY <1>1, <2>1 DEF WorkerTypes, TerminalTypes
    <2>3. Emit("completed", next)
      BY <1>2, <2>1 DEF Complete
    <2>4. "completed" \in EventTypes /\ "completed" \in TerminalTypes
      BY DEF EventTypes, TerminalTypes
    <2>5. /\ stdout' = Append(stdout, [type |-> "completed", seq |-> worker.seq])
          /\ worker' \in WorkerTypes /\ worker'.seq = worker.seq + 1 /\ worker'.terminal
          /\ worker'.pc = "exit" /\ worker'.control = worker.control
          /\ worker'.cancelled = worker.cancelled /\ worker'.error = worker.error
          /\ worker'.code = "completed" /\ worker'.asked = worker.asked /\ worker'.rc = worker.rc
      BY <1>1, <2>2, <2>3, <2>4, EmitWrites
    <2>6. worker.seq \in Nat /\ Progress'
      BY <1>1, <2>4, <2>5 DEF ProtocolInv, Progress, Early, WorkerTypes
    <2>7. Messages'
      BY <1>1, <2>5 DEF ProtocolInv, Messages, Early
    <2> QED
      BY <1>1, <2>4, <2>5, <2>6, <2>7, EmitStep
  <1>3. CASE worker.error # None
    <2>1. /\ worker.error = "unexpected_eof" /\ UNCHANGED stdout
          /\ worker' = [worker EXCEPT !.pc = "raised", !.code = worker.error]
      BY <1>1, <1>3 DEF Complete, WorkerTypes
    <2>2. /\ Kept(worker') /\ worker'.pc = "raised" /\ worker'.code = "unexpected_eof"
          /\ worker'.control = worker.control /\ worker'.cancelled = worker.cancelled
          /\ worker'.error = worker.error /\ worker'.rc = worker.rc
      BY <1>1, <2>1 DEF Kept, WorkerTypes, TerminalTypes, Errors
    <2>3. Progress'
      BY <1>1, <2>2 DEF ProtocolInv, Progress, Early, Errors, Kept
    <2> QED
      BY <1>1, <2>1, <2>2, <2>3, SilentStep DEF Early, Kept
  <1> QED
    BY <1>2, <1>3

LEMMA ChooseCodeStep == ASSUME ProtocolInv, ChooseCode PROVE ProtocolInv'
  <1>1. /\ worker \in WorkerTypes /\ worker.pc = "raised" /\ worker.seq >= 2 /\ ~worker.terminal
        /\ worker.code \in Errors /\ UNCHANGED <<client, stdin, stdout>>
    BY DEF ChooseCode, ProtocolInv, ProtocolTypeOK, Progress, Early
  <1>2. PICK c : c = IF worker.error # None THEN worker.error ELSE worker.code
    OBVIOUS
  <1>3. c \in Errors
    BY <1>1, <1>2 DEF WorkerTypes, Errors
  <1>4. c = "cancelled" => worker.asked
    BY <1>1, <1>2 DEF ProtocolInv, Progress, WorkerTypes
  <1>5. worker' = [worker EXCEPT !.pc = "report", !.code = c]
    BY <1>2 DEF ChooseCode
  <1>6. /\ Kept(worker') /\ worker'.pc = "report" /\ worker'.code = c
        /\ worker'.control = worker.control /\ worker'.cancelled = worker.cancelled
        /\ worker'.error = worker.error /\ worker'.rc = worker.rc
    BY <1>1, <1>3, <1>5 DEF Kept, WorkerTypes, TerminalTypes
  <1>7. Progress'
    BY <1>1, <1>3, <1>4, <1>6 DEF ProtocolInv, Progress, Early, Kept
  <1> QED
    BY <1>1, <1>6, <1>7, SilentStep DEF Early, Kept

LEMMA ReportErrorStep == ASSUME ProtocolInv, ReportError PROVE ProtocolInv'
  <1>1. /\ worker \in WorkerTypes /\ worker.pc = "report" /\ worker.seq >= 2 /\ ~worker.terminal
        /\ worker.code \in Errors
        /\ stdin \in Seq({"request", "cancel"}) /\ UNCHANGED <<client, stdin>>
    BY DEF ReportError, ProtocolInv, ProtocolTypeOK, Progress, Early
  <1>2. PICK next : next = [worker EXCEPT !.pc = "exit"]
    OBVIOUS
  <1>3. /\ next \in WorkerTypes /\ next.pc = "exit" /\ next.control = worker.control
        /\ next.cancelled = worker.cancelled /\ next.error = worker.error
        /\ next.code = worker.code /\ next.asked = worker.asked /\ next.rc = worker.rc
        /\ next.seq = worker.seq
    BY <1>1, <1>2 DEF WorkerTypes
  <1>4. Emit(worker.code, next)
    BY <1>2 DEF ReportError
  <1>5. PICK c \in Errors : c = worker.code
    BY <1>1
  <1>6. c \in EventTypes /\ c \in TerminalTypes /\ c \notin {"hello", "accepted", "acknowledged"}
    BY DEF EventTypes, TerminalTypes, Errors
  <1>7. /\ stdout' = Append(stdout, [type |-> c, seq |-> worker.seq])
        /\ worker' \in WorkerTypes /\ worker'.seq = worker.seq + 1 /\ worker'.terminal
        /\ worker'.pc = "exit" /\ worker'.control = worker.control
        /\ worker'.cancelled = worker.cancelled /\ worker'.error = worker.error
        /\ worker'.code = c /\ worker'.asked = worker.asked /\ worker'.rc = worker.rc
    BY <1>1, <1>3, <1>4, <1>5, <1>6, EmitWrites
  <1>8. worker.seq \in Nat /\ Progress'
    BY <1>1, <1>5, <1>6, <1>7 DEF ProtocolInv, Progress, Early, WorkerTypes
  <1>9. Messages'
    BY <1>1, <1>7 DEF ProtocolInv, Messages, Early
  <1> QED
    BY <1>1, <1>6, <1>7, <1>8, <1>9, EmitStep

LEMMA ExitStep == ASSUME ProtocolInv, Exit \/ WorkerCrashes PROVE ProtocolInv'
  <1>1. worker \in WorkerTypes /\ worker.rc = Running /\ UNCHANGED <<client, stdin, stdout>>
    BY DEF Exit, WorkerCrashes, WorkerEnded, ProtocolInv, ProtocolTypeOK
  <1>2. PICK r \in {"0", "1", "killed"} :
           /\ worker' = [worker EXCEPT !.rc = r]
           /\ r = "0" => worker.pc = "exit" /\ worker.code = "completed"
    BY DEF Exit, WorkerCrashes
  <1>3. /\ Kept(worker') /\ worker'.pc = worker.pc /\ worker'.code = worker.code
        /\ worker'.control = worker.control /\ worker'.cancelled = worker.cancelled
        /\ worker'.error = worker.error /\ worker'.rc = r
    BY <1>1, <1>2 DEF Kept, WorkerTypes
  <1>4. Progress'
    BY <1>2, <1>3 DEF ProtocolInv, Progress, Kept
  <1> QED
    BY <1>1, <1>3, <1>4, SilentStep DEF Kept, Running


LEMMA AcknowledgeStep == ASSUME ProtocolInv, Acknowledge PROVE ProtocolInv'
  <1>1. /\ worker \in WorkerTypes /\ worker.control = "reading" /\ worker.seq >= 2
        /\ worker.pc \notin Early /\ client.sent /\ UNCHANGED client
        /\ client.pc \notin {"hello", "send"} /\ stdin \in Seq({"request", "cancel"})
    BY DEF Acknowledge, ProtocolInv, ProtocolTypeOK, Progress, Messages, None
  <1>2. stdin' \in Seq({"request", "cancel"})
    BY <1>1 DEF Acknowledge
  <1>3. CASE worker.terminal
    <2>1. worker' = [worker EXCEPT !.control = "ended"] /\ UNCHANGED stdout
      BY <1>3 DEF Acknowledge
    <2>2. /\ Kept(worker') /\ worker'.pc = worker.pc /\ worker'.code = worker.code
          /\ worker'.control = "ended" /\ worker'.cancelled = worker.cancelled
          /\ worker'.error = worker.error /\ worker'.rc = worker.rc
      BY <1>1, <2>1 DEF Kept, WorkerTypes
    <2>3. Progress'
      BY <1>1, <2>2 DEF ProtocolInv, Progress, Kept
    <2>4. Messages'
      BY <1>1, <2>2 DEF Messages
    <2> QED
      BY <1>1, <1>2, <2>1, <2>2, <2>3, <2>4, QuietStep DEF Kept
  <1>4. CASE ~worker.terminal
    <2>1. PICK next : next = [worker EXCEPT !.cancelled = TRUE, !.asked = TRUE]
      OBVIOUS
    <2>2. /\ next \in WorkerTypes /\ next.pc = worker.pc /\ next.control = worker.control
          /\ next.cancelled /\ next.error = worker.error
          /\ next.code = worker.code /\ next.asked /\ next.rc = worker.rc
          /\ next.seq = worker.seq
      BY <1>1, <2>1 DEF WorkerTypes
    <2>3. Emit("acknowledged", next)
      BY <1>4, <2>1 DEF Acknowledge
    <2>4. "acknowledged" \in EventTypes /\ "acknowledged" \notin TerminalTypes
      BY DEF EventTypes, TerminalTypes, Errors
    <2>5. worker.pc # "exit"
      BY <1>4 DEF ProtocolInv, Progress
    <2>6. /\ stdout' = Append(stdout, [type |-> "acknowledged", seq |-> worker.seq])
          /\ worker' \in WorkerTypes /\ worker'.seq = worker.seq + 1 /\ ~worker'.terminal
          /\ worker'.pc = worker.pc /\ worker'.control = worker.control
          /\ worker'.cancelled = next.cancelled /\ worker'.error = worker.error
          /\ worker'.code = worker.code /\ worker'.asked = next.asked /\ worker'.rc = worker.rc
      BY <2>2, <2>3, <2>4, <2>5, EmitWrites
    <2>7. worker.seq \in Nat /\ Progress'
      BY <1>1, <2>2, <2>5, <2>6 DEF ProtocolInv, Progress, Early, WorkerTypes
    <2>8. Messages'
      BY <1>1, <2>6 DEF Messages
    <2> QED
      BY <1>1, <1>2, <2>4, <2>5, <2>6, <2>7, <2>8, EmitStep
  <1> QED
    BY <1>3, <1>4

LEMMA ControlEndsStep == ASSUME ProtocolInv, ControlFails \/ ControlCancels PROVE ProtocolInv'
  <1>1. /\ worker \in WorkerTypes /\ UNCHANGED <<client, stdin, stdout>>
        /\ worker.control # None /\ worker.pc \notin Early /\ worker.seq >= 2
    BY DEF ControlFails, ControlCancels, ProtocolInv, ProtocolTypeOK, Progress, None
  <1>2. PICK s \in {"failing", "ended"}, b \in BOOLEAN :
           worker' = [worker EXCEPT !.control = s, !.cancelled = b, !.error = "unexpected_eof"]
    <2>1. CASE ControlFails
      <3>1. worker.cancelled \in BOOLEAN
        BY <1>1 DEF WorkerTypes
      <3>2. worker' = [worker EXCEPT !.control = "failing", !.cancelled = worker.cancelled,
                                     !.error = "unexpected_eof"]
        BY <1>1, <2>1 DEF ControlFails, WorkerTypes
      <3> QED
        BY <3>1, <3>2
    <2>2. CASE ControlCancels
      BY <2>2 DEF ControlCancels
    <2> QED
      BY <2>1, <2>2
  <1>3. Kept(worker')
    BY <1>1, <1>2 DEF Kept, WorkerTypes
  <1>4. /\ worker'.pc = worker.pc /\ worker'.code = worker.code /\ worker'.rc = worker.rc
        /\ worker'.control = s /\ worker'.error = "unexpected_eof"
    BY <1>1, <1>2 DEF WorkerTypes
  <1>5. worker.pc = "raised" /\ worker.code = "cancelled" => worker'.cancelled
    BY <1>1, <1>2 DEF ControlFails, ControlCancels, ProtocolInv, Progress, WorkerTypes
  <1>6. Progress'
    BY <1>1, <1>3, <1>4, <1>5 DEF ProtocolInv, Progress, Kept, None
  <1> QED
    BY <1>1, <1>3, <1>4, <1>6, SilentStep DEF Kept

-------------------------------------------------------------------------------
(* The client *)

\* A step of the client that reads no event.
LEMMA ClientStep ==
    ASSUME ProtocolInv, client' \in ClientTypes, client.sent => client'.sent,
           stdin' \in Seq({"request", "cancel"}), Messages', Received', Told',
           UNCHANGED <<worker, stdout>>
    PROVE  ProtocolInv'
  <1>1. ProtocolTypeOK' /\ Progress'
    BY DEF ProtocolInv, ProtocolTypeOK, Progress
  <1>2. \A i \in 1..Len(stdout) : InPlace(stdout[i], client', worker)
    BY DEF ProtocolInv, Stream, InPlace
  <1>3. Stream'
    BY <1>2 DEF ProtocolInv, Stream
  <1> QED
    BY <1>1, <1>3 DEF ProtocolInv

Outcomes == TerminalTypes \cup {"worker_crash", "handshake_timeout", "not journaled", "io_timeout",
               "artifact_invalid", "process_timeout", "validation_timeout"}

\* The client comes to an outcome.
LEMMA EndsStep ==
    ASSUME ProtocolInv, NEW o \in Outcomes, Ends(o),
           o = "completed" => worker.rc = "0",
           o = "cancelled" => worker.pc = "exit" /\ worker.code = "cancelled" /\ client.sent,
           UNCHANGED <<worker, stdin, stdout>>
    PROVE  ProtocolInv'
  <1>1. /\ client \in ClientTypes /\ stdin \in Seq({"request", "cancel"})
        /\ client' = [client EXCEPT !.pc = "finally", !.outcome = o]
    BY DEF Ends, ProtocolInv, ProtocolTypeOK
  <1>2. o \in TerminalTypes \cup {None, "worker_crash", "invalid_sequence", "handshake_timeout",
                 "not journaled", "io_timeout", "artifact_invalid", "process_timeout",
                 "validation_timeout"} /\ o # "invalid_sequence"
    BY DEF Outcomes, TerminalTypes, Errors
  <1>3. /\ client' \in ClientTypes /\ client'.pc = "finally" /\ client'.outcome = o
        /\ client'.sent = client.sent
    BY <1>1, <1>2 DEF ClientTypes
  <1>4. Messages'
    BY <1>3 DEF ProtocolInv, Messages
  <1>5. Received'
    BY <1>3 DEF Received, Reading
  <1>6. Told'
    BY <1>2, <1>3 DEF Told
  <1> QED
    BY <1>1, <1>3, <1>4, <1>5, <1>6, ClientStep

LEMMA CallerCancelsStep == ASSUME ProtocolInv, CallerCancels PROVE ProtocolInv'
  <1>1. /\ client \in ClientTypes /\ client' = [client EXCEPT !.cancel = TRUE]
        /\ stdin \in Seq({"request", "cancel"}) /\ UNCHANGED <<worker, stdin, stdout>>
    BY DEF CallerCancels, ProtocolInv, ProtocolTypeOK
  <1>2. /\ client' \in ClientTypes /\ client'.pc = client.pc /\ client'.sent = client.sent
        /\ client'.seq = client.seq /\ client'.accepted = client.accepted
        /\ client'.terminal = client.terminal /\ client'.outcome = client.outcome
    BY <1>1 DEF ClientTypes
  <1>3. Messages' /\ Received' /\ Told'
    BY <1>1, <1>2 DEF ProtocolInv, Messages, Received, Told
  <1> QED
    BY <1>1, <1>2, <1>3, ClientStep

LEMMA ClientDiesStep == ASSUME ProtocolInv, ClientDies PROVE ProtocolInv'
  <1>1. /\ client \in ClientTypes /\ client' = [client EXCEPT !.pc = "dead"]
        /\ stdin \in Seq({"request", "cancel"}) /\ UNCHANGED <<worker, stdin, stdout>>
    BY DEF ClientDies, ProtocolInv, ProtocolTypeOK
  <1>2. /\ client' \in ClientTypes /\ client'.pc = "dead" /\ client'.sent = client.sent
        /\ client'.outcome = client.outcome
    BY <1>1 DEF ClientTypes, Broken
  <1>3. Messages' /\ Received' /\ Told'
    BY <1>1, <1>2 DEF ProtocolInv, Messages, Received, Told, Reading
  <1> QED
    BY <1>1, <1>2, <1>3, ClientStep

LEMMA FinallyStep == ASSUME ProtocolInv, Finally PROVE ProtocolInv'
  <1>1. /\ client \in ClientTypes /\ client' = [client EXCEPT !.pc = "done"]
        /\ worker \in WorkerTypes /\ stdin \in Seq({"request", "cancel"})
        /\ client.pc = "finally" /\ UNCHANGED <<stdin, stdout>>
    BY DEF Finally, ProtocolInv, ProtocolTypeOK
  <1>2. /\ client' \in ClientTypes /\ client'.pc = "done" /\ client'.sent = client.sent
        /\ client'.outcome = client.outcome
    BY <1>1 DEF ClientTypes, Broken
  <1>3. PICK r \in {"0", "1", "killed"} :
           worker' = [worker EXCEPT !.rc = r] /\ (r = "0" <=> worker.rc = "0")
    <2>1. CASE worker.rc = Running
      BY <2>1 DEF Finally, WorkerEnded, Running
    <2>2. CASE worker.rc # Running
      BY <1>1, <2>2 DEF Finally, WorkerEnded, WorkerTypes
    <2> QED
      BY <2>1, <2>2
  <1>4. /\ Kept(worker') /\ worker'.pc = worker.pc /\ worker'.code = worker.code
        /\ worker'.control = worker.control /\ worker'.cancelled = worker.cancelled
        /\ worker'.error = worker.error /\ worker'.rc = r
    BY <1>1, <1>3 DEF Kept, WorkerTypes
  <1>5. ProtocolTypeOK'
    BY <1>1, <1>2, <1>4 DEF ProtocolInv, ProtocolTypeOK, Kept
  <1>6. Messages' /\ Received' /\ Told'
    BY <1>1, <1>2, <1>3, <1>4 DEF ProtocolInv, Messages, Received, Told, Reading, Kept
  <1>7. Progress'
    BY <1>3, <1>4 DEF ProtocolInv, Progress, Kept
  <1>8. \A i \in 1..Len(stdout) : InPlace(stdout[i], client', worker')
    BY <1>2, <1>4 DEF ProtocolInv, Stream, InPlace, Kept
  <1>9. Stream'
    BY <1>1, <1>4, <1>8 DEF ProtocolInv, Stream, Kept
  <1> QED
    BY <1>5, <1>6, <1>7, <1>9 DEF ProtocolInv


\* The output ends before a hello, or the client does not wait for it or for the end.
LEMMA GivesUpStep ==
    ASSUME ProtocolInv, HelloEof \/ HandshakeTimesOut \/ SpawnRefused \/ SilentEnd
    PROVE  ProtocolInv'
  <1>1. PICK o \in {"worker_crash", "unexpected_eof", "handshake_timeout", "not journaled",
                    "io_timeout"} :
           Ends(o) /\ UNCHANGED <<worker, stdin, stdout>>
    <2>1. CASE HelloEof
      <3>1. CASE worker.rc # "0"
        BY <2>1, <3>1 DEF HelloEof
      <3>2. CASE worker.rc = "0"
        BY <2>1, <3>2 DEF HelloEof
      <3> QED
        BY <3>1, <3>2
    <2>2. CASE HandshakeTimesOut
      BY <2>2 DEF HandshakeTimesOut
    <2>3. CASE SpawnRefused
      BY <2>3 DEF SpawnRefused
    <2>4. CASE SilentEnd
      BY <2>4 DEF SilentEnd
    <2> QED
      BY <2>1, <2>2, <2>3, <2>4
  <1>2. o \in Outcomes /\ o # "completed" /\ o # "cancelled"
    BY DEF Outcomes, TerminalTypes, Errors
  <1> QED
    BY <1>1, <1>2, EndsStep

\* Writing a message while the process lives.
LEMMA WriteStep ==
    ASSUME ProtocolInv, NEW message \in {"request", "cancel"}, NEW next \in ClientTypes,
           next.pc = "loop", client.sent => next.sent, next.seq = client.seq,
           next.accepted = client.accepted, next.terminal = client.terminal,
           next.outcome = client.outcome, client.pc \in {"send", "loop"},
           next.sent \/ client.pc = "send",
           Writes(message, next), UNCHANGED <<worker, stdout>>
    PROVE  ProtocolInv'
  <1>1. CASE WorkerEnded
    <2>1. "unexpected_eof" \in Outcomes
      BY DEF Outcomes, TerminalTypes, Errors
    <2>2. Ends("unexpected_eof") /\ UNCHANGED stdin
      BY <1>1 DEF Writes
    <2> QED
      BY <2>1, <2>2, EndsStep
  <1>2. CASE ~WorkerEnded
    <2>1. client' = next /\ stdin' = Append(stdin, message) /\ stdin \in Seq({"request", "cancel"})
      BY <1>2 DEF Writes, ProtocolInv, ProtocolTypeOK
    <2>2. stdin' \in Seq({"request", "cancel"}) /\ (stdin = <<>> => Len(stdin') <= 1)
      BY <2>1
    <2>3. Messages'
      BY <2>1, <2>2 DEF ProtocolInv, Messages
    <2>4. Received' /\ Told'
      BY <2>1 DEF ProtocolInv, Received, Told, Reading
    <2> QED
      BY <2>1, <2>2, <2>3, <2>4, ClientStep
  <1> QED
    BY <1>1, <1>2

LEMMA SendRequestStep == ASSUME ProtocolInv, SendRequest PROVE ProtocolInv'
  <1>1. client \in ClientTypes /\ client.pc = "send" /\ UNCHANGED <<worker, stdout>>
    BY DEF SendRequest, ProtocolInv, ProtocolTypeOK
  <1>2. CASE Writes("request", [client EXCEPT !.pc = "loop"])
    <2>1. PICK next : next = [client EXCEPT !.pc = "loop"]
      OBVIOUS
    <2>2. /\ next \in ClientTypes /\ next.pc = "loop" /\ next.sent = client.sent
          /\ next.seq = client.seq /\ next.accepted = client.accepted
          /\ next.terminal = client.terminal /\ next.outcome = client.outcome
      BY <1>1, <2>1 DEF ClientTypes
    <2>3. Writes("request", next)
      BY <1>2, <2>1
    <2> QED
      BY <1>1, <2>2, <2>3, WriteStep
  <1>3. CASE Ends("io_timeout") /\ UNCHANGED stdin
    <2>1. "io_timeout" \in Outcomes
      BY DEF Outcomes
    <2> QED
      BY <1>1, <1>3, <2>1, EndsStep
  <1> QED
    BY <1>2, <1>3 DEF SendRequest

LEMMA SendCancelStep == ASSUME ProtocolInv, SendCancelMessage PROVE ProtocolInv'
  <1>1. client \in ClientTypes /\ client.pc = "loop" /\ UNCHANGED <<worker, stdout>>
    BY DEF SendCancelMessage, ProtocolInv, ProtocolTypeOK
  <1>2. PICK next : next = [client EXCEPT !.sent = TRUE]
    OBVIOUS
  <1>3. /\ next \in ClientTypes /\ next.pc = "loop" /\ next.sent
        /\ next.seq = client.seq /\ next.accepted = client.accepted
        /\ next.terminal = client.terminal /\ next.outcome = client.outcome
    BY <1>1, <1>2 DEF ClientTypes
  <1>4. Writes("cancel", next)
    BY <1>2 DEF SendCancelMessage
  <1> QED
    BY <1>1, <1>3, <1>4, WriteStep

LEMMA TimesOutStep ==
    ASSUME ProtocolInv, NEW code \in {"process_timeout", "validation_timeout"}, TimesOut(code)
    PROVE  ProtocolInv'
  <1>1. client \in ClientTypes /\ client.pc = "loop" /\ UNCHANGED <<worker, stdout>>
    BY DEF TimesOut, ProtocolInv, ProtocolTypeOK
  <1>2. PICK next : next = [client EXCEPT !.timedOut = code, !.sent = TRUE]
    OBVIOUS
  <1>3. /\ next \in ClientTypes /\ next.pc = "loop" /\ next.sent
        /\ next.seq = client.seq /\ next.accepted = client.accepted
        /\ next.terminal = client.terminal /\ next.outcome = client.outcome
    BY <1>1, <1>2 DEF ClientTypes
  <1>4. CASE client.sent
    <2>1. client' = [client EXCEPT !.timedOut = code] /\ UNCHANGED stdin
      BY <1>4 DEF TimesOut
    <2>2. /\ client' \in ClientTypes /\ client'.pc = client.pc /\ client'.sent = client.sent
          /\ client'.seq = client.seq /\ client'.accepted = client.accepted
          /\ client'.terminal = client.terminal /\ client'.outcome = client.outcome
      BY <1>1, <2>1 DEF ClientTypes
    <2>3. Messages' /\ Received' /\ Told' /\ stdin' \in Seq({"request", "cancel"})
      BY <1>1, <2>1, <2>2
         DEF ProtocolInv, ProtocolTypeOK, Messages, Received, Told
    <2> QED
      BY <1>1, <2>2, <2>3, ClientStep
  <1>5. CASE ~client.sent
    <2>1. Writes("cancel", next)
      BY <1>2, <1>5 DEF TimesOut
    <2> QED
      BY <1>1, <1>3, <2>1, WriteStep
  <1> QED
    BY <1>4, <1>5

\* The first event on its way.
LEMMA HeadInPlace ==
    ASSUME ProtocolInv, stdout # <<>>
    PROVE  /\ Head(stdout) \in EventRecords /\ InPlace(Head(stdout), client, worker)
           /\ Head(stdout).seq = worker.seq - Len(stdout)
           /\ Tail(stdout) \in Seq(EventRecords)
           /\ Len(stdout) \in Nat \ {0} /\ Len(Tail(stdout)) = Len(stdout) - 1
           /\ \A i \in 1..Len(Tail(stdout)) : Tail(stdout)[i] = stdout[i + 1]
  <1>1. stdout \in Seq(EventRecords) /\ worker.seq \in Nat
    BY DEF ProtocolInv, ProtocolTypeOK, WorkerTypes
  <1>2. Len(stdout) \in Nat \ {0} /\ Head(stdout) = stdout[1] /\ stdout[1] \in EventRecords
    BY <1>1
  <1>3. stdout[1].seq = worker.seq - Len(stdout) + 1 - 1 /\ InPlace(stdout[1], client, worker)
    BY <1>2 DEF ProtocolInv, Stream
  <1>4. Head(stdout).seq = worker.seq - Len(stdout)
    BY <1>1, <1>2, <1>3
  <1>5. /\ Tail(stdout) \in Seq(EventRecords) /\ Len(Tail(stdout)) = Len(stdout) - 1
        /\ \A i \in 1..Len(Tail(stdout)) : Tail(stdout)[i] = stdout[i + 1]
    BY <1>1, HeadTailProperties
  <1> QED
    BY <1>2, <1>3, <1>4, <1>5

\* A step of the client that takes an event.
LEMMA ReadStep ==
    ASSUME ProtocolInv, stdout # <<>>, stdout' = Tail(stdout), UNCHANGED <<worker, stdin>>,
           client' \in ClientTypes, client'.sent = client.sent, Messages', Received', Told'
    PROVE  ProtocolInv'
  <1>1. stdout \in Seq(EventRecords) /\ worker.seq \in Nat
    BY DEF ProtocolInv, ProtocolTypeOK, WorkerTypes
  <1>2. ProtocolTypeOK' /\ Progress'
    BY HeadInPlace DEF ProtocolInv, ProtocolTypeOK, Progress
  <1>3. Len(stdout) \in Nat \ {0} /\ Len(stdout') = Len(stdout) - 1 /\ Len(stdout') <= worker'.seq
    BY <1>1, HeadInPlace DEF ProtocolInv, Stream
  <1>4. ASSUME NEW i \in 1..Len(stdout')
        PROVE  /\ stdout'[i].seq = worker'.seq - Len(stdout') + i - 1
               /\ InPlace(stdout'[i], client', worker')
    <2>1. stdout'[i] = stdout[i + 1] /\ i + 1 \in 1..Len(stdout)
      BY <1>3, HeadInPlace
    <2>2. /\ stdout[i + 1].seq = worker.seq - Len(stdout) + (i + 1) - 1
          /\ InPlace(stdout[i + 1], client, worker)
      BY <2>1 DEF ProtocolInv, Stream
    <2>3. stdout'[i].seq = worker'.seq - Len(stdout') + i - 1
      BY <1>1, <1>3, <2>1, <2>2
    <2>4. InPlace(stdout'[i], client', worker')
      BY <2>1, <2>2 DEF InPlace
    <2> QED
      BY <2>3, <2>4
  <1>5. Stream'
    BY <1>3, <1>4 DEF Stream
  <1> QED
    BY <1>2, <1>5 DEF ProtocolInv


LEMMA ReceiveHelloStep == ASSUME ProtocolInv, ReceiveHello PROVE ProtocolInv'
  <1>1. /\ client \in ClientTypes /\ client.pc = "hello" /\ stdout # <<>> /\ stdout' = Tail(stdout)
        /\ UNCHANGED <<worker, stdin>>
    BY DEF ReceiveHello, ProtocolInv, ProtocolTypeOK
  <1>2. /\ worker.seq \in Nat /\ client.seq = 0 /\ client.seq + Len(stdout) = worker.seq
        /\ client.terminal = None /\ worker.pc \in Early
    BY <1>1 DEF ProtocolInv, ProtocolTypeOK, Messages, Received, Reading, WorkerTypes
  <1>3. Head(stdout).seq = 0 /\ Head(stdout).type = "hello"
    BY <1>1, <1>2, HeadInPlace DEF InPlace
  <1>4. client' = [client EXCEPT !.pc = "send", !.seq = 1]
    BY <1>3 DEF ReceiveHello
  <1>5. /\ client' \in ClientTypes /\ client'.pc = "send" /\ client'.seq = 1
        /\ client'.sent = client.sent /\ client'.accepted = client.accepted
        /\ client'.terminal = client.terminal /\ client'.outcome = client.outcome
    BY <1>1, <1>4 DEF ClientTypes
  <1>6. Messages' /\ Told'
    BY <1>1, <1>5 DEF ProtocolInv, Messages, Told
  <1>7. Len(stdout) \in Nat \ {0} /\ Len(stdout') = Len(stdout) - 1
    BY <1>1, HeadInPlace
  <1>8. ~client.accepted
    BY <1>1, <1>2 DEF ProtocolInv, Received, Reading
  <1>9. Received'
    BY <1>1, <1>2, <1>5, <1>7, <1>8 DEF Received, Reading, None
  <1> QED
    BY <1>1, <1>5, <1>6, <1>9, ReadStep

\* An event of a worker is never refused.
LEMMA EventIsInSequence ==
    ASSUME ProtocolInv, client.pc = "loop", stdout # <<>>
    PROVE  InSequence(Head(stdout))
  <1>1. /\ client.seq \in Nat /\ worker.seq \in Nat /\ client.seq >= 1
        /\ client.seq + Len(stdout) = worker.seq /\ client.terminal = None
    BY DEF ProtocolInv, ProtocolTypeOK, Received, Reading, ClientTypes, WorkerTypes
  <1>2. /\ Head(stdout) \in EventRecords /\ InPlace(Head(stdout), client, worker)
        /\ Head(stdout).seq = client.seq
    BY <1>1, HeadInPlace
  <1>3. Head(stdout).type = "accepted" => ~client.accepted
    BY <1>2 DEF InPlace, ProtocolInv, Received, Reading
  <1>4. Head(stdout).type \in {"progress", "validated", "acknowledged", "completed"}
           => client.accepted
    BY <1>1, <1>2 DEF InPlace, ProtocolInv, Received, Reading
  <1> QED
    BY <1>1, <1>2, <1>3, <1>4 DEF InSequence, InPlace

LEMMA ReceiveStep == ASSUME ProtocolInv, Receive PROVE ProtocolInv'
  <1>1. /\ client \in ClientTypes /\ client.pc = "loop" /\ stdout # <<>> /\ stdout' = Tail(stdout)
        /\ UNCHANGED <<worker, stdin>>
    BY DEF Receive, ProtocolInv, ProtocolTypeOK
  <1>2. PICK e : e = Head(stdout)
    OBVIOUS
  <1>3. /\ e \in EventRecords /\ InPlace(e, client, worker)
        /\ e.seq = worker.seq - Len(stdout) /\ Len(stdout) \in Nat \ {0}
        /\ Len(stdout') = Len(stdout) - 1
    BY <1>1, <1>2, HeadInPlace
  <1>4. /\ client.seq \in Nat /\ worker.seq \in Nat /\ client.seq >= 1 /\ client.terminal = None
        /\ client.seq + Len(stdout) = worker.seq
    BY <1>1 DEF ProtocolInv, ProtocolTypeOK, Received, Reading, ClientTypes, WorkerTypes
  <1>5. InSequence(e)
    BY <1>1, <1>2, EventIsInSequence
  <1>6. PICK a \in BOOLEAN : a <=> client.accepted \/ e.type = "accepted"
    <2>1. CASE client.accepted \/ e.type = "accepted"
      BY <2>1
    <2>2. CASE ~(client.accepted \/ e.type = "accepted")
      BY <2>2
    <2> QED
      BY <2>1, <2>2
  <1>7. PICK v \in BOOLEAN : v <=> client.validated \/ e.type = "validated"
    <2>1. CASE client.validated \/ e.type = "validated"
      BY <2>1
    <2>2. CASE ~(client.validated \/ e.type = "validated")
      BY <2>2
    <2> QED
      BY <2>1, <2>2
  <1>8. PICK t : t = IF IsTerminal(e) THEN e.type ELSE client.terminal
    OBVIOUS
  <1>9. t \in TerminalTypes \cup {None} /\ (IsTerminal(e) <=> e.type \in TerminalTypes)
        /\ (t # None <=> IsTerminal(e))
    BY <1>3, <1>4, <1>8
       DEF IsTerminal, EventRecords, EventTypes, TerminalTypes, Errors, None
  <1>10. client' = [client EXCEPT !.seq = client.seq + 1, !.accepted = a, !.validated = v,
                                  !.terminal = t]
    <2>1. a = (client.accepted \/ e.type = "accepted")
      BY <1>1, <1>6 DEF ClientTypes
    <2>2. v = (client.validated \/ e.type = "validated")
      BY <1>1, <1>7 DEF ClientTypes
    <2> QED
      BY <1>2, <1>5, <1>8, <2>1, <2>2, Zenon DEF Receive
  <1>11. /\ client' \in ClientTypes /\ client'.pc = "loop" /\ client'.seq = client.seq + 1
         /\ client'.terminal = t /\ client'.sent = client.sent
         /\ client'.outcome = client.outcome
    <2>1. PICK n \in Nat : n = client.seq + 1
      BY <1>4
    <2>2. client' = [client EXCEPT !.seq = n, !.accepted = a, !.validated = v, !.terminal = t]
      BY <1>10, <2>1
    <2>3. client' \in ClientTypes
      BY <1>1, <1>9, <2>2 DEF ClientTypes
    <2>4. /\ client'.pc = client.pc /\ client'.seq = n /\ client'.terminal = t
          /\ client'.sent = client.sent /\ client'.outcome = client.outcome
      BY <1>1, <2>2 DEF ClientTypes
    <2> QED
      BY <1>1, <2>1, <2>3, <2>4
  <1>12. client'.accepted = a
    BY <1>1, <1>10 DEF ClientTypes
  <1>13. Messages' /\ Told'
    BY <1>1, <1>11 DEF ProtocolInv, Messages, Told
  <1>14. Received'
    <2>1. client'.seq + Len(stdout') = worker'.seq /\ client'.seq >= 1
      BY <1>1, <1>3, <1>4, <1>11
    <2>2. client'.accepted => client'.seq >= 2
      BY <1>4, <1>11
    <2>3. client'.seq >= 2 => client'.accepted \/ client'.terminal # None
      <3>1. CASE client.seq = 1
        <4>1. e.type \in {"accepted", "unexpected_eof"}
          BY <1>3, <1>4, <3>1 DEF InPlace
        <4> QED
          BY <1>6, <1>9, <1>11, <1>12, <4>1 DEF TerminalTypes, Errors
      <3>2. CASE client.seq # 1
        <4>1. client.accepted
          BY <1>1, <1>4, <3>2 DEF ProtocolInv, Received, Reading
        <4> QED
          BY <1>6, <1>12, <4>1
      <3> QED
        BY <3>1, <3>2
    <2>4. client'.terminal # None =>
             stdout' = <<>> /\ worker'.pc = "exit" /\ client'.terminal = worker'.code
      <3>1. CASE IsTerminal(e)
        <4>1. e.type \in TerminalTypes /\ t = e.type
          BY <1>8, <1>9, <3>1
        <4>2. worker.pc = "exit" /\ t = worker.code /\ e.seq = worker.seq - 1
          BY <1>3, <4>1 DEF InPlace
        <4>3. Len(stdout') = 0
          BY <1>3, <1>4, <4>2
        <4>4. stdout' \in Seq(EventRecords)
          BY <1>1, HeadInPlace
        <4> QED
          BY <1>1, <1>11, <4>2, <4>3, <4>4, EmptySeq
      <3>2. CASE ~IsTerminal(e)
        BY <1>9, <1>11, <3>2
      <3> QED
        BY <3>1, <3>2
    <2> QED
      BY <1>11, <2>1, <2>2, <2>3, <2>4 DEF Received
  <1> QED
    BY <1>1, <1>11, <1>13, <1>14, ReadStep

\* The verdict is never that the worker broke the contract.
LEMMA VerdictAgrees ==
    ASSUME ProtocolInv, client.pc = "loop", AtEof
    PROVE  /\ VerdictOf(worker.rc) \in Outcomes
           /\ VerdictOf(worker.rc) = "completed" => worker.rc = "0"
           /\ VerdictOf(worker.rc) = "cancelled" =>
                 worker.pc = "exit" /\ worker.code = "cancelled" /\ client.sent
  <1>1. /\ client \in ClientTypes /\ worker \in WorkerTypes
        /\ client.terminal \in TerminalTypes \cup {None}
        /\ client.timedOut \in {None, "process_timeout", "validation_timeout"}
    BY DEF ProtocolInv, ProtocolTypeOK, ClientTypes
  <1>2. None \notin TerminalTypes
    BY DEF None, TerminalTypes, Errors
  <1>3. CASE client.terminal = None
    <2>1. VerdictOf(worker.rc) = IF worker.rc # "0" THEN "worker_crash" ELSE "unexpected_eof"
      BY <1>3 DEF VerdictOf
    <2> QED
      BY <2>1 DEF Outcomes, TerminalTypes, Errors
  <1>4. CASE client.terminal # None /\ client.timedOut # None
    <2>1. VerdictOf(worker.rc) = client.timedOut
      BY <1>4 DEF VerdictOf
    <2> QED
      BY <1>1, <1>4, <2>1 DEF Outcomes, TerminalTypes, Errors
  <1>5. CASE client.terminal # None /\ client.timedOut = None
    <2>1. worker.pc = "exit" /\ client.terminal = worker.code /\ client.terminal \in TerminalTypes
      BY <1>1, <1>5 DEF ProtocolInv, Received, Reading
    <2>2. worker.code = "cancelled" => client.sent
      BY <2>1 DEF ProtocolInv, Progress, Messages
    <2>3. worker.rc = "0" => worker.code = "completed"
      BY DEF ProtocolInv, Progress
    <2>4. CASE client.terminal = "completed"
      <3>1. VerdictOf(worker.rc) = IF worker.rc # "0" THEN "worker_crash" ELSE "completed"
        BY <1>5, <2>4 DEF VerdictOf
      <3> QED
        BY <3>1 DEF Outcomes, TerminalTypes
    <2>5. CASE client.terminal # "completed"
      <3>1. VerdictOf(worker.rc) = client.terminal
        BY <1>5, <2>1, <2>2, <2>3, <2>5 DEF VerdictOf
      <3> QED
        BY <2>1, <2>2, <2>5, <3>1 DEF Outcomes
    <2> QED
      BY <2>4, <2>5
  <1> QED
    BY <1>3, <1>4, <1>5

LEMMA EndOfOutputStep == ASSUME ProtocolInv, EndOfOutput PROVE ProtocolInv'
  <1>1. client.pc = "loop" /\ AtEof /\ UNCHANGED <<worker, stdin, stdout>>
    BY DEF EndOfOutput
  <1>2. PICK o : /\ o = VerdictOf(worker.rc) \/ o = "artifact_invalid"
                 /\ Ends(o)
    BY DEF EndOfOutput
  <1>3. o \in Outcomes /\ (o = "completed" => worker.rc = "0")
        /\ (o = "cancelled" => worker.pc = "exit" /\ worker.code = "cancelled" /\ client.sent)
    BY <1>1, <1>2, VerdictAgrees DEF Outcomes
  <1> QED
    BY <1>1, <1>2, <1>3, EndsStep

-------------------------------------------------------------------------------
(* The theorem *)

LEMMA ProtocolInvInit == ProtocolInit => ProtocolInv
  <1> SUFFICES ASSUME ProtocolInit PROVE ProtocolInv
    OBVIOUS
  <1>1. client = ClientInit /\ worker = WorkerInit /\ stdin = <<>> /\ stdout = <<>>
    BY DEF ProtocolInit
  <1>2. ProtocolTypeOK
    BY <1>1 DEF ProtocolTypeOK, ClientTypes, WorkerTypes, ClientInit, WorkerInit, None, Running
  <1>3. Messages /\ Progress
    BY <1>1 DEF Messages, Progress, ClientInit, WorkerInit, Early, None, Running
  <1>4. Stream
    BY <1>1 DEF Stream, WorkerInit
  <1>5. Received /\ Told
    BY <1>1 DEF Received, Told, ClientInit, WorkerInit, Reading, None
  <1> QED
    BY <1>2, <1>3, <1>4, <1>5 DEF ProtocolInv

LEMMA ProtocolInvStep == ProtocolInv /\ [ProtocolNext]_protocolVars => ProtocolInv'
  <1> SUFFICES ASSUME ProtocolInv, [ProtocolNext]_protocolVars PROVE ProtocolInv'
    OBVIOUS
  <1>1. CASE WorkerMain
    BY <1>1, HelloStep, ReadRequestStep, ValidateStep, CoreStep, CompleteStep, ChooseCodeStep,
       ReportErrorStep, ExitStep DEF WorkerMain
  <1>2. CASE Report \/ CoreEnds \/ WorkerCrashes
    BY <1>2, ReportStep, CoreStep, ExitStep
  <1>3. CASE WorkerControl
    BY <1>3, AcknowledgeStep, ControlEndsStep DEF WorkerControl
  <1>4. CASE ClientReads
    BY <1>4, ReceiveHelloStep, GivesUpStep, ReceiveStep, EndOfOutputStep DEF ClientReads
  <1>5. CASE ClientWrites
    BY <1>5, SendRequestStep, SendCancelStep DEF ClientWrites
  <1>6. CASE HandshakeTimesOut \/ SpawnRefused \/ SilentEnd
    BY <1>6, GivesUpStep
  <1>7. CASE \E code \in {"process_timeout", "validation_timeout"} : TimesOut(code)
    BY <1>7, TimesOutStep
  <1>8. CASE CallerCancels \/ Finally \/ ClientDies
    BY <1>8, CallerCancelsStep, FinallyStep, ClientDiesStep
  <1>9. CASE UNCHANGED protocolVars
    BY <1>9 DEF protocolVars, ProtocolInv, ProtocolTypeOK, Messages, Progress, Stream, InPlace,
                Received, Told
  <1> QED
    BY <1>1, <1>2, <1>3, <1>4, <1>5, <1>6, <1>7, <1>8, <1>9 DEF ProtocolNext

\* Client and worker agree on the end of every run: serve and the control thread of
\* worker.py against WorkerClient._execute, EventSequence.accept and the verdict on the
\* exit code in worker_client.py.
THEOREM ClientAndWorkerAgree == ProtocolSpec => []BothAgreeOnTheEnd
  <1>1. ProtocolInv => BothAgreeOnTheEnd
    BY DEF ProtocolInv, Progress, Messages, Told, BothAgreeOnTheEnd
  <1> QED
    BY <1>1, ProtocolInvInit, ProtocolInvStep, PTL DEF ProtocolSpec

-------------------------------------------------------------------------------
(***************************************************************************)
(* NativeBuild: the inductive invariant                                    *)
(***************************************************************************)

Trees     == [of : Nat, state : {"absent", "whole", "partial", "damaged"}]
Manifests == [of : Nat, backends : SUBSET Backends, errors : SUBSET Backends]
RunTypes  == [pc : {"idle", "source", "variant", "compile", "remove", "replace", "done"},
              want : SUBSET Backends, force : BOOLEAN, known : Manifests, at : 0 .. 5,
              ready : SUBSET Backends, results : SUBSET Backends, errors : SUBSET Backends]

BuildTypeOK ==
    /\ pinned \in Nat \ {0}
    /\ build \in [Backends -> Trees] /\ staging \in [Backends -> Trees]
    /\ manifest \in Manifests
    /\ run \in RunTypes

\* What is recorded and what is there: never of a release to come, never half-made, and
\* what the manifest of a source names was not built of an older one.
BuildsAreNoOlder ==
    /\ manifest.of <= pinned
    /\ \A v \in Backends : build[v].of <= pinned /\ build[v].state # "partial"
    /\ \A v \in manifest.backends : build[v] # NoTree => build[v].of >= manifest.of

AtWork == {"variant", "compile", "remove", "replace"}

\* A build that goes on: what it knew when it began is still so, what it built is of its
\* source, and of what it was asked for it has answered what lies behind it.
AnsweredBefore(r) ==
    \A n \in 1 .. 4 :
      LET v == VARIANT_NAMES[n] IN
      IF n < r.at THEN v \in r.want => (v \in r.results) # (v \in r.errors)
      ELSE v \notin r.results /\ v \notin r.errors

BuildGoesOn ==
    run.pc \in AtWork =>
      /\ run.known = LoadManifest /\ run.at >= 1 /\ run.results \subseteq run.want
      /\ \A v \in run.results : build[v] # NoTree => build[v].of = pinned
      /\ AnsweredBefore(run)
      /\ run.pc # "variant" => run.at <= 4 /\ Current \in run.want
      /\ run.pc \in {"remove", "replace"} => staging[Current] = Tree("whole")

\* One that has not begun has answered nothing.
NothingAnswered == run.pc = "source" => run.results = {} /\ run.errors = {}

BuildInv == NothingAnswered /\ BuildTypeOK /\ BuildsAreNoOlder /\ BuildGoesOn /\ BuildAnswersAll

-------------------------------------------------------------------------------
(* Values of the records *)

LEMMA VariantNames ==
    /\ \A n \in 1 .. 4 : VARIANT_NAMES[n] \in Backends
    /\ \A n \in 1 .. 4, m \in 1 .. 4 : n # m => VARIANT_NAMES[n] # VARIANT_NAMES[m]
    /\ \A v \in Backends : \E n \in 1 .. 4 : v = VARIANT_NAMES[n]
    /\ Backends = {"cpu", "openvino", "vulkan", "openvino_vulkan"}
  <1>1. /\ VARIANT_NAMES[1] = "cpu" /\ VARIANT_NAMES[2] = "openvino"
        /\ VARIANT_NAMES[3] = "vulkan" /\ VARIANT_NAMES[4] = "openvino_vulkan"
    BY DEF VARIANT_NAMES
  <1>2. \A n \in 1 .. 4 : n \in {1, 2, 3, 4}
    OBVIOUS
  <1> QED
    BY <1>1, <1>2 DEF Backends

LEMMA TreeValues ==
    ASSUME pinned \in Nat \ {0}
    PROVE  /\ NoTree \in Trees /\ NoTree.of = 0 /\ NoTree.state = "absent"
           /\ Tree("whole") \in Trees /\ Tree("whole").of = pinned /\ Tree("whole").state = "whole"
           /\ Tree("whole") # NoTree /\ Tree("partial") \in Trees
  BY DEF NoTree, Tree, Trees

LEMMA NoRunTyped ==
    /\ NoManifest \in Manifests /\ NoManifest.of = 0 /\ NoManifest.backends = {}
    /\ NoRun \in RunTypes /\ NoRun.pc = "idle" /\ NoRun.results = {} /\ NoRun.errors = {}
  <1>1. NoManifest \in Manifests /\ NoManifest.of = 0 /\ NoManifest.backends = {}
    BY DEF NoManifest, Manifests
  <1> QED
    BY <1>1 DEF NoRun, RunTypes

LEMMA Known == ASSUME BuildTypeOK PROVE LoadManifest \in Manifests
  BY NoRunTyped DEF BuildTypeOK, LoadManifest

LEMMA DamagedTree ==
    ASSUME BuildTypeOK, BuildsAreNoOlder, NEW v \in Backends
    PROVE  /\ Damaged(v) \in Trees /\ Damaged(v).of = build[v].of /\ Damaged(v).state # "partial"
           /\ Damaged(v) # NoTree => build[v] # NoTree
  BY DEF BuildTypeOK, BuildsAreNoOlder, Damaged, Trees, NoTree

LEMMA CurrentIsABackend ==
    ASSUME BuildTypeOK, run.at >= 1, run.at <= 4
    PROVE  Current \in Backends /\ run.at \in 1 .. 4
  BY VariantNames DEF BuildTypeOK, RunTypes, Current

-------------------------------------------------------------------------------
(* Steps outside of a build, and those that end one *)

\* No command runs afterwards: only what is recorded and what is there counts.
LEMMA NothingRuns ==
    ASSUME pinned' \in Nat \ {0}, build' \in [Backends -> Trees], staging' \in [Backends -> Trees],
           manifest' \in Manifests, run' = NoRun, BuildsAreNoOlder'
    PROVE  BuildInv'
  BY NoRunTyped DEF BuildInv, NothingAnswered, BuildTypeOK, BuildGoesOn, AtWork, BuildAnswersAll, BuildAt

\* A build directory that is removed or damaged keeps its release, or has none.
LEMMA TreesLost ==
    ASSUME BuildTypeOK, BuildsAreNoOlder, pinned' = pinned,
           manifest'.of \in Nat, manifest'.of <= manifest.of,
           manifest'.backends \subseteq manifest.backends,
           \A v \in Backends : build'[v] \in {NoTree, build[v], Damaged(v)}
    PROVE  BuildsAreNoOlder'
  <1>1. pinned \in Nat \ {0} /\ manifest.of \in Nat /\ manifest.backends \subseteq Backends
        /\ \A v \in Backends : build[v] \in Trees /\ build[v].of \in Nat
    BY DEF BuildTypeOK, Manifests, Trees
  <1>2. manifest'.of <= pinned'
    BY <1>1 DEF BuildsAreNoOlder
  <1>3. ASSUME NEW v \in Backends PROVE build'[v].of <= pinned' /\ build'[v].state # "partial"
    BY <1>1, DamagedTree, TreeValues DEF BuildsAreNoOlder
  <1>4. ASSUME NEW v \in manifest'.backends, build'[v] # NoTree PROVE build'[v].of >= manifest'.of
    <2>1. v \in manifest.backends /\ v \in Backends
      BY <1>1
    <2>2. build[v] # NoTree /\ build'[v].of = build[v].of
      BY <1>4, <2>1, DamagedTree
    <2> QED
      BY <1>1, <2>1, <2>2 DEF BuildsAreNoOlder
  <1> QED
    BY <1>2, <1>3, <1>4 DEF BuildsAreNoOlder

LEMMA IdleSteps ==
    ASSUME BuildInv, StartBuild \/ Install \/ CleanAll \/ \E v \in Backends : CleanVariant(v)
    PROVE  BuildInv'
  <1>0. BuildTypeOK /\ BuildsAreNoOlder /\ pinned \in Nat \ {0} /\ manifest \in Manifests
        /\ build \in [Backends -> Trees] /\ staging \in [Backends -> Trees]
    BY DEF BuildInv, BuildTypeOK
  <1>1. CASE StartBuild
    <2>1. PICK want \in Requests, force \in BOOLEAN :
            run' = [NoRun EXCEPT !.pc = "source", !.want = want, !.force = force]
      BY <1>1 DEF StartBuild
    <2>2. PICK r : r = [NoRun EXCEPT !.pc = "source", !.want = want, !.force = force]
      OBVIOUS
    <2>3. want \subseteq Backends
      BY ReleaseAssumption, VariantNames DEF ReleaseAssumption
    <2>4. r \in RunTypes /\ r.pc = "source" /\ r.results = {} /\ r.errors = {}
      BY <2>2, <2>3, NoRunTyped DEF RunTypes
    <2>5. run' \in RunTypes /\ run'.pc = "source" /\ run'.results = {} /\ run'.errors = {}
      BY <2>1, <2>2, <2>4
    <2>6. UNCHANGED <<pinned, build, staging, manifest>>
      BY <1>1 DEF StartBuild
    <2> QED
      BY <1>0, <2>5, <2>6
      DEF BuildInv, NothingAnswered, BuildTypeOK, BuildsAreNoOlder, BuildGoesOn, AtWork, BuildAnswersAll, BuildAt
  <1> SUFFICES ASSUME Install \/ CleanAll \/ \E v \in Backends : CleanVariant(v) PROVE BuildInv'
    BY <1>1
  <1>2. run.pc = "idle" /\ run' = run
    BY DEF Install, CleanAll, CleanVariant, BuildAt
  <1>3. ASSUME pinned' \in Nat \ {0}, build' \in [Backends -> Trees], staging' \in [Backends -> Trees],
               manifest' \in Manifests, BuildsAreNoOlder'
        PROVE  BuildInv'
    BY <1>2, <1>3
    DEF BuildInv, NothingAnswered, BuildTypeOK, BuildGoesOn, AtWork, BuildAnswersAll, BuildAt
  <1>4. CASE Install
    <2>1. pinned' \in Nat \ {0} /\ pinned' > pinned /\ UNCHANGED <<build, staging, manifest>>
      BY <1>4, ReleaseAssumption DEF Install, ReleaseAssumption
    <2>2. \A v \in Backends : build[v].of \in Nat
      BY <1>0 DEF Trees
    <2>3. manifest.of \in Nat
      BY <1>0 DEF Manifests
    <2>4. BuildsAreNoOlder'
      BY <1>0, <2>1, <2>2, <2>3 DEF BuildsAreNoOlder
    <2> QED
      BY <1>0, <1>3, <2>1, <2>4
  <1>5. CASE CleanAll
    <2>1. pinned' = pinned /\ manifest' \in {manifest, NoManifest} /\ staging' \in [Backends -> Trees]
      BY <1>0, <1>5, TreeValues DEF CleanAll
    <2>2. /\ build' \in [Backends -> Trees] /\ \A v \in Backends : build'[v] \in {NoTree, build[v]}
      BY <1>0, <1>5, TreeValues DEF CleanAll
    <2>3. manifest' \in Manifests /\ manifest'.of \in Nat /\ manifest'.of <= manifest.of
          /\ manifest'.backends \subseteq manifest.backends
      BY <1>0, <2>1, NoRunTyped DEF Manifests
    <2> QED
      BY <1>0, <1>3, <2>1, <2>2, <2>3, TreesLost
  <1>6. ASSUME NEW v \in Backends, CleanVariant(v) PROVE BuildInv'
    <2>1. pinned' = pinned /\ staging' = staging
      BY <1>6 DEF CleanVariant
    <2>2. build' \in [Backends -> Trees] /\ \A w \in Backends : build'[w] \in {NoTree, build[w], Damaged(w)}
      BY <1>0, <1>6, TreeValues, DamagedTree DEF CleanVariant
    <2>3. manifest' = manifest \/ manifest' = [manifest EXCEPT !.backends = @ \ {v}]
      BY <1>6 DEF CleanVariant
    <2>4. manifest' \in Manifests /\ manifest'.of = manifest.of
          /\ manifest'.backends \subseteq manifest.backends
      BY <1>0, <2>3 DEF Manifests
    <2>5. manifest'.of \in Nat /\ manifest'.of <= manifest.of
      BY <1>0, <2>4 DEF Manifests
    <2> QED
      BY <1>0, <1>3, <2>1, <2>2, <2>4, <2>5, TreesLost
  <1> QED
    BY <1>4, <1>5, <1>6

LEMMA EndSteps ==
    ASSUME BuildInv, Return \/ CrashBuild \/ RemoveOldFails \/ (EnsureSource /\ Abort)
    PROVE  BuildInv'
  <1>0. BuildTypeOK /\ BuildsAreNoOlder /\ pinned \in Nat \ {0} /\ manifest \in Manifests
        /\ build \in [Backends -> Trees] /\ staging \in [Backends -> Trees]
    BY DEF BuildInv, BuildTypeOK
  <1>1. run' = NoRun /\ UNCHANGED <<pinned, manifest>>
    BY DEF Return, CrashBuild, RemoveOldFails, EnsureSource, Abort
  <1>2. run.pc = "remove" => Current \in Backends
    BY <1>0, CurrentIsABackend DEF BuildInv, BuildGoesOn, AtWork
  <1>3. build' = build \/ (run.pc = "remove" /\ build' = [build EXCEPT ![Current] = Damaged(Current)])
    BY DEF Return, CrashBuild, RemoveOldFails, EnsureSource, BuildAt
  <1>4. build' \in [Backends -> Trees] /\ \A v \in Backends : build'[v] \in {NoTree, build[v], Damaged(v)}
    BY <1>0, <1>2, <1>3, DamagedTree
  <1>5. staging' \in [Backends -> Trees]
    BY <1>0, TreeValues DEF Return, CrashBuild, RemoveOldFails, EnsureSource
  <1>6. manifest.of \in Nat
    BY <1>0 DEF Manifests
  <1>7. BuildsAreNoOlder'
    BY <1>0, <1>1, <1>4, <1>6, TreesLost
  <1> QED
    BY <1>0, <1>1, <1>4, <1>5, <1>7, NothingRuns

-------------------------------------------------------------------------------
(* Steps of a build *)

LEMMA BuildBegins ==
    ASSUME BuildInv, EnsureSource, ~Abort
    PROVE  BuildInv'
  <1>0. BuildTypeOK /\ run \in RunTypes /\ run.results = {} /\ run.errors = {}
    BY DEF BuildInv, NothingAnswered, BuildTypeOK, EnsureSource, BuildAt
  <1>1. run' = [run EXCEPT !.pc = "variant", !.at = 1, !.known = LoadManifest]
        /\ UNCHANGED <<pinned, build, staging, manifest>>
    BY DEF EnsureSource
  <1> DEFINE known == LoadManifest
  <1>a. known \in Manifests
    BY <1>0, Known
  <1> HIDE DEF known
  <1>2. PICK r : r = [run EXCEPT !.pc = "variant", !.at = 1, !.known = known]
    OBVIOUS
  <1>3. r \in RunTypes /\ r.pc = "variant" /\ r.at = 1 /\ r.known = known
        /\ r.results = {} /\ r.errors = {}
    <2>1. PICK a : a = [run EXCEPT !.pc = "variant"]
      OBVIOUS
    <2>2. a \in RunTypes /\ a.pc = "variant" /\ a.results = {} /\ a.errors = {}
      BY <1>0, <2>1 DEF RunTypes
    <2>3. PICK b : b = [a EXCEPT !.at = 1]
      OBVIOUS
    <2>4. b \in RunTypes /\ b.pc = "variant" /\ b.at = 1 /\ b.results = {} /\ b.errors = {}
      BY <2>2, <2>3 DEF RunTypes
    <2>5. r = [b EXCEPT !.known = known]
      BY <1>2, <2>1, <2>3
    <2> QED
      BY ONLY <1>a, <2>4, <2>5 DEF RunTypes
  <1>4. run' \in RunTypes /\ run'.pc = "variant" /\ run'.at = 1 /\ run'.known = known
        /\ run'.results = {} /\ run'.errors = {}
    BY <1>1, <1>2, <1>3 DEF known
  <1>5. known = LoadManifest'
    BY <1>1 DEF known, LoadManifest, NoManifest
  <1>6. AnsweredBefore(run')
    BY <1>4 DEF AnsweredBefore
  <1> QED
    BY <1>0, <1>1, <1>4, <1>5, <1>6
    DEF BuildInv, NothingAnswered, BuildTypeOK, BuildsAreNoOlder, BuildGoesOn, AtWork,
        BuildAnswersAll, BuildAt

LEMMA FollowingRun ==
    ASSUME NEW r \in RunTypes, r.at \in 1 .. 4
    PROVE  /\ Following(r) \in RunTypes /\ Following(r).pc = "variant" /\ Following(r).at = r.at + 1
           /\ Following(r).want = r.want /\ Following(r).known = r.known
           /\ Following(r).results = r.results /\ Following(r).errors = r.errors
  <1>1. PICK s : s = [r EXCEPT !.pc = "variant", !.at = r.at + 1]
    OBVIOUS
  <1> DEFINE next == r.at + 1
  <1>0. next \in 0 .. 5
    OBVIOUS
  <1> HIDE DEF next
  <1>2. s \in RunTypes /\ s.pc = "variant" /\ s.at = next /\ s.want = r.want
        /\ s.known = r.known /\ s.results = r.results /\ s.errors = r.errors
    <2>1. PICK a : a = [r EXCEPT !.pc = "variant"]
      OBVIOUS
    <2>2. a \in RunTypes /\ a.pc = "variant" /\ a.want = r.want /\ a.known = r.known
          /\ a.results = r.results /\ a.errors = r.errors
      BY <2>1 DEF RunTypes
    <2>3. s = [a EXCEPT !.at = next]
      BY <1>1, <2>1 DEF next
    <2> QED
      BY <1>0, <2>2, <2>3 DEF RunTypes
  <1>3. Following(r) = s
    BY <1>1 DEF Following
  <1> QED
    BY <1>2, <1>3 DEF next

\* The run after a variant was considered: `r' knows and wants the same.
FollowsWith(r, results, errors) ==
    /\ r \in RunTypes /\ r.pc = "variant" /\ r.at = run.at + 1
    /\ r.want = run.want /\ r.known = run.known
    /\ r.results = results /\ r.errors = errors

LEMMA FollowingValues ==
    ASSUME BuildTypeOK, run.at \in 1 .. 4
    PROVE  /\ FollowsWith(Following(run), run.results, run.errors)
           /\ FollowsWith(Following([run EXCEPT !.ready = @ \union {Current}]), run.results, run.errors)
           /\ FollowsWith(Built(run), run.results \union {Current}, run.errors)
           /\ FollowsWith(Failed(run), run.results, run.errors \union {Current})
  <1>0. run \in RunTypes /\ Current \in Backends
    BY CurrentIsABackend DEF BuildTypeOK
  <1> DEFINE v == Current
  <1> HIDE DEF v
  <1>1. FollowsWith(Following(run), run.results, run.errors)
    BY <1>0, FollowingRun DEF FollowsWith
  <1>2. PICK r : r = [run EXCEPT !.ready = @ \union {Current}]
    OBVIOUS
  <1>3. r \in RunTypes /\ r.at = run.at /\ r.want = run.want /\ r.known = run.known
        /\ r.results = run.results /\ r.errors = run.errors
    BY <1>0, <1>2 DEF RunTypes
  <1>4. FollowsWith(Following(r), run.results, run.errors)
    BY <1>3, FollowingRun DEF FollowsWith
  <1>5. PICK b : b = [run EXCEPT !.results = @ \union {Current}, !.ready = @ \union {Current}]
    OBVIOUS
  <1>6. b \in RunTypes /\ b.at = run.at /\ b.want = run.want /\ b.known = run.known
        /\ b.results = run.results \union {Current} /\ b.errors = run.errors
    BY <1>0, <1>5 DEF RunTypes
  <1>7. FollowsWith(Following(b), run.results \union {Current}, run.errors)
    BY <1>6, FollowingRun DEF FollowsWith
  <1>8. PICK f : f = [run EXCEPT !.errors = @ \union {Current}]
    OBVIOUS
  <1>9. f \in RunTypes /\ f.at = run.at /\ f.want = run.want /\ f.known = run.known
        /\ f.results = run.results /\ f.errors = run.errors \union {Current}
    BY <1>0, <1>8 DEF RunTypes
  <1>10. FollowsWith(Following(f), run.results, run.errors \union {Current})
    BY <1>9, FollowingRun DEF FollowsWith
  <1> QED
    BY <1>1, <1>2, <1>4, <1>5, <1>7, <1>8, <1>10 DEF Built, Failed

\* The variant at hand is answered, and the others are as before.
LEMMA Answered ==
    ASSUME BuildTypeOK, run.at \in 1 .. 4, AnsweredBefore(run),
           NEW r, NEW R, NEW E, FollowsWith(r, R, E),
           R \in {run.results, run.results \union {Current}},
           E \in {run.errors, run.errors \union {Current}},
           Current \in run.want => (Current \in R) # (Current \in E)
    PROVE  AnsweredBefore(r)
  <1> SUFFICES ASSUME NEW n \in 1 .. 4
               PROVE  IF n < r.at THEN VARIANT_NAMES[n] \in r.want =>
                                         (VARIANT_NAMES[n] \in r.results) # (VARIANT_NAMES[n] \in r.errors)
                      ELSE VARIANT_NAMES[n] \notin r.results /\ VARIANT_NAMES[n] \notin r.errors
    BY DEF AnsweredBefore
  <1>1. r.want = run.want /\ r.results = R /\ r.errors = E /\ r.at = run.at + 1
    BY DEF FollowsWith
  <1>2. CASE n = run.at
    <2>1. VARIANT_NAMES[n] = Current /\ n < r.at
      BY <1>1, <1>2 DEF Current
    <2> QED
      BY <1>1, <2>1
  <1>3. CASE n # run.at
    <2>1. VARIANT_NAMES[n] # Current
      BY <1>3, VariantNames DEF Current
    <2>2. (n < r.at) = (n < run.at)
      BY <1>1, <1>3
    <2>3. (VARIANT_NAMES[n] \in R) = (VARIANT_NAMES[n] \in run.results)
          /\ (VARIANT_NAMES[n] \in E) = (VARIANT_NAMES[n] \in run.errors)
      BY <2>1
    <2>4. IF n < run.at THEN VARIANT_NAMES[n] \in run.want =>
                               (VARIANT_NAMES[n] \in run.results) # (VARIANT_NAMES[n] \in run.errors)
          ELSE VARIANT_NAMES[n] \notin run.results /\ VARIANT_NAMES[n] \notin run.errors
      BY DEF AnsweredBefore
    <2> QED
      BY <1>1, <2>2, <2>3, <2>4
  <1> QED
    BY <1>2, <1>3

\* A variant is answered: what was built is of the source.
LEMMA VariantDone ==
    ASSUME BuildInv, run.pc \in AtWork, run.at \in 1 .. 4, UNCHANGED <<pinned, manifest>>,
           build' \in [Backends -> Trees], staging' \in [Backends -> Trees], BuildsAreNoOlder',
           NEW R, NEW E, FollowsWith(run', R, E),
           R \in {run.results, run.results \union {Current}},
           E \in {run.errors, run.errors \union {Current}},
           Current \in run.want => (Current \in R) # (Current \in E),
           R \subseteq run.want,
           \A v \in R : build'[v] # NoTree => build'[v].of = pinned
    PROVE  BuildInv'
  <1>1. BuildTypeOK /\ AnsweredBefore(run) /\ run.known = LoadManifest
    BY DEF BuildInv, BuildGoesOn
  <1>2. AnsweredBefore(run')
    BY <1>1, Answered
  <1>3. /\ run' \in RunTypes /\ run'.pc = "variant" /\ run'.at = run.at + 1 /\ run'.want = run.want
        /\ run'.known = run.known /\ run'.results = R
    BY DEF FollowsWith
  <1>4. LoadManifest' = LoadManifest
    BY DEF LoadManifest, NoManifest
  <1>5. BuildTypeOK'
    BY <1>1, <1>3 DEF BuildTypeOK
  <1>6. BuildGoesOn'
    <2>1. run'.known = LoadManifest' /\ run'.at >= 1 /\ run'.results \subseteq run'.want
      BY <1>1, <1>3, <1>4
    <2>2. \A v \in run'.results : build'[v] # NoTree => build'[v].of = pinned'
      BY <1>3
    <2> QED
      BY <1>2, <1>3, <2>1, <2>2 DEF BuildGoesOn
  <1> QED
    BY <1>3, <1>5, <1>6 DEF BuildInv, NothingAnswered, BuildAnswersAll, BuildAt

\* What is said here of a variant that is answered without a new build.
LEMMA AnswerSteps ==
    ASSUME BuildInv, SkipVariant \/ LacksPrerequisite \/ ReuseBuild
    PROVE  BuildInv'
  <1>0. /\ BuildTypeOK /\ BuildsAreNoOlder /\ pinned \in Nat \ {0} /\ manifest \in Manifests
        /\ build \in [Backends -> Trees] /\ staging \in [Backends -> Trees]
        /\ run.pc = "variant" /\ run.pc \in AtWork /\ run.at \in 1 .. 4
        /\ run.results \subseteq run.want /\ AnsweredBefore(run) /\ run.known = LoadManifest
        /\ \A v \in run.results : build[v] # NoTree => build[v].of = pinned
    <2>1. run.pc = "variant" /\ run.at <= 4
      BY DEF SkipVariant, LacksPrerequisite, ReuseBuild, Considered, BuildAt
    <2>2. run.at \in 0 .. 5
      BY DEF BuildInv, BuildTypeOK, RunTypes
    <2> QED
      BY <2>1, <2>2 DEF BuildInv, BuildTypeOK, BuildGoesOn, AtWork
  <1>1. UNCHANGED <<pinned, manifest, build, staging>>
    BY DEF SkipVariant, LacksPrerequisite, ReuseBuild
  <1>2. BuildsAreNoOlder'
    BY <1>0, <1>1 DEF BuildsAreNoOlder, NoTree
  <1>3. Current \in Backends /\ Current \notin run.results /\ Current \notin run.errors
    BY <1>0, CurrentIsABackend DEF AnsweredBefore, Current
  <1>v. /\ FollowsWith(Following(run), run.results, run.errors)
        /\ FollowsWith(Following([run EXCEPT !.ready = @ \union {Current}]), run.results, run.errors)
        /\ FollowsWith(Built(run), run.results \union {Current}, run.errors)
        /\ FollowsWith(Failed(run), run.results, run.errors \union {Current})
    BY <1>0, FollowingValues
  <1>4. ASSUME FollowsWith(run', run.results, run.errors), Current \notin run.want PROVE BuildInv'
    BY <1>0, <1>1, <1>2, <1>4, VariantDone
  <1>5. CASE SkipVariant
    BY <1>4, <1>5, <1>v DEF SkipVariant, Probed
  <1>6. CASE LacksPrerequisite
    <2>1. FollowsWith(run', run.results, run.errors \union {Current})
      BY <1>6, <1>v DEF LacksPrerequisite
    <2> QED
      BY <1>0, <1>1, <1>2, <1>3, <2>1, VariantDone
  <1>7. CASE ReuseBuild /\ Current \notin run.want
    <2>1. FollowsWith(run', run.results, run.errors)
      BY <1>7, <1>v DEF ReuseBuild
    <2> QED
      BY <1>4, <1>7, <2>1
  <1>8. CASE ReuseBuild /\ Current \in run.want
    <2>1. FollowsWith(run', run.results \union {Current}, run.errors)
      BY <1>8, <1>v DEF ReuseBuild
    <2>2. Current \in LoadManifest.backends
      BY <1>0, <1>8 DEF ReuseBuild, StillBuilt
    <2>3. manifest.of = pinned /\ Current \in manifest.backends
      BY <2>2, NoRunTyped DEF LoadManifest
    <2>4. build[Current] # NoTree => build[Current].of = pinned
      <3>1. build[Current].of \in Nat
        BY <1>0, <1>3 DEF Trees
      <3> QED
        BY <1>0, <1>3, <2>3, <3>1 DEF BuildsAreNoOlder
    <2>5. \A v \in run.results \union {Current} : build'[v] # NoTree => build'[v].of = pinned
      BY <1>0, <1>1, <2>4
    <2> QED
      BY <1>0, <1>1, <1>2, <1>3, <1>8, <2>1, <2>5, VariantDone
  <1> QED
    BY <1>5, <1>6, <1>7, <1>8

\* A build of the variant at hand goes from one step to the next.
LEMMA AtCurrent ==
    ASSUME BuildInv, run.pc \in {"compile", "remove", "replace"}
    PROVE  /\ BuildTypeOK /\ BuildsAreNoOlder /\ pinned \in Nat \ {0} /\ manifest \in Manifests
           /\ build \in [Backends -> Trees] /\ staging \in [Backends -> Trees] /\ run \in RunTypes
           /\ run.pc \in AtWork /\ run.at \in 1 .. 4
           /\ run.results \subseteq run.want /\ AnsweredBefore(run) /\ run.known = LoadManifest
           /\ \A v \in run.results : build[v] # NoTree => build[v].of = pinned
           /\ Current \in Backends /\ Current \in run.want
           /\ Current \notin run.results /\ Current \notin run.errors
  <1>1. /\ BuildTypeOK /\ BuildsAreNoOlder /\ pinned \in Nat \ {0} /\ manifest \in Manifests
        /\ build \in [Backends -> Trees] /\ staging \in [Backends -> Trees] /\ run \in RunTypes
        /\ run.pc \in AtWork /\ run.at \in 1 .. 4
        /\ run.results \subseteq run.want /\ AnsweredBefore(run) /\ run.known = LoadManifest
        /\ \A v \in run.results : build[v] # NoTree => build[v].of = pinned
        /\ Current \in run.want
    BY DEF BuildInv, BuildTypeOK, BuildGoesOn, AtWork, RunTypes
  <1>2. Current \in Backends /\ Current \notin run.results /\ Current \notin run.errors
    BY <1>1, CurrentIsABackend DEF AnsweredBefore, Current
  <1> QED
    BY <1>1, <1>2

\* The run changes its place, and nothing else of it.
LEMMA BuildGoesTo ==
    ASSUME NEW pc \in {"compile", "remove", "replace", "done"}, run \in RunTypes, run' = [run EXCEPT !.pc = pc]
    PROVE  /\ run' \in RunTypes /\ run'.pc = pc /\ run'.at = run.at /\ run'.want = run.want
           /\ run'.known = run.known /\ run'.results = run.results /\ run'.errors = run.errors
  BY DEF RunTypes

\* The build goes on with the variant at hand.
LEMMA BuildStays ==
    ASSUME BuildInv, run.pc \in AtWork, run.at \in 1 .. 4, Current \in run.want,
           UNCHANGED <<pinned, manifest>>,
           build' \in [Backends -> Trees], staging' \in [Backends -> Trees], BuildsAreNoOlder',
           NEW pc \in {"compile", "remove", "replace"}, run' = [run EXCEPT !.pc = pc],
           \A v \in run.results : build'[v] # NoTree => build'[v].of = pinned,
           pc # "compile" => staging'[Current] = Tree("whole")
    PROVE  BuildInv'
  <1>0. BuildTypeOK /\ run \in RunTypes /\ AnsweredBefore(run) /\ run.known = LoadManifest
        /\ run.results \subseteq run.want
    BY DEF BuildInv, BuildTypeOK, BuildGoesOn
  <1>1. /\ run' \in RunTypes /\ run'.pc = pc /\ run'.at = run.at /\ run'.want = run.want
        /\ run'.known = run.known /\ run'.results = run.results /\ run'.errors = run.errors
    BY <1>0, BuildGoesTo
  <1>2. Current' = Current /\ Tree("whole")' = Tree("whole") /\ LoadManifest' = LoadManifest
    BY <1>1 DEF Current, Tree, LoadManifest, NoManifest
  <1>3. AnsweredBefore(run')
    BY <1>0, <1>1 DEF AnsweredBefore
  <1>4. BuildGoesOn'
    BY <1>0, <1>1, <1>2, <1>3 DEF BuildGoesOn
  <1> QED
    BY <1>0, <1>1, <1>4 DEF BuildInv, BuildTypeOK, NothingAnswered, BuildAnswersAll, BuildAt

LEMMA CompileSteps ==
    ASSUME BuildInv, Configure \/ Compile \/ CompileFails
    PROVE  BuildInv'
  <1>0. UNCHANGED <<pinned, manifest, build>>
    BY DEF Configure, Compile, CompileFails
  <1>1. BuildsAreNoOlder'
    BY <1>0 DEF BuildInv, BuildsAreNoOlder, NoTree
  <1>2. CASE Configure
    <2>1. /\ BuildTypeOK /\ run.pc \in AtWork /\ run.at \in 1 .. 4 /\ Current \in run.want
          /\ build \in [Backends -> Trees] /\ staging \in [Backends -> Trees] /\ pinned \in Nat \ {0}
          /\ \A v \in run.results : build[v] # NoTree => build[v].of = pinned
      BY <1>2 DEF BuildInv, BuildTypeOK, BuildGoesOn, AtWork, Configure, Considered, BuildAt, RunTypes
    <2>2. staging' \in [Backends -> Trees]
      BY <1>2, <2>1, TreeValues DEF Configure
    <2>3. run' = [run EXCEPT !.pc = "compile"]
      BY <1>2 DEF Configure, BuildGoes
    <2> QED
      BY <1>0, <1>1, <2>1, <2>2, <2>3, BuildStays
  <1>3. CASE Compile
    <2>1. run.pc = "compile" /\ run' = [run EXCEPT !.pc = "remove"]
          /\ staging' = [staging EXCEPT ![Current] = Tree("whole")]
      BY <1>3 DEF Compile, BuildAt, BuildGoes
    <2>2. staging' \in [Backends -> Trees] /\ staging'[Current] = Tree("whole")
      BY <2>1, AtCurrent, TreeValues
    <2> QED
      BY <1>0, <1>1, <2>1, <2>2, AtCurrent, BuildStays
  <1>4. CASE CompileFails
    <2>1. run.pc = "compile" /\ run' = Failed(run) /\ staging' = [staging EXCEPT ![Current] = NoTree]
      BY <1>4 DEF CompileFails, BuildAt
    <2>2. staging' \in [Backends -> Trees]
      BY <2>1, AtCurrent, TreeValues
    <2>3. FollowsWith(run', run.results, run.errors \union {Current})
      BY <2>1, AtCurrent, FollowingValues
    <2> QED
      BY <1>0, <1>1, <2>1, <2>2, <2>3, AtCurrent, VariantDone
  <1> QED
    BY <1>2, <1>3, <1>4

LEMMA ReplaceSteps ==
    ASSUME BuildInv, RemoveOld \/ Replace
    PROVE  BuildInv'
  <1>0. UNCHANGED <<pinned, manifest>>
    BY DEF RemoveOld, Replace
  <1>1. CASE RemoveOld
    <2>1. run.pc = "remove" /\ run' = [run EXCEPT !.pc = "replace"] /\ staging' = staging
          /\ build' = [build EXCEPT ![Current] = NoTree]
      BY <1>1 DEF RemoveOld, BuildAt, BuildGoes
    <2>2. build' \in [Backends -> Trees] /\ \A v \in Backends : build'[v] \in {NoTree, build[v], Damaged(v)}
      BY <2>1, AtCurrent, TreeValues
    <2>3. BuildsAreNoOlder'
      <3>1. manifest'.of \in Nat /\ manifest'.of <= manifest.of /\ manifest'.backends \subseteq manifest.backends
        BY <1>0, <2>1, AtCurrent DEF Manifests
      <3> QED
        BY <1>0, <2>1, <2>2, <3>1, AtCurrent, TreesLost
    <2>4. \A v \in run.results : build'[v] # NoTree => build'[v].of = pinned
      BY <2>1, AtCurrent
    <2>5. staging[Current] = Tree("whole")
      BY <2>1 DEF BuildInv, BuildGoesOn, AtWork
    <2> QED
      BY <1>0, <2>1, <2>2, <2>3, <2>4, <2>5, AtCurrent, BuildStays
  <1>2. CASE Replace
    <2>1. run.pc = "replace" /\ run' = Built(run)
          /\ build' = [build EXCEPT ![Current] = staging[Current]]
          /\ staging' = [staging EXCEPT ![Current] = NoTree]
      BY <1>2 DEF Replace, BuildAt
    <2>2. staging[Current] = Tree("whole")
      BY <2>1 DEF BuildInv, BuildGoesOn, AtWork
    <2>3. staging' \in [Backends -> Trees] /\ build' \in [Backends -> Trees]
          /\ \A v \in Backends : build'[v] = IF v = Current THEN Tree("whole") ELSE build[v]
      BY <2>1, <2>2, AtCurrent, TreeValues
    <2>4. FollowsWith(run', run.results \union {Current}, run.errors)
      BY <2>1, AtCurrent, FollowingValues
    <2>5. BuildsAreNoOlder'
      <3>1. \A v \in manifest.backends : v \in Backends
        BY <2>1, AtCurrent DEF Manifests
      <3>2. manifest.of \in Nat /\ manifest.of <= pinned
        BY <2>1, AtCurrent DEF Manifests, BuildsAreNoOlder
      <3>3. ASSUME NEW v \in Backends
            PROVE  /\ build'[v].of <= pinned' /\ build'[v].state # "partial"
                   /\ v \in manifest'.backends => (build'[v] # NoTree => build'[v].of >= manifest'.of)
        <4>1. CASE v = Current
          BY <1>0, <2>1, <2>3, <3>2, <4>1, AtCurrent, TreeValues
        <4>2. CASE v # Current
          BY <1>0, <2>1, <2>3, <4>2, AtCurrent DEF BuildsAreNoOlder
        <4> QED
          BY <4>1, <4>2
      <3> QED
        BY <1>0, <3>1, <3>2, <3>3 DEF BuildsAreNoOlder, NoTree
    <2>6. \A v \in run.results \union {Current} : build'[v] # NoTree => build'[v].of = pinned
      BY <2>1, <2>3, AtCurrent, TreeValues DEF RunTypes
    <2> QED
      BY <1>0, <2>1, <2>3, <2>4, <2>5, <2>6, AtCurrent, VariantDone
  <1> QED
    BY <1>1, <1>2

LEMMA ManifestStep == ASSUME BuildInv, WriteManifest PROVE BuildInv'
  <1>0. /\ BuildTypeOK /\ BuildsAreNoOlder /\ pinned \in Nat \ {0} /\ manifest \in Manifests
        /\ build \in [Backends -> Trees] /\ staging \in [Backends -> Trees] /\ run \in RunTypes
        /\ run.at = 5 /\ run.results \subseteq run.want /\ AnsweredBefore(run) /\ run.known = LoadManifest
        /\ \A v \in run.results : build[v] # NoTree => build[v].of = pinned
    BY DEF BuildInv, BuildTypeOK, BuildGoesOn, AtWork, WriteManifest, BuildAt, RunTypes
  <1>1. UNCHANGED <<pinned, build, staging>> /\ manifest' = NewManifest /\ run' = [run EXCEPT !.pc = "done"]
    BY DEF WriteManifest
  <1>2. /\ run' \in RunTypes /\ run'.pc = "done" /\ run'.want = run.want /\ run'.known = run.known
    BY <1>0, <1>1, BuildGoesTo
  <1>3. /\ manifest'.of = pinned
        /\ manifest'.backends = (run.known.backends \ run.want) \union run.results
        /\ manifest'.errors = (run.known.errors \ run.want) \union run.errors
    BY <1>1 DEF NewManifest
  <1>4. manifest' \in Manifests
    BY <1>0, <1>1 DEF NewManifest, Manifests, RunTypes
  <1>5. ASSUME NEW v \in manifest'.backends, build[v] # NoTree PROVE build[v].of >= pinned
    <2>1. CASE v \in run.results
      BY <1>0, <1>5, <2>1
    <2>2. CASE v \in run.known.backends
      <3>1. manifest.of = pinned /\ v \in manifest.backends
        BY <1>0, <2>2, NoRunTyped DEF LoadManifest
      <3> QED
        BY <1>0, <1>5, <3>1 DEF BuildsAreNoOlder
    <2> QED
      BY <1>3, <2>1, <2>2
  <1>6. BuildsAreNoOlder'
    BY <1>0, <1>1, <1>3, <1>5 DEF BuildsAreNoOlder, NoTree
  <1>7. ASSUME NEW v \in run.want PROVE (v \in run.results) # (v \in run.errors)
    <2>1. PICK n \in 1 .. 4 : v = VARIANT_NAMES[n]
      BY <1>0, VariantNames DEF RunTypes
    <2> QED
      BY <1>0, <1>7, <2>1 DEF AnsweredBefore
  <1>8. BuildAnswersAll'
    <2>1. \A v \in run'.want : (v \in manifest'.backends) # (v \in manifest'.errors)
      BY <1>2, <1>3, <1>7
    <2>2. manifest'.backends \ run'.want = run'.known.backends \ run'.want
      BY <1>0, <1>2, <1>3
    <2> QED
      BY <2>1, <2>2 DEF BuildAnswersAll
  <1> QED
    BY <1>0, <1>1, <1>2, <1>4, <1>6, <1>8 DEF BuildInv, BuildTypeOK, NothingAnswered, BuildGoesOn, AtWork

LEMMA BuildStart == BuildInit => BuildInv
  <1> SUFFICES ASSUME BuildInit PROVE BuildInv
    OBVIOUS
  <1>1. pinned \in Nat \ {0} /\ manifest = NoManifest /\ run = NoRun
        /\ build = [v \in Backends |-> NoTree] /\ staging = [v \in Backends |-> NoTree]
    BY ReleaseAssumption DEF BuildInit, ReleaseAssumption
  <1>2. build \in [Backends -> Trees] /\ staging \in [Backends -> Trees]
    BY <1>1, TreeValues
  <1>3. BuildsAreNoOlder
    BY <1>1, NoRunTyped, TreeValues DEF BuildsAreNoOlder
  <1> QED
    BY <1>1, <1>2, <1>3, NoRunTyped
    DEF BuildInv, BuildTypeOK, NothingAnswered, BuildGoesOn, AtWork, BuildAnswersAll, BuildAt

LEMMA BuildsAreRight == BuildSpec => []BuildInv
  <1>1. BuildInv /\ [BuildNext]_buildVars => BuildInv'
    <2> SUFFICES ASSUME BuildInv, [BuildNext]_buildVars PROVE BuildInv'
      OBVIOUS
    <2>1. CASE UNCHANGED buildVars
      <3>1. UNCHANGED <<pinned, build, staging, manifest, run>>
        BY <2>1 DEF buildVars
      <3>2. AnsweredBefore(run') <=> AnsweredBefore(run)
        BY <3>1
      <3> QED
        BY <3>1, <3>2
        DEF BuildInv, NothingAnswered, BuildTypeOK, BuildsAreNoOlder, BuildGoesOn, BuildAnswersAll, BuildAt,
            Current, Tree, LoadManifest, NoManifest, NoTree
    <2>2. CASE BuildNext
      BY <2>2, IdleSteps, EndSteps, BuildBegins, AnswerSteps, CompileSteps, ReplaceSteps, ManifestStep
      DEF BuildNext
    <2> QED
      BY <2>1, <2>2
  <1> QED
    BY <1>1, BuildStart, PTL DEF BuildSpec

\* What the recogniser may run of whisper.cpp was compiled to the end from the source the installed
\* release pins, and a build answers for each variant it was asked for, for any releases, requests
\* and number of builds that fail, die or are cut short anywhere (native.py:342, 650).
THEOREM OnlyTheCurrentRuns == BuildSpec => []RunnableIsCurrent
  <1>1. ASSUME BuildInv PROVE RunnableIsCurrent
    <2>1. ASSUME NEW v \in Runnable PROVE build[v].of = pinned /\ build[v].state # "partial"
      <3>1. v \in LoadManifest.backends /\ build[v] # NoTree
        BY <2>1 DEF Runnable, HasExecutable
      <3>2. manifest.of = pinned /\ v \in manifest.backends
        BY <3>1, NoRunTyped DEF LoadManifest
      <3>3. v \in Backends /\ pinned \in Nat /\ build[v].of \in Nat
        BY <1>1, <3>2 DEF BuildInv, BuildTypeOK, Manifests, Trees
      <3> QED
        BY <1>1, <3>1, <3>2, <3>3 DEF BuildInv, BuildsAreNoOlder
    <2> QED
      BY <1>1, <2>1 DEF RunnableIsCurrent, OnlyCurrentRuns, BuildInv
  <1> QED
    BY <1>1, BuildsAreRight, PTL

-------------------------------------------------------------------------------
(***************************************************************************)
(* Batch: the inductive invariant                                          *)
(***************************************************************************)

AllVariants == {Variants[i] : i \in 1 .. 4}
Places      == {Nowhere, "cpu"} \cup Accelerators \cup {cfg.diar : cfg \in Settings}
Runners     == AllVariants \cup {Nowhere, "cuda:0"} \cup {cfg.device : cfg \in Settings}
BatchPcs    == {"file", "asr", "transcribe", "diarization", "load", "diarize", "reset", "export", "done"}
BatchTypes  == [cfg : Settings, pc : BatchPcs, at : Nat \ {0}, raised : BOOLEAN]
FileTypes   == [ran : BOOLEAN, decided : Places, left : SUBSET Places, text : Runners]
AsrTypes    == [runs : Runners, fell : BOOLEAN]
PoolTypes   == [asr : AsrTypes, asrKey : BOOLEAN, diar : Places \cup {NotLoaded}, diarKey : Places]
ItemTypes   == [status : {"success", "skipped", "failed"}, text : Runners]

BatchTypeOK ==
    /\ batch \in BatchTypes
    /\ file \in FileTypes
    /\ pool \in PoolTypes
    /\ items \in Seq(ItemTypes)

\* A result for each file behind the one at hand.
Counted ==
    /\ batch.at <= Len(Minutes) + 1 /\ Len(items) = batch.at - 1
    /\ batch.pc \notin {"file", "done"} => batch.at <= Len(Minutes)
    /\ batch.pc = "done" => pool = Closed /\ (batch.raised \/ batch.at = Len(Minutes) + 1)

\* Where the speakers of the file at hand are separated.
Decided ==
    /\ batch.pc \in {"file", "asr", "transcribe", "diarization"} => file.left = {}
    /\ batch.pc \in {"load", "diarize", "reset"} =>
         /\ Cfg.diar # "auto" => file.decided = Cfg.diar
         /\ file.left # {} => file.decided = "cpu" /\ \E d \in Accelerators : file.left = {d}
    /\ pool.diar \in {Nowhere, NotLoaded, pool.diarKey}
    /\ batch.pc = "diarize" => pool.diar \in {NotLoaded, file.decided}

\* The order of the variants.
After(v, w) == \E i \in 1 .. 3, j \in 1 .. 3 : v = Variants[i] /\ w = Variants[j] /\ i < j

NothingRead == \A i \in DOMAIN items : items[i].text = Nowhere

\* What the files behind were transcribed with: the first variant, then the last.
ReadWith(first, last) ==
    /\ first = last \/ (After(first, last) /\ Cfg.variant = "auto")
    /\ Cfg.variant # "auto" => last = Cfg.variant
    /\ \A i \in DOMAIN items : items[i].text \in {Nowhere, first, last}
    /\ \A i \in DOMAIN items, j \in DOMAIN items :
          i <= j /\ items[i].text = last => items[j].text \in {Nowhere, last}

\* What the loaded recogniser p has to do with the files behind and the one at hand.
Recogniser(p) ==
    \/ ~p.asrKey /\ ~p.asr.fell /\ NothingRead /\ file.text = Nowhere
    \/ /\ p.asrKey /\ p.asr.runs \in AllVariants /\ file.text \in {Nowhere, p.asr.runs}
       /\ \E first \in AllVariants : /\ ReadWith(first, p.asr.runs)
                                     /\ ~p.asr.fell => first = p.asr.runs

FellOnce ==
    Cfg.asr = "whisper-cpp" =>
      /\ batch.pc \in {"file", "asr", "transcribe"} => file.text = Nowhere
      /\ batch.pc = "transcribe" => pool.asrKey
      /\ IF batch.pc = "done" THEN NothingRead \/ \E first, last \in AllVariants : ReadWith(first, last)
         ELSE Recogniser(pool)

BatchInv == BatchTypeOK /\ Counted /\ Decided /\ FellOnce

----------------------------------------------------------------------------
(* What the moves of the program change. *)

LEMMA BatchGoesOn ==
    ASSUME BatchTypeOK, NEW pc \in BatchPcs, BatchGoes(pc)
    PROVE  /\ batch' \in BatchTypes /\ batch'.pc = pc /\ batch'.at = batch.at
           /\ batch'.cfg = batch.cfg /\ batch'.raised = batch.raised
BY DEF BatchTypeOK, BatchTypes, BatchGoes

LEMMA FileReported ==
    ASSUME BatchTypeOK, NEW status \in {"success", "skipped", "failed"}, ReportFile(status)
    PROVE  /\ batch' \in BatchTypes /\ batch'.pc = "file" /\ batch'.at = batch.at + 1
           /\ batch'.cfg = batch.cfg /\ batch'.raised = batch.raised
           /\ file' = NoFile /\ file' \in FileTypes
           /\ items' \in Seq(ItemTypes) /\ Len(items') = Len(items) + 1
           /\ \A i \in DOMAIN items : items'[i] = items[i]
           /\ DOMAIN items' = DOMAIN items \cup {Len(items) + 1}
           /\ items'[Len(items) + 1].text = file.text
<1> DEFINE item == [status |-> status, text |-> file.text]
<1>1. item \in ItemTypes /\ item.text = file.text
      BY DEF BatchTypeOK, FileTypes, ItemTypes
<1>2. items' = Append(items, item) /\ items \in Seq(ItemTypes)
      BY DEF ReportFile, BatchTypeOK
<1>3. batch'.pc = "file" /\ batch'.at = batch.at + 1 /\ batch'.cfg = batch.cfg
      /\ batch'.raised = batch.raised /\ batch' \in BatchTypes
  <2>1. PICK first : first = [batch EXCEPT !.pc = "file"]
        OBVIOUS
  <2>2. first \in BatchTypes /\ first.pc = "file" /\ first.at = batch.at
        /\ first.cfg = batch.cfg /\ first.raised = batch.raised
        BY <2>1 DEF BatchTypeOK, BatchTypes, BatchPcs
  <2>3. batch' = [first EXCEPT !.at = first.at + 1]
        BY <2>1, <2>2 DEF ReportFile, BatchTypeOK, BatchTypes
  <2>4. first.at + 1 \in Nat \ {0}
        BY <2>2 DEF BatchTypes
  <2>5. QED BY ONLY <2>2, <2>3, <2>4 DEF BatchTypes
<1>4. file' = NoFile /\ NoFile \in FileTypes
      BY DEF ReportFile, NoFile, FileTypes, Places, Runners, Nowhere
<1> HIDE DEF item
<1>5. /\ items' \in Seq(ItemTypes) /\ Len(items') = Len(items) + 1
      /\ \A i \in DOMAIN items : items'[i] = items[i]
      /\ DOMAIN items' = DOMAIN items \cup {Len(items) + 1}
      /\ items'[Len(items) + 1] = item
      BY <1>1, <1>2
<1>6. QED BY <1>1, <1>3, <1>4, <1>5

LEMMA SameRead ==
    ASSUME items' = items, batch'.cfg = batch.cfg, NEW first, NEW last
    PROVE  NothingRead' = NothingRead /\ ReadWith(first, last)' = ReadWith(first, last)
BY DEF NothingRead, ReadWith, Cfg

\* The text of the file at hand, if any, is of the last variant.
LEMMA ReadOn ==
    ASSUME BatchTypeOK, NEW status \in {"success", "skipped", "failed"}, ReportFile(status),
           NEW first, NEW last, ReadWith(first, last), file.text \in {Nowhere, last}
    PROVE  ReadWith(first, last)'
<1>1. /\ batch'.cfg = batch.cfg
      /\ \A i \in DOMAIN items : items'[i] = items[i]
      /\ DOMAIN items' = DOMAIN items \cup {Len(items) + 1}
      /\ items'[Len(items) + 1].text = file.text
      BY FileReported
<1>2. Len(items) \in Nat /\ DOMAIN items = 1 .. Len(items)
      BY DEF BatchTypeOK
<1>3. \A i \in DOMAIN items' : items'[i].text \in {Nowhere, first, last}
      BY <1>1 DEF ReadWith
<1>4. ASSUME NEW i \in DOMAIN items', NEW j \in DOMAIN items', i <= j, items'[i].text = last
      PROVE  items'[j].text \in {Nowhere, last}
  <2>1. CASE j = Len(items) + 1
        BY <2>1, <1>1
  <2>2. CASE j \in DOMAIN items
    <3>1. i \in DOMAIN items
          BY <1>1, <1>2, <1>4, <2>2
    <3>2. QED BY <1>1, <1>4, <2>2, <3>1 DEF ReadWith
  <2>3. QED BY <1>1, <2>1, <2>2
<1>5. QED BY <1>1, <1>3, <1>4 DEF ReadWith, Cfg

LEMMA NoneReadOn ==
    ASSUME BatchTypeOK, NEW status \in {"success", "skipped", "failed"}, ReportFile(status),
           NothingRead, file.text = Nowhere
    PROVE  NothingRead'
BY FileReported DEF NothingRead

----------------------------------------------------------------------------
(* A step inside a file keeps the result of the files behind; a step that    *)
(* ends a file adds its result to them.                                      *)

LEMMA FileGoesOn ==
    ASSUME BatchInv, NEW pc \in BatchPcs \ {"file", "done"}, BatchGoes(pc), items' = items,
           batch.at <= Len(Minutes), batch.pc # "done", file' \in FileTypes, pool' \in PoolTypes,
           Decided', FellOnce'
    PROVE  BatchInv'
<1>1. /\ batch' \in BatchTypes /\ batch'.pc = pc /\ batch'.at = batch.at
      BY BatchGoesOn DEF BatchInv
<1>2. BatchTypeOK'
      BY <1>1 DEF BatchInv, BatchTypeOK
<1>3. Counted'
      BY <1>1 DEF BatchInv, BatchTypeOK, BatchTypes, Counted
<1>4. QED BY <1>2, <1>3 DEF BatchInv

LEMMA FileEnds ==
    ASSUME BatchInv, NEW status \in {"success", "skipped", "failed"}, ReportFile(status),
           batch.at <= Len(Minutes), batch.pc # "done", pool' \in PoolTypes,
           pool'.diar \in {Nowhere, NotLoaded, pool'.diarKey},
           Cfg.asr = "whisper-cpp" => Recogniser(pool')
    PROVE  BatchInv'
<1>0. BatchTypeOK
      BY DEF BatchInv
<1>1. /\ batch' \in BatchTypes /\ batch'.pc = "file" /\ batch'.at = batch.at + 1
      /\ batch'.cfg = batch.cfg
      /\ file' = NoFile /\ file' \in FileTypes
      /\ items' \in Seq(ItemTypes) /\ Len(items') = Len(items) + 1
      BY <1>0, FileReported
<1>2. BatchTypeOK'
      BY <1>1 DEF BatchTypeOK
<1>3. Counted'
      BY <1>1 DEF BatchInv, BatchTypeOK, BatchTypes, Counted, BatchAssumption
<1>4. file'.left = {} /\ file'.text = Nowhere
      BY <1>1 DEF NoFile
<1>5. Decided'
      BY <1>1, <1>4 DEF Decided
<1>6. Cfg.asr = "whisper-cpp" => Recogniser(pool)'
  <2> SUFFICES ASSUME Cfg.asr = "whisper-cpp" PROVE Recogniser(pool)'
      OBVIOUS
  <2>1. CASE ~pool'.asrKey
    <3>1. NothingRead /\ file.text = Nowhere /\ ~pool'.asr.fell
          BY <2>1 DEF Recogniser
    <3>2. NothingRead'
          BY <1>0, <3>1, NoneReadOn
    <3>3. QED BY <1>4, <2>1, <3>1, <3>2 DEF Recogniser
  <2>2. CASE pool'.asrKey
    <3>0. pool'.asr.runs \in AllVariants /\ file.text \in {Nowhere, pool'.asr.runs}
          BY <2>2 DEF Recogniser
    <3>1. PICK first \in AllVariants : /\ ReadWith(first, pool'.asr.runs)
                                       /\ ~pool'.asr.fell => first = pool'.asr.runs
          BY <2>2 DEF Recogniser
    <3>2. PICK last : last = pool'.asr.runs
          OBVIOUS
    <3>3. ReadWith(first, last) /\ file.text \in {Nowhere, last}
          BY <3>0, <3>1, <3>2
    <3>4. ReadWith(first, last)'
          BY <1>0, <3>3, ReadOn
    <3>5. ReadWith(first, pool.asr.runs)'
          BY <3>2, <3>4 DEF ReadWith
    <3>6. QED BY <1>4, <2>2, <3>0, <3>1, <3>5 DEF Recogniser
  <2>3. QED BY <2>1, <2>2
<1>7. FellOnce'
      BY <1>1, <1>4, <1>6 DEF FellOnce, Cfg
<1>8. QED BY <1>2, <1>3, <1>5, <1>7 DEF BatchInv

\* With the pool as it was.
LEMMA FileEndsQuietly ==
    ASSUME BatchInv, NEW status \in {"success", "skipped", "failed"}, ReportFile(status),
           batch.at <= Len(Minutes), batch.pc # "done", pool' = pool
    PROVE  BatchInv'
<1>1. /\ pool' \in PoolTypes /\ pool'.diar \in {Nowhere, NotLoaded, pool'.diarKey}
      /\ Cfg.asr = "whisper-cpp" => Recogniser(pool')
      BY DEF BatchInv, BatchTypeOK, Decided, FellOnce
<1>2. QED BY <1>1, FileEnds

----------------------------------------------------------------------------
(* Speech recognition. *)

LEMMA LenOfMinutes == Len(Minutes) \in Nat
BY BatchAssumption DEF BatchAssumption

LEMMA FileStarts ==
    ASSUME BatchInv, StartFile
    PROVE  BatchInv'
<1>1. batch.pc = "file" /\ batch.at <= Len(Minutes) /\ pool' = pool
      BY DEF StartFile, BatchAt
<1>2. CASE ReportFile("skipped") \/ FileFails
      BY <1>1, <1>2, FileEndsQuietly DEF FileFails
<1>3. CASE \E ran \in BOOLEAN :
             file' = [NoFile EXCEPT !.ran = ran] /\ BatchGoes("asr") /\ UNCHANGED items
  <2>1. PICK ran \in BOOLEAN :
             file' = [NoFile EXCEPT !.ran = ran] /\ BatchGoes("asr") /\ UNCHANGED items
        BY <1>3
  <2>2. NoFile \in FileTypes
        BY DEF NoFile, FileTypes, Places, Runners, Nowhere
  <2>3. file' \in FileTypes /\ file'.left = {} /\ file'.text = Nowhere
        BY <2>1, <2>2 DEF NoFile, FileTypes
  <2>4. batch'.pc = "asr" /\ batch'.cfg = batch.cfg
        BY <2>1, BatchGoesOn DEF BatchInv, BatchPcs
  <2>5. Decided'
        BY <1>1, <2>3, <2>4 DEF BatchInv, Decided
  <2>6. Cfg.asr = "whisper-cpp" => Recogniser(pool)'
    <3>1. Cfg.asr = "whisper-cpp" => Recogniser(pool)
          BY <1>1 DEF BatchInv, FellOnce
    <3>2. NothingRead' = NothingRead /\ \A first, last : ReadWith(first, last)' = ReadWith(first, last)
          BY <2>1, <2>4, SameRead
    <3>3. QED BY <1>1, <2>3, <3>1, <3>2 DEF Recogniser, ReadWith, Cfg
  <2>7. FellOnce'
        BY <2>3, <2>4, <2>6 DEF FellOnce, Cfg
  <2>8. pool' \in PoolTypes
        BY <1>1 DEF BatchInv, BatchTypeOK
  <2>9. QED BY <1>1, <2>1, <2>3, <2>5, <2>7, <2>8, FileGoesOn DEF BatchPcs
<1>4. QED BY <1>2, <1>3 DEF StartFile

\* What the recogniser has to do with the files is left alone by a step that leaves it,
\* the results and the text alone.
LEMMA RecogniserStays ==
    ASSUME items' = items, batch'.cfg = batch.cfg, pool'.asr = pool.asr,
           pool'.asrKey = pool.asrKey, file'.text = file.text, Recogniser(pool)
    PROVE  Recogniser(pool)'
BY SameRead DEF Recogniser, ReadWith, NothingRead, Cfg

LEMMA StageSkipped ==
    ASSUME BatchInv, SkipStage
    PROVE  BatchInv'
<1>0. file' = file /\ pool' = pool /\ items' = items
      BY DEF SkipStage
<1>1. PICK pc \in {"diarization", "export"} :
         /\ BatchGoes(pc)
         /\ pc = "diarization" => batch.pc = "asr"
         /\ pc = "export" => batch.pc = "diarization"
      BY DEF SkipStage, BatchAt
<1>2. batch'.pc = pc /\ batch'.cfg = batch.cfg
      BY <1>1, BatchGoesOn DEF BatchInv, BatchPcs
<1>3. Decided'
      BY <1>0, <1>1, <1>2 DEF BatchInv, Decided
<1>4. Cfg.asr = "whisper-cpp" => Recogniser(pool)'
      BY <1>0, <1>1, <1>2, RecogniserStays DEF BatchInv, FellOnce
<1>5. FellOnce'
      BY <1>1, <1>2, <1>4 DEF FellOnce, Cfg
<1>6. QED
  <2>1. batch.pc # "done" /\ batch.at <= Len(Minutes)
        BY <1>1 DEF BatchInv, Counted
  <2>2. file' \in FileTypes /\ pool' \in PoolTypes
        BY <1>0 DEF BatchInv, BatchTypeOK
  <2>3. pc \in BatchPcs \ {"file", "done"}
        BY <1>1 DEF BatchPcs
  <2>4. QED BY <1>0, <1>1, <1>3, <1>5, <2>1, <2>2, <2>3, FileGoesOn

LEMMA LoadableVariant ==
    ASSUME NEW cfg \in Settings, NEW d \in Loadable(cfg)
    PROVE  /\ d \in Runners
           /\ cfg.asr = "whisper-cpp" => d \in AllVariants /\ (cfg.variant # "auto" => d = cfg.variant)
BY BatchAssumption DEF BatchAssumption, Loadable, RequestedVariant, AllVariants, Runners, Variants

LEMMA AsrLoaded ==
    ASSUME BatchInv, LoadAsr
    PROVE  BatchInv'
<1>0. batch.pc = "asr" /\ items' = items /\ file' = [file EXCEPT !.ran = TRUE]
      BY DEF LoadAsr, BatchAt
<1>1. batch'.pc = "transcribe" /\ batch'.cfg = batch.cfg
      BY BatchGoesOn DEF LoadAsr, BatchInv, BatchPcs
<1>2. file' \in FileTypes /\ file'.text = file.text /\ file'.left = file.left
      BY <1>0 DEF BatchInv, BatchTypeOK, FileTypes
<1>3. NothingRead' = NothingRead /\ \A first, last : ReadWith(first, last)' = ReadWith(first, last)
      BY <1>0, <1>1, SameRead
<1>4. /\ pool' \in PoolTypes /\ pool'.diar = pool.diar /\ pool'.diarKey = pool.diarKey
      /\ pool'.asrKey
      /\ Cfg.asr = "whisper-cpp" => Recogniser(pool)'
  <2>1. CASE pool.asrKey
    <3>1. pool' = pool
          BY <2>1 DEF LoadAsr
    <3>2. Cfg.asr = "whisper-cpp" => Recogniser(pool)'
          BY <1>0, <1>1, <1>2, <3>1, RecogniserStays DEF BatchInv, FellOnce
    <3>3. QED BY <2>1, <3>1, <3>2 DEF BatchInv, BatchTypeOK
  <2>2. CASE ~pool.asrKey
    <3>1. PICK d \in Loadable(Cfg) : pool' = [pool EXCEPT !.asr = LoadedAsr(d), !.asrKey = TRUE]
          BY <2>2 DEF LoadAsr
    <3>2. Cfg \in Settings
          BY DEF BatchInv, BatchTypeOK, BatchTypes, Cfg
    <3>3. /\ d \in Runners
          /\ Cfg.asr = "whisper-cpp" => d \in AllVariants /\ (Cfg.variant # "auto" => d = Cfg.variant)
          BY <3>2, LoadableVariant
    <3>4. LoadedAsr(d) \in AsrTypes /\ LoadedAsr(d).runs = d /\ ~LoadedAsr(d).fell
          BY <3>3 DEF LoadedAsr, AsrTypes
    <3>5. PICK asr : asr = LoadedAsr(d)
          OBVIOUS
    <3>6. /\ pool' \in PoolTypes /\ pool'.diar = pool.diar /\ pool'.diarKey = pool.diarKey
          /\ pool'.asrKey /\ pool'.asr = asr
          BY <3>1, <3>4, <3>5 DEF BatchInv, BatchTypeOK, PoolTypes
    <3>7. ASSUME Cfg.asr = "whisper-cpp"
          PROVE  Recogniser(pool)'
      <4>1. NothingRead /\ file.text = Nowhere
            BY <1>0, <2>2, <3>7 DEF BatchInv, FellOnce, Recogniser
      <4>2. ReadWith(d, d)
        <5>1. d # Nowhere
              BY <3>3, <3>7 DEF AllVariants, Variants, Nowhere
        <5>2. QED BY <3>3, <3>7, <4>1, <5>1 DEF ReadWith, NothingRead
      <4>3. ReadWith(d, d)'
            BY <1>3, <4>2
      <4>4. pool'.asr.runs = d
            BY <3>4, <3>5, <3>6
      <4>5. ReadWith(d, pool.asr.runs)'
            BY <4>3, <4>4 DEF ReadWith
      <4>6. QED BY <1>2, <3>3, <3>6, <3>7, <4>1, <4>4, <4>5 DEF Recogniser
    <3>8. QED BY <3>6, <3>7
  <2>3. QED BY <2>1, <2>2
<1>5. Decided'
      BY <1>0, <1>1, <1>2, <1>4 DEF BatchInv, Decided
<1>6. FellOnce'
  <2>1. Cfg.asr = "whisper-cpp" => file'.text = Nowhere
        BY <1>0, <1>2 DEF BatchInv, FellOnce
  <2>2. QED BY <1>1, <1>4, <2>1 DEF FellOnce, Cfg
<1>7. QED
  <2>1. batch.at <= Len(Minutes) /\ BatchGoes("transcribe")
        BY <1>0 DEF BatchInv, Counted, LoadAsr
  <2>2. QED BY <1>0, <1>2, <1>4, <1>5, <1>6, <2>1, FileGoesOn DEF BatchPcs

LEMMA InAFile ==
    ASSUME BatchInv, batch.pc \notin {"file", "done"}
    PROVE  batch.at <= Len(Minutes)
BY DEF BatchInv, Counted

LEMMA AsrNotLoaded ==
    ASSUME BatchInv, LoadAsrFails \/ TranscribeFails
    PROVE  BatchInv'
<1>1. batch.pc \in {"asr", "transcribe"} /\ pool' = pool /\ ReportFile("failed")
      BY DEF LoadAsrFails, TranscribeFails, BatchAt, FileFails
<1>2. QED BY <1>1, InAFile, FileEndsQuietly

\* The text is of the variant that runs.
LEMMA TextRead ==
    ASSUME BatchInv, batch.pc = "transcribe", NEW d \in Runners, Transcribed(d),
           pool' \in PoolTypes, pool'.diar = pool.diar, pool'.diarKey = pool.diarKey,
           Cfg.asr = "whisper-cpp" => Recogniser(pool') /\ pool'.asrKey /\ pool'.asr.runs = d
    PROVE  BatchInv'
<1>1. items' = items /\ BatchGoes("diarization") /\ file' = [file EXCEPT !.text = d]
      BY DEF Transcribed
<1>2. batch'.pc = "diarization" /\ batch'.cfg = batch.cfg
      BY <1>1, BatchGoesOn DEF BatchInv, BatchPcs
<1>3. file' \in FileTypes /\ file'.text = d /\ file'.left = file.left
      BY <1>1 DEF BatchInv, BatchTypeOK, FileTypes
<1>4. Decided'
      BY <1>2, <1>3 DEF BatchInv, Decided
<1>5. Cfg.asr = "whisper-cpp" => Recogniser(pool)'
  <2> SUFFICES ASSUME Cfg.asr = "whisper-cpp" PROVE Recogniser(pool)'
      OBVIOUS
  <2>1. d \in AllVariants
        BY DEF Recogniser
  <2>2. PICK first \in AllVariants : ReadWith(first, d) /\ (~pool'.asr.fell => first = d)
        BY DEF Recogniser
  <2>3. ReadWith(first, d)'
        BY <1>1, <1>2, <2>2, SameRead
  <2>4. ReadWith(first, pool.asr.runs)'
        BY <2>3 DEF ReadWith
  <2>5. QED BY <1>3, <2>1, <2>2, <2>4 DEF Recogniser
<1>6. FellOnce'
      BY <1>2, <1>5 DEF FellOnce, Cfg
<1>7. QED BY <1>1, <1>3, <1>4, <1>6, InAFile, FileGoesOn DEF BatchPcs

LEMMA TextReadAtOnce ==
    ASSUME BatchInv, Transcribe \/ TranscribeFaster
    PROVE  BatchInv'
<1>1. batch.pc = "transcribe" /\ pool' = pool /\ (Transcribed(pool.asr.runs) \/ FileFails)
      BY DEF Transcribe, TranscribeFaster, BatchAt
<1>2. CASE FileFails
      BY <1>1, <1>2, InAFile, FileEndsQuietly DEF FileFails
<1>3. CASE Transcribed(pool.asr.runs)
  <2>1. pool.asr.runs \in Runners /\ pool' \in PoolTypes
        BY <1>1 DEF BatchInv, BatchTypeOK, PoolTypes, AsrTypes
  <2>2. Cfg.asr = "whisper-cpp" => Recogniser(pool') /\ pool'.asrKey
        BY <1>1 DEF BatchInv, FellOnce
  <2>3. QED BY <1>1, <1>3, <2>1, <2>2, TextRead
<1>4. QED BY <1>1, <1>2, <1>3

\* The variant fallen back to is built, and comes after the one that failed.
LEMMA FurtherDown ==
    ASSUME NEW cfg \in Settings, NEW asr, FallbackVariants(cfg, asr) # {}
    PROVE  /\ Variants[Min(FallbackVariants(cfg, asr))] \in AllVariants
           /\ After(asr.runs, Variants[Min(FallbackVariants(cfg, asr))])
           /\ cfg.variant = "auto" /\ ~asr.fell
<1>1. FallbackVariants(cfg, asr) \subseteq 1 .. 3
      BY DEF FallbackVariants
<1>2. PICK i \in FallbackVariants(cfg, asr) : \A k \in FallbackVariants(cfg, asr) : i <= k
  <2>1. CASE 1 \in FallbackVariants(cfg, asr)
        BY <1>1, <2>1
  <2>2. CASE 1 \notin FallbackVariants(cfg, asr) /\ 2 \in FallbackVariants(cfg, asr)
        BY <1>1, <2>2
  <2>3. CASE 1 \notin FallbackVariants(cfg, asr) /\ 2 \notin FallbackVariants(cfg, asr)
        BY <1>1, <2>3
  <2>4. QED BY <2>1, <2>2, <2>3
<1>3. Min(FallbackVariants(cfg, asr)) \in FallbackVariants(cfg, asr)
      BY <1>2 DEF Min
<1>4. PICK m : m = Min(FallbackVariants(cfg, asr))
      OBVIOUS
<1>5. m \in FallbackVariants(cfg, asr)
      BY <1>3, <1>4
<1>6. /\ m \in 1 .. 3 /\ cfg.variant = "auto" /\ ~asr.fell
      /\ \E j \in 1 .. 3 : Variants[j] = asr.runs /\ m > j
      BY <1>5 DEF FallbackVariants
<1>7. Variants[m] \in AllVariants /\ After(asr.runs, Variants[m])
      BY <1>6 DEF AllVariants, After
<1>8. QED BY <1>4, <1>6, <1>7

LEMMA AfterIsFurther ==
    ASSUME NEW v, NEW w, After(v, w)
    PROVE  v \in AllVariants /\ w \in AllVariants /\ v # w /\ Nowhere \notin {v, w}
BY DEF After, AllVariants, Variants, Nowhere

LEMMA VariantChanged ==
    ASSUME BatchInv, FallBack
    PROVE  BatchInv'
<1> DEFINE next == Variants[Min(FallbackVariants(Cfg, pool.asr))]
<1>1. /\ batch.pc = "transcribe" /\ Cfg.asr = "whisper-cpp"
      /\ FallbackVariants(Cfg, pool.asr) # {}
      /\ pool' = [pool EXCEPT !.asr = [runs |-> next, fell |-> TRUE]]
      /\ Transcribed(next) \/ FileFails
      BY DEF FallBack, BatchAt
<1>2. Cfg \in Settings
      BY DEF BatchInv, BatchTypeOK, BatchTypes, Cfg
<1>3. next \in AllVariants /\ After(pool.asr.runs, next) /\ Cfg.variant = "auto" /\ ~pool.asr.fell
      BY <1>1, <1>2, FurtherDown
<1> HIDE DEF next
<1>4. pool.asrKey /\ file.text = Nowhere
      BY <1>1 DEF BatchInv, FellOnce
<1>5. [runs |-> next, fell |-> TRUE] \in AsrTypes
      BY <1>3 DEF AsrTypes, Runners
<1>6. /\ pool' \in PoolTypes /\ pool'.asr = [runs |-> next, fell |-> TRUE]
      /\ pool'.asrKey = pool.asrKey /\ pool'.diar = pool.diar /\ pool'.diarKey = pool.diarKey
      BY <1>1, <1>5 DEF BatchInv, BatchTypeOK, PoolTypes
<1>7. Recogniser(pool')
  <2>1. pool.asr.runs \in AllVariants /\ ReadWith(pool.asr.runs, pool.asr.runs)
        BY <1>1, <1>3, <1>4 DEF BatchInv, FellOnce, Recogniser
  <2>2. pool.asr.runs # next /\ next # Nowhere
        BY <1>3, AfterIsFurther
  <2>3. ReadWith(pool.asr.runs, next)
        BY <1>3, <2>1, <2>2 DEF ReadWith
  <2>4. pool'.asr.runs = next /\ pool'.asr.fell
        BY <1>6
  <2>5. ReadWith(pool.asr.runs, pool'.asr.runs)
        BY <2>3, <2>4
  <2>6. QED BY <1>3, <1>4, <1>6, <2>1, <2>4, <2>5 DEF Recogniser
<1>8. CASE Transcribed(next)
  <2>1. next \in Runners /\ pool'.asr.runs = next
        BY <1>3, <1>6 DEF Runners
  <2>2. QED BY <1>1, <1>4, <1>6, <1>7, <1>8, <2>1, TextRead
<1>9. CASE FileFails
  <2>1. pool'.diar \in {Nowhere, NotLoaded, pool'.diarKey}
        BY <1>6 DEF BatchInv, Decided
  <2>2. QED BY <1>1, <1>6, <1>7, <1>9, <2>1, InAFile, FileEnds DEF FileFails
<1>10. QED BY <1>1, <1>8, <1>9

----------------------------------------------------------------------------
(* Speaker diarization. *)

\* The plan keeps the device or moves it to the CPU, and only if it was chosen automatically.
LEMMA PlannedDevice ==
    ASSUME NEW cfg \in Settings, NEW d \in Resolved(cfg), NEW minutes, NEW read
    PROVE  /\ MemoryPlan(cfg, d, minutes, read).device \in Places
           /\ cfg.diar # "auto" => MemoryPlan(cfg, d, minutes, read).device = cfg.diar
<1>1. d \in Places /\ (cfg.diar # "auto" => d = cfg.diar)
      BY DEF Resolved, Selectable, Places
<1>2. MemoryPlan(cfg, d, minutes, read).device
        = IF cfg.guard # "off" /\ Retreats(cfg, d, minutes, read) THEN "cpu" ELSE d
      BY DEF MemoryPlan
<1>3. Retreats(cfg, d, minutes, read) => cfg.diar = "auto"
      BY DEF Retreats
<1>4. QED BY <1>1, <1>2, <1>3 DEF Places

\* A step of the diarization that leaves the recogniser and the text alone.
LEMMA SpeakersGoOn ==
    ASSUME BatchInv, NEW pc \in {"load", "reset", "diarize", "export"}, BatchGoes(pc),
           batch.pc \in {"diarization", "load", "reset", "diarize"},
           UNCHANGED items, file' \in FileTypes, file'.text = file.text, pool' \in PoolTypes,
           pool'.asr = pool.asr, pool'.asrKey = pool.asrKey, Decided'
    PROVE  BatchInv'
<1>1. batch'.pc = pc /\ batch'.cfg = batch.cfg
      BY BatchGoesOn DEF BatchInv, BatchPcs
<1>2. Cfg.asr = "whisper-cpp" => Recogniser(pool)'
      BY <1>1, RecogniserStays DEF BatchInv, FellOnce
<1>3. FellOnce'
      BY <1>1, <1>2 DEF FellOnce, Cfg
<1>4. QED BY <1>3, InAFile, FileGoesOn DEF BatchPcs

LEMMA DiarizationPlanned ==
    ASSUME BatchInv, PlanDiarization
    PROVE  BatchInv'
<1>1. batch.pc = "diarization" /\ pool' = pool
      BY DEF PlanDiarization, BatchAt
<1>2. CASE FileFails
      BY <1>1, <1>2, InAFile, FileEndsQuietly DEF FileFails
<1>3. CASE ~FileFails
  <2>1. PICK d \in Resolved(Cfg), s \in Readings, own \in Readings :
          LET plan == MemoryPlan(Cfg, d, Minutes[batch.at], [system |-> s, own |-> own])
          IN  /\ file' = [file EXCEPT !.ran = TRUE, !.decided = plan.device]
              /\ BatchGoes("load") /\ UNCHANGED items
        BY <1>1, <1>3 DEF PlanDiarization
  <2>2. PICK on : on = MemoryPlan(Cfg, d, Minutes[batch.at], [system |-> s, own |-> own]).device
        OBVIOUS
  <2>3. Cfg \in Settings
        BY DEF BatchInv, BatchTypeOK, BatchTypes, Cfg
  <2>4. on \in Places /\ (Cfg.diar # "auto" => on = Cfg.diar)
        BY <2>2, <2>3, PlannedDevice
  <2>5. file' = [file EXCEPT !.ran = TRUE, !.decided = on] /\ BatchGoes("load") /\ UNCHANGED items
        BY <2>1, <2>2
  <2>6. file' \in FileTypes /\ file'.decided = on /\ file'.left = file.left /\ file'.text = file.text
        BY <2>4, <2>5 DEF BatchInv, BatchTypeOK, FileTypes
  <2>7. batch'.pc = "load" /\ batch'.cfg = batch.cfg
        BY <2>5, BatchGoesOn DEF BatchInv, BatchPcs
  <2>8. Decided'
        BY <1>1, <2>4, <2>6, <2>7 DEF BatchInv, Decided, Cfg
  <2>9. pool' \in PoolTypes
        BY <1>1 DEF BatchInv, BatchTypeOK
  <2>10. QED BY <1>1, <2>5, <2>6, <2>8, <2>9, SpeakersGoOn
<1>4. QED BY <1>2, <1>3

LEMMA BackendReused ==
    ASSUME BatchInv, ReuseBackend
    PROVE  BatchInv'
<1>1. /\ batch.pc = "load" /\ BatchGoes("diarize") /\ file' = file /\ pool' = pool /\ items' = items
      /\ pool.diar # Nowhere /\ pool.diarKey = file.decided
      BY DEF ReuseBackend, ReusableBackend, BatchAt
<1>2. batch'.pc = "diarize" /\ batch'.cfg = batch.cfg
      BY <1>1, BatchGoesOn DEF BatchInv, BatchPcs
<1>3. Decided'
      BY <1>1, <1>2 DEF BatchInv, Decided, Cfg
<1>4. file' \in FileTypes /\ pool' \in PoolTypes
      BY <1>1 DEF BatchInv, BatchTypeOK
<1>5. QED BY <1>1, <1>3, <1>4, SpeakersGoOn

LEMMA DiarizationLoaded ==
    ASSUME BatchInv, LoadDiarization
    PROVE  BatchInv'
<1>1. /\ batch.pc = "load" /\ BatchGoes("diarize") /\ file' = file /\ items' = items
      /\ pool' = [pool EXCEPT !.diar = file.decided, !.diarKey = file.decided]
      BY DEF LoadDiarization, BatchAt
<1>2. batch'.pc = "diarize" /\ batch'.cfg = batch.cfg
      BY <1>1, BatchGoesOn DEF BatchInv, BatchPcs
<1>3. file.decided \in Places
      BY DEF BatchInv, BatchTypeOK, FileTypes
<1>4. /\ pool' \in PoolTypes /\ pool'.diar = file.decided /\ pool'.diarKey = file.decided
      /\ pool'.asr = pool.asr /\ pool'.asrKey = pool.asrKey
      BY <1>1, <1>3 DEF BatchInv, BatchTypeOK, PoolTypes
<1>5. Decided'
      BY <1>1, <1>2, <1>4 DEF BatchInv, Decided, Cfg
<1>6. file' \in FileTypes
      BY <1>1 DEF BatchInv, BatchTypeOK
<1>7. QED BY <1>1, <1>4, <1>5, <1>6, SpeakersGoOn

LEMMA DiarizationReset ==
    ASSUME BatchInv, ResetDiarization
    PROVE  BatchInv'
<1>1. /\ batch.pc = "reset" /\ BatchGoes("load") /\ file' = file /\ items' = items
      /\ pool' = [pool EXCEPT !.diar = Nowhere, !.diarKey = Nowhere]
      BY DEF ResetDiarization, BatchAt
<1>2. batch'.pc = "load" /\ batch'.cfg = batch.cfg
      BY <1>1, BatchGoesOn DEF BatchInv, BatchPcs
<1>3. Nowhere \in Places
      BY DEF Places
<1>4. /\ pool' \in PoolTypes /\ pool'.diar = Nowhere
      /\ pool'.asr = pool.asr /\ pool'.asrKey = pool.asrKey
      BY <1>1, <1>3 DEF BatchInv, BatchTypeOK, PoolTypes
<1>5. Decided'
      BY <1>1, <1>2, <1>4 DEF BatchInv, Decided, Cfg
<1>6. file' \in FileTypes
      BY <1>1 DEF BatchInv, BatchTypeOK
<1>7. QED BY <1>1, <1>4, <1>5, <1>6, SpeakersGoOn

LEMMA SpeakersSeparated ==
    ASSUME BatchInv, Diarize
    PROVE  BatchInv'
<1>1. batch.pc = "diarize" /\ BatchGoes("export") /\ file' = file /\ items' = items /\ pool' = pool
      BY DEF Diarize, BatchAt
<1>2. batch'.pc = "export" /\ batch'.cfg = batch.cfg
      BY <1>1, BatchGoesOn DEF BatchInv, BatchPcs
<1>3. Decided'
      BY <1>1, <1>2 DEF BatchInv, Decided
<1>4. file' \in FileTypes /\ pool' \in PoolTypes
      BY <1>1 DEF BatchInv, BatchTypeOK
<1>5. QED BY <1>1, <1>3, <1>4, SpeakersGoOn

\* The accelerator is left for the CPU, or the file has failed.
LEMMA AttemptFailed ==
    ASSUME BatchInv, batch.pc \in {"load", "diarize"}, NEW oom \in BOOLEAN, AttemptFails(oom),
           pool' \in PoolTypes, pool'.asr = pool.asr, pool'.asrKey = pool.asrKey,
           pool'.diar \in {Nowhere, NotLoaded, pool'.diarKey}
    PROVE  BatchInv'
<1>1. CASE FileFails
  <2>1. Cfg.asr = "whisper-cpp" => Recogniser(pool')
        BY DEF BatchInv, FellOnce, Recogniser
  <2>2. QED BY <1>1, <2>1, InAFile, FileEnds DEF FileFails
<1>2. CASE ~FileFails
  <2>1. /\ Cfg.diar = "auto" /\ file.decided \in Accelerators /\ BatchGoes("reset") /\ items' = items
        /\ file' = [file EXCEPT !.left = @ \union {file.decided}, !.decided = "cpu"]
        BY <1>2 DEF AttemptFails, MayRetry
  <2>2. batch'.pc = "reset" /\ batch'.cfg = batch.cfg
        BY <2>1, BatchGoesOn DEF BatchInv, BatchPcs
  <2>3. file.left = {}
    <3>1. "cpu" \notin Accelerators
          BY DEF Accelerators, CUDA, XPU
    <3>2. QED BY <2>1, <3>1 DEF BatchInv, Decided
  <2>4. PICK left : left = file.left \union {file.decided}
        OBVIOUS
  <2>5. (\E d \in Accelerators : left = {d}) /\ left \in SUBSET Places
        BY <2>1, <2>3, <2>4 DEF Places
  <2>6. file' = [file EXCEPT !.left = left, !.decided = "cpu"] /\ "cpu" \in Places
        BY <2>1, <2>4 DEF Places
  <2>7. /\ file' \in FileTypes /\ file'.left = left /\ file'.decided = "cpu"
        /\ file'.text = file.text
        BY <2>5, <2>6 DEF BatchInv, BatchTypeOK, FileTypes
  <2>8. Decided'
        BY <2>1, <2>2, <2>5, <2>7 DEF Decided, Cfg
  <2>9. QED BY <2>1, <2>7, <2>8, SpeakersGoOn
<1>3. QED BY <1>1, <1>2

LEMMA SpeakersNotSeparated ==
    ASSUME BatchInv, LoadDiarizationFails \/ DiarizeFails
    PROVE  BatchInv'
<1>1. CASE LoadDiarizationFails
  <2>1. batch.pc = "load" /\ pool' = [pool EXCEPT !.diar = NotLoaded]
        BY <1>1 DEF LoadDiarizationFails, BatchAt
  <2>2. /\ pool' \in PoolTypes /\ pool'.diar = NotLoaded
        /\ pool'.asr = pool.asr /\ pool'.asrKey = pool.asrKey
        BY <2>1 DEF BatchInv, BatchTypeOK, PoolTypes
  <2>3. QED BY <1>1, <2>1, <2>2, AttemptFailed DEF LoadDiarizationFails
<1>2. CASE DiarizeFails
  <2>1. batch.pc = "diarize" /\ pool' = pool
        BY <1>2 DEF DiarizeFails, BatchAt
  <2>2. pool \in PoolTypes /\ pool.diar \in {Nowhere, NotLoaded, pool.diarKey}
        BY DEF BatchInv, BatchTypeOK, Decided
  <2>3. QED BY <1>2, <2>1, <2>2, AttemptFailed DEF DiarizeFails
<1>3. QED BY <1>1, <1>2

----------------------------------------------------------------------------
(* The end of a file and of the batch. *)

LEMMA FileExported ==
    ASSUME BatchInv, Export
    PROVE  BatchInv'
<1>1. batch.pc = "export" /\ pool' = pool
      BY DEF Export, BatchAt
<1>2. \E status \in {"success", "skipped", "failed"} : ReportFile(status)
      BY DEF Export, FileFails
<1>3. QED BY <1>1, <1>2, InAFile, FileEndsQuietly

LEMMA BatchFinished ==
    ASSUME BatchInv, FinishBatch
    PROVE  BatchInv'
<1>1. pool' = Closed /\ file' = file /\ items' = items /\ BatchEnds
      BY DEF FinishBatch
<1>2. /\ batch' \in BatchTypes /\ batch'.pc = "done" /\ batch'.at = batch.at
      /\ batch'.cfg = batch.cfg
      /\ batch'.raised \/ (batch.pc = "file" /\ batch.at > Len(Minutes))
      /\ batch.pc # "done"
  <2>1. CASE BatchAt("file") /\ batch.at > Len(Minutes) /\ BatchGoes("done")
        BY <2>1, BatchGoesOn DEF BatchInv, BatchPcs, BatchAt
  <2>2. CASE batch.pc # "done" /\ batch' = [batch EXCEPT !.pc = "done", !.raised = TRUE]
        BY <2>2 DEF BatchInv, BatchTypeOK, BatchTypes, BatchPcs
  <2>3. QED BY <1>1, <2>1, <2>2 DEF BatchEnds
<1>3. NoAsr \in AsrTypes
      BY DEF NoAsr, LoadedAsr, AsrTypes, Runners
<1>4. Closed \in PoolTypes /\ Closed.diar = Nowhere
      BY <1>3 DEF Closed, PoolTypes, Places
<1>5. BatchTypeOK'
      BY <1>1, <1>2, <1>4 DEF BatchInv, BatchTypeOK
<1>6. Counted'
  <2>1. batch.at \in Nat \ {0} /\ Len(items) \in Nat
        BY DEF BatchInv, BatchTypeOK, BatchTypes
  <2>2. batch'.raised \/ batch'.at = Len(Minutes) + 1
        BY <1>2, <2>1, LenOfMinutes DEF BatchInv, Counted
  <2>3. QED BY <1>1, <1>2, <2>1, <2>2 DEF BatchInv, Counted
<1>7. Decided'
      BY <1>1, <1>2, <1>4 DEF Decided
<1>8. FellOnce'
  <2>1. ASSUME Cfg.asr = "whisper-cpp"
        PROVE  NothingRead \/ \E first, last \in AllVariants : ReadWith(first, last)
        BY <1>2, <2>1 DEF BatchInv, FellOnce, Recogniser
  <2>2. NothingRead' = NothingRead /\ \A first, last : ReadWith(first, last)' = ReadWith(first, last)
        BY <1>1, <1>2, SameRead
  <2>3. QED BY <1>2, <2>1, <2>2 DEF FellOnce, Cfg
<1>9. QED BY <1>5, <1>6, <1>7, <1>8 DEF BatchInv

LEMMA BatchStarts == BatchInit => BatchInv
<1> SUFFICES ASSUME BatchInit PROVE BatchInv
    OBVIOUS
<1>1. /\ batch \in BatchTypes /\ batch.pc = "file" /\ batch.at = 1
      /\ file = NoFile /\ pool = Closed /\ items = <<>>
  <2>1. batch \in [cfg : Settings, pc : {"file"}, at : {1}, raised : {FALSE}]
        BY DEF BatchInit
  <2>2. /\ batch = [cfg |-> batch.cfg, pc |-> "file", at |-> 1, raised |-> FALSE]
        /\ batch.cfg \in Settings /\ batch.pc = "file" /\ batch.at = 1
        BY ONLY <2>1
  <2>3. 1 \in Nat \ {0}
        OBVIOUS
  <2>4. \A cfg \in Settings, pc \in BatchPcs, at \in Nat \ {0}, raised \in BOOLEAN :
           [cfg |-> cfg, pc |-> pc, at |-> at, raised |-> raised] \in BatchTypes
        BY DEF BatchTypes
  <2>5. "file" \in BatchPcs
        BY DEF BatchPcs
  <2>6. batch \in BatchTypes
        BY <2>2, <2>3, <2>4, <2>5, Zenon
  <2>7. QED BY <2>2, <2>6 DEF BatchInit
<1>2. NoFile \in FileTypes /\ NoFile.left = {} /\ NoFile.text = Nowhere
      BY DEF NoFile, FileTypes, Places, Runners
<1>3. NoAsr \in AsrTypes /\ ~NoAsr.fell
      BY DEF NoAsr, LoadedAsr, AsrTypes, Runners
<1>4. /\ Closed \in PoolTypes /\ Closed.diar = Nowhere /\ ~Closed.asrKey /\ ~Closed.asr.fell
      BY <1>3 DEF Closed, PoolTypes, Places
<1>5. items \in Seq(ItemTypes) /\ Len(items) = 0 /\ NothingRead
      BY <1>1 DEF NothingRead
<1>6. QED
  <2>1. BatchTypeOK
        BY <1>1, <1>2, <1>4, <1>5 DEF BatchTypeOK
  <2>2. Counted
        BY <1>1, <1>5, LenOfMinutes DEF Counted
  <2>3. Decided /\ FellOnce
        BY <1>1, <1>2, <1>4, <1>5 DEF Decided, FellOnce, Recogniser
  <2>4. QED BY <2>1, <2>2, <2>3 DEF BatchInv

LEMMA BatchGoesRight == BatchInv /\ [BatchNext]_batchVars => BatchInv'
<1> SUFFICES ASSUME BatchInv, [BatchNext]_batchVars PROVE BatchInv'
    OBVIOUS
<1>1. CASE UNCHANGED batchVars
      BY <1>1 DEF batchVars, BatchInv, BatchTypeOK, Counted, Decided, FellOnce, Recogniser,
                  ReadWith, NothingRead, Cfg
<1>2. CASE BatchNext
      BY <1>2, FileStarts, StageSkipped, AsrLoaded, AsrNotLoaded, TextReadAtOnce, VariantChanged,
         DiarizationPlanned, BackendReused, DiarizationLoaded, DiarizationReset, SpeakersSeparated,
         SpeakersNotSeparated, FileExported, BatchFinished DEF BatchNext
<1>3. QED BY <1>1, <1>2

----------------------------------------------------------------------------
(* The variants as FallsBackOnce orders them. *)

OrderOf(v) == CHOOSE i \in 1 .. 4 : Variants[i] = v

LEMMA OrderedVariants ==
    /\ OrderOf("openvino_vulkan") = 1 /\ OrderOf("vulkan") = 2
    /\ OrderOf("openvino") = 3 /\ OrderOf("cpu") = 4
<1>1. /\ Variants[1] = "openvino_vulkan" /\ Variants[2] = "vulkan"
      /\ Variants[3] = "openvino" /\ Variants[4] = "cpu"
      BY DEF Variants
<1>2. \A v : \A i \in 1 .. 4 : Variants[i] = v /\ (\A j \in 1 .. 4 : Variants[j] = v => j = i)
                => OrderOf(v) = i
      BY DEF OrderOf
<1>3. \A j \in 1 .. 4 : j = 1 \/ j = 2 \/ j = 3 \/ j = 4
      OBVIOUS
<1>4. QED BY <1>1, <1>2, <1>3

LEMMA AfterIsHigher ==
    ASSUME NEW v, NEW w, After(v, w)
    PROVE  OrderOf(v) <= OrderOf(w) /\ OrderOf(v) \in 1 .. 4 /\ OrderOf(w) \in 1 .. 4 /\ w # "cpu"
BY OrderedVariants DEF After, Variants

LEMMA FallsBack ==
    ASSUME BatchTypeOK, NothingRead \/ \E first, last \in AllVariants : ReadWith(first, last)
    PROVE  LET done == {i \in DOMAIN items : items[i].text # Nowhere}
           IN  /\ Cardinality({items[i].text : i \in done}) <= 2
               /\ \A i, j \in done : i <= j => OrderOf(items[i].text) <= OrderOf(items[j].text)
               /\ \A i \in done : /\ Cfg.variant # "auto" => items[i].text = Cfg.variant
                                  /\ items[i].text = "cpu" => items[1].text \in {"cpu", Nowhere}
<1> DEFINE done == {i \in DOMAIN items : items[i].text # Nowhere}
           read == {items[i].text : i \in done}
<1>1. CASE NothingRead
  <2>1. done = {} /\ read = {}
        BY <1>1 DEF NothingRead
  <2>2. Cardinality(read) = 0
        BY <2>1, FS_EmptySet
  <2>3. QED BY <2>1, <2>2
<1>2. ASSUME NEW first \in AllVariants, NEW last \in AllVariants, ReadWith(first, last)
      PROVE  /\ Cardinality(read) <= 2
             /\ \A i, j \in done : i <= j => OrderOf(items[i].text) <= OrderOf(items[j].text)
             /\ \A i \in done : /\ Cfg.variant # "auto" => items[i].text = Cfg.variant
                                /\ items[i].text = "cpu" => items[1].text \in {"cpu", Nowhere}
  <2>0. \A i \in done : items[i].text \in {first, last}
        BY <1>2 DEF ReadWith
  <2>1. read \subseteq {first, last}
        BY <2>0
  <2>2. IsFiniteSet({first, last}) /\ Cardinality({first, last}) <= 2
    <3>1. IsFiniteSet({first}) /\ Cardinality({first}) = 1
          BY FS_Singleton
    <3>2. {first, last} = {first} \cup {last}
          OBVIOUS
    <3>3. QED BY <3>1, <3>2, FS_AddElement
  <2>3. Cardinality(read) <= 2
    <3>1. IsFiniteSet(read) /\ Cardinality(read) <= Cardinality({first, last})
          BY <2>1, <2>2, FS_Subset
    <3>2. Cardinality(read) \in Nat /\ Cardinality({first, last}) \in Nat
          BY <2>2, <3>1, FS_CardinalityType
    <3>3. QED BY <2>2, <3>1, <3>2
  <2>4. OrderOf(first) \in 1 .. 4 /\ OrderOf(last) \in 1 .. 4 /\ OrderOf(first) <= OrderOf(last)
    <3>1. CASE first = last
          BY <3>1, OrderedVariants DEF AllVariants, Variants
    <3>2. CASE After(first, last)
          BY <3>2, AfterIsHigher
    <3>3. QED BY <1>2, <3>1, <3>2 DEF ReadWith
  <2>5. \A i, j \in done : i <= j => OrderOf(items[i].text) <= OrderOf(items[j].text)
    <3>1. SUFFICES ASSUME NEW i \in done, NEW j \in done, i <= j
                   PROVE  OrderOf(items[i].text) <= OrderOf(items[j].text)
          OBVIOUS
    <3>2. CASE items[i].text = last
      <4>1. items[j].text = last
            BY <1>2, <3>1, <3>2 DEF ReadWith
      <4>2. QED BY <2>4, <3>2, <4>1
    <3>3. CASE items[i].text = first
          BY <2>0, <2>4, <3>3
    <3>4. QED BY <2>0, <3>2, <3>3
  <2>6. ASSUME NEW i \in done
        PROVE  /\ Cfg.variant # "auto" => items[i].text = Cfg.variant
               /\ items[i].text = "cpu" => items[1].text \in {"cpu", Nowhere}
    <3>1. Cfg.variant # "auto" => first = last /\ last = Cfg.variant
          BY <1>2 DEF ReadWith
    <3>2. items[i].text = "cpu" => first = "cpu" /\ last = "cpu"
      <4>1. CASE first = last
            BY <2>0, <4>1
      <4>2. CASE After(first, last)
        <5>1. last # "cpu" /\ first # "cpu"
              BY <4>2, AfterIsHigher, OrderedVariants DEF After, Variants
        <5>2. QED BY <2>0, <5>1
      <4>3. QED BY <1>2, <4>1, <4>2 DEF ReadWith
    <3>3. 1 \in DOMAIN items
          BY DEF BatchTypeOK
    <3>4. items[i].text = "cpu" => items[1].text \in {"cpu", Nowhere}
          BY <1>2, <3>2, <3>3 DEF ReadWith
    <3>5. QED BY <2>0, <3>1, <3>4
  <2>7. QED BY <2>3, <2>5, <2>6
<1>3. QED BY <1>1, <1>2

LEMMA SoundBatch == BatchInv => BatchIsSound
<1> SUFFICES ASSUME BatchInv PROVE BatchIsSound
    OBVIOUS
<1>1. BatchIsComplete
  <2>1. batch.at \in Nat \ {0}
        BY DEF BatchInv, BatchTypeOK, BatchTypes
  <2>2. QED BY <2>1, LenOfMinutes DEF BatchInv, Counted, BatchIsComplete, BatchAt
<1>2. DiarizesWhereDecided
      BY DEF BatchInv, Decided, DiarizesWhereDecided, BatchAt
<1>3. FallsBackOnce
  <2>1. Cfg.asr = "whisper-cpp" => NothingRead \/ \E first, last \in AllVariants : ReadWith(first, last)
        BY DEF BatchInv, FellOnce, Recogniser
  <2>2. QED BY <2>1, FallsBack DEF FallsBackOnce, OrderOf, BatchInv
<1>4. QED BY <1>1, <1>2, <1>3 DEF BatchIsSound

\* The failure of a file costs the others nothing, the speakers of a file are separated on the
\* device decided for it, and the recogniser falls back once, for any settings and files
\* (batch.py:209, pipeline.py:95, whisper_cpp.py:244).
THEOREM FilesAreIndependent == BatchSpec => []BatchIsSound
<1>1. BatchInit => BatchInv
      BY BatchStarts
<1>2. BatchInv /\ [BatchNext]_batchVars => BatchInv'
      BY BatchGoesRight
<1>3. BatchInv => BatchIsSound
      BY SoundBatch
<1>4. QED BY <1>1, <1>2, <1>3, PTL DEF BatchSpec

-------------------------------------------------------------------------------
(* The encoder beside the models: who relies on what, and who covers the stale  *)
(* files.                                                                       *)

\* The files beside the models, in the order in which they are linked.
Positions    == 1 .. 2 * Len(Quantisations)
VariantAt(k) == Quantisations[(k + 1) \div 2]
HalfAt(k)    == IF k % 2 = 1 THEN "xml" ELSE "bin"

CommandTypes ==
    [does : {"nothing", "download", "verify", "remove", "prepare", "remove-openvino"},
     entry : Entries,
     pc : {"done", "start", "fetch", "probe", "refresh", "unlink", "link", "xml", "bin",
           "managed", "cache"},
     at : Nat]

ModelFiles == {"config", "model", "tokenizer", "ggml"}
CopyTypes  == [managed : SUBSET ModelFiles, cache : SUBSET ModelFiles]

ModelTypeOK ==
    /\ copies \in [Entries -> CopyTypes]
    /\ pair \in [Halves -> Nat] /\ alias \in [Quantised -> [Halves -> Nat]]
    /\ command \in [Processes -> CommandTypes]
    /\ encoders \in Nat /\ crashes \in Nat

Linking(p) == command[p].pc \in {"unlink", "link"}

\* What a command has seen to be so, and stays so while it relies on it.
Relies(p) ==
    LET c == command[p] IN
    /\ c.does = "nothing" <=> c.pc = "done"
    /\ c.pc = "refresh" \/ Linking(p) => c.does \in {"download", "prepare"}
    /\ Linking(p) => c.at \in Positions /\ PairInstalled
    /\ c.pc = "link" \/ (c.pc = "unlink" /\ AliasHalf(p) = "bin")
          => "ggml" \in copies[AliasOf(p)].managed
    /\ c.pc \in {"xml", "bin"} => c.does = "prepare" /\ encoders > 0
    /\ c.pc = "bin" => pair["xml"] > 0
    /\ c.does = "prepare" /\ c.pc = "refresh" => PairInstalled
    /\ c.pc = "managed" => c.does = "remove"
    /\ c.does = "remove" => c.pc \in {"start", "managed", "cache"}
    /\ c.does = "remove-openvino" => c.pc = "start"

Removers == {"remove", "remove-openvino"}

\* Who removes is alone.
RemovesAlone ==
    \A p \in Processes, q \in Processes : p # q /\ command[p].does \in Removers => AtRest(q)

\* A file of the encoder is beside a model only.
BesideModels ==
    \A v \in Quantised, h \in Halves :
      alias[v][h] > 0 =>
        \/ "ggml" \in copies[v].managed
        \/ \E p \in Processes : command[p].pc = "managed" /\ command[p].entry = v

\* And only while there is an encoder.
WithEncoder ==
    pair["xml"] = 0 =>
      \/ \A v \in Quantised, h \in Halves : alias[v][h] = 0
      \/ \E p \in Processes : command[p].does = "remove-openvino"

\* Who will link or remove a file that is not of the encoder converted last: one that is about
\* to refresh them all, or is on its way and will not give up where it is.
Stale(k) == alias[VariantAt(k)][HalfAt(k)] \notin {0, pair[HalfAt(k)]}

GoesOn(p) == command[p].pc = "unlink" \/ alias[AliasOf(p)][AliasHalf(p)] # pair[AliasHalf(p)]

Covers(p, k) ==
    \/ command[p].does = "prepare" /\ command[p].pc \in {"bin", "refresh"}
    \/ Linking(p) /\ command[p].at <= k /\ GoesOn(p)
    \/ command[p].does = "remove-openvino"

StaleIsCovered == \A k \in Positions : Stale(k) => \E p \in Processes : Covers(p, k)

\* The parts of the invariant while no command was stopped amid the files.
ModelParts ==
    /\ \A p \in Processes : Relies(p)
    /\ RemovesAlone /\ BesideModels /\ WithEncoder /\ StaleIsCovered

\* And what holds wherever commands stop, so that a removal of the encoder can repair the rest.
ModelOrder ==
    /\ damaged \in BOOLEAN
    /\ \A p \in Processes : command[p].does = "nothing" <=> command[p].pc = "done"
    /\ RemovesAlone

ModelInv == ModelTypeOK /\ ModelOrder /\ (~damaged => ModelParts)

-------------------------------------------------------------------------------
(* Positions *)

LEMMA PositionFacts ==
    /\ Len(Quantisations) \in Nat \ {0} /\ 1 \in Positions
    /\ \A k \in Positions : VariantAt(k) \in Quantised /\ HalfAt(k) \in Halves
    /\ \A k \in Positions : k \in Nat
    /\ \A v \in Quantised, h \in Halves : \E k \in Positions : VariantAt(k) = v /\ HalfAt(k) = h
    /\ \A j, k \in Positions : VariantAt(j) = VariantAt(k) /\ HalfAt(j) = HalfAt(k) => j = k
  <1>1. Len(Quantisations) \in Nat \ {0}
    BY CatalogAssumption DEF CatalogAssumption
  <1>2. ASSUME NEW k \in Positions PROVE VariantAt(k) \in Quantised /\ HalfAt(k) \in Halves
    <2>1. (k + 1) \div 2 \in 1 .. Len(Quantisations)
      BY <1>1 DEF Positions
    <2> QED
      BY <2>1 DEF VariantAt, HalfAt, Quantised, Halves
  <1>3. ASSUME NEW v \in Quantised, NEW h \in Halves
        PROVE  \E k \in Positions : VariantAt(k) = v /\ HalfAt(k) = h
    <2>1. PICK i \in 1 .. Len(Quantisations) : Quantisations[i] = v
      BY DEF Quantised
    <2>2. /\ 2 * i \in Positions /\ 2 * i - 1 \in Positions
          /\ (2 * i + 1) \div 2 = i /\ (2 * i - 1 + 1) \div 2 = i
          /\ (2 * i) % 2 = 0 /\ (2 * i - 1) % 2 = 1
      BY <1>1, <2>1 DEF Positions
    <2>3. CASE h = "xml"
      BY <2>1, <2>2, <2>3 DEF VariantAt, HalfAt
    <2>4. CASE h = "bin"
      BY <2>1, <2>2, <2>4 DEF VariantAt, HalfAt
    <2> QED
      BY <2>3, <2>4 DEF Halves
  <1>4. ASSUME NEW j \in Positions, NEW k \in Positions,
               VariantAt(j) = VariantAt(k), HalfAt(j) = HalfAt(k)
        PROVE  j = k
    <2>1. (j + 1) \div 2 \in 1 .. Len(Quantisations) /\ (k + 1) \div 2 \in 1 .. Len(Quantisations)
      BY <1>1 DEF Positions
    <2>2. (j + 1) \div 2 = (k + 1) \div 2
      BY <1>4, <2>1, CatalogAssumption DEF CatalogAssumption, VariantAt
    <2>3. (j % 2 = 1) <=> (k % 2 = 1)
      BY <1>4 DEF HalfAt
    <2> QED
      BY <2>2, <2>3 DEF Positions
  <1> QED
    BY <1>1, <1>2, <1>3, <1>4 DEF Positions

LEMMA NextPosition ==
    ASSUME NEW k \in Positions, HalfAt(k) = "xml"
    PROVE  k + 1 \in Positions /\ VariantAt(k + 1) = VariantAt(k) /\ HalfAt(k + 1) = "bin"
  <1>1. Len(Quantisations) \in Nat
    BY PositionFacts
  <1>2. k % 2 = 1
    BY DEF HalfAt
  <1>3. k + 1 \in Positions /\ (k + 1 + 1) \div 2 = (k + 1) \div 2 /\ (k + 1) % 2 = 0
    BY <1>1, <1>2 DEF Positions
  <1> QED
    BY <1>3 DEF VariantAt, HalfAt

\* After a step of two the turn of the first file comes again.
LEMMA AfterNext ==
    ASSUME NEW k \in Positions, HalfAt(k) = "xml", k + 2 \in Positions
    PROVE  HalfAt(k + 2) = "xml"
  <1>1. k % 2 = 1
    BY DEF HalfAt
  <1>2. (k + 2) % 2 = 1
    BY <1>1 DEF Positions
  <1> QED
    BY <1>2 DEF HalfAt

LEMMA AfterBin ==
    ASSUME NEW k \in Positions, HalfAt(k) = "bin", k + 1 \in Positions
    PROVE  HalfAt(k + 1) = "xml"
  <1>1. k % 2 # 1
    BY DEF HalfAt
  <1>2. (k + 1) % 2 = 1
    BY <1>1 DEF Positions
  <1> QED
    BY <1>2 DEF HalfAt

LEMMA AliasAt ==
    ASSUME NEW p
    PROVE  AliasOf(p) = VariantAt(command[p].at) /\ AliasHalf(p) = HalfAt(command[p].at)
  BY DEF AliasOf, AliasTurn, AliasHalf, VariantAt, HalfAt

-------------------------------------------------------------------------------
(* Steps of a command *)

\* The others are where they were.
OthersStay(p) == \A q \in Processes \ {p} : command'[q] = command[q]

LEMMA CommandGoesOn ==
    ASSUME ModelTypeOK, NEW p \in Processes,
           NEW pc \in {"done", "start", "fetch", "probe", "refresh", "unlink", "link", "xml",
                       "bin", "managed", "cache"},
           CommandGoes(p, pc)
    PROVE  /\ command' \in [Processes -> CommandTypes] /\ OthersStay(p)
           /\ command'[p].pc = pc /\ command'[p].does = command[p].does
           /\ command'[p].entry = command[p].entry /\ command'[p].at = command[p].at
  <1>1. command[p] \in CommandTypes
    BY DEF ModelTypeOK
  <1>2. PICK c : c = [command[p] EXCEPT !.pc = pc]
    OBVIOUS
  <1>3. c \in CommandTypes /\ c.pc = pc /\ c.does = command[p].does /\ c.entry = command[p].entry
        /\ c.at = command[p].at
    BY <1>1, <1>2 DEF CommandTypes
  <1>4. command' = [command EXCEPT ![p] = c]
    BY <1>2 DEF CommandGoes
  <1> QED
    BY <1>3, <1>4 DEF ModelTypeOK, OthersStay

LEMMA CommandDone ==
    ASSUME ModelTypeOK, NEW p \in Processes, CommandEnds(p)
    PROVE  /\ command' \in [Processes -> CommandTypes] /\ OthersStay(p)
           /\ command'[p].pc = "done" /\ command'[p].does = "nothing"
  <1>1. NoCommand \in CommandTypes /\ NoCommand.pc = "done" /\ NoCommand.does = "nothing"
    BY DEF NoCommand, CommandTypes, Entries
  <1> HIDE DEF NoCommand
  <1> QED
    BY <1>1 DEF CommandEnds, ModelTypeOK, OthersStay

\* What others rely on, and what no step but a removal takes away.
LEMMA WhatStays ==
    ASSUME ModelTypeOK, ModelParts, NEW p \in Processes,
           command' \in [Processes -> CommandTypes], OthersStay(p),
           pair' \in [Halves -> Nat], \A h \in Halves : pair[h] > 0 => pair'[h] > 0,
           alias' \in [Quantised -> [Halves -> Nat]],
           \A v \in Quantised, h \in Halves :
             alias'[v][h] > 0 => alias[v][h] > 0 \/ ("ggml" \in copies[v].managed /\ PairInstalled),
           encoders' \in Nat, encoders' >= encoders,
           \A v \in Entries : copies[v].managed \subseteq copies'[v].managed,
           command[p].pc # "managed", command[p].does # "remove-openvino",
           Relies(p)',
           \/ command'[p].does \in {command[p].does, "nothing"}
           \/ \A q \in Processes : /\ command[q].does \notin Removers
                                   /\ command'[p].does \in Removers => AtRest(q) \/ q = p
    PROVE  (\A q \in Processes : Relies(q)') /\ RemovesAlone' /\ BesideModels' /\ WithEncoder'
  <1>1. ASSUME NEW q \in Processes \ {p} PROVE Relies(q)'
    <2>1. Relies(q) /\ command'[q] = command[q]
      BY DEF ModelParts, OthersStay
    <2>2. Linking(q) => AliasOf(q) \in Entries
      BY <2>1, AliasAt, PositionFacts DEF Relies, Entries
    <2>3. AliasOf(q)' = AliasOf(q) /\ AliasHalf(q)' = AliasHalf(q) /\ Linking(q)' = Linking(q)
      BY <2>1 DEF AliasOf, AliasTurn, AliasHalf, Linking
    <2>4. (encoders > 0 => encoders' > 0) /\ (PairInstalled => PairInstalled')
          /\ (pair["xml"] > 0 => pair'["xml"] > 0)
      BY DEF ModelTypeOK, PairInstalled, Halves
    <2> QED
      BY <2>1, <2>2, <2>3, <2>4 DEF Relies, Linking
  <1>2. RemovesAlone'
    <2> SUFFICES ASSUME NEW a \in Processes, NEW b \in Processes, a # b,
                        command'[a].does \in Removers
                 PROVE  command'[b].does = "nothing"
      BY DEF RemovesAlone, AtRest
    <2>1. CASE a # p /\ b # p
      BY <2>1 DEF ModelParts, RemovesAlone, AtRest, OthersStay
    <2>2. CASE a = p
      <3>1. command'[b] = command[b]
        BY <2>2 DEF OthersStay
      <3> QED
        BY <2>2, <3>1 DEF ModelParts, RemovesAlone, AtRest, Removers
    <2>3. CASE b = p
      <3>1. command'[a] = command[a]
        BY <2>3 DEF OthersStay
      <3>2. AtRest(p)
        BY <2>3, <3>1 DEF ModelParts, RemovesAlone
      <3> QED
        BY <2>3, <3>1, <3>2 DEF AtRest
    <2> QED
      BY <2>1, <2>2, <2>3
  <1>3. BesideModels'
    <2> SUFFICES ASSUME NEW v \in Quantised, NEW h \in Halves, alias'[v][h] > 0
                 PROVE  \/ "ggml" \in copies'[v].managed
                        \/ \E q \in Processes : command'[q].pc = "managed" /\ command'[q].entry = v
      BY DEF BesideModels
    <2>1. v \in Entries
      BY DEF Entries
    <2>2. CASE "ggml" \in copies[v].managed
      BY <2>1, <2>2
    <2>3. ASSUME NEW q \in Processes, command[q].pc = "managed", command[q].entry = v
          PROVE  command'[q].pc = "managed" /\ command'[q].entry = v
      BY <2>3 DEF OthersStay
    <2> QED
      BY <2>2, <2>3 DEF ModelParts, BesideModels
  <1>4. WithEncoder'
    <2>1. ASSUME NEW q \in Processes, command[q].does = "remove-openvino"
          PROVE  command'[q].does = "remove-openvino"
      BY <2>1 DEF OthersStay
    <2>2. pair'["xml"] = 0 => pair["xml"] = 0 /\ ~PairInstalled
      BY DEF PairInstalled, Halves, ModelTypeOK
    <2>3. (\A v \in Quantised, h \in Halves : alias[v][h] = 0) /\ ~PairInstalled
             => \A v \in Quantised, h \in Halves : alias'[v][h] = 0
      OBVIOUS
    <2> QED
      BY <2>1, <2>2, <2>3 DEF ModelParts, WithEncoder
  <1> QED
    BY <1>1, <1>2, <1>3, <1>4

\* A file that has become stale, or that one who no longer covers it would have linked, needs
\* another who does; a step that makes none leaves all covered.
LEMMA CoveredStays ==
    ASSUME StaleIsCovered, NEW p \in Processes, OthersStay(p), pair' = pair, alias' = alias,
           \A k \in Positions : ~Covers(p, k)
    PROVE  StaleIsCovered'
  <1> SUFFICES ASSUME NEW k \in Positions, Stale(k)'
               PROVE  \E q \in Processes : Covers(q, k)'
    BY DEF StaleIsCovered, Positions
  <1>1. Stale(k)
    BY DEF Stale, VariantAt, HalfAt
  <1>2. PICK q \in Processes : Covers(q, k)
    BY <1>1 DEF StaleIsCovered
  <1>3. command'[q] = command[q]
    BY <1>2 DEF OthersStay
  <1>4. Covers(q, k)'
    BY <1>2, <1>3 DEF Covers, Linking, GoesOn, AliasOf, AliasTurn, AliasHalf
  <1> QED
    BY <1>4

\* A step of a command that has nothing to do with the encoder or has not got to it.
LEMMA QuietCommandStep ==
    ASSUME ModelTypeOK, ModelParts, NEW p \in Processes,
           command' \in [Processes -> CommandTypes], OthersStay(p),
           pair' = pair, alias' = alias, encoders' \in Nat, encoders' >= encoders,
           \A v \in Entries : copies[v].managed \subseteq copies'[v].managed,
           \A k \in Positions : ~Covers(p, k), command[p].pc # "managed",
           command[p].does # "remove-openvino",
           Relies(p)',
           \/ command'[p].does \in {command[p].does, "nothing"}
           \/ \A q \in Processes : /\ command[q].does \notin Removers
                                   /\ command'[p].does \in Removers => AtRest(q) \/ q = p
    PROVE  ModelParts'
  <1>1. /\ pair' \in [Halves -> Nat] /\ alias' \in [Quantised -> [Halves -> Nat]]
        /\ \A h \in Halves : pair[h] > 0 => pair'[h] > 0
        /\ \A v \in Quantised, h \in Halves :
             alias'[v][h] > 0 => alias[v][h] > 0 \/ ("ggml" \in copies[v].managed /\ PairInstalled)
    BY DEF ModelTypeOK
  <1>2. (\A q \in Processes : Relies(q)') /\ RemovesAlone' /\ BesideModels' /\ WithEncoder'
    BY <1>1, WhatStays
  <1>3. StaleIsCovered'
    BY CoveredStays DEF ModelParts
  <1> QED
    BY <1>2, <1>3 DEF ModelParts

-------------------------------------------------------------------------------
(* Steps of the files *)

LEMMA NewFiles ==
    ASSUME ModelTypeOK, NEW e, NEW f \in ModelFiles, NEW s \in SUBSET ModelFiles,
           copies' = [copies EXCEPT ![e].managed = s]
    PROVE  /\ copies' \in [Entries -> CopyTypes]
           /\ \A g \in Entries : copies'[g].managed = IF g = e THEN s ELSE copies[g].managed
  <1>1. ASSUME NEW g \in Entries
        PROVE  copies'[g] \in CopyTypes /\ copies'[g].managed = IF g = e THEN s ELSE copies[g].managed
    <2>1. copies[g] \in CopyTypes
      BY DEF ModelTypeOK
    <2>2. PICK c : c = [copies[g] EXCEPT !.managed = s]
      OBVIOUS
    <2>3. c \in CopyTypes /\ c.managed = s
      BY <2>1, <2>2 DEF CopyTypes
    <2>4. copies'[g] = IF g = e THEN c ELSE copies[g]
      BY <2>2 DEF ModelTypeOK
    <2> QED
      BY <2>1, <2>3, <2>4
  <1>2. copies' = [g \in Entries |-> copies'[g]]
    BY DEF ModelTypeOK
  <1> QED
    BY <1>1, <1>2

LEMMA NewCache ==
    ASSUME ModelTypeOK, NEW e, copies' = [copies EXCEPT ![e].cache = {}]
    PROVE  /\ copies' \in [Entries -> CopyTypes]
           /\ \A g \in Entries : copies'[g].managed = copies[g].managed
  <1>1. ASSUME NEW g \in Entries
        PROVE  copies'[g] \in CopyTypes /\ copies'[g].managed = copies[g].managed
    <2>1. copies[g] \in CopyTypes
      BY DEF ModelTypeOK
    <2>2. PICK c : c = [copies[g] EXCEPT !.cache = {}]
      OBVIOUS
    <2>3. c \in CopyTypes /\ c.managed = copies[g].managed
      BY <2>1, <2>2 DEF CopyTypes
    <2>4. copies'[g] = IF g = e THEN c ELSE copies[g]
      BY <2>2 DEF ModelTypeOK
    <2> QED
      BY <2>1, <2>3, <2>4
  <1>2. copies' = [g \in Entries |-> copies'[g]]
    BY DEF ModelTypeOK
  <1> QED
    BY <1>1, <1>2

LEMMA NewAlias ==
    ASSUME ModelTypeOK, NEW v, NEW h, NEW n \in Nat,
           alias' = [alias EXCEPT ![v][h] = n]
    PROVE  /\ alias' \in [Quantised -> [Halves -> Nat]]
           /\ \A w \in Quantised, g \in Halves :
                alias'[w][g] = IF w = v /\ g = h THEN n ELSE alias[w][g]
  <1>1. ASSUME NEW w \in Quantised
        PROVE  /\ alias'[w] \in [Halves -> Nat]
               /\ \A g \in Halves : alias'[w][g] = IF w = v /\ g = h THEN n ELSE alias[w][g]
    <2>1. alias[w] \in [Halves -> Nat]
      BY DEF ModelTypeOK
    <2>2. PICK a : a = [alias[w] EXCEPT ![h] = n]
      OBVIOUS
    <2>3. a \in [Halves -> Nat] /\ \A g \in Halves : a[g] = IF g = h THEN n ELSE alias[w][g]
      BY <2>1, <2>2
    <2>4. alias'[w] = IF w = v THEN a ELSE alias[w]
      BY <2>2 DEF ModelTypeOK
    <2>5. CASE w = v
      BY ONLY <2>3, <2>4, <2>5
    <2>6. CASE w # v
      BY ONLY <2>1, <2>4, <2>6
    <2> QED
      BY <2>5, <2>6
  <1>2. alias' = [w \in Quantised |-> alias'[w]]
    BY DEF ModelTypeOK
  <1> QED
    BY <1>1, <1>2

\* The command is at a file to unlink.
LEMMA CommandUnlinks ==
    ASSUME ModelTypeOK, NEW p \in Processes, NEW n \in Nat,
           command' = [command EXCEPT ![p].pc = "unlink", ![p].at = n]
    PROVE  /\ command' \in [Processes -> CommandTypes] /\ OthersStay(p)
           /\ command'[p].pc = "unlink" /\ command'[p].does = command[p].does
           /\ command'[p].at = n
  <1>1. command[p] \in CommandTypes
    BY DEF ModelTypeOK
  <1>2. PICK c : c = [command[p] EXCEPT !.pc = "unlink"]
    OBVIOUS
  <1>3. c \in CommandTypes /\ c.pc = "unlink" /\ c.does = command[p].does
    BY <1>1, <1>2 DEF CommandTypes
  <1>4. PICK d : d = [c EXCEPT !.at = n]
    OBVIOUS
  <1>5. d \in CommandTypes /\ d.pc = "unlink" /\ d.does = command[p].does /\ d.at = n
    BY <1>3, <1>4 DEF CommandTypes
  <1>6. command' = [command EXCEPT ![p] = d]
    BY <1>2, <1>4, <1>1 DEF CommandTypes
  <1> QED
    BY <1>5, <1>6 DEF ModelTypeOK, OthersStay

LEMMA NextFile ==
    ASSUME ModelTypeOK, NEW p \in Processes, NEW n \in Nat, NextAlias(p, n)
    PROVE  /\ command' \in [Processes -> CommandTypes] /\ OthersStay(p)
           /\ \/ /\ command[p].at + n > 2 * Len(Quantisations)
                 /\ command'[p].pc = "done" /\ command'[p].does = "nothing"
              \/ /\ command[p].at + n <= 2 * Len(Quantisations)
                 /\ command'[p].pc = "unlink" /\ command'[p].does = command[p].does
                 /\ command'[p].at = command[p].at + n
  <1>1. command[p].at \in Nat
    BY DEF ModelTypeOK, CommandTypes
  <1>2. PICK m \in Nat : m = command[p].at + n
    BY <1>1
  <1>3. CASE m > 2 * Len(Quantisations)
    <2>1. CommandEnds(p)
      BY <1>2, <1>3 DEF NextAlias
    <2> QED
      BY <1>2, <1>3, <2>1, CommandDone
  <1>4. CASE ~(m > 2 * Len(Quantisations))
    <2>1. command' = [command EXCEPT ![p].pc = "unlink", ![p].at = @ + n]
      BY <1>2, <1>4 DEF NextAlias
    <2>2. command' = [command EXCEPT ![p].pc = "unlink", ![p].at = m]
      BY <1>2, <2>1
    <2>3. m <= 2 * Len(Quantisations)
      BY <1>4, PositionFacts
    <2> QED
      BY <1>2, <2>2, <2>3, CommandUnlinks
  <1> QED
    BY <1>3, <1>4

-------------------------------------------------------------------------------
(* Types *)

LEMMA FilesOfARepository ==
    ASSUME NEW e \in Entries PROVE RepositoryFiles(e) \subseteq ModelFiles
  BY DEF RepositoryFiles, ModelFiles

\* The steps that only move a command.
LEMMA CommandTypesStay ==
    ASSUME ModelTypeOK, command' \in [Processes -> CommandTypes],
           UNCHANGED <<copies, pair, alias>>, encoders' \in Nat, crashes' \in Nat
    PROVE  ModelTypeOK'
  BY DEF ModelTypeOK

LEMMA StartTypes ==
    ASSUME ModelTypeOK, NEW p \in Processes, StartCommand(p)
    PROVE  /\ command' \in [Processes -> CommandTypes] /\ OthersStay(p)
           /\ command'[p].pc = "start" /\ command'[p].does # "nothing"
           /\ MayStart(command'[p].does) /\ command[p].does = "nothing"
  <1>1. PICK does \in {"download", "verify", "remove", "prepare", "remove-openvino"},
             e \in Entries :
          /\ MayStart(does)
          /\ command' = [command EXCEPT ![p] =
                           [does |-> does, entry |-> e, pc |-> "start", at |-> 0]]
    BY DEF StartCommand
  <1>2. PICK c : c = [does |-> does, entry |-> e, pc |-> "start", at |-> 0]
    OBVIOUS
  <1>3. c \in CommandTypes /\ c.pc = "start" /\ c.does = does
    BY <1>2 DEF CommandTypes
  <1>4. command' = [command EXCEPT ![p] = c]
    BY <1>1, <1>2
  <1>5. command[p].does = "nothing"
    BY DEF StartCommand, AtRest
  <1> QED
    BY <1>1, <1>3, <1>4, <1>5 DEF ModelTypeOK, OthersStay

LEMMA ModelTypesStay ==
    ASSUME ModelTypeOK, ModelNext
    PROVE  ModelTypeOK'
  <1> PICK p \in Processes :
        \/ StartCommand(p) \/ DownloadLooks(p) \/ FetchFile(p) \/ FetchStops(p) \/ Fetched(p)
        \/ ProbeHeads(p) \/ RefreshAliases(p) \/ Unlink(p) \/ Link(p) \/ ConvertEncoder(p)
        \/ MoveXml(p) \/ MoveBin(p) \/ RemoveEncoder(p) \/ RemoveModel(p) \/ VerifyModel(p)
        \/ KillCommand(p) \/ FileOperationFails(p)
    BY DEF ModelNext
  <1>0. encoders \in Nat /\ crashes \in Nat /\ command \in [Processes -> CommandTypes]
    BY DEF ModelTypeOK
  <1>1. CASE StartCommand(p)
    <2>1. command' \in [Processes -> CommandTypes]
      BY <1>1, StartTypes
    <2> QED
      BY <1>0, <1>1, <2>1, CommandTypesStay DEF StartCommand
  <1>2. CASE DownloadLooks(p)
    <2>1. command' \in [Processes -> CommandTypes]
      BY <1>2, CommandGoesOn, CommandDone DEF DownloadLooks
    <2> QED
      BY <1>0, <1>2, <2>1, CommandTypesStay DEF DownloadLooks
  <1>3. CASE FetchFile(p)
    <2>1. PICK e : e = command[p].entry
      OBVIOUS
    <2>2. e \in Entries
      BY <2>1 DEF ModelTypeOK, CommandTypes
    <2>3. PICK f \in RepositoryFiles(e) :
            copies' = [copies EXCEPT ![e].managed = @ \union {f}]
      BY <1>3, <2>1 DEF FetchFile
    <2>4. PICK s : s = copies[e].managed \union {f}
      OBVIOUS
    <2>5. f \in ModelFiles /\ s \in SUBSET ModelFiles
      BY <2>2, <2>3, <2>4, FilesOfARepository DEF ModelTypeOK, CopyTypes
    <2>6. copies' = [copies EXCEPT ![e].managed = s]
      BY <2>3, <2>4
    <2>7. copies' \in [Entries -> CopyTypes]
      BY <2>5, <2>6, NewFiles
    <2> QED
      BY <1>3, <2>7 DEF FetchFile, ModelTypeOK
  <1>4. CASE FetchStops(p)
    <2>1. command' \in [Processes -> CommandTypes]
      BY <1>4, CommandDone DEF FetchStops
    <2> QED
      BY <1>0, <1>4, <2>1, CommandTypesStay DEF FetchStops
  <1>5. CASE Fetched(p)
    <2>1. command' \in [Processes -> CommandTypes]
      BY <1>5, CommandGoesOn DEF Fetched
    <2> QED
      BY <1>0, <1>5, <2>1, CommandTypesStay DEF Fetched
  <1>6. CASE ProbeHeads(p)
    <2>1. command' \in [Processes -> CommandTypes]
      BY <1>6, CommandDone DEF ProbeHeads
    <2> QED
      BY <1>0, <1>6, <2>1, CommandTypesStay DEF ProbeHeads
  <1>7. CASE RefreshAliases(p)
    <2>1. command' \in [Processes -> CommandTypes]
      <3>1. \/ command' = [command EXCEPT ![p].pc = "unlink", ![p].at = 1]
            \/ CommandEnds(p)
        BY <1>7 DEF RefreshAliases
      <3> QED
        BY <3>1, CommandUnlinks, CommandDone
    <2> QED
      BY <1>0, <1>7, <2>1, CommandTypesStay DEF RefreshAliases
  <1>8. CASE Unlink(p)
    <2>1. CASE NextAlias(p, 2) /\ alias' = alias
      <3>1. command' \in [Processes -> CommandTypes]
        BY <2>1, NextFile
      <3> QED
        BY <1>0, <1>8, <2>1, <3>1, CommandTypesStay DEF Unlink
    <2>2. CASE CommandGoes(p, "link") /\ alias' = [alias EXCEPT ![AliasOf(p)][AliasHalf(p)] = 0]
      <3>1. command' \in [Processes -> CommandTypes]
        BY <2>2, CommandGoesOn
      <3>2. alias' \in [Quantised -> [Halves -> Nat]]
        BY <2>2, NewAlias
      <3> QED
        BY <1>8, <3>1, <3>2 DEF Unlink, ModelTypeOK
    <2> QED
      BY <1>8, <2>1, <2>2 DEF Unlink
  <1>9. CASE Link(p)
    <2>1. CASE /\ alias' = [alias EXCEPT ![AliasOf(p)][AliasHalf(p)] = pair[AliasHalf(p)]]
               /\ NextAlias(p, 1)
      <3>1. command' \in [Processes -> CommandTypes]
        BY <2>1, NextFile
      <3>2. pair[AliasHalf(p)] \in Nat
        BY DEF ModelTypeOK, AliasHalf, Halves
      <3>3. alias' \in [Quantised -> [Halves -> Nat]]
        BY <2>1, <3>2, NewAlias
      <3> QED
        BY <1>9, <3>1, <3>3 DEF Link, ModelTypeOK
    <2>2. CASE CommandEnds(p) /\ alias' = alias
      <3>1. command' \in [Processes -> CommandTypes]
        BY <2>2, CommandDone
      <3> QED
        BY <1>0, <1>9, <2>2, <3>1, CommandTypesStay DEF Link
    <2> QED
      BY <1>9, <2>1, <2>2 DEF Link
  <1>10. CASE ConvertEncoder(p)
    <2>1. command' \in [Processes -> CommandTypes]
      BY <1>10, CommandGoesOn, CommandDone DEF ConvertEncoder
    <2>2. encoders' \in Nat
      BY <1>0, <1>10 DEF ConvertEncoder
    <2> QED
      BY <1>0, <1>10, <2>1, <2>2, CommandTypesStay DEF ConvertEncoder
  <1>11. CASE MoveXml(p)
    <2>1. command' \in [Processes -> CommandTypes]
      BY <1>11, CommandGoesOn DEF MoveXml
    <2> QED
      BY <1>11, <2>1 DEF MoveXml, ModelTypeOK, Halves
  <1>12. CASE MoveBin(p)
    <2>1. command' \in [Processes -> CommandTypes]
      BY <1>12, CommandGoesOn DEF MoveBin
    <2> QED
      BY <1>12, <2>1 DEF MoveBin, ModelTypeOK, Halves
  <1>13. CASE RemoveEncoder(p)
    <2>1. command' \in [Processes -> CommandTypes] /\ pair' \in [Halves -> Nat]
      <3>1. command' = command \/ CommandEnds(p)
        BY <1>13 DEF RemoveEncoder
      <3>2. \/ pair' = pair \/ pair' = [pair EXCEPT !["xml"] = 0]
            \/ pair' = [pair EXCEPT !["bin"] = 0]
        BY <1>13 DEF RemoveEncoder
      <3>3. command' \in [Processes -> CommandTypes]
        BY <1>0, <3>1, CommandDone
      <3> QED
        BY <3>2, <3>3 DEF ModelTypeOK, Halves
    <2>2. \/ alias' = alias
          \/ \E v \in Quantised, h \in Halves : alias' = [alias EXCEPT ![v][h] = 0]
      BY <1>13 DEF RemoveEncoder
    <2>3. alias' \in [Quantised -> [Halves -> Nat]]
      BY <2>2, NewAlias DEF ModelTypeOK
    <2> QED
      BY <1>13, <2>1, <2>3 DEF RemoveEncoder, ModelTypeOK
  <1>14. CASE RemoveModel(p)
    <2>1. PICK e : e = command[p].entry
      OBVIOUS
    <2>2. e \in Entries
      BY <2>1 DEF ModelTypeOK, CommandTypes
    <2>3. \/ command' = command \/ CommandEnds(p)
          \/ CommandGoes(p, StatusPlace(e)) /\ StatusPlace(e) # "none"
      BY <1>14, <2>1 DEF RemoveModel
    <2>4. StatusPlace(e) \in {"managed", "cache", "none"}
      BY DEF StatusPlace
    <2>5. command' \in [Processes -> CommandTypes]
      BY <1>0, <2>3, <2>4, CommandDone, CommandGoesOn
    <2>6. \/ copies' = copies
          \/ copies' = [copies EXCEPT ![e].cache = {}]
          \/ \E f \in copies[e].managed : copies' = [copies EXCEPT ![e].managed = @ \ {f}]
      BY <1>14, <2>1 DEF RemoveModel
    <2>7. copies' \in [Entries -> CopyTypes]
      <3>1. ASSUME NEW f \in copies[e].managed,
                   copies' = [copies EXCEPT ![e].managed = @ \ {f}]
            PROVE  copies' \in [Entries -> CopyTypes]
        <4>1. PICK s : s = copies[e].managed \ {f}
          OBVIOUS
        <4>2. s \in SUBSET ModelFiles /\ f \in ModelFiles
          BY <2>2, <3>1, <4>1 DEF ModelTypeOK, CopyTypes
        <4>3. copies' = [copies EXCEPT ![e].managed = s]
          BY <3>1, <4>1
        <4> QED
          BY <4>2, <4>3, NewFiles
      <3> QED
        BY <2>6, <3>1, NewCache DEF ModelTypeOK
    <2>8. alias' = alias \/ \E h \in Halves : alias' = [alias EXCEPT ![e][h] = 0]
      BY <1>14, <2>1 DEF RemoveModel
    <2>9. alias' \in [Quantised -> [Halves -> Nat]]
      BY <2>8, NewAlias DEF ModelTypeOK
    <2> QED
      BY <1>14, <2>5, <2>7, <2>9 DEF RemoveModel, ModelTypeOK
  <1>15. CASE VerifyModel(p)
    <2>1. command' \in [Processes -> CommandTypes]
      BY <1>15, CommandGoesOn, CommandDone DEF VerifyModel
    <2> QED
      BY <1>0, <1>15, <2>1, CommandTypesStay DEF VerifyModel
  <1>16. CASE KillCommand(p) \/ FileOperationFails(p)
    <2>1. Stopped(p)
      BY <1>16 DEF KillCommand, FileOperationFails
    <2>2. command' \in [Processes -> CommandTypes]
      BY <2>1, CommandDone DEF Stopped
    <2>3. copies' = copies /\ encoders' = encoders /\ crashes' \in Nat
      BY <1>0, <2>1 DEF Stopped
    <2>4. Torn \in Nat
      BY CatalogAssumption DEF CatalogAssumption, Torn
    <2>5. pair' \in [Halves -> Nat]
      BY <2>1, <2>4 DEF Stopped, CutShort, ModelTypeOK, Halves
    <2>6. alias' = alias \/ alias' = [alias EXCEPT ![AliasOf(p)][AliasHalf(p)] = Torn]
      BY <2>1 DEF Stopped, CutShort
    <2>7. alias' \in [Quantised -> [Halves -> Nat]]
      BY <2>4, <2>6, NewAlias DEF ModelTypeOK
    <2> QED
      BY <1>0, <2>2, <2>3, <2>5, <2>7 DEF ModelTypeOK
  <1> QED
    BY <1>1, <1>2, <1>3, <1>4, <1>5, <1>6, <1>7, <1>8, <1>9, <1>10, <1>11, <1>12, <1>13, <1>14,
       <1>15, <1>16

-------------------------------------------------------------------------------
(* What every step keeps while no command is stopped amid the files *)

\* A command that ends relies on nothing, and one that had nothing to cover leaves no gap.
LEMMA QuietEnd ==
    ASSUME ModelTypeOK, ModelParts, NEW p \in Processes, CommandEnds(p),
           UNCHANGED <<copies, pair, alias>>, encoders' = encoders,
           \A k \in Positions : ~Covers(p, k), command[p].pc # "managed",
           command[p].does # "remove-openvino"
    PROVE  ModelParts'
  <1>1. /\ command' \in [Processes -> CommandTypes] /\ OthersStay(p)
        /\ command'[p].pc = "done" /\ command'[p].does = "nothing"
    BY CommandDone
  <1>2. Relies(p)'
    BY <1>1 DEF Relies, Linking
  <1>3. encoders' \in Nat /\ encoders' >= encoders
    BY DEF ModelTypeOK
  <1> QED
    BY <1>1, <1>2, <1>3, QuietCommandStep

\* One that goes to a place where it relies on nothing new.
LEMMA QuietGo ==
    ASSUME ModelTypeOK, ModelParts, NEW p \in Processes,
           NEW pc \in {"fetch", "probe", "refresh", "xml"}, CommandGoes(p, pc),
           pc = "refresh" => command[p].does = "download",
           pc = "xml" => command[p].does = "prepare" /\ encoders' > 0,
           UNCHANGED <<copies, pair, alias>>, encoders' \in Nat, encoders' >= encoders,
           command[p].pc \in {"start", "fetch"},
           command[p].does \in {"download", "verify", "prepare"}
    PROVE  ModelParts'
  <1>1. /\ command' \in [Processes -> CommandTypes] /\ OthersStay(p)
        /\ command'[p].pc = pc /\ command'[p].does = command[p].does
    BY CommandGoesOn
  <1>2. Relies(p)'
    BY <1>1 DEF Relies, Linking
  <1>3. \A k \in Positions : ~Covers(p, k)
    BY DEF Covers, Linking
  <1> QED
    BY <1>1, <1>2, <1>3, QuietCommandStep

LEMMA QuietCommands ==
    ASSUME ModelTypeOK, ModelParts, NEW p \in Processes,
           \/ StartCommand(p) \/ DownloadLooks(p) \/ FetchFile(p) \/ FetchStops(p) \/ Fetched(p)
           \/ ProbeHeads(p) \/ ConvertEncoder(p) \/ VerifyModel(p)
    PROVE  ModelParts'
  <1>0. encoders \in Nat /\ Relies(p)
    BY DEF ModelTypeOK, ModelParts
  <1>1. CASE StartCommand(p)
    <2>1. /\ command' \in [Processes -> CommandTypes] /\ OthersStay(p)
          /\ command'[p].pc = "start" /\ command'[p].does # "nothing"
          /\ MayStart(command'[p].does) /\ command[p].does = "nothing"
      BY <1>1, StartTypes
    <2>2. Relies(p)'
      BY <2>1 DEF Relies, Linking
    <2>3. command[p].pc = "done"
      BY <1>0, <2>1 DEF Relies
    <2>4. \A k \in Positions : ~Covers(p, k)
      BY <2>1, <2>3 DEF Covers, Linking
    <2>5. \A q \in Processes : /\ command[q].does \notin Removers
                               /\ command'[p].does \in Removers => AtRest(q) \/ q = p
      BY <2>1 DEF MayStart, Removers
    <2> QED
      BY <1>0, <1>1, <2>1, <2>2, <2>3, <2>4, <2>5, QuietCommandStep DEF StartCommand
  <1>2. CASE DownloadLooks(p)
    <2>1. \A k \in Positions : ~Covers(p, k)
      BY <1>2 DEF Covers, Linking, DownloadLooks, CommandAt
    <2>2. CASE CommandEnds(p)
      BY <1>0, <1>2, <2>1, <2>2, QuietEnd DEF DownloadLooks, CommandAt
    <2>3. CASE CommandGoes(p, "fetch")
      BY <1>0, <1>2, <2>3, QuietGo DEF DownloadLooks, CommandAt
    <2> QED
      BY <1>2, <2>2, <2>3 DEF DownloadLooks
  <1>3. CASE FetchFile(p)
    <2>1. PICK e : e = command[p].entry
      OBVIOUS
    <2>2. e \in Entries
      BY <2>1 DEF ModelTypeOK, CommandTypes
    <2>3. PICK f \in RepositoryFiles(e) :
            copies' = [copies EXCEPT ![e].managed = @ \union {f}]
      BY <1>3, <2>1 DEF FetchFile
    <2>4. PICK s : s = copies[e].managed \union {f}
      OBVIOUS
    <2>5. f \in ModelFiles /\ s \in SUBSET ModelFiles
      BY <2>2, <2>3, <2>4, FilesOfARepository DEF ModelTypeOK, CopyTypes
    <2>6. copies' = [copies EXCEPT ![e].managed = s]
      BY <2>3, <2>4
    <2>7. \A v \in Entries : copies[v].managed \subseteq copies'[v].managed
      BY <2>4, <2>5, <2>6, NewFiles
    <2>8. /\ command' = command /\ pair' = pair /\ alias' = alias /\ encoders' = encoders
          /\ command[p].does = "download" /\ command[p].pc = "fetch"
      BY <1>3 DEF FetchFile, CommandAt
    <2>9. Relies(p)' /\ (\A k \in Positions : ~Covers(p, k)) /\ OthersStay(p)
      BY <1>0, <2>8 DEF Relies, Linking, Covers, OthersStay
    <2> QED
      BY <1>0, <2>7, <2>8, <2>9, QuietCommandStep DEF ModelTypeOK
  <1>4. CASE FetchStops(p)
    <2>1. \A k \in Positions : ~Covers(p, k)
      BY <1>4 DEF Covers, Linking, FetchStops, CommandAt
    <2> QED
      BY <1>0, <1>4, <2>1, QuietEnd DEF FetchStops, CommandAt
  <1>5. CASE Fetched(p)
    <2>1. CommandGoes(p, "probe") \/ CommandGoes(p, "refresh")
      BY <1>5 DEF Fetched
    <2> QED
      BY <1>0, <1>5, <2>1, QuietGo DEF Fetched, CommandAt
  <1>6. CASE ProbeHeads(p)
    <2>1. command[p].does # "remove-openvino" /\ command[p].pc = "probe"
      BY <1>0, <1>6 DEF ProbeHeads, Relies
    <2>2. \A k \in Positions : ~Covers(p, k)
      BY <2>1 DEF Covers, Linking
    <2> QED
      BY <1>0, <1>6, <2>1, <2>2, QuietEnd DEF ProbeHeads
  <1>7. CASE ConvertEncoder(p)
    <2>1. \A k \in Positions : ~Covers(p, k)
      BY <1>7 DEF Covers, Linking, ConvertEncoder, CommandAt
    <2>2. CASE CommandGoes(p, "xml") /\ encoders' = encoders + 1
      <3>1. encoders' \in Nat /\ encoders' >= encoders /\ encoders' > 0
        BY <1>0, <2>2
      <3> QED
        BY <1>7, <2>2, <3>1, QuietGo DEF ConvertEncoder, CommandAt
    <2>3. CASE CommandEnds(p) /\ encoders' = encoders
      BY <1>0, <1>7, <2>1, <2>3, QuietEnd DEF ConvertEncoder, CommandAt
    <2> QED
      BY <1>7, <2>2, <2>3 DEF ConvertEncoder
  <1>8. CASE VerifyModel(p)
    <2>1. \A k \in Positions : ~Covers(p, k)
      BY <1>8 DEF Covers, Linking, VerifyModel, CommandAt
    <2>2. CASE CommandEnds(p)
      BY <1>0, <1>8, <2>1, <2>2, QuietEnd DEF VerifyModel, CommandAt
    <2>3. CASE CommandGoes(p, "probe")
      BY <1>0, <1>8, <2>3, QuietGo DEF VerifyModel, CommandAt
    <2> QED
      BY <1>8, <2>2, <2>3 DEF VerifyModel
  <1> QED
    BY <1>1, <1>2, <1>3, <1>4, <1>5, <1>6, <1>7, <1>8

LEMMA RefreshStep ==
    ASSUME ModelTypeOK, ModelParts, NEW p \in Processes, RefreshAliases(p)
    PROVE  ModelParts'
  <1>0. /\ Relies(p) /\ command[p].pc = "refresh" /\ command[p].does \in {"download", "prepare"}
        /\ encoders \in Nat
    BY DEF ModelTypeOK, ModelParts, RefreshAliases, Relies
  <1>1. CASE ~PairInstalled
    <2>1. command[p].does = "download"
      BY <1>0, <1>1 DEF Relies
    <2>2. \A k \in Positions : ~Covers(p, k)
      BY <1>0, <2>1 DEF Covers, Linking
    <2> QED
      BY <1>0, <1>1, <2>1, <2>2, QuietEnd DEF RefreshAliases
  <1>2. CASE PairInstalled
    <2>1. /\ command' = [command EXCEPT ![p].pc = "unlink", ![p].at = 1]
          /\ pair' = pair /\ alias' = alias /\ copies' = copies /\ encoders' = encoders
      BY <1>2 DEF RefreshAliases
    <2>2. /\ command' \in [Processes -> CommandTypes] /\ OthersStay(p)
          /\ command'[p].pc = "unlink" /\ command'[p].does = command[p].does
          /\ command'[p].at = 1
      BY <2>1, CommandUnlinks
    <2>3. Relies(p)'
      BY <1>0, <1>2, <2>1, <2>2, PositionFacts
         DEF Relies, Linking, AliasHalf, Positions, PairInstalled
    <2>4. (\A q \in Processes : Relies(q)') /\ RemovesAlone' /\ BesideModels' /\ WithEncoder'
      <3>1. /\ pair' \in [Halves -> Nat] /\ \A h \in Halves : pair[h] > 0 => pair'[h] > 0
            /\ alias' \in [Quantised -> [Halves -> Nat]]
            /\ \A v \in Quantised, h \in Halves :
                 alias'[v][h] > 0
                   => alias[v][h] > 0 \/ ("ggml" \in copies[v].managed /\ PairInstalled)
            /\ encoders' \in Nat /\ encoders' >= encoders
            /\ \A v \in Entries : copies[v].managed \subseteq copies'[v].managed
        BY <1>0, <2>1 DEF ModelTypeOK
      <3> QED
        BY <1>0, <2>2, <2>3, <3>1, WhatStays
    <2>5. ASSUME NEW k \in Positions PROVE Covers(p, k)'
      BY <2>2 DEF Covers, Linking, GoesOn, Positions
    <2>6. StaleIsCovered'
      BY <2>5 DEF StaleIsCovered, Positions
    <2> QED
      BY <2>4, <2>6 DEF ModelParts
  <1> QED
    BY <1>1, <1>2

LEMMA MoveStep ==
    ASSUME ModelTypeOK, ModelParts, NEW p \in Processes, MoveXml(p) \/ MoveBin(p)
    PROVE  ModelParts'
  <1>0. Relies(p) /\ encoders \in Nat /\ encoders > 0 /\ command[p].does = "prepare"
        /\ command[p].pc \in {"xml", "bin"}
    BY DEF ModelTypeOK, ModelParts, MoveXml, MoveBin, Relies, CommandAt
  <1>1. /\ alias' = alias /\ copies' = copies /\ encoders' = encoders
        /\ pair' \in [Halves -> Nat] /\ \A h \in Halves : pair[h] > 0 => pair'[h] > 0
    BY <1>0 DEF MoveXml, MoveBin, ModelTypeOK, Halves
  <1>2. /\ command' \in [Processes -> CommandTypes] /\ OthersStay(p)
        /\ command'[p].pc \in {"bin", "refresh"} /\ command'[p].does = "prepare"
    BY <1>0, CommandGoesOn DEF MoveXml, MoveBin
  <1>3. command'[p].pc = "bin" => pair'["xml"] > 0
    <2>1. CASE MoveXml(p)
      BY <1>0, <2>1 DEF MoveXml, ModelTypeOK, Halves
    <2>2. CASE MoveBin(p)
      <3>1. command'[p].pc = "refresh"
        BY <2>2, CommandGoesOn DEF MoveBin
      <3> QED
        BY <3>1
    <2> QED
      BY <2>1, <2>2
  <1>4. command'[p].pc = "refresh" => PairInstalled'
    <2>1. CASE MoveXml(p)
      <3>1. command'[p].pc = "bin"
        BY <2>1, CommandGoesOn DEF MoveXml
      <3> QED
        BY <3>1
    <2>2. CASE MoveBin(p)
      BY <1>0, <2>2 DEF MoveBin, CommandAt, Relies, ModelTypeOK, Halves, PairInstalled
    <2> QED
      BY <2>1, <2>2
  <1>5. Relies(p)'
    BY <1>0, <1>1, <1>2, <1>3, <1>4 DEF Relies, Linking
  <1>6. (\A q \in Processes : Relies(q)') /\ RemovesAlone' /\ BesideModels' /\ WithEncoder'
    <2>1. /\ alias' \in [Quantised -> [Halves -> Nat]]
          /\ \A v \in Quantised, h \in Halves :
               alias'[v][h] > 0
                 => alias[v][h] > 0 \/ ("ggml" \in copies[v].managed /\ PairInstalled)
          /\ encoders' \in Nat /\ encoders' >= encoders
          /\ \A v \in Entries : copies[v].managed \subseteq copies'[v].managed
      BY <1>0, <1>1 DEF ModelTypeOK
    <2> QED
      BY <1>0, <1>1, <1>2, <1>5, <2>1, WhatStays
  <1>7. ASSUME NEW k \in Positions PROVE Covers(p, k)'
    BY <1>2 DEF Covers
  <1>8. StaleIsCovered'
    BY <1>7 DEF StaleIsCovered, Positions
  <1> QED
    BY <1>6, <1>8 DEF ModelParts

\* Where a command is among the files, and that what others cover they still cover when only the
\* file at hand has changed.
LEMMA AtAFile ==
    ASSUME ModelTypeOK, ModelParts, NEW p \in Processes, Linking(p)
    PROVE  /\ command[p].at \in Positions /\ command[p].at \in Nat
           /\ AliasOf(p) = VariantAt(command[p].at) /\ AliasHalf(p) = HalfAt(command[p].at)
           /\ AliasOf(p) \in Quantised /\ AliasHalf(p) \in Halves
           /\ PairInstalled /\ pair[AliasHalf(p)] \in Nat /\ pair[AliasHalf(p)] > 0
           /\ command[p].does \in {"download", "prepare"}
  <1>1. Relies(p)
    BY DEF ModelParts
  <1>2. /\ command[p].at \in Positions /\ PairInstalled
        /\ command[p].does \in {"download", "prepare"}
    BY <1>1 DEF Relies, Linking
  <1>3. AliasOf(p) = VariantAt(command[p].at) /\ AliasHalf(p) = HalfAt(command[p].at)
    BY AliasAt
  <1>4. AliasOf(p) \in Quantised /\ AliasHalf(p) \in Halves /\ command[p].at \in Nat
    BY <1>2, <1>3, PositionFacts
  <1> QED
    BY <1>2, <1>3, <1>4 DEF PairInstalled, ModelTypeOK

LEMMA UnlinkSkips ==
    ASSUME ModelTypeOK, ModelParts, NEW p \in Processes, Unlink(p),
           AliasHalf(p) = "xml", "ggml" \notin copies[AliasOf(p)].managed
    PROVE  ModelParts'
  <1>0. /\ NextAlias(p, 2) /\ alias' = alias /\ pair' = pair /\ copies' = copies
        /\ encoders' = encoders /\ encoders \in Nat
        /\ command[p].pc = "unlink" /\ Linking(p)
    BY DEF Unlink, Linking, ModelTypeOK
  <1> DEFINE m == command[p].at
  <1>1. /\ m \in Positions /\ m \in Nat
        /\ AliasOf(p) = VariantAt(m) /\ AliasHalf(p) = HalfAt(m) /\ AliasOf(p) \in Quantised
        /\ PairInstalled /\ command[p].does \in {"download", "prepare"}
    BY <1>0, AtAFile
  <1>2. /\ command' \in [Processes -> CommandTypes] /\ OthersStay(p)
        /\ \/ /\ m + 2 > 2 * Len(Quantisations)
              /\ command'[p].pc = "done" /\ command'[p].does = "nothing"
           \/ /\ m + 2 <= 2 * Len(Quantisations)
              /\ command'[p].pc = "unlink" /\ command'[p].does = command[p].does
              /\ command'[p].at = m + 2
    BY <1>0, NextFile
  <1>3. \A h \in Halves : alias[VariantAt(m)][h] = 0
    <2>1. ASSUME NEW q \in Processes PROVE command[q].pc # "managed"
      <3>1. CASE q = p
        BY <1>0, <3>1
      <3>2. CASE q # p
        BY <1>1, <3>2 DEF ModelParts, Relies, RemovesAlone, Removers, AtRest
      <3> QED
        BY <3>1, <3>2
    <2> QED
      BY <1>1, <2>1 DEF ModelParts, BesideModels, ModelTypeOK
  <1>4. command'[p].pc = "unlink" => m + 2 \in Positions /\ AliasHalf(p)' = "xml"
    <2> SUFFICES ASSUME command'[p].pc = "unlink"
                 PROVE  m + 2 \in Positions /\ AliasHalf(p)' = "xml"
      OBVIOUS
    <2>1. m + 2 <= 2 * Len(Quantisations) /\ command'[p].at = m + 2
      BY <1>2
    <2>2. m + 2 \in Positions
      BY <1>1, <2>1, PositionFacts DEF Positions
    <2>3. m % 2 = 1
      BY <1>1 DEF HalfAt
    <2>4. (m + 2) % 2 = 1
      BY <1>1, <2>3
    <2> QED
      BY <2>1, <2>2, <2>4 DEF AliasHalf
  <1>5. Relies(p)'
    BY <1>0, <1>1, <1>2, <1>4 DEF Relies, Linking, PairInstalled, Positions
  <1>6. (\A q \in Processes : Relies(q)') /\ RemovesAlone' /\ BesideModels' /\ WithEncoder'
    <2>1. /\ pair' \in [Halves -> Nat] /\ \A h \in Halves : pair[h] > 0 => pair'[h] > 0
          /\ alias' \in [Quantised -> [Halves -> Nat]]
          /\ \A v \in Quantised, h \in Halves :
               alias'[v][h] > 0
                 => alias[v][h] > 0 \/ ("ggml" \in copies[v].managed /\ PairInstalled)
          /\ encoders' \in Nat /\ encoders' >= encoders
          /\ \A v \in Entries : copies[v].managed \subseteq copies'[v].managed
      BY <1>0 DEF ModelTypeOK
    <2>2. command[p].does # "remove-openvino" /\ command[p].pc # "managed"
          /\ command'[p].does \in {command[p].does, "nothing"}
      BY <1>0, <1>1, <1>2
    <2> QED
      BY <1>2, <1>5, <2>1, <2>2, WhatStays
  <1>7. ASSUME NEW k \in Positions, Stale(k)' PROVE \E q \in Processes : Covers(q, k)'
    <2>1. Stale(k)
      BY <1>0, <1>7 DEF Stale, VariantAt, HalfAt
    <2>2. PICK q \in Processes : Covers(q, k)
      BY <2>1 DEF ModelParts, StaleIsCovered
    <2>3. CASE q # p
      <3>1. command'[q] = command[q]
        BY <1>2, <2>3 DEF OthersStay
      <3>2. Covers(q, k)'
        BY <1>0, <2>2, <3>1 DEF Covers, Linking, GoesOn, AliasOf, AliasTurn, AliasHalf
      <3> QED
        BY <3>2
    <2>4. CASE q = p
      <3>1. m <= k
        BY <1>0, <1>1, <2>2, <2>4 DEF Covers
      <3>2. VariantAt(k) # VariantAt(m)
        BY <1>3, <2>1, PositionFacts DEF Stale
      <3>3. k # m /\ k # m + 1
        BY <1>1, <3>2, NextPosition
      <3>4. m + 2 <= k /\ k <= 2 * Len(Quantisations) /\ k \in Nat
            /\ 2 * Len(Quantisations) \in Nat
        <4>1. k <= 2 * Len(Quantisations) /\ k \in Nat /\ 2 * Len(Quantisations) \in Nat
          BY PositionFacts DEF Positions
        <4>2. m \in Nat
          BY <1>1
        <4> HIDE DEF m
        <4> QED
          BY <3>1, <3>3, <4>1, <4>2
      <3>5. m + 2 <= 2 * Len(Quantisations)
        BY <1>1, <3>4
      <3>6. command'[p].pc = "unlink" /\ command'[p].at = m + 2
        BY <1>1, <1>2, <3>4, <3>5
      <3>7. Covers(p, k)'
        BY <3>4, <3>6 DEF Covers, Linking, GoesOn
      <3> QED
        BY <3>7
    <2> QED
      BY <2>3, <2>4
  <1>8. StaleIsCovered'
    BY <1>7 DEF StaleIsCovered, Positions
  <1> QED
    BY <1>6, <1>8 DEF ModelParts

LEMMA UnlinkFile ==
    ASSUME ModelTypeOK, ModelParts, NEW p \in Processes, Unlink(p),
           ~(AliasHalf(p) = "xml" /\ "ggml" \notin copies[AliasOf(p)].managed)
    PROVE  ModelParts'
  <1>0. /\ CommandGoes(p, "link") /\ pair' = pair /\ copies' = copies
        /\ alias' = [alias EXCEPT ![AliasOf(p)][AliasHalf(p)] = 0]
        /\ encoders' = encoders /\ encoders \in Nat
        /\ command[p].pc = "unlink" /\ Linking(p) /\ Relies(p)
    BY DEF Unlink, Linking, ModelTypeOK, ModelParts
  <1> DEFINE m == command[p].at
  <1>1. /\ m \in Positions /\ m \in Nat
        /\ AliasOf(p) = VariantAt(m) /\ AliasHalf(p) = HalfAt(m)
        /\ AliasOf(p) \in Quantised /\ AliasHalf(p) \in Halves
        /\ PairInstalled /\ pair[AliasHalf(p)] > 0
        /\ command[p].does \in {"download", "prepare"}
    BY <1>0, AtAFile
  <1>2. /\ command' \in [Processes -> CommandTypes] /\ OthersStay(p)
        /\ command'[p].pc = "link" /\ command'[p].does = command[p].does /\ command'[p].at = m
    BY <1>0, CommandGoesOn
  <1>3. /\ alias' \in [Quantised -> [Halves -> Nat]]
        /\ \A w \in Quantised, g \in Halves :
             alias'[w][g] = IF w = AliasOf(p) /\ g = AliasHalf(p) THEN 0 ELSE alias[w][g]
    BY <1>0, NewAlias
  <1>4. AliasOf(p)' = AliasOf(p) /\ AliasHalf(p)' = AliasHalf(p)
    BY <1>2 DEF AliasOf, AliasTurn, AliasHalf
  <1>5. "ggml" \in copies[AliasOf(p)].managed
    BY <1>0, <1>1 DEF Relies, Halves
  <1>6. Relies(p)'
    BY <1>0, <1>1, <1>2, <1>4, <1>5 DEF Relies, Linking, PairInstalled, Positions
  <1>7. (\A q \in Processes : Relies(q)') /\ RemovesAlone' /\ BesideModels' /\ WithEncoder'
    <2>1. /\ pair' \in [Halves -> Nat] /\ \A h \in Halves : pair[h] > 0 => pair'[h] > 0
          /\ encoders' \in Nat /\ encoders' >= encoders
          /\ \A v \in Entries : copies[v].managed \subseteq copies'[v].managed
      BY <1>0 DEF ModelTypeOK
    <2>2. \A v \in Quantised, h \in Halves :
             alias'[v][h] > 0
               => alias[v][h] > 0 \/ ("ggml" \in copies[v].managed /\ PairInstalled)
      BY <1>3
    <2>3. command[p].does # "remove-openvino" /\ command[p].pc # "managed"
          /\ command'[p].does \in {command[p].does, "nothing"}
      BY <1>0, <1>1, <1>2
    <2> QED
      BY <1>2, <1>3, <1>6, <2>1, <2>2, <2>3, WhatStays
  <1>8. ASSUME NEW k \in Positions, Stale(k)' PROVE \E q \in Processes : Covers(q, k)'
    <2>1. /\ VariantAt(k) \in Quantised /\ HalfAt(k) \in Halves
          /\ alias'[VariantAt(k)][HalfAt(k)] \notin {0, pair[HalfAt(k)]}
      BY <1>0, <1>8, PositionFacts DEF Stale, VariantAt, HalfAt
    <2>2. Stale(k) /\ k # m
      BY <1>1, <1>3, <2>1 DEF Stale
    <2>3. PICK q \in Processes : Covers(q, k)
      BY <2>2 DEF ModelParts, StaleIsCovered
    <2>4. CASE q # p
      <3>1. command'[q] = command[q]
        BY <1>2, <2>4 DEF OthersStay
      <3>2. CASE Linking(q)
        <4>1. /\ AliasOf(q)' = AliasOf(q) /\ AliasHalf(q)' = AliasHalf(q)
              /\ AliasOf(q) \in Quantised /\ AliasHalf(q) \in Halves /\ pair[AliasHalf(q)] > 0
              /\ command[q].at <= k /\ GoesOn(q)
          <5>1. /\ AliasOf(q) \in Quantised /\ AliasHalf(q) \in Halves
                /\ pair[AliasHalf(q)] > 0 /\ command[q].does \in {"download", "prepare"}
            BY <3>2, AtAFile
          <5> QED
            BY <2>3, <3>1, <3>2, <5>1 DEF Covers, Linking, AliasOf, AliasTurn, AliasHalf
        <4>2. alias'[AliasOf(q)][AliasHalf(q)] \in {0, alias[AliasOf(q)][AliasHalf(q)]}
          BY <1>3, <4>1
        <4>3. GoesOn(q)'
          BY <1>0, <3>1, <4>1, <4>2 DEF GoesOn
        <4> QED
          BY <3>1, <3>2, <4>1, <4>3 DEF Covers, Linking
      <3>3. CASE ~Linking(q)
        BY <2>3, <3>1, <3>3 DEF Covers
      <3> QED
        BY <3>2, <3>3
    <2>5. CASE q = p
      <3>1. m <= k
        BY <1>0, <1>1, <2>3, <2>5 DEF Covers
      <3>2. alias'[AliasOf(p)][AliasHalf(p)] = 0
        BY <1>1, <1>3
      <3>3. GoesOn(p)'
        BY <1>0, <1>1, <1>4, <3>2 DEF GoesOn
      <3> QED
        BY <1>2, <3>1, <3>3 DEF Covers, Linking
    <2> QED
      BY <2>4, <2>5
  <1>9. StaleIsCovered'
    BY <1>8 DEF StaleIsCovered, Positions
  <1> QED
    BY <1>7, <1>9 DEF ModelParts

LEMMA LinkFile ==
    ASSUME ModelTypeOK, ModelParts, NEW p \in Processes, Link(p),
           alias' = [alias EXCEPT ![AliasOf(p)][AliasHalf(p)] = pair[AliasHalf(p)]],
           NextAlias(p, 1)
    PROVE  ModelParts'
  <1>0. /\ pair' = pair /\ copies' = copies /\ encoders' = encoders /\ encoders \in Nat
        /\ command[p].pc = "link" /\ Linking(p) /\ Relies(p)
    BY DEF Link, Linking, ModelTypeOK, ModelParts
  <1> DEFINE m == command[p].at
  <1>1. /\ m \in Positions /\ m \in Nat
        /\ AliasOf(p) = VariantAt(m) /\ AliasHalf(p) = HalfAt(m)
        /\ AliasOf(p) \in Quantised /\ AliasHalf(p) \in Halves
        /\ PairInstalled /\ pair[AliasHalf(p)] \in Nat
        /\ command[p].does \in {"download", "prepare"}
        /\ "ggml" \in copies[AliasOf(p)].managed
    <2>1. "ggml" \in copies[AliasOf(p)].managed
      BY <1>0 DEF Relies
    <2> QED
      BY <1>0, <2>1, AtAFile
  <1>2. /\ command' \in [Processes -> CommandTypes] /\ OthersStay(p)
        /\ \/ /\ m + 1 > 2 * Len(Quantisations)
              /\ command'[p].pc = "done" /\ command'[p].does = "nothing"
           \/ /\ m + 1 <= 2 * Len(Quantisations)
              /\ command'[p].pc = "unlink" /\ command'[p].does = command[p].does
              /\ command'[p].at = m + 1
    BY NextFile
  <1>3. /\ alias' \in [Quantised -> [Halves -> Nat]]
        /\ \A w \in Quantised, g \in Halves :
             alias'[w][g] = IF w = AliasOf(p) /\ g = AliasHalf(p)
                              THEN pair[AliasHalf(p)] ELSE alias[w][g]
    BY <1>1, NewAlias
  <1>4. command'[p].pc = "unlink" =>
           /\ m + 1 \in Positions
           /\ AliasHalf(p)' = "bin" => AliasOf(p)' = AliasOf(p)
    <2> SUFFICES ASSUME command'[p].pc = "unlink"
                 PROVE  /\ m + 1 \in Positions
                        /\ AliasHalf(p)' = "bin" => AliasOf(p)' = AliasOf(p)
      OBVIOUS
    <2>1. m + 1 <= 2 * Len(Quantisations) /\ command'[p].at = m + 1
      BY <1>2
    <2>2. m + 1 \in Positions
      BY <1>1, <2>1, PositionFacts DEF Positions
    <2>3. AliasHalf(p)' = HalfAt(m + 1) /\ AliasOf(p)' = VariantAt(m + 1)
      BY <2>1 DEF AliasHalf, AliasOf, AliasTurn, HalfAt, VariantAt
    <2>4. HalfAt(m + 1) = "bin" => HalfAt(m) = "xml"
      BY <1>1, <2>2, AfterBin DEF Halves
    <2>5. HalfAt(m) = "xml" => VariantAt(m + 1) = VariantAt(m)
      BY <1>1, NextPosition
    <2> QED
      BY <1>1, <2>2, <2>3, <2>4, <2>5
  <1>5. Relies(p)'
    BY <1>0, <1>1, <1>2, <1>4 DEF Relies, Linking, PairInstalled, Positions
  <1>6. (\A q \in Processes : Relies(q)') /\ RemovesAlone' /\ BesideModels' /\ WithEncoder'
    <2>1. /\ pair' \in [Halves -> Nat] /\ \A h \in Halves : pair[h] > 0 => pair'[h] > 0
          /\ encoders' \in Nat /\ encoders' >= encoders
          /\ \A v \in Entries : copies[v].managed \subseteq copies'[v].managed
      BY <1>0 DEF ModelTypeOK
    <2>2. \A v \in Quantised, h \in Halves :
             alias'[v][h] > 0
               => alias[v][h] > 0 \/ ("ggml" \in copies[v].managed /\ PairInstalled)
      BY <1>1, <1>3
    <2>3. command[p].does # "remove-openvino" /\ command[p].pc # "managed"
          /\ command'[p].does \in {command[p].does, "nothing"}
      BY <1>0, <1>1, <1>2
    <2> QED
      BY <1>2, <1>3, <1>5, <2>1, <2>2, <2>3, WhatStays
  <1>7. ASSUME NEW k \in Positions, Stale(k)' PROVE \E q \in Processes : Covers(q, k)'
    <2>1. /\ VariantAt(k) \in Quantised /\ HalfAt(k) \in Halves
          /\ alias'[VariantAt(k)][HalfAt(k)] \notin {0, pair[HalfAt(k)]}
      BY <1>0, <1>7, PositionFacts DEF Stale, VariantAt, HalfAt
    <2>2. Stale(k) /\ k # m
      BY <1>1, <1>3, <2>1 DEF Stale
    <2>3. PICK q \in Processes : Covers(q, k)
      BY <2>2 DEF ModelParts, StaleIsCovered
    <2>4. m <= k => Covers(p, k)'
      <3> SUFFICES ASSUME m <= k PROVE Covers(p, k)'
        OBVIOUS
      <3>1. m + 1 <= k /\ k <= 2 * Len(Quantisations) /\ k \in Nat
            /\ 2 * Len(Quantisations) \in Nat
        BY <1>1, <2>2, PositionFacts DEF Positions
      <3>2. m + 1 <= 2 * Len(Quantisations)
        BY <1>1, <3>1
      <3>3. command'[p].pc = "unlink" /\ command'[p].at = m + 1
        BY <1>1, <1>2, <3>1, <3>2
      <3> QED
        BY <3>1, <3>3 DEF Covers, Linking, GoesOn
    <2>5. CASE q # p
      <3>1. command'[q] = command[q]
        BY <1>2, <2>5 DEF OthersStay
      <3>2. CASE Linking(q)
        <4>1. /\ AliasOf(q)' = AliasOf(q) /\ AliasHalf(q)' = AliasHalf(q)
              /\ AliasOf(q) \in Quantised /\ AliasHalf(q) \in Halves
              /\ AliasOf(q) = VariantAt(command[q].at) /\ AliasHalf(q) = HalfAt(command[q].at)
              /\ command[q].at \in Positions /\ command[q].at <= k /\ GoesOn(q)
          <5>1. /\ AliasOf(q) \in Quantised /\ AliasHalf(q) \in Halves
                /\ AliasOf(q) = VariantAt(command[q].at) /\ AliasHalf(q) = HalfAt(command[q].at)
                /\ command[q].at \in Positions
                /\ command[q].does \in {"download", "prepare"}
            BY <3>2, AtAFile
          <5> QED
            BY <2>3, <3>1, <3>2, <5>1 DEF Covers, Linking, AliasOf, AliasTurn, AliasHalf
        <4>2. CASE AliasOf(q) = AliasOf(p) /\ AliasHalf(q) = AliasHalf(p)
          <5>1. VariantAt(command[q].at) = VariantAt(m) /\ HalfAt(command[q].at) = HalfAt(m)
            BY <1>1, <4>1, <4>2
          <5>2. \A i, j \in Positions :
                   VariantAt(i) = VariantAt(j) /\ HalfAt(i) = HalfAt(j) => i = j
            BY PositionFacts
          <5>3. command[q].at = m
            BY <1>1, <4>1, <5>1, <5>2
          <5> QED
            BY <2>4, <4>1, <5>3
        <4>3. CASE ~(AliasOf(q) = AliasOf(p) /\ AliasHalf(q) = AliasHalf(p))
          <5>1. alias'[AliasOf(q)][AliasHalf(q)] = alias[AliasOf(q)][AliasHalf(q)]
            BY <1>3, <4>1, <4>3
          <5>2. GoesOn(q)'
            BY <1>0, <3>1, <4>1, <5>1 DEF GoesOn
          <5> QED
            BY <3>1, <3>2, <4>1, <5>2 DEF Covers, Linking
        <4> QED
          BY <4>2, <4>3
      <3>3. CASE ~Linking(q)
        BY <2>3, <3>1, <3>3 DEF Covers
      <3> QED
        BY <3>2, <3>3
    <2>6. CASE q = p
      <3>1. m <= k
        BY <1>0, <1>1, <2>3, <2>6 DEF Covers
      <3> QED
        BY <2>4, <3>1
    <2> QED
      BY <2>5, <2>6
  <1>8. StaleIsCovered'
    BY <1>7 DEF StaleIsCovered, Positions
  <1> QED
    BY <1>6, <1>8 DEF ModelParts

LEMMA LinkStep ==
    ASSUME ModelTypeOK, ModelParts, NEW p \in Processes, Link(p)
    PROVE  ModelParts'
  <1>0. /\ pair' = pair /\ copies' = copies /\ encoders' = encoders /\ encoders \in Nat
        /\ command[p].pc = "link" /\ Linking(p)
    BY DEF Link, Linking, ModelTypeOK
  <1>1. CASE /\ alias' = [alias EXCEPT ![AliasOf(p)][AliasHalf(p)] = pair[AliasHalf(p)]]
             /\ NextAlias(p, 1)
    BY <1>1, LinkFile
  <1>2. CASE /\ alias[AliasOf(p)][AliasHalf(p)] = pair[AliasHalf(p)]
             /\ CommandEnds(p) /\ alias' = alias
    <2>1. command[p].does \in {"download", "prepare"}
      BY <1>0, AtAFile
    <2>2. \A k \in Positions : ~Covers(p, k)
      BY <1>0, <1>2, <2>1 DEF Covers, GoesOn
    <2> QED
      BY <1>0, <1>2, <2>1, <2>2, QuietEnd
  <1> QED
    BY <1>1, <1>2 DEF Link

LEMMA RemoveEncoderStep ==
    ASSUME ModelTypeOK, ModelTypeOK', ModelParts, NEW p \in Processes, RemoveEncoder(p)
    PROVE  ModelParts'
  <1>0. /\ command[p].does = "remove-openvino" /\ command[p].pc = "start"
        /\ copies' = copies /\ encoders' = encoders
    BY DEF RemoveEncoder, CommandAt
  <1>1. \A q \in Processes \ {p} : command[q].does = "nothing" /\ command[q].pc = "done"
    BY <1>0 DEF ModelParts, RemovesAlone, Relies, Removers, AtRest
  <1>2. /\ OthersStay(p)
        /\ \/ command' = command
           \/ /\ command'[p].pc = "done" /\ command'[p].does = "nothing"
              /\ pair' = pair /\ alias' = alias
              /\ \A v \in Quantised, h \in Halves : alias[v][h] = 0
    <2>1. CASE command' = command
      BY <2>1 DEF OthersStay
    <2>2. CASE command' # command
      <3>1. /\ CommandEnds(p) /\ pair' = pair /\ alias' = alias
            /\ ~\E v \in Quantised, h \in Halves : alias[v][h] > 0
        BY <2>2 DEF RemoveEncoder
      <3> QED
        BY <3>1, CommandDone DEF ModelTypeOK
    <2> QED
      BY <2>1, <2>2
  <1>3. \A v \in Quantised, h \in Halves : alias'[v][h] > 0 => alias[v][h] > 0
    <2>1. \/ alias' = alias
          \/ \E v \in Quantised, h \in Halves : alias' = [alias EXCEPT ![v][h] = 0]
      BY DEF RemoveEncoder
    <2>2. ASSUME NEW v \in Quantised, NEW h \in Halves, alias' = [alias EXCEPT ![v][h] = 0]
          PROVE  \A w \in Quantised, g \in Halves :
                   alias'[w][g] = IF w = v /\ g = h THEN 0 ELSE alias[w][g]
      BY <2>2, NewAlias
    <2> QED
      BY <2>1, <2>2
  <1>4. \A q \in Processes \ {p} : command'[q].does = "nothing" /\ command'[q].pc = "done"
    BY <1>1, <1>2 DEF OthersStay
  <1>5. /\ command'[p].does \in {"remove-openvino", "nothing"}
        /\ command'[p].does = "remove-openvino" => command'[p].pc = "start"
        /\ command'[p].does = "nothing" => command'[p].pc = "done"
    BY <1>0, <1>2
  <1>6. ASSUME NEW q \in Processes PROVE Relies(q)'
    <2>1. /\ command'[q].does \in {"remove-openvino", "nothing"}
          /\ command'[q].does = "remove-openvino" => command'[q].pc = "start"
          /\ command'[q].does = "nothing" => command'[q].pc = "done"
      BY <1>4, <1>5
    <2> QED
      BY <2>1 DEF Relies, Linking
  <1>7. RemovesAlone'
    BY <1>4, <1>5 DEF RemovesAlone, AtRest, Removers
  <1>8. BesideModels'
    <2>1. \A q \in Processes : command[q].pc # "managed"
      BY <1>0, <1>1
    <2> QED
      BY <1>0, <1>3, <2>1 DEF ModelParts, BesideModels
  <1>9. WithEncoder'
    <2>1. CASE command' = command
      BY <1>0, <2>1 DEF WithEncoder
    <2>2. CASE alias' = alias /\ \A v \in Quantised, h \in Halves : alias[v][h] = 0
      BY <2>2 DEF WithEncoder
    <2> QED
      BY <1>2, <2>1, <2>2
  <1>10. StaleIsCovered'
    <2>1. CASE command' = command
      <3>1. ASSUME NEW k \in Positions PROVE Covers(p, k)'
        BY <1>0, <2>1 DEF Covers
      <3> QED
        BY <3>1 DEF StaleIsCovered, Positions
    <2>2. CASE alias' = alias /\ \A v \in Quantised, h \in Halves : alias[v][h] = 0
      <3>1. ASSUME NEW k \in Positions PROVE ~Stale(k)'
        <4>1. alias'[VariantAt(k)][HalfAt(k)] = 0
          BY <2>2, PositionFacts
        <4> QED
          BY <4>1 DEF Stale, VariantAt, HalfAt
      <3> QED
        BY <3>1 DEF StaleIsCovered, Positions
    <2> QED
      BY <1>2, <2>1, <2>2
  <1> QED
    BY <1>6, <1>7, <1>8, <1>9, <1>10 DEF ModelParts

LEMMA RemoveModelStep ==
    ASSUME ModelTypeOK, ModelTypeOK', ModelParts, NEW p \in Processes, RemoveModel(p)
    PROVE  ModelParts'
  <1> PICK e : e = command[p].entry
    OBVIOUS
  <1>0. /\ command[p].does = "remove" /\ command[p].pc \in {"start", "managed", "cache"}
        /\ pair' = pair /\ encoders' = encoders /\ e \in Entries
    BY DEF RemoveModel, ModelParts, Relies, ModelTypeOK, CommandTypes
  <1>1. \A q \in Processes \ {p} : command[q].does = "nothing" /\ command[q].pc = "done"
    BY <1>0 DEF ModelParts, RemovesAlone, Relies, Removers, AtRest
  <1>2. /\ OthersStay(p)
        /\ \/ command' = command
           \/ command'[p].pc = "done" /\ command'[p].does = "nothing"
           \/ command'[p].pc \in {"managed", "cache"} /\ command'[p].does = "remove"
    <2>1. StatusPlace(e) \in {"managed", "cache", "none"}
      BY DEF StatusPlace
    <2>2. \/ command' = command \/ CommandEnds(p)
          \/ CommandGoes(p, StatusPlace(e)) /\ StatusPlace(e) # "none"
      BY DEF RemoveModel
    <2>3. CASE command' = command
      BY <2>3 DEF OthersStay
    <2>4. CASE CommandEnds(p)
      BY <2>4, CommandDone
    <2>5. CASE CommandGoes(p, StatusPlace(e)) /\ StatusPlace(e) # "none"
      BY <1>0, <2>1, <2>5, CommandGoesOn
    <2> QED
      BY <2>2, <2>3, <2>4, <2>5
  <1>3. /\ \A v \in Quantised, h \in Halves : alias'[v][h] \in {0, alias[v][h]}
        /\ \A v \in Entries : v # e => copies'[v].managed = copies[v].managed
    <2>1. \/ copies' = copies
          \/ copies' = [copies EXCEPT ![e].cache = {}]
          \/ \E f \in copies[e].managed : copies' = [copies EXCEPT ![e].managed = @ \ {f}]
      BY DEF RemoveModel
    <2>2. ASSUME NEW f \in copies[e].managed, copies' = [copies EXCEPT ![e].managed = @ \ {f}]
          PROVE  \A v \in Entries : v # e => copies'[v].managed = copies[v].managed
      <3>1. PICK s : s = copies[e].managed \ {f}
        OBVIOUS
      <3>2. s \in SUBSET ModelFiles /\ f \in ModelFiles
        BY <1>0, <3>1 DEF ModelTypeOK, CopyTypes
      <3>3. copies' = [copies EXCEPT ![e].managed = s]
        BY <2>2, <3>1
      <3> QED
        BY <3>2, <3>3, NewFiles
    <2>3. alias' = alias \/ \E h \in Halves : alias' = [alias EXCEPT ![e][h] = 0]
      BY DEF RemoveModel
    <2>4. \A v \in Quantised, h \in Halves : alias'[v][h] \in {0, alias[v][h]}
      <3>1. ASSUME NEW h \in Halves, alias' = [alias EXCEPT ![e][h] = 0]
            PROVE  \A w \in Quantised, g \in Halves :
                     alias'[w][g] = IF w = e /\ g = h THEN 0 ELSE alias[w][g]
        BY <3>1, NewAlias
      <3>2. CASE alias' = alias
        BY <3>2
      <3>3. CASE \E h \in Halves : alias' = [alias EXCEPT ![e][h] = 0]
        <4>1. PICK h \in Halves : alias' = [alias EXCEPT ![e][h] = 0]
          BY <3>3
        <4>2. \A w \in Quantised, g \in Halves :
                 alias'[w][g] = IF w = e /\ g = h THEN 0 ELSE alias[w][g]
          BY <3>1, <4>1
        <4> QED
          BY ONLY <4>2
      <3> QED
        BY <2>3, <3>2, <3>3
    <2>5. copies' = [copies EXCEPT ![e].cache = {}]
            => \A v \in Entries : copies'[v].managed = copies[v].managed
      BY NewCache
    <2> QED
      BY <2>1, <2>2, <2>4, <2>5
  <1>4. \/ \A v \in Entries : copies'[v].managed = copies[v].managed
        \/ command' = command /\ command[p].pc = "managed"
    <2>1. CASE command[p].pc = "start"
      BY <2>1 DEF RemoveModel
    <2>2. CASE command[p].pc = "cache"
      <3>1. copies' = [copies EXCEPT ![e].cache = {}]
        BY <2>2 DEF RemoveModel
      <3> QED
        BY <3>1, NewCache
    <2>3. CASE command[p].pc = "managed"
      <3>1. command' = command \/ copies' = copies
        BY <2>3 DEF RemoveModel
      <3> QED
        BY <2>3, <3>1
    <2> QED
      BY <1>0, <2>1, <2>2, <2>3
  \* The removal of a model that ends among the managed files has left none, and no name.
  <1>5. command[p].pc = "managed" /\ command' # command /\ e # Faster
           => \A h \in Halves : alias'[e][h] = 0
    <2> SUFFICES ASSUME command[p].pc = "managed", command' # command, e # Faster
                 PROVE  \A h \in Halves : alias'[e][h] = 0
      OBVIOUS
    <2>1. alias' = alias /\ ~\E h \in Halves : alias[e][h] > 0
      BY DEF RemoveModel, DirectoryLeft
    <2>2. e \in Quantised
      BY <1>0 DEF Entries
    <2> QED
      BY <2>1, <2>2 DEF ModelTypeOK
  <1>6. \A q \in Processes \ {p} : command'[q].does = "nothing" /\ command'[q].pc = "done"
    BY <1>1, <1>2 DEF OthersStay
  <1>7. ASSUME NEW q \in Processes PROVE Relies(q)'
    <2>1. CASE q # p
      BY <1>6, <2>1 DEF Relies, Linking
    <2>2. CASE q = p
      <3>1. \/ command'[p].pc = "done" /\ command'[p].does = "nothing"
            \/ command'[p].pc \in {"start", "managed", "cache"} /\ command'[p].does = "remove"
        BY <1>0, <1>2
      <3> QED
        BY <2>2, <3>1 DEF Relies, Linking
    <2> QED
      BY <2>1, <2>2
  <1>8. RemovesAlone'
    BY <1>6 DEF RemovesAlone, AtRest, Removers
  <1>9. ASSUME NEW v \in Quantised, NEW h \in Halves, alias'[v][h] > 0
        PROVE  \/ "ggml" \in copies'[v].managed
               \/ \E q \in Processes : command'[q].pc = "managed" /\ command'[q].entry = v
    <2>1. alias[v][h] > 0 /\ v \in Entries
      BY <1>3, <1>9 DEF Entries
    <2>2. "ggml" \in copies[v].managed \/ (command[p].pc = "managed" /\ e = v)
      <3>1. PICK q \in Processes :
              "ggml" \in copies[v].managed \/ (command[q].pc = "managed" /\ command[q].entry = v)
        BY <2>1 DEF ModelParts, BesideModels
      <3>2. CASE q = p
        BY <3>1, <3>2
      <3>3. CASE q # p
        BY <1>1, <3>1, <3>3
      <3> QED
        BY <3>2, <3>3
    <2>3. CASE command[p].pc = "managed" /\ e = v
      <3>1. v # Faster
        BY CatalogAssumption DEF CatalogAssumption
      <3>2. command' = command
        BY <1>5, <1>9, <2>3, <3>1
      <3> QED
        BY <2>3, <3>2
    <2>4. CASE ~(command[p].pc = "managed" /\ e = v)
      <3>1. copies'[v].managed = copies[v].managed
        BY <1>3, <1>4, <2>1, <2>4
      <3> QED
        BY <2>2, <2>4, <3>1
    <2> QED
      BY <2>3, <2>4
  <1>10. BesideModels'
    BY <1>9 DEF BesideModels
  <1>11. WithEncoder'
    <2>1. \A q \in Processes : command[q].does # "remove-openvino"
      BY <1>0, <1>1
    <2>2. pair["xml"] = 0 => \A v \in Quantised, h \in Halves : alias'[v][h] = 0
      BY <1>3, <2>1 DEF ModelParts, WithEncoder
    <2> QED
      BY <1>0, <2>2 DEF WithEncoder
  <1>12. StaleIsCovered'
    <2>1. ASSUME NEW k \in Positions PROVE ~Stale(k)
      <3>1. ~\E q \in Processes : Covers(q, k)
        BY <1>0, <1>1 DEF Covers, Linking
      <3> QED
        BY <3>1 DEF ModelParts, StaleIsCovered
    <2>2. ASSUME NEW k \in Positions PROVE ~Stale(k)'
      <3>1. alias[VariantAt(k)][HalfAt(k)] \in {0, pair[HalfAt(k)]}
        BY <2>1 DEF Stale
      <3>2. alias'[VariantAt(k)][HalfAt(k)] \in {0, pair[HalfAt(k)]}
        BY <1>3, <3>1, PositionFacts
      <3> QED
        BY <1>0, <3>2 DEF Stale, VariantAt, HalfAt
    <2> QED
      BY <2>2 DEF StaleIsCovered, Positions
  <1> QED
    BY <1>7, <1>8, <1>10, <1>11, <1>12 DEF ModelParts

-------------------------------------------------------------------------------
(* Commands that stop *)

\* A step moves its own command, on or to its end, or starts one.
LEMMA OwnStep ==
    ASSUME ModelTypeOK, ModelOrder, NEW p \in Processes,
           \/ StartCommand(p) \/ DownloadLooks(p) \/ FetchFile(p) \/ FetchStops(p) \/ Fetched(p)
           \/ ProbeHeads(p) \/ RefreshAliases(p) \/ Unlink(p) \/ Link(p) \/ ConvertEncoder(p)
           \/ MoveXml(p) \/ MoveBin(p) \/ RemoveEncoder(p) \/ RemoveModel(p) \/ VerifyModel(p)
           \/ KillCommand(p) \/ FileOperationFails(p)
    PROVE  /\ OthersStay(p)
           /\ \/ StartCommand(p)
              \/ command'[p].does = "nothing" /\ command'[p].pc = "done"
              \/ command'[p].does = command[p].does /\ command'[p].pc # "done"
                 /\ command[p].does # "nothing"
              \/ command'[p] = command[p]
  <1>1. CASE StartCommand(p)
    BY <1>1, StartTypes
  <1>2. CASE command' = command
    BY <1>2 DEF OthersStay
  <1>3. CASE CommandEnds(p)
    BY <1>3, CommandDone
  <1>4. ASSUME NEW pc \in {"start", "fetch", "probe", "refresh", "unlink", "link", "xml", "bin",
                           "managed", "cache"},
               CommandGoes(p, pc), command[p].pc # "done"
        PROVE  /\ OthersStay(p) /\ command'[p].pc # "done" /\ command[p].does # "nothing"
               /\ command'[p].does = command[p].does
    BY <1>4, CommandGoesOn DEF ModelOrder
  <1>5. ASSUME NEW n, command' = [command EXCEPT ![p].pc = "unlink", ![p].at = n],
               command[p].pc # "done"
        PROVE  /\ OthersStay(p) /\ command'[p].pc # "done" /\ command[p].does # "nothing"
               /\ command'[p].does = command[p].does
    BY <1>5 DEF ModelTypeOK, CommandTypes, OthersStay, ModelOrder
  <1>6. CASE DownloadLooks(p) \/ Fetched(p) \/ ConvertEncoder(p) \/ MoveXml(p) \/ MoveBin(p)
             \/ VerifyModel(p)
    BY <1>3, <1>4, <1>6 DEF DownloadLooks, Fetched, ConvertEncoder, MoveXml, MoveBin, VerifyModel,
                            CommandAt
  <1>7. CASE FetchFile(p) \/ FetchStops(p) \/ ProbeHeads(p) \/ RemoveEncoder(p)
    BY <1>2, <1>3, <1>7 DEF FetchFile, FetchStops, ProbeHeads, RemoveEncoder
  <1>8. CASE RefreshAliases(p)
    BY <1>3, <1>5, <1>8 DEF RefreshAliases
  <1>9. CASE Unlink(p) \/ Link(p)
    <2>1. command[p].pc # "done"
      BY <1>9 DEF Unlink, Link
    <2>2. NextAlias(p, 2) \/ NextAlias(p, 1) \/ CommandGoes(p, "link") \/ CommandEnds(p)
      BY <1>9 DEF Unlink, Link
    <2>3. \A n : NextAlias(p, n) => \/ CommandEnds(p)
                                   \/ command' = [command EXCEPT ![p].pc = "unlink", ![p].at = @ + n]
      BY DEF NextAlias
    <2>4. \A n : command' = [command EXCEPT ![p].pc = "unlink", ![p].at = @ + n]
                  => command' = [command EXCEPT ![p].pc = "unlink", ![p].at = command[p].at + n]
      OBVIOUS
    <2> QED
      BY <1>3, <1>4, <1>5, <2>1, <2>2, <2>3, <2>4
  <1>10. CASE RemoveModel(p)
    <2>1. StatusPlace(command[p].entry) \in {"managed", "cache", "none"}
      BY DEF StatusPlace
    <2>2. \/ command' = command \/ CommandEnds(p)
          \/ /\ CommandGoes(p, StatusPlace(command[p].entry)) /\ command[p].pc = "start"
             /\ StatusPlace(command[p].entry) # "none"
      BY <1>10 DEF RemoveModel
    <2> QED
      BY <1>2, <1>3, <1>4, <2>1, <2>2
  <1>11. CASE KillCommand(p) \/ FileOperationFails(p)
    BY <1>3, <1>11 DEF KillCommand, FileOperationFails, Stopped
  <1> QED
    BY <1>1, <1>6, <1>7, <1>8, <1>9, <1>10, <1>11

LEMMA OrderStays ==
    ASSUME ModelTypeOK, ModelOrder, ModelNext
    PROVE  ModelOrder'
  <1> PICK p \in Processes :
        \/ StartCommand(p) \/ DownloadLooks(p) \/ FetchFile(p) \/ FetchStops(p) \/ Fetched(p)
        \/ ProbeHeads(p) \/ RefreshAliases(p) \/ Unlink(p) \/ Link(p) \/ ConvertEncoder(p)
        \/ MoveXml(p) \/ MoveBin(p) \/ RemoveEncoder(p) \/ RemoveModel(p) \/ VerifyModel(p)
        \/ KillCommand(p) \/ FileOperationFails(p)
    BY DEF ModelNext
  <1>1. /\ OthersStay(p)
        /\ \/ StartCommand(p)
           \/ command'[p].does = "nothing" /\ command'[p].pc = "done"
           \/ command'[p].does = command[p].does /\ command'[p].pc # "done"
              /\ command[p].does # "nothing"
           \/ command'[p] = command[p]
    BY OwnStep
  <1>2. damaged' \in BOOLEAN
    <2>1. damaged' = damaged \/ damaged' = FALSE \/ damaged' = (damaged \/ AmidTheFiles(p))
      BY DEF StartCommand, DownloadLooks, FetchFile, FetchStops, Fetched, ProbeHeads,
             RefreshAliases, Unlink, Link, ConvertEncoder, MoveXml, MoveBin,
             RemoveEncoder, RemoveModel, VerifyModel, KillCommand, FileOperationFails, Stopped
    <2>2. (damaged \/ AmidTheFiles(p)) \in BOOLEAN
      OBVIOUS
    <2> QED
      BY <2>1, <2>2 DEF ModelOrder
  <1>3. CASE StartCommand(p)
    <2>1. /\ command'[p].pc = "start" /\ command'[p].does # "nothing"
          /\ MayStart(command'[p].does)
      BY <1>3, StartTypes
    <2>2. \A q \in Processes : command'[q].does = "nothing" <=> command'[q].pc = "done"
      BY <1>1, <2>1 DEF OthersStay, ModelOrder
    <2>3. \A q \in Processes : command[q].does \notin Removers
      BY <2>1 DEF MayStart, Removers
    <2>4. ASSUME NEW a \in Processes, NEW b \in Processes, a # b, command'[a].does \in Removers
          PROVE  command'[b].does = "nothing"
      <3>1. a = p
        BY <1>1, <2>3, <2>4 DEF OthersStay
      <3>2. AtRest(b) /\ command'[b] = command[b]
        BY <1>1, <2>1, <2>4, <3>1 DEF MayStart, Removers, OthersStay
      <3> QED
        BY <3>2 DEF AtRest
    <2> QED
      BY <1>2, <2>2, <2>4 DEF ModelOrder, RemovesAlone, AtRest
  <1>4. CASE ~StartCommand(p)
    <2>1. \A q \in Processes : command'[q].does = "nothing" <=> command'[q].pc = "done"
      BY <1>1, <1>4 DEF OthersStay, ModelOrder
    <2>2. \A q \in Processes : command'[q].does \in {command[q].does, "nothing"}
      BY <1>1, <1>4 DEF OthersStay
    <2>3. RemovesAlone'
      BY <2>2 DEF ModelOrder, RemovesAlone, AtRest, Removers
    <2> QED
      BY <1>2, <2>1, <2>3 DEF ModelOrder
  <1> QED
    BY <1>3, <1>4

\* A command that is stopped elsewhere leaves the files as they are.
LEMMA StopsElsewhere ==
    ASSUME ModelTypeOK, ModelParts, NEW p \in Processes, Stopped(p), ~damaged'
    PROVE  ModelParts'
  <1>1. ~AmidTheFiles(p)
    BY DEF Stopped
  <1>2. /\ command[p].pc \notin {"xml", "bin", "refresh", "unlink", "link", "managed"}
        /\ command[p].does # "remove-openvino"
    BY <1>1 DEF AmidTheFiles
  <1>3. UNCHANGED <<copies, pair, alias>> /\ encoders' = encoders /\ CommandEnds(p)
    BY <1>2 DEF Stopped, CutShort, Halves
  <1>4. \A k \in Positions : ~Covers(p, k)
    BY <1>2 DEF Covers, Linking
  <1> QED
    BY <1>2, <1>3, <1>4, QuietEnd

\* A removal that runs to its end leaves no file of any encoder, whatever was there.
LEMMA RemovalRepairs ==
    ASSUME ModelTypeOK, ModelTypeOK', ModelOrder, ModelOrder', NEW p \in Processes,
           RemoveEncoder(p), damaged, ~damaged'
    PROVE  ModelParts'
  <1>1. /\ CommandEnds(p) /\ pair' = pair /\ alias' = alias
        /\ ~(pair["xml"] + pair["bin"] > 0)
        /\ ~\E v \in Quantised, h \in Halves : alias[v][h] > 0
        /\ command[p].does = "remove-openvino"
    BY DEF RemoveEncoder, CommandAt
  <1>2. \A v \in Quantised, h \in Halves : alias'[v][h] = 0
    BY <1>1 DEF ModelTypeOK
  <1>3. \A q \in Processes : command'[q].does = "nothing" /\ command'[q].pc = "done"
    <2>1. OthersStay(p) /\ command'[p].does = "nothing"
      BY <1>1, CommandDone
    <2>2. ASSUME NEW q \in Processes, q # p PROVE command[q].does = "nothing"
      BY <1>1, <2>2 DEF ModelOrder, RemovesAlone, Removers, AtRest
    <2> QED
      BY <2>1, <2>2 DEF OthersStay, ModelOrder
  <1>4. \A q \in Processes : Relies(q)'
    BY <1>3 DEF Relies, Linking
  <1>5. RemovesAlone' /\ BesideModels' /\ WithEncoder'
    BY <1>2, <1>3 DEF RemovesAlone, Removers, BesideModels, WithEncoder
  <1>6. StaleIsCovered'
    <2>1. ASSUME NEW k \in Positions PROVE ~Stale(k)'
      <3>1. alias'[VariantAt(k)][HalfAt(k)] = 0
        BY <1>2, PositionFacts
      <3> QED
        BY <3>1 DEF Stale, VariantAt, HalfAt
    <2> QED
      BY <2>1 DEF StaleIsCovered, Positions
  <1> QED
    BY <1>4, <1>5, <1>6 DEF ModelParts

-------------------------------------------------------------------------------
(* Every step, and the property *)

LEMMA ModelStays ==
    ASSUME ModelInv, [ModelNext]_modelVars
    PROVE  ModelInv'
  <1>1. CASE UNCHANGED modelVars
    <2>1. ModelTypeOK'
      BY <1>1 DEF ModelInv, ModelTypeOK, modelVars
    <2>2. damaged' = damaged /\ (ModelParts => ModelParts') /\ (ModelOrder => ModelOrder')
      BY <1>1 DEF modelVars, ModelParts, ModelOrder, Relies, Linking, RemovesAlone, BesideModels,
                  WithEncoder, StaleIsCovered, Covers, GoesOn, Stale, VariantAt, HalfAt,
                  Positions, AliasOf, AliasHalf, AliasTurn, PairInstalled, AtRest
    <2> QED
      BY <2>1, <2>2 DEF ModelInv
  <1>2. CASE ModelNext
    <2>0. /\ ModelTypeOK /\ ModelTypeOK' /\ ModelOrder /\ ModelOrder'
          /\ damaged \in BOOLEAN /\ (~damaged => ModelParts)
      BY <1>2, ModelTypesStay, OrderStays DEF ModelInv, ModelOrder
    <2> SUFFICES ASSUME ~damaged' PROVE ModelParts'
      BY <2>0 DEF ModelInv
    <2> PICK p \in Processes :
          \/ StartCommand(p) \/ DownloadLooks(p) \/ FetchFile(p) \/ FetchStops(p) \/ Fetched(p)
          \/ ProbeHeads(p) \/ RefreshAliases(p) \/ Unlink(p) \/ Link(p) \/ ConvertEncoder(p)
          \/ MoveXml(p) \/ MoveBin(p) \/ RemoveEncoder(p) \/ RemoveModel(p) \/ VerifyModel(p)
          \/ KillCommand(p) \/ FileOperationFails(p)
      BY <1>2 DEF ModelNext
    <2>1. CASE KillCommand(p) \/ FileOperationFails(p)
      <3>1. Stopped(p)
        BY <2>1 DEF KillCommand, FileOperationFails
      <3>2. ModelParts
        BY <2>0, <3>1 DEF Stopped
      <3> QED
        BY <2>0, <3>1, <3>2, StopsElsewhere
    <2>2. CASE RemoveEncoder(p)
      <3>1. CASE damaged
        BY <2>0, <2>2, <3>1, RemovalRepairs
      <3>2. CASE ~damaged
        BY <2>0, <2>2, <3>2, RemoveEncoderStep
      <3> QED
        BY <3>1, <3>2
    <2>3. CASE ~(KillCommand(p) \/ FileOperationFails(p) \/ RemoveEncoder(p))
      <3>1. damaged' = damaged
        BY <2>3 DEF StartCommand, DownloadLooks, FetchFile, FetchStops, Fetched, ProbeHeads,
                    RefreshAliases, Unlink, Link, ConvertEncoder, MoveXml, MoveBin,
                    RemoveModel, VerifyModel
      <3>2. ModelParts
        BY <2>0, <3>1
      <3>3. CASE Unlink(p)
        BY <2>0, <3>2, <3>3, UnlinkSkips, UnlinkFile
      <3>4. CASE ~Unlink(p)
        BY <2>0, <2>3, <3>2, <3>4, QuietCommands, RefreshStep, LinkStep, MoveStep,
           RemoveModelStep
      <3> QED
        BY <3>3, <3>4
    <2> QED
      BY <2>1, <2>2, <2>3
  <1> QED
    BY <1>1, <1>2

LEMMA ModelStarts == ModelInit => ModelInv
  <1> SUFFICES ASSUME ModelInit PROVE ModelInv
    OBVIOUS
  <1>1. copies \in [Entries -> CopyTypes]
    <2>1. ASSUME NEW e \in Entries
          PROVE  [managed |-> {}, cache |-> IF e \in Cached THEN RepositoryFiles(e) ELSE {}]
                   \in CopyTypes
      <3>1. (IF e \in Cached THEN RepositoryFiles(e) ELSE {}) \in SUBSET ModelFiles
        BY FilesOfARepository
      <3>2. \A s \in SUBSET ModelFiles : [managed |-> {}, cache |-> s] \in CopyTypes
        BY DEF CopyTypes
      <3> QED
        BY <3>1, <3>2, Zenon
    <2> QED
      BY <2>1 DEF ModelInit
  <1>2. NoCommand \in CommandTypes /\ NoCommand.pc = "done" /\ NoCommand.does = "nothing"
    BY DEF NoCommand, CommandTypes, Entries
  <1>3. \A p \in Processes : command[p] = NoCommand
    BY DEF ModelInit
  <1>4. ModelTypeOK
    BY <1>1, <1>2 DEF ModelInit, ModelTypeOK
  <1> HIDE DEF NoCommand
  <1>5. \A p \in Processes : Relies(p)
    BY <1>2, <1>3 DEF Relies, Linking
  <1>6. RemovesAlone
    BY <1>2, <1>3 DEF RemovesAlone, Removers
  <1>7. \A v \in Quantised, h \in Halves : alias[v][h] = 0
    BY DEF ModelInit
  <1>8. BesideModels /\ WithEncoder
    BY <1>7 DEF BesideModels, WithEncoder
  <1>9. StaleIsCovered
    BY <1>7, PositionFacts DEF StaleIsCovered, Stale
  <1>10. ModelOrder
    BY <1>2, <1>3, <1>6 DEF ModelInit, ModelOrder
  <1> QED
    BY <1>4, <1>5, <1>6, <1>8, <1>9, <1>10 DEF ModelInv, ModelParts

LEMMA EncoderFollows == ModelInv => VerifiedEncoderIsCurrent
  <1> SUFFICES ASSUME ModelInv, ~damaged, \A p \in Processes : AtRest(p),
                      NEW v \in Quantised
               PROVE  /\ Healthy(v) /\ PairInstalled => alias[v] = pair
                      /\ pair["xml"] = 0 => \A h \in Halves : alias[v][h] = 0
    BY DEF VerifiedEncoderIsCurrent
  <1>1. \A p \in Processes : command[p].does = "nothing" /\ command[p].pc = "done"
    BY DEF ModelInv, ModelParts, Relies, AtRest
  <1>2. pair["xml"] = 0 => \A h \in Halves : alias[v][h] = 0
    BY <1>1 DEF ModelInv, ModelParts, WithEncoder
  <1>3. ASSUME NEW h \in Halves PROVE alias[v][h] \in {0, pair[h]}
    <2>1. PICK k \in Positions : VariantAt(k) = v /\ HalfAt(k) = h
      BY PositionFacts
    <2>2. ~\E p \in Processes : Covers(p, k)
      BY <1>1 DEF Covers, Linking
    <2>3. ~Stale(k)
      BY <2>2 DEF ModelInv, ModelParts, StaleIsCovered
    <2> QED
      BY <2>1, <2>3 DEF Stale
  <1>4. ASSUME Healthy(v), PairInstalled PROVE alias[v] = pair
    <2>1. v # Faster
      BY CatalogAssumption DEF CatalogAssumption
    <2>2. \A h \in Halves : alias[v][h] > 0
      BY <1>4, <2>1 DEF Healthy
    <2>3. \A h \in Halves : alias[v][h] = pair[h]
      BY <1>3, <2>2
    <2>4. alias[v] \in [Halves -> Nat] /\ pair \in [Halves -> Nat]
      BY DEF ModelInv, ModelTypeOK
    <2> QED
      BY <2>3, <2>4
  <1> QED
    BY <1>2, <1>4

\* For every catalog and any number of commands, of which those that remove run alone: once none
\* runs, a model that verify calls normal has the encoder converted last beside it, and where there
\* is no encoder none is left beside a model, unless a command was killed, or failed to move, link,
\* copy or remove a file, since the encoder was last removed to the end.
THEOREM EncodersAreCurrent == ModelSpec => []VerifiedEncoderIsCurrent
  <1>1. ModelInit => ModelInv
    BY ModelStarts
  <1>2. ModelInv /\ [ModelNext]_modelVars => ModelInv'
    BY ModelStays
  <1>3. ModelInv => VerifiedEncoderIsCurrent
    BY EncoderFollows
  <1> QED
    BY <1>1, <1>2, <1>3, PTL DEF ModelSpec

----------------------------------------------------------------------------
(* Devices. *)

\* The probe is still to be run.
Pending(left, probe) == \E i \in 1..Len(left) : left[i] = probe

\* What no probe that is left will add is in the report.
SaidBy(left, r, t) ==
  /\ ~ Pending(left, <<"cpu", 0>>) => (r.cpu = t.cpu /\ r.available = t.available)
  /\ ~ Pending(left, <<"count", 0>>) => Len(r.cuda) = Len(t.cuda)
  /\ \A i \in 1..Len(t.cuda) :
       ~ Pending(left, <<"count", 0>>) /\ ~ Pending(left, <<"cuda", i>>) => r.cuda[i] = t.cuda[i]
  /\ ~ Pending(left, <<"torch_cuda", 0>>) => r.torchCuda = t.torchCuda
  /\ ~ Pending(left, <<"torch_xpu", 0>>) => r.torchXpu = t.torchXpu
  /\ ~ Pending(left, <<"openvino", 0>>) => r.openvino = t.openvino
  /\ ~ Pending(left, <<"vulkan", 0>>) => r.vulkan = t.vulkan

Detections ==
  [pc : {"loading", "probing", "selecting"}, print : Nat, left : Seq(Probes),
   request : Asked \cup {Automatic}, report : Reports, failed : SUBSET Probes,
   how : {"fresh", "resolved", "cached"}, steady : BOOLEAN]

\* What a detection on a machine that did not change has found.
Honest(d, t) ==
  LET seen == Without(t, d.report.hidden) IN
  /\ Claims(d.report, seen)
  /\ d.how = "fresh" /\ d.failed = {} => SaidBy(d.left, d.report, seen)
  /\ d.how = "cached" => d.report = seen

\* A detection when the machine is at p.
Detecting(d, p) ==
  /\ d.print <= p
  /\ d.steady <=> d.print = p
  /\ d.how # "resolved" => d.request = Automatic
  /\ d.pc = "loading" => d.how = "fresh"
  /\ d.how = "cached" => d.pc = "selecting"
  /\ d.steady => Honest(d, TrueReport(Machine[p]))

DevicesInv ==
  /\ here \in 1..Len(Machine)
  /\ cache = NoCache \/ Credible(cache, here)
  /\ caller \in [Callers -> {Idle} \cup Detections]
  /\ \A c \in Callers : caller[c] = Idle \/ Detecting(caller[c], here)

----------------------------------------------------------------------------
(* Machines and reports. *)

LEMMA MachineHere ==
  ASSUME NEW p \in 1..Len(Machine)
  PROVE  Machine[p] \in Machines /\ p \in Nat
  BY MachineAssumption, ElementOfSeq, LenProperties DEF MachineAssumption

\* What is there is a report, whose fields are those of the machine or empty.
LEMMA TrueReportIs ==
  ASSUME NEW m \in Machines
  PROVE  /\ TrueReport(m) \in Reports
         /\ TrueReport(m).hidden = {}
  <1>1. << >> \in Seq(SUBSET STRING)
    BY EmptySeq
  <1>2. \A a \in BOOLEAN, k \in SUBSET STRING, u \in Seq(SUBSET STRING), x \in SUBSET Nat,
           y \in SUBSET Nat, o \in SUBSET STRING, v \in BOOLEAN, h \in SUBSET Hides :
           [available |-> a, cpu |-> k, cuda |-> u, torchCuda |-> x, torchXpu |-> y,
            openvino |-> o, vulkan |-> v, hidden |-> h] \in Reports
    BY DEF Reports
  <1>3. /\ m.cpu \in SUBSET STRING /\ m.cuda \in Seq(SUBSET STRING)
        /\ m.torchCuda \in SUBSET Nat /\ m.torchXpu \in SUBSET Nat
        /\ m.openvino \in SUBSET STRING /\ m.vulkan \in BOOLEAN
    BY DEF Machines
  <1> DEFINE ct == "ctranslate2" \in m.installed  to == "torch" \in m.installed
             ov == "openvino" \in m.installed
             k == IF ct THEN m.cpu ELSE {}
             u == IF ct THEN m.cuda ELSE << >>
             x == IF to THEN m.torchCuda ELSE {}
             y == IF to THEN m.torchXpu ELSE {}
             o == IF ov THEN m.openvino ELSE {}
  <1>4. /\ ct \in BOOLEAN /\ k \in SUBSET STRING /\ u \in Seq(SUBSET STRING)
        /\ x \in SUBSET Nat /\ y \in SUBSET Nat /\ o \in SUBSET STRING
    BY <1>1, <1>3
  <1>5. TrueReport(m) = [available |-> ct, cpu |-> k, cuda |-> u, torchCuda |-> x, torchXpu |-> y,
            openvino |-> o, vulkan |-> m.vulkan, hidden |-> {}]
    BY DEF TrueReport
  <1>6. {} \in SUBSET Hides
    OBVIOUS
  <1> HIDE DEF ct, to, ov, k, u, x, y, o
  <1>7. TrueReport(m) \in Reports
    BY <1>3, <1>4, <1>5, <1>6 DEF Reports
  <1> QED
    BY <1>5, <1>7

\* Two reports are the same when their fields are.
LEMMA SameReport ==
  ASSUME NEW r \in Reports, NEW t \in Reports,
         r.available = t.available, r.cpu = t.cpu, r.cuda = t.cuda, r.torchCuda = t.torchCuda,
         r.torchXpu = t.torchXpu, r.openvino = t.openvino, r.vulkan = t.vulkan,
         r.hidden = t.hidden
  PROVE  r = t
  BY DEF Reports

\* What is left of a report without what was hidden.
LEMMA WithoutIs ==
  ASSUME NEW r \in Reports, NEW kinds, kinds \subseteq Hides
  PROVE  LET q == Without(r, kinds) IN
         /\ q \in Reports /\ q.hidden = kinds
         /\ q.available = r.available /\ q.cpu = r.cpu /\ q.cuda = r.cuda
         /\ q.openvino = r.openvino
         /\ q.torchCuda = IF "torch_cuda" \in kinds THEN {} ELSE r.torchCuda
         /\ q.torchXpu = IF "torch_xpu" \in kinds THEN {} ELSE r.torchXpu
         /\ q.vulkan = (r.vulkan /\ "vulkan" \notin kinds)
  <1> DEFINE x == IF "torch_cuda" \in kinds THEN {} ELSE r.torchCuda
             y == IF "torch_xpu" \in kinds THEN {} ELSE r.torchXpu
             v == r.vulkan /\ "vulkan" \notin kinds
  <1>1. /\ r.available \in BOOLEAN /\ r.cpu \in SUBSET STRING /\ r.cuda \in Seq(SUBSET STRING)
        /\ r.openvino \in SUBSET STRING
        /\ x \in SUBSET Nat /\ y \in SUBSET Nat /\ v \in BOOLEAN
    BY DEF Reports
  <1>2. Without(r, kinds) = [available |-> r.available, cpu |-> r.cpu, cuda |-> r.cuda,
            openvino |-> r.openvino, torchCuda |-> x, torchXpu |-> y, vulkan |-> v,
            hidden |-> kinds]
    BY DEF Without
  <1> HIDE DEF x, y, v
  <1>3. Without(r, kinds) \in Reports
    BY <1>1, <1>2 DEF Reports
  <1> QED
    BY <1>2, <1>3 DEF x, y, v

\* A report that claims no more than what was seen claims no more than there is.
LEMMA SeenIsThere ==
  ASSUME NEW r \in Reports, NEW t \in Reports, Claims(r, Without(t, r.hidden))
  PROVE  Claims(r, t)
  <1>1. r.hidden \subseteq Hides /\ r.vulkan \in BOOLEAN /\ t.vulkan \in BOOLEAN
    BY DEF Reports
  <1>2. PICK q : q = Without(t, r.hidden)
    OBVIOUS
  <1>3. /\ q.available = t.available /\ q.cpu = t.cpu /\ q.cuda = t.cuda
        /\ q.openvino = t.openvino /\ q.torchCuda \subseteq t.torchCuda
        /\ q.torchXpu \subseteq t.torchXpu /\ (q.vulkan => t.vulkan)
    BY <1>1, <1>2, WithoutIs
  <1> QED
    BY <1>2, <1>3 DEF Claims

\* A report claims what it says.
LEMMA ClaimsItself ==
  ASSUME NEW r \in Reports
  PROVE  Claims(r, r)
  <1>1. r.cuda \in Seq(SUBSET STRING)
    BY DEF Reports
  <1>2. Len(r.cuda) \in Nat
    BY <1>1, LenProperties
  <1> QED
    BY <1>2 DEF Claims

\* With no probe left, all is said.
LEMMA AllIsSaid ==
  ASSUME NEW r \in Reports, NEW t \in Reports, r.hidden = t.hidden,
         SaidBy(<< >>, r, t)
  PROVE  r = t
  <1>1. \A probe : ~ Pending(<< >>, probe)
    BY DEF Pending
  <1>2. r.cuda \in Seq(SUBSET STRING) /\ t.cuda \in Seq(SUBSET STRING)
    BY DEF Reports
  <1>3. Len(r.cuda) = Len(t.cuda) /\ \A i \in 1..Len(t.cuda) : r.cuda[i] = t.cuda[i]
    BY <1>1 DEF SaidBy
  <1>4. r.cuda = t.cuda
    BY <1>2, <1>3, SeqEqual
  <1> QED
    BY <1>1, <1>4, SameReport DEF SaidBy

----------------------------------------------------------------------------
(* Probes that are left. *)

LEMMA PendingInTail ==
  ASSUME NEW left \in Seq(Probes), left # << >>, NEW probe
  PROVE  Pending(left, probe) <=> (probe = Head(left) \/ Pending(Tail(left), probe))
  <1>1. /\ Tail(left) \in Seq(Probes) /\ Len(Tail(left)) = Len(left) - 1
        /\ \A i \in 1..Len(Tail(left)) : Tail(left)[i] = left[i + 1]
    BY HeadTailProperties
  <1>2. Len(left) \in Nat /\ Len(left) > 0 /\ Head(left) = left[1]
    BY LenProperties, EmptySeq
  <1>3. ASSUME Pending(left, probe), probe # Head(left)  PROVE Pending(Tail(left), probe)
    <2>1. PICK i \in 1..Len(left) : left[i] = probe
      BY <1>3 DEF Pending
    <2>2. i # 1
      BY <2>1, <1>2, <1>3
    <2>3. i - 1 \in 1..Len(Tail(left)) /\ (i - 1) + 1 = i
      BY <2>2, <1>1, <1>2
    <2>4. Tail(left)[i - 1] = probe
      BY <2>1, <2>3, <1>1
    <2> QED
      BY <2>3, <2>4 DEF Pending
  <1>4. ASSUME Pending(Tail(left), probe)  PROVE Pending(left, probe)
    <2>1. PICK i \in 1..Len(Tail(left)) : Tail(left)[i] = probe
      BY <1>4 DEF Pending
    <2>2. i + 1 \in 1..Len(left) /\ left[i + 1] = probe
      BY <2>1, <1>1, <1>2
    <2> QED
      BY <2>2 DEF Pending
  <1>5. ASSUME probe = Head(left)  PROVE Pending(left, probe)
    <2>1. 1 \in 1..Len(left) /\ left[1] = probe
      BY <1>5, <1>2
    <2> QED
      BY <2>1 DEF Pending
  <1> QED
    BY <1>3, <1>4, <1>5

LEMMA PendingInConcat ==
  ASSUME NEW more \in Seq(Probes), NEW rest \in Seq(Probes), NEW probe,
         Pending(more, probe) \/ Pending(rest, probe)
  PROVE  Pending(more \o rest, probe)
  <1>1. /\ Len(more \o rest) = Len(more) + Len(rest)
        /\ \A i \in 1..(Len(more) + Len(rest)) :
             (more \o rest)[i] = IF i <= Len(more) THEN more[i] ELSE rest[i - Len(more)]
    BY ConcatProperties
  <1>2. Len(more) \in Nat /\ Len(rest) \in Nat
    BY LenProperties
  <1>3. CASE Pending(more, probe)
    <2>1. PICK i \in 1..Len(more) : more[i] = probe
      BY <1>3 DEF Pending
    <2>2. i \in 1..Len(more \o rest) /\ (more \o rest)[i] = probe
      BY <2>1, <1>1, <1>2
    <2> QED
      BY <2>2 DEF Pending
  <1>4. CASE Pending(rest, probe)
    <2>1. PICK i \in 1..Len(rest) : rest[i] = probe
      BY <1>4 DEF Pending
    <2>2. /\ i + Len(more) \in 1..Len(more \o rest)
          /\ ~ (i + Len(more) <= Len(more)) /\ (i + Len(more)) - Len(more) = i
      BY <2>1, <1>1, <1>2
    <2>3. (more \o rest)[i + Len(more)] = probe
      BY <2>1, <2>2, <1>1, <1>2
    <2> QED
      BY <2>2, <2>3 DEF Pending
  <1> QED
    BY <1>3, <1>4

\* What a count of n devices adds.
LEMMA AfterCountHas ==
  ASSUME NEW r \in Reports
  PROVE  /\ AfterCount(r) \in Seq(Probes)
         /\ \A i \in 1..Len(r.cuda) : Pending(AfterCount(r), <<"cuda", i>>)
  <1>1. Len(r.cuda) \in Nat /\ (r.cuda = << >> <=> Len(r.cuda) = 0)
    <2>1. r.cuda \in Seq(SUBSET STRING)
      BY DEF Reports
    <2> QED
      BY <2>1, LenProperties, EmptySeq
  <1>2. CASE r.cuda = << >>
    BY <1>1, <1>2, EmptySeq DEF AfterCount
  <1>3. CASE r.cuda # << >>
    <2> DEFINE one == << <<"metadata", 0>> >>
               all == [i \in 1..Len(r.cuda) |-> <<"cuda", i>>]
    <2>1. \A i \in 1..Len(r.cuda) : <<"cuda", i>> \in Probes
      BY <1>1 DEF Probes
    <2>2. all \in [1..Len(r.cuda) -> Probes]
      BY <2>1
    <2>3. all \in Seq(Probes) /\ Len(all) = Len(r.cuda)
      <3>1. all \in Seq(Probes)
        BY <2>2, <1>1, SeqDef
      <3>2. DOMAIN all = 1..Len(all)
        BY <3>1, LenProperties
      <3>3. DOMAIN all = 1..Len(r.cuda)
        OBVIOUS
      <3>4. Len(all) \in Nat
        BY <3>1, LenProperties
      <3> HIDE DEF all
      <3> QED
        BY <3>1, <3>2, <3>3, <3>4, <1>1
    <2>4. one \in Seq(Probes)
      BY DEF Probes
    <2>5. AfterCount(r) = one \o all
      BY <1>3 DEF AfterCount
    <2>6. ASSUME NEW i \in 1..Len(r.cuda)  PROVE Pending(all, <<"cuda", i>>)
      <3>1. all[i] = <<"cuda", i>>
        OBVIOUS
      <3> HIDE DEF all
      <3> QED
        BY <3>1, <2>3 DEF Pending
    <2> HIDE DEF one, all
    <2>7. AfterCount(r) \in Seq(Probes)
      BY <2>3, <2>4, <2>5, ConcatProperties
    <2>8. \A i \in 1..Len(r.cuda) : Pending(AfterCount(r), <<"cuda", i>>)
      BY <2>3, <2>4, <2>5, <2>6, PendingInConcat
    <2> QED
      BY <2>7, <2>8
  <1> QED
    BY <1>2, <1>3

----------------------------------------------------------------------------
(* What a probe adds. *)

LEMMA LengthIs ==
  ASSUME NEW n \in Nat, NEW e \in [1..n -> SUBSET STRING]
  PROVE  e \in Seq(SUBSET STRING) /\ Len(e) = n
  <1>0. e \in Seq(SUBSET STRING) /\ DOMAIN e = 1..n
    BY SeqDef
  <1>1. DOMAIN e = 1..Len(e) /\ Len(e) \in Nat
    BY <1>0, LenProperties
  <1>2. (n = 0 \/ n \in 1..Len(e)) /\ (Len(e) = 0 \/ Len(e) \in 1..n)
    BY <1>0, <1>1
  <1> QED
    BY <1>0, <1>1, <1>2

LEMMA CountedDevices ==
  ASSUME NEW n \in Nat
  PROVE  /\ [i \in 1..n |-> {}] \in Seq(SUBSET STRING)
         /\ Len([i \in 1..n |-> {}]) = n
         /\ \A i \in 1..n : [j \in 1..n |-> {}][i] = {}
  <1> DEFINE e == [i \in 1..n |-> {}]
  <1>1. e \in [1..n -> SUBSET STRING]
    OBVIOUS
  <1>2. e \in Seq(SUBSET STRING) /\ Len(e) = n
    BY <1>1, LengthIs
  <1>3. \A i \in 1..n : e[i] = {}
    OBVIOUS
  <1> QED
    BY <1>2, <1>3

LEMMA ProbedDevice ==
  ASSUME NEW u \in Seq(SUBSET STRING), NEW k, NEW x \in SUBSET STRING
  PROVE  /\ [u EXCEPT ![k] = x] \in Seq(SUBSET STRING)
         /\ Len([u EXCEPT ![k] = x]) = Len(u)
         /\ \A i \in 1..Len(u) : [u EXCEPT ![k] = x][i] = IF i = k THEN x ELSE u[i]
  <1>1. Len(u) \in Nat /\ u \in [1..Len(u) -> SUBSET STRING]
    BY LenProperties
  <1>2. CASE k \in 1..Len(u)
    <2>1. [u EXCEPT ![k] = x] \in [1..Len(u) -> SUBSET STRING]
      BY <1>1, <1>2
    <2>2. \A i \in 1..Len(u) : [u EXCEPT ![k] = x][i] = IF i = k THEN x ELSE u[i]
      BY <1>1, <1>2
    <2>3. [u EXCEPT ![k] = x] \in Seq(SUBSET STRING) /\ Len([u EXCEPT ![k] = x]) = Len(u)
      BY <1>1, <2>1, LengthIs
    <2> QED
      BY <2>2, <2>3
  <1>3. CASE k \notin 1..Len(u)
    <2>1. [u EXCEPT ![k] = x] = u
      BY <1>1, <1>3
    <2>2. \A i \in 1..Len(u) : i # k
      BY <1>3
    <2> QED
      BY <2>1, <2>2
  <1> QED
    BY <1>2, <1>3

\* The fields of the report after the probe.
LEMMA CompletedFields ==
  ASSUME NEW probe, NEW m, NEW r
  PROVE  LET q == Completed(probe, m, r) IN
         /\ q.available = (r.available \/ probe[1] \in {"cpu", "count"})
         /\ q.cpu = IF probe[1] = "cpu" THEN m.cpu ELSE r.cpu
         /\ q.cuda = IF probe[1] = "count" THEN [i \in 1..Len(m.cuda) |-> {}]
                     ELSE IF probe[1] = "cuda" /\ probe[2] \in DOMAIN m.cuda
                     THEN [r.cuda EXCEPT ![probe[2]] = m.cuda[probe[2]]] ELSE r.cuda
         /\ q.torchCuda = IF probe[1] = "torch_cuda" THEN m.torchCuda ELSE r.torchCuda
         /\ q.torchXpu = IF probe[1] = "torch_xpu" THEN m.torchXpu ELSE r.torchXpu
         /\ q.openvino = IF probe[1] = "openvino" THEN m.openvino ELSE r.openvino
         /\ q.vulkan = IF probe[1] = "vulkan" THEN m.vulkan ELSE r.vulkan
         /\ q.hidden = r.hidden \ {probe[1]}
  BY DEF Completed

LEMMA CompletedIsReport ==
  ASSUME NEW probe \in Probes, NEW m \in Machines, NEW r \in Reports
  PROVE  Completed(probe, m, r) \in Reports
  <1>1. \A a \in BOOLEAN, k \in SUBSET STRING, u \in Seq(SUBSET STRING), x \in SUBSET Nat,
           y \in SUBSET Nat, o \in SUBSET STRING, v \in BOOLEAN, h \in SUBSET Hides :
           [available |-> a, cpu |-> k, cuda |-> u, torchCuda |-> x, torchXpu |-> y,
            openvino |-> o, vulkan |-> v, hidden |-> h] \in Reports
    BY DEF Reports
  <1>2. /\ m.cpu \in SUBSET STRING /\ m.cuda \in Seq(SUBSET STRING)
        /\ m.torchCuda \in SUBSET Nat /\ m.torchXpu \in SUBSET Nat
        /\ m.openvino \in SUBSET STRING /\ m.vulkan \in BOOLEAN
    BY DEF Machines
  <1>3. /\ r.available \in BOOLEAN /\ r.cpu \in SUBSET STRING /\ r.cuda \in Seq(SUBSET STRING)
        /\ r.torchCuda \in SUBSET Nat /\ r.torchXpu \in SUBSET Nat
        /\ r.openvino \in SUBSET STRING /\ r.vulkan \in BOOLEAN
        /\ r.hidden \ {probe[1]} \in SUBSET Hides
    BY DEF Reports
  <1> DEFINE a == r.available \/ probe[1] \in {"cpu", "count"}
             k == IF probe[1] = "cpu" THEN m.cpu ELSE r.cpu
             u == IF probe[1] = "count" THEN [i \in 1..Len(m.cuda) |-> {}]
                  ELSE IF probe[1] = "cuda" /\ probe[2] \in DOMAIN m.cuda
                  THEN [r.cuda EXCEPT ![probe[2]] = m.cuda[probe[2]]] ELSE r.cuda
             x == IF probe[1] = "torch_cuda" THEN m.torchCuda ELSE r.torchCuda
             y == IF probe[1] = "torch_xpu" THEN m.torchXpu ELSE r.torchXpu
             o == IF probe[1] = "openvino" THEN m.openvino ELSE r.openvino
             v == IF probe[1] = "vulkan" THEN m.vulkan ELSE r.vulkan
  <1>4. Completed(probe, m, r) = [available |-> a, cpu |-> k, cuda |-> u, torchCuda |-> x,
            torchXpu |-> y, openvino |-> o, vulkan |-> v, hidden |-> r.hidden \ {probe[1]}]
    BY DEF Completed
  <1>5. u \in Seq(SUBSET STRING)
    <2>1. Len(m.cuda) \in Nat /\ DOMAIN m.cuda = 1..Len(m.cuda)
      BY <1>2, LenProperties
    <2>2. [i \in 1..Len(m.cuda) |-> {}] \in Seq(SUBSET STRING)
      BY <2>1, CountedDevices
    <2>3. ASSUME probe[2] \in DOMAIN m.cuda
          PROVE  [r.cuda EXCEPT ![probe[2]] = m.cuda[probe[2]]] \in Seq(SUBSET STRING)
      <3>1. m.cuda[probe[2]] \in SUBSET STRING
        BY <1>2, <2>1, <2>3, ElementOfSeq
      <3> QED
        BY <1>3, <3>1, ProbedDevice
    <2> QED
      BY <1>3, <2>2, <2>3
  <1>6. /\ a \in BOOLEAN /\ k \in SUBSET STRING /\ x \in SUBSET Nat /\ y \in SUBSET Nat
        /\ o \in SUBSET STRING /\ v \in BOOLEAN
    BY <1>2, <1>3
  <1> HIDE DEF a, k, u, x, y, o, v
  <1> QED
    BY <1>3, <1>4, <1>5, <1>6 DEF Reports

\* What is there when the package of the probe is.
LEMMA PackageIsThere ==
  ASSUME NEW probe \in Probes, NEW m \in Machines, Package(probe) \subseteq m.installed
  PROVE  LET t == TrueReport(m) IN
         /\ probe[1] \in {"cpu", "count", "cuda"} =>
              t.available /\ t.cpu = m.cpu /\ t.cuda = m.cuda
         /\ probe[1] = "torch_cuda" => t.torchCuda = m.torchCuda
         /\ probe[1] = "torch_xpu" => t.torchXpu = m.torchXpu
         /\ probe[1] = "openvino" => t.openvino = m.openvino
         /\ t.vulkan = m.vulkan
  <1>1. probe[1] \in {"cpu", "count", "cuda"} => "ctranslate2" \in m.installed
    BY DEF Package
  <1>2. probe[1] \in {"torch_cuda", "torch_xpu"} => "torch" \in m.installed
    BY DEF Package
  <1>3. probe[1] = "openvino" => "openvino" \in m.installed
    BY DEF Package
  <1> QED
    BY <1>1, <1>2, <1>3 DEF TrueReport

\* And when it is not.
LEMMA PackageIsMissing ==
  ASSUME NEW probe \in Probes, NEW m \in Machines, ~ (Package(probe) \subseteq m.installed)
  PROVE  LET t == TrueReport(m) IN
         /\ probe[1] # "vulkan"
         /\ probe[1] \in {"cpu", "count", "cuda"} =>
              ~ t.available /\ t.cpu = {} /\ t.cuda = << >>
         /\ probe[1] = "torch_cuda" => t.torchCuda = {}
         /\ probe[1] = "torch_xpu" => t.torchXpu = {}
         /\ probe[1] = "openvino" => t.openvino = {}
  <1>1. probe[1] \in {"cpu", "count", "cuda"} => "ctranslate2" \notin m.installed
    BY DEF Package
  <1>2. probe[1] \in {"torch_cuda", "torch_xpu"} => "torch" \notin m.installed
    BY DEF Package
  <1>3. probe[1] = "openvino" => "openvino" \notin m.installed
    BY DEF Package
  <1>4. probe[1] # "vulkan"
    BY DEF Package
  <1> QED
    BY <1>1, <1>2, <1>3, <1>4 DEF TrueReport

\* What is seen before the probe completes and after it.
LEMMA SeenByProbe ==
  ASSUME NEW probe \in Probes, NEW m \in Machines, NEW r \in Reports,
         Package(probe) \subseteq m.installed
  PROVE  LET q == Completed(probe, m, r)
             s == Without(TrueReport(m), r.hidden)
             t == Without(TrueReport(m), q.hidden)
         IN /\ q \in Reports /\ s \in Reports /\ t \in Reports
            /\ t.available = s.available /\ t.cpu = s.cpu /\ t.cuda = s.cuda
            /\ t.openvino = s.openvino
            /\ probe[1] \in {"cpu", "count", "cuda"} =>
                 t.available /\ t.cpu = m.cpu /\ t.cuda = m.cuda
            /\ probe[1] = "openvino" => t.openvino = m.openvino
            /\ t.torchCuda = IF probe[1] = "torch_cuda" THEN m.torchCuda ELSE s.torchCuda
            /\ t.torchXpu = IF probe[1] = "torch_xpu" THEN m.torchXpu ELSE s.torchXpu
            /\ t.vulkan = IF probe[1] = "vulkan" THEN m.vulkan ELSE s.vulkan
  <1>1. PICK q : q = Completed(probe, m, r)
    OBVIOUS
  <1>2. PICK s : s = Without(TrueReport(m), r.hidden)
    OBVIOUS
  <1>3. PICK t : t = Without(TrueReport(m), q.hidden)
    OBVIOUS
  <1>4. PICK true : true = TrueReport(m)
    OBVIOUS
  <1>5. q \in Reports /\ q.hidden = r.hidden \ {probe[1]}
    <2>1. q \in Reports
      BY <1>1, CompletedIsReport
    <2> QED
      BY <1>1, <2>1 DEF Completed
  <1>6. r.hidden \subseteq Hides /\ q.hidden \subseteq Hides /\ true \in Reports
    BY <1>4, <1>5, TrueReportIs DEF Reports
  <1>7. /\ s \in Reports /\ s.available = true.available /\ s.cpu = true.cpu
        /\ s.cuda = true.cuda /\ s.openvino = true.openvino
        /\ s.torchCuda = IF "torch_cuda" \in r.hidden THEN {} ELSE true.torchCuda
        /\ s.torchXpu = IF "torch_xpu" \in r.hidden THEN {} ELSE true.torchXpu
        /\ s.vulkan = (true.vulkan /\ "vulkan" \notin r.hidden)
    BY <1>2, <1>4, <1>6, WithoutIs
  <1>8. /\ t \in Reports /\ t.available = true.available /\ t.cpu = true.cpu
        /\ t.cuda = true.cuda /\ t.openvino = true.openvino
        /\ t.torchCuda = IF "torch_cuda" \in q.hidden THEN {} ELSE true.torchCuda
        /\ t.torchXpu = IF "torch_xpu" \in q.hidden THEN {} ELSE true.torchXpu
        /\ t.vulkan = (true.vulkan /\ "vulkan" \notin q.hidden)
    BY <1>3, <1>4, <1>6, WithoutIs
  <1>9. /\ probe[1] \in {"cpu", "count", "cuda"} =>
             true.available /\ true.cpu = m.cpu /\ true.cuda = m.cuda
        /\ probe[1] = "torch_cuda" => true.torchCuda = m.torchCuda
        /\ probe[1] = "torch_xpu" => true.torchXpu = m.torchXpu
        /\ probe[1] = "openvino" => true.openvino = m.openvino
        /\ true.vulkan = m.vulkan
    BY <1>4, PackageIsThere
  <1>10. m.vulkan \in BOOLEAN /\ true.vulkan \in BOOLEAN
    BY <1>6 DEF Machines, Reports
  <1>11. t.torchCuda = IF probe[1] = "torch_cuda" THEN m.torchCuda ELSE s.torchCuda
    BY <1>5, <1>7, <1>8, <1>9
  <1>12. t.torchXpu = IF probe[1] = "torch_xpu" THEN m.torchXpu ELSE s.torchXpu
    BY <1>5, <1>7, <1>8, <1>9
  <1>13. t.vulkan = IF probe[1] = "vulkan" THEN m.vulkan ELSE s.vulkan
    BY <1>5, <1>7, <1>8, <1>9, <1>10
  <1>14. /\ t.available = s.available /\ t.cpu = s.cpu /\ t.cuda = s.cuda
         /\ t.openvino = s.openvino
         /\ probe[1] \in {"cpu", "count", "cuda"} =>
              t.available /\ t.cpu = m.cpu /\ t.cuda = m.cuda
         /\ probe[1] = "openvino" => t.openvino = m.openvino
    BY <1>7, <1>8, <1>9
  <1> QED
    BY <1>1, <1>2, <1>3, <1>5, <1>7, <1>8, <1>11, <1>12, <1>13, <1>14

LEMMA CompletedClaims ==
  ASSUME NEW probe \in Probes, NEW m \in Machines, NEW r \in Reports,
         Package(probe) \subseteq m.installed, Claims(r, Without(TrueReport(m), r.hidden)),
         NEW q, q = Completed(probe, m, r)
  PROVE  Claims(q, Without(TrueReport(m), q.hidden))
  <1> DEFINE s == Without(TrueReport(m), r.hidden)
             t == Without(TrueReport(m), q.hidden)
  <1>1. Claims(r, s)
    OBVIOUS
  <1>2. /\ t.available = s.available /\ t.cpu = s.cpu /\ t.cuda = s.cuda
        /\ t.openvino = s.openvino
        /\ probe[1] \in {"cpu", "count", "cuda"} => t.available /\ t.cpu = m.cpu /\ t.cuda = m.cuda
        /\ probe[1] = "openvino" => t.openvino = m.openvino
        /\ t.torchCuda = IF probe[1] = "torch_cuda" THEN m.torchCuda ELSE s.torchCuda
        /\ t.torchXpu = IF probe[1] = "torch_xpu" THEN m.torchXpu ELSE s.torchXpu
        /\ t.vulkan = IF probe[1] = "vulkan" THEN m.vulkan ELSE s.vulkan
    BY SeenByProbe
  <1>3. /\ q.available = (r.available \/ probe[1] \in {"cpu", "count"})
        /\ q.cpu = IF probe[1] = "cpu" THEN m.cpu ELSE r.cpu
        /\ q.cuda = IF probe[1] = "count" THEN [i \in 1..Len(m.cuda) |-> {}]
                     ELSE IF probe[1] = "cuda" /\ probe[2] \in DOMAIN m.cuda
                     THEN [r.cuda EXCEPT ![probe[2]] = m.cuda[probe[2]]] ELSE r.cuda
        /\ q.torchCuda = IF probe[1] = "torch_cuda" THEN m.torchCuda ELSE r.torchCuda
        /\ q.torchXpu = IF probe[1] = "torch_xpu" THEN m.torchXpu ELSE r.torchXpu
        /\ q.openvino = IF probe[1] = "openvino" THEN m.openvino ELSE r.openvino
        /\ q.vulkan = IF probe[1] = "vulkan" THEN m.vulkan ELSE r.vulkan
    BY DEF Completed
  <1>4. r.cuda \in Seq(SUBSET STRING) /\ m.cuda \in Seq(SUBSET STRING)
    BY DEF Reports, Machines
  <1>5. /\ Len(m.cuda) \in Nat /\ DOMAIN m.cuda = 1..Len(m.cuda)
        /\ \A i \in 1..Len(m.cuda) : m.cuda[i] \in SUBSET STRING
    BY <1>4, LenProperties, ElementOfSeq
  <1> HIDE DEF s, t
  <1>11. Len(r.cuda) <= Len(t.cuda) /\ \A i \in 1..Len(r.cuda) : r.cuda[i] \subseteq t.cuda[i]
    <2>1. Len(r.cuda) <= Len(s.cuda) /\ \A i \in 1..Len(r.cuda) : r.cuda[i] \subseteq s.cuda[i]
      BY <1>1 DEF Claims
    <2> QED
      BY <1>2, <2>1
  <1>6. Len(q.cuda) <= Len(t.cuda) /\ \A i \in 1..Len(q.cuda) : q.cuda[i] \subseteq t.cuda[i]
    <2>1. CASE probe[1] = "count"
      BY <1>2, <1>3, <1>5, <2>1, CountedDevices
    <2>2. CASE probe[1] = "cuda" /\ probe[2] \in DOMAIN m.cuda
      <3>1. /\ Len(q.cuda) = Len(r.cuda)
            /\ \A i \in 1..Len(r.cuda) :
                 q.cuda[i] = IF i = probe[2] THEN m.cuda[probe[2]] ELSE r.cuda[i]
        BY <1>3, <1>4, <1>5, <2>2, ProbedDevice
      <3>2. \A i \in 1..Len(r.cuda) : q.cuda[i] \subseteq t.cuda[i]
        BY <1>2, <1>11, <2>2, <3>1
      <3> QED
        BY <1>11, <3>1, <3>2
    <2>3. CASE q.cuda = r.cuda
      BY <1>11, <2>3
    <2> QED
      BY <1>3, <2>1, <2>2, <2>3
  <1>7. (q.available => t.available) /\ q.cpu \subseteq t.cpu
    BY <1>1, <1>2, <1>3 DEF Claims
  <1>8. q.torchCuda \subseteq t.torchCuda /\ q.torchXpu \subseteq t.torchXpu
    BY <1>1, <1>2, <1>3 DEF Claims
  <1>9. q.openvino \subseteq t.openvino /\ (q.vulkan => t.vulkan)
    BY <1>1, <1>2, <1>3 DEF Claims
  <1>10. Claims(q, t)
    BY <1>6, <1>7, <1>8, <1>9 DEF Claims
  <1> QED
    BY <1>10 DEF t

----------------------------------------------------------------------------
(* What was said stays said. *)

\* Without its package there was nothing to say.
LEMMA SkippedIsSaid ==
  ASSUME NEW left \in Seq(Probes), left # << >>, NEW m \in Machines, NEW r \in Reports,
         ~ (Package(Head(left)) \subseteq m.installed), NEW t,
         t = Without(TrueReport(m), r.hidden), Claims(r, t), SaidBy(left, r, t)
  PROVE  SaidBy(Tail(left), r, t)
  <1> DEFINE probe == Head(left)
  <1>1. probe \in Probes
    BY HeadTailProperties
  <1>2. /\ probe[1] # "vulkan"
        /\ probe[1] \in {"cpu", "count", "cuda"} => ~ t.available /\ t.cpu = {} /\ t.cuda = << >>
        /\ probe[1] = "torch_cuda" => t.torchCuda = {}
        /\ probe[1] = "torch_xpu" => t.torchXpu = {}
        /\ probe[1] = "openvino" => t.openvino = {}
    <2>1. PICK true : true = TrueReport(m)
      OBVIOUS
    <2>2. true \in Reports /\ r.hidden \subseteq Hides
      BY <2>1, TrueReportIs DEF Reports
    <2>3. /\ probe[1] # "vulkan"
          /\ probe[1] \in {"cpu", "count", "cuda"} =>
               ~ true.available /\ true.cpu = {} /\ true.cuda = << >>
          /\ probe[1] = "torch_cuda" => true.torchCuda = {}
          /\ probe[1] = "torch_xpu" => true.torchXpu = {}
          /\ probe[1] = "openvino" => true.openvino = {}
      BY <1>1, <2>1, PackageIsMissing
    <2>4. /\ t.available = true.available /\ t.cpu = true.cpu /\ t.cuda = true.cuda
          /\ t.openvino = true.openvino
          /\ t.torchCuda = IF "torch_cuda" \in r.hidden THEN {} ELSE true.torchCuda
          /\ t.torchXpu = IF "torch_xpu" \in r.hidden THEN {} ELSE true.torchXpu
      BY <2>1, <2>2, WithoutIs
    <2> HIDE DEF probe
    <2> QED
      BY <2>3, <2>4
  <1>3. Claims(r, t) /\ SaidBy(left, r, t)
    OBVIOUS
  <1>4. \A p : ~ Pending(Tail(left), p) => (p = probe \/ ~ Pending(left, p))
    BY PendingInTail
  <1>5. r.available \in BOOLEAN /\ t.available \in BOOLEAN /\ Len(r.cuda) \in Nat
        /\ r.vulkan \in BOOLEAN
    <2>1. t \in Reports
      <3>1. TrueReport(m) \in Reports /\ r.hidden \subseteq Hides
        BY TrueReportIs DEF Reports
      <3> QED
        BY <3>1, WithoutIs
    <2>2. r.cuda \in Seq(SUBSET STRING)
      BY DEF Reports
    <2> QED
      BY <2>1, <2>2, LenProperties DEF Reports
  <1>6. Len(<< >>) = 0
    BY EmptySeq
  <1> HIDE DEF probe
  <1>7. ~ Pending(Tail(left), <<"cpu", 0>>) => (r.cpu = t.cpu /\ r.available = t.available)
    <2>1. CASE probe = <<"cpu", 0>>
      <3>1. ~ t.available /\ t.cpu = {}
        BY <1>2, <2>1
      <3> QED
        BY <1>3, <1>5, <3>1 DEF Claims
    <2> QED
      BY <1>3, <1>4, <2>1 DEF SaidBy
  <1>8. ~ Pending(Tail(left), <<"count", 0>>) => Len(r.cuda) = Len(t.cuda)
    <2>1. CASE probe = <<"count", 0>>
      <3>1. t.cuda = << >>
        BY <1>2, <2>1
      <3> QED
        BY <1>3, <1>5, <1>6, <3>1 DEF Claims
    <2> QED
      BY <1>3, <1>4, <2>1 DEF SaidBy
  <1>9. ASSUME NEW i \in 1..Len(t.cuda), ~ Pending(Tail(left), <<"count", 0>>),
               ~ Pending(Tail(left), <<"cuda", i>>)
        PROVE  r.cuda[i] = t.cuda[i]
    <2>1. t.cuda # << >>
      BY <1>6
    <2>2. probe[1] \notin {"cpu", "count", "cuda"}
      BY <1>2, <2>1
    <2>3. ~ Pending(left, <<"count", 0>>) /\ ~ Pending(left, <<"cuda", i>>)
      BY <1>4, <1>9, <2>2
    <2> QED
      BY <1>3, <2>3 DEF SaidBy
  <1>10. ~ Pending(Tail(left), <<"torch_cuda", 0>>) => r.torchCuda = t.torchCuda
    <2>1. CASE probe = <<"torch_cuda", 0>>
      <3>1. t.torchCuda = {}
        BY <1>2, <2>1
      <3> QED
        BY <1>3, <3>1 DEF Claims
    <2> QED
      BY <1>3, <1>4, <2>1 DEF SaidBy
  <1>11. ~ Pending(Tail(left), <<"torch_xpu", 0>>) => r.torchXpu = t.torchXpu
    <2>1. CASE probe = <<"torch_xpu", 0>>
      <3>1. t.torchXpu = {}
        BY <1>2, <2>1
      <3> QED
        BY <1>3, <3>1 DEF Claims
    <2> QED
      BY <1>3, <1>4, <2>1 DEF SaidBy
  <1>12. ~ Pending(Tail(left), <<"openvino", 0>>) => r.openvino = t.openvino
    <2>1. CASE probe = <<"openvino", 0>>
      <3>1. t.openvino = {}
        BY <1>2, <2>1
      <3> QED
        BY <1>3, <3>1 DEF Claims
    <2> QED
      BY <1>3, <1>4, <2>1 DEF SaidBy
  <1>13. ~ Pending(Tail(left), <<"vulkan", 0>>) => r.vulkan = t.vulkan
    <2>1. probe # <<"vulkan", 0>>
      BY <1>2
    <2> QED
      BY <1>3, <1>4, <2>1 DEF SaidBy
  <1> QED
    BY <1>7, <1>8, <1>9, <1>10, <1>11, <1>12, <1>13 DEF SaidBy

\* A probe that completes says what there is, and the count names the devices to be probed.
LEMMA CompletedIsSaid ==
  ASSUME NEW left \in Seq(Probes), left # << >>, NEW m \in Machines, NEW r \in Reports,
         Package(Head(left)) \subseteq m.installed,
         NEW s, s = Without(TrueReport(m), r.hidden), Claims(r, s), SaidBy(left, r, s),
         NEW q, q = Completed(Head(left), m, r),
         NEW more \in Seq(Probes),
         more = IF Head(left)[1] = "count" THEN AfterCount(q) ELSE << >>
  PROVE  SaidBy(more \o Tail(left), q, Without(TrueReport(m), q.hidden))
  <1> DEFINE t == Without(TrueReport(m), q.hidden)
             probe == Head(left)
             next == more \o Tail(left)
  <1>1. probe \in Probes /\ Tail(left) \in Seq(Probes)
    BY HeadTailProperties
  <1>2. /\ t.available = s.available /\ t.cpu = s.cpu /\ t.cuda = s.cuda
        /\ t.openvino = s.openvino
        /\ probe[1] \in {"cpu", "count", "cuda"} => t.available /\ t.cpu = m.cpu /\ t.cuda = m.cuda
        /\ probe[1] = "openvino" => t.openvino = m.openvino
        /\ t.torchCuda = IF probe[1] = "torch_cuda" THEN m.torchCuda ELSE s.torchCuda
        /\ t.torchXpu = IF probe[1] = "torch_xpu" THEN m.torchXpu ELSE s.torchXpu
        /\ t.vulkan = IF probe[1] = "vulkan" THEN m.vulkan ELSE s.vulkan
    BY <1>1, SeenByProbe
  <1>3. /\ q.available = (r.available \/ probe[1] \in {"cpu", "count"})
        /\ q.cpu = IF probe[1] = "cpu" THEN m.cpu ELSE r.cpu
        /\ q.cuda = IF probe[1] = "count" THEN [i \in 1..Len(m.cuda) |-> {}]
                     ELSE IF probe[1] = "cuda" /\ probe[2] \in DOMAIN m.cuda
                     THEN [r.cuda EXCEPT ![probe[2]] = m.cuda[probe[2]]] ELSE r.cuda
        /\ q.torchCuda = IF probe[1] = "torch_cuda" THEN m.torchCuda ELSE r.torchCuda
        /\ q.torchXpu = IF probe[1] = "torch_xpu" THEN m.torchXpu ELSE r.torchXpu
        /\ q.openvino = IF probe[1] = "openvino" THEN m.openvino ELSE r.openvino
        /\ q.vulkan = IF probe[1] = "vulkan" THEN m.vulkan ELSE r.vulkan
    BY DEF Completed
  <1>4. r.cuda \in Seq(SUBSET STRING) /\ m.cuda \in Seq(SUBSET STRING) /\ q \in Reports
    BY <1>1, CompletedIsReport DEF Reports, Machines
  <1>5. /\ Len(m.cuda) \in Nat /\ DOMAIN m.cuda = 1..Len(m.cuda)
        /\ \A i \in 1..Len(m.cuda) : m.cuda[i] \in SUBSET STRING
    BY <1>4, LenProperties, ElementOfSeq
  <1>6. SaidBy(left, r, s) /\ r.available \in BOOLEAN /\ t.available \in BOOLEAN
        /\ q.available \in BOOLEAN /\ Claims(q, t)
    <2>1. t \in Reports
      BY <1>1, SeenByProbe
    <2>2. Claims(q, t)
      BY <1>1, CompletedClaims
    <2> HIDE DEF t
    <2> QED
      BY <1>4, <2>1, <2>2 DEF Reports, t
  <1>7. \A p : ~ Pending(next, p) => ~ Pending(more, p) /\ (p = probe \/ ~ Pending(left, p))
    BY <1>1, PendingInTail, PendingInConcat
  <1>8. probe[1] = "count" =>
          /\ Len(q.cuda) = Len(m.cuda)
          /\ \A i \in 1..Len(m.cuda) : Pending(more, <<"cuda", i>>)
    <2> SUFFICES ASSUME probe[1] = "count"
                 PROVE  /\ Len(q.cuda) = Len(m.cuda)
                        /\ \A i \in 1..Len(m.cuda) : Pending(more, <<"cuda", i>>)
      OBVIOUS
    <2>1. q.cuda = [i \in 1..Len(m.cuda) |-> {}]
      BY <1>3
    <2>2. Len(q.cuda) = Len(m.cuda)
      BY <2>1, <1>5, CountedDevices
    <2> QED
      BY <1>4, <2>2, AfterCountHas
  <1> HIDE DEF t, probe, next
  <1>9. ~ Pending(next, <<"cpu", 0>>) => (q.cpu = t.cpu /\ q.available = t.available)
    <2>1. CASE probe[1] = "cpu"
      BY <1>2, <1>3, <1>6, <2>1
    <2>2. CASE probe[1] # "cpu" /\ ~ Pending(next, <<"cpu", 0>>)
      <3>1. ~ Pending(left, <<"cpu", 0>>)
        BY <1>7, <2>2
      <3>2. r.cpu = t.cpu /\ r.available = t.available
        BY <1>2, <1>6, <3>1 DEF SaidBy
      <3>3. q.cpu = t.cpu
        BY <1>3, <2>2, <3>2
      <3>4. q.available = t.available
        BY <1>2, <1>3, <1>6, <3>2
      <3> QED
        BY <3>3, <3>4
    <2> QED
      BY <2>1, <2>2
  <1>10. ~ Pending(next, <<"count", 0>>) => Len(q.cuda) = Len(t.cuda)
    <2>1. CASE probe[1] = "count"
      BY <1>2, <1>8, <2>1
    <2>2. CASE probe[1] # "count" /\ ~ Pending(next, <<"count", 0>>)
      <3>1. ~ Pending(left, <<"count", 0>>)
        BY <1>7, <2>2
      <3>2. Len(r.cuda) = Len(t.cuda)
        BY <1>2, <1>6, <3>1 DEF SaidBy
      <3>3. Len(q.cuda) = Len(r.cuda)
        BY <1>3, <1>4, <1>5, <2>2, ProbedDevice
      <3> QED
        BY <3>2, <3>3
    <2> QED
      BY <2>1, <2>2
  <1>11. ASSUME NEW i \in 1..Len(t.cuda), ~ Pending(next, <<"count", 0>>),
                ~ Pending(next, <<"cuda", i>>)
         PROVE  q.cuda[i] = t.cuda[i]
    <2>1. probe[1] # "count"
      BY <1>2, <1>7, <1>8, <1>11
    <2>2. ~ Pending(left, <<"count", 0>>)
      BY <1>7, <1>11, <2>1
    <2>3. Len(r.cuda) = Len(t.cuda)
      BY <1>2, <1>6, <2>2 DEF SaidBy
    <2>4. CASE probe = <<"cuda", i>>
      <3>1. probe[1] = "cuda" /\ probe[2] = i /\ t.cuda = m.cuda
        BY <1>2, <2>4
      <3>2. q.cuda = [r.cuda EXCEPT ![i] = m.cuda[i]]
        BY <1>3, <1>5, <3>1
      <3>3. q.cuda[i] = m.cuda[i]
        BY <1>4, <1>5, <2>3, <3>1, <3>2, ProbedDevice
      <3> QED
        BY <3>1, <3>3
    <2>5. CASE probe # <<"cuda", i>>
      <3>1. ~ Pending(left, <<"cuda", i>>)
        BY <1>7, <1>11, <2>5
      <3>2. r.cuda[i] = t.cuda[i]
        BY <1>2, <1>6, <2>2, <3>1 DEF SaidBy
      <3>3. CASE q.cuda = r.cuda
        BY <3>2, <3>3
      <3>4. CASE probe[1] = "cuda" /\ probe[2] \in DOMAIN m.cuda
        <4>1. probe[2] # i
          <5>1. probe = <<probe[1], probe[2]>>
            BY <1>1 DEF Probes
          <5> QED
            BY <2>5, <3>4, <5>1
        <4>2. q.cuda[i] = r.cuda[i]
          BY <1>3, <1>4, <1>5, <2>3, <3>4, <4>1, ProbedDevice
        <4> QED
          BY <3>2, <4>2
      <3> QED
        BY <1>3, <2>1, <3>3, <3>4
    <2> QED
      BY <2>4, <2>5
  <1>12. ~ Pending(next, <<"torch_cuda", 0>>) => q.torchCuda = t.torchCuda
    <2>1. CASE probe[1] = "torch_cuda"
      BY <1>2, <1>3, <2>1
    <2>2. CASE probe[1] # "torch_cuda"
      BY <1>2, <1>3, <1>6, <1>7, <2>2 DEF SaidBy
    <2> QED
      BY <2>1, <2>2
  <1>13. ~ Pending(next, <<"torch_xpu", 0>>) => q.torchXpu = t.torchXpu
    <2>1. CASE probe[1] = "torch_xpu"
      BY <1>2, <1>3, <2>1
    <2>2. CASE probe[1] # "torch_xpu"
      BY <1>2, <1>3, <1>6, <1>7, <2>2 DEF SaidBy
    <2> QED
      BY <2>1, <2>2
  <1>14. ~ Pending(next, <<"openvino", 0>>) => q.openvino = t.openvino
    <2>1. CASE probe[1] = "openvino"
      BY <1>2, <1>3, <2>1
    <2>2. CASE probe[1] # "openvino"
      BY <1>2, <1>3, <1>6, <1>7, <2>2 DEF SaidBy
    <2> QED
      BY <2>1, <2>2
  <1>15. ~ Pending(next, <<"vulkan", 0>>) => q.vulkan = t.vulkan
    <2>1. CASE probe[1] = "vulkan"
      BY <1>2, <1>3, <2>1
    <2>2. CASE probe[1] # "vulkan"
      BY <1>2, <1>3, <1>6, <1>7, <2>2 DEF SaidBy
    <2> QED
      BY <2>1, <2>2
  <1>16. SaidBy(next, q, t)
    BY <1>9, <1>10, <1>11, <1>12, <1>13, <1>14, <1>15 DEF SaidBy
  <1> QED
    BY <1>16 DEF t, next

\* A probe that hides a failure says that there is nothing.
LEMMA HiddenIsSaid ==
  ASSUME NEW left \in Seq(Probes), left # << >>, NEW m \in Machines, NEW r \in Reports,
         Head(left)[1] \in Hides,
         NEW s, s = Without(TrueReport(m), r.hidden), Claims(r, s),
         NEW q, q = Without(r, r.hidden \cup {Head(left)[1]}),
         NEW t, t = Without(TrueReport(m), q.hidden)
  PROVE  Claims(q, t) /\ (SaidBy(left, r, s) => SaidBy(Tail(left), q, t))
  <1>1. PICK kind : kind = Head(left)[1]
    OBVIOUS
  <1>2. PICK true : true = TrueReport(m)
    OBVIOUS
  <1>3. /\ kind \in {"torch_cuda", "torch_xpu", "vulkan"} /\ true \in Reports
        /\ r.hidden \subseteq Hides /\ r.hidden \cup {kind} \subseteq Hides
    BY <1>1, <1>2, TrueReportIs DEF Reports, Hides
  <1>4. /\ q.hidden = r.hidden \cup {kind}
        /\ q.available = r.available /\ q.cpu = r.cpu /\ q.cuda = r.cuda
        /\ q.openvino = r.openvino
        /\ q.torchCuda = IF "torch_cuda" \in r.hidden \cup {kind} THEN {} ELSE r.torchCuda
        /\ q.torchXpu = IF "torch_xpu" \in r.hidden \cup {kind} THEN {} ELSE r.torchXpu
        /\ q.vulkan = (r.vulkan /\ "vulkan" \notin r.hidden \cup {kind})
    BY <1>1, <1>3, WithoutIs
  <1>5. /\ s.available = true.available /\ s.cpu = true.cpu /\ s.cuda = true.cuda
        /\ s.openvino = true.openvino
        /\ s.torchCuda = IF "torch_cuda" \in r.hidden THEN {} ELSE true.torchCuda
        /\ s.torchXpu = IF "torch_xpu" \in r.hidden THEN {} ELSE true.torchXpu
        /\ s.vulkan = (true.vulkan /\ "vulkan" \notin r.hidden)
    BY <1>2, <1>3, WithoutIs
  <1>6. /\ t.available = true.available /\ t.cpu = true.cpu /\ t.cuda = true.cuda
        /\ t.openvino = true.openvino
        /\ t.torchCuda = IF "torch_cuda" \in r.hidden \cup {kind} THEN {} ELSE true.torchCuda
        /\ t.torchXpu = IF "torch_xpu" \in r.hidden \cup {kind} THEN {} ELSE true.torchXpu
        /\ t.vulkan = (true.vulkan /\ "vulkan" \notin r.hidden \cup {kind})
    <2>1. t = Without(true, r.hidden \cup {kind})
      BY <1>2, <1>4
    <2> QED
      BY <1>3, <2>1, WithoutIs
  <1>7. /\ q.torchCuda = t.torchCuda \/ (q.torchCuda = r.torchCuda /\ t.torchCuda = s.torchCuda)
        /\ q.torchXpu = t.torchXpu \/ (q.torchXpu = r.torchXpu /\ t.torchXpu = s.torchXpu)
        /\ (q.vulkan = FALSE /\ t.vulkan = FALSE) \/ (q.vulkan = r.vulkan /\ t.vulkan = s.vulkan)
    <2>1. q.torchCuda = t.torchCuda \/ (q.torchCuda = r.torchCuda /\ t.torchCuda = s.torchCuda)
      BY <1>4, <1>5, <1>6
    <2>2. q.torchXpu = t.torchXpu \/ (q.torchXpu = r.torchXpu /\ t.torchXpu = s.torchXpu)
      BY <1>4, <1>5, <1>6
    <2>3. (q.vulkan = FALSE /\ t.vulkan = FALSE) \/ (q.vulkan = r.vulkan /\ t.vulkan = s.vulkan)
      <3>1. CASE "vulkan" \in r.hidden \cup {kind}
        BY <1>4, <1>6, <3>1
      <3>2. CASE "vulkan" \notin r.hidden \cup {kind}
        <4>1. r.vulkan \in BOOLEAN /\ true.vulkan \in BOOLEAN /\ "vulkan" \notin r.hidden
          BY <1>3, <3>2 DEF Reports
        <4>2. q.vulkan = r.vulkan
          BY <1>4, <3>2, <4>1
        <4>3. t.vulkan = true.vulkan
          BY <1>6, <3>2, <4>1
        <4>4. s.vulkan = true.vulkan
          BY <1>5, <4>1
        <4> QED
          BY <4>2, <4>3, <4>4
      <3> QED
        BY <3>1, <3>2
    <2> QED
      BY <2>1, <2>2, <2>3
  <1>8. Claims(q, t)
    <2>1. /\ r.available => s.available
          /\ r.cpu \subseteq s.cpu /\ Len(r.cuda) <= Len(s.cuda)
          /\ \A i \in 1..Len(r.cuda) : r.cuda[i] \subseteq s.cuda[i]
          /\ r.openvino \subseteq s.openvino
      BY DEF Claims
    <2>2. r.torchCuda \subseteq s.torchCuda /\ r.torchXpu \subseteq s.torchXpu
      BY DEF Claims
    <2>3. r.vulkan => s.vulkan
      BY DEF Claims
    <2>4. /\ q.available => t.available
          /\ q.cpu \subseteq t.cpu /\ Len(q.cuda) <= Len(t.cuda)
          /\ \A i \in 1..Len(q.cuda) : q.cuda[i] \subseteq t.cuda[i]
          /\ q.openvino \subseteq t.openvino
      <3>1. /\ q.available = r.available /\ q.cpu = r.cpu /\ q.cuda = r.cuda
            /\ q.openvino = r.openvino /\ t.available = s.available /\ t.cpu = s.cpu
            /\ t.cuda = s.cuda /\ t.openvino = s.openvino
        BY <1>4, <1>5, <1>6
      <3> QED
        BY <2>1, <3>1, Zenon
    <2>5. q.torchCuda \subseteq t.torchCuda /\ q.torchXpu \subseteq t.torchXpu
      BY <1>7, <2>2
    <2>6. q.vulkan => t.vulkan
      BY <1>7, <2>3
    <2> QED
      BY <2>4, <2>5, <2>6 DEF Claims
  <1>9. ASSUME SaidBy(left, r, s)  PROVE SaidBy(Tail(left), q, t)
    <2>1. \A p : ~ Pending(Tail(left), p) => (p = Head(left) \/ ~ Pending(left, p))
      BY PendingInTail
    <2>2. \A p : p[1] # kind /\ ~ Pending(Tail(left), p) => ~ Pending(left, p)
      BY <1>1, <2>1
    <2>3. \A i : /\ <<"cpu", i>>[1] # kind /\ <<"count", i>>[1] # kind
                  /\ <<"cuda", i>>[1] # kind /\ <<"openvino", i>>[1] # kind
      BY <1>3
    <2>4. /\ ~ Pending(Tail(left), <<"cpu", 0>>) => ~ Pending(left, <<"cpu", 0>>)
          /\ ~ Pending(Tail(left), <<"count", 0>>) => ~ Pending(left, <<"count", 0>>)
          /\ ~ Pending(Tail(left), <<"openvino", 0>>) => ~ Pending(left, <<"openvino", 0>>)
          /\ \A i : ~ Pending(Tail(left), <<"cuda", i>>) => ~ Pending(left, <<"cuda", i>>)
      BY <2>2, <2>3
    <2>5. ASSUME ~ Pending(Tail(left), <<"torch_cuda", 0>>)  PROVE q.torchCuda = t.torchCuda
      <3>1. CASE kind = "torch_cuda"
        BY <1>4, <1>6, <3>1
      <3>2. CASE kind # "torch_cuda"
        <4>1. ~ Pending(left, <<"torch_cuda", 0>>)
          BY <2>2, <2>5, <3>2
        <4> QED
          BY <1>7, <1>9, <4>1 DEF SaidBy
      <3> QED
        BY <3>1, <3>2
    <2>6. ASSUME ~ Pending(Tail(left), <<"torch_xpu", 0>>)  PROVE q.torchXpu = t.torchXpu
      <3>1. CASE kind = "torch_xpu"
        BY <1>4, <1>6, <3>1
      <3>2. CASE kind # "torch_xpu"
        <4>1. ~ Pending(left, <<"torch_xpu", 0>>)
          BY <2>2, <2>6, <3>2
        <4> QED
          BY <1>7, <1>9, <4>1 DEF SaidBy
      <3> QED
        BY <3>1, <3>2
    <2>7. ASSUME ~ Pending(Tail(left), <<"vulkan", 0>>)  PROVE q.vulkan = t.vulkan
      <3>1. CASE kind = "vulkan"
        BY <1>4, <1>6, <3>1
      <3>2. CASE kind # "vulkan"
        <4>1. ~ Pending(left, <<"vulkan", 0>>)
          BY <2>2, <2>7, <3>2
        <4>2. r.vulkan = s.vulkan
          BY <1>9, <4>1 DEF SaidBy
        <4> QED
          BY <1>7, <4>2, Zenon
      <3> QED
        BY <3>1, <3>2
    <2>8. /\ ~ Pending(left, <<"cpu", 0>>) => (r.cpu = s.cpu /\ r.available = s.available)
          /\ ~ Pending(left, <<"count", 0>>) => Len(r.cuda) = Len(s.cuda)
          /\ \A i \in 1..Len(s.cuda) :
               ~ Pending(left, <<"count", 0>>) /\ ~ Pending(left, <<"cuda", i>>)
                 => r.cuda[i] = s.cuda[i]
          /\ ~ Pending(left, <<"openvino", 0>>) => r.openvino = s.openvino
      BY <1>9 DEF SaidBy
    <2>9. /\ q.available = r.available /\ q.cpu = r.cpu /\ q.cuda = r.cuda
          /\ q.openvino = r.openvino /\ t.available = s.available /\ t.cpu = s.cpu
          /\ t.cuda = s.cuda /\ t.openvino = s.openvino
      BY <1>4, <1>5, <1>6
    <2>10. /\ ~ Pending(Tail(left), <<"cpu", 0>>) => (q.cpu = t.cpu /\ q.available = t.available)
           /\ ~ Pending(Tail(left), <<"count", 0>>) => Len(q.cuda) = Len(t.cuda)
           /\ \A i \in 1..Len(t.cuda) :
                ~ Pending(Tail(left), <<"count", 0>>) /\ ~ Pending(Tail(left), <<"cuda", i>>)
                  => q.cuda[i] = t.cuda[i]
           /\ ~ Pending(Tail(left), <<"openvino", 0>>) => q.openvino = t.openvino
      BY <2>4, <2>8, <2>9
    <2> QED
      BY <2>5, <2>6, <2>7, <2>10 DEF SaidBy
  <1> QED
    BY <1>8, <1>9

----------------------------------------------------------------------------
(* The choice. *)

\* Every non-empty set of numbers has a least one.
LEMMA LeastIsIn ==
  ASSUME NEW S, S \subseteq Nat, S # {}
  PROVE  Least(S) \in S
  <1> DEFINE R == {ss \in Nat \X Nat : ss[1] < ss[2]}
  <1>1. IsWellFoundedOn(R, Nat)
    BY NatLessThanWellFounded DEF OpToRel
  <1>2. PICK x \in S : \A y \in S : ~ (<<y, x>> \in R)
    BY <1>1, WFMin
  <1>3. x \in Nat /\ \A y \in S : y \in Nat
    OBVIOUS
  <1>4. \A y \in S : ~ (y < x)
    BY <1>2, <1>3
  <1>5. \A y \in S : x <= y
    BY <1>3, <1>4
  <1> QED
    BY <1>5 DEF Least

LEMMA FirstOfIsIn ==
  ASSUME NEW order, NEW S, Len(order) \in Nat, Among(order, S) # {}
  PROVE  /\ FirstOf(order, S) \in S
         /\ \E i \in 1..Len(order) : FirstOf(order, S) = order[i]
  <1>1. Among(order, S) \subseteq Nat
    BY DEF Among
  <1>2. Least(Among(order, S)) \in Among(order, S)
    BY <1>1, LeastIsIn
  <1> QED
    BY <1>2 DEF Among, FirstOf

LEMMA ComputeTypeIsSupported ==
  ASSUME NEW requested, NEW supported, NEW device
  PROVE  LET k == ChooseComputeType(requested, supported, device) IN
         k # "none" => k \in supported /\ (requested # "auto" => k = requested)
  <1> DEFINE wanted == IF requested = "auto" THEN Preference(device) ELSE <<requested>>
             k == ChooseComputeType(requested, supported, device)
  <1> SUFFICES ASSUME k # "none"  PROVE k \in supported /\ (requested # "auto" => k = requested)
    OBVIOUS
  <1>1. Len(wanted) \in Nat
    BY DEF Preference
  <1>2. Among(wanted, supported) # {} /\ k = FirstOf(wanted, supported)
    BY DEF ChooseComputeType
  <1>3. k \in supported /\ \E i \in 1..Len(wanted) : k = wanted[i]
    <2> HIDE DEF wanted, k
    <2> QED
      BY <1>1, <1>2, FirstOfIsIn
  <1>4. requested # "auto" => k = requested
    <2> SUFFICES ASSUME requested # "auto"  PROVE k = requested
      OBVIOUS
    <2>1. wanted = <<requested>>
      OBVIOUS
    <2> HIDE DEF wanted, k
    <2>2. Len(wanted) = 1 /\ wanted[1] = requested
      BY <2>1
    <2>3. PICK i \in 1..Len(wanted) : k = wanted[i]
      BY <1>3
    <2>4. i = 1
      BY <2>2, <2>3
    <2> QED
      BY <2>2, <2>3, <2>4
  <1> QED
    BY <1>3, <1>4

\* What faster-whisper is told to use is usable by the report, and as it was asked for.
Usable(a, request, r) ==
  /\ a.backend = "faster-whisper"
  /\ \/ a.device = "cpu" /\ a.index = 1 /\ a.compute \in r.cpu
     \/ a.device = "cuda" /\ a.index \in UsableCuda(r) /\ a.compute \in r.cuda[a.index]
  /\ request.device # "auto" => a.device = request.device /\ a.index = request.index
  /\ request.compute # "auto" => a.compute = request.compute

LEMMA SelectionIsUsable ==
  ASSUME NEW request, NEW r, r.cuda \in Seq(SUBSET STRING),
         request.device \in {"auto", "cpu", "cuda"}, request.device = "cpu" => request.index = 1
  PROVE  LET a == SelectFasterWhisperDevice(request, r) IN a = Refused \/ Usable(a, request, r)
  <1> DEFINE a == SelectFasterWhisperDevice(request, r)
             cuda == UsableCuda(r)
             onCuda(i) == ChooseComputeType(request.compute, r.cuda[i], "cuda")
             onCpu == ChooseComputeType(request.compute, r.cpu, "cpu")
  <1>1. cuda \subseteq Nat
    BY LenProperties DEF UsableCuda
  <1>2. cuda # {} => Least(cuda) \in cuda
    BY <1>1, LeastIsIn
  <1>3. \A i : onCuda(i) # "none" =>
          onCuda(i) \in r.cuda[i] /\ (request.compute # "auto" => onCuda(i) = request.compute)
    BY ComputeTypeIsSupported
  <1>4. onCpu # "none" =>
          onCpu \in r.cpu /\ (request.compute # "auto" => onCpu = request.compute)
    BY ComputeTypeIsSupported
  <1>5. \/ a = Refused
        \/ request.device = "auto" /\ cuda # {}
             /\ a = FasterWhisper("cuda", Least(cuda), onCuda(Least(cuda)))
        \/ request.device \in {"auto", "cpu"} /\ a = FasterWhisper("cpu", 1, onCpu)
        \/ request.device = "cuda" /\ request.index \in cuda
             /\ a = FasterWhisper("cuda", request.index, onCuda(request.index))
    BY DEF SelectFasterWhisperDevice
  <1> HIDE DEF a, cuda, onCuda, onCpu
  <1>6. \A d, i, k : FasterWhisper(d, i, k) = Refused
                     \/ (k # "none" /\ FasterWhisper(d, i, k) =
                           [backend |-> "faster-whisper", device |-> d, index |-> i, compute |-> k])
    BY DEF FasterWhisper
  <1>7. CASE request.device = "auto" /\ cuda # {}
             /\ a = FasterWhisper("cuda", Least(cuda), onCuda(Least(cuda)))
    <2>1. CASE a # Refused
      <3>1. onCuda(Least(cuda)) # "none" /\ a = [backend |-> "faster-whisper", device |-> "cuda",
                 index |-> Least(cuda), compute |-> onCuda(Least(cuda))]
        BY <1>6, <1>7, <2>1
      <3>2. /\ a.backend = "faster-whisper" /\ a.device = "cuda" /\ a.index = Least(cuda)
            /\ a.compute = onCuda(Least(cuda))
        BY <3>1
      <3>3. Usable(a, request, r)
        BY <1>2, <1>3, <1>7, <3>1, <3>2 DEF Usable, cuda
      <3> QED
        BY <3>3 DEF a
    <2> QED
      BY <2>1 DEF a
  <1>8. CASE request.device \in {"auto", "cpu"} /\ a = FasterWhisper("cpu", 1, onCpu)
    <2>1. CASE a # Refused
      <3>1. onCpu # "none" /\ a = [backend |-> "faster-whisper", device |-> "cpu",
                 index |-> 1, compute |-> onCpu]
        BY <1>6, <1>8, <2>1
      <3>2. /\ a.backend = "faster-whisper" /\ a.device = "cpu" /\ a.index = 1
            /\ a.compute = onCpu
        BY <3>1
      <3>3. Usable(a, request, r)
        BY <1>4, <1>8, <3>1, <3>2 DEF Usable
      <3> QED
        BY <3>3 DEF a
    <2> QED
      BY <2>1 DEF a
  <1>9. CASE request.device = "cuda" /\ request.index \in cuda
             /\ a = FasterWhisper("cuda", request.index, onCuda(request.index))
    <2>1. CASE a # Refused
      <3>1. onCuda(request.index) # "none" /\ a = [backend |-> "faster-whisper",
                 device |-> "cuda", index |-> request.index, compute |-> onCuda(request.index)]
        BY <1>6, <1>9, <2>1
      <3>2. /\ a.backend = "faster-whisper" /\ a.device = "cuda" /\ a.index = request.index
            /\ a.compute = onCuda(request.index)
        BY <3>1
      <3>3. Usable(a, request, r)
        BY <1>3, <1>9, <3>1, <3>2 DEF Usable, cuda
      <3> QED
        BY <3>3 DEF a
    <2> QED
      BY <2>1 DEF a
  <1> QED
    BY <1>5, <1>7, <1>8, <1>9 DEF a

\* Without the libraries no device is usable; with them the report is as it was.
LEMMA LibrariesKeepClaims ==
  ASSUME NEW r \in Reports, NEW t \in Reports, Claims(r, t), NEW libraries
  PROVE  LET a == ApplyCudaLibraryStatus(r, libraries)
             b == ApplyCudaLibraryStatus(t, libraries)
         IN /\ a.cuda \in Seq(SUBSET STRING)
            /\ a.cpu \subseteq b.cpu /\ a.openvino \subseteq b.openvino
            /\ a.vulkan => b.vulkan
            /\ UsableCuda(a) \subseteq UsableCuda(b)
            /\ \A i \in UsableCuda(a) : a.cuda[i] \subseteq b.cuda[i]
  <1>1. /\ r.cuda \in Seq(SUBSET STRING) /\ t.cuda \in Seq(SUBSET STRING)
        /\ DOMAIN r.cuda = 1..Len(r.cuda) /\ DOMAIN t.cuda = 1..Len(t.cuda)
        /\ Len(r.cuda) \in Nat /\ Len(t.cuda) \in Nat
    <2>1. r.cuda \in Seq(SUBSET STRING) /\ t.cuda \in Seq(SUBSET STRING)
      BY DEF Reports
    <2> QED
      BY <2>1, LenProperties
  <1>2. CASE libraries
    <2>1. ApplyCudaLibraryStatus(r, libraries) = r /\ ApplyCudaLibraryStatus(t, libraries) = t
      BY <1>2 DEF ApplyCudaLibraryStatus
    <2>2. \A i \in DOMAIN r.cuda : i \in DOMAIN t.cuda /\ r.cuda[i] \subseteq t.cuda[i]
      BY <1>1 DEF Claims
    <2>3. UsableCuda(r) \subseteq UsableCuda(t)
      BY <2>2 DEF UsableCuda
    <2> QED
      BY <1>1, <2>1, <2>2, <2>3 DEF Claims, UsableCuda
  <1>3. CASE ~ libraries
    <2>1. PICK a : a = ApplyCudaLibraryStatus(r, libraries)
      OBVIOUS
    <2>2. PICK b : b = ApplyCudaLibraryStatus(t, libraries)
      OBVIOUS
    <2>3. /\ a.cuda = [i \in 1..Len(r.cuda) |-> {}]
          /\ a.cpu = r.cpu /\ a.openvino = r.openvino /\ a.vulkan = r.vulkan
      <3>1. a = [r EXCEPT !.cuda = [i \in DOMAIN r.cuda |-> {}]]
        BY <1>3, <2>1 DEF ApplyCudaLibraryStatus
      <3> QED
        BY <1>1, <3>1 DEF Reports
    <2>4. b.cpu = t.cpu /\ b.openvino = t.openvino /\ b.vulkan = t.vulkan
      <3>1. b = [t EXCEPT !.cuda = [i \in DOMAIN t.cuda |-> {}]]
        BY <1>3, <2>2 DEF ApplyCudaLibraryStatus
      <3> QED
        BY <3>1 DEF Reports
    <2>5. a.cuda \in Seq(SUBSET STRING)
      BY <1>1, <2>3, CountedDevices
    <2>6. UsableCuda(a) = {}
      BY <2>3 DEF UsableCuda
    <2> QED
      BY <2>1, <2>2, <2>3, <2>4, <2>5, <2>6 DEF Claims
  <1> QED
    BY <1>2, <1>3

\* What works, of the backends for speech and for speakers.
AsrWorks(a, t, native) ==
  LET b == ApplyCudaLibraryStatus(t, around.libraries) IN
  /\ a.backend = "faster-whisper" =>
       \/ a = PlainCpu
       \/ a.device = "cpu" /\ a.compute \in b.cpu
       \/ a.device = "cuda" /\ a.index \in UsableCuda(b) /\ a.compute \in b.cuda[a.index]
  /\ a.backend = "whisper-cpp" =>
       /\ a.device \in native
       /\ IF a.device = "vulkan" THEN b.vulkan ELSE "GPU" \in b.openvino

LEMMA UsableWorks ==
  ASSUME NEW r \in Reports, NEW t \in Reports, Claims(r, t), NEW request, NEW native, NEW a,
         Usable(a, request, ApplyCudaLibraryStatus(r, around.libraries))
  PROVE  AsrWorks(a, t, native)
  <1>1. PICK p : p = ApplyCudaLibraryStatus(r, around.libraries)
    OBVIOUS
  <1>2. PICK b : b = ApplyCudaLibraryStatus(t, around.libraries)
    OBVIOUS
  <1>3. /\ p.cpu \subseteq b.cpu /\ UsableCuda(p) \subseteq UsableCuda(b)
        /\ \A i \in UsableCuda(p) : p.cuda[i] \subseteq b.cuda[i]
    BY <1>1, <1>2, LibrariesKeepClaims
  <1>4. /\ a.backend = "faster-whisper"
        /\ \/ a.device = "cpu" /\ a.compute \in p.cpu
           \/ a.device = "cuda" /\ a.index \in UsableCuda(p) /\ a.compute \in p.cuda[a.index]
    BY <1>1 DEF Usable
  <1>5. \/ a.device = "cpu" /\ a.compute \in b.cpu
        \/ a.device = "cuda" /\ a.index \in UsableCuda(b) /\ a.compute \in b.cuda[a.index]
    BY <1>3, <1>4
  <1> QED
    BY <1>2, <1>4, <1>5 DEF AsrWorks

LEMMA RefusedWorks ==
  ASSUME NEW t, NEW native
  PROVE  AsrWorks(Refused, t, native)
  BY DEF AsrWorks, Refused

LEMMA AutoAsrWorks ==
  ASSUME NEW r \in Reports, NEW t \in Reports, Claims(r, t), NEW native
  PROVE  AsrWorks(AutoAsr(ApplyCudaLibraryStatus(r, around.libraries), native), t, native)
  <1>1. PICK p : p = ApplyCudaLibraryStatus(r, around.libraries)
    OBVIOUS
  <1>2. PICK b : b = ApplyCudaLibraryStatus(t, around.libraries)
    OBVIOUS
  <1>3. /\ p.cuda \in Seq(SUBSET STRING) /\ p.openvino \subseteq b.openvino
        /\ p.vulkan => b.vulkan
    BY <1>1, <1>2, LibrariesKeepClaims
  <1> DEFINE variants == {v \in native : IF v = "vulkan" THEN p.vulkan ELSE "GPU" \in p.openvino}
             sel == SelectFasterWhisperDevice(Automatic, p)
  <1>4. \/ AutoAsr(p, native) = PlainCpu
        \/ AutoAsr(p, native) = sel /\ sel # Refused
        \/ /\ Among(VariantOrder, variants) # {}
           /\ AutoAsr(p, native) = WhisperCpp(FirstOf(VariantOrder, variants))
    BY DEF AutoAsr
  <1>5. AsrWorks(PlainCpu, t, native)
    BY DEF AsrWorks, PlainCpu
  <1>6. sel # Refused => AsrWorks(sel, t, native)
    <2>1. Automatic.device \in {"auto", "cpu", "cuda"} /\ Automatic.device # "cpu"
      BY DEF Automatic
    <2>2. sel = Refused \/ Usable(sel, Automatic, p)
      BY <1>3, <2>1, SelectionIsUsable
    <2> HIDE DEF sel
    <2> QED
      BY <1>1, <2>2, UsableWorks
  <1>7. Among(VariantOrder, variants) # {} =>
          AsrWorks(WhisperCpp(FirstOf(VariantOrder, variants)), t, native)
    <2> SUFFICES ASSUME Among(VariantOrder, variants) # {}
                 PROVE  AsrWorks(WhisperCpp(FirstOf(VariantOrder, variants)), t, native)
      OBVIOUS
    <2>1. Len(VariantOrder) \in Nat
      BY DEF VariantOrder
    <2>2. FirstOf(VariantOrder, variants) \in variants
      <3> HIDE DEF variants
      <3> QED
        BY <2>1, FirstOfIsIn
    <2>3. PICK v : v = FirstOf(VariantOrder, variants)
      OBVIOUS
    <2>4. v \in native /\ IF v = "vulkan" THEN p.vulkan ELSE "GPU" \in p.openvino
      BY <2>2, <2>3
    <2>5. PICK w : w = WhisperCpp(v)
      OBVIOUS
    <2>6. w.backend = "whisper-cpp" /\ w.device = v
      BY <2>5 DEF WhisperCpp
    <2>7. AsrWorks(w, t, native)
      BY <1>2, <1>3, <2>4, <2>6 DEF AsrWorks
    <2> QED
      BY <2>3, <2>5, <2>7
  <1> HIDE DEF variants, sel
  <1>8. AsrWorks(AutoAsr(p, native), t, native)
    BY <1>4, <1>5, <1>6, <1>7
  <1> QED
    BY <1>1, <1>8

LEMMA AutoDiarizationWorks ==
  ASSUME NEW r \in Reports, NEW t \in Reports, Claims(r, t)
  PROVE  LET d == AutoDiarization(r) IN
         /\ d[1] = "cuda" => d[2] \in t.torchCuda
         /\ d[1] = "xpu" => d[2] \in t.torchXpu
  <1>1. r.torchCuda \subseteq Nat /\ r.torchXpu \subseteq Nat
    BY DEF Reports
  <1>2. r.torchCuda \subseteq t.torchCuda /\ r.torchXpu \subseteq t.torchXpu
    BY DEF Claims
  <1>3. /\ r.torchCuda # {} => Least(r.torchCuda) \in t.torchCuda
        /\ r.torchXpu # {} => Least(r.torchXpu) \in t.torchXpu
    BY <1>1, <1>2, LeastIsIn
  <1> QED
    BY <1>3 DEF AutoDiarization

----------------------------------------------------------------------------
(* The invariant. *)

LEMMA OneCaller ==
  ASSUME DevicesInv, NEW c \in Callers, NEW d,
         d = Idle \/ (d \in Detections /\ Detecting(d, here)),
         Moves(c, d), here' = here, cache' = NoCache \/ Credible(cache', here)
  PROVE  DevicesInv'
  <1>1. caller' \in [Callers -> {Idle} \cup Detections]
    BY DEF DevicesInv, Moves
  <1>2. \A x \in Callers : caller'[x] = IF x = c THEN d ELSE caller[x]
    BY DEF DevicesInv, Moves
  <1>3. \A x \in Callers : caller'[x] = Idle \/ Detecting(caller'[x], here)
    BY <1>2, Zenon DEF DevicesInv
  <1> QED
    BY <1>1, <1>3 DEF DevicesInv

\* A caller that is at something has a detection.
LEMMA CallerAtWork ==
  ASSUME DevicesInv, NEW c \in Callers, caller[c] # Idle
  PROVE  /\ caller[c] \in Detections /\ Detecting(caller[c], here)
         /\ here \in 1..Len(Machine) /\ here \in Nat
  BY MachineHere DEF DevicesInv

LEMMA NotIdle ==
  ASSUME NEW d, d.pc # "idle"
  PROVE  d # Idle
  BY DEF Idle

LEMMA FieldsOfDetections ==
  ASSUME NEW d \in Detections
  PROVE  /\ d.pc \in {"loading", "probing", "selecting"} /\ d.print \in Nat
         /\ d.left \in Seq(Probes) /\ d.request \in Asked \cup {Automatic}
         /\ d.report \in Reports /\ d.failed \in SUBSET Probes
         /\ d.how \in {"fresh", "resolved", "cached"} /\ d.steady \in BOOLEAN
  BY DEF Detections

LEMMA EmptyClaims ==
  ASSUME NEW t \in Reports
  PROVE  EmptyReport \in Reports /\ EmptyReport.hidden = {} /\ Claims(EmptyReport, t)
  <1>1. << >> \in Seq(SUBSET STRING) /\ Len(<< >>) = 0
    BY EmptySeq
  <1>2. EmptyReport \in Reports
    BY <1>1 DEF EmptyReport, Reports
  <1>3. t.cuda \in Seq(SUBSET STRING)
    BY DEF Reports
  <1>4. Len(t.cuda) \in Nat
    BY <1>3, LenProperties
  <1>5. Claims(EmptyReport, t)
    BY <1>1, <1>4 DEF EmptyReport, Claims
  <1> QED
    BY <1>2, <1>5 DEF EmptyReport

LEMMA ProbeLists ==
  /\ RuntimeProbes \in Seq(Probes) /\ Ctranslate2Probes \in Seq(Probes)
  /\ \A t, r : SaidBy(RuntimeProbes, r, t)
  <1>1. RuntimeProbes \in Seq(Probes)
    BY DEF RuntimeProbes, Probes
  <1>2. Ctranslate2Probes \in Seq(Probes)
    BY DEF Ctranslate2Probes, Probes
  <1>3. /\ Len(RuntimeProbes) = 7
        /\ RuntimeProbes[1] = <<"cpu", 0>> /\ RuntimeProbes[2] = <<"count", 0>>
        /\ RuntimeProbes[3] = <<"torch_cuda", 0>> /\ RuntimeProbes[4] = <<"torch_xpu", 0>>
        /\ RuntimeProbes[5] = <<"openvino", 0>> /\ RuntimeProbes[7] = <<"vulkan", 0>>
    BY DEF RuntimeProbes
  <1>4. \A i \in 1..7 : Pending(RuntimeProbes, RuntimeProbes[i])
    BY <1>3 DEF Pending
  <1>5. /\ Pending(RuntimeProbes, <<"cpu", 0>>) /\ Pending(RuntimeProbes, <<"count", 0>>)
        /\ Pending(RuntimeProbes, <<"torch_cuda", 0>>)
        /\ Pending(RuntimeProbes, <<"torch_xpu", 0>>)
        /\ Pending(RuntimeProbes, <<"openvino", 0>>) /\ Pending(RuntimeProbes, <<"vulkan", 0>>)
    <2>1. 1 \in 1..7 /\ 2 \in 1..7 /\ 3 \in 1..7 /\ 4 \in 1..7 /\ 5 \in 1..7 /\ 7 \in 1..7
      OBVIOUS
    <2> QED
      BY <1>3, <1>4, <2>1
  <1>6. \A t, r : SaidBy(RuntimeProbes, r, t)
    BY <1>5 DEF SaidBy
  <1> QED
    BY <1>1, <1>2, <1>6

LEMMA Begins ==
  ASSUME DevicesInv, NEW c \in Callers, NEW how, NEW pc, NEW probes, NEW request,
         \/ how = "fresh" /\ pc \in {"loading", "probing"} /\ probes = RuntimeProbes
              /\ request = Automatic
         \/ how = "resolved" /\ pc = "probing" /\ probes = Ctranslate2Probes
              /\ request \in Asked,
         Begin(c, how, pc, probes, request), here' = here, cache' \in {cache, NoCache}
  PROVE  DevicesInv'
  <1> DEFINE d == [pc |-> pc, print |-> here, left |-> probes, request |-> request,
                   report |-> EmptyReport, failed |-> {}, how |-> how, steady |-> TRUE]
             t == Without(TrueReport(Machine[here]), EmptyReport.hidden)
  <1>1. here \in 1..Len(Machine) /\ here \in Nat /\ Machine[here] \in Machines
    BY MachineHere DEF DevicesInv
  <1>2. t \in Reports
    <2>1. TrueReport(Machine[here]) \in Reports /\ EmptyReport.hidden \subseteq Hides
      BY <1>1, TrueReportIs DEF EmptyReport
    <2> QED
      BY <2>1, WithoutIs
  <1>3. EmptyReport \in Reports /\ Claims(EmptyReport, t)
    BY <1>2, EmptyClaims
  <1>4. \A a \in {"loading", "probing", "selecting"}, b \in Nat, l \in Seq(Probes),
           q \in Asked \cup {Automatic}, r \in Reports, f \in SUBSET Probes,
           h \in {"fresh", "resolved", "cached"}, s \in BOOLEAN :
           [pc |-> a, print |-> b, left |-> l, request |-> q, report |-> r, failed |-> f,
            how |-> h, steady |-> s] \in Detections
    BY DEF Detections
  <1>5. d \in Detections
    <2>1. pc \in {"loading", "probing", "selecting"} /\ how \in {"fresh", "resolved", "cached"}
          /\ request \in Asked \cup {Automatic} /\ {} \in SUBSET Probes /\ TRUE \in BOOLEAN
      OBVIOUS
    <2>2. probes \in Seq(Probes)
      BY ProbeLists
    <2> HIDE DEF t
    <2> QED
      BY <1>1, <1>3, <1>4, <2>1, <2>2, Zenon
  <1>6. how = "fresh" => SaidBy(probes, EmptyReport, t)
    BY ProbeLists
  <1>7. Detecting(d, here)
    <2>1. Honest(d, TrueReport(Machine[here]))
      <3>1. d.report = EmptyReport /\ d.left = probes /\ d.how = how /\ d.how # "cached"
        OBVIOUS
      <3> HIDE DEF d
      <3> QED
        BY <1>3, <1>6, <3>1 DEF Honest
    <2> QED
      BY <1>1, <2>1 DEF Detecting
  <1>8. Moves(c, d)
    BY DEF Begin
  <1>9. cache' = NoCache \/ Credible(cache', here)
    BY DEF DevicesInv
  <1> HIDE DEF d
  <1> QED
    BY <1>5, <1>7, <1>8, <1>9, OneCaller

LEMMA LoadCacheStays ==
  ASSUME DevicesInv, NEW c \in Callers, LoadCache(c)
  PROVE  DevicesInv'
  <1>1. PICK d : d = caller[c]
    OBVIOUS
  <1>2. /\ d \in Detections /\ Detecting(d, here) /\ here \in 1..Len(Machine) /\ here \in Nat
        /\ d.pc = "loading"
    BY <1>1, NotIdle, CallerAtWork DEF LoadCache
  <1>3. /\ d.print \in Nat /\ d.left \in Seq(Probes) /\ d.request \in Asked \cup {Automatic}
        /\ d.report \in Reports /\ d.failed \in SUBSET Probes /\ d.steady \in BOOLEAN
    BY <1>2, FieldsOfDetections
  <1>4. d.how = "fresh" /\ d.request = Automatic
    BY <1>2 DEF Detecting
  <1>5. here' = here /\ cache' = cache /\ (cache = NoCache \/ Credible(cache, here))
    BY DEF LoadCache, DevicesInv
  <1>6. CASE LoadProbeCache(d.print) = NoCache
    <2>1. PICK e : e = [d EXCEPT !.pc = "probing"]
      OBVIOUS
    <2>2. e \in Detections /\ e.pc = "probing" /\ e.print = d.print /\ e.left = d.left
          /\ e.request = d.request /\ e.report = d.report /\ e.failed = d.failed
          /\ e.how = d.how /\ e.steady = d.steady
      BY <1>2, <2>1 DEF Detections
    <2>3. Detecting(e, here)
      BY <1>2, <1>4, <2>2 DEF Detecting, Honest
    <2>4. Moves(c, e)
      BY <1>1, <1>6, <2>1 DEF LoadCache
    <2> QED
      BY <1>5, <2>2, <2>3, <2>4, OneCaller
  <1>7. CASE LoadProbeCache(d.print) # NoCache
    <2>1. LoadProbeCache(d.print) = cache /\ cache.print = d.print /\ cache.failed = {}
          /\ cache # NoCache
      BY <1>7 DEF LoadProbeCache, Cacheable
    <2>2. Credible(cache, here)
      BY <1>5, <2>1
    <2>3. cache.report \in Reports /\ cache.failed \in SUBSET Probes
      BY <2>2 DEF Credible, CacheFiles
    <2>4. PICK e1 : e1 = [d EXCEPT !.pc = "selecting"]
      OBVIOUS
    <2>5. PICK e2 : e2 = [e1 EXCEPT !.how = "cached"]
      OBVIOUS
    <2>6. PICK e3 : e3 = [e2 EXCEPT !.report = cache.report]
      OBVIOUS
    <2>7. PICK e : e = [e3 EXCEPT !.failed = cache.failed]
      OBVIOUS
    <2>8. e1 \in Detections /\ e1.pc = "selecting" /\ e1.print = d.print /\ e1.left = d.left
          /\ e1.request = d.request /\ e1.steady = d.steady
      BY <1>2, <2>4 DEF Detections
    <2>9. e2 \in Detections /\ e2.pc = "selecting" /\ e2.print = d.print /\ e2.left = d.left
          /\ e2.request = d.request /\ e2.steady = d.steady /\ e2.how = "cached"
      BY <2>8, <2>5 DEF Detections
    <2>10. e3 \in Detections /\ e3.pc = "selecting" /\ e3.print = d.print /\ e3.left = d.left
          /\ e3.request = d.request /\ e3.steady = d.steady /\ e3.how = "cached"
          /\ e3.report = cache.report
      BY <2>9, <2>6, <2>3 DEF Detections
    <2>11. e \in Detections /\ e.pc = "selecting" /\ e.print = d.print /\ e.left = d.left
          /\ e.request = d.request /\ e.steady = d.steady /\ e.how = "cached"
          /\ e.report = cache.report
      BY <2>10, <2>7, <2>3 DEF Detections
    <2>12. e.steady => Honest(e, TrueReport(Machine[here]))
      <3> SUFFICES ASSUME e.steady  PROVE Honest(e, TrueReport(Machine[here]))
        OBVIOUS
      <3>1. cache.print = here
        BY <1>2, <2>1, <2>11 DEF Detecting
      <3>2. cache.report = Without(TrueReport(Machine[here]), cache.report.hidden)
        BY <2>1, <2>2, <3>1 DEF Credible
      <3>3. Claims(cache.report, Without(TrueReport(Machine[here]), cache.report.hidden))
        BY <2>3, <3>2, ClaimsItself
      <3> QED
        BY <2>11, <3>2, <3>3 DEF Honest
    <2>13. Detecting(e, here)
      BY <1>2, <1>4, <2>11, <2>12 DEF Detecting
    <2>14. Moves(c, e)
      BY <1>1, <1>7, <2>1, <2>4, <2>5, <2>6, <2>7 DEF LoadCache
    <2> QED
      BY <1>5, <2>11, <2>13, <2>14, OneCaller
  <1> QED
    BY <1>6, <1>7

\* The detection of a caller that probes, and the probe that is next.
LEMMA ProbingCaller ==
  ASSUME DevicesInv, NEW c \in Callers, Probing(c)
  PROVE  /\ caller[c] \in Detections /\ Detecting(caller[c], here)
         /\ here \in 1..Len(Machine) /\ here \in Nat /\ Machine[here] \in Machines
         /\ caller[c].pc = "probing" /\ caller[c].how # "cached"
         /\ caller[c].left \in Seq(Probes) /\ caller[c].left # << >>
         /\ Head(caller[c].left) \in Probes /\ Tail(caller[c].left) \in Seq(Probes)
         /\ caller[c].report \in Reports
         /\ cache = NoCache \/ Credible(cache, here)
  <1>1. caller[c].pc = "probing" /\ caller[c].left # << >>
    BY DEF Probing
  <1>2. caller[c] # Idle
    BY <1>1, NotIdle
  <1>3. caller[c] \in Detections /\ Detecting(caller[c], here) /\ here \in 1..Len(Machine)
        /\ here \in Nat
    BY <1>2, CallerAtWork
  <1>4. caller[c].left \in Seq(Probes) /\ caller[c].report \in Reports
    BY <1>3, FieldsOfDetections
  <1>5. Head(caller[c].left) \in Probes /\ Tail(caller[c].left) \in Seq(Probes)
    BY <1>1, <1>4, HeadTailProperties
  <1>6. Machine[here] \in Machines
    BY <1>3, MachineHere
  <1>7. caller[c].how # "cached"
    BY <1>1, <1>3 DEF Detecting
  <1>8. cache = NoCache \/ Credible(cache, here)
    BY DEF DevicesInv
  <1> QED
    BY <1>1, <1>3, <1>4, <1>5, <1>6, <1>7, <1>8

LEMMA ProbeUnavailableStays ==
  ASSUME DevicesInv, NEW c \in Callers, ProbeUnavailable(c)
  PROVE  DevicesInv'
  <1>1. PICK d : d = caller[c]
    OBVIOUS
  <1>2. /\ d \in Detections /\ Detecting(d, here)
        /\ here \in 1..Len(Machine) /\ here \in Nat /\ Machine[here] \in Machines
        /\ d.pc = "probing" /\ d.how # "cached" /\ d.left \in Seq(Probes) /\ d.left # << >>
        /\ Head(d.left) \in Probes /\ Tail(d.left) \in Seq(Probes) /\ d.report \in Reports
        /\ cache = NoCache \/ Credible(cache, here)
    BY <1>1, ProbingCaller DEF ProbeUnavailable
  <1>3. PICK e : e = [d EXCEPT !.left = Tail(d.left)]
    OBVIOUS
  <1>4. e \in Detections /\ e.pc = d.pc /\ e.print = d.print /\ e.left = Tail(d.left)
        /\ e.request = d.request /\ e.report = d.report /\ e.failed = d.failed
        /\ e.how = d.how /\ e.steady = d.steady
    BY <1>2, <1>3 DEF Detections
  <1>5. e.steady => Honest(e, TrueReport(Machine[here]))
    <2> SUFFICES ASSUME e.steady  PROVE Honest(e, TrueReport(Machine[here]))
      OBVIOUS
    <2>1. Honest(d, TrueReport(Machine[here]))
      BY <1>2, <1>4 DEF Detecting
    <2>2. ~ (Package(Head(d.left)) \subseteq Machine[here].installed)
      BY <1>1 DEF ProbeUnavailable, Present
    <2>3. SaidBy(d.left, d.report, Without(TrueReport(Machine[here]), d.report.hidden)) =>
            SaidBy(e.left, d.report, Without(TrueReport(Machine[here]), d.report.hidden))
      BY <1>2, <1>4, <2>1, <2>2, SkippedIsSaid DEF Honest
    <2> QED
      BY <1>2, <1>4, <2>1, <2>3 DEF Honest
  <1>6. Detecting(e, here)
    BY <1>2, <1>4, <1>5 DEF Detecting
  <1>7. Moves(c, e) /\ here' = here /\ cache' = cache
    BY <1>1, <1>3 DEF ProbeUnavailable
  <1> QED
    BY <1>2, <1>4, <1>6, <1>7, OneCaller

LEMMA ProbeCompletesStays ==
  ASSUME DevicesInv, NEW c \in Callers, ProbeCompletes(c)
  PROVE  DevicesInv'
  <1>1. PICK d : d = caller[c]
    OBVIOUS
  <1>2. /\ d \in Detections /\ Detecting(d, here)
        /\ here \in 1..Len(Machine) /\ here \in Nat /\ Machine[here] \in Machines
        /\ d.pc = "probing" /\ d.how # "cached" /\ d.left \in Seq(Probes) /\ d.left # << >>
        /\ Head(d.left) \in Probes /\ Tail(d.left) \in Seq(Probes) /\ d.report \in Reports
        /\ cache = NoCache \/ Credible(cache, here)
    BY <1>1, ProbingCaller DEF ProbeCompletes
  <1>3. PICK q : q = Completed(Head(d.left), Machine[here], d.report)
    OBVIOUS
  <1>4. q \in Reports
    BY <1>2, <1>3, CompletedIsReport
  <1>6. PICK more : more = IF Head(d.left)[1] = "count" THEN AfterCount(q) ELSE << >>
    OBVIOUS
  <1>7. more \in Seq(Probes)
    BY <1>4, <1>6, AfterCountHas, EmptySeq
  <1>8. more \o Tail(d.left) \in Seq(Probes)
    BY <1>2, <1>7, ConcatProperties
  <1>9. PICK e1 : e1 = [d EXCEPT !.report = q]
    OBVIOUS
  <1>10. PICK e : e = [e1 EXCEPT !.left = more \o Tail(d.left)]
    OBVIOUS
  <1>11. e1 \in Detections /\ e1.pc = d.pc /\ e1.print = d.print /\ e1.left = d.left
        /\ e1.request = d.request /\ e1.report = q /\ e1.failed = d.failed
        /\ e1.how = d.how /\ e1.steady = d.steady
    BY <1>2, <1>4, <1>9 DEF Detections
  <1>12. e \in Detections /\ e.pc = d.pc /\ e.print = d.print /\ e.left = more \o Tail(d.left)
        /\ e.request = d.request /\ e.report = q /\ e.failed = d.failed
        /\ e.how = d.how /\ e.steady = d.steady
    BY <1>8, <1>10, <1>11 DEF Detections
  <1>13. e.steady => Honest(e, TrueReport(Machine[here]))
    <2> SUFFICES ASSUME e.steady  PROVE Honest(e, TrueReport(Machine[here]))
      OBVIOUS
    <2>1. Honest(d, TrueReport(Machine[here]))
      BY <1>2, <1>12 DEF Detecting
    <2>2. Package(Head(d.left)) \subseteq Machine[here].installed
      BY <1>1 DEF ProbeCompletes, Present
    <2>3. Claims(d.report, Without(TrueReport(Machine[here]), d.report.hidden))
      BY <2>1 DEF Honest
    <2>4. Claims(q, Without(TrueReport(Machine[here]), q.hidden))
      BY <1>2, <1>3, <2>2, <2>3, CompletedClaims
    <2>5. SaidBy(d.left, d.report, Without(TrueReport(Machine[here]), d.report.hidden)) =>
            SaidBy(e.left, q, Without(TrueReport(Machine[here]), q.hidden))
      BY <1>2, <1>3, <1>6, <1>7, <1>12, <2>2, <2>3, CompletedIsSaid
    <2> QED
      BY <1>2, <1>12, <2>1, <2>4, <2>5 DEF Honest
  <1>14. Detecting(e, here)
    BY <1>2, <1>12, <1>13 DEF Detecting
  <1>15. here' = here /\ cache' = cache
    BY DEF ProbeCompletes
  <1>16. Moves(c, e)
    <2>1. Moves(c, [caller[c] EXCEPT !.report = q, !.left = more \o Tail(@)])
      BY <1>1, <1>3, <1>6, Zenon DEF ProbeCompletes
    <2>2. [caller[c] EXCEPT !.report = q, !.left = more \o Tail(@)] = e
      BY <1>1, <1>9, <1>10, <1>11
    <2> QED
      BY <2>1, <2>2
  <1> QED
    BY <1>2, <1>12, <1>14, <1>15, <1>16, OneCaller

LEMMA ProbeFailsStays ==
  ASSUME DevicesInv, NEW c \in Callers, ProbeFails(c)
  PROVE  DevicesInv'
  <1>1. PICK d : d = caller[c]
    OBVIOUS
  <1>2. /\ d \in Detections /\ Detecting(d, here)
        /\ here \in 1..Len(Machine) /\ here \in Nat /\ Machine[here] \in Machines
        /\ d.pc = "probing" /\ d.how # "cached" /\ d.left \in Seq(Probes) /\ d.left # << >>
        /\ Head(d.left) \in Probes /\ Tail(d.left) \in Seq(Probes) /\ d.report \in Reports
        /\ cache = NoCache \/ Credible(cache, here)
    BY <1>1, ProbingCaller DEF ProbeFails, Fails
  <1>3. PICK e1 : e1 = [d EXCEPT !.failed = d.failed \cup {Head(d.left)}]
    OBVIOUS
  <1>4. PICK e : e = [e1 EXCEPT !.left = Tail(d.left)]
    OBVIOUS
  <1>5. e1 \in Detections /\ e1.pc = d.pc /\ e1.print = d.print /\ e1.left = d.left
        /\ e1.request = d.request /\ e1.report = d.report /\ e1.failed # {}
        /\ e1.how = d.how /\ e1.steady = d.steady
    BY <1>2, <1>3 DEF Detections
  <1>6. e \in Detections /\ e.pc = d.pc /\ e.print = d.print
        /\ e.request = d.request /\ e.report = d.report /\ e.failed # {}
        /\ e.how = d.how /\ e.steady = d.steady
    BY <1>2, <1>4, <1>5 DEF Detections
  <1>7. Detecting(e, here)
    BY <1>2, <1>6 DEF Detecting, Honest
  <1>8. here' = here /\ cache' = cache
    BY DEF ProbeFails, Fails
  <1>9. Moves(c, e)
    <2>1. [caller[c] EXCEPT !.failed = @ \cup {Head(caller[c].left)}, !.left = Tail(@)] = e
      BY <1>1, <1>3, <1>4, <1>5
    <2> QED
      BY <2>1 DEF ProbeFails
  <1> QED
    BY <1>2, <1>6, <1>7, <1>8, <1>9, OneCaller

LEMMA ProbeHidesFailureStays ==
  ASSUME DevicesInv, NEW c \in Callers, ProbeHidesFailure(c)
  PROVE  DevicesInv'
  <1>1. PICK d : d = caller[c]
    OBVIOUS
  <1>2. /\ d \in Detections /\ Detecting(d, here)
        /\ here \in 1..Len(Machine) /\ here \in Nat /\ Machine[here] \in Machines
        /\ d.pc = "probing" /\ d.how # "cached" /\ d.left \in Seq(Probes) /\ d.left # << >>
        /\ Head(d.left) \in Probes /\ Tail(d.left) \in Seq(Probes) /\ d.report \in Reports
        /\ cache = NoCache \/ Credible(cache, here)
    BY <1>1, ProbingCaller DEF ProbeHidesFailure, Fails
  <1>3. PICK q : q = Without(d.report, d.report.hidden \cup {Head(d.left)[1]})
    OBVIOUS
  <1>4. Head(d.left)[1] \in Hides
    BY <1>1 DEF ProbeHidesFailure
  <1>5. q \in Reports
    <2>1. d.report.hidden \cup {Head(d.left)[1]} \subseteq Hides
      BY <1>2, <1>4 DEF Reports
    <2> QED
      BY <1>2, <1>3, <2>1, WithoutIs
  <1>6. PICK e1 : e1 = [d EXCEPT !.left = Tail(d.left)]
    OBVIOUS
  <1>7. PICK e : e = [e1 EXCEPT !.report = q]
    OBVIOUS
  <1>8. e1 \in Detections /\ e1.pc = d.pc /\ e1.print = d.print /\ e1.left = Tail(d.left)
        /\ e1.request = d.request /\ e1.report = d.report /\ e1.failed = d.failed
        /\ e1.how = d.how /\ e1.steady = d.steady
    BY <1>2, <1>6 DEF Detections
  <1>9. e \in Detections /\ e.pc = d.pc /\ e.print = d.print /\ e.left = Tail(d.left)
        /\ e.request = d.request /\ e.report = q /\ e.failed = d.failed
        /\ e.how = d.how /\ e.steady = d.steady
    BY <1>5, <1>7, <1>8 DEF Detections
  <1>10. e.steady => Honest(e, TrueReport(Machine[here]))
    <2> SUFFICES ASSUME e.steady  PROVE Honest(e, TrueReport(Machine[here]))
      OBVIOUS
    <2>1. Honest(d, TrueReport(Machine[here]))
      BY <1>2, <1>9 DEF Detecting
    <2>2. Claims(d.report, Without(TrueReport(Machine[here]), d.report.hidden))
      BY <2>1 DEF Honest
    <2>3. /\ Claims(q, Without(TrueReport(Machine[here]), q.hidden))
          /\ SaidBy(d.left, d.report, Without(TrueReport(Machine[here]), d.report.hidden)) =>
               SaidBy(e.left, q, Without(TrueReport(Machine[here]), q.hidden))
      BY <1>2, <1>3, <1>4, <1>9, <2>2, HiddenIsSaid
    <2> QED
      BY <1>2, <1>9, <2>1, <2>3 DEF Honest
  <1>11. Detecting(e, here)
    BY <1>2, <1>9, <1>10 DEF Detecting
  <1>12. here' = here /\ cache' = cache
    BY DEF ProbeHidesFailure, Fails
  <1>13. Moves(c, e)
    <2>1. Moves(c, [caller[c] EXCEPT !.left = Tail(@),
                        !.report = Without(d.report, d.report.hidden \cup {Head(d.left)[1]})])
      BY <1>1, Zenon DEF ProbeHidesFailure
    <2>2. [caller[c] EXCEPT !.left = Tail(@), !.report = q] = e
      BY <1>1, <1>6, <1>7, <1>8
    <2> QED
      BY <1>3, <2>1, <2>2
  <1> QED
    BY <1>2, <1>9, <1>11, <1>12, <1>13, OneCaller

LEMMA SaveCacheStays ==
  ASSUME DevicesInv, NEW c \in Callers, SaveCache(c)
  PROVE  DevicesInv'
  <1>1. PICK d : d = caller[c]
    OBVIOUS
  <1>2. d.pc = "probing" /\ d.left = << >>
    BY <1>1 DEF SaveCache
  <1>3. /\ d \in Detections /\ Detecting(d, here) /\ here \in 1..Len(Machine) /\ here \in Nat
    BY <1>1, <1>2, NotIdle, CallerAtWork
  <1>4. d.print \in Nat /\ d.report \in Reports /\ d.failed \in SUBSET Probes
    BY <1>3, FieldsOfDetections
  <1>5. PICK e : e = [d EXCEPT !.pc = "selecting"]
    OBVIOUS
  <1>6. e \in Detections /\ e.pc = "selecting" /\ e.print = d.print /\ e.left = d.left
        /\ e.request = d.request /\ e.report = d.report /\ e.failed = d.failed
        /\ e.how = d.how /\ e.steady = d.steady
    BY <1>3, <1>5 DEF Detections
  <1>7. Detecting(e, here)
    BY <1>3, <1>6 DEF Detecting, Honest
  <1>8. PICK entry : entry = [print |-> d.print, report |-> d.report, failed |-> d.failed]
    OBVIOUS
  <1>9. d.how = "fresh" => Credible(entry, here)
    <2> SUFFICES ASSUME d.how = "fresh"  PROVE Credible(entry, here)
      OBVIOUS
    <2>1. entry \in CacheFiles /\ entry.print = d.print /\ entry.report = d.report
          /\ entry.failed = d.failed
      BY <1>4, <1>8 DEF CacheFiles
    <2>2. ASSUME d.print = here, d.failed = {}
          PROVE  d.report = Without(TrueReport(Machine[here]), d.report.hidden)
      <3>1. d.steady
        BY <1>3, <2>2 DEF Detecting
      <3>2. Honest(d, TrueReport(Machine[here]))
        BY <1>3, <3>1 DEF Detecting
      <3>3. PICK t : t = Without(TrueReport(Machine[here]), d.report.hidden)
        OBVIOUS
      <3>4. t \in Reports /\ t.hidden = d.report.hidden
        <4>1. TrueReport(Machine[here]) \in Reports /\ d.report.hidden \subseteq Hides
          BY <1>3, <1>4, MachineHere, TrueReportIs DEF Reports
        <4> QED
          BY <3>3, <4>1, WithoutIs
      <3>5. SaidBy(<< >>, d.report, t)
        BY <1>2, <2>2, <3>2, <3>3 DEF Honest
      <3> QED
        BY <1>4, <3>3, <3>4, <3>5, AllIsSaid
    <2>3. d.print <= here
      BY <1>3 DEF Detecting
    <2> QED
      BY <2>1, <2>2, <2>3 DEF Credible
  <1>10. cache' = cache \/ (d.how = "fresh" /\ cache' = entry)
    BY <1>1, <1>8 DEF SaveCache, SavedUnder
  <1>11. cache' = NoCache \/ Credible(cache', here)
    BY <1>9, <1>10 DEF DevicesInv
  <1>12. Moves(c, e) /\ here' = here
    BY <1>1, <1>5 DEF SaveCache
  <1> QED
    BY <1>6, <1>7, <1>11, <1>12, OneCaller

LEMMA MachineChangesStays ==
  ASSUME DevicesInv, MachineChanges
  PROVE  DevicesInv'
  <1>1. DOMAIN Machine = 1..Len(Machine) /\ here \in 1..Len(Machine) /\ here \in Nat
    BY MachineAssumption, LenProperties, MachineHere DEF MachineAssumption, DevicesInv
  <1>2. here' \in 1..Len(Machine) /\ here' >= here /\ here' \in Nat
    BY <1>1, MachineHere DEF MachineChanges
  <1>3. cache' = NoCache \/ Credible(cache', here')
    <2>1. CASE cache = NoCache
      BY <2>1 DEF MachineChanges
    <2>2. CASE Credible(cache, here)
      <3>1. cache \in CacheFiles /\ cache.print <= here /\ cache.print \in Nat
        BY <2>2 DEF Credible, CacheFiles
      <3>2. CASE here' = here
        BY <2>2, <3>2 DEF MachineChanges
      <3>3. CASE here' # here
        <4>1. cache.print <= here' /\ cache.print # here'
          BY <1>1, <1>2, <3>1, <3>3
        <4>2. Credible(cache, here')
          BY <3>1, <4>1 DEF Credible
        <4> QED
          BY <4>2 DEF MachineChanges
      <3> QED
        BY <3>2, <3>3
    <2> QED
      BY <2>1, <2>2 DEF DevicesInv
  <1>4. ASSUME NEW c \in Callers
        PROVE  /\ caller'[c] \in {Idle} \cup Detections
               /\ caller'[c] = Idle \/ Detecting(caller'[c], here')
    <2>1. caller'[c] = IF caller[c] = Idle \/ here' = here
                       THEN caller[c] ELSE [caller[c] EXCEPT !.steady = FALSE]
      BY DEF MachineChanges
    <2>2. CASE caller[c] = Idle \/ here' = here
      BY <2>1, <2>2 DEF DevicesInv
    <2>3. CASE caller[c] # Idle /\ here' # here
      <3>1. PICK d : d = caller[c]
        OBVIOUS
      <3>2. d \in Detections /\ Detecting(d, here)
        BY <2>3, <3>1, CallerAtWork
      <3>3. PICK e : e = [d EXCEPT !.steady = FALSE]
        OBVIOUS
      <3>4. e \in Detections /\ e.pc = d.pc /\ e.print = d.print /\ e.request = d.request
            /\ e.how = d.how /\ e.steady = FALSE /\ d.print \in Nat
        BY <3>2, <3>3 DEF Detections
      <3>5. e.print <= here' /\ e.print # here'
        <4>1. d.print <= here
          BY <3>2 DEF Detecting
        <4> QED
          BY <1>1, <1>2, <2>3, <3>4, <4>1
      <3>6. Detecting(e, here')
        BY <3>2, <3>4, <3>5 DEF Detecting
      <3> QED
        BY <2>1, <2>3, <3>1, <3>3, <3>4, <3>6
    <2> QED
      BY <2>2, <2>3
  <1>5. caller' \in [Callers -> {Idle} \cup Detections]
    BY <1>4 DEF MachineChanges
  <1> QED
    BY <1>2, <1>3, <1>4, <1>5 DEF DevicesInv

LEMMA DevicesStart == DevicesInit => DevicesInv
  <1> SUFFICES ASSUME DevicesInit  PROVE DevicesInv
    OBVIOUS
  <1>1. here = 1 /\ 1 \in 1..Len(Machine)
    <2>1. Machine \in Seq(Machines) /\ Machine # << >>
      BY MachineAssumption DEF MachineAssumption
    <2>2. Len(Machine) \in Nat \ {0}
      BY <2>1, EmptySeq
    <2> QED
      BY <2>2 DEF DevicesInit
  <1>2. cache = NoCache \/ Credible(cache, 1)
    BY FoundAssumption DEF FoundAssumption, DevicesInit
  <1>3. \A c \in Callers : caller[c] = Idle
    BY DEF DevicesInit
  <1>4. caller \in [Callers -> {Idle} \cup Detections]
    BY DEF DevicesInit
  <1> QED
    BY <1>1, <1>2, <1>3, <1>4 DEF DevicesInv

LEMMA DevicesStay == DevicesInv /\ [DevicesNext]_devices => DevicesInv'
  <1> SUFFICES ASSUME DevicesInv, [DevicesNext]_devices  PROVE DevicesInv'
    OBVIOUS
  <1>1. CASE UNCHANGED devices
    BY <1>1 DEF devices, DevicesInv
  <1>2. ASSUME NEW c \in Callers, NEW refresh \in BOOLEAN, Detect(c, refresh)  PROVE DevicesInv'
    <2>1. PICK pc : pc = IF refresh THEN "probing" ELSE "loading"
      OBVIOUS
    <2>2. pc \in {"loading", "probing"}
      BY <2>1
    <2>3. Begin(c, "fresh", pc, RuntimeProbes, Automatic) /\ here' = here
      BY <1>2, <2>1 DEF Detect
    <2>4. cache' \in {cache, NoCache}
      BY <1>2 DEF Detect, ClearProbeCache
    <2> QED
      BY <2>2, <2>3, <2>4, Begins
  <1>3. ASSUME NEW c \in Callers, NEW request \in Asked, Resolve(c, request)  PROVE DevicesInv'
    <2>1. Begin(c, "resolved", "probing", Ctranslate2Probes, request) /\ here' = here
          /\ cache' \in {cache, NoCache}
      BY <1>3 DEF Resolve
    <2> QED
      BY <2>1, Begins
  <1>4. ASSUME NEW c \in Callers, Select(c) \/ Killed(c)  PROVE DevicesInv'
    <2>1. Moves(c, Idle) /\ here' = here /\ cache' = cache
      BY <1>4 DEF Select, Killed
    <2>2. cache' = NoCache \/ Credible(cache', here)
      BY <2>1 DEF DevicesInv
    <2> QED
      BY <2>1, <2>2, OneCaller
  <1> QED
    BY <1>1, <1>2, <1>3, <1>4, LoadCacheStays, ProbeUnavailableStays, ProbeCompletesStays,
       ProbeFailsStays, ProbeHidesFailureStays, SaveCacheStays, MachineChangesStays
    DEF DevicesNext

----------------------------------------------------------------------------
(* The theorem. *)

\* What one selection is.
Chosen(c) ==
  Select(c) /\ caller[c].steady =>
    LET m == Machine[caller[c].print]
        chosen == answer'
        request == caller[c].request
    IN /\ Works(chosen, m)
       /\ caller[c].how = "cached" =>
              chosen = TrueSelection(m, caller[c].report.hidden)
       /\ request.device # "auto" /\ chosen.asr # Refused =>
              chosen.asr.device = request.device /\ chosen.asr.index = request.index
       /\ request.compute # "auto" /\ chosen.asr # Refused =>
              chosen.asr.compute = request.compute

LEMMA SelectionWorks ==
  ASSUME DevicesInv, NEW c \in Callers
  PROVE  Chosen(c)
  <1> SUFFICES ASSUME Select(c), caller[c].steady
               PROVE  LET m == Machine[caller[c].print]
                          chosen == answer'
                          request == caller[c].request
                      IN /\ Works(chosen, m)
                         /\ caller[c].how = "cached" =>
                                chosen = TrueSelection(m, caller[c].report.hidden)
                         /\ request.device # "auto" /\ chosen.asr # Refused =>
                                chosen.asr.device = request.device
                                /\ chosen.asr.index = request.index
                         /\ request.compute # "auto" /\ chosen.asr # Refused =>
                                chosen.asr.compute = request.compute
    BY DEF Chosen
  <1>1. PICK d : d = caller[c]
    OBVIOUS
  <1>2. d.pc = "selecting" /\ d.steady
    BY <1>1 DEF Select
  <1>3. d \in Detections /\ Detecting(d, here) /\ here \in 1..Len(Machine) /\ here \in Nat
    BY <1>1, <1>2, NotIdle, CallerAtWork
  <1>4. d.report \in Reports /\ d.request \in Asked \cup {Automatic}
        /\ d.how \in {"fresh", "resolved", "cached"}
    BY <1>3, FieldsOfDetections
  <1>5. PICK t : t = TrueReport(Machine[here])
    OBVIOUS
  <1>7. t \in Reports
    BY <1>3, <1>5, MachineHere, TrueReportIs
  <1>6. d.print = here /\ Honest(d, t) /\ Claims(d.report, t)
    <2>1. d.print = here /\ Honest(d, t)
      BY <1>2, <1>3, <1>5 DEF Detecting
    <2> QED
      BY <1>4, <1>7, <2>1, SeenIsThere DEF Honest
  <1>8. d.request.device \in {"auto", "cpu", "cuda"}
        /\ (d.request.device = "cpu" => d.request.index = 1)
    BY <1>4, AskedAssumption DEF AskedAssumption, Automatic
  <1>9. PICK chosen : chosen = answer'
    OBVIOUS
  <1>10. AsrWorks(chosen.asr, t, around.native)
         /\ (chosen.diarization[1] = "cuda" => chosen.diarization[2] \in t.torchCuda)
         /\ (chosen.diarization[1] = "xpu" => chosen.diarization[2] \in t.torchXpu)
         => Works(chosen, Machine[here])
    <2>1. ApplyCudaLibraryStatus(t, around.libraries).torchCuda = t.torchCuda
          /\ ApplyCudaLibraryStatus(t, around.libraries).torchXpu = t.torchXpu
      BY <1>7 DEF ApplyCudaLibraryStatus, Reports
    <2> QED
      BY <1>5, <2>1 DEF Works, AsrWorks
  <1>11. CASE d.how = "resolved"
    <2>1. PICK p : p = ApplyCudaLibraryStatus(d.report, around.libraries)
      OBVIOUS
    <2>2. PICK a : a = SelectFasterWhisperDevice(d.request, p)
      OBVIOUS
    <2>3. chosen = [asr |-> a, diarization |-> <<"none", 0>>]
      BY <1>1, <1>9, <1>11, <2>1, <2>2 DEF Select, LibrariesNow
    <2>4. chosen.asr = a /\ chosen.diarization[1] = "none"
      BY <2>3
    <2>5. p.cuda \in Seq(SUBSET STRING)
      BY <1>4, <1>6, <1>7, <2>1, LibrariesKeepClaims
    <2>6. a = Refused \/ Usable(a, d.request, p)
      BY <1>8, <2>2, <2>5, SelectionIsUsable
    <2>7. AsrWorks(a, t, around.native)
      BY <1>4, <1>6, <1>7, <2>1, <2>6, UsableWorks, RefusedWorks
    <2>8. Works(chosen, Machine[here])
      BY <1>10, <2>4, <2>7
    <2>9. /\ d.request.device # "auto" /\ a # Refused =>
               a.device = d.request.device /\ a.index = d.request.index
          /\ d.request.compute # "auto" /\ a # Refused => a.compute = d.request.compute
      BY <2>6 DEF Usable
    <2> QED
      BY <1>1, <1>6, <1>9, <1>11, <2>4, <2>8, <2>9
  <1>12. CASE d.how # "resolved"
    <2>1. d.request = Automatic
      BY <1>3, <1>12 DEF Detecting
    <2>2. Automatic.device = "auto" /\ Automatic.compute = "auto"
      BY DEF Automatic
    <2>3. chosen = AutoSelection(d.report, around.libraries, around.native)
      BY <1>1, <1>9, <1>12 DEF Select, LibrariesNow, NativeNow
    <2>4. chosen.asr = AutoAsr(ApplyCudaLibraryStatus(d.report, around.libraries), around.native)
          /\ chosen.diarization = AutoDiarization(d.report)
      BY <2>3 DEF AutoSelection
    <2>5. AsrWorks(chosen.asr, t, around.native)
      BY <1>4, <1>6, <1>7, <2>4, AutoAsrWorks
    <2>6. /\ chosen.diarization[1] = "cuda" => chosen.diarization[2] \in t.torchCuda
          /\ chosen.diarization[1] = "xpu" => chosen.diarization[2] \in t.torchXpu
      BY <1>4, <1>6, <1>7, <2>4, AutoDiarizationWorks
    <2>7. Works(chosen, Machine[here])
      BY <1>10, <2>5, <2>6
    <2>8. d.how = "cached" => chosen = TrueSelection(Machine[here], d.report.hidden)
      BY <1>5, <1>6, <2>3 DEF Honest, TrueSelection
    <2> QED
      BY <1>1, <1>6, <1>9, <2>1, <2>2, <2>7, <2>8
  <1> QED
    BY <1>11, <1>12

\* A device is chosen only if it is there and works, whatever probes failed, whoever wrote the
\* cache, and whatever libraries and builds came and went between the probes and the choice.
THEOREM DevicesAreThere == DevicesSpec => ChoosesWhatIsThere
  <1>1. DevicesInit => DevicesInv
    BY DevicesStart
  <1>2. DevicesInv /\ [DevicesNext]_devices => DevicesInv'
    BY DevicesStay
  <1>3. DevicesInv => \A c \in Callers : Chosen(c)
    BY SelectionWorks
  <1>4. DevicesInv /\ [DevicesNext]_devices => [\A c \in Callers : Chosen(c)]_devices
    BY <1>3
  <1> QED
    BY <1>1, <1>2, <1>4, PTL DEF DevicesSpec, ChoosesWhatIsThere, Chosen
=============================================================================
