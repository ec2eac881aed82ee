-------------------------- MODULE JobCommandsProofs --------------------------
(***************************************************************************)
(* Theorems of JobAdmission and of JobCommands.  Of the first: whatever is *)
(* retried, raced, expires or is restarted, a key stands for one batch and *)
(* a token for one key, for any number of threads, keys, tokens and        *)
(* bodies.  Of the second: what a command does and tells, it does and      *)
(* tells once, for any handlers, requests, jobs and states of the machine. *)
(***************************************************************************)
EXTENDS JobAdmission, JobCommands, TLAPS

------------------------------------------------------------------------------
(* Admission. *)

(* The inductive invariant *)

Served == {"lookup", "join", "wait", "poll", "reserve", "check", "commit", "consume", "answered"}

Outcomes == {"none", "accepted", "idempotency_conflict", "submission_in_progress",
             "resolution_invalid", "resolution_expired", "resolution_consumed",
             "resolution_stale", "store_busy", "lost"}

RequestTypes == [pc : Served, key : Keys, body : Bodies, leader : Threads \cup {NoFlight},
                 answer : Outcomes]

\* Only what was issued expires.
TokenTypes ==
    {r \in [state : {"none", "issued", "reserved", "consumed"}, env : Nat, expired : BOOLEAN,
             key : Keys \cup {"none"}, body : Bodies \cup {NoBody}] :
        r.state = "none" => ~r.expired}

BatchTypes == [body : Bodies, env : Nat, told : BOOLEAN]

AdmissionTypeOK ==
    /\ env \in Nat
    /\ token \in [Tokens -> TokenTypes]
    /\ flight \in [Keys -> Threads \cup {NoFlight}]
    /\ request \in [Threads -> RequestTypes \cup {NoRequest}]
    /\ replay \in [Keys -> BatchTypes \cup {NoBatch}]

\* Where a request has reserved its token.
Working == {"check", "commit", "consume"}

\* Whoever is past join leads the flight of its key; whoever waits, waits for the leader.
Leads ==
    \A t \in Threads :
       /\ Me(t).pc \in Working \cup {"reserve"} => flight[Me(t).key] = t
       /\ Me(t).pc = "wait" => Me(t).leader \in Threads /\ flight[Me(t).key] = Me(t).leader

\* A token is reserved for one key, and by a request that is at work.
Reserves ==
    /\ \A t \in Threads : Me(t).pc \in Working =>
          /\ token[Me(t).body.token].state = "reserved"
          /\ token[Me(t).body.token].key = Me(t).key
    /\ \A k \in Tokens : token[k].state = "reserved" =>
          \E t \in Threads : Me(t).pc \in Working /\ Me(t).body.token = k

\* No batch that is told was made of a token before its own commit.
Unused ==
    \A t \in Threads : Me(t).pc \in {"check", "commit"} =>
       \A k \in Keys : replay[k].told => replay[k].body.token # Me(t).body.token

\* What is or will be answered `accepted' is the batch of the key.
Accepted ==
    \A t \in Threads : Me(t).pc = "consume" \/ (Me(t).pc = "answered" /\ Me(t).answer = "accepted") =>
       replay[Me(t).key].body = Me(t).body

\* A token that made a batch that is told is not free again, and made one such.
MadeOnce ==
    /\ \A k, l \in Keys : k # l /\ replay[k].told /\ replay[l].told =>
          replay[k].body.token # replay[l].body.token
    /\ \A k \in Keys : replay[k].told =>
          \/ token[replay[k].body.token].expired
          \/ token[replay[k].body.token].state \in {"reserved", "consumed"}

AdmissionInv == AdmissionTypeOK /\ Leads /\ Reserves /\ Unused /\ Accepted /\ MadeOnce

-------------------------------------------------------------------------------
(* What the types say *)

LEMMA RequestType ==
    ASSUME AdmissionTypeOK, NEW t \in Threads
    PROVE  /\ Me(t) = NoRequest \/ Me(t) \in RequestTypes
           /\ Me(t).pc # "absent" => /\ Me(t) \in RequestTypes /\ Me(t).key \in Keys
                                     /\ Me(t).body \in Bodies /\ Me(t).body.token \in Tokens
                                     /\ Me(t).body # NoBody /\ Me(t).body.token # "none"
  <1>1. Me(t) = NoRequest \/ Me(t) \in RequestTypes
    BY DEF AdmissionTypeOK, Me
  <1>2. Me(t) = NoRequest => Me(t).pc = "absent"
    BY DEF NoRequest
  <1>3. \A b \in Bodies : b.token \in Tokens /\ b.token # "none" /\ b # NoBody
    BY AdmissionAssumption DEF NoBody
  <1> QED
    BY <1>1, <1>2, <1>3 DEF RequestTypes

LEMMA RequestFields ==
    ASSUME NEW r \in RequestTypes, NEW pc \in Served, NEW answer \in Outcomes
    PROVE  /\ [r EXCEPT !.pc = pc] \in RequestTypes
           /\ [r EXCEPT !.pc = pc].pc = pc /\ [r EXCEPT !.pc = pc].key = r.key
           /\ [r EXCEPT !.pc = pc].body = r.body
           /\ [r EXCEPT !.pc = pc, !.answer = answer] \in RequestTypes
           /\ [r EXCEPT !.pc = pc, !.answer = answer].pc = pc
           /\ [r EXCEPT !.pc = pc, !.answer = answer].answer = answer
           /\ [r EXCEPT !.pc = pc, !.answer = answer].key = r.key
           /\ [r EXCEPT !.pc = pc, !.answer = answer].body = r.body
  BY DEF RequestTypes

LEMMA BatchType ==
    ASSUME AdmissionTypeOK, NEW k \in Keys
    PROVE  /\ replay[k] = NoBatch => replay[k].body.token = "none" /\ ~replay[k].told
           /\ replay[k] # NoBatch => replay[k].body \in Bodies /\ replay[k].body.token \in Tokens
  BY AdmissionAssumption DEF AdmissionTypeOK, BatchTypes, NoBatch, NoBody

\* A token is at work for one request only.
LEMMA OneWorker ==
    ASSUME AdmissionInv, NEW t \in Threads, NEW u \in Threads, Me(t).pc \in Working,
           Me(u).pc \in Working, Me(t).body.token = Me(u).body.token
    PROVE  t = u
  BY DEF AdmissionInv, Leads, Reserves, Working

-------------------------------------------------------------------------------
(* One thread moves, and the rest stays *)

\* What a thread may be after a step that touches nothing but its request.
Quiet(t, next) ==
    /\ next \in RequestTypes \cup {NoRequest}
    /\ next.pc \notin Working \cup {"reserve"}
    /\ next.pc = "wait" => next.leader \in Threads /\ flight[next.key] = next.leader
    /\ next.pc = "answered" /\ next.answer = "accepted" => replay[next.key].body = next.body

LEMMA QuietStep ==
    ASSUME AdmissionInv, NEW t \in Threads, NEW next, Quiet(t, next), Me(t).pc \notin Working,
           request' = [request EXCEPT ![t] = next], UNCHANGED <<env, token, flight, replay>>
    PROVE  AdmissionInv'
  <1>1. Me(t)' = next /\ \A u \in Threads \ {t} : Me(u)' = Me(u)
    BY DEF AdmissionInv, AdmissionTypeOK, Me
  <1>2. AdmissionTypeOK'
    BY DEF AdmissionInv, AdmissionTypeOK, Quiet
  <1>3. Leads'
    BY <1>1 DEF AdmissionInv, Leads, Quiet
  <1>4. Reserves'
    <2>1. \A u \in Threads : Me(u)'.pc \in Working <=> Me(u).pc \in Working
      BY <1>1 DEF Quiet
    <2>2. \A u \in Threads : Me(u).pc \in Working => Me(u)' = Me(u)
      BY <1>1
    <2> QED
      BY <2>1, <2>2 DEF AdmissionInv, Reserves
  <1>5. Unused' /\ Accepted'
    BY <1>1 DEF AdmissionInv, Unused, Accepted, Quiet, Working
  <1>6. MadeOnce'
    BY DEF AdmissionInv, MadeOnce
  <1> QED
    BY <1>2, <1>3, <1>4, <1>5, <1>6 DEF AdmissionInv


\* The batches stay, and a commit that raised may have left one that nobody is told of.
Grown ==
    /\ env' = env /\ replay' \in [Keys -> BatchTypes \cup {NoBatch}]
    /\ \A k \in Keys : replay'[k] = replay[k] \/ (replay[k] = NoBatch /\ ~replay'[k].told)

LEMMA UnchangedIsGrown ==
    ASSUME AdmissionInv, UNCHANGED <<env, replay>>
    PROVE  Grown
  BY DEF Grown, AdmissionInv, AdmissionTypeOK

\* A flight ends.  What becomes of the token and of the request is up to the caller.
LEMMA LeaveStep ==
    ASSUME AdmissionInv, NEW t \in Threads, NEW next \in RequestTypes, Leave(t, next),
           Me(t).pc \in Working \cup {"reserve"},
           next.pc \in {"poll", "answered"}, next.key = Me(t).key, next.body = Me(t).body,
           next.pc = "answered" /\ next.answer = "accepted" =>
              replay[next.key].body = next.body,
           token' \in [Tokens -> TokenTypes],
           \A k \in Tokens \ {Me(t).body.token} : token'[k] = token[k],
           token' = token \/ Me(t).pc \in Working,
           Me(t).pc \in Working => token'[Me(t).body.token].state # "reserved",
           Me(t).pc = "consume" => token'[Me(t).body.token].state = "consumed",
           Grown
    PROVE  AdmissionInv'
  <1> DEFINE back(u) == [Me(u) EXCEPT !.pc = "lookup", !.leader = NoFlight]
  <1>1. /\ flight' = [flight EXCEPT ![Me(t).key] = NoFlight]
        /\ Me(t)' = next
        /\ \A u \in Threads \ {t} :
              Me(u)' = IF Me(u).pc = "wait" /\ Me(u).leader = t THEN back(u) ELSE Me(u)
    BY DEF Leave, Me
  <1>2. Me(t) \in RequestTypes /\ Me(t).key \in Keys /\ Me(t).body.token \in Tokens
    <2>1. Me(t).pc # "absent"
      BY DEF Working
    <2> QED
      BY <2>1, RequestType DEF AdmissionInv
  <1>3. \A u \in Threads : Me(u).pc = "wait" =>
           back(u) \in RequestTypes /\ back(u).pc = "lookup"
    <2>1. \A u \in Threads : Me(u).pc = "wait" => Me(u) \in RequestTypes
      BY RequestType DEF AdmissionInv
    <2> QED
      BY <2>1 DEF RequestTypes, Served
  <1>4. \A u \in Threads \ {t} : \/ Me(u)' = Me(u)
                                 \/ Me(u).pc = "wait" /\ Me(u).leader = t /\ Me(u)'.pc = "lookup"
    BY <1>1, <1>3
  <1> HIDE DEF back
  <1>5. AdmissionTypeOK'
    <2>1. request' \in [Threads -> RequestTypes \cup {NoRequest}]
      <3>1. \A u \in Threads : Me(u)' \in RequestTypes \cup {NoRequest}
        BY <1>1, <1>3, RequestType DEF AdmissionInv
      <3>2. request' = [u \in Threads |-> Me(u)']
        BY DEF Leave, Me
      <3> QED
        BY <3>1, <3>2
    <2>2. flight' \in [Keys -> Threads \cup {NoFlight}]
      BY <1>1, <1>2 DEF AdmissionInv, AdmissionTypeOK
    <2> QED
      BY <2>1, <2>2 DEF AdmissionInv, AdmissionTypeOK, Grown
  <1>6. Leads'
    <2>1. ASSUME NEW u \in Threads, Me(u)'.pc \in Working \cup {"reserve"}
          PROVE  flight'[Me(u)'.key] = u
      <3>1. u # t /\ Me(u)' = Me(u)
        BY <1>1, <1>4, <2>1 DEF Working
      <3>2. flight[Me(u).key] = u /\ flight[Me(t).key] = t
        BY <2>1, <3>1 DEF AdmissionInv, Leads
      <3>3. Me(u).key # Me(t).key
        BY <3>1, <3>2
      <3>4. Me(u).key \in Keys
        <4>1. Me(u).pc # "absent"
          BY <2>1, <3>1 DEF Working
        <4> QED
          BY <4>1, RequestType DEF AdmissionInv
      <3> QED
        BY <1>1, <3>1, <3>2, <3>3, <3>4 DEF AdmissionInv, AdmissionTypeOK
    <2>2. ASSUME NEW u \in Threads, Me(u)'.pc = "wait"
          PROVE  Me(u)'.leader \in Threads /\ flight'[Me(u)'.key] = Me(u)'.leader
      <3>1. u # t /\ Me(u)' = Me(u)
        BY <1>1, <1>4, <2>2
      <3>2. Me(u).leader # t
        BY <1>1, <1>3, <2>2, <3>1
      <3>3. Me(u).leader \in Threads /\ flight[Me(u).key] = Me(u).leader /\ flight[Me(t).key] = t
        BY <2>2, <3>1 DEF AdmissionInv, Leads
      <3>4. Me(u).key \in Keys
        <4>1. Me(u).pc # "absent"
          BY <2>2, <3>1
        <4> QED
          BY <4>1, RequestType DEF AdmissionInv
      <3> QED
        BY <1>1, <3>1, <3>2, <3>3, <3>4 DEF AdmissionInv, AdmissionTypeOK
    <2> QED
      BY <2>1, <2>2 DEF Leads
  <1>7. \A u \in Threads : Me(u)'.pc \in Working =>
           u # t /\ Me(u)' = Me(u) /\ Me(u).body.token \in Tokens
    <2>1. \A u \in Threads : Me(u).pc \in Working => Me(u).body.token \in Tokens
      BY RequestType DEF AdmissionInv, Working
    <2> QED
      BY <1>1, <1>4, <2>1 DEF Working
  <1>8. Reserves'
    <2>1. ASSUME NEW u \in Threads, Me(u)'.pc \in Working
          PROVE  /\ token'[Me(u)'.body.token].state = "reserved"
                 /\ token'[Me(u)'.body.token].key = Me(u)'.key
      <3>1. u # t /\ Me(u)' = Me(u) /\ Me(u).body.token \in Tokens
        BY <1>7, <2>1
      <3>2. token' = token \/ Me(u).body.token # Me(t).body.token
        BY <2>1, <3>1, OneWorker
      <3>3. token'[Me(u).body.token] = token[Me(u).body.token]
        BY <3>1, <3>2
      <3> QED
        BY <2>1, <3>1, <3>3 DEF AdmissionInv, Reserves
    <2>2. ASSUME NEW k \in Tokens, token'[k].state = "reserved"
          PROVE  \E u \in Threads : Me(u)'.pc \in Working /\ Me(u)'.body.token = k
      <3>1. token[k].state = "reserved"
        BY <2>2
      <3>2. PICK u \in Threads : Me(u).pc \in Working /\ Me(u).body.token = k
        BY <3>1 DEF AdmissionInv, Reserves
      <3>3. u # t
        BY <2>2, <3>2
      <3> QED
        BY <1>4, <3>2, <3>3 DEF Working
    <2> QED
      BY <2>1, <2>2 DEF Reserves
  <1>told. \A k \in Keys : replay'[k].told => replay'[k] = replay[k] /\ replay[k].told
    BY DEF Grown
  <1>9. Unused'
    BY <1>7, <1>told DEF AdmissionInv, Unused, Working
  <1>10. Accepted'
    <2> SUFFICES ASSUME NEW u \in Threads,
                        \/ Me(u)'.pc = "consume"
                        \/ Me(u)'.pc = "answered" /\ Me(u)'.answer = "accepted"
                 PROVE  replay'[Me(u)'.key].body = Me(u)'.body
      BY DEF Accepted
    <2>1. replay[Me(u)'.key].body = Me(u)'.body
      BY <1>1, <1>4 DEF AdmissionInv, Accepted
    <2>2. Me(u)'.key \in Keys /\ Me(u)'.body # NoBody
      <3>1. CASE u = t
        <4>1. Me(t).pc # "absent"
          BY DEF Working
        <4> QED
          BY <1>1, <3>1, <4>1, RequestType DEF AdmissionInv
      <3>2. CASE u # t
        <4>1. Me(u)' = Me(u) /\ Me(u).pc # "absent"
          BY <1>4, <3>2
        <4> QED
          BY <4>1, RequestType DEF AdmissionInv
      <3> QED
        BY <3>1, <3>2
    <2>3. replay[Me(u)'.key] # NoBatch
      BY <2>1, <2>2 DEF NoBatch
    <2> QED
      BY <2>1, <2>2, <2>3 DEF Grown
  <1>11. MadeOnce'
    <2>1. ASSUME NEW k \in Keys, replay[k].told
          PROVE  \/ token'[replay[k].body.token].expired
                 \/ token'[replay[k].body.token].state \in {"reserved", "consumed"}
      <3>1. replay[k].body.token \in Tokens
        BY <2>1, BatchType DEF AdmissionInv
      <3>2. replay[k].body.token # Me(t).body.token \/ token' = token
                \/ token'[replay[k].body.token].state = "consumed"
        BY <2>1 DEF AdmissionInv, Unused, Working
      <3> QED
        BY <2>1, <3>1, <3>2 DEF AdmissionInv, MadeOnce
    <2> QED
      BY <1>told, <2>1 DEF AdmissionInv, MadeOnce
  <1> QED
    BY <1>5, <1>6, <1>8, <1>9, <1>10, <1>11 DEF AdmissionInv


-------------------------------------------------------------------------------
(* The steps of a request *)

LEMMA GoesTo ==
    ASSUME AdmissionInv, NEW t \in Threads, Me(t).pc # "absent", NEW pc \in Served, Goes(t, pc)
    PROVE  /\ Me(t)' \in RequestTypes /\ Me(t)'.pc = pc
           /\ Me(t)'.key = Me(t).key /\ Me(t)'.body = Me(t).body
           /\ \A u \in Threads \ {t} : Me(u)' = Me(u)
           /\ request' \in [Threads -> RequestTypes \cup {NoRequest}]
  <1>1. Me(t) \in RequestTypes
    BY RequestType DEF AdmissionInv
  <1>2. request' = [request EXCEPT ![t] = [Me(t) EXCEPT !.pc = pc]]
    BY DEF Goes, Me
  <1>3. PICK next : next = [Me(t) EXCEPT !.pc = pc]
    OBVIOUS
  <1>4. next \in RequestTypes /\ next.pc = pc /\ next.key = Me(t).key /\ next.body = Me(t).body
    BY <1>1, <1>3 DEF RequestTypes
  <1> QED
    BY <1>2, <1>3, <1>4 DEF AdmissionInv, AdmissionTypeOK, Me

LEMMA AnsweredWith ==
    ASSUME AdmissionInv, NEW t \in Threads, Me(t).pc # "absent", NEW answer \in Outcomes
    PROVE  /\ Answered(t, answer) \in RequestTypes /\ Answered(t, answer).pc = "answered"
           /\ Answered(t, answer).answer = answer /\ Answered(t, answer).key = Me(t).key
           /\ Answered(t, answer).body = Me(t).body
  <1>1. PICK r \in RequestTypes : r = Me(t)
    BY RequestType DEF AdmissionInv
  <1>2. Answered(t, answer) = [r EXCEPT !.pc = "answered", !.answer = answer]
    BY <1>1 DEF Answered
  <1>3. "answered" \in Served
    BY DEF Served
  <1>4. /\ [r EXCEPT !.pc = "answered", !.answer = answer] \in RequestTypes
        /\ [r EXCEPT !.pc = "answered", !.answer = answer].pc = "answered"
        /\ [r EXCEPT !.pc = "answered", !.answer = answer].answer = answer
        /\ [r EXCEPT !.pc = "answered", !.answer = answer].key = r.key
        /\ [r EXCEPT !.pc = "answered", !.answer = answer].body = r.body
    BY <1>3 DEF RequestTypes
  <1> QED
    BY <1>1, <1>2, <1>4

LEMMA ReleasedType ==
    ASSUME AdmissionInv, NEW k \in Tokens
    PROVE  /\ Released(k) \in [Tokens -> TokenTypes]
           /\ \A l \in Tokens \ {k} : Released(k)[l] = token[l]
           /\ Released(k)[k].state # "reserved"
  <1>1. token[k] \in TokenTypes /\ token \in [Tokens -> TokenTypes]
    BY DEF AdmissionInv, AdmissionTypeOK
  <1>2. CASE token[k].state = "reserved"
    <2>1. PICK r : r = [token[k] EXCEPT !.state = "issued", !.key = "none", !.body = NoBody]
      OBVIOUS
    <2>2. Released(k) = [token EXCEPT ![k] = r]
      BY <1>1, <1>2, <2>1 DEF Released
    <2>3. r \in TokenTypes /\ r.state = "issued"
      BY <1>1, <2>1 DEF TokenTypes
    <2> QED
      BY <1>1, <2>2, <2>3
  <1>3. CASE token[k].state # "reserved"
    <2>1. Released(k) = [token EXCEPT ![k] = token[k]]
      BY <1>1, <1>3 DEF Released, TokenTypes
    <2> QED
      BY <1>1, <1>3, <2>1
  <1> QED
    BY <1>2, <1>3

LEMMA QuietMoves ==
    ASSUME AdmissionInv, NEW t \in Threads,
           \/ \E key \in Keys, body \in Bodies : Arrive(t, key, body)
           \/ Respond(t) \/ Lookup(t) \/ Poll(t) \/ GiveUp(t)
    PROVE  AdmissionInv'
  <1>1. CASE \E key \in Keys, body \in Bodies : Arrive(t, key, body)
    <2>1. PICK next : request' = [request EXCEPT ![t] = next] /\ Quiet(t, next)
                      /\ Me(t) = NoRequest
      BY <1>1 DEF Arrive, Quiet, RequestTypes, Served, Outcomes, Working
    <2>2. Me(t).pc \notin Working /\ UNCHANGED <<env, token, flight, replay>>
      BY <1>1, <2>1 DEF Arrive, NoRequest, Working
    <2> QED
      BY <2>1, <2>2, QuietStep
  <1>2. CASE Respond(t)
    <2>1. Quiet(t, NoRequest)
      BY DEF Quiet, NoRequest, Working
    <2> QED
      BY <1>2, <2>1, QuietStep DEF Respond, Working
  <1>3. CASE Poll(t)
    <2>1. Me(t) \in RequestTypes
      BY <1>3, RequestType DEF Poll, AdmissionInv
    <2>2. PICK next : next = [Me(t) EXCEPT !.pc = "lookup"]
      OBVIOUS
    <2>3. Quiet(t, next)
      BY <2>1, <2>2 DEF Quiet, RequestTypes, Served, Working
    <2>4. request' = [request EXCEPT ![t] = next]
      BY <1>3, <2>2 DEF Poll, Goes, Me
    <2> QED
      BY <1>3, <2>3, <2>4, QuietStep DEF Poll, Working
  <1>4. CASE GiveUp(t)
    <2>1. Quiet(t, Answered(t, "submission_in_progress"))
      BY <1>4, AnsweredWith, "submission_in_progress" \in Outcomes DEF GiveUp, Quiet, Working, Outcomes
    <2> QED
      BY <1>4, <2>1, QuietStep DEF GiveUp, Working
  <1>5. CASE Lookup(t)
    <2>1. Me(t) \in RequestTypes
      BY <1>5, RequestType DEF Lookup, AdmissionInv
    <2>2. CASE replay[Me(t).key] = NoBatch
      <3>1. PICK next : next = [Me(t) EXCEPT !.pc = "join"]
        OBVIOUS
      <3>2. Quiet(t, next)
        BY <2>1, <3>1 DEF Quiet, RequestTypes, Served, Working
      <3>3. request' = [request EXCEPT ![t] = next]
        BY <1>5, <2>2, <3>1 DEF Lookup, Goes, Me
      <3> QED
        BY <1>5, <3>2, <3>3, QuietStep DEF Lookup, Working
    <2>3. CASE replay[Me(t).key] # NoBatch
      <3>1. PICK answer \in {"accepted", "idempotency_conflict"} :
               /\ request' = [request EXCEPT ![t] = Answered(t, answer)]
               /\ answer = "accepted" => replay[Me(t).key].body = Me(t).body
        BY <1>5, <2>3 DEF Lookup
      <3>2. Quiet(t, Answered(t, answer))
        BY <1>5, <3>1, AnsweredWith DEF Lookup, Quiet, Working, Outcomes
      <3> QED
        BY <1>5, <3>1, <3>2, QuietStep DEF Lookup, Working
    <2> QED
      BY <2>2, <2>3
  <1> QED
    BY <1>1, <1>2, <1>3, <1>4, <1>5


LEMMA JoinStep ==
    ASSUME AdmissionInv, NEW t \in Threads, Join(t)
    PROVE  AdmissionInv'
  <1>1. Me(t).pc = "join" /\ Me(t) \in RequestTypes /\ Me(t).key \in Keys
    BY RequestType DEF Join, AdmissionInv
  <1>2. CASE flight[Me(t).key] = NoFlight
    <2>1. /\ flight' = [flight EXCEPT ![Me(t).key] = t] /\ Goes(t, "reserve")
          /\ UNCHANGED <<env, token, replay>>
      BY <1>2 DEF Join
    <2>2. /\ Me(t)' \in RequestTypes /\ Me(t)'.pc = "reserve"
          /\ Me(t)'.key = Me(t).key /\ Me(t)'.body = Me(t).body
          /\ \A u \in Threads \ {t} : Me(u)' = Me(u)
          /\ request' \in [Threads -> RequestTypes \cup {NoRequest}]
      BY <1>1, <2>1, GoesTo DEF Served
    <2>3. AdmissionTypeOK'
      BY <1>1, <2>1, <2>2 DEF AdmissionInv, AdmissionTypeOK
    <2>4. Leads'
      <3>1. \A u \in Threads : Me(u).pc \in Working \cup {"reserve", "wait"} =>
               Me(u).key \in Keys /\ Me(u).key # Me(t).key
        <4>1. ASSUME NEW u \in Threads, Me(u).pc \in Working \cup {"reserve", "wait"}
              PROVE  Me(u).key \in Keys /\ flight[Me(u).key] \in Threads
          <5>1. Me(u).pc # "absent"
            BY <4>1 DEF Working
          <5> QED
            BY <4>1, <5>1, RequestType DEF AdmissionInv, Leads
        <4> QED
          BY <1>2, <4>1, AdmissionAssumption DEF NoFlight
      <3> QED
        BY <1>1, <2>1, <2>2, <3>1 DEF AdmissionInv, AdmissionTypeOK, Leads
    <2>5. \A u \in Threads : Me(u)'.pc \in Working => u # t /\ Me(u)' = Me(u)
      BY <2>2 DEF Working
    <2>6. \A u \in Threads : Me(u).pc \in Working => u # t
      BY <1>1 DEF Working
    <2>7. Reserves'
      BY <2>1, <2>2, <2>5, <2>6 DEF AdmissionInv, Reserves
    <2>8. Unused' /\ Accepted'
      BY <2>1, <2>2 DEF AdmissionInv, Unused, Accepted
    <2>9. MadeOnce'
      BY <2>1 DEF AdmissionInv, MadeOnce
    <2> QED
      BY <2>3, <2>4, <2>7, <2>8, <2>9 DEF AdmissionInv
  <1>3. CASE flight[Me(t).key] # NoFlight
    <2> DEFINE leader == flight[Me(t).key]
    <2>1. leader \in Threads
      BY <1>1, <1>3 DEF AdmissionInv, AdmissionTypeOK
    <2>2. PICK next : /\ request' = [request EXCEPT ![t] = next]
                      /\ \/ next = [Me(t) EXCEPT !.pc = "wait", !.leader = leader]
                         \/ next = Answered(t, "idempotency_conflict")
      BY <1>3 DEF Join, Me
    <2>3. Quiet(t, next)
      <3>1. CASE next = [Me(t) EXCEPT !.pc = "wait", !.leader = leader]
        <4>1. next \in RequestTypes /\ next.pc = "wait" /\ next.leader = leader /\ next.key = Me(t).key
          BY <1>1, <2>1, <3>1 DEF RequestTypes, Served
        <4> QED
          BY <2>1, <4>1 DEF Quiet, Working
      <3>2. CASE next = Answered(t, "idempotency_conflict")
        BY <1>1, <3>2, AnsweredWith, "idempotency_conflict" \in Outcomes DEF Quiet, Working, Outcomes
      <3> QED
        BY <2>2, <3>1, <3>2
    <2> QED
      BY <1>1, <1>3, <2>2, <2>3, QuietStep DEF Join, Working
  <1> QED
    BY <1>2, <1>3

\* The checks of reserve pass only for a token that is free and has made nothing.
LEMMA FreeToken ==
    ASSUME AdmissionInv, NEW t \in Threads, Me(t).pc = "reserve", Refusal(t) = "none"
    PROVE  /\ token[Me(t).body.token].state = "issued"
           /\ \A k \in Keys : replay[k].told => replay[k].body.token # Me(t).body.token
           /\ \A u \in Threads : Me(u).pc \in Working => Me(u).body.token # Me(t).body.token
  <1>1. Me(t).body.token \in Tokens /\ Me(t).body.token # "none"
    BY RequestType DEF AdmissionInv
  <1>2. PICK r \in TokenTypes : r = token[Me(t).body.token]
    BY <1>1 DEF AdmissionInv, AdmissionTypeOK
  <1>3. r.state # "none" /\ ~r.expired /\ r.state \notin {"reserved", "consumed"}
    BY <1>2 DEF Refusal, TokenTypes
  <1>4. r.state = "issued"
    BY <1>3 DEF TokenTypes
  <1>5. \A k \in Keys : replay[k].told => replay[k].body.token # Me(t).body.token
    BY <1>1, <1>2, <1>3, BatchType DEF AdmissionInv, MadeOnce
  <1>6. \A u \in Threads : Me(u).pc \in Working => Me(u).body.token # Me(t).body.token
    BY <1>2, <1>3 DEF AdmissionInv, Reserves
  <1> QED
    BY <1>2, <1>4, <1>5, <1>6

LEMMA RefusalTypes ==
    ASSUME NEW t \in Threads
    PROVE  Refusal(t) \in {"none", "resolution_invalid", "resolution_expired",
                           "resolution_consumed", "resolution_stale"}
  BY DEF Refusal

LEMMA ReserveStep ==
    ASSUME AdmissionInv, NEW t \in Threads, Reserve(t)
    PROVE  AdmissionInv'
  <1> DEFINE k == Me(t).body.token
  <1>1. /\ Me(t).pc = "reserve" /\ Me(t) \in RequestTypes /\ Me(t).key \in Keys /\ k \in Tokens
        /\ Me(t).body \in Bodies
    BY RequestType DEF Reserve, AdmissionInv
  <1>2. CASE Refusal(t) = "none"
    <2>1. /\ token' = [token EXCEPT ![k] =
                          [@ EXCEPT !.state = "reserved", !.key = Me(t).key, !.body = Me(t).body]]
          /\ Goes(t, "check") /\ UNCHANGED <<env, flight, replay>>
      BY <1>2 DEF Reserve
    <2>2. /\ Me(t)' \in RequestTypes /\ Me(t)'.pc = "check"
          /\ Me(t)'.key = Me(t).key /\ Me(t)'.body = Me(t).body
          /\ \A u \in Threads \ {t} : Me(u)' = Me(u)
          /\ request' \in [Threads -> RequestTypes \cup {NoRequest}]
      BY <1>1, <2>1, GoesTo DEF Served
    <2>3. /\ token[k].state = "issued"
          /\ \A l \in Keys : replay[l].told => replay[l].body.token # k
          /\ \A u \in Threads : Me(u).pc \in Working => Me(u).body.token # k
      BY <1>1, <1>2, FreeToken
    <2>4. /\ token' \in [Tokens -> TokenTypes]
          /\ token'[k].state = "reserved" /\ token'[k].key = Me(t).key
          /\ \A l \in Tokens \ {k} : token'[l] = token[l]
      <3>1. token[k] \in TokenTypes /\ token \in [Tokens -> TokenTypes]
        BY <1>1 DEF AdmissionInv, AdmissionTypeOK
      <3>2. PICK r : r = [token[k] EXCEPT !.state = "reserved", !.key = Me(t).key,
                                          !.body = Me(t).body]
        OBVIOUS
      <3>3. r \in TokenTypes /\ r.state = "reserved" /\ r.key = Me(t).key
        BY <1>1, <3>1, <3>2 DEF TokenTypes
      <3>4. token' = [token EXCEPT ![k] = r]
        BY <2>1, <3>2
      <3> QED
        BY <1>1, <3>1, <3>3, <3>4
    <2> HIDE DEF k
    <2>5. AdmissionTypeOK'
      BY <2>1, <2>2, <2>4 DEF AdmissionInv, AdmissionTypeOK
    <2>6. Leads'
      BY <1>1, <2>1, <2>2 DEF AdmissionInv, Leads, Working
    <2>7. \A u \in Threads \ {t} : Me(u).pc \in Working => Me(u).body.token \in Tokens \ {k}
      BY <2>3, RequestType DEF AdmissionInv, Working
    <2>8. Reserves'
      <3>1. ASSUME NEW u \in Threads, Me(u)'.pc \in Working
            PROVE  /\ token'[Me(u)'.body.token].state = "reserved"
                   /\ token'[Me(u)'.body.token].key = Me(u)'.key
        <4>1. CASE u = t
          BY <2>2, <2>4, <4>1 DEF k
        <4>2. CASE u # t
          BY <2>2, <2>4, <2>7, <3>1, <4>2 DEF AdmissionInv, Reserves
        <4> QED
          BY <4>1, <4>2
      <3>2. ASSUME NEW l \in Tokens, token'[l].state = "reserved"
            PROVE  \E u \in Threads : Me(u)'.pc \in Working /\ Me(u)'.body.token = l
        <4>1. CASE l = k
          BY <2>2, <4>1 DEF Working, k
        <4>2. CASE l # k
          <5>1. PICK u \in Threads : Me(u).pc \in Working /\ Me(u).body.token = l
            BY <2>4, <3>2, <4>2 DEF AdmissionInv, Reserves
          <5>2. u # t
            BY <1>1, <5>1 DEF Working
          <5> QED
            BY <2>2, <5>1, <5>2
        <4> QED
          BY <4>1, <4>2
      <3> QED
        BY <3>1, <3>2 DEF Reserves
    <2>9. Unused'
      BY <2>1, <2>2, <2>3 DEF AdmissionInv, Unused, k
    <2>10. Accepted'
      BY <2>1, <2>2 DEF AdmissionInv, Accepted
    <2>11. MadeOnce'
      <3>1. \A l \in Keys : replay[l].told => replay[l].body.token \in Tokens \ {k}
        BY <2>3, BatchType DEF AdmissionInv
      <3> QED
        BY <2>1, <2>4, <3>1 DEF AdmissionInv, MadeOnce
    <2> QED
      BY <2>5, <2>6, <2>8, <2>9, <2>10, <2>11 DEF AdmissionInv
  <1>3. CASE Refusal(t) # "none"
    <2>1. PICK next : Leave(t, next) /\ (next = [Me(t) EXCEPT !.pc = "poll"]
                                         \/ next = Answered(t, Refusal(t)))
      BY <1>3 DEF Reserve
    <2>2. /\ next \in RequestTypes /\ next.pc \in {"poll", "answered"}
          /\ next.key = Me(t).key /\ next.body = Me(t).body
          /\ next.pc = "answered" => next.answer # "accepted"
      <3>1. CASE next = [Me(t) EXCEPT !.pc = "poll"]
        BY <1>1, <3>1 DEF RequestTypes, Served
      <3>2. CASE next = Answered(t, Refusal(t))
        <4>1. Refusal(t) \in Outcomes /\ Refusal(t) # "accepted"
          BY RefusalTypes DEF Outcomes
        <4> QED
          BY <1>1, <3>2, <4>1, AnsweredWith
      <3> QED
        BY <2>1, <3>1, <3>2
    <2>3. UNCHANGED <<env, token, replay>>
      BY <1>3 DEF Reserve
    <2>4. token' \in [Tokens -> TokenTypes]
      BY <2>3 DEF AdmissionInv, AdmissionTypeOK
    <2> QED
      BY <1>1, <2>1, <2>2, <2>3, <2>4, UnchangedIsGrown, LeaveStep DEF Working
  <1> QED
    BY <1>2, <1>3


\* A thread goes on to commit what it has checked.
LEMMA OnStep ==
    ASSUME AdmissionInv, NEW t \in Threads, Me(t).pc = "check",
           Me(t)'.pc = "commit", Me(t)'.key = Me(t).key, Me(t)'.body = Me(t).body,
           \A u \in Threads \ {t} : Me(u)' = Me(u),
           request' \in [Threads -> RequestTypes \cup {NoRequest}],
           UNCHANGED <<env, token, flight, replay>>
    PROVE  AdmissionInv'
  <1>1. AdmissionTypeOK'
    BY DEF AdmissionInv, AdmissionTypeOK
  <1>2. Leads' /\ Reserves'
    BY DEF AdmissionInv, Leads, Reserves, Working
  <1>3. Unused' /\ Accepted' /\ MadeOnce'
    BY DEF AdmissionInv, Unused, Accepted, MadeOnce
  <1> QED
    BY <1>1, <1>2, <1>3 DEF AdmissionInv

\* A thread gives its token back, and answers why.
LEMMA GivesUpToken ==
    ASSUME AdmissionInv, NEW t \in Threads, Me(t).pc \in {"check", "commit"},
           NEW answer \in Outcomes \ {"accepted"}, token' = Released(Me(t).body.token),
           Leave(t, Answered(t, answer)), Grown
    PROVE  AdmissionInv'
  <1>1. Me(t).pc # "absent" /\ Me(t).pc \in Working
    BY DEF Working
  <1>2. Me(t).body.token \in Tokens
    BY <1>1, RequestType DEF AdmissionInv
  <1>3. /\ token' \in [Tokens -> TokenTypes]
        /\ \A l \in Tokens \ {Me(t).body.token} : token'[l] = token[l]
        /\ token'[Me(t).body.token].state # "reserved"
    BY <1>2, ReleasedType
  <1>4. PICK next \in RequestTypes :
           /\ next = Answered(t, answer) /\ next.pc = "answered" /\ next.answer = answer
           /\ next.key = Me(t).key /\ next.body = Me(t).body
    BY <1>1, AnsweredWith
  <1> QED
    BY <1>1, <1>3, <1>4, LeaveStep


LEMMA CheckStep ==
    ASSUME AdmissionInv, NEW t \in Threads, Check(t)
    PROVE  AdmissionInv'
  <1> DEFINE k == Me(t).body.token
  <1>1. /\ Me(t).pc = "check" /\ Me(t) \in RequestTypes /\ Me(t).key \in Keys /\ k \in Tokens
    BY RequestType DEF Check, AdmissionInv
  <1>2. CASE token[k].env = env
    <2>1. Goes(t, "commit") /\ UNCHANGED <<env, token, flight, replay>>
      BY <1>2 DEF Check
    <2>2. /\ Me(t)' \in RequestTypes /\ Me(t)'.pc = "commit"
          /\ Me(t)'.key = Me(t).key /\ Me(t)'.body = Me(t).body
          /\ \A u \in Threads \ {t} : Me(u)' = Me(u)
          /\ request' \in [Threads -> RequestTypes \cup {NoRequest}]
      BY <1>1, <2>1, GoesTo DEF Served
    <2> QED
      BY <1>1, <2>1, <2>2, OnStep DEF Working
  <1>3. CASE token[k].env # env
    <2>1. /\ token' = Released(k) /\ Leave(t, Answered(t, "resolution_stale"))
          /\ UNCHANGED <<env, replay>>
      BY <1>3 DEF Check
    <2> QED
      BY <1>1, <2>1, UnchangedIsGrown, GivesUpToken DEF Outcomes
  <1> QED
    BY <1>2, <1>3

LEMMA CommitStep ==
    ASSUME AdmissionInv, NEW t \in Threads, Commit(t) \/ CommitFails(t)
    PROVE  AdmissionInv'
  <1> DEFINE k == Me(t).body.token
  <1>1. /\ Me(t).pc = "commit" /\ Me(t) \in RequestTypes /\ Me(t).key \in Keys /\ k \in Tokens
        /\ Me(t).body \in Bodies
    BY RequestType DEF Commit, CommitFails, AdmissionInv
  <1>2. ASSUME NEW answer \in {"idempotency_conflict", "store_busy"},
               token' = Released(k), Leave(t, Answered(t, answer)), Grown
        PROVE  AdmissionInv'
    BY <1>1, <1>2, GivesUpToken DEF Outcomes
  <1>batch. ASSUME NEW told \in BOOLEAN
            PROVE  BatchOf(t, told) \in BatchTypes /\ BatchOf(t, told).body = Me(t).body
                   /\ BatchOf(t, told).told = told
    <2>1. token[k].env \in Nat
      BY <1>1 DEF AdmissionInv, AdmissionTypeOK, TokenTypes
    <2> QED
      BY <1>1, <2>1 DEF BatchOf, BatchTypes
  <1>3. CASE CommitFails(t)
    <2>1. Grown
      <3>1. CASE UNCHANGED replay
        BY <1>3, <3>1, UnchangedIsGrown DEF CommitFails
      <3>2. CASE replay[Me(t).key] = NoBatch
                 /\ replay' = [replay EXCEPT ![Me(t).key] = BatchOf(t, FALSE)]
        BY <1>1, <1>3, <1>batch, <3>2 DEF CommitFails, Grown, AdmissionInv, AdmissionTypeOK
      <3> QED
        BY <1>3, <3>1, <3>2 DEF CommitFails
    <2> QED
      BY <1>2, <1>3, <2>1 DEF CommitFails
  <1>4. CASE Commit(t)
    <2>1. \A l \in Keys : replay[l].told => replay[l].body.token # k
      BY <1>1 DEF AdmissionInv, Unused
    <2>2. ASSUME NEW batch \in BatchTypes, batch.body = Me(t).body, batch.told,
                 replay[Me(t).key] = NoBatch \/ replay[Me(t).key].body = Me(t).body,
                 Goes(t, "consume"), replay' = [replay EXCEPT ![Me(t).key] = batch],
                 UNCHANGED <<env, token, flight>>
          PROVE  AdmissionInv'
      <3>1. /\ Me(t)' \in RequestTypes /\ Me(t)'.pc = "consume"
            /\ Me(t)'.key = Me(t).key /\ Me(t)'.body = Me(t).body
            /\ \A u \in Threads \ {t} : Me(u)' = Me(u)
            /\ request' \in [Threads -> RequestTypes \cup {NoRequest}]
        BY <1>1, <2>2, GoesTo DEF Served
      <3>4. /\ replay'[Me(t).key] = batch
            /\ \A l \in Keys \ {Me(t).key} : replay'[l] = replay[l]
            /\ replay' \in [Keys -> BatchTypes \cup {NoBatch}]
        BY <1>1, <2>2 DEF AdmissionInv, AdmissionTypeOK
      <3>5. AdmissionTypeOK'
        BY <2>2, <3>1, <3>4 DEF AdmissionInv, AdmissionTypeOK
      <3>6. Leads'
        BY <1>1, <2>2, <3>1 DEF AdmissionInv, Leads, Working
      <3>7. Reserves'
        BY <1>1, <2>2, <3>1 DEF AdmissionInv, Reserves, Working
      <3>8. Unused'
        <4> SUFFICES ASSUME NEW u \in Threads, Me(u)'.pc \in {"check", "commit"}, NEW l \in Keys,
                            replay'[l].told
                     PROVE  replay'[l].body.token # Me(u)'.body.token
          BY DEF Unused
        <4>1. u # t /\ Me(u)' = Me(u)
          BY <3>1
        <4>2. Me(u).body.token # k
          BY <1>1, <4>1, OneWorker DEF Working
        <4> QED
          BY <2>2, <3>4, <4>1, <4>2 DEF AdmissionInv, Unused
      <3>9. Accepted'
        <4> SUFFICES ASSUME NEW u \in Threads,
                            \/ Me(u)'.pc = "consume"
                            \/ Me(u)'.pc = "answered" /\ Me(u)'.answer = "accepted"
                     PROVE  replay'[Me(u)'.key].body = Me(u)'.body
          BY DEF Accepted
        <4>1. CASE u = t
          BY <2>2, <3>1, <3>4, <4>1
        <4>2. CASE u # t
          <5>1. Me(u)' = Me(u) /\ replay[Me(u).key].body = Me(u).body
            BY <3>1, <4>2 DEF AdmissionInv, Accepted
          <5>2. Me(u).key \in Keys /\ Me(u).body # NoBody
            BY <5>1, RequestType DEF AdmissionInv
          <5>3. replay[Me(u).key] # NoBatch
            BY <5>1, <5>2 DEF NoBatch
          <5> QED
            BY <2>2, <3>4, <5>1, <5>2, <5>3
        <4> QED
          BY <4>1, <4>2
      <3>10. MadeOnce'
        <4>1. \A l \in Keys \ {Me(t).key} : replay'[l].told => replay'[l].body.token # k
          BY <2>1, <3>4
        <4>2. replay'[Me(t).key].body.token = k
          BY <2>2, <3>4
        <4>3. token[k].state = "reserved"
          BY <1>1 DEF AdmissionInv, Reserves, Working
        <4>4. \A l, m \in Keys : l # m /\ replay'[l].told /\ replay'[m].told =>
                 replay'[l].body.token # replay'[m].body.token
          BY <3>4, <4>1, <4>2 DEF AdmissionInv, MadeOnce
        <4>5. \A l \in Keys : replay'[l].told =>
                 \/ token'[replay'[l].body.token].expired
                 \/ token'[replay'[l].body.token].state \in {"reserved", "consumed"}
          BY <2>2, <3>4, <4>2, <4>3 DEF AdmissionInv, MadeOnce
        <4> QED
          BY <4>4, <4>5 DEF MadeOnce
      <3> QED
        BY <3>5, <3>6, <3>7, <3>8, <3>9, <3>10 DEF AdmissionInv
    <2>3. CASE replay[Me(t).key] = NoBatch /\ Goes(t, "consume")
               /\ replay' = [replay EXCEPT ![Me(t).key] = BatchOf(t, TRUE)]
               /\ UNCHANGED <<env, token, flight>>
      BY <1>batch, <2>2, <2>3
    <2>4. CASE replay[Me(t).key].body = Me(t).body /\ Goes(t, "consume")
               /\ replay' = [replay EXCEPT ![Me(t).key].told = TRUE]
               /\ UNCHANGED <<env, token, flight>>
      <3>1. replay[Me(t).key] \in BatchTypes
        <4>1. replay[Me(t).key] # NoBatch
          BY <1>1, <2>4, RequestType DEF NoBatch, AdmissionInv
        <4> QED
          BY <1>1, <4>1 DEF AdmissionInv, AdmissionTypeOK
      <3>2. PICK batch : batch = [replay[Me(t).key] EXCEPT !.told = TRUE]
        OBVIOUS
      <3>3. batch \in BatchTypes /\ batch.body = Me(t).body /\ batch.told
        BY <2>4, <3>1, <3>2 DEF BatchTypes
      <3>4. replay' = [replay EXCEPT ![Me(t).key] = batch]
        BY <2>4, <3>2
      <3> QED
        BY <2>2, <2>4, <3>3, <3>4
    <2> QED
      BY <1>2, <1>4, <2>3, <2>4, UnchangedIsGrown DEF Commit
  <1> QED
    BY <1>1, <1>3, <1>4

LEMMA ConsumeStep ==
    ASSUME AdmissionInv, NEW t \in Threads, Consume(t)
    PROVE  AdmissionInv'
  <1> DEFINE k == Me(t).body.token
  <1>1. /\ Me(t).pc = "consume" /\ Me(t) \in RequestTypes /\ Me(t).key \in Keys /\ k \in Tokens
    BY RequestType DEF Consume, AdmissionInv
  <1>2. /\ token' \in [Tokens -> TokenTypes] /\ token'[k].state = "consumed"
        /\ \A l \in Tokens \ {k} : token'[l] = token[l]
    <2>1. token[k] \in TokenTypes /\ token \in [Tokens -> TokenTypes]
      BY <1>1 DEF AdmissionInv, AdmissionTypeOK
    <2>2. PICK r : r = [token[k] EXCEPT !.state = "consumed"]
      OBVIOUS
    <2>3. r \in TokenTypes /\ r.state = "consumed" /\ token' = [token EXCEPT ![k] = r]
      BY <1>1, <2>1, <2>2 DEF TokenTypes, Consume
    <2> QED
      BY <1>1, <2>1, <2>3
  <1>3. /\ Answered(t, "accepted") \in RequestTypes /\ Answered(t, "accepted").pc = "answered"
        /\ Answered(t, "accepted").key = Me(t).key /\ Answered(t, "accepted").body = Me(t).body
    BY <1>1, AnsweredWith, "accepted" \in Outcomes DEF Outcomes
  <1>4. replay[Me(t).key].body = Me(t).body
    BY <1>1 DEF AdmissionInv, Accepted
  <1>5. Leave(t, Answered(t, "accepted")) /\ UNCHANGED <<env, replay>>
    BY DEF Consume
  <1>6. PICK next \in RequestTypes : next = Answered(t, "accepted")
    BY <1>3
  <1> QED
    BY <1>1, <1>2, <1>3, <1>4, <1>5, <1>6, UnchangedIsGrown, LeaveStep DEF Working


-------------------------------------------------------------------------------
(* Time, the environment and the process *)

LEMMA TokenStep ==
    ASSUME AdmissionInv, NEW k \in Tokens, Issue(k) \/ Expire(k)
    PROVE  AdmissionInv'
  <1>1. token[k] \in TokenTypes /\ token \in [Tokens -> TokenTypes] /\ env \in Nat
    BY DEF AdmissionInv, AdmissionTypeOK
  <1>2. UNCHANGED <<env, flight, request, replay>> /\ \A t \in Threads : Me(t)' = Me(t)
    BY DEF Issue, Expire, Me
  <1>3. PICK r \in TokenTypes :
           /\ token' = [token EXCEPT ![k] = r]
           /\ \/ token[k].state = "none" /\ r.state = "issued"
              \/ r.state = token[k].state /\ r.key = token[k].key /\ r.expired
    <2>1. CASE Issue(k)
      <3>1. PICK r : r = [NoToken EXCEPT !.state = "issued", !.env = env]
        OBVIOUS
      <3>2. r \in TokenTypes /\ r.state = "issued"
        BY <1>1, <3>1 DEF NoToken, TokenTypes
      <3> QED
        BY <2>1, <3>1, <3>2 DEF Issue
    <2>2. CASE Expire(k)
      <3>1. PICK r : r = [token[k] EXCEPT !.expired = TRUE]
        OBVIOUS
      <3>2. r \in TokenTypes /\ r.state = token[k].state /\ r.key = token[k].key /\ r.expired
        BY <1>1, <2>2, <3>1 DEF TokenTypes, Expire
      <3>3. token' = [token EXCEPT ![k] = r]
        BY <2>2, <3>1 DEF Expire
      <3> QED
        BY <3>2, <3>3
    <2> QED
      BY <2>1, <2>2
  <1>4. token'[k] = r /\ \A l \in Tokens \ {k} : token'[l] = token[l]
    BY <1>1, <1>3
  <1>5. AdmissionTypeOK'
    BY <1>1, <1>2, <1>3 DEF AdmissionInv, AdmissionTypeOK
  <1>6. Leads' /\ Unused' /\ Accepted'
    BY <1>2 DEF AdmissionInv, Leads, Unused, Accepted
  <1>7. Reserves'
    <2>1. \A t \in Threads : Me(t).pc \in Working => Me(t).body.token \in Tokens
      BY RequestType DEF AdmissionInv, Working
    <2>2. \A l \in Tokens : token'[l].state = "reserved" <=> token[l].state = "reserved"
      BY <1>3, <1>4
    <2>3. \A l \in Tokens : token[l].state = "reserved" => token'[l].key = token[l].key
      BY <1>3, <1>4
    <2> QED
      BY <1>2, <2>1, <2>2, <2>3 DEF AdmissionInv, Reserves
  <1>8. MadeOnce'
    <2>1. \A l \in Keys : replay[l].told => replay[l].body.token \in Tokens
      BY BatchType DEF AdmissionInv
    <2>2. ASSUME NEW l \in Keys, replay[l].told
          PROVE  \/ token'[replay[l].body.token].expired
                 \/ token'[replay[l].body.token].state \in {"reserved", "consumed"}
      <3>1. \/ token[replay[l].body.token].expired
            \/ token[replay[l].body.token].state \in {"reserved", "consumed"}
        BY <2>2 DEF AdmissionInv, MadeOnce
      <3>2. token[replay[l].body.token].state # "none"
        BY <2>1, <2>2, <3>1 DEF AdmissionInv, AdmissionTypeOK, TokenTypes
      <3> QED
        BY <1>3, <1>4, <2>1, <2>2, <3>1, <3>2
    <2> QED
      BY <1>2, <2>2 DEF AdmissionInv, MadeOnce
  <1> QED
    BY <1>5, <1>6, <1>7, <1>8 DEF AdmissionInv


LEMMA EnvStep ==
    ASSUME AdmissionInv, EnvChanges
    PROVE  AdmissionInv'
  <1>1. UNCHANGED <<token, flight, request, replay>> /\ env' \in Nat
    BY DEF EnvChanges, AdmissionInv, AdmissionTypeOK
  <1> QED
    BY <1>1 DEF AdmissionInv, AdmissionTypeOK, Leads, Reserves, Unused, Accepted, MadeOnce, Me

LEMMA RestartStep ==
    ASSUME AdmissionInv, Restart
    PROVE  AdmissionInv'
  <1>1. UNCHANGED <<env, replay>> /\ flight' = [k \in Keys |-> NoFlight]
    BY DEF Restart
  <1>2. \A t \in Threads : \/ Me(t).pc \in {"absent", "answered"} /\ Me(t)' = Me(t)
                           \/ /\ Me(t)' \in RequestTypes /\ Me(t)'.pc = "answered"
                              /\ Me(t)'.answer = "lost"
    <2> TAKE t \in Threads
    <2>1. Me(t)' = IF Me(t).pc \in {"absent", "answered"} THEN Me(t) ELSE Answered(t, "lost")
      BY DEF Restart, Me
    <2>2. "lost" \in Outcomes
      BY DEF Outcomes
    <2>3. CASE Me(t).pc \in {"absent", "answered"}
      BY <2>1, <2>3
    <2>4. CASE Me(t).pc \notin {"absent", "answered"}
      BY <2>1, <2>2, <2>4, AnsweredWith
    <2> QED
      BY <2>3, <2>4
  <1>3. \A t \in Threads : Me(t)'.pc \notin Working \cup {"reserve", "wait"}
    BY <1>2 DEF Working
  <1>4. /\ token' \in [Tokens -> TokenTypes]
        /\ \A k \in Tokens : /\ token'[k].state # "reserved"
                             /\ token[k].state # "none" => token'[k].expired
    <2>1. ASSUME NEW k \in Tokens
          PROVE  \E r \in TokenTypes :
                    /\ token'[k] = r /\ r.state # "reserved"
                    /\ token[k].state # "none" => r.expired
      <3>1. token[k] \in TokenTypes
        BY DEF AdmissionInv, AdmissionTypeOK
      <3>2. CASE token[k].state = "none"
        <4>1. NoToken \in TokenTypes /\ NoToken.state = "none"
          BY DEF NoToken, TokenTypes
        <4> QED
          BY <3>2, <4>1 DEF Restart
      <3>3. CASE token[k].state # "none"
        <4>1. PICK r : r = [token[k] EXCEPT !.expired = TRUE, !.state = "issued",
                                            !.key = "none", !.body = NoBody]
          OBVIOUS
        <4>2. r \in TokenTypes /\ r.state = "issued" /\ r.expired
          BY <3>1, <4>1 DEF TokenTypes
        <4>3. token'[k] = r
          BY <3>3, <4>1 DEF Restart
        <4> QED
          BY <4>2, <4>3
      <3> QED
        BY <3>2, <3>3
    <2>2. token' = [k \in Tokens |-> token'[k]]
      BY DEF Restart
    <2> QED
      BY <2>1, <2>2
  <1>5. AdmissionTypeOK'
    <2>1. request' = [t \in Threads |-> Me(t)']
      BY DEF Restart, Me
    <2>2. \A t \in Threads : Me(t)' \in RequestTypes \cup {NoRequest}
      BY <1>2, RequestType DEF AdmissionInv
    <2>3. request' \in [Threads -> RequestTypes \cup {NoRequest}]
      BY <2>1, <2>2
    <2> QED
      BY <1>1, <1>4, <2>3 DEF AdmissionInv, AdmissionTypeOK
  <1>6. Leads' /\ Unused'
    BY <1>3 DEF Leads, Unused, Working
  <1>7. Reserves'
    BY <1>3, <1>4 DEF Reserves
  <1>8. Accepted'
    BY <1>1, <1>2 DEF AdmissionInv, Accepted
  <1>9. MadeOnce'
    <2>1. ASSUME NEW l \in Keys, replay[l].told
          PROVE  token'[replay[l].body.token].expired
      <3>1. replay[l].body.token \in Tokens
        BY <2>1, BatchType DEF AdmissionInv
      <3>2. token[replay[l].body.token].state # "none"
        BY <2>1, <3>1 DEF AdmissionInv, AdmissionTypeOK, TokenTypes, MadeOnce
      <3> QED
        BY <1>4, <3>1, <3>2
    <2> QED
      BY <1>1, <2>1 DEF AdmissionInv, MadeOnce
  <1> QED
    BY <1>5, <1>6, <1>7, <1>8, <1>9 DEF AdmissionInv

-------------------------------------------------------------------------------
(* The theorem *)

LEMMA AdmissionStarts == AdmissionInit => AdmissionInv
  <1> SUFFICES ASSUME AdmissionInit PROVE AdmissionInv
    OBVIOUS
  <1>1. \A t \in Threads : Me(t) = NoRequest /\ Me(t).pc = "absent"
    BY DEF AdmissionInit, Me, NoRequest
  <1>2. AdmissionTypeOK
    <2>1. NoToken \in TokenTypes
      BY DEF NoToken, TokenTypes
    <2> QED
      BY <2>1 DEF AdmissionInit, AdmissionTypeOK
  <1>3. Leads /\ Unused /\ Accepted
    BY <1>1 DEF Leads, Unused, Accepted, Working
  <1>4. Reserves
    BY <1>1 DEF AdmissionInit, Reserves, Working, NoToken
  <1>5. MadeOnce
    BY DEF AdmissionInit, MadeOnce, NoBatch
  <1> QED
    BY <1>2, <1>3, <1>4, <1>5 DEF AdmissionInv

LEMMA AdmissionGoesOn == AdmissionInv /\ [AdmissionNext]_admissionVars => AdmissionInv'
  <1> SUFFICES ASSUME AdmissionInv, [AdmissionNext]_admissionVars PROVE AdmissionInv'
    OBVIOUS
  <1>1. CASE UNCHANGED admissionVars
    BY <1>1 DEF admissionVars, AdmissionInv, AdmissionTypeOK, Leads, Reserves, Unused, Accepted,
                MadeOnce, Me
  <1>2. ASSUME NEW t \in Threads, Step(t) \/ GiveUp(t) \/ Respond(t)
        PROVE  AdmissionInv'
    BY <1>2, QuietMoves, JoinStep, ReserveStep, CheckStep, CommitStep, ConsumeStep DEF Step
  <1>3. ASSUME NEW t \in Threads, NEW k \in Keys, NEW b \in Bodies, Arrive(t, k, b)
        PROVE  AdmissionInv'
    BY <1>3, QuietMoves
  <1> QED
    BY <1>1, <1>2, <1>3, TokenStep, EnvStep, RestartStep DEF AdmissionNext

LEMMA InvMeansOnce == AdmissionInv => AdmissionIsOnce
  <1> SUFFICES ASSUME AdmissionInv PROVE AdmissionIsOnce
    OBVIOUS
  <1>1. \A t \in Threads : Me(t).pc = "answered" /\ Me(t).answer = "accepted" =>
           replay[Me(t).key].body = Me(t).body
    BY DEF AdmissionInv, Accepted
  <1>2. /\ \A k, l \in Keys : k # l /\ replay[k].told /\ replay[l].told =>
              replay[k].body.token # replay[l].body.token
        /\ \A k \in Keys : replay[k].told =>
              \/ token[replay[k].body.token].expired
              \/ token[replay[k].body.token].state \in {"reserved", "consumed"}
    BY DEF AdmissionInv, MadeOnce
  <1>3. \A k \in Tokens : token[k].state = "reserved" =>
           \E t \in Threads : Me(t).pc \in {"check", "commit", "consume"} /\ Me(t).body.token = k
    BY DEF AdmissionInv, Reserves, Working
  <1>4. \A t \in Threads : Me(t).pc = "wait" => flight[Me(t).key] = Me(t).leader
    BY DEF AdmissionInv, Leads
  <1> QED
    BY <1>1, <1>2, <1>3, <1>4 DEF AdmissionIsOnce

\* A key stands for one batch and a token for one that anybody was told of: `accepted' is
\* the answer of the committed batch of this body, no token makes two batches that are
\* told, one that made such a batch is not free again, a reserved one is at work, and
\* nobody waits for a flight that has ended.  A commit that raises may have happened
\* (job_admission.py _single_flight, _commit; job_repository.py accept_batch).
THEOREM AdmissionMakesOneBatch == AdmissionSpec => []AdmissionIsOnce
  <1>1. AdmissionInit => AdmissionInv
    BY AdmissionStarts
  <1>2. AdmissionInv /\ [AdmissionNext]_admissionVars => AdmissionInv'
    BY AdmissionGoesOn
  <1>3. AdmissionInv => AdmissionIsOnce
    BY InvMeansOnce
  <1> QED
    BY <1>1, <1>2, <1>3, PTL DEF AdmissionSpec

----------------------------------------------------------------------------
(* Commands. *)

(* Types. *)

CommandPcs == {"absent", "lookup", "read", "check", "commit", "answered"}
PlanStates == {"proposed", "approved", "consumed"}

Codes ==
    AcceptedCodes \cup
    {"none", "idempotency_conflict", "invalid_transition", "revision_conflict", "input_changed",
     "revalidation_failed", "plan_already_approved", "plan_consumed", "plan_not_approved",
     "plan_revision_mismatch", "inventory_stale"}

Requests == [do : Commands \cup {"none"}, of : Nat, key : STRING \cup {"none"}]
BodySet == {<<>>} \cup (Nat \X Nat)
ViewSet ==
    [id : Nat, status : Statuses \cup PlanStates \cup {"paused", "none"}, revision : Nat]
AnswerSet == [code : Codes, view : ViewSet]
RowSet == [body : BodySet, answer : AnswerSet]
JobSet ==
    [status : Statuses, revision : Nat, held : BOOLEAN, resolved : Machines, ready : BOOLEAN,
     retryOf : Nat]
QueueSet == [revision : Nat, dispatch : {"running", "paused"}]
PlanSet == [state : PlanStates, revision : Nat, of : Machines]
ServedSet ==
    [pc : CommandPcs, ask : Requests, body : BodySet, known : RowSet, seen : Machines \cup {0},
     answer : AnswerSet]

CommandTypeOK ==
    /\ job \in Seq(JobSet)
    /\ queue \in QueueSet
    /\ plan \in Seq(PlanSet)
    /\ setup \in Seq(Nat)
    /\ machine \in Machines
    /\ asked \subseteq Requests
    /\ serving \in [Handlers -> ServedSet]
    /\ answers \in [asked -> RowSet]

----------------------------------------------------------------------------
(* The inductive invariant of the commands. *)

\* What a request is of is there, and a job is not older than the request saw it.
Valid(ask, body) ==
    /\ body \in Nat \X Nat
    /\ ask.do \in {"cancel", "retry", "revalidate", "hold"} => ask.of \in DOMAIN job
    /\ ask.do = "revalidate" => body[1] <= job[ask.of].revision
    /\ ask.do = "approve" => ask.of \in DOMAIN plan
    /\ ask.do = "start" => body[1] \in DOMAIN plan

RowsAreValid ==
    \A ask \in asked : answers[ask] # NoRow => Valid(ask, answers[ask].body)

RequestsAreValid ==
    \A h \in Handlers :
        serving[h].pc # "absent" => Scope(h) \in asked /\ Valid(Scope(h), serving[h].body)

\* A request that was answered before it came finds that answer wherever it looks.
KnownIsReplayed ==
    \A h \in Handlers :
        serving[h].pc # "absent" /\ serving[h].known # NoRow =>
            /\ Row(h) = serving[h].known
            /\ serving[h].pc # "read"
            /\ serving[h].pc = "check" => Does(h, "approve")
            /\ serving[h].pc = "answered" => serving[h].answer = Replayed(h)

\* Whoever checks before the transaction has found some state of the machine.
SeenIsAMachine ==
    \A h \in Handlers :
        serving[h].pc = "commit" /\ serving[h].ask.do \in Checks => serving[h].seen \in Machines

SetupsArePlanned == \A n \in DOMAIN setup : setup[n] \in DOMAIN plan

ReadyIsSeen ==
    \A j \in DOMAIN job :
        job[j].status = "blocked" /\ machine = job[j].resolved => job[j].ready

\* A check that found the job ready is of the block that the job is still under.
CheckHolds(h) ==
    serving[h].pc = "commit" /\ Does(h, "revalidate") =>
        \/ job[Target(h)].status # "blocked" \/ ~Current(h) \/ ~Fits(h)
        \/ job[Target(h)].ready

ChecksHold == \A h \in Handlers : CheckHolds(h)

CommandInv ==
    /\ CommandTypeOK /\ RowsAreValid /\ RequestsAreValid /\ KnownIsReplayed
    /\ AcceptedIsRemembered /\ SeenIsAMachine /\ ReadyIsSeen /\ ChecksHold /\ MadeByOneKey
    /\ SetupsArePlanned

----------------------------------------------------------------------------
(* What a step does to one request, to the jobs, to the plans. *)

SameRequest(h, s) ==
    s.ask = serving[h].ask /\ s.body = serving[h].body /\ s.known = serving[h].known

Arrived(s) ==
    /\ s.ask \in asked /\ Valid(s.ask, s.body)
    /\ s.pc \in {"lookup", "check", "commit"}
    /\ s.pc = "check" => s.ask.do = "approve"
    /\ s.pc = "commit" => s.ask.do \notin Checks
    /\ s.known = answers[s.ask]
    /\ answers' = answers /\ job' = job /\ machine' = machine

Left(s) == s.pc = "absent" /\ answers' = answers

\* On the way to the transaction.
Went(h, s) ==
    /\ serving[h].pc \in {"lookup", "read", "check"} /\ SameRequest(h, s)
    /\ \/ s.pc \in {"read", "check"} /\ serving[h].known = NoRow
       \/ s.pc = "commit" /\ serving[h].pc = "check" /\ s.seen = machine
    /\ answers' = answers /\ job' = job /\ machine' = machine

\* Answered by a replay, or refused before anything was known.
Told(h, s) ==
    /\ serving[h].pc # "absent" /\ SameRequest(h, s) /\ s.pc = "answered"
    /\ \/ Row(h) # NoRow /\ s.answer = Replayed(h)
       \/ serving[h].known = NoRow /\ s.answer.code \notin AcceptedCodes
    /\ answers' = answers

Remembers(h, s) ==
    /\ serving[h].pc = "commit" /\ SameRequest(h, s) /\ s.pc = "answered"
    /\ Row(h) = NoRow /\ s.answer.code \in AcceptedCodes
    /\ answers' = [answers EXCEPT ![Scope(h)] =
                        [body |-> serving[h].body, answer |-> s.answer]]

Serves(h, s) ==
    /\ s \in ServedSet /\ serving' = [serving EXCEPT ![h] = s]
    /\ Arrived(s) \/ Left(s) \/ Went(h, s) \/ Told(h, s) \/ Remembers(h, s)

\* A job becomes r.
Moves(j, r) ==
    /\ j \in DOMAIN job /\ r \in JobSet /\ job' = [job EXCEPT ![j] = r]
    /\ r.revision = job[j].revision + 1
    /\ r.resolved = job[j].resolved /\ r.retryOf = job[j].retryOf
    /\ r.status = "blocked" /\ machine = r.resolved => r.ready
    /\ job[j].status = "blocked" /\ r.status \in {"queued", "held"} => job[j].ready

\* A retry is remembered as the job that it made.
Made(h, r) ==
    /\ r \in JobSet /\ job' = Append(job, r) /\ r.status = "queued"
    /\ Does(h, "retry") /\ r.retryOf = Target(h)
    /\ Scope(h) \in asked /\ answers'[Scope(h)].answer.view.id = Len(job) + 1

JobStands == job' = job /\ machine' = machine
JobMoves == machine' = machine /\ \E j, r : Moves(j, r)
JobMade(h) == machine' = machine /\ \E r : Made(h, r)

PlansStand == plan' = plan /\ setup' = setup
PlanMade(h) ==
    /\ setup' = setup
    /\ \E p \in PlanSet : plan' = Append(plan, p) /\ p.state = "proposed"
    /\ Does(h, "plan") /\ Scope(h) \in asked
    /\ answers'[Scope(h)].answer.view.id = Len(plan) + 1
PlanApproved ==
    /\ setup' = setup
    /\ \E n \in DOMAIN plan, p \in PlanSet :
          plan[n].state = "proposed" /\ plan' = [plan EXCEPT ![n] = p]
SetupMade(h) ==
    /\ Does(h, "start") /\ Scope(h) \in asked
    /\ answers'[Scope(h)].answer.view.id = Len(setup) + 1
    /\ \E n \in DOMAIN plan, p \in PlanSet :
          /\ plan[n].state = "approved" /\ p.state = "consumed"
          /\ plan' = [plan EXCEPT ![n] = p]
          /\ setup' = Append(setup, n)

\* A step of a handler, by what it does.
HandlerDoes(h) ==
    /\ queue' \in QueueSet
    /\ \E s : Serves(h, s)
    /\ JobStands \/ JobMoves \/ JobMade(h)
    /\ PlansStand \/ PlanMade(h) \/ PlanApproved \/ SetupMade(h)

----------------------------------------------------------------------------
(* Answers. *)

LEMMA AnswerTypes ==
    /\ \A code \in Codes : RefusedWith(code) \in AnswerSet
    /\ NoAnswer \in AnswerSet /\ NoRow \in RowSet /\ NoRow.answer.view.id = 0
    /\ \A code \in Codes, view \in ViewSet : Answer(code, view) \in AnswerSet
    /\ \A code \in Codes : RefusedWith(code).code = code
    /\ NoCommand \in ServedSet /\ NoCommand.pc = "absent"
<1>1. \A code \in Codes, view \in ViewSet : Answer(code, view) \in AnswerSet
  BY DEF Answer, AnswerSet
<1>2. View(0, "none", 0) \in ViewSet /\ View(0, "none", 0).id = 0
  BY DEF View, ViewSet
<1>3. \A code \in Codes : RefusedWith(code) \in AnswerSet /\ RefusedWith(code).code = code
  BY <1>1, <1>2 DEF RefusedWith, Answer
<1>4. NoAnswer \in AnswerSet /\ NoAnswer.view.id = 0
  <2>1. "none" \in Codes
    BY DEF Codes
  <2>2. NoAnswer = [code |-> "none", view |-> View(0, "none", 0)]
    BY DEF NoAnswer, RefusedWith, Answer
  <2> QED BY <1>2, <2>1, <2>2 DEF AnswerSet
<1>5. NoRow \in RowSet /\ NoRow.answer.view.id = 0
  BY <1>4 DEF NoRow, RowSet, BodySet
<1>6. NoCommand \in ServedSet /\ NoCommand.pc = "absent"
  <2>1. [do |-> "none", of |-> 0, key |-> "none"] \in Requests
    BY DEF Requests
  <2>2. <<>> \in BodySet /\ "absent" \in CommandPcs /\ 0 \in Machines \cup {0}
    BY DEF BodySet, CommandPcs
  <2> QED BY <1>4, <1>5, <2>1, <2>2 DEF NoCommand, ServedSet
<1> QED BY <1>1, <1>3, <1>4, <1>5, <1>6

LEMMA AnswersServes ==
    ASSUME CommandTypeOK, NEW h \in Handlers, NEW a \in AnswerSet, Answers(h, a)
    PROVE  \E s \in ServedSet :
              /\ serving' = [serving EXCEPT ![h] = s]
              /\ SameRequest(h, s) /\ s.pc = "answered" /\ s.answer = a
<1> DEFINE s == [serving[h] EXCEPT !.pc = "answered", !.answer = a]
<1>1. serving[h] \in ServedSet
  BY DEF CommandTypeOK
<1>2. s \in ServedSet
  BY <1>1 DEF ServedSet, CommandPcs
<1>3. SameRequest(h, s) /\ s.pc = "answered" /\ s.answer = a
  BY <1>1 DEF ServedSet, SameRequest
<1>4. serving' = [serving EXCEPT ![h] = s]
  BY DEF Answers, CommandTypeOK
<1> QED BY <1>2, <1>3, <1>4

LEMMA ProceedsServes ==
    ASSUME CommandTypeOK, NEW h \in Handlers, NEW pc \in CommandPcs, Proceeds(h, pc)
    PROVE  \E s \in ServedSet :
              serving' = [serving EXCEPT ![h] = s] /\ SameRequest(h, s) /\ s.pc = pc
<1> DEFINE s == [serving[h] EXCEPT !.pc = pc]
<1>1. serving[h] \in ServedSet
  BY DEF CommandTypeOK
<1>2. s \in ServedSet /\ SameRequest(h, s) /\ s.pc = pc
  BY <1>1 DEF ServedSet, SameRequest
<1>3. serving' = [serving EXCEPT ![h] = s]
  BY DEF Proceeds, CommandTypeOK
<1> QED BY <1>2, <1>3

\* A refusal of a request of which nothing is known.
LEMMA RefuseDoes ==
    ASSUME CommandTypeOK, NEW h \in Handlers, NEW code \in Codes \ AcceptedCodes,
           serving[h].pc # "absent", serving[h].known = NoRow, Refuse(h, code)
    PROVE  HandlerDoes(h)
<1>1. PICK s \in ServedSet :
        /\ serving' = [serving EXCEPT ![h] = s]
        /\ SameRequest(h, s) /\ s.pc = "answered" /\ s.answer = RefusedWith(code)
  BY AnswersServes, AnswerTypes DEF Refuse
<1>2. s.answer.code \notin AcceptedCodes
  BY <1>1, AnswerTypes
<1>3. Told(h, s)
  BY <1>1, <1>2 DEF Told, Refuse, StoreIsLeft
<1>4. Serves(h, s)
  BY <1>1, <1>3 DEF Serves
<1> QED BY <1>4 DEF HandlerDoes, JobStands, PlansStand, Refuse, StoreIsLeft, CommandTypeOK

\* A replay.
LEMMA ReplayDoes ==
    ASSUME CommandTypeOK, NEW h \in Handlers, serving[h].pc # "absent", Scope(h) \in asked,
           Row(h) # NoRow, Answers(h, Replayed(h)),
           UNCHANGED <<job, queue, plan, setup, machine, answers>>
    PROVE  HandlerDoes(h)
<1>0. Replayed(h) \in AnswerSet
  <2>1. Row(h) \in RowSet
    BY DEF Row, CommandTypeOK
  <2>2. "idempotency_conflict" \in Codes
    BY DEF Codes
  <2> QED BY <2>1, <2>2, AnswerTypes DEF Replayed, RowSet
<1>1. PICK s \in ServedSet :
        /\ serving' = [serving EXCEPT ![h] = s]
        /\ SameRequest(h, s) /\ s.pc = "answered" /\ s.answer = Replayed(h)
  BY <1>0, AnswersServes
<1>2. Told(h, s)
  BY <1>1 DEF Told
<1>3. Serves(h, s)
  BY <1>1, <1>2 DEF Serves
<1> QED BY <1>3 DEF HandlerDoes, JobStands, PlansStand, CommandTypeOK

\* An accepted answer is remembered.
LEMMA AcceptServes ==
    ASSUME CommandTypeOK, NEW h \in Handlers, NEW code \in AcceptedCodes, NEW view \in ViewSet,
           serving[h].pc = "commit", Scope(h) \in asked, Row(h) = NoRow, Accept(h, code, view)
    PROVE  /\ \E s : Serves(h, s)
           /\ answers'[Scope(h)].answer.view = view
<1>0. Answer(code, view) \in AnswerSet /\ Answer(code, view).code = code
      /\ Answer(code, view).view = view
  <2>1. code \in Codes
    BY DEF Codes
  <2> QED BY <2>1, AnswerTypes DEF Answer
<1>1. PICK s \in ServedSet :
        /\ serving' = [serving EXCEPT ![h] = s]
        /\ SameRequest(h, s) /\ s.pc = "answered" /\ s.answer = Answer(code, view)
  BY <1>0, AnswersServes DEF Accept
<1>2. Remembers(h, s)
  BY <1>0, <1>1 DEF Remembers, Accept
<1>3. answers'[Scope(h)].answer = Answer(code, view)
  BY DEF Accept, CommandTypeOK
<1> QED BY <1>0, <1>1, <1>2, <1>3 DEF Serves

----------------------------------------------------------------------------
(* What each step of a handler does. *)

\* While a request is under way that was not answered before it came, nothing is known.
LEMMA NothingKnown ==
    ASSUME CommandInv, NEW h \in Handlers, serving[h].pc # "absent",
           \/ serving[h].pc = "read"
           \/ serving[h].pc = "check" /\ ~Does(h, "approve")
           \/ Row(h) = NoRow
    PROVE  serving[h].known = NoRow
BY DEF CommandInv, KnownIsReplayed

LEMMA ScopeIsValid ==
    ASSUME CommandInv, NEW h \in Handlers, serving[h].pc # "absent"
    PROVE  /\ Scope(h) \in asked /\ Valid(Scope(h), serving[h].body)
           /\ Expected(h) \in Nat /\ To(h) \in Nat /\ Target(h) \in Nat
           /\ \A command : Does(h, command) <=> Scope(h).do = command
           /\ Scope(h).of = Target(h)
<1>1. Scope(h) \in asked /\ Valid(Scope(h), serving[h].body)
  BY DEF CommandInv, RequestsAreValid
<1>2. Expected(h) \in Nat /\ To(h) \in Nat
  BY <1>1 DEF Valid, Expected, To
<1>3. Target(h) \in Nat
  BY <1>1 DEF CommandInv, CommandTypeOK, Requests, Scope, Target
<1> QED BY <1>1, <1>2, <1>3 DEF Does, Scope, Target

LEMMA RefusalCodes ==
    {"invalid_transition", "revision_conflict", "input_changed", "revalidation_failed",
     "plan_already_approved", "plan_consumed", "plan_not_approved", "plan_revision_mismatch",
     "inventory_stale"} \subseteq Codes \ AcceptedCodes
BY DEF Codes, AcceptedCodes

LEMMA BodiesAreValid ==
    ASSUME CommandTypeOK, NEW ask \in asked, NEW body \in BodiesOf(ask)
    PROVE  Valid(ask, body)
<1>0. /\ \A j \in DOMAIN job : job[j].revision \in Nat
      /\ \A p \in DOMAIN plan : p \in Nat /\ plan[p].revision \in Nat
      /\ queue.revision \in Nat
  <2>1. \A j \in DOMAIN job : job[j] \in JobSet
    BY DEF CommandTypeOK
  <2>2. \A p \in DOMAIN plan : p \in Nat /\ plan[p] \in PlanSet
    BY DEF CommandTypeOK
  <2> QED BY <2>1, <2>2 DEF CommandTypeOK, JobSet, PlanSet, QueueSet
<1>1. CASE ask.do \in {"cancel", "retry", "revalidate"} /\ ask.of \in DOMAIN job
  <2>1. body \in {Body(r, 0) : r \in 1..job[ask.of].revision}
    BY <1>1 DEF BodiesOf
  <2>2. PICK r \in 1..job[ask.of].revision : body = Body(r, 0)
    BY <2>1
  <2> QED BY <1>0, <1>1, <2>2 DEF Body, Valid
<1>2. CASE ask.do = "hold" /\ ask.of \in DOMAIN job
  <2>1. PICK to \in {0, 1} : body = Body(queue.revision, to)
    BY <1>2 DEF BodiesOf
  <2> QED BY <1>0, <1>2, <2>1 DEF Body, Valid
<1>3. CASE ask.do = "control"
  <2>1. PICK to \in {0, 1} : body = Body(queue.revision, to)
    BY <1>3 DEF BodiesOf
  <2> QED BY <1>0, <1>3, <2>1 DEF Body, Valid
<1>4. CASE ask.do = "plan"
  <2>1. body = Body(0, 0)
    BY <1>4 DEF BodiesOf
  <2> QED BY <1>4, <2>1 DEF Body, Valid
<1>5. CASE ask.do = "approve" /\ ask.of \in DOMAIN plan
  <2>1. body \in {Body(r, 0) : r \in 1..plan[ask.of].revision}
    BY <1>5 DEF BodiesOf
  <2>2. PICK r \in 1..plan[ask.of].revision : body = Body(r, 0)
    BY <2>1
  <2> QED BY <1>0, <1>5, <2>2 DEF Body, Valid
<1>6. CASE ask.do = "start"
  <2>1. body \in UNION {{Body(p, r) : r \in 1..plan[p].revision} : p \in DOMAIN plan}
    BY <1>6 DEF BodiesOf
  <2>2. PICK p \in DOMAIN plan : body \in {Body(p, r) : r \in 1..plan[p].revision}
    BY <2>1
  <2>3. PICK r \in 1..plan[p].revision : body = Body(p, r)
    BY <2>2
  <2> QED BY <1>0, <1>6, <2>2, <2>3 DEF Body, Valid
<1>7. CASE /\ ~(ask.do \in {"cancel", "retry", "revalidate"} /\ ask.of \in DOMAIN job)
           /\ ~(ask.do = "hold" /\ ask.of \in DOMAIN job)
           /\ ~(ask.do = "approve" /\ ask.of \in DOMAIN plan)
           /\ ask.do \notin {"control", "plan", "start"}
  BY <1>7 DEF BodiesOf
<1> QED BY <1>1, <1>2, <1>3, <1>4, <1>5, <1>6, <1>7

LEMMA ArrivesDoes ==
    ASSUME CommandInv, NEW h \in Handlers, CommandArrives(h)
    PROVE  HandlerDoes(h)
<1>1. PICK ask, body :
        /\ ask \in asked
        /\ body \in BodiesOf(ask)
                    \cup (IF answers[ask] = NoRow THEN {} ELSE {answers[ask].body})
        /\ serving' = [serving EXCEPT ![h] =
                [NoCommand EXCEPT !.pc = FirstStep(ask.do), !.ask = ask, !.body = body,
                                  !.known = answers[ask]]]
  BY DEF CommandArrives
<1>2. Valid(ask, body)
  BY <1>1, BodiesAreValid DEF CommandInv, RowsAreValid
<1>3. PICK pc : pc = FirstStep(ask.do)
  OBVIOUS
<1>4. /\ pc \in {"lookup", "check", "commit"}
      /\ pc = "check" => ask.do = "approve"
      /\ pc = "commit" => ask.do \notin Checks
  BY <1>3 DEF FirstStep, LooksUp, Checks
<1>5. PICK s : s = [NoCommand EXCEPT !.pc = pc, !.ask = ask, !.body = body,
                                     !.known = answers[ask]]
  OBVIOUS
<1>6. /\ s \in ServedSet
      /\ s.pc = pc /\ s.ask = ask /\ s.body = body /\ s.known = answers[ask]
  <2>1. /\ NoCommand \in ServedSet /\ pc \in CommandPcs /\ ask \in Requests
        /\ body \in BodySet /\ answers[ask] \in RowSet
    BY <1>1, <1>2, <1>4, AnswerTypes DEF Valid, BodySet, CommandPcs, CommandInv, CommandTypeOK
  <2> QED BY <1>5, <2>1 DEF ServedSet
<1>7. serving' = [serving EXCEPT ![h] = s]
  BY <1>1, <1>3, <1>5
<1>8. Arrived(s)
  BY <1>1, <1>2, <1>4, <1>6 DEF Arrived, CommandArrives
<1>9. Serves(h, s)
  BY <1>6, <1>7, <1>8 DEF Serves
<1> QED BY <1>9 DEF HandlerDoes, JobStands, PlansStand, CommandArrives, CommandInv, CommandTypeOK

LEMMA LeavesDoes ==
    ASSUME CommandInv, NEW h \in Handlers, CommandLeaves(h)
    PROVE  HandlerDoes(h)
<1>1. Serves(h, NoCommand)
  BY AnswerTypes DEF CommandLeaves, Serves, Left
<1> QED BY <1>1 DEF HandlerDoes, JobStands, PlansStand, CommandLeaves, CommandInv, CommandTypeOK

LEMMA LookUpDoes ==
    ASSUME CommandInv, NEW h \in Handlers, LookUp(h)
    PROVE  HandlerDoes(h)
<1>1. CASE Row(h) # NoRow /\ Answers(h, Replayed(h))
  BY <1>1, ScopeIsValid, ReplayDoes DEF LookUp, CommandInv
<1>2. CASE /\ Row(h) = NoRow
           /\ Proceeds(h, IF Does(h, "revalidate") THEN "read" ELSE "check")
  <2>1. PICK pc \in {"read", "check"} : Proceeds(h, pc)
    BY <1>2
  <2>2. PICK s \in ServedSet :
           serving' = [serving EXCEPT ![h] = s] /\ SameRequest(h, s) /\ s.pc = pc
    BY <2>1, ProceedsServes DEF CommandPcs, CommandInv
  <2>3. serving[h].known = NoRow
    BY <1>2, NothingKnown DEF LookUp
  <2>4. Went(h, s)
    BY <2>1, <2>2, <2>3 DEF Went, LookUp
  <2>5. Serves(h, s)
    BY <2>2, <2>4 DEF Serves
  <2> QED BY <2>5 DEF HandlerDoes, JobStands, PlansStand, LookUp, CommandInv, CommandTypeOK
<1> QED BY <1>1, <1>2 DEF LookUp

LEMMA ReadDoes ==
    ASSUME CommandInv, NEW h \in Handlers, Read(h)
    PROVE  HandlerDoes(h)
<1>1. CASE \E code \in {"invalid_transition", "revision_conflict"} : Refuse(h, code)
  <2>1. serving[h].known = NoRow
    BY NothingKnown DEF Read
  <2> QED BY <1>1, <2>1, RefusalCodes, RefuseDoes DEF Read, CommandInv
<1>2. CASE Proceeds(h, "check") /\ UNCHANGED machine /\ StoreIsLeft
  <2>1. PICK s \in ServedSet :
           serving' = [serving EXCEPT ![h] = s] /\ SameRequest(h, s) /\ s.pc = "check"
    BY <1>2, ProceedsServes DEF CommandPcs, CommandInv
  <2>2. serving[h].known = NoRow
    BY NothingKnown DEF Read
  <2>3. Went(h, s)
    BY <1>2, <2>1, <2>2 DEF Went, Read, StoreIsLeft
  <2>4. Serves(h, s)
    BY <2>1, <2>3 DEF Serves
  <2> QED BY <1>2, <2>4 DEF HandlerDoes, JobStands, PlansStand, StoreIsLeft, CommandInv,
                            CommandTypeOK
<1> QED BY <1>1, <1>2 DEF Read

LEMMA SeesDoes ==
    ASSUME CommandInv, NEW h \in Handlers, serving[h].pc = "check", Sees(h)
    PROVE  HandlerDoes(h)
<1>1. PICK s : s = [serving[h] EXCEPT !.pc = "commit", !.seen = machine]
  OBVIOUS
<1>2. s \in ServedSet /\ SameRequest(h, s) /\ s.pc = "commit" /\ s.seen = machine
  <2>1. serving[h] \in ServedSet /\ machine \in Machines
    BY DEF CommandInv, CommandTypeOK
  <2> QED BY <1>1, <2>1 DEF ServedSet, CommandPcs, SameRequest
<1>3. serving' = [serving EXCEPT ![h] = s]
  BY <1>1 DEF Sees, CommandInv, CommandTypeOK
<1>4. Went(h, s)
  BY <1>2 DEF Went, Sees, StoreIsLeft
<1>5. Serves(h, s)
  BY <1>2, <1>3, <1>4 DEF Serves
<1> QED BY <1>5 DEF HandlerDoes, JobStands, PlansStand, Sees, StoreIsLeft, CommandInv,
                    CommandTypeOK

LEMMA ChecksDo ==
    ASSUME CommandInv, NEW h \in Handlers,
           CaptureInput(h) \/ PrestartCheck(h) \/ Observe(h)
    PROVE  HandlerDoes(h)
<1>1. CASE PrestartCheck(h) \/ Observe(h)
  BY <1>1, SeesDoes DEF PrestartCheck, Observe
<1>2. CASE CaptureInput(h)
  <2>1. CASE Sees(h)
    BY <1>2, <2>1, SeesDoes DEF CaptureInput
  <2>2. CASE Refuse(h, "input_changed")
    <3>1. serving[h].known = NoRow
      BY <1>2, NothingKnown DEF CaptureInput, Does
    <3> QED BY <1>2, <2>2, <3>1, RefusalCodes, RefuseDoes DEF CaptureInput, CommandInv
  <2> QED BY <1>2, <2>1, <2>2 DEF CaptureInput
<1> QED BY <1>1, <1>2

----------------------------------------------------------------------------
(* The transactions. *)

LEMMA CommitReplaysDoes ==
    ASSUME CommandInv, NEW h \in Handlers, CommitReplays(h)
    PROVE  HandlerDoes(h)
BY ScopeIsValid, ReplayDoes DEF CommitReplays, CommandInv

LEMMA FreshRefuses ==
    ASSUME CommandInv, NEW h \in Handlers, NEW command, Fresh(h, command),
           NEW code \in Codes \ AcceptedCodes, Refuse(h, code)
    PROVE  HandlerDoes(h)
<1>1. serving[h].pc = "commit" /\ Row(h) = NoRow
  BY DEF Fresh, Commits
<1>2. serving[h].known = NoRow
  BY <1>1, NothingKnown
<1> QED BY <1>1, <1>2, RefuseDoes DEF CommandInv

LEMMA FreshAccepts ==
    ASSUME CommandInv, NEW h \in Handlers, NEW command, Fresh(h, command),
           NEW code \in AcceptedCodes, NEW view \in ViewSet, Accept(h, code, view)
    PROVE  /\ \E s : Serves(h, s)
           /\ answers'[Scope(h)].answer.view = view
           /\ Scope(h) \in asked /\ Does(h, command)
<1>1. serving[h].pc = "commit" /\ Row(h) = NoRow /\ Does(h, command)
  BY DEF Fresh, Commits
<1>2. Scope(h) \in asked
  BY <1>1, ScopeIsValid
<1> QED BY <1>1, <1>2, AcceptServes DEF CommandInv

LEMMA JobViewTypes ==
    ASSUME NEW j \in Nat, j \in DOMAIN job', job' \in Seq(JobSet)
    PROVE  ViewOfJob(j) \in ViewSet /\ ViewOfJob(j).id = j
<1>1. job'[j] \in JobSet
  OBVIOUS
<1> QED BY <1>1 DEF JobSet, ViewOfJob, View, ViewSet

LEMMA PlanViewTypes ==
    ASSUME NEW p \in Nat, p \in DOMAIN plan', plan' \in Seq(PlanSet)
    PROVE  ViewOfPlan(p) \in ViewSet /\ ViewOfPlan(p).id = p
<1>1. plan'[p] \in PlanSet
  OBVIOUS
<1> QED BY <1>1 DEF PlanSet, ViewOfPlan, View, ViewSet

LEMMA QueueViewTypes ==
    ASSUME queue' \in QueueSet
    PROVE  ViewOfQueue \in ViewSet
BY DEF QueueSet, ViewOfQueue, View, ViewSet, Statuses

LEMMA QueueTypes ==
    ASSUME CommandInv, QueueChanges \/ UNCHANGED queue
    PROVE  queue' \in QueueSet
BY DEF CommandInv, CommandTypeOK, QueueSet, QueueChanges

LEMMA JobTypes ==
    ASSUME CommandInv
    PROVE  /\ \A j \in DOMAIN job : job[j] \in JobSet /\ j \in Nat
           /\ job \in Seq(JobSet)
           /\ \A j \in DOMAIN job, r \in JobSet :
                 /\ [job EXCEPT ![j] = r] \in Seq(JobSet)
                 /\ j \in DOMAIN [job EXCEPT ![j] = r]
           /\ \A r \in JobSet :
                 /\ Append(job, r) \in Seq(JobSet)
                 /\ Len(job) + 1 \in DOMAIN Append(job, r)
                 /\ Len(job) + 1 \in Nat
<1>1. job \in Seq(JobSet)
  BY DEF CommandInv, CommandTypeOK
<1>2. \A j \in DOMAIN job : job[j] \in JobSet /\ j \in Nat
  BY <1>1
<1>3. ASSUME NEW j \in DOMAIN job, NEW r \in JobSet
      PROVE  /\ [job EXCEPT ![j] = r] \in Seq(JobSet)
             /\ j \in DOMAIN [job EXCEPT ![j] = r]
  BY <1>1
<1>4. ASSUME NEW r \in JobSet
      PROVE  /\ Append(job, r) \in Seq(JobSet)
             /\ Len(job) + 1 \in DOMAIN Append(job, r)
             /\ Len(job) + 1 \in Nat
  BY <1>1
<1> QED BY <1>1, <1>2, <1>3, <1>4

LEMMA BecomesMoves ==
    ASSUME CommandInv, NEW j \in DOMAIN job, NEW status \in Statuses \ {"blocked"},
           job[j].status = "blocked" /\ status \in {"queued", "held"} => job[j].ready,
           Becomes(j, status)
    PROVE  (\E r : Moves(j, r)) /\ job' \in Seq(JobSet) /\ j \in DOMAIN job'
<1>1. job[j] \in JobSet
  BY JobTypes
<1>2. PICK n \in Nat : n = job[j].revision + 1
  BY <1>1 DEF JobSet
<1>3. PICK r : r = [job[j] EXCEPT !.status = status, !.revision = n, !.ready = FALSE]
  OBVIOUS
<1>4. /\ r \in JobSet /\ r.status = status /\ r.revision = n
      /\ r.resolved = job[j].resolved /\ r.retryOf = job[j].retryOf
  <2>1. PICK ready \in BOOLEAN : ready <=> FALSE
    OBVIOUS
  <2>2. ready = FALSE
    BY <2>1
  <2>3. r = [job[j] EXCEPT !.status = status, !.revision = n, !.ready = ready]
    BY <1>3, <2>2
  <2>4. PICK x \in JobSet : x = job[j]
    BY <1>1
  <2>5. r = [x EXCEPT !.status = status, !.revision = n, !.ready = ready]
    BY <2>3, <2>4
  <2>6. status \in Statuses
    OBVIOUS
  <2>7. /\ r \in JobSet /\ r.status = status /\ r.revision = n
        /\ r.resolved = x.resolved /\ r.retryOf = x.retryOf
    BY ONLY <2>1, <2>5, <2>6, n \in Nat, x \in JobSet DEF JobSet
  <2> QED BY <2>4, <2>7
<1>5. job' = [job EXCEPT ![j] = r]
  BY <1>2, <1>3 DEF Becomes
<1> QED BY <1>2, <1>4, <1>5, JobTypes DEF Moves

LEMMA CancelDoes ==
    ASSUME CommandInv, NEW h \in Handlers, CancelJob(h)
    PROVE  HandlerDoes(h)
<1> DEFINE j == Target(h)
<1>1. Fresh(h, "cancel") /\ j \in DOMAIN job /\ j \in Nat
  BY ScopeIsValid DEF CancelJob, Fresh, Commits, Valid
<1>2. QueueChanges \/ UNCHANGED queue
  BY DEF CancelJob
<1>3. /\ JobStands \/ JobMoves
      /\ job' \in Seq(JobSet) /\ j \in DOMAIN job'
  <2>1. CASE UNCHANGED job
    BY <1>1, <2>1, JobTypes DEF CancelJob, JobStands
  <2>2. CASE \E status \in {"cancelled", "cancelling"} : Becomes(j, status)
    <3>1. PICK status \in {"cancelled", "cancelling"} : Becomes(j, status)
      BY <2>2
    <3>2. status \in Statuses \ {"blocked"} /\ status \notin {"queued", "held"}
      BY <3>1 DEF Statuses
    <3> QED BY <1>1, <3>1, <3>2, BecomesMoves DEF JobMoves, CancelJob
  <2> QED BY <2>1, <2>2 DEF CancelJob
<1>4. PICK v : v = ViewOfJob(j)
  OBVIOUS
<1>5. v \in ViewSet
  BY <1>1, <1>3, <1>4, JobViewTypes
<1>6. \E code \in AcceptedCodes : Accept(h, code, v)
  BY <1>4 DEF CancelJob, AcceptedCodes
<1>7. \E s : Serves(h, s)
  BY <1>1, <1>5, <1>6, FreshAccepts
<1> QED BY <1>2, <1>3, <1>7, QueueTypes DEF HandlerDoes, PlansStand, CancelJob

LEMMA RefuseStaleDoes ==
    ASSUME CommandInv, NEW h \in Handlers, RefuseStale(h)
    PROVE  HandlerDoes(h)
BY FreshRefuses, RefusalCodes DEF RefuseStale

LEMMA RetryDoes ==
    ASSUME CommandInv, NEW h \in Handlers, RetryJob(h)
    PROVE  HandlerDoes(h)
<1>1. /\ Fresh(h, "retry") /\ Target(h) \in DOMAIN job /\ Target(h) \in Nat
      /\ Does(h, "retry")
  BY ScopeIsValid DEF RetryJob, Fresh, Commits, Valid
<1>2. CASE Refuse(h, "invalid_transition")
  BY <1>1, <1>2, FreshRefuses, RefusalCodes
<1>3. CASE /\ job' = Append(job, [status |-> "queued", revision |-> 1, held |-> FALSE,
                                  resolved |-> job[Target(h)].resolved, ready |-> FALSE,
                                  retryOf |-> Target(h)])
           /\ QueueChanges
           /\ Accept(h, "202", ViewOfJob(Len(job) + 1))
           /\ UNCHANGED <<plan, setup, machine>>
  <2>1. PICK r : r = [status |-> "queued", revision |-> 1, held |-> FALSE,
                      resolved |-> job[Target(h)].resolved, ready |-> FALSE,
                      retryOf |-> Target(h)]
    OBVIOUS
  <2>2. r \in JobSet /\ r.status = "queued" /\ r.retryOf = Target(h)
    BY <1>1, <2>1, JobTypes DEF JobSet, Statuses
  <2>3. PICK n \in Nat : n = Len(job) + 1
    BY <2>2, JobTypes
  <2>4. job' = Append(job, r) /\ job' \in Seq(JobSet) /\ n \in DOMAIN job'
    BY <1>3, <2>1, <2>2, <2>3, JobTypes
  <2>5. PICK v : v = ViewOfJob(n)
    OBVIOUS
  <2>6. v \in ViewSet /\ v.id = n
    BY <2>4, <2>5, JobViewTypes
  <2>7. Accept(h, "202", v)
    BY <1>3, <2>3, <2>5
  <2>8. /\ \E s : Serves(h, s)
        /\ answers'[Scope(h)].answer.view = v
        /\ Scope(h) \in asked
    BY <1>1, <2>6, <2>7, FreshAccepts DEF AcceptedCodes
  <2>9. Made(h, r)
    BY <1>1, <2>2, <2>3, <2>4, <2>6, <2>8 DEF Made
  <2> QED BY <1>3, <2>8, <2>9, QueueTypes DEF HandlerDoes, PlansStand, JobMade
<1> QED BY <1>2, <1>3 DEF RetryJob

LEMMA RevalidateDoes ==
    ASSUME CommandInv, NEW h \in Handlers, Revalidate(h)
    PROVE  HandlerDoes(h)
<1> DEFINE j == Target(h)
<1>1. /\ Fresh(h, "revalidate") /\ j \in DOMAIN job /\ j \in Nat /\ Current(h)
      /\ serving[h].pc = "commit" /\ Does(h, "revalidate")
  BY ScopeIsValid DEF Revalidate, Fresh, Commits, Valid
<1>2. CASE \E code \in {"invalid_transition", "revalidation_failed"} : Refuse(h, code)
  BY <1>1, <1>2, FreshRefuses, RefusalCodes
<1>3. CASE /\ job[j].status = "blocked" /\ Fits(h)
           /\ Becomes(j, IF job[j].held THEN "held" ELSE "queued")
           /\ QueueChanges
           /\ Accept(h, "202", ViewOfJob(j))
           /\ UNCHANGED <<plan, setup, machine>>
  <2>1. job[j].ready
    BY <1>1, <1>3 DEF CommandInv, ChecksHold, CheckHolds
  <2>2. PICK status \in {"held", "queued"} : Becomes(j, status)
    BY <1>3
  <2>3. status \in Statuses \ {"blocked"}
    BY <2>2 DEF Statuses
  <2>4. JobMoves /\ job' \in Seq(JobSet) /\ j \in DOMAIN job'
    BY <1>1, <1>3, <2>1, <2>2, <2>3, BecomesMoves DEF JobMoves
  <2>5. PICK v : v = ViewOfJob(j)
    OBVIOUS
  <2>6. v \in ViewSet
    BY <1>1, <2>4, <2>5, JobViewTypes
  <2>7. Accept(h, "202", v)
    BY <1>3, <2>5
  <2>8. \E s : Serves(h, s)
    BY <1>1, <2>6, <2>7, FreshAccepts DEF AcceptedCodes
  <2> QED BY <1>3, <2>4, <2>8, QueueTypes DEF HandlerDoes, PlansStand
<1> QED BY <1>2, <1>3 DEF Revalidate

LEMMA HoldDoes ==
    ASSUME CommandInv, NEW h \in Handlers, HoldItem(h)
    PROVE  HandlerDoes(h)
<1> DEFINE j == Target(h)
<1>1. Fresh(h, "hold") /\ j \in DOMAIN job /\ j \in Nat
  BY ScopeIsValid DEF HoldItem, Fresh, Commits, Valid
<1>2. CASE \E code \in {"invalid_transition", "revision_conflict"} : Refuse(h, code)
  BY <1>1, <1>2, FreshRefuses, RefusalCodes
<1>3. CASE /\ job[j].status \in WAITING
           /\ IF job[j].held = (To(h) = 1) THEN UNCHANGED <<job, queue>>
              ELSE /\ job' = [job EXCEPT ![j].held = (To(h) = 1), ![j].revision = @ + 1,
                        ![j].status = IF @ = "blocked" THEN @
                                      ELSE IF (To(h) = 1) THEN "held" ELSE "queued"]
                   /\ QueueChanges
           /\ Accept(h, "200", ViewOfQueue)
           /\ UNCHANGED <<plan, setup, machine>>
  <2>1. queue' \in QueueSet
    BY <1>3, QueueTypes
  <2>2. JobStands \/ JobMoves
    <3>1. CASE UNCHANGED <<job, queue>>
      BY <1>3, <3>1 DEF JobStands
    <3>2. CASE job' = [job EXCEPT ![j].held = (To(h) = 1), ![j].revision = @ + 1,
                        ![j].status = IF @ = "blocked" THEN @
                                      ELSE IF (To(h) = 1) THEN "held" ELSE "queued"]
      <4>1. PICK x \in JobSet : x = job[j]
        BY <1>1, JobTypes
      <4>2. PICK n \in Nat : n = x.revision + 1
        BY DEF JobSet
      <4>3. PICK held \in BOOLEAN : held <=> To(h) = 1
        OBVIOUS
      <4>4. PICK status \in WAITING :
               /\ status = IF x.status = "blocked" THEN x.status
                           ELSE IF To(h) = 1 THEN "held" ELSE "queued"
               /\ status = "blocked" <=> x.status = "blocked"
        BY DEF WAITING
      <4>5. PICK r : r = [x EXCEPT !.held = held, !.revision = n, !.status = status]
        OBVIOUS
      <4>6. status \in Statuses
        BY <4>4 DEF WAITING, Statuses
      <4>7. /\ r \in JobSet /\ r.status = status /\ r.revision = n
            /\ r.resolved = x.resolved /\ r.retryOf = x.retryOf
        BY ONLY held \in BOOLEAN, n \in Nat, x \in JobSet, <4>5, <4>6 DEF JobSet
      <4>8. r.ready = x.ready
        BY ONLY held \in BOOLEAN, n \in Nat, x \in JobSet, <4>5, <4>6 DEF JobSet
      <4>9. job' = [job EXCEPT ![j] = r]
        <5>1. held = (To(h) = 1)
          BY <4>3
        <5>2. r = [job[j] EXCEPT !.held = (To(h) = 1), !.revision = job[j].revision + 1,
                                 !.status = IF job[j].status = "blocked" THEN job[j].status
                                            ELSE IF (To(h) = 1) THEN "held" ELSE "queued"]
          BY <4>1, <4>2, <4>4, <4>5, <5>1
        <5> QED BY <3>2, <5>2
      <4>10. r.status = "blocked" /\ machine = r.resolved => r.ready
        <5>1. x.status = "blocked" /\ machine = x.resolved => x.ready
          BY <1>1, <4>1 DEF CommandInv, ReadyIsSeen
        <5> QED BY <4>4, <4>7, <4>8, <5>1
      <4>11. ~(job[j].status = "blocked" /\ r.status \in {"queued", "held"})
        BY <4>1, <4>4, <4>7
      <4>12. Moves(j, r)
        BY <1>1, <4>1, <4>2, <4>7, <4>9, <4>10, <4>11 DEF Moves
      <4> QED BY <1>3, <4>12 DEF JobMoves
    <3> QED BY <1>3, <3>1, <3>2
  <2>3. PICK v : v = ViewOfQueue
    OBVIOUS
  <2>4. v \in ViewSet
    BY <2>1, <2>3, QueueViewTypes
  <2>5. Accept(h, "200", v)
    BY <1>3, <2>3
  <2>6. \E s : Serves(h, s)
    BY <1>1, <2>4, <2>5, FreshAccepts DEF AcceptedCodes
  <2> QED BY <1>3, <2>1, <2>2, <2>6 DEF HandlerDoes, PlansStand
<1> QED BY <1>2, <1>3 DEF HoldItem

LEMMA DispatchDoes ==
    ASSUME CommandInv, NEW h \in Handlers, SetDispatch(h)
    PROVE  HandlerDoes(h)
<1>1. Fresh(h, "control")
  BY DEF SetDispatch
<1>2. CASE Refuse(h, "revision_conflict")
  BY <1>1, <1>2, FreshRefuses, RefusalCodes
<1>3. CASE ~Refuse(h, "revision_conflict")
  <2>1. PICK to \in {"running", "paused"} :
           \/ UNCHANGED queue
           \/ queue' = [revision |-> queue.revision + 1, dispatch |-> to]
    BY <1>3 DEF SetDispatch
  <2>2. queue' \in QueueSet
    <3>1. queue \in QueueSet
      BY DEF CommandInv, CommandTypeOK
    <3> QED BY <2>1, <3>1 DEF QueueSet
  <2>3. PICK v : v = ViewOfQueue
    OBVIOUS
  <2>4. v \in ViewSet
    BY <2>2, <2>3, QueueViewTypes
  <2>5. Accept(h, "200", v) /\ UNCHANGED <<job, plan, setup, machine>>
    BY <1>3, <2>3 DEF SetDispatch
  <2>6. \E s : Serves(h, s)
    BY <1>1, <2>4, <2>5, FreshAccepts DEF AcceptedCodes
  <2> QED BY <2>2, <2>5, <2>6 DEF HandlerDoes, PlansStand, JobStands
<1> QED BY <1>2, <1>3

LEMMA PlanTypes ==
    ASSUME CommandInv
    PROVE  /\ \A n \in DOMAIN plan : plan[n] \in PlanSet /\ n \in Nat
           /\ plan \in Seq(PlanSet)
           /\ \A n \in DOMAIN plan, p \in PlanSet :
                 /\ [plan EXCEPT ![n] = p] \in Seq(PlanSet)
                 /\ n \in DOMAIN [plan EXCEPT ![n] = p]
           /\ \A p \in PlanSet :
                 /\ Append(plan, p) \in Seq(PlanSet)
                 /\ Len(plan) + 1 \in DOMAIN Append(plan, p)
                 /\ Len(plan) + 1 \in Nat
<1>1. plan \in Seq(PlanSet)
  BY DEF CommandInv, CommandTypeOK
<1>2. \A n \in DOMAIN plan : plan[n] \in PlanSet /\ n \in Nat
  BY <1>1
<1>3. ASSUME NEW n \in DOMAIN plan, NEW p \in PlanSet
      PROVE  /\ [plan EXCEPT ![n] = p] \in Seq(PlanSet)
             /\ n \in DOMAIN [plan EXCEPT ![n] = p]
  BY <1>1
<1>4. ASSUME NEW p \in PlanSet
      PROVE  /\ Append(plan, p) \in Seq(PlanSet)
             /\ Len(plan) + 1 \in DOMAIN Append(plan, p)
             /\ Len(plan) + 1 \in Nat
  BY <1>1
<1> QED BY <1>1, <1>2, <1>3, <1>4

LEMMA CreatePlanDoes ==
    ASSUME CommandInv, NEW h \in Handlers, CreatePlan(h)
    PROVE  HandlerDoes(h)
<1>1. Fresh(h, "plan") /\ Does(h, "plan") /\ serving[h].pc = "commit"
  BY DEF CreatePlan, Fresh, Commits
<1>2. PICK p : p = [state |-> "proposed", revision |-> 1, of |-> serving[h].seen]
  OBVIOUS
<1>3. p \in PlanSet /\ p.state = "proposed"
  <2>1. serving[h].seen \in Machines
    BY <1>1 DEF CommandInv, SeenIsAMachine, Checks, Does
  <2> QED BY <1>2, <2>1 DEF PlanSet, PlanStates
<1>4. PICK n \in Nat : n = Len(plan) + 1
  BY <1>3, PlanTypes
<1>5. plan' = Append(plan, p) /\ plan' \in Seq(PlanSet) /\ n \in DOMAIN plan'
  BY <1>2, <1>3, <1>4, PlanTypes DEF CreatePlan
<1>6. PICK v : v = ViewOfPlan(n)
  OBVIOUS
<1>7. v \in ViewSet /\ v.id = n
  BY <1>5, <1>6, PlanViewTypes
<1>8. Accept(h, "201", v)
  BY <1>4, <1>6 DEF CreatePlan
<1>9. /\ \E s : Serves(h, s)
      /\ answers'[Scope(h)].answer.view = v
      /\ Scope(h) \in asked
  BY <1>1, <1>7, <1>8, FreshAccepts DEF AcceptedCodes
<1>10. PlanMade(h)
  BY <1>1, <1>3, <1>4, <1>5, <1>7, <1>9 DEF PlanMade, CreatePlan
<1> QED BY <1>9, <1>10, QueueTypes DEF HandlerDoes, JobStands, CreatePlan

LEMMA ApproveDoes ==
    ASSUME CommandInv, NEW h \in Handlers, ApprovePlan(h)
    PROVE  HandlerDoes(h)
<1> DEFINE n == Target(h)
<1>1. Fresh(h, "approve") /\ n \in DOMAIN plan /\ n \in Nat
  BY ScopeIsValid DEF ApprovePlan, Fresh, Commits, Valid
<1>2. CASE \E code \in {"revision_conflict", "plan_already_approved", "plan_consumed",
                        "inventory_stale"} : Refuse(h, code)
  BY <1>1, <1>2, FreshRefuses, RefusalCodes
<1>3. CASE /\ plan[n].state = "proposed"
           /\ plan' = [plan EXCEPT ![n].state = "approved", ![n].revision = @ + 1]
           /\ Accept(h, "201", ViewOfPlan(n))
           /\ UNCHANGED <<job, queue, setup, machine>>
  <2>1. PICK p : p = [plan[n] EXCEPT !.state = "approved", !.revision = plan[n].revision + 1]
    OBVIOUS
  <2>2. p \in PlanSet
    <3>1. PICK x \in PlanSet : x = plan[n]
      BY <1>1, PlanTypes
    <3>2. PICK k \in Nat : k = x.revision + 1
      BY DEF PlanSet
    <3>3. p = [x EXCEPT !.state = "approved", !.revision = k]
      BY <2>1, <3>1, <3>2
    <3> QED BY ONLY x \in PlanSet, k \in Nat, <3>3 DEF PlanSet, PlanStates
  <2>3. plan' = [plan EXCEPT ![n] = p]
    BY <1>3, <2>1
  <2>4. plan' \in Seq(PlanSet) /\ n \in DOMAIN plan'
    BY <1>1, <2>2, <2>3, PlanTypes
  <2>5. PICK v : v = ViewOfPlan(n)
    OBVIOUS
  <2>6. v \in ViewSet
    BY <1>1, <2>4, <2>5, PlanViewTypes
  <2>7. Accept(h, "201", v)
    BY <1>3, <2>5
  <2>8. \E s : Serves(h, s)
    BY <1>1, <2>6, <2>7, FreshAccepts DEF AcceptedCodes
  <2>9. PlanApproved
    BY <1>1, <1>3, <2>2, <2>3 DEF PlanApproved
  <2> QED BY <1>3, <2>8, <2>9, QueueTypes DEF HandlerDoes, JobStands
<1> QED BY <1>2, <1>3 DEF ApprovePlan

LEMMA StartDoes ==
    ASSUME CommandInv, NEW h \in Handlers, StartOperation(h)
    PROVE  HandlerDoes(h)
<1>1. /\ Fresh(h, "start") /\ Expected(h) \in DOMAIN plan /\ Expected(h) \in Nat
      /\ Does(h, "start")
  <2>1. Fresh(h, "start") /\ serving[h].pc = "commit" /\ Does(h, "start")
    BY DEF StartOperation, Fresh, Commits
  <2> QED BY <2>1, ScopeIsValid DEF Valid, Expected
<1>2. CASE \E code \in {"plan_consumed", "plan_not_approved", "plan_revision_mismatch",
                        "inventory_stale"} : Refuse(h, code)
  BY <1>1, <1>2, FreshRefuses, RefusalCodes
<1>3. CASE /\ plan[Expected(h)].state = "approved"
           /\ plan' = [plan EXCEPT ![Expected(h)].state = "consumed",
                                   ![Expected(h)].revision = @ + 1]
           /\ setup' = Append(setup, Expected(h))
           /\ QueueChanges
           /\ Accept(h, "202", View(Len(setup) + 1, "queued", 1))
           /\ UNCHANGED <<job, machine>>
  <2>1. PICK n \in DOMAIN plan : n = Expected(h)
    BY <1>1
  <2>2. PICK p : p = [plan[n] EXCEPT !.state = "consumed", !.revision = plan[n].revision + 1]
    OBVIOUS
  <2>3. p \in PlanSet /\ p.state = "consumed"
    <3>1. PICK x \in PlanSet : x = plan[n]
      BY PlanTypes
    <3>2. PICK k \in Nat : k = x.revision + 1
      BY DEF PlanSet
    <3>3. p = [x EXCEPT !.state = "consumed", !.revision = k]
      BY <2>2, <3>1, <3>2
    <3> QED BY ONLY x \in PlanSet, k \in Nat, <3>3 DEF PlanSet, PlanStates
  <2>4. plan' = [plan EXCEPT ![n] = p] /\ setup' = Append(setup, n)
    BY <1>3, <2>1, <2>2
  <2>5. PICK v : v = View(Len(setup) + 1, "queued", 1)
    OBVIOUS
  <2>6. v \in ViewSet /\ v.id = Len(setup) + 1
    <3>1. Len(setup) + 1 \in Nat
      BY DEF CommandInv, CommandTypeOK
    <3> QED BY <2>5, <3>1 DEF View, ViewSet, Statuses
  <2>7. Accept(h, "202", v)
    BY <1>3, <2>5
  <2>8. /\ \E s : Serves(h, s)
        /\ answers'[Scope(h)].answer.view = v
        /\ Scope(h) \in asked
    BY <1>1, <2>6, <2>7, FreshAccepts DEF AcceptedCodes
  <2>9. SetupMade(h)
    BY <1>1, <1>3, <2>1, <2>3, <2>4, <2>6, <2>8 DEF SetupMade
  <2> QED BY <1>3, <2>8, <2>9, QueueTypes DEF HandlerDoes, JobStands
<1> QED BY <1>2, <1>3 DEF StartOperation

LEMMA HandlerStepDoes ==
    ASSUME CommandInv, NEW h \in Handlers, HandlerStep(h)
    PROVE  HandlerDoes(h)
BY ArrivesDoes, LookUpDoes, ReadDoes, LeavesDoes, ChecksDo, CommitReplaysDoes, RefuseStaleDoes,
   CancelDoes, RetryDoes, RevalidateDoes, HoldDoes, DispatchDoes, CreatePlanDoes, ApproveDoes,
   StartDoes
   DEF HandlerStep

----------------------------------------------------------------------------
(* What every step leaves of the jobs, the plans and the answers. *)

\* The others: a job goes on, or the machine changes.
JobsSeen ==
    /\ machine' \in Machines /\ job' \in Seq(JobSet) /\ DOMAIN job' = DOMAIN job
    /\ \A j \in DOMAIN job :
          /\ job'[j].status = job[j].status /\ job'[j].revision = job[j].revision
          /\ job'[j].resolved = job[j].resolved /\ job'[j].retryOf = job[j].retryOf
          /\ job[j].ready => job'[j].ready
          /\ job[j].status = "blocked" /\ job[j].resolved = machine' => job'[j].ready

OthersDo ==
    /\ JobMoves \/ JobsSeen
    /\ queue' \in QueueSet /\ UNCHANGED <<plan, setup, serving, answers>>

JobsAdvance ==
    /\ machine' \in Machines /\ job' \in Seq(JobSet) /\ ReadyIsSeen'
    /\ \A j \in DOMAIN job :
          /\ j \in DOMAIN job'
          /\ job'[j].resolved = job[j].resolved /\ job'[j].retryOf = job[j].retryOf
          /\ \/ /\ job'[j].revision = job[j].revision /\ job'[j].status = job[j].status
                /\ job[j].ready => job'[j].ready
             \/ job'[j].revision = job[j].revision + 1
          /\ job[j].status = "blocked" /\ job'[j].status \in {"queued", "held"} => job[j].ready
    /\ \A n \in DOMAIN job' \ DOMAIN job :
          \E ask \in asked : /\ ask.do = "retry" /\ ask.of = job'[n].retryOf
                             /\ answers'[ask].answer.view.id = n

PlansAdvance ==
    /\ plan' \in Seq(PlanSet) /\ setup' \in Seq(Nat)
    /\ \A n \in DOMAIN plan :
          n \in DOMAIN plan' /\ (plan[n].state = "consumed" => plan'[n].state = "consumed")
    /\ \A n \in DOMAIN plan' \ DOMAIN plan :
          \E ask \in asked : ask.do = "plan" /\ answers'[ask].answer.view.id = n
    /\ \A n \in DOMAIN setup : n \in DOMAIN setup' /\ setup'[n] = setup[n]
    /\ \A n \in DOMAIN setup' \ DOMAIN setup :
          /\ n = Len(setup) + 1
          /\ setup'[n] \in DOMAIN plan /\ plan[setup'[n]].state # "consumed"
          /\ plan'[setup'[n]].state = "consumed"
          /\ \E ask \in asked : ask.do = "start" /\ answers'[ask].answer.view.id = n

AnswersGrow ==
    /\ answers' \in [asked -> RowSet]
    /\ \A ask \in asked : answers[ask] # NoRow => answers'[ask] = answers[ask]

LEMMA SeqAppends ==
    ASSUME NEW S, NEW q \in Seq(S), NEW x \in S
    PROVE  /\ Append(q, x) \in Seq(S)
           /\ \A n \in DOMAIN q : n \in DOMAIN Append(q, x) /\ Append(q, x)[n] = q[n]
           /\ \A n \in DOMAIN Append(q, x) \ DOMAIN q : n = Len(q) + 1 /\ Append(q, x)[n] = x
OBVIOUS

LEMMA JobMovesAdvance ==
    ASSUME CommandInv, JobMoves
    PROVE  JobsAdvance
<1>1. PICK j, r : Moves(j, r)
  BY DEF JobMoves
<1>2. job' = [job EXCEPT ![j] = r] /\ r \in JobSet /\ j \in DOMAIN job
  BY <1>1 DEF Moves
<1>3. job' \in Seq(JobSet) /\ DOMAIN job' = DOMAIN job /\ job'[j] = r
      /\ \A i \in DOMAIN job : i # j => job'[i] = job[i]
  BY <1>2, JobTypes
<1>4. ReadyIsSeen'
  <2>1. \A i \in DOMAIN job' :
           job'[i].status = "blocked" /\ machine' = job'[i].resolved => job'[i].ready
    BY <1>1, <1>3 DEF Moves, JobMoves, CommandInv, ReadyIsSeen
  <2> QED BY <2>1 DEF ReadyIsSeen
<1>5. ASSUME NEW i \in DOMAIN job
      PROVE  /\ i \in DOMAIN job'
             /\ job'[i].resolved = job[i].resolved /\ job'[i].retryOf = job[i].retryOf
             /\ \/ /\ job'[i].revision = job[i].revision /\ job'[i].status = job[i].status
                   /\ job[i].ready => job'[i].ready
                \/ job'[i].revision = job[i].revision + 1
             /\ job[i].status = "blocked" /\ job'[i].status \in {"queued", "held"}
                    => job[i].ready
  <2>1. CASE i = j
    BY <1>1, <1>3, <2>1 DEF Moves
  <2>2. CASE i # j
    BY <1>3, <2>2
  <2> QED BY <2>1, <2>2
<1>6. machine' \in Machines
  BY DEF JobMoves, CommandInv, CommandTypeOK
<1> QED BY <1>3, <1>4, <1>5, <1>6 DEF JobsAdvance

LEMMA JobsSeenAdvance ==
    ASSUME CommandInv, JobsSeen
    PROVE  JobsAdvance
<1>1. ReadyIsSeen'
  <2>1. \A i \in DOMAIN job' :
           job'[i].status = "blocked" /\ machine' = job'[i].resolved => job'[i].ready
    BY DEF JobsSeen
  <2> QED BY <2>1 DEF ReadyIsSeen
<1> QED BY <1>1 DEF JobsSeen, JobsAdvance

LEMMA JobStandsAdvance ==
    ASSUME CommandInv, JobStands
    PROVE  JobsAdvance
<1>1. ReadyIsSeen'
  BY DEF JobStands, CommandInv, ReadyIsSeen
<1> QED BY <1>1 DEF JobStands, JobsAdvance, CommandInv, CommandTypeOK

LEMMA JobMadeAdvances ==
    ASSUME CommandInv, NEW h \in Handlers, JobMade(h)
    PROVE  JobsAdvance
<1>1. PICK r : Made(h, r)
  BY DEF JobMade
<1>2. job' = Append(job, r) /\ r \in JobSet /\ job \in Seq(JobSet)
  BY <1>1 DEF Made, CommandInv, CommandTypeOK
<1>3. /\ job' \in Seq(JobSet)
      /\ \A n \in DOMAIN job : n \in DOMAIN job' /\ job'[n] = job[n]
      /\ \A n \in DOMAIN job' \ DOMAIN job : n = Len(job) + 1 /\ job'[n] = r
  BY <1>2, SeqAppends
<1>4. ReadyIsSeen'
  <2>1. \A i \in DOMAIN job' :
           job'[i].status = "blocked" /\ machine' = job'[i].resolved => job'[i].ready
    BY <1>1, <1>3 DEF Made, JobMade, CommandInv, ReadyIsSeen
  <2> QED BY <2>1 DEF ReadyIsSeen
<1>5. \A n \in DOMAIN job' \ DOMAIN job :
         \E ask \in asked : /\ ask.do = "retry" /\ ask.of = job'[n].retryOf
                            /\ answers'[ask].answer.view.id = n
  BY <1>1, <1>3 DEF Made, Does, Target, Scope
<1>6. \A j \in DOMAIN job :
         job[j].status = "blocked" /\ job'[j].status \in {"queued", "held"} => job[j].ready
  BY <1>3
<1>7. machine' \in Machines
  BY DEF JobMade, CommandInv, CommandTypeOK
<1> QED BY <1>3, <1>4, <1>5, <1>6, <1>7 DEF JobsAdvance

LEMMA PlansStandAdvance ==
    ASSUME CommandInv, PlansStand
    PROVE  PlansAdvance
BY DEF PlansStand, PlansAdvance, CommandInv, CommandTypeOK

LEMMA PlanMadeAdvances ==
    ASSUME CommandInv, NEW h \in Handlers, PlanMade(h)
    PROVE  PlansAdvance
<1>1. PICK p \in PlanSet : plan' = Append(plan, p)
  BY DEF PlanMade
<1>2. /\ plan' \in Seq(PlanSet)
      /\ \A n \in DOMAIN plan : n \in DOMAIN plan' /\ plan'[n] = plan[n]
      /\ \A n \in DOMAIN plan' \ DOMAIN plan : n = Len(plan) + 1 /\ plan'[n] = p
  BY <1>1, PlanTypes, SeqAppends
<1>3. \A n \in DOMAIN plan' \ DOMAIN plan :
         \E ask \in asked : ask.do = "plan" /\ answers'[ask].answer.view.id = n
  BY <1>2 DEF PlanMade, Does, Scope
<1> QED BY <1>2, <1>3 DEF PlansAdvance, PlanMade, CommandInv, CommandTypeOK

LEMMA PlanApprovedAdvances ==
    ASSUME CommandInv, PlanApproved
    PROVE  PlansAdvance
<1>1. PICK n \in DOMAIN plan, p \in PlanSet :
         plan[n].state = "proposed" /\ plan' = [plan EXCEPT ![n] = p]
  BY DEF PlanApproved
<1>2. /\ plan' \in Seq(PlanSet) /\ DOMAIN plan' = DOMAIN plan
      /\ \A i \in DOMAIN plan : i # n => plan'[i] = plan[i]
  BY <1>1, PlanTypes
<1>3. \A i \in DOMAIN plan : plan[i].state = "consumed" => plan'[i].state = "consumed"
  BY <1>1, <1>2
<1> QED BY <1>2, <1>3 DEF PlansAdvance, PlanApproved, CommandInv, CommandTypeOK

LEMMA SetupMadeAdvances ==
    ASSUME CommandInv, NEW h \in Handlers, SetupMade(h)
    PROVE  PlansAdvance
<1>1. PICK n \in DOMAIN plan, p \in PlanSet :
         /\ plan[n].state = "approved" /\ p.state = "consumed"
         /\ plan' = [plan EXCEPT ![n] = p]
         /\ setup' = Append(setup, n)
  BY DEF SetupMade
<1>2. /\ plan' \in Seq(PlanSet) /\ DOMAIN plan' = DOMAIN plan /\ plan'[n] = p
      /\ \A i \in DOMAIN plan : i # n => plan'[i] = plan[i]
  BY <1>1, PlanTypes
<1>3. \A i \in DOMAIN plan : plan[i].state = "consumed" => plan'[i].state = "consumed"
  BY <1>1, <1>2
<1>4. n \in Nat /\ setup \in Seq(Nat)
  BY PlanTypes DEF CommandInv, CommandTypeOK
<1>5. /\ setup' \in Seq(Nat)
      /\ \A i \in DOMAIN setup : i \in DOMAIN setup' /\ setup'[i] = setup[i]
      /\ \A i \in DOMAIN setup' \ DOMAIN setup : i = Len(setup) + 1 /\ setup'[i] = n
  BY <1>1, <1>4, SeqAppends
<1>6. ASSUME NEW i \in DOMAIN setup' \ DOMAIN setup
      PROVE  /\ i = Len(setup) + 1
             /\ setup'[i] \in DOMAIN plan /\ plan[setup'[i]].state # "consumed"
             /\ plan'[setup'[i]].state = "consumed"
             /\ \E ask \in asked : ask.do = "start" /\ answers'[ask].answer.view.id = i
  BY <1>1, <1>2, <1>5 DEF SetupMade, Does, Scope
<1> QED BY <1>2, <1>3, <1>5, <1>6 DEF PlansAdvance

LEMMA ServesGrow ==
    ASSUME CommandInv, NEW h \in Handlers, NEW s, Serves(h, s)
    PROVE  AnswersGrow
<1>0. answers \in [asked -> RowSet]
  BY DEF CommandInv, CommandTypeOK
<1>1. CASE answers' = answers
  BY <1>0, <1>1 DEF AnswersGrow
<1>2. CASE Remembers(h, s)
  <2>1. PICK row : row = [body |-> serving[h].body, answer |-> s.answer]
    OBVIOUS
  <2>2. row \in RowSet
    <3>1. s \in ServedSet /\ serving[h] \in ServedSet
      BY DEF Serves, CommandInv, CommandTypeOK
    <3> QED BY <2>1, <3>1 DEF ServedSet, RowSet
  <2>3. answers' = [answers EXCEPT ![Scope(h)] = row] /\ answers[Scope(h)] = NoRow
    BY <1>2, <2>1 DEF Remembers, Row
  <2> QED BY <1>0, <2>2, <2>3 DEF AnswersGrow
<1> QED BY <1>1, <1>2 DEF Serves, Arrived, Left, Went, Told

----------------------------------------------------------------------------
(* The steps of the others. *)

LEMMA JobGoesOnDoes ==
    ASSUME CommandInv, NEW j \in DOMAIN job, JobGoesOn(j)
    PROVE  OthersDo
<1>1. PICK status \in Ends(job[j].status) :
         job' = [job EXCEPT ![j].status = status, ![j].revision = @ + 1,
                        ![j].ready = (status = "blocked" /\ machine = job[j].resolved)]
  BY DEF JobGoesOn
<1>2. PICK x \in JobSet : x = job[j]
  BY JobTypes
<1>3. PICK n \in Nat : n = x.revision + 1
  BY DEF JobSet
<1>4. status \in Statuses /\ x.status # "blocked" /\ status \notin {"held"}
  BY <1>1, <1>2 DEF Ends, Statuses
<1>5. PICK ready \in BOOLEAN : ready <=> (status = "blocked" /\ machine = x.resolved)
  OBVIOUS
<1>6. PICK r : r = [x EXCEPT !.status = status, !.revision = n, !.ready = ready]
  OBVIOUS
<1>7. /\ r \in JobSet /\ r.status = status /\ r.revision = n
      /\ r.resolved = x.resolved /\ r.retryOf = x.retryOf
  <2>1. status \in Statuses
    BY <1>4
  <2> QED BY ONLY x \in JobSet, n \in Nat, ready \in BOOLEAN, <2>1, <1>6 DEF JobSet
<1>8. r.ready = ready
  <2>1. status \in Statuses
    BY <1>4
  <2> QED BY ONLY x \in JobSet, n \in Nat, ready \in BOOLEAN, <2>1, <1>6 DEF JobSet
<1>9. job' = [job EXCEPT ![j] = r]
  <2>1. ready = (status = "blocked" /\ machine = job[j].resolved)
    BY <1>2, <1>5
  <2>2. r = [job[j] EXCEPT !.status = status, !.revision = job[j].revision + 1,
                           !.ready = (status = "blocked" /\ machine = job[j].resolved)]
    BY <1>2, <1>3, <1>6, <2>1
  <2> QED BY <1>1, <2>2
<1>10. r.status = "blocked" /\ machine = r.resolved => r.ready
  BY <1>5, <1>7, <1>8
<1>11. Moves(j, r)
  BY <1>2, <1>3, <1>4, <1>7, <1>9, <1>10 DEF Moves
<1>12. queue' \in QueueSet
  BY QueueTypes DEF JobGoesOn
<1> QED BY <1>11, <1>12 DEF OthersDo, JobMoves, JobGoesOn

LEMMA MachineChangesDoes ==
    ASSUME CommandInv, MachineChanges
    PROVE  OthersDo
<1>1. PICK m \in Machines :
         /\ machine' = m
         /\ job' = [j \in DOMAIN job |-> [job[j] EXCEPT
                        !.ready = @ \/ (job[j].status = "blocked" /\ job[j].resolved = m)]]
  BY DEF MachineChanges
<1>2. DOMAIN job' = DOMAIN job
  BY <1>1
<1>3. ASSUME NEW j \in DOMAIN job
      PROVE  /\ job'[j] \in JobSet
             /\ job'[j].status = job[j].status /\ job'[j].revision = job[j].revision
             /\ job'[j].resolved = job[j].resolved /\ job'[j].retryOf = job[j].retryOf
             /\ job[j].ready => job'[j].ready
             /\ job[j].status = "blocked" /\ job[j].resolved = m => job'[j].ready
  <2>1. PICK x \in JobSet : x = job[j]
    BY JobTypes
  <2>2. PICK ready \in BOOLEAN : ready <=> x.ready \/ (x.status = "blocked" /\ x.resolved = m)
    OBVIOUS
  <2>3. x.ready \in BOOLEAN
    BY DEF JobSet
  <2>4. ready = (x.ready \/ (x.status = "blocked" /\ x.resolved = m))
    BY <2>2, <2>3
  <2>5. PICK r : r = [x EXCEPT !.ready = ready]
    OBVIOUS
  <2>6. job'[j] = r
    BY <1>1, <2>1, <2>4, <2>5
  <2>7. /\ r \in JobSet /\ r.status = x.status /\ r.revision = x.revision
        /\ r.resolved = x.resolved /\ r.retryOf = x.retryOf
    BY ONLY x \in JobSet, ready \in BOOLEAN, <2>5 DEF JobSet
  <2>8. r.ready = ready
    BY ONLY x \in JobSet, ready \in BOOLEAN, <2>5 DEF JobSet
  <2> QED BY <2>1, <2>2, <2>6, <2>7, <2>8
<1>4. job' \in Seq(JobSet)
  <2>1. PICK n \in Nat : DOMAIN job = 1..n
    BY DEF CommandInv, CommandTypeOK
  <2>2. job' \in [1..n -> JobSet]
    BY <1>1, <1>2, <1>3, <2>1
  <2> QED BY <2>2
<1>5. JobsSeen
  BY <1>1, <1>2, <1>3, <1>4 DEF JobsSeen
<1> QED BY <1>5 DEF OthersDo, MachineChanges, CommandInv, CommandTypeOK

----------------------------------------------------------------------------
(* Every step advances, and serves one request at most. *)

StepServes ==
    \/ \E h \in Handlers : \E s : Serves(h, s)
    \/ serving' = serving /\ answers' = answers

LEMMA StepAdvances ==
    ASSUME CommandInv, CommandNext
    PROVE  /\ JobsAdvance /\ PlansAdvance /\ AnswersGrow /\ StepServes
           /\ queue' \in QueueSet /\ asked' = asked
<1>0. asked' = asked
  BY DEF CommandNext
<1>1. ASSUME NEW h \in Handlers, HandlerStep(h)
      PROVE  JobsAdvance /\ PlansAdvance /\ AnswersGrow /\ StepServes /\ queue' \in QueueSet
  <2>1. HandlerDoes(h)
    BY <1>1, HandlerStepDoes
  <2>2. JobsAdvance
    BY <2>1, JobStandsAdvance, JobMovesAdvance, JobMadeAdvances DEF HandlerDoes
  <2>3. PlansAdvance
    BY <2>1, PlansStandAdvance, PlanMadeAdvances, PlanApprovedAdvances, SetupMadeAdvances
       DEF HandlerDoes
  <2>4. AnswersGrow /\ StepServes
    BY <2>1, ServesGrow DEF HandlerDoes, StepServes
  <2> QED BY <2>1, <2>2, <2>3, <2>4 DEF HandlerDoes
<1>2. ASSUME OthersDo
      PROVE  JobsAdvance /\ PlansAdvance /\ AnswersGrow /\ StepServes /\ queue' \in QueueSet
  <2>1. JobsAdvance
    BY <1>2, JobMovesAdvance, JobsSeenAdvance DEF OthersDo
  <2>2. PlansAdvance
    BY <1>2, PlansStandAdvance DEF OthersDo, PlansStand
  <2>3. AnswersGrow
    BY <1>2 DEF OthersDo, AnswersGrow, CommandInv, CommandTypeOK
  <2> QED BY <1>2, <2>1, <2>2, <2>3 DEF OthersDo, StepServes
<1>3. CASE \E h \in Handlers : HandlerStep(h)
  BY <1>0, <1>1, <1>3
<1>4. CASE \E j \in DOMAIN job : JobGoesOn(j)
  BY <1>0, <1>2, <1>4, JobGoesOnDoes
<1>5. CASE MachineChanges
  BY <1>0, <1>2, <1>5, MachineChangesDoes
<1> QED BY <1>3, <1>4, <1>5 DEF CommandNext

----------------------------------------------------------------------------
(* What a step leaves true, conjunct by conjunct. *)

LEMMA TypesPreserved ==
    ASSUME CommandInv, JobsAdvance, PlansAdvance, AnswersGrow, StepServes,
           queue' \in QueueSet, asked' = asked
    PROVE  CommandTypeOK'
<1>1. serving \in [Handlers -> ServedSet] /\ asked \subseteq Requests
  BY DEF CommandInv, CommandTypeOK
<1>2. serving' \in [Handlers -> ServedSet]
  BY <1>1 DEF StepServes, Serves
<1>3. job' \in Seq(JobSet) /\ machine' \in Machines
  BY DEF JobsAdvance
<1>4. plan' \in Seq(PlanSet) /\ setup' \in Seq(Nat)
  BY DEF PlansAdvance
<1>5. answers' \in [asked' -> RowSet]
  BY DEF AnswersGrow
<1> QED BY <1>1, <1>2, <1>3, <1>4, <1>5 DEF CommandTypeOK

\* What a request is of stays there.
LEMMA ValidStays ==
    ASSUME CommandInv, JobsAdvance, PlansAdvance, NEW ask, NEW body, Valid(ask, body)
    PROVE  /\ body \in Nat \X Nat
           /\ ask.do \in {"cancel", "retry", "revalidate", "hold"} => ask.of \in DOMAIN job'
           /\ ask.do = "revalidate" => body[1] <= job'[ask.of].revision
           /\ ask.do = "approve" => ask.of \in DOMAIN plan'
           /\ ask.do = "start" => body[1] \in DOMAIN plan'
<1>1. body \in Nat \X Nat
  BY DEF Valid
<1>2. \A j \in DOMAIN job : j \in DOMAIN job'
  BY DEF JobsAdvance
<1>3. \A p \in DOMAIN plan : p \in DOMAIN plan'
  BY DEF PlansAdvance
<1>4. ASSUME ask.do = "revalidate" PROVE body[1] <= job'[ask.of].revision
  <2>1. PICK n \in Nat : n = job[ask.of].revision
    BY <1>4, JobTypes DEF Valid, JobSet
  <2>2. job'[ask.of].revision = n \/ job'[ask.of].revision = n + 1
    BY <1>4, <2>1 DEF Valid, JobsAdvance
  <2>3. body[1] \in Nat /\ body[1] <= n
    BY <1>1, <1>4, <2>1 DEF Valid
  <2> QED BY <2>2, <2>3
<1> QED BY <1>1, <1>2, <1>3, <1>4 DEF Valid

\* Of two times, the row of a request is NoRow, the same, or what its request remembered.
LEMMA RowsStay ==
    ASSUME CommandInv, StepServes, NEW ask \in asked
    PROVE  \/ answers'[ask] = answers[ask]
           \/ /\ answers[ask] = NoRow
              /\ \E h \in Handlers :
                    /\ serving[h].pc # "absent" /\ Scope(h) = ask
                    /\ answers'[ask].body = serving[h].body
<1>1. CASE answers' = answers
  BY <1>1
<1>2. ASSUME NEW h \in Handlers, NEW s, Remembers(h, s)
      PROVE  \/ answers'[ask] = answers[ask]
             \/ /\ answers[ask] = NoRow
                /\ serving[h].pc # "absent" /\ Scope(h) = ask
                /\ answers'[ask].body = serving[h].body
  BY <1>2 DEF Remembers, Row, CommandInv, CommandTypeOK
<1> QED BY <1>1, <1>2 DEF StepServes, Serves, Arrived, Left, Went, Told

LEMMA RowsAreValidPreserved ==
    ASSUME CommandInv, JobsAdvance, PlansAdvance, StepServes, asked' = asked
    PROVE  RowsAreValid'
<1>1. ASSUME NEW ask \in asked, answers'[ask] # NoRow
      PROVE  Valid(ask, answers'[ask].body)
  <2>1. CASE answers'[ask] = answers[ask]
    BY <1>1, <2>1 DEF CommandInv, RowsAreValid
  <2>2. CASE \E h \in Handlers :
                /\ serving[h].pc # "absent" /\ Scope(h) = ask
                /\ answers'[ask].body = serving[h].body
    BY <2>2 DEF CommandInv, RequestsAreValid
  <2> QED BY <2>1, <2>2, RowsStay
<1>2. ASSUME NEW ask \in asked, answers'[ask] # NoRow
      PROVE  LET body == answers'[ask].body IN
             /\ body \in Nat \X Nat
             /\ ask.do \in {"cancel", "retry", "revalidate", "hold"} => ask.of \in DOMAIN job'
             /\ ask.do = "revalidate" => body[1] <= job'[ask.of].revision
             /\ ask.do = "approve" => ask.of \in DOMAIN plan'
             /\ ask.do = "start" => body[1] \in DOMAIN plan'
  BY <1>1, <1>2, ValidStays
<1> QED BY <1>2 DEF RowsAreValid, Valid

LEMMA RequestsAreValidPreserved ==
    ASSUME CommandInv, JobsAdvance, PlansAdvance, StepServes, asked' = asked
    PROVE  RequestsAreValid'
<1>1. ASSUME NEW g \in Handlers, serving'[g].pc # "absent"
      PROVE  serving'[g].ask \in asked /\ Valid(serving'[g].ask, serving'[g].body)
  <2>1. CASE serving'[g] = serving[g]
    BY <1>1, <2>1 DEF CommandInv, RequestsAreValid, Scope
  <2>2. ASSUME NEW s, Serves(g, s)
        PROVE  serving'[g].ask \in asked /\ Valid(serving'[g].ask, serving'[g].body)
    <3>1. serving'[g] = s
      BY <2>2 DEF Serves, CommandInv, CommandTypeOK
    <3>2. CASE Arrived(s)
      BY <3>1, <3>2 DEF Arrived
    <3>3. CASE SameRequest(g, s) /\ serving[g].pc # "absent"
      BY <3>1, <3>3 DEF SameRequest, CommandInv, RequestsAreValid, Scope
    <3> QED BY <1>1, <2>2, <3>1, <3>2, <3>3 DEF Serves, Left, Went, Told, Remembers
  <2>3. serving'[g] = serving[g] \/ \E s : Serves(g, s)
    BY DEF StepServes, Serves, CommandInv, CommandTypeOK
  <2> QED BY <2>1, <2>2, <2>3
<1>2. ASSUME NEW g \in Handlers, serving'[g].pc # "absent"
      PROVE  LET ask == serving'[g].ask
                 body == serving'[g].body
             IN
             /\ ask \in asked'
             /\ body \in Nat \X Nat
             /\ ask.do \in {"cancel", "retry", "revalidate", "hold"} => ask.of \in DOMAIN job'
             /\ ask.do = "revalidate" => body[1] <= job'[ask.of].revision
             /\ ask.do = "approve" => ask.of \in DOMAIN plan'
             /\ ask.do = "start" => body[1] \in DOMAIN plan'
  BY <1>1, <1>2, ValidStays
<1> QED BY <1>2 DEF RequestsAreValid, Valid, Scope

\* A request is another's step's bystander, or the one that is served.
LEMMA OneIsServed ==
    ASSUME CommandInv, StepServes, NEW g \in Handlers
    PROVE  \/ serving'[g] = serving[g]
           \/ \E s : Serves(g, s) /\ serving'[g] = s
BY DEF StepServes, Serves, CommandInv, CommandTypeOK

LEMMA KnownIsReplayedPreserved ==
    ASSUME CommandInv, AnswersGrow, StepServes, asked' = asked
    PROVE  KnownIsReplayed'
<1>1. ASSUME NEW g \in Handlers, serving'[g].pc # "absent", serving'[g].known # NoRow
      PROVE  LET s == serving'[g]
                 row == answers'[s.ask]
             IN
             /\ row = s.known
             /\ s.pc # "read"
             /\ s.pc = "check" => s.ask.do = "approve"
             /\ s.pc = "answered" =>
                    s.answer = IF row.body = s.body THEN row.answer
                               ELSE RefusedWith("idempotency_conflict")
  <2>1. CASE serving'[g] = serving[g]
    <3>1. Row(g) = serving[g].known /\ Scope(g) \in asked
      BY <1>1, <2>1 DEF CommandInv, KnownIsReplayed, RequestsAreValid
    <3>2. answers'[Scope(g)] = Row(g)
      BY <1>1, <2>1, <3>1 DEF AnswersGrow, Row
    <3> QED BY <1>1, <2>1, <3>1, <3>2 DEF CommandInv, KnownIsReplayed, Row, Scope, Does, Replayed
  <2>2. ASSUME NEW s, Serves(g, s), serving'[g] = s
        PROVE  /\ answers'[s.ask] = s.known
               /\ s.pc # "read"
               /\ s.pc = "check" => s.ask.do = "approve"
               /\ s.pc = "answered" =>
                      s.answer = IF answers'[s.ask].body = s.body THEN answers'[s.ask].answer
                                 ELSE RefusedWith("idempotency_conflict")
    <3>1. CASE Arrived(s)
      BY <3>1 DEF Arrived
    <3>2. CASE Went(g, s)
      BY <1>1, <2>2, <3>2 DEF Went, SameRequest, CommandInv, KnownIsReplayed, Row, Scope
    <3>3. CASE Told(g, s)
      BY <1>1, <2>2, <3>3
         DEF Told, SameRequest, CommandInv, KnownIsReplayed, Row, Scope, Replayed
    <3>4. CASE Remembers(g, s)
      BY <1>1, <2>2, <3>4 DEF Remembers, SameRequest, CommandInv, KnownIsReplayed
    <3> QED BY <1>1, <2>2, <3>1, <3>2, <3>3, <3>4 DEF Serves, Left
  <2> QED BY <2>1, <2>2, OneIsServed
<1> QED BY <1>1 DEF KnownIsReplayed, Row, Scope, Does, Replayed

LEMMA AcceptedIsRememberedPreserved ==
    ASSUME CommandInv, AnswersGrow, StepServes, asked' = asked
    PROVE  AcceptedIsRemembered'
<1>1. NoRow.answer.code \notin AcceptedCodes
      /\ RefusedWith("idempotency_conflict").code \notin AcceptedCodes
  BY DEF NoRow, NoAnswer, RefusedWith, Answer, AcceptedCodes
<1>2. ASSUME NEW g \in Handlers, serving'[g].pc = "answered",
             serving'[g].answer.code \in AcceptedCodes
      PROVE  answers'[serving'[g].ask] = [body |-> serving'[g].body, answer |-> serving'[g].answer]
  <2>1. CASE serving'[g] = serving[g]
    <3>1. /\ Row(g) = [body |-> serving[g].body, answer |-> serving[g].answer]
          /\ Scope(g) \in asked
      BY <1>2, <2>1 DEF CommandInv, AcceptedIsRemembered, RequestsAreValid
    <3>2. Row(g).answer = serving[g].answer
      BY <3>1
    <3>3. Row(g) # NoRow
      BY <1>1, <1>2, <2>1, <3>2
    <3>4. answers'[Scope(g)] = Row(g)
      BY <3>1, <3>3 DEF AnswersGrow, Row
    <3> QED BY <2>1, <3>1, <3>4 DEF Scope
  <2>2. ASSUME NEW s, Serves(g, s), serving'[g] = s
        PROVE  answers'[s.ask] = [body |-> s.body, answer |-> s.answer]
    <3>1. CASE Told(g, s)
      <4>1. s.answer = Replayed(g) /\ Scope(g) \in asked
        BY <1>2, <2>2, <3>1 DEF Told, CommandInv, RequestsAreValid
      <4>2. Row(g).body = serving[g].body /\ s.answer = Row(g).answer
        BY <1>1, <1>2, <2>2, <4>1 DEF Replayed
      <4>3. Row(g) \in RowSet
        BY <4>1 DEF Row, CommandInv, CommandTypeOK
      <4>4. Row(g) = [body |-> serving[g].body, answer |-> s.answer]
        BY <4>2, <4>3 DEF RowSet
      <4> QED BY <3>1, <4>4 DEF Told, SameRequest, Row, Scope
    <3>2. CASE Remembers(g, s)
      <4>1. Scope(g) \in asked
        BY <3>2 DEF Remembers, CommandInv, RequestsAreValid
      <4> QED BY <3>2, <4>1 DEF Remembers, SameRequest, Scope, CommandInv, CommandTypeOK
    <3> QED BY <1>2, <2>2, <3>1, <3>2 DEF Serves, Arrived, Left, Went
  <2> QED BY <2>1, <2>2, OneIsServed
<1> QED BY <1>2 DEF AcceptedIsRemembered, Row, Scope

LEMMA SeenIsAMachinePreserved ==
    ASSUME CommandInv, StepServes
    PROVE  SeenIsAMachine'
<1>1. ASSUME NEW g \in Handlers, serving'[g].pc = "commit", serving'[g].ask.do \in Checks
      PROVE  serving'[g].seen \in Machines
  <2>1. CASE serving'[g] = serving[g]
    BY <1>1, <2>1 DEF CommandInv, SeenIsAMachine
  <2>2. ASSUME NEW s, Serves(g, s), serving'[g] = s
        PROVE  s.seen \in Machines
    BY <1>1, <2>2 DEF Serves, Arrived, Left, Went, Told, Remembers, CommandInv, CommandTypeOK
  <2> QED BY <2>1, <2>2, OneIsServed
<1> QED BY <1>1 DEF SeenIsAMachine

\* A job that is still as the request saw it has not moved since the check.
LEMMA ChecksHoldPreserved ==
    ASSUME CommandInv, JobsAdvance, StepServes
    PROVE  ChecksHold'
<1>1. ASSUME NEW g \in Handlers, serving'[g].pc = "commit", serving'[g].ask.do = "revalidate"
      PROVE  LET s == serving'[g]
                 j == s.ask.of
             IN
             \/ job'[j].status # "blocked" \/ job'[j].revision # s.body[1]
             \/ s.seen # job'[j].resolved
             \/ job'[j].ready
  <2>1. CASE serving'[g] = serving[g]
    <3> DEFINE j == Target(g)
    <3>1. j \in DOMAIN job /\ Expected(g) \in Nat /\ Expected(g) <= job[j].revision
      BY <1>1, <2>1, ScopeIsValid DEF Valid, Scope, Expected, Target
    <3>2. job[j].revision \in Nat
      BY <3>1, JobTypes DEF JobSet
    <3>3. CASE job'[j].revision = job[j].revision + 1
      <4>1. job'[j].revision # Expected(g)
        BY <3>1, <3>2, <3>3
      <4> QED BY <2>1, <4>1 DEF Target, Expected
    <3>4. CASE /\ job'[j].revision = job[j].revision /\ job'[j].status = job[j].status
               /\ job[j].ready => job'[j].ready
      <4>1. CheckHolds(g)
        BY DEF CommandInv, ChecksHold
      <4>2. job'[j].resolved = job[j].resolved
        BY <3>1 DEF JobsAdvance
      <4> QED BY <1>1, <2>1, <3>4, <4>1, <4>2
              DEF CheckHolds, Current, Fits, Does, Target, Expected
    <3> QED BY <3>1, <3>3, <3>4 DEF JobsAdvance
  <2>2. ASSUME NEW s, Serves(g, s), serving'[g] = s
        PROVE  \/ job'[s.ask.of].status # "blocked" \/ job'[s.ask.of].revision # s.body[1]
               \/ s.seen # job'[s.ask.of].resolved
               \/ job'[s.ask.of].ready
    <3>1. Went(g, s)
      BY <1>1, <2>2 DEF Serves, Arrived, Left, Told, Remembers, Checks
    <3>2. s.seen = machine /\ job' = job /\ s.ask.of = Target(g)
      BY <1>1, <2>2, <3>1 DEF Went, SameRequest, Target
    <3>3. Target(g) \in DOMAIN job
      BY <1>1, <2>2, <3>1, ScopeIsValid DEF Went, SameRequest, Valid, Scope, Target
    <3> QED BY <3>2, <3>3 DEF CommandInv, ReadyIsSeen
  <2> QED BY <2>1, <2>2, OneIsServed
<1> QED BY <1>1 DEF ChecksHold, CheckHolds, Current, Fits, Does, Target, Expected

LEMMA MadeByOneKeyPreserved ==
    ASSUME CommandInv, JobsAdvance, PlansAdvance, AnswersGrow, asked' = asked
    PROVE  MadeByOneKey'
<1>1. ASSUME NEW ask \in asked, NEW n \in Nat \ {0}, answers[ask].answer.view.id = n
      PROVE  answers'[ask].answer.view.id = n
  <2>1. answers[ask] # NoRow
    BY <1>1, AnswerTypes
  <2> QED BY <1>1, <2>1 DEF AnswersGrow
<1>2. /\ \A n \in DOMAIN job : n \in Nat \ {0}
      /\ \A n \in DOMAIN plan : n \in Nat \ {0}
      /\ \A n \in DOMAIN setup : n \in Nat \ {0}
      /\ \A n \in DOMAIN setup : n # Len(setup) + 1
  BY DEF CommandInv, CommandTypeOK
<1>3. ASSUME NEW n \in DOMAIN job', job'[n].retryOf # 0
      PROVE  \E ask \in asked : /\ ask.do = "retry" /\ ask.of = job'[n].retryOf
                                /\ answers'[ask].answer.view.id = n
  <2>1. CASE n \in DOMAIN job
    <3>1. job'[n].retryOf = job[n].retryOf
      BY <2>1 DEF JobsAdvance
    <3>2. PICK ask \in asked : /\ ask.do = "retry" /\ ask.of = job[n].retryOf
                               /\ answers[ask].answer.view.id = n
      BY <1>3, <2>1, <3>1 DEF CommandInv, MadeByOneKey
    <3> QED BY <1>1, <1>2, <2>1, <3>1, <3>2
  <2> QED BY <2>1 DEF JobsAdvance
<1>4. ASSUME NEW n \in DOMAIN plan'
      PROVE  \E ask \in asked : ask.do = "plan" /\ answers'[ask].answer.view.id = n
  <2>1. CASE n \in DOMAIN plan
    <3>1. PICK ask \in asked : ask.do = "plan" /\ answers[ask].answer.view.id = n
      BY <2>1 DEF CommandInv, MadeByOneKey
    <3> QED BY <1>1, <1>2, <2>1, <3>1
  <2> QED BY <2>1 DEF PlansAdvance
<1>5. ASSUME NEW n \in DOMAIN setup'
      PROVE  /\ plan'[setup'[n]].state = "consumed"
             /\ \E ask \in asked : ask.do = "start" /\ answers'[ask].answer.view.id = n
  <2>1. CASE n \in DOMAIN setup
    <3>1. setup'[n] = setup[n] /\ plan[setup[n]].state = "consumed"
      BY <2>1 DEF PlansAdvance, CommandInv, MadeByOneKey
    <3>2. setup[n] \in DOMAIN plan
      BY <2>1 DEF CommandInv, SetupsArePlanned
    <3>3. PICK ask \in asked : ask.do = "start" /\ answers[ask].answer.view.id = n
      BY <2>1 DEF CommandInv, MadeByOneKey
    <3>4. \E a \in asked : a.do = "start" /\ answers'[a].answer.view.id = n
      BY <1>1, <1>2, <2>1, <3>3
    <3> QED BY <3>1, <3>2, <3>4 DEF PlansAdvance
  <2> QED BY <2>1 DEF PlansAdvance
<1>6. ASSUME NEW m \in DOMAIN setup', NEW n \in DOMAIN setup', setup'[m] = setup'[n]
      PROVE  m = n
  <2>1. \A i \in DOMAIN setup : setup'[i] = setup[i] /\ plan[setup[i]].state = "consumed"
    BY DEF PlansAdvance, CommandInv, MadeByOneKey
  <2>2. \A i \in DOMAIN setup' \ DOMAIN setup :
           i = Len(setup) + 1 /\ plan[setup'[i]].state # "consumed"
    BY DEF PlansAdvance
  <2>3. CASE m \in DOMAIN setup /\ n \in DOMAIN setup
    BY <1>6, <2>1, <2>3 DEF CommandInv, MadeByOneKey
  <2>4. CASE m \notin DOMAIN setup /\ n \notin DOMAIN setup
    BY <2>2, <2>4
  <2>5. CASE ~(m \in DOMAIN setup <=> n \in DOMAIN setup)
    BY <1>6, <2>1, <2>2, <2>5
  <2> QED BY <2>3, <2>4, <2>5
<1> QED BY <1>3, <1>4, <1>5, <1>6 DEF MadeByOneKey

LEMMA SetupsArePlannedPreserved ==
    ASSUME CommandInv, PlansAdvance
    PROVE  SetupsArePlanned'
<1>1. ASSUME NEW n \in DOMAIN setup'
      PROVE  setup'[n] \in DOMAIN plan'
  <2>1. CASE n \in DOMAIN setup
    BY <2>1 DEF PlansAdvance, CommandInv, SetupsArePlanned
  <2> QED BY <2>1 DEF PlansAdvance
<1> QED BY <1>1 DEF SetupsArePlanned

----------------------------------------------------------------------------
LEMMA CommandInvInit == CommandInit => CommandInv
<1> SUFFICES ASSUME CommandInit PROVE CommandInv
  OBVIOUS
<1>1. PICK scene \in Scenes : job = scene.jobs /\ asked = scene.asked
  BY DEF CommandInit
<1>2. asked \subseteq Requests /\ job \in Seq(FirstJob)
  <2>1. asked \subseteq [do : Commands, of : Nat, key : STRING]
    BY <1>1, CommandsAssumption
  <2> QED BY <1>1, <2>1, CommandsAssumption DEF Requests
<1>3. \A j \in DOMAIN job : job[j] \in FirstJob
  BY <1>2
<1>4. job \in Seq(JobSet)
  <2>1. ASSUME NEW x \in FirstJob PROVE x \in JobSet
    <3>1. PICK R : R = {FALSE}
      OBVIOUS
    <3>2. R \subseteq BOOLEAN
      BY <3>1
    <3>3. x \in [status : Statuses \ {"blocked"}, revision : Nat \ {0}, held : BOOLEAN,
                 resolved : Machines, ready : R, retryOf : {0}]
      BY <3>1 DEF FirstJob
    <3> QED BY <3>2, <3>3 DEF JobSet
  <2>2. PICK n \in Nat : job \in [1..n -> FirstJob]
    BY <1>2
  <2>3. job \in [1..n -> JobSet]
    BY <2>1, <2>2
  <2> QED BY <2>3
<1>5. \A h \in Handlers : serving[h] = NoCommand
  BY DEF CommandInit
<1>6. CommandTypeOK
  <2>1. serving \in [Handlers -> ServedSet]
    BY AnswerTypes DEF CommandInit
  <2>2. answers \in [asked -> RowSet]
    BY AnswerTypes DEF CommandInit
  <2>3. queue \in QueueSet /\ plan \in Seq(PlanSet) /\ setup \in Seq(Nat) /\ machine \in Machines
    BY DEF CommandInit, QueueSet
  <2> QED BY <1>2, <1>4, <2>1, <2>2, <2>3 DEF CommandTypeOK
<1>7. RowsAreValid
  BY DEF CommandInit, RowsAreValid
<1>8. \A h \in Handlers : serving[h].pc = "absent"
  BY <1>5, AnswerTypes
<1>9. /\ RequestsAreValid /\ KnownIsReplayed /\ AcceptedIsRemembered /\ SeenIsAMachine
      /\ ChecksHold
  BY <1>8 DEF RequestsAreValid, KnownIsReplayed, AcceptedIsRemembered, SeenIsAMachine,
              ChecksHold, CheckHolds
<1>10. ReadyIsSeen
  BY <1>3 DEF ReadyIsSeen, FirstJob
<1>11. MadeByOneKey /\ SetupsArePlanned
  <2>1. \A j \in DOMAIN job : job[j].retryOf = 0
    BY <1>3 DEF FirstJob
  <2>2. DOMAIN plan = {} /\ DOMAIN setup = {}
    BY DEF CommandInit
  <2> QED BY <2>1, <2>2 DEF MadeByOneKey, SetupsArePlanned
<1> QED BY <1>6, <1>7, <1>9, <1>10, <1>11 DEF CommandInv

LEMMA CommandInvStep == CommandInv /\ CommandNext => CommandInv' /\ BlockIsLiftedReady
<1> SUFFICES ASSUME CommandInv, CommandNext PROVE CommandInv' /\ BlockIsLiftedReady
  OBVIOUS
<1>1. /\ JobsAdvance /\ PlansAdvance /\ AnswersGrow /\ StepServes
      /\ queue' \in QueueSet /\ asked' = asked
  BY StepAdvances
<1>2. CommandTypeOK' /\ RowsAreValid' /\ RequestsAreValid'
  BY <1>1, TypesPreserved, RowsAreValidPreserved, RequestsAreValidPreserved
<1>3. KnownIsReplayed' /\ AcceptedIsRemembered' /\ SeenIsAMachine' /\ ChecksHold'
  BY <1>1, KnownIsReplayedPreserved, AcceptedIsRememberedPreserved, SeenIsAMachinePreserved,
     ChecksHoldPreserved
<1>4. MadeByOneKey' /\ SetupsArePlanned' /\ ReadyIsSeen'
  BY <1>1, MadeByOneKeyPreserved, SetupsArePlannedPreserved DEF JobsAdvance
<1>5. BlockIsLiftedReady
  BY <1>1 DEF JobsAdvance, BlockIsLiftedReady
<1> QED BY <1>2, <1>3, <1>4, <1>5 DEF CommandInv

LEMMA CommandInvStutter == CommandInv /\ UNCHANGED commandVars => CommandInv' /\ BlockIsLiftedReady
<1> SUFFICES ASSUME CommandInv, UNCHANGED commandVars PROVE CommandInv' /\ BlockIsLiftedReady
  OBVIOUS
<1>1. /\ job' = job /\ queue' = queue /\ plan' = plan /\ setup' = setup /\ machine' = machine
      /\ asked' = asked /\ serving' = serving /\ answers' = answers
  BY DEF commandVars
<1>2. CommandTypeOK' /\ ReadyIsSeen' /\ SetupsArePlanned' /\ SeenIsAMachine'
  BY <1>1 DEF CommandInv, CommandTypeOK, ReadyIsSeen, SetupsArePlanned, SeenIsAMachine
<1>3. RowsAreValid' /\ RequestsAreValid'
  BY <1>1 DEF CommandInv, RowsAreValid, RequestsAreValid, Valid, Scope
<1>4. KnownIsReplayed' /\ AcceptedIsRemembered'
  BY <1>1 DEF CommandInv, KnownIsReplayed, AcceptedIsRemembered, Row, Scope, Does, Replayed
<1>5. ChecksHold' /\ MadeByOneKey'
  BY <1>1 DEF CommandInv, ChecksHold, CheckHolds, Current, Fits, Does, Target, Expected,
              MadeByOneKey
<1>6. BlockIsLiftedReady
  BY <1>1 DEF BlockIsLiftedReady
<1> QED BY <1>2, <1>3, <1>4, <1>5, <1>6 DEF CommandInv

\* RepetitionIsReplayed is what the invariant says of an answered request.
LEMMA CommandInvImplies == CommandInv => CommandsHappenOnce
BY DEF CommandInv, CommandsHappenOnce, KnownIsReplayed, RepetitionIsReplayed

(* Whatever the requests, their keys, the jobs at first, the handlers in service and the states
   of the machine: whoever is told of a key is told what the store remembers of it, a
   repetition is replayed, a job, a plan and a setup are made by one key, and a block is lifted
   only from a job that was ready (jobs_api.py, setup_api.py, job_repository.py,
   setup_repository.py). *)
THEOREM CommandsTakeEffectOnce == CommandSpec => CommandsAreOnce
<1>1. CommandInit => CommandInv
  BY CommandInvInit
<1>2. CommandInv /\ [CommandNext]_commandVars => CommandInv'
  BY CommandInvStep, CommandInvStutter
<1>3. CommandInv /\ [CommandNext]_commandVars => [BlockIsLiftedReady]_commandVars
  BY CommandInvStep
<1>4. CommandInv => CommandsHappenOnce
  BY CommandInvImplies
<1> QED BY <1>1, <1>2, <1>3, <1>4, PTL DEF CommandSpec, CommandsAreOnce
=============================================================================
