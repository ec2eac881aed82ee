---------------------------- MODULE JobAdmission ----------------------------
(***************************************************************************)
(* Admission of jobs (job_admission.py, accept_batch of job_repository.py): *)
(* short-lived tokens for resolved settings, the single flight of requests  *)
(* with one idempotency key, and the replays of the store.  A process       *)
(* serves requests in threads and may be restarted: tokens and flights are  *)
(* lost, the store is kept.                                                *)
(*                                                                         *)
(* What a token was resolved against - references, inputs, the readiness of *)
(* the candidate - is one revision of the environment.  The digest of a     *)
(* request is its body; the session that sends it is part of the token.     *)
(***************************************************************************)
EXTENDS Naturals, FiniteSets

CONSTANTS
    Threads,   \* threads that serve requests
    Keys,      \* idempotency keys
    Bodies,    \* [token, edited]: the token and whether the session was edited since
    Tokens,    \* resolutions
    MaxEnv     \* revisions of the environment

\* `none' names nobody and nothing, and a body is of a token that may be issued.
ASSUME AdmissionAssumption ==
    /\ "none" \notin Threads \cup Keys \cup Tokens
    /\ Bodies \subseteq [token : Tokens, edited : BOOLEAN]
    /\ MaxEnv \in Nat

VARIABLES
    env,       \* the revision of the environment
    token,     \* token -> record of ResolutionTokens, or NoToken
    flight,    \* key -> the thread that leads, or NoFlight
    request,   \* thread -> what it serves and where it is
    replay     \* batch_replays: key -> the batch, or NoBatch; told: whether a request
               \* was told of it by accept_batch, which may commit and raise (kept for
               \* the properties)

admissionVars == <<env, token, flight, request, replay>>

NoBody   == [token |-> "none", edited |-> FALSE]
NoToken  == [state |-> "none", env |-> 0, expired |-> FALSE, key |-> "none", body |-> NoBody]
NoFlight == "none"
NoBatch  == [body |-> NoBody, env |-> 0, told |-> FALSE]
NoRequest == [pc |-> "absent"]

Me(t) == request[t]
Goes(t, pc) == request' = [request EXCEPT ![t].pc = pc]

Answered(t, answer) == [Me(t) EXCEPT !.pc = "answered", !.answer = answer]

----------------------------------------------------------------------------
(* ResolutionTokens. *)

\* resolve issues a token for what it found ready.
Issue(k) ==
    /\ token[k].state = "none"
    /\ token' = [token EXCEPT ![k] = [NoToken EXCEPT !.state = "issued", !.env = env]]
    /\ UNCHANGED <<env, flight, request, replay>>

Expire(k) ==
    /\ token[k].state # "none" /\ ~token[k].expired
    /\ token' = [token EXCEPT ![k].expired = TRUE]
    /\ UNCHANGED <<env, flight, request, replay>>

Released(k) == [token EXCEPT ![k].state = IF @ = "reserved" THEN "issued" ELSE @,
                             ![k].key = IF token[k].state = "reserved" THEN "none" ELSE @,
                             ![k].body = IF token[k].state = "reserved" THEN NoBody ELSE @]

\* The same request holds or has used the token.
HeldBySame(t) == LET r == token[Me(t).body.token]
                 IN  r.state \in {"reserved", "consumed"} /\ r.key = Me(t).key /\ r.body = Me(t).body

\* The checks of reserve, in its order.
Refusal(t) ==
    LET r == token[Me(t).body.token]
    IN  CASE r.state = "none" -> "resolution_invalid"
          [] r.state # "none" /\ r.expired -> "resolution_expired"
          [] r.state \in {"reserved", "consumed"} /\ ~r.expired -> "resolution_consumed"
          [] OTHER -> IF Me(t).body.edited THEN "resolution_stale" ELSE "none"

----------------------------------------------------------------------------
(* One request: _single_flight around _commit. *)

Arrive(t, key, body) ==
    /\ Me(t) = NoRequest
    /\ request' = [request EXCEPT ![t] = [pc |-> "lookup", key |-> key, body |-> body,
                                          leader |-> NoFlight, answer |-> "none"]]
    /\ UNCHANGED <<env, token, flight, replay>>

\* The response is sent; the client may send the request again.
Respond(t) ==
    /\ Me(t).pc = "answered"
    /\ request' = [request EXCEPT ![t] = NoRequest]
    /\ UNCHANGED <<env, token, flight, replay>>

\* lookup_batch: a committed batch is repeated, or another body refused.
Lookup(t) ==
    /\ Me(t).pc = "lookup"
    /\ IF replay[Me(t).key] = NoBatch THEN Goes(t, "join")
       ELSE request' = [request EXCEPT ![t] =
                Answered(t, IF replay[Me(t).key].body = Me(t).body
                            THEN "accepted" ELSE "idempotency_conflict")]
    /\ UNCHANGED <<env, token, flight, replay>>

\* The first thread leads; others with the same body wait for it.
Join(t) ==
    LET leader == flight[Me(t).key]
    IN  /\ Me(t).pc = "join"
        /\ IF leader = NoFlight
           THEN flight' = [flight EXCEPT ![Me(t).key] = t] /\ Goes(t, "reserve")
           ELSE /\ UNCHANGED flight
                /\ request' = [request EXCEPT ![t] =
                       IF Me(leader).body = Me(t).body
                       THEN [@ EXCEPT !.pc = "wait", !.leader = leader]
                       ELSE Answered(t, "idempotency_conflict")]
        /\ UNCHANGED <<env, token, replay>>

\* The deadline passes while a request waits for another.
GiveUp(t) ==
    /\ Me(t).pc \in {"wait", "poll"}
    /\ request' = [request EXCEPT ![t] = Answered(t, "submission_in_progress")]
    /\ UNCHANGED <<env, token, flight, replay>>

\* Cross-instance holders, and a commit that was missed: look again after a while.
Poll(t) ==
    /\ Me(t).pc = "poll" /\ Goes(t, "lookup")
    /\ UNCHANGED <<env, token, flight, replay>>

\* The flight ends, however it ended, and whoever waits looks again.
Leave(t, next) ==
    /\ flight' = [flight EXCEPT ![Me(t).key] = NoFlight]
    /\ request' = [u \in Threads |->
           IF u = t THEN next
           ELSE IF Me(u).pc = "wait" /\ Me(u).leader = t
                THEN [Me(u) EXCEPT !.pc = "lookup", !.leader = NoFlight] ELSE Me(u)]

\* Mutant: reserve does not look at the state of the record.
ReserveAnyState(t) ==
    /\ Me(t).pc = "reserve"
    /\ IF token[Me(t).body.token].state = "none" \/ token[Me(t).body.token].expired
       THEN Leave(t, Answered(t, "resolution_invalid")) /\ UNCHANGED token
       ELSE /\ token' = [token EXCEPT ![Me(t).body.token] =
                           [@ EXCEPT !.state = "reserved", !.key = Me(t).key, !.body = Me(t).body]]
            /\ Goes(t, "check") /\ UNCHANGED flight
    /\ UNCHANGED <<env, replay>>

\* reserve; a token that this very request holds makes it look for the outcome.
Reserve(t) ==
    LET k == Me(t).body.token
    IN  /\ Me(t).pc = "reserve"
        /\ IF Refusal(t) = "none"
           THEN /\ token' = [token EXCEPT ![k] =
                               [@ EXCEPT !.state = "reserved", !.key = Me(t).key, !.body = Me(t).body]]
                /\ Goes(t, "check") /\ UNCHANGED flight
           ELSE /\ UNCHANGED token
                /\ Leave(t, IF Refusal(t) = "resolution_consumed" /\ HeldBySame(t)
                            THEN [Me(t) EXCEPT !.pc = "poll"] ELSE Answered(t, Refusal(t)))
        /\ UNCHANGED <<env, replay>>

\* _freeze: references, inputs and readiness are still those of the token.
Check(t) ==
    LET k == Me(t).body.token
    IN  /\ Me(t).pc = "check"
        /\ IF token[k].env = env
           THEN Goes(t, "commit") /\ UNCHANGED <<token, flight>>
           ELSE token' = Released(k) /\ Leave(t, Answered(t, "resolution_stale"))
        /\ UNCHANGED <<env, replay>>

\* The batch of a request: what it asks for, of what its token was resolved against.
BatchOf(t, told) ==
    [body |-> Me(t).body, env |-> token[Me(t).body.token].env, told |-> told]

\* accept_batch looks for the replay in its own transaction.
Commit(t) ==
    LET known == replay[Me(t).key]
    IN  /\ Me(t).pc = "commit"
        /\ \/ /\ known = NoBatch
              /\ replay' = [replay EXCEPT ![Me(t).key] = BatchOf(t, TRUE)]
              /\ Goes(t, "consume") /\ UNCHANGED <<token, flight>>
           \/ /\ known.body = Me(t).body
              /\ replay' = [replay EXCEPT ![Me(t).key].told = TRUE]
              /\ Goes(t, "consume") /\ UNCHANGED <<token, flight>>
           \/ /\ known # NoBatch /\ known.body # Me(t).body
              /\ token' = Released(Me(t).body.token)
              /\ Leave(t, Answered(t, "idempotency_conflict")) /\ UNCHANGED replay
        /\ UNCHANGED env

\* accept_batch raises: the transaction was rolled back, or was committed all the
\* same.  The token is released either way.
CommitFails(t) ==
    /\ Me(t).pc = "commit"
    /\ token' = Released(Me(t).body.token)
    /\ Leave(t, Answered(t, "store_busy"))
    /\ \/ UNCHANGED replay
       \/ /\ replay[Me(t).key] = NoBatch
          /\ replay' = [replay EXCEPT ![Me(t).key] = BatchOf(t, FALSE)]
    /\ UNCHANGED env

Consume(t) ==
    /\ Me(t).pc = "consume"
    /\ token' = [token EXCEPT ![Me(t).body.token].state = "consumed"]
    /\ Leave(t, Answered(t, "accepted"))
    /\ UNCHANGED <<env, replay>>

----------------------------------------------------------------------------
\* References, inputs and candidates change.
EnvChanges ==
    /\ env < MaxEnv /\ env' = env + 1
    /\ UNCHANGED <<token, flight, request, replay>>

\* The process is restarted: whoever was served is left without an answer, and no
\* token of the old process is accepted.
Restart ==
    /\ \E t \in Threads : Me(t).pc \notin {"absent", "answered"}
    /\ token' = [k \in Tokens |-> IF token[k].state = "none" THEN NoToken
                                  ELSE [token[k] EXCEPT !.expired = TRUE, !.state = "issued",
                                                        !.key = "none", !.body = NoBody]]
    /\ flight' = [k \in Keys |-> NoFlight]
    /\ request' = [t \in Threads |-> IF Me(t).pc \in {"absent", "answered"} THEN Me(t)
                                     ELSE Answered(t, "lost")]
    /\ UNCHANGED <<env, replay>>

AdmissionInit ==
    /\ env = 1
    /\ token = [k \in Tokens |-> NoToken]
    /\ flight = [k \in Keys |-> NoFlight]
    /\ request = [t \in Threads |-> NoRequest]
    /\ replay = [k \in Keys |-> NoBatch]

Step(t) == \/ Lookup(t) \/ Join(t) \/ Poll(t) \/ Reserve(t) \/ Check(t) \/ Commit(t)
           \/ CommitFails(t) \/ Consume(t)

AdmissionNext ==
    \/ \E k \in Tokens : Issue(k) \/ Expire(k)
    \/ \E t \in Threads, k \in Keys, b \in Bodies : Arrive(t, k, b)
    \/ \E t \in Threads : Step(t) \/ GiveUp(t) \/ Respond(t)
    \/ EnvChanges
    \/ Restart

AdmissionSpec == AdmissionInit /\ [][AdmissionNext]_admissionVars

----------------------------------------------------------------------------
(* Properties. *)

\* A key stands for one batch and a token for one batch that anybody was told of:
\* whatever is retried, raced or restarted, `accepted' is the answer of the committed
\* batch of this body, no token makes two batches that are told, a token that made a
\* told one is not free again, and nobody waits for a flight that has ended.  A commit
\* that was made and raised is the exception: its token is free, and makes a second
\* batch under another key (job_admission.py:800).
AdmissionIsOnce ==
    /\ \A t \in Threads : Me(t).pc = "answered" /\ Me(t).answer = "accepted" =>
            replay[Me(t).key].body = Me(t).body
    /\ \A k, l \in Keys : k # l /\ replay[k].told /\ replay[l].told =>
            replay[k].body.token # replay[l].body.token
    /\ \A k \in Keys : replay[k].told =>
            LET r == token[replay[k].body.token]
            IN  r.expired \/ r.state \in {"reserved", "consumed"}
    /\ \A k \in Tokens : token[k].state = "reserved" =>
            \E t \in Threads : Me(t).pc \in {"check", "commit", "consume"} /\ Me(t).body.token = k
    /\ \A t \in Threads : Me(t).pc = "wait" => flight[Me(t).key] = Me(t).leader

============================================================================
