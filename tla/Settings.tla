------------------------------ MODULE Settings ------------------------------
(***************************************************************************)
(* The store of presets and execution policies (repository.py,              *)
(* settings_api.py), for one kind: revisions of resources, replays of POST  *)
(* requests, listings in pages.  Every request opens the file, creating it  *)
(* when it is missing, and does its work in one transaction of SQLite.      *)
(*                                                                         *)
(* A record is what its revision and the generation of the collection say;  *)
(* its content is not looked at.                                           *)
(***************************************************************************)
EXTENDS Integers, Sequences, FiniteSets, SequencesExt, FiniteSetsExt

CONSTANTS
    LastId,     \* how many identifiers there are
    PostKeys,   \* idempotency keys
    PostBodies, \* bodies of POST requests
    Senders,    \* who sends requests
    PageLimit,  \* items of a page
    MaxGen      \* bound on the generation

\* A page holds 1 to 100 items.
ASSUME ListAssumption == LastId \in Nat /\ PageLimit \in Nat \ {0}

\* Identifiers, numbered in the order of listings.
Ids == 1..LastId

VARIABLES
    file,       \* "absent", "empty" once it is created, "ready" with its schema
    generation, \* revision of the collection
    records,    \* id -> sequence of [generation, deleted]; the index is the revision
    replays,    \* key -> [body, id], or NoReplay
    sender      \* what each of the senders does and was told

settingsVars == <<file, generation, records, replays, sender>>

NoReplay == [body |-> "none", id |-> 0]
NoCall == [pc |-> "idle"]

Doing(c) == sender[c]
Tells(c, answer) == sender' = [sender EXCEPT ![c] = answer]

----------------------------------------------------------------------------
(* Opening the file. *)

\* The file is created before the transaction that gives it a schema ...
CreateFile(c) ==
    /\ file = "absent" /\ Doing(c) = NoCall
    /\ file' = "empty"
    /\ Tells(c, [pc |-> "creating"])
    /\ UNCHANGED <<generation, records, replays>>

\* ... which only its creator does: anybody else refuses an empty file.
CreateSchema(c) ==
    /\ file = "empty" /\ Doing(c).pc = "creating"
    /\ file' = "ready"
    /\ Tells(c, NoCall)
    /\ UNCHANGED <<generation, records, replays>>

\* A creator that dies leaves a file that stays refused, and is kept on purpose.
CreatorDies(c) ==
    /\ Doing(c).pc = "creating"
    /\ Tells(c, NoCall)
    /\ UNCHANGED <<file, generation, records, replays>>

----------------------------------------------------------------------------
(* Requests. *)

Exists(i) == records[i] # <<>> /\ ~Last(records[i]).deleted

\* _append: the collection and the resource get their next revisions.
Append_(i, deleted) ==
    /\ generation' = generation + 1
    /\ records' = [records EXCEPT ![i] = Append(@, [generation |-> generation + 1,
                                                    deleted |-> deleted])]

\* The answer to a POST is stored with what it made.
Post(c, key, body, i) ==
    /\ file = "ready" /\ Doing(c) = NoCall
    /\ IF replays[key] # NoReplay
       THEN /\ Tells(c, [pc |-> "told", key |-> key, body |-> body,
                         id |-> IF replays[key].body = body THEN replays[key].id ELSE 0])
            /\ UNCHANGED <<generation, records, replays>>
       ELSE /\ generation < MaxGen /\ records[i] = <<>>
            /\ Append_(i, FALSE)
            /\ replays' = [replays EXCEPT ![key] = [body |-> body, id |-> i]]
            /\ Tells(c, [pc |-> "told", key |-> key, body |-> body, id |-> i])
    /\ UNCHANGED file

\* The answer is lost or read; the same key may be sent again.
Told(c) ==
    /\ Doing(c).pc = "told"
    /\ Tells(c, NoCall)
    /\ UNCHANGED <<file, generation, records, replays>>

\* GET, for a later PUT or DELETE.
Get(c, i) ==
    /\ file = "ready" /\ Doing(c) = NoCall /\ Exists(i)
    /\ Tells(c, [pc |-> "edits", id |-> i, revision |-> Len(records[i])])
    /\ UNCHANGED <<file, generation, records, replays>>

\* mutate: If-Match must name the revision that is current.
Mutate(c, deleted) ==
    LET i == Doing(c).id
    IN  /\ Doing(c).pc = "edits"
        /\ Tells(c, NoCall)
        /\ IF Exists(i) /\ Len(records[i]) = Doing(c).revision
           THEN generation < MaxGen /\ Append_(i, deleted)
           ELSE UNCHANGED <<generation, records>>
        /\ UNCHANGED <<file, replays>>

----------------------------------------------------------------------------
(* Listings. *)

\* Mutant: the rows of the snapshot, but those that are still the latest.
ListedIfLatest(snapshot) ==
    {i \in Ids : Exists(i) /\ Last(records[i]).generation <= snapshot}

\* Revision r of i is the latest up to the snapshot.
LatestUpTo(i, r, snapshot) ==
    /\ records[i][r].generation <= snapshot
    /\ \A q \in DOMAIN records[i] : q > r => records[i][q].generation > snapshot

\* The rows of a snapshot: the latest revision up to it, unless it is a deletion.
Listed(snapshot) ==
    {i \in Ids : \E r \in DOMAIN records[i] :
                    LatestUpTo(i, r, snapshot) /\ ~records[i][r].deleted}

\* At most PageLimit rows after the last one of the cursor, in order.
Page(snapshot, after) ==
    LET rest == {i \in Listed(snapshot) : i > after}
    IN  {i \in rest : Cardinality({j \in rest : j < i}) < PageLimit}

\* The first page fixes the snapshot; `shown' remembers what it was.
List(c) ==
    /\ file = "ready" /\ Doing(c) = NoCall
    /\ LET page == Page(generation, 0)
       IN  Tells(c, [pc |-> IF page = Listed(generation) THEN "listed" ELSE "lists",
                     snapshot |-> generation, items |-> page, shown |-> {i \in Ids : Exists(i)}])
    /\ UNCHANGED <<file, generation, records, replays>>

\* The cursor holds the snapshot and the last row.
ListNext(c) ==
    /\ Doing(c).pc = "lists"
    /\ LET after == Max(Doing(c).items)
           page  == Page(Doing(c).snapshot, after)
       IN  Tells(c, [Doing(c) EXCEPT
                !.items = @ \union page,
                !.pc = IF page = {i \in Listed(Doing(c).snapshot) : i > after} THEN "listed" ELSE @])
    /\ UNCHANGED <<file, generation, records, replays>>

ListRead(c) ==
    /\ Doing(c).pc \in {"lists", "listed"}
    /\ Tells(c, NoCall)
    /\ UNCHANGED <<file, generation, records, replays>>

----------------------------------------------------------------------------
SettingsInit ==
    /\ file = "absent"
    /\ generation = 1
    /\ records = [i \in Ids |-> <<>>]
    /\ replays = [k \in PostKeys |-> NoReplay]
    /\ sender = [c \in Senders |-> NoCall]

SettingsNext == \E c \in Senders :
    \/ CreateFile(c)
    \/ CreateSchema(c)
    \/ CreatorDies(c)
    \/ \E k \in PostKeys, b \in PostBodies, i \in Ids : Post(c, k, b, i)
    \/ Told(c)
    \/ \E i \in Ids : Get(c, i)
    \/ \E d \in BOOLEAN : Mutate(c, d)
    \/ List(c)
    \/ ListNext(c)
    \/ ListRead(c)

SettingsSpec == SettingsInit /\ [][SettingsNext]_settingsVars

----------------------------------------------------------------------------
(* Properties. *)

\* A listing of several pages shows what existed at its first page, whatever is
\* created, changed or deleted while it is read (repository.py:242).
ListIsASnapshot ==
    \A c \in Senders : Doing(c).pc = "listed" => Doing(c).items = Doing(c).shown
============================================================================
