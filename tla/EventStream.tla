---------------------------- MODULE EventStream ----------------------------
(***************************************************************************)
(* The event stream: the outbox of the control store with its cursors,     *)
(* compaction and epochs (store.py, events_repository.py), the routes      *)
(* GET /sync and GET /events (events_api.py) and one browser that follows  *)
(* them (transport/sync.ts, transport/reducer.ts, api/v1.ts).              *)
(*                                                                         *)
(* Of an operation only its revision is kept; `Queue' is the queue, whose  *)
(* revision travels in the same stream.  The age of a row, the lifetime of *)
(* a listing and the longest duration of a stream are choices.  The        *)
(* transport keeps the order of frames and may break at any point; all     *)
(* that goes wrong on its own account is bounded by MaxFaults.             *)
(***************************************************************************)
EXTENDS Integers, FiniteSets, Sequences, SequencesExt, FiniteSetsExt

CONSTANTS
    Res,            \* operations, and Queue
    Queue,
    Active,         \* operations that are not final while compaction runs
    Conn, NoConn,   \* connections of the browser to GET /events, and none
    KeepLatest,     \* keep_latest of compact_events
    MaxDelete,      \* max_delete of compact_events
    PageSize,       \* page_size of the stream
    SyncPage,       \* resources on one page of GET /sync
    Capacity,       \* listings the server retains
    MaxSubscribers, \* max_subscribers
    MaxSeq,         \* bound: events that are ever written
    MaxEpoch,       \* bound: epochs of the installation
    MaxFaults       \* bound: losses, restarts, evictions, stops

ASSUME StreamAssumption ==
    /\ Queue \in Res /\ Active \subseteq Res \ {Queue} /\ NoConn \notin Conn
    /\ {PageSize, SyncPage, Capacity, MaxDelete} \subseteq Nat \ {0}
    /\ {KeepLatest, MaxSubscribers, MaxSeq, MaxEpoch, MaxFaults} \subseteq Nat

VARIABLES
    store,     \* epoch, floor, high watermark, revisions and outbox
    backup,    \* a copy of the file, or NoBackup
    listings,  \* retained listings, oldest first: "mine" or "other"
    subs,      \* subscribers["count"]
    conn,      \* state of each connection at the server and on the wire
    client,    \* state of the coordinator, its listing in progress
    reducer,   \* epoch, cursor and known revisions of the browser
    faults

vars == <<store, backup, listings, subs, conn, client, reducer, faults>>

Cursor(e, s) == [epoch |-> e, seq |-> s]
NoBackup == [none |-> TRUE]
NoFetch  == [left |-> -1]
Free     == [at |-> "free"]

----------------------------------------------------------------------------
(* The store. *)

\* One transaction writes the rows of the resources it changes, in order,
\* each under the next value of the one counter.
Emitted(s, rs) ==
    LET rev == [r \in Res |-> IF r \in ToSet(rs) THEN s.rev[r] + 1 ELSE s.rev[r]]
    IN  [s EXCEPT !.high = @ + Len(rs), !.rev = rev,
                  !.outbox = @ \union { [seq |-> s.high + i, epoch |-> s.epoch,
                                         res |-> rs[i], rev |-> rev[rs[i]]] : i \in DOMAIN rs }]

Commit(rs) ==
    /\ store.high + Len(rs) <= MaxSeq
    /\ store' = Emitted(store, rs)
    /\ UNCHANGED <<backup, listings, subs, conn, client, reducer, faults>>

\* Mutant: the floor of the epoch is not raised.
CompactedFloorKept(limit) ==
    [store EXCEPT !.outbox = { e \in @ : e.seq > limit \/ e.res \in Active }]

\* Rows below the limit go, except those of resources that are not final; the
\* floor rises to the limit in the same transaction.  The young rows bound the
\* limit further: any smaller one is possible.
Compacted(limit) ==
    [store EXCEPT !.floor = limit,
                  !.outbox = { e \in @ : e.seq > limit \/ e.res \in Active }]

Compact(limit) ==
    /\ limit \in (store.floor + 1) .. Min({store.high - KeepLatest, store.floor + MaxDelete})
    /\ store' = Compacted(limit)
    /\ UNCHANGED <<backup, listings, subs, conn, client, reducer, faults>>

Rotated(s, e) == [s EXCEPT !.epoch = e, !.floor = s.high]

RotateEpoch ==
    /\ store.epoch < MaxEpoch
    /\ store' = Rotated(store, store.epoch + 1)
    /\ UNCHANGED <<backup, listings, subs, conn, client, reducer, faults>>

Backup ==
    /\ backup = NoBackup
    /\ backup' = store
    /\ UNCHANGED <<store, listings, subs, conn, client, reducer, faults>>

\* Validity of a cursor, as status codes of GET /events.
CursorStatus(c) ==
    CASE c.epoch # store.epoch \/ c.seq < store.floor -> 410
      [] c.epoch = store.epoch /\ c.seq > store.high  -> 400
      [] OTHER                                        -> 200

RowsAfter(cursor) == { e \in store.outbox : e.seq > cursor.seq }

\* Mutant: the last rows are read, not the first ones.
ReadEventsLast(after) ==
    LET rows == RowsAfter(after)
        n    == Min({PageSize, Cardinality(rows)})
        page == { p \in [1..n -> rows] :
                    /\ \A i, k \in 1..n : i < k => p[i].seq > p[k].seq
                    /\ \A e \in rows : e \in Range(p) \/ e.seq < p[n].seq }
    IN  { [frames |-> p, next |-> Cursor(store.epoch, IF Cardinality(rows) > PageSize
                                                      THEN p[n].seq ELSE store.high)]
          : p \in page }

\* The rows after a cursor, in order and PageSize at most, and where the next page
\* begins: the only member of this set.
ReadEvents(after) ==
    LET rows == RowsAfter(after)
        n    == Min({PageSize, Cardinality(rows)})
        page == { p \in [1..n -> rows] :
                    /\ \A i, k \in 1..n : i < k => p[i].seq < p[k].seq
                    /\ \A e \in rows : e \in Range(p) \/ e.seq > p[n].seq }
    IN  { [frames |-> p, next |-> Cursor(store.epoch, IF Cardinality(rows) > PageSize
                                                      THEN p[n].seq ELSE store.high)]
          : p \in page }

----------------------------------------------------------------------------
(* The routes. *)

Existing == { r \in Res \ {Queue} : store.rev[r] > 0 }

\* read_sync: resources, queue and watermark of one read transaction.
ReadSync == [cursor |-> Cursor(store.epoch, store.high), rev |-> store.rev]

\* A new listing is retained; the oldest ones make room for it.
Put(owner) ==
    LET kept == IF Len(listings) >= Capacity
                THEN SubSeq(listings, Len(listings) - Capacity + 2, Len(listings))
                ELSE listings
    IN  Append(kept, owner)

\* A connection the server has finished with is free once the browser left it.
Ended(c, cn) == IF cn.live THEN [cn EXCEPT !.at = "ended"] ELSE Free

ServeFirst(c) ==
    /\ conn[c].at = "request"
    /\ IF CursorStatus(conn[c].after) = 200
       THEN \E page \in ReadEvents(conn[c].after) :
               conn' = [conn EXCEPT ![c] =
                   IF @.live
                   THEN [@ EXCEPT !.at = "checked", !.after = page.next, !.wire = page.frames]
                   ELSE [@ EXCEPT !.at = "checked", !.after = Cursor(0, 0)]]
       ELSE conn' = [conn EXCEPT ![c] = Ended(c, @)]
    /\ UNCHANGED <<store, backup, listings, subs, client, reducer, faults>>

TakePlace(c) ==
    /\ conn[c].at = "checked"
    /\ IF subs >= MaxSubscribers
       THEN /\ conn' = [conn EXCEPT ![c] = Ended(c, [@ EXCEPT !.wire = <<>>])]
            /\ subs' = subs
       ELSE /\ conn' = [conn EXCEPT ![c].at = "counted"]
            /\ subs' = subs + 1
    /\ UNCHANGED <<store, backup, listings, client, reducer, faults>>

StartResponse(c) ==
    /\ conn[c].at = "counted"
    /\ conn' = [conn EXCEPT ![c].at = "stream", ![c].opened = TRUE]
    /\ UNCHANGED <<store, backup, listings, subs, client, reducer, faults>>

\* The browser left before the body was iterated: the generator never runs, nor
\* does its finally.
NeverStarts(c) ==
    /\ conn[c].at = "counted" /\ ~conn[c].live
    /\ conn' = [conn EXCEPT ![c] = Free]
    /\ UNCHANGED <<store, backup, listings, subs, client, reducer, faults>>

\* The next page, read when the frames sent so far have left the generator.
Poll(c) ==
    /\ conn[c].at = "stream" /\ conn[c].live
    /\ Len(conn[c].wire) <= 1
    /\ IF CursorStatus(conn[c].after) = 200
       THEN /\ \E page \in ReadEvents(conn[c].after) :
                  /\ page.frames # <<>> \/ page.next # conn[c].after
                  /\ conn' = [conn EXCEPT ![c].after = page.next, ![c].wire = @ \o page.frames]
            /\ UNCHANGED subs
       ELSE /\ conn' = [conn EXCEPT ![c] =
                 Ended(c, [@ EXCEPT !.wire = Append(conn[c].wire, [resync |-> TRUE])])]
            /\ subs' = subs - 1
    /\ UNCHANGED <<store, backup, listings, client, reducer, faults>>

\* The browser left, or the stream has lasted long enough.
EndStream(c) ==
    /\ conn[c].at = "stream"
    /\ conn' = [conn EXCEPT ![c] = Ended(c, @)]
    /\ subs' = subs - 1
    /\ UNCHANGED <<store, backup, listings, client, reducer, faults>>

\* is_disconnected(), seen while the stream waits.
Noticed(c) == conn[c].at = "stream" /\ ~conn[c].live /\ EndStream(c)

\* The browser closes its connection; what was on the wire is lost to it, and
\* what the server still reads for an accepted stream reaches nobody.
Closed(c) ==
    IF c = NoConn THEN conn
    ELSE [conn EXCEPT ![c] = IF @.at = "ended" THEN Free
                             ELSE [@ EXCEPT !.live = FALSE, !.opened = FALSE, !.wire = <<>>,
                                     !.after = IF conn[c].at = "request"
                                              THEN conn[c].after ELSE Cursor(0, 0)]]

----------------------------------------------------------------------------
(* The coordinator of the browser. *)

\* resync(): the stream and the listing in progress are dropped, a new one begins.
Resync ==
    /\ conn' = Closed(client.source)
    /\ client' = [pc |-> "syncing", source |-> NoConn, fetch |-> NoFetch]
    /\ listings' = [i \in DOMAIN listings |-> "other"]

Start ==
    /\ client.pc \in {"idle", "stopped"}
    /\ Resync
    /\ UNCHANGED <<store, backup, subs, reducer, faults>>

Stop ==
    /\ client.pc \notin {"idle", "stopped"} /\ faults < MaxFaults
    /\ conn' = Closed(client.source)
    /\ client' = [pc |-> "stopped", source |-> NoConn, fetch |-> NoFetch]
    /\ faults' = faults + 1
    /\ UNCHANGED <<store, backup, listings, subs, reducer>>

\* The first page; only a listing of several pages is retained.
FetchFirst ==
    LET pages == (Cardinality(Existing) + SyncPage - 1) \div SyncPage
    IN  /\ client.pc = "syncing" /\ client.fetch = NoFetch
        /\ client' = [client EXCEPT !.fetch = [left |-> Max({pages, 1}) - 1, data |-> ReadSync]]
        /\ listings' = IF pages > 1 THEN Put("mine") ELSE listings
        /\ UNCHANGED <<store, backup, subs, conn, reducer, faults>>

Offline == [pc |-> "offline", source |-> NoConn, fetch |-> NoFetch]

FetchNext ==
    /\ client.pc = "syncing" /\ client.fetch.left > 0
    /\ client' = IF "mine" \in ToSet(listings)
                 THEN [client EXCEPT !.fetch.left = @ - 1]
                 ELSE Offline
    /\ UNCHANGED <<store, backup, listings, subs, conn, reducer, faults>>

FetchFails ==
    /\ client.pc = "syncing" /\ faults < MaxFaults
    /\ client' = Offline
    /\ faults' = faults + 1
    /\ UNCHANGED <<store, backup, listings, subs, conn, reducer>>

\* applyResource, over all resources of a listing: an older revision is stale.
Newer(known, rev) == [r \in Res |-> Max({known[r], rev[r]})]

\* Mutant: a new epoch does not forget what the old one knew.
ApplySyncKeeps(data) ==
    [epoch |-> data.cursor.epoch, seq |-> data.cursor.seq, rev |-> Newer(reducer.rev, data.rev)]

\* applySync.  A new epoch forgets the operations, not the queue's revision.
ApplySync(data) ==
    LET same  == reducer.epoch = data.cursor.epoch
        known == [r \in Res |-> IF same \/ r = Queue THEN reducer.rev[r] ELSE 0]
    IN  [epoch |-> data.cursor.epoch,
         seq   |-> IF same THEN Max({reducer.seq, data.cursor.seq}) ELSE data.cursor.seq,
         rev   |-> Newer(known, data.rev)]

\* open(): a new stream after the reducer's cursor.
Open(c, at) ==
    /\ conn[c] = Free
    /\ conn' = [conn EXCEPT ![c] = [at |-> "request", after |-> at, wire |-> <<>>,
                                    live |-> TRUE, opened |-> FALSE]]
    /\ client' = [pc |-> "opening", source |-> c, fetch |-> NoFetch]

FetchDone(c) ==
    /\ client.pc = "syncing" /\ client.fetch.left = 0
    /\ reducer' = ApplySync(client.fetch.data)
    /\ Open(c, Cursor(reducer'.epoch, reducer'.seq))
    /\ UNCHANGED <<store, backup, listings, subs, faults>>

Reconnect(c) ==
    /\ client.pc = "reconnecting"
    /\ Open(c, Cursor(reducer.epoch, reducer.seq))
    /\ UNCHANGED <<store, backup, listings, subs, reducer, faults>>

RetrySync ==
    /\ client.pc = "offline"
    /\ Resync
    /\ UNCHANGED <<store, backup, subs, reducer, faults>>

OnOpen ==
    /\ client.pc = "opening" /\ conn[client.source].opened
    /\ client' = [client EXCEPT !.pc = "connected"]
    /\ UNCHANGED <<store, backup, listings, subs, conn, reducer, faults>>

\* reduce(): the outcomes "resync", "duplicate" and the rest.
MustResync(e) == e.epoch # reducer.epoch \/ e.seq > reducer.seq + 1
Duplicate(e)  == e.epoch = reducer.epoch /\ e.seq <= reducer.seq

Reduced(e) ==
    IF Duplicate(e) THEN reducer
    ELSE [reducer EXCEPT !.seq = e.seq, !.rev[e.res] = Max({@, e.rev})]

OnFrame ==
    /\ client.pc = "connected" /\ conn[client.source].wire # <<>>
    /\ LET frame == Head(conn[client.source].wire)
       IN  IF "resync" \in DOMAIN frame \/ (~Duplicate(frame) /\ MustResync(frame))
           THEN Resync /\ UNCHANGED reducer
           ELSE /\ reducer' = Reduced(frame)
                /\ conn' = [conn EXCEPT ![client.source].wire = Tail(@)]
                /\ UNCHANGED <<client, listings>>
    /\ UNCHANGED <<store, backup, subs, faults>>

\* onerror, before and after the stream was open.
OnError(c) ==
    /\ conn' = Closed(c)
    /\ client' = [pc |-> IF client.pc = "opening" THEN "offline" ELSE "reconnecting",
                  source |-> NoConn, fetch |-> NoFetch]

StreamEnds ==
    /\ client.source # NoConn
    /\ conn[client.source].at = "ended" /\ conn[client.source].wire = <<>>
    /\ conn[client.source].opened => client.pc = "connected"
    /\ OnError(client.source)
    /\ UNCHANGED <<store, backup, listings, subs, reducer, faults>>

----------------------------------------------------------------------------
(* What goes wrong. *)

Break ==
    /\ client.source # NoConn /\ faults < MaxFaults
    /\ OnError(client.source)
    /\ faults' = faults + 1
    /\ UNCHANGED <<store, backup, listings, subs, reducer>>

\* Another browser's listing is retained, or the oldest one has expired.
OthersList ==
    /\ faults < MaxFaults
    /\ listings' \in {Put("other"), IF listings = <<>> THEN listings ELSE Tail(listings)}
    /\ faults' = faults + 1
    /\ UNCHANGED <<store, backup, subs, conn, client, reducer>>

\* The server goes and comes back: streams and listings are lost, the store is not.
Down(conns) ==
    [c \in Conn |-> IF conns[c].at # "free" /\ conns[c].live
                    THEN [conns[c] EXCEPT !.at = "ended", !.wire = <<>>] ELSE Free]

Restart ==
    /\ faults < MaxFaults
    /\ conn' = Down(conn) /\ listings' = <<>> /\ subs' = 0
    /\ faults' = faults + 1
    /\ UNCHANGED <<store, backup, client, reducer>>

\* The documented restore: the server is down, the copy takes the file's place
\* and rotate_epoch runs before it serves again.
Restore ==
    /\ backup # NoBackup /\ store.epoch < MaxEpoch /\ faults < MaxFaults
    /\ store' = Rotated(backup, store.epoch + 1)
    /\ conn' = Down(conn) /\ listings' = <<>> /\ subs' = 0
    /\ faults' = faults + 1
    /\ UNCHANGED <<backup, client, reducer>>

----------------------------------------------------------------------------
Init ==
    /\ store = [epoch |-> 1, floor |-> 0, high |-> 0, rev |-> [r \in Res |-> 0], outbox |-> {}]
    /\ backup = NoBackup
    /\ listings = <<>>
    /\ subs = 0
    /\ conn = [c \in Conn |-> Free]
    /\ client = [pc |-> "idle", source |-> NoConn, fetch |-> NoFetch]
    /\ reducer = [epoch |-> 0, seq |-> 0, rev |-> [r \in Res |-> 0]]
    /\ faults = 0

Write ==
    \/ \E r \in Res : Commit(<<r>>)
    \/ \E r \in Res \ {Queue} : Commit(<<r, Queue>>)

Server(c) ==
    \/ ServeFirst(c)
    \/ TakePlace(c)
    \/ StartResponse(c)
    \/ NeverStarts(c)
    \/ Poll(c)

Browser ==
    \/ Start
    \/ FetchFirst
    \/ FetchNext
    \/ RetrySync
    \/ OnOpen
    \/ OnFrame
    \/ StreamEnds
    \/ \E c \in Conn : FetchDone(c) \/ Reconnect(c)

Next ==
    \/ Write
    \/ \E l \in 1 .. MaxSeq : Compact(l)
    \/ RotateEpoch
    \/ Backup
    \/ \E c \in Conn : Server(c) \/ EndStream(c)
    \/ Browser
    \/ Stop
    \/ FetchFails
    \/ Break
    \/ OthersList
    \/ Restart
    \/ Restore

\* The server's tasks and the browser's callbacks and timers run.  A stream whose
\* browser left is noticed; one that lasts is not bound to end.
Fairness ==
    /\ \A c \in Conn : WF_vars(Server(c)) /\ WF_vars(Noticed(c))
    /\ WF_vars(Browser)

Spec     == Init /\ [][Next]_vars
FairSpec == Spec /\ Fairness

----------------------------------------------------------------------------
(* Properties. *)

\* As long as the server accepts the browser's cursor, all that the browser does
\* not know yet lies ahead of that cursor in the outbox, and it knows of no
\* revision the store does not have: compaction, paging, epochs and lost streams
\* never lose an event silently (events_repository.py:131, reducer.ts:56).
NothingIsLost ==
    CursorStatus(Cursor(reducer.epoch, reducer.seq)) = 200 =>
        \A r \in Res :
            /\ r # Queue => reducer.rev[r] <= store.rev[r]
            /\ reducer.rev[r] < store.rev[r] =>
                 \E e \in store.outbox :
                    e.res = r /\ e.rev = store.rev[r] /\ e.seq > reducer.seq

\* On an unfiltered stream the next frame always continues the browser's cursor:
\* a gap is a fault of the server, never the result of paging or compaction
\* (the claim at the head of reducer.ts).
StreamHasNoGaps ==
    client.pc = "connected" /\ conn[client.source].wire # <<>> =>
        LET frame == Head(conn[client.source].wire)
        IN  "resync" \in DOMAIN frame \/
            (frame.epoch = reducer.epoch /\ frame.seq <= reducer.seq + 1)

\* Never more streams run than the limit allows, whatever the browser abandons
\* and the server restarts: every running stream has a place (events_api.py:137).
StreamsWithinLimit ==
    LET running == { c \in Conn : conn[c].at \in {"counted", "stream"} }
    IN  Cardinality(running) <= subs /\ subs <= MaxSubscribers

\* What streams carry and how many there are.
StreamsAreSound == StreamHasNoGaps /\ StreamsWithinLimit

Settled ==
    /\ reducer.epoch = store.epoch
    /\ \A r \in Res \ {Queue} : reducer.rev[r] = store.rev[r]

\* A browser that is not stopped comes to show the store as it is and keeps showing
\* it, once the store and the faults have come to an end: after compaction, a
\* restored backup, lost listings, and also when places of streams have leaked.
Converges == <>[](client.pc = "stopped" \/ client.pc = "idle" \/ Settled)

============================================================================
