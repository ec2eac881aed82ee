--------------------------- MODULE EventStreamProofs ---------------------------
(***************************************************************************)
(* Theorems of EventStream, for any number of operations and connections   *)
(* and any limits, whatever is compacted, restored, restarted or broken    *)
(* off: no event is lost silently, the next frame of a stream continues    *)
(* the browser's cursor, and every running stream has a place.             *)
(*                                                                         *)
(* What compaction has deleted is no longer in the state, yet a frame of   *)
(* it may still be on its way to a browser.  The inductive invariant of    *)
(* the first names it with an existential quantifier: there is a log of    *)
(* the events of the present epoch, the outbox is what is left of it,      *)
(* every frame of this epoch is in it, and whatever the browser does not   *)
(* know is in it, ahead of its cursor.  That of the others says that above *)
(* its floor the outbox has one event for every number, so that a page of  *)
(* it, whatever its size, goes on where the cursor it was read for ends.   *)
(***************************************************************************)
EXTENDS EventStream, FiniteSetTheorems, TLAPS

Events    == [seq : Nat, epoch : Nat, res : Res, rev : Nat]
Revisions == [Res -> Nat]
Stores    == [epoch : Nat, floor : Nat, high : Nat, rev : Revisions, outbox : SUBSET Events]
Data      == [cursor : [epoch : Nat, seq : Nat], rev : Revisions]
Reducers  == [epoch : Nat, seq : Nat, rev : Revisions]
Resynced  == [resync |-> TRUE]

-------------------------------------------------------------------------------
(* The inductive invariant *)

\* The events of a store, deleted ones included: numbered, bounded, and all that
\* is above the floor is still in the outbox.
LogOf(s, log) ==
    /\ log \subseteq Events /\ s.outbox \subseteq log /\ IsFiniteSet(s.outbox)
    /\ \A e \in log : e.seq > s.floor => e \in s.outbox
    /\ \A e, f \in log : e.seq = f.seq => e = f
    /\ \A e \in log : e.seq <= s.high /\ e.epoch <= s.epoch /\ e.rev <= s.rev[e.res]

\* What somebody with this cursor and these revisions does not know lies ahead.
Knows(s, epoch, seq, rev, log) ==
    /\ epoch <= s.epoch
    /\ epoch = s.epoch =>
          /\ seq <= s.high
          /\ \A r \in Res : r # Queue => rev[r] <= s.rev[r]
          /\ \A r \in Res : rev[r] < s.rev[r] =>
                \E e \in log : e.res = r /\ e.rev = s.rev[r] /\ e.seq > seq

ListingKnows(s, fetch, log) ==
    fetch # NoFetch =>
        /\ fetch = [left |-> fetch.left, data |-> fetch.data]
        /\ fetch.data \in Data
        /\ Knows(s, fetch.data.cursor.epoch, fetch.data.cursor.seq, fetch.data.rev, log)

\* A frame is the end of a stream or an event, of an old epoch or of the log.
SoundFrames(s, log) ==
    {Resynced} \cup {e \in Events : e.epoch <= s.epoch /\ (e.epoch = s.epoch => e \in log)}

ConnOK(s, cn, log) ==
    \/ cn = Free
    \/ /\ cn = [at |-> cn.at, after |-> cn.after, wire |-> cn.wire,
                live |-> cn.live, opened |-> cn.opened]
       /\ cn.at # "free"
       /\ cn.wire \in Seq(SoundFrames(s, log))

\* The browser's own connection is never taken from it.
SourceIsLive ==
    /\ client = [pc |-> client.pc, source |-> client.source, fetch |-> client.fetch]
    /\ client.source \in Conn \cup {NoConn}
    /\ client.source # NoConn => conn[client.source] # Free /\ conn[client.source].live
    /\ client.pc \in {"opening", "connected"} => client.source # NoConn

BackupOK(s) ==
    backup # NoBackup =>
        backup \in Stores /\ backup.epoch <= s.epoch /\ LogOf(backup, backup.outbox)

StreamInvOf(log) ==
    /\ store \in Stores /\ reducer \in Reducers
    /\ LogOf(store, log)
    /\ Knows(store, reducer.epoch, reducer.seq, reducer.rev, log)
    /\ ListingKnows(store, client.fetch, log)
    /\ conn = [c \in Conn |-> conn[c]]
    /\ \A c \in Conn : ConnOK(store, conn[c], log)
    /\ SourceIsLive
    /\ BackupOK(store)

StreamInv == \E log \in SUBSET Events : StreamInvOf(log)

-------------------------------------------------------------------------------
(* Small facts *)

LEMMA MaxOfTwo ==
    ASSUME NEW a \in Nat, NEW b \in Nat
    PROVE  /\ Max({a, b}) \in {a, b} /\ Max({a, b}) \in Nat
           /\ Max({a, b}) >= a /\ Max({a, b}) >= b
  <1>1. \E x \in {a, b} : \A y \in {a, b} : x >= y
    OBVIOUS
  <1>2. Max({a, b}) \in {a, b} /\ \A y \in {a, b} : Max({a, b}) >= y
    BY <1>1 DEF Max
  <1> QED
    BY <1>2

LEMMA MinOfTwo ==
    ASSUME NEW a \in Int, NEW b \in Int
    PROVE  Min({a, b}) \in {a, b} /\ Min({a, b}) \in Int
  <1>1. \E x \in {a, b} : \A y \in {a, b} : x =< y
    OBVIOUS
  <1>2. Min({a, b}) \in {a, b}
    BY <1>1 DEF Min
  <1> QED
    BY <1>2

\* Records with some of their fields replaced.
LEMMA StoreWith ==
    ASSUME NEW s, NEW x, NEW y,
           s = [epoch |-> s.epoch, floor |-> s.floor, high |-> s.high, rev |-> s.rev, outbox |-> s.outbox]
    PROVE  /\ [s EXCEPT !.floor = x, !.outbox = y]
                 = [epoch |-> s.epoch, floor |-> x, high |-> s.high, rev |-> s.rev, outbox |-> y]
           /\ [s EXCEPT !.epoch = x, !.floor = y]
                 = [epoch |-> x, floor |-> y, high |-> s.high, rev |-> s.rev, outbox |-> s.outbox]
  <1>1. [s EXCEPT !.floor = x, !.outbox = y]
             = [epoch |-> s.epoch, floor |-> x, high |-> s.high, rev |-> s.rev, outbox |-> y]
    <2> DEFINE t == [s EXCEPT !.floor = x, !.outbox = y]
    <2>1. t.epoch = s.epoch /\ t.floor = x /\ t.high = s.high /\ t.rev = s.rev /\ t.outbox = y
      OBVIOUS
    <2>2. t = [k \in {"epoch", "floor", "high", "rev", "outbox"} |-> t[k]]
      OBVIOUS
    <2> HIDE DEF t
    <2>3. t = [epoch |-> s.epoch, floor |-> x, high |-> s.high, rev |-> s.rev, outbox |-> y]
      BY <2>1, <2>2
    <2> QED
      BY <2>3 DEF t
  <1>2. [s EXCEPT !.epoch = x, !.floor = y]
             = [epoch |-> x, floor |-> y, high |-> s.high, rev |-> s.rev, outbox |-> s.outbox]
    <2> DEFINE t == [s EXCEPT !.epoch = x, !.floor = y]
    <2>1. t.epoch = x /\ t.floor = y /\ t.high = s.high /\ t.rev = s.rev /\ t.outbox = s.outbox
      OBVIOUS
    <2>2. t = [k \in {"epoch", "floor", "high", "rev", "outbox"} |-> t[k]]
      OBVIOUS
    <2> HIDE DEF t
    <2>3. t = [epoch |-> x, floor |-> y, high |-> s.high, rev |-> s.rev, outbox |-> s.outbox]
      BY <2>1, <2>2
    <2> QED
      BY <2>3 DEF t
  <1> QED
    BY <1>1, <1>2, Zenon

LEMMA ConnWith ==
    ASSUME NEW cn, NEW u, NEW v, NEW x, NEW y,
           cn = [at |-> cn.at, after |-> cn.after, wire |-> cn.wire, live |-> cn.live, opened |-> cn.opened]
    PROVE  /\ [cn EXCEPT !.wire = x]
                 = [at |-> cn.at, after |-> cn.after, wire |-> x, live |-> cn.live, opened |-> cn.opened]
           /\ [cn EXCEPT !.at = x, !.opened = y]
                 = [at |-> x, after |-> cn.after, wire |-> cn.wire, live |-> cn.live, opened |-> y]
           /\ [cn EXCEPT !.live = x, !.opened = y, !.wire = u, !.after = v]
                 = [at |-> cn.at, after |-> v, wire |-> u, live |-> x, opened |-> y]
  <1>1. [cn EXCEPT !.wire = x]
             = [at |-> cn.at, after |-> cn.after, wire |-> x, live |-> cn.live, opened |-> cn.opened]
    <2> DEFINE t == [cn EXCEPT !.wire = x]
    <2>1. t.at = cn.at /\ t.after = cn.after /\ t.wire = x /\ t.live = cn.live /\ t.opened = cn.opened
      OBVIOUS
    <2>2. t = [k \in {"at", "after", "wire", "live", "opened"} |-> t[k]]
      OBVIOUS
    <2> HIDE DEF t
    <2>3. t = [at |-> cn.at, after |-> cn.after, wire |-> x, live |-> cn.live, opened |-> cn.opened]
      BY <2>1, <2>2
    <2> QED
      BY <2>3 DEF t
  <1>2. [cn EXCEPT !.at = x, !.opened = y]
             = [at |-> x, after |-> cn.after, wire |-> cn.wire, live |-> cn.live, opened |-> y]
    <2> DEFINE t == [cn EXCEPT !.at = x, !.opened = y]
    <2>1. t.at = x /\ t.after = cn.after /\ t.wire = cn.wire /\ t.live = cn.live /\ t.opened = y
      OBVIOUS
    <2>2. t = [k \in {"at", "after", "wire", "live", "opened"} |-> t[k]]
      OBVIOUS
    <2> HIDE DEF t
    <2>3. t = [at |-> x, after |-> cn.after, wire |-> cn.wire, live |-> cn.live, opened |-> y]
      BY <2>1, <2>2
    <2> QED
      BY <2>3 DEF t
  <1>3. [cn EXCEPT !.live = x, !.opened = y, !.wire = u, !.after = v]
             = [at |-> cn.at, after |-> v, wire |-> u, live |-> x, opened |-> y]
    <2> DEFINE t == [cn EXCEPT !.live = x, !.opened = y, !.wire = u, !.after = v]
    <2>1. t.at = cn.at /\ t.after = v /\ t.wire = u /\ t.live = x /\ t.opened = y
      OBVIOUS
    <2>2. t = [k \in {"at", "after", "wire", "live", "opened"} |-> t[k]]
      OBVIOUS
    <2> HIDE DEF t
    <2>3. t = [at |-> cn.at, after |-> v, wire |-> u, live |-> x, opened |-> y]
      BY <2>1, <2>2
    <2> QED
      BY <2>3 DEF t
  <1> QED
    BY <1>1, <1>2, <1>3, Zenon

\* A connection that the server has finished with.
LEMMA EndedOK ==
    ASSUME NEW s, NEW log, NEW cn, NEW c, ConnOK(s, cn, log), cn.at # "free"
    PROVE  /\ ConnOK(s, Ended(c, cn), log)
           /\ cn.live => Ended(c, cn) # Free /\ Ended(c, cn).live
  BY DEF ConnOK, Ended, Free

\* What a page of the stream carries.
LEMMA PageIsSound ==
    ASSUME NEW log, store \in Stores, LogOf(store, log), StreamAssumption,
           NEW after, NEW page \in ReadEvents(after)
    PROVE  page.frames \in Seq(SoundFrames(store, log))
  <1> DEFINE rows == RowsAfter(after)
             n    == Min({PageSize, Cardinality(rows)})
  <1>1. rows \subseteq store.outbox /\ IsFiniteSet(rows)
    BY FS_Subset DEF RowsAfter, LogOf
  <1>2. n \in Nat
    BY <1>1, FS_CardinalityType, MinOfTwo DEF StreamAssumption
  <1>3. rows \subseteq SoundFrames(store, log)
    BY <1>1 DEF LogOf, SoundFrames
  <1>4. PICK p \in [1..n -> rows] :
            page = [frames |-> p, next |-> Cursor(store.epoch, IF Cardinality(rows) > PageSize
                                                              THEN p[n].seq ELSE store.high)]
    BY Zenon DEF ReadEvents
  <1> HIDE DEF n, rows
  <1>5. p \in Seq(SoundFrames(store, log))
    BY <1>2, <1>3, <1>4
  <1> QED
    BY <1>4, <1>5

-------------------------------------------------------------------------------
(* Steps of the store *)

\* What a change of the store has to keep of what others have read from it.
Kept(s, log, t, new) ==
    /\ SoundFrames(s, log) \subseteq SoundFrames(t, new)
    /\ s.epoch <= t.epoch
    /\ \A epoch, seq \in Nat, rev \in Revisions :
           Knows(s, epoch, seq, rev, log) => Knows(t, epoch, seq, rev, new)

\* The rows of a transaction.
Rows(s, rs) ==
    LET rev == [r \in Res |-> IF r \in ToSet(rs) THEN s.rev[r] + 1 ELSE s.rev[r]]
    IN  { [seq |-> s.high + i, epoch |-> s.epoch, res |-> rs[i], rev |-> rev[rs[i]]]
          : i \in DOMAIN rs }

LEMMA WriteKeeps ==
    ASSUME NEW s \in Stores, NEW log, LogOf(s, log), NEW rs \in Seq(Res)
    PROVE  /\ Emitted(s, rs) \in Stores
           /\ LogOf(Emitted(s, rs), log \cup Rows(s, rs))
           /\ Kept(s, log, Emitted(s, rs), log \cup Rows(s, rs))
  <1> DEFINE rev  == [r \in Res |-> IF r \in ToSet(rs) THEN s.rev[r] + 1 ELSE s.rev[r]]
             row(i) == [seq |-> s.high + i, epoch |-> s.epoch, res |-> rs[i], rev |-> rev[rs[i]]]
             new  == {row(i) : i \in DOMAIN rs}
             t    == Emitted(s, rs)
             log2 == log \cup new
  <1>1. Rows(s, rs) = new
    BY Zenon DEF Rows
  <1>2. t = [s EXCEPT !.high = @ + Len(rs), !.rev = rev, !.outbox = @ \cup new]
    BY Zenon DEF Emitted
  <1>3. /\ s.high \in Nat /\ s.epoch \in Nat /\ s.floor \in Nat /\ s.rev \in Revisions
        /\ s.outbox \subseteq Events
        /\ s = [epoch |-> s.epoch, floor |-> s.floor, high |-> s.high, rev |-> s.rev,
                outbox |-> s.outbox]
    BY DEF Stores
  <1>4. /\ Len(rs) \in Nat /\ DOMAIN rs = 1..Len(rs) /\ \A i \in DOMAIN rs : rs[i] \in Res
    OBVIOUS
  <1>5. rev \in Revisions /\ \A r \in Res : s.rev[r] <= rev[r] /\ rev[r] \in Nat
    BY <1>3 DEF Revisions
  <1>6. \A i \in DOMAIN rs : row(i) \in Events
    BY <1>3, <1>4, <1>5 DEF Events, Revisions
  <1>7. IsFiniteSet(new)
    <2>1. IsFiniteSet(DOMAIN rs)
      BY <1>4, FS_Interval
    <2> DEFINE f == [i \in DOMAIN rs |-> row(i)]
    <2>2. f \in Surjection(DOMAIN rs, new)
      BY DEF Surjection
    <2> QED
      BY <2>1, <2>2, FS_Surjection
  <1>8. /\ t.epoch = s.epoch /\ t.floor = s.floor /\ t.high = s.high + Len(rs) /\ t.rev = rev
        /\ t.outbox = s.outbox \cup new
    BY <1>2, <1>3
  <1>9. t \in Stores
    <2>1. t = [epoch |-> t.epoch, floor |-> t.floor, high |-> t.high, rev |-> t.rev,
               outbox |-> t.outbox]
      BY <1>2, <1>3
    <2>2. new \subseteq Events
      BY <1>6
    <2>3. t.high \in Nat /\ t.outbox \subseteq Events
      <3> HIDE DEF new, t
      <3> QED
        BY <1>3, <1>4, <1>8, <2>2
    <2> QED
      BY <1>3, <1>5, <1>8, <2>1, <2>3 DEF Stores
  <1>10. \A e \in new : /\ e.seq > s.high /\ e.seq <= t.high /\ e.epoch = s.epoch
                        /\ e.res \in Res /\ e.rev = rev[e.res]
    BY <1>3, <1>4, <1>8
  <1>11. \A e, f \in new : e.seq = f.seq => e = f
    <2> SUFFICES ASSUME NEW i \in DOMAIN rs, NEW k \in DOMAIN rs, row(i).seq = row(k).seq
                 PROVE  i = k
      BY Zenon
    <2>1. s.high + i = s.high + k
      OBVIOUS
    <2> QED
      BY <1>3, <1>4, <2>1
  <1>12. \A r \in Res : rev[r] # s.rev[r] => \E e \in new : e.res = r
    <2> SUFFICES ASSUME NEW r \in Res, rev[r] # s.rev[r] PROVE \E e \in new : e.res = r
      OBVIOUS
    <2>1. PICK i \in DOMAIN rs : rs[i] = r
      BY DEF ToSet
    <2>2. row(i) \in new /\ row(i).res = rs[i]
      OBVIOUS
    <2> QED
      BY <2>1, <2>2
  <1>13. \A e \in log : e \in Events /\ e.seq \in Nat /\ e.epoch \in Nat /\ e.rev \in Nat /\ e.res \in Res
    BY DEF LogOf, Events
  <1>14. new \subseteq Events
    BY <1>6
  <1> HIDE DEF new, rev, t
  <1>15. LogOf(t, log2)
    <2>1. log2 \subseteq Events /\ t.outbox \subseteq log2 /\ IsFiniteSet(t.outbox)
      BY <1>7, <1>8, <1>14, FS_Union DEF LogOf
    <2>2. \A e \in log2 : e.seq > t.floor => e \in t.outbox
      BY <1>8 DEF LogOf
    <2>3. \A e, f \in log2 : e.seq = f.seq => e = f
      <3> SUFFICES ASSUME NEW e \in log2, NEW f \in log2, e.seq = f.seq PROVE e = f
        OBVIOUS
      <3>1. \A g \in log : ~(g.seq > s.high)
        BY <1>3, <1>13 DEF LogOf
      <3> QED
        BY <1>10, <1>11, <3>1 DEF LogOf
    <2>4. \A e \in log2 : e.seq <= t.high /\ e.epoch <= t.epoch /\ e.rev <= t.rev[e.res]
      <3>1. \A e \in log : e.seq <= t.high /\ e.epoch <= t.epoch /\ e.rev <= t.rev[e.res]
        BY <1>3, <1>4, <1>5, <1>8, <1>13 DEF LogOf, Revisions
      <3>2. \A e \in new : e.seq <= t.high /\ e.epoch <= t.epoch /\ e.rev <= t.rev[e.res]
        BY <1>3, <1>5, <1>8, <1>10
      <3> QED
        BY <3>1, <3>2
    <2> QED
      BY <2>1, <2>2, <2>3, <2>4 DEF LogOf
  <1>16. Kept(s, log, t, log2)
    <2>1. SoundFrames(s, log) \subseteq SoundFrames(t, log2) /\ s.epoch <= t.epoch
      BY <1>3, <1>8 DEF SoundFrames
    <2>2. ASSUME NEW epoch \in Nat, NEW seq \in Nat, NEW known \in Revisions,
                 Knows(s, epoch, seq, known, log)
          PROVE  Knows(t, epoch, seq, known, log2)
      <3>1. epoch <= t.epoch
        BY <1>8, <2>2 DEF Knows
      <3>2. ASSUME epoch = t.epoch
            PROVE  /\ seq <= t.high
                   /\ \A r \in Res : r # Queue => known[r] <= t.rev[r]
                   /\ \A r \in Res : known[r] < t.rev[r] =>
                         \E e \in log2 : e.res = r /\ e.rev = t.rev[r] /\ e.seq > seq
        <4>1. /\ seq <= s.high
              /\ \A r \in Res : r # Queue => known[r] <= s.rev[r]
              /\ \A r \in Res : known[r] < s.rev[r] =>
                    \E e \in log : e.res = r /\ e.rev = s.rev[r] /\ e.seq > seq
          BY <1>8, <2>2, <3>2 DEF Knows
        <4>2. seq <= t.high
          BY <1>3, <1>4, <1>8, <4>1
        <4>3. \A r \in Res : r # Queue => known[r] <= t.rev[r]
          BY <1>3, <1>5, <1>8, <4>1 DEF Revisions
        <4>4. ASSUME NEW r \in Res, known[r] < t.rev[r]
              PROVE  \E e \in log2 : e.res = r /\ e.rev = t.rev[r] /\ e.seq > seq
          <5>1. CASE rev[r] = s.rev[r]
            BY <1>8, <4>1, <4>4, <5>1
          <5>2. CASE rev[r] # s.rev[r]
            <6>1. PICK e \in new : e.res = r
              BY <1>12, <5>2
            <6>2. e.seq \in Nat
              BY <6>1, <1>14 DEF Events
            <6> QED
              BY <1>3, <1>8, <1>10, <4>1, <6>1, <6>2
          <5> QED
            BY <5>1, <5>2
        <4> QED
          BY <4>2, <4>3, <4>4
      <3> QED
        BY <3>1, <3>2 DEF Knows
    <2> QED
      BY <2>1, <2>2 DEF Kept
  <1> QED
    BY <1>1, <1>9, <1>15, <1>16 DEF t

LEMMA CompactKeeps ==
    ASSUME NEW log, store \in Stores, LogOf(store, log), NEW limit \in Nat, limit > store.floor
    PROVE  /\ Compacted(limit) \in Stores
           /\ LogOf(Compacted(limit), log)
           /\ Kept(store, log, Compacted(limit), log)
  <1> DEFINE t == Compacted(limit)
             left == {e \in store.outbox : e.seq > limit \/ e.res \in Active}
  <1>1. /\ store.high \in Nat /\ store.epoch \in Nat /\ store.floor \in Nat
        /\ store.rev \in Revisions /\ store.outbox \subseteq Events
        /\ store = [epoch |-> store.epoch, floor |-> store.floor, high |-> store.high,
                    rev |-> store.rev, outbox |-> store.outbox]
    BY DEF Stores
  <1>2. t = [epoch |-> store.epoch, floor |-> limit, high |-> store.high, rev |-> store.rev,
             outbox |-> left]
    <2>1. t = [store EXCEPT !.floor = limit, !.outbox = left]
      BY Zenon DEF Compacted
    <2> HIDE DEF t, left
    <2> QED
      BY <1>1, <2>1, StoreWith
  <1>3. left \subseteq store.outbox /\ IsFiniteSet(left)
    BY FS_Subset DEF LogOf
  <1>4. t \in Stores
    BY <1>1, <1>2, <1>3 DEF Stores
  <1>5. \A e \in log : e.seq > limit => e \in left
    BY <1>1 DEF LogOf, Events
  <1> HIDE DEF t, left
  <1>6. LogOf(t, log)
    BY <1>2, <1>3, <1>5 DEF LogOf
  <1>7. Kept(store, log, t, log)
    <2>1. t.epoch = store.epoch /\ t.high = store.high /\ t.rev = store.rev
      BY <1>2
    <2>2. SoundFrames(store, log) = SoundFrames(t, log)
      BY <2>1 DEF SoundFrames
    <2>3. \A epoch, seq, rev : Knows(store, epoch, seq, rev, log) => Knows(t, epoch, seq, rev, log)
      BY <2>1 DEF Knows
    <2> QED
      BY <1>1, <2>1, <2>2, <2>3 DEF Kept
  <1> QED
    BY <1>4, <1>6, <1>7 DEF t

\* A new epoch: what was known of the old ones binds nobody.
LEMMA RotationKeeps ==
    ASSUME NEW s \in Stores, NEW log, NEW u \in Stores, NEW new, LogOf(u, new),
           NEW n \in Nat, n > s.epoch, n > u.epoch
    PROVE  /\ Rotated(u, n) \in Stores /\ Rotated(u, n).epoch = n
           /\ LogOf(Rotated(u, n), new)
           /\ Kept(s, log, Rotated(u, n), new)
  <1> DEFINE t == Rotated(u, n)
  <1>1. /\ u.high \in Nat /\ u.epoch \in Nat /\ u.floor \in Nat /\ s.epoch \in Nat
        /\ u.rev \in Revisions /\ u.outbox \subseteq Events
        /\ u = [epoch |-> u.epoch, floor |-> u.floor, high |-> u.high, rev |-> u.rev,
                outbox |-> u.outbox]
    BY DEF Stores
  <1>2. t = [epoch |-> n, floor |-> u.high, high |-> u.high, rev |-> u.rev, outbox |-> u.outbox]
    <2>1. t = [u EXCEPT !.epoch = n, !.floor = u.high]
      BY Zenon DEF Rotated
    <2> HIDE DEF t
    <2> QED
      BY <1>1, <2>1, StoreWith
  <1>3. t \in Stores
    BY <1>1, <1>2 DEF Stores
  <1>4. \A e \in new : e.seq \in Nat /\ e.epoch \in Nat
    BY DEF LogOf, Events
  <1> HIDE DEF t
  <1>5. LogOf(t, new)
    <2>1. \A e \in new : ~(e.seq > t.floor) /\ e.epoch <= t.epoch
      BY <1>1, <1>2, <1>4 DEF LogOf
    <2> QED
      BY <1>2, <2>1 DEF LogOf
  <1>6. Kept(s, log, t, new)
    <2>1. \A e \in Events : e.epoch <= s.epoch => e.epoch <= t.epoch /\ e.epoch # t.epoch
      BY <1>1, <1>2 DEF Events
    <2>2. SoundFrames(s, log) \subseteq SoundFrames(t, new)
      BY <2>1 DEF SoundFrames
    <2>3. ASSUME NEW epoch \in Nat, NEW seq, NEW rev, Knows(s, epoch, seq, rev, log)
          PROVE  Knows(t, epoch, seq, rev, new)
      <3>1. epoch <= t.epoch /\ epoch # t.epoch
        BY <1>1, <1>2, <2>3 DEF Knows
      <3> QED
        BY <3>1 DEF Knows
    <2> QED
      BY <1>1, <1>2, <2>2, <2>3 DEF Kept
  <1> QED
    BY <1>2, <1>3, <1>5, <1>6 DEF t

\* The state after a step of the store, with or without a restart of the server.
LEMMA StoreStep ==
    ASSUME NEW log, StreamInvOf(log), NEW new,
           store' \in Stores, LogOf(store', new), Kept(store, log, store', new),
           UNCHANGED <<backup, client, reducer>>, conn' = conn \/ conn' = Down(conn)
    PROVE  StreamInv'
  <1>1. /\ store \in Stores /\ reducer \in Reducers
        /\ Knows(store, reducer.epoch, reducer.seq, reducer.rev, log)
        /\ ListingKnows(store, client.fetch, log)
        /\ conn = [c \in Conn |-> conn[c]]
        /\ \A c \in Conn : ConnOK(store, conn[c], log)
        /\ SourceIsLive /\ BackupOK(store)
    BY DEF StreamInvOf
  <1>2. Knows(store', reducer.epoch, reducer.seq, reducer.rev, new)
    BY <1>1 DEF Kept, Reducers
  <1>3. ListingKnows(store', client.fetch, new)
    BY <1>1 DEF Kept, ListingKnows, Data
  <1>4. ASSUME NEW cn, ConnOK(store, cn, log) PROVE ConnOK(store', cn, new)
    <2>1. CASE cn = Free
      BY <2>1 DEF ConnOK
    <2>2. CASE cn # Free
      <3>1. cn.wire \in Seq(SoundFrames(store, log))
        BY <1>4, <2>2 DEF ConnOK
      <3>2. cn.wire \in Seq(SoundFrames(store', new))
        BY <3>1 DEF Kept
      <3> QED
        BY <1>4, <2>2, <3>2 DEF ConnOK
    <2> QED
      BY <2>1, <2>2
  <1>5. /\ conn' = [c \in Conn |-> conn'[c]]
        /\ \A c \in Conn : ConnOK(store', conn'[c], new)
        /\ \A c \in Conn : conn[c] # Free /\ conn[c].live => conn'[c] # Free /\ conn'[c].live
    <2>1. CASE conn' = conn
      BY <1>1, <1>4, <2>1
    <2>2. CASE conn' = Down(conn)
      <3>1. ASSUME NEW c \in Conn
            PROVE  /\ conn'[c] = IF conn[c].at # "free" /\ conn[c].live
                                 THEN [conn[c] EXCEPT !.at = "ended", !.wire = <<>>] ELSE Free
        BY <2>2 DEF Down
      <3>2. ASSUME NEW c \in Conn
            PROVE  /\ ConnOK(store', conn'[c], new)
                   /\ conn[c] # Free /\ conn[c].live => conn'[c] # Free /\ conn'[c].live
        <4>1. CASE conn[c] = Free
          <5>1. conn[c].at = "free"
            BY <4>1 DEF Free
          <5>2. conn'[c] = Free
            BY <3>1, <5>1
          <5> QED
            BY <4>1, <5>2 DEF ConnOK
        <4>2. CASE conn[c] # Free
          <5>1. /\ conn[c] = [at |-> conn[c].at, after |-> conn[c].after, wire |-> conn[c].wire,
                              live |-> conn[c].live, opened |-> conn[c].opened]
                /\ conn[c].at # "free"
            BY <1>1, <4>2 DEF ConnOK
          <5>2. conn'[c] = IF conn[c].live
                           THEN [at |-> "ended", after |-> conn[c].after, wire |-> <<>>,
                                 live |-> conn[c].live, opened |-> conn[c].opened]
                           ELSE Free
            BY <3>1, <5>1
          <5> QED
            BY <5>2 DEF ConnOK, Free
        <4> QED
          BY <4>1, <4>2
      <3>3. conn' = [c \in Conn |-> conn'[c]]
        BY <2>2 DEF Down
      <3> QED
        BY <3>2, <3>3
    <2> QED
      BY <2>1, <2>2
  <1>6. SourceIsLive'
    BY <1>1, <1>5 DEF SourceIsLive
  <1>7. BackupOK(store)'
    <2>1. store'.epoch \in Nat /\ store.epoch \in Nat /\ store.epoch <= store'.epoch
      BY <1>1 DEF Stores, Kept
    <2> QED
      BY <1>1, <2>1 DEF BackupOK, Stores
  <1>8. new \in SUBSET Events
    BY DEF LogOf
  <1>9. StreamInvOf(new)'
    BY <1>1, <1>2, <1>3, <1>5, <1>6, <1>7 DEF StreamInvOf
  <1> QED
    BY <1>8, <1>9 DEF StreamInv

-------------------------------------------------------------------------------
(* Steps of the server *)

\* The state after a step that changes one connection and what the browser knows.
LEMMA ReducerStep ==
    ASSUME NEW log, StreamInvOf(log), UNCHANGED <<store, backup, client>>,
           reducer' \in Reducers, Knows(store, reducer'.epoch, reducer'.seq, reducer'.rev, log),
           NEW c \in Conn, NEW cn, conn' = [conn EXCEPT ![c] = cn], ConnOK(store, cn, log),
           conn[c] # Free /\ conn[c].live => cn # Free /\ cn.live
    PROVE  StreamInv'
  <1>1. /\ store \in Stores /\ LogOf(store, log)
        /\ ListingKnows(store, client.fetch, log)
        /\ conn = [x \in Conn |-> conn[x]]
        /\ \A x \in Conn : ConnOK(store, conn[x], log)
        /\ SourceIsLive /\ BackupOK(store)
    BY DEF StreamInvOf
  <1>2. \A x \in Conn : conn'[x] = IF x = c THEN cn ELSE conn[x]
    BY <1>1
  <1>3. conn' = [x \in Conn |-> conn'[x]]
    BY <1>1
  <1>4. \A x \in Conn : ConnOK(store, conn'[x], log)
    BY <1>1, <1>2
  <1>5. SourceIsLive'
    <2>1. client' = client
      OBVIOUS
    <2> QED
      BY <1>1, <1>2, <2>1 DEF SourceIsLive
  <1>6. StreamInvOf(log)'
    <2>1. BackupOK(store)'
      BY <1>1 DEF BackupOK
    <2> QED
      BY <1>1, <1>3, <1>4, <1>5, <2>1 DEF StreamInvOf
  <1>7. log \in SUBSET Events
    BY <1>1 DEF LogOf
  <1> QED
    BY <1>6, <1>7 DEF StreamInv

\* The state after a step that changes one connection.
LEMMA ConnStep ==
    ASSUME NEW log, StreamInvOf(log), UNCHANGED <<store, backup, client, reducer>>,
           NEW c \in Conn, NEW cn, conn' = [conn EXCEPT ![c] = cn], ConnOK(store, cn, log),
           conn[c] # Free /\ conn[c].live => cn # Free /\ cn.live
    PROVE  StreamInv'
  <1>1. /\ reducer' \in Reducers
        /\ Knows(store, reducer'.epoch, reducer'.seq, reducer'.rev, log)
    BY DEF StreamInvOf
  <1> QED
    BY <1>1, ReducerStep

\* What is known of a connection in use.
LEMMA ConnShape ==
    ASSUME NEW log, StreamInvOf(log), NEW c \in Conn, conn[c].at # "free"
    PROVE  /\ conn[c] = [at |-> conn[c].at, after |-> conn[c].after, wire |-> conn[c].wire,
                         live |-> conn[c].live, opened |-> conn[c].opened]
           /\ conn[c].wire \in Seq(SoundFrames(store, log))
           /\ ConnOK(store, conn[c], log)
  BY DEF StreamInvOf, ConnOK, Free

LEMMA ServeFirstStep ==
    ASSUME NEW log, StreamInvOf(log), NEW c \in Conn, ServeFirst(c)
    PROVE  StreamInv'
  <1>1. conn[c].at = "request" /\ UNCHANGED <<store, backup, client, reducer>>
    BY DEF ServeFirst
  <1>2. /\ conn[c] = [at |-> conn[c].at, after |-> conn[c].after, wire |-> conn[c].wire,
                      live |-> conn[c].live, opened |-> conn[c].opened]
        /\ conn[c].wire \in Seq(SoundFrames(store, log))
        /\ ConnOK(store, conn[c], log)
    BY <1>1, ConnShape
  <1>3. CASE CursorStatus(conn[c].after) = 200
    <2>1. PICK page \in ReadEvents(conn[c].after) :
             conn' = [conn EXCEPT ![c] =
                   IF @.live
                   THEN [@ EXCEPT !.at = "checked", !.after = page.next, !.wire = page.frames]
                   ELSE [@ EXCEPT !.at = "checked", !.after = Cursor(0, 0)]]
      BY <1>3 DEF ServeFirst
    <2>2. page.frames \in Seq(SoundFrames(store, log))
      BY PageIsSound, StreamAssumption DEF StreamInvOf
    <2> DEFINE cn == IF conn[c].live
                     THEN [conn[c] EXCEPT !.at = "checked", !.after = page.next,
                                          !.wire = page.frames]
                     ELSE [conn[c] EXCEPT !.at = "checked", !.after = Cursor(0, 0)]
    <2>3. conn' = [conn EXCEPT ![c] = cn]
      BY <2>1
    <2>4. cn = [at |-> "checked",
                after |-> IF conn[c].live THEN page.next ELSE Cursor(0, 0),
                wire |-> IF conn[c].live THEN page.frames ELSE conn[c].wire,
                live |-> conn[c].live, opened |-> conn[c].opened]
      BY <1>2
    <2> HIDE DEF cn
    <2>5. ConnOK(store, cn, log)
      BY <1>2, <2>2, <2>4 DEF ConnOK
    <2>6. conn[c] # Free /\ conn[c].live => cn # Free /\ cn.live
      BY <2>4 DEF Free
    <2> QED
      BY <1>1, <2>3, <2>5, <2>6, ConnStep
  <1>4. CASE CursorStatus(conn[c].after) # 200
    <2>1. conn' = [conn EXCEPT ![c] = Ended(c, conn[c])]
      BY <1>4 DEF ServeFirst
    <2>2. /\ ConnOK(store, Ended(c, conn[c]), log)
          /\ conn[c].live => Ended(c, conn[c]) # Free /\ Ended(c, conn[c]).live
      BY <1>1, <1>2, EndedOK
    <2> QED
      BY <1>1, <2>1, <2>2, ConnStep
  <1> QED
    BY <1>3, <1>4

LEMMA TakePlaceStep ==
    ASSUME NEW log, StreamInvOf(log), NEW c \in Conn, TakePlace(c)
    PROVE  StreamInv'
  <1>1. conn[c].at = "checked" /\ UNCHANGED <<store, backup, client, reducer>>
    BY DEF TakePlace
  <1>2. /\ conn[c] = [at |-> conn[c].at, after |-> conn[c].after, wire |-> conn[c].wire,
                      live |-> conn[c].live, opened |-> conn[c].opened]
        /\ conn[c].wire \in Seq(SoundFrames(store, log))
    BY <1>1, ConnShape
  <1>3. CASE subs >= MaxSubscribers
    <2> DEFINE cn == [conn[c] EXCEPT !.wire = <<>>]
    <2>1. conn' = [conn EXCEPT ![c] = Ended(c, cn)]
      BY <1>3 DEF TakePlace
    <2>2. cn = [at |-> conn[c].at, after |-> conn[c].after, wire |-> <<>>,
                live |-> conn[c].live, opened |-> conn[c].opened]
      BY <1>2
    <2> HIDE DEF cn
    <2>3. ConnOK(store, cn, log) /\ cn.at # "free" /\ cn.live = conn[c].live
      BY <1>1, <2>2 DEF ConnOK
    <2>4. /\ ConnOK(store, Ended(c, cn), log)
          /\ cn.live => Ended(c, cn) # Free /\ Ended(c, cn).live
      BY <2>3, EndedOK
    <2> QED
      BY <1>1, <2>1, <2>3, <2>4, ConnStep
  <1>4. CASE ~(subs >= MaxSubscribers)
    <2> DEFINE cn == [conn[c] EXCEPT !.at = "counted"]
    <2>1. conn' = [conn EXCEPT ![c] = cn]
      BY <1>4 DEF TakePlace
    <2>2. cn = [at |-> "counted", after |-> conn[c].after, wire |-> conn[c].wire,
                live |-> conn[c].live, opened |-> conn[c].opened]
      BY <1>2
    <2> HIDE DEF cn
    <2>3. ConnOK(store, cn, log) /\ (conn[c].live => cn # Free /\ cn.live)
      BY <1>2, <2>2 DEF ConnOK, Free
    <2> QED
      BY <1>1, <2>1, <2>3, ConnStep
  <1> QED
    BY <1>3, <1>4

LEMMA StartResponseStep ==
    ASSUME NEW log, StreamInvOf(log), NEW c \in Conn, StartResponse(c)
    PROVE  StreamInv'
  <1> DEFINE cn == [conn[c] EXCEPT !.at = "stream", !.opened = TRUE]
  <1>1. /\ conn[c].at = "counted" /\ UNCHANGED <<store, backup, client, reducer>>
        /\ conn' = [conn EXCEPT ![c].at = "stream", ![c].opened = TRUE]
    BY DEF StartResponse
  <1>2. /\ conn[c] = [at |-> conn[c].at, after |-> conn[c].after, wire |-> conn[c].wire,
                      live |-> conn[c].live, opened |-> conn[c].opened]
        /\ conn[c].wire \in Seq(SoundFrames(store, log))
    BY <1>1, ConnShape
  <1>3. conn' = [conn EXCEPT ![c] = cn]
    BY <1>1 DEF StreamInvOf
  <1>4. cn = [at |-> "stream", after |-> conn[c].after, wire |-> conn[c].wire,
              live |-> conn[c].live, opened |-> TRUE]
    <2>1. PICK old : old = conn[c]
      OBVIOUS
    <2>2. old = [at |-> old.at, after |-> old.after, wire |-> old.wire,
                 live |-> old.live, opened |-> old.opened]
      BY <1>2, <2>1
    <2>3. [old EXCEPT !.at = "stream", !.opened = TRUE]
             = [at |-> "stream", after |-> old.after, wire |-> old.wire,
                live |-> old.live, opened |-> TRUE]
      BY <2>2, ConnWith, Zenon
    <2> QED
      BY <2>1, <2>3, Zenon
  <1> HIDE DEF cn
  <1>5. ConnOK(store, cn, log) /\ (conn[c].live => cn # Free /\ cn.live)
    BY <1>2, <1>4 DEF ConnOK, Free
  <1> QED
    BY <1>1, <1>3, <1>5, ConnStep

LEMMA NeverStartsStep ==
    ASSUME NEW log, StreamInvOf(log), NEW c \in Conn, NeverStarts(c)
    PROVE  StreamInv'
  <1>1. /\ ~conn[c].live /\ UNCHANGED <<store, backup, client, reducer>>
        /\ conn' = [conn EXCEPT ![c] = Free]
    BY DEF NeverStarts
  <1>2. ConnOK(store, Free, log)
    BY DEF ConnOK
  <1> QED
    BY <1>1, <1>2, ConnStep

LEMMA PollStep ==
    ASSUME NEW log, StreamInvOf(log), NEW c \in Conn, Poll(c)
    PROVE  StreamInv'
  <1>1. /\ conn[c].at = "stream" /\ conn[c].live
        /\ UNCHANGED <<store, backup, client, reducer>>
    BY DEF Poll
  <1>2. /\ conn[c] = [at |-> conn[c].at, after |-> conn[c].after, wire |-> conn[c].wire,
                      live |-> conn[c].live, opened |-> conn[c].opened]
        /\ conn[c].wire \in Seq(SoundFrames(store, log))
    BY <1>1, ConnShape
  <1>3. CASE CursorStatus(conn[c].after) = 200
    <2>1. PICK page \in ReadEvents(conn[c].after) :
             conn' = [conn EXCEPT ![c].after = page.next, ![c].wire = @ \o page.frames]
      BY <1>3 DEF Poll
    <2>2. page.frames \in Seq(SoundFrames(store, log))
      BY PageIsSound, StreamAssumption DEF StreamInvOf
    <2> DEFINE cn == [conn[c] EXCEPT !.after = page.next, !.wire = @ \o page.frames]
    <2>3. conn' = [conn EXCEPT ![c] = cn]
      BY <2>1 DEF StreamInvOf
    <2>4. cn = [at |-> conn[c].at, after |-> page.next, wire |-> conn[c].wire \o page.frames,
                live |-> conn[c].live, opened |-> conn[c].opened]
      <3>1. PICK old, after, wire :
               old = conn[c] /\ after = page.next /\ wire = conn[c].wire \o page.frames
        OBVIOUS
      <3>2. old = [at |-> old.at, after |-> old.after, wire |-> old.wire,
                   live |-> old.live, opened |-> old.opened]
        BY <1>2, <3>1
      <3>3. [old EXCEPT !.after = after, !.wire = wire]
               = [at |-> old.at, after |-> after, wire |-> wire,
                  live |-> old.live, opened |-> old.opened]
        <4> DEFINE t == [old EXCEPT !.after = after, !.wire = wire]
        <4>1. /\ t.at = old.at /\ t.after = after /\ t.wire = wire
              /\ t.live = old.live /\ t.opened = old.opened
          BY <3>2
        <4>2. t = [k \in {"at", "after", "wire", "live", "opened"} |-> t[k]]
          BY <3>2
        <4> HIDE DEF t
        <4>3. t = [at |-> old.at, after |-> after, wire |-> wire,
                   live |-> old.live, opened |-> old.opened]
          BY <4>1, <4>2
        <4> QED
          BY <4>3 DEF t
      <3> QED
        BY <3>1, <3>3, Zenon
    <2> HIDE DEF cn
    <2>5. cn.wire \in Seq(SoundFrames(store, log))
      BY <1>2, <2>2, <2>4
    <2>6. ConnOK(store, cn, log) /\ (conn[c].live => cn # Free /\ cn.live)
      BY <1>1, <1>2, <2>4, <2>5 DEF ConnOK, Free
    <2> QED
      BY <1>1, <2>3, <2>6, ConnStep
  <1>4. CASE CursorStatus(conn[c].after) # 200
    <2> DEFINE cn == [conn[c] EXCEPT !.wire = Append(conn[c].wire, Resynced)]
    <2>1. conn' = [conn EXCEPT ![c] = Ended(c, cn)]
      <3>1. conn' = [conn EXCEPT ![c] =
                 Ended(c, [@ EXCEPT !.wire = Append(conn[c].wire, [resync |-> TRUE])])]
        BY <1>4 DEF Poll
      <3> QED
        BY <3>1 DEF Resynced
    <2>2. cn = [at |-> conn[c].at, after |-> conn[c].after,
                wire |-> Append(conn[c].wire, Resynced),
                live |-> conn[c].live, opened |-> conn[c].opened]
      BY <1>2, ConnWith, Zenon
    <2>3. Append(conn[c].wire, Resynced) \in Seq(SoundFrames(store, log))
      <3>1. Resynced \in SoundFrames(store, log)
        BY DEF SoundFrames
      <3> QED
        BY <1>2, <3>1
    <2> HIDE DEF cn
    <2>4. ConnOK(store, cn, log) /\ cn.at # "free" /\ cn.live = conn[c].live
      BY <1>1, <2>2, <2>3 DEF ConnOK
    <2>5. /\ ConnOK(store, Ended(c, cn), log)
          /\ cn.live => Ended(c, cn) # Free /\ Ended(c, cn).live
      BY <2>4, EndedOK
    <2> QED
      BY <1>1, <2>1, <2>4, <2>5, ConnStep
  <1> QED
    BY <1>3, <1>4

LEMMA EndStreamStep ==
    ASSUME NEW log, StreamInvOf(log), NEW c \in Conn, EndStream(c)
    PROVE  StreamInv'
  <1>1. /\ conn[c].at = "stream" /\ UNCHANGED <<store, backup, client, reducer>>
        /\ conn' = [conn EXCEPT ![c] = Ended(c, conn[c])]
    BY DEF EndStream
  <1>2. ConnOK(store, conn[c], log)
    BY <1>1, ConnShape
  <1>3. /\ ConnOK(store, Ended(c, conn[c]), log)
        /\ conn[c].live => Ended(c, conn[c]) # Free /\ Ended(c, conn[c]).live
    BY <1>1, <1>2, EndedOK
  <1> QED
    BY <1>1, <1>3, ConnStep

-------------------------------------------------------------------------------
(* Steps of the browser *)

\* The state after a step that leaves the connections alone.
LEMMA ClientStep ==
    ASSUME NEW log, StreamInvOf(log), UNCHANGED <<store, backup, conn, reducer>>,
           NEW pc, NEW source, NEW fetch,
           client' = [pc |-> pc, source |-> source, fetch |-> fetch],
           source \in {client.source, NoConn},
           pc \in {"opening", "connected"} => source # NoConn,
           ListingKnows(store, fetch, log)
    PROVE  StreamInv'
  <1>1. /\ store \in Stores /\ reducer \in Reducers /\ LogOf(store, log)
        /\ Knows(store, reducer.epoch, reducer.seq, reducer.rev, log)
        /\ conn = [x \in Conn |-> conn[x]]
        /\ \A x \in Conn : ConnOK(store, conn[x], log)
        /\ SourceIsLive /\ BackupOK(store)
    BY DEF StreamInvOf
  <1>2. client'.pc = pc /\ client'.source = source /\ client'.fetch = fetch
    OBVIOUS
  <1>3. SourceIsLive'
    BY <1>1, <1>2 DEF SourceIsLive
  <1>4. BackupOK(store)'
    BY <1>1 DEF BackupOK
  <1>5. StreamInvOf(log)'
    BY <1>1, <1>2, <1>3, <1>4 DEF StreamInvOf
  <1>6. log \in SUBSET Events
    BY <1>1 DEF LogOf
  <1> QED
    BY <1>5, <1>6 DEF StreamInv

\* The browser gives its connection up.
LEMMA ClosedStep ==
    ASSUME NEW log, StreamInvOf(log), UNCHANGED <<store, backup, reducer>>,
           conn' = Closed(client.source), NEW pc, pc \notin {"opening", "connected"},
           client' = [pc |-> pc, source |-> NoConn, fetch |-> NoFetch]
    PROVE  StreamInv'
  <1>1. /\ store \in Stores /\ reducer \in Reducers /\ LogOf(store, log)
        /\ Knows(store, reducer.epoch, reducer.seq, reducer.rev, log)
        /\ conn = [x \in Conn |-> conn[x]]
        /\ \A x \in Conn : ConnOK(store, conn[x], log)
        /\ SourceIsLive /\ BackupOK(store)
    BY DEF StreamInvOf
  <1>2. CASE client.source = NoConn
    <2>1. conn' = conn
      BY <1>2 DEF Closed
    <2>2. ListingKnows(store, NoFetch, log)
      BY DEF ListingKnows
    <2> QED
      BY <2>1, <2>2, ClientStep
  <1>3. CASE client.source # NoConn
    <2> DEFINE c  == client.source
               cn == IF conn[c].at = "ended" THEN Free
                     ELSE [conn[c] EXCEPT !.live = FALSE, !.opened = FALSE, !.wire = <<>>,
                                          !.after = IF conn[c].at = "request" THEN @
                                                    ELSE Cursor(0, 0)]
    <2>1. c \in Conn /\ conn[c].at # "free"
      BY <1>1, <1>3 DEF SourceIsLive, ConnOK
    <2>2. conn[c] = [at |-> conn[c].at, after |-> conn[c].after, wire |-> conn[c].wire,
                     live |-> conn[c].live, opened |-> conn[c].opened]
      BY <2>1, ConnShape
    <2>3. conn' = [conn EXCEPT ![c] = cn]
      BY <1>3 DEF Closed
    <2>4. \/ cn = Free
          \/ cn = [at |-> conn[c].at,
                   after |-> IF conn[c].at = "request" THEN conn[c].after ELSE Cursor(0, 0),
                   wire |-> <<>>, live |-> FALSE, opened |-> FALSE]
      BY <2>2, ConnWith, Zenon
    <2> HIDE DEF cn
    <2>5. ConnOK(store, cn, log)
      <3>1. cn # Free =>
               /\ cn.at = conn[c].at /\ cn.wire = <<>>
               /\ cn = [at |-> cn.at, after |-> cn.after, wire |-> cn.wire,
                        live |-> cn.live, opened |-> cn.opened]
        BY <2>4
      <3>2. <<>> \in Seq(SoundFrames(store, log))
        OBVIOUS
      <3> QED
        BY <2>1, <3>1, <3>2 DEF ConnOK
    <2>6. \A x \in Conn : conn'[x] = IF x = c THEN cn ELSE conn[x]
      BY <1>1, <2>3
    <2>7. conn' = [x \in Conn |-> conn'[x]]
      BY <1>1, <2>3
    <2>8. \A x \in Conn : ConnOK(store, conn'[x], log)
      BY <1>1, <2>5, <2>6
    <2>9. client'.pc = pc /\ client'.source = NoConn /\ client'.fetch = NoFetch
      OBVIOUS
    <2>10. SourceIsLive'
      BY <2>9 DEF SourceIsLive
    <2>11. ListingKnows(store, client.fetch, log)' /\ BackupOK(store)'
      BY <1>1, <2>9 DEF ListingKnows, BackupOK
    <2>12. StreamInvOf(log)'
      BY <1>1, <2>7, <2>8, <2>10, <2>11 DEF StreamInvOf
    <2>13. log \in SUBSET Events
      BY <1>1 DEF LogOf
    <2> QED
      BY <2>12, <2>13 DEF StreamInv
  <1> QED
    BY <1>2, <1>3

\* The browser opens a connection after what its reducer knows.
LEMMA OpenStep ==
    ASSUME NEW log, StreamInvOf(log), UNCHANGED <<store, backup>>, NEW c \in Conn, NEW at,
           Open(c, at), reducer' \in Reducers,
           Knows(store, reducer'.epoch, reducer'.seq, reducer'.rev, log)
    PROVE  StreamInv'
  <1> DEFINE cn == [at |-> "request", after |-> at, wire |-> <<>>, live |-> TRUE, opened |-> FALSE]
  <1>1. /\ store \in Stores /\ LogOf(store, log)
        /\ conn = [x \in Conn |-> conn[x]]
        /\ \A x \in Conn : ConnOK(store, conn[x], log)
        /\ BackupOK(store)
    BY DEF StreamInvOf
  <1>2. /\ conn' = [conn EXCEPT ![c] = cn]
        /\ client' = [pc |-> "opening", source |-> c, fetch |-> NoFetch]
    BY DEF Open
  <1>3. ConnOK(store, cn, log) /\ cn # Free /\ cn.live
    BY DEF ConnOK, Free
  <1> HIDE DEF cn
  <1>4. \A x \in Conn : conn'[x] = IF x = c THEN cn ELSE conn[x]
    BY <1>1, <1>2
  <1>5. conn' = [x \in Conn |-> conn'[x]]
    BY <1>1, <1>2
  <1>6. \A x \in Conn : ConnOK(store, conn'[x], log)
    BY <1>1, <1>3, <1>4
  <1>7. client'.pc = "opening" /\ client'.source = c /\ client'.fetch = NoFetch
    BY <1>2
  <1>8. SourceIsLive'
    <2>1. c # NoConn
      BY StreamAssumption
    <2> QED
      BY <1>2, <1>3, <1>4, <1>7, <2>1 DEF SourceIsLive
  <1>9. ListingKnows(store, client.fetch, log)' /\ BackupOK(store)'
    BY <1>1, <1>7 DEF ListingKnows, BackupOK
  <1>10. StreamInvOf(log)'
    BY <1>1, <1>5, <1>6, <1>8, <1>9 DEF StreamInvOf
  <1>11. log \in SUBSET Events
    BY <1>1 DEF LogOf
  <1> QED
    BY <1>10, <1>11 DEF StreamInv

\* A listing is merged into what is known.
LEMMA SyncKnows ==
    ASSUME NEW log, store \in Stores, reducer \in Reducers, NEW data \in Data,
           Knows(store, reducer.epoch, reducer.seq, reducer.rev, log),
           Knows(store, data.cursor.epoch, data.cursor.seq, data.rev, log)
    PROVE  /\ ApplySync(data) \in Reducers
           /\ Knows(store, ApplySync(data).epoch, ApplySync(data).seq, ApplySync(data).rev, log)
  <1> DEFINE same  == reducer.epoch = data.cursor.epoch
             known == [r \in Res |-> IF same \/ r = Queue THEN reducer.rev[r] ELSE 0]
             seq   == IF same THEN Max({reducer.seq, data.cursor.seq}) ELSE data.cursor.seq
             rev   == [r \in Res |-> Max({known[r], data.rev[r]})]
  <1>1. ApplySync(data) = [epoch |-> data.cursor.epoch, seq |-> seq, rev |-> rev]
    BY DEF ApplySync, Newer
  <1>2. /\ data.cursor.epoch \in Nat /\ data.cursor.seq \in Nat /\ data.rev \in Revisions
        /\ reducer.epoch \in Nat /\ reducer.seq \in Nat /\ reducer.rev \in Revisions
        /\ store.epoch \in Nat /\ store.high \in Nat /\ store.rev \in Revisions
    BY DEF Data, Reducers, Stores
  <1>3. \A r \in Res : known[r] \in Nat
    BY <1>2 DEF Revisions
  <1>4. \A r \in Res : /\ rev[r] \in {known[r], data.rev[r]} /\ rev[r] \in Nat
                       /\ rev[r] >= known[r] /\ rev[r] >= data.rev[r]
    BY <1>2, <1>3, MaxOfTwo DEF Revisions
  <1>5. rev \in Revisions
    BY <1>4 DEF Revisions
  <1>6. /\ same => /\ seq \in {reducer.seq, data.cursor.seq} /\ seq \in Nat
                   /\ seq >= reducer.seq /\ seq >= data.cursor.seq
        /\ ~same => seq = data.cursor.seq
    BY <1>2, MaxOfTwo
  <1>7. \A r \in Res : same => known[r] = reducer.rev[r]
    OBVIOUS
  <1>8. \A r \in Res : ~same /\ r # Queue => known[r] = 0
    OBVIOUS
  <1>9. data.cursor.epoch <= store.epoch
    BY DEF Knows
  <1> HIDE DEF known, seq, rev
  <1>10. ASSUME data.cursor.epoch = store.epoch
         PROVE  /\ seq <= store.high
                /\ \A r \in Res : r # Queue => rev[r] <= store.rev[r]
                /\ \A r \in Res : rev[r] < store.rev[r] =>
                      \E e \in log : e.res = r /\ e.rev = store.rev[r] /\ e.seq > seq
    <2>1. /\ data.cursor.seq <= store.high
          /\ \A r \in Res : r # Queue => data.rev[r] <= store.rev[r]
          /\ \A r \in Res : data.rev[r] < store.rev[r] =>
                \E e \in log : e.res = r /\ e.rev = store.rev[r] /\ e.seq > data.cursor.seq
      BY <1>10 DEF Knows
    <2>2. CASE same
      <3>1. /\ reducer.seq <= store.high
            /\ \A r \in Res : r # Queue => reducer.rev[r] <= store.rev[r]
            /\ \A r \in Res : reducer.rev[r] < store.rev[r] =>
                  \E e \in log : e.res = r /\ e.rev = store.rev[r] /\ e.seq > reducer.seq
        BY <1>10, <2>2 DEF Knows
      <3>2. ASSUME NEW r \in Res, rev[r] < store.rev[r]
            PROVE  /\ reducer.rev[r] < store.rev[r] /\ data.rev[r] < store.rev[r]
        BY <1>2, <1>4, <1>7, <2>2, <3>2 DEF Revisions
      <3> QED
        BY <1>4, <1>6, <1>7, <2>1, <2>2, <3>1, <3>2
    <2>3. CASE ~same
      <3>1. ASSUME NEW r \in Res, r # Queue PROVE rev[r] = data.rev[r]
        BY <1>2, <1>4, <1>8, <2>3, <3>1 DEF Revisions
      <3>2. ASSUME NEW r \in Res, rev[r] < store.rev[r] PROVE data.rev[r] < store.rev[r]
        BY <1>2, <1>4, <3>2 DEF Revisions
      <3> QED
        BY <1>6, <2>1, <2>3, <3>1, <3>2
    <2> QED
      BY <2>2, <2>3
  <1>11. seq \in Nat
    BY <1>2, <1>6
  <1> QED
    BY <1>1, <1>2, <1>5, <1>9, <1>10, <1>11 DEF Knows, Reducers

\* The next event is applied.
LEMMA FrameKnows ==
    ASSUME NEW log, store \in Stores, reducer \in Reducers, LogOf(store, log),
           Knows(store, reducer.epoch, reducer.seq, reducer.rev, log),
           NEW e \in Events, e \in SoundFrames(store, log), ~MustResync(e) \/ Duplicate(e)
    PROVE  /\ Reduced(e) \in Reducers
           /\ Knows(store, Reduced(e).epoch, Reduced(e).seq, Reduced(e).rev, log)
  <1>1. CASE Duplicate(e)
    BY <1>1 DEF Reduced
  <1>2. CASE ~Duplicate(e)
    <2> DEFINE rev == [reducer.rev EXCEPT ![e.res] = Max({reducer.rev[e.res], e.rev})]
    <2>1. /\ e.seq \in Nat /\ e.epoch \in Nat /\ e.res \in Res /\ e.rev \in Nat
          /\ reducer.epoch \in Nat /\ reducer.seq \in Nat /\ reducer.rev \in Revisions
          /\ reducer = [epoch |-> reducer.epoch, seq |-> reducer.seq, rev |-> reducer.rev]
          /\ store.epoch \in Nat /\ store.high \in Nat /\ store.rev \in Revisions
      BY DEF Events, Reducers, Stores
    <2>2. e.epoch = reducer.epoch /\ e.seq = reducer.seq + 1
      BY <1>2, <2>1 DEF MustResync, Duplicate
    <2>3. Reduced(e) = [epoch |-> reducer.epoch, seq |-> e.seq, rev |-> rev]
      BY <1>2, <2>1 DEF Reduced
    <2>4. /\ Max({reducer.rev[e.res], e.rev}) \in {reducer.rev[e.res], e.rev}
          /\ Max({reducer.rev[e.res], e.rev}) \in Nat
          /\ Max({reducer.rev[e.res], e.rev}) >= reducer.rev[e.res]
          /\ Max({reducer.rev[e.res], e.rev}) >= e.rev
      BY <2>1, MaxOfTwo DEF Revisions
    <2>5. /\ rev \in Revisions
          /\ \A r \in Res : r # e.res => rev[r] = reducer.rev[r]
          /\ rev[e.res] = Max({reducer.rev[e.res], e.rev})
      BY <2>1, <2>4 DEF Revisions
    <2> HIDE DEF rev
    <2>6. reducer.epoch <= store.epoch
      BY DEF Knows
    <2>7. ASSUME reducer.epoch = store.epoch
          PROVE  /\ e.seq <= store.high
                 /\ \A r \in Res : r # Queue => rev[r] <= store.rev[r]
                 /\ \A r \in Res : rev[r] < store.rev[r] =>
                       \E f \in log : f.res = r /\ f.rev = store.rev[r] /\ f.seq > e.seq
      <3>1. /\ \A r \in Res : r # Queue => reducer.rev[r] <= store.rev[r]
            /\ \A r \in Res : reducer.rev[r] < store.rev[r] =>
                  \E f \in log : f.res = r /\ f.rev = store.rev[r] /\ f.seq > reducer.seq
        BY <2>7 DEF Knows
      <3>2. e \in log
        <4>1. e # Resynced
          BY DEF Events, Resynced
        <4> QED
          BY <2>2, <2>7, <4>1 DEF SoundFrames
      <3>3. e.seq <= store.high /\ e.rev <= store.rev[e.res]
        BY <3>2 DEF LogOf
      <3>4. \A r \in Res : r # Queue => rev[r] <= store.rev[r]
        BY <2>4, <2>5, <3>1, <3>3
      <3>5. ASSUME NEW r \in Res, rev[r] < store.rev[r]
            PROVE  \E f \in log : f.res = r /\ f.rev = store.rev[r] /\ f.seq > e.seq
        <4>1. reducer.rev[r] < store.rev[r]
          BY <2>1, <2>4, <2>5, <3>5 DEF Revisions
        <4>2. PICK f \in log : f.res = r /\ f.rev = store.rev[r] /\ f.seq > reducer.seq
          BY <3>1, <4>1
        <4>3. f.seq \in Nat
          BY <4>2 DEF LogOf, Events
        <4>4. f.seq # e.seq
          <5>1. SUFFICES ASSUME f = e PROVE FALSE
            BY <3>2, <4>2 DEF LogOf
          <5> QED
            BY <2>1, <2>4, <2>5, <3>5, <4>2, <5>1 DEF Revisions
        <4> QED
          BY <2>1, <2>2, <4>2, <4>3, <4>4
      <3> QED
        BY <3>3, <3>4, <3>5
    <2> QED
      BY <2>1, <2>3, <2>5, <2>6, <2>7 DEF Knows, Reducers
  <1> QED
    BY <1>1, <1>2

LEMMA FrameStep == ASSUME NEW log, StreamInvOf(log), OnFrame PROVE StreamInv'
  <1> DEFINE c == client.source
             frame == Head(conn[c].wire)
  <1>1. /\ client.pc = "connected" /\ conn[c].wire # <<>>
        /\ UNCHANGED <<store, backup>>
    BY DEF OnFrame
  <1>2. c \in Conn /\ conn[c] # Free /\ conn[c].live
    BY <1>1 DEF StreamInvOf, SourceIsLive
  <1>3. conn[c].at # "free"
    BY <1>2 DEF StreamInvOf, ConnOK
  <1>4. /\ conn[c] = [at |-> conn[c].at, after |-> conn[c].after, wire |-> conn[c].wire,
                      live |-> conn[c].live, opened |-> conn[c].opened]
        /\ conn[c].wire \in Seq(SoundFrames(store, log))
    BY <1>2, <1>3, ConnShape
  <1>5. frame \in SoundFrames(store, log) /\ Tail(conn[c].wire) \in Seq(SoundFrames(store, log))
    BY <1>1, <1>4
  <1>6. CASE "resync" \in DOMAIN frame \/ (~Duplicate(frame) /\ MustResync(frame))
    <2>1. Resync /\ UNCHANGED reducer
      BY <1>6 DEF OnFrame
    <2> QED
      BY <1>1, <2>1, ClosedStep DEF Resync
  <1>7. CASE ~("resync" \in DOMAIN frame \/ (~Duplicate(frame) /\ MustResync(frame)))
    <2>1. /\ reducer' = Reduced(frame) /\ UNCHANGED client
          /\ conn' = [conn EXCEPT ![c].wire = Tail(@)]
      BY <1>7 DEF OnFrame
    <2>2. frame # Resynced
      BY <1>7 DEF Resynced
    <2>3. frame \in Events
      BY <1>5, <2>2 DEF SoundFrames
    <2>4. /\ Reduced(frame) \in Reducers
          /\ Knows(store, Reduced(frame).epoch, Reduced(frame).seq, Reduced(frame).rev, log)
      BY <1>5, <1>7, <2>3, FrameKnows DEF StreamInvOf
    <2> DEFINE cn == [conn[c] EXCEPT !.wire = Tail(conn[c].wire)]
    <2>5. conn' = [conn EXCEPT ![c] = cn]
      BY <2>1 DEF StreamInvOf
    <2>6. cn = [at |-> conn[c].at, after |-> conn[c].after, wire |-> Tail(conn[c].wire),
                live |-> conn[c].live, opened |-> conn[c].opened]
      BY <1>4, ConnWith, Zenon
    <2> HIDE DEF cn, frame
    <2>7. ConnOK(store, cn, log) /\ cn # Free /\ cn.live
      BY <1>2, <1>3, <1>5, <2>6 DEF ConnOK, Free
    <2> QED
      BY <1>1, <1>2, <2>1, <2>4, <2>5, <2>7, ReducerStep
  <1> QED
    BY <1>6, <1>7

\* Where the coordinator goes without a listing.
LEMMA NoListing == ASSUME NEW log PROVE ListingKnows(store, NoFetch, log)
  BY DEF ListingKnows

\* The shape of the coordinator's state.
LEMMA ClientShape ==
    ASSUME NEW log, StreamInvOf(log)
    PROVE  /\ client = [pc |-> client.pc, source |-> client.source, fetch |-> client.fetch]
           /\ ListingKnows(store, client.fetch, log)
           /\ client.pc \in {"opening", "connected"} => client.source # NoConn
  BY DEF StreamInvOf, SourceIsLive

LEMMA FetchFirstStep == ASSUME NEW log, StreamInvOf(log), FetchFirst PROVE StreamInv'
  <1>1. /\ client.pc = "syncing" /\ UNCHANGED <<store, backup, conn, reducer>>
    BY DEF FetchFirst
  <1>2. PICK left : client' = [client EXCEPT !.fetch = [left |-> left, data |-> ReadSync]]
    BY DEF FetchFirst
  <1> DEFINE fetch == [left |-> left, data |-> ReadSync]
  <1>3. client' = [pc |-> "syncing", source |-> client.source, fetch |-> fetch]
    BY <1>1, <1>2, ClientShape
  <1>4. ListingKnows(store, fetch, log)
    <2>1. /\ store.epoch \in Nat /\ store.high \in Nat /\ store.rev \in Revisions
      BY DEF StreamInvOf, Stores
    <2>2. ReadSync = [cursor |-> [epoch |-> store.epoch, seq |-> store.high], rev |-> store.rev]
      BY DEF ReadSync, Cursor
    <2>3. ReadSync \in Data
      BY <2>1, <2>2 DEF Data
    <2>4. Knows(store, store.epoch, store.high, store.rev, log)
      BY <2>1 DEF Knows, Revisions
    <2> QED
      BY <2>2, <2>3, <2>4 DEF ListingKnows
  <1> HIDE DEF fetch
  <1> QED
    BY <1>1, <1>3, <1>4, ClientStep

LEMMA FetchNextStep == ASSUME NEW log, StreamInvOf(log), FetchNext PROVE StreamInv'
  <1>1. /\ client.pc = "syncing" /\ client.fetch.left > 0
        /\ UNCHANGED <<store, backup, conn, reducer>>
        /\ \/ client' = Offline
           \/ client' = [client EXCEPT !.fetch.left = @ - 1]
    BY DEF FetchNext
  <1>2. CASE client' = Offline
    BY <1>1, <1>2, NoListing, ClientStep DEF Offline
  <1>3. CASE client' = [client EXCEPT !.fetch.left = @ - 1]
    <2> DEFINE fetch == [client.fetch EXCEPT !.left = @ - 1]
    <2>1. client' = [pc |-> "syncing", source |-> client.source, fetch |-> fetch]
      BY <1>1, <1>3, ClientShape
    <2>2. client.fetch # NoFetch
      BY <1>1 DEF NoFetch
    <2>3. /\ client.fetch = [left |-> client.fetch.left, data |-> client.fetch.data]
          /\ client.fetch.data \in Data
          /\ Knows(store, client.fetch.data.cursor.epoch, client.fetch.data.cursor.seq,
                   client.fetch.data.rev, log)
      BY <2>2, ClientShape DEF ListingKnows
    <2>4. fetch = [left |-> client.fetch.left - 1, data |-> client.fetch.data]
      BY <2>3
    <2> HIDE DEF fetch
    <2>5. ListingKnows(store, fetch, log)
      BY <2>3, <2>4 DEF ListingKnows
    <2> QED
      BY <1>1, <2>1, <2>5, ClientStep
  <1> QED
    BY <1>1, <1>2, <1>3

LEMMA FetchDoneStep ==
    ASSUME NEW log, StreamInvOf(log), NEW c \in Conn, FetchDone(c)
    PROVE  StreamInv'
  <1>1. /\ client.fetch.left = 0 /\ UNCHANGED <<store, backup>>
        /\ reducer' = ApplySync(client.fetch.data)
        /\ Open(c, Cursor(reducer'.epoch, reducer'.seq))
    BY DEF FetchDone
  <1>2. client.fetch # NoFetch
    BY <1>1 DEF NoFetch
  <1>3. /\ client.fetch.data \in Data
        /\ Knows(store, client.fetch.data.cursor.epoch, client.fetch.data.cursor.seq,
                 client.fetch.data.rev, log)
    BY <1>2, ClientShape DEF ListingKnows
  <1>4. reducer' \in Reducers /\ Knows(store, reducer'.epoch, reducer'.seq, reducer'.rev, log)
    BY <1>1, <1>3, SyncKnows DEF StreamInvOf
  <1> QED
    BY <1>1, <1>4, OpenStep

LEMMA ReconnectStep ==
    ASSUME NEW log, StreamInvOf(log), NEW c \in Conn, Reconnect(c)
    PROVE  StreamInv'
  <1>1. UNCHANGED <<store, backup, reducer>> /\ Open(c, Cursor(reducer.epoch, reducer.seq))
    BY DEF Reconnect
  <1>2. reducer' \in Reducers /\ Knows(store, reducer'.epoch, reducer'.seq, reducer'.rev, log)
    BY <1>1 DEF StreamInvOf
  <1> QED
    BY <1>1, <1>2, OpenStep

LEMMA BrowserStep == ASSUME NEW log, StreamInvOf(log), Browser PROVE StreamInv'
  <1>1. CASE Start \/ RetrySync
    BY <1>1, ClosedStep DEF Start, RetrySync, Resync
  <1>2. CASE FetchFirst
    BY <1>2, FetchFirstStep
  <1>3. CASE FetchNext
    BY <1>3, FetchNextStep
  <1>4. CASE OnOpen
    <2>1. client' = [pc |-> "connected", source |-> client.source, fetch |-> client.fetch]
      BY <1>4, ClientShape DEF OnOpen
    <2> QED
      BY <1>4, <2>1, ClientShape, ClientStep DEF OnOpen
  <1>5. CASE OnFrame
    BY <1>5, FrameStep
  <1>6. CASE StreamEnds
    BY <1>6, ClosedStep DEF StreamEnds, OnError
  <1>7. CASE \E c \in Conn : FetchDone(c) \/ Reconnect(c)
    BY <1>7, FetchDoneStep, ReconnectStep
  <1> QED
    BY <1>1, <1>2, <1>3, <1>4, <1>5, <1>6, <1>7 DEF Browser

LEMMA ServerStep ==
    ASSUME NEW log, StreamInvOf(log), NEW c \in Conn, Server(c) \/ EndStream(c)
    PROVE  StreamInv'
  BY ServeFirstStep, TakePlaceStep, StartResponseStep, NeverStartsStep, PollStep, EndStreamStep
     DEF Server

-------------------------------------------------------------------------------
(* All steps *)

LEMMA WriteStep == ASSUME NEW log, StreamInvOf(log), Write PROVE StreamInv'
  <1>1. PICK rs \in Seq(Res) : Commit(rs)
    <2>1. CASE \E r \in Res : Commit(<<r>>)
      <3>1. PICK r \in Res : Commit(<<r>>)
        BY <2>1
      <3>2. <<r>> \in Seq(Res)
        OBVIOUS
      <3> QED
        BY <3>1, <3>2
    <2>2. CASE \E r \in Res \ {Queue} : Commit(<<r, Queue>>)
      <3>1. PICK r \in Res : Commit(<<r, Queue>>)
        BY <2>2
      <3>2. <<r, Queue>> \in Seq(Res)
        BY StreamAssumption
      <3> QED
        BY <3>1, <3>2
    <2> QED
      BY <2>1, <2>2 DEF Write
  <1>2. PICK new : new = log \cup Rows(store, rs)
    OBVIOUS
  <1>3. /\ store' \in Stores /\ LogOf(store', new) /\ Kept(store, log, store', new)
    BY <1>1, <1>2, WriteKeeps DEF Commit, StreamInvOf
  <1> QED
    BY <1>1, <1>3, StoreStep DEF Commit

LEMMA CompactStep ==
    ASSUME NEW log, StreamInvOf(log), NEW limit \in 1..MaxSeq, Compact(limit)
    PROVE  StreamInv'
  <1>1. /\ limit \in (store.floor + 1) .. Min({store.high - KeepLatest, store.floor + MaxDelete})
        /\ store' = Compacted(limit) /\ UNCHANGED <<backup, conn, client, reducer>>
    BY DEF Compact
  <1>2. store.floor \in Nat
    BY DEF StreamInvOf, Stores
  <1>3. limit \in Nat /\ limit > store.floor
    BY <1>1, <1>2, StreamAssumption
  <1>4. /\ store' \in Stores /\ LogOf(store', log) /\ Kept(store, log, store', log)
    BY <1>1, <1>3, CompactKeeps DEF StreamInvOf
  <1> QED
    BY <1>1, <1>4, StoreStep

LEMMA RotateStep ==
    ASSUME NEW log, StreamInvOf(log), RotateEpoch \/ Restore
    PROVE  StreamInv'
  <1>1. store.epoch \in Nat /\ store \in Stores /\ LogOf(store, log)
    BY DEF StreamInvOf, Stores
  <1>2. CASE RotateEpoch
    <2>1. store' = Rotated(store, store.epoch + 1) /\ UNCHANGED <<backup, conn, client, reducer>>
      BY <1>2 DEF RotateEpoch
    <2>2. /\ store' \in Stores /\ LogOf(store', log) /\ Kept(store, log, store', log)
      BY <1>1, <2>1, RotationKeeps
    <2> QED
      BY <2>1, <2>2, StoreStep
  <1>3. CASE Restore
    <2>1. /\ backup # NoBackup /\ store' = Rotated(backup, store.epoch + 1)
          /\ conn' = Down(conn) /\ UNCHANGED <<backup, client, reducer>>
      BY <1>3 DEF Restore
    <2>2. backup \in Stores /\ backup.epoch <= store.epoch /\ LogOf(backup, backup.outbox)
      BY <2>1 DEF StreamInvOf, BackupOK
    <2>3. backup.epoch \in Nat
      BY <2>2 DEF Stores
    <2>4. PICK new : new = backup.outbox
      OBVIOUS
    <2>5. /\ store' \in Stores /\ LogOf(store', new) /\ Kept(store, log, store', new)
      BY <1>1, <2>1, <2>2, <2>3, <2>4, RotationKeeps
    <2> QED
      BY <2>1, <2>5, StoreStep
  <1> QED
    BY <1>2, <1>3

LEMMA RestartStep == ASSUME NEW log, StreamInvOf(log), Restart PROVE StreamInv'
  <1>1. conn' = Down(conn) /\ UNCHANGED <<store, backup, client, reducer>>
    BY DEF Restart
  <1>2. store' \in Stores /\ LogOf(store', log) /\ Kept(store, log, store', log)
    <2>1. store.epoch \in Nat
      BY DEF StreamInvOf, Stores
    <2> QED
      BY <1>1, <2>1 DEF Kept, StreamInvOf
  <1> QED
    BY <1>1, <1>2, StoreStep

LEMMA BackupStep == ASSUME NEW log, StreamInvOf(log), Backup PROVE StreamInv'
  <1>1. backup' = store /\ UNCHANGED <<store, conn, client, reducer>>
    BY DEF Backup
  <1>2. store \in Stores /\ LogOf(store, log) /\ store.epoch \in Nat
    BY DEF StreamInvOf, Stores
  <1>3. LogOf(store, store.outbox)
    BY <1>2 DEF LogOf
  <1>4. BackupOK(store)'
    BY <1>1, <1>2, <1>3 DEF BackupOK
  <1>5. SourceIsLive'
    BY <1>1 DEF StreamInvOf, SourceIsLive
  <1>6. StreamInvOf(log)'
    BY <1>1, <1>4, <1>5 DEF StreamInvOf
  <1> QED
    BY <1>2, <1>6 DEF StreamInv, LogOf

LEMMA UnchangedStep ==
    ASSUME NEW log, StreamInvOf(log), UNCHANGED <<store, backup, conn, client, reducer>>
    PROVE  StreamInv'
  <1>1. client' = [pc |-> client.pc, source |-> client.source, fetch |-> client.fetch]
    BY ClientShape
  <1> QED
    BY <1>1, ClientShape, ClientStep

LEMMA StreamInvStep == StreamInv /\ [Next]_vars => StreamInv'
  <1> SUFFICES ASSUME NEW log \in SUBSET Events, StreamInvOf(log), [Next]_vars
               PROVE  StreamInv'
    BY DEF StreamInv
  <1>1. CASE Write
    BY <1>1, WriteStep
  <1>2. CASE \E l \in 1 .. MaxSeq : Compact(l)
    BY <1>2, CompactStep
  <1>3. CASE RotateEpoch \/ Restore
    BY <1>3, RotateStep
  <1>4. CASE Backup
    BY <1>4, BackupStep
  <1>5. CASE \E c \in Conn : Server(c) \/ EndStream(c)
    BY <1>5, ServerStep
  <1>6. CASE Browser
    BY <1>6, BrowserStep
  <1>7. CASE Stop
    BY <1>7, ClosedStep DEF Stop
  <1>8. CASE FetchFails
    BY <1>8, NoListing, ClientStep DEF FetchFails, Offline
  <1>9. CASE Break
    <2>1. PICK pc \in {"offline", "reconnecting"} :
             client' = [pc |-> pc, source |-> NoConn, fetch |-> NoFetch]
      BY <1>9 DEF Break, OnError
    <2> QED
      BY <1>9, <2>1, ClosedStep DEF Break, OnError
  <1>10. CASE OthersList
    BY <1>10, UnchangedStep DEF OthersList
  <1>11. CASE Restart
    BY <1>11, RestartStep
  <1>12. CASE UNCHANGED vars
    BY <1>12, UnchangedStep DEF vars
  <1> QED
    BY <1>1, <1>2, <1>3, <1>4, <1>5, <1>6, <1>7, <1>8, <1>9, <1>10, <1>11, <1>12 DEF Next

LEMMA StreamInit == Init => StreamInv
  <1> SUFFICES ASSUME Init PROVE StreamInvOf({})
    BY DEF StreamInv
  <1>1. /\ store = [epoch |-> 1, floor |-> 0, high |-> 0, rev |-> [r \in Res |-> 0], outbox |-> {}]
        /\ backup = NoBackup /\ conn = [c \in Conn |-> Free]
        /\ client = [pc |-> "idle", source |-> NoConn, fetch |-> NoFetch]
        /\ reducer = [epoch |-> 0, seq |-> 0, rev |-> [r \in Res |-> 0]]
    BY DEF Init
  <1>2. [r \in Res |-> 0] \in Revisions
    BY DEF Revisions
  <1>3. store \in Stores /\ reducer \in Reducers
    BY <1>1, <1>2 DEF Stores, Reducers
  <1>4. LogOf(store, {})
    BY <1>1, FS_EmptySet DEF LogOf
  <1>5. Knows(store, reducer.epoch, reducer.seq, reducer.rev, {})
    BY <1>1 DEF Knows
  <1>6. ListingKnows(store, client.fetch, {}) /\ SourceIsLive /\ BackupOK(store)
    BY <1>1 DEF ListingKnows, SourceIsLive, BackupOK
  <1>7. conn = [c \in Conn |-> conn[c]] /\ \A c \in Conn : ConnOK(store, conn[c], {})
    BY <1>1 DEF ConnOK
  <1> QED
    BY <1>3, <1>4, <1>5, <1>6, <1>7 DEF StreamInvOf

LEMMA StreamSafe == StreamInv => NothingIsLost
  <1> SUFFICES ASSUME NEW log \in SUBSET Events, StreamInvOf(log),
                      CursorStatus(Cursor(reducer.epoch, reducer.seq)) = 200,
                      NEW r \in Res
               PROVE  /\ r # Queue => reducer.rev[r] <= store.rev[r]
                      /\ reducer.rev[r] < store.rev[r] =>
                           \E e \in store.outbox :
                              e.res = r /\ e.rev = store.rev[r] /\ e.seq > reducer.seq
    BY DEF StreamInv, NothingIsLost
  <1>1. /\ store.epoch \in Nat /\ store.floor \in Nat /\ reducer.seq \in Nat
    BY DEF StreamInvOf, Stores, Reducers
  <1>2. reducer.epoch = store.epoch /\ ~(reducer.seq < store.floor)
    BY DEF CursorStatus, Cursor
  <1>3. /\ r # Queue => reducer.rev[r] <= store.rev[r]
        /\ reducer.rev[r] < store.rev[r] =>
              \E e \in log : e.res = r /\ e.rev = store.rev[r] /\ e.seq > reducer.seq
    BY <1>2 DEF StreamInvOf, Knows
  <1>4. \A e \in log : e.seq > reducer.seq => e \in store.outbox
    BY <1>1, <1>2 DEF StreamInvOf, LogOf, Events
  <1> QED
    BY <1>3, <1>4

\* Whatever is compacted, restored or broken off, and for any operations, connections and
\* limits: as long as the server accepts the browser's cursor, all that the browser does
\* not know lies ahead of it in the outbox (events_repository.py, events_api.py,
\* transport/sync.ts, transport/reducer.ts).
THEOREM StreamNothingIsLost == Spec => []NothingIsLost
  <1> QED
    BY StreamInit, StreamInvStep, StreamSafe, PTL DEF Spec

-------------------------------------------------------------------------------
(* What streams carry: the inductive invariant *)

\* Above its floor the outbox has every event of the present epoch.
Full(s) ==
    /\ \A n \in (s.floor + 1) .. s.high : \E e \in s.outbox : e.seq = n
    /\ \A e \in s.outbox : e.seq > s.floor => e.epoch = s.epoch

\* The frames on the wire follow the browser's cursor one by one; the server goes on
\* where they end.
Chain(cn, epoch, seq) ==
    /\ \A i \in 1 .. Len(cn.wire) :
          \/ cn.wire[i] = Resynced /\ cn.at = "ended"
          \/ cn.wire[i] \in Events /\ cn.wire[i].epoch = epoch /\ cn.wire[i].seq = seq + i
    /\ cn.at # "ended" => cn.after = Cursor(epoch, seq + Len(cn.wire))
    /\ cn.at = "request" => cn.wire = <<>>

SourceChain ==
    client.source # NoConn =>
        /\ client.pc \in {"opening", "connected"}
        /\ Chain(conn[client.source], reducer.epoch, reducer.seq)

Running == {c \in Conn : conn[c].at \in {"counted", "stream"}}

\* Every running stream has a place.
PlaceInv ==
    /\ IsFiniteSet(Running) /\ subs \in Nat
    /\ Cardinality(Running) <= subs /\ subs <= MaxSubscribers

SoundInv == Full(store) /\ SourceChain /\ PlaceInv

-------------------------------------------------------------------------------
(* Pages *)

\* The rows ahead of a cursor that the server accepts: one for every number.
LEMMA RowsAreAhead ==
    ASSUME NEW log, store \in Stores, LogOf(store, log), Full(store),
           NEW seq \in Nat, CursorStatus(Cursor(store.epoch, seq)) = 200
    PROVE  LET rows == RowsAfter(Cursor(store.epoch, seq))
           IN  /\ \A e \in rows : /\ e \in Events /\ e.epoch = store.epoch
                                  /\ seq < e.seq /\ e.seq <= store.high
               /\ \A n \in (seq + 1) .. store.high : \E e \in rows : e.seq = n
               /\ \A e, f \in rows : e.seq = f.seq => e = f
               /\ IsFiniteSet(rows) /\ Cardinality(rows) = store.high - seq
               /\ seq <= store.high
  <1> DEFINE rows == RowsAfter(Cursor(store.epoch, seq))
             all  == (seq + 1) .. store.high
  <1>1. store.floor \in Nat /\ store.high \in Nat /\ store.outbox \subseteq Events
    BY DEF Stores
  <1>2. store.floor <= seq /\ seq <= store.high
    BY <1>1 DEF CursorStatus, Cursor
  <1>3. rows = {e \in store.outbox : e.seq > seq}
    BY DEF RowsAfter, Cursor
  <1> HIDE DEF rows
  <1>4. \A e \in rows : e \in Events /\ e.epoch = store.epoch /\ e.seq \in all
    BY <1>1, <1>2, <1>3 DEF Full, LogOf, Events
  <1>5. \A n \in all : \E e \in rows : e.seq = n
    BY <1>1, <1>2, <1>3 DEF Full
  <1>6. \A e, f \in rows : e.seq = f.seq => e = f
    BY <1>3 DEF LogOf
  <1>7. IsFiniteSet(rows)
    BY <1>3, FS_Subset DEF LogOf
  <1>8. Cardinality(rows) = store.high - seq
    <2> DEFINE f == [e \in rows |-> e.seq]
    <2>1. f \in Bijection(rows, all)
      BY <1>4, <1>5, <1>6 DEF Bijection, Injection, Surjection, IsInjective
    <2>2. ExistsBijection(rows, all)
      BY <2>1 DEF ExistsBijection
    <2>3. Cardinality(all) = Cardinality(rows)
      BY <1>7, <2>2, FS_Bijection
    <2>4. Cardinality(all) = store.high - seq
      <3>1. seq + 1 \in Int /\ store.high \in Int
        BY <1>1
      <3>2. Cardinality(all) = IF seq + 1 > store.high THEN 0 ELSE store.high - (seq + 1) + 1
        BY <3>1, FS_Interval
      <3> QED
        BY <1>1, <1>2, <3>2
    <2> QED
      BY <2>3, <2>4
  <1> QED
    BY <1>1, <1>2, <1>4, <1>5, <1>6, <1>7, <1>8 DEF rows

\* A page of the stream continues the cursor it was read for, without a gap, and ends
\* where the next page begins.
LEMMA PageContinues ==
    ASSUME NEW log, store \in Stores, LogOf(store, log), Full(store), StreamAssumption,
           NEW epoch \in Nat, NEW seq \in Nat, CursorStatus(Cursor(epoch, seq)) = 200,
           NEW page \in ReadEvents(Cursor(epoch, seq))
    PROVE  /\ epoch = store.epoch
           /\ page.frames \in Seq(Events)
           /\ \A i \in 1 .. Len(page.frames) :
                 page.frames[i].epoch = epoch /\ page.frames[i].seq = seq + i
           /\ page.next = Cursor(epoch, seq + Len(page.frames))
  <1> DEFINE rows == RowsAfter(Cursor(epoch, seq))
             n    == Min({PageSize, Cardinality(rows)})
  <1>1. epoch = store.epoch
    BY DEF CursorStatus, Cursor
  <1>2. /\ \A e \in rows : e \in Events /\ e.epoch = epoch /\ seq < e.seq /\ e.seq <= store.high
        /\ \A k \in (seq + 1) .. store.high : \E e \in rows : e.seq = k
        /\ IsFiniteSet(rows) /\ Cardinality(rows) = store.high - seq
        /\ seq <= store.high
    BY <1>1, RowsAreAhead
  <1>3. store.high \in Nat /\ PageSize \in Nat \ {0} /\ Cardinality(rows) \in Nat
    BY <1>2, FS_CardinalityType DEF Stores, StreamAssumption
  <1>4. n \in {PageSize, Cardinality(rows)} /\ n \in Nat /\ n <= PageSize /\ n <= Cardinality(rows)
    <2>1. \E x \in {PageSize, Cardinality(rows)} : \A y \in {PageSize, Cardinality(rows)} : x =< y
      BY <1>3
    <2>2. n \in {PageSize, Cardinality(rows)} /\ \A y \in {PageSize, Cardinality(rows)} : n =< y
      BY <2>1 DEF Min
    <2> QED
      BY <1>3, <2>2
  <1> DEFINE pages == {p \in [1..n -> rows] :
                         /\ \A i, k \in 1..n : i < k => p[i].seq < p[k].seq
                         /\ \A e \in rows : e \in Range(p) \/ e.seq > p[n].seq}
             next(p) == Cursor(store.epoch, IF Cardinality(rows) > PageSize
                                            THEN p[n].seq ELSE store.high)
  <1>11. ReadEvents(Cursor(epoch, seq)) = {[frames |-> p, next |-> next(p)] : p \in pages}
    BY Zenon DEF ReadEvents
  <1>12. PICK p \in pages : page = [frames |-> p, next |-> next(p)]
    <2> HIDE DEF pages, next
    <2> QED
      BY <1>11
  <1>5. /\ p \in [1..n -> rows]
        /\ \A i, k \in 1..n : i < k => p[i].seq < p[k].seq
        /\ \A e \in rows : e \in Range(p) \/ e.seq > p[n].seq
        /\ page = [frames |-> p, next |-> Cursor(store.epoch, IF Cardinality(rows) > PageSize
                                                             THEN p[n].seq ELSE store.high)]
    BY <1>12, Zenon
  <1> HIDE DEF pages, next
  <1> HIDE DEF n, rows
  <1>6. \A i \in 1..n : p[i] \in rows /\ p[i] \in Events /\ p[i].epoch = epoch
                        /\ p[i].seq \in Nat /\ seq < p[i].seq /\ p[i].seq <= store.high
    <2>1. \A i \in 1..n : p[i] \in rows
      BY <1>5
    <2>2. \A e \in rows : e \in Events /\ e.epoch = epoch /\ e.seq \in Nat
                          /\ seq < e.seq /\ e.seq <= store.high
      BY <1>2 DEF Events
    <2> QED
      BY <2>1, <2>2
  <1>7. ASSUME NEW i \in 1..n PROVE p[i].seq = seq + i
    <2> DEFINE q   == [k \in 1..n |-> p[k].seq]
               g   == [k \in 1..i |-> q[k]]
               all == (seq + 1) .. q[i]
    <2>9. /\ \A k \in 1..n : q[k] \in Nat /\ seq < q[k] /\ q[k] <= store.high
          /\ \A k, l \in 1..n : k < l => q[k] < q[l]
          /\ \A k \in 1..n : p[k].seq = q[k]
          /\ \A e \in rows : (\E k \in 1..n : p[k] = e) \/ e.seq > q[n]
      <3>1. \A k \in 1..n : p[k].seq = q[k]
        OBVIOUS
      <3>2. n \in 1..n
        BY <1>4
      <3>3. \A e \in rows : (\E k \in 1..n : p[k] = e) \/ e.seq > p[n].seq
        BY <1>5 DEF Range
      <3> HIDE DEF q
      <3>4. \A k \in 1..n : q[k] \in Nat /\ seq < q[k] /\ q[k] <= store.high
        BY <1>6, <3>1
      <3>5. \A k, l \in 1..n : k < l => q[k] < q[l]
        BY <1>5, <3>1
      <3>6. \A e \in rows : (\E k \in 1..n : p[k] = e) \/ e.seq > q[n]
        BY <3>1, <3>2, <3>3
      <3> QED
        BY <3>1, <3>4, <3>5, <3>6
    <2> HIDE DEF q
    <2>1. i \in Nat /\ 1..i \subseteq 1..n /\ i <= n /\ n \in 1..n
      BY <1>4
    <2>2. \A k \in 1..i : q[k] \in all
      <3> SUFFICES ASSUME NEW k \in 1..i PROVE q[k] \in all
        OBVIOUS
      <3>1. k \in 1..n /\ (k = i \/ k < i)
        BY <2>1
      <3>2. q[k] <= q[i]
        BY <2>1, <2>9, <3>1
      <3> QED
        BY <2>9, <3>1, <3>2
    <2>3. \A k, l \in 1..i : q[k] = q[l] => k = l
      <3> SUFFICES ASSUME NEW k \in 1..n, NEW l \in 1..n, k # l PROVE q[k] # q[l]
        BY <2>1
      <3>1. k < l \/ l < k
        OBVIOUS
      <3> QED
        BY <2>9, <3>1
    <2>4. ASSUME NEW m \in all PROVE \E k \in 1..i : q[k] = m
      <3>1. m \in (seq + 1) .. store.high /\ m <= q[i] /\ m \in Nat
        BY <1>3, <2>9
      <3>2. PICK e \in rows : e.seq = m
        BY <1>2, <3>1
      <3>3. q[i] <= q[n]
        <4>1. i = n \/ i < n
          BY <2>1
        <4> QED
          BY <2>1, <2>9, <4>1
      <3>4. ~(m > q[n])
        BY <2>1, <2>9, <3>1, <3>3
      <3>5. PICK k \in 1..n : p[k] = e
        BY <2>9, <3>2, <3>4
      <3>6. q[k] = m
        BY <2>9, <3>2, <3>5
      <3>7. ~(i < k)
        BY <2>9, <3>1, <3>6
      <3>8. k \in 1..i
        BY <2>1, <3>7
      <3> QED
        BY <3>6, <3>8
    <2>5. g \in Bijection(1..i, all)
      <3>1. \A k \in 1..i : g[k] = q[k]
        OBVIOUS
      <3>2. g \in [1..i -> all]
        BY <2>2
      <3> HIDE DEF g, all
      <3>3. \A k, l \in 1..i : g[k] = g[l] => k = l
        BY <2>3, <3>1
      <3>4. \A m \in all : \E k \in 1..i : g[k] = m
        BY <2>4, <3>1
      <3> QED
        BY <3>2, <3>3, <3>4 DEF Bijection, Injection, Surjection, IsInjective
    <2>6. IsFiniteSet(1..i) /\ Cardinality(1..i) = i
      BY <2>1, FS_Interval
    <2>7. Cardinality(all) = i
      BY <2>5, <2>6, FS_Bijection DEF ExistsBijection
    <2>8. Cardinality(all) = q[i] - seq
      <3>1. seq + 1 \in Int /\ q[i] \in Int /\ seq < q[i]
        BY <2>9
      <3>2. PICK last \in Int : last = q[i]
        BY <3>1
      <3>3. Cardinality((seq + 1) .. last) = IF seq + 1 > last THEN 0 ELSE last - (seq + 1) + 1
        BY <3>1, FS_Interval
      <3>4. Cardinality(all) = Cardinality((seq + 1) .. last)
        BY <3>2
      <3> HIDE DEF all
      <3>5. seq + 1 <= last /\ last - (seq + 1) + 1 = last - seq
        BY <3>1, <3>2
      <3>6. Cardinality((seq + 1) .. last) = last - seq
        BY <3>1, <3>2, <3>3, <3>5
      <3> QED
        BY <3>2, <3>4, <3>6
    <2>10. PICK m \in Nat : m = q[i] /\ p[i].seq = m
      BY <2>9
    <2>11. m - seq = i
      BY <2>7, <2>8, <2>10
    <2>12. m = seq + i
      BY <2>1, <2>11
    <2> QED
      BY <2>10, <2>12
  <1>8. p \in Seq(Events) /\ Len(p) = n
    <2>1. p \in [1..n -> Events]
      BY <1>5, <1>6
    <2> QED
      BY <1>4, <2>1
  <1>9. page.next = Cursor(epoch, seq + n)
    <2>1. CASE Cardinality(rows) > PageSize
      <3>1. n = PageSize /\ n \in 1..n
        BY <1>3, <1>4, <2>1
      <3> QED
        BY <1>1, <1>5, <1>7, <2>1, <3>1
    <2>2. CASE ~(Cardinality(rows) > PageSize)
      <3>1. n = Cardinality(rows)
        BY <1>3, <1>4, <2>2
      <3>2. store.high = seq + n
        BY <1>2, <1>3, <3>1
      <3> QED
        BY <1>1, <1>5, <2>2, <3>2
    <2> QED
      BY <2>1, <2>2
  <1>10. page.frames = p
    BY <1>5
  <1> QED
    BY <1>1, <1>6, <1>7, <1>8, <1>9, <1>10

-------------------------------------------------------------------------------
(* What steps keep of the outbox, the chain and the places *)

LEMMA EmittedFull ==
    ASSUME NEW s \in Stores, NEW rs \in Seq(Res), Full(s)
    PROVE  Full(Emitted(s, rs))
  <1> DEFINE rev  == [r \in Res |-> IF r \in ToSet(rs) THEN s.rev[r] + 1 ELSE s.rev[r]]
             row(i) == [seq |-> s.high + i, epoch |-> s.epoch, res |-> rs[i], rev |-> rev[rs[i]]]
             new  == {row(i) : i \in DOMAIN rs}
             t    == Emitted(s, rs)
  <1>1. t = [s EXCEPT !.high = @ + Len(rs), !.rev = rev, !.outbox = @ \cup new]
    BY Zenon DEF Emitted
  <1>2. /\ s.high \in Nat /\ s.epoch \in Nat /\ s.floor \in Nat
        /\ s = [epoch |-> s.epoch, floor |-> s.floor, high |-> s.high, rev |-> s.rev,
                outbox |-> s.outbox]
    BY DEF Stores
  <1>3. /\ t.epoch = s.epoch /\ t.floor = s.floor /\ t.high = s.high + Len(rs)
        /\ t.outbox = s.outbox \cup new
    BY <1>1, <1>2
  <1>4. Len(rs) \in Nat /\ DOMAIN rs = 1..Len(rs)
    OBVIOUS
  <1>5. \A i \in 1..Len(rs) : \E e \in new : e.seq = s.high + i
    <2> SUFFICES ASSUME NEW i \in 1..Len(rs) PROVE \E e \in new : e.seq = s.high + i
      OBVIOUS
    <2>1. row(i) \in new /\ row(i).seq = s.high + i
      BY <1>4
    <2> QED
      BY <2>1
  <1>6. \A e \in new : e.epoch = s.epoch
    <2> SUFFICES ASSUME NEW e \in new PROVE e.epoch = s.epoch
      OBVIOUS
    <2>1. PICK i \in DOMAIN rs : e = row(i)
      BY Zenon
    <2> QED
      BY <2>1
  <1> HIDE DEF t, new
  <1>7. ASSUME NEW n \in (t.floor + 1) .. t.high PROVE \E e \in t.outbox : e.seq = n
    <2>1. CASE n <= s.high
      BY <1>2, <1>3, <1>7, <2>1 DEF Full
    <2>2. CASE ~(n <= s.high)
      <3>1. n - s.high \in 1..Len(rs) /\ n = s.high + (n - s.high)
        BY <1>2, <1>3, <1>4, <1>7, <2>2
      <3> QED
        BY <1>3, <1>5, <3>1
    <2> QED
      BY <2>1, <2>2
  <1>8. \A e \in t.outbox : e.seq > t.floor => e.epoch = t.epoch
    BY <1>3, <1>6 DEF Full
  <1> QED
    BY <1>7, <1>8 DEF Full, t

LEMMA CompactedFull ==
    ASSUME store \in Stores, Full(store), NEW limit \in Nat, limit > store.floor
    PROVE  Full(Compacted(limit))
  <1> DEFINE t == Compacted(limit)
             left == {e \in store.outbox : e.seq > limit \/ e.res \in Active}
  <1>1. /\ store.high \in Nat /\ store.floor \in Nat /\ store.outbox \subseteq Events
        /\ store = [epoch |-> store.epoch, floor |-> store.floor, high |-> store.high,
                    rev |-> store.rev, outbox |-> store.outbox]
    BY DEF Stores
  <1>2. t = [epoch |-> store.epoch, floor |-> limit, high |-> store.high, rev |-> store.rev,
             outbox |-> left]
    <2>1. t = [store EXCEPT !.floor = limit, !.outbox = left]
      BY Zenon DEF Compacted
    <2> HIDE DEF t, left
    <2> QED
      BY <1>1, <2>1, StoreWith
  <1> HIDE DEF t
  <1>3. \A n \in (limit + 1) .. store.high : \E e \in left : e.seq = n
    BY <1>1 DEF Full
  <1>4. \A e \in left : e.seq > limit => e.epoch = store.epoch
    BY <1>1 DEF Full, Events
  <1> QED
    BY <1>2, <1>3, <1>4 DEF Full, t

\* Nothing lies above the floor of a new epoch.
LEMMA RotatedFull ==
    ASSUME NEW u \in Stores, NEW new, LogOf(u, new), NEW n \in Nat
    PROVE  Full(Rotated(u, n))
  <1> DEFINE t == Rotated(u, n)
  <1>1. /\ u.high \in Nat /\ u.outbox \subseteq Events
        /\ u = [epoch |-> u.epoch, floor |-> u.floor, high |-> u.high, rev |-> u.rev,
                outbox |-> u.outbox]
    BY DEF Stores
  <1>2. t = [epoch |-> n, floor |-> u.high, high |-> u.high, rev |-> u.rev, outbox |-> u.outbox]
    <2>1. t = [u EXCEPT !.epoch = n, !.floor = u.high]
      BY Zenon DEF Rotated
    <2> HIDE DEF t
    <2> QED
      BY <1>1, <2>1, StoreWith
  <1> HIDE DEF t
  <1>3. \A e \in u.outbox : ~(e.seq > u.high)
    BY <1>1 DEF LogOf, Events
  <1> QED
    BY <1>1, <1>2, <1>3 DEF Full, t

LEMMA PlacesKept ==
    ASSUME PlaceInv, subs' = subs, Running' \subseteq Running
    PROVE  PlaceInv'
  <1>1. /\ IsFiniteSet(Running') /\ Cardinality(Running') <= Cardinality(Running)
        /\ Cardinality(Running') \in Nat /\ Cardinality(Running) \in Nat
    BY FS_Subset, FS_CardinalityType DEF PlaceInv
  <1> QED
    BY <1>1, StreamAssumption DEF PlaceInv

LEMMA PlaceTaken ==
    ASSUME PlaceInv, subs' = subs + 1, ~(subs >= MaxSubscribers),
           NEW c, Running' = Running \cup {c}
    PROVE  PlaceInv'
  <1>1. /\ IsFiniteSet(Running') /\ Cardinality(Running') <= Cardinality(Running) + 1
        /\ Cardinality(Running') \in Nat /\ Cardinality(Running) \in Nat
    BY FS_AddElement, FS_CardinalityType DEF PlaceInv
  <1> QED
    BY <1>1, StreamAssumption DEF PlaceInv

LEMMA PlaceLeft ==
    ASSUME PlaceInv, subs' = subs - 1, NEW c \in Running, Running' = Running \ {c}
    PROVE  PlaceInv'
  <1>1. /\ IsFiniteSet(Running') /\ Cardinality(Running') = Cardinality(Running) - 1
        /\ Cardinality(Running') \in Nat /\ Cardinality(Running) \in Nat
    BY FS_RemoveElement, FS_CardinalityType DEF PlaceInv
  <1> QED
    BY <1>1, StreamAssumption DEF PlaceInv

\* What a step of one connection does to the running streams.
LEMMA RunningWith ==
    ASSUME NEW log, StreamInvOf(log), NEW c \in Conn, NEW cn, conn' = [conn EXCEPT ![c] = cn]
    PROVE  Running' = IF cn.at \in {"counted", "stream"} THEN Running \cup {c}
                      ELSE Running \ {c}
  <1>1. \A x \in Conn : conn'[x] = IF x = c THEN cn ELSE conn[x]
    BY DEF StreamInvOf
  <1> QED
    BY <1>1 DEF Running

\* The chain depends on no other connection.
LEMMA ChainWith ==
    ASSUME NEW log, StreamInvOf(log), SourceChain, UNCHANGED <<client, reducer>>,
           NEW c \in Conn, NEW cn, conn' = [conn EXCEPT ![c] = cn],
           c = client.source => Chain(cn, reducer.epoch, reducer.seq)
    PROVE  SourceChain'
  <1>1. \A x \in Conn : conn'[x] = IF x = c THEN cn ELSE conn[x]
    BY DEF StreamInvOf
  <1>2. client' = client /\ reducer' = reducer /\ client.source \in Conn \cup {NoConn}
    BY DEF StreamInvOf, SourceIsLive
  <1>3. SUFFICES ASSUME client.source # NoConn
                 PROVE  Chain(conn'[client.source], reducer.epoch, reducer.seq)
    BY <1>2 DEF SourceChain
  <1>4. CASE client.source = c
    BY <1>1, <1>4
  <1>5. CASE client.source # c
    <2>1. conn'[client.source] = conn[client.source]
      BY <1>1, <1>2, <1>3, <1>5
    <2> QED
      BY <1>3, <2>1 DEF SourceChain
  <1> QED
    BY <1>4, <1>5

LEMMA EndedShape ==
    ASSUME NEW c, NEW cn, cn.at # "free",
           cn = [at |-> cn.at, after |-> cn.after, wire |-> cn.wire,
                 live |-> cn.live, opened |-> cn.opened]
    PROVE  /\ Ended(c, cn).at \notin {"counted", "stream"}
           /\ cn.live => Ended(c, cn).at = "ended" /\ Ended(c, cn).wire = cn.wire
  BY DEF Ended, Free

\* The connection of the browser, as the server finds it.
LEMMA SourceShape ==
    ASSUME NEW log, StreamInvOf(log), SourceChain, NEW c \in Conn, c = client.source
    PROVE  /\ conn[c].live /\ conn[c].at # "free" /\ c # NoConn
           /\ Chain(conn[c], reducer.epoch, reducer.seq)
           /\ reducer.epoch \in Nat /\ reducer.seq \in Nat
  <1>1. c # NoConn
    BY StreamAssumption
  <1>2. conn[c].live /\ conn[c] # Free
    BY <1>1 DEF StreamInvOf, SourceIsLive
  <1>3. conn[c].at # "free"
    BY <1>2 DEF StreamInvOf, ConnOK
  <1> QED
    BY <1>1, <1>2, <1>3 DEF SourceChain, StreamInvOf, Reducers

LEMMA PlainStep ==
    ASSUME SoundInv, UNCHANGED store, SourceChain', PlaceInv'
    PROVE  SoundInv'
  BY DEF SoundInv, Full

-------------------------------------------------------------------------------
(* Steps of the server, of the browser and of the store *)

LEMMA ServeFirstSound ==
    ASSUME NEW log, StreamInvOf(log), SoundInv, NEW c \in Conn, ServeFirst(c)
    PROVE  SoundInv'
  <1>1. conn[c].at = "request" /\ UNCHANGED <<store, subs, client, reducer>>
    BY DEF ServeFirst
  <1>2. conn[c] = [at |-> conn[c].at, after |-> conn[c].after, wire |-> conn[c].wire,
                   live |-> conn[c].live, opened |-> conn[c].opened]
    BY <1>1, ConnShape
  <1>3. PICK cn : /\ conn' = [conn EXCEPT ![c] = cn] /\ cn.at \notin {"counted", "stream"}
                  /\ c = client.source => Chain(cn, reducer.epoch, reducer.seq)
    <2>1. CASE CursorStatus(conn[c].after) = 200
      <3>1. PICK page \in ReadEvents(conn[c].after) :
               conn' = [conn EXCEPT ![c] =
                     IF @.live
                     THEN [@ EXCEPT !.at = "checked", !.after = page.next, !.wire = page.frames]
                     ELSE [@ EXCEPT !.at = "checked", !.after = Cursor(0, 0)]]
        BY <2>1 DEF ServeFirst
      <3> DEFINE cn == IF conn[c].live
                       THEN [conn[c] EXCEPT !.at = "checked", !.after = page.next,
                                            !.wire = page.frames]
                       ELSE [conn[c] EXCEPT !.at = "checked", !.after = Cursor(0, 0)]
      <3>2. conn' = [conn EXCEPT ![c] = cn]
        BY <3>1
      <3>3. cn = [at |-> "checked",
                  after |-> IF conn[c].live THEN page.next ELSE Cursor(0, 0),
                  wire |-> IF conn[c].live THEN page.frames ELSE conn[c].wire,
                  live |-> conn[c].live, opened |-> conn[c].opened]
        BY <1>2
      <3> HIDE DEF cn
      <3>4. ASSUME c = client.source PROVE Chain(cn, reducer.epoch, reducer.seq)
        <4>1. /\ conn[c].live /\ reducer.epoch \in Nat /\ reducer.seq \in Nat
              /\ Chain(conn[c], reducer.epoch, reducer.seq)
          BY <3>4, SourceShape DEF SoundInv
        <4>2. conn[c].after = Cursor(reducer.epoch, reducer.seq)
          BY <1>1, <4>1 DEF Chain
        <4>3. /\ page.frames \in Seq(Events)
              /\ \A i \in 1 .. Len(page.frames) :
                    page.frames[i].epoch = reducer.epoch /\ page.frames[i].seq = reducer.seq + i
              /\ page.next = Cursor(reducer.epoch, reducer.seq + Len(page.frames))
          <5>1. /\ CursorStatus(Cursor(reducer.epoch, reducer.seq)) = 200
                /\ page \in ReadEvents(Cursor(reducer.epoch, reducer.seq))
            BY <2>1, <4>2
          <5>2. store \in Stores /\ LogOf(store, log) /\ Full(store)
            BY DEF StreamInvOf, SoundInv
          <5> QED
            <6>1. PICK epoch \in Nat, seq \in Nat : epoch = reducer.epoch /\ seq = reducer.seq
              BY <4>1
            <6>2. CursorStatus(Cursor(epoch, seq)) = 200 /\ page \in ReadEvents(Cursor(epoch, seq))
              BY <5>1, <6>1
            <6>3. /\ page.frames \in Seq(Events)
                  /\ \A i \in 1 .. Len(page.frames) :
                        page.frames[i].epoch = epoch /\ page.frames[i].seq = seq + i
                  /\ page.next = Cursor(epoch, seq + Len(page.frames))
              BY <5>2, <6>2, PageContinues, StreamAssumption, SMTT(30)
            <6> QED
              BY <6>1, <6>3
        <4>4. cn.at = "checked" /\ cn.after = page.next /\ cn.wire = page.frames
          BY <3>3, <4>1
        <4>5. \A i \in 1 .. Len(page.frames) : page.frames[i] \in Events
          BY <4>3
        <4> QED
          BY <4>3, <4>4, <4>5 DEF Chain
      <3>5. cn.at \notin {"counted", "stream"}
        BY <3>3
      <3> QED
        BY <3>2, <3>4, <3>5, Zenon
    <2>2. CASE CursorStatus(conn[c].after) # 200
      <3>1. conn' = [conn EXCEPT ![c] = Ended(c, conn[c])]
        BY <2>2 DEF ServeFirst
      <3>2. /\ Ended(c, conn[c]).at \notin {"counted", "stream"}
            /\ conn[c].live => /\ Ended(c, conn[c]).at = "ended"
                               /\ Ended(c, conn[c]).wire = conn[c].wire
        BY <1>1, <1>2, EndedShape
      <3>3. ASSUME c = client.source PROVE Chain(Ended(c, conn[c]), reducer.epoch, reducer.seq)
        BY <1>1, <3>2, <3>3, SourceShape DEF Chain, SoundInv
      <3> QED
        BY <3>1, <3>2, <3>3
    <2> QED
      BY <2>1, <2>2
  <1>4. Running' \subseteq Running
    BY <1>3, RunningWith
  <1>5. PlaceInv'
    BY <1>1, <1>4, PlacesKept DEF SoundInv
  <1>6. SourceChain'
    BY <1>1, <1>3, ChainWith DEF SoundInv
  <1> QED
    BY <1>1, <1>5, <1>6, PlainStep

LEMMA TakePlaceSound ==
    ASSUME NEW log, StreamInvOf(log), SoundInv, NEW c \in Conn, TakePlace(c)
    PROVE  SoundInv'
  <1>1. conn[c].at = "checked" /\ UNCHANGED <<store, client, reducer>>
    BY DEF TakePlace
  <1>2. conn[c] = [at |-> conn[c].at, after |-> conn[c].after, wire |-> conn[c].wire,
                   live |-> conn[c].live, opened |-> conn[c].opened]
    BY <1>1, ConnShape
  <1>3. CASE subs >= MaxSubscribers
    <2> DEFINE cn == [conn[c] EXCEPT !.wire = <<>>]
    <2>1. conn' = [conn EXCEPT ![c] = Ended(c, cn)] /\ subs' = subs
      BY <1>3 DEF TakePlace
    <2>2. cn = [at |-> conn[c].at, after |-> conn[c].after, wire |-> <<>>,
                live |-> conn[c].live, opened |-> conn[c].opened]
      BY <1>2
    <2> HIDE DEF cn
    <2>3. cn = [at |-> cn.at, after |-> cn.after, wire |-> cn.wire,
                live |-> cn.live, opened |-> cn.opened] /\ cn.at # "free"
      BY <1>1, <2>2
    <2>4. /\ Ended(c, cn).at \notin {"counted", "stream"}
          /\ conn[c].live => Ended(c, cn).at = "ended" /\ Ended(c, cn).wire = <<>>
      BY <2>2, <2>3, EndedShape
    <2>5. ASSUME c = client.source PROVE Chain(Ended(c, cn), reducer.epoch, reducer.seq)
      <3>1. conn[c].live
        BY <2>5, SourceShape DEF SoundInv
      <3> QED
        BY <2>4, <3>1 DEF Chain
    <2>6. Running' \subseteq Running
      BY <2>1, <2>4, RunningWith
    <2>7. PlaceInv'
      BY <2>1, <2>6, PlacesKept DEF SoundInv
    <2>8. SourceChain'
      BY <1>1, <2>1, <2>5, ChainWith DEF SoundInv
    <2> QED
      BY <1>1, <2>7, <2>8, PlainStep
  <1>4. CASE ~(subs >= MaxSubscribers)
    <2> DEFINE cn == [conn[c] EXCEPT !.at = "counted"]
    <2>1. conn' = [conn EXCEPT ![c] = cn] /\ subs' = subs + 1
      BY <1>4 DEF TakePlace
    <2>2. cn = [at |-> "counted", after |-> conn[c].after, wire |-> conn[c].wire,
                live |-> conn[c].live, opened |-> conn[c].opened]
      BY <1>2
    <2> HIDE DEF cn
    <2>3. ASSUME c = client.source PROVE Chain(cn, reducer.epoch, reducer.seq)
      <3>1. Chain(conn[c], reducer.epoch, reducer.seq)
        BY <2>3, SourceShape DEF SoundInv
      <3> QED
        BY <1>1, <2>2, <3>1 DEF Chain
    <2>4. Running' = Running \cup {c}
      <3>1. cn.at = "counted" /\ conn' = [conn EXCEPT ![c] = cn]
        BY <2>1, <2>2
      <3>2. Running' = IF cn.at \in {"counted", "stream"} THEN Running \cup {c}
                       ELSE Running \ {c}
        BY <3>1, RunningWith
      <3> QED
        BY <3>1, <3>2
    <2>5. PlaceInv'
      BY <1>4, <2>1, <2>4, PlaceTaken DEF SoundInv
    <2>6. SourceChain'
      BY <1>1, <2>1, <2>3, ChainWith DEF SoundInv
    <2> QED
      BY <1>1, <2>5, <2>6, PlainStep
  <1> QED
    BY <1>3, <1>4

LEMMA StartResponseSound ==
    ASSUME NEW log, StreamInvOf(log), SoundInv, NEW c \in Conn, StartResponse(c)
    PROVE  SoundInv'
  <1> DEFINE cn == [conn[c] EXCEPT !.at = "stream", !.opened = TRUE]
  <1>1. /\ conn[c].at = "counted" /\ UNCHANGED <<store, subs, client, reducer>>
        /\ conn' = [conn EXCEPT ![c].at = "stream", ![c].opened = TRUE]
    BY DEF StartResponse
  <1>2. conn[c] = [at |-> conn[c].at, after |-> conn[c].after, wire |-> conn[c].wire,
                   live |-> conn[c].live, opened |-> conn[c].opened]
    BY <1>1, ConnShape
  <1>3. conn' = [conn EXCEPT ![c] = cn]
    BY <1>1 DEF StreamInvOf
  <1>4. cn.at = "stream" /\ cn.after = conn[c].after /\ cn.wire = conn[c].wire
    BY <1>2
  <1> HIDE DEF cn
  <1>5. ASSUME c = client.source PROVE Chain(cn, reducer.epoch, reducer.seq)
    <2>1. Chain(conn[c], reducer.epoch, reducer.seq)
      BY <1>5, SourceShape DEF SoundInv
    <2> QED
      BY <1>1, <1>4, <2>1 DEF Chain
  <1>6. Running' \subseteq Running
    <2>1. c \in Running
      BY <1>1 DEF Running
    <2> QED
      BY <1>3, <2>1, RunningWith
  <1>7. PlaceInv'
    BY <1>1, <1>6, PlacesKept DEF SoundInv
  <1>8. SourceChain'
    BY <1>1, <1>3, <1>5, ChainWith DEF SoundInv
  <1> QED
    BY <1>1, <1>7, <1>8, PlainStep

LEMMA NeverStartsSound ==
    ASSUME NEW log, StreamInvOf(log), SoundInv, NEW c \in Conn, NeverStarts(c)
    PROVE  SoundInv'
  <1>1. /\ ~conn[c].live /\ UNCHANGED <<store, subs, client, reducer>>
        /\ conn' = [conn EXCEPT ![c] = Free]
    BY DEF NeverStarts
  <1>2. c # client.source
    BY <1>1, SourceShape DEF SoundInv
  <1>3. Running' \subseteq Running
    <2>1. Free.at = "free"
      BY DEF Free
    <2> QED
      BY <1>1, <2>1, RunningWith
  <1>4. PlaceInv'
    BY <1>1, <1>3, PlacesKept DEF SoundInv
  <1>5. SourceChain'
    BY <1>1, <1>2, ChainWith DEF SoundInv
  <1> QED
    BY <1>1, <1>4, <1>5, PlainStep

\* A stream that the server ends gives its place back.
LEMMA StreamLeaves ==
    ASSUME NEW log, StreamInvOf(log), SoundInv, UNCHANGED <<store, client, reducer>>,
           NEW c \in Conn, conn[c].at = "stream", subs' = subs - 1,
           NEW cn, cn.at = "stream", cn.live = conn[c].live,
           cn = [at |-> cn.at, after |-> cn.after, wire |-> cn.wire,
                 live |-> cn.live, opened |-> cn.opened],
           conn' = [conn EXCEPT ![c] = Ended(c, cn)],
           \A i \in 1 .. Len(cn.wire) :
              cn.wire[i] = Resynced \/ (i \in 1 .. Len(conn[c].wire) /\ cn.wire[i] = conn[c].wire[i])
    PROVE  SoundInv'
  <1>1. /\ Ended(c, cn).at \notin {"counted", "stream"}
        /\ cn.live => Ended(c, cn).at = "ended" /\ Ended(c, cn).wire = cn.wire
    BY EndedShape
  <1>2. ASSUME c = client.source PROVE Chain(Ended(c, cn), reducer.epoch, reducer.seq)
    <2>1. cn.live /\ Chain(conn[c], reducer.epoch, reducer.seq)
      BY <1>2, SourceShape DEF SoundInv
    <2> QED
      BY <1>1, <2>1 DEF Chain
  <1>3. c \in Running
    BY DEF Running
  <1>4. Running' = Running \ {c}
    BY <1>1, RunningWith
  <1>5. PlaceInv'
    BY <1>3, <1>4, PlaceLeft DEF SoundInv
  <1>6. SourceChain'
    BY <1>2, ChainWith DEF SoundInv
  <1> QED
    BY <1>5, <1>6, PlainStep

LEMMA EndStreamSound ==
    ASSUME NEW log, StreamInvOf(log), SoundInv, NEW c \in Conn, EndStream(c)
    PROVE  SoundInv'
  <1>1. /\ conn[c].at = "stream" /\ UNCHANGED <<store, client, reducer>>
        /\ conn' = [conn EXCEPT ![c] = Ended(c, conn[c])] /\ subs' = subs - 1
    BY DEF EndStream
  <1>2. conn[c] = [at |-> conn[c].at, after |-> conn[c].after, wire |-> conn[c].wire,
                   live |-> conn[c].live, opened |-> conn[c].opened]
    BY <1>1, ConnShape
  <1> QED
    BY <1>1, <1>2, StreamLeaves

LEMMA PollSound ==
    ASSUME NEW log, StreamInvOf(log), SoundInv, NEW c \in Conn, Poll(c)
    PROVE  SoundInv'
  <1>1. /\ conn[c].at = "stream" /\ conn[c].live
        /\ UNCHANGED <<store, client, reducer>>
    BY DEF Poll
  <1>2. /\ conn[c] = [at |-> conn[c].at, after |-> conn[c].after, wire |-> conn[c].wire,
                      live |-> conn[c].live, opened |-> conn[c].opened]
        /\ conn[c].wire \in Seq(SoundFrames(store, log))
    BY <1>1, ConnShape
  <1>3. CASE CursorStatus(conn[c].after) = 200
    <2>1. /\ subs' = subs
          /\ \E page \in ReadEvents(conn[c].after) :
                conn' = [conn EXCEPT ![c].after = page.next, ![c].wire = @ \o page.frames]
      BY <1>3 DEF Poll
    <2>2. PICK page \in ReadEvents(conn[c].after) :
             conn' = [conn EXCEPT ![c].after = page.next, ![c].wire = @ \o page.frames]
      BY <2>1
    <2> DEFINE cn == [conn[c] EXCEPT !.after = page.next, !.wire = @ \o page.frames]
    <2>3. conn' = [conn EXCEPT ![c] = cn]
      BY <2>2 DEF StreamInvOf
    <2>4. cn.at = "stream" /\ cn.after = page.next /\ cn.wire = conn[c].wire \o page.frames
      BY <1>1, <1>2
    <2> HIDE DEF cn
    <2>5. ASSUME c = client.source PROVE Chain(cn, reducer.epoch, reducer.seq)
      <3>1. /\ reducer.epoch \in Nat /\ reducer.seq \in Nat
            /\ Chain(conn[c], reducer.epoch, reducer.seq)
        BY <2>5, SourceShape DEF SoundInv
      <3>2. PICK old, len : old = conn[c].wire /\ len = Len(old)
        OBVIOUS
      <3>11. len \in Nat
        BY <1>2, <3>2
      <3>3. /\ conn[c].after = Cursor(reducer.epoch, reducer.seq + len)
            /\ \A i \in 1 .. len : /\ old[i] \in Events /\ old[i].epoch = reducer.epoch
                                   /\ old[i].seq = reducer.seq + i
        BY <1>1, <3>1, <3>2 DEF Chain
      <3>4. reducer.seq + len \in Nat
        BY <3>1, <3>11
      <3>5. /\ page.frames \in Seq(Events)
            /\ \A i \in 1 .. Len(page.frames) :
                  /\ page.frames[i].epoch = reducer.epoch
                  /\ page.frames[i].seq = reducer.seq + len + i
            /\ page.next = Cursor(reducer.epoch, reducer.seq + len + Len(page.frames))
        <4>1. /\ CursorStatus(Cursor(reducer.epoch, reducer.seq + len)) = 200
              /\ page \in ReadEvents(Cursor(reducer.epoch, reducer.seq + len))
          BY <1>3, <3>3
        <4>2. store \in Stores /\ LogOf(store, log) /\ Full(store)
          BY DEF StreamInvOf, SoundInv
        <4> QED
          <5>1. PICK epoch \in Nat, seq \in Nat :
                   epoch = reducer.epoch /\ seq = reducer.seq + len
            BY <3>1, <3>4
          <5>2. CursorStatus(Cursor(epoch, seq)) = 200 /\ page \in ReadEvents(Cursor(epoch, seq))
            BY <4>1, <5>1
          <5>3. /\ page.frames \in Seq(Events)
                /\ \A i \in 1 .. Len(page.frames) :
                      page.frames[i].epoch = epoch /\ page.frames[i].seq = seq + i
                /\ page.next = Cursor(epoch, seq + Len(page.frames))
            BY <4>2, <5>2, PageContinues, StreamAssumption, SMTT(30)
          <5> QED
            BY <5>1, <5>3
      <3>6. PICK new \in Seq(Events) : new = page.frames
        BY <3>5
      <3>7. old \in Seq(SoundFrames(store, log)) /\ Len(new) \in Nat
        BY <1>2, <3>2, <3>6, <3>11
      <3>8. /\ Len(old \o new) = len + Len(new)
            /\ \A i \in 1 .. len : (old \o new)[i] = old[i]
            /\ \A i \in (len + 1) .. (len + Len(new)) :
                  i - len \in 1 .. Len(new) /\ (old \o new)[i] = new[i - len]
        BY <3>2, <3>7, <3>11
      <3>9. \A i \in 1 .. Len(old \o new) :
               /\ (old \o new)[i] \in Events /\ (old \o new)[i].epoch = reducer.epoch
               /\ (old \o new)[i].seq = reducer.seq + i
        <4> SUFFICES ASSUME NEW i \in 1 .. Len(old \o new)
                     PROVE  /\ (old \o new)[i] \in Events /\ (old \o new)[i].epoch = reducer.epoch
                            /\ (old \o new)[i].seq = reducer.seq + i
          OBVIOUS
        <4>1. CASE i <= len
          <5>1. i \in 1 .. len
            BY <3>11, <3>7, <3>8, <4>1
          <5> QED
            BY <3>3, <3>8, <5>1
        <4>2. CASE ~(i <= len)
          <5>1. i \in (len + 1) .. (len + Len(new)) /\ i - len \in 1 .. Len(new)
            BY <3>11, <3>7, <3>8, <4>2
          <5>2. (old \o new)[i] = new[i - len] /\ new[i - len] \in Events
            BY <3>6, <3>8, <5>1
          <5>3. /\ new[i - len].epoch = reducer.epoch
                /\ new[i - len].seq = reducer.seq + len + (i - len)
            BY <3>5, <3>6, <5>1
          <5>4. reducer.seq + len + (i - len) = reducer.seq + i
            BY <3>11, <3>1, <5>1
          <5> QED
            BY <5>2, <5>3, <5>4
        <4> QED
          BY <4>1, <4>2
      <3>10. cn.wire = old \o new /\ cn.after = Cursor(reducer.epoch, reducer.seq + Len(old \o new))
        <4>1. reducer.seq + len + Len(new) = reducer.seq + Len(old \o new)
          BY <3>11, <3>1, <3>7, <3>8
        <4> QED
          BY <2>4, <3>2, <3>5, <3>6, <4>1
      <3> QED
        BY <2>4, <3>9, <3>10 DEF Chain
    <2>6. Running' \subseteq Running
      <3>1. c \in Running
        BY <1>1 DEF Running
      <3> QED
        BY <2>3, <3>1, RunningWith
    <2>7. PlaceInv'
      BY <2>1, <2>6, PlacesKept DEF SoundInv
    <2>8. SourceChain'
      BY <1>1, <2>3, <2>5, ChainWith DEF SoundInv
    <2> QED
      BY <1>1, <2>7, <2>8, PlainStep
  <1>4. CASE CursorStatus(conn[c].after) # 200
    <2> DEFINE cn == [conn[c] EXCEPT !.wire = Append(conn[c].wire, Resynced)]
    <2>1. conn' = [conn EXCEPT ![c] = Ended(c, cn)] /\ subs' = subs - 1
      <3>1. /\ conn' = [conn EXCEPT ![c] =
                   Ended(c, [@ EXCEPT !.wire = Append(conn[c].wire, [resync |-> TRUE])])]
            /\ subs' = subs - 1
        BY <1>4 DEF Poll
      <3> QED
        BY <3>1 DEF Resynced
    <2>2. cn = [at |-> conn[c].at, after |-> conn[c].after,
                wire |-> Append(conn[c].wire, Resynced),
                live |-> conn[c].live, opened |-> conn[c].opened]
      BY <1>2, ConnWith, Zenon
    <2> HIDE DEF cn
    <2>3. /\ cn = [at |-> cn.at, after |-> cn.after, wire |-> cn.wire,
                   live |-> cn.live, opened |-> cn.opened]
          /\ cn.at = "stream" /\ cn.live = conn[c].live
          /\ cn.wire = Append(conn[c].wire, Resynced)
      BY <1>1, <2>2
    <2>4. \A i \in 1 .. Len(cn.wire) :
             cn.wire[i] = Resynced
             \/ (i \in 1 .. Len(conn[c].wire) /\ cn.wire[i] = conn[c].wire[i])
      <3>1. PICK old \in Seq(SoundFrames(store, log) \cup {Resynced}) : old = conn[c].wire
        BY <1>2 DEF SoundFrames
      <3>2. \A i \in 1 .. Len(Append(old, Resynced)) :
               Append(old, Resynced)[i] = Resynced
               \/ (i \in 1 .. Len(old) /\ Append(old, Resynced)[i] = old[i])
        <4>1. PICK S : S = SoundFrames(store, log) \cup {Resynced}
          OBVIOUS
        <4>2. old \in Seq(S) /\ Resynced \in S
          BY <4>1
        <4>3. /\ Len(Append(old, Resynced)) = Len(old) + 1 /\ Len(old) \in Nat
              /\ \A i \in 1 .. Len(old) : Append(old, Resynced)[i] = old[i]
              /\ Append(old, Resynced)[Len(old) + 1] = Resynced
          BY <4>2
        <4>4. PICK new : new = Append(old, Resynced)
          OBVIOUS
        <4>5. /\ Len(new) = Len(old) + 1 /\ new[Len(old) + 1] = Resynced
              /\ \A i \in 1 .. Len(old) : new[i] = old[i]
          BY <4>3, <4>4
        <4>6. \A i \in 1 .. Len(new) : i = Len(old) + 1 \/ i \in 1 .. Len(old)
          BY <4>3, <4>5
        <4>7. \A i \in 1 .. Len(new) :
                 new[i] = Resynced \/ (i \in 1 .. Len(old) /\ new[i] = old[i])
          <5> SUFFICES ASSUME NEW i \in 1 .. Len(new)
                       PROVE  new[i] = Resynced \/ (i \in 1 .. Len(old) /\ new[i] = old[i])
            OBVIOUS
          <5>1. CASE i \in 1 .. Len(old)
            BY <4>5, <5>1
          <5>2. CASE i = Len(old) + 1
            <6>1. new[i] = new[Len(old) + 1]
              BY <5>2
            <6> QED
              BY <4>5, <6>1, Zenon
          <5> QED
            BY <4>6, <5>1, <5>2
        <4> QED
          BY <4>4, <4>7
      <3> QED
        BY <2>3, <3>1, <3>2
    <2> QED
      BY <1>1, <2>1, <2>3, <2>4, StreamLeaves
  <1> QED
    BY <1>3, <1>4

LEMMA ServerSound ==
    ASSUME NEW log, StreamInvOf(log), SoundInv, NEW c \in Conn, Server(c) \/ EndStream(c)
    PROVE  SoundInv'
  BY ServeFirstSound, TakePlaceSound, StartResponseSound, NeverStartsSound, PollSound, EndStreamSound
     DEF Server

\* The browser gives its connection up: a running stream keeps its place until the
\* server notices.
LEMMA ClosedSound ==
    ASSUME NEW log, StreamInvOf(log), SoundInv, UNCHANGED <<store, subs>>,
           conn' = Closed(client.source), client'.source = NoConn
    PROVE  SoundInv'
  <1>1. SourceChain'
    BY DEF SourceChain
  <1>2. Running' \subseteq Running
    <2>1. CASE client.source = NoConn
      BY <2>1 DEF Closed, Running
    <2>2. CASE client.source # NoConn
      <3> DEFINE c  == client.source
                 cn == IF conn[c].at = "ended" THEN Free
                       ELSE [conn[c] EXCEPT !.live = FALSE, !.opened = FALSE, !.wire = <<>>,
                                            !.after = IF conn[c].at = "request" THEN @
                                                      ELSE Cursor(0, 0)]
      <3>1. c \in Conn /\ conn[c].at # "free"
        BY <2>2 DEF StreamInvOf, SourceIsLive, ConnOK
      <3>2. conn[c] = [at |-> conn[c].at, after |-> conn[c].after, wire |-> conn[c].wire,
                       live |-> conn[c].live, opened |-> conn[c].opened]
        BY <3>1, ConnShape
      <3>3. conn' = [conn EXCEPT ![c] = cn]
        BY <2>2 DEF Closed
      <3>4. \/ cn = Free
            \/ cn = [at |-> conn[c].at,
                     after |-> IF conn[c].at = "request" THEN conn[c].after ELSE Cursor(0, 0),
                     wire |-> <<>>, live |-> FALSE, opened |-> FALSE]
        BY <3>2, ConnWith, Zenon
      <3> HIDE DEF cn
      <3>5. cn.at \in {"counted", "stream"} => c \in Running
        BY <3>1, <3>4 DEF Free, Running
      <3> QED
        BY <3>1, <3>3, <3>5, RunningWith
    <2> QED
      BY <2>1, <2>2
  <1>3. PlaceInv'
    BY <1>2, PlacesKept DEF SoundInv
  <1> QED
    BY <1>1, <1>3, PlainStep

\* The browser opens a connection after its cursor.
LEMMA OpenSound ==
    ASSUME NEW log, StreamInvOf(log), SoundInv, reducer' \in Reducers, UNCHANGED <<store, subs>>,
           NEW c \in Conn, Open(c, Cursor(reducer'.epoch, reducer'.seq))
    PROVE  SoundInv'
  <1> DEFINE cn == [at |-> "request", after |-> Cursor(reducer'.epoch, reducer'.seq), wire |-> <<>>,
                    live |-> TRUE, opened |-> FALSE]
  <1>1. /\ conn[c] = Free /\ conn' = [conn EXCEPT ![c] = cn]
        /\ client' = [pc |-> "opening", source |-> c, fetch |-> NoFetch]
    BY DEF Open
  <1>2. conn'[c] = cn
    BY <1>1 DEF StreamInvOf
  <1>3. client'.pc = "opening" /\ client'.source = c
    BY <1>1
  <1>4. reducer'.epoch \in Nat /\ reducer'.seq \in Nat
    BY DEF Reducers
  <1>5. /\ cn.at = "request" /\ cn.wire = <<>> /\ Len(<<>>) = 0
        /\ cn.after = Cursor(reducer'.epoch, reducer'.seq)
    OBVIOUS
  <1> HIDE DEF cn
  <1>6. Chain(cn, reducer'.epoch, reducer'.seq)
    BY <1>4, <1>5 DEF Chain
  <1>7. SourceChain'
    BY <1>2, <1>3, <1>6 DEF SourceChain
  <1>8. Running' \subseteq Running
    <2>1. cn.at \notin {"counted", "stream"}
      BY <1>5
    <2> QED
      BY <1>1, <2>1, RunningWith
  <1>9. PlaceInv'
    BY <1>8, PlacesKept DEF SoundInv
  <1> QED
    BY <1>7, <1>9, PlainStep

\* A step that leaves the connections alone and takes none.
LEMMA ClientSound ==
    ASSUME SoundInv, UNCHANGED <<store, subs, conn, reducer>>,
           \/ client'.source = NoConn
           \/ client'.source = client.source /\ client'.pc \in {client.pc, "connected"}
    PROVE  SoundInv'
  <1>1. SourceChain'
    BY DEF SoundInv, SourceChain
  <1>2. Running' \subseteq Running
    BY DEF Running
  <1>3. PlaceInv'
    BY <1>2, PlacesKept DEF SoundInv
  <1> QED
    BY <1>1, <1>3, PlainStep

\* The next frame continues the browser's cursor, and the rest continues the frame.
LEMMA FrameSound ==
    ASSUME NEW log, StreamInvOf(log), SoundInv, OnFrame
    PROVE  SoundInv'
  <1> DEFINE c == client.source
             frame == Head(conn[c].wire)
  <1>1. /\ client.pc = "connected" /\ conn[c].wire # <<>>
        /\ UNCHANGED <<store, subs>>
    BY DEF OnFrame
  <1>2. c \in Conn
    BY <1>1 DEF StreamInvOf, SourceIsLive
  <1>3. /\ conn[c].at # "free" /\ Chain(conn[c], reducer.epoch, reducer.seq)
        /\ reducer.epoch \in Nat /\ reducer.seq \in Nat
    BY <1>2, SourceShape DEF SoundInv
  <1>4. /\ conn[c] = [at |-> conn[c].at, after |-> conn[c].after, wire |-> conn[c].wire,
                      live |-> conn[c].live, opened |-> conn[c].opened]
        /\ conn[c].wire \in Seq(SoundFrames(store, log))
    BY <1>2, <1>3, ConnShape
  <1>5. CASE "resync" \in DOMAIN frame \/ (~Duplicate(frame) /\ MustResync(frame))
    <2>1. Resync
      BY <1>5 DEF OnFrame
    <2>2. conn' = Closed(client.source) /\ client'.source = NoConn
      BY <2>1 DEF Resync
    <2> QED
      BY <1>1, <2>2, ClosedSound
  <1>6. CASE ~("resync" \in DOMAIN frame \/ (~Duplicate(frame) /\ MustResync(frame)))
    <2>1. /\ reducer' = Reduced(frame) /\ UNCHANGED client
          /\ conn' = [conn EXCEPT ![c].wire = Tail(@)]
      BY <1>6 DEF OnFrame
    <2>2. PICK wire, len : wire = conn[c].wire /\ len = Len(wire)
      OBVIOUS
    <2>3. /\ len \in Nat \ {0} /\ frame = wire[1] /\ Len(Tail(wire)) = len - 1
          /\ \A i \in 1 .. len - 1 : Tail(wire)[i] = wire[i + 1] /\ i + 1 \in 1 .. len
      BY <1>1, <1>4, <2>2
    <2>4. frame # Resynced
      BY <1>6 DEF Resynced
    <2>5. frame \in Events /\ frame.epoch = reducer.epoch /\ frame.seq = reducer.seq + 1
      BY <1>3, <2>2, <2>3, <2>4 DEF Chain
    <2> HIDE DEF frame
    <2>6. ~Duplicate(frame)
      BY <1>3, <2>5 DEF Duplicate
    <2>7. reducer'.epoch = reducer.epoch /\ reducer'.seq = reducer.seq + 1
      <3>1. reducer \in Reducers
        BY DEF StreamInvOf
      <3> QED
        BY <2>1, <2>5, <2>6, <3>1 DEF Reduced, Reducers
    <2> DEFINE cn == [conn[c] EXCEPT !.wire = Tail(conn[c].wire)]
    <2>8. conn' = [conn EXCEPT ![c] = cn]
      BY <2>1 DEF StreamInvOf
    <2>9. cn.at = conn[c].at /\ cn.after = conn[c].after /\ cn.wire = Tail(wire)
      BY <1>4, <2>2
    <2> HIDE DEF cn
    <2>10. Chain(cn, reducer'.epoch, reducer'.seq)
      <3>1. \A i \in 1 .. Len(cn.wire) :
               \/ cn.wire[i] = Resynced /\ cn.at = "ended"
               \/ /\ cn.wire[i] \in Events /\ cn.wire[i].epoch = reducer'.epoch
                  /\ cn.wire[i].seq = reducer'.seq + i
        <4> SUFFICES ASSUME NEW i \in 1 .. len - 1
                     PROVE  \/ wire[i + 1] = Resynced /\ conn[c].at = "ended"
                            \/ /\ wire[i + 1] \in Events /\ wire[i + 1].epoch = reducer.epoch
                               /\ wire[i + 1].seq = reducer.seq + 1 + i
          BY <2>3, <2>7, <2>9
        <4>1. i + 1 \in 1 .. len
          BY <2>3
        <4>2. \/ wire[i + 1] = Resynced /\ conn[c].at = "ended"
              \/ /\ wire[i + 1] \in Events /\ wire[i + 1].epoch = reducer.epoch
                 /\ wire[i + 1].seq = reducer.seq + (i + 1)
          BY <1>3, <2>2, <4>1 DEF Chain
        <4>3. reducer.seq + (i + 1) = reducer.seq + 1 + i
          BY <1>3
        <4> QED
          BY <4>2, <4>3
      <3>2. cn.at # "ended" => cn.after = Cursor(reducer'.epoch, reducer'.seq + Len(cn.wire))
        <4>1. reducer.seq + len = reducer.seq + 1 + (len - 1)
          BY <1>3, <2>3
        <4> QED
          BY <1>3, <2>2, <2>3, <2>7, <2>9, <4>1 DEF Chain
      <3>3. cn.at # "request"
        BY <1>1, <1>3, <2>9 DEF Chain
      <3> QED
        BY <3>1, <3>2, <3>3 DEF Chain
    <2>11. SourceChain'
      <3>1. conn'[c] = cn /\ client' = client
        BY <1>2, <2>1, <2>8 DEF StreamInvOf
      <3> QED
        BY <1>1, <2>10, <3>1 DEF SourceChain
    <2>12. Running' \subseteq Running
      <3>1. cn.at \in {"counted", "stream"} => c \in Running
        BY <1>2, <2>9 DEF Running
      <3> QED
        BY <1>2, <2>8, <3>1, RunningWith
    <2>13. PlaceInv'
      BY <1>1, <2>12, PlacesKept DEF SoundInv
    <2> QED
      BY <1>1, <2>11, <2>13, PlainStep
  <1> QED
    BY <1>5, <1>6

LEMMA BrowserSound ==
    ASSUME NEW log, StreamInvOf(log), SoundInv, reducer' \in Reducers, Browser
    PROVE  SoundInv'
  <1>1. CASE Start \/ RetrySync
    <2>1. /\ conn' = Closed(client.source) /\ client'.source = NoConn
          /\ UNCHANGED <<store, subs>>
      BY <1>1 DEF Start, RetrySync, Resync
    <2> QED
      BY <2>1, ClosedSound
  <1>2. CASE FetchFirst \/ FetchNext
    <2>1. client.pc = "syncing" /\ UNCHANGED <<store, subs, conn, reducer>>
      BY <1>2 DEF FetchFirst, FetchNext
    <2>2. client.source = NoConn
      BY <2>1 DEF SoundInv, SourceChain
    <2>3. client'.source = NoConn
      <3>1. CASE FetchFirst
        <4>1. PICK fetch : client' = [client EXCEPT !.fetch = fetch]
          BY <3>1 DEF FetchFirst
        <4> QED
          BY <2>2, <4>1, ClientShape
      <3>2. CASE FetchNext
        <4>1. client' = Offline \/ client' = [client EXCEPT !.fetch.left = @ - 1]
          BY <3>2 DEF FetchNext
        <4> QED
          BY <2>2, <4>1, ClientShape DEF Offline
      <3> QED
        BY <1>2, <3>1, <3>2
    <2> QED
      BY <2>1, <2>3, ClientSound
  <1>3. CASE OnOpen
    <2>1. client' = [pc |-> "connected", source |-> client.source, fetch |-> client.fetch]
      BY <1>3, ClientShape DEF OnOpen
    <2>2. UNCHANGED <<store, subs, conn, reducer>>
      BY <1>3 DEF OnOpen
    <2> QED
      BY <2>1, <2>2, ClientSound
  <1>4. CASE OnFrame
    BY <1>4, FrameSound
  <1>5. CASE StreamEnds
    BY <1>5, ClosedSound DEF StreamEnds, OnError
  <1>6. CASE \E c \in Conn : FetchDone(c) \/ Reconnect(c)
    <2>1. PICK c \in Conn : FetchDone(c) \/ Reconnect(c)
      BY <1>6
    <2>2. Open(c, Cursor(reducer'.epoch, reducer'.seq)) /\ UNCHANGED <<store, subs>>
      BY <2>1 DEF FetchDone, Reconnect
    <2> QED
      BY <2>2, OpenSound
  <1> QED
    BY <1>1, <1>2, <1>3, <1>4, <1>5, <1>6 DEF Browser

\* The server is down: no stream runs, and the browser's connection has ended.
LEMMA DownSound ==
    ASSUME NEW log, StreamInvOf(log), SoundInv, Full(store)', conn' = Down(conn), subs' = 0,
           UNCHANGED <<client, reducer>>
    PROVE  SoundInv'
  <1>1. ASSUME NEW c \in Conn
        PROVE  /\ conn'[c].at \notin {"counted", "stream"}
               /\ conn[c] # Free /\ conn[c].live => conn'[c].at = "ended" /\ conn'[c].wire = <<>>
    <2>1. conn'[c] = IF conn[c].at # "free" /\ conn[c].live
                     THEN [conn[c] EXCEPT !.at = "ended", !.wire = <<>>] ELSE Free
      BY DEF Down
    <2>2. CASE conn[c].at = "free"
      BY <2>1, <2>2 DEF StreamInvOf, ConnOK, Free
    <2>3. CASE conn[c].at # "free"
      <3>1. conn[c] = [at |-> conn[c].at, after |-> conn[c].after, wire |-> conn[c].wire,
                       live |-> conn[c].live, opened |-> conn[c].opened]
        BY <2>3, ConnShape
      <3> QED
        BY <2>1, <2>3, <3>1 DEF Free
    <2> QED
      BY <2>2, <2>3
  <1>2. Running' = {}
    BY <1>1 DEF Running
  <1>3. PlaceInv'
    <2>1. IsFiniteSet(Running') /\ Cardinality(Running') = 0
      BY <1>2, FS_EmptySet
    <2> QED
      BY <2>1, StreamAssumption DEF PlaceInv
  <1>4. SourceChain'
    <2> SUFFICES ASSUME client.source # NoConn
                 PROVE  Chain(conn'[client.source], reducer.epoch, reducer.seq)
      BY DEF SourceChain, SoundInv
    <2>1. client.source \in Conn /\ conn[client.source] # Free /\ conn[client.source].live
      BY DEF StreamInvOf, SourceIsLive
    <2>2. conn'[client.source].at = "ended" /\ conn'[client.source].wire = <<>>
      BY <1>1, <2>1
    <2> QED
      BY <2>2 DEF Chain
  <1> QED
    BY <1>3, <1>4 DEF SoundInv

\* A step of the store alone.
LEMMA StoreSound ==
    ASSUME SoundInv, Full(store)', UNCHANGED <<conn, subs, client, reducer>>
    PROVE  SoundInv'
  <1>1. SourceChain'
    BY DEF SoundInv, SourceChain
  <1>2. Running' \subseteq Running
    BY DEF Running
  <1>3. PlaceInv'
    BY <1>2, PlacesKept DEF SoundInv
  <1> QED
    BY <1>1, <1>3 DEF SoundInv

LEMMA WriteSound ==
    ASSUME NEW log, StreamInvOf(log), SoundInv, Write \/ \E l \in 1 .. MaxSeq : Compact(l)
    PROVE  SoundInv'
  <1>1. store \in Stores /\ store.floor \in Nat /\ Full(store)
    BY DEF StreamInvOf, SoundInv, Stores
  <1>2. CASE Write
    <2>1. PICK rs \in Seq(Res) : Commit(rs)
      <3>1. \A r \in Res : <<r>> \in Seq(Res)
        OBVIOUS
      <3>2. \A r \in Res : <<r, Queue>> \in Seq(Res)
        BY StreamAssumption
      <3> QED
        BY <1>2, <3>1, <3>2 DEF Write
    <2>2. Full(Emitted(store, rs))
      BY <1>1, EmittedFull
    <2> QED
      BY <2>1, <2>2, StoreSound DEF Commit
  <1>3. CASE \E l \in 1 .. MaxSeq : Compact(l)
    <2>1. PICK limit \in 1 .. MaxSeq : Compact(limit)
      BY <1>3
    <2>2. limit \in Nat /\ limit > store.floor
      BY <1>1, <2>1, StreamAssumption DEF Compact
    <2>3. Full(Compacted(limit))
      BY <1>1, <2>2, CompactedFull
    <2> QED
      BY <2>1, <2>3, StoreSound DEF Compact
  <1> QED
    BY <1>2, <1>3

LEMMA RotateSound ==
    ASSUME NEW log, StreamInvOf(log), SoundInv, RotateEpoch \/ Restore
    PROVE  SoundInv'
  <1>1. store \in Stores /\ LogOf(store, log) /\ store.epoch + 1 \in Nat
    BY DEF StreamInvOf, Stores
  <1>2. CASE RotateEpoch
    <2>1. Full(Rotated(store, store.epoch + 1))
      BY <1>1, RotatedFull
    <2> QED
      BY <1>2, <2>1, StoreSound DEF RotateEpoch
  <1>3. CASE Restore
    <2>1. backup \in Stores /\ LogOf(backup, backup.outbox)
      BY <1>3 DEF Restore, StreamInvOf, BackupOK
    <2>2. Full(Rotated(backup, store.epoch + 1))
      BY <1>1, <2>1, RotatedFull
    <2>3. /\ store' = Rotated(backup, store.epoch + 1) /\ conn' = Down(conn) /\ subs' = 0
          /\ UNCHANGED <<client, reducer>>
      BY <1>3 DEF Restore
    <2> QED
      BY <2>2, <2>3, DownSound
  <1> QED
    BY <1>2, <1>3

-------------------------------------------------------------------------------
(* The theorem *)

LEMMA SoundStep == StreamInv /\ StreamInv' /\ SoundInv /\ [Next]_vars => SoundInv'
  <1> SUFFICES ASSUME NEW log \in SUBSET Events, StreamInvOf(log), StreamInv', SoundInv,
                      [Next]_vars
               PROVE  SoundInv'
    BY DEF StreamInv
  <1>1. CASE Write \/ \E l \in 1 .. MaxSeq : Compact(l)
    BY <1>1, WriteSound
  <1>2. CASE RotateEpoch \/ Restore
    BY <1>2, RotateSound
  <1>3. CASE Backup \/ OthersList \/ UNCHANGED vars
    BY <1>3, ClientSound DEF Backup, OthersList, vars
  <1>4. CASE \E c \in Conn : Server(c) \/ EndStream(c)
    BY <1>4, ServerSound
  <1>5. CASE Browser
    <2>1. reducer' \in Reducers
      BY DEF StreamInv, StreamInvOf
    <2> QED
      BY <1>5, <2>1, BrowserSound
  <1>6. CASE Stop \/ Break
    BY <1>6, ClosedSound DEF Stop, Break, OnError
  <1>7. CASE FetchFails
    BY <1>7, ClientSound DEF FetchFails, Offline
  <1>8. CASE Restart
    <2>1. Full(store)'
      BY <1>8 DEF Restart, SoundInv
    <2> QED
      BY <1>8, <2>1, DownSound DEF Restart
  <1> QED
    BY <1>1, <1>2, <1>3, <1>4, <1>5, <1>6, <1>7, <1>8 DEF Next

LEMMA SoundInit == Init => SoundInv
  <1> SUFFICES ASSUME Init PROVE SoundInv
    OBVIOUS
  <1>1. /\ store.floor = 0 /\ store.high = 0 /\ store.outbox = {}
        /\ client.source = NoConn /\ subs = 0 /\ conn = [c \in Conn |-> Free]
    BY DEF Init
  <1>2. Full(store) /\ SourceChain
    BY <1>1 DEF Full, SourceChain
  <1>3. Running = {}
    BY <1>1 DEF Running, Free
  <1>4. PlaceInv
    BY <1>1, <1>3, FS_EmptySet, StreamAssumption DEF PlaceInv
  <1> QED
    BY <1>2, <1>4 DEF SoundInv

LEMMA SoundSafe == StreamInv /\ SoundInv => StreamsAreSound
  <1> SUFFICES ASSUME NEW log \in SUBSET Events, StreamInvOf(log), SoundInv
               PROVE  StreamHasNoGaps /\ StreamsWithinLimit
    BY DEF StreamInv, StreamsAreSound
  <1>1. StreamsWithinLimit
    BY DEF StreamsWithinLimit, SoundInv, PlaceInv, Running
  <1>2. ASSUME client.pc = "connected", conn[client.source].wire # <<>>
        PROVE  LET frame == Head(conn[client.source].wire)
               IN  "resync" \in DOMAIN frame \/
                   (frame.epoch = reducer.epoch /\ frame.seq <= reducer.seq + 1)
    <2> DEFINE c == client.source
               frame == Head(conn[c].wire)
    <2>1. c \in Conn
      BY <1>2 DEF StreamInvOf, SourceIsLive
    <2>2. /\ conn[c].at # "free" /\ Chain(conn[c], reducer.epoch, reducer.seq)
          /\ reducer.seq \in Nat
      BY <2>1, SourceShape DEF SoundInv
    <2>3. conn[c].wire \in Seq(SoundFrames(store, log))
      BY <2>1, <2>2, ConnShape
    <2>4. frame = conn[c].wire[1] /\ 1 \in 1 .. Len(conn[c].wire)
      BY <1>2, <2>3
    <2>5. frame = Resynced \/ (frame.epoch = reducer.epoch /\ frame.seq = reducer.seq + 1)
      BY <2>2, <2>4 DEF Chain
    <2> HIDE DEF frame
    <2>6. frame = Resynced => "resync" \in DOMAIN frame
      BY DEF Resynced
    <2> QED
      BY <2>2, <2>5, <2>6 DEF frame
  <1> QED
    BY <1>1, <1>2 DEF StreamHasNoGaps

\* For any operations, connections and limits, and whatever is compacted, restored or
\* broken off: the next frame on an unfiltered stream continues the browser's cursor, and
\* never more streams run than have a place (events_repository.py read_events and
\* compact_events, events_api.py:137, transport/reducer.ts:56).
THEOREM StreamStreamsAreSound == Spec => []StreamsAreSound
  <1>1. Spec => []StreamInv
    BY StreamInit, StreamInvStep, PTL DEF Spec
  <1>2. StreamInv /\ SoundInv /\ StreamInv' /\ [Next]_vars => SoundInv'
    BY SoundStep
  <1> QED
    BY <1>1, <1>2, SoundInit, SoundSafe, PTL DEF Spec
===============================================================================
