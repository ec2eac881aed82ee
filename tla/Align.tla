-------------------------------- MODULE Align --------------------------------
(***************************************************************************)
(* Who said what (utteran/align.py): the words of the recogniser meet the   *)
(* turns of the diarizer.  Each step of align_transcription_with_statistics *)
(* is an action; the statistics are left out.                               *)
(*                                                                         *)
(* Time is counted in twentieths of a second, a score in 1/1200, so that    *)
(* the thresholds of the code are whole numbers.  A text is the sequence of *)
(* its characters, of which a word has one; a word is its start, its end    *)
(* and its character.                                                       *)
(***************************************************************************)
EXTENDS Integers, Sequences, FiniteSets, SequencesExt, FiniteSetsExt

CONSTANTS
    Transcripts,  \* the recognised segments, as sequences of segments
    Diarizations, \* the turns, as sequences in the order of the code
    Boundaries    \* what the analyser may say of a text: a set of offsets

VARIABLES
    stage, source, turns,
    scores, pointers,   \* of the dynamic programme
    speakers,           \* of all words
    segments

vars == <<stage, source, turns, scores, pointers, speakers, segments>>

Unknown == "UNKNOWN"
\* The defaults of AlignmentOptions.
SwitchPenalty == 900
UnknownEmission == 420
SilenceSwitch == 6
MinClearTurn == 10
BridgeGap == 6
MinUnknown == 20
MinUnknownCharacters == 2
MaxFragment == 10
MaxFragmentCharacters == 3
MinSupport == 1
MergeGap == 10
SnapGap == 2
SnapCharacters == 4

Larger(a, b) == IF a > b THEN a ELSE b
Smaller(a, b) == IF a < b THEN a ELSE b

\* _overlap, of two intervals.
Overlap(a, b) == Larger(0, Smaller(a.end, b.end) - Larger(a.start, b.start))

\* The turns of one speaker, as far as they overlap x.
Support(x, speaker) ==
    FoldLeft(LAMBDA sum, t : IF t.speaker = speaker THEN sum + Overlap(x, t) ELSE sum, 0, turns)

Turns == {turns[i] : i \in 1..Len(turns)}
Known == {t.speaker : t \in Turns}
States == Known \union {Unknown}
\* Python's order of strings, in which a tie is broken: UNKNOWN comes last.
After(s, t) == (s = Unknown /\ t # Unknown) \/ (s = "B" /\ t = "A")

Words == FlattenSeq([i \in 1..Len(source) |-> source[i].words])

----------------------------------------------------------------------------
(* _emission_scores, _same_speaker_bridge. *)

\* The latest turn before the word and the first one after it, if one speaker has both.
Bridge(w) ==
    LET before == {t \in Turns : t.end <= w.start}
        after == {t \in Turns : t.start >= w.end}
    IN {l.speaker : l \in {l \in before :
          /\ \A t \in before : t.end <= l.end
          /\ \E r \in after :
               /\ \A t \in after : t.start >= r.start
               /\ r.speaker = l.speaker
               /\ w.start - l.end <= BridgeGap /\ r.start - w.end <= BridgeGap}}

Heard(w, s) == Smaller(w.end - w.start, Support(w, s))
Silent(w) == \A s \in Known : Heard(w, s) = 0

Emission(w, s) ==
    IF s = Unknown THEN IF Silent(w) THEN UnknownEmission ELSE -UnknownEmission
    ELSE IF Silent(w) /\ s \in Bridge(w) THEN UnknownEmission + 60
    ELSE Smaller(1200, 200 * Heard(w, s))

LongestTurn(w, s) == Max({0} \union {t.end - t.start : t \in {t \in Turns :
                                       t.speaker = s /\ Overlap(w, t) > 0}})

\* _is_clear_supported_switch
ClearSwitch(v, w, s, t) ==
    /\ Unknown \notin {s, t}
    /\ Emission(v, s) - Emission(v, t) >= 180
    /\ Emission(w, t) - Emission(w, s) >= 180
    /\ LongestTurn(v, s) >= MinClearTurn /\ LongestTurn(w, t) >= MinClearTurn

\* _transition_penalty
Penalty(v, w, s, t) ==
    IF s = t THEN 0
    ELSE IF w.start - v.end >= SilenceSwitch THEN (SwitchPenalty * 15) \div 100
    ELSE IF ClearSwitch(v, w, s, t) THEN SwitchPenalty \div 5
    ELSE SwitchPenalty

----------------------------------------------------------------------------
(* _assign_word_speaker_sequence. *)

\* The best by score, then by name.
Best(score) ==
    CHOOSE s \in DOMAIN score : \A t \in DOMAIN score :
        score[s] > score[t] \/ (score[s] = score[t] /\ ~After(t, s))

\* Mutant: the penalty is left out when the way back is chosen.
WayBack(v, w, t) == Best(scores)

\* The state before t on the best way to it.
Previous(v, w, t) == Best([s \in States |-> scores[s] - Penalty(v, w, s, t)])

\* What a sequence of speakers is worth.
Worth(words, way) ==
    LET sum[i \in 0..Len(words)] ==
          IF i = 0 THEN 0
          ELSE sum[i - 1] + Emission(words[i], way[i])
               - IF i = 1 THEN 0 ELSE Penalty(words[i - 1], words[i], way[i - 1], way[i])
    IN sum[Len(words)]

----------------------------------------------------------------------------
(* The speakers of one segment, before it is split. *)

\* _recover_supported_trailing_response: the tail of a long segment goes to another's short turn.
Recovered(words, who) ==
    LET n == Len(words)
        answers == {t \in Turns :
            /\ t.speaker # who[n] /\ t.end - t.start \in 4..30
            /\ Overlap(words[n], t) > 0 /\ t.start - words[1].start >= 40}
        turn == CHOOSE t \in answers : \A u \in answers :
            \/ Overlap(words[n], t) > Overlap(words[n], u)
            \/ (Overlap(words[n], t) = Overlap(words[n], u) /\ t.start >= u.start)
        Answers(i) == Overlap(words[i], turn) > Support(words[i], who[n]) + 3
        first == Min({k \in 1..(n + 1) : \A i \in k..n : Answers(i)})
    IN IF n < 2 \/ answers = {} \/ first = 1 THEN who
       ELSE [i \in 1..n |-> IF i >= first THEN turn.speaker ELSE who[i]]

\* _snap_segment_speaker_boundaries: each change moves to the nearest boundary of a morpheme, a
\* boundary of a phrase being preferred; both come from the analyser, and count between words.
Nearest(at, offsets, n) ==
    LET near == {o \in offsets \cap 0..n : o - at \in -SnapCharacters..SnapCharacters}
    IN IF near = {} THEN at
       ELSE CHOOSE o \in near : \A x \in near :
              LET d == IF o > at THEN o - at ELSE at - o
                  e == IF x > at THEN x - at ELSE at - x
              IN d < e \/ (d = e /\ o <= x)

Snapped(words, who, morphemes, phrases) ==
    LET Changes == {i \in 2..Len(words) : who[i - 1] # who[i]}
        Move(w, i) ==
          LET at == i - 1
              phrase == Nearest(at, phrases, Len(words))
              target == IF phrase # at THEN phrase ELSE Nearest(at, morphemes, Len(words))
          IN IF w[i - 1] = w[i] \/ words[i].start - words[i - 1].end >= SnapGap THEN w
             ELSE [k \in 1..Len(w) |->
                     IF k \in (target + 1)..(i - 1) THEN w[i]
                     ELSE IF k \in i..target THEN w[i - 1] ELSE w[k]]
    IN FoldLeft(Move, who, SetToSortSeq(Changes, <))

\* _protect_identical_timestamp_groups: the words of one interval go to their majority, a tie to
\* the first of them.
SameInterval(v, w) == v.start = w.start /\ v.end = w.end

Protected(words, who) ==
    LET Group(i) == {k \in 1..Len(words) :
              \A j \in Smaller(i, k)..Larger(i, k) : SameInterval(words[i], words[j])}
        Votes(i, s) == Cardinality({k \in Group(i) : who[k] = s})
        Majority(i) ==
          LET S == {who[k] : k \in Group(i)}
              first == who[Min(Group(i))]
              top == {s \in S : \A t \in S : Votes(i, s) >= Votes(i, t)}
          IN IF first \in top THEN first ELSE CHOOSE s \in top : TRUE
    IN [i \in 1..Len(words) |-> Majority(i)]

----------------------------------------------------------------------------
(* Segments. *)

WordSegment(words, speaker) ==
    [start |-> Min({words[i].start : i \in 1..Len(words)}),
     end |-> Max({words[i].end : i \in 1..Len(words)}),
     text |-> [i \in 1..Len(words) |-> words[i].text],
     words |-> words, speaker |-> speaker, confidence |-> "high"]

\* _split_segment_by_speaker
Split(words, who) ==
    LET starts == {i \in 1..Len(words) : i = 1 \/ who[i - 1] # who[i]}
        order == SetToSortSeq(starts, <)
        Ends(k) == IF k = Len(order) THEN Len(words) ELSE order[k + 1] - 1
    IN [k \in 1..Len(order) |-> WordSegment(SubSeq(words, order[k], Ends(k)), who[order[k]])]

\* _dominant_observed_speaker, for a segment some of whose timings were removed.
Dominant(words, who) ==
    LET heard(s) == FoldLeft(LAMBDA sum, i : IF who[i] = s THEN sum + words[i].end - words[i].start
                                             ELSE sum, 0, [i \in 1..Len(words) |-> i])
    IN Best([s \in {who[i] : i \in 1..Len(words)} |-> heard(s)])

\* assign_word_speaker, for a segment without words: the turn over its centre, else the greatest
\* overlap, the earlier turn first.
Isolated(x) ==
    LET over == {i \in 1..Len(turns) : 2 * turns[i].start <= x.start + x.end
                                       /\ x.start + x.end < 2 * turns[i].end}
        most == {i \in 1..Len(turns) : /\ Overlap(x, turns[i]) > 0
                                       /\ \A k \in 1..Len(turns) :
                                            Overlap(x, turns[k]) <= Overlap(x, turns[i])}
    IN IF over # {} THEN turns[Min(over)].speaker
       ELSE IF most # {} THEN turns[Min(most)].speaker ELSE Unknown

\* _fallback_segment_bounds: the envelope of the speech in it, else what its text may take.
Bounded(x) ==
    LET heard == {t \in Turns : Overlap(x, t) > 0}
        allowed == Larger(20, 5 * Len(x.text) + 20)
    IN IF heard # {}
         THEN [x EXCEPT !.start = Larger(@, Min({t.start : t \in heard})),
                        !.end = Smaller(@, Max({t.end : t \in heard}))]
         ELSE [x EXCEPT !.end = Smaller(@, x.start + allowed)]

\* _combine_segments
Combine(a, b, speaker) ==
    [start |-> Smaller(a.start, b.start), end |-> Larger(a.end, b.end),
     text |-> a.text \o b.text, words |-> a.words \o b.words, speaker |-> speaker,
     confidence |-> IF "low" \in {a.confidence, b.confidence} THEN "low" ELSE "high"]

----------------------------------------------------------------------------
(* The passes over the split segments. *)

Length(x) == x.end - x.start
Named(x) == x.speaker # Unknown

\* The longer of the named neighbours, the one before on a tie; 0: none.
Neighbour(segs, i) ==
    LET near == {k \in {i - 1, i + 1} : k \in 1..Len(segs) /\ Named(segs[k])}
    IN IF near = {} THEN 0
       ELSE CHOOSE k \in near : \A j \in near :
              Length(segs[k]) > Length(segs[j]) \/ (Length(segs[k]) = Length(segs[j]) /\ k <= j)

\* _absorb_short_unknown_segments, from the left: what was named counts for the next one.
NameUnknown(segs, i) ==
    IF \/ Named(segs[i])
       \/ Length(segs[i]) >= MinUnknown /\ Len(segs[i].text) >= MinUnknownCharacters
       \/ Neighbour(segs, i) = 0
      THEN segs
      ELSE [segs EXCEPT ![i].speaker = segs[Neighbour(segs, i)].speaker]

\* _absorb_unsupported_fragments: a fragment its speaker is not heard in joins a neighbour.
IsFragment(x) ==
    /\ Named(x) /\ Length(x) < MaxFragment /\ Len(x.text) <= MaxFragmentCharacters
    /\ Support(x, x.speaker) < MinSupport

Absorb(segs, i) ==
    LET k == Neighbour(segs, i)
        joined == IF k < i THEN Combine(segs[k], segs[i], segs[k].speaker)
                  ELSE Combine(segs[i], segs[k], segs[k].speaker)
    IN RemoveAt([segs EXCEPT ![k] = joined], i)

\* _reassess_sandwiched_fragments, from the left.
Reassess(segs, i) ==
    LET l == segs[i - 1]  x == segs[i]  r == segs[i + 1]
        inner == Support(x, x.speaker)
    IN IF /\ l.speaker = r.speaker /\ x.speaker \notin {Unknown, l.speaker}
          /\ Length(x) <= 40 /\ x.start - l.end < 1 /\ r.start - x.end < 1
          /\ Support(x, l.speaker) >= inner + 3 /\ 4 * inner < Length(x)
         THEN [segs EXCEPT ![i].speaker = l.speaker] ELSE segs

\* _merge_adjacent_same_speaker
MergeNext(merged, x) ==
    LET last == merged[Len(merged)] IN
    IF /\ merged # <<>> /\ last.speaker = x.speaker
       /\ last.words # <<>> /\ x.words # <<>>
       /\ last.confidence = "high" /\ x.confidence = "high"
       /\ x.start - last.end <= MergeGap
      THEN Append(Front(merged), Combine(last, x, x.speaker))
      ELSE Append(merged, x)

\* _renumber_in_appearance_order
Renumbered(segs) ==
    LET first(s) == Min({i \in 1..Len(segs) : segs[i].speaker = s})
        rank(s) == Cardinality({t \in {segs[i].speaker : i \in 1..Len(segs)} \ {Unknown} :
                                  first(t) < first(s)})
    IN [i \in 1..Len(segs) |->
          IF Named(segs[i]) THEN [segs[i] EXCEPT !.speaker = ToString(rank(@))] ELSE segs[i]]

----------------------------------------------------------------------------
At(s) == stage = s
Then(s) == stage' = s /\ UNCHANGED <<source, turns>>

\* The loop over the words: the best score of each state, and where it came from.
Forward ==
    LET n == Len(pointers) + 1 IN
    /\ At("assign") /\ Known # {} /\ n <= Len(Words) /\ Then("assign")
    /\ LET from == [t \in States |-> IF n = 1 THEN t ELSE Previous(Words[n - 1], Words[n], t)]
       IN /\ pointers' = Append(pointers, from)
          /\ scores' = [t \in States |->
               Emission(Words[n], t)
               + IF n = 1 THEN 0
                 ELSE scores[from[t]] - Penalty(Words[n - 1], Words[n], from[t], t)]
    /\ UNCHANGED <<speakers, segments>>

\* The way back from the best last state; without turns nobody is known.
Backward ==
    LET n == Len(Words)
        way[i \in 1..n] == IF i = n THEN Best(scores) ELSE pointers[i + 1][way[i + 1]]
    IN
    /\ At("assign") /\ (Known = {} \/ Len(pointers) = n) /\ Then("split")
    /\ speakers' = [i \in 1..n |-> IF Known = {} THEN Unknown ELSE way[i]]
    /\ scores' = <<>> /\ pointers' = <<>>
    /\ UNCHANGED segments

\* Where the words of source[i] are among all words.
Offset(i) == FoldLeft(LAMBDA sum, x : sum + Len(x.words), 0, SubSeq(source, 1, i - 1))

\* The speakers of a segment, as it is split.
Settled(words, who, morphemes, phrases) ==
    Protected(words, Snapped(words, Recovered(words, who), morphemes, phrases))

SplitOne(i, morphemes, phrases) ==
    LET x == source[i]
        who == SubSeq(speakers, Offset(i) + 1, Offset(i) + Len(x.words))
    IN IF x.words = <<>> THEN <<[Bounded(x) EXCEPT !.speaker = Isolated(x), !.confidence = "low"]>>
       ELSE IF x.confidence = "low" THEN <<[x EXCEPT !.speaker = Dominant(x.words, who)]>>
       ELSE Split(x.words, Settled(x.words, who, morphemes, phrases))

SplitSegments ==
    /\ At("split") /\ Then("unknown")
    /\ \E morphemes, phrases \in Boundaries :
         segments' = FlattenSeq([i \in 1..Len(source) |-> SplitOne(i, morphemes, phrases)])
    /\ UNCHANGED <<scores, pointers, speakers>>

AbsorbUnknown ==
    /\ At("unknown") /\ Then("fragments")
    /\ segments' = FoldLeft(NameUnknown, segments, [i \in 1..Len(segments) |-> i])
    /\ UNCHANGED <<scores, pointers, speakers>>

\* The leftmost fragment first; after one was absorbed its neighbour is looked at again.
AbsorbFragment ==
    LET fragments == {i \in 1..Len(segments) :
                        IsFragment(segments[i]) /\ Neighbour(segments, i) # 0}
    IN /\ At("fragments")
       /\ IF fragments = {}
            THEN Then("reassess") /\ UNCHANGED segments
            ELSE Then("fragments") /\ segments' = Absorb(segments, Min(fragments))
       /\ UNCHANGED <<scores, pointers, speakers>>

ReassessFragments ==
    /\ At("reassess") /\ Then("merge")
    /\ segments' = FoldLeft(Reassess, segments, [i \in 1..(Len(segments) - 2) |-> i + 1])
    /\ UNCHANGED <<scores, pointers, speakers>>

Merge ==
    /\ At("merge") /\ Then("renumber")
    /\ segments' = FoldLeft(MergeNext, <<>>, segments)
    /\ UNCHANGED <<scores, pointers, speakers>>

Renumber ==
    /\ At("renumber") /\ Then("done")
    /\ segments' = Renumbered(segments)
    /\ UNCHANGED <<scores, pointers, speakers>>

Init ==
    /\ stage = "assign"
    /\ source \in Transcripts /\ turns \in Diarizations
    /\ scores = <<>> /\ pointers = <<>> /\ speakers = <<>> /\ segments = <<>>

Next == Forward \/ Backward \/ SplitSegments \/ AbsorbUnknown \/ AbsorbFragment \/ ReassessFragments
        \/ Merge \/ Renumber

Spec == Init /\ [][Next]_vars

----------------------------------------------------------------------------
\* The dynamic programme finds what it looks for: no other sequence of speakers is worth more
\* (_assign_word_speaker_sequence).
BestSequence ==
    At("split") => \A way \in [1..Len(Words) -> States] :
                     Worth(Words, way) <= Worth(Words, speakers)

\* The text a segment comes with: one that is split by its words has theirs, and what the
\* recogniser wrote between them (a word it gave no duration, a space) stays behind.
Spelled(x) ==
    IF x.words = <<>> \/ x.confidence = "low" THEN x.text
    ELSE [i \in 1..Len(x.words) |-> x.words[i].text]

\* Whatever is split, absorbed, renamed and merged: every word that was handed over is there
\* once and in its order, as is the text of every segment, which is what its words spell if it
\* was split by them; and a segment spans the words it holds, though a word may end after the
\* one that follows it.
NothingIsLost ==
    ~At("assign") /\ ~At("split") =>
      /\ FlattenSeq([i \in 1..Len(segments) |-> segments[i].text])
           = FlattenSeq([i \in 1..Len(source) |-> Spelled(source[i])])
      /\ FlattenSeq([i \in 1..Len(segments) |-> segments[i].words]) = Words
      /\ \A i \in 1..Len(segments) : \A k \in 1..Len(segments[i].words) :
           /\ segments[i].start <= segments[i].words[k].start
           /\ segments[i].words[k].end <= segments[i].end

\* Neighbouring words of one segment that share an interval end in one segment: nothing tells
\* where between them a speaker would change.
GroupsStayWhole ==
    ~At("assign") /\ ~At("split") =>
      \A i \in 1..Len(source) : \A k \in 2..Len(source[i].words) :
        SameInterval(source[i].words[k - 1], source[i].words[k]) =>
          \E x \in 1..Len(segments) :
            {source[i].words[k - 1], source[i].words[k]}
              \subseteq {segments[x].words[n] : n \in 1..Len(segments[x].words)}
=============================================================================
