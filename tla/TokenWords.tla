----------------------------- MODULE TokenWords -----------------------------
(***************************************************************************)
(* Words out of whisper.cpp's tokens (utteran/asr/whisper_cpp_words.py and *)
(* _convert_result of whisper_cpp.py).  A token is a piece of UTF-8, so a  *)
(* character may be spread over tokens; token times are absolute, or       *)
(* relative to the segment, or nonsense, or come from DTW; a word that is  *)
(* implausibly long costs its segment the words' times.                    *)
(*                                                                         *)
(* Text is a sequence of bytes: " ", "a" (a letter), "." (punctuation) and *)
(* "k1", "k2", the two bytes of one CJK character "K".  Times are whole.   *)
(***************************************************************************)
EXTENDS Integers, Sequences, SequencesExt

CONSTANTS
    Outputs,          \* transcriptions: sequences of raw segments
    RequestedWords,   \* whether words may be asked for
    MaxWord,          \* longest plausible word
    RepetitionLimit

VARIABLES
    raw,        \* segments to convert; the first one is being converted
    requested,
    stage,      \* "segment", "decode", "join", "convert" or "done"
    tokens,     \* ordinary tokens of the segment still to be decoded
    pending,    \* tokens whose bytes do not end on a character yet
    pieces,     \* decoded pieces still to be joined
    words, current,             \* finished words, and the one being joined
    segments, previous, repeats, \* the result, the last text and its repetitions
    dtwFound

vars == <<raw, requested, stage, tokens, pending, pieces, words, current,
          segments, previous, repeats, dtwFound>>

Absent == -1        \* an offset that is not there, or no DTW time

Segment == Head(raw)
Inside(t) == Segment.from <= t /\ t <= Segment.to
Clip(t) == IF t < Segment.from THEN Segment.from ELSE IF t > Segment.to THEN Segment.to ELSE t
Larger(a, b) == IF a >= b THEN a ELSE b

(***************************************************************************)
(* Bytes.                                                                  *)
(***************************************************************************)
Bytes(ts) == FlattenSeq([i \in DOMAIN ts |-> ts[i].text])

Misplaced(bytes, i) ==
    \/ bytes[i] = "k2" /\ (i = 1 \/ bytes[i - 1] # "k1")
    \/ bytes[i] = "k1" /\ i < Len(bytes) /\ bytes[i + 1] # "k2"

Unfinished(bytes) ==
    /\ bytes # <<>> /\ Last(bytes) = "k1"
    /\ \A i \in DOMAIN bytes : ~Misplaced(bytes, i)

\* What cannot be decoded becomes a replacement character.
Decoded(bytes) ==
    LET Char(i) == IF bytes[i] = "k1" /\ i < Len(bytes) /\ ~Misplaced(bytes, i) THEN <<"K">>
                   ELSE IF bytes[i] = "k2" /\ ~Misplaced(bytes, i) THEN <<>>
                   ELSE IF bytes[i] \in {"k1", "k2"} THEN <<"?">> ELSE <<bytes[i]>>
    IN FlattenSeq([i \in DOMAIN bytes |-> Char(i)])

(***************************************************************************)
(* Times.                                                                  *)
(***************************************************************************)
\* _absolute_or_relative, Absent when the offset is neither.
Resolved(value) ==
    IF value = Absent THEN Absent
    ELSE IF Inside(value) THEN value
    ELSE IF value <= Segment.to - Segment.from THEN Segment.from + value
    ELSE Absent

OffsetTime(token, edge) ==
    IF Resolved(token[edge]) # Absent THEN Resolved(token[edge])
    ELSE IF token[edge] # Absent THEN token[edge]
    ELSE Segment[edge]

TokenTime(token, edge) ==
    IF Resolved(token[edge]) # Absent THEN Resolved(token[edge])
    ELSE IF token.dtw # Absent /\ Inside(token.dtw) THEN token.dtw
    ELSE OffsetTime(token, edge)

\* A piece starts with its first token and ends where the next token starts, when that
\* is later; its times are clipped to the segment.
Piece(text, ts, next) ==
    LET start == TokenTime(ts[1], "from")
        own   == OffsetTime(Last(ts), "to")
        upTo  == IF next = <<>> THEN own ELSE TokenTime(next[1], "from")
        end   == IF upTo > start THEN upTo
                 ELSE IF own > start \/ next = <<>> THEN own
                 ELSE OffsetTime(next[1], "from")
    IN [text |-> text, start |-> Clip(start), end |-> Clip(Larger(end, Clip(start)))]

(***************************************************************************)
(* One segment after the other.                                            *)
(***************************************************************************)
Init ==
    /\ raw \in Outputs /\ requested \in RequestedWords
    /\ stage = "segment"
    /\ tokens = <<>> /\ pending = <<>> /\ pieces = <<>> /\ words = <<>> /\ current = <<>>
    /\ segments = <<>> /\ previous = "" /\ repeats = 0 /\ dtwFound = FALSE

Ordinary(ts) == SelectSeq(ts, LAMBDA t : ~t.special)

\* A segment without duration is discarded before anything else.
Begin ==
    /\ stage = "segment" /\ raw # <<>>
    /\ IF Segment.to <= Segment.from
       THEN /\ raw' = Tail(raw)
            /\ UNCHANGED <<stage, tokens, dtwFound>>
       ELSE /\ tokens' = IF requested THEN Ordinary(Segment.tokens) ELSE <<>>
            /\ stage' = IF requested THEN "decode" ELSE "convert"
            /\ dtwFound' = (dtwFound \/ \E i \in DOMAIN Ordinary(Segment.tokens) :
                                Ordinary(Segment.tokens)[i].dtw # Absent)
            /\ UNCHANGED raw
    /\ UNCHANGED <<requested, pending, pieces, words, current, segments, previous, repeats>>

Waits(bytes) == Unfinished(bytes)

Decode ==
    /\ stage = "decode" /\ tokens # <<>>
    /\ LET ts == Append(pending, Head(tokens)) IN
       IF Waits(Bytes(ts))
       THEN pending' = ts /\ UNCHANGED pieces
       ELSE /\ pending' = <<>>
            /\ pieces' = Append(pieces, Piece(Decoded(Bytes(ts)), ts, Tail(tokens)))
    /\ tokens' = Tail(tokens)
    /\ UNCHANGED <<raw, requested, stage, words, current, segments, previous, repeats, dtwFound>>

\* What is left of an unfinished character is kept as a piece.
EndDecode ==
    /\ stage = "decode" /\ tokens = <<>>
    /\ pieces' = IF pending = <<>> THEN pieces
                 ELSE Append(pieces, Piece(Decoded(Bytes(pending)), pending, <<>>))
    /\ pending' = <<>>
    /\ stage' = "join"
    /\ UNCHANGED <<raw, requested, tokens, words, current, segments, previous, repeats, dtwFound>>

LeftStripped(text) ==
    LET ink == {i \in DOMAIN text : text[i] # " "}
    IN IF ink = {} THEN <<>>
       ELSE SubSeq(text, CHOOSE i \in ink : \A j \in ink : i <= j, Len(text))

(***************************************************************************)
(* Joining: a space starts a word, a CJK character is one, punctuation     *)
(* belongs to what is before it.                                           *)
(***************************************************************************)
Flushed(j) ==
    IF j.current = <<>> THEN j
    ELSE [words |-> Append(j.words, [start |-> j.current[1].start, end |-> Last(j.current).end,
                                     text |-> [i \in DOMAIN j.current |-> j.current[i].text]]),
          current |-> <<>>]

JoinCharacter(j, c) ==
    IF c.text = "K" THEN Flushed([Flushed(j) EXCEPT !.current = <<c>>])
    ELSE IF c.text = "." /\ j.words # <<>> /\ j.current = <<>>
    THEN [j EXCEPT !.words[Len(j.words)].end = Larger(@, c.end),
                   !.words[Len(j.words)].text = Append(@, c.text)]
    ELSE [j EXCEPT !.current = Append(@, c)]

Join ==
    /\ stage = "join" /\ pieces # <<>>
    /\ LET piece == Head(pieces)
           text  == LeftStripped(piece.text)
           open  == [words |-> words, current |-> current]
           begun == IF text # <<>> /\ piece.text[1] = " " THEN Flushed(open) ELSE open
           char(i) == [text |-> text[i], start |-> piece.start, end |-> piece.end]
           joined == FoldLeft(JoinCharacter, begun, [i \in DOMAIN text |-> char(i)])
       IN words' = joined.words /\ current' = joined.current
    /\ pieces' = Tail(pieces)
    /\ UNCHANGED <<raw, requested, stage, tokens, pending, segments, previous, repeats, dtwFound>>

EndJoin ==
    /\ stage = "join" /\ pieces = <<>>
    /\ words' = Flushed([words |-> words, current |-> current]).words
    /\ current' = <<>>
    /\ stage' = "convert"
    /\ UNCHANGED <<raw, requested, tokens, pending, pieces, segments, previous, repeats, dtwFound>>

Starts(ws) == {ws[i].start : i \in DOMAIN ws}
Ends(ws)   == {ws[i].end : i \in DOMAIN ws}
Least(S)    == CHOOSE x \in S : \A y \in S : x <= y
Greatest(S) == CHOOSE x \in S : \A y \in S : x >= y

Plausible(w) == w.end - w.start <= MaxWord

\* _has_invalid_word_timing: a word too long, or words that leave most of the segment bare.
InvalidTiming(ws) ==
    \/ \E i \in DOMAIN ws : ~Plausible(ws[i])
    \/ Least(Starts(ws)) - Segment.from > MaxWord
    \/ Segment.to - Greatest(Ends(ws)) > MaxWord

\* _convert_result for one segment: the text is kept, and of the words those whose times
\* can be believed; a text repeated too often is dropped.
Convert ==
    /\ stage = "convert"
    /\ LET invalid == words # <<>> /\ InvalidTiming(words)
           valid   == SelectSeq(words, Plausible)
           believed == IF invalid THEN valid ELSE words
           moved   == invalid /\ valid # <<>>
           count   == IF Segment.text # "" /\ Segment.text = previous THEN repeats + 1 ELSE 1
           result  == [start |-> IF moved THEN Least(Starts(valid)) ELSE Segment.from,
                       end   |-> IF moved THEN Greatest(Ends(valid)) ELSE Segment.to,
                       text  |-> Segment.text,
                       words |-> SelectSeq(believed, LAMBDA w : w.end > w.start),
                       sure  |-> ~(moved /\ Len(valid) < Len(words))]
           repeated == RepetitionLimit > 0 /\ Segment.text # "" /\ count > RepetitionLimit
       IN /\ previous' = Segment.text
          /\ repeats' = count
          /\ segments' = IF repeated THEN segments ELSE Append(segments, result)
    /\ raw' = Tail(raw)
    /\ words' = <<>>
    /\ stage' = "segment"
    /\ UNCHANGED <<requested, tokens, pending, pieces, current, dtwFound>>

\* Without a single DTW time the words are kept, but not believed.
Finish ==
    /\ stage = "segment" /\ raw = <<>>
    /\ segments' = [i \in DOMAIN segments |->
           IF requested /\ ~dtwFound /\ segments[i].words # <<>>
           THEN [segments[i] EXCEPT !.sure = FALSE] ELSE segments[i]]
    /\ stage' = "done"
    /\ UNCHANGED <<raw, requested, tokens, pending, pieces, words, current, previous, repeats,
                   dtwFound>>

Next == Begin \/ Decode \/ EndDecode \/ Join \/ EndJoin \/ Convert \/ Finish

Spec == Init /\ [][Next]_vars

(***************************************************************************)
(* Properties.                                                             *)
(***************************************************************************)
Ink(text) == SelectSeq(text, LAMBDA c : c # " ")

\* However the bytes of a character are spread over tokens, the words of a segment spell
\* its ordinary tokens, every character once and in order, when these are UTF-8 at all.
TextIsWhole ==
    LET bytes == Bytes(Ordinary(Segment.tokens)) IN
    stage = "convert" /\ requested /\ (\A i \in DOMAIN bytes : ~Misplaced(bytes, i)) =>
        Ink(FlattenSeq([i \in DOMAIN words |-> words[i].text])) = Ink(Decoded(bytes))

\* Whatever the token times are, a word that reaches the result has a duration and lies
\* in the segment whisper.cpp reported, which the aligner relies on to find its speaker.
WordsStayInside ==
    /\ stage \in {"join", "convert"} =>
        \A i \in DOMAIN words : Inside(words[i].start) /\ Inside(words[i].end)
    /\ \A n \in DOMAIN segments : \A i \in DOMAIN segments[n].words :
        LET w == segments[n].words[i] IN
        segments[n].start <= w.start /\ w.start < w.end /\ w.end <= segments[n].end
=============================================================================
