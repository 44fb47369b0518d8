------------------------------ MODULE Streams ------------------------------
(***************************************************************************)
(* jupyter/src/streams.rs: Capture, which looks for the marker that ends   *)
(* an operation's output in whatever pieces the bytes arrive, and Text,    *)
(* which decodes UTF-8 over the pieces in which they are published, with   *)
(* the loop of Worker::operation that moves bytes from one to the other.   *)
(*                                                                         *)
(* The bytes are classes of bytes: "a" is ASCII, "L" and "T" begin         *)
(* characters of two and of three bytes, "k" continues one.  Stray "k"s    *)
(* stand for every byte that cannot begin a character.                     *)
(***************************************************************************)
EXTENDS Naturals, Sequences, SequencesExt

CONSTANTS
    Byte,       \* classes of bytes
    Mark,       \* the marker
    Limit,      \* CAP
    Chunk,      \* CHUNK
    MaxRead,    \* most bytes in one read
    MaxFed      \* most bytes in all

ASSUME StreamsAssumption ==
    /\ Byte \subseteq {"a", "L", "T", "k"}
    /\ Mark \in Seq(Byte) /\ Mark # << >>
    /\ Limit \in Nat /\ Chunk \in Nat \ {0} /\ MaxRead \in Nat /\ MaxFed \in Nat

VARIABLES
    heldBack,      \* Capture.pending
    data,         \* Capture.data
    sent,         \* Capture.sent
    discarded,    \* Capture.discarded
    streamEnded,  \* Capture.ended
    partial,      \* Text.pending
    replaced,     \* Text.replaced
    over,         \* the ended of operation() for this stream
    text,         \* what the sink got
    fed,          \* history: every byte read
    tail          \* history: every byte handed to the late output

captureVars == <<heldBack, data, discarded, streamEnded, fed, tail>>
textVars == <<sent, partial, replaced, over, text>>
streamVars == <<captureVars, textVars>>

Read == UNION {[1 .. n -> Byte] : n \in 1 .. MaxRead}

StreamTypeOK ==
    /\ heldBack \in Seq(Byte) /\ Len(heldBack) < Len(Mark)
    /\ data \in Seq(Byte) /\ Len(data) <= Limit
    /\ sent \in 0 .. Len(data)
    /\ discarded \in Nat
    /\ streamEnded \in BOOLEAN /\ replaced \in BOOLEAN /\ over \in BOOLEAN
    /\ partial \in Seq(Byte) /\ Len(partial) <= 3
    /\ text \in Seq({"a", "L", "T", "?"})
    /\ fed \in Seq(Byte) /\ tail \in Seq(Byte)

StreamInit ==
    /\ heldBack = << >> /\ data = << >> /\ sent = 0 /\ discarded = 0 /\ streamEnded = FALSE
    /\ partial = << >> /\ replaced = FALSE /\ over = FALSE /\ text = << >>
    /\ fed = << >> /\ tail = << >>

----------------------------------------------------------------------------
(* Capture *)

\* windows().position(): where the marker begins, 0 if nowhere.
Position(bytes) ==
    LET at == {i \in 1 .. Len(bytes) : i + Len(Mark) - 1 <= Len(bytes)
                                       /\ SubSeq(bytes, i, i + Len(Mark) - 1) = Mark}
    IN  IF at = {} THEN 0 ELSE CHOOSE i \in at : \A j \in at : i <= j

\* Mutant of Suffix: only a whole marker in one read is recognised.
SuffixNone(bytes) == 0

\* How many of the last bytes may begin the marker.
Suffix(bytes) ==
    CHOOSE n \in 0 .. Len(Mark) - 1 :
        /\ IsSuffix(SubSeq(Mark, 1, n), bytes)
        /\ \A m \in n + 1 .. Len(Mark) - 1 : ~IsSuffix(SubSeq(Mark, 1, m), bytes)

\* Capture::keep
StreamKeep(bytes) ==
    LET room == Limit - Len(data)
        n == IF Len(bytes) < room THEN Len(bytes) ELSE room
    IN  /\ data' = data \o SubSeq(bytes, 1, n)
        /\ discarded' = discarded + (Len(bytes) - n)

\* Capture::feed; what it returns goes to the late output.
Feed(bytes) ==
    LET all == heldBack \o bytes
        at == Position(all)
        held == Suffix(all)
    IN  /\ Len(fed) + Len(bytes) <= MaxFed
        /\ fed' = fed \o bytes
        /\ IF streamEnded
           THEN /\ tail' = tail \o bytes
                /\ UNCHANGED <<heldBack, data, discarded, streamEnded>>
           ELSE IF at # 0
           THEN /\ StreamKeep(SubSeq(all, 1, at - 1))
                /\ heldBack' = << >>
                /\ streamEnded' = TRUE
                /\ tail' = SubSeq(all, at + Len(Mark), Len(all))
           ELSE /\ StreamKeep(SubSeq(all, 1, Len(all) - held))
                /\ heldBack' = SubSeq(all, Len(all) - held + 1, Len(all))
                /\ UNCHANGED <<streamEnded, tail>>
        /\ UNCHANGED textVars

----------------------------------------------------------------------------
(* Text *)

Length(b) == CASE b = "L" -> 2 [] b = "T" -> 3 [] OTHER -> 1

\* How many of the bytes after the i-th continue its character.
Continued(bytes, i) ==
    LET fits(n) == i + n <= Len(bytes) /\ \A j \in i + 1 .. i + n : bytes[j] = "k"
    IN  CHOOSE n \in 0 .. Length(bytes[i]) - 1 :
            fits(n) /\ \A m \in n + 1 .. Length(bytes[i]) - 1 : ~fits(m)

\* The loop over str::from_utf8: characters, U+FFFD for a maximal invalid part, and
\* an incomplete last character that stays unless this is the end.
Scan(bytes, end) ==
    LET Then(symbols, bad, r) ==
            [text |-> symbols \o r.text, rest |-> r.rest, replaced |-> r.replaced \/ bad]
        f[i \in 1 .. Len(bytes) + 1] ==
            IF i > Len(bytes) THEN [text |-> << >>, rest |-> << >>, replaced |-> FALSE]
            ELSE LET n == Continued(bytes, i)
                     whole == bytes[i] # "k" /\ n = Length(bytes[i]) - 1
                 IN  IF whole THEN Then(<<bytes[i]>>, FALSE, f[i + n + 1])
                     ELSE IF i + n < Len(bytes) \/ bytes[i] = "k"
                     THEN Then(<<"?">>, TRUE, f[i + n + 1])
                     ELSE IF end THEN [text |-> <<"?">>, rest |-> << >>, replaced |-> TRUE]
                     ELSE [text |-> << >>, rest |-> SubSeq(bytes, i, Len(bytes)), replaced |-> FALSE]
    IN  f[1]

\* Text::decode
Decode(bytes, end) ==
    LET r == Scan(partial \o bytes, end)
    IN  text' = text \o r.text /\ partial' = r.rest /\ replaced' = (replaced \/ r.replaced)

\* Capture::retained_finished: nothing more will be kept, and all of it is taken.
Finished(to) == (Len(data) = Limit \/ streamEnded) /\ to = Len(data)

\* One turn of the loop in Worker::operation: Capture::take and Text::decode.
StreamPublish ==
    LET to == IF sent + Chunk < Len(data) THEN sent + Chunk ELSE Len(data)
        bytes == SubSeq(data, sent + 1, to)
    IN  /\ ~over
        /\ bytes # << >> \/ streamEnded
        /\ sent' = to
        /\ Decode(bytes, Finished(to))
        /\ over' = (streamEnded /\ bytes = << >>)
        /\ UNCHANGED captureVars

StreamNext == StreamPublish \/ \E bytes \in Read : Feed(bytes)

StreamSpec == StreamInit /\ [][StreamNext]_streamVars

----------------------------------------------------------------------------
(* Properties, against the whole input at once *)

Kept(n) == SubSeq(fed, 1, IF n < Limit THEN n ELSE Limit)

\* Capture::feed finds the first marker of the whole input, wherever the reads were
\* cut; what is before it is kept up to the limit and counted beyond it, and what is
\* after it, exactly, is late output.
BarrierExact ==
    LET at == Position(fed)
    IN  /\ streamEnded = (at # 0)
        /\ streamEnded => /\ data = Kept(at - 1)
                          /\ Len(data) + discarded = at - 1
                          /\ tail = SubSeq(fed, at + Len(Mark), Len(fed))
        /\ ~streamEnded => /\ data = Kept(Len(fed) - Len(heldBack))
                           /\ Len(data) + discarded + Len(heldBack) = Len(fed)
                           /\ tail = << >>

\* "Keeping an arbitrary marker-sized tail would hide a short newline-terminated
\* progress message": what is held back may really begin the marker.
HeldBackOnlyForMark == ~streamEnded => /\ IsPrefix(heldBack, Mark)
                                       /\ IsSuffix(heldBack, fed)

\* Text::decode: the text that was published is that of the kept bytes decoded at
\* once, whatever the pieces, and a last incomplete character is flushed at the
\* marker and at the limit.
TextExact ==
    \E end \in BOOLEAN :
        LET r == Scan(SubSeq(data, 1, sent), end)
        IN  /\ end => Finished(sent)
            /\ over \/ sent = Limit => end
            /\ text = r.text /\ partial = r.rest /\ replaced = r.replaced

\* Capture and Text: marker, limit and decoding give what they would give on the whole input.
OutputExact == StreamTypeOK /\ BarrierExact /\ HeldBackOnlyForMark /\ TextExact

=============================================================================
