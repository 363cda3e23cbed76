------------------------------- MODULE Speech -------------------------------
(***************************************************************************)
(* SpeechSegmenter: cuts the streamed text of a reply into sentences, each *)
(* with the expression its last marker chose.  The text arrives in pieces  *)
(* cut anywhere, inside a marker or a character too; the conversation      *)
(* takes every finished sentence after each piece.                         *)
(*                                                                         *)
(* A byte is a one-letter string: "h", "z" are lower-case letters, the     *)
(* only ones a marker's name may have; a character outside ASCII is a lead *)
(* byte "L" and two continuations, and LONG_STOP is one that ends a        *)
(* sentence.                                                               *)
(***************************************************************************)
EXTENDS Integers, Sequences
LOCAL INSTANCE SequencesExt

CONSTANTS
  Texts,        \* the texts that may arrive, as sequences of bytes
  MaxBytes,     \* the longest sentence, max_segment_bytes
  MaxMarker,    \* '[' and the longest name, kMaxMarkerBytes
  QueueBytes,   \* the buffer of finished sentences
  MaxPiece      \* bound: the longest piece fed at once

VARIABLES
  text, fed,    \* what arrives, and how many bytes of it have
  segmenter,
  flushed       \* the stream has ended

speechVars == <<text, fed, segmenter, flushed>>

Neutral     == "n"
Expressions == {"n", "h"}      \* kExpressionNames
Letters     == {"n", "h", "z"}
Spaces      == {" "}
Newlines    == {"newline"}
LongStop    == <<"L", "1", "1">>

Width(byte) == IF byte = "L" THEN 3 ELSE IF byte \in {"1", "2"} THEN 0 ELSE 1

Segmenter == [pending    : Seq(STRING),  \* the sentence so far
              marker     : Seq(STRING),  \* a candidate marker, from '['
              dot        : BOOLEAN,      \* a '.' waits for what follows it
              expression : Expressions,
              used       : Nat,          \* bytes of the queue in use
              out        : Seq([text : Seq(STRING), expression : Expressions, kept : BOOLEAN]),
              dropped    : Nat]

(* out is every sentence emitted; those not kept found the queue full.     *)
Emit(s) ==
  LET need == 2 + Len(s.pending)
      kept == s.used + need <= QueueBytes
  IN IF s.pending = <<>> THEN [s EXCEPT !.dot = FALSE]
     ELSE [s EXCEPT !.dot = FALSE,
                    !.pending = <<>>,
                    !.out = Append(@, [text |-> s.pending, expression |-> s.expression,
                                       kept |-> kept]),
                    !.used = IF kept THEN @ + need ELSE @,
                    !.dropped = IF kept THEN @ ELSE @ + 1]

(* Mutant of CutOf: a full buffer is cut where it is full. *)
CutAnywhere(bytes) == Len(bytes)

\* Where a full buffer is cut: before a last character that is not complete.
CutOf(bytes) ==
  LET leads == {i \in 1 .. Len(bytes) : Width(bytes[i]) > 0}
      last  == CHOOSE i \in leads : \A j \in leads : j <= i
  IN IF leads # {} /\ last - 1 + Width(bytes[last]) > Len(bytes) THEN last - 1 ELSE Len(bytes)

AppendText(s, byte) ==
  LET full == Append(s.pending, byte)
      cut  == CutOf(full)
  IN IF Len(full) < MaxBytes \/ cut = 0 THEN [s EXCEPT !.pending = full]
     ELSE [Emit([s EXCEPT !.pending = SubSeq(full, 1, cut)])
             EXCEPT !.pending = SubSeq(full, cut + 1, Len(full))]

DumpMarkerAsText(s) == FoldLeft(AppendText, [s EXCEPT !.marker = <<>>], s.marker)

TailIsTerminator(bytes) ==
  Len(bytes) >= 3 /\ SubSeq(bytes, Len(bytes) - 2, Len(bytes)) = LongStop

PutPlain(s, byte) ==
  LET longer == AppendText(s, byte)
  IN CASE byte = "["                           -> [s EXCEPT !.marker = <<"[">>]
       [] byte \in Newlines                    -> Emit(s)
       [] byte \in Spaces /\ s.pending = <<>>  -> s
       [] byte = "."                           -> [longer EXCEPT !.dot = TRUE]
       [] byte = "!"                           -> Emit(longer)
       [] OTHER -> IF TailIsTerminator(longer.pending) THEN Emit(longer) ELSE longer

\* A marker ends the sentence before it and chooses the next expression; one
\* with another name is text.
CloseMarker(s) ==
  LET name == Tail(s.marker)
  IN IF Len(name) = 1 /\ name[1] \in Expressions
     THEN [Emit([s EXCEPT !.marker = <<>>]) EXCEPT !.expression = name[1]]
     ELSE AppendText(DumpMarkerAsText(s), "]")

PutInMarker(s, byte) ==
  CASE byte = "]"                                       -> CloseMarker(s)
    [] byte \in Letters /\ Len(s.marker) < MaxMarker    -> [s EXCEPT !.marker = Append(@, byte)]
    [] OTHER -> PutPlain(DumpMarkerAsText(s), byte)

\* A '.' ends a sentence only before white space.
ResolvePendingDot(s, byte) ==
  IF s.dot /\ byte \in Spaces \cup Newlines THEN Emit(s) ELSE [s EXCEPT !.dot = FALSE]

PutChar(s, byte) ==
  LET resolved == ResolvePendingDot(s, byte)
  IN IF s.dot /\ byte \in Spaces THEN resolved
     ELSE IF resolved.marker # <<>> THEN PutInMarker(resolved, byte)
     ELSE PutPlain(resolved, byte)

-----------------------------------------------------------------------------
SpeechStart ==
  /\ fed = 0 /\ flushed = FALSE
  /\ segmenter = [pending |-> <<>>, marker |-> <<>>, dot |-> FALSE, expression |-> Neutral,
                  used |-> 0, out |-> <<>>, dropped |-> 0]

SpeechInit == text \in Texts /\ SpeechStart

\* The queue was drained after the piece before, and is rewound.
FeedText(length) ==
  /\ fed + length <= Len(text)
  /\ segmenter' = FoldLeft(PutChar, [segmenter EXCEPT !.used = 0],
                           SubSeq(text, fed + 1, fed + length))
  /\ fed' = fed + length
  /\ UNCHANGED <<text, flushed>>

FlushText ==
  /\ fed = Len(text) /\ ~flushed
  /\ segmenter' = Emit(DumpMarkerAsText([segmenter EXCEPT !.used = 0]))
  /\ flushed' = TRUE
  /\ UNCHANGED <<text, fed>>

SpeechNext == FlushText \/ \E length \in 1 .. MaxPiece : FeedText(length)

SpeechSpec == SpeechInit /\ [][SpeechNext]_speechVars

-----------------------------------------------------------------------------
(* What the text means, however it is cut: every byte that is not white    *)
(* space or part of a marker, with the expression of the last marker.      *)

MarkersOf(bytes) ==
  {i \in 1 .. Len(bytes) - 2 : bytes[i] = "[" /\ bytes[i + 1] \in Expressions /\ bytes[i + 2] = "]"}

ExpressionAt(bytes, i) ==
  LET before == {m \in MarkersOf(bytes) : m + 2 < i}
  IN IF before = {} THEN Neutral
     ELSE bytes[(CHOOSE m \in before : \A other \in before : other <= m) + 1]

Blank == Spaces \cup Newlines

Meaning(bytes) ==
  LET markers == MarkersOf(bytes)
      shown   == [i \in 1 .. Len(bytes) |->
                    IF bytes[i] \in Blank \/ \E m \in markers : i \in m .. m + 2 THEN <<>>
                    ELSE <<<<bytes[i], ExpressionAt(bytes, i)>>>>]
  IN FlattenSeq(shown)

Spoken(bytes, expression) ==
  LET printed == SelectSeq(bytes, LAMBDA byte : byte \notin Blank)
  IN [i \in 1 .. Len(printed) |-> <<printed[i], expression>>]

\* A sentence is short enough to speak, holds whole characters, starts with no
\* space and ends nowhere before its last byte.
IsSentence(bytes) ==
  /\ Len(bytes) \in 1 .. MaxBytes
  /\ Width(bytes[1]) > 0 /\ bytes[1] \notin Blank
  /\ \A i \in 1 .. Len(bytes) : i + Width(bytes[i]) - 1 <= Len(bytes)
  /\ \A i \in 1 .. Len(bytes) - 1 :
       /\ bytes[i] \notin {"!"} \cup Newlines
       /\ ~ (bytes[i] = "." /\ bytes[i + 1] \in Spaces)
       /\ ~ TailIsTerminator(SubSeq(bytes, 1, i))

\* However the text is cut into pieces, the sentences emitted so far and what
\* the segmenter still holds are the text with its markers taken out, each
\* byte under the expression in force there; every sentence is one the speech
\* engine can take; and each that did not fit the queue is counted.
SpeechIntact ==
  LET emitted == [i \in 1 .. Len(segmenter.out) |->
                    Spoken(segmenter.out[i].text, segmenter.out[i].expression)]
      held    == Spoken(segmenter.pending \o segmenter.marker, segmenter.expression)
  IN /\ FlattenSeq(emitted) \o held = Meaning(SubSeq(text, 1, fed))
     /\ flushed => held = <<>>
     /\ \A i \in 1 .. Len(segmenter.out) : IsSentence(segmenter.out[i].text)
     /\ Len(SelectSeq(segmenter.out, LAMBDA s : ~ s.kept)) = segmenter.dropped
=============================================================================
