----------------------------- MODULE SseMeaning -----------------------------
(***************************************************************************)
(* What an answer means, said of the whole of it and not byte by byte: its *)
(* lines, the groups of lines between blank ones, and the data of each     *)
(* group.  Says no more of SseReader than Sse.                             *)
(***************************************************************************)
EXTENDS Sse
LOCAL INSTANCE SequencesExt
LOCAL INSTANCE FiniteSetsExt

LineEnds(bytes) ==
  {i \in DOMAIN bytes : bytes[i] = CR \/ (bytes[i] = LF /\ ~ (i > 1 /\ bytes[i - 1] = CR))}

\* Of the bytes up to the line's end, those after the line before it.
LineBefore(bytes, end) ==
  LET start == Max({0} \cup {i \in 1 .. end - 1 : bytes[i] \in {CR, LF}})
  IN SubSeq(bytes, start + 1, end - 1)

Lines(bytes, whole) ==
  LET ends == SetToSortSeq(LineEnds(bytes), <)
      last == LineBefore(bytes, Len(bytes) + 1)
  IN [i \in DOMAIN ends |-> LineBefore(bytes, ends[i])]
       \o (IF ~ whole THEN <<>> ELSE IF last = <<>> THEN <<<<>>>> ELSE <<last, <<>>>>)

\* The data lines of the group that the i-th line, a blank one, ends.
GroupBefore(lines, i) ==
  LET start == Max({0} \cup {j \in 1 .. i - 1 : lines[j] = <<>>})
  IN SelectSeq(SubSeq(lines, start + 1, i - 1), IsData)

Joined(group) ==
  FoldLeft(LAMBDA text, line : text \o <<LF>> \o Value(line), Value(Head(group)), Tail(group))

Events(lines) ==
  LET groups == [i \in DOMAIN lines |-> IF lines[i] = <<>> THEN GroupBefore(lines, i) ELSE <<>>]
  IN SelectSeq(groups, LAMBDA group : group # <<>>)

Fits(group) == Len(Joined(group)) <= MaxEventBytes

\* The data fit and a line does not: accepted by the contract, not by the code.
Disputed(group) == Fits(group) /\ \E i \in DOMAIN group : Len(group[i]) > MaxEventBytes

Arrived == Events(Lines(SubSeq(stream, 1, received), ended))

\* However the stream is cut into blocks, every event of at most MaxEventBytes
\* of data comes out once, whole and in order, and nothing else does; each of
\* the others is counted.  The queue is never what an event does not fit.
\* Nothing is said of a stream that had a disputed event.
SseWhole ==
  LET fitting == SelectSeq(Arrived, Fits)
  IN (\A i \in DOMAIN Arrived : ~ Disputed(Arrived[i])) =>
       /\ reader.out = [i \in DOMAIN fitting |-> Joined(fitting[i])]
       /\ reader.dropped = Len(Arrived) - Len(fitting)
=============================================================================
