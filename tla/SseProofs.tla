----------------------------- MODULE SseProofs -----------------------------
(***************************************************************************)
(* Proofs about the SSE reader, for every answer, every way it is cut into *)
(* blocks and every size of the buffers: the invariant SseInv, and with it *)
(* that the reader gives out what a reader with all the room it takes      *)
(* would.                                                                  *)
(***************************************************************************)
EXTENDS Sse, WellFoundedInduction, TLAPS

(* A set of numbers with an element has a least one.                       *)
LEMMA LeastNumber ==
  ASSUME NEW S \in SUBSET Nat, S # {}
  PROVE  \E least \in S : \A n \in S : least <= n
<1>1. IsWellFoundedOn(OpToRel(<, Nat), Nat)
  BY NatLessThanWellFounded
<1>2. \A x, y \in Nat : <<x, y>> \in OpToRel(<, Nat) <=> x < y
  BY DEF OpToRel
<1>3. PICK Less : IsWellFoundedOn(Less, Nat) /\ \A x, y \in Nat : <<x, y>> \in Less <=> x < y
  BY <1>1, <1>2
<1>4. IsWellFoundedOn(Less, Nat) /\ S \subseteq Nat /\ S # {}
  BY <1>3
<1>5. PICK least \in S : \A n \in S : ~ (<<n, least>> \in Less)
  BY <1>4, WFMin, Zenon
<1>6. ASSUME NEW n \in S
      PROVE  least <= n
  <2>1. ~ (n < least)
    BY <1>3, <1>5
  <2> QED
    BY <2>1
<1> QED
  BY <1>6

(* The length of a field's name is defined: there is a first colon, or none. *)
LEMMA NameEnds ==
  ASSUME NEW line \in Seq(StreamByte)
  PROVE  /\ NameLength(line) \in 0 .. Len(line)
         /\ NameLength(line) = Len(line) \/ line[NameLength(line) + 1] = ":"
         /\ \A i \in 1 .. NameLength(line) : line[i] # ":"
<1> DEFINE Ends == {n \in 0 .. Len(line) : n = Len(line) \/ line[n + 1] = ":"}
<1>1. Len(line) \in Nat
  OBVIOUS
<1>2. Ends \in SUBSET Nat /\ Len(line) \in Ends
  BY <1>1
<1>3. PICK first \in Ends : \A n \in Ends : first <= n
  BY <1>2, LeastNumber
<1>4. ASSUME NEW i \in 1 .. first, line[i] = ":"
      PROVE  FALSE
  <2>1. i - 1 \in Ends
    BY <1>1, <1>3, <1>4
  <2>2. first <= i - 1
    BY <1>3, <2>1
  <2>3. first \in Int /\ i \in Int /\ i <= first
    BY <1>1
  <2> QED
    BY <2>2, <2>3
<1>5. \E n \in 0 .. Len(line) : /\ n = Len(line) \/ line[n + 1] = ":"
                                /\ \A i \in 1 .. n : line[i] # ":"
  BY <1>3, <1>4
<1> QED
  BY <1>5 DEF NameLength

(* A line is a data line by its first byte and the colon behind it.        *)
LEMMA DataLines ==
  ASSUME NEW line \in Seq(StreamByte), line # <<>>
  PROVE  IsData(line) <=> line[1] = "d" /\ (Len(line) = 1 \/ line[2] = ":")
<1> DEFINE n == NameLength(line)
<1>1. Len(line) \in Nat \ {0}
  OBVIOUS
<1>2. /\ n \in 0 .. Len(line)
      /\ n = Len(line) \/ line[n + 1] = ":"
      /\ \A i \in 1 .. n : line[i] # ":"
  BY NameEnds
<1> HIDE DEF n
<1>3. /\ Name(line) \in Seq(StreamByte) /\ Len(Name(line)) = n
      /\ \A i \in 1 .. n : Name(line)[i] = line[i]
  BY <1>1, <1>2 DEF Name, Prefix, n
<1>4. Name(line) = DataName <=> n = 1 /\ line[1] = "d"
  <2>1. ASSUME Name(line) = DataName PROVE n = 1 /\ line[1] = "d"
    BY <1>1, <1>3, <2>1 DEF DataName
  <2>2. ASSUME n = 1, line[1] = "d" PROVE Name(line) = DataName
    BY <1>1, <1>3, <2>2 DEF DataName
  <2> QED
    BY <2>1, <2>2
<1>5. line[1] = "d" => (n = 1 <=> Len(line) = 1 \/ line[2] = ":")
  <2>1. line[1] = "d" => n # 0
    BY <1>1, <1>2
  <2>2. n = 1 => Len(line) = 1 \/ line[2] = ":"
    BY <1>1, <1>2
  <2>3. Len(line) = 1 \/ line[2] = ":" => n <= 1
    BY <1>1, <1>2
  <2> QED
    BY <1>2, <2>1, <2>2, <2>3
<1> QED
  BY <1>1, <1>4, <1>5 DEF IsData

(* What a data line adds to the event is shorter than the line.            *)
LEMMA ValuesAreShort ==
  ASSUME NEW line \in Seq(StreamByte), IsData(line)
  PROVE  /\ Value(line) \in Seq(StreamByte)
         /\ Len(Value(line)) + 1 <= Len(line)
<1> DEFINE n     == NameLength(line)
           value == SubSeq(line, n + 2, Len(line))
<1>1. line # <<>> /\ Len(line) \in Nat \ {0}
  BY DEF IsData
<1>2. n \in 0 .. Len(line)
  BY NameEnds
<1>3. n >= 1
  <2>1. line[1] = "d"
    BY <1>1, DataLines
  <2> QED
    BY <1>1, <1>2, <2>1, NameEnds
<1> HIDE DEF n
<1>4. value \in Seq(StreamByte) /\ Len(value) \in Nat /\ Len(value) + 1 <= Len(line)
  BY <1>1, <1>2, <1>3
<1>5. Value(line) = IF value # <<>> /\ value[1] = " " THEN Tail(value) ELSE value
  BY DEF Value, n
<1> HIDE DEF value
<1>6. ASSUME value # <<>>
      PROVE  Tail(value) \in Seq(StreamByte) /\ Len(Tail(value)) = Len(value) - 1
  BY <1>4, <1>6
<1>7. CASE value # <<>> /\ value[1] = " "
  <2>1. Value(line) = Tail(value)
    BY <1>5, <1>7
  <2>2. Value(line) \in Seq(StreamByte) /\ Len(Value(line)) = Len(value) - 1
    BY <1>6, <1>7, <2>1
  <2> QED
    BY <1>1, <1>4, <2>2
<1>8. CASE ~ (value # <<>> /\ value[1] = " ")
  BY <1>4, <1>5, <1>8
<1> QED
  BY <1>7, <1>8

(* A line cut short at the buffer's end is still seen for what it is.      *)
LEMMA CutLines ==
  ASSUME NEW line \in Seq(StreamByte), NEW size \in Nat, 2 <= size, size < Len(line)
  PROVE  /\ Prefix(line, size) \in Seq(StreamByte)
         /\ Len(Prefix(line, size)) = size
         /\ IsData(Prefix(line, size)) <=> IsData(line)
<1> DEFINE cut == Prefix(line, size)
<1>1. /\ cut \in Seq(StreamByte) /\ Len(cut) = size
      /\ cut[1] = line[1] /\ cut[2] = line[2]
  BY DEF Prefix
<1>2. line # <<>> /\ cut # <<>> /\ Len(line) # 1 /\ Len(cut) # 1
  BY <1>1
<1> QED
  BY <1>1, <1>2, DataLines

(***************************************************************************)
(* One line, then one byte: reader and meaning keep step.                  *)
(***************************************************************************)

InStep(r, m) ==
  /\ r \in ReaderType /\ m \in MeantType
  /\ LineHeld(r, m) /\ EventHeld(r, m) /\ GivenOut(r, m)

USE DEF GivenOut

(* The queue has room for the event in hand.                               *)
HasRoom(r) == r.used + 2 + Len(r.event) <= QueueLimit

LEMMA QueueSize == MaxEventBytes \in Nat /\ 2 <= MaxEventBytes /\ QueueLimit = 2 * MaxEventBytes
  BY BlocksAreShort DEF QueueLimit

LEMMA NoBytes == <<>> \in Seq(StreamByte)
  OBVIOUS

LEMMA LineFeed == <<LF>> \in Seq(StreamByte) /\ Len(<<LF>>) = 1
  BY StreamsAreBytes

LEMMA Sums ==
  /\ \A event, value, line \in Nat :
       /\ value + 1 <= line => event + 1 + value + 0 <= event + line + 1
       /\ value + 1 <= line => value + 2 <= 0 + line + 1
       /\ 1 <= line => event + 2 <= event + line + 1 /\ event + 0 <= event + line + 1
  /\ \A data, value \in Nat : data + 1 + value >= data /\ data + 1 + value \in Nat
  /\ \A limit, short, long \in Nat : short > limit /\ long >= short => long > limit
  OBVIOUS

(* The end of an event: what fits is given out, the rest counted.          *)
LEMMA DispatchInStep ==
  ASSUME NEW r, NEW m, InStep(r, m), r.has => HasRoom(r)
  PROVE  /\ InStep(Dispatch(r), MeantEvent(m))
         /\ Dispatch(r).event = <<>> /\ Dispatch(r).has = FALSE
         /\ Dispatch(r).line = r.line /\ Dispatch(r).lineOver = r.lineOver
         /\ \/ Dispatch(r).used = r.used
            \/ r.has /\ Dispatch(r).used = r.used + 2 + Len(r.event)
<1> DEFINE done == [r EXCEPT !.event = <<>>, !.has = FALSE, !.eventOver = FALSE]
           next == [m EXCEPT !.data = <<>>, !.has = FALSE, !.short = TRUE]
<1>1. /\ r \in ReaderType /\ m \in MeantType
      /\ LineHeld(r, m) /\ EventHeld(r, m)
      /\ GivenOut(r, m)
  BY DEF InStep
<1>2. Len(r.event) \in Nat /\ Len(m.data) \in Nat /\ r.used \in Nat
  BY <1>1 DEF ReaderType, MeantType
<1>3. /\ done \in ReaderType
      /\ done.event = <<>> /\ done.has = FALSE /\ done.eventOver = FALSE
      /\ done.line = r.line /\ done.lineOver = r.lineOver /\ done.cr = r.cr
      /\ done.used = r.used /\ done.out = r.out /\ done.dropped = r.dropped
  <2>1. done \in ReaderType
    BY <1>1, NoBytes DEF ReaderType
  <2> QED
    BY <1>1, <2>1 DEF ReaderType
<1>8. /\ next \in MeantType
      /\ next.data = <<>> /\ next.has = FALSE /\ next.short = TRUE
      /\ next.line = m.line /\ next.cr = m.cr
      /\ next.events = m.events /\ next.lost = m.lost /\ next.disputed = m.disputed
  <2>1. next \in MeantType
    BY <1>1, NoBytes DEF MeantType
  <2> QED
    BY <1>1, <2>1 DEF MeantType
<1>9. LineHeld(done, next)
  BY <1>1, <1>3, <1>8 DEF LineHeld
<1>4. EventHeld(done, next)
  BY <1>3, <1>8, QueueSize DEF EventHeld
<1> HIDE DEF done, next
<1>5. CASE ~ r.has
  <2>1. Dispatch(r) = done /\ MeantEvent(m) = m
    BY <1>1, <1>5 DEF Dispatch, done, MeantEvent, EventHeld
  <2>2. r.event = <<>> /\ r.has = FALSE /\ r.eventOver = FALSE
    BY <1>1, <1>5, QueueSize DEF EventHeld, ReaderType
  <2>3. done = r
    BY <1>1, <2>2 DEF done, ReaderType
  <2> QED
    BY <1>3, <2>1, <2>3
<1>6. CASE r.has /\ ~ r.eventOver
  <2> DEFINE sent == [done EXCEPT !.out = Append(@, r.event), !.used = @ + (2 + Len(r.event))]
             said == [next EXCEPT !.events = Append(@, m.data)]
  <2>1. m.has /\ m.short /\ Len(m.data) <= MaxEventBytes /\ r.event = m.data
    BY <1>1, <1>2, <1>6, QueueSize DEF EventHeld, MeantType
  <2>2. r.used + (2 + Len(r.event)) <= QueueLimit
    BY <1>2, <1>6, QueueSize DEF HasRoom
  <2>3. Dispatch(r) = sent
    BY <1>6, <2>2 DEF Dispatch, done
  <2>4. MeantEvent(m) = said
    BY <1>2, <2>1, QueueSize DEF MeantEvent, next
  <2>5. /\ Append(r.out, r.event) \in Seq(Seq(StreamByte))
        /\ Append(m.events, m.data) \in Seq(Seq(StreamByte))
    BY <1>1 DEF ReaderType, MeantType
  <2>8. /\ sent.out = Append(r.out, r.event) /\ said.events = Append(m.events, m.data)
        /\ sent.dropped = r.dropped
        /\ said.lost = m.lost /\ said.disputed = m.disputed
    BY <1>3, <1>8 DEF ReaderType, MeantType
  <2>9. sent \in ReaderType
    <3>1. done.used + (2 + Len(r.event)) \in Nat
      BY <1>2, <1>3
    <3>2. \A out \in Seq(Seq(StreamByte)), used \in Nat :
            [done EXCEPT !.out = out, !.used = used] \in ReaderType
      BY <1>3 DEF ReaderType
    <3> QED
      BY <1>3, <2>5, <3>1, <3>2
  <2>10. said \in MeantType
    BY <1>8, <2>5 DEF MeantType
  <2>6. /\ sent.line = done.line /\ sent.lineOver = done.lineOver /\ sent.cr = done.cr
        /\ sent.event = done.event /\ sent.has = done.has /\ sent.eventOver = done.eventOver
        /\ said.line = next.line /\ said.cr = next.cr
        /\ said.data = next.data /\ said.has = next.has /\ said.short = next.short
        /\ sent.used = r.used + (2 + Len(r.event))
    BY <1>3, <1>8 DEF ReaderType, MeantType
  <2> HIDE DEF sent, said
  <2>7. LineHeld(sent, said) /\ EventHeld(sent, said)
    BY <1>3, <1>4, <1>8, <1>9, <2>6 DEF LineHeld, EventHeld
  <2>11. sent.used = r.used + 2 + Len(r.event)
    <3>1. sent.used = r.used + (2 + Len(r.event))
      BY <2>6
    <3> QED
      BY <1>2, <3>1
  <2>12. InStep(sent, said)
    BY <1>1, <2>1, <2>7, <2>8, <2>9, <2>10 DEF InStep
  <2> QED
    BY <1>3, <1>6, <2>3, <2>4, <2>6, <2>11, <2>12
<1>7. CASE r.has /\ r.eventOver
  <2> DEFINE less     == [done EXCEPT !.dropped = @ + 1]
             tooLong  == [next EXCEPT !.lost = @ + 1]
             disputed == [next EXCEPT !.disputed = @ + 1]
             said     == MeantEvent(m)
  <2>1. m.has /\ (Len(m.data) > MaxEventBytes \/ ~ m.short)
    BY <1>1, <1>2, <1>7, QueueSize DEF EventHeld, MeantType
  <2>2. Dispatch(r) = less
    BY <1>7 DEF Dispatch, done
  <2>3. said = IF Len(m.data) > MaxEventBytes THEN tooLong ELSE disputed
    BY <2>1 DEF MeantEvent, next
  <2>4. /\ less \in ReaderType
        /\ less.out = r.out /\ less.dropped = r.dropped + 1
    <3>1. done.dropped + 1 \in Nat
      BY <1>3 DEF ReaderType
    <3>2. \A dropped \in Nat : [done EXCEPT !.dropped = dropped] \in ReaderType
      BY <1>3 DEF ReaderType
    <3> QED
      BY <1>3, <3>1, <3>2 DEF ReaderType
  <2>5. /\ tooLong \in MeantType /\ tooLong.events = m.events
        /\ tooLong.lost = m.lost + 1 /\ tooLong.disputed = m.disputed
    <3>1. next.lost + 1 \in Nat
      BY <1>8 DEF MeantType
    <3>2. \A lost \in Nat : [next EXCEPT !.lost = lost] \in MeantType
      BY <1>8 DEF MeantType
    <3> QED
      BY <1>8, <3>1, <3>2 DEF MeantType
  <2>6. /\ disputed \in MeantType /\ disputed.events = m.events
        /\ disputed.lost = m.lost /\ disputed.disputed = m.disputed + 1
    <3>1. next.disputed + 1 \in Nat
      BY <1>8 DEF MeantType
    <3>2. \A more \in Nat : [next EXCEPT !.disputed = more] \in MeantType
      BY <1>8 DEF MeantType
    <3> QED
      BY <1>8, <3>1, <3>2 DEF MeantType
  <2>7. /\ tooLong.line = next.line /\ tooLong.cr = next.cr /\ tooLong.data = next.data
        /\ tooLong.has = next.has /\ tooLong.short = next.short
        /\ disputed.line = next.line /\ disputed.cr = next.cr /\ disputed.data = next.data
        /\ disputed.has = next.has /\ disputed.short = next.short
    BY <1>8 DEF MeantType
  <2>8. /\ less.line = done.line /\ less.lineOver = done.lineOver /\ less.cr = done.cr
        /\ less.event = done.event /\ less.has = done.has /\ less.eventOver = done.eventOver
        /\ less.used = r.used
    BY <1>3 DEF ReaderType
  <2> HIDE DEF less, tooLong, disputed, said
  <2>9. /\ said \in MeantType /\ said.events = m.events
         /\ said.line = next.line /\ said.cr = next.cr
         /\ said.data = next.data /\ said.has = next.has /\ said.short = next.short
    BY <2>3, <2>5, <2>6, <2>7
  <2>10. said.lost + said.disputed = m.lost + m.disputed + 1
    <3>1. m.lost \in Nat /\ m.disputed \in Nat
      BY <1>1 DEF MeantType
    <3>2. CASE said = tooLong
      BY <2>5, <3>1, <3>2
    <3>3. CASE said = disputed
      BY <2>6, <3>1, <3>3
    <3> QED
      BY <2>3, <3>2, <3>3
  <2>11. less.dropped = said.lost + said.disputed
    BY <1>1, <2>4, <2>10
  <2>12. LineHeld(less, said) /\ EventHeld(less, said)
    BY <1>3, <1>4, <1>8, <1>9, <2>8, <2>9 DEF LineHeld, EventHeld
  <2>13. InStep(less, said)
    BY <1>1, <2>4, <2>12, <2>9, <2>11 DEF InStep
  <2> QED
    BY <1>1, <1>3, <2>2, <2>8, <2>13 DEF said
<1> QED
  BY <1>1, <1>5, <1>6, <1>7 DEF ReaderType

(* The line in the buffer, and the line meant, say the same.               *)
LEMMA LinesAgree ==
  ASSUME NEW r, NEW m, InStep(r, m), m.line # <<>>
  PROVE  /\ r.line \in Seq(StreamByte) /\ r.line # <<>> /\ Len(r.line) \in Nat /\ 1 <= Len(r.line)
         /\ r.lineOver \in BOOLEAN
         /\ IsData(r.line) <=> IsData(m.line)
         /\ ~ r.lineOver => r.line = m.line /\ Len(m.line) <= MaxEventBytes
         /\ r.lineOver => Len(r.line) >= 2 /\ ~ (Len(m.line) <= MaxEventBytes)
<1>1. /\ m.line \in Seq(StreamByte) /\ r.line \in Seq(StreamByte) /\ r.lineOver \in BOOLEAN
      /\ r.lineOver <=> Len(m.line) > MaxEventBytes
      /\ r.line = IF r.lineOver THEN Prefix(m.line, MaxEventBytes) ELSE m.line
  BY DEF InStep, ReaderType, MeantType, LineHeld
<1>2. Len(m.line) \in Nat
  BY <1>1
<1>3. CASE r.lineOver
  <2>1. Len(r.line) = MaxEventBytes /\ (IsData(r.line) <=> IsData(m.line))
    BY <1>1, <1>2, <1>3, QueueSize, CutLines
  <2> QED
    BY <1>1, <1>2, <1>3, <2>1, QueueSize
<1>4. CASE ~ r.lineOver
  BY <1>1, <1>2, <1>4, QueueSize
<1> QED
  BY <1>3, <1>4

(* A line's data, or that it was cut short, is added to the event.         *)
LEMMA DataInStep ==
  ASSUME NEW r, NEW m, InStep(r, m), m.line # <<>>, IsData(m.line)
  PROVE  /\ InStep(TakeLine(r), MeantLine(m))
         /\ TakeLine(r).used = r.used /\ TakeLine(r).has = TRUE /\ TakeLine(r).line = <<>>
         /\ Len(TakeLine(r).event) + (IF r.has THEN 0 ELSE 2) <= Len(r.event) + Len(r.line) + 1
<1> DEFINE value  == Value(r.line)
           joined == IF r.has THEN r.event \o <<LF>> \o value ELSE value
           text   == IF m.has THEN m.data \o <<LF>> \o Value(m.line) ELSE Value(m.line)
           t      == TakeLine(r)
           n      == MeantLine(m)
<1>1. /\ r \in ReaderType /\ m \in MeantType
      /\ LineHeld(r, m) /\ EventHeld(r, m)
      /\ GivenOut(r, m)
  BY DEF InStep
<1>2. /\ r.line \in Seq(StreamByte) /\ r.line # <<>> /\ Len(r.line) \in Nat /\ 1 <= Len(r.line)
      /\ r.lineOver \in BOOLEAN /\ IsData(r.line)
      /\ ~ r.lineOver => r.line = m.line /\ Len(m.line) <= MaxEventBytes
      /\ r.lineOver => Len(r.line) >= 2 /\ ~ (Len(m.line) <= MaxEventBytes)
  BY LinesAgree
<1>3. value \in Seq(StreamByte) /\ Len(value) \in Nat /\ Len(value) + 1 <= Len(r.line)
  BY <1>2, ValuesAreShort
<1>4. Value(m.line) \in Seq(StreamByte) /\ Len(Value(m.line)) \in Nat
  BY <1>1, ValuesAreShort DEF MeantType
<1>5. /\ r.event \in Seq(StreamByte) /\ Len(r.event) \in Nat /\ r.has \in BOOLEAN
      /\ m.data \in Seq(StreamByte) /\ Len(m.data) \in Nat /\ m.has = r.has
      /\ Len(r.event) <= MaxEventBytes
  BY <1>1 DEF ReaderType, MeantType, EventHeld
<1>6. InterpretLine(r) = AddData(r, value)
  BY <1>2 DEF InterpretLine, IsData
<1>7. n = [m EXCEPT !.line = <<>>, !.data = text, !.has = TRUE,
                    !.short = @ /\ Len(m.line) <= MaxEventBytes]
  BY <1>1 DEF MeantLine, MeantType
<1> HIDE DEF value
<1>8. /\ joined \in Seq(StreamByte) /\ Len(joined) \in Nat
      /\ Len(joined) + (IF r.has THEN 0 ELSE 2) <= Len(r.event) + Len(r.line) + 1
  <2>1. <<LF>> \in Seq(StreamByte) /\ Len(<<LF>>) = 1
    BY LineFeed
  <2>2. CASE r.has
    <3>1. joined \in Seq(StreamByte) /\ Len(joined) = Len(r.event) + 1 + Len(value)
      BY <1>3, <1>5, <2>1, <2>2
    <3>2. Len(joined) + 0 <= Len(r.event) + Len(r.line) + 1
      BY <1>2, <1>3, <1>5, <3>1, Sums
    <3>3. Len(joined) \in Nat
      BY <3>1
    <3> HIDE DEF joined
    <3> QED
      BY <2>2, <3>1, <3>2, <3>3
  <2>3. CASE ~ r.has
    <3>1. joined = value /\ Len(r.event) = 0
      BY <1>1, <2>3 DEF EventHeld
    <3>2. Len(joined) + 2 <= Len(r.event) + Len(r.line) + 1
      BY <1>2, <1>3, <1>5, <3>1, Sums
    <3> QED
      BY <1>3, <2>3, <3>1, <3>2
  <2> QED
    BY <2>2, <2>3
<1>9. /\ text \in Seq(StreamByte) /\ Len(text) \in Nat
      /\ m.has => Len(text) >= Len(m.data)
  <2>1. <<LF>> \in Seq(StreamByte) /\ Len(<<LF>>) = 1
    BY LineFeed
  <2>2. CASE m.has
    <3>1. text \in Seq(StreamByte) /\ Len(text) = Len(m.data) + 1 + Len(Value(m.line))
      BY <1>4, <1>5, <2>1, <2>2
    <3> QED
      BY <1>4, <1>5, <3>1, Sums
  <2>3. CASE ~ m.has
    BY <1>4, <2>3
  <2> QED
    BY <2>2, <2>3
<1>10. ~ r.lineOver /\ ~ r.eventOver => joined = text
  BY <1>1, <1>2, <1>5 DEF EventHeld, value
<1>11. r.eventOver => ~ m.short \/ Len(text) > MaxEventBytes
  <2>1. ASSUME Len(m.data) > MaxEventBytes
        PROVE  Len(text) > MaxEventBytes
    <3>1. m.has
      BY <1>1, <1>5, <2>1, QueueSize DEF EventHeld
    <3> QED
      BY <1>5, <1>9, <2>1, <3>1, QueueSize, Sums
  <2> QED
    BY <1>1, <2>1 DEF EventHeld
<1>12. ~ r.eventOver => m.short /\ r.eventOver = FALSE
  BY <1>1 DEF EventHeld, ReaderType, MeantType
<1> HIDE DEF joined, text
<1>13. /\ n \in MeantType /\ n.line = <<>> /\ n.cr = m.cr
       /\ n.data = text /\ n.has = TRUE
       /\ n.short = (m.short /\ Len(m.line) <= MaxEventBytes)
       /\ n.events = m.events /\ n.lost = m.lost /\ n.disputed = m.disputed
  <2> DEFINE short == m.short /\ Len(m.line) <= MaxEventBytes
  <2>1. short \in BOOLEAN
    BY <1>1 DEF MeantType
  <2>2. n = [m EXCEPT !.line = <<>>, !.data = text, !.has = TRUE, !.short = short]
    BY <1>1, <1>7 DEF MeantType
  <2> HIDE DEF short, n
  <2>3. n \in MeantType
    BY <1>1, <1>9, <2>1, <2>2, NoBytes DEF MeantType
  <2>4. /\ n.line = <<>> /\ n.cr = m.cr /\ n.data = text /\ n.has = TRUE /\ n.short = short
        /\ n.events = m.events /\ n.lost = m.lost /\ n.disputed = m.disputed
    BY <1>1, <2>2 DEF MeantType
  <2> QED
    BY <2>3, <2>4 DEF short
<1> HIDE DEF n
<1>14. CASE r.lineOver \/ Len(joined) > MaxEventBytes
  <2>1. t = [r EXCEPT !.eventOver = TRUE, !.has = TRUE, !.line = <<>>, !.lineOver = FALSE]
    BY <1>1, <1>6, <1>14 DEF TakeLine, AddData, joined, ReaderType
  <2> HIDE DEF t
  <2>2. /\ t.line = <<>> /\ t.lineOver = FALSE /\ t.cr = r.cr
        /\ t.event = r.event /\ t.has = TRUE /\ t.eventOver = TRUE
        /\ t.used = r.used /\ t.out = r.out /\ t.dropped = r.dropped
    BY <1>1, <2>1 DEF ReaderType
  <2>3. t \in ReaderType
    BY <1>1, <2>1, NoBytes DEF ReaderType
  <2>4. ~ n.short \/ Len(n.data) > MaxEventBytes
    BY <1>2, <1>10, <1>11, <1>13, <1>14
  <2>5. LineHeld(t, n)
    BY <1>1, <1>13, <2>2, QueueSize DEF LineHeld
  <2>6. EventHeld(t, n)
    BY <1>5, <1>13, <2>2, <2>4 DEF EventHeld
  <2>7. InStep(t, n)
    BY <1>1, <1>13, <2>2, <2>3, <2>5, <2>6 DEF InStep
  <2>8. Len(t.event) + (IF r.has THEN 0 ELSE 2) <= Len(r.event) + Len(r.line) + 1
    <3>1. Len(r.event) + 2 <= Len(r.event) + Len(r.line) + 1
      BY <1>2, <1>5, Sums
    <3>2. Len(r.event) + 0 <= Len(r.event) + Len(r.line) + 1
      BY <1>2, <1>5, Sums
    <3> QED
      BY <2>2, <3>1, <3>2
  <2> QED
    BY <2>2, <2>7, <2>8 DEF t, n
<1>15. CASE ~ r.lineOver /\ ~ (Len(joined) > MaxEventBytes)
  <2>1. t = [r EXCEPT !.event = joined, !.has = TRUE, !.line = <<>>, !.lineOver = FALSE]
    BY <1>1, <1>6, <1>15 DEF TakeLine, AddData, joined, ReaderType
  <2> HIDE DEF t
  <2>2. /\ t.line = <<>> /\ t.lineOver = FALSE /\ t.cr = r.cr
        /\ t.event = joined /\ t.has = TRUE /\ t.eventOver = r.eventOver
        /\ t.used = r.used /\ t.out = r.out /\ t.dropped = r.dropped
    BY <1>1, <2>1 DEF ReaderType
  <2>3. t \in ReaderType
    BY <1>1, <1>8, <2>1, NoBytes DEF ReaderType
  <2>4. t.eventOver <=> ~ n.short \/ Len(n.data) > MaxEventBytes
    BY <1>2, <1>10, <1>11, <1>12, <1>13, <1>15, <2>2
  <2>5. LineHeld(t, n)
    BY <1>1, <1>13, <2>2, QueueSize DEF LineHeld
  <2>6. EventHeld(t, n)
    <3>1. ~ t.eventOver => t.event = n.data
      BY <1>10, <1>13, <1>15, <2>2
    <3>2. Len(t.event) <= MaxEventBytes
      BY <1>8, <1>15, <2>2, QueueSize
    <3> QED
      BY <1>13, <2>2, <2>4, <3>1, <3>2 DEF EventHeld
  <2>7. InStep(t, n)
    BY <1>1, <1>13, <2>2, <2>3, <2>5, <2>6 DEF InStep
  <2>8. Len(t.event) + (IF r.has THEN 0 ELSE 2) <= Len(r.event) + Len(r.line) + 1
    BY <1>8, <2>2
  <2> QED
    BY <2>2, <2>7, <2>8 DEF t, n
<1> QED
  BY <1>14, <1>15

(* Any other line says nothing.                                            *)
LEMMA OtherInStep ==
  ASSUME NEW r, NEW m, InStep(r, m), m.line # <<>>, ~ IsData(m.line)
  PROVE  /\ InStep(TakeLine(r), MeantLine(m))
         /\ TakeLine(r).used = r.used /\ TakeLine(r).line = <<>>
         /\ TakeLine(r).has = r.has /\ TakeLine(r).event = r.event
<1> DEFINE t == [r EXCEPT !.line = <<>>, !.lineOver = FALSE]
           n == [m EXCEPT !.line = <<>>]
<1>1. /\ r \in ReaderType /\ m \in MeantType
      /\ LineHeld(r, m) /\ EventHeld(r, m)
      /\ GivenOut(r, m)
  BY DEF InStep
<1>2. r.line # <<>> /\ ~ IsData(r.line)
  BY LinesAgree
<1>3. TakeLine(r) = t /\ MeantLine(m) = n
  BY <1>2 DEF TakeLine, InterpretLine, MeantLine, IsData
<1>4. t \in ReaderType /\ n \in MeantType
  BY <1>1, NoBytes DEF ReaderType, MeantType
<1>5. /\ t.line = <<>> /\ t.lineOver = FALSE /\ t.cr = r.cr
      /\ t.event = r.event /\ t.has = r.has /\ t.eventOver = r.eventOver
      /\ t.used = r.used /\ t.out = r.out /\ t.dropped = r.dropped
      /\ n.line = <<>> /\ n.cr = m.cr /\ n.data = m.data /\ n.has = m.has /\ n.short = m.short
      /\ n.events = m.events /\ n.lost = m.lost /\ n.disputed = m.disputed
  BY <1>1 DEF ReaderType, MeantType
<1> HIDE DEF t, n
<1>6. LineHeld(t, n)
  BY <1>1, <1>5, QueueSize DEF LineHeld
<1>7. EventHeld(t, n)
  BY <1>1, <1>5 DEF EventHeld
<1> QED
  BY <1>1, <1>3, <1>4, <1>5, <1>6, <1>7 DEF InStep

(* The end of a line.  The queue takes at most one byte more than the line *)
(* had, its end; from an empty queue, at most an event.                    *)
LEMMA LineInStep ==
  ASSUME NEW r, NEW m, InStep(r, m), r.has => HasRoom(r)
  PROVE  /\ InStep(TakeLine(r), MeantLine(m))
         /\ TakeLine(r).line = <<>>
         /\ Queued(TakeLine(r)) <= Queued(r) + 1
         /\ r.used = 0 => TakeLine(r).used = 0 \/ Queued(TakeLine(r)) <= 2 + MaxEventBytes
<1>1. /\ r \in ReaderType /\ m \in MeantType
      /\ LineHeld(r, m) /\ EventHeld(r, m)
  BY DEF InStep
<1>2. /\ Len(r.event) \in Nat /\ Len(r.line) \in Nat /\ r.used \in Nat /\ r.has \in BOOLEAN
      /\ Len(r.event) <= MaxEventBytes
  BY <1>1 DEF ReaderType, EventHeld
<1>3. CASE m.line = <<>>
  <2>1. r.line = <<>> /\ r.lineOver = FALSE
    BY <1>1, <1>3, QueueSize DEF LineHeld, ReaderType
  <2>2. InterpretLine(r) = Dispatch(r) /\ MeantLine(m) = MeantEvent(m)
    BY <1>3, <2>1 DEF InterpretLine, MeantLine
  <2> DEFINE d == Dispatch(r)
  <2>3. /\ InStep(d, MeantEvent(m))
        /\ d.event = <<>> /\ d.has = FALSE /\ d.line = <<>> /\ d.lineOver = FALSE
        /\ d.used = r.used \/ (r.has /\ d.used = r.used + 2 + Len(r.event))
    BY <2>1, DispatchInStep
  <2> HIDE DEF d
  <2>4. TakeLine(r) = d
    <3>1. TakeLine(r) = [d EXCEPT !.line = <<>>, !.lineOver = FALSE]
      BY <2>2 DEF TakeLine, d
    <3> QED
      BY <2>3, <3>1 DEF InStep, ReaderType
  <2>5. d.used \in Nat
    BY <2>3 DEF InStep, ReaderType
  <2>6. Queued(d) = d.used
    BY <2>3, <2>5 DEF Queued
  <2>7. Queued(r) = r.used + Len(r.event) + (IF r.has THEN 2 ELSE 0)
    BY <1>2, <2>1 DEF Queued
  <2>8. d.used <= Queued(r) + 1 /\ (r.used = 0 => d.used <= 2 + MaxEventBytes)
    <3>1. CASE d.used = r.used
      BY <1>2, <2>7, <3>1, QueueSize
    <3>2. CASE r.has /\ d.used = r.used + 2 + Len(r.event)
      BY <1>2, <2>7, <3>2, QueueSize
    <3> QED
      BY <2>3, <3>1, <3>2
  <2> QED
    BY <2>2, <2>3, <2>4, <2>6, <2>8
<1>4. CASE m.line # <<>> /\ IsData(m.line)
  <2> DEFINE t == TakeLine(r)
  <2>1. /\ InStep(t, MeantLine(m)) /\ t.used = r.used /\ t.has /\ t.line = <<>>
        /\ Len(t.event) + (IF r.has THEN 0 ELSE 2) <= Len(r.event) + Len(r.line) + 1
    BY <1>4, DataInStep
  <2> HIDE DEF t
  <2>2. Len(t.event) \in Nat /\ Len(t.line) = 0
    BY <2>1 DEF InStep, ReaderType
  <2>3. Queued(t) = t.used + Len(t.event) + 2
    BY <1>2, <2>1, <2>2 DEF Queued
  <2>4. \A used, before, after, line \in Nat :
          /\ after + 0 <= before + line + 1 => used + after + 2 <= used + before + 2 + line + 1
          /\ after + 2 <= before + line + 1 => used + after + 2 <= used + before + 0 + line + 1
    OBVIOUS
  <2>5. Queued(t) <= Queued(r) + 1
    <3>1. CASE r.has
      <4>1. Len(t.event) + 0 <= Len(r.event) + Len(r.line) + 1
        BY <2>1, <3>1
      <4>2. Queued(r) = r.used + Len(r.event) + 2 + Len(r.line)
        BY <3>1 DEF Queued
      <4>3. r.used + Len(t.event) + 2 <= r.used + Len(r.event) + 2 + Len(r.line) + 1
        BY <1>2, <2>2, <2>4, <4>1
      <4> QED
        BY <2>1, <2>3, <4>2, <4>3
    <3>2. CASE ~ r.has
      <4>1. Len(t.event) + 2 <= Len(r.event) + Len(r.line) + 1
        BY <2>1, <3>2
      <4>2. Queued(r) = r.used + Len(r.event) + 0 + Len(r.line)
        BY <3>2 DEF Queued
      <4>3. r.used + Len(t.event) + 2 <= r.used + Len(r.event) + 0 + Len(r.line) + 1
        BY <1>2, <2>2, <2>4, <4>1
      <4> QED
        BY <2>1, <2>3, <4>2, <4>3
    <3> QED
      BY <3>1, <3>2
  <2> QED
    BY <2>1, <2>5 DEF t
<1>5. CASE m.line # <<>> /\ ~ IsData(m.line)
  <2> DEFINE t == TakeLine(r)
  <2>1. /\ InStep(t, MeantLine(m)) /\ t.used = r.used /\ t.line = <<>>
        /\ t.has = r.has /\ t.event = r.event
    BY <1>5, OtherInStep
  <2> HIDE DEF t
  <2>2. Queued(t) <= Queued(r) + 1
    BY <1>2, <2>1 DEF Queued
  <2> QED
    BY <2>1, <2>2 DEF t
<1> QED
  BY <1>3, <1>4, <1>5
(* The mark that a CR came last is the only one that is moved besides.     *)
LEMMA MarkInStep ==
  ASSUME NEW r, NEW m, InStep(r, m), NEW cr \in BOOLEAN
  PROVE  /\ InStep([r EXCEPT !.cr = cr], [m EXCEPT !.cr = cr])
         /\ [r EXCEPT !.cr = cr].used = r.used
         /\ Queued([r EXCEPT !.cr = cr]) = Queued(r)
<1> DEFINE t == [r EXCEPT !.cr = cr]
           n == [m EXCEPT !.cr = cr]
<1>1. /\ r \in ReaderType /\ m \in MeantType
      /\ LineHeld(r, m) /\ EventHeld(r, m)
      /\ GivenOut(r, m)
  BY DEF InStep
<1>2. t \in ReaderType /\ n \in MeantType
  BY <1>1 DEF ReaderType, MeantType
<1>3. /\ t.line = r.line /\ t.lineOver = r.lineOver /\ t.cr = cr
      /\ t.event = r.event /\ t.has = r.has /\ t.eventOver = r.eventOver
      /\ t.used = r.used /\ t.out = r.out /\ t.dropped = r.dropped
      /\ n.line = m.line /\ n.cr = cr /\ n.data = m.data /\ n.has = m.has /\ n.short = m.short
      /\ n.events = m.events /\ n.lost = m.lost /\ n.disputed = m.disputed
  BY <1>1 DEF ReaderType, MeantType
<1> HIDE DEF t, n
<1>4. LineHeld(t, n) /\ EventHeld(t, n) /\ Queued(t) = Queued(r)
  BY <1>1, <1>3 DEF LineHeld, EventHeld, Queued
<1> QED
  BY <1>1, <1>2, <1>3, <1>4 DEF InStep, t, n

(* A byte of text is put in the line, or is the first that does not fit.   *)
LEMMA TextInStep ==
  ASSUME NEW r, NEW m, InStep(r, m), NEW byte \in StreamByte, byte # CR, byte # LF
  PROVE  /\ InStep(TakeByte(r, byte), MeantByte(m, byte))
         /\ TakeByte(r, byte).used = r.used
         /\ Queued(TakeByte(r, byte)) <= Queued(r) + 1
<1> DEFINE t == TakeByte(r, byte)
           n == MeantByte(m, byte)
<1>1. /\ r \in ReaderType /\ m \in MeantType
      /\ LineHeld(r, m) /\ EventHeld(r, m)
      /\ GivenOut(r, m)
  BY DEF InStep
<1>2. /\ m.line \in Seq(StreamByte) /\ Len(m.line) \in Nat
      /\ r.line \in Seq(StreamByte) /\ Len(r.line) \in Nat /\ r.lineOver \in BOOLEAN
      /\ Append(m.line, byte) \in Seq(StreamByte) /\ Append(r.line, byte) \in Seq(StreamByte)
      /\ Len(Append(m.line, byte)) = Len(m.line) + 1
      /\ Len(Append(r.line, byte)) = Len(r.line) + 1
  BY <1>1 DEF ReaderType, MeantType
<1>3. n = [m EXCEPT !.line = Append(m.line, byte), !.cr = FALSE]
  BY DEF MeantByte
<1>4. /\ n \in MeantType /\ n.line = Append(m.line, byte) /\ n.cr = FALSE
      /\ n.data = m.data /\ n.has = m.has /\ n.short = m.short
      /\ n.events = m.events /\ n.lost = m.lost /\ n.disputed = m.disputed
  BY <1>1, <1>2, <1>3 DEF MeantType
<1> HIDE DEF n
<1>5. CASE Len(r.line) < MaxEventBytes
  <2>1. r.lineOver = FALSE /\ r.line = m.line
    BY <1>1, <1>2, <1>5, QueueSize DEF LineHeld, Prefix
  <2>2. t = [r EXCEPT !.cr = FALSE, !.line = Append(r.line, byte)]
    BY <1>1, <1>5 DEF TakeByte, ReaderType
  <2>3. /\ t \in ReaderType
        /\ t.line = Append(r.line, byte) /\ t.lineOver = r.lineOver /\ t.cr = FALSE
        /\ t.event = r.event /\ t.has = r.has /\ t.eventOver = r.eventOver
        /\ t.used = r.used /\ t.out = r.out /\ t.dropped = r.dropped
    BY <1>1, <1>2, <2>2 DEF ReaderType
  <2> HIDE DEF t
  <2>6. t.line = n.line /\ t.cr = n.cr /\ t.lineOver = FALSE
    BY <1>4, <2>1, <2>3
  <2>7. ~ (Len(n.line) > MaxEventBytes)
    BY <1>2, <1>4, <1>5, <2>1, QueueSize
  <2>4. LineHeld(t, n)
    BY <2>6, <2>7 DEF LineHeld
  <2>5. EventHeld(t, n)
    BY <1>1, <1>4, <2>3 DEF EventHeld
  <2> QED
    BY <1>1, <1>2, <1>4, <2>3, <2>4, <2>5 DEF InStep, ReaderType, Queued, t, n
<1>6. CASE ~ (Len(r.line) < MaxEventBytes)
  <2>1. /\ Len(m.line) >= MaxEventBytes /\ Len(Append(m.line, byte)) > MaxEventBytes
        /\ r.line = Prefix(m.line, MaxEventBytes)
    BY <1>1, <1>2, <1>6, QueueSize DEF LineHeld, Prefix
  <2>2. Prefix(Append(m.line, byte), MaxEventBytes) = Prefix(m.line, MaxEventBytes)
    BY <1>2, <2>1, QueueSize DEF Prefix
  <2>3. t = [r EXCEPT !.cr = FALSE, !.lineOver = TRUE]
    BY <1>1, <1>6 DEF TakeByte, ReaderType
  <2>4. /\ t \in ReaderType
        /\ t.line = r.line /\ t.lineOver = TRUE /\ t.cr = FALSE
        /\ t.event = r.event /\ t.has = r.has /\ t.eventOver = r.eventOver
        /\ t.used = r.used /\ t.out = r.out /\ t.dropped = r.dropped
    BY <1>1, <2>3 DEF ReaderType
  <2> HIDE DEF t
  <2>5. LineHeld(t, n)
    BY <1>4, <2>1, <2>2, <2>4 DEF LineHeld
  <2>6. EventHeld(t, n)
    BY <1>1, <1>4, <2>4 DEF EventHeld
  <2> QED
    BY <1>1, <1>2, <1>4, <2>4, <2>5, <2>6 DEF InStep, ReaderType, Queued, t, n
<1> QED
  BY <1>5, <1>6
LEMMA ByteInStep ==
  ASSUME NEW r, NEW m, InStep(r, m), NEW byte \in StreamByte, r.has => HasRoom(r)
  PROVE  /\ InStep(TakeByte(r, byte), MeantByte(m, byte))
         /\ Queued(TakeByte(r, byte)) <= Queued(r) + 1
         /\ r.used = 0 => \/ TakeByte(r, byte).used = 0
                          \/ Queued(TakeByte(r, byte)) <= 2 + MaxEventBytes
<1> DEFINE l == TakeLine(r)
           n == MeantLine(m)
<1>1. /\ InStep(l, n) /\ Queued(l) <= Queued(r) + 1
      /\ r.used = 0 => l.used = 0 \/ Queued(l) <= 2 + MaxEventBytes
  BY LineInStep
<1>2. CASE byte = CR
  <2>1. TakeByte(r, byte) = [l EXCEPT !.cr = TRUE] /\ MeantByte(m, byte) = [n EXCEPT !.cr = TRUE]
    BY <1>2 DEF TakeByte, MeantByte
  <2> HIDE DEF l, n
  <2>2. /\ InStep([l EXCEPT !.cr = TRUE], [n EXCEPT !.cr = TRUE])
        /\ [l EXCEPT !.cr = TRUE].used = l.used
        /\ Queued([l EXCEPT !.cr = TRUE]) = Queued(l)
    BY <1>1, MarkInStep
  <2> QED
    BY <1>1, <2>1, <2>2
<1>3. CASE byte = LF /\ r.cr
  <2>1. m.cr
    BY <1>3 DEF InStep, LineHeld
  <2>2. TakeByte(r, byte) = [r EXCEPT !.cr = FALSE] /\ MeantByte(m, byte) = [m EXCEPT !.cr = FALSE]
    BY <1>3, <2>1 DEF TakeByte, MeantByte, CR, LF
  <2>3. Queued(r) \in Nat
    BY DEF InStep, ReaderType, Queued
  <2>4. /\ InStep([r EXCEPT !.cr = FALSE], [m EXCEPT !.cr = FALSE])
        /\ [r EXCEPT !.cr = FALSE].used = r.used
        /\ Queued([r EXCEPT !.cr = FALSE]) = Queued(r)
    BY MarkInStep
  <2> QED
    BY <2>2, <2>3, <2>4
<1>4. CASE byte = LF /\ ~ r.cr
  <2>1. ~ m.cr
    BY <1>4 DEF InStep, LineHeld
  <2>2. TakeByte(r, byte) = l /\ MeantByte(m, byte) = n
    BY <1>4, <2>1 DEF TakeByte, MeantByte, CR, LF
  <2> HIDE DEF l, n
  <2> QED
    BY <1>1, <2>2
<1>5. CASE byte # CR /\ byte # LF
  <2>1. Queued(r) \in Nat
    BY DEF InStep, ReaderType, Queued
  <2> QED
    BY <1>5, TextInStep
<1> QED
  BY <1>2, <1>3, <1>4, <1>5

(* The room the queue has, for what is in hand (QueueHasRoom).             *)
LEMMA RoomForEvent ==
  ASSUME NEW r, NEW m, InStep(r, m), r.has,
         r.used = 0 \/ Queued(r) <= 2 + MaxEventBytes + MaxBlock
  PROVE  HasRoom(r)
<1>1. /\ r.used \in Nat /\ Len(r.event) \in Nat /\ Len(r.line) \in Nat
      /\ Len(r.event) <= MaxEventBytes
  BY DEF InStep, ReaderType, EventHeld
<1>2. Queued(r) = r.used + Len(r.event) + 2 + Len(r.line)
  BY DEF Queued
<1>3. \A used, event, line, limit, longest \in Nat :
        /\ event <= limit /\ longest + 2 <= limit
        /\ used = 0 \/ used + event + 2 + line <= 2 + limit + longest
        => used + 2 + event <= 2 * limit
  OBVIOUS
<1>4. MaxBlock \in Nat /\ MaxBlock + 2 <= MaxEventBytes
  BY BlocksAreShort
<1> QED
  BY <1>1, <1>2, <1>3, <1>4, QueueSize DEF HasRoom

(* SseInv, the inductive invariant.                                        *)
LEMMA InvIsInStep == SseInv <=> SseTypeOK /\ InStep(reader, meant) /\ QueueHasRoom
  BY DEF SseInv, InStep, SseTypeOK

THEOREM SseInitial == SseInit => SseInv
<1> SUFFICES ASSUME SseInit PROVE SseInv
  OBVIOUS
<1>1. stream \in Seq(StreamByte)
  BY StreamsAreBytes DEF SseInit
<1>2. SseTypeOK
  <2>1. <<>> \in Seq(Seq(StreamByte)) /\ <<>> \in Seq(StreamByte)
    OBVIOUS
  <2>2. reader \in ReaderType
    BY <2>1 DEF SseInit, SseStart, ReaderType
  <2>3. meant \in MeantType
    BY <2>1 DEF SseInit, SseStart, MeantType
  <2>4. received = 0 /\ block = 0 /\ ended = FALSE /\ Len(stream) \in Nat /\ MaxBlock \in Nat
    BY <1>1, BlocksAreShort DEF SseInit, SseStart
  <2>5. received \in Nat /\ block \in 0 .. MaxBlock /\ received + block <= Len(stream)
    BY <2>4
  <2>6. ended \in BOOLEAN /\ (ended => received = Len(stream))
    BY <2>4
  <2> QED
    BY <1>1, <2>2, <2>3, <2>5, <2>6 DEF SseTypeOK
<1>3. LineHeld(reader, meant) /\ EventHeld(reader, meant) /\ QueueHasRoom /\ GivenOut(reader, meant)
  BY QueueSize DEF SseInit, SseStart, LineHeld, EventHeld, QueueHasRoom
<1> QED
  BY <1>2, <1>3 DEF SseInv

LEMMA ReadByteKeeps == SseInv /\ ReadByte => SseInv'
<1> SUFFICES ASSUME SseInv, ReadByte PROVE SseInv'
  OBVIOUS
<1>1. SseTypeOK /\ InStep(reader, meant) /\ QueueHasRoom
  BY InvIsInStep
<1>2. /\ stream \in Seq(StreamByte) /\ received \in Nat /\ block \in 0 .. MaxBlock
      /\ received + block <= Len(stream) /\ ended \in BOOLEAN
      /\ (ended => received = Len(stream)) /\ MaxBlock \in Nat
  BY <1>1, BlocksAreShort DEF SseTypeOK
<1>3. /\ block > 0
      /\ reader' = TakeByte(reader, stream[received + 1])
      /\ meant' = MeantByte(meant, stream[received + 1])
      /\ received' = received + 1 /\ block' = block - 1
      /\ stream' = stream /\ ended' = ended
  BY DEF ReadByte
<1>4. ~ ended /\ stream[received + 1] \in StreamByte
  BY <1>2, <1>3
<1>5. Queued(reader) \in Nat
  BY <1>1 DEF InStep, ReaderType, Queued
<1>6. reader.used = 0 \/ Queued(reader) + block <= 1 + MaxEventBytes + MaxBlock
  BY <1>1, <1>4 DEF QueueHasRoom
<1>7. reader.used = 0 \/ Queued(reader) <= 2 + MaxEventBytes + MaxBlock
  BY <1>2, <1>3, <1>5, <1>6, QueueSize
<1>8. /\ InStep(reader', meant')
      /\ Queued(reader') <= Queued(reader) + 1
      /\ reader.used = 0 => reader'.used = 0 \/ Queued(reader') <= 2 + MaxEventBytes
  BY <1>1, <1>3, <1>4, <1>7, RoomForEvent, ByteInStep
<1>9. SseTypeOK'
  BY <1>2, <1>3, <1>4, <1>8 DEF SseTypeOK, InStep
<1>10. Queued(reader') \in Nat
  BY <1>8 DEF InStep, ReaderType, Queued
<1>11. QueueHasRoom'
  <2>1. reader'.used = 0 \/ Queued(reader') + block' <= 1 + MaxEventBytes + MaxBlock
    <3>1. CASE reader.used = 0
      BY <1>2, <1>3, <1>8, <1>10, <3>1, QueueSize
    <3>2. CASE Queued(reader) + block <= 1 + MaxEventBytes + MaxBlock
      BY <1>2, <1>3, <1>5, <1>8, <1>10, <3>2, QueueSize
    <3> QED
      BY <1>6, <3>1, <3>2
  <2> QED
    BY <2>1 DEF QueueHasRoom, Queued
<1>12. InStep(reader, meant)'
  BY <1>8 DEF InStep, LineHeld, EventHeld
<1> QED
  BY <1>9, <1>11, <1>12, InvIsInStep, PTL

LEMMA ReceiveKeeps == SseInv /\ (\E length \in 1 .. MaxBlock : ReceiveBlock(length)) => SseInv'
<1> SUFFICES ASSUME SseInv, NEW length \in 1 .. MaxBlock, ReceiveBlock(length) PROVE SseInv'
  OBVIOUS
<1>1. SseTypeOK /\ InStep(reader, meant) /\ QueueHasRoom
  BY InvIsInStep
<1>2. /\ block' = length /\ reader' = [reader EXCEPT !.used = 0]
      /\ received + length <= Len(stream)
      /\ stream' = stream /\ received' = received /\ ended' = ended /\ meant' = meant
  BY DEF ReceiveBlock
<1>3. reader \in ReaderType
  BY <1>1 DEF SseTypeOK
<1>4. /\ reader' \in ReaderType /\ reader'.used = 0
      /\ reader'.line = reader.line /\ reader'.lineOver = reader.lineOver /\ reader'.cr = reader.cr
      /\ reader'.event = reader.event /\ reader'.has = reader.has
      /\ reader'.eventOver = reader.eventOver
      /\ reader'.out = reader.out /\ reader'.dropped = reader.dropped
  BY <1>2, <1>3 DEF ReaderType
<1>5. SseTypeOK'
  BY <1>1, <1>2, <1>4, BlocksAreShort DEF SseTypeOK
<1>6. LineHeld(reader, meant)' /\ EventHeld(reader, meant)' /\ GivenOut(reader, meant)'
  BY <1>1, <1>2, <1>4 DEF InStep, LineHeld, EventHeld
<1>7. QueueHasRoom'
  BY <1>4 DEF QueueHasRoom
<1> QED
  BY <1>5, <1>6, <1>7 DEF SseInv

LEMMA FinishKeeps == SseInv /\ FinishStream => SseInv'
<1> SUFFICES ASSUME SseInv, FinishStream PROVE SseInv'
  OBVIOUS
<1> DEFINE blank == meant.line = <<>>
           r == IF blank THEN reader ELSE TakeLine(reader)
           m == IF blank THEN meant ELSE MeantLine(meant)
<1>1. SseTypeOK /\ InStep(reader, meant) /\ QueueHasRoom
  BY InvIsInStep
<1>2. /\ block = 0 /\ received = Len(stream) /\ ~ ended
      /\ reader' = Finished(reader) /\ meant' = MeantEnd(meant) /\ ended' = TRUE
      /\ stream' = stream /\ received' = received /\ block' = block
  BY DEF FinishStream
<1>3. Queued(reader) \in Nat /\ MaxBlock \in Nat
  BY <1>1, BlocksAreShort DEF InStep, ReaderType, Queued
<1>4. reader.used = 0 \/ Queued(reader) <= 1 + MaxEventBytes + MaxBlock
  BY <1>1, <1>2, <1>3 DEF QueueHasRoom
<1>5. blank <=> ~ (reader.line # <<>> \/ reader.lineOver)
  BY <1>1, QueueSize DEF InStep, LineHeld, ReaderType, MeantType, Prefix
<1>6. reader' = Dispatch(r) /\ meant' = MeantEvent(m)
  BY <1>2, <1>5 DEF Finished, MeantEnd
<1>7. InStep(r, m) /\ (r.used = 0 \/ Queued(r) <= 2 + MaxEventBytes + MaxBlock)
  <2>1. CASE blank
    BY <1>1, <1>3, <1>4, <2>1, QueueSize
  <2>2. CASE ~ blank
    <3> DEFINE t == TakeLine(reader)
               n == MeantLine(meant)
    <3>1. reader.has => HasRoom(reader)
      <4>1. reader.used = 0 \/ Queued(reader) <= 2 + MaxEventBytes + MaxBlock
        BY <1>3, <1>4, QueueSize
      <4> QED
        BY <1>1, <4>1, RoomForEvent
    <3>2. /\ InStep(t, n) /\ Queued(t) <= Queued(reader) + 1
          /\ reader.used = 0 => t.used = 0 \/ Queued(t) <= 2 + MaxEventBytes
      BY <1>1, <3>1, LineInStep
    <3>3. r = t /\ m = n
      BY <2>2
    <3> HIDE DEF t, n, r, m
    <3>4. Queued(t) \in Nat
      BY <3>2 DEF InStep, ReaderType, Queued
    <3>5. t.used = 0 \/ Queued(t) <= 2 + MaxEventBytes + MaxBlock
      BY <1>3, <1>4, <3>2, <3>4, QueueSize
    <3> QED
      BY <3>2, <3>3, <3>5
  <2> QED
    BY <2>1, <2>2
<1> HIDE DEF r, m
<1>8. InStep(reader', meant')
  BY <1>6, <1>7, RoomForEvent, DispatchInStep
<1>9. SseTypeOK'
  BY <1>1, <1>2, <1>8, BlocksAreShort DEF SseTypeOK, InStep
<1>10. LineHeld(reader, meant)' /\ EventHeld(reader, meant)' /\ GivenOut(reader, meant)'
  BY <1>8 DEF InStep, LineHeld, EventHeld
<1>11. QueueHasRoom'
  BY <1>2 DEF QueueHasRoom
<1> QED
  BY <1>9, <1>10, <1>11 DEF SseInv

(* The reader's buffers and its queue, and what it has given out, are at   *)
(* every moment what the bytes so far mean.                                *)
THEOREM SseInvariance == SseSpec => []SseInv
<1>1. SseInv /\ [SseNext]_sseVars => SseInv'
  <2> SUFFICES ASSUME SseInv, [SseNext]_sseVars PROVE SseInv'
    OBVIOUS
  <2>1. CASE ReadByte
    BY <2>1, ReadByteKeeps
  <2>2. CASE FinishStream
    BY <2>2, FinishKeeps
  <2>3. CASE \E length \in 1 .. MaxBlock : ReceiveBlock(length)
    BY <2>3, ReceiveKeeps
  <2>4. CASE UNCHANGED sseVars
    BY <2>4 DEF sseVars, SseInv, SseTypeOK, LineHeld, EventHeld, QueueHasRoom, Queued
  <2> QED
    BY <2>1, <2>2, <2>3, <2>4 DEF SseNext
<1> QED
  BY <1>1, SseInitial, PTL DEF SseSpec

(* However the answer is cut into blocks, every event of at most           *)
(* MaxEventBytes of data is given out once, whole and in order; every      *)
(* other one is counted; and the queue is never what an event does not     *)
(* fit.  (Of answers with an event whose data fit and a line of which does *)
(* not, SseInv says what becomes of them.)                                 *)
THEOREM EventsComeOutWhole == SseSpec => []SseDelivers
<1>1. SseInv => SseDelivers
  <2> SUFFICES ASSUME SseInv, meant.disputed = 0
               PROVE  reader.out = meant.events /\ reader.dropped = meant.lost
    BY DEF SseDelivers
  <2>1. meant.lost \in Nat
    BY DEF SseInv, SseTypeOK, MeantType
  <2> QED
    BY <2>1 DEF SseInv
<1> QED
  BY <1>1, SseInvariance, PTL
=============================================================================
