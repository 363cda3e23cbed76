-------------------------------- MODULE Sse --------------------------------
(***************************************************************************)
(* SseReader: assembles server-sent events from the bytes of the gateway's *)
(* answer.  They arrive in blocks cut anywhere, each read byte by byte; the *)
(* conversation takes every finished event after each block.  The buffers  *)
(* have a fixed size, and an event that does not fit is counted and        *)
(* discarded as a whole.                                                   *)
(*                                                                         *)
(* A byte is a one-letter string, CR or LF; a field's name is one byte.     *)
(***************************************************************************)
EXTENDS Integers, Sequences

CONSTANTS
  StreamByte,     \* the bytes an answer is made of
  Streams,        \* the answers that may arrive, as sequences of bytes
  MaxEventBytes,  \* kMaxEventBytes: the line's and the event's buffers
  MaxBlock        \* the longest block received at once, chunk in converse

CR == "CR"
LF == "LF"

ASSUME StreamsAreBytes == LF \in StreamByte /\ Streams \subseteq Seq(StreamByte)
\* A whole event still fits the queue behind those of one block.
ASSUME BlocksAreShort ==
  /\ MaxEventBytes \in Nat /\ MaxBlock \in Nat
  /\ MaxBlock + 2 <= MaxEventBytes

VARIABLES
  stream, received,  \* what arrives, and how many bytes of it have been read
  block,             \* bytes of the block in hand still to be read
  reader,
  ended,             \* finish has been called
  \* history
  meant              \* what the bytes read mean

sseVars == <<stream, received, block, reader, ended, meant>>

DataName == <<"d">>

QueueLimit == 2 * MaxEventBytes   \* fifo_, [2-byte length][body] each

Prefix(bytes, length) == SubSeq(bytes, 1, length)

\* The bytes before the first colon, the whole line when there is none.
NameLength(line) ==
  CHOOSE n \in 0 .. Len(line) : /\ n = Len(line) \/ line[n + 1] = ":"
                                /\ \A i \in 1 .. n : line[i] # ":"
Name(line) == Prefix(line, NameLength(line))

\* One leading space is not part of the value.
Value(line) ==
  LET value == SubSeq(line, NameLength(line) + 2, Len(line))
  IN IF value # <<>> /\ value[1] = " " THEN Tail(value) ELSE value

(***************************************************************************)
(* The reader: line and event are the two buffers, lineOver and eventOver  *)
(* say that one of them was too small, has that the event has data; out is *)
(* every event queued, used the bytes of the queue in use.                 *)
(***************************************************************************)
Dispatch(r) ==
  LET need == 2 + Len(r.event)
      fits == ~ r.eventOver /\ r.used + need <= QueueLimit
      done == [r EXCEPT !.event = <<>>, !.has = FALSE, !.eventOver = FALSE]
  IN IF ~ r.has THEN done
     ELSE IF fits THEN [done EXCEPT !.out = Append(@, r.event), !.used = @ + need]
     ELSE [done EXCEPT !.dropped = @ + 1]

(* Mutant of AddData: a line that was cut short is taken as it is. *)
AddDataCut(r, value) ==
  LET joined == IF r.has THEN r.event \o <<LF>> \o value ELSE value
  IN IF Len(joined) > MaxEventBytes
     THEN [r EXCEPT !.eventOver = TRUE, !.has = TRUE]
     ELSE [r EXCEPT !.event = joined, !.has = TRUE]

AddData(r, value) ==
  LET joined == IF r.has THEN r.event \o <<LF>> \o value ELSE value
  IN IF r.lineOver \/ Len(joined) > MaxEventBytes
     THEN [r EXCEPT !.eventOver = TRUE, !.has = TRUE]
     ELSE [r EXCEPT !.event = joined, !.has = TRUE]

InterpretLine(r) ==
  IF r.line = <<>> /\ ~ r.lineOver THEN Dispatch(r)
  ELSE IF r.line[1] = ":" \/ Name(r.line) # DataName THEN r
  ELSE AddData(r, Value(r.line))

TakeLine(r) == [InterpretLine(r) EXCEPT !.line = <<>>, !.lineOver = FALSE]

\* The LF of a CRLF ends nothing: the CR has ended the line.
TakeByte(r, byte) ==
  IF byte = CR THEN [TakeLine(r) EXCEPT !.cr = TRUE]
  ELSE IF byte = LF THEN IF r.cr THEN [r EXCEPT !.cr = FALSE] ELSE TakeLine(r)
  ELSE IF Len(r.line) < MaxEventBytes THEN [r EXCEPT !.cr = FALSE, !.line = Append(@, byte)]
  ELSE [r EXCEPT !.cr = FALSE, !.lineOver = TRUE]

Finished(r) == Dispatch(IF r.line # <<>> \/ r.lineOver THEN TakeLine(r) ELSE r)

-----------------------------------------------------------------------------
(* What the bytes mean, to a reader that never runs out of room: the line  *)
(* so far, the data of the event so far and whether all its lines were     *)
(* short enough, the events, and how many were lost because their data are *)
(* longer than an event may be.  Apart from both stand the disputed ones:  *)
(* their data are short enough, but a line of them, name and colon         *)
(* included, is not.  The contract accepts them (sse.hpp:53-63) and the    *)
(* line's buffer does not.                                                 *)

IsData(line) == line # <<>> /\ line[1] # ":" /\ Name(line) = DataName

MeantEvent(m) ==
  LET next == [m EXCEPT !.data = <<>>, !.has = FALSE, !.short = TRUE]
  IN IF ~ m.has THEN m
     ELSE IF Len(m.data) > MaxEventBytes THEN [next EXCEPT !.lost = @ + 1]
     ELSE IF m.short THEN [next EXCEPT !.events = Append(@, m.data)]
     ELSE [next EXCEPT !.disputed = @ + 1]

MeantLine(m) ==
  LET joined == IF m.has THEN m.data \o <<LF>> \o Value(m.line) ELSE Value(m.line)
      next   == [m EXCEPT !.line = <<>>]
  IN IF m.line = <<>> THEN MeantEvent(m)
     ELSE IF ~ IsData(m.line) THEN next
     ELSE [next EXCEPT !.data = joined, !.has = TRUE,
                       !.short = @ /\ Len(m.line) <= MaxEventBytes]

MeantByte(m, byte) ==
  IF byte = CR THEN [MeantLine(m) EXCEPT !.cr = TRUE]
  ELSE IF byte = LF THEN IF m.cr THEN [m EXCEPT !.cr = FALSE] ELSE MeantLine(m)
  ELSE [m EXCEPT !.line = Append(@, byte), !.cr = FALSE]

MeantEnd(m) == MeantEvent(IF m.line = <<>> THEN m ELSE MeantLine(m))

-----------------------------------------------------------------------------
SseStart ==
  /\ received = 0 /\ block = 0 /\ ended = FALSE
  /\ reader = [line |-> <<>>, lineOver |-> FALSE, cr |-> FALSE,
               event |-> <<>>, has |-> FALSE, eventOver |-> FALSE,
               used |-> 0, out |-> <<>>, dropped |-> 0]
  /\ meant = [line |-> <<>>, cr |-> FALSE, data |-> <<>>, has |-> FALSE, short |-> TRUE,
              events |-> <<>>, lost |-> 0, disputed |-> 0]

SseInit == stream \in Streams /\ SseStart

(* Mutant of ReceiveBlock: the queue is drained, but never rewound. *)
ReceiveBlockBehind(length) ==
  /\ block = 0 /\ received + length <= Len(stream)
  /\ block' = length
  /\ UNCHANGED <<stream, received, reader, ended, meant>>

\* The queue was drained after the block before, and is rewound.
ReceiveBlock(length) ==
  /\ block = 0 /\ received + length <= Len(stream)
  /\ block' = length
  /\ reader' = [reader EXCEPT !.used = 0]
  /\ UNCHANGED <<stream, received, ended, meant>>

ReadByte ==
  /\ block > 0
  /\ reader' = TakeByte(reader, stream[received + 1])
  /\ meant' = MeantByte(meant, stream[received + 1])
  /\ received' = received + 1 /\ block' = block - 1
  /\ UNCHANGED <<stream, ended>>

\* A last line without its end, and an event without its blank line.
FinishStream ==
  /\ block = 0 /\ received = Len(stream) /\ ~ ended
  /\ reader' = Finished(reader)
  /\ meant' = MeantEnd(meant)
  /\ ended' = TRUE
  /\ UNCHANGED <<stream, received, block>>

SseNext == ReadByte \/ FinishStream \/ \E length \in 1 .. MaxBlock : ReceiveBlock(length)

SseSpec == SseInit /\ [][SseNext]_sseVars

-----------------------------------------------------------------------------
\* However the stream is cut into blocks, the reader has given out, after every
\* byte, what one with all the room it takes would, less the events whose data
\* exceed the limit, which are the ones it counts: nothing of them gets into
\* another event, and none is lost to a full queue.  Nothing is said of a
\* stream that had a disputed event.
SseDelivers ==
  meant.disputed = 0 => reader.out = meant.events /\ reader.dropped = meant.lost

\* An event is dropped only if it is larger than the largest accepted
\* (sse.hpp:53-63).
OnlyTooLongIsDropped == reader.dropped = meant.lost

(* The inductive invariant: the buffers hold what was meant or the part of *)
(* it that fits, and say which; and what a block puts in the queue is      *)
(* bounded by what was being assembled before it and its own bytes.        *)
ReaderType ==
  [line : Seq(StreamByte), lineOver : BOOLEAN, cr : BOOLEAN,
   event : Seq(StreamByte), has : BOOLEAN, eventOver : BOOLEAN,
   used : Nat, out : Seq(Seq(StreamByte)), dropped : Nat]

MeantType ==
  [line : Seq(StreamByte), cr : BOOLEAN, data : Seq(StreamByte), has : BOOLEAN,
   short : BOOLEAN, events : Seq(Seq(StreamByte)), lost : Nat, disputed : Nat]

SseTypeOK ==
  /\ stream \in Seq(StreamByte) /\ received \in Nat /\ block \in 0 .. MaxBlock
  /\ received + block <= Len(stream)
  /\ ended \in BOOLEAN /\ (ended => received = Len(stream))
  /\ reader \in ReaderType /\ meant \in MeantType

LineHeld(r, m) ==
  /\ r.cr = m.cr
  /\ r.lineOver <=> Len(m.line) > MaxEventBytes
  /\ r.line = IF r.lineOver THEN Prefix(m.line, MaxEventBytes) ELSE m.line

EventHeld(r, m) ==
  /\ r.has = m.has
  /\ r.eventOver <=> ~ m.short \/ Len(m.data) > MaxEventBytes
  /\ ~ r.eventOver => r.event = m.data
  /\ ~ r.has => r.event = <<>> /\ m.data = <<>> /\ m.short
  /\ Len(r.event) <= MaxEventBytes

(* What is in the queue, and what the line and the event would add to it.  *)
Queued(r) == r.used + Len(r.event) + (IF r.has THEN 2 ELSE 0) + Len(r.line)

QueueHasRoom ==
  ended \/ reader.used = 0 \/ Queued(reader) + block <= 1 + MaxEventBytes + MaxBlock

(* What the code does with a disputed event: it counts it with the others. *)
GivenOut(r, m) == r.out = m.events /\ r.dropped = m.lost + m.disputed

SseInv ==
  /\ SseTypeOK
  /\ LineHeld(reader, meant) /\ EventHeld(reader, meant) /\ GivenOut(reader, meant)
  /\ QueueHasRoom
=============================================================================
