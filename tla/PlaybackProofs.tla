--------------------------- MODULE PlaybackProofs ---------------------------
(***************************************************************************)
(* Proofs about the way of a reply to the speaker, for any number of       *)
(* events and pieces, any stage and any clock.  The parts of the invariant *)
(* are proved one after the other, action by action.                       *)
(***************************************************************************)
EXTENDS Playback, TLAPS

(* What two sequences in a row, and a part of one, consist of. *)
LEMMA Joined ==
  ASSUME NEW S, NEW s \in Seq(S), NEW t \in Seq(S)
  PROVE  /\ s \o t \in Seq(S) /\ Len(s \o t) = Len(s) + Len(t)
         /\ \A i \in 1 .. Len(s \o t) : (s \o t)[i] = IF i <= Len(s) THEN s[i] ELSE t[i - Len(s)]
OBVIOUS

(* The two parts a sequence is cut into. *)
LEMMA Parts ==
  ASSUME NEW S, NEW s \in Seq(S), NEW n \in 0 .. Len(s)
  PROVE  /\ SubSeq(s, 1, n) \in Seq(S) /\ Len(SubSeq(s, 1, n)) = n
         /\ \A i \in 1 .. n : SubSeq(s, 1, n)[i] = s[i]
         /\ SubSeq(s, n + 1, Len(s)) \in Seq(S) /\ Len(SubSeq(s, n + 1, Len(s))) = Len(s) - n
         /\ \A i \in 1 .. Len(s) - n : SubSeq(s, n + 1, Len(s))[i] = s[n + i]
OBVIOUS

(* What taking moves from the event to the stage. *)
LEMMA TakeMoves ==
  ASSUME Inv, Take
  PROVE  \E n \in 0 .. Len(todo.audio) :
           /\ stage' = stage \o SubSeq(todo.audio, 1, n) /\ stage' \in Seq(Piece)
           /\ Len(stage') = Len(stage) + n /\ Len(stage') <= Capacity
           /\ written \in 0 .. Len(stage')
           /\ todo' = [todo EXCEPT !.audio = SubSeq(todo.audio, n + 1, Len(todo.audio))]
           /\ SubSeq(todo.audio, n + 1, Len(todo.audio)) \in Seq(Piece)
<1> DEFINE n == IF Room < Len(todo.audio) THEN Room ELSE Len(todo.audio)
<1>1. todo.audio \in Seq(Piece) /\ stage \in Seq(Piece) /\ Len(stage) <= Capacity
  BY DEF Inv, TypeOK, Queues
<1>2. Room > 0 /\ stage' = stage \o SubSeq(todo.audio, 1, n)
      /\ todo' = [todo EXCEPT !.audio = SubSeq(todo.audio, n + 1, Len(todo.audio))]
  BY DEF Take
<1>3. Len(todo.audio) \in Nat /\ Len(stage) \in Nat
  BY <1>1
<1>4. n \in 0 .. Len(todo.audio) /\ Len(stage) + n <= Capacity
  <2>1. Room = Capacity - Len(stage)
    BY <1>2 DEF Room
  <2>2. Room \in Nat
    BY <1>1, <1>3, <2>1, BoundsAreNat
  <2>3. n \in Nat /\ n <= Len(todo.audio) /\ n <= Room
    BY <1>3, <2>2
  <2>4. QED
    BY <1>3, <2>1, <2>2, <2>3, BoundsAreNat
<1> HIDE DEF n
<1>5. SubSeq(todo.audio, 1, n) \in Seq(Piece) /\ Len(SubSeq(todo.audio, 1, n)) = n
      /\ SubSeq(todo.audio, n + 1, Len(todo.audio)) \in Seq(Piece)
  BY <1>1, <1>4, Parts
<1>6. stage \o SubSeq(todo.audio, 1, n) \in Seq(Piece)
      /\ Len(stage \o SubSeq(todo.audio, 1, n)) = Len(stage) + n
  BY <1>1, <1>5, Joined
<1>7. stage' \in Seq(Piece) /\ Len(stage') = Len(stage) + n /\ Len(stage') <= Capacity
  BY <1>2, <1>4, <1>6
<1>8. written \in 0 .. Len(stage')
  <2>1. written \in 0 .. Len(stage)
    BY DEF Inv, TypeOK, Queues
  <2>2. QED
    BY <1>3, <1>4, <1>7, <2>1
<1>9. QED
  BY <1>2, <1>4, <1>5, <1>7, <1>8

(* The clock's arithmetic stays on the clock. *)
LEMMA LaterOnClock ==
  ASSUME NEW t \in Clock
  PROVE  /\ Later(t, SinkDepth) \in Clock
         /\ Modulus > 1 => Later(t, 1) \in Clock
BY BoundsAreNat, TurnFitsClock DEF Clock, Later

(* Nothing to do is a kind of thing to do. *)
ToDo == [sentences : Seq(Expression), audio : Seq(Piece), result : Outcome \cup {None}]

(* Doing nothing is one of them. *)
LEMMA NothingToDo == Nothing \in ToDo
<1>1. <<>> \in Seq(Expression) /\ <<>> \in Seq(Piece)
  OBVIOUS
<1>2. QED
  BY <1>1 DEF Nothing, ToDo

(* The sentences a text is cut into. *)
LEMMA TextIsCut ==
  ASSUME Names, Flags, NEW text \in Text, NEW last \in BOOLEAN
  PROVE  /\ Marked(text) \in Expression
         /\ Segments(text) \in Seq(Expression)
         /\ Segments(text) \o Flush(text, last) \in Seq(Expression)
<1>1. text.mark \in Expression \cup {Same}
  BY DEF Text, NoText, BadText
<1>2. Marked(text) \in Expression
  BY <1>1 DEF Marked, Names
<1>3. CutBy(text) \in Seq(Expression)
  BY DEF CutBy, Names
<1>4. Closed(text) \in Seq(Expression)
  BY <1>2 DEF Closed
<1>5. Flush(text, last) \in Seq(Expression)
  BY <1>2 DEF Flush
<1>6. Segments(text) \in Seq(Expression)
  BY <1>3, <1>4 DEF Segments
<1>7. QED
  BY <1>2, <1>5, <1>6

(* What an event leaves: its number is at most the gateway's. *)
LEMMA EventCounts ==
  ASSUME Inv, seq < Events, NEW skip \in {0, 1}, NEW text \in Text,
         NEW pcm \in {Missing, Corrupt} \cup 0 .. EventMax, NEW last \in BOOLEAN,
         Event(skip, text, pcm, last)
  PROVE  /\ seq' \in 0 .. Events + 1 /\ expectedSeq' \in 0 .. Events /\ expectedSeq' <= seq'
         /\ sent' \in Nat
<1> USE DEF Inv, TypeOK, Numbers, InControl
<1>1. seq' = seq + skip + 1
  BY DEF Event
<1>4. sent' \in Nat
  BY BoundsAreNat DEF Event, Missing, Corrupt
<1>2. CASE seq + skip = expectedSeq
  <2>1. expectedSeq' = expectedSeq + 1
    BY <1>2 DEF Event, HandleAudio, InSequence
  <2>2. expectedSeq' \in 0 .. Events /\ expectedSeq' <= seq'
    BY <1>1, <1>2, <2>1, BoundsAreNat
  <2>3. QED
    BY <1>1, <2>2, BoundsAreNat, <1>4
<1>3. CASE seq + skip # expectedSeq
  <2>1. expectedSeq' = expectedSeq
    BY <1>3 DEF Event, HandleAudio, InSequence
  <2>2. QED
    BY <1>1, <2>1, BoundsAreNat, <1>4
<1>5. QED
  BY <1>2, <1>3, <1>4

(* The pieces of an event. *)
Pieces(skip, pcm) ==
  [i \in 1 .. IF pcm > 0 THEN pcm ELSE 0 |-> [no |-> sent + skip + i, meant |-> meant']]

(* What it gives the listener to do, and what becomes of the segmenter. *)
LEMMA EventBrings ==
  ASSUME Inv, NEW skip \in {0, 1}, NEW text \in Text,
         NEW pcm \in {Missing, Corrupt} \cup 0 .. EventMax, NEW last \in BOOLEAN,
         Event(skip, text, pcm, last), todo = Nothing
  PROVE  /\ meant' \in Expression /\ current' \in Expression
         /\ open' \in BOOLEAN /\ lossy' \in BOOLEAN /\ breach' \in BOOLEAN
         /\ todo' \in ToDo /\ todo'.audio \in {<<>>, Pieces(skip, pcm)}
<1> USE DEF Inv, TypeOK
<1> DEFINE p == Pieces(skip, pcm)
<1>1. HandleAudio(seq + skip, text, p, pcm, last)
  BY DEF Event, Pieces
<1>2. meant' \in Expression
  BY TextIsCut DEF Event, Names
<1>3. breach' \in BOOLEAN
  BY Zenon DEF Event
<1>4. p \in Seq(Piece)
  BY <1>2, BoundsAreNat DEF Pieces, Piece, Numbers, Missing, Corrupt
<1> HIDE DEF p
<1>5. CASE ~InSequence(seq + skip)
  <2>1. UNCHANGED <<open, current, lossy>> /\ todo' = [Nothing EXCEPT !.result = "failed"]
    BY <1>1, <1>5 DEF HandleAudio
  <2>2. todo' \in ToDo /\ todo'.audio = <<>>
    BY <2>1, NothingToDo DEF ToDo, Nothing, Outcome
  <2>3. QED
    BY <1>2, <1>3, <2>1, <2>2 DEF Flags, Names
<1>6. CASE InSequence(seq + skip)
  <2>1. lossy' \in BOOLEAN
    BY <1>1, <1>6, Zenon DEF HandleAudio
  <2>2. \/ UNCHANGED <<todo, open, current>>
        \/ Segment(text, FALSE) /\ todo' = [Nothing EXCEPT !.sentences = Segments(text)]
        \/ /\ Segment(text, FALSE)
           /\ todo' = [Nothing EXCEPT !.sentences = Segments(text), !.result = "failed"]
        \/ /\ Segment(text, last)
           /\ todo' = [Nothing EXCEPT !.sentences = Segments(text) \o Flush(text, last), !.audio = p]
    BY <1>1, <1>6 DEF HandleAudio
  <2>3. open' \in BOOLEAN
    BY <2>2, Zenon DEF Segment, Flags
  <2>4. current' \in Expression
    BY <2>2, TextIsCut DEF Segment, Names
  <2>5. todo' \in ToDo /\ todo'.audio \in {<<>>, p}
    <3>1. CASE UNCHANGED <<todo, open, current>>
      BY <3>1, NothingToDo DEF Nothing
    <3>2. CASE todo' = [Nothing EXCEPT !.sentences = Segments(text)]
      BY <3>2, TextIsCut, NothingToDo DEF Nothing, ToDo
    <3>3. CASE todo' = [Nothing EXCEPT !.sentences = Segments(text), !.result = "failed"]
      BY <3>3, TextIsCut, NothingToDo DEF Nothing, ToDo, Outcome
    <3>4. CASE todo' = [Nothing EXCEPT !.sentences = Segments(text) \o Flush(text, last), !.audio = p]
      BY <1>4, <3>4, TextIsCut, NothingToDo DEF Nothing, ToDo
    <3>5. QED
      BY <2>2, <3>1, <3>2, <3>3, <3>4
  <2>6. QED
    BY <1>2, <1>3, <2>1, <2>3, <2>4, <2>5 DEF p
<1>7. QED
  BY <1>5, <1>6

(* What the gateway's next event may leave. *)
LEMMA FeedBrings ==
  ASSUME Inv, FeedAudio
  PROVE  /\ seq' \in 0 .. Events + 1 /\ expectedSeq' \in 0 .. Events /\ expectedSeq' <= seq'
         /\ sent' \in Nat /\ meant' \in Expression /\ current' \in Expression
         /\ open' \in BOOLEAN /\ lossy' \in BOOLEAN /\ breach' \in BOOLEAN
         /\ todo' \in ToDo
<1>1. PICK skip \in {0, 1}, text \in Text, pcm \in {Missing, Corrupt} \cup 0 .. EventMax,
           last \in BOOLEAN : Event(skip, text, pcm, last)
  BY DEF FeedAudio
<1>2. seq < Events /\ todo = Nothing
  BY DEF FeedAudio, Reading
<1>3. QED
  BY <1>1, <1>2, EventCounts, EventBrings

(* Where the task is says what is left to do. *)
LEMMA ControlStep ==
  ASSUME Inv, Next
  PROVE  InControl'
<1> USE DEF Inv, TypeOK, Flags, Numbers, Names, Queues, InControl, Speaking, Nothing, gateway, turn, stager, device, control, history, time
<1>1. CASE Beep
  BY <1>1 DEF Beep
<1>2. CASE BeginTurn
  BY <1>2 DEF BeginTurn, FreshTurn, MayStopPlayback
<1>3. CASE AbortTurn
  BY <1>3 DEF AbortTurn, FreshTurn, MayStopPlayback
<1>4. CASE FeedAudio
  <2>2. expectedSeq' <= seq'
    BY <1>4, FeedBrings
  <2>3. pc = "feed" /\ UNCHANGED <<pc, ret, written, stage, outcome>>
    BY <1>4 DEF FeedAudio, Reading
  <2>4. QED
    BY <2>2, <2>3
<1>5. CASE FeedOtherRate
  BY <1>5 DEF FeedOtherRate, Reading
<1>6. CASE FeedFinished
  BY <1>6 DEF FeedFinished, Reading
<1>7. CASE AbortCancelled
  BY <1>7 DEF AbortCancelled, Reading
<1>8. CASE AbortFailed
  BY <1>8 DEF AbortFailed, Reading
<1>9. CASE OnSentence
  BY <1>9 DEF OnSentence, SpeakThen
<1>10. CASE OnAudio
  BY <1>10 DEF OnAudio
<1>11. CASE Take
  BY <1>11 DEF Take, Room
<1>12. CASE MakeRoom
  BY <1>12 DEF MakeRoom, SpeakThen
<1>13. CASE Drained
  BY <1>13 DEF Drained
<1>14. CASE Accepted
  BY <1>14 DEF Accepted
<1>15. CASE OnFinished
  BY <1>15 DEF OnFinished, SpeakThen
<1>16. CASE StartRefused
  BY <1>16 DEF StartRefused, Flushed
<1>17. CASE StartSpeaking
  BY <1>17 DEF StartSpeaking
<1>18. CASE Write
  BY <1>18 DEF Write
<1>19. CASE GiveUp
  BY <1>19 DEF GiveUp, Flushed
<1>20. CASE AllWritten
  BY <1>20 DEF AllWritten, Flushed
<1>21. CASE WindDown
  BY <1>21 DEF WindDown
<1>22. CASE Stop
  BY <1>22 DEF Stop
<1>23. CASE Token
  BY <1>23 DEF Token
<1>24. CASE Tick
  BY <1>24 DEF Tick
<1>25. QED
  BY <1>1, <1>2, <1>3, <1>4, <1>5, <1>6, <1>7, <1>8, <1>9, <1>10, <1>11, <1>12, <1>13, <1>14, <1>15, <1>16, <1>17, <1>18, <1>19, <1>20, <1>21, <1>22, <1>23, <1>24
     DEF Next, Begins, Feeds, Listens, Speaks, WindsDown

(* What sounds ends when until says. *)
LEMMA TimedStep ==
  ASSUME Inv, Next
  PROVE  Timed'
<1> USE BoundsAreNat, TurnFitsClock
<1> USE DEF Inv, TypeOK, Flags, Numbers, Names, Queues, InControl, Timed, Speaking, Clock, gateway, turn, stager, device, control, history, time
<1>1. CASE Beep
  BY <1>1 DEF Beep
<1>2. CASE BeginTurn
  BY <1>2 DEF BeginTurn, FreshTurn, MayStopPlayback
<1>3. CASE AbortTurn
  BY <1>3 DEF AbortTurn, FreshTurn, MayStopPlayback
<1>4. CASE FeedAudio
  BY <1>4 DEF FeedAudio, HandleAudio, Reading
<1>5. CASE FeedOtherRate
  BY <1>5 DEF FeedOtherRate, Reading
<1>6. CASE FeedFinished
  BY <1>6 DEF FeedFinished, Reading
<1>7. CASE AbortCancelled
  BY <1>7 DEF AbortCancelled, Reading
<1>8. CASE AbortFailed
  BY <1>8 DEF AbortFailed, Reading
<1>9. CASE OnSentence
  BY <1>9 DEF OnSentence, SpeakThen
<1>10. CASE OnAudio
  BY <1>10 DEF OnAudio
<1>11. CASE Take
  BY <1>11 DEF Take, Room
<1>12. CASE MakeRoom
  BY <1>12 DEF MakeRoom, SpeakThen
<1>13. CASE Drained
  BY <1>13 DEF Drained
<1>14. CASE Accepted
  BY <1>14 DEF Accepted
<1>15. CASE OnFinished
  BY <1>15 DEF OnFinished, SpeakThen
<1>16. CASE StartRefused
  BY <1>16 DEF StartRefused, Flushed, Later, Since
<1>17. CASE StartSpeaking
  BY <1>17 DEF StartSpeaking
<1>18. CASE Write
  BY <1>18 DEF Write
<1>19. CASE GiveUp
  BY <1>19 DEF GiveUp, Flushed, Later, Since
<1>20. CASE AllWritten
  BY <1>20 DEF AllWritten, Flushed, Later, Since
<1>21. CASE WindDown
  BY <1>21 DEF WindDown, Remaining, Since
<1>22. CASE Stop
  BY <1>22 DEF Stop
<1>23. CASE Token
  BY <1>23 DEF Token
<1>24. CASE Tick
  <2>1. pc' = pc /\ playing' = playing /\ spoke' = spoke /\ until' = until
    BY <1>24 DEF Tick
  <2>2. sounding' = Less(sounding) /\ wait' = Less(wait) /\ now' = Later(now, 1) /\ Modulus > 1
    BY <1>24 DEF Tick
  <2>3. CASE sounding <= 1
    <3>1. sounding' = 0
      BY <2>2, <2>3 DEF Less
    <3>2. QED
      BY <2>1, <3>1
  <2>4. CASE sounding > 1
    <3>1. sounding' = sounding - 1
      BY <2>2, <2>4 DEF Less
    <3>2. pc = "wait" => sounding' <= wait'
      BY <2>2, <2>4, <3>1 DEF Less
    <3>3. pc \notin {"wait", "write"} => Since(now', until') \in sounding' .. SinkDepth
      BY <2>1, <2>2, <2>4, <3>1 DEF Later, Since
    <3>4. QED
      BY <2>1, <2>4, <3>1, <3>2, <3>3
  <2>5. QED
    BY <2>3, <2>4
<1>25. QED
  BY <1>1, <1>2, <1>3, <1>4, <1>5, <1>6, <1>7, <1>8, <1>9, <1>10, <1>11, <1>12, <1>13, <1>14, <1>15, <1>16, <1>17, <1>18, <1>19, <1>20, <1>21, <1>22, <1>23, <1>24
     DEF Next, Begins, Feeds, Listens, Speaks, WindsDown

(* Every step keeps the types: the flags, *)
LEMMA FlagsStep ==
  ASSUME Inv, Next
  PROVE  Flags'
<1> USE DEF Inv, TypeOK, Flags, gateway, turn, stager, device, control, history, time
<1>1. CASE Beep
  BY <1>1 DEF Beep
<1>2. CASE BeginTurn
  BY <1>2 DEF BeginTurn, FreshTurn, MayStopPlayback
<1>3. CASE AbortTurn
  BY <1>3 DEF AbortTurn, FreshTurn, MayStopPlayback
<1>4. CASE FeedAudio
  <2>2. open' \in BOOLEAN /\ lossy' \in BOOLEAN /\ breach' \in BOOLEAN
    BY <1>4, FeedBrings
  <2>3. QED
    BY <1>4, <2>2 DEF FeedAudio
<1>5. CASE FeedOtherRate
  BY <1>5 DEF FeedOtherRate, Reading
<1>6. CASE FeedFinished
  BY <1>6 DEF FeedFinished, Reading
<1>7. CASE AbortCancelled
  BY <1>7 DEF AbortCancelled, Reading
<1>8. CASE AbortFailed
  BY <1>8 DEF AbortFailed, Reading
<1>9. CASE OnSentence
  BY <1>9 DEF OnSentence, SpeakThen
<1>10. CASE OnAudio
  BY <1>10 DEF OnAudio
<1>11. CASE Take
  BY <1>11 DEF Take, Room
<1>12. CASE MakeRoom
  BY <1>12 DEF MakeRoom, SpeakThen
<1>13. CASE Drained
  BY <1>13 DEF Drained
<1>14. CASE Accepted
  BY <1>14 DEF Accepted
<1>15. CASE OnFinished
  BY <1>15 DEF OnFinished, SpeakThen
<1>16. CASE StartRefused
  BY <1>16 DEF StartRefused, Flushed
<1>17. CASE StartSpeaking
  BY <1>17 DEF StartSpeaking
<1>18. CASE Write
  BY <1>18 DEF Write
<1>19. CASE GiveUp
  BY <1>19 DEF GiveUp, Flushed
<1>20. CASE AllWritten
  BY <1>20 DEF AllWritten, Flushed
<1>21. CASE WindDown
  BY <1>21 DEF WindDown
<1>22. CASE Stop
  BY <1>22 DEF Stop
<1>23. CASE Token
  BY <1>23 DEF Token
<1>24. CASE Tick
  BY <1>24 DEF Tick
<1>25. QED
  BY <1>1, <1>2, <1>3, <1>4, <1>5, <1>6, <1>7, <1>8, <1>9, <1>10, <1>11, <1>12, <1>13, <1>14, <1>15, <1>16, <1>17, <1>18, <1>19, <1>20, <1>21, <1>22, <1>23, <1>24
     DEF Next, Begins, Feeds, Listens, Speaks, WindsDown

(* the numbers, *)
LEMMA NumbersStep ==
  ASSUME Inv, Next
  PROVE  Numbers'
<1> USE BoundsAreNat, LaterOnClock
<1> USE DEF Inv, TypeOK, Numbers, InControl, gateway, turn, stager, device, control, history, time
<1>1. CASE Beep
  BY <1>1 DEF Beep
<1>2. CASE BeginTurn
  BY <1>2 DEF BeginTurn, FreshTurn, MayStopPlayback, Clock
<1>3. CASE AbortTurn
  BY <1>3 DEF AbortTurn, FreshTurn, MayStopPlayback
<1>4. CASE FeedAudio
  <2>2. seq' \in 0 .. Events + 1 /\ expectedSeq' \in 0 .. Events /\ sent' \in Nat
    BY <1>4, FeedBrings
  <2>3. QED
    BY <1>4, <2>2 DEF FeedAudio
<1>5. CASE FeedOtherRate
  BY <1>5 DEF FeedOtherRate, Reading
<1>6. CASE FeedFinished
  BY <1>6 DEF FeedFinished, Reading
<1>7. CASE AbortCancelled
  BY <1>7 DEF AbortCancelled, Reading
<1>8. CASE AbortFailed
  BY <1>8 DEF AbortFailed, Reading
<1>9. CASE OnSentence
  BY <1>9 DEF OnSentence, SpeakThen
<1>10. CASE OnAudio
  BY <1>10 DEF OnAudio
<1>11. CASE Take
  BY <1>11 DEF Take, Room
<1>12. CASE MakeRoom
  BY <1>12 DEF MakeRoom, SpeakThen
<1>13. CASE Drained
  BY <1>13 DEF Drained
<1>14. CASE Accepted
  BY <1>14 DEF Accepted
<1>15. CASE OnFinished
  BY <1>15 DEF OnFinished, SpeakThen
<1>16. CASE StartRefused
  BY <1>16 DEF StartRefused, Flushed
<1>17. CASE StartSpeaking
  BY <1>17 DEF StartSpeaking
<1>18. CASE Write
  BY <1>18 DEF Write
<1>19. CASE GiveUp
  BY <1>19 DEF GiveUp, Flushed
<1>20. CASE AllWritten
  BY <1>20 DEF AllWritten, Flushed
<1>21. CASE WindDown
  BY <1>21 DEF WindDown, Remaining, Since, Clock
<1>22. CASE Stop
  BY <1>22 DEF Stop
<1>23. CASE Token
  BY <1>23 DEF Token
<1>24. CASE Tick
  <2>1. now' \in Clock
    BY <1>24 DEF Tick
  <2>2. spent' \in 0 .. TurnTicks
    BY <1>24 DEF Tick
  <2>3. sounding' \in 0 .. SinkDepth
    BY <1>24 DEF Tick, Less
  <2>4. wait' \in 0 .. Modulus
    BY <1>24 DEF Tick, Less
  <2>5. QED
    BY <1>24, <2>1, <2>2, <2>3, <2>4 DEF Tick
<1>25. QED
  BY <1>1, <1>2, <1>3, <1>4, <1>5, <1>6, <1>7, <1>8, <1>9, <1>10, <1>11, <1>12, <1>13, <1>14, <1>15, <1>16, <1>17, <1>18, <1>19, <1>20, <1>21, <1>22, <1>23, <1>24
     DEF Next, Begins, Feeds, Listens, Speaks, WindsDown

(* the names, *)
LEMMA NamesStep ==
  ASSUME Inv, Next
  PROVE  Names'
<1> USE ExpressionsDistinct
<1> USE DEF Inv, TypeOK, Names, Queues, Outcome, gateway, turn, stager, device, control, history, time
<1>1. CASE Beep
  BY <1>1 DEF Beep
<1>2. CASE BeginTurn
  BY <1>2 DEF BeginTurn, FreshTurn, MayStopPlayback
<1>3. CASE AbortTurn
  BY <1>3 DEF AbortTurn, FreshTurn, MayStopPlayback
<1>4. CASE FeedAudio
  <2>2. meant' \in Expression /\ current' \in Expression
    BY <1>4, FeedBrings
  <2>3. QED
    BY <1>4, <2>2 DEF FeedAudio
<1>5. CASE FeedOtherRate
  BY <1>5 DEF FeedOtherRate, Reading
<1>6. CASE FeedFinished
  BY <1>6 DEF FeedFinished, Reading
<1>7. CASE AbortCancelled
  BY <1>7 DEF AbortCancelled, Reading
<1>8. CASE AbortFailed
  BY <1>8 DEF AbortFailed, Reading
<1>9. CASE OnSentence
  BY <1>9 DEF OnSentence, SpeakThen
<1>10. CASE OnAudio
  BY <1>10 DEF OnAudio
<1>11. CASE Take
  BY <1>11 DEF Take, Room
<1>12. CASE MakeRoom
  BY <1>12 DEF MakeRoom, SpeakThen
<1>13. CASE Drained
  BY <1>13 DEF Drained
<1>14. CASE Accepted
  BY <1>14 DEF Accepted
<1>15. CASE OnFinished
  BY <1>15 DEF OnFinished, SpeakThen
<1>16. CASE StartRefused
  BY <1>16 DEF StartRefused, Flushed
<1>17. CASE StartSpeaking
  BY <1>17 DEF StartSpeaking
<1>18. CASE Write
  BY <1>18 DEF Write
<1>19. CASE GiveUp
  BY <1>19 DEF GiveUp, Flushed
<1>20. CASE AllWritten
  BY <1>20 DEF AllWritten, Flushed
<1>21. CASE WindDown
  BY <1>21 DEF WindDown
<1>22. CASE Stop
  BY <1>22 DEF Stop
<1>23. CASE Token
  BY <1>23 DEF Token
<1>24. CASE Tick
  BY <1>24 DEF Tick
<1>25. QED
  BY <1>1, <1>2, <1>3, <1>4, <1>5, <1>6, <1>7, <1>8, <1>9, <1>10, <1>11, <1>12, <1>13, <1>14, <1>15, <1>16, <1>17, <1>18, <1>19, <1>20, <1>21, <1>22, <1>23, <1>24
     DEF Next, Begins, Feeds, Listens, Speaks, WindsDown

(* and the queues. *)
LEMMA QueuesStep ==
  ASSUME Inv, Next
  PROVE  Queues'
<1> USE BoundsAreNat, NothingToDo
<1> USE DEF Inv, TypeOK, Queues, Numbers, Outcome, ToDo, InControl, gateway, turn, stager, device, control, history, time
<1>1. CASE Beep
  BY <1>1 DEF Beep
<1>2. CASE BeginTurn
  BY <1>2 DEF BeginTurn, FreshTurn, MayStopPlayback
<1>3. CASE AbortTurn
  BY <1>3 DEF AbortTurn, FreshTurn, MayStopPlayback
<1>4. CASE FeedAudio
  <2>2. todo' \in ToDo
    BY <1>4, FeedBrings
  <2>3. QED
    BY <1>4, <2>2 DEF FeedAudio
<1>5. CASE FeedOtherRate
  BY <1>5 DEF FeedOtherRate, Reading
<1>6. CASE FeedFinished
  BY <1>6 DEF FeedFinished, Reading
<1>7. CASE AbortCancelled
  BY <1>7 DEF AbortCancelled, Reading
<1>8. CASE AbortFailed
  BY <1>8 DEF AbortFailed, Reading
<1>9. CASE OnSentence
  <2>1. Tail(todo.sentences) \in Seq(Expression)
    BY <1>9 DEF OnSentence
  <2>2. todo' \in ToDo
    BY <1>9, <2>1 DEF OnSentence
  <2>3. QED
    BY <1>9, <2>2 DEF OnSentence
<1>10. CASE OnAudio
  BY <1>10 DEF OnAudio
<1>11. CASE Take
  <2>1. PICK n \in 0 .. Len(todo.audio) :
          /\ stage' \in Seq(Piece) /\ Len(stage') <= Capacity /\ written \in 0 .. Len(stage')
          /\ todo' = [todo EXCEPT !.audio = SubSeq(todo.audio, n + 1, Len(todo.audio))]
          /\ SubSeq(todo.audio, n + 1, Len(todo.audio)) \in Seq(Piece)
    BY <1>11, TakeMoves
  <2>2. todo' \in ToDo
    BY <2>1
  <2>3. written' = written /\ heard' = heard
    BY <1>11 DEF Take
  <2>4. QED
    BY <2>1, <2>2, <2>3
<1>12. CASE MakeRoom
  BY <1>12 DEF MakeRoom, SpeakThen
<1>13. CASE Drained
  BY <1>13 DEF Drained
<1>14. CASE Accepted
  BY <1>14 DEF Accepted
<1>15. CASE OnFinished
  BY <1>15 DEF OnFinished, SpeakThen
<1>16. CASE StartRefused
  BY <1>16 DEF StartRefused, Flushed
<1>17. CASE StartSpeaking
  BY <1>17 DEF StartSpeaking
<1>18. CASE Write
  <2>1. stage[written + 1] \in Piece
    BY <1>18 DEF Write
  <2>2. [no |-> stage[written + 1].no, meant |-> stage[written + 1].meant, face |-> face] \in Played
    BY <2>1 DEF Piece, Played, Names
  <2>3. heard' \in Seq(Played)
    BY <1>18, <2>2 DEF Write
  <2>4. QED
    BY <1>18, <2>3 DEF Write
<1>19. CASE GiveUp
  BY <1>19 DEF GiveUp, Flushed
<1>20. CASE AllWritten
  BY <1>20 DEF AllWritten, Flushed
<1>21. CASE WindDown
  BY <1>21 DEF WindDown
<1>22. CASE Stop
  BY <1>22 DEF Stop
<1>23. CASE Token
  BY <1>23 DEF Token
<1>24. CASE Tick
  BY <1>24 DEF Tick
<1>25. QED
  BY <1>1, <1>2, <1>3, <1>4, <1>5, <1>6, <1>7, <1>8, <1>9, <1>10, <1>11, <1>12, <1>13, <1>14, <1>15, <1>16, <1>17, <1>18, <1>19, <1>20, <1>21, <1>22, <1>23, <1>24
     DEF Next, Begins, Feeds, Listens, Speaks, WindsDown

(* No order to disturb. *)
LEMMA EmptyOrdered ==
  ASSUME NEW s, NEW n
  PROVE  Ascending(<<>>) /\ Before(<<>>, n, s) /\ Before(s, n, <<>>) /\ UpTo(<<>>, n)
<1>1. 1 .. Len(<<>>) = {}
  OBVIOUS
<1>2. QED
  BY <1>1 DEF Ascending, Before, UpTo

(* Everything heard, staged or in hand has a number. *)
LEMMA Numbered ==
  ASSUME TypeOK
  PROVE  /\ \A i \in 1 .. Len(heard) : heard[i].no \in Nat
         /\ \A i \in 1 .. Len(stage) : stage[i].no \in Nat
         /\ \A i \in 1 .. Len(todo.audio) : todo.audio[i].no \in Nat
         /\ Len(heard) \in Nat /\ Len(stage) \in Nat /\ Len(todo.audio) \in Nat
         /\ sent \in Nat /\ written \in 0 .. Len(stage)
<1>1. heard \in Seq(Played) /\ stage \in Seq(Piece) /\ todo.audio \in Seq(Piece)
      /\ sent \in Nat /\ written \in 0 .. Len(stage)
  BY DEF TypeOK, Queues, Numbers
<1>2. Len(heard) \in Nat /\ Len(stage) \in Nat /\ Len(todo.audio) \in Nat
  BY <1>1
<1>3. ASSUME NEW i \in 1 .. Len(heard) PROVE heard[i].no \in Nat
  <2>1. heard[i] \in Played
    BY <1>1
  <2>2. QED
    BY <2>1 DEF Played
<1>4. ASSUME NEW i \in 1 .. Len(stage) PROVE stage[i].no \in Nat
  <2>1. stage[i] \in Piece
    BY <1>1
  <2>2. QED
    BY <2>1 DEF Piece
<1>5. ASSUME NEW i \in 1 .. Len(todo.audio) PROVE todo.audio[i].no \in Nat
  <2>1. todo.audio[i] \in Piece
    BY <1>1
  <2>2. QED
    BY <2>1 DEF Piece
<1>6. QED
  BY <1>1, <1>2, <1>3, <1>4, <1>5

(* More written, or more sent, leaves less to order. *)
LEMMA Further ==
  ASSUME NEW s, NEW t, NEW m \in Nat, NEW n \in Nat, m <= n, Len(t) \in Nat,
         \A i \in 1 .. Len(s) : s[i].no \in Nat
  PROVE  (Before(s, m, t) => Before(s, n, t)) /\ (UpTo(s, m) => UpTo(s, n))
BY DEF Before, UpTo

(* Whatever becomes empty, and a gateway further on, disturb no order. *)
LEMMA FewerOrdered ==
  ASSUME TypeOK, Ordered, heard' \in {heard, <<>>}, stage' \in {stage, <<>>},
         todo'.audio \in {todo.audio, <<>>},
         sent' \in Nat, sent' >= sent \/ (heard' = <<>> /\ stage' = <<>> /\ todo'.audio = <<>>),
         written' \in Nat, written' >= written \/ stage' = <<>>
  PROVE  Ordered'
<1>1. Ascending(heard') /\ Ascending(stage') /\ Ascending(todo'.audio)
  BY EmptyOrdered DEF Ordered
<1>2. Before(heard', written', stage')
  <2>1. CASE stage' = <<>>
    BY <2>1, EmptyOrdered
  <2>2. CASE stage' = stage /\ written' >= written
    <3>1. written \in Nat
      BY Numbered
    <3>2. Before(heard, written', stage)
      BY <2>2, <3>1, Numbered, Further DEF Ordered
    <3>3. QED
      BY <2>2, <3>2, EmptyOrdered
  <2>3. QED
    BY <2>1, <2>2
<1>3. Before(heard', 0, todo'.audio) /\ Before(stage', 0, todo'.audio)
  BY EmptyOrdered DEF Ordered
<1>4. UpTo(heard', sent') /\ UpTo(stage', sent') /\ UpTo(todo'.audio, sent')
  <2>1. CASE heard' = <<>> /\ stage' = <<>> /\ todo'.audio = <<>>
    BY <2>1, EmptyOrdered
  <2>2. CASE sent' >= sent
    <3>1. UpTo(heard, sent') /\ UpTo(stage, sent') /\ UpTo(todo.audio, sent')
      BY <2>2, Numbered, Further DEF Ordered
    <3>2. QED
      BY <3>1, EmptyOrdered
  <2>3. QED
    BY <2>1, <2>2
<1>5. QED
  BY <1>1, <1>2, <1>3, <1>4 DEF Ordered, Ascending, Before, UpTo

(* The pieces of a new event come after all others. *)
LEMMA FeedOrdered ==
  ASSUME Inv, FeedAudio
  PROVE  Ordered'
<1>1. PICK skip \in {0, 1}, text \in Text, pcm \in {Missing, Corrupt} \cup 0 .. EventMax,
           last \in BOOLEAN : Event(skip, text, pcm, last)
  BY DEF FeedAudio
<1>2. UNCHANGED <<heard, stage, written>> /\ todo = Nothing
  BY DEF FeedAudio, Reading, stager, control
<1>3. todo'.audio \in {<<>>, Pieces(skip, pcm)}
  BY <1>1, <1>2, EventBrings
<1> DEFINE n == IF pcm > 0 THEN pcm ELSE 0
           p == Pieces(skip, pcm)
<1>4. n \in Nat /\ sent \in Nat /\ sent' = sent + skip + n
  BY <1>1, BoundsAreNat DEF Event, Inv, TypeOK, Numbers, Missing, Corrupt
<1>5. Len(p) = n /\ \A i \in 1 .. n : p[i].no = sent + skip + i
  BY <1>4 DEF Pieces
<1> HIDE DEF n, p
<1>6. heard \in Seq(Played) /\ stage \in Seq(Piece) /\ Ordered
  BY DEF Inv, TypeOK, Queues
<1>7. (\A i \in 1 .. Len(heard) : heard[i].no \in Nat) /\ \A i \in 1 .. Len(stage) : stage[i].no \in Nat
  BY Numbered DEF Inv
<1>8. CASE todo'.audio = <<>>
  <2>1. sent' \in Nat /\ sent' >= sent /\ written \in Nat /\ written' = written
    BY <1>2, <1>4, Numbered DEF Inv
  <2>2. QED
    BY <1>2, <1>6, <1>8, <2>1, FewerOrdered DEF Inv
<1>9. CASE todo'.audio = p
  <2>1. Ascending(p) /\ UpTo(p, sent')
    BY <1>4, <1>5 DEF Ascending, UpTo
  <2>2. UpTo(heard, sent') /\ UpTo(stage, sent')
    <3>1. sent <= sent' /\ sent' \in Nat
      BY <1>4
    <3>2. UpTo(heard, sent) /\ UpTo(stage, sent)
      BY <1>6 DEF Ordered
    <3>3. \A i \in 1 .. Len(heard) : heard[i].no <= sent'
      BY <1>4, <1>7, <3>1, <3>2 DEF UpTo
    <3>4. \A i \in 1 .. Len(stage) : stage[i].no <= sent'
      BY <1>4, <1>7, <3>1, <3>2 DEF UpTo
    <3>5. QED
      BY <3>3, <3>4 DEF UpTo
  <2>3. Before(heard, 0, p) /\ Before(stage, 0, p)
    <3>1. \A j \in 1 .. n : p[j].no \in Nat /\ sent < p[j].no
      BY <1>1, <1>4, <1>5
    <3>2. \A i \in 1 .. Len(heard) : heard[i].no \in Nat /\ heard[i].no <= sent
      BY <1>6, <1>7 DEF Ordered, UpTo
    <3>3. \A i \in 1 .. Len(stage) : stage[i].no \in Nat /\ stage[i].no <= sent
      BY <1>6, <1>7 DEF Ordered, UpTo
    <3>4. \A i \in 1 .. Len(heard), j \in 1 .. Len(p) : heard[i].no < p[j].no
      BY <1>4, <1>5, <3>1, <3>2
    <3>5. \A i \in 1 .. Len(stage), j \in 1 .. Len(p) : stage[i].no < p[j].no
      BY <1>4, <1>5, <3>1, <3>3
    <3>6. QED
      BY <3>4, <3>5 DEF Before
  <2>4. heard' = heard /\ stage' = stage /\ written' = written /\ todo'.audio = p
    BY <1>2, <1>9
  <2>5. Ascending(heard) /\ Ascending(stage) /\ Before(heard, written, stage)
    BY <1>6 DEF Ordered
  <2>6. Ascending(heard') /\ Ascending(stage') /\ Ascending(todo'.audio)
    BY <2>1, <2>4, <2>5
  <2>7. Before(heard', written', stage') /\ Before(heard', 0, todo'.audio) /\ Before(stage', 0, todo'.audio)
    BY <2>3, <2>4, <2>5
  <2>8. UpTo(heard', sent') /\ UpTo(stage', sent') /\ UpTo(todo'.audio, sent')
    BY <2>1, <2>2, <2>4
  <2>9. QED
    BY <2>6, <2>7, <2>8 DEF Ordered, Ascending, Before, UpTo
<1>10. QED
  BY <1>3, <1>8, <1>9 DEF p

(* Taking keeps the order: what is taken comes after all that is staged, *)
(* and what is left after that. *)
LEMMA TakeOrdered ==
  ASSUME TypeOK, Ordered, stage \in Seq(Piece), todo.audio \in Seq(Piece),
         NEW n \in 0 .. Len(todo.audio),
         stage' = stage \o SubSeq(todo.audio, 1, n),
         todo'.audio = SubSeq(todo.audio, n + 1, Len(todo.audio)),
         UNCHANGED <<heard, sent, written>>
  PROVE  Ordered'
<1> DEFINE a == todo.audio
<1>1. Len(a) \in Nat /\ Len(stage) \in Nat /\ n \in Nat /\ n <= Len(a)
  BY DEF a
<1>2. Len(todo'.audio) = Len(a) - n /\ \A i \in 1 .. Len(a) - n : todo'.audio[i] = a[n + i]
  BY Parts DEF a
<1>3. SubSeq(a, 1, n) \in Seq(Piece) /\ Len(SubSeq(a, 1, n)) = n
      /\ \A i \in 1 .. n : SubSeq(a, 1, n)[i] = a[i]
  BY Parts DEF a
<1>4. Len(stage') = Len(stage) + n
      /\ \A i \in 1 .. Len(stage) + n : stage'[i] = IF i <= Len(stage) THEN stage[i] ELSE a[i - Len(stage)]
  BY <1>1, <1>3, Joined
<1>5. /\ \A i \in 1 .. Len(heard) : heard[i].no \in Nat
      /\ \A i \in 1 .. Len(stage) : stage[i].no \in Nat
      /\ \A i \in 1 .. Len(a) : a[i].no \in Nat
      /\ sent \in Nat /\ written \in 0 .. Len(stage)
  BY Numbered DEF a
<1>6. /\ Ascending(heard) /\ Ascending(stage) /\ Ascending(a)
      /\ Before(heard, written, stage) /\ Before(heard, 0, a) /\ Before(stage, 0, a)
      /\ UpTo(heard, sent) /\ UpTo(stage, sent) /\ UpTo(a, sent)
  BY DEF Ordered, a
<1> HIDE DEF a
<1>7. Ascending(stage') /\ UpTo(stage', sent) /\ Before(heard, written, stage')
  <2>1. ASSUME NEW j \in 1 .. Len(stage'), j > Len(stage)
        PROVE  j - Len(stage) \in 1 .. Len(a) /\ stage'[j] = a[j - Len(stage)]
    <3>1. j \in 1 .. Len(stage) + n
      BY <1>4
    <3>2. j - Len(stage) \in 1 .. Len(a)
      BY <1>1, <2>1, <3>1
    <3>3. stage'[j] = IF j <= Len(stage) THEN stage[j] ELSE a[j - Len(stage)]
      BY <1>4, <3>1
    <3>4. ~(j <= Len(stage))
      BY <1>1, <2>1, <3>1
    <3>5. QED
      BY <3>2, <3>3, <3>4
  <2>2. ASSUME NEW j \in 1 .. Len(stage'), j <= Len(stage)
        PROVE  j \in 1 .. Len(stage) /\ stage'[j] = stage[j]
    BY <1>1, <1>4, <2>2
  <2>3. ASSUME NEW i \in 1 .. Len(stage'), NEW j \in 1 .. Len(stage'), i < j
        PROVE  stage'[i].no < stage'[j].no
    <3>1. CASE j <= Len(stage)
      <4>1. i \in 1 .. Len(stage) /\ stage'[i] = stage[i] /\ stage'[j] = stage[j] /\ j \in 1 .. Len(stage)
        BY <1>1, <1>4, <2>3, <3>1, <2>2
      <4>2. QED
        BY <1>6, <2>3, <4>1 DEF Ascending
    <3>2. CASE i <= Len(stage) /\ j > Len(stage)
      <4>1. i \in 1 .. Len(stage) /\ stage'[i] = stage[i]
            /\ stage'[j] = a[j - Len(stage)] /\ j - Len(stage) \in 1 .. Len(a) /\ j - Len(stage) > 0
        BY <1>1, <1>4, <2>1, <2>2, <3>2
      <4>2. QED
        BY <1>6, <4>1 DEF Before
    <3>3. CASE i > Len(stage)
      <4>1. /\ stage'[i] = a[i - Len(stage)] /\ i - Len(stage) \in 1 .. Len(a)
            /\ stage'[j] = a[j - Len(stage)] /\ j - Len(stage) \in 1 .. Len(a)
            /\ i - Len(stage) < j - Len(stage)
        BY <1>1, <1>4, <2>1, <2>3, <3>3
      <4>2. QED
        BY <1>6, <4>1 DEF Ascending
    <3>4. QED
      BY <1>1, <3>1, <3>2, <3>3
  <2>4. ASSUME NEW j \in 1 .. Len(stage')
        PROVE  stage'[j].no <= sent
    <3>1. CASE j <= Len(stage)
      BY <1>6, <2>2, <3>1 DEF UpTo
    <3>2. CASE j > Len(stage)
      BY <1>6, <2>1, <3>2 DEF UpTo
    <3>3. QED
      BY <1>1, <3>1, <3>2
  <2>5. ASSUME NEW i \in 1 .. Len(heard), NEW j \in 1 .. Len(stage'), j > written
        PROVE  heard[i].no < stage'[j].no
    <3>1. CASE j <= Len(stage)
      BY <1>6, <2>2, <2>5, <3>1 DEF Before
    <3>2. CASE j > Len(stage)
      <4>1. j - Len(stage) \in 1 .. Len(a) /\ stage'[j] = a[j - Len(stage)]
        BY <2>1, <3>2
      <4>2. j - Len(stage) > 0
        BY <4>1
      <4>3. heard[i].no < a[j - Len(stage)].no
        BY <1>6, <4>1, <4>2 DEF Before
      <4>4. QED
        BY <4>1, <4>3
    <3>3. QED
      BY <1>1, <3>1, <3>2
  <2>6. QED
    BY <2>3, <2>4, <2>5 DEF Ascending, UpTo, Before
<1>8. \A j \in 1 .. Len(todo'.audio) :
        todo'.audio[j] = a[n + j] /\ n + j \in 1 .. Len(a) /\ n + j > n /\ j \in Int
  <2> SUFFICES ASSUME NEW j \in 1 .. Len(todo'.audio)
               PROVE  todo'.audio[j] = a[n + j] /\ n + j \in 1 .. Len(a) /\ n + j > n /\ j \in Int
    OBVIOUS
  <2>1. j \in 1 .. Len(a) - n
    BY <1>2
  <2>2. todo'.audio[j] = a[n + j]
    BY <1>2, <2>1
  <2>3. n + j \in 1 .. Len(a) /\ n + j > n /\ j \in Int
    BY <1>1, <2>1
  <2>4. QED
    BY <2>2, <2>3
<1>9. Ascending(todo'.audio) /\ UpTo(todo'.audio, sent) /\ Before(heard, 0, todo'.audio)
  <2>1. ASSUME NEW i \in 1 .. Len(todo'.audio), NEW j \in 1 .. Len(todo'.audio), i < j
        PROVE  todo'.audio[i].no < todo'.audio[j].no
    <3>1. n + i < n + j
      BY <1>1, <1>8, <2>1
    <3>2. QED
      BY <1>6, <1>8, <3>1 DEF Ascending
  <2>2. ASSUME NEW j \in 1 .. Len(todo'.audio)
        PROVE  todo'.audio[j].no <= sent
    BY <1>6, <1>8 DEF UpTo
  <2>3. ASSUME NEW i \in 1 .. Len(heard), NEW j \in 1 .. Len(todo'.audio)
        PROVE  heard[i].no < todo'.audio[j].no
    <3>1. n + j > 0
      BY <1>1, <1>8
    <3>2. QED
      BY <1>6, <1>8, <3>1 DEF Before
  <2>4. QED
    BY <2>1, <2>2, <2>3 DEF Ascending, UpTo, Before
<1>10. Before(stage', 0, todo'.audio)
  <2>1. ASSUME NEW i \in 1 .. Len(stage'), NEW j \in 1 .. Len(todo'.audio)
        PROVE  stage'[i].no < todo'.audio[j].no
    <3>1. CASE i <= Len(stage)
      <4>0. i \in 1 .. Len(stage) + n
        BY <1>4
      <4>1. i \in 1 .. Len(stage) /\ stage'[i] = stage[i] /\ n + j > 0
        <5>1. i \in 1 .. Len(stage)
          BY <1>1, <3>1, <4>0
        <5>2. stage'[i] = stage[i]
          BY <1>4, <3>1, <4>0
        <5>3. n + j > 0
          BY <1>1, <1>8
        <5>4. QED
          BY <5>1, <5>2, <5>3
      <4>2. QED
        BY <1>6, <1>8, <4>1 DEF Before
    <3>2. CASE i > Len(stage)
      <4>0. i \in 1 .. Len(stage) + n
        BY <1>4
      <4>1. stage'[i] = a[i - Len(stage)] /\ i - Len(stage) \in 1 .. Len(a) /\ i - Len(stage) < n + j
        <5>1. ~(i <= Len(stage))
          BY <1>1, <3>2, <4>0
        <5>2. stage'[i] = a[i - Len(stage)]
          BY <1>4, <4>0, <5>1
        <5>3. i - Len(stage) \in 1 .. Len(a) /\ i - Len(stage) <= n
          BY <1>1, <3>2, <4>0
        <5>4. n + j > n /\ j \in Int
          BY <1>8
        <5>5. QED
          BY <1>1, <4>0, <5>2, <5>3, <5>4
      <4>2. QED
        BY <1>6, <1>8, <4>1 DEF Ascending
    <3>3. QED
      BY <1>1, <3>1, <3>2
  <2>2. QED
    BY <2>1 DEF Before
<1>11. QED
  BY <1>6, <1>7, <1>9, <1>10 DEF Ordered, Ascending, Before, UpTo

(* The piece written next comes after all that was heard. *)
LEMMA WriteOrdered ==
  ASSUME Inv, Write
  PROVE  Ordered'
<1> DEFINE x == [no |-> stage[written + 1].no, meant |-> stage[written + 1].meant, face |-> face]
<1>1. heard' = Append(heard, x) /\ written' = written + 1 /\ written < Len(stage)
      /\ UNCHANGED <<stage, todo, sent>>
  BY DEF Write, gateway, stager
<1>2. heard \in Seq(Played) /\ TypeOK
  BY DEF Inv, TypeOK, Queues
<1>3. /\ \A i \in 1 .. Len(heard) : heard[i].no \in Nat
      /\ \A i \in 1 .. Len(stage) : stage[i].no \in Nat
      /\ \A i \in 1 .. Len(todo.audio) : todo.audio[i].no \in Nat
      /\ Len(heard) \in Nat /\ Len(stage) \in Nat /\ Len(todo.audio) \in Nat
      /\ sent \in Nat /\ written \in 0 .. Len(stage)
  BY <1>2, Numbered
<1>4. x.no = stage[written + 1].no /\ written + 1 \in 1 .. Len(stage)
  BY <1>1, <1>3
<1> HIDE DEF x
<1>5. Len(heard') = Len(heard) + 1 /\ heard'[Len(heard) + 1] = x
      /\ \A i \in 1 .. Len(heard) : heard'[i] = heard[i]
  BY <1>1, <1>2
<1>6. /\ Ascending(heard) /\ Ascending(stage) /\ Ascending(todo.audio)
      /\ Before(heard, written, stage) /\ Before(heard, 0, todo.audio) /\ Before(stage, 0, todo.audio)
      /\ UpTo(heard, sent) /\ UpTo(stage, sent) /\ UpTo(todo.audio, sent)
  BY DEF Inv, Ordered
<1>a. ASSUME NEW i \in 1 .. Len(heard'), i # Len(heard) + 1
      PROVE  i \in 1 .. Len(heard) /\ heard'[i] = heard[i]
  BY <1>3, <1>5, <1>a
<1>b. \A i \in 1 .. Len(heard) : heard[i].no < x.no
  BY <1>3, <1>4, <1>6 DEF Before
<1>7. Ascending(heard')
  <2>1. ASSUME NEW i \in 1 .. Len(heard'), NEW j \in 1 .. Len(heard'), i < j
        PROVE  heard'[i].no < heard'[j].no
    <3>1. i # Len(heard) + 1
      BY <1>3, <1>5, <2>1
    <3>2. i \in 1 .. Len(heard) /\ heard'[i] = heard[i]
      BY <1>a, <3>1
    <3>3. CASE j = Len(heard) + 1
      BY <1>5, <1>b, <3>2, <3>3
    <3>4. CASE j # Len(heard) + 1
      BY <1>6, <1>a, <2>1, <3>2, <3>4 DEF Ascending
    <3>5. QED
      BY <3>3, <3>4
  <2>2. QED
    BY <2>1 DEF Ascending
<1>8. Before(heard', written + 1, stage)
  <2>1. ASSUME NEW i \in 1 .. Len(heard'), NEW j \in 1 .. Len(stage), j > written + 1
        PROVE  heard'[i].no < stage[j].no
    <3>1. CASE i = Len(heard) + 1
      <4>1. x.no < stage[j].no
        BY <1>3, <1>4, <1>6, <2>1 DEF Ascending
      <4>2. QED
        BY <1>5, <3>1, <4>1
    <3>2. CASE i # Len(heard) + 1
      <4>1. i \in 1 .. Len(heard) /\ heard'[i] = heard[i]
        BY <1>a, <3>2
      <4>2. j > written
        BY <1>3, <2>1
      <4>3. QED
        BY <1>6, <4>1, <4>2 DEF Before
    <3>3. QED
      BY <3>1, <3>2
  <2>2. QED
    BY <2>1 DEF Before
<1>9. Before(heard', 0, todo.audio) /\ UpTo(heard', sent)
  <2>1. x.no <= sent /\ \A j \in 1 .. Len(todo.audio) : j > 0 => x.no < todo.audio[j].no
    BY <1>4, <1>6 DEF Before, UpTo
  <2>2. QED
    BY <1>5, <1>6, <1>a, <2>1 DEF Before, UpTo
<1>10. QED
  BY <1>1, <1>6, <1>7, <1>8, <1>9 DEF Ordered, Ascending, Before, UpTo

(* Nothing overtakes anything. *)
LEMMA OrderedStep ==
  ASSUME Inv, Next
  PROVE  Ordered'
<1>a. TypeOK /\ Ordered /\ InControl /\ sent \in Nat /\ written \in Nat
  BY Numbered DEF Inv
<1> USE DEF Nothing, gateway, turn, stager, device, control, history, time
<1>1. CASE Beep
  BY <1>1, <1>a, FewerOrdered DEF Beep
<1>2. CASE BeginTurn
  BY <1>2, <1>a, FewerOrdered DEF BeginTurn, FreshTurn, MayStopPlayback, InControl
<1>3. CASE AbortTurn
  BY <1>3, <1>a, FewerOrdered DEF AbortTurn, FreshTurn, MayStopPlayback, InControl
<1>4. CASE FeedAudio
  BY <1>4, FeedOrdered
<1>5. CASE FeedOtherRate
  BY <1>5, <1>a, FewerOrdered DEF FeedOtherRate, Reading, InControl
<1>6. CASE FeedFinished
  BY <1>6, <1>a, FewerOrdered DEF FeedFinished, Reading
<1>7. CASE AbortCancelled
  BY <1>7, <1>a, FewerOrdered DEF AbortCancelled, Reading
<1>8. CASE AbortFailed
  BY <1>8, <1>a, FewerOrdered DEF AbortFailed, Reading
<1>9. CASE OnSentence
  <2>1. todo'.audio \in {todo.audio, <<>>}
    BY <1>9, <1>a DEF OnSentence, TypeOK, Queues
  <2>2. QED
    BY <1>9, <1>a, <2>1, FewerOrdered DEF OnSentence, SpeakThen
<1>10. CASE OnAudio
  BY <1>10, <1>a, FewerOrdered DEF OnAudio
<1>11. CASE Take
  <2>1. PICK n \in 0 .. Len(todo.audio) :
          /\ stage' = stage \o SubSeq(todo.audio, 1, n)
          /\ todo' = [todo EXCEPT !.audio = SubSeq(todo.audio, n + 1, Len(todo.audio))]
    BY <1>11, TakeMoves
  <2>2. UNCHANGED <<heard, sent, written>>
    BY <1>11 DEF Take
  <2>3. todo \in ToDo
    BY <1>a DEF TypeOK, Queues, ToDo
  <2>4. todo'.audio = SubSeq(todo.audio, n + 1, Len(todo.audio))
    BY <2>1, <2>3 DEF ToDo
  <2>5. stage \in Seq(Piece) /\ todo.audio \in Seq(Piece)
    BY <1>a DEF TypeOK, Queues
  <2>6. QED
    BY <1>a, <2>1, <2>2, <2>4, <2>5, TakeOrdered
<1>12. CASE MakeRoom
  BY <1>12, <1>a, FewerOrdered DEF MakeRoom, SpeakThen
<1>13. CASE Drained
  BY <1>13, <1>a, FewerOrdered DEF Drained
<1>14. CASE Accepted
  BY <1>14, <1>a, FewerOrdered DEF Accepted
<1>15. CASE OnFinished
  <2>1. todo'.audio \in {todo.audio, <<>>}
    BY <1>15, <1>a DEF OnFinished, TypeOK, Queues
  <2>2. QED
    BY <1>15, <1>a, <2>1, FewerOrdered DEF OnFinished, SpeakThen
<1>16. CASE StartRefused
  BY <1>16, <1>a, FewerOrdered DEF StartRefused, Flushed
<1>17. CASE StartSpeaking
  BY <1>17, <1>a, FewerOrdered DEF StartSpeaking
<1>18. CASE Write
  BY <1>18, WriteOrdered
<1>19. CASE GiveUp
  BY <1>19, <1>a, FewerOrdered DEF GiveUp, Flushed
<1>20. CASE AllWritten
  BY <1>20, <1>a, FewerOrdered DEF AllWritten, Flushed
<1>21. CASE WindDown
  BY <1>21, <1>a, FewerOrdered DEF WindDown
<1>22. CASE Stop
  BY <1>22, <1>a, FewerOrdered DEF Stop
<1>23. CASE Token
  BY <1>23, <1>a, FewerOrdered DEF Token
<1>24. CASE Tick
  BY <1>24, <1>a, FewerOrdered DEF Tick
<1>25. QED
  BY <1>1, <1>2, <1>3, <1>4, <1>5, <1>6, <1>7, <1>8, <1>9, <1>10, <1>11, <1>12, <1>13, <1>14, <1>15, <1>16, <1>17, <1>18, <1>19, <1>20, <1>21, <1>22, <1>23, <1>24
     DEF Next, Begins, Feeds, Listens, Speaks, WindsDown

(* At power-on all of it holds. *)
LEMMA InitInv ==
  ASSUME Init
  PROVE  Inv
<1> USE BoundsAreNat, ExpressionsDistinct DEF Init
<1>1. TypeOK
  <2>1. Queues
    BY NothingToDo DEF Queues, ToDo
  <2>2. Flags /\ Names
    BY DEF Flags, Names
  <2>3. Numbers
    BY DEF Numbers, Clock
  <2>4. QED
    BY <2>1, <2>2, <2>3 DEF TypeOK
<1>2. InControl
  BY DEF InControl, Speaking
<1>3. Ordered
  BY EmptyOrdered DEF Ordered, Nothing
<1>4. Timed
  BY DEF Timed
<1>5. QED
  BY <1>1, <1>2, <1>3, <1>4 DEF Inv

(* A step that changes nothing disturbs nothing. *)
LEMMA StutterInv ==
  ASSUME Inv, UNCHANGED vars
  PROVE  Inv'
<1>1. TypeOK'
  BY DEF Inv, TypeOK, Flags, Numbers, Names, Queues, vars, gateway, turn, stager, device, control, history, time
<1>2. InControl' /\ Timed'
  BY DEF Inv, InControl, Timed, Speaking, vars, gateway, turn, stager, device, control, history, time
<1>3. Ordered'
  BY DEF Inv, Ordered, Ascending, Before, UpTo, vars, gateway, turn, stager, control, history
<1>4. QED
  BY <1>1, <1>2, <1>3 DEF Inv

(* The invariant holds of every state of the reply's way to the speaker. *)
THEOREM Invariance == Spec => []Inv
<1>1. Init => Inv
  BY InitInv
<1>2. Inv /\ [Next]_vars => Inv'
  <2>1. ASSUME Inv, Next PROVE Inv'
    BY <2>1, FlagsStep, NumbersStep, NamesStep, QueuesStep, ControlStep, TimedStep, OrderedStep
       DEF Inv, TypeOK
  <2>2. QED
    BY <2>1, StutterInv
<1>3. QED
  BY <1>1, <1>2, PTL DEF Spec

(* Every variable keeps its type (playback_stager.hpp, conversation.hpp). *)
THEOREM TypeCorrect == Spec => []TypeOK
<1>1. Inv => TypeOK
  BY DEF Inv
<1>2. QED
  BY <1>1, Invariance, PTL

(* Nothing is played twice or out of order (playback_stager.cpp:27-46). *)
THEOREM PlayedInOrder == Spec => []InOrder
<1>1. Inv => InOrder
  BY DEF Inv, Ordered, Ascending, InOrder
<1>2. QED
  BY <1>1, Invariance, PTL

(* When playback is stopped nothing sounds any more: the tail of the last  *)
(* sentence is heard (playback_stager.hpp:48-51).                          *)
THEOREM TailHeard == Spec => []TailIsHeard
<1>1. Inv => TailIsHeard
  BY DEF Inv, TypeOK, Numbers, Timed, TailIsHeard
<1>2. QED
  BY <1>1, Invariance, PTL

(* Nothing is played once a turn was cancelled or has failed               *)
(* (playback_stager.hpp:40-41).                                            *)
THEOREM SilentWhenEnded == Spec => SilentOnceEnded
<1>1. Inv /\ [Next]_vars
        => [StartSpeaking \/ Write => outcome \in {"running", "completed"}]_vars
  <2>1. ASSUME Inv, StartSpeaking \/ Write PROVE outcome \in {"running", "completed"}
    BY <2>1 DEF Inv, TypeOK, Names, InControl, Speaking, StartSpeaking, Write
  <2>2. QED
    BY <2>1
<1>2. QED
  BY <1>1, Invariance, PTL DEF Spec, SilentOnceEnded

-----------------------------------------------------------------------------
(* Nothing lost, no long wait, the right face and the right to fail: each  *)
(* rests on a part of its own beside the invariant.                        *)

(* Nothing is at the place it should have. *)
LEMMA EmptyFrom ==
  ASSUME NEW n
  PROVE  From(<<>>, n)
<1>1. 1 .. Len(<<>>) = {}
  OBVIOUS
<1>2. QED
  BY <1>1 DEF From

(* Where everything stays, or goes, what was heard is still without a gap. *)
LEMMA StillComplete ==
  ASSUME TypeOK, Complete, UNCHANGED lossy,
         \/ UNCHANGED <<heard, stage, written>> /\ todo'.audio = todo.audio
         \/ UNCHANGED <<heard, stage, written>> /\ todo'.audio = <<>>
         \/ heard' = heard /\ stage' = <<>> /\ todo'.audio = <<>>,
         outcome' \in {"running", "completed"} /\ todo'.result # "failed"
           => /\ outcome \in {"running", "completed"} /\ todo.result # "failed"
              /\ sent' = sent /\ UNCHANGED <<stage, written>> /\ todo'.audio = todo.audio
  PROVE  Complete'
<1> USE DEF Complete, Ahead
<1>1. CASE UNCHANGED <<heard, stage, written>> /\ todo'.audio = todo.audio
  BY <1>1 DEF From
<1>2. CASE UNCHANGED <<heard, stage, written>> /\ todo'.audio = <<>>
  BY <1>2, EmptyFrom DEF From
<1>3. CASE heard' = heard /\ stage' = <<>> /\ todo'.audio = <<>>
  BY <1>3, EmptyFrom DEF From
<1>4. QED
  BY <1>1, <1>2, <1>3

(* The pieces of a new event follow the last one sent. *)
LEMMA FeedComplete ==
  ASSUME Inv, Complete, FeedAudio
  PROVE  Complete'
<1>1. PICK skip \in {0, 1}, text \in Text, pcm \in {Missing, Corrupt} \cup 0 .. EventMax,
           last \in BOOLEAN : Event(skip, text, pcm, last)
  BY DEF FeedAudio
<1>2. todo = Nothing /\ outcome = "running" /\ UNCHANGED <<stage, written, heard, outcome>>
  BY DEF FeedAudio, Reading, stager, control
<1>3. Nothing.audio = <<>> /\ Nothing.result = None /\ None # "failed" /\ Len(<<>>) = 0
  BY ExpressionsDistinct DEF Nothing
<1> DEFINE n == IF pcm > 0 THEN pcm ELSE 0
           p == Pieces(skip, pcm)
<1>4. /\ n \in Nat /\ sent \in Nat /\ seq \in Nat /\ expectedSeq \in Nat /\ expectedSeq <= seq
      /\ sent' = sent + skip + n /\ lossy \in BOOLEAN
  BY <1>1, BoundsAreNat DEF Event, Inv, TypeOK, Flags, Numbers, InControl, Missing, Corrupt
<1>5. HandleAudio(seq + skip, text, p, pcm, last)
  BY <1>1 DEF Event, Pieces
<1>6. Len(p) = n /\ \A i \in 1 .. n : p[i].no = sent + skip + i
  BY <1>4 DEF Pieces
<1>7. pcm \in {Missing, Corrupt} => n = 0
  BY DEF Missing, Corrupt
<1> HIDE DEF n, p
<1>8. SUFFICES ASSUME ~lossy'
               PROVE  /\ From(heard, 0) /\ From(stage, Len(heard) - written)
                      /\ From(todo'.audio, Ahead)
                      /\ todo'.result # "failed" => sent' = Ahead + Len(todo'.audio)
  BY <1>2 DEF Complete, Ahead, From
<1>9. ~lossy
  BY <1>5, <1>8 DEF HandleAudio
<1>10. From(heard, 0) /\ From(stage, Len(heard) - written) /\ sent = Ahead
  <2>1. /\ From(heard, 0) /\ From(stage, Len(heard) - written)
        /\ sent = Ahead + Len(todo.audio)
    BY <1>2, <1>3, <1>9 DEF Complete
  <2>2. Ahead \in Int
    BY DEF Ahead, Inv, TypeOK, Queues
  <2>3. QED
    BY <1>2, <1>3, <2>1, <2>2
<1>11. CASE todo'.audio = <<>> /\ todo'.result = "failed"
  BY <1>10, <1>11, EmptyFrom
<1>12. CASE InSequence(seq + skip) /\ todo'.result # "failed"
  <2>1. skip = 0
    BY <1>4, <1>12 DEF InSequence
  <2>2. todo' = [Nothing EXCEPT !.sentences = Segments(text) \o Flush(text, last), !.audio = p]
    BY <1>5, <1>8, <1>12 DEF HandleAudio, Nothing
  <2>3. todo'.audio = p
    BY <2>2 DEF Nothing
  <2>4. From(p, Ahead)
    BY <1>4, <1>6, <1>10, <2>1 DEF From
  <2>5. sent' = Ahead + Len(p)
    BY <1>4, <1>6, <1>10, <2>1
  <2>6. QED
    BY <1>10, <2>3, <2>4, <2>5
<1>13. ~InSequence(seq + skip) \/ todo'.result = "failed"
         => todo'.audio = <<>> /\ todo'.result = "failed"
  <2>1. CASE ~InSequence(seq + skip)
    BY <1>5, <2>1 DEF HandleAudio, Nothing
  <2>2. CASE InSequence(seq + skip)
    <3>1. \/ todo' = todo
          \/ todo' = [Nothing EXCEPT !.sentences = Segments(text)]
          \/ todo' = [Nothing EXCEPT !.sentences = Segments(text), !.result = "failed"]
          \/ todo' = [Nothing EXCEPT !.sentences = Segments(text) \o Flush(text, last), !.audio = p]
      BY <1>5, <2>2 DEF HandleAudio
    <3>2. QED
      BY <1>2, <1>3, <2>2, <3>1 DEF Nothing
  <2>3. QED
    BY <2>1, <2>2
<1>14. QED
  BY <1>11, <1>12, <1>13

(* Taking leaves no gap. *)
LEMMA TakeComplete ==
  ASSUME Inv, Complete, Take
  PROVE  Complete'
<1>1. PICK n \in 0 .. Len(todo.audio) :
        /\ stage' = stage \o SubSeq(todo.audio, 1, n)
        /\ todo' = [todo EXCEPT !.audio = SubSeq(todo.audio, n + 1, Len(todo.audio))]
  BY TakeMoves
<1> DEFINE a == todo.audio
           h == Len(heard)
           s == Len(stage)
           taken == SubSeq(a, 1, n)
           rest == SubSeq(a, n + 1, Len(a))
<1>2. stage \in Seq(Piece) /\ a \in Seq(Piece) /\ todo \in ToDo
  BY DEF Inv, TypeOK, Queues, ToDo
<1>3. h \in Nat /\ s \in Nat /\ Len(a) \in Nat /\ written \in Nat /\ sent \in Nat
  BY Numbered DEF Inv
<1>4. UNCHANGED <<heard, written, sent, lossy, outcome>> /\ todo'.result = todo.result
      /\ todo'.audio = rest /\ stage' = stage \o taken
  BY <1>1, <1>2 DEF Take, gateway, turn, control, history, ToDo
<1>5. /\ Len(rest) = Len(a) - n /\ \A i \in 1 .. Len(a) - n : rest[i] = a[n + i]
      /\ taken \in Seq(Piece) /\ Len(taken) = n /\ \A i \in 1 .. n : taken[i] = a[i]
  BY <1>2, Parts
<1> HIDE DEF taken, rest
<1>6. /\ Len(stage') = s + n
      /\ \A i \in 1 .. s + n : stage'[i] = IF i <= s THEN stage[i] ELSE taken[i - s]
  <2>1. /\ Len(stage \o taken) = Len(stage) + Len(taken)
        /\ \A i \in 1 .. Len(stage \o taken) :
             (stage \o taken)[i] = IF i <= Len(stage) THEN stage[i] ELSE taken[i - Len(stage)]
    BY <1>2, <1>5, Joined
  <2>2. QED
    BY <1>4, <1>5, <2>1
<1>7. Ahead = h - written + s /\ Ahead' = h - written + s + n
  BY <1>3, <1>4, <1>6 DEF Ahead
<1> HIDE DEF a, h, s
<1>8. SUFFICES ASSUME ~lossy
               PROVE  /\ From(stage', h - written) /\ From(todo'.audio, Ahead')
                      /\ Ahead' + Len(todo'.audio) = Ahead + Len(a)
  BY <1>4 DEF Complete, From, a, h
<1>9. From(stage, h - written) /\ From(a, Ahead)
  BY <1>8 DEF Complete, a, h
<1>10. From(stage', h - written)
  <2>1. ASSUME NEW i \in 1 .. Len(stage')
        PROVE  stage'[i].no = h - written + i
    <3>1. CASE i <= s
      <4>1. stage'[i] = stage[i] /\ i \in 1 .. s
        BY <1>3, <1>6, <3>1
      <4>2. QED
        BY <1>9, <4>1 DEF From, s
    <3>2. CASE ~(i <= s)
      <4>1. i - s \in 1 .. n /\ i - s \in 1 .. Len(a) /\ i \in 1 .. s + n
        <5>1. i \in Int /\ 1 <= i /\ i <= s + n /\ i > s
          BY <1>3, <1>6, <3>2
        <5>2. n \in Int /\ n <= Len(a)
          BY <1>1, <1>3 DEF a
        <5>3. QED
          BY <1>3, <5>1, <5>2
      <4>2. stage'[i] = a[i - s]
        BY <1>5, <1>6, <3>2, <4>1
      <4>3. a[i - s].no = h - written + s + (i - s)
        BY <1>7, <1>9, <4>1 DEF From
      <4>4. QED
        BY <1>3, <1>6, <4>2, <4>3
    <3>3. QED
      BY <3>1, <3>2
  <2>2. QED
    BY <2>1 DEF From
<1>11. From(todo'.audio, Ahead')
  <2>1. ASSUME NEW i \in 1 .. Len(todo'.audio)
        PROVE  todo'.audio[i].no = Ahead' + i
    <3>1. n + i \in 1 .. Len(a) /\ todo'.audio[i] = a[n + i] /\ i \in 1 .. Len(a) - n
      BY <1>3, <1>4, <1>5
    <3>2. a[n + i].no = Ahead + (n + i)
      BY <1>9, <3>1 DEF From
    <3>3. QED
      BY <1>3, <1>7, <3>1, <3>2
  <2>2. QED
    BY <2>1 DEF From
<1>12. Ahead' + Len(todo'.audio) = Ahead + Len(a)
  BY <1>3, <1>4, <1>5, <1>7
<1>13. QED
  BY <1>10, <1>11, <1>12

(* The piece written next is the next one to be heard. *)
LEMMA WriteComplete ==
  ASSUME Inv, Complete, Write
  PROVE  Complete'
<1> DEFINE x == [no |-> stage[written + 1].no, meant |-> stage[written + 1].meant, face |-> face]
           h == Len(heard)
<1>1. /\ heard' = Append(heard, x) /\ written' = written + 1 /\ written < Len(stage)
      /\ UNCHANGED <<stage, todo, sent, lossy, outcome>>
  BY DEF Write, gateway, turn, stager
<1>2. /\ h \in Nat /\ Len(stage) \in Nat /\ written \in 0 .. Len(stage)
      /\ heard \in Seq(Played)
  BY Numbered DEF Inv, TypeOK, Queues
<1>3. x.no = stage[written + 1].no
  OBVIOUS
<1> HIDE DEF x
<1>4. Len(heard') = h + 1 /\ heard'[h + 1] = x /\ \A i \in 1 .. h : heard'[i] = heard[i]
  BY <1>1, <1>2
<1> HIDE DEF h
<1>5. Len(heard') - written' = h - written /\ Ahead' = Ahead
  BY <1>1, <1>2, <1>4 DEF Ahead, h
<1>6. SUFFICES ASSUME ~lossy
               PROVE  From(heard', 0)
  BY <1>1, <1>5 DEF Complete, From, h
<1>7. x.no = h + 1
  <2>1. written + 1 \in 1 .. Len(stage)
    BY <1>1, <1>2
  <2>2. stage[written + 1].no = h - written + (written + 1)
    BY <1>6, <2>1 DEF Complete, From, h
  <2>3. QED
    BY <1>2, <1>3, <2>2
<1>8. ASSUME NEW i \in 1 .. Len(heard')
      PROVE  heard'[i].no = 0 + i
  <2>1. CASE i = h + 1
    BY <1>2, <1>4, <1>7, <2>1
  <2>2. CASE i # h + 1
    <3>1. i \in 1 .. h
      BY <1>2, <1>4, <2>2
    <3>2. QED
      BY <1>4, <1>6, <3>1 DEF Complete, From, h
  <2>3. QED
    BY <2>1, <2>2
<1>9. QED
  BY <1>8 DEF From

(* No step opens a gap without saying so. *)
LEMMA CompleteStep ==
  ASSUME Inv, Complete, Next
  PROVE  Complete'
<1> USE DEF gateway, turn, stager, device, control, history, time
<1>n. written > 0 => pc = "write"
  BY DEF Inv, InControl
<1>m. written \in 0 .. Len(stage) /\ stage \in Seq(Piece) /\ heard \in Seq(Played)
  BY DEF Inv, TypeOK, Queues
<1>a. todo \in ToDo /\ TypeOK /\ outcome \in Outcome \cup {"none", "running"} /\ lossy \in BOOLEAN
  BY DEF Inv, TypeOK, Queues, Names, Flags, ToDo
<1>b. /\ pc = "idle" => outcome = "none"
      /\ pc \in {"idle", "wind", "wait", "drained"} => stage = <<>>
      /\ pc \in {"idle", "wind", "wait"} \/ (Speaking /\ ret = "wind") => todo = Nothing
      /\ pc = "write" /\ ret # "wind" => outcome = "running"
      /\ pc = "write" /\ ret = "wind" => outcome = "completed"
  BY DEF Inv, InControl, Speaking
<1>c. /\ Nothing.sentences = <<>> /\ Nothing.audio = <<>> /\ Nothing.result = None
      /\ None # "failed" /\ Len(<<>>) = 0
  BY ExpressionsDistinct DEF Nothing
<1>d. \A n : From(<<>>, n)
  BY EmptyFrom
<1>e. ASSUME lossy' = TRUE PROVE Complete'
  BY <1>e DEF Complete
<1>1. CASE Beep
  BY <1>1, <1>a, <1>b, <1>c, <1>d, <1>e, StillComplete DEF Beep
<1>2. CASE BeginTurn
  <2>1. /\ heard' = <<>> /\ stage' = <<>> /\ sent' = 0 /\ written' = 0
        /\ todo' = Nothing
    BY <1>2, <1>b, <1>m, <1>n DEF BeginTurn, FreshTurn
  <2>2. todo'.audio = <<>> /\ Ahead' = 0
    BY <1>c, <2>1 DEF Ahead
  <2>3. QED
    BY <1>c, <1>d, <2>1, <2>2 DEF Complete
<1>3. CASE AbortTurn
  <2>1. /\ heard' = <<>> /\ stage' = <<>> /\ sent' = 0 /\ written' = 0
        /\ todo' = Nothing
    BY <1>3, <1>b, <1>m, <1>n DEF AbortTurn, FreshTurn
  <2>2. todo'.audio = <<>> /\ Ahead' = 0
    BY <1>c, <2>1 DEF Ahead
  <2>3. QED
    BY <1>c, <1>d, <2>1, <2>2 DEF Complete
<1>4. CASE FeedAudio
  BY <1>4, FeedComplete
<1>5. CASE FeedOtherRate
  BY <1>5, <1>a, <1>b, <1>c, <1>d, <1>e, StillComplete DEF FeedOtherRate, Reading
<1>6. CASE FeedFinished
  BY <1>6, <1>a, <1>b, <1>c, <1>d, <1>e, StillComplete DEF FeedFinished, Reading
<1>7. CASE AbortCancelled
  BY <1>7, <1>a, <1>b, <1>c, <1>d, <1>e, StillComplete DEF AbortCancelled, Reading
<1>8. CASE AbortFailed
  BY <1>8, <1>a, <1>b, <1>c, <1>d, <1>e, StillComplete DEF AbortFailed, Reading
<1>9. CASE OnSentence
  BY <1>9, <1>a, <1>b, <1>c, <1>d, <1>e, StillComplete DEF OnSentence, SpeakThen, ToDo
<1>10. CASE OnAudio
  BY <1>10, <1>a, <1>b, <1>c, <1>d, <1>e, StillComplete DEF OnAudio
<1>11. CASE Take
  BY <1>11, TakeComplete
<1>12. CASE MakeRoom
  BY <1>12, <1>a, <1>b, <1>c, <1>d, <1>e, StillComplete DEF MakeRoom, SpeakThen
<1>13. CASE Drained
  BY <1>13, <1>a, <1>b, <1>c, <1>d, <1>e, StillComplete DEF Drained
<1>14. CASE Accepted
  BY <1>14, <1>a, <1>b, <1>c, <1>d, <1>e, StillComplete DEF Accepted
<1>15. CASE OnFinished
  <2>1. /\ todo.audio = <<>> /\ todo.result # None /\ outcome' = todo.result /\ todo' = Nothing
        /\ pc = "feed" /\ UNCHANGED <<heard, written, sent, lossy>>
    BY <1>15 DEF OnFinished
  <2>2. outcome = "running"
    BY <2>1 DEF Inv, InControl
  <2>3. CASE todo.result = "completed"
    <3>1. UNCHANGED stage
      BY <1>15, <2>3 DEF OnFinished
    <3>2. QED
      BY <1>a, <1>c, <2>1, <2>2, <2>3, <3>1, StillComplete
  <2>4. CASE todo.result # "completed"
    <3>1. stage' = <<>>
      BY <1>15, <2>4 DEF OnFinished
    <3>2. outcome' \notin {"running", "completed"}
      BY <1>a, <2>1, <2>4 DEF ToDo, Outcome
    <3>3. QED
      BY <1>a, <1>c, <2>1, <3>1, <3>2, StillComplete
  <2>5. QED
    BY <2>3, <2>4
<1>16. CASE StartRefused
  BY <1>16, <1>a, <1>b, <1>c, <1>d, <1>e, StillComplete DEF StartRefused, Flushed
<1>17. CASE StartSpeaking
  BY <1>17, <1>a, <1>b, <1>c, <1>d, <1>e, StillComplete DEF StartSpeaking
<1>18. CASE Write
  BY <1>18, WriteComplete
<1>19. CASE GiveUp
  BY <1>19, <1>a, <1>b, <1>c, <1>d, <1>e, StillComplete DEF GiveUp, Flushed
<1>20. CASE AllWritten
  <2>1. /\ stage' = <<>> /\ written' = 0 /\ written = Len(stage)
        /\ UNCHANGED <<heard, todo, outcome, sent, lossy>>
    BY <1>20 DEF AllWritten, Flushed
  <2>2. Ahead' = Ahead
    BY <1>c, <1>m, <2>1 DEF Ahead
  <2>3. QED
    BY <1>d, <2>1, <2>2 DEF Complete
<1>21. CASE WindDown
  BY <1>21, <1>a, <1>b, <1>c, <1>d, <1>e, StillComplete DEF WindDown
<1>22. CASE Stop
  BY <1>22, <1>a, <1>b, <1>c, <1>d, <1>e, StillComplete DEF Stop
<1>23. CASE Token
  BY <1>23, <1>a, <1>b, <1>c, <1>d, <1>e, StillComplete DEF Token
<1>24. CASE Tick
  BY <1>24, <1>a, <1>b, <1>c, <1>d, <1>e, StillComplete DEF Tick
<1>25. QED
  BY <1>1, <1>2, <1>3, <1>4, <1>5, <1>6, <1>7, <1>8, <1>9, <1>10, <1>11, <1>12, <1>13, <1>14, <1>15, <1>16, <1>17, <1>18, <1>19, <1>20, <1>21, <1>22, <1>23, <1>24
     DEF Next, Begins, Feeds, Listens, Speaks, WindsDown

(* The end that is noted stays near, and the wind-down waits for no more. *)
LEMMA PunctualStep ==
  ASSUME Inv, Punctual, Next
  PROVE  Punctual'
<1> USE DEF Punctual, WaitIsShort, gateway, turn, stager, device, control, history, time
<1>a. /\ now \in Clock /\ until \in Clock /\ wait \in 0 .. Modulus /\ spent \in 0 .. TurnTicks
      /\ SinkDepth \in Nat /\ TurnTicks \in Nat /\ Modulus \in Nat \ {0}
      /\ outcome \in Outcome \cup {"none", "running"} /\ playing \in BOOLEAN /\ Beeps \in BOOLEAN
  BY BoundsAreNat, GatewayChoices DEF Inv, TypeOK, Flags, Numbers, Names
<1>b. /\ pc = "idle" => outcome = "none"
      /\ pc \in {"start", "write", "feed"} => outcome # "none"
      /\ pc = "start" => outcome # "none"
  BY DEF Inv, InControl, Speaking, TypeOK, Names
<1>c. UNCHANGED <<now, until, spent>> => (Recent' <=> Recent)
  BY DEF Recent, Since
<1>d. ASSUME Flushed, UNCHANGED <<now, spent>>
      PROVE  Recent'
  <2>1. Since(now, Later(now, SinkDepth)) = SinkDepth
    BY <1>a, TurnFitsClock DEF Since, Later, Clock
  <2>2. now' = now /\ until' = Later(now, SinkDepth) /\ spent' = spent
    BY <1>d DEF Flushed
  <2>3. Since(now', until') = SinkDepth
    BY <2>1, <2>2
  <2>4. SinkDepth \in SinkDepth - spent' .. SinkDepth
    BY <1>a, <2>2
  <2>5. QED
    BY <2>3, <2>4 DEF Recent
<1> HIDE DEF Recent
<1>1. CASE Beep
  BY <1>1, <1>a, <1>b, <1>c DEF Beep
<1>2. CASE BeginTurn
  BY <1>2, <1>a, <1>b, <1>c DEF BeginTurn, FreshTurn, MayStopPlayback
<1>3. CASE AbortTurn
  <2>1. outcome = "none" /\ outcome' = "none" /\ wait' = wait /\ pc = "idle"
    BY <1>3, <1>b DEF AbortTurn
  <2>2. playing' => playing
    BY <1>3, Zenon DEF AbortTurn, MayStopPlayback
  <2>3. wait = 0
    BY <1>a, <2>1
  <2>4. QED
    BY <1>a, <2>1, <2>2, <2>3
<1>4. CASE FeedAudio
  BY <1>4, <1>a, <1>b, <1>c DEF FeedAudio, HandleAudio, Reading
<1>5. CASE FeedOtherRate
  BY <1>5, <1>a, <1>b, <1>c DEF FeedOtherRate, Reading
<1>6. CASE FeedFinished
  BY <1>6, <1>a, <1>b, <1>c DEF FeedFinished
<1>7. CASE AbortCancelled
  BY <1>7, <1>a, <1>b, <1>c DEF AbortCancelled
<1>8. CASE AbortFailed
  BY <1>8, <1>a, <1>b, <1>c DEF AbortFailed
<1>9. CASE OnSentence
  BY <1>9, <1>a, <1>b, <1>c DEF OnSentence, SpeakThen
<1>10. CASE OnAudio
  BY <1>10, <1>a, <1>b, <1>c DEF OnAudio
<1>11. CASE Take
  BY <1>11, <1>a, <1>b, <1>c DEF Take
<1>12. CASE MakeRoom
  BY <1>12, <1>a, <1>b, <1>c DEF MakeRoom, SpeakThen
<1>13. CASE Drained
  BY <1>13, <1>a, <1>b, <1>c DEF Drained
<1>14. CASE Accepted
  BY <1>14, <1>a, <1>b, <1>c DEF Accepted
<1>15. CASE OnFinished
  <2>1. todo.result \in Outcome
    BY <1>15 DEF OnFinished, Inv, TypeOK, Queues
  <2>2. outcome' # "none" /\ outcome # "none" /\ pc = "feed" /\ UNCHANGED <<spoke, playing, wait, now, until, spent>>
    BY <1>15, <1>b, <2>1 DEF OnFinished, Outcome
  <2>3. QED
    BY <1>a, <1>c, <2>2
<1>16. CASE StartRefused
  <2>1. Flushed /\ UNCHANGED <<now, spent, wait, outcome, playing>> /\ pc # "wait" /\ pc # "idle"
    BY <1>16 DEF StartRefused
  <2>2. Recent'
    BY <1>d, <2>1
  <2>3. outcome # "none"
    BY <1>16, <1>b DEF StartRefused
  <2>4. QED
    BY <2>1, <2>2, <2>3
<1>17. CASE StartSpeaking
  BY <1>17, <1>a, <1>b, <1>c DEF StartSpeaking
<1>18. CASE Write
  BY <1>18, <1>a, <1>b, <1>c DEF Write
<1>19. CASE GiveUp
  <2>1. Flushed /\ UNCHANGED <<now, spent, wait, outcome, playing>> /\ pc # "wait" /\ pc # "idle"
    BY <1>19 DEF GiveUp
  <2>2. Recent'
    BY <1>d, <2>1
  <2>3. outcome # "none"
    BY <1>19, <1>b DEF GiveUp
  <2>4. QED
    BY <2>1, <2>2, <2>3
<1>20. CASE AllWritten
  <2>1. Flushed /\ UNCHANGED <<now, spent, wait, outcome, playing>> /\ pc # "wait" /\ pc # "idle"
    BY <1>20 DEF AllWritten
  <2>2. Recent'
    BY <1>d, <2>1
  <2>3. outcome # "none"
    BY <1>20, <1>b DEF AllWritten
  <2>4. QED
    BY <2>1, <2>2, <2>3
<1>21. CASE WindDown
  <2>1. wait' = (IF playing THEN Remaining ELSE 0) /\ pc' = "wait" /\ UNCHANGED <<outcome, playing, now, until>>
    BY <1>21 DEF WindDown
  <2>2. CASE outcome # "none" /\ spoke
    <3>1. Recent
      BY <1>21, <2>2 DEF WindDown
    <3>2. Remaining \in 0 .. SinkDepth
      BY <1>a, <3>1, TurnFitsClock DEF Recent, Remaining, Since, Clock
    <3>3. wait' \in 0 .. SinkDepth
      BY <1>a, <2>1, <3>2
    <3>4. QED
      BY <2>1, <2>2, <3>3, <1>a
  <2>3. CASE ~spoke
    <3>1. wait' = 0
      BY <2>1, <2>3 DEF Remaining
    <3>2. QED
      BY <1>a, <2>1, <3>1
  <2>4. CASE outcome = "none"
    BY <1>a, <2>1, <2>4
  <2>5. QED
    BY <2>2, <2>3, <2>4
<1>22. CASE Stop
  BY <1>22, <1>a, <1>b, <1>c DEF Stop
<1>23. CASE Token
  BY <1>23, <1>a, <1>b, <1>c DEF Token
<1>24. CASE Tick
  <2>1. now' = Later(now, 1) /\ wait' = Less(wait) /\ Modulus > 1
        /\ UNCHANGED <<until, spoke, outcome, playing, pc>>
    BY <1>24 DEF Tick
  <2>2. wait' <= wait
    BY <1>a, <2>1 DEF Less
  <2>3. ASSUME pc # "idle", pc # "wait", Recent
        PROVE  Recent'
    <3>1. spent' = spent + 1 /\ spent < TurnTicks
      BY <1>24, <2>3 DEF Tick
    <3>2. CASE Since(now, until) \in SinkDepth - spent .. SinkDepth /\ now # until
      <4>1. Since(now', until) = Since(now, until) - 1
        BY <1>a, <2>1, <3>2 DEF Since, Later, Clock
      <4>2. QED
        BY <1>a, <2>1, <3>1, <3>2, <4>1 DEF Recent
    <3>3. CASE Since(now, until) \in SinkDepth - spent .. SinkDepth /\ now = until
      <4>1. Since(now, until) = 0 /\ Since(until, now') = 1
        BY <1>a, <2>1, <3>3 DEF Since, Later, Clock
      <4>2. QED
        BY <1>a, <2>1, <3>1, <3>3, <4>1 DEF Recent
    <3>4. CASE Since(until, now) + SinkDepth <= spent
      <4>1. Since(until, now') = Since(until, now) + 1
        BY <1>a, <2>1, <3>1, <3>4, TurnFitsClock DEF Since, Later, Clock
      <4>2. QED
        BY <1>a, <2>1, <3>1, <3>4, <4>1 DEF Recent, Since, Clock
    <3>5. QED
      BY <2>3, <3>2, <3>3, <3>4 DEF Recent
  <2>4. outcome' # "none" /\ pc' # "wait" /\ spoke' => Recent'
    BY <1>b, <2>1, <2>3
  <2>5. (outcome' = "none" /\ ~Beeps => ~playing') /\ (wait' > 0 => pc' = "wait")
    BY <1>a, <2>1 DEF Less
  <2>6. wait' > SinkDepth => outcome' = "none" /\ Beeps
    BY <1>a, <2>1 DEF Less
  <2>7. QED
    BY <2>4, <2>5, <2>6
<1>25. QED
  BY <1>1, <1>2, <1>3, <1>4, <1>5, <1>6, <1>7, <1>8, <1>9, <1>10, <1>11, <1>12, <1>13, <1>14, <1>15, <1>16, <1>17, <1>18, <1>19, <1>20, <1>21, <1>22, <1>23, <1>24
     DEF Next, Begins, Feeds, Listens, Speaks, WindsDown

(* Where all audio comes at one rate, whatever fails is a breach. *)
LEMMA BlamedStep ==
  ASSUME Inv, Blamed, Next, "other" \notin Rates
  PROVE  Blamed'
<1> USE DEF Blamed, OnlyBreachFails, gateway, turn, stager, device, control, history, time
<1>a. /\ todo \in ToDo /\ outcome \in Outcome \cup {"none", "running"} /\ breach \in BOOLEAN
      /\ seq \in Nat /\ expectedSeq \in Nat
  BY BoundsAreNat DEF Inv, TypeOK, Queues, Names, Flags, Numbers, ToDo
<1>b. pc = "idle" => outcome = "none" /\ todo = Nothing
  BY DEF Inv, InControl
<1>c. Nothing.result = None /\ None # "failed"
  BY ExpressionsDistinct DEF Nothing
<1>1. CASE Beep
  BY <1>1, <1>a, <1>b, <1>c DEF Beep
<1>2. CASE BeginTurn
  BY <1>2, <1>a, <1>b, <1>c DEF BeginTurn, FreshTurn, MayStopPlayback
<1>3. CASE AbortTurn
  BY <1>3, <1>a, <1>b, <1>c DEF AbortTurn, FreshTurn, MayStopPlayback
<1>4. CASE FeedAudio
  <2>1. PICK skip \in {0, 1}, text \in Text, pcm \in {Missing, Corrupt} \cup 0 .. EventMax,
             last \in BOOLEAN : Event(skip, text, pcm, last)
    BY <1>4 DEF FeedAudio
  <2>2. todo = Nothing /\ UNCHANGED outcome
    BY <1>4 DEF FeedAudio, Reading
  <2>3. seq' = seq + skip + 1 /\ breach' = (breach \/ skip = 1 \/ pcm < 0 \/ text.ending = "bad")
    BY <2>1, Zenon DEF Event
  <2>4. HandleAudio(seq + skip, text, Pieces(skip, pcm), pcm, last)
    BY <2>1 DEF Event, Pieces
  <2>5. ASSUME ~breach'
        PROVE  seq' = expectedSeq' /\ todo'.result # "failed"
    <3>1. ~breach /\ skip = 0 /\ ~(pcm < 0) /\ text.ending # "bad"
      BY <2>3, <2>5
    <3>2. seq = expectedSeq /\ InSequence(seq + skip)
      BY <1>a, <3>1 DEF InSequence
    <3>3. pcm # Missing /\ pcm # Corrupt
      BY <3>1 DEF Missing, Corrupt
    <3>4. expectedSeq' = expectedSeq + 1
      BY <2>4, <3>2 DEF HandleAudio
    <3>5. todo'.result = None
      BY <2>4, <3>1, <3>2, <3>3 DEF HandleAudio, Nothing
    <3>6. QED
      BY <1>a, <1>c, <2>3, <3>1, <3>2, <3>4, <3>5
  <2>6. breach => breach'
    BY <2>3
  <2>7. QED
    BY <1>a, <2>2, <2>5, <2>6
<1>5. CASE FeedOtherRate
  BY <1>5, <1>a, <1>b, <1>c DEF FeedOtherRate
<1>6. CASE FeedFinished
  BY <1>6, <1>a, <1>b, <1>c DEF FeedFinished, Nothing
<1>7. CASE AbortCancelled
  BY <1>7, <1>a, <1>b, <1>c DEF AbortCancelled, Nothing
<1>8. CASE AbortFailed
  BY <1>8, <1>a, <1>b, <1>c DEF AbortFailed, Nothing
<1>9. CASE OnSentence
  BY <1>9, <1>a, <1>b, <1>c DEF OnSentence, SpeakThen, ToDo
<1>10. CASE OnAudio
  BY <1>10, <1>a, <1>b, <1>c DEF OnAudio
<1>11. CASE Take
  BY <1>11, <1>a, <1>b, <1>c DEF Take, ToDo
<1>12. CASE MakeRoom
  BY <1>12, <1>a, <1>b, <1>c DEF MakeRoom, SpeakThen
<1>13. CASE Drained
  BY <1>13, <1>a, <1>b, <1>c DEF Drained
<1>14. CASE Accepted
  BY <1>14, <1>a, <1>b, <1>c DEF Accepted
<1>15. CASE OnFinished
  BY <1>15, <1>a, <1>b, <1>c DEF OnFinished, SpeakThen
<1>16. CASE StartRefused
  BY <1>16, <1>a, <1>b, <1>c DEF StartRefused, Flushed
<1>17. CASE StartSpeaking
  BY <1>17, <1>a, <1>b, <1>c DEF StartSpeaking
<1>18. CASE Write
  BY <1>18, <1>a, <1>b, <1>c DEF Write
<1>19. CASE GiveUp
  BY <1>19, <1>a, <1>b, <1>c DEF GiveUp, Flushed
<1>20. CASE AllWritten
  BY <1>20, <1>a, <1>b, <1>c DEF AllWritten, Flushed
<1>21. CASE WindDown
  BY <1>21, <1>a, <1>b, <1>c DEF WindDown
<1>22. CASE Stop
  BY <1>22, <1>a, <1>b, <1>c DEF Stop
<1>23. CASE Token
  BY <1>23, <1>a, <1>b, <1>c DEF Token
<1>24. CASE Tick
  BY <1>24, <1>a, <1>b, <1>c DEF Tick
<1>25. QED
  BY <1>1, <1>2, <1>3, <1>4, <1>5, <1>6, <1>7, <1>8, <1>9, <1>10, <1>11, <1>12, <1>13, <1>14, <1>15, <1>16, <1>17, <1>18, <1>19, <1>20, <1>21, <1>22, <1>23, <1>24
     DEF Next, Begins, Feeds, Listens, Speaks, WindsDown

(* A text with a terminator is one sentence or none. *)
LEMMA OneSentence ==
  ASSUME NEW text \in Text, NEW last \in BOOLEAN, "open" \notin Endings, ~open
  PROVE  /\ text.ending \in {"none", "closed", "bad"} /\ ~LeftOpen(text)
         /\ Segments(text) = (IF text.ending = "closed" THEN <<Marked(text)>> ELSE <<>>)
         /\ Segments(text) \o Flush(text, last) = Segments(text)
<1>1. text.ending \in {"none", "closed", "bad"}
  BY DEF Text, NoText, BadText
<1>2. ~LeftOpen(text)
  BY <1>1 DEF LeftOpen
<1>3. Segments(text) = (IF text.ending = "closed" THEN <<Marked(text)>> ELSE <<>>)
  BY DEF Segments, CutBy, Closed
<1>4. Flush(text, last) = <<>>
  BY <1>2 DEF Flush
<1>5. Segments(text) \o <<>> = Segments(text)
  BY <1>3
<1>6. QED
  BY <1>1, <1>2, <1>3, <1>4, <1>5

(* The pieces of a new event belong to the sentence it has just announced, *)
(* or to the one before.                                                   *)
LEMMA FeedFaced ==
  ASSUME Inv, Faced, FeedAudio, "open" \notin Endings
  PROVE  Faced'
<1>1. PICK skip \in {0, 1}, text \in Text, pcm \in {Missing, Corrupt} \cup 0 .. EventMax,
           last \in BOOLEAN : Event(skip, text, pcm, last)
  BY DEF FeedAudio
<1>2. /\ todo = Nothing /\ pc = "feed" /\ outcome = "running"
      /\ UNCHANGED <<stage, speaking, pending, heard, face, pc, outcome>>
  BY DEF FeedAudio, Reading, stager, device, control
<1>3. /\ ~open /\ meant = Upcoming /\ pending = None
      /\ Under(stage, speaking) /\ RightFace
  BY <1>2 DEF Faced, Speaking, Nothing
<1>4. meant = speaking
  BY <1>2, <1>3 DEF Upcoming, Nothing
<1> DEFINE p == Pieces(skip, pcm)
           ss == Segments(text)
<1>5. HandleAudio(seq + skip, text, p, pcm, last)
  BY <1>1 DEF Event, Pieces
<1>6. meant' = IF text.ending \in {"closed", "open"} THEN Marked(text) ELSE meant
  BY <1>1 DEF Event
<1>7. Under(p, meant')
  <2>1. \A i \in 1 .. Len(p) : p[i].meant = meant'
    BY BoundsAreNat DEF p, Pieces, Missing, Corrupt
  <2>2. QED
    BY <2>1 DEF Under
<1>8. /\ text.ending \in {"none", "closed", "bad"} /\ ~LeftOpen(text)
      /\ ss = (IF text.ending = "closed" THEN <<Marked(text)>> ELSE <<>>)
      /\ ss \o Flush(text, last) = ss
  BY <1>3, OneSentence
<1> HIDE DEF p, ss
<1>9. Len(ss) <= 1 /\ meant' = IF ss # <<>> THEN ss[1] ELSE speaking
  BY <1>4, <1>6, <1>8
<1>10. Under(<<>>, meant')
  BY DEF Under
<1>11. \/ todo' = [Nothing EXCEPT !.result = "failed"] /\ open' = open
       \/ todo' = Nothing /\ text.ending = "bad" /\ open' = open
       \/ todo' = [Nothing EXCEPT !.sentences = ss] /\ Segment(text, FALSE)
       \/ todo' = [Nothing EXCEPT !.sentences = ss, !.result = "failed"] /\ Segment(text, FALSE)
       \/ todo' = [Nothing EXCEPT !.sentences = ss, !.audio = p] /\ Segment(text, last)
  BY <1>2, <1>5, <1>8 DEF HandleAudio, ss
<1>12. ~open'
  BY <1>3, <1>8, <1>11 DEF Segment
<1>13. /\ Len(todo'.sentences) <= 1
       /\ todo'.audio # <<>> => todo'.result = None
       /\ Under(todo'.audio, meant')
       /\ todo'.audio # <<>> \/ todo'.result = None
            => meant' = IF todo'.sentences # <<>> THEN todo'.sentences[1] ELSE speaking
  <2>1. None # "failed"
    BY ExpressionsDistinct
  <2>2. CASE todo' = [Nothing EXCEPT !.result = "failed"]
    BY <1>10, <2>1, <2>2 DEF Nothing
  <2>3. CASE todo' = Nothing /\ text.ending = "bad"
    BY <1>8, <1>9, <1>10, <2>3 DEF Nothing
  <2>4. CASE todo' = [Nothing EXCEPT !.sentences = ss]
    BY <1>9, <1>10, <2>4 DEF Nothing
  <2>5. CASE todo' = [Nothing EXCEPT !.sentences = ss, !.result = "failed"]
    BY <1>9, <1>10, <2>1, <2>5 DEF Nothing
  <2>6. CASE todo' = [Nothing EXCEPT !.sentences = ss, !.audio = p]
    BY <1>7, <1>9, <2>6 DEF Nothing
  <2>7. QED
    BY <1>11, <2>2, <2>3, <2>4, <2>5, <2>6
<1>14. Upcoming' = IF todo'.sentences # <<>> THEN todo'.sentences[1] ELSE speaking
  BY <1>2, <1>3 DEF Upcoming
<1>15. Under(todo'.audio, Upcoming')
  <2>1. CASE todo'.audio = <<>>
    BY <2>1 DEF Under
  <2>2. CASE todo'.audio # <<>>
    BY <1>13, <1>14, <2>2
  <2>3. QED
    BY <2>1, <2>2
<1>16. Under(stage', speaking') /\ RightFace'
  BY <1>2, <1>3 DEF Under, RightFace
<1>17. QED
  BY <1>2, <1>3, <1>12, <1>13, <1>14, <1>15, <1>16 DEF Faced, Speaking

(* Taking puts what is in hand on the stage. *)
LEMMA TakenUnder ==
  ASSUME NEW e, NEW s \in Seq(Piece), NEW a \in Seq(Piece), NEW n \in 0 .. Len(a),
         Under(s, e), Under(a, e)
  PROVE  Under(s \o SubSeq(a, 1, n), e) /\ Under(SubSeq(a, n + 1, Len(a)), e)
<1> DEFINE taken == SubSeq(a, 1, n)
           rest  == SubSeq(a, n + 1, Len(a))
<1>1. /\ taken \in Seq(Piece) /\ Len(taken) = n /\ \A i \in 1 .. n : taken[i] = a[i]
      /\ Len(rest) = Len(a) - n /\ \A i \in 1 .. Len(a) - n : rest[i] = a[n + i]
  BY Parts
<1>2. Len(s \o taken) = Len(s) + n /\ \A i \in 1 .. Len(s \o taken) :
        (s \o taken)[i] = IF i <= Len(s) THEN s[i] ELSE taken[i - Len(s)]
  BY <1>1, Joined
<1>3. Len(s) \in Nat /\ Len(a) \in Nat
  OBVIOUS
<1> HIDE DEF taken, rest
<1>4. Under(s \o taken, e)
  <2>1. ASSUME NEW i \in 1 .. Len(s \o taken)
        PROVE  (s \o taken)[i].meant = e
    <3>1. CASE i <= Len(s)
      BY <1>2, <1>3, <3>1 DEF Under
    <3>2. CASE ~(i <= Len(s))
      <4>1. i - Len(s) \in 1 .. n /\ i - Len(s) \in 1 .. Len(a)
        BY <1>2, <1>3, <3>2
      <4>2. (s \o taken)[i] = a[i - Len(s)]
        BY <1>1, <1>2, <3>2, <4>1
      <4>3. QED
        BY <4>1, <4>2 DEF Under
    <3>3. QED
      BY <3>1, <3>2
  <2>2. QED
    BY <2>1 DEF Under
<1>5. Under(rest, e)
  <2>1. ASSUME NEW i \in 1 .. Len(rest)
        PROVE  rest[i].meant = e
    <3>1. n + i \in 1 .. Len(a) /\ rest[i] = a[n + i]
      BY <1>1, <1>3
    <3>2. QED
      BY <3>1 DEF Under
  <2>2. QED
    BY <2>1 DEF Under
<1>6. QED
  BY <1>4, <1>5 DEF taken, rest

(* Where nothing is put on the stage, in hand or out, nothing changes face. *)
LEMMA Unmoved ==
  ASSUME Faced, heard' \in {heard, <<>>},
         stage' = <<>> \/ UNCHANGED <<stage, speaking>>,
         todo'.audio = <<>> \/ (todo'.audio = todo.audio /\ Upcoming' = Upcoming)
  PROVE  Under(stage', speaking') /\ Under(todo'.audio, Upcoming') /\ RightFace'
<1>1. \A expression : Under(<<>>, expression)
  BY DEF Under
<1>2. Under(stage', speaking') /\ Under(todo'.audio, Upcoming')
  BY <1>1 DEF Faced
<1>3. RightFace'
  BY DEF Faced, RightFace
<1>4. QED
  BY <1>2, <1>3

(* What is staged is never played under another face than its own. *)
LEMMA FacedStep ==
  ASSUME Inv, Faced, Next, "open" \notin Endings
  PROVE  Faced'
<1> USE DEF gateway, turn, stager, device, control, history, time
<1>a. /\ todo \in ToDo /\ pending \in Expression \cup {None} /\ None \notin Expression
      /\ pc \in {"idle", "feed", "accept", "drained", "start", "write", "wind", "wait"}
      /\ ret \in {"feed", "drained", "wind"}
  BY ExpressionsDistinct DEF Inv, TypeOK, Queues, Names, ToDo
<1>b. /\ pc = "idle" => outcome = "none"
      /\ pc \in {"idle", "wind", "wait"} => todo = Nothing /\ stage = <<>>
  BY DEF Inv, InControl
<1>c. Nothing.sentences = <<>> /\ Nothing.audio = <<>> /\ Nothing.result = None
  BY DEF Nothing
<1>d. UNCHANGED <<todo, pending, speaking>> => Upcoming' = Upcoming
  BY DEF Upcoming
<1>1. CASE Beep
  BY <1>1, <1>a, <1>b, <1>c, <1>d, Unmoved DEF Beep, Faced, Speaking, Reading, Upcoming, ToDo
<1>2. CASE BeginTurn
  BY <1>2, <1>a, <1>b, <1>c, <1>d, Unmoved DEF BeginTurn, FreshTurn, MayStopPlayback, Faced, Speaking, Reading, Upcoming, ToDo
<1>3. CASE AbortTurn
  BY <1>3, <1>a, <1>b, <1>c, <1>d, Unmoved DEF AbortTurn, FreshTurn, MayStopPlayback, Faced, Speaking, Reading, Upcoming, ToDo
<1>4. CASE FeedAudio
  BY <1>4, FeedFaced
<1>5. CASE FeedOtherRate
  BY <1>5, <1>a, <1>b, <1>c, <1>d, Unmoved DEF FeedOtherRate, Faced, Speaking, Reading, Upcoming, ToDo
<1>6. CASE FeedFinished
  BY <1>6, <1>a, <1>b, <1>c, <1>d, Unmoved DEF FeedFinished, Faced, Speaking, Reading, Upcoming, ToDo
<1>7. CASE AbortCancelled
  BY <1>7, <1>a, <1>b, <1>c, <1>d, Unmoved DEF AbortCancelled, Faced, Speaking, Reading, Upcoming, ToDo
<1>8. CASE AbortFailed
  BY <1>8, <1>a, <1>b, <1>c, <1>d, Unmoved DEF AbortFailed, Faced, Speaking, Reading, Upcoming, ToDo
<1>9. CASE OnSentence
  BY <1>9, <1>a, <1>b, <1>c, <1>d, Unmoved DEF OnSentence, SpeakThen, Faced, Speaking, Reading, Upcoming, ToDo
<1>10. CASE OnAudio
  BY <1>10, <1>a, <1>b, <1>c, <1>d, Unmoved DEF OnAudio, Faced, Speaking, Reading, Upcoming, ToDo
<1>11. CASE Take
  <2>1. PICK n \in 0 .. Len(todo.audio) :
          /\ stage' = stage \o SubSeq(todo.audio, 1, n)
          /\ todo' = [todo EXCEPT !.audio = SubSeq(todo.audio, n + 1, Len(todo.audio))]
    BY <1>11, TakeMoves
  <2>2. stage \in Seq(Piece) /\ todo.audio \in Seq(Piece)
    BY DEF Inv, TypeOK, Queues
  <2>3. /\ todo'.audio = SubSeq(todo.audio, n + 1, Len(todo.audio))
        /\ todo'.sentences = todo.sentences /\ todo'.result = todo.result
    BY <1>a, <2>1 DEF ToDo
  <2>4. /\ pc = "accept" /\ todo.audio # <<>>
        /\ UNCHANGED <<open, meant, outcome, speaking, pending, pc, face, heard>>
    BY <1>11 DEF Take
  <2>5. todo.sentences = <<>> /\ pending = None /\ todo.result = None
    BY <2>4 DEF Faced, Speaking
  <2>6. Upcoming = speaking /\ Upcoming' = speaking
    BY <2>3, <2>4, <2>5 DEF Upcoming
  <2>7. Under(stage', speaking) /\ Under(todo'.audio, speaking)
    BY <2>1, <2>2, <2>3, <2>6, TakenUnder DEF Faced
  <2>8. RightFace'
    BY <2>4 DEF Faced, RightFace
  <2>9. QED
    BY <2>3, <2>4, <2>5, <2>6, <2>7, <2>8 DEF Faced, Speaking
<1>12. CASE MakeRoom
  BY <1>12, <1>a, <1>b, <1>c, <1>d, Unmoved DEF MakeRoom, SpeakThen, Faced, Speaking, Reading, Upcoming, ToDo
<1>13. CASE Drained
  <2>1. /\ pc = "drained" /\ pc' = "accept" /\ stage = <<>>
        /\ UNCHANGED <<todo, stage, speaking, heard, open, pending, meant, outcome, face>>
    BY <1>13 DEF Drained, Inv, InControl
  <2>2. pending = None /\ todo.sentences = <<>>
    BY <2>1 DEF Faced, Speaking
  <2>3. QED
    BY <1>d, <2>1, <2>2, Unmoved DEF Faced, Speaking
<1>14. CASE Accepted
  BY <1>14, <1>a, <1>b, <1>c, <1>d, Unmoved DEF Accepted, Faced, Speaking, Reading, Upcoming, ToDo
<1>15. CASE OnFinished
  <2>1. /\ pc = "feed" /\ todo' = Nothing /\ outcome' = todo.result /\ todo.sentences = <<>>
        /\ UNCHANGED <<speaking, heard, open, meant, face>>
    BY <1>15 DEF OnFinished
  <2>2. pending = None /\ pending' = None
    BY <1>15, <2>1 DEF OnFinished, Faced, Speaking
  <2>3. outcome' # "running"
    BY <1>15 DEF OnFinished, Inv, TypeOK, Queues, Outcome
  <2>4. stage' \in {stage, <<>>} /\ pc' \in {"wind", "start"}
    BY <1>15 DEF OnFinished, SpeakThen
  <2>5. Under(stage', speaking') /\ Under(todo'.audio, Upcoming') /\ RightFace'
    BY <1>c, <2>1, <2>4, Unmoved
  <2>6. QED
    BY <1>c, <2>1, <2>2, <2>3, <2>4, <2>5 DEF Faced
<1>16. CASE StartRefused
  BY <1>16, <1>a, <1>b, <1>c, <1>d, Unmoved DEF StartRefused, Flushed, Faced, Speaking, Reading, Upcoming, ToDo
<1>17. CASE StartSpeaking
  BY <1>17, <1>a, <1>b, <1>c, <1>d, Unmoved DEF StartSpeaking, Faced, Speaking, Reading, Upcoming, ToDo
<1>18. CASE Write
  <2>1. /\ pc = "write" /\ written < Len(stage)
        /\ heard' = Append(heard, [no |-> stage[written + 1].no,
                                    meant |-> stage[written + 1].meant, face |-> face])
        /\ UNCHANGED <<todo, stage, speaking, pending, open, meant, outcome, pc, face>>
    BY <1>18 DEF Write
  <2>2. stage[written + 1].meant = face
    <3>1. written + 1 \in 1 .. Len(stage)
      BY <2>1 DEF Inv, TypeOK, Queues
    <3>2. QED
      BY <2>1, <3>1 DEF Faced, Under
  <2>3. heard \in Seq(Played) /\ RightFace
    BY DEF Inv, TypeOK, Queues, Faced
  <2>4. RightFace'
    BY <2>1, <2>2, <2>3 DEF RightFace
  <2>5. Under(stage', speaking') /\ Under(todo'.audio, Upcoming') /\ Upcoming' = Upcoming
    BY <1>d, <2>1 DEF Faced, Under
  <2>6. QED
    BY <2>1, <2>4, <2>5 DEF Faced, Speaking
<1>19. CASE GiveUp
  BY <1>19, <1>a, <1>b, <1>c, <1>d, Unmoved DEF GiveUp, Flushed, Faced, Speaking, Reading, Upcoming, ToDo
<1>20. CASE AllWritten
  BY <1>20, <1>a, <1>b, <1>c, <1>d, Unmoved DEF AllWritten, Flushed, Faced, Speaking, Reading, Upcoming, ToDo
<1>21. CASE WindDown
  BY <1>21, <1>a, <1>b, <1>c, <1>d, Unmoved DEF WindDown, Faced, Speaking, Reading, Upcoming, ToDo
<1>22. CASE Stop
  BY <1>22, <1>a, <1>b, <1>c, <1>d, Unmoved DEF Stop, Faced, Speaking, Reading, Upcoming, ToDo
<1>23. CASE Token
  BY <1>23, <1>a, <1>b, <1>c, <1>d, Unmoved DEF Token, Faced, Speaking, Reading, Upcoming, ToDo
<1>24. CASE Tick
  BY <1>24, <1>a, <1>b, <1>c, <1>d, Unmoved DEF Tick, Faced, Speaking, Reading, Upcoming, ToDo
<1>25. QED
  BY <1>1, <1>2, <1>3, <1>4, <1>5, <1>6, <1>7, <1>8, <1>9, <1>10, <1>11, <1>12, <1>13, <1>14, <1>15, <1>16, <1>17, <1>18, <1>19, <1>20, <1>21, <1>22, <1>23, <1>24
     DEF Next, Begins, Feeds, Listens, Speaks, WindsDown

(* Before the first turn nothing was sent, staged or heard.                 *)
LEMMA InitParts == Init => Complete /\ Punctual /\ Blamed /\ Faced
<1>1. ASSUME Init PROVE Complete /\ Punctual /\ Blamed /\ Faced
  <2>1. /\ todo = Nothing /\ stage = <<>> /\ heard = <<>> /\ written = 0 /\ sent = 0
        /\ seq = 0 /\ expectedSeq = 0 /\ outcome = "none" /\ pc = "idle" /\ wait = 0
        /\ ~playing /\ ~open /\ ~lossy /\ ~spoke /\ pending = None
    BY <1>1 DEF Init
  <2>2. /\ todo.sentences = <<>> /\ todo.audio = <<>> /\ todo.result = None
        /\ None # "failed" /\ Len(<<>>) = 0 /\ 1 .. Len(<<>>) = {}
    BY <2>1, ExpressionsDistinct DEF Nothing
  <2>3. Complete
    BY <2>1, <2>2 DEF Complete, From
  <2>4. Punctual
    BY <2>1, BoundsAreNat DEF Punctual, WaitIsShort
  <2>5. Blamed
    BY <2>1, <2>2 DEF Blamed, OnlyBreachFails
  <2>6. Faced
    BY <2>1, <2>2 DEF Faced, Under, RightFace
  <2>7. QED
    BY <2>3, <2>4, <2>5, <2>6
<1>2. QED
  BY <1>1

(* A step that changes nothing disturbs none of them. *)
LEMMA StutterParts ==
  ASSUME UNCHANGED vars
  PROVE  (Complete => Complete') /\ (Punctual => Punctual') /\ (Blamed => Blamed') /\ (Faced => Faced')
<1> USE DEF vars, gateway, turn, stager, device, control, history, time
<1>1. Complete => Complete'
  BY DEF Complete, From, Ahead
<1>2. Punctual => Punctual'
  BY DEF Punctual, Recent, WaitIsShort, Since
<1>3. Blamed => Blamed'
  BY DEF Blamed, OnlyBreachFails
<1>4. Faced => Faced'
  BY DEF Faced, Under, Upcoming, RightFace, Speaking
<1>5. QED
  BY <1>1, <1>2, <1>3, <1>4

(* A completed turn played all the gateway sent, unless audio was refused  *)
(* or given up, and no hole is ever closed: what was heard, what is staged *)
(* and what is in hand follow one another (conversation.hpp:26-27).        *)
THEOREM NothingIsLost == Spec => []NothingLost
<1>1. Inv /\ Complete => NothingLost
  <2>1. ASSUME Inv, Complete, ~lossy
        PROVE  /\ \A i \in 1 .. Len(heard) : heard[i].no = i
               /\ pc = "wind" /\ outcome = "completed" => Len(heard) = sent
    <3>1. \A i \in 1 .. Len(heard) : heard[i].no = i
      BY <2>1 DEF Complete, From
    <3>2. ASSUME pc = "wind", outcome = "completed"
          PROVE  Len(heard) = sent
      <4>1. todo = Nothing /\ stage = <<>> /\ written \in 0 .. Len(stage) /\ heard \in Seq(Played)
        BY <2>1, <3>2 DEF Inv, InControl, TypeOK, Queues
      <4>2. todo.audio = <<>> /\ todo.result # "failed" /\ Len(<<>>) = 0
        BY <4>1, ExpressionsDistinct DEF Nothing
      <4>3. sent = Ahead + 0
        BY <2>1, <3>2, <4>2 DEF Complete
      <4>4. QED
        BY <4>1, <4>2, <4>3 DEF Ahead
    <3>3. QED
      BY <3>1, <3>2
  <2>2. QED
    BY <2>1 DEF NothingLost
<1>2. Init => Complete
  BY InitParts
<1>3. Inv /\ Complete /\ [Next]_vars => Complete'
  BY CompleteStep, StutterParts
<1>4. QED
  BY <1>1, <1>2, <1>3, Invariance, PTL DEF Spec

(* No turn waits longer at its end than the sink can hold, whenever the    *)
(* clock wraps (playback_stager.hpp:48-51).                                *)
THEOREM WaitsAreShort == Spec => []WaitIsShort
<1>1. Punctual => WaitIsShort
  BY DEF Punctual
<1>2. Init => Punctual
  BY InitParts
<1>3. Inv /\ Punctual /\ [Next]_vars => Punctual'
  BY PunctualStep, StutterParts
<1>4. QED
  BY <1>1, <1>2, <1>3, Invariance, PTL DEF Spec

(* Of a gateway that sends all audio at the rate it announced, a turn      *)
(* fails only after a breach (conversation.cpp:123-124); what is dropped   *)
(* for its rate is not counted (conversation.cpp:88-98).                   *)
THEOREM FailuresAreBreaches ==
  ASSUME "other" \notin Rates
  PROVE  Spec => []OnlyBreachFails
<1>1. Blamed => OnlyBreachFails
  BY DEF Blamed
<1>2. Init => Blamed
  BY InitParts
<1>3. Inv /\ Blamed /\ [Next]_vars => Blamed'
  BY BlamedStep, StutterParts
<1>4. QED
  BY <1>1, <1>2, <1>3, Invariance, PTL DEF Spec

(* Of texts that end in a terminator, each sentence is played under its    *)
(* own expression (playback_stager.hpp:21-27).                             *)
THEOREM FacesAreRight ==
  ASSUME "open" \notin Endings
  PROVE  Spec => []RightFace
<1>1. Faced => RightFace
  BY DEF Faced
<1>2. Init => Faced
  BY InitParts
<1>3. Inv /\ Faced /\ [Next]_vars => Faced'
  BY FacedStep, StutterParts
<1>4. QED
  BY <1>1, <1>2, <1>3, Invariance, PTL DEF Spec

=============================================================================
