------------------------------ MODULE Playback ------------------------------
(***************************************************************************)
(* What becomes of a reply: the gateway's events go through                *)
(* ConversationTurn, which cuts their text into sentences, to the Player,  *)
(* which buffers a sentence's audio in the PlaybackStager and then plays   *)
(* it under that sentence's expression.  At the end of a turn the sink is  *)
(* left to play out what it still holds, on a millisecond clock that wraps.*)
(*                                                                         *)
(* An event's audio is a few numbered pieces.  The events that change      *)
(* nothing here (conversation.text, error.raised, unknown or malformed     *)
(* ones) are left out; so are the fields only logs show.                   *)
(***************************************************************************)
EXTENDS Integers, SequencesExt

CONSTANTS
  Expression, Neutral,
  None,       \* no expression waits; no end of the turn is due
  Same,       \* a text without a marker keeps the expression
  Endings,    \* how a text ends: "closed" by a terminator, "open", or it is "bad"
  Rates,      \* sample rates of audio events: "16000", "other"
  Beeps,      \* whether a tone may leave playback running
  Events,     \* bound: audio events of a turn
  EventMax,   \* bound: pieces of one event
  Capacity,   \* pieces the stage holds
  Modulus,    \* ticks after which the clock wraps (2^32 ms)
  SinkDepth,  \* kSinkDepthMs, in ticks
  TurnTicks   \* bound: ticks from the start of a turn to its wind-down

ASSUME ExpressionsDistinct ==
  /\ Neutral \in Expression /\ None \notin Expression /\ Same \notin Expression
  /\ None \notin {"completed", "cancelled", "failed"}
ASSUME GatewayChoices ==
  /\ Endings \subseteq {"closed", "open", "bad"}
  /\ Rates \subseteq {"16000", "other"}
  /\ Beeps \in BOOLEAN
ASSUME BoundsAreNat ==
  /\ Events \in Nat /\ EventMax \in Nat /\ TurnTicks \in Nat /\ SinkDepth \in Nat
  /\ Capacity \in Nat \ {0} /\ Modulus \in Nat \ {0}
(* The deadlines of a turn keep it far shorter than half the clock. *)
ASSUME TurnFitsClock ==
  SinkDepth + TurnTicks = 0 \/ 2 * (SinkDepth + TurnTicks) < Modulus

VARIABLES
  seq,          \* the number of the gateway's next audio event
  sent,         \* pieces the gateway has sent
  meant,        \* the expression of the sentence it is speaking
  breach,       \* it broke the contract, reported an error, or fell silent
  expectedSeq, outcome,                      \* ConversationTurn
  open, current,                             \* SpeechSegmenter: unfinished text
  todo,         \* calls the event being handled still makes to the listener
  stage, speaking, pending, until, spoke,    \* PlaybackStager
  playing, face, talking,                    \* sink and face
  pc, ret,      \* where the task is, and where speak() returns to
  written,      \* pieces of the stage that speak() has written
  cancelled,    \* the token
  heard,        \* what was played: pieces, each with the face it was played under
  lossy,        \* some audio was refused or given up, and nobody will play it
  now, sounding,  \* the clock; ticks of audio the hardware still holds
  spent, wait     \* ticks of this turn; ticks the wind-down still waits

gateway == <<seq, sent, meant, breach>>
turn    == <<expectedSeq, outcome, open, current>>
stager  == <<stage, speaking, pending, until, spoke>>
device  == <<playing, face, talking>>
control == <<pc, ret, written>>
history == <<heard, lossy>>
time    == <<now, sounding, spent, wait>>

vars == <<gateway, turn, todo, stager, device, control, cancelled, history, time>>

Outcome == {"completed", "cancelled", "failed"}
Piece   == [no : Nat, meant : Expression]
Played  == [no : Nat, meant : Expression, face : Expression]
Clock   == 0 .. Modulus - 1
Nothing == [sentences |-> <<>>, audio |-> <<>>, result |-> None]

Flags ==
  /\ breach \in BOOLEAN /\ open \in BOOLEAN /\ spoke \in BOOLEAN /\ playing \in BOOLEAN
  /\ talking \in BOOLEAN /\ cancelled \in BOOLEAN /\ lossy \in BOOLEAN

Numbers ==
  /\ seq \in 0 .. Events + 1 /\ expectedSeq \in 0 .. Events /\ sent \in Nat
  /\ now \in Clock /\ until \in Clock /\ wait \in 0 .. Modulus
  /\ sounding \in 0 .. SinkDepth /\ spent \in 0 .. TurnTicks

Names ==
  /\ meant \in Expression /\ current \in Expression
  /\ speaking \in Expression /\ face \in Expression
  /\ pending \in Expression \cup {None}
  /\ outcome \in Outcome \cup {"none", "running"}
  /\ pc \in {"idle", "feed", "accept", "drained", "start", "write", "wind", "wait"}
  /\ ret \in {"feed", "drained", "wind"}

Queues ==
  /\ todo \in [sentences : Seq(Expression), audio : Seq(Piece), result : Outcome \cup {None}]
  /\ stage \in Seq(Piece) /\ Len(stage) <= Capacity /\ written \in 0 .. Len(stage)
  /\ heard \in Seq(Played)

TypeOK == Flags /\ Numbers /\ Names /\ Queues

(* uint32_t addition and subtraction. *)
Later(t, ticks) == IF t + ticks < Modulus THEN t + ticks ELSE t + ticks - Modulus
Since(from, to) == IF to >= from THEN to - from ELSE to - from + Modulus

Init ==
  /\ seq = 0 /\ sent = 0 /\ meant = Neutral /\ breach = FALSE
  /\ expectedSeq = 0 /\ open = FALSE /\ current = Neutral
  /\ heard = <<>> /\ lossy = FALSE /\ spent = 0
  /\ outcome = "none"
  /\ todo = Nothing
  /\ stage = <<>> /\ speaking = Neutral /\ pending = None /\ until = 0 /\ spoke = FALSE
  /\ playing = FALSE /\ face = Neutral /\ talking = FALSE
  /\ pc = "idle" /\ ret = "feed" /\ written = 0
  /\ cancelled = FALSE
  /\ now = 0 /\ sounding = 0 /\ wait = 0

-----------------------------------------------------------------------------
(* The start of a turn.                                                    *)

(* A tone leaves playback running. *)
Beep ==
  /\ Beeps
  /\ pc = "idle" /\ ~playing
  /\ playing' = TRUE
  /\ UNCHANGED <<gateway, turn, todo, stager, face, talking, control, cancelled,
                 history, time>>

(* Recording stops playback first; words to speak leave it as it is. *)
MayStopPlayback == playing' \in {playing, FALSE} /\ UNCHANGED <<face, talking>>

FreshTurn ==
  /\ seq' = 0 /\ sent' = 0 /\ meant' = Neutral /\ breach' = FALSE
  /\ expectedSeq' = 0 /\ open' = FALSE /\ current' = Neutral
  /\ heard' = <<>> /\ lossy' = FALSE /\ spent' = 0

(* The request goes out: a new interpreter, and the stager is reset. *)
BeginTurn ==
  /\ pc = "idle"
  /\ FreshTurn
  /\ outcome' = "running"
  /\ stage' = <<>> /\ speaking' = Neutral /\ pending' = None
  /\ until' = 0 /\ spoke' = FALSE
  /\ MayStopPlayback
  /\ pc' = "feed"
  /\ UNCHANGED <<todo, ret, written, cancelled, now, sounding, wait>>

(* Cancelled before the request, or nothing was recorded: no interpreter,  *)
(* and the stager is left as the last conversation left it.                *)
AbortTurn ==
  /\ pc = "idle"
  /\ FreshTurn
  /\ MayStopPlayback
  /\ pc' = "wind"
  /\ UNCHANGED <<outcome, todo, stager, ret, written, cancelled, now, sounding, wait>>

(* Raised by anyone at any time; estop.clear may take it back. *)
Token ==
  /\ pc \notin {"idle", "wait"}
  /\ cancelled' = ~cancelled
  /\ UNCHANGED <<gateway, turn, todo, stager, device, control, history, time>>

-----------------------------------------------------------------------------
(* ConversationTurn: the gateway's next event.                             *)

Reading == pc = "feed" /\ todo = Nothing /\ outcome = "running"

(* A text: its marker, if any, and whether its sentence is finished. *)
NoText  == [mark |-> Same, ending |-> "none"]
BadText == [mark |-> Same, ending |-> "bad"]
Text == [mark : Expression \cup {Same}, ending : Endings \cap {"closed", "open"}]
          \cup {NoText} \cup {BadText : e \in Endings \cap {"bad"}}

(* The audio of an event: a number of pieces, or none that can be played. *)
Missing == -1
Corrupt == -2

(* SpeechSegmenter: a marker ends the sentence before it, a terminator     *)
(* ends its own.                                                           *)
Marked(text)   == IF text.mark = Same THEN current ELSE text.mark
CutBy(text)    == IF open /\ text.mark # Same THEN <<current>> ELSE <<>>
Closed(text)   == IF text.ending = "closed" THEN <<Marked(text)>> ELSE <<>>
Segments(text) == CutBy(text) \o Closed(text)

(* Whether text is left waiting for the end of its sentence. *)
LeftOpen(text) == IF text.ending = "none" THEN open ELSE text.ending = "open"

(* "last" ends the sentence even if it never got a terminator. *)
Flush(text, last) == IF last /\ LeftOpen(text) THEN <<Marked(text)>> ELSE <<>>

Segment(text, last) ==
  /\ current' = Marked(text)
  /\ open' = (LeftOpen(text) /\ ~last)

(* Mutant of InSequence: numbers start at one. *)
InSequenceFromOne(number) == number = expectedSeq + 1

(* Mutant of InSequence: a gap is closed. *)
InSequenceAnyway(number) == number >= expectedSeq

InSequence(number) == number = expectedSeq

(* handle_audio(): an event whose text breaks the contract or whose audio  *)
(* is missing is dropped and the stream goes on; a gap and corrupt audio   *)
(* end the turn.                                                           *)
HandleAudio(number, text, pieces, pcm, last) ==
  IF ~InSequence(number)
    THEN /\ todo' = [Nothing EXCEPT !.result = "failed"]
         /\ UNCHANGED <<expectedSeq, open, current, lossy>>
    ELSE /\ expectedSeq' = expectedSeq + 1
         /\ lossy' = (lossy \/ text.ending = "bad" \/ pcm = Missing)
         /\ CASE text.ending = "bad" ->
                   UNCHANGED <<todo, open, current>>
              [] pcm = Missing ->
                   /\ todo' = [Nothing EXCEPT !.sentences = Segments(text)]
                   /\ Segment(text, FALSE)
              [] pcm = Corrupt ->
                   /\ todo' = [Nothing EXCEPT !.sentences = Segments(text),
                                              !.result = "failed"]
                   /\ Segment(text, FALSE)
              [] OTHER ->
                   /\ todo' = [Nothing EXCEPT
                                 !.sentences = Segments(text) \o Flush(text, last),
                                 !.audio = pieces]
                   /\ Segment(text, last)

(* An audio event; one that skips a number lost a piece. *)
Event(skip, text, pcm, last) ==
  LET count == IF pcm > 0 THEN pcm ELSE 0
  IN /\ seq' = seq + skip + 1
     /\ sent' = sent + skip + count
     /\ meant' = IF text.ending \in {"closed", "open"} THEN Marked(text) ELSE meant
     /\ breach' = (breach \/ skip = 1 \/ pcm < 0 \/ text.ending = "bad")
     /\ HandleAudio(seq + skip, text,
                    [i \in 1 .. count |-> [no |-> sent + skip + i, meant |-> meant']],
                    pcm, last)

(* The gateway's next. *)
FeedAudio ==
  /\ Reading /\ seq < Events
  /\ \E skip \in {0, 1}, text \in Text, pcm \in {Missing, Corrupt} \cup 0 .. EventMax,
        last \in BOOLEAN : Event(skip, text, pcm, last)
  /\ UNCHANGED <<outcome, stager, device, control, cancelled, heard, time>>

(* Audio at another rate is counted and dropped, before its number is      *)
(* looked at.                                                              *)
FeedOtherRate ==
  /\ Reading /\ seq < Events
  /\ "other" \in Rates
  /\ seq' = seq + 1
  /\ sent' \in sent .. sent + EventMax
  /\ lossy' = TRUE
  /\ UNCHANGED <<meant, breach, turn, todo, stager, device, control, cancelled,
                 heard, time>>

(* conversation.finished *)
FeedFinished ==
  /\ Reading
  /\ \E reason \in Outcome :
       /\ todo' = [Nothing EXCEPT !.result = reason]
       /\ breach' = (breach \/ reason = "failed")
  /\ UNCHANGED <<seq, sent, meant, turn, stager, device, control, cancelled,
                 history, time>>

(* converse() looked at the token. *)
AbortCancelled ==
  /\ Reading
  /\ cancelled
  /\ todo' = [Nothing EXCEPT !.result = "cancelled"]
  /\ UNCHANGED <<gateway, turn, stager, device, control, cancelled, history, time>>

(* The stream closed without a completion event, broke, or fell silent for *)
(* too long.                                                               *)
AbortFailed ==
  /\ Reading
  /\ todo' = [Nothing EXCEPT !.result = "failed"]
  /\ breach' = TRUE
  /\ UNCHANGED <<seq, sent, meant, turn, stager, device, control, cancelled,
                 history, time>>

-----------------------------------------------------------------------------
(* Player and PlaybackStager: what the turn tells its listener.            *)

(* speak(n) does nothing for n = 0 and otherwise returns to from. *)
SpeakThen(from) == pc' = "start" /\ ret' = from

(* Mutant of OnSentence: the face is the next sentence's at once. *)
OnSentenceAtOnce ==
  /\ pc = "feed"
  /\ todo.sentences # <<>>
  /\ todo' = [todo EXCEPT !.sentences = Tail(@)]
  /\ speaking' = Head(todo.sentences)
  /\ IF stage = <<>> THEN UNCHANGED <<pc, ret>> ELSE SpeakThen("feed")
  /\ UNCHANGED <<gateway, turn, stage, pending, until, spoke, device, written,
                 cancelled, history, time>>

(* on_sentence(): begin_sentence, and what is staged is played first. *)
OnSentence ==
  /\ pc = "feed"
  /\ todo.sentences # <<>>
  /\ todo' = [todo EXCEPT !.sentences = Tail(@)]
  /\ IF stage = <<>>
       THEN /\ speaking' = Head(todo.sentences)
            /\ pending' = None
            /\ UNCHANGED <<pc, ret>>
       ELSE /\ pending' = Head(todo.sentences)
            /\ SpeakThen("feed")
            /\ UNCHANGED speaking
  /\ UNCHANGED <<gateway, turn, stage, until, spoke, device, written, cancelled,
                 history, time>>

OnAudio ==
  /\ pc = "feed"
  /\ todo.sentences = <<>> /\ todo.audio # <<>>
  /\ pc' = "accept"
  /\ UNCHANGED <<gateway, turn, todo, stager, device, ret, written, cancelled,
                 history, time>>

(* accept(): what fits, and nothing across a sentence boundary. *)
Room == IF pending # None THEN 0 ELSE Capacity - Len(stage)

(* Mutant of Take: what is offered again begins with a piece already taken. *)
TakeOffByOne ==
  /\ pc = "accept"
  /\ todo.audio # <<>> /\ Room > 0
  /\ LET taken == IF Room < Len(todo.audio) THEN Room ELSE Len(todo.audio)
     IN /\ stage' = stage \o SubSeq(todo.audio, 1, taken)
        /\ todo' = [todo EXCEPT !.audio = SubSeq(@, IF taken = Len(@) THEN taken + 1 ELSE taken, Len(@))]
  /\ UNCHANGED <<gateway, turn, speaking, pending, until, spoke, device, control,
                 cancelled, history, time>>

Take ==
  /\ pc = "accept"
  /\ todo.audio # <<>> /\ Room > 0
  /\ LET taken == IF Room < Len(todo.audio) THEN Room ELSE Len(todo.audio)
     IN /\ stage' = stage \o SubSeq(todo.audio, 1, taken)
        /\ todo' = [todo EXCEPT !.audio = SubSeq(@, taken + 1, Len(@))]
  /\ UNCHANGED <<gateway, turn, speaking, pending, until, spoke, device, control,
                 cancelled, history, time>>

(* Full: play what is staged and offer the rest again.  Nothing staged and *)
(* no room would leave no way forward; the rest would be dropped.          *)
MakeRoom ==
  /\ pc = "accept"
  /\ todo.audio # <<>> /\ Room <= 0
  /\ IF stage = <<>>
       THEN todo' = Nothing /\ lossy' = TRUE /\ pc' = "feed" /\ UNCHANGED ret
       ELSE SpeakThen("drained") /\ UNCHANGED <<todo, lossy>>
  /\ UNCHANGED <<gateway, turn, stager, device, written, cancelled, heard, time>>

(* Back from speak(): if that freed nothing the rest is dropped. *)
Drained ==
  /\ pc = "drained"
  /\ IF stage = <<>>
       THEN pc' = "accept" /\ UNCHANGED <<todo, lossy>>
       ELSE pc' = "feed" /\ todo' = Nothing /\ lossy' = TRUE
  /\ UNCHANGED <<gateway, turn, stager, device, ret, written, cancelled, heard, time>>

Accepted ==
  /\ pc = "accept"
  /\ todo.audio = <<>>
  /\ pc' = "feed"
  /\ UNCHANGED <<gateway, turn, todo, stager, device, ret, written, cancelled,
                 history, time>>

(* Mutant of OnFinished: what is staged is played whatever the outcome. *)
OnFinishedPlayingOut ==
  /\ pc = "feed"
  /\ todo.sentences = <<>> /\ todo.audio = <<>> /\ todo.result # None
  /\ outcome' = todo.result
  /\ todo' = Nothing
  /\ IF stage = <<>> THEN pc' = "wind" /\ UNCHANGED ret ELSE SpeakThen("wind")
  /\ UNCHANGED <<gateway, expectedSeq, open, current, stager, device, written,
                 cancelled, history, time>>

(* finish() and on_finished(): a clean finish plays the last sentence out, *)
(* any other discards it.                                                  *)
OnFinished ==
  /\ pc = "feed"
  /\ todo.sentences = <<>> /\ todo.audio = <<>> /\ todo.result # None
  /\ outcome' = todo.result
  /\ todo' = Nothing
  /\ IF todo.result = "completed"
       THEN /\ IF stage = <<>> THEN pc' = "wind" /\ UNCHANGED ret ELSE SpeakThen("wind")
            /\ UNCHANGED <<stage, pending>>
       ELSE stage' = <<>> /\ pending' = None /\ pc' = "wind" /\ UNCHANGED ret
  /\ UNCHANGED <<gateway, expectedSeq, open, current, speaking, until, spoke,
                 device, written, cancelled, history, time>>

-----------------------------------------------------------------------------
(* Player::speak() and write_all().                                        *)

(* Mutant of Flushed: the moment the sink runs dry is not noted. *)
FlushedUntimed ==
  /\ stage' = <<>> /\ written' = 0
  /\ spoke' = TRUE
  /\ speaking' = IF pending = None THEN speaking ELSE pending
  /\ pending' = None
  /\ pc' = ret
  /\ UNCHANGED until

(* flushed(), and speak() returns. *)
Flushed ==
  /\ stage' = <<>> /\ written' = 0
  /\ until' = Later(now, SinkDepth)
  /\ spoke' = TRUE
  /\ speaking' = IF pending = None THEN speaking ELSE pending
  /\ pending' = None
  /\ pc' = ret

StartRefused ==
  /\ pc = "start"
  /\ ~playing
  /\ Flushed
  /\ lossy' = TRUE
  /\ UNCHANGED <<gateway, turn, todo, device, ret, cancelled, heard, time>>

StartSpeaking ==
  /\ pc = "start"
  /\ playing' = TRUE
  /\ face' = speaking
  /\ talking' = TRUE
  /\ pc' = "write"
  /\ UNCHANGED <<gateway, turn, todo, stager, ret, written, cancelled, history, time>>

(* The sink takes some of the rest. *)
Write ==
  /\ pc = "write"
  /\ written < Len(stage) /\ ~cancelled
  /\ heard' = Append(heard, [no |-> stage[written + 1].no,
                             meant |-> stage[written + 1].meant, face |-> face])
  /\ written' = written + 1
  /\ sounding' = SinkDepth
  /\ UNCHANGED <<gateway, turn, todo, stager, device, pc, ret, cancelled, lossy,
                 now, spent, wait>>

(* Mutant of GiveUp: cancelled, the loop goes on without writing. *)
GiveUpOnlyWhenStalled ==
  /\ pc = "write"
  /\ written < Len(stage) /\ ~cancelled
  /\ Flushed
  /\ lossy' = TRUE
  /\ UNCHANGED <<gateway, turn, todo, device, ret, cancelled, heard, time>>

(* Cancelled, or the sink took nothing for a second. *)
GiveUp ==
  /\ pc = "write"
  /\ written < Len(stage)
  /\ Flushed
  /\ lossy' = TRUE
  /\ UNCHANGED <<gateway, turn, todo, device, ret, cancelled, heard, time>>

AllWritten ==
  /\ pc = "write"
  /\ written = Len(stage)
  /\ Flushed
  /\ UNCHANGED <<gateway, turn, todo, device, ret, cancelled, history, time>>

-----------------------------------------------------------------------------
(* Winding down, and time.                                                 *)

(* Mutant of Remaining: an unsigned difference. *)
RemainingUnsigned == IF spoke THEN Since(now, until) ELSE 0

(* remaining_ms(): a signed difference of wrapping clocks. *)
Remaining ==
  LET left == Since(now, until)
  IN IF spoke /\ 2 * left < Modulus THEN left ELSE 0

WindDown ==
  /\ pc = "wind"
  /\ wait' = IF playing THEN Remaining ELSE 0
  /\ pc' = "wait"
  /\ UNCHANGED <<gateway, turn, todo, stager, device, ret, written, cancelled,
                 history, now, sounding, spent>>

(* stop_playback cuts the amplifier without waiting. *)
Stop ==
  /\ pc = "wait" /\ wait = 0
  /\ playing' = FALSE /\ talking' = FALSE
  /\ cancelled' = FALSE
  /\ outcome' = "none"
  /\ pc' = "idle"
  /\ UNCHANGED <<gateway, expectedSeq, open, current, todo, stager, face, ret,
                 written, history, time>>

Less(n) == IF n = 0 THEN 0 ELSE n - 1

Tick ==
  /\ Modulus > 1
  /\ CASE pc = "idle" -> UNCHANGED spent
       [] pc = "wait" -> wait > 0 /\ UNCHANGED spent
       [] OTHER       -> spent < TurnTicks /\ spent' = spent + 1
  /\ now' = Later(now, 1)
  /\ sounding' = Less(sounding)
  /\ wait' = Less(wait)
  /\ UNCHANGED <<gateway, turn, todo, stager, device, control, cancelled, history>>

-----------------------------------------------------------------------------
Begins    == Beep \/ BeginTurn \/ AbortTurn
Feeds     == \/ FeedAudio \/ FeedOtherRate \/ FeedFinished
             \/ AbortCancelled \/ AbortFailed
Listens   == OnSentence \/ OnAudio \/ Take \/ MakeRoom \/ Drained \/ Accepted \/ OnFinished
Speaks    == StartRefused \/ StartSpeaking \/ Write \/ GiveUp \/ AllWritten
WindsDown == WindDown \/ Stop

Next == Begins \/ Feeds \/ Listens \/ Speaks \/ WindsDown \/ Token \/ Tick

Spec == Init /\ [][Next]_vars

(* The task is scheduled; a write returns within its deadline. *)
FairSpec == Spec /\ WF_vars(Listens \/ Speaks)

-----------------------------------------------------------------------------
(* Nothing is played twice or out of order, however events, sentences and  *)
(* a full stage fall together (playback_stager.cpp:27-46, task.cpp:124-145).*)
InOrder == \A i, j \in 1 .. Len(heard) : i < j => heard[i].no < heard[j].no

(* What a completed turn played, if nothing was refused or given up, is    *)
(* all that the gateway sent, and at no time has a hole been closed        *)
(* (conversation.hpp:26-27).                                               *)
NothingLost ==
  ~lossy =>
    /\ \A i \in 1 .. Len(heard) : heard[i].no = i
    /\ pc = "wind" /\ outcome = "completed" => Len(heard) = sent

(* Once a turn was cancelled or failed nothing more is played, not even    *)
(* what was staged: "speech resuming after a cancellation is unnerving"    *)
(* (playback_stager.hpp:40-41).                                            *)
SilentOnceEnded ==
  [][StartSpeaking \/ Write => outcome \in {"running", "completed"}]_vars

(* The loop that buffers an event's audio comes to its end, whatever is    *)
(* staged and whether or not the sink plays (task.cpp:125-145).            *)
BufferingEnds == pc = "accept" ~> pc \in {"feed", "wind"}

(* A sentence is played under its own expression, neither the one before   *)
(* nor the one after (playback_stager.hpp:21-27).  This is promised of     *)
(* texts that end in a terminator: an unfinished one is known to be a      *)
(* sentence only after its first audio.                                    *)
RightFace == \A i \in 1 .. Len(heard) : heard[i].face = heard[i].meant

(* A turn fails only when the gateway broke the contract, reported a       *)
(* failure or fell silent (conversation.cpp:123-124).                      *)
OnlyBreachFails == outcome = "failed" => breach

(* When playback is stopped the sink has nothing left to sound: the end of *)
(* the last sentence is not clipped (playback_stager.hpp:48-51).           *)
TailIsHeard == pc = "wait" /\ wait = 0 => sounding = 0

(* ... and no turn waits for more than the sink can hold, but one that was *)
(* aborted before its request while a tone had left playback running       *)
(* (README.md).                                                            *)
WaitIsShort == wait > SinkDepth => outcome = "none" /\ Beeps

-----------------------------------------------------------------------------
(* The inductive invariant.                                                *)

Speaking == pc \in {"start", "write"}

(* Where the task is says what is left to do: nothing is staged once it    *)
(* winds down, and it speaks only for a turn that runs or has completed.   *)
InControl ==
  /\ expectedSeq <= seq
  /\ written > 0 => pc = "write"
  /\ pc \in {"idle", "wind", "wait"} \/ (Speaking /\ ret = "wind") => todo = Nothing
  /\ pc \in {"idle", "wind", "wait", "drained"} => stage = <<>>
  /\ pc \in {"feed", "accept", "drained"} \/ (Speaking /\ ret # "wind") => outcome = "running"
  /\ Speaking /\ ret = "wind" => outcome = "completed"
  /\ pc = "idle" => outcome = "none"

(* What was heard comes before what is staged and not written, that before *)
(* the audio in hand, and all of it before what the gateway still sends.   *)
Ascending(s) == \A i, j \in 1 .. Len(s) : i < j => s[i].no < s[j].no
Before(s, n, t) == \A i \in 1 .. Len(s), j \in 1 .. Len(t) : j > n => s[i].no < t[j].no
UpTo(s, n) == \A i \in 1 .. Len(s) : s[i].no <= n

Ordered ==
  /\ Ascending(heard) /\ Ascending(stage) /\ Ascending(todo.audio)
  /\ Before(heard, written, stage) /\ Before(heard, 0, todo.audio) /\ Before(stage, 0, todo.audio)
  /\ UpTo(heard, sent) /\ UpTo(stage, sent) /\ UpTo(todo.audio, sent)

(* What still sounds was written in this turn, and until says when it ends. *)
Timed ==
  /\ pc = "write" => playing
  /\ sounding > 0 =>
       /\ pc # "idle"
       /\ pc = "wait" => sounding <= wait
       /\ pc # "wait" => playing
       /\ pc \notin {"wait", "write"} => spoke /\ Since(now, until) \in sounding .. SinkDepth

Inv == TypeOK /\ InControl /\ Ordered /\ Timed

(* What was heard, what is staged and what is in hand follow one another   *)
(* without a gap, and until a turn fails they are all that was sent.       *)
From(s, n) == \A i \in 1 .. Len(s) : s[i].no = n + i
Ahead == Len(heard) - written + Len(stage)

Complete ==
  ~lossy =>
    /\ From(heard, 0) /\ From(stage, Len(heard) - written) /\ From(todo.audio, Ahead)
    /\ outcome \in {"running", "completed"} /\ todo.result # "failed"
         => sent = Ahead + Len(todo.audio)

(* The end noted in this turn lies at most the depth of the sink ahead,    *)
(* less the time since; and outside of turns playback runs only if a tone  *)
(* has left it running.                                                    *)
Recent ==
  \/ Since(now, until) \in SinkDepth - spent .. SinkDepth
  \/ Since(until, now) + SinkDepth <= spent

Punctual ==
  /\ outcome # "none" /\ pc # "wait" /\ spoke => Recent
  /\ outcome = "none" /\ ~Beeps => ~playing
  /\ wait > 0 => pc = "wait"
  /\ WaitIsShort

(* Where all audio comes at one rate, a gateway without a breach is at the *)
(* number the turn expects, and whatever failed was a breach.              *)
Blamed ==
  /\ ~breach => seq = expectedSeq
  /\ todo.result = "failed" => breach
  /\ OnlyBreachFails

(* Where every text ends in a terminator, none is left open, what is       *)
(* staged belongs to the sentence that speaks, and what is in hand to the  *)
(* next that was announced, with which the gateway goes on.                *)
Upcoming ==
  IF todo.sentences # <<>> THEN todo.sentences[1] ELSE IF pending # None THEN pending ELSE speaking

Under(s, expression) == \A i \in 1 .. Len(s) : s[i].meant = expression

Faced ==
  /\ ~open
  /\ pending # None => Speaking
  /\ Len(todo.sentences) <= 1
  /\ todo.sentences # <<>> => pc = "feed"
  /\ todo.audio # <<>> => todo.result = None
  /\ Under(stage, speaking) /\ Under(todo.audio, Upcoming)
  /\ outcome = "running" /\ todo.result = None => meant = Upcoming
  /\ pc = "write" => face = speaking
  /\ RightFace
=============================================================================
