------------------------------- MODULE Screen -------------------------------
(***************************************************************************)
(* What the screen shows: the presenter and the face it draws, and the     *)
(* three tasks that reach them.  The main loop reacts to the button, lets  *)
(* notices expire, and follows the conversation and the network; the       *)
(* conversation task shows a sentence's expression and moves the mouth;    *)
(* the server's task sets the resting expression.  Only the main loop      *)
(* draws; the others write one value at a time, without a lock.            *)
(*                                                                         *)
(* Time is a millisecond counter that wraps at ClockRange.  The main loop  *)
(* reads it once per iteration, and an iteration takes 1 to MaxLate units. *)
(***************************************************************************)
EXTENDS Integers

CONSTANTS
  Expressions,   \* the expressions there are
  Neutral,       \* the one at power-on
  ClockRange,    \* the counter wraps to 0 here
  NoticeTime,    \* how long a notice stays
  GuideTime,     \* how long the setup guide stays after a press
  MaxLate        \* the longest iteration of the main loop

ASSUME ExpressionsAssumption == Neutral \in Expressions /\ "none" \notin Expressions
ASSUME ClockAssumption ==
  /\ {NoticeTime, GuideTime, MaxLate} \subseteq Nat \ {0}
  /\ ClockRange \in Nat
  /\ 2 * (NoticeTime + MaxLate) <= ClockRange
  /\ 2 * (GuideTime + MaxLate) <= ClockRange

VARIABLES
  at,            \* where the main loop is
  clock,         \* the time it read at the start of the iteration
  held,          \* the resting expression show_face has read and not shown yet
  notice,        \* notice_shown_
  until,         \* notice_until_ms_
  lastBusy,      \* last_phase_ is not idle
  wasConnected, wasApUp, begun,
  expression, mode, talking,   \* the atomics of the face
  resting,       \* DeviceState.expression
  turn,          \* the conversation task: idle, waiting, speaking, ending
  command,       \* face.set_expression between its two writes, or "none"
  connected, apUp,             \* what the network reports
  \* history: nothing in the code reads these
  remaining,     \* the time the notice still has, until the face is back
  shownBy,       \* who chose the expression: "resting", "command", "sentence"
  ticked,        \* the presenter has seen this turn
  crossed        \* a command ran while the presenter put the face back

loop   == <<at, clock, held, crossed>>
timer  == <<notice, until, remaining>>
edges  == <<lastBusy, wasConnected, wasApUp, begun>>
face   == <<expression, mode, talking, shownBy>>
net    == <<connected, apUp>>
server == <<resting, command>>
screenVars == <<loop, timer, edges, face, server, turn, ticked, net>>

None  == "none"
Modes == {"face", "message", "pairing"}

\* The loop shows a face in three places; each is a read and then a show.
ShowPlaces == {"showExpired", "showEnded", "showConnected"}
Places == {"handle", "notice", "phase", "link", "ap", "net"} \cup ShowPlaces

ClockTimes == 0 .. ClockRange - 1
Longest    == IF NoticeTime > GuideTime THEN NoticeTime ELSE GuideTime

ScreenTypeOK ==
  /\ at \in Places /\ clock \in ClockTimes /\ held \in Expressions
  /\ notice \in BOOLEAN /\ until \in ClockTimes /\ remaining \in -MaxLate .. Longest
  /\ lastBusy \in BOOLEAN /\ wasConnected \in BOOLEAN /\ wasApUp \in BOOLEAN
  /\ begun \in BOOLEAN /\ ticked \in BOOLEAN /\ crossed \in BOOLEAN
  /\ expression \in Expressions /\ resting \in Expressions /\ mode \in Modes
  /\ talking \in BOOLEAN /\ connected \in BOOLEAN /\ apUp \in BOOLEAN
  /\ turn \in {"idle", "waiting", "speaking", "ending"}
  /\ command \in Expressions \cup {None}
  /\ shownBy \in {"resting", "command", "sentence"}

\* uint32_t addition and subtraction.
Later(t, gap)   == IF t + gap < ClockRange THEN t + gap ELSE t + gap - ClockRange
Since(from, to) == IF to >= from THEN to - from ELSE to - from + ClockRange

(***************************************************************************)
(* The face: two stores a drawing reads together.                          *)
(***************************************************************************)
Show(e, who) ==
  /\ expression' = e
  /\ mode' = "face"
  /\ shownBy' = who

\* show_message and show_pairing draw at once, on the main loop.
ShowText(m) ==
  /\ mode' = m
  /\ UNCHANGED <<expression, talking, shownBy>>

SetTimer(length) ==
  /\ notice' = TRUE
  /\ until' = Later(clock, length)
  /\ remaining' = length

(***************************************************************************)
(* The main loop: a gesture, the presenter's tick, a frame, the network.   *)
(***************************************************************************)
ScreenInit ==
  /\ at = "handle" /\ clock = 0 /\ held = Neutral
  /\ notice = FALSE /\ until = 0 /\ remaining = 0
  /\ lastBusy = FALSE /\ wasConnected = FALSE /\ wasApUp = FALSE /\ begun = FALSE
  /\ connected \in BOOLEAN /\ apUp \in BOOLEAN
  /\ expression = Neutral /\ talking = FALSE /\ shownBy = "resting"
  \* boot_screen: without credentials, the setup screen.
  /\ mode \in {"face"} \cup IF apUp THEN {"pairing"} ELSE {}
  /\ resting = Neutral /\ command = None
  /\ turn = "idle" /\ ticked = FALSE /\ crossed = FALSE

\* No press, or one that changes no screen: four presses, a hold.
HandleNothing ==
  /\ at = "handle"
  /\ at' = "notice"
  /\ UNCHANGED <<clock, held, crossed, timer, edges, face, server, turn, ticked, net>>

\* One press starts a conversation when one may start.
HandleStart ==
  /\ at = "handle"
  /\ turn = "idle" /\ connected
  /\ turn' = "waiting" /\ ticked' = FALSE
  /\ at' = "notice"
  /\ UNCHANGED <<clock, held, crossed, timer, edges, face, server, net>>

\* Otherwise it says why: how to connect, or what is missing.
HandleRefused ==
  /\ at = "handle"
  /\ \/ ~connected /\ apUp /\ ShowText("pairing") /\ SetTimer(GuideTime)
     \/ ~connected /\ ~apUp /\ ShowText("message") /\ SetTimer(NoticeTime)
     \* connected, and no gateway is configured
     \/ connected /\ ShowText("message") /\ SetTimer(NoticeTime)
  /\ at' = "notice"
  /\ UNCHANGED <<clock, held, crossed, edges, server, turn, ticked, net>>

\* Two presses: the hardware.  Three: the address.
HandleReport ==
  /\ at = "handle"
  /\ ShowText("message") /\ SetTimer(NoticeTime)
  /\ at' = "notice"
  /\ UNCHANGED <<clock, held, crossed, edges, server, turn, ticked, net>>

(* Mutant of Due: the readings are compared, not their difference. *)
DueAbsolutely == notice /\ clock >= until

\* The difference of two readings, as a signed number, is not negative.
Due == notice /\ 2 * Since(until, clock) < ClockRange

(* Mutant of ReadResting: the face put back is the one of power-on. *)
ReadNeutral(next) ==
  /\ notice' = FALSE /\ until' = 0 /\ UNCHANGED remaining
  /\ held' = Neutral
  /\ crossed' = (command # None)
  /\ at' = next
  /\ UNCHANGED <<clock, face, server, turn, net>>

\* show_face forgets the notice and reads the resting expression...
ReadResting(next) ==
  /\ notice' = FALSE /\ until' = 0 /\ UNCHANGED remaining
  /\ held' = resting
  /\ crossed' = (command # None)
  /\ at' = next
  /\ UNCHANGED <<clock, face, server, turn, net>>

\* ... and shows what it read.
ShowResting ==
  /\ at \in ShowPlaces
  /\ Show(held, "resting")
  /\ held' = Neutral
  /\ at' = CASE at = "showExpired"   -> "phase"
             [] at = "showEnded"     -> "link"
             [] at = "showConnected" -> "ap"
  /\ remaining' = 0
  /\ UNCHANGED <<clock, crossed, notice, until, edges, talking, server, turn, ticked, net>>

Skip(next) ==
  /\ at' = next
  /\ UNCHANGED <<clock, held, crossed, timer, face, server, turn, net>>

TickNotice ==
  /\ at = "notice"
  /\ IF Due THEN ReadResting("showExpired") ELSE Skip("phase")
  /\ UNCHANGED <<edges, ticked>>

(* Mutant of TickPhase: nobody puts the resting face back. *)
TickPhaseLate ==
  /\ at = "phase"
  /\ Skip("link")
  /\ lastBusy' = (turn # "idle")
  /\ ticked' = TRUE
  /\ UNCHANGED <<wasConnected, wasApUp, begun>>

\* A sentence's expression belongs to the sentence.
TickPhase ==
  /\ at = "phase"
  /\ IF lastBusy /\ turn = "idle" THEN ReadResting("showEnded") ELSE Skip("link")
  /\ lastBusy' = (turn # "idle")
  /\ ticked' = TRUE
  /\ UNCHANGED <<wasConnected, wasApUp, begun>>

TickLink ==
  /\ at = "link"
  /\ IF connected /\ ~wasConnected /\ begun THEN ReadResting("showConnected") ELSE Skip("ap")
  /\ wasConnected' = connected
  /\ UNCHANGED <<lastBusy, wasApUp, begun, ticked>>

TickAccessPoint ==
  /\ at = "ap"
  /\ IF apUp /\ ~wasApUp /\ begun
     THEN ShowText("pairing")
     ELSE UNCHANGED face
  /\ wasApUp' = apUp
  /\ begun' = TRUE
  /\ at' = "net"
  /\ UNCHANGED <<clock, held, crossed, timer, lastBusy, wasConnected, server, turn, ticked, net>>

\* The network's tick, the pause, and the next reading of the clock.
Pause ==
  /\ at = "net"
  /\ \E late \in 1 .. MaxLate :
       /\ clock' = Later(clock, late)
       /\ remaining' = IF notice THEN remaining - late ELSE 0
  /\ connected' \in BOOLEAN /\ apUp' \in BOOLEAN
  /\ at' = "handle"
  /\ UNCHANGED <<held, crossed, notice, until, edges, face, server, turn, ticked>>

(***************************************************************************)
(* The server's task.                                                      *)
(***************************************************************************)
RemoteStart ==
  /\ turn = "idle" /\ connected
  /\ turn' = "waiting" /\ ticked' = FALSE
  /\ UNCHANGED <<loop, timer, edges, face, server, net>>

SetExpression(e) ==
  /\ command = None
  /\ Show(e, "command")
  /\ command' = e
  /\ crossed' = (at \in ShowPlaces)
  /\ UNCHANGED <<at, clock, held, timer, edges, talking, resting, turn, ticked, net>>

StoreExpression ==
  /\ command # None
  /\ resting' = command
  /\ command' = None
  /\ crossed' = (crossed \/ at \in ShowPlaces)
  /\ UNCHANGED <<at, clock, held, timer, edges, face, turn, ticked, net>>

(***************************************************************************)
(* The conversation task.  A sentence comes after recording or a request   *)
(* over the network, which outlast an iteration of the main loop.          *)
(***************************************************************************)
ShowSentence(e) ==
  /\ turn = "waiting" /\ ticked
  /\ turn' = "speaking"
  /\ Show(e, "sentence")
  /\ UNCHANGED <<loop, timer, edges, talking, server, ticked, net>>

StartTalking ==
  /\ turn = "speaking"
  /\ talking' = TRUE
  /\ turn' = "waiting"
  /\ UNCHANGED <<loop, timer, edges, expression, mode, shownBy, server, ticked, net>>

\* Winding down, whatever the turn came to: the mouth first, then the phase.
StopTalking ==
  /\ turn = "waiting"
  /\ talking' = FALSE
  /\ turn' = "ending"
  /\ UNCHANGED <<loop, timer, edges, expression, mode, shownBy, server, ticked, net>>

EndTalk ==
  /\ turn = "ending"
  /\ turn' = "idle"
  /\ UNCHANGED <<loop, timer, edges, face, server, ticked, net>>

MainLoop == HandleNothing \/ HandleStart \/ HandleRefused \/ HandleReport \/ TickNotice
            \/ TickPhase \/ TickLink \/ TickAccessPoint \/ ShowResting \/ Pause
ServerTask == RemoteStart \/ StoreExpression
              \/ \E e \in Expressions : SetExpression(e)
Talk == StartTalking \/ StopTalking \/ EndTalk
        \/ \E e \in Expressions : ShowSentence(e)

ScreenNext == MainLoop \/ ServerTask \/ Talk
ScreenSpec == ScreenInit /\ [][ScreenNext]_screenVars

\* A notice has its time and no more, across the wrap of the clock and however
\* late the loop comes round: once the presenter has ticked, any message on
\* the screen still has time to run, and what expired had none left.
NoticeIsTimed ==
  /\ at = "net" => (mode = "message" => notice) /\ (notice => remaining > 0)
  /\ at = "showExpired" => remaining <= 0

\* A turn leaves nothing on the face: when the presenter has seen it end, the
\* last sentence's expression is gone and the mouth is still.
TurnLeavesNoFace ==
  /\ at = "net" /\ turn = "idle" /\ ~lastBusy => shownBy # "sentence"
  /\ turn = "idle" => ~talking

\* What device.state reports as the resting expression is what the face shows,
\* whenever no sentence, no command and no show_face is at work - unless a
\* command ran across a show_face, which may put the older expression back.
FaceIsReported ==
  command = None /\ at \notin ShowPlaces /\ shownBy # "sentence" /\ ~crossed
    => expression = resting

-----------------------------------------------------------------------------
(* The inductive invariant.                                                *)
(* A notice's time, and that a message on the screen has a notice. *)
NoticeTimed ==
  notice =>
    /\ remaining = IF remaining > 0 THEN ClockRange - Since(until, clock) ELSE -Since(until, clock)
    /\ at \notin {"handle", "notice"} => remaining > 0

MessageTimed ==
  /\ mode = "message" => notice \/ at \in ShowPlaces
  /\ at \in ShowPlaces => ~notice
  /\ at = "showExpired" => remaining <= 0

(* The presenter has seen every turn that has shown an expression. *)
TurnSeen ==
  /\ turn # "idle" /\ ticked => lastBusy
  /\ turn = "speaking" => ticked
  /\ shownBy = "sentence" => lastBusy \/ at = "showEnded"
  /\ talking => turn \in {"waiting", "speaking"}

(* What is about to be put back, and what is on the face. *)
Reported ==
  ~crossed =>
    IF at \in ShowPlaces
    THEN held = resting /\ command = None
    ELSE shownBy = "sentence" \/ expression = IF command = None THEN resting ELSE command

ScreenInv == ScreenTypeOK /\ NoticeTimed /\ MessageTimed /\ TurnSeen /\ Reported
=============================================================================
