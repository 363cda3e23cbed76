-------------------------- MODULE ConversationTask --------------------------
(***************************************************************************)
(* One conversation turn, and the tasks that start, cancel and stop it.    *)
(*                                                                         *)
(* The HTTP server task (conversation.start, conversation.cancel,          *)
(* estop.engage, estop.clear, device.state) and the main loop (a click     *)
(* starts, a hold cancels) run against the conversation task.  They share  *)
(* the atomic phase, the buffer of words to speak, the task notification,  *)
(* the DeviceState both callers refresh, and the cancellation source,      *)
(* whose operations are atomic (Cancellation implements CancelCell).  What *)
(* they make of a turn together is Turns, which this module implements.    *)
(*                                                                         *)
(* Every check of the cancellation token, every bounded read or write and  *)
(* every store to shared state is a step of its own.  Audio, the network   *)
(* and the gateway answer as they please.  Deadlines are counted in polls  *)
(* of the loop they bound.                                                 *)
(***************************************************************************)
EXTENDS CancelReason, FiniteSets

CONSTANTS
  Server,   \* the HTTP server's tasks: the firmware has one
  Button,   \* the main loop, which turns gestures into commands
  Words,    \* what a start may ask to have spoken
  NoWords,  \* the empty text: record instead
  Torn,     \* the text buffer while it is being written
  Query,    \* a device.state request, which only refreshes the state
  Polls,    \* polls a deadline allows
  Slices,   \* pieces of audio in one recording, upload or sentence
  Events    \* events one network read can hold

ASSUME CallersDistinct == Server \cap Button = {}
ASSUME WordsDistinct ==
  NoWords \in Words /\ Torn \notin Words /\ Query \notin Words /\ Query # Torn
ASSUME BoundsPositive ==
  Polls \in Nat \ {0} /\ Slices \in Nat \ {0} /\ Events \in Nat \ {0}

Caller == Server \cup Button

VARIABLES
  \* shared
  phase,       \* g_phase
  spokenText,  \* g_spoken_text
  notified,    \* the conversation task's notification
  reason,      \* g_cancellation
  dev,         \* g_state: the DeviceState the callers refresh and decide by
  \* callers
  cpc,         \* cpc[c]: where the caller is in its handler
  asks,        \* asks[c]: the words of its start, or Query
  loaded,      \* loaded[c]: emergency() as its refresh_state loaded it
  \* the conversation task
  tpc,         \* where run_one_turn is
  spoken,      \* the local view of the words
  captured,    \* slices recorded
  budget,      \* what the bounded loop it is in still allows
  slices,      \* slices left to write to the speaker
  outcome,     \* turn->outcome()
  connected,   \* the connection to the gateway is open
  \* history
  asked        \* the words of the start that owns the turn

shared     == <<phase, spokenText, notified, reason, dev>>
callerVars == <<cpc, asks, loaded>>
taskVars   == <<tpc, spoken, captured, budget, slices, outcome, connected>>
vars       == <<shared, callerVars, taskVars, asked>>

Phases == {"idle", "listening", "thinking", "speaking"}

CallerSteps == {"idle", "load", "store", "phase", "decide", "exchange",
                "copy", "terminate", "notify", "cancel"}

(* run_one_turn before the words are read, and while they are in use:      *)
(* before the request goes out, during converse, winding down.             *)
Opening   == {"stale", "words"}
Listens   == {"record", "capture", "captureRead", "aborted"}
Converses == {"connect", "send", "uploadCheck", "upload", "uploaded",
              "uploadFailed", "headers", "headersWait", "stream", "read", "feed",
              "speak", "writeCheck", "write", "close"}
Middle    == Listens \cup Converses \cup {"wind", "forget"}
TaskSteps == {"parked", "publish"} \cup Opening \cup Middle

Outcomes == {"none", "running", "completed", "cancelled", "failed"}

TypeOK ==
  /\ phase \in Phases
  /\ spokenText \in Words \cup {Torn}
  /\ notified \in BOOLEAN
  /\ reason \in Reason
  /\ dev \in [estop : BOOLEAN, busy : BOOLEAN]
  /\ cpc \in [Caller -> CallerSteps]
  /\ asks \in [Caller -> Words \cup {Query}]
  /\ loaded \in [Caller -> BOOLEAN]
  /\ tpc \in TaskSteps
  /\ spoken \in Words \cup {Torn}
  /\ captured \in 0 .. Slices
  /\ budget \in Nat
  /\ slices \in 0 .. Slices
  /\ outcome \in Outcomes
  /\ connected \in BOOLEAN
  /\ asked \in Words

Init ==
  /\ phase = "idle"
  /\ spokenText = NoWords
  /\ notified = FALSE
  /\ reason = None
  /\ dev = [estop |-> FALSE, busy |-> FALSE]
  /\ cpc = [c \in Caller |-> "idle"]
  /\ asks = [c \in Caller |-> NoWords]
  /\ loaded = [c \in Caller |-> FALSE]
  /\ tpc = "parked"
  /\ spoken = NoWords
  /\ captured = 0
  /\ budget = 0
  /\ slices = 0
  /\ outcome = "none"
  /\ connected = FALSE
  /\ asked = NoWords

-----------------------------------------------------------------------------
(* The callers: starting.                                                  *)

GoTo(c, step) == cpc' = [cpc EXCEPT ![c] = step]

(* The handler is over; its locals are gone. *)
Leave(c) ==
  /\ GoTo(c, "idle")
  /\ asks' = [asks EXCEPT ![c] = NoWords]
  /\ loaded' = [loaded EXCEPT ![c] = FALSE]

(* conversation.start with words or without, or one click. *)
BeginStart(c) ==
  /\ cpc[c] = "idle"
  /\ \E w \in IF c \in Server THEN Words ELSE {NoWords} :
        asks' = [asks EXCEPT ![c] = w]
  /\ GoTo(c, "load")
  /\ UNCHANGED <<shared, loaded, taskVars, asked>>

(* device.state, which refreshes the shared state as a start does. *)
BeginState(c) ==
  /\ c \in Server
  /\ cpc[c] = "idle"
  /\ asks' = [asks EXCEPT ![c] = Query]
  /\ GoTo(c, "load")
  /\ UNCHANGED <<shared, loaded, taskVars, asked>>

(* refresh_state: state.estop = token().emergency() loads one shared       *)
(* variable and stores another, ...                                        *)
RefreshLoadEstop(c) ==
  /\ cpc[c] = "load"
  /\ loaded' = [loaded EXCEPT ![c] = reason = EmergencyStop]
  /\ GoTo(c, "store")
  /\ UNCHANGED <<shared, asks, taskVars, asked>>

RefreshStoreEstop(c) ==
  /\ cpc[c] = "store"
  /\ dev' = [dev EXCEPT !.estop = loaded[c]]
  /\ GoTo(c, "phase")
  /\ UNCHANGED <<phase, spokenText, notified, reason, asks, loaded, taskVars, asked>>

(* ... and conversation and audio_busy follow the phase. *)
RefreshPhase(c) ==
  /\ cpc[c] = "phase"
  /\ dev' = [dev EXCEPT !.busy = phase # "idle"]
  /\ IF asks[c] = Query THEN Leave(c)
                        ELSE GoTo(c, "decide") /\ UNCHANGED <<asks, loaded>>
  /\ UNCHANGED <<phase, spokenText, notified, reason, taskVars, asked>>

(* can_start_conversation; the network and the gateway may also refuse. *)
MayStart == ~dev.estop /\ ~dev.busy

Allow(c) ==
  /\ cpc[c] = "decide"
  /\ MayStart
  /\ GoTo(c, "exchange")
  /\ UNCHANGED <<shared, asks, loaded, taskVars, asked>>

Refuse(c) ==
  /\ cpc[c] = "decide"
  /\ Leave(c)
  /\ UNCHANGED <<shared, taskVars, asked>>

(* Mutant of RequestStart: the phase is tested, then stored. *)
RequestStartUnchecked(c) ==
  /\ cpc[c] = "exchange"
  /\ phase' = "listening"
  /\ asked' = asks[c]
  /\ GoTo(c, "copy")
  /\ UNCHANGED <<asks, loaded, spokenText, notified, reason, dev, taskVars>>

(* request_start: the compare-exchange from idle rejects a second start. *)
RequestStart(c) ==
  /\ cpc[c] = "exchange"
  /\ IF phase = "idle"
       THEN /\ phase' = "listening"
            /\ asked' = asks[c]
            /\ GoTo(c, "copy")
            /\ UNCHANGED <<asks, loaded>>
       ELSE /\ Leave(c)
            /\ UNCHANGED <<phase, asked>>
  /\ UNCHANGED <<spokenText, notified, reason, dev, taskVars>>

(* Mutant of CopyWords: the task is notified before the words are whole. *)
CopyWordsAfterNotifying(c) ==
  /\ cpc[c] = "copy"
  /\ spokenText' = IF asks[c] = NoWords THEN spokenText ELSE Torn
  /\ notified' = TRUE
  /\ GoTo(c, "terminate")
  /\ UNCHANGED <<phase, reason, dev, asks, loaded, taskVars, asked>>

(* The words are copied, and then terminated. *)
CopyWords(c) ==
  /\ cpc[c] = "copy"
  /\ spokenText' = IF asks[c] = NoWords THEN spokenText ELSE Torn
  /\ GoTo(c, "terminate")
  /\ UNCHANGED <<phase, notified, reason, dev, asks, loaded, taskVars, asked>>

TerminateWords(c) ==
  /\ cpc[c] = "terminate"
  /\ spokenText' = asks[c]
  /\ GoTo(c, "notify")
  /\ UNCHANGED <<phase, notified, reason, dev, asks, loaded, taskVars, asked>>

Notify(c) ==
  /\ cpc[c] = "notify"
  /\ notified' = TRUE
  /\ Leave(c)
  /\ UNCHANGED <<phase, spokenText, reason, dev, taskVars, asked>>

-----------------------------------------------------------------------------
(* The callers: cancelling and stopping.                                   *)

(* conversation.cancel, or a hold: only while a conversation runs. *)
SeeConversation(c) ==
  /\ cpc[c] = "idle"
  /\ phase # "idle"
  /\ GoTo(c, "cancel")
  /\ UNCHANGED <<shared, asks, loaded, taskVars, asked>>

CancelConversation(c) ==
  /\ cpc[c] = "cancel"
  /\ reason' = Effect("cancel", Requested, reason)
  /\ GoTo(c, "idle")
  /\ UNCHANGED <<phase, spokenText, notified, dev, asks, loaded, taskVars, asked>>

(* estop.engage *)
Engage(c) ==
  /\ c \in Server
  /\ cpc[c] = "idle"
  /\ reason' = Effect("cancel", EmergencyStop, reason)
  /\ UNCHANGED <<phase, spokenText, notified, dev, callerVars, taskVars, asked>>

(* estop.clear *)
Clear(c) ==
  /\ c \in Server
  /\ cpc[c] = "idle"
  /\ reason' = Effect("clear_emergency", None, reason)
  /\ UNCHANGED <<phase, spokenText, notified, dev, callerVars, taskVars, asked>>

Start(c) ==
  \/ RefreshLoadEstop(c) \/ RefreshStoreEstop(c) \/ RefreshPhase(c)
  \/ Allow(c) \/ Refuse(c) \/ RequestStart(c)
  \/ CopyWords(c) \/ TerminateWords(c) \/ Notify(c)

CallerNext(c) ==
  \/ BeginStart(c) \/ BeginState(c) \/ Start(c)
  \/ SeeConversation(c) \/ CancelConversation(c)
  \/ Engage(c) \/ Clear(c)

-----------------------------------------------------------------------------
(* The conversation task: opening the turn.                                *)

Cancelled == reason # None  \* token.cancelled()

Wake ==
  /\ tpc = "parked"
  /\ notified
  /\ notified' = FALSE
  /\ tpc' = "stale"
  /\ UNCHANGED <<phase, spokenText, reason, dev, spoken, captured, budget,
                 slices, outcome, connected, callerVars, asked>>

(* Clear a stale cancellation; an emergency stop stays. *)
ClearStale ==
  /\ tpc = "stale"
  /\ reason' = Effect("reset", None, reason)
  /\ tpc' = "words"
  /\ UNCHANGED <<phase, spokenText, notified, dev, spoken, captured, budget,
                 slices, outcome, connected, callerVars, asked>>

ReadWords ==
  /\ tpc = "words"
  /\ spoken' = spokenText
  /\ captured' = 0
  /\ tpc' = IF spokenText = NoWords THEN "record" ELSE "aborted"
  /\ UNCHANGED <<shared, budget, slices, outcome, connected, callerVars, asked>>

(* record(): capture may be refused, or starts with a deadline. *)
StartCapture ==
  /\ tpc = "record"
  /\ \/ tpc' = "aborted" /\ UNCHANGED budget
     \/ tpc' = "capture" /\ budget' = Polls
  /\ UNCHANGED <<shared, spoken, captured, slices, outcome, connected,
                 callerVars, asked>>

CaptureCheck ==
  /\ tpc = "capture"
  /\ tpc' = IF captured = Slices \/ Cancelled \/ budget = 0
              THEN "aborted" ELSE "captureRead"
  /\ UNCHANGED <<shared, spoken, captured, budget, slices, outcome, connected,
                 callerVars, asked>>

(* A read returns a slice, or nothing in time. *)
CaptureRead ==
  /\ tpc = "captureRead"
  /\ captured' \in {captured, captured + 1}
  /\ budget' = budget - 1
  /\ tpc' = "capture"
  /\ UNCHANGED <<shared, spoken, slices, outcome, connected, callerVars, asked>>

(* Mutant of CheckAborted: only an empty recording aborts. *)
CheckAbortedIgnoringToken ==
  /\ tpc = "aborted"
  /\ IF spoken = NoWords /\ captured = 0
       THEN /\ outcome' = "cancelled"
            /\ tpc' = "wind"
            /\ UNCHANGED phase
       ELSE /\ phase' = "thinking"
            /\ outcome' = "running"
            /\ tpc' = "connect"
  /\ UNCHANGED <<spokenText, notified, reason, dev, spoken, captured, budget,
                 slices, connected, callerVars, asked>>

(* Mutant of CheckAborted: the phase is not moved on when the turn is sent. *)
CheckAbortedKeepingPhase ==
  /\ tpc = "aborted"
  /\ IF Cancelled \/ (spoken = NoWords /\ captured = 0)
       THEN outcome' = "cancelled" /\ tpc' = "wind"
       ELSE outcome' = "running" /\ tpc' = "connect"
  /\ UNCHANGED <<shared, spoken, captured, budget, slices, connected,
                 callerVars, asked>>

(* Nothing recorded, or cancelled: the turn is over before it is sent. *)
CheckAborted ==
  /\ tpc = "aborted"
  /\ IF Cancelled \/ (spoken = NoWords /\ captured = 0)
       THEN /\ outcome' = "cancelled"
            /\ tpc' = "wind"
            /\ UNCHANGED phase
       ELSE /\ phase' = "thinking"
            /\ outcome' = "running"
            /\ tpc' = "connect"
  /\ UNCHANGED <<spokenText, notified, reason, dev, spoken, captured, budget,
                 slices, connected, callerVars, asked>>

-----------------------------------------------------------------------------
(* converse(): sending.                                                    *)

(* The end of the turn, reported once; what is staged is discarded. *)
Finish(result) == outcome' = result /\ tpc' = "close"

(* No gateway url, no client, a body that does not fit, no connection. *)
Connect ==
  /\ tpc = "connect"
  /\ \/ Finish("failed") /\ UNCHANGED connected
     \/ tpc' = "send" /\ connected' = TRUE /\ UNCHANGED outcome
  /\ UNCHANGED <<shared, spoken, captured, budget, slices, callerVars, asked>>

(* The whole body in words, or the header of the recording. *)
Send ==
  /\ tpc = "send"
  /\ IF spoken # NoWords
       THEN /\ tpc' \in {"uploaded", "uploadFailed"}
            /\ UNCHANGED <<outcome, budget>>
       ELSE \/ Finish("failed") /\ UNCHANGED budget
            \/ tpc' = "uploadCheck" /\ budget' = captured /\ UNCHANGED outcome
  /\ UNCHANGED <<shared, spoken, captured, slices, connected, callerVars, asked>>

UploadCheck ==
  /\ tpc = "uploadCheck"
  /\ tpc' = IF budget = 0 \/ Cancelled THEN "uploaded" ELSE "upload"
  /\ UNCHANGED <<shared, spoken, captured, budget, slices, outcome, connected,
                 callerVars, asked>>

Upload ==
  /\ tpc = "upload"
  /\ \/ tpc' = "uploadFailed" /\ UNCHANGED budget
     \/ tpc' = "uploadCheck" /\ budget' = budget - 1
  /\ UNCHANGED <<shared, spoken, captured, slices, outcome, connected,
                 callerVars, asked>>

(* Mutant of Uploaded: the check after the upload is gone. *)
UploadedUnchecked ==
  /\ tpc \in {"uploaded", "uploadFailed"}
  /\ IF tpc = "uploadFailed"
       THEN Finish("failed") /\ UNCHANGED budget
       ELSE tpc' = "headers" /\ budget' = Polls /\ UNCHANGED outcome
  /\ UNCHANGED <<shared, spoken, captured, slices, connected, callerVars, asked>>

Uploaded ==
  /\ tpc \in {"uploaded", "uploadFailed"}
  /\ IF Cancelled
       THEN Finish("cancelled") /\ UNCHANGED budget
       ELSE IF tpc = "uploadFailed"
         THEN Finish("failed") /\ UNCHANGED budget
         ELSE tpc' = "headers" /\ budget' = Polls /\ UNCHANGED outcome
  /\ UNCHANGED <<shared, spoken, captured, slices, connected, callerVars, asked>>

(* The gateway answers, well or badly, or the read times out. *)
FetchHeaders ==
  /\ tpc = "headers"
  /\ \/ Finish("failed") /\ UNCHANGED budget
     \/ tpc' = "stream" /\ budget' = Polls /\ UNCHANGED outcome
     \/ tpc' = "headersWait" /\ UNCHANGED <<budget, outcome>>
  /\ UNCHANGED <<shared, spoken, captured, slices, connected, callerVars, asked>>

(* Mutant of AwaitHeaders: the first-event deadline is not kept. *)
AwaitHeadersForever ==
  /\ tpc = "headersWait"
  /\ IF Cancelled
       THEN Finish("cancelled")
       ELSE tpc' = "headers" /\ UNCHANGED outcome
  /\ UNCHANGED <<shared, spoken, captured, budget, slices, connected,
                 callerVars, asked>>

AwaitHeaders ==
  /\ tpc = "headersWait"
  /\ IF Cancelled
       THEN Finish("cancelled") /\ UNCHANGED budget
       ELSE IF budget = 0
         THEN Finish("failed") /\ UNCHANGED budget
         ELSE tpc' = "headers" /\ budget' = budget - 1 /\ UNCHANGED outcome
  /\ UNCHANGED <<shared, spoken, captured, slices, connected, callerVars, asked>>

-----------------------------------------------------------------------------
(* converse(): the event stream.                                           *)

(* Mutant of StreamCheck: the token is looked at only while waiting. *)
StreamCheckWhenQuiet ==
  /\ tpc = "stream"
  /\ IF Cancelled /\ budget < Polls
       THEN Finish("cancelled")
       ELSE tpc' = "read" /\ UNCHANGED outcome
  /\ UNCHANGED <<shared, spoken, captured, budget, slices, connected,
                 callerVars, asked>>

StreamCheck ==
  /\ tpc = "stream"
  /\ IF Cancelled
       THEN Finish("cancelled")
       ELSE tpc' = "read" /\ UNCHANGED outcome
  /\ UNCHANGED <<shared, spoken, captured, budget, slices, connected,
                 callerVars, asked>>

ReadData ==
  /\ tpc = "read"
  /\ tpc' = "feed"
  /\ budget' = Events
  /\ UNCHANGED <<shared, spoken, captured, slices, outcome, connected,
                 callerVars, asked>>

(* Mutant of ReadNothing: waiting counts as hearing from the gateway. *)
ReadNothingRestartsClock ==
  /\ tpc = "read"
  /\ tpc' = "stream"
  /\ budget' = Polls
  /\ UNCHANGED <<shared, spoken, captured, slices, outcome, connected,
                 callerVars, asked>>

(* EAGAIN: only the between-events deadline is watched. *)
ReadNothing ==
  /\ tpc = "read"
  /\ IF budget = 0
       THEN Finish("failed") /\ UNCHANGED budget
       ELSE tpc' = "stream" /\ budget' = budget - 1 /\ UNCHANGED outcome
  /\ UNCHANGED <<shared, spoken, captured, slices, connected, callerVars, asked>>

(* finish(): completed plays out what is staged, anything else drops it. *)
FinishWith(result) ==
  /\ outcome' = result
  /\ tpc' \in IF result = "completed" THEN {"speak", "close"} ELSE {"close"}

(* The gateway closed: the completion event may be the last, unterminated  *)
(* one, otherwise the turn failed.  Or the read failed.                    *)
ReadEnd ==
  /\ tpc = "read"
  /\ \E result \in {"completed", "cancelled", "failed"} : FinishWith(result)
  /\ UNCHANGED <<shared, spoken, captured, budget, slices, connected,
                 callerVars, asked>>

(* feed(): events of one read, until the block or the turn is over.  Only  *)
(* an event that makes the Player speak, or ends the turn, matters here.   *)
FeedReturn ==
  /\ tpc = "feed"
  /\ tpc' = "stream"
  /\ budget' = Polls
  /\ UNCHANGED <<shared, spoken, captured, slices, outcome, connected,
                 callerVars, asked>>

FeedSentence ==
  /\ tpc = "feed"
  /\ budget > 0
  /\ budget' = budget - 1
  /\ tpc' = "speak"
  /\ UNCHANGED <<shared, spoken, captured, slices, outcome, connected,
                 callerVars, asked>>

FeedFinished ==
  /\ tpc = "feed"
  /\ budget > 0
  /\ \E result \in {"completed", "cancelled", "failed"} : FinishWith(result)
  /\ UNCHANGED <<shared, spoken, captured, budget, slices, connected,
                 callerVars, asked>>

(* Back from Player::speak to whoever called it. *)
Spoken == IF outcome = "running" THEN "feed" ELSE "close"

(* speak(): playback may be refused, or starts; the face talks. *)
Speak ==
  /\ tpc = "speak"
  /\ \/ tpc' = Spoken /\ UNCHANGED <<phase, slices>>
     \/ /\ phase' = "speaking"
        /\ slices' \in 1 .. Slices
        /\ tpc' = "writeCheck"
  /\ UNCHANGED <<spokenText, notified, reason, dev, spoken, captured, budget,
                 outcome, connected, callerVars, asked>>

(* Mutant of WriteCheck: a sentence is always played to its end. *)
WriteCheckWithoutToken ==
  /\ tpc = "writeCheck"
  /\ IF slices = 0
       THEN tpc' = Spoken /\ slices' = 0
       ELSE tpc' = "write" /\ UNCHANGED slices
  /\ UNCHANGED <<shared, spoken, captured, budget, outcome, connected,
                 callerVars, asked>>

(* write_all(): the token is checked before each write, and a write that   *)
(* takes nothing in a second gives up.                                     *)
WriteCheck ==
  /\ tpc = "writeCheck"
  /\ IF slices = 0 \/ Cancelled
       THEN tpc' = Spoken /\ slices' = 0
       ELSE tpc' = "write" /\ UNCHANGED slices
  /\ UNCHANGED <<shared, spoken, captured, budget, outcome, connected,
                 callerVars, asked>>

Write ==
  /\ tpc = "write"
  /\ \/ tpc' = Spoken /\ slices' = 0
     \/ tpc' = "writeCheck" /\ slices' = slices - 1
  /\ UNCHANGED <<shared, spoken, captured, budget, outcome, connected,
                 callerVars, asked>>

-----------------------------------------------------------------------------
(* Winding down.                                                           *)

Close ==
  /\ tpc = "close"
  /\ connected' = FALSE
  /\ tpc' = "wind"
  /\ UNCHANGED <<shared, spoken, captured, budget, slices, outcome,
                 callerVars, asked>>

(* Playback has stopped; the cancellation has served its purpose. *)
ClearUsed ==
  /\ tpc = "wind"
  /\ reason' = Effect("reset", None, reason)
  /\ tpc' = "forget"
  /\ UNCHANGED <<phase, spokenText, notified, dev, spoken, captured, budget,
                 slices, outcome, connected, callerVars, asked>>

(* Mutant of ForgetWords: the phase is published before the words go. *)
PublishBeforeForgetting ==
  /\ tpc = "forget"
  /\ phase' = "idle"
  /\ tpc' = "publish"
  /\ UNCHANGED <<spokenText, notified, reason, dev, spoken, captured, budget,
                 slices, outcome, connected, callerVars, asked>>

(* The words are used once. *)
ForgetWords ==
  /\ tpc = "forget"
  /\ spokenText' = NoWords
  /\ tpc' = "publish"
  /\ UNCHANGED <<phase, notified, reason, dev, spoken, captured, budget,
                 slices, outcome, connected, callerVars, asked>>

PublishIdle ==
  /\ tpc = "publish"
  /\ phase' = "idle"
  /\ tpc' = "parked"
  /\ spoken' = NoWords
  /\ captured' = 0
  /\ budget' = 0
  /\ outcome' = "none"
  /\ UNCHANGED <<spokenText, notified, reason, dev, slices, connected,
                 callerVars, asked>>

Opens   == Wake \/ ClearStale \/ ReadWords
Records == StartCapture \/ CaptureCheck \/ CaptureRead \/ CheckAborted
Sends   == Connect \/ Send \/ UploadCheck \/ Upload \/ Uploaded
Awaits  == FetchHeaders \/ AwaitHeaders
Streams == \/ StreamCheck \/ ReadData \/ ReadNothing \/ ReadEnd
           \/ FeedReturn \/ FeedSentence \/ FeedFinished
Plays   == Speak \/ WriteCheck \/ Write
Winds   == Close \/ ClearUsed \/ ForgetWords \/ PublishIdle

TaskNext == Opens \/ Records \/ Sends \/ Awaits \/ Streams \/ Plays \/ Winds

Next == (\E c \in Caller : CallerNext(c)) \/ TaskNext

Spec == Init /\ [][Next]_vars

(* Tasks are scheduled, every read and write is bounded, and a handler     *)
(* that started runs to its end; nobody has to press or ask anything.      *)
Fairness ==
  /\ WF_vars(TaskNext)
  /\ \A c \in Caller : WF_vars(Start(c) \/ CancelConversation(c))

FairSpec == Spec /\ Fairness
-----------------------------------------------------------------------------
(* The hand-over of a turn.                                                *)

Starting(c) == cpc[c] \in {"copy", "terminate", "notify"}

(* The turn has exactly one owner: the caller that took the phase, then    *)
(* the pending notification, then the task.  No other caller writes the    *)
(* words meanwhile, and the phase says idle exactly when nobody owns a     *)
(* turn, so that a second start is rejected and no turn is ever lost with  *)
(* the phase left behind (task.cpp:465-478 and :395).                      *)
OneOwner ==
  /\ (phase = "idle") <=> /\ \A c \in Caller : ~Starting(c)
                          /\ ~notified
                          /\ tpc = "parked"
  /\ \A c, d \in Caller : Starting(c) /\ Starting(d) => c = d
  /\ (\E c \in Caller : Starting(c)) => ~notified /\ tpc = "parked"
  /\ notified => tpc = "parked"

(* The task never reads a partial value: whenever it may look at the words *)
(* they are, whole, those of the start that was accepted for this turn,    *)
(* and they stay so until the request has been sent (task.cpp:66-71).      *)
WordsIntact ==
  /\ tpc \in Opening => spokenText = asked
  /\ tpc \in Middle => spokenText = asked /\ spoken = asked

(* What makes the two inductive: the words travel with the ownership, and  *)
(* a loop's body runs only while its bound allows it.                      *)
Handover ==
  /\ \A c \in Caller :
       /\ cpc[c] \in {"decide", "exchange"} => asks[c] \in Words
       /\ Starting(c) => asks[c] = asked
       /\ cpc[c] = "notify" => spokenText = asked
  /\ notified => spokenText = asked

LoopsBounded ==
  /\ tpc = "captureRead" => captured < Slices /\ budget > 0
  /\ tpc = "upload" => budget > 0
  /\ tpc = "write" => slices > 0

(* What the phase says of the turn: it listens until the request goes out, *)
(* and the gateway is never talked to under a phase that does not say so.  *)
PhaseFollows ==
  /\ (\E c \in Caller : Starting(c)) \/ notified \/ tpc \in Opening \cup Listens
       => phase = "listening"
  /\ tpc \in Converses => phase \in {"thinking", "speaking"}

Inv == TypeOK /\ OneOwner /\ WordsIntact /\ Handover /\ LoopsBounded /\ PhaseFollows

(* The turn as Turns sees it: who holds it, how far it is, and the words   *)
(* it works with.                                                          *)
Holder == {c \in Caller : Starting(c)}

Stage ==
  IF tpc = "parked"
    THEN IF Holder # {} THEN "accepted" ELSE IF notified THEN "posted" ELSE "free"
    ELSE IF tpc \in Opening THEN "taken" ELSE IF tpc \in Middle THEN "working"
                                                               ELSE "ended"

InUse == IF tpc \in Middle THEN spoken ELSE NoWords

Abs == INSTANCE Turns WITH
  stage <- Stage, owner <- Holder, words <- asked, said <- InUse

(* Every accepted start is one turn: handed over once, worked on with its  *)
(* own words, and ended before the next one; and the phase runs in the     *)
(* documented order, idle -> listening -> thinking -> speaking -> idle     *)
(* (docs/architecture/overview.md:92), leaving it for idle only at the end *)
(* of the turn (task.cpp:307-395, :461-479).                               *)
OneTurnPerStart == Abs!Spec

(* The turn's result is known. *)
Ended == outcome \in {"completed", "cancelled", "failed"}

(* However much the gateway keeps sending, a turn that sees a cancellation *)
(* ends, unless estop.clear takes the cancellation back first              *)
(* (docs/architecture/overview.md:115).                                    *)
CancelEndsTurn == (tpc \in Middle /\ Cancelled) ~> (Ended \/ ~Cancelled)

(* No wait without a bound: a turn that never ends is one to which the     *)
(* gateway never stops sending (task.cpp:259-273, gateway_client.cpp:225). *)
WaitIsBounded == <>[](phase # "idle") => []<>(tpc = "feed")
=============================================================================
