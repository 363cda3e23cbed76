------------------------------ MODULE VoiceBase ------------------------------
(***************************************************************************)
(* The voice base: one codec and one I2S port that record or play, never   *)
(* both.  Two tasks change its direction: the conversation task, which     *)
(* records, speaks and stops, and the main loop, which plays short tones   *)
(* for the button.  A recursive lock serialises changes of direction;      *)
(* read, write and playing() do not take it.                               *)
(*                                                                         *)
(* Every take of the lock, every change of the direction, of a channel or  *)
(* of a codec register set, and every unlocked check is a step.  Codec,    *)
(* expander and I2S driver calls may fail.                                 *)
(***************************************************************************)
EXTENDS Naturals

CONSTANTS
  Conv,  \* the conversation task
  Main,  \* the main loop
  Free   \* nobody holds the lock

ASSUME TasksDistinct == Conv # Main /\ Free \notin {Conv, Main}

Task == {Conv, Main}

VARIABLES
  direction,  \* AudioDirection::state_
  rx, tx,     \* g_rx, g_tx: "none", "created" or "enabled"
  codec,      \* which register sequence the codec holds
  amp,        \* the speaker amplifier is powered
  owner,      \* who holds g_direction_lock
  depth,      \* how often
  place,         \* place[t]: where the task is
  ret,        \* ret[t]: where start_playback or stop_playback returns to
  busy,       \* conversation::phase() is not idle
  borrowed    \* history: speak() let a write through while the button was still
              \* starting playback, which has not succeeded since

device == <<direction, rx, tx, codec, amp>>
mutex  == <<owner, depth>>
voiceVars   == <<device, mutex, place, ret, busy, borrowed>>

StartCapture  == {"scLock", "scBegin", "scCodec", "scOpen", "scEnable"}
StopCapture   == {"ecLock", "ecCheck", "ecEnd"}
StartPlayback == {"spLock", "spBegin", "spCodec", "spAmp", "spOpen", "spEnable"}
StopPlayback  == {"stLock", "stAmp", "stClose", "stEnd"}
Tone          == {"toneLock", "toneStarted", "toneWrite", "toneUse", "toneEnd"}
Turn          == {"record", "reading", "readUse", "replied", "speak", "writing",
                  "writeUse", "wind", "park"}

Steps == {"idle"} \cup Turn \cup StartCapture \cup StopCapture
           \cup StartPlayback \cup StopPlayback \cup Tone

(* Where a call is made from, and so where it returns to. *)
Returns == {"none", "speak", "tone", "record", "wind"}

VoiceTypeOK ==
  /\ direction \in {"idle", "capturing", "playing"}
  /\ rx \in {"none", "created", "enabled"}
  /\ tx \in {"none", "created", "enabled"}
  /\ codec \in {"reset", "capture", "playback"}
  /\ amp \in BOOLEAN
  /\ owner \in Task \cup {Free}
  /\ depth \in 0 .. 2
  /\ place \in [Task -> Steps]
  /\ ret \in [Task -> Returns]
  /\ busy \in BOOLEAN
  /\ borrowed \in BOOLEAN

(* begin() creates the lock and leaves no channel open. *)
VoiceInit ==
  /\ direction = "idle"
  /\ rx = "none" /\ tx = "none"
  /\ codec = "reset"
  /\ amp = FALSE
  /\ owner = Free /\ depth = 0
  /\ place = [t \in Task |-> "idle"]
  /\ ret = [t \in Task |-> "none"]
  /\ busy = FALSE
  /\ borrowed = FALSE

-----------------------------------------------------------------------------
(* Control.                                                                *)

At(t, step)   == place[t] = step
GoTo(t, step) == place' = [place EXCEPT ![t] = step]

Call(t, step, from) ==
  /\ GoTo(t, step)
  /\ ret' = [ret EXCEPT ![t] = from]

(* Where the caller of start_playback or stop_playback goes on. *)
Resume(t, result) ==
  /\ ret' = [ret EXCEPT ![t] = "none"]
  /\ GoTo(t, CASE ret[t] = "speak"  -> IF result THEN "writing" ELSE "replied"
               [] ret[t] = "tone"   -> IF result THEN "toneStarted" ELSE "toneEnd"
               [] ret[t] = "record" -> "scLock"
               [] OTHER             -> "park")

(* DirectionLock: the recursive mutex. *)
Take(t) ==
  /\ owner \in {Free, t}
  /\ owner' = t
  /\ depth' = depth + 1

Give(t) ==
  /\ depth' = depth - 1
  /\ owner' = IF depth = 1 THEN Free ELSE owner

(* close_i2s: both channels are deleted. *)
CloseI2s == rx' = "none" /\ tx' = "none"

-----------------------------------------------------------------------------
(* start_capture and stop_capture, called by the conversation task.        *)

LockCapture(t) ==
  /\ At(t, "scLock")
  /\ Take(t)
  /\ GoTo(t, "scBegin")
  /\ UNCHANGED <<device, ret, busy, borrowed>>

(* Recording came to nothing: the turn is over. *)
CaptureFails(t) == Give(t) /\ GoTo(t, "wind")

(* AudioDirection::begin_capture *)
BeginCapture(t) ==
  /\ At(t, "scBegin")
  /\ CASE direction = "idle"      -> /\ direction' = "capturing"
                                     /\ GoTo(t, "scCodec")
                                     /\ UNCHANGED mutex
       [] direction = "capturing" -> Give(t) /\ GoTo(t, "reading") /\ UNCHANGED direction
       [] OTHER                   -> CaptureFails(t) /\ UNCHANGED direction
  /\ UNCHANGED <<rx, tx, codec, amp, ret, busy, borrowed>>

CodecForCapture(t) ==
  /\ At(t, "scCodec")
  /\ \/ /\ codec' = "capture"
        /\ GoTo(t, "scOpen")
        /\ UNCHANGED <<direction, mutex>>
     \/ /\ codec' \in {codec, "capture"}
        /\ direction' = "idle"
        /\ CaptureFails(t)
  /\ UNCHANGED <<rx, tx, amp, ret, busy, borrowed>>

(* open_i2s(true): closes whatever is open, creates the one channel. *)
OpenCapture(t) ==
  /\ At(t, "scOpen")
  /\ tx' = "none"
  /\ \/ /\ rx' = "created"
        /\ GoTo(t, "scEnable")
        /\ UNCHANGED <<direction, mutex>>
     \/ /\ rx' = "none"
        /\ direction' = "idle"
        /\ CaptureFails(t)
  /\ UNCHANGED <<codec, amp, ret, busy, borrowed>>

(* Mutant of EnableCapture: a failure leaves the direction behind. *)
EnableCaptureKeepingDirection(t) ==
  /\ At(t, "scEnable")
  /\ \/ /\ rx' = "enabled"
        /\ Give(t)
        /\ GoTo(t, "reading")
        /\ UNCHANGED <<direction, tx>>
     \/ /\ CloseI2s
        /\ CaptureFails(t)
        /\ UNCHANGED direction
  /\ UNCHANGED <<codec, amp, ret, busy, borrowed>>

EnableCapture(t) ==
  /\ At(t, "scEnable")
  /\ \/ /\ rx' = "enabled"
        /\ Give(t)
        /\ GoTo(t, "reading")
        /\ UNCHANGED <<direction, tx>>
     \/ /\ CloseI2s
        /\ direction' = "idle"
        /\ CaptureFails(t)
  /\ UNCHANGED <<codec, amp, ret, busy, borrowed>>

LockStopCapture(t) ==
  /\ At(t, "ecLock")
  /\ Take(t)
  /\ GoTo(t, "ecCheck")
  /\ UNCHANGED <<device, ret, busy, borrowed>>

StopCaptureCheck(t) ==
  /\ At(t, "ecCheck")
  /\ IF direction = "capturing"
       THEN CloseI2s /\ GoTo(t, "ecEnd") /\ UNCHANGED mutex
       ELSE Give(t) /\ GoTo(t, "replied") /\ UNCHANGED <<rx, tx>>
  /\ UNCHANGED <<direction, codec, amp, ret, busy, borrowed>>

EndCapture(t) ==
  /\ At(t, "ecEnd")
  /\ direction' = "idle"
  /\ Give(t)
  /\ GoTo(t, "replied")
  /\ UNCHANGED <<rx, tx, codec, amp, ret, busy, borrowed>>

-----------------------------------------------------------------------------
(* start_playback and stop_playback, called by both tasks.                 *)

LockPlayback(t) ==
  /\ At(t, "spLock")
  /\ Take(t)
  /\ GoTo(t, "spBegin")
  /\ UNCHANGED <<device, ret, busy, borrowed>>

PlaybackReturns(t, result) == Give(t) /\ Resume(t, result)

(* Mutant of BeginPlayback: playback takes the port from a recording. *)
BeginPlaybackAnyway(t) ==
  /\ At(t, "spBegin")
  /\ IF direction = "playing"
       THEN PlaybackReturns(t, TRUE) /\ UNCHANGED direction
       ELSE /\ direction' = "playing"
            /\ GoTo(t, "spCodec")
            /\ UNCHANGED <<mutex, ret>>
  /\ UNCHANGED <<rx, tx, codec, amp, busy, borrowed>>

(* AudioDirection::begin_playback *)
BeginPlayback(t) ==
  /\ At(t, "spBegin")
  /\ CASE direction = "idle"    -> /\ direction' = "playing"
                                   /\ GoTo(t, "spCodec")
                                   /\ UNCHANGED <<mutex, ret>>
       [] direction = "playing" -> PlaybackReturns(t, TRUE) /\ UNCHANGED direction
       [] OTHER                 -> PlaybackReturns(t, FALSE) /\ UNCHANGED direction
  /\ UNCHANGED <<rx, tx, codec, amp, busy, borrowed>>

CodecForPlayback(t) ==
  /\ At(t, "spCodec")
  /\ \/ /\ codec' = "playback"
        /\ GoTo(t, "spAmp")
        /\ UNCHANGED <<direction, mutex, ret>>
     \/ /\ codec' \in {codec, "playback"}
        /\ direction' = "idle"
        /\ PlaybackReturns(t, FALSE)
  /\ UNCHANGED <<rx, tx, amp, busy, borrowed>>

(* The amplifier, if there is one and it answers; carry on either way. *)
PowerAmplifier(t) ==
  /\ At(t, "spAmp")
  /\ amp' \in {amp, TRUE}
  /\ GoTo(t, "spOpen")
  /\ UNCHANGED <<direction, rx, tx, codec, mutex, ret, busy, borrowed>>

(* open_i2s(false) *)
OpenPlayback(t) ==
  /\ At(t, "spOpen")
  /\ rx' = "none"
  /\ \/ /\ tx' = "created"
        /\ GoTo(t, "spEnable")
        /\ UNCHANGED <<direction, mutex, ret>>
     \/ /\ tx' = "none"
        /\ direction' = "idle"
        /\ PlaybackReturns(t, FALSE)
  /\ UNCHANGED <<codec, amp, busy, borrowed>>

EnablePlayback(t) ==
  /\ At(t, "spEnable")
  /\ \/ /\ tx' = "enabled"
        /\ borrowed' = FALSE
        /\ PlaybackReturns(t, TRUE)
        /\ UNCHANGED <<direction, rx>>
     \/ /\ CloseI2s
        /\ direction' = "idle"
        /\ PlaybackReturns(t, FALSE)
        /\ UNCHANGED borrowed
  /\ UNCHANGED <<codec, amp, busy>>

(* Nothing to stop unless playing; otherwise the amplifier goes first. *)
LockStopPlayback(t) ==
  /\ At(t, "stLock")
  /\ Take(t)
  /\ GoTo(t, "stAmp")
  /\ UNCHANGED <<device, ret, busy, borrowed>>

CutAmplifier(t) ==
  /\ At(t, "stAmp")
  /\ IF direction = "playing"
       THEN /\ amp' \in {amp, FALSE}
            /\ GoTo(t, "stClose")
            /\ UNCHANGED <<mutex, ret>>
       ELSE PlaybackReturns(t, TRUE) /\ UNCHANGED amp
  /\ UNCHANGED <<direction, rx, tx, codec, busy, borrowed>>

ClosePlayback(t) ==
  /\ At(t, "stClose")
  /\ CloseI2s
  /\ GoTo(t, "stEnd")
  /\ UNCHANGED <<direction, codec, amp, mutex, ret, busy, borrowed>>

EndPlayback(t) ==
  /\ At(t, "stEnd")
  /\ direction' = "idle"
  /\ PlaybackReturns(t, TRUE)
  /\ UNCHANGED <<rx, tx, codec, amp, busy, borrowed>>

-----------------------------------------------------------------------------
(* The conversation task's turn.                                           *)

(* request_start took the phase; a text turn records nothing. *)
AcceptTurn ==
  /\ ~busy
  /\ At(Conv, "idle")
  /\ busy' = TRUE
  /\ place' \in {[place EXCEPT ![Conv] = step] : step \in {"record", "replied"}}
  /\ UNCHANGED <<device, mutex, ret, borrowed>>

(* record(): stop playback first, since the two cannot overlap. *)
Record ==
  /\ At(Conv, "record")
  /\ IF direction = "playing"
       THEN Call(Conv, "stLock", "record")
       ELSE GoTo(Conv, "scLock") /\ UNCHANGED ret
  /\ UNCHANGED <<device, mutex, busy, borrowed>>

(* read(): the direction is checked, then the channel is used. *)
ReadCheck ==
  /\ At(Conv, "reading")
  /\ direction = "capturing"
  /\ GoTo(Conv, "readUse")
  /\ UNCHANGED <<device, mutex, ret, busy, borrowed>>

ReadUse ==
  /\ At(Conv, "readUse")
  /\ GoTo(Conv, "reading")
  /\ UNCHANGED <<device, mutex, ret, busy, borrowed>>

(* Enough, cancelled, or out of time. *)
ReadDone ==
  /\ At(Conv, "reading")
  /\ GoTo(Conv, "ecLock")
  /\ UNCHANGED <<device, mutex, ret, busy, borrowed>>

(* The reply has a sentence to speak, or the turn winds down. *)
Replied ==
  /\ At(Conv, "replied")
  /\ place' \in {[place EXCEPT ![Conv] = step] : step \in {"speak", "wind"}}
  /\ UNCHANGED <<device, mutex, ret, busy, borrowed>>

(* The steps of start_playback that may still undo it. *)
Starting == {"spCodec", "spAmp", "spOpen", "spEnable"}

(* speak(): playing() || start_playback(); playing() takes no lock and is  *)
(* true from begin_playback on.                                            *)
Speak ==
  /\ At(Conv, "speak")
  /\ IF direction = "playing"
       THEN /\ GoTo(Conv, "writing")
            /\ borrowed' = (place[Main] \in Starting)
            /\ UNCHANGED ret
       ELSE Call(Conv, "spLock", "speak") /\ borrowed' = FALSE
  /\ UNCHANGED <<device, mutex, busy>>

(* write(): the direction is checked, then the channel is used. *)
WriteCheck ==
  /\ At(Conv, "writing")
  /\ direction = "playing"
  /\ GoTo(Conv, "writeUse")
  /\ UNCHANGED <<device, mutex, ret, busy, borrowed>>

WriteUse ==
  /\ At(Conv, "writeUse")
  /\ GoTo(Conv, "writing")
  /\ UNCHANGED <<device, mutex, ret, busy, borrowed>>

(* All written, stalled, or cancelled. *)
WriteDone ==
  /\ At(Conv, "writing")
  /\ GoTo(Conv, "replied")
  /\ UNCHANGED <<device, mutex, ret, busy, borrowed>>

WindDown ==
  /\ At(Conv, "wind")
  /\ IF direction = "playing"
       THEN Call(Conv, "stLock", "wind")
       ELSE GoTo(Conv, "park") /\ UNCHANGED ret
  /\ UNCHANGED <<device, mutex, busy, borrowed>>

Park ==
  /\ At(Conv, "park")
  /\ busy' = FALSE
  /\ GoTo(Conv, "idle")
  /\ UNCHANGED <<device, mutex, ret, borrowed>>

-----------------------------------------------------------------------------
(* The main loop's tone.                                                   *)

(* beep(): never during a conversation. *)
Beep ==
  /\ At(Main, "idle")
  /\ ~busy
  /\ GoTo(Main, "toneLock")
  /\ UNCHANGED <<device, mutex, ret, busy, borrowed>>

(* play_tone() holds the lock for the whole tone. *)
LockTone ==
  /\ At(Main, "toneLock")
  /\ Take(Main)
  /\ Call(Main, "spLock", "tone")
  /\ UNCHANGED <<device, busy, borrowed>>

ToneStarted ==
  /\ At(Main, "toneStarted")
  /\ GoTo(Main, "toneWrite")
  /\ UNCHANGED <<device, mutex, ret, busy, borrowed>>

ToneWrite ==
  /\ At(Main, "toneWrite")
  /\ direction = "playing"
  /\ GoTo(Main, "toneUse")
  /\ UNCHANGED <<device, mutex, ret, busy, borrowed>>

ToneUse ==
  /\ At(Main, "toneUse")
  /\ GoTo(Main, "toneWrite")
  /\ UNCHANGED <<device, mutex, ret, busy, borrowed>>

(* Mutant of ToneWritten: the tone plays for as long as it can. *)
ToneUntilStopped ==
  /\ At(Main, "toneWrite")
  /\ direction # "playing"
  /\ GoTo(Main, "toneEnd")
  /\ UNCHANGED <<device, mutex, ret, busy, borrowed>>

ToneWritten ==
  /\ At(Main, "toneWrite")
  /\ GoTo(Main, "toneEnd")
  /\ UNCHANGED <<device, mutex, ret, busy, borrowed>>

(* Mutant of ToneEnd: the tone closes the speaker behind itself. *)
ToneEndClosing ==
  /\ At(Main, "toneEnd")
  /\ direction' = "idle" /\ CloseI2s
  /\ Give(Main)
  /\ GoTo(Main, "idle")
  /\ UNCHANGED <<codec, amp, ret, busy, borrowed>>

(* Playback is left running, to avoid amplifier clicks. *)
ToneEnd ==
  /\ At(Main, "toneEnd")
  /\ Give(Main)
  /\ GoTo(Main, "idle")
  /\ UNCHANGED <<device, ret, busy, borrowed>>

-----------------------------------------------------------------------------
CaptureStep ==
  \/ LockCapture(Conv) \/ BeginCapture(Conv) \/ CodecForCapture(Conv)
  \/ OpenCapture(Conv) \/ EnableCapture(Conv)
  \/ LockStopCapture(Conv) \/ StopCaptureCheck(Conv) \/ EndCapture(Conv)

StartPlaybackStep(t) ==
  \/ LockPlayback(t) \/ BeginPlayback(t) \/ CodecForPlayback(t)
  \/ PowerAmplifier(t) \/ OpenPlayback(t) \/ EnablePlayback(t)

StopPlaybackStep(t) ==
  \/ LockStopPlayback(t) \/ CutAmplifier(t) \/ ClosePlayback(t) \/ EndPlayback(t)

TurnStep ==
  \/ Record \/ ReadCheck \/ ReadUse \/ ReadDone \/ Replied
  \/ Speak \/ WriteCheck \/ WriteUse \/ WriteDone \/ WindDown \/ Park

ToneStep ==
  \/ LockTone \/ ToneStarted \/ ToneWrite \/ ToneUse \/ ToneWritten \/ ToneEnd

VoiceNext ==
  \/ CaptureStep
  \/ \E t \in Task : StartPlaybackStep(t)
  \/ StopPlaybackStep(Conv)
  \/ AcceptTurn \/ TurnStep
  \/ Beep \/ ToneStep

VoiceSpec == VoiceInit /\ [][VoiceNext]_voiceVars

(* Both tasks are scheduled, every driver call and every take of the lock  *)
(* returns, and a tone has a fixed number of blocks.  Nothing makes anyone *)
(* press the button or start a turn.                                       *)
VoiceFairness ==
  /\ WF_voiceVars(CaptureStep \/ StartPlaybackStep(Conv) \/ StopPlaybackStep(Conv))
  /\ WF_voiceVars(StartPlaybackStep(Main)) /\ WF_voiceVars(ToneStep) /\ SF_voiceVars(ToneWritten)

FairVoiceSpec == VoiceSpec /\ VoiceFairness

-----------------------------------------------------------------------------
(* One channel of the current direction open and enabled, the codec set up *)
(* for it, and the other channel gone.                                     *)
Settled ==
  /\ direction = "idle"      => rx = "none" /\ tx = "none"
  /\ direction = "capturing" => rx = "enabled" /\ tx = "none" /\ codec = "capture"
  /\ direction = "playing"   => tx = "enabled" /\ rx = "none" /\ codec = "playback"

(* Between changes of direction the device is what the direction says: the *)
(* one channel of that direction is open and enabled, the codec holds its  *)
(* registers, and the other channel does not exist; a change that failed   *)
(* half-way has been undone (voice_base.cpp:359-374, :428-454).            *)
SettledWhenUnlocked == owner = Free => Settled

(* Recording and playback are never both open, not even while a direction  *)
(* is being changed (voice_base.cpp:20-25).                                *)
HalfDuplex == rx = "none" \/ tx = "none"

(* A recording keeps its microphone until it stops it itself, whatever the *)
(* button does meanwhile.                                                  *)
RecordingOwnsMicrophone ==
  place[Conv] \in {"reading", "readUse"} => direction = "capturing" /\ rx = "enabled"

(* A tone keeps the speaker to its end: the conversation task cannot tear  *)
(* the channel down under it (voice_base.cpp:514-516).                     *)
ToneOwnsSpeaker ==
  place[Main] \in {"toneWrite", "toneUse"} =>
    direction = "playing" /\ tx = "enabled" /\ codec = "playback"

(* A sentence is written into an open channel: what the conversation task  *)
(* started, or found playing when it asked, nobody closes under its write. *)
(* Excepted is the write that playing() let through while the button was   *)
(* still starting playback (voice_base.cpp:419, :475): if that start       *)
(* fails, it closes the channel without asking who else writes to it.      *)
ConversationOwnsSpeaker ==
  place[Conv] = "writeUse" /\ ~borrowed =>
    direction = "playing" /\ tx = "enabled" /\ codec = "playback"

(* The port has one channel at most, and a recording, a tone and the       *)
(* conversation's own playback keep theirs for as long as they use it,     *)
(* whatever the other task begins meanwhile; for the one exception see     *)
(* ConversationOwnsSpeaker.                                                *)
PortIsKept ==
  HalfDuplex /\ RecordingOwnsMicrophone /\ ToneOwnsSpeaker /\ ConversationOwnsSpeaker

(* Whoever waits for the lock gets it: a turn that meets a tone waits the  *)
(* tone out and goes on (voice_base.cpp:510-517).                          *)
LockIsGranted ==
  place[Conv] \in {"scLock", "ecLock", "spLock", "stLock"}
    ~> place[Conv] \notin {"scLock", "ecLock", "spLock", "stLock"}

-----------------------------------------------------------------------------
(* The inductive invariant: who is where, who holds the lock how often,    *)
(* and how far a change of direction has come.                             *)

(* The steps a task takes inside one take of the lock. *)
Locked == {"scBegin", "scCodec", "scOpen", "scEnable", "ecCheck", "ecEnd",
           "spBegin", "spCodec", "spAmp", "spOpen", "spEnable",
           "stAmp", "stClose", "stEnd"}

InTone == {"toneStarted", "toneWrite", "toneUse", "toneEnd"}

Roles ==
  /\ place[Conv] \in Steps \ Tone
  /\ place[Main] \in {"idle"} \cup Tone \cup StartPlayback
  /\ ret[Conv] = "speak" <=> place[Conv] \in StartPlayback
  /\ ret[Conv] \in {"record", "wind"} <=> place[Conv] \in StopPlayback
  /\ ret[Conv] # "tone"
  /\ ret[Main] = IF place[Main] \in StartPlayback THEN "tone" ELSE "none"

HoldsLock ==
  /\ owner = Free <=> depth = 0
  /\ owner = Conv <=> place[Conv] \in Locked
  /\ owner = Main <=> place[Main] \in Locked \cup InTone \cup {"spLock"}
  /\ owner = Conv => depth = 1
  /\ owner = Main => depth = IF place[Main] \in Locked THEN 2 ELSE 1

(* A change of direction in progress. *)
Changing(t) ==
  /\ place[t] \in {"scCodec", "scOpen", "scEnable", "ecEnd"} => direction = "capturing"
  /\ place[t] \in {"spCodec", "spAmp", "spOpen", "spEnable", "stClose", "stEnd"}
       => direction = "playing"
  /\ place[t] \in {"scCodec", "scOpen", "ecEnd", "spCodec", "spAmp", "spOpen", "stEnd"}
       => rx = "none" /\ tx = "none"
  /\ place[t] \in {"scOpen", "scEnable"} => codec = "capture"
  /\ place[t] \in {"spAmp", "spOpen", "spEnable"} => codec = "playback"
  /\ place[t] = "scEnable" => rx = "created" /\ tx = "none"
  /\ place[t] = "spEnable" => tx = "created" /\ rx = "none"

(* The steps of a change between which the device is not settled. *)
Unsettled == {"scCodec", "scOpen", "scEnable", "ecEnd",
              "spCodec", "spAmp", "spOpen", "spEnable", "stEnd"}

VoiceInv ==
  /\ VoiceTypeOK
  /\ Roles
  /\ HoldsLock
  /\ Changing(Conv) /\ Changing(Main)
  /\ place[Conv] \notin Unsettled /\ place[Main] \notin Unsettled => Settled
  /\ place[Conv] \in {"reading", "readUse", "ecLock", "ecCheck"} => direction = "capturing"
  /\ place[Main] \in {"toneStarted", "toneWrite", "toneUse"} => direction = "playing"
  /\ place[Conv] \in {"writing", "writeUse"} /\ ~borrowed
       => direction = "playing" /\ place[Main] \notin Starting
=============================================================================
