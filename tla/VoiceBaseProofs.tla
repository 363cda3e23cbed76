--------------------------- MODULE VoiceBaseProofs ---------------------------
(***************************************************************************)
(* Proofs about the voice base.  One invariant carries them: who is where, *)
(* who holds the lock how often, and how far a change of direction has     *)
(* come.  It is proved action by action, and each property is read off it. *)
(***************************************************************************)
EXTENDS VoiceBase, TLAPS

(* begin() leaves the port closed and the lock free. *)
LEMMA InitInv == VoiceInit => VoiceInv
<1> SUFFICES ASSUME VoiceInit PROVE VoiceInv
  OBVIOUS
<1> USE TasksDistinct
<1> USE DEF VoiceInit, Steps, StartCapture, StopCapture, StartPlayback, StopPlayback,
            Tone, Turn, Returns, Task
<1>1. place[Conv] = "idle" /\ place[Main] = "idle" /\ ret[Conv] = "none" /\ ret[Main] = "none"
  OBVIOUS
<1>2. VoiceTypeOK
  <2>1. place \in [Task -> Steps] /\ ret \in [Task -> Returns]
    OBVIOUS
  <2>2. amp \in BOOLEAN /\ busy \in BOOLEAN /\ borrowed \in BOOLEAN
    BY ZenonT(10)
  <2>3. QED
    BY <2>1, <2>2 DEF VoiceTypeOK
<1>3. Roles /\ HoldsLock
  BY <1>1 DEF Roles, HoldsLock, Locked, InTone
<1>4. Changing(Conv) /\ Changing(Main) /\ Settled
  BY <1>1 DEF Changing, Settled
<1>5. QED
  BY <1>1, <1>2, <1>3, <1>4 DEF VoiceInv

(* Nothing in the invariant moves by itself. *)
LEMMA StutterInv == VoiceInv /\ UNCHANGED voiceVars => VoiceInv'
BY DEF voiceVars, device, mutex, VoiceInv, VoiceTypeOK, Roles, HoldsLock, Changing, Settled

(* start_capture and stop_capture. *)
LEMMA CaptureInv ==
  ASSUME VoiceInv, CaptureStep
  PROVE  VoiceInv'
<1> USE DEF VoiceInv, VoiceTypeOK, Roles, HoldsLock, Changing, Settled, Unsettled,
            Starting, Locked, InTone, Steps, StartCapture, StopCapture, StartPlayback,
            StopPlayback, Tone, Turn, Returns, Task, device, mutex, At, GoTo, Call, Take, Give, CloseI2s
<1> USE TasksDistinct
<1>1. CASE LockCapture(Conv)
  BY <1>1 DEF LockCapture
<1>2. CASE BeginCapture(Conv)
  BY <1>2 DEF BeginCapture, CaptureFails
<1>3. CASE CodecForCapture(Conv)
  BY <1>3 DEF CodecForCapture, CaptureFails
<1>4. CASE OpenCapture(Conv)
  BY <1>4 DEF OpenCapture, CaptureFails
<1>5. CASE EnableCapture(Conv)
  BY <1>5 DEF EnableCapture, CaptureFails
<1>6. CASE LockStopCapture(Conv)
  BY <1>6 DEF LockStopCapture
<1>7. CASE StopCaptureCheck(Conv)
  BY <1>7 DEF StopCaptureCheck
<1>8. CASE EndCapture(Conv)
  BY <1>8 DEF EndCapture
<1>9. QED
  BY <1>1, <1>2, <1>3, <1>4, <1>5, <1>6, <1>7, <1>8 DEF CaptureStep

(* start_playback, called by either task. *)
LEMMA StartPlaybackInv ==
  ASSUME VoiceInv, NEW t \in Task, StartPlaybackStep(t)
  PROVE  VoiceInv'
<1> USE DEF VoiceInv, VoiceTypeOK, Roles, HoldsLock, Changing, Settled, Unsettled,
            Starting, Locked, InTone, Steps, StartCapture, StopCapture, StartPlayback,
            StopPlayback, Tone, Turn, Returns, Task, device, mutex, At, GoTo, Call, Take, Give, CloseI2s
<1> USE TasksDistinct
<1>1. CASE LockPlayback(t)
  BY <1>1 DEF LockPlayback
<1>2. CASE BeginPlayback(t)
  BY <1>2 DEF BeginPlayback, PlaybackReturns, Resume
<1>3. CASE CodecForPlayback(t)
  BY <1>3 DEF CodecForPlayback, PlaybackReturns, Resume
<1>4. CASE PowerAmplifier(t)
  BY <1>4 DEF PowerAmplifier
<1>5. CASE OpenPlayback(t)
  BY <1>5 DEF OpenPlayback, PlaybackReturns, Resume
<1>6. CASE EnablePlayback(t)
  <2>1. VoiceTypeOK'
    <3>1. borrowed' \in BOOLEAN
      BY <1>6, Zenon DEF EnablePlayback
    <3>2. direction' \in {"idle", "capturing", "playing"} /\ codec' = codec /\ amp' = amp
      BY <1>6 DEF EnablePlayback, PlaybackReturns, Resume
    <3>3. rx' \in {"none", "created", "enabled"} /\ tx' \in {"none", "created", "enabled"}
      BY <1>6 DEF EnablePlayback, PlaybackReturns, Resume
    <3>4. owner' \in Task \cup {Free} /\ depth' \in 0 .. 2 /\ busy' = busy
      BY <1>6 DEF EnablePlayback, PlaybackReturns, Resume
    <3>5. place' \in [Task -> Steps] /\ ret' \in [Task -> Returns]
      BY <1>6 DEF EnablePlayback, PlaybackReturns, Resume
    <3>6. QED
      BY <3>1, <3>2, <3>3, <3>4, <3>5
  <2>2. Roles'
    BY <1>6 DEF EnablePlayback, PlaybackReturns, Resume
  <2>3. HoldsLock'
    BY <1>6 DEF EnablePlayback, PlaybackReturns, Resume
  <2>4. Changing(Conv)' /\ Changing(Main)'
    BY <1>6 DEF EnablePlayback, PlaybackReturns, Resume
  <2>5. VoiceInv!5' /\ VoiceInv!6' /\ VoiceInv!7' /\ VoiceInv!8'
    BY <1>6 DEF EnablePlayback, PlaybackReturns, Resume
  <2>6. QED
    BY <2>1, <2>2, <2>3, <2>4, <2>5
<1>7. QED
  BY <1>1, <1>2, <1>3, <1>4, <1>5, <1>6 DEF StartPlaybackStep

(* stop_playback, which only the conversation task calls. *)
LEMMA StopPlaybackInv ==
  ASSUME VoiceInv, StopPlaybackStep(Conv)
  PROVE  VoiceInv'
<1> USE DEF VoiceInv, VoiceTypeOK, Roles, HoldsLock, Changing, Settled, Unsettled,
            Starting, Locked, InTone, Steps, StartCapture, StopCapture, StartPlayback,
            StopPlayback, Tone, Turn, Returns, Task, device, mutex, At, GoTo, Call, Take, Give, CloseI2s
<1> USE TasksDistinct
<1>1. CASE LockStopPlayback(Conv)
  BY <1>1 DEF LockStopPlayback
<1>2. CASE CutAmplifier(Conv)
  <2>1. CASE direction = "playing"
    <3>1. VoiceTypeOK'
      <4>1. amp' \in BOOLEAN
        BY <1>2, <2>1, Zenon DEF CutAmplifier
      <4>2. place' \in [Task -> Steps] /\ ret' \in [Task -> Returns]
        BY <1>2, <2>1 DEF CutAmplifier, PlaybackReturns, Resume
      <4>3. QED
        BY <1>2, <2>1, <4>1, <4>2 DEF CutAmplifier
    <3>2. Roles'
      BY <1>2, <2>1 DEF CutAmplifier, PlaybackReturns, Resume
    <3>3. HoldsLock'
      BY <1>2, <2>1 DEF CutAmplifier, PlaybackReturns, Resume
    <3>4. Changing(Conv)' /\ Changing(Main)'
      BY <1>2, <2>1 DEF CutAmplifier, PlaybackReturns, Resume
    <3>5. VoiceInv!5' /\ VoiceInv!6' /\ VoiceInv!7' /\ VoiceInv!8'
      BY <1>2, <2>1 DEF CutAmplifier, PlaybackReturns, Resume
    <3>6. QED
      BY <3>1, <3>2, <3>3, <3>4, <3>5
  <2>2. CASE direction # "playing"
    <3>1. VoiceTypeOK'
      BY <1>2, <2>2 DEF CutAmplifier, PlaybackReturns, Resume
    <3>2. Roles'
      BY <1>2, <2>2 DEF CutAmplifier, PlaybackReturns, Resume
    <3>3. HoldsLock'
      BY <1>2, <2>2 DEF CutAmplifier, PlaybackReturns, Resume
    <3>4. Changing(Conv)' /\ Changing(Main)'
      BY <1>2, <2>2 DEF CutAmplifier, PlaybackReturns, Resume
    <3>5. VoiceInv!5' /\ VoiceInv!6' /\ VoiceInv!7' /\ VoiceInv!8'
      BY <1>2, <2>2 DEF CutAmplifier, PlaybackReturns, Resume
    <3>6. QED
      BY <3>1, <3>2, <3>3, <3>4, <3>5
  <2>3. QED
    BY <2>1, <2>2
<1>3. CASE ClosePlayback(Conv)
  BY <1>3 DEF ClosePlayback
<1>4. CASE EndPlayback(Conv)
  BY <1>4 DEF EndPlayback, PlaybackReturns, Resume
<1>5. QED
  BY <1>1, <1>2, <1>3, <1>4 DEF StopPlaybackStep

(* speak() notes whether it was let through by a start still under way. *)
LEMMA SpeakBorrows ==
  ASSUME Speak, direction = "playing"
  PROVE  borrowed' \in BOOLEAN /\ (~borrowed' => place[Main] \notin Starting)
<1>1. borrowed' = (place[Main] \in Starting)
  BY Zenon DEF Speak
<1>2. borrowed' \in BOOLEAN
  BY <1>1
<1>3. ~borrowed' => place[Main] \notin Starting
  BY <1>1
<1>4. QED
  BY <1>2, <1>3

(* The conversation task's own steps. *)
LEMMA TurnInv ==
  ASSUME VoiceInv, AcceptTurn \/ TurnStep
  PROVE  VoiceInv'
<1> USE DEF VoiceInv, VoiceTypeOK, Roles, HoldsLock, Changing, Settled, Unsettled,
            Starting, Locked, InTone, Steps, StartCapture, StopCapture, StartPlayback,
            StopPlayback, Tone, Turn, Returns, Task, device, mutex, At, GoTo, Call, Take, Give, CloseI2s
<1> USE TasksDistinct
<1>1. CASE AcceptTurn
  BY <1>1 DEF AcceptTurn
<1>2. CASE Record
  BY <1>2 DEF Record
<1>3. CASE ReadCheck
  BY <1>3 DEF ReadCheck
<1>4. CASE ReadUse
  BY <1>4 DEF ReadUse
<1>5. CASE ReadDone
  BY <1>5 DEF ReadDone
<1>6. CASE Replied
  BY <1>6 DEF Replied
<1>7. CASE Speak
  <2>1. CASE direction = "playing"
    <3>1. place' = [place EXCEPT ![Conv] = "writing"]
      BY <1>7, <2>1, Zenon DEF Speak, GoTo
    <3>2. borrowed' \in BOOLEAN /\ (~borrowed' => place[Main] \notin Starting)
      BY <1>7, <2>1, SpeakBorrows
    <3>3. VoiceTypeOK'
      BY <1>7, <2>1, <3>1, <3>2 DEF Speak
    <3>4. Roles' /\ HoldsLock'
      BY <1>7, <2>1, <3>1 DEF Speak
    <3>5. Changing(Conv)' /\ Changing(Main)'
      BY <1>7, <2>1, <3>1 DEF Speak
    <3>6. VoiceInv!5' /\ VoiceInv!6' /\ VoiceInv!7'
      BY <1>7, <2>1, <3>1 DEF Speak
    <3>7. VoiceInv!8'
      BY <1>7, <2>1, <3>1, <3>2 DEF Speak
    <3>8. QED
      BY <3>3, <3>4, <3>5, <3>6, <3>7
  <2>2. CASE direction # "playing"
    <3>1. VoiceTypeOK'
      <4>1. borrowed' \in BOOLEAN
        BY <1>7, <2>2, Zenon DEF Speak
      <4>2. place' \in [Task -> Steps] /\ ret' \in [Task -> Returns]
        BY <1>7, <2>2 DEF Speak
      <4>3. QED
        BY <1>7, <2>2, <4>1, <4>2 DEF Speak
    <3>2. Roles' /\ HoldsLock'
      BY <1>7, <2>2 DEF Speak
    <3>3. Changing(Conv)' /\ Changing(Main)'
      BY <1>7, <2>2 DEF Speak
    <3>4. VoiceInv!5' /\ VoiceInv!6' /\ VoiceInv!7' /\ VoiceInv!8'
      BY <1>7, <2>2 DEF Speak
    <3>5. QED
      BY <3>1, <3>2, <3>3, <3>4
  <2>3. QED
    BY <2>1, <2>2
<1>8. CASE WriteCheck
  BY <1>8 DEF WriteCheck
<1>9. CASE WriteUse
  BY <1>9 DEF WriteUse
<1>10. CASE WriteDone
  BY <1>10 DEF WriteDone
<1>11. CASE WindDown
  <2>1. CASE direction = "playing"
    <3>1. VoiceTypeOK'
      BY <1>11, <2>1 DEF WindDown
    <3>2. Roles'
      BY <1>11, <2>1 DEF WindDown
    <3>3. HoldsLock'
      BY <1>11, <2>1 DEF WindDown
    <3>4. Changing(Conv)' /\ Changing(Main)'
      BY <1>11, <2>1 DEF WindDown
    <3>5. VoiceInv!5' /\ VoiceInv!6' /\ VoiceInv!7' /\ VoiceInv!8'
      BY <1>11, <2>1 DEF WindDown
    <3>6. QED
      BY <3>1, <3>2, <3>3, <3>4, <3>5
  <2>2. CASE direction # "playing"
    <3>1. VoiceTypeOK'
      BY <1>11, <2>2 DEF WindDown
    <3>2. Roles'
      BY <1>11, <2>2 DEF WindDown
    <3>3. HoldsLock'
      BY <1>11, <2>2 DEF WindDown
    <3>4. Changing(Conv)' /\ Changing(Main)'
      BY <1>11, <2>2 DEF WindDown
    <3>5. VoiceInv!5' /\ VoiceInv!6' /\ VoiceInv!7' /\ VoiceInv!8'
      BY <1>11, <2>2 DEF WindDown
    <3>6. QED
      BY <3>1, <3>2, <3>3, <3>4, <3>5
  <2>3. QED
    BY <2>1, <2>2
<1>12. CASE Park
  <2>1. VoiceTypeOK'
    <3>1. busy' \in BOOLEAN
      BY <1>12, Zenon DEF Park
    <3>2. QED
      BY <1>12, <3>1 DEF Park
  <2>2. Roles'
    BY <1>12 DEF Park
  <2>3. HoldsLock'
    BY <1>12 DEF Park
  <2>4. QED
    BY <1>12, <2>1, <2>2, <2>3 DEF Park
<1>13. QED
  BY <1>1, <1>2, <1>3, <1>4, <1>5, <1>6, <1>7, <1>8, <1>9, <1>10, <1>11, <1>12 DEF TurnStep

(* The main loop's tone. *)
LEMMA ToneInv ==
  ASSUME VoiceInv, Beep \/ ToneStep
  PROVE  VoiceInv'
<1> USE DEF VoiceInv, VoiceTypeOK, Roles, HoldsLock, Changing, Settled, Unsettled,
            Starting, Locked, InTone, Steps, StartCapture, StopCapture, StartPlayback,
            StopPlayback, Tone, Turn, Returns, Task, device, mutex, At, GoTo, Call, Take, Give, CloseI2s
<1> USE TasksDistinct
<1>1. CASE Beep
  BY <1>1 DEF Beep
<1>2. CASE LockTone
  BY <1>2 DEF LockTone
<1>3. CASE ToneStarted
  BY <1>3 DEF ToneStarted
<1>4. CASE ToneWrite
  BY <1>4 DEF ToneWrite
<1>5. CASE ToneUse
  BY <1>5 DEF ToneUse
<1>6. CASE ToneWritten
  BY <1>6 DEF ToneWritten
<1>7. CASE ToneEnd
  BY <1>7 DEF ToneEnd
<1>8. QED
  BY <1>1, <1>2, <1>3, <1>4, <1>5, <1>6, <1>7 DEF ToneStep

-----------------------------------------------------------------------------
(* The invariant holds in every state the two tasks can reach. *)
THEOREM Invariance == VoiceSpec => []VoiceInv
<1>1. VoiceInv /\ [VoiceNext]_voiceVars => VoiceInv'
  BY CaptureInv, StartPlaybackInv, StopPlaybackInv, TurnInv, ToneInv, StutterInv DEF VoiceNext
<1>2. QED
  BY InitInv, <1>1, PTL DEF VoiceSpec

(* Every variable keeps its type; in particular the lock is never taken    *)
(* more than twice, nor given back more often than taken.                  *)
THEOREM TypeCorrect == VoiceSpec => []VoiceTypeOK
<1>1. VoiceInv => VoiceTypeOK
  BY DEF VoiceInv
<1>2. QED
  BY <1>1, Invariance, PTL

(* Whenever nobody holds the lock, channels and codec are what the         *)
(* direction says: every change came to its end or was undone.  (Nothing   *)
(* is said of the amplifier, which a failed start leaves powered.)         *)
THEOREM DeviceIsSettled == VoiceSpec => []SettledWhenUnlocked
<1>1. VoiceInv => SettledWhenUnlocked
  <2>1. ASSUME VoiceInv, owner = Free PROVE Settled
    <3>1. place[Conv] \notin Locked
      BY <2>1, TasksDistinct DEF VoiceInv, HoldsLock
    <3>2. place[Main] \notin Locked
      BY <2>1, TasksDistinct DEF VoiceInv, HoldsLock
    <3>3. QED
      BY <2>1, <3>1, <3>2 DEF VoiceInv, Locked, Unsettled
  <2>2. QED
    BY <2>1 DEF SettledWhenUnlocked
<1>2. QED
  BY <1>1, Invariance, PTL

(* The microphone's channel and the speaker's never exist together, in the *)
(* middle of a change of direction either.                                 *)
THEOREM PortIsHalfDuplex == VoiceSpec => []HalfDuplex
<1>1. VoiceInv => HalfDuplex
  <2>1. ASSUME VoiceInv, NEW t \in Task, place[t] \in Unsettled PROVE HalfDuplex
    BY <2>1 DEF VoiceInv, Changing, Unsettled, HalfDuplex, Task
  <2>2. ASSUME VoiceInv, Settled PROVE HalfDuplex
    BY <2>2 DEF VoiceInv, VoiceTypeOK, Settled, HalfDuplex
  <2>3. QED
    BY <2>1, <2>2 DEF VoiceInv, Task
<1>2. QED
  BY <1>1, Invariance, PTL

(* While the conversation task reads, nothing the button does takes the    *)
(* microphone away.                                                        *)
THEOREM MicrophoneIsKept == VoiceSpec => []RecordingOwnsMicrophone
<1>1. VoiceInv => RecordingOwnsMicrophone
  <2>1. ASSUME VoiceInv, place[Conv] \in {"reading", "readUse"}
        PROVE  direction = "capturing" /\ rx = "enabled"
    <3>1. direction = "capturing"
      BY <2>1 DEF VoiceInv
    <3>2. owner # Conv /\ place[Conv] \notin Unsettled
      BY <2>1 DEF VoiceInv, HoldsLock, Locked, Unsettled
    <3>3. place[Main] \notin Unsettled
      BY <2>1, <3>1 DEF VoiceInv, Roles, Changing, Unsettled, Tone, StartPlayback
    <3>4. QED
      BY <2>1, <3>1, <3>2, <3>3 DEF VoiceInv, Settled
  <2>2. QED
    BY <2>1 DEF RecordingOwnsMicrophone
<1>2. QED
  BY <1>1, Invariance, PTL

(* While a tone is written, its channel stays open: the conversation task  *)
(* waits at the lock.                                                      *)
THEOREM SpeakerIsKept == VoiceSpec => []ToneOwnsSpeaker
<1>1. VoiceInv => ToneOwnsSpeaker
  <2>1. ASSUME VoiceInv, place[Main] \in {"toneWrite", "toneUse"}
        PROVE  direction = "playing" /\ tx = "enabled" /\ codec = "playback"
    <3>1. direction = "playing" /\ owner = Main /\ place[Main] \notin Unsettled
      BY <2>1 DEF VoiceInv, HoldsLock, InTone, Unsettled
    <3>2. place[Conv] \notin Unsettled
      BY <2>1, <3>1, TasksDistinct DEF VoiceInv, HoldsLock, Locked, Unsettled
    <3>3. QED
      BY <2>1, <3>1, <3>2 DEF VoiceInv, Settled
  <2>2. QED
    BY <2>1 DEF ToneOwnsSpeaker
<1>2. QED
  BY <1>1, Invariance, PTL

(* While a sentence is written, its channel stays open, unless playing()   *)
(* answered for a start of the button's that had still to succeed.         *)
THEOREM SentenceIsKept == VoiceSpec => []ConversationOwnsSpeaker
<1>1. VoiceInv => ConversationOwnsSpeaker
  <2>1. ASSUME VoiceInv, place[Conv] = "writeUse", ~borrowed
        PROVE  direction = "playing" /\ tx = "enabled" /\ codec = "playback"
    <3>1. direction = "playing" /\ place[Main] \notin Starting
      BY <2>1 DEF VoiceInv
    <3>2. place[Conv] \notin Unsettled
      BY <2>1 DEF Unsettled
    <3>3. place[Main] \notin Unsettled
      BY <2>1, <3>1 DEF VoiceInv, Roles, Starting, Unsettled, Tone, StartPlayback
    <3>4. QED
      BY <2>1, <3>1, <3>2, <3>3 DEF VoiceInv, Settled
  <2>2. QED
    BY <2>1 DEF ConversationOwnsSpeaker
<1>2. QED
  BY <1>1, Invariance, PTL

(* Both tasks together: there is one channel, and a recording, a tone and  *)
(* a sentence that found or made the speaker ready keep it.                *)
THEOREM PortKept == VoiceSpec => []PortIsKept
<1>1. HalfDuplex /\ RecordingOwnsMicrophone /\ ToneOwnsSpeaker /\ ConversationOwnsSpeaker
        => PortIsKept
  BY DEF PortIsKept
<1> QED
  BY <1>1, PortIsHalfDuplex, MicrophoneIsKept, SpeakerIsKept, SentenceIsKept, PTL
=============================================================================
