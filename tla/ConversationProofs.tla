------------------------- MODULE ConversationProofs -------------------------
(***************************************************************************)
(* Proofs about a conversation turn, for any number of callers, any words  *)
(* and any bounds.  First of the turn itself: type correctness, that it    *)
(* has exactly one owner, and that the task only ever sees the words it    *)
(* was asked to speak; from these, that it implements Turns.  Then of what *)
(* a cancellation and an emergency stop mean to the turn they hit: a step  *)
(* of a caller leaves the task where it is; a step of the task never       *)
(* raises a reason.  The lemmas about the two kinds of step are all that   *)
(* second invariant needs.                                                 *)
(***************************************************************************)
EXTENDS ConversationCancel, TLAPS

(* Every operation of the source leaves a reason. *)
LEMMA EffectIsReason ==
  ASSUME NEW op \in {"cancel", "reset", "clear_emergency"},
         NEW arg \in Reason, NEW found \in Reason
  PROVE  Effect(op, arg, found) \in Reason
BY DEF Effect, Graver, Survives, Reason, None, EmergencyStop, Shutdown

\* The reasons the task itself uses are cancellation reasons.
LEMMA ReasonFacts == None \in Reason /\ Requested \in Reason /\ EmergencyStop \in Reason
BY DEF Reason, None, Requested, EmergencyStop

\* The task starts in its invariant.
LEMMA InitInv == Init => Inv
<1> SUFFICES ASSUME Init PROVE Inv
  OBVIOUS
<1> USE DEF Init
<1>1. TypeOK
  <2>1. dev \in [estop : BOOLEAN, busy : BOOLEAN]
    OBVIOUS
  <2>2. cpc \in [Caller -> CallerSteps]
    BY DEF CallerSteps
  <2>3. loaded \in [Caller -> BOOLEAN]
    OBVIOUS
  <2>4. asks \in [Caller -> Words \cup {Query}]
    BY WordsDistinct
  <2>5. captured \in 0 .. Slices /\ slices \in 0 .. Slices /\ budget \in Nat
    BY BoundsPositive
  <2>6. QED
    BY <2>1, <2>2, <2>3, <2>4, <2>5, WordsDistinct, ReasonFacts
    DEF TypeOK, Phases, TaskSteps, Outcomes
<1>2. OneOwner /\ Handover
  BY DEF OneOwner, Handover, Starting
<1>3. WordsIntact /\ LoopsBounded /\ PhaseFollows
  BY DEF WordsIntact, LoopsBounded, PhaseFollows, Starting, Opening, Middle,
         Listens, Converses
<1>4. QED
  BY <1>1, <1>2, <1>3 DEF Inv

\* A step in which the task and its callers are left alone keeps the invariant.
LEMMA StutterInv == Inv /\ UNCHANGED vars => Inv'
BY DEF vars, shared, callerVars, taskVars, Inv, TypeOK, OneOwner, WordsIntact,
       Handover, LoopsBounded, PhaseFollows, Starting

-----------------------------------------------------------------------------
(* A caller's step. *)
LEMMA CallerInv ==
  ASSUME Inv, NEW c \in Caller, CallerNext(c)
  PROVE  Inv'
<1> USE DEF Inv, TypeOK, OneOwner, WordsIntact, Handover, LoopsBounded,
            PhaseFollows, Phases, CallerSteps, TaskSteps, Opening, Listens,
            Converses, Middle, Outcomes, Starting,
            shared, callerVars, taskVars, GoTo, Leave
<1> USE WordsDistinct, ReasonFacts
<1>1. CASE BeginStart(c)
  BY <1>1 DEF BeginStart
<1>2. CASE BeginState(c)
  BY <1>2 DEF BeginState
<1>3. CASE RefreshLoadEstop(c)
  BY <1>3 DEF RefreshLoadEstop
<1>4. CASE RefreshStoreEstop(c)
  BY <1>4 DEF RefreshStoreEstop
<1>5. CASE RefreshPhase(c)
  <2>1. TypeOK'
    <3>1. (phase # "idle") \in BOOLEAN
      OBVIOUS
    <3>2. dev' \in [estop : BOOLEAN, busy : BOOLEAN]
      BY <1>5, <3>1 DEF RefreshPhase
    <3>3. cpc' \in [Caller -> CallerSteps]
      BY <1>5 DEF RefreshPhase
    <3>4. asks' \in [Caller -> Words \cup {Query}]
      BY <1>5 DEF RefreshPhase
    <3>5. loaded' \in [Caller -> BOOLEAN]
      BY <1>5 DEF RefreshPhase
    <3>6. QED
      BY <1>5, <3>2, <3>3, <3>4, <3>5 DEF RefreshPhase
  <2>2. OneOwner'
    BY <1>5 DEF RefreshPhase
  <2>3. WordsIntact'
    BY <1>5 DEF RefreshPhase
  <2>4. Handover'
    BY <1>5 DEF RefreshPhase
  <2>5. LoopsBounded'
    BY <1>5 DEF RefreshPhase
  <2>6. PhaseFollows'
    BY <1>5 DEF RefreshPhase
  <2>7. QED
    BY <2>1, <2>2, <2>3, <2>4, <2>5, <2>6
<1>6. CASE Allow(c)
  BY <1>6 DEF Allow
<1>7. CASE Refuse(c)
  BY <1>7 DEF Refuse
<1>8. CASE RequestStart(c)
  <2>1. CASE phase = "idle"
    <3>1. TypeOK'
      BY <1>8, <2>1 DEF RequestStart
    <3>2. OneOwner'
      BY <1>8, <2>1 DEF RequestStart
    <3>3. WordsIntact'
      BY <1>8, <2>1 DEF RequestStart
    <3>4. Handover'
      BY <1>8, <2>1 DEF RequestStart
    <3>5. LoopsBounded' /\ PhaseFollows'
      BY <1>8, <2>1 DEF RequestStart
    <3>6. QED
      BY <3>1, <3>2, <3>3, <3>4, <3>5
  <2>2. CASE phase # "idle"
    <3>1. TypeOK'
      <4>1. cpc' \in [Caller -> CallerSteps]
        BY <1>8, <2>2 DEF RequestStart
      <4>2. asks' \in [Caller -> Words \cup {Query}]
        BY <1>8, <2>2 DEF RequestStart
      <4>3. loaded' \in [Caller -> BOOLEAN]
        BY <1>8, <2>2 DEF RequestStart
      <4>4. QED
        BY <1>8, <2>2, <4>1, <4>2, <4>3 DEF RequestStart
    <3>2. OneOwner'
      BY <1>8, <2>2 DEF RequestStart
    <3>3. WordsIntact' /\ LoopsBounded'
      BY <1>8, <2>2 DEF RequestStart
    <3>4. Handover' /\ PhaseFollows'
      BY <1>8, <2>2 DEF RequestStart
    <3>5. QED
      BY <3>1, <3>2, <3>3, <3>4
  <2>3. QED
    BY <2>1, <2>2
<1>9. CASE CopyWords(c)
  BY <1>9 DEF CopyWords
<1>10. CASE TerminateWords(c)
  BY <1>10 DEF TerminateWords
<1>11. CASE Notify(c)
  BY <1>11 DEF Notify
<1>12. CASE SeeConversation(c)
  BY <1>12 DEF SeeConversation
<1>13. CASE CancelConversation(c)
  BY <1>13, EffectIsReason DEF CancelConversation
<1>14. CASE Engage(c)
  BY <1>14, EffectIsReason DEF Engage
<1>15. CASE Clear(c)
  BY <1>15, EffectIsReason DEF Clear
<1>16. QED
  BY <1>1, <1>2, <1>3, <1>4, <1>5, <1>6, <1>7, <1>8, <1>9, <1>10, <1>11, <1>12, <1>13, <1>14, <1>15 DEF CallerNext, Start

(* A step of the conversation task. *)
LEMMA TaskInv ==
  ASSUME Inv, TaskNext
  PROVE  Inv'
<1> USE DEF Inv, TypeOK, OneOwner, WordsIntact, Handover, LoopsBounded,
            PhaseFollows, Phases, CallerSteps, TaskSteps, Opening, Listens,
            Converses, Middle, Outcomes, Starting,
            shared, callerVars, taskVars, Finish, FinishWith, Spoken
<1> USE WordsDistinct, BoundsPositive, ReasonFacts
<1>1. CASE Wake
  BY <1>1 DEF Wake
<1>2. CASE ClearStale
  BY <1>2, EffectIsReason DEF ClearStale
<1>3. CASE ReadWords
  BY <1>3 DEF ReadWords
<1>4. CASE StartCapture
  BY <1>4 DEF StartCapture
<1>5. CASE CaptureCheck
  BY <1>5 DEF CaptureCheck
<1>6. CASE CaptureRead
  BY <1>6 DEF CaptureRead
<1>7. CASE CheckAborted
  BY <1>7 DEF CheckAborted
<1>8. CASE Connect
  BY <1>8 DEF Connect
<1>9. CASE Send
  BY <1>9 DEF Send
<1>10. CASE UploadCheck
  BY <1>10 DEF UploadCheck
<1>11. CASE Upload
  BY <1>11 DEF Upload
<1>12. CASE Uploaded
  BY <1>12 DEF Uploaded
<1>13. CASE FetchHeaders
  BY <1>13 DEF FetchHeaders
<1>14. CASE AwaitHeaders
  BY <1>14 DEF AwaitHeaders
<1>15. CASE StreamCheck
  BY <1>15 DEF StreamCheck
<1>16. CASE ReadData
  BY <1>16 DEF ReadData
<1>17. CASE ReadNothing
  BY <1>17 DEF ReadNothing
<1>18. CASE ReadEnd
  BY <1>18 DEF ReadEnd
<1>19. CASE FeedReturn
  BY <1>19 DEF FeedReturn
<1>20. CASE FeedSentence
  BY <1>20 DEF FeedSentence
<1>21. CASE FeedFinished
  BY <1>21 DEF FeedFinished
<1>22. CASE Speak
  BY <1>22 DEF Speak
<1>23. CASE WriteCheck
  BY <1>23 DEF WriteCheck
<1>24. CASE Write
  BY <1>24 DEF Write
<1>25. CASE Close
  BY <1>25 DEF Close
<1>26. CASE ClearUsed
  BY <1>26, EffectIsReason DEF ClearUsed
<1>27. CASE ForgetWords
  BY <1>27 DEF ForgetWords
<1>28. CASE PublishIdle
  BY <1>28 DEF PublishIdle
<1>29. QED
  BY <1>1, <1>2, <1>3, <1>4, <1>5, <1>6, <1>7, <1>8, <1>9, <1>10,
     <1>11, <1>12, <1>13, <1>14, <1>15, <1>16, <1>17, <1>18,
     <1>19, <1>20, <1>21, <1>22, <1>23, <1>24, <1>25, <1>26,
     <1>27, <1>28
  DEF TaskNext, Opens, Records, Sends, Awaits, Streams, Plays, Winds

-----------------------------------------------------------------------------
(* The invariant of the turn and its callers holds in every state. *)
LEMMA Invariance == Spec => []Inv
<1>1. Inv /\ [Next]_vars => Inv'
  BY CallerInv, TaskInv, StutterInv DEF Next
<1>2. QED
  BY <1>1, InitInv, PTL DEF Spec

(* Every variable keeps its type; in particular no loop of the task runs   *)
(* past the bound its deadline or its buffer sets.                         *)
THEOREM TypeCorrect == Spec => []TypeOK
BY Invariance, PTL DEF Inv

(* A turn has one owner at every moment, and the phase says idle exactly   *)
(* when it has none: a second start is rejected and no accepted turn is    *)
(* lost with the phase left behind (task.cpp:465-478, :395).               *)
THEOREM TurnHasOneOwner == Spec => []OneOwner
BY Invariance, PTL DEF Inv

(* The task never reads words that are partly written or another start's   *)
(* (task.cpp:66-71).                                                       *)
THEOREM WordsAreIntact == Spec => []WordsIntact
BY Invariance, PTL DEF Inv

-----------------------------------------------------------------------------
(* The turn implements Turns.                                              *)

(* How far the turn is, read off the owner that the invariant says is the  *)
(* only one.                                                               *)
StageIs ==
  /\ \A c \in Caller : Starting(c) => Stage = "accepted" /\ Holder = {c}
  /\ ~(\E c \in Caller : Starting(c)) => Holder = {}
  /\ notified => Stage = "posted"
  /\ phase = "idle" => Stage = "free"
  /\ tpc \in Opening => Stage = "taken"
  /\ tpc \in Middle => Stage = "working"
  /\ tpc = "publish" => Stage = "ended"
  /\ tpc # "parked" => ~notified /\ ~(\E c \in Caller : Starting(c))

\* In every state of the invariant the stage is the one its owner implies.
LEMMA StageFacts == Inv => StageIs
<1> SUFFICES ASSUME Inv PROVE StageIs
  OBVIOUS
<1>1. ASSUME NEW c \in Caller, Starting(c)
      PROVE  Holder = {c} /\ tpc = "parked"
  BY <1>1 DEF Holder, Inv, OneOwner
<1>2. ASSUME ~(\E c \in Caller : Starting(c))
      PROVE  Holder = {}
  BY <1>2 DEF Holder
<1>3. notified => tpc = "parked" /\ ~(\E c \in Caller : Starting(c))
  BY DEF Inv, OneOwner
<1>4. phase = "idle" => tpc = "parked" /\ ~notified
                        /\ ~(\E c \in Caller : Starting(c))
  BY DEF Inv, OneOwner
<1>5. \A c \in Caller : Starting(c) => Stage = "accepted" /\ Holder = {c}
  BY <1>1 DEF Stage
<1>6. (notified => Stage = "posted") /\ (phase = "idle" => Stage = "free")
  BY <1>2, <1>3, <1>4 DEF Stage
<1>7. /\ tpc \in Opening => Stage = "taken"
      /\ tpc \in Middle => Stage = "working"
      /\ tpc = "publish" => Stage = "ended"
  BY DEF Stage, Opening, Middle, Listens, Converses
<1>8. tpc # "parked" => ~notified /\ ~(\E c \in Caller : Starting(c))
  BY <1>1, <1>3
<1>9. QED
  BY <1>2, <1>5, <1>6, <1>7, <1>8 DEF StageIs

(* A caller's step is the acceptance of a turn, its hand-over, or nothing  *)
(* the turn is concerned by.                                               *)
LEMMA CallerRefines ==
  ASSUME Inv, StageIs, StageIs', NEW c \in Caller, CallerNext(c)
  PROVE  Abs!Accept(c) \/ Abs!HandOver(c) \/ UNCHANGED Abs!turnVars
<1> USE DEF Inv, TypeOK, shared, taskVars, GoTo, Leave
<1> DEFINE Untouched == UNCHANGED <<phase, notified, tpc, spoken, asked>>
<1>1. CASE Untouched /\ \A d \in Caller : Starting(d)' = Starting(d)
  <2>1. Stage' = Stage /\ Holder' = Holder /\ InUse' = InUse
    BY <1>1 DEF Stage, Holder, InUse
  <2>2. QED
    BY <1>1, <2>1 DEF Abs!turnVars
<1>2. CASE RequestStart(c) /\ phase = "idle"
  <2>1. Starting(c)' /\ Stage = "free" /\ Holder = {} /\ tpc = "parked"
    BY <1>2 DEF RequestStart, Starting, OneOwner, StageIs
  <2>2. Stage' = "accepted" /\ Holder' = {c}
    BY <2>1 DEF StageIs
  <2>3. InUse' = InUse
    BY <1>2 DEF RequestStart, InUse
  <2>4. asked' \in Words
    BY <1>2 DEF RequestStart, Handover
  <2>5. QED
    BY <1>2, <2>1, <2>2, <2>3, <2>4 DEF RequestStart, Abs!Accept
<1>3. CASE Notify(c)
  <2>1. Starting(c) /\ Stage = "accepted" /\ Holder = {c}
    BY <1>3 DEF Notify, Starting, StageIs
  <2>2. Stage' = "posted"
    BY <1>3 DEF Notify, StageIs
  <2>3. \A d \in Caller : ~Starting(d)'
    BY <1>3, <2>1 DEF Notify, Starting, OneOwner
  <2>4. Holder' = {} /\ InUse' = InUse
    BY <1>3, <2>3 DEF Notify, Holder, InUse
  <2>5. QED
    BY <1>3, <2>1, <2>2, <2>4 DEF Notify, Abs!HandOver
<1>4. CASE BeginStart(c) \/ BeginState(c)
  BY <1>1, <1>4 DEF BeginStart, BeginState, Starting
<1>5. CASE RefreshLoadEstop(c) \/ RefreshStoreEstop(c)
  BY <1>1, <1>5 DEF RefreshLoadEstop, RefreshStoreEstop, Starting
<1>6. CASE RefreshPhase(c)
  <2>1. \A d \in Caller : Starting(d)' = Starting(d)
    BY <1>6 DEF RefreshPhase, Starting
  <2>2. QED
    BY <1>1, <1>6, <2>1 DEF RefreshPhase
<1>7. CASE Allow(c) \/ Refuse(c)
  BY <1>1, <1>7 DEF Allow, Refuse, Starting
<1>8. CASE RequestStart(c) /\ phase # "idle"
  <2>1. \A d \in Caller : Starting(d)' = Starting(d)
    BY <1>8 DEF RequestStart, Starting
  <2>2. QED
    BY <1>1, <1>8, <2>1 DEF RequestStart
<1>9. CASE CopyWords(c) \/ TerminateWords(c)
  BY <1>1, <1>9 DEF CopyWords, TerminateWords, Starting
<1>10. CASE SeeConversation(c) \/ CancelConversation(c)
  BY <1>1, <1>10 DEF SeeConversation, CancelConversation, Starting
<1>11. CASE Engage(c) \/ Clear(c)
  BY <1>1, <1>11 DEF Engage, Clear, callerVars, Starting
<1>12. QED
  BY <1>2, <1>3, <1>4, <1>5, <1>6, <1>7, <1>8, <1>9, <1>10, <1>11
  DEF CallerNext, Start

(* A step of the task takes the turn up, begins it, moves its phase on,    *)
(* ends it, releases it, or is a step of the work itself.                  *)
LEMMA TaskRefines ==
  ASSUME Inv, StageIs, StageIs', TaskNext
  PROVE  [Abs!Next]_(Abs!turnVars)
<1> USE DEF shared, callerVars, taskVars
<1>1. UNCHANGED <<cpc, asked>> /\ tpc \in TaskSteps
  BY DEF Inv, TypeOK, TaskNext, Opens, Records, Sends, Awaits, Streams, Plays, Winds,
         Wake, ClearStale, ReadWords, StartCapture, CaptureCheck, CaptureRead,
         CheckAborted, Connect, Send, UploadCheck, Upload, Uploaded, FetchHeaders,
         AwaitHeaders, StreamCheck, ReadData, ReadNothing, ReadEnd, FeedReturn,
         FeedSentence, FeedFinished, Speak, WriteCheck, Write, Close, ClearUsed,
         ForgetWords, PublishIdle
<1>2. Holder' = Holder
  BY <1>1 DEF Holder, Starting
<1>3. ASSUME tpc \in Middle, tpc' \in Middle, UNCHANGED spoken
      PROVE  /\ Stage = "working" /\ UNCHANGED <<Stage, Holder, asked, InUse>>
             /\ UNCHANGED phase => UNCHANGED Abs!turnVars
  BY <1>1, <1>2, <1>3 DEF StageIs, InUse, Abs!turnVars
<1>4. CASE Wake
  <2>1. Stage = "posted" /\ Stage' = "taken"
    BY <1>4 DEF Wake, StageIs, Opening
  <2>2. InUse' = InUse
    BY <1>4 DEF Wake, InUse, Middle, Listens, Converses
  <2>3. Abs!TakeUp
    BY <1>1, <1>2, <1>4, <2>1, <2>2 DEF Wake, Abs!TakeUp
  <2>4. QED
    BY <2>3 DEF Abs!Next
<1>5. CASE ClearStale
  <2>1. UNCHANGED <<Stage, InUse, phase>>
    BY <1>5 DEF ClearStale, StageIs, Opening, InUse, Middle, Listens, Converses
  <2>2. QED
    BY <1>1, <1>2, <2>1 DEF Abs!turnVars
<1>6. CASE ReadWords
  <2>1. Stage = "taken" /\ tpc' \in Middle /\ spoken' = asked
    BY <1>6 DEF ReadWords, StageIs, Opening, Middle, Listens, Inv, WordsIntact
  <2>2. Stage' = "working" /\ InUse' = asked
    BY <2>1 DEF StageIs, InUse
  <2>3. Abs!Begin
    BY <1>1, <1>2, <1>6, <2>1, <2>2 DEF ReadWords, Abs!Begin
  <2>4. QED
    BY <2>3 DEF Abs!Next
<1>7. CASE CheckAborted
  <2>1. tpc \in Middle /\ tpc' \in Middle /\ UNCHANGED spoken
    BY <1>7 DEF CheckAborted, Middle, Listens, Converses
  <2>2. phase' = phase \/ (phase = "listening" /\ phase' = "thinking")
    BY <1>7 DEF CheckAborted, Inv, PhaseFollows, Listens
  <2>3. UNCHANGED Abs!turnVars \/ Abs!Think
    BY <1>3, <2>1, <2>2 DEF Abs!Think
  <2>4. QED
    BY <2>3 DEF Abs!Next
<1>8. CASE Speak
  <2>1. tpc \in Middle /\ tpc' \in Middle /\ UNCHANGED spoken
    BY <1>8 DEF Speak, Spoken, Middle, Converses
  <2>2. phase' = phase \/ (phase = "thinking" /\ phase' = "speaking")
    BY <1>8 DEF Speak, Inv, PhaseFollows, Converses
  <2>3. UNCHANGED Abs!turnVars \/ Abs!Talk
    BY <1>3, <2>1, <2>2 DEF Abs!Talk
  <2>4. QED
    BY <2>3 DEF Abs!Next
<1>9. CASE ForgetWords
  <2>1. Stage = "working" /\ Stage' = "ended" /\ InUse' = NoWords
    BY <1>9 DEF ForgetWords, StageIs, InUse, Middle, Listens, Converses
  <2>2. Abs!End
    BY <1>1, <1>2, <1>9, <2>1 DEF ForgetWords, Abs!End
  <2>3. QED
    BY <2>2 DEF Abs!Next
<1>10. CASE PublishIdle
  <2>1. Stage = "ended" /\ Stage' = "free" /\ InUse' = InUse
    BY <1>10 DEF PublishIdle, StageIs, InUse, Middle, Listens, Converses
  <2>2. Abs!Release
    BY <1>1, <1>2, <1>10, <2>1 DEF PublishIdle, Abs!Release
  <2>3. QED
    BY <2>2 DEF Abs!Next
<1> USE DEF Middle, Listens, Converses, Finish, FinishWith, Spoken
<1>11. CASE StartCapture \/ CaptureCheck \/ CaptureRead
  BY <1>3, <1>11 DEF StartCapture, CaptureCheck, CaptureRead
<1>12. CASE Sends
  BY <1>3, <1>12 DEF Sends, Connect, Send, UploadCheck, Upload, Uploaded
<1>13. CASE Awaits
  BY <1>3, <1>13 DEF Awaits, FetchHeaders, AwaitHeaders
<1>14. CASE Streams
  BY <1>3, <1>14 DEF Streams, StreamCheck, ReadData, ReadNothing, ReadEnd,
                     FeedReturn, FeedSentence, FeedFinished
<1>15. CASE WriteCheck \/ Write
  BY <1>3, <1>15 DEF WriteCheck, Write
<1>16. CASE Close \/ ClearUsed
  BY <1>3, <1>16 DEF Close, ClearUsed
<1>17. QED
  BY <1>4, <1>5, <1>6, <1>7, <1>8, <1>9, <1>10, <1>11, <1>12, <1>13, <1>14,
     <1>15, <1>16
  DEF TaskNext, Opens, Records, Plays, Winds

(* Every accepted start is one turn, with its own words and its phases in  *)
(* the documented order: the compare-exchange of task.cpp:466, the         *)
(* notification of :478 and the stores to g_phase implement Turns.         *)
THEOREM OneTurnForEachStart == Spec => OneTurnPerStart
<1>1. Init => Abs!Init
  <2> SUFFICES ASSUME Init PROVE Abs!Init
    OBVIOUS
  <2>1. StageIs
    BY InitInv, StageFacts
  <2>2. \A c \in Caller : ~Starting(c)
    BY DEF Init, Starting
  <2>3. Stage = "free" /\ Holder = {} /\ InUse = NoWords
    BY <2>1, <2>2 DEF StageIs, Init, InUse, Middle, Listens, Converses
  <2>4. QED
    BY <2>3 DEF Init, Abs!Init
<1>2. Inv /\ Inv' /\ [Next]_vars => [Abs!Next]_(Abs!turnVars)
  <2>1. Inv' => StageIs'
    BY StageFacts, PTL
  <2> SUFFICES ASSUME Inv, Inv', [Next]_vars PROVE [Abs!Next]_(Abs!turnVars)
    OBVIOUS
  <2>2. StageIs /\ StageIs'
    BY <2>1, StageFacts
  <2>3. CASE UNCHANGED vars
    <3>1. UNCHANGED <<Holder, InUse>>
      BY <2>3 DEF vars, shared, callerVars, taskVars, Holder, InUse, Starting
    <3>2. UNCHANGED Stage
      BY <2>3, <3>1 DEF vars, shared, callerVars, taskVars, Stage
    <3>3. QED
      BY <2>3, <3>1, <3>2 DEF vars, shared, Abs!turnVars
  <2>4. ASSUME NEW c \in Caller, CallerNext(c)
        PROVE  [Abs!Next]_(Abs!turnVars)
    BY <2>2, <2>4, CallerRefines DEF Abs!Next
  <2>5. CASE TaskNext
    BY <2>2, <2>5, TaskRefines
  <2>6. QED
    BY <2>3, <2>4, <2>5 DEF Next
<1>3. QED
  BY <1>1, <1>2, Invariance, PTL DEF Spec, Abs!Spec, OneTurnPerStart

-----------------------------------------------------------------------------
(* What a cancellation does to the turn.                                   *)

(* What a caller's step can do to the turn: raise or release a reason, or  *)
(* take the phase from idle.                                               *)
CallerEffect ==
  /\ UNCHANGED <<tpc, connected>>
  /\ phase' = phase \/ phase' = "listening"
  /\ reason' \in Reason

ResetReason == reason' = Effect("reset", None, reason)

\* Re-arming the source clears every reason but the emergency stop.
LEMMA ResetFacts ==
  ASSUME NEW found \in Reason
  PROVE  /\ Effect("reset", None, found) \in {None, found}
         /\ found = EmergencyStop => Effect("reset", None, found) = found
         /\ found # EmergencyStop => Effect("reset", None, found) # EmergencyStop
BY DEF Effect, Survives, Reason, None, EmergencyStop, Shutdown

\* Once cancelled, a source has a reason.
LEMMA CancelFacts ==
  ASSUME NEW arg \in Reason \ {None}, NEW found \in Reason
  PROVE  Effect("cancel", arg, found) # None
BY DEF Effect, Graver, Reason, None, EmergencyStop

\* The reasons the task's callers cancel with.
LEMMA ConstantFacts ==
  /\ None \in Reason /\ Requested \in Reason \ {None}
  /\ EmergencyStop \in Reason \ {None}
BY DEF Reason, None, Requested, EmergencyStop

\* What a caller's step does to the reason: cancel it, clear the stop, or nothing.
LEMMA CallerStepEffect ==
  ASSUME Inv, NEW c \in Caller, CallerNext(c)
  PROVE  CallerEffect
<1>1. reason' \in Reason
  BY CallerInv DEF Inv, TypeOK
<1>2. phase' = phase \/ phase' = "listening"
  BY DEF CallerNext, Start, BeginStart, BeginState, RefreshLoadEstop,
         RefreshStoreEstop, RefreshPhase, Allow, Refuse, RequestStart, CopyWords,
         TerminateWords, Notify, SeeConversation, CancelConversation, Engage,
         Clear, shared
<1>3. UNCHANGED taskVars
  BY DEF CallerNext, Start, BeginStart, BeginState, RefreshLoadEstop,
         RefreshStoreEstop, RefreshPhase, Allow, Refuse, RequestStart, CopyWords,
         TerminateWords, Notify, SeeConversation, CancelConversation, Engage, Clear
<1>4. QED
  BY <1>1, <1>2, <1>3 DEF CallerEffect, taskVars

-----------------------------------------------------------------------------
(* A raised reason is a reason, whoever raised it. *)
LEMMA RaisedIsCancelled ==
  ASSUME TypeOK, RaisedHere
  PROVE  reason' # None
<1>1. CASE \E c \in Caller : CancelConversation(c)
  BY <1>1, CancelFacts, ConstantFacts DEF CancelConversation, TypeOK
<1>2. CASE reason' = EmergencyStop
  BY <1>2, ConstantFacts
<1>3. QED
  BY <1>1, <1>2 DEF RaisedHere

(* The invariant survives whatever a caller does. *)
LEMMA CallerKeepsCancel ==
  ASSUME Inv, CancelInv, CallerEffect, HistNext
  PROVE  CancelInv'
<1> USE DEF CallerEffect, CancelInv
<1>1. SentInOrder'
  BY DEF SentInOrder
<1>2. LateCounted'
  <2>1. late' = IF reason' = None THEN 0 ELSE late
    BY DEF HistNext, CountLate, LateCounted
  <2>2. StillToDo' = StillToDo
    BY DEF StillToDo, IoSteps
  <2>3. StillToDo \in 0 .. 2
    BY DEF StillToDo
  <2>4. QED
    BY <2>1, <2>2, <2>3 DEF LateCounted
<1>3. StopKept'
  <2>1. underStop' => underStop /\ reason' = EmergencyStop
    BY DEF HistNext, NoteStop
  <2>2. QED
    BY <2>1 DEF StopKept
<1>4. CancelKept'
  <2>1. SUFFICES ASSUME cancelledAt' = "recording"
                 PROVE  (Recording' /\ reason' # None) \/ tpc' \in Over
    BY DEF CancelKept
  <2>2. CASE RaisedHere /\ Recording
    BY <2>2, RaisedIsCancelled DEF Recording, Inv
  <2>3. CASE ~(RaisedHere /\ Recording)
    BY <2>1, <2>3 DEF HistNext, NoteCancel, CancelKept, Recording, Over
  <2>4. QED
    BY <2>2, <2>3
<1>5. QED
  BY <1>1, <1>2, <1>3, <1>4
-----------------------------------------------------------------------------
(* A task's step leaves the callers alone, and resets the reason only at   *)
(* the opening and at the end of the turn: it raises nothing.              *)
TaskReason ==
  /\ reason' = reason \/ (tpc \in {"stale", "wind"} /\ ResetReason)
  /\ UNCHANGED cpc

\* What a step of the task does to the reason it cancels with.
LEMMA TaskStepReason ==
  ASSUME TaskNext
  PROVE  TaskReason
<1> USE DEF TaskReason, ResetReason, shared, callerVars
<1>1. CASE Opens
  BY <1>1 DEF Opens, Wake, ClearStale, ReadWords
<1>2. CASE Records
  BY <1>2 DEF Records, StartCapture, CaptureCheck, CaptureRead, CheckAborted
<1>3. CASE Sends
  BY <1>3 DEF Sends, Connect, Send, UploadCheck, Upload, Uploaded
<1>4. CASE Awaits
  BY <1>4 DEF Awaits, FetchHeaders, AwaitHeaders
<1>5. CASE Streams
  BY <1>5 DEF Streams, StreamCheck, ReadData, ReadNothing, ReadEnd, FeedReturn,
              FeedSentence, FeedFinished
<1>6. CASE Plays
  BY <1>6 DEF Plays, Speak, WriteCheck, Write
<1>7. CASE Winds
  BY <1>7 DEF Winds, Close, ClearUsed, ForgetWords, PublishIdle
<1>8. QED
  BY <1>1, <1>2, <1>3, <1>4, <1>5, <1>6, <1>7 DEF TaskNext

\* A step of the task raises no cancellation and cannot change one it does not clear.
LEMMA TaskRaisesNothing ==
  ASSUME TypeOK, TaskReason
  PROVE  /\ ~RaisedHere
         /\ reason' \in Reason
         /\ reason' # None => reason' = reason
         /\ reason = EmergencyStop => reason' = reason
<1>1. reason' = reason \/ reason' = Effect("reset", None, reason)
  BY DEF TaskReason, ResetReason
<1>2. /\ reason' \in Reason
      /\ reason' # None => reason' = reason
      /\ reason = EmergencyStop => reason' = reason
      /\ reason # EmergencyStop => reason' # EmergencyStop
  BY <1>1, ResetFacts, ConstantFacts DEF TypeOK
<1>3. ASSUME NEW c \in Caller, CancelConversation(c)
      PROVE  FALSE
  BY <1>3 DEF CancelConversation, GoTo, TaskReason, TypeOK
<1>4. QED
  BY <1>2, <1>3 DEF RaisedHere

(* What the history records of a task's step. *)
LEMMA TaskHistory ==
  ASSUME TypeOK, TaskReason, HistNext
  PROVE  /\ late' = IF reason' = None THEN 0
                    ELSE late + IF tpc \in IoSteps /\ tpc' # tpc THEN 1 ELSE 0
         /\ underStop' => \/ tpc = "stale" /\ tpc' # tpc /\ reason = EmergencyStop
                          \/ underStop /\ tpc' # "parked" /\ reason' = EmergencyStop
         /\ cancelledAt' = "recording" =>
               /\ cancelledAt = "recording"
               /\ tpc' # "parked" \/ tpc' = tpc
               /\ reason = None \/ reason' # None \/ tpc \in {"stale", "wind"}
<1>1. ~RaisedHere
  BY TaskRaisesNothing
<1>2. late' = IF reason' = None THEN 0
              ELSE late + IF tpc \in IoSteps /\ tpc' # tpc THEN 1 ELSE 0
  BY DEF HistNext, CountLate
<1>3. underStop' => \/ tpc = "stale" /\ tpc' # tpc /\ reason = EmergencyStop
                    \/ underStop /\ tpc' # "parked" /\ reason' = EmergencyStop
  BY DEF HistNext, NoteStop
<1>4. cancelledAt' = "recording" =>
        /\ cancelledAt = "recording"
        /\ tpc' # "parked" \/ tpc' = tpc
        /\ reason = None \/ reason' # None \/ tpc \in {"stale", "wind"}
  BY <1>1 DEF HistNext, NoteCancel
<1>5. QED
  BY <1>2, <1>3, <1>4

(* The invariant survives every step of the task. *)
LEMMA TaskKeepsCancel ==
  ASSUME Inv, CancelInv, TaskNext, HistNext
  PROVE  CancelInv'
<1> DEFINE Noted ==
      /\ late' = IF reason' = None THEN 0
                 ELSE late + IF tpc \in IoSteps /\ tpc' # tpc THEN 1 ELSE 0
      /\ underStop' => \/ tpc = "stale" /\ tpc' # tpc /\ reason = EmergencyStop
                       \/ underStop /\ tpc' # "parked" /\ reason' = EmergencyStop
      /\ cancelledAt' = "recording" =>
            /\ cancelledAt = "recording"
            /\ tpc' # "parked" \/ tpc' = tpc
            /\ reason = None \/ reason' # None \/ tpc \in {"stale", "wind"}
      /\ reason' # None => reason' = reason
      /\ reason = EmergencyStop => reason' = reason
      /\ EmergencyStop # None
<1>1. Noted
  BY TaskStepReason, TaskHistory, TaskRaisesNothing, ConstantFacts DEF Inv
<1> USE DEF CancelInv, SentInOrder, LateCounted, StopKept, CancelKept, StillToDo,
            IoSteps, Unsent, Over, Recording, Cancelled, Finish, FinishWith, Spoken,
            shared
<1>2. CASE Wake
  BY <1>1, <1>2 DEF Wake
<1>3. CASE ClearStale
  BY <1>1, <1>3 DEF ClearStale
<1>4. CASE ReadWords
  BY <1>1, <1>4 DEF ReadWords
<1>5. CASE StartCapture
  BY <1>1, <1>5 DEF StartCapture
<1>6. CASE CaptureCheck
  BY <1>1, <1>6 DEF CaptureCheck
<1>7. CASE CaptureRead
  BY <1>1, <1>7 DEF CaptureRead
<1>8. CASE CheckAborted
  BY <1>1, <1>8 DEF CheckAborted
<1>9. CASE Connect
  BY <1>1, <1>9 DEF Connect
<1>10. CASE Send
  BY <1>1, <1>10 DEF Send
<1>11. CASE UploadCheck
  BY <1>1, <1>11 DEF UploadCheck
<1>12. CASE Upload
  BY <1>1, <1>12 DEF Upload
<1>13. CASE Uploaded
  BY <1>1, <1>13 DEF Uploaded
<1>14. CASE FetchHeaders
  BY <1>1, <1>14 DEF FetchHeaders
<1>15. CASE AwaitHeaders
  BY <1>1, <1>15 DEF AwaitHeaders
<1>16. CASE StreamCheck
  BY <1>1, <1>16 DEF StreamCheck
<1>17. CASE ReadData
  BY <1>1, <1>17 DEF ReadData
<1>18. CASE ReadNothing
  BY <1>1, <1>18 DEF ReadNothing
<1>19. CASE ReadEnd
  BY <1>1, <1>19 DEF ReadEnd
<1>20. CASE FeedReturn
  BY <1>1, <1>20 DEF FeedReturn
<1>21. CASE FeedSentence
  BY <1>1, <1>21 DEF FeedSentence
<1>22. CASE FeedFinished
  BY <1>1, <1>22 DEF FeedFinished
<1>23. CASE Speak
  BY <1>1, <1>23 DEF Speak
<1>24. CASE WriteCheck
  BY <1>1, <1>24 DEF WriteCheck
<1>25. CASE Write
  BY <1>1, <1>25 DEF Write
<1>26. CASE Close
  BY <1>1, <1>26 DEF Close
<1>27. CASE ClearUsed
  BY <1>1, <1>27 DEF ClearUsed
<1>28. CASE ForgetWords
  BY <1>1, <1>28 DEF ForgetWords
<1>29. CASE PublishIdle
  BY <1>1, <1>29 DEF PublishIdle
<1>30. QED
  BY <1>2, <1>3, <1>4, <1>5, <1>6, <1>7, <1>8, <1>9, <1>10, <1>11, <1>12,
     <1>13, <1>14, <1>15, <1>16, <1>17, <1>18, <1>19, <1>20, <1>21, <1>22,
     <1>23, <1>24, <1>25, <1>26, <1>27, <1>28, <1>29
  DEF TaskNext, Opens, Records, Sends, Awaits, Streams, Plays, Winds
-----------------------------------------------------------------------------
(* A step that changes nothing keeps the cancellation's invariant. *)
LEMMA StutterKeepsCancel == CancelInv /\ UNCHANGED allVars => CancelInv'
BY DEF allVars, history, vars, shared, taskVars, CancelInv, SentInOrder,
       LateCounted, StopKept, CancelKept, StillToDo, Recording

\* Task and cancellation start in the coupling invariant.
LEMMA InitCancel == CancelInit => CancelInv
BY DEF CancelInit, Init, HistInit, CancelInv, SentInOrder, LateCounted, StopKept,
       CancelKept, StillToDo, IoSteps, Unsent, Over

(* The history only watches: without it the behaviours are the turn's. *)
LEMMA HistoryOnlyWatches == CancelSpec => Spec
<1>1. CancelInit => Init
  BY DEF CancelInit
<1>2. [Next /\ HistNext]_allVars => [Next]_vars
  BY DEF allVars
<1>3. QED
  BY <1>1, <1>2, PTL DEF CancelSpec, Spec

\* The coupling invariant holds in every reachable state.
LEMMA CancelInvariance == CancelSpec => []CancelInv
<1>1. Inv /\ CancelInv /\ [Next /\ HistNext]_allVars => CancelInv'
  <2>1. ASSUME Inv, CancelInv, Next, HistNext
        PROVE  CancelInv'
    BY <2>1, CallerStepEffect, CallerKeepsCancel, TaskKeepsCancel DEF Next
  <2>2. QED
    BY <2>1, StutterKeepsCancel
<1>2. CancelSpec => []Inv
  BY HistoryOnlyWatches, Invariance, PTL
<1>3. QED
  BY <1>1, <1>2, InitCancel, PTL DEF CancelSpec

(* After a cancellation the task makes at most two more bounded reads or   *)
(* writes, whatever the number of callers and of slices (every             *)
(* token.cancelled() check of task.cpp and gateway_client.cpp).            *)
THEOREM CancelStopsPromptly == CancelSpec => []StopsPromptly
<1>1. CancelInv => StopsPromptly
  BY DEF CancelInv, LateCounted, StillToDo, IoSteps, StopsPromptly
<1>2. QED
  BY <1>1, CancelInvariance, PTL

(* A recording that is cancelled sends nothing to the gateway, unless      *)
(* estop.clear takes the cancellation back (task.cpp:319).                 *)
THEOREM CancelledRecordingIsNotSent == CancelSpec => []CancelledRecordingNotSent
<1>1. CancelInv => CancelledRecordingNotSent
  BY DEF CancelInv, CancelKept, SentInOrder, Recording, Unsent, Over,
         CancelledRecordingNotSent
<1>2. QED
  BY <1>1, CancelInvariance, PTL

(* A turn accepted under an emergency stop that holds never reaches the    *)
(* gateway and never speaks (task.cpp:299-305).                            *)
THEOREM StoppedTurnIsSilent == CancelSpec => []StoppedTurnStaysSilent
<1>1. CancelInv => StoppedTurnStaysSilent
  BY DEF CancelInv, StopKept, SentInOrder, Unsent, Over, StoppedTurnStaysSilent
<1>2. QED
  BY <1>1, CancelInvariance, PTL
=============================================================================
