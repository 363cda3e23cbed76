---------------------------- MODULE DeviceProofs ----------------------------
(***************************************************************************)
(* Proofs about what the device's owner meets: the button, for every       *)
(* choice of thresholds and clock; the screen, for any expressions, times  *)
(* and clock; a stored setting, for any values.  The three share nothing.  *)
(***************************************************************************)
EXTENDS Button, Screen, StoredSetting, TLAPS

(* The button.                                                             *)

(* The clock moves within its range. *)
LEMMA AdvanceInTime ==
  ASSUME NEW t \in Time, NEW gap \in 1 .. MaxGap
  PROVE  Advance(t, gap) \in Time
BY ThresholdsPositive, ClockOutlivesGestures DEF Advance, Time

(* Nothing has elapsed at once. *)
LEMMA ElapsedNothing ==
  ASSUME NEW t \in Time PROVE Elapsed(t, t) = 0
BY ClockOutlivesGestures DEF Elapsed, Time

(* The unsigned difference is the true age, across the wrap, for whatever  *)
(* is younger than the range of the clock after the step.                  *)
LEMMA ElapsedAdvances ==
  ASSUME NEW since \in Time, NEW t \in Time, NEW gap \in 1 .. MaxGap,
         Elapsed(since, t) + MaxGap < Modulus
  PROVE  Elapsed(since, Advance(t, gap)) = Elapsed(since, t) + gap
BY ThresholdsPositive, ClockOutlivesGestures DEF Elapsed, Advance, Time

\* The time elapsed between two readings of the wrapping clock is a number.
LEMMA ElapsedIsNat ==
  ASSUME NEW from \in Time, NEW to \in Time PROVE Elapsed(from, to) \in Nat
BY ClockOutlivesGestures DEF Elapsed, Time

\* The button's first readings satisfy its invariant.
LEMMA InitInv == Init => Inv
<1> SUFFICES ASSUME Init PROVE Inv
  OBVIOUS
<1>1. 0 \in Time
  BY ClockOutlivesGestures, ThresholdsPositive DEF Time
<1>2. gesture = NoGesture /\ NoGesture \in Gesture /\ NoGesture.kind = "none"
  BY ThresholdsPositive DEF Init, Gesture, NoGesture
<1>3. /\ started \in BOOLEAN /\ stable \in BOOLEAN /\ candidate \in BOOLEAN
      /\ pressed \in BOOLEAN /\ holdReported \in BOOLEAN
      /\ startHeld \in BOOLEAN /\ sole \in BOOLEAN
  BY DEF Init
<1>4. TypeOK
  BY <1>1, <1>2, <1>3, ThresholdsPositive DEF Init, TypeOK
<1>5. /\ candidate = stable /\ ~pressed /\ ~(clicks > 0) /\ ~startHeld
  <2>1. candidate = stable /\ ~pressed /\ ~startHeld
    BY Zenon DEF Init
  <2>2. ~(clicks > 0)
    BY DEF Init
  <2>3. QED
    BY <2>1, <2>2
<1>6. ReadingTimed /\ PressTimed /\ WindowTimed /\ SoleTimed /\ StartIsQuiet
  <2>1. clicks = 0
    BY DEF Init
  <2>2. QED
    BY <1>5, <2>1 DEF ReadingTimed, PressTimed, WindowTimed, SoleTimed, StartIsQuiet
<1>7. OnTime /\ ReportedOnce /\ HeldAtStartIsSilent
  BY <1>2 DEF Init, OnTime, ReportedOnce, HeldAtStartIsSilent
<1>8. QED
  BY <1>4, <1>7, <1>6 DEF Inv

-----------------------------------------------------------------------------
LEMMA PollInv ==
  ASSUME Inv, NEW reading \in BOOLEAN, NEW gap \in 1 .. MaxGap, Poll(reading, gap)
  PROVE  Inv'
<1> DEFINE g == Taken(edge', now')
<1> USE ThresholdsPositive
<1>1. /\ now' = Advance(now, gap) /\ now' \in Time
      /\ Debounce(reading, now') /\ Recognise(g, now') /\ Observe(reading, g, gap)
  BY AdvanceInTime DEF Poll, Inv, TypeOK
(* The debouncer. *)
<1>2. /\ started' \in BOOLEAN /\ stable' \in BOOLEAN /\ candidate' \in BOOLEAN
      /\ candidateSince' \in Time
  BY <1>1 DEF Debounce, Inv, TypeOK
<1>3. edge' \in {"none", "pressed", "released"}
  BY <1>1 DEF Debounce, EdgeOf
<1>4. edge' # "none" =>
        /\ started /\ reading = candidate /\ candidate # stable
        /\ Elapsed(candidateSince, now') >= Stable
        /\ stable' = candidate /\ candidate' = candidate
        /\ edge' = IF candidate THEN "pressed" ELSE "released"
  <2>1. Elapsed(candidateSince, now') \in Nat
    BY <1>1, ElapsedIsNat DEF Inv, TypeOK
  <2>2. SUFFICES ASSUME edge' # "none"
                 PROVE  /\ started /\ reading = candidate /\ candidate # stable
                        /\ ~(Elapsed(candidateSince, now') < Stable)
                        /\ edge' = IF candidate THEN "pressed" ELSE "released"
    BY <1>1, <2>1 DEF Debounce
  <2>3. QED
    BY <1>1, <2>2 DEF Debounce, EdgeOf
<1>5. candidate # stable =>
        /\ started /\ readAge \in Nat /\ readAge < Stable
        /\ Elapsed(candidateSince, now') = readAge + gap
  BY <1>1, ElapsedAdvances, ClockOutlivesGestures DEF Inv, TypeOK, ReadingTimed
<1>6. readAge' \in Nat
  BY <1>1 DEF Observe, Inv, TypeOK
<1>7. ReadingTimed'
  BY <1>1, <1>2, <1>4, <1>5, ElapsedNothing DEF Debounce, EdgeOf, Observe, ReadingTimed, Inv, TypeOK
<1>8. edge' # "none" => readAge' \in Stable .. Stable + MaxGap - 1
  BY <1>1, <1>4, <1>5 DEF Observe
(* The gesture. *)
<1>9. edge' = "pressed" => g.down /\ ~g.held /\ g.downAt = now' /\ g.count > 0
  <2>1. clicks \in 0 .. MaxClicks /\ MaxClicks > 0
    BY DEF Inv, TypeOK
  <2>2. edge' = "pressed" => g.count > 0
    BY <2>1 DEF Taken
  <2>3. edge' = "pressed" => g.downAt = now'
    BY DEF Taken
  <2>4. edge' = "pressed" => g.down
    BY DEF Taken
  <2>5. edge' = "pressed" => ~g.held
    BY Zenon DEF Taken
  <2>6. QED
    BY <2>2, <2>3, <2>4, <2>5
<1>10. edge' # "pressed" =>
         /\ g.down => pressed
         /\ g.held = holdReported /\ g.downAt = pressedSince
         /\ g.count = clicks /\ g.openAt = windowSince
  BY <1>3 DEF Taken, Inv, TypeOK
<1>11. /\ g.down \in BOOLEAN /\ g.held \in BOOLEAN
       /\ g.downAt \in Time /\ g.openAt \in Time /\ g.count \in 0 .. MaxClicks
  BY <1>1 DEF Taken, Inv, TypeOK
<1>12. g.down /\ ~g.held =>
         /\ pressAge' \in Nat
         /\ Elapsed(g.downAt, now') = pressAge'
         /\ pressAge' < Hold + MaxGap
         /\ edge' # "pressed" => reports <= 1
  <2>1. CASE edge' = "pressed"
    BY <1>1, <1>9, <2>1, ElapsedNothing DEF Observe
  <2>2. CASE edge' # "pressed"
    BY <1>1, <1>10, <2>2, ElapsedAdvances, HoldWithinWindow, ClockOutlivesGestures
    DEF Observe, Inv, TypeOK, PressTimed
  <2>3. QED
    BY <2>1, <2>2
<1>13. g.count > 0 =>
         /\ windowAge' \in Nat
         /\ Elapsed(g.openAt, now') = windowAge'
         /\ windowAge' < Window + MaxGap
  <2>1. CASE clicks > 0
    <3>1. g.openAt = windowSince
      BY <2>1, <1>10 DEF Taken, Inv, TypeOK
    <3>2. QED
      BY <1>1, <2>1, <3>1, ElapsedAdvances, ClockOutlivesGestures
      DEF Observe, Inv, TypeOK, WindowTimed
  <2>2. CASE ~(clicks > 0)
    BY <1>1, <2>2, <1>10, ElapsedNothing DEF Observe, Taken, Inv, TypeOK
  <2>3. QED
    BY <2>1, <2>2
(* What is reported, and when. *)
<1>14. /\ HoldDue(g, now') <=> g.down /\ ~g.held /\ pressAge' >= Hold
       /\ WindowDue(g, now') <=> g.count > 0 /\ windowAge' >= Window
  BY <1>12, <1>13 DEF HoldDue, WindowDue
<1>15. \/ /\ gesture' = [kind |-> "hold", clicks |-> 0]
          /\ g.down /\ ~g.held /\ pressAge' >= Hold
          /\ clicks' = 0 /\ holdReported' = TRUE
       \/ /\ gesture' = [kind |-> "clicks", clicks |-> g.count]
          /\ g.count > 0 /\ windowAge' >= Window
          /\ g.down /\ ~g.held => pressAge' < Hold
          /\ clicks' = 0 /\ holdReported' = g.held
       \/ /\ gesture' = NoGesture
          /\ g.down /\ ~g.held => pressAge' < Hold
          /\ g.count > 0 => windowAge' < Window
          /\ clicks' = g.count /\ holdReported' = g.held
  <2>1. CASE HoldDue(g, now')
    BY <1>1, <1>14, <2>1 DEF Recognise, GestureOf
  <2>2. CASE ~HoldDue(g, now') /\ WindowDue(g, now')
    BY <1>1, <1>11, <1>12, <1>14, <2>2 DEF Recognise, GestureOf
  <2>3. CASE ~HoldDue(g, now') /\ ~WindowDue(g, now')
    BY <1>1, <1>11, <1>12, <1>13, <1>14, <2>3 DEF Recognise, GestureOf, NoGesture
  <2>4. QED
    BY <2>1, <2>2, <2>3
<1>16. /\ pressed' = g.down /\ pressedSince' = g.downAt /\ windowSince' = g.openAt
       /\ pressed' \in BOOLEAN /\ holdReported' \in BOOLEAN
       /\ clicks' \in 0 .. MaxClicks
  BY <1>1, <1>11, <1>15 DEF Recognise
(* The history of reports. *)
<1>17. /\ edge' = "pressed" => sole' = (clicks = 0)
       /\ edge' # "pressed" => sole' = sole
       /\ sole' \in BOOLEAN
  BY <1>1 DEF Observe, Inv, TypeOK
<1>18. /\ gesture'.kind = "none" =>
            reports' = IF edge' = "pressed" THEN 0 ELSE reports
       /\ gesture'.kind # "none" =>
            reports' = IF edge' = "pressed" THEN 1 ELSE reports + 1
  BY <1>1 DEF Observe
<1>19. /\ gesture' = [kind |-> "hold", clicks |-> 0] => gesture'.kind = "hold"
       /\ gesture' = [kind |-> "clicks", clicks |-> g.count] => gesture'.kind = "clicks"
       /\ gesture' = NoGesture => gesture'.kind = "none"
  BY DEF NoGesture
(* A press alone in its window: still in the count while it may be a hold. *)
<1>20. sole' /\ g.down /\ ~g.held =>
         /\ g.count > 0 /\ g.openAt = g.downAt
         /\ edge' # "pressed" => reports = 0
         /\ windowAge' = pressAge'
  <2>1. CASE edge' = "pressed"
    <3>1. sole' => g.openAt = now'
      BY <1>17, <2>1 DEF Taken
    <3>2. QED
      BY <1>9, <1>12, <1>13, <2>1, <3>1
  <2>2. CASE edge' # "pressed"
    <3>1. sole' /\ g.down /\ ~g.held =>
            clicks > 0 /\ windowSince = pressedSince /\ reports = 0
      BY <1>10, <1>17, <2>2 DEF Inv, SoleTimed, ReportedOnce
    <3>2. QED
      BY <1>10, <1>12, <1>13, <2>2, <3>1
  <2>3. QED
    BY <2>1, <2>2
<1>21. PressTimed'
  <2>1. SUFFICES ASSUME g.down, ~holdReported'
                 PROVE  /\ pressAge' = Elapsed(g.downAt, now') /\ pressAge' < Hold
                        /\ reports' <= 1
    BY <1>16 DEF PressTimed
  <2>2. ~g.held /\ pressAge' < Hold
    BY <1>15, <2>1
  <2>3. gesture'.kind # "none" => g.count > 0
    BY <1>15, <1>19, <2>1
  <2>4. edge' # "pressed" /\ g.count > 0 => reports = 0
    BY <1>10 DEF Inv, ReportedOnce
  <2>5. QED
    BY <1>12, <1>18, <2>1, <2>2, <2>3, <2>4
<1>22. WindowTimed'
  BY <1>13, <1>15, <1>16 DEF WindowTimed
<1>23. SoleTimed'
  <2>1. SUFFICES ASSUME sole', g.down, ~holdReported'
                 PROVE  clicks' > 0 /\ g.openAt = g.downAt
    BY <1>16 DEF SoleTimed
  <2>2. ~g.held /\ pressAge' < Hold
    BY <1>15, <2>1
  <2>3. ~(windowAge' >= Window)
    BY <1>12, <1>20, <2>1, <2>2, HoldWithinWindow
  <2>4. QED
    BY <1>15, <1>20, <2>1, <2>2, <2>3
<1>24. startHeld' => edge' # "pressed" /\ stable' /\ ~g.down /\ g.count = 0
  <2>1. CASE ~started
    <3>1. edge' = "none"
      BY <1>1, <2>1 DEF Debounce, EdgeOf
    <3>2. ~pressed /\ clicks = 0
      BY <2>1 DEF Inv, StartIsQuiet
    <3>3. startHeld' => stable'
      BY <1>1, <2>1 DEF Debounce, Observe
    <3>4. QED
      BY <1>10, <3>1, <3>2, <3>3
  <2>2. CASE started
    <3>1. SUFFICES ASSUME startHeld'
                   PROVE  edge' # "pressed" /\ stable' /\ ~g.down /\ g.count = 0
      OBVIOUS
    <3>2. startHeld /\ edge' # "released"
      BY <1>1, <2>2, <3>1 DEF Observe
    <3>3. stable /\ ~pressed /\ clicks = 0
      BY <3>2 DEF Inv, StartIsQuiet
    <3>4. edge' = "none"
      BY <1>3, <1>4, <3>2, <3>3
    <3>5. stable' = stable
      BY <1>1, <2>2, <3>4 DEF Debounce
    <3>6. QED
      BY <1>10, <3>3, <3>4, <3>5
  <2>3. QED
    BY <2>1, <2>2 DEF Inv, TypeOK
<1>25. StartIsQuiet'
  <2>1. started'
    BY <1>1 DEF Debounce
  <2>2. startHeld' => clicks' = 0
    BY <1>15, <1>24
  <2>3. QED
    BY <1>16, <1>24, <2>1, <2>2 DEF StartIsQuiet
<1>26. OnTime'
  <2>1. gesture'.kind = "hold" => pressAge' \in Hold .. Hold + MaxGap - 1
    BY <1>12, <1>15, <1>19
  <2>2. gesture'.kind = "clicks" => windowAge' \in Window .. Window + MaxGap - 1
    BY <1>13, <1>15, <1>19
  <2>3. QED
    BY <1>8, <2>1, <2>2 DEF OnTime
<1>27. ReportedOnce'
  <2>1. reports' = 0 <=> clicks' > 0
    BY <1>9, <1>10, <1>11, <1>15, <1>18, <1>19 DEF Inv, TypeOK, ReportedOnce
  <2>2. sole' => reports' <= 1
    <3>1. edge' # "pressed" /\ sole' => reports \in 0 .. 1
      <4>1. reports \in 0 .. 2
        BY DEF Inv, TypeOK
      <4>2. sole => reports <= 1
        BY DEF Inv, ReportedOnce
      <4>3. edge' # "pressed" /\ sole' => sole
        BY <1>17, Zenon
      <4>4. QED
        BY <4>1, <4>2, <4>3
    <3>2. edge' # "pressed" /\ g.count > 0 => reports = 0
      BY <1>10 DEF Inv, ReportedOnce
    <3>3. QED
      BY <1>15, <1>18, <1>19, <1>20, <3>1, <3>2
  <2>3. QED
    BY <2>1, <2>2 DEF ReportedOnce
<1>28. HeldAtStartIsSilent'
  <2>1. startHeld' => gesture' = NoGesture
    BY <1>11, <1>15, <1>24
  <2>2. QED
    BY <2>1 DEF HeldAtStartIsSilent, NoGesture
<1>29. TypeOK'
  <2>1. gesture' \in Gesture
    BY <1>11, <1>15 DEF Gesture, NoGesture
  <2>2. pressAge' \in Nat
    BY <1>1 DEF Observe, Inv, TypeOK
  <2>3. windowAge' \in Nat
    BY <1>1 DEF Observe, Inv, TypeOK
  <2>4. startHeld' \in BOOLEAN
    <3>1. startHeld \in BOOLEAN
      BY DEF Inv, TypeOK
    <3>2. startHeld' = IF started THEN startHeld /\ edge' # "released" ELSE reading
      BY <1>1 DEF Observe
    <3>3. QED
      BY <3>1, <3>2
  <2>5. reports' \in 0 .. 2
    <3>1. edge' # "pressed" /\ g.down /\ ~g.held => reports \in 0 .. 1
      BY <1>12 DEF Inv, TypeOK
    <3>2. edge' # "pressed" /\ g.count > 0 => reports = 0
      BY <1>10 DEF Inv, ReportedOnce
    <3>3. reports \in 0 .. 2
      BY DEF Inv, TypeOK
    <3>4. QED
      BY <1>15, <1>18, <1>19, <3>1, <3>2, <3>3
  <2>6. /\ now' \in Time /\ candidateSince' \in Time
        /\ pressedSince' \in Time /\ windowSince' \in Time
    BY <1>1, <1>2, <1>11, <1>16
  <2>7. sole' \in BOOLEAN
    BY <1>17
  <2>8. QED
    BY <1>2, <1>3, <1>6, <1>16, <2>1, <2>2, <2>5, <2>3, <2>4, <2>6, <2>7, Zenon DEF TypeOK
<1>30. QED
  BY <1>7, <1>21, <1>22, <1>23, <1>26, <1>27, <1>28, <1>29, <1>25 DEF Inv

\* A step in which the button is left alone keeps its invariant.
LEMMA StutterInv == Inv /\ UNCHANGED vars => Inv'
BY DEF vars, debouncer, gestures, history, Inv, TypeOK, ReadingTimed, PressTimed,
       WindowTimed, SoleTimed, StartIsQuiet, OnTime, ReportedOnce, HeldAtStartIsSilent

(* The clock readings that the code keeps are the true ages, and none has  *)
(* passed its threshold unnoticed.                                         *)
THEOREM Invariance == Spec => []Inv
<1>1. Inv /\ [Next]_vars => Inv'
  BY PollInv, StutterInv DEF Next
<1>2. QED
  BY InitInv, <1>1, PTL DEF Spec

(* Edges, holds and clicks are reported in true time, whatever the clock's *)
(* range, the thresholds and the delays of the main loop                   *)
(* (button.cpp:6-10).                                                      *)
THEOREM ReportedInTime == Spec => []OnTime
BY Invariance, PTL DEF Inv

(* No press is lost, and a press alone in its window is reported once      *)
(* (button_gesture.hpp:25-31).                                             *)
THEOREM EachPressOnce == Spec => []ReportedOnce
BY Invariance, PTL DEF Inv

(* A button held at power-on means nothing (button.hpp:36-37).             *)
THEOREM StartIsSilent == Spec => []HeldAtStartIsSilent
BY Invariance, PTL DEF Inv

-----------------------------------------------------------------------------
(* The screen: first what the clock's arithmetic says, then the invariant, *)
(* action by action, and what it implies.                                  *)

(* The times are numbers, and shorter than half the clock's range.         *)
LEMMA ScreenNumbers ==
  /\ NoticeTime \in Nat /\ GuideTime \in Nat /\ MaxLate \in Nat /\ ClockRange \in Nat
  /\ NoticeTime > 0 /\ GuideTime > 0 /\ MaxLate > 0
  /\ Longest \in 1 .. ClockRange /\ 2 * (Longest + MaxLate) <= ClockRange
BY ClockAssumption DEF Longest

(* A timer set to n has n left. *)
LEMMA TimerSet ==
  ASSUME NEW t \in ClockTimes, NEW n \in 1 .. Longest
  PROVE  Later(t, n) \in ClockTimes /\ Since(Later(t, n), t) = ClockRange - n
BY ScreenNumbers DEF ClockTimes, Later, Since

(* What a timer with n left has left when time has passed. *)
LEMMA TimePasses ==
  ASSUME NEW t \in ClockTimes, NEW u \in ClockTimes, NEW n \in 1 .. Longest,
         NEW late \in 1 .. MaxLate, Since(u, t) = ClockRange - n
  PROVE  /\ Later(t, late) \in ClockTimes
         /\ Since(u, Later(t, late)) = IF n - late > 0 THEN ClockRange - (n - late) ELSE late - n
BY ScreenNumbers DEF ClockTimes, Later, Since

(* The comparison the presenter makes is right across the wrap. *)
LEMMA DueIsRight ==
  ASSUME ScreenTypeOK, NoticeTimed
  PROVE  Due <=> notice /\ remaining <= 0
<1>1. CASE ~notice
  BY <1>1 DEF Due
<1>2. CASE notice
  <2>1. remaining \in Int /\ -MaxLate <= remaining /\ remaining <= Longest
    BY ScreenNumbers DEF ScreenTypeOK
  <2>2. Since(until, clock) = IF remaining > 0 THEN ClockRange - remaining ELSE -remaining
    <3> DEFINE s == Since(until, clock)
    <3>1. s \in Int
      BY ScreenNumbers DEF ScreenTypeOK, ClockTimes, Since
    <3>2. remaining = IF remaining > 0 THEN ClockRange - s ELSE -s
      BY <1>2 DEF NoticeTimed
    <3>3. QED
      BY <2>1, <3>1, <3>2, ScreenNumbers
  <2>3. QED
    BY <1>2, <2>1, <2>2, ScreenNumbers DEF Due
<1>3. QED
  BY <1>1, <1>2

(* A press that puts up a notice starts its timer right. *)
LEMMA SetTimerKeeps ==
  ASSUME ScreenTypeOK, NEW n \in {NoticeTime, GuideTime}, SetTimer(n), clock' = clock
  PROVE  until' \in ClockTimes /\ remaining' \in -MaxLate .. Longest /\ NoticeTimed'
<1>1. n \in 1 .. Longest
  BY ScreenNumbers DEF Longest
<1>2. clock \in ClockTimes
  BY DEF ScreenTypeOK
<1>3. until' \in ClockTimes /\ Since(until', clock) = ClockRange - n
  BY <1>1, <1>2, TimerSet DEF SetTimer
<1>4. Since(until', clock') = ClockRange - n
  BY <1>3
<1>5. QED
  BY <1>1, <1>3, <1>4, ScreenNumbers DEF SetTimer, NoticeTimed

(* The pause takes from the notice what it takes. *)
LEMMA PauseKeeps ==
  ASSUME ScreenTypeOK, NoticeTimed, Pause
  PROVE  clock' \in ClockTimes /\ remaining' \in -MaxLate .. Longest /\ NoticeTimed'
<1>1. PICK late \in 1 .. MaxLate :
        clock' = Later(clock, late) /\ remaining' = IF notice THEN remaining - late ELSE 0
  BY DEF Pause
<1>2. clock \in ClockTimes /\ until \in ClockTimes /\ remaining \in -MaxLate .. Longest
  BY DEF ScreenTypeOK
<1>3. at = "net" /\ at' = "handle" /\ notice' = notice /\ until' = until
  BY DEF Pause
<1>4. clock' \in ClockTimes
  BY <1>1, <1>2, ScreenNumbers DEF Later, ClockTimes
<1>5. CASE ~notice
  BY <1>1, <1>3, <1>4, <1>5, ScreenNumbers DEF NoticeTimed
<1>6. CASE notice
  <2>1. remaining \in 1 .. Longest
    BY <1>2, <1>3, <1>6, ScreenNumbers DEF NoticeTimed
  <2>2. Since(until, clock) \in Int
    BY <1>2, ScreenNumbers DEF ClockTimes, Since
  <2>3. Since(until, clock) = ClockRange - remaining
    <3> DEFINE s == Since(until, clock)
    <3>1. remaining = IF remaining > 0 THEN ClockRange - s ELSE -s
      BY <1>6 DEF NoticeTimed
    <3>2. QED
      BY <2>1, <2>2, <3>1, ScreenNumbers
  <2>4. Since(until, clock') = IF remaining - late > 0 THEN ClockRange - (remaining - late)
                               ELSE late - remaining
    BY <1>1, <1>2, <2>1, <2>3, TimePasses
  <2>5. QED
    BY <1>1, <1>3, <1>4, <1>6, <2>1, <2>4, ScreenNumbers DEF NoticeTimed
<1>7. QED
  BY <1>5, <1>6

(* Power-on. *)
LEMMA ScreenStarts == ScreenInit => ScreenInv
<1> SUFFICES ASSUME ScreenInit PROVE ScreenInv
  OBVIOUS
<1>1. mode \in {"face", "pairing"}
  BY DEF ScreenInit
<1>2. ScreenTypeOK
  <2>1. connected \in BOOLEAN /\ apUp \in BOOLEAN
    BY Zenon DEF ScreenInit
  <2>2. remaining \in -MaxLate .. Longest /\ clock \in ClockTimes /\ until \in ClockTimes
    BY ScreenNumbers DEF ScreenInit, ClockTimes
  <2>3. QED
    BY ExpressionsAssumption, <1>1, <2>1, <2>2
       DEF ScreenInit, ScreenTypeOK, Places, ShowPlaces, Modes, None
<1>3. NoticeTimed /\ MessageTimed /\ TurnSeen /\ Reported
  BY <1>1 DEF ScreenInit, NoticeTimed, MessageTimed, TurnSeen, Reported, ShowPlaces
<1>4. QED
  BY <1>2, <1>3 DEF ScreenInv

\* A step in which the screen is left alone keeps its invariant.
LEMMA ScreenStutters == ScreenInv /\ UNCHANGED screenVars => ScreenInv'
BY DEF screenVars, loop, timer, edges, face, net, server, ScreenInv, ScreenTypeOK, NoticeTimed,
   MessageTimed, TurnSeen, Reported, Since

(* The main loop. *)
LEMMA MainLoopInv ==
  ASSUME ScreenInv, MainLoop
  PROVE  ScreenInv'
<1> USE ExpressionsAssumption
<1> USE DEF ScreenInv, ScreenTypeOK, NoticeTimed, MessageTimed, TurnSeen, Reported, ShowPlaces,
            Places, Modes, None, loop, timer, edges, face, net, server
<1>1. CASE HandleNothing
  BY <1>1 DEF HandleNothing
<1>2. CASE HandleStart
  <2>1. ScreenTypeOK'
    BY <1>2 DEF HandleStart
  <2>2. NoticeTimed' /\ MessageTimed'
    BY <1>2 DEF HandleStart
  <2>3. TurnSeen' /\ Reported'
    BY <1>2 DEF HandleStart
  <2>4. QED
    BY <2>1, <2>2, <2>3
<1>3. CASE HandleRefused
  <2>1. ScreenTypeOK'
    <3>1. /\ at' \in Places /\ clock' \in ClockTimes /\ held' \in Expressions
          /\ until' \in ClockTimes /\ remaining' \in -MaxLate .. Longest
          /\ expression' \in Expressions /\ resting' \in Expressions /\ mode' \in Modes
          /\ turn' \in {"idle", "waiting", "speaking", "ending"}
          /\ command' \in Expressions \cup {None}
          /\ shownBy' \in {"resting", "command", "sentence"}
      BY <1>3, SetTimerKeeps DEF HandleRefused, ShowText, SetTimer
    <3>2. /\ notice' \in BOOLEAN /\ lastBusy' \in BOOLEAN /\ wasConnected' \in BOOLEAN
          /\ wasApUp' \in BOOLEAN /\ begun' \in BOOLEAN /\ ticked' \in BOOLEAN
          /\ crossed' \in BOOLEAN /\ talking' \in BOOLEAN
          /\ connected' \in BOOLEAN /\ apUp' \in BOOLEAN
      BY <1>3, Zenon DEF HandleRefused, ShowText, SetTimer
    <3>3. QED
      BY <3>1, <3>2
  <2>2. NoticeTimed'
    BY <1>3, SetTimerKeeps DEF HandleRefused, ShowText
  <2>3. MessageTimed'
    BY <1>3 DEF HandleRefused, ShowText, SetTimer
  <2>4. TurnSeen'
    BY <1>3 DEF HandleRefused, ShowText, SetTimer
  <2>5. Reported'
    BY <1>3 DEF HandleRefused, ShowText, SetTimer
  <2>6. QED
    BY <2>1, <2>2, <2>3, <2>4, <2>5
<1>4. CASE HandleReport
  <2>1. ScreenTypeOK'
    <3>1. /\ at' \in Places /\ clock' \in ClockTimes /\ held' \in Expressions
          /\ until' \in ClockTimes /\ remaining' \in -MaxLate .. Longest
          /\ expression' \in Expressions /\ resting' \in Expressions /\ mode' \in Modes
          /\ turn' \in {"idle", "waiting", "speaking", "ending"}
          /\ command' \in Expressions \cup {None}
          /\ shownBy' \in {"resting", "command", "sentence"}
      BY <1>4, SetTimerKeeps DEF HandleReport, ShowText, SetTimer
    <3>2. /\ notice' \in BOOLEAN /\ lastBusy' \in BOOLEAN /\ wasConnected' \in BOOLEAN
          /\ wasApUp' \in BOOLEAN /\ begun' \in BOOLEAN /\ ticked' \in BOOLEAN
          /\ crossed' \in BOOLEAN /\ talking' \in BOOLEAN
          /\ connected' \in BOOLEAN /\ apUp' \in BOOLEAN
      BY <1>4, Zenon DEF HandleReport, ShowText, SetTimer
    <3>3. QED
      BY <3>1, <3>2
  <2>2. NoticeTimed'
    BY <1>4, SetTimerKeeps DEF HandleReport, ShowText
  <2>3. MessageTimed'
    BY <1>4 DEF HandleReport, ShowText, SetTimer
  <2>4. TurnSeen'
    BY <1>4 DEF HandleReport, ShowText, SetTimer
  <2>5. Reported'
    BY <1>4 DEF HandleReport, ShowText, SetTimer
  <2>6. QED
    BY <2>1, <2>2, <2>3, <2>4, <2>5
<1>5. CASE TickNotice
  <2>1. ScreenTypeOK'
    <3>1. /\ at' \in Places /\ clock' \in ClockTimes /\ held' \in Expressions
          /\ until' \in ClockTimes /\ remaining' \in -MaxLate .. Longest
          /\ expression' \in Expressions /\ resting' \in Expressions /\ mode' \in Modes
          /\ turn' \in {"idle", "waiting", "speaking", "ending"}
          /\ command' \in Expressions \cup {None}
          /\ shownBy' \in {"resting", "command", "sentence"}
      BY <1>5, ScreenNumbers DEF TickNotice, ReadResting, Skip, ClockTimes
    <3>2. /\ notice' \in BOOLEAN /\ lastBusy' \in BOOLEAN /\ wasConnected' \in BOOLEAN
          /\ wasApUp' \in BOOLEAN /\ begun' \in BOOLEAN /\ ticked' \in BOOLEAN
          /\ crossed' \in BOOLEAN /\ talking' \in BOOLEAN
          /\ connected' \in BOOLEAN /\ apUp' \in BOOLEAN
      BY <1>5, Zenon DEF TickNotice, ReadResting, Skip
    <3>3. QED
      BY <3>1, <3>2
  <2>2. NoticeTimed'
    <3>1. CASE Due
      BY <1>5, <3>1 DEF TickNotice, ReadResting
    <3>2. CASE ~Due
      <4>1. notice => ~(remaining <= 0)
        BY <3>2, DueIsRight
      <4>2. remaining \in Int
        BY ScreenNumbers
      <4>3. UNCHANGED <<notice, remaining, until, clock>>
        BY <1>5, <3>2 DEF TickNotice, Skip
      <4>4. QED
        BY <4>1, <4>2, <4>3
    <3>3. QED
      BY <3>1, <3>2
  <2>3. MessageTimed'
    <3>1. CASE Due
      BY <1>5, <3>1, DueIsRight DEF TickNotice, ReadResting
    <3>2. CASE ~Due
      BY <1>5, <3>2 DEF TickNotice, Skip
    <3>3. QED
      BY <3>1, <3>2
  <2>4. TurnSeen'
    BY <1>5 DEF TickNotice, ReadResting, Skip
  <2>5. Reported'
    BY <1>5 DEF TickNotice, ReadResting, Skip
  <2>6. QED
    BY <2>1, <2>2, <2>3, <2>4, <2>5
<1>6. CASE TickPhase
  <2>1. ScreenTypeOK'
    <3>1. /\ at' \in Places /\ clock' \in ClockTimes /\ held' \in Expressions
          /\ until' \in ClockTimes /\ remaining' \in -MaxLate .. Longest
          /\ expression' \in Expressions /\ resting' \in Expressions /\ mode' \in Modes
          /\ turn' \in {"idle", "waiting", "speaking", "ending"}
          /\ command' \in Expressions \cup {None}
          /\ shownBy' \in {"resting", "command", "sentence"}
      BY <1>6, ScreenNumbers DEF TickPhase, ReadResting, Skip, ClockTimes
    <3>2. /\ notice' \in BOOLEAN /\ lastBusy' \in BOOLEAN /\ wasConnected' \in BOOLEAN
          /\ wasApUp' \in BOOLEAN /\ begun' \in BOOLEAN /\ ticked' \in BOOLEAN
          /\ crossed' \in BOOLEAN /\ talking' \in BOOLEAN
          /\ connected' \in BOOLEAN /\ apUp' \in BOOLEAN
      BY <1>6, Zenon DEF TickPhase, ReadResting, Skip
    <3>3. QED
      BY <3>1, <3>2
  <2>2. NoticeTimed'
    BY <1>6 DEF TickPhase, ReadResting, Skip
  <2>3. MessageTimed'
    BY <1>6 DEF TickPhase, ReadResting, Skip
  <2>4. TurnSeen'
    BY <1>6 DEF TickPhase, ReadResting, Skip
  <2>5. Reported'
    BY <1>6 DEF TickPhase, ReadResting, Skip
  <2>6. QED
    BY <2>1, <2>2, <2>3, <2>4, <2>5
<1>7. CASE TickLink
  <2>1. ScreenTypeOK'
    <3>1. /\ at' \in Places /\ clock' \in ClockTimes /\ held' \in Expressions
          /\ until' \in ClockTimes /\ remaining' \in -MaxLate .. Longest
          /\ expression' \in Expressions /\ resting' \in Expressions /\ mode' \in Modes
          /\ turn' \in {"idle", "waiting", "speaking", "ending"}
          /\ command' \in Expressions \cup {None}
          /\ shownBy' \in {"resting", "command", "sentence"}
      BY <1>7, ScreenNumbers DEF TickLink, ReadResting, Skip, ClockTimes
    <3>2. /\ notice' \in BOOLEAN /\ lastBusy' \in BOOLEAN /\ wasConnected' \in BOOLEAN
          /\ wasApUp' \in BOOLEAN /\ begun' \in BOOLEAN /\ ticked' \in BOOLEAN
          /\ crossed' \in BOOLEAN /\ talking' \in BOOLEAN
          /\ connected' \in BOOLEAN /\ apUp' \in BOOLEAN
      BY <1>7, Zenon DEF TickLink, ReadResting, Skip
    <3>3. QED
      BY <3>1, <3>2
  <2>2. NoticeTimed'
    BY <1>7 DEF TickLink, ReadResting, Skip
  <2>3. MessageTimed'
    BY <1>7 DEF TickLink, ReadResting, Skip
  <2>4. TurnSeen'
    BY <1>7 DEF TickLink, ReadResting, Skip
  <2>5. Reported'
    BY <1>7 DEF TickLink, ReadResting, Skip
  <2>6. QED
    BY <2>1, <2>2, <2>3, <2>4, <2>5
<1>8. CASE TickAccessPoint
  BY <1>8 DEF TickAccessPoint, ShowText
<1>9. CASE ShowResting
  <2>1. ScreenTypeOK'
    <3>1. /\ at' \in Places /\ clock' \in ClockTimes /\ held' \in Expressions
          /\ until' \in ClockTimes /\ remaining' \in -MaxLate .. Longest
          /\ expression' \in Expressions /\ resting' \in Expressions /\ mode' \in Modes
          /\ turn' \in {"idle", "waiting", "speaking", "ending"}
          /\ command' \in Expressions \cup {None}
          /\ shownBy' \in {"resting", "command", "sentence"}
      BY <1>9, ScreenNumbers DEF ShowResting, Show, ClockTimes
    <3>2. /\ notice' \in BOOLEAN /\ lastBusy' \in BOOLEAN /\ wasConnected' \in BOOLEAN
          /\ wasApUp' \in BOOLEAN /\ begun' \in BOOLEAN /\ ticked' \in BOOLEAN
          /\ crossed' \in BOOLEAN /\ talking' \in BOOLEAN
          /\ connected' \in BOOLEAN /\ apUp' \in BOOLEAN
      BY <1>9, Zenon DEF ShowResting, Show
    <3>3. QED
      BY <3>1, <3>2
  <2>2. NoticeTimed'
    BY <1>9 DEF ShowResting, Show
  <2>3. MessageTimed'
    BY <1>9 DEF ShowResting, Show
  <2>4. TurnSeen'
    BY <1>9 DEF ShowResting, Show
  <2>5. Reported'
    BY <1>9 DEF ShowResting, Show
  <2>6. QED
    BY <2>1, <2>2, <2>3, <2>4, <2>5
<1>10. CASE Pause
  <2>1. ScreenTypeOK'
    <3>1. /\ at' \in Places /\ clock' \in ClockTimes /\ held' \in Expressions
          /\ until' \in ClockTimes /\ remaining' \in -MaxLate .. Longest
          /\ expression' \in Expressions /\ resting' \in Expressions /\ mode' \in Modes
          /\ turn' \in {"idle", "waiting", "speaking", "ending"}
          /\ command' \in Expressions \cup {None}
          /\ shownBy' \in {"resting", "command", "sentence"}
      BY <1>10, PauseKeeps DEF Pause
    <3>2. /\ notice' \in BOOLEAN /\ lastBusy' \in BOOLEAN /\ wasConnected' \in BOOLEAN
          /\ wasApUp' \in BOOLEAN /\ begun' \in BOOLEAN /\ ticked' \in BOOLEAN
          /\ crossed' \in BOOLEAN /\ talking' \in BOOLEAN
          /\ connected' \in BOOLEAN /\ apUp' \in BOOLEAN
      BY <1>10, Zenon DEF Pause
    <3>3. QED
      BY <3>1, <3>2
  <2>2. NoticeTimed'
    BY <1>10, PauseKeeps
  <2>3. MessageTimed'
    BY <1>10 DEF Pause
  <2>4. TurnSeen'
    BY <1>10 DEF Pause
  <2>5. Reported'
    BY <1>10 DEF Pause
  <2>6. QED
    BY <2>1, <2>2, <2>3, <2>4, <2>5
<1>11. QED
  BY <1>1, <1>2, <1>3, <1>4, <1>5, <1>6, <1>7, <1>8, <1>9, <1>10 DEF MainLoop

(* The server's task. *)
LEMMA ServerInv ==
  ASSUME ScreenInv, ServerTask
  PROVE  ScreenInv'
<1> USE ExpressionsAssumption
<1> USE DEF ScreenInv, ScreenTypeOK, NoticeTimed, MessageTimed, TurnSeen, Reported, ShowPlaces,
            Places, Modes, None, loop, timer, edges, face, net, server
<1>1. CASE RemoteStart
  <2>1. ScreenTypeOK'
    <3>1. /\ at' \in Places /\ clock' \in ClockTimes /\ held' \in Expressions
          /\ until' \in ClockTimes /\ remaining' \in -MaxLate .. Longest
          /\ expression' \in Expressions /\ resting' \in Expressions /\ mode' \in Modes
          /\ turn' \in {"idle", "waiting", "speaking", "ending"}
          /\ command' \in Expressions \cup {None}
          /\ shownBy' \in {"resting", "command", "sentence"}
      BY <1>1 DEF RemoteStart
    <3>2. /\ notice' \in BOOLEAN /\ lastBusy' \in BOOLEAN /\ wasConnected' \in BOOLEAN
          /\ wasApUp' \in BOOLEAN /\ begun' \in BOOLEAN /\ ticked' \in BOOLEAN
          /\ crossed' \in BOOLEAN /\ talking' \in BOOLEAN
          /\ connected' \in BOOLEAN /\ apUp' \in BOOLEAN
      BY <1>1, Zenon DEF RemoteStart
    <3>3. QED
      BY <3>1, <3>2
  <2>2. NoticeTimed'
    BY <1>1 DEF RemoteStart
  <2>3. MessageTimed'
    BY <1>1 DEF RemoteStart
  <2>4. TurnSeen'
    BY <1>1 DEF RemoteStart
  <2>5. Reported'
    BY <1>1 DEF RemoteStart
  <2>6. QED
    BY <2>1, <2>2, <2>3, <2>4, <2>5
<1>2. CASE StoreExpression
  BY <1>2 DEF StoreExpression
<1>3. ASSUME NEW e \in Expressions, SetExpression(e) PROVE ScreenInv'
  <2>1. ScreenTypeOK'
    <3>1. /\ at' \in Places /\ clock' \in ClockTimes /\ held' \in Expressions
          /\ until' \in ClockTimes /\ remaining' \in -MaxLate .. Longest
          /\ expression' \in Expressions /\ resting' \in Expressions /\ mode' \in Modes
          /\ turn' \in {"idle", "waiting", "speaking", "ending"}
          /\ command' \in Expressions \cup {None}
          /\ shownBy' \in {"resting", "command", "sentence"}
      BY <1>3 DEF SetExpression, Show
    <3>2. /\ notice' \in BOOLEAN /\ lastBusy' \in BOOLEAN /\ wasConnected' \in BOOLEAN
          /\ wasApUp' \in BOOLEAN /\ begun' \in BOOLEAN /\ ticked' \in BOOLEAN
          /\ crossed' \in BOOLEAN /\ talking' \in BOOLEAN
          /\ connected' \in BOOLEAN /\ apUp' \in BOOLEAN
      <4>1. crossed' \in BOOLEAN
        BY <1>3 DEF SetExpression
      <4>2. QED
        BY <1>3, <4>1, Zenon DEF SetExpression, Show
    <3>3. QED
      BY <3>1, <3>2
  <2>2. NoticeTimed'
    BY <1>3 DEF SetExpression, Show
  <2>3. MessageTimed'
    BY <1>3 DEF SetExpression, Show
  <2>4. TurnSeen'
    BY <1>3 DEF SetExpression, Show
  <2>5. Reported'
    BY <1>3 DEF SetExpression, Show
  <2>6. QED
    BY <2>1, <2>2, <2>3, <2>4, <2>5
<1>4. QED
  BY <1>1, <1>2, <1>3 DEF ServerTask

(* The conversation task. *)
LEMMA TalkInv ==
  ASSUME ScreenInv, Talk
  PROVE  ScreenInv'
<1> USE ExpressionsAssumption
<1> USE DEF ScreenInv, ScreenTypeOK, NoticeTimed, MessageTimed, TurnSeen, Reported, ShowPlaces,
            Places, Modes, None, loop, timer, edges, face, net, server
<1>1. CASE StartTalking
  BY <1>1 DEF StartTalking
<1>2. CASE StopTalking
  <2>1. ScreenTypeOK'
    <3>1. /\ at' \in Places /\ clock' \in ClockTimes /\ held' \in Expressions
          /\ until' \in ClockTimes /\ remaining' \in -MaxLate .. Longest
          /\ expression' \in Expressions /\ resting' \in Expressions /\ mode' \in Modes
          /\ turn' \in {"idle", "waiting", "speaking", "ending"}
          /\ command' \in Expressions \cup {None}
          /\ shownBy' \in {"resting", "command", "sentence"}
      BY <1>2 DEF StopTalking
    <3>2. /\ notice' \in BOOLEAN /\ lastBusy' \in BOOLEAN /\ wasConnected' \in BOOLEAN
          /\ wasApUp' \in BOOLEAN /\ begun' \in BOOLEAN /\ ticked' \in BOOLEAN
          /\ crossed' \in BOOLEAN /\ talking' \in BOOLEAN
          /\ connected' \in BOOLEAN /\ apUp' \in BOOLEAN
      BY <1>2, Zenon DEF StopTalking
    <3>3. QED
      BY <3>1, <3>2
  <2>2. NoticeTimed'
    BY <1>2 DEF StopTalking
  <2>3. MessageTimed'
    BY <1>2 DEF StopTalking
  <2>4. TurnSeen'
    BY <1>2 DEF StopTalking
  <2>5. Reported'
    BY <1>2 DEF StopTalking
  <2>6. QED
    BY <2>1, <2>2, <2>3, <2>4, <2>5
<1>3. CASE EndTalk
  BY <1>3 DEF EndTalk
<1>4. ASSUME NEW e \in Expressions, ShowSentence(e) PROVE ScreenInv'
  BY <1>4 DEF ShowSentence, Show
<1>5. QED
  BY <1>1, <1>2, <1>3, <1>4 DEF Talk

(* The inductive invariant of the screen (presenter.cpp, m5gfx_face.cpp).     *)
THEOREM ScreenInvariance == ScreenSpec => []ScreenInv
<1>1. ScreenInv /\ [ScreenNext]_screenVars => ScreenInv'
  BY ScreenStutters, MainLoopInv, ServerInv, TalkInv DEF ScreenNext
<1>2. QED
  BY ScreenStarts, <1>1, PTL DEF ScreenSpec

(* The state of the screen keeps its types. *)
THEOREM ScreenTypeCorrect == ScreenSpec => []ScreenTypeOK
<1>1. ScreenInv => ScreenTypeOK
  BY DEF ScreenInv
<1>2. QED
  BY ScreenInvariance, <1>1, PTL

(* A notice stays for its time and no longer (presenter.cpp:59-64).           *)
THEOREM NoticesAreTimed == ScreenSpec => []NoticeIsTimed
<1>1. ScreenInv => NoticeIsTimed
  BY DEF ScreenInv, NoticeTimed, MessageTimed, NoticeIsTimed, ShowPlaces
<1>2. QED
  BY ScreenInvariance, <1>1, PTL

(* A finished turn leaves neither its expression nor a moving mouth           *)
(* (presenter.cpp:66-77).                                                     *)
THEOREM TurnsLeaveNoFace == ScreenSpec => []TurnLeavesNoFace
<1>1. ScreenInv => TurnLeavesNoFace
  BY DEF ScreenInv, TurnSeen, TurnLeavesNoFace
<1>2. QED
  BY ScreenInvariance, <1>1, PTL

(* What device.state reports is what the face shows (face_commands.hpp:29-30). *)
THEOREM FacesAreReported == ScreenSpec => []FaceIsReported
<1>1. ScreenInv => FaceIsReported
  BY DEF ScreenInv, Reported, FaceIsReported
<1>2. QED
  BY ScreenInvariance, <1>1, PTL

-----------------------------------------------------------------------------
(* A stored setting.  The invariant is proved group by group: power-on,    *)
(* the change, the conversation, and the power cut that may come anywhere. *)

(* Before the first power-on nothing is in memory and nobody was told.     *)
LEMMA SettingStarts == SettingInit => SettingInv
BY ValuesAssumption DEF SettingInit, SettingInv, SettingTypeOK, InFlash, InMemory, WhenOff,
   Copying, ReplyIsDurable, Halves, Changing

\* A step in which the setting is left alone keeps its invariant.
LEMMA SettingStutters == SettingInv /\ UNCHANGED settingVars => SettingInv'
BY DEF settingVars, memory, cmd, copy, SettingInv, SettingTypeOK, InFlash, InMemory, WhenOff,
   Copying, ReplyIsDurable, Halves, Changing

(* Power-on. *)
LEMMA BootInv ==
  ASSUME SettingInv, BootStep
  PROVE  SettingInv'
<1> USE ValuesAssumption
<1> USE DEF SettingInv, SettingTypeOK, InFlash, InMemory, WhenOff, Copying, ReplyIsDurable,
            Halves, Changing, Load, Started, Draw, Misread, memory, cmd, copy
<1>1. CASE BootLoads
  BY <1>1 DEF BootLoads
<1>2. CASE BootFails
  BY <1>2 DEF BootFails
<1>3. CASE BootWithoutUrl
  BY <1>3 DEF BootWithoutUrl
<1>4. CASE BootErases
  BY <1>4 DEF BootErases
<1>5. ASSUME NEW v \in Values, BootGenerates(v) PROVE SettingInv'
  BY <1>5 DEF BootGenerates
<1>6. ASSUME NEW v \in Values, BootCut(v) PROVE SettingInv'
  BY <1>6 DEF BootCut
<1>7. QED
  BY <1>1, <1>2, <1>3, <1>4, <1>5, <1>6 DEF BootStep

(* The command that replaces the value. *)
LEMMA ChangeInv ==
  ASSUME SettingInv, Change
  PROVE  SettingInv'
<1> USE ValuesAssumption
<1> USE DEF SettingInv, SettingTypeOK, InFlash, InMemory, WhenOff, Copying, ReplyIsDurable,
            Halves, Changing, Refuse, memory, cmd, copy
<1>1. CASE Write
  BY <1>1 DEF Write
<1>2. CASE Commit
  BY <1>2 DEF Commit
<1>3. CASE SwapLeft
  BY <1>3 DEF SwapLeft
<1>4. CASE SwapRight
  BY <1>4 DEF SwapRight
<1>5. CASE Reply
  BY <1>5 DEF Reply
<1>6. ASSUME NEW v \in Values, Rotate(v) PROVE SettingInv'
  BY <1>6 DEF Rotate
<1>7. ASSUME NEW v \in Values, Configure(v) PROVE SettingInv'
  <2>1. exposed' \in BOOLEAN
    BY <1>7 DEF Configure
  <2>2. ~exposed' => ~exposed /\ sending = "idle"
    BY <1>7 DEF Configure
  <2>3. SettingTypeOK'
    BY <1>7, <2>1 DEF Configure
  <2>4. (InFlash /\ InMemory /\ WhenOff)'
    BY <1>7 DEF Configure
  <2>5. (Copying /\ ReplyIsDurable)'
    BY <1>7, <2>2 DEF Configure
  <2>6. QED
    BY <2>3, <2>4, <2>5
<1>8. QED
  BY <1>1, <1>2, <1>3, <1>4, <1>5, <1>6, <1>7 DEF Change

(* The conversation that copies it. *)
LEMMA SendingInv ==
  ASSUME SettingInv, Sending
  PROVE  SettingInv'
<1> USE ValuesAssumption
<1> USE DEF SettingInv, SettingTypeOK, InFlash, InMemory, WhenOff, Copying, ReplyIsDurable,
            Halves, Changing, memory, cmd, copy
<1>1. CASE BeginSending
  <2>1. exposed' \in BOOLEAN
    BY <1>1 DEF BeginSending
  <2>2. ~exposed' => step' \notin Changing
    BY <1>1 DEF BeginSending
  <2>3. QED
    BY <1>1, <2>1, <2>2 DEF BeginSending
<1>2. CASE CopyLeft
  BY <1>2 DEF CopyLeft
<1>3. CASE CopyRight
  BY <1>3 DEF CopyRight
<1>4. CASE EndSending
  <2>1. SettingTypeOK'
    BY <1>4 DEF EndSending
  <2>2. (InFlash /\ InMemory /\ WhenOff)'
    BY <1>4 DEF EndSending
  <2>3. (Copying /\ ReplyIsDurable)'
    BY <1>4 DEF EndSending
  <2>4. QED
    BY <2>1, <2>2, <2>3
<1>5. QED
  BY <1>1, <1>2, <1>3, <1>4 DEF Sending

(* A power cut between any two of those steps. *)
LEMMA PowerCutInv ==
  ASSUME SettingInv, PowerCut
  PROVE  SettingInv'
BY ValuesAssumption DEF SettingInv, SettingTypeOK, InFlash, InMemory, WhenOff, Copying,
   ReplyIsDurable, Halves, Changing, Refuse, memory, cmd, copy, PowerCut

(* The inductive invariant of a stored setting (token.cpp, gateway_client.cpp). *)
THEOREM SettingInvariance == SettingSpec => []SettingInv
<1>1. SettingInv /\ [SettingNext]_settingVars => SettingInv'
  BY SettingStutters, BootInv, ChangeInv, SendingInv, PowerCutInv DEF SettingNext
<1>2. QED
  BY SettingStarts, <1>1, PTL DEF SettingSpec

(* The state of a stored setting keeps its types, for any set of values. *)
THEOREM SettingTypeCorrect == SettingSpec => []SettingTypeOK
<1>1. SettingInv => SettingTypeOK
  BY DEF SettingInv
<1>2. QED
  BY SettingInvariance, <1>1, PTL

(* What a successful token.rotate or gateway.configure replied survives every *)
(* power cut and every failed write until the next change, unless a power-on  *)
(* could not read the token and made another (token.cpp:88-116, 120-166).     *)
THEOREM RepliesAreDurable == SettingSpec => []ReplyIsDurable
<1>1. SettingInv => ReplyIsDurable
  BY DEF SettingInv
<1>2. QED
  BY SettingInvariance, <1>1, PTL

(* A conversation that no change overlaps is sent with one whole value        *)
(* (gateway_client.cpp:104-131).                                              *)
THEOREM CopiesAreWhole == SettingSpec => []CopyIsWhole
<1>1. SettingInv => CopyIsWhole
  BY DEF SettingInv, Copying, CopyIsWhole
<1>2. QED
  BY SettingInvariance, <1>1, PTL
=============================================================================
