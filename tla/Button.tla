------------------------------- MODULE Button -------------------------------
(***************************************************************************)
(* One button, polled by the main loop: ButtonDebouncer turns readings of  *)
(* a bouncing contact into edges, ButtonGesture turns edges into clicks    *)
(* and holds.  Both subtract readings of a 32-bit millisecond clock that   *)
(* wraps; the polls come as irregularly as the rest of the loop lets them. *)
(*                                                                         *)
(* Beside the clock the model keeps the true time since each event whose   *)
(* age the code decides by.  stable_since_ and last_press_ms_, which       *)
(* nothing in the firmware reads, are left out.                            *)
(***************************************************************************)
EXTENDS Integers

CONSTANTS
  Stable,    \* stable_ms: how long a reading must hold
  Window,    \* multi_click_window_ms
  Hold,      \* hold_ms
  MaxClicks, \* the count's limit, 255
  Modulus,   \* the clock's range, 2^32
  MaxGap     \* bound: the longest time between two polls

ASSUME ThresholdsPositive ==
  /\ Stable \in Nat \ {0} /\ Window \in Nat \ {0} /\ Hold \in Nat \ {0}
  /\ MaxClicks \in Nat \ {0} /\ MaxGap \in Nat \ {0}

(* A hold is recognised within the window it opens (500 and 1000 ms). *)
ASSUME HoldWithinWindow == Hold <= Window

(* The loop is never held up for anything like the range of the clock. *)
ASSUME ClockOutlivesGestures ==
  Modulus \in Nat /\ Stable + MaxGap < Modulus /\ Window + MaxGap < Modulus

VARIABLES
  now,                                                  \* the clock
  started, stable, candidate, candidateSince,           \* ButtonDebouncer
  pressed, holdReported, pressedSince, clicks, windowSince,  \* ButtonGesture
  edge, gesture,          \* what the last poll returned
  \* history
  readAge,    \* true time the candidate has been read, while it is not settled
  pressAge,   \* true time since the press, until its hold is reported
  windowAge,  \* true time since the window opened, until it closes
  startHeld,  \* the button has been down since the first poll
  sole,       \* the last press opened its window
  reports     \* gestures that reported the last press

debouncer == <<started, stable, candidate, candidateSince>>
gestures  == <<pressed, holdReported, pressedSince, clicks, windowSince>>
history   == <<readAge, pressAge, windowAge, startHeld, sole, reports>>
vars      == <<now, debouncer, gestures, edge, gesture, history>>

Time == 0 .. Modulus - 1

NoGesture == [kind |-> "none", clicks |-> 0]
Gesture   == [kind : {"none", "hold", "clicks"}, clicks : 0 .. MaxClicks]

TypeOK ==
  /\ now \in Time
  /\ started \in BOOLEAN /\ stable \in BOOLEAN /\ candidate \in BOOLEAN
  /\ candidateSince \in Time
  /\ pressed \in BOOLEAN /\ holdReported \in BOOLEAN
  /\ pressedSince \in Time /\ windowSince \in Time
  /\ clicks \in 0 .. MaxClicks
  /\ edge \in {"none", "pressed", "released"}
  /\ gesture \in Gesture
  /\ readAge \in Nat /\ pressAge \in Nat /\ windowAge \in Nat
  /\ startHeld \in BOOLEAN /\ sole \in BOOLEAN /\ reports \in 0 .. 2

(* The clock may have any value when the first poll comes. *)
Init ==
  /\ now \in Time
  /\ started = FALSE /\ stable = FALSE /\ candidate = FALSE /\ candidateSince = 0
  /\ pressed = FALSE /\ holdReported = FALSE /\ pressedSince = 0
  /\ clicks = 0 /\ windowSince = 0
  /\ edge = "none" /\ gesture = NoGesture
  /\ readAge = 0 /\ pressAge = 0 /\ windowAge = 0
  /\ startHeld = FALSE /\ sole = TRUE /\ reports = 1

-----------------------------------------------------------------------------
(* The clock: uint32_t addition and subtraction.                           *)

Advance(t, gap) == IF t + gap < Modulus THEN t + gap ELSE t + gap - Modulus

(* Mutant of Elapsed: a signed difference that is not corrected. *)
ElapsedSigned(from, to) == IF to >= from THEN to - from ELSE 0

Elapsed(from, to) == IF to >= from THEN to - from ELSE to - from + Modulus

-----------------------------------------------------------------------------
(* ButtonDebouncer::update(): the first reading is adopted, a new reading  *)
(* starts the clock, and a reading that has held long enough is believed.  *)

(* Mutant of EdgeOf: the first reading is taken for a change. *)
EdgeOfAnyReading(reading, t) ==
  IF ~started /\ reading THEN "pressed"
  ELSE IF \/ ~started
          \/ reading # candidate
          \/ candidate = stable
          \/ Elapsed(candidateSince, t) < Stable
         THEN "none"
         ELSE IF candidate THEN "pressed" ELSE "released"

EdgeOf(reading, t) ==
  IF \/ ~started
     \/ reading # candidate
     \/ candidate = stable
     \/ Elapsed(candidateSince, t) < Stable
    THEN "none"
    ELSE IF candidate THEN "pressed" ELSE "released"

(* Mutant of Debounce: a bounce does not start the clock again. *)
DebounceFromFirstChange(reading, t) ==
  /\ started' = TRUE
  /\ edge' = EdgeOf(reading, t)
  /\ candidate' = reading
  /\ candidateSince' = IF ~started THEN t ELSE candidateSince
  /\ stable' = IF ~started \/ EdgeOf(reading, t) # "none" THEN reading ELSE stable

Debounce(reading, t) ==
  /\ started' = TRUE
  /\ edge' = EdgeOf(reading, t)
  /\ candidate' = reading
  /\ candidateSince' = IF ~started \/ reading # candidate THEN t ELSE candidateSince
  /\ stable' = IF ~started \/ EdgeOf(reading, t) # "none" THEN reading ELSE stable

-----------------------------------------------------------------------------
(* ButtonGesture::update(): the edge first, then the time.                 *)

(* The fields once the edge e has been taken in at time t. *)
Taken(e, t) ==
  [down    |-> e = "pressed" \/ (pressed /\ e # "released"),
   held    |-> holdReported /\ e # "pressed",
   downAt  |-> IF e = "pressed" THEN t ELSE pressedSince,
   count   |-> IF e = "pressed" /\ clicks < MaxClicks THEN clicks + 1 ELSE clicks,
   openAt  |-> IF e = "pressed" /\ clicks = 0 THEN t ELSE windowSince]

HoldDue(g, t)   == g.down /\ ~g.held /\ Elapsed(g.downAt, t) >= Hold

WindowDue(g, t) == g.count > 0 /\ Elapsed(g.openAt, t) >= Window

(* Mutant of GestureOf: the window is looked at before the hold. *)
GestureOfWindowFirst(g, t) ==
  IF WindowDue(g, t) THEN [kind |-> "clicks", clicks |-> g.count]
  ELSE IF HoldDue(g, t) THEN [kind |-> "hold", clicks |-> 0]
  ELSE NoGesture

(* A hold takes precedence and discards the count. *)
GestureOf(g, t) ==
  IF HoldDue(g, t) THEN [kind |-> "hold", clicks |-> 0]
  ELSE IF WindowDue(g, t) THEN [kind |-> "clicks", clicks |-> g.count]
  ELSE NoGesture

Recognise(g, t) ==
  /\ gesture' = GestureOf(g, t)
  /\ pressed' = g.down
  /\ holdReported' = (g.held \/ gesture'.kind = "hold")
  /\ pressedSince' = g.downAt
  /\ clicks' = IF gesture'.kind = "none" THEN g.count ELSE 0
  /\ windowSince' = g.openAt

-----------------------------------------------------------------------------
(* What really happened meanwhile; an age counts up to the poll that acts *)
(* on it.                                                                 *)
Observe(reading, g, gap) ==
  /\ readAge' = IF started /\ reading = candidate /\ reading # stable
                  THEN readAge + gap ELSE 0
  /\ pressAge' = IF g.down /\ ~g.held /\ edge' # "pressed" THEN pressAge + gap ELSE 0
  /\ windowAge' = IF g.count > 0 /\ clicks > 0 THEN windowAge + gap ELSE 0
  /\ startHeld' = IF started THEN startHeld /\ edge' # "released" ELSE reading
  /\ sole' = IF edge' = "pressed" THEN clicks = 0 ELSE sole
  /\ LET before == IF edge' = "pressed" THEN 0 ELSE reports
     IN reports' = IF gesture'.kind = "none" THEN before ELSE before + 1

(* input::poll(): the contact may read anything, at any time. *)
Poll(reading, gap) ==
  /\ now' = Advance(now, gap)
  /\ Debounce(reading, now')
  /\ LET g == Taken(edge', now')
     IN Recognise(g, now') /\ Observe(reading, g, gap)

Next == \E reading \in BOOLEAN, gap \in 1 .. MaxGap : Poll(reading, gap)

Spec == Init /\ [][Next]_vars

-----------------------------------------------------------------------------
(* Bounce is no edge, a hold is a hold and a window stays open for what it *)
(* is said to, in true time: each is reported at the first poll after its  *)
(* time, neither earlier nor later, wherever the clock wraps and however   *)
(* late the polls come (button.cpp:6-10, button_gesture.hpp:19-23).        *)
OnTime ==
  /\ edge # "none" => readAge \in Stable .. Stable + MaxGap - 1
  /\ gesture.kind = "hold" => pressAge \in Hold .. Hold + MaxGap - 1
  /\ gesture.kind = "clicks" => windowAge \in Window .. Window + MaxGap - 1

(* No press is lost: it is reported, or waits in the count for its window  *)
(* to close.  A press alone in its window is reported once, as a click or  *)
(* as a hold but not as both, and a hold not twice, however long the       *)
(* button stays down (button_gesture.hpp:25-31).                           *)
ReportedOnce ==
  /\ reports = 0 <=> clicks > 0
  /\ sole => reports <= 1

(* A button held at power-on was not just pressed: it means nothing until  *)
(* it has been released (button.hpp:36-37).                                *)
HeldAtStartIsSilent == startHeld => gesture = NoGesture

-----------------------------------------------------------------------------
(* The inductive invariant: the clock readings the code keeps say the true *)
(* age of what they stand for, and no age has reached its threshold.       *)
ReadingTimed ==
  candidate # stable =>
    started /\ readAge = Elapsed(candidateSince, now) /\ readAge < Stable

PressTimed ==
  pressed /\ ~holdReported =>
    pressAge = Elapsed(pressedSince, now) /\ pressAge < Hold /\ reports <= 1

WindowTimed ==
  clicks > 0 => windowAge = Elapsed(windowSince, now) /\ windowAge < Window

(* A press alone in its window is as old as the window. *)
SoleTimed ==
  sole /\ pressed /\ ~holdReported => clicks > 0 /\ windowSince = pressedSince

(* Until the first release there has been no press. *)
StartIsQuiet ==
  /\ ~started => ~pressed /\ clicks = 0
  /\ startHeld => started /\ stable /\ ~pressed /\ clicks = 0

Inv ==
  /\ TypeOK /\ ReadingTimed /\ PressTimed /\ WindowTimed /\ SoleTimed
  /\ StartIsQuiet /\ OnTime /\ ReportedOnce /\ HeldAtStartIsSilent
=============================================================================
