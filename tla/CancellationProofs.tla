------------------------- MODULE CancellationProofs -------------------------
(***************************************************************************)
(* Proofs about CancellationSource for every set of callers: its type      *)
(* invariant, that only clear_emergency releases an emergency stop, and    *)
(* that its operations are atomic (it implements CancelCell).              *)
(***************************************************************************)
EXTENDS Cancellation, TLAPS

(* What the calls are. *)
LEMMA CallFacts ==
  /\ \A k \in Abs!Calls : /\ k.op \in {"cancel", "reset", "clear_emergency"}
                          /\ k.arg \in Abs!Reason
                          /\ k # Abs!NoCall
                          /\ k.op = "cancel" => k.arg # Abs!None
  /\ Abs!NoCall.op = "none"
BY DEF Abs!Calls, Abs!CancelCalls, Abs!NoCall, Abs!Reason, Abs!None,
       Abs!EmergencyStop, Abs!Requested, Abs!Shutdown, Abs!Timeout

LEMMA ReasonFacts ==
  /\ Abs!Reason = {0, 1, 2, 3, 4}
  /\ Abs!None = 0 /\ Abs!Shutdown = 3 /\ Abs!EmergencyStop = 4
BY DEF Abs!Reason, Abs!None, Abs!EmergencyStop, Abs!Shutdown

(* A value installed by a compare-exchange is a reason. *)
LEMMA DesiredIsReason ==
  ASSUME NEW k \in Abs!Calls PROVE Desired(k) \in Abs!Reason
BY CallFacts, ReasonFacts DEF Desired

-----------------------------------------------------------------------------
LEMMA InitInv == Init => Inv
BY CallFacts, ReasonFacts DEF Init, Inv, TypeOK, CasJustified, CallRecorded

LEMMA NextInv == Inv /\ [Next]_vars => Inv'
<1> SUFFICES ASSUME Inv, [Next]_vars PROVE Inv'
  OBVIOUS
<1> USE DEF Inv, TypeOK, CasJustified, CallRecorded
<1>0. ASSUME UNCHANGED vars PROVE Inv'
  BY <1>0 DEF vars, Loops, Abs!Survives
<1>1. ASSUME NEW c \in Caller, Invoke(c) PROVE Inv'
  BY <1>1, CallFacts DEF Invoke
<1>2. ASSUME NEW c \in Caller, Load(c) PROVE Inv'
  <2>1. call[c] \in Abs!Calls
    BY <1>2 DEF Load
  <2>2. call[c].op \in {"cancel", "reset"}
    BY <1>2, <2>1, CallFacts DEF Load
  <2>3. QED
    BY <1>2, <2>1, <2>2 DEF Load, Continue
<1>3. ASSUME NEW c \in Caller, CompareExchangeStrong(c) PROVE Inv'
  BY <1>3, ReasonFacts DEF CompareExchangeStrong
<1>4. ASSUME NEW c \in Caller, CompareExchangeSucceeds(c) PROVE Inv'
  <2>1. call[c] \in Abs!Calls
    BY <1>4 DEF CompareExchangeSucceeds
  <2>2. Desired(call[c]) \in Abs!Reason
    BY <2>1, DesiredIsReason
  <2>3. QED
    BY <1>4, <2>2 DEF CompareExchangeSucceeds
<1>5. ASSUME NEW c \in Caller, CompareExchangeFails(c) PROVE Inv'
  BY <1>5 DEF CompareExchangeFails, Continue
<1>6. ASSUME NEW c \in Caller, Return(c) PROVE Inv'
  BY <1>6, ReasonFacts DEF Return
<1>7. QED
  BY <1>0, <1>1, <1>2, <1>3, <1>4, <1>5, <1>6 DEF Next, Step

(* Type correctness, and that a caller reaches its compare-exchange only   *)
(* with a value that justifies it (the loop conditions of cancel and       *)
(* reset, cancellation.cpp:29 and :43).                                    *)
THEOREM Invariance == Spec => []Inv
BY InitInv, NextInv, PTL DEF Spec

-----------------------------------------------------------------------------
(* A compare-exchange that succeeds never replaces an emergency stop: no   *)
(* cancel outweighs it and no reset clears it.                             *)
LEMMA ExchangeSparesEmergency ==
  ASSUME Inv, NEW c \in Caller, CompareExchangeSucceeds(c)
  PROVE  reason # Abs!EmergencyStop
<1>1. call[c] \in Abs!Calls /\ Loops(call[c], reason)
  BY DEF Inv, TypeOK, CasJustified, CallRecorded, CompareExchangeSucceeds
<1>2. call[c].op \in {"cancel", "reset"}
  BY DEF Inv, CasJustified, CompareExchangeSucceeds
<1>3. QED
  BY <1>1, <1>2, CallFacts, ReasonFacts DEF Loops, Abs!Survives

(* An engaged emergency stop leaves the source only through a caller that  *)
(* is inside clear_emergency, whatever resets and cancels race with it     *)
(* (cancellation.cpp:38-42).                                               *)
THEOREM EmergencyHolds == Spec => EmergencyReleasedOnlyByClear
<1> DEFINE Released ==
      (reason = Abs!EmergencyStop /\ reason' # Abs!EmergencyStop)
        => \E c \in Caller : pc[c] = "load" /\ call[c].op = "clear_emergency"
<1>1. Inv /\ [Next]_vars => [Released]_vars
  <2> SUFFICES ASSUME Inv, Next, reason = Abs!EmergencyStop, reason' # Abs!EmergencyStop
               PROVE  \E c \in Caller : pc[c] = "load" /\ call[c].op = "clear_emergency"
    OBVIOUS
  <2>1. PICK c \in Caller : Step(c)
    BY DEF Next
  <2>2. ~CompareExchangeSucceeds(c)
    BY ExchangeSparesEmergency
  <2>3. CompareExchangeStrong(c)
    BY <2>1, <2>2 DEF Step, Invoke, Load, CompareExchangeFails, Return
  <2>4. QED
    BY <2>3 DEF CompareExchangeStrong
<1>2. QED
  BY <1>1, Invariance, PTL DEF Spec, EmergencyReleasedOnlyByClear

(* No reset releases a shutdown and no lighter reason replaces it          *)
(* (cancellation.cpp:39).                                                  *)
THEOREM ShutdownHolds == Spec => ShutdownOutlivesReset
<1> DEFINE Kept == reason = Abs!Shutdown => reason' \in {Abs!Shutdown, Abs!EmergencyStop}
<1>1. Inv /\ [Next]_vars => [Kept]_vars
  <2> SUFFICES ASSUME Inv, Next, reason = Abs!Shutdown
               PROVE  reason' \in {Abs!Shutdown, Abs!EmergencyStop}
    OBVIOUS
  <2>1. PICK c \in Caller : Step(c)
    BY DEF Next
  <2>2. CASE CompareExchangeSucceeds(c)
    <3>1. call[c] \in Abs!Calls /\ Loops(call[c], reason)
      BY <2>2 DEF Inv, TypeOK, CasJustified, CallRecorded, CompareExchangeSucceeds
    <3>2. call[c].op = "cancel" /\ call[c].arg > reason /\ reason' = call[c].arg
      BY <2>2, <3>1, ReasonFacts
      DEF Inv, CasJustified, CompareExchangeSucceeds, Loops, Abs!Survives, Desired
    <3>3. QED
      BY <3>1, <3>2, CallFacts, ReasonFacts
  <2>3. CASE CompareExchangeStrong(c)
    BY <2>3, ReasonFacts DEF CompareExchangeStrong
  <2>4. QED
    BY <2>1, <2>2, <2>3 DEF Step, Invoke, Load, CompareExchangeFails, Return
<1>2. QED
  BY <1>1, Invariance, PTL DEF Spec, ShutdownOutlivesReset

-----------------------------------------------------------------------------
(* The status the refinement maps a caller's program counter to. *)
StatusOf(p) == CASE p = "idle"            -> "out"
                 [] p \in {"load", "cas"} -> "called"
                 [] OTHER                 -> "done"

(* A value that ends the loop is one the call leaves as it is, and the     *)
(* value a compare-exchange installs is the call's effect on what it       *)
(* replaces.                                                               *)
LEMMA EffectOfLoop ==
  ASSUME NEW k \in Abs!Calls, k.op \in {"cancel", "reset"}, NEW found \in Abs!Reason
  PROVE  /\ ~Loops(k, found) => Abs!Effect(k.op, k.arg, found) = found
         /\ Loops(k, found)  => Abs!Effect(k.op, k.arg, found) = Desired(k)
<1>1. k.arg \in Abs!Reason
  BY CallFacts
<1>2. CASE k.op = "cancel"
  <2>1. Abs!Effect(k.op, k.arg, found) = Abs!Graver(k.arg, found)
    BY <1>2 DEF Abs!Effect
  <2>2. Loops(k, found) <=> k.arg > found
    BY <1>2 DEF Loops
  <2>3. Desired(k) = k.arg
    BY <1>2 DEF Desired
  <2>4. QED
    BY <1>1, <2>1, <2>2, <2>3 DEF Abs!Graver
<1>3. CASE k.op = "reset"
  BY <1>3 DEF Abs!Effect, Loops, Desired
<1>4. QED
  BY <1>2, <1>3

(* Every call takes effect at one instant between its call and its return: *)
(* the source is one atomic cell (cancellation.cpp:20-59).                 *)
THEOREM Atomicity == Spec => Implements
<1>1. Init => Abs!Init
  BY DEF Init, Abs!Init
<1>2. Inv /\ [Next]_vars => [Abs!Next]_(Abs!cellVars)
  <2> SUFFICES ASSUME Inv, [Next]_vars PROVE [Abs!Next]_(Abs!cellVars)
    OBVIOUS
  <2> USE DEF Inv, TypeOK
  <2>0. CASE UNCHANGED vars
    BY <2>0 DEF vars, Abs!cellVars
  <2>1. ASSUME NEW c \in Caller, Invoke(c) PROVE Abs!Invoke(c)
    BY <2>1 DEF Invoke, Abs!Invoke
  <2>2. ASSUME NEW c \in Caller, Load(c) PROVE Abs!TakeEffect(c) \/ UNCHANGED Abs!cellVars
    <3>1. call[c] \in Abs!Calls /\ call[c].op \in {"cancel", "reset"}
      BY <2>2, CallFacts DEF Load, CallRecorded
    <3>2. CASE Loops(call[c], reason)
      BY <2>2, <3>2 DEF Load, Continue, Abs!cellVars
    <3>3. CASE ~Loops(call[c], reason)
      BY <2>2, <3>1, <3>3, EffectOfLoop DEF Load, Continue, Abs!TakeEffect
    <3>4. QED
      BY <3>2, <3>3
  <2>3. ASSUME NEW c \in Caller, CompareExchangeStrong(c) PROVE Abs!TakeEffect(c)
    BY <2>3 DEF CompareExchangeStrong, Abs!TakeEffect, Abs!Effect
  <2>4. ASSUME NEW c \in Caller, CompareExchangeSucceeds(c) PROVE Abs!TakeEffect(c)
    <3>1. /\ call[c] \in Abs!Calls
          /\ call[c].op \in {"cancel", "reset"}
          /\ Loops(call[c], reason)
      BY <2>4 DEF CompareExchangeSucceeds, CallRecorded, CasJustified
    <3>2. Abs!Effect(call[c].op, call[c].arg, reason) = reason'
      BY <2>4, <3>1, EffectOfLoop DEF CompareExchangeSucceeds
    <3>3. QED
      BY <2>4, <3>2 DEF CompareExchangeSucceeds, Abs!TakeEffect
  <2>5. ASSUME NEW c \in Caller, CompareExchangeFails(c)
        PROVE Abs!TakeEffect(c) \/ UNCHANGED Abs!cellVars
    <3>1. call[c] \in Abs!Calls /\ call[c].op \in {"cancel", "reset"}
      BY <2>5 DEF CompareExchangeFails, CallRecorded, CasJustified
    <3>2. CASE Loops(call[c], reason)
      BY <2>5, <3>2 DEF CompareExchangeFails, Continue, Abs!cellVars
    <3>3. CASE ~Loops(call[c], reason)
      BY <2>5, <3>1, <3>3, EffectOfLoop DEF CompareExchangeFails, Continue, Abs!TakeEffect
    <3>4. QED
      BY <3>2, <3>3
  <2>6. ASSUME NEW c \in Caller, Return(c) PROVE Abs!Return(c)
    BY <2>6 DEF Return, Abs!Return
  <2>7. QED
    BY <2>0, <2>1, <2>2, <2>3, <2>4, <2>5, <2>6 DEF Next, Step, Abs!Next
<1>3. QED
  BY <1>1, <1>2, Invariance, PTL DEF Spec, Abs!Spec, Implements
=============================================================================
