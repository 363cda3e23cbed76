---------------------------- MODULE Cancellation ----------------------------
(***************************************************************************)
(* runtime::CancellationSource at the grain of its atomic operations: the  *)
(* load that opens a call and each compare-exchange after it.  A weak      *)
(* compare-exchange may fail although the value matches.  The source is    *)
(* shared by the conversation task, the main loop, the HTTP server task    *)
(* and, by its contract, interrupts.                                       *)
(***************************************************************************)
EXTENDS Naturals

CONSTANT Caller

VARIABLES
  reason,   \* reason_, the atomic every token reads
  pc,       \* pc[c]: where c is in its call
  call,     \* call[c]: the operation and its argument
  current   \* current[c]: c's local copy of reason_ (`expected` in clear_emergency)

vars == <<reason, pc, call, current>>

Abs == INSTANCE CancelCell WITH
         cell   <- reason,
         status <- [c \in Caller |->
                      CASE pc[c] = "idle"            -> "out"
                        [] pc[c] \in {"load", "cas"} -> "called"
                        [] OTHER                     -> "done"]

TypeOK ==
  /\ reason \in Abs!Reason
  /\ pc \in [Caller -> {"idle", "load", "cas", "return"}]
  /\ call \in [Caller -> Abs!Calls \cup {Abs!NoCall}]
  /\ current \in [Caller -> Abs!Reason]

-----------------------------------------------------------------------------
(* Mutant of Loops: `!=` for `>`, any different reason replaces the old one. *)
LastReasonWins(k, found) ==
  CASE k.op = "cancel" -> k.arg # found
    [] k.op = "reset"  -> ~Abs!Survives(found)
    [] OTHER           -> found = Abs!EmergencyStop

(* The condition under which a call goes on to its compare-exchange, given *)
(* the value it last loaded.                                               *)
Loops(k, found) ==
  CASE k.op = "cancel" -> k.arg > found
    [] k.op = "reset"  -> ~Abs!Survives(found)
    [] OTHER           -> found = Abs!EmergencyStop

(* The value the compare-exchange installs. *)
Desired(k) == IF k.op = "cancel" THEN k.arg ELSE Abs!None

Init ==
  /\ reason = Abs!None
  /\ pc = [c \in Caller |-> "idle"]
  /\ call = [c \in Caller |-> Abs!NoCall]
  /\ current = [c \in Caller |-> Abs!None]

(* cancel(none) returns at once; the other calls start here. *)
Invoke(c) ==
  /\ pc[c] = "idle"
  /\ \E k \in Abs!Calls : call' = [call EXCEPT ![c] = k]
  /\ pc' = [pc EXCEPT ![c] = "load"]
  /\ UNCHANGED <<reason, current>>

Continue(c, found) ==
  /\ current' = [current EXCEPT ![c] = found]
  /\ pc' = [pc EXCEPT ![c] = IF Loops(call[c], found) THEN "cas" ELSE "return"]

(* reason_.load; clear_emergency has no load: its strong compare-exchange *)
(* is the whole call.                                                     *)
Load(c) ==
  /\ pc[c] = "load"
  /\ call[c].op # "clear_emergency"
  /\ Continue(c, reason)
  /\ UNCHANGED <<reason, call>>

CompareExchangeStrong(c) ==
  /\ pc[c] = "load"
  /\ call[c].op = "clear_emergency"
  /\ reason' = IF reason = Abs!EmergencyStop THEN Abs!None ELSE reason
  /\ current' = [current EXCEPT ![c] = reason]
  /\ pc' = [pc EXCEPT ![c] = "return"]
  /\ UNCHANGED call

(* Mutant of CompareExchangeSucceeds: a plain store. *)
StoreInsteadOfExchange(c) ==
  /\ pc[c] = "cas"
  /\ reason' = Desired(call[c])
  /\ pc' = [pc EXCEPT ![c] = "return"]
  /\ UNCHANGED <<call, current>>

CompareExchangeSucceeds(c) ==
  /\ pc[c] = "cas"
  /\ reason = current[c]
  /\ reason' = Desired(call[c])
  /\ pc' = [pc EXCEPT ![c] = "return"]
  /\ UNCHANGED <<call, current>>

(* Fails because another caller got in between, or spuriously; either way *)
(* current receives the latest value and the gravity is compared again.   *)
CompareExchangeFails(c) ==
  /\ pc[c] = "cas"
  /\ Continue(c, reason)
  /\ UNCHANGED <<reason, call>>

Return(c) ==
  /\ pc[c] = "return"
  /\ pc' = [pc EXCEPT ![c] = "idle"]
  /\ call' = [call EXCEPT ![c] = Abs!NoCall]
  /\ current' = [current EXCEPT ![c] = Abs!None]
  /\ UNCHANGED reason

Step(c) ==
  \/ Invoke(c)
  \/ Load(c)
  \/ CompareExchangeStrong(c)
  \/ CompareExchangeSucceeds(c)
  \/ CompareExchangeFails(c)
  \/ Return(c)

Next == \E c \in Caller : Step(c)

Spec == Init /\ [][Next]_vars

-----------------------------------------------------------------------------
(* A caller about to compare-exchange holds a value that justified it:     *)
(* cancel still outweighs it, reset still may clear it.                    *)
CasJustified ==
  \A c \in Caller : pc[c] = "cas" =>
     /\ call[c].op \in {"cancel", "reset"}
     /\ Loops(call[c], current[c])

(* Only a caller outside a call has no call recorded. *)
CallRecorded ==
  \A c \in Caller : (pc[c] = "idle") <=> (call[c] = Abs!NoCall)

Inv == TypeOK /\ CasJustified /\ CallRecorded

(* An engaged emergency stop leaves the source only through a task that is *)
(* inside clear_emergency, never through a reset or a lighter cancel that  *)
(* raced with it ("the reset at the end of each conversation would         *)
(* silently release them", cancellation.cpp:38-42).                        *)
EmergencyReleasedOnlyByClear ==
  [][ (reason = Abs!EmergencyStop /\ reason' # Abs!EmergencyStop)
        => \E c \in Caller : pc[c] = "load" /\ call[c].op = "clear_emergency" ]_vars

(* While no emergency stop interferes, a shutdown stays: no reset releases *)
(* it and no lighter reason replaces it.                                   *)
ShutdownOutlivesReset ==
  [][ reason = Abs!Shutdown => reason' \in {Abs!Shutdown, Abs!EmergencyStop} ]_vars

(* Each call takes effect atomically between its call and its return. *)
Implements == Abs!Spec
=============================================================================
