---------------------------- MODULE CancelReason ----------------------------
(***************************************************************************)
(* The reasons a conversation is cancelled for, and what each operation of *)
(* the CancellationSource makes of the reason it finds.                    *)
(***************************************************************************)
EXTENDS Naturals

(* CancelReason, ordered by gravity. *)
None          == 0
Timeout       == 1
Requested     == 2
Shutdown      == 3
EmergencyStop == 4

Reason == None .. EmergencyStop

(***************************************************************************)
(* The effect of each call, as a function of the reason it finds.          *)
(***************************************************************************)
Graver(a, b) == IF a > b THEN a ELSE b

Survives(r) == r \in {None, Shutdown, EmergencyStop}

Effect(op, arg, found) ==
  CASE op = "cancel"          -> Graver(arg, found)
    [] op = "reset"           -> IF Survives(found) THEN found ELSE None
    [] op = "clear_emergency" -> IF found = EmergencyStop THEN None ELSE found
    [] OTHER                  -> found
=============================================================================
