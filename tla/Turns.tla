-------------------------------- MODULE Turns --------------------------------
(***************************************************************************)
(* What a conversation promises its callers.  A start that is accepted,    *)
(* and only while no turn is under way, is one turn: it is handed over     *)
(* once, worked on with exactly the words it was accepted with, and ended  *)
(* before the next start is accepted.  The phase the device shows runs     *)
(*                                                                         *)
(*     idle -> listening -> thinking -> speaking -> idle                   *)
(*                                                                         *)
(* in that order, and a turn may leave it for idle from any phase, but not *)
(* before it has ended.  ConversationTask implements this specification.   *)
(***************************************************************************)
CONSTANTS
  Caller,  \* who may start a conversation
  Words,   \* what a start may ask to have spoken
  NoWords  \* nothing to speak: record instead

VARIABLES
  stage,  \* how far the turn is
  owner,  \* the caller that holds an accepted turn it has not handed over
  words,  \* the words of the last start that was accepted
  said,   \* the words the turn at work uses
  phase   \* the phase the device shows

turnVars == <<stage, owner, words, said, phase>>

Init ==
  /\ stage = "free"
  /\ owner = {}
  /\ words = NoWords
  /\ said = NoWords
  /\ phase = "idle"

(* A start is accepted: the turn is c's. *)
Accept(c) ==
  /\ stage = "free"
  /\ stage' = "accepted"
  /\ owner' = {c}
  /\ words' \in Words
  /\ phase' = "listening"
  /\ UNCHANGED said

(* It is handed over, by the caller that holds it, ... *)
HandOver(c) ==
  /\ stage = "accepted"
  /\ owner = {c}
  /\ stage' = "posted"
  /\ owner' = {}
  /\ UNCHANGED <<words, said, phase>>

(* ... taken up, ... *)
TakeUp ==
  /\ stage = "posted"
  /\ stage' = "taken"
  /\ UNCHANGED <<owner, words, said, phase>>

(* ... and worked on, with the words it was accepted with. *)
Begin ==
  /\ stage = "taken"
  /\ stage' = "working"
  /\ said' = words
  /\ UNCHANGED <<owner, words, phase>>

(* The request goes out once; only then is there something to speak. *)
Think ==
  /\ stage = "working"
  /\ phase = "listening"
  /\ phase' = "thinking"
  /\ UNCHANGED <<stage, owner, words, said>>

Talk ==
  /\ stage = "working"
  /\ phase = "thinking"
  /\ phase' = "speaking"
  /\ UNCHANGED <<stage, owner, words, said>>

(* The turn ends, well or not, and its words are forgotten; then the next  *)
(* start may be accepted.                                                  *)
End ==
  /\ stage = "working"
  /\ stage' = "ended"
  /\ said' = NoWords
  /\ UNCHANGED <<owner, words, phase>>

Release ==
  /\ stage = "ended"
  /\ stage' = "free"
  /\ phase' = "idle"
  /\ UNCHANGED <<owner, words, said>>

Next ==
  \/ \E c \in Caller : Accept(c) \/ HandOver(c)
  \/ TakeUp \/ Begin \/ Think \/ Talk \/ End \/ Release

Spec == Init /\ [][Next]_turnVars
=============================================================================
