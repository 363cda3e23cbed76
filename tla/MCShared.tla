------------------------------ MODULE MCShared ------------------------------
(***************************************************************************)
(* What tasks share below the conversation: the cancellation source, with  *)
(* the three tasks that hold it, and the voice base, with its two.  They   *)
(* share no state; one of them runs in a behaviour and the other stays at  *)
(* rest, where nothing that is owed to it is enabled.                      *)
(***************************************************************************)
EXTENDS Cancellation, VoiceBase

CONSTANTS conv, main, http

VARIABLE part

MCCaller == {conv, main, http}

sharedVars == <<part, vars, voiceVars>>

SharedInit == part \in {"source", "voice"} /\ Init /\ VoiceInit

SharedNext ==
  \/ part = "source" /\ Next      /\ UNCHANGED <<part, voiceVars>>
  \/ part = "voice"  /\ VoiceNext /\ UNCHANGED <<part, vars>>

SharedSpec == SharedInit /\ [][SharedNext]_sharedVars /\ VoiceFairness
=============================================================================
