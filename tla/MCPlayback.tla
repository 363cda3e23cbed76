------------------------------ MODULE MCPlayback ------------------------------
(* Model checking the way of a reply to the speaker. *)
EXTENDS Playback

CONSTANTS neutral, happy, sad

MCExpression == {neutral, happy}
MCThree == {neutral, happy, sad}

(* Gateways that end each text with a terminator, or also do not, or send  *)
(* texts that cannot be used.                                              *)
MCClosed == {"closed"}
MCAny    == {"closed", "open", "bad"}

MCRate     == {"16000"}
MCAnyRate  == {"16000", "other"}
===============================================================================
