------------------------------ MODULE MCNetwork ------------------------------
(* Model checking the way a device is reached, with two networks. *)
EXTENDS Network

CONSTANTS home, typo

MCCred == {home, typo}
=============================================================================
