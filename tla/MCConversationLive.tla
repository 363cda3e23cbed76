-------------------------- MODULE MCConversationLive --------------------------
(* Model checking that a turn ends, whoever started and cancelled it.       *)
EXTENDS ConversationTask

CONSTANTS http, main, hello

MCServer == {http}
MCButton == {main}
MCWords  == {NoWords, hello}
===============================================================================
