--------------------------- MODULE MCConversation ---------------------------
(* Model checking one conversation turn after another, with the HTTP       *)
(* server's task and the main loop.                                        *)
EXTENDS ConversationCancel

CONSTANTS http, main, hello

MCServer == {http}
MCButton == {main}
MCWords  == {NoWords, hello}
=============================================================================
