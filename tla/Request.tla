------------------------------- MODULE Request -------------------------------
(***************************************************************************)
(* A request on the server's one task: its body arrives in chunks, or      *)
(* stops short, or the connection fails; whole, it is interpreted and      *)
(* answered.  The command's body is received into a static buffer, which   *)
(* still holds the request before it.                                      *)
(***************************************************************************)
EXTENDS Integers, Sequences

CONSTANTS
  Requests,         \* bound: the requests clients may send
  Token,            \* what a body is made of,
  Body(_),          \*   the body of a request,
  Interpret(_, _),  \*   and what a request with this body may come to
  MaxBody,          \* kMaxBodyBytes, and the setup page's limit
  MaxServed         \* bound: requests served

ASSUME BodiesAreTexts == \A r \in Requests : Body(r) \in Seq(Token)
ASSUME MaxBodyAssumption == MaxBody \in Nat

VARIABLES
  request,      \* the one being served
  stage,        \* "receiving", "answered", "dropped" (no answer)
  buffer,       \* the static buffer of command_route
  page,         \* the buffer on the stack of /save
  got,          \* tokens received
  reply,        \* [ok, code, id]
  ran,          \* what the request did: commands run, credentials saved
  served

requestVars == <<request, stage, buffer, page, got, reply, ran, served>>

NoReply == [ok |-> FALSE, code |-> "none", id |-> "none"]
Error(code, id) == [ok |-> FALSE, code |-> code, id |-> id]

Outcome(answer, commands) == [reply |-> answer, ran |-> commands]

Answer(outcome) ==
  /\ reply' = outcome.reply
  /\ ran' = outcome.ran
  /\ stage' = "answered"

-----------------------------------------------------------------------------
RequestStart ==
  /\ stage = "dropped" /\ buffer = <<>> /\ page = <<>> /\ got = 0
  /\ reply = NoReply /\ ran = <<>> /\ served = 0

RequestInit == request \in Requests /\ RequestStart

\* The headers: where the request came from, and how long its body is.
Receive(r) ==
  /\ stage # "receiving" /\ served < MaxServed
  /\ request' = r /\ served' = served + 1 /\ got' = 0 /\ page' = <<>>
  /\ IF r.path = "save" /\ ~ r.atAccessPoint
     THEN Answer(Outcome(Error("forbidden", "none"), <<>>))
     ELSE IF Len(Body(r)) \notin 1 .. MaxBody
     THEN Answer(Outcome(Error("bad_request", "none"), <<>>))
     ELSE stage' = "receiving" /\ reply' = NoReply /\ ran' = <<>>
  /\ UNCHANGED buffer

\* Where the body goes.
Held == IF request.path = "command" THEN buffer ELSE page

Overwrite(old, at, chunk) ==
  SubSeq(old, 1, at) \o chunk \o SubSeq(old, at + Len(chunk) + 1, Len(old))

ReceiveChunk(length) ==
  /\ stage = "receiving" /\ got + length <= Len(Body(request))
  /\ LET chunk == SubSeq(Body(request), got + 1, got + length)
     IN IF request.path = "command"
        THEN buffer' = Overwrite(buffer, got, chunk) /\ UNCHANGED page
        ELSE page' = Overwrite(page, got, chunk) /\ UNCHANGED buffer
  /\ got' = got + length
  /\ UNCHANGED <<request, stage, reply, ran, served>>

(* Mutant of StopShort: the buffer is taken for the body. *)
TakeWhatCame ==
  /\ stage = "receiving" /\ got < Len(Body(request)) /\ Len(Body(request)) <= Len(buffer)
  /\ \E outcome \in Interpret(request, SubSeq(buffer, 1, Len(Body(request)))) : Answer(outcome)
  /\ UNCHANGED <<request, buffer, page, got, served>>

\* The connection ends before the body does.
StopShort ==
  /\ stage = "receiving" /\ got < Len(Body(request))
  /\ Answer(Outcome(Error("bad_request", "none"), <<>>))
  /\ UNCHANGED <<request, buffer, page, got, served>>

\* It fails, and nobody is left to answer.
FailTransport ==
  /\ stage = "receiving" /\ got < Len(Body(request))
  /\ stage' = "dropped"
  /\ UNCHANGED <<request, buffer, page, got, reply, ran, served>>

(* Mutant of HandleBody: the buffer to its end is taken for the body. *)
HandleBuffer ==
  /\ stage = "receiving" /\ got = Len(Body(request))
  /\ \E outcome \in Interpret(request, Held) : Answer(outcome)
  /\ UNCHANGED <<request, buffer, page, got, served>>

HandleBody ==
  /\ stage = "receiving" /\ got = Len(Body(request))
  /\ \E outcome \in Interpret(request, SubSeq(Held, 1, got)) : Answer(outcome)
  /\ UNCHANGED <<request, buffer, page, got, served>>

RequestNext ==
  \/ \E r \in Requests : Receive(r)
  \/ \E length \in 1 .. MaxBody : ReceiveChunk(length)
  \/ StopShort \/ FailTransport \/ HandleBody

RequestSpec == RequestInit /\ [][RequestNext]_requestVars

-----------------------------------------------------------------------------
(* What a request comes to is decided by its own body, received to the     *)
(* last token, never by what the buffer held before nor by a part of it;   *)
(* otherwise it is refused and does nothing (command_route.cpp:52-57, "a   *)
(* prefix could change the request's meaning").  The setup page decides    *)
(* nothing for a request that did not come to the open access point.       *)
AnswersItsOwn ==
  /\ stage = "answered" =>
       \/ ~ reply.ok /\ reply.id = "none" /\ ran = <<>>
       \/ /\ got = Len(Body(request))
          /\ request.path = "save" => request.atAccessPoint
          /\ \E outcome \in Interpret(request, Body(request)) :
               reply = outcome.reply /\ ran = outcome.ran
  /\ stage # "answered" => ran = <<>>

(* The inductive invariant: what has been received lies at the front of    *)
(* the buffer it goes into.                                                *)
RequestInv ==
  /\ stage \in {"receiving", "answered", "dropped"}
  /\ request \in Requests /\ buffer \in Seq(Token) /\ page \in Seq(Token) /\ got \in Nat
  /\ stage = "receiving" =>
       /\ got <= Len(Body(request)) /\ got <= Len(Held)
       /\ SubSeq(Held, 1, got) = SubSeq(Body(request), 1, got)
       /\ request.path = "save" => request.atAccessPoint
  /\ AnswersItsOwn
=============================================================================
