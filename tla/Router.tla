------------------------------- MODULE Router -------------------------------
(***************************************************************************)
(* What a request to the device API comes to once its body is there, the   *)
(* Handle that Request asks for: the router authorises it, reads it, and   *)
(* runs at most one command; or, on the setup page, credentials are saved. *)
(* Bodies are token sequences (JsonText).                                  *)
(***************************************************************************)
EXTENDS JsonText, Request
LOCAL INSTANCE SequencesExt

CONSTANTS
  Known,        \* the commands registered,
  Available,    \*   those usable on this unit,
  Argument      \*   and the parameter their handler reads

ASSUME CommandsAssumption == Available \subseteq Known

(***************************************************************************)
(* A request names its path, whether it carries the token, whether it      *)
(* arrived at the open access point's address, the members of its object,  *)
(* and what is wrong with the text: nothing, a token after it, or its last *)
(* token left out.  A member is [name, value, legal].                      *)
(***************************************************************************)
MemberText(m) == <<m.name, ":">> \o m.value

ObjectText(members) ==
  <<"{">> \o FlattenSeq([i \in DOMAIN members |->
                (IF i > 1 THEN <<",">> ELSE <<>>) \o MemberText(members[i])]) \o <<"}">>

RequestText(r) ==
  CASE r.damage = "none"  -> ObjectText(r.members)
    [] r.damage = "tail"  -> Append(ObjectText(r.members), "}")
    [] r.damage = "cut"   -> Front(ObjectText(r.members))
    [] r.damage = "empty" -> <<>>

\* json_find_raw_string and json_unescape: a string without a unicode escape.
ReadString(text, key) == FindToken(text, key, PlainStrings \cup LooseStrings)

(***************************************************************************)
(* RequestRouter::route, and what it may come to: the reply, and what ran. *)
(***************************************************************************)
\* The handler reads its parameter; its answer, or the envelope around it, may
\* not fit the buffers.
RunCommand(name, argument, id) ==
  IF name \notin Known THEN {Outcome(Error("unknown_command", id), <<>>)}
  ELSE IF name \notin Available THEN {Outcome(Error("unsupported", id), <<>>)}
  ELSE {Outcome(answer, <<[command |-> name, argument |-> argument]>>)
          : answer \in {[ok |-> TRUE, code |-> "none", id |-> id],
                        Error("busy", id), Error("internal", id)}}

Route(authorised, body) ==
  LET id      == ReadString(body, "id")
      name    == ReadString(body, "name")
      payload == FindObjectChecked(body, "payload")
      span    == SubSeq(body, payload.first, payload.last)
  IN IF ~ authorised \/ Len(body) \notin 1 .. MaxBody \/ TokenAt(body, 1) # "{"
     THEN {Outcome(Error("bad_request", "none"), <<>>)}
     ELSE IF name = "none" \/ payload.is = "invalid"
     THEN {Outcome(Error("bad_request", id), <<>>)}
     ELSE RunCommand(name, IF payload.is = "found" THEN ReadString(span, Argument) ELSE "none", id)

(***************************************************************************)
(* The setup page's /save, without a check of the whole body.              *)
(***************************************************************************)
Save(body) ==
  LET ssid == ReadString(body, "ssid")
      pass == FindToken(body, "pass", Strings)
      saved == <<[command |-> "save", argument |-> <<ssid, pass>>]>>
  IN IF ssid = "none" \/ pass \in EscapedStrings
     THEN {Outcome(Error("bad_request", "none"), <<>>)}
     ELSE {Outcome([NoReply EXCEPT !.ok = TRUE], saved),
           Outcome(Error("could not store", "none"), saved)}

Handle(r, body) == IF r.path = "command" THEN Route(r.authorised, body) ELSE Save(body)

-----------------------------------------------------------------------------
Valued(r, name) == {m \in ToSet(r.members) : m.name = name}

\* One legal object: no name twice, every value legal.
IsLegal(r) ==
  /\ r.damage = "none"
  /\ \A m \in ToSet(r.members) : m.legal
  /\ \A i, j \in DOMAIN r.members : r.members[i].name = r.members[j].name => i = j

\* A command runs only for a request that carries the token, arrived whole and
\* is one legal object; it is the command that request names, with the
\* parameter that request gives, whatever the buffer held before.  Credentials
\* are saved only for a request at the open access point, and are that
\* request's.  A reply names that request or none.
OnlyWhatWasSent ==
  LET whole == got = Len(Body(request))
      Sent(name, value) == \E m \in ToSet(request.members) : m.name = name /\ m.value = value
  IN stage = "answered" =>
     /\ Len(ran) <= 1
     /\ request.path = "command" => \A i \in DOMAIN ran :
          /\ request.authorised /\ whole /\ IsLegal(request)
          /\ ran[i].command \in Available /\ Sent("name", <<ran[i].command>>)
          /\ \/ Valued(request, "payload") = {} /\ ran[i].argument = "none"
             \/ Sent("payload", <<"{", "}">>) /\ ran[i].argument = "none"
             \/ Sent("payload", <<"{", Argument, ":", ran[i].argument, "}">>)
     /\ request.path = "save" => \A i \in DOMAIN ran :
          /\ request.atAccessPoint /\ whole
          /\ Sent("ssid", <<ran[i].argument[1]>>)
          /\ ran[i].argument[2] # "none" => Sent("pass", <<ran[i].argument[2]>>)
     /\ reply.ok => ran # <<>>
     /\ reply.id # "none" => Sent("id", <<reply.id>>)
=============================================================================
