------------------------------- MODULE MCText -------------------------------
(***************************************************************************)
(* What crosses the network, one reader or writer per part: the gateway's  *)
(* stream, a reply's text, a JSON text, requests to the device API, and    *)
(* the documents written.  Only one part runs in a behaviour; the others   *)
(* stay at rest.                                                           *)
(***************************************************************************)
EXTENDS SseMeaning, Speech, JsonScan, Router, JsonOut
LOCAL INSTANCE SequencesExt

VARIABLE part

vars == <<part, sseVars, speechVars, scanVars, requestVars, outVars>>

(* Streams of five pieces: a data line, its name with a space after        *)
(* the colon, a byte of text, a colon and both line ends; and events of    *)
(* two data lines, that fit, that are too long, and of which only a line   *)
(* is, with one more behind them.                                          *)
MCStreams ==
  LET pieces == {<<"d", ":">>, <<"d", ":", " ">>, <<"x">>, <<":">>, <<CR>>, <<LF>>}
      Line(n) == <<"d", ":">> \o [i \in 1 .. n |-> "x"] \o <<LF>>
  IN {FlattenSeq(p) : p \in [1 .. 5 -> pieces]}
       \cup {Line(n) \o Line(k) \o <<LF>> \o Line(1) \o <<LF>> : n, k \in 0 .. 5}

(* Texts of four pieces: letters, brackets, a known marker and an unknown  *)
(* one, the ends of sentences, and a three-byte character.                 *)
MCTexts ==
  LET pieces == {<<"h">>, <<"[">>, <<"]">>, <<"[", "h", "]">>, <<"[", "z", "]">>, <<".">>,
                 <<"!">>, <<" ">>, LongStop, <<"L", "1", "2">>}
  IN {FlattenSeq(p) : p \in [1 .. 4 -> pieces]}

(* Legal objects, and every text one token away from one.                  *)
MCNested == {<<"{", name, ":">> \o o \o <<"}">> : name \in SampleNames, o \in Objects(9, 1)}
MCLegal  == Objects(10, MaxDepth) \cup MCNested
MCTokens == Opening \cup Closing \cup {",", ":", "0"} \cup SampleScalars
MCEdits(s) == {RemoveAt(s, i) : i \in DOMAIN s}
                \cup {ReplaceAt(s, i, t) : i \in DOMAIN s, t \in MCTokens}
                \cup {Append(s, t) : t \in MCTokens}
MCDocuments == Objects(10, MaxDepth + 1) \cup MCLegal
                 \cup UNION {MCEdits(s) : s \in Objects(9, MaxDepth) \cup MCNested}

MCBodyTokens == Opening \cup Closing \cup {",", ":"} \cup Scalars

(* Requests: a name with a payload, an id, a token, a whole text - and, one *)
(* at a time, each of them missing, given twice or unusable; and the setup *)
(* page's.                                                                 *)
MCMember(name, value, legal) == <<[name |-> name, value |-> value, legal |-> legal]>>
MCId    == MCMember("id", <<"i">>, TRUE)
MCName  == MCMember("name", <<"go">>, TRUE)
MCNames == {MCMember("name", <<n>>, TRUE) : n \in {"off", "i", "u"}}
             \cup {<<>>, MCName \o MCMember("name", <<"off">>, TRUE)}
MCPayloads ==
  {<<>>, MCMember("payload", <<"{", "}">>, TRUE), MCMember("payload", <<"i">>, TRUE),
   MCMember("payload", <<"{", "a", ":", "i", "}">>, TRUE),
   MCMember("payload", <<"{", "a", ":", "i", ",", "a", ":", "go", "}">>, FALSE)}
MCCommand(members, damage, authorised) ==
  [path |-> "command", members |-> members, damage |-> damage,
   authorised |-> authorised, atAccessPoint |-> TRUE]
MCPage(members, damage, atAccessPoint) ==
  [path |-> "save", members |-> members, damage |-> damage,
   authorised |-> FALSE, atAccessPoint |-> atAccessPoint]
MCSsids == {MCMember("ssid", <<v>>, TRUE) : v \in {"i", "u"}} \cup {<<>>}
MCPasses == {MCMember("pass", <<v>>, TRUE) : v \in {"go", "u"}} \cup {<<>>}

MCRequests ==
  {MCCommand(MCName \o p, d, a) : p \in MCPayloads, d \in {"none", "cut", "tail"}, a \in BOOLEAN}
  \cup {MCCommand(p \o n, "none", TRUE) : p \in MCPayloads, n \in MCNames}
  \cup {MCCommand(i \o MCName, "none", TRUE) : i \in {MCId, MCMember("id", <<"u">>, TRUE)}}
  \cup {MCCommand(<<>>, "empty", TRUE)}
  \cup {MCPage(s \o p, d, TRUE) : s \in MCSsids, p \in MCPasses, d \in {"none", "cut"}}
  \cup {MCPage(MCMember("ssid", <<"i">>, TRUE), "none", FALSE)}

(* A key, a number, a negative one, and an empty object spliced in.        *)
MCWritten == {<<"q", "k", "q">>, <<"0">>, <<"-", "1">>, <<"{", "}">>}

SseRest     == stream = <<>> /\ SseStart
SpeechRest  == text = <<>> /\ SpeechStart
ScanRest    == document = <<>> /\ ScanStart
RequestRest == request = MCCommand(<<>>, "empty", TRUE) /\ RequestStart
OutRest     == capacity = 0 /\ OutStart

Init ==
  \/ part = "sse"     /\ SseInit  /\ SpeechRest /\ ScanRest /\ RequestRest /\ OutRest
  \/ part = "speech"  /\ SseRest  /\ SpeechInit /\ ScanRest /\ RequestRest /\ OutRest
  \/ part = "scan"    /\ SseRest  /\ SpeechRest /\ ScanInit /\ RequestRest /\ OutRest
  \/ part = "request" /\ SseRest  /\ SpeechRest /\ ScanRest /\ RequestRest /\ OutRest
  \/ part = "writer"  /\ SseRest  /\ SpeechRest /\ ScanRest /\ RequestRest /\ OutInit

Next ==
  \/ part = "sse"     /\ SseNext     /\ UNCHANGED <<part, speechVars, scanVars, requestVars, outVars>>
  \/ part = "speech"  /\ SpeechNext  /\ UNCHANGED <<part, sseVars, scanVars, requestVars, outVars>>
  \/ part = "scan"    /\ Scan        /\ UNCHANGED <<part, sseVars, speechVars, requestVars, outVars>>
  \/ part = "request" /\ RequestNext /\ UNCHANGED <<part, sseVars, speechVars, scanVars, outVars>>
  \/ part = "writer"  /\ OutNext     /\ UNCHANGED <<part, sseVars, speechVars, scanVars, requestVars>>

Spec == Init /\ [][Next]_vars
=============================================================================
