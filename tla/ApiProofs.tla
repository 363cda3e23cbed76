----------------------------- MODULE ApiProofs -----------------------------
(***************************************************************************)
(* Proofs about both ends of the device API, for buffers, bodies, values   *)
(* and depths of any size: a request is answered for its own whole body or *)
(* refused; and what the JSON writer writes is the caller's document, or   *)
(* it says that it is not.                                                 *)
(***************************************************************************)
EXTENDS Request, JsonOut, SequenceTheorems, TLAPS

(***************************************************************************)
(* Requests.                                                               *)
(***************************************************************************)

(* A chunk received behind the front of a body makes a longer front.       *)
LEMMA Overwriting ==
  ASSUME NEW old \in Seq(Token), NEW body \in Seq(Token), NEW at \in Nat, NEW n \in Nat,
         at <= Len(old), at + n <= Len(body), SubSeq(old, 1, at) = SubSeq(body, 1, at)
  PROVE  LET new == Overwrite(old, at, SubSeq(body, at + 1, at + n))
         IN /\ new \in Seq(Token) /\ at + n <= Len(new)
            /\ SubSeq(new, 1, at + n) = SubSeq(body, 1, at + n)
<1> DEFINE new   == Overwrite(old, at, SubSeq(body, at + 1, at + n))
           front == SubSeq(old, 1, at)
           chunk == SubSeq(body, at + 1, at + n)
           rest  == SubSeq(old, at + Len(chunk) + 1, Len(old))
<1>1. /\ front \in Seq(Token) /\ Len(front) = at
      /\ \A i \in 1 .. at : front[i] = body[i]
  <2>1. SubSeq(body, 1, at) \in Seq(Token) /\ Len(SubSeq(body, 1, at)) = at
    OBVIOUS
  <2>2. \A i \in 1 .. at : SubSeq(body, 1, at)[i] = body[i]
    OBVIOUS
  <2> QED
    BY <2>1, <2>2
<1>2. /\ chunk \in Seq(Token) /\ Len(chunk) = n
      /\ \A i \in 1 .. n : chunk[i] = body[at + i]
  OBVIOUS
<1>3. rest \in Seq(Token) /\ Len(rest) \in Nat
  <2>1. at + Len(chunk) + 1 \in Nat \ {0}
    BY <1>2
  <2> QED
    BY <2>1
<1>4. new = (front \o chunk) \o rest
  BY DEF Overwrite
<1> HIDE DEF new, front, chunk, rest
<1>5. /\ front \o chunk \in Seq(Token) /\ Len(front \o chunk) = at + n
      /\ \A i \in 1 .. at + n :
           (front \o chunk)[i] = IF i <= at THEN front[i] ELSE chunk[i - at]
  <2>1. /\ front \o chunk \in Seq(Token) /\ Len(front \o chunk) = Len(front) + Len(chunk)
        /\ \A i \in 1 .. Len(front) + Len(chunk) :
             (front \o chunk)[i] = IF i <= Len(front) THEN front[i] ELSE chunk[i - Len(front)]
    BY <1>1, <1>2, ConcatProperties
  <2> QED
    BY <1>1, <1>2, <2>1
<1>6. /\ new \in Seq(Token) /\ Len(new) = at + n + Len(rest)
      /\ \A i \in 1 .. at + n : new[i] = (front \o chunk)[i]
  <2> DEFINE head == front \o chunk
  <2>1. head \in Seq(Token) /\ Len(head) = at + n /\ at + n \in Nat
    BY <1>5
  <2> HIDE DEF head
  <2>2. /\ head \o rest \in Seq(Token) /\ Len(head \o rest) = Len(head) + Len(rest)
        /\ \A i \in 1 .. Len(head) + Len(rest) :
             (head \o rest)[i] = IF i <= Len(head) THEN head[i] ELSE rest[i - Len(head)]
    BY <1>3, <2>1, ConcatProperties
  <2>3. new = head \o rest
    BY <1>4 DEF head
  <2>4. \A i \in 1 .. at + n : i \in 1 .. (at + n) + Len(rest) /\ i <= at + n
    BY <1>3, <2>1
  <2>5. \A i \in 1 .. at + n : new[i] = head[i]
    BY <2>1, <2>2, <2>3, <2>4
  <2> QED
    BY <2>1, <2>2, <2>3, <2>5 DEF head
<1>7. ASSUME NEW i \in 1 .. at + n
      PROVE  new[i] = body[i]
  <2>1. CASE i <= at
    BY <1>1, <1>5, <1>6, <2>1
  <2>2. CASE ~ (i <= at)
    <3>1. i - at \in 1 .. n /\ at + (i - at) = i
      BY <2>2
    <3> QED
      BY <1>2, <1>5, <1>6, <2>2, <3>1
  <2> QED
    BY <2>1, <2>2
<1>8. Len(new) \in Nat /\ at + n <= Len(new)
  BY <1>3, <1>6
<1>9. /\ SubSeq(new, 1, at + n) \in Seq(Token) /\ Len(SubSeq(new, 1, at + n)) = at + n
      /\ SubSeq(body, 1, at + n) \in Seq(Token) /\ Len(SubSeq(body, 1, at + n)) = at + n
  BY <1>6, <1>8
<1>10. \A i \in 1 .. at + n : SubSeq(new, 1, at + n)[i] = SubSeq(body, 1, at + n)[i]
  BY <1>6, <1>7, <1>8
<1> QED
  BY <1>6, <1>8, <1>9, <1>10, SeqEqual DEF new

LEMMA BodyIsText ==
  ASSUME NEW r \in Requests
  PROVE  Body(r) \in Seq(Token) /\ Len(Body(r)) \in Nat
<1>1. Body(r) \in Seq(Token)
  BY BodiesAreTexts
<1> QED
  BY <1>1, LenProperties

(* A refusal does nothing.                                                 *)
LEMMA RefusalIsOwn ==
  ASSUME NEW code, Answer(Outcome(Error(code, "none"), <<>>))
  PROVE  AnswersItsOwn' /\ stage' = "answered"
  BY DEF Answer, Outcome, Error, AnswersItsOwn

LEMMA ReceiveKeepsOwn ==
  ASSUME RequestInv, NEW r \in Requests, Receive(r)
  PROVE  RequestInv'
<1>1. /\ request' = r /\ got' = 0 /\ page' = <<>> /\ buffer' = buffer
      /\ buffer \in Seq(Token) /\ <<>> \in Seq(Token) /\ Len(Body(r)) \in Nat
  BY BodyIsText DEF Receive, RequestInv
<1>2. CASE stage' = "receiving" /\ reply' = NoReply /\ ran' = <<>>
             /\ ~ (r.path = "save" /\ ~ r.atAccessPoint)
  <2>1. AnswersItsOwn'
    BY <1>2 DEF AnswersItsOwn
  <2>2. /\ SubSeq(Held', 1, 0) = <<>> /\ SubSeq(Body(r), 1, 0) = <<>>
        /\ Len(Held') \in Nat
    <3>1. Held' \in Seq(Token) /\ Body(r) \in Seq(Token)
      BY <1>1, BodyIsText DEF Held
    <3> QED
      BY <3>1
  <2> QED
    BY <1>1, <1>2, <2>1, <2>2 DEF RequestInv
<1>3. CASE \E code : Answer(Outcome(Error(code, "none"), <<>>))
  <2>1. AnswersItsOwn' /\ stage' = "answered"
    BY <1>3, RefusalIsOwn
  <2> QED
    BY <1>1, <2>1 DEF RequestInv
<1> QED
  BY <1>2, <1>3 DEF Receive

LEMMA ReceiveChunkKeepsOwn ==
  ASSUME RequestInv, NEW length \in 1 .. MaxBody, MaxBody \in Nat, ReceiveChunk(length)
  PROVE  RequestInv'
<1> DEFINE body  == Body(request)
           chunk == SubSeq(body, got + 1, got + length)
<1>1. /\ request \in Requests /\ buffer \in Seq(Token) /\ page \in Seq(Token) /\ got \in Nat
      /\ stage = "receiving" /\ got <= Len(body) /\ got <= Len(Held)
      /\ SubSeq(Held, 1, got) = SubSeq(body, 1, got)
      /\ request.path = "save" => request.atAccessPoint
      /\ body \in Seq(Token) /\ ran = <<>>
  BY BodyIsText DEF RequestInv, ReceiveChunk, AnswersItsOwn
<1>2. /\ got + length <= Len(body) /\ got' = got + length /\ length \in Nat
      /\ request' = request /\ stage' = stage /\ reply' = reply /\ ran' = ran
      /\ Held' = Overwrite(Held, got, chunk)
      /\ \/ buffer' = Held' /\ page' = page
         \/ buffer' = buffer /\ page' = Held'
  <2>1. /\ got + length <= Len(body) /\ got' = got + length /\ length \in Nat
        /\ request' = request /\ stage' = stage /\ reply' = reply /\ ran' = ran
    BY DEF ReceiveChunk
  <2>2. CASE request.path = "command"
    <3>1. Held = buffer /\ Held' = buffer'
      BY <2>1, <2>2 DEF Held
    <3>2. buffer' = Overwrite(buffer, got, chunk) /\ page' = page
      BY <2>2 DEF ReceiveChunk
    <3> QED
      BY <2>1, <3>1, <3>2
  <2>3. CASE request.path # "command"
    <3>1. Held = page /\ Held' = page'
      BY <2>1, <2>3 DEF Held
    <3>2. page' = Overwrite(page, got, chunk) /\ buffer' = buffer
      BY <2>3 DEF ReceiveChunk
    <3> QED
      BY <2>1, <3>1, <3>2
  <2> QED
    BY <2>2, <2>3
<1>3. Held \in Seq(Token)
  BY <1>1 DEF Held
<1> HIDE DEF body, chunk
<1>4. /\ Held' \in Seq(Token) /\ got + length <= Len(Held')
      /\ SubSeq(Held', 1, got + length) = SubSeq(body, 1, got + length)
  <2>1. Held' = Overwrite(Held, got, SubSeq(body, got + 1, got + length))
    BY <1>2 DEF chunk
  <2>2. /\ Held \in Seq(Token) /\ body \in Seq(Token) /\ got \in Nat /\ length \in Nat
        /\ got <= Len(Held) /\ got + length <= Len(body)
        /\ SubSeq(Held, 1, got) = SubSeq(body, 1, got)
    BY <1>1, <1>2, <1>3
  <2>3. LET new == Overwrite(Held, got, SubSeq(body, got + 1, got + length))
        IN /\ new \in Seq(Token) /\ got + length <= Len(new)
           /\ SubSeq(new, 1, got + length) = SubSeq(body, 1, got + length)
    BY <2>2, Overwriting, Zenon
  <2> QED
    BY <2>1, <2>3
<1>5. AnswersItsOwn'
  BY <1>1, <1>2 DEF AnswersItsOwn
<1>6. buffer' \in Seq(Token) /\ page' \in Seq(Token) /\ got' \in Nat
  BY <1>1, <1>2, <1>4
<1> QED
  BY <1>1, <1>2, <1>4, <1>5, <1>6 DEF RequestInv, body

LEMMA EndKeepsOwn ==
  ASSUME RequestInv, StopShort \/ FailTransport \/ HandleBody
  PROVE  RequestInv'
<1>1. /\ request \in Requests /\ buffer \in Seq(Token) /\ page \in Seq(Token) /\ got \in Nat
      /\ request' = request /\ buffer' = buffer /\ page' = page /\ got' = got
      /\ stage = "receiving" /\ ran = <<>>
      /\ SubSeq(Held, 1, got) = SubSeq(Body(request), 1, got)
      /\ request.path = "save" => request.atAccessPoint
  BY DEF RequestInv, AnswersItsOwn, StopShort, FailTransport, HandleBody
<1>2. CASE StopShort
  <2>1. AnswersItsOwn' /\ stage' = "answered"
    BY <1>2, RefusalIsOwn DEF StopShort
  <2> QED
    BY <1>1, <2>1 DEF RequestInv
<1>3. CASE FailTransport
  <2>1. stage' = "dropped" /\ ran' = <<>>
    BY <1>1, <1>3 DEF FailTransport
  <2> QED
    BY <1>1, <2>1 DEF RequestInv, AnswersItsOwn
<1>4. CASE HandleBody
  <2>1. got = Len(Body(request)) /\ SubSeq(Held, 1, got) = Body(request)
    <3>1. got = Len(Body(request)) /\ Body(request) \in Seq(Token)
      BY <1>1, <1>4, BodyIsText DEF HandleBody
    <3>2. SubSeq(Body(request), 1, Len(Body(request))) = Body(request)
      BY <3>1
    <3> QED
      BY <1>1, <3>1, <3>2
  <2>2. PICK outcome \in Interpret(request, Body(request)) : Answer(outcome)
    BY <1>4, <2>1 DEF HandleBody
  <2>3. stage' = "answered" /\ reply' = outcome.reply /\ ran' = outcome.ran
    BY <2>2 DEF Answer
  <2>4. AnswersItsOwn'
    BY <1>1, <2>1, <2>3 DEF AnswersItsOwn
  <2> QED
    BY <1>1, <2>3, <2>4 DEF RequestInv
<1> QED
  BY <1>2, <1>3, <1>4

(* What lies at the front of the buffer while a body arrives is that body, *)
(* however it is chopped up and whatever requests came before.             *)
THEOREM RequestInvariance == RequestSpec => []RequestInv
<1>1. RequestInit => RequestInv
  <2> SUFFICES ASSUME RequestInit PROVE RequestInv
    OBVIOUS
  <2>1. <<>> \in Seq(Token)
    OBVIOUS
  <2> QED
    BY <2>1 DEF RequestInit, RequestStart, RequestInv, AnswersItsOwn
<1>2. RequestInv /\ [RequestNext]_requestVars => RequestInv'
  <2> SUFFICES ASSUME RequestInv, [RequestNext]_requestVars PROVE RequestInv'
    OBVIOUS
  <2>1. CASE \E r \in Requests : Receive(r)
    BY <2>1, ReceiveKeepsOwn
  <2>2. CASE \E length \in 1 .. MaxBody : ReceiveChunk(length)
    BY <2>2, ReceiveChunkKeepsOwn, MaxBodyAssumption
  <2>3. CASE StopShort \/ FailTransport \/ HandleBody
    BY <2>3, EndKeepsOwn
  <2>4. CASE UNCHANGED requestVars
    BY <2>4 DEF requestVars, RequestInv, AnswersItsOwn, Held
  <2> QED
    BY <2>1, <2>2, <2>3, <2>4 DEF RequestNext
<1> QED
  BY <1>1, <1>2, PTL DEF RequestSpec

(* Every answer is for the request's own whole body, or refuses it.        *)
THEOREM RequestsAreTheirOwn == RequestSpec => []AnswersItsOwn
<1>1. RequestInv => AnswersItsOwn
  BY DEF RequestInv
<1> QED
  BY <1>1, RequestInvariance, PTL

(***************************************************************************)
(* The JSON writer.                                                        *)
(***************************************************************************)

Bracket == {"{", "["}
Writer  == [text : Seq(Byte), required : Nat, open : Seq(Bracket),
            overflowed : BOOLEAN, comma : BOOLEAN]

(* The writer holds this document, or as much of it as goes in. *)
Holds(w, document) ==
  /\ w.required = Len(document)
  /\ w.overflowed <=> Len(document) > capacity
  /\ ~ w.overflowed => w.text = document

-----------------------------------------------------------------------------
(* Sequences.                                                              *)

(* What a buffer takes of some bytes is bytes. *)
LEMMA TakenIsBytes ==
  ASSUME capacity \in Nat, NEW bytes \in Seq(Byte)
  PROVE  Taken(bytes) \in Seq(Byte)
<1>1. CASE Len(bytes) <= capacity
  BY <1>1 DEF Taken
<1>2. CASE ~ Len(bytes) <= capacity
  <2>1. Len(bytes) \in Nat
    OBVIOUS
  <2>2. capacity <= Len(bytes)
    BY <1>2, <2>1
  <2>3. SubSeq(bytes, 1, capacity) \in Seq(Byte)
    BY <2>1, <2>2
  <2>4. QED
    BY <1>2, <2>3 DEF Taken
<1>3. QED
  BY <1>1, <1>2

(* One byte is bytes. *)
LEMMA OneByte ==
  ASSUME NEW S, NEW byte \in S
  PROVE  <<byte>> \in Seq(S) /\ <<byte>> # <<>> /\ Len(<<byte>>) = 1
         /\ Head(<<byte>>) = byte /\ Last(<<byte>>) = byte
BY DEF Last

(* The comma is one. *)
LEMMA CommaIsBytes == <<",">> \in Seq(Byte)
BY ValuesAreWhole, OneByte

(* Bytes are joined in order. *)
LEMMA JoinsInOrder ==
  ASSUME NEW s \in Seq(Byte), NEW t \in Seq(Byte), NEW u \in Seq(Byte)
  PROVE  (s \o t) \o u = s \o (t \o u)
OBVIOUS

(* A sequence ends as what was last added to it. *)
LEMMA EndsAsAdded ==
  ASSUME NEW S, NEW s \in Seq(S), NEW t \in Seq(S), t # <<>>
  PROVE  s \o t \in Seq(S) /\ s \o t # <<>> /\ Last(s \o t) = Last(t)
<1>1. /\ s \o t \in Seq(S)
      /\ Len(s \o t) = Len(s) + Len(t)
      /\ \A i \in 1 .. Len(s) + Len(t) :
           (s \o t)[i] = IF i <= Len(s) THEN s[i] ELSE t[i - Len(s)]
  BY ConcatProperties
<1>2. Len(s) \in Nat /\ Len(t) \in Nat \ {0}
  BY EmptySeq, LenProperties
<1>3. (s \o t)[Len(s) + Len(t)] = t[Len(t)]
  BY <1>1, <1>2
<1>4. s \o t # <<>>
  BY <1>1, <1>2, EmptySeq
<1>5. QED
  BY <1>1, <1>3, <1>4 DEF Last

(* Without its last bracket a sequence of brackets is one still. *)
LEMMA FrontIsBrackets ==
  ASSUME NEW s \in Seq(Bracket), s # <<>>
  PROVE  Front(s) \in Seq(Bracket)
<1>1. Len(s) \in Nat \ {0}
  BY EmptySeq
<1>2. 1 \in Int /\ Len(s) - 1 \in Int
  BY <1>1
<1>3. \A i \in 1 .. Len(s) - 1 : i \in 1 .. Len(s)
  BY <1>1
<1>4. SubSeq(s, 1, Len(s) - 1) \in Seq(Bracket)
  BY <1>1, <1>2, <1>3, SubSeqProperties
<1>5. QED
  BY <1>4 DEF Front

-----------------------------------------------------------------------------
(* The writer's own steps.                                                 *)

(* put() keeps the writer's types, its brackets and its comma, counts what *)
(* it was given and forgets no overflow.                                   *)
LEMMA PutKeeps ==
  ASSUME capacity \in Nat, NEW w \in Writer, NEW bytes \in Seq(Byte)
  PROVE  /\ Put(w, bytes) \in Writer
         /\ Put(w, bytes).open = w.open /\ Put(w, bytes).comma = w.comma
         /\ w.overflowed => Put(w, bytes).overflowed
<1>1. w.text \in Seq(Byte) /\ w.required \in Nat /\ w.overflowed \in BOOLEAN
  BY DEF Writer
<1>2. w.text \o bytes \in Seq(Byte) /\ Len(bytes) \in Nat
  BY <1>1
<1>3. Taken(w.text \o bytes) \in Seq(Byte)
  BY <1>2, TakenIsBytes
<1>4. w.required + Len(bytes) \in Nat
  BY <1>1, <1>2
<1>5. QED
  BY <1>1, <1>3, <1>4 DEF Put, Writer

(* put() adds to a document held. *)
LEMMA PutAdds ==
  ASSUME capacity \in Nat, NEW w \in Writer, NEW bytes \in Seq(Byte),
         NEW document \in Seq(Byte), Holds(w, document)
  PROVE  Holds(Put(w, bytes), document \o bytes)
<1>1. /\ Len(document) \in Nat /\ Len(bytes) \in Nat
      /\ Len(document \o bytes) = Len(document) + Len(bytes)
  BY ConcatProperties, LenProperties
<1>2. w.overflowed \in BOOLEAN
  BY DEF Writer
<1>3. Put(w, bytes).required = Len(document \o bytes)
  BY <1>1 DEF Put, Holds, Writer
<1>4. CASE w.overflowed
  <2>1. Len(document \o bytes) > capacity
    BY <1>1, <1>4 DEF Holds
  <2>2. Put(w, bytes).overflowed
    BY <1>4, PutKeeps
  <2>3. QED
    BY <1>3, <2>1, <2>2 DEF Holds
<1>5. CASE ~ w.overflowed
  <2>1. w.text = document
    BY <1>5 DEF Holds
  <2>2. Put(w, bytes).overflowed <=> Len(document \o bytes) > capacity
    BY <1>5, <2>1 DEF Put, Writer
  <2>3. Put(w, bytes).text = Taken(document \o bytes)
    BY <1>5, <2>1 DEF Put, Writer
  <2>4. ~ Put(w, bytes).overflowed => Put(w, bytes).text = document \o bytes
    BY <1>1, <2>2, <2>3 DEF Taken
  <2>5. QED
    BY <1>3, <2>2, <2>4 DEF Holds
<1>6. QED
  BY <1>2, <1>4, <1>5

(* A comma keeps the writer's types and forgets no overflow. *)
LEMMA SeparateKeeps ==
  ASSUME capacity \in Nat, NEW w \in Writer
  PROVE  /\ Separate(w) \in Writer
         /\ Separate(w).open = w.open
         /\ w.overflowed => Separate(w).overflowed
<1>1. <<",">> \in Seq(Byte)
  BY CommaIsBytes
<1>2. QED
  BY <1>1, PutKeeps DEF Separate

(* One value more: a comma where one is due, and its bytes.  The writer's  *)
(* comma is the document's.                                                *)
LEMMA ValueAdds ==
  ASSUME OutInv, ~ Failed, NEW bytes \in Seq(Byte) \ {<<>>},
         Head(bytes) \notin {"}", "]"}, Continue(bytes),
         NEW w \in Writer,
         w.text = Separate(writer).text, w.required = Separate(writer).required,
         w.overflowed = Separate(writer).overflowed
  PROVE  Holds(Put(w, bytes), output')
<1>1. /\ capacity \in Nat /\ writer \in Writer /\ output \in Seq(Byte)
      /\ <<",">> \in Seq(Byte)
  BY CommaIsBytes DEF OutInv, OutTypeOK, Writer, Bracket
<1>2. Holds(writer, output) /\ (writer.comma <=> ValueEnded)
  BY DEF OutInv, Mirrors, Measures, Copies, Holds
<1>3. CASE ValueEnded
  <2>1. Separate(writer) = Put(writer, <<",">>)
    BY <1>2, <1>3 DEF Separate
  <2>2. Holds(Separate(writer), output \o <<",">>)
    BY <1>1, <1>2, <2>1, PutAdds
  <2>3. Holds(w, output \o <<",">>)
    BY <2>2 DEF Holds
  <2>4. output \o <<",">> \in Seq(Byte) /\ bytes \in Seq(Byte)
    BY <1>1, ConcatProperties
  <2>5. Holds(Put(w, bytes), (output \o <<",">>) \o bytes)
    BY <1>1, <2>3, <2>4, PutAdds
  <2>6. output' = output \o (<<",">> \o bytes)
    BY <1>3 DEF Continue
  <2>7. (output \o <<",">>) \o bytes = output \o (<<",">> \o bytes)
    BY <1>1, <2>4, JoinsInOrder, Zenon
  <2>8. QED
    BY <2>5, <2>6, <2>7, Zenon
<1>4. CASE ~ ValueEnded
  <2>1. Separate(writer) = writer
    BY <1>2, <1>4 DEF Separate
  <2>2. Holds(w, output)
    BY <1>2, <2>1 DEF Holds
  <2>3. output' = output \o bytes
    BY <1>4 DEF Continue
  <2>4. QED
    BY <1>1, <2>2, <2>3, PutAdds
<1>5. QED
  BY <1>3, <1>4

(* A closing bracket takes no comma. *)
LEMMA EndAdds ==
  ASSUME OutInv, ~ Failed, NEW bracket \in {"}", "]"}, Continue(<<bracket>>),
         NEW w \in Writer, w.text = writer.text, w.required = writer.required,
         w.overflowed = writer.overflowed
  PROVE  Holds(Put(w, <<bracket>>), output')
<1>1. capacity \in Nat /\ output \in Seq(Byte)
  BY DEF OutInv, OutTypeOK
<1>2. <<bracket>> \in Seq(Byte) /\ Head(<<bracket>>) = bracket
  BY ValuesAreWhole, OneByte
<1>3. Holds(w, output)
  BY DEF OutInv, Measures, Copies, Holds
<1>4. output' = output \o <<bracket>>
  BY <1>2 DEF Continue
<1>5. QED
  BY <1>1, <1>2, <1>3, <1>4, PutAdds

(* The document ends as what was last added to it. *)
LEMMA ContinueEnds ==
  ASSUME OutTypeOK, NEW bytes \in Seq(Byte) \ {<<>>}, Continue(bytes)
  PROVE  output' \in Seq(Byte) /\ output' # <<>> /\ Last(output') = Last(bytes)
<1>1. output \in Seq(Byte)
  BY DEF OutTypeOK
<1>2. CASE output' = output \o bytes
  BY <1>1, <1>2, EndsAsAdded
<1>3. CASE output' = output \o (<<",">> \o bytes)
  <2>1. /\ <<",">> \o bytes \in Seq(Byte) /\ <<",">> \o bytes # <<>>
        /\ Last(<<",">> \o bytes) = Last(bytes)
    BY CommaIsBytes, EndsAsAdded
  <2>2. QED
    BY <1>1, <1>3, <2>1, EndsAsAdded
<1>4. QED
  BY <1>2, <1>3 DEF Continue

-----------------------------------------------------------------------------
(* The invariant.                                                          *)

(* Once the caller has failed, an overflow is all there is to keep. *)
LEMMA AfterFailure ==
  ASSUME OutTypeOK', writer'.overflowed, Failed'
  PROVE  OutInv'
BY DEF OutInv, Stays, Mirrors, Measures, Copies

(* Until then the writer holds the document. *)
LEMMA AfterSuccess ==
  ASSUME OutTypeOK', ~ Failed', capacity' = capacity, Holds(writer', output'),
         writer'.open = context', writer'.comma <=> ValueEnded'
  PROVE  OutInv'
BY DEF OutInv, Stays, Mirrors, Measures, Copies, Holds

(* A document begun afresh is empty, and fits. *)
LEMMA StartIsFresh ==
  capacity \in Nat /\ OutStart => OutInv
<1> SUFFICES ASSUME capacity \in Nat, OutStart PROVE OutInv
  OBVIOUS
<1>1. <<>> \in Seq(Byte) /\ <<>> \in Seq({"{", "["}) /\ Len(<<>>) = 0
  OBVIOUS
<1>2. OutTypeOK
  BY <1>1 DEF OutTypeOK, OutStart, Fresh
<1>3. QED
  BY <1>1, <1>2 DEF OutInv, OutStart, Fresh, Failed, Stays, Mirrors, Measures, Copies, ValueEnded

(* A bracket opened. *)
LEMMA OpenKeeps ==
  ASSUME OutInv, NEW bracket \in Bracket, OpenBracket(bracket)
  PROVE  OutInv'
<1> DEFINE separated == Separate(writer)
           opened    == [separated EXCEPT !.open = Append(@, bracket)]
<1>1. /\ capacity \in Nat /\ capacity' = capacity /\ NestLimit \in Nat
      /\ writer \in Writer /\ context \in Seq(Bracket) /\ output \in Seq(Byte)
  BY SizesAreNumbers DEF OutInv, OutTypeOK, Writer, Bracket, OpenBracket
<1>2. /\ <<bracket>> \in Seq(Byte) \ {<<>>} /\ Head(<<bracket>>) = bracket
      /\ Last(<<bracket>>) = bracket /\ bracket \notin {"}", "]"}
  <2>1. bracket \in Byte
    BY ValuesAreWhole DEF Bracket
  <2>2. QED
    BY <2>1, OneByte DEF Bracket
<1>3. /\ separated \in Writer /\ separated.open = writer.open
      /\ writer.overflowed => separated.overflowed
  BY <1>1, SeparateKeeps
<1>4. /\ opened \in Writer /\ opened.open = Append(writer.open, bracket)
      /\ opened.text = separated.text /\ opened.required = separated.required
      /\ opened.overflowed = separated.overflowed
  <2>1. separated.open \in Seq(Bracket) /\ Append(separated.open, bracket) \in Seq(Bracket)
    BY <1>3 DEF Writer
  <2>2. QED
    BY <1>3, <2>1 DEF Writer
<1>5. /\ Put(opened, <<bracket>>) \in Writer
      /\ Put(opened, <<bracket>>).open = opened.open
      /\ opened.overflowed => Put(opened, <<bracket>>).overflowed
  BY <1>1, <1>2, <1>4, PutKeeps
<1>6. writer' = IF Len(writer.open) >= NestLimit THEN [separated EXCEPT !.overflowed = TRUE]
                ELSE [Put(opened, <<bracket>>) EXCEPT !.comma = FALSE]
  BY DEF OpenBracket, Open
<1>7. writer' \in Writer
  BY <1>3, <1>5, <1>6 DEF Writer
<1>8. /\ output' \in Seq(Byte) /\ output' # <<>> /\ Last(output') = bracket
  BY <1>2, ContinueEnds DEF OutInv, OpenBracket
<1>9. /\ context' \in Seq(Bracket) /\ context' = Append(context, bracket)
      /\ mistake' = mistake /\ tooDeep' = (tooDeep \/ Len(context) >= NestLimit)
  BY <1>1 DEF OpenBracket
<1>10. OutTypeOK'
  BY <1>1, <1>7, <1>8, <1>9 DEF OutInv, OutTypeOK, OpenBracket, Writer, Bracket
<1>11. CASE Failed
  <2>1. writer.overflowed /\ Failed'
    BY <1>9, <1>11 DEF OutInv, Stays, Failed
  <2>2. writer'.overflowed
    BY <1>3, <1>4, <1>5, <1>6, <2>1 DEF Writer
  <2>3. QED
    BY <1>10, <2>1, <2>2, AfterFailure
<1>12. CASE ~ Failed /\ Len(context) >= NestLimit
  <2>1. writer'.overflowed
    BY <1>3, <1>6, <1>12 DEF OutInv, Mirrors, Writer
  <2>2. Failed'
    BY <1>9, <1>12 DEF Failed
  <2>3. QED
    BY <1>10, <2>1, <2>2, AfterFailure
<1>13. CASE ~ Failed /\ ~ Len(context) >= NestLimit
  <2>1. ~ Failed' /\ writer.open = context
    BY <1>9, <1>13 DEF OutInv, Mirrors, Failed
  <2>2. writer' = [Put(opened, <<bracket>>) EXCEPT !.comma = FALSE]
    BY <1>6, <1>13, <2>1
  <2>3. Holds(Put(opened, <<bracket>>), output')
    BY <1>2, <1>4, <1>13, ValueAdds DEF OpenBracket
  <2>4. Holds(writer', output')
    BY <1>5, <2>2, <2>3 DEF Holds, Writer
  <2>5. writer'.open = context' /\ writer'.comma = FALSE
    BY <1>4, <1>5, <1>9, <2>1, <2>2 DEF Writer
  <2>6. ~ ValueEnded'
    BY <1>8 DEF ValueEnded, Bracket
  <2>7. QED
    BY <1>1, <1>10, <2>1, <2>4, <2>5, <2>6, AfterSuccess
<1>14. QED
  BY <1>11, <1>12, <1>13

(* A bracket closed, whether or not it was open. *)
LEMMA CloseKeeps ==
  ASSUME OutInv, NEW bracket \in {"}", "]"}, CloseBracket(bracket)
  PROVE  OutInv'
<1> DEFINE closed == [writer EXCEPT !.open = Front(@)]
           mine   == ~ mistake /\ context # <<>> /\ Last(context) = Match(bracket)
<1>1. /\ capacity \in Nat /\ capacity' = capacity
      /\ writer \in Writer /\ context \in Seq(Bracket) /\ output \in Seq(Byte)
  BY DEF OutInv, OutTypeOK, Writer, Bracket, CloseBracket
<1>2. <<bracket>> \in Seq(Byte) \ {<<>>} /\ Last(<<bracket>>) = bracket
  BY ValuesAreWhole, OneByte
<1>3. /\ output' \in Seq(Byte) /\ output' # <<>> /\ Last(output') = bracket
  BY <1>2, ContinueEnds DEF OutInv, CloseBracket
<1>4. writer.open # <<>> =>
        /\ closed \in Writer /\ closed.open = Front(writer.open)
        /\ closed.text = writer.text /\ closed.required = writer.required
        /\ closed.overflowed = writer.overflowed
  <2>1. writer.open \in Seq(Bracket)
    BY <1>1 DEF Writer
  <2>2. writer.open # <<>> => Front(writer.open) \in Seq(Bracket)
    BY <2>1, FrontIsBrackets
  <2>3. QED
    BY <1>1, <2>2 DEF Writer
<1>5. writer.open # <<>> =>
        /\ Put(closed, <<bracket>>) \in Writer
        /\ Put(closed, <<bracket>>).open = closed.open
        /\ closed.overflowed => Put(closed, <<bracket>>).overflowed
  BY <1>1, <1>2, <1>4, PutKeeps
<1>6. writer' = IF writer.open = <<>> \/ Last(writer.open) # Match(bracket)
                THEN [writer EXCEPT !.overflowed = TRUE]
                ELSE [Put(closed, <<bracket>>) EXCEPT !.comma = TRUE]
  BY DEF CloseBracket, Close
<1>7. writer' \in Writer
  BY <1>1, <1>5, <1>6 DEF Writer
<1>8. /\ tooDeep' = tooDeep /\ keyed' = keyed
      /\ mine => context' = Front(context) /\ mistake' = mistake
      /\ ~ mine => context' = context /\ mistake' = TRUE
  BY DEF CloseBracket
<1>9. context' \in Seq(Bracket)
  BY <1>1, <1>8, FrontIsBrackets
<1>10. OutTypeOK'
  BY <1>1, <1>3, <1>7, <1>8, <1>9 DEF OutInv, OutTypeOK, Writer, Bracket
<1>11. CASE Failed
  <2>1. writer.overflowed /\ Failed'
    BY <1>8, <1>11 DEF OutInv, Stays, Failed
  <2>2. writer'.overflowed
    BY <1>1, <1>4, <1>5, <1>6, <2>1 DEF Writer
  <2>3. QED
    BY <1>10, <2>1, <2>2, AfterFailure
<1>12. CASE ~ Failed /\ ~ mine
  <2>1. writer.open = <<>> \/ Last(writer.open) # Match(bracket)
    BY <1>12 DEF OutInv, Mirrors, Failed
  <2>2. writer'.overflowed /\ Failed'
    BY <1>1, <1>6, <1>8, <1>12, <2>1 DEF Writer, Failed
  <2>3. QED
    BY <1>10, <2>2, AfterFailure
<1>13. CASE ~ Failed /\ mine
  <2>1. ~ Failed' /\ writer.open = context /\ writer.open # <<>>
    <3>1. mistake' = mistake /\ tooDeep' = tooDeep
      BY <1>8, <1>13
    <3>2. ~ Failed'
      BY <3>1, <1>13 DEF Failed
    <3>3. writer.open = context
      BY <1>13 DEF OutInv, Mirrors
    <3>4. QED
      BY <1>13, <3>2, <3>3
  <2>2. writer' = [Put(closed, <<bracket>>) EXCEPT !.comma = TRUE]
    BY <1>6, <1>13, <2>1
  <2>3. Holds(Put(closed, <<bracket>>), output')
    BY <1>4, <1>13, <2>1, EndAdds DEF CloseBracket
  <2>4. Holds(writer', output')
    BY <1>5, <2>1, <2>2, <2>3 DEF Holds, Writer
  <2>5. writer'.open = context' /\ writer'.comma = TRUE
    BY <1>4, <1>5, <1>8, <1>13, <2>1, <2>2 DEF Writer
  <2>6. ValueEnded'
    BY <1>3 DEF ValueEnded
  <2>7. QED
    BY <1>1, <1>10, <2>1, <2>4, <2>5, <2>6, AfterSuccess
<1>14. QED
  BY <1>11, <1>12, <1>13

(* A key or a value written: a comma where one is due, then its bytes. *)
LEMMA TextKeeps ==
  ASSUME OutInv, NEW bytes \in Seq(Byte) \ {<<>>}, Head(bytes) \notin {"}", "]"},
         Continue(bytes), keyed' \in BOOLEAN, UNCHANGED <<capacity, context, tooDeep, mistake>>,
         NEW ends \in BOOLEAN, ends <=> Last(bytes) \notin {"{", "[", ":"},
         writer' = [Put(Separate(writer), bytes) EXCEPT !.comma = ends]
  PROVE  OutInv'
<1> DEFINE separated == Separate(writer)
<1>1. capacity \in Nat /\ writer \in Writer
  BY DEF OutInv, OutTypeOK, Writer, Bracket
<1>2. /\ separated \in Writer /\ separated.open = writer.open
      /\ writer.overflowed => separated.overflowed
  BY <1>1, SeparateKeeps
<1>3. /\ Put(separated, bytes) \in Writer /\ Put(separated, bytes).open = separated.open
      /\ separated.overflowed => Put(separated, bytes).overflowed
  BY <1>1, <1>2, PutKeeps
<1>4. /\ writer' \in Writer /\ writer'.open = writer.open /\ writer'.comma = ends
      /\ writer.overflowed => writer'.overflowed
  BY <1>2, <1>3 DEF Writer
<1>5. output' \in Seq(Byte) /\ output' # <<>> /\ Last(output') = Last(bytes)
  BY ContinueEnds DEF OutInv
<1>6. OutTypeOK'
  BY <1>4, <1>5 DEF OutInv, OutTypeOK, Writer, Bracket
<1>7. CASE Failed
  BY <1>4, <1>6, <1>7, AfterFailure DEF OutInv, Stays, Failed
<1>8. CASE ~ Failed
  <2>1. Holds(Put(separated, bytes), output')
    BY <1>2, <1>8, ValueAdds
  <2>2. Holds(writer', output')
    BY <1>3, <2>1 DEF Holds, Writer
  <2>3. writer'.open = context' /\ ~ Failed'
    BY <1>4, <1>8 DEF OutInv, Mirrors, Failed
  <2>4. writer'.comma <=> ValueEnded'
    BY <1>4, <1>5 DEF ValueEnded
  <2>5. QED
    BY <1>6, <2>2, <2>3, <2>4, AfterSuccess
<1>9. QED
  BY <1>7, <1>8

(* A key. *)
LEMMA KeyKeeps ==
  ASSUME OutInv, NEW bytes \in Written, AddKey(bytes)
  PROVE  OutInv'
<1>1. bytes \in Seq(Byte) /\ bytes # <<>> /\ Head(bytes) \notin {"}", "]"} /\ ":" \in Byte
  BY ValuesAreWhole
<1>2. /\ Append(bytes, ":") \in Seq(Byte) \ {<<>>} /\ Head(Append(bytes, ":")) = Head(bytes)
      /\ Last(Append(bytes, ":")) = ":"
  <2>1. /\ Append(bytes, ":") \in Seq(Byte) /\ Append(bytes, ":") # <<>>
        /\ Len(Append(bytes, ":")) = Len(bytes) + 1
        /\ Append(bytes, ":")[Len(bytes) + 1] = ":"
    BY <1>1, AppendProperties
  <2>2. Head(Append(bytes, ":")) = Head(bytes)
    BY <1>1, HeadTailAppend
  <2>3. QED
    BY <2>1, <2>2 DEF Last
<1>3. writer' = [Put(Separate(writer), Append(bytes, ":")) EXCEPT !.comma = FALSE]
  BY DEF AddKey, WriteKey
<1>4. /\ Continue(Append(bytes, ":")) /\ keyed' \in BOOLEAN
      /\ UNCHANGED <<capacity, context, tooDeep, mistake>>
  BY DEF AddKey
<1>5. QED
  BY <1>1, <1>2, <1>3, <1>4, TextKeeps

(* A value. *)
LEMMA ValueKeeps ==
  ASSUME OutInv, NEW bytes \in Written, AddValue(bytes)
  PROVE  OutInv'
<1>1. /\ bytes \in Seq(Byte) \ {<<>>} /\ Head(bytes) \notin {"}", "]"}
      /\ Last(bytes) \notin {"{", "[", ":"}
  BY ValuesAreWhole
<1>2. writer' = [Put(Separate(writer), bytes) EXCEPT !.comma = TRUE]
  BY DEF AddValue, WriteValue
<1>3. /\ Continue(bytes) /\ keyed' \in BOOLEAN
      /\ UNCHANGED <<capacity, context, tooDeep, mistake>>
  BY DEF AddValue
<1>4. QED
  BY <1>1, <1>2, <1>3, TextKeeps

(* The reset. *)
LEMMA ResetKeeps ==
  ASSUME OutInv, Reset
  PROVE  OutInv'
<1>1. capacity' \in Nat
  BY DEF OutInv, OutTypeOK, Reset
<1>2. OutStart'
  BY DEF OutStart, Reset
<1>3. (capacity \in Nat /\ OutStart => OutInv)'
  BY StartIsFresh, PTL
<1>4. QED
  BY <1>1, <1>2, <1>3

(* The invariant of the writer holds in every reachable state.             *)
THEOREM WriterInvariance == OutSpec => []OutInv
<1>1. OutInit => OutInv
  BY SizesAreNumbers, StartIsFresh DEF OutInit
<1>2. ASSUME OutInv, OutNext PROVE OutInv'
  BY <1>2, OpenKeeps, CloseKeeps, KeyKeeps, ValueKeeps, ResetKeeps DEF OutNext, Bracket
<1>3. ASSUME OutInv, UNCHANGED outVars PROVE OutInv'
  BY <1>3 DEF outVars, OutInv, OutTypeOK, Failed, Stays, Mirrors, Measures, Copies, ValueEnded
<1>4. QED
  BY <1>1, <1>2, <1>3, PTL DEF OutSpec

(* The writer says it overflowed exactly when a bracket did not match, the *)
(* nesting was too deep or the document is longer than the buffer;         *)
(* otherwise its text is the whole document, every comma where it belongs, *)
(* and required() is its length (json_writer.cpp:13-102).                  *)
THEOREM DocumentsAreWhole == OutSpec => []WriterWellFormed
<1>1. OutInv => WriterWellFormed
  BY DEF OutInv, OutTypeOK, WriterWellFormed, Failed, Stays, Mirrors, Measures, Copies
<1>2. QED
  BY <1>1, WriterInvariance, PTL
=============================================================================
