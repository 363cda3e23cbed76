------------------------------ MODULE JsonOut ------------------------------
(***************************************************************************)
(* JsonWriter: writes a document call by call into a buffer of fixed size. *)
(* When it does not fit, nests too deep or a bracket does not match, the   *)
(* writer stops writing and says so.  A byte is a one-letter string; what  *)
(* escaping does to a text is in its bytes.                                *)
(*                                                                         *)
(* The caller follows the class's rule (in an object a key and then one    *)
(* value, in an array values, and one value in all) but may close a        *)
(* bracket it has not opened.                                              *)
(***************************************************************************)
EXTENDS Integers, SequencesExt

CONSTANTS
  Byte,
  Capacities,   \* the buffers there are, in bytes
  Written,      \* the bytes of every value written: scalars, and raw_json
  NestLimit,    \* kMaxDepth
  MaxLength     \* bound

ASSUME SizesAreNumbers == Capacities \subseteq Nat /\ NestLimit \in Nat

(* A value's bytes neither begin as an end nor end as a beginning.         *)
ASSUME ValuesAreWhole ==
  /\ {"{", "}", "[", "]", ",", ":"} \subseteq Byte
  /\ Written \subseteq Seq(Byte) \ {<<>>}
  /\ \A bytes \in Written : Head(bytes) \notin {"}", "]"} /\ Last(bytes) \notin {"{", "[", ":"}

VARIABLES
  capacity,
  writer,
  \* history
  output,       \* the document the calls since the last reset make
  context,      \* the brackets the caller has open
  keyed,        \* a key waits for its value
  tooDeep,      \* the caller has had more than NestLimit brackets open
  mistake       \* a bracket was closed that was not open

outVars == <<capacity, writer, output, context, keyed, tooDeep, mistake>>

Fresh == [text |-> <<>>, required |-> 0, open |-> <<>>, overflowed |-> FALSE, comma |-> FALSE]

\* What a buffer takes of so many bytes.
Taken(bytes) == IF Len(bytes) <= capacity THEN bytes ELSE SubSeq(bytes, 1, capacity)

(* Mutant of Put: what does not fit is left out and nobody told. *)
PutSilently(w, bytes) ==
  [w EXCEPT !.required = @ + Len(bytes), !.text = Taken(@ \o bytes)]

Put(w, bytes) ==
  [w EXCEPT !.required = @ + Len(bytes),
            !.overflowed = @ \/ Len(w.text \o bytes) > capacity,
            !.text = IF w.overflowed THEN @ ELSE Taken(@ \o bytes)]

Separate(w) == IF w.comma THEN Put(w, <<",">>) ELSE w

Open(w, bracket) ==
  LET separated == Separate(w)
  IN IF Len(w.open) >= NestLimit THEN [separated EXCEPT !.overflowed = TRUE]
     ELSE [Put([separated EXCEPT !.open = Append(@, bracket)], <<bracket>>) EXCEPT !.comma = FALSE]

Match(bracket) == IF bracket = "}" THEN "{" ELSE "["

Close(w, bracket) ==
  IF w.open = <<>> \/ Last(w.open) # Match(bracket) THEN [w EXCEPT !.overflowed = TRUE]
  ELSE [Put([w EXCEPT !.open = Front(@)], <<bracket>>) EXCEPT !.comma = TRUE]

WriteKey(w, bytes) == [Put(Separate(w), Append(bytes, ":")) EXCEPT !.comma = FALSE]

WriteValue(w, bytes) == [Put(Separate(w), bytes) EXCEPT !.comma = TRUE]

Valid(w) == ~ w.overflowed /\ w.open = <<>>

-----------------------------------------------------------------------------
OutStart ==
  /\ writer = Fresh /\ output = <<>> /\ context = <<>> /\ keyed = FALSE
  /\ tooDeep = FALSE /\ mistake = FALSE

OutInit == capacity \in Capacities /\ OutStart

\* A value has just ended: what starts another one needs a comma first.
ValueEnded == output # <<>> /\ Last(output) \notin {"{", "[", ":"}

\* The document goes on with these bytes.
Continue(bytes) ==
  output' = output \o (IF ValueEnded /\ Head(bytes) \notin {"}", "]"} THEN <<",">> \o bytes ELSE bytes)

InObject == context # <<>> /\ Last(context) = "{"

\* Where the caller may write a value.
ValueIsDue ==
  ~ mistake /\ Len(output) < MaxLength /\ IF context = <<>> THEN output = <<>> ELSE ~ InObject \/ keyed

OpenBracket(bracket) ==
  /\ ValueIsDue
  /\ writer' = Open(writer, bracket)
  /\ Continue(<<bracket>>)
  /\ context' = Append(context, bracket) /\ keyed' = FALSE
  /\ tooDeep' = (tooDeep \/ Len(context) >= NestLimit)
  /\ UNCHANGED <<capacity, mistake>>

CloseBracket(bracket) ==
  /\ Len(output) < MaxLength /\ ~ keyed
  /\ writer' = Close(writer, bracket)
  /\ Continue(<<bracket>>)
  /\ IF ~ mistake /\ context # <<>> /\ Last(context) = Match(bracket)
     THEN context' = Front(context) /\ UNCHANGED mistake
     ELSE mistake' = TRUE /\ UNCHANGED context
  /\ UNCHANGED <<capacity, keyed, tooDeep>>

AddKey(bytes) ==
  /\ ~ mistake /\ InObject /\ ~ keyed /\ Len(output) < MaxLength
  /\ writer' = WriteKey(writer, bytes)
  /\ Continue(Append(bytes, ":"))
  /\ keyed' = TRUE
  /\ UNCHANGED <<capacity, context, tooDeep, mistake>>

AddValue(bytes) ==
  /\ ValueIsDue
  /\ writer' = WriteValue(writer, bytes)
  /\ Continue(bytes)
  /\ keyed' = FALSE
  /\ UNCHANGED <<capacity, context, tooDeep, mistake>>

Reset ==
  /\ output # <<>>
  /\ writer' = Fresh
  /\ output' = <<>> /\ context' = <<>> /\ keyed' = FALSE /\ tooDeep' = FALSE /\ mistake' = FALSE
  /\ UNCHANGED capacity

OutNext ==
  \/ \E bracket \in {"{", "["} : OpenBracket(bracket)
  \/ \E bracket \in {"}", "]"} : CloseBracket(bracket)
  \/ \E bytes \in Written : AddKey(bytes) \/ AddValue(bytes)
  \/ Reset

OutSpec == OutInit /\ [][OutNext]_outVars

-----------------------------------------------------------------------------
\* The writer reports an overflow exactly when a bracket did not match, the
\* nesting was too deep or the document is longer than the buffer, and from
\* then on until the reset; otherwise the text is the document so far, every
\* byte and every comma of it.  required() is the buffer it needs.
WriterWellFormed ==
  /\ writer.overflowed <=> mistake \/ tooDeep \/ Len(output) > capacity
  /\ ~ writer.overflowed => writer.text = output /\ writer.open = context
  /\ ~ mistake /\ ~ tooDeep => writer.required = Len(output)

(* The inductive invariant: until the caller fails, the writer's comma and *)
(* brackets are those of the document, and from then on it is overflowed.  *)
OutTypeOK ==
  /\ capacity \in Nat
  /\ writer \in [text : Seq(Byte), required : Nat, open : Seq({"{", "["}),
                 overflowed : BOOLEAN, comma : BOOLEAN]
  /\ output \in Seq(Byte) /\ context \in Seq({"{", "["})
  /\ keyed \in BOOLEAN /\ tooDeep \in BOOLEAN /\ mistake \in BOOLEAN

Failed   == mistake \/ tooDeep
Stays    == Failed => writer.overflowed
Mirrors  == ~ Failed => writer.open = context /\ (writer.comma <=> ValueEnded)
Measures == ~ Failed => /\ writer.required = Len(output)
                        /\ writer.overflowed <=> Len(output) > capacity
Copies   == ~ writer.overflowed => writer.text = output

OutInv == OutTypeOK /\ Stays /\ Mirrors /\ Measures /\ Copies
=============================================================================
