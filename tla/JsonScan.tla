------------------------------ MODULE JsonScan ------------------------------
(***************************************************************************)
(* One search of a text, by both walks of JsonText, against what a legal   *)
(* object is.                                                              *)
(***************************************************************************)
EXTENDS JsonText
LOCAL INSTANCE FiniteSetsExt

CONSTANTS
  Key,             \* the name looked for
  Documents,       \* bound: the texts searched
  LegalObjects,    \* those of them that are legal, by the grammar below
  SampleScalars,   \* bound: the legal values and names they are made of
  SampleNames

ASSUME SampleAssumption == SampleScalars \subseteq LegalScalars /\ SampleNames \subseteq PlainStrings

VARIABLES document, scanned, checked, member

scanVars == <<document, scanned, checked, member>>

(***************************************************************************)
(* The grammar: the legal values of n tokens nested at most depth levels,  *)
(* and the parts they are made of.  An object's names differ.              *)
(***************************************************************************)
RECURSIVE Values(_, _), Elements(_, _), Members(_, _, _)

Values(n, depth) ==
  IF n = 1 THEN {<<scalar>> : scalar \in SampleScalars}
  ELSE IF n < 2 \/ depth = 0 THEN {}
  ELSE {<<"[">> \o e \o <<"]">> : e \in Elements(n - 2, depth - 1)}
         \cup {<<"{">> \o m \o <<"}">> : m \in Members(n - 2, depth - 1, SampleNames)}

Elements(n, depth) ==
  IF n = 0 THEN {<<>>}
  ELSE Values(n, depth) \cup
       UNION {{v \o <<",">> \o rest : v \in Values(k, depth),
                                      rest \in Elements(n - k - 1, depth) \ {<<>>}}
              : k \in 1 .. n - 2}

Members(n, depth, names) ==
  IF n = 0 THEN {<<>>}
  ELSE UNION {{<<name, ":">> \o v : v \in Values(n - 2, depth)} : name \in names} \cup
       UNION {{<<name, ":">> \o v \o <<",">> \o rest
                  : v \in Values(k, depth),
                    rest \in Members(n - k - 3, depth, names \ {name}) \ {<<>>}}
              : <<name, k>> \in names \X (1 .. n - 4)}

\* The legal objects of at most size tokens, nested at most depth levels more.
Objects(size, depth) ==
  {<<"{">> \o m \o <<"}">> : m \in UNION {Members(n, depth, SampleNames) : n \in 0 .. size - 2}}

-----------------------------------------------------------------------------
ScanStart == scanned = FALSE /\ checked = Invalid /\ member = NoMember

ScanInit == document \in Documents /\ ScanStart

Scan ==
  /\ ~ scanned
  /\ scanned' = TRUE
  /\ checked' = FindObjectChecked(document, Key)
  /\ member' = FindMember(document, Key)
  /\ UNCHANGED document

ScanSpec == ScanInit /\ [][Scan]_scanVars

Level(s, i) == Quantify(1 .. i, LAMBDA j : s[j] \in Opening)
                 - Quantify(1 .. i, LAMBDA j : s[j] \in Closing)

\* Where the value of a legal object's member is.
SpanOf(s, key) ==
  LET names == {i \in 1 .. Len(s) - 2 : s[i] = key /\ s[i + 1] = ":" /\ Level(s, i) = 1}
      name  == CHOOSE i \in names : TRUE
  IN IF names = {} THEN NoMember
     ELSE [found |-> TRUE, first |-> name + 2,
           last |-> Min({i \in name + 2 .. Len(s) : Level(s, i) = 1})]

\* The checked search tells a legal object, with the member absent or an object
\* itself, from every other text, and finds that member's extent; on a legal
\* object the lenient search, which handlers read their parameters with, finds
\* the same.
ScanIsExact ==
  LET legal  == document \in LegalObjects
      span   == SpanOf(document, Key)
      answer == IF ~ legal THEN "invalid"
                ELSE IF ~ span.found THEN "missing"
                ELSE IF document[span.first] = "{" THEN "found" ELSE "invalid"
  IN scanned =>
       /\ checked.is = answer
       /\ checked.is = "found" => checked.first = span.first /\ checked.last = span.last
       /\ legal => member = span
=============================================================================
