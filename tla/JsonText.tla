------------------------------ MODULE JsonText ------------------------------
(***************************************************************************)
(* Reading JSON without a tree.  find_member walks an object leniently,    *)
(* skipping what it does not look for; json_find_object_checked accepts an *)
(* object only if the whole text is one legal document.  A text is a       *)
(* sequence of tokens, white space left out: brackets, a comma, a colon,   *)
(* and scalars.  A string with a unicode escape is a legal value and no    *)
(* legal name; a loose scalar (a number with a leading zero, a string with *)
(* a control character) is one only the lenient walk takes.                *)
(***************************************************************************)
EXTENDS Integers, Sequences
LOCAL INSTANCE FiniteSetsExt

CONSTANTS
  PlainStrings,    \* legal names and values
  EscapedStrings,  \* legal values only
  Numbers,
  LooseStrings, LooseNumbers,
  MaxDepth         \* kMaxCheckedJsonDepth

Strings == PlainStrings \cup EscapedStrings \cup LooseStrings
Scalars == Strings \cup Numbers \cup LooseNumbers
LegalScalars == PlainStrings \cup EscapedStrings \cup Numbers

Opening == {"{", "["}
Closing == {"}", "]"}

TokenAt(s, i) == IF i \in DOMAIN s THEN s[i] ELSE "end"

(***************************************************************************)
(* The lenient walk.  A position past the value, or 0 when there is none.  *)
(***************************************************************************)
\* Brackets are counted, not matched.
SkipContainer(s, start) ==
  LET Count(set, i) == Quantify(start .. i, LAMBDA j : s[j] \in set)
      ends == {i \in start .. Len(s) : Count(Opening, i) = Count(Closing, i)}
  IN IF ends = {} THEN 0 ELSE Min(ends) + 1

SkipValue(s, i) ==
  IF TokenAt(s, i) \in Scalars THEN i + 1
  ELSE IF TokenAt(s, i) \in Opening THEN SkipContainer(s, i)
  ELSE 0

NoMember == [found |-> FALSE, first |-> 0, last |-> 0]

\* The value of the first member called key; commas between are optional.
RECURSIVE FindFrom(_, _, _)
FindFrom(s, i, key) ==
  LET past == SkipValue(s, i + 2)
  IN IF TokenAt(s, i) = "," THEN FindFrom(s, i + 1, key)
     ELSE IF TokenAt(s, i) \notin Strings \/ TokenAt(s, i + 1) # ":" \/ past = 0 THEN NoMember
     ELSE IF s[i] = key THEN [found |-> TRUE, first |-> i + 2, last |-> past - 1]
     ELSE FindFrom(s, past, key)

FindMember(s, key) == IF TokenAt(s, 1) = "{" THEN FindFrom(s, 2, key) ELSE NoMember

FindToken(s, key, kinds) ==
  LET where == FindMember(s, key)
  IN IF where.found /\ s[where.first] \in kinds THEN s[where.first] ELSE "none"

(***************************************************************************)
(* The checked walk: recursive descent, with each name looked up in the    *)
(* part of its object already walked.                                      *)
(***************************************************************************)
RECURSIVE CheckedValue(_, _, _, _), CheckedMember(_, _, _, _, _),
          CheckedElement(_, _, _, _), AppearedBefore(_, _, _, _, _)

CheckedValue(s, i, depth, duplicates) ==
  LET token == TokenAt(s, i)
  IN IF token \in LegalScalars THEN i + 1
     ELSE IF token \notin Opening \/ depth >= MaxDepth THEN 0
     ELSE IF token = "{"
          THEN IF TokenAt(s, i + 1) = "}" THEN i + 2
               ELSE CheckedMember(s, i, i + 1, depth + 1, duplicates)
          ELSE IF TokenAt(s, i + 1) = "]" THEN i + 2
               ELSE CheckedElement(s, i + 1, depth + 1, duplicates)

CheckedMember(s, start, i, depth, duplicates) ==
  LET past == CheckedValue(s, i + 2, depth, duplicates)
  IN IF \/ TokenAt(s, i) \notin PlainStrings
        \/ duplicates /\ AppearedBefore(s, start + 1, i, s[i], depth)
        \/ TokenAt(s, i + 1) # ":"
        \/ past = 0 THEN 0
     ELSE IF TokenAt(s, past) = "}" THEN past + 1
     ELSE IF TokenAt(s, past) = "," /\ TokenAt(s, past + 1) # "}"
          THEN CheckedMember(s, start, past + 1, depth, duplicates)
     ELSE 0

CheckedElement(s, i, depth, duplicates) ==
  LET past == CheckedValue(s, i, depth, duplicates)
  IN IF past = 0 THEN 0
     ELSE IF TokenAt(s, past) = "]" THEN past + 1
     ELSE IF TokenAt(s, past) = "," /\ TokenAt(s, past + 1) # "]"
          THEN CheckedElement(s, past + 1, depth, duplicates)
     ELSE 0

(* Mutant of AppearedBefore: a name given twice goes unnoticed. *)
NeverAppeared(s, i, before, key, depth) == FALSE

\* Walks again from i; anything it cannot read counts as a duplicate.
AppearedBefore(s, i, before, key, depth) ==
  LET past == CheckedValue(s, i + 2, depth, FALSE)
  IN IF i >= before THEN i # before
     ELSE IF \/ TokenAt(s, i) \notin PlainStrings \/ s[i] = key
             \/ i + 1 >= before \/ s[i + 1] # ":" \/ past = 0 THEN TRUE
     ELSE IF past >= before THEN past # before
     ELSE s[past] # "," \/ AppearedBefore(s, past + 1, before, key, depth)

Invalid == [is |-> "invalid", first |-> 0, last |-> 0]

\* From the member at i, with the one found so far.
RECURSIVE CheckedFrom(_, _, _, _)
CheckedFrom(s, i, key, candidate) ==
  LET past == CheckedValue(s, i + 2, 0, TRUE)
      next == IF TokenAt(s, i) = key THEN [is |-> "found", first |-> i + 2, last |-> past - 1]
              ELSE candidate
  IN IF \/ TokenAt(s, i) \notin PlainStrings
        \/ AppearedBefore(s, 2, i, s[i], 0)
        \/ TokenAt(s, i + 1) # ":"
        \/ past = 0 THEN Invalid
     ELSE IF s[i] = key /\ (candidate.is = "found" \/ s[i + 2] # "{") THEN Invalid
     ELSE IF TokenAt(s, past) = "}" THEN IF past = Len(s) THEN next ELSE Invalid
     ELSE IF TokenAt(s, past) = "," /\ TokenAt(s, past + 1) # "}"
          THEN CheckedFrom(s, past + 1, key, next)
     ELSE Invalid

FindObjectChecked(s, key) ==
  LET missing == [is |-> "missing", first |-> 0, last |-> 0]
  IN IF TokenAt(s, 1) # "{" THEN Invalid
     ELSE IF TokenAt(s, 2) = "}" THEN IF Len(s) = 2 THEN missing ELSE Invalid
     ELSE CheckedFrom(s, 2, key, missing)
=============================================================================
