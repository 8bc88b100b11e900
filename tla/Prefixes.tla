------------------------------ MODULE Prefixes ------------------------------
(***************************************************************************)
(* The strings, paths and calls of a prefix tree.  A string is the         *)
(* sequence of its tokens.  Canonical(s) is the path that remains when the *)
(* empty tokens, which consecutive, leading and trailing delimiters make,  *)
(* are dropped.                                                            *)
(***************************************************************************)
EXTENDS Naturals, Sequences, SequencesExt

CONSTANTS
  Components,    \* non-empty tokens, up to the equality the tree compares with
  Empty,         \* the empty token
  Data,          \* what an entry may hold
  Strings,       \* the strings that callers pass
  Canonical(_),  \* the path that the first tokens of a string name
  NoPath         \* no node

Tokens == Components \cup {Empty}

ASSUME StringsAssumption == Strings \subseteq Seq(Tokens)

ASSUME EmptyAssumption == Empty \notin Components

ASSUME NoPathAssumption == NoPath \notin Seq(Components)

ASSUME CanonicalAssumption ==
  /\ Canonical(<<>>) = <<>>
  /\ \A s \in Strings : \A i \in 1..Len(s) :
       Canonical(SubSeq(s, 1, i)) =
         LET shorter == Canonical(SubSeq(s, 1, i - 1))
         IN  IF s[i] = Empty THEN shorter ELSE Append(shorter, s[i])

\* A longer string names a path below; both follow from the above by induction.
ASSUME CanonicalGrows ==
  \A s \in Strings :
    /\ Canonical(s) \in Seq(Components)
    /\ \A i \in 0..Len(s) : IsPrefix(Canonical(SubSeq(s, 1, i)), Canonical(s))

Operations == {"insert", "update", "erase", "find", "traverse", "match", "ancestor"}

Call(op, s, d) == [op |-> op, string |-> s, datum |-> d]
NoCall == [op |-> "idle"]

Answer(p, b) == [node |-> p, modified |-> b]
NoAnswer == Answer(NoPath, FALSE)

Longest(ps) == IF ps = {} THEN NoPath ELSE CHOOSE p \in ps : \A q \in ps : Len(q) <= Len(p)

=============================================================================
