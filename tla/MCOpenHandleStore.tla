-------------------------- MODULE MCOpenHandleStore --------------------------
(***************************************************************************)
(* Small instances of OpenHandleStore: one name above an origin directory, *)
(* one redirected name below it, one unrelated name.                       *)
(***************************************************************************)
EXTENDS OpenHandleStoreInvariant, TLC

Symmetric == Permutations(Threads) \cup Permutations(Handles)

\* The last answer given to a thread steers nothing: no guard reads it, and what
\* is said of it is said of the step that gives it.
WithoutAnswers == <<files, app, store, writer, pc, job, dangling>>

MCNames == {"above", "inside", "outside"}

MCRedirected == {"inside"}

MCPrefixes == {"above"}

MCParts == {"in", "out"}

MCJoin(n, p) ==
  CASE n = "above" /\ p = "out" -> "outside"
    [] n = "outside" -> "outside"
    [] OTHER -> "inside"

\* A move within a directory of the rule keeps to the patterns of the rule.
MCSibling(n, p) == IF p = "in" \/ n = "inside" THEN n ELSE "outside"

\* A move from a name that matches the patterns of a rule to one that does not.
SiblingOut(n, p) == IF p = "in" THEN n ELSE "outside"

\* Threads read through one handle at once; nothing overlaps a close or a rename.
ReadersOverlap == {{"query"}, {"relative"}, {"query", "relative"},
                   {"enumerate", "query"}, {"enumerate", "relative"}}

\* One thread renames a file while another asks for its name.
RenameOverlapsQuery == {{"rename", "query"}}

\* Two threads list one directory handle at once.
ListingsOverlap == {{"enumerate"}}
=============================================================================
