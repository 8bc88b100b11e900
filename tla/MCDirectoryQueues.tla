-------------------------- MODULE MCDirectoryQueues --------------------------
(***************************************************************************)
(* Small instances of DirectoryQueues: the target and the origin of an     *)
(* overlay rule and a queue of inserted names.  A lower-case and an upper- *)
(* case letter are the same name.                                          *)
(***************************************************************************)
EXTENDS DirectoryQueues

MCNames == {"a", "A", "b", "B", "c"}

MCKey(n) == CASE n \in {"a", "A"} -> 1 [] n \in {"b", "B"} -> 2 [] OTHER -> 3

MCSize(n) == IF n = "c" THEN 2 ELSE 1

\* The second queue leaves out a name that belongs to another rule.
MCIncluded(i, n) == ~(i = 2 /\ n = "c")

MCMissing == {"b"}

\* Both sides sorted, and a side that the system does not list in order.
MCDirectories ==
  {<<<<"a", "b">>, <<"A", "B", "c">>, <<"A", "b">>>>,
   <<<<"c">>, <<"b", "c">>, <<"A">>>>,
   <<<<"b", "a">>, <<"A", "c", "B">>, <<"c">>>>}

\* One file on each side, and two insertions.
MCShortDirectories == {<<<<"b">>, <<"c", "A">>, <<"B">>>>}

MCMatches(n, p) == p = "any" \/ (p = "early" /\ MCKey(n) < 3) \/ (p = "late" /\ MCKey(n) = 3)
=============================================================================
