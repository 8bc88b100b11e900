---------------------------- MODULE MCPrefixTree ----------------------------
(***************************************************************************)
(* A small instance of PrefixTree: paths that are prefixes of each other   *)
(* and that fork below a node, and strings with empty tokens at the front, *)
(* in the middle and at the end.                                           *)
(***************************************************************************)
EXTENDS PrefixTree

MCComponents == {"a", "b"}

MCStrings ==
  {<<>>, <<"a">>, <<"a", "b", "">>, <<"", "a", "", "a", "b">>}

MCCanonical(s) == Remove(s, "")

MCAddresses == 1..6

\* The director asks for the longest prefix and traverses (FilesystemDirector).
DirectorCalls == {"match", "traverse"}
=============================================================================
