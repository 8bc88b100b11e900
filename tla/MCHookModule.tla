---------------------------- MODULE MCHookModule ----------------------------
(***************************************************************************)
(* A small instance of HookModule: a directory g that holds an origin      *)
(* directory o, an overlay from t for the name x in it, a directory y in   *)
(* it that the rule leaves alone, and the temporary directory w.           *)
(***************************************************************************)
EXTENDS HookModule, TLC

CONSTANTS h1, h2, h3

MCNames == {"g", "o", "x", "y", "z", "t", "w"}

MCPaths == {<<>>, <<"g">>, <<"g", "o">>, <<"g", "o", "x">>, <<"g", "o", "y">>,
            <<"t">>, <<"t", "x">>, <<"w">>}

MCConfigured ==
  {[name |-> 1, origin |-> <<"g", "o">>, target |-> <<"t">>, patterns |-> {{"x"}},
    mode |-> "Overlay"]}

\* A second rule, whose origin directory is in the directory left alone.
MCNested ==
  MCConfigured \cup
    {[name |-> 2, origin |-> <<"g", "o", "y", "z">>, target |-> <<"w", "z">>, patterns |-> {},
      mode |-> "Simple"]}

MCNestedPaths == MCPaths \cup {<<"g", "o", "y", "z">>, <<"w", "z">>}

MCCurrent == {<<"g">>, <<"g", "o">>, <<"g", "o", "y">>, <<"w">>}

MCTemporary == <<"w">>

MCRequests == {<<"g", "o">>, <<"o">>, <<"x">>}

Symmetric == Permutations(Handles)
=============================================================================
