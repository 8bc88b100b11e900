----------------------------- MODULE PrefixMap ------------------------------
(***************************************************************************)
(* What PrefixTree.h promises the director and its builder: a map from     *)
(* paths to data, with questions about the prefixes of a path.  A call     *)
(* starts, has its effect, and returns; one call runs at a time.           *)
(***************************************************************************)
EXTENDS Prefixes

VARIABLES
  entries,  \* the pairs of a path and its datum
  pending,  \* the call that runs
  answer    \* what the last call returned

mapVars == <<entries, pending, answer>>

Contained == {e[1] : e \in entries}

-----------------------------------------------------------------------------
Init == entries = {} /\ pending = NoCall /\ answer = NoAnswer

Begin(op, s, d) ==
  /\ pending = NoCall
  /\ pending' = Call(op, s, d)
  /\ answer' = NoAnswer
  /\ UNCHANGED entries

\* The answers that callers hold are not used after the map is handed on.
HandOn ==
  /\ pending = NoCall
  /\ answer' = NoAnswer
  /\ UNCHANGED <<entries, pending>>

Running(op) == pending.op = op
Argument == Canonical(pending.string)

Return(p, b) == pending' = NoCall /\ answer' = Answer(p, b)

Without(p) == {e \in entries : e[1] # p}

Insert ==
  /\ Running("insert")
  /\ \/ /\ Argument \in Contained
        /\ Return(Argument, FALSE)
        /\ UNCHANGED entries
     \/ /\ Argument \notin Contained
        /\ entries' = entries \cup {<<Argument, pending.datum>>}
        /\ Return(Argument, TRUE)

Update ==
  /\ Running("update")
  /\ entries' = Without(Argument) \cup {<<Argument, pending.datum>>}
  /\ Return(Argument, TRUE)

Erase ==
  /\ Running("erase")
  /\ \/ /\ Argument \in Contained
        /\ entries' = Without(Argument)
        /\ pending' = [pending EXCEPT !.op = "erased"]
        /\ UNCHANGED answer
     \/ /\ Argument \notin Contained
        /\ Return(NoPath, FALSE)
        /\ UNCHANGED entries

Erased ==
  /\ Running("erased")
  /\ Return(NoPath, TRUE)
  /\ UNCHANGED entries

Find ==
  /\ Running("find")
  /\ Return(IF Argument \in Contained THEN Argument ELSE NoPath, FALSE)
  /\ UNCHANGED entries

Traverse ==
  /\ Running("traverse")
  /\ Return(IF Argument = <<>> \/ \E p \in Contained : IsPrefix(Argument, p)
              THEN Argument ELSE NoPath, FALSE)
  /\ UNCHANGED entries

Match ==
  /\ Running("match")
  /\ Return(Longest({p \in Contained : IsPrefix(p, Argument)}), FALSE)
  /\ UNCHANGED entries

Ancestor ==
  /\ Running("ancestor")
  /\ Return(IF Argument \in Contained
              THEN Longest({p \in Contained : IsStrictPrefix(p, Argument)})
              ELSE NoPath, FALSE)
  /\ UNCHANGED entries

Next ==
  \/ \E op \in Operations, s \in Strings, d \in Data : Begin(op, s, d)
  \/ HandOn
  \/ Insert \/ Update \/ Erase \/ Erased \/ Find \/ Traverse \/ Match \/ Ancestor

Spec == Init /\ [][Next]_mapVars
=============================================================================
