------------------------------- MODULE Listing -------------------------------
(***************************************************************************)
(* What an application is promised when it lists a directory call by call: *)
(* a set of names still to be told, however many places they come from and *)
(* however large its buffers are.  Names that differ in case are one key.  *)
(***************************************************************************)
EXTENDS Naturals, FiniteSets

CONSTANT Keys

VARIABLES
  todo,     \* keys not told since the scan began
  fresh,    \* the scan has neither found a name nor been answered for
  failed,   \* the system has reported an error during the scan
  reply     \* status and keys of the last answer

vars == <<todo, fresh, failed, reply>>

\* The keys of S in some order, each once.
Orders(S) ==
  {f \in [1 .. Cardinality(S) -> S] : \A i, j \in DOMAIN f : f[i] = f[j] => i = j}

Init ==
  /\ todo = {}
  /\ fresh = TRUE
  /\ failed = FALSE
  /\ reply = [status |-> "none", keys |-> <<>>]

\* A scan begins, or begins again.
Restart ==
  /\ todo' \in SUBSET Keys
  /\ fresh' = TRUE
  /\ failed' \in BOOLEAN
  /\ UNCHANGED reply

\* The system reports an error; the scan does not recover.
Break ==
  /\ failed' = TRUE
  /\ UNCHANGED <<todo, fresh, reply>>

\* There is a name to tell: the scan is not one of no files at all.
Find ==
  /\ todo # {}
  /\ fresh' = FALSE
  /\ UNCHANGED <<todo, failed, reply>>

Say(status, keys) ==
  /\ reply' = [status |-> status, keys |-> keys]
  /\ fresh' = FALSE
  /\ UNCHANGED failed

Tell ==
  /\ ~failed
  /\ \E S \in SUBSET todo :
       /\ S # {}
       /\ todo' = todo \ S
       /\ \E keys \in Orders(S) : Say("success", keys)

\* Not even one name fits: none is lost.
Overflow ==
  /\ ~failed
  /\ todo # {}
  /\ Say("overflow", <<>>)
  /\ UNCHANGED todo

End ==
  /\ ~failed
  /\ todo = {}
  /\ Say(IF fresh THEN "noSuchFile" ELSE "noMoreFiles", <<>>)
  /\ UNCHANGED todo

Fail ==
  /\ failed
  /\ Say("error", <<>>)
  /\ UNCHANGED todo

Next == Restart \/ Break \/ Find \/ Tell \/ Overflow \/ End \/ Fail

Spec == Init /\ [][Next]_vars
=============================================================================
