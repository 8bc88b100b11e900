----------------------------- MODULE HandleNames -----------------------------
(***************************************************************************)
(* What Pathwinder promises about open handles, with no system, store or   *)
(* lock in sight: a table from the handles an application has to the names *)
(* it opened them under, changed by opens, renames and closes in one step  *)
(* each, and questions answered from that table.                           *)
(***************************************************************************)

CONSTANTS Threads, Handles, Names, NoName

VARIABLES
  names,    \* the name of every handle in use, NoName for the others
  told      \* the name last told to each thread

vars == <<names, told>>

Init ==
  /\ names = [h \in Handles |-> NoName]
  /\ told = [t \in Threads |-> NoName]

Open(h, n) ==
  /\ names[h] = NoName
  /\ names' = [names EXCEPT ![h] = n]
  /\ UNCHANGED told

Rename(h, n) ==
  /\ names[h] # NoName
  /\ names' = [names EXCEPT ![h] = n]
  /\ UNCHANGED told

Close(h) ==
  /\ names[h] # NoName
  /\ names' = [names EXCEPT ![h] = NoName]
  /\ UNCHANGED told

Tell(t, h) ==
  /\ names[h] # NoName
  /\ told' = [told EXCEPT ![t] = names[h]]
  /\ UNCHANGED names

Next ==
  \/ \E h \in Handles : \/ \E n \in Names : Open(h, n) \/ Rename(h, n)
                        \/ Close(h)
  \/ \E t \in Threads, h \in Handles : Tell(t, h)

Spec == Init /\ [][Next]_vars
=============================================================================
