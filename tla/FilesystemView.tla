--------------------------- MODULE FilesystemView ---------------------------
(***************************************************************************)
(* What Pathwinder promises an application: the files it sees behave like  *)
(* one ordinary filesystem.  Every request is answered by one atomic       *)
(* operation on that filesystem, at some moment between the call and the   *)
(* return, and the handles the application holds name paths in it.         *)
(***************************************************************************)
EXTENDS Files

CONSTANT Threads

VARIABLES
  view,   \* the filesystem the application sees
  held,   \* the path of the handle each thread holds, or NoPath
  talk    \* where each thread is: idle, in a call, or with its answer

viewVars == <<view, held, talk>>

VInit ==
  /\ Consistent(view)
  /\ held = [t \in Threads |-> NoPath]
  /\ talk = [t \in Threads |-> Idle]

VAsk(t) ==
  /\ talk[t] = Idle
  /\ \E op \in Operations, as \in Demands, p \in Paths :
       /\ op = "RENAME" => held[t] # NoPath
       /\ talk' = [talk EXCEPT ![t] = Asking(op, as, p)]
  /\ UNCHANGED <<view, held>>

\* The request takes effect and its answer is known.
VTake(t) ==
  /\ talk[t].step = "asked" /\ talk[t].op # "RENAME"
  /\ LET op == talk[t].op  as == talk[t].as  p == talk[t].path
         status == Status(view, op, as, p)
     IN /\ view' = Effect(view, op, as, p)
        /\ held' = IF status = "success" /\ op # "QUERY" THEN [held EXCEPT ![t] = p] ELSE held
        /\ talk' = [talk EXCEPT ![t] = Answered(status)]

\* The file of the handle is moved, and the handle means the new path.
VMove(t) ==
  /\ talk[t].step = "asked" /\ talk[t].op = "RENAME"
  /\ LET from == held[t]  to == talk[t].path
         shared == \E u \in Threads \ {t} : held[u] = from
         status == MoveStatus(view, from, to, shared)
     IN /\ view' = IF status = "success" THEN Moved(view, from, to) ELSE view
        /\ held' = IF status = "success" THEN [held EXCEPT ![t] = to] ELSE held
        /\ talk' = [talk EXCEPT ![t] = Answered(status)]

VReturn(t) ==
  /\ talk[t].step = "answered"
  /\ talk' = [talk EXCEPT ![t] = Idle]
  /\ UNCHANGED <<view, held>>

VClose(t) ==
  /\ talk[t] = Idle
  /\ held[t] # NoPath
  /\ held' = [held EXCEPT ![t] = NoPath]
  /\ view' \in {view, Removed(view, held[t])}
  /\ UNCHANGED talk

VNext == \E t \in Threads : VAsk(t) \/ VTake(t) \/ VMove(t) \/ VReturn(t) \/ VClose(t)

VSpec == VInit /\ [][VNext]_viewVars
=============================================================================
