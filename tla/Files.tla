------------------------------- MODULE Files --------------------------------
(***************************************************************************)
(* The part of the system's filesystem that Pathwinder's decisions depend  *)
(* on: which paths exist, which of them are directories, what one system   *)
(* call answers and what it creates.  It is outside src/ and modelled from *)
(* the calls the executor and FilesystemOperations make and the result     *)
(* codes they tell apart.                                                  *)
(*                                                                         *)
(* A path is the sequence of its components below one drive, the drive     *)
(* itself being the empty sequence.  Names are compared without case, so a *)
(* component stands for all of its spellings.                              *)
(***************************************************************************)
EXTENDS Naturals, Sequences, FiniteSets, SequencesExt

CONSTANTS
  Names,    \* components of paths
  Paths     \* the paths of the instance

PathsClosed == \A p \in Paths : p # <<>> => Front(p) \in Paths

ASSUME PathsAssumption == Paths \subseteq Seq(Names) /\ <<>> \in Paths /\ PathsClosed

NoPath == <<"no path">>

ASSUME NoPathAssumption == NoPath \notin Seq(Names)

Kinds == {"none", "file", "dir"}

\* What is outside the instance does not exist.
At(F, p) == IF p \in DOMAIN F THEN F[p] ELSE "none"

Exists(F, p) == At(F, p) # "none"

IsDirectory(F, p) == At(F, p) = "dir"

\* Every existing path but the drive lies in an existing directory.
Consistent(F) == \A p \in DOMAIN F : p # <<>> /\ Exists(F, p) => IsDirectory(F, Front(p))

-----------------------------------------------------------------------------
(* One system call that opens or queries a path. *)

Creating  == {"CREATE", "OPEN_IF", "OVERWRITE_IF", "SUPERSEDE"}
Replacing == {"OVERWRITE", "OVERWRITE_IF", "SUPERSEDE"}

\* The create dispositions, a query by path, which opens nothing, and a rename.
Operations == Creating \cup Replacing \cup {"OPEN", "QUERY", "RENAME"}

\* What the caller demands of the path: a file or a directory.
Demands == {"file", "dir"}

CanCreate(F, op, p) ==
  /\ op \in Creating
  /\ p \in DOMAIN F
  /\ p # <<>> /\ IsDirectory(F, Front(p))

\* The four codes after which the executor tries the next path are one here.
Status(F, op, as, p) ==
  CASE ~Exists(F, p) /\ CanCreate(F, op, p)   -> "success"
    [] ~Exists(F, p) /\ ~CanCreate(F, op, p)  -> "not found"
    [] Exists(F, p) /\ op = "CREATE"          -> "collision"
    [] Exists(F, p) /\ op = "QUERY"           -> "success"
    [] OTHER -> IF At(F, p) = as THEN "success" ELSE "refused"

Statuses == {"success", "not found", "collision", "refused"}

Effect(F, op, as, p) ==
  IF ~Exists(F, p) /\ CanCreate(F, op, p) THEN [F EXCEPT ![p] = as] ELSE F

\* Deleting what an open handle refers to fails for a directory with content.
Removable(F, p) == \A q \in DOMAIN F : q # <<>> /\ Exists(F, q) => Front(q) # p

Removed(F, p) == IF Removable(F, p) /\ Exists(F, p) THEN [F EXCEPT ![p] = "none"] ELSE F

\* Moving the file that an open handle refers to; nothing is replaced, and a file
\* that another handle has open is not moved.
MoveStatus(F, from, to, shared) ==
  CASE Exists(F, to) -> IF to = from THEN "success" ELSE "collision"
    [] ~Exists(F, to) /\ ~CanCreate(F, "CREATE", to) -> "not found"
    [] OTHER -> IF shared THEN "refused" ELSE "success"

Moved(F, from, to) == [F EXCEPT ![from] = "none", ![to] = At(F, from)]

-----------------------------------------------------------------------------
(* Where a thread is, as the application knows it. *)

Idle == [step |-> "idle"]

Asking(op, as, p) == [step |-> "asked", op |-> op, as |-> as, path |-> p]

Answered(status) == [step |-> "answered", status |-> status]
=============================================================================
