------------------------- MODULE FilesystemDirector -------------------------
(***************************************************************************)
(* The decisions of the filesystem director: which rule an operation on a  *)
(* path belongs to, what is to be tried for it, and which real directories *)
(* a listing is put together from.  The rules R and the files F of the     *)
(* system are parameters: the director itself keeps no state that changes. *)
(* A file pattern is the set of the names it matches.                      *)
(***************************************************************************)
EXTENDS Files

Modes == {"Simple", "Overlay"}

Rule == [name : Nat, origin : Paths, target : Paths,
         patterns : SUBSET SUBSET Names, mode : Modes]

-----------------------------------------------------------------------------
(* Rules and their containers. *)

FileNameMatchesAnyPattern(r, n) ==
  r.patterns = {} \/ \E pattern \in r.patterns : n \in pattern

\* The order of a container: the more patterns the earlier, then by name.
Precedes(r, s) ==
  \/ Cardinality(r.patterns) > Cardinality(s.patterns)
  \/ Cardinality(r.patterns) = Cardinality(s.patterns) /\ r.name < s.name

\* The rule that a loop over S in that order finds first, if there is any.
First(S) == {r \in S : \A s \in S \ {r} : Precedes(r, s)}

Origins(R) == {r.origin : r \in R}

\* The container at the longest origin directory that p is in.
SelectRulesForPath(R, p) ==
  LET covering == {r \in R : IsPrefix(r.origin, p)}
  IN {r \in covering : \A s \in covering : Len(s.origin) <= Len(r.origin)}

IsPrefixForAnyRule(R, p) == \E r \in R : IsPrefix(p, r.origin)

\* The component that is held against the patterns is the one right below the
\* origin directory, however deep the path goes on.
InScope(r, p) ==
  p = r.origin \/ FileNameMatchesAnyPattern(r, p[Len(r.origin) + 1])

RedirectPathOriginToTarget(r, p) == r.target \o SubSeq(p, Len(r.origin) + 1, Len(p))

\* The rule an operation on p is redirected by, if any.  A path without a
\* separator is not looked up.
RuleFor(R, p) ==
  IF p = <<>> THEN {} ELSE First({r \in SelectRulesForPath(R, p) : InScope(r, p)})

-----------------------------------------------------------------------------
(* What the builder promises of the rules and the files they start with.   *)
(* A rule's target may be its own origin.                                  *)

ValidRules(R) ==
  /\ R \subseteq Rule
  /\ IsFiniteSet(R)
  /\ \A r \in R : r.origin # <<>> /\ r.target # <<>> /\ IsFiniteSet(r.patterns)
  /\ \A r, s \in R :
       /\ r.name = s.name => r = s
       /\ r.target = s.target => r = s
       /\ r.target = s.origin => r = s
       /\ ~IsStrictPrefix(s.origin, r.target) /\ ~IsStrictPrefix(s.target, r.target)

ValidFiles(R, F) ==
  /\ F \in [Paths -> Kinds]
  /\ IsDirectory(F, <<>>) /\ Consistent(F)
  /\ \A r \in R : /\ At(F, r.origin) # "file"
                  /\ IsDirectory(F, Front(r.origin)) \/ Front(r.origin) \in Origins(R)

-----------------------------------------------------------------------------
(* Instructions for file operations. *)

Intercepted(R, p) ==
  /\ p # <<>>
  /\ SelectRulesForPath(R, p) = {}
  /\ IsPrefixForAnyRule(R, p)

\* The directory hierarchy that has to exist on the target side beforehand.
EnsureHierarchy(R, F, r, p, creates) ==
  LET redirected == RedirectPathOriginToTarget(r, p)
      directory == IF p = r.origin THEN p ELSE Front(p)
  IN IF creates
     THEN IF directory \in Origins(R) \/ IsDirectory(F, directory)
          THEN Front(redirected) ELSE NoPath
     ELSE IF IsDirectory(F, p) THEN redirected ELSE NoPath

-----------------------------------------------------------------------------
(* Instructions for directory listings. *)

\* Mutation of IdentifyRule: only the target directory itself is recognized.
IdentifyRuleAtTarget(C, real) == First({r \in C : r.target = real})

IdentifyRule(C, real) == First({r \in C : IsPrefix(r.target, real)})

\* The names for which r is the first rule of its container that matches.
OwnNames(C, r) == {n \in Names : r \in First({s \in C : FileNameMatchesAnyPattern(s, n)})}

Queue(directory, names) == [directory |-> directory, names |-> names]

\* The target side of the listing of a redirected directory.
TargetQueues(R, associated, real) ==
  LET C == SelectRulesForPath(R, associated)
  IN IF associated \in Origins(C)
     THEN IF Cardinality(C) = 1
          THEN {Queue(real, {n \in Names : FileNameMatchesAnyPattern(r, n)}) : r \in C}
          ELSE {Queue(r.target, OwnNames(C, r)) : r \in C}
     ELSE {Queue(real, Names)}

\* Mutation of ShownNames: a rule in simple mode hides nothing.
ShownNamesAll(C) == Names

\* The names of the origin side that the rules do not hide.
ShownNames(C) ==
  IF \A r \in C : r.mode = "Overlay" THEN Names
  ELSE {n \in Names :
          \A r \in First({s \in C : FileNameMatchesAnyPattern(s, n)}) : r.mode = "Overlay"}

\* Mutation of OriginQueues: the origin side is listed only at the origin
\* directory, not below it.
OriginQueuesAtOrigin(R, associated, real) ==
  LET C == SelectRulesForPath(R, associated)
      replaced == /\ \A r \in C : r.mode = "Simple"
                  /\ \E r \in C : r.patterns = {}
  IN IF associated \in Origins(C) /\ ~replaced
     THEN {Queue(associated, ShownNames(C))} ELSE {}

\* The origin side of that listing.
OriginQueues(R, associated, real) ==
  LET C == SelectRulesForPath(R, associated)
      replaced == /\ \A r \in C : r.mode = "Simple"
                  /\ \E r \in C : r.patterns = {}
  IN IF associated \in Origins(C)
     THEN IF replaced THEN {} ELSE {Queue(associated, ShownNames(C))}
     ELSE {Queue(associated, Names) : r \in {s \in IdentifyRule(C, real) : s.mode = "Overlay"}}

\* The directories a listing reads, those of the first set before the others.
DirectoriesToEnumerate(R, associated, real) ==
  IF associated = real
  THEN <<{Queue(real, Names)}, {}>>
  ELSE <<TargetQueues(R, associated, real), OriginQueues(R, associated, real)>>

\* The target directory that an inserted origin directory is described by.
InsertionSource(R, F, origin) ==
  LET C == {r \in R : r.origin = origin}
      present == {r \in C : IsDirectory(F, r.target)}
  IN {r.target : r \in First(IF present = {} THEN C ELSE present)}

DirectoryNamesToInsert(R, F, associated) ==
  {n \in Names : \E target \in InsertionSource(R, F, Append(associated, n)) :
                   Exists(F, target)}
=============================================================================
