------------------------------ MODULE SimpleUse ------------------------------
(***************************************************************************)
(* Rules in simple mode, and how an application has to use the filesystem  *)
(* so that what it sees behaves like an ordinary one.  These are the       *)
(* hypotheses of theorems; the run of MCSimple checks that its             *)
(* configurations and requests satisfy them.                               *)
(***************************************************************************)
EXTENDS Redirection

\* All rules are in simple mode.
SimpleMode == \A c \in Configurations : \A r \in c.rules : r.mode = "Simple"

\* A directory that is opened without being intercepted has no redirected path
\* below it, if it is used as a root directory: UnknownRootNeedsNoRule.
RootsAreKnown ==
  \A c \in Configurations, d \in Roots, p \in Paths :
    /\ RuleFor(c.rules, d) = {} /\ ~Intercepted(c.rules, d)
    /\ IsPrefix(d, p)
    => RuleFor(c.rules, p) = {}

\* No rule's target is at, above or below an origin directory.  The builder
\* refuses only targets below one.
RulesApart(R) ==
  \A r, s \in R : ~IsPrefix(s.origin, r.target) /\ ~IsPrefix(r.target, s.origin)

TargetsApart == \A c \in Configurations : RulesApart(c.rules)

-----------------------------------------------------------------------------
(* Ordinary use.  App is the set of the paths that the application names.  *)

\* The file that rules in simple mode select for a path.
Place(R, p) ==
  IF RuleFor(R, p) = {} THEN p
  ELSE RedirectPathOriginToTarget(CHOOSE r \in RuleFor(R, p) : TRUE, p)

\* What a request may name: relative requests are below a root directory, and
\* renames by a bare name beside the file, that was named before.
NamedBy(App, req) ==
  CASE ~req.root                      -> {req.path}
    [] req.root /\ req.op # "RENAME" -> {d \o req.path : d \in Roots \cap App}
    [] OTHER                          -> {Front(p) \o req.path : p \in App}

\* The application names what it names by its requests and nothing else.
ClosedUnderRequests(App) ==
  App \subseteq Paths /\ \A req \in Requests : NamedBy(App, req) \cap Paths \subseteq App

\* It stays away from the target side.
KeepsToVisible(R, App) ==
  \A p \in App : /\ p \in VisibleUnder(R) /\ Place(R, p) \in Paths
                 /\ p # <<>> => Front(p) \in VisibleUnder(R)

\* There is nothing beside the directories that lead to a target.
NothingBeside(R, F) ==
  \A p \in VisibleUnder(R) : p # <<>> /\ Exists(F, p) => Front(p) \in VisibleUnder(R)

\* No directory of the origin side is hidden by a rule.
NothingHidden(R, F) ==
  \A p \in Paths \ Origins(R) : RuleFor(R, p) # {} => ~IsDirectory(F, p)

\* The directories of the target side can be created.
TargetsClear(R, F) ==
  \A r \in R, p \in Paths : IsPrefix(p, r.target) => At(F, p) # "file"

\* An origin directory exists, or its target does and the rules take all that
\* is in it.
OriginsExist(R, F) ==
  \A o \in Origins(R) :
    \/ IsDirectory(F, o)
    \/ /\ IsDirectory(F, Place(R, o))
       /\ \A p \in Paths : p # <<>> /\ Front(p) = o => RuleFor(R, p) # {}

\* An origin directory that is in a redirected directory has its target: the
\* listing of the other is told of it by its target only (InsertionSource).
NestedOriginsExist(R, F) ==
  \A o \in Origins(R) : RuleFor(R, Front(o)) # {} => IsDirectory(F, Place(R, o))

\* The application knows that an origin directory exists and is a directory,
\* unless its target is there to say so.
OriginIsKnown(R, F, o, op, as) ==
  \/ IsDirectory(F, Place(R, o))
  \/ op \notin {"CREATE", "RENAME"} /\ (op \in Creating => as = "dir")

OriginsAreKnown(R, F, App) ==
  \A req \in Requests : \A o \in NamedBy(App, req) \cap Origins(R) :
    OriginIsKnown(R, F, o, req.op, req.as)

\* It does not ask for an origin directory to be created if that has its target
\* right below the drive: such a request is refused, as the directory that would
\* have to hold the target is the drive (Climb).
HierarchiesNamed(R, App) ==
  \A req \in Requests : \A o \in NamedBy(App, req) \cap Origins(R) :
    req.op \in Creating \cup {"RENAME"} => Front(Place(R, o)) # <<>>

OrdinaryUse(App) ==
  /\ SimpleMode /\ RootsAreKnown /\ TargetsApart
  /\ ClosedUnderRequests(App)
  /\ \A c \in Configurations :
       /\ KeepsToVisible(c.rules, App)
       /\ NothingBeside(c.rules, c.files) /\ NothingHidden(c.rules, c.files)
       /\ TargetsClear(c.rules, c.files) /\ OriginsExist(c.rules, c.files)
       /\ OriginsAreKnown(c.rules, c.files, App) /\ HierarchiesNamed(c.rules, App)
=============================================================================
