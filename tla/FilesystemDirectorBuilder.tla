--------------------- MODULE FilesystemDirectorBuilder ----------------------
(***************************************************************************)
(* The builder of the director: the sections of the configuration file are *)
(* added as rules one after the other, then the rules are verified against *)
(* each other and against the disk.  A directory above an origin directory *)
(* that neither exists nor is an origin itself gets a rule of its own,     *)
(* with a temporary directory as its target, and verification starts again.*)
(***************************************************************************)
EXTENDS FilesystemDirector

CONSTANTS
  Configurations,   \* the sections of a configuration file, and the disk
  Temporary,        \* what UniqueTemporaryDirectory can return
  TempDirectory,    \* where it makes them
  GeneratedName,    \* names of generated rules, by the origin below
  Limit             \* kMaximumFilesystemRuleCount

\* NoPath: a directory, or another setting of the section, that is missing or
\* not valid.
Section == [name : Nat, origin : Paths \cup {NoPath}, target : Paths \cup {NoPath},
            patterns : SUBSET SUBSET Names, mode : Modes]

ASSUME SectionsAssumption ==
  \A c \in Configurations :
    /\ c.sections \in Seq(Section)
    /\ \A i \in DOMAIN c.sections : IsFiniteSet(c.sections[i].patterns)
    /\ c.files \in [Paths -> Kinds]
    /\ IsDirectory(c.files, <<>>) /\ Consistent(c.files)

ASSUME TemporaryAssumption ==
  /\ Temporary \subseteq Paths /\ TempDirectory \in Paths
  /\ \A p \in Temporary : p # <<>> /\ Front(p) = TempDirectory

ASSUME NamesAssumption == GeneratedName \in [Paths -> Nat] /\ Limit \in Nat \ {0}

\* A generated name has a prefix of its own and the origin below in it, and a
\* temporary directory is a new one.
ASSUME FreshAssumption ==
  /\ \A p, q \in Paths : GeneratedName[p] = GeneratedName[q] => p = q
  /\ \A c \in Configurations : \A i \in DOMAIN c.sections :
       /\ \A p \in Paths : c.sections[i].name # GeneratedName[p]
       /\ \A temp \in Temporary : /\ ~IsPrefix(temp, c.sections[i].origin)
                                  /\ ~IsPrefix(temp, c.sections[i].target)

VARIABLES
  config,      \* the configuration and the disk
  next,        \* the section to be read
  errors,      \* sections that were refused: builderHasRuleErrors
  origins,     \* originDirectories
  targets,     \* targetDirectories
  names,       \* filesystemRuleNames
  rules,       \* filesystemRulesByName and filesystemRulesByOriginDirectory
  temporary,   \* TemporaryPathsToClean
  phase

vars == <<config, next, errors, origins, targets, names, rules, temporary, phase>>

Phases == {"reading", "verifying", "built", "refused"}

-----------------------------------------------------------------------------
(* AddRule. *)

\* Mutation of Refused: a target may be the origin of a rule added before.
RefusedByTargets(s) ==
  \/ s.name \in names
  \/ s.origin \in {NoPath, <<>>} \cup targets
  \/ s.target \in {NoPath, <<>>} \cup targets

Refused(s) ==
  \/ s.name \in names
  \/ s.origin \in {NoPath, <<>>} \cup targets
  \/ s.target \in {NoPath, <<>>} \cup origins \cup targets

\* RelatedFilesystemRuleContainer::EmplaceRule refuses.
ContainerFull(s) == Cardinality({r \in rules : r.origin = s.origin}) >= Limit

Fails(s) == Refused(s) \/ ContainerFull(s)

\* The directories and the name are taken before the container is asked.
AddRule(s) ==
  IF Refused(s)
  THEN UNCHANGED <<origins, targets, names, rules>>
  ELSE /\ origins' = origins \cup {s.origin}
       /\ targets' = targets \cup {s.target}
       /\ names' = names \cup {s.name}
       /\ rules' = IF ContainerFull(s) THEN rules ELSE rules \cup {s}

-----------------------------------------------------------------------------
(* BuildFromConfigurationData. *)

\* Every section is read, whatever became of those before it.
ReadSection ==
  /\ phase = "reading"
  /\ next \in DOMAIN config.sections
  /\ LET s == config.sections[next]
     IN /\ AddRule(s)
        /\ errors' = IF Fails(s) THEN errors \cup {next} ELSE errors
  /\ next' = next + 1
  /\ UNCHANGED <<config, temporary, phase>>

\* A configuration without rules makes a director that does nothing.
FinishReading ==
  /\ phase = "reading"
  /\ next \notin DOMAIN config.sections
  /\ phase' = CASE errors # {}              -> "refused"
                [] errors = {} /\ rules = {} -> "built"
                [] OTHER                     -> "verifying"
  /\ UNCHANGED <<config, next, errors, origins, targets, names, rules, temporary>>

-----------------------------------------------------------------------------
(* Build and VerifyPreBuildConstraints.  The rules are gone through in the  *)
(* order of their names up to the first violation; here it may be any.     *)

OriginOccupied(r) ==
  Exists(config.files, r.origin) /\ ~IsDirectory(config.files, r.origin)

ParentMissing(r) ==
  /\ ~IsDirectory(config.files, Front(r.origin))
  /\ Front(r.origin) \notin origins

ParentRule(r, temp) ==
  [name |-> GeneratedName[r.origin], origin |-> Front(r.origin), target |-> temp,
   patterns |-> {}, mode |-> "Simple"]

RefuseOrigin ==
  /\ phase = "verifying"
  /\ \E r \in rules : OriginOccupied(r)
  /\ phase' = "refused"
  /\ UNCHANGED <<config, next, errors, origins, targets, names, rules, temporary>>

\* Mutation of AddParent: that the generated rule was refused goes unnoticed.
AddParentAnyway ==
  /\ phase = "verifying"
  /\ \E r \in rules, temp \in Temporary \ temporary :
       /\ ~OriginOccupied(r) /\ ParentMissing(r)
       /\ AddRule(ParentRule(r, temp))
       /\ temporary' = IF Fails(ParentRule(r, temp)) THEN temporary ELSE temporary \cup {temp}
  /\ UNCHANGED <<config, next, errors, phase>>

AddParent ==
  /\ phase = "verifying"
  /\ \E r \in rules, temp \in Temporary \ temporary :
       /\ ~OriginOccupied(r) /\ ParentMissing(r)
       /\ AddRule(ParentRule(r, temp))
       /\ IF Fails(ParentRule(r, temp))
          THEN phase' = "refused" /\ UNCHANGED temporary
          ELSE temporary' = temporary \cup {temp} /\ UNCHANGED phase
  /\ UNCHANGED <<config, next, errors>>

\* Mutation of InTheWay: targets are held against targets only.
OtherTargets(R) == {r.target : r \in R}

\* What the index of all directories holds.
InTheWay(R) == Origins(R) \cup {r.target : r \in R}

VerifyTargets ==
  /\ phase = "verifying"
  /\ \A r \in rules : ~OriginOccupied(r) /\ ~ParentMissing(r)
  /\ phase' = IF \E r \in rules : \E d \in InTheWay(rules) : IsStrictPrefix(d, r.target)
              THEN "refused" ELSE "built"
  /\ UNCHANGED <<config, next, errors, origins, targets, names, rules, temporary>>

-----------------------------------------------------------------------------

Init ==
  /\ config \in Configurations
  /\ next = 1
  /\ errors = {} /\ origins = {} /\ targets = {} /\ names = {} /\ rules = {}
  /\ temporary = {}
  /\ phase = "reading"

Next == ReadSection \/ FinishReading \/ RefuseOrigin \/ AddParent \/ VerifyTargets

Spec == Init /\ [][Next]_vars

\* One thread builds the director before any hook is set.
FairSpec == Spec /\ WF_vars(Next)

-----------------------------------------------------------------------------
(* Properties. *)

TypeOK ==
  /\ config \in Configurations
  /\ next \in Nat
  /\ errors \subseteq DOMAIN config.sections
  /\ origins \subseteq Paths /\ targets \subseteq Paths
  /\ names \subseteq Nat
  /\ rules \subseteq Rule
  /\ temporary \subseteq Temporary
  /\ phase \in Phases

\* However the rules were put together, and whatever was generated for them, a
\* director is only built on rules and files as its decisions require: no target
\* that is, or lies below, a directory of another rule, and no origin whose
\* parent neither exists nor is one itself.
BuiltIsValid ==
  phase = "built" => ValidRules(rules) /\ ValidFiles(rules, config.files)

\* The origins that sections give, and the directories above them that neither
\* exist nor are origins, up to the first that is.
GivenOrigins(S) == {S[i].origin : i \in DOMAIN S}

MissingParents(S, F) ==
  {p \in Paths : \E i \in DOMAIN S :
     /\ IsStrictPrefix(p, S[i].origin)
     /\ \A q \in Paths : IsPrefix(p, q) /\ IsStrictPrefix(q, S[i].origin) =>
                           ~IsDirectory(F, q) /\ q \notin GivenOrigins(S)}

Separate(S) ==
  /\ \A i \in DOMAIN S : {S[i].origin, S[i].target} \cap {NoPath, <<>>} = {}
  /\ \A i, j \in DOMAIN S : i # j =>
       /\ S[i].name # S[j].name
       /\ S[i].target # S[j].target /\ S[i].target # S[j].origin
  /\ \A i \in DOMAIN S : Cardinality({j \in DOMAIN S : S[j].origin = S[i].origin}) <= Limit

\* The constraints as AddRule and Build are documented to impose them, on the
\* sections as a whole: what the order of the sections is, and in which round a
\* parent is found to be missing, is of no concern.
Acceptable(S, F) ==
  LET parents == MissingParents(S, F)
      given == {S[i].target : i \in DOMAIN S}
      all == GivenOrigins(S) \cup parents \cup given
  IN /\ Separate(S)
     /\ \A p \in GivenOrigins(S) \cup parents : At(F, p) # "file"
     /\ parents \cap given = {}
     /\ \A d \in all, t \in given : ~IsStrictPrefix(d, t)
     /\ parents # {} => \A d \in all : ~IsPrefix(d, TempDirectory)

\* A director is built exactly if the configuration keeps the constraints, and
\* its rules are those of the sections and one for each missing parent.
Verdict ==
  LET S == config.sections  F == config.files
  IN /\ phase = "refused" => ~Acceptable(S, F)
     /\ phase = "built" => /\ Acceptable(S, F)
                           /\ Origins(rules) = GivenOrigins(S) \cup MissingParents(S, F)
                           /\ Cardinality(rules) = Len(S) + Cardinality(MissingParents(S, F))

\* The rounds of verification come to an end.
Ends == <>(phase \in {"built", "refused"})
=============================================================================
