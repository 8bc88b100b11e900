------------------ MODULE FilesystemDirectorBuilderProofs -------------------
(***************************************************************************)
(* Proofs about FilesystemDirectorBuilder, for any configuration and any   *)
(* disk: a director is only built on rules and files that Redirection      *)
(* assumes of its configurations, and it is built exactly if the sections  *)
(* as a whole keep the constraints, whatever their order is.               *)
(***************************************************************************)
EXTENDS FilesystemDirectorBuilder, FiniteSetTheorems, SequenceTheorems, WellFoundedInduction,
        TLAPS

\* The sets that AddRule consults know of every rule.
Indexed ==
  \A r \in rules :
    /\ r.name \in names /\ r.origin \in origins /\ r.target \in targets
    /\ r.origin # <<>> /\ r.target # <<>> /\ IsFiniteSet(r.patterns)

Distinct ==
  \A r, s \in rules :
    /\ r.name = s.name => r = s
    /\ r.target = s.target => r = s
    /\ r.target = s.origin => r = s

RulesSound ==
  /\ origins \subseteq Paths /\ targets \subseteq Paths /\ names \subseteq Nat
  /\ rules \subseteq Rule /\ IsFiniteSet(rules)
  /\ Indexed /\ Distinct

\* An origin is known without a rule only after a rule was refused.
OriginsUsed ==
  /\ phase \in {"verifying", "built"} => errors = {}
  /\ errors = {} /\ phase # "refused" => origins \subseteq Origins(rules)

BInv == TypeOK /\ RulesSound /\ OriginsUsed /\ BuiltIsValid

-----------------------------------------------------------------------------
(* Adding a rule. *)

\* A rule that is not refused becomes one of distinct, indexed rules.
LEMMA AddRuleSound ==
  ASSUME RulesSound, NEW s \in Section, IsFiniteSet(s.patterns), AddRule(s)
  PROVE  /\ RulesSound'
         /\ ~Fails(s) /\ origins \subseteq Origins(rules) => origins' \subseteq Origins(rules')
<1>1. CASE Refused(s)
  <2>1. UNCHANGED <<origins, targets, names, rules>>
    BY <1>1 DEF AddRule
  <2>2. RulesSound'
    BY <2>1 DEF RulesSound, Indexed, Distinct
  <2> QED BY <1>1, <2>2 DEF Fails
<1>2. CASE ~Refused(s)
  <2>1. /\ s.name \in Nat /\ s.name \notin names
        /\ s.origin \in Paths /\ s.origin # <<>> /\ s.origin \notin targets
        /\ s.target \in Paths /\ s.target # <<>> /\ s.target \notin origins \cup targets
    BY <1>2 DEF Refused, Section
  <2>2. s \in Rule
    BY <2>1 DEF Section, Rule
  <2>3. /\ origins' = origins \cup {s.origin} /\ targets' = targets \cup {s.target}
        /\ names' = names \cup {s.name}
        /\ rules' = IF ContainerFull(s) THEN rules ELSE rules \cup {s}
    BY <1>2 DEF AddRule
  <2>4. rules' \subseteq Rule /\ rules' \subseteq rules \cup {s}
    BY <2>2, <2>3 DEF RulesSound
  <2>5. IsFiniteSet(rules')
    BY <2>3, FS_AddElement DEF RulesSound
  <2>6. Indexed'
    BY <2>1, <2>3, <2>4 DEF RulesSound, Indexed
  <2>7. Distinct'
    <3> SUFFICES ASSUME NEW q \in rules', NEW r \in rules', q # r
                 PROVE  q.name # r.name /\ q.target # r.target /\ q.target # r.origin
      BY DEF Distinct
    <3>1. \A p \in rules : /\ p.name # s.name /\ p.target # s.target
                           /\ p.target # s.origin /\ s.target # p.origin
      BY <2>1 DEF RulesSound, Indexed
    <3>2. CASE q \in rules /\ r \in rules
      BY <3>2 DEF RulesSound, Distinct
    <3>3. CASE q = s /\ r \in rules
      BY <3>1, <3>3
    <3>4. CASE r = s /\ q \in rules
      BY <3>1, <3>4
    <3> QED BY <2>4, <3>2, <3>3, <3>4
  <2>8. origins' \subseteq Paths /\ targets' \subseteq Paths /\ names' \subseteq Nat
    BY <2>1, <2>3 DEF RulesSound
  <2>9. ASSUME ~Fails(s), origins \subseteq Origins(rules)
        PROVE  origins' \subseteq Origins(rules')
    BY <2>3, <2>9 DEF Fails, Origins
  <2> QED BY <2>4, <2>5, <2>6, <2>7, <2>8, <2>9 DEF RulesSound
<1> QED BY <1>1, <1>2

\* What is generated for a missing parent has the form of a section.
LEMMA ParentRuleIsSection ==
  ASSUME RulesSound, NEW r \in rules, NEW temp \in Temporary
  PROVE  ParentRule(r, temp) \in Section /\ IsFiniteSet(ParentRule(r, temp).patterns)
<1>1. r.origin \in Paths /\ r.origin # <<>>
  BY DEF RulesSound, Indexed, Rule
<1>2. Front(r.origin) \in Paths
  BY <1>1, PathsAssumption DEF PathsClosed
<1>3. GeneratedName[r.origin] \in Nat /\ temp \in Paths
  BY <1>1, NamesAssumption, TemporaryAssumption
<1>4. IsFiniteSet({})
  BY FS_EmptySet
<1> QED BY <1>2, <1>3, <1>4 DEF ParentRule, Section, Modes

-----------------------------------------------------------------------------
(* The steps. *)

LEMMA ReadSectionPreserves ==
  ASSUME BInv, ReadSection
  PROVE  BInv'
<1> DEFINE s == config.sections[next]
<1>1. config \in Configurations /\ next \in DOMAIN config.sections /\ phase = "reading"
  BY DEF BInv, TypeOK, ReadSection
<1>2. s \in Section /\ IsFiniteSet(s.patterns)
  BY <1>1, SectionsAssumption
<1>3. /\ AddRule(s) /\ next' = next + 1
      /\ errors' = IF Fails(s) THEN errors \cup {next} ELSE errors
      /\ UNCHANGED <<config, temporary, phase>>
  BY DEF ReadSection
<1> HIDE DEF s
<1>4. RulesSound' /\ (~Fails(s) /\ origins \subseteq Origins(rules) => origins' \subseteq Origins(rules'))
  BY <1>2, <1>3, AddRuleSound DEF BInv
<1>5. TypeOK'
  BY <1>1, <1>3, <1>4 DEF BInv, TypeOK, RulesSound, Phases
<1>6. OriginsUsed'
  <2>1. CASE Fails(s)
    BY <1>1, <1>3, <2>1 DEF OriginsUsed
  <2>2. CASE ~Fails(s)
    <3>1. errors' = errors /\ phase' = "reading"
      BY <1>1, <1>3, <2>2
    <3>2. errors = {} => origins \subseteq Origins(rules)
      BY <1>1 DEF BInv, OriginsUsed
    <3>3. errors' = {} => origins' \subseteq Origins(rules')
      BY <1>4, <2>2, <3>1, <3>2
    <3>4. Origins(rules') = Origins(rules)'
      BY DEF Origins
    <3> QED BY <3>1, <3>3, <3>4 DEF OriginsUsed
  <2> QED BY <2>1, <2>2
<1>7. BuiltIsValid'
  BY <1>1, <1>3 DEF BuiltIsValid
<1> QED BY <1>4, <1>5, <1>6, <1>7 DEF BInv

LEMMA FinishReadingPreserves ==
  ASSUME BInv, FinishReading
  PROVE  BInv'
<1>1. /\ UNCHANGED <<config, next, errors, origins, targets, names, rules, temporary>>
      /\ phase = "reading"
      /\ phase' \in Phases
      /\ phase' \in {"verifying", "built"} => errors = {}
      /\ phase' = "built" => rules = {}
  BY DEF FinishReading, Phases
<1>2. TypeOK' /\ RulesSound'
  BY <1>1 DEF BInv, TypeOK, RulesSound, Indexed, Distinct
<1>3. OriginsUsed'
  <2>1. errors = {} => origins \subseteq Origins(rules)
    BY <1>1 DEF BInv, OriginsUsed
  <2> QED BY <1>1, <2>1 DEF OriginsUsed, Origins
<1>4. BuiltIsValid'
  <2>1. ASSUME rules = {} PROVE ValidRules(rules) /\ ValidFiles(rules, config.files)
    <3>1. config.files \in [Paths -> Kinds] /\ IsDirectory(config.files, <<>>) /\ Consistent(config.files)
      BY SectionsAssumption DEF BInv, TypeOK
    <3> QED BY <2>1, <3>1, FS_EmptySet DEF ValidRules, ValidFiles
  <2> QED BY <1>1, <2>1 DEF BuiltIsValid, ValidRules, ValidFiles
<1> QED BY <1>2, <1>3, <1>4 DEF BInv

LEMMA RefuseOriginPreserves ==
  ASSUME BInv, RefuseOrigin
  PROVE  BInv'
<1>1. /\ UNCHANGED <<config, next, errors, origins, targets, names, rules, temporary>>
      /\ phase' = "refused"
  BY DEF RefuseOrigin
<1> QED BY <1>1 DEF BInv, TypeOK, RulesSound, Indexed, Distinct, OriginsUsed, BuiltIsValid, Phases

LEMMA AddParentPreserves ==
  ASSUME BInv, AddParent
  PROVE  BInv'
<1>1. PICK r \in rules, temp \in Temporary \ temporary :
        /\ AddRule(ParentRule(r, temp))
        /\ IF Fails(ParentRule(r, temp))
           THEN phase' = "refused" /\ UNCHANGED temporary
           ELSE temporary' = temporary \cup {temp} /\ UNCHANGED phase
  BY DEF AddParent
<1> DEFINE s == ParentRule(r, temp)
<1>2. s \in Section /\ IsFiniteSet(s.patterns)
  BY ParentRuleIsSection DEF BInv
<1>3. /\ phase = "verifying" /\ UNCHANGED <<config, next, errors>>
      /\ AddRule(s)
      /\ Fails(s) => phase' = "refused" /\ temporary' = temporary
      /\ ~Fails(s) => phase' = "verifying" /\ temporary' = temporary \cup {temp}
  BY <1>1 DEF AddParent
<1> HIDE DEF s
<1>4. RulesSound' /\ (~Fails(s) /\ origins \subseteq Origins(rules) => origins' \subseteq Origins(rules'))
  BY <1>2, <1>3, AddRuleSound DEF BInv
<1>5. TypeOK'
  BY <1>3, <1>4 DEF BInv, TypeOK, RulesSound, Phases
<1>6. OriginsUsed'
  <2>1. CASE Fails(s)
    BY <1>3, <2>1 DEF OriginsUsed
  <2>2. CASE ~Fails(s)
    <3>1. errors = {} /\ origins \subseteq Origins(rules)
      BY <1>3 DEF BInv, OriginsUsed
    <3>2. origins' \subseteq Origins(rules')
      BY <1>4, <2>2, <3>1
    <3>3. Origins(rules') = Origins(rules)'
      BY DEF Origins
    <3> QED BY <1>3, <3>1, <3>2, <3>3 DEF OriginsUsed
  <2> QED BY <2>1, <2>2
<1>7. BuiltIsValid'
  BY <1>3 DEF BuiltIsValid
<1> QED BY <1>4, <1>5, <1>6, <1>7 DEF BInv

LEMMA VerifyTargetsPreserves ==
  ASSUME BInv, VerifyTargets
  PROVE  BInv'
<1> DEFINE F == config.files
<1>1. /\ UNCHANGED <<config, next, errors, origins, targets, names, rules, temporary>>
      /\ phase = "verifying" /\ phase' \in {"refused", "built"}
      /\ \A r \in rules : ~OriginOccupied(r) /\ ~ParentMissing(r)
      /\ phase' = "built" =>
           \A r \in rules : \A d \in InTheWay(rules) : ~IsStrictPrefix(d, r.target)
  BY DEF VerifyTargets
<1>2. TypeOK' /\ RulesSound' /\ OriginsUsed'
  <2>1. TypeOK'
    BY <1>1 DEF BInv, TypeOK, Phases
  <2>2. RulesSound'
    BY <1>1 DEF BInv, RulesSound, Indexed, Distinct
  <2>3. OriginsUsed'
    BY <1>1 DEF BInv, OriginsUsed, Origins
  <2> QED BY <2>1, <2>2, <2>3
<1>3. ASSUME phase' = "built" PROVE ValidRules(rules)
  <2>1. \A r, s \in rules : ~IsStrictPrefix(s.origin, r.target) /\ ~IsStrictPrefix(s.target, r.target)
    BY <1>1, <1>3 DEF InTheWay, Origins
  <2> QED BY <2>1 DEF ValidRules, BInv, RulesSound, Indexed, Distinct
<1>4. ValidFiles(rules, F)
  <2>1. F \in [Paths -> Kinds] /\ IsDirectory(F, <<>>) /\ Consistent(F)
    BY SectionsAssumption DEF BInv, TypeOK
  <2>2. \A r \in rules : At(F, r.origin) # "file"
    BY <1>1 DEF OriginOccupied, Exists, IsDirectory
  <2>3. origins \subseteq Origins(rules)
    BY <1>1 DEF BInv, OriginsUsed
  <2>4. \A r \in rules : IsDirectory(F, Front(r.origin)) \/ Front(r.origin) \in Origins(rules)
    BY <1>1, <2>3 DEF ParentMissing
  <2> QED BY <2>1, <2>2, <2>4 DEF ValidFiles
<1>5. BuiltIsValid'
  <2>1. rules' = rules /\ config' = config
    BY <1>1
  <2>2. phase' = "built" => ValidRules(rules') /\ ValidFiles(rules', config'.files)
    BY <1>3, <1>4, <2>1
  <2> QED BY <2>2 DEF BuiltIsValid, ValidRules, ValidFiles, Origins
<1> QED BY <1>2, <1>5 DEF BInv

LEMMA InitSound == Init => BInv
<1> SUFFICES ASSUME Init PROVE BInv
  OBVIOUS
<1>1. TypeOK
  BY DEF Init, TypeOK, Phases
<1>2. RulesSound
  BY FS_EmptySet DEF Init, RulesSound, Indexed, Distinct
<1>3. OriginsUsed /\ BuiltIsValid
  BY DEF Init, OriginsUsed, BuiltIsValid
<1> QED BY <1>1, <1>2, <1>3 DEF BInv

LEMMA NextSound == BInv /\ [Next]_vars => BInv'
<1> SUFFICES ASSUME BInv, [Next]_vars PROVE BInv'
  OBVIOUS
<1>1. CASE UNCHANGED vars
  BY <1>1 DEF vars, BInv, TypeOK, RulesSound, Indexed, Distinct, OriginsUsed, Origins,
              BuiltIsValid, ValidRules, ValidFiles
<1>2. CASE ReadSection
  BY <1>2, ReadSectionPreserves
<1>3. CASE FinishReading
  BY <1>3, FinishReadingPreserves
<1>4. CASE RefuseOrigin
  BY <1>4, RefuseOriginPreserves
<1>5. CASE AddParent
  BY <1>5, AddParentPreserves
<1>6. CASE VerifyTargets
  BY <1>6, VerifyTargetsPreserves
<1> QED BY <1>1, <1>2, <1>3, <1>4, <1>5, <1>6 DEF Next

-----------------------------------------------------------------------------
(* Paths. *)

\* A prefix agrees with the sequence at every position it has.
LEMMA PrefixElements ==
  ASSUME NEW S, NEW s \in Seq(S), NEW t \in Seq(S)
  PROVE  IsPrefix(s, t) <=>
           Len(s) <= Len(t) /\ \A i \in 1 .. Len(s) : s[i] = t[i]

<1> DEFINE k == Len(s)
<1>1. k \in Nat /\ Len(t) \in Nat
  OBVIOUS
<1>2. SubSeq(s, 1, k) = s
  BY SubSeqFull
<1>3. ASSUME k <= Len(t)
      PROVE  /\ SubSeq(t, 1, k) \in Seq(S)
             /\ Len(SubSeq(t, 1, k)) = k
             /\ \A i \in 1 .. k : SubSeq(t, 1, k)[i] = t[i]
  BY <1>1, <1>3
<1>4. ASSUME k <= Len(t), \A i \in 1 .. k : s[i] = t[i]
      PROVE  s = SubSeq(t, 1, k)
  BY <1>3, <1>4, SeqEqual
<1> QED BY <1>2, <1>3, <1>4 DEF IsPrefix

\* Two prefixes of one path are one above the other.
LEMMA PrefixesComparable ==
  ASSUME NEW S, NEW a \in Seq(S), NEW b \in Seq(S), NEW p \in Seq(S),
         IsPrefix(a, p), IsPrefix(b, p)
  PROVE  IsPrefix(a, b) \/ IsPrefix(b, a)

<1>1. /\ Len(a) <= Len(p) /\ \A i \in 1 .. Len(a) : a[i] = p[i]
      /\ Len(b) <= Len(p) /\ \A i \in 1 .. Len(b) : b[i] = p[i]
  BY PrefixElements
<1>2. CASE Len(a) <= Len(b)
  <2>1. \A i \in 1 .. Len(a) : a[i] = b[i]
    BY <1>1, <1>2
  <2> QED BY <2>1, <1>2, PrefixElements
<1>3. CASE Len(b) <= Len(a)
  <2>1. \A i \in 1 .. Len(b) : b[i] = a[i]
    BY <1>1, <1>3
  <2> QED BY <2>1, <1>3, PrefixElements
<1> QED BY <1>2, <1>3

\* A prefix is transitive, and remains one of a longer path.
LEMMA PrefixTransitive ==
  ASSUME NEW S, NEW a \in Seq(S), NEW b \in Seq(S), NEW p \in Seq(S),
         IsPrefix(a, b), IsPrefix(b, p)
  PROVE  IsPrefix(a, p)
<1>1. /\ Len(a) <= Len(b) /\ \A i \in 1 .. Len(a) : a[i] = b[i]
      /\ Len(b) <= Len(p) /\ \A i \in 1 .. Len(b) : b[i] = p[i]
  BY PrefixElements
<1>2. Len(a) <= Len(p) /\ \A i \in 1 .. Len(a) : a[i] = p[i]
  BY <1>1
<1> QED BY <1>2, PrefixElements

\* The directory that holds a path, and a first part of it, are above it.
LEMMA PrefixOfSubSeq ==
  ASSUME NEW S, NEW s \in Seq(S), NEW k \in 0 .. Len(s)
  PROVE  /\ SubSeq(s, 1, k) \in Seq(S) /\ Len(SubSeq(s, 1, k)) = k
         /\ IsPrefix(SubSeq(s, 1, k), s)
<1>1. Len(s) \in Nat
  OBVIOUS
<1>2. /\ SubSeq(s, 1, k) \in Seq(S) /\ Len(SubSeq(s, 1, k)) = k
      /\ \A i \in 1 .. k : SubSeq(s, 1, k)[i] = s[i]
  BY <1>1
<1> PICK a : a = SubSeq(s, 1, k)
  OBVIOUS
<1>3. a \in Seq(S) /\ Len(a) <= Len(s) /\ \A i \in 1 .. Len(a) : a[i] = s[i]
  BY <1>1, <1>2
<1>4. IsPrefix(a, s)
  BY <1>3, PrefixElements
<1> QED BY <1>2, <1>4

LEMMA PrefixOfFront ==
  ASSUME NEW S, NEW s \in Seq(S), s # <<>>
  PROVE  Front(s) \in Seq(S) /\ Len(Front(s)) = Len(s) - 1 /\ IsPrefix(Front(s), s)
<1>1. Len(s) - 1 \in 0 .. Len(s)
  BY EmptySeq
<1> QED BY <1>1, PrefixOfSubSeq DEF Front

\* The directory of a path has its components but the last.
LEMMA FrontElements ==
  ASSUME NEW S, NEW s \in Seq(S), s # <<>>
  PROVE  /\ Len(s) \in Nat /\ Len(s) >= 1
         /\ Front(s) \in Seq(S) /\ Len(Front(s)) = Len(s) - 1
         /\ \A i \in 1 .. Len(s) - 1 : Front(s)[i] = s[i]
<1>1. Len(s) \in Nat /\ Len(s) # 0
  BY EmptySeq
<1>2. Front(s) \in Seq(S) /\ Len(Front(s)) = Len(s) - 1 /\ IsPrefix(Front(s), s)
  BY PrefixOfFront
<1>3. \A i \in 1 .. Len(Front(s)) : Front(s)[i] = s[i]
  BY <1>2, PrefixElements
<1> QED BY <1>1, <1>2, <1>3

\* What is above a path is above its directory.
LEMMA PrefixOfPathOrFront ==
  ASSUME NEW S, NEW a \in Seq(S), NEW s \in Seq(S), s # <<>>, IsPrefix(a, s), a # s
  PROVE  IsPrefix(a, Front(s))
<1>1. /\ Len(s) \in Nat /\ Len(s) >= 1
      /\ Front(s) \in Seq(S) /\ Len(Front(s)) = Len(s) - 1
      /\ \A i \in 1 .. Len(s) - 1 : Front(s)[i] = s[i]
  BY FrontElements
<1>2. Len(a) \in Nat /\ Len(a) <= Len(s) /\ \A i \in 1 .. Len(a) : a[i] = s[i]
  BY PrefixElements
<1>3. Len(a) # Len(s)
  BY <1>2, SeqEqual
<1>4. Len(a) <= Len(Front(s)) /\ \A i \in 1 .. Len(a) : a[i] = Front(s)[i]
  BY <1>1, <1>2, <1>3
<1> QED BY <1>1, <1>4, PrefixElements

\* Of two prefixes of one path the shorter is a prefix of the other.
LEMMA ShorterPrefix ==
  ASSUME NEW S, NEW a \in Seq(S), NEW b \in Seq(S), NEW p \in Seq(S),
         IsPrefix(a, p), IsPrefix(b, p), Len(a) <= Len(b)
  PROVE  IsPrefix(a, b) /\ (Len(a) = Len(b) => a = b)
<1>1. /\ Len(a) <= Len(p) /\ \A i \in 1 .. Len(a) : a[i] = p[i]
      /\ Len(b) <= Len(p) /\ \A i \in 1 .. Len(b) : b[i] = p[i]
      /\ Len(a) \in Nat /\ Len(b) \in Nat
  BY PrefixElements
<1>2. \A i \in 1 .. Len(a) : a[i] = b[i]
  BY <1>1
<1>3. IsPrefix(a, b)
  BY <1>2, PrefixElements
<1> QED BY <1>2, <1>3, SeqEqual

\* Every number is in a set that has zero and the successors of its elements.
LEMMA Numbers ==
  ASSUME NEW S, 0 \in S, \A n \in Nat : n \in S => n + 1 \in S
  PROVE  Nat \subseteq S
<1> SUFFICES ASSUME NEW m \in Nat, m \notin S PROVE FALSE
  OBVIOUS
<1> DEFINE C == {n \in 0 .. m : n \notin S}
           T == {1 .. n : n \in C}
           U == 1 .. m
<1>1. T \in SUBSET SUBSET U /\ T # {}
  <2>1. m \in C
    OBVIOUS
  <2>2. ASSUME NEW n \in C PROVE 1 .. n \in SUBSET U
    OBVIOUS
  <2> QED BY <2>1, <2>2
<1>2. PICK n \in C : \A k \in C : <<1 .. k, 1 .. n>> \notin StrictSubsetOrdering(U)
  <2>1. IsFiniteSet(U)
    BY FS_Interval
  <2>2. T \subseteq FiniteSubsetsOf(U)
    BY <1>1, <2>1, FS_Subset DEF FiniteSubsetsOf
  <2> HIDE DEF T, U
  <2>3. \E x \in T : \A y \in T : ~(<<y, x>> \in StrictSubsetOrdering(U))
    BY <1>1, <2>2, FS_StrictSubsetOrderingWellFounded, WFMin
  <2> QED BY <2>3 DEF T
<1>3. n # 0 /\ n - 1 \in Nat /\ n - 1 \in 0 .. m /\ (n - 1) + 1 = n
  OBVIOUS
<1>4. n - 1 \in C
  BY <1>3
<1>5. n \in 1 .. n /\ n \notin 1 .. (n - 1) /\ 1 .. (n - 1) \subseteq 1 .. n
      /\ 1 .. (n - 1) \in SUBSET U /\ 1 .. n \in SUBSET U
  BY <1>3
<1>6. <<1 .. (n - 1), 1 .. n>> \in StrictSubsetOrdering(U)
  <2> DEFINE a == 1 .. (n - 1)
             b == 1 .. n
  <2>1. a \in SUBSET U /\ b \in SUBSET U /\ a \subseteq b /\ n \in b /\ n \notin a
    BY <1>5
  <2> HIDE DEF a, b, U
  <2> QED BY <2>1 DEF StrictSubsetOrdering, a, b
<1> QED BY <1>2, <1>4, <1>6

\* Between a path and its directory there is no other.
LEMMA NothingBetween ==
  ASSUME NEW S, NEW o \in Seq(S), NEW q \in Seq(S), NEW p \in Seq(S), o # <<>>,
         IsPrefix(o, p), IsPrefix(q, p), IsPrefix(Front(o), q)
  PROVE  q = Front(o) \/ IsPrefix(o, q)
<1>1. Front(o) \in Seq(S)
  BY FrontElements
<1>2. CASE IsPrefix(o, q)
  BY <1>2
<1>3. CASE ~IsPrefix(o, q)
  <2>1. IsPrefix(q, o) /\ q # o
    <3>1. IsPrefix(q, q)
      BY SubSeqFull DEF IsPrefix
    <3> QED BY <1>3, <3>1, PrefixesComparable
  <2>2. IsPrefix(q, Front(o))
    BY <2>1, PrefixOfPathOrFront
  <2>3. Len(q) <= Len(Front(o)) /\ Len(Front(o)) <= Len(q) /\ Len(q) \in Nat /\ Len(Front(o)) \in Nat
    BY <1>1, <2>2, PrefixElements
  <2>4. IsPrefix(q, q) /\ Len(q) = Len(Front(o))
    <3>1. IsPrefix(q, q)
      BY SubSeqFull DEF IsPrefix
    <3> QED BY <2>3, <3>1
  <2> QED BY <1>1, <2>4, ShorterPrefix
<1> QED BY <1>2, <1>3

\* What lies strictly above a path is what its directory is at or below.
LEMMA AbovePath ==
  ASSUME NEW S, NEW s \in Seq(S), NEW a \in Seq(S), s # <<>>
  PROVE  IsStrictPrefix(a, s) <=> IsPrefix(a, Front(s))
<1>1. IsPrefix(Front(s), s) /\ Front(s) \in Seq(S) /\ Len(Front(s)) = Len(s) - 1 /\ Len(s) \in Nat
  BY FrontElements, PrefixOfFront
<1>2. ASSUME IsPrefix(a, Front(s)) PROVE IsPrefix(a, s) /\ a # s
  <2>1. IsPrefix(a, s)
    BY <1>1, <1>2, PrefixTransitive
  <2>2. Len(a) <= Len(s) - 1
    BY <1>1, <1>2, PrefixElements
  <2> QED BY <1>1, <2>1, <2>2
<1>3. ASSUME IsPrefix(a, s), a # s PROVE IsPrefix(a, Front(s))
  BY <1>3, PrefixOfPathOrFront
<1> QED BY <1>2, <1>3 DEF IsStrictPrefix
-----------------------------------------------------------------------------
(* Reading the sections. *)

\* Separate, of the sections I only.
SeparateIn(S, I) ==
  /\ \A i \in I : {S[i].origin, S[i].target} \cap {NoPath, <<>>} = {}
  /\ \A i, j \in I : i # j =>
       /\ S[i].name # S[j].name
       /\ S[i].target # S[j].target /\ S[i].target # S[j].origin
  /\ \A i \in I : Cardinality({j \in I : S[j].origin = S[i].origin}) <= Limit

LEMMA SeparateShrinks ==
  ASSUME NEW S, NEW J, IsFiniteSet(J), NEW I \in SUBSET J, SeparateIn(S, J)
  PROVE  SeparateIn(S, I)
<1>1. ASSUME NEW i \in I PROVE Cardinality({j \in I : S[j].origin = S[i].origin}) <= Limit
  <2> PICK A, B : A = {j \in I : S[j].origin = S[i].origin} /\ B = {j \in J : S[j].origin = S[i].origin}
    OBVIOUS
  <2>1. A \in SUBSET B /\ B \in SUBSET J /\ Cardinality(B) <= Limit
    BY DEF SeparateIn
  <2>2. IsFiniteSet(B)
    BY <2>1, FS_Subset
  <2>3. Cardinality(A) <= Cardinality(B) /\ IsFiniteSet(A)
    BY <2>1, <2>2, FS_Subset
  <2>4. Cardinality(A) \in Nat /\ Cardinality(B) \in Nat
    BY <2>2, <2>3, FS_CardinalityType
  <2>5. Cardinality(A) <= Limit
    BY <2>1, <2>3, <2>4, NamesAssumption
  <2> QED BY <2>5
<1> QED BY <1>1 DEF SeparateIn

\* The sections I have names of their own.
NamesApart(S, I) == \A i, j \in I : i # j => S[i].name # S[j].name

\* Sections with names of their own are as many rules.
LEMMA RulesAreSections ==
  ASSUME NEW S, NEW I, IsFiniteSet(I), NamesApart(S, I)
  PROVE  /\ IsFiniteSet({S[i] : i \in I})
         /\ Cardinality({S[i] : i \in I}) = Cardinality(I)
<1>1. PICK T : T = {S[i] : i \in I}
  OBVIOUS
<1>2. PICK f : f = [i \in I |-> S[i]]
  OBVIOUS
<1>3. f \in Surjection(I, T)
  BY <1>1, <1>2 DEF Surjection
<1>4. f \in Injection(I, T)
  BY <1>1, <1>2 DEF Injection, IsInjective, NamesApart
<1>5. IsFiniteSet(T) /\ Cardinality(T) = Cardinality(I)
  BY <1>3, <1>4, FS_Surjection
<1> QED BY <1>1, <1>5

\* The rules of R, and the sections I, with the origin o.
Container(R, o) == {r \in R : r.origin = o}
Sharing(S, I, o) == {j \in I : S[j].origin = o}
OfSections(S, I) == {S[i] : i \in I}

LEMMA ContainerSize ==
  ASSUME NEW S, NEW I, IsFiniteSet(I), NamesApart(S, I), NEW o
  PROVE  /\ Cardinality(Container(OfSections(S, I), o)) = Cardinality(Sharing(S, I, o))
         /\ Cardinality(Sharing(S, I, o)) \in Nat
<1>1. PICK J : J = {j \in I : S[j].origin = o}
  OBVIOUS
<1>2. IsFiniteSet(J) /\ J \subseteq I
  BY <1>1, FS_Subset
<1>3. {r \in {S[i] : i \in I} : r.origin = o} = {S[j] : j \in J}
  BY <1>1
<1>4. NamesApart(S, J)
  BY <1>2 DEF NamesApart
<1>5. Cardinality({S[j] : j \in J}) = Cardinality(J)
  BY <1>2, <1>4, RulesAreSections
<1>6. Cardinality(J) \in Nat
  BY <1>2, FS_CardinalityType
<1>7. Container(OfSections(S, I), o) = {S[j] : j \in J} /\ Sharing(S, I, o) = J
  BY <1>1, <1>3 DEF Container, OfSections, Sharing
<1> QED BY <1>5, <1>6, <1>7

\* The indices know of the rules and of nothing else.
Exact ==
  /\ origins = {r.origin : r \in rules}
  /\ targets = {r.target : r \in rules}
  /\ names = {r.name : r \in rules}

\* Every one of the sections I became a rule.
Collected(S, I) == SeparateIn(S, I) /\ rules = {S[i] : i \in I} /\ Exact

\* A section that is refused breaks a constraint, and one that is not breaks none.
LEMMA SectionRefused ==
  ASSUME NEW S, NEW n \in Nat \ {0}, Collected(S, 1 .. n - 1)
  PROVE  Fails(S[n]) <=> ~SeparateIn(S, 1 .. n)
<1>1. PICK s, I, J : s = S[n] /\ I = 1 .. n - 1 /\ J = 1 .. n
  OBVIOUS
<1>2. J = I \cup {n} /\ n \notin I /\ IsFiniteSet(I) /\ n \in J
  BY <1>1, FS_Interval
<1>3. SeparateIn(S, I) /\ rules = {S[i] : i \in I} /\ Exact
  BY <1>1 DEF Collected
<1>4. Refused(s) <=>
        \/ s.origin \in {NoPath, <<>>} \/ s.target \in {NoPath, <<>>}
        \/ \E i \in I : \/ s.name = S[i].name \/ s.origin = S[i].target
                        \/ s.target = S[i].origin \/ s.target = S[i].target
  <2>1. \A x : /\ x \in origins <=> \E i \in I : x = S[i].origin
               /\ x \in targets <=> \E i \in I : x = S[i].target
               /\ x \in names <=> \E i \in I : x = S[i].name
    BY <1>3 DEF Exact
  <2> QED BY <2>1 DEF Refused
<1>5. ASSUME NEW o
      PROVE  /\ Cardinality({r \in rules : r.origin = o}) = Cardinality({j \in I : S[j].origin = o})
             /\ Cardinality({j \in I : S[j].origin = o}) \in Nat
  <2>1. NamesApart(S, I)
    BY <1>3 DEF SeparateIn, NamesApart
  <2>2. /\ Cardinality(Container(OfSections(S, I), o)) = Cardinality(Sharing(S, I, o))
        /\ Cardinality(Sharing(S, I, o)) \in Nat
    BY <1>2, <2>1, ContainerSize
  <2>3. /\ Container(OfSections(S, I), o) = {r \in rules : r.origin = o}
        /\ Sharing(S, I, o) = {j \in I : S[j].origin = o}
    BY <1>3 DEF Container, OfSections, Sharing
  <2> QED BY <2>2, <2>3
<1>6. PICK k : k = Cardinality({j \in I : S[j].origin = s.origin})
  OBVIOUS
<1>7. Cardinality({j \in J : S[j].origin = s.origin}) = k + 1 /\ k \in Nat
  <2>1. PICK B : B = {j \in I : S[j].origin = s.origin}
    OBVIOUS
  <2>2. {j \in J : S[j].origin = s.origin} = B \cup {n} /\ n \notin B /\ B \in SUBSET I
    BY <1>1, <1>2, <2>1
  <2>3. IsFiniteSet(B)
    BY <1>2, <2>2, FS_Subset
  <2>4. Cardinality(B \cup {n}) = Cardinality(B) + 1
    BY <2>2, <2>3, FS_AddElement
  <2> QED BY <1>5, <1>6, <2>1, <2>2, <2>4
<1>8. ContainerFull(s) <=> k + 1 > Limit
  <2>1. Cardinality({r \in rules : r.origin = s.origin}) = k
    BY <1>5, <1>6
  <2> QED BY <1>7, <2>1, NamesAssumption DEF ContainerFull
<1>9. ASSUME Fails(s), SeparateIn(S, J) PROVE FALSE
  <2>1. CASE Refused(s)
    BY <1>1, <1>2, <1>4, <1>9, <2>1 DEF SeparateIn
  <2>2. CASE ContainerFull(s)
    <3>1. Cardinality({j \in J : S[j].origin = S[n].origin}) <= Limit
      BY <1>2, <1>9 DEF SeparateIn
    <3> QED BY <1>1, <1>7, <1>8, <2>2, <3>1, NamesAssumption
  <2> QED BY <1>9, <2>1, <2>2 DEF Fails
<1>10. ASSUME ~Fails(s) PROVE SeparateIn(S, J)
  <2>1. ~Refused(s) /\ ~ContainerFull(s)
    BY <1>10 DEF Fails
  <2>2. \A i \in J : {S[i].origin, S[i].target} \cap {NoPath, <<>>} = {}
    BY <1>1, <1>2, <1>3, <1>4, <2>1 DEF SeparateIn
  <2>3. ASSUME NEW i \in J, NEW j \in J, i # j
        PROVE  /\ S[i].name # S[j].name
               /\ S[i].target # S[j].target /\ S[i].target # S[j].origin
    <3>1. CASE i \in I /\ j \in I
      BY <1>3, <2>3, <3>1 DEF SeparateIn
    <3>2. CASE i = n \/ j = n
      BY <1>1, <1>2, <1>4, <2>1, <2>3, <3>2
    <3> QED BY <1>2, <3>1, <3>2
  <2>4. ASSUME NEW i \in J PROVE Cardinality({j \in J : S[j].origin = S[i].origin}) <= Limit
    <3>1. CASE S[i].origin = s.origin
      <4>1. Cardinality({j \in J : S[j].origin = s.origin}) <= Limit
        BY <1>7, <1>8, <2>1, NamesAssumption
      <4> QED BY <3>1, <4>1
    <3>2. CASE S[i].origin # s.origin
      <4>1. {j \in J : S[j].origin = S[i].origin} = {j \in I : S[j].origin = S[i].origin}
        BY <1>1, <1>2, <3>2
      <4>2. i \in I
        BY <1>1, <1>2, <3>2
      <4>3. Cardinality({j \in I : S[j].origin = S[i].origin}) <= Limit
        BY <1>3, <4>2 DEF SeparateIn
      <4> QED BY <4>1, <4>3
    <3> QED BY <3>1, <3>2
  <2> QED BY <2>2, <2>3, <2>4 DEF SeparateIn
<1> QED BY <1>1, <1>9, <1>10

\* A rule that is added is one more.
LEMMA AddedExactly ==
  ASSUME Exact, NEW s, AddRule(s), ~Fails(s)
  PROVE  rules' = rules \cup {s} /\ Exact'
<1>1. /\ origins' = origins \cup {s.origin} /\ targets' = targets \cup {s.target}
      /\ names' = names \cup {s.name} /\ rules' = rules \cup {s}
  BY DEF AddRule, Fails
<1> QED BY <1>1 DEF Exact
-----------------------------------------------------------------------------
(* The directories above the origins that are missing. *)

\* From p up to, but without, o nothing is a directory or an origin.
GapBelow(S, F, p, o) ==
  \A q \in Paths : IsPrefix(p, q) /\ IsStrictPrefix(q, o) =>
                     ~IsDirectory(F, q) /\ q \notin GivenOrigins(S)

MissingBelow(S, F, p, i) ==
  IsStrictPrefix(p, S[i].origin) /\ GapBelow(S, F, p, S[i].origin)

LEMMA MissingIff ==
  ASSUME NEW S, NEW F, NEW p
  PROVE  p \in MissingParents(S, F) <=> p \in Paths /\ \E i \in DOMAIN S : MissingBelow(S, F, p, i)
BY DEF MissingParents, MissingBelow, GapBelow

LEMMA StrictPrefix ==
  ASSUME NEW S, NEW a \in Seq(S), NEW b \in Seq(S)
  PROVE  /\ IsPrefix(a, a)
         /\ IsPrefix(a, b) /\ IsPrefix(b, a) => a = b
         /\ IsStrictPrefix(a, b) <=> IsPrefix(a, b) /\ a # b
<1>1. ASSUME IsPrefix(a, b), IsPrefix(b, a) PROVE a = b
  <2>1. /\ Len(a) <= Len(b) /\ Len(b) <= Len(a) /\ Len(a) \in Nat /\ Len(b) \in Nat
        /\ \A i \in 1 .. Len(a) : a[i] = b[i]
    BY <1>1, PrefixElements
  <2> QED BY <2>1, SeqEqual
<1>2. IsPrefix(a, a)
  BY PrefixElements
<1> QED BY <1>1, <1>2 DEF IsStrictPrefix

\* A missing directory is not an origin of a section and lies above one.
LEMMA MissingIsNew ==
  ASSUME NEW S, NEW F, NEW p \in MissingParents(S, F),
         \A i \in DOMAIN S : S[i].origin \in Paths
  PROVE  /\ p \in Paths /\ p \notin GivenOrigins(S)
         /\ \E i \in DOMAIN S : IsPrefix(p, S[i].origin)
<1>1. PICK i \in DOMAIN S : p \in Paths /\ MissingBelow(S, F, p, i)
  BY MissingIff
<1>2. p \in Seq(Names) /\ S[i].origin \in Seq(Names)
  BY <1>1, PathsAssumption
<1>3. IsPrefix(p, p) /\ IsPrefix(p, S[i].origin) /\ IsStrictPrefix(p, S[i].origin)
  <2>1. IsStrictPrefix(p, S[i].origin)
    BY <1>1 DEF MissingBelow
  <2> QED BY <1>2, <2>1, StrictPrefix
<1>4. GapBelow(S, F, p, S[i].origin)
  BY <1>1 DEF MissingBelow
<1>5. p \notin GivenOrigins(S)
  BY <1>1, <1>3, <1>4 DEF GapBelow
<1> QED BY <1>1, <1>3, <1>5

\* The directory of an origin, or of a missing directory, is missing if it is
\* neither a directory nor an origin.
LEMMA FrontIsMissing ==
  ASSUME NEW S, NEW F, \A i \in DOMAIN S : S[i].origin \in Paths,
         NEW o \in Paths, o # <<>>, o \in GivenOrigins(S) \cup MissingParents(S, F),
         ~IsDirectory(F, Front(o)), Front(o) \notin GivenOrigins(S)
  PROVE  Front(o) \in MissingParents(S, F)
<1> PICK p : p = Front(o)
  OBVIOUS
<1>1. o \in Seq(Names) /\ p \in Paths /\ p \in Seq(Names) /\ IsPrefix(p, o) /\ p # o
  <2>1. o \in Seq(Names) /\ p \in Paths
    BY PathsAssumption DEF PathsClosed
  <2>2. Len(p) = Len(o) - 1 /\ IsPrefix(p, o) /\ p \in Seq(Names) /\ Len(o) \in Nat
    BY <2>1, PrefixOfFront
  <2> QED BY <2>1, <2>2
<1>2. PICK i \in DOMAIN S : \/ o = S[i].origin
                            \/ MissingBelow(S, F, o, i)
  BY MissingIff DEF GivenOrigins
<1> PICK u : u = S[i].origin
  OBVIOUS
<1>3. u \in Paths /\ u \in Seq(Names)
  BY PathsAssumption
<1>4. IsPrefix(o, u)
  <2>1. CASE o = u
    BY <1>1, <2>1, StrictPrefix
  <2>2. CASE MissingBelow(S, F, o, i)
    <3>1. IsStrictPrefix(o, u)
      BY <2>2 DEF MissingBelow
    <3> QED BY <1>1, <1>3, <3>1, StrictPrefix
  <2> QED BY <1>2, <2>1, <2>2
<1>5. IsStrictPrefix(p, u)
  <2>1. IsPrefix(p, u)
    BY <1>1, <1>3, <1>4, PrefixTransitive
  <2>2. p # u
    BY <1>1, <1>3, <1>4, StrictPrefix
  <2> QED BY <1>1, <1>3, <2>1, <2>2, StrictPrefix
<1>6. ASSUME NEW q \in Paths, IsPrefix(p, q), IsStrictPrefix(q, u)
      PROVE  ~IsDirectory(F, q) /\ q \notin GivenOrigins(S)
  <2>1. q \in Seq(Names) /\ IsPrefix(q, u) /\ q # u
    BY <1>3, <1>6, PathsAssumption, StrictPrefix
  <2>2. q = p \/ IsPrefix(o, q)
    BY <1>1, <1>3, <1>4, <1>6, <2>1, NothingBetween
  <2>3. CASE q = p
    BY <2>3
  <2>4. CASE IsPrefix(o, q)
    <3>1. o # u
      BY <1>1, <2>1, <2>4, StrictPrefix
    <3>2. GapBelow(S, F, o, u)
      BY <1>2, <3>1 DEF MissingBelow
    <3> QED BY <1>6, <2>4, <3>2 DEF GapBelow
  <2> QED BY <2>2, <2>3, <2>4
<1>7. MissingBelow(S, F, p, i)
  BY <1>5, <1>6 DEF MissingBelow, GapBelow
<1> QED BY <1>1, <1>7, MissingIff

\* Where every origin's directory exists or is an origin nothing is missing.
Closed(S, F, O) ==
  /\ O \subseteq Paths /\ GivenOrigins(S) \subseteq O
  /\ \A o \in O : o # <<>> /\ (IsDirectory(F, Front(o)) \/ Front(o) \in O)

LEMMA ClosedHasMissing ==
  ASSUME NEW S, NEW F, NEW O, Closed(S, F, O)
  PROVE  MissingParents(S, F) \subseteq O
<1> SUFFICES ASSUME NEW p \in MissingParents(S, F) PROVE p \in O
  OBVIOUS
<1>1. PICK i \in DOMAIN S : p \in Paths /\ MissingBelow(S, F, p, i)
  BY MissingIff
<1>u. PICK u : u = S[i].origin
  OBVIOUS
<1>m. PICK m, k : m = Len(u) /\ k = Len(p)
  OBVIOUS
<1>2. /\ u \in O /\ u \in Paths /\ u \in Seq(Names) /\ p \in Seq(Names)
      /\ IsPrefix(p, u) /\ GapBelow(S, F, p, u) /\ m \in Nat /\ k \in Nat /\ k <= m
  <2>1. u \in O /\ u \in Paths
    BY <1>1, <1>u DEF Closed, GivenOrigins
  <2>2. u \in Seq(Names) /\ p \in Seq(Names)
    BY <1>1, <2>1, PathsAssumption
  <2>3. IsStrictPrefix(p, u) /\ GapBelow(S, F, p, u)
    BY <1>1, <1>u DEF MissingBelow
  <2>4. IsPrefix(p, u)
    BY <2>2, <2>3, StrictPrefix
  <2>5. k <= m
    BY <1>m, <2>2, <2>4, PrefixElements
  <2> QED BY <1>m, <2>1, <2>2, <2>3, <2>4, <2>5
<1> DEFINE N == {j \in Nat : k <= m - j => SubSeq(u, 1, m - j) \in O}
<1>3. 0 \in N
  <2>1. m - 0 = m /\ SubSeq(u, 1, m) = u
    BY <1>m, <1>2, SubSeqFull
  <2> QED BY <1>2, <2>1
<1>4. ASSUME NEW j \in Nat, j \in N PROVE j + 1 \in N
  <2> SUFFICES ASSUME k <= m - (j + 1) PROVE SubSeq(u, 1, m - (j + 1)) \in O
    BY <1>4
  <2>l. PICK l : l = m - j
    OBVIOUS
  <2>1. /\ l \in Nat /\ l >= 1 /\ l \in 0 .. m /\ m - (j + 1) = l - 1 /\ l - 1 \in 0 .. m
        /\ k <= l - 1 /\ l - 1 < m
    BY <1>2, <2>l
  <2>x. PICK x, y : x = SubSeq(u, 1, l) /\ y = SubSeq(u, 1, l - 1)
    OBVIOUS
  <2>2. x \in O
    <3>1. k <= m - j
      BY <1>2, <2>l, <2>1
    <3>2. SubSeq(u, 1, m - j) \in O
      BY <1>4, <3>1
    <3> QED BY <2>l, <2>x, <3>2
  <2>3. x \in Seq(Names) /\ Len(x) = l /\ IsPrefix(x, u) /\ y \in Seq(Names) /\ Len(y) = l - 1 /\ IsPrefix(y, u)
    BY <1>m, <1>2, <2>x, <2>1, PrefixOfSubSeq
  <2>4. x # <<>> /\ Front(x) \in Paths
    <3>1. x \in Paths /\ x # <<>>
      BY <2>2 DEF Closed
    <3> QED BY <3>1, PathsAssumption DEF PathsClosed
  <2>5. Front(x) = y
    <3>z. PICK z : z = Front(x)
      OBVIOUS
    <3>1. z \in Seq(Names) /\ Len(z) = Len(x) - 1 /\ IsPrefix(z, x)
      BY <3>z, <2>3, <2>4, PrefixOfFront
    <3>2. IsPrefix(z, u)
      BY <1>2, <2>3, <3>1, PrefixTransitive
    <3>3. Len(z) = Len(y) /\ Len(z) <= Len(y)
      BY <2>1, <2>3, <3>1
    <3>4. z = y
      BY <1>2, <2>3, <3>1, <3>2, <3>3, ShorterPrefix
    <3> QED BY <3>z, <3>4
  <2>6. IsPrefix(p, y)
    <3>1. Len(p) <= Len(y)
      BY <1>m, <2>1, <2>3
    <3> QED BY <1>2, <2>3, <3>1, ShorterPrefix
  <2>7. IsStrictPrefix(y, u)
    <3>1. y # u
      BY <1>m, <2>1, <2>3
    <3>2. IsPrefix(y, u) /\ y \in Seq(Names) /\ u \in Seq(Names)
      BY <1>2, <2>3
    <3> QED BY <3>1, <3>2, StrictPrefix
  <2>8. ~IsDirectory(F, y)
    BY <1>2, <2>4, <2>5, <2>6, <2>7 DEF GapBelow
  <2>9. y \in O
    BY <2>2, <2>5, <2>8 DEF Closed
  <2> QED BY <2>x, <2>1, <2>9
<1>5. Nat \subseteq N
  <2> HIDE DEF N
  <2> QED BY <1>3, <1>4, Numbers
<1>6. PICK j : j = m - k
  OBVIOUS
<1>7. SubSeq(u, 1, k) \in O
  <2>1. j \in Nat /\ m - j = k /\ k <= m - j
    BY <1>2, <1>6
  <2>2. SubSeq(u, 1, m - j) \in O
    BY <1>5, <2>1
  <2> QED BY <2>1, <2>2
<1>8. SubSeq(u, 1, k) = p
  BY <1>m, <1>2 DEF IsPrefix
<1> QED BY <1>7, <1>8
-----------------------------------------------------------------------------
(* The verdict. *)

\* A rule for a missing directory: it has the name that goes with the path below
\* and a temporary directory of its own.
IsGenerated(S, F, g) ==
  /\ g.origin \in MissingParents(S, F)
  /\ g.target \in temporary
  /\ \E p \in Paths : p # <<>> /\ Front(p) = g.origin /\ g.name = GeneratedName[p]

GeneratedRules(S) == rules \ OfSections(S, DOMAIN S)

\* Every section has a rule, and what other rules there are were generated, one
\* for an origin.
Accounted(S, F) ==
  /\ OfSections(S, DOMAIN S) \subseteq rules
  /\ \A g \in GeneratedRules(S) : IsGenerated(S, F, g)
  /\ \A g \in GeneratedRules(S), h \in rules : g.origin = h.origin => g = h

\* The sections up to the next one are rules, or break a constraint.
ReadSoFar(S) ==
  /\ next \in 1 .. Len(S) + 1
  /\ errors = {} => Collected(S, 1 .. next - 1)
  /\ errors # {} => ~SeparateIn(S, 1 .. next - 1)

Verified(S, F) == Separate(S) /\ Exact /\ Accounted(S, F)

VInv ==
  /\ BInv
  /\ phase = "reading" => ReadSoFar(config.sections)
  /\ phase = "verifying" => Verified(config.sections, config.files)
  /\ Verdict

\* What the assumptions say of a configuration.
Sections(S, F) ==
  /\ S \in Seq(Section) /\ Len(S) \in Nat /\ DOMAIN S = 1 .. Len(S) /\ IsFiniteSet(DOMAIN S)
  /\ F \in [Paths -> Kinds] /\ IsDirectory(F, <<>>)

LEMMA SectionsHold ==
  ASSUME BInv
  PROVE  Sections(config.sections, config.files)
<1>1. PICK S : S = config.sections
  OBVIOUS
<1>2. S \in Seq(Section) /\ config.files \in [Paths -> Kinds] /\ IsDirectory(config.files, <<>>)
  BY <1>1, SectionsAssumption DEF BInv, TypeOK
<1>3. S \in Seq(Section)
  BY <1>2
<1>4. Len(S) \in Nat /\ DOMAIN S = 1 .. Len(S)
  BY <1>3
<1>5. IsFiniteSet(1 .. Len(S))
  BY <1>4, FS_Interval
<1> QED BY <1>1, <1>2, <1>4, <1>5 DEF Sections

LEMMA SeparateIsIn ==
  ASSUME NEW S PROVE Separate(S) <=> SeparateIn(S, DOMAIN S)
BY DEF Separate, SeparateIn

\* No temporary directory is a directory of a section or above one, and no
\* generated name that of a section.
LEMMA FreshHolds ==
  ASSUME BInv
  PROVE  \A i \in DOMAIN config.sections :
           /\ \A p \in Paths : config.sections[i].name # GeneratedName[p]
           /\ \A temp \in Temporary : /\ ~IsPrefix(temp, config.sections[i].origin)
                                      /\ ~IsPrefix(temp, config.sections[i].target)
BY FreshAssumption DEF BInv, TypeOK

LEMMA SeparatePaths ==
  ASSUME NEW S, NEW F, Sections(S, F), Separate(S), NEW i \in DOMAIN S
  PROVE  /\ S[i].origin \in Paths /\ S[i].origin # <<>>
         /\ S[i].target \in Paths /\ S[i].target # <<>>
<1>1. S[i] \in Section
  BY DEF Sections
<1> QED BY <1>1 DEF Section, Separate

\* Of every rule: its origin is given or missing, and so lies above a section's.
LEMMA OriginsOfRules ==
  ASSUME NEW S, NEW F, BInv, Sections(S, F), Verified(S, F), NEW r \in rules
  PROVE  /\ r.origin \in GivenOrigins(S) \cup MissingParents(S, F)
         /\ r.origin \in Paths /\ r.origin # <<>>
         /\ \E i \in DOMAIN S : IsPrefix(r.origin, S[i].origin)
<1>1. r.origin \in Paths /\ r.origin # <<>>
  BY DEF BInv, RulesSound, Rule, Indexed
<1>2. \A i \in DOMAIN S : S[i].origin \in Paths
  BY SeparatePaths DEF Verified
<1>3. CASE r \in OfSections(S, DOMAIN S)
  <2>1. PICK i \in DOMAIN S : r = S[i]
    BY <1>3 DEF OfSections
  <2>2. IsPrefix(r.origin, S[i].origin)
    BY <1>1, <2>1, PathsAssumption, StrictPrefix
  <2> QED BY <1>1, <2>1, <2>2 DEF GivenOrigins
<1>4. CASE r \notin OfSections(S, DOMAIN S)
  <2>1. r.origin \in MissingParents(S, F)
    BY <1>4 DEF Verified, Accounted, GeneratedRules, IsGenerated
  <2>2. \E i \in DOMAIN S : IsPrefix(r.origin, S[i].origin)
    BY <1>2, <2>1, MissingIsNew
  <2> QED BY <1>1, <2>1, <2>2
<1> QED BY <1>3, <1>4

\* Of every target: it is given, or one of the temporary directories in use.
LEMMA TargetsOfRules ==
  ASSUME NEW S, NEW F, Verified(S, F), NEW r \in rules
  PROVE  \/ \E i \in DOMAIN S : r = S[i]
         \/ r \in GeneratedRules(S) /\ r.target \in temporary /\ r.origin \in MissingParents(S, F)
BY DEF Verified, Accounted, GeneratedRules, IsGenerated, OfSections

-----------------------------------------------------------------------------
(* Reading. *)

LEMMA ReadSectionVerdict ==
  ASSUME VInv, ReadSection
  PROVE  VInv'
<1>S. PICK S, F, n : S = config.sections /\ F = config.files /\ n = next
  OBVIOUS
<1>1. /\ phase = "reading" /\ n \in DOMAIN S /\ next' = n + 1
      /\ AddRule(S[n]) /\ errors' = IF Fails(S[n]) THEN errors \cup {n} ELSE errors
      /\ config' = config /\ phase' = phase
  BY <1>S DEF ReadSection
<1>2. BInv'
  BY ReadSectionPreserves DEF VInv
<1>3. Sections(S, F) /\ ReadSoFar(S)
  BY <1>S, <1>1, SectionsHold DEF VInv
<1>4. n \in Nat \ {0} /\ n + 1 \in 1 .. Len(S) + 1 /\ (n + 1) - 1 = n
  BY <1>1, <1>3 DEF Sections
<1>5. ASSUME errors = {} PROVE Fails(S[n]) <=> ~SeparateIn(S, 1 .. n)
  <2>1. Collected(S, 1 .. n - 1)
    BY <1>S, <1>3, <1>5 DEF ReadSoFar
  <2> QED BY <1>4, <2>1, SectionRefused
<1>6. ASSUME errors # {} PROVE ~SeparateIn(S, 1 .. n)
  <2>1. ~SeparateIn(S, 1 .. n - 1)
    BY <1>S, <1>3, <1>6 DEF ReadSoFar
  <2>2. IsFiniteSet(1 .. n) /\ 1 .. n - 1 \in SUBSET (1 .. n)
    BY <1>4, FS_Interval
  <2> QED BY <2>1, <2>2, SeparateShrinks
<1>7. ASSUME errors' = {} PROVE Collected(S, 1 .. n)'
  <2>1. errors = {} /\ ~Fails(S[n])
    BY <1>1, <1>7
  <2>2. Collected(S, 1 .. n - 1)
    BY <1>S, <1>3, <2>1 DEF ReadSoFar
  <2>3. rules' = rules \cup {S[n]} /\ Exact'
    BY <1>1, <2>1, <2>2, AddedExactly DEF Collected
  <2>4. 1 .. n = (1 .. n - 1) \cup {n}
    BY <1>4
  <2>5. rules' = {S[i] : i \in 1 .. n}
    BY <2>2, <2>3, <2>4 DEF Collected
  <2>6. SeparateIn(S, 1 .. n)
    BY <1>5, <2>1
  <2> QED BY <2>3, <2>5, <2>6 DEF Collected, SeparateIn
<1>8. ASSUME errors' # {} PROVE ~SeparateIn(S, 1 .. n)
  BY <1>1, <1>5, <1>6, <1>8
<1>9. ReadSoFar(S)'
  <2>1. next' - 1 = n /\ next' \in 1 .. Len(S) + 1
    BY <1>1, <1>4
  <2>2. errors' = {} => Collected(S, 1 .. next - 1)'
    BY <1>7, <2>1 DEF Collected, SeparateIn
  <2>3. errors' # {} => ~SeparateIn(S, 1 .. next' - 1)
    BY <1>8, <2>1
  <2> QED BY <2>1, <2>2, <2>3 DEF ReadSoFar, SeparateIn
<1>10. (phase = "reading" => ReadSoFar(config.sections))'
  BY <1>S, <1>1, <1>9
<1>11. phase' = "reading"
  BY <1>1
<1> QED BY <1>2, <1>10, <1>11 DEF VInv, Verdict
\* All sections were read: if none was refused they are separate, otherwise not.
LEMMA AllRead ==
  ASSUME NEW S, NEW F, Sections(S, F), ReadSoFar(S), next \notin DOMAIN S
  PROVE  /\ errors = {} => Separate(S) /\ rules = OfSections(S, DOMAIN S) /\ Exact
         /\ errors # {} => ~Separate(S)
<1>1. 1 .. next - 1 = DOMAIN S
  <2>1. next = Len(S) + 1
    BY DEF Sections, ReadSoFar
  <2> QED BY <2>1 DEF Sections
<1>2. errors = {} => Collected(S, DOMAIN S)
  BY <1>1 DEF ReadSoFar
<1>3. errors # {} => ~SeparateIn(S, DOMAIN S)
  BY <1>1 DEF ReadSoFar
<1>4. Collected(S, DOMAIN S) => SeparateIn(S, DOMAIN S) /\ rules = OfSections(S, DOMAIN S) /\ Exact
  BY DEF Collected, OfSections
<1> QED BY <1>2, <1>3, <1>4, SeparateIsIn

\* A configuration without sections keeps every constraint.
LEMMA NothingToRefuse ==
  ASSUME NEW S, NEW F, Sections(S, F), DOMAIN S = {}
  PROVE  /\ Acceptable(S, F) /\ GivenOrigins(S) = {} /\ MissingParents(S, F) = {}
         /\ Len(S) = 0
<1>1. GivenOrigins(S) = {}
  BY DEF GivenOrigins
<1>2. MissingParents(S, F) = {}
  BY DEF MissingParents
<1>3. Separate(S)
  BY DEF Separate
<1>4. Len(S) = 0
  BY DEF Sections
<1> QED BY <1>1, <1>2, <1>3, <1>4 DEF Acceptable

LEMMA FinishReadingVerdict ==
  ASSUME VInv, FinishReading
  PROVE  VInv'
<1>S. PICK S, F : S = config.sections /\ F = config.files
  OBVIOUS
<1>1. /\ phase = "reading" /\ next \notin DOMAIN S
      /\ phase' = CASE errors # {}              -> "refused"
                    [] errors = {} /\ rules = {} -> "built"
                    [] OTHER                     -> "verifying"
      /\ UNCHANGED <<config, next, errors, origins, targets, names, rules, temporary>>
  BY <1>S DEF FinishReading
<1>2. BInv'
  BY FinishReadingPreserves DEF VInv
<1>3. Sections(S, F) /\ ReadSoFar(S)
  BY <1>S, <1>1, SectionsHold DEF VInv
<1>4. /\ errors = {} => Separate(S) /\ rules = OfSections(S, DOMAIN S) /\ Exact
      /\ errors # {} => ~Separate(S)
  BY <1>1, <1>3, AllRead
<1>5. phase' # "reading"
  BY <1>1
<1>6. ASSUME phase' = "verifying" PROVE Verified(S, F)'
  <2>1. Separate(S) /\ rules = OfSections(S, DOMAIN S) /\ Exact
    BY <1>1, <1>4, <1>6
  <2>2. Accounted(S, F)
    BY <2>1 DEF Accounted, GeneratedRules
  <2>3. Verified(S, F)
    BY <2>1, <2>2 DEF Verified
  <2> QED BY <1>1, <2>3 DEF Verified, Accounted, GeneratedRules, IsGenerated, Exact, Separate
<1>7. Verdict'
  <2>1. ASSUME phase' = "refused" PROVE ~Acceptable(S, F)
    <3>1. ~Separate(S)
      BY <1>1, <1>4, <2>1
    <3> QED BY <3>1 DEF Acceptable
  <2>2. ASSUME phase' = "built"
        PROVE  /\ Acceptable(S, F)
               /\ Origins(rules) = GivenOrigins(S) \cup MissingParents(S, F)
               /\ Cardinality(rules) = Len(S) + Cardinality(MissingParents(S, F))
    <3>1. rules = {} /\ rules = OfSections(S, DOMAIN S)
      BY <1>1, <1>4, <2>2
    <3>2. DOMAIN S = {}
      BY <3>1 DEF OfSections
    <3>3. /\ Acceptable(S, F) /\ GivenOrigins(S) = {} /\ MissingParents(S, F) = {}
          /\ Len(S) = 0
      BY <1>3, <3>2, NothingToRefuse
    <3>4. Origins(rules) = {}
      BY <3>1 DEF Origins
    <3>5. Cardinality(rules) = 0 /\ Cardinality(MissingParents(S, F)) = 0
      BY <3>1, <3>3, FS_EmptySet
    <3> QED BY <3>3, <3>4, <3>5
  <2>3. config' = config /\ rules' = rules
    BY <1>1
  <2> QED BY <1>S, <2>1, <2>2, <2>3 DEF Verdict
<1> QED BY <1>S, <1>1, <1>2, <1>5, <1>6, <1>7 DEF VInv

-----------------------------------------------------------------------------
(* Verifying. *)

LEMMA RefuseOriginVerdict ==
  ASSUME VInv, RefuseOrigin
  PROVE  VInv'
<1>S. PICK S, F : S = config.sections /\ F = config.files
  OBVIOUS
<1>1. PICK r \in rules : OriginOccupied(r)
  BY DEF RefuseOrigin
<1>2. /\ phase = "verifying" /\ phase' = "refused" /\ config' = config
  BY DEF RefuseOrigin
<1>3. BInv' /\ BInv
  BY RefuseOriginPreserves DEF VInv
<1>4. Sections(S, F) /\ Verified(S, F)
  BY <1>S, <1>2, <1>3, SectionsHold DEF VInv
<1>5. r.origin \in GivenOrigins(S) \cup MissingParents(S, F)
  BY <1>3, <1>4, OriginsOfRules
<1>6. At(F, r.origin) = "file"
  <2>1. At(F, r.origin) # "none" /\ At(F, r.origin) # "dir"
    BY <1>S, <1>1 DEF OriginOccupied, Exists, IsDirectory
  <2> QED BY <1>4, <2>1 DEF Sections, At, Kinds
<1>7. ~Acceptable(S, F)
  BY <1>5, <1>6 DEF Acceptable
<1> QED BY <1>S, <1>2, <1>3, <1>7 DEF VInv, Verdict

\* The rule for a missing directory is refused only if that directory is the target
\* of a section, and it is accounted for if it is not refused.
LEMMA ParentRefused ==
  ASSUME NEW S, NEW F, S = config.sections, F = config.files, BInv, Verified(S, F),
         NEW r \in rules, ParentMissing(r), NEW temp \in Temporary \ temporary
  PROVE  /\ Front(r.origin) \in MissingParents(S, F)
         /\ Front(r.origin) \in Paths /\ Front(r.origin) \notin origins
         /\ Fails(ParentRule(r, temp)) =>
              Front(r.origin) \in MissingParents(S, F) \cap {S[i].target : i \in DOMAIN S}
<1>p. PICK p, g : p = Front(r.origin) /\ g = ParentRule(r, temp)
  OBVIOUS
<1>g. g.origin = p /\ g.target = temp /\ g.name = GeneratedName[r.origin]
  BY <1>p DEF ParentRule
<1>1. Sections(S, F) /\ Exact /\ Separate(S) /\ Accounted(S, F)
  BY SectionsHold DEF Verified
<1>2. /\ r.origin \in GivenOrigins(S) \cup MissingParents(S, F)
      /\ r.origin \in Paths /\ r.origin # <<>>
      /\ \E i \in DOMAIN S : IsPrefix(r.origin, S[i].origin)
  BY <1>1, OriginsOfRules
<1>3. p \in Paths /\ ~IsDirectory(F, p) /\ p \notin origins
  BY <1>2, <1>p, PathsAssumption DEF PathsClosed, ParentMissing
<1>4. p \notin GivenOrigins(S)
  BY <1>1, <1>3 DEF Accounted, OfSections, Exact, GivenOrigins
<1>5. \A i \in DOMAIN S : S[i].origin \in Paths
  BY <1>1, SeparatePaths
<1>6. p \in MissingParents(S, F)
  <2>1. Front(r.origin) \in MissingParents(S, F)
    BY <1>2, <1>3, <1>4, <1>5, <1>p, FrontIsMissing
  <2> QED BY <1>p, <2>1
<1>7. p # <<>> /\ p # NoPath
  BY <1>1, <1>3, NoPathAssumption, PathsAssumption DEF Sections
<1>8. temp \in Paths /\ temp # <<>> /\ temp # NoPath
  BY TemporaryAssumption, NoPathAssumption, PathsAssumption
<1>9. \A i \in DOMAIN S :
         /\ \A q \in Paths : S[i].name # GeneratedName[q]
         /\ ~IsPrefix(temp, S[i].origin) /\ ~IsPrefix(temp, S[i].target)
  BY FreshHolds
<1>10. \A h \in rules : h.name # g.name
  <2> SUFFICES ASSUME NEW h \in rules, h.name = g.name PROVE FALSE
    OBVIOUS
  <2>1. CASE h \in OfSections(S, DOMAIN S)
    BY <1>2, <1>9, <1>g, <2>1 DEF OfSections
  <2>2. CASE h \notin OfSections(S, DOMAIN S)
    <3>1. PICK q \in Paths : Front(q) = h.origin /\ h.name = GeneratedName[q]
      BY <1>1, <2>2 DEF Accounted, GeneratedRules, IsGenerated
    <3>2. q = r.origin
      BY <1>2, <1>g, <3>1, FreshAssumption
    <3> QED BY <1>1, <1>3, <1>p, <3>1, <3>2 DEF Exact
  <2> QED BY <2>1, <2>2
<1>11. \A h \in rules : h.origin # temp
  <2> SUFFICES ASSUME NEW h \in rules, h.origin = temp PROVE FALSE
    OBVIOUS
  <2>1. \E i \in DOMAIN S : IsPrefix(h.origin, S[i].origin)
    BY <1>1, OriginsOfRules
  <2> QED BY <1>9, <2>1
<1>12. \A h \in rules : h.target # temp
  <2> SUFFICES ASSUME NEW h \in rules, h.target = temp PROVE FALSE
    OBVIOUS
  <2>1. CASE h \in GeneratedRules(S)
    BY <1>1, <2>1 DEF Accounted, IsGenerated
  <2>2. ASSUME NEW i \in DOMAIN S, h = S[i] PROVE FALSE
    <3>1. S[i].target \in Paths
      BY <1>1, SeparatePaths
    <3>2. IsPrefix(temp, temp)
      BY <1>8, PathsAssumption, StrictPrefix
    <3> QED BY <1>9, <2>2, <3>1, <3>2
  <2> QED BY <2>1, <2>2, TargetsOfRules
<1>13. ~ContainerFull(g)
  <2>1. {h \in rules : h.origin = p} = {}
    BY <1>1, <1>3 DEF Exact
  <2>2. Cardinality({h \in rules : h.origin = g.origin}) = 0
    BY <1>g, <2>1, FS_EmptySet
  <2> QED BY <2>2, NamesAssumption DEF ContainerFull
<1>14. ASSUME Fails(g) PROVE p \in {S[i].target : i \in DOMAIN S}
  <2>1. p \in targets
    <3>1. g.name \notin names /\ g.target \notin origins \cup targets
      BY <1>1, <1>g, <1>10, <1>11, <1>12 DEF Exact
    <3> QED BY <1>7, <1>8, <1>13, <1>14, <1>g, <3>1 DEF Fails, Refused
  <2>2. PICK h \in rules : h.target = p
    BY <1>1, <2>1 DEF Exact
  <2>3. h.target \notin temporary
    <3> SUFFICES ASSUME p \in Temporary PROVE FALSE
      BY <2>2 DEF BInv, TypeOK
    <3>1. \E i \in DOMAIN S : IsPrefix(p, S[i].origin)
      BY <1>5, <1>6, MissingIsNew
    <3> QED BY <3>1, FreshHolds
  <2> QED BY <2>2, <2>3, TargetsOfRules
<1> QED BY <1>p, <1>3, <1>6, <1>14
LEMMA AddParentVerdict ==
  ASSUME VInv, AddParent
  PROVE  VInv'
<1>S. PICK S, F : S = config.sections /\ F = config.files
  OBVIOUS
<1>1. PICK r \in rules, temp \in Temporary \ temporary :
        /\ ParentMissing(r)
        /\ AddRule(ParentRule(r, temp))
        /\ IF Fails(ParentRule(r, temp))
           THEN phase' = "refused" /\ UNCHANGED temporary
           ELSE temporary' = temporary \cup {temp} /\ UNCHANGED phase
  BY DEF AddParent
<1>2. phase = "verifying" /\ config' = config
  BY DEF AddParent
<1>3. BInv' /\ BInv
  BY AddParentPreserves DEF VInv
<1>4. Sections(S, F) /\ Verified(S, F)
  BY <1>S, <1>2, <1>3, SectionsHold DEF VInv
<1>p. PICK p, g : p = Front(r.origin) /\ g = ParentRule(r, temp)
  OBVIOUS
<1>g. g.origin = p /\ g.target = temp /\ g.name = GeneratedName[r.origin]
  BY <1>p DEF ParentRule
<1>5. /\ p \in MissingParents(S, F) /\ p \in Paths /\ p \notin origins
      /\ Fails(g) => p \in MissingParents(S, F) \cap {S[i].target : i \in DOMAIN S}
  <2>1. /\ Front(r.origin) \in MissingParents(S, F)
        /\ Front(r.origin) \in Paths /\ Front(r.origin) \notin origins
        /\ Fails(ParentRule(r, temp)) =>
             Front(r.origin) \in MissingParents(S, F) \cap {S[i].target : i \in DOMAIN S}
    BY <1>S, <1>1, <1>3, <1>4, ParentRefused
  <2> QED BY <1>p, <2>1
<1>6. CASE Fails(g)
  <2>1. MissingParents(S, F) \cap {S[i].target : i \in DOMAIN S} # {}
    BY <1>5, <1>6
  <2>2. ~Acceptable(S, F)
    BY <2>1 DEF Acceptable
  <2>3. phase' = "refused"
    BY <1>1, <1>6, <1>p
  <2> QED BY <1>S, <1>2, <1>3, <2>2, <2>3 DEF VInv, Verdict
<1>7. CASE ~Fails(g)
  <2>1. rules' = rules \cup {g} /\ Exact'
    BY <1>1, <1>4, <1>7, <1>p, AddedExactly DEF Verified
  <2>2. phase' = "verifying" /\ temporary' = temporary \cup {temp}
    BY <1>1, <1>2, <1>7, <1>p
  <2>3. OfSections(S, DOMAIN S) \subseteq rules'
    BY <1>4, <2>1 DEF Verified, Accounted
  <2>4. \A h \in rules : h.origin # p
    BY <1>4, <1>5 DEF Verified, Exact
  <2>5. \A h \in rules' \ OfSections(S, DOMAIN S) : h \in GeneratedRules(S) \/ h = g
    BY <2>1 DEF GeneratedRules
  <2>6. IsGenerated(S, F, g)'
    <3>1. r.origin \in Paths /\ r.origin # <<>>
      BY <1>3, <1>4, OriginsOfRules
    <3> QED BY <1>5, <1>p, <1>g, <2>2, <3>1 DEF IsGenerated
  <2>7. ASSUME NEW h \in GeneratedRules(S) PROVE IsGenerated(S, F, h)'
    <3>1. IsGenerated(S, F, h)
      BY <1>4 DEF Verified, Accounted
    <3> QED BY <2>2, <3>1 DEF IsGenerated
  <2>8. ASSUME NEW h \in rules' \ OfSections(S, DOMAIN S), NEW k \in rules', h.origin = k.origin
        PROVE  h = k
    <3>1. CASE h \in GeneratedRules(S) /\ k \in rules
      BY <1>4, <2>8, <3>1 DEF Verified, Accounted
    <3>2. CASE h = g \/ k = g
      <4>1. h \in rules \cup {g} /\ k \in rules \cup {g} /\ h.origin = p /\ k.origin = p
        BY <1>g, <2>1, <2>8, <3>2
      <4> QED BY <2>4, <4>1
    <3> QED BY <2>1, <2>5, <3>1, <3>2
  <2>9. Accounted(S, F)'
    BY <2>3, <2>5, <2>6, <2>7, <2>8 DEF Accounted, GeneratedRules
  <2>10. Verified(S, F)'
    BY <1>4, <2>1, <2>9 DEF Verified, Separate
  <2> QED BY <1>S, <1>2, <1>3, <2>2, <2>10 DEF VInv, Verdict
<1> QED BY <1>6, <1>7

\* No temporary directory lies above the directory they are made in.
LEMMA TemporariesApart ==
  ASSUME NEW temp \in Temporary
  PROVE  /\ ~IsPrefix(temp, TempDirectory)
         /\ \A d \in Paths : IsStrictPrefix(d, temp) <=> IsPrefix(d, TempDirectory)
<1>1. temp \in Seq(Names) /\ TempDirectory \in Seq(Names) /\ temp # <<>> /\ Front(temp) = TempDirectory
  BY TemporaryAssumption, PathsAssumption
<1>2. Len(TempDirectory) = Len(temp) - 1 /\ Len(temp) \in Nat
  <2>1. Len(Front(temp)) = Len(temp) - 1 /\ Len(temp) \in Nat
    BY <1>1, FrontElements
  <2> QED BY <1>1, <2>1
<1>3. ~IsPrefix(temp, TempDirectory)
  <2> SUFFICES ASSUME IsPrefix(temp, TempDirectory) PROVE FALSE
    OBVIOUS
  <2>1. Len(temp) <= Len(TempDirectory)
    BY <1>1, PrefixElements
  <2> QED BY <1>2, <2>1
<1>4. ASSUME NEW d \in Paths PROVE IsStrictPrefix(d, temp) <=> IsPrefix(d, TempDirectory)
  <2>1. d \in Seq(Names)
    BY PathsAssumption
  <2>2. IsStrictPrefix(d, temp) <=> IsPrefix(d, Front(temp))
    BY <1>1, <2>1, AbovePath
  <2> QED BY <1>1, <2>2
<1> QED BY <1>3, <1>4

\* What Acceptable compares.
AllDirectories(S, F) ==
  GivenOrigins(S) \cup MissingParents(S, F) \cup {S[i].target : i \in DOMAIN S}

\* A target below another directory of the rules is a constraint that is broken.
LEMMA TargetRefused ==
  ASSUME NEW S, NEW F, S = config.sections, F = config.files, BInv, Verified(S, F),
         NEW r \in rules, NEW d \in InTheWay(rules), IsStrictPrefix(d, r.target)
  PROVE  ~Acceptable(S, F)
<1> SUFFICES ASSUME Acceptable(S, F) PROVE FALSE
  OBVIOUS
<1>1. Sections(S, F) /\ Separate(S) /\ temporary \subseteq Temporary
  BY SectionsHold DEF Verified, BInv, TypeOK
<1>2. /\ \A e \in AllDirectories(S, F) : \A i \in DOMAIN S : ~IsStrictPrefix(e, S[i].target)
      /\ MissingParents(S, F) # {} => \A e \in AllDirectories(S, F) : ~IsPrefix(e, TempDirectory)
  BY DEF Acceptable, AllDirectories
<1>3. PICK h \in rules : d = h.origin \/ d = h.target
  BY DEF InTheWay, Origins
<1>4. d \in Paths
  BY <1>3 DEF BInv, RulesSound, Rule
<1>5. d \in AllDirectories(S, F) \/ d \in Temporary
  <2>1. CASE d = h.origin
    <3>1. h.origin \in GivenOrigins(S) \cup MissingParents(S, F)
      BY <1>1, OriginsOfRules
    <3> QED BY <2>1, <3>1 DEF AllDirectories
  <2>2. CASE d = h.target
    BY <1>1, <2>2, TargetsOfRules DEF AllDirectories
  <2> QED BY <1>3, <2>1, <2>2
<1>6. CASE \E i \in DOMAIN S : r = S[i]
  <2>1. PICK i \in DOMAIN S : r = S[i]
    BY <1>6
  <2>2. d \in Temporary
    BY <1>2, <1>5, <2>1
  <2>3. ~IsPrefix(d, S[i].target)
    BY <2>2, FreshHolds
  <2>4. d \in Seq(Names) /\ S[i].target \in Seq(Names)
    BY <1>1, <1>4, SeparatePaths, PathsAssumption
  <2> QED BY <2>1, <2>3, <2>4, StrictPrefix
<1>7. CASE r.target \in temporary /\ r.origin \in MissingParents(S, F)
  <2>1. IsPrefix(d, TempDirectory)
    BY <1>1, <1>4, <1>7, TemporariesApart
  <2>2. d \notin Temporary
    BY <2>1, TemporariesApart
  <2> QED BY <1>2, <1>5, <1>7, <2>1, <2>2
<1> QED BY <1>6, <1>7, TargetsOfRules

\* What every check was passed by keeps the constraints.
LEMMA NothingInTheWay ==
  ASSUME NEW S, NEW F, S = config.sections, F = config.files, BInv, Verified(S, F),
         Origins(rules) = GivenOrigins(S) \cup MissingParents(S, F),
         \A r \in rules : ~OriginOccupied(r),
         \A r \in rules : \A d \in InTheWay(rules) : ~IsStrictPrefix(d, r.target)
  PROVE  Acceptable(S, F)
<1>1. Sections(S, F) /\ Separate(S) /\ temporary \subseteq Temporary
  BY SectionsHold DEF Verified, BInv, TypeOK
<1>2. \A i \in DOMAIN S : S[i].origin \in Paths
  BY <1>1, SeparatePaths
<1>3. OfSections(S, DOMAIN S) \subseteq rules
  BY DEF Verified, Accounted
<1>4. AllDirectories(S, F) \subseteq InTheWay(rules)
  BY <1>3 DEF AllDirectories, InTheWay, OfSections
<1>5. InTheWay(rules) \subseteq Paths
  BY DEF InTheWay, Origins, BInv, RulesSound, Rule
<1>6. \A p \in GivenOrigins(S) \cup MissingParents(S, F) : At(F, p) # "file"
  <2> SUFFICES ASSUME NEW r \in rules PROVE At(F, r.origin) # "file"
    BY DEF Origins
  <2> QED BY DEF OriginOccupied, Exists, IsDirectory
<1>7. MissingParents(S, F) \cap {S[i].target : i \in DOMAIN S} = {}
  <2> SUFFICES ASSUME NEW i \in DOMAIN S, S[i].target \in MissingParents(S, F) PROVE FALSE
    OBVIOUS
  <2>1. PICK g \in rules : g.origin = S[i].target
    BY DEF Origins
  <2>2. S[i] \in rules
    BY <1>3 DEF OfSections
  <2>3. g = S[i]
    BY <2>1, <2>2 DEF BInv, RulesSound, Distinct
  <2>4. S[i].target \notin GivenOrigins(S)
    BY <1>2, MissingIsNew
  <2> QED BY <2>1, <2>3, <2>4 DEF GivenOrigins
<1>8. \A d \in AllDirectories(S, F) : \A i \in DOMAIN S : ~IsStrictPrefix(d, S[i].target)
  BY <1>3, <1>4 DEF OfSections
<1>9. ASSUME MissingParents(S, F) # {}, NEW d \in AllDirectories(S, F)
      PROVE  ~IsPrefix(d, TempDirectory)
  <2>1. PICK p \in MissingParents(S, F), g \in rules : g.origin = p
    BY <1>9 DEF Origins
  <2>2. p \notin GivenOrigins(S)
    BY <1>2, MissingIsNew
  <2>3. g.target \in Temporary
    BY <1>1, <2>1, <2>2, TargetsOfRules DEF GivenOrigins
  <2>4. ~IsStrictPrefix(d, g.target) /\ d \in Paths
    BY <1>4, <1>5, <1>9
  <2> QED BY <2>3, <2>4, TemporariesApart
<1> QED BY <1>1, <1>6, <1>7, <1>8, <1>9 DEF Acceptable, AllDirectories

\* The rules are one for each section and one for each missing directory.
LEMMA RulesCounted ==
  ASSUME NEW S, NEW F, BInv, Sections(S, F), Verified(S, F),
         Origins(rules) = GivenOrigins(S) \cup MissingParents(S, F)
  PROVE  Cardinality(rules) = Len(S) + Cardinality(MissingParents(S, F))
<1>1. PICK O, G, M : O = OfSections(S, DOMAIN S) /\ G = GeneratedRules(S) /\ M = MissingParents(S, F)
  OBVIOUS
<1>2. rules = O \cup G /\ O \cap G = {}
  BY <1>1 DEF Verified, Accounted, GeneratedRules
<1>3. IsFiniteSet(O) /\ Cardinality(O) = Len(S)
  <2>1. NamesApart(S, DOMAIN S)
    BY DEF Verified, Separate, NamesApart
  <2>2. IsFiniteSet(DOMAIN S) /\ Cardinality(DOMAIN S) = Len(S)
    BY FS_Interval DEF Sections
  <2>3. IsFiniteSet({S[i] : i \in DOMAIN S}) /\ Cardinality({S[i] : i \in DOMAIN S}) = Cardinality(DOMAIN S)
    BY <2>1, <2>2, RulesAreSections
  <2> QED BY <1>1, <2>2, <2>3 DEF OfSections
<1>4. IsFiniteSet(G)
  BY <1>2, FS_Subset DEF BInv, RulesSound
<1>5. Cardinality(M) = Cardinality(G)
  <2>1. PICK f : f = [g \in G |-> g.origin]
    OBVIOUS
  <2>2. \A g \in G : g.origin \in M
    BY <1>1 DEF Verified, Accounted, IsGenerated
  <2>3. \A g, h \in G : g.origin = h.origin => g = h
    BY <1>1, <1>2 DEF Verified, Accounted
  <2>4. \A m \in M : \E g \in G : g.origin = m
    <3> SUFFICES ASSUME NEW m \in M PROVE \E g \in G : g.origin = m
      OBVIOUS
    <3>1. PICK g \in rules : g.origin = m
      BY <1>1 DEF Origins
    <3>2. m \notin GivenOrigins(S)
      <4>1. \A i \in DOMAIN S : S[i].origin \in Paths
        BY SeparatePaths DEF Verified
      <4> QED BY <1>1, <4>1, MissingIsNew
    <3>3. g \notin O
      BY <1>1, <3>1, <3>2 DEF OfSections, GivenOrigins
    <3> QED BY <1>2, <3>1, <3>3
  <2>5. f \in Surjection(G, M)
    BY <2>1, <2>2, <2>4 DEF Surjection
  <2>6. f \in Injection(G, M)
    BY <2>1, <2>2, <2>3 DEF Injection, IsInjective
  <2> QED BY <1>4, <2>5, <2>6, FS_Surjection
<1>6. Cardinality(O \cup G) = Cardinality(O) + Cardinality(G)
  <2>1. Cardinality(O \cup G) = Cardinality(O) + Cardinality(G) - Cardinality(O \cap G)
    BY <1>3, <1>4, FS_Union
  <2>2. Cardinality(O \cap G) = 0
    BY <1>2, FS_EmptySet
  <2>3. Cardinality(O) \in Nat /\ Cardinality(G) \in Nat
    BY <1>3, <1>4, FS_CardinalityType
  <2> QED BY <2>1, <2>2, <2>3
<1> QED BY <1>1, <1>2, <1>3, <1>5, <1>6

LEMMA VerifyTargetsVerdict ==
  ASSUME VInv, VerifyTargets
  PROVE  VInv'
<1>S. PICK S, F : S = config.sections /\ F = config.files
  OBVIOUS
<1>1. /\ phase = "verifying" /\ config' = config /\ rules' = rules
      /\ \A r \in rules : ~OriginOccupied(r)
      /\ \A r \in rules : ~ParentMissing(r)
      /\ phase' \in {"refused", "built"}
      /\ phase' = "refused" => \E r \in rules : \E d \in InTheWay(rules) : IsStrictPrefix(d, r.target)
      /\ phase' = "built" => \A r \in rules : \A d \in InTheWay(rules) : ~IsStrictPrefix(d, r.target)
  BY DEF VerifyTargets
<1>2. BInv' /\ BInv
  BY VerifyTargetsPreserves DEF VInv
<1>3. Sections(S, F) /\ Verified(S, F)
  BY <1>S, <1>1, <1>2, SectionsHold DEF VInv
<1>4. Origins(rules) = GivenOrigins(S) \cup MissingParents(S, F)
  <2>1. Origins(rules) \subseteq GivenOrigins(S) \cup MissingParents(S, F)
    BY <1>2, <1>3, OriginsOfRules DEF Origins
  <2>2. GivenOrigins(S) \subseteq Origins(rules)
    BY <1>3 DEF Verified, Accounted, OfSections, GivenOrigins, Origins
  <2>3. Closed(S, F, Origins(rules))
    <3>1. Origins(rules) \subseteq Paths /\ origins = Origins(rules)
      BY <1>2, <1>3 DEF BInv, RulesSound, Rule, Origins, Verified, Exact
    <3>2. \A r \in rules : r.origin # <<>>
      BY <1>2 DEF BInv, RulesSound, Indexed
    <3>3. \A r \in rules : IsDirectory(F, Front(r.origin)) \/ Front(r.origin) \in Origins(rules)
      BY <1>S, <1>1, <3>1 DEF ParentMissing
    <3>4. \A o \in Origins(rules) : o # <<>> /\ (IsDirectory(F, Front(o)) \/ Front(o) \in Origins(rules))
      BY <3>2, <3>3 DEF Origins
    <3> QED BY <2>2, <3>1, <3>4 DEF Closed
  <2>4. MissingParents(S, F) \subseteq Origins(rules)
    BY <2>3, ClosedHasMissing
  <2> QED BY <2>1, <2>2, <2>4
<1>5. phase' = "refused" => ~Acceptable(S, F)
  BY <1>S, <1>1, <1>2, <1>3, TargetRefused
<1>6. phase' = "built" => Acceptable(S, F)
  BY <1>S, <1>1, <1>2, <1>3, <1>4, NothingInTheWay
<1>7. Cardinality(rules) = Len(S) + Cardinality(MissingParents(S, F))
  BY <1>2, <1>3, <1>4, RulesCounted
<1>8. Verdict'
  BY <1>S, <1>1, <1>4, <1>5, <1>6, <1>7 DEF Verdict
<1> QED BY <1>1, <1>2, <1>8 DEF VInv

LEMMA InitVerdict == Init => VInv
<1> SUFFICES ASSUME Init PROVE VInv
  OBVIOUS
<1>S. PICK S : S = config.sections
  OBVIOUS
<1>1. BInv
  BY InitSound
<1>2. phase = "reading" /\ next = 1 /\ errors = {} /\ rules = {}
  BY DEF Init
<1>3. Sections(S, config.files)
  BY <1>S, <1>1, SectionsHold
<1>4. 1 .. next - 1 = {} /\ next \in 1 .. Len(S) + 1
  BY <1>2, <1>3 DEF Sections
<1>5. SeparateIn(S, {})
  BY DEF SeparateIn
<1>6. Exact
  BY DEF Init, Exact
<1>7. Collected(S, 1 .. next - 1)
  BY <1>2, <1>4, <1>5, <1>6 DEF Collected
<1>8. ReadSoFar(S)
  BY <1>2, <1>4, <1>7 DEF ReadSoFar
<1> QED BY <1>S, <1>1, <1>2, <1>8 DEF VInv, Verdict

LEMMA NextVerdict == VInv /\ [Next]_vars => VInv'
<1> SUFFICES ASSUME VInv, [Next]_vars PROVE VInv'
  OBVIOUS
<1>1. CASE UNCHANGED vars
  <2>1. BInv'
    BY <1>1, NextSound DEF VInv
  <2>2. config' = config /\ phase' = phase
    BY <1>1 DEF vars
  <2>3. ASSUME NEW S, ReadSoFar(S) PROVE ReadSoFar(S)'
    BY <1>1, <2>3 DEF vars, ReadSoFar, Collected, SeparateIn, Exact
  <2>4. ASSUME NEW S, NEW F, Verified(S, F) PROVE Verified(S, F)'
    BY <1>1, <2>4 DEF vars, Verified, Separate, Exact, Accounted, GeneratedRules, IsGenerated
  <2>5. Verdict'
    BY <1>1 DEF vars, VInv, Verdict
  <2> QED BY <2>1, <2>2, <2>3, <2>4, <2>5 DEF VInv
<1>2. CASE ReadSection
  BY <1>2, ReadSectionVerdict
<1>3. CASE FinishReading
  BY <1>3, FinishReadingVerdict
<1>4. CASE RefuseOrigin
  BY <1>4, RefuseOriginVerdict
<1>5. CASE AddParent
  BY <1>5, AddParentVerdict
<1>6. CASE VerifyTargets
  BY <1>6, VerifyTargetsVerdict
<1> QED BY <1>1, <1>2, <1>3, <1>4, <1>5, <1>6 DEF Next

-----------------------------------------------------------------------------
(* The theorems. *)

\* Type correctness of the builder: whatever the configuration, what becomes a
\* rule has valid directories (AddRule).
THEOREM BuilderTypeOK == Spec => []TypeOK
<1>1. BInv => TypeOK
  BY DEF BInv
<1> QED BY <1>1, InitSound, NextSound, PTL DEF Spec

\* A director that was built, in however many rounds, satisfies what Redirection
\* assumes of its configurations (AddRule, VerifyPreBuildConstraints, Build).
THEOREM BuiltRulesAreValid == Spec => []BuiltIsValid
<1>1. BInv => BuiltIsValid
  BY DEF BInv
<1> QED BY <1>1, InitSound, NextSound, PTL DEF Spec

\* A director is built exactly if the sections keep the constraints AddRule and
\* Build are documented to impose, in whichever order they are written, and it has
\* a rule for each section and one for each missing directory above an origin.
THEOREM VerdictIsRight == Spec => []Verdict
<1>1. VInv => Verdict
  BY DEF VInv
<1> QED BY <1>1, InitVerdict, NextVerdict, PTL DEF Spec
=============================================================================
