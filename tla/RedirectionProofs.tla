-------------------------- MODULE RedirectionProofs --------------------------
(***************************************************************************)
(* Proofs about Redirection for any rules the builder accepts, any files   *)
(* and any requests: what the store records of an open handle is enough to *)
(* find the rule that redirected it; and, if all rules are in simple mode, *)
(* what a handle is on, what is created, what collides, that what an       *)
(* application sees is one filesystem, and that listings agree with it.    *)
(***************************************************************************)
EXTENDS SimpleUse, SequenceTheorems, FiniteSetTheorems, WellFoundedInduction, TLAPS

\* A prefix agrees with the sequence at every position it has.
LEMMA PrefixElements ==
  ASSUME NEW S, NEW s \in Seq(S), NEW t \in Seq(S)
  PROVE  IsPrefix(s, t) <=>
           Len(s) <= Len(t) /\ \A i \in 1 .. Len(s) : s[i] = t[i]

<1> DEFINE k == Len(s)
<1>1. k \in Nat /\ Len(t) \in Nat
  OBVIOUS
<1>2. SubSeq(s, 1, k) = s
  BY SubSeqFull
<1>3. ASSUME k <= Len(t)
      PROVE  /\ SubSeq(t, 1, k) \in Seq(S)
             /\ Len(SubSeq(t, 1, k)) = k
             /\ \A i \in 1 .. k : SubSeq(t, 1, k)[i] = t[i]
  BY <1>1, <1>3
<1>4. ASSUME k <= Len(t), \A i \in 1 .. k : s[i] = t[i]
      PROVE  s = SubSeq(t, 1, k)
  BY <1>3, <1>4, SeqEqual
<1> QED BY <1>2, <1>3, <1>4 DEF IsPrefix

\* Two prefixes of one path are one above the other.
LEMMA PrefixesComparable ==
  ASSUME NEW S, NEW a \in Seq(S), NEW b \in Seq(S), NEW p \in Seq(S),
         IsPrefix(a, p), IsPrefix(b, p)
  PROVE  IsPrefix(a, b) \/ IsPrefix(b, a)

<1>1. /\ Len(a) <= Len(p) /\ \A i \in 1 .. Len(a) : a[i] = p[i]
      /\ Len(b) <= Len(p) /\ \A i \in 1 .. Len(b) : b[i] = p[i]
  BY PrefixElements
<1>2. CASE Len(a) <= Len(b)
  <2>1. \A i \in 1 .. Len(a) : a[i] = b[i]
    BY <1>1, <1>2
  <2> QED BY <2>1, <1>2, PrefixElements
<1>3. CASE Len(b) <= Len(a)
  <2>1. \A i \in 1 .. Len(b) : b[i] = a[i]
    BY <1>1, <1>3
  <2> QED BY <2>1, <1>3, PrefixElements
<1> QED BY <1>2, <1>3

\* A redirected path lies in the target directory.
LEMMA RedirectedBelowTarget ==
  ASSUME NEW r \in Rule, NEW n \in Seq(Names)
  PROVE  /\ RedirectPathOriginToTarget(r, n) \in Seq(Names)
         /\ IsPrefix(r.target, RedirectPathOriginToTarget(r, n))

<1> DEFINE rest == SubSeq(n, Len(r.origin) + 1, Len(n))
<1>1. r.target \in Seq(Names) /\ Len(r.origin) \in Nat
  BY PathsAssumption DEF Rule
<1>2. rest \in Seq(Names)
  BY <1>1
<1> HIDE DEF rest
<1>3. /\ r.target \o rest \in Seq(Names)
      /\ Len(r.target) <= Len(r.target \o rest)
      /\ \A i \in 1 .. Len(r.target) : r.target[i] = (r.target \o rest)[i]
  <2>1. Len(r.target) \in Nat /\ Len(rest) \in Nat
    BY <1>1, <1>2
  <2>2. /\ r.target \o rest \in Seq(Names)
        /\ Len(r.target \o rest) = Len(r.target) + Len(rest)
        /\ \A i \in 1 .. Len(r.target) + Len(rest) :
             (r.target \o rest)[i] = IF i <= Len(r.target) THEN r.target[i]
                                     ELSE rest[i - Len(r.target)]
    BY <1>1, <1>2, ConcatProperties
  <2>3. Len(r.target) <= Len(r.target) + Len(rest)
    BY <2>1
  <2>4. ASSUME NEW i \in 1 .. Len(r.target)
        PROVE  i \in 1 .. Len(r.target) + Len(rest) /\ i <= Len(r.target)
    BY <2>1
  <2>5. \A i \in 1 .. Len(r.target) : r.target[i] = (r.target \o rest)[i]
    BY <2>2, <2>4
  <2> QED BY <2>2, <2>3, <2>5
<1>4. IsPrefix(r.target, r.target \o rest)
  BY <1>1, <1>3, PrefixElements
<1> QED BY <1>3, <1>4 DEF RedirectPathOriginToTarget, rest

\* The order of a container has no cycle of two.
LEMMA PrecedesAsymmetric ==
  ASSUME NEW r \in Rule, NEW s \in Rule, IsFiniteSet(r.patterns), IsFiniteSet(s.patterns),
         Precedes(r, s)
  PROVE  ~Precedes(s, r)

<1>1. Cardinality(r.patterns) \in Nat /\ Cardinality(s.patterns) \in Nat
  BY FS_CardinalityType
<1>2. r.name \in Nat /\ s.name \in Nat
  BY DEF Rule
<1> QED BY <1>1, <1>2 DEF Precedes

\* A loop over rules finds one of them first.
LEMMA FirstUnique ==
  ASSUME NEW R, ValidRules(R), NEW X \in SUBSET R, NEW r \in First(X), NEW s \in First(X)
  PROVE  r = s
<1> SUFFICES ASSUME r # s PROVE FALSE
  OBVIOUS
<1>1. r \in X /\ s \in X /\ Precedes(r, s) /\ Precedes(s, r)
  BY DEF First
<1>2. r \in Rule /\ s \in Rule /\ IsFiniteSet(r.patterns) /\ IsFiniteSet(s.patterns)
  BY <1>1 DEF ValidRules
<1> QED BY <1>1, <1>2, PrecedesAsymmetric

\* Only one rule of a container has a target above a redirected path.
LEMMA OneTargetAbove ==
  ASSUME NEW R, ValidRules(R), NEW r \in R, NEW s \in R, NEW p \in Seq(Names),
         IsPrefix(r.target, p), IsPrefix(s.target, p)
  PROVE  r = s
<1>1. r.target \in Seq(Names) /\ s.target \in Seq(Names)
  BY PathsAssumption DEF ValidRules, Rule
<1>2. IsPrefix(r.target, s.target) \/ IsPrefix(s.target, r.target)
  BY <1>1, PrefixesComparable
<1>3. r.target = s.target
  BY <1>2 DEF ValidRules, IsStrictPrefix
<1> QED BY <1>3 DEF ValidRules

\* IdentifyRuleThatPerformedRedirection finds the rule that the file operation
\* was redirected by.
LEMMA RuleIsIdentified ==
  ASSUME NEW R, ValidRules(R), NEW n \in Seq(Names), NEW r \in RuleFor(R, n)
  PROVE  IdentifyRule(SelectRulesForPath(R, n), RedirectPathOriginToTarget(r, n)) = RuleFor(R, n)

<1> DEFINE C == SelectRulesForPath(R, n)
           p == RedirectPathOriginToTarget(r, n)
           X == {s \in C : InScope(s, n)}
           Y == {s \in C : IsPrefix(s.target, p)}
<1>1. n # <<>> /\ RuleFor(R, n) = First(X)
  BY DEF RuleFor
<1>2. X \in SUBSET R /\ C \in SUBSET R
  BY DEF SelectRulesForPath
<1>3. r \in X
  BY <1>1 DEF First
<1>4. r \in R /\ r \in C /\ r \in Rule
  BY <1>2, <1>3 DEF ValidRules
<1>5. RuleFor(R, n) = {r}
  BY <1>1, <1>2, FirstUnique
<1>6. p \in Seq(Names) /\ IsPrefix(r.target, p)
  BY <1>4, RedirectedBelowTarget
<1>7. Y = {r}
  BY <1>2, <1>4, <1>6, OneTargetAbove
<1>8. First(Y) = {r}
  BY <1>7 DEF First
<1> QED BY <1>5, <1>8 DEF IdentifyRule

-----------------------------------------------------------------------------
(* The invariant. *)

\* A call that is under way has all of its fields.
LEMMA UnderWay ==
  ASSUME IInv, NEW t \in Threads, call[t].step \notin {"idle", "answered"}
  PROVE  call[t] \in Call /\ CallFaithful(call[t])
<1>1. call[t] # Idle
  BY DEF Idle
<1>2. \A status : call[t] # Answered(status)
  BY DEF Answered
<1> QED BY <1>1, <1>2 DEF IInv, TypeOK

\* What a step has to say of its own call c and its own handle h.
LEMMA StepPreserves ==
  ASSUME IInv, NEW t \in Threads, NEW c, NEW h,
         \/ c = Idle
         \/ c \in {Answered(status) : status \in Statuses}
         \/ c \in Call /\ CallFaithful(c),
         h = handle[t] \/ h = NoHandle \/ (h \in Handle /\ Faithful(h.name, h.path)),
         rules' = rules, files' \in [Paths -> Kinds],
         call' = [call EXCEPT ![t] = c], handle' = [handle EXCEPT ![t] = h]
  PROVE  IInv'
<1>1. /\ DOMAIN call' = Threads /\ call'[t] = c
      /\ \A u \in Threads \ {t} : call'[u] = call[u]
  BY DEF IInv, TypeOK
<1>2. /\ handle'[t] = h /\ \A u \in Threads \ {t} : handle'[u] = handle[u]
      /\ h \in Handle \cup {NoHandle}
      /\ handle' \in [Threads -> Handle \cup {NoHandle}]
  BY DEF IInv, TypeOK
<1>3. TypeOK'
  <2>1. call' \in [Threads -> Call \cup {Idle} \cup {Answered(status) : status \in Statuses}]
    BY DEF IInv, TypeOK
  <2> QED BY <1>2, <2>1 DEF IInv, TypeOK
<1>4. \A n, p : Faithful(n, p)' <=> Faithful(n, p)
  BY DEF Faithful
<1>5. ASSUME NEW u \in Threads, call'[u].step \notin {"idle", "answered"}
      PROVE  CallFaithful(call[u])'
  <2>1. CallFaithful(call'[u])
    <3>1. CASE u = t
      BY <3>1, <1>1, <1>5 DEF Idle, Answered
    <3>2. CASE u # t
      BY <3>2, <1>1, <1>5 DEF IInv
    <3> QED BY <3>1, <3>2
  <2> QED BY <2>1, <1>4 DEF CallFaithful
<1>6. ASSUME NEW u \in Threads, handle'[u] # NoHandle
      PROVE  Faithful(handle'[u].name, handle'[u].path)
  <2>1. CASE u = t
    BY <2>1, <1>2, <1>6 DEF IInv
  <2>2. CASE u # t
    BY <2>2, <1>2, <1>6 DEF IInv
  <2> QED BY <2>1, <2>2
<1>7. \A u \in Threads : handle'[u] # NoHandle => Faithful(handle[u].name, handle[u].path)'
  BY <1>6, <1>4
<1> QED BY <1>3, <1>5, <1>7 DEF IInv

LEMMA OneOrTwo ==
  ASSUME NEW k \in {1, 2}
  PROVE  1 \in 1 .. k /\ k <= 2
OBVIOUS

\* One or two dispositions are tried, the last one whatever exists.
LEMMA DispositionsType ==
  ASSUME NEW mode, NEW op \in Operations
  PROVE  /\ CreateDispositionsToTry(mode, op) \in Seq([op : Operations, ifExists : BOOLEAN])
         /\ Len(CreateDispositionsToTry(mode, op)) \in {1, 2}
         /\ LET ds == CreateDispositionsToTry(mode, op) IN ~ds[Len(ds)].ifExists
<1> DEFINE S == [op : Operations, ifExists : BOOLEAN]
<1>1. ASSUME NEW o \in Operations, NEW b \in BOOLEAN
      PROVE  Disposition(o, b) \in S /\ Disposition(o, b).ifExists = b
  BY DEF Disposition
<1>2. {"OPEN", "CREATE", "OVERWRITE", "SUPERSEDE"} \subseteq Operations
  BY DEF Operations, Creating, Replacing
<1> HIDE DEF S
<1> DEFINE Good(ds) == ds \in Seq(S) /\ Len(ds) \in {1, 2} /\ ~ds[Len(ds)].ifExists
<1>3. ASSUME NEW x \in S, ~x.ifExists
      PROVE  Good(<<x>>)
  BY <1>3
<1>4. ASSUME NEW x \in S, NEW y \in S, ~y.ifExists
      PROVE  Good(<<x, y>>)
  BY <1>4
<1> HIDE DEF Good
<1>5. Good(PreferOpenExistingFile(op))
  BY <1>1, <1>2, <1>3, <1>4 DEF PreferOpenExistingFile
<1>6. Good(<<Disposition(op, FALSE)>>)
  BY <1>1, <1>3
<1>7. Good(CreateDispositionsToTry(mode, op))
  BY <1>5, <1>6 DEF CreateDispositionsToTry
<1> QED BY <1>7 DEF Good, S

\* A call that begins is faithful if the paths it is going to try are.
LEMMA BeginPreserves ==
  ASSUME IInv, NEW t \in Threads, NEW req \in Requests, MayAsk(t, req),
         NEW mode \in Mode, NEW step \in {"climb", "attempt"},
         NEW ensure \in Seq(Names) \cup {NoPath}, step = "climb" => ensure # NoPath,
         NEW tries \in Seq([at : Seq(Names), path : Seq(Names) \cup {NoPath}]),
         Len(tries) \in {1, 2},
         \A i \in DOMAIN tries : /\ tries[i].path \in {NoPath, Named(t, req), tries[i].at}
                                 /\ Faithful(Named(t, req), tries[i].path),
         Begin(t, req, mode, step, ensure, tries),
         UNCHANGED <<rules, files, handle>>
  PROVE  IInv'
<1> PICK ds : ds = CreateDispositionsToTry(mode, req.op)
  OBVIOUS
<1> PICK n : n = Named(t, req)
  OBVIOUS
<1> DEFINE c == [step |-> step, op |-> req.op, as |-> req.as, name |-> n, mode |-> mode,
                 ensure |-> ensure, level |-> ensure, dispositions |-> ds, tries |-> tries,
                 d |-> 1, f |-> 1]
<1>1. req.op \in Operations /\ req.as \in Demands
  BY RequestsAssumption DEF Request
<1>2. n \in Paths
  BY DEF MayAsk
<1>3. /\ ds \in Seq([op : Operations, ifExists : BOOLEAN]) /\ Len(ds) \in {1, 2}
      /\ ~ds[Len(ds)].ifExists
  BY <1>1, DispositionsType
<1>4. c \in Call
  BY <1>1, <1>2, <1>3 DEF Call
<1>5. 1 \in DOMAIN ds /\ 1 \in DOMAIN tries /\ Len(ds) <= 2 /\ Len(tries) <= 2
  <2>1. DOMAIN ds = 1 .. Len(ds) /\ DOMAIN tries = 1 .. Len(tries)
    BY <1>3, LenProperties
  <2> QED BY <1>3, <2>1, OneOrTwo
<1>6. CallFaithful(c)
  BY <1>3, <1>5 DEF CallFaithful
<1>7. call' = [call EXCEPT ![t] = c]
  BY DEF Begin
<1>8. handle' = [handle EXCEPT ![t] = handle[t]] /\ rules' = rules /\ files' \in [Paths -> Kinds]
  BY DEF IInv, TypeOK
<1> HIDE DEF c
<1> QED BY <1>4, <1>6, <1>7, <1>8, StepPreserves

LEMMA AskPreserves ==
  ASSUME IInv, NEW t \in Threads, Ask(t)
  PROVE  IInv'
<1> DEFINE S == [at : Seq(Names), path : Seq(Names) \cup {NoPath}]
<1> PICK req \in Requests : /\ MayAsk(t, req)
                            /\ AskPassed(t, req) \/ AskIntercepted(t, req) \/ AskRedirected(t, req)
  BY DEF Ask
<1>1. UNCHANGED <<rules, files, handle>>
  BY DEF Ask
<1> DEFINE n == Named(t, req)
           at == Submitted(t, req)
<1>2. n \in Seq(Names) /\ at \in Seq(Names)
  BY PathsAssumption DEF MayAsk
<1>3. ASSUME NEW a \in Seq(Names), NEW p \in Seq(Names) \cup {NoPath}
      PROVE  File(a, p) \in S /\ File(a, p).at = a /\ File(a, p).path = p
  BY DEF File
<1>4. NoPath \in Seq(Names) \cup {NoPath} /\ "pass" \in Mode /\ "intercept" \in Mode
  BY DEF Mode
<1>5. CASE AskPassed(t, req)
  <2> PICK place \in Seq(Names) :
        Begin(t, req, "pass", "attempt", NoPath, <<File(place, NoPath)>>)
    BY <1>2, <1>5 DEF AskPassed
  <2> DEFINE tries == <<File(place, NoPath)>>
  <2>1. tries \in Seq(S) /\ Len(tries) = 1 /\ DOMAIN tries = {1} /\ tries[1].path = NoPath
    <3> PICK x \in S : x = File(place, NoPath) /\ x.path = NoPath
      BY <1>3, <1>4
    <3>1. <<x>> \in Seq(S) /\ Len(<<x>>) = 1 /\ DOMAIN <<x>> = {1} /\ <<x>>[1] = x
      OBVIOUS
    <3> QED BY <3>1
  <2>2. \A i \in DOMAIN tries : /\ tries[i].path \in {NoPath, n, tries[i].at}
                                /\ Faithful(n, tries[i].path)
    BY <2>1 DEF Faithful
  <2> HIDE DEF tries
  <2>3. Begin(t, req, "pass", "attempt", NoPath, tries)
    BY DEF tries
  <2> QED BY <1>1, <1>4, <2>1, <2>2, <2>3, BeginPreserves
<1>6. CASE AskIntercepted(t, req)
  <2> DEFINE tries == <<File(at, n)>>
  <2>1. tries \in Seq(S) /\ Len(tries) = 1 /\ DOMAIN tries = {1} /\ tries[1].path = n
    BY <1>2, <1>3
  <2>2. \A i \in DOMAIN tries : /\ tries[i].path \in {NoPath, n, tries[i].at}
                                /\ Faithful(n, tries[i].path)
    BY <2>1 DEF Faithful
  <2>3. Begin(t, req, "intercept", "attempt", NoPath, tries)
    BY <1>6 DEF AskIntercepted
  <2> HIDE DEF tries
  <2> QED BY <1>1, <1>4, <2>1, <2>2, <2>3, BeginPreserves
<1>7. CASE AskRedirected(t, req)
  <2> PICK r \in RuleFor(rules, n) :
        LET redirected == RedirectPathOriginToTarget(r, n)
            ensure == EnsureHierarchy(rules, files, r, n, req.op \in Creating \cup {"RENAME"})
        IN Begin(t, req, r.mode, IF ensure = NoPath THEN "attempt" ELSE "climb", ensure,
                 FileOperationsToTry(r.mode, File(redirected, redirected), File(at, n)))
    BY <1>7 DEF AskRedirected
  <2> DEFINE redirected == RedirectPathOriginToTarget(r, n)
             ensure == EnsureHierarchy(rules, files, r, n, req.op \in Creating \cup {"RENAME"})
             tries == FileOperationsToTry(r.mode, File(redirected, redirected), File(at, n))
             step == IF ensure = NoPath THEN "attempt" ELSE "climb"
  <2>1. r \in Rule
    BY DEF RuleFor, First, SelectRulesForPath, IInv, TypeOK, ValidRules
  <2>2. redirected \in Seq(Names)
    BY <1>2, <2>1, RedirectedBelowTarget
  <2>3. ensure \in Seq(Names) \cup {NoPath}
    <3>1. Front(redirected) \in Seq(Names)
      BY <2>2 DEF Front
    <3> QED BY <2>2, <3>1 DEF EnsureHierarchy
  <2>4. step \in {"climb", "attempt"} /\ (step = "climb" => ensure # NoPath)
    OBVIOUS
  <2>5. r.mode \in Mode
    BY <2>1 DEF Rule, Mode
  <2>6. /\ File(redirected, redirected) \in S /\ File(at, n) \in S
        /\ File(redirected, redirected).path = redirected
        /\ File(redirected, redirected).at = redirected
        /\ File(at, n).path = n
    BY <1>2, <1>3, <2>2
  <2>7. Faithful(n, redirected) /\ Faithful(n, n)
    BY DEF Faithful
  <2>8. /\ tries \in Seq(S) /\ Len(tries) \in {1, 2}
        /\ \A i \in DOMAIN tries : tries[i] \in {File(redirected, redirected), File(at, n)}
    <3> PICK x \in S : x = File(redirected, redirected)
      BY <2>6
    <3> PICK y \in S : y = File(at, n)
      BY <2>6
    <3>1. /\ <<x, y>> \in Seq(S) /\ Len(<<x, y>>) = 2
          /\ \A i \in DOMAIN <<x, y>> : <<x, y>>[i] \in {x, y}
      OBVIOUS
    <3>2. /\ <<x>> \in Seq(S) /\ Len(<<x>>) = 1
          /\ \A i \in DOMAIN <<x>> : <<x>>[i] \in {x, y}
      OBVIOUS
    <3> QED BY <3>1, <3>2 DEF FileOperationsToTry
  <2>9. Begin(t, req, r.mode, step, ensure, tries)
    OBVIOUS
  <2> HIDE DEF tries, step, ensure, redirected
  <2>10. \A i \in DOMAIN tries : /\ tries[i].path \in {NoPath, n, tries[i].at}
                                 /\ Faithful(n, tries[i].path)
    BY <2>6, <2>7, <2>8
  <2> QED BY <1>1, <2>3, <2>4, <2>5, <2>8, <2>9, <2>10, BeginPreserves
<1> QED BY <1>5, <1>6, <1>7

LEMMA ClimbPreserves ==
  ASSUME IInv, NEW t \in Threads, Climb(t)
  PROVE  IInv'
<1> PICK e : e = call[t]
  OBVIOUS
<1>1. e \in Call /\ CallFaithful(e) /\ e.step = "climb" /\ e.level \in Seq(Names)
  BY UnderWay DEF Climb, CallFaithful
<1>2. Front(e.level) \in Seq(Names)
  BY <1>1 DEF Front
<1>3. handle' = [handle EXCEPT ![t] = handle[t]] /\ rules' = rules /\ files' \in [Paths -> Kinds]
  BY DEF Climb, IInv, TypeOK
<1>4. CASE e.ensure = <<>>
  <2>1. call' = [call EXCEPT ![t] = Answered("not found")]
    BY <1>4 DEF Climb, Finish
  <2>2. "not found" \in Statuses
    BY DEF Statuses
  <2> QED BY <1>3, <2>1, <2>2, StepPreserves
<1> SUFFICES ASSUME e.ensure # <<>> PROVE IInv'
  BY <1>4
<1>5. PICK level \in Seq(Names), step \in {"climb", "descend", "attempt"} :
        call' = [call EXCEPT ![t] = [e EXCEPT !.level = level, !.step = step]]
  <2>1. CASE IsDirectory(files, e.level)
    <3> PICK step \in {"attempt", "descend"} :
          step = IF e.level = e.ensure THEN "attempt" ELSE "descend"
      OBVIOUS
    <3>1. call' = [call EXCEPT ![t] = [e EXCEPT !.step = step]]
      BY <2>1 DEF Climb
    <3>2. [e EXCEPT !.step = step] = [e EXCEPT !.level = e.level, !.step = step]
      BY <1>1 DEF Call
    <3> QED BY <1>1, <3>1, <3>2
  <2>2. CASE ~IsDirectory(files, e.level)
    <3> PICK step \in {"climb", "descend"} :
          step = IF Front(e.level) = <<>> THEN "descend" ELSE e.step
      BY <1>1
    <3>1. call' = [call EXCEPT ![t] = [e EXCEPT !.level = Front(e.level), !.step = step]]
      BY <2>2 DEF Climb
    <3> QED BY <1>2, <3>1
  <2> QED BY <2>1, <2>2
<1> DEFINE c == [e EXCEPT !.level = level, !.step = step]
<1>6. c \in Call /\ CallFaithful(c)
  BY <1>1 DEF Call, CallFaithful
<1> HIDE DEF c
<1> QED BY <1>3, <1>5, <1>6, StepPreserves DEF c

\* A system call leaves a filesystem, and creates nothing but at its path.
LEMMA EffectType ==
  ASSUME NEW F \in [Paths -> Kinds], NEW op, NEW as \in Demands, NEW p
  PROVE  Effect(F, op, as, p) \in [Paths -> Kinds]
BY DEF Effect, Demands, Kinds

\* What a call leads to answers, or an ordinary status.
LEMMA StatusType ==
  ASSUME NEW F, NEW op, NEW as, NEW p
  PROVE  Status(F, op, as, p) \in Statuses
BY DEF Status, Statuses

\* A system call succeeds only at a path of the filesystem.
LEMMA StatusPlace ==
  ASSUME NEW F \in [Paths -> Kinds], NEW op, NEW as, NEW p, Status(F, op, as, p) = "success"
  PROVE  p \in Paths
BY DEF Status, Exists, At, CanCreate

LEMMA DescendPreserves ==
  ASSUME IInv, NEW t \in Threads, Descend(t)
  PROVE  IInv'
<1> PICK e : e = call[t]
  OBVIOUS
<1>1. /\ e \in Call /\ CallFaithful(e) /\ e.step = "descend"
      /\ e.ensure \in Seq(Names) /\ e.level \in Seq(Names)
  BY UnderWay DEF Descend, CallFaithful
<1> PICK next : next = SubSeq(e.ensure, 1, Len(e.level) + 1)
  OBVIOUS
<1> PICK status : status = Status(files, "OPEN_IF", "dir", next)
  OBVIOUS
<1>3. /\ handle' = [handle EXCEPT ![t] = handle[t]] /\ rules' = rules
      /\ files' \in [Paths -> Kinds]
  BY EffectType DEF Descend, IInv, TypeOK, Demands
<1>4. CASE status = "success"
  <2> PICK step \in {"attempt", "descend"} : step = IF next = e.ensure THEN "attempt" ELSE e.step
    BY <1>1
  <2> DEFINE c == [e EXCEPT !.level = next, !.step = step]
  <2>1. call' = [call EXCEPT ![t] = c]
    BY <1>4 DEF Descend
  <2>2. next \in Paths
    BY <1>4, StatusPlace DEF IInv, TypeOK
  <2>3. next \in Seq(Names)
    BY <2>2, PathsAssumption
  <2>4. c \in Call /\ CallFaithful(c)
    BY <1>1, <2>3 DEF Call, CallFaithful
  <2> HIDE DEF c
  <2> QED BY <1>3, <2>1, <2>4, StepPreserves
<1>5. CASE status # "success"
  <2>1. call' = [call EXCEPT ![t] = Answered(status)]
    BY <1>5 DEF Descend, Finish
  <2> QED BY <1>3, <2>1, StatusType, StepPreserves
<1> QED BY <1>4, <1>5

\* The next file, or the first file with the next disposition.
LEMMA TryNextPreserves ==
  ASSUME IInv, NEW t \in Threads, call[t].step \in {"attempt", "submit"}, ~IsLast(t), TryNext(t),
         rules' = rules, files' \in [Paths -> Kinds], handle' = handle
  PROVE  IInv'
<1> PICK e : e = call[t]
  OBVIOUS
<1>1. e \in Call /\ CallFaithful(e)
  BY UnderWay
<1>2. handle' = [handle EXCEPT ![t] = handle[t]]
  BY DEF IInv, TypeOK
<1>3. /\ DOMAIN e.tries = 1 .. Len(e.tries) /\ Len(e.tries) \in Nat
      /\ DOMAIN e.dispositions = 1 .. Len(e.dispositions) /\ Len(e.dispositions) \in Nat
  BY <1>1, LenProperties DEF Call
<1>4. /\ e.f \in 1 .. Len(e.tries) /\ Len(e.tries) <= 2
      /\ e.d \in 1 .. Len(e.dispositions) /\ Len(e.dispositions) <= 2
      /\ e.f \in {1, 2} /\ e.d \in {1, 2}
  BY <1>1, <1>3 DEF CallFaithful, Call
<1>5. CASE e.f < Len(e.tries)
  <2> DEFINE c == [e EXCEPT !.f = e.f + 1, !.step = "attempt"]
  <2>1. call' = [call EXCEPT ![t] = c]
    BY <1>5 DEF TryNext, NextFile
  <2>2. e.f + 1 \in {1, 2} /\ e.f + 1 \in 1 .. Len(e.tries)
    BY <1>3, <1>4, <1>5
  <2>3. c \in Call /\ CallFaithful(c)
    BY <1>1, <1>3, <2>2 DEF Call, CallFaithful
  <2> HIDE DEF c
  <2> QED BY <1>2, <2>1, <2>3, StepPreserves
<1>6. CASE ~(e.f < Len(e.tries))
  <2> DEFINE c == [e EXCEPT !.d = e.d + 1, !.f = 1, !.step = "attempt"]
  <2>1. call' = [call EXCEPT ![t] = c]
    BY <1>6 DEF TryNext, NextDisposition
  <2>2. /\ e.d + 1 \in {1, 2} /\ e.d + 1 \in 1 .. Len(e.dispositions)
        /\ 1 \in {1, 2} /\ 1 \in 1 .. Len(e.tries)
    BY <1>3, <1>4, <1>6 DEF IsLast
  <2>3. c \in Call /\ CallFaithful(c)
    BY <1>1, <1>3, <2>2 DEF Call, CallFaithful
  <2> HIDE DEF c
  <2> QED BY <1>2, <2>1, <2>3, StepPreserves
<1> QED BY <1>5, <1>6

LEMMA CheckExistsPreserves ==
  ASSUME IInv, NEW t \in Threads, CheckExists(t)
  PROVE  IInv'
<1>1. /\ rules' = rules /\ files' \in [Paths -> Kinds] /\ handle' = handle
      /\ call[t].step = "attempt"
  BY DEF CheckExists, IInv, TypeOK
<1> PICK e : e = call[t]
  OBVIOUS
<1>2. e \in Call /\ CallFaithful(e)
  BY <1>1, UnderWay
<1>3. CASE Exists(files, Attempted(t).path)
  <2> DEFINE c == [e EXCEPT !.step = "submit"]
  <2>1. c \in Call /\ CallFaithful(c)
    BY <1>2 DEF Call, CallFaithful
  <2>2. call' = [call EXCEPT ![t] = c]
    BY <1>3 DEF CheckExists
  <2>3. handle' = [handle EXCEPT ![t] = handle[t]]
    BY <1>1 DEF IInv, TypeOK
  <2> HIDE DEF c
  <2> QED BY <1>1, <2>1, <2>2, <2>3, StepPreserves
<1>4. CASE ~Exists(files, Attempted(t).path)
  <2>1. ~IsLast(t)
    BY <1>2 DEF IsLast, CheckExists, Trying, CallFaithful
  <2> QED BY <1>1, <1>4, <2>1, TryNextPreserves DEF CheckExists
<1> QED BY <1>3, <1>4

LEMMA AttemptPreserves ==
  ASSUME IInv, NEW t \in Threads, Attempt(t)
  PROVE  IInv'
<1> PICK e : e = call[t]
  OBVIOUS
<1>1. e \in Call /\ CallFaithful(e) /\ e.step \in {"attempt", "submit"}
  BY UnderWay DEF Attempt
<1> PICK op : op = Trying(t).op
  OBVIOUS
<1> PICK file : file = Attempted(t)
  OBVIOUS
<1> PICK status : status = Status(files, op, e.as, file.at)
  OBVIOUS
<1>2. /\ rules' = rules
      /\ files' = Effect(files, op, e.as, file.at)
      /\ IF status = "not found" /\ ~IsLast(t) THEN TryNext(t) ELSE Finish(t, status)
      /\ handle' = IF status = "success" /\ op # "QUERY"
                   THEN [handle EXCEPT ![t] = [name |-> e.name, at |-> file.at,
                                               path |-> file.path]]
                   ELSE handle
  BY DEF Attempt
<1>3. files \in [Paths -> Kinds] /\ e.as \in Demands
  BY <1>1 DEF IInv, TypeOK, Call
<1>4. files' \in [Paths -> Kinds]
  BY <1>2, <1>3, EffectType
<1>5. CASE status = "not found" /\ ~IsLast(t)
  BY <1>1, <1>2, <1>4, <1>5, TryNextPreserves
<1>6. CASE ~(status = "not found" /\ ~IsLast(t))
  <2>1. call' = [call EXCEPT ![t] = Answered(status)]
    BY <1>2, <1>6 DEF Finish
  <2>2. Answered(status) \in {Answered(s) : s \in Statuses}
    BY StatusType
  <2>3. CASE status = "success" /\ op # "QUERY"
    <3> DEFINE h == [name |-> e.name, at |-> file.at, path |-> file.path]
    <3>1. file.at \in Paths
      BY <1>3, <2>3, StatusPlace
    <3>2. /\ file.path \in {NoPath, e.name, file.at} /\ Faithful(e.name, file.path)
          /\ e.name \in Paths
      BY <1>1 DEF CallFaithful, Attempted, Call
    <3>3. h \in Handle /\ Faithful(h.name, h.path)
      BY <3>1, <3>2 DEF Handle
    <3>4. handle' = [handle EXCEPT ![t] = h]
      BY <1>2, <2>3
    <3> HIDE DEF h
    <3> QED BY <1>2, <1>4, <2>1, <2>2, <3>3, <3>4, StepPreserves
  <2>4. CASE ~(status = "success" /\ op # "QUERY")
    <3>1. handle' = [handle EXCEPT ![t] = handle[t]]
      BY <1>2, <2>4 DEF IInv, TypeOK
    <3> QED BY <1>2, <1>4, <2>1, <2>2, <3>1, StepPreserves
  <2> QED BY <2>3, <2>4
<1> QED BY <1>5, <1>6

\* A file that is moved leaves a filesystem, and is moved to a path of it.
LEMMA MovedType ==
  ASSUME NEW F \in [Paths -> Kinds], NEW from, NEW to
  PROVE  Moved(F, from, to) \in [Paths -> Kinds]
<1>1. At(F, from) \in Kinds
  BY DEF At, Kinds
<1> QED BY <1>1 DEF Moved, Kinds

LEMMA MovePlace ==
  ASSUME NEW F \in [Paths -> Kinds], NEW from, NEW to, NEW shared,
         MoveStatus(F, from, to, shared) = "success"
  PROVE  to \in Paths
BY DEF MoveStatus, Exists, At, CanCreate

LEMMA MoveStatusType ==
  ASSUME NEW F, NEW from, NEW to, NEW shared
  PROVE  MoveStatus(F, from, to, shared) \in Statuses
BY DEF MoveStatus, Statuses

LEMMA MovePreserves ==
  ASSUME IInv, NEW t \in Threads, Move(t)
  PROVE  IInv'
<1> PICK e : e = call[t]
  OBVIOUS
<1>1. e \in Call /\ CallFaithful(e) /\ e.step = "attempt"
  BY UnderWay DEF Move
<1> PICK file : file = Attempted(t)
  OBVIOUS
<1> PICK from : from = handle[t].at
  OBVIOUS
<1> PICK status : status = MoveStatus(files, from, file.at, Shared(t))
  OBVIOUS
<1>2. /\ rules' = rules
      /\ files' = IF status = "success" THEN Moved(files, from, file.at) ELSE files
      /\ IF status = "not found" /\ ~IsLast(t) THEN TryNext(t) ELSE Finish(t, status)
      /\ handle' = IF status = "success"
                   THEN [handle EXCEPT ![t] = [name |-> e.name, at |-> file.at,
                                               path |-> file.path]]
                   ELSE handle
  BY DEF Move
<1>3. files \in [Paths -> Kinds]
  BY DEF IInv, TypeOK
<1>4. files' \in [Paths -> Kinds]
  BY <1>2, <1>3, MovedType
<1>5. CASE status = "not found" /\ ~IsLast(t)
  BY <1>1, <1>2, <1>4, <1>5, TryNextPreserves
<1>6. CASE ~(status = "not found" /\ ~IsLast(t))
  <2>1. call' = [call EXCEPT ![t] = Answered(status)]
    BY <1>2, <1>6 DEF Finish
  <2>2. Answered(status) \in {Answered(s) : s \in Statuses}
    BY MoveStatusType
  <2>3. CASE status = "success"
    <3> DEFINE h == [name |-> e.name, at |-> file.at, path |-> file.path]
    <3>1. file.at \in Paths
      BY <1>3, <2>3, MovePlace
    <3>2. /\ file.path \in {NoPath, e.name, file.at} /\ Faithful(e.name, file.path)
          /\ e.name \in Paths
      BY <1>1 DEF CallFaithful, Attempted, Call
    <3>3. h \in Handle /\ Faithful(h.name, h.path)
      BY <3>1, <3>2 DEF Handle
    <3>4. handle' = [handle EXCEPT ![t] = h]
      BY <1>2, <2>3
    <3> HIDE DEF h
    <3> QED BY <1>2, <1>4, <2>1, <2>2, <3>3, <3>4, StepPreserves
  <2>4. CASE status # "success"
    <3>1. handle' = [handle EXCEPT ![t] = handle[t]]
      BY <1>2, <2>4 DEF IInv, TypeOK
    <3> QED BY <1>2, <1>4, <2>1, <2>2, <3>1, StepPreserves
  <2> QED BY <2>3, <2>4
<1> QED BY <1>5, <1>6

LEMMA ReturnPreserves ==
  ASSUME IInv, NEW t \in Threads, Return(t)
  PROVE  IInv'
<1>1. /\ rules' = rules /\ files' \in [Paths -> Kinds]
      /\ call' = [call EXCEPT ![t] = Idle] /\ handle' = [handle EXCEPT ![t] = handle[t]]
  BY DEF Return, IInv, TypeOK
<1> QED BY <1>1, StepPreserves

LEMMA ClosePreserves ==
  ASSUME IInv, NEW t \in Threads, Close(t)
  PROVE  IInv'
<1>1. files' \in [Paths -> Kinds]
  <2>1. ASSUME NEW F \in [Paths -> Kinds], NEW p PROVE Removed(F, p) \in [Paths -> Kinds]
    BY DEF Removed, Kinds
  <2> QED BY <2>1 DEF Close, IInv, TypeOK
<1>2. /\ rules' = rules /\ handle' = [handle EXCEPT ![t] = NoHandle]
      /\ call' = [call EXCEPT ![t] = Idle]
  BY DEF Close, IInv, TypeOK
<1> QED BY <1>1, <1>2, StepPreserves

LEMMA InitInvariant == Init => IInv
<1> SUFFICES ASSUME Init PROVE IInv
  OBVIOUS
<1>1. PICK config \in Configurations : rules = config.rules /\ files = config.files
  BY DEF Init
<1>2. ValidRules(rules) /\ files \in [Paths -> Kinds]
  BY <1>1, ConfigurationsAssumption DEF ValidFiles
<1> QED BY <1>2 DEF Init, IInv, TypeOK, Idle

LEMMA NextInvariant == IInv /\ [Next]_vars => IInv'
<1> SUFFICES ASSUME IInv, [Next]_vars PROVE IInv'
  OBVIOUS
<1>1. CASE UNCHANGED vars
  BY <1>1 DEF vars, IInv, TypeOK, CallFaithful, Faithful
<1>2. ASSUME NEW t \in Threads, Ask(t) PROVE IInv'
  BY <1>2, AskPreserves
<1>3. ASSUME NEW t \in Threads, Climb(t) PROVE IInv'
  BY <1>3, ClimbPreserves
<1>4. ASSUME NEW t \in Threads, Descend(t) PROVE IInv'
  BY <1>4, DescendPreserves
<1>5. ASSUME NEW t \in Threads, CheckExists(t) PROVE IInv'
  BY <1>5, CheckExistsPreserves
<1>6. ASSUME NEW t \in Threads, Attempt(t) PROVE IInv'
  BY <1>6, AttemptPreserves
<1>7. ASSUME NEW t \in Threads, Return(t) PROVE IInv'
  BY <1>7, ReturnPreserves
<1>8. ASSUME NEW t \in Threads, Move(t) PROVE IInv'
  BY <1>8, MovePreserves
<1>9. ASSUME NEW t \in Threads, Close(t) PROVE IInv'
  BY <1>9, ClosePreserves
<1> QED BY <1>1, <1>2, <1>3, <1>4, <1>5, <1>6, <1>7, <1>8, <1>9 DEF Next

-----------------------------------------------------------------------------
(* The theorems. *)

\* Type correctness of redirected file operations.
THEOREM RedirectionTypeOK == Spec => []TypeOK
<1>1. IInv => TypeOK
  BY DEF IInv
<1> QED BY <1>1, InitInvariant, NextInvariant, PTL DEF Spec

\* The paths that are recorded for a handle are faithful to the rules: this is
\* the inductive invariant behind the identification of the rule.
THEOREM StoredPathsFaithful == Spec => []IInv
<1> QED BY InitInvariant, NextInvariant, PTL DEF Spec

\* A stored path that differs from the name leads back to the rule that
\* redirected it.
LEMMA InvariantIdentifies == IInv => RedirectionIdentified
<1> SUFFICES ASSUME IInv, NEW t \in Threads,
                    Stored(handle[t]), handle[t].path # handle[t].name
             PROVE  /\ RuleFor(rules, handle[t].name) # {}
                    /\ IdentifyRule(SelectRulesForPath(rules, handle[t].name), handle[t].path)
                         = RuleFor(rules, handle[t].name)
  BY DEF RedirectionIdentified
<1> PICK h : h = handle[t]
  OBVIOUS
<1>1. h # NoHandle /\ h.path # NoPath /\ h.path # h.name
  BY DEF Stored, NoHandle
<1>2. h.name \in Seq(Names) /\ Faithful(h.name, h.path)
  BY <1>1, PathsAssumption DEF IInv, TypeOK, Handle
<1>3. PICK r \in RuleFor(rules, h.name) : h.path = RedirectPathOriginToTarget(r, h.name)
  BY <1>1, <1>2 DEF Faithful
<1>4. ValidRules(rules)
  BY DEF IInv, TypeOK
<1> QED BY <1>2, <1>3, <1>4, RuleIsIdentified

\* For any rules the builder accepts, however they nest and share origins, the
\* two paths stored for a handle identify the one rule that redirected it, so a
\* listing applies the patterns and the mode of that rule
\* (IdentifyRuleThatPerformedRedirection).
THEOREM RuleRecoveredFromStore == Spec => []RedirectionIdentified
<1> QED BY InitInvariant, NextInvariant, InvariantIdentifies, PTL DEF Spec

-----------------------------------------------------------------------------
(* Rules in simple mode: a handle is where its name leads. *)

\* The file that the rules select for a name.
Selected(name, at) ==
  \/ RuleFor(rules, name) = {} /\ at = name
  \/ \E r \in RuleFor(rules, name) : at = RedirectPathOriginToTarget(r, name)

\* What is not stored is not redirected, and may be passed to the system as a root.
PassedOn(name) ==
  /\ RuleFor(rules, name) = {}
  /\ name \in Roots => \A q \in Paths : IsPrefix(name, q) => RuleFor(rules, q) = {}

\* A path that is recorded is the one that is opened.
Located(name, at, path) ==
  Selected(name, at) /\ IF path = NoPath THEN PassedOn(name) ELSE path = at

\* The directories that are created are above what a rule makes of the name,
\* from the level that exists on.
OnTargetSide(name, ensure) ==
  \E r \in RuleFor(rules, name) : IsPrefix(ensure, RedirectPathOriginToTarget(r, name))

CallLocated(c) ==
  /\ \A i \in DOMAIN c.tries : Located(c.name, c.tries[i].at, c.tries[i].path)
  /\ \A i \in DOMAIN c.dispositions : c.dispositions[i].op = c.op
  /\ c.step \in {"climb", "descend"} =>
       OnTargetSide(c.name, c.ensure) /\ IsPrefix(c.level, c.ensure)
  /\ c.step = "descend" => Len(c.level) < Len(c.ensure)
  /\ c.step = "climb" /\ c.ensure # <<>> => c.level # <<>>

\* Every handle, and every attempt, is on the file selected for its name.
LocatedInv ==
  /\ \E c \in Configurations : rules = c.rules
  /\ \A t \in Threads : handle[t] # NoHandle =>
       Located(handle[t].name, handle[t].at, handle[t].path)
  /\ \A t \in Threads : call[t].step \notin {"idle", "answered"} => CallLocated(call[t])

SInv == IInv /\ LocatedInv

\* What a step has to say of its own call and handle.
LEMMA StepLocated ==
  ASSUME SInv, NEW t \in Threads, NEW c, NEW h,
         c.step \in {"idle", "answered"} \/ CallLocated(c),
         h = handle[t] \/ h = NoHandle \/ Located(h.name, h.at, h.path),
         rules' = rules,
         call' = [call EXCEPT ![t] = c], handle' = [handle EXCEPT ![t] = h]
  PROVE  LocatedInv'
<1>1. /\ call'[t] = c /\ \A u \in Threads \ {t} : call'[u] = call[u]
      /\ handle'[t] = h /\ \A u \in Threads \ {t} : handle'[u] = handle[u]
  BY DEF SInv, IInv, TypeOK
<1>2. /\ \A n, a, p : Located(n, a, p)' <=> Located(n, a, p)
      /\ \A n, e : OnTargetSide(n, e)' <=> OnTargetSide(n, e)
  BY DEF Located, Selected, PassedOn, OnTargetSide
<1>3. ASSUME NEW u \in Threads, handle'[u] # NoHandle
      PROVE  Located(handle'[u].name, handle'[u].at, handle'[u].path)
  <2>1. CASE u = t
    BY <1>1, <1>3, <2>1 DEF SInv, LocatedInv
  <2>2. CASE u # t
    BY <1>1, <1>3, <2>2 DEF SInv, LocatedInv
  <2> QED BY <2>1, <2>2
<1>4. ASSUME NEW u \in Threads, call'[u].step \notin {"idle", "answered"}
      PROVE  CallLocated(call'[u])
  <2>1. CASE u = t
    BY <1>1, <1>4, <2>1 DEF SInv, LocatedInv
  <2>2. CASE u # t
    BY <1>1, <1>4, <2>2 DEF SInv, LocatedInv
  <2> QED BY <2>1, <2>2
<1>5. \A u \in Threads : handle'[u] # NoHandle =>
        Located(handle[u].name, handle[u].at, handle[u].path)'
  BY <1>2, <1>3
<1>6. \A u \in Threads : call'[u].step \notin {"idle", "answered"} => CallLocated(call[u])'
  BY <1>2, <1>4 DEF CallLocated
<1>7. (\E k \in Configurations : rules = k.rules)'
  BY DEF SInv, LocatedInv
<1> QED BY <1>5, <1>6, <1>7 DEF LocatedInv

\* A prefix is transitive, and remains one of a longer path.
LEMMA PrefixTransitive ==
  ASSUME NEW S, NEW a \in Seq(S), NEW b \in Seq(S), NEW p \in Seq(S),
         IsPrefix(a, b), IsPrefix(b, p)
  PROVE  IsPrefix(a, p)
<1>1. /\ Len(a) <= Len(b) /\ \A i \in 1 .. Len(a) : a[i] = b[i]
      /\ Len(b) <= Len(p) /\ \A i \in 1 .. Len(b) : b[i] = p[i]
  BY PrefixElements
<1>2. Len(a) <= Len(p) /\ \A i \in 1 .. Len(a) : a[i] = p[i]
  BY <1>1
<1> QED BY <1>2, PrefixElements

LEMMA PrefixOfConcat ==
  ASSUME NEW S, NEW a \in Seq(S), NEW b \in Seq(S)
  PROVE  a \o b \in Seq(S) /\ IsPrefix(a, a \o b)
<1>1. /\ a \o b \in Seq(S)
      /\ Len(a \o b) = Len(a) + Len(b)
      /\ \A i \in 1 .. Len(a) + Len(b) :
           (a \o b)[i] = IF i <= Len(a) THEN a[i] ELSE b[i - Len(a)]
  BY ConcatProperties
<1>2. Len(a) \in Nat /\ Len(b) \in Nat
  OBVIOUS
<1>3. Len(a) <= Len(a \o b) /\ \A i \in 1 .. Len(a) : a[i] = (a \o b)[i]
  BY <1>1, <1>2
<1> QED BY <1>1, <1>3, PrefixElements

\* A path in some origin directory is in a longest one.
LEMMA LongestOrigin ==
  ASSUME NEW R, ValidRules(R), NEW r \in R, NEW p \in Seq(Names), IsPrefix(r.origin, p)
  PROVE  SelectRulesForPath(R, p) # {}
<1> DEFINE C == {s \in R : IsPrefix(s.origin, p)}
           Above(s) == 1 .. Len(p) - Len(s.origin)
           T == {Above(s) : s \in C}
           S == 1 .. Len(p)
<1>1. ASSUME NEW s \in C PROVE Len(s.origin) \in Nat /\ Len(p) - Len(s.origin) \in Nat
  <2>1. s.origin \in Seq(Names)
    BY PathsAssumption DEF ValidRules, Rule
  <2>2. Len(s.origin) <= Len(p)
    BY <2>1, PrefixElements
  <2> QED BY <2>1, <2>2
<1>2. T \in SUBSET SUBSET S /\ T # {}
  <2>1. r \in C
    OBVIOUS
  <2>2. ASSUME NEW s \in C PROVE Above(s) \in SUBSET S
    BY <1>1
  <2> QED BY <2>1, <2>2
<1>3. PICK s \in C : \A q \in C : <<Above(q), Above(s)>> \notin StrictSubsetOrdering(S)
  <2>1. IsFiniteSet(S)
    BY FS_Interval
  <2>2. T \subseteq FiniteSubsetsOf(S)
    BY <1>2, <2>1, FS_Subset DEF FiniteSubsetsOf
  <2> HIDE DEF T, S
  <2>3. \E x \in T : \A y \in T : ~(<<y, x>> \in StrictSubsetOrdering(S))
    BY <1>2, <2>2, FS_StrictSubsetOrderingWellFounded, WFMin
  <2> QED BY <2>3 DEF T
<1>4. \A q \in C : Len(q.origin) <= Len(s.origin)
  <2> SUFFICES ASSUME NEW q \in C, Len(q.origin) > Len(s.origin) PROVE FALSE
    BY <1>1
  <2> DEFINE k == Len(p) - Len(s.origin)
  <2>1. k \in Above(s) /\ k \notin Above(q) /\ Above(q) \subseteq Above(s)
    BY <1>1
  <2>2. Above(q) \in SUBSET S /\ Above(s) \in SUBSET S
    BY <1>2
  <2> HIDE DEF Above
  <2> QED BY <1>3, <2>1, <2>2 DEF StrictSubsetOrdering
<1>5. s \in SelectRulesForPath(R, p)
  BY <1>4 DEF SelectRulesForPath
<1> QED BY <1>5

\* A path that is intercepted is not redirected, nor is any root directory it is
\* below.
LEMMA InterceptedBelow ==
  ASSUME NEW R, ValidRules(R), NEW d \in Seq(Names), NEW p \in Seq(Names), IsPrefix(d, p),
         Intercepted(R, p)
  PROVE  RuleFor(R, d) = {} /\ RuleFor(R, p) = {}
<1>1. SelectRulesForPath(R, p) = {}
  BY DEF Intercepted
<1>2. \A r \in R : ~IsPrefix(r.origin, d)
  <2> SUFFICES ASSUME NEW r \in R, IsPrefix(r.origin, d) PROVE FALSE
    OBVIOUS
  <2>1. r.origin \in Seq(Names)
    BY PathsAssumption DEF ValidRules, Rule
  <2>2. IsPrefix(r.origin, p)
    BY <2>1, PrefixTransitive
  <2> QED BY <1>1, <2>2, LongestOrigin
<1>3. SelectRulesForPath(R, d) = {}
  BY <1>2 DEF SelectRulesForPath
<1> QED BY <1>1, <1>3 DEF RuleFor, First
\* What the rules that there are make of a name.
LEMMA SimpleRule ==
  ASSUME SimpleMode, SInv, NEW n, NEW r \in RuleFor(rules, n)
  PROVE  r \in rules /\ r \in Rule /\ r.mode = "Simple"
<1>1. r \in rules
  BY DEF RuleFor, First, SelectRulesForPath
<1> QED BY <1>1 DEF SimpleMode, SInv, LocatedInv, IInv, TypeOK, ValidRules

LEMMA UnderWayLocated ==
  ASSUME SInv, NEW t \in Threads, call[t].step \notin {"idle", "answered"}
  PROVE  call[t] \in Call /\ CallFaithful(call[t]) /\ CallLocated(call[t])
BY UnderWay DEF SInv, LocatedInv

\* The directory that holds a path, and a first part of it, are above it.
LEMMA PrefixOfSubSeq ==
  ASSUME NEW S, NEW s \in Seq(S), NEW k \in 0 .. Len(s)
  PROVE  /\ SubSeq(s, 1, k) \in Seq(S) /\ Len(SubSeq(s, 1, k)) = k
         /\ IsPrefix(SubSeq(s, 1, k), s)
<1>1. Len(s) \in Nat
  OBVIOUS
<1>2. /\ SubSeq(s, 1, k) \in Seq(S) /\ Len(SubSeq(s, 1, k)) = k
      /\ \A i \in 1 .. k : SubSeq(s, 1, k)[i] = s[i]
  BY <1>1
<1> PICK a : a = SubSeq(s, 1, k)
  OBVIOUS
<1>3. a \in Seq(S) /\ Len(a) <= Len(s) /\ \A i \in 1 .. Len(a) : a[i] = s[i]
  BY <1>1, <1>2
<1>4. IsPrefix(a, s)
  BY <1>3, PrefixElements
<1> QED BY <1>2, <1>4

LEMMA PrefixOfFront ==
  ASSUME NEW S, NEW s \in Seq(S), s # <<>>
  PROVE  Front(s) \in Seq(S) /\ Len(Front(s)) = Len(s) - 1 /\ IsPrefix(Front(s), s)
<1>1. Len(s) - 1 \in 0 .. Len(s)
  BY EmptySeq
<1> QED BY <1>1, PrefixOfSubSeq DEF Front

LEMMA ClimbLocated ==
  ASSUME SInv, NEW t \in Threads, Climb(t)
  PROVE  LocatedInv'
<1> PICK e : e = call[t]
  OBVIOUS
<1>1. /\ e \in Call /\ CallFaithful(e) /\ CallLocated(e) /\ e.step = "climb"
      /\ e.level \in Seq(Names) /\ e.ensure \in Seq(Names)
  BY UnderWayLocated DEF Climb, CallFaithful
<1>2. handle' = [handle EXCEPT ![t] = handle[t]] /\ rules' = rules
  BY DEF Climb, SInv, IInv, TypeOK
<1>3. IsPrefix(e.level, e.ensure) /\ OnTargetSide(e.name, e.ensure)
  BY <1>1 DEF CallLocated
<1>4. /\ Len(e.level) \in Nat /\ Len(e.ensure) \in Nat /\ Len(e.level) <= Len(e.ensure)
      /\ e.level # e.ensure => Len(e.level) < Len(e.ensure)
  <2>1. Len(e.level) <= Len(e.ensure) /\ \A i \in 1 .. Len(e.level) : e.level[i] = e.ensure[i]
    BY <1>1, <1>3, PrefixElements
  <2>2. Len(e.level) = Len(e.ensure) => e.level = e.ensure
    BY <1>1, <2>1, SeqEqual
  <2> QED BY <1>1, <2>1, <2>2
<1>5. CASE e.ensure = <<>>
  <2> PICK c : c = Answered("not found")
    OBVIOUS
  <2>1. call' = [call EXCEPT ![t] = c]
    BY <1>5 DEF Climb, Finish
  <2>2. c.step = "answered"
    BY DEF Answered
  <2> QED BY <1>2, <2>1, <2>2, StepLocated
<1> SUFFICES ASSUME e.ensure # <<>> PROVE LocatedInv'
  BY <1>5
<1>6. PICK level \in Seq(Names), step \in {"climb", "descend", "attempt"} :
        /\ call' = [call EXCEPT ![t] = [e EXCEPT !.level = level, !.step = step]]
        /\ IsPrefix(level, e.ensure)
        /\ step = "descend" => Len(level) < Len(e.ensure)
        /\ step = "climb" => level # <<>>
  <2>1. CASE IsDirectory(files, e.level)
    <3> PICK step \in {"attempt", "descend"} :
          step = IF e.level = e.ensure THEN "attempt" ELSE "descend"
      OBVIOUS
    <3>1. call' = [call EXCEPT ![t] = [e EXCEPT !.step = step]]
      BY <2>1 DEF Climb
    <3>2. [e EXCEPT !.step = step] = [e EXCEPT !.level = e.level, !.step = step]
      BY <1>1 DEF Call
    <3> QED BY <1>1, <1>3, <1>4, <3>1, <3>2
  <2>2. CASE ~IsDirectory(files, e.level)
    <3> PICK above : above = Front(e.level)
      OBVIOUS
    <3> PICK step \in {"climb", "descend"} : step = IF above = <<>> THEN "descend" ELSE e.step
      BY <1>1
    <3>1. call' = [call EXCEPT ![t] = [e EXCEPT !.level = above, !.step = step]]
      BY <2>2 DEF Climb
    <3>2. e.level # <<>>
      BY <1>1 DEF CallLocated
    <3>3. above \in Seq(Names) /\ Len(above) = Len(e.level) - 1 /\ IsPrefix(above, e.level)
      BY <1>1, <3>2, PrefixOfFront
    <3>4. IsPrefix(above, e.ensure)
      BY <1>1, <1>3, <3>3, PrefixTransitive
    <3>5. Len(above) < Len(e.ensure) /\ (step = "climb" => above # <<>>)
      BY <1>4, <3>3
    <3> QED BY <3>1, <3>3, <3>4, <3>5
  <2> QED BY <2>1, <2>2
<1> DEFINE c == [e EXCEPT !.level = level, !.step = step]
<1>7. CallLocated(c)
  BY <1>1, <1>3, <1>6 DEF Call, CallLocated
<1> HIDE DEF c
<1> QED BY <1>2, <1>6, <1>7, StepLocated DEF c

LEMMA DescendLocated ==
  ASSUME SInv, NEW t \in Threads, Descend(t)
  PROVE  LocatedInv'
<1> PICK e : e = call[t]
  OBVIOUS
<1>1. /\ e \in Call /\ CallFaithful(e) /\ CallLocated(e) /\ e.step = "descend"
      /\ e.level \in Seq(Names) /\ e.ensure \in Seq(Names)
  BY UnderWayLocated DEF Descend, CallFaithful
<1>2. handle' = [handle EXCEPT ![t] = handle[t]] /\ rules' = rules
  BY DEF Descend, SInv, IInv, TypeOK
<1> PICK next : next = SubSeq(e.ensure, 1, Len(e.level) + 1)
  OBVIOUS
<1> PICK status : status = Status(files, "OPEN_IF", "dir", next)
  OBVIOUS
<1>3. CASE status = "success"
  <2> PICK step \in {"attempt", "descend"} : step = IF next = e.ensure THEN "attempt" ELSE e.step
    BY <1>1
  <2> DEFINE c == [e EXCEPT !.level = next, !.step = step]
  <2>1. call' = [call EXCEPT ![t] = c]
    BY <1>3 DEF Descend
  <2>2. Len(e.level) + 1 \in 0 .. Len(e.ensure)
    BY <1>1 DEF CallLocated
  <2>3. /\ next \in Seq(Names) /\ Len(next) = Len(e.level) + 1 /\ IsPrefix(next, e.ensure)
    BY <1>1, <2>2, PrefixOfSubSeq
  <2>4. next # e.ensure => Len(next) < Len(e.ensure)
    <3>1. \A i \in 1 .. Len(next) : next[i] = e.ensure[i]
      BY <1>1, <2>3, PrefixElements
    <3>2. Len(next) = Len(e.ensure) => next = e.ensure
      BY <1>1, <2>3, <3>1, SeqEqual
    <3> QED BY <1>1, <2>2, <2>3, <3>2
  <2>5. CallLocated(c)
    BY <1>1, <2>3, <2>4 DEF Call, CallLocated
  <2> HIDE DEF c
  <2> QED BY <1>2, <2>1, <2>5, StepLocated
<1>4. CASE status # "success"
  <2>1. call' = [call EXCEPT ![t] = Answered(status)]
    BY <1>4 DEF Descend, Finish
  <2>2. Answered(status).step = "answered"
    BY DEF Answered
  <2> QED BY <1>2, <2>1, <2>2, StepLocated
<1> QED BY <1>3, <1>4

\* The next attempt is one of the same call.
LEMMA TryNextLocated ==
  ASSUME SInv, NEW t \in Threads, call[t].step \in {"attempt", "submit"}, TryNext(t),
         rules' = rules, handle' = handle
  PROVE  LocatedInv'
<1> PICK e : e = call[t]
  OBVIOUS
<1>1. e \in Call /\ CallLocated(e)
  BY UnderWayLocated
<1>2. handle' = [handle EXCEPT ![t] = handle[t]]
  BY DEF SInv, IInv, TypeOK
<1>3. PICK d, f : call' = [call EXCEPT ![t] = [e EXCEPT !.d = d, !.f = f, !.step = "attempt"]]
  <2>1. CASE e.f < Len(e.tries)
    <3>1. call' = [call EXCEPT ![t] = [e EXCEPT !.f = e.f + 1, !.step = "attempt"]]
      BY <2>1 DEF TryNext, NextFile
    <3>2. [e EXCEPT !.f = e.f + 1, !.step = "attempt"]
            = [e EXCEPT !.d = e.d, !.f = e.f + 1, !.step = "attempt"]
      BY <1>1 DEF Call
    <3> QED BY <3>1, <3>2
  <2>2. CASE ~(e.f < Len(e.tries))
    <3>1. call' = [call EXCEPT ![t] = [e EXCEPT !.d = e.d + 1, !.f = 1, !.step = "attempt"]]
      BY <2>2 DEF TryNext, NextDisposition
    <3> QED BY <3>1
  <2> QED BY <2>1, <2>2
<1> DEFINE c == [e EXCEPT !.d = d, !.f = f, !.step = "attempt"]
<1>4. CallLocated(c)
  BY <1>1 DEF Call, CallLocated
<1> HIDE DEF c
<1> QED BY <1>2, <1>3, <1>4, StepLocated DEF c

LEMMA CheckExistsLocated ==
  ASSUME SInv, NEW t \in Threads, CheckExists(t)
  PROVE  LocatedInv'
<1>1. rules' = rules /\ handle' = handle /\ call[t].step = "attempt"
  BY DEF CheckExists
<1> PICK e : e = call[t]
  OBVIOUS
<1>2. e \in Call /\ CallLocated(e)
  BY <1>1, UnderWayLocated
<1>3. CASE Exists(files, Attempted(t).path)
  <2> DEFINE c == [e EXCEPT !.step = "submit"]
  <2>1. CallLocated(c)
    BY <1>2 DEF Call, CallLocated
  <2>2. call' = [call EXCEPT ![t] = c]
    BY <1>3 DEF CheckExists
  <2>3. handle' = [handle EXCEPT ![t] = handle[t]]
    BY <1>1 DEF SInv, IInv, TypeOK
  <2> HIDE DEF c
  <2> QED BY <1>1, <2>1, <2>2, <2>3, StepLocated
<1>4. CASE ~Exists(files, Attempted(t).path)
  BY <1>1, <1>4, TryNextLocated DEF CheckExists
<1> QED BY <1>3, <1>4

\* What an attempt opens or moves is where the name leads.
LEMMA TriedLocated ==
  ASSUME SInv, NEW t \in Threads, call[t].step \in {"attempt", "submit"}, rules' = rules,
         NEW status, TryNext(t) \/ Finish(t, status),
         \/ handle' = handle
         \/ /\ Finish(t, status)
            /\ handle' = [handle EXCEPT ![t] = [name |-> call[t].name, at |-> Attempted(t).at,
                                                path |-> Attempted(t).path]]
  PROVE  LocatedInv'
<1>1. CASE handle' = handle /\ TryNext(t)
  BY <1>1, TryNextLocated
<1>2. CASE Finish(t, status)
  <2>1. call' = [call EXCEPT ![t] = Answered(status)] /\ Answered(status).step = "answered"
    BY <1>2 DEF Finish, Answered
  <2>2. CASE handle' = handle
    <3>1. handle' = [handle EXCEPT ![t] = handle[t]]
      BY <2>2 DEF SInv, IInv, TypeOK
    <3> QED BY <2>1, <3>1, StepLocated
  <2>3. CASE handle' # handle
    <3> DEFINE h == [name |-> call[t].name, at |-> Attempted(t).at, path |-> Attempted(t).path]
    <3>1. call[t] \in Call /\ CallFaithful(call[t]) /\ CallLocated(call[t])
      BY UnderWayLocated
    <3>2. Located(h.name, h.at, h.path)
      BY <3>1 DEF CallFaithful, CallLocated, Attempted
    <3>3. handle' = [handle EXCEPT ![t] = h]
      BY <2>3
    <3> HIDE DEF h
    <3> QED BY <2>1, <3>2, <3>3, StepLocated
  <2> QED BY <2>2, <2>3
<1> QED BY <1>1, <1>2

LEMMA AttemptLocated ==
  ASSUME SInv, NEW t \in Threads, Attempt(t)
  PROVE  LocatedInv'
<1> PICK status : status = Status(files, Trying(t).op, call[t].as, Attempted(t).at)
  OBVIOUS
<1>1. call[t].step \in {"attempt", "submit"} /\ rules' = rules
  BY DEF Attempt
<1>2. /\ IF status = "not found" /\ ~IsLast(t) THEN TryNext(t) ELSE Finish(t, status)
      /\ handle' = IF status = "success" /\ Trying(t).op # "QUERY"
                   THEN [handle EXCEPT ![t] = [name |-> call[t].name, at |-> Attempted(t).at,
                                               path |-> Attempted(t).path]]
                   ELSE handle
  BY DEF Attempt
<1> QED BY <1>1, <1>2, TriedLocated

LEMMA MoveLocated ==
  ASSUME SInv, NEW t \in Threads, Move(t)
  PROVE  LocatedInv'
<1> PICK status : status = MoveStatus(files, handle[t].at, Attempted(t).at, Shared(t))
  OBVIOUS
<1>1. call[t].step \in {"attempt", "submit"} /\ rules' = rules
  BY DEF Move
<1>2. /\ IF status = "not found" /\ ~IsLast(t) THEN TryNext(t) ELSE Finish(t, status)
      /\ handle' = IF status = "success"
                   THEN [handle EXCEPT ![t] = [name |-> call[t].name, at |-> Attempted(t).at,
                                               path |-> Attempted(t).path]]
                   ELSE handle
  BY DEF Move
<1> QED BY <1>1, <1>2, TriedLocated

LEMMA ReturnLocated ==
  ASSUME SInv, NEW t \in Threads, Return(t)
  PROVE  LocatedInv'
<1>1. /\ rules' = rules /\ call' = [call EXCEPT ![t] = Idle] /\ Idle.step = "idle"
      /\ handle' = [handle EXCEPT ![t] = handle[t]]
  BY DEF Return, Idle, SInv, IInv, TypeOK
<1> QED BY <1>1, StepLocated

LEMMA CloseLocated ==
  ASSUME SInv, NEW t \in Threads, Close(t)
  PROVE  LocatedInv'
<1>1. /\ rules' = rules /\ call' = [call EXCEPT ![t] = Idle] /\ Idle.step = "idle"
      /\ handle' = [handle EXCEPT ![t] = NoHandle]
  BY DEF Close, Idle, SInv, IInv, TypeOK
<1> QED BY <1>1, StepLocated

\* A call that begins is located if what it is going to try is.
LEMMA BeginLocated ==
  ASSUME SInv, NEW t \in Threads, NEW req, NEW mode, mode # "Overlay",
         NEW step \in {"climb", "attempt"}, NEW ensure,
         step = "climb" => OnTargetSide(Named(t, req), ensure) /\ ensure \in Seq(Names),
         NEW a, NEW p, Located(Named(t, req), a, p),
         Begin(t, req, mode, step, ensure, <<File(a, p)>>),
         UNCHANGED <<rules, files, handle>>
  PROVE  LocatedInv'
<1> PICK ds : ds = CreateDispositionsToTry(mode, req.op)
  OBVIOUS
<1> PICK n : n = Named(t, req)
  OBVIOUS
<1> DEFINE tries == <<File(a, p)>>
           c == [step |-> step, op |-> req.op, as |-> req.as, name |-> n, mode |-> mode,
                 ensure |-> ensure, level |-> ensure, dispositions |-> ds, tries |-> tries,
                 d |-> 1, f |-> 1]
<1>1. ds = <<Disposition(req.op, FALSE)>>
  BY DEF CreateDispositionsToTry
<1>2. \A i \in DOMAIN ds : ds[i].op = req.op
  BY <1>1 DEF Disposition
<1>3. \A i \in DOMAIN tries : Located(n, tries[i].at, tries[i].path)
  <2>1. DOMAIN tries = {1} /\ tries[1] = File(a, p)
    OBVIOUS
  <2> QED BY <2>1 DEF File
<1>4. step = "climb" => IsPrefix(ensure, ensure)
  <2>1. ensure \in Seq(Names) => IsPrefix(ensure, ensure)
    BY SubSeqFull DEF IsPrefix
  <2> QED BY <2>1
<1>5. CallLocated(c)
  BY <1>2, <1>3, <1>4 DEF CallLocated
<1>6. call' = [call EXCEPT ![t] = c]
  BY DEF Begin
<1>7. handle' = [handle EXCEPT ![t] = handle[t]] /\ rules' = rules
  BY DEF SInv, IInv, TypeOK
<1> HIDE DEF c
<1> QED BY <1>5, <1>6, <1>7, StepLocated

\* What is not redirected and not recorded leads to nothing that is redirected.
LEMMA PassedRoot ==
  ASSUME SimpleMode, RootsAreKnown, SInv, NEW n, RuleFor(rules, n) = {}, ~Intercepted(rules, n)
  PROVE  PassedOn(n)
BY DEF RootsAreKnown, PassedOn, SInv, LocatedInv

LEMMA AskPassedLocated ==
  ASSUME SimpleMode, RootsAreKnown, SInv, NEW t \in Threads, NEW req \in Requests,
         MayAsk(t, req), AskPassed(t, req), UNCHANGED <<rules, files, handle>>
  PROVE  LocatedInv'
<1> DEFINE n == Named(t, req)
           rename == req.op = "RENAME"
           unknown == ~rename /\ req.root /\ ~Stored(handle[t])
           place == IF rename \/ unknown THEN Submitted(t, req) ELSE n
<1>1. /\ unknown \/ (RuleFor(rules, n) = {} /\ ~Intercepted(rules, n))
      /\ Begin(t, req, "pass", "attempt", NoPath, <<File(place, NoPath)>>)
  BY DEF AskPassed
<1>2. CASE rename
  <2>1. RuleFor(rules, n) = {} /\ ~Intercepted(rules, n)
    BY <1>1, <1>2
  <2>2. place = n
    BY <1>2, <2>1 DEF MayAsk, MayRename, Named, Submitted
  <2>3. Located(n, place, NoPath)
    BY <2>1, <2>2, PassedRoot DEF Located, Selected
  <2> HIDE DEF place
  <2> QED BY <1>1, <2>3, BeginLocated
<1>3. CASE unknown
  <2> PICK h : h = handle[t]
    OBVIOUS
  <2>1. h.name \in Roots /\ h.path = NoPath
    BY <1>3 DEF MayAsk, Stored
  <2>2. h # NoHandle /\ h.name \in Seq(Names) /\ req.path \in Seq(Names)
    <3>1. Roots \subseteq Seq(Names) /\ req \in Request
      BY PathsAssumption, RequestsAssumption
    <3> QED BY <2>1, <3>1, NoPathAssumption DEF NoHandle, Request
  <2>3. Located(h.name, h.at, NoPath)
    BY <2>1, <2>2 DEF SInv, LocatedInv
  <2>4. \A q \in Paths : IsPrefix(h.name, q) => RuleFor(rules, q) = {}
    BY <2>1, <2>3 DEF Located, PassedOn
  <2>5. RuleFor(rules, h.name) = {}
    <3>1. IsPrefix(h.name, h.name)
      BY <2>2, SubSeqFull DEF IsPrefix
    <3> QED BY <2>1, <2>4, <3>1, RequestsAssumption
  <2>6. h.at = h.name
    BY <2>3, <2>5 DEF Located, Selected
  <2>7. n = h.name \o req.path /\ place = n
    BY <1>3, <2>6 DEF Named, Submitted
  <2>8. n \in Paths /\ n \in Seq(Names) /\ IsPrefix(h.name, n)
    BY <2>2, <2>7, PrefixOfConcat DEF MayAsk
  <2>9. \A q \in Paths : IsPrefix(n, q) => RuleFor(rules, q) = {}
    BY <2>2, <2>4, <2>8, PathsAssumption, PrefixTransitive
  <2>10. RuleFor(rules, n) = {}
    BY <2>4, <2>8
  <2>11. Located(n, place, NoPath)
    BY <2>7, <2>9, <2>10 DEF Located, Selected, PassedOn
  <2> HIDE DEF place
  <2> QED BY <1>1, <2>11, BeginLocated
<1>4. CASE ~rename /\ ~unknown
  <2>1. RuleFor(rules, n) = {} /\ ~Intercepted(rules, n) /\ place = n
    BY <1>1, <1>4
  <2>2. Located(n, place, NoPath)
    BY <2>1, PassedRoot DEF Located, Selected
  <2> HIDE DEF place
  <2> QED BY <1>1, <2>2, BeginLocated
<1> QED BY <1>2, <1>3, <1>4

LEMMA AskInterceptedLocated ==
  ASSUME SimpleMode, RootsAreKnown, SInv, NEW t \in Threads, NEW req \in Requests,
         MayAsk(t, req), AskIntercepted(t, req), UNCHANGED <<rules, files, handle>>
  PROVE  LocatedInv'
<1> DEFINE n == Named(t, req)
<1>1. /\ req.root => Stored(handle[t])
      /\ Intercepted(rules, n)
      /\ Begin(t, req, "intercept", "attempt", NoPath, <<File(Submitted(t, req), n)>>)
  BY DEF AskIntercepted
<1>2. req.op # "RENAME"
  BY <1>1 DEF MayAsk, MayRename
<1>3. n \in Seq(Names) /\ n # NoPath
  BY PathsAssumption, NoPathAssumption DEF MayAsk
<1>4. RuleFor(rules, n) = {}
  BY <1>1 DEF Intercepted, RuleFor, First
<1>5. Submitted(t, req) = n
  <2>1. CASE ~req.root
    BY <2>1 DEF Named, Submitted
  <2>2. CASE req.root
    <3> PICK h : h = handle[t]
      OBVIOUS
    <3>1. n = h.name \o req.path
      BY <1>2, <2>2 DEF Named
    <3>2. h.name \in Seq(Names) /\ req.path \in Seq(Names) /\ h # NoHandle
      <4>1. Roots \subseteq Seq(Names) /\ req \in Request
        BY PathsAssumption, RequestsAssumption
      <4>2. h.name \in Roots
        BY <1>2, <2>2 DEF MayAsk
      <4> QED BY <4>1, <4>2, NoPathAssumption DEF NoHandle, Request
    <3>3. IsPrefix(h.name, n)
      BY <3>1, <3>2, PrefixOfConcat
    <3>4. RuleFor(rules, h.name) = {}
      BY <1>1, <1>3, <3>2, <3>3, InterceptedBelow DEF SInv, IInv, TypeOK
    <3>5. h.at = h.name
      BY <3>2, <3>4 DEF SInv, LocatedInv, Located, Selected
    <3> QED BY <1>2, <2>2, <3>5 DEF Named, Submitted
  <2> QED BY <2>1, <2>2
<1>6. Located(n, Submitted(t, req), n)
  BY <1>3, <1>4, <1>5 DEF Located, Selected
<1> QED BY <1>1, <1>6, BeginLocated

LEMMA AskRedirectedLocated ==
  ASSUME SimpleMode, SInv, NEW t \in Threads, NEW req \in Requests,
         MayAsk(t, req), AskRedirected(t, req), UNCHANGED <<rules, files, handle>>
  PROVE  LocatedInv'
<1> DEFINE n == Named(t, req)
<1> PICK r \in RuleFor(rules, n) :
      LET redirected == RedirectPathOriginToTarget(r, n)
          ensure == EnsureHierarchy(rules, files, r, n, req.op \in Creating \cup {"RENAME"})
      IN Begin(t, req, r.mode, IF ensure = NoPath THEN "attempt" ELSE "climb", ensure,
               FileOperationsToTry(r.mode, File(redirected, redirected),
                                   File(Submitted(t, req), n)))
  BY DEF AskRedirected
<1> DEFINE redirected == RedirectPathOriginToTarget(r, n)
           ensure == EnsureHierarchy(rules, files, r, n, req.op \in Creating \cup {"RENAME"})
           step == IF ensure = NoPath THEN "attempt" ELSE "climb"
<1>1. r \in rules /\ r \in Rule /\ r.mode = "Simple" /\ n \in Seq(Names)
  BY SimpleRule, PathsAssumption DEF MayAsk
<1>2. redirected \in Seq(Names) /\ redirected # NoPath /\ redirected # <<>>
  <2>1. redirected \in Seq(Names) /\ IsPrefix(r.target, redirected)
    BY <1>1, RedirectedBelowTarget
  <2>2. r.target # <<>> /\ r.target \in Seq(Names)
    BY <1>1, PathsAssumption DEF SInv, IInv, TypeOK, ValidRules, Rule
  <2>3. Len(r.target) <= Len(redirected)
    BY <2>1, <2>2, PrefixElements
  <2>4. Len(r.target) # 0
    BY <2>2, EmptySeq
  <2> QED BY <2>1, <2>3, <2>4, NoPathAssumption, EmptySeq
<1>3. Located(n, redirected, redirected)
  BY <1>2 DEF Located, Selected
<1>4. ensure # NoPath => OnTargetSide(n, ensure) /\ ensure \in Seq(Names)
  <2> HIDE DEF redirected
  <2>1. Front(redirected) \in Seq(Names) /\ IsPrefix(Front(redirected), redirected)
    BY <1>2, PrefixOfFront
  <2>2. IsPrefix(redirected, redirected)
    BY <1>2, SubSeqFull DEF IsPrefix
  <2>3. ensure \in {NoPath, redirected, Front(redirected)}
    BY DEF EnsureHierarchy, redirected
  <2> HIDE DEF ensure
  <2>4. ensure # NoPath => ensure \in Seq(Names) /\ IsPrefix(ensure, redirected)
    BY <1>2, <2>1, <2>2, <2>3
  <2> QED BY <2>4 DEF OnTargetSide, redirected
<1>5. Begin(t, req, "Simple", step, ensure, <<File(redirected, redirected)>>)
  BY <1>1 DEF FileOperationsToTry
<1>6. step \in {"climb", "attempt"} /\ (step = "climb" => ensure # NoPath)
  OBVIOUS
<1> HIDE DEF redirected, ensure, step
<1> QED BY <1>3, <1>4, <1>5, <1>6, BeginLocated

LEMMA AskLocated ==
  ASSUME SimpleMode, RootsAreKnown, SInv, NEW t \in Threads, Ask(t)
  PROVE  LocatedInv'
BY AskPassedLocated, AskInterceptedLocated, AskRedirectedLocated DEF Ask

LEMMA InitLocated == Init => SInv
<1> SUFFICES ASSUME Init PROVE SInv
  OBVIOUS
<1>1. \E c \in Configurations : rules = c.rules
  BY DEF Init
<1>2. \A t \in Threads : handle[t] = NoHandle /\ call[t].step = "idle"
  BY DEF Init, Idle
<1> QED BY <1>1, <1>2, InitInvariant DEF SInv, LocatedInv

LEMMA NextLocated ==
  ASSUME SimpleMode, RootsAreKnown
  PROVE  SInv /\ [Next]_vars => SInv'
<1> SUFFICES ASSUME SInv, [Next]_vars PROVE LocatedInv'
  BY NextInvariant DEF SInv
<1>1. CASE UNCHANGED vars
  BY <1>1 DEF vars, SInv, LocatedInv, CallLocated, Located, Selected, PassedOn, OnTargetSide
<1>2. CASE Next
  BY <1>2, AskLocated, ClimbLocated, DescendLocated, CheckExistsLocated, AttemptLocated,
     MoveLocated, ReturnLocated, CloseLocated DEF Next
<1> QED BY <1>1, <1>2

\* The rules are the same in every step, and there is one for a name.
LEMMA RulesStay == IInv /\ [Next]_vars => rules' = rules
BY DEF Next, Ask, Climb, Descend, CheckExists, Attempt, Move, Return, Close, vars

LEMMA RedirectedAlone ==
  ASSUME SInv, NEW n, NEW r \in RuleFor(rules, n), NEW s \in RuleFor(rules, n)
  PROVE  r = s
<1>1. {q \in SelectRulesForPath(rules, n) : InScope(q, n)} \in SUBSET rules
  BY DEF SelectRulesForPath
<1>2. RuleFor(rules, n) = First({q \in SelectRulesForPath(rules, n) : InScope(q, n)})
  BY DEF RuleFor
<1> QED BY <1>1, <1>2, FirstUnique DEF SInv, IInv, TypeOK

LEMMA LocatedOnView ==
  ASSUME SimpleMode, SInv, SInv', rules' = rules
  PROVE  \A t \in Threads : handle'[t] \notin {handle[t], NoHandle} =>
           LET name == handle'[t].name
               before == IF Seen(files, name) = "none" THEN files' ELSE files
           IN handle'[t].at = Resolve(before, name)
<1> SUFFICES ASSUME NEW t \in Threads, handle'[t] # NoHandle, NEW F
             PROVE  handle'[t].at = Resolve(F, handle'[t].name)
  OBVIOUS
<1> PICK h : h = handle'[t]
  OBVIOUS
<1>1. Selected(h.name, h.at)
  <2>1. Selected(handle[t].name, handle[t].at)'
    BY DEF SInv, LocatedInv, Located
  <2> QED BY <2>1 DEF Selected
<1>2. CASE RuleFor(rules, h.name) = {}
  BY <1>1, <1>2 DEF Selected, Resolve
<1>3. CASE RuleFor(rules, h.name) # {}
  <2> PICK r \in RuleFor(rules, h.name) : h.at = RedirectPathOriginToTarget(r, h.name)
    BY <1>1, <1>3 DEF Selected
  <2>1. (CHOOSE s \in RuleFor(rules, h.name) : TRUE) = r
    BY RedirectedAlone
  <2>2. r.mode # "Overlay"
    BY SimpleRule
  <2> QED BY <1>3, <2>1, <2>2 DEF Resolve
<1> QED BY <1>2, <1>3

\* Under rules in simple mode a handle that is opened or renamed is on the file
\* that the rules select for its name, whatever the root directory and however
\* the requests of any number of threads overlap, as long as no directory that
\* is used as a root without being stored has redirected paths below it
\* (NewFileHandle, RenameByHandle).
THEOREM SimpleHandlesOnView ==
  ASSUME SimpleMode, RootsAreKnown
  PROVE  Spec => HandleOnView
<1>1. Init => SInv
  BY InitLocated
<1>2. SInv /\ [Next]_vars => SInv'
  BY NextLocated
<1>3. SInv /\ SInv' /\ [Next]_vars =>
        [\A t \in Threads : handle'[t] \notin {handle[t], NoHandle} =>
           LET name == handle'[t].name
               before == IF Seen(files, name) = "none" THEN files' ELSE files
           IN handle'[t].at = Resolve(before, name)]_vars
  BY RulesStay, LocatedOnView DEF SInv
<1> QED BY <1>1, <1>2, <1>3, PTL DEF Spec, HandleOnView

-----------------------------------------------------------------------------
(* What is created under rules in simple mode. *)

\* No rule redirects a path of the target side, nor one above it.
LEMMA TargetSideFree ==
  ASSUME TargetsApart, SInv, NEW r \in rules, NEW p \in Seq(Names), NEW q \in Seq(Names),
         IsPrefix(p, q), IsPrefix(r.target, q)
  PROVE  RuleFor(rules, p) = {}
<1> SUFFICES ASSUME NEW s \in RuleFor(rules, p) PROVE FALSE
  OBVIOUS
<1>1. s \in rules /\ IsPrefix(s.origin, p)
  BY DEF RuleFor, First, SelectRulesForPath
<1>2. s.origin \in Seq(Names) /\ r.target \in Seq(Names)
  BY <1>1, PathsAssumption DEF SInv, IInv, TypeOK, ValidRules, Rule
<1>3. IsPrefix(s.origin, q)
  BY <1>1, <1>2, PrefixTransitive
<1>4. IsPrefix(s.origin, r.target) \/ IsPrefix(r.target, s.origin)
  BY <1>2, <1>3, PrefixesComparable
<1> QED BY <1>1, <1>4 DEF TargetsApart, RulesApart, SInv, LocatedInv

\* The file that is selected for a name is not redirected itself.
LEMMA SelectedFree ==
  ASSUME TargetsApart, SInv, NEW n \in Paths, NEW p \in Paths, Selected(n, p)
  PROVE  RuleFor(rules, p) = {}
<1>1. CASE RuleFor(rules, n) = {} /\ p = n
  BY <1>1
<1>2. CASE \E r \in RuleFor(rules, n) : p = RedirectPathOriginToTarget(r, n)
  <2> PICK r \in RuleFor(rules, n) : p = RedirectPathOriginToTarget(r, n)
    BY <1>2
  <2>1. r \in rules /\ r \in Rule
    BY DEF RuleFor, First, SelectRulesForPath, SInv, IInv, TypeOK, ValidRules
  <2>2. p \in Seq(Names) /\ n \in Seq(Names)
    BY PathsAssumption
  <2>3. IsPrefix(r.target, p)
    BY <2>1, <2>2, RedirectedBelowTarget
  <2>4. IsPrefix(p, p)
    BY <2>2, SubSeqFull DEF IsPrefix
  <2> QED BY <2>1, <2>2, <2>3, <2>4, TargetSideFree
<1> QED BY <1>1, <1>2 DEF Selected

\* A system call creates nothing but at its path.
LEMMA CreatedAtPath ==
  ASSUME NEW F \in [Paths -> Kinds], NEW p \in Paths, NEW q, ~Exists(F, p)
  PROVE  /\ \A op, as : Exists(Effect(F, op, as, q), p) => p = q
         /\ \A from : Exists(Moved(F, from, q), p) => p = q
         /\ ~Exists(Removed(F, q), p)
BY DEF Effect, Moved, Removed, Exists, At

LEMMA CreatedFree ==
  ASSUME TargetsApart, SInv, [Next]_vars, NEW p \in Paths,
         ~Exists(files, p), Exists(files', p)
  PROVE  RuleFor(rules, p) = {}
<1>1. files \in [Paths -> Kinds] /\ p \in Seq(Names)
  BY PathsAssumption DEF SInv, IInv, TypeOK
<1>2. ASSUME NEW t \in Threads, call[t].step \in {"attempt", "submit"}, p = Attempted(t).at
      PROVE  RuleFor(rules, p) = {}
  <2>1. call[t] \in Call /\ CallFaithful(call[t]) /\ CallLocated(call[t])
    BY <1>2, UnderWayLocated
  <2>2. Selected(call[t].name, p) /\ call[t].name \in Paths
    BY <1>2, <2>1 DEF CallFaithful, CallLocated, Located, Attempted, Call
  <2> QED BY <2>2, SelectedFree
<1>3. ASSUME NEW t \in Threads, Attempt(t) PROVE RuleFor(rules, p) = {}
  <2>1. files' = Effect(files, Trying(t).op, call[t].as, Attempted(t).at)
    BY <1>3 DEF Attempt
  <2>2. p = Attempted(t).at
    BY <1>1, <2>1, CreatedAtPath
  <2>3. call[t].step \in {"attempt", "submit"}
    BY <1>3 DEF Attempt
  <2> QED BY <1>2, <2>2, <2>3
<1>4. ASSUME NEW t \in Threads, Move(t) PROVE RuleFor(rules, p) = {}
  <2>1. files' = Moved(files, handle[t].at, Attempted(t).at)
    BY <1>4 DEF Move
  <2>2. p = Attempted(t).at
    BY <1>1, <2>1, CreatedAtPath
  <2>3. call[t].step \in {"attempt", "submit"}
    BY <1>4 DEF Move
  <2> QED BY <1>2, <2>2, <2>3
<1>5. ASSUME NEW t \in Threads, Descend(t) PROVE RuleFor(rules, p) = {}
  <2> PICK e : e = call[t]
    OBVIOUS
  <2>1. /\ e \in Call /\ CallFaithful(e) /\ CallLocated(e) /\ e.step = "descend"
        /\ e.level \in Seq(Names) /\ e.ensure \in Seq(Names)
    BY <1>5, UnderWayLocated DEF Descend, CallFaithful
  <2>2. files' = Effect(files, "OPEN_IF", "dir", SubSeq(e.ensure, 1, Len(e.level) + 1))
    BY <1>5 DEF Descend
  <2>3. p = SubSeq(e.ensure, 1, Len(e.level) + 1)
    BY <1>1, <2>2, CreatedAtPath
  <2>4. Len(e.level) + 1 \in 0 .. Len(e.ensure)
    BY <2>1 DEF CallLocated
  <2>5. IsPrefix(p, e.ensure)
    BY <2>1, <2>3, <2>4, PrefixOfSubSeq
  <2> PICK r \in RuleFor(rules, e.name) : IsPrefix(e.ensure, RedirectPathOriginToTarget(r, e.name))
    BY <2>1 DEF CallLocated, OnTargetSide
  <2>6. r \in rules /\ r \in Rule /\ e.name \in Seq(Names)
    BY <2>1, PathsAssumption
       DEF RuleFor, First, SelectRulesForPath, SInv, IInv, TypeOK, ValidRules, Call
  <2> PICK q : q = RedirectPathOriginToTarget(r, e.name)
    OBVIOUS
  <2>7. q \in Seq(Names) /\ IsPrefix(r.target, q)
    BY <2>6, RedirectedBelowTarget
  <2>8. IsPrefix(p, q)
    BY <1>1, <2>1, <2>5, <2>7, PrefixTransitive
  <2> QED BY <1>1, <2>6, <2>7, <2>8, TargetSideFree
<1>6. ASSUME NEW t \in Threads, Close(t) PROVE FALSE
  <2>1. files' = files \/ files' = Removed(files, handle[t].at)
    BY <1>6 DEF Close
  <2> QED BY <1>1, <2>1, CreatedAtPath
<1>7. (UNCHANGED vars \/ \E t \in Threads : Ask(t) \/ Climb(t) \/ CheckExists(t) \/ Return(t))
        => files' = files
  BY DEF vars, Ask, Climb, CheckExists, Return
<1> QED BY <1>3, <1>4, <1>5, <1>6, <1>7 DEF Next

\* Under rules in simple mode whose targets are apart from the origins nothing
\* is created at a path that a rule redirects, neither by an attempt nor as a
\* level of a hierarchy that another thread is creating too
\* (CreateDirectoryHierarchy).
THEOREM SimpleCreationsOnTarget ==
  ASSUME SimpleMode, RootsAreKnown, TargetsApart
  PROVE  Spec => CreationsOnTarget
<1>1. Init => SInv
  BY InitLocated
<1>2. SInv /\ [Next]_vars => SInv'
  BY NextLocated
<1>3. SInv /\ [Next]_vars =>
        [\A p \in Paths : ~Exists(files, p) /\ Exists(files', p) => RuleFor(rules, p) = {}]_vars
  BY CreatedFree
<1> QED BY <1>1, <1>2, <1>3, PTL DEF Spec, CreationsOnTarget

\* A call is answered by its last attempt, or while its hierarchy is created.
LEMMA WhoAnswers ==
  ASSUME SInv, [Next]_vars, NEW t \in Threads, NEW status \in Statuses,
         call[t].step \notin {"idle", "answered"}, call'[t] = Answered(status)
  PROVE  Climb(t) \/ Descend(t) \/ ((Attempt(t) \/ Move(t)) /\ ~TryNext(t))
<1>1. call[t] \in Call
  BY UnderWayLocated
<1>2. call'[t].step = "answered" /\ call'[t] # call[t]
  BY DEF Answered
<1>3. PICK u \in Threads : \/ Ask(u) \/ Climb(u) \/ Descend(u) \/ CheckExists(u) \/ Attempt(u)
                         \/ Move(u) \/ Return(u) \/ Close(u)
  BY <1>2 DEF Next, vars
<1>4. DOMAIN call = Threads
  BY DEF SInv, IInv, TypeOK
<1>5. ASSUME u # t PROVE FALSE
  <2>1. ~(Ask(u) \/ Return(u) \/ Close(u))
    BY <1>2, <1>4, <1>5
       DEF Ask, AskPassed, AskIntercepted, AskRedirected, Begin, Return, Close
  <2>2. ~(Climb(u) \/ Descend(u))
    BY <1>2, <1>4, <1>5 DEF Climb, Descend, Finish
  <2>3. ~TryNext(u) /\ \A result : ~Finish(u, result)
    BY <1>2, <1>4, <1>5 DEF TryNext, NextFile, NextDisposition, Finish
  <2>4. ~CheckExists(u)
    BY <1>2, <1>4, <1>5, <2>3 DEF CheckExists
  <2>5. ~Attempt(u) /\ ~Move(u)
    BY <2>3 DEF Attempt, Move
  <2> QED BY <1>3, <2>1, <2>2, <2>4, <2>5
<1>6. ~TryNext(t)
  <2> PICK e : e = call[t]
    OBVIOUS
  <2>1. ~NextFile(t)
    <3>1. NextFile(t) => call' = [call EXCEPT ![t] = [e EXCEPT !.f = e.f + 1, !.step = "attempt"]]
      BY DEF NextFile
    <3> QED BY <1>1, <1>2, <1>4, <3>1 DEF Call
  <2>2. ~NextDisposition(t)
    <3>1. NextDisposition(t) =>
            call' = [call EXCEPT ![t] = [e EXCEPT !.d = e.d + 1, !.f = 1, !.step = "attempt"]]
      BY DEF NextDisposition
    <3> QED BY <1>1, <1>2, <1>4, <3>1 DEF Call
  <2> QED BY <2>1, <2>2 DEF TryNext
<1>7. ~CheckExists(t)
  <2>1. call' = [call EXCEPT ![t].step = "submit"] => call'[t].step = "submit"
    BY <1>1, <1>4 DEF Call
  <2> QED BY <1>2, <1>6, <2>1 DEF CheckExists
<1>8. Climb(t) \/ Descend(t) \/ Attempt(t) \/ Move(t)
  <2>1. call[t] # Idle
    BY DEF Idle
  <2> QED BY <1>3, <1>5, <1>7, <2>1 DEF Ask, MayAsk, Return, Close
<1> QED BY <1>6, <1>8

LEMMA AnswerFields ==
  ASSUME NEW c, NEW status, c = Answered(status)
  PROVE  c.step = "answered" /\ c.status = status
BY DEF Answered

\* Climb answers only for a hierarchy that is the drive alone.
LEMMA ClimbAnswers ==
  ASSUME SInv, NEW t \in Threads, Climb(t), NEW status, call'[t] = Answered(status)
  PROVE  call[t].ensure = <<>> /\ status = "not found"
<1>1. DOMAIN call = Threads
  BY DEF SInv, IInv, TypeOK
<1>2. call[t].step = "climb"
  BY DEF Climb
<1>3. call[t] \in Call
  BY <1>2, UnderWayLocated
<1>4. call'[t].step = "answered" /\ call'[t].status = status
  BY AnswerFields
<1>5. call[t].ensure = <<>>
  <2> PICK e : e = call[t]
    OBVIOUS
  <2>1. SUFFICES ASSUME e.ensure # <<>> PROVE FALSE
    OBVIOUS
  <2>2. CASE IsDirectory(files, e.level)
    <3>1. PICK step : /\ step \in {"attempt", "descend"}
                      /\ call' = [call EXCEPT ![t] = [e EXCEPT !.step = step]]
      BY <2>1, <2>2 DEF Climb
    <3>2. call'[t] = [e EXCEPT !.step = step]
      BY <1>1, <3>1
    <3> QED BY <1>3, <1>4, <3>1, <3>2 DEF Call
  <2>3. CASE ~IsDirectory(files, e.level)
    <3>1. PICK above, step :
            /\ step \in {"climb", "descend"}
            /\ call' = [call EXCEPT ![t] = [e EXCEPT !.level = above, !.step = step]]
      <4>1. PICK above, step : above = Front(e.level)
                               /\ step = IF above = <<>> THEN "descend" ELSE e.step
        OBVIOUS
      <4> QED BY <1>2, <2>1, <2>3, <4>1 DEF Climb
    <3>2. call'[t] = [e EXCEPT !.level = above, !.step = step]
      BY <1>1, <3>1
    <3>3. [e EXCEPT !.level = above, !.step = step].step = step
      BY <1>3 DEF Call
    <3> QED BY <1>4, <3>1, <3>2, <3>3
  <2> QED BY <2>2, <2>3
<1>6. call'[t] = Answered("not found")
  BY <1>1, <1>5 DEF Climb, Finish
<1>7. call'[t].status = "not found"
  BY <1>6, AnswerFields
<1> QED BY <1>4, <1>5, <1>7

\* Under rules in simple mode only a request that does not accept an existing
\* file is told that there is one: what a disposition becomes is the disposition
\* itself, and the directories for it are opened if another thread has created
\* them (SelectCreateDispositionsToTry, CreateDirectoryHierarchy).
THEOREM SimpleOnlyCreateCollides ==
  ASSUME SimpleMode, RootsAreKnown
  PROVE  Spec => OnlyCreateCollides
<1>1. Init => SInv
  BY InitLocated
<1>2. SInv /\ [Next]_vars => SInv'
  BY NextLocated
<1>3. SInv /\ [Next]_vars =>
        \A t \in Threads :
          call[t].step \notin {"idle", "answered"} /\ call'[t] = Answered("collision") =>
            call[t].op \in {"CREATE", "RENAME"}
  <2> SUFFICES ASSUME SInv, [Next]_vars, NEW t \in Threads,
                      call[t].step \notin {"idle", "answered"}, call'[t] = Answered("collision")
               PROVE  call[t].op \in {"CREATE", "RENAME"}
    OBVIOUS
  <2>1. call[t] \in Call /\ CallFaithful(call[t]) /\ CallLocated(call[t])
    BY UnderWayLocated
  <2>2. DOMAIN call = Threads
    BY DEF SInv, IInv, TypeOK
  <2>3. Climb(t) \/ Descend(t) \/ ((Attempt(t) \/ Move(t)) /\ ~TryNext(t))
    <3>1. "collision" \in Statuses
      BY DEF Statuses
    <3> QED BY <3>1, WhoAnswers
  <2>4. CASE Move(t)
    BY <2>4 DEF Move
  <2>5. CASE Attempt(t)
    <3>1. PICK status : status = Status(files, Trying(t).op, call[t].as, Attempted(t).at)
      OBVIOUS
    <3>2. ~TryNext(t)
      <4>1. ~Climb(t) /\ ~Descend(t)
        BY <2>5 DEF Attempt, Climb, Descend
      <4> QED BY <2>3, <4>1
    <3>3. call' = [call EXCEPT ![t] = Answered(status)]
      BY <2>5, <3>1, <3>2 DEF Attempt, Finish
    <3>4. status = "collision"
      BY <2>2, <3>3 DEF Answered
    <3>5. Trying(t).op = "CREATE"
      BY <3>1, <3>4 DEF Status
    <3> QED BY <2>1, <3>5 DEF CallFaithful, CallLocated, Trying
  <2>6. ~Climb(t)
    <3>1. "collision" # "not found"
      OBVIOUS
    <3> QED BY <3>1, ClimbAnswers
  <2>7. ~Descend(t)
    <3> PICK e : e = call[t]
      OBVIOUS
    <3>1. SUFFICES ASSUME Descend(t) PROVE FALSE
      OBVIOUS
    <3>2. PICK next : next = SubSeq(e.ensure, 1, Len(e.level) + 1)
      OBVIOUS
    <3>3. Status(files, "OPEN_IF", "dir", next) # "collision"
      BY DEF Status
    <3> QED BY <2>1, <2>2, <3>1, <3>2, <3>3 DEF Descend, Finish, Answered, Call
  <2> QED BY <2>3, <2>4, <2>5, <2>6, <2>7
<1> QED BY <1>1, <1>2, <1>3, PTL DEF Spec, OnlyCreateCollides

-----------------------------------------------------------------------------
(* Paths: what is above one, and the directory it is in. *)

\* Every number is in a set that has zero and the successors of its elements.
LEMMA Numbers ==
  ASSUME NEW S, 0 \in S, \A n \in Nat : n \in S => n + 1 \in S
  PROVE  Nat \subseteq S
<1> SUFFICES ASSUME NEW m \in Nat, m \notin S PROVE FALSE
  OBVIOUS
<1> DEFINE C == {n \in 0 .. m : n \notin S}
           T == {1 .. n : n \in C}
           U == 1 .. m
<1>1. T \in SUBSET SUBSET U /\ T # {}
  <2>1. m \in C
    OBVIOUS
  <2>2. ASSUME NEW n \in C PROVE 1 .. n \in SUBSET U
    OBVIOUS
  <2> QED BY <2>1, <2>2
<1>2. PICK n \in C : \A k \in C : <<1 .. k, 1 .. n>> \notin StrictSubsetOrdering(U)
  <2>1. IsFiniteSet(U)
    BY FS_Interval
  <2>2. T \subseteq FiniteSubsetsOf(U)
    BY <1>1, <2>1, FS_Subset DEF FiniteSubsetsOf
  <2> HIDE DEF T, U
  <2>3. \E x \in T : \A y \in T : ~(<<y, x>> \in StrictSubsetOrdering(U))
    BY <1>1, <2>2, FS_StrictSubsetOrderingWellFounded, WFMin
  <2> QED BY <2>3 DEF T
<1>3. n # 0 /\ n - 1 \in Nat /\ n - 1 \in 0 .. m /\ (n - 1) + 1 = n
  OBVIOUS
<1>4. n - 1 \in C
  BY <1>3
<1>5. n \in 1 .. n /\ n \notin 1 .. (n - 1) /\ 1 .. (n - 1) \subseteq 1 .. n
      /\ 1 .. (n - 1) \in SUBSET U /\ 1 .. n \in SUBSET U
  BY <1>3
<1>6. <<1 .. (n - 1), 1 .. n>> \in StrictSubsetOrdering(U)
  <2> DEFINE a == 1 .. (n - 1)
             b == 1 .. n
  <2>1. a \in SUBSET U /\ b \in SUBSET U /\ a \subseteq b /\ n \in b /\ n \notin a
    BY <1>5
  <2> HIDE DEF a, b, U
  <2> QED BY <2>1 DEF StrictSubsetOrdering, a, b
<1> QED BY <1>2, <1>4, <1>6

\* The directory of a path has its components but the last.
LEMMA FrontElements ==
  ASSUME NEW S, NEW s \in Seq(S), s # <<>>
  PROVE  /\ Len(s) \in Nat /\ Len(s) >= 1
         /\ Front(s) \in Seq(S) /\ Len(Front(s)) = Len(s) - 1
         /\ \A i \in 1 .. Len(s) - 1 : Front(s)[i] = s[i]
<1>1. Len(s) \in Nat /\ Len(s) # 0
  BY EmptySeq
<1>2. Front(s) \in Seq(S) /\ Len(Front(s)) = Len(s) - 1 /\ IsPrefix(Front(s), s)
  BY PrefixOfFront
<1>3. \A i \in 1 .. Len(Front(s)) : Front(s)[i] = s[i]
  BY <1>2, PrefixElements
<1> QED BY <1>1, <1>2, <1>3

\* What is above a path is above its directory.
LEMMA PrefixOfPathOrFront ==
  ASSUME NEW S, NEW a \in Seq(S), NEW s \in Seq(S), s # <<>>, IsPrefix(a, s), a # s
  PROVE  IsPrefix(a, Front(s))
<1>1. /\ Len(s) \in Nat /\ Len(s) >= 1
      /\ Front(s) \in Seq(S) /\ Len(Front(s)) = Len(s) - 1
      /\ \A i \in 1 .. Len(s) - 1 : Front(s)[i] = s[i]
  BY FrontElements
<1>2. Len(a) \in Nat /\ Len(a) <= Len(s) /\ \A i \in 1 .. Len(a) : a[i] = s[i]
  BY PrefixElements
<1>3. Len(a) # Len(s)
  BY <1>2, SeqEqual
<1>4. Len(a) <= Len(Front(s)) /\ \A i \in 1 .. Len(a) : a[i] = Front(s)[i]
  BY <1>1, <1>2, <1>3
<1> QED BY <1>1, <1>4, PrefixElements

LEMMA PrefixLength ==
  ASSUME NEW S, NEW a \in Seq(S), NEW b \in Seq(S), IsPrefix(a, b)
  PROVE  Len(a) <= Len(b) /\ Len(a) \in Nat
<1>1. Len(a) <= Len(b)
  BY PrefixElements
<1>2. Len(a) \in Nat
  OBVIOUS
<1> QED BY <1>1, <1>2

LEMMA PrefixOfEmpty ==
  ASSUME NEW S, NEW a \in Seq(S), NEW b \in Seq(S), IsPrefix(a, b), b = <<>>
  PROVE  a = <<>>
<1>1. Len(b) = 0
  BY EmptySeq
<1>2. Len(a) <= Len(b) /\ Len(a) \in Nat
  BY PrefixLength
<1> QED BY <1>1, <1>2, EmptySeq

LEMMA PrefixOfItself ==
  ASSUME NEW S, NEW a \in Seq(S)
  PROVE  IsPrefix(a, a)
BY SubSeqFull DEF IsPrefix

\* Of two prefixes of one path the shorter is a prefix of the other.
LEMMA ShorterPrefix ==
  ASSUME NEW S, NEW a \in Seq(S), NEW b \in Seq(S), NEW p \in Seq(S),
         IsPrefix(a, p), IsPrefix(b, p), Len(a) <= Len(b)
  PROVE  IsPrefix(a, b) /\ (Len(a) = Len(b) => a = b)
<1>1. /\ Len(a) <= Len(p) /\ \A i \in 1 .. Len(a) : a[i] = p[i]
      /\ Len(b) <= Len(p) /\ \A i \in 1 .. Len(b) : b[i] = p[i]
      /\ Len(a) \in Nat /\ Len(b) \in Nat
  BY PrefixElements
<1>2. \A i \in 1 .. Len(a) : a[i] = b[i]
  BY <1>1
<1>3. IsPrefix(a, b)
  BY <1>2, PrefixElements
<1> QED BY <1>2, <1>3, SeqEqual

-----------------------------------------------------------------------------
(* The rule for a path and for the directory it is in. *)

\* The order of a container: one of two rules precedes the other, and what
\* precedes is passed on.
LEMMA PrecedesOrder ==
  ASSUME NEW R, ValidRules(R)
  PROVE  /\ \A r, s \in R : r # s => Precedes(r, s) \/ Precedes(s, r)
         /\ \A r, s, q \in R : Precedes(r, s) /\ Precedes(s, q) => Precedes(r, q)
         /\ \A r \in R : ~Precedes(r, r)
<1> DEFINE C(r) == Cardinality(r.patterns)
<1>1. ASSUME NEW r \in R PROVE C(r) \in Nat /\ r.name \in Nat
  BY FS_CardinalityType DEF ValidRules, Rule
<1>2. \A r, s \in R : r.name = s.name => r = s
  BY DEF ValidRules
<1>3. \A r, s \in R : Precedes(r, s) <=> C(r) > C(s) \/ (C(r) = C(s) /\ r.name < s.name)
  BY DEF Precedes
<1> HIDE DEF C
<1> QED BY <1>1, <1>2, <1>3

\* A loop over some rules finds one.
LEMMA FirstNonEmpty ==
  ASSUME NEW R, ValidRules(R), NEW X \in SUBSET R, X # {}
  PROVE  First(X) # {}
<1> DEFINE Down(s) == {q \in X : Precedes(q, s)}
           D == {Down(s) : s \in X}
<1>1. IsFiniteSet(X)
  BY FS_Subset DEF ValidRules
<1>2. D \subseteq FiniteSubsetsOf(X) /\ D # {}
  <2>1. ASSUME NEW s \in X PROVE Down(s) \in SUBSET X /\ IsFiniteSet(Down(s))
    BY <1>1, FS_Subset
  <2> QED BY <2>1 DEF FiniteSubsetsOf
<1>3. PICK r \in X : \A q \in X : <<Down(q), Down(r)>> \notin StrictSubsetOrdering(X)
  <2> HIDE DEF D, Down
  <2>1. \E x \in D : \A y \in D : ~(<<y, x>> \in StrictSubsetOrdering(X))
    BY <1>1, <1>2, FS_StrictSubsetOrderingWellFounded, WFMin
  <2> QED BY <2>1 DEF D
<1>4. ASSUME NEW q \in X \ {r} PROVE Precedes(r, q)
  <2> SUFFICES ASSUME Precedes(q, r) PROVE FALSE
    BY PrecedesOrder
  <2>1. q \in Down(r) /\ q \notin Down(q) /\ Down(q) \subseteq Down(r)
    BY PrecedesOrder
  <2>2. Down(q) \in SUBSET X /\ Down(r) \in SUBSET X
    OBVIOUS
  <2> HIDE DEF Down
  <2> QED BY <1>3, <2>1, <2>2 DEF StrictSubsetOrdering
<1>5. r \in First(X)
  BY <1>4 DEF First
<1> QED BY <1>5

\* The rule for a path is of the container at its longest origin directory.
LEMMA RuleForFacts ==
  ASSUME NEW R, ValidRules(R), NEW p \in Seq(Names), NEW r \in RuleFor(R, p)
  PROVE  /\ p # <<>> /\ r \in R /\ r \in Rule
         /\ r.origin \in Seq(Names) /\ r.target \in Seq(Names)
         /\ r.origin # <<>> /\ r.target # <<>>
         /\ IsPrefix(r.origin, p)
         /\ \A s \in R : IsPrefix(s.origin, p) => Len(s.origin) <= Len(r.origin)
         /\ RuleFor(R, p) = {r}
         /\ Place(R, p) = RedirectPathOriginToTarget(r, p)
<1>1. p # <<>> /\ RuleFor(R, p) = First({s \in SelectRulesForPath(R, p) : InScope(s, p)})
  BY DEF RuleFor
<1>2. {s \in SelectRulesForPath(R, p) : InScope(s, p)} \in SUBSET R
  BY DEF SelectRulesForPath
<1>3. RuleFor(R, p) = {r}
  BY <1>1, <1>2, FirstUnique
<1>4. r \in SelectRulesForPath(R, p)
  BY <1>1 DEF First
<1>5. r \in R /\ IsPrefix(r.origin, p)
      /\ \A s \in R : IsPrefix(s.origin, p) => Len(s.origin) <= Len(r.origin)
  BY <1>4 DEF SelectRulesForPath
<1>6. r \in Rule /\ r.origin # <<>> /\ r.target # <<>>
  BY <1>5 DEF ValidRules
<1>7. r.origin \in Seq(Names) /\ r.target \in Seq(Names)
  BY <1>6, PathsAssumption DEF Rule
<1>8. (CHOOSE s \in RuleFor(R, p) : TRUE) = r
  BY <1>3
<1> QED BY <1>1, <1>3, <1>5, <1>6, <1>7, <1>8 DEF Place

\* An origin directory is redirected, by a rule of its own.
LEMMA OriginRule ==
  ASSUME NEW R, ValidRules(R), NEW o \in Origins(R)
  PROVE  /\ o \in Paths /\ o \in Seq(Names) /\ o # <<>>
         /\ RuleFor(R, o) # {} /\ \A r \in RuleFor(R, o) : r.origin = o
<1>1. PICK r \in R : r.origin = o
  BY DEF Origins
<1>2. o \in Paths /\ o \in Seq(Names) /\ o # <<>>
  BY <1>1, PathsAssumption DEF ValidRules, Rule
<1>3. IsPrefix(o, o)
  BY <1>2, PrefixOfItself
<1>4. ASSUME NEW s \in SelectRulesForPath(R, o) PROVE s \in R /\ s.origin = o
  <2>1. s \in R /\ IsPrefix(s.origin, o) /\ Len(o) <= Len(s.origin)
    BY <1>1, <1>3 DEF SelectRulesForPath
  <2>2. s.origin \in Seq(Names)
    BY <2>1, PathsAssumption DEF ValidRules, Rule
  <2>3. Len(s.origin) <= Len(o) /\ Len(s.origin) \in Nat /\ Len(o) \in Nat
    BY <1>2, <2>1, <2>2, PrefixElements
  <2> QED BY <1>2, <1>3, <2>1, <2>2, <2>3, ShorterPrefix
<1>5. SelectRulesForPath(R, o) # {}
  BY <1>1, <1>2, <1>3, LongestOrigin
<1> DEFINE X == {s \in SelectRulesForPath(R, o) : InScope(s, o)}
<1>6. X \in SUBSET R /\ X # {} /\ \A s \in X : s.origin = o
  BY <1>4, <1>5 DEF InScope
<1>7. RuleFor(R, o) = First(X)
  BY <1>2 DEF RuleFor
<1> HIDE DEF X
<1>8. First(X) # {} /\ First(X) \subseteq X
  BY <1>6, FirstNonEmpty DEF First
<1> QED BY <1>2, <1>6, <1>7, <1>8

\* A path has a rule if and only if its directory has, and the same one, unless
\* one of the two is an origin directory.
LEMMA RuleForFront ==
  ASSUME NEW R, ValidRules(R), NEW p \in Seq(Names), p # <<>>,
         p \notin Origins(R), Front(p) \notin Origins(R)
  PROVE  RuleFor(R, p) = RuleFor(R, Front(p))
<1> PICK f : f = Front(p)
  OBVIOUS
<1>1. /\ Len(p) \in Nat /\ f \in Seq(Names) /\ Len(f) = Len(p) - 1 /\ Len(p) >= 1
      /\ \A i \in 1 .. Len(p) - 1 : f[i] = p[i]
      /\ IsPrefix(f, p)
  BY FrontElements, PrefixOfFront
<1>2. ASSUME NEW r \in R
      PROVE  r.origin \in Seq(Names) /\ r.origin # p /\ r.origin # f /\ r.origin # <<>>
  BY PathsAssumption DEF Origins, ValidRules, Rule
<1>3. ASSUME NEW r \in R PROVE IsPrefix(r.origin, p) <=> IsPrefix(r.origin, f)
  BY <1>1, <1>2, PrefixOfPathOrFront, PrefixTransitive
<1>4. SelectRulesForPath(R, p) = SelectRulesForPath(R, f)
  BY <1>3 DEF SelectRulesForPath
<1>5. ASSUME NEW r \in SelectRulesForPath(R, f) PROVE InScope(r, p) <=> InScope(r, f)
  <2>1. r \in R /\ IsPrefix(r.origin, f)
    BY DEF SelectRulesForPath
  <2>2. r.origin \in Seq(Names) /\ r.origin # p /\ r.origin # f
    BY <1>2, <2>1
  <2>3. Len(r.origin) \in Nat /\ Len(r.origin) <= Len(f) /\ Len(r.origin) # Len(f)
    BY <1>1, <2>1, <2>2, PrefixElements, ShorterPrefix, PrefixOfItself
  <2>4. Len(r.origin) + 1 \in 1 .. Len(p) - 1
    BY <1>1, <2>3
  <2>5. p[Len(r.origin) + 1] = f[Len(r.origin) + 1]
    BY <1>1, <2>4
  <2> QED BY <2>2, <2>5 DEF InScope
<1>6. CASE f # <<>>
  <2>1. {r \in SelectRulesForPath(R, p) : InScope(r, p)}
          = {r \in SelectRulesForPath(R, f) : InScope(r, f)}
    BY <1>4, <1>5
  <2> QED BY <2>1, <1>6 DEF RuleFor
<1>7. CASE f = <<>>
  <2>1. ASSUME NEW r \in R PROVE ~IsPrefix(r.origin, f)
    BY <1>1, <1>2, <1>7, PrefixOfEmpty
  <2>2. SelectRulesForPath(R, p) = {}
    BY <1>4, <2>1 DEF SelectRulesForPath
  <2> QED BY <2>2, <1>7 DEF RuleFor, First
<1> QED BY <1>6, <1>7

\* What is right below an origin directory is redirected by a rule of that origin.
LEMMA RuleBelowOrigin ==
  ASSUME NEW R, ValidRules(R), NEW p \in Seq(Names), p \notin Origins(R),
         Front(p) \in Origins(R), NEW r \in RuleFor(R, p)
  PROVE  r.origin = Front(p)
<1>1. /\ p # <<>> /\ r \in R /\ IsPrefix(r.origin, p) /\ r.origin \in Seq(Names)
      /\ \A s \in R : IsPrefix(s.origin, p) => Len(s.origin) <= Len(r.origin)
  BY RuleForFacts
<1>2. r.origin # p
  BY <1>1 DEF Origins
<1>3. Front(p) \in Seq(Names) /\ IsPrefix(Front(p), p)
  BY <1>1, PrefixOfFront
<1>4. IsPrefix(r.origin, Front(p))
  BY <1>1, <1>2, PrefixOfPathOrFront
<1>5. Len(Front(p)) <= Len(r.origin)
  BY <1>1, <1>3 DEF Origins
<1>6. Len(r.origin) <= Len(Front(p)) /\ Len(r.origin) \in Nat /\ Len(Front(p)) \in Nat
  BY <1>1, <1>3, <1>4, PrefixElements
<1>7. Len(r.origin) = Len(Front(p))
  BY <1>5, <1>6
<1> QED BY <1>1, <1>3, <1>7, <1>6, ShorterPrefix

\* What is left of a path behind its first components.
LEMMA RestElements ==
  ASSUME NEW S, NEW p \in Seq(S), NEW k \in Nat, k <= Len(p)
  PROVE  LET rest == SubSeq(p, k + 1, Len(p))
         IN /\ rest \in Seq(S) /\ Len(rest) = Len(p) - k
            /\ \A i \in 1 .. Len(p) - k : rest[i] = p[k + i]
<1> PICK l : l = Len(p)
  OBVIOUS
<1>1. l \in Nat
  BY LenProperties
<1>2. \A i \in k + 1 .. l : i \in 1 .. l
  BY <1>1
<1>3. \A i \in k + 1 .. l : p[i] \in S
  BY <1>2, ElementOfSeq
<1> PICK rest : rest = SubSeq(p, k + 1, l)
  OBVIOUS
<1>4. k + 1 \in Int /\ l \in Int
  BY <1>1
<1>5. /\ rest \in Seq(S)
      /\ Len(rest) = IF k + 1 <= l THEN l - (k + 1) + 1 ELSE 0
      /\ \A i \in 1 .. l - (k + 1) + 1 : rest[i] = p[k + 1 + i - 1]
  BY <1>3, <1>4, SubSeqProperties
<1>6. Len(rest) = l - k
  BY <1>1, <1>5
<1>7. ASSUME NEW i \in 1 .. l - k PROVE rest[i] = p[k + i]
  <2>1. i \in 1 .. l - (k + 1) + 1 /\ k + 1 + i - 1 = k + i
    BY <1>1
  <2>2. rest[i] = p[k + 1 + i - 1]
    BY <1>5, <2>1
  <2> QED BY <2>1, <2>2
<1> QED BY <1>5, <1>6, <1>7

\* The components of a redirected path.
LEMMA RedirectedElements ==
  ASSUME NEW r \in Rule, NEW p \in Seq(Names), IsPrefix(r.origin, p)
  PROVE  LET q == RedirectPathOriginToTarget(r, p)
             k == Len(r.origin)  m == Len(r.target)
         IN /\ k \in Nat /\ m \in Nat /\ Len(p) \in Nat /\ k <= Len(p)
            /\ q \in Seq(Names) /\ Len(q) = m + (Len(p) - k)
            /\ \A i \in 1 .. m : q[i] = r.target[i]
            /\ \A i \in 1 .. Len(p) - k : q[m + i] = p[k + i]
<1>1. PICK k, m, l : k = Len(r.origin) /\ m = Len(r.target) /\ l = Len(p)
  OBVIOUS
<1>2. r.target \in Seq(Names) /\ r.origin \in Seq(Names)
  BY PathsAssumption DEF Rule
<1>3. k \in Nat /\ m \in Nat /\ l \in Nat /\ k <= l
  BY <1>1, <1>2, PrefixElements, LenProperties
<1>4. PICK d : d \in Nat /\ d = l - k
  BY <1>3
<1>5. PICK rest : rest = SubSeq(p, k + 1, l)
  OBVIOUS
<1>6. /\ rest \in Seq(Names) /\ Len(rest) = d
      /\ \A i \in 1 .. d : rest[i] = p[k + i]
  <2>1. k \in Nat /\ k <= Len(p) /\ rest = SubSeq(p, k + 1, Len(p)) /\ Len(p) - k = d
    BY <1>1, <1>3, <1>4, <1>5
  <2>2. /\ rest \in Seq(Names) /\ Len(rest) = Len(p) - k
        /\ \A i \in 1 .. Len(p) - k : rest[i] = p[k + i]
    BY <2>1, RestElements
  <2> QED BY <2>1, <2>2
<1>7. PICK q : q = r.target \o rest
  OBVIOUS
<1>8. /\ q \in Seq(Names) /\ Len(q) = m + d
      /\ \A i \in 1 .. m + d : q[i] = IF i <= m THEN r.target[i] ELSE rest[i - m]
  <2>1. rest \in Seq(Names) /\ Len(rest) = d
    BY <1>6
  <2>2. /\ r.target \o rest \in Seq(Names)
        /\ Len(r.target \o rest) = Len(r.target) + Len(rest)
        /\ \A i \in 1 .. Len(r.target) + Len(rest) :
             (r.target \o rest)[i] = IF i <= Len(r.target) THEN r.target[i]
                                     ELSE rest[i - Len(r.target)]
    BY <1>2, <2>1, ConcatProperties
  <2> QED BY <1>1, <1>7, <2>1, <2>2
<1>9. ASSUME NEW i \in 1 .. m PROVE q[i] = r.target[i]
  <2>1. i \in 1 .. m + d /\ i <= m
    BY <1>3, <1>4
  <2> QED BY <1>8, <2>1
<1>10. ASSUME NEW i \in 1 .. d PROVE q[m + i] = p[k + i]
  <2>1. PICK j : j \in Int /\ j = m + i
    BY <1>3
  <2>2. j \in 1 .. m + d /\ ~(j <= m) /\ j - m = i
    BY <1>3, <1>4, <2>1
  <2>3. q[j] = rest[i]
    BY <1>8, <2>2
  <2> QED BY <1>6, <2>1, <2>3
<1>11. q = RedirectPathOriginToTarget(r, p)
  BY <1>1, <1>5, <1>7 DEF RedirectPathOriginToTarget
<1> QED BY <1>1, <1>3, <1>4, <1>8, <1>9, <1>10, <1>11

\* A redirected path is no drive; that of the origin directory is the target.
LEMMA RedirectedOrigin ==
  ASSUME NEW r \in Rule, NEW p \in Seq(Names), IsPrefix(r.origin, p)
  PROVE  /\ r.target # <<>> => RedirectPathOriginToTarget(r, p) # <<>>
         /\ RedirectPathOriginToTarget(r, p) = r.target <=> p = r.origin
<1> PICK q : q = RedirectPathOriginToTarget(r, p)
  OBVIOUS
<1> DEFINE k == Len(r.origin)  m == Len(r.target)
<1>1. /\ k \in Nat /\ m \in Nat /\ Len(p) \in Nat /\ k <= Len(p)
      /\ q \in Seq(Names) /\ Len(q) = m + (Len(p) - k)
      /\ \A i \in 1 .. m : q[i] = r.target[i]
  BY RedirectedElements
<1>2. r.target \in Seq(Names) /\ r.origin \in Seq(Names)
  BY PathsAssumption DEF Rule
<1>3. p = r.origin <=> k = Len(p)
  BY <1>2, ShorterPrefix, PrefixOfItself
<1>4. k = Len(p) <=> Len(q) = m
  <2> PICK l, n : l = Len(p) /\ n = Len(q)
    OBVIOUS
  <2>1. k \in Nat /\ m \in Nat /\ l \in Nat /\ n = m + (l - k)
    BY <1>1
  <2> HIDE DEF k, m
  <2> QED BY <2>1
<1>5. Len(q) = m => q = r.target
  BY <1>1, <1>2, SeqEqual
<1>6. r.target # <<>> => q # <<>>
  <2>1. ASSUME r.target # <<>> PROVE m >= 1
    BY <1>1, <1>2, <2>1, EmptySeq
  <2>2. q = <<>> => Len(q) = 0
    BY EmptySeq
  <2> QED BY <1>1, <2>1, <2>2
<1> QED BY <1>3, <1>4, <1>5, <1>6

\* The directory of a redirected path is the redirected directory.
LEMMA RedirectedFront ==
  ASSUME NEW r \in Rule, NEW p \in Seq(Names), IsPrefix(r.origin, p), p # r.origin, p # <<>>
  PROVE  /\ IsPrefix(r.origin, Front(p))
         /\ RedirectPathOriginToTarget(r, p) # <<>>
         /\ Front(RedirectPathOriginToTarget(r, p)) = RedirectPathOriginToTarget(r, Front(p))
<1>1. PICK f : f = Front(p)
  OBVIOUS
<1>2. PICK l, k, m, lf : l = Len(p) /\ k = Len(r.origin) /\ m = Len(r.target) /\ lf = Len(f)
  OBVIOUS
<1>3. /\ l \in Nat /\ f \in Seq(Names) /\ lf = l - 1 /\ l >= 1
      /\ \A i \in 1 .. l - 1 : f[i] = p[i]
  BY <1>1, <1>2, FrontElements
<1>4. IsPrefix(r.origin, f)
  BY <1>1, PathsAssumption, PrefixOfPathOrFront DEF Rule
<1>5. PICK q : q = RedirectPathOriginToTarget(r, p)
  OBVIOUS
<1>6. PICK g : g = RedirectPathOriginToTarget(r, f)
  OBVIOUS
<1>7. /\ k \in Nat /\ m \in Nat /\ k <= l
      /\ q \in Seq(Names) /\ Len(q) = m + (l - k)
      /\ \A i \in 1 .. m : q[i] = r.target[i]
      /\ \A i \in 1 .. l - k : q[m + i] = p[k + i]
  BY <1>2, <1>5, RedirectedElements
<1>8. /\ k <= lf
      /\ g \in Seq(Names) /\ Len(g) = m + (lf - k)
      /\ \A i \in 1 .. m : g[i] = r.target[i]
      /\ \A i \in 1 .. lf - k : g[m + i] = f[k + i]
  <2>1. f \in Seq(Names)
    BY <1>3
  <2> QED BY <1>2, <1>4, <1>6, <2>1, RedirectedElements
<1>9. PICK d : d \in Nat /\ d = lf - k
  BY <1>3, <1>7, <1>8
<1>10. /\ l - k = d + 1 /\ l - 1 = k + d /\ m + (l - k) = m + d + 1
       /\ m + (lf - k) = m + d /\ m + d + 1 - 1 = m + d /\ m + d + 1 # 0
  BY <1>3, <1>7, <1>8, <1>9
<1>11. q # <<>>
  BY <1>7, <1>10, EmptySeq
<1>12. /\ Front(q) \in Seq(Names) /\ Len(Front(q)) = m + d
       /\ \A i \in 1 .. m + d : Front(q)[i] = q[i]
  <2>1. /\ Front(q) \in Seq(Names) /\ Len(Front(q)) = Len(q) - 1
        /\ \A i \in 1 .. Len(q) - 1 : Front(q)[i] = q[i]
    BY <1>7, <1>11, FrontElements
  <2>2. Len(q) = m + d + 1
    BY <1>7, <1>10
  <2>3. Len(q) - 1 = m + d
    <3>1. m \in Nat /\ d \in Nat
      BY <1>7, <1>9
    <3> QED BY <2>2, <3>1
  <2> QED BY <2>1, <2>3
<1>13. Len(g) = m + d
  BY <1>8, <1>10
<1>14. ASSUME NEW i \in 1 .. m + d PROVE q[i] = g[i]
  <2>1. CASE i \in 1 .. m
    BY <1>7, <1>8, <2>1
  <2>2. CASE i \notin 1 .. m
    <3>1. PICK j : j \in Int /\ j = i - m
      BY <1>7
    <3>2. j \in 1 .. d /\ j \in 1 .. d + 1 /\ m + j = i /\ k + j \in 1 .. k + d
      BY <1>7, <1>9, <2>2, <3>1
    <3>3. j \in 1 .. l - k /\ j \in 1 .. lf - k /\ k + j \in 1 .. l - 1
      BY <1>9, <1>10, <3>2
    <3>4. q[m + j] = p[k + j]
      BY <1>7, <3>3
    <3>5. g[m + j] = f[k + j]
      BY <1>8, <3>3
    <3>6. f[k + j] = p[k + j]
      BY <1>3, <3>3
    <3> QED BY <3>2, <3>4, <3>5, <3>6
  <2> QED BY <2>1, <2>2
<1>15. Front(q) = g
  BY <1>8, <1>12, <1>13, <1>14, SeqEqual
<1> QED BY <1>1, <1>4, <1>5, <1>6, <1>11, <1>15

-----------------------------------------------------------------------------
(* The paths an application sees and the files they are at. *)

\* A redirected path is at a file below the target of its rule.
LEMMA PlaceBelowTarget ==
  ASSUME NEW R, ValidRules(R), NEW p \in Seq(Names), NEW r \in RuleFor(R, p)
  PROVE  /\ Place(R, p) \in Seq(Names) /\ Place(R, p) # <<>>
         /\ IsPrefix(r.target, Place(R, p))
         /\ Place(R, p) = r.target <=> p = r.origin
<1>1. /\ r \in Rule /\ IsPrefix(r.origin, p) /\ r.target # <<>>
      /\ Place(R, p) = RedirectPathOriginToTarget(r, p)
  BY RuleForFacts
<1> QED BY <1>1, RedirectedBelowTarget, RedirectedOrigin

LEMMA PlaceType ==
  ASSUME NEW R, ValidRules(R), NEW p \in Seq(Names)
  PROVE  /\ Place(R, p) \in Seq(Names)
         /\ Place(R, p) = <<>> <=> p = <<>>
<1>1. CASE RuleFor(R, p) = {}
  BY <1>1 DEF Place
<1>2. CASE RuleFor(R, p) # {}
  BY <1>2, PlaceBelowTarget, RuleForFacts
<1> QED BY <1>1, <1>2

\* What a rule makes of two paths is different.
LEMMA RedirectInjective ==
  ASSUME NEW r \in Rule, NEW p \in Seq(Names), NEW q \in Seq(Names),
         IsPrefix(r.origin, p), IsPrefix(r.origin, q),
         RedirectPathOriginToTarget(r, p) = RedirectPathOriginToTarget(r, q)
  PROVE  p = q
<1>1. PICK k, m, l, j : k = Len(r.origin) /\ m = Len(r.target) /\ l = Len(p) /\ j = Len(q)
  OBVIOUS
<1>2. PICK x : x = RedirectPathOriginToTarget(r, p)
  OBVIOUS
<1>3. /\ k \in Nat /\ m \in Nat /\ l \in Nat /\ k <= l /\ Len(x) = m + (l - k)
      /\ \A i \in 1 .. l - k : x[m + i] = p[k + i]
  BY <1>1, <1>2, RedirectedElements
<1>4. /\ k \in Nat /\ m \in Nat /\ j \in Nat /\ k <= j /\ Len(x) = m + (j - k)
      /\ \A i \in 1 .. j - k : x[m + i] = q[k + i]
  <2>1. x = RedirectPathOriginToTarget(r, q)
    BY <1>2
  <2> QED BY <1>1, <2>1, RedirectedElements
<1>5. l = j
  BY <1>3, <1>4
<1>6. r.origin \in Seq(Names)
  BY PathsAssumption DEF Rule
<1>7. \A i \in 1 .. k : r.origin[i] = p[i] /\ r.origin[i] = q[i]
  BY <1>1, <1>6, PrefixElements
<1>8. ASSUME NEW i \in 1 .. l PROVE p[i] = q[i]
  <2>1. CASE i \in 1 .. k
    BY <1>7, <2>1
  <2>2. CASE i \notin 1 .. k
    <3>1. PICK h : h \in Int /\ h = i - k
      BY <1>3
    <3>2. h \in 1 .. l - k /\ h \in 1 .. j - k /\ k + h = i
      BY <1>3, <1>4, <1>5, <2>2, <3>1
    <3> QED BY <1>3, <1>4, <3>2
  <2> QED BY <2>1, <2>2
<1> QED BY <1>1, <1>5, <1>8, SeqEqual

\* Two paths of the application are at different files.
LEMMA PlaceInjective ==
  ASSUME NEW R, ValidRules(R), NEW p \in VisibleUnder(R), NEW q \in VisibleUnder(R),
         Place(R, p) = Place(R, q)
  PROVE  p = q
<1>1. p \in Seq(Names) /\ q \in Seq(Names)
  BY PathsAssumption DEF VisibleUnder
<1>2. \A r \in R : ~IsPrefix(r.target, p) /\ ~IsPrefix(r.target, q)
  BY DEF VisibleUnder
<1>3. CASE RuleFor(R, p) = {} /\ RuleFor(R, q) = {}
  BY <1>3 DEF Place
<1>4. CASE RuleFor(R, p) = {} /\ RuleFor(R, q) # {}
  <2>1. Place(R, p) = p
    BY <1>4 DEF Place
  <2>2. PICK r \in RuleFor(R, q) : r \in R /\ IsPrefix(r.target, Place(R, q))
    BY <1>1, <1>4, PlaceBelowTarget, RuleForFacts
  <2> QED BY <1>2, <2>1, <2>2
<1>5. CASE RuleFor(R, p) # {} /\ RuleFor(R, q) = {}
  <2>1. Place(R, q) = q
    BY <1>5 DEF Place
  <2>2. PICK r \in RuleFor(R, p) : r \in R /\ IsPrefix(r.target, Place(R, p))
    BY <1>1, <1>5, PlaceBelowTarget, RuleForFacts
  <2> QED BY <1>2, <2>1, <2>2
<1>6. CASE RuleFor(R, p) # {} /\ RuleFor(R, q) # {}
  <2>1. PICK r \in RuleFor(R, p), s \in RuleFor(R, q) : TRUE
    BY <1>6
  <2>2. /\ r \in R /\ r \in Rule /\ IsPrefix(r.origin, p)
        /\ Place(R, p) = RedirectPathOriginToTarget(r, p)
    BY <1>1, <2>1, RuleForFacts
  <2>3. /\ s \in R /\ s \in Rule /\ IsPrefix(s.origin, q)
        /\ Place(R, q) = RedirectPathOriginToTarget(s, q)
    BY <1>1, <2>1, RuleForFacts
  <2>4. /\ Place(R, p) \in Seq(Names)
        /\ IsPrefix(r.target, Place(R, p)) /\ IsPrefix(s.target, Place(R, p))
    BY <1>1, <2>1, PlaceBelowTarget
  <2>5. r = s
    BY <2>2, <2>3, <2>4, OneTargetAbove
  <2> QED BY <1>1, <2>2, <2>3, <2>5, RedirectInjective
<1> QED BY <1>3, <1>4, <1>5, <1>6

\* The directory of a redirected path that the application sees is seen too.
LEMMA FrontOfRedirectedVisible ==
  ASSUME NEW R, ValidRules(R), RulesApart(R), NEW p \in VisibleUnder(R), RuleFor(R, p) # {}
  PROVE  Front(p) \in VisibleUnder(R)
<1>1. p \in Paths /\ p \in Seq(Names)
  BY PathsAssumption DEF VisibleUnder
<1>2. PICK r \in RuleFor(R, p) : p # <<>> /\ r \in R /\ IsPrefix(r.origin, p) /\ r.origin \in Seq(Names)
  BY <1>1, RuleForFacts
<1>3. Front(p) \in Paths /\ Front(p) \in Seq(Names) /\ IsPrefix(Front(p), p)
  BY <1>1, <1>2, PathsAssumption, PrefixOfFront DEF PathsClosed
<1>4. ASSUME NEW s \in R PROVE s.target \in Seq(Names)
  BY PathsAssumption DEF ValidRules, Rule
<1>5. ASSUME NEW s \in R PROVE ~IsPrefix(s.target, Front(p))
  BY <1>1, <1>3, <1>4, PrefixTransitive DEF VisibleUnder
<1>6. ASSUME NEW s \in R, IsPrefix(Front(p), s.target) PROVE IsPrefixForAnyRule(R, Front(p))
  <2>1. CASE p = r.origin
    BY <1>2, <1>3, <2>1 DEF IsPrefixForAnyRule
  <2>2. CASE p # r.origin
    <3>1. IsPrefix(r.origin, Front(p))
      BY <1>1, <1>2, <2>2, PrefixOfPathOrFront
    <3>2. IsPrefix(r.origin, s.target)
      BY <1>2, <1>3, <1>4, <1>6, <3>1, PrefixTransitive
    <3> QED BY <1>2, <3>2 DEF RulesApart
  <2> QED BY <2>1, <2>2
<1> QED BY <1>3, <1>5, <1>6 DEF VisibleUnder

\* Above or at a target, the application sees only what is above an origin
\* directory, and the target as that directory.
LEMMA VisibleAboveTarget ==
  ASSUME NEW R, ValidRules(R), NEW p \in VisibleUnder(R), NEW s \in R,
         IsPrefix(Place(R, p), s.target)
  PROVE  \/ /\ RuleFor(R, p) = {} /\ Place(R, p) = p
            /\ p \notin Origins(R) /\ IsPrefixForAnyRule(R, p)
         \/ RuleFor(R, p) = {s} /\ p = s.origin /\ Place(R, p) = s.target
<1>1. p \in Paths /\ p \in Seq(Names)
  BY PathsAssumption DEF VisibleUnder
<1>2. CASE RuleFor(R, p) = {}
  <2>1. Place(R, p) = p
    BY <1>2 DEF Place
  <2>2. p \notin Origins(R)
    BY <1>2, OriginRule
  <2> QED BY <1>2, <2>1, <2>2 DEF VisibleUnder
<1>3. CASE RuleFor(R, p) # {}
  <2>1. PICK r \in RuleFor(R, p) : TRUE
    BY <1>3
  <2>2. r \in R /\ RuleFor(R, p) = {r} /\ r.target \in Seq(Names)
    BY <1>1, <2>1, RuleForFacts
  <2>3. /\ Place(R, p) \in Seq(Names) /\ IsPrefix(r.target, Place(R, p))
        /\ Place(R, p) = r.target <=> p = r.origin
    BY <1>1, <2>1, PlaceBelowTarget
  <2>4. s.target \in Seq(Names)
    BY PathsAssumption DEF ValidRules, Rule
  <2>5. IsPrefix(r.target, s.target)
    BY <2>2, <2>3, <2>4, PrefixTransitive
  <2>6. r.target = s.target
    BY <2>2, <2>5 DEF ValidRules, IsStrictPrefix
  <2>7. r = s
    BY <2>2, <2>6 DEF ValidRules
  <2>8. Place(R, p) = s.target
    <3>1. Len(Place(R, p)) <= Len(s.target) /\ Len(s.target) <= Len(Place(R, p))
          /\ Len(Place(R, p)) \in Nat /\ Len(s.target) \in Nat
      BY <2>2, <2>3, <2>4, <2>7, PrefixElements
    <3> QED BY <2>3, <2>4, <3>1, ShorterPrefix, PrefixOfItself
  <2> QED BY <2>2, <2>3, <2>7, <2>8
<1> QED BY <1>2, <1>3

-----------------------------------------------------------------------------
(* What lies above a path. *)

LEMMA PathsAbove ==
  ASSUME NEW p \in Paths, NEW a \in Seq(Names), IsPrefix(a, p)
  PROVE  a \in Paths
<1> DEFINE S == {k \in Nat : \A q \in Paths : IsPrefix(a, q) /\ Len(q) = Len(a) + k => a \in Paths}
<1>1. Paths \subseteq Seq(Names)
  BY PathsAssumption
<1>2. Len(a) \in Nat /\ Len(p) \in Nat /\ Len(a) <= Len(p)
  BY <1>1, PrefixElements
<1>3. 0 \in S
  <2>1. ASSUME NEW q \in Paths, IsPrefix(a, q), Len(q) = Len(a) + 0 PROVE a \in Paths
    <3>1. q \in Seq(Names) /\ IsPrefix(q, q) /\ Len(a) = Len(q) /\ Len(a) <= Len(q)
      BY <1>1, <1>2, <2>1, PrefixOfItself
    <3>2. a = q
      BY <2>1, <3>1, ShorterPrefix
    <3> QED BY <3>2
  <2> QED BY <2>1
<1>4. ASSUME NEW k \in Nat, k \in S PROVE k + 1 \in S
  <2>1. ASSUME NEW q \in Paths, IsPrefix(a, q), Len(q) = Len(a) + (k + 1) PROVE a \in Paths
    <3>1. q \in Seq(Names) /\ q # <<>> /\ a # q
      BY <1>1, <1>2, <2>1, EmptySeq
    <3>2. Front(q) \in Paths /\ IsPrefix(a, Front(q))
      BY <2>1, <3>1, PrefixOfPathOrFront, PathsAssumption DEF PathsClosed
    <3>3. Len(Front(q)) = Len(q) - 1
      BY <3>1, FrontElements
    <3>4. Len(Front(q)) = Len(a) + k
      BY <1>2, <2>1, <3>3
    <3> QED BY <1>4, <3>2, <3>4
  <2> QED BY <2>1
<1> HIDE DEF S
<1>5. Nat \subseteq S
  BY <1>3, <1>4, Numbers
<1>6. Len(p) - Len(a) \in S /\ Len(p) = Len(a) + (Len(p) - Len(a))
  BY <1>2, <1>5
<1> QED BY <1>6 DEF S

\* What is above a directory is a directory.
LEMMA DirectoriesAbove ==
  ASSUME NEW F \in [Paths -> Kinds], Consistent(F), NEW p \in Paths, F[p] = "dir",
         NEW a \in Seq(Names), IsPrefix(a, p)
  PROVE  a \in Paths /\ F[a] = "dir"
<1> DEFINE S == {k \in Nat : \A q \in Paths :
                   IsPrefix(a, q) /\ F[q] = "dir" /\ Len(q) = Len(a) + k => F[a] = "dir"}
<1>1. Paths \subseteq Seq(Names)
  BY PathsAssumption
<1>2. Len(a) \in Nat /\ Len(p) \in Nat /\ Len(a) <= Len(p)
  BY <1>1, PrefixElements
<1>3. 0 \in S
  <2>1. ASSUME NEW q \in Paths, IsPrefix(a, q), F[q] = "dir", Len(q) = Len(a) + 0
        PROVE  F[a] = "dir"
    <3>1. q \in Seq(Names) /\ IsPrefix(q, q) /\ Len(a) = Len(q) /\ Len(a) <= Len(q)
      BY <1>1, <1>2, <2>1, PrefixOfItself
    <3>2. a = q
      BY <2>1, <3>1, ShorterPrefix
    <3> QED BY <2>1, <3>2
  <2> QED BY <2>1
<1>4. ASSUME NEW k \in Nat, k \in S PROVE k + 1 \in S
  <2>1. ASSUME NEW q \in Paths, IsPrefix(a, q), F[q] = "dir", Len(q) = Len(a) + (k + 1)
        PROVE  F[a] = "dir"
    <3>1. q \in Seq(Names) /\ q # <<>> /\ a # q
      BY <1>1, <1>2, <2>1, EmptySeq
    <3>2. Front(q) \in Paths /\ IsPrefix(a, Front(q))
      BY <2>1, <3>1, PrefixOfPathOrFront, PathsAssumption DEF PathsClosed
    <3>3. F[Front(q)] = "dir"
      BY <2>1, <3>1, <3>2 DEF Consistent, Exists, IsDirectory, At
    <3>4. Len(Front(q)) = Len(q) - 1
      BY <3>1, FrontElements
    <3>5. Len(Front(q)) = Len(a) + k
      BY <1>2, <2>1, <3>4
    <3> QED BY <1>4, <3>2, <3>3, <3>5
  <2> QED BY <2>1
<1> HIDE DEF S
<1>5. Nat \subseteq S
  BY <1>3, <1>4, Numbers
<1>6. Len(p) - Len(a) \in S /\ Len(p) = Len(a) + (Len(p) - Len(a))
  BY <1>2, <1>5
<1> QED BY <1>6, PathsAbove DEF S

\* What is above an origin directory is a directory, or one itself.
LEMMA OriginsAbove ==
  ASSUME NEW R, ValidRules(R), NEW F, ValidFiles(R, F),
         NEW p \in Paths \ Origins(R), IsPrefixForAnyRule(R, p)
  PROVE  F[p] = "dir"
<1> DEFINE S == {k \in Nat : \A o \in Origins(R) :
                   IsPrefix(p, o) /\ Len(o) = Len(p) + k => F[p] = "dir"}
<1>1. p \in Seq(Names) /\ F \in [Paths -> Kinds] /\ Consistent(F)
  BY PathsAssumption DEF ValidFiles
<1>2. ASSUME NEW o \in Origins(R)
      PROVE  /\ o \in Paths /\ o \in Seq(Names) /\ o # <<>> /\ Front(o) \in Paths
             /\ IsDirectory(F, Front(o)) \/ Front(o) \in Origins(R)
  BY PathsAssumption, OriginRule DEF ValidFiles, Origins, PathsClosed
<1>3. PICK o \in Origins(R) : IsPrefix(p, o)
  BY DEF IsPrefixForAnyRule, Origins
<1>4. Len(p) \in Nat /\ Len(o) \in Nat /\ Len(p) <= Len(o)
  BY <1>1, <1>2, <1>3, PrefixElements
<1>5. 0 \in S
  <2>1. ASSUME NEW q \in Origins(R), IsPrefix(p, q), Len(q) = Len(p) + 0 PROVE FALSE
    <3>1. q \in Seq(Names) /\ IsPrefix(q, q) /\ Len(p) = Len(q) /\ Len(p) <= Len(q)
      BY <1>2, <1>4, <2>1, PrefixOfItself
    <3>2. p = q
      BY <1>1, <2>1, <3>1, ShorterPrefix
    <3> QED BY <3>2
  <2> QED BY <2>1
<1>6. ASSUME NEW k \in Nat, k \in S PROVE k + 1 \in S
  <2>1. ASSUME NEW q \in Origins(R), IsPrefix(p, q), Len(q) = Len(p) + (k + 1)
        PROVE  F[p] = "dir"
    <3>1. q \in Seq(Names) /\ q # <<>> /\ p # q
      BY <1>2
    <3>2. Front(q) \in Paths /\ IsPrefix(p, Front(q))
      BY <1>1, <1>2, <2>1, <3>1, PrefixOfPathOrFront
    <3>3. CASE IsDirectory(F, Front(q))
      BY <1>1, <3>2, <3>3, DirectoriesAbove DEF IsDirectory, At
    <3>4. CASE Front(q) \in Origins(R)
      <4>1. Len(Front(q)) = Len(q) - 1
        BY <3>1, FrontElements
      <4>2. Len(Front(q)) = Len(p) + k
        BY <1>4, <2>1, <4>1
      <4> QED BY <1>6, <3>2, <3>4, <4>2
    <3> QED BY <1>2, <3>3, <3>4
  <2> QED BY <2>1
<1> HIDE DEF S
<1>7. Nat \subseteq S
  BY <1>5, <1>6, Numbers
<1>8. Len(o) - Len(p) \in S /\ Len(o) = Len(p) + (Len(o) - Len(p))
  BY <1>4, <1>7
<1> QED BY <1>3, <1>8 DEF S

-----------------------------------------------------------------------------
(* The filesystem that the application sees, under rules in simple mode. *)

\* Rules and files to start with as OrdinaryUse asks for.
Suitable(R, F, App) ==
  /\ ValidRules(R) /\ ValidFiles(R, F) /\ RulesApart(R)
  /\ App \subseteq Paths /\ KeepsToVisible(R, App)
  /\ NothingBeside(R, F) /\ NothingHidden(R, F) /\ TargetsClear(R, F) /\ OriginsExist(R, F)

\* What remains of the files F to start with: the origin side where it is
\* redirected, the way to the targets and the way to the origin directories.
FilesKept(R, F, G) ==
  /\ G \in [Paths -> Kinds]
  /\ \A p \in Paths : RuleFor(R, p) # {} => G[p] = F[p]
  /\ \A r \in R, p \in Paths : IsPrefix(p, r.target) =>
       G[p] # "file" /\ (F[p] = "dir" => G[p] = "dir")
  /\ \A p \in Paths \ Origins(R) : IsPrefixForAnyRule(R, p) => G[p] = "dir"

ViewOf(R, G) ==
  [p \in VisibleUnder(R) |-> IF p \in Origins(R) THEN "dir" ELSE At(G, Place(R, p))]

LEMMA SuitableFacts ==
  ASSUME NEW R, NEW F, NEW App, Suitable(R, F, App)
  PROVE  /\ ValidRules(R) /\ RulesApart(R) /\ F \in [Paths -> Kinds] /\ Consistent(F)
         /\ F[<<>>] = "dir" /\ <<>> \in Paths /\ Paths \subseteq Seq(Names)
         /\ \A n \in App : /\ n \in Paths /\ n \in Seq(Names) /\ n \in VisibleUnder(R)
                           /\ Place(R, n) \in Paths
                           /\ n # <<>> => Front(n) \in VisibleUnder(R)
         /\ \A r \in R : r.target \in Paths /\ r.target \in Seq(Names) /\ r.target # <<>>
BY PathsAssumption
   DEF Suitable, ValidFiles, KeepsToVisible, IsDirectory, At, ValidRules, Rule

LEMMA KeptAtStart ==
  ASSUME NEW R, NEW F, NEW App, Suitable(R, F, App)
  PROVE  FilesKept(R, F, F)
<1>1. \A p \in Paths \ Origins(R) : IsPrefixForAnyRule(R, p) => F[p] = "dir"
  BY OriginsAbove DEF Suitable
<1>2. F \in [Paths -> Kinds]
  BY SuitableFacts
<1>3. \A r \in R, p \in Paths : IsPrefix(p, r.target) => F[p] # "file"
  BY <1>2 DEF Suitable, TargetsClear, At
<1> QED BY <1>1, <1>2, <1>3 DEF FilesKept

\* An origin directory is a directory on one of the two sides.
LEMMA OriginKept ==
  ASSUME NEW R, NEW F, NEW App, Suitable(R, F, App), NEW G, FilesKept(R, F, G),
         NEW o \in Origins(R)
  PROVE  /\ IsDirectory(G, o) \/ IsDirectory(G, Place(R, o))
         /\ \A p \in Paths : p # <<>> /\ Front(p) = o /\ RuleFor(R, p) = {} => IsDirectory(G, o)
<1>1. ValidRules(R) /\ F \in [Paths -> Kinds] /\ G \in [Paths -> Kinds]
  BY SuitableFacts DEF FilesKept
<1>2. o \in Paths /\ o \in Seq(Names) /\ RuleFor(R, o) # {}
  BY <1>1, OriginRule
<1>3. G[o] = F[o]
  BY <1>2 DEF FilesKept
<1>4. IsDirectory(F, o) => IsDirectory(G, o)
  BY <1>1, <1>2, <1>3 DEF IsDirectory, At
<1>5. ASSUME IsDirectory(F, Place(R, o)) PROVE IsDirectory(G, Place(R, o))
  <2>1. PICK r \in RuleFor(R, o) : TRUE
    BY <1>2
  <2>2. r.origin = o /\ r \in R /\ r.target \in Seq(Names)
    BY <1>1, <1>2, <2>1, OriginRule, RuleForFacts
  <2>3. Place(R, o) = r.target
    BY <1>1, <1>2, <2>1, <2>2, PlaceBelowTarget
  <2>4. r.target \in Paths /\ IsPrefix(r.target, r.target)
    BY <2>2, PrefixOfItself, SuitableFacts
  <2> QED BY <1>1, <1>5, <2>2, <2>3, <2>4 DEF FilesKept, IsDirectory, At
<1> QED BY <1>4, <1>5 DEF Suitable, OriginsExist

\* The directory of a file is the file of the directory, but right below an
\* origin directory, where it is the target directory.
LEMMA FrontOfPlace ==
  ASSUME NEW R, ValidRules(R), NEW p \in Seq(Names), p # <<>>,
         p \notin Origins(R), Front(p) \notin Origins(R)
  PROVE  Place(R, p) # <<>> /\ Front(Place(R, p)) = Place(R, Front(p))
<1>1. RuleFor(R, p) = RuleFor(R, Front(p))
  BY RuleForFront
<1>2. CASE RuleFor(R, p) = {}
  BY <1>1, <1>2 DEF Place
<1>3. CASE RuleFor(R, p) # {}
  <2>1. PICK r \in RuleFor(R, p) : TRUE
    BY <1>3
  <2>2. /\ r \in R /\ r \in Rule /\ IsPrefix(r.origin, p)
        /\ Place(R, p) = RedirectPathOriginToTarget(r, p)
    BY <2>1, RuleForFacts
  <2>3. Front(p) \in Seq(Names)
    BY FrontElements
  <2>4. Place(R, Front(p)) = RedirectPathOriginToTarget(r, Front(p))
    BY <1>1, <2>1, <2>3, RuleForFacts
  <2>5. p # r.origin
    BY <2>2 DEF Origins
  <2> QED BY <2>2, <2>4, <2>5, RedirectedFront
<1> QED BY <1>2, <1>3

LEMMA FrontOfPlaceBelowOrigin ==
  ASSUME NEW R, ValidRules(R), NEW p \in Seq(Names), p \notin Origins(R),
         Front(p) \in Origins(R), NEW r \in RuleFor(R, p)
  PROVE  r.origin = Front(p) /\ Front(Place(R, p)) = r.target
<1>1. /\ r \in R /\ r \in Rule /\ IsPrefix(r.origin, p) /\ p # <<>>
      /\ Place(R, p) = RedirectPathOriginToTarget(r, p)
  BY RuleForFacts
<1>2. r.origin = Front(p)
  BY RuleBelowOrigin
<1>3. p # r.origin
  BY <1>1 DEF Origins
<1>4. Front(Place(R, p)) = RedirectPathOriginToTarget(r, Front(p)) /\ IsPrefix(r.origin, Front(p))
  BY <1>1, <1>3, RedirectedFront
<1>5. RedirectPathOriginToTarget(r, Front(p)) = r.target
  BY <1>1, <1>2, <1>4, FrontElements, RedirectedOrigin
<1> QED BY <1>2, <1>4, <1>5

\* To start with, the application sees a filesystem.
LEMMA ViewConsistent ==
  ASSUME NEW R, NEW F, NEW App, Suitable(R, F, App)
  PROVE  Consistent(ViewOf(R, F))
<1> SUFFICES ASSUME NEW q \in VisibleUnder(R), q # <<>>, ViewOf(R, F)[q] # "none"
             PROVE  Front(q) \in VisibleUnder(R) /\ ViewOf(R, F)[Front(q)] = "dir"
  BY DEF Consistent, Exists, IsDirectory, At, ViewOf
<1>1. /\ ValidRules(R) /\ RulesApart(R) /\ F \in [Paths -> Kinds] /\ Consistent(F)
      /\ Paths \subseteq Seq(Names)
  BY SuitableFacts
<1>2. q \in Paths /\ q \in Seq(Names)
  BY <1>1 DEF VisibleUnder
<1>3. q \notin Origins(R) => At(F, Place(R, q)) # "none"
  BY DEF ViewOf
<1>4. Front(q) \in VisibleUnder(R)
  <2>1. CASE RuleFor(R, q) # {}
    BY <1>1, <2>1, FrontOfRedirectedVisible
  <2>2. CASE RuleFor(R, q) = {}
    <3>1. q \notin Origins(R)
      BY <1>1, <2>2, OriginRule
    <3>2. Exists(F, q)
      BY <1>3, <2>2, <3>1 DEF Place, Exists
    <3> QED BY <3>2 DEF Suitable, NothingBeside
  <2> QED BY <2>1, <2>2
<1>5. CASE Front(q) \in Origins(R)
  BY <1>4, <1>5 DEF ViewOf
<1>6. CASE Front(q) \notin Origins(R) /\ q \in Origins(R)
  <2>1. PICK r \in R : r.origin = q
    BY <1>6 DEF Origins
  <2>2. IsDirectory(F, Front(q))
    BY <1>6, <2>1 DEF Suitable, ValidFiles
  <2>3. Front(q) \in Paths
    BY <1>4 DEF VisibleUnder
  <2>4. RuleFor(R, Front(q)) = {}
    BY <1>6, <2>2, <2>3 DEF Suitable, NothingHidden
  <2> QED BY <1>4, <1>6, <2>2, <2>4 DEF ViewOf, Place, IsDirectory
<1>7. CASE Front(q) \notin Origins(R) /\ q \notin Origins(R)
  <2>1. Place(R, q) # <<>> /\ Front(Place(R, q)) = Place(R, Front(q))
    BY <1>1, <1>2, <1>7, FrontOfPlace
  <2>2. IsDirectory(F, Front(Place(R, q)))
    BY <1>1, <1>3, <1>7, <2>1 DEF Consistent, Exists, At
  <2> QED BY <1>4, <1>7, <2>1, <2>2 DEF ViewOf, IsDirectory
<1> QED BY <1>4, <1>5, <1>6, <1>7

-----------------------------------------------------------------------------
(* What may change. *)

\* A created file is that of a path of the application, or a directory above a
\* target; what disappears was a file or lies below no rule.
SoundChange(R, App, G, H) ==
  /\ H \in [Paths -> Kinds]
  /\ \A p \in Paths : H[p] # G[p] =>
       \/ \E n \in App : /\ p = Place(R, n) /\ G[p] = "none"
                         /\ n \in Origins(R) => H[p] = "dir"
       \/ \E r \in R : IsPrefix(p, r.target) /\ G[p] = "none" /\ H[p] = "dir"
       \/ \E n \in App : /\ p = Place(R, n) /\ H[p] = "none"
                         /\ ~IsPrefixForAnyRule(R, n) \/ G[p] = "file"

\* No rule redirects a path of the target side, nor one above it.
LEMMA NoRuleOnTargetSide ==
  ASSUME NEW R, ValidRules(R), RulesApart(R), NEW r \in R,
         NEW p \in Seq(Names), NEW q \in Seq(Names), IsPrefix(p, q), IsPrefix(r.target, q)
  PROVE  RuleFor(R, p) = {}
<1> SUFFICES ASSUME NEW s \in RuleFor(R, p) PROVE FALSE
  OBVIOUS
<1>1. s \in R /\ IsPrefix(s.origin, p) /\ s.origin \in Seq(Names)
  BY RuleForFacts
<1>2. r.target \in Seq(Names)
  BY PathsAssumption DEF ValidRules, Rule
<1>3. IsPrefix(s.origin, q)
  BY <1>1, PrefixTransitive
<1>4. IsPrefix(s.origin, r.target) \/ IsPrefix(r.target, s.origin)
  BY <1>1, <1>2, <1>3, PrefixesComparable
<1> QED BY <1>1, <1>4 DEF RulesApart

LEMMA NoRuleAtPlace ==
  ASSUME NEW R, ValidRules(R), RulesApart(R), NEW n \in Seq(Names)
  PROVE  RuleFor(R, Place(R, n)) = {}
<1>1. CASE RuleFor(R, n) = {}
  BY <1>1 DEF Place
<1>2. CASE RuleFor(R, n) # {}
  <2>1. PICK r \in RuleFor(R, n) : r \in R
    BY <1>2, RuleForFacts
  <2>2. Place(R, n) \in Seq(Names) /\ IsPrefix(r.target, Place(R, n))
    BY <2>1, PlaceBelowTarget
  <2> QED BY <2>1, <2>2, PrefixOfItself, NoRuleOnTargetSide
<1> QED BY <1>1, <1>2

LEMMA KeptByChange ==
  ASSUME NEW R, NEW F, NEW App, Suitable(R, F, App), NEW G, FilesKept(R, F, G),
         NEW H, SoundChange(R, App, G, H)
  PROVE  /\ FilesKept(R, F, H)
         /\ \A r \in R, p \in Paths : IsPrefix(p, r.target) /\ G[p] = "dir" => H[p] = "dir"
<1>1. /\ ValidRules(R) /\ RulesApart(R) /\ Paths \subseteq Seq(Names)
      /\ \A n \in App : n \in Seq(Names) /\ n \in VisibleUnder(R) /\ Place(R, n) \in Paths
      /\ \A r \in R : r.target \in Seq(Names)
  BY SuitableFacts
<1>2. ASSUME NEW p \in Paths, RuleFor(R, p) # {} PROVE H[p] = G[p]
  <2>1. \A n \in App : p # Place(R, n)
    BY <1>1, <1>2, NoRuleAtPlace
  <2>2. \A r \in R : ~IsPrefix(p, r.target)
    BY <1>1, <1>2, PrefixOfItself, NoRuleOnTargetSide
  <2> QED BY <2>1, <2>2 DEF SoundChange
<1>3. ASSUME NEW r \in R, NEW p \in Paths, IsPrefix(p, r.target), H[p] # G[p]
      PROVE  G[p] = "none" /\ H[p] = "dir"
  <2>1. ASSUME NEW n \in App, p = Place(R, n)
        PROVE  \/ G[p] = "dir" /\ IsPrefixForAnyRule(R, n)
               \/ n \in Origins(R) /\ IsPrefixForAnyRule(R, n)
    <3>1. \/ /\ RuleFor(R, n) = {} /\ Place(R, n) = n
             /\ n \notin Origins(R) /\ IsPrefixForAnyRule(R, n)
          \/ RuleFor(R, n) = {r} /\ n = r.origin /\ Place(R, n) = r.target
      BY <1>1, <1>3, <2>1, VisibleAboveTarget
    <3>2. n = r.origin => n \in Origins(R) /\ IsPrefixForAnyRule(R, n)
      BY <1>1, PrefixOfItself DEF Origins, IsPrefixForAnyRule
    <3> QED BY <2>1, <3>1, <3>2 DEF FilesKept
  <2>2. G[p] # "file"
    BY <1>3 DEF FilesKept
  <2>3. \/ \E n \in App : /\ p = Place(R, n) /\ G[p] = "none"
                          /\ n \in Origins(R) => H[p] = "dir"
        \/ \E s \in R : IsPrefix(p, s.target) /\ G[p] = "none" /\ H[p] = "dir"
        \/ \E n \in App : /\ p = Place(R, n) /\ H[p] = "none"
                          /\ ~IsPrefixForAnyRule(R, n) \/ G[p] = "file"
    BY <1>3 DEF SoundChange
  <2> QED BY <2>1, <2>2, <2>3
<1>4. ASSUME NEW p \in Paths \ Origins(R), IsPrefixForAnyRule(R, p) PROVE H[p] = G[p]
  <2>1. G[p] = "dir"
    BY <1>4 DEF FilesKept
  <2>2. ASSUME NEW n \in App, p = Place(R, n) PROVE IsPrefixForAnyRule(R, n)
    <3>1. RuleFor(R, n) = {}
      <4>1. SUFFICES ASSUME NEW r \in RuleFor(R, n) PROVE FALSE
        OBVIOUS
      <4>2. r \in R /\ IsPrefix(r.target, p) /\ p \in Seq(Names)
        BY <1>1, <2>2, <4>1, PlaceBelowTarget, RuleForFacts
      <4>3. PICK s \in R : IsPrefix(p, s.origin)
        BY <1>4 DEF IsPrefixForAnyRule
      <4>4. s.origin \in Seq(Names)
        BY <1>1 DEF ValidRules, Rule
      <4>5. IsPrefix(r.target, s.origin)
        BY <1>1, <4>2, <4>3, <4>4, PrefixTransitive
      <4> QED BY <1>1, <4>2, <4>5 DEF RulesApart
    <3>2. p = n
      BY <2>2, <3>1 DEF Place
    <3> QED BY <1>4, <3>2
  <2> QED BY <2>1, <2>2 DEF SoundChange
<1>5. H \in [Paths -> Kinds]
  BY DEF SoundChange
<1>6. FilesKept(R, F, H)
  <2>1. \A p \in Paths : RuleFor(R, p) # {} => H[p] = F[p]
    BY <1>2 DEF FilesKept
  <2>2. \A r \in R, p \in Paths : IsPrefix(p, r.target) =>
          H[p] # "file" /\ (F[p] = "dir" => H[p] = "dir")
    BY <1>3 DEF FilesKept
  <2>3. \A p \in Paths \ Origins(R) : IsPrefixForAnyRule(R, p) => H[p] = "dir"
    BY <1>4 DEF FilesKept
  <2> QED BY <1>5, <2>1, <2>2, <2>3 DEF FilesKept
<1>7. \A r \in R, p \in Paths : IsPrefix(p, r.target) /\ G[p] = "dir" => H[p] = "dir"
  BY <1>3
<1> QED BY <1>6, <1>7

-----------------------------------------------------------------------------
(* What an operation on a file does to the view. *)

LEMMA ViewFacts ==
  ASSUME NEW R, NEW G, NEW p \in VisibleUnder(R)
  PROVE  /\ p \in DOMAIN ViewOf(R, G) /\ p \in Paths
         /\ At(ViewOf(R, G), p) = IF p \in Origins(R) THEN "dir" ELSE At(G, Place(R, p))
BY DEF ViewOf, At, VisibleUnder

LEMMA AtKind ==
  ASSUME NEW G \in [Paths -> Kinds], NEW p
  PROVE  At(G, p) \in Kinds /\ (p \in Paths => At(G, p) = G[p]) /\ (p \notin Paths => At(G, p) = "none")
BY DEF At, Kinds

\* Directories that lead to a target are not seen.
LEMMA ViewWithoutTargetSide ==
  ASSUME NEW R, NEW F, NEW App, Suitable(R, F, App), NEW G, FilesKept(R, F, G),
         NEW H \in [Paths -> Kinds],
         \A p \in Paths : H[p] # G[p] =>
           G[p] = "none" /\ \E r \in R : IsPrefix(p, r.target)
  PROVE  ViewOf(R, H) = ViewOf(R, G)
<1>1. ValidRules(R) /\ G \in [Paths -> Kinds]
  BY SuitableFacts DEF FilesKept
<1>2. ASSUME NEW q \in VisibleUnder(R), q \notin Origins(R)
      PROVE  At(H, Place(R, q)) = At(G, Place(R, q))
  <2>1. PICK p : p = Place(R, q)
    OBVIOUS
  <2>2. ASSUME p \in Paths, H[p] # G[p] PROVE FALSE
    <3>1. PICK r \in R : G[p] = "none" /\ IsPrefix(p, r.target)
      BY <2>2
    <3>2. \/ /\ RuleFor(R, q) = {} /\ Place(R, q) = q
             /\ q \notin Origins(R) /\ IsPrefixForAnyRule(R, q)
          \/ RuleFor(R, q) = {r} /\ q = r.origin /\ Place(R, q) = r.target
      BY <1>1, <2>1, <3>1, VisibleAboveTarget
    <3>3. q # r.origin
      BY <1>2 DEF Origins
    <3>4. G[p] = "dir"
      BY <1>2, <2>1, <2>2, <3>2, <3>3 DEF FilesKept
    <3> QED BY <3>1, <3>4
  <2> QED BY <1>1, <2>1, <2>2, AtKind
<1> QED BY <1>2 DEF ViewOf

\* A directory that has to be there before an operation on the path n.
Needed(R, n, creates, p) ==
  \E r \in RuleFor(R, n) :
    \/ creates /\ n = r.origin /\ p = Front(r.target)
    \/ creates /\ n # r.origin /\ Front(n) = r.origin /\ p = r.target
    \/ ~creates /\ n = r.origin /\ p = r.target

Ready(R, G, n, creates) == \A p \in Paths : Needed(R, n, creates, p) => IsDirectory(G, p)

\* Below the origins, something can be created at a path when it can at its file.
LEMMA CreatableOnView ==
  ASSUME NEW R, NEW F, NEW App, Suitable(R, F, App), NEW G, FilesKept(R, F, G),
         NEW n \in App, n \notin Origins(R), Ready(R, G, n, TRUE), NEW op
  PROVE  CanCreate(ViewOf(R, G), op, n) <=> CanCreate(G, op, Place(R, n))
<1>1. /\ ValidRules(R) /\ RulesApart(R) /\ Paths \subseteq Seq(Names)
      /\ n \in Paths /\ n \in Seq(Names) /\ n \in VisibleUnder(R) /\ Place(R, n) \in Paths
      /\ n # <<>> => Front(n) \in VisibleUnder(R)
      /\ \A r \in R : r.target \in Paths
      /\ G \in [Paths -> Kinds] /\ DOMAIN G = Paths /\ DOMAIN ViewOf(R, G) = VisibleUnder(R)
  BY SuitableFacts DEF FilesKept, ViewOf
<1>2. Place(R, n) = <<>> <=> n = <<>>
  BY <1>1, PlaceType
<1>3. ASSUME n # <<>>
      PROVE  IsDirectory(ViewOf(R, G), Front(n)) <=> IsDirectory(G, Front(Place(R, n)))
  <2>1. Front(n) \in VisibleUnder(R)
    BY <1>1, <1>3
  <2>2. CASE Front(n) \notin Origins(R)
    <3>1. Front(Place(R, n)) = Place(R, Front(n))
      BY <1>1, <1>3, <2>2, FrontOfPlace
    <3> QED BY <2>1, <2>2, <3>1, ViewFacts DEF IsDirectory
  <2>3. CASE Front(n) \in Origins(R) /\ RuleFor(R, n) = {}
    <3>1. IsDirectory(G, Front(n))
      BY <1>1, <1>3, <2>3, OriginKept
    <3>2. Place(R, n) = n
      BY <2>3 DEF Place
    <3>3. IsDirectory(ViewOf(R, G), Front(n))
      BY <2>1, <2>3, ViewFacts DEF IsDirectory
    <3> QED BY <3>1, <3>2, <3>3
  <2>4. CASE Front(n) \in Origins(R) /\ RuleFor(R, n) # {}
    <3>1. PICK r \in RuleFor(R, n) : r \in R
      BY <1>1, <2>4, RuleForFacts
    <3>2. r.origin = Front(n) /\ Front(Place(R, n)) = r.target
      BY <1>1, <2>4, FrontOfPlaceBelowOrigin
    <3>3. n # r.origin
      BY <3>1 DEF Origins
    <3>4. Needed(R, n, TRUE, r.target)
      BY <3>2, <3>3 DEF Needed
    <3>5. IsDirectory(G, r.target)
      BY <1>1, <3>1, <3>4 DEF Ready
    <3>6. IsDirectory(ViewOf(R, G), Front(n))
      BY <2>1, <2>4, ViewFacts DEF IsDirectory
    <3> QED BY <3>2, <3>5, <3>6
  <2> QED BY <2>2, <2>3, <2>4
<1> QED BY <1>1, <1>2, <1>3 DEF CanCreate

\* The target of an origin directory, and the directory it is created in.
LEMMA OriginPlace ==
  ASSUME NEW R, NEW F, NEW App, Suitable(R, F, App), NEW G, FilesKept(R, F, G),
         NEW o \in App, o \in Origins(R), NEW op, NEW as, OriginIsKnown(R, F, o, op, as),
         Ready(R, G, o, op \in Creating \cup {"RENAME"})
  PROVE  \/ At(G, Place(R, o)) = "dir"
         \/ /\ At(G, Place(R, o)) = "none" /\ CanCreate(G, op, Place(R, o))
            /\ op \in Creating /\ op \notin {"CREATE", "RENAME"} /\ as = "dir"
<1>1. /\ ValidRules(R) /\ Paths \subseteq Seq(Names)
      /\ o \in Paths /\ o \in Seq(Names) /\ Place(R, o) \in Paths
      /\ \A r \in R : r.target \in Paths /\ r.target \in Seq(Names) /\ r.target # <<>>
      /\ G \in [Paths -> Kinds] /\ F \in [Paths -> Kinds]
  BY SuitableFacts DEF FilesKept
<1>2. PICK r \in RuleFor(R, o) : r \in R /\ r.origin = o
  BY <1>1, OriginRule, RuleForFacts
<1>3. Place(R, o) = r.target
  BY <1>1, <1>2, PlaceBelowTarget
<1>4. G[r.target] # "file" /\ (F[r.target] = "dir" => G[r.target] = "dir")
  BY <1>1, <1>2, PrefixOfItself DEF FilesKept
<1>5. At(G, Place(R, o)) = G[r.target] /\ At(F, Place(R, o)) = F[r.target]
  BY <1>1, <1>3, AtKind
<1>6. CASE IsDirectory(F, Place(R, o))
  BY <1>4, <1>5, <1>6 DEF IsDirectory
<1>7. CASE op \notin {"CREATE", "RENAME"} /\ op \in Creating /\ as = "dir"
  <2>1. Needed(R, o, TRUE, Front(r.target))
    BY <1>2 DEF Needed
  <2>2. Front(r.target) \in Paths
    BY <1>1, <1>2, PathsAssumption DEF PathsClosed
  <2>3. (op \in Creating \cup {"RENAME"}) = TRUE
    BY <1>7
  <2>4. Ready(R, G, o, TRUE)
    BY <2>3
  <2>5. IsDirectory(G, Front(r.target))
    BY <2>1, <2>2, <2>4 DEF Ready
  <2>6. G[r.target] \in {"none", "dir"}
    BY <1>1, <1>2, <1>4 DEF Kinds
  <2> QED BY <1>1, <1>2, <1>3, <1>5, <1>7, <2>5, <2>6 DEF CanCreate
<1>8. CASE op \notin {"CREATE", "RENAME"} /\ op \notin Creating
  <2>1. Needed(R, o, FALSE, r.target)
    BY <1>2 DEF Needed
  <2>2. (op \in Creating \cup {"RENAME"}) = FALSE
    BY <1>8
  <2>3. Ready(R, G, o, FALSE)
    BY <2>2
  <2>4. IsDirectory(G, r.target)
    BY <1>1, <1>2, <2>1, <2>3 DEF Ready
  <2> QED BY <1>3, <2>4 DEF IsDirectory
<1> QED BY <1>6, <1>7, <1>8 DEF OriginIsKnown

\* A change of the file of a path is one of the view, unless the path is an
\* origin directory.
LEMMA ViewExcept ==
  ASSUME NEW R, ValidRules(R), NEW n \in VisibleUnder(R),
         NEW G \in [Paths -> Kinds], NEW H \in [Paths -> Kinds],
         \A q \in Paths : q # Place(R, n) => H[q] = G[q]
  PROVE  /\ n \notin Origins(R) =>
              ViewOf(R, H) = [ViewOf(R, G) EXCEPT ![n] = At(H, Place(R, n))]
         /\ n \in Origins(R) => ViewOf(R, H) = ViewOf(R, G)
<1>1. ASSUME NEW q \in VisibleUnder(R), q # n PROVE At(H, Place(R, q)) = At(G, Place(R, q))
  <2>1. Place(R, q) # Place(R, n)
    BY <1>1, PlaceInjective
  <2> QED BY <2>1 DEF At
<1> QED BY <1>1 DEF ViewOf

\* If the request is for an origin directory, the application knows what that is.
KnownOrigin(R, F, n, op, as) == n \in Origins(R) => OriginIsKnown(R, F, n, op, as)

\* An operation on a file answers and does what it would on the view.
LEMMA StatusOnView ==
  ASSUME NEW R, NEW F, NEW App, Suitable(R, F, App), NEW G, FilesKept(R, F, G),
         NEW n \in App, NEW op \in Operations, op # "RENAME", NEW as \in Demands,
         n \in Origins(R) => OriginIsKnown(R, F, n, op, as),
         Ready(R, G, n, op \in Creating \cup {"RENAME"})
  PROVE  LET H == Effect(G, op, as, Place(R, n))
         IN /\ Status(ViewOf(R, G), op, as, n) = Status(G, op, as, Place(R, n))
            /\ ViewOf(R, H) = Effect(ViewOf(R, G), op, as, n)
            /\ SoundChange(R, App, G, H)
            /\ \A q \in Paths : H[q] # G[q] => G[q] = "none"
<1>1. /\ ValidRules(R) /\ n \in Paths /\ n \in VisibleUnder(R) /\ Place(R, n) \in Paths
      /\ G \in [Paths -> Kinds]
  BY SuitableFacts DEF FilesKept
<1>2. PICK p : p = Place(R, n) /\ p \in Paths
  BY <1>1
<1>3. PICK W : W = ViewOf(R, G)
  OBVIOUS
<1>4. PICK H : H = Effect(G, op, as, p)
  OBVIOUS
<1>5. At(W, n) = IF n \in Origins(R) THEN "dir" ELSE At(G, p)
  BY <1>1, <1>2, <1>3, ViewFacts
<1>6. as \in Kinds /\ At(G, p) = G[p]
  BY <1>1, <1>2, AtKind DEF Demands, Kinds
<1>7. PICK K : K = [G EXCEPT ![p] = as]
  OBVIOUS
<1>8. K \in [Paths -> Kinds] /\ K[p] = as /\ \A q \in Paths : q # p => K[q] = G[q]
  BY <1>1, <1>2, <1>6, <1>7
<1>9. /\ n \notin Origins(R) => ViewOf(R, K) = [W EXCEPT ![n] = as]
      /\ n \in Origins(R) => ViewOf(R, K) = W
  <2>1. At(K, Place(R, n)) = as
    BY <1>2, <1>8, AtKind
  <2>2. \A q \in Paths : q # Place(R, n) => K[q] = G[q]
    BY <1>2, <1>8
  <2>3. ValidRules(R) /\ n \in VisibleUnder(R) /\ G \in [Paths -> Kinds] /\ K \in [Paths -> Kinds]
    BY <1>1, <1>8
  <2>4. /\ n \notin Origins(R) =>
             ViewOf(R, K) = [ViewOf(R, G) EXCEPT ![n] = At(K, Place(R, n))]
        /\ n \in Origins(R) => ViewOf(R, K) = ViewOf(R, G)
    BY <2>2, <2>3, ViewExcept
  <2> QED BY <1>3, <2>1, <2>4
<1>10. CASE n \notin Origins(R)
  <2>1. CanCreate(W, op, n) <=> CanCreate(G, op, p)
    <3>1. CASE op \in Creating
      <4>1. (op \in Creating \cup {"RENAME"}) = TRUE
        BY <3>1
      <4>2. Ready(R, G, n, TRUE)
        BY <4>1
      <4> QED BY <1>2, <1>3, <1>10, <4>2, CreatableOnView
    <3>2. CASE op \notin Creating
      BY <3>2 DEF CanCreate
    <3> QED BY <3>1, <3>2
  <2>2. Exists(W, n) <=> Exists(G, p)
    BY <1>5, <1>10 DEF Exists
  <2>3. Status(W, op, as, n) = Status(G, op, as, p)
    BY <1>5, <1>10, <2>1, <2>2 DEF Status
  <2>4. ViewOf(R, H) = Effect(W, op, as, n)
    BY <1>3, <1>4, <1>7, <1>9, <1>10, <2>1, <2>2 DEF Effect
  <2>5. H \in [Paths -> Kinds] /\ \A q \in Paths : H[q] # G[q] => q = p /\ G[q] = "none"
    <3>1. (H = K /\ G[p] = "none") \/ H = G
      BY <1>4, <1>6, <1>7 DEF Effect, Exists
    <3> QED BY <1>1, <1>8, <3>1
  <2>6. SoundChange(R, App, G, H)
    BY <1>2, <1>10, <2>5 DEF SoundChange
  <2> QED BY <1>2, <1>3, <1>4, <2>3, <2>4, <2>5, <2>6
<1>11. CASE n \in Origins(R) /\ At(G, p) = "dir"
  <2>1. At(W, n) = "dir" /\ Exists(W, n) /\ Exists(G, p)
    BY <1>5, <1>11 DEF Exists
  <2>2. Status(W, op, as, n) = Status(G, op, as, p)
    BY <1>11, <2>1 DEF Status
  <2>3. H = G /\ Effect(W, op, as, n) = W
    BY <1>4, <2>1 DEF Effect
  <2>4. SoundChange(R, App, G, H)
    BY <1>1, <2>3 DEF SoundChange
  <2> QED BY <1>2, <1>3, <1>4, <2>2, <2>3, <2>4
<1>12. CASE n \in Origins(R) /\ At(G, p) # "dir"
  <2>1. /\ At(G, p) = "none" /\ CanCreate(G, op, p)
        /\ op \in Creating /\ op \notin {"CREATE", "RENAME"} /\ as = "dir"
    BY <1>2, <1>12, OriginPlace
  <2>2. At(W, n) = "dir" /\ Exists(W, n) /\ ~Exists(G, p) /\ op # "QUERY"
    BY <1>5, <1>12, <2>1 DEF Exists, Creating
  <2>3. Status(W, op, as, n) = "success" /\ Status(G, op, as, p) = "success"
    BY <2>1, <2>2 DEF Status
  <2>4. H = K /\ Effect(W, op, as, n) = W
    BY <1>4, <1>7, <2>1, <2>2 DEF Effect
  <2>5. H \in [Paths -> Kinds] /\ ViewOf(R, H) = W
    BY <1>8, <1>9, <1>12, <2>4
  <2>6. \A q \in Paths : H[q] # G[q] => q = p /\ G[q] = "none" /\ H[q] = "dir"
    BY <1>6, <1>8, <2>1, <2>4
  <2>7. SoundChange(R, App, G, H)
    BY <1>2, <2>5, <2>6 DEF SoundChange
  <2> QED BY <1>2, <1>3, <1>4, <2>3, <2>4, <2>5, <2>6, <2>7
<1> QED BY <1>10, <1>11, <1>12

\* A rename from m to n answers and does what it would on the view.
MoveAgrees(R, App, G, m, n, shared) ==
  LET H == Moved(G, Place(R, m), Place(R, n))
      status == MoveStatus(G, Place(R, m), Place(R, n), shared)
  IN /\ MoveStatus(ViewOf(R, G), m, n, shared) = status
     /\ status = "success" =>
          /\ ViewOf(R, H) = Moved(ViewOf(R, G), m, n)
          /\ SoundChange(R, App, G, H)
          /\ Place(R, m) # Place(R, n) => ~shared /\ G[Place(R, n)] = "none"

LEMMA MoveOnView ==
  ASSUME NEW R, NEW F, NEW App, Suitable(R, F, App), NEW G, FilesKept(R, F, G),
         NEW m \in App, NEW n \in App, At(G, Place(R, m)) = "file", NEW as \in Demands,
         KnownOrigin(R, F, n, "RENAME", as),
         Ready(R, G, n, TRUE), NEW shared \in BOOLEAN
  PROVE  MoveAgrees(R, App, G, m, n, shared)
<1>1. /\ ValidRules(R) /\ Paths \subseteq Seq(Names)
      /\ n \in Paths /\ n \in VisibleUnder(R) /\ Place(R, n) \in Paths
      /\ m \in Paths /\ m \in VisibleUnder(R) /\ Place(R, m) \in Paths
      /\ \A r \in R : r.target \in Paths /\ r.target \in Seq(Names)
      /\ G \in [Paths -> Kinds]
  BY SuitableFacts DEF FilesKept
<1>2. PICK p, from : p = Place(R, n) /\ p \in Paths /\ from = Place(R, m) /\ from \in Paths
  BY <1>1
<1>3. PICK W : W = ViewOf(R, G)
  OBVIOUS
<1>4. G[from] = "file" /\ At(G, p) = G[p]
  BY <1>1, <1>2, AtKind
<1>5. p = from <=> m = n
  BY <1>1, <1>2, PlaceInjective
<1>6. m \notin Origins(R)
  <2>1. SUFFICES ASSUME m \in Origins(R) PROVE FALSE
    OBVIOUS
  <2>2. PICK r \in RuleFor(R, m) : r \in R /\ r.origin = m
    BY <1>1, <2>1, OriginRule, RuleForFacts
  <2>3. from = r.target
    BY <1>1, <1>2, <2>2, PlaceBelowTarget
  <2> QED BY <1>1, <1>2, <1>4, <2>2, <2>3, PrefixOfItself DEF FilesKept
<1>7. At(W, m) = "file" /\ At(W, n) = IF n \in Origins(R) THEN "dir" ELSE At(G, p)
  BY <1>1, <1>2, <1>3, <1>4, <1>6, ViewFacts
<1>8. CASE n \in Origins(R)
  <2>1. ("RENAME" \in Creating \cup {"RENAME"}) = TRUE
    OBVIOUS
  <2>2. Ready(R, G, n, "RENAME" \in Creating \cup {"RENAME"})
    BY <2>1
  <2>3. At(G, p) = "dir"
    BY <1>2, <1>8, <2>2, OriginPlace DEF KnownOrigin
  <2>4. Exists(G, p) /\ Exists(W, n) /\ p # from /\ m # n
    BY <1>4, <1>5, <1>7, <1>8, <2>3 DEF Exists
  <2>5. MoveStatus(G, from, p, shared) = "collision" /\ MoveStatus(W, m, n, shared) = "collision"
    BY <2>4 DEF MoveStatus
  <2> QED BY <1>2, <1>3, <2>5 DEF MoveAgrees
<1>9. CASE n \notin Origins(R)
  <2>1. CanCreate(W, "CREATE", n) <=> CanCreate(G, "CREATE", p)
    BY <1>2, <1>3, <1>9, CreatableOnView
  <2>2. Exists(W, n) <=> Exists(G, p)
    BY <1>7, <1>9 DEF Exists
  <2>3. MoveStatus(W, m, n, shared) = MoveStatus(G, from, p, shared)
    BY <1>5, <2>1, <2>2 DEF MoveStatus
  <2>4. PICK K : K = [G EXCEPT ![from] = "none"]
    OBVIOUS
  <2>5. K \in [Paths -> Kinds] /\ ViewOf(R, K) = [W EXCEPT ![m] = "none"]
    <3>1. K \in [Paths -> Kinds] /\ K[from] = "none" /\ \A q \in Paths : q # from => K[q] = G[q]
      BY <1>1, <1>2, <2>4 DEF Kinds
    <3>2. At(K, Place(R, m)) = "none" /\ \A q \in Paths : q # Place(R, m) => K[q] = G[q]
      BY <1>2, <3>1, AtKind
    <3>3. ValidRules(R) /\ m \in VisibleUnder(R) /\ G \in [Paths -> Kinds]
      BY <1>1
    <3>4. ViewOf(R, K) = [ViewOf(R, G) EXCEPT ![m] = At(K, Place(R, m))]
      BY <1>6, <3>1, <3>2, <3>3, ViewExcept
    <3> QED BY <1>3, <3>1, <3>2, <3>4
  <2>6. PICK H : H = [K EXCEPT ![p] = "file"]
    OBVIOUS
  <2>7. H \in [Paths -> Kinds] /\ ViewOf(R, H) = [[W EXCEPT ![m] = "none"] EXCEPT ![n] = "file"]
    <3>1. H \in [Paths -> Kinds] /\ H[p] = "file" /\ \A q \in Paths : q # p => H[q] = K[q]
      BY <1>2, <2>5, <2>6 DEF Kinds
    <3>2. At(H, Place(R, n)) = "file" /\ \A q \in Paths : q # Place(R, n) => H[q] = K[q]
      BY <1>2, <3>1, AtKind
    <3>3. ValidRules(R) /\ n \in VisibleUnder(R) /\ K \in [Paths -> Kinds]
      BY <1>1, <2>5
    <3>4. ViewOf(R, H) = [ViewOf(R, K) EXCEPT ![n] = At(H, Place(R, n))]
      BY <1>9, <3>1, <3>2, <3>3, ViewExcept
    <3> QED BY <2>5, <3>1, <3>2, <3>4
  <2>8. H = Moved(G, from, p)
    BY <1>4, <1>2, <2>4, <2>6 DEF Moved, At
  <2>9. Moved(W, m, n) = [[W EXCEPT ![m] = "none"] EXCEPT ![n] = "file"]
    BY <1>7 DEF Moved
  <2>10. ASSUME MoveStatus(G, from, p, shared) = "success"
         PROVE  p # from => ~shared /\ G[p] = "none"
    BY <1>4, <2>10 DEF MoveStatus, Exists
  <2>11. ASSUME MoveStatus(G, from, p, shared) = "success"
         PROVE  SoundChange(R, App, G, H)
    <3>1. ASSUME NEW q \in Paths, H[q] # G[q]
          PROVE  \/ q = p /\ G[q] = "none"
                 \/ q = from /\ H[q] = "none" /\ G[q] = "file"
      BY <1>1, <1>2, <1>4, <2>4, <2>5, <2>6, <2>10, <2>11, <3>1
    <3>2. ASSUME NEW q \in Paths, H[q] # G[q]
          PROVE  \/ \E k \in App : /\ q = Place(R, k) /\ G[q] = "none"
                                   /\ k \in Origins(R) => H[q] = "dir"
                 \/ \E k \in App : /\ q = Place(R, k) /\ H[q] = "none"
                                   /\ ~IsPrefixForAnyRule(R, k) \/ G[q] = "file"
      BY <1>2, <1>9, <3>1, <3>2
    <3> QED BY <2>7, <3>2 DEF SoundChange
  <2> QED BY <1>2, <1>3, <2>3, <2>7, <2>8, <2>9, <2>10, <2>11 DEF MoveAgrees
<1> QED BY <1>8, <1>9

\* What is deleted below no rule is deleted from the view.
LEMMA RemoveOnView ==
  ASSUME NEW R, NEW F, NEW App, Suitable(R, F, App), NEW G, FilesKept(R, F, G),
         NEW n \in App, ~IsPrefixForAnyRule(R, n)
  PROVE  LET H == Removed(G, Place(R, n))
         IN /\ ViewOf(R, H) \in {ViewOf(R, G), Removed(ViewOf(R, G), n)}
            /\ SoundChange(R, App, G, H)
            /\ \A q \in Paths : H[q] # G[q] => q = Place(R, n)
<1>1. /\ ValidRules(R) /\ RulesApart(R) /\ Paths \subseteq Seq(Names)
      /\ n \in Paths /\ n \in Seq(Names) /\ n \in VisibleUnder(R) /\ Place(R, n) \in Paths
      /\ G \in [Paths -> Kinds]
  BY SuitableFacts DEF FilesKept
<1>2. PICK p : p = Place(R, n) /\ p \in Paths
  BY <1>1
<1>3. PICK W : W = ViewOf(R, G)
  OBVIOUS
<1>4. PICK H : H = Removed(G, p)
  OBVIOUS
<1>5. n \notin Origins(R)
  BY <1>1, PrefixOfItself DEF IsPrefixForAnyRule, Origins
<1>6. CASE ~(Removable(G, p) /\ Exists(G, p))
  <2>1. H = G
    BY <1>4, <1>6 DEF Removed
  <2> QED BY <1>1, <1>2, <1>3, <1>4, <2>1 DEF SoundChange
<1>7. CASE Removable(G, p) /\ Exists(G, p)
  <2>1. H = [G EXCEPT ![p] = "none"]
    BY <1>4, <1>7 DEF Removed
  <2>2. Exists(W, n)
    BY <1>1, <1>2, <1>3, <1>5, <1>7, ViewFacts DEF Exists
  <2>3. Removable(W, n)
    <3>1. SUFFICES ASSUME NEW q \in VisibleUnder(R), q # <<>>, Exists(W, q), Front(q) = n
                   PROVE  FALSE
      BY <1>3 DEF Removable, ViewOf
    <3>2. q \in Seq(Names) /\ IsPrefix(n, q)
      BY <1>1, <3>1, PrefixOfFront DEF VisibleUnder
    <3>3. q \notin Origins(R)
      BY <3>2 DEF IsPrefixForAnyRule, Origins
    <3>4. Place(R, q) # <<>> /\ Front(Place(R, q)) = p
      BY <1>1, <1>2, <1>5, <3>1, <3>2, <3>3, FrontOfPlace
    <3>5. Exists(G, Place(R, q))
      BY <1>3, <3>1, <3>3, ViewFacts DEF Exists
    <3>6. Place(R, q) \in DOMAIN G
      BY <3>5 DEF Exists, At
    <3> QED BY <1>7, <3>4, <3>5, <3>6 DEF Removable
  <2>4. Removed(W, n) = [W EXCEPT ![n] = "none"]
    BY <2>2, <2>3 DEF Removed
  <2>5. H \in [Paths -> Kinds] /\ ViewOf(R, H) = [W EXCEPT ![n] = "none"]
    <3>1. H \in [Paths -> Kinds] /\ H[p] = "none" /\ \A q \in Paths : q # p => H[q] = G[q]
      BY <1>1, <1>2, <2>1 DEF Kinds
    <3>2. At(H, Place(R, n)) = "none" /\ \A q \in Paths : q # Place(R, n) => H[q] = G[q]
      BY <1>2, <3>1, AtKind
    <3> QED BY <1>1, <1>3, <1>5, <3>1, <3>2, ViewExcept
  <2>6. \A q \in Paths : H[q] # G[q] => q = p /\ H[q] = "none"
    BY <1>1, <1>2, <2>1
  <2>7. SoundChange(R, App, G, H)
    BY <1>2, <2>5, <2>6 DEF SoundChange
  <2> QED BY <1>2, <1>3, <1>4, <2>4, <2>5, <2>6, <2>7
<1> QED BY <1>6, <1>7

\* A level of the way to a target is there already or can be created, and
\* nothing of it is seen.
LEMMA LevelCreated ==
  ASSUME NEW R, NEW F, NEW App, Suitable(R, F, App), NEW G, FilesKept(R, F, G),
         NEW r \in R, NEW next \in Seq(Names), IsPrefix(next, r.target), next # <<>>,
         IsDirectory(G, Front(next))
  PROVE  LET H == Effect(G, "OPEN_IF", "dir", next)
         IN /\ Status(G, "OPEN_IF", "dir", next) = "success"
            /\ IsDirectory(H, next)
            /\ ViewOf(R, H) = ViewOf(R, G)
            /\ SoundChange(R, App, G, H)
            /\ \A q \in Paths : H[q] # G[q] => G[q] = "none"
<1>1. G \in [Paths -> Kinds] /\ r.target \in Paths
  BY SuitableFacts DEF FilesKept
<1>2. next \in Paths
  BY <1>1, PathsAbove
<1>3. G[next] # "file" /\ At(G, next) = G[next]
  BY <1>1, <1>2, AtKind DEF FilesKept
<1>4. PICK H : H = Effect(G, "OPEN_IF", "dir", next)
  OBVIOUS
<1>5. CASE G[next] = "dir"
  <2>1. Exists(G, next) /\ H = G
    BY <1>3, <1>4, <1>5 DEF Exists, Effect
  <2>2. Status(G, "OPEN_IF", "dir", next) = "success"
    BY <1>3, <1>5, <2>1 DEF Status
  <2>3. SoundChange(R, App, G, H)
    BY <1>1, <2>1 DEF SoundChange
  <2> QED BY <1>3, <1>4, <1>5, <2>1, <2>2, <2>3 DEF IsDirectory
<1>6. CASE G[next] # "dir"
  <2>1. G[next] = "none"
    BY <1>1, <1>2, <1>3, <1>6 DEF Kinds
  <2>2. CanCreate(G, "OPEN_IF", next) /\ ~Exists(G, next)
    BY <1>1, <1>2, <1>3, <2>1 DEF CanCreate, Creating, Exists
  <2>3. Status(G, "OPEN_IF", "dir", next) = "success" /\ H = [G EXCEPT ![next] = "dir"]
    BY <1>4, <2>2 DEF Status, Effect
  <2>4. /\ H \in [Paths -> Kinds] /\ H[next] = "dir"
        /\ \A q \in Paths : H[q] # G[q] => q = next /\ G[q] = "none" /\ H[q] = "dir"
    BY <1>1, <1>2, <2>1, <2>3 DEF Kinds
  <2>5. ViewOf(R, H) = ViewOf(R, G)
    BY <2>4, ViewWithoutTargetSide
  <2>6. SoundChange(R, App, G, H)
    BY <2>4 DEF SoundChange
  <2>7. IsDirectory(H, next)
    BY <1>2, <2>4 DEF IsDirectory, At
  <2> QED BY <1>4, <2>3, <2>4, <2>5, <2>6, <2>7
<1> QED BY <1>5, <1>6

-----------------------------------------------------------------------------
(* The steps keep what the view depends on. *)

\* A call under way on a file of the application, from handle h: every directory
\* that has to be there for it is, before it is tried.
CallOrdinary(R, F, App, G, c, h) ==
  /\ c.name \in App
  /\ c.name \in Origins(R) => OriginIsKnown(R, F, c.name, c.op, c.as)
  /\ c.step # "submit"
  /\ c.dispositions = <<Disposition(c.op, FALSE)>> /\ Len(c.tries) = 1
  /\ c.op = "RENAME" => h # NoHandle /\ At(G, h.at) = "file"
  /\ c.step \in {"climb", "descend"} =>
       /\ c.ensure # <<>> /\ \E r \in R : IsPrefix(c.ensure, r.target)
       /\ \A p \in Paths : Needed(R, c.name, c.op \in Creating \cup {"RENAME"}, p) => p = c.ensure
  /\ c.step = "descend" => IsDirectory(G, c.level)
  /\ c.step = "attempt" => Ready(R, G, c.name, c.op \in Creating \cup {"RENAME"})

OrdinaryFrom(F, App) ==
  /\ Suitable(rules, F, App) /\ OriginsAreKnown(rules, F, App) /\ HierarchiesNamed(rules, App)
  /\ FilesKept(rules, F, files)
  /\ \A t \in Threads : handle[t] # NoHandle => handle[t].name \in App
  /\ \A t \in Threads : call[t].step \notin {"idle", "answered"} =>
       CallOrdinary(rules, F, App, files, call[t], handle[t])

\* A directory above a target remains one.
LEMMA DirectoryStays ==
  ASSUME NEW R, NEW F, NEW App, Suitable(R, F, App), NEW G, FilesKept(R, F, G),
         NEW H, SoundChange(R, App, G, H),
         NEW r \in R, NEW p \in Seq(Names), IsPrefix(p, r.target), IsDirectory(G, p)
  PROVE  IsDirectory(H, p)
<1>1. r.target \in Paths /\ G \in [Paths -> Kinds]
  BY SuitableFacts DEF FilesKept
<1>2. p \in Paths
  BY <1>1, PathsAbove
<1>3. G[p] = "dir"
  BY <1>1, <1>2, AtKind DEF IsDirectory
<1>4. H[p] = "dir" /\ H \in [Paths -> Kinds]
  BY <1>2, <1>3, KeptByChange DEF SoundChange
<1> QED BY <1>2, <1>4, AtKind DEF IsDirectory

LEMMA ReadyStays ==
  ASSUME NEW R, NEW F, NEW App, Suitable(R, F, App), NEW G, FilesKept(R, F, G),
         NEW H, SoundChange(R, App, G, H), NEW n \in App, NEW creates, Ready(R, G, n, creates)
  PROVE  Ready(R, H, n, creates)
<1> SUFFICES ASSUME NEW p \in Paths, Needed(R, n, creates, p) PROVE IsDirectory(H, p)
  BY DEF Ready
<1>1. PICK r \in RuleFor(R, n) : p \in {r.target, Front(r.target)}
  BY DEF Needed
<1>2. r \in R /\ r.target \in Seq(Names) /\ r.target # <<>> /\ p \in Seq(Names)
  BY SuitableFacts, RuleForFacts
<1>3. IsPrefix(p, r.target)
  BY <1>1, <1>2, PrefixOfItself, PrefixOfFront
<1>4. IsDirectory(G, p)
  BY DEF Ready
<1> QED BY <1>2, <1>3, <1>4, DirectoryStays

\* What a step has to say of its own call c and handle h, and of the files.
LEMMA StepOrdinary ==
  ASSUME SInv, NEW F, NEW App, OrdinaryFrom(F, App), NEW t \in Threads, NEW c, NEW h,
         rules' = rules, SoundChange(rules, App, files, files'),
         call' = [call EXCEPT ![t] = c], handle' = [handle EXCEPT ![t] = h],
         c.step \in {"idle", "answered"} \/ CallOrdinary(rules, F, App, files', c, h),
         h = NoHandle \/ h.name \in App,
         \A u \in Threads \ {t} : handle[u] # NoHandle /\ At(files, handle[u].at) = "file" =>
           At(files', handle[u].at) = "file"
  PROVE  OrdinaryFrom(F, App)'
<1>1. /\ call'[t] = c /\ \A u \in Threads \ {t} : call'[u] = call[u]
      /\ handle'[t] = h /\ \A u \in Threads \ {t} : handle'[u] = handle[u]
  BY DEF SInv, IInv, TypeOK
<1>2. Suitable(rules, F, App) /\ FilesKept(rules, F, files)
  BY DEF OrdinaryFrom
<1>3. FilesKept(rules, F, files')
  BY <1>2, KeptByChange
<1>4. ASSUME NEW u \in Threads \ {t}, call[u].step \notin {"idle", "answered"}
      PROVE  CallOrdinary(rules, F, App, files', call[u], handle[u])
  <2>1. PICK e : e = call[u]
    OBVIOUS
  <2>2. e \in Call /\ CallFaithful(e) /\ CallLocated(e)
    BY <1>4, <2>1, UnderWayLocated
  <2>3. CallOrdinary(rules, F, App, files, e, handle[u])
    BY <1>4, <2>1 DEF OrdinaryFrom
  <2>4. e.name \in App
    BY <2>3 DEF CallOrdinary
  <2>5. e.op = "RENAME" => handle[u] # NoHandle /\ At(files', handle[u].at) = "file"
    BY <2>3 DEF CallOrdinary
  <2>6. e.step = "descend" => IsDirectory(files', e.level)
    <3>1. SUFFICES ASSUME e.step = "descend" PROVE IsDirectory(files', e.level)
      OBVIOUS
    <3>2. PICK r \in rules : IsPrefix(e.ensure, r.target)
      BY <2>3, <3>1 DEF CallOrdinary
    <3>3. /\ e.level \in Seq(Names) /\ e.ensure \in Seq(Names) /\ r.target \in Seq(Names)
          /\ IsPrefix(e.level, e.ensure)
      BY <1>2, <2>2, <3>1, SuitableFacts DEF CallFaithful, CallLocated
    <3>4. IsPrefix(e.level, r.target)
      BY <3>2, <3>3, PrefixTransitive
    <3>5. IsDirectory(files, e.level)
      BY <2>3, <3>1 DEF CallOrdinary
    <3> QED BY <1>2, <3>3, <3>4, <3>5, DirectoryStays
  <2>7. e.step = "attempt" => Ready(rules, files', e.name, e.op \in Creating \cup {"RENAME"})
    BY <1>2, <2>3, <2>4, ReadyStays DEF CallOrdinary
  <2>8. CallOrdinary(rules, F, App, files', e, handle[u])
    BY <2>3, <2>5, <2>6, <2>7 DEF CallOrdinary
  <2> QED BY <2>1, <2>8
<1>5. ASSUME NEW u \in Threads, handle'[u] # NoHandle PROVE handle'[u].name \in App
  <2>1. CASE u = t
    BY <1>1, <1>5, <2>1
  <2>2. CASE u # t
    BY <1>1, <1>5, <2>2 DEF OrdinaryFrom
  <2> QED BY <2>1, <2>2
<1>6. ASSUME NEW u \in Threads, call'[u].step \notin {"idle", "answered"}
      PROVE  CallOrdinary(rules, F, App, files', call'[u], handle'[u])
  <2>1. CASE u = t
    BY <1>1, <1>6, <2>1
  <2>2. CASE u # t
    BY <1>1, <1>4, <1>6, <2>2
  <2> QED BY <2>1, <2>2
<1>7. OriginsAreKnown(rules, F, App) /\ HierarchiesNamed(rules, App)
  BY DEF OrdinaryFrom
<1> QED BY <1>2, <1>3, <1>5, <1>6, <1>7 DEF OrdinaryFrom

\* Nothing has to be created for an operation on n, or all of this hierarchy.
EnsureOrdinary(R, G, n, creates, ensure) ==
  /\ ensure = NoPath => Ready(R, G, n, creates)
  /\ ensure # NoPath =>
       /\ ensure # <<>> /\ \E s \in R : IsPrefix(ensure, s.target)
       /\ \A p \in Paths : Needed(R, n, creates, p) => p = ensure

\* The hierarchy that EnsureHierarchy asks for is the directory that is needed.
LEMMA EnsureNeeded ==
  ASSUME NEW R, NEW F, NEW App, Suitable(R, F, App), NEW G, FilesKept(R, F, G),
         NEW n \in App, NEW r \in RuleFor(R, n), NEW creates \in BOOLEAN,
         creates /\ n \in Origins(R) => Front(Place(R, n)) # <<>>,
         NEW ensure, ensure = EnsureHierarchy(R, G, r, n, creates)
  PROVE  EnsureOrdinary(R, G, n, creates, ensure)
<1> SUFFICES /\ ensure = NoPath => Ready(R, G, n, creates)
             /\ ensure # NoPath =>
                  /\ ensure # <<>> /\ \E s \in R : IsPrefix(ensure, s.target)
                  /\ \A p \in Paths : Needed(R, n, creates, p) => p = ensure
  BY DEF EnsureOrdinary
<1>1. /\ ValidRules(R) /\ n \in Paths /\ n \in Seq(Names)
      /\ G \in [Paths -> Kinds] /\ F \in [Paths -> Kinds]
  BY SuitableFacts DEF FilesKept
<1>2. /\ n # <<>> /\ r \in R /\ RuleFor(R, n) = {r} /\ r.origin \in Seq(Names)
      /\ r.target \in Seq(Names) /\ r.target # <<>>
      /\ Place(R, n) = RedirectPathOriginToTarget(r, n)
  BY <1>1, RuleForFacts
<1>3. /\ IsPrefix(r.target, r.target)
      /\ Front(r.target) \in Seq(Names) /\ IsPrefix(Front(r.target), r.target)
      /\ r.target # NoPath /\ Front(r.target) # NoPath
  BY <1>2, PrefixOfItself, PrefixOfFront, NoPathAssumption
<1>4. CASE n = r.origin
  <2>1. n \in Origins(R)
    BY <1>2, <1>4 DEF Origins
  <2>2. Place(R, n) = r.target
    BY <1>1, <1>2, <1>4, PlaceBelowTarget
  <2>3. CASE creates
    <3>1. ensure = Front(r.target)
      BY <1>2, <1>4, <2>1, <2>2, <2>3 DEF EnsureHierarchy
    <3>2. \A p : Needed(R, n, creates, p) => p = ensure
      BY <1>2, <1>4, <2>3, <3>1 DEF Needed
    <3>3. ensure # <<>>
      BY <2>1, <2>2, <2>3, <3>1
    <3> QED BY <1>2, <1>3, <3>1, <3>2, <3>3
  <2>4. CASE ~creates
    <3>1. \A p : Needed(R, n, creates, p) => p = r.target
      BY <1>2, <2>4 DEF Needed
    <3>2. CASE IsDirectory(G, n)
      <4>1. ensure = r.target
        BY <1>2, <2>2, <2>4, <3>2 DEF EnsureHierarchy
      <4> QED BY <1>2, <1>3, <3>1, <4>1
    <3>3. CASE ~IsDirectory(G, n)
      <4>1. ensure = NoPath
        BY <2>4, <3>3 DEF EnsureHierarchy
      <4>2. IsDirectory(G, r.target)
        BY <2>1, <2>2, <3>3, OriginKept
      <4> QED BY <3>1, <4>1, <4>2 DEF Ready
    <3> QED BY <3>2, <3>3
  <2> QED BY <2>3, <2>4
<1>5. CASE n # r.origin
  <2>1. n \notin Origins(R)
    BY <1>1, <1>5, OriginRule
  <2>2. ~IsDirectory(G, n)
    <3>1. ~IsDirectory(F, n) /\ G[n] = F[n]
      BY <1>1, <1>2, <2>1 DEF Suitable, NothingHidden, FilesKept
    <3> QED BY <1>1, <3>1, AtKind DEF IsDirectory
  <2>3. CASE ~creates
    <3>1. ensure = NoPath
      BY <2>2, <2>3 DEF EnsureHierarchy
    <3>2. \A p : ~Needed(R, n, creates, p)
      BY <1>2, <1>5, <2>3 DEF Needed
    <3> QED BY <3>1, <3>2 DEF Ready
  <2>4. CASE creates /\ Front(n) \in Origins(R)
    <3>1. r.origin = Front(n) /\ Front(Place(R, n)) = r.target
      BY <1>1, <2>1, <2>4, FrontOfPlaceBelowOrigin
    <3>2. ensure = r.target
      BY <1>2, <1>5, <2>4, <3>1 DEF EnsureHierarchy
    <3>3. \A p : Needed(R, n, creates, p) => p = ensure
      BY <1>2, <1>5, <2>4, <3>2 DEF Needed
    <3> QED BY <1>2, <1>3, <3>2, <3>3
  <2>5. CASE creates /\ Front(n) \notin Origins(R)
    <3>1. Front(n) \in Paths /\ RuleFor(R, Front(n)) # {}
      BY <1>1, <1>2, <2>1, <2>5, RuleForFront, PathsAssumption DEF PathsClosed
    <3>2. ~IsDirectory(F, Front(n)) /\ G[Front(n)] = F[Front(n)]
      BY <2>5, <3>1 DEF Suitable, NothingHidden, FilesKept
    <3>3. ~IsDirectory(G, Front(n))
      BY <1>1, <3>1, <3>2, AtKind DEF IsDirectory
    <3>4. ensure = NoPath
      BY <1>5, <2>5, <3>3 DEF EnsureHierarchy
    <3>5. \A p : ~Needed(R, n, creates, p)
      BY <1>2, <1>5, <2>5 DEF Needed, Origins
    <3> QED BY <3>4, <3>5 DEF Ready
  <2> QED BY <2>3, <2>4, <2>5
<1> QED BY <1>4, <1>5

-----------------------------------------------------------------------------
(* What the application sees, as FilesystemView has it. *)

ViewNow == [p \in Visible |-> Seen(files, p)]

HeldNow == [t \in Threads |-> handle[t].name]

\* What is known of a call.
TalkOf(c) ==
  IF c.step \in {"idle", "answered"} THEN c ELSE Asking(c.op, c.as, c.name)

TalkNow == [t \in Threads |-> TalkOf(call[t])]

LEMMA SeenIsView ==
  ASSUME SimpleMode, SInv, NEW F, NEW App, Suitable(rules, F, App), NEW G, FilesKept(rules, F, G)
  PROVE  [p \in Visible |-> Seen(G, p)] = ViewOf(rules, G)
<1>1. ValidRules(rules) /\ F \in [Paths -> Kinds] /\ G \in [Paths -> Kinds] /\ Paths \subseteq Seq(Names)
  BY SuitableFacts DEF FilesKept
<1>2. ASSUME NEW p \in VisibleUnder(rules)
      PROVE  Seen(G, p) = IF p \in Origins(rules) THEN "dir" ELSE At(G, Place(rules, p))
  <2>1. p \in Paths /\ p \in Seq(Names)
    BY <1>1 DEF VisibleUnder
  <2>2. CASE RuleFor(rules, p) = {}
    <3>1. p \notin Origins(rules)
      BY <1>1, <2>2, OriginRule
    <3> QED BY <2>2, <3>1 DEF Seen, Resolve, Place
  <2>3. CASE RuleFor(rules, p) # {}
    <3>1. Resolve(G, p) = Place(rules, p)
      <4>1. PICK r \in RuleFor(rules, p) : r = CHOOSE s \in RuleFor(rules, p) : TRUE
        BY <2>3
      <4>2. r.mode = "Simple"
        BY <4>1, SimpleRule
      <4> QED BY <2>3, <4>1, <4>2 DEF Resolve, Place
    <3>2. CASE p \in Origins(rules)
      <4>1. IsDirectory(G, p) \/ IsDirectory(G, Place(rules, p))
        BY <3>2, OriginKept
      <4> QED BY <2>3, <3>1, <3>2, <4>1 DEF Seen, IsDirectory
    <3>3. CASE p \notin Origins(rules)
      <4>1. ~IsDirectory(F, p) /\ G[p] = F[p]
        BY <2>1, <2>3, <3>3 DEF Suitable, NothingHidden, FilesKept
      <4>2. ~IsDirectory(G, p)
        BY <1>1, <2>1, <4>1, AtKind DEF IsDirectory
      <4> QED BY <3>1, <3>3, <4>2 DEF Seen
    <3> QED BY <3>2, <3>3
  <2> QED BY <2>2, <2>3
<1> QED BY <1>2 DEF ViewOf, Visible

\* The view before and after a step.
LEMMA ViewBothTimes ==
  ASSUME SimpleMode, SInv, NEW F, NEW App, OrdinaryFrom(F, App), rules' = rules,
         SoundChange(rules, App, files, files')
  PROVE  ViewNow = ViewOf(rules, files) /\ ViewNow' = ViewOf(rules, files')
<1>1. Suitable(rules, F, App) /\ FilesKept(rules, F, files)
  BY DEF OrdinaryFrom
<1>2. FilesKept(rules, F, files')
  BY <1>1, KeptByChange
<1>3. ViewNow' = [p \in Visible |-> Seen(files', p)]
  BY DEF ViewNow, Visible, Seen, Resolve
<1> QED BY <1>1, <1>2, <1>3, SeenIsView DEF ViewNow

LEMMA TalkStep ==
  ASSUME SInv, NEW t \in Threads, NEW c, call' = [call EXCEPT ![t] = c]
  PROVE  /\ TalkNow' = [TalkNow EXCEPT ![t] = TalkOf(c)]
         /\ TalkNow[t] = TalkOf(call[t])
         /\ TalkOf(c) = TalkOf(call[t]) => TalkNow' = TalkNow
<1>1. call'[t] = c /\ \A u \in Threads \ {t} : call'[u] = call[u]
  BY DEF SInv, IInv, TypeOK
<1>2. TalkNow' = [u \in Threads |-> TalkOf(call'[u])] /\ TalkNow = [u \in Threads |-> TalkOf(call[u])]
  BY DEF TalkNow, TalkOf
<1>3. \A u \in Threads : TalkNow'[u] = IF u = t THEN TalkOf(c) ELSE TalkNow[u]
  BY <1>1, <1>2
<1> QED BY <1>2, <1>3

LEMMA HeldStep ==
  ASSUME SInv, NEW t \in Threads, NEW h, handle' = [handle EXCEPT ![t] = h]
  PROVE  HeldNow' = [HeldNow EXCEPT ![t] = h.name]
<1>1. handle'[t] = h /\ \A u \in Threads \ {t} : handle'[u] = handle[u]
  BY DEF SInv, IInv, TypeOK
<1>2. HeldNow' = [u \in Threads |-> handle'[u].name] /\ HeldNow = [u \in Threads |-> handle[u].name]
  BY DEF HeldNow
<1>3. \A u \in Threads : HeldNow'[u] = IF u = t THEN h.name ELSE HeldNow[u]
  BY <1>1, <1>2
<1> QED BY <1>2, <1>3

\* A call under way, of an ordinary application.
LEMMA UnderWayOrdinary ==
  ASSUME SInv, NEW F, NEW App, OrdinaryFrom(F, App),
         NEW t \in Threads, call[t].step \notin {"idle", "answered"}
  PROVE  /\ call[t] \in Call /\ CallFaithful(call[t]) /\ CallLocated(call[t])
         /\ CallOrdinary(rules, F, App, files, call[t], handle[t])
         /\ TalkOf(call[t]) = Asking(call[t].op, call[t].as, call[t].name)
BY UnderWayLocated DEF OrdinaryFrom, TalkOf

\* A handle is on the file of its name.
LEMMA HandlePlace ==
  ASSUME SInv, NEW F, NEW App, OrdinaryFrom(F, App), NEW t \in Threads, handle[t] # NoHandle
  PROVE  /\ handle[t].name \in App /\ handle[t].name \in VisibleUnder(rules)
         /\ handle[t].name \in Paths /\ handle[t].name \in Seq(Names)
         /\ handle[t].at = Place(rules, handle[t].name) /\ handle[t].at \in Paths
<1>1. Selected(handle[t].name, handle[t].at)
  BY DEF SInv, LocatedInv, Located
<1>2. /\ handle[t].name \in App /\ handle[t].name \in Seq(Names)
      /\ handle[t].name \in Paths /\ handle[t].name \in VisibleUnder(rules)
      /\ Place(rules, handle[t].name) \in Paths /\ ValidRules(rules)
  BY SuitableFacts DEF OrdinaryFrom
<1>3. handle[t].at = Place(rules, handle[t].name)
  <2>1. CASE RuleFor(rules, handle[t].name) = {}
    BY <1>1, <2>1 DEF Selected, Place
  <2>2. CASE RuleFor(rules, handle[t].name) # {}
    BY <1>1, <1>2, <2>2, RuleForFacts DEF Selected
  <2> QED BY <2>1, <2>2
<1> QED BY <1>2, <1>3

\* What is tried is the file of the name, with the disposition of the request.
LEMMA TriedPlace ==
  ASSUME SInv, NEW F, NEW App, OrdinaryFrom(F, App),
         NEW t \in Threads, call[t].step \notin {"idle", "answered"}
  PROVE  /\ Attempted(t).at = Place(rules, call[t].name)
         /\ Trying(t) = Disposition(call[t].op, FALSE)
         /\ IsLast(t)
<1> PICK e : e = call[t]
  OBVIOUS
<1>1. /\ e \in Call /\ CallFaithful(e) /\ CallLocated(e)
      /\ CallOrdinary(rules, F, App, files, e, handle[t])
  BY UnderWayOrdinary
<1>2. Len(e.dispositions) = 1 /\ e.dispositions = <<Disposition(e.op, FALSE)>> /\ e.d = 1
  BY <1>1 DEF CallOrdinary, CallFaithful
<1>3. Len(e.tries) = 1 /\ e.f = 1 /\ 1 \in DOMAIN e.tries
  BY <1>1 DEF CallOrdinary, CallFaithful, Call
<1>4. Selected(e.name, e.tries[1].at)
  BY <1>1, <1>3 DEF CallLocated, Located
<1>5. e.tries[1].at = Place(rules, e.name)
  <2>1. ValidRules(rules) /\ e.name \in Seq(Names)
    BY <1>1, SuitableFacts DEF OrdinaryFrom, CallOrdinary
  <2>2. CASE RuleFor(rules, e.name) = {}
    BY <1>4, <2>2 DEF Selected, Place
  <2>3. CASE RuleFor(rules, e.name) # {}
    BY <1>4, <2>1, <2>3, RuleForFacts DEF Selected
  <2> QED BY <2>2, <2>3
<1> QED BY <1>2, <1>3, <1>5 DEF Attempted, Trying, IsLast

\* The operators of FilesystemView are those of Files.
LEMMA ViewOperators ==
  /\ \A G, op, as, p : V!Status(G, op, as, p) = Status(G, op, as, p)
  /\ \A G, op, as, p : V!Effect(G, op, as, p) = Effect(G, op, as, p)
  /\ \A G, from, to, shared : V!MoveStatus(G, from, to, shared) = MoveStatus(G, from, to, shared)
  /\ \A G, from, to : V!Moved(G, from, to) = Moved(G, from, to)
  /\ \A G, p : V!Removed(G, p) = Removed(G, p)
  /\ \A G : V!Consistent(G) = Consistent(G)
  /\ V!Idle = Idle /\ V!NoPath = NoPath
  /\ V!Operations = Operations /\ V!Demands = Demands
  /\ \A op, as, p : V!Asking(op, as, p) = Asking(op, as, p)
  /\ \A status : V!Answered(status) = Answered(status)
<1>1. \A G, p : V!At(G, p) = At(G, p)
  BY DEF V!At, At
<1>2. \A G, p : V!Exists(G, p) = Exists(G, p) /\ V!IsDirectory(G, p) = IsDirectory(G, p)
  BY <1>1 DEF V!Exists, Exists, V!IsDirectory, IsDirectory
<1>3. V!Creating = Creating /\ V!Replacing = Replacing
  BY DEF V!Creating, Creating, V!Replacing, Replacing
<1>4. \A G, op, p : V!CanCreate(G, op, p) = CanCreate(G, op, p)
  BY <1>2, <1>3 DEF V!CanCreate, CanCreate, V!Front, Front
<1>5. ASSUME NEW G, NEW op, NEW as, NEW p PROVE V!Status(G, op, as, p) = Status(G, op, as, p)
  <2>1. /\ V!Exists(G, p) = Exists(G, p) /\ V!At(G, p) = At(G, p)
        /\ V!CanCreate(G, op, p) = CanCreate(G, op, p)
    BY <1>1, <1>2, <1>4
  <2> QED BY <2>1 DEF V!Status, Status
<1>6. ASSUME NEW G, NEW op, NEW as, NEW p PROVE V!Effect(G, op, as, p) = Effect(G, op, as, p)
  <2>1. V!Exists(G, p) = Exists(G, p) /\ V!CanCreate(G, op, p) = CanCreate(G, op, p)
    BY <1>2, <1>4
  <2> QED BY <2>1 DEF V!Effect, Effect
<1>7. ASSUME NEW G, NEW from, NEW to, NEW shared
      PROVE  V!MoveStatus(G, from, to, shared) = MoveStatus(G, from, to, shared)
  <2>1. V!Exists(G, to) = Exists(G, to) /\ V!CanCreate(G, "CREATE", to) = CanCreate(G, "CREATE", to)
    BY <1>2, <1>4
  <2> QED BY <2>1 DEF V!MoveStatus, MoveStatus
<1>8. \A G, from, to : V!Moved(G, from, to) = Moved(G, from, to)
  BY <1>1 DEF V!Moved, Moved
<1>9. \A G, p : V!Removed(G, p) = Removed(G, p)
  BY <1>2 DEF V!Removed, Removed, V!Removable, Removable, V!Front, Front
<1>10. \A G : V!Consistent(G) = Consistent(G)
  BY <1>2 DEF V!Consistent, Consistent, V!Front, Front
<1>11. /\ V!Idle = Idle /\ V!NoPath = NoPath
       /\ \A op, as, p : V!Asking(op, as, p) = Asking(op, as, p)
       /\ \A status : V!Answered(status) = Answered(status)
  BY DEF V!Idle, Idle, V!NoPath, NoPath, V!Asking, Asking, V!Answered, Answered
<1>12. V!Operations = Operations /\ V!Demands = Demands
  BY <1>3 DEF V!Operations, Operations, V!Demands, Demands
<1> QED BY <1>5, <1>6, <1>7, <1>8, <1>9, <1>10, <1>11, <1>12

\* The actions of FilesystemView, on what the application sees.
LEMMA ViewActions ==
  ASSUME NEW t \in Threads
  PROVE  /\ V!VAsk(t) <=>
              /\ TalkNow[t] = Idle
              /\ \E op \in Operations, as \in Demands, p \in Paths :
                   /\ op = "RENAME" => HeldNow[t] # NoPath
                   /\ TalkNow' = [TalkNow EXCEPT ![t] = Asking(op, as, p)]
              /\ ViewNow' = ViewNow /\ HeldNow' = HeldNow
         /\ V!VTake(t) <=>
              /\ TalkNow[t].step = "asked" /\ TalkNow[t].op # "RENAME"
              /\ ViewNow' = Effect(ViewNow, TalkNow[t].op, TalkNow[t].as, TalkNow[t].path)
              /\ HeldNow' = IF /\ Status(ViewNow, TalkNow[t].op, TalkNow[t].as, TalkNow[t].path)
                                    = "success"
                               /\ TalkNow[t].op # "QUERY"
                            THEN [HeldNow EXCEPT ![t] = TalkNow[t].path] ELSE HeldNow
              /\ TalkNow' = [TalkNow EXCEPT ![t] =
                   Answered(Status(ViewNow, TalkNow[t].op, TalkNow[t].as, TalkNow[t].path))]
         /\ V!VReturn(t) <=>
              /\ TalkNow[t].step = "answered"
              /\ TalkNow' = [TalkNow EXCEPT ![t] = Idle]
              /\ ViewNow' = ViewNow /\ HeldNow' = HeldNow
         /\ V!VClose(t) <=>
              /\ TalkNow[t] = Idle /\ HeldNow[t] # NoPath
              /\ HeldNow' = [HeldNow EXCEPT ![t] = NoPath]
              /\ ViewNow' \in {ViewNow, Removed(ViewNow, HeldNow[t])}
              /\ TalkNow' = TalkNow
<1>1. V!VAsk(t) <=>
        /\ TalkNow[t] = Idle
        /\ \E op \in Operations, as \in Demands, p \in Paths :
             /\ op = "RENAME" => HeldNow[t] # NoPath
             /\ TalkNow' = [TalkNow EXCEPT ![t] = Asking(op, as, p)]
        /\ ViewNow' = ViewNow /\ HeldNow' = HeldNow
  <2>1. V!VAsk(t) <=>
          /\ TalkNow[t] = V!Idle
          /\ \E op \in V!Operations, as \in V!Demands, p \in Paths :
               /\ op = "RENAME" => HeldNow[t] # V!NoPath
               /\ TalkNow' = [TalkNow EXCEPT ![t] = V!Asking(op, as, p)]
          /\ ViewNow' = ViewNow /\ HeldNow' = HeldNow
    BY DEF V!VAsk, ViewNow, HeldNow, TalkNow, TalkOf
  <2> QED BY <2>1, ViewOperators
<1>2. V!VTake(t) <=>
        /\ TalkNow[t].step = "asked" /\ TalkNow[t].op # "RENAME"
        /\ ViewNow' = Effect(ViewNow, TalkNow[t].op, TalkNow[t].as, TalkNow[t].path)
        /\ HeldNow' = IF /\ Status(ViewNow, TalkNow[t].op, TalkNow[t].as, TalkNow[t].path)
                              = "success"
                         /\ TalkNow[t].op # "QUERY"
                      THEN [HeldNow EXCEPT ![t] = TalkNow[t].path] ELSE HeldNow
        /\ TalkNow' = [TalkNow EXCEPT ![t] =
             Answered(Status(ViewNow, TalkNow[t].op, TalkNow[t].as, TalkNow[t].path))]
  BY ViewOperators DEF V!VTake, ViewNow, HeldNow, TalkNow, TalkOf
<1>3. V!VReturn(t) <=>
        /\ TalkNow[t].step = "answered"
        /\ TalkNow' = [TalkNow EXCEPT ![t] = Idle]
        /\ ViewNow' = ViewNow /\ HeldNow' = HeldNow
  BY ViewOperators DEF V!VReturn, ViewNow, HeldNow, TalkNow, TalkOf
<1>4. V!VClose(t) <=>
        /\ TalkNow[t] = Idle /\ HeldNow[t] # NoPath
        /\ HeldNow' = [HeldNow EXCEPT ![t] = NoPath]
        /\ ViewNow' \in {ViewNow, Removed(ViewNow, HeldNow[t])}
        /\ TalkNow' = TalkNow
  BY ViewOperators DEF V!VClose, ViewNow, HeldNow, TalkNow, TalkOf
<1> QED BY <1>1, <1>2, <1>3, <1>4

LEMMA ViewMoveAction ==
  ASSUME NEW t \in Threads, NEW shared, shared <=> \E u \in Threads \ {t} : HeldNow[u] = HeldNow[t],
         NEW status, status = MoveStatus(ViewNow, HeldNow[t], TalkNow[t].path, shared),
         TalkNow[t].step = "asked", TalkNow[t].op = "RENAME",
         ViewNow' = IF status = "success" THEN Moved(ViewNow, HeldNow[t], TalkNow[t].path)
                    ELSE ViewNow,
         HeldNow' = IF status = "success" THEN [HeldNow EXCEPT ![t] = TalkNow[t].path] ELSE HeldNow,
         TalkNow' = [TalkNow EXCEPT ![t] = Answered(status)]
  PROVE  V!VMove(t)
<1>1. status = MoveStatus(ViewNow, HeldNow[t], TalkNow[t].path,
                          \E u \in Threads \ {t} : HeldNow[u] = HeldNow[t])
  BY DEF MoveStatus
<1> QED BY <1>1, ViewOperators DEF V!VMove, ViewNow, HeldNow, TalkNow, TalkOf

\* Nothing that is seen changes.
LEMMA ViewStutters ==
  ASSUME ViewNow' = ViewNow, HeldNow' = HeldNow, TalkNow' = TalkNow
  PROVE  UNCHANGED V!viewVars
BY DEF V!viewVars, ViewNow, HeldNow, TalkNow, TalkOf

-----------------------------------------------------------------------------
(* Every step is one of FilesystemView, or changes nothing that is seen. *)

Viewed(t) ==
  \/ V!VAsk(t) \/ V!VTake(t) \/ V!VMove(t) \/ V!VReturn(t) \/ V!VClose(t)
  \/ UNCHANGED V!viewVars

LEMMA NothingChanges ==
  ASSUME SInv, NEW F, NEW App, OrdinaryFrom(F, App)
  PROVE  SoundChange(rules, App, files, files)
BY DEF OrdinaryFrom, FilesKept, SoundChange

LEMMA ReturnViewed ==
  ASSUME SimpleMode, SInv, NEW F, NEW App, OrdinaryFrom(F, App), NEW t \in Threads, Return(t)
  PROVE  OrdinaryFrom(F, App)' /\ Viewed(t)
<1>1. /\ rules' = rules /\ files' = files /\ handle' = handle
      /\ call' = [call EXCEPT ![t] = Idle] /\ call[t].step = "answered"
  BY DEF Return
<1>2. handle' = [handle EXCEPT ![t] = handle[t]]
  BY <1>1 DEF SInv, IInv, TypeOK
<1>3. SoundChange(rules, App, files, files')
  BY <1>1, NothingChanges
<1>4. Idle.step = "idle" /\ TalkOf(Idle) = Idle
  BY DEF Idle, TalkOf
<1>5. OrdinaryFrom(F, App)'
  <2>1. handle[t] = NoHandle \/ handle[t].name \in App
    BY DEF OrdinaryFrom
  <2>2. \A u \in Threads \ {t} : handle[u] # NoHandle /\ At(files, handle[u].at) = "file" =>
          At(files', handle[u].at) = "file"
    BY <1>1
  <2> QED BY <1>1, <1>2, <1>3, <1>4, <2>1, <2>2, StepOrdinary
<1>6. ViewNow' = ViewNow
  BY <1>1, <1>3, ViewBothTimes
<1>7. HeldNow' = HeldNow
  BY <1>1 DEF HeldNow
<1>8. TalkNow' = [TalkNow EXCEPT ![t] = Idle] /\ TalkNow[t].step = "answered"
  BY <1>1, <1>4, TalkStep DEF TalkOf
<1>9. V!VReturn(t)
  BY <1>6, <1>7, <1>8, ViewActions
<1> QED BY <1>5, <1>9 DEF Viewed

LEMMA CloseViewed ==
  ASSUME SimpleMode, SInv, NEW F, NEW App, OrdinaryFrom(F, App), NEW t \in Threads, Close(t)
  PROVE  OrdinaryFrom(F, App)' /\ Viewed(t)
<1>1. /\ rules' = rules /\ call' = call /\ call[t] = Idle /\ handle[t] # NoHandle
      /\ handle' = [handle EXCEPT ![t] = NoHandle]
      /\ \/ files' = files
         \/ /\ ~IsPrefixForAnyRule(rules, handle[t].name) /\ ~Shared(t)
            /\ files' = Removed(files, handle[t].at)
  BY DEF Close
<1>2. call' = [call EXCEPT ![t] = call[t]]
  BY <1>1 DEF SInv, IInv, TypeOK
<1>3. PICK n : n = handle[t].name
  OBVIOUS
<1>4. /\ n \in App /\ n \in Paths /\ handle[t].at = Place(rules, n)
      /\ Suitable(rules, F, App) /\ FilesKept(rules, F, files)
  BY <1>1, <1>3, HandlePlace DEF OrdinaryFrom
<1>5. /\ SoundChange(rules, App, files, files')
      /\ ViewOf(rules, files') \in {ViewOf(rules, files), Removed(ViewOf(rules, files), n)}
      /\ files' # files => ~Shared(t) /\ \A q \in Paths : files'[q] # files[q] => q = handle[t].at
  <2>1. CASE files' = files
    BY <2>1, NothingChanges
  <2>2. CASE files' # files
    BY <1>1, <1>3, <1>4, <2>2, RemoveOnView
  <2> QED BY <2>1, <2>2
<1>6. Idle.step = "idle" /\ NoHandle.name = NoPath
  BY DEF Idle, NoHandle
<1>7. OrdinaryFrom(F, App)'
  <2>1. ASSUME NEW u \in Threads \ {t}, handle[u] # NoHandle, At(files, handle[u].at) = "file"
        PROVE  At(files', handle[u].at) = "file"
    <3>1. handle[u].at \in Paths
      BY <2>1, HandlePlace
    <3>2. files'[handle[u].at] = files[handle[u].at]
      BY <1>5, <3>1 DEF Shared
    <3>3. files \in [Paths -> Kinds] /\ files' \in [Paths -> Kinds]
      BY <1>4, <1>5 DEF FilesKept, SoundChange
    <3> QED BY <2>1, <3>1, <3>2, <3>3, AtKind
  <2> QED BY <1>1, <1>2, <1>5, <1>6, <2>1, StepOrdinary
<1>8. ViewNow' \in {ViewNow, Removed(ViewNow, n)}
  BY <1>1, <1>5, ViewBothTimes
<1>9. HeldNow[t] = n /\ HeldNow' = [HeldNow EXCEPT ![t] = NoPath]
  BY <1>1, <1>3, <1>6, HeldStep DEF HeldNow
<1>10. TalkNow' = TalkNow /\ TalkNow[t] = Idle
  BY <1>1, <1>2, <1>6, TalkStep DEF TalkOf
<1>11. n # NoPath
  BY <1>4, PathsAssumption, NoPathAssumption
<1>12. V!VClose(t)
  BY <1>8, <1>9, <1>10, <1>11, ViewActions
<1> QED BY <1>7, <1>12 DEF Viewed

\* A step that changes the progress of the call and nothing that is seen.
LEMMA ProgressViewed ==
  ASSUME SimpleMode, SInv, NEW F, NEW App, OrdinaryFrom(F, App), NEW t \in Threads,
         call[t].step \notin {"idle", "answered"},
         NEW c, call' = [call EXCEPT ![t] = c], c.step \notin {"idle", "answered"},
         c.op = call[t].op, c.as = call[t].as, c.name = call[t].name,
         rules' = rules, handle' = handle, SoundChange(rules, App, files, files'),
         ViewOf(rules, files') = ViewOf(rules, files),
         \A q \in Paths : files'[q] # files[q] => files[q] = "none",
         CallOrdinary(rules, F, App, files', c, handle[t])
  PROVE  OrdinaryFrom(F, App)' /\ Viewed(t)
<1>1. handle' = [handle EXCEPT ![t] = handle[t]]
  BY DEF SInv, IInv, TypeOK
<1>2. OrdinaryFrom(F, App)'
  <2>1. handle[t] = NoHandle \/ handle[t].name \in App
    BY DEF OrdinaryFrom
  <2>2. ASSUME NEW u \in Threads \ {t}, handle[u] # NoHandle, At(files, handle[u].at) = "file"
        PROVE  At(files', handle[u].at) = "file"
    <3>1. handle[u].at \in Paths
      BY <2>2, HandlePlace
    <3>2. files \in [Paths -> Kinds] /\ files' \in [Paths -> Kinds]
      BY DEF OrdinaryFrom, FilesKept, SoundChange
    <3> QED BY <2>2, <3>1, <3>2, AtKind
  <2> QED BY <1>1, <2>1, <2>2, StepOrdinary
<1>3. ViewNow' = ViewNow
  BY ViewBothTimes
<1>4. HeldNow' = HeldNow
  BY DEF HeldNow
<1>5. TalkNow' = TalkNow
  BY TalkStep DEF TalkOf
<1> QED BY <1>2, <1>3, <1>4, <1>5, ViewStutters DEF Viewed

LEMMA ClimbViewed ==
  ASSUME SimpleMode, SInv, NEW F, NEW App, OrdinaryFrom(F, App), NEW t \in Threads, Climb(t)
  PROVE  OrdinaryFrom(F, App)' /\ Viewed(t)
<1>1. PICK e : e = call[t]
  OBVIOUS
<1>2. /\ e \in Call /\ CallFaithful(e) /\ CallLocated(e) /\ e.step = "climb"
      /\ CallOrdinary(rules, F, App, files, e, handle[t])
      /\ rules' = rules /\ files' = files /\ handle' = handle
  BY <1>1, UnderWayOrdinary DEF Climb
<1>3. Suitable(rules, F, App) /\ FilesKept(rules, F, files)
  BY DEF OrdinaryFrom
<1>4. IsDirectory(files, <<>>)
  <2>1. PICK r \in rules : r.target \in Seq(Names)
    BY <1>2, <1>3, SuitableFacts DEF CallOrdinary
  <2>2. IsPrefix(<<>>, r.target)
    <3>1. PICK a \in Seq(Names) : a = <<>> /\ Len(a) = 0
      BY EmptySeq
    <3>2. Len(a) <= Len(r.target) /\ \A i \in 1 .. Len(a) : a[i] = r.target[i]
      BY <2>1, <3>1
    <3> QED BY <2>1, <3>1, <3>2, PrefixElements
  <2>3. files[<<>>] = "dir" /\ <<>> \in Paths /\ files \in [Paths -> Kinds]
    BY <1>3, <2>2, SuitableFacts DEF FilesKept
  <2> QED BY <2>3, AtKind DEF IsDirectory
<1>5. PICK level, step :
        /\ call' = [call EXCEPT ![t] = [e EXCEPT !.level = level, !.step = step]]
        /\ step \in {"climb", "descend", "attempt"}
        /\ step = "descend" => IsDirectory(files, level)
        /\ step = "attempt" => IsDirectory(files, e.ensure)
  <2>0. e.ensure # <<>>
    BY <1>2 DEF CallOrdinary
  <2>1. CASE IsDirectory(files, e.level)
    <3>1. PICK step : step = IF e.level = e.ensure THEN "attempt" ELSE "descend"
      OBVIOUS
    <3>2. call' = [call EXCEPT ![t] = [e EXCEPT !.step = step]]
      BY <1>1, <2>0, <2>1, <3>1 DEF Climb
    <3>3. [e EXCEPT !.step = step] = [e EXCEPT !.level = e.level, !.step = step]
      BY <1>2 DEF Call
    <3> QED BY <2>1, <3>1, <3>2, <3>3
  <2>2. CASE ~IsDirectory(files, e.level)
    <3>1. PICK above, step : /\ above = Front(e.level)
                             /\ step = IF above = <<>> THEN "descend" ELSE e.step
      OBVIOUS
    <3>2. call' = [call EXCEPT ![t] = [e EXCEPT !.level = above, !.step = step]]
      BY <1>1, <2>0, <2>2, <3>1 DEF Climb
    <3>3. step \in {"climb", "descend"} /\ (step = "descend" => IsDirectory(files, above))
      BY <1>2, <1>4, <3>1
    <3> QED BY <3>2, <3>3
  <2> QED BY <2>1, <2>2
<1>6. PICK c : c = [e EXCEPT !.level = level, !.step = step]
  OBVIOUS
<1>7. /\ c.step = step /\ c.level = level /\ c.op = e.op /\ c.as = e.as /\ c.name = e.name
      /\ c.dispositions = e.dispositions /\ c.tries = e.tries /\ c.ensure = e.ensure
  BY <1>2, <1>6 DEF Call
<1>8. step = "attempt" => Ready(rules, files, e.name, e.op \in Creating \cup {"RENAME"})
  BY <1>2, <1>5 DEF CallOrdinary, Ready
<1>9. CallOrdinary(rules, F, App, files, c, handle[t])
  BY <1>2, <1>5, <1>7, <1>8 DEF CallOrdinary
<1>10. SoundChange(rules, App, files, files')
  BY <1>2, NothingChanges
<1>11. call' = [call EXCEPT ![t] = c] /\ c.step \notin {"idle", "answered"}
  BY <1>5, <1>6, <1>7
<1> QED BY <1>1, <1>2, <1>7, <1>9, <1>10, <1>11, ProgressViewed

\* The next level down is in the level that is there.
LEMMA NextLevel ==
  ASSUME NEW a \in Seq(Names), NEW s \in Seq(Names), IsPrefix(a, s), Len(a) < Len(s),
         NEW next, next = SubSeq(s, 1, Len(a) + 1)
  PROVE  next \in Seq(Names) /\ next # <<>> /\ IsPrefix(next, s) /\ Front(next) = a
<1>0. PICK m, k : m = Len(a) /\ k = Len(s)
  OBVIOUS
<1>1. /\ m = Len(a) /\ k = Len(s) /\ m \in Nat /\ k \in Nat /\ m < k
      /\ m + 1 \in 0 .. k /\ m + 1 # 0
  <2>1. m \in Nat /\ k \in Nat /\ m < k
    BY <1>0
  <2> QED BY <1>0, <2>1
<1>2. /\ next \in Seq(Names) /\ Len(next) = m + 1 /\ IsPrefix(next, s)
  BY <1>1, PrefixOfSubSeq
<1>3. \A i \in 1 .. m + 1 : next[i] = s[i]
  BY <1>2, PrefixElements
<1>4. \A i \in 1 .. m : a[i] = s[i]
  BY <1>1, PrefixElements
<1>5. next # <<>>
  BY <1>1, <1>2, EmptySeq
<1>6. /\ Front(next) \in Seq(Names) /\ Len(Front(next)) = Len(next) - 1
      /\ \A i \in 1 .. Len(next) - 1 : Front(next)[i] = next[i]
  BY <1>2, <1>5, FrontElements
<1>7. Len(Front(next)) = m /\ \A i \in 1 .. m : Front(next)[i] = a[i]
  BY <1>1, <1>2, <1>3, <1>4, <1>6
<1>8. Front(next) = a
  BY <1>1, <1>6, <1>7, SeqEqual
<1> QED BY <1>2, <1>5, <1>8

\* A step down finds the level there or creates it, whatever the other threads
\* do: it never fails, and the view stays.
LEMMA LevelReached ==
  ASSUME SimpleMode, SInv, NEW F, NEW App, OrdinaryFrom(F, App), NEW t \in Threads, Descend(t)
  PROVE  \E next, step :
           /\ call' = [call EXCEPT ![t] = [call[t] EXCEPT !.level = next, !.step = step]]
           /\ step \in {"descend", "attempt"} /\ (step = "attempt" => next = call[t].ensure)
           /\ IsDirectory(files', next)
           /\ ViewOf(rules, files') = ViewOf(rules, files)
           /\ SoundChange(rules, App, files, files')
           /\ \A q \in Paths : files'[q] # files[q] => files[q] = "none"
<1>1. PICK e : e = call[t]
  OBVIOUS
<1>2. /\ e \in Call /\ CallFaithful(e) /\ CallLocated(e) /\ e.step = "descend"
      /\ CallOrdinary(rules, F, App, files, e, handle[t])
      /\ rules' = rules /\ handle' = handle
  BY <1>1, UnderWayOrdinary DEF Descend
<1>3. /\ Suitable(rules, F, App) /\ FilesKept(rules, F, files)
      /\ e.level \in Seq(Names) /\ e.ensure \in Seq(Names)
      /\ IsPrefix(e.level, e.ensure) /\ Len(e.level) < Len(e.ensure)
  BY <1>2 DEF OrdinaryFrom, CallFaithful, CallLocated
<1>4. PICK next : next = SubSeq(e.ensure, 1, Len(e.level) + 1)
  OBVIOUS
<1>5. next \in Seq(Names) /\ next # <<>> /\ IsPrefix(next, e.ensure) /\ Front(next) = e.level
  <2>1. PICK a, s : a = e.level /\ s = e.ensure
    OBVIOUS
  <2>2. a \in Seq(Names) /\ s \in Seq(Names) /\ IsPrefix(a, s) /\ Len(a) < Len(s)
    BY <1>3, <2>1
  <2>3. next = SubSeq(s, 1, Len(a) + 1)
    BY <1>4, <2>1
  <2> QED BY <2>1, <2>2, <2>3, NextLevel
<1>6. PICK r \in rules : IsPrefix(e.ensure, r.target)
  BY <1>2 DEF CallOrdinary
<1>7. IsPrefix(next, r.target)
  <2>1. r.target \in Seq(Names)
    BY <1>3, SuitableFacts
  <2> QED BY <1>3, <1>5, <1>6, <2>1, PrefixTransitive
<1>8. IsDirectory(files, Front(next))
  BY <1>2, <1>5 DEF CallOrdinary
<1>9. PICK H : H = Effect(files, "OPEN_IF", "dir", next)
  OBVIOUS
<1>10. /\ Status(files, "OPEN_IF", "dir", next) = "success"
       /\ IsDirectory(H, next)
       /\ ViewOf(rules, H) = ViewOf(rules, files)
       /\ SoundChange(rules, App, files, H)
       /\ \A q \in Paths : H[q] # files[q] => files[q] = "none"
  BY <1>3, <1>5, <1>7, <1>8, <1>9, LevelCreated
<1>11. PICK step : step = IF next = e.ensure THEN "attempt" ELSE e.step
  OBVIOUS
<1>12. files' = H /\ call' = [call EXCEPT ![t] = [e EXCEPT !.level = next, !.step = step]]
  BY <1>1, <1>4, <1>9, <1>10, <1>11 DEF Descend
<1> QED BY <1>1, <1>2, <1>10, <1>11, <1>12

LEMMA DescendViewed ==
  ASSUME SimpleMode, SInv, NEW F, NEW App, OrdinaryFrom(F, App), NEW t \in Threads, Descend(t)
  PROVE  OrdinaryFrom(F, App)' /\ Viewed(t)
<1>1. PICK e, H : e = call[t] /\ H = files'
  OBVIOUS
<1>2. /\ e \in Call /\ e.step = "descend"
      /\ CallOrdinary(rules, F, App, files, e, handle[t])
      /\ rules' = rules /\ handle' = handle
  BY <1>1, UnderWayOrdinary DEF Descend
<1>3. FilesKept(rules, F, files)
  BY DEF OrdinaryFrom
<1>4. PICK next, step :
        /\ call' = [call EXCEPT ![t] = [e EXCEPT !.level = next, !.step = step]]
        /\ step \in {"descend", "attempt"} /\ (step = "attempt" => next = e.ensure)
        /\ IsDirectory(H, next)
        /\ ViewOf(rules, H) = ViewOf(rules, files)
        /\ SoundChange(rules, App, files, H)
        /\ \A q \in Paths : H[q] # files[q] => files[q] = "none"
  BY <1>1, LevelReached
<1>5. PICK c : c = [e EXCEPT !.level = next, !.step = step]
  OBVIOUS
<1>6. /\ c.step = step /\ c.level = next /\ c.op = e.op /\ c.as = e.as /\ c.name = e.name
      /\ c.dispositions = e.dispositions /\ c.tries = e.tries /\ c.ensure = e.ensure
  BY <1>2, <1>5 DEF Call
<1>7. step = "attempt" => Ready(rules, H, e.name, e.op \in Creating \cup {"RENAME"})
  BY <1>2, <1>4 DEF CallOrdinary, Ready
<1>8. e.op = "RENAME" => handle[t] # NoHandle /\ At(H, handle[t].at) = "file"
  <2>1. SUFFICES ASSUME e.op = "RENAME"
                 PROVE  handle[t] # NoHandle /\ At(H, handle[t].at) = "file"
    OBVIOUS
  <2>2. handle[t] # NoHandle /\ At(files, handle[t].at) = "file"
    BY <1>2, <2>1 DEF CallOrdinary
  <2>3. handle[t].at \in Paths
    BY <2>2, HandlePlace
  <2>4. files \in [Paths -> Kinds] /\ H \in [Paths -> Kinds]
    BY <1>3, <1>4 DEF FilesKept, SoundChange
  <2> QED BY <1>4, <2>2, <2>3, <2>4, AtKind
<1>9. CallOrdinary(rules, F, App, H, c, handle[t])
  BY <1>2, <1>4, <1>6, <1>7, <1>8 DEF CallOrdinary
<1>10. call' = [call EXCEPT ![t] = c] /\ c.step \notin {"idle", "answered"}
  BY <1>4, <1>5, <1>6
<1>11. /\ call[t].step \notin {"idle", "answered"}
       /\ c.op = call[t].op /\ c.as = call[t].as /\ c.name = call[t].name
  BY <1>1, <1>2, <1>6
<1>12. /\ SoundChange(rules, App, files, files') /\ ViewOf(rules, files') = ViewOf(rules, files)
       /\ \A q \in Paths : files'[q] # files[q] => files[q] = "none"
       /\ CallOrdinary(rules, F, App, files', c, handle[t])
  BY <1>1, <1>4, <1>9
<1> QED BY <1>2, <1>10, <1>11, <1>12, ProgressViewed

\* There is one disposition to try, that does not depend on what exists.
LEMMA CheckExistsNever ==
  ASSUME SInv, NEW F, NEW App, OrdinaryFrom(F, App), NEW t \in Threads
  PROVE  ~CheckExists(t)
<1> SUFFICES ASSUME CheckExists(t) PROVE FALSE
  OBVIOUS
<1>1. call[t].step = "attempt" /\ Trying(t).ifExists
  BY DEF CheckExists
<1>2. Trying(t) = Disposition(call[t].op, FALSE)
  BY <1>1, TriedPlace
<1> QED BY <1>1, <1>2 DEF Disposition

LEMMA AttemptViewed ==
  ASSUME SimpleMode, SInv, NEW F, NEW App, OrdinaryFrom(F, App), NEW t \in Threads, Attempt(t)
  PROVE  OrdinaryFrom(F, App)' /\ Viewed(t)
<1>1. call[t].step \in {"submit", "attempt"} /\ call[t].op # "RENAME" /\ rules' = rules
  BY DEF Attempt
<1>2. PICK op, as, n, p : op = call[t].op /\ as = call[t].as /\ n = call[t].name /\ p = Place(rules, n)
  OBVIOUS
<1>3. /\ call[t] \in Call /\ CallOrdinary(rules, F, App, files, call[t], handle[t])
      /\ TalkOf(call[t]) = Asking(op, as, n)
      /\ Attempted(t).at = p /\ Trying(t) = Disposition(op, FALSE) /\ Trying(t).op = op /\ IsLast(t)
  BY <1>1, <1>2, UnderWayOrdinary, TriedPlace DEF Disposition
<1>4. PICK status, H, path : /\ status = Status(files, op, as, p) /\ H = Effect(files, op, as, p)
                             /\ path = Attempted(t).path
  OBVIOUS
<1>5. /\ files' = H /\ Finish(t, status)
      /\ handle' = IF status = "success" /\ op # "QUERY"
                   THEN [handle EXCEPT ![t] = [name |-> n, at |-> p, path |-> path]] ELSE handle
  BY <1>2, <1>3, <1>4 DEF Attempt
<1>6. /\ Suitable(rules, F, App) /\ FilesKept(rules, F, files)
      /\ n \in App /\ op \in Operations /\ as \in Demands /\ op # "RENAME"
      /\ n \in Origins(rules) => OriginIsKnown(rules, F, n, op, as)
      /\ Ready(rules, files, n, op \in Creating \cup {"RENAME"})
  BY <1>1, <1>2, <1>3 DEF CallOrdinary, OrdinaryFrom, Call
<1>7. /\ Status(ViewOf(rules, files), op, as, n) = status
      /\ ViewOf(rules, H) = Effect(ViewOf(rules, files), op, as, n)
      /\ SoundChange(rules, App, files, H)
      /\ \A q \in Paths : H[q] # files[q] => files[q] = "none"
  BY <1>2, <1>4, <1>6, StatusOnView
<1>8. /\ call' = [call EXCEPT ![t] = Answered(status)]
      /\ Answered(status).step = "answered" /\ TalkOf(Answered(status)) = Answered(status)
  BY <1>5 DEF Finish, Answered, TalkOf
<1>9. PICK h : h = IF status = "success" /\ op # "QUERY"
                   THEN [name |-> n, at |-> p, path |-> path] ELSE handle[t]
  OBVIOUS
<1>10. handle' = [handle EXCEPT ![t] = h]
  <2>1. handle = [handle EXCEPT ![t] = handle[t]]
    BY DEF SInv, IInv, TypeOK
  <2> QED BY <1>5, <1>9, <2>1
<1>11. h = NoHandle \/ h.name \in App
  BY <1>6, <1>9 DEF OrdinaryFrom
<1>12. OrdinaryFrom(F, App)'
  <2>1. ASSUME NEW u \in Threads \ {t}, handle[u] # NoHandle, At(files, handle[u].at) = "file"
        PROVE  At(files', handle[u].at) = "file"
    <3>1. handle[u].at \in Paths
      BY <2>1, HandlePlace
    <3>2. files \in [Paths -> Kinds] /\ H \in [Paths -> Kinds]
      BY <1>6, <1>7 DEF FilesKept, SoundChange
    <3> QED BY <1>5, <1>7, <2>1, <3>1, <3>2, AtKind
  <2> QED BY <1>1, <1>5, <1>7, <1>8, <1>10, <1>11, <2>1, StepOrdinary
<1>13. ViewNow = ViewOf(rules, files) /\ ViewNow' = ViewOf(rules, H)
  BY <1>1, <1>5, <1>7, ViewBothTimes
<1>14. HeldNow' = IF status = "success" /\ op # "QUERY" THEN [HeldNow EXCEPT ![t] = n] ELSE HeldNow
  <2>1. CASE status = "success" /\ op # "QUERY"
    <3>1. h.name = n
      BY <1>9, <2>1
    <3>2. HeldNow' = [HeldNow EXCEPT ![t] = h.name]
      BY <1>10, HeldStep
    <3> QED BY <2>1, <3>1, <3>2
  <2>2. CASE ~(status = "success" /\ op # "QUERY")
    BY <1>5, <2>2 DEF HeldNow
  <2> QED BY <2>1, <2>2
<1>15. TalkNow[t] = Asking(op, as, n) /\ TalkNow' = [TalkNow EXCEPT ![t] = Answered(status)]
  <2>1. /\ TalkNow' = [TalkNow EXCEPT ![t] = TalkOf(Answered(status))]
        /\ TalkNow[t] = TalkOf(call[t])
    BY <1>8, TalkStep
  <2> QED BY <1>3, <1>8, <2>1
<1>16. /\ TalkNow[t].step = "asked" /\ TalkNow[t].op = op /\ TalkNow[t].as = as
       /\ TalkNow[t].path = n
  BY <1>15 DEF Asking
<1>17. V!VTake(t)
  BY <1>6, <1>7, <1>13, <1>14, <1>15, <1>16, ViewActions
<1> QED BY <1>12, <1>17 DEF Viewed

LEMMA MoveViewed ==
  ASSUME SimpleMode, SInv, NEW F, NEW App, OrdinaryFrom(F, App), NEW t \in Threads, Move(t)
  PROVE  OrdinaryFrom(F, App)' /\ Viewed(t)
<1>1. call[t].step = "attempt" /\ call[t].op = "RENAME" /\ rules' = rules
  BY DEF Move
<1>2. PICK as, n, p : as = call[t].as /\ n = call[t].name /\ p = Place(rules, n)
  OBVIOUS
<1>3. /\ call[t] \in Call /\ CallOrdinary(rules, F, App, files, call[t], handle[t])
      /\ TalkOf(call[t]) = Asking("RENAME", as, n)
      /\ Attempted(t).at = p /\ IsLast(t)
  BY <1>1, <1>2, UnderWayOrdinary, TriedPlace
<1>4. PICK m, from : m = handle[t].name /\ from = handle[t].at
  OBVIOUS
<1>5. handle[t] # NoHandle /\ At(files, from) = "file"
  BY <1>1, <1>3, <1>4 DEF CallOrdinary
<1>6. m \in App /\ m \in Paths /\ m \in VisibleUnder(rules) /\ from = Place(rules, m) /\ from \in Paths
  BY <1>4, <1>5, HandlePlace
<1>7. PICK shared : shared = Shared(t)
  OBVIOUS
<1>8. PICK status, H, path : /\ status = MoveStatus(files, from, p, shared)
                             /\ H = Moved(files, from, p) /\ path = Attempted(t).path
  OBVIOUS
<1>9. /\ files' = IF status = "success" THEN H ELSE files
      /\ Finish(t, status)
      /\ handle' = IF status = "success"
                   THEN [handle EXCEPT ![t] = [name |-> n, at |-> p, path |-> path]] ELSE handle
  BY <1>2, <1>3, <1>4, <1>7, <1>8 DEF Move
<1>10. /\ Suitable(rules, F, App) /\ FilesKept(rules, F, files)
       /\ n \in App
       /\ n \in Origins(rules) => OriginIsKnown(rules, F, n, "RENAME", as)
       /\ Ready(rules, files, n, TRUE)
  <2>1. ("RENAME" \in Creating \cup {"RENAME"}) = TRUE
    OBVIOUS
  <2>2. Ready(rules, files, n, "RENAME" \in Creating \cup {"RENAME"})
    BY <1>1, <1>2, <1>3 DEF CallOrdinary
  <2>3. Ready(rules, files, n, TRUE)
    BY <2>1, <2>2
  <2> QED BY <1>1, <1>2, <1>3, <2>3 DEF CallOrdinary, OrdinaryFrom
<1>11. /\ MoveStatus(ViewOf(rules, files), m, n, shared) = status
       /\ status = "success" =>
            /\ ViewOf(rules, H) = Moved(ViewOf(rules, files), m, n)
            /\ SoundChange(rules, App, files, H)
            /\ p # from => ~shared /\ files[p] = "none"
  <2>1. At(files, Place(rules, m)) = "file"
    BY <1>5, <1>6
  <2>2. status = MoveStatus(files, Place(rules, m), Place(rules, n), shared)
    BY <1>2, <1>6, <1>8
  <2>3. H = Moved(files, Place(rules, m), Place(rules, n))
    BY <1>2, <1>6, <1>8
  <2>4. /\ MoveStatus(ViewOf(rules, files), m, n, shared) = status
        /\ status = "success" =>
             /\ ViewOf(rules, H) = Moved(ViewOf(rules, files), m, n)
             /\ SoundChange(rules, App, files, H)
             /\ Place(rules, m) # Place(rules, n) => ~shared /\ files[Place(rules, n)] = "none"
    <3>0. as \in Demands /\ shared \in BOOLEAN
      BY <1>2, <1>3, <1>7 DEF Call, Shared
    <3>1. /\ Suitable(rules, F, App) /\ FilesKept(rules, F, files) /\ m \in App /\ n \in App
          /\ KnownOrigin(rules, F, n, "RENAME", as)
          /\ Ready(rules, files, n, TRUE)
      BY <1>6, <1>10 DEF KnownOrigin
    <3>2. MoveAgrees(rules, App, files, m, n, shared)
      BY <2>1, <3>0, <3>1, MoveOnView
    <3> QED BY <2>2, <2>3, <3>2 DEF MoveAgrees
  <2> QED BY <1>2, <1>6, <2>4
<1>12. SoundChange(rules, App, files, files')
  <2>1. CASE status = "success"
    BY <1>9, <1>11, <2>1
  <2>2. CASE status # "success"
    BY <1>9, <2>2, NothingChanges
  <2> QED BY <2>1, <2>2
<1>13. /\ call' = [call EXCEPT ![t] = Answered(status)]
       /\ Answered(status).step = "answered" /\ TalkOf(Answered(status)) = Answered(status)
  BY <1>9 DEF Finish, Answered, TalkOf
<1>14. PICK h : h = IF status = "success"
                    THEN [name |-> n, at |-> p, path |-> path] ELSE handle[t]
  OBVIOUS
<1>15. handle' = [handle EXCEPT ![t] = h]
  <2>1. handle = [handle EXCEPT ![t] = handle[t]]
    BY DEF SInv, IInv, TypeOK
  <2> QED BY <1>9, <1>14, <2>1
<1>16. h = NoHandle \/ h.name \in App
  BY <1>10, <1>14 DEF OrdinaryFrom
<1>17. files \in [Paths -> Kinds] /\ files' \in [Paths -> Kinds] /\ p \in Paths
  BY <1>2, <1>10, <1>12, SuitableFacts DEF FilesKept, SoundChange
<1>18. ASSUME NEW u \in Threads \ {t}, handle[u] # NoHandle, At(files, handle[u].at) = "file"
       PROVE  At(files', handle[u].at) = "file"
  <2>1. PICK q : q = handle[u].at
    OBVIOUS
  <2>2. q \in Paths /\ files[q] = "file"
    BY <1>17, <1>18, <2>1, HandlePlace, AtKind
  <2>3. files'[q] = "file"
    <3>1. CASE status # "success"
      BY <1>9, <2>2, <3>1
    <3>2. CASE status = "success"
      <4>1. files' = H /\ H = [files EXCEPT ![from] = "none", ![p] = "file"]
        BY <1>5, <1>8, <1>9, <3>2 DEF Moved
      <4>2. CASE p = from
        BY <1>6, <1>17, <2>2, <4>1, <4>2
      <4>3. CASE p # from
        <5>1. q # from
          BY <1>4, <1>7, <1>11, <2>1, <3>2, <4>3 DEF Shared
        <5> QED BY <1>17, <2>2, <4>1, <5>1
      <4> QED BY <4>2, <4>3
    <3> QED BY <3>1, <3>2
  <2> QED BY <1>17, <2>1, <2>2, <2>3, AtKind
<1>19. OrdinaryFrom(F, App)'
  BY <1>1, <1>12, <1>13, <1>15, <1>16, <1>18, StepOrdinary
<1>20. ViewNow = ViewOf(rules, files) /\ ViewNow' = ViewOf(rules, files')
  BY <1>1, <1>12, ViewBothTimes
<1>21. ViewNow' = IF status = "success" THEN Moved(ViewNow, m, n) ELSE ViewNow
  <2>1. CASE status = "success"
    BY <1>9, <1>11, <1>20, <2>1
  <2>2. CASE status # "success"
    BY <1>9, <1>20, <2>2
  <2> QED BY <2>1, <2>2
<1>22. HeldNow[t] = m
  BY <1>4 DEF HeldNow
<1>23. HeldNow' = IF status = "success" THEN [HeldNow EXCEPT ![t] = n] ELSE HeldNow
  <2>1. CASE status = "success"
    <3>1. h.name = n
      BY <1>14, <2>1
    <3>2. HeldNow' = [HeldNow EXCEPT ![t] = h.name]
      BY <1>15, HeldStep
    <3> QED BY <2>1, <3>1, <3>2
  <2>2. CASE status # "success"
    BY <1>9, <2>2 DEF HeldNow
  <2> QED BY <2>1, <2>2
<1>24. TalkNow[t] = Asking("RENAME", as, n) /\ TalkNow' = [TalkNow EXCEPT ![t] = Answered(status)]
  <2>1. /\ TalkNow' = [TalkNow EXCEPT ![t] = TalkOf(Answered(status))]
        /\ TalkNow[t] = TalkOf(call[t])
    BY <1>13, TalkStep
  <2> QED BY <1>3, <1>13, <2>1
<1>25. TalkNow[t].step = "asked" /\ TalkNow[t].op = "RENAME" /\ TalkNow[t].path = n
  BY <1>24 DEF Asking
<1>26. shared <=> \E u \in Threads \ {t} : HeldNow[u] = HeldNow[t]
  <2>1. ASSUME NEW u \in Threads \ {t} PROVE handle[u].at = from <=> handle[u].name = m
    <3>1. CASE handle[u] = NoHandle
      BY <1>6, <3>1, PathsAssumption, NoPathAssumption DEF NoHandle
    <3>2. CASE handle[u] # NoHandle
      <4>1. /\ handle[u].name \in VisibleUnder(rules)
            /\ handle[u].at = Place(rules, handle[u].name)
        BY <3>2, HandlePlace
      <4>2. ValidRules(rules)
        BY <1>10, SuitableFacts
      <4> QED BY <1>6, <4>1, <4>2, PlaceInjective
    <3> QED BY <3>1, <3>2
  <2>2. \A u \in Threads : HeldNow[u] = handle[u].name
    BY DEF HeldNow
  <2> QED BY <1>4, <1>7, <1>22, <2>1, <2>2 DEF Shared
<1>27. V!VMove(t)
  <2>1. status = MoveStatus(ViewNow, HeldNow[t], TalkNow[t].path, shared)
    BY <1>11, <1>20, <1>22, <1>25
  <2>2. ViewNow' = IF status = "success" THEN Moved(ViewNow, HeldNow[t], TalkNow[t].path)
                   ELSE ViewNow
    BY <1>21, <1>22, <1>25
  <2>3. HeldNow' = IF status = "success" THEN [HeldNow EXCEPT ![t] = TalkNow[t].path] ELSE HeldNow
    BY <1>23, <1>25
  <2> QED BY <1>24, <1>25, <1>26, <2>1, <2>2, <2>3, ViewMoveAction
<1> QED BY <1>19, <1>27 DEF Viewed

\* The application names what its requests name.
LEMMA NamedInApp ==
  ASSUME SInv, NEW F, NEW App, OrdinaryFrom(F, App), ClosedUnderRequests(App),
         NEW t \in Threads, NEW req \in Requests, MayAsk(t, req)
  PROVE  Named(t, req) \in NamedBy(App, req) /\ Named(t, req) \in App
<1>1. Named(t, req) \in NamedBy(App, req)
  <2>1. CASE ~req.root
    BY <2>1 DEF Named, NamedBy
  <2>2. CASE req.root /\ req.op # "RENAME"
    <3>1. handle[t].name \in Roots
      BY <2>2 DEF MayAsk
    <3>2. handle[t] # NoHandle
      BY <3>1, RequestsAssumption, PathsAssumption, NoPathAssumption DEF NoHandle
    <3>3. handle[t].name \in App
      BY <3>2 DEF OrdinaryFrom
    <3>4. Named(t, req) = handle[t].name \o req.path
      BY <2>2 DEF Named
    <3> QED BY <2>2, <3>1, <3>3, <3>4 DEF NamedBy
  <2>3. CASE req.root /\ req.op = "RENAME"
    <3>1. handle[t] # NoHandle
      BY <2>3 DEF MayAsk, MayRename
    <3>2. handle[t].name \in App
      BY <3>1 DEF OrdinaryFrom
    <3>3. ~Stored(handle[t]) => handle[t].at = handle[t].name
      BY <3>1 DEF Stored, SInv, LocatedInv, Located, Selected, PassedOn
    <3>4. Named(t, req) = Front(handle[t].name) \o req.path
      BY <2>3, <3>3 DEF Named
    <3> QED BY <2>3, <3>2, <3>4 DEF NamedBy
  <2> QED BY <2>1, <2>2, <2>3
<1>2. Named(t, req) \in Paths
  BY DEF MayAsk
<1> QED BY <1>1, <1>2 DEF ClosedUnderRequests

\* A call that begins is ordinary if the directories it needs will be there.
LEMMA BeginViewed ==
  ASSUME SimpleMode, SInv, NEW F, NEW App, OrdinaryFrom(F, App), ClosedUnderRequests(App),
         NEW t \in Threads, NEW req \in Requests, MayAsk(t, req),
         NEW mode, mode # "Overlay", NEW ensure, NEW a, NEW path,
         NEW step, step = IF ensure = NoPath THEN "attempt" ELSE "climb",
         EnsureOrdinary(rules, files, Named(t, req), req.op \in Creating \cup {"RENAME"}, ensure),
         Begin(t, req, mode, step, ensure, <<File(a, path)>>),
         UNCHANGED <<rules, files, handle>>
  PROVE  OrdinaryFrom(F, App)' /\ Viewed(t)
<1>1. PICK n, ds, tries : /\ n = Named(t, req) /\ ds = CreateDispositionsToTry(mode, req.op)
                          /\ tries = <<File(a, path)>>
  OBVIOUS
<1>2. PICK c : c = [step |-> step, op |-> req.op, as |-> req.as, name |-> n, mode |-> mode,
                    ensure |-> ensure, level |-> ensure, dispositions |-> ds, tries |-> tries,
                    d |-> 1, f |-> 1]
  OBVIOUS
<1>3. call' = [call EXCEPT ![t] = c] /\ rules' = rules /\ files' = files /\ handle' = handle
  BY <1>1, <1>2 DEF Begin
<1>4. /\ c.step = step /\ c.op = req.op /\ c.as = req.as /\ c.name = n /\ c.ensure = ensure
      /\ c.dispositions = ds /\ c.tries = tries
  BY <1>2
<1>5. ds = <<Disposition(req.op, FALSE)>> /\ Len(tries) = 1
  BY <1>1 DEF CreateDispositionsToTry
<1>6. n \in NamedBy(App, req) /\ n \in App /\ n \in Paths
  BY <1>1, NamedInApp DEF MayAsk
<1>7. n \in Origins(rules) => OriginIsKnown(rules, F, n, req.op, req.as)
  BY <1>6 DEF OrdinaryFrom, OriginsAreKnown
<1>8. req.op = "RENAME" => handle[t] # NoHandle /\ At(files, handle[t].at) = "file"
  BY DEF MayAsk, MayRename
<1>9. step \in {"attempt", "climb"} /\ (step = "climb" => ensure # NoPath)
      /\ (step = "attempt" => ensure = NoPath)
  OBVIOUS
<1>10. CallOrdinary(rules, F, App, files', c, handle[t])
  BY <1>1, <1>3, <1>4, <1>5, <1>6, <1>7, <1>8, <1>9 DEF CallOrdinary, EnsureOrdinary
<1>11. SoundChange(rules, App, files, files')
  BY <1>3, NothingChanges
<1>12. OrdinaryFrom(F, App)'
  <2>1. handle' = [handle EXCEPT ![t] = handle[t]]
    BY <1>3 DEF SInv, IInv, TypeOK
  <2>2. handle[t] = NoHandle \/ handle[t].name \in App
    BY DEF OrdinaryFrom
  <2>3. \A u \in Threads \ {t} : handle[u] # NoHandle /\ At(files, handle[u].at) = "file" =>
          At(files', handle[u].at) = "file"
    BY <1>3
  <2> QED BY <1>3, <1>10, <1>11, <2>1, <2>2, <2>3, StepOrdinary
<1>13. ViewNow' = ViewNow
  BY <1>3, <1>11, ViewBothTimes
<1>14. HeldNow' = HeldNow
  BY <1>3 DEF HeldNow
<1>15. TalkOf(c) = Asking(req.op, req.as, n)
  BY <1>4, <1>9 DEF TalkOf
<1>16. TalkNow[t] = Idle
  BY DEF MayAsk, TalkNow, TalkOf, Idle
<1>17. TalkNow' = [TalkNow EXCEPT ![t] = Asking(req.op, req.as, n)]
  BY <1>3, <1>15, TalkStep
<1>18. req.op \in Operations /\ req.as \in Demands
  BY RequestsAssumption DEF Request
<1>19. req.op = "RENAME" => HeldNow[t] # NoPath
  <2>1. SUFFICES ASSUME req.op = "RENAME" PROVE HeldNow[t] # NoPath
    OBVIOUS
  <2>2. handle[t].name \in Seq(Names)
    BY <1>8, <2>1, HandlePlace
  <2> QED BY <2>2, NoPathAssumption DEF HeldNow
<1>20. V!VAsk(t)
  BY <1>6, <1>13, <1>14, <1>16, <1>17, <1>18, <1>19, ViewActions
<1> QED BY <1>12, <1>20 DEF Viewed

LEMMA NothingNeeded ==
  ASSUME NEW R, NEW G, NEW n, RuleFor(R, n) = {}, NEW creates
  PROVE  Ready(R, G, n, creates)
BY DEF Ready, Needed

LEMMA AskViewed ==
  ASSUME SimpleMode, SInv, NEW F, NEW App, OrdinaryFrom(F, App), ClosedUnderRequests(App),
         LocatedInv', NEW t \in Threads, Ask(t)
  PROVE  OrdinaryFrom(F, App)' /\ Viewed(t)
<1>1. PICK req \in Requests :
        /\ MayAsk(t, req)
        /\ AskPassed(t, req) \/ AskIntercepted(t, req) \/ AskRedirected(t, req)
  BY DEF Ask
<1>2. UNCHANGED <<rules, files, handle>>
  BY DEF Ask
<1>3. PICK n, creates : n = Named(t, req) /\ creates = (req.op \in Creating \cup {"RENAME"})
  OBVIOUS
<1>4. creates \in BOOLEAN
  BY <1>3
<1>5. CASE AskPassed(t, req)
  <2>1. PICK place : Begin(t, req, "pass", "attempt", NoPath, <<File(place, NoPath)>>)
    BY <1>5 DEF AskPassed
  <2>2. PICK tries : tries = <<File(place, NoPath)>>
    OBVIOUS
  <2>3. call'[t].name = n /\ call'[t].tries = tries /\ call'[t].step = "attempt"
    <3>1. DOMAIN call = Threads
      BY DEF SInv, IInv, TypeOK
    <3> QED BY <1>3, <2>1, <2>2, <3>1 DEF Begin
  <2>4. tries[1].path = NoPath /\ 1 \in DOMAIN tries
    BY <2>2 DEF File
  <2>5. (CallLocated(call[t]))'
    BY <2>3 DEF LocatedInv
  <2>6. RuleFor(rules, n) = {}
    <3>1. (Located(call[t].name, call[t].tries[1].at, call[t].tries[1].path))'
      BY <2>3, <2>4, <2>5 DEF CallLocated
    <3>2. (PassedOn(call[t].name))'
      BY <2>3, <2>4, <3>1 DEF Located
    <3>3. RuleFor(rules', call'[t].name) = {}
      BY <3>2 DEF PassedOn
    <3> QED BY <1>2, <2>3, <3>3
  <2>7. EnsureOrdinary(rules, files, n, creates, NoPath)
    BY <2>6, NothingNeeded DEF EnsureOrdinary
  <2> QED BY <1>1, <1>2, <1>3, <2>1, <2>7, BeginViewed
<1>6. CASE AskIntercepted(t, req)
  <2>1. PICK a : Begin(t, req, "intercept", "attempt", NoPath, <<File(a, n)>>)
    BY <1>3, <1>6 DEF AskIntercepted
  <2>2. RuleFor(rules, n) = {}
    BY <1>3, <1>6 DEF AskIntercepted, Intercepted, RuleFor, First
  <2>3. EnsureOrdinary(rules, files, n, creates, NoPath)
    BY <2>2, NothingNeeded DEF EnsureOrdinary
  <2> QED BY <1>1, <1>2, <1>3, <2>1, <2>3, BeginViewed
<1>7. CASE AskRedirected(t, req)
  <2>1. PICK r \in RuleFor(rules, n) :
          LET redirected == RedirectPathOriginToTarget(r, n)
              ensure == EnsureHierarchy(rules, files, r, n, creates)
          IN Begin(t, req, r.mode, IF ensure = NoPath THEN "attempt" ELSE "climb", ensure,
                   FileOperationsToTry(r.mode, File(redirected, redirected),
                                       File(Submitted(t, req), n)))
    BY <1>3, <1>7 DEF AskRedirected
  <2>2. PICK redirected, ensure : /\ redirected = RedirectPathOriginToTarget(r, n)
                                  /\ ensure = EnsureHierarchy(rules, files, r, n, creates)
    OBVIOUS
  <2>3. r.mode = "Simple"
    BY SimpleRule
  <2>4. PICK step : step = IF ensure = NoPath THEN "attempt" ELSE "climb"
    OBVIOUS
  <2>5. Begin(t, req, "Simple", step, ensure, <<File(redirected, redirected)>>)
    BY <2>1, <2>2, <2>3, <2>4 DEF FileOperationsToTry
  <2>6. Suitable(rules, F, App) /\ FilesKept(rules, F, files) /\ n \in App
    BY <1>1, <1>3, NamedInApp DEF OrdinaryFrom
  <2>7. EnsureOrdinary(rules, files, n, creates, ensure)
    <3>1. n \in NamedBy(App, req)
      BY <1>1, <1>3, NamedInApp
    <3>2. creates /\ n \in Origins(rules) => Front(Place(rules, n)) # <<>>
      BY <1>3, <3>1 DEF OrdinaryFrom, HierarchiesNamed
    <3> QED BY <1>4, <2>2, <2>6, <3>2, EnsureNeeded
  <2>8. EnsureOrdinary(rules, files, Named(t, req), req.op \in Creating \cup {"RENAME"}, ensure)
    BY <1>3, <2>7
  <2>9. "Simple" # "Overlay"
    OBVIOUS
  <2>10. MayAsk(t, req) /\ UNCHANGED <<rules, files, handle>>
    BY <1>1, <1>2
  <2> QED BY <2>4, <2>5, <2>8, <2>9, <2>10, BeginViewed
<1> QED BY <1>1, <1>5, <1>6, <1>7

\* The rules and files to start with, and what has become of them.
ViewInv(App) == SInv /\ \E c \in Configurations : rules = c.rules /\ OrdinaryFrom(c.files, App)

LEMMA OrdinaryConfigurations ==
  ASSUME NEW App, OrdinaryUse(App), NEW c \in Configurations
  PROVE  /\ Suitable(c.rules, c.files, App) /\ OriginsAreKnown(c.rules, c.files, App)
         /\ HierarchiesNamed(c.rules, App)
BY ConfigurationsAssumption DEF OrdinaryUse, Suitable, TargetsApart, ClosedUnderRequests

LEMMA InitViewed ==
  ASSUME NEW App, OrdinaryUse(App), Init
  PROVE  ViewInv(App) /\ V!VInit
<1>1. PICK c \in Configurations : rules = c.rules /\ files = c.files
  BY DEF Init
<1>2. /\ Suitable(rules, files, App) /\ OriginsAreKnown(rules, files, App)
      /\ HierarchiesNamed(rules, App)
  BY <1>1, OrdinaryConfigurations
<1>3. \A t \in Threads : handle[t] = NoHandle /\ call[t] = Idle
  BY DEF Init
<1>4. FilesKept(rules, files, files)
  BY <1>2, KeptAtStart
<1>5. OrdinaryFrom(files, App)
  BY <1>2, <1>3, <1>4 DEF OrdinaryFrom, Idle
<1>6. SInv
  BY InitLocated
<1>7. ViewNow = ViewOf(rules, files)
  <2>1. SimpleMode
    BY DEF OrdinaryUse
  <2> QED BY <1>2, <1>4, <1>6, <2>1, SeenIsView DEF ViewNow
<1>8. Consistent(ViewNow)
  BY <1>2, <1>7, ViewConsistent
<1>9. HeldNow = [t \in Threads |-> NoPath]
  BY <1>3 DEF HeldNow, NoHandle
<1>10. TalkNow = [t \in Threads |-> Idle]
  BY <1>3 DEF TalkNow, TalkOf, Idle
<1>11. V!VInit
  BY <1>8, <1>9, <1>10, ViewOperators DEF V!VInit, ViewNow, HeldNow, TalkNow, TalkOf
<1> QED BY <1>1, <1>5, <1>6, <1>11 DEF ViewInv

LEMMA NextViewed ==
  ASSUME NEW App, OrdinaryUse(App), ViewInv(App), SInv', [Next]_vars
  PROVE  ViewInv(App)' /\ [V!VNext]_V!viewVars
<1>1. SimpleMode /\ ClosedUnderRequests(App)
  BY DEF OrdinaryUse
<1>2. PICK c \in Configurations : rules = c.rules /\ OrdinaryFrom(c.files, App)
  BY DEF ViewInv
<1>3. PICK F : F = c.files
  OBVIOUS
<1>4. SInv /\ OrdinaryFrom(F, App)
  BY <1>2, <1>3 DEF ViewInv
<1>5. rules' = rules
  BY <1>4, RulesStay DEF SInv
<1>6. CASE UNCHANGED vars
  <2>1. OrdinaryFrom(F, App)'
    BY <1>4, <1>6 DEF OrdinaryFrom, vars
  <2>2. UNCHANGED V!viewVars
    <3>1. HeldNow' = HeldNow /\ TalkNow' = TalkNow
      BY <1>6 DEF HeldNow, TalkNow, TalkOf, vars
    <3>2. ViewNow' = ViewNow
      BY <1>6 DEF ViewNow, Visible, Seen, Resolve, vars
    <3> QED BY <3>1, <3>2, ViewStutters
  <2> QED BY <1>2, <1>3, <1>5, <2>1, <2>2 DEF ViewInv
<1>7. CASE Next
  <2>1. LocatedInv'
    BY DEF SInv
  <2>2. PICK t \in Threads : \/ Ask(t) \/ Climb(t) \/ Descend(t) \/ CheckExists(t)
                             \/ Attempt(t) \/ Move(t) \/ Return(t) \/ Close(t)
    BY <1>7 DEF Next
  <2>3. OrdinaryFrom(F, App)' /\ Viewed(t)
    <3>1. CASE Ask(t)
      BY <1>1, <1>4, <2>1, <3>1, AskViewed
    <3>2. CASE Climb(t)
      BY <1>1, <1>4, <3>2, ClimbViewed
    <3>3. CASE Descend(t)
      BY <1>1, <1>4, <3>3, DescendViewed
    <3>4. CASE CheckExists(t)
      BY <1>4, <3>4, CheckExistsNever
    <3>5. CASE Attempt(t)
      BY <1>1, <1>4, <3>5, AttemptViewed
    <3>6. CASE Move(t)
      BY <1>1, <1>4, <3>6, MoveViewed
    <3>7. CASE Return(t)
      BY <1>1, <1>4, <3>7, ReturnViewed
    <3>8. CASE Close(t)
      BY <1>1, <1>4, <3>8, CloseViewed
    <3> QED BY <2>2, <3>1, <3>2, <3>3, <3>4, <3>5, <3>6, <3>7, <3>8
  <2>4. [V!VNext]_V!viewVars
    BY <2>3 DEF Viewed, V!VNext
  <2> QED BY <1>2, <1>3, <1>5, <2>3, <2>4 DEF ViewInv
<1> QED BY <1>6, <1>7

\* Under rules in simple mode, and for any number of threads, what an application
\* sees behaves like one filesystem on which every request is atomic, whatever is
\* created on the target side on the way: if it uses the filesystem as OrdinaryUse
\* says, every step is one of FilesystemView or changes nothing that it sees
\* (NewFileHandle, QueryByObjectAttributes, RenameByHandle,
\* CreateDirectoryHierarchy).
THEOREM SimpleImplementsFilesystem ==
  ASSUME NEW CONSTANT App, OrdinaryUse(App)
  PROVE  Spec => ImplementsFilesystem
<1>1. Init => SInv
  BY InitLocated
<1>2. SInv /\ [Next]_vars => SInv'
  BY NextLocated DEF OrdinaryUse
<1>3. Init => ViewInv(App) /\ V!VInit
  BY InitViewed
<1>4. ViewInv(App) /\ SInv' /\ [Next]_vars => ViewInv(App)' /\ [V!VNext]_V!viewVars
  BY NextViewed
<1> QED BY <1>1, <1>2, <1>3, <1>4, PTL DEF Spec, ImplementsFilesystem, V!VSpec

-----------------------------------------------------------------------------
(* What requests are told. *)

\* The answer to a call, and the handle it leaves, are those the view gives.
LEMMA AnswerOnView ==
  ASSUME NEW App, OrdinaryUse(App), ViewInv(App), NEW t \in Threads,
         Attempt(t) \/ Move(t)
  PROVE  \E status \in Statuses :
           /\ call' = [call EXCEPT ![t] = Answered(status)]
           /\ status = "not found" => Seen(files, call[t].name) = "none"
           /\ call[t].op = "CREATE" /\ status = "success" => Seen(files, call[t].name) = "none"
           /\ status # "success" => handle' = handle
           /\ \A u \in Threads \ {t} : handle'[u] = handle[u]
<1>1. PICK c \in Configurations : rules = c.rules /\ OrdinaryFrom(c.files, App)
  BY DEF ViewInv
<1>2. PICK F : F = c.files
  OBVIOUS
<1>3. SimpleMode /\ SInv /\ OrdinaryFrom(F, App)
  BY <1>1, <1>2 DEF OrdinaryUse, ViewInv
<1>4. Suitable(rules, F, App) /\ FilesKept(rules, F, files)
  BY <1>3 DEF OrdinaryFrom
<1>5. call[t].step \in {"attempt", "submit"}
  BY DEF Attempt, Move
<1>6. PICK op, as, n, p : op = call[t].op /\ as = call[t].as /\ n = call[t].name /\ p = Place(rules, n)
  OBVIOUS
<1>7. /\ call[t] \in Call /\ CallOrdinary(rules, F, App, files, call[t], handle[t])
      /\ Attempted(t).at = p /\ Trying(t).op = op /\ IsLast(t)
  BY <1>3, <1>5, <1>6, UnderWayOrdinary, TriedPlace DEF Disposition
<1>8. /\ n \in App /\ op \in Operations /\ as \in Demands /\ n \in VisibleUnder(rules)
      /\ KnownOrigin(rules, F, n, op, as)
      /\ Ready(rules, files, n, op \in Creating \cup {"RENAME"})
  BY <1>4, <1>5, <1>6, <1>7, SuitableFacts DEF CallOrdinary, Call, KnownOrigin
<1>9. Seen(files, n) = At(ViewOf(rules, files), n)
  <2>1. [q \in Visible |-> Seen(files, q)] = ViewOf(rules, files)
    BY <1>3, <1>4, SeenIsView
  <2> QED BY <1>8, <2>1, ViewFacts DEF Visible, ViewOf, At
<1>10. \A u \in Threads \ {t} : handle'[u] = handle[u]
  <2>1. DOMAIN handle = Threads
    BY <1>3 DEF SInv, IInv, TypeOK
  <2> QED BY <2>1 DEF Attempt, Move
<1>11. CASE Attempt(t)
  <2>1. op # "RENAME"
    BY <1>6, <1>11 DEF Attempt
  <2>2. PICK status : status = Status(files, op, as, p)
    OBVIOUS
  <2>3. Status(ViewOf(rules, files), op, as, n) = status
    BY <1>4, <1>6, <1>8, <2>1, <2>2, StatusOnView DEF KnownOrigin
  <2>4. status \in Statuses
    BY <2>2, StatusType
  <2>5. call' = [call EXCEPT ![t] = Answered(status)] /\ (status # "success" => handle' = handle)
    BY <1>6, <1>7, <1>11, <2>2 DEF Attempt, Finish
  <2>6. /\ status = "not found" => At(ViewOf(rules, files), n) = "none"
        /\ op = "CREATE" /\ status = "success" => At(ViewOf(rules, files), n) = "none"
    BY <2>3 DEF Status, Exists
  <2> QED BY <1>6, <1>9, <1>10, <2>4, <2>5, <2>6
<1>12. CASE Move(t)
  <2>1. op = "RENAME"
    BY <1>6, <1>12 DEF Move
  <2>2. PICK m, from, shared : m = handle[t].name /\ from = handle[t].at /\ shared = Shared(t)
    OBVIOUS
  <2>3. handle[t] # NoHandle /\ At(files, from) = "file"
    BY <1>6, <1>7, <2>1, <2>2 DEF CallOrdinary
  <2>4. m \in App /\ from = Place(rules, m)
    BY <1>3, <2>2, <2>3, HandlePlace
  <2>5. PICK status : status = MoveStatus(files, from, p, shared)
    OBVIOUS
  <2>6. MoveAgrees(rules, App, files, m, n, shared)
    <3>1. shared \in BOOLEAN /\ At(files, Place(rules, m)) = "file"
      BY <2>2, <2>3, <2>4 DEF Shared
    <3>2. Ready(rules, files, n, TRUE) /\ KnownOrigin(rules, F, n, "RENAME", as)
      <4>1. (op \in Creating \cup {"RENAME"}) = TRUE
        BY <2>1
      <4> QED BY <1>8, <2>1, <4>1
    <3> QED BY <1>4, <1>8, <2>4, <3>1, <3>2, MoveOnView
  <2>7. MoveStatus(ViewOf(rules, files), m, n, shared) = status
    BY <1>6, <2>4, <2>5, <2>6 DEF MoveAgrees
  <2>8. status \in Statuses
    BY <2>5, MoveStatusType
  <2>9. call' = [call EXCEPT ![t] = Answered(status)] /\ (status # "success" => handle' = handle)
    BY <1>7, <1>12, <2>2, <2>5 DEF Move, Finish
  <2>10. status = "not found" => At(ViewOf(rules, files), n) = "none"
    BY <2>7 DEF MoveStatus, Exists
  <2> QED BY <1>6, <1>9, <1>10, <2>1, <2>8, <2>9, <2>10
<1> QED BY <1>11, <1>12

\* Spec keeps the invariant of the view.
LEMMA ViewStep ==
  ASSUME NEW App, OrdinaryUse(App), ViewInv(App), [Next]_vars
  PROVE  ViewInv(App)'
<1>1. SimpleMode /\ RootsAreKnown /\ SInv
  BY DEF OrdinaryUse, ViewInv
<1>2. SInv'
  BY <1>1, NextLocated
<1> QED BY <1>2, NextViewed

\* In simple mode a request, absolute or relative to a root directory, is told
\* that a file or a directory for it is missing, at any of its steps, only if the
\* application does not see the file.  No hierarchy is the drive alone
\* (HierarchiesNamed), and the levels of the others are there or can be created
\* (CreateDirectoryHierarchy, NewFileHandle).
THEOREM SimpleFoundIfSeen ==
  ASSUME NEW CONSTANT App, OrdinaryUse(App)
  PROVE  Spec => FoundIfSeen
<1>1. Init => ViewInv(App)
  BY InitViewed
<1>2. ViewInv(App) /\ [Next]_vars => ViewInv(App)'
  BY ViewStep
<1>3. ViewInv(App) /\ [Next]_vars =>
        \A t \in Threads :
          call[t].step \notin {"idle", "answered"} /\ call'[t] = Answered("not found") =>
            Seen(files, call[t].name) = "none"
  <2> SUFFICES ASSUME ViewInv(App), [Next]_vars, NEW t \in Threads,
                      call[t].step \notin {"idle", "answered"}, call'[t] = Answered("not found")
               PROVE  Seen(files, call[t].name) = "none"
    OBVIOUS
  <2>1. SimpleMode /\ SInv /\ "not found" \in Statuses
    BY DEF ViewInv, OrdinaryUse, Statuses
  <2>2. DOMAIN call = Threads
    BY <2>1 DEF SInv, IInv, TypeOK
  <2>3. PICK F : OrdinaryFrom(F, App)
    BY DEF ViewInv
  <2>4. CallOrdinary(rules, F, App, files, call[t], handle[t])
    BY <2>3 DEF OrdinaryFrom
  <2>5. ~Climb(t)
    <3>1. SUFFICES ASSUME Climb(t) PROVE FALSE
      OBVIOUS
    <3>2. call[t].ensure = <<>>
      BY <2>1, <3>1, ClimbAnswers
    <3> QED BY <2>4, <3>1, <3>2 DEF Climb, CallOrdinary
  <2>6. ~Descend(t)
    <3> PICK e : e = call[t]
      OBVIOUS
    <3>1. SUFFICES ASSUME Descend(t) PROVE FALSE
      OBVIOUS
    <3>2. PICK next, step : /\ call' = [call EXCEPT ![t] = [e EXCEPT !.level = next, !.step = step]]
                            /\ step \in {"descend", "attempt"}
      BY <2>1, <2>3, <3>1, LevelReached
    <3>3. e \in Call
      BY <2>1, UnderWayLocated
    <3>4. call'[t].step = step
      BY <2>2, <3>2, <3>3 DEF Call
    <3>5. call'[t].step = "answered"
      BY AnswerFields
    <3> QED BY <3>2, <3>4, <3>5
  <2>7. Attempt(t) \/ Move(t)
    BY <2>1, <2>5, <2>6, WhoAnswers
  <2>8. PICK status \in Statuses :
          /\ call' = [call EXCEPT ![t] = Answered(status)]
          /\ status = "not found" => Seen(files, call[t].name) = "none"
    BY <2>7, AnswerOnView
  <2> QED BY <2>2, <2>8 DEF Answered
<1> QED BY <1>1, <1>2, <1>3, PTL DEF Spec, FoundIfSeen

\* In simple mode a request that may only create opens a handle only on a file
\* that the application did not see before.
THEOREM SimpleCreateOnlyNew ==
  ASSUME NEW CONSTANT App, OrdinaryUse(App)
  PROVE  Spec => CreateOnlyNew
<1>1. Init => ViewInv(App)
  BY InitViewed
<1>2. ViewInv(App) /\ [Next]_vars => ViewInv(App)'
  BY ViewStep
<1>3. ViewInv(App) /\ [Next]_vars =>
        \A t \in Threads :
          handle'[t] \notin {handle[t], NoHandle} /\ call[t].op = "CREATE" =>
            Seen(files, call[t].name) = "none"
  <2> SUFFICES ASSUME ViewInv(App), [Next]_vars, NEW t \in Threads,
                      handle'[t] # handle[t], handle'[t] # NoHandle, call[t].op = "CREATE"
               PROVE  Seen(files, call[t].name) = "none"
    OBVIOUS
  <2>1. SimpleMode /\ SInv
    BY DEF ViewInv, OrdinaryUse
  <2>2. PICK u \in Threads : \/ Ask(u) \/ Climb(u) \/ Descend(u) \/ CheckExists(u) \/ Attempt(u)
                           \/ Move(u) \/ Return(u) \/ Close(u)
    BY DEF Next, vars
  <2>3. DOMAIN handle = Threads
    BY <2>1 DEF SInv, IInv, TypeOK
  <2>4. Attempt(u) \/ Move(u)
    <3>1. handle' # handle
      OBVIOUS
    <3>2. ~Ask(u)
      BY <3>1 DEF Ask, AskPassed, AskIntercepted, AskRedirected, Begin
    <3>3. ~Climb(u) /\ ~Descend(u)
      BY <3>1 DEF Climb, Descend, Finish
    <3>4. ~CheckExists(u)
      BY <2>1, CheckExistsNever DEF ViewInv
    <3>5. ~Return(u) /\ ~Close(u)
      BY <2>3 DEF Return, Close
    <3> QED BY <2>2, <3>2, <3>3, <3>4, <3>5
  <2>5. PICK status \in Statuses :
          /\ call[u].op = "CREATE" /\ status = "success" => Seen(files, call[u].name) = "none"
          /\ status # "success" => handle' = handle
          /\ \A v \in Threads \ {u} : handle'[v] = handle[v]
    BY <2>4, AnswerOnView
  <2> QED BY <2>5
<1> QED BY <1>1, <1>2, <1>3, PTL DEF Spec, CreateOnlyNew

-----------------------------------------------------------------------------
(* Listings: what is in a directory, and what its listing is of. *)

\* A path in a directory.
LEMMA EntryPath ==
  ASSUME NEW S, NEW d \in Seq(S), NEW n \in S
  PROVE  /\ Append(d, n) \in Seq(S) /\ Append(d, n) # <<>> /\ Front(Append(d, n)) = d
         /\ Len(Append(d, n)) = Len(d) + 1 /\ Append(d, n)[Len(d) + 1] = n
         /\ IsPrefix(d, Append(d, n)) /\ d # Append(d, n)
<1>1. PICK q : q = Append(d, n)
  OBVIOUS
<1>2. q \in Seq(S) /\ Len(q) = Len(d) + 1 /\ q[Len(d) + 1] = n /\ Len(d) \in Nat
      /\ \A i \in 1 .. Len(d) : q[i] = d[i]
  BY <1>1
<1>3. Len(q) # 0 /\ Len(q) # Len(d) /\ Len(q) - 1 = Len(d)
  BY <1>2
<1>4. q # <<>> /\ q # d
  BY <1>2, <1>3, EmptySeq
<1>5. Front(q) = d
  <2>1. /\ Front(q) \in Seq(S) /\ Len(Front(q)) = Len(q) - 1
        /\ \A i \in 1 .. Len(q) - 1 : Front(q)[i] = q[i]
    BY <1>2, <1>4, FrontElements
  <2> QED BY <1>2, <1>3, <2>1, SeqEqual
<1>6. IsPrefix(d, q)
  BY <1>2, <1>4, <1>5, PrefixOfFront
<1> QED BY <1>1, <1>2, <1>4, <1>5, <1>6

\* A path is its directory and its last component.
LEMMA PathOfFront ==
  ASSUME NEW S, NEW q \in Seq(S), q # <<>>
  PROVE  q = Append(Front(q), q[Len(q)])
<1>1. PICK f, m : f = Front(q) /\ m = Len(q)
  OBVIOUS
<1>2. m \in Nat /\ m >= 1 /\ f \in Seq(S) /\ Len(f) = m - 1 /\ \A i \in 1 .. m - 1 : f[i] = q[i]
  BY <1>1, FrontElements
<1>3. PICK n : n = q[m]
  OBVIOUS
<1>4. n \in S
  BY <1>1, <1>2, <1>3
<1>5. PICK g : g = Append(f, n)
  OBVIOUS
<1>6. g \in Seq(S) /\ Len(g) = m /\ g[m] = n /\ \A i \in 1 .. m - 1 : g[i] = q[i]
  BY <1>2, <1>4, <1>5
<1>7. \A i \in 1 .. m : g[i] = q[i]
  BY <1>2, <1>3, <1>6
<1> QED BY <1>1, <1>3, <1>5, <1>6, <1>7, SeqEqual

\* What is in a directory is redirected into the directory it is redirected to.
LEMMA RedirectedEntry ==
  ASSUME NEW r \in Rule, NEW d \in Seq(Names), NEW n \in Names, IsPrefix(r.origin, d)
  PROVE  /\ IsPrefix(r.origin, Append(d, n))
         /\ RedirectPathOriginToTarget(r, Append(d, n))
              = Append(RedirectPathOriginToTarget(r, d), n)
<1>1. PICK q : q = Append(d, n)
  OBVIOUS
<1>2. q \in Seq(Names) /\ q # <<>> /\ Front(q) = d /\ IsPrefix(d, q) /\ q[Len(q)] = n
      /\ Len(q) = Len(d) + 1 /\ Len(d) \in Nat
  BY <1>1, EntryPath
<1>3. r.origin \in Seq(Names)
  BY PathsAssumption DEF Rule
<1>4. IsPrefix(r.origin, q)
  BY <1>2, <1>3, PrefixTransitive
<1>5. Len(r.origin) <= Len(d) /\ Len(r.origin) \in Nat
  BY <1>3, PrefixElements
<1>6. r.origin # q
  BY <1>2, <1>5
<1>7. PICK g : g = RedirectPathOriginToTarget(r, q)
  OBVIOUS
<1>8. g # <<>> /\ Front(g) = RedirectPathOriginToTarget(r, d)
  BY <1>2, <1>4, <1>6, <1>7, RedirectedFront
<1>9. PICK k, m, l : k = Len(r.origin) /\ m = Len(r.target) /\ l = Len(q)
  OBVIOUS
<1>10. /\ k \in Nat /\ m \in Nat /\ l \in Nat /\ k <= l
       /\ g \in Seq(Names) /\ Len(g) = m + (l - k)
       /\ \A i \in 1 .. l - k : g[m + i] = q[k + i]
  BY <1>2, <1>4, <1>7, <1>9, RedirectedElements
<1>11. l - k \in 1 .. l - k /\ k + (l - k) = l
  BY <1>2, <1>5, <1>9, <1>10
<1>12. g[Len(g)] = n
  BY <1>2, <1>9, <1>10, <1>11
<1>13. g = Append(Front(g), g[Len(g)])
  BY <1>8, <1>10, PathOfFront
<1> QED BY <1>1, <1>4, <1>7, <1>8, <1>12, <1>13

\* What is in a directory that is no origin directory is in its place.
LEMMA PlaceOfEntry ==
  ASSUME NEW R, ValidRules(R), NEW d \in Seq(Names), NEW n \in Names,
         d \notin Origins(R), Append(d, n) \notin Origins(R)
  PROVE  Place(R, Append(d, n)) = Append(Place(R, d), n)
<1>1. PICK q : q = Append(d, n)
  OBVIOUS
<1>2. q \in Seq(Names) /\ q # <<>> /\ Front(q) = d /\ q \notin Origins(R)
  BY <1>1, EntryPath
<1>3. RuleFor(R, q) = RuleFor(R, d)
  BY <1>2, RuleForFront
<1>4. CASE RuleFor(R, d) = {}
  BY <1>1, <1>3, <1>4 DEF Place
<1>5. CASE RuleFor(R, d) # {}
  <2>1. PICK r \in RuleFor(R, d) : TRUE
    BY <1>5
  <2>2. r \in Rule /\ IsPrefix(r.origin, d) /\ Place(R, d) = RedirectPathOriginToTarget(r, d)
    BY <2>1, RuleForFacts
  <2>3. Place(R, q) = RedirectPathOriginToTarget(r, q)
    BY <1>2, <1>3, <2>1, RuleForFacts
  <2>4. RedirectPathOriginToTarget(r, q) = Append(RedirectPathOriginToTarget(r, d), n)
    BY <1>1, <2>2, RedirectedEntry
  <2> QED BY <1>1, <2>2, <2>3, <2>4
<1> QED BY <1>4, <1>5

\* Only origin directories are inserted into listings.
LEMMA OnlyOriginsInserted ==
  ASSUME NEW R, NEW G, NEW d, NEW n \in DirectoryNamesToInsert(R, G, d)
  PROVE  Append(d, n) \in Origins(R)
<1>1. PICK target \in InsertionSource(R, G, Append(d, n)) : TRUE
  BY DEF DirectoryNamesToInsert
<1>2. PICK C : C = {r \in R : r.origin = Append(d, n)}
  OBVIOUS
<1>3. PICK X : X = {r \in C : IsDirectory(G, r.target)}
  OBVIOUS
<1>4. PICK r \in First(IF X = {} THEN C ELSE X) : target = r.target
  BY <1>1, <1>2, <1>3 DEF InsertionSource
<1>5. r \in C
  BY <1>3, <1>4 DEF First
<1> QED BY <1>2, <1>5 DEF Origins

\* One whose target exists is.
LEMMA OriginInserted ==
  ASSUME NEW R, ValidRules(R), NEW G, NEW d, NEW n \in Names,
         NEW r \in R, r.origin = Append(d, n), IsDirectory(G, r.target)
  PROVE  n \in DirectoryNamesToInsert(R, G, d)
<1>1. PICK C : C = {s \in R : s.origin = Append(d, n)}
  OBVIOUS
<1>2. PICK X : X = {s \in C : IsDirectory(G, s.target)}
  OBVIOUS
<1>3. r \in X /\ X \in SUBSET R
  BY <1>1, <1>2
<1>4. First(X) # {}
  BY <1>3, FirstNonEmpty
<1>5. PICK s \in First(X) : TRUE
  BY <1>4
<1>6. IsDirectory(G, s.target)
  BY <1>2, <1>5 DEF First
<1>7. s.target \in InsertionSource(R, G, Append(d, n))
  BY <1>1, <1>2, <1>3, <1>5 DEF InsertionSource
<1> QED BY <1>6, <1>7 DEF DirectoryNamesToInsert, Exists, IsDirectory

\* The rules of an origin directory are those that a listing of it asks.
LEMMA RulesAtOrigin ==
  ASSUME NEW R, ValidRules(R), NEW o \in Origins(R)
  PROVE  SelectRulesForPath(R, o) = {r \in R : r.origin = o}
<1>1. o \in Seq(Names) /\ IsPrefix(o, o)
  BY OriginRule, PrefixOfItself
<1>2. PICK r \in R : r.origin = o
  BY DEF Origins
<1>3. ASSUME NEW s \in R, IsPrefix(s.origin, o)
      PROVE  /\ s.origin \in Seq(Names) /\ Len(s.origin) <= Len(o)
             /\ Len(s.origin) \in Nat /\ Len(o) \in Nat
  <2>1. s.origin \in Seq(Names)
    BY PathsAssumption DEF ValidRules, Rule
  <2> QED BY <1>1, <1>3, <2>1, PrefixElements
<1>4. ASSUME NEW s \in SelectRulesForPath(R, o) PROVE s \in R /\ s.origin = o
  <2>1. s \in R /\ IsPrefix(s.origin, o) /\ Len(o) <= Len(s.origin)
    BY <1>1, <1>2 DEF SelectRulesForPath
  <2> QED BY <1>1, <1>3, <2>1, ShorterPrefix
<1>5. ASSUME NEW s \in R, s.origin = o PROVE s \in SelectRulesForPath(R, o)
  BY <1>1, <1>3, <1>5 DEF SelectRulesForPath
<1> QED BY <1>4, <1>5

\* The rules of an origin directory that match a name.
Matching(R, o, n) == {r \in R : r.origin = o /\ FileNameMatchesAnyPattern(r, n)}

\* The rule for a path in an origin directory is the first of the directory's
\* rules that matches its name.
LEMMA RuleOfEntry ==
  ASSUME NEW R, ValidRules(R), NEW o \in Origins(R), NEW n \in Names,
         Append(o, n) \notin Origins(R)
  PROVE  RuleFor(R, Append(o, n)) = First(Matching(R, o, n))
<1> PICK C : C = {r \in R : r.origin = o}
  OBVIOUS
<1>1. PICK q : q = Append(o, n)
  OBVIOUS
<1>2. o \in Seq(Names)
  BY OriginRule
<1>3. /\ q \in Seq(Names) /\ q # <<>> /\ Front(q) = o /\ IsPrefix(o, q) /\ o # q
      /\ q[Len(o) + 1] = n
  BY <1>1, <1>2, EntryPath
<1>4. PICK r \in R : r.origin = o
  BY DEF Origins
<1>5. ASSUME NEW s \in R, IsPrefix(s.origin, q)
      PROVE  /\ s.origin \in Seq(Names) /\ IsPrefix(s.origin, o) /\ Len(s.origin) <= Len(o)
             /\ Len(s.origin) \in Nat /\ Len(o) \in Nat
  <2>1. s.origin \in Seq(Names) /\ s.origin # q
    BY <1>1, PathsAssumption DEF ValidRules, Rule, Origins
  <2>2. IsPrefix(s.origin, o)
    BY <1>3, <1>5, <2>1, PrefixOfPathOrFront
  <2> QED BY <1>2, <2>1, <2>2, PrefixElements
<1>6. ASSUME NEW s \in SelectRulesForPath(R, q) PROVE s \in C
  <2>1. s \in R /\ IsPrefix(s.origin, q) /\ Len(o) <= Len(s.origin)
    BY <1>3, <1>4 DEF SelectRulesForPath
  <2>2. s.origin = o
    BY <1>2, <1>5, <2>1, ShorterPrefix, PrefixOfItself
  <2> QED BY <2>1, <2>2
<1>7. ASSUME NEW s \in C PROVE s \in SelectRulesForPath(R, q)
  BY <1>3, <1>5 DEF SelectRulesForPath
<1>8. SelectRulesForPath(R, q) = C
  BY <1>6, <1>7
<1>9. ASSUME NEW s \in C PROVE InScope(s, q) <=> FileNameMatchesAnyPattern(s, n)
  BY <1>3 DEF InScope
<1>10. {s \in SelectRulesForPath(R, q) : InScope(s, q)} = Matching(R, o, n)
  BY <1>8, <1>9 DEF Matching
<1> QED BY <1>1, <1>3, <1>10 DEF RuleFor

\* Some of the queues offer the name n, of a file that exists.
Shows(queues, G, n) == \E q \in queues : n \in q.names /\ Exists(G, Append(q.directory, n))

\* A container of one rule.
LEMMA SingleRule ==
  ASSUME NEW C, IsFiniteSet(C), Cardinality(C) = 1
  PROVE  \E r : C = {r}
BY FS_Singleton

\* A name that the rules of an origin directory match is listed at its target.
LEMMA TargetsShow ==
  ASSUME NEW R, ValidRules(R), NEW o \in Origins(R), NEW n \in Names, NEW G,
         Append(o, n) \notin Origins(R)
  PROVE  Shows(TargetQueues(R, o, Place(R, o)), G, n)
           <=> /\ RuleFor(R, Append(o, n)) # {}
               /\ Exists(G, Place(R, Append(o, n)))
<1>1. PICK q, at : q = Append(o, n) /\ at = Place(R, o)
  OBVIOUS
<1>2. PICK C : C = {r \in R : r.origin = o}
  OBVIOUS
<1>3. SelectRulesForPath(R, o) = C
  BY <1>2, RulesAtOrigin
<1>4. PICK X : X = {r \in C : FileNameMatchesAnyPattern(r, n)}
  OBVIOUS
<1>5. RuleFor(R, q) = First(X) /\ X \in SUBSET R
  <2>1. RuleFor(R, Append(o, n)) = First(Matching(R, o, n))
    BY RuleOfEntry
  <2>2. X = Matching(R, o, n)
    BY <1>2, <1>4 DEF Matching
  <2> QED BY <1>1, <2>1, <2>2 DEF Matching
<1>6. o \in Seq(Names) /\ q \in Seq(Names)
  BY <1>1, OriginRule, EntryPath
<1>7. ASSUME NEW r \in RuleFor(R, q)
      PROVE  r \in C /\ Place(R, q) = Append(r.target, n) /\ RuleFor(R, q) = {r}
  <2>1. r \in C
    BY <1>4, <1>5 DEF First
  <2>2. r \in Rule /\ RuleFor(R, q) = {r} /\ Place(R, q) = RedirectPathOriginToTarget(r, q)
    BY <1>6, RuleForFacts
  <2>3. r.origin = o /\ IsPrefix(r.origin, o)
    BY <1>2, <1>6, <2>1, PrefixOfItself
  <2>4. RedirectPathOriginToTarget(r, q) = Append(RedirectPathOriginToTarget(r, o), n)
    BY <1>1, <1>6, <2>2, <2>3, RedirectedEntry
  <2>5. RedirectPathOriginToTarget(r, o) = r.target
    BY <1>6, <2>2, <2>3, RedirectedOrigin
  <2> QED BY <2>1, <2>2, <2>4, <2>5
<1>8. o \in Origins(C)
  BY <1>2 DEF Origins
<1>9. CASE Cardinality(C) = 1
  <2>1. TargetQueues(R, o, at) = {Queue(at, {m \in Names : FileNameMatchesAnyPattern(r, m)}) : r \in C}
    BY <1>3, <1>8, <1>9 DEF TargetQueues
  <2>2. PICK r : C = {r}
    <3>1. IsFiniteSet(C)
      BY <1>2, FS_Subset DEF ValidRules
    <3> QED BY <1>9, <3>1, SingleRule
  <2>3. at = r.target
    <3>1. PICK s \in RuleFor(R, o) : TRUE
      BY OriginRule
    <3>2. s.origin = o /\ s \in R /\ Place(R, o) = s.target
      BY <1>6, <3>1, OriginRule, RuleForFacts, PlaceBelowTarget
    <3> QED BY <1>1, <1>2, <2>2, <3>2
  <2>4. Shows(TargetQueues(R, o, at), G, n)
          <=> FileNameMatchesAnyPattern(r, n) /\ Exists(G, Append(r.target, n))
    <3>1. PICK Y : Y = {m \in Names : FileNameMatchesAnyPattern(r, m)}
      OBVIOUS
    <3>2. TargetQueues(R, o, at) = {Queue(at, Y)}
      BY <2>1, <2>2, <3>1
    <3>3. n \in Y <=> FileNameMatchesAnyPattern(r, n)
      BY <3>1
    <3> QED BY <2>3, <3>2, <3>3 DEF Shows, Queue
  <2>5. FileNameMatchesAnyPattern(r, n) => r \in RuleFor(R, q)
    BY <1>4, <1>5, <2>2 DEF First
  <2>6. RuleFor(R, q) # {} => FileNameMatchesAnyPattern(r, n)
    BY <1>4, <1>5, <2>2 DEF First
  <2> QED BY <1>1, <1>7, <2>4, <2>5, <2>6
<1>10. CASE Cardinality(C) # 1
  <2>1. TargetQueues(R, o, at) = {Queue(r.target, OwnNames(C, r)) : r \in C}
    BY <1>3, <1>8, <1>10 DEF TargetQueues
  <2>2. ASSUME NEW r \in C PROVE n \in OwnNames(C, r) <=> r \in RuleFor(R, q)
    BY <1>4, <1>5 DEF OwnNames
  <2>3. Shows(TargetQueues(R, o, at), G, n)
          <=> \E r \in C : n \in OwnNames(C, r) /\ Exists(G, Append(r.target, n))
    <3>1. Shows(TargetQueues(R, o, at), G, n)
            <=> \E r \in C : Shows({Queue(r.target, OwnNames(C, r))}, G, n)
      BY <2>1 DEF Shows
    <3>2. ASSUME NEW d, NEW Y
          PROVE  Shows({Queue(d, Y)}, G, n) <=> n \in Y /\ Exists(G, Append(d, n))
      BY DEF Shows, Queue
    <3> QED BY <3>1, <3>2
  <2> QED BY <1>1, <1>7, <2>2, <2>3
<1> QED BY <1>9, <1>10

\* A name that they do not match is listed at the origin.
LEMMA OriginShows ==
  ASSUME NEW R, ValidRules(R), \A r \in R : r.mode = "Simple", NEW o \in Origins(R),
         NEW n \in Names, NEW G, NEW at, Append(o, n) \notin Origins(R)
  PROVE  Shows(OriginQueues(R, o, at), G, n)
           <=> RuleFor(R, Append(o, n)) = {} /\ Exists(G, Append(o, n))
<1>1. PICK q : q = Append(o, n)
  OBVIOUS
<1>2. PICK C : C = {r \in R : r.origin = o}
  OBVIOUS
<1>3. SelectRulesForPath(R, o) = C
  BY <1>2, RulesAtOrigin
<1>4. PICK X : X = {r \in C : FileNameMatchesAnyPattern(r, n)}
  OBVIOUS
<1>5. RuleFor(R, q) = First(X) /\ X \in SUBSET R
  <2>1. RuleFor(R, Append(o, n)) = First(Matching(R, o, n))
    BY RuleOfEntry
  <2>2. X = Matching(R, o, n)
    BY <1>2, <1>4 DEF Matching
  <2> QED BY <1>1, <2>1, <2>2 DEF Matching
<1>6. o \in Origins(C) /\ C # {} /\ \A r \in C : r.mode = "Simple"
  BY <1>2 DEF Origins
<1>7. CASE \E r \in C : r.patterns = {}
  <2>1. OriginQueues(R, o, at) = {}
    BY <1>3, <1>6, <1>7 DEF OriginQueues
  <2>2. X # {}
    BY <1>4, <1>7 DEF FileNameMatchesAnyPattern
  <2>3. RuleFor(R, q) # {}
    BY <1>5, <2>2, FirstNonEmpty
  <2> QED BY <1>1, <2>1, <2>3 DEF Shows
<1>8. CASE ~\E r \in C : r.patterns = {}
  <2>1. OriginQueues(R, o, at) = {Queue(o, ShownNames(C))}
    BY <1>3, <1>6, <1>8 DEF OriginQueues
  <2>2. ShownNames(C) = {m \in Names :
           \A r \in First({s \in C : FileNameMatchesAnyPattern(s, m)}) : r.mode = "Overlay"}
    BY <1>6 DEF ShownNames
  <2>3. n \in ShownNames(C) <=> \A r \in First(X) : r.mode = "Overlay"
    BY <1>4, <2>2
  <2>4. First(X) \subseteq C
    BY <1>4 DEF First
  <2>5. n \in ShownNames(C) <=> RuleFor(R, q) = {}
    BY <1>5, <1>6, <2>3, <2>4
  <2>6. Shows(OriginQueues(R, o, at), G, n) <=> n \in ShownNames(C) /\ Exists(G, q)
    BY <1>1, <2>1 DEF Shows, Queue
  <2> QED BY <1>1, <2>5, <2>6
<1> QED BY <1>7, <1>8

\* The target of an origin directory stays.
LEMMA TargetKept ==
  ASSUME NEW R, NEW F, NEW App, Suitable(R, F, App), NEW G, FilesKept(R, F, G),
         NEW o \in Origins(R), IsDirectory(F, Place(R, o))
  PROVE  \E r \in R : r.origin = o /\ IsDirectory(G, r.target)
<1>1. ValidRules(R) /\ F \in [Paths -> Kinds] /\ G \in [Paths -> Kinds]
  BY SuitableFacts DEF FilesKept
<1>2. o \in Seq(Names) /\ RuleFor(R, o) # {}
  BY <1>1, OriginRule
<1>3. PICK r \in RuleFor(R, o) : TRUE
  BY <1>2
<1>4. r.origin = o /\ r \in R /\ Place(R, o) = r.target
  BY <1>1, <1>2, <1>3, OriginRule, RuleForFacts, PlaceBelowTarget
<1>5. r.target \in Paths /\ r.target \in Seq(Names)
  BY <1>4, SuitableFacts
<1>6. IsPrefix(r.target, r.target)
  BY <1>5, PrefixOfItself
<1>7. F[r.target] = "dir"
  BY <1>1, <1>4, <1>5 DEF IsDirectory, At
<1>8. G[r.target] = "dir"
  BY <1>4, <1>5, <1>6, <1>7 DEF FilesKept
<1> QED BY <1>1, <1>4, <1>5, <1>8 DEF IsDirectory, At

\* The name n is in the listing of d.
InListing(R, G, d, at, n) ==
  \/ Shows(DirectoriesToEnumerate(R, d, at)[1], G, n)
  \/ Shows(DirectoriesToEnumerate(R, d, at)[2], G, n)
  \/ n \in DirectoryNamesToInsert(R, G, d)

\* An origin directory is listed in the directory above it.
LEMMA OriginInListing ==
  ASSUME NEW R, NEW F, NEW App, Suitable(R, F, App), NestedOriginsExist(R, F),
         NEW G, FilesKept(R, F, G),
         NEW d \in Seq(Names), NEW n \in Names, Append(d, n) \in Origins(R)
  PROVE  InListing(R, G, d, Place(R, d), n)
<1>1. PICK q : q = Append(d, n)
  OBVIOUS
<1>2. ValidRules(R) /\ RulesApart(R) /\ q \in Origins(R) /\ Front(q) = d
  BY <1>1, SuitableFacts, EntryPath
<1>3. ASSUME NEW r \in R, r.origin = q, IsDirectory(G, r.target)
      PROVE  InListing(R, G, d, Place(R, d), n)
  BY <1>1, <1>2, <1>3, OriginInserted DEF InListing
<1>4. CASE RuleFor(R, d) # {}
  <2>1. IsDirectory(F, Place(R, q))
    BY <1>2, <1>4 DEF NestedOriginsExist
  <2> QED BY <1>2, <1>3, <2>1, TargetKept
<1>5. CASE RuleFor(R, d) = {}
  <2>1. Place(R, d) = d
    BY <1>5 DEF Place
  <2>2. CASE IsDirectory(G, q)
    <3>1. Shows({Queue(d, Names)}, G, n)
      BY <1>1, <2>2 DEF Shows, Queue, Exists, IsDirectory
    <3> QED BY <2>1, <3>1 DEF InListing, DirectoriesToEnumerate
  <2>3. CASE IsDirectory(G, Place(R, q))
    <3>1. PICK r \in RuleFor(R, q) : TRUE
      BY <1>2, OriginRule
    <3>2. q \in Seq(Names) /\ r.origin = q
      BY <1>2, <3>1, OriginRule
    <3>3. r \in R /\ Place(R, q) = r.target
      BY <1>2, <3>1, <3>2, RuleForFacts, PlaceBelowTarget
    <3> QED BY <1>3, <2>3, <3>2, <3>3
  <2> QED BY <1>2, <2>2, <2>3, OriginKept
<1> QED BY <1>4, <1>5

\* Anything else is listed if and only if there is a file in its place.
LEMMA PlaceInListing ==
  ASSUME NEW R, ValidRules(R), RulesApart(R), \A r \in R : r.mode = "Simple", NEW G,
         NEW d \in Seq(Names), NEW n \in Names, Append(d, n) \notin Origins(R)
  PROVE  InListing(R, G, d, Place(R, d), n) <=> Exists(G, Place(R, Append(d, n)))
<1>1. PICK q, at : q = Append(d, n) /\ at = Place(R, d)
  OBVIOUS
<1>2. n \notin DirectoryNamesToInsert(R, G, d)
  BY OnlyOriginsInserted
<1>3. \A p : Shows({Queue(p, Names)}, G, n) <=> Exists(G, Append(p, n))
  BY DEF Shows, Queue
<1>4. ~Shows({}, G, n)
  BY DEF Shows
<1>5. CASE d \notin Origins(R)
  <2>1. Place(R, q) = Append(at, n)
    BY <1>1, <1>5, PlaceOfEntry
  <2>2. CASE d = at
    BY <1>1, <1>2, <1>3, <1>4, <2>1, <2>2 DEF InListing, DirectoriesToEnumerate
  <2>3. CASE d # at
    <3>1. PICK C : C = SelectRulesForPath(R, d)
      OBVIOUS
    <3>2. C \subseteq R /\ d \notin Origins(C)
      BY <1>5, <3>1 DEF SelectRulesForPath, Origins
    <3>3. TargetQueues(R, d, at) = {Queue(at, Names)}
      BY <3>1, <3>2 DEF TargetQueues
    <3>4. {s \in IdentifyRule(C, at) : s.mode = "Overlay"} = {}
      BY <3>2 DEF IdentifyRule, First
    <3>5. OriginQueues(R, d, at) = {}
      BY <3>1, <3>2, <3>4 DEF OriginQueues
    <3> QED BY <1>1, <1>2, <1>3, <1>4, <2>1, <2>3, <3>3, <3>5 DEF InListing, DirectoriesToEnumerate
  <2> QED BY <2>2, <2>3
<1>6. CASE d \in Origins(R)
  <2>1. d # at
    BY <1>1, <1>6, OriginRule, NoRuleAtPlace
  <2>2. Shows(TargetQueues(R, d, at), G, n) <=> RuleFor(R, q) # {} /\ Exists(G, Place(R, q))
    BY <1>1, <1>6, TargetsShow
  <2>3. Shows(OriginQueues(R, d, at), G, n) <=> RuleFor(R, q) = {} /\ Exists(G, q)
    BY <1>1, <1>6, OriginShows
  <2>4. RuleFor(R, q) = {} => Place(R, q) = q
    BY DEF Place
  <2> QED BY <1>1, <1>2, <2>1, <2>2, <2>3, <2>4 DEF InListing, DirectoriesToEnumerate
<1> QED BY <1>5, <1>6

\* A handle in the store has the place of its name.
LEMMA StoredPlace ==
  ASSUME SInv, NEW F, NEW App, OrdinaryFrom(F, App), NEW t \in Threads, Stored(handle[t])
  PROVE  /\ handle[t].name \in Seq(Names)
         /\ handle[t].path = Place(rules, handle[t].name)
<1>1. handle[t] # NoHandle
  BY DEF Stored, NoHandle
<1>2. handle[t].path = handle[t].at
  BY <1>1 DEF SInv, LocatedInv, Located, Stored
<1> QED BY <1>1, <1>2, HandlePlace

\* A name is listed if and only if the application sees a file of that name.
LEMMA ListedInView ==
  ASSUME NEW App, OrdinaryUse(App), ViewInv(App),
         \A c \in Configurations : NestedOriginsExist(c.rules, c.files),
         NEW t \in Threads, Stored(handle[t]), NEW n \in Names,
         Append(handle[t].name, n) \in Visible
  PROVE  n \in Listed(handle[t]) <=> Seen(files, Append(handle[t].name, n)) # "none"
<1>1. PICK c \in Configurations : rules = c.rules /\ OrdinaryFrom(c.files, App)
  BY DEF ViewInv
<1>2. PICK F : F = c.files
  OBVIOUS
<1>3. SimpleMode /\ SInv /\ OrdinaryFrom(F, App) /\ NestedOriginsExist(rules, F)
  BY <1>1, <1>2 DEF OrdinaryUse, ViewInv
<1>4. Suitable(rules, F, App) /\ FilesKept(rules, F, files)
  BY <1>3 DEF OrdinaryFrom
<1>5. ValidRules(rules) /\ RulesApart(rules) /\ \A r \in rules : r.mode = "Simple"
  BY <1>1, <1>3, <1>4, SuitableFacts DEF SimpleMode
<1>6. PICK d, q : d = handle[t].name /\ q = Append(d, n)
  OBVIOUS
<1>7. d \in Seq(Names) /\ handle[t].path = Place(rules, d)
  BY <1>3, <1>6, StoredPlace
<1>8. n \in Listed(handle[t]) <=> InListing(rules, files, d, Place(rules, d), n)
  BY <1>6, <1>7 DEF Listed, InListing, Shows
<1>9. Seen(files, q) = IF q \in Origins(rules) THEN "dir" ELSE At(files, Place(rules, q))
  <2>1. [p \in Visible |-> Seen(files, p)] = ViewOf(rules, files)
    BY <1>3, <1>4, SeenIsView
  <2> QED BY <1>6, <2>1 DEF Visible, ViewOf
<1>10. CASE q \in Origins(rules)
  BY <1>3, <1>4, <1>6, <1>7, <1>8, <1>9, <1>10, OriginInListing
<1>11. CASE q \notin Origins(rules)
  BY <1>5, <1>6, <1>7, <1>8, <1>9, <1>11, PlaceInListing DEF Exists
<1> QED BY <1>6, <1>10, <1>11

\* In simple mode the listing of a directory is of what can be opened in it: the
\* rules of an origin directory divide the names among them, each name is
\* offered by the one queue that leads to its place, and the origin directories in
\* it are inserted (GetInstructionForDirectoryEnumeration).
THEOREM SimpleListingIsView ==
  ASSUME NEW CONSTANT App, OrdinaryUse(App),
         \A c \in Configurations : NestedOriginsExist(c.rules, c.files)
  PROVE  Spec => []ListingIsView
<1>1. Init => ViewInv(App)
  BY InitViewed
<1>2. ViewInv(App) /\ [Next]_vars => ViewInv(App)'
  BY ViewStep
<1>3. ViewInv(App) => ListingIsView
  <2> SUFFICES ASSUME ViewInv(App), NEW t \in Threads, Stored(handle[t])
               PROVE  Listed(handle[t]) \cap {n \in Names : Append(handle[t].name, n) \in Visible}
                        = Openable(handle[t].name)
    BY DEF ListingIsView
  <2>1. ASSUME NEW n \in Names, Append(handle[t].name, n) \in Visible
        PROVE  n \in Listed(handle[t]) <=> Seen(files, Append(handle[t].name, n)) # "none"
    BY <2>1, ListedInView
  <2> QED BY <2>1 DEF Openable
<1> QED BY <1>1, <1>2, <1>3, PTL DEF Spec
=============================================================================
