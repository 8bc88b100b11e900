-------------------------- MODULE HookModuleProofs --------------------------
(***************************************************************************)
(* Proofs for HookModule, whatever the rules, the directories, the         *)
(* requests and the number of handles.                                     *)
(***************************************************************************)
EXTENDS HookModule, SequenceTheorems, FiniteSetTheorems, TLAPS

\* The progress of the main thread, and what it has done by then.
Progress ==
  /\ stage \in {"read", "build"} => record = 1
  /\ stage = "hook" => record <= Len(HookRecords)
  /\ stage \in {"get", "away", "back", "gave up", "running"} => record = Len(HookRecords) + 1
  /\ stage # "terminated" =>
       \A i \in 1 .. record - 1 : HookRecords[i] \in Required => HookRecords[i] \in hooked

\* Nothing is stored before handles are seen closing.
ClosesAreSeen == \A h \in Handles : store[h] # NoEntry => "NtClose" \in hooked

\* The inductive invariant.
HInv == TypeOK /\ Progress /\ StoredHandlesAreOpen /\ ClosesAreSeen

-----------------------------------------------------------------------------
(* The order of the stages and of the hooks. *)

LEMMA OrderFacts ==
  /\ DOMAIN Order = 1 .. 7
  /\ Order[1] = "read" /\ Order[2] = "build" /\ Order[3] = "hook" /\ Order[4] = "get"
  /\ Order[5] = "away" /\ Order[6] = "back" /\ Order[7] = "running"
BY DEF Order

LEMMA AfterFacts ==
  /\ After("read") = "build" /\ After("build") = "hook" /\ After("hook") = "get"
  /\ After("get") = "away" /\ After("away") = "back" /\ After("back") = "running"
<1>1. (CHOOSE i \in DOMAIN Order : Order[i] = "read") = 1
  BY OrderFacts
<1>2. (CHOOSE i \in DOMAIN Order : Order[i] = "build") = 2
  BY OrderFacts
<1>3. (CHOOSE i \in DOMAIN Order : Order[i] = "hook") = 3
  BY OrderFacts
<1>4. (CHOOSE i \in DOMAIN Order : Order[i] = "get") = 4
  BY OrderFacts
<1>5. (CHOOSE i \in DOMAIN Order : Order[i] = "away") = 5
  BY OrderFacts
<1>6. (CHOOSE i \in DOMAIN Order : Order[i] = "back") = 6
  BY OrderFacts
<1> QED BY <1>1, <1>2, <1>3, <1>4, <1>5, <1>6, OrderFacts DEF After

LEMMA StageNames ==
  {Order[i] : i \in DOMAIN Order} =
    {"read", "build", "hook", "get", "away", "back", "running"}
BY OrderFacts

LEMMA RecordFacts ==
  /\ Len(HookRecords) = 11
  /\ HookRecords[1] = "NtClose" /\ HookRecords[4] = "NtOpenFile"
  /\ HookRecords[3] = "NtDeleteFile" /\ HookRecords[5] = "NtQueryDirectoryFile"
  /\ HookRecords[6] = "NtQueryDirectoryFileEx" /\ HookRecords[7] = "NtQueryInformationByName"
  /\ HookRecords[8] = "NtQueryInformationFile"
BY DEF HookRecords

\* Once a function is hooked and the process goes on, closing is hooked.
LEMMA CloseFirst ==
  ASSUME TypeOK, Progress, hooked # {}, stage # "terminated"
  PROVE  "NtClose" \in hooked
<1>1. record \in Nat /\ record > 1
  <2>1. record \in 1 .. 12
    <3>1. record \in 1 .. Len(HookRecords) + 1
      BY DEF TypeOK
    <3>2. Len(HookRecords) = 11
      BY RecordFacts
    <3> QED BY <3>1, <3>2
  <2>2. ASSUME record = 1 PROVE FALSE
    <3>1. 1 .. record - 1 = {}
      BY <2>2
    <3>2. hooked \subseteq {}
      BY <3>1, Zenon DEF TypeOK
    <3> QED BY <3>2
  <2> QED BY <2>1, <2>2
<1>2. 1 \in 1 .. record - 1
  BY <1>1
<1> QED BY <1>2, RecordFacts DEF Progress, Required

-----------------------------------------------------------------------------
(* Opening a handle. *)

\* What is recorded as opened was tried by a hooked function that knows its root.
LEMMA RecordedIsKnown ==
  ASSUME NEW function, NEW h, NEW root, NEW p, NEW attempt,
         NewHandle(function, h, root, p, attempt), attempt.path # NoPath
  PROVE  function \in hooked /\ Known(root)
<1>1. SUFFICES ASSUME ~(function \in hooked /\ Known(root)) PROVE FALSE
  OBVIOUS
<1>2. Attempts(function, root, p) = <<Attempt(Submitted(root, p), NoPath)>>
  BY <1>1 DEF Attempts
<1>3. attempt = Attempt(Submitted(root, p), NoPath)
  BY <1>2 DEF NewHandle
<1> QED BY <1>3 DEF Attempt

LEMMA NewEntry ==
  ASSUME TypeOK, StoredHandlesAreOpen,
         NEW h \in Handles, NEW root \in {NoHandle} \cup Handles,
         root # NoHandle => IsOpen(root),
         NEW p, NEW function, NEW attempt \in [at : Paths, path : Paths \cup {NoPath}],
         NewHandle(function, h, root, p, attempt)
  PROVE  LET T == TableWith(h, root, p, attempt)
             S == StoreWith(h, root, p, attempt)
         IN /\ T \in [Handles -> Opened \cup {Closed}]
            /\ S \in [Handles -> Entry \cup {NoEntry}]
            /\ T[h] # Closed
            /\ store[h] = NoEntry
            /\ S[h] # NoEntry =>
                 /\ S[h].associated = T[h].name /\ S[h].opened = attempt.path
                 /\ attempt.path # NoPath /\ function \in hooked
            /\ T[h].name = Meant(root, p) /\ T[h].at = attempt.at
            /\ \A g \in Handles \ {h} : T[g] = system[g] /\ S[g] = store[g]
<1> DEFINE opened == [name |-> Meant(root, p), at |-> attempt.at]
           entry == [associated |-> Composed(root, p), opened |-> attempt.path]
<1>1. store[h] = NoEntry
  BY DEF NewHandle, StoredHandlesAreOpen
<1>2. opened \in Opened /\ opened # Closed
  <2>1. opened \in Opened
    BY DEF NewHandle, Opened
  <2> QED BY <2>1, NullAssumption
<1>3. ASSUME attempt.path # NoPath
      PROVE  function \in hooked /\ Composed(root, p) = Meant(root, p)
  <2>1. function \in hooked /\ Known(root)
    BY <1>3, RecordedIsKnown
  <2>2. CASE root = NoHandle
    BY <2>1, <2>2 DEF Composed, Meant
  <2>3. CASE root # NoHandle
    <3>1. root \in Handles /\ store[root] # NoEntry
      BY <2>1, <2>3 DEF Known
    <3>2. store[root].associated = system[root].name
      BY <3>1 DEF StoredHandlesAreOpen
    <3> QED BY <2>1, <2>3, <3>2 DEF Composed, Meant
  <2> QED BY <2>2, <2>3
<1>4. attempt.path # NoPath => entry \in Entry
  BY <1>3 DEF NewHandle, Entry
<1>5. system \in [Handles -> Opened \cup {Closed}] /\ store \in [Handles -> Entry \cup {NoEntry}]
  BY DEF TypeOK
<1>6. TableWith(h, root, p, attempt) = [system EXCEPT ![h] = opened]
  BY DEF TableWith
<1>7. StoreWith(h, root, p, attempt) =
        IF attempt.path = NoPath THEN store ELSE [store EXCEPT ![h] = entry]
  BY <1>1 DEF StoreWith
<1>8. opened.name = Meant(root, p) /\ opened.at = attempt.at
  OBVIOUS
<1>9. entry.associated = Composed(root, p) /\ entry.opened = attempt.path
  OBVIOUS
<1> HIDE DEF opened, entry
<1>10. CASE attempt.path = NoPath
  BY <1>10, <1>1, <1>2, <1>5, <1>6, <1>7, <1>8
<1>11. CASE attempt.path # NoPath
  BY <1>11, <1>1, <1>2, <1>3, <1>4, <1>5, <1>6, <1>7, <1>8, <1>9
<1> QED BY <1>10, <1>11

LEMMA ClosedEntry ==
  ASSUME TypeOK, ClosesAreSeen, NEW h \in Handles, NEW S \in [Handles -> Entry \cup {NoEntry}],
         S[h] = store[h]
  PROVE  /\ WithoutEntry(S, h) \in [Handles -> Entry \cup {NoEntry}]
         /\ WithoutEntry(S, h)[h] = NoEntry
         /\ \A g \in Handles \ {h} : WithoutEntry(S, h)[g] = S[g]
<1>1. CASE "NtClose" \in hooked
  BY <1>1 DEF WithoutEntry
<1>2. CASE "NtClose" \notin hooked
  BY <1>2 DEF WithoutEntry, ClosesAreSeen
<1> QED BY <1>1, <1>2

\* What the invariant says of the handle table and the store together.
TablesFit ==
  /\ system \in [Handles -> Opened \cup {Closed}]
  /\ store \in [Handles -> Entry \cup {NoEntry}]
  /\ cwd \in Handles /\ IsOpen(cwd)
  /\ StoredHandlesAreOpen
  /\ ClosesAreSeen

LEMMA OpenFits ==
  ASSUME HInv, stage # "terminated", UNCHANGED <<hooked, cwd>>,
         NEW h \in Handles, NEW root \in {NoHandle} \cup Handles,
         root # NoHandle => IsOpen(root),
         NEW p, NEW function, NEW attempt \in [at : Paths, path : Paths \cup {NoPath}],
         NewHandle(function, h, root, p, attempt),
         system' = TableWith(h, root, p, attempt), store' = StoreWith(h, root, p, attempt)
  PROVE  TablesFit'
<1>1. /\ system' \in [Handles -> Opened \cup {Closed}]
      /\ store' \in [Handles -> Entry \cup {NoEntry}]
      /\ system'[h] # Closed
      /\ store'[h] # NoEntry => store'[h].associated = system'[h].name /\ function \in hooked
      /\ \A g \in Handles \ {h} : system'[g] = system[g] /\ store'[g] = store[g]
  BY NewEntry DEF HInv
<1>2. function \in hooked => "NtClose" \in hooked
  BY CloseFirst DEF HInv
<1>3. \A g \in Handles : store'[g] # NoEntry =>
        /\ system'[g] # Closed /\ store'[g].associated = system'[g].name
        /\ "NtClose" \in hooked
  BY <1>1, <1>2 DEF HInv, StoredHandlesAreOpen, ClosesAreSeen, IsOpen
<1>4. cwd \in Handles /\ system'[cwd] # Closed
  BY <1>1 DEF HInv, TypeOK, IsOpen
<1> QED BY <1>1, <1>3, <1>4 DEF TablesFit, StoredHandlesAreOpen, ClosesAreSeen, IsOpen

LEMMA CloseFits ==
  ASSUME HInv, UNCHANGED <<hooked, cwd>>, NEW h \in Handles \ {cwd}, NtClose(h)
  PROVE  TablesFit'
<1>1. store \in [Handles -> Entry \cup {NoEntry}]
  BY DEF HInv, TypeOK
<1>2. /\ store' \in [Handles -> Entry \cup {NoEntry}]
      /\ store'[h] = NoEntry
      /\ \A g \in Handles \ {h} : store'[g] = store[g]
  BY <1>1, ClosedEntry DEF HInv, NtClose
<1>3. /\ system' \in [Handles -> Opened \cup {Closed}]
      /\ \A g \in Handles \ {h} : system'[g] = system[g]
  BY DEF HInv, TypeOK, NtClose
<1>4. cwd \in Handles /\ system'[cwd] # Closed
  BY <1>3 DEF HInv, TypeOK, IsOpen
<1> QED
  BY <1>2, <1>3, <1>4 DEF HInv, TablesFit, StoredHandlesAreOpen, ClosesAreSeen, IsOpen

\* The new current directory, as it was opened.
LEMMA NewCurrent ==
  ASSUME HInv, stage # "terminated", UNCHANGED hooked, NEW p, SetCurrentDirectory(p)
  PROVE  /\ TablesFit'
         /\ p \in Paths
         /\ \E i \in DOMAIN Attempts("NtOpenFile", NoHandle, p) :
              LET attempt == Attempts("NtOpenFile", NoHandle, p)[i] IN
              /\ attempt.at \in Paths /\ attempt.path \in Paths \cup {NoPath}
              /\ system'[cwd'].name = p /\ system'[cwd'].at = attempt.at
              /\ store'[cwd'] = IF attempt.path = NoPath THEN NoEntry
                                ELSE [associated |-> p, opened |-> attempt.path]
<1> PICK h \in Handles, attempt \in [at : Paths, path : Paths \cup {NoPath}] :
      /\ NewHandle("NtOpenFile", h, NoHandle, p, attempt)
      /\ system' = [TableWith(h, NoHandle, p, attempt) EXCEPT ![cwd] = Closed]
      /\ store' = WithoutEntry(StoreWith(h, NoHandle, p, attempt), cwd)
      /\ cwd' = h
  BY DEF SetCurrentDirectory
<1> DEFINE T == TableWith(h, NoHandle, p, attempt)
           S == StoreWith(h, NoHandle, p, attempt)
<1>1. /\ T \in [Handles -> Opened \cup {Closed}]
      /\ S \in [Handles -> Entry \cup {NoEntry}]
      /\ T[h] # Closed
      /\ S[h] # NoEntry => S[h].associated = T[h].name /\ "NtOpenFile" \in hooked
      /\ T[h].name = Meant(NoHandle, p) /\ T[h].at = attempt.at
      /\ \A g \in Handles \ {h} : T[g] = system[g] /\ S[g] = store[g]
  <2>1. NoHandle \in {NoHandle} \cup Handles
    OBVIOUS
  <2> QED BY <2>1, NewEntry DEF HInv
<1>2. S[h] = IF attempt.path = NoPath THEN NoEntry
             ELSE [associated |-> p, opened |-> attempt.path]
  <2>1. store[h] = NoEntry
    BY DEF HInv, NewHandle, StoredHandlesAreOpen
  <2>2. store \in [Handles -> Entry \cup {NoEntry}]
    BY DEF HInv, TypeOK
  <2>3. Composed(NoHandle, p) = p
    BY DEF Composed
  <2> QED BY <2>1, <2>2, <2>3 DEF StoreWith
<1> HIDE DEF T, S
<1>3. cwd \in Handles /\ cwd # h
  BY DEF HInv, TypeOK, NewHandle
<1>4. /\ store' \in [Handles -> Entry \cup {NoEntry}]
      /\ store'[cwd] = NoEntry
      /\ \A g \in Handles \ {cwd} : store'[g] = S[g]
  <2>1. S[cwd] = store[cwd]
    BY <1>1, <1>3
  <2>2. store' = WithoutEntry(S, cwd)
    BY DEF S
  <2> QED BY <1>1, <1>3, <2>1, <2>2, ClosedEntry DEF HInv
<1>5. /\ system' \in [Handles -> Opened \cup {Closed}]
      /\ \A g \in Handles \ {cwd} : system'[g] = T[g]
  <2>1. system' = [T EXCEPT ![cwd] = Closed]
    BY DEF T
  <2> QED BY <1>1, <1>3, <2>1
<1>6. "NtOpenFile" \in hooked => "NtClose" \in hooked
  BY CloseFirst DEF HInv
<1>7. TablesFit'
  <2>1. \A g \in Handles : store'[g] # NoEntry =>
          /\ system'[g] # Closed /\ store'[g].associated = system'[g].name
          /\ "NtClose" \in hooked
    BY <1>1, <1>3, <1>4, <1>5, <1>6 DEF HInv, StoredHandlesAreOpen, ClosesAreSeen, IsOpen
  <2>2. cwd' \in Handles /\ system'[cwd'] # Closed
    BY <1>1, <1>3, <1>5
  <2> QED BY <1>4, <1>5, <2>1, <2>2 DEF TablesFit, StoredHandlesAreOpen, ClosesAreSeen, IsOpen
<1>8. p \in Paths /\ Meant(NoHandle, p) = p
  BY DEF NewHandle, Meant
<1>9. PICK i \in DOMAIN Attempts("NtOpenFile", NoHandle, p) :
        attempt = Attempts("NtOpenFile", NoHandle, p)[i]
  BY DEF NewHandle
<1>10. store'[cwd'] = S[h] /\ system'[cwd'] = T[h]
  BY <1>3, <1>4, <1>5
<1> QED BY <1>1, <1>2, <1>7, <1>8, <1>9, <1>10

-----------------------------------------------------------------------------
(* The invariant is inductive. *)

LEMMA Start == Init => HInv
<1> SUFFICES ASSUME Init PROVE HInv
  OBVIOUS
<1>1. stage = "read" /\ record = 1 /\ rules = {} /\ hooked = {} /\ cwd \in Handles
  BY OrderFacts DEF Init
<1>2. PICK p \in Current : system = [h \in Handles |-> IF h = cwd THEN [name |-> p, at |-> p]
                                                                  ELSE Closed]
  BY DEF Init
<1>3. [name |-> p, at |-> p] \in Opened
  BY HookModuleAssumption DEF Opened
<1>4. system \in [Handles -> Opened \cup {Closed}] /\ system[cwd] # Closed
  BY <1>1, <1>2, <1>3, NullAssumption
<1>5. store \in [Handles -> Entry \cup {NoEntry}] /\ \A h \in Handles : store[h] = NoEntry
  BY DEF Init
<1>6. saved = NoPath
  BY DEF Init
<1>7. TypeOK
  <2>1. stage \in {Order[i] : i \in DOMAIN Order} \cup {"gave up", "terminated"}
    BY <1>1, StageNames
  <2>2. record \in 1 .. Len(HookRecords) + 1
    BY <1>1, RecordFacts
  <2> QED BY <1>1, <1>4, <1>5, <1>6, <2>1, <2>2 DEF TypeOK, IsOpen
<1>8. Progress
  BY <1>1 DEF Progress
<1> QED BY <1>5, <1>7, <1>8 DEF HInv, StoredHandlesAreOpen, ClosesAreSeen

\* A step of the main thread that leaves the tables alone.
LEMMA StageStep ==
  ASSUME HInv, UNCHANGED <<record, hooked, system, store, cwd>>,
         rules' \in {{}, Configured},
         saved' \in Paths \cup {NoPath},
         stage' \in {"build", "hook", "get", "away", "back", "running", "gave up"},
         stage' \in {"build", "hook"} => record = 1,
         stage' \notin {"build", "hook"} => record = Len(HookRecords) + 1,
         stage # "terminated"
  PROVE  HInv'
<1>1. TypeOK'
  <2>1. stage' \in {Order[i] : i \in DOMAIN Order} \cup {"gave up", "terminated"}
    BY StageNames
  <2> QED BY <2>1 DEF HInv, TypeOK, IsOpen
<1>2. Progress'
  <2>1. Len(HookRecords) = 11
    BY RecordFacts
  <2>2. \A i \in 1 .. record - 1 : HookRecords[i] \in Required => HookRecords[i] \in hooked
    BY DEF HInv, Progress
  <2>3. stage' = "hook" => record' <= Len(HookRecords)
    BY <2>1
  <2>4. stage' = "build" => record' = 1
    OBVIOUS
  <2>5. stage' \in {"get", "away", "back", "gave up", "running"} =>
          record' = Len(HookRecords) + 1
    OBVIOUS
  <2> QED BY <2>2, <2>3, <2>4, <2>5 DEF Progress
<1>3. StoredHandlesAreOpen' /\ ClosesAreSeen'
  BY DEF HInv, StoredHandlesAreOpen, ClosesAreSeen, IsOpen
<1> QED BY <1>1, <1>2, <1>3 DEF HInv

\* A step that leaves the main thread where it is, or moves it within the last stages.
LEMMA TableStep ==
  ASSUME HInv, TablesFit', UNCHANGED <<record, rules, hooked, saved>>,
         stage # "terminated",
         stage' = stage \/ (/\ stage \in {"away", "back"}
                            /\ stage' \in {"back", "running"})
  PROVE  HInv'
<1>1. TypeOK'
  <2>1. stage' \in {Order[i] : i \in DOMAIN Order} \cup {"gave up", "terminated"}
    BY StageNames DEF HInv, TypeOK
  <2> QED BY <2>1 DEF HInv, TypeOK, TablesFit
<1>2. Progress'
  BY DEF HInv, Progress
<1> QED BY <1>1, <1>2 DEF HInv, TablesFit

LEMMA SetHookStep ==
  ASSUME HInv, SetHook
  PROVE  HInv'
<1>1. /\ stage = "hook" /\ record \in 1 .. 11 /\ record' = record + 1
      /\ Len(HookRecords) = 11
  <2>1. record \in 1 .. Len(HookRecords) + 1
    BY DEF HInv, TypeOK
  <2>2. stage = "hook" /\ record' = record + 1
    BY DEF SetHook
  <2>3. record <= Len(HookRecords)
    BY <2>2 DEF HInv, Progress
  <2>4. Len(HookRecords) = 11
    BY RecordFacts
  <2> QED BY <2>1, <2>2, <2>3, <2>4
<1>2. stage' \in {"hook", "get", "terminated"}
  BY AfterFacts DEF SetHook, AfterHook
<1>3. stage' = "hook" => record < 11
  BY <1>1, AfterFacts DEF SetHook, AfterHook
<1>4. stage' = "get" => record = 11
  BY <1>1, AfterFacts DEF SetHook, AfterHook
<1>5. hooked \subseteq {HookRecords[i] : i \in 1 .. record - 1}
  BY DEF HInv, TypeOK
<1>6. hooked \subseteq hooked' /\ hooked' \subseteq hooked \cup {HookRecords[record]}
  BY DEF SetHook
<1>7. hooked' \subseteq {HookRecords[i] : i \in 1 .. record' - 1}
  <2>1. 1 .. record - 1 \subseteq 1 .. record' - 1 /\ record \in 1 .. record' - 1
    BY <1>1
  <2> QED BY <1>5, <1>6, <2>1
<1>8. TypeOK'
  <2>1. stage' \in {Order[i] : i \in DOMAIN Order} \cup {"gave up", "terminated"}
    BY <1>2, StageNames
  <2>2. record' \in 1 .. Len(HookRecords) + 1
    BY <1>1
  <2> QED BY <1>7, <2>1, <2>2 DEF HInv, TypeOK, SetHook, IsOpen
<1>9. Progress'
  <2>1. ASSUME stage' # "terminated", NEW i \in 1 .. record' - 1, HookRecords[i] \in Required
        PROVE  HookRecords[i] \in hooked'
    <3>1. CASE i = record
      BY <2>1, <3>1, Zenon DEF SetHook
    <3>2. CASE i # record
      <4>1. i \in 1 .. record - 1
        BY <1>1, <3>2
      <4>2. HookRecords[i] \in hooked
        BY <1>1, <2>1, <4>1 DEF HInv, Progress
      <4> QED BY <1>6, <4>2
    <3> QED BY <3>1, <3>2
  <2>2. /\ stage' = "hook" => record' <= Len(HookRecords)
        /\ stage' \in {"get", "away", "back", "gave up", "running"} =>
             record' = Len(HookRecords) + 1
        /\ stage' \notin {"read", "build"}
    <3>1. CASE stage' = "hook"
      BY <1>1, <1>3, <3>1
    <3>2. CASE stage' = "get"
      BY <1>1, <1>4, <3>2
    <3>3. CASE stage' = "terminated"
      BY <3>3
    <3> QED BY <1>2, <3>1, <3>2, <3>3
  <2>3. stage' # "terminated" =>
          \A i \in 1 .. record' - 1 : HookRecords[i] \in Required => HookRecords[i] \in hooked'
    BY <2>1
  <2> QED BY <2>2, <2>3 DEF Progress
<1>10. StoredHandlesAreOpen' /\ ClosesAreSeen'
  BY <1>6 DEF HInv, SetHook, StoredHandlesAreOpen, ClosesAreSeen, IsOpen
<1> QED BY <1>8, <1>9, <1>10 DEF HInv

LEMMA Step == HInv /\ [Next]_vars => HInv'
<1> SUFFICES ASSUME HInv, [Next]_vars PROVE HInv'
  OBVIOUS
<1>1. rules \in {{}, Configured} /\ saved \in Paths \cup {NoPath}
  BY DEF HInv, TypeOK
<1>2. CASE ReadConfigurationFile
  <2>1. stage' \in {"build", "hook"} /\ record = 1
    BY <1>2, AfterFacts DEF ReadConfigurationFile, HInv, Progress
  <2> QED BY <1>1, <1>2, <2>1, StageStep DEF ReadConfigurationFile
<1>3. CASE BuildFilesystemRules
  <2>1. stage' = "hook" /\ record = 1 /\ rules' \in {{}, Configured}
    BY <1>1, <1>3, AfterFacts DEF BuildFilesystemRules, HInv, Progress
  <2> QED BY <1>1, <1>3, <2>1, StageStep DEF BuildFilesystemRules
<1>4. CASE SetHook
  BY <1>4, SetHookStep
<1>5. CASE GiveUp
  <2>1. record = Len(HookRecords) + 1
    BY <1>5 DEF GiveUp, HInv, Progress
  <2> QED BY <1>1, <1>5, <2>1, StageStep DEF GiveUp
<1>6. CASE GetDirectories
  <2>1. record = Len(HookRecords) + 1 /\ stage' = "away"
    BY <1>6, AfterFacts DEF GetDirectories, HInv, Progress
  <2>2. saved' \in Paths
    <3>1. system[cwd] \in Opened
      BY DEF HInv, TypeOK, IsOpen
    <3> QED BY <1>6, <3>1 DEF GetDirectories, Opened
  <2> QED BY <1>1, <1>6, <2>1, <2>2, StageStep DEF GetDirectories
<1>7. CASE ToTemporary
  <2>1. TablesFit'
    BY <1>7, NewCurrent DEF ToTemporary
  <2>2. stage' = "back"
    BY <1>7, AfterFacts DEF ToTemporary
  <2> QED BY <1>7, <2>1, <2>2, TableStep DEF ToTemporary
<1>8. CASE BackToCurrent
  <2>1. TablesFit'
    BY <1>8, NewCurrent DEF BackToCurrent
  <2>2. stage' = "running"
    BY <1>8, AfterFacts DEF BackToCurrent
  <2> QED BY <1>8, <2>1, <2>2, TableStep DEF BackToCurrent
<1>9. CASE ChangeDirectory
  <2>1. TablesFit'
    BY <1>9, NewCurrent DEF ChangeDirectory
  <2> QED BY <1>9, <2>1, TableStep DEF ChangeDirectory
<1>10. CASE Open
  <2> PICK h \in Handles, root \in {NoHandle} \cup {r \in Handles : IsOpen(r)}, p \in Requests :
        NtCreateFile(h, root, p) \/ NtOpenFile(h, root, p)
    BY <1>10 DEF Open
  <2>1. stage # "terminated" /\ UNCHANGED <<stage, record, rules, hooked, cwd, saved>>
    BY <1>10 DEF Open
  <2>2. root \in {NoHandle} \cup Handles /\ (root # NoHandle => IsOpen(root))
    OBVIOUS
  <2>3. CASE NtCreateFile(h, root, p)
    <3> PICK attempt \in [at : Paths, path : Paths \cup {NoPath}] :
          /\ NewHandle("NtCreateFile", h, root, p, attempt)
          /\ system' = TableWith(h, root, p, attempt)
          /\ store' = StoreWith(h, root, p, attempt)
      BY <2>3 DEF NtCreateFile
    <3>1. TablesFit'
      BY <2>1, <2>2, OpenFits
    <3> QED BY <2>1, <3>1, TableStep
  <2>4. CASE NtOpenFile(h, root, p)
    <3> PICK attempt \in [at : Paths, path : Paths \cup {NoPath}] :
          /\ NewHandle("NtOpenFile", h, root, p, attempt)
          /\ system' = TableWith(h, root, p, attempt)
          /\ store' = StoreWith(h, root, p, attempt)
      BY <2>4 DEF NtOpenFile
    <3>1. TablesFit'
      BY <2>1, <2>2, OpenFits
    <3> QED BY <2>1, <3>1, TableStep
  <2> QED BY <2>3, <2>4
<1>11. CASE Close
  <2> PICK h \in Handles \ {cwd} : NtClose(h)
    BY <1>11 DEF Close
  <2>1. stage # "terminated" /\ UNCHANGED <<stage, record, rules, hooked, cwd, saved>>
    BY <1>11 DEF Close
  <2>2. TablesFit'
    BY <2>1, CloseFits
  <2> QED BY <2>1, <2>2, TableStep
<1>12. CASE UNCHANGED vars
  BY <1>12 DEF vars, HInv, TypeOK, Progress, StoredHandlesAreOpen, ClosesAreSeen, IsOpen
<1> QED
  BY <1>2, <1>3, <1>4, <1>5, <1>6, <1>7, <1>8, <1>9, <1>10, <1>11, <1>12 DEF Next

\* HInv is an invariant, for any set of handles.
THEOREM Invariance == Spec => []HInv
BY Start, Step, PTL DEF Spec

\* The tables of handles and entries keep their types (OpenHandleStore, Hooks.cpp).
THEOREM TypeCorrect == Spec => []TypeOK
<1>1. HInv => TypeOK
  BY DEF HInv
<1> QED BY <1>1, Invariance, PTL

\* Whatever threads open and close while the hooks are being set, the store
\* speaks of open handles only, and of what they are open for (SetAllHooksOrDie).
THEOREM OnlyOpenHandlesAreStored == Spec => []StoredHandlesAreOpen
<1>1. HInv => StoredHandlesAreOpen
  BY DEF HInv
<1> QED BY <1>1, Invariance, PTL

\* No intercepted call can meet the director while it is replaced
\* (SetFilesystemDirectorInstance, HOOKSHOT_HOOK_MODULE_ENTRY).
THEOREM RulesStayFixed == Spec => RulesFixed
<1>1. HInv /\ [Next]_vars => [hooked # {} => UNCHANGED rules]_vars
  <2> SUFFICES ASSUME HInv, [Next]_vars, hooked # {} PROVE UNCHANGED rules
    OBVIOUS
  <2>1. ASSUME stage = "build" PROVE FALSE
    <3>1. record = 1
      BY <2>1 DEF HInv, Progress
    <3>2. 1 .. record - 1 = {}
      BY <3>1
    <3>3. hooked \subseteq {}
      BY <3>2, Zenon DEF HInv, TypeOK
    <3> QED BY <3>3
  <2>2. CASE Next
    BY <2>1, <2>2 DEF Next, ReadConfigurationFile, BuildFilesystemRules, SetHook, GiveUp,
       GetDirectories, ToTemporary, BackToCurrent, ChangeDirectory, Open, Close
  <2>3. CASE UNCHANGED vars
    BY <2>3 DEF vars
  <2> QED BY <2>2, <2>3
<1> QED BY <1>1, Invariance, PTL DEF Spec, RulesFixed

-----------------------------------------------------------------------------
(* Prefixes of paths, and the rules for a path and for what is right below it. *)

\* IsPrefix as the equality of the first elements.
LEMMA PrefixElements ==
  ASSUME NEW S, NEW p \in Seq(S), NEW q \in Seq(S)
  PROVE  IsPrefix(p, q) <=> Len(p) <= Len(q) /\ \A i \in 1..Len(p) : p[i] = q[i]
<1>1. CASE Len(p) <= Len(q)
  <2>1. /\ SubSeq(p, 1, Len(p)) \in Seq(S) /\ Len(SubSeq(p, 1, Len(p))) = Len(p)
        /\ SubSeq(q, 1, Len(p)) \in Seq(S) /\ Len(SubSeq(q, 1, Len(p))) = Len(p)
        /\ \A i \in 1..Len(p) : /\ SubSeq(p, 1, Len(p))[i] = p[i]
                                /\ SubSeq(q, 1, Len(p))[i] = q[i]
    BY <1>1
  <2>2. SubSeq(p, 1, Len(p)) = SubSeq(q, 1, Len(p)) <=> \A i \in 1..Len(p) : p[i] = q[i]
    BY <2>1, SeqEqual
  <2> QED BY <1>1, <2>2 DEF IsPrefix
<1>2. CASE ~(Len(p) <= Len(q))
  BY <1>2 DEF IsPrefix
<1> QED BY <1>1, <1>2

LEMMA PrefixReflexive ==
  ASSUME NEW S, NEW p \in Seq(S)
  PROVE  IsPrefix(p, p)
BY PrefixElements

LEMMA PrefixTransitive ==
  ASSUME NEW S, NEW p \in Seq(S), NEW q \in Seq(S), NEW r \in Seq(S),
         IsPrefix(p, q), IsPrefix(q, r)
  PROVE  IsPrefix(p, r)
BY PrefixElements

LEMMA PrefixSameLength ==
  ASSUME NEW S, NEW p \in Seq(S), NEW q \in Seq(S), IsPrefix(p, q), Len(p) = Len(q)
  PROVE  p = q
<1>1. \A i \in 1..Len(p) : p[i] = q[i]
  BY PrefixElements
<1> QED BY <1>1, SeqEqual

\* Two prefixes of one path are prefixes of each other.
LEMMA PrefixComparable ==
  ASSUME NEW S, NEW p \in Seq(S), NEW q \in Seq(S), NEW r \in Seq(S),
         IsPrefix(p, r), IsPrefix(q, r), Len(p) <= Len(q)
  PROVE  IsPrefix(p, q)
BY PrefixElements

LEMMA PrefixAppend ==
  ASSUME NEW S, NEW p \in Seq(S), NEW q \in Seq(S), NEW k \in S
  PROVE  /\ Append(q, k) \in Seq(S)
         /\ IsPrefix(q, Append(q, k))
         /\ IsPrefix(p, Append(q, k)) <=> IsPrefix(p, q) \/ p = Append(q, k)
         /\ ~IsPrefix(Append(q, k), q)
<1>1. Append(q, k) \in Seq(S)
  OBVIOUS
<1> SUFFICES ASSUME NEW r \in Seq(S), r = Append(q, k)
             PROVE  /\ IsPrefix(q, r) /\ ~IsPrefix(r, q)
                    /\ IsPrefix(p, r) <=> IsPrefix(p, q) \/ p = r
  BY <1>1
<1>2. Len(r) = Len(q) + 1 /\ \A i \in 1..Len(q) : q[i] = r[i]
  OBVIOUS
<1>3. IsPrefix(q, r) /\ ~IsPrefix(r, q)
  <2>1. Len(q) <= Len(r) /\ \A i \in 1..Len(q) : q[i] = r[i]
    BY <1>2
  <2>2. ~(Len(r) <= Len(q))
    BY <1>2
  <2> QED BY <2>1, <2>2, PrefixElements, Zenon
<1>4. ASSUME IsPrefix(p, r), p # r
      PROVE  IsPrefix(p, q)
  <2>1. Len(p) # Len(q) + 1
    BY <1>2, <1>4, PrefixSameLength
  <2>2. Len(p) <= Len(r)
    BY <1>4, PrefixElements, Zenon
  <2>3. Len(p) <= Len(q)
    BY <1>2, <2>1, <2>2
  <2> QED BY <1>3, <1>4, <2>3, PrefixComparable
<1>5. ASSUME IsPrefix(p, q)
      PROVE  IsPrefix(p, r)
  BY <1>3, <1>5, PrefixTransitive
<1>6. IsPrefix(r, r)
  BY PrefixReflexive
<1> QED BY <1>3, <1>4, <1>5, <1>6

\* Without an origin directory at or below p, the rules for p and for a path
\* right below it are the same ones.
LEMMA SameRulesBelow ==
  ASSUME NEW R, ValidRules(R), NEW p \in Seq(Names), NEW n \in Names,
         \A r \in R : ~IsPrefix(p, r.origin)
  PROVE  SelectRulesForPath(R, Append(p, n)) = SelectRulesForPath(R, p)
<1> DEFINE full == Append(p, n)
<1>1. full \in Seq(Names) /\ IsPrefix(full, full) /\ IsPrefix(p, full)
  BY PrefixAppend, PrefixReflexive
<1>2. \A r \in R : r.origin \in Seq(Names)
  BY PathsAssumption DEF ValidRules, Rule
<1>3. ASSUME NEW r \in R PROVE IsPrefix(r.origin, full) <=> IsPrefix(r.origin, p)
  <2>1. r.origin \in Seq(Names) /\ r.origin # full
    BY <1>1, <1>2, <1>3
  <2> QED BY <2>1, PrefixAppend
<1>4. {r \in R : IsPrefix(r.origin, full)} = {r \in R : IsPrefix(r.origin, p)}
  BY <1>3
<1> QED BY <1>4 DEF SelectRulesForPath

LEMMA SameRuleBelow ==
  ASSUME NEW R, ValidRules(R), NEW p \in Seq(Names), p # <<>>, NEW n \in Names,
         \A r \in R : ~IsPrefix(p, r.origin)
  PROVE  RuleFor(R, Append(p, n)) = RuleFor(R, p)
<1> DEFINE full == Append(p, n)  C == SelectRulesForPath(R, p)
<1>1. SelectRulesForPath(R, full) = C
  BY SameRulesBelow
<1>2. full # <<>>
  OBVIOUS
<1>3. ASSUME NEW r \in C PROVE InScope(r, full) <=> InScope(r, p)
  <2>1. r \in R /\ IsPrefix(r.origin, p)
    BY DEF SelectRulesForPath
  <2>2. r.origin \in Seq(Names)
    BY <2>1, PathsAssumption DEF ValidRules, Rule
  <2>3. Len(r.origin) <= Len(p) /\ r.origin # p
    BY <2>1, <2>2, PrefixElements, PrefixReflexive
  <2>4. Len(r.origin) # Len(p)
    BY <2>1, <2>2, <2>3, PrefixSameLength
  <2>5. Len(r.origin) + 1 \in 1 .. Len(p)
    BY <2>2, <2>3, <2>4
  <2>6. full[Len(r.origin) + 1] = p[Len(r.origin) + 1]
    BY <2>5
  <2>7. r.origin # full
    BY <2>3, PrefixAppend
  <2> QED BY <2>3, <2>6, <2>7 DEF InScope
<1>4. {r \in C : InScope(r, full)} = {r \in C : InScope(r, p)}
  BY <1>3
<1> HIDE DEF full, C
<1>5. RuleFor(R, full) = First({r \in C : InScope(r, full)})
  BY <1>1, <1>2 DEF RuleFor
<1>6. RuleFor(R, p) = First({r \in C : InScope(r, p)})
  BY DEF RuleFor, C
<1> QED BY <1>4, <1>5, <1>6 DEF full

LEMMA NoRuleForNothing ==
  ASSUME NEW R, NEW p, SelectRulesForPath(R, p) = {}
  PROVE  RuleFor(R, p) = {}
BY DEF RuleFor, First

\* What is right below a path that no rule is interested in is not redirected.
LEMMA NoRuleBelow ==
  ASSUME NEW R, ValidRules(R), NEW p \in Seq(Names), p # <<>>, NEW n \in Names,
         RuleFor(R, p) = {}, ~Intercepted(R, p),
         \A r \in R : IsPrefix(p, r.origin) /\ SelectRulesForPath(R, p) # {} => RuleFor(R, p) # {}
  PROVE  RuleFor(R, Append(p, n)) = {}
<1>1. \A r \in R : ~IsPrefix(p, r.origin)
  BY DEF Intercepted, IsPrefixForAnyRule
<1> QED BY <1>1, SameRuleBelow

\* Where no rule covers a path, none covers what is above it.
LEMMA NoRuleAbove ==
  ASSUME NEW R, ValidRules(R), NEW p \in Seq(Names), NEW n \in Names,
         SelectRulesForPath(R, Append(p, n)) = {}
  PROVE  RuleFor(R, p) = {}
<1> DEFINE full == Append(p, n)
<1>1. full \in Seq(Names)
  OBVIOUS
<1>2. \A r \in R : r.origin \in Seq(Names)
  BY PathsAssumption DEF ValidRules, Rule
<1>3. \A r \in R : r.origin # full
  <2> SUFFICES ASSUME NEW r \in R, r.origin = full PROVE FALSE
    OBVIOUS
  <2>1. IsPrefix(r.origin, full)
    BY <1>1, PrefixReflexive
  <2>2. ASSUME NEW s \in R, IsPrefix(s.origin, full) PROVE Len(s.origin) <= Len(r.origin)
    BY <1>1, <1>2, <2>2, PrefixElements
  <2>3. r \in SelectRulesForPath(R, full)
    BY <2>1, <2>2 DEF SelectRulesForPath
  <2> QED BY <2>3
<1>4. ASSUME NEW r \in R PROVE IsPrefix(r.origin, full) <=> IsPrefix(r.origin, p)
  BY <1>2, <1>3, <1>4, PrefixAppend
<1>5. {r \in R : IsPrefix(r.origin, full)} = {r \in R : IsPrefix(r.origin, p)}
  BY <1>4
<1>6. SelectRulesForPath(R, p) = {}
  BY <1>5 DEF SelectRulesForPath
<1> QED BY <1>6, NoRuleForNothing

-----------------------------------------------------------------------------
(* The current directory. *)

\* The current directory as a hooked function opens it.
Settled ==
  LET name == system[cwd].name
      at == system[cwd].at
  IN /\ name \in Current
     /\ \/ /\ store[cwd] = [associated |-> name, opened |-> at]
           /\ RuleFor(rules, name) # {} \/ at = name
        \/ /\ store[cwd] = NoEntry /\ at = name
           /\ RuleFor(rules, name) = {} /\ ~Intercepted(rules, name)

\* It is the one the process was started in, until the application changes it.
CurrentKept ==
  /\ stage \in {"read", "build", "hook", "get"} => system[cwd].name \in Current
  /\ stage \in {"away", "back"} => saved \in Current
  /\ stage = "running" => Settled

LEMMA RequiredRecords ==
  ASSUME record = Len(HookRecords) + 1,
         \A i \in 1 .. record - 1 : HookRecords[i] \in Required => HookRecords[i] \in hooked
  PROVE  {"NtOpenFile", "NtDeleteFile", "NtQueryDirectoryFile", "NtQueryDirectoryFileEx",
          "NtQueryInformationByName", "NtQueryInformationFile"} \subseteq hooked
<1>1. record - 1 = 11
  BY RecordFacts
<1>2. \A i \in 3 .. 8 : HookRecords[i] \in Required => HookRecords[i] \in hooked
  <2>1. 1 .. record - 1 = 1 .. 11
    BY <1>1
  <2>2. \A i \in 3 .. 8 : i \in 1 .. 11
    OBVIOUS
  <2> QED BY <2>1, <2>2, Zenon
<1>3. "NtDeleteFile" \in hooked /\ "NtOpenFile" \in hooked
  <2>1. 3 \in 3 .. 8 /\ 4 \in 3 .. 8
    OBVIOUS
  <2> QED BY <1>2, <2>1, RecordFacts DEF Required
<1>4. "NtQueryDirectoryFile" \in hooked /\ "NtQueryDirectoryFileEx" \in hooked
  <2>1. 5 \in 3 .. 8 /\ 6 \in 3 .. 8
    OBVIOUS
  <2> QED BY <1>2, <2>1, RecordFacts DEF Required
<1>5. "NtQueryInformationByName" \in hooked /\ "NtQueryInformationFile" \in hooked
  <2>1. 7 \in 3 .. 8 /\ 8 \in 3 .. 8
    OBVIOUS
  <2> QED BY <1>2, <2>1, RecordFacts DEF Required
<1> QED BY <1>3, <1>4, <1>5

LEMMA RequiredAreSet ==
  ASSUME HInv, stage \in {"get", "away", "back", "gave up", "running"}
  PROVE  {"NtOpenFile", "NtDeleteFile", "NtQueryDirectoryFile", "NtQueryDirectoryFileEx",
          "NtQueryInformationByName", "NtQueryInformationFile"} \subseteq hooked
<1>1. record = Len(HookRecords) + 1
  BY DEF HInv, Progress
<1>2. \A i \in 1 .. record - 1 : HookRecords[i] \in Required => HookRecords[i] \in hooked
  BY DEF HInv, Progress
<1> QED BY <1>1, <1>2, RequiredRecords

LEMMA SettledWhenSet ==
  ASSUME HInv, stage \in {"back", "running"}, UNCHANGED <<rules, hooked>>,
         NEW p \in Current, SetCurrentDirectory(p)
  PROVE  Settled'
<1>1. "NtOpenFile" \in hooked
  BY RequiredAreSet
<1>2. p \in Paths /\ p # NoPath
  BY HookModuleAssumption, PathsAssumption, NoPathAssumption
<1>3. Attempts("NtOpenFile", NoHandle, p) = InstructedAttempts(NoHandle, p)
  BY <1>1 DEF Attempts, Known
<1>4. Composed(NoHandle, p) = p /\ Submitted(NoHandle, p) = p
  BY DEF Composed, Submitted
<1>5. PICK i \in DOMAIN InstructedAttempts(NoHandle, p) :
        LET attempt == InstructedAttempts(NoHandle, p)[i] IN
        /\ attempt.at \in Paths /\ attempt.path \in Paths \cup {NoPath}
        /\ system'[cwd'].name = p /\ system'[cwd'].at = attempt.at
        /\ store'[cwd'] = IF attempt.path = NoPath THEN NoEntry
                          ELSE [associated |-> p, opened |-> attempt.path]
  BY <1>3, NewCurrent DEF HInv
<1> DEFINE attempt == InstructedAttempts(NoHandle, p)[i]
<1>6. NoPath \notin Paths
  BY PathsAssumption, NoPathAssumption
<1>7. CASE RuleFor(rules, p) # {}
  <2> DEFINE r == CHOOSE r \in RuleFor(rules, p) : TRUE
             redirected == RedirectPathOriginToTarget(r, p)
  <2>1. InstructedAttempts(NoHandle, p) =
          IF r.mode = "Overlay"
          THEN <<Attempt(redirected, redirected), Attempt(p, p)>>
          ELSE <<Attempt(redirected, redirected)>>
    BY <1>4, <1>7 DEF InstructedAttempts
  <2> HIDE DEF r, redirected
  <2>2. attempt \in {Attempt(redirected, redirected), Attempt(p, p)}
    BY <1>5, <2>1
  <2>3. attempt.path = attempt.at
    BY <2>2 DEF Attempt
  <2> HIDE DEF attempt
  <2>4. store'[cwd'] = [associated |-> p, opened |-> system'[cwd'].at]
    BY <1>5, <1>6, <2>3 DEF attempt
  <2> QED BY <1>5, <1>7, <2>4 DEF Settled
<1>8. CASE RuleFor(rules, p) = {} /\ Intercepted(rules, p)
  <2>1. InstructedAttempts(NoHandle, p) = <<Attempt(p, p)>>
    BY <1>4, <1>8 DEF InstructedAttempts
  <2>2. attempt.path = p /\ attempt.at = p
    BY <1>5, <2>1 DEF Attempt
  <2> QED BY <1>2, <1>5, <1>8, <2>2 DEF Settled
<1>9. CASE RuleFor(rules, p) = {} /\ ~Intercepted(rules, p)
  <2>1. InstructedAttempts(NoHandle, p) = <<Attempt(p, NoPath)>>
    BY <1>4, <1>9 DEF InstructedAttempts
  <2>2. attempt.path = NoPath /\ attempt.at = p
    BY <1>5, <2>1 DEF Attempt
  <2> QED BY <1>5, <1>9, <2>2 DEF Settled
<1> QED BY <1>7, <1>8, <1>9

\* No other thread touches the current directory.
LEMMA CurrentUntouched ==
  ASSUME HInv, Open \/ Close
  PROVE  /\ system'[cwd] = system[cwd] /\ store'[cwd] = store[cwd]
         /\ UNCHANGED <<stage, rules, cwd, saved>>
<1>1. CASE Open
  <2> PICK h \in Handles, root \in {NoHandle} \cup {r \in Handles : IsOpen(r)}, p \in Requests :
        NtCreateFile(h, root, p) \/ NtOpenFile(h, root, p)
    BY <1>1 DEF Open
  <2> PICK function \in {"NtCreateFile", "NtOpenFile"},
           attempt \in [at : Paths, path : Paths \cup {NoPath}] :
        /\ NewHandle(function, h, root, p, attempt)
        /\ system' = TableWith(h, root, p, attempt)
        /\ store' = StoreWith(h, root, p, attempt)
    <3>1. CASE NtCreateFile(h, root, p)
      BY <3>1 DEF NtCreateFile
    <3>2. CASE NtOpenFile(h, root, p)
      BY <3>2 DEF NtOpenFile
    <3> QED BY <3>1, <3>2
  <2>1. cwd \in Handles \ {h}
    BY DEF HInv, TypeOK, NewHandle
  <2>2. root \in {NoHandle} \cup Handles /\ (root # NoHandle => IsOpen(root))
    OBVIOUS
  <2>3. \A g \in Handles \ {h} : system'[g] = system[g] /\ store'[g] = store[g]
    BY <2>2, NewEntry DEF HInv
  <2> QED BY <1>1, <2>1, <2>3 DEF Open
<1>2. CASE Close
  <2> PICK h \in Handles \ {cwd} : NtClose(h)
    BY <1>2 DEF Close
  <2>1. cwd \in Handles \ {h}
    BY DEF HInv, TypeOK
  <2>2. store \in [Handles -> Entry \cup {NoEntry}]
    BY DEF HInv, TypeOK
  <2>3. store'[cwd] = store[cwd]
    BY <2>1, <2>2, ClosedEntry DEF HInv, NtClose
  <2>4. system'[cwd] = system[cwd]
    BY <2>1 DEF HInv, TypeOK, NtClose
  <2> QED BY <1>2, <2>3, <2>4 DEF Close
<1> QED BY <1>1, <1>2

LEMMA CurrentKeptStep == HInv /\ CurrentKept /\ [Next]_vars => CurrentKept'
<1> SUFFICES ASSUME HInv, CurrentKept, [Next]_vars PROVE CurrentKept'
  OBVIOUS
<1>1. CASE ReadConfigurationFile
  BY <1>1, AfterFacts DEF ReadConfigurationFile, CurrentKept
<1>2. CASE BuildFilesystemRules
  BY <1>2, AfterFacts DEF BuildFilesystemRules, CurrentKept
<1>3. CASE SetHook
  BY <1>3, AfterFacts DEF SetHook, AfterHook, CurrentKept
<1>4. CASE GiveUp
  BY <1>4 DEF GiveUp, CurrentKept
<1>5. CASE GetDirectories
  BY <1>5, AfterFacts DEF GetDirectories, CurrentKept
<1>6. CASE ToTemporary
  BY <1>6, AfterFacts DEF ToTemporary, CurrentKept
<1>7. CASE BackToCurrent
  <2>1. saved \in Current /\ stage' = "running"
    BY <1>7, AfterFacts DEF BackToCurrent, CurrentKept
  <2>2. Settled'
    BY <1>7, <2>1, SettledWhenSet DEF BackToCurrent
  <2> QED BY <2>1, <2>2 DEF CurrentKept
<1>8. CASE ChangeDirectory
  <2>1. stage' = stage /\ stage \in {"gave up", "running"}
    BY <1>8 DEF ChangeDirectory
  <2>2. stage = "running" => Settled'
    BY <1>8, SettledWhenSet DEF ChangeDirectory
  <2> QED BY <2>1, <2>2 DEF CurrentKept
<1>9. CASE Open \/ Close
  BY <1>9, CurrentUntouched DEF CurrentKept, Settled
<1>10. CASE UNCHANGED vars
  BY <1>10 DEF vars, CurrentKept, Settled
<1> QED BY <1>1, <1>2, <1>3, <1>4, <1>5, <1>6, <1>7, <1>8, <1>9, <1>10 DEF Next

LEMMA CurrentKeptAtStart == Init => CurrentKept
<1> SUFFICES ASSUME Init PROVE CurrentKept
  OBVIOUS
<1>1. stage = "read" /\ cwd \in Handles
  BY OrderFacts DEF Init
<1>2. system[cwd].name \in Current
  BY <1>1 DEF Init
<1> QED BY <1>1, <1>2 DEF CurrentKept

THEOREM CurrentStaysKept == Spec => []CurrentKept
<1>1. Spec => []HInv
  BY Invariance
<1> QED BY <1>1, CurrentKeptAtStart, CurrentKeptStep, PTL DEF Spec

LEMMA RulesValid ==
  ASSUME HInv, NestedInScope
  PROVE  /\ ValidRules(rules)
         /\ \A p \in Paths \ {<<>>}, r \in rules :
              IsPrefix(p, r.origin) /\ SelectRulesForPath(rules, p) # {} => RuleFor(rules, p) # {}
<1>1. CASE rules = Configured
  BY <1>1, HookModuleAssumption DEF NestedInScope
<1>2. CASE rules = {}
  <2>1. IsFiniteSet({})
    BY FS_EmptySet
  <2> QED BY <1>2, <2>1 DEF ValidRules
<1>3. rules \in {{}, Configured}
  BY DEF HInv, TypeOK
<1> QED BY <1>1, <1>2, <1>3

\* A request relative to the current directory and one by the full path.
LEMMA AskedAlike ==
  ASSUME HInv, Settled, NestedInScope, NEW function \in hooked, NEW n \in Names
  PROVE  Attempts(function, cwd, <<n>>)[1].at =
           Attempts(function, NoHandle, Append(system[cwd].name, n))[1].at
<1> DEFINE name == system[cwd].name  at == system[cwd].at  full == Append(name, n)
<1>1. name \in Seq(Names) /\ name \in Paths \ {<<>>}
  BY HookModuleAssumption, PathsAssumption DEF Settled
<1>2. name \o <<n>> = full
  BY <1>1
<1>3. cwd # NoHandle
  BY NullAssumption DEF HInv, TypeOK
<1>4. Attempts(function, NoHandle, full) = InstructedAttempts(NoHandle, full)
  BY DEF Attempts, Known
<1>5. Composed(NoHandle, full) = full /\ Submitted(NoHandle, full) = full
  BY DEF Composed, Submitted
<1>6. Submitted(cwd, <<n>>) = at \o <<n>>
  BY <1>3 DEF Submitted
<1>7. ValidRules(rules)
  BY RulesValid
<1>8. CASE store[cwd] = NoEntry
  <2>1. at = name /\ RuleFor(rules, name) = {} /\ ~Intercepted(rules, name)
    <3>1. store[cwd] # [associated |-> name, opened |-> at]
      <4>1. system[cwd] \in Opened
        BY DEF HInv, TypeOK, IsOpen
      <4>2. [associated |-> name, opened |-> at] \in Entry
        BY <4>1 DEF Opened, Entry
      <4> QED BY <1>8, <4>2, NullAssumption
    <3> QED BY <3>1 DEF Settled
  <2>2. Attempts(function, cwd, <<n>>) = <<Attempt(full, NoPath)>>
    BY <1>2, <1>3, <1>6, <1>8, <2>1 DEF Attempts, Known
  <2>3. RuleFor(rules, full) = {}
    <3>1. \A r \in rules : IsPrefix(name, r.origin) /\ SelectRulesForPath(rules, name) # {} =>
                             RuleFor(rules, name) # {}
      BY <1>1, RulesValid
    <3>2. name # <<>>
      BY <1>1
    <3> HIDE DEF name
    <3> QED BY <1>1, <1>7, <2>1, <3>1, <3>2, NoRuleBelow
  <2>4. InstructedAttempts(NoHandle, full)[1].at = full
    BY <1>5, <2>3 DEF InstructedAttempts, Attempt
  <2>5. Attempts(function, cwd, <<n>>)[1].at = full
    BY <2>2 DEF Attempt
  <2> QED BY <1>4, <2>4, <2>5
<1>9. CASE store[cwd] # NoEntry
  <2>1. /\ store[cwd] = [associated |-> name, opened |-> at]
        /\ RuleFor(rules, name) # {} \/ at = name
    BY <1>9 DEF Settled
  <2>2. Composed(cwd, <<n>>) = full
    BY <1>2, <1>3, <2>1 DEF Composed
  <2>3. Attempts(function, cwd, <<n>>) = InstructedAttempts(cwd, <<n>>)
    BY <1>9 DEF Attempts, Known
  <2>4. Intercepted(rules, full) => at = name
    <3>1. Intercepted(rules, full) => SelectRulesForPath(rules, full) = {}
      BY DEF Intercepted
    <3> HIDE DEF name
    <3> QED BY <1>1, <1>7, <2>1, <3>1, NoRuleAbove
  <2> DEFINE r == CHOOSE r \in RuleFor(rules, full) : TRUE
             redirected == RedirectPathOriginToTarget(r, full)
  <2>5. CASE RuleFor(rules, full) # {}
    <3>1. InstructedAttempts(cwd, <<n>>)[1] = Attempt(redirected, redirected)
      BY <2>2, <2>5 DEF InstructedAttempts
    <3>2. InstructedAttempts(NoHandle, full)[1] = Attempt(redirected, redirected)
      BY <1>5, <2>5 DEF InstructedAttempts
    <3> QED BY <1>4, <2>3, <3>1, <3>2
  <2>6. CASE RuleFor(rules, full) = {} /\ Intercepted(rules, full)
    <3>1. InstructedAttempts(cwd, <<n>>) = <<Attempt(full, full)>>
      BY <1>2, <1>6, <2>2, <2>4, <2>6 DEF InstructedAttempts
    <3>2. InstructedAttempts(NoHandle, full) = <<Attempt(full, full)>>
      BY <1>5, <2>6 DEF InstructedAttempts
    <3> QED BY <1>4, <2>3, <3>1, <3>2
  <2>7. CASE RuleFor(rules, full) = {} /\ ~Intercepted(rules, full)
    <3>1. InstructedAttempts(cwd, <<n>>) = <<Attempt(full, NoPath)>>
      BY <2>2, <2>7 DEF InstructedAttempts
    <3>2. InstructedAttempts(NoHandle, full) = <<Attempt(full, NoPath)>>
      BY <1>5, <2>7 DEF InstructedAttempts
    <3> QED BY <1>4, <2>3, <3>1, <3>2
  <2> QED BY <2>5, <2>6, <2>7
<1> QED BY <1>8, <1>9

\* The current directory as the application finds it.
LEMMA KeptIsIntercepted ==
  ASSUME HInv, CurrentKept, NestedInScope
  PROVE  CurrentDirectoryIntercepted
<1> SUFFICES ASSUME stage = "running" PROVE CurrentDirectoryIntercepted
  BY DEF CurrentDirectoryIntercepted
<1> DEFINE name == system[cwd].name  at == system[cwd].at
<1>1. Settled
  BY DEF CurrentKept
<1>2. {"NtDeleteFile", "NtQueryDirectoryFile", "NtQueryDirectoryFileEx",
       "NtQueryInformationByName", "NtQueryInformationFile"} \subseteq hooked
  BY RequiredAreSet
<1>3. \/ store[cwd] = [associated |-> name, opened |-> at] /\ store[cwd] # NoEntry
      \/ store[cwd] = NoEntry /\ at = name
  <2>1. system[cwd] \in Opened
    BY DEF HInv, TypeOK, IsOpen
  <2>2. [associated |-> name, opened |-> at] \in Entry
    BY <2>1 DEF Opened, Entry
  <2> QED BY <1>1, <2>2, NullAssumption DEF Settled
<1>4. NtQueryInformationFile(cwd) = name
  BY <1>2, <1>3 DEF NtQueryInformationFile
<1>5. /\ Enumeration("NtQueryDirectoryFile", cwd) = DirectoriesToEnumerate(rules, name, at)
      /\ Enumeration("NtQueryDirectoryFileEx", cwd) = DirectoriesToEnumerate(rules, name, at)
  <2>1. CASE store[cwd] = NoEntry
    <3>1. at = name
      BY <1>3, <2>1
    <3>2. DirectoriesToEnumerate(rules, name, at) = <<{Queue(at, Names)}, {}>>
      BY <3>1 DEF DirectoriesToEnumerate
    <3> QED BY <2>1, <3>2 DEF Enumeration
  <2>2. CASE store[cwd] # NoEntry
    BY <1>2, <1>3, <2>2 DEF Enumeration
  <2> QED BY <2>1, <2>2
<1>6. ASSUME NEW n \in Names
      PROVE  LET full == Append(name, n) IN
             /\ NtDeleteFile(cwd, <<n>>)[1].at = NtDeleteFile(NoHandle, full)[1].at
             /\ NtQueryInformationByName(cwd, <<n>>)[1].at =
                  NtQueryInformationByName(NoHandle, full)[1].at
             /\ "NtQueryAttributesFile" \in hooked =>
                  NtQueryAttributesFile(cwd, <<n>>)[1].at =
                    NtQueryAttributesFile(NoHandle, full)[1].at
             /\ "NtQueryFullAttributesFile" \in hooked =>
                  NtQueryFullAttributesFile(cwd, <<n>>)[1].at =
                    NtQueryFullAttributesFile(NoHandle, full)[1].at
  <2>1. \A function \in hooked : Attempts(function, cwd, <<n>>)[1].at =
                                   Attempts(function, NoHandle, Append(name, n))[1].at
    BY <1>1, AskedAlike
  <2> QED BY <1>2, <2>1 DEF NtDeleteFile, NtQueryInformationByName, NtQueryAttributesFile,
             NtQueryFullAttributesFile
<1> QED
  BY <1>4, <1>5, <1>6 DEF CurrentDirectoryIntercepted, NtQueryDirectoryFile,
     NtQueryDirectoryFileEx

\* After a start without failures the current directory behaves as if the hooks
\* had been there when it was opened, for any rules of which none has its origin
\* outside the patterns of another (ReinitializeCurrentDirectory).
THEOREM CurrentDirectoryIsIntercepted ==
  NestedInScope => (Spec => []CurrentDirectoryIntercepted)
<1>1. NestedInScope /\ HInv /\ CurrentKept => CurrentDirectoryIntercepted
  BY KeptIsIntercepted
<1> SUFFICES ASSUME NestedInScope PROVE Spec => []CurrentDirectoryIntercepted
  OBVIOUS
<1>2. HInv /\ CurrentKept => CurrentDirectoryIntercepted
  BY <1>1
<1> QED BY <1>2, Invariance, CurrentStaysKept, PTL
=============================================================================
