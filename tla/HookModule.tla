----------------------------- MODULE HookModule -----------------------------
(***************************************************************************)
(* The start of Pathwinder inside a process that is already running: the   *)
(* main thread reads the configuration, builds the rules, sets the hooks   *)
(* one after the other and reopens the current directory, while threads of *)
(* the system open and close files.  A call is intercepted if the function *)
(* is hooked when it is made.                                              *)
(*                                                                         *)
(* What the executor does for one call is one step here, and which of the  *)
(* files it tries exists is left open: OpenHandleStore and Redirection     *)
(* have the details.                                                       *)
(***************************************************************************)
EXTENDS FilesystemDirector

CONSTANTS
  Handles,     \* handle values of the system
  Configured,  \* the rules that the configuration file describes
  Current,     \* the directories the process may be started in
  Temporary,   \* the user's temporary directory
  Requests,    \* paths, absolute or relative, that are opened
  NoHandle, Closed, NoEntry

\* The drive is not used as the current directory: a handle on it is not
\* stored, though an origin directory may be in it.
ASSUME HookModuleAssumption ==
  /\ ValidRules(Configured)
  /\ Current \subseteq Paths \ {<<>>} /\ Temporary \in Paths \ {<<>>}
  /\ Requests \subseteq Seq(Names) \ {<<>>}

Opened == [name : Paths, at : Paths]

Entry == [associated : Paths, opened : Paths]

ASSUME NullAssumption ==
  NoHandle \notin Handles /\ Closed \notin Opened /\ NoEntry \notin Entry

VARIABLES
  stage,    \* what the main thread does next
  record,   \* the hook it sets next
  rules,    \* the rules of the filesystem director instance
  hooked,   \* the functions whose hook is set
  system,   \* the open handles: the name meant and the file opened
  store,    \* the open handle store
  cwd,      \* the handle of the current directory
  saved     \* the name that ReinitializeCurrentDirectory remembers

vars == <<stage, record, rules, hooked, system, store, cwd, saved>>

IsOpen(h) == system[h] # Closed

-----------------------------------------------------------------------------
(* The hooks. *)

\* Those that Pathwinder cannot do without.
Required == {"NtClose", "NtCreateFile", "NtDeleteFile", "NtOpenFile", "NtQueryDirectoryFile",
             "NtQueryDirectoryFileEx", "NtQueryInformationByName", "NtQueryInformationFile",
             "NtSetInformationFile"}

\* Mutation of HookRecords: closing is hooked last of the required functions.
HookRecordsCloseLast ==
  <<"NtCreateFile", "NtDeleteFile", "NtOpenFile", "NtQueryDirectoryFile",
    "NtQueryDirectoryFileEx", "NtQueryInformationByName", "NtQueryInformationFile",
    "NtSetInformationFile", "NtClose", "NtQueryAttributesFile", "NtQueryFullAttributesFile">>

\* In the order in which they are set.  The hooks of the shell functions, which
\* follow, only write to the log.
HookRecords ==
  <<"NtClose", "NtCreateFile", "NtDeleteFile", "NtOpenFile", "NtQueryDirectoryFile",
    "NtQueryDirectoryFileEx", "NtQueryInformationByName", "NtQueryInformationFile",
    "NtSetInformationFile", "NtQueryAttributesFile", "NtQueryFullAttributesFile">>

-----------------------------------------------------------------------------
(* What a function does when it is hooked, and when it is not. *)

\* The path the executor works with.
Composed(root, p) == IF root = NoHandle THEN p ELSE store[root].associated \o p

\* The file the system opens for the request as it is.
Submitted(root, p) == IF root = NoHandle THEN p ELSE system[root].at \o p

Known(root) == root = NoHandle \/ store[root] # NoEntry

\* at: the file tried; path: what is recorded as opened if it is the one.
Attempt(at, path) == [at |-> at, path |-> path]

\* The files tried for a path that the director has an instruction for.
InstructedAttempts(root, p) ==
  LET name == Composed(root, p)
      rule == RuleFor(rules, name)
      asItIs == Attempt(Submitted(root, p), name)
  IN IF rule # {}
     THEN LET r == CHOOSE r \in rule : TRUE
              redirected == RedirectPathOriginToTarget(r, name)
          IN IF r.mode = "Overlay"
             THEN <<Attempt(redirected, redirected), asItIs>>
             ELSE <<Attempt(redirected, redirected)>>
     ELSE IF Intercepted(rules, name) THEN <<asItIs>> ELSE <<Attempt(name, NoPath)>>

\* In the order of the attempts.  A root directory that is not in the store
\* leaves the request to the system, as does a function that is not hooked.
Attempts(function, root, p) ==
  IF function \in hooked /\ Known(root)
  THEN InstructedAttempts(root, p) ELSE <<Attempt(Submitted(root, p), NoPath)>>

\* The requests by path that open nothing.
NtDeleteFile(root, p)              == Attempts("NtDeleteFile", root, p)
NtQueryInformationByName(root, p)  == Attempts("NtQueryInformationByName", root, p)
NtQueryAttributesFile(root, p)     == Attempts("NtQueryAttributesFile", root, p)
NtQueryFullAttributesFile(root, p) == Attempts("NtQueryFullAttributesFile", root, p)

\* The name that the system, or the store instead of it, tells for a handle.
\* The drive letter is not part of a path here, and is cut off by the hook.
NtQueryInformationFile(h) ==
  IF "NtQueryInformationFile" \in hooked /\ store[h] # NoEntry
  THEN store[h].associated ELSE system[h].at

\* The directories that a listing reads.
Enumeration(function, h) ==
  IF function \in hooked /\ store[h] # NoEntry
  THEN DirectoriesToEnumerate(rules, store[h].associated, store[h].opened)
  ELSE <<{Queue(system[h].at, Names)}, {}>>

Listing(directories, flags) == [directories |-> directories, flags |-> flags]

NtQueryDirectoryFile(h, restart, single) ==
  Listing(Enumeration("NtQueryDirectoryFile", h),
          (IF restart THEN {"SL_RESTART_SCAN"} ELSE {})
            \cup (IF single THEN {"SL_RETURN_SINGLE_ENTRY"} ELSE {}))

NtQueryDirectoryFileEx(h, flags) == Listing(Enumeration("NtQueryDirectoryFileEx", h), flags)

-----------------------------------------------------------------------------
(* Opening and closing.  S and T are the store and the handle table before *)
(* the call; both functions that open go to NewFileHandle.                  *)

Meant(root, p) == IF root = NoHandle THEN p ELSE system[root].name \o p

TableWith(h, root, p, attempt) ==
  [system EXCEPT ![h] = [name |-> Meant(root, p), at |-> attempt.at]]

\* InsertHandle does not replace an entry that is there already.
StoreWith(h, root, p, attempt) ==
  IF attempt.path = NoPath \/ store[h] # NoEntry THEN store
  ELSE [store EXCEPT ![h] = [associated |-> Composed(root, p), opened |-> attempt.path]]

\* h is new, and any of the files tried may be the one that exists.
NewHandle(function, h, root, p, attempt) ==
  /\ ~IsOpen(h)
  /\ Meant(root, p) \in Paths
  /\ \E i \in DOMAIN Attempts(function, root, p) : attempt = Attempts(function, root, p)[i]
  /\ attempt.at \in Paths

NtCreateFile(h, root, p) ==
  \E attempt \in [at : Paths, path : Paths \cup {NoPath}] :
    /\ NewHandle("NtCreateFile", h, root, p, attempt)
    /\ system' = TableWith(h, root, p, attempt)
    /\ store' = StoreWith(h, root, p, attempt)

NtOpenFile(h, root, p) ==
  \E attempt \in [at : Paths, path : Paths \cup {NoPath}] :
    /\ NewHandle("NtOpenFile", h, root, p, attempt)
    /\ system' = TableWith(h, root, p, attempt)
    /\ store' = StoreWith(h, root, p, attempt)

WithoutEntry(S, h) == IF "NtClose" \in hooked THEN [S EXCEPT ![h] = NoEntry] ELSE S

NtClose(h) ==
  /\ system' = [system EXCEPT ![h] = Closed]
  /\ store' = WithoutEntry(store, h)

\* The system opens the new current directory and closes the old one.
SetCurrentDirectory(p) ==
  \E h \in Handles, attempt \in [at : Paths, path : Paths \cup {NoPath}] :
    /\ NewHandle("NtOpenFile", h, NoHandle, p, attempt)
    /\ system' = [TableWith(h, NoHandle, p, attempt) EXCEPT ![cwd] = Closed]
    /\ store' = WithoutEntry(StoreWith(h, NoHandle, p, attempt), cwd)
    /\ cwd' = h

-----------------------------------------------------------------------------
(* The main thread: HOOKSHOT_HOOK_MODULE_ENTRY. *)

\* Mutation of Order: the rules are built when the hooks are set.
OrderHooksFirst == <<"hook", "read", "build", "get", "away", "back", "running">>

\* Mutation of Order: the current directory is opened again before the hooks are set.
OrderHooksLast == <<"read", "build", "get", "away", "back", "hook", "running">>

\* Initialize, SetAllHooksOrDie and ReinitializeCurrentDirectory, call by call.
Order == <<"read", "build", "hook", "get", "away", "back", "running">>

After(s) == Order[1 + CHOOSE i \in DOMAIN Order : Order[i] = s]

AfterHook == IF record < Len(HookRecords) THEN "hook" ELSE After("hook")

\* A configuration file with errors leaves no rules, and no other settings.
ReadConfigurationFile ==
  /\ stage = "read"
  /\ stage' \in {After("read"), After("build")}
  /\ UNCHANGED <<record, rules, hooked, system, store, cwd, saved>>

\* The builder may fail: the director stays the empty one then.
BuildFilesystemRules ==
  /\ stage = "build"
  /\ rules' \in {rules, Configured}
  /\ stage' = After("build")
  /\ UNCHANGED <<record, hooked, system, store, cwd, saved>>

\* Without a required hook the process is terminated.
SetHook ==
  /\ stage = "hook"
  /\ \/ hooked' = hooked \cup {HookRecords[record]} /\ stage' = AfterHook
     \/ HookRecords[record] \notin Required /\ hooked' = hooked /\ stage' = AfterHook
     \/ HookRecords[record] \in Required /\ hooked' = hooked /\ stage' = "terminated"
  /\ record' = record + 1
  /\ UNCHANGED <<rules, system, store, cwd, saved>>

\* Each call of ReinitializeCurrentDirectory may fail, which ends it.
GiveUp ==
  /\ stage \in {"get", "away", "back"}
  /\ stage' = "gave up"
  /\ UNCHANGED <<record, rules, hooked, system, store, cwd, saved>>

GetDirectories ==
  /\ stage = "get"
  /\ saved' = system[cwd].name
  /\ stage' = After("get")
  /\ UNCHANGED <<record, rules, hooked, system, store, cwd>>

ToTemporary ==
  /\ stage = "away"
  /\ SetCurrentDirectory(Temporary)
  /\ stage' = After("away")
  /\ UNCHANGED <<record, rules, hooked, saved>>

BackToCurrent ==
  /\ stage = "back"
  /\ SetCurrentDirectory(saved)
  /\ stage' = After("back")
  /\ UNCHANGED <<record, rules, hooked, saved>>

\* The application, when Pathwinder has returned.
ChangeDirectory ==
  /\ stage \in {"gave up", "running"}
  /\ \E p \in Current : SetCurrentDirectory(p)
  /\ UNCHANGED <<stage, record, rules, hooked, saved>>

-----------------------------------------------------------------------------
(* Every thread there is, before and after. *)

Open ==
  /\ stage # "terminated"
  /\ \E h \in Handles, root \in {NoHandle} \cup {r \in Handles : IsOpen(r)}, p \in Requests :
       NtCreateFile(h, root, p) \/ NtOpenFile(h, root, p)
  /\ UNCHANGED <<stage, record, rules, hooked, cwd, saved>>

Close ==
  /\ stage # "terminated"
  /\ \E h \in Handles \ {cwd} : IsOpen(h) /\ NtClose(h)
  /\ UNCHANGED <<stage, record, rules, hooked, cwd, saved>>

-----------------------------------------------------------------------------

Init ==
  /\ stage = Order[1] /\ record = 1
  /\ rules = {} /\ hooked = {}
  /\ cwd \in Handles
  /\ \E p \in Current : system = [h \in Handles |-> IF h = cwd THEN [name |-> p, at |-> p]
                                                                ELSE Closed]
  /\ store = [h \in Handles |-> NoEntry]
  /\ saved = NoPath

Next ==
  \/ ReadConfigurationFile \/ BuildFilesystemRules \/ SetHook
  \/ GiveUp \/ GetDirectories \/ ToTemporary \/ BackToCurrent
  \/ ChangeDirectory \/ Open \/ Close

Spec == Init /\ [][Next]_vars

-----------------------------------------------------------------------------
(* Properties. *)

\* Type invariant: the handle table, the store and the rules are what the
\* actions expect, and the hooks that are set are the first ones of the list,
\* but for the optional ones (Hooks.cpp, HookModuleMain.cpp).
TypeOK ==
  /\ stage \in {Order[i] : i \in DOMAIN Order} \cup {"gave up", "terminated"}
  /\ record \in 1 .. Len(HookRecords) + 1
  /\ rules \in {{}, Configured}
  /\ hooked \subseteq {HookRecords[i] : i \in 1 .. record - 1}
  /\ system \in [Handles -> Opened \cup {Closed}]
  /\ store \in [Handles -> Entry \cup {NoEntry}]
  /\ cwd \in Handles /\ IsOpen(cwd)
  /\ saved \in Paths \cup {NoPath}

\* No origin directory lies outside the patterns of a rule above it.
NestedInScope ==
  \A p \in Paths \ {<<>>}, r \in Configured :
    IsPrefix(p, r.origin) /\ SelectRulesForPath(Configured, p) # {} => RuleFor(Configured, p) # {}

\* The store never speaks of a handle that is closed, or of what a handle was
\* opened for before: whichever functions are hooked when a handle is opened
\* and when it is closed, by whatever thread (DynamicHook_NtClose and the
\* functions that open, SetAllHooksOrDie).
StoredHandlesAreOpen ==
  \A h \in Handles : store[h] # NoEntry =>
    IsOpen(h) /\ store[h].associated = system[h].name

\* The rules are in place before the first call is intercepted and stay as they
\* are: the director is read without a lock (SetFilesystemDirectorInstance).
RulesFixed == [][hooked # {} => UNCHANGED rules]_vars

\* When the start has succeeded, the current directory behaves as any directory
\* that was opened through the hooks, although the system opened it before
\* there were any: it tells the name it was set to, its listings read what that
\* name stands for, by either function, and a request relative to it first
\* tries the file that a request by the full path would
\* (ReinitializeCurrentDirectory).
CurrentDirectoryIntercepted ==
  stage = "running" =>
    LET name == system[cwd].name IN
    /\ NtQueryInformationFile(cwd) = name
    /\ \A restart, single \in BOOLEAN :
         LET flags == (IF restart THEN {"SL_RESTART_SCAN"} ELSE {})
                        \cup (IF single THEN {"SL_RETURN_SINGLE_ENTRY"} ELSE {})
             listing == Listing(DirectoriesToEnumerate(rules, name, system[cwd].at), flags)
         IN /\ NtQueryDirectoryFile(cwd, restart, single) = listing
            /\ NtQueryDirectoryFileEx(cwd, flags) = listing
    /\ \A n \in Names :
         LET full == Append(name, n) IN
         /\ NtDeleteFile(cwd, <<n>>)[1].at = NtDeleteFile(NoHandle, full)[1].at
         /\ NtQueryInformationByName(cwd, <<n>>)[1].at =
              NtQueryInformationByName(NoHandle, full)[1].at
         /\ "NtQueryAttributesFile" \in hooked =>
              NtQueryAttributesFile(cwd, <<n>>)[1].at = NtQueryAttributesFile(NoHandle, full)[1].at
         /\ "NtQueryFullAttributesFile" \in hooked =>
              NtQueryFullAttributesFile(cwd, <<n>>)[1].at =
                NtQueryFullAttributesFile(NoHandle, full)[1].at

\* "When the root directory handle was originally opened it was determined that
\* there is no possible match with a filesystem rule": what
\* CreateFileOperationContext says of a handle that is not in the store, said of
\* the current directory after it has been opened through the hooks.
UnknownRootNeedsNoRule ==
  stage = "running" /\ store[cwd] = NoEntry =>
    \A p \in Paths : IsPrefix(system[cwd].name, p) => RuleFor(rules, p) = {}
=============================================================================
