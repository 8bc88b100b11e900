----------------------------- MODULE Redirection -----------------------------
(***************************************************************************)
(* File operations from the application's call to its return, as run by    *)
(* application threads against one filesystem: the executor asks the       *)
(* director for an instruction, creates the directories that have to exist *)
(* on the target side, and tries the files of the instruction with the     *)
(* create dispositions it allows, one system call per step.                *)
(*                                                                         *)
(* A thread holds at most one handle and uses it as the root directory of  *)
(* relative requests; a handle opened relative to it takes its place.  A   *)
(* rename moves the file of the handle.                                    *)
(***************************************************************************)
EXTENDS FilesystemDirector

CONSTANTS
  Threads,          \* application threads
  Configurations,   \* rules the builder accepted and files they start with
  Requests,         \* what the application asks for
  Roots,            \* the directories it uses as roots of relative requests
  MayDelete         \* whether it deletes what it has open

ASSUME ConfigurationsAssumption ==
  \A c \in Configurations : ValidRules(c.rules) /\ ValidFiles(c.rules, c.files)

Request == [op : Operations, as : Demands, root : BOOLEAN, path : Seq(Names)]

ASSUME RequestsAssumption == Requests \subseteq Request /\ Roots \subseteq Paths

VARIABLES
  rules,    \* the rules of the director
  files,    \* the system's filesystem
  handle,   \* the handle each thread holds
  call      \* the operation each thread is in

vars == <<rules, files, handle, call>>

\* name: the path the application means; at: the file the system opened;
\* path: the path recorded as opened, in a stored handle.
Handle == [name : Paths, at : Paths, path : Paths \cup {NoPath}]

NoHandle == [name |-> NoPath, at |-> NoPath, path |-> NoPath]

Stored(h) == h.path # NoPath

-----------------------------------------------------------------------------
(* What is tried: SelectCreateDispositionsToTry, SelectFileOperationsToTry. *)

Disposition(op, ifExists) == [op |-> op, ifExists |-> ifExists]

\* Mutation of PreferOpenExistingFile: the disposition of the application is
\* tried as it is.
NoPreference(op) == <<Disposition(op, FALSE)>>

PreferOpenExistingFile(op) ==
  CASE op = "OPEN_IF"      -> <<Disposition("OPEN", FALSE), Disposition("CREATE", FALSE)>>
    [] op = "OVERWRITE_IF" -> <<Disposition("OVERWRITE", FALSE), Disposition("CREATE", FALSE)>>
    [] op = "SUPERSEDE"    -> <<Disposition("SUPERSEDE", TRUE), Disposition("SUPERSEDE", FALSE)>>
    [] OTHER               -> <<Disposition(op, FALSE)>>

CreateDispositionsToTry(mode, op) ==
  IF mode = "Overlay" THEN PreferOpenExistingFile(op) ELSE <<Disposition(op, FALSE)>>

\* at: the path the system resolves; path: the path the executor thinks it is.
File(at, path) == [at |-> at, path |-> path]

\* Mutation of FileOperationsToTry: an overlay is tried like a simple redirection.
RedirectedOnly(mode, redirected, unredirected) == <<redirected>>

\* The unredirected attempt submits the object attributes of the application,
\* with their root directory.
FileOperationsToTry(mode, redirected, unredirected) ==
  IF mode = "Overlay" THEN <<redirected, unredirected>> ELSE <<redirected>>

-----------------------------------------------------------------------------
(* The call and its instruction. *)

\* A rename by a bare name is relative to the directory the file is in: that of
\* the stored name, or the one the system reports.
Named(t, req) ==
  LET h == handle[t]
  IN CASE ~req.root                      -> req.path
       [] req.root /\ req.op # "RENAME"  -> h.name \o req.path
       [] OTHER -> Front(IF Stored(h) THEN h.name ELSE h.at) \o req.path

\* Where the system would resolve the request as the application makes it.
Submitted(t, req) ==
  LET h == handle[t]
  IN CASE ~req.root                      -> req.path
       [] req.root /\ req.op # "RENAME"  -> h.at \o req.path
       [] OTHER                          -> Front(h.at) \o req.path

\* The application renames files.  It does not give one a name above an origin
\* directory, nor, by a bare name, move a redirected one out of its rule or into
\* an overlay: the paths stored for these are not those of the file.
MayRename(t, req) ==
  LET h == handle[t]
      p == Named(t, req)
  IN /\ h # NoHandle
     /\ req.as = "file" /\ At(files, h.at) = "file"
     /\ ~Intercepted(rules, p)
     /\ req.root => IF RuleFor(rules, p) = {} THEN h.at = h.name
                    ELSE \A r \in RuleFor(rules, p) : r.mode = "Simple"

MayAsk(t, req) ==
  /\ call[t] = Idle
  /\ CASE req.op = "RENAME" -> MayRename(t, req)
       [] req.op # "RENAME" /\ req.root ->
            handle[t].name \in Roots /\ IsDirectory(files, handle[t].at)
       [] OTHER -> handle[t] = NoHandle
  /\ Named(t, req) \in Paths
  /\ Submitted(t, req) \in Paths

Begin(t, req, mode, step, ensure, tries) ==
  call' = [call EXCEPT ![t] =
             [step |-> step, op |-> req.op, as |-> req.as, name |-> Named(t, req),
              mode |-> mode, ensure |-> ensure, level |-> ensure,
              dispositions |-> CreateDispositionsToTry(mode, req.op),
              tries |-> tries, d |-> 1, f |-> 1]]

\* A root that is not stored leaves the request to the system.  Otherwise the
\* composed path is submitted instead of the relative one, but not in a rename.
AskPassed(t, req) ==
  LET p == Named(t, req)
      rename == req.op = "RENAME"
      unknown == ~rename /\ req.root /\ ~Stored(handle[t])
      place == IF rename \/ unknown THEN Submitted(t, req) ELSE p
  IN /\ unknown \/ (RuleFor(rules, p) = {} /\ ~Intercepted(rules, p))
     /\ Begin(t, req, "pass", "attempt", NoPath, <<File(place, NoPath)>>)

AskIntercepted(t, req) ==
  LET p == Named(t, req)
  IN /\ req.root => Stored(handle[t])
     /\ Intercepted(rules, p)
     /\ Begin(t, req, "intercept", "attempt", NoPath, <<File(Submitted(t, req), p)>>)

AskRedirected(t, req) ==
  LET p == Named(t, req)
  IN /\ req.root /\ req.op # "RENAME" => Stored(handle[t])
     /\ \E r \in RuleFor(rules, p) :
          LET redirected == RedirectPathOriginToTarget(r, p)
              ensure == EnsureHierarchy(rules, files, r, p, req.op \in Creating \cup {"RENAME"})
          IN Begin(t, req, r.mode, IF ensure = NoPath THEN "attempt" ELSE "climb", ensure,
                   FileOperationsToTry(r.mode, File(redirected, redirected),
                                       File(Submitted(t, req), p)))

Ask(t) ==
  /\ \E req \in Requests :
       /\ MayAsk(t, req)
       /\ AskPassed(t, req) \/ AskIntercepted(t, req) \/ AskRedirected(t, req)
  /\ UNCHANGED <<rules, files, handle>>

-----------------------------------------------------------------------------
(* CreateDirectoryHierarchy. *)

Finish(t, status) == call' = [call EXCEPT ![t] = Answered(status)]

\* Up to the longest path of the hierarchy that is a directory, or the drive.  The
\* drive alone is no hierarchy: kObjectPathInvalid, one of the codes that are "not
\* found" here, is the answer to the application.
Climb(t) ==
  /\ call[t].step = "climb"
  /\ LET level == call[t].level
         above == Front(level)
     IN CASE call[t].ensure = <<>> -> Finish(t, "not found")
          [] call[t].ensure # <<>> /\ IsDirectory(files, level) ->
               call' = [call EXCEPT ![t].step = IF level = call[t].ensure THEN "attempt"
                                                                          ELSE "descend"]
          [] OTHER ->
               call' = [call EXCEPT ![t].level = above,
                                    ![t].step = IF above = <<>> THEN "descend" ELSE @]
  /\ UNCHANGED <<rules, files, handle>>

\* Mutation of Descend: a level is created with a disposition that fails when
\* another thread has created it meanwhile.
DescendCreates(t) ==
  /\ call[t].step = "descend"
  /\ LET next == SubSeq(call[t].ensure, 1, Len(call[t].level) + 1)
         status == Status(files, "CREATE", "dir", next)
     IN /\ files' = Effect(files, "CREATE", "dir", next)
        /\ IF status = "success"
           THEN call' = [call EXCEPT ![t].level = next,
                                     ![t].step = IF next = call[t].ensure THEN "attempt" ELSE @]
           ELSE Finish(t, status)
  /\ UNCHANGED <<rules, handle>>

\* Down again, creating one level at a time.
Descend(t) ==
  /\ call[t].step = "descend"
  /\ LET next == SubSeq(call[t].ensure, 1, Len(call[t].level) + 1)
         status == Status(files, "OPEN_IF", "dir", next)
     IN /\ files' = Effect(files, "OPEN_IF", "dir", next)
        /\ IF status = "success"
           THEN call' = [call EXCEPT ![t].level = next,
                                     ![t].step = IF next = call[t].ensure THEN "attempt" ELSE @]
           ELSE Finish(t, status)
  /\ UNCHANGED <<rules, handle>>

-----------------------------------------------------------------------------
(* The attempts. *)

Attempted(t) == call[t].tries[call[t].f]

Trying(t) == call[t].dispositions[call[t].d]

\* Every file is tried with one disposition before the next disposition.
NextFile(t) == call' = [call EXCEPT ![t].f = @ + 1, ![t].step = "attempt"]

\* Mutation of NextDisposition: the files are not tried from the first again.
NextDispositionLastFile(t) == call' = [call EXCEPT ![t].d = @ + 1, ![t].step = "attempt"]

NextDisposition(t) == call' = [call EXCEPT ![t].d = @ + 1, ![t].f = 1, ![t].step = "attempt"]

TryNext(t) ==
  IF call[t].f < Len(call[t].tries) THEN NextFile(t) ELSE NextDisposition(t)

IsLast(t) == call[t].f = Len(call[t].tries) /\ call[t].d = Len(call[t].dispositions)

\* FilesystemOperations::Exists is a system call of its own.
CheckExists(t) ==
  /\ call[t].step = "attempt"
  /\ Trying(t).ifExists
  /\ IF Exists(files, Attempted(t).path)
     THEN call' = [call EXCEPT ![t].step = "submit"]
     ELSE TryNext(t)
  /\ UNCHANGED <<rules, files, handle>>

\* SelectFilenameAndStoreNewlyOpenedHandle follows the successful open; the
\* name it stores is the one the application used.
Attempt(t) ==
  /\ \/ call[t].step = "submit"
     \/ call[t].step = "attempt" /\ ~Trying(t).ifExists
  /\ call[t].op # "RENAME"
  /\ LET op == Trying(t).op  as == call[t].as  file == Attempted(t)
         status == Status(files, op, as, file.at)
     IN /\ files' = Effect(files, op, as, file.at)
        /\ IF status = "not found" /\ ~IsLast(t) THEN TryNext(t) ELSE Finish(t, status)
        /\ handle' = IF status = "success" /\ op # "QUERY"
                     THEN [handle EXCEPT ![t] = [name |-> call[t].name, at |-> file.at,
                                                 path |-> file.path]]
                     ELSE handle
  /\ UNCHANGED rules

Shared(t) == \E u \in Threads \ {t} : handle[u].at = handle[t].at

\* One attempt of a rename.  SelectFilenameAndUpdateOpenHandle follows the
\* successful one: the handle has its new name, or is not stored any more.
Move(t) ==
  /\ call[t].step = "attempt" /\ call[t].op = "RENAME"
  /\ LET from == handle[t].at  file == Attempted(t)
         status == MoveStatus(files, from, file.at, Shared(t))
     IN /\ files' = IF status = "success" THEN Moved(files, from, file.at) ELSE files
        /\ IF status = "not found" /\ ~IsLast(t) THEN TryNext(t) ELSE Finish(t, status)
        /\ handle' = IF status = "success"
                     THEN [handle EXCEPT ![t] = [name |-> call[t].name, at |-> file.at,
                                                 path |-> file.path]]
                     ELSE handle
  /\ UNCHANGED rules

Return(t) ==
  /\ call[t].step = "answered"
  /\ call' = [call EXCEPT ![t] = Idle]
  /\ UNCHANGED <<rules, files, handle>>

-----------------------------------------------------------------------------
(* The application closes its handle, and may have the file deleted then.  *)
(* It does not delete an origin directory or what is above one, and the    *)
(* system refuses to delete what another handle has open.                  *)

Close(t) ==
  /\ call[t] = Idle
  /\ handle[t] # NoHandle
  /\ handle' = [handle EXCEPT ![t] = NoHandle]
  /\ \/ UNCHANGED files
     \/ /\ MayDelete
        /\ ~IsPrefixForAnyRule(rules, handle[t].name) /\ ~Shared(t)
        /\ files' = Removed(files, handle[t].at)
  /\ UNCHANGED <<rules, call>>

-----------------------------------------------------------------------------

Init ==
  /\ \E c \in Configurations : rules = c.rules /\ files = c.files
  /\ handle = [t \in Threads |-> NoHandle]
  /\ call = [t \in Threads |-> Idle]

Next == \E t \in Threads :
  \/ Ask(t) \/ Climb(t) \/ Descend(t) \/ CheckExists(t) \/ Attempt(t) \/ Move(t)
  \/ Return(t) \/ Close(t)

Spec == Init /\ [][Next]_vars

-----------------------------------------------------------------------------
(* Properties. *)

Mode == Modes \cup {"pass", "intercept"}

Call == [step : {"climb", "descend", "attempt", "submit"},
         op : Operations, as : Demands, name : Paths, mode : Mode,
         ensure : Seq(Names) \cup {NoPath}, level : Seq(Names) \cup {NoPath},
         dispositions : Seq([op : Operations, ifExists : BOOLEAN]),
         tries : Seq([at : Seq(Names), path : Seq(Names) \cup {NoPath}]),
         d : {1, 2}, f : {1, 2}]

\* Type invariant: the rules and files are ones the director can be built for,
\* handles name paths, and a call is idle, under way or about to return
\* (NewFileHandle, CreateDirectoryHierarchy).
TypeOK ==
  /\ ValidRules(rules)
  /\ files \in [Paths -> Kinds]
  /\ handle \in [Threads -> Handle \cup {NoHandle}]
  /\ call \in [Threads -> Call \cup {Idle} \cup {Answered(status) : status \in Statuses}]

\* What is recorded for a name is nothing, the name itself, or what the rule for
\* the name makes of it.
Faithful(name, path) ==
  path = NoPath \/ path = name \/ \E r \in RuleFor(rules, name) :
                                   path = RedirectPathOriginToTarget(r, name)

CallFaithful(c) ==
  /\ c.d \in DOMAIN c.dispositions /\ Len(c.dispositions) <= 2
  /\ ~c.dispositions[Len(c.dispositions)].ifExists
  /\ c.f \in DOMAIN c.tries /\ Len(c.tries) <= 2
  /\ c.step \in {"climb", "descend"} => c.ensure \in Seq(Names) /\ c.level \in Seq(Names)
  /\ \A i \in DOMAIN c.tries :
       /\ c.tries[i].path \in {NoPath, c.name, c.tries[i].at}
       /\ Faithful(c.name, c.tries[i].path)

\* Inductive invariant: every path that is about to be tried, and every path in
\* the store, comes from the name the application used (NewFileHandle,
\* SelectFilenameAndStoreNewlyOpenedHandle).
IInv ==
  /\ TypeOK
  /\ \A t \in Threads : call[t].step \notin {"idle", "answered"} => CallFaithful(call[t])
  /\ \A t \in Threads : handle[t] # NoHandle => Faithful(handle[t].name, handle[t].path)

\* The paths of the application: not the targets of rules, nor the directories
\* that are created to hold them.
VisibleUnder(R) == {p \in Paths : \A r \in R :
                      /\ ~IsPrefix(r.target, p)
                      /\ IsPrefix(p, r.target) => IsPrefixForAnyRule(R, p)}

Visible == VisibleUnder(rules)

\* The file that the rules select for a path: the redirected one, unless an
\* overlay finds nothing there.
Resolve(F, p) ==
  IF RuleFor(rules, p) = {} THEN p
  ELSE LET r == CHOOSE r \in RuleFor(rules, p) : TRUE
           redirected == RedirectPathOriginToTarget(r, p)
       IN IF r.mode = "Overlay" /\ ~Exists(F, redirected) /\ Exists(F, p)
          THEN p ELSE redirected

\* What the application finds at a path.  A directory of the origin side that
\* is redirected is created on the target side when it is accessed.
Seen(F, p) ==
  IF RuleFor(rules, p) # {} /\ IsDirectory(F, p) THEN "dir" ELSE At(F, Resolve(F, p))

\* Under concurrent requests, with directories created on the target side on
\* the way, the application's view behaves like one filesystem on which every
\* request is atomic (NewFileHandle, QueryByObjectAttributes).
V == INSTANCE FilesystemView WITH
       view <- [p \in Visible |-> Seen(files, p)],
       held <- [t \in Threads |-> handle[t].name],
       talk <- [t \in Threads |->
                  IF call[t].step \in {"idle", "answered"} THEN call[t]
                  ELSE Asking(call[t].op, call[t].as, call[t].name)]

ImplementsFilesystem == V!VSpec

\* The listing of a directory is of the paths that can be opened below it: the
\* queues of GetInstructionForDirectoryEnumeration leave out and duplicate
\* nothing that the instructions for file operations would find.
Listed(h) ==
  LET queues == DirectoriesToEnumerate(rules, h.name, h.path)
  IN {n \in Names : \E q \in queues[1] \cup queues[2] :
                      n \in q.names /\ Exists(files, Append(q.directory, n))}
     \cup DirectoryNamesToInsert(rules, files, h.name)

Openable(p) ==
  {n \in Names : Append(p, n) \in Visible /\ Seen(files, Append(p, n)) # "none"}

ListingIsView ==
  \A t \in Threads : Stored(handle[t]) /\ IsDirectory(files, handle[t].at) =>
    Listed(handle[t]) \cap {n \in Names : Append(handle[t].name, n) \in Visible}
      = Openable(handle[t].name)

\* The rule that redirected an open handle is found again from the two paths in
\* the store (IdentifyRuleThatPerformedRedirection), however the rules nest.
RedirectionIdentified ==
  \A t \in Threads : LET h == handle[t] IN
    Stored(h) /\ h.path # h.name =>
      /\ RuleFor(rules, h.name) # {}
      /\ IdentifyRule(SelectRulesForPath(rules, h.name), h.path) = RuleFor(rules, h.name)

\* A handle is opened on the file that the application saw at the name it used,
\* and on the one it sees then if it saw none: whatever the root directory, the
\* order of attempts and the dispositions, nothing is opened, superseded or
\* overwritten but what the rules select (NewFileHandle).
HandleOnView ==
  [][\A t \in Threads : handle'[t] \notin {handle[t], NoHandle} =>
       LET name == handle'[t].name
           before == IF Seen(files, name) = "none" THEN files' ELSE files
       IN handle'[t].at = Resolve(before, name)]_vars

\* Nothing is created on the origin side at a path that a rule redirects.
CreationsOnTarget ==
  [][\A p \in Paths : ~Exists(files, p) /\ Exists(files', p) => RuleFor(rules, p) = {}]_vars

\* A request that may only create a file succeeds only where the application
\* sees none: the second case of the overlay comment in
\* GetInstructionForFileOperation.
CreateOnlyNew ==
  [][\A t \in Threads :
       handle'[t] \notin {handle[t], NoHandle} /\ call[t].op = "CREATE" =>
         Seen(files, call[t].name) = "none"]_vars

\* Only a request that does not accept an existing file is told that there is
\* one (PreferOpenExistingFile), however the requests of two threads overlap.
OnlyCreateCollides ==
  [][\A t \in Threads :
       call[t].step \notin {"idle", "answered"} /\ call'[t] = Answered("collision") =>
         call[t].op \in {"CREATE", "RENAME"}]_vars

\* A path that the application sees is not answered with "not found", neither by
\* an attempt nor while the directories for it are created: an overlay tries the
\* unredirected file when the redirected one is missing (OverlayRedirectTo), also
\* for a request relative to a root directory, and a hierarchy can be created
\* (CreateDirectoryHierarchy).
FoundIfSeen ==
  [][\A t \in Threads :
       call[t].step \notin {"idle", "answered"} /\ call'[t] = Answered("not found") =>
         Seen(files, call[t].name) = "none"]_vars
=============================================================================
