--------------------------- MODULE OpenHandleStore ---------------------------
(***************************************************************************)
(* The open handle store and the executor operations that use it, as run   *)
(* by the application threads that enter Pathwinder's hooks.               *)
(*                                                                         *)
(* The operating system hands out handle values and reuses one as soon as  *)
(* it is closed.  The store remembers, for every handle that a rule could  *)
(* ever be interested in, the name the application knows the file by and   *)
(* the place where the open really landed.  The system call and the store  *)
(* update of one operation are separate steps of its thread, a lookup      *)
(* returns a view (references into the entry) that outlives the shared     *)
(* lock, and only the removal of a closed handle holds the exclusive lock  *)
(* across a system call.                                                   *)
(***************************************************************************)

CONSTANTS
  Threads,       \* application threads
  Handles,       \* handle values of the operating system
  Names,         \* absolute names used by the application, one per case
  Redirected,    \* names for which the director redirects
  Prefixes,      \* names above an origin directory: intercepted, not redirected
  Parts,         \* relative names
  Join(_, _),    \* a name below a directory
  Sibling(_, _), \* a name in the directory that holds a file
  Concurrent,    \* pairs of operations the application overlaps on one handle
  NoThread, NoHandle, NoName, NoPart, NoEntry, Closed

Kinds == {"open", "relative", "close", "rename", "query", "enumerate"}

Free == Names \ (Redirected \cup Prefixes)

Places == {"origin", "target"}

File == [name : Names, place : Places]

\* An enumeration state holds a queue, or a null one: pass to the system.
Enums == {"none", "queue", "through"}

\* What is recorded as the path that was opened: the full path, the bare name
\* of a move, or nothing.
Recorded == Places \cup {"bare", "empty"}

Entry == [name : Names, place : Recorded, enum : Enums]

Exclusive == {"open", "close", "rename"}

ASSUME NamesAssumption ==
  /\ Redirected \subseteq Names
  /\ Prefixes \subseteq Names
  /\ Redirected \cap Prefixes = {}
  /\ \A n \in Names, p \in Parts : Join(n, p) \in Names /\ Sibling(n, p) \in Names

\* The director never redirects below a directory it does not intercept
\* (the comment of CreateFileOperationContext relies on it).
ASSUME FreeAssumption == \A n \in Free, p \in Parts : Join(n, p) \in Free

ASSUME NullAssumption ==
  /\ NoThread \notin Threads
  /\ NoHandle \notin Handles
  /\ NoName \notin Names
  /\ NoPart \notin Parts
  /\ NoEntry \notin Entry
  /\ Closed \notin File

VARIABLES
  files,     \* the system's handle table
  app,       \* handles the application has been given and not closed
  store,     \* openHandles
  writer,    \* the thread that holds openHandlesMutex exclusively
  pc,        \* next step of the operation each thread is in
  job,       \* arguments and locals of that operation
  answer,    \* name last reported to each thread by a query
  dangling   \* threads whose view refers to memory freed or overwritten

vars == <<files, app, store, writer, pc, job, answer, dangling>>

Job == [kind  : Kinds,
        h     : Handles \cup {NoHandle},
        asked : Names \cup {NoName},       \* the name the application means
        name  : Names \cup {NoName},       \* the name the executor computed
        part  : Parts \cup {NoPart},
        place : Recorded,                  \* path of the attempt that succeeded
        enum  : Enums]                     \* enumeration state being created

NewJob(kind, h, asked, name, part) ==
  [kind |-> kind, h |-> h, asked |-> asked, name |-> name, part |-> part,
   place |-> "origin", enum |-> "none"]

NoJob == NewJob("open", NoHandle, NoName, NoName, NoPart)

\* Points at which a thread is about to read a path through a view.
PathReaders == {"compose", "composeMove", "answer", "prepare"}

Steps == PathReaders \cup
  {"idle", "openSystem", "insert",
   "closeDirect", "closeLock", "closeSystem", "closeErase",
   "renameSystem", "update", "askStore",
   "associate", "recheck", "advanceLookup", "advance", "undefined"}

-----------------------------------------------------------------------------
(* The application. *)

\* A thread at closeErase has closed its handle already: the value belongs
\* to whoever gets it next.
Using(u, h) == pc[u] \notin {"idle", "closeErase"} /\ job[u].h = h

Compatible(k1, k2) == {k1, k2} \in Concurrent

\* The discipline Windows asks of an application: nothing overlaps the close or
\* the rename of a handle, and one handle is listed by one thread at a time.
ReadersOnly == \A P \in Concurrent : P \cap Exclusive = {} /\ P # {"enumerate"}

\* The application starts an operation on a handle it has, and overlaps it
\* with the operation of another thread only as Concurrent allows.
MayUse(t, h, kind) ==
  /\ pc[t] = "idle"
  /\ h \in app
  /\ \A u \in Threads \ {t} : Using(u, h) => Compatible(kind, job[u].kind)

Begin(t, newJob, step) ==
  /\ job' = [job EXCEPT ![t] = newJob]
  /\ pc' = [pc EXCEPT ![t] = step]

Goto(t, step) == pc' = [pc EXCEPT ![t] = step]

\* The thread returns to the application.
Return(t) ==
  /\ pc' = [pc EXCEPT ![t] = "idle"]
  /\ job' = [job EXCEPT ![t] = NoJob]

\* Every lookup takes the shared lock for the duration of the lookup.
Unlocked == writer = NoThread

-----------------------------------------------------------------------------
(* Opening: NewFileHandle. *)

StartOpen(t) ==
  /\ pc[t] = "idle"
  /\ \E n \in Names : Begin(t, NewJob("open", NoHandle, n, n, NoPart), "openSystem")
  /\ UNCHANGED <<files, app, store, writer, answer, dangling>>

\* A name relative to a root directory handle: a root that is not stored is
\* left to the system and nothing below it is intercepted.
StartRelativeOpen(t) ==
  /\ \E r \in Handles, p \in Parts :
       /\ MayUse(t, r, "relative")
       /\ Unlocked
       /\ LET asked == Join(files[r].name, p)
          IN IF store[r] = NoEntry
             THEN Begin(t, NewJob("relative", r, asked, NoName, p), "openSystem")
             ELSE Begin(t, NewJob("relative", r, asked, NoName, p), "compose")
  /\ UNCHANGED <<files, app, store, writer, answer, dangling>>

\* The full name is put together from the view of the root directory.
Compose(t) ==
  /\ pc[t] = "compose"
  /\ IF t \in dangling \/ store[job[t].h] = NoEntry
     THEN Goto(t, "undefined") /\ UNCHANGED job
     ELSE /\ job' = [job EXCEPT ![t].name = Join(store[job[t].h].name, job[t].part)]
          /\ Goto(t, "openSystem")
  /\ UNCHANGED <<files, app, store, writer, answer, dangling>>

Intercepted(n) == n \in Redirected \cup Prefixes

\* A relative name is resolved by the system from where its handle really is.
Beside(h) == IF files[h] = Closed THEN "origin" ELSE files[h].place

\* The redirected name is absolute.  The application's own name is submitted
\* as the application gave it, except by an open that is not intercepted.
Landing(t) ==
  LET j == job[t]
      relative == j.part # NoPart /\ (j.kind = "rename" \/ j.name \notin Free)
      own == [real |-> IF relative THEN Beside(j.h) ELSE "origin",
              path |-> IF relative /\ j.kind = "rename" THEN "bare" ELSE "origin"]
      redirected == [real |-> "target", path |-> "target"]
  IN IF j.name \in Redirected THEN {redirected, own} ELSE {own}

\* Mutation of OpenSystem: the system call writes the caller's handle variable.
OpenWritesHandleAtOnce(t) ==
  /\ pc[t] = "openSystem"
  /\ \/ Return(t) /\ UNCHANGED <<files, app>>
     \/ \E h \in Handles, landing \in Landing(t) :
          /\ files[h] = Closed
          /\ files' = [files EXCEPT ![h] = [name |-> job[t].asked, place |-> landing.real]]
          /\ app' = app \cup {h}
          /\ IF Intercepted(job[t].name)
             THEN /\ job' = [job EXCEPT ![t].h = h, ![t].place = landing.path]
                  /\ Goto(t, "insert")
             ELSE Return(t)
  /\ UNCHANGED <<store, writer, answer, dangling>>

\* The system call fails, or returns some free handle value.  The caller's
\* handle variable is written only after the handle is stored.
OpenSystem(t) ==
  /\ pc[t] = "openSystem"
  /\ \/ Return(t) /\ UNCHANGED <<files, app>>
     \/ \E h \in Handles, landing \in Landing(t) :
          /\ files[h] = Closed
          /\ files' = [files EXCEPT ![h] = [name |-> job[t].asked, place |-> landing.real]]
          /\ IF Intercepted(job[t].name)
             THEN /\ job' = [job EXCEPT ![t].kind = "open", ![t].h = h,
                                        ![t].place = landing.path]
                  /\ Goto(t, "insert")
                  /\ UNCHANGED app
             ELSE Return(t) /\ app' = app \cup {h}
  /\ UNCHANGED <<store, writer, answer, dangling>>

\* emplace leaves an entry that is already there as it is.
InsertHandle(h, name, place) ==
  IF store[h] = NoEntry
  THEN store' = [store EXCEPT ![h] = [name |-> name, place |-> place, enum |-> "none"]]
  ELSE UNCHANGED store

StoreNewHandle(t) ==
  /\ pc[t] = "insert"
  /\ Unlocked
  /\ InsertHandle(job[t].h, job[t].name, job[t].place)
  /\ app' = app \cup {job[t].h}
  /\ Return(t)
  /\ UNCHANGED <<files, writer, answer, dangling>>

-----------------------------------------------------------------------------
(* Closing: CloseHandle and RemoveAndCloseHandle. *)

StartClose(t) ==
  /\ \E h \in Handles :
       /\ MayUse(t, h, "close")
       /\ Unlocked
       /\ Begin(t, NewJob("close", h, NoName, NoName, NoPart),
                IF store[h] = NoEntry THEN "closeDirect" ELSE "closeLock")
  /\ UNCHANGED <<files, app, store, writer, answer, dangling>>

\* NtClose itself; it may refuse.
CloseInSystem(h) ==
  /\ files' = [files EXCEPT ![h] = Closed]
  /\ app' = app \ {h}

CloseDirect(t) ==
  /\ pc[t] = "closeDirect"
  /\ CloseInSystem(job[t].h) \/ UNCHANGED <<files, app>>
  /\ Return(t)
  /\ UNCHANGED <<store, writer, answer, dangling>>

CloseLock(t) ==
  /\ pc[t] = "closeLock"
  /\ Unlocked
  /\ writer' = t
  /\ Goto(t, "closeSystem")
  /\ UNCHANGED <<files, app, store, job, answer, dangling>>

\* Mutation of CloseSystem: the lock is released before the entry is erased.
CloseUnlocksEarly(t) ==
  /\ pc[t] = "closeSystem"
  /\ writer' = NoThread
  /\ \/ CloseInSystem(job[t].h) /\ Goto(t, "closeErase") /\ UNCHANGED job
     \/ Return(t) /\ UNCHANGED <<files, app>>
  /\ UNCHANGED <<store, answer, dangling>>

\* Mutation of CloseSystem: the failure path keeps the lock.
CloseFailureKeepsLock(t) ==
  /\ pc[t] = "closeSystem"
  /\ \/ CloseInSystem(job[t].h) /\ Goto(t, "closeErase") /\ UNCHANGED job
     \/ Return(t) /\ UNCHANGED <<files, app>>
  /\ UNCHANGED <<store, writer, answer, dangling>>

\* Still under the lock; a failure returns and leaves the entry.
CloseSystem(t) ==
  /\ pc[t] = "closeSystem"
  /\ \/ CloseInSystem(job[t].h) /\ Goto(t, "closeErase") /\ UNCHANGED <<writer, job>>
     \/ Return(t) /\ writer' = NoThread /\ UNCHANGED <<files, app>>
  /\ UNCHANGED <<store, answer, dangling>>

\* Threads other than t about to read the given part of the entry of h.
Viewers(t, h, steps) == {u \in Threads \ {t} : pc[u] \in steps /\ job[u].h = h}

Erase(t, h) ==
  /\ store' = [store EXCEPT ![h] = NoEntry]
  /\ dangling' = dangling \cup
       (IF store[h] = NoEntry THEN {} ELSE Viewers(t, h, PathReaders \cup {"advance"}))

\* Mutation of CloseErase: the entry stays.
CloseKeepsEntry(t) ==
  /\ pc[t] = "closeErase"
  /\ writer' = NoThread
  /\ Return(t)
  /\ UNCHANGED <<files, app, store, answer, dangling>>

CloseErase(t) ==
  /\ pc[t] = "closeErase"
  /\ Erase(t, job[t].h)
  /\ writer' = NoThread
  /\ Return(t)
  /\ UNCHANGED <<files, app, answer>>

-----------------------------------------------------------------------------
(* Renaming: RenameByHandle. *)

StartRename(t) ==
  /\ \E h \in Handles, n \in Names :
       /\ MayUse(t, h, "rename")
       /\ Begin(t, NewJob("rename", h, n, n, NoPart), "renameSystem")
  /\ UNCHANGED <<files, app, store, writer, answer, dangling>>

\* A name without a directory is relative to the directory of the file: the
\* stored name gives it, or else the system's own name for the file.
StartMove(t) ==
  /\ \E h \in Handles, p \in Parts :
       /\ MayUse(t, h, "rename")
       /\ Unlocked
       /\ LET asked == Sibling(files[h].name, p)
          IN IF store[h] = NoEntry
             THEN Begin(t, NewJob("rename", h, asked, asked, p), "renameSystem")
             ELSE Begin(t, NewJob("rename", h, asked, NoName, p), "composeMove")
  /\ UNCHANGED <<files, app, store, writer, answer, dangling>>

ComposeMove(t) ==
  /\ pc[t] = "composeMove"
  /\ IF t \in dangling \/ store[job[t].h] = NoEntry
     THEN Goto(t, "undefined") /\ UNCHANGED job
     ELSE /\ job' = [job EXCEPT ![t].name = Sibling(store[job[t].h].name, job[t].part)]
          /\ Goto(t, "renameSystem")
  /\ UNCHANGED <<files, app, store, writer, answer, dangling>>

RenameSystem(t) ==
  /\ pc[t] = "renameSystem"
  /\ \/ Return(t) /\ UNCHANGED files
     \/ \E landing \in Landing(t) :
          /\ files' = [files EXCEPT ![job[t].h] =
                         [name |-> job[t].asked, place |-> landing.real]]
          /\ job' = [job EXCEPT ![t].place = landing.path]
          /\ Goto(t, "update")
  /\ UNCHANGED <<app, store, writer, answer, dangling>>

\* Mutation of InsertOrUpdateHandle: an entry that exists is left alone.
RenameOnlyInserts(t, h, name, place) ==
  InsertHandle(h, name, place) /\ UNCHANGED dangling

\* Mutation of InsertOrUpdateHandle: a handle that is not stored is left alone.
RenameOnlyUpdates(t, h, name, place) ==
  /\ IF store[h] = NoEntry
     THEN UNCHANGED store
     ELSE store' = [store EXCEPT ![h].name = name, ![h].place = place]
  /\ dangling' = dangling \cup Viewers(t, h, PathReaders)

\* Mutation of InsertOrUpdateHandle: only the associated path is updated.
RenameKeepsRealPath(t, h, name, place) ==
  /\ store' = [store EXCEPT ![h] =
                 [name |-> name,
                  place |-> IF store[h] = NoEntry THEN place ELSE store[h].place,
                  enum |-> IF store[h] = NoEntry THEN "none" ELSE store[h].enum]]
  /\ dangling' = dangling \cup Viewers(t, h, PathReaders)

\* Only the paths change; the enumeration state stays.
InsertOrUpdateHandle(t, h, name, place) ==
  /\ store' = [store EXCEPT ![h] =
                 [name |-> name, place |-> place,
                  enum |-> IF store[h] = NoEntry THEN "none" ELSE store[h].enum]]
  /\ dangling' = dangling \cup
       (IF store[h] = NoEntry THEN {} ELSE Viewers(t, h, PathReaders))

\* A new name above an origin directory has no redirected file name, so no
\* attempt is recorded and the empty path is stored as the one opened.
UpdateRenamedHandle(t) ==
  /\ pc[t] = "update"
  /\ Unlocked
  /\ IF Intercepted(job[t].name)
     THEN InsertOrUpdateHandle(t, job[t].h, job[t].name,
            IF job[t].name \in Redirected THEN job[t].place ELSE "empty")
     ELSE Erase(t, job[t].h)
  /\ Return(t)
  /\ UNCHANGED <<files, app, writer, answer>>

-----------------------------------------------------------------------------
(* Asking for the name of an open file: QueryByHandle. *)

\* What the system calls the file: the name of a redirected one is its target.
SystemName(f) == IF f.place = "target" THEN NoName ELSE f.name

StartQuery(t) ==
  /\ \E h \in Handles :
       /\ MayUse(t, h, "query")
       /\ Begin(t, NewJob("query", h, NoName, SystemName(files[h]), NoPart), "askStore")
  /\ UNCHANGED <<files, app, store, writer, answer, dangling>>

AskStore(t) ==
  /\ pc[t] = "askStore"
  /\ Unlocked
  /\ IF store[job[t].h] = NoEntry
     THEN Return(t) /\ answer' = [answer EXCEPT ![t] = job[t].name]
     ELSE Goto(t, "answer") /\ UNCHANGED <<job, answer>>
  /\ UNCHANGED <<files, app, store, writer, dangling>>

Answer(t) ==
  /\ pc[t] = "answer"
  /\ IF t \in dangling \/ store[job[t].h] = NoEntry
     THEN Goto(t, "undefined") /\ UNCHANGED <<job, answer>>
     ELSE Return(t) /\ answer' = [answer EXCEPT ![t] = store[job[t].h].name]
  /\ UNCHANGED <<files, app, store, writer, dangling>>

-----------------------------------------------------------------------------
(* Listing a directory: DirectoryEnumerationPrepare and -Advance. *)

\* A handle that is not stored, or a null queue, is passed to the system.
StartEnumerate(t) ==
  /\ \E h \in Handles :
       /\ MayUse(t, h, "enumerate")
       /\ Unlocked
       /\ store[h] # NoEntry
       /\ store[h].enum # "through"
       /\ Begin(t, NewJob("enumerate", h, NoName, NoName, NoPart),
                IF store[h].enum = "none" THEN "prepare" ELSE "advanceLookup")
  /\ UNCHANGED <<files, app, store, writer, answer, dangling>>

\* The queue is built from the two paths of the view, without the lock.
Prepare(t) ==
  /\ pc[t] = "prepare"
  /\ IF t \in dangling \/ store[job[t].h] = NoEntry
     THEN Goto(t, "undefined") /\ UNCHANGED job
     ELSE /\ \E enum \in {"queue", "through"} : job' = [job EXCEPT ![t].enum = enum]
          /\ Goto(t, "associate")
  /\ UNCHANGED <<files, app, store, writer, answer, dangling>>

Associate(t) ==
  /\ pc[t] = "associate"
  /\ Unlocked
  /\ LET h == job[t].h
     IN IF store[h] = NoEntry
        THEN UNCHANGED <<store, dangling>>
        ELSE /\ store' = [store EXCEPT ![h] =
                            [name |-> store[h].name, place |-> store[h].place,
                             enum |-> job[t].enum]]
             /\ dangling' = dangling \cup Viewers(t, h, {"advance"})
  /\ Goto(t, "recheck")
  /\ UNCHANGED <<files, app, writer, job, answer>>

\* The lookup result is dereferenced unchecked.
Recheck(t) ==
  /\ pc[t] = "recheck"
  /\ Unlocked
  /\ LET entry == store[job[t].h]
     IN IF entry = NoEntry
        THEN Goto(t, "undefined") /\ UNCHANGED job
        ELSE IF entry.enum = "through"
             THEN Return(t)
             ELSE Goto(t, "advanceLookup") /\ UNCHANGED job
  /\ UNCHANGED <<files, app, store, writer, answer, dangling>>

AdvanceLookup(t) ==
  /\ pc[t] = "advanceLookup"
  /\ Unlocked
  /\ LET entry == store[job[t].h]
     IN IF entry = NoEntry \/ (entry # NoEntry /\ entry.enum = "none")
        THEN Goto(t, "undefined") /\ UNCHANGED job
        ELSE IF entry.enum = "through"
             THEN Return(t)
             ELSE Goto(t, "advance") /\ UNCHANGED job
  /\ UNCHANGED <<files, app, store, writer, answer, dangling>>

\* The queue is used without any lock.
Advance(t) ==
  /\ pc[t] = "advance"
  /\ IF t \in dangling THEN Goto(t, "undefined") /\ UNCHANGED job ELSE Return(t)
  /\ UNCHANGED <<files, app, store, writer, answer, dangling>>

-----------------------------------------------------------------------------

Init ==
  /\ files = [h \in Handles |-> Closed]
  /\ app = {}
  /\ store = [h \in Handles |-> NoEntry]
  /\ writer = NoThread
  /\ pc = [t \in Threads |-> "idle"]
  /\ job = [t \in Threads |-> NoJob]
  /\ answer = [t \in Threads |-> NoName]
  /\ dangling = {}

Start(t) ==
  \/ StartOpen(t) \/ StartRelativeOpen(t) \/ StartClose(t)
  \/ StartRename(t) \/ StartMove(t) \/ StartQuery(t) \/ StartEnumerate(t)

\* The rest of an operation that has begun.
Continue(t) ==
  \/ Compose(t) \/ OpenSystem(t) \/ StoreNewHandle(t)
  \/ CloseDirect(t) \/ CloseLock(t) \/ CloseSystem(t) \/ CloseErase(t)
  \/ ComposeMove(t) \/ RenameSystem(t) \/ UpdateRenamedHandle(t)
  \/ AskStore(t) \/ Answer(t)
  \/ Prepare(t) \/ Associate(t) \/ Recheck(t) \/ AdvanceLookup(t) \/ Advance(t)

Next == \E t \in Threads : Start(t) \/ Continue(t)

Spec == Init /\ [][Next]_vars

\* A thread inside an operation is scheduled again.  Nothing is assumed of the
\* application's wish to start one, nor of the order in which the lock is granted.
FairSpec == Spec /\ \A t \in Threads : WF_vars(Continue(t))

-----------------------------------------------------------------------------
(* Properties. *)

TypeOK ==
  /\ files \in [Handles -> File \cup {Closed}]
  /\ app \subseteq Handles
  /\ store \in [Handles -> Entry \cup {NoEntry}]
  /\ writer \in Threads \cup {NoThread}
  /\ pc \in [Threads -> Steps]
  /\ job \in [Threads -> Job]
  /\ answer \in [Threads -> Names \cup {NoName}]
  /\ dangling \subseteq Threads

\* No thread is between the system call and the store update of h.
Settled(h) ==
  \A t \in Threads : pc[t] \in {"update", "closeErase"} => job[t].h # h

\* Whatever opens, closes, renames and handle value reuses came before, and
\* however they interleaved, a handle the application has is stored exactly
\* when a rule could concern its name, and under the name the application
\* knows it by.
StoreFaithful ==
  \A h \in app : Settled(h) =>
    IF files[h].name \in Free
    THEN store[h] = NoEntry
    ELSE store[h] # NoEntry /\ store[h].name = files[h].name

\* A file recorded as opened at its target really is there: a directory
\* listing takes the target side from that path.
TargetFaithful ==
  \A h \in app : Settled(h) /\ store[h] # NoEntry /\ store[h].place = "target" =>
    files[h].place = "target"

\* An entry never outlives its handle where another thread can see it: the
\* race that RemoveAndCloseHandle holds its lock to avoid.
NoStaleEntry ==
  \A h \in Handles : files[h] = Closed /\ Unlocked => store[h] = NoEntry

\* No thread is left holding references into an entry that was removed or
\* whose paths or queue were replaced after its lookup released the lock.
ViewsLive == dangling = {}

\* The assertions of InsertHandle, RemoveAndCloseHandle and
\* AssociateDirectoryEnumerationState, at the step that evaluates them.
AssertionsHold ==
  [][\A t \in Threads :
       LET entry == store[job[t].h]
       IN /\ pc[t] = "insert" /\ pc'[t] = "idle" => entry = NoEntry
          /\ pc[t] = "closeLock" /\ pc'[t] = "closeSystem" => entry # NoEntry
          /\ pc[t] = "associate" /\ pc'[t] = "recheck" =>
               entry # NoEntry /\ entry.enum = "none"]_vars

\* Asked for the name of an open file, the executor gives the name under
\* which the application opened or last renamed it, never a target path.
AnswerTrue ==
  [][\A t \in Threads :
       pc[t] \in {"askStore", "answer"} /\ pc'[t] = "idle" =>
         answer'[t] = files[job[t].h].name]_vars

\* The exclusive lock is always given back, on the failure path too: no
\* thread waits for ever behind a close.
LockReleased == \A t \in Threads : writer = t ~> writer # t

\* The name Pathwinder goes by for a handle the application has: the stored
\* one, or else the system's.
BelievedName(h) ==
  IF h \notin app THEN NoName
  ELSE IF store[h] # NoEntry THEN store[h].name ELSE SystemName(files[h])

Promise == INSTANCE HandleNames
             WITH names <- [h \in Handles |-> BelievedName(h)], told <- answer

\* The store and the system's handle table together implement one atomic
\* table of names, whatever the interleaving of their separate updates.
ImplementsHandleNames == Promise!Spec

-----------------------------------------------------------------------------
(* Claims of the repository that these actions do not keep. *)

\* A lookup returns a view for the caller to read ("concurrency-safe storage
\* data structure for open filesystem handles and metadata"): no thread reads
\* an entry through references that are no longer good.
NoReadAfterFree == \A t \in Threads : pc[t] # "undefined"

\* The assertion of AssociateDirectoryEnumerationState against replacing the
\* enumeration state of a handle.
NeverReassociated ==
  [][\A t \in Threads : pc[t] = "associate" /\ pc'[t] = "recheck" =>
       LET entry == store[job[t].h] IN entry # NoEntry => entry.enum = "none"]_vars

\* realOpenedPath is documented as the path that was actually opened.
RealPathRecorded ==
  \A h \in app : Settled(h) /\ store[h] # NoEntry => store[h].place # "empty"

\* The second attempt of an overlay is documented as the unredirected file.
SecondTryAtOrigin ==
  \A h \in app : Settled(h) /\ store[h] # NoEntry /\ store[h].place = "origin" =>
    files[h].place = "origin"

\* RenameByHandle puts the full name of a move together "so that redirection
\* rules can be applied correctly": a name that no rule redirects is the name
\* of a file on the origin side.
MoveFollowsRules ==
  \A h \in app : Settled(h) /\ files[h].name \in Free => files[h].place = "origin"
=============================================================================
