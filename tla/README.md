# Pathwinder: specifications, model checking and proofs

Pathwinder is a Windows DLL that redirects file operations.  It hooks the
system calls of the process it is loaded into, decides from a set of *rules*
(origin directory, target directory, file patterns, redirect mode) where a file
operation should really go, carries the operation out, and hides the fact from
the application: handles answer with the names the application knows, and
directory listings are composed from both sides of a rule.

This directory holds TLA+ specifications of that program, the TLC
configurations that check small instances of them, and proofs for TLAPS.

## The system

| Component | State | Operations | Talks to |
| --- | --- | --- | --- |
| Hooks, HookModuleMain | request counter, the singletons, which hooks are set | one hook per system call; set the hooks, reopen the current directory | executor, director, store |
| Globals, DllMain | the resolver with the configured definitions | read the configuration, build the rules; load and unload | builder, hooks |
| FilesystemExecutor | none of its own; locals of one call | NewFileHandle, CloseHandle, RenameByHandle, QueryByHandle, QueryByObjectAttributes, DirectoryEnumerationPrepare / Advance | director (asks for instructions), open handle store, queues, system calls, thread pool |
| OpenHandleStore | map from handle to associated path, real path and enumeration state; a shared mutex | insert, update, remove, remove and close, associate, look up | executor; the system (NtClose under the lock) |
| DirectoryOperationQueue | one directory handle and a batch buffer (EnumerationQueue); a list of names and a position (NameInsertionQueue); the sources and the front (MergedFileInformationQueue) | front, pop, restart, status | executor; the system |
| BufferPool, ThreadPool | free buffers under a mutex; a Windows pool handle under a shared mutex | allocate, free; submit, wait | executor (asynchronous listings) |
| FilesystemDirector | the rules: immutable after start-up | instruction for a file operation, for a listing | rule containers, prefix tree |
| FilesystemRule, RelatedFilesystemRuleContainer | paths, patterns, mode; rules ordered by pattern count | redirect a path, match a name | director |
| FilesystemDirectorBuilder | rules being collected, all origins and targets seen | add rule, build | configuration, prefix tree, file system |
| PrefixTree | tree of path components | insert, erase, longest matching prefix | director, builder |
| FilesystemInstruction | values | construction | director to executor |
| FilesystemOperations | none | create a directory hierarchy, open, query, partial enumeration | system |
| FileInformationStruct | four numbers for each information class | read and write the fields and the name of a structure in a buffer | executor, queues |
| Strings, ApiBitSet, ApiWindows | none | conversions | everybody |
| PathwinderConfigReader | none | reads the configuration file | builder |

"External" below is what lies outside `src/`: Windows, its file systems, and
the application.  It is modelled from how the code in `src/` uses it.

### How the parts interact

* A hook hands one system call of an application thread to the executor.  Any
  number of threads are inside the executor at once; the only locks are the
  shared mutex of the store, the mutex of the buffer pool and the shared mutex
  of the thread pool.  The rules are built once, before the hooks are
  installed, and never change.
* The **start**: Hookshot loads the module into a process that may be running
  already.  The configuration is read, the director built and put in place, the
  hooks are set one after the other, and the current directory, which the system
  opened earlier, is set to the temporary directory and back so that its handle
  comes through the hooks.
* A **new handle**: the executor composes the full name (through the store, if
  the request has a root directory), asks the director for an instruction,
  creates the target hierarchy the instruction asks for, tries the files and
  dispositions of the instruction one system call after another, and stores the
  name the application used and the path it opened.
* A **listing**: on the first call for a handle the executor looks the handle
  up, asks the director which directories and names to merge, builds the queue
  and associates it with the handle under a second lock.  Every later call
  looks the queue up again and drains it, in the caller's thread or, for an
  asynchronous handle, in a worker of the thread pool that finally sets an
  event and queues a procedure call.
* A **rename** asks the director for the new name, has the system rename the
  file, then updates the store.  A **query** for a name asks the system, then
  overwrites its answer with the name in the store.  A **close** removes the
  entry and closes the handle under one lock.

### What is hard

| Behaviour | Where | Modelled in |
| --- | --- | --- |
| A handle value is free for reuse the moment `NtClose` returns | `OpenHandleStore.cpp:132` | OpenHandleStore |
| A lookup returns references into an entry and releases its lock | `OpenHandleStore.cpp:61-70` | OpenHandleStore |
| The system and the store are told of an open and of a rename one after the other | `FilesystemExecutor.cpp:1616, 1754` | OpenHandleStore |
| Several directories, in batches, any order, any case, into a buffer that ends anywhere, with restarts | `DirectoryOperationQueue.cpp`, `FilesystemExecutor.cpp:396-510` | DirectoryQueues |
| One open is several system calls; others come between | `FilesystemExecutor.cpp:1503-1618` | Redirection |
| A target hierarchy is decided on, then created level by level, then used | `FilesystemDirector.cpp:705-760`, `FilesystemOperations.cpp:231-291` | Redirection |
| What a listing shows must be what an open finds, for every relation of a directory to the rules | `FilesystemDirector.cpp` | FilesystemDirector, Redirection |
| Records of asynchronous listings move between calls, pool, workers and procedure calls | `FilesystemExecutor.cpp:92-180, 515-560`, `BufferPool.h` | AsyncListings |
| Parents of origin directories are generated until nothing is missing | `FilesystemDirectorBuilder.cpp:565` | FilesystemDirectorBuilder |
| Erasing destroys nodes from below while parent pointers are followed | `PrefixTree.h:303-325` | PrefixTree |
| Structures are copied in part, their lengths and offsets corrected afterwards, names replaced by longer and shorter ones | `FilesystemExecutor.cpp:424-515, 1832-1905` | ApplicationBuffers |
| Hooks are set while other threads open and close | `HookModuleMain.cpp:65-132` | HookModule |

### What makes each component correct

* **OpenHandleStore**: the entries agree with the system's handle table
  whenever no thread is between the two; no entry of a closed handle is ever
  found; references out of the store stay good while they are used; every
  query for a name answers the name the application used.
* **Queues**: each name once, from the first directory that has it; nothing
  lost at the end of a buffer or a batch; the end is reported when everything
  has been told, and only then; the same after a restart.
* **Executor and director**: under any rules the builder accepts, the
  application's view behaves as one filesystem with atomic operations; nothing
  is created on the origin side of a rule; a listing shows what can be opened.
* **Asynchronous listings**: a record has one owner; a listing is not advanced
  by two workers, nor closed or restarted under one; a signal means the outcome
  has been written; every submitted request is answered.
* **Builder**: it accepts exactly the rule sets `ValidRules` and `ValidFiles`
  describe, and it ends.
* **PrefixTree**: it is a map from paths to data, keeps no branch without data,
  and no call reads a node that is gone.
* **Buffers of the application**: nothing is written behind their end, the
  entries are found by their offsets, a buffer that is too small tells what is
  needed, and a replaced name answers as the system would.
* **Start**: no entry outlives its handle whichever hooks are set when, the rules
  are fixed before the first hook, and the current directory is treated as one
  opened by the application.

## The modules

| Module | Models |
| --- | --- |
| `OpenHandleStore` | the store, and the open, close, rename, name query and first listing that use it, one lock section or system call per step |
| `HandleNames` | the promise of the store: an atomic table from handles to names |
| `OpenHandleStoreInvariant`, `OpenHandleStoreProofs` | its inductive invariant and its theorems |
| `DirectoryQueues` | the three queues, their merge and the loop that drains it, call by call |
| `Listing` | the promise of a listing: one set of names, told once, then the end |
| `DirectoryQueuesProofs` | its theorems |
| `Files` | external: files and directories, and what the dispositions of a system call do to them |
| `FilesystemDirector` | rules, containers and both instruction functions, as operators |
| `Redirection` | NewFileHandle, QueryByObjectAttributes and RenameByHandle by several threads against one filesystem |
| `FilesystemView` | the promise of redirection: one filesystem on which each request is atomic |
| `SimpleUse` | what the theorems on rules in simple mode assume of rules, disk and application |
| `RedirectionProofs` | the theorems of `FilesystemDirector` and `Redirection`: for any rules, then for rules in simple mode |
| `FilesystemDirectorBuilder` | the sections of a configuration become rules, and the rounds of verification with generated rules |
| `FilesystemDirectorBuilderProofs` | its theorems |
| `AsyncListings` | submission, buffer pool, workers, events and procedure calls |
| `AsyncListingsProofs` | its theorems |
| `PrefixTree`, over `Prefixes` | the tree node by node: each operation one token or one node a step |
| `PrefixMap` | the promise of the tree: a map from paths to data |
| `PrefixTreeProofs` | its theorems |
| `FileInformationStruct` | the layouts of structures, and reading and writing their fields |
| `ApplicationBuffers` | what listings and queries by handle leave in a buffer of any size, byte by byte |
| `ApplicationBuffersProofs` | its theorems |
| `HookModule` | the start of the module while other threads open and close; every hook |
| `HookModuleProofs` | its theorems |
| `MC...` | constants for TLC |

`Redirection` extends `FilesystemDirector`, which extends `Files`.
So does `FilesystemDirectorBuilder`: `ValidRules` and `ValidFiles` of
`FilesystemDirector` are what a built director guarantees (`BuiltIsValid`) and what
`Redirection` assumes of its configurations.
`HookModule` extends `FilesystemDirector` too: a whole call of the executor is one
step there.
`OpenHandleStore`, `DirectoryQueues`, `AsyncListings`, `PrefixTree` and
`ApplicationBuffers` stand beside them: each
keeps of the others what it tells apart.  For `OpenHandleStore` a rule is the
set of redirected names, and a file is a name and the side it is on; for
`AsyncListings` the drained queue is a counter of batches; `Redirection` takes a
listing as the set of names its queues offer, which is what `Listing` promises
of them; `ApplicationBuffers` takes a listing as the sequence of those names;
what the director asks of a tree is an operator on paths, which is what
`PrefixMap` promises.  Operators whose comment begins "Mutation of" are plausible mistakes
in a definition: the run named in PROJECT.json notices each of them.

### OpenHandleStore

`files` is the system's handle table, `app` the handles the application has
been told, `store` the map of `OpenHandleStore.h:73-108`, `writer` the thread
that holds the mutex exclusively across `NtClose`, `pc` and `job` the place and
the locals of the executor function a thread is in, `dangling` the threads
whose references into an entry are no longer good.  The other lock sections
contain nothing that blocks and are one step each.  Names are `Free` (no rule
concerns them), `Prefixes` (above an origin directory: stored, not redirected)
or `Redirected`.  The system may fail every call, and reuses a handle value as
soon as it has closed it.

`Concurrent` says which operations of two threads the application overlaps on
*one* handle.  The passing runs and the theorems let it overlap reads only
(name queries, relative opens, one listing); operations on different handles
overlap freely, and an open may receive the value that a close on another
thread has just freed.  `SiblingOut` of the MC module moves a file out of the
patterns of its rule; the passing run keeps moves by a bare name inside them.
`FreeAssumption` says that a file relative to a directory no rule concerns is of
no concern to a rule either: the executor relies on it at
`FilesystemExecutor.cpp:732-735`.  It holds for configurations in which no origin
directory lies outside the patterns of a rule above it; the run
`hook_nested_origin` shows what happens in the others.

### DirectoryQueues

A state is the queues (`Queue`: the batch, the position, the status), the keys
told so far, the pattern and the call under way.  An entry is a name with a
`Key` (names that differ only in case have one key) and a `Size`.
`SettleQueue` is one `AdvanceQueueContentsInternal`, which leaves out names that
the filter excludes or that are not there any more; `Check` to `SkipDone` are
the steps of `AdvanceDirectoryEnumerationOperation`.  The contents of the
directories stay as they are during one listing, and a directory ends.  A
restart without a pattern keeps the old one.  `STATUS_NO_SUCH_FILE` from the
first query of a directory counts as any other error, as in the code.

### FilesystemDirector and Redirection

A path is the sequence of its components, a file pattern the set of names it
matches.  Ordering the rules of a container by the number of patterns, the
longest matching prefix, the scope of a rule and both instruction functions are
operators with the names of the code.  In `Redirection` each thread holds at
most one handle (`name`: what the application used; `at`: the file the system
opened; `path`: what the store has) and is in at most one call.  `Ask` makes the
instruction; `Climb` and `Descend` are the two loops of
`CreateDirectoryHierarchy`, one directory a step, and a hierarchy that is the drive alone is
refused (`FilesystemOperations.cpp:239`): `kObjectPathInvalid` is one of the codes that
`ShouldTryNextFilename` takes for "not found", and the models tell no two of them apart.  `CheckExists` and `Attempt`
are the system calls of the nested loop of `NewFileHandle`, `Move` those of
`RenameByHandle`.  A handle opened
relative to a root takes the root's place in its thread.

The application's view leaves out the targets of rules and the directories that
are created to hold them.  Contents of files are not modelled: superseding is
told apart from opening by what it demands and where it happens.
The application does not delete an origin directory or what is above one, and a
file is deleted when its only handle is closed.  It renames files that no other handle
has open, replaces none, and gives none a name above an origin directory
(`MCRenameAbove`) nor a bare name that takes a redirected file out of its rule
(`MCMoveOut`) or into an overlay, where a bare name could be stored as the real path.

### FilesystemDirectorBuilder

`config` is a configuration file and the disk, `next` the section to be read and
`errors` those that were refused; `origins`, `targets`, `names` and `rules` are
the indices of the builder, `temporary` the directories made for generated rules.
`ReadSection` is one round of the loop of `BuildFromConfigurationData` with the
whole of `AddRule`; every section is read, whatever became of those before it,
and a rule that its container refuses leaves its directories taken.
`RefuseOrigin`, `AddParent` and `VerifyTargets` are the three ways a call of
`VerifyPreBuildConstraints` ends: the code goes through the rules in the order
of their names up to the first violation, the model may come upon any of them.
A section with a setting that is missing or does not resolve has `NoPath`.  The
disk stays as it is while the director is built, and the drive is on it.
`FreshAssumption` says what names are generated: each has a prefix that no section's name has
and the origin below in it (`FilesystemDirectorBuilder.cpp:648`), so that no two are the same, and
a temporary directory has a random number in its name (`Strings.cpp:361`), so that no section
has a directory at or below it.

### AsyncListings

`memory` is what each buffer of the pool holds, `pool` the free ones, `posted`
the work the thread pool has accepted, `worker` the callback of each worker,
`apcs` the queued procedure calls of each thread with the buffer they point
into.  `order` is how the application asked to be told: an event, a procedure
call, both or neither.  It waits for its event, or looks at the status block
when it gave none, before it asks again through the handle or closes it, so one
request per handle is under way; a procedure call alone tells it nothing.  The
buffer pool is filled by the first allocation, the thread pool exists, and it may
refuse any request; `DuplicateHandle` succeeds.

### PrefixTree

`live` are the nodes that exist, `data`, `parent`, `key` and `child` their
fields, `root` the node inside the tree object.  `call` is the operation that
runs, `at` and `pos` the node and the token its loop has come to.  `SkipEmptyToken`,
`Descend` and `EmplaceChild` are rounds of the walk, `Prune` and `Climb` rounds of
`Erase` and `GetClosestAncestor`.  `Move` is the construction of one tree from
another: the root moves, the nodes below it stay and point to the old one.
`AfterMove` are the operations the new owner calls; the director asks for the
longest match and whether anything is beneath a path, and follows no parent
pointer.  `path` is history: where a node was created.
A path is read with or without empty components, as `Canonical` says; the
comparison of components is that of the hash map.

### FileInformationStruct and ApplicationBuffers

A layout is the four numbers of `FileInformationStructLayout`; memory is a
function from addresses, a byte is what was written there: a byte of a name, of a
number, or nothing.  `List` and `CopyFront` are a synchronous listing; `Query`,
`KeepName` and `ReplaceName` a query by handle, whose structure begins at the
offset of its information class.  The system fills a buffer as
`SystemStatus` and `SystemInformation` say, cut at its end.  One listing is of one
information class; which names it has is left to `DirectoryQueues`.

### HookModule

`stage` and `record` are where the main thread is in
`HOOKSHOT_HOOK_MODULE_ENTRY` and in the list of hooks, `hooked` the functions that
are hooked, `system` the handle table (the name a caller means and the file that
was opened), `store` the open handle store, `cwd` the handle of the current
directory, which the system opened before.  `Open` and `Close` are calls of any thread at any time;
they are intercepted if the function is hooked.  `Attempts` are the files that a
request tries, in their order; which of them exists is left open, and so is what
the application does after the start: `ChangeDirectory` is one of its calls.
Setting a hook, reading the configuration, building and each call of
`ReinitializeCurrentDirectory` may fail, with what the code does then.
`CurrentDirectoryIntercepted` compares the first attempts of two requests: the
second one of an overlay goes wrong for a reason of its own (`MCOverlayRelative`).
The drive is not used as the current directory (see `DriveRoot` below).

## Runs

All bounds are constants of the configurations; no run has a state constraint.
Type invariants and inductive invariants are proved for all constants and are not
repeated by the runs.
The times are of two workers.

| Run | Shows | Bounds and why they are enough |
| --- | --- | --- |
| `store` (430 000 states) | the safety of the store, its assertions, and that store and system together implement `HandleNames` | 2 threads, 2 handle values: a race on the store is between two threads, and a value is reused while the other is in use; one name of each class, since the code tells only the classes apart.  Threads and handles are symmetric and no liveness is checked.  The view leaves out the last answer to a thread: no guard reads it |
| `store_lock_released` | `LockReleased` under weak fairness of `Continue` | one handle: the lock is one; no symmetry |
| `listing` (130 000 states) | the safety of a listing, that it implements `Listing`, and that it ends | a target, an origin and an insertion queue with 5 spellings of 3 names, 3 orders of contents, batches of 2, buffers for 1 entry or 3, two patterns and one restart: the end of a batch, of a directory and of a buffer meet in every combination; an excluded and a vanished name |
| `simple` (66 300 states) | that redirection in simple mode implements `FilesystemView`, that listings show what can be opened, that the rule of a stored handle is found again | 2 threads, 5 configurations: a pattern with a target to create, files on both sides, an illusionary origin, nested origins, two rules of one origin; `MCSimple` checks that all of this satisfies `OrdinaryUse` and `NestedOriginsExist`; roots above, at and below an origin; with deletes, and renames into the patterns of a rule, out of them and between rules |
| `overlay` | that overlays implement `FilesystemView` for one thread | 5 configurations; see the restrictions below |
| `overlay_races` (27 500 states) | for two threads: handles are on what the application sees, listings agree, nothing is created on the origin side | the same, a target obstructed by a file, and an origin directory with its target right below the drive, which may not be created |
| `async` (700 000 states) | ownership of records, no races on a listing, order, signals, and that submitted requests are answered | 2 threads, 2 workers, 2 handles, 2 requests, 2 buffers in batches of 2 with a pool for 1: the pool is empty, full, and grows.  No symmetry, since liveness is checked |
| `builder` (39 500 states) | that a director is built exactly for the configurations that keep the documented constraints, with their rules and one for each missing parent, whatever the order of the sections; that it satisfies what `Redirection` assumes; that building ends | up to 3 of 13 sections in every order, 3 disks, containers of 2 rules, 2 temporary directories: two rounds that generate a rule and a third that does not, a full container, targets equal to, below and above other directories, a file at an origin, a generated rule that is refused.  A constraint is between two rules, or between a rule and a generated one |
| `prefix_tree` | that the tree implements `PrefixMap`, keeps no dead branch, touches no dead node, and returns | 4 strings: the empty one, one that is a prefix of another, and empty components at the front, in the middle and at the end; 2 data; 6 nodes are one for each prefix and one more, so an address is used again; a move at any time.  A walk is told apart only by ending in the tree, leaving it, or forking, all within 3 levels |
| `application_buffers` | the four properties of the buffers | names of 1, 3 and 7 characters, the first within the fixed part of a structure and the second before a multiple of its padding; 10 sizes of buffers that end before, within and behind each; listings of up to 4 entries; a structure at the start and behind 8 bytes |
| `hook_module` (11 000 states) | the order of the start, and the current directory | 3 handles: the current directory, its successor, and one of another thread, which is closed and used again; an overlay of one name, so that a directory is above, at, in and outside a rule; every failure.  Handles are symmetric.  The process may be terminated: deadlock is not checked |
| `hook_nested_origin` | one disagreement, see Findings | the same with a rule in the directory the first one leaves alone |

The overlay runs leave out what the findings are about, or the properties would
fail for that reason alone: the application does not use `FILE_CREATE`, opens
directories with `FILE_OPEN`, uses no root directory that was redirected and
deletes nothing.  The two sides of a rule agree on which names are directories.
`ImplementsFilesystem` is not checked for two threads under an overlay: one
`FILE_OPEN_IF` is two system calls there, which the disagreement
`OnlyCreateCollides` below is about.

In `simple` and `overlay` no request that may create is made of an origin directory
whose target is right below the drive (`HierarchiesNamed`; in `simple` it is a hypothesis that
`MCSimple` checks).  The code refuses such a request whether or not the
application sees the directory, so no atomic request of `FilesystemView` would be like it: see
`OriginOnDrive` under the further disagreements.  A target right below the drive is in both runs otherwise.
What `overlay_races` checks is of handles, listings and what is created: the refusal leaves
all of that alone, and the run reaches it.

The mutation of a definition for each property of each passing run is in
PROJECT.json: TLC finds the property violated once the mutated form replaces
the definition.

### Fairness

* `OpenHandleStore!FairSpec`: weak fairness of `Continue(t)`.  A thread inside an
  executor function is scheduled again, and a system call returns.  Nothing is
  assumed of starting an operation or of the order in which the mutex is given.
* `DirectoryQueues!FairSpec`: weak fairness of the steps inside a call, since one
  thread runs them, and strong fairness of a call with room for one entry: an
  application that now and then offers a large enough buffer.  Without it no end is
  promised, since a call without room tells nothing.
* `AsyncListings!FairSpec`: weak fairness of each thread inside a call and of each
  worker, which includes taking posted work.  Nothing is assumed of an application
  thread ever becoming alertable.
* `PrefixTree!FairSpec`: weak fairness of `Step`.  One thread runs a call to its end;
  that calls are made is not assumed.
* `FilesystemDirectorBuilder!FairSpec`: weak fairness of `Next`.  One thread builds
  the director, before any hook is set.

## Proofs

Every theorem is for all values of the constants that satisfy the named
assumptions of the modules (`tlapm` proves all obligations).

| Theorem | Says |
| --- | --- |
| `OpenHandleStoreProofs!Invariance`, `TypeCorrect`, `StoreIsFaithful`, `TargetIsFaithful`, `NoEntryOutlivesItsHandle`, `ViewsAreLive`, `StoreAssertionsHold`, `AnswersAreTrue`, `StoreImplementsHandleNames` | `[]IInv`, `[]TypeOK`, `[]StoreFaithful`, `[]TargetFaithful`, `[]NoStaleEntry`, `[]ViewsLive`, `AssertionsHold`, `AnswerTrue`, `ImplementsHandleNames` |
| `DirectoryQueuesProofs!Invariance`, `TypeCorrect`, `NamesAreToldOnce`, `NamesAreNotLost`, `EndIsComplete`, `FirstQueueIsTold`, `QueuesImplementListing` | `[]IInv`, `[]TypeOK`, `[]NoDuplicates`, `[]NothingLost`, `[]Complete`, `[]FirstQueueWins`, `ImplementsListing` |
| `RedirectionProofs!RedirectionTypeOK`, `StoredPathsFaithful`, `RuleRecoveredFromStore`, `SimpleHandlesOnView`, `SimpleCreationsOnTarget`, `SimpleOnlyCreateCollides`, `SimpleImplementsFilesystem`, `SimpleFoundIfSeen`, `SimpleCreateOnlyNew`, `SimpleListingIsView` | `[]TypeOK`, `[]IInv`, `[]RedirectionIdentified`; for rules in simple mode `HandleOnView`, `CreationsOnTarget`, `OnlyCreateCollides`, `ImplementsFilesystem`, `FoundIfSeen`, `CreateOnlyNew`, `[]ListingIsView` |
| `AsyncListingsProofs!AsyncTypeOK`, `RecordsHaveOneOwner`, `NoListingIsRaced`, `BatchesInSequence`, `SignalsAreTrue` | `[]TypeOK`, `[]OneOwner`, `[]NoRace`, `[]InSequence`, `[]SignalMeansDone` |
| `FilesystemDirectorBuilderProofs!BuilderTypeOK`, `BuiltRulesAreValid`, `VerdictIsRight` | `[]TypeOK`, `[]BuiltIsValid`, `[]Verdict` |
| `PrefixTreeProofs!TypeCorrect`, `NoDeadNodeIsVisited`, `EveryBranchLeadsToData`, `TreeImplementsMap` | `[]TypeOK`, `[]VisitsLiveNodes`, `[]BranchesLeadToData`, `ImplementsMap` |
| `ApplicationBuffersProofs!TypeCorrect`, `WritesStayInBounds`, `OverflowTellsSize`, `QueriesAnswerAsSystem`, `ListingsAreLinked`, `NamesAreFoundByOffsets` | `[]TypeOK`, `[]WritesInBounds`, `[]OverflowTellsLength`, `[]AnsweredAsSystem`, `[]Linked`, `[]FoundByOffsets` |
| `HookModuleProofs!TypeCorrect`, `OnlyOpenHandlesAreStored`, `RulesStayFixed`, `CurrentDirectoryIsIntercepted` | `[]TypeOK`, `[]StoredHandlesAreOpen`, `RulesFixed`, `[]CurrentDirectoryIntercepted` |

* **OpenHandleStore.**  `StoreFaithful` says something only of handles that no
  thread is changing, so it is not inductive.  `IInv` adds what a thread relies on at each of
  its steps (the job it carries agrees with the handle it holds), what the store
  owes a handle that has just been opened, renamed or closed (the new name is in
  the job, the entry still has the old one), that the thread between `NtClose`
  and the erasure is the writer, and how two threads may meet on one handle.
  The theorems assume that the application overlaps only reads of one handle
  (`Concurrent`).  What a query answers needs more (`PlaceInv`): a file at its target
  has a redirected name, also while a name relative to it is on its way to the system,
  and a query that waits for the store has what the system says now.  `AnswersAreTrue`
  and the refinement therefore assume `TargetsStayRedirected`: names below or beside a
  redirected one are redirected.  A move out of the patterns of a rule breaks that; it is the
  subject of `store_move_out`.  In the refinement a step that changes the row of one handle
  opens, renames or closes it, and a rename half done may be a close and an open.
* **DirectoryQueues.**  `IInv` relates the position of every queue to the keys
  told: each entry a queue has passed has been told, was left out, or is the one
  about to be copied; the keys told are of names that some queue offers.  The
  end is then complete because every queue has passed all it has.  For `FirstQueueWins`
  and `ImplementsListing`, `LInv` adds that the front is the first of the queues in
  sort order (`MergeInv`), that a call whose buffer is full has told an entry, because the
  first always fits (`RoomInv`), and that what is told is offered, by no earlier queue
  (`OfferInv`).  Every step of a call is then one of `Listing` or a stutter: it
  is the answer that tells.
* **Redirection.**  `IInv` says that every path about to be tried and every stored
  path is the name itself, what the rule for the name makes of it, or nothing,
  and that the loops stay within their lists.  `RuleRecoveredFromStore` follows
  because no rule the builder accepts has its target at or below the target of
  another (`ValidRules`), so a redirected path determines its rule.  The next three
  theorems assume that every rule is in simple mode (`SimpleMode`) and rest on
  `LocatedInv`: every handle, and every attempt, is where its name leads (`Selected`); one
  that is not stored has a name below which, if it is used as a root, nothing is redirected
  (`PassedOn`); and the directories created for a call, from the level it has reached
  on, are above what a rule makes of its name (`OnTargetSide`).  A relative request then means
  the same file to the system and to the rules: an intercepted one because its root
  is in no origin directory either (`InterceptedBelow`).  `RootsAreKnown` is what the code
  needs of the application for that; with `DriveRoot`, which is without it,
  `HandleOnView` fails.  `TargetsApart` excludes rules whose target is, or holds, an origin
  directory: the builder accepts both, and what is created in such a target is at a
  redirected path.  Under an overlay the last is false (`OpenIfRequests`), the second fails
  if a target directory may be deleted meanwhile, and the first is only model-checked.

  `SimpleImplementsFilesystem` is the refinement, for any number of threads and any set of
  paths.  It assumes `OrdinaryUse` (in `SimpleUse`) of the paths `App` that the application
  names, and each of its parts is there for a behaviour of the code: the application stays off
  the target side (`KeepsToVisible`), where files appear under two names; nothing lies beside the
  directories that lead to a target (`NothingBeside`), since those are left out of the view;
  no directory of the origin side is hidden (`NothingHidden`: `MCHiddenDirectory`); no file
  is in the way of a target (`TargetsClear`); an origin directory exists, or its target does
  and takes all that is in it (`OriginsExist`); and a request that may create, made of an origin
  directory, knows that it is one (`OriginsAreKnown`), as its target may not
  exist yet, and is not made if that target is right below the drive (`HierarchiesNamed`),
  where the code has no hierarchy to create and refuses it.  The invariant `ViewInv` has `LocatedInv` and what those assumptions become as
  files change (`FilesKept`: nothing changes at a redirected path of the origin side, and a
  directory above or at a target stays), and says of each call under way that the directories its
  attempt relies on are there (`Ready`) or are those it is still to create (`CallOrdinary`).
  `Place` then takes no two paths of the view to one file (`PlaceInjective`) and agrees
  with `Front` (`FrontOfPlace`) except at origin directories, whose place is known to
  exist; a system call at the place does what one system call at the name would
  (`StatusOnView`, `MoveOnView`, `RemoveOnView`), and each step that creates a directory
  changes nothing the application sees (`LevelCreated`).  `SimpleFoundIfSeen` and
  `SimpleCreateOnlyNew` follow: the answer of an attempt is the one of the view (`AnswerOnView`).
  `SimpleFoundIfSeen` and `SimpleOnlyCreateCollides` speak of every step of a call, not of its attempts only: a
  call is answered by its last attempt or by `CreateDirectoryHierarchy` (`WhoAnswers`), whose
  climb answers for the drive alone (`ClimbAnswers`) and whose way down reaches every level
  (`LevelReached`).
  Under overlays `FoundIfSeen` and `CreateOnlyNew` are false (`MCOverlayRelative`,
  `MCOverlayCreate`), and without `HierarchiesNamed` the former is false in simple mode too
  (`OriginOnDrive`).

  `SimpleListingIsView` compares the queues of a listing with the place of each name: in
  an origin directory the rules that match a name are those whose first one redirects it
  (`RuleOfEntry`), so it is offered at that rule's target (`TargetsShow`), or at the origin
  if there is none (`OriginShows`); anywhere else what is in a directory is in the
  directory's place (`PlaceOfEntry`).  An origin directory is listed because it is inserted, and
  for that its target has to exist if the directory above is redirected
  (`NestedOriginsExist`, an assumption of its own): the listing above then looks at the target
  side only, and an open finds the origin side.  Under overlays a directory opened with a
  disposition that may create breaks it (`MCOverlayDirectory`).
* **AsyncListings.**  `OneOwner` is inductive only together with `Holding`, which says what
  each step of a worker and of a call holds.  What the application is told needs
  more (`JInv`): a request that a call, the thread pool or an advancing worker has is
  pending and unsignalled (`Phases`) and nobody else's (`Apart`); one request of an open handle
  is under way at a time (`OneAtATime`, from the guards of `Ask` and `Close`: how an
  application waits); and a listing has counted all requests taken since it last began
  but a pending last one (`TakenSound`, `ListingCounts`).  A worker that advances a listing
  is then alone in it, and the batch it copies is the one that its request is due.
* **FilesystemDirectorBuilder.**  `BuiltIsValid` speaks of the end; `BInv` adds
  what every rule satisfies from the moment it is added (`RulesSound`: its
  directories are in the indices and different from those of every other rule),
  and that, as long as nothing was refused, every directory taken as an origin is
  that of a rule (`OriginsUsed`): a parent that is an origin is then one of a rule.
  A full container leaves directories taken without a rule, but no director is
  built after a refusal.  The file constraints then follow
  from the last round, which found nothing to refuse and no parent missing.

  `Verdict` compares the rounds with constraints on the sections as a whole, so `VInv`
  accounts for every rule.  While sections are read (`ReadSoFar`), those read so far are the rules
  and separate if none was refused, and not separate otherwise: a section is refused exactly if
  it breaks a constraint with those before it (`SectionRefused`), in whichever order they stand.
  From then on (`Verified`) a rule is a section's or was generated, with a missing directory as
  its origin and a temporary directory of its own (`Accounted`).  A directory found missing in some round is one of
  `MissingParents`, as nothing lies between a path and its directory (`FrontIsMissing`);
  its rule is refused only if it is a section's target (`ParentRefused`, from `FreshAssumption`);
  and when no parent is missing any more, all of them have rules (`ClosedHasMissing`,
  an induction over the components of an origin).  The rules then are as many as the
  sections and missing directories (`RulesCounted`), and what `VerifyTargets` finds is what
  `Acceptable` excludes (`TargetRefused`, `NothingInTheWay`).

* **PrefixTree.**  The nodes that live form a tree whose parent pointers, keys and
  children agree and in which a path leads to one node (`Shape`); between calls every leaf has
  data (`Branches`), during an erasure all but the one it has come to.  `ImplementsMap` is a
  refinement: each step of a loop is a stutter but the one that finds the answer.
  The theorems assume `AfterMove \subseteq ParentFree`: the owner of a moved tree calls
  nothing that follows parent pointers.  `CanonicalGrows` is stated as an assumption
  because it needs an induction over a string; TLC evaluates it.
* **ApplicationBuffers.**  `BInv` adds to the properties that a call under way has
  put its entries and its name where the properties look for them (`Placed`).
  `LayoutsAssumption` says of the two layouts what `LayoutForFileInformationClass` and the
  asserted sizes of the structures give: the fields do not overlap and lie in front of the
  name.  `FoundByOffsets` follows the offsets along a chain of any length.  `Linked` says that
  the entries written so far are such a chain (`Chain`: each begins where the offset of the one
  before it leads, and lies behind it), and `WalkFinds` that a walk from the first finds their names: an
  induction over a set of numbers of entries (`Numbers`), with no operator as a parameter.
  The theorem assumes that no name is empty, as no system lists one: a value is read back
  from its first byte, and an empty name has none.
* **HookModule.**  `HInv` adds the progress of the main thread (`Progress`: the
  required hooks of the records behind it are set, or the process is terminated) and
  that nothing is stored before closes are seen (`ClosesAreSeen`), because `NtClose`
  comes first in the list.  For the current directory, `CurrentKept` says that it is
  where the process was started until the application changes it, and `Settled` that,
  once the start is over, it is stored as a directory opened through the hooks is, or is of no
  concern to any rule.  The theorem assumes `NestedInScope`: no origin directory lies
  outside the patterns of a rule above it.  Without that it is false, as
  `hook_nested_origin` shows.

Only model-checked: the liveness properties (`LockReleased`, `Ends`,
`Answered`, `CallsReturn`), which are out of the prover's reach; and `ImplementsFilesystem`,
`ListingIsView`, `HandleOnView` and `CreationsOnTarget` under overlays.

## Findings

The run `hook_nested_origin` shows a disagreement between the code and what the
repository says of it; PROJECT.json quotes both.  A directory in an origin directory
but outside the patterns of its rules is opened without being intercepted, and its
handle is not stored.  If another rule has its origin directory below that
directory, requests relative to the handle never reach the rule, although requests by full
path do (`FilesystemExecutor.cpp:732`, `FilesystemDirector.cpp:680`).

### Further disagreements

Each of these configurations checks one property that `tlc -config <cfg> <module>`
finds violated.  Where the configuration is given in words, it is the named one with
the change.

| Configuration, module | Property | What happens |
| --- | --- | --- |
| `MCTwoListings`, MCOpenHandleStore | `NeverReassociated` | two threads that list a handle for the first time both associate a queue: the assertion of `OpenHandleStore.cpp:45` fails, and in a release build the first queue is freed under its user |
| `MCOverlayCreate`, MCRedirection | `CreateOnlyNew` | `FILE_CREATE` under an overlay succeeds on the target side although the origin side has the file (`FilesystemDirector.cpp:772`) |
| `MCOverlayDirectory`, MCRedirection | `ListingIsView` | an origin directory opened with a disposition that may create is stored as not redirected, and its listing leaves out what is on the target side |
| `MCApcTooLate`, MCAsyncListings | `ApcOfItsRequest` | a procedure call that runs after its record was freed and used again calls the routine of another request (`FilesystemExecutor.cpp:552`) |
| `MCMovedTree`, MCPrefixTree | `VisitsLiveNodes` | `GetClosestAncestor` and `Erase` of a tree that was moved follow parent pointers to the old object (`PrefixTree.h:67-72`); the director calls neither |
| `MCBufferOverflow`, MCApplicationBuffers | `NoNextEntryOnOverflow` | the structure that a too small buffer is given has an offset to a next entry: `WriteFileNameLength`, called after `ClearNextEntryOffset`, sets it again (`FileInformationStruct.h:509-520`); the comment at `FilesystemExecutor.cpp:434` says it has none |
| `MCRenameWhileAsking`, MCOpenHandleStore | `NoReadAfterFree` | a rename replaces the strings that a query for the name on another thread still reads (`OpenHandleStore.cpp:61`, `103`) |
| `MCRenameAbove`, MCOpenHandleStore | `RealPathRecorded` | a rename to a name above an origin directory stores an empty real path (`FilesystemExecutor.cpp:1750`) |
| `MCOpenHandleStore` with this property | `SecondTryAtOrigin` | the store records an origin path for a file opened on the target side (`FilesystemExecutor.cpp:1543-1547`) |
| `MCMoveOut`, MCOpenHandleStore | `MoveFollowsRules` | a move by a bare name to one that no rule redirects leaves the file on the target side (`FilesystemExecutor.cpp:1748`) |
| `MCDirectoryQueues` with this property | `ErrorReported` | a first call that also restarts the scan forgets that a directory could not be opened (`DirectoryOperationQueue.cpp:312`) |
| `MCOverlayRelative`, MCRedirection | `FoundIfSeen` | relative to a redirected directory handle, the unredirected attempt of an overlay reaches the target side again, and files of the origin side are not found (`FilesystemExecutor.cpp:1543`) |
| `MCOverlayRelative` with `OriginOnDrive` and `OriginRequests`, MCRedirection | `FoundIfSeen` | a request that may create, made of an origin directory whose target is right below the drive, is answered `kObjectPathInvalid` (`FilesystemOperations.cpp:239`): the hierarchy that the director asks for is the drive alone (`FilesystemDirector.cpp:738`).  The directory and its target may both exist.  The comment at `FilesystemDirector.cpp:719` asks for creation to be possible in the target hierarchy where it is in the origin hierarchy.  A rename to such a name meets the same, in either mode |
| `MCOverlayRaces` with `Nowhere` and `OpenIfRequests` | `OnlyCreateCollides` | under an overlay `FILE_OPEN_IF` can answer that the file exists (`FilesystemExecutor.cpp:937`) |
| `MCOverlayRaces` with `OriginDirectory`, `DeleteRequests` and deletes | `CreationsOnTarget` | a target directory deleted between its creation and the attempt makes an overlay create on the origin side (`FilesystemExecutor.cpp:1495`) |
| `MCHiddenDirectory`, MCRedirection | `ListingIsView` | a directory of the origin side can be opened under a rule in simple mode, and is listed only afterwards (`FilesystemDirector.cpp:741`) |
| `MCSimple` in MCRedirection, with `DriveFiles`, `DriveRequests` and `DriveRoot` | `HandleOnView` | a path relative to a handle on the drive is not redirected (`FilesystemDirector.cpp:558`) |
| `MCOverlay` with `FirstMissing` and `AboveRequests` | `ListingIsView` | an illusionary origin of two rules is listed and cannot be opened when only the second target exists (`FilesystemDirector.cpp:612`) |

Seen in the code, and not expressed by a model:

* A rule with patterns over an origin that does not exist: files outside the
  patterns have no directory to be created in.
* `GetAttributesForPath` (`FilesystemOperations.cpp:141`) tests the outcome of the
  open where that of the query is meant.
* The thread handle and the record of an asynchronous request are not released
  when the thread pool refuses it, nor the handle when no routine is to be
  called (`FilesystemExecutor.cpp:142, 554`).
* `PrefixTree.h` says of its root node that it "will only ever contain children, no
  data"; `Insert` of an empty string puts data there, and
  `HasPathForPrefix` of an empty string is true for an empty tree.
* `NtSetInformationFile` handles `FileRenameInformation` only: a rename by
  `FileRenameInformationEx` passes, and the store keeps the old name.
* A handle that is duplicated is not stored under its new value.
* Handles other than that of the current directory that were opened before the hooks
  are never intercepted.
* The information class of the first call of a listing is used for all later ones.
* A query for attributes whose optional hook could not be set tells about the origin
  side, whatever the rules (`HookModuleMain.cpp:114`).
* When `ReinitializeCurrentDirectory` fails half-way the application starts in the
  temporary directory (`Hooks.cpp:132`).
* `ProtectedDependency::SafeInvoke` (`Hooks.h:90-100`) asks whether a hook is set and
  calls the function afterwards; a hook set in between is invoked again.
* A rename relative to a root directory submits an absolute redirected name beside the
  handle (`FilesystemExecutor.cpp:1690`).
* `FilesystemDirectorBuilder.h:76-78` lists constraints (3) and (4) in words that
  differ from the checks: a target must not be another's target either, and
  nothing but a real directory, or nothing at all, may be at an origin.

## Not modelled

* The log, the configured definitions, the reader of the configuration file, version
  resources, unloading and the cleaning of the temporary directory: no state the
  properties tell apart.
* The hooks of `ShellExecute`, which only write to the log.
* String conversions, object attributes and flag sets: data that the models
  abstract.
* Which information classes have which layout.
* Renames of directories, renames that replace a file, and renames relative to a root
  directory handle.
* The life of the thread pool and failures of `DuplicateHandle`.
* How the builder resolves and checks the strings of a section.
* Branches for rule sets the builder refuses.

## Plan

Done, in this order: `OpenHandleStore` with its promise and proofs;
`DirectoryQueues` likewise; `Files`, `FilesystemDirector` and `Redirection`
with `FilesystemView`; `AsyncListings`; `FilesystemDirectorBuilder`; `PrefixTree` with
`PrefixMap` and proofs; `ApplicationBuffers`; `HookModule`.

Next:

1. Renames relative to a root directory handle.
2. Theorems: `HandleOnView` and `ListingIsView` under overlays.
