--------------------------- MODULE DirectoryQueues ---------------------------
(***************************************************************************)
(* One directory listing: the queues that read the directories and the     *)
(* inserted names it is composed of, the queue that merges them, and the   *)
(* calls by which the application takes it, a bufferful at a time.         *)
(*                                                                         *)
(* The application calls, the executor copies fronts and pops them, and a  *)
(* pop makes a queue fetch another batch from the system when it needs     *)
(* one.  The loops of one call are steps of it.                            *)
(***************************************************************************)
EXTENDS Naturals, Sequences

CONSTANTS
  Names,            \* file names as the system spells them
  Key(_),           \* a name with its case folded, as a rank in the sort order
  Size(_),          \* size of a name's file information structure
  QueueCount,       \* number of queues, in the order of the instruction
  Insertion,        \* the queue that inserts names, or 0
  Included(_, _),   \* the instruction includes a name from a queue
  Missing,          \* names to insert whose own directory does not exist
  Directories,      \* what each queue reads, in the system's order
  Patterns,         \* query patterns
  Matches(_, _),    \* a name against a query pattern
  NoPattern,
  Batch,            \* most entries the system returns at once
  Capacities,       \* sizes of the application's buffers
  MaxRestarts       \* bound on the scans the application restarts

ASSUME SizesAssumption ==
  /\ QueueCount \in Nat \ {0}
  /\ Batch \in Nat \ {0}
  /\ MaxRestarts \in Nat
  /\ Capacities \subseteq Nat
  /\ \A n \in Names : Size(n) \in Nat \ {0} /\ Key(n) \in Nat

ASSUME DirectoriesAssumption ==
  Directories \subseteq [1 .. QueueCount -> Seq(Names)]

ASSUME PatternsAssumption ==
  NoPattern \notin Patterns /\ \A n \in Names : Matches(n, NoPattern)

VARIABLES
  dir,        \* the member of Directories that this listing reads
  queue,      \* state of each queue
  front,      \* frontElementSourceQueue, 0 for nullptr
  seen,       \* enumeratedFilenames
  first,      \* isFirstInvocation
  pattern,    \* the query pattern in force
  pc,         \* next step of the call being answered
  after,      \* step that follows once the queues have settled
  call,       \* arguments of that call
  out,        \* entries written to the application's buffer by it
  used,       \* numBytesWritten
  reply,      \* status and keys of the last answer
  told,       \* entries told since the scan began
  restarts    \* scans restarted so far

vars == <<dir, queue, front, seen, first, pattern, pc, after, call, out, used,
          reply, told, restarts>>

Queues == 1 .. QueueCount

Statuses == {"moreEntries", "noMoreFiles", "error"}

Queue ==
  [handle : BOOLEAN,      \* the directory could be opened
   status : Statuses,     \* enumerationStatus
   pos    : Nat,          \* enumerationBufferBytePosition, nameInsertionQueuePosition
   end    : Nat]          \* the batch in the buffer ends here

Call ==
  [capacity : Capacities, single : BOOLEAN, restart : BOOLEAN,
   pattern  : Patterns \cup {NoPattern}]

Entry == [from : Queues, name : Names]

Keys == {Key(n) : n \in Names}

Replies == {"none", "success", "overflow", "noSuchFile", "noMoreFiles", "error"}

KeysOf(entries) == {Key(entries[k].name) : k \in DOMAIN entries}

-----------------------------------------------------------------------------
(* One queue. *)

\* What a queue lets through: the system leaves out what does not match the
\* query pattern, the instruction what belongs to the other side of a rule; a
\* name to insert must match and its own directory must exist.
Wanted(i, n) ==
  /\ Matches(n, pattern)
  /\ IF i = Insertion THEN n \notin Missing ELSE Included(i, n)

Front(i) == dir[i][queue[i].pos]

\* The buffer is used up, or its front is to be skipped.
Unsettled(i) ==
  /\ queue[i].status = "moreEntries"
  /\ queue[i].pos <= queue[i].end => ~Wanted(i, Front(i))

\* A queue that could not open its directory has nothing to restart.
Restarted(q) ==
  [q EXCEPT !.status = IF q.handle THEN "moreEntries" ELSE "noMoreFiles",
            !.pos = 1, !.end = 0]

\* The outcome of opening a directory: a missing one is no error.
Opened(outcome) ==
  [handle |-> outcome = "opened",
   status |-> CASE outcome = "opened" -> "moreEntries"
                [] outcome = "missing" -> "noMoreFiles"
                [] outcome = "denied" -> "error",
   pos    |-> 1,
   end    |-> 0]

\* Entries that one more query returns, at most.
Most(i) == IF i = Insertion THEN 1 ELSE Batch

\* The system is asked: of the names to insert only for those that match.
Asks(i) ==
  i = Insertion => queue[i].end < Len(dir[i]) /\ Matches(dir[i][queue[i].end + 1], pattern)

Exhausted(i) == queue[i].end = Len(dir[i])

\* Another batch is in the buffer, up to entry end of the directory.
Filled(i, end) ==
  /\ end > queue[i].end /\ end <= queue[i].end + Most(i)
  /\ queue' = [queue EXCEPT ![i].end = end]

Stopped(i, status) == queue' = [queue EXCEPT ![i].status = status]

\* Mutation of Fetch: at its end the directory is read again.
FetchNeverEnds(i) ==
  \/ \E end \in DOMAIN dir[i] : Filled(i, end)
  \/ Exhausted(i) /\ queue' = [queue EXCEPT ![i].pos = 1, ![i].end = 0]
  \/ Asks(i) /\ Stopped(i, "error")

\* Mutation of Fetch: an incomplete batch is taken for the last one.
FetchEndsEarly(i) ==
  \/ \E end \in DOMAIN dir[i] : Filled(i, end)
  \/ queue[i].end + Most(i) > Len(dir[i]) /\ Stopped(i, "noMoreFiles")
  \/ Asks(i) /\ Stopped(i, "error")

\* Another batch is read from the system, or the end, or an error.
Fetch(i) ==
  \/ \E end \in DOMAIN dir[i] : Filled(i, end)
  \/ Exhausted(i) /\ Stopped(i, "noMoreFiles")
  \/ Asks(i) /\ Stopped(i, "error")

\* PopFront of one queue, before it settles.
Pop(i) == queue' = [queue EXCEPT ![i].pos = @ + 1]

-----------------------------------------------------------------------------
(* The merged queue. *)

More == {i \in Queues : queue[i].status = "moreEntries"}

\* Mutation of IsFront: of two equal names the later queue's is taken.
LastQueueWins(i) ==
  /\ i \in More
  /\ \A j \in More : Key(Front(i)) < Key(Front(j)) \/ (Key(Front(i)) = Key(Front(j)) /\ j <= i)

\* The front comes from the queue whose front sorts lowest, the first such.
IsFront(i) ==
  /\ i \in More
  /\ \A j \in More : Key(Front(i)) < Key(Front(j)) \/ (Key(Front(i)) = Key(Front(j)) /\ i <= j)

\* EnumerationStatus: an error of any queue is the error of all.
Status ==
  IF \E i \in Queues : queue[i].status = "error" THEN "error"
  ELSE IF front = 0 THEN "noMoreFiles" ELSE "moreEntries"

Settle(step) == pc' = "settle" /\ after' = step

\* The first queue that has not settled fetches or skips.
SettleQueue ==
  /\ pc = "settle"
  /\ \E i \in Queues :
       /\ Unsettled(i)
       /\ \A j \in 1 .. i - 1 : ~Unsettled(j)
       /\ IF queue[i].pos > queue[i].end THEN Fetch(i) ELSE Pop(i)
  /\ UNCHANGED <<dir, front, seen, first, pattern, pc, after, call, out, used,
                 reply, told, restarts>>

SelectFront ==
  /\ pc = "settle"
  /\ \A i \in Queues : ~Unsettled(i)
  /\ \/ front' = 0 /\ More = {}
     \/ \E i \in Queues : IsFront(i) /\ front' = i
  /\ pc' = after
  /\ UNCHANGED <<dir, queue, seen, first, pattern, after, call, out, used,
                 reply, told, restarts>>

-----------------------------------------------------------------------------
(* A call of the application. *)

Restarts(c) ==
  /\ c.restart => restarts < MaxRestarts
  /\ restarts' = IF c.restart THEN restarts + 1 ELSE restarts

\* The first call creates the queues: DirectoryEnumerationPrepare.
FirstCall(c) ==
  /\ pc = "absent"
  /\ Restarts(c)
  /\ call' = c
  /\ pattern' = c.pattern
  /\ \E outcome \in [Queues -> {"opened", "missing", "denied"}] :
       /\ Insertion \in Queues => outcome[Insertion] = "opened"
       /\ queue' = [i \in Queues |-> Opened(outcome[i])]
  /\ first' = TRUE
  /\ Settle(IF c.restart THEN "restart" ELSE "check")
  /\ UNCHANGED <<dir, front, seen, out, used, reply, told>>

\* A later call goes straight to DirectoryEnumerationAdvance.
LaterCall(c) ==
  /\ pc = "idle"
  /\ Restarts(c)
  /\ call' = c
  /\ pc' = IF c.restart THEN "restart" ELSE "check"
  /\ UNCHANGED <<dir, queue, front, seen, first, pattern, after, out, used,
                 reply, told>>

\* SL_RESTART_SCAN; without a new pattern the old one stays in force.
Restart ==
  /\ pc = "restart"
  /\ queue' = [i \in Queues |-> Restarted(queue[i])]
  /\ pattern' = IF call.pattern = NoPattern THEN pattern ELSE call.pattern
  /\ seen' = {}
  /\ first' = TRUE
  /\ told' = <<>>
  /\ Settle("check")
  /\ UNCHANGED <<dir, front, call, out, used, reply, restarts>>

Answer(status, entries) ==
  /\ reply' = [status |-> status, keys |-> [k \in DOMAIN entries |-> Key(entries[k].name)]]
  /\ told' = told \o entries
  /\ out' = <<>>
  /\ used' = 0
  /\ pc' = "idle"

\* Mutation of Check: isFirstInvocation stays set until a call succeeds.
CheckStaysFirst ==
  /\ pc = "check"
  /\ CASE Status = "error" -> Answer("error", <<>>) /\ UNCHANGED first
       [] Status = "noMoreFiles" ->
            Answer(IF first THEN "noSuchFile" ELSE "noMoreFiles", <<>>) /\ UNCHANGED first
       [] Status = "moreEntries" /\ call.capacity < Size(Front(front)) ->
            Answer("overflow", <<>>) /\ UNCHANGED first
       [] OTHER -> pc' = "copy" /\ first' = FALSE /\ UNCHANGED <<out, used, reply, told>>
  /\ UNCHANGED <<dir, queue, front, seen, pattern, after, call, restarts>>

\* Only a first call finds no file at all; a front that does not fit stays.
Check ==
  /\ pc = "check"
  /\ first' = FALSE
  /\ CASE Status = "error" -> Answer("error", <<>>)
       [] Status = "noMoreFiles" ->
            Answer(IF first THEN "noSuchFile" ELSE "noMoreFiles", <<>>)
       [] Status = "moreEntries" /\ call.capacity < Size(Front(front)) ->
            Answer("overflow", <<>>)
       [] OTHER -> pc' = "copy" /\ UNCHANGED <<out, used, reply, told>>
  /\ UNCHANGED <<dir, queue, front, seen, pattern, after, call, restarts>>

\* Mutation of CopyFront: the name is not remembered.
CopyForgets ==
  /\ pc = "copy"
  /\ used + Size(Front(front)) <= call.capacity
  /\ out' = Append(out, [from |-> front, name |-> Front(front)])
  /\ used' = used + Size(Front(front))
  /\ Pop(front)
  /\ Settle("skip")
  /\ UNCHANGED <<dir, front, seen, first, pattern, call, reply, told, restarts>>

\* The front is copied, remembered and popped.
CopyFront ==
  /\ pc = "copy"
  /\ used + Size(Front(front)) <= call.capacity
  /\ out' = Append(out, [from |-> front, name |-> Front(front)])
  /\ used' = used + Size(Front(front))
  /\ seen' = seen \cup {Key(Front(front))}
  /\ Pop(front)
  /\ Settle("skip")
  /\ UNCHANGED <<dir, front, first, pattern, call, reply, told, restarts>>

\* Mutation of BufferFull: the front that has no room is popped all the same.
BufferFullDrops ==
  /\ pc = "copy"
  /\ used + Size(Front(front)) > call.capacity
  /\ Answer("success", out)
  /\ Pop(front)
  /\ UNCHANGED <<dir, front, seen, first, pattern, after, call, restarts>>

\* The buffer has no room for the front, which stays for the next call.
BufferFull ==
  /\ pc = "copy"
  /\ used + Size(Front(front)) > call.capacity
  /\ Answer("success", out)
  /\ UNCHANGED <<dir, queue, front, seen, first, pattern, after, call, restarts>>

\* Names already told are popped until the front is new.
SkipSeen ==
  /\ pc = "skip"
  /\ Status = "moreEntries"
  /\ Key(Front(front)) \in seen
  /\ Pop(front)
  /\ Settle("skip")
  /\ UNCHANGED <<dir, front, seen, first, pattern, call, out, used, reply, told,
                 restarts>>

\* The next entry, or the end of the call.  An error that has come up by now is
\* the answer, and what this call had written is of no use to the application.
SkipDone ==
  /\ pc = "skip"
  /\ Status = "moreEntries" => Key(Front(front)) \notin seen
  /\ CASE Status = "error" -> Answer("error", <<>>)
       [] Status = "noMoreFiles" -> Answer("success", out)
       [] Status = "moreEntries" /\ call.single -> Answer("success", out)
       [] OTHER -> pc' = "copy" /\ UNCHANGED <<out, used, reply, told>>
  /\ UNCHANGED <<dir, queue, front, seen, first, pattern, after, call, restarts>>

-----------------------------------------------------------------------------

Init ==
  /\ dir \in Directories
  /\ queue = [i \in Queues |-> Opened("missing")]
  /\ front = 0
  /\ seen = {}
  /\ first = TRUE
  /\ pattern = NoPattern
  /\ pc = "absent"
  /\ after = "check"
  /\ call \in {c \in Call : ~c.restart /\ c.pattern = NoPattern /\ ~c.single}
  /\ out = <<>>
  /\ used = 0
  /\ reply = [status |-> "none", keys |-> <<>>]
  /\ told = <<>>
  /\ restarts = 0

\* A step of the call being answered.
Step ==
  \/ SettleQueue \/ SelectFront \/ Restart \/ Check
  \/ CopyFront \/ BufferFull \/ SkipSeen \/ SkipDone

Next == Step \/ \E c \in Call : FirstCall(c) \/ LaterCall(c)

Spec == Init /\ [][Next]_vars

\* A call with room for any entry.
RoomyCall ==
  \E c \in Call :
    /\ \A n \in Names : Size(n) <= c.capacity
    /\ FirstCall(c) \/ LaterCall(c)

\* A call is answered, and an application that lists a directory calls again
\* and again with a buffer that has room for any entry.
FairSpec == Spec /\ WF_vars(Step) /\ SF_vars(RoomyCall)

-----------------------------------------------------------------------------
(* Properties. *)

TypeOK ==
  /\ dir \in [Queues -> Seq(Names)]
  /\ queue \in [Queues -> Queue]
  /\ front \in Queues \cup {0}
  /\ seen \subseteq Keys
  /\ first \in BOOLEAN
  /\ pattern \in Patterns \cup {NoPattern}
  /\ pc \in {"absent", "idle", "settle", "restart", "check", "copy", "skip"}
  /\ after \in {"restart", "check", "skip"}
  /\ call \in Call
  /\ out \in Seq(Entry)
  /\ used \in Nat
  /\ reply.status \in Replies /\ reply.keys \in Seq(Keys)
  /\ told \in Seq(Entry)
  /\ restarts \in 0 .. MaxRestarts

Distinct(entries) ==
  \A j, k \in DOMAIN entries : Key(entries[j].name) = Key(entries[k].name) => j = k

\* During one scan no name is told twice, in any spelling and from any queue,
\* however the names fall into batches, buffers and calls.
NoDuplicates == Distinct(told)

\* What a queue has to offer in this scan, and what all of them have.
Offered(i) ==
  IF queue[i].handle
  THEN {dir[i][k] : k \in {k \in DOMAIN dir[i] : Wanted(i, dir[i][k])}}
  ELSE {}

Visible == UNION {{Key(n) : n \in Offered(i)} : i \in Queues}

Sorted(s) == \A j, k \in DOMAIN s : j < k => Key(s[j]) <= Key(s[k])

\* When the system lists every directory in sorted order, a name that several
\* queues offer is told by the first of them: the target's file stands for the
\* origin's, with its own size and times.
FirstQueueWins ==
  (\A i \in Queues : Sorted(dir[i])) =>
    \A k \in DOMAIN told : \A i \in 1 .. told[k].from - 1 :
      Key(told[k].name) \notin {Key(n) : n \in Offered(i)}

NoError == \A i \in Queues : queue[i].status # "error"

\* The wanted names of a queue before its position, which are behind it.
Behind(i) == {k \in DOMAIN dir[i] : k < queue[i].pos /\ Wanted(i, dir[i][k])}

\* As long as the system reports no error, a name that a queue has passed has
\* been told, or is written and about to be told.
NothingLost ==
  NoError =>
    \A i \in Queues : queue[i].handle =>
      \A k \in Behind(i) : Key(dir[i][k]) \in KeysOf(told) \cup KeysOf(out)

\* When a call is about to answer that there are no more names, every name that
\* any directory offers has been told.
Complete ==
  pc = "check" /\ Status = "noMoreFiles" =>
    \A i \in Queues : \A n \in Offered(i) : Key(n) \in KeysOf(told)

Promise == INSTANCE Listing
             WITH todo   <- IF pc = "absent" THEN {} ELSE Visible \ KeysOf(told),
                  fresh  <- first,
                  failed <- ~NoError

\* Call by call the application is told exactly what the queues offer: each
\* name once, nothing left out when it is told there is no more.
ImplementsListing == Promise!Spec

\* An application that keeps calling with room for an entry comes to the end of
\* its last scan and is told no more after it.
Ends == <>[](reply.status \in {"noSuchFile", "noMoreFiles", "error"})

-----------------------------------------------------------------------------
(* The inductive invariant. *)

\* The queues have settled and the front has been selected from them.
Resting == pc \in {"idle", "check", "copy", "skip"}

\* Nothing of a call has been written.
Unwritten == pc \in {"absent", "idle", "restart", "check"} \/ after # "skip"

\* A new scan: nothing has been enumerated.
Beginning == pc = "absent" \/ (pc = "settle" /\ after # "skip")

\* A queue is inside its batch, its batch inside its directory.
QueueInv ==
  \A i \in Queues :
    /\ queue[i].end <= Len(dir[i])
    /\ queue[i].pos >= 1
    /\ queue[i].status = "moreEntries" => queue[i].pos <= queue[i].end + 1
    /\ queue[i].status = "noMoreFiles" /\ queue[i].handle => queue[i].pos > Len(dir[i])

FrontInv ==
  /\ Resting =>
       /\ \A i \in Queues : ~Unsettled(i)
       /\ IF front = 0 THEN More = {} ELSE front \in More
  /\ pc = "copy" => Status = "moreEntries"

\* Before a front is copied it has been checked against what is enumerated.
NewFront ==
  pc \in {"idle", "check", "copy"} /\ Status = "moreEntries" =>
    Key(Front(front)) \notin seen

\* What has been enumerated is what has been told or written, unless an error
\* made a call drop what it had written.
SeenInv ==
  /\ KeysOf(told) \cup KeysOf(out) \subseteq seen
  /\ NoError => seen \subseteq KeysOf(told) \cup KeysOf(out)
  /\ Distinct(told) /\ Distinct(out) /\ KeysOf(told) \cap KeysOf(out) = {}

PassedInv ==
  \A i \in Queues : queue[i].handle => \A k \in Behind(i) : Key(dir[i][k]) \in seen

CallInv ==
  /\ Unwritten => out = <<>>
  /\ Beginning => seen = {}

IInv ==
  /\ TypeOK
  /\ QueueInv
  /\ FrontInv
  /\ NewFront
  /\ SeenInv
  /\ PassedInv
  /\ CallInv

-----------------------------------------------------------------------------
(* A claim of the repository that these queues do not keep. *)

\* An error in opening a directory is recorded and provided to the application:
\* until an error has been told, the queue does not forget the one it has.
ErrorReported ==
  [][\A i \in Queues :
       queue[i].status = "error" /\ ~queue[i].handle /\ reply.status # "error" =>
         queue'[i].status = "error"]_vars
=============================================================================
