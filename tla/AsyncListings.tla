---------------------------- MODULE AsyncListings ----------------------------
(***************************************************************************)
(* Listings of directories that were opened for asynchronous I/O: the call *)
(* that submits one (DirectoryEnumerationAdvance), the pool of buffers     *)
(* that carry submitted requests, the system's worker threads that carry   *)
(* them out, and the ways in which an application learns of a completion.  *)
(*                                                                         *)
(* A request is known by its I/O status block.  What a call copies out is  *)
(* one batch: the listing of a handle is the number of batches it has      *)
(* given (DirectoryQueues says what is in them).                           *)
(***************************************************************************)
EXTENDS Naturals, Sequences, FiniteSets

CONSTANTS
  Threads,      \* application threads
  Workers,      \* threads of the system's thread pool
  Handles,      \* asynchronous directory handles with an enumeration state
  Requests,     \* requests, each with a status block of its own
  Buffers,      \* addresses of context records
  Granularity,  \* kAllocationGranularity
  PoolSize,     \* kPoolSize
  NoRequest, NoBuffer,
  Fresh,        \* what a record holds before it is first filled
  Deleted       \* what memory holds that is not allocated

ASSUME SizeAssumption == Granularity \in Nat \ {0} /\ PoolSize \in Nat \ {0}

ASSUME NullAssumption ==
  /\ {NoRequest, Fresh, Deleted} \cap Requests = {}
  /\ Fresh # Deleted
  /\ NoBuffer \notin Buffers

VARIABLES
  order,     \* what each request asks for
  status,    \* what became of it
  batch,     \* the batch of its listing that it was given
  signalled, \* requests whose event is set
  called,    \* completion routines that ran: the request each was queued for, and its own
  taken,     \* requests of each handle since its listing last began
  listing,   \* batches that the listing of each handle has given
  stored,    \* handles that are open and in the store
  memory,    \* the request in each context record, or what else is there
  pool,      \* availableBuffers, up to numAvailableBuffers
  call,      \* the call that each application thread is in
  apcs,      \* asynchronous procedure calls queued to each thread
  posted,    \* records submitted to the thread pool
  worker,    \* what each worker is at
  duplicates \* requests whose duplicated thread handle is open

vars == <<order, status, batch, signalled, called, taken, listing, stored, memory, pool,
          call, apcs, posted, worker, duplicates>>

Order == [thread : Threads, handle : Handles, event : BOOLEAN, apc : BOOLEAN]

Statuses == {"unused", "pending", "refused", "done"}

Contents == Requests \cup {Fresh, Deleted}

Call == [step : {"idle", "allocate", "submit", "raced", "crashed"},
         request : Requests \cup {NoRequest}, buffer : Buffers \cup {NoBuffer}]

Work == [step : {"idle", "advance", "signal", "queue", "free", "raced"},
         buffer : Buffers \cup {NoBuffer}]

NoCall == [step |-> "idle", request |-> NoRequest, buffer |-> NoBuffer]

NoWork == [step |-> "idle", buffer |-> NoBuffer]

\* The request a worker is at, and its handle.
RequestOf(w) == memory[worker[w].buffer]

HandleOf(w) == order[RequestOf(w)].handle

Advancing(h) == {w \in Workers : worker[w].step = "advance" /\ HandleOf(w) = h}

-----------------------------------------------------------------------------
(* The application. *)

Asked == {r \in Requests : status[r] # "unused"}

\* An application that gave an event waits for it, and looks at the status
\* block otherwise.
Over(r) ==
  IF order[r].event /\ status[r] # "refused"
  THEN r \in signalled
  ELSE status[r] # "pending"

\* It has one request of a handle under way at a time, and closes the handle
\* when there is none.
Free(h) == \A r \in Asked : order[r].handle = h => Over(r)

Close(t) ==
  /\ call[t].step = "idle"
  /\ \E h \in stored : Free(h) /\ stored' = stored \ {h}
  /\ UNCHANGED <<order, status, batch, signalled, called, taken, listing, memory, pool,
                 call, apcs, posted, worker, duplicates>>

-----------------------------------------------------------------------------
(* Submitting: DirectoryEnumerationAdvance and SubmitOperation. *)

\* Mutation of Restart: the queue goes on where it was.
RestartForgets(h) ==
  /\ taken' = [taken EXCEPT ![h] = <<>>]
  /\ UNCHANGED listing

\* The caller restarts the listing itself, with no lock.
Restart(h) ==
  /\ listing' = [listing EXCEPT ![h] = 0]
  /\ taken' = [taken EXCEPT ![h] = <<>>]

\* A listing that is restarted while a worker is in it.
Disturbed(h, restart) == restart /\ Advancing(h) # {}

\* The call duplicates a handle of its thread, whether or not it will be needed.
Ask(t) ==
  /\ call[t].step = "idle"
  /\ Asked # Requests
  /\ \E o \in Order, restart \in BOOLEAN :
       LET r == CHOOSE unused \in Requests : unused \notin Asked
       IN /\ o.thread = t /\ o.handle \in stored
          /\ Free(o.handle)
          /\ order' = [order EXCEPT ![r] = o]
          /\ IF restart THEN Restart(o.handle) ELSE UNCHANGED <<listing, taken>>
          /\ status' = [status EXCEPT ![r] = "pending"]
          /\ duplicates' = duplicates \cup {r}
          /\ call' = [call EXCEPT ![t] =
               [step |-> IF Disturbed(o.handle, restart) THEN "raced" ELSE "allocate",
                request |-> r, buffer |-> NoBuffer]]
  /\ UNCHANGED <<batch, signalled, called, stored, memory, pool, apcs, posted, worker>>

\* A call that cannot tell the I/O mode of the handle is refused after the
\* restart.
AskInVain(t) ==
  /\ call[t].step = "idle"
  /\ \E h \in stored :
       /\ Free(h)
       /\ Restart(h)
       /\ call' = IF Disturbed(h, TRUE) THEN [call EXCEPT ![t].step = "raced"] ELSE call
  /\ UNCHANGED <<order, status, batch, signalled, called, stored, memory, pool, apcs,
                 posted, worker, duplicates>>

\* An empty pool is filled with new buffers, no more than it can hold.
MoreBuffers ==
  LET count == IF Granularity < PoolSize THEN Granularity ELSE PoolSize
  IN {new \in [1..count -> {b \in Buffers : memory[b] = Deleted}] :
        \A i, j \in 1..count : new[i] = new[j] => i = j}

\* What memory holds once the buffers of a pool are allocated.
WithAllocated(buffers) ==
  [b \in Buffers |->
     IF memory[b] = Deleted /\ \E i \in DOMAIN buffers : buffers[i] = b
     THEN Fresh ELSE memory[b]]

\* Mutation of Allocate: numAvailableBuffers is not decremented.
AllocateKeeps(t) ==
  /\ call[t].step = "allocate"
  /\ \E available \in IF pool = <<>> THEN MoreBuffers ELSE {pool} :
       LET last == available[Len(available)]
       IN /\ pool' = available
          /\ memory' = [WithAllocated(available) EXCEPT ![last] = call[t].request]
          /\ call' = [call EXCEPT ![t].step = "submit", ![t].buffer = last]
  /\ UNCHANGED <<order, status, batch, signalled, called, taken, listing, stored,
                 apcs, posted, worker, duplicates>>

\* The record is the last of the pool, and is filled before it is submitted.
Allocate(t) ==
  /\ call[t].step = "allocate"
  /\ \E available \in IF pool = <<>> THEN MoreBuffers ELSE {pool} :
       LET last == available[Len(available)]
       IN /\ pool' = SubSeq(available, 1, Len(available) - 1)
          /\ memory' = [WithAllocated(available) EXCEPT ![last] = call[t].request]
          /\ call' = [call EXCEPT ![t].step = "submit", ![t].buffer = last]
  /\ UNCHANGED <<order, status, batch, signalled, called, taken, listing, stored,
                 apcs, posted, worker, duplicates>>

\* The system may refuse the work: the buffer and the thread handle are lost.
Submit(t) ==
  /\ call[t].step = "submit"
  /\ LET r == call[t].request
     IN \/ /\ posted' = posted \cup {call[t].buffer}
           /\ taken' = [taken EXCEPT ![order[r].handle] = Append(@, r)]
           /\ UNCHANGED status
        \/ /\ status' = [status EXCEPT ![r] = "refused"]
           /\ UNCHANGED <<posted, taken>>
  /\ call' = [call EXCEPT ![t] = NoCall]
  /\ UNCHANGED <<order, batch, signalled, called, listing, stored, memory, pool,
                 apcs, worker, duplicates>>

-----------------------------------------------------------------------------
(* Carrying out: AsyncCallback and the function it calls. *)

\* Mutation of Start: the event is set before the listing is advanced.
StartSignals(w) ==
  /\ worker[w].step = "idle"
  /\ \E b \in posted :
       /\ posted' = posted \ {b}
       /\ worker' = [worker EXCEPT ![w] = [step |-> "advance", buffer |-> b]]
       /\ signalled' = IF order[memory[b]].event THEN signalled \cup {memory[b]} ELSE signalled
  /\ UNCHANGED <<order, status, batch, called, taken, listing, stored, memory,
                 pool, call, apcs, duplicates>>

Start(w) ==
  /\ worker[w].step = "idle"
  /\ \E b \in posted :
       /\ posted' = posted \ {b}
       /\ worker' = [worker EXCEPT ![w] = [step |-> "advance", buffer |-> b]]
  /\ UNCHANGED <<order, status, batch, signalled, called, taken, listing, stored, memory,
                 pool, call, apcs, duplicates>>

\* The listing is read and changed through a pointer into the entry of the
\* handle, with no lock.
Advance(w) ==
  /\ worker[w].step = "advance"
  /\ LET h == HandleOf(w)
     IN IF h \notin stored \/ Advancing(h) # {w}
        THEN /\ worker' = [worker EXCEPT ![w].step = "raced"]
             /\ UNCHANGED <<status, batch, listing>>
        ELSE /\ listing' = [listing EXCEPT ![h] = @ + 1]
             /\ batch' = [batch EXCEPT ![RequestOf(w)] = listing[h] + 1]
             /\ status' = [status EXCEPT ![RequestOf(w)] = "done"]
             /\ worker' = [worker EXCEPT ![w].step = "signal"]
  /\ UNCHANGED <<order, signalled, called, taken, stored, memory, pool, call, apcs,
                 posted, duplicates>>

\* Mutation of Signal: a request with a routine has its event forgotten.
SignalUnlessApc(w) ==
  /\ worker[w].step = "signal"
  /\ signalled' = IF order[RequestOf(w)].event /\ ~order[RequestOf(w)].apc
                  THEN signalled \cup {RequestOf(w)} ELSE signalled
  /\ worker' = [worker EXCEPT ![w].step = "queue"]
  /\ UNCHANGED <<order, status, batch, called, taken, listing, stored, memory, pool, call,
                 apcs, posted, duplicates>>

Signal(w) ==
  /\ worker[w].step = "signal"
  /\ signalled' = IF order[RequestOf(w)].event
                  THEN signalled \cup {RequestOf(w)} ELSE signalled
  /\ worker' = [worker EXCEPT ![w].step = "queue"]
  /\ UNCHANGED <<order, status, batch, called, taken, listing, stored, memory, pool, call,
                 apcs, posted, duplicates>>

\* The parameter of the procedure call is the address of the record.  The
\* thread handle is closed here, and only here.
QueueApc(w) ==
  /\ worker[w].step = "queue"
  /\ LET r == RequestOf(w)
         t == order[r].thread
     IN IF order[r].apc
        THEN /\ apcs' = [apcs EXCEPT ![t] =
                           Append(@, [queuedFor |-> r, parameter |-> worker[w].buffer])]
             /\ duplicates' = duplicates \ {r}
        ELSE UNCHANGED <<apcs, duplicates>>
  /\ worker' = [worker EXCEPT ![w].step = "free"]
  /\ UNCHANGED <<order, status, batch, signalled, called, taken, listing, stored, memory,
                 pool, call, posted>>

\* A full pool gives the buffer back to the heap.
FreeBuffer(w) ==
  /\ worker[w].step = "free"
  /\ LET b == worker[w].buffer
     IN IF Len(pool) = PoolSize
        THEN memory' = [memory EXCEPT ![b] = Deleted] /\ UNCHANGED pool
        ELSE pool' = Append(pool, b) /\ UNCHANGED memory
  /\ worker' = [worker EXCEPT ![w] = NoWork]
  /\ UNCHANGED <<order, status, batch, signalled, called, taken, listing, stored, call,
                 apcs, posted, duplicates>>

\* A thread that waits alertably runs the call queued first, which finds its
\* routine through the record.
RunApc(t) ==
  /\ call[t].step = "idle"
  /\ apcs[t] # <<>>
  /\ LET apc == Head(apcs[t])
         found == memory[apc.parameter]
     IN IF found \in Requests /\ order[found].apc
        THEN called' = called \cup {<<apc.queuedFor, found>>} /\ UNCHANGED call
        ELSE call' = [call EXCEPT ![t].step = "crashed"] /\ UNCHANGED called
  /\ apcs' = [apcs EXCEPT ![t] = Tail(@)]
  /\ UNCHANGED <<order, status, batch, signalled, taken, listing, stored, memory, pool,
                 posted, worker, duplicates>>

-----------------------------------------------------------------------------

Init ==
  /\ order = [r \in Requests |-> NoRequest]
  /\ status = [r \in Requests |-> "unused"]
  /\ batch = [r \in Requests |-> 0]
  /\ signalled = {}
  /\ called = {}
  /\ taken = [h \in Handles |-> <<>>]
  /\ listing = [h \in Handles |-> 0]
  /\ stored = Handles
  /\ memory = [b \in Buffers |-> Deleted]
  /\ pool = <<>>
  /\ call = [t \in Threads |-> NoCall]
  /\ apcs = [t \in Threads |-> <<>>]
  /\ posted = {}
  /\ worker = [w \in Workers |-> NoWork]
  /\ duplicates = {}

CallStep(t) == Allocate(t) \/ Submit(t)

WorkerStep(w) == Start(w) \/ Advance(w) \/ Signal(w) \/ QueueApc(w) \/ FreeBuffer(w)

Next ==
  \/ \E t \in Threads : Ask(t) \/ AskInVain(t) \/ CallStep(t) \/ RunApc(t) \/ Close(t)
  \/ \E w \in Workers : WorkerStep(w)

Spec == Init /\ [][Next]_vars

\* Threads inside a call and workers are scheduled.  Nothing makes an
\* application wait alertably.
FairSpec ==
  /\ Spec
  /\ \A t \in Threads : WF_vars(CallStep(t))
  /\ \A w \in Workers : WF_vars(WorkerStep(w))

-----------------------------------------------------------------------------
(* Properties. *)

TypeOK ==
  /\ order \in [Requests -> Order \cup {NoRequest}]
  /\ status \in [Requests -> Statuses]
  /\ batch \in [Requests -> Nat]
  /\ signalled \subseteq Requests
  /\ called \subseteq Requests \X Requests
  /\ taken \in [Handles -> Seq(Requests)]
  /\ listing \in [Handles -> Nat]
  /\ stored \subseteq Handles
  /\ memory \in [Buffers -> Contents]
  /\ pool \in Seq(Buffers) /\ Len(pool) <= PoolSize
  /\ call \in [Threads -> Call]
  /\ apcs \in [Threads -> Seq([queuedFor : Requests, parameter : Buffers])]
  /\ posted \subseteq Buffers
  /\ worker \in [Workers -> Work]
  /\ duplicates \subseteq Requests

Busy(w) == worker[w].step # "idle"

\* A buffer of the pool is in it once, allocated, and in nobody's hands.
PoolOwns ==
  /\ \A i, j \in DOMAIN pool : pool[i] = pool[j] => i = j
  /\ \A i \in DOMAIN pool :
       /\ memory[pool[i]] # Deleted
       /\ pool[i] \notin posted
       /\ \A t \in Threads : call[t].buffer # pool[i]
       /\ \A w \in Workers : worker[w].buffer # pool[i]

Submitting(t) == call[t].step = "submit"

\* A record being submitted holds the request of its call.
CallsOwn ==
  \A t \in Threads : Submitting(t) =>
    /\ memory[call[t].buffer] = call[t].request
    /\ call[t].buffer \notin posted
    /\ \A u \in Threads \ {t} : call[u].buffer # call[t].buffer
    /\ \A w \in Workers : worker[w].buffer # call[t].buffer

\* A submitted record holds a request until its worker frees it.
WorkersOwn ==
  /\ \A b \in posted : memory[b] \in Requests
  /\ \A w \in Workers : Busy(w) =>
       /\ RequestOf(w) \in Requests
       /\ worker[w].buffer \notin posted
       /\ \A v \in Workers \ {w} : worker[v].buffer # worker[w].buffer

\* Whatever calls and completions come at once, a record is in the hands of
\* one call, of the thread pool, of one worker or of the buffer pool, never of
\* two, and while it is in use it is allocated and nobody fills it again.
OneOwner == PoolOwns /\ CallsOwn /\ WorkersOwn

\* An application that waits as it was told to wait, and then closes the handle
\* or asks again, never has a worker in a listing that is gone, restarted under
\* it, or advanced by another worker.
NoRace ==
  /\ \A w \in Workers : worker[w].step # "raced"
  /\ \A t \in Threads : call[t].step # "raced"

\* The requests made through one handle since its listing last began get its
\* batches one after the other, in the order in which they were made, whichever
\* workers carried them out.
InSequence ==
  \A h \in Handles : \A i \in DOMAIN taken[h] :
    status[taken[h][i]] = "done" => batch[taken[h][i]] = i

\* An event is set, and a procedure call queued, only for a request whose
\* outcome is in its status block.
SignalMeansDone ==
  /\ \A r \in signalled : status[r] = "done"
  /\ \A t \in Threads : \A i \in DOMAIN apcs[t] : status[apcs[t][i].queuedFor] = "done"

\* A request that was submitted is carried out, and whoever gave an event is
\* woken.
Answered ==
  \A r \in Requests :
    status[r] = "pending" ~> status[r] = "refused" \/ (status[r] = "done" /\ Over(r))

-----------------------------------------------------------------------------
(* Claims of the repository that these actions do not keep. *)

\* The completion signal of a request is documented as the routine, status block
\* and parameter "to be passed to the APC routine when it is invoked": the
\* procedure call of a request calls the routine of that request.
ApcOfItsRequest ==
  /\ \A c \in called : c[1] = c[2]
  /\ \A t \in Threads : call[t].step # "crashed"
=============================================================================
