------------------------- MODULE AsyncListingsProofs -------------------------
(***************************************************************************)
(* Proofs about AsyncListings for any number of threads, workers, handles, *)
(* requests and buffers and any size of the pool: the context record of a  *)
(* request belongs to one party at a time, a listing has one worker in it, *)
(* and what an application is told of a request is true.                   *)
(***************************************************************************)
EXTENDS AsyncListings, SequenceTheorems, TLAPS

\* Who names a buffer: a call between the allocation and the submission, and a
\* worker until it has freed the record.
Holding ==
  /\ \A t \in Threads :
       /\ Submitting(t) => call[t].buffer \in Buffers
       /\ ~Submitting(t) => call[t].buffer = NoBuffer
       /\ call[t].step \in {"allocate", "submit"} => call[t].request \in Requests
  /\ \A w \in Workers : Busy(w) <=> worker[w].buffer \in Buffers

IInv == TypeOK /\ Holding /\ OneOwner

-----------------------------------------------------------------------------
(* Steps that leave the buffers where they are. *)

\* A call may come and go as long as it names no buffer, and a worker may go on
\* to its next step.
SameHolders ==
  /\ UNCHANGED <<memory, pool, posted>>
  /\ \A t \in Threads :
       \/ call'[t] = call[t]
       \/ /\ ~Submitting(t)
          /\ call'[t].step # "submit"
          /\ call'[t].buffer = NoBuffer
          /\ call'[t].step = "allocate" => call'[t].request \in Requests
  /\ \A w \in Workers :
       /\ worker'[w].buffer = worker[w].buffer
       /\ worker'[w].step = "idle" <=> worker[w].step = "idle"

LEMMA SameHoldersOwn == IInv /\ SameHolders => Holding' /\ OneOwner'
<1> SUFFICES ASSUME IInv, SameHolders PROVE Holding' /\ OneOwner'
  OBVIOUS
<1>1. /\ memory' = memory /\ pool' = pool /\ posted' = posted
      /\ \A t \in Threads : /\ call'[t].buffer = call[t].buffer
                            /\ call'[t].step = "submit" <=> call[t].step = "submit"
                            /\ Submitting(t) => call'[t] = call[t]
  BY DEF SameHolders, IInv, Holding, Submitting
<1>2. \A w \in Workers : /\ worker'[w].buffer = worker[w].buffer
                         /\ worker'[w].step = "idle" <=> worker[w].step = "idle"
  BY DEF SameHolders
<1>3. Holding'
  BY <1>1, <1>2 DEF SameHolders, IInv, Holding, Submitting, Busy
<1>4. PoolOwns'
  BY <1>1, <1>2 DEF IInv, OneOwner, PoolOwns
<1>5. CallsOwn'
  BY <1>1, <1>2 DEF IInv, OneOwner, CallsOwn, Submitting
<1>6. WorkersOwn'
  BY <1>1, <1>2 DEF IInv, OneOwner, WorkersOwn, Busy, RequestOf
<1> QED BY <1>3, <1>4, <1>5, <1>6 DEF OneOwner

LEMMA InitInvariant == Init => IInv
<1> SUFFICES ASSUME Init PROVE IInv
  OBVIOUS
<1>1. NoCall \in Call /\ NoWork \in Work
  BY DEF Call, Work, NoCall, NoWork
<1>2. /\ call = [t \in Threads |-> NoCall] /\ worker = [w \in Workers |-> NoWork]
      /\ pool = <<>> /\ posted = {}
  BY DEF Init
<1>3. pool \in Seq(Buffers) /\ Len(pool) = 0 /\ Len(pool) <= PoolSize
  BY <1>2, SizeAssumption
<1>4. TypeOK
  <2>1. call \in [Threads -> Call] /\ worker \in [Workers -> Work]
    BY <1>1, <1>2
  <2>2. /\ taken \in [Handles -> Seq(Requests)]
        /\ apcs \in [Threads -> Seq([queuedFor : Requests, parameter : Buffers])]
    BY DEF Init
  <2>3. /\ order \in [Requests -> Order \cup {NoRequest}]
        /\ status \in [Requests -> Statuses]
        /\ memory \in [Buffers -> Contents]
    BY DEF Init, Statuses, Contents
  <2>4. /\ batch \in [Requests -> Nat] /\ listing \in [Handles -> Nat]
        /\ signalled \subseteq Requests /\ called \subseteq Requests \X Requests
        /\ stored \subseteq Handles /\ posted \subseteq Buffers
        /\ duplicates \subseteq Requests
    BY DEF Init
  <2> QED BY <1>3, <2>1, <2>2, <2>3, <2>4 DEF TypeOK
<1>5. Holding
  BY <1>2, NullAssumption DEF Holding, Submitting, Busy, NoCall, NoWork
<1>6. OneOwner
  BY <1>2 DEF OneOwner, PoolOwns, CallsOwn, WorkersOwn, Submitting, Busy, NoCall, NoWork
<1> QED BY <1>4, <1>5, <1>6 DEF IInv

LEMMA CloseInvariant ==
  ASSUME IInv, NEW t \in Threads, Close(t)
  PROVE  IInv'
<1>1. TypeOK'
  BY DEF Close, IInv, TypeOK
<1>2. SameHolders
  BY DEF Close, SameHolders
<1> QED BY <1>1, <1>2, SameHoldersOwn DEF IInv

\* A listing that is restarted keeps its type.
LEMMA RestartTypes ==
  ASSUME TypeOK, NEW h \in Handles, Restart(h) \/ UNCHANGED <<listing, taken>>
  PROVE  listing' \in [Handles -> Nat] /\ taken' \in [Handles -> Seq(Requests)]
<1>1. CASE Restart(h)
  <2>1. <<>> \in Seq(Requests) /\ 0 \in Nat
    OBVIOUS
  <2> QED BY <1>1, <2>1 DEF Restart, TypeOK
<1>2. CASE UNCHANGED <<listing, taken>>
  BY <1>2 DEF TypeOK
<1> QED BY <1>1, <1>2

LEMMA AskInvariant ==
  ASSUME IInv, NEW t \in Threads, Ask(t)
  PROVE  IInv'
<1> DEFINE r == CHOOSE unused \in Requests : unused \notin Asked
<1>1. r \in Requests
  BY DEF Ask, Asked
<1> HIDE DEF r
<1>2. PICK o \in Order, restart \in BOOLEAN :
        /\ o.handle \in stored
        /\ order' = [order EXCEPT ![r] = o]
        /\ IF restart THEN Restart(o.handle) ELSE UNCHANGED <<listing, taken>>
        /\ status' = [status EXCEPT ![r] = "pending"]
        /\ duplicates' = duplicates \cup {r}
        /\ call' = [call EXCEPT ![t] =
             [step |-> IF Disturbed(o.handle, restart) THEN "raced" ELSE "allocate",
              request |-> r, buffer |-> NoBuffer]]
  BY DEF Ask, r
<1>3. /\ call[t].step = "idle"
      /\ UNCHANGED <<batch, signalled, called, stored, memory, pool, apcs, posted, worker>>
  BY DEF Ask
<1>4. PICK step \in {"raced", "allocate"} :
        call' = [call EXCEPT ![t] = [step |-> step, request |-> r, buffer |-> NoBuffer]]
  BY <1>2
<1>5. TypeOK'
  <2>1. o.handle \in Handles
    BY <1>2 DEF Order
  <2>2. listing' \in [Handles -> Nat] /\ taken' \in [Handles -> Seq(Requests)]
    BY <1>2, <2>1, RestartTypes DEF IInv
  <2>3. [step |-> step, request |-> r, buffer |-> NoBuffer] \in Call
    BY <1>1 DEF Call
  <2>4. call' \in [Threads -> Call]
    BY <1>4, <2>3 DEF IInv, TypeOK
  <2>5. /\ order' \in [Requests -> Order \cup {NoRequest}]
        /\ status' \in [Requests -> Statuses]
        /\ duplicates' \subseteq Requests
    BY <1>1, <1>2 DEF IInv, TypeOK, Statuses
  <2> QED BY <1>3, <2>2, <2>4, <2>5 DEF IInv, TypeOK
<1>6. SameHolders
  <2>1. call \in [Threads -> Call]
    BY DEF IInv, TypeOK
  <2> QED BY <1>1, <1>3, <1>4, <2>1 DEF SameHolders, Submitting
<1> QED BY <1>5, <1>6, SameHoldersOwn DEF IInv

LEMMA AskInVainInvariant ==
  ASSUME IInv, NEW t \in Threads, AskInVain(t)
  PROVE  IInv'
<1>1. PICK h \in stored : Restart(h)
  BY DEF AskInVain
<1>2. call' = call \/ call' = [call EXCEPT ![t].step = "raced"]
  BY DEF AskInVain
<1>3. /\ call[t].step = "idle"
      /\ UNCHANGED <<order, status, batch, signalled, called, stored, memory, pool, apcs,
                     posted, worker, duplicates>>
  BY DEF AskInVain
<1>4. call \in [Threads -> Call] /\ call[t] \in Call
  BY DEF IInv, TypeOK
<1>5. TypeOK'
  <2>1. listing' \in [Handles -> Nat] /\ taken' \in [Handles -> Seq(Requests)]
    BY <1>1, RestartTypes DEF IInv, TypeOK
  <2>2. call' \in [Threads -> Call]
    BY <1>2, <1>4 DEF Call
  <2> QED BY <1>3, <2>1, <2>2 DEF IInv, TypeOK
<1>6. SameHolders
  <2>1. call[t].buffer = NoBuffer
    BY <1>3 DEF IInv, Holding, Submitting
  <2>2. call' = call \/ (/\ call'[t].step = "raced" /\ call'[t].buffer = NoBuffer
                         /\ \A u \in Threads \ {t} : call'[u] = call[u])
    BY <1>2, <1>4, <2>1 DEF Call
  <2> QED BY <1>3, <2>2 DEF SameHolders, Submitting
<1> QED BY <1>5, <1>6, SameHoldersOwn DEF IInv

\* A worker that goes on to another step keeps its buffer.
LEMMA NextStepTypes ==
  ASSUME IInv, NEW w \in Workers, NEW step \in {"signal", "queue", "free", "raced"},
         worker' = [worker EXCEPT ![w].step = step],
         Busy(w), UNCHANGED <<memory, pool, posted>>,
         \A t \in Threads : call'[t] = call[t]
  PROVE  worker' \in [Workers -> Work] /\ SameHolders
<1>1. worker \in [Workers -> Work] /\ worker[w] \in Work
  BY DEF IInv, TypeOK
<1>2. [worker[w] EXCEPT !.step = step] \in Work
  BY <1>1 DEF Work
<1>3. worker' = [worker EXCEPT ![w] = [worker[w] EXCEPT !.step = step]]
  OBVIOUS
<1>4. worker' \in [Workers -> Work]
  BY <1>1, <1>2, <1>3
<1>5. \A v \in Workers : /\ worker'[v].buffer = worker[v].buffer
                         /\ worker'[v].step = "idle" <=> worker[v].step = "idle"
  <2>1. \A v \in Workers \ {w} : worker'[v] = worker[v]
    BY <1>1
  <2>2. worker'[w].buffer = worker[w].buffer /\ worker'[w].step = step
    BY <1>1 DEF Work
  <2> QED BY <2>1, <2>2 DEF Busy
<1> QED BY <1>4, <1>5 DEF SameHolders

LEMMA AdvanceInvariant ==
  ASSUME IInv, NEW w \in Workers, Advance(w)
  PROVE  IInv'
<1>1. /\ worker[w].step = "advance"
      /\ UNCHANGED <<order, signalled, called, taken, stored, memory, pool, call, apcs,
                     posted, duplicates>>
  BY DEF Advance
<1>2. Busy(w) /\ \A t \in Threads : call'[t] = call[t]
  BY <1>1 DEF Busy
<1>3. PICK step \in {"signal", "raced"} : worker' = [worker EXCEPT ![w].step = step]
  BY DEF Advance
<1>4. worker' \in [Workers -> Work] /\ SameHolders
  BY <1>1, <1>2, <1>3, NextStepTypes
<1>5. /\ status' \in [Requests -> Statuses]
      /\ batch' \in [Requests -> Nat]
      /\ listing' \in [Handles -> Nat]
  <2>1. CASE UNCHANGED <<status, batch, listing>>
    BY <2>1 DEF IInv, TypeOK
  <2>2. CASE /\ HandleOf(w) \in stored
             /\ listing' = [listing EXCEPT ![HandleOf(w)] = @ + 1]
             /\ batch' = [batch EXCEPT ![RequestOf(w)] = listing[HandleOf(w)] + 1]
             /\ status' = [status EXCEPT ![RequestOf(w)] = "done"]
    <3>1. PICK n \in Nat : n = listing[HandleOf(w)] + 1
      BY <2>2 DEF IInv, TypeOK
    <3> QED BY <2>2, <3>1 DEF IInv, TypeOK, Statuses
  <2> QED BY <2>1, <2>2 DEF Advance
<1>6. TypeOK'
  BY <1>1, <1>4, <1>5 DEF IInv, TypeOK
<1> QED BY <1>4, <1>6, SameHoldersOwn DEF IInv

LEMMA SignalInvariant ==
  ASSUME IInv, NEW w \in Workers, Signal(w)
  PROVE  IInv'
<1>1. /\ worker[w].step = "signal"
      /\ worker' = [worker EXCEPT ![w].step = "queue"]
      /\ UNCHANGED <<order, status, batch, called, taken, listing, stored, memory, pool, call,
                     apcs, posted, duplicates>>
  BY DEF Signal
<1>2. Busy(w) /\ \A t \in Threads : call'[t] = call[t]
  BY <1>1 DEF Busy
<1>3. worker' \in [Workers -> Work] /\ SameHolders
  BY <1>1, <1>2, NextStepTypes
<1>4. RequestOf(w) \in Requests
  BY <1>2 DEF IInv, OneOwner, WorkersOwn
<1>5. signalled' \subseteq Requests
  BY <1>4 DEF Signal, IInv, TypeOK
<1>6. TypeOK'
  BY <1>1, <1>3, <1>5 DEF IInv, TypeOK
<1> QED BY <1>3, <1>6, SameHoldersOwn DEF IInv

LEMMA QueueApcInvariant ==
  ASSUME IInv, NEW w \in Workers, QueueApc(w)
  PROVE  IInv'
<1>1. /\ worker[w].step = "queue"
      /\ worker' = [worker EXCEPT ![w].step = "free"]
      /\ UNCHANGED <<order, status, batch, signalled, called, taken, listing, stored, memory,
                     pool, call, posted>>
  BY DEF QueueApc
<1>2. Busy(w) /\ \A t \in Threads : call'[t] = call[t]
  BY <1>1 DEF Busy
<1>3. worker' \in [Workers -> Work] /\ SameHolders
  BY <1>1, <1>2, NextStepTypes
<1>4. RequestOf(w) \in Requests /\ worker[w].buffer \in Buffers
  BY <1>2 DEF IInv, OneOwner, WorkersOwn, Holding
<1>5. /\ apcs' \in [Threads -> Seq([queuedFor : Requests, parameter : Buffers])]
      /\ duplicates' \subseteq Requests
  <2> DEFINE record == [queuedFor |-> RequestOf(w), parameter |-> worker[w].buffer]
             Record == [queuedFor : Requests, parameter : Buffers]
  <2>1. record \in Record
    BY <1>4
  <2>2. apcs \in [Threads -> Seq(Record)]
    BY DEF IInv, TypeOK
  <2>3. CASE UNCHANGED <<apcs, duplicates>>
    BY <2>3 DEF IInv, TypeOK
  <2>4. CASE /\ apcs' = [apcs EXCEPT ![order[RequestOf(w)].thread] = Append(@, record)]
             /\ duplicates' = duplicates \ {RequestOf(w)}
    <3> HIDE DEF record, Record
    <3>1. \A u \in Threads : Append(apcs[u], record) \in Seq(Record)
      BY <2>1, <2>2
    <3>2. apcs' \in [Threads -> Seq(Record)]
      BY <2>2, <2>4, <3>1
    <3> QED BY <2>4, <3>2 DEF IInv, TypeOK, Record
  <2> QED BY <2>3, <2>4 DEF QueueApc
<1>6. TypeOK'
  BY <1>1, <1>3, <1>5 DEF IInv, TypeOK
<1> QED BY <1>3, <1>6, SameHoldersOwn DEF IInv

LEMMA RunApcInvariant ==
  ASSUME IInv, NEW t \in Threads, RunApc(t)
  PROVE  IInv'
<1>1. /\ call[t].step = "idle" /\ apcs[t] # <<>>
      /\ apcs' = [apcs EXCEPT ![t] = Tail(@)]
      /\ UNCHANGED <<order, status, batch, signalled, taken, listing, stored, memory, pool,
                     posted, worker, duplicates>>
  BY DEF RunApc
<1> DEFINE Record == [queuedFor : Requests, parameter : Buffers]
<1>2. apcs \in [Threads -> Seq(Record)] /\ call \in [Threads -> Call] /\ call[t] \in Call
  BY DEF IInv, TypeOK
<1>3. apcs[t] \in Seq(Record)
  BY <1>2
<1>4. Head(apcs[t]) \in Record /\ Tail(apcs[t]) \in Seq(Record)
  <2> HIDE DEF Record
  <2> QED BY <1>1, <1>3, HeadTailProperties
<1>5. apcs' \in [Threads -> Seq(Record)]
  <2> HIDE DEF Record
  <2> QED BY <1>1, <1>2, <1>4
<1>6. /\ called' \subseteq Requests \X Requests
      /\ call' = call \/ call' = [call EXCEPT ![t].step = "crashed"]
  BY <1>4 DEF RunApc, IInv, TypeOK
<1>7. call' \in [Threads -> Call]
  <2>1. [call[t] EXCEPT !.step = "crashed"] \in Call
    BY <1>2 DEF Call
  <2> QED BY <1>2, <1>6, <2>1
<1>8. TypeOK'
  BY <1>1, <1>5, <1>6, <1>7 DEF IInv, TypeOK
<1>9. SameHolders
  <2>1. call[t].buffer = NoBuffer
    BY <1>1 DEF IInv, Holding, Submitting
  <2>2. call' = call \/ (/\ call'[t].step = "crashed" /\ call'[t].buffer = NoBuffer
                         /\ \A u \in Threads \ {t} : call'[u] = call[u])
    BY <1>2, <1>6, <2>1 DEF Call
  <2> QED BY <1>1, <2>2 DEF SameHolders, Submitting
<1> QED BY <1>8, <1>9, SameHoldersOwn DEF IInv

-----------------------------------------------------------------------------
(* Steps that hand a buffer on. *)

LEMMA SubmitInvariant ==
  ASSUME IInv, NEW t \in Threads, Submit(t)
  PROVE  IInv'
<1> DEFINE r == call[t].request
           b == call[t].buffer
<1>1. /\ Submitting(t)
      /\ call' = [call EXCEPT ![t] = NoCall]
      /\ UNCHANGED <<order, batch, signalled, called, listing, stored, memory, pool,
                     apcs, worker, duplicates>>
  BY DEF Submit, Submitting
<1>2. \/ /\ posted' = posted \cup {b}
         /\ taken' = [taken EXCEPT ![order[r].handle] = Append(@, r)]
         /\ status' = status
      \/ /\ status' = [status EXCEPT ![r] = "refused"]
         /\ posted' = posted /\ taken' = taken
  BY DEF Submit
<1>3. b \in Buffers /\ r \in Requests /\ memory[b] = r
  BY <1>1 DEF IInv, Holding, OneOwner, CallsOwn, Submitting
<1>4. call \in [Threads -> Call] /\ NoCall \in Call
  BY DEF IInv, TypeOK, Call, NoCall
<1>5. /\ call' \in [Threads -> Call]
      /\ call'[t] = NoCall
      /\ \A u \in Threads \ {t} : call'[u] = call[u]
  BY <1>1, <1>4
<1>6. TypeOK'
  <2>1. taken' \in [Handles -> Seq(Requests)]
    <3>1. taken \in [Handles -> Seq(Requests)]
      BY DEF IInv, TypeOK
    <3>2. \A h \in Handles : Append(taken[h], r) \in Seq(Requests)
      BY <1>3, <3>1
    <3> QED BY <1>2, <3>1, <3>2
  <2>2. status' \in [Requests -> Statuses] /\ posted' \subseteq Buffers
    BY <1>2, <1>3 DEF IInv, TypeOK, Statuses
  <2> QED BY <1>1, <1>5, <2>1, <2>2 DEF IInv, TypeOK
<1>7. NoCall.step = "idle" /\ NoCall.buffer = NoBuffer
  BY DEF NoCall
<1>8. Holding'
  BY <1>1, <1>5, <1>7 DEF IInv, Holding, Submitting, Busy
<1>9. posted' \subseteq posted \cup {b} /\ posted \subseteq Buffers
  BY <1>2 DEF IInv, TypeOK
<1>10. PoolOwns'
  <2>1. \A i \in DOMAIN pool : pool[i] # b /\ pool[i] # NoBuffer
    <3>1. \A i \in DOMAIN pool : pool[i] \in Buffers
      BY DEF IInv, TypeOK
    <3> QED BY <3>1, NullAssumption DEF IInv, OneOwner, PoolOwns
  <2> QED BY <1>1, <1>5, <1>7, <1>9, <2>1 DEF IInv, OneOwner, PoolOwns
<1>11. CallsOwn'
  <2>1. \A u \in Threads \ {t} : Submitting(u) => call[u].buffer # b /\ call[u].buffer # NoBuffer
    BY NullAssumption, <1>1 DEF IInv, OneOwner, CallsOwn, Holding
  <2> QED BY <1>1, <1>5, <1>7, <1>9, <2>1 DEF IInv, OneOwner, CallsOwn, Submitting
<1>12. WorkersOwn'
  <2>1. \A w \in Workers : worker[w].buffer # b
    BY <1>1 DEF IInv, OneOwner, CallsOwn
  <2> QED BY <1>1, <1>3, <1>9, <2>1 DEF IInv, OneOwner, WorkersOwn, Busy, RequestOf
<1> QED BY <1>6, <1>8, <1>10, <1>11, <1>12 DEF IInv, OneOwner

LEMMA StartInvariant ==
  ASSUME IInv, NEW w \in Workers, Start(w)
  PROVE  IInv'
<1>1. PICK b \in posted :
        /\ posted' = posted \ {b}
        /\ worker' = [worker EXCEPT ![w] = [step |-> "advance", buffer |-> b]]
  BY DEF Start
<1>2. /\ worker[w].step = "idle"
      /\ UNCHANGED <<order, status, batch, signalled, called, taken, listing, stored, memory,
                     pool, call, apcs, duplicates>>
  BY DEF Start
<1>3. b \in Buffers /\ memory[b] \in Requests
  BY DEF IInv, TypeOK, OneOwner, WorkersOwn
<1>4. worker \in [Workers -> Work] /\ [step |-> "advance", buffer |-> b] \in Work
  BY <1>3 DEF IInv, TypeOK, Work
<1>5. /\ worker' \in [Workers -> Work]
      /\ worker'[w].step = "advance" /\ worker'[w].buffer = b
      /\ \A v \in Workers \ {w} : worker'[v] = worker[v]
  BY <1>1, <1>4
<1>6. TypeOK'
  BY <1>1, <1>2, <1>5 DEF IInv, TypeOK
<1>7. Holding'
  BY <1>2, <1>3, <1>5 DEF IInv, Holding, Submitting, Busy
<1>8. PoolOwns'
  BY <1>1, <1>2, <1>5 DEF IInv, OneOwner, PoolOwns
<1>9. CallsOwn'
  BY <1>1, <1>2, <1>5 DEF IInv, OneOwner, CallsOwn, Submitting
<1>10. WorkersOwn'
  <2>1. \A v \in Workers : Busy(v) => worker[v].buffer # b
    BY DEF IInv, OneOwner, WorkersOwn
  <2>2. \A v \in Workers \ {w} : worker[v].buffer # b
    BY <1>3, <2>1 DEF IInv, Holding
  <2> QED BY <1>1, <1>2, <1>3, <1>5, <2>2 DEF IInv, OneOwner, WorkersOwn, Busy, RequestOf
<1> QED BY <1>6, <1>7, <1>8, <1>9, <1>10 DEF IInv, OneOwner

LEMMA FreeBufferInvariant ==
  ASSUME IInv, NEW w \in Workers, FreeBuffer(w)
  PROVE  IInv'
<1>1. PICK b : b = worker[w].buffer
  OBVIOUS
<1>2. /\ worker[w].step = "free" /\ Busy(w)
      /\ worker' = [worker EXCEPT ![w] = NoWork]
      /\ UNCHANGED <<order, status, batch, signalled, called, taken, listing, stored, call,
                     apcs, posted, duplicates>>
  BY DEF FreeBuffer, Busy
<1>3. /\ b \in Buffers /\ b \notin posted /\ memory[b] \in Requests
      /\ \A v \in Workers \ {w} : worker[v].buffer # b
      /\ \A t \in Threads : call[t].buffer # b
  <2>1. b \in Buffers /\ b # NoBuffer
    BY <1>1, <1>2, NullAssumption DEF IInv, Holding
  <2>2. \A t \in Threads : call[t].buffer # b
    BY <1>1, <2>1 DEF IInv, Holding, OneOwner, CallsOwn
  <2> QED BY <1>1, <1>2, <2>1, <2>2 DEF IInv, OneOwner, WorkersOwn, RequestOf
<1>4. NoWork \in Work /\ NoWork.step = "idle" /\ NoWork.buffer = NoBuffer
  BY DEF NoWork, Work
<1>5. /\ worker' \in [Workers -> Work]
      /\ worker'[w] = NoWork
      /\ \A v \in Workers \ {w} : worker'[v] = worker[v]
  BY <1>2, <1>4 DEF IInv, TypeOK
<1>6. /\ pool \in Seq(Buffers) /\ Len(pool) \in Nat /\ Len(pool) <= PoolSize
      /\ memory \in [Buffers -> Contents]
      /\ \A i \in DOMAIN pool : pool[i] # b
  BY <1>1 DEF IInv, TypeOK, OneOwner, PoolOwns
<1>7. \/ memory' = [memory EXCEPT ![b] = Deleted] /\ pool' = pool
      \/ memory' = memory /\ pool' = Append(pool, b) /\ Len(pool) < PoolSize
  BY <1>1, <1>6, SizeAssumption DEF FreeBuffer
<1>8. memory' \in [Buffers -> Contents] /\ \A c \in Buffers \ {b} : memory'[c] = memory[c]
  BY <1>3, <1>6, <1>7 DEF Contents
<1>9. /\ pool' \in Seq(Buffers) /\ Len(pool') <= PoolSize
      /\ \A i \in DOMAIN pool' : \/ i \in DOMAIN pool /\ pool'[i] = pool[i]
                                 \/ i = Len(pool) + 1 /\ pool'[i] = b /\ memory' = memory
      /\ Len(pool) + 1 \notin DOMAIN pool
  BY <1>3, <1>6, <1>7, SizeAssumption
<1>10. TypeOK'
  BY <1>2, <1>5, <1>8, <1>9 DEF IInv, TypeOK
<1>11. Holding'
  BY <1>2, <1>4, <1>5, NullAssumption DEF IInv, Holding, Submitting, Busy
<1>12. PoolOwns'
  <2>1. \A i \in DOMAIN pool : pool[i] \in Buffers /\ pool[i] # NoBuffer
    BY <1>6, NullAssumption
  <2>2. \A i, j \in DOMAIN pool' : pool'[i] = pool'[j] => i = j
    BY <1>6, <1>9 DEF IInv, OneOwner, PoolOwns
  <2>3. \A i \in DOMAIN pool' : pool'[i] \notin posted /\ memory'[pool'[i]] # Deleted
    <3>1. memory[b] # Deleted
      BY <1>3, NullAssumption
    <3> QED BY <1>3, <1>6, <1>8, <1>9, <2>1, <3>1 DEF IInv, OneOwner, PoolOwns
  <2>4. \A i \in DOMAIN pool', t \in Threads : call[t].buffer # pool'[i]
    BY <1>3, <1>9 DEF IInv, OneOwner, PoolOwns
  <2>5. \A i \in DOMAIN pool', v \in Workers : worker'[v].buffer # pool'[i]
    BY <1>3, <1>4, <1>5, <1>9, <2>1, NullAssumption DEF IInv, OneOwner, PoolOwns
  <2> QED BY <1>2, <2>2, <2>3, <2>4, <2>5 DEF PoolOwns
<1>13. CallsOwn'
  <2>1. \A t \in Threads : Submitting(t) => call[t].buffer \in Buffers \ {b}
    BY <1>3 DEF IInv, Holding
  <2>2. \A t \in Threads : Submitting(t) => call[t].buffer # NoBuffer
    BY <2>1, NullAssumption
  <2> QED BY <1>2, <1>4, <1>5, <1>8, <2>1, <2>2 DEF IInv, OneOwner, CallsOwn, Submitting
<1>14. WorkersOwn'
  <2>1. \A c \in posted : c \in Buffers \ {b}
    BY <1>3 DEF IInv, TypeOK
  <2>2. \A v \in Workers \ {w} : Busy(v) => worker[v].buffer \in Buffers \ {b}
    BY <1>3 DEF IInv, Holding
  <2>3. \A v \in Workers : Busy(v) => worker[v].buffer # NoBuffer
    BY NullAssumption DEF IInv, Holding
  <2> QED BY <1>2, <1>4, <1>5, <1>8, <2>1, <2>2, <2>3
          DEF IInv, OneOwner, WorkersOwn, Busy, RequestOf
<1> QED BY <1>10, <1>11, <1>12, <1>13, <1>14 DEF IInv, OneOwner

\* Buffers that are there to be taken: each once, and in nobody's hands.
Available(buffers) ==
  /\ buffers \in Seq(Buffers) /\ Len(buffers) \in Nat \ {0} /\ Len(buffers) <= PoolSize
  /\ \A i, j \in 1 .. Len(buffers) : buffers[i] = buffers[j] => i = j
  /\ \A i \in 1 .. Len(buffers) :
       /\ buffers[i] \notin posted
       /\ \A t \in Threads : call[t].buffer # buffers[i]
       /\ \A w \in Workers : worker[w].buffer # buffers[i]

\* Both a pool that is not empty and new buffers are.
LEMMA PoolAvailable ==
  ASSUME IInv, NEW available \in IF pool = <<>> THEN MoreBuffers ELSE {pool}
  PROVE  Available(available)
<1>1. CASE pool # <<>>
  <2>1. available = pool
    BY <1>1
  <2>2. pool \in Seq(Buffers) /\ Len(pool) \in Nat \ {0} /\ DOMAIN pool = 1 .. Len(pool)
    BY <1>1 DEF IInv, TypeOK
  <2> QED BY <2>1, <2>2 DEF Available, IInv, TypeOK, OneOwner, PoolOwns
<1>2. CASE pool = <<>>
  <2>1. PICK count \in Nat \ {0} :
          /\ count <= PoolSize
          /\ available \in [1 .. count -> {b \in Buffers : memory[b] = Deleted}]
          /\ \A i, j \in 1 .. count : available[i] = available[j] => i = j
    <3> DEFINE count == IF Granularity < PoolSize THEN Granularity ELSE PoolSize
    <3>1. count \in Nat \ {0} /\ count <= PoolSize
      BY SizeAssumption
    <3>2. available \in MoreBuffers
      BY <1>2
    <3>3. /\ available \in [1 .. count -> {b \in Buffers : memory[b] = Deleted}]
          /\ \A i, j \in 1 .. count : available[i] = available[j] => i = j
      BY <3>2 DEF MoreBuffers
    <3> HIDE DEF count
    <3> QED BY <3>1, <3>3
  <2>2. available \in Seq(Buffers) /\ Len(available) = count
    BY <2>1
  <2>3. ASSUME NEW i \in 1 .. count
        PROVE  /\ available[i] \notin posted
               /\ \A t \in Threads : call[t].buffer # available[i]
               /\ \A w \in Workers : worker[w].buffer # available[i]
    <3>1. PICK b \in Buffers : b = available[i] /\ memory[b] = Deleted
      BY <2>1
    <3>2. memory[b] \notin Requests /\ b # NoBuffer
      BY <3>1, NullAssumption
    <3>3. b \notin posted
      BY <3>2 DEF IInv, OneOwner, WorkersOwn
    <3>4. \A t \in Threads : call[t].buffer # b
      BY <3>2 DEF IInv, Holding, OneOwner, CallsOwn, Submitting
    <3>5. \A w \in Workers : worker[w].buffer # b
      BY <3>1, <3>2 DEF IInv, Holding, OneOwner, WorkersOwn, RequestOf
    <3> QED BY <3>1, <3>3, <3>4, <3>5
  <2> QED BY <2>1, <2>2, <2>3 DEF Available
<1> QED BY <1>1, <1>2

LEMMA AllocateInvariant ==
  ASSUME IInv, NEW t \in Threads, Allocate(t)
  PROVE  IInv'
<1>1. PICK available \in IF pool = <<>> THEN MoreBuffers ELSE {pool} :
        /\ pool' = SubSeq(available, 1, Len(available) - 1)
        /\ memory' = [WithAllocated(available)
                        EXCEPT ![available[Len(available)]] = call[t].request]
        /\ call' = [call EXCEPT ![t].step = "submit",
                                ![t].buffer = available[Len(available)]]
  BY DEF Allocate
<1>2. Available(available)
  BY PoolAvailable
<1>3. PICK n \in Nat \ {0} : n = Len(available)
  BY <1>2 DEF Available
<1>4. PICK b \in Buffers : b = available[n]
  BY <1>2, <1>3 DEF Available
<1>5. PICK r \in Requests : r = call[t].request
  BY DEF Allocate, IInv, Holding
<1>6. /\ call[t].step = "allocate"
      /\ UNCHANGED <<order, status, batch, signalled, called, taken, listing, stored,
                     apcs, posted, worker, duplicates>>
  BY DEF Allocate
<1>7. /\ b \notin posted
      /\ \A u \in Threads : call[u].buffer # b
      /\ \A w \in Workers : worker[w].buffer # b
      /\ b # NoBuffer
  BY <1>2, <1>3, <1>4, NullAssumption DEF Available
<1>8. /\ call' \in [Threads -> Call]
      /\ call'[t].step = "submit" /\ call'[t].buffer = b /\ call'[t].request = r
      /\ \A u \in Threads \ {t} : call'[u] = call[u]
  <2>1. call \in [Threads -> Call] /\ call[t] \in Call
    BY DEF IInv, TypeOK
  <2>2. [call[t] EXCEPT !.step = "submit", !.buffer = b] \in Call
    BY <2>1, <1>4 DEF Call
  <2>3. call' = [call EXCEPT ![t] = [call[t] EXCEPT !.step = "submit", !.buffer = b]]
    BY <1>1, <1>3, <1>4
  <2>4. call' \in [Threads -> Call]
    BY <2>1, <2>2, <2>3
  <2> QED BY <2>1, <2>3, <2>4, <1>5 DEF Call
<1>9. /\ pool' \in Seq(Buffers) /\ Len(pool') <= PoolSize
      /\ DOMAIN pool' = 1 .. n - 1
      /\ \A i \in 1 .. n - 1 : pool'[i] = available[i]
  BY <1>1, <1>2, <1>3, SizeAssumption DEF Available
<1>10. /\ memory' \in [Buffers -> Contents]
       /\ memory'[b] = r
       /\ \A c \in Buffers \ {b} : \/ memory'[c] = memory[c]
                                   \/ memory'[c] = Fresh /\ \E i \in 1 .. n : available[i] = c
       /\ \A i \in 1 .. n : memory'[available[i]] # Deleted
  <2> DEFINE allocated == WithAllocated(available)
  <2>1. DOMAIN available = 1 .. n
    BY <1>2, <1>3 DEF Available
  <2>2. /\ allocated \in [Buffers -> Contents]
        /\ \A c \in Buffers : \/ allocated[c] = memory[c]
                              \/ allocated[c] = Fresh /\ \E i \in 1 .. n : available[i] = c
        /\ \A c \in Buffers : (\E i \in 1 .. n : available[i] = c) => allocated[c] # Deleted
    BY <2>1, NullAssumption DEF WithAllocated, IInv, TypeOK, Contents
  <2>3. memory' = [allocated EXCEPT ![b] = r] /\ r # Deleted /\ r \in Contents
    BY <1>1, <1>3, <1>4, <1>5, NullAssumption DEF Contents
  <2>4. \A i \in 1 .. n : available[i] \in Buffers
    BY <1>2, <1>3 DEF Available
  <2> HIDE DEF allocated
  <2> QED BY <2>2, <2>3, <2>4
<1>11. TypeOK'
  BY <1>6, <1>8, <1>9, <1>10 DEF IInv, TypeOK
<1>12. Holding'
  BY <1>4, <1>6, <1>8 DEF IInv, Holding, Submitting, Busy
<1>13. PoolOwns'
  <2>1. \A i \in 1 .. n - 1 : i \in 1 .. n /\ i # n
    BY <1>3
  <2>2. \A i, j \in 1 .. n : available[i] = available[j] => i = j
    BY <1>2, <1>3 DEF Available
  <2>3. \A i \in 1 .. n - 1 : available[i] # b
    BY <1>3, <1>4, <2>1, <2>2
  <2>4. \A i \in 1 .. n : /\ available[i] \notin posted
                          /\ \A u \in Threads : call[u].buffer # available[i]
                          /\ \A w \in Workers : worker[w].buffer # available[i]
    BY <1>2, <1>3 DEF Available
  <2>5. \A i \in 1 .. n - 1, u \in Threads : call'[u].buffer # available[i]
    BY <1>8, <2>1, <2>3, <2>4
  <2>6. \A i, j \in 1 .. n - 1 : available[i] = available[j] => i = j
    BY <2>1, <2>2
  <2> QED BY <1>6, <1>9, <1>10, <2>1, <2>4, <2>5, <2>6 DEF PoolOwns
<1>14. \A c \in Buffers \ {b} : memory[c] \in Requests /\ (\A i \in 1 .. n : available[i] # c)
                                  => memory'[c] = memory[c]
  BY <1>10
<1>15. CallsOwn'
  <2>1. ASSUME NEW u \in Threads \ {t}, Submitting(u)
        PROVE  /\ call[u].buffer \in Buffers \ {b}
               /\ memory'[call[u].buffer] = call[u].request
    <3>1. /\ call[u].buffer \in Buffers \ {b} /\ call[u].request \in Requests
          /\ memory[call[u].buffer] = call[u].request
      BY <1>7, <2>1 DEF IInv, Holding, OneOwner, CallsOwn, Submitting
    <3>2. \A i \in 1 .. n : available[i] # call[u].buffer
      BY <1>2, <1>3 DEF Available
    <3> QED BY <1>14, <3>1, <3>2
  <2>2. ASSUME NEW u \in Threads, call'[u].step = "submit"
        PROVE  /\ memory'[call'[u].buffer] = call'[u].request
               /\ call'[u].buffer \notin posted
               /\ \A v \in Threads \ {u} : call'[v].buffer # call'[u].buffer
               /\ \A w \in Workers : worker[w].buffer # call'[u].buffer
    <3>1. CASE u = t
      BY <1>7, <1>8, <1>10, <3>1
    <3>2. CASE u # t
      BY <1>7, <1>8, <2>1, <2>2, <3>2 DEF IInv, OneOwner, CallsOwn, Submitting
    <3> QED BY <3>1, <3>2
  <2> QED BY <1>6, <2>2 DEF CallsOwn, Submitting
<1>16. WorkersOwn'
  <2>1. \A c \in posted : c \in Buffers \ {b} /\ \A i \in 1 .. n : available[i] # c
    BY <1>2, <1>3, <1>7 DEF Available, IInv, TypeOK
  <2>2. \A w \in Workers : Busy(w) => /\ worker[w].buffer \in Buffers \ {b}
                                      /\ \A i \in 1 .. n : available[i] # worker[w].buffer
    BY <1>2, <1>3, <1>7 DEF Available, IInv, Holding
  <2>3. \A c \in posted : memory'[c] \in Requests
    BY <1>14, <2>1 DEF IInv, OneOwner, WorkersOwn
  <2>4. \A w \in Workers : Busy(w) => memory'[worker[w].buffer] \in Requests
    BY <1>14, <2>2 DEF IInv, OneOwner, WorkersOwn, RequestOf
  <2> QED BY <1>6, <2>3, <2>4 DEF IInv, OneOwner, WorkersOwn, Busy, RequestOf
<1> QED BY <1>11, <1>12, <1>13, <1>15, <1>16 DEF IInv, OneOwner

-----------------------------------------------------------------------------

LEMMA NextInvariant == IInv /\ [Next]_vars => IInv'
<1> SUFFICES ASSUME IInv, [Next]_vars PROVE IInv'
  OBVIOUS
<1>1. CASE UNCHANGED vars
  <2>1. TypeOK'
    BY <1>1 DEF vars, IInv, TypeOK
  <2>2. SameHolders
    BY <1>1 DEF vars, SameHolders
  <2> QED BY <2>1, <2>2, SameHoldersOwn DEF IInv
<1>2. ASSUME NEW t \in Threads, Ask(t) \/ AskInVain(t) \/ CallStep(t) \/ RunApc(t) \/ Close(t)
      PROVE  IInv'
  BY <1>2, AskInvariant, AskInVainInvariant, AllocateInvariant, SubmitInvariant,
     RunApcInvariant, CloseInvariant DEF CallStep
<1>3. ASSUME NEW w \in Workers, WorkerStep(w)
      PROVE  IInv'
  BY <1>3, StartInvariant, AdvanceInvariant, SignalInvariant, QueueApcInvariant,
     FreeBufferInvariant DEF WorkerStep
<1> QED BY <1>1, <1>2, <1>3 DEF Next

\* Every variable of the asynchronous listings keeps its type; in particular the
\* pool never holds more buffers than it has room for.
THEOREM AsyncTypeOK == Spec => []TypeOK
<1>1. IInv => TypeOK
  BY DEF IInv
<1> QED BY <1>1, InitInvariant, NextInvariant, PTL DEF Spec

\* The context record of a request belongs to one call, to the thread pool, to
\* one worker or to the buffer pool, and nobody fills or deletes it under its
\* owner, for any number of requests at once and any size of the pool.
THEOREM RecordsHaveOneOwner == Spec => []OneOwner
<1>1. IInv => OneOwner
  BY DEF IInv
<1> QED BY <1>1, InitInvariant, NextInvariant, PTL DEF Spec

-----------------------------------------------------------------------------
(* Requests under way.                                                      *)

\* A call that has a request which nobody else knows of yet.
Holds(t) == call[t].step \in {"allocate", "submit"}

Advances(w) == worker[w].step = "advance"

\* What is known of a request that is still to be carried out.
Waiting(r) == status[r] = "pending" /\ r \notin signalled

Phases ==
  /\ \A t \in Threads : Holds(t) => Waiting(call[t].request)
  /\ \A b \in posted : Waiting(memory[b])
  /\ \A w \in Workers : Advances(w) => Waiting(RequestOf(w))
  /\ \A w \in Workers : worker[w].step \in {"signal", "queue", "free"} =>
       status[RequestOf(w)] = "done"

\* Nobody has the request of another.
Apart ==
  /\ \A t, u \in Threads : Holds(t) /\ Holds(u) /\ call[t].request = call[u].request => t = u
  /\ \A b, c \in posted : memory[b] = memory[c] => b = c
  /\ \A v, w \in Workers : Advances(v) /\ Advances(w) /\ RequestOf(v) = RequestOf(w) => v = w
  /\ \A t \in Threads, b \in posted : Holds(t) => memory[b] # call[t].request
  /\ \A t \in Threads, w \in Workers : Holds(t) /\ Advances(w) => RequestOf(w) # call[t].request
  /\ \A b \in posted, w \in Workers : Advances(w) => RequestOf(w) # memory[b]

UnderWay(r) == status[r] # "unused" /\ ~Over(r)

\* The application keeps to one request of a handle, and to open handles.
OneAtATime ==
  /\ \A r \in Requests : status[r] # "unused" => order[r] \in Order
  /\ \A r, s \in Requests :
       UnderWay(r) /\ UnderWay(s) /\ order[r].handle = order[s].handle => r = s
  /\ \A r \in Requests : UnderWay(r) => order[r].handle \in stored

\* The requests of a listing are its own, all but the last one carried out.
TakenSound ==
  \A h \in Handles : \A i \in DOMAIN taken[h] :
    /\ order[taken[h][i]] \in Order
    /\ order[taken[h][i]].handle = h
    /\ status[taken[h][i]] = "done" \/ (Waiting(taken[h][i]) /\ i = Len(taken[h]))
    /\ \A t \in Threads : Holds(t) => call[t].request # taken[h][i]

LastOf(h, r) == taken[h] # <<>> /\ taken[h][Len(taken[h])] = r

\* The listing counts the requests that were carried out.
ListingCounts ==
  \A h \in Handles :
    listing[h] = IF taken[h] # <<>> /\ status[taken[h][Len(taken[h])]] = "pending"
                 THEN Len(taken[h]) - 1 ELSE Len(taken[h])

\* What is submitted is the last request of its listing.
LastIsSubmitted ==
  /\ \A b \in posted : LastOf(order[memory[b]].handle, memory[b])
  /\ \A w \in Workers : Advances(w) => LastOf(HandleOf(w), RequestOf(w))

\* The inductive invariant of what an application is told.
JInv ==
  /\ IInv
  /\ Phases /\ Apart /\ OneAtATime
  /\ TakenSound /\ ListingCounts /\ LastIsSubmitted
  /\ NoRace /\ InSequence /\ SignalMeansDone

-----------------------------------------------------------------------------
(* Parts of a step. *)

\* Whoever has a request had it before, none of X.
FewerHolders(X) ==
  /\ \A t \in Threads : call'[t].step \in {"allocate", "submit"} =>
       Holds(t) /\ call'[t].request = call[t].request /\ call[t].request \notin X
  /\ \A b \in posted' : b \in posted /\ memory'[b] = memory[b] /\ memory[b] \notin X
  /\ \A w \in Workers : worker'[w].step = "advance" =>
       Advances(w) /\ memory'[worker'[w].buffer] = RequestOf(w) /\ RequestOf(w) \notin X

\* Requests but those of X wait on.
StillWaiting(X) ==
  \A r \in Requests \ X : status[r] = "pending" /\ r \notin signalled =>
                            status'[r] = "pending" /\ r \notin signalled'

LaterDone ==
  \A w \in Workers : worker'[w].step \in {"signal", "queue", "free"} =>
    status'[memory'[worker'[w].buffer]] = "done"

\* A request that is answered stays so.
Onward ==
  /\ \A r \in Requests : /\ status'[r] = "unused" <=> status[r] = "unused"
                         /\ status[r] # "pending" => status'[r] = status[r]
  /\ signalled \subseteq signalled'

\* Everybody has a request.
LEMMA HeldRequests ==
  ASSUME JInv
  PROVE  /\ \A t \in Threads : Holds(t) => call[t].request \in Requests
         /\ \A b \in posted : memory[b] \in Requests
         /\ \A w \in Workers : Busy(w) => RequestOf(w) \in Requests
         /\ \A w \in Workers : Advances(w) => RequestOf(w) \in Requests
BY DEF JInv, IInv, Holding, Holds, OneOwner, WorkersOwn, Busy, Advances

LEMMA HoldersApart ==
  ASSUME JInv, NEW X, FewerHolders(X), StillWaiting(X), LaterDone
  PROVE  Phases' /\ Apart'
<1>1. Phases'
  <2>1. ASSUME NEW t \in Threads, call'[t].step \in {"allocate", "submit"}
        PROVE  status'[call'[t].request] = "pending" /\ call'[t].request \notin signalled'
    BY <2>1, HeldRequests DEF FewerHolders, StillWaiting, JInv, Phases, Waiting
  <2>2. ASSUME NEW b \in posted'
        PROVE  status'[memory'[b]] = "pending" /\ memory'[b] \notin signalled'
    BY <2>2, HeldRequests DEF FewerHolders, StillWaiting, JInv, Phases, Waiting
  <2>3. ASSUME NEW w \in Workers, worker'[w].step = "advance"
        PROVE  /\ status'[memory'[worker'[w].buffer]] = "pending"
               /\ memory'[worker'[w].buffer] \notin signalled'
    BY <2>3, HeldRequests DEF FewerHolders, StillWaiting, JInv, Phases, Waiting
  <2> QED BY <2>1, <2>2, <2>3 DEF Phases, Holds, Advances, RequestOf, Waiting, LaterDone
<1>2. Apart'
  BY DEF JInv, Apart, FewerHolders, Holds, Advances, RequestOf
<1> QED BY <1>1, <1>2

\* What is over stays over.
LEMMA OverStays ==
  ASSUME Onward, UNCHANGED <<order, stored>>, OneAtATime
  PROVE  OneAtATime'
<1>1. ASSUME NEW r \in Requests, status'[r] # "unused", ~Over(r)' PROVE UnderWay(r)
  BY <1>1 DEF Onward, Over, UnderWay
<1> QED BY <1>1 DEF Onward, OneAtATime, UnderWay

\* A step that carries no request out and submits none.
Steady ==
  /\ UNCHANGED <<order, status, batch, taken, listing>>
  /\ \A r \in signalled' : r \in signalled \/ status[r] = "done"
  /\ signalled \subseteq signalled'

LEMMA SteadyListings ==
  ASSUME JInv, Steady, FewerHolders({})
  PROVE  TakenSound' /\ ListingCounts' /\ LastIsSubmitted' /\ InSequence'
<1>1. TakenSound'
  <2> SUFFICES ASSUME NEW h \in Handles, NEW i \in DOMAIN taken[h]
               PROVE  /\ order[taken[h][i]] \in Order
                      /\ order[taken[h][i]].handle = h
                      /\ \/ status[taken[h][i]] = "done"
                         \/ /\ status[taken[h][i]] = "pending" /\ taken[h][i] \notin signalled'
                            /\ i = Len(taken[h])
                      /\ \A t \in Threads : call'[t].step \in {"allocate", "submit"} =>
                           call'[t].request # taken[h][i]
    BY DEF Steady, TakenSound, Waiting, Holds
  <2>1. /\ order[taken[h][i]] \in Order
        /\ order[taken[h][i]].handle = h
        /\ status[taken[h][i]] = "done" \/ (Waiting(taken[h][i]) /\ i = Len(taken[h]))
        /\ \A t \in Threads : Holds(t) => call[t].request # taken[h][i]
    BY DEF JInv, TakenSound
  <2> QED BY <2>1 DEF Steady, FewerHolders, Waiting
<1>2. ListingCounts'
  BY DEF JInv, Steady, ListingCounts
<1>3. LastIsSubmitted'
  BY DEF JInv, Steady, FewerHolders, LastIsSubmitted, LastOf, RequestOf, HandleOf, Advances
<1>4. InSequence'
  BY DEF JInv, Steady, InSequence
<1> QED BY <1>1, <1>2, <1>3, <1>4

LEMMA SteadyStep ==
  ASSUME JInv, IInv', Steady, FewerHolders({}), LaterDone, stored' = stored,
         \A w \in Workers : worker'[w].step # "raced",
         \A t \in Threads : call'[t].step # "raced",
         \A t \in Threads : \A i \in DOMAIN apcs'[t] : status[apcs'[t][i].queuedFor] = "done"
  PROVE  JInv'
<1>1. StillWaiting({}) /\ Onward
  BY DEF Steady, StillWaiting, Onward
<1>2. Phases' /\ Apart'
  BY <1>1, HoldersApart
<1>3. OneAtATime'
  BY <1>1, OverStays DEF JInv, Steady
<1>4. NoRace' /\ SignalMeansDone'
  BY DEF NoRace, SignalMeansDone, Steady, JInv
<1> QED BY <1>2, <1>3, <1>4, SteadyListings DEF JInv

LEMMA InitTells == Init => JInv
<1> SUFFICES ASSUME Init PROVE JInv
  OBVIOUS
<1>1. /\ call = [t \in Threads |-> NoCall] /\ worker = [w \in Workers |-> NoWork]
      /\ posted = {} /\ status = [r \in Requests |-> "unused"]
      /\ taken = [h \in Handles |-> <<>>] /\ listing = [h \in Handles |-> 0]
      /\ signalled = {} /\ apcs = [t \in Threads |-> <<>>]
  BY DEF Init
<1>2. Phases /\ Apart /\ NoRace
  BY <1>1 DEF Phases, Apart, NoRace, Holds, Advances, NoCall, NoWork
<1>3. OneAtATime
  BY <1>1 DEF OneAtATime, UnderWay
<1>4. \A h \in Handles : taken[h] = <<>> /\ DOMAIN taken[h] = {} /\ Len(taken[h]) = 0
  BY <1>1
<1>5. TakenSound /\ ListingCounts /\ InSequence
  BY <1>1, <1>4 DEF TakenSound, ListingCounts, InSequence
<1>6. LastIsSubmitted /\ SignalMeansDone
  BY <1>1 DEF LastIsSubmitted, SignalMeansDone, Advances, NoWork
<1> QED BY <1>2, <1>3, <1>5, <1>6, InitInvariant DEF JInv

LEMMA AllocateTells ==
  ASSUME JInv, NEW t \in Threads, Allocate(t)
  PROVE  JInv'
<1>1. PICK available \in IF pool = <<>> THEN MoreBuffers ELSE {pool} :
        /\ memory' = [WithAllocated(available)
                        EXCEPT ![available[Len(available)]] = call[t].request]
        /\ call' = [call EXCEPT ![t].step = "submit",
                                ![t].buffer = available[Len(available)]]
  BY DEF Allocate
<1>2. Available(available)
  BY PoolAvailable DEF JInv
<1>3. PICK n \in Nat \ {0} : n = Len(available)
  BY <1>2 DEF Available
<1>4. PICK b \in Buffers :
        b = available[n] /\ b \notin posted /\ \A w \in Workers : worker[w].buffer # b
  BY <1>2, <1>3 DEF Available
<1>5. /\ call[t].step = "allocate"
      /\ UNCHANGED <<order, status, batch, signalled, called, taken, listing, stored,
                     apcs, posted, worker, duplicates>>
  BY DEF Allocate
<1>6. /\ call'[t].step = "submit" /\ call'[t].request = call[t].request
      /\ \A u \in Threads \ {t} : call'[u] = call[u]
  <2>1. call \in [Threads -> Call] /\ call[t] \in Call
    BY DEF JInv, IInv, TypeOK
  <2>2. call' = [call EXCEPT ![t] = [call[t] EXCEPT !.step = "submit", !.buffer = b]]
    BY <1>1, <1>3, <1>4
  <2> QED BY <2>1, <2>2 DEF Call
<1>7. ASSUME NEW c \in Buffers, c # b, memory[c] \in Requests
      PROVE  memory'[c] = memory[c]
  <2>1. memory[c] # Deleted
    BY <1>7, NullAssumption
  <2>2. WithAllocated(available)[c] = memory[c]
    BY <2>1 DEF WithAllocated
  <2> QED BY <1>1, <1>3, <1>4, <1>7, <2>2 DEF WithAllocated
<1>8. FewerHolders({})
  <2>1. \A c \in posted : c \in Buffers /\ c # b
    BY <1>4 DEF JInv, IInv, TypeOK
  <2>2. \A w \in Workers : Busy(w) => worker[w].buffer \in Buffers /\ worker[w].buffer # b
    BY <1>4 DEF JInv, IInv, Holding
  <2>3. \A w \in Workers : Busy(w) => memory'[worker[w].buffer] = RequestOf(w)
    BY <1>7, <2>2, HeldRequests DEF RequestOf
  <2> QED BY <1>5, <1>6, <1>7, <2>1, <2>3, HeldRequests
          DEF FewerHolders, Holds, Advances, Busy
<1>9. LaterDone
  <2>1. \A w \in Workers : Busy(w) => memory'[worker[w].buffer] = RequestOf(w)
    <3>1. \A w \in Workers : Busy(w) => worker[w].buffer \in Buffers /\ worker[w].buffer # b
      BY <1>4 DEF JInv, IInv, Holding
    <3> QED BY <1>7, <3>1, HeldRequests DEF RequestOf
  <2> QED BY <1>5, <2>1 DEF LaterDone, JInv, Phases, Busy
<1>10. IInv'
  BY AllocateInvariant DEF JInv
<1>11. Steady /\ stored' = stored
  BY <1>5 DEF Steady
<1>12. /\ \A w \in Workers : worker'[w].step # "raced"
       /\ \A u \in Threads : call'[u].step # "raced"
  BY <1>5, <1>6 DEF JInv, NoRace
<1>13. \A u \in Threads : \A i \in DOMAIN apcs'[u] : status[apcs'[u][i].queuedFor] = "done"
  BY <1>5 DEF JInv, SignalMeansDone
<1> QED BY <1>8, <1>9, <1>10, <1>11, <1>12, <1>13, SteadyStep

LEMMA CloseTells ==
  ASSUME JInv, NEW t \in Threads, Close(t)
  PROVE  JInv'
<1>1. PICK h \in stored : Free(h) /\ stored' = stored \ {h}
  BY DEF Close
<1>2. UNCHANGED <<order, status, batch, signalled, called, taken, listing, memory, pool,
                  call, apcs, posted, worker, duplicates>>
  BY DEF Close
<1>3. FewerHolders({}) /\ LaterDone /\ Steady /\ StillWaiting({})
  BY <1>2 DEF FewerHolders, LaterDone, Steady, StillWaiting, Holds, Advances, RequestOf,
              JInv, Phases
<1>4. OneAtATime'
  <2>1. \A r \in Requests : UnderWay(r) => order[r].handle # h
    BY <1>1 DEF Free, Asked, UnderWay
  <2> QED BY <1>1, <1>2, <2>1 DEF JInv, OneAtATime, UnderWay, Over
<1>5. Phases' /\ Apart'
  BY <1>3, HoldersApart
<1>6. NoRace' /\ SignalMeansDone'
  BY <1>2 DEF JInv, NoRace, SignalMeansDone
<1>7. IInv'
  BY CloseInvariant DEF JInv
<1> QED BY <1>3, <1>4, <1>5, <1>6, <1>7, SteadyListings DEF JInv

LEMMA SignalTells ==
  ASSUME JInv, NEW w \in Workers, Signal(w)
  PROVE  JInv'
<1>1. /\ worker[w].step = "signal"
      /\ signalled' = IF order[RequestOf(w)].event
                      THEN signalled \cup {RequestOf(w)} ELSE signalled
      /\ worker' = [worker EXCEPT ![w].step = "queue"]
      /\ UNCHANGED <<order, status, batch, called, taken, listing, stored, memory, pool, call,
                     apcs, posted, duplicates>>
  BY DEF Signal
<1>2. status[RequestOf(w)] = "done"
  BY <1>1 DEF JInv, Phases
<1>3. Steady
  BY <1>1, <1>2 DEF Steady
<1>4. /\ worker'[w].step = "queue" /\ worker'[w].buffer = worker[w].buffer
      /\ \A v \in Workers \ {w} : worker'[v] = worker[v]
  BY <1>1 DEF JInv, IInv, TypeOK, Work
<1>5. FewerHolders({})
  BY <1>1, <1>4 DEF FewerHolders, Holds, Advances, RequestOf
<1>6. LaterDone
  BY <1>1, <1>2, <1>4 DEF LaterDone, JInv, Phases, RequestOf
<1>7. /\ \A v \in Workers : worker'[v].step # "raced"
      /\ \A u \in Threads : call'[u].step # "raced"
  BY <1>1, <1>4 DEF JInv, NoRace
<1>8. \A u \in Threads : \A i \in DOMAIN apcs'[u] : status[apcs'[u][i].queuedFor] = "done"
  BY <1>1 DEF JInv, SignalMeansDone
<1>9. IInv'
  BY SignalInvariant DEF JInv
<1> QED BY <1>1, <1>3, <1>5, <1>6, <1>7, <1>8, <1>9, SteadyStep

LEMMA QueueApcTells ==
  ASSUME JInv, NEW w \in Workers, QueueApc(w)
  PROVE  JInv'
<1>1. /\ worker[w].step = "queue"
      /\ worker' = [worker EXCEPT ![w].step = "free"]
      /\ UNCHANGED <<order, status, batch, signalled, called, taken, listing, stored, memory,
                     pool, call, posted>>
  BY DEF QueueApc
<1>2. status[RequestOf(w)] = "done"
  BY <1>1 DEF JInv, Phases
<1>3. Steady
  BY <1>1 DEF Steady
<1>4. /\ worker'[w].step = "free" /\ worker'[w].buffer = worker[w].buffer
      /\ \A v \in Workers \ {w} : worker'[v] = worker[v]
  BY <1>1 DEF JInv, IInv, TypeOK, Work
<1>5. FewerHolders({})
  BY <1>1, <1>4 DEF FewerHolders, Holds, Advances, RequestOf
<1>6. LaterDone
  BY <1>1, <1>2, <1>4 DEF LaterDone, JInv, Phases, RequestOf
<1>7. /\ \A v \in Workers : worker'[v].step # "raced"
      /\ \A u \in Threads : call'[u].step # "raced"
  BY <1>1, <1>4 DEF JInv, NoRace
<1>8. \A u \in Threads : \A i \in DOMAIN apcs'[u] : status[apcs'[u][i].queuedFor] = "done"
  <2> DEFINE Record == [queuedFor : Requests, parameter : Buffers]
  <2> PICK record : record = [queuedFor |-> RequestOf(w), parameter |-> worker[w].buffer]
    OBVIOUS
  <2>1. record.queuedFor = RequestOf(w)
    OBVIOUS
  <2>2. apcs \in [Threads -> Seq(Record)]
    BY DEF JInv, IInv, TypeOK
  <2>3. \A u \in Threads : \A i \in DOMAIN apcs[u] : status[apcs[u][i].queuedFor] = "done"
    BY DEF JInv, SignalMeansDone
  <2>4. CASE apcs' = apcs
    BY <2>3, <2>4
  <2>5. CASE apcs' = [apcs EXCEPT ![order[RequestOf(w)].thread] = Append(@, record)]
    <3> SUFFICES ASSUME NEW u \in Threads, NEW i \in DOMAIN apcs'[u]
                 PROVE  status[apcs'[u][i].queuedFor] = "done"
      OBVIOUS
    <3> PICK s \in Seq(Record) : s = apcs[u]
      BY <2>2
    <3>1. CASE apcs'[u] = s
      BY <2>3, <3>1
    <3>2. CASE apcs'[u] = Append(s, record)
      <4>1. \/ apcs'[u][i] = record
            \/ i \in DOMAIN s /\ apcs'[u][i] = s[i]
        <5> HIDE DEF Record
        <5> QED BY <3>2
      <4> QED BY <1>2, <2>1, <2>3, <4>1
    <3> QED BY <2>2, <2>5, <3>1, <3>2
  <2> QED BY <2>4, <2>5 DEF QueueApc
<1>9. IInv'
  BY QueueApcInvariant DEF JInv
<1> QED BY <1>1, <1>3, <1>5, <1>6, <1>7, <1>8, <1>9, SteadyStep

LEMMA FreeBufferTells ==
  ASSUME JInv, NEW w \in Workers, FreeBuffer(w)
  PROVE  JInv'
<1>1. PICK b : b = worker[w].buffer
  OBVIOUS
<1>2. /\ worker[w].step = "free" /\ Busy(w)
      /\ worker' = [worker EXCEPT ![w] = NoWork]
      /\ UNCHANGED <<order, status, batch, signalled, called, taken, listing, stored, call,
                     apcs, posted, duplicates>>
  BY DEF FreeBuffer, Busy
<1>3. \A c \in Buffers \ {b} : memory'[c] = memory[c]
  BY <1>1 DEF FreeBuffer, JInv, IInv, TypeOK
<1>4. /\ worker'[w].step = "idle"
      /\ \A v \in Workers \ {w} : worker'[v] = worker[v]
  BY <1>2 DEF JInv, IInv, TypeOK, NoWork
<1>5. /\ \A c \in posted : c \in Buffers \ {b}
      /\ \A v \in Workers \ {w} : Busy(v) => worker[v].buffer \in Buffers \ {b}
  BY <1>1, <1>2 DEF JInv, IInv, TypeOK, Holding, OneOwner, WorkersOwn
<1>6. \A v \in Workers \ {w} : Busy(v) => memory'[worker'[v].buffer] = RequestOf(v)
  BY <1>3, <1>4, <1>5 DEF RequestOf
<1>7. FewerHolders({})
  BY <1>2, <1>3, <1>4, <1>5, <1>6 DEF FewerHolders, Holds, Advances, Busy
<1>8. LaterDone
  BY <1>2, <1>4, <1>6 DEF LaterDone, JInv, Phases, Busy
<1>9. Steady /\ stored' = stored
  BY <1>2 DEF Steady
<1>10. /\ \A v \in Workers : worker'[v].step # "raced"
       /\ \A u \in Threads : call'[u].step # "raced"
  BY <1>2, <1>4 DEF JInv, NoRace
<1>11. \A u \in Threads : \A i \in DOMAIN apcs'[u] : status[apcs'[u][i].queuedFor] = "done"
  BY <1>2 DEF JInv, SignalMeansDone
<1>12. IInv'
  BY FreeBufferInvariant DEF JInv
<1> QED BY <1>7, <1>8, <1>9, <1>10, <1>11, <1>12, SteadyStep

LEMMA RunApcTells ==
  ASSUME JInv, NEW t \in Threads, RunApc(t)
  PROVE  JInv'
<1>1. /\ call[t].step = "idle" /\ apcs[t] # <<>>
      /\ apcs' = [apcs EXCEPT ![t] = Tail(@)]
      /\ call' = call \/ call' = [call EXCEPT ![t].step = "crashed"]
      /\ UNCHANGED <<order, status, batch, signalled, taken, listing, stored, memory, pool,
                     posted, worker, duplicates>>
  BY DEF RunApc
<1>2. /\ call'[t].step \in {"idle", "crashed"}
      /\ \A u \in Threads \ {t} : call'[u] = call[u]
  BY <1>1 DEF JInv, IInv, TypeOK, Call
<1>3. FewerHolders({}) /\ LaterDone
  BY <1>1, <1>2 DEF FewerHolders, LaterDone, Holds, Advances, RequestOf, JInv, Phases
<1>4. Steady /\ stored' = stored
  BY <1>1 DEF Steady
<1>5. /\ \A v \in Workers : worker'[v].step # "raced"
      /\ \A u \in Threads : call'[u].step # "raced"
  BY <1>1, <1>2 DEF JInv, NoRace
<1>6. \A u \in Threads : \A i \in DOMAIN apcs'[u] : status[apcs'[u][i].queuedFor] = "done"
  <2> DEFINE Record == [queuedFor : Requests, parameter : Buffers]
  <2>1. apcs \in [Threads -> Seq(Record)]
    BY DEF JInv, IInv, TypeOK
  <2>2. \A u \in Threads : \A i \in DOMAIN apcs[u] : status[apcs[u][i].queuedFor] = "done"
    BY DEF JInv, SignalMeansDone
  <2> SUFFICES ASSUME NEW u \in Threads, NEW i \in DOMAIN apcs'[u]
               PROVE  status[apcs'[u][i].queuedFor] = "done"
    OBVIOUS
  <2> PICK s \in Seq(Record) : s = apcs[u]
    BY <2>1
  <2>3. CASE apcs'[u] = s
    BY <2>2, <2>3
  <2>4. CASE s # <<>> /\ apcs'[u] = Tail(s)
    <3>1. i + 1 \in DOMAIN s /\ apcs'[u][i] = s[i + 1]
      <4> HIDE DEF Record
      <4> QED BY <2>4
    <3> QED BY <2>2, <3>1
  <2> QED BY <1>1, <2>1, <2>3, <2>4
<1>7. IInv'
  BY RunApcInvariant DEF JInv
<1> QED BY <1>3, <1>4, <1>5, <1>6, <1>7, SteadyStep

\* A request that waits is under way.
LEMMA WaitingIsUnderWay ==
  ASSUME NEW r \in Requests, Waiting(r)
  PROVE  UnderWay(r)
BY DEF Waiting, UnderWay, Over

\* Nobody is at a listing that is free.
LEMMA NobodyAtFree ==
  ASSUME JInv, NEW h \in Handles, Free(h)
  PROVE  /\ \A r \in Requests : order[r].handle = h => ~UnderWay(r)
         /\ \A b \in posted : order[memory[b]].handle # h
         /\ \A w \in Workers : Advances(w) => HandleOf(w) # h
         /\ Advancing(h) = {}
<1>1. \A r \in Requests : order[r].handle = h => ~UnderWay(r)
  BY DEF Free, Asked, UnderWay
<1>2. \A b \in posted : order[memory[b]].handle # h
  BY <1>1, HeldRequests, WaitingIsUnderWay DEF JInv, Phases
<1>3. \A w \in Workers : Advances(w) => HandleOf(w) # h
  BY <1>1, HeldRequests, WaitingIsUnderWay DEF JInv, Phases, HandleOf
<1> QED BY <1>1, <1>2, <1>3 DEF Advancing, Advances

LEMMA AskInVainTells ==
  ASSUME JInv, NEW t \in Threads, AskInVain(t)
  PROVE  JInv'
<1>1. PICK h \in stored :
        /\ Free(h)
        /\ listing' = [listing EXCEPT ![h] = 0]
        /\ taken' = [taken EXCEPT ![h] = <<>>]
        /\ call' = IF Disturbed(h, TRUE) THEN [call EXCEPT ![t].step = "raced"] ELSE call
  BY DEF AskInVain, Restart
<1>2. UNCHANGED <<order, status, batch, signalled, called, stored, memory, pool, apcs, posted,
                  worker, duplicates>>
  BY DEF AskInVain
<1>3. h \in Handles /\ taken \in [Handles -> Seq(Requests)] /\ listing \in [Handles -> Nat]
  BY DEF JInv, IInv, TypeOK
<1>4. call' = call
  BY <1>1, <1>3, NobodyAtFree DEF Disturbed
<1>5. /\ taken'[h] = <<>> /\ listing'[h] = 0
      /\ \A g \in Handles \ {h} : taken'[g] = taken[g] /\ listing'[g] = listing[g]
  BY <1>1, <1>3
<1>6. DOMAIN taken'[h] = {} /\ Len(taken'[h]) = 0
  BY <1>5
<1>7. TakenSound'
  BY <1>2, <1>4, <1>5, <1>6 DEF JInv, TakenSound, Waiting, Holds
<1>8. ListingCounts'
  BY <1>2, <1>5, <1>6 DEF JInv, ListingCounts
<1>9. InSequence'
  BY <1>2, <1>5, <1>6 DEF JInv, InSequence
<1>10. LastIsSubmitted'
  <2>1. \A b \in posted : order[memory[b]].handle \in Handles \ {h}
    BY <1>1, <1>3, NobodyAtFree, HeldRequests, WaitingIsUnderWay
       DEF JInv, Phases, OneAtATime, UnderWay, Order
  <2>2. \A w \in Workers : Advances(w) => HandleOf(w) \in Handles \ {h}
    BY <1>1, <1>3, NobodyAtFree, HeldRequests, WaitingIsUnderWay
       DEF JInv, Phases, OneAtATime, UnderWay, Order, HandleOf
  <2> QED BY <1>2, <1>5, <2>1, <2>2
          DEF JInv, LastIsSubmitted, LastOf, Advances, RequestOf, HandleOf
<1>11. Phases' /\ Apart' /\ OneAtATime' /\ NoRace' /\ SignalMeansDone'
  BY <1>2, <1>4 DEF JInv, Phases, Apart, OneAtATime, NoRace, SignalMeansDone, Holds, Waiting,
                    Advances, RequestOf, UnderWay, Over
<1>12. IInv'
  BY AskInVainInvariant DEF JInv
<1> QED BY <1>7, <1>8, <1>9, <1>10, <1>11, <1>12 DEF JInv

LEMMA StartTells ==
  ASSUME JInv, NEW w \in Workers, Start(w)
  PROVE  JInv'
<1>1. PICK b \in posted : /\ posted' = posted \ {b}
                          /\ worker' = [worker EXCEPT ![w] = [step |-> "advance", buffer |-> b]]
  BY DEF Start
<1>2. UNCHANGED <<order, status, batch, signalled, called, taken, listing, stored, memory,
                  pool, call, apcs, duplicates>>
  BY DEF Start
<1>3. /\ worker'[w].step = "advance" /\ worker'[w].buffer = b
      /\ \A v \in Workers \ {w} : worker'[v] = worker[v]
  BY <1>1 DEF JInv, IInv, TypeOK
<1>4. \A v \in Workers : worker'[v].step = "advance" =>
        \/ v = w /\ memory[worker'[v].buffer] = memory[b]
        \/ v # w /\ Advances(v) /\ memory[worker'[v].buffer] = RequestOf(v)
  BY <1>3 DEF Advances, RequestOf
<1>5. Phases'
  <2>1. \A v \in Workers : worker'[v].step \in {"signal", "queue", "free"} =>
          status[memory[worker'[v].buffer]] = "done"
    BY <1>3 DEF JInv, Phases, RequestOf
  <2> QED BY <1>1, <1>2, <1>4, <2>1 DEF JInv, Phases, Holds, Advances, RequestOf, Waiting
<1>6. Apart'
  <2>1. \A c, d \in posted' : memory[c] = memory[d] => c = d
    BY <1>1 DEF JInv, Apart
  <2>2. \A u, v \in Workers :
          (/\ worker'[u].step = "advance" /\ worker'[v].step = "advance"
           /\ memory[worker'[u].buffer] = memory[worker'[v].buffer]) => u = v
    <3>1. \A v \in Workers : Advances(v) => RequestOf(v) # memory[b]
      BY <1>1 DEF JInv, Apart
    <3>2. \A u, v \in Workers : Advances(u) /\ Advances(v) /\ RequestOf(u) = RequestOf(v) => u = v
      BY DEF JInv, Apart
    <3> SUFFICES ASSUME NEW u \in Workers, NEW v \in Workers,
                        worker'[u].step = "advance", worker'[v].step = "advance",
                        memory[worker'[u].buffer] = memory[worker'[v].buffer]
                 PROVE  u = v
      OBVIOUS
    <3>3. CASE u = w
      BY <1>4, <3>1, <3>3
    <3>4. CASE v = w
      BY <1>4, <3>1, <3>4
    <3>5. CASE u # w /\ v # w
      BY <1>4, <3>2, <3>5
    <3> QED BY <3>3, <3>4, <3>5
  <2>3. \A u \in Threads, v \in Workers : Holds(u) /\ worker'[v].step = "advance" =>
          memory[worker'[v].buffer] # call[u].request
    BY <1>4 DEF JInv, Apart
  <2>4. \A c \in posted', v \in Workers : worker'[v].step = "advance" =>
          memory[worker'[v].buffer] # memory[c]
    <3> SUFFICES ASSUME NEW c \in posted', NEW v \in Workers, worker'[v].step = "advance"
                 PROVE  memory[worker'[v].buffer] # memory[c]
      OBVIOUS
    <3>1. c \in posted /\ b \in posted /\ c # b
      BY <1>1
    <3>2. memory[b] # memory[c]
      BY <3>1 DEF JInv, Apart
    <3>3. Advances(v) => RequestOf(v) # memory[c]
      BY <3>1 DEF JInv, Apart
    <3> QED BY <1>4, <3>2, <3>3
  <2> QED BY <1>1, <1>2, <2>1, <2>2, <2>3, <2>4 DEF JInv, Apart, Holds, Advances, RequestOf
<1>7. LastIsSubmitted'
  BY <1>1, <1>2, <1>4 DEF JInv, LastIsSubmitted, LastOf, Advances, RequestOf, HandleOf
<1>8. OneAtATime' /\ TakenSound' /\ ListingCounts' /\ InSequence' /\ SignalMeansDone'
  BY <1>2 DEF JInv, OneAtATime, UnderWay, Over, TakenSound, Waiting, Holds, ListingCounts,
              InSequence, SignalMeansDone
<1>9. NoRace'
  BY <1>2, <1>3 DEF JInv, NoRace
<1>10. IInv'
  BY StartInvariant DEF JInv
<1> QED BY <1>5, <1>6, <1>7, <1>8, <1>9, <1>10 DEF JInv

LEMMA AdvanceTells ==
  ASSUME JInv, NEW w \in Workers, Advance(w)
  PROVE  JInv'
<1> DEFINE r == RequestOf(w)
           h == HandleOf(w)
<1>1. Advances(w) /\ r \in Requests /\ Waiting(r) /\ UnderWay(r)
  BY HeldRequests, WaitingIsUnderWay DEF Advance, Advances, JInv, Phases
<1>2. h \in stored /\ h \in Handles /\ order[r].handle = h
  BY <1>1 DEF JInv, OneAtATime, HandleOf, IInv, TypeOK
<1>3. Advancing(h) = {w}
  <2>1. \A v \in Workers : Advances(v) /\ HandleOf(v) = h => v = w
    BY <1>1, <1>2, HeldRequests, WaitingIsUnderWay DEF JInv, Phases, OneAtATime, Apart, HandleOf
  <2> QED BY <1>1, <1>2, <2>1 DEF Advancing, Advances
<1>4. /\ listing' = [listing EXCEPT ![h] = @ + 1]
      /\ batch' = [batch EXCEPT ![r] = listing[h] + 1]
      /\ status' = [status EXCEPT ![r] = "done"]
      /\ worker' = [worker EXCEPT ![w].step = "signal"]
      /\ UNCHANGED <<order, signalled, called, taken, stored, memory, pool, call, apcs,
                     posted, duplicates>>
  BY <1>2, <1>3 DEF Advance
<1> HIDE DEF r, h
<1>5. /\ worker'[w].step = "signal" /\ worker'[w].buffer = worker[w].buffer
      /\ \A v \in Workers \ {w} : worker'[v] = worker[v]
  BY <1>4 DEF JInv, IInv, TypeOK, Work
<1>6. /\ status'[r] = "done" /\ status[r] = "pending" /\ batch'[r] = listing[h] + 1
      /\ \A s \in Requests \ {r} : status'[s] = status[s] /\ batch'[s] = batch[s]
  BY <1>1, <1>4 DEF JInv, IInv, TypeOK, Waiting
<1>7. /\ listing'[h] = listing[h] + 1
      /\ \A g \in Handles \ {h} : listing'[g] = listing[g]
  BY <1>2, <1>4 DEF JInv, IInv, TypeOK
<1>8. FewerHolders({r})
  BY <1>1, <1>4, <1>5 DEF FewerHolders, Holds, Advances, RequestOf, JInv, Apart, r
<1>9. StillWaiting({r}) /\ Onward
  BY <1>4, <1>6 DEF StillWaiting, Onward
<1>10. LaterDone
  <2>1. \A v \in Workers : worker[v].step \in {"signal", "queue", "free"} =>
          RequestOf(v) \in Requests /\ status[RequestOf(v)] = "done"
    BY HeldRequests DEF JInv, Phases, Busy
  <2> QED BY <1>4, <1>5, <1>6, <2>1 DEF LaterDone, RequestOf, r
<1>11. Phases' /\ Apart' /\ OneAtATime'
  BY <1>4, <1>8, <1>9, <1>10, HoldersApart, OverStays DEF JInv
<1>12. taken[h] # <<>> /\ taken[h][Len(taken[h])] = r /\ taken[h] \in Seq(Requests)
  BY <1>1, <1>2 DEF JInv, LastIsSubmitted, LastOf, r, h, IInv, TypeOK
<1>13. \A g \in Handles : \A i \in DOMAIN taken[g] :
         taken[g][i] = r => g = h /\ i = Len(taken[g])
  BY <1>2, <1>6 DEF JInv, TakenSound
<1>14. \A g \in Handles : \A i \in DOMAIN taken[g] : taken[g][i] \in Requests
  BY DEF JInv, IInv, TypeOK
<1>15. TakenSound'
  <2> SUFFICES ASSUME NEW g \in Handles, NEW i \in DOMAIN taken[g]
               PROVE  /\ order[taken[g][i]] \in Order
                      /\ order[taken[g][i]].handle = g
                      /\ \/ status'[taken[g][i]] = "done"
                         \/ /\ status'[taken[g][i]] = "pending" /\ taken[g][i] \notin signalled
                            /\ i = Len(taken[g])
                      /\ \A t \in Threads : Holds(t) => call[t].request # taken[g][i]
    BY <1>4 DEF TakenSound, Waiting, Holds
  <2> QED BY <1>6, <1>14 DEF JInv, TakenSound, Waiting
<1>16. ListingCounts'
  <2>1. listing[h] = Len(taken[h]) - 1
    BY <1>2, <1>6, <1>12 DEF JInv, ListingCounts
  <2>2. Len(taken[h]) \in Nat
    BY <1>12
  <2>3. listing'[h] = Len(taken[h])
    BY <1>7, <2>1, <2>2
  <2>4. \A g \in Handles \ {h} : taken[g] # <<>> =>
          status'[taken[g][Len(taken[g])]] = status[taken[g][Len(taken[g])]]
    <3>1. \A g \in Handles : taken[g] # <<>> => Len(taken[g]) \in DOMAIN taken[g]
      BY DEF JInv, IInv, TypeOK
    <3> QED BY <1>6, <1>13, <1>14, <3>1
  <2> QED BY <1>4, <1>6, <1>7, <1>12, <2>3, <2>4 DEF JInv, ListingCounts
<1>17. InSequence'
  <2>1. listing[h] + 1 = Len(taken[h])
    <3>1. listing[h] = Len(taken[h]) - 1
      BY <1>2, <1>6, <1>12 DEF JInv, ListingCounts
    <3> QED BY <1>12, <3>1
  <2> QED BY <1>4, <1>6, <1>13, <1>14, <2>1 DEF JInv, InSequence
<1>18. LastIsSubmitted'
  BY <1>4, <1>8 DEF JInv, LastIsSubmitted, LastOf, FewerHolders, Advances, RequestOf, HandleOf
<1>19. NoRace'
  BY <1>4, <1>5 DEF JInv, NoRace
<1>20. SignalMeansDone'
  <2>1. \A t \in Threads : \A i \in DOMAIN apcs[t] : apcs[t][i].queuedFor \in Requests
    <3> DEFINE Record == [queuedFor : Requests, parameter : Buffers]
    <3>1. \A t \in Threads : apcs[t] \in Seq(Record)
      BY DEF JInv, IInv, TypeOK
    <3>2. \A e \in Record : e.queuedFor \in Requests
      OBVIOUS
    <3> HIDE DEF Record
    <3>3. \A t \in Threads : \A i \in DOMAIN apcs[t] : apcs[t][i] \in Record
      BY <3>1
    <3> QED BY <3>2, <3>3
  <2>2. signalled \subseteq Requests
    BY DEF JInv, IInv, TypeOK
  <2> QED BY <1>4, <1>6, <2>1, <2>2 DEF JInv, SignalMeansDone
<1>21. IInv'
  BY AdvanceInvariant DEF JInv
<1> QED BY <1>11, <1>15, <1>16, <1>17, <1>18, <1>19, <1>20, <1>21 DEF JInv

LEMMA SubmitTells ==
  ASSUME JInv, NEW t \in Threads, Submit(t)
  PROVE  JInv'
<1> DEFINE r == call[t].request
           b == call[t].buffer
           h == order[r].handle
<1>1. /\ Holds(t) /\ r \in Requests /\ Waiting(r) /\ UnderWay(r) /\ Submitting(t)
  BY HeldRequests, WaitingIsUnderWay DEF Submit, Submitting, Holds, JInv, Phases
<1>2. order[r] \in Order /\ h \in Handles
  BY <1>1 DEF JInv, OneAtATime, UnderWay, Order
<1>3. /\ \/ /\ posted' = posted \cup {b}
            /\ taken' = [taken EXCEPT ![h] = Append(@, r)]
            /\ status' = status
         \/ /\ status' = [status EXCEPT ![r] = "refused"]
            /\ posted' = posted /\ taken' = taken
      /\ call' = [call EXCEPT ![t] = NoCall]
      /\ UNCHANGED <<order, batch, signalled, called, listing, stored, memory, pool, apcs,
                     worker, duplicates>>
  BY DEF Submit
<1>4. memory[b] = r /\ b \notin posted
  BY <1>1 DEF JInv, IInv, OneOwner, CallsOwn
<1>5. \A u \in Threads \ {t} : Holds(u) => call[u].request # r
  BY <1>1 DEF JInv, Apart
<1>6. /\ \A c \in posted : memory[c] # r
      /\ \A w \in Workers : Advances(w) => RequestOf(w) # r
  BY <1>1 DEF JInv, Apart
<1>7. \A g \in Handles : \A i \in DOMAIN taken[g] : taken[g][i] # r
  BY <1>1 DEF JInv, TakenSound
<1>8. \A g \in Handles : \A i \in DOMAIN taken[g] : taken[g][i] \in Requests
  BY DEF JInv, IInv, TypeOK
<1>9. \A s \in Requests : Waiting(s) /\ order[s].handle = h => s = r
  BY <1>1, WaitingIsUnderWay DEF JInv, OneAtATime
<1>10. IInv'
  BY SubmitInvariant DEF JInv
<1> HIDE DEF r, b, h
<1>11. /\ call'[t].step = "idle"
       /\ \A u \in Threads \ {t} : call'[u] = call[u]
  BY <1>3 DEF JInv, IInv, TypeOK, NoCall
<1>12. NoRace'
  BY <1>3, <1>11 DEF JInv, NoRace
<1>13. CASE /\ status' = [status EXCEPT ![r] = "refused"]
            /\ posted' = posted /\ taken' = taken
  <2>1. /\ status'[r] = "refused" /\ status[r] = "pending"
        /\ \A s \in Requests \ {r} : status'[s] = status[s]
    BY <1>1, <1>13 DEF JInv, IInv, TypeOK, Waiting
  <2>2. FewerHolders({r})
    BY <1>3, <1>5, <1>6, <1>11, <1>13 DEF FewerHolders, Holds, Advances, RequestOf
  <2>3. StillWaiting({r}) /\ Onward
    BY <1>3, <2>1 DEF StillWaiting, Onward
  <2>4. LaterDone
    <3>1. \A w \in Workers : worker[w].step \in {"signal", "queue", "free"} =>
            RequestOf(w) \in Requests /\ status[RequestOf(w)] = "done"
      BY HeldRequests DEF JInv, Phases, Busy
    <3> QED BY <1>3, <2>1, <3>1 DEF LaterDone, RequestOf
  <2>5. Phases' /\ Apart' /\ OneAtATime'
    BY <1>3, <2>2, <2>3, <2>4, HoldersApart, OverStays DEF JInv
  <2>6. TakenSound'
    <3> SUFFICES ASSUME NEW g \in Handles, NEW i \in DOMAIN taken[g]
                 PROVE  /\ order[taken[g][i]] \in Order
                        /\ order[taken[g][i]].handle = g
                        /\ \/ status'[taken[g][i]] = "done"
                           \/ /\ status'[taken[g][i]] = "pending"
                              /\ taken[g][i] \notin signalled
                              /\ i = Len(taken[g])
                        /\ \A u \in Threads : call'[u].step \in {"allocate", "submit"} =>
                             call'[u].request # taken[g][i]
      BY <1>3, <1>13 DEF TakenSound, Waiting, Holds
    <3>1. status'[taken[g][i]] = status[taken[g][i]]
      BY <1>7, <1>8, <2>1
    <3> QED BY <1>11, <3>1 DEF JInv, TakenSound, Waiting, Holds
  <2>7. ListingCounts'
    <3>1. \A g \in Handles : taken[g] # <<>> => Len(taken[g]) \in DOMAIN taken[g]
      BY DEF JInv, IInv, TypeOK
    <3>2. \A g \in Handles : taken[g] # <<>> =>
            status'[taken[g][Len(taken[g])]] = status[taken[g][Len(taken[g])]]
      BY <1>7, <1>8, <2>1, <3>1
    <3> QED BY <1>3, <1>13, <3>2 DEF JInv, ListingCounts
  <2>8. InSequence'
    BY <1>3, <1>7, <1>8, <1>13, <2>1 DEF JInv, InSequence
  <2>9. LastIsSubmitted'
    BY <1>3, <1>13 DEF JInv, LastIsSubmitted, LastOf, Advances, RequestOf, HandleOf
  <2>10. SignalMeansDone'
    <3>1. \A u \in Threads : \A i \in DOMAIN apcs[u] :
            apcs[u][i].queuedFor # r /\ apcs[u][i].queuedFor \in Requests
      <4> DEFINE Record == [queuedFor : Requests, parameter : Buffers]
      <4>1. \A u \in Threads : apcs[u] \in Seq(Record)
        BY DEF JInv, IInv, TypeOK
      <4>2. \A e \in Record : e.queuedFor \in Requests
        OBVIOUS
      <4> HIDE DEF Record
      <4>3. \A u \in Threads : \A i \in DOMAIN apcs[u] : apcs[u][i] \in Record
        BY <4>1
      <4> QED BY <2>1, <4>2, <4>3 DEF JInv, SignalMeansDone
    <3>2. \A s \in signalled : s # r /\ s \in Requests
      BY <2>1 DEF JInv, SignalMeansDone, IInv, TypeOK
    <3> QED BY <1>3, <2>1, <3>1, <3>2 DEF JInv, SignalMeansDone
  <2> QED BY <1>10, <1>12, <2>5, <2>6, <2>7, <2>8, <2>9, <2>10 DEF JInv
<1>14. CASE /\ posted' = posted \cup {b}
            /\ taken' = [taken EXCEPT ![h] = Append(@, r)]
            /\ status' = status
  <2>1. PICK s \in Seq(Requests) : s = taken[h]
    BY <1>2 DEF JInv, IInv, TypeOK, h
  <2>2. /\ taken'[h] = Append(s, r)
        /\ \A g \in Handles \ {h} : taken'[g] = taken[g]
    BY <1>2, <1>14, <2>1 DEF JInv, IInv, TypeOK, h
  <2>3. /\ Len(taken'[h]) = Len(s) + 1 /\ Len(s) \in Nat
        /\ taken'[h] # <<>> /\ taken'[h][Len(s) + 1] = r
        /\ \A i \in DOMAIN taken'[h] :
             \/ i = Len(s) + 1 /\ taken'[h][i] = r
             \/ i \in DOMAIN s /\ taken'[h][i] = s[i]
    BY <1>1, <2>1, <2>2 DEF r
  <2>4. \A i \in DOMAIN s : status[s[i]] = "done"
    BY <1>2, <1>7, <1>8, <1>9, <2>1 DEF JInv, TakenSound, h
  <2>5. Phases'
    BY <1>1, <1>3, <1>4, <1>11, <1>14 DEF JInv, Phases, Holds, Advances, RequestOf, Waiting, r
  <2>6. Apart'
    <3>1. \A u, v \in Threads :
            (/\ call'[u].step \in {"allocate", "submit"}
             /\ call'[v].step \in {"allocate", "submit"}
             /\ call'[u].request = call'[v].request) => u = v
      <4>1. \A u \in Threads : call'[u].step \in {"allocate", "submit"} =>
              Holds(u) /\ call'[u].request = call[u].request
        BY <1>11 DEF Holds
      <4>2. \A u, v \in Threads :
              Holds(u) /\ Holds(v) /\ call[u].request = call[v].request => u = v
        BY DEF JInv, Apart
      <4> SUFFICES ASSUME NEW u \in Threads, NEW v \in Threads,
                          call'[u].step \in {"allocate", "submit"},
                          call'[v].step \in {"allocate", "submit"},
                          call'[u].request = call'[v].request
                   PROVE  u = v
        OBVIOUS
      <4>3. Holds(u) /\ Holds(v) /\ call[u].request = call[v].request
        BY <4>1
      <4> QED BY <4>2, <4>3
    <3>2. \A c, d \in posted' : memory[c] = memory[d] => c = d
      BY <1>4, <1>6, <1>14 DEF JInv, Apart
    <3>3. \A u \in Threads, c \in posted' : call'[u].step \in {"allocate", "submit"} =>
            memory[c] # call'[u].request
      BY <1>4, <1>5, <1>11, <1>14 DEF JInv, Apart, Holds
    <3>4. \A u \in Threads, w \in Workers :
            call'[u].step \in {"allocate", "submit"} /\ Advances(w) =>
              RequestOf(w) # call'[u].request
      BY <1>11 DEF JInv, Apart, Holds
    <3>5. \A c \in posted', w \in Workers : Advances(w) => RequestOf(w) # memory[c]
      BY <1>4, <1>6, <1>14 DEF JInv, Apart
    <3> QED BY <1>3, <3>1, <3>2, <3>3, <3>4, <3>5
            DEF JInv, Apart, Holds, Advances, RequestOf
  <2>7. OneAtATime' /\ SignalMeansDone'
    BY <1>3, <1>14 DEF JInv, OneAtATime, SignalMeansDone, UnderWay, Over
  <2>8. TakenSound'
    <3> SUFFICES ASSUME NEW g \in Handles, NEW i \in DOMAIN taken'[g]
                 PROVE  /\ order[taken'[g][i]] \in Order
                        /\ order[taken'[g][i]].handle = g
                        /\ \/ status[taken'[g][i]] = "done"
                           \/ Waiting(taken'[g][i]) /\ i = Len(taken'[g])
                        /\ \A u \in Threads : call'[u].step \in {"allocate", "submit"} =>
                             call'[u].request # taken'[g][i]
      BY <1>3, <1>14 DEF TakenSound, Waiting, Holds
    <3>1. CASE g # h
      BY <1>11, <2>2, <3>1 DEF JInv, TakenSound, Holds
    <3>2. CASE g = h /\ i = Len(s) + 1 /\ taken'[g][i] = r
      BY <1>1, <1>2, <1>5, <1>11, <2>3, <3>2 DEF Holds, h
    <3>3. CASE g = h /\ i \in DOMAIN s /\ taken'[g][i] = s[i]
      BY <1>2, <1>11, <2>1, <2>4, <3>3 DEF JInv, TakenSound, Holds
    <3> QED BY <2>3, <3>1, <3>2, <3>3
  <2>9. ListingCounts'
    <3>1. listing[h] = Len(s)
      <4>1. s # <<>> => Len(s) \in DOMAIN s
        OBVIOUS
      <4> QED BY <1>2, <2>1, <2>4, <4>1 DEF JInv, ListingCounts
    <3>2. listing[h] = Len(taken'[h]) - 1 /\ status[taken'[h][Len(taken'[h])]] = "pending"
      BY <1>1, <2>3, <3>1 DEF Waiting
    <3> QED BY <1>3, <1>14, <2>2, <2>3, <3>2 DEF JInv, ListingCounts
  <2>10. InSequence'
    <3> SUFFICES ASSUME NEW g \in Handles, NEW i \in DOMAIN taken'[g],
                        status[taken'[g][i]] = "done"
                 PROVE  batch[taken'[g][i]] = i
      BY <1>3, <1>14 DEF InSequence
    <3>1. CASE g # h
      BY <2>2, <3>1 DEF JInv, InSequence
    <3>2. CASE g = h /\ i = Len(s) + 1 /\ taken'[g][i] = r
      BY <1>1, <3>2 DEF Waiting
    <3>3. CASE g = h /\ i \in DOMAIN s /\ taken'[g][i] = s[i]
      BY <2>1, <3>3 DEF JInv, InSequence
    <3> QED BY <2>3, <3>1, <3>2, <3>3
  <2>11. LastIsSubmitted'
    <3>1. \A c \in posted : order[memory[c]].handle \in Handles \ {h}
      BY <1>6, <1>9, HeldRequests, WaitingIsUnderWay
         DEF JInv, Phases, OneAtATime, UnderWay, Order
    <3>2. \A w \in Workers : Advances(w) => HandleOf(w) \in Handles \ {h}
      BY <1>6, <1>9, HeldRequests, WaitingIsUnderWay
         DEF JInv, Phases, OneAtATime, UnderWay, Order, HandleOf
    <3>3. taken'[h] # <<>> /\ taken'[h][Len(taken'[h])] = r
      BY <2>3
    <3>4. ASSUME NEW c \in posted'
          PROVE  LastOf(order[memory[c]].handle, memory[c])'
      <4>1. CASE c = b
        BY <1>3, <1>4, <3>3, <4>1 DEF LastOf, h
      <4>2. CASE c \in posted
        BY <1>3, <2>2, <3>1, <4>2 DEF JInv, LastIsSubmitted, LastOf
      <4> QED BY <1>14, <4>1, <4>2
    <3>5. ASSUME NEW w \in Workers, Advances(w)
          PROVE  LastOf(HandleOf(w), RequestOf(w))'
      BY <1>3, <2>2, <3>2, <3>5 DEF JInv, LastIsSubmitted, LastOf, HandleOf, RequestOf
    <3> QED BY <1>3, <3>4, <3>5 DEF LastIsSubmitted, Advances
  <2> QED BY <1>10, <1>12, <2>5, <2>6, <2>7, <2>8, <2>9, <2>10, <2>11 DEF JInv
<1> QED BY <1>3, <1>13, <1>14 DEF r, b, h

LEMMA AskTells ==
  ASSUME JInv, NEW t \in Threads, Ask(t)
  PROVE  JInv'
<1>1. PICK o \in Order, restart \in BOOLEAN, r \in Requests :
        /\ r \notin Asked
        /\ o.thread = t /\ o.handle \in stored /\ Free(o.handle)
        /\ order' = [order EXCEPT ![r] = o]
        /\ IF restart THEN Restart(o.handle) ELSE UNCHANGED <<listing, taken>>
        /\ status' = [status EXCEPT ![r] = "pending"]
        /\ call' = [call EXCEPT ![t] =
             [step |-> IF Disturbed(o.handle, restart) THEN "raced" ELSE "allocate",
              request |-> r, buffer |-> NoBuffer]]
  <2>1. (CHOOSE unused \in Requests : unused \notin Asked) \in Requests \ Asked
    BY DEF Ask, Asked
  <2>2. PICK r : r = CHOOSE unused \in Requests : unused \notin Asked
    OBVIOUS
  <2>3. r \in Requests /\ r \notin Asked
    BY <2>1, <2>2
  <2>4. PICK o \in Order, restart \in BOOLEAN :
          /\ o.thread = t /\ o.handle \in stored /\ Free(o.handle)
          /\ order' = [order EXCEPT ![r] = o]
          /\ IF restart THEN Restart(o.handle) ELSE UNCHANGED <<listing, taken>>
          /\ status' = [status EXCEPT ![r] = "pending"]
          /\ call' = [call EXCEPT ![t] =
               [step |-> IF Disturbed(o.handle, restart) THEN "raced" ELSE "allocate",
                request |-> r, buffer |-> NoBuffer]]
    BY <2>2 DEF Ask
  <2> QED BY <2>3, <2>4
<1>2. UNCHANGED <<batch, signalled, called, stored, memory, pool, apcs, posted, worker>>
  BY DEF Ask
<1>3. PICK h \in Handles : h = o.handle
  BY DEF Order
<1>4. call' = [call EXCEPT ![t] = [step |-> "allocate", request |-> r, buffer |-> NoBuffer]]
  BY <1>1, <1>3, NobodyAtFree DEF Disturbed
<1>5. /\ call'[t].step = "allocate" /\ call'[t].request = r
      /\ \A u \in Threads \ {t} : call'[u] = call[u]
  BY <1>4 DEF JInv, IInv, TypeOK
<1>6. /\ status[r] = "unused" /\ status'[r] = "pending" /\ order'[r] = o
      /\ \A s \in Requests \ {r} : status'[s] = status[s] /\ order'[s] = order[s]
  BY <1>1 DEF JInv, IInv, TypeOK, Asked
<1>7. r \notin signalled
  BY <1>6 DEF JInv, SignalMeansDone
<1>8. /\ \A u \in Threads : Holds(u) => call[u].request \in Requests \ {r}
      /\ \A b \in posted : memory[b] \in Requests \ {r}
      /\ \A w \in Workers : Advances(w) => RequestOf(w) \in Requests \ {r}
  BY <1>6, HeldRequests DEF JInv, Phases, Waiting
<1>9. \A g \in Handles : \A i \in DOMAIN taken[g] : taken[g][i] \in Requests \ {r}
  BY <1>6 DEF JInv, TakenSound, Waiting, IInv, TypeOK
<1>10. Phases'
  <2>1. \A w \in Workers : worker[w].step \in {"signal", "queue", "free"} =>
          RequestOf(w) \in Requests \ {r} /\ status[RequestOf(w)] = "done"
    BY <1>6, HeldRequests DEF JInv, Phases, Busy
  <2>2. \A u \in Threads : call'[u].step \in {"allocate", "submit"} =>
          status'[call'[u].request] = "pending" /\ call'[u].request \notin signalled
    BY <1>5, <1>6, <1>7, <1>8 DEF JInv, Phases, Waiting, Holds
  <2>3. \A b \in posted : status'[memory[b]] = "pending" /\ memory[b] \notin signalled
    BY <1>6, <1>8 DEF JInv, Phases, Waiting
  <2>4. \A w \in Workers : Advances(w) =>
          status'[RequestOf(w)] = "pending" /\ RequestOf(w) \notin signalled
    BY <1>6, <1>8 DEF JInv, Phases, Waiting
  <2> QED BY <1>2, <1>6, <2>1, <2>2, <2>3, <2>4
          DEF Phases, Waiting, Holds, Advances, RequestOf
<1>11. Apart'
  <2>1. \A u \in Threads : call'[u].step \in {"allocate", "submit"} =>
          \/ u = t /\ call'[u].request = r
          \/ u # t /\ Holds(u) /\ call'[u].request = call[u].request
    BY <1>5 DEF Holds
  <2>2. \A u, v \in Threads :
            (/\ call'[u].step \in {"allocate", "submit"}
             /\ call'[v].step \in {"allocate", "submit"}
             /\ call'[u].request = call'[v].request) => u = v
    <3>1. \A u, v \in Threads :
            Holds(u) /\ Holds(v) /\ call[u].request = call[v].request => u = v
      BY DEF JInv, Apart
    <3> SUFFICES ASSUME NEW u \in Threads, NEW v \in Threads,
                        call'[u].step \in {"allocate", "submit"},
                        call'[v].step \in {"allocate", "submit"},
                        call'[u].request = call'[v].request
                 PROVE  u = v
      OBVIOUS
    <3>2. \/ u = t /\ call'[u].request = r
          \/ u # t /\ Holds(u) /\ call'[u].request = call[u].request
      BY <2>1
    <3>3. \/ v = t /\ call'[v].request = r
          \/ v # t /\ Holds(v) /\ call'[v].request = call[v].request
      BY <2>1
    <3> QED BY <1>8, <3>1, <3>2, <3>3
  <2>3. \A u \in Threads, b \in posted : call'[u].step \in {"allocate", "submit"} =>
          memory[b] # call'[u].request
    BY <1>8, <2>1 DEF JInv, Apart
  <2>4. \A u \in Threads, w \in Workers :
          call'[u].step \in {"allocate", "submit"} /\ Advances(w) =>
            RequestOf(w) # call'[u].request
    BY <1>8, <2>1 DEF JInv, Apart
  <2> QED BY <1>2, <2>2, <2>3, <2>4 DEF JInv, Apart, Holds, Advances, RequestOf
<1>12. \A s \in Requests \ {r} : UnderWay(s)' <=> UnderWay(s)
  BY <1>2, <1>6 DEF UnderWay, Over
<1>13. \A s \in Requests : order[s].handle = h => ~UnderWay(s)
  BY <1>1, <1>3, NobodyAtFree
<1>14. OneAtATime'
  <2>1. \A s \in Requests : status'[s] # "unused" => order'[s] \in Order
    BY <1>6 DEF JInv, OneAtATime
  <2>2. \A s, q \in Requests :
          UnderWay(s)' /\ UnderWay(q)' /\ order'[s].handle = order'[q].handle => s = q
    <3>1. \A s, q \in Requests :
            UnderWay(s) /\ UnderWay(q) /\ order[s].handle = order[q].handle => s = q
      BY DEF JInv, OneAtATime
    <3> QED BY <1>3, <1>6, <1>12, <1>13, <3>1
  <2>3. \A s \in Requests : UnderWay(s)' => order'[s].handle \in stored'
    BY <1>1, <1>2, <1>6, <1>12 DEF JInv, OneAtATime
  <2> QED BY <2>1, <2>2, <2>3 DEF OneAtATime
<1>15. \A g \in Handles : \/ taken'[g] = taken[g] /\ listing'[g] = listing[g]
                          \/ g = h /\ taken'[g] = <<>> /\ listing'[g] = 0
  BY <1>1, <1>3 DEF Restart, JInv, IInv, TypeOK
<1>16. \A g \in Handles \ {h} : taken'[g] = taken[g] /\ listing'[g] = listing[g]
  BY <1>1, <1>3 DEF Restart, JInv, IInv, TypeOK
<1>17. TakenSound'
  <2> SUFFICES ASSUME NEW g \in Handles, NEW i \in DOMAIN taken'[g]
               PROVE  /\ order'[taken'[g][i]] \in Order
                      /\ order'[taken'[g][i]].handle = g
                      /\ \/ status'[taken'[g][i]] = "done"
                         \/ /\ status'[taken'[g][i]] = "pending"
                            /\ taken'[g][i] \notin signalled
                            /\ i = Len(taken'[g])
                      /\ \A u \in Threads : call'[u].step \in {"allocate", "submit"} =>
                           call'[u].request # taken'[g][i]
    BY <1>2 DEF TakenSound, Waiting, Holds
  <2>1. taken'[g] = taken[g] /\ i \in DOMAIN taken[g]
    BY <1>15
  <2> QED BY <1>5, <1>6, <1>9, <2>1 DEF JInv, TakenSound, Waiting, Holds
<1>18. ListingCounts'
  <2> SUFFICES ASSUME NEW g \in Handles
               PROVE  listing'[g] = IF /\ taken'[g] # <<>>
                                       /\ status'[taken'[g][Len(taken'[g])]] = "pending"
                                    THEN Len(taken'[g]) - 1 ELSE Len(taken'[g])
    BY DEF ListingCounts
  <2>1. CASE taken'[g] = <<>> /\ listing'[g] = 0
    BY <2>1
  <2>2. CASE taken'[g] = taken[g] /\ listing'[g] = listing[g]
    <3>1. taken[g] # <<>> => Len(taken[g]) \in DOMAIN taken[g]
      BY DEF JInv, IInv, TypeOK
    <3>2. taken[g] # <<>> =>
            status'[taken[g][Len(taken[g])]] = status[taken[g][Len(taken[g])]]
      BY <1>6, <1>9, <3>1
    <3> QED BY <2>2, <3>2 DEF JInv, ListingCounts
  <2> QED BY <1>15, <2>1, <2>2
<1>19. InSequence'
  <2> SUFFICES ASSUME NEW g \in Handles, NEW i \in DOMAIN taken'[g],
                      status'[taken'[g][i]] = "done"
               PROVE  batch[taken'[g][i]] = i
    BY <1>2 DEF InSequence
  <2>1. taken'[g] = taken[g] /\ i \in DOMAIN taken[g]
    BY <1>15
  <2> QED BY <1>6, <1>9, <2>1 DEF JInv, InSequence
<1>20. LastIsSubmitted'
  <2>1. \A b \in posted : /\ order[memory[b]].handle \in Handles \ {h}
                          /\ order'[memory[b]] = order[memory[b]]
    BY <1>1, <1>3, <1>6, <1>8, NobodyAtFree, WaitingIsUnderWay
       DEF JInv, Phases, OneAtATime, UnderWay, Order
  <2>2. \A w \in Workers : Advances(w) => /\ HandleOf(w) \in Handles \ {h}
                                          /\ order'[RequestOf(w)] = order[RequestOf(w)]
    BY <1>1, <1>3, <1>6, <1>8, NobodyAtFree, WaitingIsUnderWay
       DEF JInv, Phases, OneAtATime, UnderWay, Order, HandleOf
  <2>3. ASSUME NEW b \in posted'
        PROVE  LastOf(order[memory[b]].handle, memory[b])'
    BY <1>2, <1>16, <2>1 DEF JInv, LastIsSubmitted, LastOf
  <2>4. ASSUME NEW w \in Workers, Advances(w)
        PROVE  LastOf(HandleOf(w), RequestOf(w))'
    BY <1>2, <1>16, <2>2, <2>4 DEF JInv, LastIsSubmitted, LastOf, HandleOf, RequestOf
  <2> QED BY <1>2, <2>3, <2>4 DEF LastIsSubmitted, Advances
<1>21. NoRace'
  BY <1>2, <1>5 DEF JInv, NoRace
<1>22. SignalMeansDone'
  <2>1. \A u \in Threads : \A i \in DOMAIN apcs[u] :
          apcs[u][i].queuedFor # r /\ apcs[u][i].queuedFor \in Requests
    <3> DEFINE Record == [queuedFor : Requests, parameter : Buffers]
    <3>1. \A u \in Threads : apcs[u] \in Seq(Record)
      BY DEF JInv, IInv, TypeOK
    <3>2. \A e \in Record : e.queuedFor \in Requests
      OBVIOUS
    <3> HIDE DEF Record
    <3>3. \A u \in Threads : \A i \in DOMAIN apcs[u] : apcs[u][i] \in Record
      BY <3>1
    <3> QED BY <1>6, <3>2, <3>3 DEF JInv, SignalMeansDone
  <2>2. \A s \in signalled : s # r /\ s \in Requests
    BY <1>7 DEF JInv, IInv, TypeOK
  <2> QED BY <1>2, <1>6, <2>1, <2>2 DEF JInv, SignalMeansDone
<1>23. IInv'
  BY AskInvariant DEF JInv
<1> QED BY <1>10, <1>11, <1>14, <1>17, <1>18, <1>19, <1>20, <1>21, <1>22, <1>23 DEF JInv

LEMMA NextTells == JInv /\ [Next]_vars => JInv'
<1> SUFFICES ASSUME JInv, [Next]_vars PROVE JInv'
  OBVIOUS
<1>1. CASE \E t \in Threads : Ask(t) \/ AskInVain(t) \/ CallStep(t) \/ RunApc(t) \/ Close(t)
  BY <1>1, AskTells, AskInVainTells, AllocateTells, SubmitTells, RunApcTells, CloseTells
     DEF CallStep
<1>2. CASE \E w \in Workers : WorkerStep(w)
  BY <1>2, StartTells, AdvanceTells, SignalTells, QueueApcTells, FreeBufferTells
     DEF WorkerStep
<1>3. CASE UNCHANGED vars
  <2>1. IInv'
    BY <1>3, NextInvariant DEF JInv
  <2>2. Steady /\ LaterDone /\ FewerHolders({}) /\ stored' = stored
    BY <1>3 DEF vars, Steady, LaterDone, FewerHolders, Holds, Advances, RequestOf, JInv, Phases
  <2> QED BY <1>3, <2>1, <2>2, SteadyStep DEF vars, JInv, NoRace, SignalMeansDone
<1> QED BY <1>1, <1>2, <1>3 DEF Next

\* No listing is advanced, restarted or closed by two at once, however many
\* threads, workers, handles and requests there are: NoRace of every run.
THEOREM NoListingIsRaced == Spec => []NoRace
<1>1. JInv => NoRace
  BY DEF JInv
<1> QED BY InitTells, NextTells, <1>1, PTL DEF Spec

\* The requests of a listing get its batches in the order in which they were
\* submitted, whichever workers carry them out.
THEOREM BatchesInSequence == Spec => []InSequence
<1>1. JInv => InSequence
  BY DEF JInv
<1> QED BY InitTells, NextTells, <1>1, PTL DEF Spec

\* Neither an event nor a procedure call tells of a completion that is not in
\* the status block yet.
THEOREM SignalsAreTrue == Spec => []SignalMeansDone
<1>1. JInv => SignalMeansDone
  BY DEF JInv
<1> QED BY InitTells, NextTells, <1>1, PTL DEF Spec
=============================================================================
