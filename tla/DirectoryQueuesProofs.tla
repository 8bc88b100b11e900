------------------------ MODULE DirectoryQueuesProofs ------------------------
(***************************************************************************)
(* Proofs about a directory listing, for any number of queues, any         *)
(* directories, batches and buffers: no name is told twice, none is lost,  *)
(* of equal names the first queue's is told, at the end every one has been *)
(* told, and the application is told nothing but what Listing promises.    *)
(***************************************************************************)
EXTENDS DirectoryQueues, FiniteSetTheorems, TLAPS

\* A copied entry whose key is new leaves the entries of the call distinct.
LEMMA AppendDistinct ==
  ASSUME NEW s \in Seq(Entry), NEW e \in Entry, Distinct(s), Key(e.name) \notin KeysOf(s)
  PROVE  /\ Append(s, e) \in Seq(Entry)
         /\ Distinct(Append(s, e))
         /\ KeysOf(Append(s, e)) = KeysOf(s) \cup {Key(e.name)}

<1>1. /\ Append(s, e) \in Seq(Entry)
      /\ Len(Append(s, e)) = Len(s) + 1
      /\ \A k \in 1 .. Len(s) : Append(s, e)[k] = s[k]
      /\ Append(s, e)[Len(s) + 1] = e
  OBVIOUS
<1>2. DOMAIN s = 1 .. Len(s) /\ DOMAIN Append(s, e) = 1 .. Len(s) + 1 /\ Len(s) \in Nat
  BY <1>1
<1>3. KeysOf(Append(s, e)) = KeysOf(s) \cup {Key(e.name)}
  BY <1>1, <1>2 DEF KeysOf
<1>4. Distinct(Append(s, e))
  <2> SUFFICES ASSUME NEW j \in 1 .. Len(s) + 1, NEW k \in 1 .. Len(s) + 1,
                      Key(Append(s, e)[j].name) = Key(Append(s, e)[k].name)
               PROVE  j = k
    BY <1>2 DEF Distinct
  <2>1. CASE j \in 1 .. Len(s) /\ k \in 1 .. Len(s)
    BY <2>1, <1>1, <1>2 DEF Distinct
  <2>2. CASE j = Len(s) + 1 /\ k \in 1 .. Len(s)
    BY <2>2, <1>1, <1>2 DEF KeysOf
  <2>3. CASE k = Len(s) + 1 /\ j \in 1 .. Len(s)
    BY <2>3, <1>1, <1>2 DEF KeysOf
  <2>4. CASE k = Len(s) + 1 /\ j = Len(s) + 1
    BY <2>4
  <2> QED BY <2>1, <2>2, <2>3, <2>4, <1>2
<1> QED BY <1>1, <1>3, <1>4

\* What a call has written joins what has been told.
LEMMA ConcatDistinct ==
  ASSUME NEW s \in Seq(Entry), NEW t \in Seq(Entry), Distinct(s), Distinct(t),
         KeysOf(s) \cap KeysOf(t) = {}
  PROVE  /\ s \o t \in Seq(Entry)
         /\ Distinct(s \o t)
         /\ KeysOf(s \o t) = KeysOf(s) \cup KeysOf(t)

<1>1. /\ s \o t \in Seq(Entry)
      /\ Len(s \o t) = Len(s) + Len(t)
      /\ \A k \in 1 .. Len(s) : (s \o t)[k] = s[k]
      /\ \A k \in 1 .. Len(t) : (s \o t)[Len(s) + k] = t[k]
  OBVIOUS
<1>2. /\ DOMAIN s = 1 .. Len(s) /\ DOMAIN t = 1 .. Len(t)
      /\ DOMAIN (s \o t) = 1 .. Len(s) + Len(t)
      /\ Len(s) \in Nat /\ Len(t) \in Nat
  BY <1>1
<1>3. ASSUME NEW k \in 1 .. Len(s) + Len(t)
      PROVE  \/ k \in 1 .. Len(s) /\ (s \o t)[k] = s[k]
             \/ k - Len(s) \in 1 .. Len(t) /\ (s \o t)[k] = t[k - Len(s)]
  <2>1. CASE k <= Len(s)
    BY <2>1, <1>1, <1>2
  <2>2. CASE k > Len(s)
    <3>1. k - Len(s) \in 1 .. Len(t) /\ Len(s) + (k - Len(s)) = k
      BY <2>2, <1>2
    <3> QED BY <3>1, <1>1
  <2> QED BY <2>1, <2>2, <1>2
<1>4. KeysOf(s \o t) = KeysOf(s) \cup KeysOf(t)
  <2>1. KeysOf(s \o t) \subseteq KeysOf(s) \cup KeysOf(t)
    BY <1>2, <1>3 DEF KeysOf
  <2>2. KeysOf(s) \subseteq KeysOf(s \o t)
    BY <1>1, <1>2 DEF KeysOf
  <2>3. KeysOf(t) \subseteq KeysOf(s \o t)
    <3> SUFFICES ASSUME NEW k \in 1 .. Len(t) PROVE Key(t[k].name) \in KeysOf(s \o t)
      BY <1>2 DEF KeysOf
    <3>1. Len(s) + k \in DOMAIN (s \o t) /\ (s \o t)[Len(s) + k] = t[k]
      BY <1>1, <1>2
    <3> QED BY <3>1 DEF KeysOf
  <2> QED BY <2>1, <2>2, <2>3
<1>5. Distinct(s \o t)
  <2> SUFFICES ASSUME NEW j \in 1 .. Len(s) + Len(t), NEW k \in 1 .. Len(s) + Len(t),
                      Key((s \o t)[j].name) = Key((s \o t)[k].name)
               PROVE  j = k
    BY <1>2 DEF Distinct
  <2>1. CASE j \in 1 .. Len(s) /\ k \in 1 .. Len(s)
    BY <2>1, <1>1, <1>2 DEF Distinct
  <2>2. CASE j - Len(s) \in 1 .. Len(t) /\ k - Len(s) \in 1 .. Len(t)
    <3>1. (s \o t)[j] = t[j - Len(s)] /\ (s \o t)[k] = t[k - Len(s)]
      BY <2>2, <1>2, <1>3
    <3>2. j - Len(s) = k - Len(s)
      BY <2>2, <3>1, <1>2 DEF Distinct
    <3> QED BY <3>2, <1>2
  <2>3. CASE j \in 1 .. Len(s) /\ k - Len(s) \in 1 .. Len(t)
    <3>1. (s \o t)[j] = s[j] /\ (s \o t)[k] = t[k - Len(s)]
      BY <2>3, <1>1, <1>2, <1>3
    <3>2. Key(s[j].name) \in KeysOf(s) /\ Key(t[k - Len(s)].name) \in KeysOf(t)
      BY <2>3, <1>2 DEF KeysOf
    <3> QED BY <3>1, <3>2
  <2>4. CASE k \in 1 .. Len(s) /\ j - Len(s) \in 1 .. Len(t)
    <3>1. (s \o t)[k] = s[k] /\ (s \o t)[j] = t[j - Len(s)]
      BY <2>4, <1>1, <1>2, <1>3
    <3>2. Key(s[k].name) \in KeysOf(s) /\ Key(t[j - Len(s)].name) \in KeysOf(t)
      BY <2>4, <1>2 DEF KeysOf
    <3> QED BY <3>1, <3>2
  <2> QED BY <2>1, <2>2, <2>3, <2>4, <1>2
<1> QED BY <1>1, <1>4, <1>5

\* The front of a queue that has more and has settled is a wanted name.
LEMMA FrontIsWanted ==
  ASSUME TypeOK, QueueInv, NEW i \in More, ~Unsettled(i)
  PROVE  /\ i \in Queues /\ queue[i].pos <= queue[i].end
         /\ Front(i) \in Names
         /\ Wanted(i, Front(i))
<1>1. /\ i \in Queues /\ queue[i].status = "moreEntries"
      /\ queue[i] \in Queue /\ dir[i] \in Seq(Names)
  BY DEF TypeOK, More
<1>2. queue[i].pos <= queue[i].end /\ Wanted(i, Front(i))
  BY <1>1 DEF Unsettled, Queue
<1>3. queue[i].pos \in DOMAIN dir[i]
  BY <1>1, <1>2 DEF Queue, QueueInv
<1> QED BY <1>1, <1>2, <1>3 DEF Front

\* What the status of the merged queue says of its queues.
LEMMA StatusSays ==
  /\ Status = "moreEntries" <=> NoError /\ front # 0
  /\ Status = "noMoreFiles" <=> NoError /\ front = 0
  /\ Status = "error" <=> ~NoError
BY DEF Status, NoError

LEMMA FrontIsNew ==
  ASSUME IInv, Resting, Status = "moreEntries"
  PROVE  /\ front \in More /\ ~Unsettled(front)
         /\ front \in Queues /\ queue[front].pos <= queue[front].end
         /\ Front(front) \in Names
         /\ Key(Front(front)) \in Keys /\ Size(Front(front)) \in Nat
         /\ Wanted(front, Front(front))
<1>1. front \in More /\ front \in Queues /\ ~Unsettled(front)
  BY StatusSays DEF IInv, FrontInv, More
<1> QED BY <1>1, FrontIsWanted, SizesAssumption DEF IInv, Keys

\* A queue that steps over an entry keeps its own part of the invariant when the
\* entry is unwanted or enumerated.
LEMMA PopKeeps ==
  ASSUME TypeOK, QueueInv, PassedInv, NEW i \in More,
         queue[i].pos <= queue[i].end, Pop(i), UNCHANGED <<dir, pattern>>,
         seen \subseteq seen', Wanted(i, Front(i)) => Key(Front(i)) \in seen'
  PROVE  /\ queue' \in [Queues -> Queue]
         /\ QueueInv' /\ PassedInv'
         /\ NoError' <=> NoError
<1>1. i \in Queues /\ queue \in [Queues -> Queue] /\ queue[i].status = "moreEntries"
  BY DEF TypeOK, More
<1>2. /\ queue' \in [Queues -> Queue]
      /\ \A j \in Queues : /\ queue'[j].handle = queue[j].handle
                           /\ queue'[j].status = queue[j].status
                           /\ queue'[j].end = queue[j].end
                           /\ queue'[j].pos = IF j = i THEN queue[i].pos + 1 ELSE queue[j].pos
  BY <1>1 DEF Pop, Queue
<1>3. QueueInv'
  <2>1. \A j \in Queues : /\ queue[j].pos \in Nat /\ queue[j].end \in Nat
                         /\ Len(dir[j]) \in Nat
    BY <1>1 DEF TypeOK, Queue
  <2> QED BY <1>1, <1>2, <2>1 DEF QueueInv
<1>4. NoError' <=> NoError
  BY <1>2 DEF NoError
<1>5. PassedInv'
  <2> SUFFICES ASSUME NEW j \in Queues, queue'[j].handle, NEW k \in Behind(j)'
               PROVE  Key(dir[j][k]) \in seen'
    BY DEF PassedInv
  <2>1. k \in DOMAIN dir[j] /\ k < queue'[j].pos /\ Wanted(j, dir[j][k])
    BY DEF Behind, Wanted
  <2>2. k \in Nat
    BY <2>1 DEF TypeOK
  <2>3. CASE k \in Behind(j)
    BY <2>3, <1>2 DEF PassedInv
  <2>4. CASE k \notin Behind(j)
    <3>1. ~(k < queue[j].pos)
      BY <2>1, <2>4 DEF Behind
    <3>2. queue[j].pos \in Nat
      BY <1>1 DEF Queue
    <3>3. j = i /\ k = queue[i].pos
      BY <2>1, <2>2, <3>1, <3>2, <1>1, <1>2
    <3> QED BY <3>3, <2>1 DEF Front
  <2> QED BY <2>3, <2>4
<1> QED BY <1>2, <1>3, <1>4, <1>5

\* While the queues settle nothing is written and no front is relied on.
LEMMA SettleQueueKeeps ==
  ASSUME IInv, SettleQueue
  PROVE  IInv'
<1> USE DEF IInv
<1>1. PICK i \in Queues :
        /\ Unsettled(i)
        /\ IF queue[i].pos > queue[i].end THEN Fetch(i) ELSE Pop(i)
  BY DEF SettleQueue
<1>2. /\ pc = "settle" /\ i \in More /\ queue[i].status = "moreEntries"
      /\ UNCHANGED <<dir, front, seen, first, pattern, pc, after, call, out, used,
                     reply, told, restarts>>
  BY <1>1 DEF SettleQueue, Unsettled, More
<1>3. /\ queue \in [Queues -> Queue]
      /\ \A j \in Queues : /\ queue[j].pos \in Nat /\ queue[j].end \in Nat
                           /\ queue[j].handle \in BOOLEAN /\ queue[j].status \in Statuses
                           /\ dir[j] \in Seq(Names)
  BY DEF TypeOK, Queue
<1>4. /\ queue' \in [Queues -> Queue]
      /\ QueueInv' /\ PassedInv'
      /\ NoError' => NoError
  <2>1. CASE queue[i].pos <= queue[i].end
    <3>1. Pop(i) /\ ~Wanted(i, Front(i))
      BY <2>1, <1>1, <1>3 DEF Unsettled
    <3> QED BY <2>1, <3>1, <1>2, PopKeeps
  <2>2. CASE queue[i].pos > queue[i].end
    <3>1. PICK end \in Nat, status \in Statuses :
            /\ queue' = [queue EXCEPT ![i].end = end, ![i].status = status]
            /\ end >= queue[i].end /\ end <= Len(dir[i])
            /\ status = "noMoreFiles" => queue[i].pos > Len(dir[i])
      <4>1. Fetch(i)
        BY <2>2, <1>1
      <4>2. CASE \E end \in DOMAIN dir[i] : Filled(i, end)
        <5>1. PICK end \in DOMAIN dir[i] : Filled(i, end)
          BY <4>2
        <5>2. queue' = [queue EXCEPT ![i].end = end, ![i].status = "moreEntries"]
          BY <5>1, <1>2, <1>3 DEF Filled, Queue
        <5>3. end \in Nat /\ end >= queue[i].end /\ end <= Len(dir[i])
          BY <5>1, <1>3 DEF Filled
        <5> QED BY <5>2, <5>3 DEF Statuses
      <4>3. CASE Exhausted(i) /\ Stopped(i, "noMoreFiles")
        <5>1. queue' = [queue EXCEPT ![i].end = queue[i].end, ![i].status = "noMoreFiles"]
          BY <4>3, <1>3 DEF Stopped, Queue
        <5>2. queue[i].end = Len(dir[i])
          BY <4>3 DEF Exhausted
        <5>3. queue[i].end \in Nat /\ queue[i].end >= queue[i].end /\ queue[i].pos > Len(dir[i])
          BY <5>2, <2>2, <1>3
        <5>4. "noMoreFiles" \in Statuses
          BY DEF Statuses
        <5> QED BY <5>1, <5>2, <5>3, <5>4
      <4>4. CASE Stopped(i, "error")
        <5>1. queue' = [queue EXCEPT ![i].end = queue[i].end, ![i].status = "error"]
          BY <4>4, <1>3 DEF Stopped, Queue
        <5>2. queue[i].end \in Nat /\ queue[i].end >= queue[i].end /\ queue[i].end <= Len(dir[i])
          BY <1>3 DEF QueueInv
        <5>3. "error" \in Statuses /\ "error" # "noMoreFiles"
          BY DEF Statuses
        <5> QED BY <5>1, <5>2, <5>3
      <4> QED BY <4>1, <4>2, <4>3, <4>4 DEF Fetch
    <3>2. /\ queue' \in [Queues -> Queue]
          /\ \A j \in Queues :
               /\ queue'[j].handle = queue[j].handle /\ queue'[j].pos = queue[j].pos
               /\ queue'[j].status = IF j = i THEN status ELSE queue[j].status
               /\ queue'[j].end = IF j = i THEN end ELSE queue[j].end
      BY <3>1, <1>3 DEF Queue
    <3>3. QueueInv'
      <4> SUFFICES ASSUME NEW j \in Queues
                   PROVE  /\ queue'[j].end <= Len(dir[j])
                          /\ queue'[j].pos >= 1
                          /\ queue'[j].status = "moreEntries" => queue'[j].pos <= queue'[j].end + 1
                          /\ queue'[j].status = "noMoreFiles" /\ queue'[j].handle =>
                               queue'[j].pos > Len(dir[j])
        BY <1>2 DEF QueueInv
      <4>1. CASE j = i
        BY <4>1, <3>1, <3>2, <1>2, <1>3 DEF QueueInv
      <4>2. CASE j # i
        BY <4>2, <3>2 DEF QueueInv
      <4> QED BY <4>1, <4>2
    <3>4. PassedInv'
      BY <3>2, <1>2 DEF PassedInv, Behind, Wanted
    <3>5. NoError' => NoError
      BY <3>2, <1>2 DEF NoError
    <3> QED BY <3>2, <3>3, <3>4, <3>5
  <2> QED BY <2>1, <2>2, <1>3
<1>5. TypeOK'
  BY <1>2, <1>4 DEF TypeOK
<1>6. FrontInv' /\ NewFront'
  BY <1>2 DEF FrontInv, NewFront, Resting
<1>7. SeenInv' /\ CallInv'
  BY <1>2, <1>4 DEF SeenInv, CallInv, Unwritten, Beginning, KeysOf, Distinct
<1> QED BY <1>4, <1>5, <1>6, <1>7

LEMMA SelectFrontKeeps ==
  ASSUME IInv, SelectFront
  PROVE  IInv'
<1> USE DEF IInv
<1>1. /\ pc = "settle" /\ pc' = after /\ \A i \in Queues : ~Unsettled(i)
      /\ UNCHANGED <<dir, queue, seen, first, pattern, after, call, out, used,
                     reply, told, restarts>>
  BY DEF SelectFront
<1>2. IF front' = 0 THEN More = {} ELSE front' \in More
  BY DEF SelectFront, IsFront, More, Queues
<1>3. TypeOK'
  BY <1>1, <1>2 DEF TypeOK, More
<1>4. QueueInv' /\ PassedInv' /\ (NoError' <=> NoError)
  BY <1>1 DEF QueueInv, PassedInv, Behind, Wanted, NoError
<1>5. FrontInv'
  BY <1>1, <1>2 DEF FrontInv, Unsettled, Wanted, Front, More, TypeOK
<1>6. NewFront'
  BY <1>1 DEF NewFront, CallInv, Beginning, TypeOK
<1>7. SeenInv'
  BY <1>1, <1>4 DEF SeenInv, KeysOf, Distinct
<1>8. CallInv'
  <2>1. after \in {"restart", "check", "skip"}
    BY DEF TypeOK
  <2> QED BY <1>1, <2>1 DEF CallInv, Unwritten, Beginning
<1> QED BY <1>8, <1>3, <1>4, <1>5, <1>6, <1>7

\* The queues are opened at the beginning of their directories.
LEMMA FirstCallKeeps ==
  ASSUME IInv, NEW c \in Call, FirstCall(c)
  PROVE  IInv'
<1> USE DEF IInv
<1>1. /\ pc = "absent" /\ pc' = "settle" /\ after' \in {"restart", "check"}
      /\ call' = c /\ pattern' = c.pattern /\ first' = TRUE
      /\ UNCHANGED <<dir, front, seen, out, used, reply, told>>
  BY DEF FirstCall, Settle
<1>2. PICK outcome \in [Queues -> {"opened", "missing", "denied"}] :
        queue' = [i \in Queues |-> Opened(outcome[i])]
  BY DEF FirstCall
<1>3. /\ queue' \in [Queues -> Queue]
      /\ \A i \in Queues : /\ queue'[i].pos = 1 /\ queue'[i].end = 0
                           /\ queue'[i].status = "noMoreFiles" => ~queue'[i].handle
  BY <1>2 DEF Opened, Queue, Statuses
<1>4. restarts' \in 0 .. MaxRestarts
  BY SizesAssumption DEF FirstCall, Restarts, TypeOK, Call
<1>5. TypeOK'
  BY <1>1, <1>3, <1>4 DEF TypeOK, Call
<1>6. QueueInv'
  <2>1. \A i \in Queues : Len(dir[i]) \in Nat
    BY DEF TypeOK
  <2> QED BY <1>1, <1>3, <2>1 DEF QueueInv
<1>7. PassedInv'
  <2>1. \A i \in Queues : \A k \in DOMAIN dir[i] : k \in Nat /\ k >= 1
    BY DEF TypeOK
  <2> QED BY <1>1, <1>3, <2>1 DEF PassedInv, Behind
<1>8. FrontInv' /\ NewFront' /\ CallInv'
  BY <1>1 DEF FrontInv, NewFront, Resting, CallInv, Unwritten, Beginning
<1>9. SeenInv'
  BY <1>1 DEF SeenInv, KeysOf, Distinct, CallInv, Beginning
<1> QED BY <1>5, <1>6, <1>7, <1>8, <1>9

LEMMA LaterCallKeeps ==
  ASSUME IInv, NEW c \in Call, LaterCall(c)
  PROVE  IInv'
<1> USE DEF IInv
<1>1. /\ pc = "idle" /\ pc' \in {"restart", "check"} /\ call' = c
      /\ UNCHANGED <<dir, queue, front, seen, first, pattern, after, out, used, reply, told>>
  BY DEF LaterCall
<1>2. restarts' \in 0 .. MaxRestarts
  BY SizesAssumption DEF LaterCall, Restarts, TypeOK, Call
<1>3. TypeOK'
  BY <1>1, <1>2 DEF TypeOK
<1>4. QueueInv' /\ PassedInv' /\ (NoError' <=> NoError)
  BY <1>1 DEF QueueInv, PassedInv, Behind, Wanted, NoError
<1>5. FrontInv'
  BY <1>1 DEF FrontInv, Resting, Unsettled, Wanted, Front, More
<1>6. NewFront'
  BY <1>1 DEF NewFront, Front, Status
<1>7. SeenInv' /\ CallInv'
  BY <1>1, <1>4 DEF SeenInv, KeysOf, Distinct, CallInv, Unwritten, Beginning
<1> QED BY <1>3, <1>4, <1>5, <1>6, <1>7

\* A new scan forgets what was enumerated and told.
LEMMA RestartKeeps ==
  ASSUME IInv, Restart
  PROVE  IInv'
<1> USE DEF IInv
<1>1. /\ pc = "restart" /\ pc' = "settle" /\ after' = "check" /\ seen' = {} /\ first' = TRUE
      /\ told' = <<>> /\ pattern' \in Patterns \cup {NoPattern}
      /\ UNCHANGED <<dir, front, call, out, used, reply, restarts>>
  BY DEF Restart, Settle, TypeOK, Call
<1>2. queue' = [i \in Queues |-> Restarted(queue[i])]
  BY DEF Restart
<1>3. /\ queue' \in [Queues -> Queue]
      /\ \A i \in Queues : /\ queue'[i].pos = 1 /\ queue'[i].end = 0
                           /\ queue'[i].status = "noMoreFiles" => ~queue'[i].handle
  <2> SUFFICES ASSUME NEW i \in Queues
               PROVE  /\ Restarted(queue[i]) \in Queue
                      /\ Restarted(queue[i]).pos = 1 /\ Restarted(queue[i]).end = 0
                      /\ Restarted(queue[i]).status = "noMoreFiles" =>
                           ~Restarted(queue[i]).handle
    BY <1>2
  <2>1. queue[i] \in Queue
    BY DEF TypeOK
  <2> QED BY <2>1 DEF Restarted, Queue, Statuses
<1>4. TypeOK'
  BY <1>1, <1>3 DEF TypeOK
<1>5. QueueInv'
  <2>1. \A i \in Queues : Len(dir[i]) \in Nat
    BY DEF TypeOK
  <2> QED BY <1>1, <1>3, <2>1 DEF QueueInv
<1>6. PassedInv'
  <2>1. \A i \in Queues : \A k \in DOMAIN dir[i] : k \in Nat /\ k >= 1
    BY DEF TypeOK
  <2> QED BY <1>1, <1>3, <2>1 DEF PassedInv, Behind
<1>7. FrontInv' /\ NewFront'
  BY <1>1 DEF FrontInv, NewFront, Resting
<1>8. out = <<>> /\ out' = <<>> /\ CallInv'
  BY <1>1 DEF CallInv, Unwritten, Beginning
<1>9. SeenInv'
  BY <1>1, <1>8 DEF SeenInv, KeysOf, Distinct
<1> QED BY <1>4, <1>5, <1>6, <1>7, <1>8, <1>9

\* The answer of a call tells what it has written, or nothing: then it has
\* written nothing or there is an error.
LEMMA AnswerKeeps ==
  ASSUME IInv, NEW status \in Replies, NEW entries \in {<<>>, out},
         Answer(status, entries),
         entries # out => ~NoError,
         pc \in {"check", "copy", "skip"},
         pc = "skip" /\ Status = "moreEntries" => Key(Front(front)) \notin seen,
         first' \in BOOLEAN,
         UNCHANGED <<dir, queue, front, seen, pattern, after, call, restarts>>
  PROVE  IInv'
<1> USE DEF IInv
<1>1. /\ reply' = [status |-> status, keys |-> [k \in DOMAIN entries |-> Key(entries[k].name)]]
      /\ told' = told \o entries /\ out' = <<>> /\ used' = 0 /\ pc' = "idle"
  BY DEF Answer
<1>2. told \in Seq(Entry) /\ out \in Seq(Entry) /\ entries \in Seq(Entry)
  <2>1. told \in Seq(Entry) /\ out \in Seq(Entry) /\ <<>> \in Seq(Entry)
    BY DEF TypeOK
  <2> QED BY <2>1
<1>3. /\ told' \in Seq(Entry) /\ Distinct(told')
      /\ KeysOf(told') = KeysOf(told) \cup KeysOf(entries)
  <2>1. CASE entries = out
    BY <2>1, <1>1, <1>2, ConcatDistinct DEF SeenInv
  <2>2. CASE entries = <<>>
    <3>1. told' = told
      BY <2>2, <1>1, <1>2
    <3> QED BY <2>2, <3>1, <1>2 DEF SeenInv, KeysOf
  <2> QED BY <2>1, <2>2
<1>4. reply'.status \in Replies /\ reply'.keys \in Seq(Keys)
  <2>1. \A k \in 1 .. Len(entries) : Key(entries[k].name) \in Keys
    <3> TAKE k \in 1 .. Len(entries)
    <3>1. entries[k] \in Entry
      BY <1>2
    <3> QED BY <3>1 DEF Entry, Keys
  <2>2. [k \in 1 .. Len(entries) |-> Key(entries[k].name)] \in Seq(Keys)
    BY <2>1, <1>2
  <2>3. DOMAIN entries = 1 .. Len(entries)
    BY <1>2
  <2> QED BY <2>2, <2>3, <1>1
<1>5. TypeOK'
  BY <1>1, <1>3, <1>4 DEF TypeOK
<1>6. QueueInv' /\ PassedInv' /\ (NoError' <=> NoError)
  BY DEF QueueInv, PassedInv, Behind, Wanted, NoError
<1>7. FrontInv'
  BY <1>1 DEF FrontInv, Resting, Unsettled, Wanted, Front, More
<1>8. NewFront'
  BY <1>1 DEF NewFront, Front, Status
<1>9. SeenInv'
  <2>1. KeysOf(out') = {} /\ Distinct(out')
    BY <1>1 DEF KeysOf, Distinct
  <2>2. KeysOf(told)' = KeysOf(told') /\ KeysOf(out)' = KeysOf(out')
    BY DEF KeysOf
  <2>3. Distinct(told)' /\ Distinct(out)'
    BY <2>1, <1>3 DEF Distinct
  <2>4. KeysOf(entries) \subseteq KeysOf(out) /\ (NoError => KeysOf(entries) = KeysOf(out))
    BY DEF KeysOf
  <2> QED BY <2>1, <2>2, <2>3, <2>4, <1>3, <1>6 DEF SeenInv
<1>10. CallInv'
  BY <1>1 DEF CallInv, Unwritten, Beginning
<1> QED BY <1>5, <1>6, <1>7, <1>8, <1>9, <1>10

\* The call goes on to copy a front that is new.
LEMMA GoOnKeeps ==
  ASSUME IInv, pc \in {"check", "skip"}, pc' = "copy", Status = "moreEntries",
         Key(Front(front)) \notin seen, first' \in BOOLEAN,
         UNCHANGED <<dir, queue, front, seen, pattern, after, call, out, used, reply,
                     told, restarts>>
  PROVE  IInv'
<1> USE DEF IInv
<1>1. TypeOK'
  BY DEF TypeOK
<1>2. QueueInv' /\ PassedInv' /\ (NoError' <=> NoError)
  BY DEF QueueInv, PassedInv, Behind, Wanted, NoError
<1>3. FrontInv'
  BY DEF FrontInv, Resting, Unsettled, Wanted, Front, More, Status
<1>4. NewFront'
  BY DEF NewFront, Front
<1>5. SeenInv' /\ CallInv'
  BY <1>2 DEF SeenInv, KeysOf, Distinct, CallInv, Unwritten, Beginning
<1> QED BY <1>1, <1>2, <1>3, <1>4, <1>5

LEMMA CheckKeeps ==
  ASSUME IInv, Check
  PROVE  IInv'
<1>1. /\ pc = "check" /\ first' \in BOOLEAN
      /\ UNCHANGED <<dir, queue, front, seen, pattern, after, call, restarts>>
  BY DEF Check
<1>2. out = <<>>
  BY <1>1 DEF IInv, CallInv, Unwritten
<1>3. CASE \E status \in Replies : Answer(status, <<>>)
  BY <1>1, <1>2, <1>3, AnswerKeeps
<1>4. CASE Status = "moreEntries" /\ pc' = "copy" /\ UNCHANGED <<out, used, reply, told>>
  <2>1. Key(Front(front)) \notin seen
    BY <1>1, <1>4 DEF IInv, NewFront
  <2> QED BY <1>1, <1>4, <2>1, GoOnKeeps
<1>5. Status \in {"error", "noMoreFiles", "moreEntries"}
  BY DEF Status
<1> QED BY <1>3, <1>4, <1>5 DEF Check, Replies

\* What is copied is enumerated, and was not.
LEMMA CopyFrontKeeps ==
  ASSUME IInv, CopyFront
  PROVE  IInv'
<1> DEFINE e == [from |-> front, name |-> Front(front)]
<1>1. /\ pc = "copy" /\ pc' = "settle" /\ after' = "skip"
      /\ out' = Append(out, e) /\ used' = used + Size(Front(front))
      /\ seen' = seen \cup {Key(Front(front))} /\ Pop(front)
      /\ UNCHANGED <<dir, front, first, pattern, call, reply, told, restarts>>
  BY DEF CopyFront, Settle
<1>2. /\ Status = "moreEntries" /\ Resting
  BY <1>1 DEF IInv, FrontInv, Resting
<1>3. /\ front \in More /\ front \in Queues /\ queue[front].pos <= queue[front].end
      /\ Front(front) \in Names
      /\ Key(Front(front)) \in Keys /\ Size(Front(front)) \in Nat
  BY <1>2, FrontIsNew
<1>4. Key(Front(front)) \notin seen
  BY <1>1, <1>2 DEF IInv, NewFront
<1>5. /\ queue' \in [Queues -> Queue]
      /\ QueueInv' /\ PassedInv'
      /\ NoError' <=> NoError
  BY <1>1, <1>3, PopKeeps DEF IInv
<1>6. /\ out \in Seq(Entry) /\ e \in Entry /\ Distinct(out)
      /\ Key(e.name) \notin KeysOf(out) /\ Key(e.name) \notin KeysOf(told)
  BY <1>3, <1>4 DEF IInv, TypeOK, SeenInv, Entry
<1>7. /\ out' \in Seq(Entry) /\ Distinct(out')
      /\ KeysOf(out') = KeysOf(out) \cup {Key(Front(front))}
  BY <1>1, <1>6, AppendDistinct
<1>8. TypeOK'
  BY <1>1, <1>3, <1>5, <1>7 DEF IInv, TypeOK
<1>9. FrontInv' /\ NewFront'
  BY <1>1 DEF FrontInv, NewFront, Resting
<1>10. SeenInv'
  <2>1. KeysOf(told)' = KeysOf(told) /\ KeysOf(out)' = KeysOf(out')
    BY <1>1 DEF KeysOf
  <2>2. Distinct(told)' /\ Distinct(out)'
    BY <1>1, <1>7 DEF IInv, SeenInv, Distinct
  <2> QED BY <2>1, <2>2, <1>1, <1>4, <1>5, <1>6, <1>7 DEF IInv, SeenInv
<1>11. CallInv'
  BY <1>1 DEF CallInv, Unwritten, Beginning
<1> QED BY <1>5, <1>8, <1>9, <1>10, <1>11 DEF IInv

LEMMA BufferFullKeeps ==
  ASSUME IInv, BufferFull
  PROVE  IInv'
<1>1. /\ pc = "copy" /\ Answer("success", out)
      /\ UNCHANGED <<dir, queue, front, seen, first, pattern, after, call, restarts>>
  BY DEF BufferFull
<1>2. first' \in BOOLEAN
  BY <1>1 DEF IInv, TypeOK
<1> QED BY <1>1, <1>2, AnswerKeeps DEF Replies

LEMMA SkipSeenKeeps ==
  ASSUME IInv, SkipSeen
  PROVE  IInv'
<1>1. /\ pc = "skip" /\ pc' = "settle" /\ after' = "skip" /\ Status = "moreEntries"
      /\ Key(Front(front)) \in seen /\ Pop(front)
      /\ UNCHANGED <<dir, front, seen, first, pattern, call, out, used, reply, told,
                     restarts>>
  BY DEF SkipSeen, Settle
<1>2. front \in More /\ queue[front].pos <= queue[front].end
  BY <1>1, FrontIsNew DEF Resting
<1>3. /\ queue' \in [Queues -> Queue]
      /\ QueueInv' /\ PassedInv'
      /\ NoError' <=> NoError
  BY <1>1, <1>2, PopKeeps DEF IInv
<1>4. TypeOK'
  BY <1>1, <1>3 DEF IInv, TypeOK
<1>5. FrontInv' /\ NewFront'
  BY <1>1 DEF FrontInv, NewFront, Resting
<1>6. SeenInv' /\ CallInv'
  BY <1>1, <1>3 DEF IInv, SeenInv, KeysOf, Distinct, CallInv, Unwritten, Beginning
<1> QED BY <1>3, <1>4, <1>5, <1>6 DEF IInv

LEMMA SkipDoneKeeps ==
  ASSUME IInv, SkipDone
  PROVE  IInv'
<1>1. /\ pc = "skip"
      /\ Status = "moreEntries" => Key(Front(front)) \notin seen
      /\ UNCHANGED <<dir, queue, front, seen, first, pattern, after, call, restarts>>
  BY DEF SkipDone
<1>2. first' \in BOOLEAN
  BY <1>1 DEF IInv, TypeOK
<1>3. CASE Status = "error" /\ Answer("error", <<>>)
  <2>1. ~NoError
    BY <1>3, StatusSays
  <2> QED BY <1>1, <1>2, <1>3, <2>1, AnswerKeeps DEF Replies
<1>4. CASE Status = "noMoreFiles" /\ Answer("success", out)
  BY <1>1, <1>2, <1>4, AnswerKeeps DEF Replies
<1>5. CASE Status = "moreEntries" /\ call.single /\ Answer("success", out)
  BY <1>1, <1>2, <1>5, AnswerKeeps DEF Replies
<1>6. CASE Status = "moreEntries" /\ pc' = "copy" /\ UNCHANGED <<out, used, reply, told>>
  BY <1>1, <1>2, <1>6, GoOnKeeps
<1>7. \/ Status = "error" /\ Answer("error", <<>>)
      \/ Status = "noMoreFiles" /\ Answer("success", out)
      \/ Status = "moreEntries" /\ call.single /\ Answer("success", out)
      \/ Status = "moreEntries" /\ pc' = "copy" /\ UNCHANGED <<out, used, reply, told>>
  <2>1. Status \in {"error", "noMoreFiles", "moreEntries"}
    BY DEF Status
  <2>2. CASE Status = "error"
    BY <2>2 DEF SkipDone
  <2>3. CASE Status = "noMoreFiles"
    BY <2>3 DEF SkipDone
  <2>4. CASE Status = "moreEntries"
    BY <2>4 DEF SkipDone
  <2> QED BY <2>1, <2>2, <2>3, <2>4
<1> QED BY <1>3, <1>4, <1>5, <1>6, <1>7

-----------------------------------------------------------------------------

LEMMA InitKeeps ==
  ASSUME Init
  PROVE  IInv
<1>1. dir \in [Queues -> Seq(Names)]
  BY DirectoriesAssumption DEF Init, Queues
<1>2. /\ queue \in [Queues -> Queue]
      /\ \A i \in Queues : ~queue[i].handle /\ queue[i].pos = 1 /\ queue[i].end = 0
                           /\ queue[i].status = "noMoreFiles"
  BY DEF Init, Opened, Queue, Statuses
<1>3. TypeOK
  BY <1>1, <1>2, SizesAssumption DEF Init, TypeOK, Keys, Replies
<1>4. QueueInv /\ PassedInv
  <2>1. \A i \in Queues : Len(dir[i]) \in Nat
    BY <1>1
  <2> QED BY <1>2, <2>1 DEF QueueInv, PassedInv
<1>5. FrontInv /\ NewFront
  BY DEF Init, FrontInv, Resting, NewFront
<1>6. SeenInv /\ CallInv
  BY DEF Init, SeenInv, KeysOf, Distinct, CallInv, Unwritten, Beginning
<1> QED BY <1>3, <1>4, <1>5, <1>6 DEF IInv

LEMMA StepKeeps ==
  ASSUME IInv, [Next]_vars
  PROVE  IInv'
<1>1. CASE Next
  <2>1. CASE SettleQueue \/ SelectFront \/ Restart \/ Check
    BY <2>1, SettleQueueKeeps, SelectFrontKeeps, RestartKeeps, CheckKeeps
  <2>2. CASE CopyFront \/ BufferFull \/ SkipSeen \/ SkipDone
    BY <2>2, CopyFrontKeeps, BufferFullKeeps, SkipSeenKeeps, SkipDoneKeeps
  <2>3. CASE \E c \in Call : FirstCall(c) \/ LaterCall(c)
    BY <2>3, FirstCallKeeps, LaterCallKeeps
  <2> QED BY <1>1, <2>1, <2>2, <2>3 DEF Next, Step
<1>2. CASE UNCHANGED vars
  <2>1. TypeOK' /\ QueueInv' /\ PassedInv' /\ (NoError' <=> NoError)
    BY <1>2 DEF vars, IInv, TypeOK, QueueInv, PassedInv, Behind, Wanted, NoError
  <2>2. FrontInv' /\ NewFront'
    BY <1>2 DEF vars, IInv, FrontInv, Resting, Unsettled, Wanted, Front, More, Status, NewFront
  <2>3. SeenInv' /\ CallInv'
    BY <1>2, <2>1 DEF vars, IInv, SeenInv, KeysOf, Distinct, CallInv, Unwritten, Beginning
  <2> QED BY <2>1, <2>2, <2>3 DEF IInv
<1> QED BY <1>1, <1>2

\* The inductive invariant holds of every listing.
THEOREM Invariance == Spec => []IInv
BY InitKeeps, StepKeeps, PTL DEF Spec

\* The queues, the call and what has been told keep their types.
THEOREM TypeCorrect == Spec => []TypeOK
<1>1. IInv => TypeOK
  BY DEF IInv
<1> QED BY <1>1, Invariance, PTL

\* AdvanceDirectoryEnumerationOperation never tells a name twice in one scan.
THEOREM NamesAreToldOnce == Spec => []NoDuplicates
<1>1. IInv => NoDuplicates
  BY DEF IInv, SeenInv, NoDuplicates
<1> QED BY <1>1, Invariance, PTL

\* No pop of a queue and no break between two calls drops a name.
THEOREM NamesAreNotLost == Spec => []NothingLost
<1>1. IInv => NothingLost
  BY DEF IInv, SeenInv, PassedInv, NothingLost
<1> QED BY <1>1, Invariance, PTL

\* At the end every queue has passed all it offers.
LEMMA EndTellsAll ==
  ASSUME IInv, pc = "check", Status = "noMoreFiles",
         NEW i \in Queues, NEW n \in Offered(i)
  PROVE  Key(n) \in KeysOf(told)
<1>1. NoError /\ front = 0 /\ More = {} /\ out = <<>>
  BY StatusSays DEF IInv, FrontInv, Resting, CallInv, Unwritten
<1>2. PICK k \in DOMAIN dir[i] : n = dir[i][k] /\ Wanted(i, dir[i][k]) /\ queue[i].handle
  BY DEF Offered
<1>3. queue[i].status = "noMoreFiles"
  BY <1>1 DEF More, NoError, IInv, TypeOK, Queue, Statuses
<1>4. queue[i].pos > Len(dir[i])
  BY <1>2, <1>3 DEF IInv, QueueInv
<1>5. k \in Behind(i)
  <2>1. k \in Nat /\ k <= Len(dir[i]) /\ queue[i].pos \in Nat /\ Len(dir[i]) \in Nat
    BY <1>2 DEF IInv, TypeOK, Queue
  <2> QED BY <1>2, <1>4, <2>1 DEF Behind
<1>6. Key(n) \in KeysOf(told) \cup KeysOf(out)
  BY <1>1, <1>2, <1>5 DEF IInv, PassedInv, SeenInv
<1> QED BY <1>1, <1>6 DEF KeysOf

\* A listing that ends has told every name of every directory it reads.
THEOREM EndIsComplete == Spec => []Complete
<1>1. IInv => Complete
  BY EndTellsAll DEF Complete
<1> QED BY <1>1, Invariance, PTL

-----------------------------------------------------------------------------
(* What the promise of a listing needs besides. *)

\* A call has begun to copy fronts, and has copied one.
Writing == pc \in {"copy", "skip"} \/ (pc = "settle" /\ after = "skip")

Written == pc = "skip" \/ (pc = "settle" /\ after = "skip")

\* A queue that has entries has a directory; the front is the one to tell next.
MergeInv ==
  /\ \A i \in Queues : queue[i].status = "moreEntries" => queue[i].handle
  /\ Resting /\ front # 0 => IsFront(front)

\* The first front of a call fits, so that a call with a full buffer has told one.
RoomInv ==
  /\ Writing => ~first
  /\ Written => out # <<>>
  /\ out = <<>> => used = 0
  /\ pc = "copy" /\ out = <<>> => Size(Front(front)) <= call.capacity

OfFirst(e) == \A i \in 1 .. e.from - 1 : Key(e.name) \notin {Key(n) : n \in Offered(i)}

AllSorted == \A i \in Queues : Sorted(dir[i])

\* Every entry is offered, by the first queue that does.
OfferInv ==
  /\ KeysOf(out) \subseteq Visible
  /\ AllSorted => /\ \A k \in DOMAIN out : OfFirst(out[k])
                  /\ \A k \in DOMAIN told : OfFirst(told[k])

LInv == IInv /\ MergeInv /\ RoomInv /\ OfferInv

\* What the queues offer changes only when a scan begins.
LEMMA SameOffer ==
  ASSUME UNCHANGED <<dir, pattern>>,
         \A i \in Queues : queue'[i].handle = queue[i].handle
  PROVE  /\ \A i \in Queues : Offered(i)' = Offered(i)
         /\ Visible' = Visible
<1>1. \A i \in Queues : Offered(i)' = Offered(i)
  BY DEF Offered, Wanted
<1> QED BY <1>1 DEF Visible

LEMMA SameEntries ==
  ASSUME LInv, \A i \in Queues : Offered(i)' = Offered(i), Visible' = Visible,
         UNCHANGED <<dir, out, told>>
  PROVE  OfferInv'
<1>1. ASSUME NEW e \in Entry, OfFirst(e) PROVE OfFirst(e)'
  <2>1. \A i \in 1 .. e.from - 1 : i \in Queues
    BY SizesAssumption DEF Entry, Queues
  <2> QED BY <1>1, <2>1 DEF OfFirst
<1>2. /\ \A k \in DOMAIN out : out[k] \in Entry
      /\ \A k \in DOMAIN told : told[k] \in Entry
  BY DEF LInv, IInv, TypeOK
<1>3. AllSorted' => AllSorted
  BY DEF AllSorted, Sorted
<1>4. AllSorted => \A k \in DOMAIN out : OfFirst(out[k])'
  BY <1>1, <1>2 DEF LInv, OfferInv
<1>5. AllSorted => \A k \in DOMAIN told : OfFirst(told[k])'
  BY <1>1, <1>2 DEF LInv, OfferInv
<1>6. KeysOf(out)' \subseteq Visible'
  BY DEF LInv, OfferInv, KeysOf
<1> QED BY <1>3, <1>4, <1>5, <1>6 DEF OfferInv, OfFirst

LEMMA PopHandles ==
  ASSUME TypeOK, NEW i \in Queues, Pop(i)
  PROVE  \A j \in Queues : /\ queue'[j].handle = queue[j].handle
                           /\ queue'[j].status = queue[j].status
BY DEF Pop, TypeOK, Queue

\* What settling does to the queues: one may stop, none gets or loses a directory.
LEMMA SettleChanges ==
  ASSUME LInv, SettleQueue
  PROVE  /\ \A j \in Queues : /\ queue'[j].handle = queue[j].handle
                              /\ queue'[j].status = "moreEntries" =>
                                   queue[j].status = "moreEntries"
                              /\ queue[j].status = "error" => queue'[j].status = "error"
<1>1. PICK i \in Queues :
        /\ Unsettled(i)
        /\ IF queue[i].pos > queue[i].end THEN Fetch(i) ELSE Pop(i)
  BY DEF SettleQueue
<1>2. queue[i].status = "moreEntries" /\ queue \in [Queues -> Queue]
  BY <1>1 DEF Unsettled, LInv, IInv, TypeOK
<1>3. CASE Pop(i)
  BY <1>3, PopHandles DEF LInv, IInv
<1>4. CASE \E end \in DOMAIN dir[i] : Filled(i, end)
  BY <1>2, <1>4 DEF Filled, Queue
<1>5. CASE Stopped(i, "noMoreFiles") \/ Stopped(i, "error")
  BY <1>2, <1>5 DEF Stopped, Queue
<1> QED BY <1>1, <1>3, <1>4, <1>5 DEF Fetch

LEMMA SettleQueueTells ==
  ASSUME LInv, SettleQueue
  PROVE  LInv'
<1>1. /\ pc = "settle"
      /\ UNCHANGED <<dir, front, seen, first, pattern, pc, after, call, out, used,
                     reply, told, restarts>>
  BY DEF SettleQueue
<1>2. MergeInv'
  BY <1>1, SettleChanges DEF LInv, MergeInv, Resting
<1>3. RoomInv'
  BY <1>1 DEF LInv, RoomInv, Writing, Written
<1>4. OfferInv'
  BY <1>1, SettleChanges, SameOffer, SameEntries
<1> QED BY <1>2, <1>3, <1>4, SettleQueueKeeps DEF LInv

LEMMA SelectFrontTells ==
  ASSUME LInv, SelectFront
  PROVE  LInv'
<1>1. /\ pc = "settle" /\ pc' = after
      /\ front' = 0 \/ IsFront(front')
      /\ UNCHANGED <<dir, queue, seen, first, pattern, after, call, out, used, reply, told,
                     restarts>>
  BY DEF SelectFront
<1>2. MergeInv'
  <2>1. More' = More /\ \A i \in Queues : Front(i)' = Front(i)
    BY <1>1 DEF More, Front
  <2>2. front' # 0 => IsFront(front)'
    BY <1>1, <2>1 DEF IsFront, Front, More
  <2> QED BY <1>1, <2>2 DEF LInv, MergeInv
<1>3. RoomInv'
  BY <1>1 DEF LInv, RoomInv, Writing, Written, IInv, TypeOK
<1>4. OfferInv'
  BY <1>1, SameOffer, SameEntries
<1> QED BY <1>2, <1>3, <1>4, SelectFrontKeeps DEF LInv

\* Nothing has been told or written when a scan begins.
LEMMA NothingTold ==
  ASSUME OfferInv, Restart \/ \E c \in Call : FirstCall(c), IInv, RoomInv
  PROVE  /\ told' = <<>> /\ out' = <<>> /\ used' = 0
<1>1. out' = out /\ used' = used /\ out = <<>> /\ used = 0
  BY DEF Restart, FirstCall, IInv, CallInv, Unwritten, RoomInv
<1>2. CASE Restart
  BY <1>1, <1>2 DEF Restart
<1>3. CASE \E c \in Call : FirstCall(c)
  <2>1. pc = "absent" /\ told' = told
    BY <1>3 DEF FirstCall
  <2>2. KeysOf(told) = {} /\ told \in Seq(Entry)
    BY <2>1 DEF IInv, SeenInv, CallInv, Beginning, TypeOK
  <2>3. DOMAIN told = {}
    BY <2>2 DEF KeysOf
  <2> QED BY <1>1, <2>1, <2>2, <2>3
<1> QED BY <1>2, <1>3

LEMMA NewScanTells ==
  ASSUME LInv, Restart \/ \E c \in Call : FirstCall(c)
  PROVE  LInv'
<1>1. told' = <<>> /\ out' = <<>> /\ used' = 0
  BY NothingTold DEF LInv
<1>2. pc' = "settle" /\ after' # "skip"
  BY DEF Restart, FirstCall, Settle
<1>3. \A i \in Queues : queue'[i].status = "moreEntries" => queue'[i].handle
  <2>1. CASE Restart
    <3>1. queue' = [i \in Queues |-> Restarted(queue[i])]
      BY <2>1 DEF Restart
    <3>2. \A i \in Queues : queue[i] \in Queue
      BY DEF LInv, IInv, TypeOK
    <3> QED BY <3>1, <3>2 DEF Restarted, Queue
  <2>2. CASE \E c \in Call : FirstCall(c)
    <3>1. PICK outcome \in [Queues -> {"opened", "missing", "denied"}] :
            queue' = [i \in Queues |-> Opened(outcome[i])]
      BY <2>2 DEF FirstCall
    <3> QED BY <3>1 DEF Opened
  <2> QED BY <2>1, <2>2
<1>4. MergeInv' /\ RoomInv'
  BY <1>1, <1>2, <1>3 DEF MergeInv, RoomInv, Resting, Writing, Written
<1>5. OfferInv'
  <2>1. DOMAIN out' = {} /\ DOMAIN told' = {}
    BY <1>1
  <2> QED BY <2>1 DEF OfferInv, KeysOf
<1> QED BY <1>4, <1>5, RestartKeeps, FirstCallKeeps DEF LInv

LEMMA SameFront ==
  ASSUME MergeInv, Resting, UNCHANGED <<dir, queue, front>>
  PROVE  MergeInv'
BY DEF MergeInv, IsFront, Front, More

LEMMA LaterCallTells ==
  ASSUME LInv, NEW c \in Call, LaterCall(c)
  PROVE  LInv'
<1>1. /\ pc = "idle" /\ pc' \in {"restart", "check"}
      /\ UNCHANGED <<dir, queue, front, seen, first, pattern, after, out, used, reply, told>>
  BY DEF LaterCall
<1>2. MergeInv' /\ RoomInv'
  BY <1>1, SameFront DEF LInv, Resting, RoomInv, Writing, Written
<1>3. OfferInv'
  BY <1>1, SameOffer, SameEntries
<1> QED BY <1>2, <1>3, LaterCallKeeps DEF LInv

\* An answer tells the entries the call has written, or none.
LEMMA AnswerTells ==
  ASSUME LInv, NEW status \in Replies, NEW entries \in {<<>>, out}, Answer(status, entries),
         Resting, UNCHANGED <<dir, queue, front, pattern>>, first' \in BOOLEAN
  PROVE  MergeInv' /\ RoomInv' /\ OfferInv'
<1>1. told' = told \o entries /\ out' = <<>> /\ used' = 0 /\ pc' = "idle"
  BY DEF Answer
<1>2. MergeInv' /\ RoomInv'
  BY <1>1, SameFront DEF LInv, RoomInv, Writing, Written
<1>3. /\ \A i \in Queues : Offered(i)' = Offered(i)
      /\ AllSorted' = AllSorted
  BY SameOffer DEF AllSorted, Sorted
<1>4. told \in Seq(Entry) /\ entries \in Seq(Entry)
  <2>1. told \in Seq(Entry) /\ out \in Seq(Entry) /\ <<>> \in Seq(Entry)
    BY DEF LInv, IInv, TypeOK
  <2> QED BY <2>1
<1>5. ASSUME AllSorted, NEW k \in DOMAIN told'
      PROVE  told'[k] \in Entry /\ OfFirst(told'[k])
  <2>1. \/ k \in DOMAIN told /\ told'[k] = told[k]
        \/ \E m \in DOMAIN entries : told'[k] = entries[m]
    <3>1. k \in 1 .. Len(told) + Len(entries) /\ Len(told) \in Nat /\ Len(entries) \in Nat
      BY <1>1, <1>4, <1>5
    <3>2. CASE k <= Len(told)
      BY <1>1, <1>4, <3>1, <3>2
    <3>3. CASE k > Len(told)
      <4>1. k - Len(told) \in 1 .. Len(entries)
        BY <3>1, <3>3
      <4>2. told'[k] = entries[k - Len(told)]
        BY <1>1, <1>4, <3>1, <3>3
      <4> QED BY <1>4, <4>1, <4>2
    <3> QED BY <3>1, <3>2, <3>3
  <2>2. entries = <<>> => DOMAIN entries = {}
    OBVIOUS
  <2>3. \A m \in DOMAIN entries : OfFirst(entries[m])
    BY <1>5, <2>2 DEF LInv, OfferInv
  <2>4. \A m \in DOMAIN told : OfFirst(told[m])
    BY <1>5 DEF LInv, OfferInv
  <2> QED BY <1>4, <2>1, <2>3, <2>4
<1>6. ASSUME NEW e \in Entry, OfFirst(e) PROVE OfFirst(e)'
  <2>1. \A i \in 1 .. e.from - 1 : i \in Queues
    BY SizesAssumption DEF Entry, Queues
  <2> QED BY <1>3, <1>6, <2>1 DEF OfFirst
<1>7. OfferInv'
  <2>1. DOMAIN out' = {}
    BY <1>1
  <2>2. AllSorted' => \A k \in DOMAIN told' : OfFirst(told[k])'
    <3> SUFFICES ASSUME AllSorted, NEW k \in DOMAIN told' PROVE OfFirst(told[k])'
      BY <1>3
    <3> PICK e \in Entry : e = told'[k] /\ OfFirst(e)
      BY <1>5
    <3>1. OfFirst(e)'
      BY <1>6
    <3> QED BY <3>1 DEF OfFirst
  <2> QED BY <2>1, <2>2 DEF OfferInv, KeysOf
<1> QED BY <1>2, <1>7

\* The call goes on with a front that fits, or after an entry it has copied.
LEMMA GoOnTells ==
  ASSUME LInv, pc \in {"check", "skip"}, pc' = "copy", ~first',
         out = <<>> => Size(Front(front)) <= call.capacity,
         UNCHANGED <<dir, queue, front, pattern, call, out, used, told>>
  PROVE  MergeInv' /\ RoomInv' /\ OfferInv'
<1>1. MergeInv'
  BY SameFront DEF LInv, Resting
<1>2. RoomInv'
  BY DEF LInv, RoomInv, Writing, Written, Front
<1>3. OfferInv'
  BY SameOffer, SameEntries
<1> QED BY <1>1, <1>2, <1>3

LEMMA CheckTells ==
  ASSUME LInv, Check
  PROVE  LInv'
<1>1. /\ pc = "check" /\ ~first' /\ first' \in BOOLEAN /\ Resting
      /\ UNCHANGED <<dir, queue, front, seen, pattern, after, call, restarts>>
  BY DEF Check, Resting
<1>2. CASE \E status \in Replies : Answer(status, <<>>)
  BY <1>1, <1>2, AnswerTells, CheckKeeps DEF LInv
<1>3. CASE /\ Status = "moreEntries" /\ ~(call.capacity < Size(Front(front)))
           /\ pc' = "copy" /\ UNCHANGED <<out, used, reply, told>>
  <2>1. Size(Front(front)) \in Nat /\ call.capacity \in Nat
    BY <1>1, <1>3, FrontIsNew, SizesAssumption DEF LInv, IInv, TypeOK, Call
  <2>2. Size(Front(front)) <= call.capacity
    BY <1>3, <2>1
  <2> QED BY <1>1, <1>3, <2>2, GoOnTells, CheckKeeps DEF LInv
<1>4. Status \in {"error", "noMoreFiles", "moreEntries"}
  BY DEF Status
<1> QED BY <1>2, <1>3, <1>4 DEF Check, Replies

\* What sorts below every front, and was not enumerated, no queue offers.
LEMMA FrontIsFirst ==
  ASSUME LInv, AllSorted, pc = "copy", NEW i \in 1 .. front - 1
  PROVE  Key(Front(front)) \notin {Key(n) : n \in Offered(i)}
<1> DEFINE name == Front(front)
<1>1. /\ Status = "moreEntries" /\ Resting /\ NoError
      /\ front \in Queues /\ front # 0 /\ name \in Names /\ Key(name) \notin seen
  BY FrontIsNew, StatusSays DEF LInv, IInv, FrontInv, NewFront, Resting
<1>2. IsFront(front) /\ i \in Queues /\ i < front
  BY <1>1, SizesAssumption DEF LInv, MergeInv, Queues
<1> HIDE DEF name
<1> SUFFICES ASSUME NEW k \in DOMAIN dir[i], queue[i].handle, Wanted(i, dir[i][k]),
                    Key(dir[i][k]) = Key(name)
             PROVE  FALSE
  BY DEF Offered, name
<1>3. /\ dir[i] \in Seq(Names) /\ queue[i] \in Queue
      /\ Len(dir[i]) \in Nat /\ k \in 1 .. Len(dir[i]) /\ queue[i].pos \in Nat
  BY <1>2 DEF LInv, IInv, TypeOK, Queue
<1>4. k \notin Behind(i)
  BY <1>1, <1>2 DEF LInv, IInv, PassedInv
<1>5. k >= queue[i].pos
  BY <1>3, <1>4 DEF Behind
<1>6. i \in More
  <2>1. queue[i].status = "moreEntries" \/ queue[i].status = "noMoreFiles"
    BY <1>1, <1>2, <1>3 DEF NoError, Queue, Statuses
  <2>2. queue[i].status = "noMoreFiles" => queue[i].pos > Len(dir[i])
    BY <1>2 DEF LInv, IInv, QueueInv
  <2> QED BY <1>2, <1>3, <1>5, <2>1, <2>2 DEF More
<1>7. Key(name) < Key(Front(i)) \/ (Key(name) = Key(Front(i)) /\ front <= i)
  BY <1>2, <1>6 DEF IsFront, name
<1>8. Key(name) < Key(Front(i))
  BY <1>1, <1>2, <1>7 DEF Queues
<1>9. ~Unsettled(i)
  BY <1>1, <1>2 DEF LInv, IInv, FrontInv
<1>10. Front(i) = dir[i][queue[i].pos] /\ queue[i].pos \in DOMAIN dir[i] /\ Front(i) \in Names
  <2>1. queue[i].pos >= 1 /\ queue[i].pos <= Len(dir[i])
    BY <1>2, <1>3, <1>5 DEF LInv, IInv, QueueInv
  <2> QED BY <1>3, <2>1 DEF Front
<1>11. Key(Front(i)) <= Key(dir[i][k])
  <2>1. CASE queue[i].pos = k
    <3>1. Front(i) = dir[i][k]
      BY <1>10, <2>1
    <3> QED BY <1>10, <3>1, SizesAssumption
  <2>2. CASE queue[i].pos < k
    BY <1>2, <1>10, <2>2 DEF AllSorted, Sorted
  <2> QED BY <1>3, <1>5, <2>1, <2>2
<1>12. Key(name) \in Nat /\ Key(Front(i)) \in Nat
  BY <1>1, <1>10, SizesAssumption
<1> QED BY <1>8, <1>11, <1>12

LEMMA CopyFrontTells ==
  ASSUME LInv, CopyFront
  PROVE  LInv'
<1> DEFINE e == [from |-> front, name |-> Front(front)]
<1>1. /\ pc = "copy" /\ pc' = "settle" /\ after' = "skip"
      /\ out' = Append(out, e) /\ Pop(front)
      /\ UNCHANGED <<dir, front, first, pattern, call, reply, told, restarts>>
  BY DEF CopyFront, Settle
<1>2. /\ Status = "moreEntries" /\ Resting
  BY <1>1 DEF LInv, IInv, FrontInv, Resting
<1>3. /\ front \in More /\ front \in Queues /\ Front(front) \in Names
      /\ Wanted(front, Front(front)) /\ queue[front].pos <= queue[front].end
  BY <1>2, FrontIsNew DEF LInv
<1>4. /\ out \in Seq(Entry) /\ e \in Entry
      /\ e.from = front /\ e.name = Front(front)
  BY <1>3 DEF LInv, IInv, TypeOK, Entry
<1>5. /\ \A i \in Queues : Offered(i)' = Offered(i)
      /\ Visible' = Visible
  BY <1>1, <1>3, PopHandles, SameOffer DEF LInv, IInv
<1>6. Front(front) \in Offered(front)
  <2>1. queue[front].handle
    BY <1>3 DEF LInv, MergeInv, More
  <2>2. queue[front].pos \in DOMAIN dir[front]
    BY <1>3 DEF LInv, IInv, TypeOK, Queue, QueueInv
  <2> QED BY <1>3, <2>1, <2>2 DEF Offered, Front
<1>7. AllSorted => OfFirst(e)
  BY <1>1, <1>4, FrontIsFirst DEF OfFirst
<1> HIDE DEF e
<1>8. /\ \A k \in DOMAIN out' : out'[k] = e \/ (k \in DOMAIN out /\ out'[k] = out[k])
      /\ out' # <<>>
  BY <1>1, <1>4
<1>9. MergeInv'
  BY <1>1, <1>3, PopHandles DEF LInv, IInv, MergeInv, Resting
<1>10. RoomInv'
  BY <1>1, <1>8 DEF LInv, RoomInv, Writing, Written
<1>11. OfferInv'
  <2>1. KeysOf(out') \subseteq Visible
    <3>1. Key(e.name) \in Visible
      BY <1>3, <1>4, <1>6 DEF Visible
    <3> QED BY <1>8, <3>1 DEF LInv, OfferInv, KeysOf
  <2>2. ASSUME NEW d \in Entry, OfFirst(d) PROVE OfFirst(d)'
    <3>1. \A i \in 1 .. d.from - 1 : i \in Queues
      BY SizesAssumption DEF Entry, Queues
    <3> QED BY <1>5, <2>2, <3>1 DEF OfFirst
  <2>3. AllSorted' = AllSorted
    BY <1>1 DEF AllSorted, Sorted
  <2>4. ASSUME AllSorted, NEW k \in DOMAIN out' PROVE OfFirst(out[k])'
    <3>1. PICK d \in Entry : d = out'[k] /\ OfFirst(d)
      BY <1>4, <1>7, <1>8, <2>4 DEF LInv, OfferInv
    <3>2. OfFirst(d)'
      BY <2>2, <3>1
    <3> QED BY <3>1, <3>2 DEF OfFirst
  <2>5. ASSUME AllSorted, NEW k \in DOMAIN told' PROVE OfFirst(told[k])'
    <3>1. PICK d \in Entry : d = told[k] /\ OfFirst(d)
      BY <1>1, <2>5 DEF LInv, IInv, TypeOK, OfferInv
    <3>2. OfFirst(d)'
      BY <2>2, <3>1
    <3> QED BY <1>1, <3>1, <3>2 DEF OfFirst
  <2> QED BY <1>5, <2>1, <2>3, <2>4, <2>5 DEF OfferInv, KeysOf
<1> QED BY <1>9, <1>10, <1>11, CopyFrontKeeps DEF LInv

LEMMA BufferFullTells ==
  ASSUME LInv, BufferFull
  PROVE  LInv'
<1>1. /\ pc = "copy" /\ Answer("success", out) /\ Resting
      /\ UNCHANGED <<dir, queue, front, seen, first, pattern, after, call, restarts>>
  BY DEF BufferFull, Resting
<1>2. first' \in BOOLEAN /\ "success" \in Replies
  BY <1>1 DEF LInv, IInv, TypeOK, Replies
<1> QED BY <1>1, <1>2, AnswerTells, BufferFullKeeps DEF LInv

LEMMA SkipSeenTells ==
  ASSUME LInv, SkipSeen
  PROVE  LInv'
<1>1. /\ pc = "skip" /\ pc' = "settle" /\ after' = "skip" /\ Status = "moreEntries"
      /\ Pop(front)
      /\ UNCHANGED <<dir, front, seen, first, pattern, call, out, used, reply, told,
                     restarts>>
  BY DEF SkipSeen, Settle
<1>2. front \in Queues
  BY <1>1, FrontIsNew DEF LInv, Resting
<1>3. MergeInv' /\ RoomInv'
  BY <1>1, <1>2, PopHandles DEF LInv, IInv, MergeInv, RoomInv, Resting, Writing, Written
<1>4. OfferInv'
  BY <1>1, <1>2, PopHandles, SameOffer, SameEntries DEF LInv, IInv
<1> QED BY <1>3, <1>4, SkipSeenKeeps DEF LInv

\* How the call ends, or goes on.
LEMMA SkipDoneWays ==
  ASSUME SkipDone
  PROVE  \/ Status = "error" /\ Answer("error", <<>>)
         \/ Status = "noMoreFiles" /\ Answer("success", out)
         \/ Status = "moreEntries" /\ Answer("success", out)
         \/ Status = "moreEntries" /\ pc' = "copy" /\ UNCHANGED <<out, used, reply, told>>
<1>1. Status \in {"error", "noMoreFiles", "moreEntries"}
  BY DEF Status
<1>2. CASE Status = "error"
  BY <1>2 DEF SkipDone
<1>3. CASE Status = "noMoreFiles"
  BY <1>3 DEF SkipDone
<1>4. CASE Status = "moreEntries"
  BY <1>4 DEF SkipDone
<1> QED BY <1>1, <1>2, <1>3, <1>4

LEMMA SkipDoneTells ==
  ASSUME LInv, SkipDone
  PROVE  LInv'
<1>1. /\ pc = "skip" /\ Resting
      /\ UNCHANGED <<dir, queue, front, seen, first, pattern, after, call, restarts>>
  BY DEF SkipDone, Resting
<1>2. first' \in BOOLEAN /\ ~first' /\ out # <<>>
  BY <1>1 DEF LInv, IInv, TypeOK, RoomInv, Writing, Written
<1>3. CASE \E status \in Replies, entries \in {<<>>, out} : Answer(status, entries)
  BY <1>1, <1>2, <1>3, AnswerTells, SkipDoneKeeps DEF LInv
<1>4. CASE pc' = "copy" /\ UNCHANGED <<out, used, reply, told>>
  BY <1>1, <1>2, <1>4, GoOnTells, SkipDoneKeeps DEF LInv
<1> QED BY <1>3, <1>4, SkipDoneWays DEF Replies

LEMMA InitTells == Init => LInv
<1> SUFFICES ASSUME Init PROVE LInv
  OBVIOUS
<1>1. /\ pc = "absent" /\ out = <<>> /\ told = <<>> /\ used = 0
      /\ \A i \in Queues : queue[i].status = "noMoreFiles"
      /\ DOMAIN out = {} /\ DOMAIN told = {}
  BY DEF Init, Opened
<1>2. MergeInv /\ RoomInv /\ OfferInv
  BY <1>1 DEF MergeInv, RoomInv, OfferInv, Resting, Writing, Written, KeysOf
<1> QED BY <1>2, InitKeeps DEF LInv

LEMMA StepTells == LInv /\ [Next]_vars => LInv'
<1> SUFFICES ASSUME LInv, [Next]_vars PROVE LInv'
  OBVIOUS
<1>1. CASE Next
  <2>1. CASE SettleQueue \/ SelectFront \/ Restart \/ Check
    BY <2>1, SettleQueueTells, SelectFrontTells, NewScanTells, CheckTells
  <2>2. CASE CopyFront \/ BufferFull \/ SkipSeen \/ SkipDone
    BY <2>2, CopyFrontTells, BufferFullTells, SkipSeenTells, SkipDoneTells
  <2>3. CASE \E c \in Call : FirstCall(c) \/ LaterCall(c)
    BY <2>3, NewScanTells, LaterCallTells
  <2> QED BY <1>1, <2>1, <2>2, <2>3 DEF Next, Step
<1>2. CASE UNCHANGED vars
  <2>1. MergeInv' /\ RoomInv'
    BY <1>2 DEF vars, LInv, MergeInv, RoomInv, Resting, Writing, Written, IsFront, Front, More
  <2>2. OfferInv'
    BY <1>2, SameOffer, SameEntries DEF vars
  <2>3. IInv'
    BY StepKeeps DEF LInv
  <2> QED BY <2>1, <2>2, <2>3 DEF LInv
<1> QED BY <1>1, <1>2

\* The target's file stands for the origin's: of equal names in sorted
\* directories the first queue's is told.
THEOREM FirstQueueIsTold == Spec => []FirstQueueWins
<1>1. LInv => FirstQueueWins
  BY DEF LInv, OfferInv, AllSorted, OfFirst, FirstQueueWins
<1> QED BY <1>1, InitTells, StepTells, PTL DEF Spec

-----------------------------------------------------------------------------
(* Every step is one of the promise, or none. *)

Todo == IF pc = "absent" THEN {} ELSE Visible \ KeysOf(told)

\* A name that is about to be copied has not been told.
LEMMA FrontIsToDo ==
  ASSUME LInv, pc \in {"check", "copy"}, Status = "moreEntries"
  PROVE  Todo # {}
<1>1. /\ front \in More /\ front \in Queues /\ Front(front) \in Names
      /\ Wanted(front, Front(front)) /\ queue[front].pos <= queue[front].end
  BY FrontIsNew DEF LInv, Resting
<1>2. Key(Front(front)) \notin KeysOf(told)
  BY DEF LInv, IInv, NewFront, SeenInv
<1>3. Front(front) \in Offered(front)
  <2>1. queue[front].handle
    BY <1>1 DEF LInv, MergeInv, More
  <2>2. queue[front].pos \in DOMAIN dir[front]
    BY <1>1 DEF LInv, IInv, TypeOK, Queue, QueueInv
  <2> QED BY <1>1, <2>1, <2>2 DEF Offered, Front
<1> QED BY <1>1, <1>2, <1>3 DEF Todo, Visible

\* At the end there is nothing left to tell.
LEMMA NothingToDo ==
  ASSUME LInv, pc = "check", Status = "noMoreFiles"
  PROVE  Todo = {}
<1>1. \A i \in Queues : \A n \in Offered(i) : Key(n) \in KeysOf(told)
  BY EndTellsAll DEF LInv
<1> QED BY <1>1 DEF Todo, Visible

LEMMA SameCardinality ==
  ASSUME NEW S
  PROVE  Promise!Cardinality(S) = Cardinality(S)
BY DEF Promise!Cardinality, Cardinality

\* The keys of distinct entries, in their order.
LEMMA KeysInOrder ==
  ASSUME NEW s \in Seq(Entry), Distinct(s)
  PROVE  [k \in DOMAIN s |-> Key(s[k].name)] \in Promise!Orders(KeysOf(s))
<1> DEFINE f == [k \in DOMAIN s |-> Key(s[k].name)]
           N == Len(s)
<1>1. N \in Nat /\ DOMAIN s = 1 .. N
  OBVIOUS
<1>2. f \in Bijection(1 .. N, KeysOf(s))
  <2>1. f \in [1 .. N -> KeysOf(s)]
    BY <1>1 DEF KeysOf
  <2>2. \A j, k \in 1 .. N : f[j] = f[k] => j = k
    BY <1>1 DEF Distinct
  <2>3. \A x \in KeysOf(s) : \E k \in 1 .. N : f[k] = x
    BY <1>1 DEF KeysOf
  <2> HIDE DEF f
  <2> QED BY <2>1, <2>2, <2>3 DEF Bijection, Injection, Surjection, IsInjective
<1>3. Cardinality(KeysOf(s)) = N
  <2>1. IsFiniteSet(1 .. N) /\ Cardinality(1 .. N) = N
    BY <1>1, FS_Interval
  <2>2. ExistsBijection(1 .. N, KeysOf(s))
    BY <1>2 DEF ExistsBijection
  <2> QED BY <2>1, <2>2, FS_Bijection
<1>4. \A j, k \in DOMAIN f : f[j] = f[k] => j = k
  BY DEF Distinct
<1>5. f \in [1 .. N -> KeysOf(s)]
  BY <1>1 DEF KeysOf
<1>6. Promise!Cardinality(KeysOf(s)) = N
  BY <1>3, SameCardinality
<1>7. DOMAIN f = 1 .. N
  BY <1>1
<1> HIDE DEF f, N
<1>8. f \in Promise!Orders(KeysOf(s))
  BY <1>4, <1>5, <1>6, <1>7 DEF Promise!Orders
<1> QED BY <1>8 DEF f

\* What is offered does not change while a call is answered.
LEMMA TodoChanges ==
  ASSUME UNCHANGED <<dir, pattern>>, pc # "absent", pc' # "absent",
         \A i \in Queues : queue'[i].handle = queue[i].handle
  PROVE  /\ Todo = Visible \ KeysOf(told)
         /\ Todo' = Visible \ KeysOf(told)'
BY SameOffer DEF Todo

LEMMA ScanBegins ==
  ASSUME LInv, LInv', Restart \/ \E c \in Call : FirstCall(c)
  PROVE  Promise!Restart
<1>1. first' = TRUE /\ reply' = reply
  BY DEF Restart, FirstCall
<1>2. Todo' \in SUBSET Keys
  <2>1. ASSUME NEW i \in Queues, NEW n \in Offered(i)' PROVE Key(n) \in Keys
    <3>1. n \in Names
      BY DEF LInv, IInv, Offered, TypeOK
    <3> QED BY <3>1 DEF Keys
  <2> QED BY <2>1 DEF Todo, Visible
<1> QED BY <1>1, <1>2 DEF Promise!Restart, Todo, NoError

LEMMA CallEnds ==
  ASSUME LInv, NEW status \in Replies, NEW entries \in {<<>>, out}, Answer(status, entries),
         pc \in {"check", "copy", "skip"}, ~first',
         UNCHANGED <<dir, queue, front, pattern>>,
         \/ status = "error" /\ entries = <<>> /\ ~NoError
         \/ status = "overflow" /\ entries = <<>> /\ NoError /\ Todo # {}
         \/ /\ status = IF first THEN "noSuchFile" ELSE "noMoreFiles"
            /\ entries = <<>> /\ NoError /\ Todo = {}
         \/ status = "success" /\ entries = out /\ NoError /\ out # <<>>
  PROVE  Promise!Next
<1> DEFINE keys == [k \in DOMAIN entries |-> Key(entries[k].name)]
<1>1. /\ reply' = [status |-> status, keys |-> keys]
      /\ told' = told \o entries /\ pc' = "idle"
  BY DEF Answer
<1>2. first' = FALSE /\ (~NoError)' = ~NoError
  <2>1. first' \in BOOLEAN => first' = FALSE
    OBVIOUS
  <2> QED BY <2>1 DEF NoError
<1>3. Promise!Say(status, keys)
  BY <1>1, <1>2 DEF Promise!Say
<1>4. told \in Seq(Entry) /\ out \in Seq(Entry)
  BY DEF LInv, IInv, TypeOK
<1>5. Todo = Visible \ KeysOf(told) /\ Todo' = Visible \ KeysOf(told)'
  BY <1>1, TodoChanges
<1>6. CASE entries = <<>>
  <2>1. keys = <<>>
    BY <1>6
  <2>2. told' = told
    BY <1>1, <1>4, <1>6
  <2>3. Todo' = Todo
    BY <1>5, <2>2 DEF KeysOf
  <2> HIDE DEF keys
  <2>4. CASE status = "success" /\ entries = out /\ out # <<>>
    BY <1>6, <2>4
  <2>5. CASE status = "error" /\ ~NoError
    BY <1>3, <2>1, <2>3, <2>5 DEF Promise!Fail, Promise!Next, Todo
  <2>6. CASE status = "overflow" /\ NoError /\ Todo # {}
    BY <1>3, <2>1, <2>3, <2>6 DEF Promise!Overflow, Promise!Next, Todo
  <2>7. CASE /\ status = IF first THEN "noSuchFile" ELSE "noMoreFiles"
             /\ NoError /\ Todo = {}
    BY <1>3, <2>1, <2>3, <2>7 DEF Promise!End, Promise!Next, Todo
  <2> QED BY <2>4, <2>5, <2>6, <2>7
<1>7. CASE status = "success" /\ entries = out /\ NoError /\ out # <<>>
  <2> DEFINE S == KeysOf(out)
  <2>1. /\ Distinct(told) /\ Distinct(out) /\ KeysOf(told) \cap S = {}
        /\ S \subseteq Visible
    BY DEF LInv, IInv, SeenInv, OfferInv
  <2>2. keys \in Promise!Orders(S)
    BY <1>4, <1>7, <2>1, KeysInOrder
  <2>3. KeysOf(told') = KeysOf(told) \cup S
    BY <1>1, <1>4, <1>7, <2>1, ConcatDistinct
  <2>4. Todo' = Todo \ S
    BY <1>5, <2>3 DEF KeysOf
  <2>5. S \subseteq Todo
    BY <1>5, <2>1
  <2>6. S # {}
    <3>1. 1 \in DOMAIN out
      BY <1>4, <1>7
    <3> QED BY <3>1 DEF KeysOf
  <2> HIDE DEF S, keys
  <2>7. Promise!Tell
    BY <1>3, <1>7, <2>2, <2>4, <2>5, <2>6 DEF Promise!Tell, Todo
  <2> QED BY <2>7 DEF Promise!Next
<1> QED BY <1>6, <1>7

\* A step within a call tells nothing.
LEMMA Unheard ==
  ASSUME UNCHANGED <<dir, pattern, told, first, reply>>, pc # "absent", pc' # "absent",
         \A i \in Queues : /\ queue'[i].handle = queue[i].handle
                           /\ queue[i].status = "error" => queue'[i].status = "error"
  PROVE  Promise!Break \/ UNCHANGED Promise!vars
<1>1. Todo' = Todo
  BY TodoChanges DEF KeysOf
<1>2. (~NoError)' = TRUE \/ (~NoError)' = ~NoError
  BY DEF NoError
<1> QED BY <1>1, <1>2 DEF Promise!Break, Promise!vars, Todo

LEMMA CheckIsPromised ==
  ASSUME LInv, Check
  PROVE  Promise!Next
<1>1. /\ pc = "check" /\ first' = FALSE
      /\ UNCHANGED <<dir, queue, front, seen, pattern, after, call, restarts>>
  BY DEF Check
<1>2. CASE Status = "error"
  BY <1>1, <1>2, StatusSays, CallEnds DEF Check, Replies
<1>3. CASE Status = "noMoreFiles"
  BY <1>1, <1>3, StatusSays, NothingToDo, CallEnds DEF Check, Replies
<1>4. CASE Status = "moreEntries" /\ Answer("overflow", <<>>)
  BY <1>1, <1>4, StatusSays, FrontIsToDo, CallEnds DEF Replies
<1>5. CASE Status = "moreEntries" /\ pc' = "copy" /\ UNCHANGED <<out, used, reply, told>>
  <2>1. Todo # {} /\ Todo' = Todo /\ (~NoError)' = ~NoError
    BY <1>1, <1>5, FrontIsToDo, TodoChanges DEF KeysOf, NoError
  <2> QED BY <1>1, <1>5, <2>1 DEF Promise!Find, Promise!Next, Todo
<1>6. Status \in {"error", "noMoreFiles", "moreEntries"}
  BY DEF Status
<1> QED BY <1>2, <1>3, <1>4, <1>5, <1>6 DEF Check

LEMMA BufferFullIsPromised ==
  ASSUME LInv, BufferFull
  PROVE  Promise!Next
<1>1. /\ pc = "copy" /\ used + Size(Front(front)) > call.capacity /\ Answer("success", out)
      /\ UNCHANGED <<dir, queue, front, seen, first, pattern, after, call, restarts>>
  BY DEF BufferFull
<1>2. Status = "moreEntries" /\ NoError /\ ~first
  BY <1>1, StatusSays DEF LInv, IInv, FrontInv, RoomInv, Writing
<1>3. out # <<>>
  <2>1. Size(Front(front)) \in Nat /\ call.capacity \in Nat
    BY <1>1, <1>2, FrontIsNew, SizesAssumption DEF LInv, Resting, IInv, TypeOK, Call
  <2>2. out = <<>> => used = 0 /\ Size(Front(front)) <= call.capacity
    BY <1>1 DEF LInv, RoomInv
  <2> QED BY <1>1, <2>1, <2>2
<1> QED BY <1>1, <1>2, <1>3, CallEnds DEF Replies

LEMMA SkipDoneIsPromised ==
  ASSUME LInv, SkipDone
  PROVE  Promise!Next \/ UNCHANGED Promise!vars
<1>1. /\ pc = "skip" /\ ~first /\ out # <<>>
      /\ UNCHANGED <<dir, queue, front, seen, first, pattern, after, call, restarts>>
  BY DEF SkipDone, LInv, RoomInv, Writing, Written
<1>2. CASE Status = "error" /\ Answer("error", <<>>)
  BY <1>1, <1>2, StatusSays, CallEnds DEF Replies
<1>3. CASE Status \in {"noMoreFiles", "moreEntries"} /\ Answer("success", out)
  BY <1>1, <1>3, StatusSays, CallEnds DEF Replies
<1>4. CASE pc' = "copy" /\ UNCHANGED <<out, used, reply, told>>
  BY <1>1, <1>4, Unheard DEF Promise!Next
<1> QED BY <1>2, <1>3, <1>4, SkipDoneWays

LEMMA StepIsPromised ==
  ASSUME LInv, LInv', [Next]_vars
  PROVE  Promise!Next \/ UNCHANGED Promise!vars
<1>1. CASE SettleQueue
  BY <1>1, SettleChanges, Unheard DEF SettleQueue, Promise!Next
<1>2. CASE SelectFront
  BY <1>2, Unheard DEF SelectFront, Promise!Next, LInv, IInv, TypeOK
<1>3. CASE Restart \/ \E c \in Call : FirstCall(c)
  BY <1>3, ScanBegins DEF Promise!Next
<1>4. CASE \E c \in Call : LaterCall(c)
  BY <1>4, Unheard DEF LaterCall, Promise!Next
<1>5. CASE Check
  BY <1>5, CheckIsPromised
<1>6. CASE CopyFront
  <2>1. front \in Queues /\ Pop(front)
    BY <1>6, FrontIsNew DEF LInv, IInv, FrontInv, Resting, CopyFront
  <2> QED BY <1>6, <2>1, PopHandles, Unheard DEF LInv, IInv, CopyFront, Settle, Promise!Next
<1>7. CASE BufferFull
  BY <1>7, BufferFullIsPromised
<1>8. CASE SkipSeen
  <2>1. front \in Queues /\ Pop(front)
    BY <1>8, FrontIsNew DEF LInv, Resting, SkipSeen
  <2> QED BY <1>8, <2>1, PopHandles, Unheard DEF LInv, IInv, SkipSeen, Settle, Promise!Next
<1>9. CASE SkipDone
  BY <1>9, SkipDoneIsPromised
<1>10. CASE UNCHANGED vars
  <2>1. Todo' = Todo /\ (~NoError)' = ~NoError
    BY <1>10 DEF vars, Todo, Visible, Offered, Wanted, KeysOf, NoError
  <2> QED BY <1>10, <2>1 DEF vars, Promise!vars, Todo
<1> QED BY <1>1, <1>2, <1>3, <1>4, <1>5, <1>6, <1>7, <1>8, <1>9, <1>10 DEF Next, Step

\* Call by call, whatever the batches, the buffers and the order of the system,
\* an application is told what the directories and rules offer: Listing.
THEOREM QueuesImplementListing == Spec => ImplementsListing
<1>1. Init => Promise!Init
  BY DEF Init, Promise!Init, NoError, Opened
<1>2. LInv /\ LInv' /\ [Next]_vars => [Promise!Next]_Promise!vars
  BY StepIsPromised
<1> QED BY <1>1, <1>2, InitTells, StepTells, PTL DEF Spec, ImplementsListing, Promise!Spec
=============================================================================
