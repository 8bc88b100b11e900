----------------------- MODULE OpenHandleStoreProofs -----------------------
(***************************************************************************)
(* Proofs, for any number of threads, handles and names, of the safety     *)
(* properties of OpenHandleStore.                                          *)
(*                                                                         *)
(* A step changes the program counter and the arguments of one thread, and *)
(* the row of at most one handle: what the system, the application and the *)
(* store know of it.  StepKeeps reduces the invariant after such a step to *)
(* facts about that thread and that handle; LocalStepKeeps does the same   *)
(* for a step that changes no row.  Then there is one lemma per action.    *)
(* NInv adds where a name leads, for what the application is told: that    *)
(* answers are true, and that the store implements HandleNames.            *)
(***************************************************************************)
EXTENDS OpenHandleStoreInvariant, TLAPS

\* What ReadersOnly says of two operations that overlap.
LEMMA Discipline ==
  ASSUME ReadersOnly, NEW k1, NEW k2, Compatible(k1, k2)
  PROVE  /\ Compatible(k2, k1)
         /\ k1 \notin Exclusive
         /\ k2 \notin Exclusive
         /\ ~(k1 = "enumerate" /\ k2 = "enumerate")
<1>1. {k2, k1} = {k1, k2}
  OBVIOUS
<1>. QED
  BY <1>1 DEF ReadersOnly, Compatible

LEMMA CompatibleSymmetric ==
  ASSUME NEW k1, NEW k2, Compatible(k1, k2)
  PROVE  Compatible(k2, k1)
<1>1. {k2, k1} = {k1, k2}
  OBVIOUS
<1>. QED
  BY <1>1 DEF Compatible

SameRow(h) ==
  /\ files'[h] = files[h]
  /\ store'[h] = store[h]
  /\ h \in app' <=> h \in app

\* A thread that does not step is only concerned with the row of its handle.
LEMMA OtherThreadKeeps ==
  ASSUME NEW u \in Threads, ThreadOK(u), pc'[u] = pc[u], job'[u] = job[u],
         job[u].h \in Handles => SameRow(job[u].h)
  PROVE  ThreadOK(u)'
<1>1. CASE job[u].h \in Handles
  <2>1. JobOK(u)'
    BY <1>1 DEF ThreadOK, JobOK, SameRow
  <2>2. UseOK(u)'
    BY <1>1 DEF ThreadOK, UseOK, SameRow
  <2>3. EntryOK(u)'
    BY <1>1 DEF ThreadOK, EntryOK, SameRow
  <2>. QED
    BY <2>1, <2>2, <2>3 DEF ThreadOK
<1>2. CASE job[u].h \notin Handles
  <2>1. pc[u] \in {"idle", "openSystem"}
    BY <1>2 DEF ThreadOK, JobOK
  <2>. QED
    BY <1>2, <2>1 DEF ThreadOK, JobOK, UseOK, EntryOK, HasEntry
<1>. QED
  BY <1>1, <1>2

\* A handle whose row does not change, and that the stepping thread was
\* neither updating nor erasing, is owed what it was owed.
LEMMA OtherHandleKeeps ==
  ASSUME NEW t \in Threads, NEW g \in Handles, HandleOK(g), SameRow(g),
         \A u \in Threads \ {t} : pc'[u] = pc[u] /\ job'[u] = job[u],
         pc[t] \in {"update", "closeErase"} => job[t].h # g,
         pc'[t] = "closeErase" => job'[t].h # g
  PROVE  HandleOK(g)'
<1>1. Updating(g) => Updating(g)'
  BY DEF Updating
<1>2. Erasing(g)' <=> Erasing(g)
  BY DEF Erasing
<1>. QED
  BY <1>1, <1>2 DEF HandleOK, SameRow

\* The obligations of a step of thread t on handle h.
LEMMA StepKeeps ==
  ASSUME IInv, NEW t \in Threads, NEW h,
         \A u \in Threads \ {t} : pc'[u] = pc[u] /\ job'[u] = job[u],
         \A g \in Handles \ {h} : SameRow(g),
         pc[t] \in {"update", "closeErase"} => job[t].h = h,
         pc'[t] = "closeErase" => job'[t].h = h,
         TypeOK', LockInv', dangling' = {},
         ThreadOK(t)',
         \A u \in Threads \ {t} : job[u].h = h => ThreadOK(u)',
         h \in Handles => HandleOK(h)',
         \A u \in Threads \ {t} : Meeting(t, u)' /\ Unrelied(t, u)' /\ Unrelied(u, t)'
  PROVE  IInv'
<1>1. ThreadInv'
  <2>1. ASSUME NEW u \in Threads \ {t} PROVE ThreadOK(u)'
    <3>1. ThreadOK(u) /\ pc'[u] = pc[u] /\ job'[u] = job[u]
      BY DEF IInv, ThreadInv
    <3>. QED
      BY <3>1, OtherThreadKeeps
  <2>. QED
    BY <2>1 DEF ThreadInv
<1>2. HandleInv'
  <2>1. ASSUME NEW g \in Handles, g # h PROVE HandleOK(g)'
    <3>1. HandleOK(g)
      BY DEF IInv, HandleInv
    <3>. QED
      BY <3>1, <2>1, OtherHandleKeeps
  <2>. QED
    BY <2>1 DEF HandleInv
<1>3. MeetInv'
  <2>1. ASSUME NEW u \in Threads, NEW v \in Threads, u # v
        PROVE  Meeting(u, v)' /\ Unrelied(u, v)'
    <3>1. CASE u = t
      BY <2>1, <3>1
    <3>2. CASE v = t
      BY <2>1, <3>2, CompatibleSymmetric DEF Meeting
    <3>3. CASE u # t /\ v # t
      <4>1. Meeting(u, v) /\ Unrelied(u, v)
        BY <2>1 DEF IInv, MeetInv
      <4>. QED
        BY <4>1, <3>3 DEF Meeting, Unrelied, Using
    <3>. QED
      BY <3>1, <3>2, <3>3
  <2>. QED
    BY <2>1 DEF MeetInv
<1>. QED
  BY <1>1, <1>2, <1>3 DEF IInv, ViewsLive

\* The obligations of a step that touches no row: an operation begins, goes
\* from one of its steps to the next, or returns.
LEMMA LocalStepKeeps ==
  ASSUME IInv, NEW t \in Threads,
         \A u \in Threads \ {t} : pc'[u] = pc[u] /\ job'[u] = job[u],
         UNCHANGED <<files, app, store, dangling>>,
         {pc[t], pc'[t]} \cap {"update", "closeErase"} = {},
         TypeOK', LockInv',
         ThreadOK(t)',
         \A u \in Threads \ {t} : Meeting(t, u)' /\ Unrelied(u, t)'
  PROVE  IInv'
<1>1. \A g \in Handles : SameRow(g) /\ HandleOK(g)
  BY DEF SameRow, IInv, HandleInv
<1>2. \A g \in Handles : HandleOK(g)'
  BY <1>1, OtherHandleKeeps
<1>3. \A u \in Threads \ {t} : ThreadOK(u)'
  <2>. TAKE u \in Threads \ {t}
  <2>1. ThreadOK(u) /\ pc'[u] = pc[u] /\ job'[u] = job[u]
    BY DEF IInv, ThreadInv
  <2>. QED
    BY <1>1, <2>1, OtherThreadKeeps
<1>4. \A u \in Threads : Unrelied(t, u)'
  BY DEF Unrelied
<1>5. dangling' = {}
  BY DEF IInv, ViewsLive
<1>. QED
  BY <1>1, <1>2, <1>3, <1>4, <1>5, StepKeeps

-----------------------------------------------------------------------------
(* Steps of one thread that touch no row. *)

USE DEF Goto, Return, Begin

LEMMA NewJobType ==
  ASSUME NEW kind \in Kinds, NEW h \in Handles \cup {NoHandle},
         NEW asked \in Names \cup {NoName}, NEW name \in Names \cup {NoName},
         NEW part \in Parts \cup {NoPart}
  PROVE  NewJob(kind, h, asked, name, part) \in Job
  BY DEF NewJob, Job, Places, Recorded, Enums

LEMMA NoJobType == NoJob \in Job
  BY NewJobType DEF NoJob, Kinds

\* Types and locals after a step of t.
LEMMA StepTypes ==
  ASSUME TypeOK, NEW t \in Threads, NEW step \in Steps, NEW j \in Job,
         pc' = [pc EXCEPT ![t] = step], job' = [job EXCEPT ![t] = j]
  PROVE  /\ pc' \in [Threads -> Steps]
         /\ job' \in [Threads -> Job]
         /\ pc'[t] = step
         /\ job'[t] = j
         /\ \A u \in Threads \ {t} : pc'[u] = pc[u] /\ job'[u] = job[u]
  BY DEF TypeOK

\* An operation begins on a handle the application has.
LEMMA BeginKeeps ==
  ASSUME IInv, NEW t \in Threads, NEW h \in Handles, NEW kind \in Kinds,
         NEW asked \in Names \cup {NoName}, NEW name \in Names \cup {NoName},
         NEW part \in Parts \cup {NoPart},
         NEW step \in Steps \ {"update", "closeSystem", "closeErase"},
         MayUse(t, h, kind),
         Begin(t, NewJob(kind, h, asked, name, part), step),
         UNCHANGED <<files, app, store, writer, answer, dangling>>,
         step \in HasEntry => Unlocked,
         ThreadOK(t)'
  PROVE  IInv'
<1> DEFINE j == NewJob(kind, h, asked, name, part)
<1>1. j \in Job /\ j.h = h /\ j.kind = kind
  BY NewJobType DEF NewJob
<1> HIDE DEF j
<1>2. /\ pc' = [pc EXCEPT ![t] = step]
      /\ job' = [job EXCEPT ![t] = j]
  BY DEF j
<1>3. /\ pc' \in [Threads -> Steps]
      /\ job' \in [Threads -> Job]
      /\ pc'[t] = step
      /\ job'[t] = j
      /\ \A u \in Threads \ {t} : pc'[u] = pc[u] /\ job'[u] = job[u]
  BY <1>1, <1>2, StepTypes DEF IInv
<1>4. TypeOK'
  BY <1>3 DEF IInv, TypeOK
<1>5. pc[t] = "idle"
  BY DEF MayUse
<1>6. LockInv'
  BY <1>3, <1>5 DEF IInv, LockInv
<1>7. ASSUME NEW u \in Threads \ {t} PROVE Meeting(t, u)' /\ Unrelied(u, t)'
  <2>1. Meeting(t, u)'
    BY <1>1, <1>3 DEF Meeting, Using, MayUse
  <2>2. Unlocked => pc[u] # "closeErase"
    BY NullAssumption DEF Unlocked, IInv, LockInv
  <2>3. Unrelied(u, t)'
    BY <1>3, <2>2 DEF Unrelied
  <2>. QED
    BY <2>1, <2>3
<1>. QED
  BY <1>3, <1>4, <1>5, <1>6, <1>7, LocalStepKeeps

\* The operation goes on, on the same handle.
LEMMA ContinueKeeps ==
  ASSUME IInv, NEW t \in Threads,
         NEW step \in Steps \ {"idle", "update", "closeSystem", "closeErase"},
         NEW j \in Job, j.kind = job[t].kind, j.h = job[t].h,
         pc[t] \notin {"idle", "update", "closeSystem", "closeErase"},
         pc' = [pc EXCEPT ![t] = step], job' = [job EXCEPT ![t] = j],
         UNCHANGED <<files, app, store, writer, answer, dangling>>,
         step \in HasEntry => pc[t] \in HasEntry \/ Unlocked,
         ThreadOK(t)'
  PROVE  IInv'
<1>1. /\ pc' \in [Threads -> Steps]
      /\ job' \in [Threads -> Job]
      /\ pc'[t] = step
      /\ job'[t] = j
      /\ \A u \in Threads \ {t} : pc'[u] = pc[u] /\ job'[u] = job[u]
  BY StepTypes DEF IInv
<1>2. TypeOK'
  BY <1>1 DEF IInv, TypeOK
<1>3. LockInv'
  BY <1>1 DEF IInv, LockInv
<1>4. ASSUME NEW u \in Threads \ {t} PROVE Meeting(t, u)' /\ Unrelied(u, t)'
  <2>1. Meeting(t, u) /\ Unrelied(u, t)
    BY DEF IInv, MeetInv
  <2>2. Unlocked => pc[u] # "closeErase"
    BY NullAssumption DEF Unlocked, IInv, LockInv
  <2>3. Meeting(t, u)'
    BY <1>1, <2>1 DEF Meeting, Using
  <2>4. Unrelied(u, t)'
    BY <1>1, <2>1, <2>2 DEF Unrelied
  <2>. QED
    BY <2>3, <2>4
<1>. QED
  BY <1>1, <1>2, <1>3, <1>4, LocalStepKeeps

\* The operation returns to the application and leaves every row alone.
LEMMA ReturnKeeps ==
  ASSUME IInv, NEW t \in Threads, Return(t),
         pc[t] \notin {"update", "closeErase"},
         UNCHANGED <<files, app, store, dangling>>,
         writer' = IF pc[t] = "closeSystem" THEN NoThread ELSE writer,
         answer' \in [Threads -> Names \cup {NoName}]
  PROVE  IInv'
<1>1. /\ pc' \in [Threads -> Steps]
      /\ job' \in [Threads -> Job]
      /\ pc'[t] = "idle"
      /\ job'[t] = NoJob
      /\ \A u \in Threads \ {t} : pc'[u] = pc[u] /\ job'[u] = job[u]
  BY StepTypes, NoJobType DEF IInv, Steps
<1>2. TypeOK'
  BY <1>1 DEF IInv, TypeOK
<1>3. LockInv'
  BY <1>1, NullAssumption DEF IInv, LockInv
<1>4. ThreadOK(t)'
  BY <1>1 DEF ThreadOK, JobOK, UseOK, EntryOK, HasEntry
<1>5. \A u \in Threads : Meeting(t, u)' /\ Unrelied(u, t)'
  BY <1>1 DEF Meeting, Using, Unrelied, HasEntry
<1>. QED
  BY <1>1, <1>2, <1>3, <1>4, <1>5, LocalStepKeeps

-----------------------------------------------------------------------------
(* The actions that touch no row. *)

\* The parts of the invariant, for the thread at hand.
LEMMA ThreadFacts ==
  ASSUME IInv, NEW t \in Threads
  PROVE  /\ pc[t] \in Steps
         /\ job[t] \in Job
         /\ ThreadOK(t)
         /\ t \notin dangling
  BY DEF IInv, TypeOK, ThreadInv, ViewsLive

\* The parts of the invariant, for a handle the application has.
LEMMA HandleFacts ==
  ASSUME IInv, NEW h \in Handles
  PROVE  /\ HandleOK(h)
         /\ h \in app => files[h] \in File
         /\ store[h] # NoEntry => store[h] \in Entry
  BY DEF IInv, TypeOK, HandleInv, HandleOK

\* The discipline, for an operation that is about to begin on h ...
LEMMA MayUseFacts ==
  ASSUME IInv, ReadersOnly, NEW t \in Threads, NEW h \in Handles, NEW kind,
         MayUse(t, h, kind)
  PROVE  pc[t] = "idle" /\ h \in app /\ ~Updating(h)
<1>1. ASSUME NEW u \in Threads, pc[u] = "update", job[u].h = h PROVE FALSE
  <2>1. u # t /\ job[u].kind = "rename"
    BY <1>1, ThreadFacts DEF MayUse, ThreadOK, JobOK, KindAt
  <2>2. Compatible(kind, "rename")
    BY <1>1, <2>1 DEF MayUse, Using
  <2>. QED
    BY <2>2, Discipline DEF Exclusive
<1>. QED
  BY <1>1 DEF Updating, MayUse

\* ... and for one that is under way.
LEMMA AloneFacts ==
  ASSUME IInv, ReadersOnly, NEW t \in Threads, NEW u \in Threads \ {t},
         NEW h \in Handles, Using(t, h), Using(u, h)
  PROVE  /\ job[t].kind \notin Exclusive
         /\ job[u].kind \notin Exclusive
         /\ ~(job[t].kind = "enumerate" /\ job[u].kind = "enumerate")
<1>1. Compatible(job[t].kind, job[u].kind)
  BY DEF IInv, MeetInv, Meeting
<1>. QED
  BY <1>1, Discipline

\* With the lock free, an entry tells what the handle is.
LEMMA LookupFacts ==
  ASSUME IInv, NEW h \in Handles, Unlocked, h \in app, ~Updating(h)
  PROVE  /\ files[h] \in File
         /\ store[h] = NoEntry => files[h].name \in Free
         /\ store[h] # NoEntry => store[h] \in Entry /\ store[h].name = files[h].name
<1>1. ~Erasing(h)
  BY NullAssumption DEF Erasing, IInv, LockInv, Unlocked
<1>. QED
  BY <1>1, HandleFacts DEF HandleOK

\* A thread that has found an entry finds it again, and faithful.
LEMMA ViewFacts ==
  ASSUME IInv, ReadersOnly, NEW t \in Threads,
         pc[t] \in HasEntry \ {"closeLock", "closeSystem"}
  PROVE  /\ job[t].h \in app
         /\ files[job[t].h] \in File
         /\ store[job[t].h] \in Entry
         /\ store[job[t].h].name = files[job[t].h].name
<1> DEFINE h == job[t].h
<1>1. h \in Handles /\ h \in app /\ store[h] # NoEntry
  BY ThreadFacts DEF ThreadOK, JobOK, UseOK, EntryOK, HasEntry
<1>2. ~Erasing(h)
  BY DEF Erasing, IInv, MeetInv, Unrelied, HasEntry
<1>3. ~Updating(h)
  <2>1. ASSUME NEW u \in Threads, pc[u] = "update", job[u].h = h PROVE FALSE
    <3>1. job[u].kind = "rename" /\ Using(u, h) /\ Using(t, h) /\ u # t
      BY <2>1, ThreadFacts DEF ThreadOK, JobOK, KindAt, Using, HasEntry
    <3>. QED
      BY <1>1, <3>1, AloneFacts DEF Exclusive
  <2>. QED
    BY <2>1 DEF Updating
<1>. QED
  BY <1>1, <1>2, <1>3, HandleFacts DEF HandleOK

LEMMA StartOpenKeeps ==
  ASSUME IInv, NEW t \in Threads, StartOpen(t)
  PROVE  IInv'
<1>1. PICK n \in Names : Begin(t, NewJob("open", NoHandle, n, n, NoPart), "openSystem")
  BY DEF StartOpen
<1> DEFINE j == NewJob("open", NoHandle, n, n, NoPart)
<1>2. j \in Job
  BY NewJobType DEF Kinds
<1>3. j.kind = "open" /\ j.h = NoHandle /\ j.part = NoPart /\ j.asked = n /\ j.name = n
  BY DEF NewJob
<1>4. pc' = [pc EXCEPT ![t] = "openSystem"] /\ job' = [job EXCEPT ![t] = j]
  BY <1>1
<1> HIDE DEF j
<1>5. pc[t] = "idle" /\ UNCHANGED <<files, app, store, writer, answer, dangling>>
  BY DEF StartOpen
<1>6. /\ pc' \in [Threads -> Steps]
      /\ job' \in [Threads -> Job]
      /\ pc'[t] = "openSystem"
      /\ job'[t] = j
      /\ \A u \in Threads \ {t} : pc'[u] = pc[u] /\ job'[u] = job[u]
  BY <1>2, <1>4, StepTypes DEF IInv, Steps
<1>7. TypeOK'
  BY <1>5, <1>6 DEF IInv, TypeOK
<1>8. LockInv'
  BY <1>5, <1>6 DEF IInv, LockInv
<1>9. ThreadOK(t)'
  BY <1>3, <1>6, NullAssumption DEF ThreadOK, JobOK, UseOK, EntryOK, HasEntry
<1>10. \A u \in Threads : Meeting(t, u)' /\ Unrelied(u, t)'
  BY <1>3, <1>6, NullAssumption DEF Meeting, Using, Unrelied, HasEntry
<1>. QED
  BY <1>5, <1>6, <1>7, <1>8, <1>9, <1>10, LocalStepKeeps

LEMMA StartRelativeOpenKeeps ==
  ASSUME IInv, ReadersOnly, NEW t \in Threads, StartRelativeOpen(t)
  PROVE  IInv'
<1>1. PICK r \in Handles, p \in Parts :
        /\ MayUse(t, r, "relative")
        /\ Unlocked
        /\ IF store[r] = NoEntry
           THEN Begin(t, NewJob("relative", r, Join(files[r].name, p), NoName, p),
                      "openSystem")
           ELSE Begin(t, NewJob("relative", r, Join(files[r].name, p), NoName, p),
                      "compose")
  BY DEF StartRelativeOpen
<1> DEFINE asked == Join(files[r].name, p)
           step == IF store[r] = NoEntry THEN "openSystem" ELSE "compose"
           j == NewJob("relative", r, asked, NoName, p)
<1>2. r \in app /\ pc[t] = "idle" /\ Unlocked
  BY <1>1 DEF MayUse
<1>3. files[r] \in File
  BY <1>2, HandleFacts
<1>4. asked \in Names
  BY <1>3, NamesAssumption DEF File
<1>5. Begin(t, j, step)
  BY <1>1
<1>6. step \in Steps \ {"update", "closeSystem", "closeErase"}
  BY DEF Steps, PathReaders
<1>7. UNCHANGED <<files, app, store, writer, answer, dangling>>
  BY DEF StartRelativeOpen
<1>8. j.kind = "relative" /\ j.h = r /\ j.asked = asked /\ j.name = NoName /\ j.part = p
  BY DEF NewJob
<1>9. pc'[t] = step /\ job'[t] = j
  BY <1>5 DEF IInv, TypeOK
<1>10. store[r] = NoEntry => asked \in Free
  <2>1. ~Updating(r)
    BY <1>1, MayUseFacts
  <2>. QED
    BY <1>2, <2>1, LookupFacts, FreeAssumption
<1>11. ThreadOK(t)'
  <2> HIDE DEF j, asked
  <2>1. JobOK(t)'
    BY <1>4, <1>7, <1>8, <1>9, <1>10 DEF JobOK, asked, KindAt
  <2>2. UseOK(t)'
    BY <1>2, <1>7, <1>8, <1>9 DEF UseOK
  <2>3. EntryOK(t)'
    BY <1>7, <1>8, <1>9 DEF EntryOK, HasEntry
  <2>. QED
    BY <2>1, <2>2, <2>3 DEF ThreadOK
<1>. QED
  BY <1>1, <1>2, <1>4, <1>5, <1>6, <1>7, <1>11, BeginKeeps DEF Kinds

LEMMA ComposeKeeps ==
  ASSUME IInv, ReadersOnly, NEW t \in Threads, Compose(t)
  PROVE  IInv'
<1> DEFINE h == job[t].h
           j == [job[t] EXCEPT !.name = Join(store[h].name, job[t].part)]
<1>1. pc[t] = "compose" /\ UNCHANGED <<files, app, store, writer, answer, dangling>>
  BY DEF Compose
<1>2. job[t] \in Job /\ ThreadOK(t) /\ t \notin dangling
  BY ThreadFacts
<1>3. /\ h \in app /\ files[h] \in File
      /\ store[h] \in Entry /\ store[h].name = files[h].name
  BY <1>1, ViewFacts DEF HasEntry
<1>4. job[t].asked = Join(files[h].name, job[t].part) /\ job[t].part \in Parts
      /\ h \in Handles /\ job[t].kind = "relative"
  BY <1>1, <1>2 DEF ThreadOK, JobOK, KindAt
<1>5. job[t].asked \in Names
  BY <1>3, <1>4, NamesAssumption DEF File
<1>6. /\ j \in Job /\ j.kind = "relative" /\ j.h = h
      /\ j.asked = job[t].asked /\ j.name = j.asked
  BY <1>2, <1>3, <1>4, <1>5 DEF Job
<1>7. pc' = [pc EXCEPT ![t] = "openSystem"] /\ job' = [job EXCEPT ![t] = j]
  BY <1>2, <1>3, NullAssumption DEF Compose
<1>8. pc'[t] = "openSystem" /\ job'[t] = j
  BY <1>7 DEF IInv, TypeOK
<1>9. ThreadOK(t)'
  <2> HIDE DEF j
  <2>. QED
    BY <1>1, <1>3, <1>4, <1>5, <1>6, <1>8 DEF ThreadOK, JobOK, UseOK, EntryOK, HasEntry
<1>. QED
  BY <1>1, <1>4, <1>6, <1>7, <1>9, ContinueKeeps DEF HasEntry, Steps

LEMMA StartCloseKeeps ==
  ASSUME IInv, NEW t \in Threads, StartClose(t)
  PROVE  IInv'
<1>1. PICK h \in Handles :
        /\ MayUse(t, h, "close")
        /\ Unlocked
        /\ Begin(t, NewJob("close", h, NoName, NoName, NoPart),
                 IF store[h] = NoEntry THEN "closeDirect" ELSE "closeLock")
  BY DEF StartClose
<1> DEFINE j == NewJob("close", h, NoName, NoName, NoPart)
           step == IF store[h] = NoEntry THEN "closeDirect" ELSE "closeLock"
<1>2. h \in app
  BY <1>1 DEF MayUse
<1>3. j.kind = "close" /\ j.h = h
  BY DEF NewJob
<1>4. step \in Steps \ {"update", "closeSystem", "closeErase"}
  BY DEF Steps
<1>5. pc'[t] = step /\ job'[t] = j
  BY <1>1 DEF IInv, TypeOK
<1>6. UNCHANGED <<files, app, store, writer, answer, dangling>>
  BY DEF StartClose
<1>7. ThreadOK(t)'
  <2> HIDE DEF j
  <2>. QED
    BY <1>2, <1>3, <1>5, <1>6 DEF ThreadOK, JobOK, UseOK, EntryOK, HasEntry, KindAt
<1>. QED
  BY <1>1, <1>4, <1>6, <1>7, BeginKeeps DEF Kinds

LEMMA StartRenameKeeps ==
  ASSUME IInv, NEW t \in Threads, StartRename(t)
  PROVE  IInv'
<1>1. PICK h \in Handles, n \in Names :
        /\ MayUse(t, h, "rename")
        /\ Begin(t, NewJob("rename", h, n, n, NoPart), "renameSystem")
  BY DEF StartRename
<1> DEFINE j == NewJob("rename", h, n, n, NoPart)
<1>2. h \in app
  BY <1>1 DEF MayUse
<1>3. j.kind = "rename" /\ j.h = h /\ j.asked = n /\ j.name = n
  BY DEF NewJob
<1>4. pc'[t] = "renameSystem" /\ job'[t] = j
  BY <1>1 DEF IInv, TypeOK
<1>5. UNCHANGED <<files, app, store, writer, answer, dangling>>
  BY DEF StartRename
<1>6. ThreadOK(t)'
  <2> HIDE DEF j
  <2>. QED
    BY <1>2, <1>3, <1>4, <1>5 DEF ThreadOK, JobOK, UseOK, EntryOK, HasEntry, KindAt
<1>. QED
  BY <1>1, <1>5, <1>6, BeginKeeps DEF Kinds, Steps, HasEntry

LEMMA StartMoveKeeps ==
  ASSUME IInv, NEW t \in Threads, StartMove(t)
  PROVE  IInv'
<1>1. PICK h \in Handles, p \in Parts :
        /\ MayUse(t, h, "rename")
        /\ Unlocked
        /\ IF store[h] = NoEntry
           THEN Begin(t, NewJob("rename", h, Sibling(files[h].name, p),
                                Sibling(files[h].name, p), p), "renameSystem")
           ELSE Begin(t, NewJob("rename", h, Sibling(files[h].name, p), NoName, p),
                      "composeMove")
  BY DEF StartMove
<1> DEFINE asked == Sibling(files[h].name, p)
           name == IF store[h] = NoEntry THEN asked ELSE NoName
           step == IF store[h] = NoEntry THEN "renameSystem" ELSE "composeMove"
           j == NewJob("rename", h, asked, name, p)
<1>2. h \in app
  BY <1>1 DEF MayUse
<1>3. files[h] \in File
  BY <1>2, HandleFacts
<1>4. asked \in Names
  BY <1>3, NamesAssumption DEF File
<1>5. Begin(t, j, step)
  BY <1>1
<1>6. step \in Steps \ {"update", "closeSystem", "closeErase"}
  BY DEF Steps, PathReaders
<1>7. j.kind = "rename" /\ j.h = h /\ j.asked = asked /\ j.name = name /\ j.part = p
  BY DEF NewJob
<1>8. pc'[t] = step /\ job'[t] = j
  BY <1>5 DEF IInv, TypeOK
<1>9. UNCHANGED <<files, app, store, writer, answer, dangling>>
  BY DEF StartMove
<1>10. ThreadOK(t)'
  <2> HIDE DEF j
  <2>1. JobOK(t)'
    BY <1>4, <1>7, <1>8, <1>9 DEF JobOK, KindAt
  <2>2. UseOK(t)' /\ EntryOK(t)'
    BY <1>2, <1>7, <1>8, <1>9 DEF UseOK, EntryOK, HasEntry
  <2>. QED
    BY <2>1, <2>2 DEF ThreadOK
<1>. QED
  BY <1>1, <1>4, <1>5, <1>6, <1>9, <1>10, BeginKeeps DEF Kinds

LEMMA ComposeMoveKeeps ==
  ASSUME IInv, ReadersOnly, NEW t \in Threads, ComposeMove(t)
  PROVE  IInv'
<1> DEFINE h == job[t].h
           j == [job[t] EXCEPT !.name = Sibling(store[h].name, job[t].part)]
<1>1. pc[t] = "composeMove" /\ UNCHANGED <<files, app, store, writer, answer, dangling>>
  BY DEF ComposeMove
<1>2. job[t] \in Job /\ ThreadOK(t) /\ t \notin dangling
  BY ThreadFacts
<1>3. /\ h \in app /\ files[h] \in File
      /\ store[h] \in Entry /\ store[h].name = files[h].name
  BY <1>1, ViewFacts DEF HasEntry
<1>4. job[t].asked = Sibling(files[h].name, job[t].part) /\ job[t].part \in Parts
      /\ h \in Handles /\ job[t].kind = "rename"
  BY <1>1, <1>2 DEF ThreadOK, JobOK, KindAt
<1>5. job[t].asked \in Names
  BY <1>3, <1>4, NamesAssumption DEF File
<1>6. /\ j \in Job /\ j.kind = "rename" /\ j.h = h
      /\ j.asked = job[t].asked /\ j.name = j.asked
  BY <1>2, <1>3, <1>4, <1>5 DEF Job
<1>7. pc' = [pc EXCEPT ![t] = "renameSystem"] /\ job' = [job EXCEPT ![t] = j]
  BY <1>2, <1>3, NullAssumption DEF ComposeMove
<1>8. pc'[t] = "renameSystem" /\ job'[t] = j
  BY <1>7 DEF IInv, TypeOK
<1>9. ThreadOK(t)'
  <2> HIDE DEF j
  <2>. QED
    BY <1>1, <1>3, <1>4, <1>5, <1>6, <1>8
    DEF ThreadOK, JobOK, UseOK, EntryOK, HasEntry, KindAt
<1>. QED
  BY <1>1, <1>4, <1>6, <1>7, <1>9, ContinueKeeps DEF HasEntry, Steps

LEMMA CloseLockKeeps ==
  ASSUME IInv, NEW t \in Threads, CloseLock(t)
  PROVE  IInv'
<1>1. /\ pc[t] = "closeLock" /\ writer = NoThread /\ writer' = t
      /\ pc' = [pc EXCEPT ![t] = "closeSystem"]
      /\ UNCHANGED <<files, app, store, job, answer, dangling>>
  BY DEF CloseLock, Unlocked
<1>2. job[t] \in Job /\ ThreadOK(t) /\ job' = [job EXCEPT ![t] = job[t]]
  BY <1>1, ThreadFacts DEF IInv, TypeOK
<1>3. /\ pc' \in [Threads -> Steps]
      /\ pc'[t] = "closeSystem"
      /\ \A u \in Threads \ {t} : pc'[u] = pc[u] /\ job'[u] = job[u]
  BY <1>1, <1>2, StepTypes DEF IInv, Steps
<1>4. TypeOK'
  BY <1>1, <1>3 DEF IInv, TypeOK
<1>5. LockInv'
  BY <1>1, <1>3, NullAssumption DEF IInv, LockInv
<1>6. ThreadOK(t)'
  BY <1>1, <1>2, <1>3 DEF ThreadOK, JobOK, UseOK, EntryOK, HasEntry, KindAt
<1>7. ASSUME NEW u \in Threads \ {t} PROVE Meeting(t, u)' /\ Unrelied(u, t)'
  <2>1. Meeting(t, u) /\ Unrelied(u, t)
    BY DEF IInv, MeetInv
  <2>. QED
    BY <1>1, <1>3, <2>1 DEF Meeting, Using, Unrelied, HasEntry
<1>. QED
  BY <1>1, <1>3, <1>4, <1>5, <1>6, <1>7, LocalStepKeeps

LEMMA StartQueryKeeps ==
  ASSUME IInv, NEW t \in Threads, StartQuery(t)
  PROVE  IInv'
<1>1. PICK h \in Handles :
        /\ MayUse(t, h, "query")
        /\ Begin(t, NewJob("query", h, NoName, SystemName(files[h]), NoPart), "askStore")
  BY DEF StartQuery
<1> DEFINE j == NewJob("query", h, NoName, SystemName(files[h]), NoPart)
<1>2. h \in app
  BY <1>1 DEF MayUse
<1>3. SystemName(files[h]) \in Names \cup {NoName}
  BY <1>2, HandleFacts DEF SystemName, File
<1>4. j.kind = "query" /\ j.h = h
  BY DEF NewJob
<1>5. pc'[t] = "askStore" /\ job'[t] = j
  BY <1>1 DEF IInv, TypeOK
<1>6. UNCHANGED <<files, app, store, writer, answer, dangling>>
  BY DEF StartQuery
<1>7. ThreadOK(t)'
  <2> HIDE DEF j
  <2>. QED
    BY <1>2, <1>4, <1>5, <1>6 DEF ThreadOK, JobOK, UseOK, EntryOK, HasEntry, KindAt
<1>. QED
  BY <1>1, <1>3, <1>6, <1>7, BeginKeeps DEF Kinds, Steps, HasEntry

LEMMA AskStoreKeeps ==
  ASSUME IInv, NEW t \in Threads, AskStore(t)
  PROVE  IInv'
<1>1. pc[t] = "askStore" /\ Unlocked /\ UNCHANGED <<files, app, store, writer, dangling>>
  BY DEF AskStore
<1>2. job[t] \in Job /\ ThreadOK(t)
  BY ThreadFacts
<1>3. CASE store[job[t].h] = NoEntry
  <2>1. answer' \in [Threads -> Names \cup {NoName}]
    BY <1>2, <1>3 DEF AskStore, IInv, TypeOK, Job
  <2>. QED
    BY <1>1, <1>3, <2>1, ReturnKeeps DEF AskStore
<1>4. CASE store[job[t].h] # NoEntry
  <2>1. /\ pc' = [pc EXCEPT ![t] = "answer"] /\ UNCHANGED <<job, answer>>
    BY <1>4 DEF AskStore
  <2>2. job' = [job EXCEPT ![t] = job[t]] /\ pc'[t] = "answer"
    BY <2>1 DEF IInv, TypeOK
  <2>3. ThreadOK(t)'
    BY <1>1, <1>2, <1>4, <2>1, <2>2 DEF ThreadOK, JobOK, UseOK, EntryOK, HasEntry, KindAt
  <2>. QED
    BY <1>1, <1>2, <2>1, <2>2, <2>3, ContinueKeeps DEF Steps, PathReaders
<1>. QED
  BY <1>3, <1>4

LEMMA AnswerKeeps ==
  ASSUME IInv, ReadersOnly, NEW t \in Threads, Answer(t)
  PROVE  IInv'
<1>1. pc[t] = "answer" /\ UNCHANGED <<files, app, store, writer, dangling>>
  BY DEF Answer
<1>2. store[job[t].h] \in Entry /\ t \notin dangling
  BY <1>1, ThreadFacts, ViewFacts DEF HasEntry
<1>3. Return(t) /\ answer' = [answer EXCEPT ![t] = store[job[t].h].name]
  BY <1>2, NullAssumption DEF Answer
<1>4. answer' \in [Threads -> Names \cup {NoName}]
  BY <1>2, <1>3 DEF Entry, IInv, TypeOK
<1>. QED
  BY <1>1, <1>3, <1>4, ReturnKeeps

LEMMA StartEnumerateKeeps ==
  ASSUME IInv, ReadersOnly, NEW t \in Threads, StartEnumerate(t)
  PROVE  IInv'
<1>1. PICK h \in Handles :
        /\ MayUse(t, h, "enumerate")
        /\ Unlocked
        /\ store[h] # NoEntry
        /\ store[h].enum # "through"
        /\ Begin(t, NewJob("enumerate", h, NoName, NoName, NoPart),
                 IF store[h].enum = "none" THEN "prepare" ELSE "advanceLookup")
  BY DEF StartEnumerate
<1> DEFINE j == NewJob("enumerate", h, NoName, NoName, NoPart)
           step == IF store[h].enum = "none" THEN "prepare" ELSE "advanceLookup"
<1>2. h \in app
  BY <1>1 DEF MayUse
<1>3. store[h].enum \in {"none", "queue"}
  BY <1>1, HandleFacts DEF Entry, Enums
<1>4. j.kind = "enumerate" /\ j.h = h
  BY DEF NewJob
<1>5. step \in Steps \ {"update", "closeSystem", "closeErase"}
  BY DEF Steps, PathReaders
<1>6. pc'[t] = step /\ job'[t] = j
  BY <1>1 DEF IInv, TypeOK
<1>7. UNCHANGED <<files, app, store, writer, answer, dangling>>
  BY DEF StartEnumerate
<1>8. ThreadOK(t)'
  <2> HIDE DEF j
  <2>. QED
    BY <1>1, <1>2, <1>3, <1>4, <1>6, <1>7
    DEF ThreadOK, JobOK, UseOK, EntryOK, HasEntry, KindAt
<1>. QED
  BY <1>1, <1>5, <1>7, <1>8, BeginKeeps DEF Kinds

LEMMA PrepareKeeps ==
  ASSUME IInv, ReadersOnly, NEW t \in Threads, Prepare(t)
  PROVE  IInv'
<1>1. pc[t] = "prepare" /\ UNCHANGED <<files, app, store, writer, answer, dangling>>
  BY DEF Prepare
<1>2. job[t] \in Job /\ ThreadOK(t) /\ t \notin dangling
  BY ThreadFacts
<1>3. store[job[t].h] # NoEntry
  BY <1>1, <1>2 DEF ThreadOK, EntryOK, HasEntry
<1>4. PICK enum \in {"queue", "through"} : job' = [job EXCEPT ![t].enum = enum]
  BY <1>2, <1>3 DEF Prepare
<1> DEFINE j == [job[t] EXCEPT !.enum = enum]
<1>5. j \in Job /\ j.kind = job[t].kind /\ j.h = job[t].h /\ j.enum # "none"
  BY <1>2 DEF Job, Enums
<1>6. pc' = [pc EXCEPT ![t] = "associate"] /\ job' = [job EXCEPT ![t] = j]
  BY <1>2, <1>3, <1>4 DEF Prepare
<1>7. pc'[t] = "associate" /\ job'[t] = j
  BY <1>6 DEF IInv, TypeOK
<1>8. ThreadOK(t)'
  <2> HIDE DEF j
  <2>. QED
    BY <1>1, <1>2, <1>5, <1>7 DEF ThreadOK, JobOK, UseOK, EntryOK, HasEntry, KindAt
<1>. QED
  BY <1>1, <1>5, <1>6, <1>8, ContinueKeeps DEF HasEntry, Steps

\* Recheck and AdvanceLookup differ in the step they come from.
LEMMA LookupKeeps ==
  ASSUME IInv, NEW t \in Threads, Recheck(t) \/ AdvanceLookup(t)
  PROVE  IInv'
<1>1. /\ pc[t] \in {"recheck", "advanceLookup"}
      /\ UNCHANGED <<files, app, store, writer, answer, dangling>>
  BY DEF Recheck, AdvanceLookup
<1>2. job[t] \in Job /\ ThreadOK(t)
  BY ThreadFacts
<1> DEFINE entry == store[job[t].h]
<1>3. entry # NoEntry /\ entry.enum # "none" /\ job[t].h \in Handles
  BY <1>1, <1>2 DEF ThreadOK, EntryOK, JobOK, HasEntry
<1>4. CASE entry.enum = "through"
  <2>1. Return(t)
    BY <1>3, <1>4 DEF Recheck, AdvanceLookup
  <2>2. answer' \in [Threads -> Names \cup {NoName}]
    BY <1>1 DEF IInv, TypeOK
  <2>. QED
    BY <1>1, <2>1, <2>2, ReturnKeeps
<1>5. CASE entry.enum # "through"
  <2>1. entry.enum = "queue"
    BY <1>3, <1>5, HandleFacts DEF Entry, Enums
  <2>2. PICK step \in {"advanceLookup", "advance"} : pc' = [pc EXCEPT ![t] = step]
    BY <1>3, <1>5 DEF Recheck, AdvanceLookup
  <2>3. UNCHANGED job
    BY <1>3, <1>5 DEF Recheck, AdvanceLookup
  <2>4. job' = [job EXCEPT ![t] = job[t]] /\ pc'[t] = step
    BY <2>2, <2>3 DEF IInv, TypeOK
  <2>5. ThreadOK(t)'
    BY <1>1, <1>2, <1>3, <2>1, <2>3, <2>4
    DEF ThreadOK, JobOK, UseOK, EntryOK, HasEntry, KindAt
  <2>. QED
    BY <1>1, <1>2, <2>2, <2>4, <2>5, ContinueKeeps DEF Steps, HasEntry
<1>. QED
  BY <1>4, <1>5

LEMMA AdvanceKeeps ==
  ASSUME IInv, NEW t \in Threads, Advance(t)
  PROVE  IInv'
<1>1. t \notin dangling /\ answer \in [Threads -> Names \cup {NoName}]
  BY ThreadFacts DEF IInv, TypeOK
<1>. QED
  BY <1>1, ReturnKeeps DEF Advance

-----------------------------------------------------------------------------
(* The actions that change the row of one handle. *)

\* A thread that is done with its handle relies on nothing.
LEMMA QuietThreadKeeps ==
  ASSUME NEW u \in Threads, ThreadOK(u), pc'[u] = pc[u], job'[u] = job[u],
         pc[u] \in {"idle", "closeErase"}
  PROVE  ThreadOK(u)'
  BY DEF ThreadOK, JobOK, UseOK, EntryOK, HasEntry

\* Nobody else is using a handle that the application does not have, ...
LEMMA AbsentFacts ==
  ASSUME IInv, NEW u \in Threads, job[u].h \in Handles \ app
  PROVE  pc[u] \in {"idle", "closeErase", "insert"}
  BY ThreadFacts DEF ThreadOK, UseOK

\* ... nor one that is being opened, closed or renamed.
LEMMA ExclusiveFacts ==
  ASSUME IInv, ReadersOnly, NEW t \in Threads, NEW h \in Handles,
         Using(t, h), job[t].kind \in Exclusive,
         NEW u \in Threads \ {t}, job[u].h = h
  PROVE  pc[u] \in {"idle", "closeErase"}
  BY AloneFacts DEF Using

\* What an attempt can come to: the target is recorded for the target alone.
LEMMA LandingFacts ==
  ASSUME IInv, NEW t \in Threads, NEW landing \in Landing(t),
         job[t].h \in Handles \/ job[t].part = NoPart
  PROVE  /\ landing.real \in Places
         /\ landing.path \in Recorded
         /\ landing.path = "target" => landing.real = "target"
<1>. PICK real : real = Beside(job[t].h)
  OBVIOUS
<1>1. job[t].part # NoPart => real \in Places
  BY DEF Beside, IInv, TypeOK, File, Places
<1>2. \/ landing = [real |-> "target", path |-> "target"]
      \/ /\ landing.real = "origin" \/ (job[t].part # NoPart /\ landing.real = real)
         /\ landing.path \in {"bare", "origin"}
  BY DEF Landing
<1>. QED
  BY <1>1, <1>2 DEF Places, Recorded

LEMMA OpenSystemKeeps ==
  ASSUME IInv, NEW t \in Threads, OpenSystem(t)
  PROVE  IInv'
<1>1. pc[t] = "openSystem" /\ UNCHANGED <<store, writer, answer, dangling>>
  BY DEF OpenSystem
<1>2. job[t] \in Job /\ ThreadOK(t) /\ dangling' = {}
  BY <1>1, ThreadFacts DEF IInv, ViewsLive
<1>3. /\ job[t].asked \in Names
      /\ job[t].name = job[t].asked \/ (job[t].name = NoName /\ job[t].asked \in Free)
      /\ job[t].h \in Handles \/ job[t].part = NoPart
  BY <1>1, <1>2 DEF ThreadOK, JobOK
<1>4. CASE Return(t) /\ UNCHANGED <<files, app>>
  <2>1. answer' \in [Threads -> Names \cup {NoName}]
    BY <1>1 DEF IInv, TypeOK
  <2>. QED
    BY <1>1, <1>4, <2>1, ReturnKeeps
<1>5. ASSUME NEW h \in Handles, NEW landing \in Landing(t),
             files[h] = Closed,
             files' = [files EXCEPT ![h] = [name |-> job[t].asked, place |-> landing.real]],
             IF Intercepted(job[t].name)
             THEN /\ job' = [job EXCEPT ![t].kind = "open", ![t].h = h,
                                        ![t].place = landing.path]
                  /\ Goto(t, "insert")
                  /\ UNCHANGED app
             ELSE Return(t) /\ app' = app \cup {h}
      PROVE  IInv'
  <2> DEFINE f == [name |-> job[t].asked, place |-> landing.real]
  <2>0. /\ landing.real \in Places
        /\ landing.path \in Recorded
        /\ landing.path = "target" => landing.real = "target"
    BY <1>3, <1>5, LandingFacts
  <2>1. f \in File
    BY <1>3, <2>0 DEF File
  <2>2. h \notin app /\ HandleOK(h)
    BY <1>5, HandleFacts DEF HandleOK
  <2>3. files' \in [Handles -> File \cup {Closed}] /\ files'[h] = f
    BY <1>5, <2>1 DEF IInv, TypeOK
  <2>4. \A g \in Handles \ {h} : SameRow(g)
    BY <1>1, <1>5 DEF SameRow, IInv, TypeOK
  <2>5. ASSUME NEW u \in Threads, job[u].h = h PROVE pc[u] \in {"idle", "closeErase"}
    <3>1. pc[u] = "insert" => files[h] \in File
      BY <2>5, ThreadFacts DEF ThreadOK, JobOK
    <3>. QED
      BY <1>5, <2>2, <2>5, <3>1, AbsentFacts, NullAssumption
  <2>6. CASE Intercepted(job[t].name)
    <3> DEFINE j == [job[t] EXCEPT !.kind = "open", !.h = h, !.place = landing.path]
    <3>1. /\ j \in Job /\ j.kind = "open" /\ j.h = h
          /\ j.asked = job[t].asked /\ j.name = job[t].name /\ j.place = landing.path
      BY <1>2, <1>5, <2>0 DEF Job, Kinds
    <3>2. pc' = [pc EXCEPT ![t] = "insert"] /\ job' = [job EXCEPT ![t] = j] /\ UNCHANGED app
      BY <1>5, <2>6
    <3> HIDE DEF j
    <3>3. /\ pc' \in [Threads -> Steps]
          /\ job' \in [Threads -> Job]
          /\ pc'[t] = "insert"
          /\ job'[t] = j
          /\ \A u \in Threads \ {t} : pc'[u] = pc[u] /\ job'[u] = job[u]
      BY <3>1, <3>2, StepTypes DEF IInv, Steps
    <3>4. TypeOK'
      BY <1>1, <2>3, <3>2, <3>3 DEF IInv, TypeOK
    <3>5. LockInv'
      BY <1>1, <3>3 DEF IInv, LockInv
    <3>6. job[t].name = job[t].asked
      BY <1>3, <2>6, NamesAssumption, NullAssumption DEF Intercepted
    <3>7. ThreadOK(t)'
      BY <1>3, <2>0, <2>1, <2>2, <2>3, <2>6, <3>1, <3>2, <3>3, <3>6
      DEF ThreadOK, JobOK, UseOK, EntryOK, HasEntry, KindAt, Intercepted
    <3>8. \A u \in Threads \ {t} : job[u].h = h => ThreadOK(u)'
      BY <2>5, <3>3, ThreadFacts, QuietThreadKeeps
    <3>9. HandleOK(h)'
      <4>1. Erasing(h) => Erasing(h)'
        BY <1>1, <3>3 DEF Erasing
      <4>. QED
        BY <1>1, <2>2, <3>2, <4>1 DEF HandleOK
    <3>10. \A u \in Threads \ {t} : Meeting(t, u)' /\ Unrelied(t, u)' /\ Unrelied(u, t)'
      BY <2>5, <3>1, <3>3 DEF Meeting, Using, Unrelied, HasEntry
    <3>. QED
      BY <1>1, <1>2, <2>4, <3>3, <3>4, <3>5, <3>7, <3>8, <3>9, <3>10, StepKeeps
  <2>7. CASE ~Intercepted(job[t].name)
    <3>1. Return(t) /\ app' = app \cup {h}
      BY <1>5, <2>7
    <3>2. /\ pc' \in [Threads -> Steps]
          /\ job' \in [Threads -> Job]
          /\ pc'[t] = "idle"
          /\ job'[t] = NoJob
          /\ \A u \in Threads \ {t} : pc'[u] = pc[u] /\ job'[u] = job[u]
      BY <3>1, StepTypes, NoJobType DEF IInv, Steps
    <3>3. TypeOK'
      BY <1>1, <2>3, <3>1, <3>2 DEF IInv, TypeOK
    <3>4. LockInv'
      BY <1>1, <3>2 DEF IInv, LockInv
    <3>5. ThreadOK(t)'
      BY <3>2 DEF ThreadOK, JobOK, UseOK, EntryOK, HasEntry
    <3>6. \A u \in Threads \ {t} : job[u].h = h => ThreadOK(u)'
      BY <2>5, <3>2, ThreadFacts, QuietThreadKeeps
    <3>7. HandleOK(h)'
      <4>1. Erasing(h) => Erasing(h)'
        BY <1>1, <3>2 DEF Erasing
      <4>2. files'[h].name \in Free
        BY <1>3, <2>3, <2>7 DEF Free, Intercepted
      <4>3. files'[h] # Closed
        BY <2>1, <2>3, NullAssumption
      <4>. QED
        BY <1>1, <2>2, <4>1, <4>2, <4>3 DEF HandleOK, Free
    <3>8. \A u \in Threads \ {t} : Meeting(t, u)' /\ Unrelied(t, u)' /\ Unrelied(u, t)'
      BY <3>2 DEF Meeting, Using, Unrelied, HasEntry
    <3>. QED
      BY <1>1, <1>2, <2>4, <3>2, <3>3, <3>4, <3>5, <3>6, <3>7, <3>8, StepKeeps
  <2>. QED
    BY <2>6, <2>7
<1>. QED
  BY <1>4, <1>5 DEF OpenSystem

LEMMA StoreNewHandleKeeps ==
  ASSUME IInv, ReadersOnly, NEW t \in Threads, StoreNewHandle(t)
  PROVE  IInv'
<1>. PICK h : h = job[t].h
  OBVIOUS
<1>1. /\ pc[t] = "insert" /\ Unlocked /\ Return(t)
      /\ UNCHANGED <<files, writer, answer, dangling>>
      /\ app' = app \cup {h}
  BY DEF StoreNewHandle
<1>2. job[t] \in Job /\ ThreadOK(t) /\ dangling' = {}
  BY <1>1, ThreadFacts DEF IInv, ViewsLive
<1>3. /\ h \in Handles \ app /\ job[t].kind = "open"
      /\ job[t].name \in Names /\ Intercepted(job[t].name) /\ job[t].place \in Recorded
      /\ files[h] \in File /\ files[h].name = job[t].name
      /\ job[t].place = "target" => files[h].place = "target"
  BY <1>1, <1>2 DEF ThreadOK, JobOK, UseOK, KindAt, Job
<1>4. \A u \in Threads : pc[u] # "closeErase"
  BY <1>1, NullAssumption DEF IInv, LockInv, Unlocked
<1>5. store[h] = NoEntry
  BY <1>3, <1>4, HandleFacts DEF HandleOK, Erasing
<1> DEFINE entry == [name |-> job[t].name, place |-> job[t].place, enum |-> "none"]
<1>6. entry \in Entry
  BY <1>3 DEF Entry, Enums
<1>7. store' = [store EXCEPT ![h] = entry]
  BY <1>5 DEF StoreNewHandle, InsertHandle
<1>8. store' \in [Handles -> Entry \cup {NoEntry}] /\ store'[h] = entry
  BY <1>3, <1>6, <1>7 DEF IInv, TypeOK
<1>9. /\ pc' \in [Threads -> Steps]
      /\ job' \in [Threads -> Job]
      /\ pc'[t] = "idle"
      /\ job'[t] = NoJob
      /\ \A u \in Threads \ {t} : pc'[u] = pc[u] /\ job'[u] = job[u]
  BY <1>1, StepTypes, NoJobType DEF IInv, Steps
<1>10. TypeOK'
  BY <1>1, <1>3, <1>8, <1>9 DEF IInv, TypeOK
<1>11. LockInv'
  BY <1>1, <1>9 DEF IInv, LockInv
<1>12. \A g \in Handles \ {h} : SameRow(g)
  BY <1>1, <1>7 DEF SameRow, IInv, TypeOK
<1>13. ThreadOK(t)'
  BY <1>9 DEF ThreadOK, JobOK, UseOK, EntryOK, HasEntry
<1>14. \A u \in Threads \ {t} : job[u].h = h => ThreadOK(u)'
  <2>. TAKE u \in Threads \ {t}
  <2>1. job[u].h = h => pc[u] \in {"idle", "closeErase"}
    BY <1>1, <1>3, ExclusiveFacts DEF Using, Exclusive
  <2>. QED
    BY <1>9, <2>1, ThreadFacts, QuietThreadKeeps
<1>15. HandleOK(h)'
  <2>1. files'[h] = files[h] /\ files[h] \in File
    BY <1>1, <1>3
  <2>2. files'[h].name = entry.name /\ (entry.place = "target" => files'[h].place = "target")
    BY <1>3, <2>1
  <2>3. entry # NoEntry /\ files'[h] # Closed
    BY <1>6, <2>1, NullAssumption
  <2>4. ~Erasing(h)'
    BY <1>4, <1>9 DEF Erasing
  <2>5. files'[h].name \notin Free
    BY <1>3, <2>2 DEF Free, Intercepted
  <2> HIDE DEF entry
  <2>. QED
    BY <1>1, <1>8, <2>2, <2>3, <2>4, <2>5 DEF HandleOK, Free
<1>16. \A u \in Threads \ {t} : Meeting(t, u)' /\ Unrelied(t, u)' /\ Unrelied(u, t)'
  BY <1>9 DEF Meeting, Using, Unrelied, HasEntry
<1>. QED
  BY <1>1, <1>2, <1>9, <1>10, <1>11, <1>12, <1>13, <1>14, <1>15, <1>16, StepKeeps

LEMMA CloseDirectKeeps ==
  ASSUME IInv, ReadersOnly, NEW t \in Threads, CloseDirect(t)
  PROVE  IInv'
<1>. PICK h : h = job[t].h
  OBVIOUS
<1>1. pc[t] = "closeDirect" /\ Return(t) /\ UNCHANGED <<store, writer, answer, dangling>>
  BY DEF CloseDirect
<1>2. CASE UNCHANGED <<files, app>>
  <2>1. answer' \in [Threads -> Names \cup {NoName}]
    BY <1>1 DEF IInv, TypeOK
  <2>. QED
    BY <1>1, <1>2, <2>1, ReturnKeeps
<1>3. CASE CloseInSystem(h)
  <2>1. ThreadOK(t) /\ dangling' = {}
    BY <1>1, ThreadFacts DEF IInv, ViewsLive
  <2>2. h \in Handles /\ job[t].kind = "close" /\ store[h] = NoEntry
    BY <1>1, <2>1 DEF ThreadOK, JobOK, EntryOK, KindAt
  <2>3. /\ pc' \in [Threads -> Steps]
        /\ job' \in [Threads -> Job]
        /\ pc'[t] = "idle"
        /\ job'[t] = NoJob
        /\ \A u \in Threads \ {t} : pc'[u] = pc[u] /\ job'[u] = job[u]
    BY <1>1, StepTypes, NoJobType DEF IInv, Steps
  <2>4. TypeOK'
    BY <1>1, <1>3, <2>3 DEF IInv, TypeOK, CloseInSystem
  <2>5. LockInv'
    BY <1>1, <2>3 DEF IInv, LockInv
  <2>6. \A g \in Handles \ {h} : SameRow(g)
    BY <1>1, <1>3 DEF SameRow, IInv, TypeOK, CloseInSystem
  <2>7. ThreadOK(t)'
    BY <2>3 DEF ThreadOK, JobOK, UseOK, EntryOK, HasEntry
  <2>8. \A u \in Threads \ {t} : job[u].h = h => ThreadOK(u)'
    <3>. TAKE u \in Threads \ {t}
    <3>1. job[u].h = h => pc[u] \in {"idle", "closeErase"}
      BY <1>1, <2>2, ExclusiveFacts DEF Using, Exclusive
    <3>. QED
      BY <2>3, <3>1, ThreadFacts, QuietThreadKeeps
  <2>9. HandleOK(h)'
    BY <1>1, <1>3, <2>2 DEF HandleOK, CloseInSystem
  <2>10. \A u \in Threads \ {t} : Meeting(t, u)' /\ Unrelied(t, u)' /\ Unrelied(u, t)'
    BY <2>3 DEF Meeting, Using, Unrelied, HasEntry
  <2>. QED
    BY <1>1, <2>1, <2>3, <2>4, <2>5, <2>6, <2>7, <2>8, <2>9, <2>10, StepKeeps
<1>. QED
  BY <1>2, <1>3 DEF CloseDirect

LEMMA CloseSystemKeeps ==
  ASSUME IInv, ReadersOnly, NEW t \in Threads, CloseSystem(t)
  PROVE  IInv'
<1>. PICK h : h = job[t].h
  OBVIOUS
<1>1. pc[t] = "closeSystem" /\ UNCHANGED <<store, answer, dangling>>
  BY DEF CloseSystem
<1>2. CASE Return(t) /\ writer' = NoThread /\ UNCHANGED <<files, app>>
  <2>1. answer' \in [Threads -> Names \cup {NoName}]
    BY <1>1 DEF IInv, TypeOK
  <2>. QED
    BY <1>1, <1>2, <2>1, ReturnKeeps
<1>3. CASE CloseInSystem(h) /\ Goto(t, "closeErase") /\ UNCHANGED <<writer, job>>
  <2>1. job[t] \in Job /\ ThreadOK(t) /\ dangling' = {}
    BY <1>1, ThreadFacts DEF IInv, ViewsLive
  <2>2. h \in Handles /\ job[t].kind = "close"
    BY <1>1, <2>1 DEF ThreadOK, JobOK, KindAt
  <2>3. job' = [job EXCEPT ![t] = job[t]]
    BY <1>3 DEF IInv, TypeOK
  <2>4. /\ pc' \in [Threads -> Steps]
        /\ pc'[t] = "closeErase"
        /\ job'[t] = job[t]
        /\ \A u \in Threads \ {t} : pc'[u] = pc[u] /\ job'[u] = job[u]
    BY <1>3, <2>1, <2>3, StepTypes DEF IInv, Steps
  <2>5. TypeOK'
    BY <1>1, <1>3, <2>4 DEF IInv, TypeOK, CloseInSystem
  <2>6. LockInv'
    BY <1>1, <1>3, <2>4 DEF IInv, LockInv
  <2>7. \A g \in Handles \ {h} : SameRow(g)
    BY <1>1, <1>3 DEF SameRow, IInv, TypeOK, CloseInSystem
  <2>8. ThreadOK(t)'
    BY <1>3, <2>2, <2>4 DEF ThreadOK, JobOK, UseOK, EntryOK, HasEntry, KindAt
  <2>9. ASSUME NEW u \in Threads \ {t}, job[u].h = h
        PROVE  pc[u] \in {"idle", "closeErase"}
    BY <1>1, <2>2, <2>9, ExclusiveFacts DEF Using, Exclusive
  <2>10. \A u \in Threads \ {t} : job[u].h = h => ThreadOK(u)'
    BY <2>4, <2>9, ThreadFacts, QuietThreadKeeps
  <2>11. HandleOK(h)'
    BY <1>3, <2>4 DEF HandleOK, CloseInSystem, Erasing
  <2>12. \A u \in Threads \ {t} : Meeting(t, u)' /\ Unrelied(t, u)' /\ Unrelied(u, t)'
    BY <2>4, <2>9 DEF Meeting, Using, Unrelied, HasEntry
  <2>. QED
    BY <1>1, <2>1, <2>4, <2>5, <2>6, <2>7, <2>8, <2>10, <2>11, <2>12, StepKeeps
<1>. QED
  BY <1>2, <1>3 DEF CloseSystem

LEMMA CloseEraseKeeps ==
  ASSUME IInv, NEW t \in Threads, CloseErase(t)
  PROVE  IInv'
<1>. PICK h : h = job[t].h
  OBVIOUS
<1>1. /\ pc[t] = "closeErase" /\ Return(t) /\ writer' = NoThread
      /\ store' = [store EXCEPT ![h] = NoEntry]
      /\ UNCHANGED <<files, app, answer>>
  BY DEF CloseErase, Erase
<1>2. ThreadOK(t) /\ dangling = {}
  BY ThreadFacts DEF IInv, ViewsLive
<1>3. h \in Handles /\ store'[h] = NoEntry
  BY <1>1, <1>2 DEF ThreadOK, JobOK, IInv, TypeOK
<1>4. ASSUME NEW u \in Threads \ {t}, job[u].h = h
      PROVE  pc[u] \notin HasEntry /\ pc[u] # "closeErase"
  BY <1>1, <1>4 DEF IInv, MeetInv, Unrelied, LockInv
<1>5. dangling' = {}
  BY <1>2, <1>4 DEF CloseErase, Erase, Viewers, PathReaders, HasEntry
<1>6. /\ pc' \in [Threads -> Steps]
      /\ job' \in [Threads -> Job]
      /\ pc'[t] = "idle"
      /\ job'[t] = NoJob
      /\ \A u \in Threads \ {t} : pc'[u] = pc[u] /\ job'[u] = job[u]
  BY <1>1, StepTypes, NoJobType DEF IInv, Steps
<1>7. TypeOK'
  BY <1>1, <1>5, <1>6 DEF IInv, TypeOK
<1>8. LockInv'
  BY <1>1, <1>6, NullAssumption DEF IInv, LockInv
<1>9. \A g \in Handles \ {h} : SameRow(g)
  BY <1>1 DEF SameRow, IInv, TypeOK
<1>10. ThreadOK(t)'
  BY <1>6 DEF ThreadOK, JobOK, UseOK, EntryOK, HasEntry
<1>11. \A u \in Threads \ {t} : job[u].h = h => ThreadOK(u)'
  <2>1. ASSUME NEW u \in Threads \ {t}, job[u].h = h PROVE ThreadOK(u)'
    <3>1. JobOK(u)' /\ UseOK(u)'
      BY <1>1, <1>6, ThreadFacts DEF ThreadOK, JobOK, UseOK
    <3>2. EntryOK(u)'
      BY <1>3, <1>4, <1>6, <2>1 DEF EntryOK, HasEntry
    <3>. QED
      BY <3>1, <3>2 DEF ThreadOK
  <2>. QED
    BY <2>1
<1>12. HandleOK(h)'
  <2>1. Erasing(h)
    BY <1>1 DEF Erasing
  <2>2. Updating(h)' <=> Updating(h)
    BY <1>1, <1>6 DEF Updating
  <2>. QED
    BY <1>1, <1>3, <2>1, <2>2, HandleFacts DEF HandleOK, Free
<1>13. \A u \in Threads \ {t} : Meeting(t, u)' /\ Unrelied(t, u)' /\ Unrelied(u, t)'
  BY <1>6 DEF Meeting, Using, Unrelied, HasEntry
<1>. QED
  BY <1>1, <1>5, <1>6, <1>7, <1>8, <1>9, <1>10, <1>11, <1>12, <1>13, StepKeeps

LEMMA RenameSystemKeeps ==
  ASSUME IInv, ReadersOnly, NEW t \in Threads, RenameSystem(t)
  PROVE  IInv'
<1>. PICK h : h = job[t].h
  OBVIOUS
<1>1. pc[t] = "renameSystem" /\ UNCHANGED <<app, store, writer, answer, dangling>>
  BY DEF RenameSystem
<1>2. job[t] \in Job /\ ThreadOK(t) /\ dangling' = {}
  BY <1>1, ThreadFacts DEF IInv, ViewsLive
<1>3. /\ h \in Handles /\ h \in app /\ job[t].kind = "rename"
      /\ job[t].asked \in Names /\ job[t].name = job[t].asked
  BY <1>1, <1>2 DEF ThreadOK, JobOK, UseOK, KindAt
<1>4. CASE Return(t) /\ UNCHANGED files
  <2>1. answer' \in [Threads -> Names \cup {NoName}]
    BY <1>1 DEF IInv, TypeOK
  <2>. QED
    BY <1>1, <1>4, <2>1, ReturnKeeps
<1>5. ASSUME NEW landing \in Landing(t),
             files' = [files EXCEPT ![h] = [name |-> job[t].asked, place |-> landing.real]],
             job' = [job EXCEPT ![t].place = landing.path],
             Goto(t, "update")
      PROVE  IInv'
  <2> DEFINE f == [name |-> job[t].asked, place |-> landing.real]
             j == [job[t] EXCEPT !.place = landing.path]
  <2>0. /\ landing.real \in Places
        /\ landing.path \in Recorded
        /\ landing.path = "target" => landing.real = "target"
    BY <1>3, <1>5, LandingFacts
  <2>1. f \in File
    BY <1>3, <2>0 DEF File
  <2>2. files' \in [Handles -> File \cup {Closed}] /\ files'[h] = f
    BY <1>3, <1>5, <2>1 DEF IInv, TypeOK
  <2>3. /\ j \in Job /\ j.kind = "rename" /\ j.h = h
        /\ j.asked = job[t].asked /\ j.name = job[t].name /\ j.place = landing.path
    BY <1>2, <1>3, <2>0 DEF Job
  <2>4. pc' = [pc EXCEPT ![t] = "update"] /\ job' = [job EXCEPT ![t] = j]
    BY <1>5
  <2> HIDE DEF j
  <2>5. /\ pc' \in [Threads -> Steps]
        /\ job' \in [Threads -> Job]
        /\ pc'[t] = "update"
        /\ job'[t] = j
        /\ \A u \in Threads \ {t} : pc'[u] = pc[u] /\ job'[u] = job[u]
    BY <2>3, <2>4, StepTypes DEF IInv, Steps
  <2>6. TypeOK'
    BY <1>1, <2>2, <2>5 DEF IInv, TypeOK
  <2>7. LockInv'
    BY <1>1, <2>5 DEF IInv, LockInv
  <2>8. \A g \in Handles \ {h} : SameRow(g)
    BY <1>1, <1>5 DEF SameRow, IInv, TypeOK
  <2>9. ThreadOK(t)'
    BY <1>1, <1>3, <2>0, <2>1, <2>2, <2>3, <2>5 DEF ThreadOK, JobOK, UseOK, EntryOK, HasEntry, KindAt
  <2>10. ASSUME NEW u \in Threads \ {t}, job[u].h = h
         PROVE  pc[u] \in {"idle", "closeErase"}
    BY <1>1, <1>3, <2>10, ExclusiveFacts DEF Using, Exclusive
  <2>11. \A u \in Threads \ {t} : job[u].h = h => ThreadOK(u)'
    BY <2>5, <2>10, ThreadFacts, QuietThreadKeeps
  <2>12. HandleOK(h)'
    <3>1. files'[h] # Closed
      BY <2>1, <2>2, NullAssumption
    <3>2. Updating(h)'
      BY <2>3, <2>5 DEF Updating
    <3>. QED
      BY <1>1, <1>3, <3>1, <3>2 DEF HandleOK
  <2>13. \A u \in Threads \ {t} : Meeting(t, u)' /\ Unrelied(t, u)' /\ Unrelied(u, t)'
    BY <2>3, <2>5, <2>10 DEF Meeting, Using, Unrelied, HasEntry
  <2>. QED
    BY <1>1, <1>2, <2>5, <2>6, <2>7, <2>8, <2>9, <2>11, <2>12, <2>13, StepKeeps
<1>. QED
  BY <1>4, <1>5 DEF RenameSystem

LEMMA UpdateRenamedHandleKeeps ==
  ASSUME IInv, ReadersOnly, NEW t \in Threads, UpdateRenamedHandle(t)
  PROVE  IInv'
<1>. PICK h : h = job[t].h
  OBVIOUS
<1>1. /\ pc[t] = "update" /\ Unlocked /\ Return(t)
      /\ UNCHANGED <<files, app, writer, answer>>
  BY DEF UpdateRenamedHandle
<1>2. job[t] \in Job /\ ThreadOK(t) /\ dangling = {}
  BY <1>1, ThreadFacts DEF IInv, ViewsLive
<1>3. /\ h \in Handles /\ h \in app /\ job[t].kind = "rename"
      /\ job[t].name \in Names /\ job[t].place \in Recorded
      /\ files[h] \in File /\ files[h].name = job[t].name
      /\ job[t].place = "target" => files[h].place = "target"
  BY <1>1, <1>2 DEF ThreadOK, JobOK, UseOK, KindAt, Job
<1>4. ASSUME NEW u \in Threads \ {t}, job[u].h = h
      PROVE  pc[u] \in {"idle", "closeErase"}
  BY <1>1, <1>3, <1>4, ExclusiveFacts DEF Using, Exclusive
<1>5. dangling' = {}
  BY <1>2, <1>4 DEF UpdateRenamedHandle, InsertOrUpdateHandle, Erase, Viewers, PathReaders
<1>6. /\ pc' \in [Threads -> Steps]
      /\ job' \in [Threads -> Job]
      /\ pc'[t] = "idle"
      /\ job'[t] = NoJob
      /\ \A u \in Threads \ {t} : pc'[u] = pc[u] /\ job'[u] = job[u]
  BY <1>1, StepTypes, NoJobType DEF IInv, Steps
<1>7. /\ store' \in [Handles -> Entry \cup {NoEntry}]
      /\ \A g \in Handles \ {h} : store'[g] = store[g]
      /\ IF Intercepted(job[t].name)
         THEN /\ store'[h] \in Entry
              /\ store'[h].name = job[t].name
              /\ store'[h].place = "target" => job[t].place = "target"
         ELSE store'[h] = NoEntry
  <2>1. CASE Intercepted(job[t].name)
    <3> DEFINE entry == [name |-> job[t].name,
                         place |-> IF job[t].name \in Redirected
                                   THEN job[t].place ELSE "empty",
                         enum |-> IF store[h] = NoEntry THEN "none" ELSE store[h].enum]
    <3>1. entry \in Entry
      BY <1>3, HandleFacts DEF Entry, Enums, Recorded
    <3>2. store' = [store EXCEPT ![h] = entry]
      BY <2>1 DEF UpdateRenamedHandle, InsertOrUpdateHandle
    <3>. QED
      BY <1>3, <2>1, <3>1, <3>2 DEF IInv, TypeOK
  <2>2. CASE ~Intercepted(job[t].name)
    BY <1>3, <2>2 DEF UpdateRenamedHandle, Erase, IInv, TypeOK
  <2>. QED
    BY <2>1, <2>2
<1>8. TypeOK'
  BY <1>1, <1>5, <1>6, <1>7 DEF IInv, TypeOK
<1>9. LockInv'
  BY <1>1, <1>6 DEF IInv, LockInv
<1>10. \A g \in Handles \ {h} : SameRow(g)
  BY <1>1, <1>7 DEF SameRow
<1>11. ThreadOK(t)'
  BY <1>6 DEF ThreadOK, JobOK, UseOK, EntryOK, HasEntry
<1>12. \A u \in Threads \ {t} : job[u].h = h => ThreadOK(u)'
  BY <1>4, <1>6, ThreadFacts, QuietThreadKeeps
<1>13. HandleOK(h)'
  <2>1. files'[h] = files[h] /\ files'[h] # Closed
    BY <1>1, <1>3, HandleFacts DEF HandleOK
  <2>2. /\ files'[h].name = job[t].name
        /\ job[t].place = "target" => files'[h].place = "target"
    BY <1>3, <2>1
  <2>3. ~Erasing(h)'
    BY <1>1, <1>6, NullAssumption DEF Erasing, IInv, LockInv, Unlocked
  <2>4. job[t].name \in Free <=> ~Intercepted(job[t].name)
    BY <1>3 DEF Free, Intercepted
  <2>5. Redirected \cap Free = {}
    BY DEF Free
  <2>. QED
    BY <1>1, <1>3, <1>7, <2>1, <2>2, <2>3, <2>4, <2>5, NullAssumption DEF HandleOK
<1>14. \A u \in Threads \ {t} : Meeting(t, u)' /\ Unrelied(t, u)' /\ Unrelied(u, t)'
  BY <1>6 DEF Meeting, Using, Unrelied, HasEntry
<1>. QED
  BY <1>1, <1>5, <1>6, <1>8, <1>9, <1>10, <1>11, <1>12, <1>13, <1>14, StepKeeps

LEMMA AssociateKeeps ==
  ASSUME IInv, ReadersOnly, NEW t \in Threads, Associate(t)
  PROVE  IInv'
<1>. PICK h : h = job[t].h
  OBVIOUS
<1>1. /\ pc[t] = "associate" /\ Unlocked /\ pc' = [pc EXCEPT ![t] = "recheck"]
      /\ UNCHANGED <<files, app, writer, job, answer>>
  BY DEF Associate
<1>2. job[t] \in Job /\ ThreadOK(t) /\ dangling = {}
  BY <1>1, ThreadFacts DEF IInv, ViewsLive
<1>3. /\ h \in Handles /\ h \in app /\ job[t].kind = "enumerate"
      /\ job[t].enum \in Enums \ {"none"}
      /\ store[h] # NoEntry
  BY <1>1, <1>2 DEF ThreadOK, JobOK, UseOK, EntryOK, HasEntry, KindAt, Job
<1>4. store[h] \in Entry
  BY <1>3, HandleFacts
<1> DEFINE entry == [name |-> store[h].name, place |-> store[h].place,
                     enum |-> job[t].enum]
<1>5. entry \in Entry
  BY <1>3, <1>4 DEF Entry
<1>6. store' = [store EXCEPT ![h] = entry]
  BY <1>3 DEF Associate
<1>7. /\ store' \in [Handles -> Entry \cup {NoEntry}]
      /\ \A g \in Handles \ {h} : store'[g] = store[g]
      /\ store'[h] \in Entry
      /\ store'[h].name = store[h].name
      /\ store'[h].place = store[h].place
      /\ store'[h].enum # "none"
  BY <1>3, <1>5, <1>6 DEF IInv, TypeOK
<1> HIDE DEF entry
<1>8. job' = [job EXCEPT ![t] = job[t]]
  BY <1>1 DEF IInv, TypeOK
<1>9. /\ pc' \in [Threads -> Steps]
      /\ pc'[t] = "recheck"
      /\ job'[t] = job[t]
      /\ \A u \in Threads \ {t} : pc'[u] = pc[u] /\ job'[u] = job[u]
  BY <1>1, <1>2, <1>8, StepTypes DEF IInv, Steps
<1>10. ASSUME NEW u \in Threads \ {t}, job[u].h = h
       PROVE  pc[u] \in {"idle", "openSystem", "compose", "askStore", "answer"}
  <2>1. pc[u] # "closeErase"
    BY <1>1, NullAssumption DEF IInv, LockInv, Unlocked
  <2>2. pc[u] # "idle" => job[u].kind \notin Exclusive \cup {"enumerate"}
    BY <1>1, <1>3, <1>10, <2>1, AloneFacts DEF Using
  <2>. QED
    BY <2>2, ThreadFacts DEF ThreadOK, JobOK, KindAt, Exclusive, Steps, PathReaders
<1>11. dangling' = {}
  BY <1>2, <1>3, <1>10 DEF Associate, Viewers
<1>12. TypeOK'
  BY <1>1, <1>7, <1>9, <1>11 DEF IInv, TypeOK
<1>13. LockInv'
  BY <1>1, <1>9 DEF IInv, LockInv
<1>14. \A g \in Handles \ {h} : SameRow(g)
  BY <1>1, <1>7 DEF SameRow
<1>15. ThreadOK(t)'
  BY <1>1, <1>2, <1>3, <1>7, <1>9, NullAssumption
  DEF ThreadOK, JobOK, UseOK, EntryOK, HasEntry, KindAt
<1>16. \A u \in Threads \ {t} : job[u].h = h => ThreadOK(u)'
  <2>1. ASSUME NEW u \in Threads \ {t}, job[u].h = h PROVE ThreadOK(u)'
    <3>1. JobOK(u)' /\ UseOK(u)'
      BY <1>1, <1>9, ThreadFacts DEF ThreadOK, JobOK, UseOK
    <3>2. EntryOK(u)'
      BY <1>7, <1>9, <1>10, <2>1, NullAssumption DEF EntryOK, HasEntry
    <3>. QED
      BY <3>1, <3>2 DEF ThreadOK
  <2>. QED
    BY <2>1
<1>17. HandleOK(h)'
  <2>1. Erasing(h)' <=> Erasing(h)
    BY <1>1, <1>9 DEF Erasing
  <2>2. Updating(h)' <=> Updating(h)
    BY <1>1, <1>9 DEF Updating
  <2>3. HandleOK(h)
    BY <1>3, HandleFacts
  <2>. QED
    BY <1>1, <1>3, <1>7, <2>1, <2>2, <2>3, NullAssumption DEF HandleOK
<1>18. ASSUME NEW u \in Threads \ {t}
       PROVE  Meeting(t, u)' /\ Unrelied(t, u)' /\ Unrelied(u, t)'
  <2>1. Meeting(t, u) /\ Unrelied(u, t)
    BY DEF IInv, MeetInv
  <2>. QED
    BY <1>1, <1>9, <2>1 DEF Meeting, Using, Unrelied, HasEntry
<1>. QED
  BY <1>1, <1>9, <1>11, <1>12, <1>13, <1>14, <1>15, <1>16, <1>17, <1>18, StepKeeps

-----------------------------------------------------------------------------
(* The invariant. *)

LEMMA InitInvariant == Init => IInv
<1> SUFFICES ASSUME Init PROVE IInv
  OBVIOUS
<1>1. TypeOK
  BY NoJobType DEF Init, TypeOK, Steps
<1>2. LockInv
  BY NullAssumption DEF Init, LockInv
<1>3. ThreadInv
  BY DEF Init, ThreadInv, ThreadOK, JobOK, UseOK, EntryOK, HasEntry
<1>4. HandleInv
  BY DEF Init, HandleInv, HandleOK
<1>5. MeetInv
  BY DEF Init, MeetInv, Meeting, Unrelied, Using
<1>. QED
  BY <1>1, <1>2, <1>3, <1>4, <1>5 DEF Init, IInv, ViewsLive

LEMMA StutterInvariant ==
  ASSUME IInv, UNCHANGED vars
  PROVE  IInv'
<1> USE DEF vars
<1>1. TypeOK' /\ LockInv' /\ ViewsLive'
  BY DEF IInv, TypeOK, LockInv, ViewsLive
<1>2. ThreadInv'
  BY DEF IInv, ThreadInv, ThreadOK, JobOK, UseOK, EntryOK
<1>3. HandleInv'
  BY DEF IInv, HandleInv, HandleOK, Erasing, Updating
<1>4. MeetInv'
  BY DEF IInv, MeetInv, Meeting, Unrelied, Using
<1>. QED
  BY <1>1, <1>2, <1>3, <1>4 DEF IInv

LEMMA StepInvariant ==
  ASSUME IInv, ReadersOnly, [Next]_vars
  PROVE  IInv'
<1>1. ASSUME NEW t \in Threads, Start(t) PROVE IInv'
  BY <1>1, StartOpenKeeps, StartRelativeOpenKeeps, StartCloseKeeps, StartRenameKeeps,
     StartMoveKeeps, StartQueryKeeps, StartEnumerateKeeps
  DEF Start
<1>2. ASSUME NEW t \in Threads, Continue(t) PROVE IInv'
  BY <1>2, ComposeKeeps, OpenSystemKeeps, StoreNewHandleKeeps, CloseDirectKeeps,
     CloseLockKeeps, CloseSystemKeeps, CloseEraseKeeps, ComposeMoveKeeps,
     RenameSystemKeeps, UpdateRenamedHandleKeeps, AskStoreKeeps, AnswerKeeps,
     PrepareKeeps, AssociateKeeps, LookupKeeps, AdvanceKeeps
  DEF Continue
<1>. QED
  BY <1>1, <1>2, StutterInvariant DEF Next

\* The strengthening: every part holds in every reachable state, for an
\* application that overlaps only reads of one handle.
THEOREM Invariance ==
  ASSUME ReadersOnly
  PROVE  Spec => []IInv
  BY InitInvariant, StepInvariant, PTL DEF Spec

-----------------------------------------------------------------------------
(* The properties. *)

\* Every variable keeps its type.
THEOREM TypeCorrect ==
  ASSUME ReadersOnly
  PROVE  Spec => []TypeOK
<1>1. IInv => TypeOK
  BY DEF IInv
<1>. QED
  BY <1>1, Invariance, PTL

\* A handle the application has is stored exactly when a rule could concern
\* its name, under the name the application knows: RenameByHandle, NewFileHandle
\* and RemoveAndCloseHandle keep the store and the system in step.
THEOREM StoreIsFaithful ==
  ASSUME ReadersOnly
  PROVE  Spec => []StoreFaithful
<1>1. IInv => StoreFaithful
  <2> SUFFICES ASSUME IInv, NEW h \in app, Settled(h)
               PROVE  IF files[h].name \in Free
                      THEN store[h] = NoEntry
                      ELSE store[h] # NoEntry /\ store[h].name = files[h].name
    BY DEF StoreFaithful
  <2>1. h \in Handles
    BY DEF IInv, TypeOK
  <2>2. ~Updating(h) /\ ~Erasing(h)
    BY DEF Settled, Updating, Erasing
  <2>. QED
    BY <2>1, <2>2, HandleFacts DEF HandleOK
<1>. QED
  BY <1>1, Invariance, PTL

\* A file recorded as opened at its target was opened there.
THEOREM TargetIsFaithful ==
  ASSUME ReadersOnly
  PROVE  Spec => []TargetFaithful
<1>1. IInv => TargetFaithful
  <2> SUFFICES ASSUME IInv, NEW h \in app, Settled(h),
                      store[h] # NoEntry, store[h].place = "target"
               PROVE  files[h].place = "target"
    BY DEF TargetFaithful
  <2>1. h \in Handles
    BY DEF IInv, TypeOK
  <2>2. ~Updating(h) /\ ~Erasing(h)
    BY DEF Settled, Updating, Erasing
  <2>. QED
    BY <2>1, <2>2, HandleFacts DEF HandleOK
<1>. QED
  BY <1>1, Invariance, PTL

\* No lookup finds the entry of a handle that has been closed, although the
\* close and the erase are two steps: RemoveAndCloseHandle holds its lock.
THEOREM NoEntryOutlivesItsHandle ==
  ASSUME ReadersOnly
  PROVE  Spec => []NoStaleEntry
<1>1. IInv => NoStaleEntry
  <2> SUFFICES ASSUME IInv, NEW h \in Handles, files[h] = Closed, Unlocked
               PROVE  store[h] = NoEntry
    BY DEF NoStaleEntry
  <2>1. ~Erasing(h)
    BY NullAssumption DEF Erasing, IInv, LockInv, Unlocked
  <2>. QED
    BY <2>1, HandleFacts DEF HandleOK
<1>. QED
  BY <1>1, Invariance, PTL

\* The views that GetDataForHandle returns without the lock stay good until
\* their reader is done: nothing a lookup returned is freed or overwritten.
THEOREM ViewsAreLive ==
  ASSUME ReadersOnly
  PROVE  Spec => []ViewsLive
<1>1. IInv => ViewsLive
  BY DEF IInv
<1>. QED
  BY <1>1, Invariance, PTL

-----------------------------------------------------------------------------
(* What the answers need besides. *)

\* The names of a redirected directory and of its neighbours are redirected: a
\* name that is resolved beside a file at its target is one of a redirected file.
\* A move out of the patterns of a rule breaks this, and MoveFollowsRules.
TargetsStayRedirected ==
  \A n \in Redirected, p \in Parts : Join(n, p) \in Redirected /\ Sibling(n, p) \in Redirected

\* What the system makes of names at their target, and what a query has asked it.
NamedOK(t) ==
  LET f == files[job[t].h]
  IN /\ pc[t] \in {"openSystem", "renameSystem"} /\ job[t].part # NoPart
        /\ job[t].h \in Handles /\ f # Closed /\ f.place = "target" =>
          job[t].asked \in Redirected
     /\ pc[t] = "askStore" => job[t].name = SystemName(f)

PlaceInv ==
  /\ \A h \in Handles :
       files[h] # Closed /\ files[h].place = "target" => files[h].name \in Redirected
  /\ \A t \in Threads : NamedOK(t)

NInv == IInv /\ PlaceInv

\* A step is that of one thread.
LEMMA OthersStay ==
  ASSUME IInv, NEW t \in Threads, Start(t) \/ Continue(t)
  PROVE  \A u \in Threads \ {t} : pc'[u] = pc[u] /\ job'[u] = job[u]
<1>1. pc \in [Threads -> Steps] /\ job \in [Threads -> Job]
  BY DEF IInv, TypeOK
<1>2. CASE Start(t)
  BY <1>1, <1>2 DEF Start, StartOpen, StartRelativeOpen, StartClose, StartRename,
     StartMove, StartQuery, StartEnumerate
<1>3. CASE Compose(t) \/ OpenSystem(t) \/ StoreNewHandle(t) \/ CloseDirect(t)
           \/ CloseLock(t) \/ CloseSystem(t) \/ CloseErase(t) \/ ComposeMove(t)
  BY <1>1, <1>3 DEF Compose, OpenSystem, StoreNewHandle, CloseDirect, CloseLock,
     CloseSystem, CloseErase, ComposeMove
<1>4. CASE RenameSystem(t) \/ UpdateRenamedHandle(t) \/ AskStore(t) \/ Answer(t)
           \/ Prepare(t) \/ Associate(t) \/ Recheck(t) \/ AdvanceLookup(t) \/ Advance(t)
  BY <1>1, <1>4 DEF RenameSystem, UpdateRenamedHandle, AskStore, Answer, Prepare,
     Associate, Recheck, AdvanceLookup, Advance
<1>. QED
  BY <1>2, <1>3, <1>4 DEF Continue

\* A thread that is at one of these steps takes that step.
LEMMA StepsAt ==
  ASSUME NEW t \in Threads, Start(t) \/ Continue(t)
  PROVE  /\ pc[t] = "insert" => StoreNewHandle(t)
         /\ pc[t] = "closeLock" => CloseLock(t)
         /\ pc[t] = "associate" => Associate(t)
         /\ pc[t] = "askStore" => AskStore(t)
         /\ pc[t] = "answer" => Answer(t)
<1>1. CASE Start(t)
  <2>1. pc[t] = "idle"
    BY <1>1 DEF Start, StartOpen, StartRelativeOpen, StartClose, StartRename,
       StartMove, StartQuery, StartEnumerate, MayUse
  <2>. QED BY <2>1
<1>2. CASE Continue(t)
  BY <1>2 DEF Continue, Compose, OpenSystem, StoreNewHandle, CloseDirect, CloseLock,
     CloseSystem, CloseErase, ComposeMove, RenameSystem, UpdateRenamedHandle, AskStore,
     Answer, Prepare, Associate, Recheck, AdvanceLookup, Advance
<1>. QED
  BY <1>1, <1>2

\* The assertions of InsertHandle, RemoveAndCloseHandle and
\* AssociateDirectoryEnumerationState hold at the step that evaluates them.
THEOREM StoreAssertionsHold ==
  ASSUME ReadersOnly
  PROVE  Spec => AssertionsHold
<1> DEFINE Asserted(t) ==
       LET entry == store[job[t].h]
       IN /\ pc[t] = "insert" /\ pc'[t] = "idle" => entry = NoEntry
          /\ pc[t] = "closeLock" /\ pc'[t] = "closeSystem" => entry # NoEntry
          /\ pc[t] = "associate" /\ pc'[t] = "recheck" =>
               entry # NoEntry /\ entry.enum = "none"
<1>1. ASSUME IInv, [Next]_vars, NEW t \in Threads PROVE Asserted(t)
  <2>1. CASE pc'[t] = pc[t]
    BY <2>1
  <2>2. CASE pc'[t] # pc[t]
    <3>1. Start(t) \/ Continue(t)
      BY <1>1, <2>2, OthersStay DEF Next, vars
    <3>2. ThreadOK(t)
      BY <1>1, ThreadFacts
    <3>3. ASSUME pc[t] = "insert" PROVE store[job[t].h] = NoEntry
      <4>1. StoreNewHandle(t)
        BY <3>1, <3>3, StepsAt
      <4>2. job[t].h \in Handles \ app
        BY <3>2, <3>3 DEF ThreadOK, JobOK, UseOK
      <4>3. ~Erasing(job[t].h)
        BY <1>1, <4>1, NullAssumption DEF StoreNewHandle, Unlocked, Erasing, IInv, LockInv
      <4>4. HandleOK(job[t].h)
        BY <1>1, <4>2, HandleFacts
      <4>. QED
        BY <4>2, <4>3, <4>4 DEF HandleOK
    <3>4. pc[t] \in {"closeLock", "associate"} => store[job[t].h] # NoEntry
      BY <3>2 DEF ThreadOK, EntryOK, HasEntry
    <3>5. pc[t] = "associate" => store[job[t].h].enum = "none"
      BY <3>2 DEF ThreadOK, EntryOK
    <3>. QED
      BY <3>3, <3>4, <3>5
  <2>. QED
    BY <2>1, <2>2
<1>2. IInv /\ [Next]_vars => \A t \in Threads : Asserted(t)
  BY <1>1
<1>. QED
  BY <1>2, Invariance, PTL DEF Spec, AssertionsHold

-----------------------------------------------------------------------------
(* The names of files at their targets. *)

\* A thread that is not stepping keeps what its names were made of.
LEMMA OtherNamedKeeps ==
  ASSUME IInv, NEW u \in Threads, NamedOK(u), pc'[u] = pc[u], job'[u] = job[u],
         pc[u] \in {"openSystem", "renameSystem", "askStore"} /\ job[u].h \in Handles =>
           files'[job[u].h] = files[job[u].h]
  PROVE  NamedOK(u)'
<1>1. pc[u] \in {"renameSystem", "askStore"} => job[u].h \in Handles
  BY ThreadFacts DEF ThreadOK, JobOK
<1>. QED
  BY <1>1 DEF NamedOK, SystemName

\* A step that leaves the files alone owes only its own thread's part.
LEMMA SameFilesNamed ==
  ASSUME NInv, NEW t \in Threads, Start(t) \/ Continue(t), UNCHANGED files, NamedOK(t)'
  PROVE  PlaceInv'
<1>1. ASSUME NEW u \in Threads \ {t} PROVE NamedOK(u)'
  <2>1. NamedOK(u) /\ IInv
    BY DEF NInv, PlaceInv
  <2>. QED
    BY <2>1, OtherNamedKeeps, OthersStay
<1>. QED
  BY <1>1 DEF NInv, PlaceInv

\* A step that changes the file of one handle owes that handle's part besides.
LEMMA OneFileNamed ==
  ASSUME NInv, NEW t \in Threads, Start(t) \/ Continue(t), NEW h \in Handles,
         \A g \in Handles \ {h} : files'[g] = files[g],
         files'[h] # Closed /\ files'[h].place = "target" => files'[h].name \in Redirected,
         \A u \in Threads \ {t} :
           job[u].h = h => pc[u] \notin {"openSystem", "renameSystem", "askStore"},
         pc'[t] \notin {"openSystem", "renameSystem", "askStore"}
  PROVE  PlaceInv'
<1>1. \A g \in Handles : files'[g] # Closed /\ files'[g].place = "target" =>
                           files'[g].name \in Redirected
  BY DEF NInv, PlaceInv
<1>2. ASSUME NEW u \in Threads \ {t} PROVE NamedOK(u)'
  <2>1. NamedOK(u) /\ IInv
    BY DEF NInv, PlaceInv
  <2>2. pc'[u] = pc[u] /\ job'[u] = job[u]
    BY <2>1, OthersStay
  <2>3. pc[u] \in {"openSystem", "renameSystem", "askStore"} /\ job[u].h \in Handles =>
          files'[job[u].h] = files[job[u].h]
    OBVIOUS
  <2>. QED
    BY <2>1, <2>2, <2>3, OtherNamedKeeps
<1>3. NamedOK(t)'
  BY DEF NamedOK
<1>. QED
  BY <1>1, <1>2, <1>3 DEF PlaceInv

\* What an operation asks the system for by a relative name, where it begins.
LEMMA BeginNamed ==
  ASSUME NInv, NEW t \in Threads, Start(t), TargetsStayRedirected
  PROVE  PlaceInv'
<1>1. UNCHANGED files
  BY DEF Start, StartOpen, StartRelativeOpen, StartClose, StartRename,
     StartMove, StartQuery, StartEnumerate
<1>2. job \in [Threads -> Job] /\ pc \in [Threads -> Steps]
  BY DEF NInv, IInv, TypeOK
<1>3. CASE StartRelativeOpen(t)
  <2>1. PICK r, p, name :
          /\ r \in Handles /\ p \in Parts
          /\ job'[t] = NewJob("relative", r, Join(files[r].name, p), name, p)
          /\ pc'[t] \in {"openSystem", "compose"}
    BY <1>2, <1>3 DEF StartRelativeOpen
  <2>. QED
    BY <1>1, <2>1, SameFilesNamed DEF NewJob, NamedOK, TargetsStayRedirected, NInv, PlaceInv
<1>4. CASE StartMove(t)
  <2>1. PICK h, p, name :
          /\ h \in Handles /\ p \in Parts
          /\ job'[t] = NewJob("rename", h, Sibling(files[h].name, p), name, p)
          /\ pc'[t] \in {"renameSystem", "composeMove"}
    BY <1>2, <1>4 DEF StartMove
  <2>. QED
    BY <1>1, <2>1, SameFilesNamed DEF NewJob, NamedOK, TargetsStayRedirected, NInv, PlaceInv
<1>5. CASE StartQuery(t)
  <2>1. PICK h \in Handles :
          /\ job'[t] = NewJob("query", h, NoName, SystemName(files[h]), NoPart)
          /\ pc'[t] = "askStore"
    BY <1>2, <1>5 DEF StartQuery
  <2>2. SystemName(files[h])' = SystemName(files[h])
    BY <1>1 DEF SystemName
  <2>. QED
    BY <1>1, <2>1, SameFilesNamed DEF NewJob, NamedOK, SystemName
<1>6. CASE StartOpen(t) \/ StartRename(t) \/ StartClose(t) \/ StartEnumerate(t)
  <2>1. job'[t].part = NoPart /\ pc'[t] # "askStore"
    BY <1>2, <1>6 DEF StartOpen, StartRename, StartClose, StartEnumerate, NewJob
  <2>. QED
    BY <1>1, <2>1, SameFilesNamed DEF NamedOK
<1>. QED
  BY <1>3, <1>4, <1>5, <1>6 DEF Start

\* Where a file lands that is opened or renamed: at its target by its redirected
\* name, or beside a file that is there.
LEMMA LandingNamed ==
  ASSUME NInv, NEW t \in Threads, pc[t] \in {"openSystem", "renameSystem"},
         NEW landing \in Landing(t), landing.real = "target"
  PROVE  job[t].asked \in Redirected
<1>1. ThreadOK(t) /\ NamedOK(t)
  BY ThreadFacts DEF NInv, PlaceInv
<1>2. CASE job[t].name \in Redirected
  BY <1>1, <1>2, NamesAssumption, NullAssumption DEF ThreadOK, JobOK
<1>3. CASE job[t].name \notin Redirected
  <2>1. job[t].part # NoPart /\ Beside(job[t].h) = "target"
    BY <1>3 DEF Landing
  <2>2. files[job[t].h] # Closed /\ files[job[t].h].place = "target"
    BY <2>1 DEF Beside
  <2>3. job[t].h \in Handles
    BY <1>1, <2>1 DEF ThreadOK, JobOK
  <2>. QED
    BY <1>1, <2>1, <2>2, <2>3 DEF NamedOK
<1>. QED
  BY <1>2, <1>3

LEMMA OpenSystemNamed ==
  ASSUME NInv, NEW t \in Threads, OpenSystem(t)
  PROVE  PlaceInv'
<1>1. Start(t) \/ Continue(t)
  BY DEF Continue
<1>2. pc[t] = "openSystem" /\ pc \in [Threads -> Steps] /\ IInv
  BY DEF OpenSystem, NInv, IInv, TypeOK
<1>3. CASE Return(t) /\ UNCHANGED <<files, app>>
  BY <1>1, <1>2, <1>3, SameFilesNamed DEF NamedOK
<1>4. ASSUME NEW h \in Handles, NEW landing \in Landing(t), files[h] = Closed,
             files' = [files EXCEPT ![h] = [name |-> job[t].asked, place |-> landing.real]],
             pc'[t] \in {"insert", "idle"}
      PROVE  PlaceInv'
  <2>1. h \notin app
    BY <1>2, <1>4, HandleFacts DEF HandleOK
  <2>2. ASSUME NEW u \in Threads, job[u].h = h PROVE pc[u] \in {"idle", "closeErase", "insert"}
    BY <1>2, <2>1, <2>2, AbsentFacts
  <2>3. landing.real = "target" => job[t].asked \in Redirected
    BY <1>2, LandingNamed
  <2>4. /\ files'[h] = [name |-> job[t].asked, place |-> landing.real]
        /\ \A g \in Handles \ {h} : files'[g] = files[g]
    BY <1>2, <1>4 DEF IInv, TypeOK
  <2>6. \A u \in Threads \ {t} :
          job[u].h = h => pc[u] \notin {"openSystem", "renameSystem", "askStore"}
    BY <2>2
  <2>7. files'[h] # Closed /\ files'[h].place = "target" => files'[h].name \in Redirected
    BY <2>3, <2>4
  <2>8. pc'[t] \notin {"openSystem", "renameSystem", "askStore"}
    BY <1>4
  <2>. QED
    BY <1>1, <2>4, <2>6, <2>7, <2>8, OneFileNamed
<1>5. \/ Return(t) /\ UNCHANGED <<files, app>>
      \/ \E h \in Handles, landing \in Landing(t) :
           /\ files[h] = Closed
           /\ files' = [files EXCEPT ![h] = [name |-> job[t].asked, place |-> landing.real]]
           /\ pc'[t] \in {"insert", "idle"}
  BY <1>2 DEF OpenSystem
<1>. QED
  BY <1>3, <1>4, <1>5

LEMMA RenameSystemNamed ==
  ASSUME NInv, ReadersOnly, NEW t \in Threads, RenameSystem(t)
  PROVE  PlaceInv'
<1>1. Start(t) \/ Continue(t)
  BY DEF Continue
<1>2. pc[t] = "renameSystem" /\ pc \in [Threads -> Steps] /\ IInv
  BY DEF RenameSystem, NInv, IInv, TypeOK
<1>3. CASE Return(t) /\ UNCHANGED files
  BY <1>1, <1>2, <1>3, SameFilesNamed DEF NamedOK
<1>4. ASSUME NEW landing \in Landing(t),
             files' = [files EXCEPT ![job[t].h] =
                         [name |-> job[t].asked, place |-> landing.real]],
             pc'[t] = "update"
      PROVE  PlaceInv'
  <2>1. job[t].h \in Handles /\ Using(t, job[t].h) /\ job[t].kind \in Exclusive
    BY <1>2, ThreadFacts DEF ThreadOK, JobOK, KindAt, Using, Exclusive
  <2>2. ASSUME NEW u \in Threads \ {t}, job[u].h = job[t].h PROVE pc[u] \in {"idle", "closeErase"}
    BY <1>2, <2>1, <2>2, ExclusiveFacts
  <2>3. landing.real = "target" => job[t].asked \in Redirected
    BY <1>2, LandingNamed
  <2>4. /\ files'[job[t].h] = [name |-> job[t].asked, place |-> landing.real]
        /\ \A g \in Handles \ {job[t].h} : files'[g] = files[g]
    BY <1>2, <1>4, <2>1 DEF IInv, TypeOK
  <2>6. \A u \in Threads \ {t} :
          job[u].h = job[t].h => pc[u] \notin {"openSystem", "renameSystem", "askStore"}
    BY <2>2
  <2>7. files'[job[t].h].place = "target" => files'[job[t].h].name \in Redirected
    BY <2>3, <2>4
  <2>8. pc'[t] \notin {"openSystem", "renameSystem", "askStore"}
    BY <1>4
  <2>9. PICK h \in Handles : h = job[t].h
    BY <2>1
  <2>. QED
    BY <1>1, <2>4, <2>6, <2>7, <2>8, <2>9, OneFileNamed
<1>. QED
  BY <1>2, <1>3, <1>4 DEF RenameSystem

LEMMA CloseNamed ==
  ASSUME NInv, ReadersOnly, NEW t \in Threads, CloseDirect(t) \/ CloseSystem(t)
  PROVE  PlaceInv'
<1>1. Start(t) \/ Continue(t)
  BY DEF Continue
<1>2. /\ pc[t] \in {"closeDirect", "closeSystem"} /\ pc'[t] \in {"closeErase", "idle"}
      /\ IInv
  BY DEF CloseDirect, CloseSystem, NInv, IInv, TypeOK
<1>3. job[t].h \in Handles /\ Using(t, job[t].h) /\ job[t].kind \in Exclusive
  BY <1>2, ThreadFacts DEF ThreadOK, JobOK, KindAt, Using, Exclusive
<1>4. ASSUME NEW u \in Threads \ {t}, job[u].h = job[t].h PROVE pc[u] \in {"idle", "closeErase"}
  BY <1>2, <1>3, <1>4, ExclusiveFacts
<1>5. CASE CloseInSystem(job[t].h)
  <2>1. PICK h \in Handles : h = job[t].h
    BY <1>3
  <2>2. \A u \in Threads \ {t} :
          job[u].h = h => pc[u] \notin {"openSystem", "renameSystem", "askStore"}
    BY <1>4, <2>1
  <2>3. /\ files'[h] = Closed
        /\ \A g \in Handles \ {h} : files'[g] = files[g]
    BY <1>2, <1>5, <2>1 DEF CloseInSystem, IInv, TypeOK
  <2>4. pc'[t] \notin {"openSystem", "renameSystem", "askStore"}
    BY <1>2
  <2>. QED
    BY <1>1, <2>2, <2>3, <2>4, OneFileNamed
<1>6. CASE UNCHANGED files
  BY <1>1, <1>2, <1>6, SameFilesNamed DEF NamedOK
<1>. QED
  BY <1>5, <1>6 DEF CloseDirect, CloseSystem

LEMMA ComposeNamed ==
  ASSUME NInv, NEW t \in Threads, Compose(t) \/ ComposeMove(t), TargetsStayRedirected
  PROVE  PlaceInv'
<1>1. Start(t) \/ Continue(t)
  BY DEF Continue
<1>2. ThreadOK(t) /\ job \in [Threads -> Job] /\ pc \in [Threads -> Steps]
  BY ThreadFacts DEF NInv, IInv, TypeOK
<1> DEFINE h == job[t].h
           p == job[t].part
<1>3. /\ h \in Handles /\ p \in Parts
      /\ \/ job[t].asked = Join(files[h].name, p)
         \/ job[t].asked = Sibling(files[h].name, p)
  BY <1>2 DEF Compose, ComposeMove, ThreadOK, JobOK
<1>4. files[h] # Closed /\ files[h].place = "target" => job[t].asked \in Redirected
  BY <1>3 DEF NInv, PlaceInv, TargetsStayRedirected
<1>5. /\ job'[t].asked = job[t].asked /\ job'[t].h = h /\ UNCHANGED files
      /\ pc'[t] # "askStore"
  BY <1>2 DEF Compose, ComposeMove, Job
<1>6. NamedOK(t)'
  BY <1>4, <1>5 DEF NamedOK
<1>. QED
  BY <1>1, <1>5, <1>6, SameFilesNamed

LEMMA StepNamed ==
  ASSUME NInv, ReadersOnly, TargetsStayRedirected, NEW t \in Threads, Start(t) \/ Continue(t)
  PROVE  PlaceInv'
<1>1. CASE \/ StoreNewHandle(t) \/ CloseLock(t) \/ CloseErase(t) \/ UpdateRenamedHandle(t)
           \/ AskStore(t) \/ Answer(t) \/ Prepare(t) \/ Associate(t)
           \/ Recheck(t) \/ AdvanceLookup(t) \/ Advance(t)
  <2>1. /\ UNCHANGED files
        /\ pc'[t] \notin {"openSystem", "renameSystem", "askStore"}
    BY <1>1 DEF StoreNewHandle, CloseLock, CloseErase, UpdateRenamedHandle, AskStore, Answer,
       Prepare, Associate, Recheck, AdvanceLookup, Advance, NInv, IInv, TypeOK
  <2>. QED
    BY <2>1, SameFilesNamed DEF NamedOK
<1>. QED
  BY <1>1, BeginNamed, ComposeNamed, OpenSystemNamed, CloseNamed, RenameSystemNamed
  DEF Continue

LEMMA NamesInvariance ==
  ASSUME ReadersOnly, TargetsStayRedirected
  PROVE  Spec => []NInv
<1>1. Init => PlaceInv
  BY DEF Init, PlaceInv, NamedOK
<1>2. ASSUME NInv, [Next]_vars PROVE PlaceInv'
  <2>1. CASE Next
    BY <1>2, <2>1, StepNamed DEF Next
  <2>2. CASE UNCHANGED vars
    BY <1>2, <2>2 DEF vars, NInv, PlaceInv, NamedOK, SystemName
  <2>. QED
    BY <1>2, <2>1, <2>2
<1>3. NInv /\ IInv' /\ [Next]_vars => NInv'
  BY <1>2 DEF NInv
<1>4. Spec => []IInv
  BY Invariance
<1>5. Init /\ IInv => NInv
  BY <1>1 DEF NInv
<1>. QED
  BY <1>3, <1>4, <1>5, PTL DEF Spec

-----------------------------------------------------------------------------
(* The answers. *)

\* A question that is answered, from the entry or from the system, is answered
\* with the name of the file, which is the name Pathwinder goes by.
LEMMA ToldName ==
  ASSUME NInv, ReadersOnly, NEW t \in Threads, Start(t) \/ Continue(t),
         pc[t] \in {"askStore", "answer"}, pc'[t] = "idle"
  PROVE  /\ job[t].h \in Handles
         /\ files[job[t].h].name \in Names
         /\ BelievedName(job[t].h) = files[job[t].h].name
         /\ answer' = [answer EXCEPT ![t] = files[job[t].h].name]
         /\ UNCHANGED <<files, app, store>>
<1>. PICK h : h = job[t].h
  OBVIOUS
<1>1. IInv /\ ThreadOK(t) /\ NamedOK(t) /\ t \notin dangling /\ pc \in [Threads -> Steps]
  BY ThreadFacts DEF NInv, PlaceInv, IInv, TypeOK
<1>2. h \in Handles /\ h \in app /\ Using(t, h)
  BY <1>1 DEF ThreadOK, JobOK, UseOK, Using
<1>3. job[t].kind = "query"
  BY <1>1 DEF ThreadOK, JobOK, KindAt
<1>4. ~Updating(h)
  <2>1. ASSUME NEW u \in Threads, pc[u] = "update", job[u].h = h PROVE FALSE
    <3>1. job[u].kind = "rename" /\ Using(u, h) /\ u # t
      BY <1>1, <2>1, ThreadFacts DEF ThreadOK, JobOK, KindAt, Using
    <3>. QED
      BY <1>1, <1>2, <3>1, AloneFacts DEF Exclusive
  <2>. QED
    BY <2>1 DEF Updating
<1>5. files[h] \in File /\ files[h].name \in Names /\ HandleOK(h)
  BY <1>1, <1>2, HandleFacts DEF File
<1>6. CASE pc[t] = "askStore"
  <2>1. AskStore(t)
    BY <1>6, StepsAt
  <2>2. store[h] = NoEntry
    BY <1>1, <2>1 DEF AskStore
  <2>3. files[h].name \in Free
    BY <1>2, <1>4, <1>5, <2>2 DEF HandleOK
  <2>4. SystemName(files[h]) = files[h].name
    BY <1>2, <1>5, <2>3, NullAssumption DEF SystemName, NInv, PlaceInv, Free
  <2>5. job[t].name = files[h].name
    BY <1>1, <1>6, <2>4 DEF NamedOK
  <2>. QED
    BY <1>2, <1>5, <2>1, <2>2, <2>4, <2>5 DEF AskStore, BelievedName
<1>7. CASE pc[t] = "answer"
  <2>1. Answer(t)
    BY <1>7, StepsAt
  <2>2. store[h] \in Entry /\ store[h].name = files[h].name
    BY <1>1, <1>7, ViewFacts DEF HasEntry
  <2>3. store[h] # NoEntry
    BY <2>2, NullAssumption
  <2>. QED
    BY <1>1, <1>2, <1>5, <2>1, <2>2, <2>3 DEF Answer, BelievedName
<1>. QED
  BY <1>6, <1>7

\* Asked for the name of an open file, QueryByHandle gives the name under which
\* the application opened or last renamed it: in no interleaving the name of the
\* target, the one before a rename, or that of another file with the same handle.
THEOREM AnswersAreTrue ==
  ASSUME ReadersOnly, TargetsStayRedirected
  PROVE  Spec => AnswerTrue
<1> DEFINE True(t) ==
       pc[t] \in {"askStore", "answer"} /\ pc'[t] = "idle" =>
         answer'[t] = files[job[t].h].name
<1>1. ASSUME NInv, [Next]_vars, NEW t \in Threads PROVE True(t)
  <2>1. answer \in [Threads -> Names \cup {NoName}] /\ IInv
    BY <1>1 DEF NInv, IInv, TypeOK
  <2>2. CASE pc'[t] = pc[t]
    BY <2>2
  <2>3. CASE pc'[t] # pc[t]
    <3>1. Start(t) \/ Continue(t)
      BY <1>1, <2>1, <2>3, OthersStay DEF Next, vars
    <3>. QED
      BY <1>1, <2>1, <3>1, ToldName
  <2>. QED
    BY <2>2, <2>3
<1>2. NInv /\ [Next]_vars => \A t \in Threads : True(t)
  BY <1>1
<1>. QED
  BY <1>2, NamesInvariance, PTL DEF Spec, AnswerTrue

\* What a handle is called is a name or, while a rename is half done, nothing.
LEMMA BelievedType ==
  ASSUME IInv, NEW h \in Handles
  PROVE  BelievedName(h) \in Names \cup {NoName}
  BY HandleFacts DEF BelievedName, SystemName, File, Entry

\* Whatever becomes of the name of one handle is an open, a rename or a close.
LEMMA OneNameChanges ==
  ASSUME NEW h \in Handles,
         BelievedName(h) \in Names \cup {NoName},
         BelievedName(h)' \in Names \cup {NoName},
         \A g \in Handles \ {h} : BelievedName(g)' = BelievedName(g),
         UNCHANGED answer
  PROVE  [Promise!Next]_Promise!vars
<1> DEFINE names == [g \in Handles |-> BelievedName(g)]
           n == BelievedName(h)'
<1>1. names' = [names EXCEPT ![h] = n]
  OBVIOUS
<1>2. names[h] = BelievedName(h)
  OBVIOUS
<1>3. CASE BelievedName(h) = NoName /\ n # NoName
  <2>1. Promise!Open(h, n)
    BY <1>1, <1>2, <1>3 DEF Promise!Open
  <2>. QED
    BY <1>3, <2>1 DEF Promise!Next
<1>4. CASE BelievedName(h) # NoName /\ n # NoName
  <2>1. Promise!Rename(h, n)
    BY <1>1, <1>2, <1>4 DEF Promise!Rename
  <2>. QED
    BY <1>4, <2>1 DEF Promise!Next
<1>5. CASE BelievedName(h) # NoName /\ n = NoName
  <2>1. Promise!Close(h)
    BY <1>1, <1>2, <1>5 DEF Promise!Close
  <2>. QED
    BY <2>1 DEF Promise!Next
<1>6. CASE BelievedName(h) = NoName /\ n = NoName
  BY <1>6 DEF Promise!vars
<1>. QED
  BY <1>3, <1>4, <1>5, <1>6

\* A row that stays keeps its name.
LEMMA SameRowSameName ==
  ASSUME NEW g, SameRow(g)
  PROVE  BelievedName(g)' = BelievedName(g)
  BY DEF SameRow, BelievedName, SystemName

\* A step answers, or changes the row of one handle, or of none.
LEMMA OneRow ==
  ASSUME IInv, NEW t \in Threads, Start(t) \/ Continue(t)
  PROVE  \/ pc[t] \in {"askStore", "answer"} /\ pc'[t] = "idle"
         \/ UNCHANGED <<files, app, store, answer>>
         \/ /\ UNCHANGED answer
            /\ \E h \in Handles : \A g \in Handles \ {h} : SameRow(g)
<1>1. /\ files \in [Handles -> File \cup {Closed}]
      /\ store \in [Handles -> Entry \cup {NoEntry}]
      /\ pc \in [Threads -> Steps]
      /\ ThreadOK(t)
  BY ThreadFacts DEF IInv, TypeOK
<1>2. CASE Start(t)
  BY <1>2 DEF Start, StartOpen, StartRelativeOpen, StartClose, StartRename,
     StartMove, StartQuery, StartEnumerate
<1>3. CASE Compose(t) \/ CloseLock(t) \/ ComposeMove(t) \/ AskStore(t) \/ Answer(t)
           \/ Prepare(t) \/ Recheck(t) \/ AdvanceLookup(t) \/ Advance(t)
  BY <1>1, <1>3 DEF Compose, CloseLock, ComposeMove, AskStore, Answer, Prepare,
     Recheck, AdvanceLookup, Advance
<1>4. CASE OpenSystem(t)
  <2>1. ASSUME NEW h \in Handles, NEW f, files' = [files EXCEPT ![h] = f],
               app' = app \cup {h} \/ UNCHANGED app
        PROVE  \A g \in Handles \ {h} : SameRow(g)
    BY <1>1, <1>4, <2>1 DEF OpenSystem, SameRow
  <2>2. UNCHANGED <<store, answer>>
    BY <1>4 DEF OpenSystem
  <2>3. \/ UNCHANGED <<files, app>>
        \/ \E h \in Handles, f \in {[name |-> job[t].asked, place |-> l.real] : l \in Landing(t)} :
             /\ files' = [files EXCEPT ![h] = f]
             /\ app' = app \cup {h} \/ UNCHANGED app
    BY <1>4 DEF OpenSystem
  <2>. QED
    BY <2>1, <2>2, <2>3
<1>5. CASE \/ StoreNewHandle(t) \/ CloseErase(t) \/ UpdateRenamedHandle(t) \/ Associate(t)
           \/ CloseDirect(t) \/ CloseSystem(t) \/ RenameSystem(t)
  <2>1. PICK h \in Handles : h = job[t].h
    BY <1>1, <1>5 DEF StoreNewHandle, CloseErase, UpdateRenamedHandle, Associate, CloseDirect,
       CloseSystem, RenameSystem, ThreadOK, JobOK
  <2>2. CASE StoreNewHandle(t) \/ CloseErase(t) \/ UpdateRenamedHandle(t) \/ Associate(t)
    <3>1. /\ UNCHANGED <<files, answer>>
          /\ \A g \in Handles \ {h} : store'[g] = store[g] /\ (g \in app' <=> g \in app)
      BY <1>1, <2>1, <2>2 DEF StoreNewHandle, CloseErase, UpdateRenamedHandle, Associate,
         InsertHandle, InsertOrUpdateHandle, Erase
    <3>. QED
      BY <3>1 DEF SameRow
  <2>3. CASE CloseDirect(t) \/ CloseSystem(t) \/ RenameSystem(t)
    <3>1. /\ UNCHANGED <<store, answer>>
          /\ \A g \in Handles \ {h} : files'[g] = files[g] /\ (g \in app' <=> g \in app)
      BY <1>1, <2>1, <2>3 DEF CloseDirect, CloseSystem, CloseInSystem, RenameSystem
    <3>. QED
      BY <3>1 DEF SameRow
  <2>. QED
    BY <1>5, <2>2, <2>3
<1>. QED
  BY <1>2, <1>3, <1>4, <1>5 DEF Continue

\* The store and the handle table of the system, updated one after the other by
\* threads that interleave, are one table of names to the application: each step
\* opens, renames or closes one handle, tells a name of the table, or nothing.
THEOREM StoreImplementsHandleNames ==
  ASSUME ReadersOnly, TargetsStayRedirected
  PROVE  Spec => ImplementsHandleNames
<1>1. Init => Promise!Init
  BY DEF Init, Promise!Init, BelievedName
<1>2. ASSUME NInv, IInv', [Next]_vars PROVE [Promise!Next]_Promise!vars
  <2>1. ASSUME NEW t \in Threads, Start(t) \/ Continue(t)
        PROVE  [Promise!Next]_Promise!vars
    <3>1. CASE pc[t] \in {"askStore", "answer"} /\ pc'[t] = "idle"
      <4>1. PICK h \in Handles : h = job[t].h
        BY <1>2, <2>1, <3>1, ToldName
      <4>2. /\ BelievedName(h) \in Names
            /\ answer' = [answer EXCEPT ![t] = BelievedName(h)]
            /\ UNCHANGED <<files, app, store>>
        BY <1>2, <2>1, <3>1, <4>1, ToldName
      <4>3. \A g \in Handles : BelievedName(g)' = BelievedName(g)
        BY <4>2, SameRowSameName DEF SameRow
      <4>4. Promise!Tell(t, h)
        BY <4>2, <4>3, NullAssumption DEF Promise!Tell
      <4>. QED
        BY <4>4 DEF Promise!Next
    <3>2. CASE UNCHANGED <<files, app, store, answer>>
      <4>1. \A g \in Handles : BelievedName(g)' = BelievedName(g)
        BY <3>2, SameRowSameName DEF SameRow
      <4>. QED
        BY <3>2, <4>1 DEF Promise!vars
    <3>3. ASSUME UNCHANGED answer, NEW h \in Handles, \A g \in Handles \ {h} : SameRow(g)
          PROVE  [Promise!Next]_Promise!vars
      <4>1. \A g \in Handles \ {h} : BelievedName(g)' = BelievedName(g)
        BY <3>3, SameRowSameName
      <4>2. BelievedName(h) \in Names \cup {NoName}
        BY <1>2, BelievedType DEF NInv
      <4>3. BelievedName(h)' \in Names \cup {NoName}
        BY <1>2, HandleFacts DEF BelievedName, SystemName, IInv, TypeOK, File, Entry,
           HandleInv, HandleOK
      <4>. QED
        BY <3>3, <4>1, <4>2, <4>3, OneNameChanges
    <3>. QED
      BY <1>2, <2>1, <3>1, <3>2, <3>3, OneRow DEF NInv
  <2>2. CASE UNCHANGED vars
    <3>1. \A g \in Handles : BelievedName(g)' = BelievedName(g)
      BY <2>2, SameRowSameName DEF SameRow, vars
    <3>. QED
      BY <2>2, <3>1 DEF Promise!vars, vars
  <2>. QED
    BY <1>2, <2>1, <2>2 DEF Next
<1>3. NInv /\ IInv' /\ [Next]_vars => [Promise!Next]_Promise!vars
  BY <1>2
<1>4. Spec => []IInv
  BY Invariance
<1>. QED
  BY <1>1, <1>3, <1>4, NamesInvariance, PTL DEF Spec, ImplementsHandleNames, Promise!Spec
=============================================================================
