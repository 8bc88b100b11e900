---------------------- MODULE OpenHandleStoreInvariant ----------------------
(***************************************************************************)
(* The inductive invariant behind the safety properties of OpenHandleStore,*)
(* for an application that keeps to ReadersOnly.  It is put together from  *)
(* what each step of a thread relies on, what each handle is owed, and how *)
(* two threads may meet on one handle.  A run checks it, and               *)
(* OpenHandleStoreProofs proves it.                                        *)
(***************************************************************************)
EXTENDS OpenHandleStore

\* The operation that each step belongs to.
KindAt(step) ==
  CASE step = "insert" -> "open"
    [] step = "compose" -> "relative"
    [] step \in {"closeDirect", "closeLock", "closeSystem", "closeErase"} -> "close"
    [] step \in {"composeMove", "renameSystem", "update"} -> "rename"
    [] step \in {"askStore", "answer"} -> "query"
    [] OTHER -> "enumerate"

\* Steps whose thread has found an entry for its handle and relies on it.
HasEntry == {"compose", "composeMove", "answer", "prepare",
             "associate", "recheck", "advanceLookup", "advance",
             "closeLock", "closeSystem"}

LockInv == \A t \in Threads : pc[t] \in {"closeSystem", "closeErase"} <=> writer = t

-----------------------------------------------------------------------------
(* What a thread knows. *)

\* Of its own arguments.
JobOK(t) ==
  LET j == job[t]
  IN /\ pc[t] # "undefined"
     /\ pc[t] \notin {"idle", "openSystem"} =>
          j.h \in Handles /\ j.kind = KindAt(pc[t])
     /\ pc[t] = "openSystem" =>
          /\ j.asked \in Names
          /\ j.name = j.asked \/ (j.name = NoName /\ j.asked \in Free)
          /\ \/ j.kind = "open" /\ j.h = NoHandle /\ j.part = NoPart
             \/ j.kind = "relative" /\ j.h \in Handles
     /\ pc[t] \in {"compose", "composeMove"} => j.part \in Parts
     /\ pc[t] = "compose" => j.asked = Join(files[j.h].name, j.part)
     /\ pc[t] = "composeMove" => j.asked = Sibling(files[j.h].name, j.part)
     /\ pc[t] \in {"renameSystem", "update", "insert"} =>
          j.asked \in Names /\ j.name = j.asked
     /\ pc[t] \in {"update", "insert"} =>
          /\ files[j.h] \in File
          /\ files[j.h].name = j.name
          /\ j.place = "target" => files[j.h].place = "target"
     /\ pc[t] = "insert" => Intercepted(j.name)
     /\ pc[t] = "associate" => j.enum # "none"

\* Operations are on handles the application has, a new one apart.
UseOK(t) ==
  /\ pc[t] \notin {"idle", "closeErase", "insert"} /\ job[t].h \in Handles =>
       job[t].h \in app
  /\ pc[t] = "insert" => job[t].h \notin app

\* Of the entry it has found.
EntryOK(t) ==
  LET h == job[t].h
  IN /\ pc[t] \in HasEntry => store[h] # NoEntry
     /\ pc[t] = "closeDirect" => store[h] = NoEntry
     /\ pc[t] \in {"prepare", "associate"} => store[h].enum = "none"
     /\ pc[t] = "recheck" => store[h].enum # "none"
     /\ pc[t] \in {"advanceLookup", "advance"} => store[h].enum = "queue"

ThreadOK(t) == JobOK(t) /\ UseOK(t) /\ EntryOK(t)

ThreadInv == \A t \in Threads : ThreadOK(t)

-----------------------------------------------------------------------------
(* What a handle is owed. *)

Updating(h) == \E t \in Threads : pc[t] = "update" /\ job[t].h = h

Erasing(h) == \E t \in Threads : pc[t] = "closeErase" /\ job[t].h = h

\* A handle the application does not have is not stored, bar a pending erase.
\* A file that got its value before the erase needs no entry unless it is
\* being renamed: its open would still be waiting for the lock.
HandleOK(h) ==
  /\ h \in app => files[h] # Closed
  /\ h \notin app /\ ~Erasing(h) => store[h] = NoEntry
  /\ h \in app /\ Erasing(h) /\ ~Updating(h) => files[h].name \in Free
  /\ h \in app /\ ~Erasing(h) /\ ~Updating(h) /\ files[h].name \in Free =>
       store[h] = NoEntry
  /\ h \in app /\ ~Erasing(h) /\ ~Updating(h) /\ files[h].name \notin Free =>
       store[h] # NoEntry /\ store[h].name = files[h].name
  /\ h \in app /\ ~Erasing(h) /\ ~Updating(h) /\ store[h] # NoEntry
       /\ store[h].place = "target" => files[h].place = "target"

HandleInv == \A h \in Handles : HandleOK(h)

-----------------------------------------------------------------------------
(* How two threads meet on a handle. *)

Meeting(t, u) ==
  \A h \in Handles :
    Using(t, h) /\ Using(u, h) => Compatible(job[t].kind, job[u].kind)

\* While a closed handle waits to be erased nobody relies on its entry.
Unrelied(t, u) ==
  pc[t] = "closeErase" /\ job[u].h = job[t].h => pc[u] \notin HasEntry

MeetInv ==
  \A t, u \in Threads : t # u => Meeting(t, u) /\ Unrelied(t, u)

-----------------------------------------------------------------------------

IInv == TypeOK /\ LockInv /\ ThreadInv /\ HandleInv /\ MeetInv /\ ViewsLive
=============================================================================
