-------------------------- MODULE ApplicationBuffers --------------------------
(***************************************************************************)
(* What the executor leaves in the buffer of the application: the entries  *)
(* of a listing, one behind the other, and the name of a handle in place   *)
(* of the one that the system has put there.  A buffer may have any size,  *)
(* and end within a name.                                                  *)
(*                                                                         *)
(* The queue that a listing drains is the sequence of names that it will   *)
(* offer (DirectoryQueues); every listing keeps to one information class.  *)
(***************************************************************************)
EXTENDS FileInformationStruct, Sequences

CONSTANTS
  Directory,   \* the layout of the information class of the listings
  Single,      \* the layout of SFileNameInformation, which has no next entry
  Offsets,     \* where that structure can be in what a query asks for
  Addresses,   \* 0 .. n - 1, beyond the end of every buffer
  Capacities,  \* the sizes of buffers
  Contents     \* the names that a listing can have

ASSUME LayoutsAssumption ==
  /\ SoundLayout(Directory) /\ Directory.next + WordSize <= Directory.length
  /\ SoundLayout(Single) /\ Single.length = 0 /\ Single.name = WordSize
  /\ Offsets \subseteq Nat /\ Capacities \subseteq Nat
  /\ \A c \in Capacities : 0 .. c - 1 \subseteq Addresses
  /\ Addresses \subseteq Nat
  /\ Contents \subseteq Seq(Names)

VARIABLES
  queue,      \* the names that the listing has yet to tell
  pc,         \* the step of the call that runs
  size,       \* outputBufferSizeBytes, length
  max,        \* maxElementsToWrite
  written,    \* numElementsWritten, as the names written
  used,       \* numBytesWritten
  last,       \* lastBufferPosition, or the offset of the structure of a query
  buffer,     \* the application's memory, from the start of its buffer
  real, name, \* the name that the system has for a handle, and the stored one
  reply       \* the status and Information

vars == <<queue, pc, size, max, written, used, last, buffer, real, name, reply>>

NoReply == [status |-> "none", information |-> 0]
Answer(status, information) ==
  /\ reply' = [status |-> status, information |-> information]
  /\ pc' = "idle"

Untouched == [a \in Addresses |-> Blank]

Init ==
  /\ queue \in Contents
  /\ pc = "idle" /\ size = 0 /\ max = 0 /\ written = <<>> /\ used = 0 /\ last = 0
  /\ buffer = Untouched
  /\ real \in Names /\ name = real
  /\ reply = NoReply

-----------------------------------------------------------------------------
(* A call of a listing. *)

SizeOfFront == HypotheticalSizeForFileName(Directory, Head(queue))

\* What the system, or the queue that inserts names, has left in the field of
\* the next entry: nothing after the last of a batch, else with or without padding.
NextOfFront == {0, SizeOfFront, SizeOfFront + WordSize}

\* The arguments of a call, and its check by DirectoryEnumerationPrepare.
List(capacity, count) ==
  /\ pc = "idle"
  /\ size' = capacity /\ max' = count
  /\ written' = <<>> /\ used' = 0 /\ last' = 0
  /\ buffer' = Untouched
  /\ \/ capacity < Directory.base /\ Answer("infoLengthMismatch", 0)
     \/ capacity >= Directory.base /\ pc' = "check" /\ reply' = NoReply
  /\ UNCHANGED <<queue, real, name>>

NoMoreFiles ==
  /\ pc = "check" /\ queue = <<>>
  /\ Answer("noMoreFiles", 0)
  /\ UNCHANGED <<queue, size, max, written, used, last, buffer, real, name>>

\* Mutation of BufferOverflow: the length is that of the part that was copied.
OverflowOfCopied ==
  /\ pc = "check" /\ queue # <<>> /\ size < SizeOfFront
  /\ \E next \in NextOfFront :
       LET copied == CopyImage(Directory, buffer, 0, Head(queue), next, size)
           cleared == ClearNextEntryOffset(Directory, copied, 0)
       IN  buffer' = WriteFileNameLength(Directory, cleared, 0, size - Directory.name)
  /\ Answer("bufferOverflow", size)
  /\ UNCHANGED <<queue, size, max, written, used, last, real, name>>

\* The buffer cannot hold even one complete structure.
BufferOverflow ==
  /\ pc = "check" /\ queue # <<>> /\ size < SizeOfFront
  /\ \E next \in NextOfFront :
       LET copied == CopyImage(Directory, buffer, 0, Head(queue), next, size)
           cleared == ClearNextEntryOffset(Directory, copied, 0)
       IN  buffer' = WriteFileNameLength(Directory, cleared, 0, NameBytes(Head(queue)))
  /\ Answer("bufferOverflow", size)
  /\ UNCHANGED <<queue, size, max, written, used, last, real, name>>

Fits ==
  /\ pc = "check" /\ queue # <<>> /\ size >= SizeOfFront
  /\ pc' = "copy"
  /\ UNCHANGED <<queue, size, max, written, used, last, buffer, real, name, reply>>

\* The loop goes on with another entry.
Room == queue # <<>> /\ Len(written) < max /\ size - used >= SizeOfFront

\* Mutation of CopyFront: the distance to the next entry stays the system's.
CopyWithSystemOffset ==
  /\ pc = "copy" /\ Room
  /\ \E next \in NextOfFront :
       buffer' = CopyImage(Directory, buffer, used, Head(queue), next, SizeOfFront)
  /\ last' = used /\ used' = used + SizeOfFront
  /\ written' = Append(written, Head(queue))
  /\ queue' = Tail(queue)
  /\ UNCHANGED <<pc, size, max, real, name, reply>>

CopyFront ==
  /\ pc = "copy" /\ Room
  /\ \E next \in NextOfFront :
       LET copied == CopyImage(Directory, buffer, used, Head(queue), next, SizeOfFront)
       IN  buffer' = UpdateNextEntryOffset(Directory, copied, used)
  /\ last' = used /\ used' = used + SizeOfFront
  /\ written' = Append(written, Head(queue))
  /\ queue' = Tail(queue)
  /\ UNCHANGED <<pc, size, max, real, name, reply>>

\* The last structure written has no next one.
Finish ==
  /\ pc = "copy" /\ ~Room
  /\ buffer' = IF written = <<>> THEN buffer ELSE ClearNextEntryOffset(Directory, buffer, last)
  /\ Answer("success", used)
  /\ UNCHANGED <<queue, size, max, written, used, last, real, name>>

-----------------------------------------------------------------------------
(* A query for the name of a handle. *)

\* What a structure of a name can hold of it, in bytes.
NameCapacity == size - last - Single.name

\* The system answers for a name of so many bytes (external).
SystemStatus(bytes) == IF bytes <= NameCapacity THEN "success" ELSE "bufferOverflow"
SystemInformation(bytes) == Lesser(size, last + Single.name + bytes)

\* The system call, for a class with a name at offset; buffers that cannot hold
\* the fixed part are refused by the system.
Query(capacity, offset, actual, stored) ==
  /\ pc = "idle"
  /\ capacity >= offset + Single.base
  /\ size' = capacity /\ last' = offset
  /\ real' = actual /\ name' = stored
  /\ max' = 0 /\ written' = <<>> /\ used' = 0
  /\ buffer' = Store(StoreWord(Untouched, offset, NameBytes(actual)), offset + Single.name,
                     actual, Lesser(NameBytes(actual), NameCapacity'))
  /\ reply' = [status |-> SystemStatus(NameBytes(actual))',
               information |-> SystemInformation(NameBytes(actual))']
  /\ pc' = "query"
  /\ UNCHANGED queue

\* The handle is not in the store: the system's answer stands.
KeepName ==
  /\ pc = "query" /\ real = name
  /\ pc' = "idle"
  /\ UNCHANGED <<queue, size, max, written, used, last, buffer, real, name, reply>>

\* The length is first that of the characters written, then that of the name.
Replaced ==
  StoreWord(WriteFileNameInternal(Single, buffer, last, name, size - last),
            last, NameBytes(name))

\* Mutation of ReplaceName: Information grows or shrinks by the difference of
\* the lengths, whether or not the system's name had fitted.
ReplaceByDifference ==
  /\ pc = "query"
  /\ LET old == ReadFileNameLength(Single, buffer, last)
         new == NameBytes(name)
     IN  \/ /\ new > NameCapacity
            /\ Answer("bufferOverflow", size)
         \/ /\ new <= NameCapacity
            /\ Answer("success", (reply.information + new) - old)
  /\ buffer' = Replaced
  /\ UNCHANGED <<queue, size, max, written, used, last, real, name>>

\* The stored name takes the place of the system's, and status and Information
\* are corrected: by the difference if both fit, from the end of the buffer if
\* only the system's did not.
ReplaceName ==
  /\ pc = "query"
  /\ LET old == ReadFileNameLength(Single, buffer, last)
         new == NameBytes(name)
     IN  \/ /\ new > NameCapacity
            /\ Answer("bufferOverflow", size)
         \/ /\ new <= NameCapacity /\ old > NameCapacity
            /\ Answer("success", reply.information - (NameCapacity - new))
         \/ /\ new <= NameCapacity /\ old <= NameCapacity
            /\ Answer("success", (reply.information + new) - old)
  /\ buffer' = Replaced
  /\ UNCHANGED <<queue, size, max, written, used, last, real, name>>

-----------------------------------------------------------------------------
Next ==
  \/ \E c \in Capacities, count \in {1, Len(queue) + 1} : List(c, count)
  \/ NoMoreFiles \/ BufferOverflow \/ Fits \/ CopyFront \/ Finish
  \/ \E c \in Capacities, o \in Offsets, a, s \in Names : Query(c, o, a, s)
  \/ KeepName \/ ReplaceName

Spec == Init /\ [][Next]_vars

-----------------------------------------------------------------------------
(* Properties. *)

TypeOK ==
  /\ queue \in Seq(Names) /\ written \in Seq(Names)
  /\ pc \in {"idle", "check", "copy", "query"}
  /\ size \in Nat /\ max \in Nat /\ used \in Nat /\ last \in Nat
  /\ DOMAIN buffer = Addresses
  /\ real \in Names /\ name \in Names
  /\ reply.status \in {"none", "success", "bufferOverflow", "noMoreFiles", "infoLengthMismatch"}
  /\ reply.information \in Nat

\* No call writes outside the application's buffer, however small it is and
\* wherever it ends: not the copied fronts, not the fields that are corrected
\* after a copy that was cut short, not the replaced name.
WritesInBounds == \A a \in Addresses : a >= size => buffer[a] = Blank

\* The names that an application finds from address p on by following the
\* offsets, as far as it may read.
Walk(end) ==
  LET found[p \in 0 .. end] ==
        LET bytes == ReadFileNameLength(Directory, buffer, p)
            next == ReadNextEntryOffset(Directory, buffer, p)
            here == {n \in Names : NameBytes(n) = bytes /\
                                   p + Directory.name + bytes <= end /\
                                   Load(buffer, p + Directory.name, bytes) = n}
            rest == IF next \in 1 .. end - p THEN found[p + next] ELSE <<>>
        IN  IF p + Directory.base <= end /\ here # {}
              THEN <<CHOOSE n \in here : TRUE>> \o rest
              ELSE <<>>
  IN  found[0]

\* An application that follows the offsets through the bytes it was told of
\* finds exactly the names of this call, in their order, whatever the system
\* had put into the copied structures, and ends at the last one.
FoundByOffsets ==
  pc = "idle" /\ reply.status = "success" /\ max # 0 =>
    /\ Walk(reply.information) = written
    /\ written # <<>>

\* A buffer that is too small for one entry tells the application how long the
\* name is: with room for it, the next call succeeds.
OverflowTellsLength ==
  pc = "idle" /\ reply.status = "bufferOverflow" /\ max # 0 =>
    LET told == ReadFileNameLength(Directory, buffer, 0)
    IN  /\ queue # <<>> /\ told \in Nat
        /\ HypotheticalSizeForFileNameLength(Directory, told) = SizeOfFront

\* A query answers for the stored name as the system would if it were the name
\* of the file: the status, Information, the length, and every whole character
\* that the buffer has room for, whichever of the two names did not fit.
AnsweredAsSystem ==
  pc = "idle" /\ reply.status # "none" /\ max = 0 =>
    /\ reply.status = SystemStatus(NameBytes(name))
    /\ reply.information = SystemInformation(NameBytes(name))
    /\ ReadFileNameLength(Single, buffer, last) = NameBytes(name)
    /\ \A i \in 0 .. NameBytes(name) - 1 :
         i < CharSize * (NameCapacity \div CharSize) =>
           buffer[last + Single.name + i] = <<name, i>>

\* The comment in AdvanceDirectoryEnumerationOperation: the structure of a
\* buffer that is too small "has no next entry offset".
NoNextEntryOnOverflow ==
  pc = "idle" /\ reply.status = "bufferOverflow" /\ max # 0 =>
    ReadNextEntryOffset(Directory, buffer, 0) = 0
=============================================================================
