----------------------- MODULE ApplicationBuffersProofs -----------------------
(***************************************************************************)
(* For any names, layouts and sizes of buffers: nothing is written outside *)
(* a buffer, a buffer that is too small tells the length of the name, a    *)
(* query answers as the system would for the stored name, and the names of *)
(* a listing are found by following the offsets.                           *)
(***************************************************************************)
EXTENDS ApplicationBuffers, FiniteSetTheorems, WellFoundedInduction, TLAPS

-----------------------------------------------------------------------------
(* Bytes. *)

LEMMA AddressesAreNatural == \A a \in Addresses : a \in Nat
BY LayoutsAssumption

LEMMA StoreBytes ==
  ASSUME NEW b, DOMAIN b = Addresses, NEW p \in Nat, NEW v, NEW n \in Nat
  PROVE  /\ DOMAIN Store(b, p, v, n) = Addresses
         /\ \A a \in Addresses : p <= a /\ a < p + n => Store(b, p, v, n)[a] = <<v, a - p>>
         /\ \A a \in Addresses : a < p \/ p + n <= a => Store(b, p, v, n)[a] = b[a]
BY AddressesAreNatural DEF Store

LEMMA StoreWordBytes ==
  ASSUME NEW b, DOMAIN b = Addresses, NEW p \in Nat, NEW v
  PROVE  /\ DOMAIN StoreWord(b, p, v) = Addresses
         /\ \A a \in Addresses : p <= a /\ a < p + 4 => StoreWord(b, p, v)[a] = <<v, a - p>>
         /\ \A a \in Addresses : a < p \/ p + 4 <= a => StoreWord(b, p, v)[a] = b[a]
<1>1. WordSize \in Nat /\ WordSize = 4
  BY DEF WordSize
<1>2. \A a \in Addresses : a \in Nat
  BY AddressesAreNatural
<1> HIDE DEF Store
<1> QED BY <1>1, <1>2 DEF StoreWord, Store

\* A word that was stored and not written over is loaded again.
LEMMA LoadStored ==
  ASSUME NEW b, NEW p \in Nat, NEW v,
         \A i \in 0 .. 3 : b[p + i] = <<v, i>>
  PROVE  Load(b, p, WordSize) = v
<1>1. b[p] = <<v, 0>>
  <2>1. b[p + 0] = <<v, 0>> /\ p + 0 = p
    OBVIOUS
  <2> QED BY <2>1
<1>2. b[p][1] = v
  BY <1>1
<1>3. WordSize - 1 = 3
  BY DEF WordSize
<1>4. \A i \in 0 .. WordSize - 1 : b[p + i] = <<v, i>>
  BY <1>3
<1> QED BY <1>2, <1>4, Zenon DEF Load

LEMMA UpdateBytes ==
  ASSUME NEW b, DOMAIN b = Addresses, NEW p \in Nat
  PROVE  /\ DOMAIN UpdateNextEntryOffset(Directory, b, p) = Addresses
         /\ \A a \in Addresses : \/ a < p + Directory.next
                                 \/ p + Directory.next + 4 <= a
                                 => UpdateNextEntryOffset(Directory, b, p)[a] = b[a]
<1>1. p + Directory.next \in Nat
  BY LayoutsAssumption DEF SoundLayout, Layout
<1> QED BY <1>1, StoreWordBytes DEF UpdateNextEntryOffset

LEMMA CopyBytes ==
  ASSUME NEW b, DOMAIN b = Addresses,
         NEW p \in Nat, NEW n, NEW next, NEW bytes \in Nat
  PROVE  /\ DOMAIN CopyImage(Directory, b, p, n, next, bytes) = Addresses
         /\ \A a \in Addresses : a < p \/ p + bytes <= a =>
              CopyImage(Directory, b, p, n, next, bytes)[a] = b[a]
BY AddressesAreNatural DEF CopyImage

LEMMA Sizes ==
  /\ Directory.base \in Nat /\ Directory.next \in Nat
  /\ Directory.length \in Nat /\ Directory.name \in Nat
  /\ Directory.next + 4 <= Directory.length /\ Directory.length + 4 <= Directory.name
  /\ Directory.name + 2 <= Directory.base
  /\ Single.base \in Nat /\ Single.length = 0 /\ Single.name = 4 /\ 6 <= Single.base
BY LayoutsAssumption DEF SoundLayout, Layout, WordSize, CharSize

\* What lies behind the fields of an entry lies behind its numbers.
LEMMA BehindTheBase ==
  ASSUME NEW s \in Nat, s >= Directory.base, NEW a \in Addresses, a >= s
  PROVE  Directory.next + 4 <= a /\ Directory.length + 4 <= a
<1>1. a \in Nat
  BY AddressesAreNatural
<1>2. PICK k, l, b : k = Directory.next /\ l = Directory.length /\ b = Directory.base
  OBVIOUS
<1>3. k \in Nat /\ l \in Nat /\ b \in Nat /\ k + 4 <= l /\ l + 4 <= b
  <2>1. PICK m : m = Directory.name
    OBVIOUS
  <2>2. m \in Nat /\ l + 4 <= m /\ m + 2 <= b
    BY <1>2, <2>1, Sizes
  <2>3. k \in Nat /\ l \in Nat /\ b \in Nat /\ k + 4 <= l
    BY <1>2, Sizes
  <2> QED BY <2>2, <2>3
<1>4. k + 4 <= a /\ l + 4 <= a
  BY <1>1, <1>2, <1>3
<1> QED BY <1>2, <1>4

LEMMA NameSizes ==
  ASSUME NEW n \in Names
  PROVE  /\ NameBytes(n) \in Nat /\ Length(n) \in Nat /\ NameBytes(n) = 2 * Length(n)
         /\ HypotheticalSizeForFileName(Directory, n) \in Nat
         /\ HypotheticalSizeForFileName(Directory, n) >= Directory.base
BY NamesAssumption, Sizes
   DEF NameBytes, CharSize, HypotheticalSizeForFileName, HypotheticalSizeForFileNameLength, Greater

-----------------------------------------------------------------------------
(* The inductive invariant. *)

\* What the steps of a call rely on: where the last structure is, and that the
\* system has answered for the name it has.
Placed ==
  /\ 0 .. size - 1 \subseteq Addresses
  /\ pc \in {"check", "copy"} => size >= Directory.base /\ max # 0
  /\ pc = "check" => used = 0 /\ written = <<>>
  /\ pc = "copy" => used <= size
  /\ pc = "copy" /\ written # <<>> => last + Directory.base <= size
  /\ pc = "query" =>
       /\ max = 0 /\ last + Single.base <= size
       /\ reply.status = SystemStatus(NameBytes(real))
       /\ reply.information = SystemInformation(NameBytes(real))
       /\ \A i \in 0 .. 3 : buffer[last + i] = <<NameBytes(real), i>>
       /\ \A i \in 0 .. NameBytes(real) - 1 :
            i < NameCapacity => buffer[last + Single.name + i] = <<real, i>>

BInv == TypeOK /\ WritesInBounds /\ Placed /\ OverflowTellsLength /\ AnsweredAsSystem

LEMMA InitInv == Init => BInv
<1> SUFFICES ASSUME Init PROVE BInv
  OBVIOUS
<1>1. TypeOK
  BY LayoutsAssumption DEF Init, TypeOK, Untouched, NoReply
<1>2. WritesInBounds /\ Placed
  BY DEF Init, WritesInBounds, Placed, Untouched
<1>3. OverflowTellsLength /\ AnsweredAsSystem
  BY DEF Init, OverflowTellsLength, AnsweredAsSystem, NoReply
<1> QED BY <1>1, <1>2, <1>3 DEF BInv

LEMMA ListInv ==
  ASSUME BInv, NEW c \in Capacities, NEW count \in {1, Len(queue) + 1}, List(c, count)
  PROVE  BInv'
<1>1. c \in Nat /\ count \in Nat \ {0} /\ 0 .. c - 1 \subseteq Addresses
  BY LayoutsAssumption DEF BInv, TypeOK
<1>2. TypeOK'
  BY <1>1 DEF List, BInv, TypeOK, Answer, NoReply, Untouched
<1>3. WritesInBounds'
  BY DEF List, WritesInBounds, Untouched
<1>4. Placed'
  BY <1>1, Sizes DEF List, Placed, Answer
<1>5. OverflowTellsLength' /\ AnsweredAsSystem'
  BY <1>1 DEF List, OverflowTellsLength, AnsweredAsSystem, Answer
<1> QED BY <1>2, <1>3, <1>4, <1>5 DEF BInv

LEMMA OverflowInv ==
  ASSUME BInv, BufferOverflow
  PROVE  BInv'
<1> DEFINE n == Head(queue)
<1>1. PICK next \in NextOfFront :
        buffer' = WriteFileNameLength(Directory,
                    ClearNextEntryOffset(Directory,
                      CopyImage(Directory, buffer, 0, n, next, size), 0), 0, NameBytes(n))
  BY DEF BufferOverflow
<1>2. n \in Names /\ queue # <<>> /\ size \in Nat /\ (\A a \in Addresses : a \in Nat)
      /\ DOMAIN buffer = Addresses /\ size >= Directory.base /\ pc = "check" /\ max # 0
      /\ 0 .. size - 1 \subseteq Addresses
      /\ \A a \in Addresses : a >= size => buffer[a] = Blank
  BY LayoutsAssumption DEF BufferOverflow, BInv, TypeOK, Placed, WritesInBounds
<1>a. size \in Nat /\ size >= Directory.base
  BY <1>2
<1>b. 0 .. size - 1 \subseteq Addresses
  BY <1>2
<1> HIDE DEF n
<1> DEFINE copied == CopyImage(Directory, buffer, 0, n, next, size)
           cleared == StoreWord(copied, Directory.next, 0)
           long == StoreWord(cleared, Directory.length, NameBytes(n))
<1>3. buffer' = UpdateNextEntryOffset(Directory, long, 0)
  BY <1>1, Sizes DEF WriteFileNameLength, ClearNextEntryOffset
<1>4. DOMAIN copied = Addresses /\ \A a \in Addresses : a >= size => copied[a] = Blank
  <2>1. 0 \in Nat /\ 0 + size = size
    BY <1>2
  <2>2. \A a \in Addresses : a < 0 \/ 0 + size <= a => copied[a] = buffer[a]
    BY <1>2 DEF CopyImage
  <2>3. DOMAIN copied = Addresses
    BY <1>2 DEF CopyImage
  <2> HIDE DEF copied
  <2> QED BY <1>2, <2>1, <2>2, <2>3
<1> HIDE DEF copied
<1>5. DOMAIN cleared = Addresses /\ \A a \in Addresses : a >= size => cleared[a] = Blank
  <2>1. /\ DOMAIN cleared = Addresses
        /\ \A a \in Addresses : a < Directory.next \/ Directory.next + 4 <= a => cleared[a] = copied[a]
    BY <1>4, Sizes, StoreWordBytes
  <2> HIDE DEF cleared
  <2>2. \A a \in Addresses : a >= size => Directory.next + 4 <= a
    BY <1>a, BehindTheBase
  <2> QED BY <1>4, <2>1, <2>2
<1> HIDE DEF cleared
<1>6. /\ DOMAIN long = Addresses /\ \A a \in Addresses : a >= size => long[a] = Blank
      /\ \A i \in 0 .. 3 : long[Directory.length + i] = <<NameBytes(n), i>>
  <2>1. /\ DOMAIN long = Addresses
        /\ \A a \in Addresses : Directory.length <= a /\ a < Directory.length + 4 =>
             long[a] = <<NameBytes(n), a - Directory.length>>
        /\ \A a \in Addresses : a < Directory.length \/ Directory.length + 4 <= a =>
             long[a] = cleared[a]
    BY <1>5, Sizes, StoreWordBytes
  <2> HIDE DEF long
  <2>2. ASSUME NEW i \in 0 .. 3
        PROVE  long[Directory.length + i] = <<NameBytes(n), i>>
    <3>1. /\ Directory.length + i \in 0 .. size - 1
          /\ Directory.length <= Directory.length + i
          /\ Directory.length + i < Directory.length + 4
          /\ (Directory.length + i) - Directory.length = i
      BY <1>a, Sizes
    <3>2. Directory.length + i \in Addresses
      BY <1>b, <3>1, Zenon
    <3> QED BY <2>1, <3>1, <3>2
  <2>3. \A a \in Addresses : a >= size => Directory.length + 4 <= a
    BY <1>a, BehindTheBase
  <2> QED BY <1>5, <2>1, <2>2, <2>3
<1> HIDE DEF long
<1>7. /\ DOMAIN buffer' = Addresses
      /\ \A a \in Addresses : \/ a < Directory.next \/ Directory.next + 4 <= a
                              => buffer'[a] = long[a]
  <2>1. \A a \in Addresses : \/ a < 0 + Directory.next \/ 0 + Directory.next + 4 <= a
                             => buffer'[a] = long[a]
    BY <1>3, <1>6, UpdateBytes
  <2>2. DOMAIN buffer' = Addresses
    BY <1>3, <1>6, UpdateBytes
  <2>3. 0 + Directory.next = Directory.next
    BY Sizes
  <2> QED BY <2>1, <2>2, <2>3
<1>8. WritesInBounds' /\ DOMAIN buffer' = Addresses
  <2>1. \A a \in Addresses : a >= size => Directory.next + 4 <= a
    BY <1>a, BehindTheBase
  <2>2. \A a \in Addresses : a >= size => buffer'[a] = Blank
    BY <1>6, <1>7, <2>1
  <2>3. size' = size
    BY DEF BufferOverflow
  <2> QED BY <1>7, <2>2, <2>3 DEF WritesInBounds
<1>9. ReadFileNameLength(Directory, buffer', 0) = NameBytes(n)
  <2>1. ASSUME NEW i \in 0 .. 3
        PROVE  buffer'[Directory.length + i] = <<NameBytes(n), i>>
    <3>1. /\ Directory.length + i \in 0 .. size - 1
          /\ Directory.next + 4 <= Directory.length + i
      BY <1>a, Sizes
    <3>2. Directory.length + i \in Addresses
      BY <1>b, <3>1, Zenon
    <3> QED BY <1>6, <1>7, <3>1, <3>2
  <2>2. Load(buffer', Directory.length, WordSize) = NameBytes(n)
    BY <2>1, Sizes, LoadStored
  <2> QED BY <2>2, Sizes DEF ReadFileNameLength
<1>10. TypeOK'
  BY <1>2, <1>8 DEF BufferOverflow, BInv, TypeOK, Answer
<1>11. Placed'
  BY <1>2 DEF BufferOverflow, BInv, Placed, Answer
<1>12. OverflowTellsLength' /\ AnsweredAsSystem'
  BY <1>2, <1>9, NameSizes
     DEF BufferOverflow, OverflowTellsLength, AnsweredAsSystem, SizeOfFront,
         HypotheticalSizeForFileName, n
<1> QED BY <1>8, <1>10, <1>11, <1>12 DEF BInv

LEMMA CopyInv ==
  ASSUME BInv, CopyFront
  PROVE  BInv'
<1> DEFINE n == Head(queue)
<1>1. PICK next \in NextOfFront :
        buffer' = UpdateNextEntryOffset(Directory,
                    CopyImage(Directory, buffer, used, n, next, SizeOfFront), used)
  BY DEF CopyFront
<1>2. /\ n \in Names /\ queue # <<>> /\ size \in Nat /\ used \in Nat /\ (\A a \in Addresses : a \in Nat)
      /\ DOMAIN buffer = Addresses /\ pc = "copy" /\ max # 0 /\ size >= Directory.base
      /\ \A a \in Addresses : a >= size => buffer[a] = Blank
      /\ Tail(queue) \in Seq(Names) /\ Append(written, n) \in Seq(Names)
      /\ SizeOfFront \in Nat /\ SizeOfFront >= Directory.base /\ used + SizeOfFront <= size
  <2>1. /\ queue \in Seq(Names) /\ queue # <<>> /\ written \in Seq(Names)
        /\ size \in Nat /\ used \in Nat /\ used <= size /\ size - used >= SizeOfFront
        /\ DOMAIN buffer = Addresses /\ pc = "copy" /\ max # 0 /\ size >= Directory.base
        /\ \A a \in Addresses : a >= size => buffer[a] = Blank
    BY DEF CopyFront, Room, BInv, TypeOK, Placed, WritesInBounds
  <2>2. n \in Names /\ Tail(queue) \in Seq(Names)
    BY <2>1
  <2>3. Append(written, n) \in Seq(Names)
    BY <2>1, <2>2
  <2> HIDE DEF n
  <2>4. SizeOfFront = HypotheticalSizeForFileName(Directory, n)
    BY DEF SizeOfFront, n
  <2>5. SizeOfFront \in Nat /\ SizeOfFront >= Directory.base
    BY <2>2, <2>4, NameSizes
  <2>6. used + SizeOfFront <= size
    BY <2>1, <2>5
  <2> QED BY <2>1, <2>2, <2>3, <2>5, <2>6, AddressesAreNatural
<1>a. /\ size \in Nat /\ used \in Nat /\ SizeOfFront \in Nat
      /\ SizeOfFront >= Directory.base /\ used + SizeOfFront <= size
  BY <1>2
<1> HIDE DEF n
<1> DEFINE copied == CopyImage(Directory, buffer, used, n, next, SizeOfFront)
<1>b. /\ DOMAIN buffer = Addresses
      /\ \A a \in Addresses : a >= size => buffer[a] = Blank
  BY <1>2
<1>c. /\ DOMAIN copied = Addresses
      /\ \A a \in Addresses : a < used \/ used + SizeOfFront <= a => copied[a] = buffer[a]
  <2> HIDE DEF SizeOfFront
  <2> QED BY <1>a, <1>b, CopyBytes
<1>3. DOMAIN copied = Addresses /\ \A a \in Addresses : a >= size => copied[a] = Blank
  <2>1. \A a \in Addresses : a >= size => used + SizeOfFront <= a
    BY <1>a, AddressesAreNatural
  <2> QED BY <1>b, <1>c, <2>1
<1>4. buffer' = UpdateNextEntryOffset(Directory, copied, used)
  BY <1>1
<1> HIDE DEF copied
<1>5. /\ DOMAIN buffer' = Addresses
      /\ \A a \in Addresses : used + Directory.next + 4 <= a => buffer'[a] = copied[a]
  BY <1>2, <1>3, <1>4, UpdateBytes
<1>6. WritesInBounds'
  <2>1. \A k \in Nat : k >= size => used + Directory.next + 4 <= k
    BY <1>a, Sizes
  <2>2. \A a \in Addresses : a >= size => buffer'[a] = Blank
    BY <1>2, <1>3, <1>5, <2>1
  <2>3. size' = size
    BY DEF CopyFront
  <2> QED BY <2>2, <2>3 DEF WritesInBounds
<1>7. TypeOK'
  BY <1>2, <1>5 DEF CopyFront, BInv, TypeOK, n
<1>8. Placed'
  <2>1. /\ size' = size /\ max' = max /\ pc' = "copy"
        /\ last' = used /\ used' = used + SizeOfFront
    BY <1>2 DEF CopyFront
  <2>2. last' + Directory.base <= size /\ used' <= size
    BY <1>a, <2>1, Sizes
  <2> QED BY <1>2, <2>1, <2>2 DEF BInv, Placed
<1>9. OverflowTellsLength' /\ AnsweredAsSystem'
  BY <1>2 DEF CopyFront, OverflowTellsLength, AnsweredAsSystem
<1> QED BY <1>6, <1>7, <1>8, <1>9 DEF BInv

LEMMA FinishInv ==
  ASSUME BInv, Finish
  PROVE  BInv'
<1>1. /\ size \in Nat /\ last \in Nat /\ (\A a \in Addresses : a \in Nat) /\ used \in Nat
      /\ DOMAIN buffer = Addresses /\ pc = "copy" /\ max # 0
      /\ \A a \in Addresses : a >= size => buffer[a] = Blank
      /\ written # <<>> => last + Directory.base <= size
  BY LayoutsAssumption DEF Finish, BInv, TypeOK, Placed, WritesInBounds
<1>2. DOMAIN buffer' = Addresses /\ \A a \in Addresses : a >= size => buffer'[a] = Blank
  <2>1. CASE written = <<>>
    BY <1>1, <2>1 DEF Finish
  <2>2. CASE written # <<>>
    <3>1. buffer' = StoreWord(buffer, last + Directory.next, 0)
      BY <2>2 DEF Finish, ClearNextEntryOffset
    <3>2. last + Directory.next \in Nat
      BY <1>1, Sizes
    <3> DEFINE p == last + Directory.next
    <3>3. \A k \in Nat : k >= size => p + 4 <= k
      <4>1. last \in Nat /\ size \in Nat /\ last + Directory.base <= size
        BY <1>1, <2>2
      <4> QED BY <4>1, Sizes
    <3> HIDE DEF p
    <3>4. /\ DOMAIN buffer' = Addresses
          /\ \A a \in Addresses : a < p \/ p + 4 <= a => buffer'[a] = buffer[a]
      BY <1>1, <3>1, <3>2, StoreWordBytes DEF p
    <3> QED BY <1>1, <3>3, <3>4
  <2> QED BY <2>1, <2>2
<1>3. WritesInBounds' /\ TypeOK'
  BY <1>1, <1>2 DEF Finish, Answer, WritesInBounds, BInv, TypeOK
<1>4. Placed' /\ OverflowTellsLength' /\ AnsweredAsSystem'
  BY <1>1 DEF Finish, Answer, BInv, Placed, OverflowTellsLength, AnsweredAsSystem
<1> QED BY <1>3, <1>4 DEF BInv

LEMMA QueryInv ==
  ASSUME BInv, NEW c \in Capacities, NEW o \in Offsets, NEW actual \in Names,
         NEW stored \in Names, Query(c, o, actual, stored)
  PROVE  BInv'
<1> DEFINE bytes == NameBytes(actual)
           room == c - o - 4
           word == StoreWord(Untouched, o, bytes)
           copied == Lesser(bytes, room)
<1>1. /\ c \in Nat /\ o \in Nat /\ bytes \in Nat /\ room \in Nat /\ copied \in Nat
      /\ copied <= room /\ copied <= bytes /\ (bytes <= room => copied = bytes)
      /\ (bytes > room => copied = room)
      /\ 0 .. c - 1 \subseteq Addresses /\ \A a \in Addresses : a \in Nat
      /\ o + Single.base <= c
  <2>1. /\ c \in Nat /\ o \in Nat /\ o + Single.base <= c
        /\ 0 .. c - 1 \subseteq Addresses /\ \A a \in Addresses : a \in Nat
    BY LayoutsAssumption DEF Query
  <2>2. bytes \in Nat /\ room \in Nat
    BY <2>1, Sizes, NameSizes
  <2> QED BY <2>1, <2>2 DEF Lesser
<1>2. /\ size' = c /\ last' = o /\ real' = actual /\ name' = stored /\ max' = 0
      /\ used' = 0 /\ written' = <<>> /\ pc' = "query" /\ queue' = queue
  BY DEF Query
<1>3. NameCapacity' = room
  BY <1>2, Sizes DEF NameCapacity
<1>4. buffer' = Store(word, o + 4, actual, copied)
  BY <1>3, Sizes DEF Query
<1>5. /\ reply' = [status |-> SystemStatus(bytes)', information |-> SystemInformation(bytes)']
      /\ SystemInformation(bytes)' \in Nat
  BY <1>1, <1>2, Sizes DEF Query, SystemInformation, Lesser
<1>6. /\ DOMAIN word = Addresses
      /\ \A a \in Addresses : o <= a /\ a < o + 4 => word[a] = <<bytes, a - o>>
      /\ \A a \in Addresses : a < o \/ o + 4 <= a => word[a] = Blank
  <2>1. DOMAIN Untouched = Addresses /\ \A a \in Addresses : Untouched[a] = Blank
    BY DEF Untouched
  <2> HIDE DEF bytes
  <2> QED BY <1>1, <2>1, StoreWordBytes
<1> HIDE DEF word, copied
<1>7. /\ DOMAIN buffer' = Addresses
      /\ \A a \in Addresses : o + 4 <= a /\ a < o + 4 + copied => buffer'[a] = <<actual, a - (o + 4)>>
      /\ \A a \in Addresses : a < o + 4 \/ o + 4 + copied <= a => buffer'[a] = word[a]
  <2>1. o + 4 \in Nat
    BY <1>1
  <2> QED BY <1>1, <1>4, <1>6, <2>1, StoreBytes
<1>8. WritesInBounds'
  <2>1. \A k \in Nat : k >= c => o + 4 + copied <= k /\ o + 4 <= k
    BY <1>1, Sizes
  <2>2. \A a \in Addresses : a >= c => buffer'[a] = Blank
    BY <1>1, <1>6, <1>7, <2>1
  <2> QED BY <1>2, <2>2 DEF WritesInBounds
<1>9. TypeOK'
  BY <1>1, <1>2, <1>5, <1>7 DEF BInv, TypeOK, SystemStatus
<1>10. Placed'
  <2>1. \A i \in 0 .. 3 : buffer'[o + i] = <<bytes, i>>
    BY <1>1, <1>6, <1>7, Sizes
  <2>2. \A i \in 0 .. bytes - 1 : i < room => buffer'[o + 4 + i] = <<actual, i>>
    <3> SUFFICES ASSUME NEW i \in 0 .. bytes - 1, i < room PROVE buffer'[o + 4 + i] = <<actual, i>>
      OBVIOUS
    <3>1. i < copied /\ o + 4 + i \in Addresses /\ (o + 4 + i) - (o + 4) = i
      BY <1>1
    <3> QED BY <1>1, <1>7, <3>1
  <2>3. NameBytes(real)' = bytes /\ Single.name = 4
    BY <1>2, Sizes
  <2> HIDE DEF bytes, room
  <2> QED BY <1>1, <1>2, <1>3, <1>5, <2>1, <2>2, <2>3 DEF Placed
<1>11. OverflowTellsLength' /\ AnsweredAsSystem'
  BY <1>2 DEF OverflowTellsLength, AnsweredAsSystem
<1> QED BY <1>8, <1>9, <1>10, <1>11 DEF BInv

LEMMA KeepInv ==
  ASSUME BInv, KeepName
  PROVE  BInv'
<1>1. /\ pc = "query" /\ real = name /\ pc' = "idle"
      /\ UNCHANGED <<queue, size, max, written, used, last, buffer, real, name, reply>>
  BY DEF KeepName
<1>2. TypeOK' /\ WritesInBounds' /\ Placed'
  BY <1>1 DEF BInv, TypeOK, WritesInBounds, Placed
<1>3. OverflowTellsLength'
  BY <1>1 DEF BInv, Placed, OverflowTellsLength
<1>4. AnsweredAsSystem'
  <2>1. /\ last \in Nat /\ last + Single.base <= size /\ size \in Nat /\ max = 0
        /\ NameBytes(name) \in Nat
    BY <1>1, NameSizes DEF BInv, TypeOK, Placed
  <2>2. /\ reply'.status = SystemStatus(NameBytes(name))'
        /\ reply'.information = SystemInformation(NameBytes(name))'
    BY <1>1 DEF BInv, Placed, SystemStatus, SystemInformation, NameCapacity
  <2>3. ReadFileNameLength(Single, buffer', last') = NameBytes(name')
    <3>1. \A i \in 0 .. 3 : buffer[last + i] = <<NameBytes(name), i>>
      BY <1>1 DEF BInv, Placed
    <3>2. Load(buffer, last, WordSize) = NameBytes(name)
      BY <2>1, <3>1, LoadStored
    <3>3. last + Single.length = last
      BY <2>1, Sizes
    <3> QED BY <1>1, <3>2, <3>3 DEF ReadFileNameLength
  <2>4. NameCapacity \in Nat
    BY <2>1, Sizes DEF NameCapacity
  <2>5. ASSUME NEW i \in 0 .. NameBytes(name) - 1,
               i < CharSize * (NameCapacity \div CharSize)
        PROVE  buffer[last + Single.name + i] = <<name, i>>
    <3> DEFINE room == NameCapacity
    <3> HIDE DEF room
    <3>1. room \in Nat => 2 * (room \div 2) <= room
      OBVIOUS
    <3>2. i < NameCapacity
      BY <2>1, <2>4, <2>5, <3>1 DEF room, CharSize
    <3> QED BY <1>1, <3>2 DEF BInv, Placed
  <2> QED BY <1>1, <2>2, <2>3, <2>5 DEF AnsweredAsSystem, NameCapacity
<1> QED BY <1>2, <1>3, <1>4 DEF BInv

\* A call that is answered without a change of the buffer.
LEMMA NoMoreFilesInv ==
  ASSUME BInv, NoMoreFiles
  PROVE  BInv'
<1>1. /\ pc = "check" /\ pc' = "idle" /\ max # 0
      /\ reply' = [status |-> "noMoreFiles", information |-> 0]
      /\ UNCHANGED <<queue, size, max, written, used, last, buffer, real, name>>
  BY DEF NoMoreFiles, Answer, BInv, Placed
<1>2. TypeOK' /\ WritesInBounds' /\ Placed'
  BY <1>1 DEF BInv, TypeOK, WritesInBounds, Placed
<1>3. OverflowTellsLength' /\ AnsweredAsSystem'
  BY <1>1 DEF OverflowTellsLength, AnsweredAsSystem
<1> QED BY <1>2, <1>3 DEF BInv

LEMMA FitsInv ==
  ASSUME BInv, Fits
  PROVE  BInv'
<1>1. /\ pc = "check" /\ pc' = "copy" /\ max # 0 /\ used = 0 /\ written = <<>>
      /\ UNCHANGED <<queue, size, max, written, used, last, buffer, real, name, reply>>
  BY DEF Fits, BInv, Placed
<1>2. TypeOK' /\ WritesInBounds' /\ Placed'
  BY <1>1 DEF BInv, TypeOK, WritesInBounds, Placed
<1>3. OverflowTellsLength' /\ AnsweredAsSystem'
  BY <1>1 DEF OverflowTellsLength, AnsweredAsSystem
<1> QED BY <1>2, <1>3 DEF BInv

LEMMA ReplaceInv ==
  ASSUME BInv, ReplaceName
  PROVE  BInv'
<1> DEFINE new == NameBytes(name)
           old == NameBytes(real)
           room == size - last - 4
           chars == Lesser(room \div 2, Length(name))
           text == Store(buffer, last + 4, name, 2 * chars)
           short == StoreWord(text, last, 2 * chars)
<1>1. /\ pc = "query" /\ pc' = "idle" /\ max = 0 /\ buffer' = Replaced
      /\ UNCHANGED <<queue, size, max, written, used, last, real, name>>
  BY DEF ReplaceName, Answer, BInv, Placed
<1>2. /\ size \in Nat /\ last \in Nat /\ new \in Nat /\ old \in Nat /\ Length(name) \in Nat
      /\ new = 2 * Length(name) /\ last + Single.base <= size
      /\ real \in Names /\ name \in Names
  BY <1>1, NameSizes DEF BInv, TypeOK, Placed
<1>3. room \in Nat /\ NameCapacity = room /\ last + 4 + room = size
  BY <1>2, Sizes DEF NameCapacity
<1>4. /\ chars \in Nat /\ 2 * chars <= room /\ 2 * chars <= new
      /\ chars = room \div 2 \/ 2 * chars = new
  <2>1. ASSUME NEW r \in Nat PROVE r \div 2 \in Nat /\ 2 * (r \div 2) <= r
    OBVIOUS
  <2>2. room \div 2 \in Nat /\ 2 * (room \div 2) <= room
    BY <1>3, <2>1
  <2> DEFINE half == room \div 2
  <2>3. \/ chars = half /\ half <= Length(name)
        \/ chars = Length(name) /\ Length(name) <= half
    BY <1>2, <2>2 DEF Lesser
  <2>4. half \in Nat /\ 2 * half <= room
    BY <2>2
  <2> HIDE DEF half
  <2>5. chars \in Nat /\ 2 * chars <= room /\ 2 * chars <= new /\ (chars = half \/ 2 * chars = new)
    <3> HIDE DEF chars, new, room
    <3> QED BY <1>2, <1>3, <2>3, <2>4
  <2> QED BY <2>5 DEF half
<1>5. /\ DOMAIN buffer = Addresses /\ 0 .. size - 1 \subseteq Addresses
      /\ \A a \in Addresses : a >= size => buffer[a] = Blank
  BY DEF BInv, TypeOK, Placed, WritesInBounds
<1>6. buffer' = StoreWord(short, last, new)
  <2>1. /\ last + Single.name = last + 4 /\ last + Single.length = last
        /\ (size - last) - Single.name = room
    BY <1>2, Sizes
  <2> QED BY <1>1, <2>1 DEF Replaced, WriteFileNameInternal, CharSize
<1>a. \A a \in Addresses : a \in Nat
  BY AddressesAreNatural
<1> HIDE DEF chars, new, old, room
<1>7. /\ DOMAIN text = Addresses
      /\ \A a \in Addresses : last + 4 <= a /\ a < last + 4 + 2 * chars
                              => text[a] = <<name, a - (last + 4)>>
      /\ \A a \in Addresses : a < last + 4 \/ last + 4 + 2 * chars <= a => text[a] = buffer[a]
  <2>1. last + 4 \in Nat /\ 2 * chars \in Nat
    BY <1>2, <1>4
  <2> QED BY <1>5, <2>1, StoreBytes
<1> HIDE DEF text
<1>8. /\ DOMAIN short = Addresses
      /\ \A a \in Addresses : a < last \/ last + 4 <= a => short[a] = text[a]
  BY <1>2, <1>7, StoreWordBytes
<1> HIDE DEF short
<1>9. /\ DOMAIN buffer' = Addresses
      /\ \A a \in Addresses : last <= a /\ a < last + 4 => buffer'[a] = <<new, a - last>>
      /\ \A a \in Addresses : a < last \/ last + 4 <= a => buffer'[a] = short[a]
  BY <1>2, <1>6, <1>8, StoreWordBytes
<1>10. WritesInBounds'
  <2>1. \A k \in Nat : k >= size => last + 4 + 2 * chars <= k /\ last + 4 <= k
    BY <1>2, <1>3, <1>4
  <2>2. \A a \in Addresses : a >= size => buffer'[a] = Blank
    BY <1>5, <1>7, <1>8, <1>9, <1>a, <2>1
  <2> QED BY <1>1, <2>2 DEF WritesInBounds
<1>11. ReadFileNameLength(Single, buffer', last) = new
  <2>1. ASSUME NEW i \in 0 .. 3
        PROVE  buffer'[last + i] = <<new, i>>
    <3>1. /\ last + i \in 0 .. size - 1 /\ last <= last + i
          /\ last + i < last + 4 /\ (last + i) - last = i
      BY <1>2, <1>3
    <3>2. last + i \in Addresses
      BY <1>5, <3>1, Zenon
    <3> QED BY <1>9, <3>1, <3>2
  <2>2. Load(buffer', last, WordSize) = new
    BY <1>2, <2>1, LoadStored
  <2>3. last + Single.length = last
    BY <1>2, Sizes
  <2> QED BY <2>2, <2>3 DEF ReadFileNameLength
<1>12. ReadFileNameLength(Single, buffer, last) = old
  <2>1. \A i \in 0 .. 3 : buffer[last + i] = <<old, i>>
    BY <1>1 DEF BInv, Placed, old
  <2>2. Load(buffer, last, WordSize) = old
    BY <1>2, <2>1, LoadStored
  <2>3. last + Single.length = last
    BY <1>2, Sizes
  <2> QED BY <2>2, <2>3 DEF ReadFileNameLength
<1>13. /\ reply' \in [status : {"success", "bufferOverflow"}, information : Nat]
       /\ reply'.status = SystemStatus(new) /\ reply'.information = SystemInformation(new)
  <2>1. reply.information = SystemInformation(old)
    BY <1>1 DEF BInv, Placed, old
  <2>2. \A b \in Nat : SystemInformation(b) = Lesser(last + 4 + room, last + 4 + b)
    BY <1>3, Sizes DEF SystemInformation
  <2>3. SystemInformation(new) \in Nat
    BY <1>2, <1>3, <2>2 DEF Lesser
  <2>4. \/ new > room /\ Answer("bufferOverflow", last + 4 + room)
        \/ new <= room /\ old > room
           /\ Answer("success", SystemInformation(old) - (room - new))
        \/ new <= room /\ old <= room
           /\ Answer("success", (SystemInformation(old) + new) - old)
    BY <1>3, <1>12, <2>1 DEF ReplaceName, new
  <2>5. last + 4 \in Nat
    BY <1>2
  <2> DEFINE at == last + 4
  <2>6. SystemInformation(old) = Lesser(at + room, at + old)
        /\ SystemInformation(new) = Lesser(at + room, at + new)
    BY <1>2, <2>2
  <2>a. at \in Nat
    BY <2>5
  <2>b. last + 4 + room = at + room
    OBVIOUS
  <2> HIDE DEF at
  \* The three branches of ReplaceName give what the system would have given.
  <2>c. /\ new > room => at + room = Lesser(at + room, at + new)
        /\ new <= room /\ old > room =>
             Lesser(at + room, at + old) - (room - new) = Lesser(at + room, at + new)
        /\ new <= room /\ old <= room =>
             (Lesser(at + room, at + old) + new) - old = Lesser(at + room, at + new)
    <3>1. at \in Nat /\ room \in Nat /\ old \in Nat /\ new \in Nat
      BY <1>2, <1>3, <2>a
    <3> QED BY <3>1, SMTT(30) DEF Lesser
  <2>7. CASE new > room /\ Answer("bufferOverflow", at + room)
    <3>1. at + room = SystemInformation(new)
      BY <2>6, <2>7, <2>c
    <3>2. SystemStatus(new) = "bufferOverflow"
      BY <1>2, <1>3, <2>7 DEF SystemStatus
    <3> QED BY <2>3, <2>7, <3>1, <3>2 DEF Answer
  <2>8. CASE new <= room /\ old > room
             /\ Answer("success", SystemInformation(old) - (room - new))
    <3>1. SystemInformation(old) - (room - new) = SystemInformation(new)
      BY <2>6, <2>8, <2>c
    <3>2. SystemStatus(new) = "success"
      BY <1>2, <1>3, <2>8 DEF SystemStatus
    <3> QED BY <2>3, <2>8, <3>1, <3>2 DEF Answer
  <2>9. CASE new <= room /\ old <= room
             /\ Answer("success", (SystemInformation(old) + new) - old)
    <3>1. (SystemInformation(old) + new) - old = SystemInformation(new)
      BY <2>6, <2>9, <2>c
    <3>2. SystemStatus(new) = "success"
      BY <1>2, <1>3, <2>9 DEF SystemStatus
    <3> QED BY <2>3, <2>9, <3>1, <3>2 DEF Answer
  <2> QED BY <2>4, <2>7, <2>8, <2>9, <2>b
<1>14. TypeOK'
  BY <1>1, <1>9, <1>13 DEF BInv, TypeOK
<1>15. Placed' /\ OverflowTellsLength'
  BY <1>1 DEF BInv, Placed, OverflowTellsLength
<1>16. AnsweredAsSystem'
  <2>1. /\ NameCapacity' = room /\ NameBytes(name') = new
        /\ SystemStatus(NameBytes(name))' = SystemStatus(new)
        /\ SystemInformation(NameBytes(name))' = SystemInformation(new)
    BY <1>1, <1>3 DEF NameCapacity, SystemStatus, SystemInformation, new
  <2>2. ASSUME NEW i \in 0 .. new - 1, i < CharSize * (room \div CharSize)
        PROVE  buffer'[last + Single.name + i] = <<name, i>>
    <3>1. i \in Nat /\ i < 2 * chars
      BY <1>2, <1>4, <2>2 DEF CharSize
    <3>2. /\ last + 4 + i \in 0 .. size - 1 /\ last + 4 <= last + 4 + i
          /\ last + 4 + i < last + 4 + 2 * chars
          /\ (last + 4 + i) - (last + 4) = i /\ last + Single.name + i = last + 4 + i
      BY <1>2, <1>3, <1>4, <3>1, Sizes
    <3>3. last + 4 + i \in Addresses
      BY <1>5, <3>2, Zenon
    <3> QED BY <1>7, <1>8, <1>9, <3>2, <3>3
  <2> QED BY <1>1, <1>11, <1>13, <2>1, <2>2 DEF AnsweredAsSystem
<1> QED BY <1>10, <1>14, <1>15, <1>16 DEF BInv

-----------------------------------------------------------------------------
(* The theorems. *)

LEMMA NextInv ==
  ASSUME BInv, [Next]_vars
  PROVE  BInv'
<1>1. CASE \E c \in Capacities, count \in {1, Len(queue) + 1} : List(c, count)
  BY <1>1, ListInv
<1>2. CASE NoMoreFiles
  BY <1>2, NoMoreFilesInv
<1>3. CASE BufferOverflow
  BY <1>3, OverflowInv
<1>4. CASE Fits
  BY <1>4, FitsInv
<1>5. CASE CopyFront
  BY <1>5, CopyInv
<1>6. CASE Finish
  BY <1>6, FinishInv
<1>7. CASE \E c \in Capacities, o \in Offsets, a, s \in Names : Query(c, o, a, s)
  BY <1>7, QueryInv
<1>8. CASE KeepName
  BY <1>8, KeepInv
<1>9. CASE ReplaceName
  BY <1>9, ReplaceInv
<1>10. CASE UNCHANGED vars
  BY <1>10 DEF vars, BInv, TypeOK, WritesInBounds, Placed, OverflowTellsLength, AnsweredAsSystem,
         SystemStatus, SystemInformation, NameCapacity, SizeOfFront
<1> QED BY <1>1, <1>2, <1>3, <1>4, <1>5, <1>6, <1>7, <1>8, <1>9, <1>10 DEF Next

\* The inductive invariant of the buffers: where the structures of the running
\* call are, together with what its answer says.
THEOREM Invariance == Spec => []BInv
BY InitInv, NextInv, PTL DEF Spec

\* Type correctness of the calls that fill a buffer.
THEOREM TypeCorrect == Spec => []TypeOK
<1>1. BInv => TypeOK
  BY DEF BInv
<1> QED BY <1>1, Invariance, PTL

\* For buffers of any size and names of any length, nothing is written behind
\* the end of the application's buffer.
THEOREM WritesStayInBounds == Spec => []WritesInBounds
<1>1. BInv => WritesInBounds
  BY DEF BInv
<1> QED BY <1>1, Invariance, PTL

\* A listing whose buffer is too small for one entry leaves the length of the
\* name in it, from which the application computes the size it needs.
THEOREM OverflowTellsSize == Spec => []OverflowTellsLength
<1>1. BInv => OverflowTellsLength
  BY DEF BInv
<1> QED BY <1>1, Invariance, PTL

\* Whatever the lengths of the system's name and of the stored one, a query by
\* handle answers as the system does for a file of the stored name.
THEOREM QueriesAnswerAsSystem == Spec => []AnsweredAsSystem
<1>1. BInv => AnsweredAsSystem
  BY DEF BInv
<1> QED BY <1>1, Invariance, PTL

-----------------------------------------------------------------------------
(* What an application finds that follows the offsets: the walk is a function *)
(* that refers to itself at later addresses, and the names of the call stand  *)
(* in a chain.                                                                *)

\* Induction, for a set of numbers.
LEMMA Numbers ==
  ASSUME NEW S, 0 \in S, \A n \in Nat : n \in S => n + 1 \in S
  PROVE  Nat \subseteq S
<1> SUFFICES ASSUME NEW m \in Nat, m \notin S PROVE FALSE
  OBVIOUS
<1> DEFINE C == {n \in 0 .. m : n \notin S}
           T == {1 .. n : n \in C}
           U == 1 .. m
<1>1. T \in SUBSET SUBSET U /\ T # {}
  <2>1. m \in C
    OBVIOUS
  <2>2. ASSUME NEW n \in C PROVE 1 .. n \in SUBSET U
    OBVIOUS
  <2> QED BY <2>1, <2>2
<1>2. PICK n \in C : \A k \in C : <<1 .. k, 1 .. n>> \notin StrictSubsetOrdering(U)
  <2>1. IsFiniteSet(U)
    BY FS_Interval
  <2>2. T \subseteq FiniteSubsetsOf(U)
    BY <1>1, <2>1, FS_Subset DEF FiniteSubsetsOf
  <2> HIDE DEF T, U
  <2>3. \E x \in T : \A y \in T : ~(<<y, x>> \in StrictSubsetOrdering(U))
    BY <1>1, <2>2, FS_StrictSubsetOrderingWellFounded, WFMin
  <2> QED BY <2>3 DEF T
<1>3. n # 0 /\ n - 1 \in Nat /\ n - 1 \in 0 .. m /\ (n - 1) + 1 = n
  OBVIOUS
<1>4. n - 1 \in C
  BY <1>3
<1>5. n \in 1 .. n /\ n \notin 1 .. (n - 1) /\ 1 .. (n - 1) \subseteq 1 .. n
      /\ 1 .. (n - 1) \in SUBSET U /\ 1 .. n \in SUBSET U
  BY <1>3
<1>6. <<1 .. (n - 1), 1 .. n>> \in StrictSubsetOrdering(U)
  <2> DEFINE a == 1 .. (n - 1)
             b == 1 .. n
  <2>1. a \in SUBSET U /\ b \in SUBSET U /\ a \subseteq b /\ n \in b /\ n \notin a
    BY <1>5
  <2> HIDE DEF a, b, U
  <2> QED BY <2>1 DEF StrictSubsetOrdering, a, b
<1> QED BY <1>2, <1>4, <1>6

\* The names that a structure at p begins with, and where the next one is.
HereOf(end, p) ==
  {n \in Names : NameBytes(n) = ReadFileNameLength(Directory, buffer, p) /\
                  p + Directory.name + ReadFileNameLength(Directory, buffer, p) <= end /\
                  Load(buffer, p + Directory.name, ReadFileNameLength(Directory, buffer, p)) = n}

\* One step of the walk, with what it finds from there on.
Step(end, p, rest) ==
  IF p + Directory.base <= end /\ HereOf(end, p) # {}
    THEN <<CHOOSE n \in HereOf(end, p) : TRUE>> \o
           (IF ReadNextEntryOffset(Directory, buffer, p) \in 1 .. end - p
              THEN rest ELSE <<>>)
    ELSE <<>>

\* What comes behind a structure matters only if it has a distance to the next.
LEMMA StepRest ==
  ASSUME NEW end, NEW p, NEW x, NEW y,
         ReadNextEntryOffset(Directory, buffer, p) \in 1 .. end - p => x = y
  PROVE  Step(end, p, x) = Step(end, p, y)
<1>1. CASE ReadNextEntryOffset(Directory, buffer, p) \in 1 .. end - p
  BY <1>1
<1>2. CASE ReadNextEntryOffset(Directory, buffer, p) \notin 1 .. end - p
  BY <1>2 DEF Step
<1> QED BY <1>1, <1>2

\* The walk is what its definition says: such a function exists, built up from
\* the last address to the first.
LEMMA WalkIs ==
  ASSUME NEW end \in Nat
  PROVE  \E found : 
           /\ Walk(end) = found[0]
           /\ found = [p \in 0 .. end |-> Step(end, p, found[p + ReadNextEntryOffset(Directory, buffer, p)])]
<1> DEFINE Distance(p) == ReadNextEntryOffset(Directory, buffer, p)
           Partial(q, f) == f = [p \in q .. end |-> Step(end, p, f[p + Distance(p)])]
           S == {k \in Nat : k <= end + 1 => \E f : Partial((end + 1) - k, f)}
<1>1. Walk(end) = (CHOOSE found :
         found = [p \in 0 .. end |->
                    Step(end, p, found[p + ReadNextEntryOffset(Directory, buffer, p)])])[0]
  BY DEF Walk, Step, HereOf
<1>2. 0 \in S
  <2>1. Partial(end + 1, [p \in (end + 1) .. end |-> <<>>])
    OBVIOUS
  <2>2. (end + 1) - 0 = end + 1
    OBVIOUS
  <2> QED BY <2>1, <2>2
<1>3. ASSUME NEW k \in Nat, k \in S PROVE k + 1 \in S
  <2> SUFFICES ASSUME k + 1 <= end + 1 PROVE \E f : Partial((end + 1) - (k + 1), f)
    OBVIOUS
  <2> DEFINE q == end - k
  <2>1. q \in Nat /\ (end + 1) - (k + 1) = q /\ (end + 1) - k = q + 1
    OBVIOUS
  <2>2. PICK g : Partial(q + 1, g)
    BY <1>3, <2>1
  <2> HIDE DEF q
  <2> DEFINE first == Step(end, q, g[q + Distance(q)])
             f == [p \in q .. end |-> IF p = q THEN first ELSE g[p]]
  <2>3. ASSUME NEW p \in q .. end PROVE f[p] = Step(end, p, f[p + Distance(p)])
    <3>1. ASSUME Distance(p) \in 1 .. end - p
          PROVE  f[p + Distance(p)] = g[p + Distance(p)]
      <4>1. p + Distance(p) \in q .. end /\ p + Distance(p) # q
        <5> DEFINE d == Distance(p)
        <5>1. d \in 1 .. end - p
          BY <3>1
        <5> HIDE DEF d
        <5>2. p + d \in q .. end /\ p + d # q
          BY <2>1, <5>1
        <5> QED BY <5>2 DEF d
      <4> QED BY <4>1
    <3>2. Step(end, p, f[p + Distance(p)]) = Step(end, p, g[p + Distance(p)])
      <4> HIDE DEF f
      <4> QED BY <3>1, StepRest
    <3>3. f[p] = Step(end, p, g[p + Distance(p)])
      <4>1. CASE p = q
        BY <4>1
      <4>2. CASE p # q
        <5>1. p \in (q + 1) .. end
          BY <2>1, <4>2
        <5>2. g[p] = Step(end, p, g[p + Distance(p)])
          <6> HIDE DEF Distance
          <6> QED BY <2>2, <5>1
        <5> QED BY <4>2, <5>2
      <4> QED BY <4>1, <4>2
    <3> QED BY <3>2, <3>3
  <2>4. Partial(q, f)
    <3>1. f = [p \in q .. end |-> f[p]]
      OBVIOUS
    <3> HIDE DEF f
    <3> QED BY <2>3, <3>1
  <2> QED BY <2>1, <2>4
<1>4. \E f : Partial(0, f)
  <2>1. end + 1 \in Nat /\ (end + 1) - (end + 1) = 0
    OBVIOUS
  <2> HIDE DEF S
  <2>2. Nat \subseteq S
    BY <1>2, <1>3, Numbers
  <2> QED BY <2>1, <2>2 DEF S
<1> DEFINE found == CHOOSE f : Partial(0, f)
<1>5. Partial(0, found)
  BY <1>4, Zenon
<1>6. Walk(end) = found[0]
  BY <1>1
<1> HIDE DEF found
<1> QED BY <1>5, <1>6
SizeOf(n) == HypotheticalSizeForFileName(Directory, n)

\* A structure for the name n at p, with this distance to the next.
EntryAt(b, p, n, next) ==
  /\ \A i \in 0 .. 3 : b[p + Directory.next + i] = <<next, i>>
  /\ \A i \in 0 .. 3 : b[p + Directory.length + i] = <<NameBytes(n), i>>
  /\ \A i \in 0 .. NameBytes(n) - 1 : b[p + Directory.name + i] = <<n, i>>

\* Structures for the names w from address 0 to end, one behind the other.
Chain(b, starts, w, end, ended) ==
  /\ starts \in [1 .. Len(w) -> Nat]
  /\ w # <<>> => starts[1] = 0 /\ starts[Len(w)] + SizeOf(w[Len(w)]) = end
  /\ \A i \in 1 .. Len(w) - 1 :
       starts[i + 1] = starts[i] + SizeOf(w[i]) /\ starts[i + 1] <= starts[Len(w)]
  /\ \A i \in 1 .. Len(w) :
       EntryAt(b, starts[i], w[i], IF i = Len(w) /\ ended THEN 0 ELSE SizeOf(w[i]))

\* A step of the walk at a structure finds its name.
LEMMA EntryFound ==
  ASSUME NEW p \in Nat, NEW n \in Names, Length(n) # 0, NEW next, NEW end \in Nat,
         EntryAt(buffer, p, n, next), p + SizeOf(n) <= end, NEW rest
  PROVE  Step(end, p, rest) = <<n>> \o (IF next \in 1 .. end - p THEN rest ELSE <<>>)
<1>1. ReadNextEntryOffset(Directory, buffer, p) = next
  <2>1. p + Directory.next \in Nat
    BY Sizes
  <2> QED BY <2>1, LoadStored DEF EntryAt, ReadNextEntryOffset
<1>2. ReadFileNameLength(Directory, buffer, p) = NameBytes(n)
  <2>1. p + Directory.length \in Nat
    BY Sizes
  <2> QED BY <2>1, LoadStored DEF EntryAt, ReadFileNameLength
<1>3. NameBytes(n) \in Nat /\ NameBytes(n) > 0 /\ SizeOf(n) >= Directory.base
      /\ SizeOf(n) >= Directory.name + NameBytes(n) /\ SizeOf(n) \in Nat
  BY NameSizes, Sizes
     DEF SizeOf, HypotheticalSizeForFileName, HypotheticalSizeForFileNameLength, Greater
<1>4. Load(buffer, p + Directory.name, NameBytes(n)) = n
  <2> DEFINE at == p + Directory.name
  <2>1. at \in Nat
    BY Sizes
  <2>2. \A i \in 0 .. NameBytes(n) - 1 : buffer[at + i] = <<n, i>>
    BY DEF EntryAt
  <2> HIDE DEF at
  <2>3. 0 \in 0 .. NameBytes(n) - 1 /\ at + 0 = at
    BY <1>3, <2>1
  <2>4. buffer[at] = <<n, 0>>
    BY <2>2, <2>3
  <2>5. buffer[at][1] = n
    BY <2>4
  <2> QED BY <2>2, <2>5, Zenon DEF Load, at
<1>5. p + Directory.name + NameBytes(n) <= end /\ p + Directory.base <= end
  BY <1>3, Sizes
<1>6. HereOf(end, p) = {n}
  BY <1>2, <1>4, <1>5 DEF HereOf
<1>7. (CHOOSE m \in HereOf(end, p) : TRUE) = n
  BY <1>6
<1> QED BY <1>1, <1>5, <1>6, <1>7 DEF Step

\* The walk through a chain ends at its last structure and has found every name.
LEMMA WalkFinds ==
  ASSUME NEW w \in Seq(Names), w # <<>>, \A n \in Names : Length(n) # 0,
         NEW end \in Nat, NEW starts, Chain(buffer, starts, w, end, TRUE)
  PROVE  Walk(end) = w
<1> DEFINE m == Len(w)
           Distance(p) == ReadNextEntryOffset(Directory, buffer, p)
<1>1. PICK found :
        /\ Walk(end) = found[0]
        /\ found = [p \in 0 .. end |-> Step(end, p, found[p + Distance(p)])]
  BY WalkIs
<1>2. m \in Nat /\ m # 0
  OBVIOUS
<1>a. ASSUME NEW i \in 1 .. m PROVE w[i] \in Names /\ SizeOf(w[i]) \in Nat /\ SizeOf(w[i]) >= Directory.base
  BY NameSizes DEF SizeOf
<1>3. ASSUME NEW i \in 1 .. m
      PROVE  /\ starts[i] \in Nat /\ starts[i] + SizeOf(w[i]) <= end
             /\ EntryAt(buffer, starts[i], w[i], IF i = m THEN 0 ELSE SizeOf(w[i]))
             /\ i # m => starts[i + 1] = starts[i] + SizeOf(w[i])
  <2>1. starts[i] \in Nat /\ EntryAt(buffer, starts[i], w[i], IF i = m THEN 0 ELSE SizeOf(w[i]))
    BY DEF Chain
  <2>2. CASE i = m
    BY <1>a, <2>1, <2>2 DEF Chain
  <2>3. CASE i # m
    <3>1. i \in 1 .. m - 1 /\ m \in 1 .. m
      BY <1>2, <2>3
    <3>2. /\ starts[i + 1] = starts[i] + SizeOf(w[i]) /\ starts[i + 1] <= starts[m]
          /\ starts[m] \in Nat /\ starts[m] + SizeOf(w[m]) = end /\ SizeOf(w[m]) \in Nat
      BY <1>a, <3>1 DEF Chain
    <3> QED BY <1>a, <2>1, <3>2
  <2> QED BY <2>2, <2>3
<1>4. ASSUME NEW i \in 1 .. m
      PROVE  found[starts[i]] =
               IF i = m THEN <<w[i]>> ELSE <<w[i]>> \o found[starts[i + 1]]
  <2> DEFINE s == starts[i]
             n == w[i]
             next == IF i = m THEN 0 ELSE SizeOf(n)
             more == found[s + Distance(s)]
  <2>1. s \in Nat /\ n \in Names /\ SizeOf(n) \in Nat /\ SizeOf(n) >= Directory.base
        /\ Length(n) # 0 /\ s + SizeOf(n) <= end /\ EntryAt(buffer, s, n, next)
    BY <1>a, <1>3
  <2>2. Distance(s) = next
    <3>1. s + Directory.next \in Nat
      <4> HIDE DEF s, n, next, more
      <4>1. s \in Nat
        BY <2>1
      <4>2. Directory.next \in Nat
        BY Sizes
      <4> QED BY <4>1, <4>2
    <3>2. \A j \in 0 .. 3 : buffer[(s + Directory.next) + j] = <<next, j>>
      <4> HIDE DEF s, n, next
      <4> QED BY <2>1 DEF EntryAt
    <3> HIDE DEF s, n, next
    <3>3. Load(buffer, s + Directory.next, WordSize) = next
      BY <3>1, <3>2, LoadStored
    <3> QED BY <3>3 DEF ReadNextEntryOffset
  <2>3. s \in 0 .. end
    BY <2>1
  <2>4. found[s] = Step(end, s, more)
    <3> HIDE DEF s, Distance
    <3> QED BY <1>1, <2>3
  <2>5. Step(end, s, more) = <<n>> \o (IF next \in 1 .. end - s THEN more ELSE <<>>)
    <3> HIDE DEF s, n, next, more
    <3> QED BY <2>1, EntryFound
  <2>6. CASE i = m
    <3>1. next \notin 1 .. end - s
      BY <2>6
    <3>2. found[s] = <<n>> \o <<>>
      BY <2>4, <2>5, <3>1
    <3>3. found[s] = <<n>>
      BY <3>2
    <3> QED BY <2>6, <3>3
  <2>7. CASE i # m
    <3>1. next = SizeOf(n) /\ next \in 1 .. end - s
      <4>1. next = SizeOf(n)
        BY <2>7
      <4> DEFINE d == SizeOf(n)
      <4>2. d \in Nat /\ d >= 1 /\ s \in Nat /\ s + d <= end
        BY <2>1, Sizes
      <4>3. d \in 1 .. end - s
        <5> HIDE DEF d, s
        <5> QED BY <4>2
      <4> QED BY <4>1, <4>3
    <3>2. starts[i + 1] = s + SizeOf(n)
      BY <1>3, <2>7
    <3>3. more = found[starts[i + 1]]
      BY <2>2, <3>1, <3>2
    <3>4. found[s] = <<n>> \o more
      BY <2>4, <2>5, <3>1
    <3> QED BY <2>7, <3>3, <3>4
  <2> QED BY <2>6, <2>7
<1> DEFINE S == {k \in Nat : k < m => found[starts[m - k]] = SubSeq(w, m - k, m)}
<1>5. 0 \in S
  <2>1. m - 0 = m /\ m \in 1 .. m
    BY <1>2
  <2>2. SubSeq(w, m, m) = <<w[m]>>
    <3>1. /\ SubSeq(w, m, m) \in Seq(Names) /\ Len(SubSeq(w, m, m)) = 1
          /\ SubSeq(w, m, m)[1] = w[m]
      BY <1>2
    <3>2. \A x \in Seq(Names) : Len(x) = 1 => x = <<x[1]>>
      OBVIOUS
    <3> HIDE DEF m
    <3> QED BY <3>1, <3>2
  <2> QED BY <1>4, <2>1, <2>2
<1>6. ASSUME NEW k \in Nat, k \in S PROVE k + 1 \in S
  <2> SUFFICES ASSUME k + 1 < m PROVE found[starts[m - (k + 1)]] = SubSeq(w, m - (k + 1), m)
    OBVIOUS
  <2> DEFINE i == m - (k + 1)
  <2>1. i \in 1 .. m /\ i # m /\ i + 1 = m - k
    BY <1>2
  <2>2. found[starts[i + 1]] = SubSeq(w, i + 1, m)
    <3>1. k < m
      BY <1>2
    <3> QED BY <1>6, <2>1, <3>1
  <2> HIDE DEF i
  <2>3. found[starts[i]] = <<w[i]>> \o SubSeq(w, i + 1, m)
    BY <1>4, <2>1, <2>2
  <2>4. SubSeq(w, i, m) = <<w[i]>> \o SubSeq(w, i + 1, m)
    BY <2>1
  <2> QED BY <2>3, <2>4 DEF i
<1>7. found[starts[1]] = SubSeq(w, 1, m)
  <2> HIDE DEF S
  <2>1. Nat \subseteq S
    BY <1>5, <1>6, Numbers
  <2>2. m - 1 \in Nat /\ m - 1 < m /\ m - (m - 1) = 1
    BY <1>2
  <2>3. m - 1 \in S
    BY <2>1, <2>2
  <2> QED BY <2>2, <2>3 DEF S
<1>8. starts[1] = 0
  BY DEF Chain
<1>9. SubSeq(w, 1, m) = w
  OBVIOUS
<1> QED BY <1>1, <1>7, <1>8, <1>9

\* While a listing runs, the names written stand in a chain, whose last structure
\* has a distance too until the listing ends; it ends with at least one name.
Linked ==
  /\ pc = "copy" => \E starts : Chain(buffer, starts, written, used, FALSE)
  /\ pc = "copy" /\ written = <<>> => used = 0 /\ Room
  /\ pc = "copy" /\ written # <<>> => last + SizeOf(written[Len(written)]) = used
  /\ pc = "idle" /\ reply.status = "success" /\ max # 0 =>
       /\ written # <<>> /\ reply.information = used
       /\ \E starts : Chain(buffer, starts, written, used, TRUE)

LEMMA StartLinked ==
  ASSUME BInv, Fits
  PROVE  Linked'
<1>1. /\ pc = "check" /\ pc' = "copy" /\ written = <<>> /\ used = 0 /\ max # 0 /\ max \in Nat
      /\ queue # <<>> /\ size \in Nat /\ size >= SizeOfFront /\ SizeOfFront \in Nat
      /\ UNCHANGED <<queue, size, max, written, used, last, buffer, real, name, reply>>
  <2>1. Head(queue) \in Names
    BY DEF BInv, TypeOK, Fits
  <2> QED BY <2>1, NameSizes DEF Fits, BInv, TypeOK, Placed, SizeOfFront
<1>2. Len(written) = 0
  BY <1>1
<1>3. Room
  BY <1>1, <1>2 DEF Room
<1>4. Room'
  BY <1>1, <1>3 DEF Room, SizeOfFront
<1>5. Chain(buffer, [i \in 1 .. 0 |-> 0], written, used, FALSE)
  BY <1>1, <1>2 DEF Chain
<1> QED BY <1>1, <1>4, <1>5 DEF Linked

LEMMA FieldsWithin ==
  ASSUME NEW g \in Nat, g >= Directory.base, NEW j \in 0 .. 3
  PROVE  Directory.next + j < g /\ Directory.length + j < g /\ j \in Nat
<1>1. j \in Nat /\ j <= 3
  OBVIOUS
<1>2. /\ Directory.next \in Nat /\ Directory.length \in Nat /\ Directory.name \in Nat
      /\ Directory.next + 4 <= Directory.length /\ Directory.length + 4 <= Directory.name
      /\ Directory.name + 2 <= Directory.base /\ Directory.base \in Nat
  BY Sizes
<1> DEFINE a == Directory.next
           b == Directory.length
           c == Directory.name
           e == Directory.base
<1>3. /\ a \in Nat /\ b \in Nat /\ c \in Nat /\ e \in Nat /\ a + 4 <= b /\ b + 4 <= c
      /\ c + 2 <= e /\ e <= g
  BY <1>2
<1> HIDE DEF a, b, c, e
<1>4. a + j < g /\ b + j < g
  BY <1>1, <1>3
<1> QED BY <1>1, <1>4 DEF a, b

LEMMA SizeOfBounds ==
  ASSUME NEW n \in Names
  PROVE  /\ SizeOf(n) \in Nat /\ NameBytes(n) \in Nat
         /\ SizeOf(n) >= Directory.base /\ SizeOf(n) >= Directory.name + NameBytes(n)
BY NameSizes, Sizes
   DEF SizeOf, HypotheticalSizeForFileName, HypotheticalSizeForFileNameLength, Greater

\* Another structure extends the chain and leaves the ones before it alone.
LEMMA CopyLinked ==
  ASSUME BInv, Linked, CopyFront
  PROVE  Linked'
<1> DEFINE n == Head(queue)
           m == Len(written)
           d == SizeOf(n)
<1>1. /\ n \in Names /\ d \in Nat /\ d = SizeOfFront /\ d >= Directory.base
      /\ d = HypotheticalSizeForFileNameLength(Directory, NameBytes(n)) /\ d >= Directory.name + NameBytes(n)
      /\ NameBytes(n) \in Nat
      /\ written \in Seq(Names) /\ used \in Nat /\ size \in Nat /\ used + d <= size
      /\ pc = "copy" /\ pc' = "copy" /\ written' = Append(written, n) /\ used' = used + d
      /\ DOMAIN buffer = Addresses /\ 0 .. size - 1 \subseteq Addresses
  <2>1. /\ queue \in Seq(Names) /\ queue # <<>> /\ written \in Seq(Names)
        /\ size \in Nat /\ used \in Nat /\ size - used >= SizeOfFront
        /\ pc = "copy" /\ pc' = "copy" /\ written' = Append(written, n)
        /\ DOMAIN buffer = Addresses /\ 0 .. size - 1 \subseteq Addresses
    BY DEF CopyFront, Room, BInv, TypeOK, Placed
  <2>2. n \in Names
    BY <2>1
  <2>3. d = SizeOfFront /\ d = HypotheticalSizeForFileNameLength(Directory, NameBytes(n))
        /\ used' = used + d
    BY DEF SizeOfFront, SizeOf, HypotheticalSizeForFileName, CopyFront
  <2> HIDE DEF n
  <2>4. d \in Nat /\ d >= Directory.base /\ NameBytes(n) \in Nat /\ d >= Directory.name + NameBytes(n)
    BY <2>2, NameSizes, Sizes
       DEF SizeOf, HypotheticalSizeForFileName, HypotheticalSizeForFileNameLength, Greater
  <2>5. used + d <= size
    BY <2>1, <2>3, <2>4
  <2> QED BY <2>1, <2>2, <2>3, <2>4, <2>5
<1> HIDE DEF n, d
<1>a. /\ used \in Nat /\ size \in Nat /\ d \in Nat /\ used + d <= size /\ d >= Directory.base
      /\ NameBytes(n) \in Nat /\ d >= Directory.name + NameBytes(n)
  BY <1>1
<1>2. PICK next \in NextOfFront :
        buffer' = UpdateNextEntryOffset(Directory,
                    CopyImage(Directory, buffer, used, n, next, d), used)
  BY <1>1 DEF CopyFront, n
<1> DEFINE copied == CopyImage(Directory, buffer, used, n, next, d)
<1>3. /\ DOMAIN copied = Addresses
      /\ \A i \in 0 .. d - 1 : copied[used + i] = ImageByte(Directory, n, next, i)
      /\ \A a \in Addresses : a < used => copied[a] = buffer[a]
  <2>1. ASSUME NEW i \in 0 .. d - 1 PROVE copied[used + i] = ImageByte(Directory, n, next, i)
    <3>1. used + i \in 0 .. size - 1 /\ used <= used + i /\ used + i < used + d
          /\ (used + i) - used = i
      BY <1>1
    <3>2. used + i \in Addresses
      BY <1>1, <3>1, Zenon
    <3> QED BY <1>1, <3>1, <3>2 DEF CopyImage
  <2>2. DOMAIN copied = Addresses
    BY <1>1 DEF CopyImage
  <2>3. ASSUME NEW a \in Addresses, a < used PROVE copied[a] = buffer[a]
    BY <1>1, <2>3, AddressesAreNatural DEF CopyImage
  <2> QED BY <2>1, <2>2, <2>3
<1> HIDE DEF copied
<1>4. ReadFileNameLength(Directory, copied, used) = NameBytes(n)
  <2>1. ASSUME NEW i \in 0 .. 3 PROVE copied[(used + Directory.length) + i] = <<NameBytes(n), i>>
    <3>1. /\ Directory.length + i \in 0 .. d - 1
          /\ used + (Directory.length + i) = (used + Directory.length) + i
          /\ (Directory.length + i) - Directory.length = i
      BY <1>a, Sizes
    <3>2. ImageByte(Directory, n, next, Directory.length + i) = <<NameBytes(n), i>>
      BY <3>1, Sizes DEF ImageByte, WordSize
    <3> QED BY <1>3, <3>1, <3>2
  <2>2. used + Directory.length \in Nat
    BY <1>a, Sizes
  <2> QED BY <2>1, <2>2, LoadStored DEF ReadFileNameLength
<1>5. buffer' = StoreWord(copied, used + Directory.next, d)
  BY <1>1, <1>2, <1>4 DEF copied, UpdateNextEntryOffset
<1> DEFINE q == used + Directory.next
<1>6. /\ \A a \in Addresses : q <= a /\ a < q + 4 => buffer'[a] = <<d, a - q>>
      /\ \A a \in Addresses : a < q \/ q + 4 <= a => buffer'[a] = copied[a]
      /\ q \in Nat
  <2>1. q \in Nat
    BY <1>a, Sizes
  <2> HIDE DEF q
  <2> QED BY <1>3, <1>5, <2>1, StoreWordBytes DEF q
<1>7. EntryAt(buffer', used, n, d)
  <2>1. ASSUME NEW i \in 0 .. 3 PROVE buffer'[used + Directory.next + i] = <<d, i>>
    <3>1. q + i \in 0 .. size - 1 /\ q <= q + i /\ q + i < q + 4 /\ (q + i) - q = i
      BY <1>a, Sizes
    <3>2. q + i \in Addresses
      BY <1>1, <3>1, Zenon
    <3> QED BY <1>6, <3>1, <3>2
  <2>2. ASSUME NEW i \in 0 .. 3
        PROVE  buffer'[used + Directory.length + i] = <<NameBytes(n), i>>
    <3>1. /\ Directory.length + i \in 0 .. d - 1 /\ (used + Directory.length) + i \in 0 .. size - 1
          /\ used + (Directory.length + i) = (used + Directory.length) + i
          /\ (Directory.length + i) - Directory.length = i
          /\ q + 4 <= (used + Directory.length) + i
      BY <1>a, Sizes
    <3>2. ImageByte(Directory, n, next, Directory.length + i) = <<NameBytes(n), i>>
      BY <3>1, Sizes DEF ImageByte, WordSize
    <3>3. (used + Directory.length) + i \in Addresses
      BY <1>1, <3>1, Zenon
    <3> QED BY <1>3, <1>6, <3>1, <3>2, <3>3
  <2>3. ASSUME NEW i \in 0 .. NameBytes(n) - 1
        PROVE  buffer'[used + Directory.name + i] = <<n, i>>
    <3>1. /\ Directory.name + i \in 0 .. d - 1 /\ (used + Directory.name) + i \in 0 .. size - 1
          /\ used + (Directory.name + i) = (used + Directory.name) + i
          /\ (Directory.name + i) - Directory.name = i
          /\ q + 4 <= (used + Directory.name) + i
      BY <1>a, Sizes
    <3>2. ImageByte(Directory, n, next, Directory.name + i) = <<n, i>>
      BY <1>a, <3>1, Sizes DEF ImageByte, WordSize
    <3>3. (used + Directory.name) + i \in Addresses
      BY <1>1, <3>1, Zenon
    <3> QED BY <1>3, <1>6, <3>1, <3>2, <3>3
  <2> QED BY <2>1, <2>2, <2>3 DEF EntryAt
<1>8. \A a \in Addresses : a < used => buffer'[a] = buffer[a]
  <2>1. \A k \in Nat : k < used => k < q
    BY <1>a, Sizes
  <2> HIDE DEF q
  <2> QED BY <1>3, <1>6, <2>1, AddressesAreNatural
<1>9. PICK starts : Chain(buffer, starts, written, used, FALSE)
  BY <1>1 DEF Linked
<1> DEFINE more == [i \in 1 .. m + 1 |-> IF i = m + 1 THEN used ELSE starts[i]]
<1>10. m \in Nat /\ Len(written') = m + 1 /\ written'[m + 1] = n /\ (written = <<>> <=> m = 0)
       /\ \A i \in 1 .. m : written'[i] = written[i] /\ written[i] \in Names
  BY <1>1
<1>11. ASSUME NEW i \in 1 .. m
       PROVE  /\ starts[i] \in Nat /\ SizeOf(written[i]) \in Nat
              /\ starts[i] + SizeOf(written[i]) = (IF i = m THEN used ELSE starts[i + 1])
              /\ starts[i] + SizeOf(written[i]) <= used
              /\ EntryAt(buffer, starts[i], written[i], SizeOf(written[i]))
  <2>1. /\ starts[i] \in Nat /\ SizeOf(written[i]) \in Nat
        /\ EntryAt(buffer, starts[i], written[i], SizeOf(written[i]))
    BY <1>9, <1>10, NameSizes DEF Chain, SizeOf
  <2>2. CASE i = m
    BY <1>1, <1>9, <1>10, <2>1, <2>2 DEF Chain
  <2>3. CASE i # m
    <3>1. i \in 1 .. m - 1 /\ m \in 1 .. m /\ written # <<>>
      BY <1>10, <2>3
    <3>2. /\ starts[i + 1] = starts[i] + SizeOf(written[i]) /\ starts[i + 1] <= starts[m]
          /\ starts[m] \in Nat /\ starts[m] + SizeOf(written[m]) = used
      BY <1>9, <3>1 DEF Chain
    <3>3. SizeOf(written[m]) \in Nat
      BY <1>10, <3>1, NameSizes DEF SizeOf
    <3> DEFINE x == starts[i]
               y == starts[m]
               g == SizeOf(written[i])
               h == SizeOf(written[m])
    <3>4. x \in Nat /\ y \in Nat /\ g \in Nat /\ h \in Nat /\ x + g <= y /\ y + h = used
      BY <2>1, <3>2, <3>3
    <3>5. x + g <= used
      <4> HIDE DEF x, y, g, h
      <4> QED BY <1>a, <3>4
    <3> QED BY <2>1, <2>3, <3>2, <3>5
  <2> QED BY <2>2, <2>3
<1>12. ASSUME NEW i \in 1 .. m + 1
       PROVE  EntryAt(buffer', more[i], written'[i], SizeOf(written'[i]))
  <2>1. CASE i = m + 1
    BY <1>7, <1>10, <2>1 DEF d
  <2>2. CASE i # m + 1
    <3> DEFINE s == starts[i]
               v == written[i]
    <3>1. i \in 1 .. m /\ more[i] = s /\ written'[i] = v /\ v \in Names
      BY <1>10, <2>2
    <3>2. /\ s \in Nat /\ SizeOf(v) \in Nat /\ s + SizeOf(v) <= used
          /\ EntryAt(buffer, s, v, SizeOf(v))
      BY <1>11, <3>1
    <3>3. /\ NameBytes(v) \in Nat /\ SizeOf(v) >= Directory.base
          /\ SizeOf(v) >= Directory.name + NameBytes(v)
      BY <3>1, SizeOfBounds
    <3> HIDE DEF s, v
    <3>4. ASSUME NEW j \in 0 .. SizeOf(v) - 1 PROVE buffer'[s + j] = buffer[s + j]
      <4>1. s + j \in 0 .. size - 1 /\ s + j < used
        BY <1>1, <3>2
      <4>2. s + j \in Addresses
        BY <1>1, <4>1, Zenon
      <4> QED BY <1>8, <4>1, <4>2
    <3>5. ASSUME NEW f \in Nat, NEW j \in Nat, f + j < SizeOf(v)
          PROVE  buffer'[s + f + j] = buffer[s + f + j]
      <4>1. f + j \in 0 .. SizeOf(v) - 1 /\ s + (f + j) = s + f + j
        BY <3>2, <3>5
      <4> QED BY <3>4, <4>1
    <3>b. SizeOf(v) \in Nat
      BY <3>2
    <3>6. ASSUME NEW j \in 0 .. 3
          PROVE  /\ Directory.next + j < SizeOf(v) /\ Directory.length + j < SizeOf(v)
                 /\ j \in Nat
      BY <3>b, <3>3, FieldsWithin
    <3>7. \A j \in 0 .. NameBytes(v) - 1 : Directory.name + j < SizeOf(v) /\ j \in Nat
      BY <3>b, <3>3, Sizes
    <3>8. EntryAt(buffer', s, v, SizeOf(v))
      BY <3>2, <3>5, <3>6, <3>7, Sizes DEF EntryAt
    <3> QED BY <3>1, <3>8
  <2> QED BY <2>1, <2>2
<1>13. Chain(buffer', more, written', used', FALSE)
  <2>1. more \in [1 .. Len(written') -> Nat]
    BY <1>1, <1>10, <1>11
  <2>2. more[1] = 0
    <3>1. CASE m = 0
      <4>1. used = 0
        BY <1>1, <1>10, <3>1 DEF Linked
      <4> QED BY <3>1, <4>1
    <3>2. CASE m # 0
      <4>1. 1 \in 1 .. m /\ 1 # m + 1 /\ written # <<>>
        BY <1>10, <3>2
      <4> QED BY <1>9, <4>1 DEF Chain
    <3> QED BY <3>1, <3>2
  <2>3. more[m + 1] + SizeOf(written'[m + 1]) = used'
    BY <1>1, <1>10 DEF d
  <2>4. ASSUME NEW i \in 1 .. m
        PROVE  more[i + 1] = more[i] + SizeOf(written'[i]) /\ more[i + 1] <= more[m + 1]
    <3>1. more[i] = starts[i] /\ written'[i] = written[i] /\ more[m + 1] = used
          /\ more[i + 1] = (IF i = m THEN used ELSE starts[i + 1])
      BY <1>10
    <3> HIDE DEF more
    <3> QED BY <1>11, <3>1
  <2>5. (m + 1) - 1 = m
    BY <1>10
  <2> HIDE DEF more
  <2> QED BY <1>10, <1>12, <2>1, <2>2, <2>3, <2>4, <2>5 DEF Chain
<1>14. written' # <<>>
  BY <1>1
<1>15. last' + SizeOf(written'[Len(written')]) = used'
  BY <1>1, <1>10 DEF CopyFront, d
<1> QED BY <1>1, <1>13, <1>14, <1>15 DEF Linked
\* The last structure of the chain loses its distance.
LEMMA FinishLinked ==
  ASSUME BInv, Linked, Finish
  PROVE  Linked'
<1> DEFINE m == Len(written)
<1>1. /\ pc = "copy" /\ pc' = "idle" /\ reply'.status = "success" /\ reply'.information = used
      /\ written \in Seq(Names) /\ used \in Nat /\ size \in Nat /\ used <= size
      /\ DOMAIN buffer = Addresses /\ 0 .. size - 1 \subseteq Addresses
      /\ UNCHANGED <<queue, size, max, written, used, last, real, name>>
  BY DEF Finish, Answer, BInv, TypeOK, Placed
<1>2. written # <<>>
  BY <1>1 DEF Linked, Finish
<1>3. m \in Nat /\ m # 0 /\ m \in 1 .. m /\ \A i \in 1 .. m : written[i] \in Names
  BY <1>1, <1>2
<1>4. buffer' = StoreWord(buffer, last + Directory.next, 0)
  BY <1>2 DEF Finish, ClearNextEntryOffset
<1>5. PICK starts : Chain(buffer, starts, written, used, FALSE)
  BY <1>1 DEF Linked
<1>6. last = starts[m] /\ last \in Nat /\ starts[m] \in Nat
  <2>1. /\ last + SizeOf(written[m]) = used /\ starts[m] + SizeOf(written[m]) = used
        /\ starts[m] \in Nat /\ last \in Nat
    BY <1>1, <1>2, <1>3, <1>5 DEF Linked, Chain, BInv, TypeOK
  <2>2. SizeOf(written[m]) \in Nat
    BY <1>3, SizeOfBounds
  <2> DEFINE x == starts[m]
             g == SizeOf(written[m])
  <2>3. last + g = used /\ x + g = used /\ x \in Nat /\ last \in Nat /\ g \in Nat
    BY <2>1, <2>2
  <2>4. last = x
    <3> HIDE DEF x, g
    <3> QED BY <2>3
  <2> QED BY <2>1, <2>4
<1>a. used \in Nat /\ size \in Nat /\ used <= size /\ last \in Nat
  BY <1>1, <1>6
<1>b. /\ Directory.next \in Nat /\ Directory.length \in Nat /\ Directory.base \in Nat
      /\ Directory.next + 4 <= Directory.length /\ Directory.length + 4 <= Directory.base
  BY Sizes
<1> DEFINE q == last + Directory.next
<1>7. /\ \A a \in Addresses : q <= a /\ a < q + 4 => buffer'[a] = <<0, a - q>>
      /\ \A a \in Addresses : a < q \/ q + 4 <= a => buffer'[a] = buffer[a]
      /\ q \in Nat
  <2>1. q \in Nat
    BY <1>6, Sizes
  <2> HIDE DEF q
  <2> QED BY <1>1, <1>4, <2>1, StoreWordBytes DEF q
<1>8. ASSUME NEW i \in 1 .. m, i # m
      PROVE  EntryAt(buffer', starts[i], written[i], SizeOf(written[i]))
  <2> DEFINE s == starts[i]
             v == written[i]
             g == SizeOf(v)
  <2>1. i \in 1 .. m - 1
    BY <1>3, <1>8
  <2>2. s \in Nat /\ v \in Names /\ starts[i + 1] = s + g /\ starts[i + 1] <= last
        /\ EntryAt(buffer, s, v, g)
    BY <1>3, <1>5, <1>6, <1>8, <2>1 DEF Chain
  <2>3. g \in Nat /\ NameBytes(v) \in Nat /\ g >= Directory.base /\ g >= Directory.name + NameBytes(v)
    <3> HIDE DEF v
    <3> QED BY <2>2, SizeOfBounds
  <2>4. s + g <= last
    BY <2>2
  <2>a. last \in Nat /\ last <= size /\ last <= q
    <3>1. last + SizeOf(written[m]) = used /\ SizeOf(written[m]) \in Nat
      BY <1>1, <1>2, <1>3, SizeOfBounds DEF Linked
    <3> DEFINE h == SizeOf(written[m])
    <3>2. last + h = used /\ h \in Nat
      BY <3>1
    <3> HIDE DEF h
    <3> QED BY <1>a, <1>b, <3>2
  <2> HIDE DEF s, v, g, q
  <2>5. ASSUME NEW f \in Nat, NEW j \in Nat, f + j < g
        PROVE  buffer'[s + f + j] = buffer[s + f + j]
    <3>1. s + f + j \in 0 .. size - 1 /\ s + f + j < q
      BY <1>1, <1>7, <2>2, <2>3, <2>4, <2>5, <2>a
    <3>2. s + f + j \in Addresses
      BY <1>1, <3>1, Zenon
    <3> QED BY <1>7, <3>1, <3>2
  <2>6. \A j \in 0 .. 3 : Directory.next + j < g /\ Directory.length + j < g /\ j \in Nat
    BY <2>3, FieldsWithin
  <2>7. \A j \in 0 .. NameBytes(v) - 1 : Directory.name + j < g /\ j \in Nat
    BY <2>3, Sizes
  <2>8. EntryAt(buffer', s, v, g)
    BY <2>2, <2>5, <2>6, <2>7, Sizes DEF EntryAt
  <2> QED BY <2>8 DEF s, v, g
<1>9. EntryAt(buffer', starts[m], written[m], 0)
  <2> DEFINE v == written[m]
             g == SizeOf(v)
  <2>1. v \in Names /\ last + g = used /\ EntryAt(buffer, last, v, g)
    BY <1>1, <1>2, <1>3, <1>5, <1>6 DEF Chain, Linked
  <2>2. g \in Nat /\ NameBytes(v) \in Nat /\ g >= Directory.base /\ g >= Directory.name + NameBytes(v)
    <3> HIDE DEF v
    <3> QED BY <2>1, SizeOfBounds
  <2> HIDE DEF v, g
  <2>3. last + g <= size
    BY <1>1, <1>6, <2>1, <2>2
  <2>4. ASSUME NEW i \in 0 .. 3 PROVE buffer'[last + Directory.next + i] = <<0, i>>
    <3>1. Directory.next + i < g /\ i \in Nat
      BY <2>2, FieldsWithin
    <3>2. q + i \in 0 .. size - 1 /\ q <= q + i /\ q + i < q + 4 /\ (q + i) - q = i
      BY <1>a, <1>b, <2>2, <2>3, <3>1
    <3>3. q + i \in Addresses
      BY <1>1, <3>2, Zenon
    <3> QED BY <1>7, <3>2, <3>3
  <2>5. ASSUME NEW f \in Nat, NEW i \in Nat, f + i < g, Directory.length <= f
        PROVE  buffer'[last + f + i] = buffer[last + f + i]
    <3>1. last + f + i \in 0 .. size - 1 /\ q + 4 <= last + f + i
      BY <1>a, <1>b, <2>2, <2>3, <2>5
    <3>2. last + f + i \in Addresses
      BY <1>1, <3>1, Zenon
    <3> QED BY <1>7, <3>1, <3>2
  <2>6. \A i \in 0 .. 3 : Directory.length + i < g /\ i \in Nat
    BY <2>2, FieldsWithin
  <2>7. \A i \in 0 .. NameBytes(v) - 1 : Directory.name + i < g /\ i \in Nat
    BY <2>2, Sizes
  <2>8. Directory.length \in Nat /\ Directory.name \in Nat /\ Directory.length <= Directory.name
    BY Sizes
  <2>9. \A i \in 0 .. 3 : buffer'[last + Directory.length + i] = <<NameBytes(v), i>>
    BY <2>1, <2>5, <2>6, <2>8 DEF EntryAt
  <2>10. \A i \in 0 .. NameBytes(v) - 1 : buffer'[last + Directory.name + i] = <<v, i>>
    BY <2>1, <2>5, <2>7, <2>8 DEF EntryAt
  <2>11. EntryAt(buffer', last, v, 0)
    BY <2>4, <2>9, <2>10 DEF EntryAt
  <2> QED BY <1>6, <2>11 DEF v
<1>10. Chain(buffer', starts, written, used, TRUE)
  <2>1. \A i \in 1 .. m : EntryAt(buffer', starts[i], written[i], IF i = m /\ TRUE THEN 0 ELSE SizeOf(written[i]))
    BY <1>8, <1>9
  <2> QED BY <1>5, <2>1 DEF Chain
<1> QED BY <1>1, <1>2, <1>10 DEF Linked

LEMMA NextLinked ==
  ASSUME BInv, Linked, [Next]_vars
  PROVE  Linked'
<1>1. CASE \E c \in Capacities, count \in {1, Len(queue) + 1} : List(c, count)
  <2> SUFFICES ASSUME NEW c \in Capacities, NEW count \in {1, Len(queue) + 1}, List(c, count)
               PROVE  Linked'
    BY <1>1
  <2>1. \/ pc' = "idle" /\ reply'.status = "infoLengthMismatch"
        \/ pc' = "check"
    BY DEF List, Answer
  <2> QED BY <2>1 DEF Linked
<1>2. CASE NoMoreFiles
  BY <1>2 DEF NoMoreFiles, Answer, Linked
<1>3. CASE BufferOverflow
  BY <1>3 DEF BufferOverflow, Answer, Linked
<1>4. CASE Fits
  BY <1>4, StartLinked
<1>5. CASE CopyFront
  BY <1>5, CopyLinked
<1>6. CASE Finish
  BY <1>6, FinishLinked
<1>7. CASE \E c \in Capacities, o \in Offsets, a, s \in Names : Query(c, o, a, s)
  BY <1>7 DEF Query, Linked
<1>8. CASE KeepName
  BY <1>8 DEF KeepName, BInv, Placed, Linked
<1>9. CASE ReplaceName
  BY <1>9 DEF ReplaceName, Answer, BInv, Placed, Linked
<1>10. CASE UNCHANGED vars
  BY <1>10 DEF vars, Linked, Room, SizeOfFront
<1> QED BY <1>1, <1>2, <1>3, <1>4, <1>5, <1>6, <1>7, <1>8, <1>9, <1>10 DEF Next

\* The names of a listing that succeeded stand in a chain in the buffer.
THEOREM ListingsAreLinked == Spec => []Linked
<1>1. Init => Linked
  BY DEF Init, NoReply, Linked
<1> QED BY <1>1, NextLinked, Invariance, PTL DEF Spec

\* Whatever sizes the buffers have, however many entries are asked for and
\* whatever the system had put into the structures: an application that follows
\* the offsets finds the names of its call, all of them and in their order.
THEOREM NamesAreFoundByOffsets ==
  ASSUME \A n \in Names : Length(n) # 0
  PROVE  Spec => []FoundByOffsets
<1>1. BInv /\ Linked => FoundByOffsets
  <2> SUFFICES ASSUME BInv, Linked, pc = "idle", reply.status = "success", max # 0
               PROVE  Walk(reply.information) = written /\ written # <<>>
    BY DEF FoundByOffsets
  <2>1. written \in Seq(Names) /\ used \in Nat
    BY DEF BInv, TypeOK
  <2>2. PICK starts : Chain(buffer, starts, written, used, TRUE)
    BY DEF Linked
  <2>3. written # <<>> /\ reply.information = used
    BY DEF Linked
  <2>4. Walk(used) = written
    BY <2>1, <2>2, <2>3, WalkFinds
  <2> QED BY <2>3, <2>4
<1> QED BY <1>1, Invariance, ListingsAreLinked, PTL
=============================================================================
