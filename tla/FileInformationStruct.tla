------------------------ MODULE FileInformationStruct ------------------------
(***************************************************************************)
(* The structures that the system and the executor lay out in a buffer: a  *)
(* fixed part with, at offsets that differ from class to class, the        *)
(* distance to the next structure and the length of a file name, and at    *)
(* the end the name itself, which runs beyond the fixed part or falls      *)
(* short of it.  FileInformationStruct.h computes every place in a buffer  *)
(* from these four numbers.                                                *)
(*                                                                         *)
(* A buffer is a function from addresses to bytes.  A byte is a part of    *)
(* what was stored: the pair of that value and the byte's place in it.     *)
(***************************************************************************)
EXTENDS Naturals

CONSTANTS
  Names,       \* file names
  Length(_),   \* the number of characters of a name
  Other        \* the contents of a field that nobody here looks at

CharSize == 2  \* sizeof(TFileNameChar)
WordSize == 4  \* sizeof(TNextEntryOffset), sizeof(TFileNameLength)

Layout == [base : Nat, next : Nat, length : Nat, name : Nat]

\* The fields lie one behind the other, and the fixed part includes one
\* character of the name.
SoundLayout(l) ==
  /\ l \in Layout
  /\ l.length + WordSize <= l.name
  /\ l.name + CharSize <= l.base

ASSUME NamesAssumption == \A n \in Names : Length(n) \in Nat

Lesser(a, b) == IF a <= b THEN a ELSE b
Greater(a, b) == IF a <= b THEN b ELSE a

NameBytes(n) == CharSize * Length(n)

\* The fixed part counts in full even if a short name ends within it.
HypotheticalSizeForFileNameLength(l, bytes) == Greater(l.base, l.name + bytes)

HypotheticalSizeForFileName(l, n) == HypotheticalSizeForFileNameLength(l, NameBytes(n))

-----------------------------------------------------------------------------
(* Reading and writing. *)

Blank == <<Other, 0>>

Store(buffer, p, value, bytes) ==
  [a \in DOMAIN buffer |-> IF p <= a /\ a < p + bytes THEN <<value, a - p>> ELSE buffer[a]]

StoreWord(buffer, p, value) == Store(buffer, p, value, WordSize)

\* What was stored at p, if nothing has written over a part of it.
Load(buffer, p, bytes) ==
  LET value == buffer[p][1]
  IN  IF \A i \in 0 .. bytes - 1 : buffer[p + i] = <<value, i>> THEN value ELSE Other

ReadNextEntryOffset(l, buffer, p) == Load(buffer, p + l.next, WordSize)
ReadFileNameLength(l, buffer, p) == Load(buffer, p + l.length, WordSize)

ClearNextEntryOffset(l, buffer, p) == StoreWord(buffer, p + l.next, 0)

\* Padding that the system has put between structures is given up.
UpdateNextEntryOffset(l, buffer, p) ==
  StoreWord(buffer, p + l.next,
            HypotheticalSizeForFileNameLength(l, ReadFileNameLength(l, buffer, p)))

WriteFileNameLength(l, buffer, p, bytes) ==
  UpdateNextEntryOffset(l, StoreWord(buffer, p + l.length, bytes), p)

\* Mutation of WriteFileNameInternal: the whole name, whatever the capacity.
WriteWholeName(l, buffer, p, n, capacity) ==
  StoreWord(Store(buffer, p + l.name, n, NameBytes(n)), p + l.length, NameBytes(n))

\* Whole characters of the name, as many as a structure of this capacity holds.
WriteFileNameInternal(l, buffer, p, n, capacity) ==
  LET chars == Lesser((capacity - l.name) \div CharSize, Length(n))
  IN  StoreWord(Store(buffer, p + l.name, n, CharSize * chars),
                p + l.length, CharSize * chars)

\* One byte of a structure for the name n, with the system's distance to the next.
ImageByte(l, n, next, i) ==
  CASE l.next <= i /\ i < l.next + WordSize -> <<next, i - l.next>>
    [] l.length <= i /\ i < l.length + WordSize -> <<NameBytes(n), i - l.length>>
    [] l.name <= i /\ i < l.name + NameBytes(n) -> <<n, i - l.name>>
    [] OTHER -> Blank

\* memcpy of the first bytes of that structure.
CopyImage(l, buffer, p, n, next, bytes) ==
  [a \in DOMAIN buffer |->
     IF p <= a /\ a < p + bytes THEN ImageByte(l, n, next, a - p) ELSE buffer[a]]
=============================================================================
