------------------------ MODULE MCApplicationBuffers ------------------------
(***************************************************************************)
(* A small instance of ApplicationBuffers with the layouts of              *)
(* SFileNamesInformation and SFileNameInformation.  A name of one          *)
(* character ends within the fixed part, one of three before a multiple of *)
(* the padding; buffers end before, within and behind every name.          *)
(***************************************************************************)
EXTENDS ApplicationBuffers

CONSTANTS n1, n3, n7

MCNames == {n1, n3, n7}

MCLength(n) == CASE n = n1 -> 1 [] n = n3 -> 3 [] n = n7 -> 7

MCDirectory == [base |-> 16, next |-> 0, length |-> 8, name |-> 12]

\* An offset of no next entry is not used.
MCSingle == [base |-> 8, next |-> 0, length |-> 0, name |-> 4]

\* FileNameInformation begins with the structure, FileAllInformation ends with it.
MCOffsets == {0, 8}

MCCapacities == {8, 9, 15, 16, 17, 21, 26, 33, 34, 60}

MCAddresses == 0 .. 71

MCContents == {<<n1>>, <<n7>>, <<n1, n3, n7>>, <<n3, n7, n1, n1>>}
=============================================================================
