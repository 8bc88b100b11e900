-------------------- MODULE MCFilesystemDirectorBuilder ---------------------
(***************************************************************************)
(* Small instances of FilesystemDirectorBuilder: up to three sections, in  *)
(* every order, over a directory a with origins below it, a directory t    *)
(* with targets, and temporary directories in m.                           *)
(***************************************************************************)
EXTENDS FilesystemDirectorBuilder

MCNames == {"a", "b", "c", "t", "m", "1", "2"}

D == <<>>
A == <<"a">>
AB == <<"a", "b">>
ABC == <<"a", "b", "c">>
ABT == <<"a", "b", "t">>
T == <<"t">>
TB == <<"t", "b">>
M == <<"m">>
MB == <<"m", "b">>
MT == <<"m", "t">>

M1 == <<"m", "1">>
M2 == <<"m", "2">>

MCTemporary == {M1, M2}

Listed == <<D, A, AB, ABC, ABT, T, TB, M, MB, MT, M1, M2>>

MCPaths == {Listed[i] : i \in DOMAIN Listed}

MCGeneratedName == [p \in MCPaths |-> 20 + (CHOOSE i \in DOMAIN Listed : Listed[i] = p)]

Rule1(name, origin, target) ==
  [name |-> name, origin |-> origin, target |-> target, patterns |-> {}, mode |-> "Simple"]

\* A deep origin, its parent as an origin, and targets beside, below and in the
\* way of them; a target that is its origin; a section without a valid origin;
\* a name that is used twice; origins at and below the temporary directory.
MCSections ==
  {Rule1(1, ABC, T), Rule1(2, ABC, TB), Rule1(3, AB, TB), Rule1(4, A, T),
   Rule1(5, AB, ABT), Rule1(6, T, T), Rule1(7, ABT, AB), Rule1(8, NoPath, T),
   Rule1(1, ABT, MT), Rule1(9, M, TB), Rule1(11, MB, TB), Rule1(12, ABC, MT),
   Rule1(13, ABC, MB)}

\* A disk with these directories and, where it says so, a file.
Disk(dirs, plain) ==
  [p \in MCPaths |-> IF p \in dirs \cup {D, M} THEN "dir"
                     ELSE IF p \in plain THEN "file" ELSE "none"]

Disks == {Disk({}, {}), Disk({A}, {AB}), Disk({A, AB, T}, {})}

Orders == UNION {[1 .. n -> MCSections] : n \in 0 .. 3}

MCConfigurations == {[sections |-> S, files |-> F] : S \in Orders, F \in Disks}
=============================================================================
