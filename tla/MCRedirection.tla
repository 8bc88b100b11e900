---------------------------- MODULE MCRedirection ----------------------------
(***************************************************************************)
(* Small instances of Redirection: rules with origins a\o and a\o\x and    *)
(* targets t and u, one level of directories below each.                   *)
(***************************************************************************)
EXTENDS Redirection

MCNames == {"a", "o", "x", "y", "t", "u"}

D == <<>>
A == <<"a">>
O == <<"a", "o">>
OX == O \o <<"x">>
OY == O \o <<"y">>
OXY == OX \o <<"y">>
T == <<"t">>
TX == T \o <<"x">>
TY == T \o <<"y">>
TXY == TX \o <<"y">>
U == <<"u">>
UX == U \o <<"x">>
UY == U \o <<"y">>
UXY == UX \o <<"y">>
UXX == UX \o <<"x">>
UXXY == UXX \o <<"y">>

MCPaths == {D, A, O, OX, OY, OXY, T, TX, TY, TXY, U, UX, UY, UXY, UXX, UXXY}

\* The files with these directories and files and nothing else.
Holding(dirs, plain) ==
  [p \in MCPaths |-> IF p \in dirs \cup {D, A} THEN "dir"
                     ELSE IF p \in plain THEN "file" ELSE "none"]

NewRule(name, origin, target, patterns, mode) ==
  [name |-> name, origin |-> origin, target |-> target, patterns |-> patterns, mode |-> mode]

Configuration(R, F) == [rules |-> R, files |-> F]

Ask1(op, as, path) == [op |-> op, as |-> as, root |-> FALSE, path |-> path]
AskBelow(op, as, path) == [op |-> op, as |-> as, root |-> TRUE, path |-> path]

-----------------------------------------------------------------------------
(* Simple mode: a rule with a pattern and a target to create; the same with  *)
(* files on both sides; an illusionary origin directory; nested origins; two *)
(* rules with one origin.                                                    *)

PatternX == {{"x"}}

Simple(name, origin, target, patterns) == NewRule(name, origin, target, patterns, "Simple")

SimpleConfigurations ==
  {Configuration({Simple(1, O, UX, PatternX)}, Holding({O}, {OY})),
   Configuration({Simple(1, O, T, PatternX)}, Holding({O, T}, {TX, TY, OX})),
   Configuration({Simple(1, O, T, {})}, Holding({T, TX}, {TXY})),
   Configuration({Simple(1, O, T, {}), Simple(2, OX, UX, {})}, Holding({O, U, UX}, {UXY})),
   Configuration({Simple(1, O, T, PatternX), Simple(2, O, U, {})}, Holding({O, T, U}, {UX, UY}))}

SimpleRequests ==
  {Ask1("OPEN", "dir", A), Ask1("OPEN", "dir", O), Ask1("OPEN_IF", "dir", OX),
   Ask1("CREATE", "file", OX), Ask1("OPEN_IF", "file", OXY), Ask1("SUPERSEDE", "file", OY),
   Ask1("QUERY", "file", OXY), AskBelow("QUERY", "file", <<"x", "y">>),
   AskBelow("OPEN", "dir", <<"o">>), AskBelow("OPEN", "file", <<"x">>),
   AskBelow("CREATE", "file", <<"y">>), Ask1("RENAME", "file", OXY),
   Ask1("RENAME", "file", OY), AskBelow("RENAME", "file", <<"x">>)}

MCRoots == {A, O, OX}

-----------------------------------------------------------------------------
(* Overlay mode: one rule over directories on both sides; a rule over names   *)
(* that match its pattern beside one that takes the rest.  The application    *)
(* leaves out CREATE, opens directories without creating them, and takes no   *)
(* root that was redirected.                                                  *)

Overlay(name, origin, target, patterns) == NewRule(name, origin, target, patterns, "Overlay")

OverlayConfigurations ==
  {Configuration({Overlay(1, O, T, {})}, Holding({O}, {OX})),
   Configuration({Overlay(1, O, T, {})}, Holding({O, OX, T}, {OXY, TY})),
   Configuration({Overlay(1, O, UX, PatternX)}, Holding({O, OX}, {OY, OXY})),
   Configuration({Overlay(1, O, T, PatternX), Simple(2, O, U, {})},
                 Holding({O, T, U, UX}, {OX, OY, UY})),
   Configuration({Overlay(1, O, T, {}), Overlay(2, OX, UX, {})},
                 Holding({O, U, UX}, {OY, UXY}))}

\* A file where a directory would have to be created.
Obstructed == {Configuration({Overlay(1, O, UX, PatternX)}, Holding({O, OX}, {U, OXY}))}

\* An origin directory with its target right below the drive: a request that may
\* create it is refused.
TargetOnDrive ==
  {Configuration({Overlay(1, O, T, {}), Overlay(2, OX, U, {})}, Holding({O, U}, {OY, UY}))}

RaceConfigurations == OverlayConfigurations \cup Obstructed \cup TargetOnDrive

OverlayRequests ==
  {Ask1("OPEN", "dir", A), Ask1("OPEN", "dir", O), Ask1("OPEN", "dir", OX),
   Ask1("OPEN", "file", OX), Ask1("OPEN_IF", "file", OXY), Ask1("OVERWRITE_IF", "file", OY),
   Ask1("SUPERSEDE", "file", OX), Ask1("SUPERSEDE", "file", OXY), Ask1("QUERY", "file", OXY),
   AskBelow("OPEN_IF", "file", <<"o", "y">>), AskBelow("SUPERSEDE", "file", <<"o", "x">>)}

AboveOrigins == {A}

-----------------------------------------------------------------------------
(* One configuration and two or three requests for each disagreement with     *)
(* what the source says.                                                      *)

\* A file that exists on the origin side only, under an overlay.
OriginOnly == {Configuration({Overlay(1, O, T, {})}, Holding({O, T}, {OX}))}
CreateRequests == {Ask1("CREATE", "file", OX)}
BelowRedirected == {Ask1("OPEN", "dir", O), AskBelow("OPEN", "file", <<"x">>)}

\* A file that exists nowhere, asked for by two threads.
Nowhere == {Configuration({Overlay(1, O, T, {})}, Holding({O, T}, {}))}
OpenIfRequests == {Ask1("OPEN_IF", "file", OX)}

\* A directory of the origin side in the scope of an overlay.
OriginDirectory == {Configuration({Overlay(1, O, T, {})}, Holding({O, OX, T}, {}))}
DeleteRequests == {Ask1("OPEN", "dir", OX), Ask1("OPEN_IF", "file", OXY)}
DirectoryRequests == {Ask1("OPEN_IF", "dir", OX), Ask1("OPEN_IF", "file", OXY)}

\* The same under a rule in simple mode.
Hidden == {Configuration({Simple(1, O, T, {})}, Holding({O, OX, T}, {}))}
HiddenRequests == {Ask1("OPEN", "dir", O)}

\* An origin directory that exists, with its target right below the drive.
OriginOnDrive == {Configuration({Simple(1, O, T, {})}, Holding({O, T}, {}))}
OriginRequests == {Ask1("OPEN_IF", "dir", O)}

\* A request relative to the drive.
DriveRequests == {Ask1("OPEN", "dir", D), AskBelow("OPEN", "file", OX)}
DriveRoot == {D}
DriveFiles == {Configuration({Simple(1, O, T, {})}, Holding({O, T}, {OX, TX}))}

\* Two rules with one origin directory that does not exist, nor the first target.
FirstMissing ==
  {Configuration({Simple(1, O, T, PatternX), Simple(2, O, U, {})}, Holding({U}, {UX}))}
AboveRequests == {Ask1("OPEN", "dir", A), Ask1("OPEN", "dir", O)}
=============================================================================
