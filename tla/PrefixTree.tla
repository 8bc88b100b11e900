----------------------------- MODULE PrefixTree -----------------------------
(***************************************************************************)
(* PrefixTree.h as it lies in memory: nodes with a datum, a pointer to     *)
(* their parent, the key of the edge to it, and a map from keys to         *)
(* children that owns them.  A call runs its loops one token or one node   *)
(* at a time; nothing else touches the tree while it runs.  The builder    *)
(* fills a tree and hands it to the director by a move, after which only   *)
(* the operations in AfterMove are called.                                 *)
(*                                                                         *)
(* Nodes of an unordered_map stay where they are until they are erased, so *)
(* an address stands for a node from its creation to its end.              *)
(***************************************************************************)
EXTENDS Prefixes

CONSTANTS
  Addresses,  \* where nodes can be, enough for every node the strings ask for
  NoNode,     \* a null pointer
  NoData,     \* an empty std::optional
  AfterMove   \* the operations that the owner of a moved tree calls

ASSUME AddressesAssumption == Addresses # {} /\ NoNode \notin Addresses

ASSUME NoDataAssumption == NoData \notin Data

ASSUME AfterMoveAssumption == AfterMove \subseteq Operations

VARIABLES
  live,    \* the nodes that exist
  data, parent, key, child,  \* the fields of each node
  root,    \* the node inside the tree object
  moved,   \* the tree object was constructed from another one
  call, phase, at, pos, best,  \* the call that runs, and its local variables
  answer,  \* what the last call returned
  path     \* history: the path from the root by which a node was created

nodes == <<live, data, parent, key, child, root, moved, path>>
locals == <<call, phase, at, pos, best>>
vars == <<nodes, locals, answer>>

Pointer == Addresses \cup {NoNode}
Childless == [k \in Components |-> NoNode]

HasData(n) == data[n] # NoData
HasChildren(n) == \E k \in Components : child[n][k] # NoNode
HasParent(n) == parent[n] # NoNode

Free == Addresses \ live
Fresh == CHOOSE n \in Free : TRUE

Init ==
  /\ root = CHOOSE n \in Addresses : TRUE
  /\ live = {root} /\ moved = FALSE
  /\ data = [n \in Addresses |-> NoData]
  /\ parent = [n \in Addresses |-> NoNode]
  /\ key = [n \in Addresses |-> Empty]
  /\ child = [n \in Addresses |-> Childless]
  /\ path = [n \in Addresses |-> <<>>]
  /\ call = NoCall /\ phase = "idle" /\ at = NoNode /\ pos = 0 /\ best = NoNode
  /\ answer = Answer(NoNode, FALSE)

-----------------------------------------------------------------------------
Begin(op, s, d) ==
  /\ phase = "idle"
  /\ moved => op \in AfterMove
  /\ call' = Call(op, s, d) /\ phase' = "walk"
  /\ at' = root /\ pos' = 0 /\ best' = NoNode
  /\ answer' = Answer(NoNode, FALSE)
  /\ UNCHANGED nodes

Return(n, b) ==
  /\ call' = NoCall /\ phase' = "idle" /\ at' = NoNode /\ pos' = 0 /\ best' = NoNode
  /\ answer' = Answer(n, b)

\* The defaulted move constructor: the new root takes the datum and the map of
\* children; a moved-from optional keeps its value.  The old object ends with
\* its builder.
Move ==
  /\ phase = "idle" /\ ~moved /\ Free # {}
  /\ moved' = TRUE /\ root' = Fresh
  /\ live' = (live \ {root}) \cup {Fresh}
  /\ data' = [data EXCEPT ![Fresh] = data[root]]
  /\ parent' = [parent EXCEPT ![Fresh] = parent[root]]
  /\ key' = [key EXCEPT ![Fresh] = key[root]]
  /\ child' = [child EXCEPT ![Fresh] = child[root], ![root] = Childless]
  /\ path' = [path EXCEPT ![Fresh] = path[root]]
  /\ answer' = Answer(NoNode, FALSE)
  /\ UNCHANGED locals

-----------------------------------------------------------------------------
(* The loops over the tokens of the argument. *)

Creates == call.op \in {"insert", "update"}
AtEnd == phase = "walk" /\ pos = Len(call.string)
Token == call.string[pos + 1]
AtToken == phase = "walk" /\ pos < Len(call.string) /\ Token # Empty

FindChild(n, k) == child[n][k]

\* Mutation of SkipEmptyToken: the loop continues without the next token.
SkipInPlace ==
  /\ phase = "walk" /\ pos < Len(call.string) /\ Token = Empty
  /\ pos' = pos
  /\ UNCHANGED <<nodes, call, phase, at, best, answer>>

SkipEmptyToken ==
  /\ phase = "walk" /\ pos < Len(call.string) /\ Token = Empty
  /\ pos' = pos + 1
  /\ UNCHANGED <<nodes, call, phase, at, best, answer>>

Descend ==
  /\ AtToken /\ FindChild(at, Token) # NoNode
  /\ at' = FindChild(at, Token) /\ pos' = pos + 1
  /\ best' = IF call.op = "match" /\ HasData(at) THEN at ELSE best
  /\ UNCHANGED <<nodes, call, phase, answer>>

EmplaceChild ==
  /\ AtToken /\ Creates /\ FindChild(at, Token) = NoNode
  /\ Free # {}
  /\ live' = live \cup {Fresh}
  /\ data' = [data EXCEPT ![Fresh] = NoData]
  /\ parent' = [parent EXCEPT ![Fresh] = at]
  /\ key' = [key EXCEPT ![Fresh] = Token]
  /\ child' = [child EXCEPT ![Fresh] = Childless, ![at][Token] = Fresh]
  /\ path' = [path EXCEPT ![Fresh] = Append(path[at], Token)]
  /\ at' = Fresh /\ pos' = pos + 1
  /\ UNCHANGED <<root, moved, call, phase, best, answer>>

NoSuchPath ==
  /\ AtToken /\ call.op \in {"find", "traverse", "erase", "ancestor"}
  /\ FindChild(at, Token) = NoNode
  /\ Return(NoNode, FALSE)
  /\ UNCHANGED nodes

-----------------------------------------------------------------------------
(* What each operation does after its walk. *)

SetData(n, d) == data' = [data EXCEPT ![n] = d]

Insert ==
  /\ AtEnd /\ call.op = "insert"
  /\ \/ HasData(at) /\ UNCHANGED data /\ Return(at, FALSE)
     \/ ~HasData(at) /\ SetData(at, call.datum) /\ Return(at, TRUE)
  /\ UNCHANGED <<live, parent, key, child, root, moved, path>>

Update ==
  /\ AtEnd /\ call.op = "update"
  /\ SetData(at, call.datum)
  /\ Return(at, TRUE)
  /\ UNCHANGED <<live, parent, key, child, root, moved, path>>

TraverseTo ==
  /\ AtEnd /\ call.op = "traverse"
  /\ Return(at, FALSE)
  /\ UNCHANGED nodes

Find ==
  /\ AtEnd /\ call.op = "find"
  /\ Return(IF HasData(at) THEN at ELSE NoNode, FALSE)
  /\ UNCHANGED nodes

\* Mutation of LongestMatchingPrefix: the node at which the walk ends is left out.
MatchAboveEnd ==
  /\ call.op = "match"
  /\ phase = "walk" /\ (pos < Len(call.string) => AtToken /\ FindChild(at, Token) = NoNode)
  /\ Return(best, FALSE)
  /\ UNCHANGED nodes

LongestMatchingPrefix ==
  /\ call.op = "match"
  /\ phase = "walk" /\ (pos < Len(call.string) => AtToken /\ FindChild(at, Token) = NoNode)
  /\ Return(IF HasData(at) THEN at ELSE best, FALSE)
  /\ UNCHANGED nodes

NotContained ==
  /\ AtEnd /\ call.op \in {"erase", "ancestor"} /\ ~HasData(at)
  /\ Return(NoNode, FALSE)
  /\ UNCHANGED nodes

ClearData ==
  /\ AtEnd /\ call.op = "erase" /\ HasData(at)
  /\ SetData(at, NoData)
  /\ phase' = "prune"
  /\ UNCHANGED <<live, parent, key, child, root, moved, path, call, at, pos, best, answer>>

\* Mutation of Prunable: the nodes right below the root stay.
PrunableBelowRoot(n) == ~HasData(n) /\ ~HasChildren(n) /\ HasParent(n) /\ parent[n] # root

Prunable(n) == ~HasData(n) /\ ~HasChildren(n) /\ HasParent(n)

\* The child map of the parent destroys the node that it finds for the key.
EraseChild(n, k) ==
  LET gone == FindChild(n, k)
  IN  IF gone = NoNode
        THEN UNCHANGED nodes
        ELSE /\ live' = live \ {gone}
             /\ data' = [data EXCEPT ![gone] = NoData]
             /\ parent' = [parent EXCEPT ![gone] = NoNode]
             /\ key' = [key EXCEPT ![gone] = Empty]
             /\ child' = [child EXCEPT ![gone] = Childless, ![n][k] = NoNode]
             /\ path' = [path EXCEPT ![gone] = <<>>]
             /\ UNCHANGED <<root, moved>>

\* Mutation of Prune: the loop goes on with the node that was erased.
PruneInPlace ==
  /\ phase = "prune" /\ Prunable(at)
  /\ EraseChild(parent[at], key[at])
  /\ at' = at
  /\ UNCHANGED <<call, phase, pos, best, answer>>

Prune ==
  /\ phase = "prune" /\ Prunable(at)
  /\ EraseChild(parent[at], key[at])
  /\ at' = parent[at]
  /\ UNCHANGED <<call, phase, pos, best, answer>>

Pruned ==
  /\ phase = "prune" /\ ~Prunable(at)
  /\ Return(NoNode, TRUE)
  /\ UNCHANGED nodes

\* A caller finds a node and asks it for its closest ancestor.
AskNode ==
  /\ AtEnd /\ call.op = "ancestor" /\ HasData(at)
  /\ phase' = "climb" /\ at' = parent[at]
  /\ UNCHANGED <<nodes, call, pos, best, answer>>

Climb ==
  /\ phase = "climb" /\ at # NoNode /\ ~HasData(at)
  /\ at' = parent[at]
  /\ UNCHANGED <<nodes, call, phase, pos, best, answer>>

GetClosestAncestor ==
  /\ phase = "climb" /\ (at # NoNode => HasData(at))
  /\ Return(at, FALSE)
  /\ UNCHANGED nodes

-----------------------------------------------------------------------------
Walk == SkipEmptyToken \/ Descend \/ EmplaceChild \/ NoSuchPath

Finish ==
  \/ Insert \/ Update \/ TraverseTo \/ Find \/ LongestMatchingPrefix \/ NotContained
  \/ ClearData \/ Prune \/ Pruned
  \/ AskNode \/ Climb \/ GetClosestAncestor

Step == Walk \/ Finish

Next ==
  \/ \E op \in Operations, s \in Strings, d \in Data : Begin(op, s, d)
  \/ Move
  \/ Step

Spec == Init /\ [][Next]_vars
FairSpec == Spec /\ WF_vars(Step)

-----------------------------------------------------------------------------
(* Properties. *)

TypeOK ==
  /\ live \subseteq Addresses /\ root \in live /\ moved \in BOOLEAN
  /\ data \in [Addresses -> Data \cup {NoData}]
  /\ parent \in [Addresses -> Pointer]
  /\ key \in [Addresses -> Tokens]
  /\ child \in [Addresses -> [Components -> Pointer]]
  /\ path \in [Addresses -> Seq(Components)]
  /\ phase \in {"idle", "walk", "prune", "climb"}
  /\ at \in Pointer /\ pos \in Nat /\ best \in Pointer
  /\ answer \in [node : Pointer, modified : BOOLEAN]
  /\ phase = "idle" => call = NoCall /\ at = NoNode /\ best = NoNode /\ pos = 0
  /\ phase # "idle" =>
       /\ call \in [op : Operations, string : Strings, datum : Data]
       /\ pos <= Len(call.string)

\* No loop of a call reads or changes a node that was erased or belongs to the
\* moved-from object: not Erase after it destroys the node it came from, not
\* GetClosestAncestor when it follows parent pointers after the tree was moved.
VisitsLiveNodes == at \in live \cup {NoNode}

\* HasPathForPrefix is true only if objects exist beneath the prefix: between
\* calls every node but the root leads to a node with data, so Erase leaves no
\* branch behind that an earlier Insert made (PrefixTree.h:341).
BranchesLeadToData ==
  phase = "idle" =>
    \A n \in live \ {root} : \E m \in live : HasData(m) /\ IsPrefix(path[n], path[m])

\* Every call returns, however deep the tree: neither the walk down nor the
\* climb of Erase and GetClosestAncestor goes round.
CallsReturn == (phase # "idle") ~> (phase = "idle")

-----------------------------------------------------------------------------
(* The tree implements a map from paths to data. *)

Entries == {<<path[n], data[n]>> : n \in {m \in live : HasData(m)}}

PathOf(n) == IF n = NoNode THEN NoPath ELSE path[n]

Pending ==
  CASE phase = "idle" -> NoCall
    [] phase = "prune" -> [call EXCEPT !.op = "erased"]
    [] OTHER -> call

Promise ==
  INSTANCE PrefixMap WITH
    entries <- Entries,
    pending <- Pending,
    answer <- Answer(PathOf(answer.node), answer.modified)

\* Insert, Emplace, Update, Erase, Find, Contains, TraverseTo, HasPathForPrefix,
\* LongestMatchingPrefix and GetClosestAncestor change and answer exactly what a
\* map from paths to data would, whatever was inserted and erased before.
ImplementsMap == Promise!Spec
=============================================================================
