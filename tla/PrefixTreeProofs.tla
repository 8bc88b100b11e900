-------------------------- MODULE PrefixTreeProofs --------------------------
(***************************************************************************)
(* Proofs about PrefixTree, for any components, strings, data and          *)
(* addresses: the nodes form a tree whose paths are distinct, no call      *)
(* touches a node that is gone, no branch is left behind, and the tree     *)
(* answers as the map of PrefixMap.  They need that the owner of a moved   *)
(* tree calls nothing that follows parent pointers.                        *)
(***************************************************************************)
EXTENDS PrefixTree, SequenceTheorems, TLAPS

\* The operations that follow no parent pointer.
ParentFree == Operations \ {"erase", "ancestor"}

Path == Seq(Components)

-----------------------------------------------------------------------------
(* Prefixes of sequences. *)

\* IsPrefix as the equality of the first elements.
LEMMA PrefixElements ==
  ASSUME NEW S, NEW p \in Seq(S), NEW q \in Seq(S)
  PROVE  IsPrefix(p, q) <=> Len(p) <= Len(q) /\ \A i \in 1..Len(p) : p[i] = q[i]
<1>1. CASE Len(p) <= Len(q)
  <2>1. /\ SubSeq(p, 1, Len(p)) \in Seq(S) /\ Len(SubSeq(p, 1, Len(p))) = Len(p)
        /\ SubSeq(q, 1, Len(p)) \in Seq(S) /\ Len(SubSeq(q, 1, Len(p))) = Len(p)
        /\ \A i \in 1..Len(p) : /\ SubSeq(p, 1, Len(p))[i] = p[i]
                                /\ SubSeq(q, 1, Len(p))[i] = q[i]
    BY <1>1
  <2>2. SubSeq(p, 1, Len(p)) = SubSeq(q, 1, Len(p)) <=> \A i \in 1..Len(p) : p[i] = q[i]
    BY <2>1, SeqEqual
  <2> QED BY <1>1, <2>2 DEF IsPrefix
<1>2. CASE ~(Len(p) <= Len(q))
  BY <1>2 DEF IsPrefix
<1> QED BY <1>1, <1>2

LEMMA PrefixReflexive ==
  ASSUME NEW S, NEW p \in Seq(S)
  PROVE  IsPrefix(p, p)
BY PrefixElements

LEMMA PrefixTransitive ==
  ASSUME NEW S, NEW p \in Seq(S), NEW q \in Seq(S), NEW r \in Seq(S),
         IsPrefix(p, q), IsPrefix(q, r)
  PROVE  IsPrefix(p, r)
BY PrefixElements

LEMMA PrefixSameLength ==
  ASSUME NEW S, NEW p \in Seq(S), NEW q \in Seq(S), IsPrefix(p, q), Len(p) = Len(q)
  PROVE  p = q
<1>1. \A i \in 1..Len(p) : p[i] = q[i]
  BY PrefixElements
<1> QED BY <1>1, SeqEqual

\* Two prefixes of one path are prefixes of each other.
LEMMA PrefixComparable ==
  ASSUME NEW S, NEW p \in Seq(S), NEW q \in Seq(S), NEW r \in Seq(S),
         IsPrefix(p, r), IsPrefix(q, r), Len(p) <= Len(q)
  PROVE  IsPrefix(p, q)
BY PrefixElements

LEMMA PrefixAppend ==
  ASSUME NEW S, NEW p \in Seq(S), NEW q \in Seq(S), NEW k \in S
  PROVE  /\ Append(q, k) \in Seq(S)
         /\ IsPrefix(q, Append(q, k))
         /\ IsPrefix(p, Append(q, k)) <=> IsPrefix(p, q) \/ p = Append(q, k)
         /\ ~IsPrefix(Append(q, k), q)
<1>1. Append(q, k) \in Seq(S)
  OBVIOUS
<1> SUFFICES ASSUME NEW r \in Seq(S), r = Append(q, k)
             PROVE  /\ IsPrefix(q, r) /\ ~IsPrefix(r, q)
                    /\ IsPrefix(p, r) <=> IsPrefix(p, q) \/ p = r
  BY <1>1
<1>2. Len(r) = Len(q) + 1 /\ \A i \in 1..Len(q) : q[i] = r[i]
  OBVIOUS
<1>3. IsPrefix(q, r) /\ ~IsPrefix(r, q)
  <2>1. Len(q) <= Len(r) /\ \A i \in 1..Len(q) : q[i] = r[i]
    BY <1>2
  <2>2. ~(Len(r) <= Len(q))
    BY <1>2
  <2> QED BY <2>1, <2>2, PrefixElements, Zenon
<1>4. ASSUME IsPrefix(p, r), p # r
      PROVE  IsPrefix(p, q)
  <2>1. Len(p) # Len(q) + 1
    BY <1>2, <1>4, PrefixSameLength
  <2>2. Len(p) <= Len(r)
    BY <1>4, PrefixElements, Zenon
  <2>3. Len(p) <= Len(q)
    BY <1>2, <2>1, <2>2
  <2> QED BY <1>3, <1>4, <2>3, PrefixComparable
<1>5. ASSUME IsPrefix(p, q)
      PROVE  IsPrefix(p, r)
  BY <1>3, <1>5, PrefixTransitive
<1>6. IsPrefix(r, r)
  BY PrefixReflexive
<1> QED BY <1>3, <1>4, <1>5, <1>6

LEMMA SameAppend ==
  ASSUME NEW p \in Path, NEW q \in Path, NEW j \in Components, NEW k \in Components,
         Append(p, j) = Append(q, k)
  PROVE  p = q /\ j = k
<1>1. Append(p, j) = Append(q, k) <=> p = q /\ j = k
  BY AppendInjective DEF Path
<1> QED BY <1>1

LEMMA PrefixOfNothing ==
  ASSUME NEW S, NEW p \in Seq(S), IsPrefix(p, <<>>)
  PROVE  p = <<>>
BY DEF IsPrefix

LEMMA PrefixCut ==
  ASSUME NEW S, NEW q \in Seq(S), NEW i \in 0..Len(q)
  PROVE  /\ SubSeq(q, 1, i) \in Seq(S) /\ Len(SubSeq(q, 1, i)) = i
         /\ IsPrefix(SubSeq(q, 1, i), q)
<1>1. SubSeq(q, 1, i) \in Seq(S)
  OBVIOUS
<1> SUFFICES ASSUME NEW p \in Seq(S), p = SubSeq(q, 1, i)
             PROVE  Len(p) = i /\ IsPrefix(p, q)
  BY <1>1
<1>2. Len(p) = i /\ Len(p) <= Len(q) /\ \A j \in 1..Len(p) : p[j] = q[j]
  OBVIOUS
<1> QED BY <1>2, PrefixElements, Zenon

LEMMA PrefixIsCut ==
  ASSUME NEW S, NEW p \in Seq(S), NEW q \in Seq(S), IsPrefix(p, q)
  PROVE  Len(p) \in 0..Len(q) /\ p = SubSeq(q, 1, Len(p))
<1>1. Len(p) \in 0..Len(q)
  BY DEF IsPrefix
<1>2. /\ SubSeq(q, 1, Len(p)) \in Seq(S) /\ Len(SubSeq(q, 1, Len(p))) = Len(p)
      /\ IsPrefix(SubSeq(q, 1, Len(p)), q)
  BY <1>1, PrefixCut
<1>3. ASSUME NEW r \in Seq(S), r = SubSeq(q, 1, Len(p))
      PROVE  p = r
  <2>1. Len(r) = Len(p) /\ IsPrefix(r, q)
    BY <1>2, <1>3
  <2>2. IsPrefix(p, r)
    BY <2>1, PrefixComparable
  <2> QED BY <2>1, <2>2, PrefixSameLength
<1> QED BY <1>1, <1>2, <1>3

\* The longest of some prefixes of one path is the one none exceeds.
LEMMA LongestIs ==
  ASSUME NEW S, NEW r \in Seq(S), NEW ps \in SUBSET Seq(S), NEW p \in ps,
         \A q \in ps : IsPrefix(q, r) /\ Len(q) <= Len(p)
  PROVE  Longest(ps) = p
<1>1. PICK m \in ps : m = Longest(ps) /\ \A q \in ps : Len(q) <= Len(m)
  BY DEF Longest
<1>2. Len(m) = Len(p) /\ m \in Seq(S) /\ p \in Seq(S)
  BY <1>1
<1>3. IsPrefix(m, p)
  BY <1>2, PrefixComparable
<1> QED BY <1>1, <1>2, <1>3, PrefixSameLength
-----------------------------------------------------------------------------
(* The inductive invariant. *)

DataPath(p) == \E m \in live : HasData(m) /\ path[m] = p

\* Nodes reach each other along their paths.
RootShape == path[root] = <<>>

Unique == \A n, m \in live : path[n] = path[m] => n = m

ChildShape ==
  \A n \in live, k \in Components :
    FindChild(n, k) # NoNode =>
      FindChild(n, k) \in live /\ path[FindChild(n, k)] = Append(path[n], k)

Owned == \A m \in live \ {root} : \E n \in live, k \in Components : FindChild(n, k) = m

Closed == \A m \in live : \A i \in 0..Len(path[m]) : \E n \in live : path[n] = SubSeq(path[m], 1, i)

\* Parent pointers are right until the tree is moved.
ParentShape ==
  ~moved =>
    /\ parent[root] = NoNode
    /\ \A m \in live \ {root} :
         parent[m] \in live /\ key[m] \in Components /\ FindChild(parent[m], key[m]) = m

Shape == RootShape /\ Unique /\ ChildShape /\ Owned /\ Closed /\ ParentShape

\* A node without data below it is on the way of the call that runs.
OnTheWay(n) ==
  /\ phase = "prune" \/ (phase = "walk" /\ Creates)
  /\ at \in live /\ IsPrefix(path[n], path[at])

LeadsToData(n) == \E m \in live : HasData(m) /\ IsPrefix(path[n], path[m])

Branches == \A n \in live \ {root} : LeadsToData(n) \/ OnTheWay(n)

\* n is the closest node with data among the proper prefixes of p, if any has.
ClosestAbove(n, p) ==
  \/ n = NoNode /\ \A m \in live : HasData(m) => ~IsStrictPrefix(path[m], p)
  \/ /\ n \in live /\ HasData(n) /\ IsStrictPrefix(path[n], p)
     /\ \A m \in live : HasData(m) /\ IsStrictPrefix(path[m], p) => Len(path[m]) <= Len(path[n])

Argument == Canonical(call.string)

WalkInv ==
  phase = "walk" =>
    /\ at \in live /\ path[at] = Canonical(SubSeq(call.string, 1, pos))
    /\ call.op = "match" => ClosestAbove(best, path[at])

PruneInv == phase = "prune" => at \in live /\ call.op = "erase"

\* All that is above the argument and has data is at or above the node reached.
ClimbInv ==
  phase = "climb" =>
    /\ call.op = "ancestor" /\ DataPath(Argument)
    /\ at # NoNode => at \in live /\ IsStrictPrefix(path[at], Argument)
    /\ \A m \in live : HasData(m) /\ IsStrictPrefix(path[m], Argument) =>
         at # NoNode /\ IsPrefix(path[m], path[at])

CallInv ==
  phase # "idle" =>
    /\ moved => call.op \in AfterMove
    /\ answer.node = NoNode /\ answer.modified = FALSE

Locals == WalkInv /\ PruneInv /\ ClimbInv /\ CallInv

TInv == TypeOK /\ Shape /\ Branches /\ Locals
-----------------------------------------------------------------------------
(* Types. *)

LEMMA FreshIsFree ==
  ASSUME Free # {}
  PROVE  Fresh \in Addresses /\ Fresh \notin live
BY DEF Fresh, Free

\* The token at a position and the path up to it.
LEMMA TokenAt ==
  ASSUME TypeOK, phase = "walk", pos < Len(call.string)
  PROVE  /\ call.string \in Strings /\ call.string \in Seq(Tokens)
         /\ pos + 1 \in 1..Len(call.string) /\ Token \in Tokens
         /\ Canonical(SubSeq(call.string, 1, pos + 1)) =
              IF Token = Empty THEN Canonical(SubSeq(call.string, 1, pos))
              ELSE Append(Canonical(SubSeq(call.string, 1, pos)), Token)
<1>1. call.string \in Strings /\ pos \in Nat
  BY DEF TypeOK
<1>2. call.string \in Seq(Tokens)
  BY <1>1, StringsAssumption
<1>3. pos + 1 \in 1..Len(call.string) /\ pos + 1 - 1 = pos
  BY <1>1, <1>2
<1>4. Token \in Tokens
  BY <1>2, <1>3 DEF Token
<1>5. Canonical(SubSeq(call.string, 1, pos + 1)) =
        IF call.string[pos + 1] = Empty THEN Canonical(SubSeq(call.string, 1, pos + 1 - 1))
        ELSE Append(Canonical(SubSeq(call.string, 1, pos + 1 - 1)), call.string[pos + 1])
  BY <1>1, <1>3, CanonicalAssumption
<1> QED BY <1>1, <1>2, <1>3, <1>4, <1>5 DEF Token

LEMMA TokenIsComponent ==
  ASSUME TypeOK, AtToken
  PROVE  Token \in Components
BY TokenAt DEF AtToken, Tokens

LEMMA TypeInit == Init => TypeOK
<1> SUFFICES ASSUME Init PROVE TypeOK
  OBVIOUS
<1>1. root \in Addresses
  BY AddressesAssumption DEF Init
<1>2. /\ data \in [Addresses -> Data \cup {NoData}]
      /\ parent \in [Addresses -> Pointer]
      /\ key \in [Addresses -> Tokens]
      /\ path \in [Addresses -> Seq(Components)]
  BY DEF Init, Pointer, Tokens
<1>3. child \in [Addresses -> [Components -> Pointer]]
  BY DEF Init, Pointer, Childless
<1>4. answer \in [node : Pointer, modified : BOOLEAN]
  BY DEF Init, Pointer, Answer
<1>5. phase = "idle" /\ call = NoCall /\ at = NoNode /\ pos = 0 /\ best = NoNode
      /\ live = {root} /\ moved = FALSE
  BY DEF Init
<1> QED BY <1>1, <1>2, <1>3, <1>4, <1>5 DEF TypeOK, Pointer

\* A call that returns leaves the locals as they are between calls.
LEMMA TypeReturn ==
  ASSUME TypeOK, NEW n \in Pointer, NEW b \in BOOLEAN, Return(n, b), UNCHANGED nodes
  PROVE  TypeOK'
BY DEF TypeOK, Return, nodes, Answer, NoCall, Pointer

LEMMA TypeSetData ==
  ASSUME TypeOK, NEW n \in Addresses, NEW d \in Data \cup {NoData}, SetData(n, d),
         UNCHANGED <<live, parent, key, child, root, moved, path>>,
         \/ UNCHANGED locals /\ UNCHANGED answer
         \/ Return(n, TRUE)
         \/ phase' = "prune" /\ phase # "idle" /\ UNCHANGED <<call, at, pos, best, answer>>
  PROVE  TypeOK'
<1>1. data' \in [Addresses -> Data \cup {NoData}]
  BY DEF TypeOK, SetData
<1>2. CASE UNCHANGED locals /\ UNCHANGED answer
  BY <1>1, <1>2 DEF TypeOK, locals
<1>3. CASE Return(n, TRUE)
  BY <1>1, <1>3 DEF TypeOK, Return, Answer, NoCall, Pointer
<1>4. CASE phase' = "prune" /\ phase # "idle" /\ UNCHANGED <<call, at, pos, best, answer>>
  BY <1>1, <1>4 DEF TypeOK
<1> QED BY <1>2, <1>3, <1>4

\* The node that Erase prunes is the child its parent finds for its key.
LEMMA Pruning ==
  ASSUME TypeOK, ParentShape, PruneInv, CallInv, AfterMove \subseteq ParentFree, Prune
  PROVE  /\ ~moved /\ at \in live \ {root} /\ parent[at] \in live /\ parent[at] # at
         /\ key[at] \in Components /\ FindChild(parent[at], key[at]) = at
         /\ ~HasChildren(at) /\ ~HasData(at)
         /\ live' = live \ {at}
         /\ data' = [data EXCEPT ![at] = NoData]
         /\ parent' = [parent EXCEPT ![at] = NoNode]
         /\ key' = [key EXCEPT ![at] = Empty]
         /\ child' = [child EXCEPT ![at] = Childless, ![parent[at]][key[at]] = NoNode]
         /\ path' = [path EXCEPT ![at] = <<>>]
         /\ root' = root /\ moved' = moved
<1>1. at \in live /\ call.op = "erase" /\ phase = "prune" /\ Prunable(at)
  BY DEF Prune, PruneInv
<1>2. ~moved
  BY <1>1 DEF CallInv, ParentFree
<1>3. at # root
  BY <1>1, <1>2 DEF ParentShape, Prunable, HasParent
<1>4. parent[at] \in live /\ key[at] \in Components /\ FindChild(parent[at], key[at]) = at
  BY <1>1, <1>2, <1>3 DEF ParentShape
<1>5. at # NoNode
  BY <1>1, AddressesAssumption DEF TypeOK
<1>6. ~HasChildren(at) /\ ~HasData(at)
  BY <1>1 DEF Prunable
<1>7. parent[at] # at
  BY <1>4, <1>5, <1>6 DEF HasChildren, FindChild
<1>8. EraseChild(parent[at], key[at])
  BY DEF Prune
<1> QED BY <1>1, <1>2, <1>3, <1>4, <1>5, <1>6, <1>7, <1>8 DEF EraseChild

LEMMA TypeNext ==
  ASSUME TInv, AfterMove \subseteq ParentFree, [Next]_vars
  PROVE  TypeOK'
<1>0. TypeOK /\ ParentShape /\ WalkInv /\ PruneInv /\ CallInv
  BY DEF TInv, Shape, Locals
<1>a. live \subseteq Addresses /\ root \in Addresses /\ at \in Pointer /\ best \in Pointer
  BY <1>0 DEF TypeOK
<1>b. phase = "walk" => at \in Addresses
  BY <1>0, <1>a DEF WalkInv
<1>c. NoNode \in Pointer /\ FALSE \in BOOLEAN /\ TRUE \in BOOLEAN
  BY DEF Pointer
<1>1. ASSUME NEW op \in Operations, NEW s \in Strings, NEW d \in Data, Begin(op, s, d)
      PROVE  TypeOK'
  <2>1. 0 <= Len(s)
    BY StringsAssumption
  <2> QED BY <1>0, <1>1, <2>1 DEF Begin, TypeOK, nodes, Call, Answer, Pointer
<1>2. ASSUME Move PROVE TypeOK'
  <2>1. Fresh \in Addresses
    BY <1>0, <1>2, FreshIsFree DEF Move
  <2> QED BY <1>0, <1>2, <2>1, <1>a DEF Move, TypeOK, locals, Answer, Pointer, Childless
<1>3. ASSUME SkipEmptyToken PROVE TypeOK'
  <2>1. pos + 1 <= Len(call.string) /\ pos + 1 \in Nat
    BY <1>0, <1>3, TokenAt DEF SkipEmptyToken, TypeOK
  <2> QED BY <1>0, <1>3, <2>1 DEF SkipEmptyToken, TypeOK, nodes
<1>4. ASSUME Descend PROVE TypeOK'
  <2>1. pos + 1 <= Len(call.string) /\ pos + 1 \in Nat /\ Token \in Components
    BY <1>0, <1>4, TokenAt, TokenIsComponent DEF Descend, AtToken, TypeOK
  <2>2. at \in Addresses /\ FindChild(at, Token) \in Pointer
    BY <1>0, <1>4, <1>b, <2>1 DEF Descend, AtToken, FindChild, TypeOK
  <2> QED BY <1>0, <1>4, <2>1, <2>2 DEF Descend, AtToken, TypeOK, nodes, Pointer
<1>5. ASSUME EmplaceChild PROVE TypeOK'
  <2>1. pos + 1 <= Len(call.string) /\ pos + 1 \in Nat /\ Token \in Components
    BY <1>0, <1>5, TokenAt, TokenIsComponent DEF EmplaceChild, AtToken, TypeOK
  <2>2. Fresh \in Addresses /\ at \in Addresses /\ path[at] \in Seq(Components)
    BY <1>0, <1>5, <1>b, FreshIsFree DEF EmplaceChild, AtToken, TypeOK
  <2>3. Append(path[at], Token) \in Seq(Components)
    BY <1>0, <2>1, <2>2
  <2>4. child' \in [Addresses -> [Components -> Pointer]]
    <3>1. [child EXCEPT ![Fresh] = Childless] \in [Addresses -> [Components -> Pointer]]
      BY <1>0, <2>2 DEF TypeOK, Childless, Pointer
    <3> QED BY <1>0, <1>5, <2>1, <2>2, <3>1 DEF EmplaceChild, Pointer
  <2>5. /\ path' \in [Addresses -> Seq(Components)]
        /\ data' \in [Addresses -> Data \cup {NoData}]
        /\ parent' \in [Addresses -> Pointer]
        /\ key' \in [Addresses -> Tokens]
    BY <1>0, <1>5, <2>1, <2>2, <2>3 DEF EmplaceChild, TypeOK, Pointer, Tokens
  <2> QED BY <1>0, <1>5, <2>1, <2>2, <2>4, <2>5 DEF EmplaceChild, AtToken, TypeOK, Pointer
<1>6. ASSUME NoSuchPath \/ TraverseTo \/ Find \/ LongestMatchingPrefix \/ NotContained
             \/ Pruned \/ GetClosestAncestor
      PROVE  TypeOK'
  BY <1>0, <1>6, <1>a, <1>c, TypeReturn
     DEF NoSuchPath, TraverseTo, Find, LongestMatchingPrefix, NotContained, Pruned,
         GetClosestAncestor
<1>7. ASSUME Insert PROVE TypeOK'
  <2>1. at \in Addresses /\ call.datum \in Data
    BY <1>0, <1>7, <1>b DEF Insert, AtEnd, TypeOK
  <2>2. CASE HasData(at)
    BY <1>0, <1>7, <1>a, <1>c, <2>2, TypeReturn DEF Insert, nodes
  <2>3. CASE ~HasData(at)
    BY <1>0, <1>7, <2>1, <2>3, TypeSetData DEF Insert
  <2> QED BY <2>2, <2>3
<1>8. ASSUME Update PROVE TypeOK'
  <2>1. at \in Addresses /\ call.datum \in Data
    BY <1>0, <1>8, <1>b DEF Update, AtEnd, TypeOK
  <2> QED BY <1>0, <1>8, <2>1, TypeSetData DEF Update
<1>9. ASSUME ClearData PROVE TypeOK'
  <2>1. at \in Addresses /\ phase # "idle"
    BY <1>0, <1>9, <1>b DEF ClearData, AtEnd
  <2> QED BY <1>0, <1>9, <2>1, TypeSetData DEF ClearData
<1>10. ASSUME Prune PROVE TypeOK'
  <2>1. /\ at \in Addresses /\ parent[at] \in Addresses /\ key[at] \in Components
        /\ live' = live \ {at} /\ root \in live'
        /\ data' = [data EXCEPT ![at] = NoData]
        /\ parent' = [parent EXCEPT ![at] = NoNode]
        /\ key' = [key EXCEPT ![at] = Empty]
        /\ child' = [child EXCEPT ![at] = Childless, ![parent[at]][key[at]] = NoNode]
        /\ path' = [path EXCEPT ![at] = <<>>]
        /\ root' = root /\ moved' = moved
    BY <1>0, <1>10, <1>a, Pruning DEF TypeOK
  <2>2. child' \in [Addresses -> [Components -> Pointer]]
    <3>1. [child EXCEPT ![at] = Childless] \in [Addresses -> [Components -> Pointer]]
      BY <1>0, <2>1 DEF TypeOK, Childless, Pointer
    <3> QED BY <1>0, <2>1, <3>1 DEF Pointer
  <2>3. /\ path' \in [Addresses -> Seq(Components)]
        /\ data' \in [Addresses -> Data \cup {NoData}]
        /\ parent' \in [Addresses -> Pointer]
        /\ key' \in [Addresses -> Tokens]
    BY <1>0, <2>1 DEF TypeOK, Pointer, Tokens
  <2>4. phase = "prune" /\ at' = parent[at] /\ UNCHANGED <<call, phase, pos, best, answer>>
    BY <1>0, <1>10 DEF Prune
  <2> QED BY <1>0, <2>1, <2>2, <2>3, <2>4 DEF TypeOK, Pointer
<1>11. ASSUME AskNode PROVE TypeOK'
  BY <1>0, <1>11, <1>b DEF AskNode, AtEnd, TypeOK, nodes
<1>12. ASSUME Climb PROVE TypeOK'
  <2>1. at \in Addresses
    BY <1>0, <1>12, <1>a DEF Climb, Pointer
  <2> QED BY <1>0, <1>12, <2>1 DEF Climb, TypeOK, nodes
<1>13. CASE UNCHANGED vars
  BY <1>0, <1>13 DEF vars, nodes, locals, TypeOK
<1> QED
  BY <1>0, <1>1, <1>2, <1>3, <1>4, <1>5, <1>6, <1>7, <1>8, <1>9, <1>10, <1>11, <1>12, <1>13
     DEF Next, Step, Walk, Finish
-----------------------------------------------------------------------------
(* The nodes form a tree. *)

\* The path that a missing child would have leads to no node.
LEMMA NothingBelow ==
  ASSUME TypeOK, Shape, NEW n \in live, NEW k \in Components, FindChild(n, k) = NoNode,
         NEW m \in live
  PROVE  ~IsPrefix(Append(path[n], k), path[m])
<1> DEFINE p == Append(path[n], k)
<1>1. path[n] \in Path /\ path[m] \in Path /\ p \in Path /\ Len(p) = Len(path[n]) + 1
  BY DEF TypeOK, Path
<1>2. SUFFICES ASSUME IsPrefix(p, path[m]) PROVE FALSE
  OBVIOUS
<1>3. Len(p) \in 0..Len(path[m]) /\ p = SubSeq(path[m], 1, Len(p))
  BY <1>1, <1>2, PrefixIsCut DEF Path
<1>4. PICK a \in live : path[a] = p
  BY <1>3 DEF Shape, Closed
<1>5. a # root
  BY <1>1, <1>4 DEF Shape, RootShape
<1>6. PICK b \in live, c \in Components : FindChild(b, c) = a
  BY <1>4, <1>5 DEF Shape, Owned
<1>7. a # NoNode /\ path[b] \in Path
  BY <1>4, <1>6, AddressesAssumption DEF TypeOK, Path
<1>8. Append(path[b], c) = Append(path[n], k)
  BY <1>4, <1>6, <1>7 DEF Shape, ChildShape
<1>9. path[b] = path[n] /\ c = k
  <2>1. /\ path[b] \in Path /\ path[n] \in Path /\ c \in Components
        /\ Append(path[b], c) = Append(path[n], k)
    BY <1>1, <1>6, <1>7, <1>8
  <2> QED BY <2>1, SameAppend
<1>10. b = n
  BY <1>6, <1>9 DEF Shape, Unique
<1> QED BY <1>6, <1>7, <1>9, <1>10

\* No path goes past a node without children.
LEMMA NothingBelowLeaf ==
  ASSUME TypeOK, Shape, NEW n \in live, ~HasChildren(n), NEW m \in live,
         IsPrefix(path[n], path[m])
  PROVE  m = n
<1>1. path[n] \in Path /\ path[m] \in Path
  BY DEF TypeOK, Path
<1>2. SUFFICES ASSUME m # n PROVE FALSE
  OBVIOUS
<1>3. Len(path[n]) # Len(path[m]) /\ Len(path[n]) <= Len(path[m])
  BY <1>1, <1>2, PrefixSameLength DEF Shape, Unique, Path, IsPrefix
<1> DEFINE i == Len(path[n]) + 1
<1>4. i \in 1..Len(path[m]) /\ i \in 0..Len(path[m]) /\ path[m][i] \in Components
  BY <1>1, <1>3 DEF Path
<1>5. FindChild(n, path[m][i]) = NoNode
  BY <1>4 DEF HasChildren, FindChild
<1>6. SubSeq(path[m], 1, i) = Append(SubSeq(path[m], 1, Len(path[n])), path[m][i])
  BY <1>1, <1>4 DEF Path
<1>7. SubSeq(path[m], 1, Len(path[n])) = path[n]
  BY <1>1, PrefixIsCut DEF Path
<1>8. IsPrefix(SubSeq(path[m], 1, i), path[m])
  BY <1>1, <1>4, PrefixCut DEF Path
<1> QED BY <1>4, <1>5, <1>6, <1>7, <1>8, NothingBelow

LEMMA ShapeInit == Init => Shape
<1> SUFFICES ASSUME Init PROVE Shape
  OBVIOUS
<1>1. root \in Addresses /\ live = {root}
  BY AddressesAssumption DEF Init
<1>2. path[root] = <<>> /\ parent[root] = NoNode
  BY <1>1 DEF Init
<1>3. \A k \in Components : FindChild(root, k) = NoNode
  BY <1>1 DEF Init, FindChild, Childless
<1>4. Closed
  <2>1. \A i \in 0..Len(path[root]) : path[root] = SubSeq(path[root], 1, i)
    BY <1>2
  <2> QED BY <1>1, <2>1 DEF Closed
<1> QED
  BY <1>1, <1>2, <1>3, <1>4 DEF Shape, RootShape, Unique, ChildShape, Owned, ParentShape

\* The shape does not depend on the data.
LEMMA ShapeSame ==
  ASSUME Shape, UNCHANGED <<live, parent, key, child, root, moved, path>>
  PROVE  Shape'
<1>1. /\ RootShape' /\ Unique' /\ ChildShape' /\ Owned'
  BY DEF Shape, RootShape, Unique, ChildShape, Owned, FindChild
<1>2. Closed' /\ ParentShape'
  BY DEF Shape, Closed, ParentShape, FindChild
<1> QED BY <1>1, <1>2 DEF Shape

\* A new node hangs below the node that made it.
LEMMA Emplacing ==
  ASSUME TypeOK, WalkInv, EmplaceChild
  PROVE  /\ at \in live /\ Token \in Components /\ FindChild(at, Token) = NoNode
         /\ Fresh \in Addresses \ live /\ live' = live \cup {Fresh}
         /\ path'[Fresh] = Append(path[at], Token) /\ data'[Fresh] = NoData
         /\ parent'[Fresh] = at /\ key'[Fresh] = Token
         /\ \A k \in Components : child'[Fresh][k] = NoNode
         /\ \A n \in live : /\ path'[n] = path[n] /\ data'[n] = data[n]
                            /\ parent'[n] = parent[n] /\ key'[n] = key[n]
                            /\ \A k \in Components : child'[n][k] =
                                 IF n = at /\ k = Token THEN Fresh ELSE child[n][k]
         /\ root' = root /\ moved' = moved /\ root \in live
<1>1. at \in live /\ Token \in Components /\ FindChild(at, Token) = NoNode
  BY TokenIsComponent DEF EmplaceChild, AtToken, WalkInv
<1>2. Fresh \in Addresses \ live
  BY FreshIsFree DEF EmplaceChild
<1>3. /\ live \subseteq Addresses /\ root \in live /\ at \in Addresses
      /\ DOMAIN path = Addresses /\ DOMAIN data = Addresses /\ DOMAIN parent = Addresses
      /\ DOMAIN key = Addresses
      /\ child \in [Addresses -> [Components -> Pointer]]
  BY <1>1 DEF TypeOK
<1> DEFINE c1 == [child EXCEPT ![Fresh] = Childless]
<1>4. /\ c1 \in [Addresses -> [Components -> Pointer]]
      /\ c1[Fresh] = Childless /\ \A n \in live : c1[n] = child[n]
  BY <1>2, <1>3 DEF Childless, Pointer
<1>5. child' = [c1 EXCEPT ![at][Token] = Fresh]
  BY DEF EmplaceChild
<1>6. /\ \A k \in Components : child'[Fresh][k] = NoNode
      /\ \A n \in live, k \in Components : child'[n][k] =
           IF n = at /\ k = Token THEN Fresh ELSE child[n][k]
  BY <1>1, <1>2, <1>3, <1>4, <1>5 DEF Childless
<1> QED BY <1>1, <1>2, <1>3, <1>6 DEF EmplaceChild

LEMMA ShapeEmplace ==
  ASSUME TypeOK, Shape, WalkInv, EmplaceChild
  PROVE  Shape'
<1> DEFINE f == Fresh
<1>1. /\ at \in live /\ Token \in Components /\ child[at][Token] = NoNode
      /\ f \notin live /\ live' = live \cup {f} /\ root' = root /\ moved' = moved
      /\ root \in live
      /\ path'[f] = Append(path[at], Token) /\ parent'[f] = at /\ key'[f] = Token
      /\ f # NoNode /\ NoNode \notin live
  BY Emplacing, AddressesAssumption DEF TypeOK, FindChild
<1>2. /\ \A k \in Components : child'[f][k] = NoNode
      /\ \A n \in live : /\ path'[n] = path[n] /\ parent'[n] = parent[n] /\ key'[n] = key[n]
                         /\ \A k \in Components : child'[n][k] =
                              IF n = at /\ k = Token THEN f ELSE child[n][k]
  BY Emplacing
<1> HIDE DEF f
<1>3. path[at] \in Path /\ \A n \in live : path[n] \in Path
  BY <1>1 DEF TypeOK, Path
<1>4. Append(path[at], Token) \in Path
      /\ IsPrefix(Append(path[at], Token), Append(path[at], Token))
  <2>1. Append(path[at], Token) \in Path
    BY <1>1, <1>3 DEF Path
  <2> QED BY <2>1, PrefixReflexive DEF Path
<1>5. \A n \in live : path[n] # Append(path[at], Token)
  BY <1>1, <1>4, NothingBelow DEF FindChild
<1>6. RootShape' /\ Unique' /\ ChildShape'
  <2>1. RootShape' /\ Unique'
    BY <1>1, <1>2, <1>5 DEF Shape, RootShape, Unique
  <2>2. ASSUME NEW n \in live', NEW k \in Components, child'[n][k] # NoNode
        PROVE  child'[n][k] \in live' /\ path'[child'[n][k]] = Append(path'[n], k)
    <3>1. n \in live
      BY <1>1, <1>2, <2>2
    <3>2. CASE n = at /\ k = Token
      BY <1>1, <1>2, <3>1, <3>2
    <3>3. CASE ~(n = at /\ k = Token)
      <4>1. child'[n][k] = child[n][k]
        BY <1>2, <3>1, <3>3
      <4>2. child[n][k] \in live /\ path[child[n][k]] = Append(path[n], k)
        BY <2>2, <3>1, <4>1 DEF Shape, ChildShape, FindChild
      <4> QED BY <1>1, <1>2, <3>1, <4>1, <4>2
    <3> QED BY <3>2, <3>3
  <2> QED BY <2>1, <2>2 DEF ChildShape, FindChild
<1>7. Owned'
  <2> SUFFICES ASSUME NEW m \in live' \ {root'}
               PROVE  \E n \in live', k \in Components : child'[n][k] = m
    BY DEF Owned, FindChild
  <2>1. CASE m = f
    BY <1>1, <1>2, <2>1
  <2>2. CASE m \in live \ {root}
    <3>1. PICK n \in live, k \in Components : child[n][k] = m
      BY <2>2 DEF Shape, Owned, FindChild
    <3>2. child'[n][k] = m
      BY <1>1, <1>2, <2>2, <3>1
    <3> QED BY <1>1, <3>1, <3>2
  <2> QED BY <1>1, <2>1, <2>2
<1>8. Closed'
  <2> SUFFICES ASSUME NEW m \in live', NEW i \in 0..Len(path'[m])
               PROVE  \E n \in live' : path'[n] = SubSeq(path'[m], 1, i)
    BY DEF Closed
  <2>1. CASE m \in live
    <3>1. PICK n \in live : path[n] = SubSeq(path[m], 1, i)
      BY <1>2, <2>1 DEF Shape, Closed
    <3> QED BY <1>1, <1>2, <2>1, <3>1
  <2>2. CASE m = f
    <3>1. Len(path'[m]) = Len(path[at]) + 1 /\ i \in Nat
      BY <1>1, <1>3, <2>2 DEF Path
    <3>2. CASE i = Len(path[at]) + 1
      <4>1. SubSeq(path'[m], 1, i) = path'[m]
        BY <1>1, <1>4, <2>2, <3>1, <3>2 DEF Path
      <4> QED BY <4>1
    <3>3. CASE i \in 0..Len(path[at])
      <4>1. SubSeq(path'[m], 1, i) = SubSeq(path[at], 1, i)
        BY <1>1, <1>3, <2>2, <3>3 DEF Path
      <4>2. PICK n \in live : path[n] = SubSeq(path[at], 1, i)
        BY <1>1, <3>3 DEF Shape, Closed
      <4> QED BY <1>1, <1>2, <4>1, <4>2
    <3> QED BY <1>3, <3>1, <3>2, <3>3 DEF Path
  <2> QED BY <1>1, <2>1, <2>2
<1>9. ParentShape'
  <2> SUFFICES ASSUME ~moved
               PROVE  /\ parent'[root] = NoNode
                      /\ \A m \in live' \ {root} :
                           /\ parent'[m] \in live' /\ key'[m] \in Components
                           /\ child'[parent'[m]][key'[m]] = m
    BY <1>1 DEF ParentShape, FindChild
  <2>1. parent'[root] = NoNode
    BY <1>1, <1>2 DEF Shape, ParentShape
  <2>2. ASSUME NEW m \in live \ {root}
        PROVE  /\ parent'[m] \in live' /\ key'[m] \in Components
               /\ child'[parent'[m]][key'[m]] = m
    <3>1. parent[m] \in live /\ key[m] \in Components /\ child[parent[m]][key[m]] = m
      BY <2>2 DEF Shape, ParentShape, FindChild
    <3>2. ~(parent[m] = at /\ key[m] = Token)
      BY <1>1, <3>1, <2>2
    <3> QED BY <1>1, <1>2, <2>2, <3>1, <3>2 DEF FindChild
  <2>3. /\ parent'[f] \in live' /\ key'[f] \in Components
        /\ child'[parent'[f]][key'[f]] = f
    BY <1>1, <1>2 DEF FindChild
  <2> QED BY <1>1, <2>1, <2>2, <2>3
<1> QED BY <1>6, <1>7, <1>8, <1>9 DEF Shape

\* What is left when a leaf without data goes.
LEMMA ShapePrune ==
  ASSUME TypeOK, Shape, PruneInv, CallInv, AfterMove \subseteq ParentFree, Prune
  PROVE  Shape'
<1> DEFINE up == parent[at]
           k0 == key[at]
<1>1. /\ ~moved /\ at \in live \ {root} /\ up \in live /\ up # at /\ k0 \in Components
      /\ child[up][k0] = at /\ ~HasChildren(at)
      /\ live' = live \ {at} /\ root' = root /\ moved' = moved /\ root \in live'
      /\ NoNode \notin live
  BY Pruning, AddressesAssumption DEF Shape, FindChild, TypeOK
<1>2. /\ \A n \in live' : /\ path'[n] = path[n] /\ parent'[n] = parent[n] /\ key'[n] = key[n]
      /\ \A n \in live', k \in Components : child'[n][k] =
           IF n = up /\ k = k0 THEN NoNode ELSE child[n][k]
  <2>1. /\ live \subseteq Addresses
        /\ DOMAIN path = Addresses /\ DOMAIN parent = Addresses /\ DOMAIN key = Addresses
        /\ child \in [Addresses -> [Components -> Pointer]]
    BY DEF TypeOK
  <2> DEFINE c1 == [child EXCEPT ![at] = Childless]
  <2>2. c1 \in [Addresses -> [Components -> Pointer]] /\ \A n \in live' : c1[n] = child[n]
    BY <1>1, <2>1 DEF Childless, Pointer
  <2>3. child' = [c1 EXCEPT ![up][k0] = NoNode]
    BY Pruning DEF Shape
  <2>4. \A n \in live', k \in Components : child'[n][k] =
           IF n = up /\ k = k0 THEN NoNode ELSE child[n][k]
    BY <1>1, <2>1, <2>2, <2>3
  <2>5. \A n \in live' : path'[n] = path[n] /\ parent'[n] = parent[n] /\ key'[n] = key[n]
    BY <1>1, <2>1, Pruning DEF Shape
  <2> QED BY <2>4, <2>5
<1> HIDE DEF up, k0
<1>3. \A n \in live : path[n] \in Path
  BY DEF TypeOK, Path
\* Only its parent, by its key, leads to the node.
<1>4. ASSUME NEW n \in live, NEW k \in Components, child[n][k] = at
      PROVE  n = up /\ k = k0
  <2>1. path[at] = Append(path[n], k)
    BY <1>1, <1>4 DEF Shape, ChildShape, FindChild
  <2>2. path[at] = Append(path[up], k0)
    BY <1>1 DEF Shape, ChildShape, FindChild
  <2>3. /\ path[n] \in Path /\ path[up] \in Path /\ k0 \in Components
        /\ Append(path[n], k) = Append(path[up], k0)
    BY <1>1, <1>3, <1>4, <2>1, <2>2
  <2>4. path[n] = path[up] /\ k = k0
    BY <2>3, SameAppend
  <2> QED BY <1>1, <1>4, <2>4 DEF Shape, Unique
<1>5. RootShape' /\ Unique'
  BY <1>1, <1>2 DEF Shape, RootShape, Unique
<1>6. ChildShape'
  <2> SUFFICES ASSUME NEW n \in live', NEW k \in Components, child'[n][k] # NoNode
               PROVE  child'[n][k] \in live' /\ path'[child'[n][k]] = Append(path'[n], k)
    BY DEF ChildShape, FindChild
  <2>1. child'[n][k] = child[n][k] /\ ~(n = up /\ k = k0) /\ n \in live
    BY <1>1, <1>2
  <2>2. child[n][k] \in live /\ path[child[n][k]] = Append(path[n], k)
    BY <2>1 DEF Shape, ChildShape, FindChild
  <2>3. child[n][k] # at
    BY <1>4, <2>1
  <2> QED BY <1>1, <1>2, <2>1, <2>2, <2>3
<1>7. Owned'
  <2> SUFFICES ASSUME NEW m \in live' \ {root}
               PROVE  \E n \in live', k \in Components : child'[n][k] = m
    BY <1>1 DEF Owned, FindChild
  <2>1. PICK n \in live, k \in Components : child[n][k] = m
    BY <1>1 DEF Shape, Owned, FindChild
  <2>2. n # at /\ ~(n = up /\ k = k0)
    BY <1>1, <2>1 DEF HasChildren
  <2> QED BY <1>1, <1>2, <2>1, <2>2
<1>8. Closed'
  <2> SUFFICES ASSUME NEW m \in live', NEW i \in 0..Len(path'[m])
               PROVE  \E n \in live' : path'[n] = SubSeq(path'[m], 1, i)
    BY DEF Closed
  <2>1. m \in live /\ path'[m] = path[m]
    BY <1>1, <1>2
  <2>2. PICK n \in live : path[n] = SubSeq(path[m], 1, i)
    BY <2>1 DEF Shape, Closed
  <2>3. n # at
    <3> SUFFICES ASSUME n = at PROVE FALSE
      OBVIOUS
    <3>1. IsPrefix(path[at], path[m])
      BY <1>3, <2>1, <2>2, PrefixCut DEF Path
    <3>2. m = at
      BY <1>1, <2>1, <3>1, NothingBelowLeaf
    <3> QED BY <1>1, <3>2
  <2> QED BY <1>1, <1>2, <2>1, <2>2, <2>3
<1>9. ParentShape'
  <2> SUFFICES /\ parent'[root] = NoNode
               /\ \A m \in live' \ {root} :
                    /\ parent'[m] \in live' /\ key'[m] \in Components
                    /\ child'[parent'[m]][key'[m]] = m
    BY <1>1 DEF ParentShape, FindChild
  <2>1. parent'[root] = NoNode
    BY <1>1, <1>2 DEF Shape, ParentShape
  <2>2. ASSUME NEW m \in live' \ {root}
        PROVE  /\ parent'[m] \in live' /\ key'[m] \in Components
               /\ child'[parent'[m]][key'[m]] = m
    <3>1. parent[m] \in live /\ key[m] \in Components /\ child[parent[m]][key[m]] = m
      BY <1>1, <2>2 DEF Shape, ParentShape, FindChild
    <3>2. parent[m] # at /\ ~(parent[m] = up /\ key[m] = k0)
      BY <1>1, <2>2, <3>1 DEF HasChildren
    <3> QED BY <1>1, <1>2, <2>2, <3>1, <3>2
  <2> QED BY <2>1, <2>2
<1> QED BY <1>5, <1>6, <1>7, <1>8, <1>9 DEF Shape

\* The new root takes the place of the old one.
LEMMA ShapeMove ==
  ASSUME TypeOK, Shape, Move
  PROVE  Shape'
<1> DEFINE f == Fresh
<1>1. /\ root \in live /\ f \notin live /\ f \in Addresses /\ live \subseteq Addresses
      /\ live' = (live \ {root}) \cup {f} /\ root' = f /\ moved' = TRUE
      /\ NoNode \notin live
  BY FreshIsFree, AddressesAssumption DEF Move, TypeOK
<1>2. /\ path'[f] = <<>> /\ \A n \in live : path'[n] = path[n]
      /\ path[root] = <<>>
  BY <1>1 DEF Move, TypeOK, Shape, RootShape
<1>3. /\ \A k \in Components : child'[f][k] = child[root][k]
      /\ \A n \in live \ {root}, k \in Components : child'[n][k] = child[n][k]
  <2>1. child \in [Addresses -> [Components -> Pointer]]
    BY DEF TypeOK
  <2>2. child' = [child EXCEPT ![f] = child[root], ![root] = Childless]
    BY DEF Move
  <2>3. child'[f] = child[root] /\ \A n \in live \ {root} : child'[n] = child[n]
    BY <1>1, <2>1, <2>2
  <2> QED BY <2>3
<1> HIDE DEF f
<1>4. \A n \in live : path[n] \in Path
  BY DEF TypeOK, Path
\* The root is no one's child.
<1>5. ASSUME NEW n \in live, NEW k \in Components, child[n][k] # NoNode
      PROVE  child[n][k] \in live \ {root} /\ path[child[n][k]] = Append(path[n], k)
  <2>1. child[n][k] \in live /\ path[child[n][k]] = Append(path[n], k)
    BY <1>5 DEF Shape, ChildShape, FindChild
  <2>2. Append(path[n], k) # <<>>
    BY <1>4, <1>5 DEF Path
  <2> QED BY <1>2, <2>1, <2>2
<1>6. RootShape' /\ Unique' /\ ParentShape'
  BY <1>1, <1>2 DEF Shape, RootShape, Unique, ParentShape
<1>7. ChildShape'
  <2> SUFFICES ASSUME NEW n \in live', NEW k \in Components, child'[n][k] # NoNode
               PROVE  child'[n][k] \in live' /\ path'[child'[n][k]] = Append(path'[n], k)
    BY DEF ChildShape, FindChild
  <2>1. CASE n = f
    BY <1>1, <1>2, <1>3, <1>5, <2>1
  <2>2. CASE n \in live \ {root}
    <3>1. child'[n][k] = child[n][k] /\ n \in live
      BY <1>3, <2>2
    <3>2. child[n][k] \in live \ {root} /\ path[child[n][k]] = Append(path[n], k)
      BY <1>5, <3>1
    <3> QED BY <1>1, <1>2, <2>2, <3>1, <3>2
  <2> QED BY <1>1, <2>1, <2>2
<1>8. Owned'
  <2> SUFFICES ASSUME NEW m \in live \ {root}
               PROVE  \E n \in live', k \in Components : child'[n][k] = m
    BY <1>1 DEF Owned, FindChild
  <2>1. PICK n \in live, k \in Components : child[n][k] = m
    BY DEF Shape, Owned, FindChild
  <2> QED BY <1>1, <1>3, <2>1
<1>9. Closed'
  <2> SUFFICES ASSUME NEW m \in live', NEW i \in 0..Len(path'[m])
               PROVE  \E n \in live' : path'[n] = SubSeq(path'[m], 1, i)
    BY DEF Closed
  <2>1. PICK a \in live : path'[m] = path[a]
    BY <1>1, <1>2
  <2>2. PICK n \in live : path[n] = SubSeq(path[a], 1, i)
    BY <2>1 DEF Shape, Closed
  <2> QED BY <1>1, <1>2, <2>1, <2>2
<1> QED BY <1>6, <1>7, <1>8, <1>9 DEF Shape

\* The steps of a call that leave the nodes as they are.
Quiet ==
  \/ SkipEmptyToken \/ Descend \/ NoSuchPath \/ TraverseTo \/ Find \/ LongestMatchingPrefix
  \/ NotContained \/ Pruned \/ AskNode \/ Climb \/ GetClosestAncestor
  \/ \E op \in Operations, s \in Strings, d \in Data : Begin(op, s, d)
  \/ UNCHANGED vars

LEMMA QuietKeepsNodes == Quiet => UNCHANGED nodes
BY DEF Quiet, SkipEmptyToken, Descend, NoSuchPath, TraverseTo, Find, LongestMatchingPrefix,
       NotContained, Pruned, AskNode, Climb, GetClosestAncestor, Begin, vars

\* The steps, sorted by what they do to the nodes.
LEMMA StepCases ==
  [Next]_vars => Quiet \/ EmplaceChild \/ Insert \/ Update \/ ClearData \/ Prune \/ Move
BY DEF Next, Step, Walk, Finish, Quiet

LEMMA ShapeNext ==
  ASSUME TInv, AfterMove \subseteq ParentFree, [Next]_vars
  PROVE  Shape'
<1>0. TypeOK /\ Shape /\ WalkInv /\ PruneInv /\ CallInv
  BY DEF TInv, Locals
<1>1. CASE Quiet
  BY <1>0, <1>1, QuietKeepsNodes, ShapeSame DEF nodes
<1>2. CASE EmplaceChild
  BY <1>0, <1>2, ShapeEmplace
<1>3. CASE Insert \/ Update \/ ClearData
  BY <1>0, <1>3, ShapeSame DEF Insert, Update, ClearData
<1>4. CASE Prune
  BY <1>0, <1>4, ShapePrune
<1>5. CASE Move
  BY <1>0, <1>5, ShapeMove
<1> QED BY <1>1, <1>2, <1>3, <1>4, <1>5, StepCases
-----------------------------------------------------------------------------
(* Every branch leads to data. *)

LEMMA StrictAppend ==
  ASSUME NEW p \in Path, NEW q \in Path, NEW k \in Components
  PROVE  /\ IsStrictPrefix(p, Append(q, k)) <=> IsPrefix(p, q)
         /\ IsStrictPrefix(q, Append(q, k))
<1>1. /\ IsPrefix(q, Append(q, k)) /\ ~IsPrefix(Append(q, k), q)
      /\ IsPrefix(p, Append(q, k)) <=> IsPrefix(p, q) \/ p = Append(q, k)
  BY PrefixAppend DEF Path
<1>2. IsPrefix(q, q)
  BY PrefixReflexive DEF Path
<1> QED BY <1>1, <1>2 DEF IsStrictPrefix

\* Before the move a node has its parent right above it, except the root.
LEMMA UpOne ==
  ASSUME TypeOK, Shape, ~moved, NEW n \in live
  PROVE  \/ n = root /\ parent[n] = NoNode /\ path[n] = <<>>
         \/ /\ n # root /\ parent[n] \in live /\ parent[n] # NoNode
            /\ IsStrictPrefix(path[parent[n]], path[n])
            /\ \A p \in Path : IsStrictPrefix(p, path[n]) <=> IsPrefix(p, path[parent[n]])
<1>1. CASE n = root
  BY <1>1 DEF Shape, RootShape, ParentShape
<1>2. CASE n # root
  <2>1. /\ parent[n] \in live /\ key[n] \in Components
        /\ FindChild(parent[n], key[n]) = n /\ n # NoNode /\ parent[n] # NoNode
    BY <1>2, AddressesAssumption DEF Shape, ParentShape, TypeOK
  <2>2. path[n] = Append(path[parent[n]], key[n]) /\ path[parent[n]] \in Path
    BY <2>1 DEF Shape, ChildShape, TypeOK, Path
  <2> QED BY <1>2, <2>1, <2>2, StrictAppend
<1> QED BY <1>1, <1>2

LEMMA PathsAre == TypeOK => \A n \in live : path[n] \in Path
BY DEF TypeOK, Path

\* When Erase stops, the branch it came up leads to data after all.
LEMMA BranchesPruned ==
  ASSUME TypeOK, Shape, Branches, PruneInv, CallInv, AfterMove \subseteq ParentFree,
         phase = "prune", ~Prunable(at), NEW n \in live \ {root}
  PROVE  LeadsToData(n)
<1>1. at \in live /\ ~moved /\ path[n] \in Path /\ path[at] \in Path
  BY PathsAre DEF PruneInv, CallInv, ParentFree
<1>2. SUFFICES ASSUME IsPrefix(path[n], path[at]) PROVE LeadsToData(n)
  BY DEF Branches, OnTheWay
<1>3. CASE HasData(at)
  BY <1>1, <1>2, <1>3 DEF LeadsToData
<1>4. CASE HasChildren(at)
  <2>1. PICK k \in Components : FindChild(at, k) # NoNode
    BY <1>4 DEF HasChildren, FindChild
  <2> DEFINE c == FindChild(at, k)
  <2>2. c \in live /\ path[c] = Append(path[at], k)
    BY <1>1, <2>1 DEF Shape, ChildShape
  <2> HIDE DEF c
  <2>3. /\ IsPrefix(path[at], path[c]) /\ ~IsPrefix(path[c], path[at])
        /\ path[c] \in Path /\ path[c] # <<>>
    BY <1>1, <2>2, PrefixAppend DEF Path
  <2>4. c # root
    BY <2>3 DEF Shape, RootShape
  <2>5. PICK m \in live : HasData(m) /\ IsPrefix(path[c], path[m])
    BY <2>2, <2>3, <2>4 DEF Branches, LeadsToData, OnTheWay
  <2>6. IsPrefix(path[at], path[m]) /\ path[m] \in Path
    BY <1>1, <2>3, <2>5, PathsAre, PrefixTransitive DEF Path
  <2>7. IsPrefix(path[n], path[m])
    BY <1>1, <1>2, <2>6, PrefixTransitive DEF Path
  <2> QED BY <2>5, <2>7 DEF LeadsToData
<1>5. CASE ~HasParent(at)
  <2>1. path[at] = <<>>
    BY <1>1, <1>5, UpOne DEF HasParent
  <2>2. path[n] = <<>>
    BY <1>1, <1>2, <2>1, PrefixOfNothing DEF Path
  <2> QED BY <2>2 DEF Shape, RootShape, Unique, TypeOK
<1> QED BY <1>3, <1>4, <1>5 DEF Prunable

LEMMA BranchesQuiet ==
  ASSUME TInv, AfterMove \subseteq ParentFree, Quiet
  PROVE  Branches'
<1>0. TypeOK /\ Shape /\ Branches /\ WalkInv /\ PruneInv /\ CallInv
  BY DEF TInv, Locals
<1>1. UNCHANGED nodes
  BY QuietKeepsNodes
<1>2. live' = live /\ root' = root /\ path' = path /\ data' = data
  BY <1>1 DEF nodes
<1> SUFFICES ASSUME NEW n \in live \ {root}, ~LeadsToData(n)
             PROVE  OnTheWay(n)'
  BY <1>2 DEF Branches, LeadsToData, HasData
<1>3. OnTheWay(n)
  BY <1>0 DEF Branches
<1>4. phase # "idle" /\ (phase = "prune" \/ (phase = "walk" /\ Creates))
  BY <1>3 DEF OnTheWay
<1>5. CASE Descend
  <2>1. /\ at \in live /\ Token \in Components /\ at' = FindChild(at, Token)
        /\ at' # NoNode /\ phase' = phase /\ call' = call /\ phase = "walk"
    BY <1>0, <1>5, TokenIsComponent DEF Descend, AtToken, WalkInv
  <2>2. at' \in live /\ path[at'] = Append(path[at], Token)
    BY <1>0, <2>1 DEF Shape, ChildShape
  <2>3. path[n] \in Path /\ path[at] \in Path /\ IsPrefix(path[n], path[at])
    BY <1>0, <1>3, <2>1, PathsAre DEF OnTheWay
  <2>4. IsPrefix(path[n], path[at'])
    BY <2>1, <2>2, <2>3, PrefixAppend DEF Path
  <2> QED BY <1>2, <1>4, <2>1, <2>2, <2>4 DEF OnTheWay, Creates
<1>6. CASE Pruned
  BY <1>0, <1>6, BranchesPruned DEF Pruned
<1>7. CASE SkipEmptyToken \/ UNCHANGED vars
  BY <1>2, <1>3, <1>7 DEF SkipEmptyToken, vars, locals, OnTheWay, Creates
<1>8. CASE NoSuchPath \/ TraverseTo \/ Find \/ LongestMatchingPrefix \/ NotContained
           \/ AskNode \/ Climb \/ GetClosestAncestor
  BY <1>4, <1>8 DEF NoSuchPath, TraverseTo, Find, LongestMatchingPrefix, NotContained,
       AskNode, Climb, GetClosestAncestor, Creates, AtToken, AtEnd
<1>9. ASSUME NEW op \in Operations, NEW s \in Strings, NEW d \in Data, Begin(op, s, d)
      PROVE  FALSE
  BY <1>4, <1>9 DEF Begin
<1> QED BY <1>5, <1>6, <1>7, <1>8, <1>9 DEF Quiet

LEMMA BranchesEmplace ==
  ASSUME TypeOK, Shape, Branches, WalkInv, EmplaceChild
  PROVE  Branches'
<1> DEFINE f == Fresh
<1>1. /\ at \in live /\ Token \in Components /\ f \notin live /\ live' = live \cup {f}
      /\ root' = root /\ path'[f] = Append(path[at], Token)
      /\ \A n \in live : path'[n] = path[n] /\ data'[n] = data[n]
      /\ at' = f /\ phase' = "walk" /\ phase = "walk" /\ call' = call /\ Creates
  BY Emplacing DEF EmplaceChild, AtToken
<1> HIDE DEF f
<1>2. path[at] \in Path /\ Append(path[at], Token) \in Path
      /\ \A n \in live : path[n] \in Path
  BY <1>1, PathsAre DEF Path
<1>3. ASSUME NEW n \in live' \ {root}
      PROVE  LeadsToData(n)' \/ OnTheWay(n)'
  <2>1. CASE n = f
    <3>1. IsPrefix(path'[f], path'[f])
      BY <1>1, <1>2, PrefixReflexive DEF Path
    <3> QED BY <1>1, <2>1, <3>1 DEF OnTheWay, Creates
  <2>2. CASE n \in live \ {root} /\ LeadsToData(n)
    BY <1>1, <2>2 DEF LeadsToData, HasData
  <2>3. CASE n \in live \ {root} /\ OnTheWay(n)
    <3>1. IsPrefix(path[n], path[at]) /\ path[n] \in Path
      BY <1>2, <2>3 DEF OnTheWay
    <3>2. IsPrefix(path[n], Append(path[at], Token))
      BY <1>1, <1>2, <3>1, PrefixAppend DEF Path
    <3> QED BY <1>1, <2>3, <3>2 DEF OnTheWay, Creates
  <2> QED BY <1>1, <1>3, <2>1, <2>2, <2>3 DEF Branches
<1> QED BY <1>1, <1>3 DEF Branches

\* Data put at the end of the way, or taken from it.
LEMMA BranchesData ==
  ASSUME TypeOK, Shape, Branches, WalkInv, Insert \/ Update \/ ClearData
  PROVE  Branches'
<1>1. /\ at \in live /\ phase = "walk" /\ live' = live /\ root' = root /\ path' = path
      /\ at \in Addresses /\ data \in [Addresses -> Data \cup {NoData}]
      /\ live \subseteq Addresses
  BY DEF Insert, Update, ClearData, AtEnd, WalkInv, TypeOK
<1>2. CASE Insert \/ Update
  <2>1. call.datum # NoData
    BY <1>1, NoDataAssumption DEF TypeOK
  <2>2. data'[at] # NoData /\ \A m \in live : HasData(m) => data'[m] # NoData
    <3>1. (HasData(at) /\ data' = data) \/ data' = [data EXCEPT ![at] = call.datum]
      BY <1>2 DEF Insert, Update, SetData
    <3> QED BY <1>1, <2>1, <3>1 DEF HasData
  <2>3. ASSUME NEW n \in live \ {root} PROVE LeadsToData(n)'
    <3>1. PICK m \in live : data'[m] # NoData /\ IsPrefix(path[n], path[m])
      BY <1>1, <2>2, <2>3 DEF Branches, LeadsToData, OnTheWay
    <3> QED BY <1>1, <3>1 DEF LeadsToData, HasData
  <2> QED BY <1>1, <2>3 DEF Branches
<1>3. CASE ClearData
  <2>1. /\ phase' = "prune" /\ at' = at /\ ~Creates
        /\ \A m \in live : m # at => data'[m] = data[m]
    BY <1>1, <1>3 DEF ClearData, SetData, Creates
  <2>2. ASSUME NEW n \in live \ {root} PROVE LeadsToData(n)' \/ OnTheWay(n)'
    <3>1. PICK m \in live : HasData(m) /\ IsPrefix(path[n], path[m])
      BY <1>1, <2>1, <2>2 DEF Branches, LeadsToData, OnTheWay
    <3>2. CASE m = at
      BY <1>1, <2>1, <3>1, <3>2 DEF OnTheWay
    <3>3. CASE m # at
      BY <1>1, <2>1, <3>1, <3>3 DEF LeadsToData, HasData
    <3> QED BY <3>2, <3>3
  <2> QED BY <1>1, <2>2 DEF Branches
<1> QED BY <1>2, <1>3

LEMMA BranchesPrune ==
  ASSUME TypeOK, Shape, Branches, PruneInv, CallInv, AfterMove \subseteq ParentFree, Prune
  PROVE  Branches'
<1>1. /\ ~moved /\ at \in live \ {root} /\ parent[at] \in live' /\ live' = live \ {at}
      /\ ~HasData(at) /\ root' = root /\ at \in Addresses /\ live \subseteq Addresses
      /\ \A n \in live' : path'[n] = path[n] /\ data'[n] = data[n]
      /\ phase = "prune" /\ phase' = "prune" /\ at' = parent[at]
  BY Pruning DEF Shape, Prune, TypeOK
<1>2. ASSUME NEW n \in live' \ {root} PROVE LeadsToData(n)' \/ OnTheWay(n)'
  <2>1. CASE LeadsToData(n)
    BY <1>1, <1>2, <2>1 DEF LeadsToData, HasData
  <2>2. CASE OnTheWay(n)
    <3>1. IsPrefix(path[n], path[at]) /\ path[n] # path[at] /\ path[n] \in Path
      BY <1>1, <1>2, <2>2, PathsAre DEF OnTheWay, Shape, Unique
    <3>2. IsPrefix(path[n], path[parent[at]])
      BY <1>1, <3>1, UpOne DEF IsStrictPrefix
    <3> QED BY <1>1, <1>2, <3>2 DEF OnTheWay
  <2> QED BY <1>1, <1>2, <2>1, <2>2 DEF Branches
<1> QED BY <1>1, <1>2 DEF Branches

LEMMA BranchesMove ==
  ASSUME TypeOK, Shape, Branches, Move
  PROVE  Branches'
<1> DEFINE f == Fresh
<1>1. /\ root \in live /\ f \notin live /\ f \in Addresses /\ live \subseteq Addresses
      /\ live' = (live \ {root}) \cup {f} /\ root' = f /\ phase = "idle"
      /\ path'[f] = path[root] /\ data'[f] = data[root]
      /\ \A n \in live : path'[n] = path[n] /\ data'[n] = data[n]
  BY FreshIsFree DEF Move, TypeOK
<1> HIDE DEF f
<1>2. ASSUME NEW n \in live \ {root} PROVE LeadsToData(n)'
  <2>1. PICK m \in live : HasData(m) /\ IsPrefix(path[n], path[m])
    BY <1>1, <1>2 DEF Branches, OnTheWay, LeadsToData
  <2>2. CASE m = root
    BY <1>1, <1>2, <2>1, <2>2 DEF LeadsToData, HasData
  <2>3. CASE m # root
    BY <1>1, <1>2, <2>1, <2>3 DEF LeadsToData, HasData
  <2> QED BY <2>2, <2>3
<1> QED BY <1>1, <1>2 DEF Branches

LEMMA BranchesNext ==
  ASSUME TInv, AfterMove \subseteq ParentFree, [Next]_vars
  PROVE  Branches'
<1>0. TypeOK /\ Shape /\ Branches /\ WalkInv /\ PruneInv /\ CallInv
  BY DEF TInv, Locals
<1> QED BY <1>0, StepCases, BranchesQuiet, BranchesEmplace, BranchesData, BranchesPrune, BranchesMove
-----------------------------------------------------------------------------
(* Where a call is. *)

\* At the end of its string a walk has reached the node of its argument.
LEMMA AtArgument ==
  ASSUME TypeOK, WalkInv, AtEnd
  PROVE  at \in live /\ path[at] = Argument /\ call.string \in Strings
<1>1. call.string \in Strings /\ call.string \in Seq(Tokens)
  BY StringsAssumption DEF TypeOK, AtEnd
<1>2. SubSeq(call.string, 1, Len(call.string)) = call.string
  BY <1>1
<1> QED BY <1>1, <1>2 DEF AtEnd, WalkInv, Argument

LEMMA CallTypes ==
  TypeOK /\ phase # "idle" => call \in [op : Operations, string : Strings, datum : Data]
BY DEF TypeOK

\* The closest node with data above the child of a node.
LEMMA ClosestBelow ==
  ASSUME TypeOK, Shape, NEW n \in live, NEW b, ClosestAbove(b, path[n]), NEW k \in Components
  PROVE  ClosestAbove(IF HasData(n) THEN n ELSE b, Append(path[n], k))
<1>1. path[n] \in Path /\ \A m \in live : path[m] \in Path
  BY PathsAre
<1>2. \A m \in live : IsStrictPrefix(path[m], Append(path[n], k)) <=> IsPrefix(path[m], path[n])
  BY <1>1, StrictAppend
<1>3. \A m \in live : IsPrefix(path[m], path[n]) => IsStrictPrefix(path[m], path[n]) \/ m = n
  BY DEF IsStrictPrefix, Shape, Unique
<1>4. IsPrefix(path[n], path[n])
  BY <1>1, PrefixReflexive DEF Path
<1>5. CASE HasData(n)
  <2>1. \A m \in live : IsPrefix(path[m], path[n]) => Len(path[m]) <= Len(path[n])
    BY DEF IsPrefix
  <2> QED BY <1>2, <1>4, <1>5, <2>1 DEF ClosestAbove
<1>6. CASE ~HasData(n)
  <2>1. \A m \in live : HasData(m) =>
          (IsStrictPrefix(path[m], Append(path[n], k)) <=> IsStrictPrefix(path[m], path[n]))
    BY <1>2, <1>3, <1>6 DEF IsStrictPrefix
  <2> QED BY <1>6, <2>1 DEF ClosestAbove
<1> QED BY <1>5, <1>6

LEMMA WalkNext ==
  ASSUME TInv, AfterMove \subseteq ParentFree, [Next]_vars
  PROVE  WalkInv'
<1>0. TypeOK /\ Shape /\ WalkInv
  BY DEF TInv, Locals
<1>1. ASSUME NEW op \in Operations, NEW s \in Strings, NEW d \in Data, Begin(op, s, d)
      PROVE  WalkInv'
  <2>1. SubSeq(s, 1, 0) = <<>> /\ Canonical(<<>>) = <<>>
    BY StringsAssumption, CanonicalAssumption
  <2>2. \A m \in live : ~IsStrictPrefix(path[m], <<>>)
    BY <1>0, PathsAre, PrefixOfNothing DEF IsStrictPrefix, Path
  <2>3. /\ at' = root /\ pos' = 0 /\ best' = NoNode /\ call' = Call(op, s, d)
        /\ live' = live /\ path' = path /\ data' = data /\ root \in live
    BY <1>0, <1>1 DEF Begin, nodes, TypeOK
  <2>4. path[root] = <<>>
    BY <1>0 DEF Shape, RootShape
  <2> QED BY <2>1, <2>2, <2>3, <2>4 DEF WalkInv, ClosestAbove, Call, HasData
<1>2. CASE SkipEmptyToken
  BY <1>0, <1>2, TokenAt DEF SkipEmptyToken, WalkInv, nodes, ClosestAbove, HasData
<1>3. CASE Descend
  <2>1. /\ at \in live /\ Token \in Components /\ FindChild(at, Token) # NoNode
        /\ phase = "walk" /\ pos < Len(call.string) /\ Token # Empty
        /\ path[at] = Canonical(SubSeq(call.string, 1, pos))
    BY <1>0, <1>3, TokenIsComponent DEF Descend, AtToken, WalkInv
  <2>2. /\ at' \in live /\ path[at'] = Append(path[at], Token)
        /\ Canonical(SubSeq(call.string, 1, pos + 1)) = Append(path[at], Token)
    BY <1>0, <1>3, <2>1, TokenAt DEF Descend, Shape, ChildShape
  <2>3. ASSUME call.op = "match"
        PROVE  ClosestAbove(best', path[at'])
    <3>1. ClosestAbove(best, path[at]) /\ best' = IF HasData(at) THEN at ELSE best
      BY <1>0, <1>3, <2>1, <2>3 DEF WalkInv, Descend
    <3> QED BY <1>0, <2>1, <2>2, <3>1, ClosestBelow
  <2>4. live' = live /\ path' = path /\ data' = data /\ call' = call /\ pos' = pos + 1
    BY <1>3 DEF Descend, nodes
  <2> QED BY <2>2, <2>3, <2>4 DEF WalkInv, ClosestAbove, HasData
<1>4. CASE EmplaceChild
  <2>1. /\ at' \in live' /\ path'[at'] = Append(path[at], Token)
        /\ call' = call /\ pos' = pos + 1 /\ call.op # "match"
    BY <1>0, <1>4, Emplacing DEF EmplaceChild, Creates
  <2>2. Canonical(SubSeq(call.string, 1, pos + 1)) = Append(path[at], Token)
    BY <1>0, <1>4, TokenAt DEF EmplaceChild, AtToken, WalkInv
  <2> QED BY <2>1, <2>2 DEF WalkInv
<1>5. CASE UNCHANGED vars
  BY <1>0, <1>5 DEF WalkInv, vars, nodes, locals, ClosestAbove, HasData
<1>6. CASE NoSuchPath \/ TraverseTo \/ Find \/ LongestMatchingPrefix \/ NotContained
           \/ AskNode \/ Climb \/ GetClosestAncestor \/ Pruned \/ Insert \/ Update \/ ClearData
           \/ Prune \/ Move
  <2>1. phase' # "walk"
    BY <1>6 DEF NoSuchPath, TraverseTo, Find, LongestMatchingPrefix, NotContained, Return,
       AskNode, Climb, GetClosestAncestor, Pruned, Insert, Update, ClearData, Prune, Move, locals
  <2> QED BY <2>1 DEF WalkInv
<1> QED BY <1>1, <1>2, <1>3, <1>4, <1>5, <1>6 DEF Next, Step, Walk, Finish

LEMMA PruneNext ==
  ASSUME TInv, AfterMove \subseteq ParentFree, [Next]_vars
  PROVE  PruneInv'
<1>0. TypeOK /\ Shape /\ WalkInv /\ PruneInv /\ CallInv
  BY DEF TInv, Locals
<1>1. CASE ClearData
  BY <1>0, <1>1 DEF ClearData, AtEnd, WalkInv, PruneInv
<1>2. CASE Prune
  <2>1. parent[at] \in live' /\ at' = parent[at] /\ call' = call /\ phase = "prune"
    BY <1>0, <1>2, Pruning DEF Prune, Shape
  <2> QED BY <1>0, <2>1 DEF PruneInv
<1>3. CASE UNCHANGED vars
  BY <1>0, <1>3 DEF PruneInv, vars, nodes, locals
<1>4. CASE Quiet /\ ~UNCHANGED vars
  <2>1. phase' # "prune"
    BY <1>4 DEF Quiet, Begin, SkipEmptyToken, Descend, AtToken, NoSuchPath, TraverseTo, Find,
       LongestMatchingPrefix, NotContained, Return, AskNode, Climb, GetClosestAncestor, Pruned
  <2> QED BY <2>1 DEF PruneInv
<1>5. CASE EmplaceChild \/ Insert \/ Update \/ Move
  <2>1. phase' # "prune"
    BY <1>5 DEF EmplaceChild, AtToken, Insert, Update, Return, Move, locals
  <2> QED BY <2>1 DEF PruneInv
<1> QED BY <1>1, <1>2, <1>3, <1>4, <1>5, StepCases

\* What is above the argument stays at or above the node that the climb reaches.
LEMMA ClimbNext ==
  ASSUME TInv, AfterMove \subseteq ParentFree, [Next]_vars
  PROVE  ClimbInv'
<1>0. TypeOK /\ Shape /\ WalkInv /\ ClimbInv /\ CallInv
  BY DEF TInv, Locals
<1>1. CASE AskNode
  <2>1. /\ at \in live /\ path[at] = Argument /\ HasData(at) /\ call.op = "ancestor" /\ ~moved
        /\ at' = parent[at] /\ call' = call
        /\ live' = live /\ path' = path /\ data' = data
    BY <1>0, <1>1, AtArgument DEF AskNode, AtEnd, CallInv, ParentFree, nodes
  <2>2. /\ at' # NoNode => at' \in live /\ IsStrictPrefix(path[at'], Argument)
        /\ \A m \in live : HasData(m) /\ IsStrictPrefix(path[m], Argument) =>
             at' # NoNode /\ IsPrefix(path[m], path[at'])
    <3>1. CASE parent[at] = NoNode
      <4>1. Argument = <<>>
        BY <1>0, <2>1, <3>1, UpOne
      <4>2. \A m \in live : ~IsStrictPrefix(path[m], <<>>)
        BY <1>0, PathsAre, PrefixOfNothing DEF IsStrictPrefix, Path
      <4> QED BY <2>1, <3>1, <4>1, <4>2
    <3>2. CASE parent[at] # NoNode
      BY <1>0, <2>1, <3>2, UpOne, PathsAre
    <3> QED BY <3>1, <3>2
  <2>3. DataPath(Argument)
    BY <2>1 DEF DataPath
  <2> QED BY <2>1, <2>2, <2>3 DEF ClimbInv, Argument, DataPath, HasData
<1>2. CASE Climb
  <2>1. /\ at \in live /\ ~HasData(at) /\ call.op = "ancestor" /\ ~moved
        /\ at' = parent[at] /\ call' = call /\ DataPath(Argument)
        /\ IsStrictPrefix(path[at], Argument) /\ Argument \in Path
        /\ live' = live /\ path' = path /\ data' = data
    BY <1>0, <1>2, CallTypes, CanonicalGrows
       DEF Climb, ClimbInv, CallInv, ParentFree, nodes, Argument, Path
  <2>2. \A m \in live : HasData(m) /\ IsStrictPrefix(path[m], Argument) =>
          IsStrictPrefix(path[m], path[at])
    BY <1>0, <1>2, <2>1 DEF Climb, ClimbInv, IsStrictPrefix, Shape, Unique
  <2>3. /\ at' # NoNode => at' \in live /\ IsStrictPrefix(path[at'], Argument)
        /\ \A m \in live : HasData(m) /\ IsStrictPrefix(path[m], Argument) =>
             at' # NoNode /\ IsPrefix(path[m], path[at'])
    <3>1. CASE parent[at] = NoNode
      <4>1. path[at] = <<>>
        BY <1>0, <2>1, <3>1, UpOne
      <4>2. \A m \in live : ~IsStrictPrefix(path[m], <<>>)
        BY <1>0, PathsAre, PrefixOfNothing DEF IsStrictPrefix, Path
      <4> QED BY <2>1, <2>2, <3>1, <4>1, <4>2
    <3>2. CASE parent[at] # NoNode
      <4>1. /\ parent[at] \in live /\ IsStrictPrefix(path[parent[at]], path[at])
            /\ \A p \in Path : IsStrictPrefix(p, path[at]) <=> IsPrefix(p, path[parent[at]])
        BY <1>0, <2>1, <3>2, UpOne
      <4>2. path[parent[at]] \in Path /\ path[at] \in Path
        BY <1>0, <2>1, <4>1, PathsAre
      <4>3. IsPrefix(path[parent[at]], Argument)
        BY <2>1, <4>1, <4>2, PrefixTransitive DEF IsStrictPrefix, Path
      <4>4. path[parent[at]] # Argument
        BY <2>1, <4>1, <4>2 DEF IsStrictPrefix, IsPrefix, Path
      <4> QED BY <1>0, <2>1, <2>2, <3>2, <4>1, <4>3, <4>4, PathsAre DEF IsStrictPrefix
    <3> QED BY <3>1, <3>2
  <2> QED BY <2>1, <2>3 DEF ClimbInv, Argument, DataPath, HasData
<1>3. CASE UNCHANGED vars
  BY <1>0, <1>3 DEF ClimbInv, vars, nodes, locals, DataPath, Argument, HasData
<1>4. CASE Quiet /\ ~AskNode /\ ~Climb /\ ~UNCHANGED vars
  <2>1. phase' # "climb"
    BY <1>4 DEF Quiet, Begin, SkipEmptyToken, Descend, AtToken, NoSuchPath, TraverseTo, Find,
       LongestMatchingPrefix, NotContained, Return, GetClosestAncestor, Pruned
  <2> QED BY <2>1 DEF ClimbInv
<1>5. CASE EmplaceChild \/ Insert \/ Update \/ Move \/ ClearData \/ Prune
  <2>1. phase' # "climb"
    BY <1>5 DEF EmplaceChild, AtToken, Insert, Update, Return, Move, locals, ClearData, Prune
  <2> QED BY <2>1 DEF ClimbInv
<1> QED BY <1>1, <1>2, <1>3, <1>4, <1>5, StepCases

LEMMA CallNext ==
  ASSUME TInv, AfterMove \subseteq ParentFree, [Next]_vars
  PROVE  CallInv'
<1>0. TypeOK /\ ParentShape /\ PruneInv /\ CallInv
  BY DEF TInv, Locals, Shape
<1>1. ASSUME NEW op \in Operations, NEW s \in Strings, NEW d \in Data, Begin(op, s, d)
      PROVE  CallInv'
  BY <1>1 DEF Begin, nodes, CallInv, Call, Answer
<1>2. CASE Move
  BY <1>2 DEF Move, locals, CallInv
<1>3. CASE Prune
  <2>1. moved' = moved /\ call' = call /\ answer' = answer /\ phase # "idle"
    BY <1>0, <1>3, Pruning DEF Prune
  <2> QED BY <1>0, <2>1 DEF CallInv
<1>4. CASE SkipEmptyToken \/ Descend \/ EmplaceChild \/ ClearData \/ AskNode \/ Climb
           \/ UNCHANGED vars
  <2>1. /\ moved' = moved /\ call' = call /\ answer' = answer
        /\ phase # "idle" \/ phase' = phase
    BY <1>4 DEF SkipEmptyToken, Descend, EmplaceChild, ClearData, AskNode, Climb, vars, nodes,
       locals, AtToken, AtEnd
  <2> QED BY <1>0, <2>1 DEF CallInv
<1>5. CASE NoSuchPath \/ TraverseTo \/ Find \/ LongestMatchingPrefix \/ NotContained
           \/ GetClosestAncestor \/ Pruned \/ Insert \/ Update
  <2>1. phase' = "idle"
    BY <1>5 DEF NoSuchPath, TraverseTo, Find, LongestMatchingPrefix, NotContained, Return,
       GetClosestAncestor, Pruned, Insert, Update
  <2> QED BY <2>1 DEF CallInv
<1> QED BY <1>1, <1>2, <1>3, <1>4, <1>5 DEF Next, Step, Walk, Finish
-----------------------------------------------------------------------------
(* The theorems. *)

LEMMA InvInit == Init => TInv
<1> SUFFICES ASSUME Init PROVE TInv
  OBVIOUS
<1>1. TypeOK /\ Shape
  BY TypeInit, ShapeInit
<1>2. Branches /\ Locals
  BY DEF Init, Branches, Locals, WalkInv, PruneInv, ClimbInv, CallInv
<1> QED BY <1>1, <1>2 DEF TInv

LEMMA InvNext ==
  ASSUME TInv, AfterMove \subseteq ParentFree, [Next]_vars
  PROVE  TInv'
BY TypeNext, ShapeNext, BranchesNext, WalkNext, PruneNext, ClimbNext, CallNext DEF TInv, Locals

THEOREM Invariance ==
  ASSUME AfterMove \subseteq ParentFree
  PROVE  Spec => []TInv
<1>1. TInv /\ [Next]_vars => TInv'
  BY InvNext
<1> QED BY <1>1, InvInit, PTL DEF Spec

\* Every field of a prefix tree keeps the type it has in PrefixTree.h.
THEOREM TypeCorrect ==
  ASSUME AfterMove \subseteq ParentFree
  PROVE  Spec => []TypeOK
<1>1. TInv => TypeOK
  BY DEF TInv
<1> QED BY <1>1, Invariance, PTL

\* Erase and GetClosestAncestor follow parent pointers only to nodes that exist,
\* if nothing follows them after the tree was moved.
THEOREM NoDeadNodeIsVisited ==
  ASSUME AfterMove \subseteq ParentFree
  PROVE  Spec => []VisitsLiveNodes
<1>1. TInv => VisitsLiveNodes
  <2> SUFFICES ASSUME TInv PROVE at \in live \cup {NoNode}
    BY DEF VisitsLiveNodes
  <2>1. phase \in {"idle", "walk", "prune", "climb"} /\ (phase = "idle" => at = NoNode)
    BY DEF TInv, TypeOK
  <2> QED BY <2>1 DEF TInv, Locals, WalkInv, PruneInv, ClimbInv
<1> QED BY <1>1, Invariance, PTL

\* HasPathForPrefix finds a path only where objects exist beneath it, whatever
\* was inserted and erased before.
THEOREM EveryBranchLeadsToData ==
  ASSUME AfterMove \subseteq ParentFree
  PROVE  Spec => []BranchesLeadToData
<1>1. TInv => BranchesLeadToData
  BY DEF TInv, Branches, LeadsToData, OnTheWay, BranchesLeadToData
<1> QED BY <1>1, Invariance, PTL
-----------------------------------------------------------------------------
(* The tree implements the map. *)

Told == Answer(PathOf(answer.node), answer.modified)

\* The map uses the names of Prefixes as the tree does.
LEMMA PromiseNames ==
  /\ Promise!NoCall = NoCall /\ Promise!NoAnswer = NoAnswer
  /\ \A p, b : Promise!Answer(p, b) = Answer(p, b)
  /\ \A op, t, d : Promise!Call(op, t, d) = Call(op, t, d)
  /\ \A p, q : Promise!IsPrefix(p, q) <=> IsPrefix(p, q)
  /\ \A p, q : Promise!IsStrictPrefix(p, q) <=> IsStrictPrefix(p, q)
  /\ \A ps : Promise!Longest(ps) = Longest(ps)
  /\ Promise!Operations = Operations
<1>1. \A p, q : Promise!IsPrefix(p, q) <=> IsPrefix(p, q)
  BY DEF Promise!IsPrefix, IsPrefix
<1>2. \A p, q : Promise!IsStrictPrefix(p, q) <=> IsStrictPrefix(p, q)
  BY <1>1 DEF Promise!IsStrictPrefix, IsStrictPrefix
<1>3. \A ps : Promise!Longest(ps) = Longest(ps)
  BY DEF Promise!Longest, Longest
<1>4. Promise!NoCall = NoCall /\ Promise!Operations = Operations
  BY DEF Promise!NoCall, NoCall, Promise!Operations, Operations
<1>5. /\ \A p, b : Promise!Answer(p, b) = Answer(p, b)
      /\ Promise!NoAnswer = NoAnswer
      /\ \A op, t, d : Promise!Call(op, t, d) = Call(op, t, d)
  BY DEF Promise!Answer, Answer, Promise!NoAnswer, NoAnswer, Promise!Call, Call
<1> QED BY <1>1, <1>2, <1>3, <1>4, <1>5

LEMMA PendingIs ==
  /\ phase = "idle" => Pending = NoCall
  /\ phase = "prune" => Pending = [call EXCEPT !.op = "erased"]
  /\ phase \in {"walk", "climb"} => Pending = call
BY DEF Pending

LEMMA ContainedIs ==
  ASSUME NEW p
  PROVE  p \in Promise!Contained <=> DataPath(p)
<1>1. p \in Promise!Contained <=> \E n \in {m \in live : HasData(m)} : <<path[n], data[n]>>[1] = p
  BY DEF Promise!Contained, Entries
<1> QED BY <1>1 DEF DataPath

LEMMA EntriesSame ==
  ASSUME UNCHANGED <<live, data, path>>
  PROVE  Entries' = Entries
BY DEF Entries, HasData

\* Nodes without data may come and go.
LEMMA EntriesEmplace ==
  ASSUME TypeOK, WalkInv, EmplaceChild
  PROVE  Entries' = Entries
<1>1. /\ live' = live \cup {Fresh} /\ data'[Fresh] = NoData
      /\ \A n \in live : path'[n] = path[n] /\ data'[n] = data[n]
  BY Emplacing
<1> QED BY <1>1 DEF Entries, HasData

LEMMA EntriesPrune ==
  ASSUME TypeOK, Shape, PruneInv, CallInv, AfterMove \subseteq ParentFree, Prune
  PROVE  Entries' = Entries
<1>1. live' = live \ {at} /\ ~HasData(at) /\ at \in live /\ live \subseteq Addresses
      /\ data' = [data EXCEPT ![at] = NoData] /\ path' = [path EXCEPT ![at] = <<>>]
  BY Pruning DEF Shape, TypeOK
<1>2. \A n \in live' : path'[n] = path[n] /\ data'[n] = data[n]
  BY <1>1 DEF TypeOK
<1> QED BY <1>1, <1>2 DEF Entries, HasData

LEMMA EntriesMove ==
  ASSUME TypeOK, Shape, Move
  PROVE  Entries' = Entries
<1>1. /\ live' = (live \ {root}) \cup {Fresh} /\ Fresh \notin live /\ root \in live
      /\ path'[Fresh] = path[root] /\ data'[Fresh] = data[root]
      /\ \A n \in live : path'[n] = path[n] /\ data'[n] = data[n]
  BY FreshIsFree DEF Move, TypeOK
<1> QED BY <1>1 DEF Entries, HasData

\* What setting or clearing the datum of a node does to the entries.
LEMMA EntriesData ==
  ASSUME TypeOK, Shape, NEW n \in live, NEW d \in Data \cup {NoData}, SetData(n, d),
         UNCHANGED <<live, path>>
  PROVE  Entries' = Promise!Without(path[n]) \cup (IF d = NoData THEN {} ELSE {<<path[n], d>>})
<1>1. data'[n] = d /\ \A m \in live : m # n => data'[m] = data[m]
  BY DEF SetData, TypeOK
<1>2. \A m \in live : path[m] = path[n] <=> m = n
  BY DEF Shape, Unique
<1>3. Promise!Without(path[n]) = {<<path[m], data[m]>> : m \in {a \in live : HasData(a) /\ a # n}}
  BY <1>2 DEF Promise!Without, Entries
<1>4. Entries' = {<<path[m], data'[m]>> : m \in {a \in live : data'[a] # NoData}}
  BY DEF Entries, HasData
<1> QED BY <1>1, <1>3, <1>4 DEF HasData

\* A call that runs has told nothing yet.
LEMMA ToldNothing ==
  ASSUME CallInv, phase # "idle"
  PROVE  Told = NoAnswer
BY DEF Told, CallInv, PathOf, NoAnswer, Answer

LEMMA ReturnMaps ==
  ASSUME TypeOK, NEW n \in Pointer, NEW b \in BOOLEAN, Return(n, b), path' = path
  PROVE  Pending' = NoCall /\ Told' = Answer(PathOf(n), b)
<1>1. Pending' = NoCall
  BY PendingIs DEF Return, Pending
<1>2. answer' = [node |-> n, modified |-> b]
  BY DEF Return, Answer
<1> QED BY <1>1, <1>2 DEF Told, PathOf, Answer

\* The closest node with data above a path is the longest of its strict prefixes.
LEMMA ClosestIsLongest ==
  ASSUME TypeOK, Shape, NEW p \in Path, NEW n, ClosestAbove(n, p)
  PROVE  PathOf(n) = Longest({q \in Promise!Contained : IsStrictPrefix(q, p)})
<1> DEFINE ps == {q \in Promise!Contained : IsStrictPrefix(q, p)}
<1>1. \A q : q \in ps <=> \E m \in live : HasData(m) /\ path[m] = q /\ IsStrictPrefix(q, p)
  BY ContainedIs DEF DataPath
<1> HIDE DEF ps
<1>2. NoNode \notin live
  BY AddressesAssumption DEF TypeOK
<1>3. CASE n = NoNode
  <2>1. ps = {}
    BY <1>1, <1>2, <1>3 DEF ClosestAbove
  <2> QED BY <1>3, <2>1 DEF Longest, PathOf, ps
<1>4. CASE n # NoNode
  <2>1. /\ n \in live /\ path[n] \in ps
        /\ \A q \in ps : q \in Path /\ IsPrefix(q, p) /\ Len(q) <= Len(path[n])
    BY <1>1, <1>4, PathsAre DEF ClosestAbove, IsStrictPrefix
  <2>2. ps \in SUBSET Path
    BY <2>1
  <2>3. Longest(ps) = path[n]
    BY <2>1, <2>2, LongestIs DEF Path
  <2> QED BY <1>4, <2>3 DEF PathOf, ps
<1> QED BY <1>3, <1>4

LEMMA ArgumentIs ==
  ASSUME TypeOK, phase \in {"walk", "climb"}
  PROVE  /\ Pending = call /\ Promise!Argument = Argument /\ Argument \in Path
         /\ \A op : Promise!Running(op) <=> call.op = op
<1>1. Pending = call /\ call.string \in Strings
  BY PendingIs, CallTypes
<1> QED BY <1>1, CanonicalGrows DEF Promise!Argument, Argument, Promise!Running, Path

LEMMA DataAt ==
  ASSUME TypeOK, Shape, NEW n \in live
  PROVE  HasData(n) <=> DataPath(path[n])
BY DEF DataPath, Shape, Unique

\* A tree in which the walk found no child has no path to the argument or beyond.
LEMMA NoPathToArgument ==
  ASSUME TypeOK, Shape, WalkInv, AtToken, FindChild(at, Token) = NoNode
  PROVE  /\ at \in live /\ \A m \in live : ~IsPrefix(Argument, path[m])
         /\ \A p \in Path : IsPrefix(p, path[at]) => IsStrictPrefix(p, Argument)
         /\ \A m \in live : IsPrefix(path[m], Argument) => IsPrefix(path[m], path[at])
<1>1. /\ at \in live /\ Token \in Components /\ call.string \in Strings
      /\ pos + 1 \in 0..Len(call.string) /\ path[at] \in Path
      /\ Canonical(SubSeq(call.string, 1, pos + 1)) = Append(path[at], Token)
  BY TokenAt, TokenIsComponent, PathsAre DEF AtToken, WalkInv
<1> DEFINE q == Append(path[at], Token)
<1>2. q \in Path /\ Argument \in Path /\ IsPrefix(q, Argument)
  <2>1. /\ IsPrefix(Canonical(SubSeq(call.string, 1, pos + 1)), Argument)
        /\ Argument \in Path
    BY <1>1, CanonicalGrows DEF Argument, Path
  <2>2. q \in Path
    BY <1>1 DEF Path
  <2> QED BY <1>1, <2>1, <2>2
<1>3. \A p \in Path : /\ IsStrictPrefix(p, q) <=> IsPrefix(p, path[at])
                     /\ IsPrefix(p, q) <=> IsPrefix(p, path[at]) \/ p = q
  BY <1>1, StrictAppend, PrefixAppend DEF Path
<1>8. \A p \in Path : IsPrefix(p, q) => IsPrefix(p, path[at]) \/ p = q
  BY <1>1, PrefixAppend DEF Path
<1>4. \A m \in live : path[m] \in Path /\ ~IsPrefix(q, path[m])
  BY <1>1, NothingBelow, PathsAre
<1> HIDE DEF q
<1>5. ASSUME NEW m \in live PROVE ~IsPrefix(Argument, path[m])
  BY <1>2, <1>4, <1>5, PrefixTransitive DEF Path
<1>6. ASSUME NEW p \in Path, IsPrefix(p, path[at]) PROVE IsStrictPrefix(p, Argument)
  <2>1. IsPrefix(p, q) /\ p # q
    BY <1>3, <1>6 DEF IsStrictPrefix
  <2>2. IsPrefix(p, Argument)
    BY <1>2, <2>1, PrefixTransitive DEF Path
  <2>3. p # Argument
    BY <1>2, <2>1, PrefixSameLength DEF IsPrefix, Path
  <2> QED BY <2>2, <2>3 DEF IsStrictPrefix
<1>7. ASSUME NEW m \in live, IsPrefix(path[m], Argument) PROVE IsPrefix(path[m], path[at])
  <2>1. IsPrefix(path[m], q) \/ IsPrefix(q, path[m])
    <3>1. Len(path[m]) \in Nat /\ Len(q) \in Nat
      BY <1>2, <1>4 DEF Path
    <3>2. Len(path[m]) <= Len(q) \/ Len(q) <= Len(path[m])
      BY <3>1
    <3> QED BY <1>2, <1>4, <1>7, <3>2, PrefixComparable DEF Path
  <2>2. path[m] \in Path /\ IsPrefix(q, q)
    BY <1>2, <1>4, PrefixReflexive DEF Path
  <2>3. IsPrefix(path[m], q) /\ path[m] # q
    BY <1>4, <2>1, <2>2
  <2> QED BY <1>8, <2>2, <2>3
<1> QED BY <1>1, <1>5, <1>6, <1>7

LEMMA MapInit == Init => Promise!Init
<1> SUFFICES ASSUME Init PROVE Promise!Init
  OBVIOUS
<1>1. root \in Addresses /\ live = {root} /\ data[root] = NoData /\ phase = "idle"
  BY AddressesAssumption DEF Init
<1>2. Entries = {}
  BY <1>1 DEF Entries, HasData
<1>3. Pending = NoCall
  BY <1>1, PendingIs
<1>4. Told = NoAnswer
  BY DEF Init, Told, PathOf, Answer, NoAnswer
<1> QED BY <1>2, <1>3, <1>4, PromiseNames DEF Promise!Init, Told

\* The steps in which a call is on its way change nothing that the map shows.
LEMMA MapStutter ==
  ASSUME TInv, AfterMove \subseteq ParentFree,
         SkipEmptyToken \/ Descend \/ EmplaceChild \/ Prune \/ AskNode \/ Climb \/ UNCHANGED vars
  PROVE  UNCHANGED <<Entries, Pending, Told>>
<1>0. TypeOK /\ Shape /\ WalkInv /\ PruneInv /\ CallInv /\ CallInv'
  <2>1. [Next]_vars
    BY DEF Next, Step, Walk, Finish
  <2> QED BY <2>1, CallNext DEF TInv, Locals
<1>1. Entries' = Entries
  BY <1>0, EntriesSame, EntriesEmplace, EntriesPrune
     DEF SkipEmptyToken, Descend, AskNode, Climb, vars, nodes
<1>2. Pending' = Pending
  BY DEF Pending, SkipEmptyToken, Descend, EmplaceChild, AtToken, Prune, AskNode, AtEnd, Climb, vars, locals
<1>3. Told' = Told
  <2>1. CASE UNCHANGED vars
    BY <2>1 DEF vars, nodes, Told, PathOf
  <2>2. CASE ~UNCHANGED vars
    <3>1. phase # "idle" /\ phase' # "idle"
      BY <2>2 DEF SkipEmptyToken, Descend, EmplaceChild, AtToken, Prune, AskNode, AtEnd, Climb
    <3>2. (Told)' = NoAnswer
      BY <1>0, <3>1 DEF Told, CallInv, PathOf, NoAnswer, Answer
    <3> QED BY <1>0, <3>1, <3>2, ToldNothing
  <2> QED BY <2>1, <2>2
<1> QED BY <1>1, <1>2, <1>3

\* A return of the tree is a return of the map.
LEMMA PromiseReturn ==
  ASSUME TypeOK, NEW n \in Pointer, NEW b \in BOOLEAN, Return(n, b), path' = path,
         NEW q, q = PathOf(n)
  PROVE  Promise!Return(q, b)
<1>1. Pending' = NoCall /\ Told' = Answer(q, b)
  BY ReturnMaps
<1> QED BY <1>1, PromiseNames DEF Promise!Return, Told

LEMMA MapBegin ==
  ASSUME TInv, NEW op \in Operations, NEW s \in Strings, NEW d \in Data, Begin(op, s, d)
  PROVE  Promise!Begin(op, s, d)
<1>1. Pending = NoCall /\ Pending' = Call(op, s, d)
  BY DEF Begin, Pending
<1>2. Told' = NoAnswer
  BY DEF Begin, Told, PathOf, Answer, NoAnswer
<1>3. Entries' = Entries
  BY EntriesSame DEF Begin, nodes
<1> QED BY <1>1, <1>2, <1>3, PromiseNames DEF Promise!Begin, Told

LEMMA MapMove ==
  ASSUME TInv, Move
  PROVE  Promise!HandOn
<1>1. Pending = NoCall /\ Pending' = NoCall
  BY DEF Move, locals, Pending
<1>2. Told' = NoAnswer
  BY DEF Move, Told, PathOf, Answer, NoAnswer
<1>3. Entries' = Entries
  BY EntriesMove DEF TInv
<1> QED BY <1>1, <1>2, <1>3, PromiseNames DEF Promise!HandOn, Told

LEMMA MapData ==
  ASSUME TInv, AfterMove \subseteq ParentFree, Insert \/ Update \/ ClearData \/ Pruned
  PROVE  Promise!Insert \/ Promise!Update \/ Promise!Erase \/ Promise!Erased
<1>0. TypeOK /\ Shape /\ WalkInv /\ PruneInv /\ CallInv
  BY DEF TInv, Locals
<1>1. CASE Pruned
  <2>1. phase = "prune" /\ call.op = "erase" /\ Pending.op = "erased" /\ path' = path
    BY <1>0, <1>1, PendingIs, CallTypes DEF Pruned, PruneInv, nodes
  <2>2. Promise!Return(NoPath, TRUE)
    BY <1>0, <1>1, <2>1, PromiseReturn DEF Pruned, Pointer, PathOf
  <2>3. Entries' = Entries
    BY <1>1, EntriesSame DEF Pruned, nodes
  <2> QED BY <2>1, <2>2, <2>3 DEF Promise!Erased, Promise!Running
<1>2. CASE Insert \/ Update \/ ClearData
  <2>1. AtEnd /\ phase = "walk" /\ live' = live /\ path' = path
    BY <1>2 DEF Insert, Update, ClearData, AtEnd
  <2>2. /\ at \in live /\ at \in Pointer /\ path[at] = Argument /\ call.datum \in Data
        /\ Promise!Argument = Argument /\ \A op : Promise!Running(op) <=> call.op = op
        /\ HasData(at) <=> Argument \in Promise!Contained
        /\ PathOf(at) = Argument /\ Pending = call /\ call.datum # NoData
    BY <1>0, <2>1, AtArgument, ArgumentIs, DataAt, ContainedIs, AddressesAssumption,
       CallTypes, NoDataAssumption DEF TypeOK, PathOf
  <2>3. CASE Insert /\ HasData(at)
    <3>1. Promise!Return(Argument, FALSE)
      BY <1>0, <2>1, <2>2, <2>3, PromiseReturn DEF Insert
    <3>2. Entries' = Entries
      BY <2>1, <2>3, EntriesSame DEF Insert
    <3> QED BY <2>2, <2>3, <3>1, <3>2 DEF Promise!Insert, Insert
  <2>4. CASE Insert /\ ~HasData(at)
    <3>1. Promise!Return(Argument, TRUE) /\ SetData(at, call.datum) /\ call.op = "insert"
      BY <1>0, <2>1, <2>2, <2>4, PromiseReturn DEF Insert
    <3>2. Entries' = Promise!Without(Argument) \cup {<<Argument, call.datum>>}
      BY <1>0, <2>1, <2>2, <3>1, EntriesData
    <3>3. Promise!Without(Argument) = Entries
      BY <2>2, <2>4 DEF Promise!Without, Promise!Contained
    <3> QED BY <2>2, <2>4, <3>1, <3>2, <3>3 DEF Promise!Insert
  <2>5. CASE Update
    <3>1. Promise!Return(Argument, TRUE) /\ SetData(at, call.datum) /\ call.op = "update"
      BY <1>0, <2>1, <2>2, <2>5, PromiseReturn DEF Update
    <3>2. Entries' = Promise!Without(Argument) \cup {<<Argument, call.datum>>}
      BY <1>0, <2>1, <2>2, <3>1, EntriesData
    <3> QED BY <2>2, <3>1, <3>2 DEF Promise!Update
  <2>6. CASE ClearData
    <3>1. /\ SetData(at, NoData) /\ call.op = "erase" /\ HasData(at)
          /\ phase' = "prune" /\ call' = call /\ answer' = answer
      BY <2>6 DEF ClearData
    <3>2. Entries' = Promise!Without(Argument)
      BY <1>0, <2>1, <2>2, <3>1, EntriesData
    <3>3. Pending' = [Pending EXCEPT !.op = "erased"]
      BY <2>2, <3>1 DEF Pending
    <3>4. Told' = Told
      BY <2>1, <3>1 DEF Told, PathOf
    <3> QED BY <2>2, <3>1, <3>2, <3>3, <3>4 DEF Promise!Erase, Told
  <2> QED BY <1>2, <2>3, <2>4, <2>5, <2>6
<1> QED BY <1>1, <1>2

\* The questions are answered from the entries.
LEMMA MapAnswer ==
  ASSUME TInv, AfterMove \subseteq ParentFree,
         \/ NoSuchPath \/ NotContained \/ TraverseTo \/ Find
         \/ LongestMatchingPrefix \/ GetClosestAncestor
  PROVE  \/ Promise!Find \/ Promise!Traverse \/ Promise!Erase \/ Promise!Match
         \/ Promise!Ancestor
<1>0. TypeOK /\ Shape /\ Branches /\ WalkInv /\ ClimbInv
  BY DEF TInv, Locals
<1>1. Entries' = Entries /\ path' = path
  BY EntriesSame DEF NoSuchPath, NotContained, TraverseTo, Find, LongestMatchingPrefix,
     GetClosestAncestor, nodes
<1>2. phase \in {"walk", "climb"}
  BY DEF NoSuchPath, NotContained, TraverseTo, Find, LongestMatchingPrefix,
     GetClosestAncestor, AtToken, AtEnd
<1>3. /\ Promise!Argument = Argument /\ Argument \in Path
      /\ \A op : Promise!Running(op) <=> call.op = op
      /\ \A p : p \in Promise!Contained <=> DataPath(p)
      /\ \A m \in live : path[m] \in Path
      /\ NoNode \in Pointer /\ PathOf(NoNode) = NoPath
  BY <1>0, <1>2, ArgumentIs, ContainedIs, PathsAre DEF Pointer, PathOf
<1>e. /\ phase = "walk" => Len(call.string) \in Nat /\ pos \in Nat /\ pos <= Len(call.string)
      /\ ~(AtEnd /\ AtToken)
  BY <1>0, StringsAssumption DEF TypeOK, AtEnd, AtToken
<1>4. CASE AtEnd /\ ~GetClosestAncestor
  <2>1. /\ at \in live /\ at \in Pointer /\ path[at] = Argument /\ PathOf(at) = Argument
        /\ HasData(at) <=> DataPath(Argument)
    BY <1>0, <1>4, AtArgument, DataAt, AddressesAssumption DEF TypeOK, PathOf
  <2>2. CASE NotContained
    <3>1. Promise!Return(NoPath, FALSE) /\ call.op \in {"erase", "ancestor"} /\ ~DataPath(Argument)
      BY <1>0, <1>1, <1>3, <2>1, <2>2, PromiseReturn DEF NotContained
    <3> QED BY <1>1, <1>3, <3>1 DEF Promise!Erase, Promise!Ancestor
  <2>3. CASE Find
    <3>1. call.op = "find" /\ Promise!Return(IF DataPath(Argument) THEN Argument ELSE NoPath, FALSE)
      <4>1. CASE HasData(at)
        BY <1>0, <1>1, <2>1, <2>3, <4>1, PromiseReturn DEF Find
      <4>2. CASE ~HasData(at)
        BY <1>0, <1>1, <1>3, <2>1, <2>3, <4>2, PromiseReturn DEF Find
      <4> QED BY <4>1, <4>2
    <3> QED BY <1>1, <1>3, <3>1 DEF Promise!Find
  <2>4. CASE TraverseTo
    <3>1. call.op = "traverse" /\ Promise!Return(Argument, FALSE)
      BY <1>0, <1>1, <2>1, <2>4, PromiseReturn DEF TraverseTo
    <3>2. Argument = <<>> \/ \E p \in Promise!Contained : IsPrefix(Argument, p)
      <4>1. CASE at = root
        BY <1>0, <2>1, <4>1 DEF Shape, RootShape
      <4>2. CASE at # root
        <5>1. LeadsToData(at)
          BY <1>0, <1>4, <2>1, <2>4, <4>2 DEF Branches, OnTheWay, Creates, TraverseTo, AtEnd
        <5> QED BY <1>3, <2>1, <5>1 DEF LeadsToData, DataPath
      <4> QED BY <4>1, <4>2
    <3> QED BY <1>1, <1>3, <3>1, <3>2, PromiseNames DEF Promise!Traverse
  <2>5. CASE LongestMatchingPrefix
    <3> DEFINE ps == {p \in Promise!Contained : IsPrefix(p, Argument)}
    <3>1. call.op = "match" /\ Promise!Return(Longest(ps), FALSE)
      <4>1. /\ call.op = "match" /\ ClosestAbove(best, Argument)
            /\ Return(IF HasData(at) THEN at ELSE best, FALSE) /\ best \in Pointer
        BY <1>0, <1>4, <2>1, <2>5 DEF LongestMatchingPrefix, WalkInv, AtEnd, TypeOK
      <4>2. CASE HasData(at)
        <5>1. /\ Argument \in ps /\ ps \in SUBSET Path
              /\ \A p \in ps : IsPrefix(p, Argument) /\ Len(p) <= Len(Argument)
          BY <1>3, <2>1, <4>2, PrefixReflexive DEF DataPath, IsPrefix, Path
        <5>2. Longest(ps) = Argument
          BY <1>3, <5>1, LongestIs DEF Path
        <5> QED BY <1>0, <1>1, <2>1, <4>1, <4>2, <5>2, PromiseReturn
      <4>3. CASE ~HasData(at)
        <5>1. ps = {p \in Promise!Contained : IsStrictPrefix(p, Argument)}
          BY <1>3, <2>1, <4>3 DEF IsStrictPrefix
        <5>2. PathOf(best) = Longest(ps)
          BY <1>0, <1>3, <4>1, <5>1, ClosestIsLongest
        <5> QED BY <1>0, <1>1, <4>1, <4>3, <5>2, PromiseReturn
      <4> QED BY <4>2, <4>3, <4>1
    <3> QED BY <1>1, <1>3, <3>1, PromiseNames DEF Promise!Match
  <2>6. ~NoSuchPath
    BY <1>e, <1>4, Zenon DEF NoSuchPath
  <2> QED BY <1>4, <2>2, <2>3, <2>4, <2>5, <2>6
<1>5. CASE phase = "walk" /\ AtToken /\ FindChild(at, Token) = NoNode
  <2>1. /\ at \in live /\ \A m \in live : ~IsPrefix(Argument, path[m])
        /\ \A p \in Path : IsPrefix(p, path[at]) => IsStrictPrefix(p, Argument)
        /\ \A m \in live : IsPrefix(path[m], Argument) => IsPrefix(path[m], path[at])
    BY <1>0, <1>5, NoPathToArgument
  <2>2. /\ ~DataPath(Argument) /\ Argument # <<>>
        /\ ~\E p \in Promise!Contained : IsPrefix(Argument, p)
    <3>1. IsPrefix(Argument, Argument)
      BY <1>3, PrefixReflexive DEF Path
    <3>2. path[root] = <<>> /\ root \in live
      BY <1>0 DEF Shape, RootShape, TypeOK
    <3> QED BY <1>3, <2>1, <3>1, <3>2 DEF DataPath
  <2>3. CASE NoSuchPath
    <3>1. /\ Promise!Return(NoPath, FALSE)
          /\ call.op \in {"find", "traverse", "erase", "ancestor"}
      BY <1>0, <1>1, <1>3, <2>3, PromiseReturn DEF NoSuchPath
    <3>2. CASE call.op = "find"
      BY <1>1, <1>3, <2>2, <3>1, <3>2 DEF Promise!Find
    <3>3. CASE call.op = "traverse"
      BY <1>1, <1>3, <2>2, <3>1, <3>3, PromiseNames DEF Promise!Traverse
    <3>4. CASE call.op = "erase"
      BY <1>1, <1>3, <2>2, <3>1, <3>4 DEF Promise!Erase
    <3>5. CASE call.op = "ancestor"
      BY <1>1, <1>3, <2>2, <3>1, <3>5 DEF Promise!Ancestor
    <3> QED BY <3>1, <3>2, <3>3, <3>4, <3>5
  <2>4. CASE LongestMatchingPrefix
    <3> DEFINE n == IF HasData(at) THEN at ELSE best
               ps == {p \in Promise!Contained : IsPrefix(p, Argument)}
    <3>1. /\ call.op = "match" /\ ClosestAbove(best, path[at])
          /\ Return(n, FALSE) /\ n \in Pointer
      BY <1>0, <1>5, <2>1, <2>4, AddressesAssumption DEF LongestMatchingPrefix, WalkInv, TypeOK, Pointer
    <3>2. ClosestAbove(n, Argument)
      <4>1. \A m \in live : IsStrictPrefix(path[m], Argument) <=> IsPrefix(path[m], path[at])
        BY <1>3, <2>1 DEF IsStrictPrefix
      <4>2. \A m \in live : IsPrefix(path[m], path[at]) => IsStrictPrefix(path[m], path[at]) \/ m = at
        BY <1>0, <2>1 DEF IsStrictPrefix, Shape, Unique
      <4>3. IsPrefix(path[at], path[at])
        BY <1>3, <2>1, PrefixReflexive DEF Path
      <4>4. CASE HasData(at)
        <5>1. \A m \in live : IsPrefix(path[m], path[at]) => Len(path[m]) <= Len(path[at])
          BY DEF IsPrefix
        <5> QED BY <2>1, <4>1, <4>3, <4>4, <5>1 DEF ClosestAbove
      <4>5. CASE ~HasData(at)
        <5>1. \A m \in live : HasData(m) =>
                (IsStrictPrefix(path[m], Argument) <=> IsStrictPrefix(path[m], path[at]))
          BY <4>1, <4>2, <4>5 DEF IsStrictPrefix
        <5> QED BY <3>1, <4>5, <5>1 DEF ClosestAbove
      <4> QED BY <4>4, <4>5
    <3>3. ps = {p \in Promise!Contained : IsStrictPrefix(p, Argument)}
      BY <1>3, <2>2 DEF IsStrictPrefix
    <3>4. PathOf(n) = Longest(ps)
      BY <1>0, <1>3, <3>2, <3>3, ClosestIsLongest
    <3>5. Promise!Return(Longest(ps), FALSE)
      BY <1>0, <1>1, <3>1, <3>4, PromiseReturn
    <3> QED BY <1>1, <1>3, <3>1, <3>5, PromiseNames DEF Promise!Match
  <2>5. ~NotContained /\ ~TraverseTo /\ ~Find /\ ~GetClosestAncestor
    <3>1. ~AtEnd /\ phase # "climb"
      BY <1>e, <1>5
    <3> QED BY <3>1 DEF NotContained, TraverseTo, Find, GetClosestAncestor
  <2> QED BY <2>3, <2>4, <2>5
<1>6. CASE GetClosestAncestor
  <2> DEFINE ps == {p \in Promise!Contained : IsStrictPrefix(p, Argument)}
  <2>1. /\ call.op = "ancestor" /\ DataPath(Argument) /\ Return(at, FALSE) /\ at \in Pointer
        /\ at # NoNode => at \in live /\ HasData(at) /\ IsStrictPrefix(path[at], Argument)
        /\ \A m \in live : HasData(m) /\ IsStrictPrefix(path[m], Argument) =>
             at # NoNode /\ IsPrefix(path[m], path[at])
    BY <1>0, <1>6 DEF GetClosestAncestor, ClimbInv, TypeOK
  <2>2. ClosestAbove(at, Argument)
    BY <2>1 DEF ClosestAbove, IsPrefix
  <2>3. PathOf(at) = Longest(ps)
    BY <1>0, <1>3, <2>2, ClosestIsLongest
  <2>4. Promise!Return(Longest(ps), FALSE)
    BY <1>0, <1>1, <2>1, <2>3, PromiseReturn
  <2> QED BY <1>1, <1>3, <2>1, <2>4, PromiseNames DEF Promise!Ancestor
<1>7. \/ AtEnd \/ GetClosestAncestor
      \/ phase = "walk" /\ AtToken /\ FindChild(at, Token) = NoNode
  <2>1. CASE LongestMatchingPrefix
    BY <1>e, <2>1 DEF LongestMatchingPrefix, AtEnd
  <2>2. CASE NoSuchPath
    BY <2>2 DEF NoSuchPath, AtToken
  <2> QED BY <2>1, <2>2 DEF NotContained, TraverseTo, Find
<1> QED BY <1>4, <1>5, <1>6, <1>7

\* Every call of the tree, cut anywhere, is one of the map: Insert, Emplace,
\* Update, Erase, Find, TraverseTo, LongestMatchingPrefix, GetClosestAncestor.
THEOREM TreeImplementsMap ==
  ASSUME AfterMove \subseteq ParentFree
  PROVE  Spec => ImplementsMap
<1>1. ASSUME TInv, [Next]_vars
      PROVE  [Promise!Next]_Promise!mapVars
  <2>1. ASSUME NEW op \in Operations, NEW s \in Strings, NEW d \in Data, Begin(op, s, d)
        PROVE  Promise!Next
    BY <1>1, <2>1, MapBegin, PromiseNames DEF Promise!Next
  <2>2. CASE Move
    BY <1>1, <2>2, MapMove DEF Promise!Next
  <2>3. CASE Insert \/ Update \/ ClearData \/ Pruned
    BY <1>1, <2>3, MapData DEF Promise!Next
  <2>4. CASE \/ NoSuchPath \/ NotContained \/ TraverseTo \/ Find
             \/ LongestMatchingPrefix \/ GetClosestAncestor
    BY <1>1, <2>4, MapAnswer DEF Promise!Next
  <2>5. CASE SkipEmptyToken \/ Descend \/ EmplaceChild \/ Prune \/ AskNode \/ Climb \/ UNCHANGED vars
    BY <1>1, <2>5, MapStutter DEF Promise!mapVars, Told
  <2> QED BY <1>1, <2>1, <2>2, <2>3, <2>4, <2>5 DEF Next, Step, Walk, Finish
<1> QED BY <1>1, MapInit, Invariance, PTL DEF Spec, ImplementsMap, Promise!Spec
=============================================================================
