------------------------------- MODULE SimTree -------------------------------
(***************************************************************************)
(* The tree that the simulator builds at once, instead of letting nodes    *)
(* join one after another (createSimTree, oldsim/cases/structure.cpp), the *)
(* overlays that hold it (SimOverlayBranch, SimOverlayLeaf), the           *)
(* dispatchers that are filled with its information (PolicyFactory.cpp),   *)
(* the file that keeps it for other simulations (StarsNode.cpp) and the    *)
(* check of it (networkCheck, oldsim/cases/test.cpp).                      *)
(*                                                                         *)
(* The information of a link is the set of leaves that it speaks of.       *)
(***************************************************************************)
EXTENDS Integers, Sequences, FiniteSets, SequencesExt, FiniteSetsExt

CONSTANTS
  Sizes,       \* the values of property num_nodes; one node reads past its level
  Downwards    \* whether the policy tells of the rest of the tree (MMP, FSP) or not

ASSUME SimTreeAssumption == Sizes \subseteq Nat \ {0, 1} /\ Downwards \subseteq BOOLEAN

VARIABLES
  size,        \* Simulator::getNumNodes()
  down,        \* the policy, of Downwards
  leafFather,  \* SimOverlayLeaf::father of each node
  branch,      \* SimOverlayBranch of each node
  disp,        \* the links of the Dispatcher of each node
  level,       \* what is left of currentLevel, and what it becomes
  avail,       \* availBranches from nextAvail on
  sorted,      \* the dispatchers that are still to be visited
  stage        \* what createSimTree, and then the simulations, are doing

treeVars == <<size, down, leafFather, branch, disp, level, avail, sorted, stage>>

NoOne == -1    \* CommAddress()
Nothing == {}  \* an empty pointer: no information is about no leaf
Peers == 0 .. size - 1
Sides == {1, 2}
Other(c) == 3 - c

Offline == [father |-> NoOne, child |-> <<NoOne, NoOne>>, zone |-> <<<<>>, <<>>>>]
NoLinks == [father |-> Nothing, waiting |-> Nothing,
            child |-> <<Nothing, Nothing>>, childWaiting |-> <<Nothing, Nothing>>]

InNetwork(b) == b.child[1] # NoOne
IsLeaf(b, c) == b.zone[c][1] = b.zone[c][2]

\* ZoneDescription(l, r) when l comes before r
Joined(l, r) == <<l[1], r[2]>>
GetZone(b) == Joined(b.zone[1], b.zone[2])

Power2[n \in Nat] == IF n <= 1 THEN 1 ELSE 2 * Power2[n \div 2]

-----------------------------------------------------------------------------
(* The branches.                                                           *)

\* A place of the first level: a node alone, or the branch of two.
Spot(node, isBranch) == [node |-> node, branch |-> isBranch]
Width(additional, i) == IF additional[i] THEN 2 ELSE 1
FirstOf(additional, i) == FoldLeftDomain(LAMBDA n, k : IF k < i THEN n + Width(additional, k) ELSE n,
                                         0, additional)

\* SimOverlayBranch::build
Built(b, l, lb, r, rb) ==
  LET zone(n, isBranch) == IF isBranch THEN GetZone(branch[n]) ELSE <<n, n>> IN
  [b EXCEPT !.child = <<l, r>>, !.zone = <<zone(l, lb), zone(r, rb)>>]

\* The places that get a second node, and the order of the branches.
TreeInit ==
  /\ size \in Sizes /\ down \in Downwards
  /\ \E additional \in [1 .. Power2[size] -> BOOLEAN] :
       LET places == 1 .. Power2[size]
           pairs == {i \in places : additional[i]}
           first(i) == FirstOf(additional, i)
           firsts == {first(i) : i \in pairs}
       IN
       /\ Cardinality(pairs) = size - Power2[size]
       /\ level = [left |-> [i \in places |-> Spot(first(i), additional[i])], built |-> <<>>]
       /\ leafFather = [n \in Peers |-> IF n \in firsts THEN n
                                        ELSE IF n - 1 \in firsts THEN n - 1 ELSE NoOne]
       /\ branch = [n \in Peers |->
            IF n \in firsts
            THEN [Offline EXCEPT !.child = <<n, n + 1>>, !.zone = <<<<n, n>>, <<n + 1, n + 1>>>>]
            ELSE Offline]
       /\ avail \in {[i \in places |-> first(p[i]) + Width(additional, p[i]) - 1] :
                       p \in {q \in [places -> places] : IsInjective(q)}}
  /\ disp = [n \in Peers |-> NoLinks] /\ sorted = <<>> /\ stage = "branches"

NextAvail == Head(avail)

\* The variant that pairs the new branch with the next place of its own level.
PairedAtOnce(lev, f) ==
  LET rest == SubSeq(lev.left, 3, Len(lev.left)) IN
  IF rest = <<>> THEN [left |-> rest, built |-> Append(lev.built, Spot(f, TRUE))]
  ELSE [left |-> <<Spot(f, TRUE)>> \o rest, built |-> lev.built]

\* The level after branch f is the father of its first two places.
Paired(lev, f) ==
  [left |-> SubSeq(lev.left, 3, Len(lev.left)), built |-> Append(lev.built, Spot(f, TRUE))]

\* Two places of a level get the next branch as their father.
Pair ==
  LET l == level.left[1]
      r == level.left[2]
      f == NextAvail
      of(n, isBranch) == \E p \in {l, r} : p.node = n /\ p.branch = isBranch
      adopted == [n \in Peers |-> IF of(n, TRUE) THEN [branch[n] EXCEPT !.father = f] ELSE branch[n]]
  IN
  /\ stage = "branches" /\ Len(level.left) > 1
  /\ leafFather' = [n \in Peers |-> IF of(n, FALSE) THEN f ELSE leafFather[n]]
  /\ branch' = [adopted EXCEPT ![f] = Built(@, l.node, l.branch, r.node, r.branch)]
  /\ level' = Paired(level, f)
  /\ avail' = Tail(avail)
  /\ UNCHANGED <<size, down, disp, sorted, stage>>

NextLevel ==
  /\ stage = "branches" /\ level.left = <<>> /\ Len(level.built) > 1
  /\ level' = [left |-> level.built, built |-> <<>>]
  /\ UNCHANGED <<size, down, leafFather, branch, disp, avail, sorted, stage>>

-----------------------------------------------------------------------------
(* The dispatchers.                                                        *)

\* The branches from the root on, each before those that hang from it.
SortedNodes(root) ==
  LET inner(b) == SelectSeq(<<1, 2>>, LAMBDA c : ~IsLeaf(branch[b], c))
      below(b) == [i \in DOMAIN inner(b) |-> branch[b].child[inner(b)[i]]]
      from[todo \in Seq(Peers)] ==
        IF todo = <<>> THEN <<>> ELSE <<Head(todo)>> \o from[Tail(todo) \o below(Head(todo))]
  IN  from[<<root>>]

Sort ==
  /\ stage = "branches" /\ level.left = <<>> /\ Len(level.built) = 1
  /\ sorted' = SortedNodes(level.built[1].node) /\ stage' = "up"
  /\ UNCHANGED <<size, down, leafFather, branch, disp, level, avail>>

\* Dispatcher::getBranchInfo; nothing was ever notified.
GetBranchInfo(d) == d.waiting

\* What a child hears of the rest of the tree: MMPDispatcher and
\* FSPDispatcher::recomputeChildrenInfo.
ToChildren(d, b) ==
  [d EXCEPT !.childWaiting = [c \in Sides |->
     IF down /\ ~IsLeaf(b, c) THEN d.father \cup d.child[Other(c)] ELSE Nothing]]

\* PolicyFactoryDist::buildDispatcher
Filled(n) ==
  LET b == branch[n]
      of(c) == IF IsLeaf(b, c) THEN {b.child[c]} ELSE GetBranchInfo(disp[b.child[c]])
  IN  ToChildren([NoLinks EXCEPT !.child = <<of(1), of(2)>>, !.waiting = of(1) \cup of(2)], b)

\* Mutant of UpOrder: the dispatchers are visited from the root on.
UpOrderFromRoot == sorted

\* From the last one to the root.
UpOrder == Reverse(sorted)

BuildDispatchers ==
  /\ stage = "up" /\ sorted # <<>>
  /\ disp' = [disp EXCEPT ![Head(UpOrder)] = Filled(Head(UpOrder))]
  /\ sorted' = SelectSeq(sorted, LAMBDA n : n # Head(UpOrder))
  /\ UNCHANGED <<size, down, leafFather, branch, level, avail, stage>>

TurnDown ==
  /\ stage = "up" /\ sorted = <<>>
  /\ sorted' = SortedNodes(level.built[1].node) /\ stage' = "down"
  /\ UNCHANGED <<size, down, leafFather, branch, disp, level, avail>>

\* PolicyFactoryDist::buildDispatcherDown; there is nothing to do for IBP and DP.
Informed(n) ==
  LET f == branch[n].father
      c == IF branch[f].child[1] = n THEN 1 ELSE 2
  IN  IF ~down THEN disp[n]
      ELSE IF f = NoOne THEN ToChildren(disp[n], branch[n])
      ELSE ToChildren([disp[n] EXCEPT !.father = disp[f].childWaiting[c]], branch[n])

BuildDispatchersDown ==
  /\ stage = "down" /\ sorted # <<>>
  /\ disp' = [disp EXCEPT ![Head(sorted)] = Informed(Head(sorted))]
  /\ sorted' = Tail(sorted)
  /\ UNCHANGED <<size, down, leafFather, branch, level, avail, stage>>

\* The simulation is stopped before its first event.
EndCase ==
  /\ stage = "down" /\ sorted = <<>>
  /\ stage' = "built"
  /\ UNCHANGED <<size, down, leafFather, branch, disp, level, avail, sorted>>

\* StarsNode::packState of every node, and unpackState of the nodes of a
\* simulation with no more of them: the first ones of the file.
NewNodes(n) ==
  /\ size' = n
  /\ leafFather' = [k \in 0 .. n - 1 |-> leafFather[k]]
  /\ branch' = [k \in 0 .. n - 1 |-> branch[k]]
  /\ disp' = [k \in 0 .. n - 1 |-> disp[k]]

\* Another simulation takes the tree from the file; the order in which it was
\* built is gone.
Load ==
  /\ stage = "built"
  /\ NewNodes(size)
  /\ level' = [left |-> <<>>, built |-> <<>>] /\ avail' = <<>>
  /\ stage' = "loaded"
  /\ UNCHANGED <<down, sorted>>

TreeNext ==
  \/ Pair \/ NextLevel \/ Sort \/ BuildDispatchers \/ TurnDown \/ BuildDispatchersDown
  \/ EndCase \/ Load

-----------------------------------------------------------------------------
(* The check of the tree.                                                  *)

Father(n) == IF InNetwork(branch[n]) THEN branch[n].father ELSE leafFather[n]

\* networkCheck::getRoot; a tree never takes more steps than it has nodes.
GetRoot(n) ==
  LET up[k \in 0 .. size] == IF k = 0 THEN n ELSE
                               IF Father(up[k - 1]) = NoOne THEN up[k - 1] ELSE Father(up[k - 1])
  IN  up[size]

GetRoots == {GetRoot(n) : n \in Peers}

\* networkCheck::checkStructureTree finds no link mismatch.
StructureTreeChecks ==
  \A n \in Peers : InNetwork(branch[n]) =>
    \A c \in Sides :
      LET child == branch[n].child[c] IN
      n = IF IsLeaf(branch[n], c) THEN leafFather[child] ELSE branch[child].father

\* StarsNode::getBranchLevel
BranchLevel(n) ==
  LET up[k \in 0 .. size] == IF k = 0 THEN n ELSE
                               IF up[k - 1] = NoOne THEN NoOne ELSE Father(up[k - 1])
  IN  Cardinality({k \in 1 .. size : up[k] # NoOne})

-----------------------------------------------------------------------------

\* The leaves below a side of a branch.
Below(n, c) ==
  LET walk[m \in Peers, k \in 0 .. size] ==
        IF k = 0 \/ ~InNetwork(branch[m]) THEN {}
        ELSE UNION {IF IsLeaf(branch[m], s) THEN {branch[m].child[s]}
                    ELSE walk[branch[m].child[s], k - 1] : s \in Sides}
  IN  IF IsLeaf(branch[n], c) THEN {branch[n].child[c]} ELSE walk[branch[n].child[c], size]

Branches == {n \in Peers : InNetwork(branch[n])}

\* The level of a node as a leaf, wherever its branch is.
LeafLevel(n) == BranchLevel(leafFather[n]) + 1

\* The tree is what the overlay promises after any number of insertions:
\* one root, every leaf in one place, a branch for all the leaves but one, no
\* link that its other end does not know, leaves at two depths at most, and
\* the zones are the leaves below them.
TreeIsWhole ==
  /\ Cardinality(GetRoots) = 1 /\ StructureTreeChecks
  /\ Cardinality(Branches) = size - 1
  /\ \A n \in Branches, c \in Sides :
       Below(n, c) = branch[n].zone[c][1] .. branch[n].zone[c][2]
  /\ \A root \in GetRoots : Below(root, 1) \cup Below(root, 2) = Peers
  /\ \A n, m \in Peers : LeafLevel(n) - LeafLevel(m) <= 1

\* The dispatchers know what the messages of the nodes would have told them:
\* of each side all its leaves, and, with the policies that tell of it, of the
\* rest of the tree all the other leaves.
DispatchersKnow ==
  \A n \in Branches :
    /\ \A c \in Sides : disp[n].child[c] = Below(n, c)
    /\ disp[n].waiting = Below(n, 1) \cup Below(n, 2)
    /\ disp[n].father = IF down THEN Peers \ (Below(n, 1) \cup Below(n, 2)) ELSE Nothing
    /\ \A c \in Sides : down /\ ~IsLeaf(branch[n], c) =>
         disp[n].childWaiting[c] = Peers \ Below(n, c)

\* A tree that is built at once, whatever branches its nodes get, is as good
\* as one that grew; and so it is for the simulations that load it.
BuiltTreeIsSound == stage \in {"built", "loaded"} => TreeIsWhole /\ DispatchersKnow
=============================================================================
