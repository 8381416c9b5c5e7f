----------------------------- MODULE MCOverlay ------------------------------
(***************************************************************************)
(* Instances of Overlay.  But for the empty one, the trees are states that *)
(* the program reaches from the first: some were found by simulation.      *)
(***************************************************************************)
EXTENDS Overlay

Late == Unheard

OneBranch == 1 :> [father |-> NoNode, level |-> 0, kids |-> (1 :> 1 @@ 2 :> 1 @@ 3 :> 1), drawn |-> 1]

\* OneBranch after peer 4 joined.
TwoLevels ==
     (1 :> [father |-> 2, level |-> 0, kids |-> (3 :> 0 @@ 4 :> 1), drawn |-> 2])
  @@ (2 :> [father |-> NoNode, level |-> 1, kids |-> (1 :> 1 @@ 3 :> 2), drawn |-> 1])
  @@ (3 :> [father |-> 2, level |-> 0, kids |-> (1 :> 1 @@ 2 :> 1), drawn |-> 1])

\* The root 2 and the branch 4, one of its children, are about to split.
FourBranches ==
     (1 :> [father |-> 2, level |-> 0, kids |-> (22 :> 1 @@ 23 :> 1), drawn |-> 4])
  @@ (2 :> [father |-> NoNode, level |-> 1, kids |-> (1 :> 2 @@ 3 :> 2 @@ 4 :> 2 @@ 20 :> Late), drawn |-> 1])
  @@ (3 :> [father |-> 2, level |-> 0, kids |-> (1 :> 1 @@ 2 :> 1), drawn |-> 1])
  @@ (4 :> [father |-> 2, level |-> 0, kids |-> (3 :> 1 @@ 4 :> 1 @@ 10 :> 1 @@ 11 :> Late), drawn |-> 1])
  @@ (20 :> [father |-> 2, level |-> 0, kids |-> (20 :> 1 @@ 21 :> 1), drawn |-> 1])

TreeStarts ==
  {[tree |-> <<>>, joining |-> {1, 2, 3, 4}, timeouts |-> 0],
   [tree |-> OneBranch, joining |-> {4}, timeouts |-> 2],
   [tree |-> TwoLevels, joining |-> {10, 20}, timeouts |-> 2],
   [tree |-> FourBranches, joining |-> {}, timeouts |-> 0]}

\* Bound, in the tree of four branches (peer 22 is in no other): messages on
\* their way at a time, and answers among them.
FewMessages ==
  rn[22].father # NoNode =>
    BagCardinality(net) <= 6 /\ Cardinality({m \in BagToSet(net) : m.type = "Ack"}) <= 1
=============================================================================
