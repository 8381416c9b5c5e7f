---------------------------- MODULE MCDispatcher ----------------------------
(* Dispatcher on trees that createSimTree builds.                          *)
EXTENDS Dispatcher, TLC

Sided(l, r) == (0 :> l) @@ (1 :> r)

\* Three peers: branch 0 over nodes 0 and 1, root in peer 2 over it and node 2.
PeersOf3 == 0 .. 2
PlainBranches == {0, 2}
PlainChild == (0 :> Sided(0, 1)) @@ (2 :> Sided(0, 2))
PlainLeaf == (0 :> Sided(TRUE, TRUE)) @@ (2 :> Sided(FALSE, TRUE))

\* The same, but the root is in peer 1, a leaf of its child.
SharedBranches == {0, 1}
SharedChild == (0 :> Sided(0, 1)) @@ (1 :> Sided(0, 2))
SharedLeaf == (0 :> Sided(TRUE, TRUE)) @@ (1 :> Sided(FALSE, TRUE))

CONSTANTS r1, r2

NearClient == (r1 :> 0)
TwoClients == (r1 :> 1) @@ (r2 :> 2)
OneOf2 == (r1 :> 2)
TwoAndOne == (r1 :> 2) @@ (r2 :> 1)
=============================================================================
