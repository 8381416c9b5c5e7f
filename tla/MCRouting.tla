----------------------------- MODULE MCRouting -----------------------------
(* Routing on a tree of two levels: the root a over branch b and node n3.  *)
EXTENDS Routing

CONSTANTS a, b, n1, n2, n3, r1, r2

Sided(l, r) == (0 :> l) @@ (1 :> r)
SmallChild == (a :> Sided(b, n3)) @@ (b :> Sided(n1, n2))
TwoClients == (r1 :> n1) @@ (r2 :> n3)
OneChanges == [p \in Policies |-> IF p = "MMP" THEN {} ELSE {n3}]
LongAndShort == (r1 :> 3) @@ (r2 :> 2)
ThreeProbes == <<2, 6, 14>>
TwoAndOne == (r1 :> 2) @@ (r2 :> 1)
=============================================================================
