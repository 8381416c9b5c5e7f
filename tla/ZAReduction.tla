---------------------------- MODULE ZAReduction ----------------------------
(***************************************************************************)
(* The reduction of a function of slowness to a number of pieces, before   *)
(* a router tells it to its father: two pieces are joined in one that is   *)
(* not below them.  Numbers are fractions in their lowest terms.           *)
(***************************************************************************)
EXTENDS ZAFunction

CONSTANT NumPieces   \* ZAFunction::numPieces

RECURSIVE Gcd(_, _)
Gcd(m, n) == IF n = 0 THEN m ELSE Gcd(n, m % n)

Frac(n, d) ==
    LET Size(k) == IF k < 0 THEN -k ELSE k
        g == Gcd(Size(n), Size(d))
    IN  IF d < 0 THEN [n |-> -(n \div g), d |-> Size(d) \div g] ELSE [n |-> n \div g, d |-> d \div g]

x ++ y == Frac(x.n * y.d + y.n * x.d, x.d * y.d)
x -- y == Frac(x.n * y.d - y.n * x.d, x.d * y.d)
x ** y == Frac(x.n * y.n, x.d * y.d)
x // y == Frac(x.n * y.d, x.d * y.n)

(* The pieces of a function, whose x is a whole number until it is reduced. *)
Exact(pieces) ==
    [i \in DOMAIN pieces |->
       LET p == pieces[i]
       IN  [left |-> p.left, x |-> Whole(p.x), y |-> Frac(p.y.n, p.y.d), z |-> Frac(p.z1.n, p.z1.d) ++ Frac(p.z2.n, p.z2.d)]]

(* SubFunction::value of one task and SubFunction::slope. *)
ValueAt(p, a) == (p.x // Whole(a)) ++ ((p.y ** Whole(a)) ++ p.z)
Slope(p, a) == p.y -- (p.x // Whole(a * a))

(* fromThreePoints, (a1, b1), (a2, b2) and (a3, b3). *)
FromThreePoints(a1, b1, a2, b2, a3, b3) ==
    LET chord == (b2 -- b1) // Whole(a2 - a1)
        x == ((b3 -- b1) -- (chord ** Whole(a3 - a1))) ** Frac(a1 * a2 * a3, (a2 - a3) * (a1 - a3))
        y == chord ++ (x // Whole(a1 * a2))
    IN  [left |-> a1, x |-> x, y |-> y, z |-> (b1 -- (y ** Whole(a1))) -- (x // Whole(a1))]

(* fromTwoPointsAndSlope, with a slope m at a tangent point, one of them. *)
FromTwoPointsAndSlope(a1, b1, a3, b3, m, tangent) ==
    LET other == a1 + a3 - tangent
        k == Frac(tangent * tangent * other, (a1 - a3) * (a1 - a3))
        rise == (b3 -- b1) -- (m ** Whole(a3 - a1))
        x == IF tangent = a1 THEN rise ** k ELSE Whole(0) -- (rise ** k)
        y == m ++ (x // Whole(tangent * tangent))
    IN  [left |-> a1, x |-> x, y |-> y, z |-> (b1 -- (y ** Whole(a1))) -- (x // Whole(a1))]

(* isBiggerThan, without its margin for rounding. *)
IsBiggerThan(p, l, r, right) ==
    /\ ~LessF(ValueAt(p, r.left), ValueAt(l, r.left)) /\ ~LessF(ValueAt(p, r.left), ValueAt(r, r.left))
    /\ ~LessF(Slope(p, l.left), Slope(l, l.left)) /\ ~LessF(Slope(r, right), Slope(p, right))

(* Mutant of JoinPieces: no other piece is tried when one is below them. *)
JoinThroughThree(l, r, right) ==
    LET b2 == IF LessF(ValueAt(l, r.left), ValueAt(r, r.left)) THEN ValueAt(r, r.left) ELSE ValueAt(l, r.left)
    IN  FromThreePoints(l.left, ValueAt(l, l.left), r.left, b2, right, ValueAt(r, right))

(* SubFunction(l, r, rightEndpoint): the first of three that is above both, *)
(* or the last.                                                            *)
JoinPieces(l, r, right) ==
    LET b1 == ValueAt(l, l.left)
        b2 == IF LessF(ValueAt(l, r.left), ValueAt(r, r.left)) THEN ValueAt(r, r.left) ELSE ValueAt(l, r.left)
        b3 == ValueAt(r, right)
        three == FromThreePoints(l.left, b1, r.left, b2, right, b3)
        atLeft == FromTwoPointsAndSlope(l.left, b1, right, b3, Slope(l, l.left), l.left)
        atRight == FromTwoPointsAndSlope(l.left, b1, right, b3, Slope(r, right), right)
    IN  IF IsBiggerThan(three, l, r, right) THEN three
        ELSE IF IsBiggerThan(atLeft, l, r, right) THEN atLeft ELSE atRight

(* The first of getReductionOptions. *)
JoinFirst(pieces) ==
    <<JoinPieces(pieces[1], pieces[2], pieces[3].left)>> \o SubSeq(pieces, 3, Len(pieces))

(* reduceMax.  It takes its step by value, so that every candidate costs 0: *)
(* the oldest one is always the next, and its first option, that joins its *)
(* first two pieces, is kept whatever the quality.                         *)
ReduceMax(pieces) ==
    FoldLeft(LAMBDA all, p : IF Len(all) <= NumPieces THEN all ELSE JoinFirst(all), pieces, pieces)

-----------------------------------------------------------------------------
(* A function is reduced to one that is not below it for any length, and   *)
(* has no more pieces than it may.                                         *)
ReductionIsAbove(pieces) ==
    \E original \in {Exact(pieces)} : \E reduced \in {ReduceMax(original)} :
      /\ Len(reduced) <= NumPieces
      /\ \A a \in Lengths :
           ~LessF(ValueAt(reduced[Covering(reduced, a)], a), ValueAt(original[Covering(original, a)], a))

(* That is so for the function of the node, and for those of its cluster.  *)
ClustersAreRight ==
    \E own \in {FromTasks(list, boundaries, clock).pieces} :
      /\ ReductionIsAbove(own)
      /\ \A peers \in Peers :
           \E functions \in {<<own>> \o [i \in DOMAIN peers |-> PeerFunction(peers[i], clock)]} :
           \E c \in {OfCluster(functions)} :
             AggregationIsRight(functions, c) /\ ReductionIsAbove(c.max)
=============================================================================
