----------------------------- MODULE ZAFunction -----------------------------
(***************************************************************************)
(* The functions of slowness of the FSP policy: the least slowness that    *)
(* the tasks of a node would have if it accepted one more of each length,  *)
(* as a list of pieces L = x/a + y a + z1 + z2.                            *)
(*                                                                         *)
(* Lengths are whole numbers, so that an endpoint is the first length that *)
(* is past a crossing.                                                     *)
(***************************************************************************)
EXTENDS FSPTaskList

CONSTANTS
    MinTaskLength, \* the least length of a function
    Peers,         \* sequences of queues of the other nodes of a cluster
    MaxLength      \* the largest length that functions are compared at (bound)

Lengths == MinTaskLength .. MaxLength

Whole(n) == [n |-> n, d |-> 1]
Plus(x, y) == [n |-> x.n * y.d + y.n * x.d, d |-> x.d * y.d]
Times(k, x) == [n |-> k * x.n, d |-> x.d]

(* SubFunction::value of n tasks. *)
Value(p, a, n) ==
    Plus(Plus([n |-> p.x, d |-> a], Times(a * n, p.y)), Plus(Times(n, p.z1), p.z2))

Piece(left, x, y, z1, z2) == [left |-> left, x |-> x, y |-> y, z1 |-> z1, z2 |-> z2]

Extends(p, l) ==
    /\ p.left >= l.left /\ p.x = l.x
    /\ SameF(p.y, l.y) /\ SameF(p.z1, l.z1) /\ SameF(p.z2, l.z2)

AddPiece(pieces, p) ==
    IF pieces # << >> /\ Extends(p, Last(pieces)) THEN pieces ELSE Append(pieces, p)

(* getSlowness and estimateSlowness: the last piece that covers the length. *)
Covering(pieces, a) ==
    Max({1} \union {i \in 2 .. Len(pieces) : \A j \in 2 .. i : pieces[j].left <= a})

EstimateSlowness(pieces, a, n) == Value(pieces[Covering(pieces, a)], a, n)

-----------------------------------------------------------------------------
(* The construction from the queue of a node. *)

(* The first length at or past the crossing n / d, if it is past a. *)
Past(a, n, d) ==
    LET Sign == IF d < 0 THEN -1 ELSE 1
    IN  IF d = 0 \/ Sign * n <= a * Sign * d THEN {} ELSE {-((-Sign * n) \div (Sign * d))}

(* The same for the greatest root of q a^2 + b a - c. *)
PastRoot(a, q, b, c) ==
    LET Reached(k) == q * k * k + b * k >= c /\ 2 * q * k + b >= 0
        reached == {k \in a + 1 .. MaxLength : Reached(k)}
    IN  IF b * b + 4 * q * c < 0 \/ Reached(a) \/ reached = {} THEN {} ELSE {Min(reached)}

(* What the constructor knows of each position of a list whose new task is  *)
(* in tn: the time that its task takes with those before it, without the   *)
(* new one; what of it is not before the task was created; the slowness,   *)
(* and how it changes with the length of the new task.                     *)
Positions(list1, tn, now) ==
    [k \in DOMAIN list1 |->
       LET others == MapThenSumSet(LAMBDA j : list1[j].t, (1 .. k) \ {tn})
           a == list1[k].a
           r == list1[k].rabs - now
           tendency == IF k < tn THEN Whole(0) ELSE IF k = tn THEN Whole(-1) ELSE [n |-> 1, d |-> a]
       IN  [a |-> a, r |-> r, t |-> others, own |-> others - r,
            s |-> [n |-> others - r + (IF k < tn THEN 0 ELSE list1[tn].t), d |-> a],
            tendency |-> tendency]]

(* The task with the maximum slowness, and that grows the most. *)
MaxTask(q) ==
    LET More(x, y) == LessF(y.s, x.s) \/ (SameF(x.s, y.s) /\ LessF(y.tendency, x.tendency))
    IN  CHOOSE k \in DOMAIN q : /\ \A j \in DOMAIN q : ~More(q[j], q[k])
                               /\ \A j \in 1 .. k - 1 : More(q[k], q[j])

IntervalPiece(q, tn, tm) ==
    LET m == q[tm]
        own == [n |-> m.own, d |-> m.a]
    IN  IF tm = tn THEN Piece(m.a, m.t, Whole(0), Whole(Slow), Whole(0))
        ELSE IF tm < tn THEN Piece(q[tn].a, 0, Whole(0), Whole(0), own)
        ELSE Piece(q[tn].a, 0, [n |-> Slow, d |-> m.a], Whole(0), own)

(* The lengths where another task has the maximum slowness or the new task *)
(* changes its place, by where the task with the maximum is.               *)
ChangesOfNew(q, tn, values, below) ==
    LET m == q[tn]
    IN  UNION {Past(m.a, q[k].a * m.t, q[k].t - Slow * q[k].a - q[k].r) : k \in 1 .. tn - 1}
        \union UNION {PastRoot(m.a, Slow, q[k].own - Slow * q[k].a, m.t * q[k].a) : k \in tn + 1 .. Len(q)}
        \union UNION {Past(m.a, m.t * values[k].d, values[k].n - Slow * values[k].d) :
                        k \in {j \in below : \A i \in below : i <= j}}

ChangesOfEarlier(q, tn, m) ==
    LET cur == q[tn].a
    IN  Past(cur, m.a * q[tn].t, m.own - Slow * m.a)
        \union UNION {Past(cur, q[k].a * m.own - m.a * q[k].own, m.a * Slow) : k \in tn + 1 .. Len(q)}
        \union UNION {Past(cur, q[k].a * m.own - m.a * q[k].r, m.own) : k \in {tn + 1} \cap DOMAIN q}

ChangesOfLater(q, tn, m, values, above) ==
    LET cur == q[tn].a
    IN  UNION {Past(cur, m.a * q[k].own - q[k].a * m.own, q[k].a * Slow) : k \in 1 .. tn - 1}
        \union PastRoot(cur, Slow, m.own - Slow * m.a, q[tn].t * m.a)
        \union UNION {Past(cur, m.own * q[k].a - q[k].own * m.a, Slow * (m.a - q[k].a)) : k \in tn + 1 .. Len(q)}
        \union UNION {PastRoot(cur, Slow, m.own - Slow * q[k].a, m.a * q[k].r + q[k].a * m.own) :
                        k \in {tn + 1} \cap DOMAIN q}
        \union UNION {Past(cur, values[k].n * m.a - m.own * values[k].d, Slow * values[k].d) :
                        k \in {j \in above : \A i \in above : i >= j}}

Changes(q, tn, tm, values) ==
    IF tm = tn THEN ChangesOfNew(q, tn, values, {k \in DOMAIN values : LessF(values[k], q[tm].s)})
    ELSE IF tm < tn THEN ChangesOfEarlier(q, tn, q[tm])
    ELSE ChangesOfLater(q, tn, q[tm], values, {k \in DOMAIN values : LessF(q[tm].s, values[k])})

(* An iteration of the loop of the constructor, by the parts of it. *)
Skip(s, list1, tn, a) ==
    LET longer == [list1[tn] EXCEPT !.a = a + 1, !.t = (a + 1) * Slow]
    IN  [s EXCEPT !.tasks = Append(RemoveAt(list1, tn), longer), !.skipped = @ \union {a}]

GoOn(s, list1, tn, changes) ==
    IF changes = {} \/ Min(changes) >= MaxLength THEN [s EXCEPT !.done = TRUE]
    ELSE Skip(s, list1, tn, Min(changes))

AddMax(s, list1, q, tn, tm, values) ==
    GoOn([s EXCEPT !.pieces = AddPiece(@, IntervalPiece(q, tn, tm))], list1, tn, Changes(q, tn, tm, values))

AddOf(s, list1, q, tn, values) == AddMax(s, list1, q, tn, MaxTask(q), values)

AddAt(s, list1, tn, values, now) == AddOf(s, list1, Positions(list1, tn, now), tn, values)

AddSorted(s, list1, values, now) ==
    AddAt(s, list1, CHOOSE k \in DOMAIN list1 : list1[k].id = 0, values, now)

AddInterval(s, now) ==
    LET values == AddBoundaryValues(Last(s.tasks), s.tasks, s.values)
    IN  AddSorted(s, SortMinSlowness(s.tasks, values, now), values, now)

FromTasks(tasks, values, now) ==
    LET new == [id |-> 0, a |-> MinTaskLength, t |-> MinTaskLength * Slow, rabs |-> now]
        start == [tasks |-> Append(tasks, new), values |-> values, pieces |-> << >>,
                  skipped |-> {}, done |-> FALSE]
    IN  IF tasks = << >> THEN [pieces |-> <<Piece(MinTaskLength, 0, Whole(0), Whole(Slow), Whole(0))>>,
              skipped |-> {}]
        ELSE FoldLeft(LAMBDA s, k : IF s.done THEN s ELSE AddInterval(s, now), start,
                      [k \in 1 .. MaxLength |-> k])

-----------------------------------------------------------------------------
(* stepper goes through the intervals where no function changes its piece   *)
(* and the first two do not cross; max is the one of these that is higher.  *)
PieceAt(functions, i, a) == functions[i][Covering(functions[i], a)]

Higher(functions, a) ==
    LessF(Value(PieceAt(functions, 2, a), a, 1), Value(PieceAt(functions, 1, a), a, 1))

Edges(functions) ==
    {a \in Lengths : \/ a = MinTaskLength
                     \/ \E i \in DOMAIN functions : PieceAt(functions, i, a).left = a
                     \/ Higher(functions, a) # Higher(functions, a - 1)}

Ascending(S) ==
    [k \in 1 .. Cardinality(S) |-> CHOOSE a \in S : Cardinality({b \in S : b < a}) = k - 1]

StepsAt(functions, edges) ==
    [k \in DOMAIN edges |->
       [left |-> edges[k],
        f |-> [i \in DOMAIN functions |-> PieceAt(functions, i, edges[k])],
        max |-> IF Higher(functions, edges[k]) THEN 1 ELSE 2]]

Steps(functions) == StepsAt(functions, Ascending(Edges(functions)))

(* min and max: a piece is compared with its own endpoint, so that some are *)
(* split without need.                                                      *)
Follow(steps, higher) ==
    LET Step(pieces, s) ==
          LET p == IF higher THEN s.f[s.max] ELSE s.f[3 - s.max]
          IN  IF pieces # << >> /\ Extends(p, Last(pieces)) THEN pieces
              ELSE Append(pieces, [p EXCEPT !.left = s.left])
    IN  FoldLeft(Step, << >>, steps)

Minimum(l, r) == Follow(Steps(<<l, r>>), FALSE)
Maximum(l, r) == Follow(Steps(<<l, r>>), TRUE)

(* Mutant of MaxDiff: the differences are those of the nodes of the other one. *)
MaxDiffOfOthers(l, r, lv, rv, maxL, maxR) ==
    LET Minus(x, y) == Plus(x, Times(-1, y))
        Step(pieces, s) ==
          LET v == IF s.max = 1 THEN lv ELSE rv
              hi == s.f[s.max]
              lo == s.f[3 - s.max]
              Sum(x, y, u, w) == Plus(Plus(x, y), Times(v, Minus(u, w)))
          IN  AddPiece(pieces, Piece(s.left, s.f[3].x + s.f[4].x + v * (hi.x - lo.x),
                Sum(s.f[3].y, s.f[4].y, hi.y, lo.y), Sum(s.f[3].z1, s.f[4].z1, hi.z1, lo.z1),
                Sum(s.f[3].z2, s.f[4].z2, hi.z2, lo.z2)))
    IN  FoldLeft(Step, << >>, Steps(<<l, r, maxL, maxR>>))

(* maxDiff, for lv and rv nodes whose differences sum maxL and maxR. *)
MaxDiff(l, r, lv, rv, maxL, maxR) ==
    LET Minus(x, y) == Plus(x, Times(-1, y))
        Step(pieces, s) ==
          LET v == IF s.max = 1 THEN rv ELSE lv
              hi == s.f[s.max]
              lo == s.f[3 - s.max]
              Sum(x, y, u, w) == Plus(Plus(x, y), Times(v, Minus(u, w)))
          IN  AddPiece(pieces, Piece(s.left, s.f[3].x + s.f[4].x + v * (hi.x - lo.x),
                Sum(s.f[3].y, s.f[4].y, hi.y, lo.y), Sum(s.f[3].z1, s.f[4].z1, hi.z1, lo.z1),
                Sum(s.f[3].z2, s.f[4].z2, hi.z2, lo.z2)))
    IN  FoldLeft(Step, << >>, Steps(<<l, r, maxL, maxR>>))

-----------------------------------------------------------------------------
(* What a router keeps of the nodes of a cluster, that have the functions   *)
(* of a sequence: the maximum, the minimum and the sum of the differences   *)
(* (the aggregation of FSPAvailabilityInformation).                         *)
FromNode(function) == [max |-> function, min |-> function, diff |-> function, value |-> 1]

AddFunction(c, function) ==
    [max |-> Maximum(c.max, function), min |-> Minimum(c.min, function),
     diff |-> MaxDiff(c.max, function, c.value, 1, c.diff, function),
     value |-> c.value + 1]

OfCluster(functions) == FoldLeft(AddFunction, FromNode(Head(functions)), Tail(functions))

(* The queues of the other nodes of the cluster, at the current time. *)
PeerTasks(kinds, now) ==
    [k \in DOMAIN kinds |-> [id |-> k, a |-> kinds[k].a, t |-> kinds[k].a * Slow, rabs |-> now - kinds[k].late]]

PeerFunction(kinds, now) ==
    LET tasks == PeerTasks(kinds, now)
        values == ComputeBoundaries(tasks, now)
    IN  FromTasks(SortMinSlowness(tasks, values, now), values, now).pieces

-----------------------------------------------------------------------------
(* The function of a node promises for each length the least slowness that *)
(* there is among all the orders of its queue with a new task of that      *)
(* length, but at those that are skipped when a crossing has been found.   *)
PromiseIsLeastSlowness ==
    \E built \in {FromTasks(list, boundaries, clock)} :
      \A a \in Lengths \ built.skipped :
        LET new == [id |-> 0, a |-> a, t |-> a * Slow, rabs |-> clock]
            promise == EstimateSlowness(built.pieces, a, 1)
            slownesses == {GetSlowness(order, clock) : order \in Orders(Append(list, new))}
        IN  /\ \E s \in slownesses : SameF(s, promise)
            /\ \A s \in slownesses : ~LessF(s, promise)

(* The functions that a router keeps are, for each length, the maximum, the *)
(* minimum and, as the differences begin with the function of each node,   *)
(* the maximum as many times as nodes.                                     *)
AggregationIsRight(functions, c) ==
    \A a \in Lengths :
      LET At(f) == EstimateSlowness(f, a, 1)
          all == {At(functions[i]) : i \in DOMAIN functions}
      IN  /\ \A x \in all : ~LessF(At(c.max), x) /\ ~LessF(x, At(c.min))
          /\ \E x \in all : SameF(x, At(c.max))
          /\ \E x \in all : SameF(x, At(c.min))
          /\ SameF(At(c.diff), Times(c.value, At(c.max)))
=============================================================================
