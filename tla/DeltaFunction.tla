--------------------------- MODULE DeltaFunction ---------------------------
(***************************************************************************)
(* The functions of availability of the DP policy (LDeltaFunction): the    *)
(* work that a node can do before each instant without any of its tasks    *)
(* missing its deadline, as a list of points with straight lines between   *)
(* them and a slope after the last one.  A router aggregates the functions *)
(* of a cluster with their minimum and takes from it the tasks that it     *)
(* sends.                                                                  *)
(*                                                                         *)
(* The variable ideal is the same function point by point on a grid of     *)
(* instants, computed from its definition, to compare with.  Every number  *)
(* of the grid is a multiple of what makes the crossings whole.            *)
(***************************************************************************)
EXTENDS Integers, Sequences, FiniteSets, SequencesExt, FiniteSetsExt

CONSTANTS
    ExecNodes,   \* [power, queue: a sequence of [dur, deadline] that meets its deadlines]
    TaskLengths,     \* of the tasks that a router sends
    MaxChanges,    \* aggregations and updates of a function (bound)
    Second,      \* the instants in a second
    Grid         \* the instants where functions are compared

VARIABLES
    f,           \* [points: a sequence of pairs <<instant, work>>, slope]
    horizon,     \* of the information that f is in
    sharp,       \* the instant up to which no aggregation has lost detail
    ideal,       \* the work on every instant of the grid
    replaced,    \* points replaced by an update: two, fewer or more
    changes        \* aggregations and updates done

deltaVars == <<f, horizon, sharp, ideal, replaced, changes>>

Time0 == 0       \* Time::getCurrentTime(), which does not change

-----------------------------------------------------------------------------
(* Mutant of Endpoints: a task that follows a hole takes no time. *)
EndpointsFromDeadline(queue) ==
    LET last == queue[Len(queue)].deadline
        Before(task, acc) ==
          IF task.deadline < acc.next
          THEN [next |-> task.deadline, ends |-> <<task.deadline, acc.next>> \o acc.ends]
          ELSE [next |-> acc.next - task.dur, ends |-> acc.ends]
        all == FoldRight(Before, Tail(queue), [next |-> last, ends |-> <<last>>])
    IN  <<Time0 + queue[1].dur>> \o (IF Len(queue) > 1 THEN <<all.next>> \o all.ends ELSE << >>)

(* The holes of a queue whose tasks, but for the first, end as late as they *)
(* can: pairs of instants, from the end of the first task to the last      *)
(* deadline, which is alone.                                               *)
Endpoints(queue) ==
    LET last == queue[Len(queue)].deadline
        Before(task, acc) ==
          IF task.deadline < acc.next
          THEN [next |-> task.deadline - task.dur, ends |-> <<task.deadline, acc.next>> \o acc.ends]
          ELSE [next |-> acc.next - task.dur, ends |-> acc.ends]
        all == FoldRight(Before, Tail(queue), [next |-> last, ends |-> <<last>>])
    IN  <<Time0 + queue[1].dur>> \o (IF Len(queue) > 1 THEN <<all.next>> \o all.ends ELSE << >>)

FromQueue(node) ==
    IF node.queue = << >> THEN [points |-> << >>, slope |-> node.power]
    ELSE LET e == Endpoints(node.queue)
             Avail(i) == MapThenSumSet(LAMBDA k : (e[k + 1] - e[k]) * node.power,
                                       {k \in 1 .. i - 1 : k % 2 = 1})
         IN  [points |-> [i \in 1 .. Len(e) |-> <<e[i], Avail(i)>>], slope |-> node.power]

GetHorizon(g) == IF g.points = << >> THEN Time0 + Second ELSE Last(g.points)[1]

-----------------------------------------------------------------------------
(* What stepper knows of a function at instant t: its value and its slope   *)
(* from there.  One without points begins at the first instant of all.     *)
Passed(g, t) == {i \in DOMAIN g.points : g.points[i][1] <= t}

SlopeAt(g, t) ==
    LET i == Max(Passed(g, t))
        p == g.points[i]
        q == g.points[i + 1]
    IN  IF g.points = << >> THEN g.slope
        ELSE IF Passed(g, t) = {} THEN 0
        ELSE IF i = Len(g.points) THEN g.slope
        ELSE (q[2] - p[2]) \div (q[1] - p[1])

WorkAt(g, t, start) ==
    LET p == g.points[Max(Passed(g, t))]
    IN  IF g.points = << >> THEN g.slope * (t - start)
        ELSE IF Passed(g, t) = {} THEN 0
        ELSE p[2] + SlopeAt(g, t) * (t - p[1])

InOrder(S) ==
    [i \in 1 .. Cardinality(S) |-> CHOOSE t \in S : Cardinality({u \in S : u < t}) = i - 1]

(* The segments that stepper goes through from ref to h: where no function  *)
(* changes its slope and the first two do not cross.  In each of them lower *)
(* is the function that is below.                                           *)
Segment(a, b, lower, start) == [a |-> a, b |-> b, lower |-> lower, start |-> start]

Parts(a, b, da, dm, start) ==
    LET first == IF da < 0 \/ (da = 0 /\ dm < 0) THEN 1 ELSE 2
        cross == a + (-da) \div dm
    IN  IF dm # 0 /\ (da + dm * (b - a)) * da < 0
        THEN <<Segment(a, cross, first, start), Segment(cross, b, 3 - first, start)>>
        ELSE <<Segment(a, b, first, start)>>

SegmentsFrom(g1, g2, edges, start) ==
    FlattenSeq([i \in 1 .. Len(edges) - 1 |->
      Parts(edges[i], edges[i + 1], WorkAt(g1, edges[i], start) - WorkAt(g2, edges[i], start),
            SlopeAt(g1, edges[i]) - SlopeAt(g2, edges[i]), start)])

Within(g1, g2, all, start, h) ==
    IF start >= h THEN << >>
    ELSE SegmentsFrom(g1, g2, InOrder({start, h} \union {t \in all : t < h}), start)

Segments(g1, g2, others, ref, h) ==
    LET all == {p[1] : p \in UNION {ToSet(g.points) : g \in {g1, g2} \union others}}
    IN  Within(g1, g2, all, Min({ref} \union all), h)

(* A point where the slope changes, and what there is at the end. *)
AddSegment(acc, s, m, y) ==
    [points |-> IF m # acc.m THEN Append(acc.points, <<s.a, y>>) ELSE acc.points,
     m |-> m, lasty |-> y + m * (s.b - s.a)]

(* minStep and maxStep, by which of both functions is followed: a point where *)
(* the slope changes, and one at the end.                                     *)
FollowSegments(g1, g2, h, lower) ==
    LET segments == Segments(g1, g2, {}, Time0, h)
        Step(acc, s) ==
          LET g == IF (s.lower = 1) = lower THEN g1 ELSE g2
          IN  AddSegment(acc, s, SlopeAt(g, s.a), WorkAt(g, s.a, s.start))
        all == FoldLeft(Step, [points |-> << >>, m |-> 0, lasty |-> 0], segments)
    IN  Append(all.points, <<h, all.lasty>>)

(* minAndLoss, with the horizon of the information. *)
MinAndLoss(g1, g2, h) ==
    [points |-> IF g1.points = << >> /\ g2.points = << >> THEN << >>
                ELSE FollowSegments(g1, g2, h, TRUE),
     slope |-> Min({g1.slope, g2.slope})]

(* max, with the horizon of the left function if it has one. *)
MaxHorizon(g1, g2) == IF g1.points = << >> THEN GetHorizon(g2) ELSE GetHorizon(g1)

MaxAvailability(g1, g2) ==
    LET h == MaxHorizon(g1, g2)
    IN  [points |-> IF g1.points = << >> /\ g2.points = << >> THEN << >>
                    ELSE FollowSegments(g1, g2, h, FALSE),
         slope |-> Max({g1.slope, g2.slope})]

(* min, with that horizon too. *)
MinAvailability(g1, g2) == MinAndLoss(g1, g2, MaxHorizon(g1, g2))

(* lc: a combination of two functions, up to the last of their points. *)
LinearCombination(g1, g2, c1, c2) ==
    LET h == Max({Time0} \union {Last(g.points)[1] : g \in {x \in {g1, g2} : x.points # << >>}})
        Step(acc, s) ==
          AddSegment(acc, s, c1 * SlopeAt(g1, s.a) + c2 * SlopeAt(g2, s.a),
                     c1 * WorkAt(g1, s.a, s.start) + c2 * WorkAt(g2, s.a, s.start))
        all == FoldLeft(Step, [points |-> << >>, m |-> 0, lasty |-> 0], Segments(g1, g2, {}, Time0, h))
    IN  [points |-> IF g1.points = << >> /\ g2.points = << >> THEN << >>
                    ELSE Append(all.points, <<h, all.lasty>>),
         slope |-> c1 * g1.slope + c2 * g2.slope]

(* What sqdiffStep adds in a segment, times three. *)
Upper(g1, g2, s) == IF s.lower = 1 THEN g2 ELSE g1

Lower(g1, g2, s) == IF s.lower = 1 THEN g1 ELSE g2

Work(upper, lower, s) == WorkAt(upper, s.a, s.start) - WorkAt(lower, s.a, s.start)

Rise(upper, lower, s) == SlopeAt(upper, s.a) - SlopeAt(lower, s.a)

SquareTerm(n1, n2, dt) == ((n2 * n2 * dt + 3 * n2 * n1) * dt + 3 * n1 * n1) * dt

Sqdiff3InSegment(g1, g2, s) ==
    LET upper == Upper(g1, g2, s)
        lower == Lower(g1, g2, s)
    IN  SquareTerm(Work(upper, lower, s), Rise(upper, lower, s), s.b - s.a)

Sqdiff3(g1, g2, ref, h) ==
    FoldLeft(LAMBDA acc, s : acc + Sqdiff3InSegment(g1, g2, s), 0, Segments(g1, g2, {}, ref, h))

(* The loss of minAndLoss, times six: lossStep adds the product with the    *)
(* accumulated maximum (c) of the upper function, once.                    *)
ProductTerm(n1, n2, ca, mc, dt) ==
    ((2 * n2 * mc * dt + 3 * (n1 * mc + n2 * ca)) * dt + 6 * n1 * ca) * dt

Loss6InSegment(g1, g2, v, c, s) ==
    LET upper == Upper(g1, g2, s)
        lower == Lower(g1, g2, s)
    IN  2 * v * Sqdiff3InSegment(g1, g2, s)
        + ProductTerm(Work(upper, lower, s), Rise(upper, lower, s),
                      WorkAt(c, s.a, s.start), SlopeAt(c, s.a), s.b - s.a)

Loss6(g1, g2, v1, v2, c1, c2, ref, h) ==
    LET InSegment(s) == IF s.lower = 1 THEN Loss6InSegment(g1, g2, v2, c2, s)
                                       ELSE Loss6InSegment(g1, g2, v1, c1, s)
    IN  FoldLeft(LAMBDA acc, s : acc + InSegment(s), 0, Segments(g1, g2, {c1, c2}, ref, h))

-----------------------------------------------------------------------------
(* getAvailabilityBefore; a free node keeps a second. *)
GetAvailabilityBefore(g, d) ==
    IF g.points = << >> /\ d > Time0 THEN g.slope * (d - Time0 - Second)
    ELSE IF d <= Time0 \/ d < g.points[1][1] THEN 0
    ELSE LET before == {i \in 2 .. Len(g.points) : g.points[i][1] < d}
             i == Max({1} \union before)
             p == g.points[i]
             q == g.points[i + 1]
         IN  IF i = Len(g.points) THEN p[2] + (d - p[1]) * g.slope
             ELSE IF q[1] = p[1] THEN p[2]
             ELSE p[2] + ((d - p[1]) * (q[2] - p[2])) \div (q[1] - p[1])

(* The points that update keeps before the task and after it: those with    *)
(* less work than is left, and those past the deadline.                     *)
Kept(g, length, deadline) ==
    LET lastElim == Cardinality(Passed(g, deadline))
        final == GetAvailabilityBefore(g, deadline) - length
        firstElim == CHOOSE k \in 0 .. lastElim :
                       /\ \A i \in 1 .. k : g.points[i][2] < final
                       /\ k = lastElim \/ g.points[k + 1][2] >= final
    IN  [first |-> firstElim, last |-> lastElim, final |-> final]

(* update: the task is put as late as it can.  The work of the points that  *)
(* follow is reduced from the index that they had before, which is not     *)
(* theirs unless exactly two points were taken out.                        *)
Update(g, length, deadline) ==
    IF g.points = << >>
    THEN LET start == Time0 + length \div g.slope
         IN  [g EXCEPT !.points = <<<<start, 0>>, <<horizon, g.slope * (horizon - start)>> >>]
    ELSE LET k == Kept(g, length, deadline)
             p == g.points[k.first]
             q == g.points[k.first + 1]
             taskStart == p[1] + ((k.final - p[2]) * (q[1] - p[1])) \div (q[2] - p[2])
             all == SubSeq(g.points, 1, k.first) \o <<<<taskStart, k.final>>, <<deadline, k.final>> >>
                    \o SubSeq(g.points, k.last + 1, Len(g.points))
         IN  [g EXCEPT !.points = [i \in DOMAIN all |->
                IF i > k.last THEN <<all[i][1], all[i][2] - length>> ELSE all[i]]]

-----------------------------------------------------------------------------
(* The definition of availability: work in the instants that are not taken  *)
(* when the first task runs now and the others as late as they can.         *)
Taken(queue) ==
    LET Latest(task, busy) ==
          LET free == {t \in 0 .. task.deadline - 1 : t \notin busy}
          IN  busy \union {t \in free : Cardinality({u \in free : u > t}) < task.dur}
    IN  IF queue = << >> THEN {}
        ELSE 0 .. queue[1].dur - 1 \union FoldRight(Latest, Tail(queue), {})

FreeWork(node) ==
    [t \in Grid |-> node.power * Cardinality(0 .. t - 1 \ Taken(node.queue))]

DeltaStarts(node, n) ==
    /\ f = FromQueue(node)
    /\ horizon = GetHorizon(f) /\ sharp = Max(Grid)
    /\ ideal = FreeWork(node)
    /\ replaced = "two" /\ changes = n

DeltaInit == \E node \in ExecNodes : DeltaStarts(node, 0)

(* Where something else is looked at. *)
DeltaIdle == DeltaStarts([power |-> 1, queue |-> << >>], MaxChanges)

(* Another node comes to the cluster (join and aggregate). *)
AddToCluster(node) ==
    /\ changes < MaxChanges /\ replaced = "two"
    /\ LET g == FromQueue(node)
           h == Max({horizon, GetHorizon(g)})
       IN  /\ f' = MinAndLoss(f, g, h)
           /\ horizon' = h /\ sharp' = Min({sharp, h})
           /\ ideal' = [t \in Grid |-> Min({ideal[t], FreeWork(node)[t]})]
    /\ changes' = changes + 1 /\ UNCHANGED replaced

(* A router sends a task before deadline d, which is not after the horizon  *)
(* (past it update takes the work that there is at the horizon) and leaves  *)
(* some work before it (with none, it divides zero by zero).                *)
TakeWork(length, d) ==
    /\ changes < MaxChanges /\ replaced = "two" /\ d <= horizon
    /\ IF f.points = << >>
       THEN /\ length < f.slope * (d - Time0 - Second)
            /\ ideal' = [t \in Grid |-> Max({0, ideal[t] - length})]
            /\ UNCHANGED replaced
       ELSE LET k == Kept(f, length, d)
            IN  /\ k.final > 0
                /\ replaced' = CASE k.last - k.first = 2 -> "two"
                                 [] k.last - k.first < 2 -> "fewer"
                                 [] OTHER -> "more"
                /\ ideal' = [t \in Grid |-> IF t <= d THEN Min({ideal[t], k.final})
                                           ELSE ideal[t] - length]
    /\ f' = Update(f, length, d)
    /\ changes' = changes + 1 /\ UNCHANGED <<horizon, sharp>>

DeltaNext ==
    \/ \E node \in ExecNodes : AddToCluster(node)
    \/ \E length \in TaskLengths, d \in Grid : TakeWork(length, d)

-----------------------------------------------------------------------------
(* What a cluster promises before an instant is what the poorest of its    *)
(* nodes can do, with the tasks that it has been sent, and no more than    *)
(* that past the horizon that some aggregation had.  An update that takes out another   *)
(* number of points than it puts in is the exception, as the work of the   *)
(* points that follow is reduced from a wrong index: too much is reduced   *)
(* when they were fewer, and too little when they were more.               *)
PromisesAreKept ==
    \A t \in Grid \ {Time0} :
      LET promise == GetAvailabilityBefore(f, t)
          free == IF f.points = << >> THEN f.slope * Second ELSE 0
      IN  CASE replaced = "two"   -> /\ promise <= ideal[t] - free
                                     /\ t <= sharp => promise = ideal[t] - free
            [] replaced = "fewer" -> promise <= ideal[t]
            [] replaced = "more"  -> t <= sharp => promise >= ideal[t]

(* The squared difference is the integral of the square of the difference, *)
(* and the loss of an aggregation adds to it, for each node of the upper   *)
(* one, that of the difference by its accumulated maximum; the maximum,    *)
(* the minimum and a linear combination of two functions are that up to    *)
(* their horizon.                                                          *)
SquareBetween(d0, d1) == d0 * d0 + d0 * d1 + d1 * d1

ProductBetween(d0, d1, c0, c1) == 2 * d0 * c0 + d0 * c1 + d1 * c0 + 2 * d1 * c1

DifferencesAreRight ==
    replaced = "two" => \A g \in {FromQueue(node) : node \in ExecNodes} :
      LET instants == Time0 .. horizon
          segments == Time0 .. horizon - 1
      IN  \E F \in {[t \in instants |-> WorkAt(f, t, Time0)]}, G \in {[t \in instants |-> WorkAt(g, t, Time0)]} :
          \E Diff \in {[t \in instants |-> F[t] - G[t]]} :
            /\ Sqdiff3(f, g, Time0, horizon) =
                 MapThenSumSet(LAMBDA t : SquareBetween(Diff[t], Diff[t + 1]), segments)
            /\ Loss6(f, g, 2, 1, f, g, Time0, horizon) =
                 MapThenSumSet(LAMBDA t :
                     IF Diff[t] + Diff[t + 1] < 0
                     THEN 2 * SquareBetween(Diff[t], Diff[t + 1]) - ProductBetween(Diff[t], Diff[t + 1], G[t], G[t + 1])
                     ELSE 4 * SquareBetween(Diff[t], Diff[t + 1]) + ProductBetween(Diff[t], Diff[t + 1], F[t], F[t + 1]),
                   segments)

(* The maximum, the minimum and a combination. *)
CombinationsAreRight ==
    replaced = "two" => \A g \in {FromQueue(node) : node \in ExecNodes} :
      LET At(h, t) == WorkAt(h, t, Time0)
          Until(end) == {u \in Grid : Time0 < u /\ u <= end}
      IN  /\ \E top \in {MaxAvailability(f, g)}, bottom \in {MinAvailability(f, g)} :
               \A t \in Until(MaxHorizon(f, g)) : /\ At(top, t) = Max({At(f, t), At(g, t)})
                                                 /\ At(bottom, t) = Min({At(f, t), At(g, t)})
          /\ \E sum \in {LinearCombination(f, g, 2, 1)} :
               sum.points # << >> => \A t \in Until(Last(sum.points)[1]) :
                 At(sum, t) = 2 * At(f, t) + At(g, t)
=============================================================================
