---------------------------- MODULE FSPTaskList ----------------------------
(***************************************************************************)
(* The queue of the FSP policy.  The slowness of a task is the time that   *)
(* it takes since it was submitted, divided by its length; tasks are put   *)
(* in the order of the deadlines that they would have with a certain       *)
(* slowness, and the least slowness that all can have is looked for among  *)
(* the values where two tasks change their order (the boundaries).  The    *)
(* first task is being executed and keeps its place.                       *)
(*                                                                         *)
(* Slownesses are fractions [n, d] with d > 0.                             *)
(***************************************************************************)
EXTENDS Integers, Sequences, FiniteSets, SequencesExt, FiniteSetsExt

CONSTANTS
    NewTasks,     \* [a: length, late: time since it was created]
    Slow,         \* what a unit of length takes in this node, the inverse of its power
    MaxTasks,     \* submitted (bound)
    MaxTime       \* of the clock (bound)

VARIABLES
    list,         \* the tasks: [id, a, t, rabs, bag]
    boundaries,   \* of the list, in order
    dirty,        \* whether boundaries have to be calculated again
    clock,        \* the current time
    submitted     \* tasks submitted

listVars == <<list, boundaries, dirty, clock, submitted>>

LessF(x, y) == x.n * y.d < y.n * x.d
SameF(x, y) == x.n * y.d = y.n * x.d
Middle(x, y) == [n |-> x.n * y.d + y.n * x.d, d |-> 2 * x.d * y.d]
PlusOne(x) == [n |-> x.n + x.d, d |-> x.d]
Half(x) == [n |-> x.n, d |-> 2 * x.d]

(* A sequence without repeated values, in order. *)
SortedUnique(s) ==
    LET first == {i \in DOMAIN s : \A j \in 1 .. i - 1 : ~SameF(s[i], s[j])}
        Place(i) == Cardinality({j \in first : LessF(s[j], s[i])}) + 1
    IN  [k \in 1 .. Cardinality(first) |-> s[CHOOSE i \in first : Place(i) = k]]

(* The slowness where tasks p and q, of different length, change their order. *)
Switch(p, q) ==
    IF p.a > q.a THEN [n |-> q.rabs - p.rabs, d |-> p.a - q.a]
                 ELSE [n |-> p.rabs - q.rabs, d |-> q.a - p.a]

Positive(s) == SelectSeq(s, LAMBDA x : x.n > 0)

(* The first boundary: the slowness of a task that is alone. *)
Alone(task, now) == [n |-> now + task.t - task.rabs, d |-> task.a]

AddBoundaryValues(task, tasks, values) ==
    LET others == SelectSeq(Tail(tasks), LAMBDA q : q.a # task.a)
    IN  SortedUnique(values \o Positive([i \in DOMAIN others |-> Switch(task, others[i])]))

(* computeBoundaries of a list. *)
ComputeBoundaries(tasks, now) ==
    IF tasks = << >> THEN << >>
    ELSE LET n == Len(tasks)
             pairs == FlattenSeq([i \in 1 .. n - 1 |->
                        [k \in 1 .. n - i |-> <<tasks[i], tasks[i + k]>>]])
             different == SelectSeq(pairs, LAMBDA q : q[1].a # q[2].a /\ q[1] # tasks[1])
         IN  SortedUnique(<<Alone(tasks[1], now)>> \o
                          Positive([i \in DOMAIN different |-> Switch(different[i][1], different[i][2])]))

(* TaskProxy::getDeadline, as a fraction over the denominator of the slowness. *)
GetDeadline(task, slowness) == task.rabs * slowness.d + task.a * slowness.n

(* sortBySlowness: all but the first, which list::sort leaves in the order  *)
(* they had when nothing tells them apart.                                  *)
SortBySlowness(tasks, slowness) ==
    LET n == Len(tasks)
        D(i) == GetDeadline(tasks[i], slowness)
        Before(i, j) == \/ D(i) < D(j)
                        \/ D(i) = D(j) /\ tasks[i].a < tasks[j].a
                        \/ D(i) = D(j) /\ tasks[i].a = tasks[j].a /\ i < j
        place == [i \in 1 .. n |-> IF i = 1 THEN 1
                                   ELSE 2 + Cardinality({j \in 2 .. n : Before(j, i)})]
    IN  [k \in 1 .. n |-> tasks[CHOOSE i \in 1 .. n : place[i] = k]]

EndOf(tasks, i, now) == now + FoldLeft(LAMBDA e, k : e + k.t, 0, SubSeq(tasks, 1, i))

MeetDeadlines(tasks, slowness, now) ==
    \A i \in DOMAIN tasks : EndOf(tasks, i, now) * slowness.d <= GetDeadline(tasks[i], slowness)

(* Mutant of SortMinSlowness: what is past the last boundary is not looked at. *)
SortMinSlownessUpTo(tasks, values, now) ==
    LET n == Len(values)
        Sorted(k) == SortBySlowness(tasks, Middle(values[k], values[k + 1]))
        search[lo \in 1 .. n, hi \in 1 .. n] ==
          LET med == (lo + hi - 2) \div 2 + 1
          IN  IF hi <= lo + 1 THEN lo
              ELSE IF MeetDeadlines(Sorted(med), values[med], now) THEN search[lo, med]
              ELSE search[med, hi]
    IN  IF tasks = << >> THEN tasks
        ELSE IF n = 0 THEN SortBySlowness(tasks, [n |-> 1, d |-> 1])
        ELSE IF n = 1 THEN SortBySlowness(tasks, Half(values[1]))
        ELSE Sorted(search[1, n])

(* sortMinSlowness.  The binary search leaves in lo the last interval that  *)
(* was found too small.                                                     *)
SortMinSlowness(tasks, values, now) ==
    LET n == Len(values)
        Sorted(k) == SortBySlowness(tasks, Middle(values[k], values[k + 1]))
        search[lo \in 1 .. n, hi \in 1 .. n] ==
          LET med == (lo + hi - 2) \div 2 + 1
          IN  IF hi <= lo + 1 THEN <<lo, hi>>
              ELSE IF MeetDeadlines(Sorted(med), values[med], now) THEN search[lo, med]
              ELSE search[med, hi]
        OrLast(sorted, hi) ==
          IF hi = n /\ ~MeetDeadlines(sorted, values[n], now)
          THEN SortBySlowness(tasks, PlusOne(values[n])) ELSE sorted
    IN  IF tasks = << >> THEN tasks
        ELSE IF n = 0 THEN SortBySlowness(tasks, [n |-> 1, d |-> 1])
        ELSE IF n = 1 THEN OrLast(SortBySlowness(tasks, Half(values[1])), 1)
        ELSE LET found == search[1, n] IN OrLast(Sorted(found[1]), found[2])

(* FSPScheduler::reschedule: the boundaries are calculated if the list has  *)
(* lost a task, and it is sorted.                                           *)
Reschedule(tasks, values, lost, now) ==
    LET current == IF lost THEN ComputeBoundaries(tasks, now) ELSE values
    IN  /\ boundaries' = current
        /\ list' = SortMinSlowness(tasks, current, now)
        /\ dirty' = FALSE

-----------------------------------------------------------------------------
ListStarts(n, t) ==
    /\ list = << >> /\ boundaries = << >> /\ dirty = FALSE
    /\ clock = t /\ submitted = n

ListInit == ListStarts(0, 0)

(* Where something else is looked at. *)
ListIdle == ListStarts(MaxTasks, MaxTime)

(* A bag of n tasks is accepted. *)
Arrives(kind, n) ==
    LET task == [id |-> 0, a |-> kind.a, t |-> kind.a * Slow, rabs |-> clock - kind.late]
        values == IF list # << >> THEN AddBoundaryValues(task, list, boundaries)
                  ELSE Append(boundaries, Alone(task, clock))
    IN  /\ submitted + n <= MaxTasks
        /\ submitted' = submitted + n
        /\ Reschedule(list \o [k \in 1 .. n |-> [task EXCEPT !.id = submitted + k]], values,
                      dirty, clock)
        /\ UNCHANGED clock

(* The first task is executed for a while, and the timer expires. *)
Elapses ==
    /\ list # << >> => list[1].t > 1
    /\ clock < MaxTime
    /\ clock' = clock + 1
    /\ Reschedule(IF list = << >> THEN list ELSE [list EXCEPT ![1].t = @ - 1],
                  boundaries, dirty, clock + 1)
    /\ UNCHANGED submitted

(* The first task finishes or any of them is aborted (removeTask). *)
Leaves(i) ==
    /\ i = 1 => clock < MaxTime
    /\ clock' = IF i = 1 THEN clock + list[1].t ELSE clock
    /\ Reschedule(RemoveAt(list, i), boundaries, TRUE, clock')
    /\ UNCHANGED submitted

ListNext ==
    \/ \E kind \in NewTasks, n \in 1 .. 2 : Arrives(kind, n)
    \/ Elapses
    \/ \E i \in DOMAIN list : Leaves(i)

-----------------------------------------------------------------------------
(* Whether every task of an order can have a slowness. *)
GetSlowness(tasks, now) ==
    LET S(i) == [n |-> EndOf(tasks, i, now) - tasks[i].rabs, d |-> tasks[i].a]
        worst == CHOOSE i \in DOMAIN tasks : \A j \in DOMAIN tasks : ~LessF(S(i), S(j))
    IN  IF tasks = << >> THEN [n |-> 0, d |-> 1] ELSE S(worst)

(* The orders where the first task keeps its place. *)
Orders(tasks) ==
    LET n == Len(tasks)
    IN  {[k \in 1 .. n |-> tasks[p[k]]] :
           p \in {q \in [1 .. n -> 1 .. n] : n > 0 => /\ q[1] = 1
                                               /\ Cardinality({q[k] : k \in 1 .. n}) = n}}

(* The binary search over boundaries kept from one event to the next finds *)
(* the order with the least slowness of all, whatever arrives, is executed *)
(* or leaves, and the boundaries are those of the list.                    *)
LeastSlowness ==
    /\ \A order \in Orders(list) : ~LessF(GetSlowness(order, clock), GetSlowness(list, clock))
    /\ \A i \in DOMAIN boundaries \ {1} : LessF(boundaries[i - 1], boundaries[i])
=============================================================================
