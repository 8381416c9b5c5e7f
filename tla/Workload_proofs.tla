--------------------------- MODULE Workload_proofs ---------------------------
(***************************************************************************)
(* Proof that Workload accounts for all work in each case of the           *)
(* simulator: Spec => []WorkIsAccounted, for every number of nodes, users, *)
(* commands and tasks and every calendar that WorkloadAssumption allows.   *)
(*                                                                         *)
(* The properties count events in the queue.  Where and Count do so for a  *)
(* set of events; InjectAll is a permutation of the two lists it joins     *)
(* (Injected), so that it adds what is new to each count and forgets       *)
(* nothing.  TasksIn and JobsAt count tasks and applications likewise.     *)
(* Awaits says what UsersAreAwaited says of one user: the users of other   *)
(* nodes are not touched by an event (OthersStay, AwaitsWithoutHead), and  *)
(* the own one gets a timer or a batch (TimerSet, BatchSet).               *)
(*                                                                         *)
(* The invariant IInv adds the types, that the identifiers of applications *)
(* differ, and QueueInv: without users there is one command at most on its *)
(* way, which is the last one that was made.                               *)
(***************************************************************************)
EXTENDS Workload, FiniteSetTheorems, TLAPS

-----------------------------------------------------------------------------
(* The calendar.                                                           *)

LEMMA Quotient ==
  ASSUME NEW d \in Nat \ {0}, NEW q \in Int, NEW r \in 0 .. d - 1
  PROVE  (d * q + r) \div d = q /\ (d * q + r) % d = r
OBVIOUS

LEMMA Parts ==
  ASSUME NEW d \in Nat \ {0}, NEW x \in Int
  PROVE  /\ x \div d \in Int /\ x % d \in 0 .. d - 1 /\ x = d * (x \div d) + (x % d)
OBVIOUS

\* The calendar: whoever goes to sleep wakes at the right hour of the right day.
LEMMA WakesInTime ==
  ASSUME NEW u, u.delta \in Deltas, u.daytime \in BOOLEAN, u.weekdays \in BOOLEAN, NEW t \in Int
  PROVE  /\ t + GetWakeTime(u, t) \in Int
         /\ Hour(t + GetWakeTime(u, t)) = WakeHour(u)
         /\ u.weekdays <=> DayOfWeek(t + GetWakeTime(u, t)) \notin {0, 6}
<1> DEFINE q == (Start + t) \div Day
           h == Hour(t)
           later == IF WakeHour(u) < Hour(t) THEN 1 ELSE 0
           delta == IF u.weekdays THEN WeekDaysDelta ELSE WeekendDaysDelta
           today == DayOfWeek(t + later * Day)
           d == delta[today + 1]
<1>1. Day \in Nat \ {0} /\ Start \in Nat
  BY WorkloadAssumption
<1>2. q \in Int /\ h \in 0 .. Day - 1 /\ Start + t = Day * q + h
  BY <1>1, Parts DEF Hour
<1>3. WakeHour(u) \in 0 .. Day - 1
  <2>1. /\ u.delta \in Int /\ Morning \in Int /\ Night \in Int
        /\ 0 <= Morning + u.delta /\ Morning < Night /\ Night + u.delta < Day
    BY WorkloadAssumption
  <2> QED BY <1>1, <2>1 DEF WakeHour
<1>4. later \in {0, 1}
  OBVIOUS
<1> HIDE DEF q, h, later
<1>5. today = (q + later) % 7
  <2>1. Start + (t + later * Day) = Day * (q + later) + h /\ q + later \in Int
    BY <1>1, <1>2, <1>4
  <2> QED BY <1>1, <1>2, <2>1, Quotient DEF DayOfWeek
<1>6. today \in 0 .. 6
  BY <1>2, <1>4, <1>5
<1> HIDE DEF today
<1>7. d \in 0 .. 5 /\ (u.weekdays <=> (today + d) % 7 \notin {0, 6})
  BY <1>6 DEF WeekDaysDelta, WeekendDaysDelta
<1> HIDE DEF d
<1>8. GetWakeTime(u, t) = WakeHour(u) + (later + d) * Day - h
  BY DEF GetWakeTime, h, later, d, today
<1>9. /\ Start + (t + GetWakeTime(u, t)) = Day * (q + later + d) + WakeHour(u)
      /\ q + later + d \in Int /\ t + GetWakeTime(u, t) \in Int
  BY <1>1, <1>2, <1>3, <1>4, <1>7, <1>8
<1>10. /\ (Start + (t + GetWakeTime(u, t))) \div Day = q + later + d
       /\ (Start + (t + GetWakeTime(u, t))) % Day = WakeHour(u)
  BY <1>1, <1>3, <1>9, Quotient
<1>11. (q + later + d) % 7 = (today + d) % 7
  BY <1>2, <1>4, <1>5, <1>7
<1> QED BY <1>7, <1>9, <1>10, <1>11 DEF Hour, DayOfWeek

-----------------------------------------------------------------------------
(* The queue.                                                              *)

\* Where a list has members of S, and how many.
Where(q, S) == {i \in DOMAIN q : q[i] \in S}
Count(q, S) == Cardinality(Where(q, S))

LEMMA NumbersUpTo ==
  ASSUME NEW n \in Nat
  PROVE  IsFiniteSet(1 .. n) /\ Cardinality(1 .. n) = n
BY FS_Interval

LEMMA WhereIsFinite ==
  ASSUME NEW T, NEW q \in Seq(T), NEW S
  PROVE  IsFiniteSet(Where(q, S)) /\ Count(q, S) \in Nat
<1>1. Len(q) \in Nat /\ DOMAIN q = 1 .. Len(q)
  OBVIOUS
<1>2. IsFiniteSet(DOMAIN q)
  BY <1>1, NumbersUpTo
<1>3. Where(q, S) \in SUBSET DOMAIN q
  BY DEF Where
<1> QED BY <1>2, <1>3, FS_Subset, FS_CardinalityType DEF Count

IsPermutation(r, q) ==
  \E p \in Bijection(DOMAIN r, DOMAIN q) : \A k \in DOMAIN r : r[k] = q[p[k]]

\* A permutation of a list has as many of each.
LEMMA CountPermuted ==
  ASSUME NEW T, NEW q \in Seq(T), NEW r \in Seq(T), IsPermutation(r, q), NEW S
  PROVE  Count(r, S) = Count(q, S)
<1>0. PICK p \in Bijection(DOMAIN r, DOMAIN q) : \A k \in DOMAIN r : r[k] = q[p[k]]
  BY DEF IsPermutation
<1>1. /\ p \in [DOMAIN r -> DOMAIN q] /\ \A k, l \in DOMAIN r : p[k] = p[l] => k = l
      /\ \A i \in DOMAIN q : \E k \in DOMAIN r : p[k] = i
  BY DEF Bijection, Injection, Surjection, IsInjective
<1> DEFINE A == Where(r, S)
           B == Where(q, S)
           f == [k \in A |-> p[k]]
<1>2. /\ f \in [A -> B] /\ \A k, l \in A : f[k] = f[l] => k = l
      /\ \A i \in B : \E k \in A : f[k] = i
  BY <1>0, <1>1 DEF Where
<1> HIDE DEF A, B, f
<1>3. f \in Bijection(A, B)
  BY <1>2 DEF Bijection, Injection, Surjection, IsInjective
<1>4. IsFiniteSet(A)
  BY WhereIsFinite DEF A
<1> QED BY <1>3, <1>4, FS_Bijection DEF ExistsBijection, Count, A, B

\* The elements of two lists that are joined.
LEMMA JoinedElements ==
  ASSUME NEW T, NEW q \in Seq(T), NEW n \in Seq(T)
  PROVE  /\ q \o n \in Seq(T) /\ DOMAIN (q \o n) = 1 .. Len(q) + Len(n)
         /\ DOMAIN q = 1 .. Len(q) /\ DOMAIN n = 1 .. Len(n) /\ Len(q) \in Nat /\ Len(n) \in Nat
         /\ \A i \in DOMAIN q : i \in DOMAIN (q \o n) /\ (q \o n)[i] = q[i]
         /\ \A i \in DOMAIN n, j \in Int :
              j = Len(q) + i => j \in DOMAIN (q \o n) /\ (q \o n)[j] = n[i]
OBVIOUS

LEMMA CountJoined ==
  ASSUME NEW T, NEW q \in Seq(T), NEW n \in Seq(T), NEW S
  PROVE  Count(q \o n, S) = Count(q, S) + Count(n, S)
<1> DEFINE a == q \o n
           k == Len(q)
           A == Where(q, S)
           B == Where(n, S)
           C == {k + i : i \in B}
<1>1. /\ k \in Nat /\ Len(n) \in Nat /\ DOMAIN q = 1 .. k /\ DOMAIN n = 1 .. Len(n)
      /\ DOMAIN a = 1 .. k + Len(n) /\ a \in Seq(T)
      /\ \A i \in DOMAIN q : i \in DOMAIN a /\ a[i] = q[i]
      /\ \A i \in DOMAIN n, j \in Int : j = k + i => j \in DOMAIN a /\ a[j] = n[i]
  BY JoinedElements
<1> HIDE DEF a, k
<1>2. A \subseteq 1 .. k /\ B \subseteq 1 .. Len(n)
  BY <1>1 DEF Where
<1>3. Where(a, S) = A \cup C
  <2>1. ASSUME NEW i \in Where(a, S) PROVE i \in A \cup C
    <3>1. i \in 1 .. k + Len(n) /\ a[i] \in S
      BY <1>1 DEF Where
    <3>2. CASE i \in 1 .. k
      BY <1>1, <3>1, <3>2 DEF Where
    <3>3. CASE i \notin 1 .. k
      <4>1. PICK m \in DOMAIN n : i = k + m
        <5>1. i - k \in 1 .. Len(n) /\ i = k + (i - k)
          BY <1>1, <3>1, <3>3
        <5> QED BY <1>1, <5>1
      <4>2. a[i] = n[m]
        BY <1>1, <3>1, <4>1
      <4>3. m \in B
        BY <3>1, <4>1, <4>2 DEF Where
      <4> QED BY <4>1, <4>3
    <3> QED BY <3>2, <3>3
  <2>2. A \subseteq Where(a, S)
    BY <1>1 DEF Where
  <2>3. ASSUME NEW i \in B, NEW j, j = k + i PROVE j \in Where(a, S)
    <3>1. i \in DOMAIN n /\ n[i] \in S
      BY DEF Where
    <3>2. j \in Int
      BY <1>1, <2>3, <3>1
    <3>3. j \in DOMAIN a /\ a[j] = n[i]
      BY <1>1, <2>3, <3>1, <3>2
    <3> QED BY <3>1, <3>3 DEF Where
  <2> QED BY <2>1, <2>2, <2>3
<1>4. IsFiniteSet(A) /\ IsFiniteSet(B)
  BY WhereIsFinite
<1> HIDE DEF A, B
<1>5. IsFiniteSet(C) /\ Cardinality(C) = Cardinality(B)
  <2> DEFINE f == [i \in B |-> k + i]
  <2>1. /\ f \in [B -> C] /\ \A c \in C : \E i \in B : f[i] = c
        /\ \A i, j \in B : f[i] = f[j] => i = j
    BY <1>1, <1>2
  <2> HIDE DEF f, C
  <2>2. f \in Bijection(B, C)
    BY <2>1 DEF Bijection, Injection, Surjection, IsInjective
  <2> QED BY <2>2, <1>4, FS_Bijection DEF ExistsBijection
<1>6. A \cap C = {}
  BY <1>1, <1>2
<1> HIDE DEF C
<1>7. Cardinality(A \cup C) = Cardinality(A) + Cardinality(C) - 0
  <2>1. Cardinality(A \cup C) = Cardinality(A) + Cardinality(C) - Cardinality(A \cap C)
    BY <1>4, <1>5, FS_Union
  <2> QED BY <1>6, <2>1, FS_EmptySet
<1>8. Cardinality(A) \in Nat /\ Cardinality(B) \in Nat
  BY <1>4, FS_CardinalityType
<1>9. Cardinality(A \cup C) = Cardinality(A) + Cardinality(B)
  BY <1>5, <1>7, <1>8
<1> QED BY <1>3, <1>9 DEF Count, A, B, a

LEMMA CountOfOne ==
  ASSUME NEW x, NEW S
  PROVE  Count(<<x>>, S) = IF x \in S THEN 1 ELSE 0
<1>1. Where(<<x>>, S) = IF x \in S THEN {1} ELSE {}
  <2>1. DOMAIN <<x>> = {1} /\ <<x>>[1] = x
    OBVIOUS
  <2> QED BY <2>1 DEF Where
<1> QED BY <1>1, FS_Singleton, FS_EmptySet DEF Count

LEMMA CountOfRest ==
  ASSUME NEW T, NEW q \in Seq(T), q # <<>>, NEW S
  PROVE  Count(Tail(q), S) = Count(q, S) - IF Head(q) \in S THEN 1 ELSE 0
<1> DEFINE h == Head(q)
           r == Tail(q)
           o == <<h>>
<1>1. h \in T /\ r \in Seq(T) /\ o \in Seq(T) /\ q = o \o r
  OBVIOUS
<1>2. Count(o, S) = IF h \in S THEN 1 ELSE 0
  BY CountOfOne
<1> HIDE DEF h, r, o
<1>3. Count(q, S) = Count(o, S) + Count(r, S)
  BY <1>1, CountJoined
<1>4. Count(r, S) \in Nat /\ Count(o, S) \in Nat
  BY <1>1, WhereIsFinite
<1>5. Count(r, S) = Count(q, S) - IF h \in S THEN 1 ELSE 0
  BY <1>2, <1>3, <1>4
<1> QED BY <1>5 DEF h, r

\* Events are put in their order: each has a place of its own.
LEMMA Injected ==
  ASSUME NEW T, NEW q \in Seq(T), NEW new \in Seq(T), \A e \in T : e.t \in Int
  PROVE  /\ InjectAll(q, new) \in Seq(T)
         /\ Len(InjectAll(q, new)) = Len(q) + Len(new)
         /\ IsPermutation(InjectAll(q, new), q \o new)
<1> DEFINE all == q \o new
           n == Len(all)
           D == DOMAIN all
           Before(i) == {j \in D : all[j].t < all[i].t \/ (all[j].t = all[i].t /\ j <= i)}
           Rank(i) == Cardinality(Before(i))
           p == [k \in D |-> CHOOSE i \in D : Rank(i) = k]
           rank == [i \in D |-> Rank(i)]
<1>1. all \in Seq(T) /\ n = Len(q) + Len(new) /\ n \in Nat /\ D = 1 .. n /\ \A i \in D :
        all[i] \in T
  OBVIOUS
<1>2. IsFiniteSet(D) /\ Cardinality(D) = n
  BY <1>1, NumbersUpTo
<1>3. InjectAll(q, new) = [k \in D |-> all[CHOOSE i \in D : Rank(i) = k]]
  <2> HIDE DEF all
  <2> QED BY DEF InjectAll, all
<1> HIDE DEF all, n
<1>4. \A i \in D : i \in Int /\ all[i].t \in Int
  BY <1>1
<1>5. \A i \in D : IsFiniteSet(Before(i)) /\ Rank(i) \in 1 .. n
  <2> SUFFICES ASSUME NEW i \in D PROVE IsFiniteSet(Before(i)) /\ Rank(i) \in 1 .. n
    OBVIOUS
  <2>1. Before(i) \in SUBSET D /\ i \in Before(i)
    BY <1>4
  <2>2. IsFiniteSet(Before(i)) /\ Cardinality(Before(i)) <= n
    BY <1>2, <2>1, FS_Subset
  <2>3. Cardinality(Before(i)) \in Nat /\ Cardinality(Before(i)) # 0
    BY <2>1, <2>2, FS_CardinalityType, FS_EmptySet
  <2> QED BY <1>1, <2>2, <2>3
<1>6. ASSUME NEW i \in D, NEW j \in D, i \in Before(j), i # j
      PROVE  Rank(i) # Rank(j)
  <2>1. Before(i) \in SUBSET Before(j) /\ j \notin Before(i) /\ j \in Before(j)
    BY <1>4, <1>6
  <2>2. IsFiniteSet(Before(j))
    BY <1>5
  <2> HIDE DEF Before
  <2> QED BY <2>1, <2>2, FS_Subset
<1>7. \A i, j \in D : i \in Before(j) \/ j \in Before(i)
  BY <1>4
<1>8. \A i, j \in D : Rank(i) = Rank(j) => i = j
  BY <1>6, <1>7
<1> HIDE DEF Before, Rank
<1>9. rank \in Injection(D, D)
  BY <1>1, <1>5, <1>8 DEF Injection, IsInjective
<1>10. rank \in Surjection(D, D)
  BY <1>2, <1>9, FS_Injection
<1>11. \A k \in D : \E i \in D : Rank(i) = k
  BY <1>10 DEF Surjection
<1>12. \A k \in D : p[k] \in D /\ Rank(p[k]) = k
  BY <1>11
<1>13. \A i \in D : Rank(i) \in D /\ p[Rank(i)] = i
  BY <1>1, <1>5, <1>8, <1>12
<1> HIDE DEF p
<1>14. p \in [D -> D]
  BY <1>12 DEF p
<1>15. p \in Bijection(D, D)
  <2>1. \A k, l \in D : p[k] = p[l] => k = l
    BY <1>12
  <2>2. \A i \in D : \E k \in D : p[k] = i
    BY <1>13
  <2> QED BY <1>14, <2>1, <2>2 DEF Bijection, Injection, Surjection, IsInjective
<1> DEFINE r == [k \in D |-> all[p[k]]]
<1>16. r \in Seq(T) /\ Len(r) = n /\ DOMAIN r = D /\ \A k \in D : r[k] = all[p[k]]
  BY <1>1, <1>12
<1> HIDE DEF r
<1>17. InjectAll(q, new) = r
  <2>1. r = [k \in D |-> all[CHOOSE i \in D : Rank(i) = k]]
    BY DEF r, p
  <2> QED BY <1>3, <2>1
<1>18. IsPermutation(r, all)
  BY <1>15, <1>16 DEF IsPermutation
<1> QED BY <1>1, <1>16, <1>17, <1>18 DEF all

LEMMA InjectedCount ==
  ASSUME NEW T, NEW q \in Seq(T), NEW new \in Seq(T), \A e \in T : e.t \in Int, NEW S
  PROVE  Count(InjectAll(q, new), S) = Count(q, S) + Count(new, S)
<1> DEFINE r == InjectAll(q, new)
           a == q \o new
<1>1. IsPermutation(r, a)
  BY Injected
<1>2. r \in Seq(T) /\ a \in Seq(T)
  BY Injected
<1> HIDE DEF r, a
<1>3. Count(r, S) = Count(a, S)
  BY <1>1, <1>2, CountPermuted
<1> QED BY <1>3, CountJoined DEF r, a

\* What is in the queue was there or is new.
LEMMA InjectedElements ==
  ASSUME NEW T, NEW q \in Seq(T), NEW new \in Seq(T), \A e \in T : e.t \in Int,
         NEW k \in DOMAIN InjectAll(q, new)
  PROVE  \/ \E i \in DOMAIN q : InjectAll(q, new)[k] = q[i]
         \/ \E i \in DOMAIN new : InjectAll(q, new)[k] = new[i]
<1> DEFINE r == InjectAll(q, new)
           a == q \o new
<1>0. IsPermutation(r, a)
  BY Injected
<1> HIDE DEF r, a
<1>1. PICK p \in Bijection(DOMAIN r, DOMAIN a) : \A m \in DOMAIN r : r[m] = a[p[m]]
  BY <1>0 DEF IsPermutation
<1>2. p[k] \in DOMAIN a /\ r[k] = a[p[k]]
  BY <1>1 DEF Bijection, Injection, r
<1>3. /\ Len(q) \in Nat /\ DOMAIN a = 1 .. Len(q) + Len(new) /\ DOMAIN q = 1 .. Len(q)
      /\ DOMAIN new = 1 .. Len(new) /\ Len(new) \in Nat
      /\ \A i \in DOMAIN q : a[i] = q[i]
      /\ \A i \in DOMAIN new, j \in Int : j = Len(q) + i => a[j] = new[i]
  BY JoinedElements DEF a
<1>4. CASE p[k] \in 1 .. Len(q)
  BY <1>2, <1>3, <1>4 DEF r
<1>5. CASE p[k] \notin 1 .. Len(q)
  <2>1. PICK i \in DOMAIN new : p[k] = Len(q) + i
    <3>1. p[k] - Len(q) \in 1 .. Len(new) /\ p[k] = Len(q) + (p[k] - Len(q))
      BY <1>2, <1>3, <1>5
    <3> QED BY <1>3, <3>1
  <2>2. a[p[k]] = new[i]
    BY <1>2, <1>3, <2>1
  <2> QED BY <1>2, <2>1, <2>2 DEF r
<1> QED BY <1>4, <1>5

-----------------------------------------------------------------------------
(* Types.                                                                  *)

TaskStates == {"sought", "queued", "running", "done"}
AllJobs == [id : Nat, node : Nat, cmd : Nat, desc : Nat, born : Int, tasks : [Tasks -> TaskStates]]
AllEvents == [type : {"dispatch"}, node : Nat, cmd : Nat, t : Int]
               \cup [type : {"user", "send"}, node : Nat, t : Int]
UserStates == [state : {"NEW", "SLEEPING", "WAIT_TT", "WAIT_JOB_FINISH"}, batchSize : Int,
               daytime : BOOLEAN, weekdays : BOOLEAN, delta : Deltas]
AllStats == [existing : Int, running : Int, apps : Int, unfinished : Int]
AllRecords == [client : Nat, release : Nat]

JobsOK == /\ IsFiniteSet(jobs) /\ jobs \subseteq AllJobs
          /\ \A j \in jobs : j.node \in Nodes
          /\ \A j, k \in jobs : j.id = k.id => j = k

EventsOK == events \in Seq(AllEvents) /\ \A i \in DOMAIN events : events[i].node \in Nodes

UsersOK == case = "site" => users \in [Nodes -> UserStates]

CaseOK ==
  /\ case \in Cases /\ now \in Int /\ submitted \in Nat /\ finished \in Nat
  /\ nextApp \in [Nodes -> Nat] /\ stats \in AllStats
  /\ records \in Seq(AllRecords) /\ \A i \in DOMAIN records : records[i].client \in Nodes

TypeInv == CaseOK /\ EventsOK /\ JobsOK /\ UsersOK

\* Without users there is one command at most on its way, the last one, and its
\* node has the description.
QueueInv ==
  case # "site" =>
    /\ events # <<>> =>
         /\ Len(events) = 1 /\ Head(events).type = "dispatch" /\ Head(events).cmd = submitted
         /\ case # "many" => nextApp[Head(events).node] = submitted
    /\ case = "many" =>
         submitted = 1 /\ nextApp = [n \in Nodes |-> IF n = NumNodes[case] - 1 THEN 1 ELSE 0]

IInv == TypeInv /\ QueueInv /\ WorkIsAccounted

LEMMA NodesAreNumbers ==
  ASSUME case \in Cases
  PROVE  NumNodes[case] \in Nat \ {0} /\ Nodes \subseteq Nat
<1>1. NumNodes[case] \in Nat \ {0}
  BY WorkloadAssumption
<1> QED BY <1>1 DEF Nodes

LEMMA EventFields ==
  ASSUME NEW e \in AllEvents
  PROVE  e.t \in Int /\ e.node \in Nat
BY DEF AllEvents

LEMMA NewEvents ==
  ASSUME NEW n \in Nat, NEW t \in Int
  PROVE  /\ \A c \in Nat : Dispatch(n, c, t) \in AllEvents
         /\ SendJob(n, t) \in AllEvents /\ UserEvent(n, t) \in AllEvents
BY DEF AllEvents, Dispatch, SendJob, UserEvent

-----------------------------------------------------------------------------
(* Applications and their tasks.                                           *)

\* The tasks of some applications that are in some states, as StatisticsMatch
\* counts them, and the applications of a node.
TasksIn(J, S) == UNION {{j} \X In(j, S) : j \in J}
JobsAt(J, n) == {j \in J : j.node = n}

LEMMA InIsFinite ==
  ASSUME NEW j, NEW S
  PROVE  IsFiniteSet(In(j, S)) /\ Cardinality(In(j, S)) \in Nat
<1>1. IsFiniteSet(Tasks)
  BY NumbersUpTo, WorkloadAssumption DEF Tasks
<1>2. In(j, S) \in SUBSET Tasks
  BY DEF In
<1> QED BY <1>1, <1>2, FS_Subset, FS_CardinalityType

LEMMA ProductWithOne ==
  ASSUME NEW x, NEW S, IsFiniteSet(S)
  PROVE  IsFiniteSet({x} \X S) /\ Cardinality({x} \X S) = Cardinality(S)
<1> DEFINE f == [s \in S |-> <<x, s>>]
<1>1. /\ f \in [S -> {x} \X S] /\ \A s, r \in S : f[s] = f[r] => s = r
      /\ \A z \in {x} \X S : \E s \in S : f[s] = z
  OBVIOUS
<1> HIDE DEF f
<1>2. f \in Bijection(S, {x} \X S)
  BY <1>1 DEF Bijection, Injection, Surjection, IsInjective
<1> QED BY <1>2, FS_Bijection DEF ExistsBijection

LEMMA TasksInFinite ==
  ASSUME NEW J, IsFiniteSet(J), NEW S
  PROVE  IsFiniteSet(TasksIn(J, S)) /\ Cardinality(TasksIn(J, S)) \in Nat
<1> DEFINE M == {{j} \X In(j, S) : j \in J}
           f == [j \in J |-> {j} \X In(j, S)]
<1>1. \A j \in J : IsFiniteSet({j} \X In(j, S))
  BY InIsFinite, ProductWithOne
<1>2. f \in Surjection(J, M)
  BY DEF Surjection
<1>3. \A x \in M : IsFiniteSet(x)
  BY <1>1
<1> HIDE DEF f, M
<1>4. IsFiniteSet(M)
  BY <1>2, FS_Surjection
<1>5. IsFiniteSet(UNION M)
  BY <1>3, <1>4, FS_UNION
<1> QED BY <1>5, FS_CardinalityType DEF M, TasksIn

LEMMA TasksWithOne ==
  ASSUME NEW J, IsFiniteSet(J), NEW j, j \notin J, NEW S
  PROVE  Cardinality(TasksIn(J \cup {j}, S)) = Cardinality(TasksIn(J, S)) + Cardinality(In(j, S))
<1> DEFINE A == TasksIn(J, S)
           B == {j} \X In(j, S)
<1>1. IsFiniteSet(A) /\ Cardinality(A) \in Nat
  BY TasksInFinite
<1>2. IsFiniteSet(B) /\ Cardinality(B) = Cardinality(In(j, S)) /\ Cardinality(In(j, S)) \in Nat
  BY InIsFinite, ProductWithOne
<1>3. TasksIn(J \cup {j}, S) = A \cup B /\ A \cap B = {}
  BY DEF TasksIn
<1> HIDE DEF A, B
<1>4. Cardinality(A \cup B) = Cardinality(A) + Cardinality(B) - Cardinality({})
  BY <1>1, <1>2, <1>3, FS_Union
<1>5. Cardinality(A \cup B) = Cardinality(A) + Cardinality(B)
  BY <1>1, <1>2, <1>4, FS_EmptySet
<1> QED BY <1>2, <1>3, <1>5 DEF A

LEMMA TasksWithoutOne ==
  ASSUME NEW J, IsFiniteSet(J), NEW j \in J, NEW S
  PROVE  Cardinality(TasksIn(J \ {j}, S)) = Cardinality(TasksIn(J, S)) - Cardinality(In(j, S))
<1> DEFINE R == J \ {j}
<1>1. IsFiniteSet(R) /\ j \notin R /\ R \cup {j} = J
  BY FS_RemoveElement
<1> HIDE DEF R
<1>2. Cardinality(TasksIn(J, S)) = Cardinality(TasksIn(R, S)) + Cardinality(In(j, S))
  BY <1>1, TasksWithOne
<1>3. Cardinality(TasksIn(R, S)) \in Nat /\ Cardinality(In(j, S)) \in Nat
  BY <1>1, TasksInFinite, InIsFinite
<1>4. Cardinality(TasksIn(R, S)) = Cardinality(TasksIn(J, S)) - Cardinality(In(j, S))
  BY <1>2, <1>3
<1> QED BY <1>4 DEF R

LEMMA JobsAtFinite ==
  ASSUME NEW J, IsFiniteSet(J), NEW n
  PROVE  IsFiniteSet(JobsAt(J, n)) /\ Cardinality(JobsAt(J, n)) \in Nat
<1>1. JobsAt(J, n) \in SUBSET J
  BY DEF JobsAt
<1> QED BY <1>1, FS_Subset, FS_CardinalityType

LEMMA JobsAtWithOne ==
  ASSUME NEW J, IsFiniteSet(J), NEW j, j \notin J, NEW n
  PROVE  Cardinality(JobsAt(J \cup {j}, n)) = Cardinality(JobsAt(J, n)) + IF j.node = n THEN 1
           ELSE 0
<1>1. IsFiniteSet(JobsAt(J, n)) /\ Cardinality(JobsAt(J, n)) \in Nat /\ j \notin JobsAt(J, n)
  BY JobsAtFinite DEF JobsAt
<1>2. JobsAt(J \cup {j}, n) = IF j.node = n THEN JobsAt(J, n) \cup {j} ELSE JobsAt(J, n)
  BY DEF JobsAt
<1>3. CASE j.node = n
  BY <1>1, <1>2, <1>3, FS_AddElement
<1>4. CASE j.node # n
  BY <1>1, <1>2, <1>4
<1> QED BY <1>3, <1>4

LEMMA JobsAtWithoutOne ==
  ASSUME NEW J, IsFiniteSet(J), NEW j \in J, NEW n
  PROVE  Cardinality(JobsAt(J \ {j}, n)) = Cardinality(JobsAt(J, n)) - IF j.node = n THEN 1 ELSE 0
<1> DEFINE R == J \ {j}
<1>1. IsFiniteSet(R) /\ j \notin R /\ R \cup {j} = J
  BY FS_RemoveElement
<1> HIDE DEF R
<1>2. Cardinality(JobsAt(J, n)) = Cardinality(JobsAt(R, n)) + IF j.node = n THEN 1 ELSE 0
  BY <1>1, JobsAtWithOne
<1>3. Cardinality(JobsAt(R, n)) \in Nat
  BY <1>1, JobsAtFinite
<1>4. Cardinality(JobsAt(R, n)) = Cardinality(JobsAt(J, n)) - IF j.node = n THEN 1 ELSE 0
  BY <1>2, <1>3
<1> QED BY <1>4 DEF R

\* A task of an application changes its state.
LEMMA TaskChanges ==
  ASSUME JobsOK, NEW j \in jobs, NEW i \in Tasks, NEW s \in TaskStates
  PROVE  /\ IsFiniteSet(With(j, i, s)) /\ With(j, i, s) \subseteq AllJobs
         /\ \A k, l \in With(j, i, s) : k.id = l.id => k = l
         /\ \A k \in With(j, i, s) : \E l \in jobs : k.node = l.node /\ k.cmd = l.cmd /\ k.desc
              = l.desc
         /\ \A n : Cardinality(JobsAt(With(j, i, s), n)) = Cardinality(JobsAt(jobs, n))
         /\ \A S : Cardinality(TasksIn(With(j, i, s), S))
                     = Cardinality(TasksIn(jobs, S)) - (IF j.tasks[i] \in S THEN 1 ELSE 0)
                         + (IF s \in S THEN 1 ELSE 0)
<1> DEFINE k == [j EXCEPT !.tasks[i] = s]
           R == jobs \ {j}
<1>1. /\ j \in AllJobs /\ k \in AllJobs /\ k.id = j.id /\ k.node = j.node /\ k.cmd = j.cmd
      /\ k.desc = j.desc /\ k.tasks = [j.tasks EXCEPT ![i] = s] /\ j.tasks \in [Tasks -> TaskStates]
  BY DEF JobsOK, AllJobs
<1>2. With(j, i, s) = R \cup {k}
  BY DEF With
<1> HIDE DEF k
<1>3. /\ IsFiniteSet(jobs) /\ IsFiniteSet(R) /\ R \subseteq jobs /\ j \notin R
      /\ k \notin R
  BY <1>1, FS_RemoveElement DEF JobsOK
<1>4. /\ IsFiniteSet(R \cup {k}) /\ R \cup {k} \subseteq AllJobs
      /\ \A x, y \in R \cup {k} : x.id = y.id => x = y
      /\ \A x \in R \cup {k} : \E l \in jobs : x.node = l.node /\ x.cmd = l.cmd /\ x.desc = l.desc
  BY <1>1, <1>3, FS_AddElement DEF JobsOK
<1>5. ASSUME NEW n
      PROVE  Cardinality(JobsAt(R \cup {k}, n)) = Cardinality(JobsAt(jobs, n))
  <2>1. Cardinality(JobsAt(R, n)) = Cardinality(JobsAt(jobs, n)) - IF j.node = n THEN 1 ELSE 0
    BY <1>3, JobsAtWithoutOne
  <2>2. Cardinality(JobsAt(jobs, n)) \in Nat
    BY <1>3, JobsAtFinite
  <2> HIDE DEF R
  <2>3. Cardinality(JobsAt(R \cup {k}, n)) = Cardinality(JobsAt(R, n)) + IF k.node = n THEN 1 ELSE 0
    BY <1>3, JobsAtWithOne
  <2> QED BY <1>1, <2>1, <2>2, <2>3
<1>6. ASSUME NEW S
      PROVE  Cardinality(TasksIn(R \cup {k}, S))
               = Cardinality(TasksIn(jobs, S)) - (IF j.tasks[i] \in S THEN 1 ELSE 0)
                   + (IF s \in S THEN 1 ELSE 0)
  <2> DEFINE A == In(j, S) \ {i}
  <2>1. IsFiniteSet(In(j, S)) /\ Cardinality(In(j, S)) \in Nat
    BY InIsFinite
  <2>2. IsFiniteSet(A) /\ Cardinality(A) = Cardinality(In(j, S)) - IF j.tasks[i] \in S THEN 1 ELSE 0
    <3>1. i \in In(j, S) <=> j.tasks[i] \in S
      BY DEF In
    <3> QED BY <2>1, <3>1, FS_RemoveElement
  <2>3. In(k, S) = IF s \in S THEN A \cup {i} ELSE A
    BY <1>1 DEF In
  <2> HIDE DEF A
  <2>4. Cardinality(In(k, S)) = Cardinality(A) + IF s \in S THEN 1 ELSE 0
    <3>1. i \notin A /\ Cardinality(A) \in Nat
      BY <2>2, FS_CardinalityType DEF A
    <3>2. CASE s \in S
      BY <2>2, <2>3, <3>1, <3>2, FS_AddElement
    <3>3. CASE s \notin S
      BY <2>3, <3>1, <3>3
    <3> QED BY <3>2, <3>3
  <2>5. Cardinality(TasksIn(R, S)) = Cardinality(TasksIn(jobs, S)) - Cardinality(In(j, S))
    BY <1>3, TasksWithoutOne
  <2> HIDE DEF R
  <2>6. Cardinality(TasksIn(R \cup {k}, S)) = Cardinality(TasksIn(R, S)) + Cardinality(In(k, S))
    BY <1>3, TasksWithOne
  <2>7. Cardinality(TasksIn(jobs, S)) \in Nat /\ Cardinality(In(k, S)) \in Nat
    BY <1>3, TasksInFinite, InIsFinite
  <2> QED BY <2>1, <2>2, <2>4, <2>5, <2>6, <2>7
<1> QED BY <1>2, <1>4, <1>5, <1>6

-----------------------------------------------------------------------------
(* The users.                                                              *)

Of(type, n) == {e \in AllEvents : e.type = type /\ e.node = n}
Work(n, q, J) == Count(q, Of("send", n)) + Count(q, Of("dispatch", n)) + Cardinality(JobsAt(J, n))
RightWake(u, t) == Hour(t) = WakeHour(u) /\ (u.weekdays <=> DayOfWeek(t) \notin {0, 6})

\* UsersAreAwaited says this of the user of each node.
Awaits(u, n, q, J) ==
  /\ u.batchSize = Work(n, q, J)
  /\ Count(q, Of("user", n)) = (IF Work(n, q, J) = 0 THEN 1 ELSE 0)
  /\ u.state = "WAIT_JOB_FINISH" <=> Work(n, q, J) > 0
  /\ u.state = "SLEEPING" => \A i \in DOMAIN q : q[i] \in Of("user", n) => RightWake(u, q[i].t)

LEMMA WhereIs ==
  ASSUME NEW q \in Seq(AllEvents), NEW type, NEW n
  PROVE  Where(q, Of(type, n)) = {i \in DOMAIN q : q[i].type = type /\ q[i].node = n}
<1>1. \A i \in DOMAIN q : q[i] \in AllEvents
  OBVIOUS
<1> QED BY <1>1 DEF Where, Of

LEMMA UserEventIs ==
  ASSUME NEW e \in AllEvents, NEW n
  PROVE  e = UserEvent(n, e.t) <=> e \in Of("user", n)
BY DEF AllEvents, UserEvent, Of

LEMMA AwaitedIs ==
  ASSUME EventsOK, case = "site"
  PROVE  UsersAreAwaited <=> \A n \in Nodes : Awaits(users[n], n, events, jobs)
<1>1. events \in Seq(AllEvents) /\ \A i \in DOMAIN events : events[i] \in AllEvents
  BY DEF EventsOK
<1>2. ASSUME NEW n \in Nodes
      PROVE  /\ Pending("send", n) = Count(events, Of("send", n))
             /\ Pending("dispatch", n) = Count(events, Of("dispatch", n))
             /\ Pending("user", n) = Count(events, Of("user", n))
             /\ JobsOf(n) = JobsAt(jobs, n)
             /\ \A i \in DOMAIN events :
                  events[i] = UserEvent(n, events[i].t) <=> events[i] \in Of("user", n)
  <2>1. ASSUME NEW type PROVE Pending(type, n) = Count(events, Of(type, n))
    <3>1. Where(events, Of(type, n))
            = {i \in DOMAIN events : events[i].type = type /\ events[i].node = n}
      BY <1>1, WhereIs
    <3> QED BY <3>1 DEF Pending, Count
  <2>2. JobsOf(n) = JobsAt(jobs, n)
    BY DEF JobsOf, JobsAt
  <2>3. \A i \in DOMAIN events :
          events[i] = UserEvent(n, events[i].t) <=> events[i] \in Of("user", n)
    BY <1>1, UserEventIs
  <2> QED BY <2>1, <2>2, <2>3
<1> QED BY <1>2 DEF UsersAreAwaited, Awaits, Work, RightWake

LEMMA AwaitedNext ==
  ASSUME EventsOK', case' = "site"
  PROVE  UsersAreAwaited' <=> \A n \in Nodes' : Awaits(users'[n], n, events', jobs')
<1>1. events' \in Seq(AllEvents) /\ \A i \in DOMAIN events' : events'[i] \in AllEvents
  BY DEF EventsOK
<1>2. ASSUME NEW n \in Nodes'
      PROVE  /\ Pending("send", n)' = Count(events', Of("send", n))
             /\ Pending("dispatch", n)' = Count(events', Of("dispatch", n))
             /\ Pending("user", n)' = Count(events', Of("user", n))
             /\ JobsOf(n)' = JobsAt(jobs', n)
             /\ \A i \in DOMAIN events' :
                  events'[i] = UserEvent(n, events'[i].t) <=> events'[i] \in Of("user", n)
  <2>1. ASSUME NEW type PROVE Pending(type, n)' = Count(events', Of(type, n))
    <3>1. Where(events', Of(type, n))
            = {i \in DOMAIN events' : events'[i].type = type /\ events'[i].node = n}
      BY <1>1, WhereIs
    <3> QED BY <3>1 DEF Pending, Count
  <2>2. JobsOf(n)' = JobsAt(jobs', n)
    BY DEF JobsOf, JobsAt
  <2>3. \A i \in DOMAIN events' :
          events'[i] = UserEvent(n, events'[i].t) <=> events'[i] \in Of("user", n)
    BY <1>1, UserEventIs
  <2> QED BY <2>1, <2>2, <2>3
<1> QED BY <1>2 DEF UsersAreAwaited, Awaits, Work, RightWake

\* A user is not touched while the work is as much and no timer is new.
LEMMA AwaitsStays ==
  ASSUME NEW u, NEW n, NEW q, NEW J, NEW r, NEW K, Awaits(u, n, q, J),
         Work(n, r, K) = Work(n, q, J), Count(r, Of("user", n)) = Count(q, Of("user", n)),
         \A i \in DOMAIN r : r[i] \in Of("user", n) => \E k \in DOMAIN q : r[i] = q[k]
  PROVE  Awaits(u, n, r, K)
BY DEF Awaits

LEMMA CountAll ==
  ASSUME NEW T, NEW q \in Seq(T), NEW S, \A i \in DOMAIN q : q[i] \in S
  PROVE  Count(q, S) = Len(q)
<1>1. Len(q) \in Nat /\ DOMAIN q = 1 .. Len(q)
  OBVIOUS
<1>2. Where(q, S) = 1 .. Len(q)
  BY <1>1 DEF Where
<1> QED BY <1>1, <1>2, NumbersUpTo DEF Count

LEMMA CountNone ==
  ASSUME NEW q, NEW S
  PROVE  (\A i \in DOMAIN q : q[i] \notin S) => Count(q, S) = 0
<1> SUFFICES ASSUME \A i \in DOMAIN q : q[i] \notin S PROVE Count(q, S) = 0
  OBVIOUS
<1>1. Where(q, S) = {}
  BY DEF Where
<1> QED BY <1>1, FS_EmptySet DEF Count

\* A user goes on with a timer, or with a batch of jobs.
WithTimer(o, u, n) ==
  /\ o.user \in UserStates /\ o.user.state \in {"SLEEPING", "WAIT_TT"}
  /\ o.user.batchSize = u.batchSize
  /\ \E t \in Int : /\ o.events = <<UserEvent(n, t)>>
                    /\ o.user.state = "SLEEPING" => RightWake(o.user, t)

WithBatch(o, n) ==
  /\ o.user \in UserStates /\ o.user.state = "WAIT_JOB_FINISH"
  /\ o.user.batchSize \in Nat \ {0} /\ o.events \in Seq(AllEvents)
  /\ Len(o.events) = o.user.batchSize
  /\ \A i \in DOMAIN o.events : o.events[i] \in Of("send", n)

LEMMA SleepsIs ==
  ASSUME NEW u \in UserStates, NEW n \in Nat, NEW t \in Int, NEW o \in Sleeps(u, n, t)
  PROVE  WithTimer(o, u, n)
<1> DEFINE v == [u EXCEPT !.state = "SLEEPING"]
           w == t + GetWakeTime(u, t)
<1>1. o = [user |-> v, events |-> <<UserEvent(n, w)>>]
  BY DEF Sleeps
<1>2. /\ v \in UserStates /\ v.state = "SLEEPING" /\ v.batchSize = u.batchSize
      /\ v.daytime = u.daytime /\ v.weekdays = u.weekdays /\ v.delta = u.delta
      /\ u.delta \in Deltas /\ u.daytime \in BOOLEAN /\ u.weekdays \in BOOLEAN
  BY DEF UserStates
<1>3. w \in Int /\ Hour(w) = WakeHour(u) /\ (u.weekdays <=> DayOfWeek(w) \notin {0, 6})
  BY <1>2, WakesInTime
<1> HIDE DEF v, w
<1>4. RightWake(v, w)
  BY <1>2, <1>3 DEF RightWake, WakeHour
<1>5. o.user = v /\ o.events = <<UserEvent(n, w)>>
  BY <1>1
<1> QED BY <1>2, <1>3, <1>4, <1>5 DEF WithTimer

LEMMA ThinksIs ==
  ASSUME NEW u \in UserStates, NEW n \in Nat, NEW t \in Int, NEW o \in Thinks(u, n, t)
  PROVE  WithTimer(o, u, n)
<1> DEFINE v == [u EXCEPT !.state = "WAIT_TT"]
<1>1. PICK tt \in Thoughts : o = [user |-> v, events |-> <<UserEvent(n, t + tt)>>]
  BY DEF Thinks
<1>2. v \in UserStates /\ v.state = "WAIT_TT" /\ v.batchSize = u.batchSize
  BY DEF UserStates
<1>3. t + tt \in Int
  BY WorkloadAssumption
<1> HIDE DEF v
<1>4. o.user = v /\ o.events = <<UserEvent(n, t + tt)>>
  BY <1>1
<1> QED BY <1>2, <1>3, <1>4 DEF WithTimer

LEMMA ThinksOrSleepsIs ==
  ASSUME NEW u \in UserStates, NEW n \in Nat, NEW t \in Int, NEW o \in ThinksOrSleeps(u, n, t)
  PROVE  WithTimer(o, u, n)
BY SleepsIs, ThinksIs DEF ThinksOrSleeps

LEMMA GeneratesWorkloadIs ==
  ASSUME NEW u \in UserStates, NEW n \in Nat, NEW t \in Int, NEW o \in GeneratesWorkload(u, n, t)
  PROVE  WithBatch(o, n)
<1>1. PICK b \in Batches : \E sends \in Spread(n, t, b) :
        o = [user |-> [u EXCEPT !.batchSize = b, !.state = "WAIT_JOB_FINISH"], events |-> sends]
  BY DEF GeneratesWorkload
<1>2. PICK sends \in Spread(n, t, b) :
        o = [user |-> [u EXCEPT !.batchSize = b, !.state = "WAIT_JOB_FINISH"], events |-> sends]
  BY <1>1
<1>3. b \in Nat \ {0}
  BY WorkloadAssumption
<1> DEFINE last == (b - 1) * Max(Pauses)
           v == [u EXCEPT !.batchSize = b, !.state = "WAIT_JOB_FINISH"]
<1>4. PICK w \in [1 .. b -> 0 .. last] : sends = [i \in 1 .. b |-> SendJob(n, t + w[i])]
  BY DEF Spread
<1> HIDE DEF last
<1>5. \A i \in 1 .. b : t + w[i] \in Int
  BY <1>4
<1>6. \A i \in 1 .. b : SendJob(n, t + w[i]) \in Of("send", n)
  BY <1>5, NewEvents DEF Of, SendJob
<1>7. /\ sends \in Seq(AllEvents) /\ Len(sends) = b
      /\ \A i \in DOMAIN sends : sends[i] \in Of("send", n)
  BY <1>3, <1>4, <1>6 DEF Of
<1>8. v \in UserStates /\ v.state = "WAIT_JOB_FINISH" /\ v.batchSize = b
  <2> DEFINE x == [u EXCEPT !.batchSize = b]
  <2>1. x \in UserStates /\ x.batchSize = b
    BY <1>3 DEF UserStates
  <2>2. v = [x EXCEPT !.state = "WAIT_JOB_FINISH"]
    OBVIOUS
  <2> HIDE DEF x, v
  <2> QED BY <2>1, <2>2 DEF UserStates
<1> HIDE DEF v
<1>9. o.user = v /\ o.events = sends
  BY <1>2 DEF v
<1> QED BY <1>3, <1>7, <1>8, <1>9 DEF WithBatch

LEMMA WakesIs ==
  ASSUME NEW u \in UserStates, NEW n \in Nat, NEW t \in Int, NEW o \in Wakes(u, n, t)
  PROVE  WithTimer(o, u, n) \/ WithBatch(o, n)
BY SleepsIs, GeneratesWorkloadIs DEF Wakes

LEMMA JobFinishedIs ==
  ASSUME NEW u \in UserStates, NEW n \in Nat, NEW t \in Int, NEW o \in JobFinished(u, n, t)
  PROVE  /\ o.user.batchSize = u.batchSize - 1
         /\ u.batchSize = 1 => WithTimer(o, [u EXCEPT !.batchSize = @ - 1], n)
         /\ u.batchSize # 1 => /\ o.user \in UserStates /\ o.user.state = u.state
                               /\ o.events \in Seq(AllEvents) /\ DOMAIN o.events = {}
<1> DEFINE left == [u EXCEPT !.batchSize = @ - 1]
<1>1. left \in UserStates /\ left.batchSize = u.batchSize - 1 /\ left.state = u.state
        /\ u.batchSize \in Int
  BY DEF UserStates
<1>2. o \in IF left.batchSize = 0 THEN ThinksOrSleeps(left, n, t)
            ELSE {[user |-> left, events |-> <<>>]}
  BY DEF JobFinished
<1> HIDE DEF left
<1>3. CASE u.batchSize = 1
  <2>1. WithTimer(o, left, n)
    BY <1>1, <1>2, <1>3, ThinksOrSleepsIs
  <2> QED BY <1>1, <1>3, <2>1 DEF WithTimer, left
<1>4. CASE u.batchSize # 1
  <2>1. o.user = left /\ o.events = <<>>
    BY <1>1, <1>2, <1>4
  <2>2. o.events \in Seq(AllEvents) /\ DOMAIN o.events = {}
    BY <2>1
  <2>3. o.user \in UserStates /\ o.user.state = u.state /\ o.user.batchSize = u.batchSize - 1
    BY <1>1, <2>1
  <2> QED BY <1>4, <2>2, <2>3
<1> QED BY <1>3, <1>4

-----------------------------------------------------------------------------
(* Steps of the tasks.                                                     *)

InQueues == {"queued", "running"}

LEMMA StatisticsIs ==
  StatisticsMatch <=>
    /\ stats.existing = Cardinality(TasksIn(jobs, InQueues))
    /\ stats.running >= Cardinality(TasksIn(jobs, {"running"}))
    /\ stats.unfinished <= stats.apps
    /\ case # "site" =>
         stats.apps
           = finished + (IF ended THEN Cardinality({j \in jobs : In(j, InQueues) # {}}) ELSE 0)
BY DEF StatisticsMatch, TasksIn, InQueues

LEMMA StatisticsNext ==
  StatisticsMatch' <=>
    /\ stats'.existing = Cardinality(TasksIn(jobs', InQueues))
    /\ stats'.running >= Cardinality(TasksIn(jobs', {"running"}))
    /\ stats'.unfinished <= stats'.apps
    /\ case' # "site" =>
         stats'.apps
           = finished' + (IF ended' THEN Cardinality({j \in jobs' : In(j, InQueues) # {}}) ELSE 0)
BY DEF StatisticsMatch, TasksIn, InQueues, In

\* Without a change of the events and the users, these are awaited while each
\* node has as many applications.
LEMMA AwaitedStay ==
  ASSUME IInv, UNCHANGED <<case, events, users>>,
         \A n : Cardinality(JobsAt(jobs', n)) = Cardinality(JobsAt(jobs, n))
  PROVE  EventsOK' /\ UsersOK' /\ UsersAreAwaited'
<1>1. EventsOK' /\ UsersOK' /\ EventsOK
  BY DEF IInv, TypeInv, EventsOK, UsersOK, Nodes
<1>2. CASE case = "site"
  <2>1. \A n \in Nodes : Awaits(users[n], n, events, jobs)
    BY <1>1, <1>2, AwaitedIs DEF IInv, WorkIsAccounted
  <2>2. \A n \in Nodes : Awaits(users[n], n, events, jobs')
    BY <2>1 DEF Awaits, Work
  <2> QED BY <1>1, <1>2, <2>2, AwaitedNext DEF Nodes
<1>3. CASE case # "site"
  BY <1>1, <1>3 DEF UsersAreAwaited
<1> QED BY <1>2, <1>3, <1>1

LEMMA TaskStep ==
  ASSUME IInv, ~ended, NEW j \in jobs, NEW i \in Tasks, NEW s \in TaskStates,
         jobs' = With(j, i, s), stats' \in AllStats,
         UNCHANGED <<case, now, events, nextApp, records, submitted, finished, users, ended>>,
         stats'.apps = stats.apps, stats'.unfinished = stats.unfinished,
         stats'.existing = stats.existing - (IF j.tasks[i] \in InQueues THEN 1 ELSE 0)
                             + (IF s \in InQueues THEN 1 ELSE 0),
         stats'.running >= stats.running - (IF j.tasks[i] \in {"running"} THEN 1 ELSE 0)
                             + (IF s \in {"running"} THEN 1 ELSE 0)
  PROVE  IInv'
<1>1. JobsOK /\ stats \in AllStats
  BY DEF IInv, TypeInv, CaseOK
<1>2. /\ IsFiniteSet(jobs') /\ jobs' \subseteq AllJobs
      /\ \A k, l \in jobs' : k.id = l.id => k = l
      /\ \A k \in jobs' : \E l \in jobs : k.node = l.node /\ k.cmd = l.cmd /\ k.desc = l.desc
      /\ \A n : Cardinality(JobsAt(jobs', n)) = Cardinality(JobsAt(jobs, n))
      /\ \A S : Cardinality(TasksIn(jobs', S))
                  = Cardinality(TasksIn(jobs, S)) - (IF j.tasks[i] \in S THEN 1 ELSE 0)
                      + (IF s \in S THEN 1 ELSE 0)
  BY <1>1, TaskChanges
<1>3. EventsOK' /\ UsersOK' /\ UsersAreAwaited'
  BY <1>2, AwaitedStay
<1>4. JobsOK'
  BY <1>1, <1>2 DEF JobsOK, Nodes
<1>5. CaseOK' /\ QueueInv'
  BY DEF IInv, TypeInv, CaseOK, QueueInv, Nodes
<1>6. DescriptionsMatch'
  BY <1>2 DEF IInv, WorkIsAccounted, DescriptionsMatch
<1>7. StatisticsMatch'
  <2>1. /\ stats.existing = Cardinality(TasksIn(jobs, InQueues))
        /\ stats.running >= Cardinality(TasksIn(jobs, {"running"}))
        /\ stats.unfinished <= stats.apps
        /\ case # "site" => stats.apps = finished
    BY StatisticsIs DEF IInv, WorkIsAccounted, TypeInv, CaseOK, AllStats
  <2>2. /\ Cardinality(TasksIn(jobs, InQueues)) \in Nat
        /\ Cardinality(TasksIn(jobs, {"running"})) \in Nat
        /\ finished \in Nat
    BY <1>1, TasksInFinite DEF JobsOK, IInv, TypeInv, CaseOK
  <2>3. stats'.existing = Cardinality(TasksIn(jobs', InQueues))
    BY <1>2, <2>1
  <2>4. stats'.running >= Cardinality(TasksIn(jobs', {"running"}))
    <3>1. Cardinality(TasksIn(jobs', {"running"}))
            = Cardinality(TasksIn(jobs, {"running"}))
                - (IF j.tasks[i] \in {"running"} THEN 1 ELSE 0)
                + (IF s \in {"running"} THEN 1 ELSE 0)
      BY <1>2
    <3>2. stats'.running \in Int /\ stats.running \in Int
      BY <1>1 DEF AllStats
    <3> QED BY <2>1, <2>2, <3>1, <3>2
  <2> QED BY <2>1, <2>2, <2>3, <2>4, StatisticsNext
<1> QED BY <1>3, <1>4, <1>5, <1>6, <1>7 DEF IInv, TypeInv, WorkIsAccounted

\* A task leaves the statistics.
LEMMA FinishedStats ==
  ASSUME NEW s \in AllStats, NEW old, NEW new
  PROVE  LET r == TaskFinishedStats(s, old, new)
         IN  /\ r \in AllStats /\ r.apps = s.apps /\ r.unfinished = s.unfinished
             /\ r.existing = s.existing - 1
             /\ r.running = s.running - IF old = "running" THEN 1 ELSE 0
<1> DEFINE r == TaskFinishedStats(s, old, new)
           x == s.existing - 1
           y == IF old = "running" THEN s.running - 1 ELSE s.running
<1>1. /\ x \in Int /\ y \in Int /\ s.apps \in Int /\ s.unfinished \in Int
      /\ y = s.running - IF old = "running" THEN 1 ELSE 0
  BY DEF AllStats
<1>2. r = [s EXCEPT !.existing = x, !.running = y]
  BY DEF TaskFinishedStats
<1> HIDE DEF r, x, y
<1>3. r = [existing |-> x, running |-> y, apps |-> s.apps, unfinished |-> s.unfinished]
  BY <1>2 DEF AllStats
<1>4. r.existing = x /\ r.running = y /\ r.apps = s.apps /\ r.unfinished = s.unfinished
  BY <1>3
<1>5. r \in AllStats
  BY <1>1, <1>3 DEF AllStats
<1> QED BY <1>1, <1>4, <1>5 DEF r, x

LEMMA TasksGoOn ==
  ASSUME IInv, NEW j \in jobs, NEW i \in Tasks,
         TaskAccepted(j, i) \/ TaskStarted(j, i) \/ TaskPaused(j, i) \/ TaskAborted(j, i)
  PROVE  IInv'
<1>1. stats \in AllStats
  BY DEF IInv, TypeInv, CaseOK
<1>2. CASE TaskAccepted(j, i)
  <2>1. /\ ~ended /\ jobs' = With(j, i, "queued") /\ j.tasks[i] = "sought"
        /\ UNCHANGED <<case, now, events, nextApp, records, submitted, finished, users, ended>>
        /\ stats' = [stats EXCEPT !.existing = @ + 1]
    BY <1>2 DEF TaskAccepted, Runs
  <2>2. /\ stats' \in AllStats /\ stats'.apps = stats.apps /\ stats'.unfinished = stats.unfinished
        /\ stats'.existing = stats.existing - 0 + 1 /\ stats'.running >= stats.running - 0 + 0
    BY <1>1, <2>1 DEF AllStats
  <2> QED BY <2>1, <2>2, TaskStep DEF InQueues, TaskStates
<1>3. CASE TaskStarted(j, i)
  <2>1. /\ ~ended /\ jobs' = With(j, i, "running") /\ j.tasks[i] = "queued"
        /\ UNCHANGED <<case, now, events, nextApp, records, submitted, finished, users, ended>>
        /\ stats' = [stats EXCEPT !.running = @ + 1]
    BY <1>3 DEF TaskStarted, Runs
  <2>2. /\ stats' \in AllStats /\ stats'.apps = stats.apps /\ stats'.unfinished = stats.unfinished
        /\ stats'.existing = stats.existing - 1 + 1 /\ stats'.running >= stats.running - 0 + 1
    BY <1>1, <2>1 DEF AllStats
  <2> QED BY <2>1, <2>2, TaskStep DEF InQueues, TaskStates
<1>4. CASE TaskPaused(j, i)
  <2>1. /\ ~ended /\ jobs' = With(j, i, "queued") /\ j.tasks[i] = "running"
        /\ UNCHANGED <<case, now, events, nextApp, records, submitted, finished, users, ended>>
        /\ stats' = stats
    BY <1>4 DEF TaskPaused, Runs
  <2>2. /\ stats' \in AllStats /\ stats'.apps = stats.apps /\ stats'.unfinished = stats.unfinished
        /\ stats'.existing = stats.existing - 1 + 1 /\ stats'.running >= stats.running - 1 + 0
    BY <1>1, <2>1 DEF AllStats
  <2> QED BY <2>1, <2>2, TaskStep DEF InQueues, TaskStates
<1>5. CASE TaskAborted(j, i)
  <2>1. /\ ~ended /\ jobs' = With(j, i, "sought") /\ j.tasks[i] \in {"queued", "running"}
        /\ UNCHANGED <<case, now, events, nextApp, records, submitted, finished, users, ended>>
        /\ stats' = TaskFinishedStats(stats, j.tasks[i], "sought")
    BY <1>5 DEF TaskAborted, Runs
  <2>2. /\ stats' \in AllStats /\ stats'.apps = stats.apps /\ stats'.unfinished = stats.unfinished
        /\ stats'.existing = stats.existing - 1 + 0
        /\ stats'.running >= stats.running - (IF j.tasks[i] \in {"running"} THEN 1 ELSE 0) + 0
    <3>1. /\ stats' \in AllStats /\ stats'.apps = stats.apps /\ stats'.unfinished = stats.unfinished
          /\ stats'.existing = stats.existing - 1
          /\ stats'.running = stats.running - IF j.tasks[i] = "running" THEN 1 ELSE 0
      BY <1>1, <2>1, FinishedStats
    <3>2. stats.existing \in Int /\ stats.running \in Int
      BY <1>1 DEF AllStats
    <3> QED BY <3>1, <3>2
  <2> QED BY <2>1, <2>2, TaskStep DEF InQueues, TaskStates
<1> QED BY <1>2, <1>3, <1>4, <1>5

-----------------------------------------------------------------------------
(* The users and the queue.                                                *)

LEMMA TypesDiffer ==
  ASSUME NEW n, NEW m, NEW e \in AllEvents
  PROVE  /\ e \in Of("user", n) => e \notin Of("send", m) /\ e \notin Of("dispatch", m)
         /\ e \in Of("send", n) => e \notin Of("user", m) /\ e \notin Of("dispatch", m)
         /\ e \in Of("dispatch", n) => e \notin Of("user", m) /\ e \notin Of("send", m)
BY DEF Of

LEMMA TimesAreNumbers == \A e \in AllEvents : e.t \in Int
BY EventFields

\* New events for some nodes.
LEMMA EventsStayOK ==
  ASSUME NEW N, NEW q \in Seq(AllEvents), NEW new \in Seq(AllEvents),
         \A i \in DOMAIN q : q[i].node \in N, \A i \in DOMAIN new : new[i].node \in N
  PROVE  /\ InjectAll(q, new) \in Seq(AllEvents)
         /\ \A i \in DOMAIN InjectAll(q, new) : InjectAll(q, new)[i].node \in N
<1>1. InjectAll(q, new) \in Seq(AllEvents)
  BY TimesAreNumbers, Injected
<1>2. ASSUME NEW k \in DOMAIN InjectAll(q, new) PROVE InjectAll(q, new)[k].node \in N
  <2>1. \/ \E i \in DOMAIN q : InjectAll(q, new)[k] = q[i]
        \/ \E i \in DOMAIN new : InjectAll(q, new)[k] = new[i]
    BY TimesAreNumbers, InjectedElements
  <2> QED BY <2>1
<1> QED BY <1>1, <1>2

\* The users of the other nodes.
LEMMA OthersStay ==
  ASSUME NEW q \in Seq(AllEvents), NEW new \in Seq(AllEvents), NEW J, NEW n, NEW m, m # n,
         \A i \in DOMAIN new : new[i].node = n, NEW u, Awaits(u, m, q, J)
  PROVE  Awaits(u, m, InjectAll(q, new), J)
<1> DEFINE r == InjectAll(q, new)
<1>1. \A type : Count(r, Of(type, m)) = Count(q, Of(type, m))
  <2> TAKE type
  <2>1. \A i \in DOMAIN new : new[i] \notin Of(type, m)
    BY DEF Of
  <2>2. Count(new, Of(type, m)) = 0
    BY <2>1, CountNone
  <2>3. Count(r, Of(type, m)) = Count(q, Of(type, m)) + Count(new, Of(type, m))
    BY TimesAreNumbers, InjectedCount
  <2>4. Count(q, Of(type, m)) \in Nat
    BY WhereIsFinite
  <2> HIDE DEF r
  <2> QED BY <2>2, <2>3, <2>4
<1>2. \A k \in DOMAIN r : r[k] \in Of("user", m) => \E i \in DOMAIN q : r[k] = q[i]
  <2> TAKE k \in DOMAIN r
  <2>1. (\E i \in DOMAIN q : r[k] = q[i]) \/ (\E i \in DOMAIN new : r[k] = new[i])
    BY TimesAreNumbers, InjectedElements
  <2> HIDE DEF r
  <2> QED BY <2>1 DEF Of
<1> HIDE DEF r
<1>3. Work(m, r, J) = Work(m, q, J)
  BY <1>1 DEF Work
<1>4. Awaits(u, m, r, J)
  BY <1>1, <1>2, <1>3, AwaitsStays
<1> QED BY <1>4 DEF r

\* The user without work and timer goes on.
LEMMA TimerSet ==
  ASSUME NEW q \in Seq(AllEvents), NEW J, NEW n \in Nat, NEW u, NEW o, WithTimer(o, u, n),
         u.batchSize = 0, Work(n, q, J) = 0, Count(q, Of("user", n)) = 0
  PROVE  /\ o.events \in Seq(AllEvents) /\ \A i \in DOMAIN o.events : o.events[i].node = n
         /\ Awaits(o.user, n, InjectAll(q, o.events), J)
<1>1. PICK t \in Int : /\ o.events = <<UserEvent(n, t)>>
                       /\ o.user.state = "SLEEPING" => RightWake(o.user, t)
  BY DEF WithTimer
<1> DEFINE e == UserEvent(n, t)
           new == <<e>>
           r == InjectAll(q, new)
<1>2. e \in AllEvents /\ e \in Of("user", n) /\ e.node = n /\ e.t = t
  BY NewEvents DEF Of, UserEvent
<1> HIDE DEF e
<1>3. /\ new \in Seq(AllEvents) /\ DOMAIN new = {1} /\ new[1] = e
      /\ \A S : Count(new, S) = IF e \in S THEN 1 ELSE 0
  BY <1>2, CountOfOne
<1> HIDE DEF new
<1>4. /\ Count(r, Of("user", n)) = Count(q, Of("user", n)) + 1
      /\ Count(r, Of("send", n)) = Count(q, Of("send", n)) + 0
      /\ Count(r, Of("dispatch", n)) = Count(q, Of("dispatch", n)) + 0
  <2>1. e \notin Of("send", n) /\ e \notin Of("dispatch", n)
    BY <1>2, TypesDiffer
  <2>2. \A S : Count(r, S) = Count(q, S) + Count(new, S)
    BY <1>3, TimesAreNumbers, InjectedCount
  <2> HIDE DEF r
  <2> QED BY <1>2, <1>3, <2>1, <2>2
<1>5. \A k \in DOMAIN r : r[k] \in Of("user", n) => r[k] = e
  <2> SUFFICES ASSUME NEW k \in DOMAIN r, r[k] \in Of("user", n) PROVE r[k] = e
    OBVIOUS
  <2>1. (\E i \in DOMAIN q : r[k] = q[i]) \/ (\E i \in DOMAIN new : r[k] = new[i])
    BY <1>3, TimesAreNumbers, InjectedElements
  <2>2. \A i \in DOMAIN q : q[i] \notin Of("user", n)
    <3>1. IsFiniteSet(Where(q, Of("user", n)))
      BY WhereIsFinite
    <3>2. Where(q, Of("user", n)) = {}
      BY <3>1, FS_EmptySet DEF Count
    <3> QED BY <3>2 DEF Where
  <2> HIDE DEF r
  <2> QED BY <1>3, <2>1, <2>2
<1> HIDE DEF r
<1>6. /\ Count(q, Of("send", n)) \in Nat /\ Count(q, Of("dispatch", n)) \in Nat
  BY WhereIsFinite
<1>7. Work(n, r, J) = Work(n, q, J)
  BY <1>4, <1>6 DEF Work
<1>8. Awaits(o.user, n, r, J)
  BY <1>1, <1>2, <1>4, <1>5, <1>7 DEF Awaits, WithTimer
<1> QED BY <1>1, <1>2, <1>3, <1>8 DEF r, new, e

LEMMA BatchSet ==
  ASSUME NEW q \in Seq(AllEvents), NEW J, NEW n \in Nat, NEW o, WithBatch(o, n),
         Work(n, q, J) = 0, Count(q, Of("user", n)) = 0, Cardinality(JobsAt(J, n)) \in Nat
  PROVE  /\ o.events \in Seq(AllEvents) /\ \A i \in DOMAIN o.events : o.events[i].node = n
         /\ Awaits(o.user, n, InjectAll(q, o.events), J)
<1> DEFINE b == o.user.batchSize
           new == o.events
           r == InjectAll(q, new)
<1>1. /\ b \in Nat \ {0} /\ new \in Seq(AllEvents) /\ Len(new) = b
      /\ \A i \in DOMAIN new : new[i] \in Of("send", n) /\ o.user.state = "WAIT_JOB_FINISH"
  BY DEF WithBatch
<1>2. o.user.state = "WAIT_JOB_FINISH"
  BY DEF WithBatch
<1> HIDE DEF b, new
<1>3. \A i \in DOMAIN new : new[i] \in AllEvents /\ new[i].node = n
  BY <1>1 DEF Of
<1>4. /\ Count(new, Of("send", n)) = b
      /\ Count(new, Of("user", n)) = 0 /\ Count(new, Of("dispatch", n)) = 0
  BY <1>1, <1>3, TypesDiffer, CountAll, CountNone
<1>5. \A S : Count(r, S) = Count(q, S) + Count(new, S)
  BY <1>1, TimesAreNumbers, InjectedCount
<1> HIDE DEF r
<1>6. /\ Count(q, Of("send", n)) \in Nat /\ Count(q, Of("dispatch", n)) \in Nat
  BY WhereIsFinite
<1>7. Work(n, r, J) = b /\ Count(r, Of("user", n)) = 0
  <2>1. /\ Count(q, Of("send", n)) = 0 /\ Count(q, Of("dispatch", n)) = 0
        /\ Cardinality(JobsAt(J, n)) = 0
    BY <1>6 DEF Work
  <2>2. /\ Count(r, Of("send", n)) = 0 + b /\ Count(r, Of("dispatch", n)) = 0 + 0
        /\ Count(r, Of("user", n)) = 0 + 0
    BY <1>4, <1>5, <2>1
  <2> QED BY <1>1, <2>1, <2>2 DEF Work
<1>8. Awaits(o.user, n, r, J)
  BY <1>1, <1>2, <1>7 DEF Awaits, b
<1> QED BY <1>1, <1>3, <1>8 DEF r, new, b

\* The first event is taken out.
LEMMA AwaitsWithoutHead ==
  ASSUME NEW q \in Seq(AllEvents), q # <<>>, NEW J, NEW m, NEW u, Head(q).node # m,
         Awaits(u, m, q, J)
  PROVE  Awaits(u, m, Tail(q), J)
<1> DEFINE r == Tail(q)
<1>1. \A type : Count(r, Of(type, m)) = Count(q, Of(type, m))
  <2> TAKE type
  <2>1. Head(q) \notin Of(type, m)
    BY DEF Of
  <2>2. Count(r, Of(type, m)) = Count(q, Of(type, m)) - IF Head(q) \in Of(type, m) THEN 1 ELSE 0
    BY CountOfRest
  <2>3. Count(q, Of(type, m)) \in Nat
    BY WhereIsFinite
  <2> HIDE DEF r
  <2> QED BY <2>1, <2>2, <2>3
<1>2. \A k \in DOMAIN r : \E i \in DOMAIN q : r[k] = q[i]
  <2> TAKE k \in DOMAIN r
  <2>1. k + 1 \in DOMAIN q /\ r[k] = q[k + 1]
    OBVIOUS
  <2> QED BY <2>1
<1> HIDE DEF r
<1>3. Work(m, r, J) = Work(m, q, J)
  BY <1>1 DEF Work
<1>4. Awaits(u, m, r, J)
  BY <1>1, <1>2, <1>3, AwaitsStays
<1> QED BY <1>4 DEF r

LEMMA TailIsOK ==
  ASSUME EventsOK, events # <<>>
  PROVE  /\ Tail(events) \in Seq(AllEvents) /\ \A i \in DOMAIN Tail(events) :
              Tail(events)[i].node \in Nodes
         /\ Head(events) \in AllEvents /\ Head(events).node \in Nodes /\ Head(events).t \in Int
         /\ events \in Seq(AllEvents)
<1>1. events \in Seq(AllEvents) /\ \A i \in DOMAIN events : events[i].node \in Nodes
  BY DEF EventsOK
<1>2. Tail(events) \in Seq(AllEvents) /\ Head(events) \in AllEvents /\ Head(events) = events[1]
        /\ 1 \in DOMAIN events
  BY <1>1
<1>3. \A k \in DOMAIN Tail(events) : k + 1 \in DOMAIN events /\ Tail(events)[k] = events[k + 1]
  BY <1>1
<1> QED BY <1>1, <1>2, <1>3, EventFields

-----------------------------------------------------------------------------
(* Applications that are over.                                             *)

\* An application is over: its user has one job less.
LEMMA UserIsTold ==
  ASSUME IInv, case = "site", NEW j \in jobs, UserFinishedApp(j.node),
         jobs' = jobs \ {j}, UNCHANGED case
  PROVE  EventsOK' /\ UsersOK' /\ UsersAreAwaited' /\ finished' = finished
<1> DEFINE n == j.node
           J == jobs \ {j}
<1>1. /\ EventsOK /\ users \in [Nodes -> UserStates] /\ n \in Nodes /\ n \in Nat /\ now \in Int
      /\ IsFiniteSet(jobs)
  BY NodesAreNumbers DEF IInv, TypeInv, CaseOK, UsersOK, JobsOK
<1>2. PICK o \in JobFinished(users[n], n, now) :
        users' = [users EXCEPT ![n] = o.user] /\ events' = InjectAll(events, o.events)
  BY DEF UserFinishedApp
<1>3. \A m \in Nodes : Awaits(users[m], m, events, jobs)
  BY <1>1, AwaitedIs DEF IInv, WorkIsAccounted
<1>4. events \in Seq(AllEvents) /\ \A i \in DOMAIN events : events[i].node \in Nodes
  BY <1>1 DEF EventsOK
<1>5. /\ Cardinality(JobsAt(J, n)) = Cardinality(JobsAt(jobs, n)) - 1
      /\ \A m : m # n => JobsAt(J, m) = JobsAt(jobs, m)
      /\ Cardinality(JobsAt(jobs, n)) \in Nat /\ Cardinality(JobsAt(J, n)) \in Nat
  <2>1. Cardinality(JobsAt(J, n)) = Cardinality(JobsAt(jobs, n)) - IF j.node = n THEN 1 ELSE 0
    BY <1>1, JobsAtWithoutOne
  <2>2. IsFiniteSet(J)
    BY <1>1, FS_RemoveElement
  <2> QED BY <1>1, <2>1, <2>2, JobsAtFinite DEF JobsAt
<1> HIDE DEF J
<1>6. /\ Count(events, Of("send", n)) \in Nat /\ Count(events, Of("dispatch", n)) \in Nat
  BY <1>4, WhereIsFinite
<1>7. /\ Work(n, events, J) = Work(n, events, jobs) - 1 /\ Work(n, events, J) \in Nat
      /\ users[n].batchSize = Work(n, events, jobs) /\ Count(events, Of("user", n)) = 0
      /\ users[n].state = "WAIT_JOB_FINISH" /\ users[n].batchSize \in Nat
  BY <1>1, <1>3, <1>5, <1>6 DEF Work, Awaits
<1> HIDE DEF n
<1>8. ASSUME NEW m \in Nodes, m # n PROVE Awaits(users[m], m, events, J)
  BY <1>3, <1>5, <1>8 DEF Awaits, Work
<1>9. users[n] \in UserStates
  BY <1>1
<1>10. /\ o.events \in Seq(AllEvents) /\ \A i \in DOMAIN o.events : o.events[i].node = n
       /\ o.user \in UserStates /\ Awaits(o.user, n, InjectAll(events, o.events), J)
  <2> DEFINE left == [users[n] EXCEPT !.batchSize = @ - 1]
  <2>0. /\ o.user.batchSize = users[n].batchSize - 1
        /\ users[n].batchSize = 1 => WithTimer(o, left, n)
        /\ users[n].batchSize # 1 => /\ o.user \in UserStates /\ o.user.state = users[n].state
                                     /\ o.events \in Seq(AllEvents) /\ DOMAIN o.events = {}
    <3> DEFINE u == users[n]
    <3>1. u \in UserStates /\ n \in Nat /\ now \in Int /\ o \in JobFinished(u, n, now)
      BY <1>1, <1>2, <1>9
    <3> HIDE DEF u
    <3>2. /\ o.user.batchSize = u.batchSize - 1
          /\ u.batchSize = 1 => WithTimer(o, [u EXCEPT !.batchSize = @ - 1], n)
          /\ u.batchSize # 1 => /\ o.user \in UserStates /\ o.user.state = u.state
                               /\ o.events \in Seq(AllEvents) /\ DOMAIN o.events = {}
      BY <3>1, JobFinishedIs
    <3> QED BY <3>2 DEF u
  <2>1. left.batchSize = users[n].batchSize - 1
    BY <1>9 DEF UserStates
  <2>2. CASE users[n].batchSize = 1
    <3>1. WithTimer(o, left, n)
      BY <2>0, <2>2
    <3>2. left.batchSize = 0 /\ Work(n, events, J) = 0
      BY <1>7, <2>1, <2>2
    <3> HIDE DEF left
    <3>3. o.user \in UserStates
      BY <3>1 DEF WithTimer
    <3>4. /\ o.events \in Seq(AllEvents) /\ \A i \in DOMAIN o.events : o.events[i].node = n
          /\ Awaits(o.user, n, InjectAll(events, o.events), J)
      BY <1>1, <1>4, <1>7, <3>1, <3>2, TimerSet
    <3> QED BY <3>3, <3>4
  <2>3. CASE users[n].batchSize # 1
    <3>1. /\ o.user.batchSize = users[n].batchSize - 1 /\ o.user \in UserStates
          /\ o.user.state = users[n].state
          /\ o.events \in Seq(AllEvents) /\ DOMAIN o.events = {}
      BY <2>0, <2>3
    <3> DEFINE r == InjectAll(events, o.events)
    <3>2. o.events \in Seq(AllEvents) /\ \A i \in DOMAIN o.events : o.events[i].node = n
      BY <3>1
    <3>3. ASSUME NEW S PROVE Count(r, S) = Count(events, S)
      <4>1. Count(o.events, S) = 0
        BY <3>1, CountNone
      <4>2. Count(r, S) = Count(events, S) + Count(o.events, S)
        BY <1>4, <3>2, TimesAreNumbers, InjectedCount
      <4>3. Count(events, S) \in Nat
        BY <1>4, WhereIsFinite
      <4> HIDE DEF r
      <4> QED BY <4>1, <4>2, <4>3
    <3> HIDE DEF r
    <3>4. Work(n, r, J) = Work(n, events, J) /\ Count(r, Of("user", n)) = 0
      BY <1>7, <3>3 DEF Work
    <3>5. Awaits(o.user, n, r, J)
      BY <1>7, <2>3, <3>1, <3>4 DEF Awaits
    <3> QED BY <3>1, <3>2, <3>5 DEF r
  <2> QED BY <2>2, <2>3
<1>11. ASSUME NEW m \in Nodes, m # n PROVE Awaits(users[m], m, InjectAll(events, o.events), J)
  BY <1>4, <1>8, <1>10, <1>11, OthersStay
<1>12. n \in Nodes
  BY <1>1
<1>13. EventsOK' /\ users' \in [Nodes -> UserStates]
  <2> DEFINE new == o.events
             r == InjectAll(events, new)
  <2>0. new \in Seq(AllEvents) /\ \A i \in DOMAIN new : new[i].node \in Nodes
    BY <1>10, <1>12
  <2> HIDE DEF new
  <2>1. r \in Seq(AllEvents) /\ \A i \in DOMAIN r : r[i].node \in Nodes
    BY <1>4, <2>0, EventsStayOK
  <2>2. users' = [users EXCEPT ![n] = o.user] /\ events' = r
    BY <1>2 DEF new
  <2> HIDE DEF r
  <2>3. users' \in [Nodes -> UserStates]
    BY <1>1, <1>10, <1>12, <2>2
  <2>4. EventsOK'
    BY <2>1, <2>2 DEF EventsOK, Nodes
  <2> QED BY <2>3, <2>4
<1>14. \A m \in Nodes : Awaits(users'[m], m, events', jobs')
  BY <1>1, <1>2, <1>10, <1>11, <1>12 DEF J
<1>15. UsersAreAwaited'
  BY <1>13, <1>14, AwaitedNext DEF Nodes
<1> QED BY <1>13, <1>15 DEF UsersOK, Nodes, UserFinishedApp

LEMMA AppStatsIs ==
  ASSUME NEW s \in AllStats, NEW done
  PROVE  LET r == AppStats(s, done)
         IN  /\ r \in AllStats /\ r.existing = s.existing /\ r.running = s.running
             /\ s.unfinished <= s.apps => r.unfinished <= r.apps
             /\ case # "site" => r.apps = s.apps + 1
<1> DEFINE r == AppStats(s, done)
           x == s.apps + 1
           y == IF done = {} THEN s.unfinished + 1 ELSE s.unfinished
<1>1. /\ x \in Int /\ y \in Int /\ s.existing \in Int /\ s.running \in Int
      /\ s.unfinished <= s.apps => y <= x
  BY DEF AllStats
<1>2. CASE case = "site"
  BY <1>2 DEF AppStats
<1>3. CASE case # "site"
  <2>1. r = [s EXCEPT !.apps = x, !.unfinished = y]
    BY <1>3 DEF AppStats
  <2> HIDE DEF r, x, y
  <2>2. r = [existing |-> s.existing, running |-> s.running, apps |-> x, unfinished |-> y]
    BY <2>1 DEF AllStats
  <2>3. r.existing = s.existing /\ r.running = s.running /\ r.apps = x /\ r.unfinished = y
    BY <2>2
  <2>4. r \in AllStats
    BY <1>1, <2>2 DEF AllStats
  <2> QED BY <1>1, <2>3, <2>4 DEF r, x
<1> QED BY <1>2, <1>3

LEMMA AppIsOver ==
  ASSUME IInv, ~ended, NEW j \in jobs, NEW done, NEW s \in AllStats, FinishedApp(j, done, s),
         s.apps = stats.apps, s.unfinished = stats.unfinished,
         s.existing = stats.existing - Cardinality(In(j, InQueues)),
         s.running = stats.running - Cardinality(In(j, {"running"})),
         UNCHANGED <<case, now, nextApp, records, submitted, ended>>
  PROVE  IInv'
<1>1. /\ jobs' = jobs \ {j} /\ stats' = AppStats(s, done)
      /\ IF case = "site" THEN UserFinishedApp(j.node) ELSE CaseFinishedApp
  BY DEF FinishedApp
<1>2. JobsOK /\ IsFiniteSet(jobs) /\ stats \in AllStats /\ finished \in Nat /\ EventsOK /\ UsersOK
  BY DEF IInv, TypeInv, CaseOK, JobsOK
<1>3. /\ EventsOK' /\ UsersOK' /\ UsersAreAwaited'
      /\ finished' = IF case = "site" THEN finished ELSE finished + 1
  <2>1. CASE case = "site"
    BY <1>1, <2>1, UserIsTold
  <2>2. CASE case # "site"
    <3>1. UNCHANGED <<events, users>> /\ finished' = finished + 1
      BY <1>1, <2>2 DEF CaseFinishedApp
    <3> QED BY <1>2, <2>2, <3>1 DEF EventsOK, UsersOK, UsersAreAwaited, Nodes
  <2> QED BY <2>1, <2>2
<1>4. JobsOK'
  <2>1. IsFiniteSet(jobs')
    BY <1>1, <1>2, FS_RemoveElement
  <2> QED BY <1>1, <1>2, <2>1 DEF JobsOK, Nodes
<1>5. /\ stats' \in AllStats /\ stats'.existing = s.existing /\ stats'.running = s.running
      /\ s.unfinished <= s.apps => stats'.unfinished <= stats'.apps
      /\ case # "site" => stats'.apps = s.apps + 1
  BY <1>1, AppStatsIs
<1>6. CaseOK'
  <2>1. finished' \in Nat
    BY <1>2, <1>3
  <2> QED BY <1>5, <2>1 DEF IInv, TypeInv, CaseOK, Nodes
<1>7. QueueInv'
  <2>1. CASE case = "site"
    BY <2>1 DEF QueueInv
  <2>2. CASE case # "site"
    BY <1>1, <2>2 DEF IInv, QueueInv, CaseFinishedApp, Nodes
  <2> QED BY <2>1, <2>2
<1>8. DescriptionsMatch'
  BY <1>1 DEF IInv, WorkIsAccounted, DescriptionsMatch
<1>9. StatisticsMatch'
  <2>1. /\ stats.existing = Cardinality(TasksIn(jobs, InQueues))
        /\ stats.running >= Cardinality(TasksIn(jobs, {"running"}))
        /\ stats.unfinished <= stats.apps
        /\ case # "site" => stats.apps = finished + 0
    BY StatisticsIs DEF IInv, WorkIsAccounted
  <2>2. \A S : /\ Cardinality(TasksIn(jobs', S)) = Cardinality(TasksIn(jobs, S))
                    - Cardinality(In(j, S))
               /\ Cardinality(TasksIn(jobs, S)) \in Nat /\ Cardinality(In(j, S)) \in Nat
    BY <1>1, <1>2, TasksWithoutOne, TasksInFinite, InIsFinite
  <2>3. stats.running \in Int /\ stats.existing \in Int
    BY <1>2 DEF AllStats
  <2>4. /\ stats'.existing = Cardinality(TasksIn(jobs', InQueues))
        /\ stats'.running >= Cardinality(TasksIn(jobs', {"running"}))
    BY <1>5, <2>1, <2>2, <2>3
  <2>5. /\ stats'.unfinished <= stats'.apps
        /\ case # "site" => stats'.apps = finished' + 0
    BY <1>2, <1>3, <1>5, <2>1
  <2> QED BY <2>4, <2>5, StatisticsNext
<1> QED BY <1>3, <1>4, <1>6, <1>7, <1>8, <1>9 DEF IInv, TypeInv, WorkIsAccounted

LEMMA TaskFinishes ==
  ASSUME IInv, NEW j \in jobs, NEW i \in Tasks, TaskFinished(j, i)
  PROVE  IInv'
<1> DEFINE s == TaskFinishedStats(stats, "running", "done")
<1>1. stats \in AllStats /\ j \in AllJobs /\ j.tasks \in [Tasks -> TaskStates]
  BY DEF IInv, TypeInv, CaseOK, JobsOK, AllJobs
<1>2. /\ ~ended /\ j.tasks[i] = "running"
      /\ IF In(j, {"done"}) \cup {i} = Tasks
         THEN FinishedApp(j, Tasks, s)
         ELSE jobs' = With(j, i, "done") /\ stats' = s /\ UNCHANGED <<users, events, finished>>
      /\ UNCHANGED <<case, now, nextApp, records, submitted, ended>>
  BY DEF TaskFinished, Runs
<1>3. /\ s \in AllStats /\ s.apps = stats.apps /\ s.unfinished = stats.unfinished
      /\ s.existing = stats.existing - 1 /\ s.running = stats.running - 1
  BY <1>1, FinishedStats
<1> HIDE DEF s
<1>4. CASE In(j, {"done"}) \cup {i} = Tasks
  <2>1. In(j, InQueues) = {i} /\ In(j, {"running"}) = {i}
    BY <1>2, <1>4 DEF In, InQueues
  <2>2. Cardinality({i}) = 1
    BY FS_Singleton
  <2>3. s.existing = stats.existing - Cardinality(In(j, InQueues))
        /\ s.running = stats.running - Cardinality(In(j, {"running"}))
    BY <1>3, <2>1, <2>2
  <2> QED BY <1>2, <1>3, <1>4, <2>3, AppIsOver
<1>5. CASE In(j, {"done"}) \cup {i} # Tasks
  <2>1. /\ jobs' = With(j, i, "done") /\ stats' = s /\ "done" \in TaskStates
        /\ UNCHANGED <<case, now, events, nextApp, records, submitted, finished, users, ended>>
    BY <1>2, <1>5 DEF TaskStates
  <2>2. /\ j.tasks[i] \in InQueues /\ "done" \notin InQueues /\ j.tasks[i] \in {"running"}
        /\ "done" \notin {"running"}
    BY <1>2 DEF InQueues
  <2>3. /\ stats'.existing = stats.existing - 1 + 0 /\ stats'.running >= stats.running - 1 + 0
    BY <1>1, <1>3, <2>1 DEF AllStats
  <2> QED BY <1>2, <1>3, <2>1, <2>2, <2>3, TaskStep
<1> QED BY <1>4, <1>5

LEMMA AppIsGivenUp ==
  ASSUME IInv, NEW j \in jobs, GivenUp(j)
  PROVE  IInv'
<1>1. stats \in AllStats
  BY DEF IInv, TypeInv, CaseOK
<1>2. /\ ~ended /\ In(j, {"queued", "running"}) = {} /\ FinishedApp(j, In(j, {"done"}), stats)
      /\ UNCHANGED <<case, now, nextApp, records, submitted, ended>>
  BY DEF GivenUp, Runs
<1>3. In(j, InQueues) = {} /\ In(j, {"running"}) = {}
  BY <1>2 DEF In, InQueues
<1>4. /\ stats.existing = stats.existing - Cardinality(In(j, InQueues))
      /\ stats.running = stats.running - Cardinality(In(j, {"running"}))
  BY <1>1, <1>3, FS_EmptySet DEF AllStats
<1> QED BY <1>1, <1>2, <1>4, AppIsOver

-----------------------------------------------------------------------------
(* A node handles a command.                                               *)

\* There is a number for a new application.
LEMMA ANumberIsFree ==
  ASSUME IsFiniteSet(jobs)
  PROVE  \E i \in 1 .. Cardinality(jobs) + 1 : \A j \in jobs : j.id # i
<1> DEFINE ids == {j.id : j \in jobs}
           N == 1 .. Cardinality(jobs) + 1
           f == [j \in jobs |-> j.id]
<1>1. Cardinality(jobs) \in Nat
  BY FS_CardinalityType
<1>2. f \in Surjection(jobs, ids)
  BY DEF Surjection
<1>3. IsFiniteSet(ids) /\ Cardinality(ids) <= Cardinality(jobs)
  BY <1>2, FS_Surjection
<1>4. IsFiniteSet(N) /\ Cardinality(N) = Cardinality(jobs) + 1
  BY <1>1, NumbersUpTo
<1>5. Cardinality(ids) \in Nat
  BY <1>3, FS_CardinalityType
<1> HIDE DEF ids, N
<1>6. ~(N \subseteq ids)
  <2> SUFFICES ASSUME N \subseteq ids PROVE FALSE
    OBVIOUS
  <2>1. Cardinality(N) <= Cardinality(ids)
    BY <1>3, FS_Subset
  <2> QED BY <1>1, <1>3, <1>4, <1>5, <2>1
<1>7. PICK i \in N : i \notin ids
  BY <1>6
<1> QED BY <1>7 DEF ids, N

LEMMA InstanceIsNew ==
  ASSUME JobsOK, now' \in Int, case \in Cases, NEW e, e.node \in Nodes, e.cmd \in Nat,
           NEW d \in [Nodes -> Nat]
  PROVE  LET x == Instance(e, d)
         IN  /\ x \in AllJobs /\ x.node = e.node /\ x.cmd = e.cmd /\ x.desc = d[e.node]
             /\ x \notin jobs /\ \A j \in jobs : j.id # x.id
             /\ In(x, InQueues) = {} /\ In(x, {"running"}) = {}
<1> DEFINE x == Instance(e, d)
           free == CHOOSE i \in 1 .. Cardinality(jobs) + 1 : \A j \in jobs : j.id # i
<1>1. free \in 1 .. Cardinality(jobs) + 1 /\ \A j \in jobs : j.id # free
  BY ANumberIsFree DEF JobsOK
<1>2. free \in Nat /\ Nodes \subseteq Nat
  BY <1>1, NodesAreNumbers, FS_CardinalityType DEF JobsOK
<1>3. x = [id |-> free, node |-> e.node, cmd |-> e.cmd, desc |-> d[e.node], born |-> now',
           tasks |-> [i \in Tasks |-> "sought"]]
  BY DEF Instance
<1> HIDE DEF x, free
<1>4. d[e.node] \in Nat
  OBVIOUS
<1>5. /\ x.node = e.node /\ x.cmd = e.cmd /\ x.desc = d[e.node] /\ x.id = free
      /\ x.tasks = [i \in Tasks |-> "sought"]
  BY <1>3
<1>6. x \in AllJobs
  BY <1>2, <1>3, <1>4 DEF AllJobs, TaskStates
<1>7. In(x, InQueues) = {} /\ In(x, {"running"}) = {}
  BY <1>5 DEF In, InQueues
<1> QED BY <1>1, <1>5, <1>6, <1>7 DEF x

\* A node handles a command.
LEMMA NodeHandles ==
  ASSUME IInv, ~ended, now' \in Int, NEW e, e.node \in Nodes, e.cmd \in Nat,
           NEW d \in [Nodes -> Nat],
         jobs' = jobs \cup {Instance(e, d)}, UNCHANGED <<case, stats, finished, ended>>,
         \/ case = "site"
         \/ case = "repeat" /\ d[e.node] = e.cmd
         \/ case \in {"uniform", "poisson"} /\ d[e.node] \in {e.cmd, e.cmd + 1}
         \/ case = "many" /\ d[e.node] = IF e.node = NumNodes[case] - 1 THEN e.cmd ELSE 0
  PROVE  /\ JobsOK' /\ StatisticsMatch' /\ DescriptionsMatch'
         /\ \A n : Cardinality(JobsAt(jobs', n)) = Cardinality(JobsAt(jobs, n)) + IF e.node = n
              THEN 1 ELSE 0
<1> DEFINE x == Instance(e, d)
<1>1. JobsOK /\ case \in Cases /\ stats \in AllStats /\ finished \in Nat
  BY DEF IInv, TypeInv, CaseOK
<1>2. /\ x \in AllJobs /\ x.node = e.node /\ x.cmd = e.cmd /\ x.desc = d[e.node]
      /\ x \notin jobs /\ \A j \in jobs : j.id # x.id
      /\ In(x, InQueues) = {} /\ In(x, {"running"}) = {}
  BY <1>1, InstanceIsNew
<1>3. jobs' = jobs \cup {x}
  OBVIOUS
<1> HIDE DEF x
<1>4. IsFiniteSet(jobs) /\ IsFiniteSet(jobs')
  BY <1>1, <1>3, FS_AddElement DEF JobsOK
<1>5. JobsOK'
  BY <1>1, <1>2, <1>3, <1>4 DEF JobsOK, Nodes
<1>6. DescriptionsMatch'
  BY <1>2, <1>3 DEF IInv, WorkIsAccounted, DescriptionsMatch
<1>7. StatisticsMatch'
  <2>1. /\ stats.existing = Cardinality(TasksIn(jobs, InQueues))
        /\ stats.running >= Cardinality(TasksIn(jobs, {"running"}))
        /\ stats.unfinished <= stats.apps
        /\ case # "site" => stats.apps = finished + 0
    BY StatisticsIs DEF IInv, WorkIsAccounted
  <2>2. /\ Cardinality(TasksIn(jobs', InQueues)) = Cardinality(TasksIn(jobs, InQueues)) + 0
        /\ Cardinality(TasksIn(jobs', {"running"})) = Cardinality(TasksIn(jobs, {"running"})) + 0
    <3>1. \A S : Cardinality(TasksIn(jobs', S)) = Cardinality(TasksIn(jobs, S))
            + Cardinality(In(x, S))
      BY <1>2, <1>3, <1>4, TasksWithOne
    <3>2. Cardinality(In(x, InQueues)) = 0 /\ Cardinality(In(x, {"running"})) = 0
      BY <1>2, FS_EmptySet
    <3> QED BY <3>1, <3>2
  <2>3. /\ Cardinality(TasksIn(jobs, InQueues)) \in Nat
        /\ Cardinality(TasksIn(jobs, {"running"})) \in Nat
    BY <1>4, TasksInFinite
  <2> QED BY <2>1, <2>2, <2>3, StatisticsNext
<1>8. \A n : Cardinality(JobsAt(jobs', n)) = Cardinality(JobsAt(jobs, n)) + IF e.node = n THEN 1
        ELSE 0
  BY <1>2, <1>3, <1>4, JobsAtWithOne
<1> QED BY <1>5, <1>6, <1>7, <1>8

\* What comes first in the queue.
LEMMA FirstEvent ==
  ASSUME IInv, NEW type, Arrives(type)
  PROVE  /\ ~ended /\ events # <<>> /\ now' \in Int /\ Head(events).type = type
         /\ Tail(events) \in Seq(AllEvents) /\ \A i \in DOMAIN Tail(events) :
              Tail(events)[i].node \in Nodes
         /\ Head(events) \in AllEvents /\ Head(events).node \in Nodes /\ events \in Seq(AllEvents)
         /\ type = "dispatch" => Head(events).cmd \in Nat
         /\ case # "site" => /\ Len(events) = 1 /\ type = "dispatch" /\ Head(events).cmd = submitted
                             /\ case # "many" => nextApp[Head(events).node] = submitted
<1>1. ~ended /\ events # <<>> /\ Head(events).type = type /\ now' = Head(events).t
  BY DEF Arrives, Runs
<1>2. EventsOK
  BY DEF IInv, TypeInv
<1>3. /\ Tail(events) \in Seq(AllEvents) /\ \A i \in DOMAIN Tail(events) :
           Tail(events)[i].node \in Nodes
      /\ Head(events) \in AllEvents /\ Head(events).node \in Nodes /\ Head(events).t \in Int
      /\ events \in Seq(AllEvents)
  BY <1>1, <1>2, TailIsOK
<1>4. type = "dispatch" => Head(events).cmd \in Nat
  BY <1>1, <1>3 DEF AllEvents
<1>5. case # "site" => /\ Len(events) = 1 /\ type = "dispatch" /\ Head(events).cmd = submitted
                       /\ case # "many" => nextApp[Head(events).node] = submitted
  BY <1>1 DEF IInv, QueueInv
<1> QED BY <1>1, <1>3, <1>4, <1>5

\* The only event of a queue is replaced.
LEMMA NextCommand ==
  ASSUME NEW q \in Seq(AllEvents), \A i : i \notin DOMAIN q, NEW e \in AllEvents, NEW N,
           e.node \in N
  PROVE  /\ InjectMessage(q, e) \in Seq(AllEvents)
         /\ \A i \in DOMAIN InjectMessage(q, e) : InjectMessage(q, e)[i].node \in N
         /\ InjectMessage(q, e) # <<>> /\ Len(InjectMessage(q, e)) = 1
         /\ Head(InjectMessage(q, e)) = e
<1> DEFINE new == <<e>>
           r == InjectAll(q, new)
<1>1. /\ new \in Seq(AllEvents) /\ Len(new) = 1 /\ DOMAIN new = {1} /\ new[1] = e
  OBVIOUS
<1>0. Len(q) = 0
  <2>1. Len(q) \in Nat /\ DOMAIN q = 1 .. Len(q) /\ 1 \notin DOMAIN q
    OBVIOUS
  <2> QED BY <2>1
<1> HIDE DEF new
<1>2. r \in Seq(AllEvents) /\ Len(r) = 0 + 1 /\ \A i \in DOMAIN r : r[i].node \in N
  <2>1. r \in Seq(AllEvents) /\ Len(r) = Len(q) + Len(new)
    BY <1>1, TimesAreNumbers, Injected
  <2>2. \A i \in DOMAIN q : q[i].node \in N
    OBVIOUS
  <2>3. \A i \in DOMAIN new : new[i].node \in N
    BY <1>1
  <2>4. \A i \in DOMAIN r : r[i].node \in N
    BY <1>1, <2>2, <2>3, EventsStayOK
  <2> HIDE DEF r
  <2> QED BY <1>0, <1>1, <2>1, <2>4
<1>3. \A k \in DOMAIN r : r[k] = e
  <2> SUFFICES ASSUME NEW k \in DOMAIN r PROVE r[k] = e
    OBVIOUS
  <2>1. (\E i \in DOMAIN q : r[k] = q[i]) \/ (\E i \in DOMAIN new : r[k] = new[i])
    BY <1>1, TimesAreNumbers, InjectedElements
  <2> HIDE DEF r
  <2> QED BY <1>1, <2>1
<1> HIDE DEF r
<1>4. r # <<>> /\ Len(r) = 1 /\ Head(r) = e
  <2>1. 1 \in DOMAIN r /\ Head(r) = r[1]
    BY <1>2
  <2>2. r # <<>>
    <3>1. Len(r) = 1
      BY <1>2
    <3>2. Len(<<>>) = 0
      OBVIOUS
    <3> QED BY <3>1, <3>2
  <2> QED BY <1>2, <1>3, <2>1, <2>2
<1> QED BY <1>2, <1>4 DEF r, new, InjectMessage

-----------------------------------------------------------------------------
(* The cases without users.                                                *)

\* Steps with another queue, without users.
LEMMA WithoutUsers ==
  ASSUME EventsOK', JobsOK', CaseOK', QueueInv', DescriptionsMatch', StatisticsMatch',
         case # "site", UNCHANGED case
  PROVE  IInv'
BY DEF IInv, TypeInv, UsersOK, WorkIsAccounted, UsersAreAwaited

LEMMA RestOfOne ==
  ASSUME NEW T, NEW q \in Seq(T), q # <<>>, Len(q) = 1
  PROVE  Tail(q) = <<>> /\ \A i : i \notin DOMAIN Tail(q)
<1> DEFINE r == Tail(q)
<1>1. Len(r) = 0 /\ r \in Seq(T)
  <2>1. r \in Seq(T) /\ Len(r) = Len(q) - 1
    OBVIOUS
  <2> QED BY <2>1
<1> HIDE DEF r
<1>2. r = <<>>
  BY <1>1
<1>3. DOMAIN r = 1 .. 0
  BY <1>1
<1>4. 1 .. 0 = {}
  OBVIOUS
<1>5. \A i : i \notin DOMAIN r
  BY <1>3, <1>4
<1> QED BY <1>2, <1>5 DEF r

LEMMA ProcessDispatches ==
  ASSUME IInv, HandleDispatchOfProcess
  PROVE  IInv'
<1> DEFINE e == Head(events)
<1>1. /\ case \in {"uniform", "poisson"} /\ Arrives("dispatch")
      /\ jobs' = jobs \cup {Instance(e, nextApp')}
      /\ UNCHANGED <<case, records, finished, users, stats, ended>>
  BY DEF HandleDispatchOfProcess
<1>2. /\ ~ended /\ now' \in Int /\ e.node \in Nodes /\ e.cmd \in Nat /\ events # <<>>
      /\ Tail(events) \in Seq(AllEvents) /\ events \in Seq(AllEvents)
      /\ Len(events) = 1 /\ e.cmd = submitted /\ nextApp[e.node] = submitted
  BY <1>1, FirstEvent
<1> HIDE DEF e
<1>3. CaseOK
  BY DEF IInv, TypeInv
<1>4. CASE submitted < NumSearches[case]
  <2>1. PICK client \in Nodes, gap \in Gaps :
          /\ submitted' = submitted + 1
          /\ nextApp' = [nextApp EXCEPT ![client] = submitted + 1]
          /\ events' = InjectMessage(Tail(events), Dispatch(client, submitted + 1, now' + gap))
    BY <1>4 DEF HandleDispatchOfProcess, Generate
  <2> DEFINE f == Dispatch(client, submitted + 1, now' + gap)
  <2>2. f \in AllEvents /\ f.node = client /\ f.type = "dispatch" /\ f.cmd = submitted + 1
    <3>1. client \in Nat /\ submitted + 1 \in Nat /\ now' + gap \in Int
      BY <1>2, <1>3, NodesAreNumbers, WorkloadAssumption DEF CaseOK
    <3> QED BY <3>1, NewEvents DEF Dispatch
  <2> HIDE DEF f
  <2>3. /\ events' \in Seq(AllEvents) /\ \A i \in DOMAIN events' : events'[i].node \in Nodes
        /\ events' # <<>> /\ Len(events') = 1 /\ Head(events') = f
    <3>1. \A i : i \notin DOMAIN Tail(events)
      BY <1>2, RestOfOne
    <3>2. events' = InjectMessage(Tail(events), f)
      BY <2>1 DEF f
    <3> QED BY <1>2, <2>2, <3>1, <3>2, NextCommand
  <2>4. EventsOK'
    BY <1>1, <2>3 DEF EventsOK, Nodes
  <2>5. /\ nextApp' \in [Nodes -> Nat] /\ nextApp'[client] = submitted' /\ submitted' \in Nat
        /\ nextApp'[e.node] \in {e.cmd, e.cmd + 1}
    BY <1>2, <1>3, <2>1 DEF CaseOK
  <2>6. CaseOK'
    BY <1>1, <1>2, <1>3, <2>5 DEF CaseOK, Nodes
  <2>7. QueueInv'
    BY <1>1, <2>1, <2>2, <2>3, <2>5 DEF QueueInv
  <2>8. JobsOK' /\ StatisticsMatch' /\ DescriptionsMatch'
    BY <1>1, <1>2, <2>5, NodeHandles
  <2> QED BY <1>1, <2>4, <2>6, <2>7, <2>8, WithoutUsers
<1>5. CASE ~(submitted < NumSearches[case])
  <2>1. events' = Tail(events) /\ UNCHANGED <<nextApp, submitted>>
    BY <1>5 DEF HandleDispatchOfProcess
  <2>2. events' = <<>>
    BY <1>2, <2>1, RestOfOne
  <2>3. EventsOK' /\ QueueInv' /\ CaseOK'
    BY <1>1, <1>2, <1>3, <2>1, <2>2 DEF EventsOK, QueueInv, CaseOK, Nodes
  <2>4. nextApp' \in [Nodes -> Nat] /\ nextApp'[e.node] \in {e.cmd, e.cmd + 1}
    BY <1>2, <1>3, <2>1 DEF CaseOK
  <2>5. JobsOK' /\ StatisticsMatch' /\ DescriptionsMatch'
    BY <1>1, <1>2, <2>4, NodeHandles
  <2> QED BY <1>1, <2>3, <2>5, WithoutUsers
<1> QED BY <1>4, <1>5

LEMMA RepeatDispatches ==
  ASSUME IInv, HandleDispatchOfRepeat
  PROVE  IInv'
<1> DEFINE e == Head(events)
<1>1. /\ case = "repeat" /\ Arrives("dispatch")
      /\ jobs' = jobs \cup {Instance(e, nextApp)}
      /\ UNCHANGED <<case, finished, users, stats, ended>>
  BY DEF HandleDispatchOfRepeat, RepeatFinds
<1>2. /\ ~ended /\ now' \in Int /\ e.node \in Nodes /\ e.cmd \in Nat /\ events # <<>>
      /\ Tail(events) \in Seq(AllEvents) /\ events \in Seq(AllEvents)
      /\ Len(events) = 1 /\ e.cmd = submitted /\ nextApp[e.node] = submitted
  BY <1>1, FirstEvent
<1> HIDE DEF e
<1>3. CaseOK /\ nextApp \in [Nodes -> Nat]
  BY DEF IInv, TypeInv, CaseOK
<1>4. JobsOK' /\ StatisticsMatch' /\ DescriptionsMatch'
  BY <1>1, <1>2, <1>3, NodeHandles
<1>5. CASE records # <<>>
  <2> DEFINE r == Head(records)
             f == Dispatch(r.client, submitted + 1, r.release)
  <2>1. /\ records' = Tail(records) /\ submitted' = submitted + 1
        /\ nextApp' = [nextApp EXCEPT ![r.client] = submitted + 1]
        /\ events' = InjectMessage(Tail(events), f)
    BY <1>5 DEF HandleDispatchOfRepeat
  <2>2. /\ r \in AllRecords /\ r.client \in Nodes /\ Tail(records) \in Seq(AllRecords)
        /\ \A i \in DOMAIN Tail(records) : Tail(records)[i].client \in Nodes
    <3>1. records \in Seq(AllRecords) /\ \A i \in DOMAIN records : records[i].client \in Nodes
      BY <1>3 DEF CaseOK
    <3>2. Tail(records) \in Seq(AllRecords) /\ r \in AllRecords /\ r = records[1]
            /\ 1 \in DOMAIN records
      BY <1>5, <3>1
    <3>3. \A k \in DOMAIN Tail(records) : k + 1 \in DOMAIN records /\ Tail(records)[k]
            = records[k + 1]
      BY <1>5, <3>1
    <3> QED BY <3>1, <3>2, <3>3
  <2> HIDE DEF r
  <2>3. f \in AllEvents /\ f.node = r.client /\ f.type = "dispatch" /\ f.cmd = submitted + 1
    <3>1. r.client \in Nat /\ submitted + 1 \in Nat /\ r.release \in Int
      BY <1>3, <2>2 DEF CaseOK, AllRecords
    <3> QED BY <3>1, NewEvents DEF Dispatch
  <2> HIDE DEF f
  <2>4. /\ events' \in Seq(AllEvents) /\ \A i \in DOMAIN events' : events'[i].node \in Nodes
        /\ events' # <<>> /\ Len(events') = 1 /\ Head(events') = f
    <3>1. \A i : i \notin DOMAIN Tail(events)
      BY <1>2, RestOfOne
    <3> QED BY <1>2, <2>1, <2>2, <2>3, <3>1, NextCommand
  <2>5. EventsOK'
    BY <1>1, <2>4 DEF EventsOK, Nodes
  <2>6. nextApp' \in [Nodes -> Nat] /\ nextApp'[r.client] = submitted' /\ submitted' \in Nat
    BY <1>3, <2>1, <2>2 DEF CaseOK
  <2>7. CaseOK'
    BY <1>1, <1>2, <1>3, <2>1, <2>2, <2>6 DEF CaseOK, Nodes
  <2>8. QueueInv'
    BY <1>1, <2>1, <2>3, <2>4, <2>6 DEF QueueInv
  <2> QED BY <1>1, <1>4, <2>5, <2>7, <2>8, WithoutUsers
<1>6. CASE records = <<>>
  <2>1. events' = Tail(events) /\ UNCHANGED <<records, nextApp, submitted>>
    BY <1>6 DEF HandleDispatchOfRepeat
  <2>2. events' = <<>>
    BY <1>2, <2>1, RestOfOne
  <2>3. EventsOK' /\ QueueInv'
    BY <1>1, <1>2, <2>1, <2>2 DEF EventsOK, QueueInv, Nodes
  <2>4. CaseOK'
    BY <1>1, <1>2, <1>3, <2>1 DEF CaseOK, Nodes
  <2> QED BY <1>1, <1>4, <2>3, <2>4, WithoutUsers
<1> QED BY <1>5, <1>6

LEMMA ManyDispatches ==
  ASSUME IInv, HandleDispatchOfMany
  PROVE  IInv'
<1> DEFINE e == Head(events)
<1>1. /\ case = "many" /\ Arrives("dispatch") /\ events' = Tail(events)
      /\ jobs' = jobs \cup {Instance(e, nextApp)}
      /\ UNCHANGED <<case, nextApp, records, submitted, finished, users, stats, ended>>
  BY DEF HandleDispatchOfMany
<1>2. /\ ~ended /\ now' \in Int /\ e.node \in Nodes /\ e.cmd \in Nat /\ events # <<>>
      /\ events \in Seq(AllEvents) /\ Len(events) = 1 /\ e.cmd = submitted
      /\ Tail(events) \in Seq(AllEvents)
  BY <1>1, FirstEvent
<1> HIDE DEF e
<1>3. /\ CaseOK /\ nextApp \in [Nodes -> Nat] /\ submitted = 1
      /\ nextApp = [n \in Nodes |-> IF n = NumNodes[case] - 1 THEN 1 ELSE 0]
  BY <1>1 DEF IInv, TypeInv, CaseOK, QueueInv
<1>4. nextApp[e.node] = IF e.node = NumNodes[case] - 1 THEN e.cmd ELSE 0
  BY <1>2, <1>3
<1>5. JobsOK' /\ StatisticsMatch' /\ DescriptionsMatch'
  BY <1>1, <1>2, <1>3, <1>4, NodeHandles
<1>6. events' = <<>>
  BY <1>1, <1>2, RestOfOne
<1>7. EventsOK' /\ QueueInv'
  <2>1. QueueInv'
    BY <1>1, <1>3, <1>6 DEF QueueInv, Nodes
  <2>2. EventsOK'
    BY <1>1, <1>2, <1>6 DEF EventsOK, Nodes
  <2> QED BY <2>1, <2>2
<1>8. CaseOK'
  BY <1>1, <1>2, <1>3 DEF CaseOK, Nodes
<1> QED BY <1>1, <1>5, <1>7, <1>8, WithoutUsers

-----------------------------------------------------------------------------
(* The users go on, and every step.                                        *)

\* Steps with users.
LEMMA WithUsers ==
  ASSUME EventsOK', JobsOK', CaseOK', StatisticsMatch', case = "site", UNCHANGED case,
         users' \in [Nodes -> UserStates], \A n \in Nodes : Awaits(users'[n], n, events', jobs')
  PROVE  IInv'
<1>1. UsersAreAwaited'
  BY AwaitedNext DEF Nodes
<1>2. UsersOK' /\ QueueInv' /\ DescriptionsMatch'
  BY DEF UsersOK, QueueInv, DescriptionsMatch, Nodes
<1> QED BY <1>1, <1>2 DEF IInv, TypeInv, WorkIsAccounted

LEMMA UsersBefore ==
  ASSUME IInv, case = "site"
  PROVE  /\ EventsOK /\ CaseOK /\ JobsOK /\ StatisticsMatch /\ users \in [Nodes -> UserStates]
         /\ \A n \in Nodes : Awaits(users[n], n, events, jobs)
BY AwaitedIs DEF IInv, TypeInv, WorkIsAccounted, UsersOK

LEMMA SiteDispatches ==
  ASSUME IInv, HandleDispatchOfSite
  PROVE  IInv'
<1> DEFINE e == Head(events)
           n == e.node
           q == Tail(events)
<1>1. /\ case = "site" /\ Arrives("dispatch") /\ events' = q
      /\ jobs' = jobs \cup {Instance(e, nextApp)}
      /\ UNCHANGED <<case, nextApp, records, submitted, finished, users, stats, ended>>
  BY DEF HandleDispatchOfSite
<1>2. /\ ~ended /\ now' \in Int /\ e.node \in Nodes /\ e.cmd \in Nat /\ e \in AllEvents
      /\ q \in Seq(AllEvents) /\ events \in Seq(AllEvents) /\ events # <<>>
      /\ e.type = "dispatch" /\ \A i \in DOMAIN q : q[i].node \in Nodes
  BY <1>1, FirstEvent
<1>3. /\ CaseOK /\ JobsOK /\ users \in [Nodes -> UserStates] /\ nextApp \in [Nodes -> Nat]
      /\ \A m \in Nodes : Awaits(users[m], m, events, jobs)
  BY <1>1, UsersBefore DEF CaseOK
<1>4. ASSUME NEW m \in Nodes, m # n PROVE Awaits(users[m], m, q, jobs)
  BY <1>2, <1>3, <1>4, AwaitsWithoutHead
<1>5. \A S : Count(q, S) = Count(events, S) - IF e \in S THEN 1 ELSE 0
  BY <1>2, CountOfRest
<1>6. \A k \in DOMAIN q : \E i \in DOMAIN events : q[k] = events[i]
  <2> TAKE k \in DOMAIN q
  <2>1. k + 1 \in DOMAIN events /\ q[k] = events[k + 1]
    BY <1>2
  <2> QED BY <2>1
<1> HIDE DEF e, n, q
<1>7. /\ JobsOK' /\ StatisticsMatch'
      /\ \A m : Cardinality(JobsAt(jobs', m)) = Cardinality(JobsAt(jobs, m)) + IF n = m THEN 1
           ELSE 0
  BY <1>1, <1>2, <1>3, NodeHandles DEF n
<1>8. \A m : Cardinality(JobsAt(jobs, m)) \in Nat
  BY <1>3, JobsAtFinite DEF JobsOK
<1>9. Awaits(users[n], n, q, jobs')
  <2>1. e \in Of("dispatch", n) /\ e \notin Of("user", n) /\ e \notin Of("send", n)
    BY <1>2, TypesDiffer DEF Of, n
  <2>2. \A S : Count(events, S) \in Nat
    BY <1>2, WhereIsFinite
  <2>3. /\ Work(n, q, jobs') = Work(n, events, jobs)
        /\ Count(q, Of("user", n)) = Count(events, Of("user", n))
    BY <1>5, <1>7, <1>8, <2>1, <2>2 DEF Work
  <2>4. Awaits(users[n], n, events, jobs)
    BY <1>2, <1>3 DEF n
  <2> QED BY <1>6, <2>3, <2>4, AwaitsStays
<1>10. ASSUME NEW m \in Nodes, m # n PROVE Awaits(users[m], m, q, jobs')
  <2>1. Cardinality(JobsAt(jobs', m)) = Cardinality(JobsAt(jobs, m))
    BY <1>7, <1>8, <1>10
  <2> QED BY <1>4, <1>10, <2>1 DEF Awaits, Work
<1>11. EventsOK' /\ CaseOK'
  BY <1>1, <1>2, <1>3 DEF EventsOK, CaseOK, Nodes
<1> QED BY <1>1, <1>3, <1>7, <1>9, <1>10, <1>11, WithUsers

LEMMA UserWakes ==
  ASSUME IInv, HandleUserEvent
  PROVE  IInv'
<1> DEFINE e == Head(events)
           n == e.node
           q == Tail(events)
           u == users[n]
<1>1. /\ Arrives("user") /\ \E o \in Wakes(u, n, now') :
                              /\ users' = [users EXCEPT ![n] = o.user]
                              /\ events' = InjectAll(q, o.events)
      /\ UNCHANGED <<case, nextApp, records, submitted, finished, jobs, stats, ended>>
  BY DEF HandleUserEvent
<1>2. /\ ~ended /\ now' \in Int /\ n \in Nodes /\ e \in AllEvents
      /\ q \in Seq(AllEvents) /\ events \in Seq(AllEvents) /\ events # <<>>
      /\ e.type = "user" /\ case = "site" /\ \A i \in DOMAIN q : q[i].node \in Nodes
  BY <1>1, FirstEvent
<1>3. /\ CaseOK /\ JobsOK /\ StatisticsMatch /\ users \in [Nodes -> UserStates] /\ EventsOK
      /\ \A m \in Nodes : Awaits(users[m], m, events, jobs)
  BY <1>2, UsersBefore
<1>4. ASSUME NEW m \in Nodes, m # n PROVE Awaits(users[m], m, q, jobs)
  BY <1>2, <1>3, <1>4, AwaitsWithoutHead
<1>5. \A S : Count(q, S) = Count(events, S) - IF e \in S THEN 1 ELSE 0
  BY <1>2, CountOfRest
<1>6. n \in Nat /\ u \in UserStates
  BY <1>2, <1>3, NodesAreNumbers DEF CaseOK
<1>7. PICK o \in Wakes(u, n, now') :
        users' = [users EXCEPT ![n] = o.user] /\ events' = InjectAll(q, o.events)
  BY <1>1
<1> HIDE DEF e, n, q, u
<1>8. Cardinality(JobsAt(jobs, n)) \in Nat
  BY <1>3, JobsAtFinite DEF JobsOK
<1>9. Work(n, q, jobs) = 0 /\ Count(q, Of("user", n)) = 0 /\ u.batchSize = 0
  <2>1. e \in Of("user", n) /\ e \notin Of("dispatch", n) /\ e \notin Of("send", n)
    BY <1>2, TypesDiffer DEF Of, n
  <2>2. \A S : Count(events, S) \in Nat /\ Count(q, S) \in Nat
    BY <1>2, WhereIsFinite
  <2>3. Awaits(u, n, events, jobs)
    BY <1>2, <1>3 DEF u
  <2>4. /\ Work(n, q, jobs) = Work(n, events, jobs)
        /\ Count(q, Of("user", n)) = Count(events, Of("user", n)) - 1
    BY <1>5, <2>1, <2>2 DEF Work
  <2>5. Count(events, Of("user", n)) # 0
    BY <2>2, <2>4
  <2> QED BY <2>2, <2>3, <2>4, <2>5 DEF Awaits
<1>10. /\ o.events \in Seq(AllEvents) /\ \A i \in DOMAIN o.events : o.events[i].node = n
       /\ Awaits(o.user, n, InjectAll(q, o.events), jobs)
       /\ o.user \in UserStates
  <2>1. WithTimer(o, u, n) \/ WithBatch(o, n)
    BY <1>2, <1>6, <1>7, WakesIs
  <2>2. CASE WithTimer(o, u, n)
    <3>1. o.user \in UserStates
      BY <2>2 DEF WithTimer
    <3>2. /\ o.events \in Seq(AllEvents) /\ \A i \in DOMAIN o.events : o.events[i].node = n
          /\ Awaits(o.user, n, InjectAll(q, o.events), jobs)
      BY <1>2, <1>6, <1>9, <2>2, TimerSet
    <3> QED BY <3>1, <3>2
  <2>3. CASE WithBatch(o, n)
    <3>1. o.user \in UserStates
      BY <2>3 DEF WithBatch
    <3>2. /\ o.events \in Seq(AllEvents) /\ \A i \in DOMAIN o.events : o.events[i].node = n
          /\ Awaits(o.user, n, InjectAll(q, o.events), jobs)
      BY <1>2, <1>6, <1>8, <1>9, <2>3, BatchSet
    <3> QED BY <3>1, <3>2
  <2> QED BY <2>1, <2>2, <2>3
<1>11. ASSUME NEW m \in Nodes, m # n PROVE Awaits(users[m], m, InjectAll(q, o.events), jobs)
  BY <1>2, <1>4, <1>10, <1>11, OthersStay
<1>12. EventsOK'
  <2>1. /\ InjectAll(q, o.events) \in Seq(AllEvents)
        /\ \A i \in DOMAIN InjectAll(q, o.events) : InjectAll(q, o.events)[i].node \in Nodes
    BY <1>2, <1>10, EventsStayOK
  <2> QED BY <1>1, <1>7, <2>1 DEF EventsOK, Nodes
<1>13. users' \in [Nodes -> UserStates] /\ \A m \in Nodes : Awaits(users'[m], m, events', jobs')
  BY <1>1, <1>2, <1>3, <1>7, <1>10, <1>11
<1>14. CaseOK' /\ JobsOK' /\ StatisticsMatch'
  <2>1. StatisticsMatch'
    BY <1>1, <1>3, StatisticsIs, StatisticsNext
  <2> QED BY <1>1, <1>2, <1>3, <2>1 DEF CaseOK, JobsOK, Nodes
<1> QED BY <1>1, <1>2, <1>12, <1>13, <1>14, WithUsers

LEMMA JobIsSent ==
  ASSUME IInv, HandleSendJob
  PROVE  IInv'
<1> DEFINE e == Head(events)
           n == e.node
           q == Tail(events)
           f == Dispatch(n, 0, now')
           new == <<f>>
           r == InjectAll(q, new)
<1>1. /\ Arrives("send") /\ events' = r
      /\ UNCHANGED <<case, nextApp, records, submitted, finished, users, jobs, stats, ended>>
  BY DEF HandleSendJob, InjectMessage
<1>2. /\ ~ended /\ now' \in Int /\ n \in Nodes /\ e \in AllEvents
      /\ q \in Seq(AllEvents) /\ events \in Seq(AllEvents) /\ events # <<>>
      /\ e.type = "send" /\ case = "site" /\ \A i \in DOMAIN q : q[i].node \in Nodes
  BY <1>1, FirstEvent
<1>3. /\ CaseOK /\ JobsOK /\ StatisticsMatch /\ users \in [Nodes -> UserStates] /\ EventsOK
      /\ \A m \in Nodes : Awaits(users[m], m, events, jobs)
  BY <1>2, UsersBefore
<1>4. ASSUME NEW m \in Nodes, m # n PROVE Awaits(users[m], m, q, jobs)
  BY <1>2, <1>3, <1>4, AwaitsWithoutHead
<1>5. \A S : Count(q, S) = Count(events, S) - IF e \in S THEN 1 ELSE 0
  BY <1>2, CountOfRest
<1>6. \A k \in DOMAIN q : \E i \in DOMAIN events : q[k] = events[i]
  <2> TAKE k \in DOMAIN q
  <2>1. k + 1 \in DOMAIN events /\ q[k] = events[k + 1]
    BY <1>2
  <2> QED BY <2>1
<1>7. f \in AllEvents /\ f.node = n /\ f \in Of("dispatch", n)
  <2>1. n \in Nat /\ 0 \in Nat
    BY <1>2, <1>3, NodesAreNumbers DEF CaseOK
  <2>2. f \in AllEvents
    BY <1>2, <2>1, NewEvents
  <2> QED BY <2>2 DEF Of, Dispatch
<1> HIDE DEF e, n, q, f
<1>8. /\ new \in Seq(AllEvents) /\ DOMAIN new = {1} /\ new[1] = f
      /\ \A S : Count(new, S) = IF f \in S THEN 1 ELSE 0
  BY <1>7, CountOfOne
<1> HIDE DEF new
<1>9. ASSUME NEW m \in Nodes, m # n PROVE Awaits(users[m], m, r, jobs)
  BY <1>2, <1>4, <1>7, <1>8, <1>9, OthersStay
<1>10. /\ \A S : Count(r, S) = Count(q, S) + Count(new, S)
       /\ \A k \in DOMAIN r :
            (\E i \in DOMAIN q : r[k] = q[i]) \/ (\E i \in DOMAIN new : r[k] = new[i])
  BY <1>2, <1>8, TimesAreNumbers, InjectedCount, InjectedElements
<1>11. EventsOK'
  <2>1. r \in Seq(AllEvents) /\ \A i \in DOMAIN r : r[i].node \in Nodes
    BY <1>2, <1>7, <1>8, EventsStayOK
  <2> QED BY <1>1, <2>1 DEF EventsOK, Nodes
<1> HIDE DEF r
<1>12. Awaits(users[n], n, r, jobs)
  <2>1. e \in Of("send", n) /\ e \notin Of("dispatch", n) /\ e \notin Of("user", n)
    BY <1>2, TypesDiffer DEF Of, n
  <2>2. f \notin Of("send", n) /\ f \notin Of("user", n)
    BY <1>7, TypesDiffer
  <2>3. \A S : Count(events, S) \in Nat /\ Count(q, S) \in Nat
    BY <1>2, WhereIsFinite
  <2>4. /\ Count(r, Of("send", n)) = Count(events, Of("send", n)) - 1
        /\ Count(r, Of("dispatch", n)) = Count(events, Of("dispatch", n)) + 1
        /\ Count(r, Of("user", n)) = Count(events, Of("user", n))
    BY <1>5, <1>7, <1>8, <1>10, <2>1, <2>2, <2>3
  <2>5. Cardinality(JobsAt(jobs, n)) \in Nat
    BY <1>3, JobsAtFinite DEF JobsOK
  <2>6. Work(n, r, jobs) = Work(n, events, jobs)
    BY <2>3, <2>4, <2>5 DEF Work
  <2>7. \A k \in DOMAIN r : r[k] \in Of("user", n) => \E i \in DOMAIN events : r[k] = events[i]
    BY <1>6, <1>8, <1>10, <2>2
  <2>8. Awaits(users[n], n, events, jobs)
    BY <1>2, <1>3
  <2> QED BY <2>4, <2>6, <2>7, <2>8, AwaitsStays
<1>13. \A m \in Nodes : Awaits(users'[m], m, events', jobs')
  BY <1>1, <1>9, <1>12
<1>14. CaseOK' /\ JobsOK' /\ StatisticsMatch'
  <2>1. StatisticsMatch'
    BY <1>1, <1>3, StatisticsIs, StatisticsNext
  <2> QED BY <1>1, <1>2, <1>3, <2>1 DEF CaseOK, JobsOK, Nodes
<1> QED BY <1>1, <1>2, <1>3, <1>11, <1>13, <1>14, WithUsers

\* Steps that change no queue and no application.
LEMMA NothingMoves ==
  ASSUME IInv, UNCHANGED <<case, events, nextApp, records, submitted, finished, users, jobs>>,
         now' \in Int, stats' \in AllStats, StatisticsMatch'
  PROVE  IInv'
<1>1. EventsOK' /\ UsersOK' /\ UsersAreAwaited'
  BY AwaitedStay
<1>2. CaseOK' /\ JobsOK' /\ QueueInv' /\ DescriptionsMatch'
  BY DEF IInv, TypeInv, WorkIsAccounted, CaseOK, JobsOK, QueueInv, DescriptionsMatch, Nodes
<1> QED BY <1>1, <1>2 DEF IInv, TypeInv, WorkIsAccounted

LEMMA TimeGoesBy ==
  ASSUME IInv, Elapse \/ UNCHANGED vars
  PROVE  IInv'
<1>1. /\ UNCHANGED <<case, events, nextApp, records, submitted, finished, users, jobs, stats,
           ended>>
      /\ now' = now + 1 \/ now' = now
  BY DEF Elapse, vars
<1>2. now' \in Int /\ stats' \in AllStats
  BY <1>1 DEF IInv, TypeInv, CaseOK
<1>3. StatisticsMatch'
  BY <1>1, StatisticsIs, StatisticsNext DEF IInv, WorkIsAccounted
<1> QED BY <1>1, <1>2, <1>3, NothingMoves

LEMMA StatisticsFinish ==
  ASSUME IInv, FinishStatistics
  PROVE  IInv'
<1> DEFINE left == {j \in jobs : In(j, InQueues) # {}}
           c == Cardinality(left)
<1>1. /\ ~ended /\ ended' = TRUE /\ stats' = [stats EXCEPT !.apps = @ + c]
      /\ UNCHANGED <<case, now, events, nextApp, records, submitted, finished, users, jobs>>
  BY DEF FinishStatistics, InQueues
<1>2. c \in Nat
  <2>1. IsFiniteSet(jobs) /\ left \in SUBSET jobs
    BY DEF IInv, TypeInv, JobsOK
  <2> QED BY <2>1, FS_Subset, FS_CardinalityType
<1>3. stats \in AllStats /\ now \in Int
  BY DEF IInv, TypeInv, CaseOK
<1> HIDE DEF c
<1>4. /\ stats' \in AllStats /\ stats'.existing = stats.existing /\ stats'.running = stats.running
      /\ stats'.unfinished = stats.unfinished /\ stats'.apps = stats.apps + c
  BY <1>1, <1>2, <1>3 DEF AllStats
<1>5. /\ stats.existing = Cardinality(TasksIn(jobs, InQueues))
      /\ stats.running >= Cardinality(TasksIn(jobs, {"running"}))
      /\ stats.unfinished <= stats.apps
      /\ case # "site" => stats.apps = finished + 0
  BY <1>1, StatisticsIs DEF IInv, WorkIsAccounted
<1>6. stats'.unfinished <= stats'.apps
  BY <1>2, <1>3, <1>4, <1>5 DEF AllStats
<1>7. case # "site" => stats'.apps = finished + c
  <2>1. finished \in Nat
    BY DEF IInv, TypeInv, CaseOK
  <2> QED BY <1>4, <1>5, <2>1
<1>8. StatisticsMatch'
  BY <1>1, <1>4, <1>5, <1>6, <1>7, StatisticsNext DEF c
<1> QED BY <1>1, <1>3, <1>4, <1>8, NothingMoves

LEMMA EveryStep ==
  ASSUME IInv, [Next]_vars
  PROVE  IInv'
<1>1. CASE HandleDispatchOfProcess
  BY <1>1, ProcessDispatches
<1>2. CASE HandleDispatchOfRepeat
  BY <1>2, RepeatDispatches
<1>3. CASE HandleDispatchOfMany
  BY <1>3, ManyDispatches
<1>4. CASE HandleDispatchOfSite
  BY <1>4, SiteDispatches
<1>5. CASE HandleUserEvent
  BY <1>5, UserWakes
<1>6. CASE HandleSendJob
  BY <1>6, JobIsSent
<1>7. ASSUME NEW j \in jobs, NEW i \in Tasks,
             TaskAccepted(j, i) \/ TaskStarted(j, i) \/ TaskPaused(j, i) \/ TaskAborted(j, i)
      PROVE  IInv'
  BY <1>7, TasksGoOn
<1>8. ASSUME NEW j \in jobs, NEW i \in Tasks, TaskFinished(j, i) PROVE IInv'
  BY <1>8, TaskFinishes
<1>9. ASSUME NEW j \in jobs, GivenUp(j) PROVE IInv'
  BY <1>9, AppIsGivenUp
<1>10. CASE Elapse \/ UNCHANGED vars
  BY <1>10, TimeGoesBy
<1>11. CASE FinishStatistics
  BY <1>11, StatisticsFinish
<1> QED BY <1>1, <1>2, <1>3, <1>4, <1>5, <1>6, <1>7, <1>8, <1>9, <1>10, <1>11 DEF Next

-----------------------------------------------------------------------------
(* The cases before the first event, and the theorem.                      *)

\* Before the first event there is no application.
LEMMA Beginning ==
  ASSUME Init
  PROVE  /\ case \in Cases /\ now \in Int /\ finished \in Nat /\ stats \in AllStats
         /\ JobsOK /\ DescriptionsMatch /\ StatisticsMatch
         /\ \A n : Cardinality(JobsAt(jobs, n)) = 0
         /\ case \in {"uniform", "poisson", "repeat", "site", "many"}
<1>1. /\ case \in Cases /\ now = 0 /\ finished = 0 /\ jobs = {} /\ ended = FALSE
      /\ stats = [existing |-> 0, running |-> 0, apps |-> 0, unfinished |-> 0]
  BY DEF Init
<1>2. stats \in AllStats /\ JobsOK /\ DescriptionsMatch
  BY <1>1, FS_EmptySet DEF AllStats, JobsOK, DescriptionsMatch
<1>3. StatisticsMatch
  <2>1. \A S : TasksIn(jobs, S) = {}
    BY <1>1 DEF TasksIn
  <2>2. \A S : Cardinality(TasksIn(jobs, S)) = 0
    BY <2>1, FS_EmptySet
  <2> QED BY <1>1, <2>2, StatisticsIs
<1>4. \A n : Cardinality(JobsAt(jobs, n)) = 0
  <2>1. \A n : JobsAt(jobs, n) = {}
    BY <1>1 DEF JobsAt
  <2> QED BY <2>1, FS_EmptySet
<1> QED BY <1>1, <1>2, <1>3, <1>4, WorkloadAssumption

\* A first command in the queue.
LEMMA FirstCommand ==
  ASSUME case \in Cases, NEW n \in Nodes, NEW t \in Int, events = <<Dispatch(n, 1, t)>>
  PROVE  /\ EventsOK /\ Len(events) = 1
         /\ Head(events).type = "dispatch" /\ Head(events).cmd = 1 /\ Head(events).node = n
<1> DEFINE e == Dispatch(n, 1, t)
<1>1. e \in AllEvents /\ e.type = "dispatch" /\ e.cmd = 1 /\ e.node = n
  <2>1. n \in Nat /\ 1 \in Nat
    BY NodesAreNumbers
  <2>2. e \in AllEvents
    BY <2>1, NewEvents
  <2> QED BY <2>2 DEF Dispatch
<1> HIDE DEF e
<1>2. events = <<e>>
  BY DEF e
<1>3. EventsOK
  BY <1>1, <1>2 DEF EventsOK
<1>4. Len(events) = 1 /\ Head(events) = e
  BY <1>2
<1> QED BY <1>1, <1>3, <1>4

LEMMA ProcessStarts ==
  ASSUME Init, case \notin {"repeat", "site", "many"}
  PROVE  IInv
<1>1. /\ records = <<>> /\ submitted = 1
      /\ \E client \in Nodes : /\ nextApp = [[n \in Nodes |-> 0] EXCEPT ![client] = 1]
                               /\ events = <<Dispatch(client, 1, now)>>
  BY DEF Init, PreStartProcess, Generate
<1>2. PICK client \in Nodes : /\ nextApp = [[n \in Nodes |-> 0] EXCEPT ![client] = 1]
                              /\ events = <<Dispatch(client, 1, now)>>
  BY <1>1
<1>3. /\ case \in Cases /\ now \in Int /\ finished \in Nat /\ stats \in AllStats
      /\ JobsOK /\ DescriptionsMatch /\ StatisticsMatch
  BY Beginning
<1>4. /\ EventsOK /\ Len(events) = 1
      /\ Head(events).type = "dispatch" /\ Head(events).cmd = 1 /\ Head(events).node = client
  BY <1>2, <1>3, FirstCommand
<1>5. nextApp \in [Nodes -> Nat] /\ nextApp[client] = 1
  BY <1>2
<1>6. records \in Seq(AllRecords) /\ \A i \in DOMAIN records : records[i].client \in Nodes
  BY <1>1
<1>7. CaseOK
  BY <1>1, <1>3, <1>5, <1>6 DEF CaseOK
<1>8. QueueInv
  BY <1>1, <1>4, <1>5 DEF QueueInv
<1>9. UsersOK /\ UsersAreAwaited
  BY DEF UsersOK, UsersAreAwaited
<1> QED BY <1>3, <1>4, <1>7, <1>8, <1>9 DEF IInv, TypeInv, WorkIsAccounted

LEMMA ManyStarts ==
  ASSUME Init, case = "many"
  PROVE  IInv
<1> DEFINE last == NumNodes[case] - 1
<1>1. /\ records = <<>> /\ submitted = 1
      /\ nextApp = [[n \in Nodes |-> 0] EXCEPT ![last] = 1]
      /\ \E client \in Nodes : events = <<Dispatch(client, 1, now)>>
  BY DEF Init, PreStartMany, Generate
<1>2. PICK client \in Nodes : events = <<Dispatch(client, 1, now)>>
  BY <1>1
<1>3. /\ case \in Cases /\ now \in Int /\ finished \in Nat /\ stats \in AllStats
      /\ JobsOK /\ DescriptionsMatch /\ StatisticsMatch
  BY Beginning
<1>4. /\ EventsOK /\ Len(events) = 1
      /\ Head(events).type = "dispatch" /\ Head(events).cmd = 1 /\ Head(events).node = client
  BY <1>2, <1>3, FirstCommand
<1>5. /\ nextApp \in [Nodes -> Nat]
      /\ nextApp = [n \in Nodes |-> IF n = last THEN 1 ELSE 0]
  BY <1>1
<1>6. records \in Seq(AllRecords) /\ \A i \in DOMAIN records : records[i].client \in Nodes
  BY <1>1
<1>7. CaseOK
  BY <1>1, <1>3, <1>5, <1>6 DEF CaseOK
<1>8. QueueInv
  BY <1>1, <1>4, <1>5 DEF QueueInv
<1>9. UsersOK /\ UsersAreAwaited
  BY DEF UsersOK, UsersAreAwaited
<1> QED BY <1>3, <1>4, <1>7, <1>8, <1>9 DEF IInv, TypeInv, WorkIsAccounted

LEMMA RepeatStarts ==
  ASSUME Init, case = "repeat"
  PROVE  IInv
<1>1. PICK file \in Files :
        /\ records = Tail(file) /\ submitted = 1
        /\ nextApp = [n \in Nodes |-> IF n = file[1].client THEN 1 ELSE 0]
        /\ events = <<Dispatch(file[1].client, 1, now + file[1].release)>>
  BY DEF Init, PreStartRepeat
<1>2. /\ case \in Cases /\ now \in Int /\ finished \in Nat /\ stats \in AllStats
      /\ JobsOK /\ DescriptionsMatch /\ StatisticsMatch
  BY Beginning
<1> DEFINE N == NumSearches[case]
           Line == [client : Nodes, release : Releases]
           first == file[1]
<1>3. N \in Nat \ {0} /\ file \in [1 .. N -> Line]
  BY <1>2, WorkloadAssumption DEF Files, Commands
<1> HIDE DEF N, Line, first
<1>4. /\ file \in Seq(Line) /\ Len(file) = N /\ first \in Line
      /\ \A i \in 1 .. N : file[i] \in Line
  BY <1>3 DEF first
<1> USE DEF Line, first
<1>5. \A x \in Line : x.client \in Nodes /\ x.client \in Nat /\ x.release \in Nat
        /\ x \in AllRecords
  BY <1>2, NodesAreNumbers, WorkloadAssumption DEF AllRecords
<1>6. records \in Seq(AllRecords) /\ \A i \in DOMAIN records : records[i].client \in Nodes
  <2>1. file # <<>>
    BY <1>3, <1>4
  <2>2. Tail(file) \in Seq(Line)
    BY <1>4, <2>1
  <2> HIDE DEF Line
  <2>3. \A i \in DOMAIN records : records[i] \in Line
    BY <1>1, <2>2
  <2>4. records \in Seq(AllRecords)
    BY <1>1, <1>5, <2>2
  <2> QED BY <1>5, <2>3, <2>4
<1>7. first.client \in Nodes /\ now + first.release \in Int
  BY <1>2, <1>4, <1>5
<1> HIDE DEF first
<1>8. /\ EventsOK /\ Len(events) = 1
      /\ Head(events).type = "dispatch" /\ Head(events).cmd = 1 /\ Head(events).node = first.client
  <2>1. events = <<Dispatch(first.client, 1, now + first.release)>>
    BY <1>1 DEF first
  <2> QED BY <1>2, <1>7, <2>1, FirstCommand
<1>9. nextApp \in [Nodes -> Nat] /\ nextApp[first.client] = 1
  BY <1>1, <1>7 DEF first
<1>10. CaseOK
  BY <1>1, <1>2, <1>6, <1>9 DEF CaseOK
<1>11. QueueInv
  BY <1>1, <1>8, <1>9 DEF QueueInv
<1>12. UsersOK /\ UsersAreAwaited
  BY DEF UsersOK, UsersAreAwaited
<1> QED BY <1>2, <1>8, <1>10, <1>11, <1>12 DEF IInv, TypeInv, WorkIsAccounted

\* Each user begins with a timer.
LEMMA SetupIs ==
  ASSUME NEW n \in Nat, now \in Int, NEW o \in Setup(n)
  PROVE  /\ o.user \in UserStates /\ o.user.state # "WAIT_JOB_FINISH" /\ o.user.batchSize = 0
         /\ \E t \in Int : /\ o.events = <<UserEvent(n, t)>>
                           /\ o.user.state = "SLEEPING" => RightWake(o.user, t)
<1>1. PICK u \in Users : o \in ThinksOrSleeps(u, n, now)
  BY DEF Setup
<1>2. u \in UserStates /\ u.batchSize = 0
  BY DEF Users, UserStates
<1>3. WithTimer(o, u, n)
  BY <1>1, <1>2, ThinksOrSleepsIs
<1> QED BY <1>2, <1>3 DEF WithTimer

LEMMA SiteStarts ==
  ASSUME Init, case = "site"
  PROVE  IInv
<1>1. PICK s \in [Nodes -> UNION {Setup(n) : n \in Nodes}] :
       /\ \A n \in Nodes : s[n] \in Setup(n)
       /\ users = [n \in Nodes |-> s[n].user]
       /\ events = InjectAll(<<>>, [i \in 1 .. NumNodes[case] |-> s[i - 1].events[1]])
  BY DEF Init, PreStartSite
<1>2. records = <<>> /\ submitted = 0 /\ nextApp = [n \in Nodes |-> 0]
  BY DEF Init, PreStartSite
<1>3. /\ case \in Cases /\ now \in Int /\ finished \in Nat /\ stats \in AllStats
      /\ JobsOK /\ DescriptionsMatch /\ StatisticsMatch
      /\ \A n : Cardinality(JobsAt(jobs, n)) = 0
  BY Beginning
<1> DEFINE N == NumNodes[case]
           new == [i \in 1 .. N |-> s[i - 1].events[1]]
           old == <<>>
<1>4. N \in Nat \ {0} /\ Nodes = 0 .. N - 1 /\ Nodes \subseteq Nat
  BY <1>3, NodesAreNumbers DEF Nodes
<1>5. ASSUME NEW n \in Nodes
      PROVE  /\ users[n] \in UserStates /\ users[n].state # "WAIT_JOB_FINISH"
                  /\ users[n].batchSize = 0
             /\ s[n].events[1] \in Of("user", n)
             /\ users[n].state = "SLEEPING" => RightWake(users[n], s[n].events[1].t)
  <2> DEFINE o == s[n]
  <2>1. n \in Nat /\ o \in Setup(n) /\ users[n] = o.user
    BY <1>1, <1>4
  <2> HIDE DEF o
  <2>2. /\ o.user \in UserStates /\ o.user.state # "WAIT_JOB_FINISH" /\ o.user.batchSize = 0
        /\ \E t \in Int : /\ o.events = <<UserEvent(n, t)>>
                          /\ o.user.state = "SLEEPING" => RightWake(o.user, t)
    BY <1>3, <2>1, SetupIs
  <2>3. PICK t \in Int : /\ o.events = <<UserEvent(n, t)>>
                         /\ o.user.state = "SLEEPING" => RightWake(o.user, t)
    BY <2>2
  <2>4. UserEvent(n, t) \in Of("user", n) /\ UserEvent(n, t).t = t
    <3>1. UserEvent(n, t) \in AllEvents
      BY <2>1, NewEvents
    <3> QED BY <3>1 DEF Of, UserEvent
  <2>5. o.events[1] = UserEvent(n, t)
    BY <2>3
  <2> QED BY <2>1, <2>2, <2>3, <2>4, <2>5 DEF o
<1>6. /\ DOMAIN new = 1 .. N
      /\ \A i \in 1 .. N, n \in Nodes : n = i - 1 => new[i] = s[n].events[1]
           /\ new[i] \in Of("user", n)
  BY <1>4, <1>5
<1>7. \A i \in 1 .. N : \E n \in Nodes : n = i - 1
  BY <1>4
<1>8. new \in Seq(AllEvents) /\ \A i \in DOMAIN new : new[i] \in AllEvents /\ new[i].node \in Nodes
  <2>1. \A i \in 1 .. N : new[i] \in AllEvents /\ new[i].node \in Nodes
    BY <1>6, <1>7 DEF Of
  <2> HIDE DEF N, new
  <2>2. new = [i \in 1 .. N |-> new[i]]
    BY DEF new
  <2>3. new \in Seq(AllEvents)
    BY <1>4, <2>1, <2>2
  <2> QED BY <1>6, <2>1, <2>3
<1>9. old \in Seq(AllEvents) /\ \A i : i \notin DOMAIN old
  OBVIOUS
<1>10. events = InjectAll(old, new)
  BY <1>1
<1> HIDE DEF new, old, N
<1>11. EventsOK
  <2>1. /\ InjectAll(old, new) \in Seq(AllEvents)
        /\ \A i \in DOMAIN InjectAll(old, new) : InjectAll(old, new)[i].node \in Nodes
    BY <1>8, <1>9, EventsStayOK
  <2> QED BY <1>10, <2>1 DEF EventsOK
<1>12. \A S : Count(events, S) = Count(new, S)
  <2> TAKE S
  <2>1. Count(old, S) = 0
    BY <1>9, CountNone
  <2>2. Count(events, S) = Count(old, S) + Count(new, S)
    BY <1>8, <1>9, <1>10, TimesAreNumbers, InjectedCount
  <2>3. Count(new, S) \in Nat
    BY <1>8, WhereIsFinite
  <2> QED BY <2>1, <2>2, <2>3
<1>13. \A k \in DOMAIN events : \E i \in DOMAIN new : events[k] = new[i]
  <2> TAKE k \in DOMAIN events
  <2>1. k \in DOMAIN InjectAll(old, new)
    BY <1>10
  <2>2. \/ \E i \in DOMAIN old : InjectAll(old, new)[k] = old[i]
        \/ \E i \in DOMAIN new : InjectAll(old, new)[k] = new[i]
    BY <1>8, <1>9, <2>1, TimesAreNumbers, InjectedElements
  <2> QED BY <1>9, <1>10, <2>2
<1>14. ASSUME NEW n \in Nodes PROVE Awaits(users[n], n, events, jobs)
  <2>1. n + 1 \in 1 .. N /\ n = (n + 1) - 1 /\ \A i \in 1 .. N : n # i - 1 => i # n + 1
    BY <1>4
  <2>2. \A i \in DOMAIN new : new[i] \in Of("user", n) => i = n + 1
    <3> SUFFICES ASSUME NEW i \in DOMAIN new, new[i] \in Of("user", n) PROVE i = n + 1
      OBVIOUS
    <3>1. i \in 1 .. N
      BY <1>6
    <3>2. PICK m \in Nodes : m = i - 1
      BY <1>7, <3>1
    <3>3. new[i] \in Of("user", m)
      BY <1>6, <3>1, <3>2
    <3>4. m = n
      BY <3>3 DEF Of
    <3>5. i \in Int /\ n \in Int /\ n = i - 1
      BY <1>4, <3>1, <3>2, <3>4
    <3> QED BY <3>5
  <2>3. Where(new, Of("user", n)) = {n + 1}
    BY <1>6, <2>1, <2>2 DEF Where
  <2>4. Count(events, Of("user", n)) = 1
    BY <1>12, <2>3, FS_Singleton DEF Count
  <2>5. \A i \in DOMAIN new : new[i] \notin Of("send", n) /\ new[i] \notin Of("dispatch", n)
    <3> TAKE i \in DOMAIN new
    <3>1. PICK m \in Nodes : m = i - 1
      BY <1>6, <1>7
    <3>2. new[i] \in Of("user", m) /\ new[i] \in AllEvents
      BY <1>6, <1>8, <3>1
    <3> QED BY <3>2, TypesDiffer
  <2>6. Count(events, Of("send", n)) = 0 /\ Count(events, Of("dispatch", n)) = 0
    BY <1>12, <2>5, CountNone
  <2>7. Work(n, events, jobs) = 0
    BY <1>3, <2>6 DEF Work
  <2>8. \A k \in DOMAIN events : events[k] \in Of("user", n) => events[k] = s[n].events[1]
    <3> SUFFICES ASSUME NEW k \in DOMAIN events, events[k] \in Of("user", n)
                 PROVE  events[k] = s[n].events[1]
      OBVIOUS
    <3>1. PICK i \in DOMAIN new : events[k] = new[i]
      BY <1>13
    <3>2. i = n + 1
      BY <2>2, <3>1
    <3>3. new[i] = s[n].events[1]
      BY <1>6, <2>1, <3>2
    <3> QED BY <3>1, <3>3
  <2>9. /\ users[n].state # "WAIT_JOB_FINISH" /\ users[n].batchSize = 0
        /\ users[n].state = "SLEEPING" => RightWake(users[n], s[n].events[1].t)
    BY <1>5
  <2> QED BY <2>4, <2>7, <2>8, <2>9 DEF Awaits
<1>15. users \in [Nodes -> UserStates]
  BY <1>1, <1>5
<1>16. UsersOK /\ UsersAreAwaited
  BY <1>11, <1>14, <1>15, AwaitedIs DEF UsersOK
<1>17. CaseOK
  <2>1. records \in Seq(AllRecords) /\ \A i \in DOMAIN records : records[i].client \in Nodes
    BY <1>2
  <2>2. nextApp \in [Nodes -> Nat] /\ submitted \in Nat
    BY <1>2
  <2> QED BY <1>3, <2>1, <2>2 DEF CaseOK
<1>18. QueueInv
  BY DEF QueueInv
<1> QED BY <1>3, <1>11, <1>16, <1>17, <1>18 DEF IInv, TypeInv, WorkIsAccounted

\* Commands, users and statistics agree in every run of each case: an
\* application gets the description the case prepared, each user of siteLevel
\* has a timer or jobs on the way, and the statistics count the tasks there are.
THEOREM WorkAlwaysAccounted == Spec => []WorkIsAccounted
<1>1. Init => IInv
  <2> SUFFICES ASSUME Init PROVE IInv
    OBVIOUS
  <2>1. case \in {"uniform", "poisson", "repeat", "site", "many"}
    BY Beginning
  <2> QED BY <2>1, ProcessStarts, ManyStarts, RepeatStarts, SiteStarts
<1>2. IInv /\ [Next]_vars => IInv'
  BY EveryStep
<1>3. IInv => WorkIsAccounted
  BY DEF IInv
<1> QED BY <1>1, <1>2, <1>3, PTL DEF Spec

=============================================================================
