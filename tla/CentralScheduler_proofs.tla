---------------------- MODULE CentralScheduler_proofs ----------------------
(***************************************************************************)
(* Proofs about CentralScheduler, for every number of nodes, applications  *)
(* and tasks, their lengths and deadlines, and every policy: the copies of *)
(* the queues can be trusted, whatever messages overtake each other, and   *)
(* DP needs no more holes than it has room for.  The tasks of a node are   *)
(* counted on their way, at the node, in what it has told and in the copy, *)
(* so that most of the proof is about how many elements sets have.         *)
(***************************************************************************)
EXTENDS CentralScheduler, FiniteSetTheorems, WellFoundedInduction, TLAPS

-----------------------------------------------------------------------------
(* Counting.                                                               *)

\* A set of naturals has a least element.
LEMMA LeastNumber ==
  ASSUME NEW S \in SUBSET Nat, S # {}
  PROVE  \E x \in S : \A y \in S : x <= y
<1> DEFINE R == {ss \in Nat \X Nat : ss[1] < ss[2]}
<1>1. IsWellFoundedOn(R, Nat)
  BY NatLessThanWellFounded DEF OpToRel
<1> HIDE DEF R
<1>2. PICK x \in S : \A y \in S : ~ (<<y, x>> \in R)
  BY <1>1, WFMin
<1>3. ASSUME NEW y \in S PROVE x <= y
  <2>1. x \in Nat /\ y \in Nat /\ ~ (<<y, x>> \in R)
    BY <1>2
  <2> QED BY <2>1 DEF R
<1> QED BY <1>3

\* And a greatest one, if it has a bound.
LEMMA GreatestNumber ==
  ASSUME NEW n \in Nat, NEW S \in SUBSET (0 .. n), S # {}
  PROVE  \E x \in S : \A y \in S : y <= x
<1> DEFINE T == {n - y : y \in S}
<1>1. T \in SUBSET Nat /\ T # {}
  <2>1. \A y \in S : n - y \in Nat
    OBVIOUS
  <2> QED BY <2>1
<1>2. PICK x \in T : \A z \in T : x <= z
  <2> HIDE DEF T
  <2> QED BY <1>1, LeastNumber
<1>3. PICK y \in S : x = n - y
  OBVIOUS
<1>4. \A z \in S : n - y <= n - z
  BY <1>2, <1>3
<1> QED BY <1>4

\* Sets that a function relates one to one have the same size.
LEMMA SameSize ==
  ASSUME NEW S, NEW T, IsFiniteSet(S), NEW f \in [S -> T],
         \A x, y \in S : f[x] = f[y] => x = y, \A z \in T : \E x \in S : f[x] = z
  PROVE  IsFiniteSet(T) /\ Cardinality(T) = Cardinality(S)
<1>1. f \in Surjection(S, T) /\ f \in Injection(S, T)
  BY DEF Surjection, Injection, IsInjective
<1> QED BY <1>1, FS_Surjection

\* A set whose elements a function keeps apart is no larger than the other.
LEMMA NoLarger ==
  ASSUME NEW S, NEW T, IsFiniteSet(T), NEW f \in [S -> T],
         \A x, y \in S : f[x] = f[y] => x = y
  PROVE  IsFiniteSet(S) /\ Cardinality(S) <= Cardinality(T)
<1>1. f \in Injection(S, T)
  BY DEF Injection, IsInjective
<1> QED BY <1>1, FS_Injection

\* And it reaches all of a set of the same size.
LEMMA ReachesAll ==
  ASSUME NEW S, NEW T, IsFiniteSet(T), NEW f \in [S -> T],
         \A x, y \in S : f[x] = f[y] => x = y, Cardinality(S) = Cardinality(T)
  PROVE  \A z \in T : \E x \in S : f[x] = z
<1>1. f \in Injection(S, T)
  BY DEF Injection, IsInjective
<1>2. f \in Surjection(S, T)
  BY <1>1, FS_Injection
<1> QED BY <1>2 DEF Surjection

\* Two sets that have nothing in common.
LEMMA SizesAdd ==
  ASSUME NEW S, NEW T, IsFiniteSet(S), IsFiniteSet(T), S \cap T = {}
  PROVE  IsFiniteSet(S \cup T) /\ Cardinality(S \cup T) = Cardinality(S) + Cardinality(T)
<1>1. Cardinality(S \cap T) = 0
  BY FS_EmptySet
<1>2. Cardinality(S) \in Nat /\ Cardinality(T) \in Nat
  BY FS_CardinalityType
<1>3. /\ IsFiniteSet(S \cup T)
      /\ Cardinality(S \cup T) = Cardinality(S) + Cardinality(T) - Cardinality(S \cap T)
  BY FS_Union
<1> QED BY <1>1, <1>2, <1>3

\* The elements of a sequence are at most as many as its length.
LEMMA ElementsFinite ==
  ASSUME NEW T, NEW s \in Seq(T)
  PROVE  /\ IsFiniteSet(Elements(s)) /\ Cardinality(Elements(s)) <= Len(s)
         /\ Elements(s) \in SUBSET T /\ Cardinality(Elements(s)) \in Nat
<1> DEFINE f == [i \in 1 .. Len(s) |-> s[i]]
<1>1. Len(s) \in Nat /\ DOMAIN s = 1 .. Len(s)
  OBVIOUS
<1>2. f \in Surjection(1 .. Len(s), Elements(s))
  BY <1>1 DEF Surjection, Elements
<1>3. IsFiniteSet(1 .. Len(s)) /\ Cardinality(1 .. Len(s)) = Len(s)
  BY <1>1, FS_Interval
<1> HIDE DEF f
<1>4. IsFiniteSet(Elements(s)) /\ Cardinality(Elements(s)) <= Len(s)
  BY <1>2, <1>3, FS_Surjection
<1> QED BY <1>1, <1>4, FS_CardinalityType DEF Elements

\* An interval from 1 has as many numbers as its end says.
LEMMA FirstNumbers ==
  ASSUME NEW n \in Nat
  PROVE  IsFiniteSet(1 .. n) /\ Cardinality(1 .. n) = n
BY FS_Interval

-----------------------------------------------------------------------------
(* Places in nodes.                                                        *)

LEMMA SlotsAre ==
  ASSUME NEW S, NEW k, NEW s
  PROVE  s \in Slots(S, k) <=> \E m \in S : \E i \in 1 .. k[m] : s = <<m, i>>
BY DEF Slots

LEMMA SlotsOne ==
  ASSUME NEW m, NEW k, k[m] \in Nat
  PROVE  IsFiniteSet(Slots({m}, k)) /\ Cardinality(Slots({m}, k)) = k[m]
<1> DEFINE D == 1 .. k[m]
           f == [i \in D |-> <<m, i>>]
           T == Slots({m}, k)
<1>1. T = {m} \X D
  BY DEF Slots
<1>2. IsFiniteSet(D) /\ Cardinality(D) = k[m]
  BY FirstNumbers
<1> HIDE DEF D, T
<1>3. /\ f \in [D -> T] /\ \A i, j \in D : f[i] = f[j] => i = j
      /\ \A z \in T : \E i \in D : f[i] = z
  BY <1>1
<1> HIDE DEF f
<1>4. IsFiniteSet(T) /\ Cardinality(T) = Cardinality(D)
  BY <1>2, <1>3, SameSize
<1> QED BY <1>2, <1>4 DEF T

LEMMA SlotsFinite ==
  ASSUME NEW S, IsFiniteSet(S), NEW k, \A m \in S : k[m] \in Nat
  PROVE  IsFiniteSet(Slots(S, k)) /\ Cardinality(Slots(S, k)) \in Nat
<1> DEFINE f == [m \in S |-> {m} \X (1 .. k[m])]
           T == {{m} \X (1 .. k[m]) : m \in S}
<1>1. f \in Surjection(S, T)
  BY DEF Surjection
<1>2. \A Z \in T : IsFiniteSet(Z)
  <2> SUFFICES ASSUME NEW m \in S PROVE IsFiniteSet({m} \X (1 .. k[m]))
    OBVIOUS
  <2>1. IsFiniteSet({m}) /\ IsFiniteSet(1 .. k[m])
    BY FS_Singleton, FirstNumbers
  <2> QED BY <2>1, FS_Product
<1> HIDE DEF f, T
<1>3. IsFiniteSet(T)
  BY <1>1, FS_Surjection
<1>4. IsFiniteSet(UNION T)
  BY <1>2, <1>3, FS_UNION
<1> QED BY <1>4, FS_CardinalityType DEF T, Slots

LEMMA SlotsAdd ==
  ASSUME NEW S, NEW T, IsFiniteSet(S), IsFiniteSet(T), S \cap T = {}, NEW k,
         \A m \in S \cup T : k[m] \in Nat
  PROVE  Cardinality(Slots(S \cup T, k)) = Cardinality(Slots(S, k)) + Cardinality(Slots(T, k))
<1>1. Slots(S \cup T, k) = Slots(S, k) \cup Slots(T, k) /\ Slots(S, k) \cap Slots(T, k) = {}
  BY DEF Slots
<1>2. IsFiniteSet(Slots(S, k)) /\ IsFiniteSet(Slots(T, k))
  BY SlotsFinite
<1> QED BY <1>1, <1>2, SizesAdd

LEMMA SlotsGrow ==
  ASSUME NEW S, IsFiniteSet(S), NEW T \in SUBSET S, NEW k, \A m \in S : k[m] \in Nat
  PROVE  Cardinality(Slots(T, k)) <= Cardinality(Slots(S, k))
<1>1. Slots(T, k) \subseteq Slots(S, k)
  BY DEF Slots
<1> QED BY <1>1, SlotsFinite, FS_Subset

LEMMA SlotsWithOne ==
  ASSUME NEW S, IsFiniteSet(S), NEW m, m \notin S, NEW k, k[m] \in Nat, \A o \in S : k[o] \in Nat
  PROVE  Cardinality(Slots(S \cup {m}, k)) = Cardinality(Slots(S, k)) + k[m]
<1>1. IsFiniteSet({m}) /\ S \cap {m} = {} /\ \A o \in S \cup {m} : k[o] \in Nat
  BY FS_Singleton
<1>2. Cardinality(Slots(S \cup {m}, k)) = Cardinality(Slots(S, k)) + Cardinality(Slots({m}, k))
  BY <1>1, SlotsAdd
<1> QED BY <1>2, SlotsOne

\* Nodes with a place at least are no more than the places.
LEMMA NoMoreNodes ==
  ASSUME NEW S, IsFiniteSet(S), NEW k, \A m \in S : k[m] \in Nat \ {0}
  PROVE  Cardinality(S) <= Cardinality(Slots(S, k))
<1> DEFINE f == [m \in S |-> <<m, 1>>]
           T == Slots(S, k)
<1>1. IsFiniteSet(T)
  BY SlotsFinite
<1>2. \A m \in S : <<m, 1>> \in T
  BY SlotsAre
<1>3. f \in [S -> T] /\ \A x, y \in S : f[x] = f[y] => x = y
  <2> HIDE DEF T
  <2> QED BY <1>2
<1> HIDE DEF f, T
<1>4. Cardinality(S) <= Cardinality(T)
  BY <1>1, <1>3, NoLarger
<1> QED BY <1>4 DEF T

LEMMA NodesFinite ==
  /\ NumNodes \in Nat /\ IsFiniteSet(Nodes) /\ Cardinality(Nodes) = NumNodes
  /\ \A S \in SUBSET Nodes : IsFiniteSet(S) /\ Cardinality(S) \in Nat
<1>1. NumNodes \in Nat
  BY CentralAssumption DEF CentralAssumption
<1>2. IsFiniteSet(Nodes) /\ Cardinality(Nodes) = NumNodes
  BY <1>1, FirstNumbers DEF Nodes
<1>3. \A S \in SUBSET Nodes : IsFiniteSet(S) /\ Cardinality(S) \in Nat
  BY <1>2, FS_Subset, FS_CardinalityType
<1> QED BY <1>1, <1>2, <1>3

-----------------------------------------------------------------------------
(* Orders.                                                                 *)

\* R orders the elements of S strictly.
IsStrictOrder(R, S) ==
  /\ \A x \in S : <<x, x>> \notin R
  /\ \A x, y, z \in S : <<x, y>> \in R /\ <<y, z>> \in R => <<x, z>> \in R
  /\ \A x, y \in S : x = y \/ <<x, y>> \in R \/ <<y, x>> \in R

\* Arranged has each element of the set once.
LEMMA ArrangedIsOneToOne ==
  ASSUME NEW S, IsFiniteSet(S), NEW R, IsStrictOrder(R, S)
  PROVE  /\ Cardinality(S) \in Nat /\ Arranged(S, R) \in [1 .. Cardinality(S) -> S]
         /\ \A i, j \in 1 .. Cardinality(S) : Arranged(S, R)[i] = Arranged(S, R)[j] => i = j
         /\ \A x \in S : \E i \in 1 .. Cardinality(S) : Arranged(S, R)[i] = x
<1> DEFINE n == Cardinality(S)
           below(x) == {y \in S : <<y, x>> \in R}
           rank == [x \in S |-> Cardinality(below(x)) + 1]
           a == Arranged(S, R)
<1>1. n \in Nat
  BY FS_CardinalityType
<1>2. ASSUME NEW x \in S
      PROVE  /\ IsFiniteSet(below(x)) /\ Cardinality(below(x)) \in Nat
             /\ Cardinality(below(x)) < n
  <2>1. below(x) \in SUBSET S /\ below(x) # S
    BY DEF IsStrictOrder
  <2> HIDE DEF below
  <2>2. IsFiniteSet(below(x)) /\ Cardinality(below(x)) \in Nat /\ Cardinality(below(x)) <= n
        /\ Cardinality(below(x)) # n
    BY <2>1, FS_Subset, FS_CardinalityType
  <2> QED BY <1>1, <2>2
<1>3. ASSUME NEW x \in S, NEW y \in S, <<x, y>> \in R
      PROVE  Cardinality(below(x)) < Cardinality(below(y))
  <2>1. below(x) \in SUBSET below(y)
    BY <1>3 DEF IsStrictOrder
  <2>2. x \in below(y) /\ x \notin below(x)
    BY <1>3 DEF IsStrictOrder
  <2> HIDE DEF below
  <2>3. Cardinality(below(x)) <= Cardinality(below(y)) /\ Cardinality(below(x)) # Cardinality(below(y))
    BY <1>2, <2>1, <2>2, FS_Subset
  <2> QED BY <1>2, <2>3
<1>4. \A x, y \in S : Cardinality(below(x)) = Cardinality(below(y)) => x = y
  <2> SUFFICES ASSUME NEW x \in S, NEW y \in S, Cardinality(below(x)) = Cardinality(below(y)), x # y
               PROVE FALSE
    OBVIOUS
  <2>1. <<x, y>> \in R \/ <<y, x>> \in R
    BY DEF IsStrictOrder
  <2>2. Cardinality(below(x)) \in Nat /\ Cardinality(below(y)) \in Nat
    BY <1>2
  <2> HIDE DEF below
  <2> QED BY <1>3, <2>1, <2>2
<1>5. rank \in [S -> 1 .. n] /\ \A x, y \in S : rank[x] = rank[y] => x = y
  <2> HIDE DEF below
  <2> QED BY <1>1, <1>2, <1>4
<1>6. \A i \in 1 .. n : \E x \in S : rank[x] = i
  <2> HIDE DEF rank
  <2>1. IsFiniteSet(1 .. n) /\ Cardinality(1 .. n) = n
    BY <1>1, FirstNumbers
  <2> HIDE DEF n
  <2>2. Cardinality(S) = Cardinality(1 .. n)
    BY <2>1 DEF n
  <2> DEFINE T == 1 .. n
  <2>3. rank \in [S -> T] /\ IsFiniteSet(T) /\ Cardinality(S) = Cardinality(T)
        /\ \A x, y \in S : rank[x] = rank[y] => x = y
    BY <1>5, <2>1, <2>2
  <2> HIDE DEF T
  <2>4. \A z \in T : \E x \in S : rank[x] = z
    BY <2>3, ReachesAll
  <2> QED BY <2>4 DEF T
<1>7. a = [i \in 1 .. n |-> CHOOSE x \in S : Cardinality(below(x)) = i - 1]
  BY DEF Arranged
<1>8. ASSUME NEW i \in 1 .. n PROVE a[i] \in S /\ rank[a[i]] = i
  <2> HIDE DEF below
  <2>1. a[i] = CHOOSE x \in S : Cardinality(below(x)) = i - 1
    BY <1>7
  <2>2. PICK x \in S : rank[x] = i
    BY <1>6
  <2>3. Cardinality(below(x)) = i - 1
    BY <1>1, <1>2, <2>2
  <2> HIDE DEF a
  <2>4. a[i] \in S /\ Cardinality(below(a[i])) = i - 1
    BY <2>1, <2>3
  <2> QED BY <1>1, <1>2, <2>4
<1>9. \A x \in S : rank[x] \in 1 .. n
  <2> HIDE DEF rank
  <2> QED BY <1>5
<1>10. \A x \in S : a[rank[x]] = x
  <2> HIDE DEF rank, a
  <2> QED BY <1>5, <1>8, <1>9
<1>11. a \in [1 .. n -> S]
  <2>1. a = [i \in 1 .. n |-> a[i]]
    BY <1>7
  <2> HIDE DEF a, rank
  <2> QED BY <1>8, <2>1
<1> HIDE DEF a, rank
<1>12. \A i, j \in 1 .. n : a[i] = a[j] => i = j
  BY <1>8
<1>13. \A x \in S : \E i \in 1 .. n : a[i] = x
  BY <1>9, <1>10
<1> QED BY <1>1, <1>11, <1>12, <1>13 DEF n, a

-----------------------------------------------------------------------------
(* The queues.                                                             *)

Tids == Apps \X Nat
Entries == [t : Tids, release : Nat, deadline : Nat]
NoRepeats(s) == \A i, j \in DOMAIN s : s[i] = s[j] => i = j

IsQueue(q) ==
  /\ q \in SUBSET Entries /\ IsFiniteSet(q)
  /\ \A e, f \in q : e.t = f.t => e = f

LEMMA TidTyped ==
  ASSUME NEW t \in Tids
  PROVE  t[1] \in Apps /\ t[1] \in Nat /\ t[2] \in Nat /\ t = <<t[1], t[2]>>
BY CentralAssumption DEF CentralAssumption, Tids, Apps

LEMMA EntryTyped ==
  ASSUME NEW e \in Entries
  PROVE  /\ e.t \in Tids /\ e.release \in Nat /\ e.deadline \in Nat
         /\ e.t[1] \in Nat /\ e.t[2] \in Nat /\ e.t = <<e.t[1], e.t[2]>>
BY TidTyped DEF Entries

LEMMA BeforeIsOrder ==
  ASSUME NEW q, IsQueue(q)
  PROVE  IsStrictOrder({p \in q \X q : Before(p[1], p[2])}, q)
<1> DEFINE R == {p \in q \X q : Before(p[1], p[2])}
<1>1. \A x, y \in q : <<x, y>> \in R <=> Before(x, y)
  OBVIOUS
<1>2. \A e \in q : /\ e.deadline \in Nat /\ e.t[1] \in Nat /\ e.t[2] \in Nat
                   /\ e.t = <<e.t[1], e.t[2]>>
  BY EntryTyped DEF IsQueue
<1> HIDE DEF R
<1>3. \A x \in q : ~Before(x, x)
  BY <1>2 DEF Before
<1>4. \A x, y, z \in q : Before(x, y) /\ Before(y, z) => Before(x, z)
  BY <1>2 DEF Before
<1>5. \A x, y \in q : x = y \/ Before(x, y) \/ Before(y, x)
  <2> SUFFICES ASSUME NEW x \in q, NEW y \in q, ~Before(x, y), ~Before(y, x) PROVE x = y
    OBVIOUS
  <2>1. x.t[1] = y.t[1] /\ x.t[2] = y.t[2]
    BY <1>2 DEF Before
  <2>2. x.t = y.t
    BY <1>2, <2>1
  <2> QED BY <2>2 DEF IsQueue
<1> QED BY <1>1, <1>3, <1>4, <1>5 DEF IsStrictOrder, R

\* A message has the tasks of the queue, each once.
LEMMA SortedTasksAre ==
  ASSUME NEW q, IsQueue(q)
  PROVE  /\ SortedTasks(q) \in Seq(Tids) /\ NoRepeats(SortedTasks(q))
         /\ Elements(SortedTasks(q)) = TasksOf(q)
<1> DEFINE n == Cardinality(q)
           R == {p \in q \X q : Before(p[1], p[2])}
           a == Arranged(q, R)
           s == [i \in DOMAIN a |-> a[i].t]
<1>0. IsStrictOrder(R, q) /\ IsFiniteSet(q)
  BY BeforeIsOrder DEF IsQueue
<1>2. SortedTasks(q) = s
  BY DEF SortedTasks
<1> HIDE DEF R
<1>1. /\ n \in Nat /\ a \in [1 .. n -> q] /\ \A i, j \in 1 .. n : a[i] = a[j] => i = j
      /\ \A e \in q : \E i \in 1 .. n : a[i] = e
  BY <1>0, ArrangedIsOneToOne
<1> HIDE DEF a, n
<1>3. s = [i \in 1 .. n |-> a[i].t]
  BY <1>1
<1> HIDE DEF s
<1>4. \A i \in 1 .. n : a[i] \in q /\ s[i] = a[i].t
  BY <1>1, <1>3
<1>5. \A i \in 1 .. n : s[i] \in Tids
  BY <1>4, EntryTyped DEF IsQueue
<1>6. s \in Seq(Tids) /\ DOMAIN s = 1 .. n
  BY <1>1, <1>3, <1>5
<1>7. NoRepeats(s)
  BY <1>1, <1>4, <1>6 DEF NoRepeats, IsQueue
<1>8. Elements(s) = TasksOf(q)
  <2>1. ASSUME NEW t \in Elements(s) PROVE t \in TasksOf(q)
    BY <1>4, <1>6, <2>1 DEF Elements, TasksOf
  <2>2. ASSUME NEW t \in TasksOf(q) PROVE t \in Elements(s)
    <3>1. PICK e \in q : t = e.t
      BY <2>2 DEF TasksOf
    <3>2. PICK i \in 1 .. n : a[i] = e
      BY <1>1
    <3> QED BY <1>4, <1>6, <3>1, <3>2 DEF Elements
  <2> QED BY <2>1, <2>2
<1> QED BY <1>2, <1>6, <1>7, <1>8

\* A node keeps the tasks it has that its sequence names.
LEMMA OrderedAre ==
  ASSUME policy # "blind", NEW held \in Seq(Tids), NEW o \in Seq(Tids), NoRepeats(o)
  PROVE  /\ Ordered(held, o) \in Seq(Tids)
         /\ Elements(Ordered(held, o)) = Elements(held) \cap Elements(o)
         /\ Len(Ordered(held, o)) <= Len(held)
<1> DEFINE kept == {i \in DOMAIN o : o[i] \in Elements(held)}
           R == {p \in kept \X kept : p[1] < p[2]}
           n == Cardinality(kept)
           a == Arranged(kept, R)
           s == [k \in DOMAIN a |-> o[a[k]]]
<1>1. DOMAIN o = 1 .. Len(o) /\ Len(o) \in Nat
  OBVIOUS
<1>2. kept \in SUBSET (1 .. Len(o)) /\ kept \in SUBSET Nat
  BY <1>1
<1>3. \A i \in kept : o[i] \in Elements(held) /\ o[i] \in Tids /\ i \in DOMAIN o
  BY <1>1
<1>4. Ordered(held, o) = s
  BY DEF Ordered
<1>5. \A i \in DOMAIN o : o[i] \in Elements(held) => i \in kept
  OBVIOUS
<1> HIDE DEF kept
<1>6. IsFiniteSet(kept)
  BY <1>1, <1>2, FirstNumbers, FS_Subset
<1>7. IsStrictOrder(R, kept)
  BY <1>2 DEF IsStrictOrder
<1> HIDE DEF R
<1>8. /\ n \in Nat /\ a \in [1 .. n -> kept] /\ \A x \in kept : \E i \in 1 .. n : a[i] = x
  BY <1>6, <1>7, ArrangedIsOneToOne
<1> HIDE DEF a
<1>9. s = [k \in 1 .. n |-> o[a[k]]]
  BY <1>8
<1>10. n <= Len(held)
  <2> DEFINE f == [i \in kept |-> o[i]]
  <2>1. f \in [kept -> Elements(held)] /\ \A x, y \in kept : f[x] = f[y] => x = y
    BY <1>3 DEF NoRepeats
  <2> HIDE DEF f
  <2>2. IsFiniteSet(Elements(held)) /\ Cardinality(Elements(held)) \in Nat
        /\ Cardinality(Elements(held)) <= Len(held)
    BY ElementsFinite
  <2>3. n <= Cardinality(Elements(held))
    BY <2>1, <2>2, NoLarger
  <2> HIDE DEF n
  <2>4. Len(held) \in Nat
    OBVIOUS
  <2> QED BY <1>8, <2>2, <2>3, <2>4
<1> HIDE DEF n, s
<1>11. \A k \in 1 .. n : a[k] \in kept /\ s[k] = o[a[k]]
  BY <1>8, <1>9
<1>12. s \in Seq(Tids) /\ DOMAIN s = 1 .. n /\ Len(s) = n
  <2>1. \A k \in 1 .. n : s[k] \in Tids
    BY <1>3, <1>11
  <2> QED BY <1>8, <1>9, <2>1
<1>13. Elements(s) = Elements(held) \cap Elements(o)
  <2>1. ASSUME NEW t \in Elements(s) PROVE t \in Elements(held) \cap Elements(o)
    <3>1. PICK k \in 1 .. n : t = s[k]
      BY <1>12, <2>1 DEF Elements
    <3>2. t = o[a[k]] /\ a[k] \in kept
      BY <1>11, <3>1
    <3> QED BY <1>3, <3>2 DEF Elements
  <2>2. ASSUME NEW t \in Elements(held) \cap Elements(o) PROVE t \in Elements(s)
    <3>1. PICK i \in DOMAIN o : t = o[i]
      BY <2>2 DEF Elements
    <3>2. i \in kept
      BY <1>5, <2>2, <3>1
    <3>3. PICK k \in 1 .. n : a[k] = i
      BY <1>8, <3>2
    <3> QED BY <1>11, <1>12, <3>1, <3>3 DEF Elements
  <2> QED BY <2>1, <2>2
<1> QED BY <1>4, <1>10, <1>12, <1>13

LEMMA DeadlineTyped ==
  ASSUME NEW a \in Apps, NEW release \in Nat, NEW slowness \in Nat
  PROVE  DeadlineOf(a, release, slowness) \in Nat
<1>1. Length[a] \in Nat /\ Due[a] \in Nat
  BY CentralAssumption DEF CentralAssumption
<1> DEFINE x == Length[a]
<1>2. x \in Nat
  BY <1>1
<1> HIDE DEF x
<1>3. slowness * x \in Nat
  BY <1>2
<1>4. release + slowness * x \in Nat
  BY <1>3
<1> QED BY <1>1, <1>4 DEF DeadlineOf, x

\* A queue that gets k tasks of a new application has as many more.
LEMMA ExtendedIs ==
  ASSUME NEW m, IsQueue(queues[m]), NEW a \in Apps, \A e \in queues[m] : e.t[1] # a, arrived \in Nat,
         NEW first \in Nat, NEW k \in Nat, NEW slowness \in Nat
  PROVE  LET q == Extended(m, a, first, k, slowness) IN
         /\ IsQueue(q) /\ Cardinality(q) = Cardinality(queues[m]) + k
         /\ TasksOf(q) = TasksOf(queues[m]) \cup {<<a, i>> : i \in first .. first + k - 1}
<1> DEFINE D(e) == DeadlineOf(e.t[1], e.release, slowness)
           q == Extended(m, a, first, k, slowness)
           old == IF policy = "FSP" THEN {[e EXCEPT !.deadline = D(e)] : e \in queues[m]}
                  ELSE queues[m]
           E(i) == [t |-> <<a, i>>, release |-> arrived, deadline |-> DeadlineOf(a, arrived, slowness)]
           ids == first .. first + k - 1
           new == {E(i) : i \in ids}
<1>1. q = old \cup new
  BY DEF Extended
<1>2. queues[m] \in SUBSET Entries /\ IsFiniteSet(queues[m])
      /\ \A e, f \in queues[m] : e.t = f.t => e = f
  BY DEF IsQueue
<1>3. \A e \in queues[m] : e \in Entries /\ D(e) \in Nat
  <2> SUFFICES ASSUME NEW e \in queues[m] PROVE e \in Entries /\ D(e) \in Nat
    OBVIOUS
  <2>1. e \in Entries /\ e.t[1] \in Apps /\ e.release \in Nat
    BY <1>2, EntryTyped, TidTyped
  <2> QED BY <2>1, DeadlineTyped
<1>4. /\ old \in SUBSET Entries /\ IsFiniteSet(old) /\ Cardinality(old) = Cardinality(queues[m])
      /\ \A e, f \in old : e.t = f.t => e = f
      /\ TasksOf(old) = TasksOf(queues[m])
  <2>1. CASE policy # "FSP"
    BY <1>2, <2>1
  <2>2. CASE policy = "FSP"
    <3> DEFINE F == [e \in queues[m] |-> [e EXCEPT !.deadline = D(e)]]
    <3>1. \A e \in queues[m] : F[e] \in Entries /\ F[e].t = e.t
      <4> SUFFICES ASSUME NEW e \in queues[m] PROVE F[e] \in Entries /\ F[e].t = e.t
        OBVIOUS
      <4>1. F[e] = [e EXCEPT !.deadline = D(e)] /\ e \in Entries /\ D(e) \in Nat
        BY <1>3
      <4> HIDE DEF F, D
      <4> QED BY <4>1 DEF Entries
    <3>2. old = {F[e] : e \in queues[m]}
      BY <2>2
    <3>3. F \in [queues[m] -> old]
      BY <2>2
    <3> HIDE DEF F, old
    <3>4. \A e, f \in queues[m] : F[e] = F[f] => e = f
      BY <1>2, <3>1
    <3>5. \A z \in old : \E e \in queues[m] : F[e] = z
      BY <3>2
    <3>6. IsFiniteSet(old) /\ Cardinality(old) = Cardinality(queues[m])
      BY <1>2, <3>3, <3>4, <3>5, SameSize
    <3>7. old \in SUBSET Entries
      BY <3>1, <3>2
    <3>8. \A e, f \in old : e.t = f.t => e = f
      BY <1>2, <3>1, <3>2
    <3>9. TasksOf(old) = TasksOf(queues[m])
      BY <3>1, <3>2 DEF TasksOf
    <3> QED BY <3>6, <3>7, <3>8, <3>9
  <2> QED BY <2>1, <2>2
<1> HIDE DEF old
<1>5. ids \in SUBSET Nat /\ IsFiniteSet(ids) /\ Cardinality(ids) = k
  BY FS_Interval
<1> HIDE DEF ids
<1>6. \A i \in ids : E(i) \in Entries /\ E(i).t = <<a, i>>
  <2>1. DeadlineOf(a, arrived, slowness) \in Nat
    BY DeadlineTyped
  <2> QED BY <2>1, <1>5 DEF Entries, Tids
<1> DEFINE G == [i \in ids |-> E(i)]
<1>7. G \in [ids -> new] /\ \A z \in new : \E i \in ids : G[i] = z
  OBVIOUS
<1>8. \A i, j \in ids : G[i] = G[j] => i = j
  OBVIOUS
<1>9. \A i \in ids : G[i] \in Entries /\ G[i].t = <<a, i>>
  BY <1>6
<1>10. new = {G[i] : i \in ids}
  OBVIOUS
<1> HIDE DEF G, new
<1>11. IsFiniteSet(new) /\ Cardinality(new) = k
  <2>1. IsFiniteSet(new) /\ Cardinality(new) = Cardinality(ids)
    BY <1>5, <1>7, <1>8, SameSize
  <2> QED BY <1>5, <2>1
<1>12. \A e \in new : \E i \in ids : e = G[i] /\ e \in Entries /\ e.t = <<a, i>>
  BY <1>9, <1>10
<1>13. \A e \in old : e.t[1] # a
  <2> SUFFICES ASSUME NEW e \in old PROVE e.t[1] # a
    OBVIOUS
  <2>1. e.t \in TasksOf(queues[m])
    BY <1>4 DEF TasksOf
  <2> QED BY <2>1 DEF TasksOf
<1>14. old \cap new = {}
  BY <1>12, <1>13
<1> HIDE DEF q
<1>15. IsFiniteSet(q) /\ Cardinality(q) = Cardinality(queues[m]) + k
  <2>1. IsFiniteSet(old \cup new) /\ Cardinality(old \cup new) = Cardinality(old) + Cardinality(new)
    BY <1>4, <1>11, <1>14, SizesAdd
  <2> QED BY <1>1, <1>4, <1>11, <2>1
<1>16. q \in SUBSET Entries
  BY <1>1, <1>4, <1>12
<1>17. \A e, f \in q : e.t = f.t => e = f
  BY <1>1, <1>4, <1>12, <1>13
<1>18. TasksOf(new) = {<<a, i>> : i \in ids}
  BY <1>9, <1>10 DEF TasksOf
<1>19. TasksOf(q) = TasksOf(queues[m]) \cup {<<a, i>> : i \in ids}
  BY <1>1, <1>4, <1>18 DEF TasksOf
<1> QED BY <1>15, <1>16, <1>17, <1>19 DEF IsQueue, ids, q

-----------------------------------------------------------------------------
(* The invariant.                                                          *)

Orders(n) == {m \in net : m.type = "reschedule" /\ m.node = n}

\* The application that a message brings tasks of.
App(m) == m.new[1][1]

\* A node has no tasks that its sequence does not name.
StateInv ==
  /\ arrived \in 0 .. Len(NumTasks) /\ sequence \in Nat /\ done \in SUBSET Tids
  /\ queues \in [Nodes -> SUBSET Entries] /\ seq \in [Nodes -> Nat]
  /\ tasks \in [Nodes -> Seq(Tids)] /\ order \in [Nodes -> Seq(Tids)]
  /\ \A t \in done : t[1] <= arrived
  /\ \A n \in Nodes :
       /\ IsQueue(queues[n]) /\ \A e \in queues[n] : e.t[1] <= arrived
       /\ seq[n] < sequence /\ NoRepeats(order[n])
       /\ Elements(tasks[n]) \subseteq Elements(order[n])
       /\ \A t \in Elements(tasks[n]) : t[1] <= arrived

IsOrder(m) ==
  /\ m.new \in Seq(Tids) /\ m.new # <<>> /\ NoRepeats(m.new)
  /\ \A t \in Elements(m.new) : t[1] = App(m)
  /\ App(m) \in Nat /\ App(m) <= arrived /\ m.seq \in Nat /\ m.seq < sequence
  /\ m.order \in Seq(Tids) /\ NoRepeats(m.order)
  /\ Elements(m.new) \subseteq Elements(m.order)

MessagesInv ==
  \A m \in net :
    /\ m.node \in Nodes
    /\ \/ m.type = "finished" /\ m = FinishedMsg(m.node, m.task)
       \/ m.type = "reschedule" /\ IsOrder(m)

\* The messages to a node are numbered as the applications came.
SeqInv ==
  \A n \in Nodes : \A m, p \in Orders(n) :
    /\ App(m) = App(p) => m = p
    /\ App(m) < App(p) => m.seq < p.seq

\* What comes of the last application is newer than what the node has; once it
\* has come, nothing else is.
LastInv ==
  \A n \in Nodes :
    /\ \A m \in Orders(n) : App(m) = arrived => seq[n] < m.seq
    /\ (\E t \in Elements(tasks[n]) : t[1] = arrived) => \A m \in Orders(n) : m.seq <= seq[n]

CountInv ==
  \A n \in Nodes :
    /\ IsFiniteSet(Coming(n)) /\ IsFiniteSet(Told(n))
    /\ Cardinality(Coming(n)) + Len(tasks[n]) + Cardinality(Told(n)) <= Cardinality(queues[n])

\* IBP sends a task only to a node that has none, so that nothing is overtaken.
IBPInv ==
  policy = "IBP" =>
    \A n \in Nodes :
      /\ Cardinality(queues[n]) <= 1
      /\ TasksOf(queues[n]) = Coming(n) \cup Elements(tasks[n]) \cup Told(n)
      /\ \A m \in Orders(n) : seq[n] < m.seq

Good == StateInv /\ MessagesInv /\ SeqInv /\ LastInv /\ CountInv /\ IBPInv

\* What there is of the last application.
OfLast == {t \in (UNION {Coming(n) \cup Elements(tasks[n]) : n \in Nodes}) \cup done : t[1] = arrived}

IInv ==
  /\ policy \in Policies
  /\ policy # "blind" => Good /\ HolesSuffice

LEMMA OrdersTyped ==
  ASSUME MessagesInv, NEW n \in Nodes, NEW m \in Orders(n)
  PROVE  m \in net /\ m.node = n /\ m.type = "reschedule" /\ IsOrder(m)
BY DEF MessagesInv, Orders

LEMMA ComingIs ==
  ASSUME NEW n
  PROVE  \A t : t \in Coming(n) <=> \E m \in Orders(n) : t \in Elements(m.new)
BY DEF Coming, Orders

LEMMA ToldIs ==
  ASSUME NEW n
  PROVE  \A t : t \in Told(n) <=> \E m \in net : m.type = "finished" /\ m.node = n /\ m.task = t
BY DEF Told

\* A message brings a task at least, and each of its application.
LEMMA OrderElements ==
  ASSUME NEW m, IsOrder(m)
  PROVE  /\ App(m) \in Nat /\ Elements(m.new) # {} /\ IsFiniteSet(Elements(m.new))
         /\ Elements(m.new) \subseteq Tids /\ Cardinality(Elements(m.new)) = Len(m.new)
         /\ \A t \in Elements(m.new) : t[1] = App(m)
<1> DEFINE s == m.new
           k == Len(s)
<1>1. s \in Seq(Tids) /\ s # <<>> /\ NoRepeats(s)
  BY DEF IsOrder
<1> HIDE DEF s
<1>2. k \in Nat /\ DOMAIN s = 1 .. k /\ 1 \in DOMAIN s
  BY <1>1
<1> HIDE DEF k
<1>3. IsFiniteSet(Elements(s)) /\ Elements(s) \subseteq Tids
  BY <1>1, ElementsFinite
<1>4. Cardinality(Elements(s)) = k
  <2> DEFINE D == 1 .. k
             f == [i \in D |-> s[i]]
  <2>1. IsFiniteSet(D) /\ Cardinality(D) = k
    BY <1>2, FirstNumbers
  <2>2. f \in [D -> Elements(s)] /\ \A i, j \in D : f[i] = f[j] => i = j
    BY <1>1, <1>2 DEF Elements, NoRepeats
  <2>3. \A z \in Elements(s) : \E i \in D : f[i] = z
    BY <1>2 DEF Elements
  <2> HIDE DEF D, f
  <2>4. Cardinality(Elements(s)) = Cardinality(D)
    BY <2>1, <2>2, <2>3, SameSize
  <2> QED BY <2>1, <2>4
<1>5. Elements(s) # {}
  BY <1>2 DEF Elements
<1> QED BY <1>3, <1>4, <1>5 DEF s, k, IsOrder

LEMMA ElementsOfBoth ==
  ASSUME NEW T, NEW s \in Seq(T), NEW u \in Seq(T)
  PROVE  /\ s \o u \in Seq(T) /\ Len(s \o u) = Len(s) + Len(u)
         /\ Elements(s \o u) = Elements(s) \cup Elements(u)
<1>1. /\ s \o u \in Seq(T) /\ Len(s \o u) = Len(s) + Len(u) /\ Len(s) \in Nat /\ Len(u) \in Nat
      /\ DOMAIN s = 1 .. Len(s) /\ DOMAIN u = 1 .. Len(u)
      /\ DOMAIN (s \o u) = 1 .. Len(s) + Len(u)
      /\ \A i \in 1 .. Len(s) : (s \o u)[i] = s[i]
      /\ \A i \in 1 .. Len(u) : (s \o u)[Len(s) + i] = u[i]
  OBVIOUS
<1> DEFINE c == s \o u
<1> HIDE DEF c
<1>2. \A i \in DOMAIN c : \/ i \in DOMAIN s /\ c[i] = s[i]
                          \/ i - Len(s) \in DOMAIN u /\ c[i] = u[i - Len(s)]
  <2> SUFFICES ASSUME NEW i \in DOMAIN c
               PROVE \/ i \in DOMAIN s /\ c[i] = s[i]
                     \/ i - Len(s) \in DOMAIN u /\ c[i] = u[i - Len(s)]
    OBVIOUS
  <2>1. i \in 1 .. Len(s) + Len(u)
    BY <1>1 DEF c
  <2>2. CASE i <= Len(s)
    BY <1>1, <2>1, <2>2 DEF c
  <2>3. CASE ~(i <= Len(s))
    <3>1. i - Len(s) \in 1 .. Len(u) /\ i = Len(s) + (i - Len(s))
      BY <1>1, <2>1, <2>3
    <3> QED BY <1>1, <3>1 DEF c
  <2> QED BY <2>2, <2>3
<1>3. \A i \in DOMAIN s : i \in DOMAIN c /\ c[i] = s[i]
  BY <1>1 DEF c
<1>4. \A i \in DOMAIN u : Len(s) + i \in DOMAIN c /\ c[Len(s) + i] = u[i]
  BY <1>1 DEF c
<1>5. Elements(c) = Elements(s) \cup Elements(u)
  BY <1>2, <1>3, <1>4 DEF Elements
<1> QED BY <1>1, <1>5 DEF c

\* The first task and the others.
LEMMA ElementsOfHeadTail ==
  ASSUME NEW T, NEW s \in Seq(T), s # <<>>
  PROVE  /\ Tail(s) \in Seq(T) /\ Len(Tail(s)) = Len(s) - 1 /\ Head(s) \in T
         /\ Elements(s) = {Head(s)} \cup Elements(Tail(s))
<1>1. /\ Len(s) \in Nat /\ DOMAIN s = 1 .. Len(s) /\ Tail(s) \in Seq(T) /\ Len(Tail(s)) = Len(s) - 1
      /\ Head(s) = s[1] /\ 1 \in DOMAIN s /\ s[1] \in T
      /\ DOMAIN Tail(s) = 1 .. Len(s) - 1
      /\ \A i \in 1 .. Len(s) - 1 : Tail(s)[i] = s[i + 1]
  OBVIOUS
<1> DEFINE u == Tail(s)
<1> HIDE DEF u
<1>2. \A i \in DOMAIN s : i = 1 \/ (i - 1 \in DOMAIN u /\ s[i] = u[i - 1])
  <2> SUFFICES ASSUME NEW i \in DOMAIN s, i # 1 PROVE i - 1 \in DOMAIN u /\ s[i] = u[i - 1]
    OBVIOUS
  <2>1. i - 1 \in 1 .. Len(s) - 1 /\ (i - 1) + 1 = i
    BY <1>1
  <2> QED BY <1>1, <2>1 DEF u
<1>3. \A i \in DOMAIN u : i + 1 \in DOMAIN s /\ s[i + 1] = u[i]
  BY <1>1 DEF u
<1>4. Elements(s) = {s[1]} \cup Elements(u)
  BY <1>1, <1>2, <1>3 DEF Elements
<1> QED BY <1>1, <1>4 DEF u

-----------------------------------------------------------------------------
(* The messages of finished tasks.                                         *)

LEMMA CountsTyped ==
  ASSUME StateInv, CountInv, NEW n \in Nodes
  PROVE  /\ Cardinality(Coming(n)) \in Nat /\ Cardinality(Told(n)) \in Nat /\ Len(tasks[n]) \in Nat
         /\ IsQueue(queues[n]) /\ Cardinality(queues[n]) \in Nat /\ tasks[n] \in Seq(Tids)
<1>1. IsFiniteSet(Coming(n)) /\ IsFiniteSet(Told(n)) /\ IsQueue(queues[n]) /\ tasks[n] \in Seq(Tids)
  BY DEF StateInv, CountInv
<1> QED BY <1>1, FS_CardinalityType DEF IsQueue

\* Part of a queue is a queue.
LEMMA SmallerQueue ==
  ASSUME NEW q, IsQueue(q), NEW e
  PROVE  /\ IsQueue(q \ {e}) /\ Cardinality(q \ {e}) >= Cardinality(q) - 1
         /\ Cardinality(q \ {e}) <= Cardinality(q) /\ Cardinality(q \ {e}) \in Nat
<1>1. /\ IsFiniteSet(q \ {e})
      /\ Cardinality(q \ {e}) = IF e \in q THEN Cardinality(q) - 1 ELSE Cardinality(q)
  BY FS_RemoveElement DEF IsQueue
<1>2. Cardinality(q) \in Nat /\ Cardinality(q \ {e}) \in Nat
  BY <1>1, FS_CardinalityType DEF IsQueue
<1>3. IsQueue(q \ {e})
  BY <1>1 DEF IsQueue
<1> QED BY <1>1, <1>2, <1>3

LEMMA TaskFinishedStep ==
  ASSUME Good, NEW m \in net, TaskFinished(m)
  PROVE  Good' /\ OfLast' = OfLast
<1> DEFINE n == m.node
<1>1. n \in Nodes /\ m = FinishedMsg(n, m.task) /\ m.type = "finished"
  BY DEF Good, MessagesInv, TaskFinished
<1>2. /\ net' = net \ {m}
      /\ UNCHANGED <<policy, sequence, arrived, tasks, seq, order, done, peak>>
  BY DEF TaskFinished
<1>3. \A p \in Nodes : Orders(p)' = Orders(p)
  BY <1>1, <1>2 DEF Orders
<1>4. \A p \in Nodes : Coming(p)' = Coming(p)
  BY <1>1, <1>2 DEF Coming
<1>5. m.task \in Told(n) /\ Told(n)' = Told(n) \ {m.task}
  <2>1. m.task \in Told(n)
    BY <1>1, ToldIs
  <2>2. ASSUME NEW t \in Told(n)' PROVE t \in Told(n) \ {m.task}
    <3>1. PICK p \in net' : p.type = "finished" /\ p.node = n /\ p.task = t
      BY <2>2 DEF Told
    <3>2. p \in net /\ p # m
      BY <1>2, <3>1
    <3>3. p = FinishedMsg(n, t)
      BY <3>1, <3>2 DEF Good, MessagesInv
    <3> QED BY <1>1, <3>1, <3>2, <3>3, ToldIs
  <2>3. ASSUME NEW t \in Told(n) \ {m.task} PROVE t \in Told(n)'
    <3>1. PICK p \in net : p.type = "finished" /\ p.node = n /\ p.task = t
      BY <2>3, ToldIs
    <3>2. p \in net'
      BY <1>2, <2>3, <3>1
    <3> QED BY <3>1, <3>2 DEF Told
  <2> QED BY <2>1, <2>2, <2>3
<1>6. \A p \in Nodes : p # n => Told(p)' = Told(p)
  BY <1>1, <1>2 DEF Told
<1>7. \A p \in Nodes : /\ Cardinality(Coming(p)) \in Nat /\ Cardinality(Told(p)) \in Nat
                       /\ Len(tasks[p]) \in Nat /\ Cardinality(queues[p]) \in Nat
  BY CountsTyped DEF Good
<1>8. /\ IsFiniteSet(Told(n)') /\ Cardinality(Told(n)') = Cardinality(Told(n)) - 1
      /\ Cardinality(Told(n)) > 0
  <2>1. IsFiniteSet(Told(n))
    BY <1>1 DEF Good, CountInv
  <2>2. /\ IsFiniteSet(Told(n) \ {m.task})
        /\ Cardinality(Told(n) \ {m.task}) = Cardinality(Told(n)) - 1
    BY <1>5, <2>1, FS_RemoveElement
  <2>3. Cardinality(Told(n)) # 0
    BY <1>5, <2>1, FS_EmptySet
  <2> QED BY <1>1, <1>5, <1>7, <2>2, <2>3
<1>9. queues[n] # {}
  <2>1. Cardinality(queues[n]) > 0
    BY <1>1, <1>7, <1>8 DEF Good, CountInv
  <2> QED BY <2>1, FS_EmptySet
<1>10. queues' = [queues EXCEPT ![n] = queues[n] \ {First(queues[n])}]
  BY <1>9 DEF TaskFinished
<1> DEFINE e == First(queues[n])
           q == queues[n] \ {e}
<1>11. /\ IsQueue(q) /\ Cardinality(q) >= Cardinality(queues[n]) - 1 /\ q \in SUBSET Entries
       /\ Cardinality(q) <= Cardinality(queues[n]) /\ Cardinality(q) \in Nat
  <2>1. IsQueue(queues[n])
    BY <1>1 DEF Good, StateInv
  <2> HIDE DEF e, n
  <2>2. /\ IsQueue(q) /\ Cardinality(q) >= Cardinality(queues[n]) - 1
        /\ Cardinality(q) <= Cardinality(queues[n]) /\ Cardinality(q) \in Nat
    BY <2>1, SmallerQueue
  <2> QED BY <2>2 DEF IsQueue
<1>12. q \subseteq queues[n]
  OBVIOUS
<1> HIDE DEF n, e
<1>13. queues' \in [Nodes -> SUBSET Entries]
       /\ \A p \in Nodes : queues'[p] = IF p = n THEN q ELSE queues[p]
  <2> HIDE DEF q
  <2>1. queues \in [Nodes -> SUBSET Entries]
    BY DEF Good, StateInv
  <2> QED BY <1>10, <1>11, <2>1 DEF q, e
<1> HIDE DEF q
<1>14. StateInv'
  BY <1>1, <1>2, <1>11, <1>12, <1>13 DEF Good, StateInv
<1>15. MessagesInv'
  BY <1>2 DEF Good, MessagesInv, IsOrder, App
<1>16. SeqInv'
  BY <1>3 DEF Good, SeqInv, App
<1>17. LastInv'
  BY <1>2, <1>3 DEF Good, LastInv, App
<1>18. CountInv'
  <2> SUFFICES ASSUME NEW p \in Nodes
               PROVE /\ IsFiniteSet(Coming(p)') /\ IsFiniteSet(Told(p)')
                     /\ Cardinality(Coming(p)') + Len(tasks'[p]) + Cardinality(Told(p)')
                          <= Cardinality(queues'[p])
    BY DEF CountInv
  <2>1. /\ IsFiniteSet(Coming(p)) /\ IsFiniteSet(Told(p))
        /\ Cardinality(Coming(p)) + Len(tasks[p]) + Cardinality(Told(p)) <= Cardinality(queues[p])
    BY DEF Good, CountInv
  <2>2. Coming(p)' = Coming(p) /\ tasks'[p] = tasks[p]
    BY <1>2, <1>4
  <2>3. CASE p # n
    BY <2>1, <2>2, <2>3, <1>6, <1>13
  <2>4. CASE p = n
    BY <2>1, <2>2, <2>4, <1>1, <1>7, <1>8, <1>11, <1>13
  <2> QED BY <2>3, <2>4
<1>19. IBPInv'
  <2> SUFFICES ASSUME policy = "IBP", NEW p \in Nodes
               PROVE /\ Cardinality(queues'[p]) <= 1
                     /\ TasksOf(queues'[p]) = Coming(p)' \cup Elements(tasks'[p]) \cup Told(p)'
                     /\ \A o \in Orders(p)' : seq'[p] < o.seq
    BY <1>2 DEF IBPInv
  <2>1. /\ Cardinality(queues[p]) <= 1
        /\ TasksOf(queues[p]) = Coming(p) \cup Elements(tasks[p]) \cup Told(p)
        /\ \A o \in Orders(p) : seq[p] < o.seq
    BY DEF Good, IBPInv
  <2>2. \A o \in Orders(p)' : seq'[p] < o.seq
    BY <1>2, <1>3, <2>1
  <2>3. CASE p # n
    BY <2>1, <2>2, <2>3, <1>2, <1>4, <1>6, <1>13
  <2>4. CASE p = n
    <3>1. Cardinality(queues'[p]) <= 1
      BY <1>1, <1>7, <1>11, <1>13, <2>1, <2>4
    <3>2. Cardinality(Coming(n)) = 0 /\ Len(tasks[n]) = 0 /\ Cardinality(Told(n)) = 1
          /\ Cardinality(queues[n]) = 1
      <4>1. Cardinality(Coming(n)) + Len(tasks[n]) + Cardinality(Told(n)) <= Cardinality(queues[n])
        BY <1>1 DEF Good, CountInv
      <4> QED BY <1>1, <1>7, <1>8, <2>1, <2>4, <4>1
    <3>3. Coming(n) = {} /\ Elements(tasks[n]) = {} /\ Told(n)' = {}
      <4>1. IsFiniteSet(Coming(n)) /\ tasks[n] \in Seq(Tids)
        BY <1>1 DEF Good, CountInv, StateInv
      <4>2. Cardinality(Told(n)') = 0
        BY <1>8, <3>2
      <4>3. DOMAIN tasks[n] = {}
        BY <3>2, <4>1
      <4> QED BY <1>8, <3>2, <4>1, <4>2, <4>3, FS_EmptySet DEF Elements
    <3>4. q = {}
      <4>1. PICK f : queues[n] = {f}
        <5>1. IsFiniteSet(queues[n])
          BY <1>1 DEF Good, StateInv, IsQueue
        <5> QED BY <3>2, <5>1, FS_Singleton
      <4>2. First(queues[n]) = f
        <5>1. First(queues[n]) = CHOOSE h \in {f} : \A g \in {f} \ {h} : Before(h, g)
          BY <4>1 DEF First
        <5>2. \A g \in {f} \ {f} : Before(f, g)
          OBVIOUS
        <5> QED BY <5>1, <5>2
      <4> QED BY <4>1, <4>2 DEF q, e
    <3>5. TasksOf(queues'[p]) = {}
      BY <1>1, <1>13, <2>4, <3>4 DEF TasksOf
    <3> QED BY <1>2, <1>4, <2>2, <2>4, <3>1, <3>3, <3>5
  <2> QED BY <2>3, <2>4
<1>20. OfLast' = OfLast
  BY <1>2, <1>4 DEF OfLast
<1> QED BY <1>14, <1>15, <1>16, <1>17, <1>18, <1>19, <1>20 DEF Good

-----------------------------------------------------------------------------
(* A task ends.                                                            *)

LEMMA TaskEndsStep ==
  ASSUME Good, policy # "blind", NEW n \in Nodes, TaskEnds(n)
  PROVE  Good' /\ OfLast' = OfLast
<1> DEFINE h == Head(tasks[n])
           u == Tail(tasks[n])
           f == FinishedMsg(n, h)
           v == Ordered(u, order[n])
<1>1. /\ net' = net \cup {f} /\ done' = done \cup {h} /\ tasks' = [tasks EXCEPT ![n] = v]
      /\ UNCHANGED <<policy, queues, sequence, arrived, seq, order, peak>>
  BY DEF TaskEnds
<1>2. f.type = "finished" /\ f.node = n /\ f.task = h /\ f = FinishedMsg(f.node, f.task)
  BY DEF FinishedMsg
<1>3. /\ tasks \in [Nodes -> Seq(Tids)] /\ tasks[n] \in Seq(Tids) /\ tasks[n] # <<>>
      /\ order[n] \in Seq(Tids) /\ NoRepeats(order[n])
      /\ Elements(tasks[n]) \subseteq Elements(order[n])
      /\ \A t \in Elements(tasks[n]) : t[1] <= arrived
  BY DEF Good, StateInv, TaskEnds
<1>4. /\ u \in Seq(Tids) /\ Len(u) = Len(tasks[n]) - 1 /\ h \in Tids
      /\ Elements(tasks[n]) = {h} \cup Elements(u)
  BY <1>3, ElementsOfHeadTail
<1> HIDE DEF u, h
<1>5. v \in Seq(Tids) /\ Elements(v) = Elements(u) /\ Len(v) <= Len(u)
  <2>1. /\ v \in Seq(Tids) /\ Elements(v) = Elements(u) \cap Elements(order[n])
        /\ Len(v) <= Len(u)
    BY <1>3, <1>4, OrderedAre
  <2> HIDE DEF v
  <2> QED BY <1>3, <1>4, <2>1
<1> HIDE DEF v, f
<1>6. /\ tasks' \in [Nodes -> Seq(Tids)]
      /\ \A p \in Nodes : tasks'[p] = IF p = n THEN v ELSE tasks[p]
  BY <1>1, <1>3, <1>5
<1>7. \A p \in Nodes : Orders(p)' = Orders(p)
  BY <1>1, <1>2 DEF Orders
<1>8. \A p \in Nodes : Coming(p)' = Coming(p)
  BY <1>1, <1>2 DEF Coming
<1>9. Told(n)' = Told(n) \cup {h}
  BY <1>1, <1>2 DEF Told
<1>10. \A p \in Nodes : p # n => Told(p)' = Told(p)
  BY <1>1, <1>2 DEF Told
<1>11. StateInv'
  <2>1. done' \in SUBSET Tids /\ \A t \in done' : t[1] <= arrived
    BY <1>1, <1>3, <1>4 DEF Good, StateInv
  <2>2. \A p \in Nodes : /\ Elements(tasks'[p]) \subseteq Elements(order[p])
                         /\ \A t \in Elements(tasks'[p]) : t[1] <= arrived
    BY <1>3, <1>4, <1>5, <1>6 DEF Good, StateInv
  <2> QED BY <1>1, <1>6, <2>1, <2>2 DEF Good, StateInv
<1>12. MessagesInv'
  <2>1. MessagesInv /\ n \in Nodes
    BY DEF Good
  <2> QED BY <1>1, <1>2, <2>1 DEF MessagesInv, IsOrder, App
<1>13. SeqInv'
  BY <1>7 DEF Good, SeqInv, App
<1>14. LastInv'
  <2>1. LastInv
    BY DEF Good
  <2>2. \A p \in Nodes : Elements(tasks'[p]) \subseteq Elements(tasks[p])
    BY <1>4, <1>5, <1>6
  <2> QED BY <1>1, <1>7, <2>1, <2>2 DEF LastInv, App
<1>15. CountInv'
  <2> SUFFICES ASSUME NEW p \in Nodes
               PROVE /\ IsFiniteSet(Coming(p)') /\ IsFiniteSet(Told(p)')
                     /\ Cardinality(Coming(p)') + Len(tasks'[p]) + Cardinality(Told(p)')
                          <= Cardinality(queues'[p])
    BY DEF CountInv
  <2>1. /\ IsFiniteSet(Coming(p)) /\ IsFiniteSet(Told(p))
        /\ Cardinality(Coming(p)) + Len(tasks[p]) + Cardinality(Told(p)) <= Cardinality(queues[p])
    BY DEF Good, CountInv
  <2>2. /\ Cardinality(Coming(p)) \in Nat /\ Cardinality(Told(p)) \in Nat
        /\ Len(tasks[p]) \in Nat /\ Cardinality(queues[p]) \in Nat
    BY CountsTyped DEF Good
  <2>3. CASE p # n
    BY <1>1, <1>6, <1>8, <1>10, <2>1, <2>3
  <2>4. CASE p = n
    <3>1. /\ IsFiniteSet(Told(n) \cup {h})
          /\ Cardinality(Told(n) \cup {h}) = IF h \in Told(n) THEN Cardinality(Told(n)) ELSE Cardinality(Told(n)) + 1
      BY <2>1, <2>4, FS_AddElement
    <3>2. Cardinality(Told(p)') <= Cardinality(Told(p)) + 1 /\ Cardinality(Told(p)') \in Nat
      <4>1. Cardinality(Told(n)) \in Nat
        BY <2>2, <2>4
      <4>2. Cardinality(Told(n)') <= Cardinality(Told(n)) + 1 /\ Cardinality(Told(n)') \in Nat
        BY <1>9, <3>1, <4>1
      <4> QED BY <2>4, <4>2
    <3>3. Len(tasks'[p]) <= Len(tasks[p]) - 1 /\ Len(tasks'[p]) \in Nat
      BY <1>4, <1>5, <1>6, <2>4
    <3>4. Coming(p)' = Coming(p) /\ queues'[p] = queues[p]
      BY <1>1, <1>8
    <3>5. Cardinality(Coming(p)') + Len(tasks'[p]) + Cardinality(Told(p)') <= Cardinality(queues'[p])
      <4> DEFINE c == Cardinality(Coming(p))
                 d == Cardinality(Coming(p)')
                 k == Len(tasks'[p])
                 l == Len(tasks[p])
                 g == Cardinality(Told(p))
                 w == Cardinality(Told(p)')
                 b == Cardinality(queues[p])
                 e == Cardinality(queues'[p])
      <4>1. /\ c \in Nat /\ k \in Nat /\ l \in Nat /\ g \in Nat /\ w \in Nat /\ b \in Nat
            /\ d = c /\ e = b /\ c + l + g <= b /\ w <= g + 1 /\ k <= l - 1
        BY <2>1, <2>2, <3>2, <3>3, <3>4
      <4> HIDE DEF c, d, k, l, g, w, b, e
      <4>2. d + k + w <= e
        BY <4>1
      <4> QED BY <4>2 DEF d, k, w, e
    <3> QED BY <1>9, <2>1, <2>4, <3>1, <3>4, <3>5
  <2> QED BY <2>3, <2>4
<1>16. IBPInv'
  <2>1. IBPInv
    BY DEF Good
  <2>2. \A p \in Nodes : Coming(p)' \cup Elements(tasks'[p]) \cup Told(p)' =
                         Coming(p) \cup Elements(tasks[p]) \cup Told(p)
    BY <1>4, <1>5, <1>6, <1>8, <1>9, <1>10
  <2> QED BY <1>1, <1>7, <2>1, <2>2 DEF IBPInv
<1>17. OfLast' = OfLast
  <2>1. ((UNION {Coming(p) \cup Elements(tasks[p]) : p \in Nodes}) \cup done)' =
        (UNION {Coming(p) \cup Elements(tasks[p]) : p \in Nodes}) \cup done
    <3>1. \A p \in Nodes : (Coming(p) \cup Elements(tasks[p]))' \cup (IF p = n THEN {h} ELSE {}) =
                           Coming(p) \cup Elements(tasks[p])
      BY <1>4, <1>5, <1>6, <1>8
    <3> QED BY <1>1, <3>1
  <2> QED BY <1>1, <2>1 DEF OfLast
<1> QED BY <1>11, <1>12, <1>13, <1>14, <1>15, <1>16, <1>17 DEF Good

-----------------------------------------------------------------------------
(* New tasks and their sequence come to a node.                            *)

LEMMA RescheduleStep ==
  ASSUME Good, policy # "blind", NEW m \in net, Reschedule(m)
  PROVE  Good' /\ OfLast' = OfLast
<1> DEFINE n == m.node
           u == m.new
           newer == m.seq > seq[n]
           o == IF newer THEN m.order ELSE order[n]
           held == tasks[n] \o u
           v == Ordered(held, o)
<1>1. /\ m.type = "reschedule" /\ net' = net \ {m}
      /\ seq' = IF newer THEN [seq EXCEPT ![n] = m.seq] ELSE seq
      /\ order' = [order EXCEPT ![n] = o] /\ tasks' = [tasks EXCEPT ![n] = v]
      /\ UNCHANGED <<policy, queues, sequence, arrived, done, peak>>
  BY DEF Reschedule
<1>2. n \in Nodes /\ IsOrder(m) /\ m \in Orders(n)
  BY <1>1 DEF Good, MessagesInv, Orders
<1>3. /\ u \in Seq(Tids) /\ u # <<>> /\ \A t \in Elements(u) : t[1] = App(m)
      /\ App(m) \in Nat /\ App(m) <= arrived /\ m.seq \in Nat /\ m.seq < sequence
      /\ m.order \in Seq(Tids) /\ NoRepeats(m.order) /\ Elements(u) \subseteq Elements(m.order)
  BY <1>2 DEF IsOrder
<1>4. /\ Elements(u) # {} /\ IsFiniteSet(Elements(u)) /\ Cardinality(Elements(u)) = Len(u)
      /\ Len(u) \in Nat /\ Len(u) > 0
  BY <1>2, <1>3, OrderElements
<1>5. /\ tasks \in [Nodes -> Seq(Tids)] /\ order \in [Nodes -> Seq(Tids)] /\ seq \in [Nodes -> Nat]
      /\ tasks[n] \in Seq(Tids) /\ order[n] \in Seq(Tids) /\ seq[n] \in Nat
      /\ NoRepeats(order[n]) /\ Elements(tasks[n]) \subseteq Elements(order[n])
      /\ sequence \in Nat /\ arrived \in Nat
      /\ \A t \in Elements(tasks[n]) : t[1] <= arrived
  BY <1>2 DEF Good, StateInv
<1>6. \A p \in Nodes : \A x \in Orders(p) :
        x.node = p /\ x \in net /\ App(x) \in Nat /\ App(x) <= arrived /\ x.seq \in Nat
        /\ \A t \in Elements(x.new) : t[1] = App(x)
  BY OrdersTyped DEF Good, IsOrder
<1> HIDE DEF n, u
<1>7. o \in Seq(Tids) /\ NoRepeats(o)
  BY <1>3, <1>5
<1>8. held \in Seq(Tids) /\ Len(held) = Len(tasks[n]) + Len(u)
      /\ Elements(held) = Elements(tasks[n]) \cup Elements(u)
  BY <1>3, <1>5, ElementsOfBoth
<1> HIDE DEF o, held
<1>9. v \in Seq(Tids) /\ Elements(v) = Elements(held) \cap Elements(o) /\ Len(v) <= Len(held)
  BY <1>7, <1>8, OrderedAre
<1> HIDE DEF v
<1>10. /\ order' \in [Nodes -> Seq(Tids)] /\ seq' \in [Nodes -> Nat] /\ tasks' \in [Nodes -> Seq(Tids)]
       /\ \A p \in Nodes : /\ order'[p] = IF p = n THEN o ELSE order[p]
                           /\ tasks'[p] = IF p = n THEN v ELSE tasks[p]
                           /\ seq'[p] = IF p = n /\ newer THEN m.seq ELSE seq[p]
  <2>1. order' \in [Nodes -> Seq(Tids)] /\ \A p \in Nodes : order'[p] = IF p = n THEN o ELSE order[p]
    BY <1>1, <1>5, <1>7
  <2>2. tasks' \in [Nodes -> Seq(Tids)] /\ \A p \in Nodes : tasks'[p] = IF p = n THEN v ELSE tasks[p]
    BY <1>1, <1>5, <1>9
  <2>3. seq' \in [Nodes -> Nat] /\ \A p \in Nodes : seq'[p] = IF p = n /\ newer THEN m.seq ELSE seq[p]
    BY <1>1, <1>3, <1>5
  <2> QED BY <2>1, <2>2, <2>3
<1>11. Orders(n)' = Orders(n) \ {m} /\ \A p \in Nodes : p # n => Orders(p)' = Orders(p)
  BY <1>1, <1>2, <1>6 DEF Orders
<1>12. \A p \in Nodes : Orders(p)' \subseteq Orders(p)
  BY <1>11
<1>13. \A p \in Nodes : Told(p)' = Told(p)
  BY <1>1 DEF Told
<1>14. \A p \in Nodes : p # n => Coming(p)' = Coming(p)
  BY <1>11 DEF Coming, Orders
<1>15. \A x \in Orders(n) : App(x) = App(m) => x = m
  BY <1>2 DEF Good, SeqInv
<1>16. Coming(n) = Coming(n)' \cup Elements(u) /\ Coming(n)' \cap Elements(u) = {}
  <2>1. \A t : t \in Coming(n)' <=> \E x \in Orders(n) \ {m} : t \in Elements(x.new)
    BY <1>11 DEF Coming, Orders
  <2>2. \A t : t \in Coming(n) <=> \E x \in Orders(n) : t \in Elements(x.new)
    BY ComingIs
  <2>3. Coming(n) = Coming(n)' \cup Elements(u)
    BY <1>2, <2>1, <2>2 DEF u
  <2>4. ASSUME NEW t \in Coming(n)', t \in Elements(u) PROVE FALSE
    <3>1. PICK x \in Orders(n) \ {m} : t \in Elements(x.new)
      BY <2>1
    <3>2. App(x) = App(m)
      BY <1>2, <1>3, <1>6, <2>4, <3>1
    <3> QED BY <1>15, <3>1, <3>2
  <2> QED BY <2>3, <2>4
<1>17. /\ Cardinality(Coming(n)) \in Nat /\ Cardinality(Told(n)) \in Nat /\ Len(tasks[n]) \in Nat
       /\ Cardinality(queues[n]) \in Nat /\ IsFiniteSet(Coming(n)) /\ IsFiniteSet(Told(n))
       /\ Cardinality(Coming(n)) + Len(tasks[n]) + Cardinality(Told(n)) <= Cardinality(queues[n])
  BY <1>2, CountsTyped DEF Good, CountInv
<1>18. /\ IsFiniteSet(Coming(n)') /\ Cardinality(Coming(n)') \in Nat
       /\ Cardinality(Coming(n)) = Cardinality(Coming(n)') + Len(u)
  <2> DEFINE A == Coming(n)'
  <2>1. A \in SUBSET Coming(n) /\ A \cap Elements(u) = {} /\ Coming(n) = A \cup Elements(u)
    BY <1>16
  <2> HIDE DEF A
  <2>2. IsFiniteSet(A) /\ Cardinality(A) \in Nat
    BY <1>17, <2>1, FS_Subset, FS_CardinalityType
  <2>3. Cardinality(A \cup Elements(u)) = Cardinality(A) + Cardinality(Elements(u))
    BY <1>4, <2>1, <2>2, SizesAdd
  <2> QED BY <1>4, <2>1, <2>2, <2>3 DEF A
\* The last application is ordered above the others.
<1>19. App(m) = arrived => newer
  BY <1>2, <1>3, <1>5 DEF Good, LastInv, n
<1>20. (\E t \in Elements(tasks[n]) : t[1] = arrived) => ~newer
  <2>1. (\E t \in Elements(tasks[n]) : t[1] = arrived) => m.seq <= seq[n]
    BY <1>2 DEF Good, LastInv
  <2> QED BY <1>3, <1>5, <2>1
<1>21. \A x \in Orders(n) : App(m) < App(x) => m.seq < x.seq
  BY <1>2 DEF Good, SeqInv
<1>22. \A x \in Orders(n) : App(x) < App(m) => x.seq < m.seq
  BY <1>2 DEF Good, SeqInv
<1>23. StateInv'
  <2>1. \A p \in Nodes : /\ Elements(tasks'[p]) \subseteq Elements(order'[p]) /\ NoRepeats(order'[p])
                         /\ \A t \in Elements(tasks'[p]) : t[1] <= arrived
    <3> SUFFICES ASSUME NEW p \in Nodes
                 PROVE /\ Elements(tasks'[p]) \subseteq Elements(order'[p]) /\ NoRepeats(order'[p])
                       /\ \A t \in Elements(tasks'[p]) : t[1] <= arrived
      OBVIOUS
    <3>1. CASE p = n
      BY <1>3, <1>5, <1>7, <1>8, <1>9, <1>10, <3>1
    <3>2. CASE p # n
      BY <1>10, <3>2 DEF Good, StateInv
    <3> QED BY <3>1, <3>2
  <2>2. \A p \in Nodes : seq'[p] < sequence
    BY <1>3, <1>10 DEF Good, StateInv
  <2> QED BY <1>1, <1>10, <2>1, <2>2 DEF Good, StateInv
<1>24. MessagesInv'
  BY <1>1 DEF Good, MessagesInv, IsOrder, App
<1>25. SeqInv'
  BY <1>12 DEF Good, SeqInv, App
<1>26. LastInv'
  <2> SUFFICES ASSUME NEW p \in Nodes, NEW x \in Orders(p)'
               PROVE  /\ App(x) = arrived => seq'[p] < x.seq
                      /\ (\E t \in Elements(tasks'[p]) : t[1] = arrived) => x.seq <= seq'[p]
    BY <1>1 DEF LastInv, App
  <2>1. x \in Orders(p)
    BY <1>12
  <2>2. /\ App(x) = arrived => seq[p] < x.seq
        /\ (\E t \in Elements(tasks[p]) : t[1] = arrived) => x.seq <= seq[p]
    BY <2>1 DEF Good, LastInv
  <2>3. CASE p # n
    BY <1>10, <2>2, <2>3
  <2>4. CASE p = n
    <3>1. x # m /\ App(x) # App(m) /\ App(x) \in Nat /\ App(x) <= arrived /\ x.seq \in Nat
      BY <1>6, <1>11, <1>15, <2>1, <2>4
    <3>2. ASSUME App(x) = arrived PROVE seq'[p] < x.seq
      <4>1. App(m) < App(x)
        BY <1>3, <1>5, <3>1, <3>2
      <4>2. m.seq < x.seq
        BY <1>21, <2>1, <2>4, <4>1
      <4> QED BY <1>10, <2>2, <2>4, <3>2, <4>2
    <3>3. ASSUME \E t \in Elements(tasks'[p]) : t[1] = arrived PROVE x.seq <= seq'[p]
      <4>1. PICK t \in Elements(tasks'[p]) : t[1] = arrived
        BY <3>3
      <4>2. t \in Elements(tasks[n]) \/ t \in Elements(u)
        BY <1>8, <1>9, <1>10, <2>4
      <4>3. CASE t \in Elements(tasks[n])
        BY <1>10, <1>20, <2>2, <2>4, <4>1, <4>3
      <4>4. CASE t \in Elements(u)
        <5>1. App(m) = arrived
          BY <1>3, <4>1, <4>4
        <5>2. App(x) < App(m)
          BY <1>3, <3>1, <5>1
        <5>3. x.seq < m.seq
          BY <1>22, <2>1, <2>4, <5>2
        <5>4. seq'[p] = m.seq
          BY <1>10, <1>19, <2>4, <5>1
        <5> QED BY <1>3, <3>1, <5>3, <5>4
      <4> QED BY <4>2, <4>3, <4>4
    <3> QED BY <3>2, <3>3
  <2> QED BY <2>3, <2>4
<1>27. CountInv'
  <2> SUFFICES ASSUME NEW p \in Nodes
               PROVE /\ IsFiniteSet(Coming(p)') /\ IsFiniteSet(Told(p)')
                     /\ Cardinality(Coming(p)') + Len(tasks'[p]) + Cardinality(Told(p)')
                          <= Cardinality(queues'[p])
    BY DEF CountInv
  <2>1. Told(p)' = Told(p) /\ queues'[p] = queues[p]
    BY <1>1, <1>13
  <2>2. CASE p # n
    BY <1>10, <1>14, <2>1, <2>2 DEF Good, CountInv
  <2>3. CASE p = n
    <3>1. Len(tasks'[n]) <= Len(tasks[n]) + Len(u) /\ Len(tasks'[n]) \in Nat
      BY <1>2, <1>8, <1>9, <1>10
    <3>2. Cardinality(Coming(n)') + Len(tasks'[n]) + Cardinality(Told(n)) <= Cardinality(queues[n])
      <4> DEFINE c == Cardinality(Coming(n))
                 d == Cardinality(Coming(n)')
                 k == Len(tasks'[n])
                 l == Len(tasks[n])
                 g == Cardinality(Told(n))
                 w == Len(u)
                 b == Cardinality(queues[n])
      <4>1. /\ c \in Nat /\ d \in Nat /\ k \in Nat /\ l \in Nat /\ g \in Nat /\ w \in Nat /\ b \in Nat
            /\ c + l + g <= b /\ c = d + w /\ k <= l + w
        BY <1>4, <1>17, <1>18, <3>1
      <4> HIDE DEF c, d, k, l, g, w, b
      <4>2. d + k + g <= b
        BY <4>1
      <4> QED BY <4>2 DEF d, k, g, b
    <3> QED BY <1>17, <1>18, <2>1, <2>3, <3>2
  <2> QED BY <2>2, <2>3
<1>28. IBPInv'
  <2> SUFFICES ASSUME policy = "IBP", NEW p \in Nodes
               PROVE /\ Cardinality(queues[p]) <= 1
                     /\ TasksOf(queues[p]) = Coming(p)' \cup Elements(tasks'[p]) \cup Told(p)'
                     /\ \A x \in Orders(p)' : seq'[p] < x.seq
    BY <1>1 DEF IBPInv
  <2>1. /\ Cardinality(queues[p]) <= 1
        /\ TasksOf(queues[p]) = Coming(p) \cup Elements(tasks[p]) \cup Told(p)
        /\ \A x \in Orders(p) : seq[p] < x.seq
    BY DEF Good, IBPInv
  <2>2. CASE p # n
    BY <1>10, <1>11, <1>13, <1>14, <2>1, <2>2
  <2>3. CASE p = n
    <3>1. newer
      BY <1>2, <1>3, <1>5, <2>1, <2>3
    <3>2. Cardinality(Coming(n)') = 0 /\ Len(tasks[n]) = 0
      BY <1>4, <1>17, <1>18, <2>1, <2>3
    <3>3. Coming(n)' = {}
      BY <1>18, <3>2, FS_EmptySet
    <3>4. Elements(tasks[n]) = {}
      <4>1. DOMAIN tasks[n] = {}
        BY <1>5, <3>2
      <4> QED BY <4>1 DEF Elements
    <3>5. Elements(tasks'[n]) = Elements(u)
      BY <1>2, <1>3, <1>8, <1>9, <1>10, <3>1, <3>4 DEF o
    <3>6. Orders(n)' = {}
      <4> SUFFICES ASSUME NEW x \in Orders(n)' PROVE FALSE
        OBVIOUS
      <4>1. x \in Orders(n) /\ x # m
        BY <1>11
      <4>2. IsOrder(x)
        BY <1>2, <4>1, OrdersTyped DEF Good
      <4>3. PICK t : t \in Elements(x.new)
        BY <4>2, OrderElements
      <4>4. t \in Coming(n)'
        BY <4>3 DEF Coming, Orders
      <4> QED BY <3>3, <4>4
    <3> QED BY <1>13, <1>16, <2>1, <2>3, <3>3, <3>4, <3>5, <3>6
  <2> QED BY <2>2, <2>3
<1>29. OfLast' = OfLast
  <2>1. \A p \in Nodes : \A t : t[1] = arrived =>
          (t \in Coming(p)' \cup Elements(tasks'[p]) <=> t \in Coming(p) \cup Elements(tasks[p]))
    <3> SUFFICES ASSUME NEW p \in Nodes, NEW t, t[1] = arrived
                 PROVE  t \in Coming(p)' \cup Elements(tasks'[p]) <=> t \in Coming(p) \cup Elements(tasks[p])
      OBVIOUS
    <3>1. CASE p # n
      BY <1>10, <1>14, <3>1
    <3>2. CASE p = n
      <4>1. ASSUME t \in Elements(u) PROVE t \in Elements(tasks'[n])
        <5>1. newer
          BY <1>3, <1>19, <4>1
        <5>2. t \in Elements(o)
          BY <1>3, <4>1, <5>1 DEF o
        <5> QED BY <1>2, <1>8, <1>9, <1>10, <4>1, <5>2
      <4>2. ASSUME t \in Elements(tasks[n]) PROVE t \in Elements(tasks'[n])
        <5>1. ~newer
          BY <1>20, <4>2
        <5>2. t \in Elements(o)
          BY <1>5, <4>2, <5>1 DEF o
        <5> QED BY <1>2, <1>8, <1>9, <1>10, <4>2, <5>2
      <4>3. ASSUME t \in Elements(tasks'[n]) PROVE t \in Elements(tasks[n]) \cup Elements(u)
        BY <1>2, <1>8, <1>9, <1>10, <4>3
      <4> QED BY <1>16, <3>2, <4>1, <4>2, <4>3
    <3> QED BY <3>1, <3>2
  <2>2. \A t : t[1] = arrived =>
          (t \in (UNION {Coming(p) \cup Elements(tasks[p]) : p \in Nodes})'
             <=> t \in UNION {Coming(p) \cup Elements(tasks[p]) : p \in Nodes})
    BY <2>1
  <2> QED BY <1>1, <2>2 DEF OfLast
<1> QED BY <1>23, <1>24, <1>25, <1>26, <1>27, <1>28, <1>29 DEF Good

-----------------------------------------------------------------------------
(* An application arrives: each node gets a part of its own of its tasks.  *)

LEMMA FirstForIs ==
  ASSUME NEW place \in [Nodes -> Nat], NEW m \in Nodes
  PROVE  /\ FirstFor(place, m) \in Nat \ {0}
         /\ \A p \in Nodes : m < p => FirstFor(place, m) + place[m] <= FirstFor(place, p)
<1>1. m \in Nat /\ m > 0 /\ NumNodes \in Nat
  BY NodesFinite DEF Nodes
<1>2. \A p \in Nodes : /\ p \in Nat /\ 1 .. p - 1 \in SUBSET Nodes /\ IsFiniteSet(1 .. p - 1)
                       /\ \A o \in 1 .. p - 1 : place[o] \in Nat
  <2> SUFFICES ASSUME NEW p \in Nodes
               PROVE /\ p \in Nat /\ 1 .. p - 1 \in SUBSET Nodes /\ IsFiniteSet(1 .. p - 1)
                     /\ \A o \in 1 .. p - 1 : place[o] \in Nat
    OBVIOUS
  <2>1. p \in Nat /\ 1 .. p - 1 \in SUBSET Nodes
    BY <1>1 DEF Nodes
  <2> QED BY <2>1, NodesFinite
<1> DEFINE C(p) == Cardinality(Slots(1 .. p - 1, place))
<1>3. \A p \in Nodes : C(p) \in Nat
  BY <1>2, SlotsFinite
<1>4. ASSUME NEW p \in Nodes, m < p PROVE C(m) + place[m] <= C(p)
  <2> DEFINE L == 1 .. m - 1
             U == 1 .. p - 1
  <2>1. L \cup {m} \in SUBSET U /\ m \notin L
    BY <1>1, <1>2, <1>4
  <2>2. IsFiniteSet(L) /\ IsFiniteSet(U) /\ place[m] \in Nat
        /\ (\A o \in L : place[o] \in Nat) /\ \A o \in U : place[o] \in Nat
    BY <1>2
  <2> HIDE DEF L, U
  <2>3. Cardinality(Slots(L \cup {m}, place)) = Cardinality(Slots(L, place)) + place[m]
    BY <2>1, <2>2, SlotsWithOne
  <2>4. Cardinality(Slots(L \cup {m}, place)) <= Cardinality(Slots(U, place))
    BY <2>1, <2>2, SlotsGrow
  <2> QED BY <2>3, <2>4 DEF L, U
<1>5. \A p \in Nodes : FirstFor(place, p) = 1 + C(p)
  BY DEF FirstFor
<1>6. place[m] \in Nat
  OBVIOUS
<1> HIDE DEF C
<1> QED BY <1>3, <1>4, <1>5, <1>6

LEMMA MessagesBeforeIs ==
  ASSUME NEW place \in [Nodes -> Nat], NEW m \in Nodes, place[m] > 0
  PROVE  /\ MessagesBefore(place, m) \in Nat
         /\ MessagesBefore(place, m) < Cardinality({o \in Nodes : place[o] > 0})
<1> DEFINE U == {o \in Nodes : place[o] > 0}
           B == {o \in 1 .. m - 1 : place[o] > 0}
<1>1. NumNodes \in Nat /\ m \in Nat /\ IsFiniteSet(U) /\ Cardinality(U) \in Nat
  BY NodesFinite DEF Nodes
<1>2. B \in SUBSET U /\ m \in U /\ m \notin B
  BY <1>1 DEF Nodes
<1>3. MessagesBefore(place, m) = Cardinality(B)
  BY DEF MessagesBefore
<1> HIDE DEF U, B
<1>4. /\ Cardinality(B) \in Nat /\ Cardinality(B) <= Cardinality(U)
      /\ Cardinality(B) # Cardinality(U)
  BY <1>1, <1>2, FS_Subset, FS_CardinalityType
<1> QED BY <1>1, <1>3, <1>4 DEF U

\* The tasks first .. first+k-1 of a, and a message with them.
Part(a, first, k) == {<<a, i>> : i \in first .. first + k - 1}

LEMMA PartIs ==
  ASSUME NEW a \in Apps, NEW first \in Nat, NEW k \in Nat
  PROVE  /\ IsFiniteSet(Part(a, first, k)) /\ Cardinality(Part(a, first, k)) = k
         /\ Part(a, first, k) \in SUBSET Tids
<1> DEFINE D == first .. first + k - 1
           f == [i \in D |-> <<a, i>>]
           T == Part(a, first, k)
<1>1. D \in SUBSET Nat /\ IsFiniteSet(D) /\ Cardinality(D) = k
  BY FS_Interval
<1>2. T = {<<a, i>> : i \in D}
  BY DEF Part
<1> HIDE DEF D, T
<1>3. f \in [D -> T] /\ (\A i, j \in D : f[i] = f[j] => i = j) /\ \A z \in T : \E i \in D : f[i] = z
  BY <1>2
<1> HIDE DEF f
<1>4. IsFiniteSet(T) /\ Cardinality(T) = Cardinality(D)
  BY <1>1, <1>3, SameSize
<1>5. T \in SUBSET Tids
  BY <1>1, <1>2 DEF Tids
<1> QED BY <1>1, <1>4, <1>5 DEF T

LEMMA NewMessageIs ==
  ASSUME NEW m, NEW a \in Apps, NEW first \in Nat, NEW k \in Nat \ {0}, NEW s, NEW sorted
  PROVE  LET c == RescheduleMsg(m, a, first, k, s, sorted) IN
         /\ c.type = "reschedule" /\ c.node = m /\ c.seq = s /\ c.order = sorted
         /\ App(c) = a /\ Elements(c.new) = Part(a, first, k)
         /\ c.new \in Seq(Tids) /\ c.new # <<>> /\ NoRepeats(c.new)
<1> DEFINE c == RescheduleMsg(m, a, first, k, s, sorted)
           u == [i \in 1 .. k |-> <<a, first + i - 1>>]
<1>1. c.type = "reschedule" /\ c.node = m /\ c.seq = s /\ c.order = sorted /\ c.new = u
  BY DEF RescheduleMsg
<1>2. \A i \in 1 .. k : u[i] = <<a, first + i - 1>> /\ u[i] \in Tids
  BY DEF Tids
<1>3. DOMAIN u = 1 .. k /\ u \in [1 .. k -> Tids] /\ 1 \in 1 .. k
  BY <1>2
<1> HIDE DEF u
<1>4. u \in Seq(Tids) /\ u # <<>>
  BY <1>3
<1>5. NoRepeats(u)
  BY <1>2, <1>3 DEF NoRepeats
<1>6. Elements(u) = Part(a, first, k)
  <2>1. ASSUME NEW t \in Elements(u) PROVE t \in Part(a, first, k)
    <3>1. PICK i \in 1 .. k : t = <<a, first + i - 1>>
      BY <1>2, <1>3, <2>1 DEF Elements
    <3>2. first + i - 1 \in first .. first + k - 1
      OBVIOUS
    <3> QED BY <3>1, <3>2 DEF Part
  <2>2. ASSUME NEW t \in Part(a, first, k) PROVE t \in Elements(u)
    <3>1. PICK i \in first .. first + k - 1 : t = <<a, i>>
      BY <2>2 DEF Part
    <3>2. i - first + 1 \in 1 .. k /\ first + (i - first + 1) - 1 = i
      OBVIOUS
    <3>3. u[i - first + 1] = <<a, i>>
      BY <1>2, <3>2
    <3> QED BY <1>3, <3>1, <3>2, <3>3 DEF Elements
  <2> QED BY <2>1, <2>2
<1>7. App(c) = a
  <2>1. u[1] = <<a, first + 1 - 1>>
    BY <1>2, <1>3
  <2> QED BY <1>1, <2>1 DEF App
<1> HIDE DEF c
<1> QED BY <1>1, <1>4, <1>5, <1>6, <1>7 DEF c

\* The parts of the nodes have nothing in common.
LEMMA PartsTogether ==
  ASSUME NEW place \in [Nodes -> Nat], NEW a \in Nat
  PROVE  Cardinality(UNION {Part(a, FirstFor(place, m), place[m]) : m \in Nodes}) = Total(place)
<1> DEFINE first(m) == FirstFor(place, m)
           N(m) == Part(a, first(m), place[m])
           S == Slots(Nodes, place)
           f == [s \in S |-> <<a, first(s[1]) + s[2] - 1>>]
           O == UNION {N(m) : m \in Nodes}
<1>1. \A m \in Nodes : place[m] \in Nat /\ first(m) \in Nat \ {0}
  BY FirstForIs
<1> HIDE DEF first
<1>2. \A s \in S : s[1] \in Nodes /\ s[2] \in 1 .. place[s[1]] /\ s = <<s[1], s[2]>>
  BY DEF Slots
<1>3. IsFiniteSet(S)
  BY NodesFinite, SlotsFinite
<1>4. \A s \in S : f[s] \in N(s[1])
  <2> SUFFICES ASSUME NEW s \in S PROVE f[s] \in N(s[1])
    OBVIOUS
  <2>1. f[s] = <<a, first(s[1]) + s[2] - 1>>
    OBVIOUS
  <2>2. first(s[1]) + s[2] - 1 \in first(s[1]) .. first(s[1]) + place[s[1]] - 1
    <3> HIDE DEF S
    <3> QED BY <1>1, <1>2
  <2> QED BY <2>1, <2>2 DEF Part
<1>5. \A x, y \in S : f[x] = f[y] => x = y
  <2> SUFFICES ASSUME NEW x \in S, NEW y \in S, f[x] = f[y] PROVE x = y
    OBVIOUS
  <2>1. first(x[1]) + x[2] - 1 = first(y[1]) + y[2] - 1
    OBVIOUS
  <2> HIDE DEF S, f
  <2> DEFINE m == x[1]
             n == y[1]
             i == x[2]
             j == y[2]
  <2>2. /\ m \in Nodes /\ n \in Nodes /\ i \in 1 .. place[m] /\ j \in 1 .. place[n]
        /\ x = <<m, i>> /\ y = <<n, j>> /\ first(m) + i - 1 = first(n) + j - 1
    BY <1>2, <2>1
  <2> HIDE DEF m, n, i, j
  <2>3. /\ first(m) \in Nat /\ first(n) \in Nat /\ place[m] \in Nat /\ place[n] \in Nat
        /\ m \in Nat /\ n \in Nat
    BY <1>1, <2>2, NodesFinite DEF Nodes
  <2>4. /\ m < n => first(m) + place[m] <= first(n)
        /\ n < m => first(n) + place[n] <= first(m)
    BY <2>2, FirstForIs DEF first
  <2>5. ~(m < n)
    <3> DEFINE b == first(m)
               c == first(n)
               k == place[m]
    <3>1. /\ b \in Nat /\ c \in Nat /\ k \in Nat /\ i \in 1 .. k /\ j \in Nat /\ j > 0
          /\ b + i - 1 = c + j - 1 /\ (m < n => b + k <= c)
      BY <2>2, <2>3, <2>4
    <3> HIDE DEF b, c, k
    <3> QED BY <3>1
  <2>6. ~(n < m)
    <3> DEFINE b == first(m)
               c == first(n)
               k == place[n]
    <3>1. /\ b \in Nat /\ c \in Nat /\ k \in Nat /\ j \in 1 .. k /\ i \in Nat /\ i > 0
          /\ b + i - 1 = c + j - 1 /\ (n < m => c + k <= b)
      BY <2>2, <2>3, <2>4
    <3> HIDE DEF b, c, k
    <3> QED BY <3>1
  <2>7. m = n
    BY <2>3, <2>5, <2>6
  <2> QED BY <2>2, <2>3, <2>7
<1>6. \A z \in O : \E x \in S : f[x] = z
  <2> SUFFICES ASSUME NEW z \in O PROVE \E x \in S : f[x] = z
    OBVIOUS
  <2>1. PICK m \in Nodes : z \in N(m)
    OBVIOUS
  <2>2. PICK i \in first(m) .. first(m) + place[m] - 1 : z = <<a, i>>
    BY <2>1 DEF Part
  <2> DEFINE j == i - first(m) + 1
  <2>3. j \in 1 .. place[m] /\ first(m) + j - 1 = i
    BY <1>1, <2>2
  <2> HIDE DEF j
  <2>4. <<m, j>> \in S
    BY <2>3, SlotsAre
  <2> HIDE DEF S
  <2>5. f[<<m, j>>] = <<a, first(m) + j - 1>>
    BY <2>4
  <2> QED BY <2>2, <2>3, <2>4, <2>5
<1>7. f \in [S -> O]
  <2>1. \A s \in S : f[s] \in O
    <3> HIDE DEF f, N, S
    <3> QED BY <1>1, <1>2, <1>4
  <2>2. f = [s \in S |-> f[s]]
    OBVIOUS
  <2> HIDE DEF f, S, O
  <2> QED BY <2>1, <2>2
<1> HIDE DEF f, O, S
<1>8. IsFiniteSet(O) /\ Cardinality(O) = Cardinality(S)
  BY <1>3, <1>5, <1>6, <1>7, SameSize
<1> QED BY <1>8 DEF O, S, Total, first

LEMMA AllocateStep ==
  ASSUME Good, policy # "blind", arrived < Len(NumTasks), arrived' = arrived + 1,
         NEW place \in [Nodes -> Nat], NEW slowness \in [Nodes -> Nat],
         Allocate(arrived + 1, place, slowness), UNCHANGED <<policy, tasks, seq, order, done>>,
         policy = "IBP" => \A m \in Nodes : place[m] > 0 => place[m] = 1 /\ queues[m] = {}
  PROVE  Good' /\ Cardinality(OfLast') = Total(place)
<1> DEFINE a == arrived + 1
           used == {m \in Nodes : place[m] > 0}
           first(m) == FirstFor(place, m)
           N(m) == Part(a, first(m), place[m])
           longer == [m \in Nodes |-> IF m \notin used THEN queues[m]
                        ELSE Extended(m, a, first(m), place[m], slowness[m])]
           M(m) == RescheduleMsg(m, a, first(m), place[m], sequence + MessagesBefore(place, m),
                                 SortedTasks(longer[m]))
<1>1. /\ queues' = longer /\ sequence' = sequence + Cardinality(used)
      /\ net' = net \cup {M(m) : m \in used}
      /\ UNCHANGED <<policy, tasks, seq, order, done>>
  BY DEF Allocate
<1>2. /\ arrived \in Nat /\ a \in Nat /\ a \in Apps /\ Len(NumTasks) \in Nat /\ arrived' = a
      /\ arrived' \in 0 .. Len(NumTasks) /\ sequence \in Nat
  <2>1. NumTasks \in Seq(Nat \ {0})
    BY CentralAssumption DEF CentralAssumption
  <2>2. Len(NumTasks) \in Nat
    BY <2>1
  <2> QED BY <2>2 DEF Good, StateInv, Apps
<1>3. used \in SUBSET Nodes /\ Cardinality(used) \in Nat
  BY NodesFinite
<1>4. \A m \in Nodes : place[m] \in Nat /\ first(m) \in Nat \ {0} /\ slowness[m] \in Nat
                       /\ (m \in used <=> place[m] > 0)
  BY FirstForIs
<1>5. \A m \in used : /\ sequence + MessagesBefore(place, m) \in Nat
                      /\ sequence + MessagesBefore(place, m) >= sequence
                      /\ sequence + MessagesBefore(place, m) < sequence'
  <2> SUFFICES ASSUME NEW m \in used
               PROVE /\ sequence + MessagesBefore(place, m) \in Nat
                     /\ sequence + MessagesBefore(place, m) >= sequence
                     /\ sequence + MessagesBefore(place, m) < sequence'
    OBVIOUS
  <2>1. MessagesBefore(place, m) \in Nat /\ MessagesBefore(place, m) < Cardinality(used)
    BY MessagesBeforeIs
  <2> HIDE DEF used
  <2> QED BY <1>1, <1>2, <1>3, <2>1
<1> HIDE DEF first
<1>6. \A m \in Nodes : /\ IsFiniteSet(N(m)) /\ Cardinality(N(m)) = place[m] /\ N(m) \in SUBSET Tids
                       /\ \A t \in N(m) : t[1] = a
  <2> SUFFICES ASSUME NEW m \in Nodes
               PROVE /\ IsFiniteSet(N(m)) /\ Cardinality(N(m)) = place[m] /\ N(m) \in SUBSET Tids
                     /\ \A t \in N(m) : t[1] = a
    OBVIOUS
  <2>1. IsFiniteSet(N(m)) /\ Cardinality(N(m)) = place[m] /\ N(m) \in SUBSET Tids
    BY <1>2, <1>4, PartIs
  <2>2. \A t \in N(m) : t[1] = a
    BY DEF Part
  <2> HIDE DEF N, a
  <2> QED BY <2>1, <2>2
<1>7. \A m \in Nodes : /\ IsQueue(queues[m]) /\ queues[m] \in SUBSET Entries
                       /\ Cardinality(queues[m]) \in Nat /\ seq[m] \in Nat /\ seq[m] < sequence
                       /\ \A e \in queues[m] : e.t[1] <= arrived /\ e.t[1] \in Nat
  <2>1. \A m \in Nodes : IsQueue(queues[m]) /\ seq[m] \in Nat /\ seq[m] < sequence
                         /\ \A e \in queues[m] : e.t[1] <= arrived
    BY DEF Good, StateInv
  <2>2. \A m \in Nodes : queues[m] \in SUBSET Entries /\ Cardinality(queues[m]) \in Nat
    BY <2>1, FS_CardinalityType DEF IsQueue
  <2> QED BY <2>1, <2>2, EntryTyped
<1>8. ASSUME NEW m \in Nodes
      PROVE  /\ IsQueue(longer[m]) /\ Cardinality(longer[m]) = Cardinality(queues[m]) + place[m]
             /\ TasksOf(longer[m]) = TasksOf(queues[m]) \cup N(m)
  <2>1. CASE m \in used
    <3> DEFINE q == Extended(m, a, first(m), place[m], slowness[m])
    <3>1. \A e \in queues[m] : e.t[1] # a
      BY <1>2, <1>7
    <3>2. /\ IsQueue(q) /\ Cardinality(q) = Cardinality(queues[m]) + place[m]
          /\ TasksOf(q) = TasksOf(queues[m]) \cup {<<a, i>> : i \in first(m) .. first(m) + place[m] - 1}
      <4> DEFINE b == first(m)
                 k == place[m]
                 l == slowness[m]
      <4>1. /\ b \in Nat /\ k \in Nat /\ l \in Nat /\ a \in Apps /\ arrived \in Nat /\ IsQueue(queues[m])
        BY <1>2, <1>4, <1>7
      <4> HIDE DEF a, b, k, l
      <4>2. /\ IsQueue(Extended(m, a, b, k, l))
            /\ Cardinality(Extended(m, a, b, k, l)) = Cardinality(queues[m]) + k
            /\ TasksOf(Extended(m, a, b, k, l)) = TasksOf(queues[m]) \cup {<<a, i>> : i \in b .. b + k - 1}
        BY <3>1, <4>1, ExtendedIs
      <4> QED BY <4>2 DEF b, k, l
    <3>3. longer[m] = q
      BY <2>1
    <3> HIDE DEF longer, q
    <3> QED BY <3>2, <3>3 DEF Part
  <2>2. CASE m \notin used
    <3>1. place[m] = 0
      BY <1>4, <2>2
    <3>2. N(m) = {}
      BY <1>4, <3>1 DEF Part
    <3>3. longer[m] = queues[m]
      BY <2>2
    <3> HIDE DEF longer, N
    <3> QED BY <1>7, <3>1, <3>2, <3>3
  <2> QED BY <2>1, <2>2
<1>9. DOMAIN longer = Nodes /\ \A m \in Nodes : longer[m] \in SUBSET Entries
  BY <1>8 DEF IsQueue
<1>10. longer \in [Nodes -> SUBSET Entries]
  <2>1. longer = [m \in Nodes |-> longer[m]]
    OBVIOUS
  <2> HIDE DEF longer
  <2> QED BY <1>9, <2>1
<1>11. ASSUME NEW m \in Nodes, NEW e \in longer[m] PROVE e.t[1] <= a
  <2>1. e.t \in TasksOf(queues[m]) \/ e.t \in N(m)
    BY <1>8 DEF TasksOf
  <2>2. CASE e.t \in TasksOf(queues[m])
    <3>1. PICK f \in queues[m] : e.t = f.t
      BY <2>2 DEF TasksOf
    <3> QED BY <1>2, <1>7, <3>1
  <2>3. CASE e.t \in N(m)
    BY <1>2, <1>6, <2>3
  <2> QED BY <2>1, <2>2, <2>3
<1> HIDE DEF longer
<1>12. ASSUME NEW m \in used
       PROVE  /\ M(m).type = "reschedule" /\ M(m).node = m
              /\ M(m).seq = sequence + MessagesBefore(place, m)
              /\ M(m).order = SortedTasks(longer[m])
              /\ App(M(m)) = a /\ Elements(M(m).new) = N(m)
              /\ M(m).new \in Seq(Tids) /\ M(m).new # <<>> /\ NoRepeats(M(m).new)
  <2>1. place[m] \in Nat \ {0} /\ first(m) \in Nat
    BY <1>3, <1>4
  <2> HIDE DEF a, used
  <2> QED BY <1>2, <2>1, NewMessageIs
<1>13. ASSUME NEW m \in used, NEW c, c = M(m) PROVE IsOrder(c)'
  <2>1. m \in Nodes
    OBVIOUS
  <2>2. /\ SortedTasks(longer[m]) \in Seq(Tids) /\ NoRepeats(SortedTasks(longer[m]))
        /\ Elements(SortedTasks(longer[m])) = TasksOf(longer[m])
    BY <1>8, <2>1, SortedTasksAre
  <2>3. N(m) \subseteq Elements(SortedTasks(longer[m]))
    BY <1>8, <2>1, <2>2
  <2>4. \A t \in Elements(c.new) : t[1] = App(c)
    BY <1>6, <1>12, <1>13, <2>1
  <2>5. App(c) \in Nat /\ App(c) <= arrived' /\ c.seq \in Nat /\ c.seq < sequence'
    <3> HIDE DEF M, used
    <3> QED BY <1>2, <1>5, <1>12, <1>13
  <2>6. /\ c.new \in Seq(Tids) /\ c.new # <<>> /\ NoRepeats(c.new)
        /\ \A t \in Elements(c.new) : t[1] = App(c)
        /\ App(c) \in Nat /\ App(c) <= arrived' /\ c.seq \in Nat /\ c.seq < sequence'
        /\ c.order \in Seq(Tids) /\ NoRepeats(c.order)
        /\ Elements(c.new) \subseteq Elements(c.order)
    <3> HIDE DEF M, N, used
    <3> QED BY <1>12, <1>13, <2>2, <2>3, <2>4, <2>5
  <2> QED BY <2>6 DEF IsOrder, App
<1>14. \A n \in Nodes : \A x \in Orders(n) :
         /\ x \in net /\ IsOrder(x) /\ App(x) \in Nat /\ App(x) <= arrived /\ x.seq \in Nat
         /\ x.seq < sequence /\ \A t \in Elements(x.new) : t[1] = App(x)
  BY OrdersTyped DEF Good, IsOrder
<1> HIDE DEF M
<1>15. ASSUME NEW n \in Nodes
       PROVE  Orders(n)' = Orders(n) \cup (IF n \in used THEN {M(n)} ELSE {})
  <2> HIDE DEF used
  <2> QED BY <1>1, <1>12 DEF Orders
<1>16. ASSUME NEW n \in Nodes PROVE Coming(n)' = Coming(n) \cup N(n)
  <2>1. \A t : t \in Coming(n)' <=> \E x \in Orders(n)' : t \in Elements(x.new)
    BY DEF Coming, Orders
  <2>2. \A t : t \in Coming(n) <=> \E x \in Orders(n) : t \in Elements(x.new)
    BY ComingIs
  <2>3. CASE n \in used
    <3> HIDE DEF used, N
    <3> QED BY <1>12, <1>15, <2>1, <2>2, <2>3
  <2>4. CASE n \notin used
    <3>1. N(n) = {}
      BY <1>4, <2>4 DEF Part
    <3> HIDE DEF used, N
    <3> QED BY <1>15, <2>1, <2>2, <2>4, <3>1
  <2> QED BY <2>3, <2>4
<1>17. \A n \in Nodes : \A t \in Coming(n) : t[1] # a
  <2> SUFFICES ASSUME NEW n \in Nodes, NEW t \in Coming(n) PROVE t[1] # a
    OBVIOUS
  <2>1. PICK x \in Orders(n) : t \in Elements(x.new)
    BY ComingIs
  <2> QED BY <1>2, <1>14, <2>1
<1>18. \A n \in Nodes : Told(n)' = Told(n)
  <2> SUFFICES ASSUME NEW n \in Nodes PROVE Told(n)' = Told(n)
    OBVIOUS
  <2>1. \A x : x \in net' /\ x.type = "finished" => x \in net
    <3> HIDE DEF used
    <3> QED BY <1>1, <1>12
  <2>2. net \subseteq net'
    BY <1>1
  <2> QED BY <2>1, <2>2 DEF Told
<1> HIDE DEF used
<1>19. StateInv'
  <2>1. sequence' \in Nat /\ sequence <= sequence'
    BY <1>1, <1>2, <1>3
  <2>2. queues' \in [Nodes -> SUBSET Entries]
        /\ \A n \in Nodes : IsQueue(queues'[n]) /\ \A e \in queues'[n] : e.t[1] <= arrived'
    <3> HIDE DEF a
    <3> QED BY <1>1, <1>2, <1>8, <1>10, <1>11
  <2>3. \A n \in Nodes : seq[n] < sequence'
    BY <1>2, <1>7, <2>1
  <2>4. /\ \A t \in done : t[1] <= arrived'
        /\ \A n \in Nodes : \A t \in Elements(tasks[n]) : t[1] <= arrived'
    <3>1. done \in SUBSET Tids /\ \A n \in Nodes : Elements(tasks[n]) \in SUBSET Tids
      BY ElementsFinite DEF Good, StateInv
    <3>2. /\ \A t \in done : t[1] <= arrived /\ t[1] \in Nat
          /\ \A n \in Nodes : \A t \in Elements(tasks[n]) : t[1] <= arrived /\ t[1] \in Nat
      BY <3>1, TidTyped DEF Good, StateInv
    <3> QED BY <1>2, <3>2
  <2> QED BY <1>1, <1>2, <2>1, <2>2, <2>3, <2>4 DEF Good, StateInv
<1>20. MessagesInv'
  <2> SUFFICES ASSUME NEW x \in net'
               PROVE /\ x.node \in Nodes
                     /\ \/ x.type = "finished" /\ x = FinishedMsg(x.node, x.task)
                        \/ x.type = "reschedule" /\ IsOrder(x)'
    BY DEF MessagesInv
  <2>1. CASE x \in net
    <3>1. /\ x.node \in Nodes
          /\ \/ x.type = "finished" /\ x = FinishedMsg(x.node, x.task)
             \/ x.type = "reschedule" /\ IsOrder(x)
      BY <2>1 DEF Good, MessagesInv
    <3>2. ASSUME IsOrder(x) PROVE IsOrder(x)'
      <4>1. App(x) <= arrived' /\ x.seq < sequence'
        BY <1>1, <1>2, <1>3, <3>2 DEF IsOrder
      <4> QED BY <3>2, <4>1 DEF IsOrder, App
    <3> QED BY <3>1, <3>2
  <2>2. CASE x \in {M(m) : m \in used}
    <3>1. PICK m \in used : x = M(m)
      BY <2>2
    <3>2. IsOrder(x)'
      BY <1>13, <3>1
    <3> QED BY <1>3, <1>12, <3>1, <3>2
  <2> QED BY <1>1, <2>1, <2>2
<1>21. SeqInv'
  <2> SUFFICES ASSUME NEW n \in Nodes, NEW x \in Orders(n)', NEW y \in Orders(n)'
               PROVE /\ App(x) = App(y) => x = y
                     /\ App(x) < App(y) => x.seq < y.seq
    BY DEF SeqInv, App
  <2>1. CASE x \in Orders(n) /\ y \in Orders(n)
    BY <2>1 DEF Good, SeqInv
  <2>2. CASE x \notin Orders(n) /\ y \notin Orders(n)
    <3>1. x = M(n) /\ y = M(n)
      BY <1>15, <2>2
    <3> QED BY <1>2, <1>12, <1>15, <2>2, <3>1
  <2>3. CASE x \in Orders(n) /\ y \notin Orders(n)
    <3>1. n \in used /\ y = M(n)
      BY <1>15, <2>3
    <3>2. App(x) < App(y) /\ x.seq < sequence /\ x.seq \in Nat
      BY <1>2, <1>12, <1>14, <2>3, <3>1
    <3>3. y.seq \in Nat /\ y.seq >= sequence
      BY <1>5, <1>12, <3>1
    <3> QED BY <1>2, <1>12, <1>14, <2>3, <3>1, <3>2, <3>3
  <2>4. CASE x \notin Orders(n) /\ y \in Orders(n)
    <3>1. n \in used /\ x = M(n)
      BY <1>15, <2>4
    <3> QED BY <1>2, <1>12, <1>14, <2>4, <3>1
  <2> QED BY <2>1, <2>2, <2>3, <2>4
<1>22. LastInv'
  <2> SUFFICES ASSUME NEW n \in Nodes
               PROVE /\ \A x \in Orders(n)' : App(x) = arrived' => seq'[n] < x.seq
                     /\ (\E t \in Elements(tasks'[n]) : t[1] = arrived') =>
                          \A x \in Orders(n)' : x.seq <= seq'[n]
    BY DEF LastInv, App
  <2>1. ASSUME NEW x \in Orders(n)', App(x) = arrived' PROVE seq'[n] < x.seq
    <3>1. x \notin Orders(n)
      BY <1>2, <1>14, <2>1
    <3>2. n \in used /\ x = M(n)
      BY <1>15, <3>1
    <3>3. x.seq \in Nat /\ x.seq >= sequence
      BY <1>5, <1>12, <3>2
    <3> QED BY <1>1, <1>2, <1>7, <3>3
  <2>2. ~ \E t \in Elements(tasks'[n]) : t[1] = arrived'
    <3>1. \A t \in Elements(tasks[n]) : t[1] <= arrived
      BY DEF Good, StateInv
    <3>2. arrived' = arrived + 1
      OBVIOUS
    <3>3. ASSUME NEW t \in Elements(tasks[n]), t[1] = arrived + 1 PROVE FALSE
      <4>1. arrived + 1 <= arrived
        BY <3>1, <3>3
      <4> QED BY <1>2, <4>1
    <3> QED BY <1>1, <3>2, <3>3
  <2> QED BY <2>1, <2>2
<1>23. CountInv'
  <2> SUFFICES ASSUME NEW n \in Nodes
               PROVE /\ IsFiniteSet(Coming(n)') /\ IsFiniteSet(Told(n)')
                     /\ Cardinality(Coming(n)') + Len(tasks'[n]) + Cardinality(Told(n)')
                          <= Cardinality(queues'[n])
    BY DEF CountInv
  <2>1. /\ IsFiniteSet(Coming(n)) /\ IsFiniteSet(Told(n))
        /\ Cardinality(Coming(n)) + Len(tasks[n]) + Cardinality(Told(n)) <= Cardinality(queues[n])
    BY DEF Good, CountInv
  <2> DEFINE T == N(n)
  <2>2. IsFiniteSet(T) /\ Coming(n) \cap T = {} /\ Coming(n)' = Coming(n) \cup T /\ Cardinality(T) = place[n]
    BY <1>6, <1>16, <1>17
  <2> HIDE DEF T
  <2>3. /\ IsFiniteSet(Coming(n) \cup T)
        /\ Cardinality(Coming(n) \cup T) = Cardinality(Coming(n)) + Cardinality(T)
    BY <2>1, <2>2, SizesAdd
  <2>4. Cardinality(queues'[n]) = Cardinality(queues[n]) + place[n]
    BY <1>1, <1>8
  <2>5. /\ Cardinality(Coming(n)) \in Nat /\ Cardinality(Told(n)) \in Nat /\ Len(tasks[n]) \in Nat
        /\ Cardinality(queues[n]) \in Nat /\ place[n] \in Nat
    BY CountsTyped DEF Good
  <2>6. Told(n)' = Told(n) /\ tasks'[n] = tasks[n]
    BY <1>1, <1>18
  <2>7. Cardinality(Coming(n)') = Cardinality(Coming(n)) + place[n]
    BY <2>2, <2>3
  <2>8. Cardinality(Coming(n)') + Len(tasks'[n]) + Cardinality(Told(n)') <= Cardinality(queues'[n])
    <3> DEFINE c == Cardinality(Coming(n))
               d == Cardinality(Coming(n)')
               k == Len(tasks[n])
               g == Cardinality(Told(n))
               b == Cardinality(queues[n])
               e == Cardinality(queues'[n])
               p == place[n]
    <3>1. /\ c \in Nat /\ k \in Nat /\ g \in Nat /\ b \in Nat /\ p \in Nat
          /\ d = c + p /\ e = b + p /\ c + k + g <= b
      BY <2>1, <2>4, <2>5, <2>7
    <3> HIDE DEF c, d, k, g, b, e, p
    <3>2. d + k + g <= e
      BY <3>1
    <3> QED BY <2>6, <3>2 DEF d, k, g, e
  <2> QED BY <2>1, <2>2, <2>3, <2>6, <2>8
<1>24. IBPInv'
  <2> SUFFICES ASSUME policy = "IBP", NEW n \in Nodes
               PROVE /\ Cardinality(queues'[n]) <= 1
                     /\ TasksOf(queues'[n]) = Coming(n)' \cup Elements(tasks'[n]) \cup Told(n)'
                     /\ \A x \in Orders(n)' : seq'[n] < x.seq
    BY <1>1 DEF IBPInv
  <2>1. /\ Cardinality(queues[n]) <= 1
        /\ TasksOf(queues[n]) = Coming(n) \cup Elements(tasks[n]) \cup Told(n)
        /\ \A x \in Orders(n) : seq[n] < x.seq
    BY DEF Good, IBPInv
  <2>2. Cardinality(queues'[n]) <= 1
    <3>1. CASE place[n] > 0
      <4>1. queues[n] = {} /\ place[n] = 1
        BY <3>1
      <4>2. Cardinality(queues[n]) = 0
        BY <4>1, FS_EmptySet
      <4>3. Cardinality(queues'[n]) = Cardinality(queues[n]) + place[n]
        BY <1>1, <1>8
      <4>4. Cardinality(queues'[n]) = 0 + 1
        <5> DEFINE q == queues[n]
                   k == place[n]
        <5>1. Cardinality(queues'[n]) = Cardinality(q) + k /\ Cardinality(q) = 0 /\ k = 1
          BY <4>1, <4>2, <4>3
        <5> HIDE DEF q, k
        <5> QED BY <5>1
      <4> QED BY <4>4
    <3>2. CASE ~(place[n] > 0)
      <4>1. place[n] = 0
        BY <1>4, <3>2
      <4> QED BY <1>1, <1>7, <1>8, <2>1, <4>1
    <3> QED BY <3>1, <3>2
  <2>3. TasksOf(queues'[n]) = Coming(n)' \cup Elements(tasks'[n]) \cup Told(n)'
    <3> HIDE DEF N
    <3> QED BY <1>1, <1>8, <1>16, <1>18, <2>1
  <2>4. ASSUME NEW x \in Orders(n)' PROVE seq'[n] < x.seq
    <3>1. CASE x \in Orders(n)
      BY <1>1, <2>1, <3>1
    <3>2. CASE x \notin Orders(n)
      <4>1. n \in used /\ x = M(n)
        BY <1>15, <3>2
      <4>2. x.seq \in Nat /\ x.seq >= sequence
        BY <1>5, <1>12, <4>1
      <4> QED BY <1>1, <1>2, <1>7, <4>2
    <3> QED BY <3>1, <3>2
  <2> QED BY <2>2, <2>3, <2>4
<1>25. Cardinality(OfLast') = Total(place)
  <2> DEFINE O == OfLast'
             D == UNION {N(m) : m \in Nodes}
  <2>1. O = D
    <3>1. \A t \in done : t[1] # a
      BY <1>2 DEF Good, StateInv
    <3>2. \A n \in Nodes : \A t \in Elements(tasks[n]) : t[1] # a
      BY <1>2 DEF Good, StateInv
    <3>3. O = {t \in (UNION {Coming(n)' \cup Elements(tasks[n]) : n \in Nodes}) \cup done : t[1] = a}
      BY <1>1, <1>2 DEF OfLast
    <3> HIDE DEF O
    <3>4. ASSUME NEW t \in O PROVE t \in UNION {N(m) : m \in Nodes}
      <4>1. t[1] = a
        BY <3>3
      <4>2. PICK n \in Nodes : t \in Coming(n)'
        BY <3>1, <3>2, <3>3, <4>1
      <4>3. t \in N(n)
        BY <1>16, <1>17, <4>1, <4>2
      <4> QED BY <4>3
    <3>5. ASSUME NEW m \in Nodes, NEW t \in N(m) PROVE t \in O
      <4>1. t \in Coming(m)' /\ t[1] = a
        BY <1>6, <1>16
      <4> QED BY <3>3, <4>1
    <3> QED BY <3>4, <3>5
  <2>2. Cardinality(D) = Total(place)
    <3> HIDE DEF a
    <3> QED BY <1>2, PartsTogether DEF first
  <2> HIDE DEF O, D
  <2> QED BY <2>1, <2>2 DEF O
<1> QED BY <1>19, <1>20, <1>21, <1>22, <1>23, <1>24, <1>25 DEF Good

-----------------------------------------------------------------------------
(* The holes of DP.                                                        *)

LEMMA HoleTyped ==
  ASSUME NEW holes \in [Nodes -> Holes], NEW m \in Nodes
  PROVE  /\ holes[m].tasks \in Nat /\ holes[m].remaining \in Nat /\ m \in Nat
         /\ Fits(holes)[m] = holes[m].tasks
         /\ holes[m] = [tasks |-> holes[m].tasks, remaining |-> holes[m].remaining]
<1>1. Room \in Nat /\ m \in Nat
  BY NodesFinite, CentralAssumption DEF CentralAssumption, Nodes
<1>2. holes[m] \in Holes
  OBVIOUS
<1> QED BY <1>1, <1>2 DEF Holes, Fits

\* Of two holes, one comes out of the heap before the other.
LEMMA WorseIsOrder ==
  ASSUME NEW holes \in [Nodes -> Holes]
  PROVE  /\ \A x \in Nodes : ~IsWorse(holes, x, x)
         /\ \A x, y, z \in Nodes : IsWorse(holes, x, y) /\ IsWorse(holes, y, z) => IsWorse(holes, x, z)
         /\ \A x, y \in Nodes : x = y \/ IsWorse(holes, x, y) \/ IsWorse(holes, y, x)
<1>1. \A x, y \in Nodes :
        IsWorse(holes, x, y) <=>
          \/ holes[y].remaining < holes[x].remaining
          \/ holes[y].remaining = holes[x].remaining /\ holes[y].tasks < holes[x].tasks
          \/ holes[y].remaining = holes[x].remaining /\ holes[y].tasks = holes[x].tasks /\ x < y
  <2> SUFFICES ASSUME NEW x \in Nodes, NEW y \in Nodes
               PROVE IsWorse(holes, x, y) <=>
                 \/ holes[y].remaining < holes[x].remaining
                 \/ holes[y].remaining = holes[x].remaining /\ holes[y].tasks < holes[x].tasks
                 \/ holes[y].remaining = holes[x].remaining /\ holes[y].tasks = holes[x].tasks /\ x < y
    OBVIOUS
  <2>1. holes[x] = holes[y] <=> /\ holes[y].remaining = holes[x].remaining
                                /\ holes[y].tasks = holes[x].tasks
    <3>1. /\ holes[x] = [tasks |-> holes[x].tasks, remaining |-> holes[x].remaining]
          /\ holes[y] = [tasks |-> holes[y].tasks, remaining |-> holes[y].remaining]
      BY HoleTyped
    <3> QED BY <3>1
  <2> QED BY <2>1 DEF IsWorse, HoleBefore
<1>2. \A x \in Nodes : holes[x].tasks \in Nat /\ holes[x].remaining \in Nat /\ x \in Nat
  BY HoleTyped
<1> QED BY <1>1, <1>2

\* No hole is empty, they are not too many, and their tasks are enough or all.
CacheOk(holes, n, k, cache) ==
  /\ cache \in SUBSET (1 .. k) /\ \A m \in cache : holes[m].tasks > 0
  /\ Cardinality(cache) <= n
  /\ TasksIn(cache, holes) >= n \/ TasksIn(cache, holes) = Cardinality(Slots(1 .. k, Fits(holes)))

LEMMA TasksInIs ==
  ASSUME NEW holes \in [Nodes -> Holes], NEW S \in SUBSET Nodes
  PROVE  /\ IsFiniteSet(S) /\ TasksIn(S, holes) \in Nat
         /\ \A T \in SUBSET S : TasksIn(T, holes) <= TasksIn(S, holes)
         /\ \A m \in Nodes \ S : TasksIn(S \cup {m}, holes) = TasksIn(S, holes) + holes[m].tasks
         /\ (\A m \in S : holes[m].tasks > 0) => Cardinality(S) <= TasksIn(S, holes)
<1> DEFINE k == Fits(holes)
<1>1. IsFiniteSet(S)
  BY NodesFinite
<1>2. \A m \in Nodes : k[m] = holes[m].tasks /\ k[m] \in Nat
  BY HoleTyped
<1> HIDE DEF k
<1>3. \A T : TasksIn(T, holes) = Cardinality(Slots(T, k))
  BY DEF TasksIn, k
<1>4. \A m \in S : k[m] \in Nat
  BY <1>2
<1>5. Cardinality(Slots(S, k)) \in Nat
  BY <1>1, <1>4, SlotsFinite
<1>6. \A T \in SUBSET S : Cardinality(Slots(T, k)) <= Cardinality(Slots(S, k))
  BY <1>1, <1>4, SlotsGrow
<1>7. ASSUME NEW m \in Nodes \ S
      PROVE Cardinality(Slots(S \cup {m}, k)) = Cardinality(Slots(S, k)) + k[m]
  <2>1. m \notin S /\ k[m] \in Nat
    BY <1>2
  <2> QED BY <1>1, <1>4, <2>1, SlotsWithOne
<1>8. ASSUME \A m \in S : holes[m].tasks > 0 PROVE Cardinality(S) <= Cardinality(Slots(S, k))
  <2>1. \A m \in S : k[m] \in Nat \ {0}
    BY <1>2, <1>8
  <2> QED BY <1>1, <2>1, NoMoreNodes
<1> QED BY <1>1, <1>2, <1>3, <1>5, <1>6, <1>7, <1>8

\* Of the holes of a set, one is better than the others.
LEMMA BestHole ==
  ASSUME NEW holes \in [Nodes -> Holes], NEW cache \in SUBSET Nodes, NEW R \in SUBSET cache, R # {}
  PROVE  \E x \in R : Better(cache, holes, x) \cap R = {}
<1> DEFINE B(x) == Better(cache, holes, x)
           sizes == {Cardinality(B(x)) : x \in R}
<1>1. \A x \in R : B(x) \in SUBSET cache /\ x \in Nodes
  BY DEF Better
<1>2. \A x \in R : IsFiniteSet(B(x)) /\ Cardinality(B(x)) \in Nat
  BY <1>1, NodesFinite
<1>3. PICK x \in R : \A y \in R : Cardinality(B(x)) <= Cardinality(B(y))
  <2>1. sizes \in SUBSET Nat /\ sizes # {}
    BY <1>2
  <2>2. PICK s \in sizes : \A r \in sizes : s <= r
    <3> HIDE DEF sizes
    <3> QED BY <2>1, LeastNumber
  <2>3. PICK x \in R : s = Cardinality(B(x))
    OBVIOUS
  <2>4. \A y \in R : s <= Cardinality(B(y))
    BY <2>2
  <2> QED BY <2>3, <2>4
<1>4. ASSUME NEW y \in R, y \in B(x) PROVE FALSE
  <2>1. IsWorse(holes, x, y) /\ x \in Nodes /\ y \in Nodes
    BY <1>1, <1>4 DEF Better
  <2>2. B(y) \in SUBSET B(x) /\ y \notin B(y)
    BY <2>1, WorseIsOrder DEF Better
  <2> HIDE DEF B
  <2>3. Cardinality(B(y)) <= Cardinality(B(x)) /\ Cardinality(B(y)) # Cardinality(B(x))
    BY <1>2, <1>4, <2>2, FS_Subset
  <2>4. Cardinality(B(x)) <= Cardinality(B(y))
    BY <1>3
  <2> QED BY <1>2, <2>3, <2>4
<1> QED BY <1>4

LEMMA WithHoleIsOk ==
  ASSUME NEW holes \in [Nodes -> Holes], NEW n \in Nat, NEW k \in Nodes, NEW cache,
         CacheOk(holes, n, k - 1, cache)
  PROVE  CacheOk(holes, n, k, WithHole(cache, holes, k, n))
<1> DEFINE T(S) == TasksIn(S, holes)
           h == holes[k].tasks
           L == 1 .. k - 1
           U == 1 .. k
<1>1. k \in Nat /\ k > 0 /\ NumNodes \in Nat /\ k <= NumNodes
  BY NodesFinite DEF Nodes
<1>2. L \in SUBSET Nodes /\ U = L \cup {k} /\ k \notin L
  BY <1>1 DEF Nodes
<1>3. /\ cache \in SUBSET L /\ (\A m \in cache : holes[m].tasks > 0) /\ Cardinality(cache) <= n
      /\ T(cache) >= n \/ T(cache) = T(L)
  BY DEF CacheOk, TasksIn
<1>4. h \in Nat
  BY HoleTyped
<1>5. \A C : C \in SUBSET U /\ (\A m \in C : holes[m].tasks > 0) /\ Cardinality(C) <= n
             /\ (T(C) >= n \/ T(C) = T(U)) => CacheOk(holes, n, k, C)
  BY DEF CacheOk, TasksIn
<1> HIDE DEF L, U, h
<1>6. cache \in SUBSET Nodes /\ k \notin cache
  BY <1>2, <1>3
<1>7. \A C \in SUBSET Nodes : /\ IsFiniteSet(C) /\ Cardinality(C) \in Nat /\ T(C) \in Nat
                              /\ \A D \in SUBSET C : T(D) <= T(C)
                              /\ k \notin C => T(C \cup {k}) = T(C) + h
                              /\ (\A m \in C : holes[m].tasks > 0) => Cardinality(C) <= T(C)
  BY TasksInIs, NodesFinite DEF h
<1> HIDE DEF T
<1>8. T(U) = T(L) + h /\ T(L) \in Nat
  BY <1>2, <1>7
<1>9. \A C \in SUBSET Nodes : k \notin C => Cardinality(C \cup {k}) = Cardinality(C) + 1
  BY <1>7, FS_AddElement
<1>10. CASE h = 0
  <2>1. WithHole(cache, holes, k, n) = cache
    BY <1>10 DEF WithHole, h
  <2>2. T(U) = T(L)
    BY <1>8, <1>10
  <2> QED BY <1>2, <1>3, <1>5, <2>1, <2>2
<1>11. CASE h # 0 /\ T(cache) < n
  <2>1. WithHole(cache, holes, k, n) = cache \cup {k}
    BY <1>11 DEF WithHole, h, T
  <2>2. T(cache) = T(L) /\ T(cache \cup {k}) = T(U)
    BY <1>3, <1>6, <1>7, <1>8, <1>11
  <2>3. Cardinality(cache) <= T(cache) /\ Cardinality(cache) \in Nat /\ T(cache) \in Nat
    BY <1>3, <1>6, <1>7
  <2>4. Cardinality(cache \cup {k}) <= n
    <3>1. Cardinality(cache \cup {k}) = Cardinality(cache) + 1
      BY <1>6, <1>9
    <3> QED BY <1>11, <2>3, <3>1
  <2>5. \A m \in cache \cup {k} : holes[m].tasks > 0
    BY <1>3, <1>4, <1>11 DEF h
  <2> QED BY <1>2, <1>3, <1>5, <2>1, <2>2, <2>4, <2>5
<1>12. CASE h # 0 /\ ~(T(cache) < n)
  <2>0. T(cache) >= n
    <3>1. T(cache) \in Nat
      BY <1>6, <1>7
    <3> QED BY <1>12, <3>1
  <2> DEFINE E == \E w \in cache : Better(cache, holes, w) = cache \ {w} /\ HoleBefore(holes[k], holes[w])
             kept == Trimmed(cache, holes, k, n)
  <2>1. CASE ~E
    <3>1. WithHole(cache, holes, k, n) = cache
      BY <1>12, <2>1 DEF WithHole, h, T
    <3> QED BY <1>2, <1>3, <1>5, <2>0, <3>1
  <2>2. CASE E
    <3>1. WithHole(cache, holes, k, n) = kept \cup {k}
      BY <1>12, <2>2 DEF WithHole, h, T
    <3>2. PICK w \in cache : Better(cache, holes, w) = cache \ {w} /\ HoleBefore(holes[k], holes[w])
      BY <2>2
    <3>3. /\ kept \in SUBSET cache
          /\ \A x \in cache : x \notin kept <=>
               HoleBefore(holes[k], holes[x]) /\ T(Better(cache, holes, x)) + h >= n
      BY DEF Trimmed, T, h
    <3> HIDE DEF kept, E
    <3>4. kept \in SUBSET Nodes /\ k \notin kept
      BY <1>6, <3>3
    <3>5. Cardinality(kept) + 1 <= n
      <4>1. CASE kept = cache
        <5> DEFINE others == cache \ {w}
        <5>1. ~(T(others) + h >= n)
          BY <3>2, <3>3, <4>1
        <5>2. others \in SUBSET Nodes /\ \A m \in others : holes[m].tasks > 0
          BY <1>3, <1>6
        <5> HIDE DEF others
        <5>3. Cardinality(others) <= T(others) /\ T(others) \in Nat /\ Cardinality(others) \in Nat
          BY <1>7, <5>2
        <5>4. Cardinality(others) = Cardinality(cache) - 1 /\ Cardinality(cache) \in Nat
          BY <1>6, <1>7, FS_RemoveElement DEF others
        <5> QED BY <1>4, <1>12, <4>1, <5>1, <5>3, <5>4
      <4>2. CASE kept # cache
        <5>1. /\ Cardinality(kept) <= Cardinality(cache) /\ Cardinality(kept) # Cardinality(cache)
              /\ Cardinality(kept) \in Nat /\ Cardinality(cache) \in Nat
          BY <1>6, <1>7, <3>3, <3>4, <4>2, FS_Subset
        <5> QED BY <1>3, <5>1
      <4> QED BY <4>1, <4>2
    <3>6. T(kept) + h >= n
      <4>1. CASE kept = cache
        <5>1. T(cache) \in Nat
          BY <1>6, <1>7
        <5> QED BY <1>4, <2>0, <4>1, <5>1
      <4>2. CASE kept # cache
        <5> DEFINE R == cache \ kept
        <5>1. PICK x \in R : Better(cache, holes, x) \cap R = {}
          <6>1. R \in SUBSET cache /\ R # {}
            BY <3>3, <4>2
          <6> HIDE DEF R
          <6> QED BY <1>6, <6>1, BestHole
        <5>2. Better(cache, holes, x) \in SUBSET kept
          BY <5>1 DEF Better
        <5>3. T(Better(cache, holes, x)) + h >= n
          BY <3>3
        <5>4. T(Better(cache, holes, x)) <= T(kept) /\ T(kept) \in Nat /\ T(Better(cache, holes, x)) \in Nat
          <6>1. Better(cache, holes, x) \in SUBSET Nodes
            BY <3>4, <5>2
          <6> QED BY <1>7, <3>4, <5>2, <6>1
        <5> QED BY <1>4, <5>3, <5>4
      <4> QED BY <4>1, <4>2
    <3>7. Cardinality(kept \cup {k}) <= n /\ T(kept \cup {k}) >= n
      <4>1. Cardinality(kept \cup {k}) = Cardinality(kept) + 1 /\ T(kept \cup {k}) = T(kept) + h
        BY <1>7, <1>9, <3>4
      <4> QED BY <3>5, <3>6, <4>1
    <3>8. \A m \in kept \cup {k} : holes[m].tasks > 0
      BY <1>3, <1>4, <1>12, <3>3 DEF h
    <3>9. kept \cup {k} \in SUBSET U
      BY <1>2, <1>3, <3>3
    <3> QED BY <1>5, <3>1, <3>7, <3>8, <3>9
  <2> QED BY <2>1, <2>2
<1> QED BY <1>10, <1>11, <1>12

LEMMA CachesAre ==
  ASSUME NEW holes \in [Nodes -> Holes], NEW n \in Nat
  PROVE  \A k \in 0 .. NumNodes : CacheOk(holes, n, k, Caches(holes, n)[k])
<1> DEFINE Rec(g, m) == g = [k \in 0 .. m |->
                               IF k = 0 THEN {} ELSE WithHole(g[k - 1], holes, k, n)]
           f == CHOOSE g : Rec(g, NumNodes)
<1>1. NumNodes \in Nat
  BY NodesFinite
<1>2. Caches(holes, n) = f
  BY DEF Caches
<1>3. \E g : Rec(g, NumNodes)
  <2> DEFINE Bad == {m \in Nat : ~\E g : Rec(g, m)}
  <2> SUFFICES ASSUME NumNodes \in Bad PROVE FALSE
    BY <1>1
  <2>1. PICK m \in Bad : \A b \in Bad : m <= b
    <3>1. Bad \in SUBSET Nat /\ Bad # {}
      OBVIOUS
    <3> HIDE DEF Bad
    <3> QED BY <3>1, LeastNumber
  <2>2. CASE m = 0
    <3> DEFINE g0 == [k \in 0 .. 0 |-> {}]
    <3>1. Rec(g0, 0)
      OBVIOUS
    <3> HIDE DEF g0, Rec
    <3> QED BY <2>1, <2>2, <3>1
  <2>3. CASE m # 0
    <3>1. m - 1 \in Nat /\ m - 1 \notin Bad /\ m \in Nat
      <4>1. m \in Nat
        OBVIOUS
      <4> HIDE DEF Bad
      <4> QED BY <4>1, <2>1, <2>3
    <3>2. PICK g : Rec(g, m - 1)
      BY <3>1
    <3> DEFINE h == [k \in 0 .. m |-> IF k = m THEN WithHole(g[m - 1], holes, m, n) ELSE g[k]]
    <3>3. \A k \in 0 .. m : h[k] = IF k = 0 THEN {} ELSE WithHole(h[k - 1], holes, k, n)
      <4> SUFFICES ASSUME NEW k \in 0 .. m
                   PROVE h[k] = IF k = 0 THEN {} ELSE WithHole(h[k - 1], holes, k, n)
        OBVIOUS
      <4>1. CASE k = m
        <5>1. h[k] = WithHole(g[m - 1], holes, m, n) /\ h[m - 1] = g[m - 1] /\ k # 0
          BY <4>1, <3>1, <2>3
        <5> HIDE DEF h
        <5> QED BY <4>1, <5>1
      <4>2. CASE k # m
        <5>1. k \in 0 .. m - 1 /\ h[k] = g[k] /\ (k # 0 => h[k - 1] = g[k - 1])
          BY <4>2, <3>1
        <5>2. g[k] = IF k = 0 THEN {} ELSE WithHole(g[k - 1], holes, k, n)
          BY <3>2, <5>1
        <5> HIDE DEF h
        <5> QED BY <5>1, <5>2
      <4> QED BY <4>1, <4>2
    <3>4. Rec(h, m)
      <4>1. h = [k \in 0 .. m |-> h[k]]
        OBVIOUS
      <4> HIDE DEF h
      <4> QED BY <3>3, <4>1
    <3> HIDE DEF h, Rec
    <3> QED BY <2>1, <3>4
  <2> QED BY <2>2, <2>3
<1>4. Rec(f, NumNodes)
  <2> HIDE DEF Rec
  <2> QED BY <1>3
<1> HIDE DEF f
<1>5. \A k \in 0 .. NumNodes : f[k] = IF k = 0 THEN {} ELSE WithHole(f[k - 1], holes, k, n)
  BY <1>4
<1> HIDE DEF Rec
<1>6. CacheOk(holes, n, 0, {})
  <2> DEFINE S == 1 .. 0
  <2>1. S = {}
    OBVIOUS
  <2>2. Cardinality({}) = 0
    BY FS_EmptySet
  <2> HIDE DEF S
  <2> QED BY <2>1, <2>2 DEF CacheOk, TasksIn, S
<1>7. \A k \in 0 .. NumNodes : CacheOk(holes, n, k, f[k])
  <2> DEFINE Bad == {k \in 0 .. NumNodes : ~CacheOk(holes, n, k, f[k])}
  <2> SUFFICES ASSUME Bad # {} PROVE FALSE
    OBVIOUS
  <2>1. PICK k \in Bad : \A b \in Bad : k <= b
    <3>1. Bad \in SUBSET Nat
      OBVIOUS
    <3> HIDE DEF Bad
    <3> QED BY <3>1, LeastNumber
  <2>2. k \in 0 .. NumNodes /\ k # 0
    BY <1>1, <1>5, <1>6, <2>1
  <2>3. k - 1 \in 0 .. NumNodes /\ k - 1 \notin Bad /\ k \in Nodes
    BY <2>1, <2>2, <1>1 DEF Nodes
  <2>4. CacheOk(holes, n, k - 1, f[k - 1])
    BY <2>3
  <2>5. CacheOk(holes, n, k, WithHole(f[k - 1], holes, k, n))
    BY <2>3, <2>4, WithHoleIsOk
  <2> QED BY <1>5, <2>1, <2>2, <2>5
<1> QED BY <1>2, <1>7

\* The tasks fill the better holes first: as many get one as there is room for.
LEMMA DPPlaceIs ==
  ASSUME NEW holes \in [Nodes -> Holes], NEW n \in Nat, NEW cache,
         CacheOk(holes, n, NumNodes, cache)
  PROVE  /\ DPPlace(holes, cache, n) \in [Nodes -> Nat]
         /\ Total(DPPlace(holes, cache, n)) = MinOf(n, Total(Fits(holes)))
<1> DEFINE B(m) == TasksIn(Better(cache, holes, m), holes)
           fits == Fits(holes)
           place == DPPlace(holes, cache, n)
           all == TasksIn(cache, holes)
           P == Slots(Nodes, place)
           S == Slots(cache, fits)
           rank == [s \in S |-> B(s[1]) + s[2]]
           least == MinOf(n, all)
<1>1. cache \in SUBSET Nodes /\ IsFiniteSet(cache)
      /\ (all >= n \/ all = Total(fits)) /\ all \in Nat
  <2>1. cache \in SUBSET Nodes /\ (all >= n \/ all = Total(fits))
    BY DEF CacheOk, Nodes, Total
  <2> QED BY <2>1, NodesFinite, TasksInIs
<1>2. \A m \in cache : Better(cache, holes, m) \in SUBSET cache /\ m \notin Better(cache, holes, m)
  BY <1>1, WorseIsOrder DEF Better
<1>3. \A m \in Nodes : fits[m] \in Nat /\ fits[m] = holes[m].tasks
  BY HoleTyped
<1>4. \A m \in cache : B(m) \in Nat
  BY <1>1, <1>2, TasksInIs
<1>5. ASSUME NEW m \in cache, NEW C \in SUBSET cache, Better(cache, holes, m) \cup {m} \in SUBSET C
      PROVE  B(m) + fits[m] <= TasksIn(C, holes)
  <2> DEFINE A == Better(cache, holes, m)
  <2>1. A \in SUBSET Nodes /\ C \in SUBSET Nodes /\ m \in Nodes \ A /\ A \cup {m} \in SUBSET C
    BY <1>1, <1>2, <1>5
  <2> HIDE DEF A
  <2>2. TasksIn(A \cup {m}, holes) = TasksIn(A, holes) + holes[m].tasks
    BY <2>1, TasksInIs
  <2>3. TasksIn(A \cup {m}, holes) <= TasksIn(C, holes)
    BY <2>1, TasksInIs
  <2> QED BY <1>1, <1>3, <2>2, <2>3 DEF A
<1>6. \A m \in cache : B(m) + fits[m] <= all
  BY <1>2, <1>5
<1>7. ASSUME NEW m \in cache, NEW p \in cache, IsWorse(holes, m, p) PROVE B(p) + fits[p] <= B(m)
  <2> DEFINE C == Better(cache, holes, m)
  <2>1. p \in C /\ Better(cache, holes, p) \in SUBSET C
    BY <1>1, <1>7, WorseIsOrder DEF Better
  <2>2. C \in SUBSET cache
    BY <1>2
  <2> HIDE DEF C
  <2>3. B(p) + fits[p] <= TasksIn(C, holes)
    BY <1>5, <2>1, <2>2
  <2> QED BY <2>3 DEF C
<1>8. \A m \in Nodes : place[m] = IF m \in cache /\ n - B(m) > 0 THEN MinOf(fits[m], n - B(m)) ELSE 0
  BY <1>3 DEF DPPlace
<1>9. place \in [Nodes -> Nat]
  <2>1. \A m \in Nodes : place[m] \in Nat
    <3> HIDE DEF B, place
    <3> QED BY <1>3, <1>4, <1>8 DEF MinOf
  <2>2. place = [m \in Nodes |-> place[m]]
    BY DEF DPPlace
  <2> HIDE DEF place
  <2> QED BY <2>1, <2>2
<1> HIDE DEF B, place, fits
<1>10. IsFiniteSet(S) /\ Cardinality(S) = all
  <2>1. \A m \in cache : fits[m] \in Nat
    BY <1>1, <1>3
  <2> QED BY <1>1, <2>1, SlotsFinite DEF TasksIn, fits
<1>11. \A s \in S : /\ s[1] \in cache /\ s[2] \in 1 .. fits[s[1]] /\ s = <<s[1], s[2]>>
                    /\ rank[s] = B(s[1]) + s[2]
  BY DEF Slots
<1>12. \A m \in cache : \A i \in 1 .. fits[m] : <<m, i>> \in S /\ rank[<<m, i>>] = B(m) + i
  <2> SUFFICES ASSUME NEW m \in cache, NEW i \in 1 .. fits[m]
               PROVE <<m, i>> \in S /\ rank[<<m, i>>] = B(m) + i
    OBVIOUS
  <2>1. <<m, i>> \in S
    BY SlotsAre
  <2> HIDE DEF S
  <2> QED BY <2>1
<1>13. DOMAIN rank = S /\ rank = [s \in S |-> rank[s]]
  OBVIOUS
<1> HIDE DEF rank, S, all
<1>14. \A s \in S : rank[s] \in 1 .. all
  <2> SUFFICES ASSUME NEW s \in S PROVE rank[s] \in 1 .. all
    OBVIOUS
  <2> DEFINE m == s[1]
             i == s[2]
  <2>1. m \in cache /\ i \in 1 .. fits[m] /\ rank[s] = B(m) + i
    BY <1>11
  <2> HIDE DEF m, i
  <2>2. B(m) \in Nat /\ fits[m] \in Nat /\ B(m) + fits[m] <= all
    BY <1>1, <1>3, <1>4, <1>6, <2>1
  <2> QED BY <1>1, <2>1, <2>2
<1>15. \A x, y \in S : rank[x] = rank[y] => x = y
  <2> SUFFICES ASSUME NEW x \in S, NEW y \in S, rank[x] = rank[y] PROVE x = y
    OBVIOUS
  <2> DEFINE m == x[1]
             p == y[1]
             i == x[2]
             j == y[2]
  <2>1. /\ m \in cache /\ p \in cache /\ i \in 1 .. fits[m] /\ j \in 1 .. fits[p]
        /\ x = <<m, i>> /\ y = <<p, j>> /\ B(m) + i = B(p) + j
    BY <1>11
  <2> HIDE DEF m, p, i, j
  <2>2. B(m) \in Nat /\ B(p) \in Nat /\ fits[m] \in Nat /\ fits[p] \in Nat
    BY <1>1, <1>3, <1>4, <2>1
  <2>3. ~IsWorse(holes, m, p)
    <3> SUFFICES ASSUME IsWorse(holes, m, p) PROVE FALSE
      OBVIOUS
    <3>1. B(p) + fits[p] <= B(m)
      BY <1>7, <2>1
    <3> QED BY <2>1, <2>2, <3>1
  <2>4. ~IsWorse(holes, p, m)
    <3> SUFFICES ASSUME IsWorse(holes, p, m) PROVE FALSE
      OBVIOUS
    <3>1. B(m) + fits[m] <= B(p)
      BY <1>7, <2>1
    <3> QED BY <2>1, <2>2, <3>1
  <2>5. m = p
    BY <1>1, <2>1, <2>3, <2>4, WorseIsOrder
  <2> QED BY <2>1, <2>2, <2>5
<1>16. \A r \in 1 .. all : \E s \in S : rank[s] = r
  <2> DEFINE T == 1 .. all
  <2>1. IsFiniteSet(T) /\ Cardinality(T) = all
    BY <1>1, FirstNumbers
  <2>2. rank \in [S -> T]
    BY <1>13, <1>14
  <2> HIDE DEF T
  <2>3. Cardinality(S) = Cardinality(T)
    BY <1>10, <2>1
  <2>4. \A z \in T : \E s \in S : rank[s] = z
    BY <1>15, <2>1, <2>2, <2>3, ReachesAll
  <2> QED BY <2>4 DEF T
<1>17. P \in SUBSET S /\ \A s \in S : s \in P <=> rank[s] <= n
  <2>1. ASSUME NEW m \in cache, NEW i \in Nat \ {0} PROVE i <= place[m] <=> i <= fits[m] /\ B(m) + i <= n
    <3>1. B(m) \in Nat /\ fits[m] \in Nat
          /\ place[m] = IF n - B(m) > 0 THEN MinOf(fits[m], n - B(m)) ELSE 0
      BY <1>1, <1>3, <1>4, <1>8
    <3> QED BY <3>1 DEF MinOf
  <2>2. \A s : s \in P <=> \E m \in Nodes : \E i \in 1 .. place[m] : s = <<m, i>>
    BY SlotsAre
  <2> HIDE DEF P
  <2>3. ASSUME NEW s \in P PROVE s \in S /\ rank[s] <= n
    <3>1. PICK m \in Nodes : \E i \in 1 .. place[m] : s = <<m, i>>
      BY <2>2
    <3>2. PICK i \in 1 .. place[m] : s = <<m, i>>
      BY <3>1
    <3>3. m \in cache /\ place[m] \in Nat /\ i \in Nat \ {0} /\ i <= place[m]
      BY <1>8, <1>9, <3>2
    <3>4. i <= fits[m] /\ B(m) + i <= n
      BY <2>1, <3>3
    <3>5. i \in 1 .. fits[m]
      BY <1>1, <1>3, <3>3, <3>4
    <3> QED BY <1>12, <3>2, <3>3, <3>4, <3>5
  <2>4. ASSUME NEW s \in S, rank[s] <= n PROVE s \in P
    <3> DEFINE m == s[1]
               i == s[2]
    <3>1. m \in cache /\ i \in 1 .. fits[m] /\ s = <<m, i>> /\ rank[s] = B(m) + i
      BY <1>11
    <3> HIDE DEF m, i
    <3>2. fits[m] \in Nat /\ m \in Nodes /\ place[m] \in Nat
      BY <1>1, <1>3, <1>9, <3>1
    <3>3. i \in Nat \ {0} /\ i <= fits[m] /\ B(m) + i <= n
      BY <2>4, <3>1, <3>2
    <3>4. i \in 1 .. place[m]
      BY <2>1, <3>1, <3>2, <3>3
    <3> QED BY <2>2, <3>1, <3>2, <3>4
  <2> QED BY <2>3, <2>4
<1>18. Total(place) = Cardinality(P)
  BY DEF Total
<1>19. IsFiniteSet(P)
  BY <1>10, <1>17, FS_Subset
<1> HIDE DEF P
<1>20. least \in Nat /\ Cardinality(P) = least
  <2> DEFINE T == 1 .. least
             g == [s \in P |-> rank[s]]
  <2>1. least \in Nat /\ \A r \in Nat \ {0} : r <= least <=> r <= n /\ r <= all
    BY <1>1 DEF MinOf
  <2>2. ASSUME NEW s \in P PROVE rank[s] \in T
    <3>1. rank[s] \in 1 .. all /\ rank[s] <= n
      BY <1>14, <1>17
    <3> HIDE DEF least
    <3> QED BY <1>1, <2>1, <3>1
  <2>3. ASSUME NEW r \in T PROVE \E s \in P : rank[s] = r
    <3>1. r \in Nat \ {0} /\ r <= n /\ r <= all
      <4> HIDE DEF least
      <4> QED BY <2>1
    <3>2. PICK s \in S : rank[s] = r
      BY <1>1, <1>16, <3>1
    <3> QED BY <1>17, <3>1, <3>2
  <2> HIDE DEF least
  <2>4. IsFiniteSet(T) /\ Cardinality(T) = least
    BY <2>1, FirstNumbers
  <2> HIDE DEF T
  <2>5. g \in [P -> T] /\ (\A x, y \in P : g[x] = g[y] => x = y) /\ \A z \in T : \E s \in P : g[s] = z
    BY <1>15, <1>17, <2>2, <2>3
  <2> HIDE DEF g
  <2>6. Cardinality(T) = Cardinality(P)
    BY <1>19, <2>5, SameSize
  <2> QED BY <2>1, <2>4, <2>6
<1>21. least = MinOf(n, Total(fits))
  <2> DEFINE U == Total(fits)
  <2>1. all <= U /\ U \in Nat
    <3>1. TasksIn(cache, holes) <= TasksIn(Nodes, holes) /\ TasksIn(Nodes, holes) \in Nat
      BY <1>1, TasksInIs
    <3>2. U = TasksIn(Nodes, holes)
      BY DEF Total, TasksIn, fits
    <3> QED BY <3>1, <3>2 DEF all
  <2> HIDE DEF U
  <2>2. all >= n \/ all = U
    BY <1>1 DEF U
  <2>3. MinOf(n, all) = MinOf(n, U)
    BY <1>1, <2>1, <2>2 DEF MinOf
  <2> QED BY <2>3 DEF U
<1> HIDE DEF least
<1> QED BY <1>9, <1>18, <1>20, <1>21 DEF place, fits

-----------------------------------------------------------------------------
(* Every step.                                                             *)

LEMMA InitIsGood ==
  ASSUME Init
  PROVE  Good /\ HolesSuffice
<1>1. /\ queues = [n \in Nodes |-> {}] /\ sequence = 1 /\ arrived = 0 /\ net = {} /\ done = {}
      /\ tasks = [n \in Nodes |-> <<>>] /\ seq = [n \in Nodes |-> 0]
      /\ order = [n \in Nodes |-> <<>>]
  BY DEF Init
<1>2. IsFiniteSet({}) /\ Cardinality({}) = 0
  BY FS_EmptySet
<1>3. Len(NumTasks) \in Nat
  <2>1. NumTasks \in Seq(Nat \ {0})
    BY CentralAssumption DEF CentralAssumption
  <2> QED BY <2>1
<1>4. \A n \in Nodes : /\ queues[n] = {} /\ tasks[n] = <<>> /\ order[n] = <<>> /\ seq[n] = 0
                       /\ Elements(tasks[n]) = {} /\ TasksOf(queues[n]) = {}
                       /\ Orders(n) = {} /\ Coming(n) = {} /\ Told(n) = {}
  BY <1>1 DEF Elements, TasksOf, Orders, Coming, Told
<1>5. IsQueue({})
  BY <1>2 DEF IsQueue
<1>6. StateInv
  <2>1. /\ queues \in [Nodes -> SUBSET Entries] /\ seq \in [Nodes -> Nat]
        /\ tasks \in [Nodes -> Seq(Tids)] /\ order \in [Nodes -> Seq(Tids)]
    BY <1>1
  <2>2. \A n \in Nodes : NoRepeats(order[n])
    BY <1>4 DEF NoRepeats
  <2> QED BY <1>1, <1>3, <1>4, <1>5, <2>1, <2>2 DEF StateInv
<1>7. MessagesInv
  BY <1>1 DEF MessagesInv
<1>8. SeqInv /\ LastInv
  BY <1>4 DEF SeqInv, LastInv
<1>9. CountInv
  <2> SUFFICES ASSUME NEW n \in Nodes
               PROVE /\ IsFiniteSet(Coming(n)) /\ IsFiniteSet(Told(n))
                     /\ Cardinality(Coming(n)) + Len(tasks[n]) + Cardinality(Told(n)) <= Cardinality(queues[n])
    BY DEF CountInv
  <2>1. Coming(n) = {} /\ Told(n) = {} /\ tasks[n] = <<>> /\ queues[n] = {}
    BY <1>4
  <2>2. /\ Cardinality(Coming(n)) = 0 /\ Cardinality(Told(n)) = 0 /\ Len(tasks[n]) = 0
        /\ Cardinality(queues[n]) = 0
    BY <1>2, <2>1
  <2> QED BY <1>2, <2>1, <2>2
<1>10. IBPInv
  <2> SUFFICES ASSUME NEW n \in Nodes
               PROVE /\ Cardinality(queues[n]) <= 1
                     /\ TasksOf(queues[n]) = Coming(n) \cup Elements(tasks[n]) \cup Told(n)
                     /\ \A m \in Orders(n) : seq[n] < m.seq
    BY DEF IBPInv
  <2>1. Cardinality(queues[n]) = 0
    BY <1>2, <1>4
  <2> QED BY <1>4, <2>1
<1>11. HolesSuffice
  BY <1>1 DEF HolesSuffice
<1> QED BY <1>6, <1>7, <1>8, <1>9, <1>10, <1>11 DEF Good

\* How many holes DP has had at most, for which it has room.
LEMMA MostHoles ==
  ASSUME NEW n \in Nat, NEW caches,
         \A i \in 0 .. NumNodes : caches[i] \in SUBSET Nodes /\ Cardinality(caches[i]) <= n
  PROVE  (CHOOSE k \in 0 .. NumNodes :
            /\ \E i \in 0 .. NumNodes : Cardinality(caches[i]) = k
            /\ \A i \in 0 .. NumNodes : Cardinality(caches[i]) <= k) <= n
<1> DEFINE S == {Cardinality(caches[i]) : i \in 0 .. NumNodes}
           most(k) == /\ \E i \in 0 .. NumNodes : Cardinality(caches[i]) = k
                      /\ \A i \in 0 .. NumNodes : Cardinality(caches[i]) <= k
           c == CHOOSE k \in 0 .. NumNodes : most(k)
<1>1. NumNodes \in Nat /\ IsFiniteSet(Nodes) /\ Cardinality(Nodes) = NumNodes
  BY NodesFinite
<1>2. \A i \in 0 .. NumNodes : Cardinality(caches[i]) \in 0 .. NumNodes
  <2> SUFFICES ASSUME NEW i \in 0 .. NumNodes PROVE Cardinality(caches[i]) \in 0 .. NumNodes
    OBVIOUS
  <2>1. Cardinality(caches[i]) \in Nat /\ Cardinality(caches[i]) <= NumNodes
    BY <1>1, FS_Subset, FS_CardinalityType
  <2> QED BY <1>1, <2>1
<1>3. S \in SUBSET (0 .. NumNodes) /\ S # {}
  BY <1>1, <1>2
<1>4. PICK k \in S : \A y \in S : y <= k
  <2> HIDE DEF S
  <2> QED BY <1>1, <1>3, GreatestNumber
<1>5. k \in 0 .. NumNodes /\ most(k)
  BY <1>3, <1>4
<1> HIDE DEF most
<1>6. most(c)
  BY <1>5
<1>7. \E i \in 0 .. NumNodes : Cardinality(caches[i]) = c
  BY <1>6 DEF most
<1> HIDE DEF c
<1>8. c <= n
  BY <1>7
<1> QED BY <1>8 DEF c, most

LEMMA NewAppStep ==
  ASSUME Good, policy # "blind", NewApp
  PROVE  Good' /\ HolesSuffice'
<1> DEFINE a == arrived + 1
           n == NumTasks[a]
           none == [m \in Nodes |-> 0]
<1>1. /\ arrived < Len(NumTasks) /\ arrived' = a
      /\ UNCHANGED <<policy, tasks, seq, order, done>>
  BY DEF NewApp
<1>2. n \in Nat /\ a \in Nat /\ arrived \in Nat
  <2>1. NumTasks \in Seq(Nat \ {0})
    BY CentralAssumption DEF CentralAssumption
  <2>2. Len(NumTasks) \in Nat
    BY <2>1
  <2>3. arrived \in Nat /\ a \in 1 .. Len(NumTasks)
    BY <1>1, <2>2 DEF Good, StateInv
  <2> QED BY <2>1, <2>3
<1>3. none \in [Nodes -> Nat]
  OBVIOUS
<1>4. CASE policy \in {"MMP", "FSP"}
  <2>1. PICK place \in Divisions(n), slowness \in AnySlowness : Allocate(a, place, slowness)
    BY <1>4 DEF NewApp
  <2>2. place \in [Nodes -> Nat]
    BY <1>2 DEF Divisions
  <2>3. slowness \in [Nodes -> Nat]
    <3>1. CASE policy = "FSP"
      <4>1. slowness \in [Nodes -> Slownesses] /\ Slownesses \in SUBSET Nat
        BY <3>1, CentralAssumption DEF AnySlowness, CentralAssumption
      <4> QED BY <4>1
    <3>2. CASE policy # "FSP"
      BY <3>2 DEF AnySlowness
    <3> QED BY <3>1, <3>2
  <2>4. Good'
    BY <1>1, <1>4, <2>1, <2>2, <2>3, AllocateStep
  <2> QED BY <1>1, <1>4, <2>4 DEF HolesSuffice
<1>5. CASE policy = "IBP"
  <2>1. PICK place \in IBPPlaces(n) : Allocate(a, place, none)
    BY <1>5 DEF NewApp
  <2>2. PICK some \in SUBSET {m \in Nodes : queues[m] = {}} :
          place = [m \in Nodes |-> IF m \in some THEN 1 ELSE 0]
    BY <2>1 DEF IBPPlaces
  <2>3. place \in [Nodes -> Nat] /\ \A m \in Nodes : place[m] > 0 => place[m] = 1 /\ queues[m] = {}
    BY <2>2
  <2> HIDE DEF none
  <2>4. Good'
    BY <1>1, <1>3, <1>5, <2>1, <2>3, AllocateStep
  <2> QED BY <1>1, <1>5, <2>4 DEF HolesSuffice
<1>6. CASE policy = "DP"
  <2>1. PICK holes \in [Nodes -> Holes] :
          /\ Allocate(a, DPPlace(holes, Caches(holes, n)[NumNodes], n), none)
          /\ peak' = [fits |-> Total(Fits(holes)),
                      holes |-> CHOOSE k \in 0 .. NumNodes :
                        /\ \E i \in 0 .. NumNodes : Cardinality(Caches(holes, n)[i]) = k
                        /\ \A i \in 0 .. NumNodes : Cardinality(Caches(holes, n)[i]) <= k]
    BY <1>6 DEF NewApp
  <2> DEFINE caches == Caches(holes, n)
             cache == caches[NumNodes]
             place == DPPlace(holes, cache, n)
  <2>2. NumNodes \in Nat /\ \A i \in 0 .. NumNodes : CacheOk(holes, n, i, caches[i])
    <3> HIDE DEF n
    <3> QED BY <1>2, NodesFinite, CachesAre
  <2>3. \A i \in 0 .. NumNodes : caches[i] \in SUBSET Nodes /\ Cardinality(caches[i]) <= n
    <3> SUFFICES ASSUME NEW i \in 0 .. NumNodes PROVE caches[i] \in SUBSET Nodes /\ Cardinality(caches[i]) <= n
      OBVIOUS
    <3>1. CacheOk(holes, n, i, caches[i])
      BY <2>2
    <3> HIDE DEF caches, n
    <3>2. caches[i] \in SUBSET (1 .. i) /\ Cardinality(caches[i]) <= n
      BY <3>1 DEF CacheOk
    <3> QED BY <2>2, <3>2 DEF Nodes
  <2>4. place \in [Nodes -> Nat] /\ Total(place) = MinOf(n, Total(Fits(holes)))
    <3>1. CacheOk(holes, n, NumNodes, cache)
      BY <2>2
    <3> HIDE DEF cache, n
    <3> QED BY <1>2, <3>1, DPPlaceIs
  <2>5. peak'.holes <= n /\ peak'.fits = Total(Fits(holes))
    <3> HIDE DEF caches, n
    <3>1. (CHOOSE k \in 0 .. NumNodes :
             /\ \E i \in 0 .. NumNodes : Cardinality(caches[i]) = k
             /\ \A i \in 0 .. NumNodes : Cardinality(caches[i]) <= k) <= n
      BY <1>2, <2>3, MostHoles
    <3> QED BY <2>1, <3>1 DEF caches
  <2>6. Allocate(arrived + 1, place, none)
    BY <2>1
  <2> HIDE DEF caches, cache, place, none
  <2>7. Good' /\ Cardinality(OfLast') = Total(place)
    BY <1>1, <1>3, <1>6, <2>4, <2>6, AllocateStep
  <2>8. Cardinality(OfLast') = MinOf(n, Total(Fits(holes)))
    BY <2>4, <2>7
  <2>9. peak'.holes <= NumTasks[arrived'] /\ Cardinality(OfLast') = MinOf(NumTasks[arrived'], peak'.fits)
    BY <1>1, <2>5, <2>8 DEF MinOf
  <2>10. HolesSuffice'
    BY <2>9 DEF HolesSuffice, OfLast
  <2> QED BY <2>7, <2>10
<1>7. policy \in {"MMP", "FSP", "IBP", "DP"}
  BY DEF NewApp
<1> QED BY <1>4, <1>5, <1>6, <1>7

\* The steps that leave what there is of the last application.
LEMMA HolesStay ==
  ASSUME HolesSuffice, OfLast' = OfLast, UNCHANGED <<policy, arrived, peak>>
  PROVE  HolesSuffice'
BY DEF HolesSuffice, OfLast

LEMMA NextStep ==
  ASSUME IInv, [Next]_vars
  PROVE  IInv'
<1>1. CASE UNCHANGED vars
  <2>1. \A n : Orders(n)' = Orders(n) /\ Coming(n)' = Coming(n) /\ Told(n)' = Told(n)
    BY <1>1 DEF vars, Orders, Coming, Told
  <2>2. StateInv => StateInv'
    BY <1>1 DEF vars, StateInv
  <2>3. MessagesInv => MessagesInv'
    BY <1>1 DEF vars, MessagesInv, IsOrder, App
  <2>4. SeqInv => SeqInv'
    BY <1>1, <2>1 DEF vars, SeqInv, App
  <2>5. LastInv => LastInv'
    BY <1>1, <2>1 DEF vars, LastInv, App
  <2>6. CountInv => CountInv'
    BY <1>1, <2>1 DEF vars, CountInv
  <2>7. IBPInv => IBPInv'
    BY <1>1, <2>1 DEF vars, IBPInv
  <2>8. HolesSuffice => HolesSuffice'
    BY <1>1, <2>1 DEF vars, HolesSuffice
  <2>9. policy' = policy
    BY <1>1 DEF vars
  <2> QED BY <2>2, <2>3, <2>4, <2>5, <2>6, <2>7, <2>8, <2>9 DEF IInv, Good
<1>2. CASE Next
  <2>1. policy' = policy
    BY <1>2 DEF Next, NewApp, Reschedule, TaskFinished, TaskEnds
  <2> SUFFICES ASSUME policy # "blind" PROVE Good' /\ HolesSuffice'
    BY <2>1 DEF IInv
  <2>2. Good /\ HolesSuffice
    BY DEF IInv
  <2>3. CASE NewApp
    BY <2>2, <2>3, NewAppStep
  <2>4. ASSUME NEW m \in net, Reschedule(m) PROVE Good' /\ HolesSuffice'
    <3>1. Good' /\ OfLast' = OfLast
      BY <2>2, <2>4, RescheduleStep
    <3>2. UNCHANGED <<policy, arrived, peak>>
      BY <2>4 DEF Reschedule
    <3> QED BY <2>2, <3>1, <3>2, HolesStay
  <2>5. ASSUME NEW m \in net, TaskFinished(m) PROVE Good' /\ HolesSuffice'
    <3>1. Good' /\ OfLast' = OfLast
      BY <2>2, <2>5, TaskFinishedStep
    <3>2. UNCHANGED <<policy, arrived, peak>>
      BY <2>5 DEF TaskFinished
    <3> QED BY <2>2, <3>1, <3>2, HolesStay
  <2>6. ASSUME NEW n \in Nodes, TaskEnds(n) PROVE Good' /\ HolesSuffice'
    <3>1. Good' /\ OfLast' = OfLast
      BY <2>2, <2>6, TaskEndsStep
    <3>2. UNCHANGED <<policy, arrived, peak>>
      BY <2>6 DEF TaskEnds
    <3> QED BY <2>2, <3>1, <3>2, HolesStay
  <2> QED BY <1>2, <2>3, <2>4, <2>5, <2>6 DEF Next
<1> QED BY <1>1, <1>2

LEMMA InvariantHolds ==
  ASSUME IInv
  PROVE  DecisionsHold
<1>1. QueueMirrorsNode
  BY DEF IInv, Good, IBPInv, QueueMirrorsNode
<1>2. NeverThoughtFree
  BY DEF IInv, Good, CountInv, NeverThoughtFree
<1>3. HolesSuffice
  BY DEF IInv, HolesSuffice
<1> QED BY <1>1, <1>2, <1>3 DEF DecisionsHold, CopiesCanBeTrusted

\* For any nodes, applications, deadlines and policy, and whatever messages
\* overtake others: CentralizedIBP sends a task only to a node that is free, no
\* node has more to do than CentralizedScheduler thinks, so that the queue is
\* never empty when a TaskMonitorMsg comes, and the array of CentralizedDP is
\* large enough for its holes, in which as many tasks fit as in all the nodes.
THEOREM DecisionsAlwaysHold == Spec => []DecisionsHold
<1>1. Init => IInv
  BY InitIsGood DEF Init, IInv
<1>2. IInv /\ [Next]_vars => IInv'
  BY NextStep
<1>3. IInv => DecisionsHold
  BY InvariantHolds
<1> QED BY <1>1, <1>2, <1>3, PTL DEF Spec

=============================================================================
