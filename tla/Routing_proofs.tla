---------------------------- MODULE Routing_proofs ----------------------------
(***************************************************************************)
(* Proofs about Routing, for every tree, every set of requests and each of *)
(* the policies DP, MMP and FSP: no step forgets a task nor sends it       *)
(* twice, and MMP drops no task while its search finds room for it.        *)
(***************************************************************************)
EXTENDS Routing, FiniteSetTheorems, WellFoundedInduction, TLAPS

-----------------------------------------------------------------------------
(* Numbers.                                                                *)

\* A set of naturals that is not empty has a least element.
LEMMA LeastNumber ==
  ASSUME NEW S \in SUBSET Nat, S # {}
  PROVE  \E x \in S : \A y \in S : x <= y
<1> DEFINE R == {ss \in Nat \X Nat : ss[1] < ss[2]}
<1>1. IsWellFoundedOn(R, Nat)
  BY NatLessThanWellFounded DEF OpToRel
<1> HIDE DEF R
<1>2. PICK x \in S : \A y \in S : ~ (<<y, x>> \in R)
  BY <1>1, WFMin
<1>3. ASSUME NEW y \in S PROVE x <= y
  <2>1. ~ (y < x)
    BY <1>2 DEF R
  <2> QED BY <2>1
<1> QED BY <1>3

\* A product is at least each of its factors.
LEMMA Products ==
  ASSUME NEW a \in Nat, NEW b \in Nat
  PROVE  a * b \in Nat /\ (b > 0 => a <= a * b) /\ (a > 0 => b <= a * b)
OBVIOUS

\* Longer times hold as many tasks or more, and as many as whole ones fit in.
LEMMA Quotients ==
  ASSUME NEW a \in Nat, NEW b \in Nat, NEW time \in Nat \ {0}
  PROVE  /\ a \div time \in Nat /\ (a <= b => a \div time <= b \div time)
         /\ a \div time > 0 => a > 0
OBVIOUS

\* The two sides.
LEMMA TwoSides ==
  ASSUME NEW c \in Sides
  PROVE  0 \in Sides /\ 1 \in Sides /\ (c = 0 \/ c = 1)
BY DEF Sides

\* The greatest of two numbers or of one.
LEMMA Greatest ==
  ASSUME NEW some \in SUBSET Sides, some # {}, NEW v, \A c \in some : v[c] \in Nat
  PROVE  \E t \in {v[c] : c \in some} : \A c \in some : v[c] <= t
<1>1. CASE some = {0} \/ some = {1}
  BY <1>1
<1>2. CASE some = {0, 1}
  <2>1. v[0] \in Nat /\ v[1] \in Nat
    BY <1>2
  <2>2. CASE v[0] <= v[1]
    BY <1>2, <2>1, <2>2
  <2>3. CASE v[1] <= v[0]
    BY <1>2, <2>1, <2>3
  <2> QED BY <2>1, <2>2, <2>3
<1> QED BY <1>1, <1>2 DEF Sides

\* And the least one.
LEMMA Least ==
  ASSUME NEW some \in SUBSET Sides, some # {}, NEW v, \A c \in some : v[c] \in Nat
  PROVE  \E t \in {v[c] : c \in some} : \A c \in some : t <= v[c]
<1>1. CASE some = {0} \/ some = {1}
  BY <1>1
<1>2. CASE some = {0, 1}
  <2>1. v[0] \in Nat /\ v[1] \in Nat
    BY <1>2
  <2>2. CASE v[0] <= v[1]
    BY <1>2, <2>1, <2>2
  <2>3. CASE v[1] <= v[0]
    BY <1>2, <2>1, <2>3
  <2> QED BY <2>1, <2>2, <2>3
<1> QED BY <1>1, <1>2 DEF Sides

-----------------------------------------------------------------------------
(* The types.                                                              *)

Infos == [n : Nat, q : Nat, floor : Nat, top : Nat]
LinksOf == [Sides -> Infos \cup {NoAddr}]

\* A zone is that of some child.
GoodZone(z) == z = NoAddr \/ (z \in LinksOf /\ Heard(z) # {})
Addresses == Branches \cup Nodes \cup {NoAddr}
Bags == [src : Addresses, dst : Addresses, req : Requests, first : Nat, last : Nat,
         fromEN : BOOLEAN, est : Nat]
GoodBag(m) == m \in Bags /\ 1 <= m.first /\ m.first <= m.last /\ m.last <= NumTasks[m.req]

\* With MMP a dispatcher changes its zone apart from the links, but counts the
\* same nodes in it: with the same queues, or with all of them of one length
\* that those of the links do not exceed, but where the search had to stop.
SameQueues(z, links) == \A c \in Useful(z) : links[c].q = z[c].q
LevelQueues(z, links) ==
  \A c \in Useful(z) :
    /\ links[c].q <= z[c].q \/ links[c].q = LongestProbe
    /\ \A e \in Useful(z) : z[e].q = z[c].q

Covers(z, links) ==
  Useful(z) = Useful(links) /\ (SameQueues(z, links) \/ LevelQueues(z, links))

TypeInv ==
  /\ info \in [Branches -> LinksOf]
  /\ zone \in [Branches -> LinksOf \cup {NoAddr}]
  /\ \A b \in Branches : GoodZone(zone[b])
  /\ \A m \in net : GoodBag(m)
  /\ policy = "MMP" => \A b \in Branches : zone[b] = NoAddr \/ Covers(zone[b], info[b])

\* What is known of a child of use.
LEMMA HeardTyped ==
  ASSUME NEW links \in LinksOf
  PROVE  /\ \A c \in Heard(links) : links[c] \in Infos /\ links[c].n \in Nat /\ links[c].q \in Nat
                                 /\ links[c].floor \in Nat /\ links[c].top \in Nat
         /\ Useful(links) \subseteq Heard(links) /\ Heard(links) \subseteq Sides
BY DEF LinksOf, Infos, Heard, Useful

\* Joined links are a good zone, which covers them.
LEMMA JoinedIsGood ==
  ASSUME NEW links \in LinksOf
  PROVE  /\ Joined(links) \in LinksOf \cup {NoAddr} /\ GoodZone(Joined(links))
         /\ Joined(links) = NoAddr \/ Covers(Joined(links), links)
<1>1. CASE Heard(links) = {}
  BY <1>1 DEF Joined, GoodZone
<1>2. CASE Heard(links) # {}
  <2>1. Joined(links) = links
    BY <1>2 DEF Joined
  <2>2. Covers(links, links)
    BY DEF Covers, SameQueues
  <2> QED BY <1>2, <2>1, <2>2 DEF GoodZone
<1> QED BY <1>1, <1>2

\* What the father is told.
LEMMA SummaryIsGood ==
  ASSUME NEW z \in LinksOf, Heard(z) # {}
  PROVE  Summary(z) \in Infos
<1> DEFINE some == IF Useful(z) = {} THEN Heard(z) ELSE Useful(z)
           N(c) == IF c \in Useful(z) THEN z[c].n ELSE 0
<1>1. some \in SUBSET Sides /\ some # {} /\ some \subseteq Heard(z)
  BY HeardTyped DEF Heard, Useful
<1>2. \A c \in some : z[c].q \in Nat /\ z[c].floor \in Nat /\ z[c].top \in Nat
  BY <1>1, HeardTyped
<1>3. N(0) \in Nat /\ N(1) \in Nat
  BY HeardTyped
<1> HIDE DEF some, N
<1>4. (CHOOSE q \in {z[c].q : c \in some} : \A c \in some : z[c].q <= q) \in Nat
  <2> DEFINE v == [c \in some |-> z[c].q]
  <2>1. \E q \in {v[c] : c \in some} : \A c \in some : v[c] <= q
    BY <1>1, <1>2, Greatest
  <2>2. \E q \in {z[c].q : c \in some} : \A c \in some : z[c].q <= q
    BY <2>1
  <2> QED BY <1>2, <2>2
<1>5. (CHOOSE t \in {z[c].top : c \in some} : \A c \in some : z[c].top <= t) \in Nat
  <2> DEFINE v == [c \in some |-> z[c].top]
  <2>1. \E q \in {v[c] : c \in some} : \A c \in some : v[c] <= q
    BY <1>1, <1>2, Greatest
  <2>2. \E q \in {z[c].top : c \in some} : \A c \in some : z[c].top <= q
    BY <2>1
  <2> QED BY <1>2, <2>2
<1>6. (CHOOSE f \in {z[c].floor : c \in some} : \A c \in some : f <= z[c].floor) \in Nat
  <2> DEFINE v == [c \in some |-> z[c].floor]
  <2>1. \E q \in {v[c] : c \in some} : \A c \in some : q <= v[c]
    BY <1>1, <1>2, Least
  <2>2. \E q \in {z[c].floor : c \in some} : \A c \in some : q <= z[c].floor
    BY <2>1
  <2> QED BY <1>2, <2>2
<1>7. Summary(z) =
       [n |-> N(0) + N(1),
        q |-> CHOOSE q \in {z[c].q : c \in some} : \A c \in some : z[c].q <= q,
        floor |-> CHOOSE f \in {z[c].floor : c \in some} : \A c \in some : f <= z[c].floor,
        top |-> CHOOSE t \in {z[c].top : c \in some} : \A c \in some : z[c].top <= t]
  BY Zenon DEF Summary, Top, some, N
<1>8. N(0) + N(1) \in Nat
  BY <1>3
<1> QED BY <1>4, <1>5, <1>6, <1>7, <1>8 DEF Infos
-----------------------------------------------------------------------------
(* The three divisions: they give the children no more tasks than the bag  *)
(* has.                                                                    *)

GoodDivision(m, num) == num \in [Sides -> Nat] /\ num[0] + num[1] <= Size(m)

LEMMA SizeIsPositive ==
  ASSUME NEW m, GoodBag(m)
  PROVE  Size(m) \in Nat \ {0}
BY DEF GoodBag, Bags, Size

\* The nearest child first and the rest to the other one.
Nearest(size, room, first) ==
  [c \in Sides |-> IF c = first THEN MinOf(size, room[first])
                   ELSE MinOf(size - MinOf(size, room[first]), room[c])]

LEMMA TwoMins ==
  ASSUME NEW size \in Nat, NEW a \in Nat, NEW b \in Nat,
         NEW x, x = MinOf(size, a), NEW y, y = MinOf(size - x, b)
  PROVE  /\ x \in Nat /\ y \in Nat /\ x + y <= size /\ x <= a /\ y <= b
         /\ a + b >= size => x + y = size
BY DEF MinOf

\* No more tasks than there are, nor than each child has room for, and all if
\* there is room.
LEMMA NearestFirst ==
  ASSUME NEW size \in Nat, NEW room \in [Sides -> Nat], NEW first \in Sides, NEW num,
         num = Nearest(size, room, first)
  PROVE  /\ num \in [Sides -> Nat] /\ num[0] + num[1] <= size
         /\ \A c \in Sides : num[c] <= room[c]
         /\ room[0] + room[1] >= size => num[0] + num[1] = size
<1>1. first = 0 \/ first = 1
  BY DEF Sides
<1>2. room[0] \in Nat /\ room[1] \in Nat
  BY DEF Sides
<1>3. DOMAIN num = Sides /\ num = [c \in Sides |-> num[c]]
  BY DEF Nearest
<1>4. /\ num[0] \in Nat /\ num[1] \in Nat /\ num[0] <= room[0] /\ num[1] <= room[1]
      /\ num[0] + num[1] <= size
      /\ room[0] + room[1] >= size => num[0] + num[1] = size
  <2>1. CASE first = 0
    <3>1. num[0] = MinOf(size, room[0]) /\ num[1] = MinOf(size - num[0], room[1])
      BY <2>1 DEF Sides, Nearest
    <3> DEFINE x == num[0]
               y == num[1]
               a == room[0]
               b == room[1]
    <3>2. x = MinOf(size, a) /\ y = MinOf(size - x, b) /\ a \in Nat /\ b \in Nat
      BY <1>2, <3>1
    <3> HIDE DEF x, y, a, b
    <3>3. /\ x \in Nat /\ y \in Nat /\ x + y <= size /\ x <= a /\ y <= b
          /\ a + b >= size => x + y = size
      BY <3>2, TwoMins
    <3> QED BY <3>3 DEF x, y, a, b
  <2>2. CASE first = 1
    <3>1. num[1] = MinOf(size, room[1]) /\ num[0] = MinOf(size - num[1], room[0])
      BY <2>2 DEF Sides, Nearest
    <3> DEFINE x == num[1]
               y == num[0]
               a == room[1]
               b == room[0]
    <3>2. x = MinOf(size, a) /\ y = MinOf(size - x, b) /\ a \in Nat /\ b \in Nat
      BY <1>2, <3>1
    <3> HIDE DEF x, y, a, b
    <3>3. /\ x \in Nat /\ y \in Nat /\ x + y <= size /\ x <= a /\ y <= b
          /\ a + b >= size => x + y = size
      BY <3>2, TwoMins
    <3>4. x + y = y + x /\ a + b = b + a
      BY <3>2, <3>3
    <3> QED BY <3>3, <3>4 DEF x, y, a, b
  <2> QED BY <1>1, <2>1, <2>2
<1>5. \A c \in Sides : num[c] \in Nat /\ num[c] <= room[c]
  BY <1>4 DEF Sides
<1>6. num \in [Sides -> Nat]
  BY <1>3, <1>5
<1> QED BY <1>4, <1>5, <1>6

\* DPDispatcher::handle
LEMMA DPIsGood ==
  ASSUME NEW m, GoodBag(m), info[m.dst] \in LinksOf, NEW first \in Sides
  PROVE  /\ GoodDivision(m, DPDivision(m, first).num)
         /\ DPDivision(m, first).links \in LinksOf
<1> DEFINE links == info[m.dst]
           room == [c \in Sides |-> DPRoom(m, c)]
           num == [c \in Sides |-> IF c = first THEN MinOf(Size(m), DPRoom(m, first))
                                   ELSE MinOf(Size(m) - MinOf(Size(m), DPRoom(m, first)), DPRoom(m, c))]
           new == [c \in Sides |-> IF num[c] = 0 THEN links[c]
                                   ELSE [links[c] EXCEPT !.n = @ - num[c]]]
<1>1. ASSUME NEW c \in Sides
      PROVE  DPRoom(m, c) \in Nat /\ (DPRoom(m, c) # 0 => links[c] \in Infos /\ DPRoom(m, c) = links[c].n)
  BY HeardTyped DEF DPRoom
<1>2. room \in [Sides -> Nat] /\ \A c \in Sides : room[c] = DPRoom(m, c)
  BY <1>1
<1>3. Size(m) \in Nat
  BY SizeIsPositive
<1>4. num = Nearest(Size(m), room, first)
  BY <1>2 DEF Nearest
<1>5. DPDivision(m, first).num = num /\ DPDivision(m, first).links = new
  BY DEF DPDivision
<1> HIDE DEF room, num
<1>6. /\ num \in [Sides -> Nat] /\ num[0] + num[1] <= Size(m)
      /\ \A c \in Sides : num[c] <= room[c]
  BY <1>2, <1>3, <1>4, NearestFirst
<1>7. ASSUME NEW c \in Sides PROVE new[c] \in Infos \cup {NoAddr}
  <2>1. CASE num[c] = 0
    BY <2>1 DEF LinksOf
  <2>2. CASE num[c] # 0
    <3>1. links[c] \in Infos /\ num[c] \in Nat /\ num[c] <= links[c].n
      BY <1>1, <1>2, <1>6, <2>2
    <3>2. new[c] = [n |-> links[c].n - num[c], q |-> links[c].q, floor |-> links[c].floor,
                    top |-> links[c].top]
      BY <2>2, <3>1 DEF Infos
    <3>3. links[c].n - num[c] \in Nat /\ links[c].q \in Nat /\ links[c].floor \in Nat /\ links[c].top \in Nat
      BY <3>1 DEF Infos
    <3> QED BY <3>2, <3>3 DEF Infos
  <2> QED BY <2>1, <2>2
<1>8. new \in LinksOf
  BY <1>7 DEF LinksOf
<1> QED BY <1>5, <1>6, <1>8 DEF GoodDivision

-----------------------------------------------------------------------------
(* MMP.                                                                    *)

\* The probes of the search and the times of tasks are positive.
LEMMA ProbesTyped ==
  /\ LongestProbe \in Nat /\ DOMAIN Probe \in SUBSET Nat
  /\ \A k \in DOMAIN Probe : Probe[k] \in Nat
  /\ Len(Probe) \in DOMAIN Probe
  /\ \A r \in Requests : TaskTime[r] \in Nat \ {0}
BY RoutingAssumption DEF RoutingAssumption, LongestProbe

\* Tasks only fit in the queue of a child of use that ends before d.
LEMMA FitsTyped ==
  ASSUME NEW links \in LinksOf, NEW c \in Sides, NEW d \in Nat, NEW time \in Nat \ {0}
  PROVE  /\ Fits(links, c, d, time) \in Nat
         /\ Fits(links, c, d, time) > 0 => c \in Useful(links) /\ links[c].q < d
<1>1. CASE c \in Useful(links) /\ links[c].q < d
  <2>1. d - links[c].q \in Nat
    BY <1>1, HeardTyped
  <2> QED BY <1>1, <2>1, Quotients DEF Fits
<1>2. CASE ~ (c \in Useful(links) /\ links[c].q < d)
  BY <1>2 DEF Fits
<1> QED BY <1>1, <1>2

\* The longer the queue of a child, the fewer tasks fit in it.
LEMMA FitsLess ==
  ASSUME NEW links \in LinksOf, NEW z \in LinksOf, NEW c \in Sides, NEW d \in Nat,
         NEW time \in Nat \ {0}, c \in Useful(z) => c \in Useful(links) /\ links[c].q <= z[c].q
  PROVE  Fits(z, c, d, time) <= Fits(links, c, d, time)
<1>1. CASE c \in Useful(z) /\ z[c].q < d
  <2>1. z[c].q \in Nat /\ links[c].q \in Nat /\ c \in Useful(links) /\ links[c].q <= z[c].q
    BY <1>1, HeardTyped
  <2>2. /\ d - z[c].q \in Nat /\ d - links[c].q \in Nat /\ d - z[c].q <= d - links[c].q
        /\ links[c].q < d
    BY <1>1, <2>1
  <2> QED BY <1>1, <2>1, <2>2, Quotients DEF Fits
<1>2. CASE ~ (c \in Useful(z) /\ z[c].q < d)
  <2>1. Fits(z, c, d, time) = 0
    BY <1>2 DEF Fits
  <2> QED BY <2>1, FitsTyped
<1> QED BY <1>1, <1>2

\* The queue length that the search finds has room for all tasks, if any probe
\* has, or is the last one.
LEMMA BalancedFits ==
  ASSUME NEW z \in LinksOf, NEW m, GoodBag(m), NEW d, d = Balanced(z, m)
  PROVE  /\ d \in Nat
         /\ d = LongestProbe \/ Counted(z, d, TaskTime[m.req]) >= Size(m)
         /\ Counted(z, LongestProbe, TaskTime[m.req]) >= Size(m) =>
              Counted(z, d, TaskTime[m.req]) >= Size(m)
<1> DEFINE enough == {k \in DOMAIN Probe : Counted(z, Probe[k], TaskTime[m.req]) >= Size(m)}
           least == CHOOSE k \in enough : \A j \in enough : k <= j
<1>1. CASE enough = {}
  <2>1. d = LongestProbe
    BY <1>1 DEF Balanced
  <2> QED BY <2>1, ProbesTyped
<1>2. CASE enough # {}
  <2>1. enough \in SUBSET Nat
    BY ProbesTyped
  <2>2. least \in enough
    <3>1. \E k \in enough : \A j \in enough : k <= j
      BY <1>2, <2>1, LeastNumber
    <3> HIDE DEF enough
    <3> QED BY <3>1
  <2>3. d = Probe[least]
    BY <1>2 DEF Balanced
  <2> HIDE DEF least
  <2> QED BY <2>2, <2>3, ProbesTyped
<1> QED BY <1>1, <1>2

\* Raising the queues of children that are of use.
LEMMA RaisedIsGood ==
  ASSUME NEW links \in LinksOf, NEW some \in SUBSET Useful(links), NEW d \in Nat
  PROVE  /\ Raised(links, some, d) \in LinksOf /\ Heard(Raised(links, some, d)) = Heard(links)
         /\ Useful(Raised(links, some, d)) = Useful(links)
         /\ \A c \in Useful(links) : Raised(links, some, d)[c].q = IF c \in some THEN d ELSE links[c].q
<1> DEFINE new == Raised(links, some, d)
<1>1. \A c \in Sides : new[c] = IF c \in some THEN [links[c] EXCEPT !.q = d] ELSE links[c]
  BY DEF Raised
<1>2. ASSUME NEW c \in some
      PROVE  /\ c \in Sides /\ links[c] # NoAddr
             /\ new[c] = [n |-> links[c].n, q |-> d, floor |-> links[c].floor, top |-> links[c].top]
             /\ links[c].n \in Nat /\ links[c].floor \in Nat /\ links[c].top \in Nat
  <2>1. c \in Sides /\ links[c] \in Infos /\ links[c] # NoAddr
    BY HeardTyped DEF Useful, Heard
  <2>2. new[c] = [links[c] EXCEPT !.q = d]
    BY <1>1, <2>1
  <2> HIDE DEF new
  <2> QED BY <2>1, <2>2 DEF Infos
<1>3. ASSUME NEW c \in some PROVE new[c] \in Infos /\ new[c].n = links[c].n /\ new[c].q = d
  <2> DEFINE x == new[c]
  <2>1. /\ x = [n |-> links[c].n, q |-> d, floor |-> links[c].floor, top |-> links[c].top]
        /\ links[c].n \in Nat /\ links[c].floor \in Nat /\ links[c].top \in Nat
    BY <1>2
  <2> HIDE DEF x
  <2>2. x \in Infos /\ x.n = links[c].n /\ x.q = d
    BY <2>1 DEF Infos
  <2> QED BY <2>2 DEF x
<1>4. new \in LinksOf
  <2>1. \A c \in Sides : new[c] \in Infos \cup {NoAddr}
    BY <1>1, <1>3 DEF LinksOf
  <2> QED BY <2>1 DEF LinksOf, Raised
<1> HIDE DEF new
<1>5. Heard(new) = Heard(links)
  <2>1. \A c \in some : new[c] # NoAddr
    BY <1>3, RoutingAssumption DEF RoutingAssumption, Infos
  <2> QED BY <1>1, <1>2, <2>1 DEF Heard
<1>6. Useful(new) = Useful(links)
  <2>1. \A c \in Heard(links) : new[c].n = links[c].n
    BY <1>1, <1>3, HeardTyped
  <2> QED BY <1>5, <2>1 DEF Useful
<1> QED BY <1>1, <1>3, <1>4, <1>5, <1>6, HeardTyped DEF new

\* A group has room for as many tasks as one of its nodes.
LEMMA GroupRoom ==
  ASSUME NEW links \in LinksOf, NEW c \in Sides, NEW d \in Nat, NEW time \in Nat \ {0},
         Fits(links, c, d, time) # 0
  PROVE  /\ (links[c].n * (d - links[c].q)) \div time \in Nat
         /\ Fits(links, c, d, time) <= (links[c].n * (d - links[c].q)) \div time
<1>1. c \in Useful(links) /\ links[c].q < d
  BY FitsTyped
<1> DEFINE x == d - links[c].q
           n == links[c].n
<1>2. x \in Nat /\ n \in Nat /\ n > 0
  BY <1>1, HeardTyped DEF Useful
<1>3. Fits(links, c, d, time) = x \div time
  BY <1>1 DEF Fits
<1> HIDE DEF x, n
<1>4. n * x \in Nat /\ x <= n * x
  BY <1>2, Products
<1>5. (n * x) \div time \in Nat /\ x \div time <= (n * x) \div time
  <2> DEFINE y == n * x
  <2>1. y \in Nat /\ x <= y
    BY <1>4
  <2> HIDE DEF y
  <2>2. y \div time \in Nat /\ x \div time <= y \div time
    BY <1>2, <2>1, Quotients
  <2> QED BY <2>2 DEF y
<1> QED BY <1>3, <1>5 DEF x, n

\* MMPDispatcher::handle: what the children get, what is known of them and of
\* the zone then, and that nothing is left if the search found room in the zone.
LEMMA MMPIsGood ==
  ASSUME NEW m, GoodBag(m), info[m.dst] \in LinksOf, zone[m.dst] \in LinksOf, Heard(zone[m.dst]) # {},
         Covers(zone[m.dst], info[m.dst]),
         NEW first \in Sides, NEW d, d = Balanced(zone[m.dst], m),
         NEW out, out = MMPDivision(m, first, d)
  PROVE  /\ GoodDivision(m, out.num)
         /\ out.links \in LinksOf /\ out.zone \in LinksOf /\ Heard(out.zone) # {}
         /\ Covers(out.zone, out.links)
         /\ (/\ Counted(zone[m.dst], LongestProbe, TaskTime[m.req]) >= Size(m)
             /\ \A c \in Useful(info[m.dst]) : info[m.dst][c].q # LongestProbe)
              => out.num[0] + out.num[1] = Size(m)
<1> DEFINE links == info[m.dst]
           z == zone[m.dst]
           time == TaskTime[m.req]
           Room(c) == IF Fits(links, c, d, time) = 0 THEN 0
                      ELSE (links[c].n * (d - links[c].q)) \div time
           room == [c \in Sides |-> Room(c)]
           here == MinOf(Size(m), Room(first))
           num == [c \in Sides |-> IF c = first THEN here ELSE MinOf(Size(m) - here, Room(c))]
           used == {c \in Sides : Room(c) > 0 /\ (c = first \/ here < Size(m))}
           full == {c \in Sides : Fits(z, c, d, time) > 0}
<1>1. Size(m) \in Nat \ {0} /\ time \in Nat \ {0}
  BY SizeIsPositive, ProbesTyped DEF GoodBag, Bags
<1>2. /\ d \in Nat /\ (d = LongestProbe \/ Counted(z, d, time) >= Size(m))
      /\ Counted(z, LongestProbe, time) >= Size(m) => Counted(z, d, time) >= Size(m)
  BY BalancedFits
<1>3. out.num = num /\ out.links = Raised(links, used, d) /\ out.zone = Raised(z, full, d)
  BY DEF MMPDivision, ZoneFilled
<1> HIDE DEF time
<1>4. ASSUME NEW c \in Sides
      PROVE  /\ Fits(links, c, d, time) \in Nat /\ Fits(z, c, d, time) \in Nat
             /\ Fits(links, c, d, time) > 0 => c \in Useful(links) /\ links[c].q < d
             /\ Fits(z, c, d, time) > 0 => c \in Useful(z) /\ z[c].q < d
  BY <1>1, <1>2, FitsTyped
<1>5. ASSUME NEW c \in Sides
      PROVE  /\ Room(c) \in Nat /\ (Room(c) > 0 <=> Fits(links, c, d, time) > 0)
             /\ Fits(links, c, d, time) <= Room(c)
  <2>1. CASE Fits(links, c, d, time) = 0
    BY <2>1
  <2>2. CASE Fits(links, c, d, time) # 0
    <3>1. Room(c) = (links[c].n * (d - links[c].q)) \div time
      BY <2>2
    <3> HIDE DEF Room
    <3>2. Room(c) \in Nat /\ Fits(links, c, d, time) <= Room(c)
      BY <1>1, <1>2, <2>2, <3>1, GroupRoom
    <3> QED BY <1>4, <2>2, <3>2
  <2> QED BY <2>1, <2>2
<1>6. room \in [Sides -> Nat] /\ \A c \in Sides : room[c] = Room(c)
  BY <1>5
<1>7. num = Nearest(Size(m), room, first)
  BY <1>6 DEF Nearest
<1>8. used \in SUBSET Useful(links) /\ full \in SUBSET Useful(z)
  BY <1>4, <1>5
<1>9. \A e \in full : e \in Sides /\ z[e].q < d
  BY <1>4
<1>10. ASSUME NEW c \in Useful(z), NEW e \in Sides, NEW other \in LinksOf, e \in Useful(other),
              other[e].q = z[c].q
       PROVE  c \in full <=> Fits(other, e, d, time) > 0
  BY <1>10, HeardTyped DEF Fits
<1>11. \/ used = {c \in Sides : Fits(links, c, d, time) > 0}
       \/ used = {first}
  <2>1. CASE here < Size(m)
    BY <1>5, <2>1
  <2>2. CASE ~ (here < Size(m))
    <3>1. Room(first) > 0
      BY <1>1, <1>5, <2>2 DEF MinOf
    <3> QED BY <2>2, <3>1
  <2> QED BY <2>1, <2>2
<1>12. \A c \in used : Fits(links, c, d, time) > 0
  BY <1>5
<1> HIDE DEF room, num, used, full, Room, z, links
<1>13. /\ num \in [Sides -> Nat] /\ num[0] + num[1] <= Size(m)
       /\ room[0] + room[1] >= Size(m) => num[0] + num[1] = Size(m)
  BY <1>1, <1>6, <1>7, NearestFirst
<1>14. links \in LinksOf /\ z \in LinksOf /\ Heard(z) # {} /\ Covers(z, links)
  BY DEF links, z
<1>15. /\ out.links \in LinksOf /\ Useful(out.links) = Useful(links)
       /\ \A c \in Useful(links) : out.links[c].q = IF c \in used THEN d ELSE links[c].q
  <2>1. d \in Nat /\ out.links = Raised(links, used, d)
    BY <1>2, <1>3
  <2>2. links \in LinksOf /\ used \in SUBSET Useful(links)
    BY <1>8, <1>14
  <2> DEFINE new == Raised(links, used, d)
  <2>3. /\ new \in LinksOf /\ Useful(new) = Useful(links)
        /\ \A c \in Useful(links) : new[c].q = IF c \in used THEN d ELSE links[c].q
    BY ONLY <2>1, <2>2, RaisedIsGood
  <2> HIDE DEF new
  <2> QED BY ONLY <2>1, <2>3 DEF new
<1>16. /\ out.zone \in LinksOf /\ Useful(out.zone) = Useful(z) /\ Heard(out.zone) = Heard(z)
       /\ \A c \in Useful(z) : out.zone[c].q = IF c \in full THEN d ELSE z[c].q
  <2>1. d \in Nat /\ out.zone = Raised(z, full, d)
    BY <1>2, <1>3
  <2>2. z \in LinksOf /\ full \in SUBSET Useful(z)
    BY <1>8, <1>14
  <2> DEFINE new == Raised(z, full, d)
  <2>3. /\ new \in LinksOf /\ Useful(new) = Useful(z) /\ Heard(new) = Heard(z)
        /\ \A c \in Useful(z) : new[c].q = IF c \in full THEN d ELSE z[c].q
    BY ONLY <2>1, <2>2, RaisedIsGood
  <2> HIDE DEF new
  <2> QED BY ONLY <2>1, <2>3 DEF new
<1>17. Covers(out.zone, out.links)
  <2> DEFINE zq(c) == IF c \in full THEN d ELSE z[c].q
             lq(c) == IF c \in used THEN d ELSE links[c].q
  <2>1. Useful(z) = Useful(links) /\ Useful(out.zone) = Useful(z) /\ Useful(out.links) = Useful(z)
    BY <1>14, <1>15, <1>16 DEF Covers
  <2>2. \A c \in Useful(z) : /\ out.zone[c].q = zq(c) /\ out.links[c].q = lq(c) /\ c \in Sides
                             /\ z[c].q \in Nat /\ links[c].q \in Nat
    BY <1>14, <1>15, <1>16, <2>1, HeardTyped
  <2>3. ASSUME \A c \in Useful(z) : c \in full,
               \A c \in Useful(z) : links[c].q <= z[c].q \/ links[c].q = LongestProbe
        PROVE  LevelQueues(out.zone, out.links)
    <3>1. \A c \in Useful(z) : zq(c) = d /\ (lq(c) <= d \/ lq(c) = LongestProbe)
      BY <1>2, <1>9, <2>2, <2>3
    <3> HIDE DEF zq, lq
    <3> QED BY <2>1, <2>2, <3>1 DEF LevelQueues
  <2>4. CASE SameQueues(z, links)
    <3>1. \A c \in Useful(z) : links[c].q = z[c].q /\ c \in Sides /\ c \in Useful(links)
      BY <2>1, <2>2, <2>4 DEF SameQueues
    <3>2. \A c \in Useful(z) : c \in full <=> Fits(links, c, d, time) > 0
      BY <1>10, <1>14, <3>1
    <3>3. CASE \A c \in Useful(z) : c \in used <=> c \in full
      <4>1. \A c \in Useful(z) : lq(c) = zq(c)
        BY <3>1, <3>3
      <4> HIDE DEF zq, lq
      <4> QED BY <2>1, <2>2, <4>1 DEF SameQueues, Covers
    <3>4. CASE ~ \A c \in Useful(z) : c \in used <=> c \in full
      <4>1. PICK e \in Useful(z) : ~ (e \in used <=> e \in full)
        BY <3>4
      <4>2. e # first /\ first \in used /\ e \notin used
        <5>1. e \in Sides /\ (e \in used => e \in full)
          BY <1>12, <3>1, <3>2
        <5>2. e \in full => Fits(links, e, d, time) > 0
          BY <3>2
        <5>3. e \notin used /\ used # {c \in Sides : Fits(links, c, d, time) > 0}
          BY <4>1, <5>1, <5>2
        <5>4. used = {first}
          BY <1>11, <5>3
        <5> QED BY <5>3, <5>4
      <4>3. first \in full /\ e \in full
        BY <1>8, <1>12, <2>1, <3>2, <4>1, <4>2
      <4>4. \A c \in Useful(z) : c \in full
        BY <2>2, <4>2, <4>3 DEF Sides
      <4>5. \A c \in Useful(z) : links[c].q <= z[c].q \/ links[c].q = LongestProbe
        BY <2>2, <3>1
      <4> QED BY <2>1, <2>3, <4>4, <4>5 DEF Covers
    <3> QED BY <3>3, <3>4
  <2>5. CASE LevelQueues(z, links)
    <3>1. \A c, e \in Useful(z) : c \in full <=> e \in full
      <4> SUFFICES ASSUME NEW c \in Useful(z), NEW e \in Useful(z) PROVE c \in full <=> e \in full
        OBVIOUS
      <4>1. z[e].q = z[c].q /\ e \in Sides /\ c \in Sides
        BY <2>2, <2>5 DEF LevelQueues
      <4>2. /\ c \in full <=> Fits(z, e, d, time) > 0
            /\ e \in full <=> Fits(z, e, d, time) > 0
        BY <1>10, <1>14, <4>1
      <4> QED BY <4>2
    <3>2. CASE \A c \in Useful(z) : c \in full
      BY <2>1, <2>3, <2>5, <3>2 DEF LevelQueues, Covers
    <3>3. CASE \A c \in Useful(z) : c \notin full
      <4>1. d = LongestProbe
        <5>1. Fits(z, 0, d, time) = 0 /\ Fits(z, 1, d, time) = 0
          BY <1>4, <3>3 DEF full, Sides
        <5>2. Counted(z, d, time) = 0
          BY <5>1 DEF Counted
        <5> QED BY <1>1, <1>2, <5>2
      <4>2. \A c \in Useful(z) : zq(c) = z[c].q /\ (lq(c) <= z[c].q \/ lq(c) = LongestProbe)
        BY <2>5, <3>3, <4>1 DEF LevelQueues
      <4>3. \A c, e \in Useful(z) : z[e].q = z[c].q
        BY <2>5 DEF LevelQueues
      <4> HIDE DEF zq, lq
      <4>4. LevelQueues(out.zone, out.links)
        BY <2>1, <2>2, <4>2, <4>3 DEF LevelQueues
      <4> QED BY <2>1, <4>4 DEF Covers
    <3> QED BY <3>1, <3>2, <3>3
  <2> QED BY <1>14, <2>4, <2>5 DEF Covers
<1>18. ASSUME Counted(z, LongestProbe, time) >= Size(m),
              \A c \in Useful(links) : links[c].q # LongestProbe
       PROVE  num[0] + num[1] = Size(m)
  <2>1. \A c \in Useful(z) : c \in Useful(links) /\ links[c].q <= z[c].q
    BY <1>14, <1>18, HeardTyped DEF Covers, SameQueues, LevelQueues
  <2>2. Fits(z, 0, d, time) + Fits(z, 1, d, time) >= Size(m)
    BY <1>2, <1>18 DEF Counted
  <2>3. \A c \in Sides : Fits(z, c, d, time) <= Fits(links, c, d, time)
    BY <1>1, <1>2, <1>14, <2>1, FitsLess
  <2>4. 0 \in Sides /\ 1 \in Sides
    BY DEF Sides
  <2>5. room[0] + room[1] >= Size(m)
    <3>1. /\ Fits(z, 0, d, time) <= Fits(links, 0, d, time)
          /\ Fits(z, 1, d, time) <= Fits(links, 1, d, time)
      BY <2>3, <2>4
    <3>2. Fits(links, 0, d, time) <= room[0] /\ Fits(links, 1, d, time) <= room[1]
      BY <1>5, <1>6, <2>4
    <3>3. /\ Fits(z, 0, d, time) \in Nat /\ Fits(links, 0, d, time) \in Nat /\ room[0] \in Nat
          /\ Fits(z, 1, d, time) \in Nat /\ Fits(links, 1, d, time) \in Nat /\ room[1] \in Nat
      BY <1>4, <1>6, <2>4
    <3> QED BY <1>1, <2>2, <3>1, <3>2, <3>3
  <2> QED BY <1>13, <2>5
<1> QED BY <1>3, <1>13, <1>14, <1>15, <1>16, <1>17, <1>18 DEF GoodDivision, links, z, time
-----------------------------------------------------------------------------
(* FSP.                                                                    *)

LEMMA SlownessTyped ==
  ASSUME NEW links \in LinksOf, NEW c \in Useful(links), NEW k \in Nat
  PROVE  Slowness(links, c, k) \in Nat
BY HeardTyped DEF Slowness, MaxOf

\* In each round there is a child for every place.
LEMMA InTurnIsUseful ==
  ASSUME NEW links \in LinksOf, Useful(links) # {}, NEW first \in Sides, NEW i \in Nat \ {0}
  PROVE  InTurn(links, first, i) \in Useful(links)
<1> DEFINE U == Useful(links)
           k == (i - 1) \div Cardinality(U) + 1
           place == (i - 1) % Cardinality(U)
           Worst(c) == {d \in U \ {c} : Worse(links, first, k, c, d)}
<1>1. U \in SUBSET Sides /\ U # {} /\ i - 1 \in Nat
  BY HeardTyped
<1>2. SUFFICES \E c \in U : Cardinality(Worst(c)) = place
  <2>1. InTurn(links, first, i) = CHOOSE c \in U : Cardinality(Worst(c)) = place
    BY DEF InTurn
  <2> HIDE DEF U, place, Worst
  <2> QED BY <1>2, <2>1 DEF U
<1>3. ASSUME NEW c, U = {c} PROVE \E x \in U : Cardinality(Worst(x)) = place
  <2>1. Cardinality(U) = 1
    BY <1>3, FS_Singleton
  <2>2. place = 0
    BY <1>1, <2>1
  <2>3. Worst(c) = {}
    BY <1>3
  <2> HIDE DEF U, place, Worst
  <2> QED BY <1>3, <2>2, <2>3, FS_EmptySet
<1>4. CASE U = {0, 1}
  <2>1. Cardinality(U) = 2
    <3> DEFINE zero == {0}
    <3>1. IsFiniteSet(zero) /\ Cardinality(zero) = 1
      BY FS_Singleton
    <3>2. 1 \notin zero /\ zero \cup {1} = U
      BY <1>4
    <3> HIDE DEF zero, U
    <3>3. Cardinality(zero \cup {1}) = Cardinality(zero) + 1
      BY <3>1, <3>2, FS_AddElement
    <3> QED BY <3>1, <3>2, <3>3
  <2>2. k \in Nat /\ (place = 0 \/ place = 1)
    BY <1>1, <2>1
  <2>3. ASSUME NEW c \in U, NEW d \in U, c # d
        PROVE  Worst(c) = (IF Worse(links, first, k, c, d) THEN {d} ELSE {})
    BY <1>4, <2>3
  <2>4. Worse(links, first, k, 0, 1) <=> ~Worse(links, first, k, 1, 0)
    <3>1. Slowness(links, 0, k) \in Nat /\ Slowness(links, 1, k) \in Nat
      <4> HIDE DEF k
      <4> QED BY <1>4, <2>2, SlownessTyped
    <3> HIDE DEF k
    <3> QED BY <3>1 DEF Worse, Sides
  <2>5. 0 \in U /\ 1 \in U
    BY <1>4
  <2>6. Cardinality({}) = 0 /\ \A x : Cardinality({x}) = 1
    BY FS_EmptySet, FS_Singleton
  <2> HIDE DEF U, k, place, Worst
  <2>7. CASE Worse(links, first, k, 0, 1)
    <3>1. Cardinality(Worst(0)) = 1 /\ Cardinality(Worst(1)) = 0
      BY <2>3, <2>4, <2>5, <2>6, <2>7
    <3> QED BY <2>2, <2>5, <3>1
  <2>8. CASE ~Worse(links, first, k, 0, 1)
    <3>1. Cardinality(Worst(0)) = 0 /\ Cardinality(Worst(1)) = 1
      BY <2>3, <2>4, <2>5, <2>6, <2>8
    <3> QED BY <2>2, <2>5, <3>1
  <2> QED BY <2>7, <2>8
<1>5. U = {0} \/ U = {1} \/ U = {0, 1}
  <2> HIDE DEF U
  <2> QED BY <1>1 DEF Sides
<1> QED BY <1>3, <1>4, <1>5

\* How often a child had its turn.
Times(turn, i, c) == Cardinality({j \in 1 .. i : turn[j] = c})
Served(links, turn, i) ==
  (IF Times(turn, i, 0) > 0 THEN Times(turn, i, 0) * links[0].n ELSE 0)
    + (IF Times(turn, i, 1) > 0 THEN Times(turn, i, 1) * links[1].n ELSE 0)

LEMMA AfterTurnsDef ==
  ASSUME NEW links, NEW turn, NEW i
  PROVE  /\ AfterTurns(links, turn, i).per = [c \in Sides |-> Times(turn, i, c)]
         /\ AfterTurns(links, turn, i).worst = turn[i]
         /\ AfterTurns(links, turn, i).total = Served(links, turn, i)
         /\ AfterTurns(links, turn, i).slowness
              = Slowness(links, turn[i], [c \in Sides |-> Times(turn, i, c)][turn[i]])
BY DEF AfterTurns, Times, Served, Sides

LEMMA TimesTyped ==
  ASSUME NEW tasks \in Nat, NEW turn \in [1 .. tasks -> Sides], NEW i \in 0 .. tasks
  PROVE  /\ \A c \in Sides : Times(turn, i, c) \in Nat
         /\ Times(turn, i, 0) + Times(turn, i, 1) = i
         /\ \A c \in Sides, j \in 1 .. i : turn[j] = c => Times(turn, i, c) > 0
<1> DEFINE T(c) == {j \in 1 .. i : turn[j] = c}
<1>1. IsFiniteSet(1 .. i) /\ Cardinality(1 .. i) = i
  BY FS_Interval
<1>2. ASSUME NEW c \in Sides
      PROVE  IsFiniteSet(T(c)) /\ Cardinality(T(c)) \in Nat /\ (T(c) # {} => Cardinality(T(c)) > 0)
  <2>1. T(c) \in SUBSET (1 .. i)
    OBVIOUS
  <2> HIDE DEF T
  <2> QED BY <1>1, <2>1, FS_Subset, FS_CardinalityType, FS_EmptySet
<1>3. T(0) \cup T(1) = 1 .. i /\ T(0) \cap T(1) = {} /\ 0 \in Sides /\ 1 \in Sides
  BY DEF Sides
<1>4. \A c : Times(turn, i, c) = Cardinality(T(c))
  BY DEF Times
<1>5. \A c \in Sides, j \in 1 .. i : turn[j] = c => T(c) # {}
  OBVIOUS
<1> HIDE DEF T
<1>6. Cardinality(T(0) \cup T(1)) = Cardinality(T(0)) + Cardinality(T(1)) - Cardinality(T(0) \cap T(1))
  BY <1>2, <1>3, FS_Union
<1>7. Cardinality(T(0) \cap T(1)) = 0
  BY <1>3, FS_EmptySet
<1>8. i = Cardinality(T(0)) + Cardinality(T(1))
  <2>1. Cardinality(T(0)) \in Nat /\ Cardinality(T(1)) \in Nat
    BY <1>2, <1>3
  <2>2. Cardinality(T(0) \cup T(1)) = i
    BY <1>1, <1>3
  <2> DEFINE a == Cardinality(T(0))
             b == Cardinality(T(1))
             u == Cardinality(T(0) \cup T(1))
             n == Cardinality(T(0) \cap T(1))
  <2>3. u = a + b - n /\ n = 0 /\ a \in Nat /\ b \in Nat /\ u = i
    BY <1>6, <1>7, <2>1, <2>2
  <2> HIDE DEF a, b, u, n
  <2>4. i = a + b
    BY <2>3
  <2> QED BY <2>4 DEF a, b
<1> QED BY <1>2, <1>4, <1>5, <1>8

\* One more turn.
LEMMA NextTurn ==
  ASSUME NEW tasks \in Nat, NEW turn \in [1 .. tasks -> Sides], NEW i \in 1 .. tasks, NEW c \in Sides
  PROVE  Times(turn, i, c) = Times(turn, i - 1, c) + (IF turn[i] = c THEN 1 ELSE 0)
<1> DEFINE T == {j \in 1 .. i : turn[j] = c}
           S == {j \in 1 .. i - 1 : turn[j] = c}
<1>1. IsFiniteSet(S) /\ Cardinality(S) \in Nat
  <2>1. S \in SUBSET (1 .. i - 1) /\ IsFiniteSet(1 .. i - 1)
    BY FS_Interval
  <2> HIDE DEF S
  <2> QED BY <2>1, FS_Subset, FS_CardinalityType
<1>2. i \notin S /\ T = IF turn[i] = c THEN S \cup {i} ELSE S
  <2>1. 1 .. i = (1 .. i - 1) \cup {i} /\ i \notin 1 .. i - 1
    OBVIOUS
  <2> QED BY <2>1
<1>3. Times(turn, i, c) = Cardinality(T) /\ Times(turn, i - 1, c) = Cardinality(S)
  BY DEF Times
<1> HIDE DEF T, S
<1>4. Cardinality(S \cup {i}) = Cardinality(S) + 1
  BY <1>1, <1>2, FS_AddElement
<1> QED BY <1>1, <1>2, <1>3, <1>4

\* Each turn serves as many tasks as the child has nodes.
LEMMA ServedGrows ==
  ASSUME NEW links \in LinksOf, NEW tasks \in Nat, NEW turn \in [1 .. tasks -> Useful(links)],
         NEW i \in 0 .. tasks
  PROVE  /\ Served(links, turn, i) \in Nat /\ Served(links, turn, i) >= i
         /\ Served(links, turn, 0) = 0
         /\ i > 0 => Served(links, turn, i) = Served(links, turn, i - 1) + links[turn[i]].n
<1>1. turn \in [1 .. tasks -> Sides] /\ 0 \in Sides /\ 1 \in Sides
  BY HeardTyped, TwoSides DEF Sides
<1>2. \A c \in Useful(links) : links[c].n \in Nat \ {0} /\ c \in Sides
  BY HeardTyped DEF Useful
<1> DEFINE N(c) == IF c \in Useful(links) THEN links[c].n ELSE 1
<1>3. N(0) \in Nat \ {0} /\ N(1) \in Nat \ {0}
  BY <1>2
<1>4. ASSUME NEW k \in 0 .. tasks
      PROVE  /\ Times(turn, k, 0) \in Nat /\ Times(turn, k, 1) \in Nat
             /\ Times(turn, k, 0) + Times(turn, k, 1) = k
             /\ Served(links, turn, k) = Times(turn, k, 0) * N(0) + Times(turn, k, 1) * N(1)
  <2>1. /\ Times(turn, k, 0) \in Nat /\ Times(turn, k, 1) \in Nat
        /\ Times(turn, k, 0) + Times(turn, k, 1) = k
    BY <1>1, TimesTyped
  <2>2. ASSUME NEW c \in Sides, Times(turn, k, c) > 0 PROVE c \in Useful(links)
    <3> DEFINE T == {j \in 1 .. k : turn[j] = c}
    <3>1. Cardinality(T) > 0 /\ Cardinality({}) = 0
      BY <2>2, FS_EmptySet DEF Times
    <3>2. T # {}
      <4> DEFINE none == {}
                 size == Cardinality(T)
                 zero == Cardinality(none)
      <4>1. size > 0 /\ zero = 0 /\ (T = none => size = zero)
        BY <3>1
      <4> HIDE DEF T, size, zero
      <4> QED BY <4>1
    <3> QED BY <3>2
  <2>3. ASSUME NEW c \in Sides
        PROVE  (IF Times(turn, k, c) > 0 THEN Times(turn, k, c) * links[c].n ELSE 0)
                 = Times(turn, k, c) * N(c)
    <3>1. Times(turn, k, c) \in Nat /\ N(c) \in Nat
      BY <1>1, <1>2, TimesTyped
    <3>2. CASE Times(turn, k, c) > 0
      BY <2>2, <3>2
    <3>3. CASE ~(Times(turn, k, c) > 0)
      <4>1. Times(turn, k, c) = 0
        BY <3>1, <3>3
      <4> HIDE DEF N
      <4>2. Times(turn, k, c) * N(c) = 0
        BY <3>1, <4>1
      <4> QED BY <3>3, <4>2
    <3> QED BY <3>2, <3>3
  <2> HIDE DEF N
  <2> QED BY <1>1, <2>1, <2>3 DEF Served
<1>5. ASSUME i > 0
      PROVE  Served(links, turn, i) = Served(links, turn, i - 1) + links[turn[i]].n
  <2>1. i \in 1 .. tasks /\ i - 1 \in 0 .. tasks /\ turn[i] \in Useful(links)
    BY <1>5
  <2>2. N(turn[i]) = links[turn[i]].n
    BY <2>1
  <2>3. turn[i] = 0 \/ turn[i] = 1
    BY <1>1, <2>1 DEF Sides
  <2> DEFINE a == Times(turn, i - 1, 0)
             b == Times(turn, i - 1, 1)
             p == N(0)
             q == N(1)
  <2>4. /\ Times(turn, i, 0) = a + (IF turn[i] = 0 THEN 1 ELSE 0)
        /\ Times(turn, i, 1) = b + (IF turn[i] = 1 THEN 1 ELSE 0)
    BY <1>1, <2>1, NextTurn
  <2>5. /\ Served(links, turn, i) = Times(turn, i, 0) * p + Times(turn, i, 1) * q
        /\ Served(links, turn, i - 1) = a * p + b * q
        /\ a \in Nat /\ b \in Nat /\ p \in Nat /\ q \in Nat
    BY <1>3, <1>4, <2>1
  <2>6. turn[i] = 0 => p = links[turn[i]].n
    BY <2>2
  <2>7. turn[i] = 1 => q = links[turn[i]].n
    BY <2>2
  <2> HIDE DEF a, b, p, q, N
  <2>8. CASE turn[i] = 0
    <3>1. Served(links, turn, i) = (a + 1) * p + b * q
      BY <2>4, <2>5, <2>8
    <3>2. (a + 1) * p + b * q = a * p + b * q + p
      BY <2>5
    <3> QED BY <2>5, <2>6, <2>8, <3>1, <3>2
  <2>9. CASE turn[i] = 1
    <3>1. Served(links, turn, i) = a * p + (b + 1) * q
      BY <2>4, <2>5, <2>9
    <3>2. a * p + (b + 1) * q = a * p + b * q + q
      BY <2>5
    <3> QED BY <2>5, <2>7, <2>9, <3>1, <3>2
  <2> QED BY <2>3, <2>8, <2>9
<1>6. Served(links, turn, 0) = 0
  <2>1. /\ Times(turn, 0, 0) \in Nat /\ Times(turn, 0, 1) \in Nat
        /\ Times(turn, 0, 0) + Times(turn, 0, 1) = 0
    BY <1>4
  <2>2. Times(turn, 0, 0) = 0 /\ Times(turn, 0, 1) = 0
    BY <2>1
  <2> QED BY <2>2 DEF Served
<1>7. Served(links, turn, i) \in Nat /\ Served(links, turn, i) >= i
  <2> DEFINE a == Times(turn, i, 0)
             b == Times(turn, i, 1)
             p == N(0)
             q == N(1)
  <2>1. a \in Nat /\ b \in Nat /\ a + b = i /\ p \in Nat \ {0} /\ q \in Nat \ {0}
        /\ Served(links, turn, i) = a * p + b * q
    BY <1>3, <1>4
  <2> HIDE DEF a, b, p, q
  <2>2. a * p \in Nat /\ a <= a * p /\ b * q \in Nat /\ b <= b * q
    BY <2>1, Products
  <2> QED BY <2>1, <2>2
<1> QED BY <1>5, <1>6, <1>7

\* The number of turns that serves all tasks for the first time.
LEMMA EnoughTurns ==
  ASSUME NEW links \in LinksOf, Useful(links) # {}, NEW first \in Sides, NEW tasks \in Nat \ {0},
         NEW r, r = Enough(links, Rounds(links, first, tasks), tasks)
  PROVE  /\ r.total \in Nat /\ r.total >= tasks /\ r.worst \in Useful(links)
         /\ r.total - links[r.worst].n < tasks
         /\ r.per \in [Sides -> Nat] /\ r.per[r.worst] > 0
         /\ r.slowness \in Nat
         /\ \A c \in Sides : r.per[c] > 0 => c \in Useful(links)
         /\ r.total = (IF r.per[0] > 0 THEN r.per[0] * links[0].n ELSE 0)
                      + (IF r.per[1] > 0 THEN r.per[1] * links[1].n ELSE 0)
<1> DEFINE turn == [i \in 1 .. tasks |-> InTurn(links, first, i)]
           rounds == Rounds(links, first, tasks)
<1>1. turn \in [1 .. tasks -> Useful(links)]
  BY InTurnIsUseful
<1>2. rounds = {AfterTurns(links, turn, i) : i \in 1 .. tasks}
  BY DEF Rounds
<1> HIDE DEF turn, rounds
<1>3. turn \in [1 .. tasks -> Sides]
  BY <1>1, HeardTyped
<1>16. ASSUME NEW j
       PROVE  /\ AfterTurns(links, turn, j).per = [c \in Sides |-> Times(turn, j, c)]
              /\ AfterTurns(links, turn, j).worst = turn[j]
              /\ AfterTurns(links, turn, j).total = Served(links, turn, j)
              /\ AfterTurns(links, turn, j).slowness
                   = Slowness(links, turn[j], [c \in Sides |-> Times(turn, j, c)][turn[j]])
  BY AfterTurnsDef
<1> DEFINE S == {i \in 1 .. tasks : Served(links, turn, i) >= tasks}
<1>4. tasks \in S
  BY <1>1, ServedGrows
<1>5. PICK i \in S : \A j \in S : i <= j
  <2>1. S \in SUBSET Nat /\ S # {}
    BY <1>4
  <2> HIDE DEF S
  <2> QED BY <2>1, LeastNumber
<1>6. Served(links, turn, i - 1) < tasks
  <2>1. CASE i = 1
    BY <1>1, <2>1, ServedGrows
  <2>2. CASE i # 1
    <3>1. i - 1 \in 1 .. tasks /\ i - 1 \notin S /\ i - 1 \in 0 .. tasks
      BY <1>5, <2>2
    <3>2. Served(links, turn, i - 1) \in Nat
      BY <1>1, <3>1, ServedGrows
    <3> QED BY <3>1, <3>2
  <2> QED BY <2>1, <2>2
<1>7. Served(links, turn, i) - links[turn[i]].n < tasks
  <2>1. i \in 0 .. tasks /\ i > 0 /\ i - 1 \in 0 .. tasks
    OBVIOUS
  <2>2. Served(links, turn, i) = Served(links, turn, i - 1) + links[turn[i]].n
        /\ Served(links, turn, i - 1) \in Nat
    BY <1>1, <2>1, ServedGrows
  <2>3. links[turn[i]].n \in Nat
    BY <1>1, HeardTyped
  <2> QED BY <1>6, <2>2, <2>3
<1> DEFINE Fit(x) == x.total >= tasks /\ x.total - links[x.worst].n < tasks
<1>8. \E x \in rounds : Fit(x)
  <2> DEFINE x == AfterTurns(links, turn, i)
  <2>1. x \in rounds
    BY <1>2
  <2> HIDE DEF S
  <2>2. x.total = Served(links, turn, i) /\ x.worst = turn[i]
    BY <1>16
  <2>3. Served(links, turn, i) >= tasks
    BY DEF S
  <2> HIDE DEF x
  <2> QED BY <1>7, <2>1, <2>2, <2>3
<1>9. r \in rounds /\ Fit(r)
  <2>1. r = CHOOSE x \in rounds : Fit(x)
    BY DEF Enough, rounds
  <2> HIDE DEF Fit
  <2> QED BY <1>8, <2>1
<1>10. PICK k \in 1 .. tasks : r = AfterTurns(links, turn, k)
  BY <1>2, <1>9
<1>11. /\ r.per = [c \in Sides |-> Times(turn, k, c)] /\ r.worst = turn[k]
       /\ r.total = Served(links, turn, k)
       /\ r.slowness = Slowness(links, turn[k], [c \in Sides |-> Times(turn, k, c)][turn[k]])
  BY <1>10, AfterTurnsDef
<1>12. /\ \A c \in Sides : r.per[c] = Times(turn, k, c) /\ r.per[c] \in Nat
       /\ Times(turn, k, turn[k]) > 0 /\ r.worst \in Useful(links) /\ r.worst \in Sides
       /\ r.total \in Nat
  <2>1. k \in 0 .. tasks /\ k \in 1 .. k /\ turn[k] \in Sides /\ turn[k] \in Useful(links)
    BY <1>1, <1>3
  <2>2. \A c \in Sides : Times(turn, k, c) \in Nat
    BY <1>3, <2>1, TimesTyped
  <2>3. Times(turn, k, turn[k]) > 0
    BY <1>3, <2>1, TimesTyped
  <2>4. Served(links, turn, k) \in Nat
    BY <1>1, <2>1, ServedGrows
  <2> QED BY <1>11, <2>1, <2>2, <2>3, <2>4
<1>13. ASSUME NEW c \in Sides, r.per[c] > 0 PROVE c \in Useful(links)
  <2>1. Times(turn, k, c) > 0
    BY <1>12, <1>13
  <2>2. {j \in 1 .. k : turn[j] = c} # {}
    BY <2>1, FS_EmptySet DEF Times
  <2> QED BY <1>1, <2>2
<1>14. r.total = (IF r.per[0] > 0 THEN r.per[0] * links[0].n ELSE 0)
                 + (IF r.per[1] > 0 THEN r.per[1] * links[1].n ELSE 0)
  BY <1>11, <1>12 DEF Served, Sides
<1>15. r.per \in [Sides -> Nat] /\ r.per[r.worst] > 0
  BY <1>11, <1>12
<1>17. r.slowness \in Nat
  <2>1. r.slowness = Slowness(links, r.worst, Times(turn, k, r.worst))
    BY <1>11, <1>12
  <2>2. Times(turn, k, r.worst) \in Nat
    BY <1>12
  <2> QED BY <1>12, <2>1, <2>2, SlownessTyped
<1> QED BY <1>9, <1>12, <1>13, <1>14, <1>15, <1>17
\* FSPDispatcher::handle: when the bag is divided, every task gets a node.
LEMMA FSPDivisionIsGood ==
  ASSUME NEW m, GoodBag(m), NEW links \in LinksOf, Useful(links) # {}, NEW first \in Sides,
         NEW r, r = Enough(links, Rounds(links, first, Size(m)), Size(m)),
         NEW div, div = FSPDivision(links, r, Size(m))
  PROVE  GoodDivision(m, div.num) /\ div.num[0] + div.num[1] = Size(m) /\ div.links \in LinksOf
<1> DEFINE tasks == Size(m)
           P(c) == IF r.per[c] > 0 THEN r.per[c] * links[c].n ELSE 0
           over(c) == IF c = r.worst THEN r.total - tasks ELSE 0
           s(c) == Slowness(links, c, r.per[c])
           num == [c \in Sides |-> IF r.per[c] = 0 THEN 0
                                   ELSE r.per[c] * links[c].n - (IF c = r.worst THEN r.total - tasks ELSE 0)]
           new == [c \in Sides |->
                     IF r.per[c] = 0 THEN links[c]
                     ELSE [links[c] EXCEPT !.n = 0, !.floor = s(c), !.top = MaxOf(@, s(c))]]
<1>1. tasks \in Nat \ {0}
  BY SizeIsPositive
<1>2. /\ r.total \in Nat /\ r.total >= tasks /\ r.worst \in Useful(links)
      /\ r.total - links[r.worst].n < tasks
      /\ r.per \in [Sides -> Nat] /\ r.per[r.worst] > 0
      /\ \A c \in Sides : r.per[c] > 0 => c \in Useful(links)
      /\ r.total = P(0) + P(1)
  BY <1>1, EnoughTurns
<1>3. div.num = num /\ div.links = new
  BY DEF FSPDivision
<1>4. r.worst \in Sides /\ 0 \in Sides /\ 1 \in Sides
  BY <1>2, HeardTyped, TwoSides
<1>5. ASSUME NEW c \in Sides, r.per[c] > 0
      PROVE  /\ links[c] \in Infos /\ links[c].n \in Nat \ {0} /\ s(c) \in Nat /\ links[c].q \in Nat
             /\ links[c].top \in Nat
  <2>1. c \in Useful(links) /\ r.per[c] \in Nat
    BY <1>2, <1>5
  <2>2. s(c) \in Nat
    BY <2>1, SlownessTyped
  <2> HIDE DEF s
  <2> QED BY <2>1, <2>2, HeardTyped DEF Useful
<1>6. ASSUME NEW c \in Sides
      PROVE  /\ P(c) \in Nat /\ num[c] = P(c) - over(c)
             /\ r.per[c] > 0 => links[c].n <= P(c)
  <2>1. CASE r.per[c] = 0
    <3>1. c # r.worst
      BY <1>2, <2>1
    <3> QED BY <2>1, <3>1
  <2>2. CASE r.per[c] # 0
    <3>1. r.per[c] \in Nat /\ r.per[c] > 0 /\ links[c].n \in Nat
      BY <1>2, <1>5, <2>2
    <3>2. r.per[c] * links[c].n \in Nat /\ links[c].n <= r.per[c] * links[c].n
      BY <3>1, Products
    <3> QED BY <2>2, <3>1, <3>2
  <2> QED BY <2>1, <2>2
<1>7. new \in LinksOf
  <2>1. ASSUME NEW c \in Sides PROVE new[c] \in Infos \cup {NoAddr}
    <3>1. CASE r.per[c] = 0
      BY <3>1 DEF LinksOf
    <3>2. CASE r.per[c] # 0
      <4>0. r.per[c] > 0
        BY <1>2, <3>2
      <4>1. links[c] \in Infos /\ s(c) \in Nat /\ links[c].q \in Nat /\ links[c].top \in Nat
        BY <1>5, <4>0
      <4>2. new[c] = [links[c] EXCEPT !.n = 0, !.floor = s(c), !.top = MaxOf(links[c].top, s(c))]
        BY <3>2
      <4> DEFINE x == new[c]
                 k == s(c)
                 y == MaxOf(links[c].top, k)
      <4>3. x = [n |-> 0, q |-> links[c].q, floor |-> k, top |-> y]
        BY <4>1, <4>2 DEF Infos
      <4>4. y \in Nat /\ k \in Nat
        BY <4>1 DEF MaxOf
      <4> HIDE DEF x, y, k
      <4>5. x \in Infos
        BY <4>1, <4>3, <4>4 DEF Infos
      <4> QED BY <4>5 DEF x
    <3> QED BY <3>1, <3>2
  <2> HIDE DEF s
  <2> QED BY <2>1 DEF LinksOf
<1>8. num \in [Sides -> Nat] /\ num[0] + num[1] = tasks
  <2>1. ASSUME NEW c \in Sides PROVE num[c] \in Nat
    <3>1. CASE c = r.worst
      <4>1. links[c].n <= P(c) /\ links[c].n \in Nat
        BY <1>2, <1>5, <1>6, <3>1
      <4>2. P(c) \in Nat /\ num[c] = P(c) - (r.total - tasks)
        BY <1>6, <3>1
      <4>3. r.total - links[c].n < tasks
        BY <1>2, <3>1
      <4> HIDE DEF P, num, tasks
      <4> QED BY <1>1, <1>2, <4>1, <4>2, <4>3
    <3>2. CASE c # r.worst
      <4>1. P(c) \in Nat /\ num[c] = P(c)
        BY <1>6, <3>2
      <4> QED BY <4>1
    <3> QED BY <3>1, <3>2
  <2>2. num[0] = P(0) - over(0) /\ num[1] = P(1) - over(1) /\ P(0) \in Nat /\ P(1) \in Nat
    BY <1>4, <1>6
  <2>3. over(0) + over(1) = r.total - tasks /\ over(0) \in Int /\ over(1) \in Int
    <3>1. r.worst = 0 \/ r.worst = 1
      BY <1>4, TwoSides
    <3> HIDE DEF tasks
    <3> QED BY <1>1, <1>2, <3>1
  <2> HIDE DEF P, over, tasks
  <2>4. num[0] + num[1] = tasks
    <3> HIDE DEF num
    <3> QED BY <1>1, <1>2, <2>2, <2>3
  <2> QED BY <2>1, <2>4
<1> HIDE DEF num, new
<1> QED BY <1>1, <1>3, <1>7, <1>8 DEF GoodDivision

\* It may also be kept together.
LEMMA FSPIsGood ==
  ASSUME NEW m, GoodBag(m), info[m.dst] \in LinksOf, NEW out \in FSPOutcomes(m)
  PROVE  GoodDivision(m, out.num) /\ out.links \in LinksOf /\ out.est \in Nat
<1> DEFINE links == info[m.dst]
<1>1. ASSUME NEW none, none = [c \in Sides |-> 0] PROVE GoodDivision(m, none)
  BY <1>1, SizeIsPositive DEF GoodDivision, Sides
<1>2. ASSUME out.num = [c \in Sides |-> 0], out.links = links
      PROVE  GoodDivision(m, out.num) /\ out.links \in LinksOf
  BY <1>1, <1>2
<1>3. ASSUME Useful(links) # {}, NEW first \in Sides,
             out.num = FSPDivision(links, Enough(links, Rounds(links, first, Size(m)), Size(m)), Size(m)).num,
             out.links = FSPDivision(links, Enough(links, Rounds(links, first, Size(m)), Size(m)), Size(m)).links
      PROVE  GoodDivision(m, out.num) /\ out.links \in LinksOf
  <2> DEFINE r == Enough(links, Rounds(links, first, Size(m)), Size(m))
             div == FSPDivision(links, r, Size(m))
  <2>1. GoodDivision(m, div.num) /\ div.links \in LinksOf
    <3> DEFINE l == links
    <3>1. l \in LinksOf /\ Useful(l) # {} /\ r = Enough(l, Rounds(l, first, Size(m)), Size(m))
          /\ div = FSPDivision(l, r, Size(m))
      BY <1>3
    <3> HIDE DEF l, r, div
    <3> QED BY <3>1, FSPDivisionIsGood
  <2> QED BY <1>3, <2>1
<1>4. \/ out.num = [c \in Sides |-> 0] /\ out.links = links
      \/ /\ Useful(links) # {}
         /\ \E first \in Sides :
              /\ out.num = FSPDivision(links, Enough(links, Rounds(links, first, Size(m)), Size(m)), Size(m)).num
              /\ out.links = FSPDivision(links, Enough(links, Rounds(links, first, Size(m)), Size(m)), Size(m)).links
  <2>1. CASE Useful(links) = {}
    BY <2>1 DEF FSPOutcomes, FSPOutcome
  <2>2. CASE Useful(links) # {}
    <3>1. PICK first \in Sides :
            out = FSPOutcome(m, links, Enough(links, Rounds(links, first, Size(m)), Size(m)))
      BY <2>2 DEF FSPOutcomes
    <3> DEFINE r == Enough(links, Rounds(links, first, Size(m)), Size(m))
               div == FSPDivision(links, r, Size(m))
    <3>2. \/ out.num = [c \in Sides |-> 0] /\ out.links = links
          \/ out.num = div.num /\ out.links = div.links
      <4> HIDE DEF r
      <4>1. out = FSPOutcome(m, links, r)
        BY <3>1 DEF r
      <4> HIDE DEF links
      <4> QED BY <4>1 DEF FSPOutcome
    <3> QED BY <2>2, <3>2
  <2> QED BY <2>1, <2>2
<1>5. out.est \in Nat
  <2>1. m.est \in Nat /\ Infinite \in Nat
    BY DEF GoodBag, Bags, Infinite
  <2>2. CASE Useful(links) = {}
    BY <2>1, <2>2 DEF FSPOutcomes, FSPOutcome, MinSlowness
  <2>3. CASE Useful(links) # {}
    <3>1. PICK first \in Sides :
            out = FSPOutcome(m, links, Enough(links, Rounds(links, first, Size(m)), Size(m)))
      BY <2>3 DEF FSPOutcomes
    <3> DEFINE r == Enough(links, Rounds(links, first, Size(m)), Size(m))
    <3>2. r.slowness \in Nat
      <4> DEFINE l == links
      <4>1. l \in LinksOf /\ Useful(l) # {} /\ r = Enough(l, Rounds(l, first, Size(m)), Size(m))
            /\ Size(m) \in Nat \ {0}
        BY <2>3, SizeIsPositive
      <4> HIDE DEF l, r
      <4> QED BY <4>1, EnoughTurns
    <3>3. out.est = MinSlowness(links, r) \/ out.est = m.est
      <4> HIDE DEF r
      <4>1. out = FSPOutcome(m, links, r)
        BY <3>1 DEF r
      <4> HIDE DEF links
      <4> QED BY <4>1 DEF FSPOutcome
    <3> HIDE DEF r, links
    <3> QED BY <2>1, <3>2, <3>3 DEF MinSlowness
  <2> QED BY <2>2, <2>3
<1> HIDE DEF links
<1>6. GoodDivision(m, out.num) /\ out.links \in LinksOf
  BY <1>2, <1>3, <1>4
<1> QED BY <1>5, <1>6
-----------------------------------------------------------------------------
(* What sendTasks sends.                                                   *)

Has(m, t) == t \in TasksOf(m)

\* Where the tasks of the right child and the rest begin.
LEMMA Starts ==
  ASSUME NEW m, NEW num \in [Sides -> Nat], GoodBag(m), num[0] + num[1] <= Size(m)
  PROVE  /\ RestOf(m, num).first = m.first + num[0] + num[1] /\ RestOf(m, num).last = m.last
         /\ RestOf(m, num).req = m.req
         /\ num[0] \in Nat /\ num[1] \in Nat /\ m.first \in Nat /\ m.last \in Nat
         /\ m.first + num[0] + num[1] <= m.last + 1
BY DEF RestOf, GoodBag, Bags, Size, Sides
\* The father is a branch.
LEMMA Fathers ==
  ASSUME NEW x
  PROVE  Father(x) = NoAddr \/ Father(x) \in Branches
<1> DEFINE fathers == {b \in Branches : \E c \in Sides : Child[b][c] = x}
<1>1. Father(x) = IF fathers # {} THEN CHOOSE b \in Branches : b \in fathers ELSE NoAddr
  BY DEF Father
<1>2. fathers \subseteq Branches
  OBVIOUS
<1> HIDE DEF fathers
<1> QED BY <1>1, <1>2

\* The bags that are sent after a division are intervals of the tasks too.
LEMMA SentIsGood ==
  ASSUME NEW m, GoodBag(m), m.dst \in Branches, NEW num, GoodDivision(m, num), NEW est \in Nat,
         NEW rest, rest = RestOf(m, num)
  PROVE  /\ \A x \in ToChildren(m, num, est) : GoodBag(x)
         /\ Size(rest) > 0 => GoodBag(Bag(m.dst, Father(m.dst), m, rest.first, rest.last, FALSE, est))
         /\ (Size(rest) > 0 \/ TasksOf(rest) = {})
         /\ num[0] + num[1] = Size(m) => TasksOf(rest) = {}
<1>0. num \in [Sides -> Nat] /\ num[0] + num[1] <= Size(m) /\ num[0] \in Nat /\ num[1] \in Nat
  BY DEF GoodDivision, Sides
<1>1. /\ m.first \in Nat /\ m.last \in Nat /\ m.req \in Requests /\ 1 <= m.first
      /\ m.last <= NumTasks[m.req] /\ NumTasks[m.req] \in Nat /\ Size(m) = m.last - m.first + 1
      /\ m.dst \in Addresses
  BY RoutingAssumption DEF GoodBag, Bags, Size, RoutingAssumption
<1>2. /\ rest.first = m.first + num[0] + num[1] /\ rest.last = m.last /\ rest.req = m.req
      /\ m.first + num[0] + num[1] <= m.last + 1
  BY <1>0, Starts
<1>3. ASSUME NEW dst \in Addresses, NEW first \in Nat, NEW last \in Nat, 1 <= first, first <= last,
             last <= NumTasks[m.req], NEW x, x = Bag(m.dst, dst, m, first, last, FALSE, est)
      PROVE  GoodBag(x)
  <2>1. x = [src |-> m.dst, dst |-> dst, req |-> m.req, first |-> first, last |-> last,
             fromEN |-> FALSE, est |-> est]
    BY <1>3 DEF Bag
  <2>2. x \in Bags
    BY <1>1, <2>1 DEF Bags
  <2>3. x.first = first /\ x.last = last /\ x.req = m.req
    BY <2>1
  <2> QED BY <1>3, <2>2, <2>3 DEF GoodBag
<1>4. ASSUME NEW c \in Sides, num[c] > 0, NEW first,
             first = m.first + (IF c = 1 THEN num[0] ELSE 0)
      PROVE  GoodBag(Bag(m.dst, Child[m.dst][c], m, first, first + num[c] - 1, FALSE, est))
  <2> DEFINE last == first + num[c] - 1
             dst == Child[m.dst][c]
             x == Bag(m.dst, dst, m, first, last, FALSE, est)
  <2>1. dst \in Addresses
    BY RoutingAssumption DEF RoutingAssumption, Addresses
  <2>2. first \in Nat /\ last \in Nat /\ 1 <= first /\ first <= last /\ last <= NumTasks[m.req]
    <3>1. CASE c = 0
      BY <1>0, <1>1, <1>2, <1>4, <3>1
    <3>2. CASE c = 1
      BY <1>0, <1>1, <1>2, <1>4, <3>2
    <3> QED BY <3>1, <3>2 DEF Sides
  <2>3. x = Bag(m.dst, dst, m, first, last, FALSE, est)
    OBVIOUS
  <2> HIDE DEF last, dst, x
  <2>4. GoodBag(x)
    BY <1>3, <2>1, <2>2, <2>3
  <2> QED BY <2>4 DEF x, dst, last
<1>5. \A x \in ToChildren(m, num, est) : GoodBag(x)
  BY <1>4 DEF ToChildren
<1>6. ASSUME Size(rest) > 0
      PROVE  GoodBag(Bag(m.dst, Father(m.dst), m, rest.first, rest.last, FALSE, est))
  <2> DEFINE dst == Father(m.dst)
             first == rest.first
             last == rest.last
             x == Bag(m.dst, dst, m, first, last, FALSE, est)
  <2>1. dst \in Addresses
    BY Fathers DEF Addresses
  <2>2. first \in Nat /\ last \in Nat /\ 1 <= first /\ first <= last /\ last <= NumTasks[m.req]
    BY <1>0, <1>1, <1>2, <1>6 DEF Size
  <2>3. x = Bag(m.dst, dst, m, first, last, FALSE, est)
    OBVIOUS
  <2> HIDE DEF last, first, dst, x
  <2>4. GoodBag(x)
    BY <1>3, <2>1, <2>2, <2>3
  <2> QED BY <2>4 DEF x, dst, last, first
<1>7. Size(rest) > 0 \/ TasksOf(rest) = {}
  <2> SUFFICES ASSUME ~(Size(rest) > 0) PROVE rest.first .. rest.last = {}
    BY DEF TasksOf
  <2> QED BY <1>0, <1>1, <1>2 DEF Size
<1>8. num[0] + num[1] = Size(m) => TasksOf(rest) = {}
  <2> SUFFICES ASSUME num[0] + num[1] = Size(m) PROVE rest.first .. rest.last = {}
    BY DEF TasksOf
  <2> QED BY <1>0, <1>1, <1>2 DEF Size
<1> QED BY <1>5, <1>6, <1>7, <1>8

\* The tasks of a divided bag are in one of the bags that are sent, or are left.
LEMMA SentIsPartition ==
  ASSUME NEW m, GoodBag(m), NEW num, GoodDivision(m, num), NEW est \in Nat, NEW t,
         NEW rest, rest = RestOf(m, num)
  PROVE  /\ \A x \in ToChildren(m, num, est) : Has(x, t) => Has(m, t)
         /\ t \in TasksOf(rest) => Has(m, t)
         /\ Has(m, t) /\ t \notin TasksOf(rest) =>
              \E x \in ToChildren(m, num, est) :
                Has(x, t) /\ \A y \in ToChildren(m, num, est) : Has(y, t) => y = x
         /\ t \in TasksOf(rest) => \A y \in ToChildren(m, num, est) : ~Has(y, t)
<1> DEFINE First(c) == m.first + (IF c = 1 THEN num[0] ELSE 0)
           X(c) == Bag(m.dst, Child[m.dst][c], m, First(c), First(c) + num[c] - 1, FALSE, est)
           i == t[2]
           In(c) == t = <<m.req, i>> /\ i \in First(c) .. First(c) + num[c] - 1
<1>0. num \in [Sides -> Nat] /\ num[0] + num[1] <= Size(m) /\ num[0] \in Nat /\ num[1] \in Nat
  BY DEF GoodDivision, Sides
<1>1. ToChildren(m, num, est) = {X(c) : c \in {d \in Sides : num[d] > 0}}
  BY DEF ToChildren
<1>2. ASSUME NEW c \in Sides PROVE Has(X(c), t) <=> In(c)
  <2>1. X(c).req = m.req /\ X(c).first = First(c) /\ X(c).last = First(c) + num[c] - 1
    BY DEF Bag
  <2> HIDE DEF X, First
  <2> QED BY <2>1 DEF Has, TasksOf
<1>3. /\ m.first \in Nat /\ m.last \in Nat
      /\ First(0) = m.first /\ First(1) = m.first + num[0]
      /\ rest.first = m.first + num[0] + num[1] /\ rest.last = m.last /\ rest.req = m.req
      /\ m.first + num[0] + num[1] <= m.last + 1
  BY <1>0, Starts
<1> HIDE DEF First
<1>4. /\ Has(m, t) <=> t = <<m.req, i>> /\ i \in m.first .. m.last
      /\ t \in TasksOf(rest) <=> t = <<m.req, i>> /\ i \in m.first + num[0] + num[1] .. m.last
  BY <1>3 DEF TasksOf, Has
<1>5. /\ In(0) <=> t = <<m.req, i>> /\ i \in m.first .. m.first + num[0] - 1
      /\ In(1) <=> t = <<m.req, i>> /\ i \in m.first + num[0] .. m.first + num[0] + num[1] - 1
  BY <1>3
<1>6. /\ In(0) => num[0] > 0
      /\ In(1) => num[1] > 0
      /\ ~ (In(0) /\ In(1))
      /\ In(0) \/ In(1) => Has(m, t) /\ t \notin TasksOf(rest)
      /\ Has(m, t) /\ t \notin TasksOf(rest) => In(0) \/ In(1)
      /\ t \in TasksOf(rest) => Has(m, t)
  BY <1>0, <1>3, <1>4, <1>5
<1> HIDE DEF X, In
<1>7. \A x \in ToChildren(m, num, est) : Has(x, t) => (x = X(0) /\ In(0)) \/ (x = X(1) /\ In(1))
  BY <1>1, <1>2 DEF Sides
<1>8. /\ In(0) => X(0) \in ToChildren(m, num, est) /\ Has(X(0), t)
      /\ In(1) => X(1) \in ToChildren(m, num, est) /\ Has(X(1), t)
  BY <1>1, <1>2, <1>6 DEF Sides
<1> QED BY <1>6, <1>7, <1>8
-----------------------------------------------------------------------------
(* Type correctness.                                                       *)

\* What nodes say of themselves.
LEMMA NodesSay ==
  ASSUME NEW i \in NodeInfos
  PROVE  i \in Infos
<1>1. Levels \subseteq Nat
  BY RoutingAssumption DEF RoutingAssumption, Infinite
<1> QED BY ONLY <1>1 DEF NodeInfos, Infos

\* The types hold at the start.
LEMMA TypeInit == Init => TypeInv
<1> SUFFICES ASSUME Init PROVE TypeInv
  OBVIOUS
<1>1. info \in [Branches -> [Sides -> NodeInfos \cup {NoAddr}]] /\ net = {}
      /\ zone = [b \in Branches |-> Joined(info[b])]
  BY DEF Init
<1>2. \A b \in Branches : info[b] \in LinksOf
  BY <1>1, NodesSay DEF LinksOf
<1>3. info \in [Branches -> LinksOf]
  BY <1>1, <1>2
<1>4. ASSUME NEW b \in Branches
      PROVE  /\ zone[b] \in LinksOf \cup {NoAddr} /\ GoodZone(zone[b])
             /\ zone[b] = NoAddr \/ Covers(zone[b], info[b])
  <2>1. zone[b] = Joined(info[b])
    BY <1>1
  <2> DEFINE links == info[b]
             z == zone[b]
  <2>2. links \in LinksOf /\ z = Joined(links)
    BY <1>2, <2>1
  <2> HIDE DEF links, z
  <2>3. /\ z \in LinksOf \cup {NoAddr} /\ GoodZone(z)
        /\ z = NoAddr \/ Covers(z, links)
    BY <2>2, JoinedIsGood
  <2> QED BY <2>3 DEF links, z
<1>5. zone \in [Branches -> LinksOf \cup {NoAddr}]
  BY <1>1, <1>4
<1> QED BY <1>1, <1>3, <1>4, <1>5 DEF TypeInv

\* A branch learns of its links, and has a zone for them.
LEMMA LearnTyped ==
  ASSUME TypeInv, NEW b \in Branches, NEW links \in LinksOf, NEW z \in LinksOf \cup {NoAddr},
         GoodZone(z), policy = "MMP" => z = NoAddr \/ Covers(z, links), Learn(b, links, z),
         \A m \in net' : GoodBag(m), UNCHANGED policy
  PROVE  TypeInv'
<1>1. info' = [info EXCEPT ![b] = links] /\ zone' = [zone EXCEPT ![b] = z]
  BY DEF Learn
<1>2. /\ info \in [Branches -> LinksOf] /\ zone \in [Branches -> LinksOf \cup {NoAddr}]
      /\ \A x \in Branches : GoodZone(zone[x])
      /\ policy = "MMP" => \A x \in Branches : zone[x] = NoAddr \/ Covers(zone[x], info[x])
  BY DEF TypeInv
<1>3. info' \in [Branches -> LinksOf] /\ zone' \in [Branches -> LinksOf \cup {NoAddr}]
  BY <1>1, <1>2
<1>4. ASSUME NEW x \in Branches
      PROVE  /\ x = b => info'[x] = links /\ zone'[x] = z
             /\ x # b => info'[x] = info[x] /\ zone'[x] = zone[x]
  BY <1>1, <1>2
<1>5. \A x \in Branches : GoodZone(zone'[x])
  BY <1>2, <1>4
<1>6. policy' = "MMP" => \A x \in Branches : zone'[x] = NoAddr \/ Covers(zone'[x], info'[x])
  BY <1>2, <1>4
<1>7. (\A x \in Branches : GoodZone(zone[x]))' <=> \A x \in Branches : GoodZone(zone'[x])
  BY DEF GoodZone, Heard
<1>8. (\A x \in Branches : zone[x] = NoAddr \/ Covers(zone[x], info[x]))'
        <=> \A x \in Branches : zone'[x] = NoAddr \/ Covers(zone'[x], info'[x])
  BY DEF Covers, SameQueues, LevelQueues, Useful, Heard
<1> QED BY <1>3, <1>5, <1>6, <1>7, <1>8 DEF TypeInv, GoodBag

\* What a child says of itself gives a branch a good zone.
LEMMA HearTyped ==
  ASSUME TypeInv, NEW b \in Branches, NEW c \in Sides, NEW i \in Infos, Hear(b, c, i),
         UNCHANGED <<net, policy>>
  PROVE  TypeInv'
<1> DEFINE links == [info[b] EXCEPT ![c] = i]
           z == Joined(links)
<1>1. links \in LinksOf
  BY DEF TypeInv, LinksOf
<1>2. Learn(b, links, z) /\ z = Joined(links)
  BY DEF Hear
<1> HIDE DEF links, z
<1>3. z \in LinksOf \cup {NoAddr} /\ GoodZone(z) /\ (z = NoAddr \/ Covers(z, links))
  BY <1>1, <1>2, JoinedIsGood
<1>4. \A m \in net' : GoodBag(m)
  BY DEF TypeInv
<1> QED BY <1>1, <1>2, <1>3, <1>4, LearnTyped

\* The links and zones stay, and the bags are good.
LEMMA NetTyped ==
  ASSUME TypeInv, \A m \in net' : GoodBag(m), UNCHANGED <<policy, info, zone>>
  PROVE  TypeInv'
BY DEF TypeInv, GoodZone, Covers, SameQueues, LevelQueues, Useful, Heard, GoodBag

\* The bags after sendTasks.
LEMMA SendTasksTyped ==
  ASSUME TypeInv, NEW m \in net, m.dst \in Branches, NEW num, GoodDivision(m, num), NEW est \in Nat,
         NEW alone, SendTasks(m, num, est, alone)
  PROVE  \A x \in net' : GoodBag(x)
<1> DEFINE rest == RestOf(m, num)
           goes == Size(rest) > 0 /\ Father(m.dst) # NoAddr /\ ~alone
           sent == Bag(m.dst, Father(m.dst), m, rest.first, rest.last, FALSE, est)
<1>1. GoodBag(m) /\ \A x \in net : GoodBag(x)
  BY DEF TypeInv
<1>2. \A x \in net' : x \in net \/ x \in ToChildren(m, num, est) \/ (Size(rest) > 0 /\ x = sent)
  BY DEF SendTasks
<1>3. (\A x \in ToChildren(m, num, est) : GoodBag(x)) /\ (Size(rest) > 0 => GoodBag(sent))
  <2> DEFINE r == rest
  <2>1. r = RestOf(m, num)
    OBVIOUS
  <2> HIDE DEF r
  <2>2. /\ \A x \in ToChildren(m, num, est) : GoodBag(x)
        /\ Size(r) > 0 => GoodBag(Bag(m.dst, Father(m.dst), m, r.first, r.last, FALSE, est))
    BY <1>1, <2>1, SentIsGood
  <2> QED BY <2>2 DEF r
<1> HIDE DEF rest, sent
<1> QED BY <1>1, <1>2, <1>3

\* The bags after a bag went to the father as it was.
LEMMA SendUpTyped ==
  ASSUME TypeInv, NEW m \in net, m.dst \in Branches, NEW fromEN \in BOOLEAN, SendUp(m, fromEN)
  PROVE  \A x \in net' : GoodBag(x)
<1> DEFINE whole == Bag(m.dst, Father(m.dst), m, m.first, m.last, fromEN, m.est)
<1>1. GoodBag(m) /\ \A x \in net : GoodBag(x)
  BY DEF TypeInv
<1>2. GoodBag(whole)
  <2>1. whole = [src |-> m.dst, dst |-> Father(m.dst), req |-> m.req, first |-> m.first,
              last |-> m.last, fromEN |-> fromEN, est |-> m.est]
    BY DEF Bag
  <2>2. Father(m.dst) \in Addresses /\ m.dst \in Addresses
    BY Fathers DEF Addresses
  <2> HIDE DEF whole
  <2>3. whole \in Bags
    BY <1>1, <2>1, <2>2 DEF GoodBag, Bags
  <2> QED BY <1>1, <2>1, <2>3 DEF GoodBag
<1> QED BY <1>1, <1>2 DEF SendUp
-----------------------------------------------------------------------------
(* Every task in one place.                                                *)

Carriers(t) == {m \in net : Has(m, t)}

OnlyOne(t) ==
  \/ t[1] \in pending /\ Carriers(t) = {} /\ t \notin done /\ t \notin lost
  \/ t[1] \notin pending /\ (\E m \in net : Carriers(t) = {m}) /\ t \notin done /\ t \notin lost
  \/ t[1] \notin pending /\ Carriers(t) = {} /\ t \in done /\ t \notin lost
  \/ t[1] \notin pending /\ Carriers(t) = {} /\ t \notin done /\ t \in lost

OnceInv == \A t \in Tasks : OnlyOne(t)

\* The tasks of a request.
LEMMA TasksDef ==
  ASSUME NEW t \in Tasks
  PROVE  t = <<t[1], t[2]>> /\ t[1] \in Requests /\ t[2] \in 1 .. NumTasks[t[1]]
BY DEF Tasks

\* A set of the elements that equal x has one or none.
LEMMA CountEqual ==
  ASSUME NEW S, NEW x
  PROVE  Cardinality({y \in S : y = x}) = IF x \in S THEN 1 ELSE 0
<1>1. CASE x \in S
  <2>1. {y \in S : y = x} = {x}
    BY <1>1
  <2> QED BY <1>1, <2>1, FS_Singleton
<1>2. CASE x \notin S
  <2>1. {y \in S : y = x} = {}
    BY <1>2
  <2> QED BY <1>2, <2>1, FS_EmptySet
<1> QED BY <1>1, <1>2

\* The invariant is what the property counts.
LEMMA OnceIsCounted == OnceInv => EachTaskOnce
<1> SUFFICES ASSUME OnceInv, NEW t \in Tasks
             PROVE  Cardinality({r \in pending : r = t[1]}) + Cardinality(Carriers(t))
                      + Cardinality({x \in done : x = t}) + Cardinality({x \in lost : x = t}) = 1
  BY DEF EachTaskOnce, Carriers, Has
<1>1. OnlyOne(t)
  BY DEF OnceInv
<1>2. /\ Cardinality({r \in pending : r = t[1]}) = IF t[1] \in pending THEN 1 ELSE 0
      /\ Cardinality({x \in done : x = t}) = IF t \in done THEN 1 ELSE 0
      /\ Cardinality({x \in lost : x = t}) = IF t \in lost THEN 1 ELSE 0
  BY CountEqual
<1>3. Carriers(t) = {} => Cardinality(Carriers(t)) = 0
  BY FS_EmptySet
<1>4. (\E m \in net : Carriers(t) = {m}) => Cardinality(Carriers(t)) = 1
  BY FS_Singleton
<1> QED BY <1>1, <1>2, <1>3, <1>4 DEF OnlyOne

\* At the start every task waits in its request.
LEMMA OnceInit == Init => OnceInv
BY TasksDef DEF Init, OnceInv, OnlyOne, Carriers

\* Nothing moves.
LEMMA OnlyOneKept ==
  ASSUME NEW t, OnlyOne(t), Carriers(t)' = Carriers(t), t \in done' <=> t \in done,
         t \in lost' <=> t \in lost, t[1] \in pending' <=> t[1] \in pending
  PROVE  OnlyOne(t)'
<1>1. (\E m \in net : Carriers(t) = {m}) => \E m \in net' : Carriers(t)' = {m}
  BY DEF Carriers
<1> QED BY <1>1 DEF OnlyOne

\* A task of a bag on its way is nowhere else.
LEMMA OnlyCarrier ==
  ASSUME NEW t, OnlyOne(t), NEW m \in net, Has(m, t)
  PROVE  Carriers(t) = {m} /\ t[1] \notin pending /\ t \notin done /\ t \notin lost
<1>1. m \in Carriers(t)
  BY DEF Carriers
<1> QED BY <1>1 DEF OnlyOne

\* The bag of a task is replaced by another one or its task is dropped.
LEMMA CarrierReplaced ==
  ASSUME NEW t, OnlyOne(t), NEW m \in net, Has(m, t),
         NEW new, net' = (net \ {m}) \cup new, UNCHANGED <<pending, done>>,
         \/ t \notin lost' /\ \E x \in new : Has(x, t) /\ \A y \in new : Has(y, t) => y = x
         \/ t \in lost' /\ \A y \in new : ~Has(y, t)
  PROVE  OnlyOne(t)'
<1>1. Carriers(t) = {m} /\ t[1] \notin pending /\ t \notin done /\ t \notin lost
  BY OnlyCarrier
<1>2. Carriers(t)' = {x \in new : Has(x, t)}
  <2>1. \A x \in net \ {m} : ~Has(x, t)
    BY <1>1 DEF Carriers
  <2>2. Carriers(t)' = {x \in net' : Has(x, t)}
    BY DEF Carriers, Has
  <2> QED BY <2>1, <2>2
<1>3. CASE t \notin lost' /\ \E x \in new : Has(x, t) /\ \A y \in new : Has(y, t) => y = x
  <2>1. \E x \in net' : Carriers(t)' = {x}
    BY <1>2, <1>3
  <2> QED BY <1>1, <1>3, <2>1 DEF OnlyOne
<1>4. CASE t \in lost' /\ \A y \in new : ~Has(y, t)
  <2>1. Carriers(t)' = {}
    BY <1>2, <1>4
  <2> QED BY <1>1, <1>4, <2>1 DEF OnlyOne
<1> QED BY <1>3, <1>4

\* A task that is in none of the bags concerned stays where it is.
LEMMA OthersKept ==
  ASSUME NEW t, OnlyOne(t), NEW m, ~Has(m, t),
         NEW new, net' = (net \ {m}) \cup new, \A x \in new : ~Has(x, t),
         UNCHANGED pending, t \in done' <=> t \in done, t \in lost' <=> t \in lost
  PROVE  OnlyOne(t)'
<1>1. Carriers(t)' = Carriers(t)
  BY DEF Carriers, Has
<1> QED BY <1>1, OnlyOneKept

\* A bag is divided among children and father.
LEMMA OnceSendTasks ==
  ASSUME TypeInv, OnceInv, NEW m \in net, m.dst \in Branches, NEW num, GoodDivision(m, num),
         NEW est \in Nat, NEW alone, SendTasks(m, num, est, alone), UNCHANGED <<pending, done>>
  PROVE  OnceInv'
<1> DEFINE rest == RestOf(m, num)
           goes == Size(rest) > 0 /\ Father(m.dst) # NoAddr /\ ~alone /\ zone'[m.dst] # NoAddr
           father == Bag(m.dst, Father(m.dst), m, rest.first, rest.last, FALSE, est)
           sent == IF goes THEN {father} ELSE {}
           new == ToChildren(m, num, est) \cup sent
           left == TasksOf(rest)
<1>1. net' = (net \ {m}) \cup new
      /\ lost' = IF goes THEN lost ELSE lost \cup left
  BY DEF SendTasks
<1>2. GoodBag(m)
  BY DEF TypeInv
<1>3. rest = RestOf(m, num)
  OBVIOUS
<1>4. \A t : Has(father, t) <=> t \in left
  <2>1. rest.req = m.req
    BY <1>2, Starts DEF GoodDivision
  <2> HIDE DEF rest
  <2>2. father.req = m.req /\ father.first = rest.first /\ father.last = rest.last
    BY DEF Bag
  <2> HIDE DEF father
  <2> QED BY <2>1, <2>2 DEF Has, TasksOf
<1> HIDE DEF rest
<1> SUFFICES ASSUME NEW t \in Tasks PROVE OnlyOne(t)'
  BY DEF OnceInv
<1>5. OnlyOne(t)
  BY DEF OnceInv
<1>6. /\ \A x \in ToChildren(m, num, est) : Has(x, t) => Has(m, t)
      /\ t \in left => Has(m, t)
      /\ Has(m, t) /\ t \notin left =>
           \E x \in ToChildren(m, num, est) :
             Has(x, t) /\ \A y \in ToChildren(m, num, est) : Has(y, t) => y = x
      /\ t \in left => \A y \in ToChildren(m, num, est) : ~Has(y, t)
  BY <1>2, <1>3, SentIsPartition
<1> HIDE DEF father, goes, left
<1>7. /\ goes => sent = {father} /\ lost' = lost
      /\ ~goes => sent = {} /\ lost' = lost \cup left
  BY <1>1
<1> HIDE DEF sent
<1>8. \A x \in new : Has(x, t) => x \in ToChildren(m, num, est) \/ (goes /\ x = father /\ t \in left)
  BY <1>4, <1>7
<1>9. CASE ~Has(m, t)
  <2>1. \A x \in new : ~Has(x, t)
    BY <1>6, <1>8, <1>9
  <2>2. t \in lost' <=> t \in lost
    BY <1>6, <1>7, <1>9
  <2> HIDE DEF new
  <2> QED BY <1>1, <1>5, <1>9, <2>1, <2>2, OthersKept
<1>10. CASE Has(m, t)
  <2>0. t \notin lost
    BY <1>5, <1>10, OnlyCarrier
  <2>1. \/ t \notin lost' /\ \E x \in new : Has(x, t) /\ \A y \in new : Has(y, t) => y = x
        \/ t \in lost' /\ \A y \in new : ~Has(y, t)
    <3>1. CASE t \notin left
      BY <1>6, <1>7, <1>8, <1>10, <2>0, <3>1
    <3>2. CASE t \in left /\ goes
      <4>1. father \in new /\ Has(father, t) /\ \A y \in new : Has(y, t) => y = father
        BY <1>4, <1>6, <1>7, <1>8, <3>2
      <4> QED BY <1>7, <2>0, <3>2, <4>1
    <3>3. CASE t \in left /\ ~goes
      BY <1>6, <1>7, <1>8, <3>3
    <3> QED BY <3>1, <3>2, <3>3
  <2> HIDE DEF new
  <2> QED BY <1>1, <1>5, <1>10, <2>1, CarrierReplaced
<1> QED BY <1>9, <1>10

\* A bag goes to the father as it is.
LEMMA OnceSendUp ==
  ASSUME TypeInv, OnceInv, NEW m \in net, NEW fromEN, SendUp(m, fromEN),
         UNCHANGED <<pending, done>>
  PROVE  OnceInv'
<1> DEFINE whole == Bag(m.dst, Father(m.dst), m, m.first, m.last, fromEN, m.est)
           new == {whole}
<1>1. net' = (net \ {m}) \cup new /\ lost' = lost
  BY DEF SendUp
<1>2. \A t : Has(whole, t) <=> Has(m, t)
  <2>1. whole.req = m.req /\ whole.first = m.first /\ whole.last = m.last
    BY DEF Bag
  <2> HIDE DEF whole
  <2> QED BY <2>1 DEF Has, TasksOf
<1> HIDE DEF whole
<1> SUFFICES ASSUME NEW t \in Tasks PROVE OnlyOne(t)'
  BY DEF OnceInv
<1>3. OnlyOne(t)
  BY DEF OnceInv
<1>4. CASE ~Has(m, t)
  <2>1. \A x \in new : ~Has(x, t)
    BY <1>2, <1>4
  <2> HIDE DEF new
  <2> QED BY <1>1, <1>3, <1>4, <2>1, OthersKept
<1>5. CASE Has(m, t)
  <2>1. t \notin lost' /\ \E x \in new : Has(x, t) /\ \A y \in new : Has(y, t) => y = x
    BY <1>1, <1>2, <1>3, <1>5, OnlyCarrier
  <2> HIDE DEF new
  <2> QED BY <1>1, <1>3, <1>5, <2>1, CarrierReplaced
<1> QED BY <1>4, <1>5

\* A bag is dropped.
LEMMA OnceDrop ==
  ASSUME OnceInv, NEW m \in net, Drop(m), UNCHANGED <<pending, done>>
  PROVE  OnceInv'
<1> DEFINE new == {}
<1>1. net' = (net \ {m}) \cup new /\ lost' = lost \cup TasksOf(m) /\ \A x \in new : FALSE
  BY DEF Drop
<1> HIDE DEF new
<1> SUFFICES ASSUME NEW t \in Tasks PROVE OnlyOne(t)'
  BY DEF OnceInv
<1>2. OnlyOne(t)
  BY DEF OnceInv
<1>3. CASE ~Has(m, t)
  <2>1. t \in lost' <=> t \in lost
    BY <1>1, <1>3 DEF Has
  <2> QED BY <1>1, <1>2, <1>3, <2>1, OthersKept
<1>4. CASE Has(m, t)
  <2>1. t \in lost' /\ \A y \in new : ~Has(y, t)
    BY <1>1, <1>4 DEF Has
  <2> QED BY <1>1, <1>2, <1>4, <2>1, CarrierReplaced
<1> QED BY <1>3, <1>4

\* A node takes the tasks of a bag.
LEMMA OnceNodeBag ==
  ASSUME OnceInv, NEW m, HandleNodeBag(m)
  PROVE  OnceInv'
<1> DEFINE new == {}
<1>1. /\ m \in net /\ net' = (net \ {m}) \cup new /\ done' = done \cup TasksOf(m)
      /\ \A x \in new : FALSE
      /\ UNCHANGED <<pending, lost>>
  BY DEF HandleNodeBag
<1> HIDE DEF new
<1> SUFFICES ASSUME NEW t \in Tasks PROVE OnlyOne(t)'
  BY DEF OnceInv
<1>2. OnlyOne(t)
  BY DEF OnceInv
<1>3. CASE ~Has(m, t)
  <2>1. t \in done' <=> t \in done
    BY <1>1, <1>3 DEF Has
  <2> QED BY <1>1, <1>2, <1>3, <2>1, OthersKept
<1>4. CASE Has(m, t)
  <2>1. Carriers(t) = {m} /\ t[1] \notin pending /\ t \notin lost /\ t \in done'
    BY <1>1, <1>2, <1>4, OnlyCarrier DEF Has
  <2>2. Carriers(t)' = {x \in net' : Has(x, t)}
    BY DEF Carriers, Has
  <2>3. Carriers(t)' = {}
    BY <1>1, <2>1, <2>2 DEF Carriers
  <2> QED BY <1>1, <2>1, <2>3 DEF OnlyOne
<1> QED BY <1>3, <1>4

\* A client submits a request.
LEMMA OnceSubmit ==
  ASSUME OnceInv, NEW r \in Requests, Submit(r)
  PROVE  OnceInv' /\ (TypeInv => \A x \in net' : GoodBag(x))
<1> DEFINE x == Bag(Client[r], Father(Client[r]), [req |-> r], 1, NumTasks[r], TRUE, 0)
<1>1. /\ r \in pending /\ pending' = pending \ {r} /\ net' = net \cup {x}
      /\ UNCHANGED <<done, lost>>
  BY DEF Submit
<1>2. x = [src |-> Client[r], dst |-> Father(Client[r]), req |-> r, first |-> 1,
           last |-> NumTasks[r], fromEN |-> TRUE, est |-> 0]
  BY DEF Bag
<1> HIDE DEF x
<1>3. GoodBag(x)
  <2>1. Client[r] \in Addresses /\ Father(Client[r]) \in Addresses /\ NumTasks[r] \in Nat \ {0}
    BY Fathers, RoutingAssumption DEF RoutingAssumption, Addresses
  <2>2. x \in Bags
    BY <1>2, <2>1 DEF Bags
  <2> QED BY <1>2, <2>1, <2>2 DEF GoodBag
<1>4. TypeInv => \A y \in net' : GoodBag(y)
  BY <1>1, <1>3 DEF TypeInv
<1>5. ASSUME NEW t \in Tasks PROVE OnlyOne(t)'
  <2>1. OnlyOne(t) /\ t = <<t[1], t[2]>> /\ t[2] \in 1 .. NumTasks[t[1]]
    BY TasksDef DEF OnceInv
  <2>2. Carriers(t)' = {y \in net' : Has(y, t)}
    BY DEF Carriers, Has
  <2>3. Has(x, t) <=> t[1] = r
    <3>1. Has(x, t) <=> t \in {r} \X (1 .. NumTasks[r])
      BY <1>2 DEF Has, TasksOf
    <3> QED BY <2>1, <3>1
  <2>4. CASE t[1] = r
    <3>1. Carriers(t) = {} /\ t \notin done /\ t \notin lost
      BY <1>1, <2>1, <2>4 DEF OnlyOne
    <3>2. Carriers(t)' = {x} /\ x \in net'
      BY <1>1, <2>2, <2>3, <2>4, <3>1 DEF Carriers
    <3> QED BY <1>1, <2>4, <3>1, <3>2 DEF OnlyOne
  <2>5. CASE t[1] # r
    <3>1. Carriers(t)' = Carriers(t)
      BY <1>1, <2>2, <2>3, <2>5 DEF Carriers
    <3>2. t[1] \in pending' <=> t[1] \in pending
      BY <1>1, <2>5
    <3> QED BY <1>1, <2>1, <3>1, <3>2, OnlyOneKept
  <2> QED BY <2>4, <2>5
<1> QED BY <1>4, <1>5 DEF OnceInv
-----------------------------------------------------------------------------
(* The theorems.                                                           *)

\* A bag at a branch, with each of the policies.
LEMMA HandleBagKeeps ==
  ASSUME TypeInv, OnceInv, NEW m, HandleBag(m)
  PROVE  TypeInv' /\ OnceInv'
<1> DEFINE b == m.dst
<1>1. /\ m \in net /\ b \in Branches /\ GoodBag(m) /\ info[b] \in LinksOf
      /\ zone[b] \in LinksOf \cup {NoAddr} /\ GoodZone(zone[b])
      /\ UNCHANGED <<policy, pending, done>>
  BY DEF HandleBag, TypeInv
<1> HIDE DEF b
<1>2. m.dst = b
  BY DEF b
<1>3. ASSUME policy = "DP", DPAgain(m) PROVE TypeInv' /\ OnceInv'
  <2>1. UNCHANGED <<info, zone>> /\ (Drop(m) \/ SendUp(m, m.fromEN))
    BY <1>3 DEF DPAgain
  <2>2. m.fromEN \in BOOLEAN
    BY <1>1 DEF GoodBag, Bags
  <2>3. CASE Drop(m)
    <3>1. \A x \in net' : GoodBag(x)
      BY <2>3 DEF Drop, TypeInv
    <3> QED BY <1>1, <2>1, <2>3, <3>1, NetTyped, OnceDrop
  <2>4. CASE SendUp(m, m.fromEN)
    <3> DEFINE fromEN == m.fromEN
    <3>1. SendUp(m, fromEN) /\ fromEN \in BOOLEAN
      BY <2>2, <2>4
    <3> HIDE DEF fromEN
    <3>2. \A x \in net' : GoodBag(x)
      BY <1>1, <1>2, <3>1, SendUpTyped
    <3>3. OnceInv'
      BY <1>1, <3>1, OnceSendUp
    <3> QED BY <1>1, <2>1, <3>2, <3>3, NetTyped
  <2> QED BY <2>1, <2>3, <2>4
<1>4. ASSUME policy = "DP", DPHandle(m) PROVE TypeInv' /\ OnceInv'
  <2>1. PICK first \in Sides :
          /\ Learn(b, DPDivision(m, first).links, Joined(DPDivision(m, first).links))
          /\ SendTasks(m, DPDivision(m, first).num, 0, FALSE)
    BY <1>2, <1>4 DEF DPHandle
  <2> DEFINE num == DPDivision(m, first).num
             links == DPDivision(m, first).links
             z == Joined(links)
  <2>2. GoodDivision(m, num) /\ links \in LinksOf
    BY <1>1, <1>2, DPIsGood
  <2>3. Learn(b, links, z) /\ SendTasks(m, num, 0, FALSE) /\ z = Joined(links) /\ policy # "MMP"
    BY <1>4, <2>1
  <2> HIDE DEF num, links, z
  <2>4. z \in LinksOf \cup {NoAddr} /\ GoodZone(z)
    BY <2>2, <2>3, JoinedIsGood
  <2>5. \A x \in net' : GoodBag(x)
    BY <1>1, <1>2, <2>2, <2>3, SendTasksTyped
  <2>6. OnceInv'
    BY <1>1, <1>2, <2>2, <2>3, OnceSendTasks
  <2> QED BY <1>1, <2>2, <2>3, <2>4, <2>5, <2>6, LearnTyped
<1>5. ASSUME policy = "MMP", MMPUp(m) PROVE TypeInv' /\ OnceInv'
  <2>1. SendUp(m, FALSE) /\ UNCHANGED <<info, zone>> /\ FALSE \in BOOLEAN
    BY <1>5 DEF MMPUp
  <2>2. \A x \in net' : GoodBag(x)
    BY <1>1, <1>2, <2>1, SendUpTyped
  <2> QED BY <1>1, <2>1, <2>2, NetTyped, OnceSendUp
<1>6. ASSUME policy = "MMP", HasInfo(b), MMPDown(m) PROVE TypeInv' /\ OnceInv'
  <2>1. PICK first \in Sides :
          LET out == MMPDivision(m, first, Balanced(zone[b], m)) IN
          Learn(b, out.links, out.zone) /\ SendTasks(m, out.num, 0, TRUE)
    BY <1>2, <1>6 DEF MMPDown, MMPOutcomes
  <2> DEFINE d == Balanced(zone[b], m)
             out == MMPDivision(m, first, d)
             num == out.num
             links == out.links
             z == out.zone
  <2>2. /\ zone[b] \in LinksOf /\ Heard(zone[b]) # {} /\ Covers(zone[b], info[b])
    BY <1>1, <1>6 DEF HasInfo, GoodZone, TypeInv
  <2>3. /\ GoodDivision(m, num) /\ links \in LinksOf /\ z \in LinksOf /\ Heard(z) # {}
        /\ Covers(z, links)
    <3>1. out = MMPDivision(m, first, d) /\ d = Balanced(zone[b], m)
      OBVIOUS
    <3> HIDE DEF out, d
    <3> QED BY <1>1, <1>2, <2>2, <3>1, MMPIsGood
  <2>4. Learn(b, links, z) /\ SendTasks(m, num, 0, TRUE)
    BY <2>1
  <2> HIDE DEF out, num, links, z
  <2>5. \A x \in net' : GoodBag(x)
    BY <1>1, <1>2, <2>3, <2>4, SendTasksTyped
  <2>6. OnceInv'
    BY <1>1, <1>2, <2>3, <2>4, OnceSendTasks
  <2>7. GoodZone(z)
    BY <2>3 DEF GoodZone
  <2> QED BY <1>1, <2>3, <2>4, <2>5, <2>6, <2>7, LearnTyped
<1>7. ASSUME policy = "FSP", FSPHandle(m) PROVE TypeInv' /\ OnceInv'
  <2>1. PICK out \in FSPOutcomes(m) :
          /\ Learn(b, out.links, IF out.links = info[b] THEN zone[b] ELSE Joined(out.links))
          /\ SendTasks(m, out.num, out.est, FALSE)
    BY <1>2, <1>7 DEF FSPHandle
  <2> DEFINE num == out.num
             est == out.est
             links == out.links
             z == IF out.links = info[b] THEN zone[b] ELSE Joined(out.links)
  <2>2. GoodDivision(m, num) /\ links \in LinksOf /\ est \in Nat
    BY <1>1, <1>2, FSPIsGood
  <2>3. Learn(b, links, z) /\ SendTasks(m, num, est, FALSE) /\ policy # "MMP"
        /\ (z = Joined(links) \/ z = zone[b])
    BY <1>7, <2>1
  <2> HIDE DEF num, est, links, z
  <2>4. z \in LinksOf \cup {NoAddr} /\ GoodZone(z)
    BY <1>1, <2>2, <2>3, JoinedIsGood
  <2>5. \A x \in net' : GoodBag(x)
    BY <1>1, <1>2, <2>2, <2>3, SendTasksTyped
  <2>6. OnceInv'
    BY <1>1, <1>2, <2>2, <2>3, OnceSendTasks
  <2> QED BY <1>1, <2>2, <2>3, <2>4, <2>5, <2>6, LearnTyped
<1>8. ASSUME Drop(m), UNCHANGED <<info, zone>> PROVE TypeInv' /\ OnceInv'
  <2>1. \A x \in net' : GoodBag(x)
    BY <1>8 DEF Drop, TypeInv
  <2> QED BY <1>1, <1>8, <2>1, NetTyped, OnceDrop
<1> QED BY <1>2, <1>3, <1>4, <1>5, <1>6, <1>7, <1>8 DEF HandleBag

\* With MMP a dispatcher drops no task while the search finds room for it.
LEMMA HandleBagDrops ==
  ASSUME TypeInv, NEW m, HandleBag(m), policy = "MMP", HasInfo(m.dst),
         Counted(zone[m.dst], LongestProbe, TaskTime[m.req]) >= Size(m),
         \A c \in Useful(info[m.dst]) : info[m.dst][c].q # LongestProbe
  PROVE  lost' = lost
<1> DEFINE b == m.dst
<1>1. /\ m \in net /\ b \in Branches /\ GoodBag(m) /\ info[b] \in LinksOf
      /\ zone[b] \in LinksOf /\ Heard(zone[b]) # {} /\ Covers(zone[b], info[b])
  BY DEF HandleBag, TypeInv, HasInfo, GoodZone
<1>2. CASE MMPUp(m)
  BY <1>2 DEF MMPUp, SendUp
<1>3. CASE MMPDown(m)
  <2>1. PICK first \in Sides :
          SendTasks(m, MMPDivision(m, first, Balanced(zone[b], m)).num, 0, TRUE)
    BY <1>3 DEF MMPDown, MMPOutcomes
  <2> DEFINE d == Balanced(zone[b], m)
             out == MMPDivision(m, first, d)
             num == out.num
             rest == RestOf(m, num)
  <2>2. GoodDivision(m, num) /\ num[0] + num[1] = Size(m)
    <3>1. out = MMPDivision(m, first, d) /\ d = Balanced(zone[b], m)
      OBVIOUS
    <3> HIDE DEF out, d
    <3> QED BY <1>1, <3>1, MMPIsGood
  <2>3. lost' = lost \cup TasksOf(rest)
    BY <2>1 DEF SendTasks
  <2>4. rest = RestOf(m, num) /\ 0 \in Nat
    OBVIOUS
  <2> HIDE DEF num, out, rest
  <2>5. TasksOf(rest) = {}
    BY <1>1, <2>2, <2>4, SentIsGood
  <2> QED BY <2>3, <2>5
<1> QED BY <1>2, <1>3 DEF HandleBag

\* Every step keeps the types and every task in one place.
LEMMA NextKeeps == TypeInv /\ OnceInv /\ [Next]_vars => TypeInv' /\ OnceInv'
<1> SUFFICES ASSUME TypeInv, OnceInv, [Next]_vars PROVE TypeInv' /\ OnceInv'
  OBVIOUS
<1>1. ASSUME UNCHANGED <<net, pending, done, lost>> PROVE OnceInv'
  <2>1. ASSUME NEW t \in Tasks PROVE OnlyOne(t)'
    <3>1. OnlyOne(t) /\ Carriers(t)' = Carriers(t)
      BY <1>1 DEF OnceInv, Carriers, Has
    <3> QED BY <1>1, <3>1, OnlyOneKept
  <2> QED BY <2>1 DEF OnceInv
<1>2. ASSUME UNCHANGED <<net, policy, info, zone>> PROVE TypeInv'
  BY <1>2, NetTyped DEF TypeInv
<1>3. ASSUME NEW m \in net, HandleBag(m) PROVE TypeInv' /\ OnceInv'
  BY <1>3, HandleBagKeeps
<1>4. ASSUME NEW m \in net, HandleNodeBag(m) PROVE TypeInv' /\ OnceInv'
  <2>1. net' = net \ {m} /\ UNCHANGED <<policy, info, zone>>
    BY <1>4 DEF HandleNodeBag
  <2>2. \A x \in net' : GoodBag(x)
    BY <2>1 DEF TypeInv
  <2> QED BY <1>4, <2>1, <2>2, NetTyped, OnceNodeBag
<1>5. ASSUME NEW r \in Requests, Submit(r) PROVE TypeInv' /\ OnceInv'
  <2>1. UNCHANGED <<policy, info, zone>>
    BY <1>5 DEF Submit
  <2> QED BY <1>5, <2>1, NetTyped, OnceSubmit
<1>6. ASSUME NEW b \in Branches, NEW r \in Requests, Forget(b, r) PROVE TypeInv' /\ OnceInv'
  BY <1>1, <1>2, <1>6 DEF Forget
<1>7. ASSUME NEW b \in Branches, TellFather(b) PROVE TypeInv' /\ OnceInv'
  <2> DEFINE f == Father(b)
             i == Summary(zone[b])
  <2>1. UNCHANGED <<net, policy, pending, done, lost>> /\ f # NoAddr
        /\ zone[b] # NoAddr
    BY <1>7 DEF TellFather, HasInfo
  <2>2. PICK c \in Sides : Hear(f, c, i)
    BY <1>7 DEF TellFather
  <2>3. f \in Branches
    BY <2>1, Fathers
  <2>4. i \in Infos
    <3>1. zone[b] \in LinksOf /\ Heard(zone[b]) # {}
      BY <2>1 DEF TypeInv, GoodZone
    <3> QED BY <3>1, SummaryIsGood
  <2> HIDE DEF f, i
  <2> QED BY <1>1, <2>1, <2>2, <2>3, <2>4, HearTyped
<1>8. ASSUME NEW b \in Branches, NEW c \in Sides, NodeTells(b, c) PROVE TypeInv' /\ OnceInv'
  <2>1. PICK i \in NodeInfos : Hear(b, c, i)
    BY <1>8 DEF NodeTells
  <2>2. i \in Infos
    BY NodesSay
  <2>3. UNCHANGED <<net, policy, pending, done, lost>>
    BY <1>8 DEF NodeTells
  <2> QED BY <1>1, <2>1, <2>2, <2>3, HearTyped
<1>9. ASSUME NEW b \in Branches, NEW c \in Sides, TellChild(b, c) PROVE TypeInv' /\ OnceInv'
  BY <1>1, <1>2, <1>9 DEF TellChild
<1>10. CASE UNCHANGED vars
  BY <1>1, <1>2, <1>10 DEF vars
<1> QED BY <1>3, <1>4, <1>5, <1>6, <1>7, <1>8, <1>9, <1>10 DEF Next, Receive

\* No step drops a task while the search finds room for it, with MMP.
LEMMA NextDrops == TypeInv /\ [Next]_vars => DropsWithoutRoom
<1> SUFFICES ASSUME TypeInv, [Next]_vars, NEW m \in net \ net', policy = "MMP",
                    m.dst \in Branches, HasInfo(m.dst),
                    ~ (Counted(zone[m.dst], LongestProbe, TaskTime[m.req]) < Size(m)),
                    \A c \in Useful(info[m.dst]) : info[m.dst][c].q # LongestProbe
             PROVE  lost' = lost
  BY DEF DropsWithoutRoom
<1>0. Counted(zone[m.dst], LongestProbe, TaskTime[m.req]) >= Size(m)
  <2>1. zone[m.dst] \in LinksOf /\ GoodBag(m)
    BY DEF TypeInv, HasInfo
  <2>2. /\ Fits(zone[m.dst], 0, LongestProbe, TaskTime[m.req]) \in Nat
        /\ Fits(zone[m.dst], 1, LongestProbe, TaskTime[m.req]) \in Nat
    BY <2>1, FitsTyped, ProbesTyped DEF GoodBag, Bags, Sides
  <2>3. Size(m) \in Nat
    BY <2>1, SizeIsPositive
  <2> QED BY <2>2, <2>3 DEF Counted
<1>1. ASSUME NEW x \in net, HandleBag(x) PROVE lost' = lost
  <2>1. net \ {x} \subseteq net'
    BY <1>1 DEF HandleBag, DPAgain, DPHandle, MMPUp, MMPDown, FSPHandle, Drop, SendUp, SendTasks
  <2>2. x = m
    BY <2>1
  <2> QED BY <1>0, <1>1, <2>2, HandleBagDrops
<1>2. ASSUME NEW x \in net, HandleNodeBag(x) PROVE lost' = lost
  BY <1>2 DEF HandleNodeBag
<1>3. ASSUME NEW r \in Requests, Submit(r) PROVE lost' = lost
  BY <1>3 DEF Submit
<1>4. ASSUME NEW b \in Branches, NEW r \in Requests, Forget(b, r) PROVE lost' = lost
  BY <1>4 DEF Forget
<1>5. ASSUME NEW b \in Branches, TellFather(b) PROVE lost' = lost
  BY <1>5 DEF TellFather
<1>6. ASSUME NEW b \in Branches, NEW c \in Sides, NodeTells(b, c) PROVE lost' = lost
  BY <1>6 DEF NodeTells
<1>7. ASSUME NEW b \in Branches, NEW c \in Sides, TellChild(b, c) PROVE lost' = lost
  BY <1>7 DEF TellChild
<1>8. CASE UNCHANGED vars
  BY <1>8 DEF vars
<1> QED BY <1>1, <1>2, <1>3, <1>4, <1>5, <1>6, <1>7, <1>8 DEF Next, Receive

\* In every state that the dispatchers reach, what they know is well formed, with
\* MMP the zone of a dispatcher counts the same nodes as its links, and every
\* task is in one place.
THEOREM InvAlways == Spec => [](TypeInv /\ OnceInv)
<1>1. Init => TypeInv /\ OnceInv
  BY TypeInit, OnceInit
<1>2. (TypeInv /\ OnceInv) /\ [Next]_vars => (TypeInv /\ OnceInv)'
  BY NextKeeps
<1> QED BY <1>1, <1>2, PTL DEF Spec

\* With DP, MMP and FSP, on every tree, no step of dispatchers, nodes or clients
\* forgets a task or sends it twice, and a dispatcher of MMP drops tasks only
\* where queues reach the end of its search (Dispatcher::sendTasks,
\* MMPDispatcher.cpp:176).
THEOREM TasksAreNeverWasted == Spec => TasksAreNotWasted
<1>1. TypeInv /\ OnceInv /\ [Next]_vars => [EachTaskOnce' /\ DropsWithoutRoom]_vars
  <2> SUFFICES ASSUME TypeInv, OnceInv, [Next]_vars PROVE EachTaskOnce' /\ DropsWithoutRoom
    OBVIOUS
  <2>1. OnceInv' /\ DropsWithoutRoom
    BY NextKeeps, NextDrops
  <2>2. OnceInv' => EachTaskOnce'
    BY OnceIsCounted, PTL
  <2> QED BY <2>1, <2>2
<1> QED BY <1>1, InvAlways, PTL DEF Spec, TasksAreNotWasted
=============================================================================
