-------------------------- MODULE Dispatcher_proofs --------------------------
(***************************************************************************)
(* Proofs about Dispatcher, for every tree, every set of requests and every *)
(* number of faults: type correctness, that every task is in one place and *)
(* that no link counts nodes that are not there; and, without faults, that *)
(* what is new is never taken for old and that the information settles.    *)
(***************************************************************************)
EXTENDS Dispatcher, FiniteSetTheorems, WellFoundedInduction, TLAPS

-----------------------------------------------------------------------------
(* Counting.                                                               *)

\* A set of naturals that is not empty has a least element.
LEMMA LeastNumber ==
  ASSUME NEW S \in SUBSET Nat, S # {}
  PROVE  \E x \in S : \A y \in S : x <= y
<1> DEFINE R == {ss \in Nat \X Nat : ss[1] < ss[2]}
<1>1. IsWellFoundedOn(R, Nat)
  BY NatLessThanWellFounded DEF OpToRel
<1> HIDE DEF R
<1>2. PICK x \in S : \A y \in S : ~ (<<y, x>> \in R)
  BY <1>1, WFMin
<1>3. ASSUME NEW y \in S PROVE x <= y
  <2>1. ~ (y < x)
    BY <1>2 DEF R
  <2> QED BY <2>1
<1> QED BY <1>3

\* A set of peers is finite.
LEMMA Counts ==
  ASSUME NEW S \in SUBSET Peers
  PROVE  IsFiniteSet(S) /\ Cardinality(S) \in Nat
BY TreeAssumption, FS_Subset, FS_CardinalityType DEF TreeAssumption

-----------------------------------------------------------------------------
(* The tree.                                                               *)

\* S has, with a branch, its children.
Closed(S) == \A y \in S, c \in Sides : ~Leaf[y][c] => Child[y][c] \in S

\* A branch under b is in each set that has b and is closed.
LEMMA UnderDef ==
  ASSUME NEW b, NEW x
  PROVE  x \in Under(b) <=> x \in Branches /\ \A S \in SUBSET Branches : b \in S /\ Closed(S) => x \in S
BY DEF Under, Closed

\* The tree below a branch has that branch, and the children of its branches.
LEMMA UnderClosed ==
  ASSUME NEW b \in Branches
  PROVE  /\ b \in Under(b) /\ Under(b) \subseteq Branches
         /\ \A x \in Under(b), c \in Sides : ~Leaf[x][c] => Child[x][c] \in Under(b)
<1>1. b \in Under(b) /\ Under(b) \subseteq Branches
  BY UnderDef
<1>2. ASSUME NEW x \in Under(b), NEW c \in Sides, ~Leaf[x][c] PROVE Child[x][c] \in Under(b)
  <2>1. x \in Branches /\ \A S \in SUBSET Branches : b \in S /\ Closed(S) => x \in S
    BY UnderDef
  <2>2. Child[x][c] \in Branches
    BY <1>2, <2>1, TreeAssumption DEF TreeAssumption
  <2>3. ASSUME NEW S \in SUBSET Branches, b \in S, Closed(S) PROVE Child[x][c] \in S
    BY <1>2, <2>1, <2>3 DEF Closed
  <2> QED BY <2>2, <2>3, UnderDef
<1> QED BY <1>1, <1>2

\* A branch below another one is below its children.
LEMMA UnderOrIn ==
  ASSUME NEW b \in Branches, NEW S \in SUBSET Branches, b \in S, Closed(S)
  PROVE  Under(b) \subseteq S
BY UnderDef

\* What is under the child of a branch is under that branch.
LEMMA UnderChild ==
  ASSUME NEW b \in Branches, NEW c \in Sides, ~Leaf[b][c]
  PROVE  Child[b][c] \in Branches /\ Under(Child[b][c]) \subseteq Under(b)
<1>1. Child[b][c] \in Branches
  BY TreeAssumption DEF TreeAssumption
<1>2. Child[b][c] \in Under(b) /\ Closed(Under(b)) /\ Under(b) \in SUBSET Branches
  BY UnderClosed DEF Closed
<1> QED BY <1>1, <1>2, UnderOrIn

\* A branch other than the first one has its father in the tree.
LEMMA FatherUnder ==
  ASSUME NEW b \in Branches, NEW x \in Under(b), x # b,
         NEW f \in Branches, IsFather(f, x)
  PROVE  f \in Under(b)
<1> SUFFICES ASSUME f \notin Under(b) PROVE FALSE
  OBVIOUS
<1> DEFINE S == Under(b) \ {x}
<1>1. b \in S /\ S \in SUBSET Branches
  BY UnderClosed
<1>2. ASSUME NEW y \in S, NEW c \in Sides, ~Leaf[y][c] PROVE Child[y][c] \in S
  <2>1. Child[y][c] \in Under(b) /\ y \in Branches
    BY <1>2, UnderClosed
  <2>2. CASE Child[y][c] = x
    <3>1. IsFather(y, x)
      BY <1>2, <2>2 DEF IsFather
    <3>2. y = f /\ y \in Under(b)
      BY <1>1, <2>1, <2>2, <3>1, UnderClosed, TreeAssumption DEF TreeAssumption
    <3> QED BY <3>2
  <2> QED BY <2>1, <2>2
<1>3. Under(b) \subseteq S
  BY <1>1, <1>2, UnderOrIn DEF Closed
<1> QED BY <1>3

\* No branch is below its child: the tree has no cycles.
LEMMA NotUnderChild ==
  ASSUME NEW b \in Branches, NEW c \in Sides, ~Leaf[b][c]
  PROVE  b \notin Under(Child[b][c])
<1> DEFINE x == Child[b][c]
<1>1. x \in Branches
  BY TreeAssumption DEF TreeAssumption
<1>2. PICK height \in [Branches -> 0 .. Cardinality(Branches)] :
        \A y \in Branches, d \in Sides : ~Leaf[y][d] => height[Child[y][d]] < height[y]
  BY TreeAssumption DEF TreeAssumption
<1>0. Cardinality(Branches) \in Nat
  BY Counts, TreeAssumption DEF TreeAssumption
<1> DEFINE S == {y \in Branches : height[y] < height[b]}
<1>3. x \in S
  BY <1>1, <1>2
<1>4. ASSUME NEW y \in S, NEW d \in Sides, ~Leaf[y][d] PROVE Child[y][d] \in S
  <2>1. Child[y][d] \in Branches
    BY <1>4, TreeAssumption DEF TreeAssumption
  <2>2. height[Child[y][d]] < height[y] /\ height[y] < height[b]
    BY <1>2, <1>4
  <2> QED BY <1>0, <1>2, <2>1, <2>2
<1>5. S \in SUBSET Branches /\ b \notin S
  BY <1>0, <1>2
<1> HIDE DEF S, x
<1>6. Under(x) \subseteq S
  BY <1>1, <1>3, <1>4, <1>5, UnderOrIn DEF Closed
<1> QED BY <1>5, <1>6 DEF x

\* The trees below the two children have no branch in common.
LEMMA ChildrenApart ==
  ASSUME NEW b \in Branches, ~Leaf[b][0], ~Leaf[b][1]
  PROVE  Under(Child[b][0]) \cap Under(Child[b][1]) = {}
<1> DEFINE Both == Under(Child[b][0]) \cap Under(Child[b][1])
           S == Under(Child[b][0]) \ Both
<1>0. 0 \in Sides /\ 1 \in Sides
  BY DEF Sides
<1>1. /\ Child[b][0] \in Branches /\ Child[b][1] \in Branches
      /\ b \notin Under(Child[b][0]) /\ b \notin Under(Child[b][1])
  BY <1>0, UnderChild, NotUnderChild
<1>2. IsFather(b, Child[b][0]) /\ IsFather(b, Child[b][1]) /\ Child[b][0] # Child[b][1]
  BY <1>0, TreeAssumption DEF TreeAssumption, IsFather
<1>3. Child[b][0] \notin Under(Child[b][1]) /\ Child[b][1] \notin Under(Child[b][0])
  BY <1>1, <1>2, FatherUnder
<1>4. Child[b][0] \in S /\ S \in SUBSET Branches
  BY <1>1, <1>3, UnderClosed
<1>5. ASSUME NEW y \in S, NEW c \in Sides, ~Leaf[y][c] PROVE Child[y][c] \in S
  <2>1. y \in Branches /\ Child[y][c] \in Under(Child[b][0]) /\ y \notin Under(Child[b][1])
    BY <1>1, <1>4, <1>5, UnderClosed
  <2>2. ASSUME Child[y][c] \in Both PROVE FALSE
    <3>1. Child[y][c] # Child[b][1] /\ IsFather(y, Child[y][c])
      BY <1>3, <1>5, <2>2 DEF IsFather
    <3> QED BY <1>1, <2>1, <2>2, <3>1, FatherUnder
  <2> QED BY <2>1, <2>2
<1> HIDE DEF S
<1>6. Under(Child[b][0]) \subseteq S
  BY <1>1, <1>4, <1>5, UnderOrIn DEF Closed
<1> QED BY <1>6 DEF S

\* The nodes below the two children of a branch are different ones, and they
\* are all of those below it.
LEMMA NodesApart ==
  ASSUME NEW b \in Branches
  PROVE  /\ \A c \in Sides : NodesOf(b, c) \subseteq Below(b) /\ NodesOf(b, c) \subseteq Peers
         /\ NodesOf(b, 0) \cap NodesOf(b, 1) = {}
<1>0. 0 \in Sides /\ 1 \in Sides /\ Sides = {0, 1}
  BY DEF Sides
<1>1. ASSUME NEW c \in Sides
      PROVE NodesOf(b, c) \subseteq Below(b) /\ NodesOf(b, c) \subseteq Peers
  <2>1. CASE Leaf[b][c]
    <3>1. Child[b][c] \in Peers /\ IsLeafFather(b, Child[b][c]) /\ b \in Under(b)
      BY <2>1, UnderClosed, TreeAssumption DEF TreeAssumption, IsLeafFather
    <3> QED BY <2>1, <3>1 DEF NodesOf, Below
  <2>2. CASE ~Leaf[b][c]
    BY <2>2, UnderChild DEF NodesOf, Below
  <2> QED BY <2>1, <2>2
<1>2. ASSUME NEW e \in Peers, NEW f \in Branches, NEW g \in Branches,
             IsLeafFather(f, e), IsLeafFather(g, e)
      PROVE f = g
  BY <1>2, TreeAssumption DEF TreeAssumption
<1>3. ASSUME NEW c \in Sides, NEW d \in Sides, c # d, Leaf[b][c], ~Leaf[b][d]
      PROVE Child[b][c] \notin Below(Child[b][d])
  <2>1. IsLeafFather(b, Child[b][c]) /\ Child[b][c] \in Peers
    BY <1>3, TreeAssumption DEF IsLeafFather, TreeAssumption
  <2>2. Child[b][d] \in Branches /\ b \notin Under(Child[b][d])
    BY <1>3, UnderChild, NotUnderChild
  <2>3. Under(Child[b][d]) \subseteq Branches
    BY <2>2, UnderClosed
  <2> QED BY <1>2, <2>1, <2>2, <2>3 DEF Below
<1>4. CASE Leaf[b][0] /\ Leaf[b][1]
  BY <1>1, <1>4, TreeAssumption DEF NodesOf, TreeAssumption
<1>5. CASE Leaf[b][0] /\ ~Leaf[b][1]
  BY <1>0, <1>1, <1>3, <1>5 DEF NodesOf
<1>6. CASE ~Leaf[b][0] /\ Leaf[b][1]
  BY <1>0, <1>1, <1>3, <1>6 DEF NodesOf
<1>7. CASE ~Leaf[b][0] /\ ~Leaf[b][1]
  <2>1. Under(Child[b][0]) \cap Under(Child[b][1]) = {}
    BY <1>7, ChildrenApart
  <2>2. Under(Child[b][0]) \subseteq Branches /\ Under(Child[b][1]) \subseteq Branches
    BY <1>0, <1>7, UnderChild, UnderClosed
  <2> QED BY <1>1, <1>2, <1>7, <2>1, <2>2 DEF NodesOf, Below
<1> QED BY <1>4, <1>5, <1>6, <1>7

\* There are as many nodes below a branch as below its two children.
LEMMA NodesAdd ==
  ASSUME NEW b \in Branches
  PROVE  /\ Cardinality(Below(b)) \in Nat /\ IsFiniteSet(Below(b))
         /\ \A c \in Sides : Cardinality(NodesOf(b, c)) \in Nat /\ IsFiniteSet(NodesOf(b, c))
         /\ Cardinality(NodesOf(b, 0)) + Cardinality(NodesOf(b, 1)) <= Cardinality(Below(b))
<1>0. 0 \in Sides /\ 1 \in Sides
  BY DEF Sides
<1>1. Below(b) \in SUBSET Peers /\ \A c \in Sides : NodesOf(b, c) \in SUBSET Peers
  BY NodesApart DEF Below
<1>2. /\ Cardinality(Below(b)) \in Nat /\ IsFiniteSet(Below(b))
      /\ \A c \in Sides : Cardinality(NodesOf(b, c)) \in Nat /\ IsFiniteSet(NodesOf(b, c))
  BY <1>1, Counts
<1>3. Cardinality(NodesOf(b, 0) \cup NodesOf(b, 1))
        = Cardinality(NodesOf(b, 0)) + Cardinality(NodesOf(b, 1)) - Cardinality({})
  BY <1>0, <1>2, NodesApart, FS_Union
<1>4. NodesOf(b, 0) \cup NodesOf(b, 1) \in SUBSET Below(b)
  BY <1>0, NodesApart
<1>5. Cardinality(NodesOf(b, 0) \cup NodesOf(b, 1)) <= Cardinality(Below(b))
  BY <1>2, <1>4, FS_Subset
<1> QED BY <1>0, <1>2, <1>3, <1>5, FS_EmptySet

\* The fathers.
LEMMA Fathers ==
  /\ \A b \in Branches : Father(b) # NoAddr => Father(b) \in Branches /\ IsFather(Father(b), b)
  /\ \A e \in Peers : LeafFather(e) \in Branches /\ IsLeafFather(LeafFather(e), e)
<1>1. ASSUME NEW b \in Branches, Father(b) # NoAddr
      PROVE Father(b) \in Branches /\ IsFather(Father(b), b)
  BY <1>1 DEF Father
<1>2. ASSUME NEW e \in Peers
      PROVE LeafFather(e) \in Branches /\ IsLeafFather(LeafFather(e), e)
  <2>1. \E f \in Branches : IsLeafFather(f, e)
    BY TreeAssumption DEF TreeAssumption
  <2> QED BY <2>1 DEF LeafFather
<1> QED BY <1>1, <1>2

-----------------------------------------------------------------------------
(* The types, and how many nodes each piece of information may count.      *)

Links == [n : Nat, seq : Nat] \cup {NoAddr}
Infos == [type : {"info"}, src : Peers, dst : Branches, n : Nat, seq : Nat]
Bags == [type : {"bag"}, src : Peers, dst : Peers, req : Requests, first : Nat,
         last : Nat, forEN : BOOLEAN, fromEN : BOOLEAN]

\* The two links of b count no more nodes than there are.
GoodLinks(b, links) ==
  /\ links \in [Sides -> Links]
  /\ \A c \in Sides : Known(links[c]) <= Cardinality(NodesOf(b, c))

\* What b has to tell its father, and what it has told.
GoodWaiting(b, w) == w # NoAddr => w \in Nat /\ w <= Cardinality(Below(b))
GoodNotified(last) == last = NoAddr \/ last \in [n : Nat, seq : Nat \ {0}]

\* Messages go from a child to its father; bags are intervals of tasks.
GoodInfo(m) ==
  /\ m \in Infos
  /\ IsFather(m.dst, m.src) \/ IsLeafFather(m.dst, m.src)
  /\ \A c \in Sides : Child[m.dst][c] = m.src => m.n <= Cardinality(NodesOf(m.dst, c))
GoodBag(m) ==
  /\ m \in Bags
  /\ 1 <= m.first /\ m.first <= m.last /\ m.last <= NumTasks[m.req]
  /\ ~m.forEN => m.dst \in Branches

LinksInv ==
  /\ info \in [Branches -> [Sides -> Links]]
  /\ waiting \in [Branches -> Nat \cup {NoAddr}]
  /\ notified \in [Branches -> [n : Nat, seq : Nat \ {0}] \cup {NoAddr}]
  /\ \A b \in Branches : GoodLinks(b, info[b]) /\ GoodWaiting(b, waiting[b])
DelayedInv ==
  /\ delayed \in [Branches -> Seq(Infos)]
  /\ \A b \in Branches : \A k \in 1 .. Len(delayed[b]) :
       GoodInfo(delayed[b][k]) /\ delayed[b][k].dst = b
NetInv == \A m \in net : GoodInfo(m) \/ GoodBag(m)
NodesInv ==
  /\ running \in [Peers -> Tasks \cup {NoAddr}] /\ seqNum \in [Peers -> Nat]
  /\ left \in [refresh : [Peers -> Nat], faults : Nat]
SetsInv ==
  /\ inChange \subseteq Branches /\ hot \subseteq Branches /\ timer \subseteq Branches
  /\ crashed \subseteq Branches
  /\ pending \subseteq Requests /\ done \subseteq Tasks /\ lost \subseteq Tasks

TypeInv == LinksInv /\ DelayedInv /\ NetInv /\ NodesInv /\ SetsInv

\* The inductive invariant implies the type invariant.
LEMMA TypesFollow == TypeInv => TypeOK /\ NoInventedNodes
<1> SUFFICES ASSUME TypeInv PROVE TypeOK /\ NoInventedNodes
  OBVIOUS
<1> USE DEF TypeInv
<1>1. ASSUME NEW b \in Branches, NEW c \in Sides, info[b][c] # NoAddr
      PROVE  info[b][c].n \in Nat /\ info[b][c].seq \in Nat
  <2>1. info[b][c] \in Links
    BY DEF LinksInv
  <2> QED BY <1>1, <2>1 DEF Links
<1>2. ASSUME NEW b \in Branches
      PROVE  /\ waiting[b] # NoAddr => waiting[b] \in Nat
             /\ notified[b] # NoAddr => notified[b].n \in Nat /\ notified[b].seq \in Nat \ {0}
             /\ \A k \in DOMAIN delayed[b] : delayed[b][k].dst = b
  <2>1. notified[b] \in [n : Nat, seq : Nat \ {0}] \cup {NoAddr}
    BY DEF LinksInv
  <2>2. delayed[b] \in Seq(Infos)
    BY DEF DelayedInv
  <2>3. DOMAIN delayed[b] = 1 .. Len(delayed[b])
    BY <2>2
  <2> QED BY <2>1, <2>3 DEF LinksInv, DelayedInv
<1>3. inChange \cup hot \cup timer \subseteq Branches /\ crashed \subseteq Branches
      /\ pending \subseteq Requests /\ done \cup lost \subseteq Tasks
  BY DEF SetsInv
<1>4. /\ \A e \in Peers : running[e] # NoAddr => running[e] \in Tasks
      /\ seqNum \in [Peers -> Nat]
  BY DEF NodesInv
<1>5. \A m \in net : (m.type = "info" => GoodInfo(m)) /\ (m.type = "bag" => GoodBag(m))
  BY DEF NetInv, GoodInfo, GoodBag, Infos, Bags
<1>6. /\ \A m \in InfoMsgs : IsFather(m.dst, m.src) \/ IsLeafFather(m.dst, m.src)
      /\ \A m \in BagMsgs : 1 <= m.first /\ m.first <= m.last /\ m.last <= NumTasks[m.req]
  BY <1>5 DEF InfoMsgs, BagMsgs, GoodInfo, GoodBag
<1>7. NoInventedNodes
  BY DEF NoInventedNodes, LinksInv, GoodLinks
<1> QED BY <1>1, <1>2, <1>3, <1>4, <1>6, <1>7 DEF TypeOK

-----------------------------------------------------------------------------
(* What the helpers keep.                                                  *)

\* The information of the children is joined without counting a node twice.
LEMMA JoinedIsGood ==
  ASSUME NEW b \in Branches, NEW links, GoodLinks(b, links)
  PROVE  GoodWaiting(b, Joined(links))
<1>0. 0 \in Sides /\ 1 \in Sides
  BY DEF Sides
<1>1. \A c \in Sides : Known(links[c]) \in Nat /\ Known(links[c]) <= Cardinality(NodesOf(b, c))
  <2>1. ASSUME NEW c \in Sides PROVE Known(links[c]) \in Nat
    <3>1. links[c] \in Links
      BY DEF GoodLinks
    <3> QED BY <3>1 DEF Links, Known
  <2> QED BY <2>1 DEF GoodLinks
<1>2. Known(links[0]) + Known(links[1]) \in Nat
      /\ Known(links[0]) + Known(links[1]) <= Cardinality(Below(b))
  BY <1>0, <1>1, NodesAdd
<1>3. Joined(links) = NoAddr \/ Joined(links) = Known(links[0]) + Known(links[1])
  BY Zenon DEF Joined
<1> QED BY <1>2, <1>3 DEF GoodWaiting

\* An update is about nodes that are there.
LEMMA UpdatedIsGood ==
  ASSUME NEW b \in Branches, NEW links, GoodLinks(b, links),
         NEW m, GoodInfo(m), m.dst = b
  PROVE  GoodLinks(b, Updated(b, links, m))
<1> DEFINE up == Updated(b, links, m)
<1>1. ASSUME NEW c \in Sides
      PROVE  up[c] \in Links /\ Known(up[c]) <= Cardinality(NodesOf(b, c))
  <2>1. links[c] \in Links /\ Known(links[c]) <= Cardinality(NodesOf(b, c))
    BY DEF GoodLinks
  <2>2. up[c] = IF Child[b][c] = m.src /\ IsNewer(links[c], m.seq)
                THEN [n |-> m.n, seq |-> m.seq] ELSE links[c]
    BY DEF Updated
  <2>3. m.n \in Nat /\ m.seq \in Nat
    BY DEF GoodInfo, Infos
  <2>4. CASE up[c] = links[c]
    BY <2>1, <2>4
  <2>5. CASE Child[b][c] = m.src /\ up[c] = [n |-> m.n, seq |-> m.seq]
    <3>1. m.n <= Cardinality(NodesOf(b, c)) /\ Cardinality(NodesOf(b, c)) \in Nat
      BY <2>5, NodesAdd DEF GoodInfo
    <3> QED BY <2>3, <2>5, <3>1 DEF Links, Known
  <2> QED BY <2>2, <2>4, <2>5
<1>2. up \in [Sides -> Links]
  BY <1>1 DEF Updated
<1> QED BY <1>1, <1>2 DEF GoodLinks

\* What a branch tells its father is good for its link there.
LEMMA MessageIsGood ==
  ASSUME NEW b \in Branches, NEW w \in Nat, GoodWaiting(b, w), NEW seq \in Nat, w # NoAddr,
         Father(b) # NoAddr
  PROVE  GoodInfo(InfoMsg(b, Father(b), w, seq))
<1> DEFINE m == InfoMsg(b, Father(b), w, seq)
<1>1. Father(b) \in Branches /\ IsFather(Father(b), b) /\ b \in Peers
  BY Fathers, TreeAssumption DEF TreeAssumption
<1>2. m \in Infos /\ m.dst = Father(b) /\ m.src = b /\ m.n = w
  BY <1>1 DEF InfoMsg, Infos
<1>3. ASSUME NEW c \in Sides, Child[Father(b)][c] = b
      PROVE  NodesOf(Father(b), c) = Below(b)
  <2>1. ~Leaf[Father(b)][c]
    BY <1>1, <1>3, TreeAssumption DEF IsFather, TreeAssumption, Sides
  <2> QED BY <1>3, <2>1 DEF NodesOf
<1> HIDE DEF m
<1> QED BY <1>1, <1>2, <1>3 DEF GoodInfo, GoodWaiting, m

\* A node tells its father whether it is idle.
LEMMA NodeInfoIsGood ==
  ASSUME NEW e \in Peers, NEW seq \in Nat, NEW n \in {0, 1}
  PROVE  GoodInfo(InfoMsg(e, LeafFather(e), n, seq))
<1> DEFINE m == InfoMsg(e, LeafFather(e), n, seq)
<1>1. LeafFather(e) \in Branches /\ IsLeafFather(LeafFather(e), e)
  BY Fathers
<1>2. m \in Infos /\ m.dst = LeafFather(e) /\ m.src = e /\ m.n = n
  BY <1>1 DEF InfoMsg, Infos
<1>3. ASSUME NEW c \in Sides, Child[LeafFather(e)][c] = e
      PROVE  Cardinality(NodesOf(LeafFather(e), c)) = 1
  <2>1. Leaf[LeafFather(e)][c]
    <3>1. PICK d \in Sides : Leaf[LeafFather(e)][d] /\ Child[LeafFather(e)][d] = e
      BY <1>1 DEF IsLeafFather
    <3>2. Child[LeafFather(e)][0] # Child[LeafFather(e)][1]
      BY <1>1, TreeAssumption DEF TreeAssumption
    <3>3. c = d
      BY <1>3, <3>1, <3>2 DEF Sides
    <3> QED BY <3>1, <3>3
  <2> QED BY <1>3, <2>1, FS_Singleton DEF NodesOf
<1> HIDE DEF m
<1> QED BY <1>1, <1>2, <1>3 DEF GoodInfo, m

\* What notify leaves, and what it sends.
LEMMA NotifiedIsGood ==
  ASSUME NEW b \in Branches, NEW w, GoodWaiting(b, w), NEW last, GoodNotified(last),
         NEW blocked,
         NEW out, out = Notified(b, w, last, blocked)
  PROVE  /\ GoodWaiting(b, out.waiting) /\ GoodNotified(out.notified)
         /\ \A m \in out.msgs : GoodInfo(m)
<1>1. NextSeq(last) \in Nat \ {0}
  <2>1. CASE last = NoAddr
    BY <2>1 DEF NextSeq
  <2>2. CASE last # NoAddr
    <3>1. last.seq \in Nat
      BY <2>2 DEF GoodNotified
    <3> QED BY <2>2, <3>1 DEF NextSeq
  <2> QED BY <2>1, <2>2
<1>2. CASE ~blocked /\ IsNews(b, w, last)
  <2>1. /\ out.waiting = NoAddr /\ out.notified = [n |-> w, seq |-> NextSeq(last)]
        /\ out.msgs = {InfoMsg(b, Father(b), w, NextSeq(last))}
    BY <1>2 DEF Notified
  <2>2. w # NoAddr /\ w \in Nat /\ Father(b) # NoAddr
    BY <1>2 DEF IsNews, GoodWaiting
  <2>3. GoodInfo(InfoMsg(b, Father(b), w, NextSeq(last)))
    BY <1>1, <2>2, MessageIsGood
  <2>4. GoodNotified(out.notified)
    BY <1>1, <2>1, <2>2 DEF GoodNotified
  <2>5. GoodWaiting(b, out.waiting)
    BY <2>1, Zenon DEF GoodWaiting
  <2> QED BY <2>1, <2>3, <2>4, <2>5
<1>3. CASE ~(~blocked /\ IsNews(b, w, last))
  <2>1. out.waiting = w /\ out.notified = last /\ out.msgs = {}
    BY <1>3 DEF Notified
  <2> QED BY <2>1
<1> QED BY <1>2, <1>3

\* What notify changes stays in its type.
LEMMA NotifyKeeps ==
  ASSUME LinksInv, NEW b \in Branches, NEW out, Notify(b, out),
         GoodWaiting(b, out.waiting), GoodNotified(out.notified),
         hot \subseteq Branches
  PROVE  /\ waiting' \in [Branches -> Nat \cup {NoAddr}]
         /\ notified' \in [Branches -> [n : Nat, seq : Nat \ {0}] \cup {NoAddr}]
         /\ \A x \in Branches : GoodWaiting(x, waiting'[x])
         /\ hot' \subseteq Branches
<1>1. out.waiting \in Nat \cup {NoAddr} /\ out.notified \in [n : Nat, seq : Nat \ {0}] \cup {NoAddr}
  BY DEF GoodWaiting, GoodNotified
<1>2. waiting' = [waiting EXCEPT ![b] = out.waiting] /\ notified' = [notified EXCEPT ![b] = out.notified]
      /\ (hot' = hot \/ hot' = hot \cup {b})
  BY DEF Notify
<1>3. waiting' \in [Branches -> Nat \cup {NoAddr}]
      /\ notified' \in [Branches -> [n : Nat, seq : Nat \ {0}] \cup {NoAddr}]
  BY <1>1, <1>2 DEF LinksInv
<1>4. \A x \in Branches : waiting'[x] = IF x = b THEN out.waiting ELSE waiting[x]
  BY <1>2 DEF LinksInv
<1>5. \A x \in Branches : GoodWaiting(x, waiting'[x])
  BY <1>4 DEF LinksInv
<1> QED BY <1>2, <1>3, <1>5

\* The links of one branch are replaced.
LEMMA LinksKept ==
  ASSUME LinksInv, NEW b \in Branches, NEW links, GoodLinks(b, links),
         info' = [info EXCEPT ![b] = links]
  PROVE  /\ info' \in [Branches -> [Sides -> Links]]
         /\ \A x \in Branches : GoodLinks(x, info'[x])
<1>1. links \in [Sides -> Links]
  BY DEF GoodLinks
<1>2. info' \in [Branches -> [Sides -> Links]]
      /\ \A x \in Branches : info'[x] = IF x = b THEN links ELSE info[x]
  BY <1>1 DEF LinksInv
<1> QED BY <1>2 DEF LinksInv

-----------------------------------------------------------------------------
(* The delayed updates.  The function that handles them one after another  *)
(* is defined by recursion; that there is one is shown for every prefix.   *)

UpdateStep(b, links, msgs, f, k) == IF k = 0 THEN links ELSE Updated(b, f[k - 1], msgs[k])
IsHistory(b, links, msgs, f) ==
  f = [k \in 0 .. Len(msgs) |-> UpdateStep(b, links, msgs, f, k)]

\* AfterDelayed is the last value of a function with the recursive definition.
LEMMA AfterDelayedDef ==
  ASSUME NEW b, NEW links, NEW msgs
  PROVE  AfterDelayed(b, links, msgs) = (CHOOSE f : IsHistory(b, links, msgs, f))[Len(msgs)]
BY DEF AfterDelayed, IsHistory, UpdateStep

\* A function that follows the recursion up to n.
Prefix(b, links, msgs, n, f) ==
  /\ DOMAIN f = 0 .. n
  /\ \A k \in 0 .. n : f[k] = UpdateStep(b, links, msgs, f, k)

\* There is such a function: the shortest list of messages without one has one.
LEMMA Histories ==
  ASSUME NEW b, NEW links, NEW msgs, Len(msgs) \in Nat
  PROVE  \E f : IsHistory(b, links, msgs, f)
<1> DEFINE Missing == {n \in Nat : ~ \E f : Prefix(b, links, msgs, n, f)}
<1>1. Missing = {}
  <2> SUFFICES ASSUME Missing # {} PROVE FALSE
    OBVIOUS
  <2>1. PICK n \in Missing : \A y \in Missing : n <= y
    <3> HIDE DEF Missing
    <3>1. Missing \in SUBSET Nat
      BY DEF Missing
    <3> QED BY <3>1, LeastNumber
  <2>2. CASE n = 0
    <3> DEFINE f == [k \in 0 .. 0 |-> links]
    <3>1. Prefix(b, links, msgs, 0, f)
      BY DEF Prefix, UpdateStep
    <3> HIDE DEF f
    <3> QED BY <2>1, <2>2, <3>1
  <2>3. CASE n # 0
    <3>1. n - 1 \in Nat /\ n \in Nat /\ n - 1 \notin Missing
      BY <2>1, <2>3
    <3>2. PICK g : Prefix(b, links, msgs, n - 1, g)
      BY <3>1
    <3> DEFINE f == [k \in 0 .. n |-> IF k = n THEN Updated(b, g[n - 1], msgs[n]) ELSE g[k]]
    <3>3. ASSUME NEW k \in 0 .. n PROVE f[k] = UpdateStep(b, links, msgs, f, k)
      <4>1. CASE k = n
        <5>1. n - 1 \in 0 .. n /\ n - 1 # n
          BY <3>1
        <5>2. f[n - 1] = g[n - 1]
          BY <5>1
        <5>3. f[n] = Updated(b, g[n - 1], msgs[n])
          BY <3>1
        <5> HIDE DEF f
        <5> QED BY <2>3, <4>1, <5>2, <5>3 DEF UpdateStep
      <4>2. CASE k = 0
        <5>1. f[0] = g[0] /\ g[0] = UpdateStep(b, links, msgs, g, 0)
          BY <2>3, <3>1, <3>2 DEF Prefix
        <5> HIDE DEF f
        <5> QED BY <4>2, <5>1 DEF UpdateStep
      <4>3. CASE k # n /\ k # 0
        <5>1. k \in 0 .. n - 1 /\ k - 1 \in 0 .. n /\ k - 1 # n /\ k # 0
          BY <3>1, <4>3
        <5>2. f[k] = g[k] /\ f[k - 1] = g[k - 1]
          BY <4>3, <5>1
        <5>3. g[k] = UpdateStep(b, links, msgs, g, k)
          BY <3>2, <5>1 DEF Prefix
        <5> HIDE DEF f
        <5> QED BY <5>1, <5>2, <5>3 DEF UpdateStep
      <4> QED BY <4>1, <4>2, <4>3
    <3>4. DOMAIN f = 0 .. n
      OBVIOUS
    <3> HIDE DEF f
    <3>5. Prefix(b, links, msgs, n, f)
      BY <3>3, <3>4 DEF Prefix
    <3> QED BY <2>1, <3>5
  <2> QED BY <2>2, <2>3
<1>2. PICK f : Prefix(b, links, msgs, Len(msgs), f)
  BY <1>1
<1> DEFINE g == [k \in 0 .. Len(msgs) |-> f[k]]
<1>3. ASSUME NEW k \in 0 .. Len(msgs) PROVE g[k] = UpdateStep(b, links, msgs, g, k)
  <2>1. g[k] = f[k] /\ f[k] = UpdateStep(b, links, msgs, f, k)
    BY <1>2 DEF Prefix
  <2>2. k # 0 => g[k - 1] = f[k - 1]
    OBVIOUS
  <2> HIDE DEF g
  <2> QED BY <2>1, <2>2 DEF UpdateStep
<1>4. g = [k \in 0 .. Len(msgs) |-> g[k]]
  OBVIOUS
<1> HIDE DEF g
<1>5. IsHistory(b, links, msgs, g)
  BY <1>3, <1>4 DEF IsHistory
<1> QED BY <1>5

\* The delayed updates leave good links.
LEMMA AfterDelayedIsGood ==
  ASSUME NEW b \in Branches, NEW links, GoodLinks(b, links), NEW msgs, Len(msgs) \in Nat,
         \A k \in 1 .. Len(msgs) : GoodInfo(msgs[k]) /\ msgs[k].dst = b
  PROVE  GoodLinks(b, AfterDelayed(b, links, msgs))
<1> DEFINE f == CHOOSE f : IsHistory(b, links, msgs, f)
<1>1. AfterDelayed(b, links, msgs) = f[Len(msgs)]
  BY AfterDelayedDef
<1>2. IsHistory(b, links, msgs, f)
  BY Histories
<1> HIDE DEF f
<1>3. \A k \in 0 .. Len(msgs) : f[k] = UpdateStep(b, links, msgs, f, k)
  <2>1. f = [k \in 0 .. Len(msgs) |-> UpdateStep(b, links, msgs, f, k)]
    BY <1>2 DEF IsHistory
  <2> QED BY ONLY <2>1, Zenon
<1> DEFINE Bad == {k \in 0 .. Len(msgs) : ~GoodLinks(b, f[k])}
<1>4. Bad = {}
  <2> SUFFICES ASSUME Bad # {} PROVE FALSE
    OBVIOUS
  <2>1. PICK k \in Bad : \A y \in Bad : k <= y
    <3> HIDE DEF Bad
    <3>1. Bad \in SUBSET Nat
      BY DEF Bad
    <3> QED BY <3>1, LeastNumber
  <2>2. k # 0
    BY <1>3, <2>1 DEF UpdateStep
  <2>3. k - 1 \in 0 .. Len(msgs) /\ k \in 1 .. Len(msgs) /\ k - 1 < k /\ k \in 0 .. Len(msgs)
    BY <2>1, <2>2
  <2>4. GoodLinks(b, f[k - 1])
    BY <2>1, <2>3
  <2>5. f[k] = Updated(b, f[k - 1], msgs[k])
    BY <1>3, <2>2, <2>3 DEF UpdateStep
  <2>6. GoodLinks(b, f[k])
    BY <2>3, <2>4, <2>5, UpdatedIsGood
  <2> QED BY <2>1, <2>6
<1> QED BY <1>1, <1>4

-----------------------------------------------------------------------------
(* The division of a bag.                                                  *)

\* The tasks for the children are no more than those of the bag, nor than the
\* nodes known below each child.
LEMMA DivisionIsGood ==
  ASSUME NEW m, GoodBag(m), m.dst \in Branches, info[m.dst] \in [Sides -> Links],
         NEW nearest \in Sides, NEW num, num = Division(m, nearest)
  PROVE  /\ num \in [Sides -> Nat] /\ num[0] \in Nat /\ num[1] \in Nat
         /\ num[0] + num[1] <= m.last - m.first + 1
         /\ \A c \in Sides : num[c] <= Known(info[m.dst][c])
<1> DEFINE total == m.last - m.first + 1
<1>0. 0 \in Sides /\ 1 \in Sides /\ Sides = {0, 1}
  BY DEF Sides
<1>1. total \in Nat
  BY DEF GoodBag, Bags
<1>2. ASSUME NEW c \in Sides
      PROVE Room(m, c) \in Nat /\ Known(info[m.dst][c]) \in Nat /\ Room(m, c) <= Known(info[m.dst][c])
  <2>1. info[m.dst][c] \in Links
    OBVIOUS
  <2>2. Known(info[m.dst][c]) \in Nat
    BY <2>1 DEF Known, Links
  <2>3. Room(m, c) = Known(info[m.dst][c]) \/ Room(m, c) = 0
    BY Zenon DEF Room
  <2> QED BY <2>2, <2>3
<1> DEFINE taken == MinOf(total, Room(m, nearest))
<1>3. taken \in Nat /\ taken <= total /\ taken <= Room(m, nearest)
  BY <1>1, <1>2 DEF MinOf
<1> HIDE DEF total, taken
<1>4. num = [c \in Sides |-> IF c = nearest THEN taken ELSE MinOf(total - taken, Room(m, c))]
  BY Zenon DEF Division, total, taken
<1>5. \A c \in Sides : num[c] = IF c = nearest THEN taken ELSE MinOf(total - taken, Room(m, c))
  BY <1>4
<1>6. \A c \in Sides : c # nearest =>
        num[c] \in Nat /\ num[c] <= total - taken /\ num[c] <= Room(m, c)
  BY <1>1, <1>2, <1>3, <1>5 DEF MinOf
<1>7. num[nearest] = taken
  BY <1>5
<1>8. \A c \in Sides : num[c] \in Nat /\ num[c] <= Known(info[m.dst][c])
  <2>1. ASSUME NEW c \in Sides PROVE num[c] \in Nat /\ num[c] <= Known(info[m.dst][c])
    <3>1. num[c] \in Nat /\ num[c] <= Room(m, c)
      BY <1>3, <1>6, <1>7
    <3> QED BY <1>2, <3>1
  <2> QED BY <2>1
<1>9. num[0] + num[1] <= total
  <2>1. CASE nearest = 0
    BY <1>0, <1>1, <1>3, <1>6, <1>7, <2>1
  <2>2. CASE nearest = 1
    BY <1>0, <1>1, <1>3, <1>6, <1>7, <2>2
  <2> QED BY <1>0, <2>1, <2>2
<1>10. num \in [Sides -> Nat]
  BY <1>4, <1>8
<1> QED BY <1>0, <1>8, <1>9, <1>10 DEF total

\* What is left after sending tasks.
LEMMA TakenIsGood ==
  ASSUME NEW b \in Branches, NEW links, GoodLinks(b, links), NEW num \in [Sides -> Nat],
         \A c \in Sides : num[c] <= Known(links[c])
  PROVE  /\ GoodLinks(b, Taken(links, num))
         /\ \A c \in Sides : num[c] > 0 =>
              links[c] # NoAddr /\ Taken(links, num)[c] = [n |-> links[c].n - num[c], seq |-> links[c].seq]
         /\ \A c \in Sides : num[c] = 0 => Taken(links, num)[c] = links[c]
<1> DEFINE new == Taken(links, num)
<1>1. ASSUME NEW c \in Sides
      PROVE  /\ new[c] \in Links /\ Known(new[c]) <= Cardinality(NodesOf(b, c))
             /\ num[c] > 0 => links[c] # NoAddr /\ new[c] = [n |-> links[c].n - num[c], seq |-> links[c].seq]
             /\ num[c] = 0 => new[c] = links[c]
  <2>0. links[c] \in Links /\ num[c] \in Nat /\ Known(links[c]) <= Cardinality(NodesOf(b, c))
    BY DEF GoodLinks
  <2>1. new[c] = IF num[c] > 0 THEN [links[c] EXCEPT !.n = @ - num[c]] ELSE links[c]
    BY DEF Taken
  <2>2. CASE num[c] = 0
    BY <2>0, <2>1, <2>2
  <2>3. CASE num[c] > 0
    <3>1. links[c] # NoAddr
      BY <2>0, <2>3 DEF Known
    <3>2. links[c] \in [n : Nat, seq : Nat] /\ links[c].n \in Nat /\ links[c].seq \in Nat
          /\ num[c] <= links[c].n /\ links[c].n <= Cardinality(NodesOf(b, c))
      BY <2>0, <3>1 DEF Links, Known
    <3>3. new[c] = [n |-> links[c].n - num[c], seq |-> links[c].seq]
      BY <2>1, <2>3, <3>2
    <3>4. new[c] \in Links
      BY <3>2, <3>3 DEF Links
    <3>5. Known(new[c]) <= Cardinality(NodesOf(b, c))
      <4>1. Cardinality(NodesOf(b, c)) \in Nat
        BY NodesAdd
      <4> QED BY <2>0, <3>2, <3>3, <4>1 DEF Known
    <3> QED BY <2>3, <3>1, <3>3, <3>4, <3>5
  <2> QED BY <2>0, <2>2, <2>3
<1>2. new \in [Sides -> Links]
  BY <1>1 DEF Taken
<1> QED BY <1>1, <1>2 DEF GoodLinks

\* The tasks of a request.
LEMMA TasksDef ==
  /\ \A r \in Requests, i \in Nat : <<r, i>> \in Tasks <=> 1 <= i /\ i <= NumTasks[r]
  /\ \A t \in Tasks : t = <<t[1], t[2]>> /\ t[1] \in Requests /\ t[2] \in Nat
                      /\ 1 <= t[2] /\ t[2] <= NumTasks[t[1]]
BY RequestAssumption DEF RequestAssumption, Tasks

\* The tasks from first to last.
LEMMA TasksOfDef ==
  ASSUME NEW r, NEW first, NEW last, NEW t
  PROVE  t \in TasksOf(r, first, last) <=> t = <<r, t[2]>> /\ t[2] \in first .. last
BY DEF TasksOf

\* The tasks of a bag are tasks.
LEMMA TasksOfBag ==
  ASSUME NEW r \in Requests, NEW first \in Nat, NEW last \in Nat,
         1 <= first, last <= NumTasks[r]
  PROVE  TasksOf(r, first, last) \subseteq Tasks
<1>1. NumTasks[r] \in Nat
  BY RequestAssumption DEF RequestAssumption
<1>2. ASSUME NEW t \in TasksOf(r, first, last) PROVE t \in Tasks
  <2>1. t = <<r, t[2]>> /\ t[2] \in first .. last
    BY TasksOfDef
  <2>2. t[2] \in Nat /\ 1 <= t[2] /\ t[2] <= NumTasks[r]
    BY <1>1, <2>1
  <2>3. <<r, t[2]>> \in Tasks
    BY <2>2, TasksDef
  <2> QED BY <2>1, <2>3
<1> QED BY <1>2

\* The bags that are sent after a division are intervals of tasks too.
LEMMA SentIsGood ==
  ASSUME NEW m, GoodBag(m), m.dst \in Branches, NEW num \in [Sides -> Nat],
         num[0] \in Nat, num[1] \in Nat, num[0] + num[1] <= m.last - m.first + 1
  PROVE  /\ \A x \in ToChildren(m, num) : GoodBag(x)
         /\ FirstOf(m, num, 2) = m.first + num[0] + num[1] /\ FirstOf(m, num, 2) \in Nat
         /\ FirstOf(m, num, 0) = m.first /\ FirstOf(m, num, 1) = m.first + num[0]
         /\ TasksOf(m.req, FirstOf(m, num, 2), m.last) \subseteq Tasks
         /\ TasksOf(m.req, FirstOf(m, num, 2), m.last) # {} /\ GoesUp(m) =>
              GoodBag(BagMsg(m.dst, Father(m.dst), m.req, FirstOf(m, num, 2), m.last, FALSE, FALSE))
<1>0. /\ m.first \in Nat /\ m.last \in Nat /\ m.req \in Requests /\ 1 <= m.first
      /\ m.last <= NumTasks[m.req] /\ NumTasks[m.req] \in Nat /\ m.dst \in Peers
  BY TreeAssumption, RequestAssumption DEF GoodBag, Bags, TreeAssumption, RequestAssumption
<1>1. /\ FirstOf(m, num, 2) = m.first + num[0] + num[1] /\ FirstOf(m, num, 0) = m.first
      /\ FirstOf(m, num, 1) = m.first + num[0]
  BY <1>0 DEF FirstOf
<1>2. ASSUME NEW c \in Sides, num[c] > 0
      PROVE  GoodBag(BagMsg(m.dst, Child[m.dst][c], m.req, FirstOf(m, num, c),
                            FirstOf(m, num, c) + num[c] - 1, Leaf[m.dst][c], FALSE))
  <2> DEFINE x == BagMsg(m.dst, Child[m.dst][c], m.req, FirstOf(m, num, c),
                         FirstOf(m, num, c) + num[c] - 1, Leaf[m.dst][c], FALSE)
             first == FirstOf(m, num, c)
             last == FirstOf(m, num, c) + num[c] - 1
  <2>1. Child[m.dst][c] \in Peers /\ Leaf[m.dst][c] \in BOOLEAN
        /\ (~Leaf[m.dst][c] => Child[m.dst][c] \in Branches)
    <3>1. Child[m.dst] \in [Sides -> Peers] /\ Leaf[m.dst] \in [Sides -> BOOLEAN]
      BY TreeAssumption DEF TreeAssumption
    <3>2. Leaf[m.dst][c] \in BOOLEAN /\ Child[m.dst][c] \in Peers
      BY <3>1, Zenon
    <3>3. ~Leaf[m.dst][c] => Child[m.dst][c] \in Branches
      BY TreeAssumption DEF TreeAssumption
    <3> QED BY <3>2, <3>3
  <2>2. first \in Nat /\ last \in Nat /\ 1 <= first /\ first <= last /\ last <= NumTasks[m.req]
    <3>1. CASE c = 0
      BY <1>0, <1>1, <1>2, <3>1
    <3>2. CASE c = 1
      BY <1>0, <1>1, <1>2, <3>2
    <3> QED BY <3>1, <3>2 DEF Sides
  <2>3. /\ x = [type |-> "bag", src |-> m.dst, dst |-> Child[m.dst][c], req |-> m.req,
                first |-> first, last |-> last, forEN |-> Leaf[m.dst][c], fromEN |-> FALSE]
    BY DEF BagMsg
  <2> HIDE DEF x, first, last
  <2>4. x \in Bags
    BY <1>0, <2>1, <2>2, <2>3 DEF Bags
  <2>5. x.first = first /\ x.last = last /\ x.req = m.req /\ x.dst = Child[m.dst][c]
        /\ x.forEN = Leaf[m.dst][c]
    BY <2>3
  <2>6. GoodBag(x)
    BY <2>1, <2>2, <2>4, <2>5 DEF GoodBag
  <2> QED BY <2>6 DEF x
<1>3. \A x \in ToChildren(m, num) : GoodBag(x)
  BY <1>2 DEF ToChildren
<1> DEFINE next == FirstOf(m, num, 2)
<1>4. next \in Nat /\ 1 <= next
  BY <1>0, <1>1
<1>5. TasksOf(m.req, next, m.last) \subseteq Tasks
  BY <1>0, <1>4, TasksOfBag
<1>6. ASSUME TasksOf(m.req, next, m.last) # {}, GoesUp(m)
      PROVE  GoodBag(BagMsg(m.dst, Father(m.dst), m.req, next, m.last, FALSE, FALSE))
  <2>1. next <= m.last
    BY <1>0, <1>4, <1>6 DEF TasksOf
  <2>2. Father(m.dst) \in Branches /\ Father(m.dst) \in Peers
    BY <1>6, Fathers, TreeAssumption DEF GoesUp, TreeAssumption
  <2> HIDE DEF next
  <2> QED BY <1>0, <1>4, <2>1, <2>2 DEF GoodBag, Bags, BagMsg
<1> QED BY <1>1, <1>3, <1>4, <1>5, <1>6

-----------------------------------------------------------------------------
(* Type correctness: each action keeps the invariant.                      *)

\* The types hold at the start, whether the simulator built the links or not.
LEMMA TypeInit == Init => TypeInv
<1> SUFFICES ASSUME Init PROVE TypeInv
  OBVIOUS
<1>1. ASSUME NEW b \in Branches PROVE GoodLinks(b, BuiltLinks(b)) /\ GoodLinks(b, NoLinks)
  <2>1. \A c \in Sides : Cardinality(NodesOf(b, c)) \in Nat
    BY NodesAdd
  <2>2. BuiltLinks(b) \in [Sides -> Links] /\ NoLinks \in [Sides -> Links]
    BY <2>1 DEF BuiltLinks, NoLinks, Links
  <2>3. \A c \in Sides : BuiltLinks(b)[c].n = Cardinality(NodesOf(b, c)) /\ NoLinks[c] = NoAddr
    BY DEF BuiltLinks, NoLinks
  <2>4. \A c \in Sides : Known(BuiltLinks(b)[c]) <= Cardinality(NodesOf(b, c))
                      /\ Known(NoLinks[c]) <= Cardinality(NodesOf(b, c))
    BY <2>1, <2>3 DEF Known
  <2> QED BY <2>2, <2>4 DEF GoodLinks
<1>2. ASSUME NEW b \in Branches
      PROVE  /\ GoodWaiting(b, IF Built THEN Joined(BuiltLinks(b)) ELSE NoAddr)
             /\ GoodLinks(b, IF Built THEN BuiltLinks(b) ELSE NoLinks)
  <2>1. GoodWaiting(b, NoAddr)
    BY DEF GoodWaiting
  <2>2. GoodWaiting(b, Joined(BuiltLinks(b)))
    BY <1>1, JoinedIsGood
  <2> QED BY <1>1, <2>1, <2>2
<1>3. /\ info \in [Branches -> [Sides -> Links]]
      /\ \A b \in Branches : GoodLinks(b, info[b])
  <2>1. info = [b \in Branches |-> IF Built THEN BuiltLinks(b) ELSE NoLinks]
    BY DEF Init
  <2>2. \A b \in Branches : GoodLinks(b, info[b]) /\ info[b] \in [Sides -> Links]
    BY <1>2, <2>1 DEF GoodLinks
  <2> QED BY <2>1, <2>2
<1>4. /\ waiting \in [Branches -> Nat \cup {NoAddr}]
      /\ \A b \in Branches : GoodWaiting(b, waiting[b])
  <2>1. waiting = [b \in Branches |-> IF Built THEN Joined(BuiltLinks(b)) ELSE NoAddr]
    BY DEF Init
  <2>2. \A b \in Branches : GoodWaiting(b, waiting[b])
    BY <1>2, <2>1
  <2>3. \A b \in Branches : waiting[b] \in Nat \cup {NoAddr}
    BY <2>2 DEF GoodWaiting
  <2> QED BY <2>1, <2>2, <2>3
<1>5. LinksInv
  BY <1>3, <1>4 DEF LinksInv, Init
<1>6. DelayedInv
  BY DEF Init, DelayedInv
<1>7. NetInv /\ NodesInv /\ SetsInv
  BY RequestAssumption DEF Init, NetInv, NodesInv, SetsInv, RequestAssumption
<1> QED BY <1>5, <1>6, <1>7 DEF TypeInv

\* Messages go, and come from what notify sends.
LEMMA NetKept ==
  ASSUME NetInv, NEW new, \A m \in new : GoodInfo(m) \/ GoodBag(m),
         net' \subseteq net \cup new
  PROVE  NetInv'
BY DEF NetInv, GoodInfo, GoodBag, Infos, Bags

\* A message is a good one of its type.
LEMMA TypeOfMessages ==
  ASSUME NetInv, NEW m \in net
  PROVE  (m.type = "info" => GoodInfo(m)) /\ (m.type = "bag" => GoodBag(m))
BY DEF NetInv, GoodInfo, GoodBag, Infos, Bags

\* Each action keeps the types: handle(AvailabilityInformation),
LEMMA HandleInfoTyped ==
  ASSUME TypeInv, NEW m \in net, HandleInfo(m)
  PROVE  TypeInv'
<1> DEFINE b == m.dst
           links == Updated(b, info[b], m)
           w == IF links # info[b] THEN Joined(links) ELSE waiting[b]
           out == Notified(b, w, notified[b], MustWait(b))
<1>1. /\ m.type = "info" /\ b \in Branches \ crashed
      /\ \/ /\ b \in inChange
            /\ delayed' = [delayed EXCEPT ![b] = Append(@, m)]
            /\ net' = net \ {m}
            /\ UNCHANGED <<info, waiting, notified, hot, timer>>
         \/ /\ b \notin inChange
            /\ info' = [info EXCEPT ![b] = links]
            /\ Notify(b, out) /\ SetUpdateTimer(b)
            /\ net' = (net \ {m}) \cup out.msgs
            /\ UNCHANGED delayed
      /\ UNCHANGED <<inChange, nodeVars, pending, done, lost, crashed, left>>
  BY DEF HandleInfo
<1>2. GoodInfo(m) /\ m \in Infos
  BY <1>1, TypeOfMessages DEF TypeInv, GoodInfo
<1>3. GoodLinks(b, info[b]) /\ GoodWaiting(b, waiting[b]) /\ GoodNotified(notified[b])
  BY <1>1 DEF TypeInv, LinksInv, GoodNotified
<1>4. GoodLinks(b, links)
  BY <1>1, <1>2, <1>3, UpdatedIsGood
<1>5. GoodWaiting(b, w)
  <2> HIDE DEF links
  <2> QED BY <1>1, <1>3, <1>4, JoinedIsGood
<1> HIDE DEF w, links
<1>6. GoodWaiting(b, out.waiting) /\ GoodNotified(out.notified) /\ \A x \in out.msgs : GoodInfo(x)
  BY <1>1, <1>3, <1>5, NotifiedIsGood
<1>7. NodesInv'
  BY <1>1 DEF TypeInv, NodesInv, nodeVars
<1> HIDE DEF out
<1>8. CASE b \in inChange
  <2>1. /\ delayed' = [delayed EXCEPT ![b] = Append(@, m)] /\ net' = net \ {m}
        /\ UNCHANGED <<info, waiting, notified, hot, timer>>
    BY <1>1, <1>8
  <2>2. LinksInv' /\ SetsInv'
    BY <1>1, <2>1 DEF TypeInv, LinksInv, SetsInv
  <2>3. NetInv'
    BY <2>1 DEF TypeInv, NetInv
  <2>4. DelayedInv'
    <3>1. ASSUME NEW x \in Branches
          PROVE  /\ delayed'[x] \in Seq(Infos)
                 /\ \A k \in 1 .. Len(delayed'[x]) : GoodInfo(delayed'[x][k]) /\ delayed'[x][k].dst = x
      <4>1. delayed[x] \in Seq(Infos)
            /\ \A k \in 1 .. Len(delayed[x]) : GoodInfo(delayed[x][k]) /\ delayed[x][k].dst = x
        BY DEF TypeInv, DelayedInv
      <4>2. CASE x # b
        <5>1. delayed'[x] = delayed[x]
          BY <2>1, <4>2 DEF TypeInv, DelayedInv
        <5> QED BY <4>1, <5>1
      <4>3. CASE x = b
        <5>1. delayed'[x] = Append(delayed[x], m)
          BY <2>1, <4>3 DEF TypeInv, DelayedInv
        <5> DEFINE old == delayed[x]
                   new == delayed'[x]
        <5>2. m \in Infos /\ GoodInfo(m) /\ m.dst = x
          BY <1>2, <4>3
        <5>3. old \in Seq(Infos) /\ new = Append(old, m)
          BY <4>1, <5>1
        <5> HIDE DEF old, new
        <5>4. /\ new \in Seq(Infos) /\ Len(new) = Len(old) + 1 /\ Len(old) \in Nat
              /\ \A k \in 1 .. Len(old) + 1 : new[k] = IF k = Len(old) + 1 THEN m ELSE old[k]
          BY ONLY <5>2, <5>3
        <5>5. \A k \in 1 .. Len(new) : GoodInfo(new[k]) /\ new[k].dst = x
          BY <4>1, <5>2, <5>4 DEF old
        <5> QED BY <5>4, <5>5 DEF new
      <4> QED BY <4>2, <4>3
    <3>2. DOMAIN delayed' = Branches /\ delayed' = [x \in DOMAIN delayed' |-> delayed'[x]]
      BY <2>1 DEF TypeInv, DelayedInv
    <3> QED BY <3>1, <3>2 DEF DelayedInv
  <2> QED BY <1>7, <2>2, <2>3, <2>4 DEF TypeInv
<1>9. CASE b \notin inChange
  <2>1. /\ info' = [info EXCEPT ![b] = links]
        /\ Notify(b, out) /\ SetUpdateTimer(b)
        /\ net' = (net \ {m}) \cup out.msgs
        /\ UNCHANGED delayed
    BY <1>1, <1>9
  <2>2. LinksInv' /\ hot' \subseteq Branches
    BY <1>1, <1>4, <1>6, <2>1, NotifyKeeps, LinksKept DEF TypeInv, LinksInv, SetsInv
  <2>3. SetsInv'
    BY <1>1, <2>1, <2>2 DEF TypeInv, SetsInv, SetUpdateTimer
  <2>4. NetInv'
    <3> HIDE DEF b
    <3> QED BY <1>6, <2>1, NetKept DEF TypeInv
  <2>5. DelayedInv'
    BY <2>1 DEF TypeInv, DelayedInv
  <2> QED BY <1>7, <2>2, <2>3, <2>4, <2>5 DEF TypeInv
<1> QED BY <1>8, <1>9

\* handle(UpdateTimer),
LEMMA HandleUpdateTimerTyped ==
  ASSUME TypeInv, NEW b \in Branches, HandleUpdateTimer(b)
  PROVE  TypeInv'
<1> DEFINE out == Notified(b, waiting[b], notified[b], b \in inChange)
<1>1. /\ Notify(b, out) /\ timer' = timer \ {b} /\ net' = net \cup out.msgs
      /\ UNCHANGED <<info, inChange, delayed, nodeVars, pending, done, lost, crashed, left>>
  BY DEF HandleUpdateTimer
<1>2. GoodWaiting(b, waiting[b]) /\ GoodNotified(notified[b])
  BY DEF TypeInv, LinksInv, GoodNotified
<1>3. GoodWaiting(b, out.waiting) /\ GoodNotified(out.notified) /\ \A x \in out.msgs : GoodInfo(x)
  BY <1>2, NotifiedIsGood
<1> HIDE DEF out
<1>4. LinksInv' /\ hot' \subseteq Branches
  BY <1>1, <1>3, NotifyKeeps DEF TypeInv, LinksInv, SetsInv
<1>5. NetInv'
  BY <1>1, <1>3, NetKept DEF TypeInv
<1>6. DelayedInv' /\ NodesInv' /\ SetsInv'
  BY <1>1, <1>4 DEF TypeInv, DelayedInv, NodesInv, SetsInv, nodeVars
<1> QED BY <1>4, <1>5, <1>6 DEF TypeInv

\* commitChanges,
LEMMA CommitChangesTyped ==
  ASSUME TypeInv, NEW b \in Branches, NEW fatherChanged, CommitChanges(b, fatherChanged)
  PROVE  TypeInv'
<1> DEFINE links == AfterDelayed(b, NoLinks, delayed[b])
           last == IF fatherChanged THEN NoAddr ELSE notified[b]
           w == Joined(links)
           out == Notified(b, w, last, MustWait(b))
<1>1. /\ b \in inChange \ crashed /\ inChange' = inChange \ {b}
      /\ delayed' = [delayed EXCEPT ![b] = <<>>]
      /\ info' = [info EXCEPT ![b] = links]
      /\ Notify(b, out) /\ SetUpdateTimer(b)
      /\ net' = net \cup out.msgs
      /\ UNCHANGED <<nodeVars, pending, done, lost, crashed, left>>
  BY DEF CommitChanges
<1>2. GoodLinks(b, links)
  <2>1. NoLinks \in [Sides -> Links] /\ \A c \in Sides : Known(NoLinks[c]) = 0
    BY DEF NoLinks, Links, Known
  <2>2. GoodLinks(b, NoLinks)
    BY <2>1, NodesAdd DEF GoodLinks
  <2>3. Len(delayed[b]) \in Nat
        /\ \A k \in 1 .. Len(delayed[b]) : GoodInfo(delayed[b][k]) /\ delayed[b][k].dst = b
    BY DEF TypeInv, DelayedInv
  <2> QED BY <2>2, <2>3, AfterDelayedIsGood
<1>3. GoodWaiting(b, w) /\ GoodNotified(last)
  <2>1. GoodWaiting(b, w)
    BY <1>2, JoinedIsGood
  <2>2. GoodNotified(notified[b]) /\ GoodNotified(NoAddr)
    BY DEF TypeInv, LinksInv, GoodNotified
  <2> QED BY <2>1, <2>2
<1> HIDE DEF links, last, w
<1>4. GoodWaiting(b, out.waiting) /\ GoodNotified(out.notified) /\ \A x \in out.msgs : GoodInfo(x)
  BY <1>3, NotifiedIsGood
<1> HIDE DEF out
<1>5. LinksInv' /\ hot' \subseteq Branches
  BY <1>1, <1>2, <1>4, NotifyKeeps, LinksKept DEF TypeInv, LinksInv, SetsInv
<1>6. NetInv'
  BY <1>1, <1>4, NetKept DEF TypeInv
<1>7. NodesInv' /\ SetsInv'
  BY <1>1, <1>5 DEF TypeInv, NodesInv, SetsInv, nodeVars, SetUpdateTimer
<1>8. DelayedInv'
  <2>1. \A x \in Branches : delayed'[x] = IF x = b THEN <<>> ELSE delayed[x]
    BY <1>1 DEF TypeInv, DelayedInv
  <2>2. delayed' \in [Branches -> Seq(Infos)]
    BY <1>1 DEF TypeInv, DelayedInv
  <2> QED BY <2>1, <2>2 DEF TypeInv, DelayedInv
<1> QED BY <1>5, <1>6, <1>7, <1>8 DEF TypeInv

\* handle(TaskBagMsg) of the dispatcher
LEMMA HandleBagTyped ==
  ASSUME TypeInv, NEW m \in net, NEW nearest \in Sides, HandleBag(m, nearest)
  PROVE  TypeInv'
<1> DEFINE b == m.dst
           num == Division(m, nearest)
           links == Taken(info[b], num)
           w == IF links # info[b] THEN Joined(links) ELSE waiting[b]
           out == Notified(b, w, notified[b], MustWait(b) \/ b \in inChange)
           next == FirstOf(m, num, 2)
           rest == TasksOf(m.req, next, m.last)
           nullInfo == out.waiting = NoAddr /\ out.notified = NoAddr
           up == BagMsg(b, Father(b), m.req, next, m.last, FALSE, FALSE)
           sent == IF rest # {} /\ GoesUp(m) /\ ~nullInfo THEN {up} ELSE {}
<1>1. /\ m.type = "bag" /\ b \in Branches \ crashed
      /\ info' = [info EXCEPT ![b] = links]
      /\ Notify(b, out) /\ SetUpdateTimer(b)
      /\ net' = (net \ {m}) \cup out.msgs \cup ToChildren(m, num) \cup sent
      /\ lost' = IF GoesUp(m) /\ ~nullInfo THEN lost ELSE lost \cup rest
      /\ crashed' = IF rest # {} /\ GoesUp(m) /\ nullInfo THEN crashed \cup {b} ELSE crashed
      /\ UNCHANGED <<inChange, delayed, nodeVars, pending, done, left>>
  BY DEF HandleBag
<1>2. GoodBag(m) /\ m.dst \in Branches
  BY <1>1, TypeOfMessages DEF TypeInv
<1>3. GoodLinks(b, info[b]) /\ GoodWaiting(b, waiting[b]) /\ GoodNotified(notified[b])
      /\ info[b] \in [Sides -> Links]
  BY <1>1 DEF TypeInv, LinksInv, GoodNotified
<1>4. /\ num \in [Sides -> Nat] /\ num[0] \in Nat /\ num[1] \in Nat
      /\ num[0] + num[1] <= m.last - m.first + 1
      /\ \A c \in Sides : num[c] <= Known(info[b][c])
  BY <1>2, <1>3, DivisionIsGood
<1> HIDE DEF num
<1>5. GoodLinks(b, links)
  BY <1>2, <1>3, <1>4, TakenIsGood
<1>6. GoodWaiting(b, w)
  <2> HIDE DEF links
  <2> QED BY <1>2, <1>3, <1>5, JoinedIsGood
<1> HIDE DEF w, links
<1>7. GoodWaiting(b, out.waiting) /\ GoodNotified(out.notified) /\ \A x \in out.msgs : GoodInfo(x)
  BY <1>2, <1>3, <1>6, NotifiedIsGood
<1>8. /\ \A x \in ToChildren(m, num) : GoodBag(x)
      /\ rest \subseteq Tasks /\ \A x \in sent : GoodBag(x)
  BY <1>2, <1>4, SentIsGood
<1> HIDE DEF out, rest, sent, nullInfo
<1>9. LinksInv' /\ hot' \subseteq Branches
  BY <1>1, <1>2, <1>5, <1>7, NotifyKeeps, LinksKept DEF TypeInv, LinksInv, SetsInv
<1> DEFINE new == out.msgs \cup ToChildren(m, num) \cup sent
<1>10. NetInv'
  <2>1. net' \subseteq net \cup new /\ \A x \in new : GoodInfo(x) \/ GoodBag(x)
    BY <1>1, <1>7, <1>8
  <2> HIDE DEF new
  <2> QED BY <2>1, NetKept DEF TypeInv
<1>11. NodesInv' /\ SetsInv' /\ DelayedInv'
  BY <1>1, <1>8, <1>9 DEF TypeInv, NodesInv, SetsInv, DelayedInv, nodeVars, SetUpdateTimer
<1> QED BY <1>9, <1>10, <1>11 DEF TypeInv

\* A node whose message is in its type.
LEMMA NodeInfoTyped ==
  ASSUME NodesInv, NEW e \in Peers, NEW t
  PROVE  GoodInfo(NodeInfo(e, t))
<1>1. seqNum[e] + 1 \in Nat /\ (IF t = NoAddr THEN 1 ELSE 0) \in {0, 1}
  BY DEF NodesInv
<1> QED BY <1>1, NodeInfoIsGood DEF NodeInfo

\* and of the execution node,
LEMMA HandleNodeBagTyped ==
  ASSUME TypeInv, NEW m \in net, HandleNodeBag(m)
  PROVE  TypeInv'
<1>1. GoodBag(m) /\ m.dst \in Peers /\ m.type = "bag"
  BY TypeOfMessages DEF TypeInv, HandleNodeBag, GoodBag, Bags
<1>2. /\ <<m.req, m.first>> \in Tasks
      /\ TasksOf(m.req, m.first, m.last) \subseteq Tasks
  <2>1. m.req \in Requests /\ m.first \in Nat /\ m.last \in Nat /\ 1 <= m.first
        /\ m.last <= NumTasks[m.req] /\ m.first <= m.last /\ NumTasks[m.req] \in Nat
    BY <1>1, RequestAssumption DEF GoodBag, Bags, RequestAssumption
  <2> QED BY <2>1, TasksDef, TasksOfBag
<1>3. UNCHANGED <<info, waiting, notified, inChange, delayed, hot, timer, pending, done, crashed, left>>
  BY DEF HandleNodeBag, dispVars
<1>4. GoodInfo(NodeInfo(m.dst, <<m.req, m.first>>))
  BY <1>1, NodeInfoTyped DEF TypeInv
<1>5. NetInv'
  <2> DEFINE new == {NodeInfo(m.dst, <<m.req, m.first>>)}
  <2>1. net' \subseteq net \cup new /\ \A x \in new : GoodInfo(x)
    BY <1>4 DEF HandleNodeBag
  <2> HIDE DEF new
  <2> QED BY <2>1, NetKept DEF TypeInv
<1>6. NodesInv'
  BY <1>1, <1>2, <1>3 DEF HandleNodeBag, TypeInv, NodesInv, nodeVars
<1>7. SetsInv'
  BY <1>2, <1>3 DEF HandleNodeBag, TypeInv, SetsInv
<1>8. LinksInv' /\ DelayedInv'
  BY <1>3 DEF TypeInv, LinksInv, DelayedInv
<1> QED BY <1>5, <1>6, <1>7, <1>8 DEF TypeInv

\* the end of a task and other events of the node,
LEMMA NodesTyped ==
  ASSUME TypeInv, NEW e \in Peers, FinishTask(e) \/ Refresh(e)
  PROVE  TypeInv'
<1>1. UNCHANGED <<info, waiting, notified, inChange, delayed, hot, timer, pending, lost, crashed>>
  BY DEF FinishTask, Refresh, dispVars
<1>2. NetInv'
  <2> DEFINE new == {NodeInfo(e, NoAddr), NodeInfo(e, running[e])}
  <2>1. net' \subseteq net \cup new
    BY DEF FinishTask, Refresh
  <2>2. GoodInfo(NodeInfo(e, NoAddr)) /\ GoodInfo(NodeInfo(e, running[e]))
    BY NodeInfoTyped DEF TypeInv
  <2>3. \A x \in new : GoodInfo(x)
    BY <2>2
  <2> HIDE DEF new
  <2> QED BY <2>1, <2>3, NetKept DEF TypeInv
<1>3. NodesInv'
  <2>1. running' \in [Peers -> Tasks \cup {NoAddr}] /\ seqNum' \in [Peers -> Nat]
    BY DEF FinishTask, Refresh, TypeInv, NodesInv
  <2>2. left' \in [refresh : [Peers -> Nat], faults : Nat]
    <3>1. CASE FinishTask(e)
      BY <3>1 DEF FinishTask, TypeInv, NodesInv
    <3>2. CASE Refresh(e)
      <4>1. left \in [refresh : [Peers -> Nat], faults : Nat] /\ left.refresh \in [Peers -> Nat]
            /\ left.refresh[e] > 0 /\ left' = [left EXCEPT !.refresh[e] = @ - 1]
        BY <3>2 DEF Refresh, TypeInv, NodesInv
      <4>2. left' = [left EXCEPT !.refresh = [left.refresh EXCEPT ![e] = left.refresh[e] - 1]]
        BY <4>1
      <4>3. [left.refresh EXCEPT ![e] = left.refresh[e] - 1] \in [Peers -> Nat]
        BY <4>1
      <4> QED BY <4>1, <4>2, <4>3
    <3> QED BY <3>1, <3>2
  <2> QED BY <2>1, <2>2 DEF NodesInv
<1>4. SetsInv'
  BY <1>1 DEF FinishTask, Refresh, TypeInv, SetsInv, NodesInv
<1>5. LinksInv' /\ DelayedInv'
  BY <1>1 DEF TypeInv, LinksInv, DelayedInv
<1> QED BY <1>2, <1>3, <1>4, <1>5 DEF TypeInv

\* the submission of a request,
LEMMA SubmitTyped ==
  ASSUME TypeInv, NEW r \in Requests, Submit(r)
  PROVE  TypeInv'
<1>1. /\ pending' = pending \ {r}
      /\ net' = net \cup {BagMsg(Client[r], LeafFather(Client[r]), r, 1, NumTasks[r], FALSE, TRUE)}
      /\ UNCHANGED <<info, waiting, notified, inChange, delayed, hot, timer, running, seqNum,
                     done, lost, crashed, left>>
  BY DEF Submit, dispVars, nodeVars
<1>2. Client[r] \in Peers /\ NumTasks[r] \in Nat \ {0} /\ LeafFather(Client[r]) \in Branches
      /\ LeafFather(Client[r]) \in Peers
  BY RequestAssumption, TreeAssumption, Fathers DEF RequestAssumption, TreeAssumption
<1>3. GoodBag(BagMsg(Client[r], LeafFather(Client[r]), r, 1, NumTasks[r], FALSE, TRUE))
  BY <1>2 DEF BagMsg, GoodBag, Bags
<1>4. NetInv'
  <2> DEFINE new == {BagMsg(Client[r], LeafFather(Client[r]), r, 1, NumTasks[r], FALSE, TRUE)}
  <2>1. net' \subseteq net \cup new /\ \A x \in new : GoodBag(x)
    BY <1>1, <1>3
  <2> HIDE DEF new
  <2> QED BY <2>1, NetKept DEF TypeInv
<1> QED BY <1>1, <1>4 DEF TypeInv, LinksInv, DelayedInv, NodesInv, SetsInv

\* and the faults.
LEMMA FaultsTyped ==
  ASSUME TypeInv
  PROVE  /\ \A m \in net : Lose(m) => TypeInv'
         /\ \A b \in Branches : StartChanges(b) \/ Cool(b) => TypeInv'
         /\ \A p \in Peers : Fail(p) => TypeInv'
<1>0. ASSUME left.faults > 0, left' = [left EXCEPT !.faults = @ - 1]
      PROVE  left' \in [refresh : [Peers -> Nat], faults : Nat]
  BY <1>0 DEF TypeInv, NodesInv
<1>1. ASSUME NEW m \in net, Lose(m) PROVE TypeInv'
  <2>1. /\ left' \in [refresh : [Peers -> Nat], faults : Nat] /\ net' \subseteq net
        /\ UNCHANGED <<info, waiting, notified, inChange, delayed, hot, timer, running, seqNum,
                       pending, done, crashed>>
    BY <1>0, <1>1 DEF Lose, dispVars, nodeVars
  <2>2. lost' \subseteq Tasks
    <3>1. CASE m.type = "bag"
      <4>1. m.req \in Requests /\ m.first \in Nat /\ m.last \in Nat /\ 1 <= m.first
            /\ m.last <= NumTasks[m.req]
        BY <3>1, TypeOfMessages DEF TypeInv, GoodBag, Bags
      <4> QED BY <1>1, <3>1, <4>1, TasksOfBag DEF Lose, TypeInv, SetsInv
    <3>2. CASE m.type # "bag"
      BY <1>1, <3>2 DEF Lose, TypeInv, SetsInv
    <3> QED BY <3>1, <3>2
  <2> QED BY <2>1, <2>2 DEF TypeInv, LinksInv, DelayedInv, NodesInv, SetsInv, NetInv
<1>2. ASSUME NEW b \in Branches, StartChanges(b) PROVE TypeInv'
  <2>1. /\ left' \in [refresh : [Peers -> Nat], faults : Nat]
        /\ inChange' = inChange \cup {b}
        /\ UNCHANGED <<info, waiting, notified, delayed, hot, timer, running, seqNum,
                       net, pending, done, lost, crashed>>
    BY <1>0, <1>2 DEF StartChanges, nodeVars
  <2> QED BY <2>1 DEF TypeInv, LinksInv, DelayedInv, NodesInv, SetsInv, NetInv
<1>3. ASSUME NEW b \in Branches, Cool(b) PROVE TypeInv'
  BY <1>3 DEF Cool, TypeInv, LinksInv, DelayedInv, NodesInv, SetsInv, NetInv, nodeVars
<1>4. ASSUME NEW p \in Peers, Fail(p) PROVE TypeInv'
  <2>1. /\ left' \in [refresh : [Peers -> Nat], faults : Nat]
        /\ running' = [running EXCEPT ![p] = NoAddr]
        /\ lost' = (IF running[p] = NoAddr THEN lost ELSE lost \cup {running[p]})
        /\ seqNum' \in {seqNum, [seqNum EXCEPT ![p] = 1]}
        /\ inChange' = inChange \ {p} /\ hot' = hot \ {p} /\ timer' = timer \ {p}
        /\ UNCHANGED <<pending, done, crashed>>
    BY <1>0, <1>4 DEF Fail
  <2>2. NodesInv' /\ SetsInv' /\ NetInv'
    <3>1. lost' \subseteq Tasks
      BY <2>1 DEF TypeInv, NodesInv, SetsInv
    <3>2. seqNum' \in [Peers -> Nat]
      BY <2>1 DEF TypeInv, NodesInv
    <3>3. NetInv'
      <4> DEFINE new == {InfoMsg(p, LeafFather(p), 1, 1)}
      <4>1. net' \subseteq net \cup new
        BY <1>4 DEF Fail
      <4>2. \A x \in new : GoodInfo(x)
        BY NodeInfoIsGood
      <4> HIDE DEF new
      <4> QED BY <4>1, <4>2, NetKept DEF TypeInv
    <3> QED BY <2>1, <3>1, <3>2, <3>3 DEF TypeInv, NodesInv, SetsInv
  <2>3. CASE p \notin Branches
    BY <1>4, <2>2, <2>3 DEF Fail, TypeInv, LinksInv, DelayedInv
  <2>4. CASE p \in Branches
    <3>1. /\ info' = [info EXCEPT ![p] = NoLinks] /\ waiting' = [waiting EXCEPT ![p] = NoAddr]
          /\ notified' = [notified EXCEPT ![p] = NoAddr] /\ delayed' = [delayed EXCEPT ![p] = <<>>]
      BY <1>4, <2>4 DEF Fail
    <3>2. GoodLinks(p, NoLinks)
      <4>1. NoLinks \in [Sides -> Links] /\ \A c \in Sides : Known(NoLinks[c]) = 0
        BY DEF NoLinks, Links, Known
      <4> QED BY <2>4, <4>1, NodesAdd DEF GoodLinks
    <3>3. GoodWaiting(p, NoAddr)
      BY DEF GoodWaiting
    <3>4. /\ info' \in [Branches -> [Sides -> Links]]
          /\ \A x \in Branches : GoodLinks(x, info'[x])
      BY <2>4, <3>1, <3>2, LinksKept DEF TypeInv
    <3>5. LinksInv'
      BY <3>1, <3>3, <3>4 DEF TypeInv, LinksInv
    <3>6. \A x \in Branches : delayed'[x] = IF x = p THEN <<>> ELSE delayed[x]
      BY <3>1 DEF TypeInv, DelayedInv
    <3>7. delayed' \in [Branches -> Seq(Infos)]
      <4>1. <<>> \in Seq(Infos) /\ delayed \in [Branches -> Seq(Infos)]
        BY DEF TypeInv, DelayedInv
      <4> QED BY <3>1, <4>1
    <3>8. DelayedInv'
      BY <3>6, <3>7 DEF TypeInv, DelayedInv
    <3> QED BY <2>2, <3>5, <3>8 DEF TypeInv
  <2> QED BY <2>3, <2>4
<1> QED BY <1>1, <1>2, <1>3, <1>4

\* So every step keeps the types.
LEMMA TypeNext == TypeInv /\ [Next]_vars => TypeInv'
<1> SUFFICES ASSUME TypeInv, [Next]_vars PROVE TypeInv'
  OBVIOUS
<1>1. CASE UNCHANGED vars
  BY <1>1 DEF vars, TypeInv, LinksInv, DelayedInv, NodesInv, SetsInv, NetInv
<1>2. ASSUME NEW m \in net, Receive(m) PROVE TypeInv'
  BY <1>2, HandleInfoTyped, HandleBagTyped, HandleNodeBagTyped DEF Receive
<1>3. ASSUME NEW b \in Branches, HandleUpdateTimer(b) PROVE TypeInv'
  BY <1>3, HandleUpdateTimerTyped
<1>4. ASSUME NEW b \in Branches, CommitChanges(b, TRUE) \/ CommitChanges(b, FALSE) PROVE TypeInv'
  BY <1>4, CommitChangesTyped
<1>5. ASSUME NEW e \in Peers, FinishTask(e) \/ Refresh(e) PROVE TypeInv'
  BY <1>5, NodesTyped
<1>6. ASSUME NEW r \in Requests, Submit(r) PROVE TypeInv'
  BY <1>6, SubmitTyped
<1> QED BY <1>1, <1>2, <1>3, <1>4, <1>5, <1>6, FaultsTyped DEF Next

-----------------------------------------------------------------------------
(* Every task is in one place.  The places of a task are sets, of which one *)
(* has one element and the others none.                                    *)

Has(m, t) == t \in TasksOf(m.req, m.first, m.last)
Carriers(t) == {m \in BagMsgs : Has(m, t)}
Runners(t) == {e \in Peers : running[e] = t}

OnlyOne(t) ==
  \/ /\ t[1] \in pending /\ Carriers(t) = {} /\ Runners(t) = {} /\ t \notin done /\ t \notin lost
  \/ /\ t[1] \notin pending /\ Runners(t) = {} /\ t \notin done /\ t \notin lost
     /\ \E m \in BagMsgs : Carriers(t) = {m}
  \/ /\ t[1] \notin pending /\ Carriers(t) = {} /\ t \notin done /\ t \notin lost
     /\ \E e \in Peers : Runners(t) = {e}
  \/ /\ t[1] \notin pending /\ Carriers(t) = {} /\ Runners(t) = {} /\ t \in done /\ t \notin lost
  \/ /\ t[1] \notin pending /\ Carriers(t) = {} /\ Runners(t) = {} /\ t \notin done /\ t \in lost

OnceInv == \A t \in Tasks : OnlyOne(t)

\* A set of the elements that equal x has one or none.
LEMMA CountEqual ==
  ASSUME NEW S, NEW x
  PROVE  Cardinality({y \in S : y = x}) = IF x \in S THEN 1 ELSE 0
<1>1. CASE x \in S
  <2>1. {y \in S : y = x} = {x}
    BY <1>1
  <2> QED BY <1>1, <2>1, FS_Singleton
<1>2. CASE x \notin S
  <2>1. {y \in S : y = x} = {}
    BY <1>2
  <2> QED BY <1>2, <2>1, FS_EmptySet
<1> QED BY <1>1, <1>2

\* The invariant is the property that the runs check.
LEMMA OnceIsCounted == OnceInv => TasksAreInOnePlace
<1> SUFFICES ASSUME OnceInv, NEW t \in Tasks
             PROVE  Cardinality({r \in pending : r = t[1]}) + Cardinality(Carriers(t))
                      + Cardinality(Runners(t)) + Cardinality({x \in done : x = t})
                      + Cardinality({x \in lost : x = t}) = 1
  BY DEF TasksAreInOnePlace, Carriers, Runners, Has
<1>1. OnlyOne(t)
  BY DEF OnceInv
<1>2. /\ Cardinality({r \in pending : r = t[1]}) = IF t[1] \in pending THEN 1 ELSE 0
      /\ Cardinality({x \in done : x = t}) = IF t \in done THEN 1 ELSE 0
      /\ Cardinality({x \in lost : x = t}) = IF t \in lost THEN 1 ELSE 0
  BY CountEqual
<1>3. Carriers(t) = {} => Cardinality(Carriers(t)) = 0
  BY FS_EmptySet
<1>4. Runners(t) = {} => Cardinality(Runners(t)) = 0
  BY FS_EmptySet
<1>5. (\E m \in BagMsgs : Carriers(t) = {m}) => Cardinality(Carriers(t)) = 1
  BY FS_Singleton
<1>6. (\E e \in Peers : Runners(t) = {e}) => Cardinality(Runners(t)) = 1
  BY FS_Singleton
<1> QED BY <1>1, <1>2, <1>3, <1>4, <1>5, <1>6 DEF OnlyOne

\* At the start every task waits in its request.
LEMMA OnceInit == Init => OnceInv
<1> SUFFICES ASSUME Init, NEW t \in Tasks PROVE OnlyOne(t)
  BY DEF OnceInv
<1>1. t[1] \in Requests /\ t # NoAddr
  BY TasksDef, RequestAssumption DEF RequestAssumption
<1>2. Carriers(t) = {} /\ Runners(t) = {}
  BY <1>1 DEF Init, Carriers, Runners, BagMsgs
<1> QED BY <1>1, <1>2 DEF Init, OnlyOne

\* A task stays where it is.
LEMMA OnlyOneKept ==
  ASSUME NEW t, OnlyOne(t), Carriers(t)' = Carriers(t), Runners(t)' = Runners(t),
         t[1] \in pending' <=> t[1] \in pending, t \in done' <=> t \in done,
         t \in lost' <=> t \in lost
  PROVE  OnlyOne(t)'
<1>1. (\E m \in BagMsgs : Carriers(t) = {m}) => \E m \in BagMsgs' : Carriers(t)' = {m}
  BY DEF Carriers
<1> QED BY <1>1 DEF OnlyOne

\* Information comes and goes, tasks stay where they are.
LEMMA OnceIfInfo ==
  ASSUME OnceInv, BagMsgs' = BagMsgs, UNCHANGED <<running, pending, done, lost>>
  PROVE  OnceInv'
<1> SUFFICES ASSUME NEW t \in Tasks PROVE OnlyOne(t)'
  BY DEF OnceInv
<1>1. Carriers(t)' = Carriers(t) /\ Runners(t)' = Runners(t)
  BY DEF Carriers, Runners
<1> QED BY <1>1, OnlyOneKept DEF OnceInv

\* The messages that notify sends are no bags.
LEMMA NotifiedInfo ==
  ASSUME NEW b, NEW w, NEW last, NEW blocked
  PROVE  \A x \in Notified(b, w, last, blocked).msgs : x.type = "info"
<1> DEFINE out == Notified(b, w, last, blocked)
<1>1. out.msgs = {} \/ out.msgs = {InfoMsg(b, Father(b), w, NextSeq(last))}
  BY DEF Notified
<1> HIDE DEF out
<1> QED BY <1>1 DEF InfoMsg, out

\* The actions that move no task.
LEMMA OnceDispatchers ==
  ASSUME OnceInv
  PROVE  /\ \A m \in net : HandleInfo(m) => OnceInv'
         /\ \A b \in Branches :
              Cool(b) \/ HandleUpdateTimer(b) \/ StartChanges(b)
                \/ CommitChanges(b, TRUE) \/ CommitChanges(b, FALSE) => OnceInv'
         /\ \A e \in Peers : Refresh(e) => OnceInv'
<1>1. ASSUME NEW m \in net, HandleInfo(m) PROVE OnceInv'
  <2> DEFINE links == Updated(m.dst, info[m.dst], m)
             w == IF links # info[m.dst] THEN Joined(links) ELSE waiting[m.dst]
             out == Notified(m.dst, w, notified[m.dst], MustWait(m.dst))
  <2>1. m.type = "info" /\ (net' = net \ {m} \/ net' = (net \ {m}) \cup out.msgs)
        /\ UNCHANGED <<running, pending, done, lost>>
    BY <1>1 DEF HandleInfo, nodeVars
  <2>2. \A x \in out.msgs : x.type = "info"
    BY NotifiedInfo
  <2> HIDE DEF out
  <2>3. BagMsgs' = BagMsgs
    BY <2>1, <2>2 DEF BagMsgs
  <2> QED BY <2>1, <2>3, OnceIfInfo
<1>2. ASSUME NEW b \in Branches, HandleUpdateTimer(b) PROVE OnceInv'
  <2> DEFINE out == Notified(b, waiting[b], notified[b], b \in inChange)
  <2>1. net' = net \cup out.msgs /\ UNCHANGED <<running, pending, done, lost>>
    BY <1>2 DEF HandleUpdateTimer, nodeVars
  <2>2. \A x \in out.msgs : x.type = "info"
    BY NotifiedInfo
  <2> HIDE DEF out
  <2>3. BagMsgs' = BagMsgs
    BY <2>1, <2>2 DEF BagMsgs
  <2> QED BY <2>1, <2>3, OnceIfInfo
<1>3. ASSUME NEW b \in Branches, NEW fatherChanged, CommitChanges(b, fatherChanged) PROVE OnceInv'
  <2> DEFINE links == AfterDelayed(b, NoLinks, delayed[b])
             out == Notified(b, Joined(links),
                      IF fatherChanged THEN NoAddr ELSE notified[b], MustWait(b))
  <2>1. net' = net \cup out.msgs /\ UNCHANGED <<running, pending, done, lost>>
    BY <1>3 DEF CommitChanges, nodeVars
  <2>2. \A x \in out.msgs : x.type = "info"
    BY NotifiedInfo
  <2> HIDE DEF out
  <2>3. BagMsgs' = BagMsgs
    BY <2>1, <2>2 DEF BagMsgs
  <2> QED BY <2>1, <2>3, OnceIfInfo
<1>4. ASSUME NEW b \in Branches, Cool(b) \/ StartChanges(b) PROVE OnceInv'
  <2>1. net' = net /\ UNCHANGED <<running, pending, done, lost>>
    BY <1>4 DEF Cool, StartChanges, nodeVars
  <2> QED BY <2>1, OnceIfInfo DEF BagMsgs
<1>5. ASSUME NEW e \in Peers, Refresh(e) PROVE OnceInv'
  <2>1. net' = net \cup {NodeInfo(e, running[e])} /\ UNCHANGED <<running, pending, done, lost>>
    BY <1>5 DEF Refresh
  <2>2. NodeInfo(e, running[e]).type = "info"
    BY DEF NodeInfo, InfoMsg
  <2>3. BagMsgs' = BagMsgs
    BY <2>1, <2>2 DEF BagMsgs
  <2> QED BY <2>1, <2>3, OnceIfInfo
<1> QED BY <1>1, <1>2, <1>3, <1>4, <1>5

\* The tasks of a divided bag are in one of the bags that are sent, or are left.
LEMMA SentIsPartition ==
  ASSUME NEW m, GoodBag(m), m.dst \in Branches, NEW num \in [Sides -> Nat],
         num[0] \in Nat, num[1] \in Nat, num[0] + num[1] <= m.last - m.first + 1,
         NEW t
  PROVE  /\ \A x \in ToChildren(m, num) : Has(x, t) => Has(m, t)
         /\ t \in TasksOf(m.req, FirstOf(m, num, 2), m.last) => Has(m, t)
         /\ Has(m, t) /\ t \notin TasksOf(m.req, FirstOf(m, num, 2), m.last) =>
              \E x \in ToChildren(m, num) :
                Has(x, t) /\ \A y \in ToChildren(m, num) : Has(y, t) => y = x
         /\ t \in TasksOf(m.req, FirstOf(m, num, 2), m.last) =>
              \A y \in ToChildren(m, num) : ~Has(y, t)
<1> DEFINE X(c) == BagMsg(m.dst, Child[m.dst][c], m.req, FirstOf(m, num, c),
                          FirstOf(m, num, c) + num[c] - 1, Leaf[m.dst][c], FALSE)
           i == t[2]
           In(c) == t = <<m.req, i>> /\ i \in FirstOf(m, num, c) .. FirstOf(m, num, c) + num[c] - 1
<1>1. ToChildren(m, num) = {X(c) : c \in {d \in Sides : num[d] > 0}}
  BY DEF ToChildren
<1>2. ASSUME NEW c \in Sides PROVE Has(X(c), t) <=> In(c)
  <2>1. X(c).req = m.req /\ X(c).first = FirstOf(m, num, c)
        /\ X(c).last = FirstOf(m, num, c) + num[c] - 1
    BY DEF BagMsg
  <2> QED BY <2>1, TasksOfDef DEF Has
<1>3. /\ m.first \in Nat /\ m.last \in Nat
      /\ FirstOf(m, num, 0) = m.first /\ FirstOf(m, num, 1) = m.first + num[0]
      /\ FirstOf(m, num, 2) = m.first + num[0] + num[1]
  BY SentIsGood DEF GoodBag, Bags
<1>4. /\ Has(m, t) <=> t = <<m.req, i>> /\ i \in m.first .. m.last
      /\ t \in TasksOf(m.req, FirstOf(m, num, 2), m.last)
           <=> t = <<m.req, i>> /\ i \in FirstOf(m, num, 2) .. m.last
  BY TasksOfDef DEF Has
<1>5. /\ In(0) <=> t = <<m.req, i>> /\ i \in m.first .. m.first + num[0] - 1
      /\ In(1) <=> t = <<m.req, i>> /\ i \in m.first + num[0] .. m.first + num[0] + num[1] - 1
  BY <1>3
<1>6. /\ In(0) => num[0] > 0
      /\ In(1) => num[1] > 0
      /\ ~ (In(0) /\ In(1))
      /\ In(0) \/ In(1) => Has(m, t) /\ t \notin TasksOf(m.req, FirstOf(m, num, 2), m.last)
      /\ Has(m, t) /\ t \notin TasksOf(m.req, FirstOf(m, num, 2), m.last) => In(0) \/ In(1)
      /\ t \in TasksOf(m.req, FirstOf(m, num, 2), m.last) => Has(m, t)
  BY <1>3, <1>4, <1>5
<1> HIDE DEF X, In
<1>7. \A x \in ToChildren(m, num) : Has(x, t) => (x = X(0) /\ In(0)) \/ (x = X(1) /\ In(1))
  BY <1>1, <1>2 DEF Sides
<1>8. /\ In(0) => X(0) \in ToChildren(m, num) /\ Has(X(0), t)
      /\ In(1) => X(1) \in ToChildren(m, num) /\ Has(X(1), t)
  BY <1>1, <1>2, <1>6 DEF Sides
<1> QED BY <1>6, <1>7, <1>8

\* A task of a bag on its way is nowhere else.
LEMMA OnlyCarrier ==
  ASSUME NEW t, OnlyOne(t), NEW m \in BagMsgs, Has(m, t)
  PROVE  /\ Carriers(t) = {m} /\ t[1] \notin pending /\ Runners(t) = {}
         /\ t \notin done /\ t \notin lost
<1>1. m \in Carriers(t)
  BY DEF Carriers
<1> QED BY <1>1 DEF OnlyOne

\* The bag of a task is replaced by another one or its task is dropped.
LEMMA CarrierReplaced ==
  ASSUME NEW t, OnlyOne(t), NEW m \in BagMsgs, Has(m, t),
         NEW new, BagMsgs' = (BagMsgs \ {m}) \cup new,
         UNCHANGED <<running, pending, done>>,
         \/ t \notin lost' /\ \E x \in new : Has(x, t) /\ \A y \in new : Has(y, t) => y = x
         \/ t \in lost' /\ \A y \in new : ~Has(y, t)
  PROVE  OnlyOne(t)'
<1>1. /\ Carriers(t) = {m} /\ t[1] \notin pending /\ Runners(t) = {}
      /\ t \notin done /\ t \notin lost
  BY OnlyCarrier
<1>2. Carriers(t)' = {x \in new : Has(x, t)}
  <2>1. \A x \in BagMsgs \ {m} : ~Has(x, t)
    BY <1>1 DEF Carriers
  <2>2. Carriers(t)' = {x \in BagMsgs' : Has(x, t)}
    BY DEF Carriers, Has
  <2> QED BY <2>1, <2>2
<1>3. Runners(t)' = {}
  BY <1>1 DEF Runners
<1>4. CASE t \notin lost' /\ \E x \in new : Has(x, t) /\ \A y \in new : Has(y, t) => y = x
  <2>1. \E x \in BagMsgs' : Carriers(t)' = {x}
    BY <1>2, <1>4
  <2> QED BY <1>1, <1>3, <1>4, <2>1 DEF OnlyOne
<1>5. CASE t \in lost' /\ \A y \in new : ~Has(y, t)
  <2>1. Carriers(t)' = {}
    BY <1>2, <1>5
  <2> QED BY <1>1, <1>3, <1>5, <2>1 DEF OnlyOne
<1> QED BY <1>4, <1>5

\* A task that is in none of the bags concerned stays where it is.
LEMMA OthersKept ==
  ASSUME NEW t, OnlyOne(t), NEW m, ~Has(m, t),
         NEW new, BagMsgs' = (BagMsgs \ {m}) \cup new, \A x \in new : ~Has(x, t),
         Runners(t)' = Runners(t), UNCHANGED <<pending, done>>, t \in lost' <=> t \in lost
  PROVE  OnlyOne(t)'
<1>1. Carriers(t)' = Carriers(t)
  BY DEF Carriers, Has
<1> QED BY <1>1, OnlyOneKept

\* A bag is divided among children and father.
LEMMA OnceBag ==
  ASSUME TypeInv, OnceInv, NEW m \in net, NEW nearest \in Sides, HandleBag(m, nearest)
  PROVE  OnceInv'
<1> DEFINE b == m.dst
           num == Division(m, nearest)
           links == Taken(info[b], num)
           w == IF links # info[b] THEN Joined(links) ELSE waiting[b]
           out == Notified(b, w, notified[b], MustWait(b) \/ b \in inChange)
           next == FirstOf(m, num, 2)
           rest == TasksOf(m.req, next, m.last)
           nullInfo == out.waiting = NoAddr /\ out.notified = NoAddr
           up == BagMsg(b, Father(b), m.req, next, m.last, FALSE, FALSE)
           goes == rest # {} /\ GoesUp(m) /\ ~nullInfo
           sent == IF goes THEN {up} ELSE {}
           new == ToChildren(m, num) \cup sent
<1>1. /\ m.type = "bag" /\ b \in Branches
      /\ net' = (net \ {m}) \cup out.msgs \cup ToChildren(m, num) \cup sent
      /\ lost' = (IF GoesUp(m) /\ ~nullInfo THEN lost ELSE lost \cup rest)
      /\ UNCHANGED <<running, pending, done>>
  BY DEF HandleBag, nodeVars
<1>2. GoodBag(m) /\ info[b] \in [Sides -> Links] /\ m \in BagMsgs
  BY <1>1, TypeOfMessages DEF TypeInv, LinksInv, BagMsgs
<1>3. /\ num \in [Sides -> Nat] /\ num[0] \in Nat /\ num[1] \in Nat
      /\ num[0] + num[1] <= m.last - m.first + 1
  BY <1>1, <1>2, DivisionIsGood
<1> HIDE DEF num
<1>4. \A x \in out.msgs : x.type = "info"
  BY NotifiedInfo
<1> HIDE DEF out
<1>5. \A x \in ToChildren(m, num) : x.type = "bag"
  <2>1. \A x \in ToChildren(m, num) : GoodBag(x)
    BY <1>1, <1>2, <1>3, SentIsGood
  <2> QED BY <2>1 DEF GoodBag, Bags
<1>6. up.type = "bag" /\ \A t : Has(up, t) <=> t \in rest
  BY DEF BagMsg, Has
<1>7. BagMsgs' = (BagMsgs \ {m}) \cup new
  <2> HIDE DEF up, nullInfo, goes
  <2> QED BY <1>1, <1>4, <1>5, <1>6 DEF BagMsgs
<1>8. /\ goes => sent = {up} /\ lost' = lost
      /\ ~goes => sent = {} /\ lost' = lost \cup rest
  BY <1>1
<1> SUFFICES ASSUME NEW t \in Tasks PROVE OnlyOne(t)'
  BY DEF OnceInv
<1>9. OnlyOne(t) /\ Runners(t)' = Runners(t)
  BY <1>1 DEF OnceInv, Runners
<1>10. /\ \A x \in ToChildren(m, num) : Has(x, t) => Has(m, t)
       /\ t \in rest => Has(m, t)
       /\ Has(m, t) /\ t \notin rest =>
            \E x \in ToChildren(m, num) :
              Has(x, t) /\ \A y \in ToChildren(m, num) : Has(y, t) => y = x
       /\ t \in rest => \A y \in ToChildren(m, num) : ~Has(y, t)
  BY <1>1, <1>2, <1>3, SentIsPartition
<1> HIDE DEF up, rest, nullInfo, goes, sent, next
<1>11. \A x \in new : Has(x, t) => x \in ToChildren(m, num) \/ (goes /\ x = up /\ t \in rest)
  BY <1>6, <1>8
<1>12. CASE ~Has(m, t)
  <2>1. \A x \in new : ~Has(x, t)
    BY <1>10, <1>11, <1>12
  <2>2. t \in lost' <=> t \in lost
    BY <1>8, <1>10, <1>12
  <2> HIDE DEF new
  <2> QED BY <1>1, <1>7, <1>9, <1>12, <2>1, <2>2, OthersKept
<1>13. CASE Has(m, t)
  <2>0. t \notin lost
    BY <1>2, <1>9, <1>13, OnlyCarrier
  <2>1. \/ t \notin lost' /\ \E x \in new : Has(x, t) /\ \A y \in new : Has(y, t) => y = x
        \/ t \in lost' /\ \A y \in new : ~Has(y, t)
    <3>1. CASE t \notin rest
      BY <1>8, <1>10, <1>11, <1>13, <2>0, <3>1
    <3>2. CASE t \in rest /\ goes
      <4>1. up \in new /\ Has(up, t) /\ \A y \in new : Has(y, t) => y = up
        BY <1>6, <1>8, <1>10, <1>11, <3>2
      <4> QED BY <1>8, <2>0, <3>2, <4>1
    <3>3. CASE t \in rest /\ ~goes
      BY <1>8, <1>10, <1>11, <3>3
    <3> QED BY <3>1, <3>2, <3>3
  <2> HIDE DEF new
  <2> QED BY <1>1, <1>2, <1>7, <1>9, <1>13, <2>1, CarrierReplaced
<1> QED BY <1>12, <1>13

\* A node takes the first task and drops the others.
LEMMA OnceNodeBag ==
  ASSUME TypeInv, OnceInv, NEW m \in net, HandleNodeBag(m)
  PROVE  OnceInv'
<1> DEFINE e == m.dst
           first == <<m.req, m.first>>
           all == TasksOf(m.req, m.first, m.last)
<1>1. GoodBag(m) /\ m \in BagMsgs /\ e \in Peers
  BY TypeOfMessages DEF TypeInv, HandleNodeBag, BagMsgs, GoodBag, Bags
<1>2. UNCHANGED <<pending, done>> /\ first # NoAddr /\ first \in Tasks /\ Has(m, first)
  <2>1. m.req \in Requests /\ m.first \in Nat /\ m.last \in Nat /\ 1 <= m.first
        /\ m.last <= NumTasks[m.req] /\ m.first <= m.last /\ NumTasks[m.req] \in Nat
    BY <1>1, RequestAssumption DEF GoodBag, Bags, RequestAssumption
  <2>2. first \in Tasks /\ first # NoAddr
    BY <2>1, TasksDef, RequestAssumption DEF RequestAssumption
  <2> QED BY <2>1, <2>2 DEF HandleNodeBag, Has, TasksOf
<1> SUFFICES ASSUME NEW t \in Tasks PROVE OnlyOne(t)'
  BY DEF OnceInv
<1>3. OnlyOne(t) /\ (Has(m, t) <=> t \in all) /\ t # NoAddr
  BY RequestAssumption DEF OnceInv, Has, RequestAssumption
<1>4. CASE running[e] # NoAddr
  <2>1. net' = net \ {m} /\ lost' = lost \cup all /\ UNCHANGED running
    BY <1>4 DEF HandleNodeBag, nodeVars
  <2> DEFINE none == {}
  <2>2. BagMsgs' = (BagMsgs \ {m}) \cup none /\ Runners(t)' = Runners(t)
        /\ \A x \in none : ~Has(x, t)
    BY <2>1 DEF BagMsgs, Runners
  <2> HIDE DEF none
  <2>3. CASE Has(m, t)
    BY <1>1, <1>2, <1>3, <2>1, <2>2, <2>3, CarrierReplaced
  <2>4. CASE ~Has(m, t)
    <3>1. t \in lost' <=> t \in lost
      BY <1>3, <2>1, <2>4
    <3> QED BY <1>2, <1>3, <2>2, <2>4, <3>1, OthersKept
  <2> QED BY <2>3, <2>4
<1>5. CASE running[e] = NoAddr
  <2>1. /\ net' = (net \ {m}) \cup {NodeInfo(e, first)} /\ lost' = lost \cup (all \ {first})
        /\ running' = [running EXCEPT ![e] = first]
    BY <1>2, <1>5 DEF HandleNodeBag
  <2>2. NodeInfo(e, first).type = "info"
    BY DEF NodeInfo, InfoMsg
  <2>3. BagMsgs' = BagMsgs \ {m}
    BY <2>1, <2>2 DEF BagMsgs
  <2>4. \A x \in Peers : running'[x] = IF x = e THEN first ELSE running[x]
    BY <2>1 DEF TypeInv, NodesInv
  <2>5. CASE t = first
    <3>1. /\ Carriers(t) = {m} /\ t[1] \notin pending /\ Runners(t) = {}
          /\ t \notin done /\ t \notin lost
      BY <1>1, <1>2, <1>3, <2>5, OnlyCarrier
    <3>2. Carriers(t)' = {}
      BY <2>3, <3>1 DEF Carriers, Has
    <3>3. Runners(t)' = {e}
      BY <1>1, <2>4, <2>5, <3>1 DEF Runners
    <3>4. t[1] \notin pending' /\ t \notin done' /\ t \notin lost'
      BY <1>2, <2>1, <2>5, <3>1
    <3> QED BY <1>1, <3>2, <3>3, <3>4 DEF OnlyOne
  <2>6. CASE t # first
    <3>1. Runners(t)' = Runners(t)
      BY <1>1, <1>3, <1>5, <2>4, <2>6 DEF Runners
    <3>2. CASE Has(m, t)
      <4>1. /\ Carriers(t) = {m} /\ t[1] \notin pending /\ Runners(t) = {}
            /\ t \notin done /\ t \notin lost
        BY <1>1, <1>3, <3>2, OnlyCarrier
      <4>2. Carriers(t)' = {} /\ Runners(t)' = {}
        BY <2>3, <3>1, <4>1 DEF Carriers, Has
      <4>3. t \in lost'
        BY <1>3, <2>1, <2>6, <3>2
      <4> QED BY <1>2, <4>1, <4>2, <4>3 DEF OnlyOne
    <3>3. CASE ~Has(m, t)
      <4>1. t \in lost' <=> t \in lost
        BY <1>3, <2>1, <3>3
      <4> DEFINE none == {}
      <4>2. BagMsgs' = (BagMsgs \ {m}) \cup none /\ \A x \in none : ~Has(x, t)
        BY <2>3
      <4> HIDE DEF none
      <4> QED BY <1>2, <1>3, <3>1, <3>3, <4>1, <4>2, OthersKept
    <3> QED BY <3>2, <3>3
  <2> QED BY <2>5, <2>6
<1> QED BY <1>4, <1>5

\* The task of a node has ended or was lost with it.
LEMMA OnceNodes ==
  ASSUME TypeInv, OnceInv, NEW e \in Peers, FinishTask(e) \/ Fail(e)
  PROVE  OnceInv'
<1>1. /\ net' = net \/ \E m : m.type = "info" /\ net' = net \cup {m}
      /\ pending' = pending /\ running' = [running EXCEPT ![e] = NoAddr]
  <2>1. NodeInfo(e, NoAddr).type = "info" /\ InfoMsg(e, LeafFather(e), 1, 1).type = "info"
    BY DEF NodeInfo, InfoMsg
  <2>2. CASE FinishTask(e)
    BY <2>1, <2>2 DEF FinishTask
  <2>3. CASE Fail(e)
    BY <2>1, <2>3 DEF Fail
  <2> QED BY <2>2, <2>3
<1>2. BagMsgs' = BagMsgs /\ pending' = pending
      /\ \A x \in Peers : running'[x] = IF x = e THEN NoAddr ELSE running[x]
  BY <1>1 DEF BagMsgs, TypeInv, NodesInv
<1>3. /\ running[e] # NoAddr =>
           \/ done' = done \cup {running[e]} /\ lost' = lost
           \/ lost' = lost \cup {running[e]} /\ done' = done
      /\ running[e] = NoAddr => done' = done /\ lost' = lost
  BY DEF FinishTask, Fail
<1> SUFFICES ASSUME NEW t \in Tasks PROVE OnlyOne(t)'
  BY DEF OnceInv
<1>4. OnlyOne(t) /\ t # NoAddr /\ Carriers(t)' = Carriers(t)
  BY <1>2, RequestAssumption DEF OnceInv, RequestAssumption, Carriers
<1>5. CASE running[e] = t
  <2>1. e \in Runners(t)
    BY <1>5 DEF Runners
  <2>2. /\ Carriers(t) = {} /\ t[1] \notin pending /\ Runners(t) = {e}
        /\ t \notin done /\ t \notin lost
    BY <1>4, <2>1 DEF OnlyOne
  <2>3. Runners(t)' = {}
    BY <1>2, <1>4, <2>2 DEF Runners
  <2> QED BY <1>2, <1>3, <1>4, <1>5, <2>2, <2>3 DEF OnlyOne
<1>6. CASE running[e] # t
  <2>1. Runners(t)' = Runners(t)
    BY <1>2, <1>4, <1>6 DEF Runners
  <2>2. (t \in done' <=> t \in done) /\ (t \in lost' <=> t \in lost)
    BY <1>3, <1>6
  <2> QED BY <1>2, <1>4, <2>1, <2>2, OnlyOneKept
<1> QED BY <1>5, <1>6

\* The tasks of a request go into one bag.
LEMMA OnceSubmit ==
  ASSUME TypeInv, OnceInv, NEW r \in Requests, Submit(r)
  PROVE  OnceInv'
<1> DEFINE m == BagMsg(Client[r], LeafFather(Client[r]), r, 1, NumTasks[r], FALSE, TRUE)
<1>1. /\ r \in pending /\ pending' = pending \ {r} /\ net' = net \cup {m}
      /\ UNCHANGED <<running, done, lost>>
  BY DEF Submit, nodeVars
<1>2. m.type = "bag" /\ m.req = r /\ m.first = 1 /\ m.last = NumTasks[r] /\ NumTasks[r] \in Nat
  BY RequestAssumption DEF BagMsg, RequestAssumption
<1> HIDE DEF m
<1>3. BagMsgs' = BagMsgs \cup {m}
  BY <1>1, <1>2 DEF BagMsgs
<1> SUFFICES ASSUME NEW t \in Tasks PROVE OnlyOne(t)'
  BY DEF OnceInv
<1>4. OnlyOne(t) /\ Runners(t)' = Runners(t) /\ t = <<t[1], t[2]>> /\ t[2] \in Nat
      /\ 1 <= t[2] /\ t[2] <= NumTasks[t[1]]
  BY <1>1, TasksDef DEF OnceInv, Runners
<1>5. Has(m, t) <=> t = <<r, t[2]>> /\ t[2] \in 1 .. NumTasks[r]
  BY <1>2, TasksOfDef DEF Has
<1>6. CASE t[1] = r
  <2>1. Has(m, t)
    BY <1>2, <1>4, <1>5, <1>6
  <2>2. /\ Carriers(t) = {} /\ Runners(t) = {} /\ t \notin done /\ t \notin lost
    BY <1>1, <1>4, <1>6 DEF OnlyOne
  <2>3. Carriers(t)' = {m}
    BY <1>3, <2>1, <2>2 DEF Carriers, Has
  <2> QED BY <1>1, <1>3, <1>4, <1>6, <2>2, <2>3 DEF OnlyOne
<1>7. CASE t[1] # r
  <2>1. ~Has(m, t)
    BY <1>5, <1>7
  <2>2. Carriers(t)' = Carriers(t)
    BY <1>3, <2>1 DEF Carriers, Has
  <2> QED BY <1>1, <1>4, <1>7, <2>2, OnlyOneKept
<1> QED BY <1>6, <1>7

\* The tasks of a lost bag are dropped.
LEMMA OnceLose ==
  ASSUME TypeInv, OnceInv, NEW m \in net, Lose(m)
  PROVE  OnceInv'
<1>1. /\ net' = net \ {m} /\ UNCHANGED <<running, pending, done>>
      /\ lost' = IF m.type = "bag" THEN lost \cup TasksOf(m.req, m.first, m.last) ELSE lost
  BY DEF Lose, nodeVars
<1>2. CASE m.type # "bag"
  <2>1. BagMsgs' = BagMsgs
    BY <1>1, <1>2 DEF BagMsgs
  <2> QED BY <1>1, <1>2, <2>1, OnceIfInfo
<1>3. CASE m.type = "bag"
  <2> DEFINE none == {}
  <2>1. m \in BagMsgs /\ BagMsgs' = (BagMsgs \ {m}) \cup none /\ none = {}
        /\ lost' = lost \cup TasksOf(m.req, m.first, m.last)
    BY <1>1, <1>3 DEF BagMsgs
  <2> HIDE DEF none
  <2> SUFFICES ASSUME NEW t \in Tasks PROVE OnlyOne(t)'
    BY DEF OnceInv
  <2>2. OnlyOne(t) /\ Runners(t)' = Runners(t)
        /\ (Has(m, t) <=> t \in TasksOf(m.req, m.first, m.last))
    BY <1>1 DEF OnceInv, Runners, Has
  <2>3. CASE Has(m, t)
    BY <1>1, <2>1, <2>2, <2>3, CarrierReplaced
  <2>4. CASE ~Has(m, t)
    <3>1. t \in lost' <=> t \in lost
      BY <2>1, <2>2, <2>4
    <3> QED BY <1>1, <2>1, <2>2, <2>4, <3>1, OthersKept
  <2> QED BY <2>3, <2>4
<1> QED BY <1>2, <1>3

\* So every step keeps each task in one place.
LEMMA OnceNext == TypeInv /\ OnceInv /\ [Next]_vars => OnceInv'
<1> SUFFICES ASSUME TypeInv, OnceInv, [Next]_vars PROVE OnceInv'
  OBVIOUS
<1>1. CASE UNCHANGED vars
  <2>1. BagMsgs' = BagMsgs /\ UNCHANGED <<running, pending, done, lost>>
    BY <1>1 DEF vars, BagMsgs
  <2> QED BY <2>1, OnceIfInfo
<1>2. ASSUME NEW m \in net, Receive(m) PROVE OnceInv'
  BY <1>2, OnceDispatchers, OnceBag, OnceNodeBag DEF Receive
<1>3. ASSUME NEW m \in net, Lose(m) PROVE OnceInv'
  BY <1>3, OnceLose
<1>4. ASSUME NEW e \in Peers, FinishTask(e) \/ Refresh(e) \/ Fail(e) PROVE OnceInv'
  BY <1>4, OnceDispatchers, OnceNodes
<1>5. ASSUME NEW r \in Requests, Submit(r) PROVE OnceInv'
  BY <1>5, OnceSubmit
<1> QED BY <1>1, <1>2, <1>3, <1>4, <1>5, OnceDispatchers DEF Next

-----------------------------------------------------------------------------
(* The theorems.                                                           *)

\* The inductive invariant holds always: the types, the bounds of what every
\* link, update and message counts, and the one place of every task.
THEOREM InvAlways == Spec => [](TypeInv /\ OnceInv)
<1>1. Init => TypeInv /\ OnceInv
  BY TypeInit, OnceInit
<1>2. TypeInv /\ OnceInv /\ [Next]_vars => (TypeInv /\ OnceInv)'
  BY TypeNext, OnceNext
<1> QED BY <1>1, <1>2, PTL DEF Spec

\* The variables stay in their types, messages go along the links of the tree
\* and bags are intervals of tasks of a request.
THEOREM TypeCorrect == Spec => []TypeOK
BY InvAlways, TypesFollow, PTL

\* Whatever is lost, fails or changes, tasks are neither duplicated nor
\* forgotten (Dispatcher::sendTasks, Scheduler::handle(TaskBagMsg)), and no
\* link counts more nodes than there are (Dispatcher::Link::update,
\* recomputeFatherInfo).
THEOREM NothingEverInvented == Spec => []NothingIsInvented
<1>1. TypeInv /\ OnceInv => NothingIsInvented
  BY TypesFollow, OnceIsCounted DEF NothingIsInvented
<1> QED BY <1>1, InvAlways, PTL

-----------------------------------------------------------------------------
(* Without faults, and when the nodes tell their state first.  For each    *)
(* link: what the child has told last, the messages on their way, and the  *)
(* truth, which the father knows, or is about to know from a message or    *)
(* when a bag that it has sent comes to the child.                         *)

\* The network starts with no information, and the simulator makes no faults.
NoFaults == ~Built /\ MaxFaults = 0

\* The bandwidth for updates is not limited, and no branch has the address of
\* its father's for a child: IBPDispatcher::handle would take one for the other.
Unhindered == ~Limited /\ \A b \in Branches, c \in Sides : Child[b][c] # Father(b)

CalmInv == left.faults = 0 /\ inChange = {}

\* The last sequence number of a child, and its messages.
LastSeq(b, c) ==
  IF Leaf[b][c] THEN seqNum[Child[b][c]]
  ELSE IF notified[Child[b][c]] = NoAddr THEN 0 ELSE notified[Child[b][c]].seq
Told(b, c) == {m \in InfoMsgs : m.dst = b /\ m.src = Child[b][c]}

\* Sequence numbers are used once, in their order.
Ordered(i, last, told) ==
  /\ i # NoAddr => i.seq <= last
  /\ \A m \in told : m.seq <= last /\ (i # NoAddr => i.seq # m.seq)
  /\ \A m, x \in told : m.seq = x.seq => m = x

SeqInv == \A b \in Branches, c \in Sides : Ordered(info[b][c], LastSeq(b, c), Told(b, c))

\* The idle nodes that a child should count, and whether a bag of b is on its
\* way to it.
Truth(b, c) ==
  IF Leaf[b][c] THEN IF running[Child[b][c]] = NoAddr THEN 1 ELSE 0 ELSE notified[Child[b][c]].n
BagSent(b, c) ==
  \E m \in BagMsgs : m.src = b /\ m.dst = Child[b][c] /\ m.forEN = Leaf[b][c] /\ ~m.fromEN

\* The link has the last information, but for the tasks of bags on their way,
\* or will get it.
Right(i, last, told, truth, sent) ==
  \/ last = 0
  \/ \E m \in told : m.seq = last /\ m.n = truth
  \/ i # NoAddr /\ i.seq = last /\ i.n <= truth /\ (i.n = truth \/ sent)

RightInv ==
  \A b \in Branches, c \in Sides :
    Right(info[b][c], LastSeq(b, c), Told(b, c), Truth(b, c), BagSent(b, c))

\* A branch has told its father all that it knows.
ToldAll(b) ==
  IF notified[b] = NoAddr THEN info[b] = NoLinks /\ waiting[b] = NoAddr
  ELSE /\ info[b] # NoLinks /\ notified[b].n = Joined(info[b])
       /\ waiting[b] \in {NoAddr, Joined(info[b])}
ToldInv ==
  /\ hot = {} /\ timer = {}
  /\ \A b \in Branches : Father(b) # NoAddr => ToldAll(b)

\* Without faults links do not change and nothing fails.
LEMMA CalmStep ==
  ASSUME TypeInv, CalmInv, [Next]_vars
  PROVE  /\ CalmInv'
         /\ \/ UNCHANGED vars
            \/ \E m \in net : Receive(m)
            \/ \E b \in Branches : Cool(b) \/ HandleUpdateTimer(b)
            \/ \E e \in Peers : FinishTask(e) \/ Refresh(e)
            \/ \E r \in Requests : Submit(r)
<1>1. /\ \A b \in Branches : ~StartChanges(b) /\ ~CommitChanges(b, TRUE) /\ ~CommitChanges(b, FALSE)
      /\ \A e \in Peers : ~Fail(e)
      /\ \A m \in net : ~Lose(m)
  BY DEF CalmInv, StartChanges, CommitChanges, Fail, Lose
<1>2. \/ UNCHANGED vars
      \/ \E m \in net : Receive(m)
      \/ \E b \in Branches : Cool(b) \/ HandleUpdateTimer(b)
      \/ \E e \in Peers : FinishTask(e) \/ Refresh(e)
      \/ \E r \in Requests : Submit(r)
  BY <1>1 DEF Next
<1>3. ASSUME NEW e \in Peers, Refresh(e) PROVE left'.faults = left.faults /\ inChange' = inChange
  <2>1. left' = [left EXCEPT !.refresh = [left.refresh EXCEPT ![e] = left.refresh[e] - 1]]
        /\ inChange' = inChange
    BY <1>3 DEF Refresh, dispVars
  <2>2. left \in [refresh : [Peers -> Nat], faults : Nat]
    BY DEF TypeInv, NodesInv
  <2> QED BY <2>1, <2>2
<1>4. ASSUME NEW m \in net, Receive(m) PROVE UNCHANGED <<left, inChange>>
  BY <1>4 DEF Receive, HandleInfo, HandleBag, HandleNodeBag, dispVars
<1>5. ASSUME ~ \E e \in Peers : Refresh(e) PROVE UNCHANGED <<left, inChange>>
  BY <1>2, <1>4, <1>5 DEF vars, Cool, HandleUpdateTimer, FinishTask, Submit, dispVars
<1>6. left'.faults = left.faults /\ inChange' = inChange
  BY <1>3, <1>5
<1> QED BY <1>2, <1>6 DEF CalmInv

\* What a message to a father is.
LEMMA ToldTyped ==
  ASSUME TypeInv, NEW b \in Branches, NEW c \in Sides
  PROVE  /\ \A m \in Told(b, c) : m \in net /\ GoodInfo(m) /\ m.seq \in Nat /\ m.n \in Nat
         /\ LastSeq(b, c) \in Nat /\ info[b][c] \in Links
         /\ info[b][c] # NoAddr => info[b][c].seq \in Nat /\ info[b][c].n \in Nat
<1>1. \A m \in Told(b, c) : m \in net /\ GoodInfo(m) /\ m.seq \in Nat /\ m.n \in Nat
  BY TypeOfMessages DEF Told, InfoMsgs, TypeInv, GoodInfo, Infos
<1>2. LastSeq(b, c) \in Nat
  <2>1. Child[b][c] \in Peers /\ (~Leaf[b][c] => Child[b][c] \in Branches)
    <3>1. Child[b] \in [Sides -> Peers]
      BY TreeAssumption DEF TreeAssumption
    <3> QED BY <3>1, TreeAssumption DEF TreeAssumption
  <2>2. CASE Leaf[b][c]
    BY <2>1, <2>2 DEF LastSeq, TypeInv, NodesInv
  <2>3. CASE ~Leaf[b][c]
    <3>1. notified[Child[b][c]] \in [n : Nat, seq : Nat \ {0}] \cup {NoAddr}
      BY <2>1, <2>3 DEF TypeInv, LinksInv
    <3> QED BY <2>3, <3>1 DEF LastSeq
  <2> QED BY <2>2, <2>3
<1>3. info[b][c] \in Links
  BY DEF TypeInv, LinksInv
<1> QED BY <1>1, <1>2, <1>3 DEF Links

\* The child of a link says nothing, or says the truth with a new number, when
\* the messages gone are no longer there.
Silent(f, c, gone) ==
  /\ LastSeq(f, c)' = LastSeq(f, c) /\ Told(f, c)' = Told(f, c) \ gone
  /\ ~Leaf[f][c] => notified'[Child[f][c]] = notified[Child[f][c]]
Says(f, c, gone) ==
  /\ LastSeq(f, c)' = LastSeq(f, c) + 1
  /\ \E x : /\ Told(f, c)' = (Told(f, c) \ gone) \cup {x}
            /\ x.seq = LastSeq(f, c) + 1 /\ x.n = Truth(f, c)'

\* A branch is not its own father.
LEMMA NotOwnFather ==
  ASSUME NEW b \in Branches, Father(b) # NoAddr
  PROVE  Father(b) # b
<1>1. PICK c \in Sides : ~Leaf[Father(b)][c] /\ Child[Father(b)][c] = b
  BY Fathers DEF IsFather
<1>2. Father(b) \in Branches /\ Father(b) \notin Under(b)
  BY <1>1, Fathers, NotUnderChild
<1> QED BY <1>2, UnderClosed

\* Dispatcher b notifies w; messages go and bags come.
Notifies(b, w, blocked, out, gone, other) ==
  /\ GoodWaiting(b, w) /\ out = Notified(b, w, notified[b], blocked) /\ Notify(b, out)
  /\ net' = (net \ gone) \cup out.msgs \cup other
  /\ \A x \in other : x.type = "bag"
  /\ seqNum' = seqNum

\* Only the link to the branch b hears of what b notifies.
LEMMA DispatcherSays ==
  ASSUME TypeInv, NEW b \in Branches, NEW w, NEW blocked, NEW out, NEW gone, NEW other,
         Notifies(b, w, blocked, out, gone, other),
         NEW f \in Branches, NEW c \in Sides
  PROVE  /\ \/ Silent(f, c, gone)
            \/ ~Leaf[f][c] /\ Child[f][c] = b /\ f # b /\ Says(f, c, gone)
         /\ ~blocked /\ IsNews(b, w, notified[b]) /\ f = Father(b) /\ Child[f][c] = b =>
              Says(f, c, gone)
<1> USE DEF Notifies
<1>1. \A x \in Branches : notified'[x] = IF x = b THEN out.notified ELSE notified[x]
  BY DEF Notify, TypeInv, LinksInv
<1>2. ~Leaf[f][c] => Child[f][c] \in Branches /\ IsFather(f, Child[f][c])
  BY TreeAssumption DEF TreeAssumption, IsFather
<1>3. CASE out.msgs = {} /\ out.notified = notified[b]
  <2>1. Told(f, c)' = Told(f, c) \ gone
    BY <1>3 DEF Told, InfoMsgs
  <2>2. ~Leaf[f][c] => notified'[Child[f][c]] = notified[Child[f][c]]
    BY <1>1, <1>2, <1>3
  <2>3. LastSeq(f, c)' = LastSeq(f, c)
    BY <2>2 DEF LastSeq
  <2>4. ~ (~blocked /\ IsNews(b, w, notified[b]))
    BY <1>3 DEF Notified
  <2> QED BY <2>1, <2>2, <2>3, <2>4 DEF Silent
<1>4. CASE ~blocked /\ IsNews(b, w, notified[b])
  <2> DEFINE x == InfoMsg(b, Father(b), w, NextSeq(notified[b]))
  <2>1. out.msgs = {x} /\ out.notified = [n |-> w, seq |-> NextSeq(notified[b])]
    BY <1>4 DEF Notified
  <2>2. Father(b) \in Branches /\ IsFather(Father(b), b)
    BY <1>4, Fathers DEF IsNews
  <2>3. x.type = "info" /\ x.src = b /\ x.dst = Father(b) /\ x.n = w /\ x.seq = NextSeq(notified[b])
    BY DEF InfoMsg
  <2> HIDE DEF x
  <2>4. CASE f = Father(b) /\ Child[f][c] = b
    <3>1. ~Leaf[f][c]
      <4>1. PICK d \in Sides : ~Leaf[f][d] /\ Child[f][d] = b
        BY <2>2, <2>4 DEF IsFather
      <4>2. Child[f][0] # Child[f][1]
        BY TreeAssumption DEF TreeAssumption
      <4>3. c = d
        BY <2>4, <4>1, <4>2 DEF Sides
      <4> QED BY <4>1, <4>3
    <3>2. notified'[b] = [n |-> w, seq |-> NextSeq(notified[b])]
      BY <1>1, <2>1
    <3>3. notified[b] \in [n : Nat, seq : Nat \ {0}] \cup {NoAddr}
      BY DEF TypeInv, LinksInv
    <3>4. NextSeq(notified[b]) = LastSeq(f, c) + 1 /\ NextSeq(notified[b]) \in Nat
      BY <2>4, <3>1, <3>3 DEF LastSeq, NextSeq
    <3>5. LastSeq(f, c)' = NextSeq(notified[b])
      <4>1. notified'[b] # NoAddr
        <5>1. w \in Nat
          BY <1>4 DEF IsNews, GoodWaiting, Notifies
        <5> QED BY <3>2, <3>4, <5>1, RequestAssumption DEF RequestAssumption
      <4> QED BY <2>4, <3>1, <3>2, <4>1 DEF LastSeq
    <3>6. Truth(f, c)' = w
      BY <2>4, <3>1, <3>2 DEF Truth
    <3>7. Told(f, c)' = (Told(f, c) \ gone) \cup {x}
      BY <2>1, <2>3, <2>4 DEF Told, InfoMsgs
    <3>8. f # b
      BY <1>4, <2>4, NotOwnFather DEF IsNews
    <3> QED BY <1>4, <2>3, <2>4, <3>1, <3>4, <3>5, <3>6, <3>7, <3>8 DEF Says
  <2>5. CASE ~(f = Father(b) /\ Child[f][c] = b)
    <3>1. Told(f, c)' = Told(f, c) \ gone
      BY <2>1, <2>3, <2>5 DEF Told, InfoMsgs
    <3>2. ~Leaf[f][c] => Child[f][c] # b
      BY <1>2, <2>2, <2>5, TreeAssumption DEF TreeAssumption
    <3>3. ~Leaf[f][c] => notified'[Child[f][c]] = notified[Child[f][c]]
      BY <1>1, <1>2, <3>2
    <3>4. LastSeq(f, c)' = LastSeq(f, c)
      BY <3>3 DEF LastSeq
    <3> QED BY <2>5, <3>1, <3>3, <3>4 DEF Silent
  <2> QED BY <2>4, <2>5
<1>5. ~(~blocked /\ IsNews(b, w, notified[b])) => out.msgs = {} /\ out.notified = notified[b]
  BY DEF Notified
<1> QED BY <1>3, <1>4, <1>5

\* Only the link to the node e hears of what e tells.
LEMMA NodeSays ==
  ASSUME TypeInv, NEW e \in Peers, NEW t, running'[e] = t,
         seqNum' = [seqNum EXCEPT ![e] = @ + 1], notified' = notified,
         NEW gone, net' = (net \ gone) \cup {NodeInfo(e, t)},
         NEW f \in Branches, NEW c \in Sides
  PROVE  \/ Silent(f, c, gone) /\ ~(Leaf[f][c] /\ Child[f][c] = e)
         \/ Leaf[f][c] /\ Child[f][c] = e /\ Says(f, c, gone)
<1> DEFINE x == NodeInfo(e, t)
<1>1. /\ x.type = "info" /\ x.src = e /\ x.dst = LeafFather(e)
      /\ x.n = (IF t = NoAddr THEN 1 ELSE 0) /\ x.seq = seqNum[e] + 1
  BY DEF NodeInfo, InfoMsg
<1>2. \A p \in Peers : seqNum'[p] = IF p = e THEN seqNum[e] + 1 ELSE seqNum[p]
  BY DEF TypeInv, NodesInv
<1>3. Child[f][c] \in Peers
  <2>1. Child[f] \in [Sides -> Peers]
    BY TreeAssumption DEF TreeAssumption
  <2> QED BY <2>1
<1>4. LeafFather(e) \in Branches /\ IsLeafFather(LeafFather(e), e)
  BY Fathers
<1> HIDE DEF x
<1>5. net' = (net \ gone) \cup {x}
  BY DEF x
<1>6. CASE Leaf[f][c] /\ Child[f][c] = e
  <2>1. f = LeafFather(e)
    <3>1. IsLeafFather(f, e)
      BY <1>6 DEF IsLeafFather
    <3> QED BY <1>4, <3>1, TreeAssumption DEF TreeAssumption
  <2>2. LastSeq(f, c) = seqNum[e] /\ LastSeq(f, c)' = seqNum[e] + 1
    BY <1>2, <1>6 DEF LastSeq
  <2>3. Truth(f, c)' = x.n
    BY <1>1, <1>6 DEF Truth
  <2>4. Told(f, c)' = (Told(f, c) \ gone) \cup {x}
    BY <1>1, <1>5, <1>6, <2>1 DEF Told, InfoMsgs
  <2> QED BY <1>1, <1>6, <2>2, <2>3, <2>4 DEF Says
<1>7. CASE ~(Leaf[f][c] /\ Child[f][c] = e)
  <2>1. LastSeq(f, c)' = LastSeq(f, c)
    BY <1>2, <1>3, <1>7 DEF LastSeq
  <2>2. ~(f = LeafFather(e) /\ Child[f][c] = e)
    <3> SUFFICES ASSUME f = LeafFather(e), Child[f][c] = e PROVE FALSE
      OBVIOUS
    <3>1. PICK d \in Sides : Leaf[f][d] /\ Child[f][d] = e
      BY <1>4 DEF IsLeafFather
    <3>2. Child[f][0] # Child[f][1]
      BY TreeAssumption DEF TreeAssumption
    <3>3. c = d
      BY <3>1, <3>2 DEF Sides
    <3> QED BY <1>7, <3>1, <3>3
  <2>3. Told(f, c)' = Told(f, c) \ gone
    BY <1>1, <1>5, <2>2 DEF Told, InfoMsgs
  <2> QED BY <1>7, <2>1, <2>3 DEF Silent
<1> QED BY <1>6, <1>7

\* The numbers stay in their order when a child tells something new, and when
\* its information counts less nodes.
LEMMA OrderKept ==
  ASSUME TypeInv, NEW f \in Branches, NEW c \in Sides, NEW gone,
         Ordered(info[f][c], LastSeq(f, c), Told(f, c)),
         Silent(f, c, gone) \/ Says(f, c, gone),
         info'[f][c] # NoAddr => info[f][c] # NoAddr /\ info'[f][c].seq = info[f][c].seq
  PROVE  Ordered(info[f][c], LastSeq(f, c), Told(f, c))'
<1> DEFINE i == info[f][c]
           last == LastSeq(f, c)
           told == Told(f, c)
<1>1. /\ last \in Nat
      /\ i # NoAddr => i.seq \in Nat /\ i.seq <= last
      /\ \A m \in told : m.seq \in Nat /\ m.seq <= last /\ (i # NoAddr => i.seq # m.seq)
      /\ \A m, x \in told : m.seq = x.seq => m = x
  BY ToldTyped DEF Ordered
<1>2. CASE Silent(f, c, gone)
  <2>1. last' = last /\ told' \subseteq told
    BY <1>2 DEF Silent
  <2> HIDE DEF told, last
  <2> QED BY <1>1, <2>1 DEF Ordered, told, last
<1>3. CASE Says(f, c, gone)
  <2>1. PICK x : last' = last + 1 /\ told' = (told \ gone) \cup {x} /\ x.seq = last + 1
    BY <1>3 DEF Says
  <2> HIDE DEF told, last
  <2>2. i' # NoAddr => i'.seq <= last'
    BY <1>1, <2>1
  <2>3. \A m \in told' : m.seq <= last' /\ (i' # NoAddr => i'.seq # m.seq)
    BY <1>1, <2>1
  <2>4. \A m, y \in told' : m.seq = y.seq => m = y
    BY <1>1, <2>1
  <2> QED BY <2>2, <2>3, <2>4 DEF Ordered, told, last
<1> QED BY <1>2, <1>3

\* And when the father gets a message.
LEMMA OrderReceived ==
  ASSUME TypeInv, NEW f \in Branches, NEW c \in Sides, NEW m \in Told(f, c),
         Ordered(info[f][c], LastSeq(f, c), Told(f, c)), Silent(f, c, {m}),
         info'[f][c] = IF IsNewer(info[f][c], m.seq) THEN [n |-> m.n, seq |-> m.seq] ELSE info[f][c]
  PROVE  Ordered(info[f][c], LastSeq(f, c), Told(f, c))'
<1> DEFINE i == info[f][c]
           last == LastSeq(f, c)
           told == Told(f, c)
<1>1. /\ last \in Nat
      /\ i # NoAddr => i.seq \in Nat /\ i.seq <= last
      /\ \A x \in told : x.seq \in Nat /\ x.seq <= last /\ (i # NoAddr => i.seq # x.seq)
      /\ \A x, y \in told : x.seq = y.seq => x = y
  BY ToldTyped DEF Ordered
<1>2. last' = last /\ told' = told \ {m} /\ m \in told
  BY DEF Silent
<1>3. i' = i \/ i'.seq = m.seq
  OBVIOUS
<1> HIDE DEF told, last
<1>4. i' # NoAddr => i'.seq <= last'
  BY <1>1, <1>2, <1>3
<1>5. \A x \in told' : x.seq <= last' /\ (i' # NoAddr => i'.seq # x.seq)
  BY <1>1, <1>2, <1>3
<1>6. \A x, y \in told' : x.seq = y.seq => x = y
  BY <1>1, <1>2
<1> QED BY <1>4, <1>5, <1>6 DEF Ordered, told, last

\* What HandleInfo does without changes of the structure.
LEMMA HandleInfoCalm ==
  ASSUME TypeInv, CalmInv, NEW m \in net, HandleInfo(m)
  PROVE  /\ m.dst \in Branches /\ GoodInfo(m) /\ m.type = "info"
         /\ info' = [info EXCEPT ![m.dst] = Updated(m.dst, info[m.dst], m)]
         /\ \A f \in Branches, c \in Sides :
              \/ /\ info'[f][c] = info[f][c] /\ m \notin Told(f, c)
                 /\ \/ Silent(f, c, {m})
                    \/ ~Leaf[f][c] /\ Child[f][c] = m.dst /\ Says(f, c, {m})
              \/ /\ m \in Told(f, c) /\ Silent(f, c, {m})
                 /\ info'[f][c] = IF IsNewer(info[f][c], m.seq)
                                  THEN [n |-> m.n, seq |-> m.seq] ELSE info[f][c]
<1> DEFINE b == m.dst
           links == Updated(b, info[b], m)
           w == IF links # info[b] THEN Joined(links) ELSE waiting[b]
           out == Notified(b, w, notified[b], MustWait(b))
<1>1. /\ m.type = "info" /\ b \in Branches /\ b \notin inChange
      /\ info' = [info EXCEPT ![b] = links] /\ Notify(b, out)
      /\ net' = (net \ {m}) \cup out.msgs /\ UNCHANGED seqNum
  BY DEF HandleInfo, CalmInv, nodeVars
<1>2. GoodInfo(m) /\ GoodLinks(b, info[b]) /\ GoodWaiting(b, waiting[b])
  BY <1>1, TypeOfMessages DEF TypeInv, LinksInv
<1>3. GoodWaiting(b, w)
  <2>1. GoodLinks(b, links)
    BY <1>1, <1>2, UpdatedIsGood
  <2> HIDE DEF links
  <2> QED BY <1>1, <1>2, <2>1, JoinedIsGood
<1> HIDE DEF w
<1>4. out = Notified(b, w, notified[b], MustWait(b))
  OBVIOUS
<1> HIDE DEF out
<1>5. ASSUME NEW f \in Branches, NEW c \in Sides
      PROVE \/ Silent(f, c, {m})
            \/ ~Leaf[f][c] /\ Child[f][c] = b /\ f # b /\ Says(f, c, {m})
  <2>1. Notifies(b, w, MustWait(b), out, {m}, {})
    BY <1>1, <1>3, <1>4 DEF Notifies
  <2> HIDE DEF b
  <2> QED BY <1>1, <2>1, DispatcherSays
<1>6. ASSUME NEW f \in Branches, NEW c \in Sides
      PROVE  /\ m \in Told(f, c) <=> f = b /\ Child[f][c] = m.src
             /\ info'[f][c] = IF f = b THEN links[c] ELSE info[f][c]
             /\ links[c] = IF Child[b][c] = m.src /\ IsNewer(info[b][c], m.seq)
                           THEN [n |-> m.n, seq |-> m.seq] ELSE info[b][c]
  <2>1. links[c] = IF Child[b][c] = m.src /\ IsNewer(info[b][c], m.seq)
                   THEN [n |-> m.n, seq |-> m.seq] ELSE info[b][c]
    BY DEF Updated
  <2>2. m \in Told(f, c) <=> f = b /\ Child[f][c] = m.src
    BY <1>1 DEF Told, InfoMsgs
  <2>3. info'[f] = IF f = b THEN links ELSE info[f]
    BY <1>1 DEF TypeInv, LinksInv
  <2> HIDE DEF links
  <2> QED BY <2>1, <2>2, <2>3
<1>7. ASSUME NEW f \in Branches, NEW c \in Sides
      PROVE   \/ /\ info'[f][c] = info[f][c] /\ m \notin Told(f, c)
                 /\ \/ Silent(f, c, {m})
                    \/ ~Leaf[f][c] /\ Child[f][c] = b /\ Says(f, c, {m})
              \/ /\ m \in Told(f, c) /\ Silent(f, c, {m})
                 /\ info'[f][c] = IF IsNewer(info[f][c], m.seq)
                                  THEN [n |-> m.n, seq |-> m.seq] ELSE info[f][c]
  <2> HIDE DEF links
  <2>1. CASE f = b /\ Child[f][c] = m.src
    BY <1>5, <1>6, <2>1
  <2>2. CASE ~(f = b /\ Child[f][c] = m.src)
    BY <1>5, <1>6, <2>2
  <2> QED BY <2>1, <2>2
<1> QED BY <1>1, <1>2, <1>7

\* The bag m makes its dispatcher tell something to f.
Answers(m, num, f, c) ==
  /\ ~MustWait(m.dst) /\ f = Father(m.dst) /\ Child[f][c] = m.dst
  /\ Taken(info[m.dst], num) # info[m.dst]
  /\ IsNews(m.dst, Joined(Taken(info[m.dst], num)), notified[m.dst])

\* What HandleBag does without changes of the structure.
LEMMA HandleBagCalm ==
  ASSUME TypeInv, CalmInv, NEW m \in net, NEW nearest \in Sides, HandleBag(m, nearest),
         NEW num, num = Division(m, nearest)
  PROVE  /\ m.dst \in Branches /\ GoodBag(m) /\ m.type = "bag" /\ ~m.forEN
         /\ info' = [info EXCEPT ![m.dst] = Taken(info[m.dst], num)]
         /\ num \in [Sides -> Nat] /\ \A c \in Sides : num[c] <= Known(info[m.dst][c])
         /\ \A f \in Branches, c \in Sides :
              /\ f # m.dst \/ num[c] = 0 => info'[f][c] = info[f][c]
              /\ f = m.dst /\ num[c] > 0 =>
                   /\ info[f][c] # NoAddr
                   /\ info'[f][c] = [n |-> info[f][c].n - num[c], seq |-> info[f][c].seq]
              /\ \/ Silent(f, c, {})
                 \/ ~Leaf[f][c] /\ Child[f][c] = m.dst /\ f # m.dst /\ Says(f, c, {})
              /\ Answers(m, num, f, c) => Says(f, c, {})
<1> DEFINE b == m.dst
           links == Taken(info[b], num)
           w == IF links # info[b] THEN Joined(links) ELSE waiting[b]
           out == Notified(b, w, notified[b], MustWait(b) \/ b \in inChange)
           next == FirstOf(m, num, 2)
           rest == TasksOf(m.req, next, m.last)
           nullInfo == out.waiting = NoAddr /\ out.notified = NoAddr
           up == BagMsg(b, Father(b), m.req, next, m.last, FALSE, FALSE)
           sent == IF rest # {} /\ GoesUp(m) /\ ~nullInfo THEN {up} ELSE {}
           other == ToChildren(m, num) \cup sent
           blocked == MustWait(b) \/ b \in inChange
<1>1. /\ m.type = "bag" /\ b \in Branches /\ ~m.forEN
      /\ info' = [info EXCEPT ![b] = links]
      /\ Notify(b, out)
      /\ net' = (net \ {m}) \cup out.msgs \cup ToChildren(m, num) \cup sent
      /\ UNCHANGED seqNum
  BY DEF HandleBag, nodeVars
<1>2. GoodBag(m) /\ GoodLinks(b, info[b]) /\ GoodWaiting(b, waiting[b])
      /\ info[b] \in [Sides -> Links]
  BY <1>1, TypeOfMessages DEF TypeInv, LinksInv
<1>3. /\ num \in [Sides -> Nat] /\ num[0] \in Nat /\ num[1] \in Nat
      /\ num[0] + num[1] <= m.last - m.first + 1
      /\ \A c \in Sides : num[c] <= Known(info[b][c])
  BY <1>1, <1>2, DivisionIsGood
<1>4. /\ GoodLinks(b, links)
      /\ \A c \in Sides : num[c] > 0 =>
           info[b][c] # NoAddr /\ links[c] = [n |-> info[b][c].n - num[c], seq |-> info[b][c].seq]
      /\ \A c \in Sides : num[c] = 0 => links[c] = info[b][c]
  BY <1>1, <1>2, <1>3, TakenIsGood
<1>5. GoodWaiting(b, w)
  <2> HIDE DEF links
  <2> QED BY <1>1, <1>2, <1>4, JoinedIsGood
<1>11. (links # info[b] => w = Joined(links)) /\ (~MustWait(b) => ~blocked)
  BY <1>1 DEF CalmInv
<1> HIDE DEF w
<1>6. out = Notified(b, w, notified[b], blocked)
  OBVIOUS
<1> HIDE DEF out, blocked
<1>7. \A x \in other : x.type = "bag"
  <2>1. \A x \in ToChildren(m, num) : GoodBag(x)
    BY <1>1, <1>2, <1>3, SentIsGood
  <2>2. up.type = "bag"
    BY DEF BagMsg
  <2> QED BY <2>1, <2>2 DEF GoodBag, Bags
<1>8. ASSUME NEW f \in Branches, NEW c \in Sides
      PROVE /\ \/ Silent(f, c, {})
               \/ ~Leaf[f][c] /\ Child[f][c] = b /\ f # b /\ Says(f, c, {})
            /\ ~blocked /\ IsNews(b, w, notified[b]) /\ f = Father(b) /\ Child[f][c] = b =>
                 Says(f, c, {})
  <2> DEFINE gone == {m}
  <2>1. Notifies(b, w, blocked, out, gone, other)
    BY <1>1, <1>5, <1>6, <1>7 DEF Notifies
  <2>2. Told(f, c) \ gone = Told(f, c) \ {}
    BY <1>1 DEF Told, InfoMsgs
  <2> HIDE DEF gone, other, b
  <2>3. /\ \/ Silent(f, c, gone)
           \/ ~Leaf[f][c] /\ Child[f][c] = b /\ f # b /\ Says(f, c, gone)
        /\ ~blocked /\ IsNews(b, w, notified[b]) /\ f = Father(b) /\ Child[f][c] = b =>
             Says(f, c, gone)
    BY <1>1, <2>1, DispatcherSays
  <2>4. (Silent(f, c, gone) => Silent(f, c, {})) /\ (Says(f, c, gone) => Says(f, c, {}))
    BY <2>2 DEF Silent, Says
  <2> QED BY <2>3, <2>4
<1>9. \A f \in Branches : info'[f] = IF f = b THEN links ELSE info[f]
  BY <1>1 DEF TypeInv, LinksInv
<1> HIDE DEF links
<1>10. ASSUME NEW f \in Branches, NEW c \in Sides
       PROVE  /\ f # b \/ num[c] = 0 => info'[f][c] = info[f][c]
              /\ f = b /\ num[c] > 0 =>
                   /\ info[f][c] # NoAddr
                   /\ info'[f][c] = [n |-> info[f][c].n - num[c], seq |-> info[f][c].seq]
  BY <1>4, <1>9
<1>12. ASSUME NEW f \in Branches, NEW c \in Sides, ~MustWait(b), f = Father(b), Child[f][c] = b,
              links # info[b], IsNews(b, Joined(links), notified[b])
       PROVE  Says(f, c, {})
  BY <1>8, <1>11, <1>12
<1>13. ASSUME NEW f \in Branches, NEW c \in Sides, Answers(m, num, f, c) PROVE Says(f, c, {})
  BY <1>12, <1>13 DEF Answers, links
<1> QED BY <1>1, <1>2, <1>3, <1>8, <1>10, <1>13 DEF links

\* Nobody tells anything.
LEMMA AllSilent ==
  ASSUME InfoMsgs' = InfoMsgs, UNCHANGED <<notified, seqNum>>,
         NEW f \in Branches, NEW c \in Sides
  PROVE  Silent(f, c, {})
BY DEF Silent, LastSeq, Told

\* What the other actions that happen without faults do.
LEMMA OthersCalm ==
  ASSUME TypeInv, CalmInv, NEW f \in Branches, NEW c \in Sides,
         \/ UNCHANGED vars
         \/ \E b \in Branches : Cool(b) \/ HandleUpdateTimer(b)
         \/ \E m \in net : HandleNodeBag(m)
         \/ \E e \in Peers : FinishTask(e) \/ Refresh(e)
         \/ \E r \in Requests : Submit(r)
  PROVE  info' = info /\ (Silent(f, c, {}) \/ Says(f, c, {}))
<1>1. CASE UNCHANGED vars
  <2>1. InfoMsgs' = InfoMsgs /\ UNCHANGED <<info, notified, seqNum>>
    BY <1>1 DEF vars, InfoMsgs
  <2> QED BY <2>1, AllSilent
<1>2. ASSUME NEW b \in Branches, Cool(b)
      PROVE  info' = info /\ (Silent(f, c, {}) \/ Says(f, c, {}))
  <2>1. InfoMsgs' = InfoMsgs /\ UNCHANGED <<info, notified, seqNum>>
    BY <1>2 DEF Cool, InfoMsgs, nodeVars
  <2> QED BY <2>1, AllSilent
<1>3. ASSUME NEW b \in Branches, HandleUpdateTimer(b)
      PROVE  info' = info /\ (Silent(f, c, {}) \/ Says(f, c, {}))
  <2> DEFINE out == Notified(b, waiting[b], notified[b], b \in inChange)
  <2>1. info' = info /\ Notify(b, out) /\ net' = net \cup out.msgs /\ UNCHANGED seqNum
    BY <1>3 DEF HandleUpdateTimer, nodeVars
  <2>2. GoodWaiting(b, waiting[b])
    BY DEF TypeInv, LinksInv
  <2>3. out = Notified(b, waiting[b], notified[b], b \in inChange)
    OBVIOUS
  <2> HIDE DEF out
  <2>4. Notifies(b, waiting[b], b \in inChange, out, {}, {})
    BY <2>1, <2>2, <2>3 DEF Notifies
  <2> QED BY <2>1, <2>4, DispatcherSays
<1>4. ASSUME NEW m \in net, HandleNodeBag(m)
      PROVE  info' = info /\ (Silent(f, c, {}) \/ Says(f, c, {}))
  <2>1. m.type = "bag" /\ m.dst \in Peers /\ UNCHANGED <<info, notified>>
    BY <1>4, TypeOfMessages DEF TypeInv, HandleNodeBag, GoodBag, Bags, dispVars
  <2>2. CASE running[m.dst] = NoAddr
    <3> DEFINE e == m.dst
               t == <<m.req, m.first>>
               gone == {m}
    <3>1. /\ running' = [running EXCEPT ![e] = t] /\ seqNum' = [seqNum EXCEPT ![e] = @ + 1]
          /\ net' = (net \ gone) \cup {NodeInfo(e, t)}
      BY <1>4, <2>2 DEF HandleNodeBag, nodeVars
    <3>2. running'[e] = t
      BY <2>1, <3>1 DEF TypeInv, NodesInv
    <3>3. Told(f, c) \ gone = Told(f, c) \ {}
      BY <2>1 DEF Told, InfoMsgs
    <3> HIDE DEF e, t, gone
    <3>4. Silent(f, c, gone) \/ Says(f, c, gone)
      BY <2>1, <3>1, <3>2, NodeSays DEF e
    <3>5. Silent(f, c, {}) \/ Says(f, c, {})
      BY <3>3, <3>4 DEF Silent, Says
    <3> QED BY <2>1, <3>5
  <2>3. CASE running[m.dst] # NoAddr
    <3>1. net' = net \ {m} /\ UNCHANGED seqNum
      BY <1>4, <2>3 DEF HandleNodeBag, nodeVars
    <3>2. InfoMsgs' = InfoMsgs
      BY <2>1, <3>1 DEF InfoMsgs
    <3>3. Silent(f, c, {})
      BY ONLY <2>1, <3>1, <3>2, f \in Branches, c \in Sides, AllSilent
    <3> QED BY ONLY <2>1, <3>3
  <2> QED BY <2>2, <2>3
<1>5. ASSUME NEW e \in Peers, FinishTask(e) \/ Refresh(e)
      PROVE  info' = info /\ (Silent(f, c, {}) \/ Says(f, c, {}))
  <2>1. PICK t : /\ running'[e] = t /\ seqNum' = [seqNum EXCEPT ![e] = @ + 1]
                 /\ net' = net \cup {NodeInfo(e, t)} /\ UNCHANGED <<info, notified>>
    BY <1>5 DEF FinishTask, Refresh, dispVars, TypeInv, NodesInv
  <2> DEFINE gone == {}
  <2>2. net' = (net \ gone) \cup {NodeInfo(e, t)}
    BY <2>1
  <2> HIDE DEF gone
  <2>3. running'[e] = t /\ seqNum' = [seqNum EXCEPT ![e] = @ + 1] /\ notified' = notified
    BY <2>1
  <2>4. \/ Silent(f, c, gone) /\ ~(Leaf[f][c] /\ Child[f][c] = e)
        \/ Leaf[f][c] /\ Child[f][c] = e /\ Says(f, c, gone)
    BY ONLY TypeInv, e \in Peers, f \in Branches, c \in Sides, <2>2, <2>3, NodeSays
  <2> QED BY ONLY <2>1, <2>4 DEF gone
<1>6. ASSUME NEW r \in Requests, Submit(r)
      PROVE  info' = info /\ (Silent(f, c, {}) \/ Says(f, c, {}))
  <2> DEFINE m == BagMsg(Client[r], LeafFather(Client[r]), r, 1, NumTasks[r], FALSE, TRUE)
  <2>1. net' = net \cup {m} /\ UNCHANGED <<info, notified, seqNum>>
    BY <1>6 DEF Submit, dispVars, nodeVars
  <2>2. m.type = "bag"
    BY DEF BagMsg
  <2> HIDE DEF m
  <2>3. InfoMsgs' = InfoMsgs
    BY <2>1, <2>2 DEF InfoMsgs
  <2> QED BY <2>1, <2>3, AllSilent
<1> QED BY <1>1, <1>2, <1>3, <1>4, <1>5, <1>6

\* Without information the numbers are in their order,
LEMMA SeqInit == NoFaults /\ Init => CalmInv /\ SeqInv
<1> SUFFICES ASSUME NoFaults, Init PROVE CalmInv /\ SeqInv
  OBVIOUS
<1>1. CalmInv
  BY DEF NoFaults, Init, CalmInv
<1>2. ASSUME NEW b \in Branches, NEW c \in Sides
      PROVE  info[b][c] = NoAddr /\ Told(b, c) = {}
  BY DEF NoFaults, Init, NoLinks, Told, InfoMsgs
<1>3. SeqInv
  BY <1>2 DEF SeqInv, Ordered
<1> QED BY <1>1, <1>3

\* and every step keeps that order.
LEMMA SeqNext == TypeInv /\ CalmInv /\ SeqInv /\ [Next]_vars => CalmInv' /\ SeqInv'
<1> SUFFICES ASSUME TypeInv, CalmInv, SeqInv, [Next]_vars PROVE CalmInv' /\ SeqInv'
  OBVIOUS
<1>1. CalmInv'
  BY CalmStep
<1> SUFFICES ASSUME NEW f \in Branches, NEW c \in Sides
             PROVE  Ordered(info[f][c], LastSeq(f, c), Told(f, c))'
  BY <1>1 DEF SeqInv
<1>2. Ordered(info[f][c], LastSeq(f, c), Told(f, c))
  BY DEF SeqInv
<1>3. ASSUME NEW m \in net, HandleInfo(m)
      PROVE  Ordered(info[f][c], LastSeq(f, c), Told(f, c))'
  <2>1. \/ /\ info'[f][c] = info[f][c] /\ m \notin Told(f, c)
           /\ \/ Silent(f, c, {m})
              \/ ~Leaf[f][c] /\ Child[f][c] = m.dst /\ Says(f, c, {m})
        \/ /\ m \in Told(f, c) /\ Silent(f, c, {m})
           /\ info'[f][c] = IF IsNewer(info[f][c], m.seq)
                            THEN [n |-> m.n, seq |-> m.seq] ELSE info[f][c]
    BY <1>3, HandleInfoCalm
  <2>2. CASE m \in Told(f, c)
    BY <1>2, <2>1, <2>2, OrderReceived
  <2>3. CASE m \notin Told(f, c)
    BY <1>2, <2>1, <2>3, OrderKept
  <2> QED BY <2>2, <2>3
<1>4. ASSUME NEW m \in net, NEW nearest \in Sides, HandleBag(m, nearest)
      PROVE  Ordered(info[f][c], LastSeq(f, c), Told(f, c))'
  <2> DEFINE num == Division(m, nearest)
  <2>0. num = Division(m, nearest)
    OBVIOUS
  <2> HIDE DEF num
  <2>1. /\ num \in [Sides -> Nat]
        /\ f # m.dst \/ num[c] = 0 => info'[f][c] = info[f][c]
        /\ f = m.dst /\ num[c] > 0 =>
             /\ info[f][c] # NoAddr
             /\ info'[f][c] = [n |-> info[f][c].n - num[c], seq |-> info[f][c].seq]
        /\ Silent(f, c, {}) \/ Says(f, c, {})
    BY <1>4, <2>0, HandleBagCalm
  <2>2. info'[f][c] # NoAddr => info[f][c] # NoAddr /\ info'[f][c].seq = info[f][c].seq
    BY <2>1
  <2> QED BY <1>2, <2>1, <2>2, OrderKept
<1>5. ASSUME info' = info, Silent(f, c, {}) \/ Says(f, c, {})
      PROVE  Ordered(info[f][c], LastSeq(f, c), Told(f, c))'
  BY <1>2, <1>5, OrderKept
<1> QED BY <1>3, <1>4, <1>5, CalmStep, OthersCalm DEF Receive

\* What each step makes of the latest information of a child.
UsesNews ==
  \A m \in InfoMsgs \ net' :
    IsLatest(m) /\ m.dst \notin inChange /\ left' = left =>
      \E c \in Sides : Child[m.dst][c] = m.src /\ info'[m.dst][c] = [n |-> m.n, seq |-> m.seq]

\* The last information of a child has a higher number than what its father has.
LEMMA NewsStep == TypeInv /\ CalmInv /\ SeqInv /\ [Next]_vars => UsesNews
<1> SUFFICES ASSUME TypeInv, CalmInv, SeqInv, [Next]_vars,
                    NEW m \in InfoMsgs \ net', IsLatest(m)
             PROVE  \E c \in Sides :
                      Child[m.dst][c] = m.src /\ info'[m.dst][c] = [n |-> m.n, seq |-> m.seq]
  BY DEF UsesNews
<1>1. m \in net /\ m.type = "info" /\ m \notin net'
  BY DEF InfoMsgs
<1>2. ASSUME NEW x \in net, HandleInfo(x) PROVE x = m
  <2>1. net \ {x} \subseteq net'
    BY <1>2 DEF HandleInfo
  <2> QED BY <1>1, <2>1
<1>3. ASSUME NEW x \in net, NEW nearest \in Sides, HandleBag(x, nearest) PROVE FALSE
  <2>1. net \ {x} \subseteq net' /\ x.type = "bag"
    BY <1>3 DEF HandleBag
  <2> QED BY <1>1, <2>1
<1>4. ASSUME NEW x \in net, HandleNodeBag(x) PROVE FALSE
  <2>1. net \ {x} \subseteq net' /\ x.type = "bag"
    BY <1>4 DEF HandleNodeBag
  <2> QED BY <1>1, <2>1
<1>5. ASSUME \/ UNCHANGED vars
             \/ \E b \in Branches : Cool(b) \/ HandleUpdateTimer(b)
             \/ \E e \in Peers : FinishTask(e) \/ Refresh(e)
             \/ \E r \in Requests : Submit(r)
      PROVE FALSE
  <2>1. net \subseteq net'
    BY <1>5 DEF vars, Cool, HandleUpdateTimer, FinishTask, Refresh, Submit
  <2> QED BY <1>1, <2>1
<1>6. HandleInfo(m)
  BY <1>2, <1>3, <1>4, <1>5, CalmStep DEF Receive
<1>7. PICK c \in Sides : Child[m.dst][c] = m.src /\ m.seq = LastSeq(m.dst, c)
  <2>1. GoodInfo(m)
    BY <1>1, TypeOfMessages DEF TypeInv
  <2>2. CASE IsLeafFather(m.dst, m.src)
    BY <2>2 DEF IsLatest, IsLeafFather, LastSeq
  <2>3. CASE ~IsLeafFather(m.dst, m.src)
    BY <2>1, <2>3 DEF IsLatest, IsFather, LastSeq, GoodInfo
  <2> QED BY <2>2, <2>3
<1>8. m.dst \in Branches /\ m \in Told(m.dst, c)
  BY <1>1, <1>6, <1>7, HandleInfoCalm DEF Told, InfoMsgs
<1>9. info'[m.dst][c] = IF IsNewer(info[m.dst][c], m.seq)
                       THEN [n |-> m.n, seq |-> m.seq] ELSE info[m.dst][c]
  BY <1>1, <1>6, <1>8, HandleInfoCalm
<1>10. IsNewer(info[m.dst][c], m.seq)
  <2>1. Ordered(info[m.dst][c], LastSeq(m.dst, c), Told(m.dst, c))
    BY <1>8 DEF SeqInv
  <2>2. LastSeq(m.dst, c) \in Nat
        /\ info[m.dst][c] # NoAddr => info[m.dst][c].seq \in Nat
    BY <1>8, ToldTyped
  <2> QED BY <1>7, <1>8, <2>1, <2>2, ToldTyped DEF Ordered, IsNewer
<1> QED BY <1>7, <1>9, <1>10

\* The order of the numbers holds always.
LEMMA SeqAlways == ASSUME NoFaults PROVE Spec => [](TypeInv /\ CalmInv /\ SeqInv)
<1>1. Init => TypeInv /\ CalmInv /\ SeqInv
  BY TypeInit, SeqInit
<1>2. TypeInv /\ CalmInv /\ SeqInv /\ [Next]_vars => (TypeInv /\ CalmInv /\ SeqInv)'
  BY TypeNext, SeqNext
<1> QED BY <1>1, <1>2, PTL DEF Spec

\* When the nodes tell their state first and nothing fails, the latest
\* information of a child is never taken for an old one (Link::update).
THEOREM NewsAlwaysUsed == ASSUME NoFaults PROVE Spec => NewsIsUsed
<1>1. TypeInv /\ CalmInv /\ SeqInv /\ [Next]_vars => [UsesNews]_vars
  BY NewsStep
<1>2. Spec => [][UsesNews]_vars
  BY <1>1, SeqAlways, PTL DEF Spec
<1> QED BY <1>2 DEF NewsIsUsed, UsesNews
-----------------------------------------------------------------------------
(* The information settles.                                                *)

\* The nodes below a branch are those of its two links.
LEMMA NodesAll ==
  ASSUME NEW b \in Branches
  PROVE  Below(b) = NodesOf(b, 0) \cup NodesOf(b, 1)
<1>0. 0 \in Sides /\ 1 \in Sides /\ Sides = {0, 1}
  BY DEF Sides
<1> DEFINE S == {b} \cup {x \in Branches : \E c \in Sides : ~Leaf[b][c] /\ x \in Under(Child[b][c])}
<1>1. b \in S /\ S \in SUBSET Branches
  OBVIOUS
<1>2. ASSUME NEW y \in S, NEW c \in Sides, ~Leaf[y][c] PROVE Child[y][c] \in S
  <2>1. CASE y = b
    BY <1>2, <2>1, UnderChild, UnderClosed
  <2>2. CASE y # b
    <3>1. PICK d \in Sides : ~Leaf[b][d] /\ y \in Under(Child[b][d])
      BY <2>2
    <3>2. Child[y][c] \in Under(Child[b][d]) /\ Under(Child[b][d]) \subseteq Branches
      BY <1>2, <3>1, UnderChild, UnderClosed
    <3> QED BY <3>1, <3>2
  <2> QED BY <2>1, <2>2
<1>3. Under(b) \subseteq S
  <2> HIDE DEF S
  <2> QED BY <1>1, <1>2, UnderOrIn DEF Closed
<1>4. ASSUME NEW e \in Below(b) PROVE \E c \in Sides : e \in NodesOf(b, c)
  <2>1. PICK x \in Under(b) : IsLeafFather(x, e)
    BY DEF Below
  <2>2. CASE x = b
    BY <2>1, <2>2 DEF IsLeafFather, NodesOf
  <2>3. CASE x # b
    <3>1. PICK d \in Sides : ~Leaf[b][d] /\ x \in Under(Child[b][d])
      BY <1>3, <2>3
    <3> QED BY <2>1, <3>1 DEF NodesOf, Below
  <2> QED BY <2>2, <2>3
<1> QED BY <1>0, <1>4, NodesApart

\* Right after the child has told something.
LEMMA RightIfSays ==
  ASSUME NEW f \in Branches, NEW c \in Sides, NEW gone, Says(f, c, gone)
  PROVE  Right(info[f][c], LastSeq(f, c), Told(f, c), Truth(f, c), BagSent(f, c))'
BY DEF Says, Right

\* Bags that are not received stay on their way.
LEMMA BagStays ==
  ASSUME NEW f \in Branches, NEW c \in Sides, BagSent(f, c), NEW m, net \ {m} \subseteq net',
         ~(m.type = "bag" /\ m.src = f /\ m.dst = Child[f][c] /\ m.forEN = Leaf[f][c] /\ ~m.fromEN)
  PROVE  BagSent(f, c)'
BY DEF BagSent, BagMsgs

\* While neither the child nor the link changes.
LEMMA RightKept ==
  ASSUME NEW f \in Branches, NEW c \in Sides, Silent(f, c, {}), info'[f][c] = info[f][c],
         Leaf[f][c] => running'[Child[f][c]] = running[Child[f][c]],
         BagSent(f, c) => BagSent(f, c)' \/ info[f][c].n = Truth(f, c),
         Right(info[f][c], LastSeq(f, c), Told(f, c), Truth(f, c), BagSent(f, c))
  PROVE  Right(info[f][c], LastSeq(f, c), Told(f, c), Truth(f, c), BagSent(f, c))'
<1>1. Truth(f, c)' = Truth(f, c)
  BY DEF Silent, Truth
<1>2. LastSeq(f, c)' = LastSeq(f, c) /\ Told(f, c)' = Told(f, c)
  BY DEF Silent
<1> HIDE DEF Silent
<1> QED BY <1>1, <1>2 DEF Right

\* When the father receives a message.
LEMMA RightReceived ==
  ASSUME TypeInv, NEW f \in Branches, NEW c \in Sides, NEW m \in net, Silent(f, c, {m}),
         Ordered(info[f][c], LastSeq(f, c), Told(f, c)),
         Leaf[f][c] => running'[Child[f][c]] = running[Child[f][c]],
         BagSent(f, c) => BagSent(f, c)',
         \/ info'[f][c] = info[f][c] /\ m \notin Told(f, c)
         \/ /\ m \in Told(f, c)
            /\ info'[f][c] = IF IsNewer(info[f][c], m.seq)
                             THEN [n |-> m.n, seq |-> m.seq] ELSE info[f][c],
         Right(info[f][c], LastSeq(f, c), Told(f, c), Truth(f, c), BagSent(f, c))
  PROVE  Right(info[f][c], LastSeq(f, c), Told(f, c), Truth(f, c), BagSent(f, c))'
<1> DEFINE i == info[f][c]
           last == LastSeq(f, c)
           told == Told(f, c)
           truth == Truth(f, c)
           sent == BagSent(f, c)
<1>1. truth' = truth
  BY DEF Silent, Truth
<1>2. last' = last /\ told' = told \ {m}
  BY DEF Silent
<1>3. /\ last \in Nat
      /\ i # NoAddr => i.seq \in Nat /\ i.seq <= last
      /\ \A x \in told : x.seq \in Nat /\ x.n \in Nat /\ x.seq <= last /\ (i # NoAddr => i.seq # x.seq)
      /\ \A x, y \in told : x.seq = y.seq => x = y
  BY ToldTyped DEF Ordered
<1>4. sent => sent'
  OBVIOUS
<1>5. \/ i' = i /\ m \notin told
      \/ m \in told /\ i' = IF IsNewer(i, m.seq) THEN [n |-> m.n, seq |-> m.seq] ELSE i
  OBVIOUS
<1>6. Right(i, last, told, truth, sent)
  OBVIOUS
<1>7. SUFFICES Right(i, last, told, truth, sent)'
  OBVIOUS
<1>8. m \in told => [n |-> m.n, seq |-> m.seq] # NoAddr
  <2>1. \A nn, ss \in Nat : [n |-> nn, seq |-> ss] \in [n : Nat, seq : Nat]
    OBVIOUS
  <2> QED BY <1>3, <2>1, RequestAssumption DEF RequestAssumption
<1> HIDE DEF told, last, truth, sent, i
<1>9. CASE last = 0
  BY <1>2, <1>9 DEF Right
<1>10. ASSUME NEW x \in told, x.seq = last, x.n = truth
       PROVE  Right(i, last, told, truth, sent)'
  <2>1. CASE x # m
    BY <1>1, <1>2, <1>10, <2>1 DEF Right
  <2>2. CASE x = m
    <3>1. IsNewer(i, m.seq)
      BY <1>3, <1>10, <2>2 DEF IsNewer
    <3>2. i' = [n |-> m.n, seq |-> m.seq] /\ i' # NoAddr
      BY <1>5, <1>8, <2>2, <3>1
    <3> QED BY <1>1, <1>2, <1>3, <1>10, <2>2, <3>2 DEF Right
  <2> QED BY <2>1, <2>2
<1>11. CASE i # NoAddr /\ i.seq = last /\ i.n <= truth /\ (i.n = truth \/ sent)
  <2>1. i' = i
    BY <1>3, <1>5, <1>11 DEF IsNewer
  <2> QED BY <1>1, <1>2, <1>4, <1>11, <2>1 DEF Right
<1> QED BY <1>6, <1>9, <1>10, <1>11 DEF Right

\* A branch that notifies tells its father all that it knows.
LEMMA ToldKept ==
  ASSUME NEW b \in Branches, TypeInv, NEW links \in [Sides -> Links],
         Father(b) # NoAddr => ToldAll(b), links # info[b] => links # NoLinks,
         NEW w, w = (IF links # info[b] THEN Joined(links) ELSE waiting[b]),
         NEW out, out = Notified(b, w, notified[b], FALSE),
         info'[b] = links, waiting'[b] = out.waiting, notified'[b] = out.notified
  PROVE  Father(b) # NoAddr => ToldAll(b)'
<1> SUFFICES ASSUME Father(b) # NoAddr PROVE ToldAll(b)'
  OBVIOUS
<1>0. ToldAll(b) /\ 0 \in Sides /\ 1 \in Sides /\ Sides = {0, 1}
  BY DEF Sides
<1>1. notified[b] = NoAddr \/ notified[b].n \in Nat
  BY DEF TypeInv, LinksInv
<1>2. links # NoLinks => Joined(links) \in Nat
  <2> SUFFICES ASSUME links # NoLinks PROVE Joined(links) \in Nat
    OBVIOUS
  <2>1. \E c \in Sides : links[c] # NoAddr
    BY DEF NoLinks
  <2>2. Joined(links) = Known(links[0]) + Known(links[1])
    BY <2>1 DEF Joined
  <2>3. \A c \in Sides : Known(links[c]) \in Nat
    BY DEF Known, Links
  <2> QED BY <1>0, <2>2, <2>3
<1>3. CASE IsNews(b, w, notified[b])
  <2>1. out.waiting = NoAddr /\ out.notified = [n |-> w, seq |-> NextSeq(notified[b])]
    BY <1>3 DEF Notified
  <2>2. w # NoAddr /\ (notified[b] = NoAddr \/ notified[b].n # w)
    BY <1>3 DEF IsNews
  <2>3. links # info[b]
    BY <1>0, <2>2 DEF ToldAll
  <2>4. w = Joined(links) /\ links # NoLinks
    BY <2>3
  <2>5. w \in Nat /\ NextSeq(notified[b]) \in Nat
    BY <1>2, <2>4 DEF NextSeq, TypeInv, LinksInv
  <2>6. out.notified # NoAddr /\ out.notified.n = w
    <3> DEFINE seq == NextSeq(notified[b])
               told == [n |-> w, seq |-> seq]
    <3>1. w \in Nat /\ seq \in Nat /\ out.notified = told
      BY <2>1, <2>5
    <3> HIDE DEF seq
    <3>2. told \in [n : Nat, seq : Nat] /\ told.n = w
      BY <3>1
    <3> HIDE DEF told
    <3>3. told # NoAddr
      BY <3>2, RequestAssumption DEF RequestAssumption
    <3> QED BY <3>1, <3>2, <3>3
  <2> QED BY <2>1, <2>4, <2>6 DEF ToldAll
<1>4. CASE ~IsNews(b, w, notified[b])
  <2>1. out.waiting = w /\ out.notified = notified[b]
    BY <1>4 DEF Notified
  <2>2. CASE links = info[b]
    BY <1>0, <2>1, <2>2 DEF ToldAll
  <2>3. CASE links # info[b]
    <3>1. w = Joined(links) /\ links # NoLinks /\ w \in Nat
      BY <1>2, <2>3
    <3>2. w # NoAddr
      BY <3>1, RequestAssumption DEF RequestAssumption
    <3>3. notified[b] # NoAddr /\ notified[b].n = w
      BY <1>4, <3>2 DEF IsNews
    <3> QED BY <2>1, <3>1, <3>3 DEF ToldAll
  <2> QED BY <2>2, <2>3
<1> QED BY <1>3, <1>4

\* The other branches do not change.
LEMMA ToldOfOthers ==
  ASSUME NEW b \in Branches, ToldAll(b), info'[b] = info[b], waiting'[b] = waiting[b],
         notified'[b] = notified[b]
  PROVE  ToldAll(b)'
BY DEF ToldAll

\* Dispatcher b puts links in place and notifies.
Notes(b, links) ==
  LET w == IF links # info[b] THEN Joined(links) ELSE waiting[b]
      out == Notified(b, w, notified[b], FALSE) IN
  /\ info' = [info EXCEPT ![b] = links] /\ Notify(b, out) /\ SetUpdateTimer(b)

\* A branch that has told all, still has after it notifies.
LEMMA NotesKeeps ==
  ASSUME Unhindered, TypeInv, ToldInv, NEW b \in Branches, NEW links \in [Sides -> Links],
         links # info[b] => links # NoLinks, Notes(b, links)
  PROVE  ToldInv'
<1> DEFINE w == IF links # info[b] THEN Joined(links) ELSE waiting[b]
           out == Notified(b, w, notified[b], FALSE)
<1>1. info' = [info EXCEPT ![b] = links] /\ Notify(b, out) /\ SetUpdateTimer(b)
  BY DEF Notes
<1>2. out = Notified(b, w, notified[b], FALSE) /\ w = (IF links # info[b] THEN Joined(links) ELSE waiting[b])
  OBVIOUS
<1> HIDE DEF w, out
<1>3. hot' = {} /\ timer' = {}
  BY <1>1 DEF Notify, SetUpdateTimer, MustWait, ToldInv, Unhindered
<1>4. \A x \in Branches : /\ info'[x] = IF x = b THEN links ELSE info[x]
                          /\ waiting'[x] = IF x = b THEN out.waiting ELSE waiting[x]
                          /\ notified'[x] = IF x = b THEN out.notified ELSE notified[x]
  BY <1>1 DEF Notify, TypeInv, LinksInv
<1>5. Father(b) # NoAddr => ToldAll(b)'
  BY <1>2, <1>4, ToldKept DEF ToldInv
<1>6. ASSUME NEW x \in Branches, x # b, Father(x) # NoAddr PROVE ToldAll(x)'
  BY <1>4, <1>6, ToldOfOthers DEF ToldInv
<1> QED BY <1>3, <1>5, <1>6 DEF ToldInv

\* Every step keeps that: updates never wait.
LEMMA ToldNext ==
  ASSUME Unhindered, TypeInv, CalmInv, ToldInv, [Next]_vars
  PROVE  ToldInv'
<1>1. ASSUME NEW m \in net, HandleInfo(m) PROVE ToldInv'
  <2> DEFINE b == m.dst
             links == Updated(b, info[b], m)
  <2>1. b \in Branches /\ ~MustWait(b) /\ info[b] \in [Sides -> Links] /\ m.n \in Nat /\ m.seq \in Nat
    <3>1. b \in Branches /\ GoodInfo(m)
      BY <1>1, HandleInfoCalm
    <3>2. ~MustWait(b)
      BY DEF MustWait, ToldInv
    <3> QED BY <3>1, <3>2 DEF TypeInv, LinksInv, GoodInfo, Infos
  <2>2. Notes(b, links)
    <3>1. MustWait(b) = FALSE
      BY <2>1 DEF MustWait
    <3> QED BY <1>1, <3>1 DEF HandleInfo, Notes, CalmInv
  <2>3. \A c \in Sides : links[c] = IF Child[b][c] = m.src /\ IsNewer(info[b][c], m.seq)
                                    THEN [n |-> m.n, seq |-> m.seq] ELSE info[b][c]
    BY DEF Updated
  <2>4. DOMAIN links = Sides /\ links = [c \in Sides |-> links[c]]
    BY DEF Updated
  <2> HIDE DEF links, b
  <2>5. [n |-> m.n, seq |-> m.seq] \in Links /\ [n |-> m.n, seq |-> m.seq] # NoAddr
    <3>1. [n |-> m.n, seq |-> m.seq] \in [n : Nat, seq : Nat]
      BY <2>1
    <3> QED BY <3>1, RequestAssumption DEF RequestAssumption, Links
  <2>6. links \in [Sides -> Links]
    BY <2>1, <2>3, <2>4, <2>5
  <2>7. links # info[b] => links # NoLinks
    <3> SUFFICES ASSUME links # info[b] PROVE links # NoLinks
      OBVIOUS
    <3>1. PICK c \in Sides : links[c] # info[b][c]
      BY <2>1, <2>6
    <3>2. links[c] # NoAddr
      BY <2>3, <2>5, <3>1
    <3> QED BY <3>2 DEF NoLinks
  <2> QED BY <2>1, <2>2, <2>6, <2>7, NotesKeeps
<1>2. ASSUME NEW m \in net, NEW nearest \in Sides, HandleBag(m, nearest) PROVE ToldInv'
  <2> DEFINE b == m.dst
             num == Division(m, nearest)
             links == Taken(info[b], num)
  <2>0. num = Division(m, nearest)
    OBVIOUS
  <2>1. b \in Branches /\ num \in [Sides -> Nat] /\ \A c \in Sides : num[c] <= Known(info[b][c])
    BY <1>2, HandleBagCalm
  <2>2. MustWait(b) = FALSE /\ b \notin inChange /\ info[b] \in [Sides -> Links] /\ GoodLinks(b, info[b])
    BY <2>1 DEF MustWait, ToldInv, CalmInv, TypeInv, LinksInv
  <2>3. Notes(b, links)
    <3>1. (MustWait(b) \/ b \in inChange) = FALSE
      BY <2>2
    <3> QED BY <1>2, <2>1, <3>1 DEF HandleBag, Notes
  <2> HIDE DEF num
  <2>4. /\ GoodLinks(b, links)
        /\ \A c \in Sides : num[c] > 0 => info[b][c] # NoAddr /\ links[c] = [n |-> info[b][c].n - num[c], seq |-> info[b][c].seq]
        /\ \A c \in Sides : num[c] = 0 => links[c] = info[b][c]
    BY <2>1, <2>2, TakenIsGood
  <2> HIDE DEF links, b
  <2>5. links \in [Sides -> Links]
    BY <2>4 DEF GoodLinks
  <2>6. links # info[b] => links # NoLinks
    <3> SUFFICES ASSUME links # info[b] PROVE links # NoLinks
      OBVIOUS
    <3>1. PICK c \in Sides : links[c] # info[b][c]
      BY <2>2, <2>5
    <3>2. num[c] > 0 /\ num[c] \in Nat /\ num[c] <= info[b][c].n /\ info[b][c] \in [n : Nat, seq : Nat]
      BY <2>1, <2>2, <2>4, <3>1 DEF Known, Links
    <3>3. links[c] \in [n : Nat, seq : Nat]
      <4>1. info[b][c].n - num[c] \in Nat /\ info[b][c].seq \in Nat
        BY <3>2
      <4>2. links[c] = [n |-> info[b][c].n - num[c], seq |-> info[b][c].seq]
        BY <2>4, <3>2
      <4> QED BY <4>1, <4>2
    <3>4. links[c] # NoAddr
      BY <3>3, RequestAssumption DEF RequestAssumption
    <3> QED BY <3>4 DEF NoLinks
  <2> QED BY <2>1, <2>3, <2>5, <2>6, NotesKeeps
<1>3. ASSUME UNCHANGED dispVars PROVE ToldInv'
  <2>1. UNCHANGED <<info, waiting, notified, hot, timer>>
    BY <1>3 DEF dispVars
  <2> QED BY <2>1 DEF ToldInv, ToldAll
<1>4. \A b \in Branches : ~Cool(b) /\ ~HandleUpdateTimer(b)
  BY DEF Cool, HandleUpdateTimer, ToldInv
<1>5. ASSUME \/ UNCHANGED vars
             \/ \E m \in net : HandleNodeBag(m)
             \/ \E e \in Peers : FinishTask(e) \/ Refresh(e)
             \/ \E r \in Requests : Submit(r)
      PROVE UNCHANGED dispVars
  BY <1>5 DEF vars, dispVars, HandleNodeBag, FinishTask, Refresh, Submit
<1> QED BY <1>1, <1>2, <1>3, <1>4, <1>5, CalmStep DEF Receive
\* A branch that divides a bag among children it knows gives them some task.
LEMMA SomeTaken ==
  ASSUME NEW m, GoodBag(m), m.dst \in Branches, info[m.dst] \in [Sides -> Links],
         NEW nearest \in Sides, NEW num, num = Division(m, nearest),
         \A c \in Sides : Usable(m, c), NEW c \in Sides, Known(info[m.dst][c]) > 0
  PROVE  \E d \in Sides : num[d] > 0
<1> DEFINE total == m.last - m.first + 1
           taken == MinOf(total, Room(m, nearest))
<1>1. total \in Nat \ {0}
  BY DEF GoodBag, Bags
<1>2. \A d \in Sides : Room(m, d) = Known(info[m.dst][d])
  BY DEF Room
<1>3. \A d \in Sides : Room(m, d) \in Nat
  BY <1>2 DEF Known, Links
<1> HIDE DEF total
<1>4. \A d \in Sides : num[d] = IF d = nearest THEN taken ELSE MinOf(total - taken, Room(m, d))
  BY DEF Division, total
<1>5. CASE Room(m, nearest) > 0
  BY <1>1, <1>3, <1>4, <1>5 DEF MinOf
<1>6. CASE Room(m, nearest) = 0
  <2>1. c # nearest /\ Room(m, c) > 0
    BY <1>2, <1>6
  <2>2. taken = 0
    BY <1>1, <1>6 DEF MinOf
  <2>3. num[c] = MinOf(total - 0, Room(m, c))
    BY <1>4, <2>1, <2>2
  <2>4. num[c] > 0
    BY <1>1, <1>3, <2>1, <2>3 DEF MinOf
  <2> QED BY <2>4
<1> QED BY <1>3, <1>5, <1>6

\* A bag that comes from the father makes the branch count less nodes, and say
\* so, unless it has told that there are none.
LEMMA BagIsAnswered ==
  ASSUME Unhindered, TypeInv, CalmInv, ToldInv, NEW m \in net, NEW nearest \in Sides,
         HandleBag(m, nearest), NEW f \in Branches, NEW c \in Sides, ~Leaf[f][c],
         m.src = f, m.dst = Child[f][c], ~m.fromEN,
         notified[m.dst] # NoAddr, notified[m.dst].n > 0
  PROVE  Says(f, c, {})
<1> DEFINE b == m.dst
           num == Division(m, nearest)
           links == Taken(info[b], num)
<1>0. num = Division(m, nearest) /\ 0 \in Sides /\ 1 \in Sides /\ Sides = {0, 1}
  BY DEF Sides
<1>1. b \in Branches /\ GoodBag(m) /\ num \in [Sides -> Nat] /\ \A d \in Sides : num[d] <= Known(info[b][d])
  BY HandleBagCalm
<1>2. Father(b) = f
  <2>1. IsFather(f, b)
    BY DEF IsFather
  <2>2. Father(b) # NoAddr
    BY <2>1, TreeAssumption DEF Father, TreeAssumption
  <2> QED BY <1>1, <2>1, <2>2, Fathers, TreeAssumption DEF TreeAssumption
<1>3. ToldAll(b) /\ f # NoAddr
  BY <1>1, <1>2, TreeAssumption DEF ToldInv, TreeAssumption
<1>4. info[b] # NoLinks /\ notified[b].n = Joined(info[b]) /\ info[b] \in [Sides -> Links] /\ GoodLinks(b, info[b])
  BY <1>1, <1>3 DEF ToldAll, TypeInv, LinksInv
<1>5. Joined(info[b]) = Known(info[b][0]) + Known(info[b][1])
  <2>1. \E d \in Sides : info[b][d] # NoAddr
    BY <1>4 DEF NoLinks
  <2> QED BY <2>1 DEF Joined
<1>6. \A d \in Sides : Known(info[b][d]) \in Nat
  BY <1>4 DEF Known, Links
<1>7. PICK d \in Sides : Known(info[b][d]) > 0
  BY <1>0, <1>4, <1>5, <1>6
<1>8. \A x \in Sides : Usable(m, x)
  <2>1. \A x \in Sides : Child[b][x] # f
    BY <1>1, <1>2 DEF Unhindered
  <2> QED BY <2>1 DEF Usable
<1>9. PICK e \in Sides : num[e] > 0
  BY <1>0, <1>1, <1>4, <1>7, <1>8, SomeTaken
<1> HIDE DEF num
<1>10. /\ GoodLinks(b, links)
       /\ \A x \in Sides : num[x] > 0 => info[b][x] # NoAddr /\ links[x] = [n |-> info[b][x].n - num[x], seq |-> info[b][x].seq]
       /\ \A x \in Sides : num[x] = 0 => links[x] = info[b][x]
  BY <1>1, <1>4, TakenIsGood
<1>11. \A x \in Sides : /\ (info[b][x] = NoAddr <=> links[x] = NoAddr)
                        /\ Known(links[x]) = Known(info[b][x]) - num[x]
  <2> SUFFICES ASSUME NEW x \in Sides
               PROVE  /\ (info[b][x] = NoAddr <=> links[x] = NoAddr)
                      /\ Known(links[x]) = Known(info[b][x]) - num[x]
    OBVIOUS
  <2>1. CASE num[x] = 0
    BY <1>6, <1>10, <2>1
  <2>2. CASE num[x] > 0
    <3>1. info[b][x] \in [n : Nat, seq : Nat] /\ info[b][x] # NoAddr /\ num[x] \in Nat /\ num[x] <= info[b][x].n
      BY <1>1, <1>4, <1>10, <2>2 DEF Links, Known
    <3>2. links[x] = [n |-> info[b][x].n - num[x], seq |-> info[b][x].seq]
      BY <1>10, <2>2
    <3>3. info[b][x].n - num[x] \in Nat /\ info[b][x].seq \in Nat
      BY <3>1
    <3>4. links[x] \in [n : Nat, seq : Nat]
      BY <3>2, <3>3
    <3>5. links[x] # NoAddr
      BY <3>4, RequestAssumption DEF RequestAssumption
    <3> QED BY <3>1, <3>2, <3>5 DEF Known
  <2> QED BY <1>1, <2>1, <2>2
<1>12. Joined(links) = Known(links[0]) + Known(links[1])
  <2>1. \E x \in Sides : links[x] # NoAddr
    BY <1>9, <1>10, <1>11
  <2> QED BY <2>1 DEF Joined
<1>13. Joined(links) \in Nat /\ Joined(links) < notified[b].n
  <2>1. \A x \in Sides : num[x] \in Nat /\ num[x] <= Known(info[b][x])
    BY <1>1
  <2>2. Joined(links) = Known(info[b][0]) - num[0] + (Known(info[b][1]) - num[1])
    BY <1>0, <1>11, <1>12
  <2>3. num[0] + num[1] > 0
    BY <1>0, <1>9, <2>1
  <2> QED BY <1>0, <1>4, <1>5, <1>6, <2>1, <2>2, <2>3
<1>14. links # info[b]
  <2>1. num[e] \in Nat /\ Known(info[b][e]) \in Nat /\ Known(links[e]) = Known(info[b][e]) - num[e]
    BY <1>1, <1>6, <1>11
  <2> QED BY <1>9, <2>1
<1>15. IsNews(b, Joined(links), notified[b])
  <2>1. Joined(links) # NoAddr
    BY <1>13, RequestAssumption DEF RequestAssumption
  <2>2. notified[b].n # Joined(links)
    BY <1>4, <1>5, <1>6, <1>0, <1>13
  <2> QED BY <1>2, <1>3, <2>1, <2>2 DEF IsNews
<1>16. ~MustWait(b)
  BY DEF MustWait, ToldInv
<1>17. num = Division(m, nearest)
  BY DEF num
<1>18. Answers(m, num, f, c) => Says(f, c, {})
  BY <1>17, HandleBagCalm
<1> QED BY <1>2, <1>14, <1>15, <1>16, <1>18 DEF Answers

\* Every step keeps each link right, or about to be.
LEMMA RightNext ==
  ASSUME Unhindered, TypeInv, CalmInv, SeqInv, ToldInv, RightInv, [Next]_vars
  PROVE  RightInv'
<1> SUFFICES ASSUME NEW f \in Branches, NEW c \in Sides
             PROVE  Right(info[f][c], LastSeq(f, c), Told(f, c), Truth(f, c), BagSent(f, c))'
  BY DEF RightInv
<1> DEFINE R == Right(info[f][c], LastSeq(f, c), Told(f, c), Truth(f, c), BagSent(f, c))
<1>1. R
  BY DEF RightInv
<1>2. Ordered(info[f][c], LastSeq(f, c), Told(f, c))
  BY DEF SeqInv
<1>3. Child[f][c] \in Peers /\ (~Leaf[f][c] => Child[f][c] \in Branches)
  <2>1. Child[f] \in [Sides -> Peers]
    BY TreeAssumption DEF TreeAssumption
  <2> QED BY <2>1, TreeAssumption DEF TreeAssumption
<1>4. \A gone : Says(f, c, gone) => R'
  BY RightIfSays
<1>5. ASSUME NEW m \in net, HandleInfo(m) PROVE R'
  <2>1. /\ m.type = "info" /\ running' = running
        /\ net \ {m} \subseteq net'
    BY <1>5, HandleInfoCalm DEF HandleInfo, nodeVars
  <2>2. BagSent(f, c) => BagSent(f, c)'
    BY <2>1, BagStays
  <2>3. \/ /\ info'[f][c] = info[f][c] /\ m \notin Told(f, c)
           /\ \/ Silent(f, c, {m})
              \/ ~Leaf[f][c] /\ Child[f][c] = m.dst /\ Says(f, c, {m})
        \/ /\ m \in Told(f, c) /\ Silent(f, c, {m})
           /\ info'[f][c] = IF IsNewer(info[f][c], m.seq)
                            THEN [n |-> m.n, seq |-> m.seq] ELSE info[f][c]
    BY <1>5, HandleInfoCalm
  <2>4. CASE Says(f, c, {m})
    BY <1>4, <2>4
  <2>5. CASE Silent(f, c, {m}) /\ info'[f][c] = info[f][c] /\ m \notin Told(f, c)
    BY <1>1, <1>2, <2>1, <2>2, <2>5, RightReceived
  <2>6. CASE /\ m \in Told(f, c) /\ Silent(f, c, {m})
             /\ info'[f][c] = IF IsNewer(info[f][c], m.seq)
                              THEN [n |-> m.n, seq |-> m.seq] ELSE info[f][c]
    BY <1>1, <1>2, <2>1, <2>2, <2>6, RightReceived
  <2> QED BY <2>3, <2>4, <2>5, <2>6
<1>6. ASSUME NEW m \in net, NEW nearest \in Sides, HandleBag(m, nearest) PROVE R'
  <2> DEFINE num == Division(m, nearest)
  <2>0. num = Division(m, nearest)
    OBVIOUS
  <2>1. /\ running' = running /\ net \ {m} \subseteq net' /\ ToChildren(m, num) \subseteq net'
        /\ ~m.forEN /\ m.type = "bag"
    BY <1>6 DEF HandleBag, nodeVars
  <2> HIDE DEF num
  <2>2. /\ num \in [Sides -> Nat] /\ m.dst \in Branches
        /\ f # m.dst \/ num[c] = 0 => info'[f][c] = info[f][c]
        /\ f = m.dst /\ num[c] > 0 =>
             /\ info[f][c] # NoAddr
             /\ info'[f][c] = [n |-> info[f][c].n - num[c], seq |-> info[f][c].seq]
        /\ \/ Silent(f, c, {})
           \/ ~Leaf[f][c] /\ Child[f][c] = m.dst /\ f # m.dst /\ Says(f, c, {})
        /\ num[c] <= Known(info[m.dst][c])
    BY <1>6, <2>0, HandleBagCalm
  <2>3. CASE Says(f, c, {})
    BY <1>4, <2>3
  <2>4. CASE Silent(f, c, {}) /\ f = m.dst /\ num[c] > 0
    <3> DEFINE i == info[f][c]
    <3>1. BagSent(f, c)'
      <4> DEFINE x == BagMsg(m.dst, Child[m.dst][c], m.req, FirstOf(m, num, c),
                             FirstOf(m, num, c) + num[c] - 1, Leaf[m.dst][c], FALSE)
      <4>1. x \in net'
        BY <2>1, <2>4 DEF ToChildren
      <4>2. x.type = "bag" /\ x.src = f /\ x.dst = Child[f][c] /\ x.forEN = Leaf[f][c] /\ ~x.fromEN
        BY <2>4 DEF BagMsg
      <4> HIDE DEF x
      <4> QED BY <4>1, <4>2 DEF BagSent, BagMsgs
    <3>2. Truth(f, c)' = Truth(f, c) /\ LastSeq(f, c)' = LastSeq(f, c) /\ Told(f, c)' = Told(f, c)
      BY <2>1, <2>4 DEF Silent, Truth
    <3>3. i \in [n : Nat, seq : Nat] /\ num[c] \in Nat /\ num[c] <= i.n
      BY <2>2, <2>4 DEF TypeInv, LinksInv, Links, Known
    <3>4. i' = [n |-> i.n - num[c], seq |-> i.seq]
      BY <2>2, <2>4
    <3> HIDE DEF i
    <3>5. i' \in [n : Nat, seq : Nat] /\ i'.seq = i.seq /\ i'.n <= i.n
      <4>1. i.n - num[c] \in Nat /\ i.seq \in Nat
        BY <3>3
      <4> QED BY <3>3, <3>4, <4>1
    <3>6. i' # NoAddr
      BY <3>5, RequestAssumption DEF RequestAssumption
    <3>7. LastSeq(f, c) = 0 \/ (\E x \in Told(f, c) : x.seq = LastSeq(f, c) /\ x.n = Truth(f, c))
          \/ (i # NoAddr /\ i.seq = LastSeq(f, c) /\ i.n <= Truth(f, c))
      BY <1>1 DEF Right, i
    <3>8. i.n <= Truth(f, c) /\ Truth(f, c) \in Nat => i'.n <= Truth(f, c)
      BY <3>3, <3>5
    <3>9. Truth(f, c) \in Nat \/ LastSeq(f, c) = 0
      <4>1. CASE Leaf[f][c]
        BY <4>1 DEF Truth
      <4>2. CASE ~Leaf[f][c]
        <5>1. notified[Child[f][c]] \in [n : Nat, seq : Nat \ {0}] \cup {NoAddr}
          BY <1>3, <4>2 DEF TypeInv, LinksInv
        <5> QED BY <4>2, <5>1 DEF Truth, LastSeq
      <4> QED BY <4>1, <4>2
    <3>10. Right(i', LastSeq(f, c), Told(f, c), Truth(f, c), TRUE)
      BY <3>5, <3>6, <3>7, <3>8, <3>9 DEF Right
    <3> QED BY <3>1, <3>2, <3>10 DEF i, Right
  <2>5. CASE Silent(f, c, {}) /\ ~(f = m.dst /\ num[c] > 0)
    <3>1. info'[f][c] = info[f][c]
      BY <2>2, <2>5
    <3>2. CASE ~(m.src = f /\ m.dst = Child[f][c] /\ m.forEN = Leaf[f][c] /\ ~m.fromEN)
      BY <1>1, <2>1, <2>5, <3>1, <3>2, BagStays, RightKept
    <3>3. CASE m.src = f /\ m.dst = Child[f][c] /\ m.forEN = Leaf[f][c] /\ ~m.fromEN
      <4>1. ~Leaf[f][c]
        BY <2>1, <3>3
      <4>2. CASE notified[m.dst] # NoAddr /\ notified[m.dst].n > 0
        BY <1>4, <1>6, <3>3, <4>1, <4>2, BagIsAnswered
      <4>3. CASE notified[m.dst] = NoAddr
        <5>1. LastSeq(f, c) = 0
          BY <3>3, <4>1, <4>3 DEF LastSeq
        <5> QED BY <2>5, <5>1 DEF Silent, Right
      <4>4. CASE notified[m.dst] # NoAddr /\ ~(notified[m.dst].n > 0)
        <5>1. Truth(f, c) = 0
          BY <1>3, <3>3, <4>1, <4>4 DEF Truth, TypeInv, LinksInv
        <5>2. CASE LastSeq(f, c) = 0 \/ \E x \in Told(f, c) : x.seq = LastSeq(f, c) /\ x.n = Truth(f, c)
          BY <2>5, <4>1, <5>2 DEF Silent, Right, Truth
        <5>3. CASE info[f][c] # NoAddr /\ info[f][c].seq = LastSeq(f, c) /\ info[f][c].n <= Truth(f, c)
          <6>1. info[f][c].n \in Nat
            BY <5>3 DEF TypeInv, LinksInv, Links
          <6>2. info[f][c].n = Truth(f, c)
            BY <5>1, <5>3, <6>1
          <6> QED BY <1>1, <2>1, <2>5, <3>1, <6>2, RightKept
        <5> QED BY <1>1, <5>2, <5>3 DEF Right
      <4> QED BY <4>2, <4>3, <4>4
    <3> QED BY <3>2, <3>3
  <2>6. num[c] \in Nat
    BY <2>2
  <2> QED BY <2>2, <2>3, <2>4, <2>5
<1>7. ASSUME NEW m \in net, HandleNodeBag(m) PROVE R'
  <2>1. /\ m.type = "bag" /\ m.forEN /\ m.dst \in Peers /\ UNCHANGED <<info, notified>>
        /\ net \ {m} \subseteq net'
    BY <1>7, TypeOfMessages DEF TypeInv, HandleNodeBag, GoodBag, Bags, dispVars
  <2>2. CASE running[m.dst] = NoAddr
    <3> DEFINE e == m.dst
               t == <<m.req, m.first>>
               gone == {m}
    <3>1. /\ running' = [running EXCEPT ![e] = t] /\ seqNum' = [seqNum EXCEPT ![e] = @ + 1]
          /\ net' = (net \ gone) \cup {NodeInfo(e, t)}
      BY <1>7, <2>2 DEF HandleNodeBag, nodeVars
    <3>2. running'[e] = t /\ \A p \in Peers : p # e => running'[p] = running[p]
      BY <2>1, <3>1 DEF TypeInv, NodesInv
    <3>3. Told(f, c) \ gone = Told(f, c) \ {}
      BY <2>1 DEF Told, InfoMsgs
    <3> HIDE DEF t, gone
    <3>4. \/ Silent(f, c, gone) /\ ~(Leaf[f][c] /\ Child[f][c] = e)
          \/ Says(f, c, gone)
      <4> HIDE DEF e
      <4> QED BY <2>1, <3>1, <3>2, NodeSays DEF e
    <3>5. CASE Silent(f, c, gone) /\ ~(Leaf[f][c] /\ Child[f][c] = e)
      <4>1. Silent(f, c, {})
        BY <3>3, <3>5 DEF Silent
      <4>2. Leaf[f][c] => running'[Child[f][c]] = running[Child[f][c]]
        BY <1>3, <3>2, <3>5
      <4>3. BagSent(f, c) => BagSent(f, c)'
        <5>1. ~(m.dst = Child[f][c] /\ m.forEN = Leaf[f][c])
          BY <2>1, <3>5
        <5> QED BY <2>1, <5>1, BagStays
      <4> QED BY <1>1, <2>1, <4>1, <4>2, <4>3, RightKept
    <3> QED BY <1>4, <3>4, <3>5
  <2>3. CASE running[m.dst] # NoAddr
    <3>1. net' = net \ {m} /\ UNCHANGED <<running, seqNum>>
      BY <1>7, <2>3 DEF HandleNodeBag, nodeVars
    <3>2. InfoMsgs' = InfoMsgs
      BY <2>1, <3>1 DEF InfoMsgs
    <3>3. Silent(f, c, {})
      BY <2>1, <3>1, <3>2, AllSilent
    <3>4. CASE ~(m.src = f /\ m.dst = Child[f][c] /\ m.forEN = Leaf[f][c] /\ ~m.fromEN)
      <4>1. BagSent(f, c) => BagSent(f, c)'
        BY <2>1, <3>4, BagStays
      <4> QED BY <1>1, <2>1, <3>1, <3>3, <4>1, RightKept
    <3>5. CASE m.dst = Child[f][c] /\ m.forEN = Leaf[f][c]
      <4>1. Truth(f, c) = 0
        BY <2>1, <2>3, <3>5 DEF Truth
      <4>2. CASE LastSeq(f, c) = 0 \/ \E x \in Told(f, c) : x.seq = LastSeq(f, c) /\ x.n = Truth(f, c)
        <5>1. Truth(f, c)' = Truth(f, c)
          BY <3>1, <3>3 DEF Truth, Silent
        <5> QED BY <3>3, <4>2, <5>1 DEF Silent, Right
      <4>3. CASE info[f][c] # NoAddr /\ info[f][c].seq = LastSeq(f, c) /\ info[f][c].n <= Truth(f, c)
        <5>1. info[f][c].n \in Nat
          BY <4>3 DEF TypeInv, LinksInv, Links
        <5>2. info[f][c].n = Truth(f, c)
          BY <4>1, <4>3, <5>1
        <5> QED BY <1>1, <2>1, <3>1, <3>3, <5>2, RightKept
      <4> QED BY <1>1, <4>2, <4>3 DEF Right
    <3> QED BY <3>4, <3>5
  <2> QED BY <2>2, <2>3
<1>8. ASSUME NEW e \in Peers, FinishTask(e) \/ Refresh(e) PROVE R'
  <2>1. PICK t : /\ running' = [running EXCEPT ![e] = t] /\ seqNum' = [seqNum EXCEPT ![e] = @ + 1]
                 /\ net' = net \cup {NodeInfo(e, t)} /\ UNCHANGED <<info, notified>>
    <3>1. CASE FinishTask(e)
      BY <3>1 DEF FinishTask, dispVars
    <3>2. CASE Refresh(e)
      <4>1. running' = [running EXCEPT ![e] = running[e]]
        BY <3>2 DEF Refresh, TypeInv, NodesInv
      <4> QED BY <3>2, <4>1 DEF Refresh, dispVars
    <3> QED BY <1>8, <3>1, <3>2
  <2>2. running'[e] = t /\ \A p \in Peers : p # e => running'[p] = running[p]
    BY <2>1 DEF TypeInv, NodesInv
  <2> DEFINE none == {}
  <2>3. net' = (net \ none) \cup {NodeInfo(e, t)} /\ none = {}
    BY <2>1
  <2> HIDE DEF none
  <2>4. \/ Silent(f, c, none) /\ ~(Leaf[f][c] /\ Child[f][c] = e)
        \/ Says(f, c, none)
    <3>1. running'[e] = t /\ seqNum' = [seqNum EXCEPT ![e] = @ + 1] /\ notified' = notified
      BY <2>1, <2>2
    <3> HIDE DEF R
    <3> QED BY <2>3, <3>1, NodeSays
  <2>5. CASE Silent(f, c, none) /\ ~(Leaf[f][c] /\ Child[f][c] = e)
    <3>1. Leaf[f][c] => running'[Child[f][c]] = running[Child[f][c]]
      BY <1>3, <2>2, <2>5
    <3>2. BagSent(f, c) => BagSent(f, c)'
      BY <2>1 DEF BagSent, BagMsgs
    <3>3. Silent(f, c, {})
      BY <2>3, <2>5
    <3> QED BY <1>1, <2>1, <3>1, <3>2, <3>3, RightKept
  <2> QED BY <1>4, <2>4, <2>5
<1>9. ASSUME NEW r \in Requests, Submit(r) PROVE R'
  <2> DEFINE m == BagMsg(Client[r], LeafFather(Client[r]), r, 1, NumTasks[r], FALSE, TRUE)
  <2>1. net' = net \cup {m} /\ UNCHANGED <<info, notified, seqNum, running>>
    BY <1>9 DEF Submit, dispVars, nodeVars
  <2>2. m.type = "bag"
    BY DEF BagMsg
  <2> HIDE DEF m
  <2>3. InfoMsgs' = InfoMsgs
    BY <2>1, <2>2 DEF InfoMsgs
  <2>4. BagSent(f, c) => BagSent(f, c)'
    BY <2>1 DEF BagSent, BagMsgs
  <2>5. Silent(f, c, {})
    BY <2>1, <2>3, AllSilent
  <2> QED BY <1>1, <2>1, <2>4, <2>5, RightKept
<1>10. CASE UNCHANGED vars
  <2>1. InfoMsgs' = InfoMsgs /\ BagSent(f, c)' = BagSent(f, c) /\ UNCHANGED <<info, notified, seqNum, running>>
    BY <1>10 DEF vars, InfoMsgs, BagSent, BagMsgs
  <2>2. Silent(f, c, {})
    BY <2>1, AllSilent
  <2> QED BY <1>1, <2>1, <2>2, RightKept
<1>11. \A b \in Branches : ~Cool(b) /\ ~HandleUpdateTimer(b)
  BY DEF Cool, HandleUpdateTimer, ToldInv
<1> QED BY <1>5, <1>6, <1>7, <1>8, <1>9, <1>10, <1>11, CalmStep DEF Receive

\* When nothing is on its way each link is exact: no branch is the lowest one
\* with a link that is not.
Exact(b) ==
  \A c \in Sides : info[b][c] # NoAddr /\ Known(info[b][c]) = Cardinality(NodesOf(b, c) \cap Idle)

\* A branch whose links are exact counts the idle nodes below it.
LEMMA ExactIsJoined ==
  ASSUME TypeInv, NEW b \in Branches, Exact(b)
  PROVE  info[b] # NoLinks /\ Joined(info[b]) = Cardinality(Below(b) \cap Idle)
<1>0. 0 \in Sides /\ 1 \in Sides
  BY DEF Sides
<1>1. info[b] # NoLinks /\ Joined(info[b]) = Known(info[b][0]) + Known(info[b][1])
  BY <1>0 DEF Exact, NoLinks, Joined
<1> DEFINE A == NodesOf(b, 0) \cap Idle
           B == NodesOf(b, 1) \cap Idle
<1>2. A \cap B = {} /\ Below(b) \cap Idle = A \cup B /\ A \in SUBSET Peers /\ B \in SUBSET Peers
  BY NodesAll, NodesApart, <1>0
<1>3. Known(info[b][0]) = Cardinality(A) /\ Known(info[b][1]) = Cardinality(B)
  BY <1>0 DEF Exact
<1> HIDE DEF A, B
<1>4. Cardinality(A \cup B) = Cardinality(A) + Cardinality(B) - Cardinality(A \cap B)
  BY <1>2, Counts, FS_Union
<1>5. Cardinality(A) \in Nat /\ Cardinality(B) \in Nat /\ Cardinality({}) = 0
  BY <1>2, Counts, FS_EmptySet
<1>6. Cardinality(A \cup B) = Cardinality(A) + Cardinality(B) - Cardinality({})
  BY <1>2, <1>4
<1>7. Cardinality(A \cup B) = Cardinality(A) + Cardinality(B)
  BY <1>5, <1>6
<1>8. Cardinality(Below(b) \cap Idle) = Cardinality(A) + Cardinality(B)
  BY <1>2, <1>7
<1> QED BY <1>1, <1>3, <1>8

\* And then so are the links to it.
LEMMA ExactAbove ==
  ASSUME NoFaults, TypeInv, SeqInv, ToldInv, RightInv, Quiet, NEW b \in Branches,
         \A c \in Sides : ~Leaf[b][c] => Exact(Child[b][c])
  PROVE  Exact(b)
<1> SUFFICES ASSUME NEW c \in Sides
             PROVE  /\ info[b][c] # NoAddr
                    /\ Known(info[b][c]) = Cardinality(NodesOf(b, c) \cap Idle)
  BY DEF Exact
<1>1. Told(b, c) = {} /\ ~BagSent(b, c)
  BY DEF Quiet, Told, InfoMsgs, BagSent, BagMsgs
<1>2. LastSeq(b, c) = 0 \/ (info[b][c] # NoAddr /\ info[b][c].n = Truth(b, c))
  BY <1>1 DEF RightInv, Right
<1>3. Child[b][c] \in Peers
  <2>1. Child[b] \in [Sides -> Peers]
    BY TreeAssumption DEF TreeAssumption
  <2> QED BY <2>1
<1>4. CASE Leaf[b][c]
  <2> DEFINE e == Child[b][c]
  <2>1. LastSeq(b, c) # 0
    BY <1>3, <1>4 DEF Quiet, NoFaults, LastSeq, TypeInv, NodesInv
  <2>2. NodesOf(b, c) = {e} /\ (e \in Idle <=> running[e] = NoAddr)
    BY <1>3, <1>4 DEF NodesOf, Idle
  <2>3. info[b][c] # NoAddr /\ info[b][c].n = IF e \in Idle THEN 1 ELSE 0
    BY <1>2, <1>4, <2>1, <2>2 DEF Truth
  <2> HIDE DEF e
  <2>4. CASE e \in Idle
    <3>1. NodesOf(b, c) \cap Idle = {e}
      BY <2>2, <2>4
    <3>2. Cardinality({e}) = 1
      BY FS_Singleton
    <3> QED BY <2>3, <2>4, <3>1, <3>2 DEF Known
  <2>5. CASE e \notin Idle
    <3>1. NodesOf(b, c) \cap Idle = {}
      BY <2>2, <2>5
    <3>2. Cardinality({}) = 0
      BY FS_EmptySet
    <3> QED BY <2>3, <2>5, <3>1, <3>2 DEF Known
  <2> QED BY <2>4, <2>5
<1>5. CASE ~Leaf[b][c]
  <2> DEFINE x == Child[b][c]
  <2>1. x \in Branches /\ IsFather(b, x) /\ Exact(x)
    BY <1>5, TreeAssumption DEF TreeAssumption, IsFather
  <2>2. Father(x) # NoAddr
    BY <2>1, TreeAssumption DEF Father, TreeAssumption
  <2>3. info[x] # NoLinks /\ Joined(info[x]) = Cardinality(Below(x) \cap Idle)
    BY <2>1, ExactIsJoined
  <2>4. notified[x] # NoAddr /\ notified[x].n = Joined(info[x])
    BY <2>1, <2>2, <2>3 DEF ToldInv, ToldAll
  <2>5. LastSeq(b, c) = notified[x].seq /\ notified[x].seq # 0
    BY <1>5, <2>1, <2>4 DEF LastSeq, TypeInv, LinksInv
  <2>6. info[b][c] # NoAddr /\ info[b][c].n = notified[x].n
    BY <1>2, <1>5, <2>5 DEF Truth
  <2> QED BY <1>5, <2>3, <2>4, <2>6 DEF Known, NodesOf
<1> QED BY <1>4, <1>5

\* So when nothing is on its way all links are exact.
LEMMA SettledWhenQuiet ==
  ASSUME NoFaults, TypeInv, SeqInv, ToldInv, RightInv, Quiet
  PROVE  \A b \in Branches : Exact(b)
<1>1. PICK height \in [Branches -> 0 .. Cardinality(Branches)] :
        \A b \in Branches, c \in Sides : ~Leaf[b][c] => height[Child[b][c]] < height[b]
  BY TreeAssumption DEF TreeAssumption
<1>2. Cardinality(Branches) \in Nat
  BY Counts, TreeAssumption DEF TreeAssumption
<1>3. \A b \in Branches : height[b] \in Nat
  BY <1>1, <1>2
<1> DEFINE S == {height[b] : b \in {x \in Branches : ~Exact(x)}}
<1> SUFFICES ASSUME S # {} PROVE FALSE
  OBVIOUS
<1>4. S \in SUBSET Nat
  BY <1>3
<1>5. PICK k \in S : \A y \in S : k <= y
  BY <1>4, LeastNumber
<1>6. PICK b \in Branches : ~Exact(b) /\ height[b] = k
  BY <1>5
<1>7. ASSUME NEW c \in Sides, ~Leaf[b][c] PROVE Exact(Child[b][c])
  <2>1. Child[b][c] \in Branches /\ height[Child[b][c]] < k
    BY <1>1, <1>6, <1>7, TreeAssumption DEF TreeAssumption
  <2>2. SUFFICES ASSUME ~Exact(Child[b][c]) PROVE FALSE
    OBVIOUS
  <2>3. height[Child[b][c]] \in S
    BY <2>1, <2>2
  <2>4. k <= height[Child[b][c]] /\ k \in Nat /\ height[Child[b][c]] \in Nat
    BY <1>3, <1>4, <1>5, <2>1, <2>3
  <2> QED BY <2>1, <2>4
<1> QED BY <1>6, <1>7, ExactAbove

\* With no information nobody has told anything.
LEMMA SettleInit == NoFaults /\ Init => ToldInv /\ RightInv
<1> SUFFICES ASSUME NoFaults, Init PROVE ToldInv /\ RightInv
  OBVIOUS
<1>1. ToldInv
  BY DEF NoFaults, Init, ToldInv, ToldAll
<1>2. ASSUME NEW b \in Branches, NEW c \in Sides PROVE LastSeq(b, c) = 0
  <2>1. Child[b] \in [Sides -> Peers] /\ (~Leaf[b][c] => Child[b][c] \in Branches)
    BY TreeAssumption DEF TreeAssumption
  <2> QED BY <2>1 DEF Init, LastSeq
<1> QED BY <1>1, <1>2 DEF RightInv, Right

\* When the nodes tell their state first, nothing fails, updates are not
\* limited and no branch takes its father for a child, the counts of idle nodes
\* are exact whenever nothing is on its way: the guesses made when tasks were
\* sent are corrected (Dispatcher::recomputeFatherInfo, Link::update,
\* IBPDispatcher::handle).
THEOREM InformationAlwaysSettles ==
  ASSUME NoFaults, Unhindered PROVE Spec => []InformationSettles
<1> DEFINE SettleInv == TypeInv /\ CalmInv /\ SeqInv /\ ToldInv /\ RightInv
<1>1. Init => SettleInv
  BY TypeInit, SeqInit, SettleInit
<1>2. SettleInv /\ [Next]_vars => SettleInv'
  BY TypeNext, SeqNext, ToldNext, RightNext
<1>3. SettleInv => InformationSettles
  BY TypesFollow, SettledWhenQuiet DEF InformationSettles, Exact
<1> HIDE DEF SettleInv
<1> QED BY <1>1, <1>2, <1>3, PTL DEF Spec
=============================================================================
