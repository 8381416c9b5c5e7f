------------------------------- MODULE Zones --------------------------------
(***************************************************************************)
(* What a branch of the overlay knows of its children: ZoneDescription     *)
(* (the interval of addresses below a child and how many structure nodes   *)
(* it says are available there) and TransactionalZoneDescription (the link *)
(* to the child and its zone, with the values they take if the transaction *)
(* in progress commits).  A list of children is kept in the order of       *)
(* compareZones: those without a zone first, then by lowest address.       *)
(***************************************************************************)
EXTENDS Integers, Sequences, SequencesExt

NoNode == 0                                \* CommAddress()
NoZone == [lo |-> 0, hi |-> 0, avail |-> 0]   \* the null pointer

\* The zone of a resource node says that its peer has a structure node to
\* offer: nothing calls ResourceNode::availabilityChanged.
ResourceZone(n) == [lo |-> n, hi |-> n, avail |-> 1]

Abs(k) == IF k < 0 THEN -k ELSE k
Least(S) == CHOOSE x \in S : \A y \in S : x <= y
Greatest(S) == CHOOSE x \in S : \A y \in S : x >= y

Covers(z, n) == z.lo <= n /\ n <= z.hi

DistanceTo(z, n) == IF n < z.lo THEN z.lo - n ELSE IF z.hi < n THEN n - z.hi ELSE 0

\* 0 when one zone contains the other, else up to the far end of the lower one
Distance(z, r) == IF r.hi < z.hi THEN IF r.lo < z.lo THEN z.hi - r.lo ELSE 0
                                 ELSE IF z.lo < r.lo THEN r.hi - z.lo ELSE 0

\* the highest power of two that is not above k
Rounded(k) == IF k = 0 THEN 0 ELSE Greatest({p \in {2 ^ i : i \in 0 .. k} : p <= k})

Aggregate(z, r) == [lo    |-> Least({z.lo, r.lo}),
                    hi    |-> Greatest({z.hi, r.hi}),
                    avail |-> Rounded(z.avail + r.avail)]

\* recomputeZone copies the first zone of the list and then aggregates the
\* whole list to it, the first one included: its nodes count twice.
AggregateAll(zones) == FoldLeft(Aggregate, zones[1], zones)

---------------------------------------------------------------------------
(* TransactionalZoneDescription *)

\* an entry of the list that setLink just made
Added(n) == [link |-> NoNode, newLink |-> n, zone |-> NoZone, newZone |-> NoZone,
             changing |-> TRUE, seq |-> 0]

\* an entry at rest
Child(n, zone, seq) == [link |-> n, newLink |-> NoNode, zone |-> zone, newZone |-> NoZone,
                        changing |-> FALSE, seq |-> seq]

ComesFrom(e, n) == n \in {e.link, e.newLink}
IsAddition(e) == e.changing /\ e.link = NoNode /\ e.newLink # NoNode
IsDeletion(e) == e.changing /\ e.link # NoNode /\ e.newLink = NoNode

CommittedEntry(e) == IF e.changing THEN Child(e.newLink, e.newZone, e.seq) ELSE e

\* The new values are not read before the entry changes again.
RolledBackEntry(e) == IF e.changing THEN Child(e.link, e.zone, e.seq) ELSE e

\* While an entry changes, its new link takes what both could take.
SetZoneFrom(e, n, zone) ==
  IF e.changing /\ e.newLink = n THEN [e EXCEPT !.newZone = zone]
  ELSE IF e.link = n THEN [e EXCEPT !.zone = zone] ELSE e

\* compareZones, where the order of two children without a zone, which nothing
\* can tell, is that of their links
Before(a, b) == \/ a.zone.lo < b.zone.lo
                \/ a.zone.lo = b.zone.lo /\ a.link < b.link
                \/ a.zone.lo = b.zone.lo /\ a.link = b.link /\ a.newLink < b.newLink

Sorted(children) == SortSeq(children, Before)

Known(e) == e.zone # NoZone

\* the children without a zone go first
AllKnown(children) == Known(children[1])

\* Where an insertion goes down: the closest zone, the last of equally close.
Closest(children, n) ==
  LET I == {i \in DOMAIN children : Known(children[i])}
      d(i) == DistanceTo(children[i].zone, n)
  IN Greatest({i \in I : \A j \in I : d(i) <= d(j)})

\* Where a search goes down: the zone that says to have most available nodes,
\* the first of equal ones.
MostAvailable(children) ==
  LET I == {i \in DOMAIN children : Known(children[i])}
      a(i) == children[i].zone.avail
  IN Least({i \in I : \A j \in I : a(i) >= a(j)})

\* The children a split gives to the new brother.  pos sorts the list by the
\* distance to a zone far from another one; then the code places its child i
\* at pos[i] (not the child pos[i] at i) and gives the upper half away.
Upper(children) ==
  LET I == DOMAIN children
      half == Len(children) \div 2
      d(i, j) == IF i = j THEN 0
                 ELSE Distance(children[Greatest({i, j})].zone, children[Least({i, j})].zone)
      longest == Greatest({0} \cup {d(i, j) : i, j \in I})
      far == IF longest = 0 THEN 1 ELSE Least({i \in I : \E j \in 1 .. i - 1 : d(i, j) = longest})
      Closer(i, j) == d(far, i) < d(far, j) \/ (d(far, i) = d(far, j) /\ i < j)
      pos == SortSeq([i \in I |-> i], Closer)
  IN {i \in I : pos[i] > half}
=============================================================================
