----------------------------- MODULE Clustering -----------------------------
(***************************************************************************)
(* How a branch of the tree is summed up.  The availability information of *)
(* each policy is a list of clusters; a node joins the lists of its        *)
(* children and reduces the result to a number of clusters with the        *)
(* algorithm of ClusteringList: each cluster keeps the K nearest of those  *)
(* that follow it, already aggregated with it, and a heap of these lists   *)
(* tells which pair to join next.  Joining a pair makes the distances of   *)
(* other lists stale; they are noticed by the number of nodes (v) they     *)
(* were calculated with.                                                   *)
(*                                                                         *)
(* The four policies differ in the dimensions of a cluster.  A function of *)
(* time (DP) or of length (FSP) is represented by its value at one point,  *)
(* and the integrals of its losses by their integrands there.  Parameters  *)
(* are integers, and distances are scaled to be so too (Scale).            *)
(***************************************************************************)
EXTENDS Integers, Sequences, FiniteSets, SequencesExt, FiniteSetsExt, TLC

CONSTANTS
    Cases,    \* [policy, numClusters, K, children: a sequence of sequences of nodes, later]
    Scale     \* a multiple of every number of nodes that a cluster may have

ASSUME ScaleAssumption == Scale \in Nat \ {0}

VARIABLES
    case,       \* what is being summed up
    todo,       \* the summaries of the children that have not been joined
    now,        \* the time, for the queues of MMP
    range,      \* for each dimension, the interval of its values
    summary,    \* the list of clusters
    lists,      \* VectorOfDistances: the K nearest of each cluster
    sumPool,    \* VectorOfDistances: the aggregated pairs
    heap,       \* VectorOfDistances: the lists that may still give a pair
    useFar,     \* VectorOfDistances: whether far clusters are considered
    joined,     \* clustersJoined in this round
    pc          \* join, reduce, populate, pop or done

vod == <<lists, sumPool, heap, useFar, joined>>
clusteringVars == <<case, todo, now, range, summary, vod, pc>>

(* What the clusters of each policy are made of: distance, far and aggregate *)
(* go through these, apart from what Distance and Far say of FSP.           *)
IBPDims == {"memory", "disk"}
MMPDims == {"memory", "disk", "power", "queue"}
DPDims  == {"memory", "disk", "avail"}
FSPDims == {"memory", "disk", "slowness"}

D == CASE case.policy = "IBP" -> IBPDims [] case.policy = "MMP" -> MMPDims
       [] case.policy = "DP"  -> DPDims  [] case.policy = "FSP" -> FSPDims

(* The root of the number of clusters that each policy takes (setNumClusters). *)
NumIntervals ==
    LET power == CASE case.policy = "IBP" -> 2 [] case.policy = "MMP" -> 4 [] OTHER -> 3
    IN  Max({i \in 1 .. case.numClusters : i ^ power <= case.numClusters})

-----------------------------------------------------------------------------
(* Parameters with their squared loss (mse) and its linear term. *)

Reduce(dim, a, b) ==
    IF dim \in {"queue", "slowness"} THEN Max({a, b}) ELSE Min({a, b})

(* ScalarParameter::aggregate, the same that DP does with memory and disk. *)
ScalarAggregate(dim, l, lcount, r, rcount) ==
    LET p == Reduce(dim, l.p, r.p)
        difference == p - l.p
        rdifference == p - r.p
    IN  [p |-> p,
         mse |-> l.mse + lcount * difference * difference + 2 * difference * l.lin
                 + r.mse + rcount * rdifference * rdifference + 2 * rdifference * r.lin,
         lin |-> l.lin + lcount * difference + r.lin + rcount * rdifference]

(* The minimum of two functions of availability: lin is accumMaxA, and the *)
(* loss adds the product with the accumulated maximum of the upper one.    *)
AvailAggregate(l, lcount, r, rcount) ==
    LET upper == IF l.p < r.p THEN [f |-> r, v |-> rcount] ELSE [f |-> l, v |-> lcount]
        n1 == upper.f.p - Min({l.p, r.p})
    IN  [p |-> Min({l.p, r.p}),
         mse |-> l.mse + r.mse + upper.v * n1 * n1 + n1 * upper.f.lin,
         lin |-> Max({l.lin, r.lin})]

(* The maximum of two functions of slowness, where the loss of the left    *)
(* one is counted twice ("accumZsq += accumZsq + ..."), and the sum of the *)
(* differences with the maximum (lin, accumZmax) begins with the function  *)
(* of the node itself.                                                     *)
SlownessAggregate(l, lcount, r, rcount) ==
    LET lower == IF l.p > r.p THEN [f |-> r, v |-> rcount] ELSE [f |-> l, v |-> lcount]
        diff == Max({l.p, r.p}) - lower.f.p
    IN  [p |-> Max({l.p, r.p}),
         mse |-> 2 * l.mse + r.mse + lower.v * diff * diff + 2 * diff * lower.f.lin,
         lin |-> l.lin + r.lin + lower.v * diff]

ParameterAggregate(dim, l, lcount, r, rcount) ==
    CASE dim = "avail"    -> AvailAggregate(l, lcount, r, rcount)
      [] dim = "slowness" -> SlownessAggregate(l, lcount, r, rcount)
      [] OTHER            -> ScalarAggregate(dim, l, lcount, r, rcount)

(* A cluster remembers (of) the nodes that were joined in it, for the properties. *)
Aggregate(l, r) ==
    [value |-> l.value + r.value,
     par |-> [dim \in DOMAIN l.par |->
                ParameterAggregate(dim, l.par[dim], l.value, r.par[dim], r.value)],
     of |-> l.of \union r.of]

-----------------------------------------------------------------------------
(* Intervals. *)

Point(x) == [min |-> x, max |-> x]

Extend(interval, r) ==
    [min |-> Min({interval.min, r.min}), max |-> Max({interval.max, r.max})]

SetMinimum(interval, current) ==
    [min |-> current, max |-> Max({interval.max, current})]

Extent(interval) == interval.max - interval.min

(* ScalarParameter::norm of the dimensions dims, scaled so that it is an integer. *)
Norms(c, dims) ==
    LET wide == {dim \in dims : Extent(range[dim]) # 0}
        Square(dim) == Extent(range[dim]) * Extent(range[dim])
        Others(dim) == MapThenFoldSet(LAMBDA a, b : a * b, 1, Square,
                                      LAMBDA s : CHOOSE x \in s : TRUE, wide \ {dim})
    IN  MapThenSumSet(LAMBDA dim : c.par[dim].mse * (Scale \div c.value) * Others(dim), wide)

NaN == -1

(* The distance between two clusters, given the aggregation of both.  In    *)
(* FSP the sum of everything is only the condition of a conditional        *)
(* operator: memory and disk do not count, and when every function of      *)
(* slowness is the same the result is zero divided by zero.                *)
Distance(sum) ==
    IF case.policy # "FSP" THEN Norms(sum, D)
    ELSE IF Extent(range["slowness"]) # 0
         THEN sum.par["slowness"].mse * (Scale \div sum.value)
         ELSE IF Norms(sum, {"memory", "disk"}) # 0 THEN NaN ELSE 0

(* An order of doubles: NaN is not comparable. *)
Less(a, b) == a # NaN /\ b # NaN /\ a < b

(* The cell of the grid where a cluster is, for a quick idea of distance. *)
GetInterval(dim, c) ==
    ((c.par[dim].p - range[dim].min) * NumIntervals) \div Extent(range[dim])

AvailInterval(c) ==
    LET d == c.par["avail"].p - range["avail"].min
    IN  (d * d * NumIntervals) \div (Extent(range["avail"]) * Extent(range["avail"]))

Far(a, b) ==
    \E dim \in D \ {"slowness"} :
      /\ Extent(range[dim]) # 0
      /\ IF dim = "avail" THEN AvailInterval(a) # AvailInterval(b)
                          ELSE GetInterval(dim, a) # GetInterval(dim, b)

-----------------------------------------------------------------------------
(* Joining the summaries of the children. *)

(* What a node says of itself (setQueueEnd, setAvailability and addNode). *)
NodeParameter(dim, x) ==
    [p |-> x, mse |-> 0, lin |-> IF dim \in {"avail", "slowness"} THEN x ELSE 0]

NodeCluster(node) ==
    [value |-> 1, par |-> [dim \in D |-> NodeParameter(dim, node[dim])], of |-> {node.id}]

(* Ranges are those of the first summary, extended by the others. *)
Extended(info, node) ==
    [dim \in D |-> IF info.summary = << >> THEN Point(node[dim])
                   ELSE Extend(info.range[dim], Point(node[dim]))]

(* Clusters are added at the end. *)
Appended(info, node) == Append(info.summary, NodeCluster(node))

(* In MMP they are merged by the end of the queue (list::merge, which       *)
(* expects both lists to be sorted).                                        *)
Merge(l, r) ==
    LET m[i \in 1 .. Len(l) + 1, j \in 1 .. Len(r) + 1] ==
          IF i > Len(l) THEN SubSeq(r, j, Len(r))
          ELSE IF j > Len(r) THEN SubSeq(l, i, Len(l))
          ELSE IF r[j].par["queue"].p < l[i].par["queue"].p THEN <<r[j]>> \o m[i, j + 1]
          ELSE <<l[i]>> \o m[i + 1, j]
    IN  m[1, 1]

(* MMP: a queue that ended in the past ends now. *)
Adjusted(c, t) ==
    IF c.par["queue"].p < t
    THEN [c EXCEPT !.par["queue"] = [p |-> t, mse |-> 0, lin |-> 0]]
    ELSE c

JoinMMP(info, node, t) ==
    LET all == Merge(info.summary, <<NodeCluster(node)>>)
        extended == Extended(info, node)
    IN  [summary |-> [i \in DOMAIN all |-> Adjusted(all[i], t)],
         range |-> IF extended["queue"].min < t
                   THEN [extended EXCEPT !["queue"] = SetMinimum(@, t)] ELSE extended]

JoinNode(info, node, t) ==
    IF case.policy = "MMP" THEN JoinMMP(info, node, t)
    ELSE [summary |-> Appended(info, node), range |-> Extended(info, node)]

Join ==
    /\ pc = "join" /\ todo # << >>
    /\ \E info \in {FoldLeft(LAMBDA i, node : JoinNode(i, node, now),
                             [summary |-> summary, range |-> range], Head(todo))} :
         summary' = info.summary /\ range' = info.range
    /\ todo' = Tail(todo)
    /\ pc' = "reduce"
    /\ UNCHANGED <<case, now, vod>>

-----------------------------------------------------------------------------
(* The algorithm of ClusteringList. *)

(* reduce and the entry of cluster: nothing to do under the limit. *)
ReduceSummary ==
    /\ pc = "reduce"
    /\ pc' = IF Len(summary) > case.numClusters THEN "populate" ELSE "join"
    /\ useFar' = FALSE
    /\ now' = IF pc' = "join" THEN now + case.later ELSE now
    /\ UNCHANGED <<case, todo, range, summary, lists, sumPool, heap, joined>>

(* DistanceList::add of the aggregation sum with cluster to.  The place of  *)
(* the pool that was free has the aggregation now, and the next one to     *)
(* use is the one after the last used, or the one of the pair evicted.     *)
Add(p, src, to) ==
    LET sum == Aggregate(summary[src], summary[to])
        d == Distance(sum)
        dsts == p.lists[src].dsts
        full == Len(dsts) = case.K
        top == IF p.top = p.free THEN p.top + 1 ELSE p.top
        kept == IF full THEN Front(dsts) ELSE dsts
        place == Max({0} \union {k \in DOMAIN kept : ~Less(d, kept[k].d)}) + 1
        entry == [d |-> d, v |-> summary[to].value, to |-> to, sum |-> p.free]
        pool == (p.free :> sum) @@ p.pool
    IN  IF full /\ ~Less(d, Last(dsts).d) THEN [p EXCEPT !.pool = pool]
        ELSE [lists |-> [p.lists EXCEPT ![src].dsts = InsertAt(kept, place, entry)],
              pool |-> pool,
              top |-> top,
              free |-> IF full THEN Last(dsts).sum ELSE top]

(* checkNumAdditions: fewer pairs than there are, so the far ones are taken  *)
(* from now on; with few clusters the unsigned difference wraps around.     *)
TooFewAdditions(all) ==
    LET n == Len(all)
        numAdditions == MapThenSumSet(LAMBDA i : Len(all[i].dsts), 1 .. n)
        numMissing == ((case.K + 1) * case.K) \div 2
    IN  n * case.K < numMissing \/ numAdditions < n * case.K - numMissing

(* VectorOfDistances::populate. *)
Populate ==
    /\ pc = "populate"
    /\ LET n == Len(summary)
           pairs == FlattenSeq([i \in 1 .. n |-> [k \in 1 .. n - i |-> <<i, i + k>>]])
           near == SelectSeq(pairs, LAMBDA q : useFar \/ ~Far(summary[q[1]], summary[q[2]]))
           empty == [lists |-> [i \in 1 .. n |-> [dsts |-> << >>, dst |-> 1, dirty |-> FALSE]],
                     pool |-> << >>, top |-> 0, free |-> 0]
       IN  \E p \in {FoldLeft(LAMBDA q, ij : Add(q, ij[1], ij[2]), empty, near)} :
             /\ lists' = p.lists
             /\ sumPool' = p.pool
             /\ heap' = {i \in 1 .. n : p.lists[i].dsts # << >>}
             /\ useFar' = (useFar \/ TooFewAdditions(p.lists))
    /\ joined' = 0
    /\ pc' = "pop"
    /\ UNCHANGED <<case, todo, now, range, summary>>

Entry(i) == lists[i].dsts[lists[i].dst]

(* Mutant of Consistent: a pair is joined as it was calculated. *)
ConsistentAlways(i) == TRUE

Consistent(i) == Entry(i).v = summary[Entry(i).to].value

(* The lists that can be at the top of the heap.  Without an order between *)
(* the distances, as when one is not a number, any of them can.            *)
Tops ==
    {i \in heap : \/ \E j \in heap : Entry(j).d = NaN
                  \/ \A j \in heap : ~Less(Entry(j).d, Entry(i).d)}

(* clustersJoined < numClusters, with something in the heap. *)
GoesOn == heap # {} /\ joined < Len(summary) - case.numClusters

(* The cluster of the list was joined into another one. *)
PopGone ==
    /\ pc = "pop" /\ GoesOn
    /\ \E i \in Tops :
         /\ summary[i].value = 0
         /\ heap' = heap \ {i}
    /\ UNCHANGED <<case, todo, now, range, summary, lists, sumPool, useFar, joined, pc>>

(* Mutant of UpdateDistance: the number of nodes is not taken again. *)
UpdateDistanceOnly(clusters, i, list) ==
    LET e == list.dsts[list.dst]
        sum == Aggregate(clusters[i], clusters[e.to])
    IN  /\ lists' = [lists EXCEPT ![i] = [list EXCEPT !.dsts[list.dst].d = Distance(sum)]]
        /\ sumPool' = [sumPool EXCEPT ![e.sum] = sum]

(* DistanceList::updateDistance of the pair that list points to. *)
UpdateDistance(clusters, i, list) ==
    LET e == list.dsts[list.dst]
        sum == Aggregate(clusters[i], clusters[e.to])
    IN  /\ lists' = [lists EXCEPT ![i] = [list EXCEPT !.dsts[list.dst].d = Distance(sum),
                                                      !.dsts[list.dst].v = clusters[e.to].value]]
        /\ sumPool' = [sumPool EXCEPT ![e.sum] = sum]

(* The other cluster has grown since the distance was calculated. *)
PopStale ==
    /\ pc = "pop" /\ GoesOn
    /\ \E i \in Tops :
         /\ summary[i].value > 0
         /\ summary[Entry(i).to].value > 0 /\ ~Consistent(i)
         /\ UpdateDistance(summary, i, lists[i])
    /\ UNCHANGED <<case, todo, now, range, summary, heap, useFar, joined, pc>>

(* DistanceList::advance and what follows it. *)
Advance(clusters, i, dirty) ==
    LET dsts == lists[i].dsts
        alive == {k \in lists[i].dst .. Len(dsts) : clusters[dsts[k].to].value > 0}
        list == [lists[i] EXCEPT !.dst = Min(alive), !.dirty = dirty]
        e == dsts[list.dst]
    IN  IF alive = {}
        THEN heap' = heap \ {i} /\ UNCHANGED <<lists, sumPool>>
        ELSE /\ heap' = heap
             /\ IF dirty \/ e.v # clusters[e.to].value
                THEN UpdateDistance(clusters, i, list)
                ELSE lists' = [lists EXCEPT ![i] = list] /\ UNCHANGED sumPool

(* Two clusters are joined in the place of the first one. *)
PopJoin ==
    /\ pc = "pop" /\ GoesOn
    /\ \E i \in Tops :
         /\ summary[i].value > 0
         /\ summary[Entry(i).to].value > 0 /\ Consistent(i)
         /\ summary' = [summary EXCEPT ![i] = sumPool[Entry(i).sum], ![Entry(i).to].value = 0]
         /\ Advance(summary', i, TRUE)
    /\ joined' = joined + 1
    /\ UNCHANGED <<case, todo, now, range, useFar, pc>>

(* The other cluster was joined into another one. *)
PopLost ==
    /\ pc = "pop" /\ GoesOn
    /\ \E i \in Tops :
         /\ summary[i].value > 0
         /\ summary[Entry(i).to].value = 0
         /\ Advance(summary, i, lists[i].dirty)
    /\ UNCHANGED <<case, todo, now, range, summary, useFar, joined, pc>>

(* purge, and another round if the limit has not been reached; without any *)
(* join it is given up.                                                    *)
EndRound ==
    /\ pc = "pop" /\ ~GoesOn
    /\ summary' = SelectSeq(summary, LAMBDA c : c.value > 0)
    /\ pc' = IF joined > 0 /\ Len(summary') > case.numClusters THEN "populate" ELSE "join"
    /\ now' = IF pc' = "join" THEN now + case.later ELSE now
    /\ heap' = {} /\ lists' = << >> /\ sumPool' = << >>
    /\ UNCHANGED <<case, todo, range, useFar, joined>>

-----------------------------------------------------------------------------
ClusteringStarts(c) ==
    /\ case = c
    /\ todo = c.children
    /\ now = 0
    /\ range = [dim \in D |-> Point(0)]
    /\ summary = << >>
    /\ lists = << >> /\ sumPool = << >> /\ heap = {}
    /\ useFar = FALSE /\ joined = 0
    /\ pc = "join"

ClusteringInit == \E c \in Cases : ClusteringStarts(c)

(* The summary is ready to be sent to the father. *)
Finished == pc = "join" /\ todo = << >> /\ UNCHANGED clusteringVars

ClusteringNext ==
    \/ Join \/ ReduceSummary \/ Populate
    \/ PopGone \/ PopStale \/ PopJoin \/ PopLost \/ EndRound
    \/ Finished

-----------------------------------------------------------------------------
(* Properties. *)

Live == {i \in DOMAIN summary : summary[i].value > 0}

Joined ==
    UNION {ToSet(case.children[g]) : g \in 1 .. Len(case.children) - Len(todo)}

(* Every node that was joined is in exactly one cluster, and clusters count *)
(* their nodes, also in the middle of a round where some clusters have     *)
(* been moved into others.                                                 *)
NothingIsLost ==
    /\ UNION {summary[i].of : i \in Live} = {node.id : node \in Joined}
    /\ \A i, j \in Live : i # j => summary[i].of \cap summary[j].of = {}
    /\ \A i \in Live : summary[i].value = Cardinality(summary[i].of)

(* The loss that a cluster keeps, computed pair by pair in the order of the *)
(* heap and several times where a pair was stale, is what can be computed  *)
(* from its nodes: the parameter is the least promise of them all, and mse *)
(* and lin are the sums of its squared and plain differences.  (Not so the *)
(* losses of the functions of DP and FSP, whose sums mean something else.) *)
StatisticsAreExact ==
    \A i \in Live :
      LET members == {node \in Joined : node.id \in summary[i].of}
      IN  \A dim \in D :
            LET par == summary[i].par[dim]
                values == {node[dim] : node \in members}
                Sum(f(_)) == MapThenSumSet(f, members)
            IN  CASE dim \in {"memory", "disk", "power"} ->
                       /\ par.p = Min(values)
                       /\ par.mse = Sum(LAMBDA node : (par.p - node[dim]) * (par.p - node[dim]))
                       /\ par.lin = Sum(LAMBDA node : par.p - node[dim])
                  [] dim = "avail" -> par.p = Min(values) /\ par.lin = Max(values)
                  [] dim = "slowness" ->
                       par.p = Max(values) /\ par.lin = par.p * Cardinality(members)
                  [] dim = "queue" ->
                       /\ par.p \in values \union 0 .. now /\ \A x \in values : par.p >= x
                       /\ (\A node \in Joined : node[dim] > now)
                            => par.mse = Sum(LAMBDA node : (par.p - node[dim]) * (par.p - node[dim]))

(* The aggregation that a list has at its head is that of the two clusters *)
(* as they are, unless the check of consistency says that it is not, and   *)
(* no two pairs that can be joined share a place of the pool.              *)
HeadsAreCurrent ==
    pc = "pop" =>
      /\ \A i \in heap \cap Live :
           summary[Entry(i).to].value > 0 /\ Consistent(i)
             => sumPool[Entry(i).sum] = Aggregate(summary[i], summary[Entry(i).to])
      /\ \A i, j \in heap :
           \A k \in lists[i].dst .. Len(lists[i].dsts), l \in lists[j].dst .. Len(lists[j].dsts) :
             lists[i].dsts[k].sum = lists[j].dsts[l].sum => <<i, k>> = <<j, l>>
      /\ DOMAIN sumPool \subseteq 0 .. Len(summary) * case.K

(* The summary of a branch is not as small as the number of clusters asked *)
(* for, since nothing is joined when all the clusters are far: it is       *)
(* bounded by the cells of the grid, whose last row is out of it.          *)
SizeIsBounded ==
    pc = "join" =>
      LET wide == {dim \in D \ {"slowness"} : Extent(range[dim]) # 0}
      IN  Len(summary) <= Max({case.numClusters, (NumIntervals + 1) ^ Cardinality(wide)})

SummariesAreSound ==
    /\ NothingIsLost
    /\ StatisticsAreExact
    /\ HeadsAreCurrent
    /\ SizeIsBounded

(* However stale the distances become, a reduction ends: every step lowers  *)
(* the clusters left, or the pairs of the lists, or the stale ones.        *)
Remaining == {q \in heap \X (1 .. case.K) : q[2] \in lists[q[1]].dst .. Len(lists[q[1]].dsts)}

Stale == {q \in Remaining : LET e == lists[q[1]].dsts[q[2]] IN e.v # summary[e.to].value}

Measure ==
    LET phase == CASE pc = "reduce" -> 3 [] pc = "populate" -> 2 [] pc = "pop" -> 1 [] pc = "join" -> 0
    IN  <<Len(todo), Len(summary), phase, Cardinality(Live), Cardinality(Remaining),
          Cardinality(Stale)>>

LexLess(a, b) ==
    \E k \in DOMAIN a : a[k] < b[k] /\ \A l \in 1 .. k - 1 : a[l] = b[l]

EveryStepIsProgress == [][LexLess(Measure', Measure)]_clusteringVars
=============================================================================
