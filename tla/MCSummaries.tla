---------------------------- MODULE MCSummaries ----------------------------
(* Small branches of the tree with the nodes of each policy, and the        *)
(* functions that DP and FSP make of small queues; each behaviour is of one *)
(* of the three.                                                           *)
EXTENDS Clustering, DeltaFunction, ZAReduction

Node(i, memory, disk, other) ==
    [id |-> i, memory |-> memory, disk |-> disk, power |-> 1 + (other % 2), queue |-> other,
     avail |-> other, slowness |-> other]

(* Three or four brothers, and then two more nodes. *)
Brothers(policy, clusters, k, later, n, memories, disks, others) ==
    {[policy |-> policy, numClusters |-> clusters, K |-> k, later |-> later,
      children |-> <<[i \in 1 .. n |-> Node(i, m[i], d[i], o[i])],
                     <<Node(5, 1, 0, 1), Node(6, 0, 1, 2)>> >>] :
       m \in [1 .. n -> memories], d \in [1 .. n -> disks], o \in [1 .. n -> others]}

MCCases ==
    UNION {Brothers("IBP", 2, k, 0, 4, {0, 1, 3}, {0, 1}, {0}) : k \in 1 .. 2}
    \union Brothers("IBP", 4, 2, 0, 4, {0, 2}, {0, 1}, {0})
    \union UNION {Brothers("MMP", c, 2, 2, 3, {0, 1}, {0}, {0, 1, 3}) : c \in 1 .. 2}
    \union Brothers("DP", 2, 2, 0, 3, {0, 2}, {0}, {1, 2, 4})
    \union Brothers("FSP", 1, 2, 0, 3, {0, 2}, {0}, {0, 2})

(* Nodes with no tasks, with one, with holes between them and with none. *)
T(dur, deadline) == [dur |-> dur, deadline |-> deadline]
Queues == {<< >>, <<T(4, 8)>>, <<T(4, 4), T(4, 16)>>, <<T(4, 8), T(4, 12), T(8, 24)>>,
           <<T(8, 8), T(4, 12), T(4, 32)>>}
MCExecNodes ==
    [power : {1}, queue : Queues] \union [power : {2}, queue : {<< >>, <<T(4, 4), T(4, 16)>>}]
MCGrid == {4 * i : i \in 0 .. 11}
MCTaskLengths == {4, 8}

Kind(a, late) == [a |-> a, late |-> late]
MCNewTasks == {Kind(2, 0), Kind(2, 3), Kind(3, 0), Kind(4, 2)}
MCPeers == {<< << >>, <<Kind(3, 1)>> >>, <<<<Kind(4, 0), Kind(2, 0)>>, <<Kind(2, 2), Kind(3, 0)>> >>}

Nothing == [policy |-> "IBP", numClusters |-> 1, K |-> 1, later |-> 0, children |-> << >>]

Init ==
    \/ ClusteringInit /\ DeltaIdle /\ ListIdle
    \/ DeltaInit /\ ClusteringStarts(Nothing) /\ ListIdle
    \/ ListInit /\ ClusteringStarts(Nothing) /\ DeltaIdle

Next ==
    \/ ClusteringNext /\ UNCHANGED <<deltaVars, listVars>>
    \/ DeltaNext /\ UNCHANGED <<clusteringVars, listVars>>
    \/ ListNext /\ UNCHANGED <<clusteringVars, deltaVars>>

Spec == Init /\ [][Next]_<<clusteringVars, deltaVars, listVars>>

(* What the functions of a node promise is what its queue allows, and the  *)
(* promise of a cluster is that of the poorest of its nodes: the work      *)
(* before each deadline for DP, and the slowness of each length for FSP.   *)
FunctionsPromiseWhatIs ==
    /\ ~DeltaIdle => PromisesAreKept /\ DifferencesAreRight /\ CombinationsAreRight
    /\ ~ListIdle => LeastSlowness /\ PromiseIsLeastSlowness /\ ClustersAreRight
=============================================================================
