------------------------------ MODULE Routing ------------------------------
(***************************************************************************)
(* How the dispatchers of the policies DP, MMP and FSP route a bag of      *)
(* tasks (DPDispatcher, MMPDispatcher, FSPDispatcher on                    *)
(* Dispatcher::sendTasks); IBP is in module Dispatcher.  A link knows one  *)
(* cluster of nodes below it: n, the nodes in it that are able to run the  *)
(* tasks (for DP, the tasks that end in time there), q, the time until the *)
(* end of their longest queue (MMP) or their slowness (FSP), to which      *)
(* every task adds one, and the range floor..top that goes with it.  The   *)
(* levels of an execution node are arbitrary; those of a branch are told   *)
(* to its father and to its children in one step, whenever they please.  A *)
(* Peer is an execution node or the branch of the same name: they share no *)
(* address.                                                                *)
(***************************************************************************)
EXTENDS Integers, Sequences, FiniteSets, TLC

CONSTANTS
  Policies,   \* the policies under study, of "DP", "MMP" and "FSP"
  Branches,   \* the branches
  Nodes,      \* the execution nodes
  NoAddr,     \* CommAddress(), and the null pointer
  Child,      \* Child[b][c]: child c of branch b
  Requests,   \* the requests that clients submit
  Client,     \* Client[r]: the node that submits it
  NumTasks,   \* NumTasks[r]: how many tasks it has
  TaskTime,   \* MMP: TaskTime[r]: the time that a node takes for one of its tasks
  Probe,      \* MMP: the queue lengths that the search tries: 300 s, 900 s, 2100 s...
  Levels,     \* the levels of execution nodes
  Slowest,    \* getSlowestMachine()
  Changing    \* bound: Changing[p]: the nodes whose state changes, once, with policy p

Sides == {0, 1}
Infinite == 60
NoLevel == -1

ASSUME RoutingAssumption ==
  /\ Policies \subseteq {"DP", "MMP", "FSP"}
  /\ Child \in [Branches -> [Sides -> Branches \cup Nodes]]
  /\ Client \in [Requests -> Nodes] /\ NumTasks \in [Requests -> Nat \ {0}]
  /\ TaskTime \in [Requests -> Nat \ {0}]
  /\ Probe \in Seq(Nat \ {0}) /\ Len(Probe) > 0
  /\ \A k \in 1 .. Len(Probe) - 1 : Probe[k + 1] = 2 * Probe[k] + Probe[1]
  /\ NoAddr \notin Branches \cup Nodes \cup [n : Nat, q : Nat, floor : Nat, top : Nat]
  /\ Levels \subseteq 0 .. Infinite \div 6 /\ Changing \in [Policies -> SUBSET Nodes]

VARIABLES
  policy,   \* the policy of this network
  info,     \* child[c].availInfo of each branch: [n, q, floor, top] or NoAddr
  zone,     \* the information of a branch, getBranchInfo(): its links or NoAddr
  told,     \* father.notifiedInfo
  up,       \* father.availInfo: the longest queue or the slowness of the rest
  cache,    \* DP: the requests a branch has routed down in the last 10 seconds
  net,      \* the bags on their way
  pending, done, lost, crashed,
  news      \* the nodes whose state may still change

vars == <<policy, info, zone, told, up, cache, net, pending, done, lost, crashed, news>>

IsLeaf(b, c) == Child[b][c] \in Nodes
Father(x) == IF \E b \in Branches, c \in Sides : Child[b][c] = x
             THEN CHOOSE b \in Branches : \E c \in Sides : Child[b][c] = x ELSE NoAddr

MaxOf(a, b) == IF a > b THEN a ELSE b
MinOf(a, b) == IF a < b THEN a ELSE b

Tasks == UNION {{r} \X (1 .. NumTasks[r]) : r \in Requests}
TasksOf(m) == {m.req} \X (m.first .. m.last)
Size(m) == m.last - m.first + 1

\* The sides about which something is known, and those with nodes of use.
Heard(links) == {c \in Sides : links[c] # NoAddr}
Useful(links) == {c \in Heard(links) : links[c].n > 0}

\* Dispatcher::recomputeFatherInfo
Joined(links) == IF Heard(links) = {} THEN NoAddr ELSE links

\* The highest of a zone: an empty summary is left out of a join unless both are.
Top(z) ==
  LET some == IF Useful(z) = {} THEN Heard(z) ELSE Useful(z) IN
  CHOOSE t \in {z[c].top : c \in some} : \A c \in some : z[c].top <= t

\* What the father is told of a zone: its only cluster.
Summary(z) ==
  LET some == IF Useful(z) = {} THEN Heard(z) ELSE Useful(z)
      N(c) == IF c \in Useful(z) THEN z[c].n ELSE 0 IN
  [n |-> N(0) + N(1),
   q |-> CHOOSE q \in {z[c].q : c \in some} : \A c \in some : z[c].q <= q,
   floor |-> CHOOSE f \in {z[c].floor : c \in some} : \A c \in some : f <= z[c].floor,
   top |-> Top(z)]

\* The longest queue or worst slowness in the rest of the tree, for child c:
\* MMPDispatcher::getChildInfo, FSPDispatcher::recomputeChildrenInfo.
RestOfTree(b, c) ==
  MaxOf(up[b], IF info[b][1 - c] = NoAddr THEN NoLevel ELSE info[b][1 - c].top)

-----------------------------------------------------------------------------
(* The division of a bag: links are what the dispatcher will know, num the *)
(* tasks for each child.                                                   *)

FromFather(m) == ~m.fromEN /\ Father(m.dst) = m.src

\* DPDispatcher::handle: groups of the nearest child first; the branch that has
\* sent the bag is left out, unless it comes from an execution node.
DPRoom(m, c) ==
  IF (m.fromEN \/ Child[m.dst][c] # m.src) /\ c \in Heard(info[m.dst]) THEN info[m.dst][c].n ELSE 0

DPDivision(m, first) ==
  LET here == MinOf(Size(m), DPRoom(m, first))
      num == [c \in Sides |-> IF c = first THEN here ELSE MinOf(Size(m) - here, DPRoom(m, c))] IN
  [num |-> num,
   links |-> [c \in Sides |-> IF num[c] = 0 THEN info[m.dst][c]
                              ELSE [info[m.dst][c] EXCEPT !.n = @ - num[c]]]]

\* Tasks of this time that one node of a cluster ends before d.
Fits(links, c, d, time) ==
  IF c \in Useful(links) /\ links[c].q < d THEN (d - links[c].q) \div time ELSE 0

\* MMPAvailabilityInformation::getAvailability counts a cluster as one node.
Counted(z, d, time) == Fits(z, 0, d, time) + Fits(z, 1, d, time)

\* Half the longest queue of the rest of the tree (beta).
Deadline(b) == MaxOf(up[b], 0) \div 2

LongestProbe == Probe[Len(Probe)]

\* The search of a queue length for a bag: the first probe with room for all
\* tasks, or the last one.  The bisection that follows probes min + d / 2
\* first, which is max again, and stops there.
Balanced(z, m) ==
  LET enough == {k \in DOMAIN Probe : Counted(z, Probe[k], TaskTime[m.req]) >= Size(m)} IN
  IF enough = {} THEN LongestProbe
  ELSE Probe[CHOOSE k \in enough : \A j \in enough : k <= j]

Raised(links, some, d) ==
  [c \in Sides |-> IF c \in some THEN [links[c] EXCEPT !.q = d] ELSE links[c]]

\* The variant that does not update the zone.
ZoneKept(z, d, time) == z

\* MMPAvailabilityInformation::updateAvailability
ZoneFilled(z, d, time) == Raised(z, {c \in Sides : Fits(z, c, d, time) > 0}, d)

\* MMPDispatcher::handle: every group with room for a task in one node is
\* filled up to queue length d.
MMPDivision(m, first, d) ==
  LET links == info[m.dst]
      time == TaskTime[m.req]
      Room(c) == IF Fits(links, c, d, time) = 0 THEN 0
                 ELSE (links[c].n * (d - links[c].q)) \div time
      here == MinOf(Size(m), Room(first))
      used == {c \in Sides : Room(c) > 0 /\ (c = first \/ here < Size(m))} IN
  [num |-> [c \in Sides |-> IF c = first THEN here ELSE MinOf(Size(m) - here, Room(c))],
   links |-> Raised(links, used, d), zone |-> ZoneFilled(zone[m.dst], d, time)]
MMPOutcomes(m) ==
  {MMPDivision(m, first, Balanced(zone[m.dst], m)) : first \in Sides}

\* FunctionVector::computeTasksPerFunction: in round k every cluster, the least
\* slow first, gets one more task per node, until there are enough.
Slowness(links, c, k) == MaxOf(links[c].q + k, links[c].floor)
Worse(links, first, k, c, d) ==
  \/ Slowness(links, c, k) > Slowness(links, d, k)
  \/ Slowness(links, c, k) = Slowness(links, d, k) /\ d = first
InTurn(links, first, i) ==
  LET k == (i - 1) \div Cardinality(Useful(links)) + 1
      place == (i - 1) % Cardinality(Useful(links)) IN
  CHOOSE c \in Useful(links) :
    Cardinality({d \in Useful(links) \ {c} : Worse(links, first, k, c, d)}) = place

AfterTurns(links, turn, i) ==
  LET per == [c \in Sides |-> Cardinality({j \in 1 .. i : turn[j] = c})] IN
  [per |-> per, worst |-> turn[i], slowness |-> Slowness(links, turn[i], per[turn[i]]),
   total |-> (IF per[0] > 0 THEN per[0] * links[0].n ELSE 0)
             + (IF per[1] > 0 THEN per[1] * links[1].n ELSE 0)]
Rounds(links, first, tasks) ==
  UNION {{AfterTurns(links, turn, i) : i \in 1 .. tasks}
           : turn \in {[i \in 1 .. tasks |-> InTurn(links, first, i)]}}
Enough(links, rounds, tasks) ==
  CHOOSE r \in rounds : r.total >= tasks /\ r.total - links[r.worst].n < tasks

\* FunctionVector::getMinimumSlowness
MinSlowness(links, r) == IF Useful(links) = {} THEN Infinite ELSE r.slowness

\* The variant that keeps a cluster while some node of it is not needed.
FSPKeepsRest(links, r, tasks) ==
  LET over(c) == IF c = r.worst THEN r.total - tasks ELSE 0 IN
  [num |-> [c \in Sides |-> IF r.per[c] = 0 THEN 0 ELSE r.per[c] * links[c].n - over(c)],
   links |-> [c \in Sides |->
     IF r.per[c] = 0 \/ over(c) > 0 THEN links[c] ELSE [links[c] EXCEPT !.n = 0]]]

\* computeTasksPerBranch, updateBranchSlowness and removeUsedClusters
FSPDivision(links, r, tasks) ==
  [num |-> [c \in Sides |-> IF r.per[c] = 0 THEN 0
                            ELSE r.per[c] * links[c].n - (IF c = r.worst THEN r.total - tasks ELSE 0)],
   links |-> [c \in Sides |->
     IF r.per[c] = 0 THEN links[c]
     ELSE LET s == Slowness(links, c, r.per[c]) IN
          [links[c] EXCEPT !.n = 0, !.floor = s, !.top = MaxOf(@, s)]]]

\* FSPDispatcher::mustGoDown
MustGoDown(m) == Father(m.dst) = NoAddr \/ FromFather(m)

\* FSPDispatcher::getSlownessLimit allows this slowness (beta = 0.4).
WithinLimit(b, slowness) ==
  5 * slowness <= 2 * MaxOf(IF up[b] = NoLevel THEN Top(zone[b]) ELSE up[b], Slowest)

-----------------------------------------------------------------------------
Bag(src, dst, m, first, last, fromEN, est) ==
  [src |-> src, dst |-> dst, req |-> m.req, first |-> first, last |-> last,
   fromEN |-> fromEN, est |-> est]

\* Dispatcher::sendTasks: the children first, the rest to the father.
ToChildren(m, num, est) ==
  LET First(c) == m.first + (IF c = 1 THEN num[0] ELSE 0) IN
  {Bag(m.dst, Child[m.dst][c], m, First(c), First(c) + num[c] - 1, FALSE, est)
     : c \in {d \in Sides : num[d] > 0}}

\* The variant that forgets what the right child got.
RestOfLeft(m, num) == [m EXCEPT !.first = @ + num[0]]

RestOf(m, num) == [m EXCEPT !.first = @ + num[0] + num[1]]

\* The bag m is gone, its tasks on their way to the children; those that are
\* left go to the father, are dropped, or stop the program at the sequence
\* number of information that is not there.
SendTasks(m, num, est, dontSendToFather) ==
  LET rest == RestOf(m, num)
      goes == Size(rest) > 0 /\ Father(m.dst) # NoAddr /\ ~dontSendToFather
      null == zone'[m.dst] = NoAddr IN
  /\ net' = (net \ {m}) \cup ToChildren(m, num, est) \cup
       (IF goes /\ ~null
        THEN {Bag(m.dst, Father(m.dst), m, rest.first, rest.last, FALSE, est)} ELSE {})
  /\ lost' = IF goes /\ ~null THEN lost ELSE lost \cup TasksOf(rest)
  /\ crashed' = IF goes /\ null THEN crashed \cup {m.dst} ELSE crashed

\* The whole bag m goes to the father as it is, but for fromEN.
SendUp(m, fromEN) ==
  /\ net' = (net \ {m}) \cup {Bag(m.dst, Father(m.dst), m, m.first, m.last, fromEN, m.est)}
  /\ UNCHANGED <<lost, crashed>>

Drop(m) == net' = net \ {m} /\ lost' = lost \cup TasksOf(m) /\ UNCHANGED crashed

Learn(b, links, z) ==
  info' = [info EXCEPT ![b] = links] /\ zone' = [zone EXCEPT ![b] = z]

\* DPDispatcher::handle of a request that it has routed recently
DPAgain(m) ==
  /\ m.req \in cache[m.dst]
  /\ IF Father(m.dst) = NoAddr THEN Drop(m) ELSE SendUp(m, m.fromEN)
  /\ UNCHANGED <<info, zone, cache>>

\* DPDispatcher::handle.  The rest goes to the father, also if it came from it.
DPHandle(m) ==
  /\ m.req \notin cache[m.dst]
  /\ cache' = [cache EXCEPT ![m.dst] = @ \cup {m.req}]
  /\ \E out \in {DPDivision(m, first) : first \in Sides} :
       /\ Learn(m.dst, out.links, Joined(out.links))
       /\ SendTasks(m, out.num, 0, FALSE)

\* MMPDispatcher::handle: not enough room before the deadline, to the father
MMPTooFew(m) ==
  /\ Father(m.dst) # NoAddr /\ ~FromFather(m)
  /\ Counted(zone[m.dst], Deadline(m.dst), TaskTime[m.req]) < Size(m)

MMPUp(m) == MMPTooFew(m) /\ SendUp(m, FALSE) /\ UNCHANGED <<info, zone, cache>>

\* MMPDispatcher::handle: the tasks that do not fit are dropped.
MMPDown(m) ==
  /\ ~MMPTooFew(m)
  /\ \E out \in MMPOutcomes(m) :
       /\ Learn(m.dst, out.links, out.zone)
       /\ SendTasks(m, out.num, 0, TRUE)
  /\ UNCHANGED cache

\* What FSPDispatcher::handle makes of a bag: too few nodes, too slow here, or
\* much slower than the father expected: nothing; otherwise the division.
FSPOutcome(m, links, r) ==
  LET min == MinSlowness(links, r)
      nodes == (IF 0 \in Useful(links) THEN links[0].n ELSE 0)
               + (IF 1 \in Useful(links) THEN links[1].n ELSE 0)
      stays == MustGoDown(m) \/ (nodes >= Size(m) /\ WithinLimit(m.dst, min))
      est == IF stays /\ ~FromFather(m) THEN min ELSE m.est IN
  IF Useful(links) = {} \/ ~stays \/ min > 2 * est
  THEN [num |-> [c \in Sides |-> 0], links |-> links, est |-> est]
  ELSE LET div == FSPDivision(links, r, Size(m)) IN
       [num |-> div.num, links |-> div.links, est |-> est]

FSPOutcomes(m) ==
  LET links == info[m.dst] IN
  IF Useful(links) = {} THEN {FSPOutcome(m, links, NoAddr)}
  ELSE {FSPOutcome(m, links, r) :
          r \in {Enough(links, Rounds(links, first, Size(m)), Size(m)) : first \in Sides}}

\* FSPDispatcher::handle: what is not divided goes to the father.
FSPHandle(m) ==
  /\ \E out \in FSPOutcomes(m) :
       /\ Learn(m.dst, out.links,
                IF out.links = info[m.dst] THEN zone[m.dst] ELSE Joined(out.links))
       /\ SendTasks(m, out.num, out.est, FALSE)
  /\ UNCHANGED cache

\* Dispatcher::checkState, which DPDispatcher does not call
HasInfo(b) == zone[b] # NoAddr

HandleBag(m) ==
  /\ m \in net /\ m.dst \in Branches \ crashed
  /\ \/ policy = "DP" /\ (DPAgain(m) \/ DPHandle(m))
     \/ policy = "MMP" /\ HasInfo(m.dst) /\ (MMPUp(m) \/ MMPDown(m))
     \/ policy = "FSP" /\ HasInfo(m.dst) /\ FSPHandle(m)
     \/ policy # "DP" /\ ~HasInfo(m.dst) /\ Drop(m) /\ UNCHANGED <<info, zone, cache>>
  /\ UNCHANGED <<policy, told, up, pending, done, news>>

\* REQUEST_CACHE_TIME has gone by.
Forget(b, r) ==
  /\ r \in cache[b] /\ cache' = [cache EXCEPT ![b] = @ \ {r}]
  /\ UNCHANGED <<policy, info, zone, told, up, net, pending, done, lost, crashed, news>>

-----------------------------------------------------------------------------
\* An execution node takes the tasks.
HandleNodeBag(m) ==
  /\ m \in net /\ m.dst \in Nodes
  /\ net' = net \ {m} /\ done' = done \cup TasksOf(m)
  /\ UNCHANGED <<policy, info, zone, told, up, cache, pending, lost, crashed, news>>

Submit(r) ==
  /\ r \in pending /\ pending' = pending \ {r}
  /\ net' = net \cup {Bag(Client[r], Father(Client[r]), [req |-> r], 1, NumTasks[r], TRUE, 0)}
  /\ UNCHANGED <<policy, info, zone, told, up, cache, done, lost, crashed, news>>

NodeInfos ==
  IF policy = "DP" THEN {[n |-> n, q |-> 0, floor |-> 0, top |-> 0] : n \in 0 .. 2}
  ELSE {[n |-> 1, q |-> l, floor |-> l, top |-> l] : l \in Levels}
       \cup {[n |-> 0, q |-> 0, floor |-> 0, top |-> 0]}

\* Dispatcher::handle(AvailabilityInformation) of child c
Hear(b, c, i) ==
  LET links == [info[b] EXCEPT ![c] = i] IN Learn(b, links, Joined(links))

\* An execution node tells its state.
NodeTells(b, c) ==
  /\ IsLeaf(b, c) /\ b \notin crashed /\ Child[b][c] \in news /\ news' = news \ {Child[b][c]}
  /\ \E i \in NodeInfos : i # info[b][c] /\ Hear(b, c, i)
  /\ UNCHANGED <<policy, told, up, cache, net, pending, done, lost, crashed>>

\* Link::sendUpdate to the father of b, if there is something to tell.
TellFather(b) ==
  LET f == Father(b) IN
  /\ f # NoAddr /\ {b, f} \cap crashed = {} /\ HasInfo(b) /\ zone[b] # told[b]
  /\ told' = [told EXCEPT ![b] = zone[b]]
  /\ \E c \in Sides : Child[f][c] = b /\ Hear(f, c, Summary(zone[b]))
  /\ UNCHANGED <<policy, up, cache, net, pending, done, lost, crashed, news>>

\* Link::sendUpdate to a child that is a branch.
TellChild(b, c) ==
  /\ policy # "DP" /\ ~IsLeaf(b, c) /\ {b, Child[b][c]} \cap crashed = {}
  /\ RestOfTree(b, c) \notin {NoLevel, up[Child[b][c]]}
  /\ up' = [up EXCEPT ![Child[b][c]] = RestOfTree(b, c)]
  /\ UNCHANGED <<policy, info, zone, told, cache, net, pending, done, lost, crashed, news>>

Init ==
  /\ policy \in Policies
  /\ info \in {i \in [Branches -> [Sides -> NodeInfos \cup {NoAddr}]] :
                 \A b \in Branches :
                   /\ \A c \in Sides : ~IsLeaf(b, c) => i[b][c] = NoAddr
                   /\ Heard(i[b]) = {} \/ \A c \in Sides : IsLeaf(b, c) => i[b][c] # NoAddr}
  /\ zone = [b \in Branches |-> Joined(info[b])]
  /\ told = [b \in Branches |-> NoAddr] /\ up = [b \in Branches |-> NoLevel]
  /\ cache = [b \in Branches |-> {}]
  /\ net = {} /\ pending = Requests /\ done = {} /\ lost = {} /\ crashed = {}
  /\ news = Changing[policy]

Receive == \E m \in net : HandleBag(m) \/ HandleNodeBag(m)

Next ==
  \/ Receive
  \/ \E r \in Requests : Submit(r)
  \/ \E b \in Branches, r \in Requests : Forget(b, r)
  \/ \E b \in Branches : TellFather(b) \/ \E c \in Sides : NodeTells(b, c) \/ TellChild(b, c)

\* Messages arrive.
Spec == Init /\ [][Next]_vars /\ WF_vars(Receive)
-----------------------------------------------------------------------------
\* Every task is in one place only: the three divisions and sendTasks neither
\* duplicate nor forget one.
EachTaskOnce ==
  \A t \in Tasks :
    Cardinality({r \in pending : r = t[1]}) + Cardinality({m \in net : t \in TasksOf(m)})
      + Cardinality({x \in done : x = t}) + Cardinality({x \in lost : x = t}) = 1

\* No bag goes up and down for ever: bags that the branch below returns
\* (DPDispatcher.cpp:72, FSPDispatcher.cpp:248) find less room every time.
EveryBagSettles == <>[](net = {} \/ crashed # {})

\* With MMP a dispatcher drops tasks (MMPDispatcher.cpp:176: "do not send up
\* remaining tasks") only where queues reach the end of the search, in 40000
\* years: the length found in its zone is enough for what it knows of its
\* children, which it changes apart.
DropsWithoutRoom ==
  \A m \in net \ net' :
    policy = "MMP" /\ m.dst \in Branches /\ HasInfo(m.dst) /\ lost' # lost =>
      \/ Counted(zone[m.dst], LongestProbe, TaskTime[m.req]) < Size(m)
      \/ \E c \in Useful(info[m.dst]) : info[m.dst][c].q = LongestProbe

\* Under each policy no step forgets a task or sends it twice, and none drops
\* one while there is room for it.
TasksAreNotWasted == [][EachTaskOnce' /\ DropsWithoutRoom]_vars
=============================================================================
