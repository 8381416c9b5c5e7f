------------------------- MODULE CentralScheduler -------------------------
(***************************************************************************)
(* The centralized schedulers of the simulator (oldsim/                    *)
(* CentralizedScheduler.cpp) and the nodes that obey them                  *)
(* (SlaveLocalScheduler).  The central scheduler keeps a copy of the queue *)
(* of every node.  When an application arrives it adds its tasks to some   *)
(* queues, sorts them by deadline and sends each node its new tasks and    *)
(* the whole sequence; when it sees the message that a node sends for a    *)
(* finished task it takes away the first of its copy.  Between both the    *)
(* messages take any time.                                                 *)
(*                                                                         *)
(* Which nodes are better is left open: IBP chooses among empty queues,    *)
(* MMP and FSP may put any number of tasks in any node, and DP fills the   *)
(* holes that it finds, of any size.  Time is the number of applications   *)
(* that have arrived; a deadline is compared with it.                      *)
(***************************************************************************)
EXTENDS Integers, Sequences, FiniteSets

CONSTANTS
  Policies,    \* the policies under study: "blind", "IBP", "MMP", "DP", "FSP"
  NumNodes,    \* how many nodes there are
  NumTasks,    \* NumTasks[a]: the tasks of application a, in order of request id
  Length,      \* Length[a]: how long they are
  Due,         \* Due[a]: their deadline, for DP
  Slownesses,  \* the slowness that FSP may find for a node
  Room         \* bound: the tasks that fit in a hole, and what is left of it

Apps == 1 .. Len(NumTasks)
Nodes == 1 .. NumNodes

ASSUME CentralAssumption ==
  /\ Policies \subseteq {"blind", "IBP", "MMP", "DP", "FSP"}
  /\ NumNodes \in Nat \ {0} /\ NumTasks \in Seq(Nat \ {0})
  /\ Length \in [Apps -> Nat] /\ Due \in [Apps -> Nat]
  /\ Slownesses \subseteq Nat /\ Room \in Nat

VARIABLES
  policy,     \* the scheduler that createScheduler has built
  queues,     \* queues[n]: the tasks that it thinks are in node n, always sorted
  sequence,   \* rescheduleSequence
  arrived,    \* how many applications have arrived
  net,        \* the messages on their way, in no order
  tasks,      \* Scheduler::tasks of each node
  seq,        \* SlaveLocalScheduler::seq
  order,      \* SlaveLocalScheduler::taskSequence
  done,       \* the tasks that have finished
  peak        \* for the last application: the most holes that DP has had in its
              \* cache, and the tasks that fit in all the nodes

vars == <<policy, queues, sequence, arrived, net, tasks, seq, order, done, peak>>

\* A task is <<a, i>>: tid i of application a.
Elements(s) == {s[i] : i \in DOMAIN s}
TasksOf(queue) == {e.t : e \in queue}

\* The elements of a set in a sequence, by a strict order that is a set of pairs.
Arranged(S, R) ==
  [k \in 1 .. Cardinality(S) |->
     CHOOSE x \in S : Cardinality({y \in S : <<y, x>> \in R}) = k - 1]

-----------------------------------------------------------------------------
(* How many tasks each node gets.                                          *)

\* k[m] places in each node of S.
Slots(S, k) == UNION {{m} \X (1 .. k[m]) : m \in S}
Total(place) == Cardinality(Slots(Nodes, place))
Divisions(n) == {p \in [Nodes -> 0 .. n] : Total(p) = n}

MinOf(a, b) == IF a < b THEN a ELSE b

\* The variant that does not look whether the nodes are free.
IBPPlacesAnywhere(n) ==
  {[m \in Nodes |-> IF m \in some THEN 1 ELSE 0]
     : some \in {s \in SUBSET Nodes : Cardinality(s) = MinOf(n, NumNodes)}}

\* CentralizedIBP::newApp: one task to each of the best nodes with no queue.
IBPPlaces(n) ==
  LET usable == {m \in Nodes : queues[m] = {}} IN
  {[m \in Nodes |-> IF m \in some THEN 1 ELSE 0]
     : some \in {s \in SUBSET usable : Cardinality(s) = MinOf(n, Cardinality(usable))}}

\* A hole of DP: a node, the tasks that fit and the length that remains.
Holes == [tasks : 0 .. Room, remaining : 0 .. Room]
HoleBefore(g, h) ==
  g.remaining < h.remaining \/ (g.remaining = h.remaining /\ g.tasks < h.tasks)

Fits(holes) == [m \in Nodes |-> holes[m].tasks]
TasksIn(cache, holes) == Cardinality(Slots(cache, Fits(holes)))

\* The hole of o comes out of the heap before that of m.
IsWorse(holes, o, m) == HoleBefore(holes[m], holes[o]) \/ (holes[o] = holes[m] /\ o < m)
Better(cache, holes, m) == {o \in cache : IsWorse(holes, m, o)}

\* The worst holes are taken out while the others are enough with that of m.
Trimmed(cache, holes, m, n) ==
  {w \in cache : ~ (/\ HoleBefore(holes[m], holes[w])
                    /\ TasksIn(Better(cache, holes, w), holes) + holes[m].tasks >= n)}

\* The cache after node m is looked at.
WithHole(cache, holes, m, n) ==
  IF holes[m].tasks = 0 THEN cache
  ELSE IF TasksIn(cache, holes) < n THEN cache \cup {m}
  ELSE IF \E w \in cache : Better(cache, holes, w) = cache \ {w} /\ HoleBefore(holes[m], holes[w])
       THEN Trimmed(cache, holes, m, n) \cup {m} ELSE cache

\* The caches after the first k nodes are looked at.
Caches(holes, n) ==
  LET f[k \in 0 .. NumNodes] == IF k = 0 THEN {} ELSE WithHole(f[k - 1], holes, k, n) IN f

\* CentralizedDP::newApp: the tasks too many are those of the worst holes, so
\* that each hole gets what the better ones leave.
DPPlace(holes, cache, n) ==
  LET left(m) == n - TasksIn(Better(cache, holes, m), holes) IN
  [m \in Nodes |-> IF m \in cache /\ left(m) > 0 THEN MinOf(holes[m].tasks, left(m)) ELSE 0]

-----------------------------------------------------------------------------
(* The queues and the messages.                                            *)

\* TaskDesc::operator<
Before(e, f) ==
  \/ e.deadline < f.deadline
  \/ e.deadline = f.deadline /\ e.t[1] < f.t[1]
  \/ e.deadline = f.deadline /\ e.t[1] = f.t[1] /\ e.t[2] < f.t[2]

\* The deadline that each policy gives a task of a that was released then.
DeadlineOf(a, release, slowness) ==
  CASE policy = "DP" -> Due[a]
    [] policy = "FSP" -> release + slowness * Length[a]
    [] OTHER -> release

\* The queue of node m when it gets the tasks first .. first+k-1 of a.  FSP
\* changes all deadlines.
Extended(m, a, first, k, slowness) ==
  LET old == IF policy = "FSP"
             THEN {[e EXCEPT !.deadline = DeadlineOf(e.t[1], e.release, slowness)] : e \in queues[m]}
             ELSE queues[m] IN
  old \cup {[t |-> <<a, i>>, release |-> arrived, deadline |-> DeadlineOf(a, arrived, slowness)]
              : i \in first .. first + k - 1}

\* The tasks of a queue as sortQueue leaves them.
SortedTasks(queue) ==
  LET entries == Arranged(queue, {p \in queue \X queue : Before(p[1], p[2])}) IN
  [i \in DOMAIN entries |-> entries[i].t]

RescheduleMsg(m, a, first, k, s, sorted) ==
  [type |-> "reschedule", node |-> m, new |-> [i \in 1 .. k |-> <<a, first + i - 1>>],
   seq |-> s, order |-> sorted]
FinishedMsg(m, t) == [type |-> "finished", node |-> m, task |-> t]

\* The nodes get their tasks in the order of their numbers; IBP and DP go by
\* another order, which only changes the names of the tasks.

\* The tasks that go to nodes before m, and the messages sent before its own.
FirstFor(place, m) == 1 + Cardinality(Slots(1 .. m - 1, place))
MessagesBefore(place, m) == Cardinality({o \in 1 .. m - 1 : place[o] > 0})

\* newApp with this division of the tasks: sortQueue of every node that gets
\* some.  BlindScheduler sends the tasks alone and keeps no queue.
Allocate(a, place, slowness) ==
  LET used == {m \in Nodes : place[m] > 0}
      longer == [m \in Nodes |-> IF m \notin used THEN queues[m]
                 ELSE Extended(m, a, FirstFor(place, m), place[m], slowness[m])]
      blind == policy = "blind" IN
  /\ queues' = IF blind THEN queues ELSE longer
  /\ sequence' = IF blind THEN sequence ELSE sequence + Cardinality(used)
  /\ net' = net \cup
       {RescheduleMsg(m, a, FirstFor(place, m), place[m],
                      IF blind THEN 0 ELSE sequence + MessagesBefore(place, m),
                      IF blind THEN <<>> ELSE SortedTasks(longer[m])) : m \in used}

AnySlowness == IF policy = "FSP" THEN [Nodes -> Slownesses] ELSE {[m \in Nodes |-> 0]}

\* CentralizedScheduler::blockEvent of a request of a client
NewApp ==
  LET a == arrived + 1
      n == NumTasks[a] IN
  /\ arrived < Len(NumTasks) /\ arrived' = a
  /\ \/ /\ policy \in {"blind", "MMP", "FSP"}
        /\ \E place \in Divisions(n), slowness \in AnySlowness : Allocate(a, place, slowness)
        /\ UNCHANGED peak
     \/ /\ policy = "IBP"
        /\ \E place \in IBPPlaces(n) : Allocate(a, place, [m \in Nodes |-> 0])
        /\ UNCHANGED peak
     \/ /\ policy = "DP"
        /\ \E holes \in [Nodes -> Holes] :
             LET caches == Caches(holes, n) IN
             /\ Allocate(a, DPPlace(holes, caches[NumNodes], n), [m \in Nodes |-> 0])
             /\ peak' = [fits |-> Total(Fits(holes)),
                         holes |-> CHOOSE k \in 0 .. NumNodes :
                           /\ \E i \in 0 .. NumNodes : Cardinality(caches[i]) = k
                           /\ \A i \in 0 .. NumNodes : Cardinality(caches[i]) <= k]
  /\ UNCHANGED <<policy, tasks, seq, order, done>>

-----------------------------------------------------------------------------
(* The nodes.                                                              *)

\* SlaveLocalScheduler::reschedule: the tasks of the sequence that are here.
\* The nodes of the blind scheduler keep theirs in order.
Ordered(held, o) ==
  LET kept == {i \in DOMAIN o : o[i] \in Elements(held)}
      places == Arranged(kept, {p \in kept \X kept : p[1] < p[2]}) IN
  IF policy = "blind" THEN held ELSE [k \in DOMAIN places |-> o[places[k]]]

\* Scheduler::accept with SlaveLocalScheduler::acceptable
Reschedule(m) ==
  LET n == m.node
      newer == m.seq > seq[n]
      o == IF newer THEN m.order ELSE order[n] IN
  /\ m \in net /\ m.type = "reschedule" /\ net' = net \ {m}
  /\ seq' = IF newer THEN [seq EXCEPT ![n] = m.seq] ELSE seq
  /\ order' = [order EXCEPT ![n] = o]
  /\ tasks' = [tasks EXCEPT ![n] = Ordered(@ \o m.new, o)]
  /\ UNCHANGED <<policy, queues, sequence, arrived, done, peak>>

\* Scheduler::handle(TaskStateChgMsg): the first task, which runs, has ended.
TaskEnds(n) ==
  /\ tasks[n] # <<>>
  /\ done' = done \cup {Head(tasks[n])}
  /\ tasks' = [tasks EXCEPT ![n] = Ordered(Tail(@), order[n])]
  /\ net' = net \cup {FinishedMsg(n, Head(tasks[n]))}
  /\ UNCHANGED <<policy, queues, sequence, arrived, seq, order, peak>>

First(queue) == CHOOSE e \in queue : \A f \in queue \ {e} : Before(e, f)

\* CentralizedScheduler::taskFinished
TaskFinished(m) ==
  /\ m \in net /\ m.type = "finished" /\ net' = net \ {m}
  /\ queues' = IF queues[m.node] = {} THEN queues
               ELSE [queues EXCEPT ![m.node] = @ \ {First(@)}]
  /\ UNCHANGED <<policy, sequence, arrived, tasks, seq, order, done, peak>>

Init ==
  /\ policy \in Policies
  /\ queues = [n \in Nodes |-> {}] /\ sequence = 1 /\ arrived = 0
  /\ net = {} /\ done = {}
  /\ tasks = [n \in Nodes |-> <<>>]
  /\ seq = [n \in Nodes |-> 0] /\ order = [n \in Nodes |-> <<>>]
  /\ peak = [fits |-> 0, holes |-> 0]

Next ==
  \/ NewApp
  \/ \E m \in net : Reschedule(m) \/ TaskFinished(m)
  \/ \E n \in Nodes : TaskEnds(n)

Spec == Init /\ [][Next]_vars
-----------------------------------------------------------------------------
\* What is on its way to node n, and what it has told.
Coming(n) == UNION {Elements(m.new) : m \in {x \in net : x.type = "reschedule" /\ x.node = n}}
Told(n) == {m.task : m \in {x \in net : x.type = "finished" /\ x.node = n}}

\* With IBP the copy of a queue holds the tasks on their way to the node, those
\* that wait there and those that it has just finished: the task taken away is
\* always the one that has finished, whatever overtakes what.  The other
\* policies put more than one task in a queue, and there it fails: a second
\* RescheduleMsg that overtakes the first makes the node begin with another
\* task than the first of the copy.
QueueMirrorsNode ==
  policy = "IBP" =>
    \A n \in Nodes : TasksOf(queues[n]) = Coming(n) \cup Elements(tasks[n]) \cup Told(n)

\* No node has more to do than the central scheduler thinks, so that the
\* message of a finished task is always expected (CentralizedScheduler.cpp:77:
\* "Error: empty queue at"; CentralizedFSP::taskFinished reads the first of its
\* proxies without looking).
NeverThoughtFree ==
  policy # "blind" =>
    \A n \in Nodes :
      Cardinality(Coming(n)) + Len(tasks[n]) + Cardinality(Told(n)) <= Cardinality(queues[n])

\* What the central scheduler believes of every node is true enough for its
\* decisions: the copy of its queue, and that it is busy.
CopiesCanBeTrusted == QueueMirrorsNode /\ NeverThoughtFree

\* DP never has more holes in its array than tasks, for which there is room
\* (CentralizedScheduler.cpp:304), and as many tasks get a node as there is
\* room for, also when a hole is taken out for a better one.
HolesSuffice ==
  policy = "DP" /\ arrived > 0 =>
    /\ peak.holes <= NumTasks[arrived]
    /\ Cardinality({t \in (UNION {Coming(n) \cup Elements(tasks[n]) : n \in Nodes}) \cup done :
                      t[1] = arrived}) = MinOf(NumTasks[arrived], peak.fits)

\* The central scheduler decides with what is true of the nodes, and with as
\* much room as there is.
DecisionsHold == CopiesCanBeTrusted /\ HolesSuffice

=============================================================================
