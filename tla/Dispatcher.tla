----------------------------- MODULE Dispatcher -----------------------------
(***************************************************************************)
(* The tree of dispatchers that routes bags of tasks to execution nodes:   *)
(* Dispatcher<T> (include/Dispatcher.hpp) with the IBP policy              *)
(* (IBPDispatcher, IBPAvailabilityInformation, IBPScheduler).  Every peer  *)
(* has an execution node, a leaf of the tree; some also host a branch,     *)
(* whose dispatcher keeps for each child the number of idle nodes below    *)
(* and a sequence number.  An address is that of a peer, so that a branch  *)
(* and a node may share theirs.                                            *)
(*                                                                         *)
(* All nodes have the same memory and disk and there are no more of them   *)
(* than clusters in a summary, so that a summary is its number of nodes.   *)
(* The shape of the tree does not change: a change of the structure is     *)
(* seen by the dispatcher as startChanges and commitChanges.               *)
(***************************************************************************)
EXTENDS Integers, Sequences, FiniteSets

CONSTANTS
  Peers,       \* the addresses
  NoAddr,      \* CommAddress(), and the null pointer
  Branches,    \* the peers whose branch is in the network
  Child,       \* Child[b][c]: the address of child c of branch b
  Leaf,        \* Leaf[b][c]: that child is an execution node
  Requests,    \* the requests that clients submit
  Client,      \* Client[r]: the peer that submits r
  NumTasks,    \* NumTasks[r]: how many tasks it has
  Built,       \* the simulator built the dispatchers with their information
  Limited,     \* the bandwidth for updates is limited
  MaxRefresh,  \* bound: events that make an execution node tell its state again
  MaxFaults    \* bound: messages lost, peers that fail and changes of the structure

Sides == {0, 1}

IsFather(f, b) == \E c \in Sides : ~Leaf[f][c] /\ Child[f][c] = b
IsLeafFather(f, e) == \E c \in Sides : Leaf[f][c] /\ Child[f][c] = e

ASSUME TreeAssumption ==
  /\ NoAddr \notin Peers
  /\ Branches \subseteq Peers
  /\ Child \in [Branches -> [Sides -> Peers]]
  /\ Leaf \in [Branches -> [Sides -> BOOLEAN]]
  /\ \A b \in Branches : Child[b][0] # Child[b][1]
  /\ \A b \in Branches, c \in Sides : ~Leaf[b][c] => Child[b][c] \in Branches
  /\ \A e \in Peers : \E f \in Branches : IsLeafFather(f, e)
  /\ \A e \in Peers, f, g \in Branches : IsLeafFather(f, e) /\ IsLeafFather(g, e) => f = g
  /\ \A b, f, g \in Branches : IsFather(f, b) /\ IsFather(g, b) => f = g
  /\ IsFiniteSet(Peers)
  /\ \E height \in [Branches -> 0 .. Cardinality(Branches)] :
       \A b \in Branches, c \in Sides : ~Leaf[b][c] => height[Child[b][c]] < height[b]

Tasks == UNION {{r} \X (1 .. NumTasks[r]) : r \in Requests}

ASSUME RequestAssumption ==
  /\ Client \in [Requests -> Peers]
  /\ NumTasks \in [Requests -> Nat \ {0}]
  /\ NoAddr \notin Tasks \cup Nat \cup [n : Nat, seq : Nat]
  /\ {Built, Limited} \subseteq BOOLEAN
  /\ {MaxRefresh, MaxFaults} \subseteq Nat

\* branch.getFatherAddress() and leaf.getFatherAddress()
Father(b) == IF \E f \in Branches : IsFather(f, b)
             THEN CHOOSE f \in Branches : IsFather(f, b) ELSE NoAddr
LeafFather(e) == CHOOSE f \in Branches : IsLeafFather(f, e)

\* The branches in the tree below b, itself among them: those that are in every
\* set which has b in it and, with a branch, its children.
Under(b) ==
  {x \in Branches : \A S \in SUBSET Branches :
     b \in S /\ (\A y \in S, c \in Sides : ~Leaf[y][c] => Child[y][c] \in S) => x \in S}

\* The execution nodes below a branch.
Below(b) == {e \in Peers : \E x \in Under(b) : IsLeafFather(x, e)}
NodesOf(b, c) == IF Leaf[b][c] THEN {Child[b][c]} ELSE Below(Child[b][c])

VARIABLES
  info,      \* child[c].availInfo of each dispatcher: [n, seq], or NoAddr
  waiting,   \* father.waitingInfo: the number of nodes, or NoAddr
  notified,  \* father.notifiedInfo
  inChange,  \* the dispatchers whose links are changing
  delayed,   \* delayedUpdates
  hot,       \* the dispatchers whose nextUpdate has not come yet
  timer,     \* the dispatchers with updateTimer set
  running,   \* the task of each execution node, or NoAddr
  seqNum,    \* Scheduler::seqNum of each execution node
  net,       \* the messages on their way, in no order
  pending,   \* the requests not submitted yet
  done,      \* the finished tasks
  lost,      \* the tasks that were dropped
  crashed,   \* the peers stopped by a null pointer
  left       \* what is left of each bound

dispVars == <<info, waiting, notified, inChange, delayed, hot, timer>>
nodeVars == <<running, seqNum>>
vars == <<info, waiting, notified, inChange, delayed, hot, timer,
          running, seqNum, net, pending, done, lost, crashed, left>>

InfoMsg(src, dst, n, seq) ==
  [type |-> "info", src |-> src, dst |-> dst, n |-> n, seq |-> seq]
BagMsg(src, dst, r, first, last, forEN, fromEN) ==
  [type |-> "bag", src |-> src, dst |-> dst, req |-> r, first |-> first,
   last |-> last, forEN |-> forEN, fromEN |-> fromEN]
TasksOf(r, first, last) == {r} \X (first .. last)

-----------------------------------------------------------------------------
(* The information of a branch and its updates.                            *)

MinOf(a, b) == IF a < b THEN a ELSE b

\* The nodes a link knows of.
Known(i) == IF i = NoAddr THEN 0 ELSE i.n

\* Dispatcher::recomputeFatherInfo: the join of what the children say.
Joined(links) == IF \A c \in Sides : links[c] = NoAddr THEN NoAddr
                 ELSE Known(links[0]) + Known(links[1])

\* The variant without the sequence number.
IsAnything(i, seq) == TRUE

\* Link::update: information is only replaced by newer one.
IsNewer(i, seq) == i = NoAddr \/ i.seq < seq

\* The links of b after the update m.
Updated(b, links, m) ==
  [c \in Sides |->
     IF Child[b][c] = m.src /\ IsNewer(links[c], m.seq)
     THEN [n |-> m.n, seq |-> m.seq] ELSE links[c]]

\* The variant that does not count.
SameSeq(last) == 1

\* Link::updateSequenceNumber
NextSeq(last) == IF last = NoAddr THEN 1 ELSE last.seq + 1

\* The bandwidth limit holds back the updates of b.
MustWait(b) == b \in hot \cup timer

\* Link::sendUpdate: w is told to the father if it differs from what it was
\* last told.
IsNews(b, w, last) ==
  Father(b) # NoAddr /\ w # NoAddr /\ (last = NoAddr \/ last.n # w)

\* What notify leaves waiting and notified, and what it sends.
Notified(b, w, last, blocked) ==
  IF ~blocked /\ IsNews(b, w, last)
  THEN [waiting |-> NoAddr, notified |-> [n |-> w, seq |-> NextSeq(last)],
        msgs |-> {InfoMsg(b, Father(b), w, NextSeq(last))}]
  ELSE [waiting |-> w, notified |-> last, msgs |-> {}]

\* The effect of Dispatcher::notify, out, on the dispatcher.
Notify(b, out) ==
  /\ waiting' = [waiting EXCEPT ![b] = out.waiting]
  /\ notified' = [notified EXCEPT ![b] = out.notified]
  /\ hot' = IF out.msgs # {} /\ Limited THEN hot \cup {b} ELSE hot

\* notify programs the timer when it has to wait.
SetUpdateTimer(b) == timer' = IF MustWait(b) THEN timer \cup {b} ELSE timer

\* Dispatcher::handle(AvailabilityInformation): delayed in a change, ignored
\* when it comes from none of the children.
HandleInfo(m) ==
  LET b == m.dst
      links == Updated(b, info[b], m)
      w == IF links # info[b] THEN Joined(links) ELSE waiting[b]
      out == Notified(b, w, notified[b], MustWait(b)) IN
  /\ m \in net /\ m.type = "info" /\ b \in Branches \ crashed
  /\ \/ /\ b \in inChange
        /\ delayed' = [delayed EXCEPT ![b] = Append(@, m)]
        /\ net' = net \ {m}
        /\ UNCHANGED <<info, waiting, notified, hot, timer>>
     \/ /\ b \notin inChange
        /\ info' = [info EXCEPT ![b] = links]
        /\ Notify(b, out) /\ SetUpdateTimer(b)
        /\ net' = (net \ {m}) \cup out.msgs
        /\ UNCHANGED delayed
  /\ UNCHANGED <<inChange, nodeVars, pending, done, lost, crashed, left>>

\* nextUpdate comes.
Cool(b) ==
  /\ b \in hot /\ hot' = hot \ {b}
  /\ UNCHANGED <<info, waiting, notified, inChange, delayed, timer, nodeVars,
                 net, pending, done, lost, crashed, left>>

\* Dispatcher::handle(UpdateTimer)
HandleUpdateTimer(b) ==
  LET out == Notified(b, waiting[b], notified[b], b \in inChange) IN
  /\ b \in timer \ (hot \cup crashed)
  /\ Notify(b, out)
  /\ timer' = timer \ {b}
  /\ net' = net \cup out.msgs
  /\ UNCHANGED <<info, inChange, delayed, nodeVars, pending, done, lost, crashed, left>>

\* OverlayBranchObserver::startChanges
StartChanges(b) ==
  /\ left.faults > 0 /\ b \in Branches \ (inChange \cup crashed)
  /\ left' = [left EXCEPT !.faults = @ - 1]
  /\ inChange' = inChange \cup {b}
  /\ UNCHANGED <<info, waiting, notified, delayed, hot, timer, nodeVars,
                 net, pending, done, lost, crashed>>

\* The links after the delayed updates are handled in order.
AfterDelayed(b, links, msgs) ==
  LET f[k \in 0 .. Len(msgs)] ==
        IF k = 0 THEN links ELSE Updated(b, f[k - 1], msgs[k])
  IN f[Len(msgs)]

NoLinks == [c \in Sides |-> NoAddr]

\* Dispatcher::commitChanges, as StructureNode::commit (fatherChanged) and
\* rollback call it: the links of the children always start anew.
CommitChanges(b, fatherChanged) ==
  LET links == AfterDelayed(b, NoLinks, delayed[b])
      out == Notified(b, Joined(links),
                      IF fatherChanged THEN NoAddr ELSE notified[b], MustWait(b)) IN
  /\ b \in inChange \ crashed
  /\ inChange' = inChange \ {b}
  /\ delayed' = [delayed EXCEPT ![b] = <<>>]
  /\ info' = [info EXCEPT ![b] = links]
  /\ Notify(b, out) /\ SetUpdateTimer(b)
  /\ net' = net \cup out.msgs
  /\ UNCHANGED <<nodeVars, pending, done, lost, crashed, left>>

-----------------------------------------------------------------------------
(* Bags of tasks.                                                          *)

\* IBPDispatcher::handle ignores the zone that has sent the bag, unless it
\* comes from an execution node, and zones without information.
Usable(m, c) == m.fromEN \/ Child[m.dst][c] # m.src
Room(m, c) == IF Usable(m, c) THEN Known(info[m.dst][c]) ELSE 0

\* The tasks that each child gets, its nodes being used first.
Division(m, first) ==
  LET total == m.last - m.first + 1
      taken == MinOf(total, Room(m, first)) IN
  [c \in Sides |-> IF c = first THEN taken ELSE MinOf(total - taken, Room(m, c))]

\* The information left after sending these tasks.
Taken(links, num) ==
  [c \in Sides |-> IF num[c] > 0 THEN [links[c] EXCEPT !.n = @ - num[c]] ELSE links[c]]

\* The variant that forgets the second child when the rest goes to the father.
FirstAfter0(m, num, c) == m.first + (IF c > 0 THEN num[0] ELSE 0)

\* The variant that skips a task after those of each child.
FirstPastNext(m, num, c) ==
  m.first + (IF c > 0 THEN num[0] + 1 ELSE 0) + (IF c > 1 THEN num[1] + 1 ELSE 0)

\* The first task that sendTasks gives to child c, or to the father (c = 2).
FirstOf(m, num, c) ==
  m.first + (IF c > 0 THEN num[0] ELSE 0) + (IF c > 1 THEN num[1] ELSE 0)

ToChildren(m, num) ==
  {BagMsg(m.dst, Child[m.dst][c], m.req, FirstOf(m, num, c), FirstOf(m, num, c) + num[c] - 1,
          Leaf[m.dst][c], FALSE) : c \in {d \in Sides : num[d] > 0}}

\* The rest of the tasks goes to the father unless the bag came from there.
GoesUp(m) == Father(m.dst) # NoAddr /\ Father(m.dst) # m.src

\* IBPDispatcher::handle(TaskBagMsg) and Dispatcher::sendTasks.  Groups are
\* equally good, so that those of the nearest child go first.  The copy for
\* the father reads the sequence number of information that may be null.
HandleBag(m, nearest) ==
  LET b == m.dst
      num == Division(m, nearest)
      links == Taken(info[b], num)
      w == IF links # info[b] THEN Joined(links) ELSE waiting[b]
      out == Notified(b, w, notified[b], MustWait(b) \/ b \in inChange)
      next == FirstOf(m, num, 2)
      rest == TasksOf(m.req, next, m.last)
      nullInfo == out.waiting = NoAddr /\ out.notified = NoAddr IN
  /\ m \in net /\ m.type = "bag" /\ ~m.forEN /\ b \in Branches \ crashed
  /\ info' = [info EXCEPT ![b] = links]
  /\ Notify(b, out) /\ SetUpdateTimer(b)
  /\ net' = (net \ {m}) \cup out.msgs \cup ToChildren(m, num) \cup
            (IF rest # {} /\ GoesUp(m) /\ ~nullInfo
             THEN {BagMsg(b, Father(b), m.req, next, m.last, FALSE, FALSE)} ELSE {})
  /\ lost' = IF GoesUp(m) /\ ~nullInfo THEN lost ELSE lost \cup rest
  /\ crashed' = IF rest # {} /\ GoesUp(m) /\ nullInfo THEN crashed \cup {b} ELSE crashed
  /\ UNCHANGED <<inChange, delayed, nodeVars, pending, done, left>>

-----------------------------------------------------------------------------
(* The execution nodes and the clients.                                    *)

\* Scheduler::notifySchedule of node e, which runs t
NodeInfo(e, t) ==
  InfoMsg(e, LeafFather(e), IF t = NoAddr THEN 1 ELSE 0, seqNum[e] + 1)

\* Scheduler::handle(TaskBagMsg) with IBPScheduler: an idle node accepts the
\* first task, the others are dropped.
HandleNodeBag(m) ==
  LET e == m.dst
      t == <<m.req, m.first>> IN
  /\ m \in net /\ m.type = "bag" /\ m.forEN /\ e \notin crashed
  /\ \/ /\ running[e] = NoAddr
        /\ running' = [running EXCEPT ![e] = t]
        /\ seqNum' = [seqNum EXCEPT ![e] = @ + 1]
        /\ net' = (net \ {m}) \cup {NodeInfo(e, t)}
        /\ lost' = lost \cup (TasksOf(m.req, m.first, m.last) \ {t})
     \/ /\ running[e] # NoAddr
        /\ net' = net \ {m}
        /\ lost' = lost \cup TasksOf(m.req, m.first, m.last)
        /\ UNCHANGED nodeVars
  /\ UNCHANGED <<dispVars, pending, done, crashed, left>>

\* Scheduler::handle(TaskStateChgMsg): the task ends
FinishTask(e) ==
  /\ running[e] # NoAddr /\ e \notin crashed
  /\ running' = [running EXCEPT ![e] = NoAddr]
  /\ done' = done \cup {running[e]}
  /\ seqNum' = [seqNum EXCEPT ![e] = @ + 1]
  /\ net' = net \cup {NodeInfo(e, NoAddr)}
  /\ UNCHANGED <<dispVars, pending, lost, crashed, left>>

\* Any other event of the scheduler ends in notifySchedule too, among them
\* fatherChanged, when the node enters the network.
Refresh(e) ==
  /\ e \notin crashed /\ left.refresh[e] > 0
  /\ left' = [left EXCEPT !.refresh[e] = @ - 1]
  /\ seqNum' = [seqNum EXCEPT ![e] = @ + 1]
  /\ net' = net \cup {NodeInfo(e, running[e])}
  /\ UNCHANGED <<dispVars, running, pending, done, lost, crashed>>

Idle == {e \in Peers : running[e] = NoAddr}

\* Nothing is going on but the execution of tasks.
Quiet ==
  /\ net = {} /\ timer = {} /\ inChange = {} /\ crashed = {}
  /\ Built \/ \A e \in Peers : seqNum[e] > 0

\* SubmissionNode::sendRequest
Submit(r) ==
  /\ r \in pending /\ Client[r] \notin crashed
  /\ pending' = pending \ {r}
  /\ net' = net \cup {BagMsg(Client[r], LeafFather(Client[r]), r, 1, NumTasks[r], FALSE, TRUE)}
  /\ UNCHANGED <<dispVars, nodeVars, done, lost, crashed, left>>

\* NetworkManager could not send a message.
Lose(m) ==
  /\ m \in net /\ left.faults > 0
  /\ left' = [left EXCEPT !.faults = @ - 1]
  /\ net' = net \ {m}
  /\ lost' = IF m.type = "bag" THEN lost \cup TasksOf(m.req, m.first, m.last) ELSE lost
  /\ UNCHANGED <<dispVars, nodeVars, pending, done, crashed>>

\* StarsNode::fail: the scheduler and the dispatcher of p are new objects. The
\* constructor of IBPScheduler tells the father, if the node has one yet, that p
\* is idle, and numbers its updates from 1 again.
Fail(p) ==
  /\ left.faults > 0 /\ p \notin crashed
  /\ left' = [left EXCEPT !.faults = @ - 1]
  /\ running' = [running EXCEPT ![p] = NoAddr]
  /\ lost' = IF running[p] = NoAddr THEN lost ELSE lost \cup {running[p]}
  /\ IF Built \/ seqNum[p] > 0
     THEN /\ seqNum' = [seqNum EXCEPT ![p] = 1]
          /\ net' = net \cup {InfoMsg(p, LeafFather(p), 1, 1)}
     ELSE UNCHANGED <<seqNum, net>>
  /\ IF p \in Branches
     THEN /\ info' = [info EXCEPT ![p] = NoLinks]
          /\ waiting' = [waiting EXCEPT ![p] = NoAddr]
          /\ notified' = [notified EXCEPT ![p] = NoAddr]
          /\ delayed' = [delayed EXCEPT ![p] = <<>>]
     ELSE UNCHANGED <<info, waiting, notified, delayed>>
  /\ inChange' = inChange \ {p}
  /\ hot' = hot \ {p}
  /\ timer' = timer \ {p}
  /\ UNCHANGED <<pending, done, crashed>>

-----------------------------------------------------------------------------
\* PolicyFactoryDist::buildDispatcher: a leaf has told nothing yet, a branch
\* has its number of nodes waiting, with sequence number 1.
BuiltLinks(b) ==
  [c \in Sides |-> [n |-> Cardinality(NodesOf(b, c)), seq |-> IF Leaf[b][c] THEN 0 ELSE 1]]

Init ==
  /\ info = [b \in Branches |-> IF Built THEN BuiltLinks(b) ELSE NoLinks]
  /\ waiting = [b \in Branches |-> IF Built THEN Joined(BuiltLinks(b)) ELSE NoAddr]
  /\ notified = [b \in Branches |-> NoAddr]
  /\ inChange = {} /\ hot = {} /\ timer = {}
  /\ delayed = [b \in Branches |-> <<>>]
  /\ running = [e \in Peers |-> NoAddr]
  /\ seqNum = [e \in Peers |-> 0]
  /\ net = {} /\ pending = Requests /\ done = {} /\ lost = {} /\ crashed = {}
  /\ left = [refresh |-> [e \in Peers |-> MaxRefresh], faults |-> MaxFaults]

Receive(m) ==
  \/ HandleInfo(m)
  \/ \E c \in Sides : HandleBag(m, c)
  \/ HandleNodeBag(m)

Next ==
  \/ \E m \in net : Receive(m)
  \/ \E b \in Branches : Cool(b) \/ HandleUpdateTimer(b)
  \/ \E b \in Branches : StartChanges(b) \/ CommitChanges(b, TRUE) \/ CommitChanges(b, FALSE)
  \/ \E e \in Peers : FinishTask(e) \/ Refresh(e) \/ Fail(e)
  \/ \E r \in Requests : Submit(r)
  \/ \E m \in net : Lose(m)

Spec == Init /\ [][Next]_vars

\* Messages arrive, time passes and tasks end.
Fairness ==
  /\ WF_vars(\E m \in net : Receive(m))
  /\ \A b \in Branches : WF_vars(Cool(b)) /\ WF_vars(HandleUpdateTimer(b))
  /\ \A e \in Peers : WF_vars(FinishTask(e))

FairSpec == Spec /\ Fairness
-----------------------------------------------------------------------------
InfoMsgs == {m \in net : m.type = "info"}
BagMsgs == {m \in net : m.type = "bag"}

\* The variables stay in their types, messages go from one end of a link to
\* the other, and bags are intervals of the tasks of a request.
TypeOK ==
  /\ \A b \in Branches, c \in Sides :
       info[b][c] # NoAddr => info[b][c].n \in Nat /\ info[b][c].seq \in Nat
  /\ \A b \in Branches :
       /\ waiting[b] # NoAddr => waiting[b] \in Nat
       /\ notified[b] # NoAddr => notified[b].n \in Nat /\ notified[b].seq \in Nat \ {0}
       /\ \A k \in DOMAIN delayed[b] : delayed[b][k].dst = b
  /\ inChange \cup hot \cup timer \subseteq Branches /\ crashed \subseteq Branches
  /\ \A e \in Peers : running[e] # NoAddr => running[e] \in Tasks
  /\ seqNum \in [Peers -> Nat]
  /\ \A m \in InfoMsgs : IsFather(m.dst, m.src) \/ IsLeafFather(m.dst, m.src)
  /\ \A m \in BagMsgs :
       1 <= m.first /\ m.first <= m.last /\ m.last <= NumTasks[m.req]
  /\ pending \subseteq Requests /\ done \cup lost \subseteq Tasks

\* Every task is always in exactly one place: its request is not submitted,
\* or it is in one bag, runs in one node, has finished or was dropped.  The
\* division of bags among children and father never duplicates nor forgets
\* one (Dispatcher::sendTasks, Scheduler::handle(TaskBagMsg)).
TasksAreInOnePlace ==
  \A t \in Tasks :
    Cardinality({r \in pending : r = t[1]})
      + Cardinality({m \in BagMsgs : t \in TasksOf(m.req, m.first, m.last)})
      + Cardinality({e \in Peers : running[e] = t})
      + Cardinality({x \in done : x = t}) + Cardinality({x \in lost : x = t}) = 1

\* No link ever counts more nodes than there are below it, whatever is lost,
\* fails, changes or comes late.
NoInventedNodes ==
  \A b \in Branches, c \in Sides : Known(info[b][c]) <= Cardinality(NodesOf(b, c))

\* Neither tasks nor nodes appear or disappear where bags are divided and
\* information is summed up.
NothingIsInvented == TasksAreInOnePlace /\ NoInventedNodes

\* When nothing is on its way every dispatcher knows how many idle nodes
\* there are below each child: guesses made when tasks were sent are corrected
\* and no update is lost (AvailabilityInformation.hpp:31: "This information is
\* used to locate how many tasks can be sent to a certain set of nodes").
InformationSettles ==
  TypeOK /\ (Quiet => \A b \in Branches, c \in Sides :
             Known(info[b][c]) = Cardinality(NodesOf(b, c) \cap Idle))

\* The message holds what its sender has told last.
IsLatest(m) ==
  IF IsLeafFather(m.dst, m.src) THEN m.seq = seqNum[m.src]
  ELSE notified[m.src] # NoAddr /\ m.seq = notified[m.src].seq

\* The latest information of a child is not taken for an old one
\* (AvailabilityInformation.hpp:43: "It must be greater than the last message
\* received").
NewsIsUsed ==
  [][\A m \in InfoMsgs \ net' :
       IsLatest(m) /\ m.dst \notin inChange /\ left' = left =>
         \E c \in Sides : Child[m.dst][c] = m.src /\ info'[m.dst][c] = [n |-> m.n, seq |-> m.seq]]_vars

\* No bag wanders for ever: every task submitted ends, or is dropped, unless a
\* peer has stopped at a null pointer.
EveryTaskSettles ==
  \A t \in Tasks : t[1] \notin pending ~> t \in done \cup lost \/ crashed # {}
=============================================================================
