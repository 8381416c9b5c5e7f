----------------------------- MODULE Simulation -----------------------------
(***************************************************************************)
(* The engine of the simulator (oldsim/Simulator.cpp): one queue of events *)
(* in the order of their times, the links of the nodes (NetworkInterface), *)
(* the timers of their communication layers, which are events of the queue *)
(* too (oldsim/StarsNode.cpp), the simulated tasks (SimTask.cpp) with the  *)
(* scheduler that runs the first one, and the failures of nodes            *)
(* (FailureGenerator.cpp).                                                 *)
(*                                                                         *)
(* What the services do with a message is left open: they do at most one   *)
(* thing, of those that touch the engine.  Time is a number of ticks.      *)
(***************************************************************************)
EXTENDS Integers, Sequences, FiniteSets, SequencesExt, FiniteSetsExt

CONSTANTS
  NumNodes,     \* Simulator::routingTable.size()
  InTime,       \* InTime[n]: what a message takes to get into node n
  OutTime,      \* OutTime[n]: what it takes to get out of it
  NetDelays,    \* the values of netDelay
  Waits,        \* the delays of the timers
  Lengths,      \* the durations of the tasks
  Clients,      \* the nodes that get the messages that the case injects
  Starts,       \* when they may come
  FailAts,      \* the time until the next failure
  NumFailing,   \* how many nodes may fail at once
  NumFailures,  \* FailureGenerator::numFailures, 0 for a failure after another
  MaxOp,        \* bound: how long a handler takes; 0 when NDEBUG is not defined
  MaxTime,      \* bound: no failure is programmed after it
  MaxOps        \* bound: what the handlers do

Nodes == 0 .. NumNodes - 1

ASSUME SimulationAssumption ==
  /\ NumNodes \in Nat \ {0}
  /\ InTime \in [Nodes -> Nat \ {0}] /\ OutTime \in [Nodes -> Nat \ {0}]
  /\ NetDelays \subseteq Nat /\ Waits \subseteq Nat /\ Lengths \subseteq Nat \ {0}
  /\ Clients \in Seq(Nodes) /\ Starts \subseteq Nat /\ FailAts \subseteq Nat /\ NumFailing \subseteq 0 .. NumNodes
  /\ {NumFailures, MaxOp, MaxTime, MaxOps} \subseteq Nat

VARIABLES
  time,       \* Simulator::time
  events,     \* Simulator::events
  lastId,     \* Event::lastEventId
  timerId,    \* Timer::timerId
  taskId,     \* the last identifier of a task
  node,       \* the timers, tasks and links of each node
  failing,    \* FailureGenerator::failingNodes
  numFailed,  \* FailureGenerator::numFailed
  gone,       \* the timers cancelled in time and those handed over
  left        \* what the handlers may still do

vars == <<time, events, lastId, timerId, taskId, node, failing, numFailed, gone, left>>

\* What a handler changes, as one record, with the time of its event.
Becomes(s) ==
  /\ time' = s.now /\ events' = s.events /\ lastId' = s.lastId
  /\ timerId' = s.timerId /\ taskId' = s.taskId
  /\ node' = s.node /\ gone' = s.gone

Later(a, b) == IF a < b THEN b ELSE a

-----------------------------------------------------------------------------
(* Messages.                                                               *)

Failure == [kind |-> "failure"]
Check == [kind |-> "check"]
App == [kind |-> "app"]
Wait(kind) == [kind |-> kind, task |-> 0]
TimerKinds == {"heartbeat", "other", "taskend"}

\* An event brings an application message, a timer that has expired, the
\* check of the timers of a node, or a failure.
Event(id, t, from, to, size, msg) ==
  [id |-> id, t |-> t, from |-> from, to |-> to, size |-> size, msg |-> msg, queued |-> FALSE]

Put(s, t, from, to, size, msg) ==
  [s EXCEPT !.lastId = @ + 1, !.events = @ \cup {Event(s.lastId, t, from, to, size, msg)}]

\* Simulator::injectMessage
InjectMessage(s, n, msg, t) == Put(s, t, n, n, 0, msg)

\* NetworkInterface::updateOutQueueEndTime
NewOutEnd(end, n, now) == Later(end, now) + OutTime[n]

\* The variant that only looks when the link is free.
NewInEndNow(end, n, now) == Later(end, now)

\* NetworkInterface::updateInQueueEndTime
NewInEnd(end, n, now) == Later(end + InTime[n], now)

\* Simulator::sendMessage, for another node and for oneself.
Send(s, from, to, msg, delay, op) ==
  IF from = to THEN Put(s, s.now + op, from, to, 0, msg)
  ELSE LET out == NewOutEnd(s.node[from].outEnd, from, s.now)
           slow == IF InTime[to] > OutTime[from] THEN InTime[to] - OutTime[from] ELSE 0 IN
       Put([s EXCEPT !.node[from].outEnd = out], out + slow + delay, from, to, 1, msg)

-----------------------------------------------------------------------------
(* Timers.  The low bit of an identifier tells that a check was programmed *)
(* for the timer.  timerList is the set of them, in the order that         *)
(* push_front and sort leave: by timeout, the newest of equal ones first.  *)

Timer(id, timeout, msg, bit) == [id |-> id, timeout |-> timeout, msg |-> msg, bit |-> bit]

Precedes(t, u) == t.timeout < u.timeout \/ (t.timeout = u.timeout /\ t.id > u.id)

\* timerList.front()
FirstTimer(timers) == CHOOSE t \in timers : \A u \in timers \ {t} : Precedes(t, u)

\* CommLayer::setTimerImpl; setTimer lets no time go before now.
SetTimer(s, n, timeout, msg) ==
  LET first == \A u \in s.node[n].timers : timeout < u.timeout
      id == s.timerId + 1
      s1 == IF first THEN InjectMessage(s, n, Check, timeout) ELSE s IN
  [s1 EXCEPT !.timerId = id,
             !.node[n].timers = @ \cup {Timer(id, timeout, msg, first)}]

\* The variant that compares identifiers with their low bits.
CancelWithBit(timers, ids) == {t \in timers : t.id \in ids => t.bit}

\* CommLayer::cancelTimer
Cancel(timers, ids) == {t \in timers : t.id \notin ids}

CancelTimers(s, n, ids) ==
  [s EXCEPT !.node[n].timers = Cancel(@, ids),
            !.gone = @ \cup (ids \cap {t.id : t \in s.node[n].timers})]

Expired(t) == [kind |-> t.msg.kind, task |-> t.msg.task, timer |-> t.id, due |-> t.timeout]

\* The timers that have expired become messages to oneself, in their order.
SendExpired(s, n, op) ==
  LET old == {t \in s.node[n].timers : t.timeout <= s.now}
      id(t) == s.lastId + Cardinality({u \in old : Precedes(u, t)}) IN
  [s EXCEPT !.node[n].timers = @ \ old,
            !.lastId = @ + Cardinality(old),
            !.events = @ \cup {Event(id(t), s.now + op, n, n, 0, Expired(t)) : t \in old}]

\* The next timer is programmed unless its bit tells that it already is.
NextCheck(s, n) ==
  LET timers == s.node[n].timers
      next == FirstTimer(timers) IN
  IF timers = {} \/ next.bit THEN s
  ELSE [InjectMessage(s, n, Check, next.timeout)
          EXCEPT !.node[n].timers = (@ \ {next}) \cup {[next EXCEPT !.bit = TRUE]}]

-----------------------------------------------------------------------------
(* Simulated tasks.                                                        *)

NoTimer == -1
Task(id, length) ==
  [id |-> id, duration |-> length, timer |-> NoTimer, finish |-> 0,
   length |-> length, ran |-> 0, since |-> 0]

Finishing(t) == [kind |-> "taskend", task |-> t.id]

\* SimTask::run
Run(s, n) ==
  LET tasks == s.node[n].tasks
      t == tasks[1]
      finish == s.now + t.duration
      s1 == SetTimer(s, n, finish, Finishing(t))
      running == [t EXCEPT !.timer = s1.timerId, !.finish = finish, !.since = s.now] IN
  IF t.timer # NoTimer THEN s
  ELSE [s1 EXCEPT !.node[n].tasks = [i \in DOMAIN tasks |-> IF i = 1 THEN running ELSE tasks[i]]]

\* The task is running now, to the eyes of the object.
IsRunning(t, now) == t.timer # NoTimer /\ t.finish > now

\* The variant that forgets what the task has already run.
PausedFromStart(t, now) ==
  IF IsRunning(t, now)
  THEN [t EXCEPT !.timer = NoTimer, !.ran = @ + now - t.since]
  ELSE t

\* SimTask::pause
Paused(t, now) ==
  IF IsRunning(t, now)
  THEN [t EXCEPT !.timer = NoTimer, !.duration = t.finish - now, !.ran = @ + now - t.since]
  ELSE t

\* All tasks but the first one are paused.
PauseOthers(s, n) ==
  LET tasks == s.node[n].tasks
      others == {i \in DOMAIN tasks \ {1} : IsRunning(tasks[i], s.now)} IN
  [CancelTimers(s, n, {tasks[i].timer : i \in others})
     EXCEPT !.node[n].tasks = [i \in DOMAIN tasks |-> IF i = 1 THEN tasks[i] ELSE Paused(tasks[i], s.now)]]

\* Scheduler::switchContext
SwitchContext(s, n) == IF s.node[n].tasks = <<>> THEN s ELSE Run(PauseOthers(s, n), n)

\* Scheduler::accept; the policy decides whether the task goes first.
Accept(s, n, length, first) ==
  LET t == Task(s.taskId + 1, length) IN
  SwitchContext([s EXCEPT !.taskId = @ + 1,
                          !.node[n].tasks = IF first THEN <<t>> \o @ ELSE Append(@, t)], n)

\* Scheduler::handle(TaskStateChgMsg)
EndTask(s, n, task) ==
  LET tasks == s.node[n].tasks
      i == CHOOSE k \in DOMAIN tasks : tasks[k].id = task IN
  SwitchContext(IF \E k \in DOMAIN tasks : tasks[k].id = task
                THEN [s EXCEPT !.node[n].tasks = RemoveAt(@, i)] ELSE s, n)

-----------------------------------------------------------------------------
(* Failures.                                                               *)

\* FailureGenerator::programFailure: the places that the shuffle draws for
\* the nodes, and the nodes it leaves in them.
Draws == {d \in [Nodes -> Nodes] : \A i \in Nodes : d[i] <= i}

Place(f, i, pos, k) ==
  IF pos >= k THEN f
  ELSE LET moved == IF i < k /\ pos # i THEN [f EXCEPT ![i] = f[pos]] ELSE f IN
       [moved EXCEPT ![pos] = i]

\* resize() keeps what the vector held and fills it with zeros.
Shuffled(old, draw, k) ==
  LET start == [i \in 0 .. k - 1 |-> IF i \in DOMAIN old THEN old[i] ELSE 0]
      f[i \in 0 .. NumNodes] == IF i = 0 THEN start ELSE Place(f[i - 1], i - 1, draw[i - 1], k)
  IN f[NumNodes]

MoreFailures(failed) == NumFailures = 0 \/ failed < NumFailures

\* StarsNode::fail: a new scheduler, and the timers of the submission node.
Failed(nd) ==
  [nd EXCEPT !.tasks = <<>>, !.timers = {t \in @ : t.msg.kind = "heartbeat"}]

\* The timers of services that no longer are there.
LostTimers(nd) == {t.id : t \in {u \in nd.timers : u.msg.kind # "heartbeat"}}

-----------------------------------------------------------------------------
(* Simulator::stepForward, one event of its loop at a time.                *)

IsNext(e) == \A f \in events : e.t < f.t \/ (e.t = f.t /\ e.id <= f.id)

\* popNextEvent
Popped(e) ==
  [now |-> e.t, events |-> events \ {e}, lastId |-> lastId, timerId |-> timerId,
   taskId |-> taskId, node |-> node, gone |-> gone]

\* FailureGenerator::isNextFailure
Fail(e) ==
  /\ e.msg.kind = "failure"
  /\ numFailed' = numFailed + 1
  /\ LET down == Range(failing)
         s == [Popped(e) EXCEPT
                 !.node = [n \in Nodes |-> IF n \in down THEN Failed(node[n]) ELSE node[n]],
                 !.gone = @ \cup UNION {LostTimers(node[n]) : n \in down}] IN
     IF MoreFailures(numFailed')
     THEN \E k \in NumFailing, draw \in Draws, at \in FailAts :
            /\ failing' = Shuffled(failing, draw, k)
            /\ Becomes(IF e.t + at <= MaxTime THEN InjectMessage(s, 0, Failure, e.t + at) ELSE s)
     ELSE UNCHANGED failing /\ Becomes(s)
  /\ UNCHANGED left

\* A message from the network has to get in through the link of the node.
FromNetwork(e) == e.size > 0 /\ e.from # e.to /\ ~e.queued
InEndAfter(e) == NewInEnd(node[e.to].inEnd, e.to, e.t)
LinkIsBusy(e) == FromNetwork(e) /\ InEndAfter(e) > e.t

\* Simulator::enqueued
Enqueue(e) ==
  /\ e.msg.kind # "failure" /\ LinkIsBusy(e)
  /\ Becomes([Popped(e) EXCEPT
       !.events = @ \cup {[e EXCEPT !.t = InEndAfter(e), !.queued = TRUE]},
       !.node[e.to].inEnd = InEndAfter(e)])
  /\ UNCHANGED <<failing, numFailed, left>>

\* The event gets to the node.
Arrived(e) ==
  [Popped(e) EXCEPT
     !.node[e.to].inEnd = IF FromNetwork(e) THEN InEndAfter(e) ELSE @,
     !.node[e.to].heard = IF e.from # e.to THEN e.t ELSE @,
     !.gone = IF e.msg.kind \in TimerKinds THEN @ \cup {e.msg.timer} ELSE @]

\* StarsNode::receiveMessage of timerMsg
CheckTimers(e) ==
  /\ e.msg.kind = "check"
  /\ \E op \in 0 .. MaxOp : Becomes(NextCheck(SendExpired(Popped(e), e.to, op), e.to))
  /\ UNCHANGED <<failing, numFailed, left>>

\* What the services of node n may do with a message.
Sent(s, n) ==
  {Send(s, n, to, App, delay, op) : to \in Nodes, delay \in NetDelays, op \in 0 .. MaxOp}
TimerSet(s, n) == {SetTimer(s, n, s.now + d, Wait(k)) : d \in Waits, k \in {"heartbeat", "other"}}
TimerCancelled(s, n) ==
  {CancelTimers(s, n, {t.id}) : t \in {u \in s.node[n].timers : u.msg.kind # "taskend"}}
TaskAccepted(s, n) ==
  {Accept(s, n, length, first) : length \in Lengths, first \in BOOLEAN}

\* The services get a message, and do something with it.
Handle(e) ==
  /\ e.msg.kind \in {"app", "heartbeat", "other"} /\ ~LinkIsBusy(e)
  /\ LET s == Arrived(e)
         n == e.to IN
     \/ Becomes(s) /\ UNCHANGED left
     \/ /\ left > 0 /\ left' = left - 1
        /\ \/ \E r \in Sent(s, n) : Becomes(r)
           \/ \E r \in TimerSet(s, n) : Becomes(r)
           \/ \E r \in TimerCancelled(s, n) : Becomes(r)
           \/ \E r \in TaskAccepted(s, n) : Becomes(r)
  /\ UNCHANGED <<failing, numFailed>>

\* The scheduler gets the message of its task.
HandleTaskEnd(e) ==
  /\ e.msg.kind = "taskend"
  /\ Becomes(EndTask(Arrived(e), e.to, e.msg.task))
  /\ UNCHANGED <<failing, numFailed, left>>

\* Simulator::setProperties and the messages that the case injects.
Init ==
  /\ time = 0 /\ timerId = 0 /\ taskId = 0 /\ gone = {} /\ left = MaxOps /\ numFailed = 0
  /\ node = [n \in Nodes |-> [timers |-> {}, tasks |-> <<>>, inEnd |-> 0, outEnd |-> 0, heard |-> 0]]
  /\ \E k \in NumFailing, draw \in Draws, at \in FailAts, start \in [DOMAIN Clients -> Starts] :
       /\ failing = Shuffled(<<>>, draw, k)
       /\ events = {Event(0, at, 0, 0, 0, Failure)}
                     \cup {Event(i, start[i], Clients[i], Clients[i], 0, App) : i \in DOMAIN Clients}
  /\ lastId = Len(Clients) + 1

Next ==
  \E e \in events :
    IsNext(e) /\ (Fail(e) \/ Enqueue(e) \/ CheckTimers(e) \/ Handle(e) \/ HandleTaskEnd(e))

Spec == Init /\ [][Next]_vars
-----------------------------------------------------------------------------

\* While a node has timers a check of them is to come, not later than the
\* first of them, whichever were cancelled or removed by a failure
\* (StarsNode.cpp:233 reports a "Timer arriving" late as a warning).
TimersAreChecked ==
  \A n \in Nodes : node[n].timers # {} =>
    \E e \in events : /\ e.msg = Check /\ e.to = n
                      /\ time <= e.t /\ \A u \in node[n].timers : e.t <= u.timeout

\* The message of a timer is handed to the services once, not before its time,
\* and never if it was cancelled, or its service failed, while it waited.
TimersAreHonest ==
  [][\A e \in events \ events' :
       e.msg.kind \in TimerKinds => e.msg.timer \notin gone /\ e.msg.due <= time']_vars

\* A timer that is not cancelled is checked in time, and no other one is heard
\* of (oldsim/StarsNode.cpp:238).
TimersAreRight == []TimersAreChecked /\ TimersAreHonest

\* Two messages from the network never get into a node in less time than its
\* link needs for the second one, however they wait and overtake each other.
LinkIsSerial ==
  [][\A e \in events \ events' :
       e.from # e.to /\ e.id \notin {f.id : f \in events'} /\ node[e.to].heard > 0 =>
         time' >= node[e.to].heard + InTime[e.to]]_vars

\* A task that ends has run for its length, also when it was paused, and
\* when its end, its pause and the arrival of another task come together.
TasksTakeTheirTime ==
  [][\A n \in Nodes : \A t \in ToSet(node[n].tasks) :
       t.id \notin {u.id : u \in ToSet(node'[n].tasks)} /\ numFailed' = numFailed =>
         LET ran == t.ran + time' - t.since IN t.length <= ran /\ ran <= t.length + MaxOp]_vars

=============================================================================
