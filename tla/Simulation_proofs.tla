-------------------------- MODULE Simulation_proofs --------------------------
(***************************************************************************)
(* Proofs about Simulation, for every number of nodes, bandwidths, delays, *)
(* lengths of tasks, clients, failures and operations: type correctness,   *)
(* that no timer is late, lost, repeated or heard after it was cancelled,  *)
(* that a link carries one message at a time, and that tasks take the time *)
(* they should.  A few numbers in each node and the dates of the events    *)
(* stand for the whole past, so most of the proof says what they owe to    *)
(* each other in a good state, and keeps it through each service.  The     *)
(* next part is about SimulationRun, for every set of files of properties, *)
(* every size of the network and every number of runs: what runs keep on   *)
(* disk is right, and complete results are not replaced.  The last part is *)
(* about Sweeper, for every machine and every set of files: cases are kept *)
(* and counted, and processes have what there is.                          *)
(***************************************************************************)
EXTENDS Simulation, SimulationRun, Sweeper, FiniteSetTheorems, WellFoundedInduction, TLAPS

TimerMsgs == [kind : TimerKinds, task : Nat]
Timers == [id : Nat, timeout : Nat, msg : TimerMsgs, bit : BOOLEAN]
Expirations == [kind : TimerKinds, task : Nat, timer : Nat, due : Nat]
Msgs == {Failure, Check, App} \cup Expirations
Events == [id : Nat, t : Nat, from : Nodes, to : Nodes, size : Nat, msg : Msgs, queued : BOOLEAN]
Tasks == [id : Nat, duration : Nat, timer : Nat \cup {NoTimer}, finish : Nat,
          length : Nat, ran : Nat, since : Nat]
NodeStates == [timers : SUBSET Timers, tasks : Seq(Tasks), inEnd : Nat, outEnd : Nat, heard : Nat]

\* What the actions change, as Becomes takes it.
States == [now : Nat, events : SUBSET Events, lastId : Nat, timerId : Nat, taskId : Nat,
           node : [Nodes -> NodeStates], gone : SUBSET Nat]

\* No event is late; only applications' messages go through the network.
FutureOK(s) ==
  \A e \in s.events : s.now <= e.t /\ (e.from # e.to => e.msg = App /\ e.size > 0)

\* A timer is set, on its way to the services or gone, at most one of them.
TimersOK(s) ==
  /\ \A i \in s.gone : i <= s.timerId
  /\ \A n \in Nodes : \A u \in s.node[n].timers : u.id <= s.timerId /\ u.id \notin s.gone
  /\ \A n, m \in Nodes : \A u \in s.node[n].timers, v \in s.node[m].timers :
       u.id = v.id => n = m /\ u = v

ExpirationsOK(s) ==
  \A e \in s.events : e.msg.kind \in TimerKinds =>
    /\ e.msg.timer <= s.timerId /\ e.msg.timer \notin s.gone /\ e.msg.due <= s.now
    /\ \A n \in Nodes : \A u \in s.node[n].timers : u.id # e.msg.timer
    /\ \A f \in s.events : f.msg.kind \in TimerKinds /\ f.msg.timer = e.msg.timer => f = e

\* Every timer has a check, and one of its own if its bit says so.
ChecksOK(s) ==
  \A n \in Nodes : \A u \in s.node[n].timers :
    /\ \E e \in s.events : e.msg = Check /\ e.to = n /\ e.t <= u.timeout
    /\ u.bit => \E e \in s.events : e.msg = Check /\ e.to = n /\ e.t = u.timeout

\* The messages that wait at a link come one after another.
LinksOK(s) ==
  /\ \A n \in Nodes : s.node[n].heard <= s.node[n].inEnd
  /\ \A e \in s.events : e.queued =>
       /\ e.from # e.to /\ e.t <= s.node[e.to].inEnd
       /\ s.node[e.to].heard > 0 => s.node[e.to].heard + InTime[e.to] <= e.t
       /\ \A f \in s.events : f.queued /\ f.to = e.to /\ f # e =>
            e.t + InTime[e.to] <= f.t \/ f.t + InTime[e.to] <= e.t

\* What a task has run and what it has to run make its length.
TaskOK(t, now, lastTask) ==
  /\ t.id <= lastTask
  /\ IF t.timer # NoTimer THEN t.since <= now /\ t.length = t.ran + t.finish - t.since
     ELSE t.length = t.ran + t.duration

\* A timer, or its message, is of the task that has it.
EndOK(tasks, task, timer, finish, lastTask) ==
  /\ task <= lastTask
  /\ \A i \in DOMAIN tasks : tasks[i].id = task => tasks[i].timer = timer /\ tasks[i].finish = finish

TasksOK(s) ==
  \A n \in Nodes :
    /\ \A i \in DOMAIN s.node[n].tasks : TaskOK(s.node[n].tasks[i], s.now, s.taskId)
    /\ \A i, j \in DOMAIN s.node[n].tasks : s.node[n].tasks[i].id = s.node[n].tasks[j].id => i = j
    /\ \A u \in s.node[n].timers : u.msg.kind = "taskend" =>
         EndOK(s.node[n].tasks, u.msg.task, u.id, u.timeout, s.taskId)
    /\ \A e \in s.events : e.msg.kind = "taskend" /\ e.to = n =>
         /\ EndOK(s.node[n].tasks, e.msg.task, e.msg.timer, e.msg.due, s.taskId)
         /\ e.msg.due <= e.t /\ e.t <= e.msg.due + MaxOp

Good(s) ==
  /\ s \in States /\ FutureOK(s) /\ TimersOK(s) /\ ExpirationsOK(s) /\ ChecksOK(s) /\ LinksOK(s)
  /\ TasksOK(s)

Current ==
  [now |-> time, events |-> events, lastId |-> lastId, timerId |-> timerId, taskId |-> taskId,
   node |-> node, gone |-> gone]

IInv == Good(Current)

TaskIds(s, n) == {s.node[n].tasks[i].id : i \in DOMAIN s.node[n].tasks}

\* The handlers lose no event and no task.
Keeps(s, r) ==
  /\ r.now = s.now /\ s.events \subseteq r.events
  /\ \A n \in Nodes : TaskIds(s, n) \subseteq TaskIds(r, n)

LEMMA KeepsTransitive ==
  ASSUME NEW s, NEW r, NEW q, Keeps(s, r), Keeps(r, q)
  PROVE  Keeps(s, q)
BY DEF Keeps

-----------------------------------------------------------------------------
\* Good but for the checks of the timers.
Sound(s) ==
  /\ s \in States /\ FutureOK(s) /\ TimersOK(s) /\ ExpirationsOK(s) /\ LinksOK(s) /\ TasksOK(s)

\* A new event, of other messages than those of timers, is no harm.
HasPut(s, r, t, to, msg) ==
  /\ Sound(r) /\ Keeps(s, r)
  /\ r.now = s.now /\ r.timerId = s.timerId /\ r.node = s.node /\ r.gone = s.gone
  /\ r.taskId = s.taskId
  /\ \E e \in r.events : e.msg = msg /\ e.to = to /\ e.t = t /\ r.events = s.events \cup {e}

LEMMA PutIsSound ==
  ASSUME NEW s, Sound(s), NEW t \in Nat, s.now <= t, NEW from \in Nodes, NEW to \in Nodes,
         NEW size \in Nat, NEW msg \in {Failure, Check, App}, from # to => msg = App /\ size > 0
  PROVE  HasPut(s, Put(s, t, from, to, size, msg), t, to, msg)
<1> DEFINE E == Event(s.lastId, t, from, to, size, msg)
           r == Put(s, t, from, to, size, msg)
<1>0. s \in States
  BY DEF Sound
<1>1. /\ E \in Events /\ E.msg = msg /\ E.to = to /\ E.t = t /\ E.from = from /\ E.size = size
      /\ E.queued = FALSE
  BY <1>0 DEF Event, Events, Msgs, States
<1>2. /\ r \in States /\ r.now = s.now /\ r.timerId = s.timerId /\ r.node = s.node /\ r.gone = s.gone
      /\ r.taskId = s.taskId /\ r.events = s.events \cup {E}
  <2>1. r = [s EXCEPT !.lastId = @ + 1, !.events = @ \cup {E}]
    BY DEF Put
  <2> HIDE DEF E, r
  <2>2. s.events \cup {E} \in SUBSET Events
    BY <1>0, <1>1 DEF States
  <2>3. s.lastId + 1 \in Nat
    BY <1>0 DEF States
  <2>4. r.now = s.now /\ r.timerId = s.timerId /\ r.node = s.node /\ r.gone = s.gone
      /\ r.taskId = s.taskId 
    BY <1>0, <2>1 DEF States
  <2>5. r.events = s.events \cup {E} /\ r.lastId = s.lastId + 1
    BY <1>0, <2>1 DEF States
  <2>6. r \in States
    BY <1>0, <2>1, <2>2, <2>3 DEF States
  <2> QED BY <2>4, <2>5, <2>6
<1>3. msg.kind \notin TimerKinds /\ msg.kind # "taskend"
  BY DEF Failure, Check, App, TimerKinds
<1> HIDE DEF E, r
<1>4. FutureOK(r)
  BY <1>1, <1>2 DEF Sound, FutureOK
<1>5. TimersOK(r)
  BY <1>2 DEF Sound, TimersOK
<1>6. ExpirationsOK(r)
  BY <1>1, <1>2, <1>3 DEF Sound, ExpirationsOK
<1>8. LinksOK(r)
  BY <1>1, <1>2 DEF Sound, LinksOK
<1>9. TasksOK(r)
  BY <1>1, <1>2, <1>3 DEF Sound, TasksOK
<1>10. Keeps(s, r)
  BY <1>2 DEF Keeps, TaskIds
<1>11. Sound(r)
  BY <1>2, <1>4, <1>5, <1>6, <1>8, <1>9 DEF Sound
<1> QED BY <1>1, <1>2, <1>10, <1>11 DEF r, HasPut

\* The effect of Put.
LEMMA PutIsGood ==
  ASSUME NEW s, Good(s), NEW t \in Nat, s.now <= t, NEW from \in Nodes, NEW to \in Nodes,
         NEW size \in Nat, NEW msg \in {Failure, Check, App}, from # to => msg = App /\ size > 0
  PROVE  LET r == Put(s, t, from, to, size, msg) IN
         /\ Good(r) /\ Keeps(s, r)
         /\ r.now = s.now /\ r.timerId = s.timerId /\ r.node = s.node /\ r.gone = s.gone
         /\ r.taskId = s.taskId
         /\ \E e \in r.events : /\ e.msg = msg /\ e.to = to /\ e.t = t
                                /\ r.events = s.events \cup {e}
<1> DEFINE r == Put(s, t, from, to, size, msg)
<1>1. Sound(s)
  BY DEF Good, Sound
<1>2. /\ Sound(r) /\ Keeps(s, r)
      /\ r.now = s.now /\ r.timerId = s.timerId /\ r.node = s.node /\ r.gone = s.gone
      /\ r.taskId = s.taskId
      /\ \E e \in r.events : /\ e.msg = msg /\ e.to = to /\ e.t = t
                             /\ r.events = s.events \cup {e}
  <2>1. HasPut(s, r, t, to, msg)
    BY <1>1, PutIsSound
  <2> HIDE DEF r
  <2> QED BY <2>1 DEF HasPut
<1> HIDE DEF r
<1>3. ChecksOK(r)
  BY <1>2 DEF Good, ChecksOK, Keeps
<1> QED BY <1>2, <1>3 DEF Good, Sound, r

\* Nothing of the nodes changes but the timers of one of them.
OnlyTimers(s, r, n, timers) ==
  \A m \in Nodes :
    /\ r.node[m].tasks = s.node[m].tasks
    /\ r.node[m].inEnd = s.node[m].inEnd /\ r.node[m].heard = s.node[m].heard
    /\ r.node[m].timers = IF m = n THEN timers ELSE s.node[m].timers

LEMMA NodeTyped ==
  ASSUME NEW s \in States, NEW n \in Nodes
  PROVE  /\ s.node[n] \in NodeStates /\ s.node[n].timers \in SUBSET Timers
         /\ s.node[n].tasks \in Seq(Tasks) /\ s.node[n].inEnd \in Nat
         /\ s.node[n].outEnd \in Nat /\ s.node[n].heard \in Nat
<1>1. s.node[n] \in NodeStates
  BY DEF States
<1> QED BY <1>1 DEF NodeStates

LEMMA TimerTyped ==
  ASSUME NEW u \in Timers
  PROVE  u.id \in Nat /\ u.timeout \in Nat /\ u.msg \in TimerMsgs /\ u.bit \in BOOLEAN
BY DEF Timers

\* The effect of CommLayer::cancelTimer, on any timers of a node.
LEMMA CancelIsGood ==
  ASSUME NEW s, Good(s), NEW n \in Nodes, NEW ids
  PROVE  LET r == CancelTimers(s, n, ids) IN
         /\ Good(r) /\ Keeps(s, r)
         /\ r.events = s.events /\ r.taskId = s.taskId
         /\ OnlyTimers(s, r, n, Cancel(s.node[n].timers, ids))
<1> DEFINE r == CancelTimers(s, n, ids)
           timers == Cancel(s.node[n].timers, ids)
           more == ids \cap {t.id : t \in s.node[n].timers}
           newNode == [s.node EXCEPT ![n].timers = timers]
<1>0. s \in States
  BY DEF Good
<1>1. timers \in SUBSET Timers /\ more \in SUBSET Nat /\ timers \subseteq s.node[n].timers
  BY <1>0, NodeTyped, TimerTyped DEF Cancel
<1>2. /\ more \in SUBSET {t.id : t \in s.node[n].timers}
      /\ \A t \in timers : t.id \notin more
  BY DEF Cancel
<1>3. r = [s EXCEPT !.node = newNode, !.gone = @ \cup more]
  BY <1>0 DEF CancelTimers, States
<1> HIDE DEF timers, more, r
<1>4. newNode \in [Nodes -> NodeStates]
  BY <1>0, <1>1 DEF States, NodeStates
<1>5. \A m \in Nodes :
         /\ newNode[m].tasks = s.node[m].tasks
         /\ newNode[m].inEnd = s.node[m].inEnd /\ newNode[m].heard = s.node[m].heard
         /\ newNode[m].timers = IF m = n THEN timers ELSE s.node[m].timers
  BY <1>0, <1>1 DEF States, NodeStates
<1> HIDE DEF newNode
<1>6. /\ r.now = s.now /\ r.timerId = s.timerId /\ r.node = newNode /\ r.gone = s.gone \cup more
      /\ r.taskId = s.taskId /\ r.events = s.events
  BY <1>0, <1>3 DEF States
<1>7. r \in States
  BY <1>0, <1>1, <1>3, <1>4 DEF States
<1>8. OnlyTimers(s, r, n, timers)
  BY <1>5, <1>6 DEF OnlyTimers
<1>9. FutureOK(r)
  BY <1>6 DEF Good, FutureOK
<1>a. \A m \in Nodes : r.node[m].timers \subseteq s.node[m].timers
  BY <1>1, <1>8 DEF OnlyTimers
<1>b. \A i \in more : \E t \in s.node[n].timers : t.id = i
  BY <1>2
<1>10. TimersOK(r)
  <2>1. \A i \in r.gone : i <= r.timerId
    BY <1>b, <1>6 DEF Good, TimersOK
  <2>2. ASSUME NEW m \in Nodes, NEW u \in r.node[m].timers PROVE u.id <= r.timerId /\ u.id \notin r.gone
    <3>1. u.id <= s.timerId /\ u.id \notin s.gone
      BY <1>a, <2>2 DEF Good, TimersOK
    <3>2. u.id \notin more
      <4>1. CASE m = n
        BY <1>2, <1>8, <2>2, <4>1 DEF OnlyTimers
      <4>2. CASE m # n
        BY <1>b, <1>a, <2>2, <4>2 DEF Good, TimersOK
      <4> QED BY <4>1, <4>2
    <3> QED BY <1>6, <3>1, <3>2
  <2>3. \A m, k \in Nodes : \A u \in r.node[m].timers, v \in r.node[k].timers : u.id = v.id => m = k /\ u = v
    BY <1>a DEF Good, TimersOK
  <2> QED BY <2>1, <2>2, <2>3 DEF TimersOK
<1>11. ExpirationsOK(r)
  <2>1. \A e \in s.events : e.msg.kind \in TimerKinds => e.msg.timer \notin more
    BY <1>b DEF Good, ExpirationsOK
  <2> QED BY <1>a, <1>6, <2>1 DEF Good, ExpirationsOK
<1>12. ChecksOK(r)
  BY <1>a, <1>6 DEF Good, ChecksOK
<1>13. LinksOK(r)
  BY <1>6, <1>8 DEF Good, LinksOK, OnlyTimers, States, Events
<1>14. TasksOK(r)
  BY <1>a, <1>6, <1>8 DEF Good, TasksOK, OnlyTimers
<1>15. Keeps(s, r)
  BY <1>6, <1>8 DEF Keeps, TaskIds, OnlyTimers
<1>16. Good(r)
  BY <1>7, <1>9, <1>10, <1>11, <1>12, <1>13, <1>14 DEF Good
<1> QED BY <1>6, <1>8, <1>15, <1>16 DEF r, timers

\* The parts of Good that do not depend on tasks.
EngineGood(s) ==
  /\ s \in States /\ FutureOK(s) /\ TimersOK(s) /\ ExpirationsOK(s) /\ ChecksOK(s) /\ LinksOK(s)

\* A timer that is set in time is checked, and its identifier is new.
LEMMA SetTimerIsGood ==
  ASSUME NEW s, Good(s), NEW n \in Nodes, NEW timeout \in Nat, s.now <= timeout,
         NEW msg \in TimerMsgs
  PROVE  LET r == SetTimer(s, n, timeout, msg) IN
         /\ EngineGood(r) /\ Keeps(s, r)
         /\ \A e \in r.events : e \in s.events \/ e.msg = Check
         /\ r.taskId = s.taskId /\ r.timerId = s.timerId + 1
         /\ \E b \in BOOLEAN :
              OnlyTimers(s, r, n, s.node[n].timers \cup {Timer(r.timerId, timeout, msg, b)})
<1> DEFINE first == \A u \in s.node[n].timers : timeout < u.timeout
           id == s.timerId + 1
           q == IF first THEN InjectMessage(s, n, Check, timeout) ELSE s
           T == Timer(id, timeout, msg, first)
           timers == s.node[n].timers \cup {T}
           newNode == [s.node EXCEPT ![n].timers = timers]
           r == SetTimer(s, n, timeout, msg)
<1>0. s \in States
  BY DEF Good
<1>1. /\ Good(q) /\ Keeps(s, q)
      /\ q.now = s.now /\ q.timerId = s.timerId /\ q.node = s.node /\ q.gone = s.gone
      /\ q.taskId = s.taskId
      /\ \A e \in q.events : e \in s.events \/ e.msg = Check
      /\ first => \E e \in q.events : e.msg = Check /\ e.to = n /\ e.t = timeout
  <2>1. CASE first
    <3>1. q = Put(s, timeout, n, n, 0, Check)
      BY <2>1 DEF InjectMessage
    <3> HIDE DEF q
    <3> QED BY <3>1, PutIsGood, <2>1
  <2>2. CASE ~first
    BY <2>2, <1>0 DEF Keeps
  <2> QED BY <2>1, <2>2
<1>2. r = [q EXCEPT !.timerId = id, !.node[n].timers = @ \cup {T}]
  BY DEF SetTimer
<1> HIDE DEF q, r
<1>3. /\ id \in Nat /\ id = s.timerId + 1 /\ T \in Timers /\ T.id = id /\ T.timeout = timeout
      /\ T.msg = msg /\ T.bit = first
  BY <1>0 DEF States, Timers, Timer
<1>4. ~first => \E u \in s.node[n].timers : u.timeout <= timeout
  BY <1>0, NodeTyped, TimerTyped
<1>T. T = Timer(id, timeout, msg, first)
  OBVIOUS
<1> HIDE DEF first, T, id
<1>5. timers \in SUBSET Timers
  BY <1>0, <1>3, NodeTyped
<1>6. r = [q EXCEPT !.timerId = id, !.node = newNode]
  BY <1>1, <1>2 DEF Good, States
<1> HIDE DEF timers
<1>7. newNode \in [Nodes -> NodeStates]
  BY <1>0, <1>5 DEF States, NodeStates
<1>8. \A m \in Nodes :
         /\ newNode[m].tasks = s.node[m].tasks
         /\ newNode[m].inEnd = s.node[m].inEnd /\ newNode[m].heard = s.node[m].heard
         /\ newNode[m].timers = IF m = n THEN timers ELSE s.node[m].timers
  BY <1>0, <1>5 DEF States, NodeStates
<1> HIDE DEF newNode
<1>9. /\ r.now = s.now /\ r.timerId = id /\ r.node = newNode /\ r.gone = s.gone
      /\ r.taskId = s.taskId /\ r.events = q.events
  BY <1>1, <1>6 DEF Good, States
<1>10. r \in States
  BY <1>1, <1>3, <1>6, <1>7 DEF Good, States
<1>11. OnlyTimers(s, r, n, timers)
  BY <1>8, <1>9 DEF OnlyTimers
<1>12. FutureOK(r)
  BY <1>1, <1>9 DEF Good, FutureOK
<1>13. \A m \in Nodes : \A u \in r.node[m].timers : (u = T /\ m = n) \/ u \in s.node[m].timers
  BY <1>11 DEF OnlyTimers, timers
<1>14. \A m \in Nodes : \A u \in s.node[m].timers : u.id <= s.timerId /\ u.id \in Nat /\ u.id # id
  BY <1>0, <1>3, NodeTyped, TimerTyped DEF Good, TimersOK, States
<1>15. TimersOK(r)
  <2>1. \A i \in r.gone : i <= r.timerId /\ i # id
    BY <1>0, <1>3, <1>9 DEF Good, TimersOK, States
  <2>2. \A m \in Nodes : \A u \in r.node[m].timers : u.id <= r.timerId /\ u.id \notin r.gone
    <3> SUFFICES ASSUME NEW m \in Nodes, NEW u \in r.node[m].timers
                 PROVE u.id <= r.timerId /\ u.id \notin r.gone
      OBVIOUS
    <3>1. CASE u = T
      BY <3>1, <2>1, <1>3, <1>9
    <3>2. CASE u \in s.node[m].timers
      BY <3>2, <1>0, <1>3, <1>9, <1>14 DEF Good, TimersOK, States
    <3> QED BY <3>1, <3>2, <1>13
  <2>3. \A m, k \in Nodes : \A u \in r.node[m].timers, v \in r.node[k].timers : u.id = v.id => m = k /\ u = v
    BY <1>3, <1>13, <1>14 DEF Good, TimersOK
  <2> QED BY <2>1, <2>2, <2>3 DEF TimersOK
<1>16. ExpirationsOK(r)
  <2>1. Check.kind \notin TimerKinds
    BY DEF Check, TimerKinds
  <2>2. \A e \in r.events : e.msg.kind \in TimerKinds => e \in s.events
    BY <1>1, <1>9, <2>1
  <2> SUFFICES ASSUME NEW e \in r.events, e.msg.kind \in TimerKinds
               PROVE /\ e.msg.timer <= r.timerId /\ e.msg.timer \notin r.gone /\ e.msg.due <= r.now
                     /\ \A m \in Nodes : \A u \in r.node[m].timers : u.id # e.msg.timer
                     /\ \A f \in r.events : f.msg.kind \in TimerKinds /\ f.msg.timer = e.msg.timer => f = e
    BY DEF ExpirationsOK
  <2>3. e \in s.events /\ e.msg \in Expirations
    <3>1. e \in s.events
      BY <2>2
    <3>2. e.msg \in Msgs
      BY <3>1, <1>0 DEF States, Events
    <3> QED BY <3>1, <3>2 DEF Msgs, Failure, Check, App, TimerKinds
  <2>4. e.msg.timer \in Nat /\ e.msg.timer <= s.timerId /\ e.msg.timer # id /\ e.msg.timer <= id
    BY <2>3, <1>0, <1>3 DEF Good, ExpirationsOK, Expirations, States
  <2>5. /\ e.msg.timer \notin r.gone /\ e.msg.due <= r.now
        /\ \A f \in r.events : f.msg.kind \in TimerKinds /\ f.msg.timer = e.msg.timer => f = e
    BY <2>2, <2>3, <1>9 DEF Good, ExpirationsOK
  <2>6. \A m \in Nodes : \A u \in r.node[m].timers : u.id # e.msg.timer
    BY <2>3, <2>4, <1>3, <1>13 DEF Good, ExpirationsOK
  <2> QED BY <2>4, <2>5, <2>6, <1>9
<1>17. ChecksOK(r)
  <2> SUFFICES ASSUME NEW m \in Nodes, NEW u \in r.node[m].timers
               PROVE /\ \E e \in r.events : e.msg = Check /\ e.to = m /\ e.t <= u.timeout
                     /\ u.bit => \E e \in r.events : e.msg = Check /\ e.to = m /\ e.t = u.timeout
    BY DEF ChecksOK
  <2>1. s.events \subseteq r.events
    BY <1>1, <1>9 DEF Keeps
  <2>2. CASE u \in s.node[m].timers
    BY <2>1, <2>2 DEF Good, ChecksOK
  <2>3. CASE u = T /\ m = n
    <3>1. CASE first
      BY <1>1, <1>3, <1>9, <2>3, <3>1
    <3>2. CASE ~first
      <4>1. PICK v \in s.node[n].timers : v.timeout <= timeout
        BY <1>4, <3>2
      <4>2. PICK e \in s.events : e.msg = Check /\ e.to = n /\ e.t <= v.timeout
        BY DEF Good, ChecksOK
      <4>3. e.t \in Nat /\ v.timeout \in Nat
        BY <1>0, NodeTyped, TimerTyped DEF States, Events
      <4> QED BY <4>1, <4>2, <4>3, <2>1, <2>3, <3>2, <1>3
    <3> QED BY <3>1, <3>2
  <2> QED BY <2>2, <2>3, <1>13
<1>18. LinksOK(r)
  <2>1. \A e \in r.events : e.to \in Nodes /\ e.t \in Nat
    BY <1>1, <1>9 DEF Good, States, Events
  <2>2. /\ \A m \in Nodes : q.node[m].heard = r.node[m].heard /\ q.node[m].inEnd = r.node[m].inEnd
        /\ q.events = r.events
    BY <1>1, <1>8, <1>9
  <2>3. LinksOK(q)
    BY <1>1 DEF Good
  <2> QED BY <2>1, <2>2, <2>3 DEF LinksOK
<1>19. Keeps(s, r)
  BY <1>1, <1>9, <1>11 DEF Keeps, TaskIds, OnlyTimers
<1>20. EngineGood(r)
  BY <1>10, <1>12, <1>15, <1>16, <1>17, <1>18 DEF EngineGood
<1>21. \A e \in r.events : e \in s.events \/ e.msg = Check
  BY <1>1, <1>9
<1>22. \E b \in BOOLEAN :
              OnlyTimers(s, r, n, s.node[n].timers \cup {Timer(r.timerId, timeout, msg, b)})
  <2>1. first \in BOOLEAN
    BY DEF first
  <2> QED BY <2>1, <1>9, <1>11, <1>T DEF timers
<1> QED BY <1>9, <1>3, <1>19, <1>20, <1>21, <1>22 DEF r

\* A timer of a service other than the scheduler.
LEMMA OtherTimerIsGood ==
  ASSUME NEW s, Good(s), NEW n \in Nodes, NEW timeout \in Nat, s.now <= timeout,
         NEW msg \in TimerMsgs, msg.kind # "taskend"
  PROVE  LET r == SetTimer(s, n, timeout, msg) IN Good(r) /\ Keeps(s, r)
<1> DEFINE r == SetTimer(s, n, timeout, msg)
<1>1. /\ EngineGood(r) /\ Keeps(s, r)
      /\ \A e \in r.events : e \in s.events \/ e.msg = Check
      /\ r.taskId = s.taskId /\ r.timerId = s.timerId + 1
      /\ \E b \in BOOLEAN :
           OnlyTimers(s, r, n, s.node[n].timers \cup {Timer(r.timerId, timeout, msg, b)})
  BY SetTimerIsGood
<1> HIDE DEF r
<1>2. PICK b \in BOOLEAN :
        OnlyTimers(s, r, n, s.node[n].timers \cup {Timer(r.timerId, timeout, msg, b)})
  BY <1>1
<1> DEFINE T == Timer(r.timerId, timeout, msg, b)
<1>3. T.msg = msg
  BY DEF Timer
<1> HIDE DEF T
<1>4. \A m \in Nodes : /\ r.node[m].tasks = s.node[m].tasks
                       /\ \A u \in r.node[m].timers : u = T \/ u \in s.node[m].timers
  BY <1>2 DEF T, OnlyTimers
<1>5. \A e \in r.events : e.msg.kind = "taskend" => e \in s.events
  BY <1>1 DEF Check
<1>6. r.now = s.now
  BY <1>1 DEF Keeps
<1>7. TasksOK(r)
  BY <1>1, <1>3, <1>4, <1>5, <1>6 DEF Good, TasksOK
<1> QED BY <1>1, <1>7 DEF Good, EngineGood, r

WithTasks(s, n, tasks, last) == [s EXCEPT !.taskId = last, !.node[n].tasks = tasks]

\* The engine does not look at the tasks.
TasksSet(s, r, n, tasks, last) ==
  /\ EngineGood(r)
  /\ r.now = s.now /\ r.events = s.events /\ r.timerId = s.timerId /\ r.taskId = last
  /\ r.gone = s.gone
  /\ \A m \in Nodes :
       /\ r.node[m].tasks = IF m = n THEN tasks ELSE s.node[m].tasks
       /\ r.node[m].timers = s.node[m].timers

LEMMA NewTasks ==
  ASSUME NEW s, EngineGood(s), NEW n \in Nodes, NEW tasks \in Seq(Tasks), NEW last \in Nat
  PROVE  TasksSet(s, WithTasks(s, n, tasks, last), n, tasks, last)
<1> DEFINE r == WithTasks(s, n, tasks, last)
           newNode == [s.node EXCEPT ![n].tasks = tasks]
<1>0. s \in States
  BY DEF EngineGood
<1>1. r = [s EXCEPT !.taskId = last, !.node = newNode]
  BY <1>0 DEF States, WithTasks
<1>2. newNode \in [Nodes -> NodeStates]
  BY <1>0 DEF States, NodeStates
<1>3. \A m \in Nodes :
         /\ newNode[m].tasks = IF m = n THEN tasks ELSE s.node[m].tasks
         /\ newNode[m].inEnd = s.node[m].inEnd /\ newNode[m].heard = s.node[m].heard
         /\ newNode[m].timers = s.node[m].timers
  BY <1>0 DEF States, NodeStates
<1> HIDE DEF newNode, r
<1>4. /\ r.now = s.now /\ r.timerId = s.timerId /\ r.node = newNode /\ r.gone = s.gone
      /\ r.taskId = last /\ r.events = s.events
  BY <1>0, <1>1 DEF States
<1>5. r \in States
  BY <1>0, <1>1, <1>2 DEF States
<1>6. FutureOK(r) /\ TimersOK(r) /\ ExpirationsOK(r) /\ ChecksOK(r)
  BY <1>3, <1>4 DEF EngineGood, FutureOK, TimersOK, ExpirationsOK, ChecksOK
<1>7. LinksOK(r)
  <2>1. \A e \in s.events : e.to \in Nodes
    BY <1>0 DEF States, Events
  <2> QED BY <1>3, <1>4, <2>1 DEF EngineGood, LinksOK
<1>8. EngineGood(r)
  BY <1>5, <1>6, <1>7 DEF EngineGood
<1> QED BY <1>3, <1>4, <1>8 DEF r, TasksSet

LEMMA TaskTyped ==
  ASSUME NEW t \in Tasks
  PROVE  /\ t.id \in Nat /\ t.duration \in Nat /\ t.timer \in Nat \cup {NoTimer} /\ t.finish \in Nat
         /\ t.length \in Nat /\ t.ran \in Nat /\ t.since \in Nat
BY DEF Tasks

LEMMA TasksTyped ==
  ASSUME NEW s \in States, NEW n \in Nodes
  PROVE  /\ DOMAIN s.node[n].tasks = 1 .. Len(s.node[n].tasks) /\ Len(s.node[n].tasks) \in Nat
         /\ \A i \in DOMAIN s.node[n].tasks : s.node[n].tasks[i] \in Tasks
         /\ s.node[n].tasks # <<>> => 1 \in DOMAIN s.node[n].tasks
<1> DEFINE q == s.node[n].tasks
<1>1. q \in Seq(Tasks)
  BY NodeTyped
<1> HIDE DEF q
<1>2. /\ DOMAIN q = 1 .. Len(q) /\ Len(q) \in Nat
      /\ \A i \in DOMAIN q : q[i] \in Tasks
      /\ q # <<>> => 1 \in DOMAIN q
  BY <1>1
<1> QED BY <1>2 DEF q

\* A message that ends a task has the identifier of a timer.
LEMMA ExpirationTyped ==
  ASSUME NEW s \in States, NEW e \in s.events, e.msg.kind \in TimerKinds
  PROVE  e.msg \in Expirations /\ e.msg.task \in Nat /\ e.msg.timer \in Nat /\ e.msg.due \in Nat
<1>1. e.msg \in Msgs
  BY DEF States, Events
<1>2. e.msg \in Expirations
  BY <1>1 DEF Msgs, Failure, Check, App, TimerKinds
<1> QED BY <1>2 DEF Expirations

\* SimTask::run sets one timer for a task that has none.
LEMMA RunIsGood ==
  ASSUME NEW s, Good(s), NEW n \in Nodes, s.node[n].tasks # <<>>
  PROVE  Good(Run(s, n)) /\ Keeps(s, Run(s, n))
<1> DEFINE tasks == s.node[n].tasks
           t == tasks[1]
           finish == s.now + t.duration
           msg == Finishing(t)
           q == SetTimer(s, n, finish, msg)
           running == [t EXCEPT !.timer = q.timerId, !.finish = finish, !.since = s.now]
           new == [i \in DOMAIN tasks |-> IF i = 1 THEN running ELSE tasks[i]]
           r == WithTasks(q, n, new, q.taskId)
<1>0. s \in States /\ s.now \in Nat /\ s.timerId \in Nat /\ s.taskId \in Nat
  BY DEF Good, States
<1>1. 1 \in DOMAIN tasks /\ t \in Tasks
  BY <1>0, TasksTyped
<1>2. t.duration \in Nat /\ t.id \in Nat /\ t.timer \in Nat \cup {NoTimer}
  BY <1>1, TaskTyped
<1>3. CASE t.timer # NoTimer
  <2>1. Run(s, n) = s
    BY <1>3 DEF Run
  <2> QED BY <2>1, <1>0 DEF Keeps
<1>4. CASE t.timer = NoTimer
  <2>1. finish \in Nat /\ s.now <= finish
    BY <1>0, <1>2
  <2>2. msg \in TimerMsgs /\ msg.kind = "taskend" /\ msg.task = t.id
    BY <1>2 DEF Finishing, TimerMsgs, TimerKinds
  <2> HIDE DEF tasks, t, finish, msg
  <2>3. /\ EngineGood(q) /\ Keeps(s, q)
        /\ \A e \in q.events : e \in s.events \/ e.msg = Check
        /\ q.taskId = s.taskId /\ q.timerId = s.timerId + 1
        /\ \E b \in BOOLEAN :
             OnlyTimers(s, q, n, s.node[n].timers \cup {Timer(q.timerId, finish, msg, b)})
    BY <2>1, <2>2, SetTimerIsGood
  <2> HIDE DEF q
  <2>4. q \in States /\ q.timerId \in Nat /\ q.taskId \in Nat /\ q.timerId # NoTimer
    BY <2>3, <1>0 DEF EngineGood, NoTimer
  <2>5. /\ running \in Tasks /\ running.id = t.id /\ running.timer = q.timerId
        /\ running.finish = finish /\ running.since = s.now /\ running.length = t.length
        /\ running.ran = t.ran
    BY <1>0, <1>1, <2>1, <2>4 DEF Tasks
  <2> HIDE DEF running
  <2>6. /\ DOMAIN tasks = 1 .. Len(tasks) /\ Len(tasks) \in Nat /\ \A i \in DOMAIN tasks : tasks[i] \in Tasks
    BY <1>0, TasksTyped DEF tasks
  <2>7. new \in Seq(Tasks) /\ DOMAIN new = DOMAIN tasks
    BY <2>5, <2>6
  <2>8. new[1] = running /\ \A i \in DOMAIN tasks : i # 1 => new[i] = tasks[i]
    BY <1>1 DEF tasks
  <2> HIDE DEF new
  <2>9. /\ EngineGood(r)
        /\ r.now = q.now /\ r.events = q.events /\ r.timerId = q.timerId /\ r.taskId = q.taskId
        /\ r.gone = q.gone
        /\ \A m \in Nodes :
              /\ r.node[m].tasks = IF m = n THEN new ELSE q.node[m].tasks
              /\ r.node[m].timers = q.node[m].timers
    <3> HIDE DEF r
    <3>1. TasksSet(q, r, n, new, q.taskId)
      BY <2>3, <2>4, <2>7, NewTasks DEF r
    <3> QED BY <3>1 DEF TasksSet
  <2>10. Run(s, n) = r
    <3>1. Run(s, n) = [q EXCEPT !.node[n].tasks = new]
      BY <1>4 DEF Run, q, new, running, tasks, t, finish, msg
    <3>2. [q EXCEPT !.node[n].tasks = new] = r
      BY <2>4 DEF States, WithTasks
    <3> QED BY <3>1, <3>2
  <2> HIDE DEF r
  <2>11. PICK b \in BOOLEAN :
           OnlyTimers(s, q, n, s.node[n].timers \cup {Timer(q.timerId, finish, msg, b)})
    BY <2>3
  <2> DEFINE T == Timer(q.timerId, finish, msg, b)
  <2>12. T.msg = msg /\ T.id = q.timerId /\ T.timeout = finish
    BY DEF Timer
  <2> HIDE DEF T
  <2>13. \A m \in Nodes :
           /\ r.node[m].tasks = IF m = n THEN new ELSE s.node[m].tasks
           /\ \A u \in r.node[m].timers : (u = T /\ m = n) \/ u \in s.node[m].timers
    BY <2>9, <2>11 DEF T, OnlyTimers
  <2>14. \A i \in DOMAIN tasks : new[i].id = tasks[i].id
    BY <2>5, <2>8 DEF t
  <2>15. r.now = s.now /\ r.taskId = s.taskId /\ \A e \in r.events : e.msg.kind = "taskend" => e \in s.events
    BY <2>3, <2>9 DEF Keeps, Check
  <2>16. /\ \A i \in DOMAIN tasks : TaskOK(tasks[i], s.now, s.taskId)
         /\ \A i, j \in DOMAIN tasks : tasks[i].id = tasks[j].id => i = j
    BY DEF Good, TasksOK, tasks
  <2>17. \A task, timer, due : timer # NoTimer /\ EndOK(tasks, task, timer, due, s.taskId) =>
           EndOK(new, task, timer, due, s.taskId)
    BY <1>1, <1>4, <2>7, <2>8, <2>14 DEF EndOK, t
  <2>18. TasksOK(r)
    <3> SUFFICES ASSUME NEW m \in Nodes
                 PROVE /\ \A i \in DOMAIN r.node[m].tasks : TaskOK(r.node[m].tasks[i], r.now, r.taskId)
                       /\ \A i, j \in DOMAIN r.node[m].tasks :
                            r.node[m].tasks[i].id = r.node[m].tasks[j].id => i = j
                       /\ \A u \in r.node[m].timers : u.msg.kind = "taskend" =>
                            EndOK(r.node[m].tasks, u.msg.task, u.id, u.timeout, r.taskId)
                       /\ \A e \in r.events : e.msg.kind = "taskend" /\ e.to = m =>
                            /\ EndOK(r.node[m].tasks, e.msg.task, e.msg.timer, e.msg.due, r.taskId)
                            /\ e.msg.due <= e.t /\ e.t <= e.msg.due + MaxOp
      BY DEF TasksOK
    <3>1. CASE m # n
      BY <3>1, <2>13, <2>15 DEF Good, TasksOK
    <3>2. CASE m = n
      <4>1. r.node[m].tasks = new
        BY <3>2, <2>13
      <4>2. ASSUME NEW i \in DOMAIN new PROVE TaskOK(new[i], r.now, r.taskId)
        <5>1. CASE i # 1
          BY <5>1, <2>7, <2>8, <2>15, <2>16
        <5>2. CASE i = 1
          <6>1. t.id <= s.taskId /\ t.length = t.ran + t.duration
            BY <1>1, <1>4, <2>16 DEF TaskOK, t
          <6>2. running.length = running.ran + running.finish - running.since
            BY <6>1, <2>5, <1>0, <1>1, TaskTyped DEF finish
          <6> QED BY <6>1, <6>2, <5>2, <2>4, <2>5, <2>8, <2>15, <1>0 DEF TaskOK
        <5> QED BY <5>1, <5>2
      <4>3. \A i, j \in DOMAIN new : new[i].id = new[j].id => i = j
        BY <2>7, <2>14, <2>16
      <4>4. ASSUME NEW u \in r.node[m].timers, u.msg.kind = "taskend"
            PROVE EndOK(new, u.msg.task, u.id, u.timeout, r.taskId)
        <5>1. CASE u = T
          <6>1. t.id <= s.taskId
            BY <1>1, <2>16 DEF TaskOK, t
          <6>2. \A i \in DOMAIN new : new[i].id = t.id => i = 1
            BY <1>1, <2>7, <2>14, <2>16 DEF t
          <6> QED BY <5>1, <6>1, <6>2, <2>2, <2>5, <2>8, <2>12, <2>15 DEF EndOK
        <5>2. CASE u \in s.node[m].timers
          <6>1. EndOK(tasks, u.msg.task, u.id, u.timeout, s.taskId)
            BY <4>4, <5>2, <3>2 DEF Good, TasksOK, tasks
          <6>2. u.id # NoTimer
            BY <5>2, <1>0, NodeTyped, TimerTyped DEF NoTimer
          <6> QED BY <6>1, <6>2, <2>15, <2>17
        <5> QED BY <5>1, <5>2, <2>13
      <4>5. ASSUME NEW e \in r.events, e.msg.kind = "taskend", e.to = m
            PROVE /\ EndOK(new, e.msg.task, e.msg.timer, e.msg.due, r.taskId)
                  /\ e.msg.due <= e.t /\ e.t <= e.msg.due + MaxOp
        <5>1. e \in s.events
          BY <4>5, <2>15
        <5>2. e.msg.timer # NoTimer
          BY <4>5, <5>1, <1>0, ExpirationTyped DEF NoTimer, TimerKinds
        <5>3. /\ EndOK(tasks, e.msg.task, e.msg.timer, e.msg.due, s.taskId)
              /\ e.msg.due <= e.t /\ e.t <= e.msg.due + MaxOp
          BY <4>5, <5>1, <3>2 DEF Good, TasksOK, tasks
        <5> QED BY <5>2, <5>3, <2>15, <2>17
      <4> QED BY <4>1, <4>2, <4>3, <4>4, <4>5
    <3> QED BY <3>1, <3>2
  <2>19. Keeps(s, r)
    <3>1. \A m \in Nodes : TaskIds(s, m) \subseteq TaskIds(r, m)
      BY <2>7, <2>13, <2>14 DEF TaskIds, tasks
    <3> QED BY <3>1, <2>3, <2>9 DEF Keeps
  <2> QED BY <2>9, <2>10, <2>18, <2>19 DEF Good, EngineGood
<1> QED BY <1>3, <1>4

LEMMA PausedTask ==
  ASSUME NEW t \in Tasks, NEW now \in Nat, NEW last, TaskOK(t, now, last), IsRunning(t, now)
  PROVE  /\ Paused(t, now) \in Tasks /\ Paused(t, now).id = t.id
         /\ TaskOK(Paused(t, now), now, last)
<1> DEFINE p == Paused(t, now)
           left1 == t.finish - now
           ran1 == t.ran + now - t.since
<1>1. p = [t EXCEPT !.timer = NoTimer, !.duration = left1, !.ran = ran1]
  BY DEF Paused, Tasks
<1>2. left1 \in Nat /\ ran1 \in Nat /\ t.length = ran1 + left1 /\ t.id <= last
  BY TaskTyped DEF IsRunning, TaskOK
<1> HIDE DEF left1, ran1
<1>3. /\ p \in Tasks /\ p.id = t.id /\ p.timer = NoTimer /\ p.duration = left1 /\ p.ran = ran1
      /\ p.length = t.length
  BY <1>1, <1>2 DEF Tasks
<1> QED BY <1>2, <1>3 DEF TaskOK

\* A task that runs is not over, so no message ends it yet: SimTask::pause
\* leaves nothing of its timer behind.
LEMMA PauseOthersIsGood ==
  ASSUME NEW s, Good(s), NEW n \in Nodes
  PROVE  /\ Good(PauseOthers(s, n)) /\ Keeps(s, PauseOthers(s, n))
         /\ DOMAIN PauseOthers(s, n).node[n].tasks = DOMAIN s.node[n].tasks
<1> DEFINE tasks == s.node[n].tasks
           others == {i \in DOMAIN tasks \ {1} : IsRunning(tasks[i], s.now)}
           ids == {tasks[i].timer : i \in others}
           q == CancelTimers(s, n, ids)
           new == [i \in DOMAIN tasks |-> IF i = 1 THEN tasks[i] ELSE Paused(tasks[i], s.now)]
           r == WithTasks(q, n, new, q.taskId)
<1>0. s \in States /\ s.now \in Nat /\ s.timerId \in Nat /\ s.taskId \in Nat
  BY DEF Good, States
<1>1. /\ DOMAIN tasks = 1 .. Len(tasks) /\ Len(tasks) \in Nat /\ \A i \in DOMAIN tasks : tasks[i] \in Tasks
  BY <1>0, TasksTyped
<1>2. PauseOthers(s, n) = [q EXCEPT !.node[n].tasks = new]
  BY DEF PauseOthers
<1> HIDE DEF ids
<1>3. /\ Good(q) /\ Keeps(s, q)
      /\ q.events = s.events /\ q.taskId = s.taskId
      /\ OnlyTimers(s, q, n, Cancel(s.node[n].timers, ids))
  BY CancelIsGood
<1>4. /\ \A m \in Nodes : q.node[m].tasks = s.node[m].tasks /\ q.node[m].timers \subseteq s.node[m].timers
      /\ \A u \in q.node[n].timers : u.id \notin ids
  BY <1>3 DEF OnlyTimers, Cancel
<1> HIDE DEF q
<1>5. \A i \in DOMAIN tasks : /\ new[i] \in Tasks /\ new[i].id = tasks[i].id
                              /\ TaskOK(new[i], s.now, s.taskId)
                              /\ i \notin others => new[i] = tasks[i]
  <2> SUFFICES ASSUME NEW i \in DOMAIN tasks
               PROVE /\ new[i] \in Tasks /\ new[i].id = tasks[i].id
                     /\ TaskOK(new[i], s.now, s.taskId)
                     /\ i \notin others => new[i] = tasks[i]
    OBVIOUS
  <2>1. tasks[i] \in Tasks /\ TaskOK(tasks[i], s.now, s.taskId)
    BY <1>1 DEF Good, TasksOK
  <2>2. CASE i \notin others
    <3>1. new[i] = tasks[i]
      BY <2>2 DEF Paused
    <3> QED BY <2>1, <3>1
  <2>3. CASE i \in others
    <3>1. new[i] = Paused(tasks[i], s.now) /\ IsRunning(tasks[i], s.now)
      BY <2>3
    <3> QED BY <1>0, <2>1, <2>3, <3>1, PausedTask
  <2> QED BY <2>2, <2>3
<1>6. new \in Seq(Tasks) /\ DOMAIN new = DOMAIN tasks
  <2> DEFINE k == Len(tasks)
  <2>1. DOMAIN new = 1 .. k /\ k \in Nat /\ DOMAIN tasks = 1 .. k /\ new = [i \in 1 .. k |-> new[i]]
    BY <1>1
  <2>2. \A i \in 1 .. k : new[i] \in Tasks
    BY <1>5, <2>1
  <2> HIDE DEF new, k, tasks
  <2>3. new \in Seq(Tasks)
    BY <2>1, <2>2
  <2> QED BY <2>1, <2>3
<1>7. q \in States /\ q.taskId \in Nat
  BY <1>3 DEF Good, States
<1>8. \A i \in others : tasks[i].timer \in ids /\ tasks[i].finish > s.now
  BY DEF ids, IsRunning
<1>9. PauseOthers(s, n) = r
  <2>1. [q EXCEPT !.node[n].tasks = new] = r
    BY <1>7 DEF States, WithTasks
  <2> QED BY <1>2, <2>1
<1> HIDE DEF new, others
<1>10. /\ EngineGood(r)
       /\ r.now = q.now /\ r.events = q.events /\ r.timerId = q.timerId /\ r.taskId = q.taskId
       /\ r.gone = q.gone
       /\ \A m \in Nodes :
             /\ r.node[m].tasks = IF m = n THEN new ELSE q.node[m].tasks
             /\ r.node[m].timers = q.node[m].timers
  <2>1. EngineGood(q)
    BY <1>3 DEF Good, EngineGood
  <2> QED BY <2>1, <1>6, <1>7, NewTasks DEF TasksSet
<1> HIDE DEF r
<1>11. r.now = s.now /\ r.taskId = s.taskId /\ r.events = s.events
  BY <1>3, <1>10 DEF Keeps
<1>12. TasksOK(r)
  <2> SUFFICES ASSUME NEW m \in Nodes
               PROVE /\ \A i \in DOMAIN r.node[m].tasks : TaskOK(r.node[m].tasks[i], r.now, r.taskId)
                     /\ \A i, j \in DOMAIN r.node[m].tasks :
                          r.node[m].tasks[i].id = r.node[m].tasks[j].id => i = j
                     /\ \A u \in r.node[m].timers : u.msg.kind = "taskend" =>
                          EndOK(r.node[m].tasks, u.msg.task, u.id, u.timeout, r.taskId)
                     /\ \A e \in r.events : e.msg.kind = "taskend" /\ e.to = m =>
                          /\ EndOK(r.node[m].tasks, e.msg.task, e.msg.timer, e.msg.due, r.taskId)
                          /\ e.msg.due <= e.t /\ e.t <= e.msg.due + MaxOp
    BY DEF TasksOK
  <2>1. CASE m # n
    BY <2>1, <1>4, <1>10, <1>11 DEF Good, TasksOK
  <2>2. CASE m = n
    <3>1. r.node[m].tasks = new /\ r.node[m].timers \subseteq s.node[m].timers
      BY <2>2, <1>4, <1>10
    <3>2. \A i \in DOMAIN new : TaskOK(new[i], r.now, r.taskId)
      BY <1>5, <1>6, <1>11
    <3>3. \A i, j \in DOMAIN new : new[i].id = new[j].id => i = j
      BY <1>5, <1>6 DEF Good, TasksOK
    <3>4. ASSUME NEW u \in r.node[m].timers, u.msg.kind = "taskend"
          PROVE EndOK(new, u.msg.task, u.id, u.timeout, r.taskId)
      <4>1. EndOK(tasks, u.msg.task, u.id, u.timeout, s.taskId)
        BY <3>1, <3>4, <2>2 DEF Good, TasksOK
      <4>2. u.id \notin ids
        BY <3>4, <1>4, <1>10, <2>2
      <4>3. \A i \in DOMAIN tasks : tasks[i].id = u.msg.task => i \notin others
        BY <4>1, <4>2, <1>8 DEF EndOK
      <4> QED BY <4>1, <4>3, <1>5, <1>6, <1>11 DEF EndOK
    <3>5. ASSUME NEW e \in r.events, e.msg.kind = "taskend", e.to = m
          PROVE /\ EndOK(new, e.msg.task, e.msg.timer, e.msg.due, r.taskId)
                /\ e.msg.due <= e.t /\ e.t <= e.msg.due + MaxOp
      <4>1. /\ EndOK(tasks, e.msg.task, e.msg.timer, e.msg.due, s.taskId)
            /\ e.msg.due <= e.t /\ e.t <= e.msg.due + MaxOp
        BY <3>5, <1>11, <2>2 DEF Good, TasksOK
      <4>2. e.msg.due <= s.now /\ e.msg.due \in Nat
        BY <3>5, <1>0, <1>11, ExpirationTyped DEF Good, ExpirationsOK, TimerKinds
      <4>3. \A i \in DOMAIN tasks : tasks[i].id = e.msg.task => i \notin others
        BY <4>1, <4>2, <1>0, <1>8 DEF EndOK
      <4> QED BY <4>1, <4>3, <1>5, <1>6, <1>11 DEF EndOK
    <3> QED BY <3>1, <3>2, <3>3, <3>4, <3>5
  <2> QED BY <2>1, <2>2
<1>13. Keeps(s, r)
  <2>1. \A m \in Nodes : TaskIds(s, m) \subseteq TaskIds(r, m)
    BY <1>4, <1>5, <1>6, <1>10 DEF TaskIds
  <2> QED BY <2>1, <1>11 DEF Keeps
<1>14. r.node[n].tasks = new
  BY <1>10
<1> QED BY <1>6, <1>9, <1>10, <1>12, <1>13, <1>14 DEF Good, EngineGood

\* Scheduler::switchContext
LEMMA SwitchContextIsGood ==
  ASSUME NEW s, Good(s), NEW n \in Nodes
  PROVE  Good(SwitchContext(s, n)) /\ Keeps(s, SwitchContext(s, n))
<1> DEFINE q == PauseOthers(s, n)
<1>0. s \in States
  BY DEF Good
<1>1. Good(q) /\ Keeps(s, q) /\ DOMAIN q.node[n].tasks = DOMAIN s.node[n].tasks
  BY PauseOthersIsGood
<1> HIDE DEF q
<1>2. CASE s.node[n].tasks = <<>>
  BY <1>0, <1>2 DEF SwitchContext, Keeps
<1>3. CASE s.node[n].tasks # <<>>
  <2>1. 1 \in DOMAIN q.node[n].tasks
    BY <1>0, <1>1, <1>3, TasksTyped
  <2>2. q.node[n].tasks # <<>>
    BY <2>1
  <2>3. Good(Run(q, n)) /\ Keeps(q, Run(q, n))
    BY <1>1, <2>2, RunIsGood
  <2>4. SwitchContext(s, n) = Run(q, n)
    BY <1>3 DEF SwitchContext, q
  <2> QED BY <1>1, <2>3, <2>4, KeepsTransitive
<1> QED BY <1>2, <1>3

\* What a node may have for tasks after it got or lost one.
Replaces(s, n, tasks, last) ==
  /\ s.taskId <= last
  /\ \A i \in DOMAIN tasks :
       \/ \E j \in DOMAIN s.node[n].tasks : tasks[i] = s.node[n].tasks[j]
       \/ tasks[i].id > s.taskId /\ TaskOK(tasks[i], s.now, last)
  /\ \A i, j \in DOMAIN tasks : tasks[i].id = tasks[j].id => i = j

\* Tasks with new identifiers, or fewer tasks, are as good as the old ones.
LEMMA OtherTasksAreGood ==
  ASSUME NEW s, Good(s), NEW n \in Nodes, NEW tasks \in Seq(Tasks), NEW last \in Nat,
         Replaces(s, n, tasks, last)
  PROVE  LET r == WithTasks(s, n, tasks, last) IN
         /\ Good(r) /\ r.now = s.now /\ r.events = s.events
         /\ \A m \in Nodes : r.node[m].tasks = IF m = n THEN tasks ELSE s.node[m].tasks
<1> DEFINE r == WithTasks(s, n, tasks, last)
<1>0. s \in States /\ s.taskId \in Nat
  BY DEF Good, States
<1>1. /\ EngineGood(r)
      /\ r.now = s.now /\ r.events = s.events /\ r.timerId = s.timerId /\ r.taskId = last
      /\ r.gone = s.gone
      /\ \A m \in Nodes :
           /\ r.node[m].tasks = IF m = n THEN tasks ELSE s.node[m].tasks
           /\ r.node[m].timers = s.node[m].timers
  <2>1. EngineGood(s)
    BY DEF Good, EngineGood
  <2> QED BY <2>1, NewTasks DEF TasksSet
<1> HIDE DEF r
<1>R. /\ s.taskId <= last
      /\ \A i \in DOMAIN tasks :
           \/ \E j \in DOMAIN s.node[n].tasks : tasks[i] = s.node[n].tasks[j]
           \/ tasks[i].id > s.taskId /\ TaskOK(tasks[i], s.now, last)
      /\ \A i, j \in DOMAIN tasks : tasks[i].id = tasks[j].id => i = j
  BY DEF Replaces
<1> DEFINE old == s.node[n].tasks
<1>2. \A i \in DOMAIN old : old[i] \in Tasks /\ old[i].id \in Nat
  BY <1>0, TasksTyped, TaskTyped
<1>3. \A m \in Nodes : \A i \in DOMAIN s.node[m].tasks :
        TaskOK(s.node[m].tasks[i], s.now, last)
  <2> SUFFICES ASSUME NEW m \in Nodes, NEW i \in DOMAIN s.node[m].tasks
               PROVE TaskOK(s.node[m].tasks[i], s.now, last)
    OBVIOUS
  <2>1. TaskOK(s.node[m].tasks[i], s.now, s.taskId)
    BY DEF Good, TasksOK
  <2>2. s.node[m].tasks[i].id \in Nat
    BY <1>0, TasksTyped, TaskTyped
  <2> QED BY <2>1, <2>2, <1>0, <1>R DEF TaskOK
<1>4. \A timer, due : \A m \in Nodes, task \in Nat :
        EndOK(s.node[m].tasks, task, timer, due, s.taskId) =>
          EndOK(r.node[m].tasks, task, timer, due, last)
  <2> SUFFICES ASSUME NEW m \in Nodes, NEW task \in Nat, NEW timer, NEW due,
                      EndOK(s.node[m].tasks, task, timer, due, s.taskId)
               PROVE EndOK(r.node[m].tasks, task, timer, due, last)
    OBVIOUS
  <2>1. task <= s.taskId /\ task <= last
    BY <1>0, <1>R DEF EndOK
  <2>2. CASE m # n
    BY <2>1, <2>2, <1>1 DEF EndOK
  <2>3. CASE m = n
    <3>1. \A i \in DOMAIN tasks : tasks[i].id = task => \E j \in DOMAIN old : tasks[i] = old[j]
      BY <1>0, <1>R, <2>1
    <3> QED BY <2>1, <2>3, <3>1, <1>1 DEF EndOK
  <2> QED BY <2>2, <2>3
<1>5. \A u \in Timers : u.msg.task \in Nat
  BY DEF Timers, TimerMsgs
<1>6. TasksOK(r)
  <2> SUFFICES ASSUME NEW m \in Nodes
               PROVE /\ \A i \in DOMAIN r.node[m].tasks : TaskOK(r.node[m].tasks[i], r.now, r.taskId)
                     /\ \A i, j \in DOMAIN r.node[m].tasks :
                          r.node[m].tasks[i].id = r.node[m].tasks[j].id => i = j
                     /\ \A u \in r.node[m].timers : u.msg.kind = "taskend" =>
                          EndOK(r.node[m].tasks, u.msg.task, u.id, u.timeout, r.taskId)
                     /\ \A e \in r.events : e.msg.kind = "taskend" /\ e.to = m =>
                          /\ EndOK(r.node[m].tasks, e.msg.task, e.msg.timer, e.msg.due, r.taskId)
                          /\ e.msg.due <= e.t /\ e.t <= e.msg.due + MaxOp
    BY DEF TasksOK
  <2>1. \A i \in DOMAIN r.node[m].tasks : TaskOK(r.node[m].tasks[i], r.now, r.taskId)
    BY <1>1, <1>3, <1>R
  <2>2. \A i, j \in DOMAIN r.node[m].tasks : r.node[m].tasks[i].id = r.node[m].tasks[j].id => i = j
    BY <1>1, <1>R DEF Good, TasksOK
  <2>3. \A u \in r.node[m].timers : u.msg.kind = "taskend" =>
          EndOK(r.node[m].tasks, u.msg.task, u.id, u.timeout, r.taskId)
    <3>1. r.node[m].timers = s.node[m].timers /\ r.node[m].timers \subseteq Timers
      BY <1>0, <1>1, NodeTyped
    <3> QED BY <3>1, <1>1, <1>4, <1>5 DEF Good, TasksOK
  <2>4. \A e \in r.events : e.msg.kind = "taskend" /\ e.to = m =>
          /\ EndOK(r.node[m].tasks, e.msg.task, e.msg.timer, e.msg.due, r.taskId)
          /\ e.msg.due <= e.t /\ e.t <= e.msg.due + MaxOp
    <3>1. \A e \in r.events : e.msg.kind = "taskend" => e \in s.events /\ e.msg.task \in Nat
      BY <1>0, <1>1, ExpirationTyped DEF TimerKinds
    <3> QED BY <3>1, <1>1, <1>4 DEF Good, TasksOK
  <2> QED BY <2>1, <2>2, <2>3, <2>4
<1> QED BY <1>1, <1>6 DEF Good, EngineGood, r

\* Scheduler::accept
LEMMA AcceptIsGood ==
  ASSUME NEW s, Good(s), NEW n \in Nodes, NEW length \in Nat, NEW first \in BOOLEAN
  PROVE  Good(Accept(s, n, length, first)) /\ Keeps(s, Accept(s, n, length, first))
<1> DEFINE t == Task(s.taskId + 1, length)
           old == s.node[n].tasks
           k == Len(old)
           tasks == IF first THEN <<t>> \o old ELSE Append(old, t)
           last == s.taskId + 1
           r == WithTasks(s, n, tasks, last)
<1>0. s \in States /\ s.taskId \in Nat /\ s.now \in Nat
  BY DEF Good, States
<1>1. t \in Tasks /\ t.id = last /\ TaskOK(t, s.now, last) /\ last \in Nat /\ s.taskId < last
  <2>1. /\ t.id = last /\ t.duration = length /\ t.timer = NoTimer /\ t.length = length /\ t.ran = 0
        /\ t \in Tasks /\ last \in Nat
    BY <1>0 DEF Task, Tasks
  <2> HIDE DEF t
  <2> QED BY <2>1, <1>0 DEF TaskOK
<1>2. /\ old \in Seq(Tasks) /\ k \in Nat /\ DOMAIN old = 1 .. k
      /\ \A i \in DOMAIN old : old[i].id \in Nat /\ old[i].id <= s.taskId
  <2>1. \A i \in DOMAIN old : TaskOK(old[i], s.now, s.taskId)
    BY DEF Good, TasksOK
  <2> QED BY <2>1, <1>0, NodeTyped, TasksTyped, TaskTyped DEF TaskOK
<1>3. \A i, j \in DOMAIN old : old[i].id = old[j].id => i = j
  BY DEF Good, TasksOK
<1>4. Accept(s, n, length, first) = SwitchContext(r, n)
  <2>1. [s EXCEPT !.taskId = @ + 1, !.node[n].tasks = IF first THEN <<t>> \o @ ELSE Append(@, t)] = r
    BY <1>0 DEF WithTasks, States
  <2> QED BY <2>1 DEF Accept
<1> HIDE DEF t, last, old, k
<1>5. /\ tasks \in Seq(Tasks) /\ DOMAIN tasks = 1 .. k + 1
      /\ \A i \in DOMAIN tasks :
           tasks[i] = IF first THEN IF i = 1 THEN t ELSE old[i - 1]
                      ELSE IF i = k + 1 THEN t ELSE old[i]
      /\ \A i \in DOMAIN old : old[i] = tasks[IF first THEN i + 1 ELSE i]
  <2>0. k = Len(old)
    BY DEF k
  <2>1. CASE first
    BY <2>0, <2>1, <1>1, <1>2
  <2>2. CASE ~first
    BY <2>0, <2>2, <1>1, <1>2
  <2> QED BY <2>1, <2>2
<1> HIDE DEF tasks
<1>6. \A i \in DOMAIN tasks : tasks[i] = t \/ \E j \in DOMAIN old : tasks[i] = old[j]
  BY <1>2, <1>5
<1>7. \A i, j \in DOMAIN tasks : tasks[i].id = tasks[j].id => i = j
  <2>1. \A i \in DOMAIN old : old[i].id # last
    BY <1>0, <1>1, <1>2
  <2>2. CASE first
    <3>1. /\ tasks[1] = t /\ DOMAIN tasks = 1 .. k + 1
          /\ \A i \in 2 .. k + 1 : i - 1 \in DOMAIN old /\ tasks[i] = old[i - 1]
      <4>1. /\ 1 \in DOMAIN tasks
            /\ \A i \in 2 .. k + 1 : i \in DOMAIN tasks /\ i # 1 /\ i - 1 \in DOMAIN old
        BY <1>2, <1>5
      <4> QED BY <1>5, <2>2, <4>1
    <3>2. \A i \in 2 .. k + 1 : tasks[i].id # last
      BY <2>1, <3>1
    <3>3. ASSUME NEW i \in 2 .. k + 1, NEW j \in 2 .. k + 1, tasks[i].id = tasks[j].id
          PROVE  i = j
      <4>1. i - 1 = j - 1
        BY <1>3, <3>1, <3>3
      <4>2. i \in Nat /\ j \in Nat
        BY <1>2
      <4> QED BY <4>1, <4>2
    <3>4. tasks[1].id = last /\ DOMAIN tasks = {1} \cup 2 .. k + 1
      <4>1. k \in Nat
        BY <1>2
      <4> QED BY <1>1, <3>1, <4>1
    <3> QED BY <3>2, <3>3, <3>4
  <2>3. CASE ~first
    <3>1. /\ tasks[k + 1] = t /\ DOMAIN tasks = 1 .. k + 1
          /\ \A i \in 1 .. k : i \in DOMAIN old /\ tasks[i] = old[i]
      BY <1>2, <1>5, <2>3
    <3>2. \A i \in 1 .. k : tasks[i].id # last
      BY <2>1, <3>1
    <3>3. \A i, j \in 1 .. k : tasks[i].id = tasks[j].id => i = j
      BY <1>3, <3>1
    <3>4. tasks[k + 1].id = last /\ DOMAIN tasks = 1 .. k \cup {k + 1}
      <4>1. k \in Nat
        BY <1>2
      <4> QED BY <1>1, <3>1, <4>1
    <3> QED BY <3>2, <3>3, <3>4
  <2> QED BY <2>2, <2>3
<1>8. /\ Good(r) /\ r.now = s.now /\ r.events = s.events
      /\ \A m \in Nodes : r.node[m].tasks = IF m = n THEN tasks ELSE s.node[m].tasks
  <2>1. \A i \in DOMAIN tasks :
          \/ \E j \in DOMAIN s.node[n].tasks : tasks[i] = s.node[n].tasks[j]
          \/ tasks[i].id > s.taskId /\ TaskOK(tasks[i], s.now, last)
    BY <1>0, <1>1, <1>6 DEF old
  <2>2. s.taskId <= last
    BY <1>0, <1>1
  <2>3. Replaces(s, n, tasks, last)
    BY <2>1, <2>2, <1>7 DEF Replaces
  <2> QED BY <2>3, <1>1, <1>5, OtherTasksAreGood
<1> HIDE DEF r
<1>9. Keeps(s, r)
  <2>1. \A i \in DOMAIN old : \E j \in DOMAIN tasks : tasks[j] = old[i]
    <3>1. CASE first
      BY <3>1, <1>2, <1>5
    <3>2. CASE ~first
      BY <3>2, <1>2, <1>5
    <3> QED BY <3>1, <3>2
  <2>2. \A m \in Nodes : TaskIds(s, m) \subseteq TaskIds(r, m)
    BY <2>1, <1>8 DEF TaskIds, old
  <2> QED BY <2>2, <1>8 DEF Keeps
<1>10. Good(SwitchContext(r, n)) /\ Keeps(r, SwitchContext(r, n))
  BY <1>8, SwitchContextIsGood
<1> QED BY <1>4, <1>9, <1>10, KeepsTransitive

LEMMA RemoveAtProperties ==
  ASSUME NEW S, NEW q \in Seq(S), NEW i \in 1 .. Len(q)
  PROVE  /\ RemoveAt(q, i) \in Seq(S) /\ DOMAIN RemoveAt(q, i) = 1 .. Len(q) - 1
         /\ \A j \in DOMAIN RemoveAt(q, i) : RemoveAt(q, i)[j] = IF j < i THEN q[j] ELSE q[j + 1]
<1> DEFINE k == Len(q)
           A == SubSeq(q, 1, i - 1)
           B == SubSeq(q, i + 1, k)
<1>1. k \in Nat /\ DOMAIN q = 1 .. k /\ \A j \in 1 .. k : q[j] \in S
  OBVIOUS
<1>2. A \in Seq(S) /\ Len(A) = i - 1 /\ \A j \in 1 .. i - 1 : A[j] = q[j]
  BY <1>1
<1>3. B \in Seq(S) /\ Len(B) = k - i /\ \A j \in 1 .. k - i : B[j] = q[j + i]
  <2>1. B = [j \in 1 .. (1 + k - (i + 1)) |-> q[j + (i + 1) - 1]]
    BY <1>1
  <2>2. 1 + k - (i + 1) = k - i /\ k - i \in Nat
    BY <1>1
  <2>3. \A j \in 1 .. k - i : j + (i + 1) - 1 = j + i /\ j + i \in 1 .. k
    BY <1>1
  <2> HIDE DEF B
  <2>4. \A j \in 1 .. k - i : B[j] = q[j + i] /\ B[j] \in S
    BY <2>1, <2>2, <2>3, <1>1
  <2> QED BY <2>1, <2>2, <2>4
<1>4. RemoveAt(q, i) = A \o B
  BY DEF RemoveAt
<1> HIDE DEF A, B, k
<1> DEFINE C == A \o B
<1>5. C \in Seq(S) /\ Len(C) = Len(A) + Len(B) /\ DOMAIN C = 1 .. Len(C)
  <2>1. A \in Seq(S) /\ B \in Seq(S)
    BY <1>2, <1>3
  <2>2. C \in Seq(S)
    BY ONLY <2>1
  <2>3. Len(C) = Len(A) + Len(B)
    BY ONLY <2>1
  <2> HIDE DEF C
  <2> QED BY <2>2, <2>3
<1>6. Len(A) + Len(B) = k - 1
  BY <1>1, <1>2, <1>3
<1>7. ASSUME NEW j \in 1 .. k - 1 PROVE C[j] = IF j < i THEN q[j] ELSE q[j + 1]
  <2>1. CASE j < i
    BY <2>1, <1>1, <1>2, <1>3
  <2>2. CASE ~(j < i)
    <3>1. C[j] = B[j - (i - 1)]
      BY <2>2, <1>1, <1>2, <1>3
    <3>2. j - (i - 1) \in 1 .. k - i /\ j - (i - 1) + i = j + 1
      BY <2>2, <1>1
    <3> QED BY <2>2, <3>1, <3>2, <1>3
  <2> QED BY <2>1, <2>2
<1> QED BY <1>4, <1>5, <1>6, <1>7 DEF k

\* Scheduler::handle(TaskStateChgMsg) forgets one task at most.
LEMMA EndTaskIsGood ==
  ASSUME NEW s, Good(s), NEW n \in Nodes, NEW task
  PROVE  LET r == EndTask(s, n, task) IN
         /\ Good(r) /\ r.now = s.now /\ s.events \subseteq r.events
         /\ \A m \in Nodes : TaskIds(s, m) \subseteq TaskIds(r, m) \cup (IF m = n THEN {task} ELSE {})
<1> DEFINE r == EndTask(s, n, task)
           old == s.node[n].tasks
           k == Len(old)
<1>0. s \in States /\ s.taskId \in Nat /\ s.now \in Nat
  BY DEF Good, States
<1>1. CASE ~\E i \in DOMAIN old : old[i].id = task
  <2>1. r = SwitchContext(s, n)
    BY <1>1 DEF EndTask
  <2>2. Good(r) /\ Keeps(s, r)
    BY <2>1, SwitchContextIsGood
  <2> HIDE DEF r
  <2> QED BY <2>2 DEF Keeps, r
<1>2. CASE \E i \in DOMAIN old : old[i].id = task
  <2> DEFINE i == CHOOSE j \in DOMAIN old : old[j].id = task
             tasks == RemoveAt(old, i)
             q == WithTasks(s, n, tasks, s.taskId)
  <2>1. i \in DOMAIN old /\ old[i].id = task
    BY <1>2
  <2>2. r = SwitchContext(q, n)
    <3>1. [s EXCEPT !.node[n].tasks = RemoveAt(@, i)] = q
      BY <1>0 DEF WithTasks, States
    <3> QED BY <3>1, <1>2 DEF EndTask
  <2>3. /\ old \in Seq(Tasks) /\ k \in Nat /\ DOMAIN old = 1 .. k /\ k = Len(old)
        /\ \A j \in DOMAIN old : old[j].id \in Nat /\ old[j].id <= s.taskId
    <3>1. \A j \in DOMAIN old : TaskOK(old[j], s.now, s.taskId)
      BY DEF Good, TasksOK
    <3> QED BY <3>1, <1>0, NodeTyped, TasksTyped, TaskTyped DEF TaskOK
  <2>4. \A a, b \in DOMAIN old : old[a].id = old[b].id => a = b
    BY DEF Good, TasksOK
  <2> HIDE DEF i, old, k, r
  <2>5. /\ tasks \in Seq(Tasks) /\ DOMAIN tasks = 1 .. k - 1
        /\ \A j \in DOMAIN tasks : tasks[j] = IF j < i THEN old[j] ELSE old[j + 1]
    <3>1. i \in 1 .. k
      BY <2>1, <2>3
    <3> QED BY <3>1, <2>3, RemoveAtProperties
  <2> HIDE DEF tasks
  <2> DEFINE from(j) == IF j < i THEN j ELSE j + 1
  <2>A. \A j \in DOMAIN tasks : from(j) \in DOMAIN old /\ tasks[j] = old[from(j)]
    BY <2>1, <2>3, <2>5
  <2>B. \A a, b \in DOMAIN tasks : from(a) = from(b) => a = b
    BY <2>1, <2>3, <2>5
  <2> HIDE DEF from
  <2>6. \A j \in DOMAIN tasks : \E a \in DOMAIN old : tasks[j] = old[a]
    BY <2>A
  <2>7. \A a, b \in DOMAIN tasks : tasks[a].id = tasks[b].id => a = b
    BY <2>4, <2>A, <2>B
  <2>8. \A a \in DOMAIN old : a = i \/ \E j \in DOMAIN tasks : tasks[j] = old[a]
    <3> SUFFICES ASSUME NEW a \in DOMAIN old, a # i
                 PROVE \E j \in DOMAIN tasks : tasks[j] = old[a]
      OBVIOUS
    <3>1. CASE a < i
      <4>1. a \in DOMAIN tasks
        BY <3>1, <2>1, <2>3, <2>5
      <4> QED BY <4>1, <3>1, <2>5
    <3>2. CASE a > i
      <4>1. a - 1 \in DOMAIN tasks /\ ~(a - 1 < i) /\ a - 1 + 1 = a
        BY <3>2, <2>1, <2>3, <2>5
      <4> QED BY <4>1, <2>5
    <3> QED BY <3>1, <3>2, <2>1, <2>3
  <2>9. /\ Good(q) /\ q.now = s.now /\ q.events = s.events
        /\ \A m \in Nodes : q.node[m].tasks = IF m = n THEN tasks ELSE s.node[m].tasks
    <3>1. \A j \in DOMAIN tasks :
            \/ \E a \in DOMAIN s.node[n].tasks : tasks[j] = s.node[n].tasks[a]
            \/ tasks[j].id > s.taskId /\ TaskOK(tasks[j], s.now, s.taskId)
      BY <2>6 DEF old
    <3>2. s.taskId <= s.taskId
      BY <1>0
    <3>3. Replaces(s, n, tasks, s.taskId)
      BY <3>1, <3>2, <2>7 DEF Replaces
    <3> QED BY <3>3, <1>0, <2>5, OtherTasksAreGood
  <2> HIDE DEF q
  <2>10. Good(r) /\ Keeps(q, r)
    BY <2>2, <2>9, SwitchContextIsGood
  <2>11. \A m \in Nodes : TaskIds(s, m) \subseteq TaskIds(q, m) \cup (IF m = n THEN {task} ELSE {})
    BY <2>1, <2>8, <2>9 DEF TaskIds, old
  <2> QED BY <2>9, <2>10, <2>11 DEF Keeps, r
<1> QED BY <1>1, <1>2

\* Messages of the services, to another node and to oneself.
LEMMA SendIsGood ==
  ASSUME NEW s, Good(s), NEW from \in Nodes, NEW to \in Nodes, NEW delay \in Nat, NEW op \in Nat
  PROVE  LET r == Send(s, from, to, App, delay, op) IN Good(r) /\ Keeps(s, r)
<1> DEFINE r == Send(s, from, to, App, delay, op)
<1>0. s \in States /\ s.now \in Nat
  BY DEF Good, States
<1>1. CASE from = to
  <2>1. r = Put(s, s.now + op, from, to, 0, App) /\ s.now + op \in Nat /\ s.now <= s.now + op
    BY <1>0, <1>1 DEF Send
  <2> QED BY <2>1, <1>1, PutIsGood
<1>2. CASE from # to
  <2> DEFINE out == NewOutEnd(s.node[from].outEnd, from, s.now)
             slow == IF InTime[to] > OutTime[from] THEN InTime[to] - OutTime[from] ELSE 0
             q == [s EXCEPT !.node[from].outEnd = out]
             newNode == [s.node EXCEPT ![from].outEnd = out]
             t == out + slow + delay
  <2>1. InTime[to] \in Nat /\ OutTime[from] \in Nat /\ s.node[from].outEnd \in Nat
    BY <1>0, NodeTyped, SimulationAssumption DEF SimulationAssumption
  <2>2. out \in Nat /\ s.now <= out /\ slow \in Nat
    BY <2>1, <1>0 DEF NewOutEnd, Later
  <2>3. t \in Nat /\ s.now <= t
    BY <2>2, <1>0
  <2>4. r = Put(q, t, from, to, 1, App)
    BY <1>2 DEF Send
  <2> HIDE DEF out, slow, t, r
  <2>5. q = [s EXCEPT !.node = newNode]
    BY <1>0 DEF States
  <2>6. newNode \in [Nodes -> NodeStates]
    BY <1>0, <2>2 DEF States, NodeStates
  <2>7. \A m \in Nodes :
          /\ newNode[m].tasks = s.node[m].tasks /\ newNode[m].timers = s.node[m].timers
          /\ newNode[m].inEnd = s.node[m].inEnd /\ newNode[m].heard = s.node[m].heard
    BY <1>0 DEF States, NodeStates
  <2> HIDE DEF newNode, q
  <2>8. /\ q \in States /\ q.now = s.now /\ q.timerId = s.timerId /\ q.node = newNode
        /\ q.gone = s.gone /\ q.taskId = s.taskId /\ q.events = s.events
    BY <1>0, <2>5, <2>6 DEF States
  <2>9. FutureOK(q) /\ TimersOK(q) /\ ExpirationsOK(q) /\ ChecksOK(q)
    BY <2>7, <2>8 DEF Good, FutureOK, TimersOK, ExpirationsOK, ChecksOK
  <2>10. LinksOK(q)
    <3>1. \A e \in s.events : e.to \in Nodes
      BY <1>0 DEF States, Events
    <3> QED BY <2>7, <2>8, <3>1 DEF Good, LinksOK
  <2>11. TasksOK(q)
    BY <2>7, <2>8 DEF Good, TasksOK
  <2>12. Good(q) /\ Keeps(s, q)
    BY <2>7, <2>8, <2>9, <2>10, <2>11 DEF Good, Keeps, TaskIds
  <2>13. Good(r) /\ Keeps(q, r)
    <3>1. q.now <= t
      BY <2>3, <2>8
    <3> QED BY <2>3, <2>4, <2>12, <3>1, <1>2, PutIsGood
  <2> QED BY <2>12, <2>13, KeepsTransitive DEF r
<1> QED BY <1>1, <1>2

-----------------------------------------------------------------------------
(* The event that the loop takes.                                          *)

\* A set of naturals has a least element.
LEMMA LeastNumber ==
  ASSUME NEW S \in SUBSET Nat, S # {}
  PROVE  \E x \in S : \A y \in S : x <= y
<1> DEFINE R == {ss \in Nat \X Nat : ss[1] < ss[2]}
<1>1. IsWellFoundedOn(R, Nat)
  BY NatLessThanWellFounded DEF OpToRel
<1> HIDE DEF R
<1>2. PICK x \in S : \A y \in S : ~ (<<y, x>> \in R)
  BY <1>1, WFMin
<1>3. ASSUME NEW y \in S PROVE x <= y
  <2>1. x \in Nat /\ y \in Nat /\ ~ (<<y, x>> \in R)
    BY <1>2
  <2> QED BY <2>1 DEF R
<1> QED BY <1>3

\* And a greatest one, if it has a bound.
LEMMA GreatestNumberUpTo ==
  ASSUME NEW n \in Nat, NEW S \in SUBSET (0 .. n), S # {}
  PROVE  \E x \in S : \A y \in S : y <= x
<1> DEFINE T == {n - y : y \in S}
<1>1. T \in SUBSET Nat /\ T # {}
  <2>1. \A y \in S : n - y \in Nat
    OBVIOUS
  <2> QED BY <2>1
<1>2. PICK x \in T : \A z \in T : x <= z
  <2> HIDE DEF T
  <2> QED BY <1>1, LeastNumber
<1>3. PICK y \in S : x = n - y
  OBVIOUS
<1>4. \A z \in S : n - y <= n - z
  BY <1>2, <1>3
<1> QED BY <1>4

\* timerList is never empty at its front: timers with different identifiers
\* have a first one.
LEMMA FirstTimerExists ==
  ASSUME NEW timers \in SUBSET Timers, timers # {}, NEW bound \in Nat,
         \A u \in timers : u.id <= bound,
         \A u, v \in timers : u.id = v.id => u = v
  PROVE  /\ FirstTimer(timers) \in timers
         /\ \A u \in timers \ {FirstTimer(timers)} : Precedes(FirstTimer(timers), u)
<1> DEFINE times == {u.timeout : u \in timers}
<1>1. PICK x \in times : \A y \in times : x <= y
  <2>1. times \in SUBSET Nat /\ times # {}
    BY TimerTyped
  <2> HIDE DEF times
  <2> QED BY <2>1, LeastNumber
<1> DEFINE ids == {u.id : u \in {v \in timers : v.timeout = x}}
<1>2. PICK i \in ids : \A j \in ids : j <= i
  <2>1. ids \in SUBSET (0 .. bound) /\ ids # {}
    BY TimerTyped
  <2> HIDE DEF ids
  <2> QED BY <2>1, GreatestNumberUpTo
<1>3. PICK t \in timers : t.timeout = x /\ t.id = i
  OBVIOUS
<1>4. ASSUME NEW u \in timers \ {t} PROVE Precedes(t, u)
  <2>1. t.timeout <= u.timeout /\ t.id # u.id
    BY <1>1, <1>3
  <2>2. t.timeout = u.timeout => u.id <= t.id
    BY <1>2, <1>3
  <2> QED BY <2>1, <2>2, TimerTyped DEF Precedes
<1>5. \E w \in timers : \A u \in timers \ {w} : Precedes(w, u)
  BY <1>4
<1> QED BY <1>5 DEF FirstTimer

LEMMA CurrentFields ==
  /\ Current.now = time /\ Current.events = events /\ Current.lastId = lastId
  /\ Current.timerId = timerId /\ Current.taskId = taskId /\ Current.node = node
  /\ Current.gone = gone
BY DEF Current

LEMMA PoppedFields ==
  ASSUME NEW e
  PROVE  /\ Popped(e).now = e.t /\ Popped(e).events = events \ {e} /\ Popped(e).lastId = lastId
         /\ Popped(e).timerId = timerId /\ Popped(e).taskId = taskId /\ Popped(e).node = node
         /\ Popped(e).gone = gone
BY DEF Popped

LEMMA EventTyped ==
  ASSUME NEW s \in States, NEW e \in s.events
  PROVE  /\ e \in Events /\ e.id \in Nat /\ e.t \in Nat /\ e.from \in Nodes /\ e.to \in Nodes
         /\ e.size \in Nat /\ e.msg \in Msgs /\ e.queued \in BOOLEAN
<1>1. e \in Events
  BY DEF States
<1> QED BY <1>1 DEF Events

\* Without its next event the engine is as good as it was, but for a check.
LEMMA PoppedIsGood ==
  ASSUME IInv, NEW e \in events, IsNext(e)
  PROVE  LET p == Popped(e) IN
         /\ p \in States /\ FutureOK(p) /\ TimersOK(p) /\ ExpirationsOK(p) /\ LinksOK(p) /\ TasksOK(p)
         /\ e.msg # Check => Good(p)
         /\ \A f \in events : e.t <= f.t
<1> DEFINE p == Popped(e)
           c == Current
<1>1. /\ p.now = e.t /\ p.events = c.events \ {e} /\ p.lastId = c.lastId
      /\ p.timerId = c.timerId /\ p.taskId = c.taskId /\ p.node = c.node /\ p.gone = c.gone
  BY CurrentFields, PoppedFields
<1>2. Good(c) /\ c \in States /\ e \in c.events
  BY CurrentFields DEF IInv, Good
<1>3. \A f \in c.events : e.t <= f.t
  <2>1. \A f \in c.events : f.t \in Nat
    BY <1>2, EventTyped
  <2> QED BY <1>2, <2>1, CurrentFields DEF IsNext
<1>4. c.now \in Nat /\ e.t \in Nat /\ c.now <= e.t
  BY <1>2, EventTyped DEF Good, FutureOK, States
<1>5. p \in States
  <2>1. p = [now |-> e.t, events |-> c.events \ {e}, lastId |-> c.lastId, timerId |-> c.timerId,
             taskId |-> c.taskId, node |-> c.node, gone |-> c.gone]
    BY CurrentFields DEF Popped
  <2> HIDE DEF p, c
  <2> QED BY <2>1, <1>2, <1>4 DEF States
<1>6. \A f \in c.events : e.t <= f.t
  BY <1>3, CurrentFields
<1> HIDE DEF p, c
<1>7. FutureOK(p)
  BY <1>1, <1>2, <1>3 DEF Good, FutureOK
<1>8. TimersOK(p)
  BY <1>1, <1>2 DEF Good, TimersOK
<1>9. ExpirationsOK(p)
  <2> SUFFICES ASSUME NEW f \in p.events, f.msg.kind \in TimerKinds
               PROVE /\ f.msg.timer <= p.timerId /\ f.msg.timer \notin p.gone /\ f.msg.due <= p.now
                     /\ \A n \in Nodes : \A u \in p.node[n].timers : u.id # f.msg.timer
                     /\ \A g \in p.events : g.msg.kind \in TimerKinds /\ g.msg.timer = f.msg.timer => g = f
    BY DEF ExpirationsOK
  <2>1. f \in c.events /\ f.msg.due \in Nat
    BY <1>1, <1>2, ExpirationTyped
  <2> QED BY <1>1, <1>2, <1>4, <2>1 DEF Good, ExpirationsOK
<1>10. LinksOK(p)
  BY <1>1, <1>2 DEF Good, LinksOK
<1>11. TasksOK(p)
  <2>1. \A n \in Nodes : \A i \in DOMAIN c.node[n].tasks : TaskOK(c.node[n].tasks[i], e.t, c.taskId)
    <3> SUFFICES ASSUME NEW n \in Nodes, NEW i \in DOMAIN c.node[n].tasks
                 PROVE TaskOK(c.node[n].tasks[i], e.t, c.taskId)
      OBVIOUS
    <3>1. TaskOK(c.node[n].tasks[i], c.now, c.taskId)
      BY <1>2 DEF Good, TasksOK
    <3>2. c.node[n].tasks[i].since \in Nat
      BY <1>2, TasksTyped, TaskTyped
    <3> QED BY <3>1, <3>2, <1>4 DEF TaskOK
  <2> QED BY <2>1, <1>1, <1>2 DEF Good, TasksOK
<1>12. ASSUME e.msg # Check PROVE Good(p)
  <2>1. ChecksOK(p)
    BY <1>1, <1>2, <1>12 DEF Good, ChecksOK
  <2> QED BY <2>1, <1>5, <1>7, <1>8, <1>9, <1>10, <1>11 DEF Good
<1> QED BY <1>5, <1>7, <1>8, <1>9, <1>10, <1>11, <1>12, <1>6, CurrentFields DEF p, c

\* An event that gets to its node: what its link and its timer tell.
LEMMA ArrivedIsGood ==
  ASSUME IInv, NEW e \in events, IsNext(e), e.msg # Check, ~LinkIsBusy(e)
  PROVE  LET r == Arrived(e) IN
         /\ Good(r) /\ r.now = e.t /\ r.events = events \ {e}
         /\ \A n \in Nodes : r.node[n].tasks = node[n].tasks
         /\ e.from # e.to /\ node[e.to].heard > 0 => e.t >= node[e.to].heard + InTime[e.to]
<1> DEFINE p == Popped(e)
           n == e.to
           c == Current
           inEnd == IF FromNetwork(e) THEN InEndAfter(e) ELSE node[n].inEnd
           heard == IF e.from # e.to THEN e.t ELSE node[n].heard
           gone1 == IF e.msg.kind \in TimerKinds THEN gone \cup {e.msg.timer} ELSE gone
           newNode == [node EXCEPT ![n].inEnd = inEnd, ![n].heard = heard]
           r == Arrived(e)
<1>1. /\ p.now = e.t /\ p.events = events \ {e} /\ p.lastId = lastId
      /\ p.timerId = timerId /\ p.taskId = taskId /\ p.node = node /\ p.gone = gone
  BY PoppedFields
<1>2. Good(p) /\ p \in States /\ \A f \in events : e.t <= f.t
  BY PoppedIsGood DEF Good
<1> HIDE DEF p
<1>3. Good(c) /\ c \in States /\ e \in c.events /\ c.events = events /\ c.node = node /\ c.gone = gone
      /\ c.timerId = timerId /\ c.now = time
  BY CurrentFields DEF IInv, Good
<1> HIDE DEF c
<1>4. n \in Nodes /\ e.t \in Nat /\ e.size \in Nat /\ InTime[n] \in Nat \ {0}
  BY <1>3, EventTyped, SimulationAssumption DEF SimulationAssumption
<1>5. /\ node[n].inEnd \in Nat /\ node[n].heard \in Nat
      /\ node \in [Nodes -> NodeStates]
  BY <1>3, <1>4, NodeTyped DEF States
<1>6. InEndAfter(e) \in Nat /\ e.t <= InEndAfter(e) /\ node[n].inEnd + InTime[n] <= InEndAfter(e)
  BY <1>4, <1>5 DEF InEndAfter, NewInEnd, Later
<1>7. r = [p EXCEPT !.node = newNode, !.gone = gone1]
  BY <1>1, <1>2, <1>4, <1>5 DEF Arrived, p, States
<1>8. FromNetwork(e) => InEndAfter(e) = e.t
  BY <1>4, <1>6 DEF LinkIsBusy
<1>9. e.from # e.to => e.size > 0 /\ e.msg = App
  BY <1>3 DEF Good, FutureOK
<1>10. gone1 \in SUBSET Nat
  BY <1>3, ExpirationTyped DEF States
<1>a. inEnd \in Nat /\ heard \in Nat
  BY <1>4, <1>5, <1>6
<1>b. /\ e.from = e.to => inEnd = node[n].inEnd /\ heard = node[n].heard
      /\ e.from # e.to => heard = e.t
      /\ e.from # e.to /\ ~e.queued => inEnd = e.t /\ node[n].inEnd + InTime[n] <= e.t
      /\ e.from # e.to /\ e.queued => inEnd = node[n].inEnd
  BY <1>4, <1>6, <1>8, <1>9 DEF FromNetwork
<1>c. /\ e.msg.kind \notin TimerKinds => gone1 = gone
      /\ e.msg.kind \in TimerKinds => gone1 = gone \cup {e.msg.timer}
  OBVIOUS
<1>n. n = e.to
  OBVIOUS
<1> HIDE DEF inEnd, heard, gone1, n, r
<1>11. newNode \in [Nodes -> NodeStates]
  BY <1>4, <1>5, <1>a DEF NodeStates
<1>12. \A m \in Nodes :
         /\ newNode[m].tasks = node[m].tasks /\ newNode[m].timers = node[m].timers
         /\ newNode[m].inEnd = IF m = n THEN inEnd ELSE node[m].inEnd
         /\ newNode[m].heard = IF m = n THEN heard ELSE node[m].heard
  BY <1>4, <1>5, <1>a DEF NodeStates
<1> HIDE DEF newNode
<1>13. /\ r.now = e.t /\ r.events = events \ {e} /\ r.timerId = timerId /\ r.taskId = p.taskId
       /\ r.node = newNode /\ r.gone = gone1
  BY <1>1, <1>2, <1>7 DEF States
<1>14. r \in States
  BY <1>2, <1>7, <1>10, <1>11 DEF States
<1>15. FutureOK(r) /\ ChecksOK(r) /\ TasksOK(r)
  <2>1. FutureOK(r)
    BY <1>1, <1>2, <1>13 DEF Good, FutureOK
  <2>2. ChecksOK(r)
    BY <1>1, <1>2, <1>12, <1>13 DEF Good, ChecksOK
  <2>3. TasksOK(r)
    BY <1>1, <1>2, <1>12, <1>13 DEF Good, TasksOK
  <2> QED BY <2>1, <2>2, <2>3
<1>16. TimersOK(r)
  <2>1. e.msg.kind \in TimerKinds =>
          /\ e.msg.timer <= timerId
          /\ \A m \in Nodes : \A u \in node[m].timers : u.id # e.msg.timer
    BY <1>3 DEF Good, ExpirationsOK
  <2>2. \A m \in Nodes : r.node[m].timers = node[m].timers
    BY <1>12, <1>13
  <2>3. TimersOK(p)
    BY <1>2 DEF Good
  <2> QED BY <2>1, <2>2, <2>3, <1>1, <1>13, <1>c DEF TimersOK
<1>17. ExpirationsOK(r)
  <2>1. \A f \in r.events : f.msg.kind \in TimerKinds /\ e.msg.kind \in TimerKinds =>
          f.msg.timer # e.msg.timer
    BY <1>3, <1>13 DEF Good, ExpirationsOK
  <2>2. \A m \in Nodes : r.node[m].timers = node[m].timers
    BY <1>12, <1>13
  <2>3. ExpirationsOK(p)
    BY <1>2 DEF Good
  <2> QED BY <2>1, <2>2, <2>3, <1>1, <1>13, <1>c DEF ExpirationsOK
<1>18. LinksOK(r)
  <2>0. LinksOK(c) /\ \A f \in events : f.to \in Nodes /\ f.t \in Nat
    BY <1>3, EventTyped DEF Good
  <2>1. ASSUME NEW m \in Nodes PROVE r.node[m].heard <= r.node[m].inEnd
    <3>1. CASE m # n
      BY <3>1, <2>0, <1>3, <1>12, <1>13 DEF LinksOK
    <3>2. CASE m = n
      <4>1. e.queued => e.t <= node[n].inEnd
        BY <2>0, <1>3, <1>n DEF LinksOK
      <4>2. node[n].heard <= node[n].inEnd
        BY <2>0, <1>3, <1>4 DEF LinksOK
      <4>3. heard <= inEnd
        BY <4>1, <4>2, <1>4, <1>b
      <4> QED BY <3>2, <4>3, <1>12, <1>13, <1>4
    <3> QED BY <3>1, <3>2
  <2>2. ASSUME NEW f \in r.events, f.queued
        PROVE /\ f.from # f.to /\ f.t <= r.node[f.to].inEnd
              /\ r.node[f.to].heard > 0 => r.node[f.to].heard + InTime[f.to] <= f.t
              /\ \A g \in r.events : g.queued /\ g.to = f.to /\ g # f =>
                   f.t + InTime[f.to] <= g.t \/ g.t + InTime[f.to] <= f.t
    <3>1. f \in events /\ f # e /\ e.t <= f.t /\ f.t \in Nat /\ f.to \in Nodes
      BY <1>2, <1>13, <2>0
    <3>2. /\ f.from # f.to /\ f.t <= node[f.to].inEnd
          /\ node[f.to].heard > 0 => node[f.to].heard + InTime[f.to] <= f.t
          /\ \A g \in events : g.queued /\ g.to = f.to /\ g # f =>
               f.t + InTime[f.to] <= g.t \/ g.t + InTime[f.to] <= f.t
      BY <3>1, <2>0, <2>2, <1>3 DEF LinksOK
    <3>3. \A g \in r.events : g.queued /\ g.to = f.to /\ g # f =>
            f.t + InTime[f.to] <= g.t \/ g.t + InTime[f.to] <= f.t
      BY <3>2, <1>13
    <3>4. CASE f.to # n
      BY <3>1, <3>2, <3>3, <3>4, <1>12, <1>13
    <3>5. CASE f.to = n
      <4>1. CASE e.from = e.to
        BY <4>1, <3>1, <3>2, <3>3, <3>5, <1>12, <1>13, <1>b
      <4>2. CASE e.from # e.to /\ ~e.queued
        BY <4>2, <3>1, <3>2, <3>5, <1>4, <1>5, <1>b
      <4>3. CASE e.from # e.to /\ e.queued
        <5>1. e.t + InTime[n] <= f.t
          BY <4>3, <3>1, <3>2, <3>5, <1>3, <1>4, <1>n
        <5> QED BY <5>1, <4>3, <3>1, <3>2, <3>3, <3>5, <1>12, <1>13, <1>b
      <4> QED BY <4>1, <4>2, <4>3, <1>3, EventTyped
    <3> QED BY <3>4, <3>5
  <2> QED BY <2>1, <2>2 DEF LinksOK
<1>19. e.from # e.to /\ node[n].heard > 0 => e.t >= node[n].heard + InTime[n]
  <2>1. /\ node[n].heard <= node[n].inEnd
        /\ e.queued /\ node[n].heard > 0 => node[n].heard + InTime[n] <= e.t
    BY <1>3, <1>4, <1>n DEF Good, LinksOK
  <2> QED BY <2>1, <1>4, <1>5, <1>b, <1>3, EventTyped
<1>20. Good(r)
  BY <1>14, <1>15, <1>16, <1>17, <1>18 DEF Good
<1>21. \A m \in Nodes : r.node[m].tasks = node[m].tasks
  BY <1>12, <1>13
<1> QED BY <1>13, <1>19, <1>20, <1>21 DEF r, n

Enqueued(e) ==
  [Popped(e) EXCEPT
     !.events = @ \cup {[e EXCEPT !.t = InEndAfter(e), !.queued = TRUE]},
     !.node[e.to].inEnd = InEndAfter(e)]

\* An event that waits at its link comes after the ones that already wait.
LEMMA EnqueuedIsGood ==
  ASSUME IInv, NEW e \in events, IsNext(e), e.msg.kind # "failure", LinkIsBusy(e)
  PROVE  LET r == Enqueued(e) IN
         /\ Good(r) /\ r.now = e.t /\ \E f \in r.events : f.id = e.id
         /\ events \ {e} \subseteq r.events
         /\ \A n \in Nodes : r.node[n].tasks = node[n].tasks
<1> DEFINE p == Popped(e)
           n == e.to
           c == Current
           inEnd == InEndAfter(e)
           E == [e EXCEPT !.t = inEnd, !.queued = TRUE]
           newNode == [node EXCEPT ![n].inEnd = inEnd]
           r == Enqueued(e)
<1>1. /\ p.now = e.t /\ p.events = events \ {e} /\ p.lastId = lastId
      /\ p.timerId = timerId /\ p.taskId = taskId /\ p.node = node /\ p.gone = gone
  BY PoppedFields
<1>3. Good(c) /\ c \in States /\ e \in c.events /\ c.events = events /\ c.node = node /\ c.gone = gone
      /\ c.timerId = timerId /\ c.now = time
  BY CurrentFields DEF IInv, Good
<1>4. /\ n \in Nodes /\ e.t \in Nat /\ e.size \in Nat /\ InTime[n] \in Nat \ {0} /\ e \in Events
  BY <1>3, EventTyped, SimulationAssumption DEF SimulationAssumption
<1>9. e.from # e.to /\ e.size > 0 /\ e.msg = App
  BY <1>3 DEF Good, FutureOK, LinkIsBusy, FromNetwork
<1>2. Good(p) /\ p \in States /\ \A f \in events : e.t <= f.t
  <2>1. e.msg # Check
    BY <1>9 DEF App, Check
  <2> QED BY <2>1, PoppedIsGood DEF Good
<1>5. /\ node[n].inEnd \in Nat /\ node[n].heard \in Nat
      /\ node \in [Nodes -> NodeStates]
  BY <1>3, <1>4, NodeTyped DEF States
<1>6. inEnd \in Nat /\ e.t <= inEnd /\ node[n].inEnd + InTime[n] <= inEnd
  BY <1>4, <1>5 DEF InEndAfter, NewInEnd, Later
<1>7. r = [p EXCEPT !.events = (events \ {e}) \cup {E}, !.node = newNode]
  BY <1>1, <1>2, <1>4, <1>5 DEF Enqueued, States
<1>n. n = e.to
  OBVIOUS
<1> HIDE DEF p, c, inEnd, r, n
<1>8. /\ E \in Events /\ E.msg = App /\ E.t = inEnd /\ E.queued = TRUE /\ E.from = e.from /\ E.to = n
      /\ E.size = e.size /\ E.id = e.id
  BY <1>4, <1>6, <1>9, <1>n DEF Events
<1> HIDE DEF E
<1>10. newNode \in [Nodes -> NodeStates]
  BY <1>4, <1>5, <1>6 DEF NodeStates
<1>11. \A m \in Nodes :
         /\ newNode[m].tasks = node[m].tasks /\ newNode[m].timers = node[m].timers
         /\ newNode[m].inEnd = IF m = n THEN inEnd ELSE node[m].inEnd
         /\ newNode[m].heard = node[m].heard
  BY <1>4, <1>5 DEF NodeStates
<1> HIDE DEF newNode
<1>12. /\ r.now = e.t /\ r.events = (events \ {e}) \cup {E} /\ r.timerId = timerId /\ r.taskId = p.taskId
       /\ r.node = newNode /\ r.gone = gone
  BY <1>1, <1>2, <1>7 DEF States
<1>13. r \in States
  <2>1. (events \ {e}) \cup {E} \in SUBSET Events
    BY <1>1, <1>2, <1>8 DEF States
  <2> HIDE DEF E
  <2> QED BY <1>2, <1>7, <1>10, <2>1 DEF States
<1>14. E.msg.kind \notin TimerKinds /\ E.msg.kind # "taskend" /\ E.msg # Check
  BY <1>8 DEF App, Check, TimerKinds
<1>15. \A m \in Nodes : r.node[m].timers = node[m].timers /\ r.node[m].tasks = node[m].tasks
  BY <1>11, <1>12
<1>16. \A f \in r.events : f = E \/ f \in p.events
  BY <1>1, <1>12
<1>17. p.events \subseteq r.events
  BY <1>1, <1>12
<1>18. FutureOK(r)
  BY <1>2, <1>1, <1>12, <1>16, <1>8, <1>9, <1>6, <1>4 DEF Good, FutureOK
<1>19. TimersOK(r)
  BY <1>2, <1>1, <1>12, <1>15 DEF Good, TimersOK
<1>20. ExpirationsOK(r)
  BY <1>2, <1>1, <1>12, <1>14, <1>15, <1>16 DEF Good, ExpirationsOK
<1>21. ChecksOK(r)
  BY <1>2, <1>1, <1>15, <1>17 DEF Good, ChecksOK
<1>22. TasksOK(r)
  BY <1>2, <1>1, <1>12, <1>14, <1>15, <1>16 DEF Good, TasksOK
<1>23. LinksOK(r)
  <2>0. LinksOK(c) /\ \A f \in events : f.to \in Nodes /\ f.t \in Nat
    BY <1>3, EventTyped DEF Good
  <2>1. ASSUME NEW m \in Nodes PROVE r.node[m].heard <= r.node[m].inEnd
    <3>1. node[m].heard <= node[m].inEnd /\ node[n].heard <= node[n].inEnd
      BY <2>0, <1>3, <1>4 DEF LinksOK
    <3> QED BY <3>1, <1>4, <1>5, <1>6, <1>11, <1>12
  <2>2. ASSUME NEW f \in events, f.queued
        PROVE /\ f.from # f.to /\ f.t <= node[f.to].inEnd
              /\ node[f.to].heard > 0 => node[f.to].heard + InTime[f.to] <= f.t
              /\ \A g \in events : g.queued /\ g.to = f.to /\ g # f =>
                   f.t + InTime[f.to] <= g.t \/ g.t + InTime[f.to] <= f.t
    BY <2>0, <2>2, <1>3 DEF LinksOK
  <2>3. \A f \in events : f.queued /\ f.to = n => f.t + InTime[n] <= inEnd /\ f.t <= inEnd
    BY <2>0, <2>2, <1>4, <1>5, <1>6
  <2>4. ASSUME NEW f \in r.events, f.queued
        PROVE /\ f.from # f.to /\ f.t <= r.node[f.to].inEnd
              /\ r.node[f.to].heard > 0 => r.node[f.to].heard + InTime[f.to] <= f.t
              /\ \A g \in r.events : g.queued /\ g.to = f.to /\ g # f =>
                   f.t + InTime[f.to] <= g.t \/ g.t + InTime[f.to] <= f.t
    <3>1. CASE f = E
      <4>1. node[n].heard <= node[n].inEnd
        BY <2>0, <1>3, <1>4 DEF LinksOK
      <4>2. node[n].heard + InTime[n] <= inEnd
        BY <4>1, <1>4, <1>5, <1>6
      <4>3. \A g \in r.events : g.queued /\ g.to = n /\ g # E => g.t + InTime[n] <= inEnd
        BY <2>3, <1>12
      <4>4. f.to = n /\ f.t = inEnd /\ f.from # f.to /\ r.node[n].inEnd = inEnd /\ r.node[n].heard = node[n].heard
        BY <3>1, <1>n, <1>4, <1>8, <1>9, <1>11, <1>12
      <4>5. \A g \in r.events : g.queued /\ g.to = f.to /\ g # f => g.t + InTime[f.to] <= f.t
        BY <3>1, <4>3, <4>4
      <4>6. f.t <= r.node[f.to].inEnd /\ r.node[f.to].heard + InTime[f.to] <= f.t
        BY <4>2, <4>4, <1>6
      <4> QED BY <4>4, <4>5, <4>6
    <3>2. CASE f # E
      <4>1. f \in events /\ f.to \in Nodes
        BY <3>2, <1>12, <2>0
      <4>2. \A g \in r.events : g.queued /\ g.to = f.to /\ g # f =>
              f.t + InTime[f.to] <= g.t \/ g.t + InTime[f.to] <= f.t
        BY <4>1, <2>2, <2>3, <2>4, <1>8, <1>12
      <4>3. f.t <= r.node[f.to].inEnd
        BY <4>1, <2>2, <2>3, <2>4, <1>11, <1>12
      <4>4. r.node[f.to].heard > 0 => r.node[f.to].heard + InTime[f.to] <= f.t
        BY <4>1, <2>2, <2>4, <1>11, <1>12
      <4> QED BY <4>1, <4>2, <4>3, <4>4, <2>2, <2>4
    <3> QED BY <3>1, <3>2
  <2> QED BY <2>1, <2>4 DEF LinksOK
<1>24. Good(r)
  BY <1>13, <1>18, <1>19, <1>20, <1>21, <1>22, <1>23 DEF Good
<1>25. (\E f \in r.events : f.id = e.id) /\ events \ {e} \subseteq r.events
  BY <1>8, <1>12
<1> QED BY <1>12, <1>15, <1>24, <1>25 DEF r

\* Timers have different identifiers, and so they are finitely many.
LEMMA TimersFinite ==
  ASSUME NEW timers \in SUBSET Timers, NEW bound \in Nat,
         \A u \in timers : u.id <= bound,
         \A u, v \in timers : u.id = v.id => u = v
  PROVE  IsFiniteSet(timers)
<1> DEFINE f == [u \in timers |-> u.id]
<1>1. f \in Injection(timers, 0 .. bound)
  BY TimerTyped DEF Injection, IsInjective
<1>2. IsFiniteSet(0 .. bound)
  BY FS_Interval
<1> HIDE DEF f
<1> QED BY <1>1, <1>2, FS_Injection

\* Good but for the check of the first timer of a node.
Unchecked(s, n) ==
  /\ Sound(s)
  /\ \A m \in Nodes : \A u \in s.node[m].timers :
       /\ m # n => \E f \in s.events : f.msg = Check /\ f.to = m /\ f.t <= u.timeout
       /\ u.bit => \E f \in s.events : f.msg = Check /\ f.to = m /\ f.t = u.timeout
  /\ \A u \in s.node[n].timers : s.now <= u.timeout

\* The first timer is checked, then all of them are.
LEMMA NextCheckIsGood ==
  ASSUME NEW s, NEW n \in Nodes, Unchecked(s, n)
  PROVE  LET r == NextCheck(s, n) IN
         /\ Good(r) /\ r.now = s.now /\ s.events \subseteq r.events
         /\ \A m \in Nodes : r.node[m].tasks = s.node[m].tasks
<1> DEFINE timers == s.node[n].timers
           next == FirstTimer(timers)
           r == NextCheck(s, n)
<1>0. s \in States /\ Sound(s)
  BY DEF Unchecked, Sound
<1>1. timers \in SUBSET Timers
  BY <1>0, NodeTyped
<1>2. timers # {} => next \in timers /\ \A u \in timers \ {next} : Precedes(next, u)
  <2> SUFFICES ASSUME timers # {}
               PROVE next \in timers /\ \A u \in timers \ {next} : Precedes(next, u)
    OBVIOUS
  <2>1. s.timerId \in Nat /\ \A u \in timers : u.id <= s.timerId
    BY <1>0 DEF Sound, TimersOK, States
  <2>2. \A u, v \in timers : u.id = v.id => u = v
    BY <1>0 DEF Sound, TimersOK
  <2> HIDE DEF timers
  <2> QED BY <2>1, <2>2, <1>1, FirstTimerExists
<1>3. \A u \in timers : u \in Timers /\ u.timeout \in Nat /\ next.timeout <= u.timeout
  <2>1. \A u \in timers : u \in Timers /\ u.timeout \in Nat
    BY <1>1, TimerTyped
  <2> QED BY <2>1, <1>2 DEF Precedes
<1>4. CASE timers = {} \/ next.bit
  <2>1. r = s
    BY <1>4 DEF NextCheck
  <2>2. ChecksOK(s)
    <3> SUFFICES ASSUME NEW m \in Nodes, NEW u \in s.node[m].timers
                 PROVE /\ \E e \in s.events : e.msg = Check /\ e.to = m /\ e.t <= u.timeout
                       /\ u.bit => \E e \in s.events : e.msg = Check /\ e.to = m /\ e.t = u.timeout
      BY DEF ChecksOK
    <3>1. CASE m # n
      BY <3>1 DEF Unchecked
    <3>2. CASE m = n
      <4>1. next \in timers /\ next.bit
        BY <3>2, <1>2, <1>4
      <4>2. \E f \in s.events : f.msg = Check /\ f.to = n /\ f.t = next.timeout
        BY <4>1 DEF Unchecked
      <4> QED BY <4>2, <3>2, <1>3 DEF Unchecked
    <3> QED BY <3>1, <3>2
  <2>3. Good(s)
    BY <1>0, <2>2 DEF Good, Sound
  <2> QED BY <2>1, <2>3
<1>5. CASE ~(timers = {} \/ next.bit)
  <2> DEFINE q == InjectMessage(s, n, Check, next.timeout)
             set == [next EXCEPT !.bit = TRUE]
             new == (timers \ {next}) \cup {set}
             newNode == [s.node EXCEPT ![n].timers = new]
  <2>1. next \in timers /\ s.now <= next.timeout /\ next.timeout \in Nat
    BY <1>2, <1>3, <1>5 DEF Unchecked
  <2>2. /\ Sound(q) /\ Keeps(s, q)
        /\ q.now = s.now /\ q.timerId = s.timerId /\ q.node = s.node /\ q.gone = s.gone
        /\ q.taskId = s.taskId
        /\ \E e \in q.events : /\ e.msg = Check /\ e.to = n /\ e.t = next.timeout
                               /\ q.events = s.events \cup {e}
    <3> HIDE DEF next
    <3>1. q = Put(s, next.timeout, n, n, 0, Check)
      BY DEF InjectMessage
    <3> HIDE DEF q
    <3> QED BY <3>1, <1>0, <2>1, PutIsSound DEF HasPut
  <2>3. r = [q EXCEPT !.node[n].timers = (@ \ {next}) \cup {set}]
    BY <1>5 DEF NextCheck
  <2> HIDE DEF q, r, next
  <2>4. /\ set \in Timers /\ set.id = next.id /\ set.timeout = next.timeout /\ set.msg = next.msg
        /\ set.bit = TRUE
    BY <2>1, <1>1 DEF Timers
  <2> HIDE DEF set
  <2>5. new \in SUBSET Timers
    BY <1>1, <2>4
  <2>6. q \in States
    BY <2>2 DEF Sound
  <2>7. r = [q EXCEPT !.node = newNode]
    BY <2>2, <2>3, <2>6 DEF States
  <2> HIDE DEF new
  <2>8. newNode \in [Nodes -> NodeStates]
    BY <1>0, <2>5 DEF States, NodeStates
  <2>9. \A m \in Nodes :
          /\ newNode[m].tasks = s.node[m].tasks
          /\ newNode[m].inEnd = s.node[m].inEnd /\ newNode[m].heard = s.node[m].heard
          /\ newNode[m].timers = IF m = n THEN new ELSE s.node[m].timers
    BY <1>0, <2>5 DEF States, NodeStates
  <2> HIDE DEF newNode
  <2>10. /\ r.now = s.now /\ r.timerId = s.timerId /\ r.node = newNode /\ r.gone = s.gone
         /\ r.taskId = s.taskId /\ r.events = q.events
    BY <2>2, <2>6, <2>7 DEF States
  <2>11. r \in States
    BY <2>6, <2>7, <2>8 DEF States
  <2> DEFINE was(u) == IF u = set THEN next ELSE u
  <2>12. \A m \in Nodes : \A u \in r.node[m].timers :
           /\ was(u) \in s.node[m].timers
           /\ was(u).id = u.id /\ was(u).timeout = u.timeout /\ was(u).msg = u.msg
           /\ u = set \/ u = was(u)
    <3> SUFFICES ASSUME NEW m \in Nodes, NEW u \in r.node[m].timers
                 PROVE /\ was(u) \in s.node[m].timers
                       /\ was(u).id = u.id /\ was(u).timeout = u.timeout /\ was(u).msg = u.msg
                       /\ u = set \/ u = was(u)
      OBVIOUS
    <3>1. CASE m = n
      BY <3>1, <2>1, <2>4, <2>9, <2>10 DEF new
    <3>2. CASE m # n
      <4>1. u \in s.node[m].timers
        BY <3>2, <2>9, <2>10
      <4>2. u # set
        <5> SUFFICES ASSUME u = set PROVE FALSE
          OBVIOUS
        <5>1. u.id = next.id /\ next \in s.node[n].timers
          BY <2>1, <2>4
        <5> QED BY <5>1, <4>1, <3>2, <1>0 DEF Sound, TimersOK
      <4> QED BY <4>1, <4>2
    <3> QED BY <3>1, <3>2
  <2>13. \A m \in Nodes : \A u, v \in r.node[m].timers : was(u) = was(v) => u = v
    <3> SUFFICES ASSUME NEW m \in Nodes, NEW u \in r.node[m].timers, NEW v \in r.node[m].timers,
                        was(u) = was(v), u # v
                 PROVE FALSE
      OBVIOUS
    <3>1. (u = set /\ v = next) \/ (v = set /\ u = next)
      OBVIOUS
    <3>2. next \in r.node[m].timers /\ next # set
      BY <3>1
    <3>3. m = n
      <4>1. was(next) = next /\ next \in s.node[m].timers
        BY <3>2, <2>12
      <4> QED BY <4>1, <2>1, <1>0 DEF Sound, TimersOK
    <3> QED BY <3>2, <3>3, <2>9, <2>10 DEF new
  <2> HIDE DEF was
  <2>14. FutureOK(r)
    BY <2>2, <2>10 DEF Sound, FutureOK
  <2>15. TimersOK(r)
    BY <2>10, <2>12, <2>13, <1>0 DEF Sound, TimersOK
  <2>16. ExpirationsOK(r)
    BY <2>2, <2>10, <2>12 DEF Sound, ExpirationsOK
  <2>17. LinksOK(r)
    <3>1. \A e \in q.events : e.to \in Nodes
      BY <2>6, EventTyped
    <3>2. \A m \in Nodes : r.node[m].heard = q.node[m].heard /\ r.node[m].inEnd = q.node[m].inEnd
      BY <2>2, <2>9, <2>10
    <3> QED BY <3>1, <3>2, <2>2, <2>10 DEF Sound, LinksOK
  <2>18. TasksOK(r)
    <3>1. \A m \in Nodes : r.node[m].tasks = q.node[m].tasks
      BY <2>2, <2>9, <2>10
    <3>2. \A m \in Nodes : \A u \in r.node[m].timers : u.msg.kind = "taskend" =>
            EndOK(r.node[m].tasks, u.msg.task, u.id, u.timeout, r.taskId)
      BY <3>1, <2>2, <2>10, <2>12 DEF Sound, TasksOK
    <3> QED BY <3>1, <3>2, <2>2, <2>10 DEF Sound, TasksOK
  <2>19. ChecksOK(r)
    <3> SUFFICES ASSUME NEW m \in Nodes, NEW u \in r.node[m].timers
                 PROVE /\ \E e \in r.events : e.msg = Check /\ e.to = m /\ e.t <= u.timeout
                       /\ u.bit => \E e \in r.events : e.msg = Check /\ e.to = m /\ e.t = u.timeout
      BY DEF ChecksOK
    <3>0. s.events \subseteq r.events
      BY <2>2, <2>10
    <3>1. CASE m # n
      <4>1. u \in s.node[m].timers
        BY <3>1, <2>9, <2>10
      <4> QED BY <4>1, <3>0, <3>1 DEF Unchecked
    <3>2. CASE m = n
      <4>1. \E e \in r.events : e.msg = Check /\ e.to = n /\ e.t = next.timeout
        BY <2>2, <2>10
      <4>2. was(u) \in timers /\ was(u).timeout = u.timeout
        BY <2>12, <3>2
      <4>3. \E e \in r.events : e.msg = Check /\ e.to = m /\ e.t <= u.timeout
        BY <4>1, <4>2, <3>2, <1>3
      <4>4. ASSUME u.bit PROVE \E e \in r.events : e.msg = Check /\ e.to = m /\ e.t = u.timeout
        <5>1. CASE u = set
          BY <5>1, <4>1, <3>2, <2>4
        <5>2. CASE u # set
          <6>1. u \in s.node[m].timers
            BY <5>2, <2>12
          <6> QED BY <6>1, <4>4, <3>0 DEF Unchecked
        <5> QED BY <5>1, <5>2
      <4> QED BY <4>3, <4>4
    <3> QED BY <3>1, <3>2
  <2>20. \A m \in Nodes : r.node[m].tasks = s.node[m].tasks
    BY <2>9, <2>10
  <2>21. s.events \subseteq r.events
    BY <2>2, <2>10
  <2>22. Good(r)
    BY <2>11, <2>14, <2>15, <2>16, <2>17, <2>18, <2>19 DEF Good
  <2> QED BY <2>10, <2>20, <2>21, <2>22 DEF r
<1> QED BY <1>4, <1>5

\* The timers that expire at a check become messages, and what is left of
\* the timers of the node has a check.
LEMMA CheckedIsGood ==
  ASSUME IInv, NEW e \in events, IsNext(e), e.msg = Check, NEW op \in 0 .. MaxOp
  PROVE  LET r == NextCheck(SendExpired(Popped(e), e.to, op), e.to) IN
         /\ Good(r) /\ r.now = e.t /\ events \ {e} \subseteq r.events
         /\ \A n \in Nodes : r.node[n].tasks = node[n].tasks
<1> DEFINE p == Popped(e)
           n == e.to
           c == Current
           old == {t \in p.node[n].timers : t.timeout <= p.now}
           id(t) == p.lastId + Cardinality({u \in old : Precedes(u, t)})
           at == p.now + op
           sent == {Event(id(t), at, n, n, 0, Expired(t)) : t \in old}
           rest == node[n].timers \ old
           q == SendExpired(p, n, op)
           newNode == [node EXCEPT ![n].timers = rest]
           r == NextCheck(q, n)
<1>1. /\ p.now = e.t /\ p.events = events \ {e} /\ p.lastId = lastId
      /\ p.timerId = timerId /\ p.taskId = taskId /\ p.node = node /\ p.gone = gone
  BY PoppedFields
<1>2. /\ p \in States /\ FutureOK(p) /\ TimersOK(p) /\ ExpirationsOK(p) /\ LinksOK(p) /\ TasksOK(p)
      /\ \A f \in events : e.t <= f.t
  BY PoppedIsGood
<1>3. Good(c) /\ c \in States /\ e \in c.events /\ c.events = events /\ c.node = node /\ c.gone = gone
      /\ c.timerId = timerId /\ c.now = time
  BY CurrentFields DEF IInv, Good
<1>4. n \in Nodes /\ e.t \in Nat /\ e.from = n
  <2>1. e.from = e.to
    BY <1>3 DEF Good, FutureOK, Check, App
  <2> QED BY <2>1, <1>3, EventTyped
<1>5. node \in [Nodes -> NodeStates] /\ node[n].timers \in SUBSET Timers
  BY <1>3, <1>4, NodeTyped DEF States
<1>6. \A u \in old : u \in node[n].timers /\ u \in Timers /\ u.timeout = e.t
  <2> SUFFICES ASSUME NEW u \in old PROVE u \in node[n].timers /\ u \in Timers /\ u.timeout = e.t
    OBVIOUS
  <2>1. u \in node[n].timers /\ u.timeout <= e.t /\ u \in Timers
    BY <1>1, <1>5
  <2>2. PICK f \in events : f.t <= u.timeout
    BY <2>1, <1>3, <1>4 DEF Good, ChecksOK
  <2>3. f.t \in Nat /\ u.timeout \in Nat /\ e.t <= f.t
    BY <2>1, <1>2, <1>3, EventTyped, TimerTyped
  <2> QED BY <2>1, <2>2, <2>3, <1>4
<1>7. \A u \in rest : u \in node[n].timers /\ e.t < u.timeout
  BY <1>1, <1>4, <1>5, TimerTyped
<1>8. IsFiniteSet(old)
  <2>1. \A u \in node[n].timers : u.id <= timerId
    BY <1>3, <1>4 DEF Good, TimersOK
  <2>2. \A u, v \in node[n].timers : u.id = v.id => u = v
    BY <1>3, <1>4 DEF Good, TimersOK
  <2>3. timerId \in Nat
    BY <1>3 DEF States
  <2>4. IsFiniteSet(node[n].timers)
    BY <2>1, <2>2, <2>3, <1>5, TimersFinite
  <2>5. old \in SUBSET node[n].timers
    BY <1>6
  <2> QED BY <2>4, <2>5, FS_Subset
<1>9. at \in Nat /\ e.t <= at /\ at <= e.t + MaxOp /\ at = e.t + op
  BY <1>1, <1>4, SimulationAssumption DEF SimulationAssumption
<1>10. \A u \in old : id(u) \in Nat
  <2> SUFFICES ASSUME NEW u \in old PROVE id(u) \in Nat
    OBVIOUS
  <2> HIDE DEF old
  <2>1. {v \in old : Precedes(v, u)} \in SUBSET old
    OBVIOUS
  <2>2. Cardinality({v \in old : Precedes(v, u)}) \in Nat
    BY <2>1, <1>8, FS_Subset, FS_CardinalityType
  <2> QED BY <2>2, <1>2 DEF States
<1>11. Cardinality(old) \in Nat
  BY <1>8, FS_CardinalityType
<1>12. q = [p EXCEPT !.node = newNode, !.lastId = @ + Cardinality(old), !.events = @ \cup sent]
  <2>1. q = [p EXCEPT !.node[n].timers = @ \ old, !.lastId = @ + Cardinality(old), !.events = @ \cup sent]
    BY DEF SendExpired
  <2> HIDE DEF q, old, sent, p
  <2> QED BY <2>1, <1>1, <1>2, <1>4, <1>5 DEF States
<1>e. e.to = n
  OBVIOUS
<1> HIDE DEF id, p, c, n, old, rest, at, q
<1>13. \A g \in sent : /\ g \in Events /\ g.t = at /\ g.from = n /\ g.to = n /\ g.queued = FALSE
                       /\ \E u \in old : /\ g.msg.kind = u.msg.kind /\ g.msg.task = u.msg.task
                                         /\ g.msg.timer = u.id /\ g.msg.due = u.timeout
                                         /\ g = Event(id(u), at, n, n, 0, Expired(u))
                                         /\ g.msg \in Expirations
  <2> SUFFICES ASSUME NEW u \in old
               PROVE LET g == Event(id(u), at, n, n, 0, Expired(u)) IN
                     /\ g \in Events /\ g.t = at /\ g.from = n /\ g.to = n /\ g.queued = FALSE
                     /\ g.msg.kind = u.msg.kind /\ g.msg.task = u.msg.task
                     /\ g.msg.timer = u.id /\ g.msg.due = u.timeout
                     /\ g.msg \in Expirations
    OBVIOUS
  <2> DEFINE x == Expired(u)
  <2>1. x \in Expirations /\ x.kind = u.msg.kind /\ x.task = u.msg.task /\ x.timer = u.id /\ x.due = u.timeout
    BY <1>6, TimerTyped DEF Expired, Expirations, TimerMsgs
  <2> HIDE DEF x
  <2>2. x \in Msgs
    BY <2>1 DEF Msgs
  <2>3. LET g == Event(id(u), at, n, n, 0, x) IN
        g \in Events /\ g.t = at /\ g.from = n /\ g.to = n /\ g.queued = FALSE /\ g.msg = x
    BY <2>2, <1>4, <1>9, <1>10 DEF Event, Events
  <2> QED BY <2>1, <2>3 DEF x
<1>14. rest \in SUBSET Timers /\ rest \subseteq node[n].timers
  BY <1>5, <1>7
<1>15. newNode \in [Nodes -> NodeStates]
  BY <1>4, <1>5, <1>14 DEF NodeStates
<1>16. \A m \in Nodes :
         /\ newNode[m].tasks = node[m].tasks
         /\ newNode[m].inEnd = node[m].inEnd /\ newNode[m].heard = node[m].heard
         /\ newNode[m].timers = IF m = n THEN rest ELSE node[m].timers
  BY <1>4, <1>5, <1>14 DEF NodeStates
<1> HIDE DEF newNode
<1>17. /\ q.now = e.t /\ q.events = (events \ {e}) \cup sent /\ q.timerId = timerId
       /\ q.taskId = p.taskId /\ q.node = newNode /\ q.gone = gone
  BY <1>1, <1>2, <1>12 DEF States
<1>18. q \in States
  <2>1. (events \ {e}) \cup sent \in SUBSET Events
    BY <1>1, <1>2, <1>13 DEF States
  <2>2. p.lastId + Cardinality(old) \in Nat
    BY <1>2, <1>11 DEF States
  <2> HIDE DEF sent
  <2> QED BY <1>1, <1>2, <1>12, <1>15, <2>1, <2>2 DEF States
<1> HIDE DEF sent
<1>19. \A m \in Nodes : q.node[m].timers \subseteq node[m].timers /\ q.node[m].tasks = node[m].tasks
  BY <1>14, <1>16, <1>17
<1>20. \A u \in old : u \in node[n].timers /\ u \notin q.node[n].timers
  BY <1>4, <1>6, <1>7, <1>16, <1>17
<1>21. Sound(q)
  <2>1. FutureOK(q)
    <3>1. \A g \in q.events : g \in p.events \/ (g.t = at /\ g.from = g.to)
      BY <1>1, <1>13, <1>17
    <3> QED BY <3>1, <1>1, <1>2, <1>9, <1>17 DEF FutureOK
  <2>2. TimersOK(q)
    BY <1>1, <1>2, <1>17, <1>19 DEF TimersOK
  <2>3. ExpirationsOK(q)
    <3> SUFFICES ASSUME NEW g \in q.events, g.msg.kind \in TimerKinds
                 PROVE /\ g.msg.timer <= q.timerId /\ g.msg.timer \notin q.gone /\ g.msg.due <= q.now
                       /\ \A m \in Nodes : \A u \in q.node[m].timers : u.id # g.msg.timer
                       /\ \A f \in q.events : f.msg.kind \in TimerKinds /\ f.msg.timer = g.msg.timer => f = g
      BY DEF ExpirationsOK
    <3>1. \A f \in p.events : f.msg.kind \in TimerKinds =>
            /\ \A m \in Nodes : \A u \in node[m].timers : u.id # f.msg.timer
            /\ \A h \in p.events : h.msg.kind \in TimerKinds /\ h.msg.timer = f.msg.timer => h = f
      BY <1>1, <1>2 DEF ExpirationsOK
    <3>2. \A f \in q.events : f \in p.events \/ f \in sent
      BY <1>1, <1>17
    <3>3. CASE g \in p.events
      <4>1. g.msg.timer <= q.timerId /\ g.msg.timer \notin q.gone /\ g.msg.due <= q.now
        BY <3>3, <1>1, <1>2, <1>17 DEF ExpirationsOK
      <4>2. \A m \in Nodes : \A u \in q.node[m].timers : u.id # g.msg.timer
        BY <3>1, <3>3, <1>19
      <4>3. ASSUME NEW f \in q.events, f.msg.kind \in TimerKinds, f.msg.timer = g.msg.timer
            PROVE f = g
        <5>1. f \notin sent
          BY <3>1, <3>3, <4>3, <1>4, <1>6, <1>13
        <5> QED BY <5>1, <3>1, <3>2, <3>3, <4>3
      <4> QED BY <4>1, <4>2, <4>3
    <3>4. CASE g \in sent
      <4>1. PICK u \in old : /\ g.msg.timer = u.id /\ g.msg.due = u.timeout
                             /\ g = Event(id(u), at, n, n, 0, Expired(u))
        BY <3>4, <1>13
      <4>2. u \in node[n].timers /\ u.timeout = e.t
        BY <1>6
      <4>3. g.msg.timer <= q.timerId /\ g.msg.timer \notin q.gone /\ g.msg.due <= q.now
        BY <4>1, <4>2, <1>2, <1>1, <1>4, <1>17 DEF TimersOK
      <4>4. \A m \in Nodes : \A v \in node[m].timers : v.id = u.id => m = n /\ v = u
        BY <4>2, <1>2, <1>1, <1>4 DEF TimersOK
      <4>5. \A m \in Nodes : \A v \in q.node[m].timers : v.id # g.msg.timer
        BY <4>1, <4>4, <1>19, <1>20
      <4>6. ASSUME NEW f \in q.events, f.msg.kind \in TimerKinds, f.msg.timer = g.msg.timer
            PROVE f = g
        <5>1. f \in sent
          BY <3>1, <3>2, <4>1, <4>2, <4>6, <1>4
        <5>2. PICK v \in old : /\ f.msg.timer = v.id /\ f = Event(id(v), at, n, n, 0, Expired(v))
          BY <5>1, <1>13
        <5>3. v = u
          BY <4>1, <4>4, <4>6, <5>2, <1>4, <1>6
        <5> QED BY <4>1, <5>2, <5>3
      <4> QED BY <4>3, <4>5, <4>6
    <3> QED BY <3>2, <3>3, <3>4
  <2>4. LinksOK(q)
    <3>1. \A g \in q.events : g.queued => g \in p.events
      BY <1>1, <1>13, <1>17
    <3>2. \A m \in Nodes : q.node[m].heard = p.node[m].heard /\ q.node[m].inEnd = p.node[m].inEnd
      BY <1>1, <1>16, <1>17
    <3>3. \A g \in q.events : g.to \in Nodes
      BY <1>18, EventTyped
    <3> QED BY <3>1, <3>2, <3>3, <1>2 DEF LinksOK
  <2>5. TasksOK(q)
    <3> SUFFICES ASSUME NEW m \in Nodes
                 PROVE /\ \A i \in DOMAIN q.node[m].tasks : TaskOK(q.node[m].tasks[i], q.now, q.taskId)
                       /\ \A i, j \in DOMAIN q.node[m].tasks :
                            q.node[m].tasks[i].id = q.node[m].tasks[j].id => i = j
                       /\ \A u \in q.node[m].timers : u.msg.kind = "taskend" =>
                            EndOK(q.node[m].tasks, u.msg.task, u.id, u.timeout, q.taskId)
                       /\ \A g \in q.events : g.msg.kind = "taskend" /\ g.to = m =>
                            /\ EndOK(q.node[m].tasks, g.msg.task, g.msg.timer, g.msg.due, q.taskId)
                            /\ g.msg.due <= g.t /\ g.t <= g.msg.due + MaxOp
      BY DEF TasksOK
    <3>1. /\ \A i \in DOMAIN q.node[m].tasks : TaskOK(q.node[m].tasks[i], q.now, q.taskId)
          /\ \A i, j \in DOMAIN q.node[m].tasks :
               q.node[m].tasks[i].id = q.node[m].tasks[j].id => i = j
          /\ \A u \in node[m].timers : u.msg.kind = "taskend" =>
               EndOK(q.node[m].tasks, u.msg.task, u.id, u.timeout, q.taskId)
          /\ \A g \in p.events : g.msg.kind = "taskend" /\ g.to = m =>
               /\ EndOK(q.node[m].tasks, g.msg.task, g.msg.timer, g.msg.due, q.taskId)
               /\ g.msg.due <= g.t /\ g.t <= g.msg.due + MaxOp
      BY <1>1, <1>2, <1>17, <1>19 DEF TasksOK
    <3>2. ASSUME NEW g \in sent, g.msg.kind = "taskend", g.to = m
          PROVE /\ EndOK(q.node[m].tasks, g.msg.task, g.msg.timer, g.msg.due, q.taskId)
                /\ g.msg.due <= g.t /\ g.t <= g.msg.due + MaxOp
      <4>1. PICK u \in old : /\ g.msg.kind = u.msg.kind /\ g.msg.task = u.msg.task
                             /\ g.msg.timer = u.id /\ g.msg.due = u.timeout
        BY <1>13
      <4>2. u \in node[m].timers /\ u.timeout = e.t /\ g.t = at
        BY <1>6, <1>13, <3>2
      <4> QED BY <3>1, <3>2, <4>1, <4>2, <1>9
    <3>3. \A g \in q.events : g \in p.events \/ g \in sent
      BY <1>1, <1>17
    <3> QED BY <3>1, <3>2, <3>3, <1>19
  <2> QED BY <2>1, <2>2, <2>3, <2>4, <2>5, <1>18 DEF Sound
<1>22. \A m \in Nodes : \A u \in q.node[m].timers :
         /\ m # n => \E f \in q.events : f.msg = Check /\ f.to = m /\ f.t <= u.timeout
         /\ u.bit => \E f \in q.events : f.msg = Check /\ f.to = m /\ f.t = u.timeout
  <2> SUFFICES ASSUME NEW m \in Nodes, NEW u \in q.node[m].timers
               PROVE /\ m # n => \E f \in q.events : f.msg = Check /\ f.to = m /\ f.t <= u.timeout
                     /\ u.bit => \E f \in q.events : f.msg = Check /\ f.to = m /\ f.t = u.timeout
    OBVIOUS
  <2>1. /\ \E f \in events : f.msg = Check /\ f.to = m /\ f.t <= u.timeout
        /\ u.bit => \E f \in events : f.msg = Check /\ f.to = m /\ f.t = u.timeout
    BY <1>3, <1>19 DEF Good, ChecksOK
  <2>2. CASE m # n
    BY <2>1, <2>2, <1>17, <1>e
  <2>3. CASE m = n
    <3>1. e.t < u.timeout /\ u.timeout \in Nat
      BY <2>3, <1>7, <1>14, <1>16, <1>17, TimerTyped
    <3> QED BY <3>1, <2>1, <2>3, <1>4, <1>17
  <2> QED BY <2>2, <2>3
<1>23. Unchecked(q, n)
  <2>1. \A u \in q.node[n].timers : q.now <= u.timeout
    <3>1. \A u \in rest : u.timeout \in Nat /\ e.t < u.timeout
      BY <1>7, <1>14, TimerTyped
    <3> QED BY <3>1, <1>4, <1>16, <1>17
  <2> QED BY <2>1, <1>21, <1>22 DEF Unchecked
<1>24. /\ Good(r) /\ r.now = q.now /\ q.events \subseteq r.events
       /\ \A m \in Nodes : r.node[m].tasks = q.node[m].tasks
  BY <1>4, <1>23, NextCheckIsGood
<1> HIDE DEF r
<1>25. /\ Good(r) /\ r.now = e.t /\ events \ {e} \subseteq r.events
       /\ \A m \in Nodes : r.node[m].tasks = node[m].tasks
  BY <1>17, <1>19, <1>24
<1> QED BY <1>25 DEF r, q, p, n

-----------------------------------------------------------------------------
(* Failures.                                                               *)

FailingOK == numFailed \in Nat /\ \A i \in DOMAIN failing : failing[i] \in Nodes

\* The nodes that the shuffle draws are nodes of the simulation.
LEMMA PlaceTyped ==
  ASSUME NEW k \in 0 .. NumNodes, NEW f \in [0 .. k - 1 -> Nodes], NEW i \in Nodes, NEW pos \in Nodes,
         pos <= i
  PROVE  Place(f, i, pos, k) \in [0 .. k - 1 -> Nodes]
<1>1. NumNodes \in Nat /\ k \in Nat /\ i \in Nat /\ pos \in Nat
  BY SimulationAssumption DEF SimulationAssumption, Nodes
<1>2. CASE pos >= k
  BY <1>2 DEF Place
<1>3. CASE ~(pos >= k)
  <2> DEFINE moved == IF i < k /\ pos # i THEN [f EXCEPT ![i] = f[pos]] ELSE f
  <2>1. pos \in 0 .. k - 1
    BY <1>1, <1>3
  <2>2. moved \in [0 .. k - 1 -> Nodes]
    BY <2>1
  <2>3. Place(f, i, pos, k) = [moved EXCEPT ![pos] = i]
    BY <1>3 DEF Place
  <2> HIDE DEF moved
  <2> QED BY <2>2, <2>3
<1> QED BY <1>2, <1>3

LEMMA ShuffledTyped ==
  ASSUME NEW old, \A i \in DOMAIN old : old[i] \in Nodes, NEW draw \in Draws, NEW k \in 0 .. NumNodes
  PROVE  Shuffled(old, draw, k) \in [0 .. k - 1 -> Nodes]
<1> DEFINE start == [i \in 0 .. k - 1 |-> IF i \in DOMAIN old THEN old[i] ELSE 0]
           Rec(g, m) == g = [i \in 0 .. m |->
                               IF i = 0 THEN start ELSE Place(g[i - 1], i - 1, draw[i - 1], k)]
           f == CHOOSE g : Rec(g, NumNodes)
<1>1. NumNodes \in Nat /\ 0 \in Nodes
  BY SimulationAssumption DEF SimulationAssumption, Nodes
<1>2. Shuffled(old, draw, k) = f[NumNodes]
  BY DEF Shuffled
<1>3. start \in [0 .. k - 1 -> Nodes]
  BY <1>1
<1> HIDE DEF start
<1>4. \E g : Rec(g, NumNodes)
  <2> DEFINE Bad == {m \in Nat : ~\E g : Rec(g, m)}
  <2> SUFFICES ASSUME NumNodes \in Bad PROVE FALSE
    BY <1>1
  <2>1. PICK m \in Bad : \A b \in Bad : m <= b
    <3>1. Bad \in SUBSET Nat /\ Bad # {}
      OBVIOUS
    <3> HIDE DEF Bad
    <3> QED BY <3>1, LeastNumber
  <2>2. CASE m = 0
    <3> DEFINE g0 == [i \in 0 .. 0 |-> start]
    <3>1. Rec(g0, 0)
      OBVIOUS
    <3> HIDE DEF g0, Rec
    <3> QED BY <2>1, <2>2, <3>1
  <2>3. CASE m # 0
    <3>1. m - 1 \in Nat /\ m - 1 \notin Bad /\ m \in Nat
      <4>1. m \in Nat
        OBVIOUS
      <4> HIDE DEF Bad
      <4> QED BY <4>1, <2>1, <2>3
    <3>2. PICK g : Rec(g, m - 1)
      BY <3>1
    <3> DEFINE h == [i \in 0 .. m |-> IF i = m THEN Place(g[m - 1], m - 1, draw[m - 1], k) ELSE g[i]]
    <3>3. \A i \in 0 .. m : h[i] = IF i = 0 THEN start ELSE Place(h[i - 1], i - 1, draw[i - 1], k)
      <4> SUFFICES ASSUME NEW i \in 0 .. m
                   PROVE h[i] = IF i = 0 THEN start ELSE Place(h[i - 1], i - 1, draw[i - 1], k)
        OBVIOUS
      <4>1. CASE i = m
        <5>1. h[i] = Place(g[m - 1], m - 1, draw[m - 1], k) /\ h[m - 1] = g[m - 1] /\ i # 0
          BY <4>1, <3>1, <2>3
        <5> HIDE DEF h
        <5> QED BY <4>1, <5>1
      <4>2. CASE i # m
        <5>1. i \in 0 .. m - 1 /\ h[i] = g[i] /\ (i # 0 => h[i - 1] = g[i - 1])
          BY <4>2, <3>1
        <5>2. g[i] = IF i = 0 THEN start ELSE Place(g[i - 1], i - 1, draw[i - 1], k)
          BY <3>2, <5>1
        <5> HIDE DEF h
        <5> QED BY <5>1, <5>2
      <4> QED BY <4>1, <4>2
    <3>4. Rec(h, m)
      <4>1. h = [i \in 0 .. m |-> h[i]]
        OBVIOUS
      <4> HIDE DEF h
      <4> QED BY <3>3, <4>1
    <3> HIDE DEF h, Rec
    <3> QED BY <2>1, <3>4
  <2> QED BY <2>2, <2>3
<1>5. Rec(f, NumNodes)
  <2> HIDE DEF Rec
  <2> QED BY <1>4
<1> HIDE DEF f
<1>6. \A i \in 0 .. NumNodes : f[i] = IF i = 0 THEN start ELSE Place(f[i - 1], i - 1, draw[i - 1], k)
  BY <1>5
<1> HIDE DEF Rec
<1>7. \A m \in 0 .. NumNodes : f[m] \in [0 .. k - 1 -> Nodes]
  <2> DEFINE Bad == {m \in 0 .. NumNodes : f[m] \notin [0 .. k - 1 -> Nodes]}
  <2> SUFFICES ASSUME Bad # {} PROVE FALSE
    OBVIOUS
  <2>1. PICK m \in Bad : \A b \in Bad : m <= b
    <3>1. Bad \in SUBSET Nat
      OBVIOUS
    <3> HIDE DEF Bad
    <3> QED BY <3>1, LeastNumber
  <2>2. m \in 0 .. NumNodes /\ m # 0
    BY <1>3, <1>6, <2>1
  <2>3. m - 1 \in 0 .. NumNodes /\ m - 1 \notin Bad /\ m - 1 \in Nodes
    BY <2>1, <2>2, <1>1 DEF Nodes
  <2>4. f[m - 1] \in [0 .. k - 1 -> Nodes]
    BY <2>3
  <2>5. draw[m - 1] \in Nodes /\ draw[m - 1] <= m - 1
    BY <2>3 DEF Draws
  <2>6. f[m] \in [0 .. k - 1 -> Nodes]
    BY <1>6, <2>2, <2>3, <2>4, <2>5, PlaceTyped
  <2> QED BY <2>1, <2>6
<1> QED BY <1>1, <1>2, <1>7

\* Nodes that fail forget their tasks and most of their timers.
LEMMA FailedIsGood ==
  ASSUME IInv, FailingOK, NEW e \in events, IsNext(e), e.msg.kind = "failure",
         NEW down, down = Range(failing)
  PROVE  LET r == [Popped(e) EXCEPT
                     !.node = [n \in Nodes |-> IF n \in down THEN Failed(node[n]) ELSE node[n]],
                     !.gone = @ \cup UNION {LostTimers(node[n]) : n \in down}] IN
         Good(r) /\ r.now = e.t /\ r.events = events \ {e}
<1> DEFINE p == Popped(e)
           newNode == [n \in Nodes |-> IF n \in down THEN Failed(node[n]) ELSE node[n]]
           lost == UNION {LostTimers(node[n]) : n \in down}
           r == [p EXCEPT !.node = newNode, !.gone = @ \cup lost]
<1>0. down \subseteq Nodes
  BY DEF Range, FailingOK
<1>1. /\ p.now = e.t /\ p.events = events \ {e} /\ p.lastId = lastId
      /\ p.timerId = timerId /\ p.taskId = taskId /\ p.node = node /\ p.gone = gone
  BY PoppedFields
<1>2. Good(p) /\ p \in States
  <2>1. e.msg # Check
    BY DEF Check
  <2> QED BY <2>1, PoppedIsGood DEF Good
<1>3. node \in [Nodes -> NodeStates]
  BY <1>1, <1>2 DEF States
<1>4. \A n \in Nodes :
        /\ Failed(node[n]) \in NodeStates
        /\ Failed(node[n]).tasks = <<>>
        /\ Failed(node[n]).inEnd = node[n].inEnd /\ Failed(node[n]).heard = node[n].heard
        /\ Failed(node[n]).timers = {t \in node[n].timers : t.msg.kind = "heartbeat"}
  <2> SUFFICES ASSUME NEW n \in Nodes
               PROVE /\ Failed(node[n]) \in NodeStates
                     /\ Failed(node[n]).tasks = <<>>
                     /\ Failed(node[n]).inEnd = node[n].inEnd /\ Failed(node[n]).heard = node[n].heard
                     /\ Failed(node[n]).timers = {t \in node[n].timers : t.msg.kind = "heartbeat"}
    OBVIOUS
  <2>1. node[n] \in NodeStates
    BY <1>3
  <2>2. Failed(node[n]) = [node[n] EXCEPT !.tasks = <<>>,
                             !.timers = {t \in node[n].timers : t.msg.kind = "heartbeat"}]
    BY <2>1 DEF Failed, NodeStates
  <2>3. /\ {t \in node[n].timers : t.msg.kind = "heartbeat"} \in SUBSET Timers
        /\ <<>> \in Seq(Tasks)
    BY <2>1 DEF NodeStates
  <2> QED BY <2>1, <2>2, <2>3 DEF NodeStates
<1>5. \A i \in lost : \E n \in down : \E u \in node[n].timers : i = u.id /\ u.msg.kind # "heartbeat"
  BY DEF LostTimers
<1>6. \A n \in down : \A u \in node[n].timers : u.msg.kind # "heartbeat" => u.id \in lost
  BY DEF LostTimers
<1> HIDE DEF p, lost
<1>7. lost \in SUBSET Nat
  <2>1. \A n \in Nodes : \A u \in node[n].timers : u.id \in Nat
    BY <1>1, <1>2, NodeTyped, TimerTyped
  <2> QED BY <2>1, <1>0, <1>5
<1>8. newNode \in [Nodes -> NodeStates]
  BY <1>3, <1>4
<1>9. \A n \in Nodes :
        /\ newNode[n].tasks = node[n].tasks \/ newNode[n].tasks = <<>>
        /\ newNode[n].inEnd = node[n].inEnd /\ newNode[n].heard = node[n].heard
        /\ newNode[n].timers \subseteq node[n].timers
        /\ n \in down => \A u \in newNode[n].timers : u.msg.kind = "heartbeat"
  BY <1>4
<1> HIDE DEF newNode
<1>10. /\ r.now = e.t /\ r.timerId = timerId /\ r.node = newNode /\ r.gone = gone \cup lost
       /\ r.taskId = p.taskId /\ r.events = events \ {e}
  BY <1>1, <1>2 DEF States
<1>11. r \in States
  BY <1>2, <1>7, <1>8 DEF States
<1> HIDE DEF r
<1>12. \A n \in Nodes : \A u \in newNode[n].timers : u.id \notin lost
  <2> SUFFICES ASSUME NEW n \in Nodes, NEW u \in newNode[n].timers, u.id \in lost PROVE FALSE
    OBVIOUS
  <2>1. PICK m \in down : \E v \in node[m].timers : u.id = v.id /\ v.msg.kind # "heartbeat"
    BY <1>5
  <2>2. PICK v \in node[m].timers : u.id = v.id /\ v.msg.kind # "heartbeat"
    BY <2>1
  <2>3. u \in node[n].timers /\ m \in Nodes
    BY <1>0, <1>9
  <2>4. n = m /\ u = v
    BY <2>2, <2>3, <1>1, <1>2 DEF Good, TimersOK
  <2> QED BY <2>2, <2>4, <1>9
<1>13. FutureOK(r)
  BY <1>1, <1>2, <1>10 DEF Good, FutureOK
<1>14. TimersOK(r)
  <2>1. \A i \in lost : i <= timerId
    BY <1>0, <1>1, <1>2, <1>5 DEF Good, TimersOK
  <2> QED BY <2>1, <1>1, <1>2, <1>9, <1>10, <1>12 DEF Good, TimersOK
<1>15. ExpirationsOK(r)
  <2>1. \A f \in p.events : f.msg.kind \in TimerKinds => f.msg.timer \notin lost
    BY <1>0, <1>1, <1>2, <1>5 DEF Good, ExpirationsOK
  <2> QED BY <2>1, <1>1, <1>2, <1>9, <1>10 DEF Good, ExpirationsOK
<1>16. ChecksOK(r)
  BY <1>1, <1>2, <1>9, <1>10 DEF Good, ChecksOK
<1>17. LinksOK(r)
  <2>1. \A f \in p.events : f.to \in Nodes
    BY <1>2, EventTyped
  <2> QED BY <2>1, <1>1, <1>2, <1>9, <1>10 DEF Good, LinksOK
<1>18. TasksOK(r)
  <2>1. \A n \in Nodes : \A task, timer, due :
          EndOK(node[n].tasks, task, timer, due, p.taskId) => EndOK(newNode[n].tasks, task, timer, due, p.taskId)
    BY <1>9 DEF EndOK
  <2>2. \A n \in Nodes :
          /\ \A i \in DOMAIN newNode[n].tasks : TaskOK(newNode[n].tasks[i], p.now, p.taskId)
          /\ \A i, j \in DOMAIN newNode[n].tasks : newNode[n].tasks[i].id = newNode[n].tasks[j].id => i = j
    BY <1>1, <1>2, <1>9 DEF Good, TasksOK
  <2>3. \A n \in Nodes : \A u \in newNode[n].timers : u.msg.kind = "taskend" =>
          EndOK(newNode[n].tasks, u.msg.task, u.id, u.timeout, p.taskId)
    BY <2>1, <1>1, <1>2, <1>9 DEF Good, TasksOK
  <2>4. \A n \in Nodes : \A f \in p.events : f.msg.kind = "taskend" /\ f.to = n =>
          /\ EndOK(newNode[n].tasks, f.msg.task, f.msg.timer, f.msg.due, p.taskId)
          /\ f.msg.due <= f.t /\ f.t <= f.msg.due + MaxOp
    BY <2>1, <1>1, <1>2 DEF Good, TasksOK
  <2> QED BY <2>2, <2>3, <2>4, <1>1, <1>10 DEF TasksOK
<1>19. Good(r)
  BY <1>11, <1>13, <1>14, <1>15, <1>16, <1>17, <1>18 DEF Good
<1> QED BY <1>10, <1>19 DEF r, p, newNode, lost

-----------------------------------------------------------------------------
(* The engine.                                                             *)

LEMMA BecomesIsCurrent ==
  ASSUME NEW r, r \in States, Becomes(r)
  PROVE  Current' = r
BY DEF Becomes, Current, States

\* What the step that takes an event may do to the rest.
After(e) ==
  /\ IInv' /\ FailingOK'
  /\ time' = e.t /\ events \ {e} \subseteq events'
  /\ \/ \E f \in events' : f.id = e.id
     \/ e.from # e.to /\ node[e.to].heard > 0 => e.t >= node[e.to].heard + InTime[e.to]
  /\ \/ numFailed' # numFailed
     \/ \A n \in Nodes : TaskIds(Current, n) \subseteq
          TaskIds(Current', n) \cup (IF e.msg.kind = "taskend" /\ n = e.to THEN {e.msg.task} ELSE {})

LEMMA FailStep ==
  ASSUME IInv, FailingOK, NEW e \in events, IsNext(e), Fail(e)
  PROVE  After(e)
<1> DEFINE down == Range(failing)
           s == [Popped(e) EXCEPT
                   !.node = [n \in Nodes |-> IF n \in down THEN Failed(node[n]) ELSE node[n]],
                   !.gone = @ \cup UNION {LostTimers(node[n]) : n \in down}]
<1>1. e.msg.kind = "failure" /\ numFailed' = numFailed + 1
  BY DEF Fail
<1>2. Good(s) /\ s.now = e.t /\ s.events = events \ {e}
  BY <1>1, FailedIsGood
<1>3. \/ \E k \in NumFailing, draw \in Draws, at \in FailAts :
            /\ failing' = Shuffled(failing, draw, k)
            /\ Becomes(IF e.t + at <= MaxTime THEN InjectMessage(s, 0, Failure, e.t + at) ELSE s)
      \/ UNCHANGED failing /\ Becomes(s)
  BY DEF Fail
<1> HIDE DEF s, down
<1>4. s \in States /\ 0 \in Nodes /\ e.t \in Nat
  <2>1. NumNodes \in Nat \ {0}
    BY SimulationAssumption DEF SimulationAssumption
  <2> QED BY <2>1, <1>2 DEF Good, States, Nodes
<1>5. \E r : Good(r) /\ r.now = e.t /\ events \ {e} \subseteq r.events /\ Becomes(r)
  <2>1. CASE UNCHANGED failing /\ Becomes(s)
    BY <2>1, <1>2
  <2>2. CASE \E k \in NumFailing, draw \in Draws, at \in FailAts :
            /\ failing' = Shuffled(failing, draw, k)
            /\ Becomes(IF e.t + at <= MaxTime THEN InjectMessage(s, 0, Failure, e.t + at) ELSE s)
    <3>1. PICK at \in FailAts :
            Becomes(IF e.t + at <= MaxTime THEN InjectMessage(s, 0, Failure, e.t + at) ELSE s)
      BY <2>2
    <3>2. CASE ~(e.t + at <= MaxTime)
      BY <3>1, <3>2, <1>2
    <3>3. CASE e.t + at <= MaxTime
      <4> DEFINE r == Put(s, e.t + at, 0, 0, 0, Failure)
      <4>1. Becomes(r)
        BY <3>1, <3>3 DEF InjectMessage
      <4>2. e.t + at \in Nat /\ s.now <= e.t + at
        BY <1>2, <1>4, SimulationAssumption DEF SimulationAssumption
      <4>3. Good(r) /\ Keeps(s, r)
        BY <4>2, <1>2, <1>4, PutIsGood
      <4> HIDE DEF r
      <4> QED BY <4>1, <4>3, <1>2 DEF Keeps
    <3> QED BY <3>2, <3>3
  <2> QED BY <1>3, <2>1, <2>2
<1>6. PICK r : Good(r) /\ r.now = e.t /\ events \ {e} \subseteq r.events /\ Becomes(r)
  BY <1>5
<1>7. IInv' /\ time' = e.t /\ events \ {e} \subseteq events'
  <2>1. Current' = r
    BY <1>6, BecomesIsCurrent DEF Good
  <2> QED BY <2>1, <1>6 DEF IInv, Becomes
<1>8. FailingOK'
  <2>1. CASE UNCHANGED failing
    BY <2>1, <1>1 DEF FailingOK
  <2>2. CASE \E k \in NumFailing, draw \in Draws : failing' = Shuffled(failing, draw, k)
    <3>1. PICK k \in NumFailing, draw \in Draws : failing' = Shuffled(failing, draw, k)
      BY <2>2
    <3>2. k \in 0 .. NumNodes
      BY SimulationAssumption DEF SimulationAssumption
    <3>3. failing' \in [0 .. k - 1 -> Nodes]
      BY <3>1, <3>2, ShuffledTyped DEF FailingOK
    <3> QED BY <3>3, <1>1 DEF FailingOK
  <2> QED BY <1>3, <2>1, <2>2
<1>9. e.from = e.to
  BY <1>1, CurrentFields DEF IInv, Good, FutureOK, App
<1>10. numFailed' # numFailed
  BY <1>1 DEF FailingOK
<1> QED BY <1>7, <1>8, <1>9, <1>10 DEF After

\* A handler that keeps what it was given, or ends a task.
LEMMA HandlerStep ==
  ASSUME IInv, FailingOK, NEW e \in events, IsNext(e), e.msg # Check, ~LinkIsBusy(e),
         UNCHANGED <<failing, numFailed>>, NEW r, Becomes(r),
         \/ Keeps(Arrived(e), r) /\ Good(r)
         \/ e.msg.kind = "taskend" /\ r = EndTask(Arrived(e), e.to, e.msg.task)
  PROVE  After(e)
<1> DEFINE s == Arrived(e)
<1>1. /\ Good(s) /\ s.now = e.t /\ s.events = events \ {e}
      /\ \A n \in Nodes : s.node[n].tasks = node[n].tasks
      /\ e.from # e.to /\ node[e.to].heard > 0 => e.t >= node[e.to].heard + InTime[e.to]
  BY ArrivedIsGood
<1>2. e.to \in Nodes
  BY CurrentFields, EventTyped DEF IInv, Good
<1> HIDE DEF s
<1>3. \A n \in Nodes : TaskIds(s, n) = TaskIds(Current, n)
  BY <1>1, CurrentFields DEF TaskIds
<1>4. /\ Good(r) /\ r.now = e.t /\ events \ {e} \subseteq r.events
      /\ \A n \in Nodes : TaskIds(Current, n) \subseteq
           TaskIds(r, n) \cup (IF e.msg.kind = "taskend" /\ n = e.to THEN {e.msg.task} ELSE {})
  <2>1. CASE Keeps(s, r) /\ Good(r)
    BY <2>1, <1>1, <1>3 DEF Keeps
  <2>2. CASE e.msg.kind = "taskend" /\ r = EndTask(s, e.to, e.msg.task)
    <3>1. /\ Good(r) /\ r.now = s.now /\ s.events \subseteq r.events
          /\ \A m \in Nodes : TaskIds(s, m) \subseteq
               TaskIds(r, m) \cup (IF m = e.to THEN {e.msg.task} ELSE {})
      BY <2>2, <1>1, <1>2, EndTaskIsGood
    <3> QED BY <3>1, <2>2, <1>1, <1>3
  <2> QED BY <2>1, <2>2 DEF s
<1>5. Current' = r
  BY <1>4, BecomesIsCurrent DEF Good
<1>6. FailingOK'
  BY DEF FailingOK
<1>7. IInv' /\ time' = e.t /\ events \ {e} \subseteq events'
  BY <1>4, <1>5 DEF IInv, Becomes
<1>8. \A n \in Nodes : TaskIds(Current, n) \subseteq
          TaskIds(Current', n) \cup (IF e.msg.kind = "taskend" /\ n = e.to THEN {e.msg.task} ELSE {})
  BY <1>4, <1>5
<1> QED BY <1>1, <1>6, <1>7, <1>8 DEF After

LEMMA EnqueueStep ==
  ASSUME IInv, FailingOK, NEW e \in events, IsNext(e), Enqueue(e)
  PROVE  After(e)
<1> DEFINE r == Enqueued(e)
<1>1. e.msg.kind # "failure" /\ LinkIsBusy(e) /\ Becomes(r) /\ UNCHANGED <<failing, numFailed>>
  BY DEF Enqueue, Enqueued
<1>2. /\ Good(r) /\ r.now = e.t /\ \E f \in r.events : f.id = e.id
      /\ events \ {e} \subseteq r.events
      /\ \A n \in Nodes : r.node[n].tasks = node[n].tasks
  BY <1>1, EnqueuedIsGood
<1> HIDE DEF r
<1>3. Current' = r
  BY <1>1, <1>2, BecomesIsCurrent DEF Good
<1>4. FailingOK'
  BY <1>1 DEF FailingOK
<1>5. IInv' /\ time' = e.t /\ events \ {e} \subseteq events' /\ \E f \in events' : f.id = e.id
  BY <1>1, <1>2, <1>3 DEF IInv, Becomes
<1>6. \A n \in Nodes : TaskIds(Current, n) \subseteq TaskIds(Current', n)
  BY <1>2, <1>3, CurrentFields DEF TaskIds
<1> QED BY <1>4, <1>5, <1>6 DEF After

LEMMA CheckTimersStep ==
  ASSUME IInv, FailingOK, NEW e \in events, IsNext(e), CheckTimers(e)
  PROVE  After(e)
<1>1. PICK op \in 0 .. MaxOp : Becomes(NextCheck(SendExpired(Popped(e), e.to, op), e.to))
  BY DEF CheckTimers
<1>2. e.msg.kind = "check" /\ UNCHANGED <<failing, numFailed>>
  BY DEF CheckTimers
<1>3. e.msg = Check /\ e.from = e.to
  <2>1. e.msg \in Msgs /\ (e.from # e.to => e.msg = App)
    BY CurrentFields, EventTyped DEF IInv, Good, FutureOK
  <2>2. e.msg \notin Expirations
    BY <1>2 DEF Expirations, TimerKinds
  <2> QED BY <2>1, <2>2, <1>2 DEF Msgs, Failure, App, Check
<1> DEFINE r == NextCheck(SendExpired(Popped(e), e.to, op), e.to)
<1>4. /\ Good(r) /\ r.now = e.t /\ events \ {e} \subseteq r.events
      /\ \A n \in Nodes : r.node[n].tasks = node[n].tasks
  BY <1>3, CheckedIsGood
<1> HIDE DEF r
<1>5. Current' = r
  BY <1>1, <1>4, BecomesIsCurrent DEF Good, r
<1>6. FailingOK'
  BY <1>2 DEF FailingOK
<1>7. IInv' /\ time' = e.t /\ events \ {e} \subseteq events'
  BY <1>1, <1>4, <1>5 DEF IInv, Becomes, r
<1>8. \A n \in Nodes : TaskIds(Current, n) \subseteq TaskIds(Current', n)
  BY <1>4, <1>5, CurrentFields DEF TaskIds
<1> QED BY <1>3, <1>6, <1>7, <1>8 DEF After

LEMMA HandleStep ==
  ASSUME IInv, FailingOK, NEW e \in events, IsNext(e), Handle(e)
  PROVE  After(e)
<1> DEFINE s == Arrived(e)
           n == e.to
<1>1. /\ e.msg.kind \in {"app", "heartbeat", "other"} /\ ~LinkIsBusy(e)
      /\ UNCHANGED <<failing, numFailed>>
      /\ \/ Becomes(s)
         \/ \E r \in Sent(s, n) : Becomes(r)
         \/ \E r \in TimerSet(s, n) : Becomes(r)
         \/ \E r \in TimerCancelled(s, n) : Becomes(r)
         \/ \E r \in TaskAccepted(s, n) : Becomes(r)
  BY DEF Handle
<1>2. e.msg # Check
  BY <1>1 DEF Check
<1>3. Good(s) /\ s \in States /\ s.now \in Nat
  BY <1>1, <1>2, ArrivedIsGood DEF Good, States
<1>4. n \in Nodes
  BY CurrentFields, EventTyped DEF IInv, Good
<1> HIDE DEF s, n
<1>5. Keeps(s, s)
  BY DEF Keeps
<1>6. \A r \in Sent(s, n) : Good(r) /\ Keeps(s, r)
  <2> SUFFICES ASSUME NEW to \in Nodes, NEW delay \in NetDelays, NEW op \in 0 .. MaxOp
               PROVE LET r == Send(s, n, to, App, delay, op) IN Good(r) /\ Keeps(s, r)
    BY DEF Sent
  <2>1. delay \in Nat /\ op \in Nat
    BY SimulationAssumption DEF SimulationAssumption
  <2> QED BY <2>1, <1>3, <1>4, SendIsGood
<1>7. \A r \in TimerSet(s, n) : Good(r) /\ Keeps(s, r)
  <2> SUFFICES ASSUME NEW d \in Waits, NEW k \in {"heartbeat", "other"}
               PROVE LET r == SetTimer(s, n, s.now + d, Wait(k)) IN Good(r) /\ Keeps(s, r)
    BY DEF TimerSet
  <2>1. s.now + d \in Nat /\ s.now <= s.now + d
    BY <1>3, SimulationAssumption DEF SimulationAssumption
  <2>2. Wait(k) \in TimerMsgs /\ Wait(k).kind # "taskend"
    BY DEF Wait, TimerMsgs, TimerKinds
  <2> QED BY <2>1, <2>2, <1>3, <1>4, OtherTimerIsGood
<1>8. \A r \in TimerCancelled(s, n) : Good(r) /\ Keeps(s, r)
  <2> SUFFICES ASSUME NEW t
               PROVE LET r == CancelTimers(s, n, {t.id}) IN Good(r) /\ Keeps(s, r)
    BY DEF TimerCancelled
  <2> QED BY <1>3, <1>4, CancelIsGood
<1>9. \A r \in TaskAccepted(s, n) : Good(r) /\ Keeps(s, r)
  <2> SUFFICES ASSUME NEW length \in Lengths, NEW first \in BOOLEAN
               PROVE LET r == Accept(s, n, length, first) IN Good(r) /\ Keeps(s, r)
    BY DEF TaskAccepted
  <2>1. length \in Nat
    BY SimulationAssumption DEF SimulationAssumption
  <2> QED BY <2>1, <1>3, <1>4, AcceptIsGood
<1>10. PICK r : Becomes(r) /\ Good(r) /\ Keeps(s, r)
  BY <1>1, <1>3, <1>5, <1>6, <1>7, <1>8, <1>9
<1> QED BY <1>1, <1>2, <1>10, HandlerStep DEF s

LEMMA HandleTaskEndStep ==
  ASSUME IInv, FailingOK, NEW e \in events, IsNext(e), HandleTaskEnd(e)
  PROVE  After(e)
<1>1. /\ e.msg.kind = "taskend" /\ Becomes(EndTask(Arrived(e), e.to, e.msg.task))
      /\ UNCHANGED <<failing, numFailed>>
  BY DEF HandleTaskEnd
<1>2. e.msg # Check /\ e.msg # App
  BY <1>1 DEF Check, App
<1>3. ~LinkIsBusy(e)
  BY <1>2, CurrentFields DEF IInv, Good, FutureOK, LinkIsBusy, FromNetwork
<1> QED BY <1>1, <1>2, <1>3, HandlerStep

\* Every event is taken as After says.
LEMMA NextStep ==
  ASSUME IInv, FailingOK, Next
  PROVE  \E e \in events : After(e)
<1>1. PICK e \in events :
        IsNext(e) /\ (Fail(e) \/ Enqueue(e) \/ CheckTimers(e) \/ Handle(e) \/ HandleTaskEnd(e))
  BY DEF Next
<1> QED BY <1>1, FailStep, EnqueueStep, CheckTimersStep, HandleStep, HandleTaskEndStep

LEMMA InitIsGood ==
  ASSUME Init
  PROVE  IInv /\ FailingOK
<1>1. /\ time = 0 /\ timerId = 0 /\ taskId = 0 /\ gone = {} /\ numFailed = 0
      /\ node = [n \in Nodes |-> [timers |-> {}, tasks |-> <<>>, inEnd |-> 0, outEnd |-> 0, heard |-> 0]]
      /\ lastId = Len(Clients) + 1
  BY DEF Init
<1>2. PICK k \in NumFailing, draw \in Draws, at \in FailAts, start \in [DOMAIN Clients -> Starts] :
       /\ failing = Shuffled(<<>>, draw, k)
       /\ events = {Event(0, at, 0, 0, 0, Failure)}
                     \cup {Event(i, start[i], Clients[i], Clients[i], 0, App) : i \in DOMAIN Clients}
  BY DEF Init
<1>3. FailingOK
  <2>1. k \in 0 .. NumNodes
    BY SimulationAssumption DEF SimulationAssumption
  <2>2. \A i \in DOMAIN <<>> : <<>>[i] \in Nodes
    OBVIOUS
  <2>3. failing \in [0 .. k - 1 -> Nodes]
    BY <1>2, <2>1, <2>2, ShuffledTyped
  <2> QED BY <2>3, <1>1 DEF FailingOK
<1>4. \A e \in events : /\ e \in Events /\ e.from = e.to /\ e.queued = FALSE /\ 0 <= e.t
                        /\ e.msg \in {App, Failure}
  <2>1. 0 \in Nodes /\ at \in Nat /\ \A i \in DOMAIN Clients : i \in Nat /\ start[i] \in Nat /\ Clients[i] \in Nodes
    <3>1. 0 \in Nodes /\ at \in Nat
      BY SimulationAssumption DEF SimulationAssumption, Nodes
    <3>2. Clients \in Seq(Nodes) /\ Starts \subseteq Nat
      BY SimulationAssumption DEF SimulationAssumption
    <3>3. DOMAIN Clients = 1 .. Len(Clients) /\ Len(Clients) \in Nat
          /\ \A i \in DOMAIN Clients : Clients[i] \in Nodes
      BY <3>2
    <3>4. \A i \in DOMAIN Clients : start[i] \in Nat
      BY <3>2
    <3> QED BY <3>1, <3>3, <3>4
  <2>2. Failure \in Msgs /\ App \in Msgs
    BY DEF Msgs
  <2>3. \A e \in {Event(0, at, 0, 0, 0, Failure)} :
          /\ e \in Events /\ e.from = e.to /\ e.queued = FALSE /\ 0 <= e.t /\ e.msg \in {App, Failure}
    <3> DEFINE e == Event(0, at, 0, 0, 0, Failure)
    <3>1. /\ e \in Events /\ e.from = e.to /\ e.queued = FALSE /\ e.t = at /\ e.msg = Failure
      BY <2>1, <2>2 DEF Event, Events
    <3> HIDE DEF e
    <3>2. 0 <= e.t /\ e.msg \in {App, Failure}
      BY <3>1, <2>1
    <3> QED BY <3>1, <3>2 DEF e
  <2>4. \A i \in DOMAIN Clients : LET e == Event(i, start[i], Clients[i], Clients[i], 0, App) IN
          /\ e \in Events /\ e.from = e.to /\ e.queued = FALSE /\ 0 <= e.t /\ e.msg \in {App, Failure}
    BY <2>1, <2>2 DEF Event, Events
  <2> QED BY <1>2, <2>3, <2>4
<1> DEFINE c == Current
<1>5. /\ c.now = 0 /\ c.events = events /\ c.timerId = 0 /\ c.taskId = 0 /\ c.node = node /\ c.gone = {}
      /\ c.lastId = Len(Clients) + 1
  BY <1>1, CurrentFields
<1>6. \A n \in Nodes : /\ node[n].timers = {} /\ node[n].tasks = <<>> /\ node[n].inEnd = 0
                       /\ node[n].heard = 0
  BY <1>1
<1>7. node \in [Nodes -> NodeStates]
  BY <1>1 DEF NodeStates
<1>8. c \in States
  <2>1. Len(Clients) + 1 \in Nat
    BY SimulationAssumption DEF SimulationAssumption
  <2>2. events \in SUBSET Events
    BY <1>4
  <2> QED BY <2>1, <2>2, <1>1, <1>7 DEF Current, States
<1> HIDE DEF c
<1>9. \A e \in events : e.msg.kind \notin TimerKinds /\ e.msg.kind # "taskend"
  BY <1>4 DEF App, Failure, TimerKinds
<1>10. FutureOK(c)
  BY <1>4, <1>5 DEF FutureOK
<1>11. TimersOK(c) /\ ChecksOK(c)
  BY <1>5, <1>6 DEF TimersOK, ChecksOK
<1>12. ExpirationsOK(c)
  BY <1>5, <1>9 DEF ExpirationsOK
<1>13. LinksOK(c)
  BY <1>4, <1>5, <1>6 DEF LinksOK
<1>14. TasksOK(c)
  BY <1>5, <1>6, <1>9 DEF TasksOK
<1> QED BY <1>3, <1>8, <1>10, <1>11, <1>12, <1>13, <1>14 DEF IInv, Good, c

\* What the proofs are about holds always: the types of the engine, and what
\* links timers, checks, messages, links and tasks.
THEOREM EngineIsGood ==
  Spec => [](IInv /\ FailingOK)
<1>1. Init => IInv /\ FailingOK
  BY InitIsGood
<1>2. IInv /\ FailingOK /\ [Next]_vars => (IInv /\ FailingOK)'
  <2> SUFFICES ASSUME IInv, FailingOK, [Next]_vars PROVE IInv' /\ FailingOK'
    OBVIOUS
  <2>1. CASE Next
    <3>1. PICK e \in events : After(e)
      BY <2>1, NextStep
    <3> QED BY <3>1 DEF After
  <2>2. CASE UNCHANGED vars
    <3>1. Current' = Current
      BY <2>2 DEF Current, vars
    <3> QED BY <2>2, <3>1 DEF IInv, FailingOK, vars
  <2> QED BY <2>1, <2>2
<1> QED BY <1>1, <1>2, PTL DEF Spec

\* The first timer of a node, and so every one, has a check.
LEMMA TimersAreCheckedNow ==
  ASSUME IInv
  PROVE  TimersAreChecked
<1> SUFFICES ASSUME NEW n \in Nodes, node[n].timers # {}
             PROVE \E e \in events : /\ e.msg = Check /\ e.to = n
                                     /\ time <= e.t /\ \A u \in node[n].timers : e.t <= u.timeout
  BY DEF TimersAreChecked
<1> DEFINE timers == node[n].timers
           times == {u.timeout : u \in timers}
<1>1. timers \in SUBSET Timers
  BY CurrentFields, NodeTyped DEF IInv, Good
<1>2. PICK x \in times : \A y \in times : x <= y
  <2>1. times \in SUBSET Nat /\ times # {}
    BY <1>1, TimerTyped
  <2> HIDE DEF times
  <2> QED BY <2>1, LeastNumber
<1>3. PICK t \in timers : t.timeout = x
  OBVIOUS
<1>4. \A u \in timers : t.timeout <= u.timeout /\ u.timeout \in Nat
  BY <1>1, <1>2, <1>3, TimerTyped
<1>5. PICK e \in events : e.msg = Check /\ e.to = n /\ e.t <= t.timeout
  BY CurrentFields DEF IInv, Good, ChecksOK
<1>6. e.t \in Nat /\ time <= e.t
  BY CurrentFields, EventTyped DEF IInv, Good, FutureOK
<1>7. \A u \in timers : e.t <= u.timeout
  BY <1>4, <1>5, <1>6
<1> QED BY <1>5, <1>6, <1>7

\* For any nodes, links, delays and failures, a timer that is not cancelled is
\* checked in time, handed over once and not early, and no other one is.
THEOREM TimersRight ==
  Spec => TimersAreRight
<1> DEFINE Honest == \A e \in events \ events' :
                       e.msg.kind \in TimerKinds => e.msg.timer \notin gone /\ e.msg.due <= time'
<1>1. IInv /\ FailingOK => TimersAreChecked
  BY TimersAreCheckedNow
<1>2. IInv /\ FailingOK /\ [Next]_vars => [Honest]_vars
  <2> SUFFICES ASSUME IInv, FailingOK, Next PROVE Honest
    OBVIOUS
  <2>1. PICK e \in events : After(e)
    BY NextStep
  <2>2. e.msg.kind \in TimerKinds => e.msg.timer \notin gone /\ e.msg.due <= time /\ e.msg.due \in Nat
    BY CurrentFields, ExpirationTyped DEF IInv, Good, ExpirationsOK
  <2>3. time \in Nat /\ time <= e.t /\ e.t \in Nat
    BY CurrentFields, EventTyped DEF IInv, Good, FutureOK, States
  <2>4. \A f \in events \ events' : f = e
    BY <2>1 DEF After
  <2> QED BY <2>1, <2>2, <2>3, <2>4 DEF After
<1> QED BY <1>1, <1>2, EngineIsGood, PTL DEF Spec, TimersAreRight, TimersAreHonest

\* Messages get through the link of a node one at a time, for any times that
\* the links and the network take.
THEOREM LinksAreSerial ==
  Spec => LinkIsSerial
<1> DEFINE Serial == \A e \in events \ events' :
              e.from # e.to /\ e.id \notin {f.id : f \in events'} /\ node[e.to].heard > 0 =>
                time' >= node[e.to].heard + InTime[e.to]
<1>1. IInv /\ FailingOK /\ [Next]_vars => [Serial]_vars
  <2> SUFFICES ASSUME IInv, FailingOK, Next PROVE Serial
    OBVIOUS
  <2>1. PICK e \in events : After(e)
    BY NextStep
  <2>2. \A f \in events \ events' : f = e
    BY <2>1 DEF After
  <2> QED BY <2>1, <2>2 DEF After
<1> QED BY <1>1, EngineIsGood, PTL DEF Spec, LinkIsSerial

\* A task that ends has run for its length, whatever paused it, for any
\* lengths of tasks and of handlers.
THEOREM TasksTakeTime ==
  Spec => TasksTakeTheirTime
<1> DEFINE InTheirTime ==
             \A n \in Nodes : \A t \in ToSet(node[n].tasks) :
               t.id \notin {u.id : u \in ToSet(node'[n].tasks)} /\ numFailed' = numFailed =>
                 LET ran == t.ran + time' - t.since IN t.length <= ran /\ ran <= t.length + MaxOp
<1>1. IInv /\ FailingOK /\ [Next]_vars => [InTheirTime]_vars
  <2> SUFFICES ASSUME IInv, FailingOK, Next, NEW n \in Nodes, NEW t \in ToSet(node[n].tasks),
                      t.id \notin {u.id : u \in ToSet(node'[n].tasks)}, numFailed' = numFailed
               PROVE LET ran == t.ran + time' - t.since IN t.length <= ran /\ ran <= t.length + MaxOp
    OBVIOUS
  <2> DEFINE c == Current
  <2>0. c.node = node /\ c.events = events /\ Good(c) /\ c \in States /\ Current'.node = node'
    BY CurrentFields DEF IInv, Good, Current
  <2>1. PICK e \in events : After(e)
    BY NextStep
  <2>2. PICK i \in DOMAIN node[n].tasks : t = node[n].tasks[i]
    BY DEF ToSet
  <2>3. t.id \in TaskIds(Current, n) /\ t.id \notin TaskIds(Current', n)
    BY <2>0, <2>2 DEF TaskIds, ToSet
  <2>4. e.msg.kind = "taskend" /\ n = e.to /\ t.id = e.msg.task /\ time' = e.t
    BY <2>1, <2>3 DEF After
  <2> HIDE DEF c
  <2>5. /\ EndOK(node[n].tasks, e.msg.task, e.msg.timer, e.msg.due, c.taskId)
        /\ e.msg.due <= e.t /\ e.t <= e.msg.due + MaxOp /\ TaskOK(t, c.now, c.taskId)
    BY <2>0, <2>2, <2>4 DEF Good, TasksOK
  <2>6. e.msg.timer \in Nat /\ e.msg.due \in Nat /\ e.t \in Nat
    BY <2>0, <2>4, ExpirationTyped, EventTyped DEF TimerKinds
  <2>7. t \in Tasks
    BY <2>0, <2>2, TasksTyped
  <2>8. t.timer = e.msg.timer /\ t.finish = e.msg.due /\ t.timer # NoTimer
    BY <2>2, <2>4, <2>5, <2>6 DEF EndOK, NoTimer
  <2>9. t.length = t.ran + t.finish - t.since
    BY <2>5, <2>8 DEF TaskOK
  <2>10. MaxOp \in Nat /\ t.length \in Nat /\ t.ran \in Nat /\ t.since \in Nat
    BY <2>7, TaskTyped, SimulationAssumption DEF SimulationAssumption
  <2> QED BY <2>4, <2>5, <2>6, <2>8, <2>9, <2>10
<1> QED BY <1>1, EngineIsGood, PTL DEF Spec, TasksTakeTheirTime

-----------------------------------------------------------------------------
(* The properties of a run.                                                *)

\* A set of naturals that has a bound has a greatest element.
LEMMA GreatestNumber ==
  ASSUME NEW n \in Nat, NEW S \in SUBSET (1 .. n), S # {}
  PROVE  \E x \in S : \A y \in S : y <= x
<1> DEFINE T == {n - y : y \in S}
<1>1. T \in SUBSET Nat /\ T # {}
  <2>1. \A y \in S : n - y \in Nat
    OBVIOUS
  <2> QED BY <2>1
<1>2. PICK x \in T : \A z \in T : x <= z
  <2> HIDE DEF T
  <2> QED BY <1>1, LeastNumber
<1>3. PICK y \in S : x = n - y
  OBVIOUS
<1>4. \A z \in S : n - y <= n - z
  BY <1>2, <1>3
<1> QED BY <1>4

Limits == {"max_time", "max_sim_time", "max_mem"}

\* The limits that a file of properties sets are numbers.
LEMMA LimitsTyped ==
  ASSUME NEW lines \in Configurations, NEW k \in Limits
  PROVE  LoadFromLines(lines)[k] \in Int
<1> DEFINE at == {i \in DOMAIN lines : lines[i][1] = k}
           last == CHOOSE i \in at : \A j \in at : j <= i
<1>1. k \in DOMAIN Defaults /\ Defaults[k] = 0
  <2>1. CASE k = "max_time"
    BY <2>1 DEF Defaults
  <2>2. CASE k = "max_sim_time"
    BY <2>2 DEF Defaults
  <2>3. CASE k = "max_mem"
    BY <2>3 DEF Defaults
  <2> QED BY <2>1, <2>2, <2>3 DEF Limits
<1>2. LoadFromLines(lines)[k] = IF at = {} THEN Defaults[k] ELSE lines[last][2]
  BY <1>1 DEF LoadFromLines
<1>3. /\ Len(lines) \in Nat /\ DOMAIN lines = 1 .. Len(lines)
      /\ \A i \in DOMAIN lines : \/ lines[i] \in {"case_name"} \X STRING
                                 \/ lines[i] \in {"overwrite", "in_file", "out_file"} \X BOOLEAN
                                 \/ lines[i] \in Limits \X Int
  BY RunAssumption DEF RunAssumption, Limits
<1>4. ASSUME at # {} PROVE last \in at
  <2>1. \E i \in at : \A j \in at : j <= i
    <3>1. at \in SUBSET (1 .. Len(lines))
      BY <1>3
    <3> HIDE DEF at
    <3> QED BY <1>3, <1>4, <3>1, GreatestNumber
  <2> HIDE DEF at
  <2> QED BY <2>1
<1>5. ASSUME NEW i \in at PROVE lines[i][2] \in Int
  BY <1>3 DEF Limits
<1> QED BY <1>1, <1>2, <1>4, <1>5
-----------------------------------------------------------------------------
(* The invariant.                                                          *)

\* The phases of a run that has opened its log and has not ended it.
Started == {"configure", "open", "nodes", "run", "stars", "perf", "traffic", "finish"}

\* The phases in which no node is set up or finished.
Idle == {"down", "case", "unknown", "log", "skipped", "configure", "open", "stars", "perf", "traffic"}

\* The lines of the log.
Texts == {"Running", "Progress", "Properties", "Ending"}

TypeInv ==
  /\ conf.max_time \in Int /\ conf.max_sim_time \in Int /\ conf.max_mem \in Int
  /\ log \in Seq(Texts) /\ network \in Nat \cup {NoFile}
  /\ files \in [StatisticsFiles -> {"none", "open", "whole"}]
  /\ nodes \in 0 .. NetworkSize
  /\ sim \in [numEvents : Nat, time : Nat, real : Nat, memory : Nat, pending : BOOLEAN]

\* A log that ends well has all the statistics, which are written one by one.
LogInv ==
  /\ CheckLogFile => \A f \in StatisticsFiles : files[f] = "whole"
  /\ phase \in Started => log # <<>> /\ log[Len(log)] # "Ending"
  /\ phase \in {"perf", "traffic", "finish"} => files["stars"] = "whole"
  /\ phase \in {"traffic", "finish"} => files["perf"] = "whole"
  /\ phase = "finish" => files["traffic"] = "whole"
  /\ phase = "skipped" => CheckLogFile

\* Nothing has happened before the simulation; memory grows by one at most with
\* each of the events after the last check.
SinceCheck ==
  IF sim.numEvents % MemoryEvents = 0 THEN MemoryEvents ELSE sim.numEvents % MemoryEvents
LimitsInv ==
  /\ phase # "run" => sim = NewSim
  /\ conf.max_time > 0 => sim.real <= conf.max_time
  /\ conf.max_sim_time > 0 => sim.time <= conf.max_sim_time + 1
  /\ conf.max_mem > 0 => sim.memory <= conf.max_mem + SinceCheck

\* The states of the nodes that were set up came from the file; those that have
\* finished are in it.
NetworkInv ==
  /\ phase \in Idle => nodes = 0
  /\ phase \in {"open", "nodes"} /\ conf.in_file => nodes <= network
  /\ phase = "run" => nodes = NetworkSize
  /\ phase = "run" /\ conf.in_file /\ ~conf.out_file => NetworkSize <= network
  /\ phase \in {"open", "nodes", "run", "stars", "perf", "traffic"} /\ conf.out_file => network = 0
  /\ phase \in {"finish", "ended"} /\ conf.out_file => network = nodes
  /\ phase = "ended" => nodes = NetworkSize

Inv == TypeInv /\ LogInv /\ LimitsInv /\ NetworkInv

-----------------------------------------------------------------------------
(* Each part of the invariant, action by action.                           *)

\* A process that is gone leaves nothing in memory.
LEMMA GoneTyped ==
  ASSUME Gone
  PROVE  /\ conf'.max_time = 0 /\ conf'.max_sim_time = 0 /\ conf'.max_mem = 0
         /\ nodes' = 0 /\ nodes' \in 0 .. NetworkSize /\ sim' = NewSim
         /\ sim' \in [numEvents : Nat, time : Nat, real : Nat, memory : Nat, pending : BOOLEAN]
<1>1. conf' = Defaults /\ sim' = NewSim /\ nodes' = 0
  BY DEF Gone
<1>2. NewSim \in [numEvents : Nat, time : Nat, real : Nat, memory : Nat, pending : BOOLEAN]
  BY DEF NewSim
<1>3. NetworkSize \in Nat
  BY RunAssumption DEF RunAssumption
<1>4. Defaults.max_time = 0 /\ Defaults.max_sim_time = 0 /\ Defaults.max_mem = 0
  BY DEF Defaults
<1> QED BY <1>1, <1>2, <1>3, <1>4

\* A line more in the log.
LEMMA LogTyped ==
  ASSUME log \in Seq(Texts), NEW line \in Texts
  PROVE  Append(log, line) \in Seq(Texts) /\ <<line>> \in Seq(Texts)
<1> DEFINE T == Texts
<1> HIDE DEF T
<1>1. ASSUME log \in Seq(T), line \in T PROVE Append(log, line) \in Seq(T) /\ <<line>> \in Seq(T)
  BY <1>1
<1> QED BY <1>1 DEF T

\* The types.
LEMMA TypesHold ==
  ASSUME conf'.max_time \in Int, conf'.max_sim_time \in Int, conf'.max_mem \in Int,
         log' \in Seq(Texts), network' \in Nat \cup {NoFile},
         files' \in [StatisticsFiles -> {"none", "open", "whole"}], nodes' \in 0 .. NetworkSize,
         sim' \in [numEvents : Nat, time : Nat, real : Nat, memory : Nat, pending : BOOLEAN]
  PROVE  TypeInv'
BY DEF TypeInv

LEMMA TypeNext == TypeInv /\ [RunNext]_runVars => TypeInv'
<1> SUFFICES ASSUME TypeInv, [RunNext]_runVars PROVE TypeInv'
  OBVIOUS
<1>1. ASSUME NEW lines \in Configurations, Begin(lines) PROVE TypeInv'
  <2>1. conf'["max_time"] \in Int /\ conf'["max_sim_time"] \in Int /\ conf'["max_mem"] \in Int
    BY <1>1, LimitsTyped DEF Begin, Limits
  <2> QED BY <1>1, <2>1 DEF Begin, TypeInv
<1>2. ASSUME CreateCase PROVE TypeInv'
  BY <1>2 DEF CreateCase, TypeInv
<1>3. ASSUME Skip PROVE TypeInv'
  BY <1>3 DEF Skip, TypeInv
<1>4. ASSUME OpenLog PROVE TypeInv'
  <2>1. log' = <<"Running">> /\ files' = [files EXCEPT !["perf"] = "open"]
        /\ UNCHANGED <<conf, nodes, sim, network>>
    BY <1>4 DEF OpenLog
  <2>2. log' \in Seq(Texts)
    BY <2>1, LogTyped DEF TypeInv, Texts
  <2>3. files' \in [StatisticsFiles -> {"none", "open", "whole"}]
    <3>1. files \in [StatisticsFiles -> {"none", "open", "whole"}]
      BY DEF TypeInv
    <3> QED BY <2>1, <3>1
  <2>4. /\ conf'.max_time \in Int /\ conf'.max_sim_time \in Int /\ conf'.max_mem \in Int
        /\ network' \in Nat \cup {NoFile} /\ nodes' \in 0 .. NetworkSize
        /\ sim' \in [numEvents : Nat, time : Nat, real : Nat, memory : Nat, pending : BOOLEAN]
    BY <2>1 DEF TypeInv
  <2> QED BY <2>2, <2>3, <2>4, TypesHold
<1>5. ASSUME SetupConfiguration PROVE TypeInv'
  <2>1. CASE conf.in_file /\ network = NoFile
    <3>1. Gone /\ UNCHANGED <<log, files, network>>
      BY <1>5, <2>1 DEF SetupConfiguration
    <3>2. /\ conf'.max_time = 0 /\ conf'.max_sim_time = 0 /\ conf'.max_mem = 0
          /\ nodes' \in 0 .. NetworkSize
          /\ sim' \in [numEvents : Nat, time : Nat, real : Nat, memory : Nat, pending : BOOLEAN]
      BY <3>1, GoneTyped
    <3>3. /\ log' \in Seq(Texts) /\ network' \in Nat \cup {NoFile}
          /\ files' \in [StatisticsFiles -> {"none", "open", "whole"}]
      BY <3>1 DEF TypeInv
    <3> QED BY <3>2, <3>3, TypesHold
  <2>2. CASE ~ (conf.in_file /\ network = NoFile)
    <3>1. /\ UNCHANGED <<conf, nodes, sim, log, files>>
          /\ network' = IF conf.out_file THEN 0 ELSE network
      BY <1>5, <2>2 DEF SetupConfiguration
    <3>2. network' \in Nat \cup {NoFile}
      BY <3>1 DEF TypeInv
    <3> QED BY <3>1, <3>2 DEF TypeInv
  <2> QED BY <2>1, <2>2
<1>6. ASSUME OpenStatsFiles PROVE TypeInv'
  BY <1>6 DEF OpenStatsFiles, TypeInv
<1>7. ASSUME SetupNode PROVE TypeInv'
  <2>1. CASE Gone
    BY <1>7, <2>1, GoneTyped DEF SetupNode, TypeInv
  <2>2. CASE ~Gone
    <3>1. /\ UNCHANGED <<conf, network, sim, log, files>>
          /\ nodes' = nodes + 1 /\ nodes < NetworkSize
      BY <1>7, <2>2 DEF SetupNode
    <3>2. nodes' \in 0 .. NetworkSize
      BY <3>1, RunAssumption DEF TypeInv, RunAssumption
    <3> QED BY <3>1, <3>2 DEF TypeInv
  <2> QED BY <2>1, <2>2
<1>8. ASSUME PreStart PROVE TypeInv'
  <2>1. sim' \in [numEvents : Nat, time : Nat, real : Nat, memory : Nat, pending : BOOLEAN]
        /\ nodes' \in 0 .. NetworkSize
    BY <1>8, GoneTyped DEF PreStart, TypeInv
  <2>2. conf'.max_time \in Int /\ conf'.max_sim_time \in Int /\ conf'.max_mem \in Int
    BY <1>8, GoneTyped DEF PreStart, TypeInv
  <2>3. /\ log' \in Seq(Texts) /\ network' \in Nat \cup {NoFile}
        /\ files' \in [StatisticsFiles -> {"none", "open", "whole"}]
    BY <1>8 DEF PreStart, TypeInv
  <2> QED BY <2>1, <2>2, <2>3, TypesHold
<1>9. ASSUME StepForward PROVE TypeInv'
  <2>1. PICK t \in 0 .. 2, m \in 0 .. 1, more \in BOOLEAN :
          sim' = [numEvents |-> sim.numEvents + 1, time |-> sim.time + t, real |-> sim.real + 1,
                  memory |-> sim.memory + m, pending |-> more]
    BY <1>9 DEF StepForward
  <2>2. /\ sim.numEvents + 1 \in Nat /\ sim.time + t \in Nat /\ sim.real + 1 \in Nat
        /\ sim.memory + m \in Nat
    BY DEF TypeInv
  <2>3. sim' \in [numEvents : Nat, time : Nat, real : Nat, memory : Nat, pending : BOOLEAN]
    BY <2>1, <2>2
  <2> QED BY <1>9, <2>3 DEF StepForward, TypeInv
<1>10. ASSUME ShowProgress PROVE TypeInv'
  <2>1. log' \in Seq(Texts)
    BY <1>10, LogTyped DEF ShowProgress, TypeInv, Texts
  <2> QED BY <1>10, <2>1 DEF ShowProgress, TypeInv
<1>11. ASSUME EndOfRun PROVE TypeInv'
  <2>1. sim' \in [numEvents : Nat, time : Nat, real : Nat, memory : Nat, pending : BOOLEAN]
        /\ nodes' \in 0 .. NetworkSize
    BY <1>11, RunAssumption DEF EndOfRun, NewSim, RunAssumption
  <2> QED BY <1>11, <2>1 DEF EndOfRun, TypeInv
<1>12. ASSUME SaveTotal("stars", "perf") PROVE TypeInv'
  BY <1>12 DEF SaveTotal, TypeInv
<1>13. ASSUME SaveTotal("perf", "traffic") PROVE TypeInv'
  BY <1>13 DEF SaveTotal, TypeInv
<1>14. ASSUME SaveTotal("traffic", "finish") PROVE TypeInv'
  BY <1>14 DEF SaveTotal, TypeInv
<1>15. ASSUME FinishNode PROVE TypeInv'
  <2>1. /\ UNCHANGED <<conf, sim, log, files>> /\ nodes' = nodes + 1 /\ nodes < NetworkSize
        /\ network' = IF conf.out_file THEN network + 1 ELSE network
    BY <1>15 DEF FinishNode
  <2>2. nodes' \in 0 .. NetworkSize
    BY <2>1, RunAssumption DEF TypeInv, RunAssumption
  <2>3. network' \in Nat \cup {NoFile}
    BY <2>1 DEF TypeInv, NoFile
  <2> QED BY <2>1, <2>2, <2>3 DEF TypeInv
<1>16. ASSUME Ending PROVE TypeInv'
  <2>1. log' \in Seq(Texts)
    BY <1>16, LogTyped DEF Ending, TypeInv, Texts
  <2> QED BY <1>16, <2>1 DEF Ending, TypeInv
<1>17. ASSUME Exit PROVE TypeInv'
  BY <1>17, GoneTyped DEF TypeInv, Exit
<1>18. ASSUME Signal PROVE TypeInv'
  BY <1>18 DEF Signal, TypeInv
<1>19. ASSUME SignalInformation PROVE TypeInv'
  <2>1. log' \in Seq(Texts)
    BY <1>19, LogTyped DEF SignalInformation, ShowInformation, TypeInv, Texts
  <2> QED BY <1>19, <2>1 DEF SignalInformation, TypeInv
<1>20. ASSUME Crash PROVE TypeInv'
  <2>1. network' \in Nat \cup {NoFile}
    <3>1. network \in Nat \cup {NoFile} /\ (network' \in 0 .. network \/ network' = network)
      BY <1>20 DEF Crash, TypeInv
    <3> QED BY <3>1 DEF NoFile
  <2>2. Gone /\ log' = log /\ files' = files
    BY <1>20 DEF Crash
  <2>3. /\ conf'.max_time = 0 /\ conf'.max_sim_time = 0 /\ conf'.max_mem = 0
        /\ nodes' \in 0 .. NetworkSize
        /\ sim' \in [numEvents : Nat, time : Nat, real : Nat, memory : Nat, pending : BOOLEAN]
    BY <2>2, GoneTyped
  <2>4. log' \in Seq(Texts) /\ files' \in [StatisticsFiles -> {"none", "open", "whole"}]
    BY <2>2 DEF TypeInv
  <2> QED BY <2>1, <2>3, <2>4, TypesHold
<1>21. CASE UNCHANGED runVars
  BY <1>21 DEF runVars, TypeInv
<1> QED BY <1>1, <1>2, <1>3, <1>4, <1>5, <1>6, <1>7, <1>8, <1>9, <1>10, <1>11, <1>12, <1>13, <1>14, <1>15, <1>16, <1>17, <1>18, <1>19, <1>20, <1>21 DEF RunNext

\* The log and the statistics.
LEMMA LogNext == TypeInv /\ LogInv /\ [RunNext]_runVars => LogInv'
<1> SUFFICES ASSUME TypeInv, LogInv, [RunNext]_runVars PROVE LogInv'
  OBVIOUS
<1>1. ASSUME NEW lines \in Configurations, Begin(lines) PROVE LogInv'
  BY <1>1 DEF Begin, TypeInv, LogInv, CheckLogFile, Started, StatisticsFiles, Gone, Handled, ShowInformation, Prepared, runVars
<1>2. ASSUME CreateCase PROVE LogInv'
  BY <1>2 DEF CreateCase, TypeInv, LogInv, CheckLogFile, Started, StatisticsFiles, Gone, Handled, ShowInformation, Prepared, runVars
<1>3. ASSUME Skip PROVE LogInv'
  BY <1>3 DEF Skip, TypeInv, LogInv, CheckLogFile, Started, StatisticsFiles, Gone, Handled, ShowInformation, Prepared, runVars
<1>4. ASSUME OpenLog PROVE LogInv'
  BY <1>4 DEF OpenLog, TypeInv, LogInv, CheckLogFile, Started, StatisticsFiles, Gone, Handled, ShowInformation, Prepared, runVars
<1>5. ASSUME SetupConfiguration PROVE LogInv'
  BY <1>5 DEF SetupConfiguration, TypeInv, LogInv, CheckLogFile, Started, StatisticsFiles, Gone, Handled, ShowInformation, Prepared, runVars
<1>6. ASSUME OpenStatsFiles PROVE LogInv'
  BY <1>6 DEF OpenStatsFiles, TypeInv, LogInv, CheckLogFile, Started, StatisticsFiles, Gone, Handled, ShowInformation, Prepared, runVars
<1>7. ASSUME SetupNode PROVE LogInv'
  BY <1>7 DEF SetupNode, TypeInv, LogInv, CheckLogFile, Started, StatisticsFiles, Gone, Handled, ShowInformation, Prepared, runVars
<1>8. ASSUME PreStart PROVE LogInv'
  BY <1>8 DEF PreStart, TypeInv, LogInv, CheckLogFile, Started, StatisticsFiles, Gone, Handled, ShowInformation, Prepared, runVars
<1>9. ASSUME StepForward PROVE LogInv'
  BY <1>9 DEF StepForward, TypeInv, LogInv, CheckLogFile, Started, StatisticsFiles, Gone, Handled, ShowInformation, Prepared, runVars
<1>10. ASSUME ShowProgress PROVE LogInv'
  BY <1>10 DEF ShowProgress, TypeInv, LogInv, CheckLogFile, Started, StatisticsFiles, Gone, Handled, ShowInformation, Prepared, runVars
<1>11. ASSUME EndOfRun PROVE LogInv'
  BY <1>11 DEF EndOfRun, TypeInv, LogInv, CheckLogFile, Started, StatisticsFiles, Gone, Handled, ShowInformation, Prepared, runVars
<1>12. ASSUME SaveTotal("stars", "perf") PROVE LogInv'
  BY <1>12 DEF SaveTotal, TypeInv, LogInv, CheckLogFile, Started, StatisticsFiles, Gone, Handled, ShowInformation, Prepared, runVars
<1>13. ASSUME SaveTotal("perf", "traffic") PROVE LogInv'
  BY <1>13 DEF SaveTotal, TypeInv, LogInv, CheckLogFile, Started, StatisticsFiles, Gone, Handled, ShowInformation, Prepared, runVars
<1>14. ASSUME SaveTotal("traffic", "finish") PROVE LogInv'
  BY <1>14 DEF SaveTotal, TypeInv, LogInv, CheckLogFile, Started, StatisticsFiles, Gone, Handled, ShowInformation, Prepared, runVars
<1>15. ASSUME FinishNode PROVE LogInv'
  BY <1>15 DEF FinishNode, TypeInv, LogInv, CheckLogFile, Started, StatisticsFiles, Gone, Handled, ShowInformation, Prepared, runVars
<1>16. ASSUME Ending PROVE LogInv'
  BY <1>16 DEF Ending, TypeInv, LogInv, CheckLogFile, Started, StatisticsFiles, Gone, Handled, ShowInformation, Prepared, runVars
<1>17. ASSUME Exit PROVE LogInv'
  BY <1>17 DEF Exit, TypeInv, LogInv, CheckLogFile, Started, StatisticsFiles, Gone, Handled, ShowInformation, Prepared, runVars
<1>18. ASSUME Signal PROVE LogInv'
  BY <1>18 DEF Signal, TypeInv, LogInv, CheckLogFile, Started, StatisticsFiles, Gone, Handled, ShowInformation, Prepared, runVars
<1>19. ASSUME SignalInformation PROVE LogInv'
  <2>1. /\ log' = Append(log, "Properties") /\ UNCHANGED <<phase, files>> /\ Handled
        /\ log \in Seq(Texts)
    BY <1>19 DEF SignalInformation, ShowInformation, TypeInv
  <2>2. Len(log') = Len(log) + 1 /\ log'[Len(log')] = "Properties" /\ log' # <<>>
    BY <2>1
  <2>3. phase # "skipped"
    BY <2>1 DEF Handled
  <2> QED BY <2>1, <2>2, <2>3 DEF LogInv, CheckLogFile
<1>20. ASSUME Crash PROVE LogInv'
  <2>1. log' = log /\ files' = files /\ phase' = "down"
    BY <1>20 DEF Crash, Gone
  <2> QED BY <2>1 DEF LogInv, CheckLogFile, Started
<1>21. CASE UNCHANGED runVars
  BY <1>21 DEF runVars, TypeInv, LogInv, CheckLogFile, Started, StatisticsFiles, Gone, Handled, ShowInformation, Prepared, runVars
<1> QED BY <1>1, <1>2, <1>3, <1>4, <1>5, <1>6, <1>7, <1>8, <1>9, <1>10, <1>11, <1>12, <1>13, <1>14, <1>15, <1>16, <1>17, <1>18, <1>19, <1>20, <1>21 DEF RunNext

\* The file of the network.
LEMMA NetworkNext == TypeInv /\ NetworkInv /\ [RunNext]_runVars => NetworkInv'
<1> SUFFICES ASSUME TypeInv, NetworkInv, [RunNext]_runVars PROVE NetworkInv'
  OBVIOUS
<1>1. ASSUME NEW lines \in Configurations, Begin(lines) PROVE NetworkInv'
  BY <1>1 DEF Begin, TypeInv, NetworkInv, Idle, Gone, NewSim, Handled, Prepared
<1>2. ASSUME CreateCase PROVE NetworkInv'
  BY <1>2 DEF CreateCase, TypeInv, NetworkInv, Idle, Gone, NewSim, Handled, Prepared
<1>3. ASSUME Skip PROVE NetworkInv'
  BY <1>3 DEF Skip, TypeInv, NetworkInv, Idle, Gone, NewSim, Handled, Prepared
<1>4. ASSUME OpenLog PROVE NetworkInv'
  BY <1>4 DEF OpenLog, TypeInv, NetworkInv, Idle, Gone, NewSim, Handled, Prepared
<1>5. ASSUME SetupConfiguration PROVE NetworkInv'
  <2>1. CASE conf.in_file /\ network = NoFile
    BY <1>5, <2>1, GoneTyped DEF SetupConfiguration, NetworkInv, Idle, Gone
  <2>2. CASE ~ (conf.in_file /\ network = NoFile)
    <3>1. /\ phase = "configure" /\ phase' = "open" /\ UNCHANGED <<conf, nodes>>
          /\ network' = IF conf.out_file THEN 0 ELSE network
      BY <1>5, <2>2 DEF SetupConfiguration
    <3>2. nodes' = 0
      BY <3>1 DEF NetworkInv, Idle
    <3>3. conf.in_file => network >= 0
      BY <2>2 DEF TypeInv, NoFile
    <3>4. conf'.in_file => nodes' <= network'
      BY <3>1, <3>2, <3>3
    <3> QED BY <3>1, <3>2, <3>4 DEF NetworkInv, Idle
  <2> QED BY <2>1, <2>2
<1>6. ASSUME OpenStatsFiles PROVE NetworkInv'
  BY <1>6 DEF OpenStatsFiles, TypeInv, NetworkInv, Idle, Gone, NewSim, Handled, Prepared
<1>7. ASSUME SetupNode PROVE NetworkInv'
  BY <1>7 DEF SetupNode, TypeInv, NetworkInv, Idle, Gone, NewSim, Handled, Prepared
<1>8. ASSUME PreStart PROVE NetworkInv'
  BY <1>8 DEF PreStart, TypeInv, NetworkInv, Idle, Gone, NewSim, Handled, Prepared
<1>9. ASSUME StepForward PROVE NetworkInv'
  BY <1>9 DEF StepForward, TypeInv, NetworkInv, Idle, Gone, NewSim, Handled, Prepared
<1>10. ASSUME ShowProgress PROVE NetworkInv'
  BY <1>10 DEF ShowProgress, TypeInv, NetworkInv, Idle, Gone, NewSim, Handled, Prepared
<1>11. ASSUME EndOfRun PROVE NetworkInv'
  BY <1>11 DEF EndOfRun, TypeInv, NetworkInv, Idle, Gone, NewSim, Handled, Prepared
<1>12. ASSUME SaveTotal("stars", "perf") PROVE NetworkInv'
  BY <1>12 DEF SaveTotal, TypeInv, NetworkInv, Idle, Gone, NewSim, Handled, Prepared
<1>13. ASSUME SaveTotal("perf", "traffic") PROVE NetworkInv'
  BY <1>13 DEF SaveTotal, TypeInv, NetworkInv, Idle, Gone, NewSim, Handled, Prepared
<1>14. ASSUME SaveTotal("traffic", "finish") PROVE NetworkInv'
  BY <1>14 DEF SaveTotal, TypeInv, NetworkInv, Idle, Gone, NewSim, Handled, Prepared
<1>15. ASSUME FinishNode PROVE NetworkInv'
  BY <1>15 DEF FinishNode, TypeInv, NetworkInv, Idle, Gone, NewSim, Handled, Prepared
<1>16. ASSUME Ending PROVE NetworkInv'
  BY <1>16 DEF Ending, TypeInv, NetworkInv, Idle, Gone, NewSim, Handled, Prepared
<1>17. ASSUME Exit PROVE NetworkInv'
  BY <1>17 DEF Exit, TypeInv, NetworkInv, Idle, Gone, NewSim, Handled, Prepared
<1>18. ASSUME Signal PROVE NetworkInv'
  BY <1>18 DEF Signal, TypeInv, NetworkInv, Idle, Gone, NewSim, Handled, Prepared
<1>19. ASSUME SignalInformation PROVE NetworkInv'
  BY <1>19 DEF SignalInformation, TypeInv, NetworkInv, Idle, Gone, NewSim, Handled, Prepared
<1>20. ASSUME Crash PROVE NetworkInv'
  BY <1>20 DEF Crash, TypeInv, NetworkInv, Idle, Gone, NewSim, Handled, Prepared
<1>21. CASE UNCHANGED runVars
  BY <1>21 DEF runVars, TypeInv, NetworkInv, Idle, Gone, NewSim, Handled, Prepared
<1> QED BY <1>1, <1>2, <1>3, <1>4, <1>5, <1>6, <1>7, <1>8, <1>9, <1>10, <1>11, <1>12, <1>13, <1>14, <1>15, <1>16, <1>17, <1>18, <1>19, <1>20, <1>21 DEF RunNext

\* A number has one quotient and one remainder.
LEMMA OneRemainder ==
  ASSUME NEW size \in Nat \ {0}, NEW a \in Int, NEW b \in Int, NEW r \in 0 .. size - 1,
         NEW s \in 0 .. size - 1, size * a + r = size * b + s
  PROVE  a = b /\ r = s
<1>1. ASSUME NEW x \in Int, NEW y \in Int, x < y PROVE size * x + size <= size * y
  <2>1. y - x \in Nat /\ y - x >= 1
    BY <1>1
  <2> DEFINE d == y - x
  <2>2. size * y = size * x + size * d
    BY <2>1
  <2>3. size * d >= size
    BY <2>1
  <2> QED BY <2>2, <2>3
<1> DEFINE p == size * a
           q == size * b
<1>2. p \in Int /\ q \in Int /\ p + r = q + s
  OBVIOUS
<1>3. (a < b => p + size <= q) /\ (b < a => q + size <= p)
  BY <1>1
<1> HIDE DEF p, q
<1>4. ~(a < b) /\ ~(b < a)
  BY <1>2, <1>3
<1>5. a = b
  BY <1>4
<1> QED BY <1>2, <1>5 DEF p, q

\* One event more since the check of the memory.
LEMMA NextSinceCheck ==
  ASSUME NEW n \in Nat, NEW size \in Nat \ {0}
  PROVE  /\ n % size \in 0 .. size - 1
         /\ (n + 1) % size = IF n % size = size - 1 THEN 0 ELSE (n % size) + 1
<1> DEFINE a == n \div size
           r == n % size
           b == (n + 1) \div size
           s == (n + 1) % size
<1>1. /\ a \in Int /\ r \in 0 .. size - 1 /\ n = size * a + r
      /\ b \in Int /\ s \in 0 .. size - 1 /\ n + 1 = size * b + s
  OBVIOUS
<1> HIDE DEF a, b, r, s
<1>2. CASE r = size - 1
  <2>1. n + 1 = size * (a + 1) + 0
    BY <1>1, <1>2
  <2>2. a + 1 \in Int /\ 0 \in 0 .. size - 1 /\ size * (a + 1) + 0 = size * b + s
    BY <1>1, <2>1
  <2>3. s = 0
    BY <1>1, <2>2, OneRemainder
  <2> QED BY <1>1, <1>2, <2>3 DEF r, s
<1>3. CASE r # size - 1
  <2>1. r + 1 \in 0 .. size - 1 /\ size * a + (r + 1) = size * b + s
    BY <1>1, <1>3
  <2>2. s = r + 1
    BY <1>1, <2>1, OneRemainder
  <2> QED BY <1>1, <1>3, <2>2 DEF r, s
<1> QED BY <1>2, <1>3

\* Without properties there are no limits.
LEMMA GoneLimits ==
  ASSUME Gone
  PROVE  LimitsInv'
<1>1. phase' # "run"
  BY DEF Gone
<1> QED BY <1>1, GoneTyped DEF LimitsInv

\* Before the simulation there is nothing to limit.
LEMMA NothingYet ==
  ASSUME sim' = NewSim, conf'.max_time \in Int, conf'.max_sim_time \in Int, conf'.max_mem \in Int,
         phase' # "run"
  PROVE  LimitsInv'
<1>1. sim'.real = 0 /\ sim'.time = 0 /\ sim'.memory = 0 /\ sim'.numEvents = 0
  BY DEF NewSim
<1>2. MemoryEvents \in Nat \ {0}
  BY RunAssumption DEF RunAssumption
<1>3. 0 % MemoryEvents = 0
  BY <1>2
<1>4. SinceCheck' = MemoryEvents
  BY <1>1, <1>3 DEF SinceCheck
<1> QED BY <1>1, <1>2, <1>4 DEF LimitsInv

\* The limits.
LEMMA LimitsNext == TypeInv /\ TypeInv' /\ LimitsInv /\ [RunNext]_runVars => LimitsInv'
<1> SUFFICES ASSUME TypeInv, TypeInv', LimitsInv, [RunNext]_runVars PROVE LimitsInv'
  OBVIOUS
<1>1. ASSUME NEW lines \in Configurations, Begin(lines) PROVE LimitsInv'
  BY <1>1, NothingYet DEF Begin, TypeInv, LimitsInv
<1>2. ASSUME CreateCase PROVE LimitsInv'
  BY <1>2 DEF CreateCase, LimitsInv, SinceCheck, Prepared
<1>3. ASSUME Skip PROVE LimitsInv'
  BY <1>3 DEF Skip, LimitsInv, SinceCheck, Prepared
<1>4. ASSUME OpenLog PROVE LimitsInv'
  BY <1>4 DEF OpenLog, LimitsInv, SinceCheck, Prepared
<1>5. ASSUME SetupConfiguration PROVE LimitsInv'
  BY <1>5, GoneLimits, NothingYet DEF SetupConfiguration, TypeInv, LimitsInv
<1>6. ASSUME OpenStatsFiles PROVE LimitsInv'
  BY <1>6 DEF OpenStatsFiles, LimitsInv, SinceCheck, Prepared
<1>7. ASSUME SetupNode PROVE LimitsInv'
  <2>1. CASE Gone
    BY <2>1, GoneLimits
  <2>2. CASE ~Gone
    BY <1>7, <2>2, NothingYet DEF SetupNode, TypeInv, LimitsInv
  <2> QED BY <2>1, <2>2
<1>8. ASSUME PreStart PROVE LimitsInv'
  <2>1. CASE Gone
    BY <2>1, GoneLimits
  <2>2. CASE ~Gone
    <3>1. /\ UNCHANGED conf
          /\ sim' = [sim EXCEPT !.pending = conf.case_name = "work"] /\ phase' = "run"
      BY <1>8, <2>2 DEF PreStart
    <3>2. /\ sim'.real = sim.real /\ sim'.time = sim.time /\ sim'.memory = sim.memory
          /\ sim'.numEvents = sim.numEvents
      BY <3>1 DEF TypeInv
    <3> QED BY <3>1, <3>2 DEF LimitsInv, SinceCheck
  <2> QED BY <2>1, <2>2
<1>9. ASSUME StepForward PROVE LimitsInv'
  <2>1. PICK t \in 0 .. 2, m \in 0 .. 1, more \in BOOLEAN :
          sim' = [numEvents |-> sim.numEvents + 1, time |-> sim.time + t, real |-> sim.real + 1,
                  memory |-> sim.memory + m, pending |-> more]
    BY <1>9 DEF StepForward
  <2>2. /\ sim'.numEvents = sim.numEvents + 1 /\ sim'.time = sim.time + t
        /\ sim'.real = sim.real + 1 /\ sim'.memory = sim.memory + m
    BY <2>1
  <2>3. /\ sim.numEvents \in Nat /\ sim.time \in Nat /\ sim.real \in Nat /\ sim.memory \in Nat
        /\ conf.max_time \in Int /\ conf.max_sim_time \in Int /\ conf.max_mem \in Int
        /\ phase = "run" /\ phase' = "run" /\ UNCHANGED conf /\ ~LimitReached
    BY <1>9 DEF StepForward, TypeInv
  <2>4. conf.max_time > 0 => sim'.real <= conf.max_time
    BY <2>2, <2>3 DEF LimitReached
  <2>5. conf.max_sim_time > 0 => sim'.time <= conf.max_sim_time + 1
    BY <2>2, <2>3 DEF LimitReached
  <2>6. ASSUME conf.max_mem > 0 PROVE sim'.memory <= conf.max_mem + SinceCheck'
    <3> DEFINE k == sim.numEvents % MemoryEvents
    <3>1. MemoryEvents \in Nat \ {0}
      BY RunAssumption DEF RunAssumption
    <3>2. k \in 0 .. MemoryEvents - 1
          /\ sim'.numEvents % MemoryEvents = IF k = MemoryEvents - 1 THEN 0 ELSE k + 1
      BY <2>2, <2>3, <3>1, NextSinceCheck
    <3>3. sim.memory <= conf.max_mem + (IF k = 0 THEN MemoryEvents ELSE k)
      BY <2>6 DEF LimitsInv, SinceCheck
    <3>4. k = 0 => sim.memory <= conf.max_mem
      BY <2>3, <2>6 DEF LimitReached
    <3> HIDE DEF k
    <3>5. SinceCheck' = k + 1
      <4>1. SinceCheck' = IF sim'.numEvents % MemoryEvents = 0 THEN MemoryEvents
                          ELSE sim'.numEvents % MemoryEvents
        BY DEF SinceCheck
      <4> QED BY <3>1, <3>2, <4>1
    <3>6. sim.memory <= conf.max_mem + k
      BY <2>3, <3>1, <3>2, <3>3, <3>4
    <3> QED BY <2>2, <2>3, <3>2, <3>5, <3>6
  <2> QED BY <2>3, <2>4, <2>5, <2>6 DEF LimitsInv
<1>10. ASSUME ShowProgress PROVE LimitsInv'
  BY <1>10 DEF ShowProgress, LimitsInv, SinceCheck, Prepared
<1>11. ASSUME EndOfRun PROVE LimitsInv'
  BY <1>11, NothingYet DEF EndOfRun, TypeInv
<1>12. ASSUME SaveTotal("stars", "perf") PROVE LimitsInv'
  BY <1>12 DEF SaveTotal, LimitsInv, SinceCheck, Prepared
<1>13. ASSUME SaveTotal("perf", "traffic") PROVE LimitsInv'
  BY <1>13 DEF SaveTotal, LimitsInv, SinceCheck, Prepared
<1>14. ASSUME SaveTotal("traffic", "finish") PROVE LimitsInv'
  BY <1>14 DEF SaveTotal, LimitsInv, SinceCheck, Prepared
<1>15. ASSUME FinishNode PROVE LimitsInv'
  BY <1>15 DEF FinishNode, LimitsInv, SinceCheck, Prepared
<1>16. ASSUME Ending PROVE LimitsInv'
  BY <1>16 DEF Ending, LimitsInv, SinceCheck, Prepared
<1>17. ASSUME Exit PROVE LimitsInv'
  BY <1>17, GoneLimits DEF Exit
<1>18. ASSUME Signal PROVE LimitsInv'
  BY <1>18 DEF Signal, LimitsInv, SinceCheck, Prepared
<1>19. ASSUME SignalInformation PROVE LimitsInv'
  BY <1>19 DEF SignalInformation, LimitsInv, SinceCheck, Prepared
<1>20. ASSUME Crash PROVE LimitsInv'
  BY <1>20, GoneLimits DEF Crash
<1>21. CASE UNCHANGED runVars
  BY <1>21 DEF runVars, LimitsInv, SinceCheck, Prepared
<1> QED BY <1>1, <1>2, <1>3, <1>4, <1>5, <1>6, <1>7, <1>8, <1>9, <1>10, <1>11, <1>12, <1>13, <1>14, <1>15, <1>16, <1>17, <1>18, <1>19, <1>20, <1>21 DEF RunNext

-----------------------------------------------------------------------------
(* The theorems.                                                           *)

\* The first run starts with nothing.
LEMMA InvInit == RunInit => Inv
<1> SUFFICES ASSUME RunInit PROVE Inv
  OBVIOUS
<1>1. /\ conf.max_time = 0 /\ conf.max_sim_time = 0 /\ conf.max_mem = 0
      /\ sim \in [numEvents : Nat, time : Nat, real : Nat, memory : Nat, pending : BOOLEAN]
  BY DEF RunInit, Defaults, NewSim
<1>2. phase = "down" /\ sim = NewSim /\ nodes = 0 /\ log = <<>> /\ network = NoFile
      /\ files = [f \in StatisticsFiles |-> "none"]
  BY DEF RunInit
<1>3. NetworkSize \in Nat
  BY RunAssumption DEF RunAssumption
<1>4. TypeInv
  BY <1>1, <1>2, <1>3 DEF TypeInv, NoFile
<1>5. LogInv
  BY <1>2 DEF LogInv, CheckLogFile, Started
<1>6. LimitsInv
  BY <1>1, <1>2 DEF LimitsInv
<1>7. NetworkInv
  BY <1>2 DEF NetworkInv
<1> QED BY <1>4, <1>5, <1>6, <1>7 DEF Inv

\* The invariant holds in every state of every run.
THEOREM InvAlways == RunSpec => []Inv
<1>1. Inv /\ [RunNext]_runVars => Inv'
  BY TypeNext, LogNext, NetworkNext, LimitsNext DEF Inv
<1> QED BY InvInit, <1>1, PTL DEF RunSpec

\* What runs keep is right whenever they are looked at.
LEMMA KeptIsRight == Inv => SkipsAreRight /\ LimitsAreRespected /\ NetworkIsWhole
<1> SUFFICES ASSUME Inv PROVE SkipsAreRight /\ LimitsAreRespected /\ NetworkIsWhole
  OBVIOUS
<1>1. SkipsAreRight
  BY DEF Inv, LogInv, SkipsAreRight
<1>2. LimitsAreRespected
  <2>1. MemoryEvents \in Nat \ {0} /\ sim.numEvents \in Nat /\ sim.memory \in Nat /\ conf.max_mem \in Int
    BY RunAssumption DEF RunAssumption, Inv, TypeInv
  <2>2. SinceCheck \in Nat /\ SinceCheck <= MemoryEvents
    BY <2>1, NextSinceCheck DEF SinceCheck
  <2> QED BY <2>1, <2>2 DEF Inv, LimitsInv, LimitsAreRespected
<1>3. NetworkIsWhole
  BY RunAssumption DEF Inv, NetworkInv, TypeInv, NetworkIsWhole, RunAssumption
<1> QED BY <1>1, <1>2, <1>3

\* Only a run that ends, or has to overwrite, touches complete results.
LEMMA CompleteIsKept ==
  ASSUME Inv, [RunNext]_runVars, CheckLogFile, ~conf.overwrite, phase # "ended"
  PROVE  UNCHANGED <<log, files, network>>
<1>1. phase \notin Started
  BY DEF Inv, LogInv, CheckLogFile
<1> QED BY <1>1 DEF Started, RunNext, runVars, Handled, Prepared, Begin, CreateCase, Skip, OpenLog,
             SetupConfiguration, OpenStatsFiles, SetupNode, PreStart, StepForward, ShowProgress,
             EndOfRun, SaveTotal, FinishNode, Ending, Exit, Signal, SignalInformation, Crash

\* For every set of files of properties and every size of the network: a run is
\* only skipped when all the statistics are there, the limits are respected, the
\* network is whole, and complete results are only replaced by a run that has to
\* (main and checkLogFile, oldsim/Simulator.cpp).
THEOREM RunsAlwaysKeepResults == RunSpec => RunsKeepResults
<1>1. Inv /\ [RunNext]_runVars =>
        [CheckLogFile /\ ~conf.overwrite /\ phase # "ended" => UNCHANGED <<log, files, network>>]_runVars
  BY CompleteIsKept
<1> QED BY <1>1, InvAlways, KeptIsRight, PTL DEF RunSpec, RunsKeepResults

-----------------------------------------------------------------------------
(* The sweeper: lists of cases.                                            *)

Lists == UNION {{GetPropertiesList(s.files[i]) : i \in DOMAIN s.files} : s \in Scripts}
SweptCases == [id : Nat, props : UNION {{l[i] : i \in 1 .. Len(l)} : l \in Lists}]
Ids(S) == {c.id : c \in S}

LEMMA ListsAreLists ==
  ASSUME NEW l \in Lists, NEW n \in Nat
  PROVE  /\ Len(l) \in Nat /\ Numbered(l, n) \in Seq(SweptCases)
         /\ Len(Numbered(l, n)) = Len(l)
         /\ Ids(ToSet(Numbered(l, n))) = n + 1 .. n + Len(l)
<1>1. PICK s \in Scripts : \E i \in DOMAIN s.files : l = GetPropertiesList(s.files[i])
  BY DEF Lists
<1>2. Len(l) \in Nat
  BY <1>1, SweeperAssumption
<1> DEFINE q == Numbered(l, n)
<1>3. \A i \in 1 .. Len(l) : [id |-> n + i, props |-> l[i]] \in SweptCases
  BY <1>2 DEF SweptCases
<1>4. q \in Seq(SweptCases) /\ Len(q) = Len(l) /\ DOMAIN q = 1 .. Len(l)
  BY <1>2, <1>3 DEF Numbered
<1>5. \A i \in 1 .. Len(l) : q[i].id = n + i
  BY DEF Numbered
<1> HIDE DEF q
<1>6. Ids(ToSet(q)) = {n + i : i \in 1 .. Len(l)}
  BY <1>4, <1>5 DEF Ids, ToSet
<1>7. {n + i : i \in 1 .. Len(l)} = n + 1 .. n + Len(l)
  <2>1. \A k \in n + 1 .. n + Len(l) : k - n \in 1 .. Len(l) /\ k = n + (k - n)
    BY <1>2
  <2>2. \A i \in 1 .. Len(l) : n + i \in n + 1 .. n + Len(l)
    BY <1>2
  <2> QED BY <2>1, <2>2
<1> QED BY <1>2, <1>4, <1>6, <1>7 DEF q

\* The elements of sequences that are joined, grow, or lose one.
LEMMA JoinedElements ==
  ASSUME NEW T, NEW s \in Seq(T), NEW u \in Seq(T)
  PROVE  /\ s \o u \in Seq(T) /\ Len(s \o u) = Len(s) + Len(u)
         /\ ToSet(s \o u) = ToSet(s) \cup ToSet(u)
         /\ \A i \in 1 .. Len(s) : (s \o u)[i] = s[i]
         /\ \A i \in 1 .. Len(u) : (s \o u)[Len(s) + i] = u[i]
<1>1. /\ s \o u \in Seq(T) /\ Len(s \o u) = Len(s) + Len(u) /\ Len(s) \in Nat /\ Len(u) \in Nat
      /\ DOMAIN s = 1 .. Len(s) /\ DOMAIN u = 1 .. Len(u)
      /\ DOMAIN (s \o u) = 1 .. Len(s) + Len(u)
      /\ \A i \in 1 .. Len(s) : (s \o u)[i] = s[i]
      /\ \A i \in 1 .. Len(u) : (s \o u)[Len(s) + i] = u[i]
  OBVIOUS
<1> DEFINE c == s \o u
<1> HIDE DEF c
<1>2. \A i \in DOMAIN c : \/ i \in DOMAIN s /\ c[i] = s[i]
                          \/ i - Len(s) \in DOMAIN u /\ c[i] = u[i - Len(s)]
  <2> SUFFICES ASSUME NEW i \in DOMAIN c
               PROVE \/ i \in DOMAIN s /\ c[i] = s[i]
                     \/ i - Len(s) \in DOMAIN u /\ c[i] = u[i - Len(s)]
    OBVIOUS
  <2>1. i \in 1 .. Len(s) + Len(u)
    BY <1>1 DEF c
  <2>2. CASE i <= Len(s)
    BY <1>1, <2>1, <2>2 DEF c
  <2>3. CASE ~(i <= Len(s))
    <3>1. i - Len(s) \in 1 .. Len(u) /\ i = Len(s) + (i - Len(s))
      BY <1>1, <2>1, <2>3
    <3> QED BY <1>1, <3>1 DEF c
  <2> QED BY <2>2, <2>3
<1>3. \A i \in DOMAIN s : i \in DOMAIN c /\ c[i] = s[i]
  BY <1>1 DEF c
<1>4. \A i \in DOMAIN u : Len(s) + i \in DOMAIN c /\ c[Len(s) + i] = u[i]
  BY <1>1 DEF c
<1>5. ToSet(c) = ToSet(s) \cup ToSet(u)
  BY <1>2, <1>3, <1>4 DEF ToSet
<1> QED BY <1>1, <1>5 DEF c

LEMMA RemovedElement ==
  ASSUME NEW T, NEW s \in Seq(T), NEW i \in 1 .. Len(s)
  PROVE  /\ RemoveAt(s, i) \in Seq(T) /\ Len(RemoveAt(s, i)) = Len(s) - 1
         /\ ToSet(RemoveAt(s, i)) \cup {s[i]} = ToSet(s)
<1> DEFINE r == RemoveAt(s, i)
<1>1. /\ r \in Seq(T) /\ DOMAIN r = 1 .. Len(s) - 1
      /\ \A j \in DOMAIN r : r[j] = IF j < i THEN s[j] ELSE s[j + 1]
  BY RemoveAtProperties
<1> HIDE DEF r
<1>2. Len(s) \in Nat /\ DOMAIN s = 1 .. Len(s) /\ Len(s) - 1 \in Nat
  OBVIOUS
<1>3. Len(r) = Len(s) - 1
  <2> DEFINE A == SubSeq(s, 1, i - 1)
             B == SubSeq(s, i + 1, Len(s))
  <2>1. A \in Seq(T) /\ B \in Seq(T) /\ Len(A) = i - 1 /\ Len(B) = Len(s) - i
    <3>1. A \in Seq(T) /\ Len(A) = i - 1
      BY <1>2
    <3>2. B = [j \in 1 .. (1 + Len(s) - (i + 1)) |-> s[j + (i + 1) - 1]]
      BY <1>2
    <3>3. 1 + Len(s) - (i + 1) = Len(s) - i /\ Len(s) - i \in Nat
      BY <1>2
    <3>4. \A j \in 1 .. Len(s) - i : j + (i + 1) - 1 \in 1 .. Len(s)
      BY <1>2
    <3> HIDE DEF B
    <3> QED BY <3>1, <3>2, <3>3, <3>4, <1>2
  <2>2. r = A \o B
    BY DEF r, RemoveAt
  <2> HIDE DEF A, B
  <2>3. Len(A \o B) = Len(A) + Len(B)
    BY <2>1
  <2> QED BY <2>1, <2>2, <2>3, <1>2
<1>4. \A j \in DOMAIN r : IF j < i THEN j \in DOMAIN s ELSE j + 1 \in DOMAIN s
  BY <1>1, <1>2
<1>5. \A j \in DOMAIN s : \/ j = i
                          \/ j < i /\ j \in DOMAIN r
                          \/ ~(j - 1 < i) /\ j - 1 \in DOMAIN r /\ (j - 1) + 1 = j
  BY <1>1, <1>2
<1>6. \A j \in DOMAIN s : j = i \/ \E k \in DOMAIN r : r[k] = s[j]
  BY <1>1, <1>5
<1>7. \A j \in DOMAIN r : \E k \in DOMAIN s : r[j] = s[k]
  BY <1>1, <1>4
<1>8. ToSet(r) \cup {s[i]} = ToSet(s)
  BY <1>2, <1>6, <1>7 DEF ToSet
<1> QED BY <1>1, <1>3, <1>8 DEF r

LEMMA AppendedElement ==
  ASSUME NEW T, NEW s \in Seq(T), NEW x \in T
  PROVE  /\ Append(s, x) \in Seq(T) /\ Len(Append(s, x)) = Len(s) + 1
         /\ ToSet(Append(s, x)) = ToSet(s) \cup {x}
<1> DEFINE a == Append(s, x)
<1>1. /\ a \in Seq(T) /\ Len(a) = Len(s) + 1 /\ DOMAIN a = 1 .. Len(s) + 1 /\ Len(s) \in Nat
      /\ DOMAIN s = 1 .. Len(s) /\ a[Len(s) + 1] = x /\ \A i \in 1 .. Len(s) : a[i] = s[i]
  OBVIOUS
<1> HIDE DEF a
<1>2. /\ \A i \in DOMAIN a : i \in DOMAIN s \/ i = Len(s) + 1
      /\ \A i \in DOMAIN s : i \in DOMAIN a /\ Len(s) + 1 \in DOMAIN a
      /\ Len(s) + 1 \in DOMAIN a
  BY <1>1
<1>3. ToSet(a) = ToSet(s) \cup {x}
  BY <1>1, <1>2 DEF ToSet
<1> QED BY <1>1, <1>3 DEF a

-----------------------------------------------------------------------------
(* The sweeper: cases and memory.                                          *)

CasesTyped ==
  /\ script = [pipe |-> script.pipe, files |-> script.files] /\ script.files \in Seq(Lists)
  /\ caseInstances \in Seq(SweptCases) /\ newInstances \in Seq(SweptCases)
  /\ started \in Seq(SweptCases) /\ dropped \in SUBSET SweptCases /\ IsFiniteSet(dropped)
  /\ given \in Nat
  /\ reader \in {"open", "tell", "none"} => newInstances = <<>>

\* While the main thread is in reschedule it holds the mutex, and a process
\* that it starts fits.
MainOK ==
  /\ main \in {"reschedule", "spawned", "falls asleep"} => mutex = "main"
  /\ waiter = "falls asleep" => mutex = "waiter"
  /\ instance \in Nat \ {0} /\ availableMemory \in Int
  /\ main = "spawned" =>
       /\ instance <= Len(caseInstances) /\ Cardinality(processes) < NumProcesses
       /\ GetMemoryLimit(Candidate) <= availableMemory

\* Each process that exists has a case of its own, that has been started or is
\* the one that is being started.
ProcessesOK ==
  /\ IsFiniteSet(processes) /\ \A p \in processes : p.mem \in Nat
  /\ \A p \in processes : p.id \in Ids(ToSet(started))
  /\ \A c, d \in children : c.id = d.id => c = d
  /\ waiter = "collect" =>
       /\ Known(pid) \/ (main = "spawned" /\ pid = Candidate.id)
       /\ \A c \in children : c.id # pid

SweeperInv == CasesTyped /\ MainOK /\ ProcessesOK /\ CasesAreRight

LEMMA MemoryLimitTyped ==
  ASSUME NEW c
  PROVE  GetMemoryLimit(c) \in Nat
BY NumbersAssumption DEF GetMemoryLimit, IsNumber

LEMMA NumbersUpTo ==
  ASSUME NEW n \in Nat
  PROVE  IsFiniteSet(1 .. n) /\ Cardinality(1 .. n) = n
BY FS_Interval

LEMMA ThreeLists ==
  ASSUME NEW T, NEW n \in Seq(T), NEW c \in Seq(T), NEW s \in Seq(T)
  PROVE  /\ n \o c \o s \in Seq(T) /\ Len(n \o c \o s) = Len(n) + Len(c) + Len(s)
         /\ ToSet(n \o c \o s) = ToSet(n) \cup ToSet(c) \cup ToSet(s)
         /\ \A i \in 1 .. Len(c) : (n \o c \o s)[Len(n) + i] = c[i]
         /\ \A i \in 1 .. Len(s) : (n \o c \o s)[Len(n) + Len(c) + i] = s[i]
<1>1. n \in Seq(T) /\ c \in Seq(T) /\ s \in Seq(T) /\ Len(n) \in Nat /\ Len(c) \in Nat
  OBVIOUS
<1> DEFINE m == n \o c
<1>2. /\ m \in Seq(T) /\ Len(m) = Len(n) + Len(c) /\ ToSet(m) = ToSet(n) \cup ToSet(c)
      /\ \A i \in 1 .. Len(c) : m[Len(n) + i] = c[i]
  BY <1>1, JoinedElements
<1>3. \A i \in 1 .. Len(c) : Len(n) + i \in 1 .. Len(m)
  BY <1>1, <1>2
<1> HIDE DEF m
<1>4. /\ m \o s \in Seq(T) /\ Len(m \o s) = Len(m) + Len(s)
      /\ ToSet(m \o s) = ToSet(m) \cup ToSet(s)
      /\ \A i \in 1 .. Len(m) : (m \o s)[i] = m[i]
      /\ \A i \in 1 .. Len(s) : (m \o s)[Len(m) + i] = s[i]
  <2>1. m \in Seq(T) /\ s \in Seq(T)
    BY <1>1, <1>2
  <2> QED BY ONLY <2>1, JoinedElements
<1>6. \A i \in 1 .. Len(c) : (m \o s)[Len(n) + i] = c[i]
  BY <1>2, <1>3, <1>4
<1>8. \A i \in 1 .. Len(s) : (m \o s)[Len(n) + Len(c) + i] = s[i]
  BY <1>2, <1>4
<1>9. Len(m \o s) = Len(n) + Len(c) + Len(s) /\ ToSet(m \o s) = ToSet(n) \cup ToSet(c) \cup ToSet(s)
  BY <1>2, <1>4
<1> QED BY <1>4, <1>6, <1>8, <1>9 DEF m

\* As there are as many numbers as cases, no two cases have the same.
LEMMA FirstOfLists ==
  ASSUME NEW T, NEW q \in Seq(T), q # <<>>
  PROVE  Head(q) \in T /\ Tail(q) \in Seq(T)
OBVIOUS

LEMMA CasesApart ==
  ASSUME CasesTyped, CasesAreKept, NEW i \in DOMAIN caseInstances
  PROVE  /\ caseInstances[i].id \notin Ids(ToSet(started))
         /\ caseInstances[i] \notin dropped
<1> DEFINE all == newInstances \o caseInstances \o started
           k == Len(newInstances) + i
           rest == DOMAIN all \ {k}
           others == {all[j].id : j \in rest}
<1>1. /\ all \in Seq(SweptCases) /\ Len(all) = Len(newInstances) + Len(caseInstances) + Len(started)
      /\ all[k] = caseInstances[i]
      /\ \A j \in DOMAIN started : all[Len(newInstances) + Len(caseInstances) + j] = started[j]
  BY ThreeLists DEF CasesTyped
<1>2. /\ newInstances \in Seq(SweptCases) /\ caseInstances \in Seq(SweptCases)
      /\ started \in Seq(SweptCases) /\ given \in Nat /\ IsFiniteSet(dropped)
  BY DEF CasesTyped
<1>3. /\ Len(all) + Cardinality(dropped) = given
      /\ Ids(ToSet(all) \cup dropped) = 1 .. given
  BY DEF CasesAreKept, Ids
<1>4. Len(all) \in Nat /\ DOMAIN all = 1 .. Len(all) /\ k \in DOMAIN all
  BY <1>1, <1>2
<1> HIDE DEF all
<1>5. IsFiniteSet(rest) /\ Cardinality(rest) = Len(all) - 1
  <2>1. IsFiniteSet(1 .. Len(all)) /\ Cardinality(1 .. Len(all)) = Len(all)
    BY <1>4, NumbersUpTo
  <2> DEFINE D == 1 .. Len(all)
  <2>2. rest = D \ {k} /\ k \in D
    BY <1>4
  <2> HIDE DEF rest, k, D
  <2>3. IsFiniteSet(D \ {k}) /\ Cardinality(D \ {k}) = Cardinality(D) - 1
    BY <2>1, <2>2, FS_RemoveElement DEF D
  <2> QED BY <2>1, <2>2, <2>3 DEF D
<1>6. IsFiniteSet(others) /\ Cardinality(others) <= Len(all) - 1
  <2> DEFINE f == [j \in rest |-> all[j].id]
  <2>1. f \in Surjection(rest, others)
    BY DEF Surjection
  <2> HIDE DEF f
  <2> QED BY <2>1, <1>5, FS_Surjection
<1>7. IsFiniteSet(Ids(dropped)) /\ Cardinality(Ids(dropped)) <= Cardinality(dropped)
  <2> DEFINE f == [d \in dropped |-> d.id]
  <2>1. f \in Surjection(dropped, Ids(dropped))
    BY DEF Surjection, Ids
  <2> HIDE DEF f
  <2> QED BY <2>1, <1>2, FS_Surjection
<1> HIDE DEF rest, others
<1>8. /\ IsFiniteSet(others \cup Ids(dropped))
      /\ Cardinality(others \cup Ids(dropped)) < given
  <2>1. /\ IsFiniteSet(others \cup Ids(dropped))
        /\ Cardinality(others \cup Ids(dropped))
             = Cardinality(others) + Cardinality(Ids(dropped)) - Cardinality(others \cap Ids(dropped))
    BY <1>6, <1>7, FS_Union
  <2>2. IsFiniteSet(others \cap Ids(dropped))
    BY <1>6, FS_Subset
  <2>3. /\ Cardinality(others \cap Ids(dropped)) \in Nat /\ Cardinality(others) \in Nat
        /\ Cardinality(Ids(dropped)) \in Nat /\ Cardinality(dropped) \in Nat
    BY <2>2, <1>2, <1>6, <1>7, FS_CardinalityType
  <2> QED BY <2>1, <2>3, <1>2, <1>3, <1>4, <1>6, <1>7
<1>9. all[k].id \notin others \cup Ids(dropped)
  <2>1. SUFFICES ASSUME all[k].id \in others \cup Ids(dropped) PROVE FALSE
    OBVIOUS
  <2>2. Ids(ToSet(all) \cup dropped) = others \cup Ids(dropped)
    <3>1. \A j \in DOMAIN all : j = k \/ j \in rest
      BY DEF rest
    <3>2. Ids(ToSet(all) \cup dropped) \subseteq others \cup Ids(dropped)
      BY <2>1, <3>1 DEF Ids, ToSet, others
    <3>3. others \cup Ids(dropped) \subseteq Ids(ToSet(all) \cup dropped)
      BY DEF Ids, ToSet, others, rest
    <3> QED BY <3>2, <3>3
  <2>3. Cardinality(1 .. given) = given
    BY <1>2, NumbersUpTo
  <2>4. 1 .. given = others \cup Ids(dropped)
    BY <1>3, <2>2
  <2>5. given < given
    BY <2>3, <2>4, <1>8
  <2> QED BY <2>5, <1>2
<1>10. \A j \in DOMAIN started : started[j].id \in others
  <2>1. SUFFICES ASSUME NEW j \in DOMAIN started PROVE started[j].id \in others
    OBVIOUS
  <2>2. Len(newInstances) + Len(caseInstances) + j \in rest
    BY <1>1, <1>2, <1>4 DEF rest
  <2> QED BY <2>2, <1>1 DEF others
<1> QED BY <1>1, <1>9, <1>10 DEF Ids, ToSet

\* Memory is counted by its owner.
LEMMA MegabytesFinite ==
  ASSUME NEW S, IsFiniteSet(S), \A p \in S : p.mem \in Nat
  PROVE  IsFiniteSet(Megabytes(S)) /\ MemoryOf(S) \in Nat
<1>1. \A p \in S : IsFiniteSet({p.id} \X (1 .. p.mem))
  <2> SUFFICES ASSUME NEW p \in S PROVE IsFiniteSet({p.id} \X (1 .. p.mem))
    OBVIOUS
  <2>1. IsFiniteSet({p.id}) /\ IsFiniteSet(1 .. p.mem)
    BY FS_Singleton, NumbersUpTo
  <2> QED BY <2>1, FS_Product
<1> DEFINE M == {{p.id} \X (1 .. p.mem) : p \in S}
<1>2. IsFiniteSet(M)
  <2> DEFINE f == [p \in S |-> {p.id} \X (1 .. p.mem)]
  <2>1. f \in Surjection(S, M)
    BY DEF Surjection
  <2> HIDE DEF f, M
  <2> QED BY <2>1, FS_Surjection
<1>3. \A x \in M : IsFiniteSet(x)
  BY <1>1
<1> HIDE DEF M
<1>4. IsFiniteSet(UNION M)
  BY <1>2, <1>3, FS_UNION
<1> QED BY <1>4, FS_CardinalityType DEF M, Megabytes, MemoryOf

LEMMA MemoryAdds ==
  ASSUME NEW S, NEW T, IsFiniteSet(S), IsFiniteSet(T), \A p \in S \cup T : p.mem \in Nat,
         \A p \in S, q \in T : p.id # q.id
  PROVE  MemoryOf(S \cup T) = MemoryOf(S) + MemoryOf(T)
<1>1. IsFiniteSet(Megabytes(S)) /\ IsFiniteSet(Megabytes(T))
  BY MegabytesFinite
<1>2. Megabytes(S \cup T) = Megabytes(S) \cup Megabytes(T)
  BY DEF Megabytes
<1>3. Megabytes(S) \cap Megabytes(T) = {}
  BY DEF Megabytes
<1> DEFINE A == Megabytes(S)
           B == Megabytes(T)
<1>4. IsFiniteSet(A) /\ IsFiniteSet(B) /\ A \cap B = {}
  BY <1>1, <1>3
<1> HIDE DEF A, B
<1>5. Cardinality(A \cup B) = Cardinality(A) + Cardinality(B) - Cardinality(A \cap B)
  BY ONLY <1>4, FS_Union
<1>6. Cardinality(A) \in Nat /\ Cardinality(B) \in Nat /\ Cardinality(A \cap B) = 0
  BY <1>4, FS_CardinalityType, FS_EmptySet
<1>7. Cardinality(A \cup B) = Cardinality(A) + Cardinality(B)
  BY <1>5, <1>6
<1> QED BY <1>2, <1>7 DEF MemoryOf, A, B

LEMMA MemoryOfOne ==
  ASSUME NEW p, p.mem \in Nat
  PROVE  MemoryOf({p}) = p.mem
<1>1. Megabytes({p}) = {p.id} \X (1 .. p.mem)
  BY DEF Megabytes
<1> DEFINE D == 1 .. p.mem
           f == [i \in D |-> <<p.id, i>>]
<1>2. IsFiniteSet(D) /\ Cardinality(D) = p.mem
  BY NumbersUpTo
<1> HIDE DEF D
<1>3. /\ f \in [D -> {p.id} \X D] /\ \A i, j \in D : f[i] = f[j] => i = j
      /\ \A z \in {p.id} \X D : \E i \in D : f[i] = z
  OBVIOUS
<1> HIDE DEF f
<1>4. Cardinality({p.id} \X D) = Cardinality(D)
  <2>1. f \in Bijection(D, {p.id} \X D)
    BY <1>3 DEF Bijection, Injection, Surjection, IsInjective
  <2> QED BY <2>1, <1>2, FS_Bijection DEF ExistsBijection
<1> QED BY <1>1, <1>2, <1>4 DEF MemoryOf, D

-----------------------------------------------------------------------------
(* The sweeper: its steps.                                                 *)

LEMMA SweeperStarts == SweeperInit => SweeperInv
<1> SUFFICES ASSUME SweeperInit PROVE SweeperInv
  OBVIOUS
<1>1. PICK s \in Scripts :
        LET lists == [i \in DOMAIN s.files |-> GetPropertiesList(s.files[i])] IN
        IF s.pipe THEN /\ script = [pipe |-> TRUE, files |-> lists]
                       /\ caseInstances = <<>> /\ reader = "open"
        ELSE /\ script = [pipe |-> FALSE, files |-> <<>>]
             /\ caseInstances = Numbered(lists[1], 0) /\ reader = "none"
  BY DEF SweeperInit
<1>2. /\ given = Len(caseInstances) /\ newInstances = <<>> /\ processes = {} /\ children = {}
      /\ started = <<>> /\ dropped = {} /\ availableMemory = Memory /\ instance = 1
      /\ mutex = "nobody" /\ main = "round" /\ waiter = "look"
  BY DEF SweeperInit
<1> DEFINE lists == [i \in DOMAIN s.files |-> GetPropertiesList(s.files[i])]
<1>3. lists \in Seq(Lists) /\ (~s.pipe => lists[1] \in Lists)
  <2>1. /\ Len(s.files) \in Nat /\ DOMAIN s.files = 1 .. Len(s.files)
        /\ ~s.pipe => Len(s.files) = 1
    BY SweeperAssumption
  <2>2. \A i \in DOMAIN s.files : GetPropertiesList(s.files[i]) \in Lists
    BY DEF Lists
  <2>3. lists \in [1 .. Len(s.files) -> Lists]
    BY <2>1, <2>2
  <2>4. ~s.pipe => 1 \in DOMAIN s.files
    BY <2>1
  <2> QED BY <2>1, <2>2, <2>3, <2>4
<1> HIDE DEF lists
<1>4. script = [pipe |-> script.pipe, files |-> script.files] /\ script.files \in Seq(Lists)
  <2>1. script = [pipe |-> TRUE, files |-> lists] \/ script = [pipe |-> FALSE, files |-> <<>>]
    BY <1>1 DEF lists
  <2>2. <<>> \in Seq(Lists)
    OBVIOUS
  <2>3. lists \in Seq(Lists)
    BY <1>3
  <2>4. CASE script = [pipe |-> TRUE, files |-> lists]
    <3>1. script.pipe = TRUE /\ script.files = lists
      BY <2>4
    <3> QED BY <2>3, <2>4, <3>1
  <2>5. CASE script = [pipe |-> FALSE, files |-> <<>>]
    <3>1. script.pipe = FALSE /\ script.files = <<>>
      BY <2>5
    <3> QED BY <2>2, <2>5, <3>1
  <2> QED BY <2>1, <2>4, <2>5
<1>5. /\ caseInstances \in Seq(SweptCases) /\ given \in Nat
      /\ Ids(ToSet(caseInstances)) = 1 .. given
  <2>1. CASE s.pipe
    <3>1. caseInstances = <<>> /\ given = 0 /\ Ids(ToSet(<<>>)) = {} /\ 1 .. 0 = {}
      BY <1>1, <1>2, <2>1 DEF Ids, ToSet
    <3> QED BY <3>1
  <2>2. CASE ~s.pipe
    <3>1. caseInstances = Numbered(lists[1], 0)
      BY <1>1, <2>2 DEF lists
    <3>2. /\ Len(lists[1]) \in Nat /\ Numbered(lists[1], 0) \in Seq(SweptCases)
          /\ Len(Numbered(lists[1], 0)) = Len(lists[1])
          /\ Ids(ToSet(Numbered(lists[1], 0))) = 0 + 1 .. 0 + Len(lists[1])
      BY <1>3, <2>2, ListsAreLists
    <3> QED BY <1>2, <3>1, <3>2
  <2> QED BY <2>1, <2>2
<1>6. CasesTyped
  BY <1>2, <1>4, <1>5, FS_EmptySet DEF CasesTyped
<1>7. CasesAreKept
  <2>1. /\ Len(newInstances \o caseInstances \o started) = Len(caseInstances)
        /\ ToSet(newInstances \o caseInstances \o started) = ToSet(caseInstances)
    <3>1. Len(<<>>) = 0 /\ ToSet(<<>>) = {} /\ Len(caseInstances) \in Nat
      BY <1>5 DEF ToSet
    <3> QED BY <1>2, <1>6, <3>1, ThreeLists DEF CasesTyped
  <2>2. Cardinality(dropped) = 0 /\ Len(caseInstances) \in Nat
    BY <1>2, <1>5, FS_EmptySet
  <2> QED BY <1>2, <1>5, <2>1, <2>2 DEF CasesAreKept, Ids
<1>8. Memory \in Nat /\ NumProcesses \in Nat \ {0}
  BY SweeperAssumption
<1>9. MainOK
  BY <1>2, <1>8 DEF MainOK
<1>10. ProcessesOK
  BY <1>2, FS_EmptySet DEF ProcessesOK
<1>11. MachineIsRespected
  <2>1. MemoryOf({}) = 0 /\ Cardinality({}) = 0
    <3>1. Megabytes({}) = {}
      BY DEF Megabytes
    <3> QED BY <3>1, FS_EmptySet DEF MemoryOf
  <2> QED BY <1>2, <1>8, <2>1 DEF MachineIsRespected
<1> QED BY <1>6, <1>7, <1>9, <1>10, <1>11 DEF SweeperInv, CasesAreRight

\* The cases as they are, when no list changes.
LEMMA CasesStay ==
  ASSUME CasesTyped, CasesAreKept, script' = script, caseInstances' = caseInstances,
         newInstances' = newInstances, started' = started, dropped' = dropped, given' = given,
         reader' \in {"open", "tell", "none"} => newInstances = <<>>
  PROVE  CasesTyped' /\ CasesAreKept'
<1>1. CasesTyped'
  BY DEF CasesTyped
<1>2. CasesAreKept'
  BY DEF CasesAreKept
<1> QED BY <1>1, <1>2

\* The steps that only change where a thread is, or the mutex.
LEMMA QuietStep ==
  ASSUME SweeperInv,
         \/ Round \/ FallAsleep \/ Rescheduled \/ Test \/ Join \/ Look \/ WaitChildren \/ WakeUp
         \/ Tell \/ InterruptionPoint \/ TellOfCases \/ WriteNothing \/ StopTells
  PROVE  SweeperInv'
<1>1. /\ UNCHANGED <<script, caseInstances, newInstances, processes, availableMemory, children, given,
                     started, dropped>>
      /\ instance' \in {instance, 1}
      /\ main' = "spawned" <=> main = "spawned"
      /\ main = "spawned" => instance' = instance
      /\ waiter' = "collect" => waiter = "collect" /\ pid' = pid
      /\ main' \in {"reschedule", "spawned", "falls asleep"} => mutex' = "main"
      /\ waiter' = "falls asleep" => mutex' = "waiter"
      /\ reader' \in {"open", "tell", "none"} => newInstances = <<>>
  <2> USE DEF SweeperInv, MainOK, CasesTyped
  <2>1. CASE Round
    BY <2>1 DEF Round
  <2>2. CASE FallAsleep
    BY <2>2 DEF FallAsleep
  <2>3. CASE Rescheduled
    BY <2>3 DEF Rescheduled
  <2>4. CASE Test
    BY <2>4 DEF Test
  <2>5. CASE Join
    BY <2>5 DEF Join
  <2>6. CASE Look
    BY <2>6 DEF Look
  <2>7. CASE WaitChildren
    BY <2>7 DEF WaitChildren
  <2>8. CASE WakeUp
    BY <2>8 DEF WakeUp
  <2>9. CASE Tell
    BY <2>9 DEF Tell, Woken
  <2>10. CASE InterruptionPoint
    BY <2>10 DEF InterruptionPoint
  <2>11. CASE TellOfCases
    BY <2>11 DEF TellOfCases, ToldOfCases, Woken
  <2>12. CASE WriteNothing
    BY <2>12 DEF WriteNothing, Woken
  <2>13. CASE StopTells
    BY <2>13 DEF StopTells, Woken
  <2> QED BY <2>1, <2>2, <2>3, <2>4, <2>5, <2>6, <2>7, <2>8, <2>9, <2>10, <2>11, <2>12, <2>13
<1>2. CasesTyped' /\ CasesAreKept'
  BY <1>1, CasesStay DEF SweeperInv, CasesAreRight
<1>3. MainOK'
  <2>1. main = "spawned" => Candidate' = Candidate
    BY <1>1 DEF Candidate
  <2>2. instance' \in Nat \ {0}
    <3>1. instance \in Nat \ {0}
      BY DEF SweeperInv, MainOK
    <3>2. instance' = instance \/ instance' = 1
      BY <1>1
    <3> QED BY <3>1, <3>2
  <2> QED BY <1>1, <2>1, <2>2 DEF SweeperInv, MainOK
<1>4. ProcessesOK'
  BY <1>1 DEF SweeperInv, ProcessesOK, Known, Candidate
<1>5. MachineIsRespected'
  BY <1>1 DEF SweeperInv, CasesAreRight, MachineIsRespected, Known, Candidate
<1> QED BY <1>2, <1>3, <1>4, <1>5 DEF SweeperInv, CasesAreRight

\* What a case needs, and that nothing else has its number.
LEMMA CandidateIs ==
  ASSUME SweeperInv, instance <= Len(caseInstances)
  PROVE  /\ Candidate \in SweptCases /\ instance \in 1 .. Len(caseInstances)
         /\ GetMemoryLimit(Candidate) \in Nat
         /\ Candidate.id \notin Ids(ToSet(started)) /\ Candidate \notin dropped
         /\ ~Known(Candidate.id)
<1>1. caseInstances \in Seq(SweptCases) /\ instance \in Nat \ {0}
  BY DEF SweeperInv, CasesTyped, MainOK
<1>2. instance \in DOMAIN caseInstances /\ instance \in 1 .. Len(caseInstances)
  BY <1>1
<1>3. Candidate \in SweptCases
  BY <1>1, <1>2 DEF Candidate
<1>4. Candidate.id \notin Ids(ToSet(started)) /\ Candidate \notin dropped
  BY <1>2, CasesApart DEF SweeperInv, CasesAreRight, Candidate
<1>5. ~Known(Candidate.id)
  BY <1>4 DEF SweeperInv, ProcessesOK, Known
<1> QED BY <1>2, <1>3, <1>4, <1>5, MemoryLimitTyped

LEMMA SpawnStep ==
  ASSUME SweeperInv, Spawn
  PROVE  SweeperInv'
<1>1. /\ UNCHANGED <<script, caseInstances, newInstances, processes, availableMemory, given, started,
                     dropped, instance, mutex, waiter, reader, pid>>
      /\ main = "reschedule" /\ main' = "spawned" /\ GetMemoryLimit(Candidate) <= availableMemory
      /\ children' = children \cup {[id |-> Candidate.id, runs |-> TRUE]}
      /\ Cardinality(processes) < NumProcesses /\ instance <= Len(caseInstances)
  BY DEF Spawn, Looks
<1>2. CasesTyped' /\ CasesAreKept'
  BY <1>1, CasesStay DEF SweeperInv, CasesAreRight, CasesTyped
<1>3. Candidate' = Candidate /\ ~Known(Candidate.id)
  BY <1>1, CandidateIs DEF Candidate
<1>4. MainOK'
  BY <1>1, <1>3 DEF SweeperInv, MainOK
<1>5. \A c \in children : Known(c.id)
  BY <1>1 DEF SweeperInv, CasesAreRight, MachineIsRespected
<1>6. \A c \in children' : c \in children \/ c = [id |-> Candidate.id, runs |-> TRUE]
  BY <1>1
<1>7. \A c \in children : c.id # Candidate.id
  BY <1>3, <1>5
<1>8. ProcessesOK'
  <2>1. \A c, d \in children' : c.id = d.id => c = d
    <3>1. \A c, d \in children : c.id = d.id => c = d
      BY DEF SweeperInv, ProcessesOK
    <3>2. [id |-> Candidate.id, runs |-> TRUE].id = Candidate.id
      OBVIOUS
    <3> QED BY <1>6, <1>7, <3>1, <3>2
  <2>2. waiter = "collect" => Known(pid) /\ pid # Candidate.id /\ \A c \in children : c.id # pid
    BY <1>1, <1>3 DEF SweeperInv, ProcessesOK
  <2>3. waiter = "collect" => \A c \in children' : c.id # pid
    BY <1>6, <2>2
  <2>4. Known(pid)' <=> Known(pid)
    BY <1>1 DEF Known
  <2> QED BY <1>1, <2>1, <2>2, <2>3, <2>4 DEF SweeperInv, ProcessesOK
<1>9. MachineIsRespected'
  <2>1. \A c \in children' : Known(c.id)' \/ (main' = "spawned" /\ c.id = Candidate'.id)
    BY <1>1, <1>3, <1>5, <1>6 DEF Known
  <2> QED BY <1>1, <2>1 DEF SweeperInv, CasesAreRight, MachineIsRespected
<1> QED BY <1>2, <1>4, <1>8, <1>9 DEF SweeperInv, CasesAreRight

LEMMA NoteProcessStep ==
  ASSUME SweeperInv, NoteProcess
  PROVE  SweeperInv'
<1> DEFINE new == [id |-> Candidate.id, mem |-> GetMemoryLimit(Candidate)]
<1>1. /\ UNCHANGED <<script, newInstances, children, given, dropped, instance, mutex, reader, pid>>
      /\ main = "spawned" /\ main' = "reschedule"
      /\ availableMemory' = availableMemory - GetMemoryLimit(Candidate)
      /\ processes' = processes \cup {new}
      /\ started' = Append(started, Candidate)
      /\ caseInstances' = RemoveAt(caseInstances, instance)
      /\ waiter' \in {waiter, "woken"}
  BY DEF NoteProcess, Woken
<1>2. /\ mutex = "main" /\ instance \in Nat \ {0} /\ availableMemory \in Int
      /\ instance <= Len(caseInstances) /\ Cardinality(processes) < NumProcesses
      /\ GetMemoryLimit(Candidate) <= availableMemory
  BY <1>1 DEF SweeperInv, MainOK
<1>3. /\ Candidate \in SweptCases /\ instance \in 1 .. Len(caseInstances)
      /\ GetMemoryLimit(Candidate) \in Nat /\ ~Known(Candidate.id)
  BY <1>2, CandidateIs
<1>4. caseInstances \in Seq(SweptCases) /\ started \in Seq(SweptCases) /\ newInstances \in Seq(SweptCases)
  BY DEF SweeperInv, CasesTyped
<1>5. /\ caseInstances' \in Seq(SweptCases) /\ Len(caseInstances') = Len(caseInstances) - 1
      /\ ToSet(caseInstances') \cup {Candidate} = ToSet(caseInstances)
  BY <1>1, <1>3, <1>4, RemovedElement DEF Candidate
<1>6. /\ started' \in Seq(SweptCases) /\ Len(started') = Len(started) + 1
      /\ ToSet(started') = ToSet(started) \cup {Candidate}
  BY <1>1, <1>3, <1>4, AppendedElement
<1>7. CasesTyped'
  BY <1>1, <1>5, <1>6 DEF SweeperInv, CasesTyped
<1>8. CasesAreKept'
  <2> DEFINE all == newInstances \o caseInstances \o started
  <2>1. /\ Len(all) = Len(newInstances) + Len(caseInstances) + Len(started)
        /\ ToSet(all) = ToSet(newInstances) \cup ToSet(caseInstances) \cup ToSet(started)
    BY <1>4, ThreeLists
  <2>2. /\ Len(all') = Len(newInstances') + Len(caseInstances') + Len(started')
        /\ ToSet(all') = ToSet(newInstances') \cup ToSet(caseInstances') \cup ToSet(started')
    <3>1. newInstances' \in Seq(SweptCases)
      BY <1>1, <1>4
    <3>2. all' = newInstances' \o caseInstances' \o started'
      OBVIOUS
    <3> HIDE DEF all
    <3> QED BY <3>1, <3>2, <1>5, <1>6, ThreeLists
  <2>3. Len(all') = Len(all) /\ ToSet(all') = ToSet(all)
    <3>1. Len(newInstances) \in Nat /\ Len(caseInstances) \in Nat /\ Len(started) \in Nat
      BY <1>4
    <3>2. newInstances' = newInstances
      BY <1>1
    <3> HIDE DEF all
    <3> QED BY <2>1, <2>2, <1>5, <1>6, <3>1, <3>2
  <2> HIDE DEF all
  <2>4. CasesAreKept <=> /\ Len(all) + Cardinality(dropped) = given
                         /\ {c.id : c \in ToSet(all) \cup dropped} = 1 .. given
                         /\ \A c \in dropped : GetMemoryLimit(c) > Memory
    BY DEF CasesAreKept, all
  <2>5. CasesAreKept' <=> /\ Len(all') + Cardinality(dropped') = given'
                          /\ {c.id : c \in ToSet(all') \cup dropped'} = 1 .. given'
                          /\ \A c \in dropped' : GetMemoryLimit(c) > Memory
    BY DEF CasesAreKept, all
  <2> QED BY <1>1, <2>3, <2>4, <2>5 DEF SweeperInv, CasesAreRight
<1>9. MainOK'
  <2>1. availableMemory' \in Int /\ instance' \in Nat \ {0}
    BY <1>1, <1>2, <1>3
  <2>2. waiter' = "falls asleep" => mutex' = "waiter"
    BY <1>1 DEF SweeperInv, MainOK
  <2> QED BY <1>1, <1>2, <2>1, <2>2 DEF MainOK
<1>10. /\ \A c : Known(c.id) => Known(c.id)'
       /\ \A c : c.id = Candidate.id => Known(c.id)'
       /\ Known(pid) => Known(pid)'
       /\ pid = Candidate.id => Known(pid)'
  <2>1. new \in processes' /\ new.id = Candidate.id /\ processes \subseteq processes'
    BY <1>1
  <2> HIDE DEF new
  <2>2. Known(pid)' <=> \E p \in processes' : p.id = pid
    BY <1>1 DEF Known
  <2> QED BY <2>1, <2>2 DEF Known
<1>11. IsFiniteSet(processes) /\ \A p \in processes : p.mem \in Nat
  BY DEF SweeperInv, ProcessesOK
<1>12. ProcessesOK'
  <2>1. IsFiniteSet(processes') /\ \A p \in processes' : p.mem \in Nat
    <3>1. new.mem \in Nat
      BY <1>3
    <3> HIDE DEF new
    <3> QED BY <1>1, <3>1, <1>11, FS_AddElement
  <2>2. \A p \in processes' : p.id \in Ids(ToSet(started'))
    BY <1>1, <1>6 DEF SweeperInv, ProcessesOK, Ids
  <2>3. waiter' = "collect" => waiter = "collect" /\ pid' = pid
    BY <1>1
  <2>4. waiter = "collect" => (Known(pid) \/ pid = Candidate.id) /\ \A c \in children : c.id # pid
    BY DEF SweeperInv, ProcessesOK
  <2>5. \A c, d \in children' : c.id = d.id => c = d
    BY <1>1 DEF SweeperInv, ProcessesOK
  <2>6. waiter' = "collect" => Known(pid)' /\ \A c \in children' : c.id # pid'
    <3> SUFFICES ASSUME waiter' = "collect" PROVE Known(pid)' /\ \A c \in children' : c.id # pid'
      OBVIOUS
    <3>1. Known(pid)'
      <4>1. CASE Known(pid)
        BY <1>10, <4>1 DEF Known
      <4>2. CASE pid = Candidate.id
        BY <1>10, <4>2 DEF Known
      <4> QED BY <2>3, <2>4, <4>1, <4>2
    <3>2. children' = children
      BY <1>1
    <3> QED BY <2>3, <2>4, <3>1, <3>2
  <2> QED BY <2>1, <2>2, <2>5, <2>6 DEF ProcessesOK
<1>13. MachineIsRespected'
  <2>1. MemoryOf(processes') = MemoryOf(processes) + GetMemoryLimit(Candidate)
    <3>1. \A p \in processes : p.id # new.id
      BY <1>3 DEF Known
    <3>2. IsFiniteSet({new}) /\ new.mem \in Nat /\ new.mem = GetMemoryLimit(Candidate)
      BY <1>3, FS_Singleton
    <3> HIDE DEF new
    <3>3. MemoryOf(processes \cup {new}) = MemoryOf(processes) + MemoryOf({new})
      BY <1>11, <3>1, <3>2, MemoryAdds
    <3>4. MemoryOf({new}) = new.mem
      BY <3>2, MemoryOfOne
    <3> QED BY <1>1, <3>2, <3>3, <3>4
  <2>2. MemoryOf(processes) \in Nat
    BY <1>11, MegabytesFinite
  <2>3. availableMemory + MemoryOf(processes) = Memory
    BY DEF SweeperInv, CasesAreRight, MachineIsRespected
  <2>4. availableMemory' + MemoryOf(processes') = Memory /\ availableMemory' >= 0
    BY <1>1, <1>2, <1>3, <2>1, <2>2, <2>3
  <2>5. Cardinality(processes') <= NumProcesses
    <3>1. Cardinality(processes') <= Cardinality(processes) + 1
      <4> HIDE DEF new
      <4>1. Cardinality(processes \cup {new}) \in {Cardinality(processes), Cardinality(processes) + 1}
        BY <1>11, FS_AddElement
      <4>2. Cardinality(processes) \in Nat
        BY <1>11, FS_CardinalityType
      <4> QED BY <1>1, <4>1, <4>2
    <3>2. NumProcesses \in Nat /\ Cardinality(processes) \in Nat /\ Cardinality(processes') \in Nat
      BY <1>11, <1>12, FS_CardinalityType, SweeperAssumption DEF ProcessesOK
    <3> QED BY <1>2, <3>1, <3>2
  <2>6. \A c \in children' : Known(c.id)'
    BY <1>1, <1>10 DEF SweeperInv, CasesAreRight, MachineIsRespected
  <2> QED BY <2>4, <2>5, <2>6 DEF MachineIsRespected
<1> QED BY <1>7, <1>8, <1>9, <1>12, <1>13 DEF SweeperInv, CasesAreRight

LEMMA SkipCaseStep ==
  ASSUME SweeperInv, SkipCase
  PROVE  SweeperInv'
<1>1. /\ UNCHANGED <<script, newInstances, processes, availableMemory, children, mutex, main, waiter,
                     reader, pid, given, started>>
      /\ main = "reschedule" /\ instance <= Len(caseInstances)
      /\ GetMemoryLimit(Candidate) > availableMemory
      /\ \/ /\ processes = {} /\ dropped' = dropped \cup {Candidate}
            /\ caseInstances' = RemoveAt(caseInstances, instance) /\ instance' = instance
         \/ instance' = instance + 1 /\ dropped' = dropped /\ caseInstances' = caseInstances
  BY DEF SkipCase, Looks, TooLarge
<1>2. MainOK'
  <2>1. instance \in Nat \ {0} /\ (instance' = instance \/ instance' = instance + 1)
    BY <1>1 DEF SweeperInv, MainOK
  <2>2. instance' \in Nat \ {0}
    BY <2>1
  <2> QED BY <1>1, <2>2 DEF SweeperInv, MainOK
<1>3. ProcessesOK'
  BY <1>1 DEF SweeperInv, ProcessesOK, Known
<1>4. MachineIsRespected'
  BY <1>1 DEF SweeperInv, CasesAreRight, MachineIsRespected, Known
<1>5. CASE dropped' = dropped /\ caseInstances' = caseInstances
  BY <1>1, <1>2, <1>3, <1>4, <1>5, CasesStay DEF SweeperInv, CasesAreRight, CasesTyped
<1>6. CASE /\ processes = {} /\ dropped' = dropped \cup {Candidate}
           /\ caseInstances' = RemoveAt(caseInstances, instance)
  <2>1. /\ Candidate \in SweptCases /\ instance \in 1 .. Len(caseInstances)
        /\ Candidate \notin dropped
    BY <1>1, CandidateIs
  <2>2. /\ caseInstances \in Seq(SweptCases) /\ started \in Seq(SweptCases)
        /\ newInstances \in Seq(SweptCases) /\ IsFiniteSet(dropped)
    BY DEF SweeperInv, CasesTyped
  <2>3. /\ caseInstances' \in Seq(SweptCases) /\ Len(caseInstances') = Len(caseInstances) - 1
        /\ ToSet(caseInstances') \cup {Candidate} = ToSet(caseInstances)
    BY <1>6, <2>1, <2>2, RemovedElement DEF Candidate
  <2>4. /\ IsFiniteSet(dropped') /\ Cardinality(dropped') = Cardinality(dropped) + 1
        /\ Cardinality(dropped) \in Nat
    BY <1>6, <2>1, <2>2, FS_AddElement, FS_CardinalityType
  <2>5. CasesTyped'
    BY <1>1, <1>6, <2>1, <2>3, <2>4 DEF SweeperInv, CasesTyped
  <2>6. GetMemoryLimit(Candidate) > Memory
    <3>1. MemoryOf({}) = 0
      <4>1. Megabytes({}) = {}
        BY DEF Megabytes
      <4> QED BY <4>1, FS_EmptySet DEF MemoryOf
    <3>2. availableMemory + MemoryOf(processes) = Memory /\ availableMemory \in Int
      BY DEF SweeperInv, MainOK, CasesAreRight, MachineIsRespected
    <3> QED BY <3>1, <3>2, <1>1, <1>6
  <2> DEFINE all == newInstances \o caseInstances \o started
  <2>7. /\ Len(all) = Len(newInstances) + Len(caseInstances) + Len(started)
        /\ ToSet(all) = ToSet(newInstances) \cup ToSet(caseInstances) \cup ToSet(started)
    BY <2>2, ThreeLists
  <2>8. /\ Len(all') = Len(newInstances) + Len(caseInstances') + Len(started)
        /\ ToSet(all') = ToSet(newInstances) \cup ToSet(caseInstances') \cup ToSet(started)
    <3>1. all' = newInstances \o caseInstances' \o started
      BY <1>1
    <3> QED BY <2>2, <2>3, <3>1, ThreeLists
  <2>9. CasesAreKept <=> /\ Len(all) + Cardinality(dropped) = given
                         /\ {c.id : c \in ToSet(all) \cup dropped} = 1 .. given
                         /\ \A c \in dropped : GetMemoryLimit(c) > Memory
    BY DEF CasesAreKept
  <2>10. CasesAreKept' <=> /\ Len(all') + Cardinality(dropped') = given'
                           /\ {c.id : c \in ToSet(all') \cup dropped'} = 1 .. given'
                           /\ \A c \in dropped' : GetMemoryLimit(c) > Memory
    BY DEF CasesAreKept
  <2> HIDE DEF all
  <2>11. /\ Len(all') + Cardinality(dropped') = Len(all) + Cardinality(dropped)
         /\ ToSet(all') \cup dropped' = ToSet(all) \cup dropped
    <3>1. Len(newInstances) \in Nat /\ Len(caseInstances) \in Nat /\ Len(started) \in Nat
      BY <2>2
    <3> QED BY <1>6, <2>3, <2>4, <2>7, <2>8, <3>1
  <2>12. CasesAreKept'
    BY <1>1, <1>6, <2>6, <2>9, <2>10, <2>11 DEF SweeperInv, CasesAreRight
  <2> QED BY <1>2, <1>3, <1>4, <2>5, <2>12 DEF SweeperInv, CasesAreRight
<1> QED BY <1>1, <1>5, <1>6

LEMMA WaitProcessStep ==
  ASSUME SweeperInv, WaitProcess
  PROVE  SweeperInv'
<1>1. /\ UNCHANGED <<script, caseInstances, newInstances, processes, availableMemory, instance, mutex,
                     main, reader, given, started, dropped>>
      /\ waiter' \in {"look", "collect"} /\ children' \subseteq children
      /\ waiter' = "collect" => \E c \in children : pid' = c.id /\ children' = children \ {c}
  BY DEF WaitProcess, Running
<1>2. CasesTyped' /\ CasesAreKept'
  BY <1>1, CasesStay DEF SweeperInv, CasesAreRight, CasesTyped
<1>3. MainOK'
  BY <1>1 DEF SweeperInv, MainOK, Candidate
<1>4. ProcessesOK'
  <2>1. ASSUME waiter' = "collect"
        PROVE  /\ Known(pid)' \/ (main' = "spawned" /\ pid' = Candidate'.id)
               /\ \A c \in children' : c.id # pid'
    <3>1. PICK c \in children : pid' = c.id /\ children' = children \ {c}
      BY <1>1, <2>1
    <3>2. \A d \in children' : d.id # pid'
      BY <3>1 DEF SweeperInv, ProcessesOK
    <3>3. Known(c.id) \/ (main = "spawned" /\ c.id = Candidate.id)
      BY DEF SweeperInv, CasesAreRight, MachineIsRespected
    <3> QED BY <1>1, <3>1, <3>2, <3>3 DEF Known, Candidate
  <2> QED BY <1>1, <2>1 DEF SweeperInv, ProcessesOK
<1>5. MachineIsRespected'
  BY <1>1 DEF SweeperInv, CasesAreRight, MachineIsRespected, Known, Candidate
<1> QED BY <1>2, <1>3, <1>4, <1>5 DEF SweeperInv, CasesAreRight

LEMMA CollectStep ==
  ASSUME SweeperInv, Collect
  PROVE  SweeperInv'
<1> DEFINE over == {p \in processes : p.id = pid}
           rest == {p \in processes : p.id # pid}
<1>1. /\ UNCHANGED <<script, caseInstances, newInstances, children, instance, mutex, main, reader, pid,
                     given, started, dropped>>
      /\ waiter = "collect" /\ waiter' = "tell" /\ mutex = "nobody"
      /\ availableMemory' = availableMemory + MemoryOf(over) /\ processes' = rest
  BY DEF Collect, Freed
<1>2. CasesTyped' /\ CasesAreKept'
  BY <1>1, CasesStay DEF SweeperInv, CasesAreRight, CasesTyped
<1>3. main # "spawned"
  BY <1>1 DEF SweeperInv, MainOK
<1>4. IsFiniteSet(processes) /\ \A p \in processes : p.mem \in Nat
  BY DEF SweeperInv, ProcessesOK
<1>5. processes = over \cup rest /\ \A p \in over, q \in rest : p.id # q.id
  OBVIOUS
<1>6. IsFiniteSet(over) /\ IsFiniteSet(rest) /\ Cardinality(rest) <= Cardinality(processes)
  BY <1>4, <1>5, FS_Subset
<1>7. \A c : Known(c.id)' <=> Known(c.id) /\ c.id # pid
  BY <1>1 DEF Known
<1>8. \A p \in rest : p \in processes
  OBVIOUS
<1> HIDE DEF over, rest
<1>9. /\ MemoryOf(processes) = MemoryOf(over) + MemoryOf(rest)
      /\ MemoryOf(over) \in Nat /\ MemoryOf(rest) \in Nat
  <2>1. \A p \in over \cup rest : p.mem \in Nat
    BY <1>4, <1>5
  <2> QED BY <1>5, <1>6, <2>1, MemoryAdds, MegabytesFinite
<1>10. MainOK'
  <2>1. availableMemory \in Int
    BY DEF SweeperInv, MainOK
  <2>2. availableMemory' \in Int
    BY <1>1, <1>9, <2>1
  <2> QED BY <1>1, <1>3, <2>2 DEF SweeperInv, MainOK
<1>11. ProcessesOK'
  BY <1>1, <1>4, <1>6, <1>8 DEF SweeperInv, ProcessesOK
<1>12. MachineIsRespected'
  <2>1. /\ availableMemory + MemoryOf(processes) = Memory /\ availableMemory >= 0
        /\ Cardinality(processes) <= NumProcesses /\ availableMemory \in Int
        /\ \A c \in children : Known(c.id)
    BY <1>3 DEF SweeperInv, MainOK, CasesAreRight, MachineIsRespected
  <2>2. availableMemory' + MemoryOf(processes') = Memory /\ availableMemory' >= 0
    BY <1>1, <1>9, <2>1
  <2>3. Cardinality(processes') <= NumProcesses
    <3>1. /\ NumProcesses \in Nat /\ Cardinality(rest) \in Nat /\ Cardinality(processes) \in Nat
      BY <1>4, <1>6, FS_CardinalityType, SweeperAssumption
    <3> QED BY <1>1, <1>6, <2>1, <3>1
  <2>4. \A c \in children' : Known(c.id)'
    BY <1>1, <1>7, <2>1 DEF SweeperInv, ProcessesOK
  <2> QED BY <2>2, <2>3, <2>4 DEF MachineIsRespected
<1> QED BY <1>2, <1>10, <1>11, <1>12 DEF SweeperInv, CasesAreRight

\* A process ends, or is told to.
LEMMA EndedChildren ==
  ASSUME SweeperInv,
         UNCHANGED <<script, caseInstances, newInstances, processes, availableMemory, instance, mutex,
                     main, reader, pid, given, started, dropped>>,
         waiter' \in {waiter, "woken"},
         NEW f \in [children -> children'], \A c \in children : f[c].id = c.id,
         \A d \in children' : \E c \in children : d = f[c]
  PROVE  SweeperInv'
<1>1. CasesTyped' /\ CasesAreKept'
  BY CasesStay DEF SweeperInv, CasesAreRight, CasesTyped
<1>2. MainOK'
  BY DEF SweeperInv, MainOK, Candidate
<1>3. \A d \in children' : \E c \in children : d = f[c] /\ d.id = c.id
  OBVIOUS
<1>4. ProcessesOK'
  <2>1. \A c, d \in children' : c.id = d.id => c = d
    BY <1>3 DEF SweeperInv, ProcessesOK
  <2>2. waiter' = "collect" => waiter = "collect"
    OBVIOUS
  <2>3. waiter' = "collect" => \A c \in children' : c.id # pid'
    BY <1>3, <2>2 DEF SweeperInv, ProcessesOK
  <2> QED BY <2>1, <2>2, <2>3 DEF SweeperInv, ProcessesOK, Known, Candidate
<1>5. MachineIsRespected'
  <2>1. \A c \in children' : Known(c.id)' \/ (main' = "spawned" /\ c.id = Candidate'.id)
    BY <1>3 DEF SweeperInv, CasesAreRight, MachineIsRespected, Known, Candidate
  <2> QED BY <2>1 DEF SweeperInv, CasesAreRight, MachineIsRespected
<1> QED BY <1>1, <1>2, <1>4, <1>5 DEF SweeperInv, CasesAreRight

LEMMA ProcessEndsStep ==
  ASSUME SweeperInv, ProcessEnds
  PROVE  SweeperInv'
<1>1. PICK c \in Running : children' = (children \ {c}) \cup {[c EXCEPT !.runs = FALSE]}
  BY DEF ProcessEnds
<1>2. UNCHANGED <<script, caseInstances, newInstances, processes, availableMemory, instance, mutex,
                  main, waiter, reader, pid, given, started, dropped>>
  BY DEF ProcessEnds
<1> DEFINE e == [c EXCEPT !.runs = FALSE]
           f == [d \in children |-> IF d = c THEN e ELSE d]
<1>3. c \in children /\ e.id = c.id /\ e \in children'
  BY <1>1 DEF Running
<1> HIDE DEF e
<1>4. /\ f \in [children -> children'] /\ \A d \in children : f[d].id = d.id
      /\ \A d \in children' : \E b \in children : d = f[b]
  BY <1>1, <1>3 DEF e
<1> HIDE DEF f
<1> QED BY <1>2, <1>4, EndedChildren

LEMMA StopStep ==
  ASSUME SweeperInv, Stop
  PROVE  SweeperInv'
<1> DEFINE e(c) == IF Known(c.id) THEN [c EXCEPT !.runs = FALSE] ELSE c
           f == [c \in children |-> e(c)]
<1>1. /\ UNCHANGED <<script, caseInstances, newInstances, processes, availableMemory, instance, mutex,
                     main, reader, pid, given, started, dropped>>
      /\ waiter' \in {waiter, "woken"} /\ children' = {e(c) : c \in children}
  BY DEF Stop, Woken
<1>2. ASSUME NEW c \in children
      PROVE  e(c).id = c.id /\ e(c) \in children'
  <2>1. [c EXCEPT !.runs = FALSE].id = c.id
    OBVIOUS
  <2>2. e(c) \in children'
    <3> HIDE DEF e
    <3> QED BY <1>1
  <2> QED BY <2>1, <2>2
<1> HIDE DEF e
<1>3. /\ f \in [children -> children'] /\ \A d \in children : f[d].id = d.id
      /\ \A d \in children' : \E b \in children : d = f[b]
  BY <1>1, <1>2
<1> HIDE DEF f
<1> QED BY <1>1, <1>3, EndedChildren

LEMMA ReadPipeStep ==
  ASSUME SweeperInv, ReadPipe
  PROVE  SweeperInv'
<1> DEFINE l == Head(script.files)
<1>1. /\ UNCHANGED <<caseInstances, processes, availableMemory, children, instance, mutex, main, waiter,
                     pid, started, dropped>>
      /\ reader = "open" /\ script.files # <<>> /\ reader' = "interruption point"
      /\ script' = [script EXCEPT !.files = Tail(@)]
      /\ newInstances' = Numbered(l, given) /\ given' = given + Len(newInstances')
  BY DEF ReadPipe
<1>2. /\ script = [pipe |-> script.pipe, files |-> script.files] /\ script.files \in Seq(Lists)
      /\ caseInstances \in Seq(SweptCases) /\ started \in Seq(SweptCases) /\ newInstances = <<>>
      /\ given \in Nat
  BY <1>1 DEF SweeperInv, CasesTyped
<1>3. l \in Lists /\ Tail(script.files) \in Seq(Lists)
  BY <1>1, <1>2, FirstOfLists
<1>4. /\ newInstances' \in Seq(SweptCases) /\ Len(newInstances') \in Nat
      /\ Ids(ToSet(newInstances')) = given + 1 .. given + Len(newInstances')
  <2> HIDE DEF l
  <2> QED BY <1>1, <1>2, <1>3, ListsAreLists
<1>5. CasesTyped'
  <2>1. script' = [pipe |-> script.pipe, files |-> Tail(script.files)]
    BY <1>1, <1>2
  <2>2. script'.pipe = script.pipe /\ script'.files = Tail(script.files)
    BY <2>1
  <2>3. given' \in Nat
    <3>1. given' = given + Len(newInstances')
      BY <1>1
    <3> QED BY ONLY <3>1, <1>2, <1>4
  <2> QED BY <1>1, <1>3, <1>4, <2>1, <2>2, <2>3 DEF SweeperInv, CasesTyped
<1> DEFINE all == newInstances \o caseInstances \o started
           r == caseInstances \o started
<1>6. /\ Len(all) = Len(caseInstances) + Len(started)
      /\ ToSet(all) = ToSet(caseInstances) \cup ToSet(started)
  <2>1. newInstances \in Seq(SweptCases)
    BY <1>2
  <2>2. caseInstances \in Seq(SweptCases) /\ started \in Seq(SweptCases)
    BY <1>2
  <2>3. /\ Len(all) = Len(newInstances) + Len(caseInstances) + Len(started)
        /\ ToSet(all) = ToSet(newInstances) \cup ToSet(caseInstances) \cup ToSet(started)
    BY <2>1, <2>2, ThreeLists
  <2>4. /\ Len(newInstances) = 0 /\ ToSet(newInstances) = {}
        /\ Len(caseInstances) \in Nat /\ Len(started) \in Nat
    BY <1>2 DEF ToSet
  <2> HIDE DEF all
  <2> QED BY <2>3, <2>4
<1>7. /\ Len(all') = Len(newInstances') + Len(caseInstances) + Len(started)
      /\ ToSet(all') = ToSet(newInstances') \cup ToSet(caseInstances) \cup ToSet(started)
  <2>1. all' = newInstances' \o caseInstances \o started
    BY <1>1
  <2> HIDE DEF all
  <2> QED BY <1>2, <1>4, <2>1, ThreeLists
<1>8. CasesAreKept'
  <2>1. CasesAreKept <=> /\ Len(all) + Cardinality(dropped) = given
                         /\ Ids(ToSet(all) \cup dropped) = 1 .. given
                         /\ \A c \in dropped : GetMemoryLimit(c) > Memory
    BY DEF CasesAreKept, Ids
  <2>2. CasesAreKept' <=> /\ Len(all') + Cardinality(dropped') = given'
                          /\ Ids(ToSet(all') \cup dropped') = 1 .. given'
                          /\ \A c \in dropped' : GetMemoryLimit(c) > Memory
    BY DEF CasesAreKept, Ids
  <2> HIDE DEF all, l
  <2>3. Len(all') + Cardinality(dropped) = given'
    <3>1. Cardinality(dropped) \in Nat /\ Len(caseInstances) \in Nat /\ Len(started) \in Nat
      BY <1>2, FS_CardinalityType DEF SweeperInv, CasesTyped
    <3>2. Len(all) + Cardinality(dropped) = given
      BY <2>1 DEF SweeperInv, CasesAreRight
    <3>3. given' = given + Len(newInstances')
      BY <1>1
    <3> QED BY ONLY <1>2, <1>4, <1>6, <1>7, <3>1, <3>2, <3>3
  <2>4. Ids(ToSet(all') \cup dropped) = 1 .. given'
    <3>1. Ids(ToSet(all') \cup dropped) = Ids(ToSet(newInstances')) \cup Ids(ToSet(all) \cup dropped)
      BY <1>6, <1>7 DEF Ids
    <3>2. Ids(ToSet(all) \cup dropped) = 1 .. given
      BY <2>1 DEF SweeperInv, CasesAreRight
    <3>3. (given + 1 .. given + Len(newInstances')) \cup (1 .. given) = 1 .. given + Len(newInstances')
      BY <1>2, <1>4
    <3> QED BY <1>1, <1>4, <3>1, <3>2, <3>3
  <2> QED BY <1>1, <2>1, <2>2, <2>3, <2>4 DEF SweeperInv, CasesAreRight
<1>9. MainOK'
  BY <1>1 DEF SweeperInv, MainOK, Candidate
<1>10. ProcessesOK'
  BY <1>1 DEF SweeperInv, ProcessesOK, Known, Candidate
<1>11. MachineIsRespected'
  BY <1>1 DEF SweeperInv, CasesAreRight, MachineIsRespected, Known, Candidate
<1> QED BY <1>5, <1>8, <1>9, <1>10, <1>11 DEF SweeperInv, CasesAreRight

LEMMA SpliceStep ==
  ASSUME SweeperInv, Splice
  PROVE  SweeperInv'
<1>1. /\ UNCHANGED <<script, processes, availableMemory, children, instance, mutex, main, waiter, pid,
                     given, started, dropped>>
      /\ mutex = "nobody"
      /\ caseInstances' = caseInstances \o newInstances /\ newInstances' = <<>>
  BY DEF Splice
<1>2. /\ caseInstances \in Seq(SweptCases) /\ started \in Seq(SweptCases)
      /\ newInstances \in Seq(SweptCases)
  BY DEF SweeperInv, CasesTyped
<1>3. /\ caseInstances' \in Seq(SweptCases)
      /\ Len(caseInstances') = Len(caseInstances) + Len(newInstances)
      /\ ToSet(caseInstances') = ToSet(caseInstances) \cup ToSet(newInstances)
  BY <1>1, <1>2, JoinedElements
<1>4. main # "spawned"
  BY <1>1 DEF SweeperInv, MainOK
<1>5. CasesTyped'
  BY <1>1, <1>3 DEF SweeperInv, CasesTyped
<1> DEFINE all == newInstances \o caseInstances \o started
<1>6. /\ Len(all) = Len(newInstances) + Len(caseInstances) + Len(started)
      /\ ToSet(all) = ToSet(newInstances) \cup ToSet(caseInstances) \cup ToSet(started)
  BY <1>2, ThreeLists
<1>7. Len(all') = Len(caseInstances') + Len(started) /\ ToSet(all') = ToSet(caseInstances') \cup ToSet(started)
  <2>1. all' = newInstances' \o caseInstances' \o started
    BY <1>1
  <2>2. newInstances' \in Seq(SweptCases)
    BY <1>1
  <2>3. caseInstances' \in Seq(SweptCases) /\ started \in Seq(SweptCases)
    BY <1>2, <1>3
  <2> HIDE DEF all
  <2>4. /\ Len(all') = Len(newInstances') + Len(caseInstances') + Len(started)
        /\ ToSet(all') = ToSet(newInstances') \cup ToSet(caseInstances') \cup ToSet(started)
    BY ONLY <2>1, <2>2, <2>3, ThreeLists
  <2>5. /\ Len(newInstances') = 0 /\ ToSet(newInstances') = {}
        /\ Len(caseInstances') \in Nat /\ Len(started) \in Nat
    BY <1>1, <1>2, <1>3 DEF ToSet
  <2> QED BY <2>4, <2>5
<1>8. CasesAreKept'
  <2>1. CasesAreKept <=> /\ Len(all) + Cardinality(dropped) = given
                         /\ Ids(ToSet(all) \cup dropped) = 1 .. given
                         /\ \A c \in dropped : GetMemoryLimit(c) > Memory
    BY DEF CasesAreKept, Ids
  <2>2. CasesAreKept' <=> /\ Len(all') + Cardinality(dropped') = given'
                          /\ Ids(ToSet(all') \cup dropped') = 1 .. given'
                          /\ \A c \in dropped' : GetMemoryLimit(c) > Memory
    BY DEF CasesAreKept, Ids
  <2> HIDE DEF all
  <2>3. Len(all') = Len(all) /\ ToSet(all') = ToSet(all)
    <3>1. Len(newInstances) \in Nat /\ Len(caseInstances) \in Nat /\ Len(started) \in Nat
      BY <1>2
    <3> QED BY <1>3, <1>6, <1>7, <3>1
  <2> QED BY <1>1, <2>1, <2>2, <2>3 DEF SweeperInv, CasesAreRight
<1>9. MainOK'
  BY <1>1, <1>4 DEF SweeperInv, MainOK
<1>10. ProcessesOK'
  BY <1>1, <1>4 DEF SweeperInv, ProcessesOK, Known
<1>11. MachineIsRespected'
  BY <1>1, <1>4 DEF SweeperInv, CasesAreRight, MachineIsRespected, Known
<1> QED BY <1>5, <1>8, <1>9, <1>10, <1>11 DEF SweeperInv, CasesAreRight

LEMMA SweeperStep == SweeperInv /\ [SweeperNext]_sweeperVars => SweeperInv'
<1> SUFFICES ASSUME SweeperInv, [SweeperNext]_sweeperVars PROVE SweeperInv'
  OBVIOUS
<1>1. CASE SweeperNext
  <2>1. \/ Round \/ FallAsleep \/ Rescheduled \/ Test \/ Join \/ Look \/ WaitChildren \/ WakeUp
        \/ Tell \/ InterruptionPoint \/ TellOfCases \/ WriteNothing \/ StopTells
        \/ Spawn \/ NoteProcess \/ SkipCase \/ WaitProcess \/ Collect \/ ProcessEnds
        \/ ReadPipe \/ Splice \/ Stop
    BY <1>1 DEF SweeperNext, MainSteps, WaiterSteps, ReaderSteps, HandlerSteps
  <2> QED BY <2>1, QuietStep, SpawnStep, NoteProcessStep, SkipCaseStep, WaitProcessStep, CollectStep,
             ProcessEndsStep, ReadPipeStep, SpliceStep, StopStep
<1>2. CASE UNCHANGED sweeperVars
  <2>1. CasesTyped' /\ CasesAreKept'
    BY <1>2, CasesStay DEF sweeperVars, SweeperInv, CasesAreRight, CasesTyped
  <2>2. MainOK'
    BY <1>2 DEF sweeperVars, SweeperInv, MainOK, Candidate
  <2>3. ProcessesOK'
    BY <1>2 DEF sweeperVars, SweeperInv, ProcessesOK, Known, Candidate
  <2>4. MachineIsRespected'
    BY <1>2 DEF sweeperVars, SweeperInv, CasesAreRight, MachineIsRespected, Known, Candidate
  <2> QED BY <2>1, <2>2, <2>3, <2>4 DEF SweeperInv, CasesAreRight
<1> QED BY <1>1, <1>2

\* However the threads take turns, simulations end and signals come, each case
\* that is read is kept until it runs or is found too large, once, and the
\* processes that exist have no more than the memory and the places there are:
\* sweeperdaemon.cpp, reschedule, waitProcesses and getNewCases.
THEOREM CasesAlwaysRight == SweeperSpec => []CasesAreRight
<1>1. SweeperSpec => []SweeperInv
  BY SweeperStarts, SweeperStep, PTL DEF SweeperSpec
<1>2. SweeperInv => CasesAreRight
  BY DEF SweeperInv
<1> QED BY <1>1, <1>2, PTL
=============================================================================
