--------------------------- MODULE SubmissionNode ---------------------------
(***************************************************************************)
(* The submission manager of a peer (include/SubmissionNode.hpp,           *)
(* src/lib/scheduling/SubmissionNode.cpp): it asks the overlay for nodes   *)
(* for the tasks of its applications, follows their execution with the     *)
(* reports and the heartbeats of the execution nodes, and starts a new     *)
(* request for the tasks that were not accepted or whose node is dead.     *)
(*                                                                         *)
(* The other end is the execution nodes, reduced to what they send to this *)
(* node: the acceptance of a range of tasks, monitoring reminders and the  *)
(* end of each task (src/lib/scheduling/Scheduler.cpp).  Every message     *)
(* travels over a TCP connection of its own, so that two messages of one   *)
(* node may overtake each other, and one that finds no connection is lost. *)
(***************************************************************************)
EXTENDS TaskBagAppDatabase

CONSTANTS
  SubmitRetries,  \* ConfigurationManager: automatic submission retries
  UIntMax,        \* Largest value of the unsigned counters of remainingTasks
  AcceptFirst,    \* Assume that an acceptance is handled before the reports
                  \* its node sends later
  PromptTimers,   \* Assume that a timer expires only when nothing that
                  \* would have stopped it is on its way
  MaxFaults,      \* Bound: node failures and aborted tasks
  MaxLosses,      \* Bound: lost messages
  MaxNet,         \* Bound: messages of the nodes on their way
  MaxRestarts,    \* Bound: restarts of the submission node
  MaxTimers       \* Bound: heartbeat timers of one node that are referred to

ASSUME SubmissionConstants ==
  /\ SubmitRetries \in Nat
  /\ UIntMax \in Nat /\ UIntMax >= NumTasks
  /\ {AcceptFirst, PromptTimers} \subseteq BOOLEAN
  /\ {MaxFaults, MaxLosses, MaxNet, MaxRestarts, MaxTimers} \subseteq Nat

VARIABLES
  db,          \* The database, the only state that a restart keeps.
  inNetwork,   \* Whether the leaf has a father.
  inChange,    \* Whether the father of the leaf is changing.
  delayed,     \* delayedInstances: the retries of the first call delayed for
               \* each instance.  That call takes all its ready tasks, so a
               \* second one of the same instance would find none.
  remaining,   \* remainingTasks: unfinished tasks in requests, per instance.
  retries,     \* Number of retries of a request.
  heartbeats,  \* Heartbeat timer of each execution node.
  remote,      \* remoteTasks: tasks of each instance in each node, 0 when
               \* there is no entry.
  timers,      \* Timers that have not expired.
  fired,       \* Timers that expired and wait in the message queue.
  alive,       \* FALSE once undefined behaviour has stopped the program.
  offered,     \* Keys <<rid, rtid>> of tasks that the overlay is routing.
  running,     \* Tasks in the queues of the execution nodes.
  up,          \* Execution nodes that have not failed.
  net,         \* Messages on their way to the submission node.
  faults,      \* Faults so far.
  losses,      \* Lost messages so far.
  restarts     \* Restarts so far.

nodeVars == <<inNetwork, inChange, delayed, remaining, retries, heartbeats,
              remote, timers, fired, alive>>
envVars  == <<running, up, net, faults, losses, restarts>>
vars     == <<db, offered, nodeVars, envVars>>

NoEntry == -1                       \* an absent entry of a map
Keys    == Rids \X TaskIds          \* a task as a message names it
TimerIds == 1 .. MaxTimers          \* CommLayer timer ids, see NewTimer

RequestTimer(r)      == [type |-> "request", rid |-> r]
HeartbeatTimer(h, i) == [type |-> "heartbeat", node |-> h, id |-> i]
Timers == {RequestTimer(r) : r \in Rids}
            \cup {HeartbeatTimer(h, i) : h \in Hosts, i \in TimerIds}

AcceptTaskMsg(h, r, f, l) ==
  [type |-> "accept", node |-> h, rid |-> r, rtids |-> f .. l]
\* The tasks a node reports, and those of them it says are finished or aborted.
TaskMonitorMsg(h, K, F, A) ==
  [type |-> "monitor", node |-> h, tasks |-> K, finished |-> F, aborted |-> A]

Init ==
  /\ db = EmptyDatabase
  /\ inNetwork = FALSE
  /\ inChange = FALSE
  /\ delayed = [a \in AppIds |-> NoEntry]
  /\ remaining = [a \in AppIds |-> NoEntry]
  /\ retries = [r \in Rids |-> NoEntry]
  /\ heartbeats = [h \in Hosts |-> NoEntry]
  /\ remote = [h \in Hosts |-> [a \in AppIds |-> 0]]
  /\ timers = {} /\ fired = {}
  /\ alive = TRUE
  /\ offered = {} /\ running = {} /\ up = Hosts /\ net = {}
  /\ faults = 0 /\ losses = 0 /\ restarts = 0

-----------------------------------------------------------------------------
(* Helpers.                                                                *)

\* An absent entry springs up as 0 when operator[] reads it.
Value(n) == IF n = NoEntry THEN 0 ELSE n

\* Unsigned arithmetic.
Add(n, k) == (n + k) % (UIntMax + 1)
Sub(n, k) == (n - k + UIntMax + 1) % (UIntMax + 1)

(***************************************************************************)
(* sendRequest for every instance of `calls' (a map from instances to      *)
(* previous retries): delayed while the father changes; otherwise a        *)
(* request with all the ready tasks, if any, its timeout, and the bag for  *)
(* the dispatcher of the father.  `s' holds what the calls may change.     *)
(***************************************************************************)
SendRequests(s, calls, changing) ==
  LET A       == {a \in AppIds : calls[a] # NoEntry /\ Ready(s.db, a) # {}}
      rid     == [a \in A |-> s.db.lastRid + Cardinality({b \in A : b <= a})]
      asked   == RequestFromReadyTasks(s.db, A, rid)
      new     == {rid[a] : a \in A}
  IN  IF changing
      THEN [s EXCEPT !.delayed =
              [a \in AppIds |-> IF @[a] = NoEntry THEN calls[a] ELSE @[a]]]
      ELSE [s EXCEPT
              !.db        = StartSearch(asked, A, rid),
              !.remaining = [a \in AppIds |-> IF a \in A
                  THEN Add(Value(@[a]), Cardinality(Ready(s.db, a))) ELSE @[a]],
              !.retries   = [r \in Rids |-> IF r \in new
                  THEN calls[GetInstanceId(asked, r)] + 1 ELSE @[r]],
              !.timers    = @ \cup {RequestTimer(r) : r \in new},
              !.offered   = @ \cup {k \in Keys : k[1] \in new
                                      /\ TidsOf(asked, {k}) # {}}]

OneCall(a, prevRetries) ==
  [b \in AppIds |-> IF b = a THEN prevRetries ELSE NoEntry]

\* The state that SendRequests starts from and the one it leaves.
Current == [db |-> db, remaining |-> remaining, retries |-> retries,
            timers |-> timers, offered |-> offered, delayed |-> delayed,
            remote |-> remote]
Becomes(s) ==
  /\ db' = s.db /\ remaining' = s.remaining /\ retries' = s.retries
  /\ timers' = s.timers /\ offered' = s.offered /\ delayed' = s.delayed
  /\ remote' = s.remote

\* Bound: every instance can still have a request of its own.
RequestsLeft == db.lastRid + MaxApps <= MaxRequests

\* A timer id that nothing refers to; CommLayer never gives one out twice.
NewTimer(h) ==
  CHOOSE i \in TimerIds :
    /\ heartbeats[h] # i
    /\ HeartbeatTimer(h, i) \notin timers \cup fired
    /\ \A j \in 1 .. i - 1 : heartbeats[h] = j \/ HeartbeatTimer(h, j) \in timers \cup fired

\* Bound: there is such an id.
TimersLeft(h) ==
  \E i \in TimerIds : heartbeats[h] # i /\ HeartbeatTimer(h, i) \notin timers \cup fired

RetriesLeft(r) == retries[r] < SubmitRetries

\* Mutant of Rearmed: the timer is cancelled and not set again.
RearmedNever(ts, h, watch) == ts \ {HeartbeatTimer(h, i) : i \in {heartbeats[h]}}

\* The timers once the one of a node is cancelled and, to watch it, set again.
Rearmed(ts, h, watch) ==
  (ts \ {HeartbeatTimer(h, i) : i \in {heartbeats[h]}})
    \cup {HeartbeatTimer(h, NewTimer(h)) : w \in {watch} \cap {TRUE}}

-----------------------------------------------------------------------------
(* The leaf of the overlay reports changes of its father.                  *)

FatherChanging ==
  /\ alive /\ ~inChange
  /\ inChange' = TRUE
  /\ UNCHANGED <<db, offered, inNetwork, delayed, remaining, retries, heartbeats,
                 remote, timers, fired, alive, envVars>>

\* There is a father from the first change that is committed.
FatherChanged ==
  /\ alive /\ inChange /\ RequestsLeft
  /\ inChange' = FALSE
  /\ inNetwork' \in {inNetwork, TRUE}
  /\ LET s == [Current EXCEPT !.delayed = [a \in AppIds |-> NoEntry]]
     IN  Becomes(SendRequests(s, delayed, FALSE))
  /\ UNCHANGED <<heartbeats, fired, alive, envVars>>

-----------------------------------------------------------------------------
(* Messages of the user and timers of this node.                           *)

\* DispatchCommandMsg; without a father it has no effect.
DispatchCommand(a) ==
  /\ alive /\ inNetwork /\ RequestsLeft
  /\ ~Created(db, a)
  /\ \A b \in 1 .. a - 1 : Created(db, b)
  /\ LET s == [Current EXCEPT !.db = CreateAppInstance(db, a), !.remaining[a] = 0]
     IN  Becomes(SendRequests(s, OneCall(a, 0), inChange))
  /\ UNCHANGED <<inNetwork, inChange, heartbeats, fired, alive, envVars>>

(***************************************************************************)
(* The tasks still searched are ready again, and asked for once more if    *)
(* there are retries left.  The entry of remainingTasks is dereferenced    *)
(* without a look: when the instance has finished it is end(), and the     *)
(* program stops or goes on as if nothing had been written.                *)
(***************************************************************************)
HandleRequestTimeout(r) ==
  LET a     == GetInstanceId(db, r)
      ready == CancelSearch(db, r)
      left  == IF remaining[a] = NoEntry THEN NoEntry
               ELSE Sub(remaining[a], Cardinality(Cancelled(db, r)))
      again == Ready(ready, a) # {} /\ RetriesLeft(r)
      s     == [Current EXCEPT !.db = ready, !.retries[r] = NoEntry,
                  !.remaining[a] = IF ~again /\ left = 0 THEN NoEntry ELSE left]
  IN  /\ alive /\ RequestsLeft
      /\ RequestTimer(r) \in fired
      /\ fired' = fired \ {RequestTimer(r)}
      /\ Becomes(IF again THEN SendRequests(s, OneCall(a, retries[r]), inChange) ELSE s)
      /\ \/ alive' = TRUE
         \/ remaining[a] = NoEntry /\ alive' = FALSE
      /\ UNCHANGED <<inNetwork, inChange, heartbeats, envVars>>

\* The node is taken for dead: its tasks are asked for in new requests.
HandleHeartbeatTimeout(h) ==
  LET lost == [a \in AppIds |-> IF remote[h][a] > 0 THEN 0 ELSE NoEntry]
      s    == [Current EXCEPT
                 !.db = DeadNode(db, h),
                 !.remaining = [a \in AppIds |-> IF lost[a] = NoEntry THEN @[a]
                                  ELSE Sub(Value(@[a]), remote[h][a])],
                 !.remote[h] = [a \in AppIds |-> 0]]
  IN  /\ alive /\ RequestsLeft
      /\ \E i \in TimerIds :
           /\ HeartbeatTimer(h, i) \in fired
           /\ fired' = fired \ {HeartbeatTimer(h, i)}
      /\ heartbeats' = [heartbeats EXCEPT ![h] = NoEntry]
      /\ Becomes(SendRequests(s, lost, inChange))
      /\ UNCHANGED <<inNetwork, inChange, alive, envVars>>

-----------------------------------------------------------------------------
(* Messages of the execution nodes.                                        *)

\* The next message of a node: with AcceptFirst, not a report that is behind
\* an acceptance.
Arrives(m) ==
  /\ alive
  /\ m \in net
  /\ AcceptFirst /\ m.type = "monitor" =>
       ~\E k \in net : k.node = m.node /\ k.type = "accept"
  /\ net' = net \ {m}

HandleAcceptTask(m) ==
  LET h   == m.node
      a   == GetInstanceId(db, m.rid)
      K   == {m.rid} \X m.rtids
      num == Cardinality(Accepted(db, a, K))
  IN  /\ m.type = "accept"
      /\ Arrives(m)
      /\ db' = AcceptedTasks(db, h, K)
      /\ IF num > 0
         THEN /\ retries' = [retries EXCEPT ![m.rid] = 0]
              /\ remote' = [remote EXCEPT ![h][a] = @ + num]
              /\ IF heartbeats[h] = NoEntry
                 THEN /\ TimersLeft(h)
                      /\ heartbeats' = [heartbeats EXCEPT ![h] = NewTimer(h)]
                      /\ timers' = timers \cup {HeartbeatTimer(h, NewTimer(h))}
                 ELSE UNCHANGED <<heartbeats, timers>>
         ELSE UNCHANGED <<retries, remote, heartbeats, timers>>
      /\ UNCHANGED <<offered, inNetwork, inChange, delayed, remaining, fired, alive,
                     running, up, faults, losses, restarts>>

\* Task k of node h is reported as finished.
FinishOne(s, h, k) ==
  LET a        == GetInstanceId(s.db, k[1])
      credited == FinishedTaskReturns(s.db, k) /\ s.remote[h][a] > 0
      left     == Sub(s.remaining[a], 1)
  IN  [s EXCEPT !.db = FinishedTask(@, h, k),
                !.remote[h][a] = IF credited THEN @ - 1 ELSE @,
                !.remaining[a] = IF ~credited \/ @ = NoEntry THEN @
                                 ELSE IF left = 0 THEN NoEntry ELSE left]

\* Task k of node h is reported as aborted.
AbortOne(s, h, k) ==
  LET a    == GetInstanceId(s.db, k[1])
      next == [s EXCEPT !.db = AbortedTask(@, h, k),
                        !.remote[h][a] = IF @ > 0 THEN @ - 1 ELSE @,
                        !.remaining[a] = Sub(Value(@), 1)]
  IN  IF ~AbortedTaskReturns(s.db, h, k) THEN s
      ELSE IF s.remote[h][a] = 0 THEN next
      ELSE SendRequests(next, OneCall(a, 0), inChange)

\* A report has one task that has ended at most: a node runs one at a time.
HandleTaskMonitor(m) ==
  LET h     == m.node
      s1    == [Current EXCEPT !.db = AcceptedTasks(@, h, m.tasks)]
      s2    == IF m.finished = {} THEN s1 ELSE FinishOne(s1, h, CHOOSE k \in m.finished : TRUE)
      s3    == IF m.aborted = {} THEN s2 ELSE AbortOne(s2, h, CHOOSE k \in m.aborted : TRUE)
      watch == \E a \in AppIds : s3.remote[h][a] > 0
  IN  /\ m.type = "monitor"
      /\ Arrives(m)
      /\ watch => TimersLeft(h)
      /\ heartbeats' = [heartbeats EXCEPT ![h] = IF watch THEN NewTimer(h) ELSE NoEntry]
      /\ Becomes([s3 EXCEPT !.timers = Rearmed(@, h, watch)])
      /\ UNCHANGED <<inNetwork, inChange, fired, alive, running, up, faults, losses,
                     restarts>>

-----------------------------------------------------------------------------
(* Time passes: CommLayer moves an expired timer to the message queue.     *)

Expire(t) ==
  /\ t \in timers
  /\ timers' = timers \ {t}
  /\ fired' = fired \cup {t}
  /\ UNCHANGED <<db, offered, inNetwork, inChange, delayed, remaining, retries,
                 heartbeats, remote, alive, envVars>>

\* With PromptTimers, no node is about to accept a task of the request.
ExpireRequest(r) ==
  /\ PromptTimers =>
       /\ \A k \in offered : k[1] # r
       /\ \A m \in net : ~(m.type = "accept" /\ m.rid = r)
  /\ Expire(RequestTimer(r))

\* With PromptTimers, the node has no task to report nor report on its way, and
\* no request is still looking for nodes (its timeout is much shorter).
ExpireHeartbeat(h, i) ==
  /\ PromptTimers =>
       /\ offered = {}
       /\ \A x \in running : x.node # h
       /\ \A m \in net : m.node # h
  /\ Expire(HeartbeatTimer(h, i))

(***************************************************************************)
(* The program is started again: its database is on disk, and nothing is   *)
(* read back from it.                                                      *)
(***************************************************************************)
Restart ==
  /\ restarts < MaxRestarts
  /\ restarts' = restarts + 1
  /\ inNetwork' = FALSE /\ inChange' = FALSE /\ alive' = TRUE
  /\ delayed' = [a \in AppIds |-> NoEntry]
  /\ remaining' = [a \in AppIds |-> NoEntry]
  /\ retries' = [r \in Rids |-> NoEntry]
  /\ heartbeats' = [h \in Hosts |-> NoEntry]
  /\ remote' = [h \in Hosts |-> [a \in AppIds |-> 0]]
  /\ timers' = {} /\ fired' = {}
  /\ UNCHANGED <<db, offered, running, up, net, faults, losses>>

-----------------------------------------------------------------------------
(* The overlay and the execution nodes, as this node sees them.            *)

RoomInNet == Cardinality(net) < MaxNet

\* A reminder leaves room for another message: it is not what must get through.
RoomForReminder == Cardinality(net) + 1 < MaxNet

InQueue(h) == {x \in running : x.node = h}

\* The overlay gives a range of the tasks of a request to one node.  With
\* PromptTimers, an expired timer is handled before anything else happens.
NodeAccepts(h, r, f, l) ==
  LET K == {r} \X (f .. l)
  IN  /\ h \in up /\ f <= l /\ RoomInNet
      /\ PromptTimers => fired = {}
      /\ K \subseteq offered
      /\ offered' = offered \ K
      /\ running' = running \cup {[node |-> h, key |-> k, exited |-> FALSE] : k \in K}
      /\ net' = net \cup {AcceptTaskMsg(h, r, f, l)}
      /\ UNCHANGED <<db, nodeVars, up, faults, losses, restarts>>

\* No node takes the tasks of a request that are still on their way.
NobodyAccepts(r) ==
  /\ \E k \in offered : k[1] = r
  /\ offered' = {k \in offered : k[1] # r}
  /\ UNCHANGED <<db, nodeVars, envVars>>

\* The process of a task ends well: its status is Finished from now on.
TaskExits(x) ==
  /\ x \in running /\ ~x.exited
  /\ \A y \in InQueue(x.node) : ~y.exited
  /\ running' = (running \ {x}) \cup {[x EXCEPT !.exited = TRUE]}
  /\ UNCHANGED <<db, offered, nodeVars, up, net, faults, losses, restarts>>

\* The scheduler takes an ended task out of its queue and reports it.
NodeFinishes(x) ==
  /\ x \in running /\ x.exited /\ RoomInNet
  /\ running' = running \ {x}
  /\ net' = net \cup {TaskMonitorMsg(x.node, {x.key}, {x.key}, {})}
  /\ UNCHANGED <<db, offered, nodeVars, up, faults, losses, restarts>>

NodeAborts(x) ==
  /\ x \in running /\ ~x.exited /\ RoomInNet
  /\ faults < MaxFaults
  /\ faults' = faults + 1
  /\ running' = running \ {x}
  /\ net' = net \cup {TaskMonitorMsg(x.node, {x.key}, {}, {x.key})}
  /\ UNCHANGED <<db, offered, nodeVars, up, losses, restarts>>

\* The monitoring reminder, with the status of every task in the queue.
NodeReminds(h) ==
  LET K == {x.key : x \in InQueue(h)}
      F == {x.key : x \in {y \in InQueue(h) : y.exited}}
  IN  /\ K # {}
      /\ RoomForReminder
      /\ net' = net \cup {TaskMonitorMsg(h, K, F, {})}
      /\ UNCHANGED <<db, offered, nodeVars, running, up, faults, losses, restarts>>

NodeFails(h) ==
  /\ h \in up
  /\ faults < MaxFaults
  /\ faults' = faults + 1
  /\ up' = up \ {h}
  /\ running' = running \ InQueue(h)
  /\ UNCHANGED <<db, offered, nodeVars, net, losses, restarts>>

LoseMessage(m) ==
  /\ m \in net
  /\ losses < MaxLosses
  /\ losses' = losses + 1
  /\ net' = net \ {m}
  /\ UNCHANGED <<db, offered, nodeVars, running, up, faults, restarts>>

-----------------------------------------------------------------------------

Next ==
  \/ FatherChanging
  \/ FatherChanged
  \/ \E a \in AppIds : DispatchCommand(a)
  \/ \E r \in Rids : HandleRequestTimeout(r)
  \/ \E h \in Hosts : HandleHeartbeatTimeout(h)
  \/ \E m \in net : HandleAcceptTask(m)
  \/ \E m \in net : HandleTaskMonitor(m)
  \/ \E r \in Rids : ExpireRequest(r)
  \/ \E h \in Hosts, i \in TimerIds : ExpireHeartbeat(h, i)
  \/ Restart
  \/ \E h \in Hosts, r \in Rids, f, l \in TaskIds : NodeAccepts(h, r, f, l)
  \/ \E r \in Rids : NobodyAccepts(r)
  \/ \E x \in running : TaskExits(x)
  \/ \E x \in running : NodeFinishes(x)
  \/ \E x \in running : NodeAborts(x)
  \/ \E h \in Hosts : NodeReminds(h)
  \/ \E h \in Hosts : NodeFails(h)
  \/ \E m \in net : LoseMessage(m)

Spec == Init /\ [][Next]_vars

(***************************************************************************)
(* The event loop handles what is in the queue, an armed timer expires,    *)
(* the overlay settles, and a node that has not failed runs its tasks and  *)
(* reports them.  Dispatching, failures and reminders are not forced, and  *)
(* reminders do not hold back the last report of a task.                   *)
(***************************************************************************)
LastReport(m) ==
  /\ m.finished \cup m.aborted # {}
  /\ \A x \in InQueue(m.node) : x.key \notin m.finished \cup m.aborted

Fairness ==
  /\ WF_vars(FatherChanged)
  /\ WF_vars(\E r \in Rids : HandleRequestTimeout(r))
  /\ WF_vars(\E h \in Hosts : HandleHeartbeatTimeout(h))
  /\ WF_vars(\E m \in net : HandleAcceptTask(m))
  /\ WF_vars(\E m \in net : HandleTaskMonitor(m) /\ LastReport(m))
  /\ WF_vars(\E m \in net : HandleTaskMonitor(m))
  /\ WF_vars(\E r \in Rids : ExpireRequest(r) \/ NobodyAccepts(r))
  /\ WF_vars(\E h \in Hosts, i \in TimerIds : ExpireHeartbeat(h, i))
  /\ WF_vars(\E x \in running : TaskExits(x) \/ NodeFinishes(x))

FairSpec == Spec /\ Fairness

-----------------------------------------------------------------------------
(* Properties.                                                             *)

Messages ==
  [type : {"accept"}, node : Hosts, rid : Rids, rtids : SUBSET TaskIds]
    \cup [type : {"monitor"}, node : Hosts, tasks : SUBSET Keys,
          finished : SUBSET Keys, aborted : SUBSET Keys]

\* The state of the submission node and of its environment has its type, the
\* counters fit in their unsigned integers, and a report has one ended task.
TypeOK ==
  /\ db \in Databases
  /\ {inNetwork, inChange, alive} \subseteq BOOLEAN
  /\ delayed \in [AppIds -> Nat \cup {NoEntry}]
  /\ remaining \in [AppIds -> (0 .. UIntMax) \cup {NoEntry}]
  /\ retries \in [Rids -> (0 .. SubmitRetries) \cup {1, NoEntry}]
  /\ heartbeats \in [Hosts -> TimerIds \cup {NoEntry}]
  /\ remote \in [Hosts -> [AppIds -> Nat]]
  /\ timers \cup fired \subseteq Timers
  /\ offered \subseteq Keys
  /\ running \subseteq [node : Hosts, key : Keys, exited : BOOLEAN]
  /\ up \subseteq Hosts
  /\ net \subseteq Messages
  /\ \A m \in net : m.type = "monitor" => Cardinality(m.finished \cup m.aborted) <= 1
  /\ faults \in 0 .. MaxFaults /\ losses \in 0 .. MaxLosses /\ restarts \in 0 .. MaxRestarts

\* The rows of tb_task_request never mix up two tasks nor two requests, in any
\* order of acceptances, reports, timeouts and restarts (the check that
\* TaskBagAppDatabase.cpp:68 says the schema cannot do).
RequestsConsistent == ConsistentRequests(db)

\* A task that is searched is in a request whose timeout is still to come, so
\* that it cannot stay SEARCHING for ever (sendRequest arms the timer before
\* startSearch, and only its handler cancels the search).  A restart loses
\* the timers.
SearchesAreTimed ==
  restarts = 0 =>
    \A a \in AppIds : \A t \in InState(db, a, {"SEARCHING"}) :
      \E r \in Rids :
        /\ GetInstanceId(db, r) = a /\ t \in TidsOfRequest(db, r)
        /\ RequestTimer(r) \in timers \cup fired

\* A node that has tasks to watch has its heartbeat timer armed or expired:
\* whatever timers are cancelled and set by acceptances and reports, the
\* failure of a counted node is always noticed.
NodesAreWatched ==
  \A h \in Hosts :
    (\E a \in AppIds : remote[h][a] > 0) =>
      \E i \in TimerIds : HeartbeatTimer(h, i) \in timers \cup fired

\* No task and no node is forgotten, whatever timers are cancelled and set:
\* each search and each counted node has a timer that watches it.
NothingIsForgotten == SearchesAreTimed /\ NodesAreWatched

\* remoteTasks and remainingTasks count what the database says: the tasks that
\* each node executes, and the tasks of each instance in process.  The end of
\* an application and the relaunch of the tasks of a dead node rest on them.
CountersMatch ==
  /\ TypeOK
  /\ \A h \in Hosts, a \in AppIds : remote[h][a] = Cardinality(ExecutingAt(db, a, h))
  /\ \A a \in AppIds :
       Value(remaining[a]) = Cardinality(InState(db, a, {"SEARCHING", "EXECUTING"}))

\* Once a task is finished, no late acceptance, timeout or dead node brings it
\* back to be executed again.
FinishedForGood ==
  [][\A a \in AppIds :
       InState(db, a, {"FINISHED"}) \subseteq InState(db, a, {"FINISHED"})']_vars

\* Every instance is over at last, finished or out of retries, whatever nodes
\* fail and tasks abort (isIdle can become true again), unless the program is
\* stopped by the dereference of end() in the handler of RequestTimeout.
EveryInstanceEnds ==
  \A a \in AppIds : Created(db, a) ~> (remaining[a] = NoEntry \/ ~alive)

=============================================================================
