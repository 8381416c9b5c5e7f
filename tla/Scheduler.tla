----------------------------- MODULE Scheduler -----------------------------
(***************************************************************************)
(* The execution side of a peer: the scheduler (include/Scheduler.hpp,     *)
(* src/lib/scheduling/Scheduler.cpp) with one of its policies              *)
(* (src/lib/scheduling/policies/?Scheduler.cpp), and a thread per task     *)
(* that prepares it, waits for its turn and runs it in a process           *)
(* (src/lib/scheduling/UnixExecutionEnvironment.cpp).                      *)
(*                                                                         *)
(* The handlers of the scheduler run one after another in the event loop;  *)
(* the threads change the status of their tasks at any time and send a     *)
(* local message of every change, which waits in the queue of the loop.    *)
(* The sequence numbers of the information to the father are left out.     *)
(***************************************************************************)
EXTENDS Integers, Sequences, FiniteSets, Functions

CONSTANTS
  Policies,     \* The policies that may be configured
  Deadline,     \* Deadline of each task, for DP
  MaxTasks,     \* Bound: tasks created
  MaxTimers,    \* Bound: reschedule timers at a time
  MaxFired,     \* Bound: RescheduleTimer messages at a time
  MaxAborts,    \* Bound: AbortTaskMsg received
  MaxFailures,  \* Bound: threads that cannot be created
  MaxChanges    \* Bound: changes of the father

TaskIds  == 1 .. MaxTasks

ASSUME SchedulerConstants ==
  /\ Policies \subseteq {"FSP", "MMP", "DP", "IBP"}
  /\ Deadline \in [TaskIds -> Nat]
  /\ {MaxTasks, MaxTimers, MaxFired, MaxAborts, MaxFailures, MaxChanges} \subseteq Nat

VARIABLES
  policy,           \* The scheduling policy, from the configuration.
  tasks,            \* The queue of tasks: the first one runs.
  nextId,           \* Tasks created so far.
  status,           \* Task::getStatus of each task.
  runlock,          \* Tasks whose thread is locked out by the mutex.
  threadPc,         \* Where the thread of each task is.
  killed,           \* Tasks whose process got the signal of abort().
  inbox,            \* TaskStateChgMsg in the queue of the event loop.
  crash,            \* Why the program has ended, if it has.
  ended,            \* Tasks whose end was reported to their owner.
  aborted,          \* Tasks that the client aborted when they were in the queue.
  rescheduleTimer,  \* The timer that rescheduleAt would cancel.
  pending,          \* Reschedule timers that have not expired.
  fired,            \* RescheduleTimer messages in the queue.
  monitorTimer,     \* Whether monitorTimer is not 0.
  monitor,          \* The monitor timer: off, armed or fired.
  father,           \* Whether the leaf has a father.
  inChange,         \* Whether the father of the leaf is changing.
  dirty,            \* Whether a change must be notified to the father.
  lastInfo,         \* The queue that the father was last told of, if any.
  aborts, failures, changes   \* Counters of the bounded events.

taskVars   == <<nextId, status, runlock, threadPc, killed>>
timerVars  == <<rescheduleTimer, pending, fired>>
monVars    == <<monitorTimer, monitor>>
fatherVars == <<father, inChange, dirty, lastInfo>>
histVars   == <<ended, aborted>>
boundVars  == <<aborts, failures, changes>>
vars == <<tasks, taskVars, inbox, crash, histVars, policy, timerVars, monVars, fatherVars, boundVars>>

Statuses  == {"None", "Inactive", "Prepared", "Running", "Finished", "Aborted"}
ThreadPcs == {"none", "start", "locking", "forked", "waiting", "end"}
NoTimer   == 0
TimerIds  == 1 .. MaxTimers

TaskStateChgMsg(t, new) == [task |-> t, new |-> new]

\* The constructor of the policy notifies the father, if there is one: a node
\* that comes back from a failure is still in the network.
Init ==
  /\ policy \in Policies
  /\ tasks = <<>> /\ nextId = 0
  /\ status = [t \in TaskIds |-> "None"]
  /\ runlock = {} /\ killed = {} /\ inbox = <<>> /\ crash = "no"
  /\ threadPc = [t \in TaskIds |-> "none"]
  /\ ended = {} /\ aborted = {}
  /\ rescheduleTimer = NoTimer /\ pending = {} /\ fired = 0
  /\ monitorTimer = FALSE /\ monitor = "off"
  /\ father \in BOOLEAN /\ inChange = FALSE
  /\ dirty = ~father /\ lastInfo = IF father THEN {tasks} ELSE {}
  /\ aborts = 0 /\ failures = 0 /\ changes = 0

-----------------------------------------------------------------------------
(* Schedules.                                                              *)

Queued == Range(tasks)

\* Mutant of Orders: elements may be there twice.
OrdersWithRepetition(S) == [1 .. Cardinality(S) -> S]

\* The sequences in which every element of S is once.
Orders(S) == {s \in [1 .. Cardinality(S) -> S] : Range(s) = S}

\* The first element of S in the queue.
FirstOf(S) ==
  LET i == CHOOSE j \in DOMAIN tasks :
             tasks[j] \in S /\ \A k \in 1 .. j - 1 : tasks[k] \notin S
  IN  tasks[i]

\* Mutant of FSPSchedules: the first task is preempted.
FSPSchedulesAll(S, first) == Orders(S)

\* FSP leaves the first task where it is and orders the others by slowness,
\* which depends on the time.
FSPSchedules(S, first) == {s \in Orders(S) : s # <<>> => s[1] = first}

\* By the time of creation.
MMPSchedules(S) == {s \in Orders(S) : \A i, j \in DOMAIN s : i < j => s[i] < s[j]}

\* By deadline, but the running task goes before.
DPSchedules(S) ==
  LET before(t, u) == \/ status[t] = "Running"
                      \/ status[u] # "Running" /\ Deadline[t] <= Deadline[u]
  IN  {s \in Orders(S) : \A i, j \in DOMAIN s : i < j => before(s[i], s[j])}

\* What reschedule makes of a queue of the tasks S.  FSP builds it from its
\* proxys, which removeFromQueue keeps up to date.
Schedules(S, first) ==
  CASE policy = "FSP"            -> FSPSchedules(S, first)
    [] policy = "DP"             -> DPSchedules(S)
    [] policy \in {"MMP", "IBP"} -> MMPSchedules(S)

\* How many tasks of n the policy accepts: DP those that it has time for.
Acceptable(n) ==
  CASE policy \in {"FSP", "MMP"} -> {n}
    [] policy = "DP"             -> 0 .. n
    [] policy = "IBP"            -> IF tasks = <<>> THEN {1} ELSE {0}

-----------------------------------------------------------------------------
(* What the handlers have in common.                                       *)

Alive == crash = "no"

\* rescheduleAt, when the timer to cancel is `current'.
RescheduleAt(current) ==
  \E id \in TimerIds \ (pending \ {current}) :
    /\ rescheduleTimer' = id
    /\ pending' = (pending \ {current}) \cup {id}

\* FSP and DP program a timer whenever there are tasks.
Reschedule(current) ==
  IF policy \in {"FSP", "DP"} /\ tasks' # <<>>
  THEN RescheduleAt(current)
  ELSE rescheduleTimer' = current /\ UNCHANGED pending

\* Mutant of RunFirst: only a task that is alone is run.
RunAlone(held) ==
  IF Len(tasks') = 1 /\ status'[Head(tasks')] = "Prepared"
  THEN /\ runlock' = held \ {Head(tasks')}
       /\ crash' = IF Head(tasks') \in held THEN crash ELSE "lock_error"
  ELSE runlock' = held /\ UNCHANGED crash

\* UnixProcess::run of the first task: it unlocks the mutex, and to unlock it
\* twice throws an exception that nobody catches.
RunFirst(held) ==
  IF tasks' # <<>> /\ status'[Head(tasks')] = "Prepared"
  THEN /\ runlock' = held \ {Head(tasks')}
       /\ crash' = IF Head(tasks') \in held THEN crash ELSE "lock_error"
  ELSE runlock' = held /\ UNCHANGED crash

\* switchContext with the tasks S in the queue.
SwitchContext(S, first, held, current) ==
  /\ tasks' \in Schedules(S, first)
  /\ Reschedule(current)
  /\ RunFirst(held)

\* Mutant of NotifySchedule: a notification that cannot be sent is dropped.
NotifyScheduleOrDrop ==
  IF ~inChange /\ father THEN lastInfo' = {tasks'} /\ dirty' = FALSE
                         ELSE UNCHANGED <<lastInfo, dirty>>

NotifySchedule ==
  IF ~inChange /\ father THEN lastInfo' = {tasks'} /\ dirty' = FALSE
                         ELSE dirty' = TRUE /\ UNCHANGED lastInfo

-----------------------------------------------------------------------------
(* Handlers of the scheduler.                                              *)

\* The tasks of a TaskBagMsg of n tasks, of which the policy accepts k > 0.  The
\* threads of the tasks of F cannot be created.
HandleTaskBag(n, k, F) ==
  LET new   == nextId + 1 .. nextId + k
      first == IF tasks = <<>> THEN nextId + 1 ELSE tasks[1]
  IN  /\ Alive
      /\ k \in Acceptable(n) /\ k > 0
      /\ nextId + k <= MaxTasks
      /\ F \subseteq new /\ failures + Cardinality(F) <= MaxFailures
      /\ failures' = failures + Cardinality(F)
      /\ nextId' = nextId + k
      /\ status' = [t \in TaskIds |-> IF t \in F THEN "Aborted"
                                      ELSE IF t \in new THEN "Inactive" ELSE status[t]]
      /\ threadPc' = [t \in TaskIds |-> IF t \in F THEN "end"
                                        ELSE IF t \in new THEN "start" ELSE threadPc[t]]
      /\ SwitchContext(Queued \cup new, first, runlock \cup new, rescheduleTimer)
      /\ IF crash' = "no"
         THEN /\ NotifySchedule
              /\ monitorTimer' = TRUE
              /\ monitor' = IF monitorTimer THEN monitor ELSE "armed"
         ELSE UNCHANGED <<lastInfo, dirty, monVars>>
      /\ UNCHANGED <<killed, inbox, histVars, policy, fired, father, inChange, aborts, changes>>

\* Mutant of RemovedFromQueue: the list of proxys keeps the task, and reschedule
\* puts it back.
RemovedFromTasksOnly(t) == Queued

\* What removeFromQueue leaves in the queue.
RemovedFromQueue(t) == Queued \ {t}

\* A change of the state of a task: an ended task leaves the queue, and its
\* owner gets a report.
HandleTaskStateChg ==
  LET t    == Head(inbox).task
      over == Head(inbox).new \in {"Finished", "Aborted"} /\ t \in Queued
      S    == IF over THEN RemovedFromQueue(t) ELSE Queued
  IN  /\ Alive /\ inbox # <<>>
      /\ inbox' = Tail(inbox)
      /\ ended' = IF over THEN ended \cup {t} ELSE ended
      /\ UNCHANGED <<nextId, status, threadPc, killed>>
      /\ SwitchContext(S, FirstOf(S), runlock, rescheduleTimer)
      /\ IF crash' = "no" THEN NotifySchedule ELSE UNCHANGED <<lastInfo, dirty>>
      /\ UNCHANGED <<aborted, policy, fired, monVars, father, inChange, boundVars>>

HandleRescheduleTimer ==
  /\ Alive /\ fired > 0
  /\ fired' = fired - 1
  /\ UNCHANGED <<nextId, status, threadPc, killed>>
  /\ SwitchContext(Queued, FirstOf(Queued), runlock, NoTimer)
  /\ IF crash' = "no" THEN NotifySchedule ELSE UNCHANGED <<lastInfo, dirty>>
  /\ UNCHANGED <<inbox, histVars, policy, monVars, father, inChange, boundVars>>

\* The client aborts the tasks A.  abort() only kills a process that was forked.
\* FSP puts the tasks back in the queue; the other policies hold no other
\* reference to them, so that they are destroyed while their threads run.
HandleAbortTask(A) ==
  LET S == IF policy = "FSP" THEN Queued ELSE Queued \ A
  IN  /\ Alive /\ aborts < MaxAborts
      /\ A # {} /\ A \subseteq Queued
      /\ aborts' = aborts + 1
      /\ aborted' = aborted \cup A
      /\ killed' = killed \cup {t \in A : threadPc[t] \in {"forked", "waiting"}}
      /\ UNCHANGED <<nextId, status, threadPc>>
      /\ IF policy # "FSP" /\ \E t \in A : threadPc[t] # "end"
         THEN /\ crash' = "dangling"
              /\ UNCHANGED <<tasks, runlock, rescheduleTimer, pending, lastInfo, dirty>>
         ELSE /\ SwitchContext(S, FirstOf(S), runlock, rescheduleTimer)
              /\ IF crash' = "no" THEN NotifySchedule ELSE UNCHANGED <<lastInfo, dirty>>
      /\ UNCHANGED <<inbox, ended, policy, fired, monVars, father, inChange, failures, changes>>

\* Mutant of Rearm: the variable keeps the number of the timer that expired.
RearmOrKeep == monitor' = (IF tasks = <<>> THEN "off" ELSE "armed") /\ UNCHANGED monitorTimer

\* The reminder goes on as long as there are tasks.
Rearm ==
  /\ monitorTimer' = (tasks # <<>>)
  /\ monitor' = IF tasks = <<>> THEN "off" ELSE "armed"

HandleMonitorTimer ==
  /\ Alive /\ monitor = "fired"
  /\ Rearm
  /\ UNCHANGED <<tasks, taskVars, inbox, crash, histVars, policy, timerVars, fatherVars, boundVars>>

FatherChanging ==
  /\ Alive /\ ~inChange /\ changes < MaxChanges
  /\ changes' = changes + 1
  /\ inChange' = TRUE
  /\ UNCHANGED <<tasks, taskVars, inbox, crash, histVars, policy, timerVars, monVars, father,
                 dirty, lastInfo, aborts, failures>>

\* The change is over, and there is another father or the same as before.
FatherChanged(changed) ==
  /\ Alive /\ inChange
  /\ inChange' = FALSE
  /\ father' = (father \/ changed)
  /\ IF father' /\ (changed \/ dirty)
     THEN lastInfo' = {tasks} /\ dirty' = FALSE
     ELSE UNCHANGED <<lastInfo, dirty>>
  /\ UNCHANGED <<tasks, taskVars, inbox, crash, histVars, policy, timerVars, monVars, boundVars>>

-----------------------------------------------------------------------------
(* The threads of the tasks (UnixProcess::prepareAndRun).                  *)

\* The thread of task t goes from one place to the next.
ThreadStep(t, from, to) ==
  /\ Alive /\ threadPc[t] = from
  /\ threadPc' = [threadPc EXCEPT ![t] = to]
  /\ UNCHANGED <<tasks, nextId, runlock, killed, crash, histVars, policy, timerVars, monVars,
                 fatherVars, boundVars>>

\* The status changes, and the scheduler is told.
ChangeState(t, new) ==
  /\ status' = [status EXCEPT ![t] = new]
  /\ inbox' = Append(inbox, TaskStateChgMsg(t, new))

Prepare(t) == ThreadStep(t, "start", "locking") /\ ChangeState(t, "Prepared")

\* run() has released the mutex: the thread forks.
Fork(t) ==
  /\ t \notin runlock
  /\ ThreadStep(t, "locking", "forked")
  /\ UNCHANGED <<status, inbox>>

Running(t) == ThreadStep(t, "forked", "waiting") /\ ChangeState(t, "Running")

\* waitpid returns.
Finish(t) ==
  /\ t \notin killed
  /\ ThreadStep(t, "waiting", "end")
  /\ ChangeState(t, "Finished")

Abort(t) == ThreadStep(t, "waiting", "end") /\ ChangeState(t, "Aborted")

-----------------------------------------------------------------------------
(* Time passes.                                                            *)

ExpireReschedule(id) ==
  /\ Alive /\ id \in pending /\ fired < MaxFired
  /\ pending' = pending \ {id}
  /\ fired' = fired + 1
  /\ UNCHANGED <<tasks, taskVars, inbox, crash, histVars, policy, rescheduleTimer, monVars,
                 fatherVars, boundVars>>

ExpireMonitor ==
  /\ Alive /\ monitor = "armed"
  /\ monitor' = "fired"
  /\ UNCHANGED <<tasks, taskVars, inbox, crash, histVars, policy, timerVars, monitorTimer,
                 fatherVars, boundVars>>

-----------------------------------------------------------------------------

Thread(t) == Prepare(t) \/ Fork(t) \/ Running(t) \/ Finish(t) \/ Abort(t)

Next ==
  \/ \E n, k \in TaskIds : \E F \in SUBSET TaskIds : HandleTaskBag(n, k, F)
  \/ HandleTaskStateChg
  \/ HandleRescheduleTimer
  \/ \E A \in SUBSET TaskIds : HandleAbortTask(A)
  \/ HandleMonitorTimer
  \/ FatherChanging
  \/ \E changed \in BOOLEAN : FatherChanged(changed)
  \/ \E t \in TaskIds : Prepare(t)
  \/ \E t \in TaskIds : Fork(t)
  \/ \E t \in TaskIds : Running(t)
  \/ \E t \in TaskIds : Finish(t)
  \/ \E t \in TaskIds : Abort(t)
  \/ \E id \in TimerIds : ExpireReschedule(id)
  \/ ExpireMonitor

Spec == Init /\ [][Next]_vars

\* The event loop handles the messages of the threads, which run; processes
\* end, and the father settles.  No timer need ever expire.
FairSpec ==
  /\ Spec
  /\ WF_vars(HandleTaskStateChg)
  /\ WF_vars(\E changed \in BOOLEAN : FatherChanged(changed))
  /\ \A t \in TaskIds : WF_vars(Thread(t))

-----------------------------------------------------------------------------
(* Properties.                                                             *)

\* The state of the scheduler, the threads and the timers has its type, and a
\* task is in the queue once at most.
TypeOK ==
  /\ policy \in Policies
  /\ tasks \in Seq(TaskIds) /\ Len(tasks) = Cardinality(Queued)
  /\ nextId \in 0 .. MaxTasks
  /\ status \in [TaskIds -> Statuses]
  /\ threadPc \in [TaskIds -> ThreadPcs]
  /\ runlock \subseteq TaskIds /\ killed \subseteq TaskIds
  /\ inbox \in Seq([task : TaskIds, new : Statuses])
  /\ crash \in {"no", "lock_error", "dangling"}
  /\ ended \subseteq TaskIds /\ aborted \subseteq TaskIds
  /\ rescheduleTimer \in TimerIds \cup {NoTimer}
  /\ pending \subseteq TimerIds /\ fired \in 0 .. MaxFired
  /\ monitorTimer \in BOOLEAN /\ monitor \in {"off", "armed", "fired"}
  /\ father \in BOOLEAN /\ inChange \in BOOLEAN /\ dirty \in BOOLEAN
  /\ lastInfo \subseteq Seq(TaskIds)
  /\ aborts \in 0 .. MaxAborts /\ failures \in 0 .. MaxFailures /\ changes \in 0 .. MaxChanges

\* The node runs one process at a time, that of the first task, whatever the
\* threads do between a change of state and the handling of its message; but
\* for DP, which may put another task before one that was run.
OneProcess ==
  policy # "DP" =>
    \A t \in TaskIds :
      threadPc[t] \in {"forked", "waiting"} => tasks # <<>> /\ tasks[1] = t

\* When the father is not changing, it was told of the queue as it is: nothing
\* delayed by a change is forgotten.
FatherKnowsQueue == Alive /\ father /\ ~inChange => lastInfo = {tasks}

\* As long as there are tasks, their owners will get a reminder: the timer runs
\* or its message is in the queue.
OwnersAreReminded == Alive /\ tasks # <<>> => monitorTimer /\ monitor # "off"

\* A task leaves the queue when its end is reported, and its owner gets no
\* reminder nor report of it from then on.
EndIsFinal == [][ended \subseteq ended' /\ \A t \in ended' : t \notin Queued']_vars

\* Every accepted task is reported at last: no task waits for a turn that
\* nobody gives it.  But a task whose thread could not be created stays in the
\* queue, and a client that aborts a task gets no report of it.
EveryTaskEnds == <>[](1 .. nextId \subseteq ended \cup aborted \/ failures > 0 \/ ~Alive)

=============================================================================
