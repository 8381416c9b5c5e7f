-------------------------- MODULE Scheduler_proofs --------------------------
(***************************************************************************)
(* Proofs about Scheduler, for every set of policies, deadlines and number *)
(* of tasks, timers and events: type correctness, that owners are          *)
(* reminded, that the father knows the queue, that the end of a task is    *)
(* final, and that the node runs one process at a time.                    *)
(***************************************************************************)
EXTENDS Scheduler, FiniteSetTheorems, SequenceTheorems, TLAPS

-----------------------------------------------------------------------------
(* Lemmas about the operators.                                             *)

LEMMA SetsOfTasks ==
  ASSUME NEW S \in SUBSET TaskIds
  PROVE  /\ IsFiniteSet(S) /\ Cardinality(S) \in Nat
         /\ Cardinality(S) = 0 <=> S = {}
<1>1. IsFiniteSet(TaskIds)
  BY SchedulerConstants, FS_Interval DEF TaskIds, SchedulerConstants
<1>2. IsFiniteSet(S)
  BY <1>1, FS_Subset
<1> QED BY <1>2, FS_CardinalityType, FS_EmptySet

LEMMA TasksAreNaturals == TaskIds \subseteq Nat /\ MaxTasks \in Nat
BY SchedulerConstants DEF SchedulerConstants, TaskIds

LEMMA ElementsOfRange ==
  ASSUME NEW s \in Seq(TaskIds)
  PROVE  /\ Range(s) \subseteq TaskIds
         /\ DOMAIN s = 1 .. Len(s) /\ Len(s) \in Nat
         /\ \A i \in 1 .. Len(s) : s[i] \in Range(s)
         /\ s = <<>> <=> Range(s) = {}
BY LenProperties, ElementOfSeq, EmptySeq DEF Range

\* An order of S is a sequence of its elements, each once.
LEMMA OrdersOf ==
  ASSUME NEW S \in SUBSET TaskIds, NEW s \in Orders(S)
  PROVE  /\ s \in Seq(TaskIds) /\ Range(s) = S /\ Len(s) = Cardinality(S)
         /\ s = <<>> <=> S = {}
<1>1. Cardinality(S) \in Nat /\ (Cardinality(S) = 0 <=> S = {})
  BY SetsOfTasks
<1>2. s \in [1 .. Cardinality(S) -> S] /\ Range(s) = S
  BY DEF Orders
<1>3. s \in Seq(S)
  BY <1>1, <1>2, SeqDef
<1>4. s \in Seq(TaskIds)
  BY <1>3, SeqMonotonic
<1>5. Len(s) = Cardinality(S)
  BY <1>1, <1>2, <1>3, LenProperties
<1> QED BY <1>2, <1>4, <1>5, ElementsOfRange

\* All policies keep the tasks of the queue.
LEMMA SchedulesOf ==
  ASSUME policy \in Policies, NEW S, NEW first, NEW s \in Schedules(S, first)
  PROVE  s \in Orders(S)
<1>1. policy \in {"FSP", "MMP", "DP", "IBP"}
  BY SchedulerConstants DEF SchedulerConstants
<1>2. CASE policy = "FSP"
  BY <1>2 DEF Schedules, FSPSchedules
<1>3. CASE policy = "DP"
  BY <1>3 DEF Schedules, DPSchedules
<1>4. CASE policy \in {"MMP", "IBP"}
  BY <1>4 DEF Schedules, MMPSchedules
<1> QED BY <1>1, <1>2, <1>3, <1>4

LEMMA FirstOfQueue ==
  ASSUME tasks \in Seq(TaskIds), tasks # <<>>, NEW S, tasks[1] \in S
  PROVE  FirstOf(S) = tasks[1]
<1> DEFINE IsFirst(j) == tasks[j] \in S /\ \A k \in 1 .. j - 1 : tasks[k] \notin S
<1>1. DOMAIN tasks = 1 .. Len(tasks) /\ Len(tasks) \in Nat /\ 1 \in DOMAIN tasks
  BY ElementsOfRange, EmptySeq
<1>2. IsFirst(1)
  OBVIOUS
<1>3. ASSUME NEW j \in DOMAIN tasks, IsFirst(j) PROVE j = 1
  BY <1>1, <1>3
<1>4. (CHOOSE j \in DOMAIN tasks : IsFirst(j)) = 1
  <2> HIDE DEF IsFirst
  <2> QED BY <1>1, <1>2, <1>3
<1> QED BY <1>4 DEF FirstOf

-----------------------------------------------------------------------------
(* Types.                                                                  *)

\* What a change of context does to the queue, the timers and the run lock.
LEMMA SwitchContextType ==
  ASSUME TypeOK, NEW S \in SUBSET TaskIds, NEW first, NEW held \in SUBSET TaskIds,
         NEW current \in TimerIds \cup {NoTimer},
         SwitchContext(S, first, held, current)
  PROVE  /\ tasks' \in Seq(TaskIds) /\ Queued' = S /\ Len(tasks') = Cardinality(Queued')
         /\ tasks' = <<>> <=> S = {}
         /\ rescheduleTimer' \in TimerIds \cup {NoTimer} /\ pending' \subseteq TimerIds
         /\ runlock' \subseteq held
         /\ crash' \in {"no", "lock_error", "dangling"}
<1>1. tasks' \in Orders(S)
  BY SchedulesOf DEF SwitchContext, TypeOK
<1>2. /\ tasks' \in Seq(TaskIds) /\ Queued' = S /\ Len(tasks') = Cardinality(Queued')
      /\ tasks' = <<>> <=> S = {}
  BY <1>1, OrdersOf DEF Queued
<1>3. rescheduleTimer' \in TimerIds \cup {NoTimer} /\ pending' \subseteq TimerIds
  BY DEF SwitchContext, Reschedule, RescheduleAt, TypeOK
<1>4. runlock' \subseteq held /\ crash' \in {"no", "lock_error", "dangling"}
  BY DEF SwitchContext, RunFirst, TypeOK
<1> QED BY <1>2, <1>3, <1>4

\* What the father is told is a queue.
LEMMA NotifyType ==
  ASSUME TypeOK, tasks' \in Seq(TaskIds), NotifySchedule \/ UNCHANGED <<lastInfo, dirty>>
  PROVE  lastInfo' \subseteq Seq(TaskIds) /\ dirty' \in BOOLEAN
BY DEF TypeOK, NotifySchedule

LEMMA TypeInit == Init => TypeOK
<1> SUFFICES ASSUME Init PROVE TypeOK
  OBVIOUS
<1>1. tasks \in Seq(TaskIds) /\ Len(tasks) = 0
  BY EmptySeq DEF Init
<1>2. Queued = {} /\ Cardinality(Queued) = 0
  BY <1>1, ElementsOfRange, FS_EmptySet DEF Init, Queued
<1>3. inbox \in Seq([task : TaskIds, new : Statuses])
  BY DEF Init
<1>4. lastInfo \subseteq Seq(TaskIds) /\ dirty \in BOOLEAN
  BY <1>1 DEF Init
<1>5. /\ status \in [TaskIds -> Statuses] /\ threadPc \in [TaskIds -> ThreadPcs]
  BY DEF Init, Statuses, ThreadPcs
<1>6. /\ nextId \in 0 .. MaxTasks /\ fired \in 0 .. MaxFired /\ aborts \in 0 .. MaxAborts
      /\ failures \in 0 .. MaxFailures /\ changes \in 0 .. MaxChanges
  BY SchedulerConstants DEF Init, SchedulerConstants
<1> QED
  BY <1>1, <1>2, <1>3, <1>4, <1>5, <1>6 DEF Init, TypeOK, NoTimer

\* The steps of a thread keep the types.
LEMMA ThreadType ==
  ASSUME TypeOK, NEW t \in TaskIds, Thread(t)
  PROVE  TypeOK'
<1>1. UNCHANGED Queued
  BY DEF Thread, ThreadStep, Prepare, Fork, Running, Finish, Abort, Queued
<1>2. threadPc' \in [TaskIds -> ThreadPcs]
  BY DEF Thread, ThreadStep, Prepare, Fork, Running, Finish, Abort, TypeOK, ThreadPcs
<1>3. /\ status' \in [TaskIds -> Statuses]
      /\ inbox' \in Seq([task : TaskIds, new : Statuses])
  <2>1. ASSUME NEW new \in Statuses, ChangeState(t, new)
        PROVE  /\ status' \in [TaskIds -> Statuses]
               /\ inbox' \in Seq([task : TaskIds, new : Statuses])
    <3>1. TaskStateChgMsg(t, new) \in [task : TaskIds, new : Statuses]
      BY DEF TaskStateChgMsg
    <3> QED BY <2>1, <3>1, AppendProperties DEF ChangeState, TypeOK
  <2>2. CASE Fork(t)
    BY <2>2 DEF Fork, TypeOK
  <2>3. CASE ~ Fork(t)
    <3>1. \E new \in Statuses : ChangeState(t, new)
      BY <2>3 DEF Thread, Prepare, Running, Finish, Abort, Statuses
    <3> QED BY <2>1, <3>1
  <2> QED BY <2>2, <2>3
<1> QED
  BY <1>1, <1>2, <1>3 DEF Thread, ThreadStep, Prepare, Fork, Running, Finish, Abort, TypeOK,
     timerVars, monVars, fatherVars, boundVars, histVars

LEMMA TypeStep == TypeOK /\ [Next]_vars => TypeOK'
<1> SUFFICES ASSUME TypeOK, [Next]_vars PROVE TypeOK'
  OBVIOUS
<1>q. Queued \subseteq TaskIds
  BY ElementsOfRange DEF TypeOK, Queued
<1>t. rescheduleTimer \in TimerIds \cup {NoTimer} /\ runlock \in SUBSET TaskIds
  BY DEF TypeOK
<1>m. inbox # <<>> => /\ Head(inbox) \in [task : TaskIds, new : Statuses]
                      /\ Tail(inbox) \in Seq([task : TaskIds, new : Statuses])
  BY HeadTailProperties DEF TypeOK
<1>1. ASSUME NEW n \in TaskIds, NEW k \in TaskIds, NEW F \in SUBSET TaskIds,
             HandleTaskBag(n, k, F)
      PROVE  TypeOK'
  <2> DEFINE new   == nextId + 1 .. nextId + k
             first == IF tasks = <<>> THEN nextId + 1 ELSE tasks[1]
  <2>c. /\ nextId + k <= MaxTasks
        /\ failures + Cardinality(F) <= MaxFailures /\ failures' = failures + Cardinality(F)
    BY <1>1 DEF HandleTaskBag
  <2>1. new \subseteq TaskIds /\ nextId + k \in 0 .. MaxTasks
    <3>1. nextId \in Nat /\ k \in Nat /\ MaxTasks \in Nat
      BY SchedulerConstants DEF SchedulerConstants, TypeOK, TaskIds
    <3> QED BY <2>c, <3>1 DEF TaskIds
  <2>2. SwitchContext(Queued \cup new, first, runlock \cup new, rescheduleTimer)
    BY <1>1 DEF HandleTaskBag
  <2>3. /\ tasks' \in Seq(TaskIds) /\ Len(tasks') = Cardinality(Queued')
        /\ rescheduleTimer' \in TimerIds \cup {NoTimer} /\ pending' \subseteq TimerIds
        /\ runlock' \subseteq TaskIds
        /\ crash' \in {"no", "lock_error", "dangling"}
    <3> DEFINE S    == Queued \cup new
               held == runlock \cup new
    <3>1. S \in SUBSET TaskIds /\ held \in SUBSET TaskIds
      BY <1>q, <1>t, <2>1
    <3>2. SwitchContext(S, first, held, rescheduleTimer)
      BY <2>2
    <3> HIDE DEF new, first, S, held
    <3>3. runlock' \subseteq held
      BY <1>t, <3>1, <3>2, SwitchContextType
    <3> QED BY <1>t, <3>1, <3>2, <3>3, SwitchContextType
  <2>4. lastInfo' \subseteq Seq(TaskIds) /\ dirty' \in BOOLEAN
    BY <1>1, <2>3, NotifyType DEF HandleTaskBag
  <2>5. /\ status' \in [TaskIds -> Statuses] /\ threadPc' \in [TaskIds -> ThreadPcs]
    BY <1>1 DEF HandleTaskBag, TypeOK, Statuses, ThreadPcs
  <2>6. failures' \in 0 .. MaxFailures
    <3>1. Cardinality(F) \in Nat /\ failures \in Nat /\ MaxFailures \in Nat
      BY SetsOfTasks, SchedulerConstants DEF TypeOK, SchedulerConstants
    <3> QED BY <2>c, <3>1
  <2>7. monitorTimer' \in BOOLEAN /\ monitor' \in {"off", "armed", "fired"}
    BY <1>1 DEF HandleTaskBag, TypeOK, monVars
  <2> QED
    BY <1>1, <2>1, <2>3, <2>4, <2>5, <2>6, <2>7 DEF HandleTaskBag, TypeOK, histVars
<1>2. CASE HandleTaskStateChg
  <2> DEFINE t    == Head(inbox).task
             over == Head(inbox).new \in {"Finished", "Aborted"} /\ t \in Queued
             S    == IF over THEN RemovedFromQueue(t) ELSE Queued
  <2>1. S \subseteq TaskIds /\ t \in TaskIds
    BY <1>2, <1>m, <1>q DEF HandleTaskStateChg, RemovedFromQueue
  <2>2. SwitchContext(S, FirstOf(S), runlock, rescheduleTimer)
    BY <1>2 DEF HandleTaskStateChg
  <2>3. /\ tasks' \in Seq(TaskIds) /\ Len(tasks') = Cardinality(Queued')
        /\ rescheduleTimer' \in TimerIds \cup {NoTimer} /\ pending' \subseteq TimerIds
        /\ runlock' \subseteq TaskIds
        /\ crash' \in {"no", "lock_error", "dangling"}
    <3> HIDE DEF S
    <3> QED BY <1>t, <2>1, <2>2, SwitchContextType
  <2>4. lastInfo' \subseteq Seq(TaskIds) /\ dirty' \in BOOLEAN
    BY <1>2, <2>3, NotifyType DEF HandleTaskStateChg
  <2>5. ended' \subseteq TaskIds
    BY <1>2, <2>1 DEF HandleTaskStateChg, TypeOK
  <2>6. inbox' \in Seq([task : TaskIds, new : Statuses])
    BY <1>2, <1>m DEF HandleTaskStateChg
  <2> QED
    BY <1>2, <2>3, <2>4, <2>5, <2>6 DEF HandleTaskStateChg, TypeOK, monVars, boundVars
<1>3. CASE HandleRescheduleTimer
  <2>1. SwitchContext(Queued, FirstOf(Queued), runlock, NoTimer)
    BY <1>3 DEF HandleRescheduleTimer
  <2>2. /\ tasks' \in Seq(TaskIds) /\ Len(tasks') = Cardinality(Queued')
        /\ rescheduleTimer' \in TimerIds \cup {NoTimer} /\ pending' \subseteq TimerIds
        /\ runlock' \subseteq TaskIds
        /\ crash' \in {"no", "lock_error", "dangling"}
    BY <1>q, <1>t, <2>1, SwitchContextType
  <2>3. lastInfo' \subseteq Seq(TaskIds) /\ dirty' \in BOOLEAN
    BY <1>3, <2>2, NotifyType DEF HandleRescheduleTimer
  <2>4. fired' \in 0 .. MaxFired
    BY <1>3, SchedulerConstants DEF HandleRescheduleTimer, TypeOK, SchedulerConstants
  <2> QED
    BY <1>3, <2>2, <2>3, <2>4 DEF HandleRescheduleTimer, TypeOK, monVars, boundVars, histVars
<1>4. ASSUME NEW A \in SUBSET TaskIds, HandleAbortTask(A)
      PROVE  TypeOK'
  <2> DEFINE S == IF policy = "FSP" THEN Queued ELSE Queued \ A
  <2>1. killed' \subseteq TaskIds /\ aborted' \subseteq TaskIds /\ aborts' \in 0 .. MaxAborts
    BY <1>4, SchedulerConstants DEF HandleAbortTask, TypeOK, SchedulerConstants
  <2>2. CASE policy # "FSP" /\ \E t \in A : threadPc[t] # "end"
    <3>1. Queued' = Queued /\ UNCHANGED <<tasks, runlock, rescheduleTimer, pending, lastInfo, dirty>>
                           /\ crash' = "dangling"
      BY <1>4, <2>2 DEF HandleAbortTask, Queued
    <3> QED BY <1>4, <2>1, <3>1 DEF HandleAbortTask, TypeOK, monVars
  <2>3. CASE ~ (policy # "FSP" /\ \E t \in A : threadPc[t] # "end")
    <3>1. SwitchContext(S, FirstOf(S), runlock, rescheduleTimer)
      BY <1>4, <2>3 DEF HandleAbortTask
    <3>2. S \subseteq TaskIds
      BY <1>q
    <3>3. /\ tasks' \in Seq(TaskIds) /\ Len(tasks') = Cardinality(Queued')
          /\ rescheduleTimer' \in TimerIds \cup {NoTimer} /\ pending' \subseteq TimerIds
          /\ runlock' \subseteq TaskIds
          /\ crash' \in {"no", "lock_error", "dangling"}
      <4> HIDE DEF S
      <4> QED BY <1>t, <3>1, <3>2, SwitchContextType
    <3>4. lastInfo' \subseteq Seq(TaskIds) /\ dirty' \in BOOLEAN
      BY <1>4, <2>3, <3>3, NotifyType DEF HandleAbortTask
    <3> QED BY <1>4, <2>1, <3>3, <3>4 DEF HandleAbortTask, TypeOK, monVars
  <2> QED BY <2>2, <2>3
<1>5. CASE HandleMonitorTimer
  BY <1>5 DEF HandleMonitorTimer, Rearm, TypeOK, Queued, taskVars, histVars, timerVars, fatherVars,
     boundVars
<1>6. CASE FatherChanging
  BY <1>6, SchedulerConstants DEF FatherChanging, TypeOK, Queued, taskVars, histVars, timerVars,
     monVars, SchedulerConstants
<1>7. ASSUME NEW changed \in BOOLEAN, FatherChanged(changed)
      PROVE  TypeOK'
  <2>1. lastInfo' \subseteq Seq(TaskIds) /\ dirty' \in BOOLEAN /\ father' \in BOOLEAN
    BY <1>7 DEF FatherChanged, TypeOK
  <2> QED
    BY <1>7, <2>1 DEF FatherChanged, TypeOK, Queued, taskVars, histVars, timerVars, monVars, boundVars
<1>8. ASSUME NEW t \in TaskIds, Thread(t)
      PROVE  TypeOK'
  BY <1>8, ThreadType
<1>9. ASSUME NEW id \in TimerIds, ExpireReschedule(id)
      PROVE  TypeOK'
  BY <1>9, SchedulerConstants DEF ExpireReschedule, TypeOK, Queued, taskVars, histVars, monVars,
     fatherVars, boundVars, SchedulerConstants
<1>10. CASE ExpireMonitor
  BY <1>10 DEF ExpireMonitor, TypeOK, Queued, taskVars, histVars, timerVars, fatherVars, boundVars
<1>11. CASE UNCHANGED vars
  BY <1>11 DEF vars, TypeOK, Queued, taskVars, histVars, timerVars, monVars, fatherVars, boundVars
<1> QED
  BY <1>1, <1>2, <1>3, <1>4, <1>5, <1>6, <1>7, <1>8, <1>9, <1>10, <1>11 DEF Next, Thread

\* The state of the scheduler, its threads and its timers keeps its type, and
\* a task is never in the queue twice.
THEOREM TypeCorrect == Spec => []TypeOK
<1> QED BY TypeInit, TypeStep, PTL DEF Spec

-----------------------------------------------------------------------------
(* Owners are reminded, and the father knows the queue.                    *)

\* monitorTimer says whether there is a timer or its message is in the queue.
MonitorInv ==
  /\ monitorTimer <=> monitor # "off"
  /\ Alive /\ tasks # <<>> => monitorTimer

\* A change of the queue that the father does not know is noted in dirty, but in
\* a change only when it is going on.
FatherInv ==
  /\ FatherKnowsQueue
  /\ Alive /\ father /\ ~dirty => lastInfo = {tasks}

TellInv == MonitorInv /\ FatherInv

\* The queue that a change of context leaves is empty only if S is.
LEMMA SwitchContextEmpty ==
  ASSUME TypeOK, NEW S \in SUBSET Queued, NEW first,
         NEW current \in TimerIds \cup {NoTimer},
         SwitchContext(S, first, runlock, current)
  PROVE  tasks' # <<>> => tasks # <<>>
<1>1. Queued \subseteq TaskIds /\ (Queued = {} <=> tasks = <<>>)
  BY ElementsOfRange DEF TypeOK, Queued
<1>2. S \in SUBSET TaskIds /\ runlock \in SUBSET TaskIds
  BY <1>1 DEF TypeOK
<1>3. tasks' = <<>> <=> S = {}
  BY <1>2, SwitchContextType
<1> QED BY <1>1, <1>3

\* Whatever has changed the queue, the father is told of it or dirty notes it.
LEMMA NotifyKeepsFatherInv ==
  ASSUME TypeOK, FatherInv, UNCHANGED <<father, inChange>>, crash' = "no" => Alive,
         IF crash' = "no" THEN NotifySchedule ELSE UNCHANGED <<lastInfo, dirty>>
  PROVE  FatherInv'
<1>1. CASE crash' # "no"
  BY <1>1 DEF FatherInv, FatherKnowsQueue, Alive
<1>2. CASE crash' = "no"
  <2>1. NotifySchedule /\ father' = father /\ inChange' = inChange
    BY <1>2
  <2>2. CASE ~inChange /\ father
    BY <2>1, <2>2 DEF NotifySchedule, FatherInv, FatherKnowsQueue
  <2>3. CASE ~ (~inChange /\ father)
    <3>1. dirty' = TRUE /\ ~ (~inChange' /\ father')
      BY <2>1, <2>3 DEF NotifySchedule, TypeOK
    <3> QED BY <3>1 DEF FatherInv, FatherKnowsQueue
  <2> QED BY <2>2, <2>3
<1> QED BY <1>1, <1>2

LEMMA TellStep == TypeOK /\ TellInv /\ [Next]_vars => TellInv'
<1> SUFFICES ASSUME TypeOK, TellInv, [Next]_vars PROVE TellInv'
  OBVIOUS
<1>q. Queued \subseteq TaskIds /\ rescheduleTimer \in TimerIds \cup {NoTimer}
  BY ElementsOfRange DEF TypeOK, Queued
<1>b. MonitorInv /\ FatherInv
  BY DEF TellInv
<1>1. ASSUME NEW n \in TaskIds, NEW k \in TaskIds, NEW F \in SUBSET TaskIds,
             HandleTaskBag(n, k, F)
      PROVE  TellInv'
  <2>1. /\ Alive /\ UNCHANGED <<father, inChange>>
        /\ IF crash' = "no"
           THEN /\ NotifySchedule
                /\ monitorTimer' = TRUE
                /\ monitor' = IF monitorTimer THEN monitor ELSE "armed"
           ELSE UNCHANGED <<lastInfo, dirty, monVars>>
    BY <1>1 DEF HandleTaskBag
  <2>2. FatherInv'
    BY <1>b, <2>1, NotifyKeepsFatherInv DEF monVars
  <2>3. MonitorInv'
    BY <1>b, <2>1 DEF MonitorInv, Alive, monVars, TypeOK
  <2> QED BY <2>2, <2>3 DEF TellInv
<1>2. ASSUME HandleTaskStateChg
      PROVE  TellInv'
  <2> DEFINE t    == Head(inbox).task
             over == Head(inbox).new \in {"Finished", "Aborted"} /\ t \in Queued
             S    == IF over THEN RemovedFromQueue(t) ELSE Queued
  <2>1. /\ Alive /\ UNCHANGED <<father, inChange, monVars>>
        /\ IF crash' = "no" THEN NotifySchedule ELSE UNCHANGED <<lastInfo, dirty>>
        /\ SwitchContext(S, FirstOf(S), runlock, rescheduleTimer)
    BY <1>2 DEF HandleTaskStateChg
  <2>2. S \in SUBSET Queued
    BY DEF RemovedFromQueue
  <2>3. tasks' # <<>> => tasks # <<>>
    <3> HIDE DEF S
    <3> QED BY <1>q, <2>1, <2>2, SwitchContextEmpty
  <2>4. FatherInv'
    BY <1>b, <2>1, NotifyKeepsFatherInv
  <2>5. MonitorInv'
    BY <1>b, <2>1, <2>3 DEF MonitorInv, Alive, monVars
  <2> QED BY <2>4, <2>5 DEF TellInv
<1>3. ASSUME HandleRescheduleTimer
      PROVE  TellInv'
  <2>1. /\ Alive /\ UNCHANGED <<father, inChange, monVars>>
        /\ IF crash' = "no" THEN NotifySchedule ELSE UNCHANGED <<lastInfo, dirty>>
        /\ SwitchContext(Queued, FirstOf(Queued), runlock, NoTimer)
    BY <1>3 DEF HandleRescheduleTimer
  <2>2. tasks' # <<>> => tasks # <<>>
    BY <2>1, SwitchContextEmpty
  <2>3. FatherInv'
    BY <1>b, <2>1, NotifyKeepsFatherInv
  <2>4. MonitorInv'
    BY <1>b, <2>1, <2>2 DEF MonitorInv, Alive, monVars
  <2> QED BY <2>3, <2>4 DEF TellInv
<1>4. ASSUME NEW A \in SUBSET TaskIds, HandleAbortTask(A)
      PROVE  TellInv'
  <2> DEFINE S == IF policy = "FSP" THEN Queued ELSE Queued \ A
  <2>1. Alive /\ UNCHANGED <<father, inChange, monVars>>
    BY <1>4 DEF HandleAbortTask
  <2>2. CASE policy # "FSP" /\ \E t \in A : threadPc[t] # "end"
    <3>1. crash' = "dangling" /\ UNCHANGED <<lastInfo, dirty>>
      BY <1>4, <2>2 DEF HandleAbortTask
    <3>2. FatherInv'
      BY <1>b, <2>1, <3>1, NotifyKeepsFatherInv
    <3> QED BY <1>b, <2>1, <3>1, <3>2 DEF TellInv, MonitorInv, Alive, monVars
  <2>3. CASE ~ (policy # "FSP" /\ \E t \in A : threadPc[t] # "end")
    <3>1. /\ IF crash' = "no" THEN NotifySchedule ELSE UNCHANGED <<lastInfo, dirty>>
          /\ SwitchContext(S, FirstOf(S), runlock, rescheduleTimer)
      BY <1>4, <2>3 DEF HandleAbortTask
    <3>2. S \in SUBSET Queued
      OBVIOUS
    <3>3. tasks' # <<>> => tasks # <<>>
      <4> HIDE DEF S
      <4> QED BY <1>q, <3>1, <3>2, SwitchContextEmpty
    <3>4. FatherInv'
      BY <1>b, <2>1, <3>1, NotifyKeepsFatherInv
    <3>5. MonitorInv'
      BY <1>b, <2>1, <3>3 DEF MonitorInv, Alive, monVars
    <3> QED BY <3>4, <3>5 DEF TellInv
  <2> QED BY <2>2, <2>3
<1>5. ASSUME HandleMonitorTimer
      PROVE  TellInv'
  <2>1. MonitorInv'
    BY <1>5 DEF HandleMonitorTimer, Rearm, MonitorInv
  <2>2. FatherInv'
    BY <1>5, <1>b DEF HandleMonitorTimer, FatherInv, FatherKnowsQueue, Alive, fatherVars
  <2> QED BY <2>1, <2>2 DEF TellInv
<1>6. ASSUME FatherChanging
      PROVE  TellInv'
  <2>1. MonitorInv'
    BY <1>6, <1>b DEF FatherChanging, MonitorInv, Alive, monVars
  <2>2. FatherInv'
    BY <1>6, <1>b DEF FatherChanging, FatherInv, FatherKnowsQueue, Alive
  <2> QED BY <2>1, <2>2 DEF TellInv
<1>7. ASSUME NEW changed \in BOOLEAN, FatherChanged(changed)
      PROVE  TellInv'
  <2>1. MonitorInv'
    BY <1>7, <1>b DEF FatherChanged, MonitorInv, Alive, monVars
  <2>2. /\ Alive /\ UNCHANGED <<tasks, crash>> /\ father' = (father \/ changed)
        /\ IF father' /\ (changed \/ dirty)
           THEN lastInfo' = {tasks} /\ dirty' = FALSE
           ELSE UNCHANGED <<lastInfo, dirty>>
    BY <1>7 DEF FatherChanged
  <2>3. father \in BOOLEAN /\ dirty \in BOOLEAN
    BY DEF TypeOK
  <2>4. CASE father' /\ (changed \/ dirty)
    BY <2>1, <2>2, <2>4 DEF TellInv, FatherInv, FatherKnowsQueue
  <2>5. CASE ~ (father' /\ (changed \/ dirty))
    <3>1. UNCHANGED <<lastInfo, dirty>>
      BY <2>2, <2>5
    <3>2. father' => father /\ ~dirty
      BY <2>2, <2>3, <2>5
    <3> QED BY <1>b, <2>1, <2>2, <3>1, <3>2 DEF TellInv, FatherInv, FatherKnowsQueue
  <2> QED BY <2>1, <2>4, <2>5 DEF TellInv
<1>8. ASSUME NEW t \in TaskIds, Thread(t)
      PROVE  TellInv'
  <2>1. UNCHANGED <<tasks, crash, monVars, fatherVars>>
    BY <1>8 DEF Thread, ThreadStep, Prepare, Fork, Running, Finish, Abort
  <2> QED BY <1>b, <2>1 DEF TellInv, MonitorInv, FatherInv, FatherKnowsQueue, Alive, monVars,
             fatherVars
<1>9. ASSUME NEW id \in TimerIds, ExpireReschedule(id)
      PROVE  TellInv'
  BY <1>9, <1>b DEF ExpireReschedule, TellInv, MonitorInv, FatherInv, FatherKnowsQueue, Alive,
     monVars, fatherVars
<1>10. ASSUME ExpireMonitor
       PROVE  TellInv'
  BY <1>10, <1>b DEF ExpireMonitor, TellInv, MonitorInv, FatherInv, FatherKnowsQueue, Alive,
     fatherVars
<1>11. CASE UNCHANGED vars
  BY <1>11, <1>b DEF vars, TellInv, MonitorInv, FatherInv, FatherKnowsQueue, Alive, monVars, fatherVars
<1> QED
  BY <1>1, <1>2, <1>3, <1>4, <1>5, <1>6, <1>7, <1>8, <1>9, <1>10, <1>11 DEF Next, Thread

LEMMA TellAlways == Spec => []TellInv
<1>1. Init => TellInv
  <2> SUFFICES ASSUME Init PROVE TellInv
    OBVIOUS
  <2>1. MonitorInv
    BY DEF Init, MonitorInv
  <2>2. father = TRUE => lastInfo = {tasks}
    BY DEF Init
  <2> QED BY <2>1, <2>2 DEF Init, TellInv, FatherInv, FatherKnowsQueue
<1> QED BY <1>1, TypeCorrect, TellStep, PTL DEF Spec

\* As long as there are tasks their owners will get a reminder, so that they do
\* not give this node up.
THEOREM OwnersAlwaysReminded == Spec => []OwnersAreReminded
<1>1. TellInv => OwnersAreReminded
  BY DEF TellInv, MonitorInv, OwnersAreReminded
<1> QED BY <1>1, TellAlways, PTL

\* Outside a change of the father, it was told of the queue as it is.
THEOREM FatherAlwaysKnows == Spec => []FatherKnowsQueue
<1>1. TellInv => FatherKnowsQueue
  BY DEF TellInv, FatherInv
<1> QED BY <1>1, TellAlways, PTL

-----------------------------------------------------------------------------
(* The end of a task is final.                                             *)

\* Tasks are numbered, and those that ended are not in the queue.
EndInv ==
  /\ Queued \cup ended \subseteq 1 .. nextId
  /\ \A t \in ended : t \notin Queued

\* A task that ended does not come back: not from a reordering, which keeps the
\* tasks, nor with a new bag, whose tasks have new numbers.
LEMMA EndStep ==
  TypeOK /\ EndInv /\ [Next]_vars => EndInv' /\ ended \subseteq ended'
<1> SUFFICES ASSUME TypeOK, EndInv, [Next]_vars PROVE EndInv' /\ ended \subseteq ended'
  OBVIOUS
<1>q. /\ Queued \in SUBSET TaskIds /\ runlock \in SUBSET TaskIds /\ nextId \in Nat
      /\ rescheduleTimer \in TimerIds \cup {NoTimer}
  BY ElementsOfRange DEF TypeOK, Queued
<1>s. ASSUME UNCHANGED <<nextId, ended>>, Queued' \subseteq Queued
      PROVE  EndInv' /\ ended \subseteq ended'
  BY <1>s DEF EndInv
<1>1. ASSUME NEW n \in TaskIds, NEW k \in TaskIds, NEW F \in SUBSET TaskIds,
             HandleTaskBag(n, k, F)
      PROVE  EndInv' /\ ended \subseteq ended'
  <2> DEFINE new   == nextId + 1 .. nextId + k
             first == IF tasks = <<>> THEN nextId + 1 ELSE tasks[1]
             S     == Queued \cup new
             held  == runlock \cup new
  <2>1. /\ SwitchContext(S, first, held, rescheduleTimer)
        /\ nextId + k <= MaxTasks /\ nextId' = nextId + k /\ ended' = ended
    BY <1>1 DEF HandleTaskBag, histVars
  <2>2. k \in Nat /\ k > 0 /\ MaxTasks \in Nat
    BY SchedulerConstants DEF TaskIds, SchedulerConstants
  <2>3. S \in SUBSET TaskIds /\ held \in SUBSET TaskIds
    BY <1>q, <2>1, <2>2 DEF TaskIds
  <2>4. Queued' = S
    <3> HIDE DEF new, first, S, held
    <3> QED BY <1>q, <2>1, <2>3, SwitchContextType
  <2> QED BY <1>q, <2>1, <2>2, <2>4 DEF EndInv
<1>2. ASSUME HandleTaskStateChg
      PROVE  EndInv' /\ ended \subseteq ended'
  <2> DEFINE t    == Head(inbox).task
             over == Head(inbox).new \in {"Finished", "Aborted"} /\ t \in Queued
             S    == IF over THEN RemovedFromQueue(t) ELSE Queued
  <2>1. /\ SwitchContext(S, FirstOf(S), runlock, rescheduleTimer)
        /\ ended' = IF over THEN ended \cup {t} ELSE ended
        /\ nextId' = nextId
    BY <1>2 DEF HandleTaskStateChg
  <2>2. S \in SUBSET TaskIds
    BY <1>q DEF RemovedFromQueue
  <2>3. Queued' = S
    <3> HIDE DEF S
    <3> QED BY <1>q, <2>1, <2>2, SwitchContextType
  <2>4. CASE over
    BY <2>1, <2>3, <2>4 DEF EndInv, RemovedFromQueue
  <2>5. CASE ~over
    BY <2>1, <2>3, <2>5, <1>s
  <2> QED BY <2>4, <2>5
<1>3. ASSUME HandleRescheduleTimer
      PROVE  EndInv' /\ ended \subseteq ended'
  <2>1. /\ SwitchContext(Queued, FirstOf(Queued), runlock, NoTimer)
        /\ UNCHANGED <<nextId, ended>>
    BY <1>3 DEF HandleRescheduleTimer, histVars
  <2>2. Queued' = Queued
    BY <1>q, <2>1, SwitchContextType
  <2> QED BY <1>s, <2>1, <2>2
<1>4. ASSUME NEW A \in SUBSET TaskIds, HandleAbortTask(A)
      PROVE  EndInv' /\ ended \subseteq ended'
  <2> DEFINE S == IF policy = "FSP" THEN Queued ELSE Queued \ A
  <2>1. UNCHANGED <<nextId, ended>>
    BY <1>4 DEF HandleAbortTask
  <2>2. CASE policy # "FSP" /\ \E t \in A : threadPc[t] # "end"
    BY <1>4, <1>s, <2>1, <2>2 DEF HandleAbortTask, Queued
  <2>3. CASE ~ (policy # "FSP" /\ \E t \in A : threadPc[t] # "end")
    <3>1. SwitchContext(S, FirstOf(S), runlock, rescheduleTimer)
      BY <1>4, <2>3 DEF HandleAbortTask
    <3>2. S \in SUBSET TaskIds /\ S \subseteq Queued
      BY <1>q
    <3>3. Queued' = S
      <4> HIDE DEF S
      <4> QED BY <1>q, <3>1, <3>2, SwitchContextType
    <3> QED BY <1>s, <2>1, <3>2, <3>3
  <2> QED BY <2>2, <2>3
<1>5. ASSUME \/ HandleMonitorTimer \/ FatherChanging \/ \E changed \in BOOLEAN : FatherChanged(changed)
             \/ \E t \in TaskIds : Thread(t)
             \/ \E id \in TimerIds : ExpireReschedule(id)
             \/ ExpireMonitor \/ UNCHANGED vars
      PROVE  EndInv' /\ ended \subseteq ended'
  <2>1. UNCHANGED <<nextId, ended, tasks>>
    BY <1>5 DEF HandleMonitorTimer, FatherChanging, FatherChanged, Thread, ThreadStep, Prepare, Fork,
       Running, Finish, Abort, ExpireReschedule, ExpireMonitor, vars, taskVars, histVars
  <2> QED BY <1>s, <2>1 DEF Queued
<1> QED
  BY <1>1, <1>2, <1>3, <1>4, <1>5 DEF Next, Thread

\* A task leaves the queue when its end is reported, and never comes back.
THEOREM EndAlwaysFinal == Spec => EndIsFinal
<1>1. Init => EndInv
  BY ElementsOfRange, EmptySeq DEF Init, EndInv, Queued
<1>2. TypeOK /\ EndInv /\ [Next]_vars => [ended \subseteq ended' /\ \A t \in ended' : t \notin Queued']_vars
  BY EndStep DEF EndInv
<1> QED BY <1>1, <1>2, TypeCorrect, EndStep, PTL DEF Spec, EndIsFinal

-----------------------------------------------------------------------------
(* The node runs one process at a time.                                    *)

Active == {"locking", "forked", "waiting"}
Over   == {"Finished", "Aborted"}

\* What a thread has done tells its status, whether it is locked out, and what
\* may be in the queue about it.
ThreadInv ==
  /\ \A t \in TaskIds : t > nextId => threadPc[t] = "none"
  /\ \A t \in TaskIds : threadPc[t] = "start" => status[t] = "Inactive" /\ t \in runlock
  /\ \A t \in TaskIds : threadPc[t] \in {"forked", "waiting"} => t \notin runlock
  /\ \A i \in 1 .. Len(inbox) : inbox[i].new \in Over => threadPc[inbox[i].task] = "end"

\* MMP and IBP run the oldest task.
OrderInv ==
  policy \in {"MMP", "IBP"} /\ tasks # <<>> => \A u \in Queued : tasks[1] <= u

\* A thread that is not locked out, and is not over, is that of the first task.
TurnInv ==
  policy # "DP" =>
    \A t \in TaskIds :
      threadPc[t] \in Active /\ t \notin runlock => tasks # <<>> /\ tasks[1] = t

\* The sorted sequences begin with the least element.
LEMMA SortedFirst ==
  ASSUME NEW S \in SUBSET TaskIds, NEW s \in MMPSchedules(S), S # {}
  PROVE  s # <<>> /\ s[1] \in S /\ \A u \in S : s[1] <= u
<1>1. s \in Orders(S) /\ \A i, j \in DOMAIN s : i < j => s[i] < s[j]
  BY DEF MMPSchedules
<1>2. s \in Seq(TaskIds) /\ Range(s) = S /\ s # <<>>
  BY <1>1, OrdersOf
<1>3. DOMAIN s = 1 .. Len(s) /\ Len(s) \in Nat /\ 1 \in DOMAIN s /\ s[1] \in S
  BY <1>2, ElementsOfRange, EmptySeq
<1>4. ASSUME NEW u \in S PROVE s[1] <= u
  <2>1. PICK i \in DOMAIN s : u = s[i]
    BY <1>2 DEF Range
  <2>2. s[1] \in Nat /\ u \in Nat
    BY <1>3, TasksAreNaturals
  <2> QED BY <1>1, <1>3, <2>1, <2>2
<1> QED BY <1>2, <1>3, <1>4

\* A change of context keeps the first task, if it stays and the others are not
\* older: no policy but DP takes its turn away.
LEMMA FirstStays ==
  ASSUME TypeOK, OrderInv, policy # "DP", tasks # <<>>,
         NEW S \in SUBSET TaskIds, tasks[1] \in S,
         \A u \in S \ Queued : tasks[1] <= u,
         NEW s \in Schedules(S, tasks[1])
  PROVE  s # <<>> /\ s[1] = tasks[1]
<1>1. policy \in {"FSP", "MMP", "IBP"}
  BY SchedulerConstants DEF TypeOK, SchedulerConstants
<1>2. CASE policy = "FSP"
  <2>1. s \in Orders(S) /\ (s # <<>> => s[1] = tasks[1])
    BY <1>2 DEF Schedules, FSPSchedules
  <2> QED BY <2>1, OrdersOf
<1>3. CASE policy \in {"MMP", "IBP"}
  <2>1. s \in MMPSchedules(S)
    BY <1>3 DEF Schedules
  <2>2. s # <<>> /\ s[1] \in S /\ \A u \in S : s[1] <= u
    BY <2>1, SortedFirst
  <2>3. \A u \in S : tasks[1] <= u
    BY <1>3 DEF OrderInv
  <2>4. s[1] <= tasks[1] /\ tasks[1] <= s[1] /\ s[1] \in Nat /\ tasks[1] \in Nat
    BY <2>2, <2>3, TasksAreNaturals
  <2> QED BY <2>2, <2>4
<1> QED BY <1>1, <1>2, <1>3

\* What a change of context keeps: the tasks of S are queued, the threads are as
\* they were or new, and those of held are locked out.
LEMMA SwitchContextKeeps ==
  ASSUME TypeOK, OrderInv, TurnInv, policy' = policy,
         NEW S \in SUBSET TaskIds, NEW held \in SUBSET TaskIds, NEW first,
         NEW current \in TimerIds \cup {NoTimer},
         SwitchContext(S, first, held, current),
         runlock \subseteq held,
         tasks # <<>> /\ tasks[1] \in S =>
           first = tasks[1] /\ \A u \in S \ Queued : tasks[1] <= u,
         tasks # <<>> /\ tasks[1] \notin S => threadPc[tasks[1]] = "end",
         \A t \in TaskIds : threadPc'[t] \in Active => threadPc[t] = threadPc'[t]
  PROVE  OrderInv' /\ TurnInv'
<1>1. tasks' \in Schedules(S, first)
  BY DEF SwitchContext
<1>2. tasks' \in Seq(TaskIds) /\ Queued' = S /\ (tasks' = <<>> <=> S = {})
  BY SwitchContextType
<1>3. OrderInv'
  <2>1. SUFFICES ASSUME policy \in {"MMP", "IBP"}, tasks' # <<>>
                 PROVE  \A u \in S : tasks'[1] <= u
    BY <1>2 DEF OrderInv
  <2>2. tasks' \in MMPSchedules(S) /\ S # {}
    BY <1>1, <1>2, <2>1 DEF Schedules
  <2> QED BY <2>2, SortedFirst
<1>4. TurnInv'
  <2>1. SUFFICES ASSUME policy # "DP", NEW t \in TaskIds, threadPc'[t] \in Active, t \notin runlock'
                 PROVE  tasks' # <<>> /\ tasks'[1] = t
    BY DEF TurnInv
  <2>2. CASE t \in held
    <3>1. tasks' # <<>> /\ t = Head(tasks')
      BY <2>1, <2>2 DEF SwitchContext, RunFirst
    <3> QED BY <3>1, <1>2
  <2>3. CASE t \notin held
    <3>1. threadPc[t] \in Active /\ t \notin runlock
      BY <2>1, <2>3
    <3>2. tasks # <<>> /\ tasks[1] = t
      BY <2>1, <3>1 DEF TurnInv
    <3>3. tasks[1] \in S
      BY <3>1, <3>2 DEF Active
    <3> QED BY <1>1, <2>1, <3>2, <3>3, FirstStays
  <2> QED BY <2>2, <2>3
<1> QED BY <1>3, <1>4

\* Only a task that is prepared is released.
LEMMA ReleasedIsPrepared ==
  ASSUME NEW S, NEW held, NEW first, NEW current,
         SwitchContext(S, first, held, current), NEW t \in held, status'[t] # "Prepared"
  PROVE  t \in runlock'
BY DEF SwitchContext, RunFirst

RunInv == ThreadInv /\ OrderInv /\ TurnInv

\* The handlers that may take tasks from the queue and leave the threads alone:
\* the first task goes only when its thread is over.
LEMMA SwitchContextOfQueue ==
  ASSUME TypeOK, RunInv, UNCHANGED <<policy, nextId, status, threadPc>>,
         inbox' = inbox \/ (inbox # <<>> /\ inbox' = Tail(inbox)),
         NEW S \in SUBSET Queued, NEW current \in TimerIds \cup {NoTimer},
         SwitchContext(S, FirstOf(S), runlock, current),
         tasks # <<>> /\ tasks[1] \notin S => threadPc[tasks[1]] = "end"
  PROVE  RunInv'
<1>1. S \in SUBSET TaskIds /\ runlock \in SUBSET TaskIds /\ tasks \in Seq(TaskIds)
  BY ElementsOfRange DEF TypeOK, Queued
<1>2. OrderInv' /\ TurnInv'
  <2>1. tasks # <<>> /\ tasks[1] \in S =>
          FirstOf(S) = tasks[1] /\ \A u \in S \ Queued : tasks[1] <= u
    BY <1>1, FirstOfQueue
  <2>2. \A t \in TaskIds : threadPc'[t] \in Active => threadPc[t] = threadPc'[t]
    OBVIOUS
  <2>3. policy' = policy /\ OrderInv /\ TurnInv /\ runlock \subseteq runlock
    BY DEF RunInv
  <2> DEFINE first == FirstOf(S)
  <2>4. SwitchContext(S, first, runlock, current)
    OBVIOUS
  <2>5. tasks # <<>> /\ tasks[1] \in S =>
          first = tasks[1] /\ \A u \in S \ Queued : tasks[1] <= u
    BY <2>1
  <2> HIDE DEF first
  <2> QED BY <1>1, <2>2, <2>3, <2>4, <2>5, SwitchContextKeeps
<1>3. ThreadInv'
  <2>1. runlock' \subseteq runlock
    BY <1>1, SwitchContextType
  <2>2. ASSUME NEW t \in TaskIds, threadPc[t] = "start"
        PROVE  status[t] = "Inactive" /\ t \in runlock'
    <3>1. status[t] = "Inactive" /\ t \in runlock
      BY <2>2 DEF RunInv, ThreadInv
    <3> QED BY <3>1, ReleasedIsPrepared
  <2>3. ASSUME NEW i \in 1 .. Len(inbox'), inbox'[i].new \in Over
        PROVE  threadPc[inbox'[i].task] = "end"
    <3>1. \E j \in 1 .. Len(inbox) : inbox'[i] = inbox[j]
      <4>1. CASE inbox' = inbox
        BY <4>1, <2>3
      <4>2. CASE inbox # <<>> /\ inbox' = Tail(inbox)
        <5>1. inbox' = Tail(inbox) /\ Len(Tail(inbox)) = Len(inbox) - 1 /\ Len(inbox) \in Nat
              /\ \A m \in 1 .. Len(Tail(inbox)) : Tail(inbox)[m] = inbox[m + 1]
          BY <4>2, HeadTailProperties, LenProperties DEF TypeOK
        <5>2. i + 1 \in 1 .. Len(inbox) /\ inbox'[i] = inbox[i + 1]
          BY <5>1, <2>3
        <5> QED BY <5>2
      <4> QED BY <4>1, <4>2
    <3> QED BY <2>3, <3>1 DEF RunInv, ThreadInv
  <2> QED BY <2>1, <2>2, <2>3 DEF RunInv, ThreadInv
<1> QED BY <1>2, <1>3 DEF RunInv

\* A new bag: its threads start locked out, and its tasks are the youngest.
LEMMA TaskBagRuns ==
  ASSUME TypeOK, EndInv, RunInv,
         NEW n \in TaskIds, NEW k \in TaskIds, NEW F \in SUBSET TaskIds, HandleTaskBag(n, k, F)
  PROVE  RunInv'
<1> DEFINE new   == nextId + 1 .. nextId + k
           first == IF tasks = <<>> THEN nextId + 1 ELSE tasks[1]
           S     == Queued \cup new
           held  == runlock \cup new
<1>1. /\ SwitchContext(S, first, held, rescheduleTimer)
      /\ nextId + k <= MaxTasks /\ F \subseteq new /\ nextId' = nextId + k
      /\ UNCHANGED <<inbox, policy>>
  BY DEF HandleTaskBag
<1>2. /\ status' = [t \in TaskIds |-> IF t \in F THEN "Aborted"
                                      ELSE IF t \in new THEN "Inactive" ELSE status[t]]
      /\ threadPc' = [t \in TaskIds |-> IF t \in F THEN "end"
                                        ELSE IF t \in new THEN "start" ELSE threadPc[t]]
  BY DEF HandleTaskBag
<1>3. /\ k \in Nat /\ nextId \in Nat /\ MaxTasks \in Nat /\ new \subseteq TaskIds
      /\ Queued \in SUBSET TaskIds /\ runlock \in SUBSET TaskIds
      /\ rescheduleTimer \in TimerIds \cup {NoTimer} /\ tasks \in Seq(TaskIds)
  BY <1>1, TasksAreNaturals, ElementsOfRange DEF TypeOK, Queued, TaskIds
<1>4. S \in SUBSET TaskIds /\ held \in SUBSET TaskIds /\ runlock \subseteq held
  BY <1>3
<1>5. OrderInv' /\ TurnInv'
  <2>1. tasks # <<>> =>
          first = tasks[1] /\ tasks[1] \in Queued /\ \A u \in S \ Queued : tasks[1] <= u
    <3>1. SUFFICES ASSUME tasks # <<>>
                   PROVE  tasks[1] \in Queued /\ \A u \in new : tasks[1] <= u
      OBVIOUS
    <3>2. tasks[1] \in Queued
      BY <1>3, <3>1, ElementsOfRange, EmptySeq DEF Queued
    <3>3. tasks[1] \in 1 .. nextId
      BY <3>2 DEF EndInv
    <3> QED BY <1>3, <3>2, <3>3
  <2>2. \A t \in TaskIds : threadPc'[t] \in Active => threadPc[t] = threadPc'[t]
    BY <1>2 DEF Active
  <2>3. policy' = policy /\ OrderInv /\ TurnInv
    BY <1>1 DEF RunInv
  <2>4. tasks # <<>> => tasks[1] \in S
    BY <2>1
  <2> HIDE DEF new, first, S, held
  <2> QED BY <1>1, <1>3, <1>4, <2>1, <2>2, <2>3, <2>4, SwitchContextKeeps
<1>6. ThreadInv'
  <2>1. ASSUME NEW t \in TaskIds, t > nextId'
        PROVE  threadPc'[t] = "none"
    <3>1. t \notin new /\ t \notin F /\ t > nextId
      BY <1>1, <1>3, <2>1, TasksAreNaturals
    <3> QED BY <1>2, <3>1 DEF RunInv, ThreadInv
  <2>2. ASSUME NEW t \in TaskIds, threadPc'[t] = "start"
        PROVE  status'[t] = "Inactive" /\ t \in runlock'
    <3>1. t \notin F /\ (t \in new \/ threadPc[t] = "start")
      BY <1>2, <2>2
    <3>2. status'[t] = "Inactive" /\ t \in held
      BY <1>2, <3>1 DEF RunInv, ThreadInv
    <3> HIDE DEF new, first, S, held
    <3> QED BY <1>1, <3>2, ReleasedIsPrepared
  <2>3. ASSUME NEW t \in TaskIds, threadPc'[t] \in {"forked", "waiting"}
        PROVE  t \notin runlock'
    <3>1. threadPc[t] = threadPc'[t] /\ t \notin new
      BY <1>2, <2>3
    <3>2. t \notin held
      BY <2>3, <3>1 DEF RunInv, ThreadInv
    <3>3. runlock' \subseteq held
      <4> HIDE DEF new, first, S, held
      <4> QED BY <1>1, <1>3, <1>4, SwitchContextType
    <3> QED BY <3>2, <3>3
  <2>4. ASSUME NEW i \in 1 .. Len(inbox'), inbox'[i].new \in Over
        PROVE  threadPc'[inbox'[i].task] = "end"
    <3>1. inbox' = inbox
      BY <1>1
    <3>2. inbox[i].task \in TaskIds
      <4>1. inbox \in Seq([task : TaskIds, new : Statuses]) /\ i \in 1 .. Len(inbox)
        BY <2>4, <3>1 DEF TypeOK
      <4>2. inbox[i] \in [task : TaskIds, new : Statuses]
        BY <4>1, ElementOfSeq
      <4> QED BY <4>2
    <3>3. threadPc[inbox[i].task] = "end"
      BY <2>4, <3>1 DEF RunInv, ThreadInv
    <3>4. ~ (inbox[i].task > nextId)
      BY <3>2, <3>3 DEF RunInv, ThreadInv
    <3>5. inbox[i].task \notin new
      BY <1>3, <3>2, <3>4, TasksAreNaturals
    <3> QED BY <1>2, <3>1, <3>2, <3>3, <3>5
  <2> QED BY <2>1, <2>2, <2>3, <2>4 DEF ThreadInv
<1> QED BY <1>5, <1>6 DEF RunInv

\* A thread forks when it has been released; only its own place changes.
LEMMA ThreadRuns ==
  ASSUME TypeOK, RunInv, NEW t \in TaskIds, Thread(t)
  PROVE  RunInv'
<1>1. /\ UNCHANGED <<tasks, nextId, runlock, policy>>
      /\ \A u \in TaskIds : u # t => threadPc'[u] = threadPc[u]
      /\ threadPc' \in [TaskIds -> ThreadPcs]
  <2>1. ASSUME NEW from \in ThreadPcs, NEW to \in ThreadPcs, ThreadStep(t, from, to)
        PROVE  /\ UNCHANGED <<tasks, nextId, runlock, policy>>
               /\ \A u \in TaskIds : u # t => threadPc'[u] = threadPc[u]
               /\ threadPc' \in [TaskIds -> ThreadPcs]
    BY <2>1 DEF ThreadStep, TypeOK
  <2>2. \E from, to \in ThreadPcs : ThreadStep(t, from, to)
    BY DEF Thread, Prepare, Fork, Running, Finish, Abort, ThreadPcs
  <2> QED BY <2>1, <2>2
<1>2. /\ threadPc[t] \in {"start", "locking", "forked", "waiting"}
      /\ threadPc[t] = "start" => threadPc'[t] = "locking"
      /\ threadPc[t] = "locking" => threadPc'[t] = "forked" /\ t \notin runlock
      /\ threadPc[t] = "forked" => threadPc'[t] = "waiting"
      /\ threadPc[t] = "waiting" => threadPc'[t] = "end"
  BY DEF Thread, ThreadStep, Prepare, Fork, Running, Finish, Abort, TypeOK
<1>3. /\ \A u \in TaskIds : u # t => status'[u] = status[u]
      /\ \/ inbox' = inbox
         \/ /\ threadPc'[t] # "end"
            /\ \E new \in Statuses \ Over : inbox' = Append(inbox, TaskStateChgMsg(t, new))
         \/ /\ threadPc'[t] = "end"
            /\ \E new \in Statuses : inbox' = Append(inbox, TaskStateChgMsg(t, new))
  <2>1. ASSUME NEW new \in Statuses, ChangeState(t, new)
        PROVE  \A u \in TaskIds : u # t => status'[u] = status[u]
    BY <2>1 DEF ChangeState, TypeOK
  <2>2. CASE Fork(t)
    BY <2>2 DEF Fork
  <2>3. CASE Prepare(t) \/ Running(t)
    <3>1. PICK new \in Statuses \ Over : ChangeState(t, new)
      BY <2>3 DEF Prepare, Running, Statuses, Over
    <3>2. threadPc'[t] # "end"
      BY <2>3, <1>2 DEF Prepare, Running, ThreadStep
    <3> QED BY <2>1, <3>1, <3>2 DEF ChangeState
  <2>4. CASE Finish(t) \/ Abort(t)
    <3>1. PICK new \in Statuses : ChangeState(t, new)
      BY <2>4 DEF Finish, Abort, Statuses
    <3>2. threadPc'[t] = "end"
      BY <2>4, <1>2 DEF Finish, Abort, ThreadStep
    <3> QED BY <2>1, <3>1, <3>2 DEF ChangeState
  <2> QED BY <2>2, <2>3, <2>4 DEF Thread
<1>4. OrderInv'
  BY <1>1 DEF RunInv, OrderInv, Queued
<1>5. TurnInv'
  <2>1. threadPc[t] = "start" => t \in runlock
    BY DEF RunInv, ThreadInv
  <2>2. \A u \in TaskIds : threadPc'[u] \in Active /\ u \notin runlock => threadPc[u] \in Active
    BY <1>1, <1>2, <2>1 DEF Active
  <2> QED BY <1>1, <2>2 DEF RunInv, TurnInv
<1>6. ThreadInv'
  <2>1. ASSUME NEW u \in TaskIds, u > nextId'
        PROVE  threadPc'[u] = "none"
    BY <1>1, <1>2, <2>1 DEF RunInv, ThreadInv
  <2>2. ASSUME NEW u \in TaskIds, threadPc'[u] = "start"
        PROVE  status'[u] = "Inactive" /\ u \in runlock'
    BY <1>1, <1>2, <1>3, <2>2 DEF RunInv, ThreadInv
  <2>3. ASSUME NEW u \in TaskIds, threadPc'[u] \in {"forked", "waiting"}
        PROVE  u \notin runlock'
    BY <1>1, <1>2, <2>3 DEF RunInv, ThreadInv
  <2>4. ASSUME NEW i \in 1 .. Len(inbox'), inbox'[i].new \in Over
        PROVE  threadPc'[inbox'[i].task] = "end"
    <3> DEFINE Messages == [task : TaskIds, new : Statuses]
    <3>1. inbox \in Seq(Messages) /\ Len(inbox) \in Nat
      BY LenProperties DEF TypeOK
    <3>2. ASSUME i \in 1 .. Len(inbox), inbox'[i] = inbox[i]
          PROVE  threadPc'[inbox'[i].task] = "end"
      <4>1. inbox[i].task \in TaskIds /\ threadPc[inbox[i].task] = "end"
        <5>1. inbox[i] \in Messages
          BY <3>1, <3>2, ElementOfSeq
        <5> QED BY <2>4, <3>2, <5>1 DEF RunInv, ThreadInv
      <4> QED BY <1>1, <1>2, <3>2, <4>1
    <3>3. CASE inbox' = inbox
      BY <2>4, <3>2, <3>3
    <3>4. CASE inbox' # inbox
      <4>1. PICK new \in Statuses : /\ inbox' = Append(inbox, TaskStateChgMsg(t, new))
                                    /\ threadPc'[t] = "end" \/ new \notin Over
        BY <1>3, <3>4
      <4>2. TaskStateChgMsg(t, new) \in Messages
        BY DEF TaskStateChgMsg
      <4>3. /\ Len(inbox') = Len(inbox) + 1
            /\ \A j \in 1 .. Len(inbox) : inbox'[j] = inbox[j]
            /\ inbox'[Len(inbox) + 1] = TaskStateChgMsg(t, new)
        <5> HIDE DEF Messages
        <5> QED BY <3>1, <4>1, <4>2, AppendProperties
      <4>4. CASE i \in 1 .. Len(inbox)
        BY <3>2, <4>3, <4>4
      <4>5. CASE i \notin 1 .. Len(inbox)
        <5>1. i = Len(inbox) + 1
          BY <2>4, <3>1, <4>3, <4>5
        <5>2. inbox'[i].task = t /\ inbox'[i].new = new
          BY <4>3, <5>1 DEF TaskStateChgMsg
        <5> QED BY <2>4, <4>1, <5>2
      <4> QED BY <4>4, <4>5
    <3> QED BY <3>3, <3>4
  <2> QED BY <2>1, <2>2, <2>3, <2>4 DEF ThreadInv
<1> QED BY <1>4, <1>5, <1>6 DEF RunInv

LEMMA RunStep == TypeOK /\ EndInv /\ RunInv /\ [Next]_vars => RunInv'
<1> SUFFICES ASSUME TypeOK, EndInv, RunInv, [Next]_vars PROVE RunInv'
  OBVIOUS
<1>q. tasks \in Seq(TaskIds) /\ rescheduleTimer \in TimerIds \cup {NoTimer}
  BY DEF TypeOK
<1>f. tasks # <<>> => tasks[1] \in Queued
  BY <1>q, ElementsOfRange, EmptySeq DEF Queued
<1>1. ASSUME NEW n \in TaskIds, NEW k \in TaskIds, NEW F \in SUBSET TaskIds,
             HandleTaskBag(n, k, F)
      PROVE  RunInv'
  BY <1>1, TaskBagRuns
<1>2. ASSUME HandleTaskStateChg
      PROVE  RunInv'
  <2> DEFINE t    == Head(inbox).task
             over == Head(inbox).new \in {"Finished", "Aborted"} /\ t \in Queued
             S    == IF over THEN RemovedFromQueue(t) ELSE Queued
  <2>1. /\ SwitchContext(S, FirstOf(S), runlock, rescheduleTimer)
        /\ inbox # <<>> /\ inbox' = Tail(inbox)
        /\ UNCHANGED <<policy, nextId, status, threadPc>>
    BY <1>2 DEF HandleTaskStateChg
  <2>2. S \in SUBSET Queued
    BY DEF RemovedFromQueue
  <2>3. tasks # <<>> /\ tasks[1] \notin S => threadPc[tasks[1]] = "end"
    <3>1. SUFFICES ASSUME over PROVE threadPc[t] = "end"
      BY <1>f DEF RemovedFromQueue
    <3>2. inbox \in Seq([task : TaskIds, new : Statuses]) /\ inbox # <<>>
      BY <2>1 DEF TypeOK
    <3>3. Head(inbox) = inbox[1] /\ 1 \in 1 .. Len(inbox)
      <4>1. Len(inbox) \in Nat /\ Len(inbox) # 0
        BY <3>2, LenProperties, EmptySeq
      <4> QED BY <3>2, <4>1
    <3> QED BY <3>1, <3>3 DEF RunInv, ThreadInv, Over
  <2> HIDE DEF S
  <2> QED BY <1>q, <2>1, <2>2, <2>3, SwitchContextOfQueue
<1>3. ASSUME HandleRescheduleTimer
      PROVE  RunInv'
  <2>1. /\ SwitchContext(Queued, FirstOf(Queued), runlock, NoTimer)
        /\ UNCHANGED <<policy, nextId, status, threadPc, inbox>>
    BY <1>3 DEF HandleRescheduleTimer
  <2> DEFINE S       == Queued
             current == NoTimer
  <2>2. /\ SwitchContext(S, FirstOf(S), runlock, current)
        /\ S \in SUBSET Queued /\ current \in TimerIds \cup {NoTimer}
        /\ tasks # <<>> /\ tasks[1] \notin S => threadPc[tasks[1]] = "end"
    BY <1>f, <2>1
  <2> HIDE DEF S, current
  <2> QED BY <2>1, <2>2, SwitchContextOfQueue
<1>4. ASSUME NEW A \in SUBSET TaskIds, HandleAbortTask(A)
      PROVE  RunInv'
  <2> DEFINE S == IF policy = "FSP" THEN Queued ELSE Queued \ A
  <2>1. UNCHANGED <<policy, nextId, status, threadPc, inbox>>
    BY <1>4 DEF HandleAbortTask
  <2>2. CASE policy # "FSP" /\ \E t \in A : threadPc[t] # "end"
    <3>1. UNCHANGED <<tasks, runlock>>
      BY <1>4, <2>2 DEF HandleAbortTask
    <3> QED BY <2>1, <3>1 DEF RunInv, ThreadInv, OrderInv, TurnInv, Queued
  <2>3. CASE ~ (policy # "FSP" /\ \E t \in A : threadPc[t] # "end")
    <3>1. SwitchContext(S, FirstOf(S), runlock, rescheduleTimer)
      BY <1>4, <2>3 DEF HandleAbortTask
    <3>2. S \in SUBSET Queued
      OBVIOUS
    <3>3. tasks # <<>> /\ tasks[1] \notin S => threadPc[tasks[1]] = "end"
      BY <1>f, <2>3
    <3> HIDE DEF S
    <3> QED BY <1>q, <2>1, <3>1, <3>2, <3>3, SwitchContextOfQueue
  <2> QED BY <2>2, <2>3
<1>5. ASSUME \/ HandleMonitorTimer \/ FatherChanging \/ \E changed \in BOOLEAN : FatherChanged(changed)
             \/ \E id \in TimerIds : ExpireReschedule(id)
             \/ ExpireMonitor \/ UNCHANGED vars
      PROVE  RunInv'
  <2>1. UNCHANGED <<policy, nextId, status, threadPc, inbox, tasks, runlock>>
    BY <1>5 DEF HandleMonitorTimer, FatherChanging, FatherChanged, ExpireReschedule, ExpireMonitor,
       vars, taskVars
  <2> QED BY <2>1 DEF RunInv, ThreadInv, OrderInv, TurnInv, Queued
<1>6. ASSUME NEW t \in TaskIds, Thread(t)
      PROVE  RunInv'
  BY <1>6, ThreadRuns
<1> QED
  BY <1>1, <1>2, <1>3, <1>4, <1>5, <1>6 DEF Next, Thread

\* With any policy but DP, whose order may put another task before one that was
\* run, a process runs only for the first task of the queue: never two at a time,
\* however the threads and the handlers of their messages alternate.
THEOREM OneProcessAlways == Spec => []OneProcess
<1>1. Init => EndInv
  BY ElementsOfRange, EmptySeq DEF Init, EndInv, Queued
<1>2. Init => RunInv
  BY DEF Init, RunInv, ThreadInv, OrderInv, TurnInv, Active
<1>3. RunInv => OneProcess
  BY DEF RunInv, ThreadInv, TurnInv, OneProcess, Active
<1> QED BY <1>1, <1>2, <1>3, TypeCorrect, EndStep, RunStep, PTL DEF Spec

=============================================================================
