--------------------------- MODULE SimAppDatabase ---------------------------
(***************************************************************************)
(* The database of applications that the simulator links instead of the    *)
(* SQL one (src/oldsim/SimAppDatabase.hpp, .cpp): the same interface over  *)
(* instances that own their tasks and requests that point at them.         *)
(*                                                                         *)
(* `sdb' maps every instance number to its instance.  A request is the     *)
(* sequence of its pointers, NoTask where the code has NULL, and is named  *)
(* <<a, k>>, the k-th of instance a: rid is appId << bitsPerRequest plus   *)
(* k - 1.  The caches of the last instance and request found are left out: *)
(* appInstanceFinished resets them, so they never change what is found.    *)
(* The counters of a request are only printed, and are left out too.       *)
(***************************************************************************)
EXTENDS TaskBagAppDatabase, Sequences

NoTask == 0   \* a NULL pointer in a request

NoInstance == [live |-> FALSE, tasks |-> [t \in TaskIds |-> NoRow], requests |-> <<>>]

SimEmptyDatabase == [a \in AppIds |-> NoInstance]

FindAppInstance(sdb, a) == sdb[a].live

FindRequest(sdb, q) == sdb[q[1]].live /\ q[2] \in DOMAIN sdb[q[1]].requests

\* The task that pointer i of request q leads to.
Pointee(sdb, q, i) ==
  IF FindRequest(sdb, q) /\ i \in DOMAIN sdb[q[1]].requests[q[2]]
  THEN sdb[q[1]].requests[q[2]][i]
  ELSE NoTask

Pointees(sdb, q) == {Pointee(sdb, q, i) : i \in TaskIds} \ {NoTask}

\* getNumFinished, getNumReady, getNumExecuting and getNumInProcess count it.
SimInState(sdb, a, S) == {t \in TaskIds : sdb[a].live /\ sdb[a].tasks[t].state \in S}

SimSetState(sdb, a, T, s) ==
  [sdb EXCEPT ![a].tasks = [t \in TaskIds |->
     IF t \in T THEN [@[t] EXCEPT !.state = s] ELSE @[t]]]

\* The pointers of request q to the tasks T become NULL.
SimForget(sdb, q, T) ==
  [sdb EXCEPT ![q[1]].requests[q[2]] = [i \in DOMAIN @ |->
     IF @[i] \in T THEN NoTask ELSE @[i]]]

-----------------------------------------------------------------------------

SimCreateAppInstance(sdb, a) ==
  [sdb EXCEPT ![a] =
     [live     |-> TRUE,
      tasks    |-> [t \in TaskIds |-> [state |-> "READY", host |-> NoHost]],
      requests |-> <<>>]]

\* Pointers to the ready tasks of an instance, in the order of their tids.
ReadyTasks(sdb, a) ==
  LET ready == {t \in TaskIds : sdb[a].tasks[t].state = "READY"}
  IN  [i \in 1 .. Cardinality(ready) |->
         CHOOSE t \in ready : Cardinality({u \in ready : u <= t}) = i]

\* A request is made even when no task is ready.
SimRequestFromReadyTasks(sdb, a) ==
  IF FindAppInstance(sdb, a)
  THEN [sdb EXCEPT ![a].requests = Append(@, ReadyTasks(sdb, a))]
  ELSE sdb

LastRequest(sdb, a) == <<a, Len(sdb[a].requests)>>

SimStartSearch(sdb, q) ==
  IF FindRequest(sdb, q) THEN SimSetState(sdb, q[1], Pointees(sdb, q), "SEARCHING") ELSE sdb

SimCancelled(sdb, q) == Pointees(sdb, q) \cap SimInState(sdb, q[1], {"SEARCHING"})

\* Mutant of SimCancelSearch: `*t = NULL' is missing.
SimCancelSearchPoints(sdb, q) ==
  SimSetState(sdb, q[1], SimCancelled(sdb, q), "READY")

SimCancelSearch(sdb, q) ==
  IF SimCancelled(sdb, q) = {} THEN sdb
  ELSE SimForget(SimSetState(sdb, q[1], SimCancelled(sdb, q), "READY"), q,
                 SimCancelled(sdb, q))

\* The tasks that a report of the pointers I of request q assigns.
SimAccepted(sdb, q, I) ==
  {Pointee(sdb, q, i) : i \in I} \cap SimInState(sdb, q[1], {"SEARCHING"})

SimAcceptedTasks(sdb, h, q, I) ==
  [sdb EXCEPT ![q[1]].tasks = [t \in TaskIds |->
     IF t \in SimAccepted(sdb, q, I) THEN [state |-> "EXECUTING", host |-> h] ELSE @[t]]]

(***************************************************************************)
(* finishedTask asks neither who reports nor in which state the task is,   *)
(* and keeps the pointer: a second report of a task returns true again,    *)
(* although the message it logs for a NULL pointer is "already finished".  *)
(***************************************************************************)
SimFinishedTaskReturns(sdb, q, i) == Pointee(sdb, q, i) # NoTask

SimFinishedTask(sdb, q, i) == SimSetState(sdb, q[1], {Pointee(sdb, q, i)}, "FINISHED")

\* abortedTask asks neither who reports nor in which state the task is.
SimAbortedTask(sdb, q, i) ==
  IF Pointee(sdb, q, i) = NoTask THEN sdb
  ELSE SimForget(SimSetState(sdb, q[1], {Pointee(sdb, q, i)}, "READY"), q,
                 {Pointee(sdb, q, i)})

\* Every pointer to an executing task of the node.  A task that is not
\* finished has one pointer at most, so the order of the requests is nothing.
SimDeadNode(sdb, h) ==
  LET Lost(a) == {t \in SimInState(sdb, a, {"EXECUTING"}) :
                    /\ sdb[a].tasks[t].host = h
                    /\ \E k \in DOMAIN sdb[a].requests : t \in Pointees(sdb, <<a, k>>)}
  IN  [a \in AppIds |->
         [sdb[a] EXCEPT
            !.tasks = [t \in TaskIds |->
              IF t \in Lost(a) THEN [@[t] EXCEPT !.state = "READY"] ELSE @[t]],
            !.requests = [k \in DOMAIN @ |-> [i \in DOMAIN @[k] |->
              IF @[k][i] \in Lost(a) THEN NoTask ELSE @[k][i]]]]]

\* The instance is erased with its requests.
AppInstanceFinished(sdb, a) == [sdb EXCEPT ![a] = NoInstance]

=============================================================================
