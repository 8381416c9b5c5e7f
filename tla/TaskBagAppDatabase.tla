------------------------- MODULE TaskBagAppDatabase -------------------------
(***************************************************************************)
(* The database of bag-of-tasks applications of a submission node          *)
(* (include/TaskBagAppDatabase.hpp, src/lib/db/TaskBagAppDatabase.cpp).    *)
(* The database is one record `db' with a field per table; every method is *)
(* an operator from a database to the next one, and what the method        *)
(* returns is an operator of its own.  A failing SQL statement is left     *)
(* out: every transaction of the model commits.                            *)
(***************************************************************************)
EXTENDS Integers, FiniteSets

CONSTANTS
  Hosts,        \* Addresses of the execution nodes (host_IP, host_port).
  NoHost,       \* SQL NULL in the host columns.
  MaxApps,      \* Bound: application instances created.
  NumTasks,     \* tb_app_description.num_tasks, the same for every instance.
  MaxRequests   \* Bound: requests created.

ASSUME DatabaseConstants ==
  /\ MaxApps \in Nat \ {0}
  /\ NumTasks \in Nat \ {0}
  /\ MaxRequests \in Nat \ {0}
  /\ NoHost \notin Hosts

(***************************************************************************)
(* An address is the text of an IP, never the number of a row.             *)
(***************************************************************************)
ASSUME HostsAreNotRowids == Hosts \cap Int = {}

AppIds  == 1 .. MaxApps       \* tb_app_instance.id
TaskIds == 1 .. NumTasks      \* tb_task.tid, and the rtid of a request
Rids    == 1 .. MaxRequests   \* tb_request.rid, an autoincrement key

NoApp == 0                    \* a row of tb_request that does not exist yet

TaskStates == {"NONE", "READY", "SEARCHING", "EXECUTING", "FINISHED"}

TaskRow == [state : TaskStates, host : Hosts \cup {NoHost}]

Databases ==
  [task        : [AppIds -> [TaskIds -> TaskRow]],
   request     : [Rids -> AppIds \cup {NoApp}],
   lastRid     : 0 .. MaxRequests,
   taskRequest : SUBSET (Rids \X TaskIds \X TaskIds)]

NoRow == [state |-> "NONE", host |-> NoHost]

EmptyDatabase ==
  [task        |-> [a \in AppIds |-> [t \in TaskIds |-> NoRow]],
   request     |-> [r \in Rids |-> NoApp],
   lastRid     |-> 0,
   taskRequest |-> {}]

-----------------------------------------------------------------------------
(* Selections.                                                             *)

\* The tasks of an instance that are in one of the states S.
InState(db, a, S) == {t \in TaskIds : db.task[a][t].state \in S}

Created(db, a) == InState(db, a, {"NONE"}) = {}

Ready(db, a) == InState(db, a, {"READY"})

ExecutingAt(db, a, h) ==
  {t \in InState(db, a, {"EXECUTING"}) : db.task[a][t].host = h}

\* The tids that the keys <<rid, rtid>> of K name in tb_task_request.
TidsOf(db, K) == {row[3] : row \in {x \in db.taskRequest : <<x[1], x[2]>> \in K}}

TidsOfRequest(db, r) == {row[3] : row \in {x \in db.taskRequest : x[1] = r}}

GetInstanceId(db, r) == db.request[r]

-----------------------------------------------------------------------------
(* Updates.                                                                *)

SetTasks(db, a, S, row) ==
  [db EXCEPT !.task[a] = [t \in TaskIds |-> IF t \in S THEN row ELSE @[t]]]

SetState(db, a, S, s) ==
  [db EXCEPT !.task[a] = [t \in TaskIds |->
     IF t \in S THEN [@[t] EXCEPT !.state = s] ELSE @[t]]]

CreateAppInstance(db, a) ==
  SetTasks(db, a, TaskIds, [state |-> "READY", host |-> NoHost])

(***************************************************************************)
(* The request of each instance of A that has ready tasks: rid[a] is its   *)
(* number, and its tasks are numbered from 1 in the order of their tids.   *)
(***************************************************************************)
RequestFromReadyTasks(db, A, rid) ==
  [db EXCEPT
     !.request = [r \in Rids |-> IF \E a \in A : rid[a] = r
                                 THEN CHOOSE a \in A : rid[a] = r
                                 ELSE @[r]],
     !.lastRid = @ + Cardinality(A),
     !.taskRequest = @ \cup
        UNION {{<<rid[a], Cardinality({u \in Ready(db, a) : u <= t}), t>> :
                  t \in Ready(db, a)} : a \in A}]

\* startSearch of every request created for the instances A.
StartSearch(db, A, rid) ==
  [db EXCEPT !.task = [a \in AppIds |->
     IF a \in A
     THEN [t \in TaskIds |-> IF t \in TidsOfRequest(db, rid[a])
                             THEN [@[a][t] EXCEPT !.state = "SEARCHING"]
                             ELSE @[a][t]]
     ELSE @[a]]]

\* Mutant of Cancelled: the state of the query is the one it sets.
CancelledReady(db, r) ==
  TidsOfRequest(db, r) \cap InState(db, GetInstanceId(db, r), {"READY"})

\* The tasks that cancelSearch makes ready; it returns how many they are.
Cancelled(db, r) ==
  TidsOfRequest(db, r) \cap InState(db, GetInstanceId(db, r), {"SEARCHING"})

\* Mutant of CancelSearch: the tasks stay in the request.
CancelSearchKeepsRows(db, r) ==
  SetState(db, GetInstanceId(db, r), Cancelled(db, r), "READY")

CancelSearch(db, r) ==
  LET a    == GetInstanceId(db, r)
      next == SetState(db, a, Cancelled(db, r), "READY")
  IN  [next EXCEPT !.taskRequest = {x \in @ : ~(x[1] = r /\ x[3] \in Ready(next, a))}]

\* Mutant of Accepted: without state = 'SEARCHING'.
AcceptedAnyState(db, a, K) ==
  TidsOf(db, {k \in K : GetInstanceId(db, k[1]) = a})

\* The tasks of instance a that acceptedTasks assigns when a node reports the
\* keys K; it returns how many they are.
Accepted(db, a, K) ==
  TidsOf(db, {k \in K : GetInstanceId(db, k[1]) = a}) \cap InState(db, a, {"SEARCHING"})

AcceptedTasks(db, h, K) ==
  [db EXCEPT !.task = [a \in AppIds |-> [t \in TaskIds |->
     IF t \in Accepted(db, a, K) THEN [state |-> "EXECUTING", host |-> h] ELSE @[a][t]]]]

(***************************************************************************)
(* finishedTask is refused only when the task is already finished; its     *)
(* UPDATE also wants the host to be the sender, and may change no row.     *)
(***************************************************************************)
FinishedTaskReturns(db, k) ==
  TidsOf(db, {k}) \cap InState(db, GetInstanceId(db, k[1]), {"FINISHED"}) = {}

FinishedTask(db, h, k) ==
  LET a == GetInstanceId(db, k[1])
  IN  IF FinishedTaskReturns(db, k)
      THEN SetState(db, a, {t \in TidsOf(db, {k}) : db.task[a][t].host = h}, "FINISHED")
      ELSE db

(***************************************************************************)
(* abortedTask looks for the executing task with a query whose last        *)
(* placeholder is ?1.  That is the first value bound, the IP of the host,  *)
(* where ?3 would be the request: the row of tb_request it asks for is the *)
(* one whose rid is an address.                                            *)
(***************************************************************************)
AbortedTaskReturns(db, h, k) ==
  \E q \in Rids :
    /\ q = h
    /\ TidsOf(db, {k}) \cap ExecutingAt(db, GetInstanceId(db, q), h) # {}

AbortedTask(db, h, k) ==
  LET a    == GetInstanceId(db, k[1])
      mine == {t \in TidsOf(db, {k}) : db.task[a][t].host = h}
      next == SetTasks(db, a, mine, [state |-> "READY", host |-> NoHost])
  IN  IF AbortedTaskReturns(db, h, k)
      THEN [next EXCEPT !.taskRequest = {x \in @ : <<x[1], x[2]>> # k}]
      ELSE db

\* Mutant of DeadNode: the tasks are not made ready.
DeadNodeForgets(db, h) == db

(***************************************************************************)
(* deadNode joins tb_task and tb_request by the instance only, so a task   *)
(* of the dead node leaves every request of its instance.                  *)
(***************************************************************************)
DeadNode(db, h) ==
  [db EXCEPT
     !.task = [a \in AppIds |-> [t \in TaskIds |->
        IF t \in ExecutingAt(db, a, h)
        THEN [state |-> "READY", host |-> NoHost] ELSE @[a][t]]],
     !.taskRequest = {x \in @ :
        ~\E a \in AppIds : a = db.request[x[1]] /\ x[3] \in ExecutingAt(db, a, h)}]

-----------------------------------------------------------------------------
(***************************************************************************)
(* What TaskBagAppDatabase.cpp:68 says the schema cannot check: a task of  *)
(* a request is a task of the request's instance.  With it go the facts    *)
(* that the numbering of a request relies on: a relative number names one  *)
(* task, and a task that is not finished is in one request at most.        *)
(***************************************************************************)
RowsHaveRequest(db) ==
  \A x \in db.taskRequest : x[1] <= db.lastRid /\ db.request[x[1]] \in AppIds

OneTaskPerNumber(db) ==
  \A x, y \in db.taskRequest : x[1] = y[1] /\ x[2] = y[2] => x[3] = y[3]

OneRequestPerTask(db) ==
  \A x, y \in db.taskRequest :
    db.request[x[1]] = db.request[y[1]] /\ x[3] = y[3] => x[1] = y[1]

ReadyTasksAreFree(db) ==
  \A x \in db.taskRequest : db.task[db.request[x[1]]][x[3]].state
                              \in {"SEARCHING", "EXECUTING", "FINISHED"}

ConsistentRequests(db) ==
  /\ RowsHaveRequest(db)
  /\ OneTaskPerNumber(db)
  /\ OneRequestPerTask(db)
  /\ ReadyTasksAreFree(db)

=============================================================================
