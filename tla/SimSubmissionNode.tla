-------------------------- MODULE SimSubmissionNode --------------------------
(***************************************************************************)
(* The submission node of the program and the database of the simulator    *)
(* side by side: every call that a handler of SubmissionNode makes to its  *)
(* database is made to SimAppDatabase too, in the same order, and a        *)
(* history variable keeps whether both returned the same.  What the        *)
(* simulator says of submission nodes is worth no more than this agreement.*)
(*                                                                         *)
(* finishedApp is empty in the program; in the simulator it erases the     *)
(* instance.  Neither an aborted task, which the SQL database never finds  *)
(* (see AbortedTaskReturns), nor a restart is compared.                    *)
(***************************************************************************)
EXTENDS SubmissionNode, SimAppDatabase

VARIABLES
  simDb,    \* The database of the simulator.
  name,     \* The request of the simulator for each request of the program.
  same,     \* Whether all calls so far returned the same.
  aborted   \* Whether the abortion of a task has been reported.

twinVars == <<simDb, name, same, aborted>>
simVars  == <<vars, twinVars>>

SimInit ==
  /\ Init
  /\ simDb = SimEmptyDatabase
  /\ name = [r \in Rids |-> <<1, 0>>]     \* finds no request
  /\ same = TRUE
  /\ aborted = FALSE

-----------------------------------------------------------------------------
(* What each handler does to the simulator's database, given the next      *)
(* state of the program.                                                   *)

\* finishedApp for the instances that the step drops from remainingTasks.
Erased(sdb) ==
  [a \in AppIds |-> IF remaining[a] # NoEntry /\ remaining'[a] = NoEntry
                    THEN AppInstanceFinished(sdb, a)[a] ELSE sdb[a]]

\* sendRequest for the instances A; the requests of the program that are new
\* in the step get the names of the ones made here.
TwinSends(sdb, A) ==
  LET asked == [a \in AppIds |-> IF a \in A THEN SimRequestFromReadyTasks(sdb, a)[a]
                                 ELSE sdb[a]]
      sent  == [a \in AppIds |-> IF a \in A THEN SimStartSearch(asked, LastRequest(asked, a))[a]
                                 ELSE asked[a]]
  IN  /\ simDb' = Erased(sent)
      /\ name' = [r \in Rids |-> IF r > db.lastRid /\ r <= db'.lastRid
                                 THEN LastRequest(sent, db'.request[r]) ELSE name[r]]

Agreed(b) == same' = (same /\ b) /\ UNCHANGED aborted

TwinFatherChanged ==
  /\ FatherChanged
  /\ TwinSends(simDb, {a \in AppIds : delayed[a] # NoEntry})
  /\ Agreed(TRUE)

TwinDispatch(a) ==
  /\ DispatchCommand(a)
  /\ TwinSends(SimCreateAppInstance(simDb, a), {a} \cap {b \in AppIds : ~inChange})
  /\ Agreed(TRUE)

\* The handler ends at once when getInstanceId does not find the instance.
TwinRequestTimeout(r) ==
  LET a     == GetInstanceId(db, r)
      ready == SimCancelSearch(simDb, name[r])
      again == SimInState(ready, a, {"READY"}) # {} /\ RetriesLeft(r) /\ ~inChange
  IN  /\ HandleRequestTimeout(r)
      /\ IF FindAppInstance(simDb, a)
         THEN /\ TwinSends(ready, {a} \cap {b \in AppIds : again})
              /\ Agreed(SimCancelled(simDb, name[r]) = Cancelled(db, r))
         ELSE UNCHANGED twinVars

TwinHeartbeatTimeout(h) ==
  /\ HandleHeartbeatTimeout(h)
  /\ TwinSends(SimDeadNode(simDb, h), {a \in AppIds : remote[h][a] > 0 /\ ~inChange})
  /\ Agreed(TRUE)

TwinAcceptTask(m) ==
  LET a == GetInstanceId(db, m.rid)
  IN  /\ HandleAcceptTask(m)
      /\ simDb' = SimAcceptedTasks(simDb, m.node, name[m.rid], m.rtids)
      /\ Agreed(FindAppInstance(simDb, a) =>
                  SimAccepted(simDb, name[m.rid], m.rtids)
                    = Accepted(db, a, {m.rid} \X m.rtids))
      /\ UNCHANGED name

(***************************************************************************)
(* A report accepts each of its tasks and then finishes or aborts the one  *)
(* that has ended.  The returned value is not compared when the task had   *)
(* finished before: the simulator says true again.                         *)
(***************************************************************************)
TwinTaskMonitor(m) ==
  LET accepted == [a \in AppIds |->
        [simDb[a] EXCEPT !.tasks = [t \in TaskIds |->
           IF \E k \in m.tasks : /\ name[k[1]][1] = a
                                 /\ t \in SimAccepted(simDb, name[k[1]], {k[2]})
           THEN [state |-> "EXECUTING", host |-> m.node] ELSE @[t]]]]
      k        == CHOOSE k \in m.finished \cup m.aborted : TRUE
      a        == GetInstanceId(db, k[1])
      finished == m.finished # {}
      repeated == TidsOf(db, {k}) \cap InState(db, a, {"FINISHED"}) # {}
  IN  /\ HandleTaskMonitor(m)
      /\ UNCHANGED name
      /\ simDb' = Erased(
           IF finished THEN SimFinishedTask(accepted, name[k[1]], k[2])
           ELSE IF m.aborted # {} THEN SimAbortedTask(accepted, name[k[1]], k[2])
           ELSE accepted)
      /\ aborted' = (aborted \/ m.aborted # {})
      /\ same' = (same /\ (finished /\ ~repeated /\ FindAppInstance(simDb, a) =>
           SimFinishedTaskReturns(accepted, name[k[1]], k[2]) = FinishedTaskReturns(db, k)))

\* The steps that call no method of the database.
Apart ==
  \/ FatherChanging
  \/ \E r \in Rids : ExpireRequest(r)
  \/ \E h \in Hosts, i \in TimerIds : ExpireHeartbeat(h, i)
  \/ \E h \in Hosts, r \in Rids, f, l \in TaskIds : NodeAccepts(h, r, f, l)
  \/ \E r \in Rids : NobodyAccepts(r)
  \/ \E x \in running : TaskExits(x)
  \/ \E x \in running : NodeFinishes(x)
  \/ \E x \in running : NodeAborts(x)
  \/ \E h \in Hosts : NodeReminds(h)
  \/ \E h \in Hosts : NodeFails(h)

SimNext ==
  \/ TwinFatherChanged
  \/ \E a \in AppIds : TwinDispatch(a)
  \/ \E r \in Rids : TwinRequestTimeout(r)
  \/ \E h \in Hosts : TwinHeartbeatTimeout(h)
  \/ \E m \in net : TwinAcceptTask(m)
  \/ \E m \in net : TwinTaskMonitor(m)
  \/ Apart /\ UNCHANGED twinVars

\* Reports reach the program in time: no losses, no restart.
SimSpec == SimInit /\ [][SimNext]_simVars /\ Fairness

-----------------------------------------------------------------------------

\* Both databases give the submission node the same answers: an instance that
\* is not over has its tasks in the same states and at the same nodes, its
\* requests lead to the same tasks, and every call returned the same.
TwinsAgree ==
  alive /\ ~aborted =>
    /\ same
    /\ \A a \in AppIds : FindAppInstance(simDb, a) =>
         /\ \A s \in TaskStates : SimInState(simDb, a, {s}) = InState(db, a, {s})
         /\ \A t \in InState(db, a, {"EXECUTING"}) :
              simDb[a].tasks[t].host = db.task[a][t].host
         /\ \A r \in Rids : GetInstanceId(db, r) = a =>
              \A i \in TaskIds :
                TidsOf(db, {<<r, i>>}) = {Pointee(simDb, name[r], i)} \ {NoTask}

=============================================================================
