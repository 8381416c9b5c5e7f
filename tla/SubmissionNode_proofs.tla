------------------------ MODULE SubmissionNode_proofs ------------------------
(***************************************************************************)
(* Proofs about SubmissionNode and the database it uses, for every number  *)
(* of instances, tasks, requests, execution nodes, timers and faults: type *)
(* correctness, that the rows of the requests are never mixed up, that no  *)
(* search and no counted node is left without a timer, and that the end of *)
(* a task is final.                                                        *)
(*                                                                         *)
(* The second half is about the counters: remoteTasks and remainingTasks   *)
(* count what the database says, when the acceptance of a task is handled  *)
(* before the reports about it, timers expire in time and no message is    *)
(* lost.  The counters are only right because a node never reports a task  *)
(* that is not its own, so most of the proof follows each task of a        *)
(* request from the overlay to its node and back.                          *)
(*                                                                         *)
(* The last part is about SimSubmissionNode: the database that the         *)
(* simulator links answers as that of the program does.  A request of the  *)
(* simulator is shown to have the pointers that the request of the program *)
(* has rows, method by method and then handler by handler.                 *)
(***************************************************************************)
EXTENDS SubmissionNode, SimSubmissionNode, FiniteSetTheorems, FunctionTheorems,
        WellFoundedInduction, TLAPS

-----------------------------------------------------------------------------
(* Counting.                                                               *)

\* The tasks and the instances are numbers from 1.
LEMMA Numbers ==
  /\ NumTasks \in Nat \ {0} /\ MaxApps \in Nat \ {0} /\ MaxRequests \in Nat \ {0}
  /\ TaskIds \subseteq Nat \ {0} /\ AppIds \subseteq Nat \ {0} /\ Rids \subseteq Nat \ {0}
BY DatabaseConstants DEF DatabaseConstants, TaskIds, AppIds, Rids

\* A set of tasks is finite.
LEMMA Counts ==
  ASSUME NEW n \in Nat, NEW S \in SUBSET (1 .. n)
  PROVE  /\ IsFiniteSet(S) /\ Cardinality(S) \in Nat /\ Cardinality(S) <= n
         /\ Cardinality(S) = 0 <=> S = {}
<1>1. IsFiniteSet(1 .. n) /\ Cardinality(1 .. n) = n
  BY FS_Interval
<1>2. IsFiniteSet(S) /\ Cardinality(S) <= n
  BY <1>1, FS_Subset
<1> QED BY <1>2, FS_CardinalityType, FS_EmptySet

\* A set of naturals that is not empty has a least element.
LEMMA LeastNumber ==
  ASSUME NEW S \in SUBSET Nat, S # {}
  PROVE  \E x \in S : \A y \in S : x <= y
<1> DEFINE R == {ss \in Nat \X Nat : ss[1] < ss[2]}
<1>1. IsWellFoundedOn(R, Nat)
  BY NatLessThanWellFounded DEF OpToRel
<1> HIDE DEF R
<1>2. PICK x \in S : \A y \in S : ~ (<<y, x>> \in R)
  BY <1>1, WFMin
<1>3. ASSUME NEW y \in S PROVE x <= y
  <2>1. ~ (y < x)
    BY <1>2 DEF R
  <2> QED BY <2>1
<1> QED BY <1>3

\* The numbers that the elements of a set get in their order: from 1 to the
\* size of the set, and no two the same.
LEMMA Ranks ==
  ASSUME NEW n \in Nat, NEW S \in SUBSET (1 .. n)
  PROVE  /\ \A x \in S : /\ Cardinality({u \in S : u <= x}) \in 1 .. n
                         /\ Cardinality({u \in S : u <= x}) <= Cardinality(S)
         /\ \A x, y \in S :
              Cardinality({u \in S : u <= x}) = Cardinality({u \in S : u <= y}) => x = y
<1> DEFINE Upto(x) == {u \in S : u <= x}
<1>1. IsFiniteSet(S) /\ Cardinality(S) \in Nat /\ Cardinality(S) <= n
  BY Counts
<1>2. ASSUME NEW x \in S
      PROVE  /\ IsFiniteSet(Upto(x)) /\ Cardinality(Upto(x)) \in Nat
             /\ Cardinality(Upto(x)) <= Cardinality(S) /\ Cardinality(Upto(x)) # 0
  <2>1. Upto(x) \in SUBSET S /\ Upto(x) # {}
    OBVIOUS
  <2> HIDE DEF Upto
  <2> QED BY <1>1, <2>1, FS_Subset, FS_CardinalityType, FS_EmptySet
<1>3. ASSUME NEW x \in S, NEW y \in S, x < y
      PROVE  Cardinality(Upto(x)) < Cardinality(Upto(y))
  <2>1. Upto(x) \in SUBSET (Upto(y) \ {y}) /\ y \in Upto(y)
    <3>1. S \subseteq Nat /\ x \in Nat /\ y \in Nat
      OBVIOUS
    <3>2. \A u : u \in Upto(x) => u \in Upto(y) /\ u # y
      BY <1>3, <3>1
    <3>3. y \in Upto(y)
      BY <3>1
    <3> HIDE DEF Upto
    <3> QED BY <3>2, <3>3
  <2> HIDE DEF Upto
  <2>2. IsFiniteSet(Upto(y) \ {y}) /\ Cardinality(Upto(y) \ {y}) = Cardinality(Upto(y)) - 1
    BY <1>2, <2>1, FS_RemoveElement
  <2>3. Cardinality(Upto(x)) <= Cardinality(Upto(y) \ {y})
    BY <2>1, <2>2, FS_Subset
  <2> QED BY <1>2, <2>2, <2>3
<1>4. ASSUME NEW x \in S, NEW y \in S, Cardinality(Upto(x)) = Cardinality(Upto(y))
      PROVE  x = y
  <2>1. x \in Nat /\ y \in Nat
    OBVIOUS
  <2>2. Cardinality(Upto(x)) \in Nat /\ Cardinality(Upto(y)) \in Nat
    BY <1>2
  <2> HIDE DEF Upto
  <2> QED BY <1>3, <1>4, <2>1, <2>2
<1>5. \A x \in S : Cardinality(Upto(x)) \in 1 .. n /\ Cardinality(Upto(x)) <= Cardinality(S)
  <2> HIDE DEF Upto
  <2> QED BY <1>1, <1>2
<1> QED BY <1>4, <1>5

-----------------------------------------------------------------------------
(* The database.                                                           *)

\* An instance is created with all of its tasks.
Whole(d) == \A a \in AppIds : Created(d, a) \/ InState(d, a, {"NONE"}) = TaskIds

\* What the methods of the database keep.
DbOK(d) == d \in Databases /\ ConsistentRequests(d) /\ Whole(d)

\* Request r was created.
Named(d, r) == r <= d.lastRid /\ d.request[r] \in AppIds

\* Database e may follow d: requests stay, and finished tasks stay so.
Follows(d, e) ==
  /\ d.lastRid <= e.lastRid
  /\ \A r \in Rids : Named(d, r) => e.request[r] = d.request[r]
  /\ \A a \in AppIds : InState(d, a, {"FINISHED"}) \subseteq InState(e, a, {"FINISHED"})

\* The tasks searched are in requests whose timer is one of T.
Timed(d, T) ==
  \A a \in AppIds : \A t \in InState(d, a, {"SEARCHING"}) :
    \E r \in Rids :
      GetInstanceId(d, r) = a /\ t \in TidsOfRequest(d, r) /\ RequestTimer(r) \in T

\* A database follows itself, and follows what its predecessor follows.
LEMMA FollowsItself ==
  ASSUME NEW d \in Databases
  PROVE  Follows(d, d)
BY Numbers DEF Follows, Named, Databases

\* Steps of the database can be chained.
LEMMA FollowsOn ==
  ASSUME NEW d \in Databases, NEW e \in Databases, NEW f \in Databases,
         Follows(d, e), Follows(e, f)
  PROVE  Follows(d, f)
BY Numbers DEF Follows, Named, Databases

\* A task and the state it has.
LEMMA RowsOf ==
  ASSUME NEW d \in Databases, NEW a \in AppIds, NEW S
  PROVE  /\ InState(d, a, S) \in SUBSET TaskIds
         /\ \A t \in TaskIds : t \in InState(d, a, S) <=> d.task[a][t].state \in S
         /\ \A t \in TaskIds : d.task[a][t].state \in TaskStates
                            /\ d.task[a][t].host \in Hosts \cup {NoHost}
BY DEF InState, Databases, TaskRow

\* createAppInstance keeps the database and adds no task to search.
LEMMA CreateAppInstanceOK ==
  ASSUME NEW d, DbOK(d), NEW a \in AppIds, ~Created(d, a), NEW T, Timed(d, T)
  PROVE  /\ DbOK(CreateAppInstance(d, a)) /\ Follows(d, CreateAppInstance(d, a))
         /\ Timed(CreateAppInstance(d, a), T)
         /\ CreateAppInstance(d, a).lastRid = d.lastRid
<1> DEFINE e == CreateAppInstance(d, a)
<1> USE DEF DbOK
<1>1. /\ e \in Databases
      /\ e.request = d.request /\ e.lastRid = d.lastRid /\ e.taskRequest = d.taskRequest
      /\ \A t \in TaskIds : e.task[a][t] = [state |-> "READY", host |-> NoHost]
      /\ \A b \in AppIds \ {a} : e.task[b] = d.task[b]
  BY DEF CreateAppInstance, SetTasks, Databases, TaskRow, TaskStates
<1>2. \A t \in TaskIds : d.task[a][t].state = "NONE"
  BY RowsOf DEF Whole
<1> HIDE DEF e
<1>3. \A x \in d.taskRequest : d.request[x[1]] \in AppIds \ {a}
  BY <1>2 DEF ConsistentRequests, ReadyTasksAreFree, RowsHaveRequest, Databases
<1>4. ConsistentRequests(e)
  BY <1>1, <1>3 DEF ConsistentRequests, RowsHaveRequest, OneTaskPerNumber, OneRequestPerTask,
                    ReadyTasksAreFree, Databases
<1>5. Whole(e)
  BY <1>1 DEF Whole, Created, InState
<1>6. Follows(d, e)
  <2>1. \A b \in AppIds : InState(d, b, {"FINISHED"}) \subseteq InState(e, b, {"FINISHED"})
    BY <1>1, <1>2 DEF InState
  <2> QED BY <1>1, <2>1, Numbers DEF Follows, Databases
<1>7. Timed(e, T)
  BY <1>1 DEF Timed, InState, GetInstanceId, TidsOfRequest
<1> QED BY <1>1, <1>4, <1>5, <1>6, <1>7 DEF e

\* The numbers of the requests that the instances A get.
RidsOf(d, A) == [a \in A |-> d.lastRid + Cardinality({b \in A : b <= a})]

\* The database once the requests of the instances A are created and started.
Asked(d, A)    == RequestFromReadyTasks(d, A, RidsOf(d, A))
Searching(d, A) == StartSearch(Asked(d, A), A, RidsOf(d, A))

\* Each instance gets a number of its own, and one that was not used.
LEMMA RidsAreNew ==
  ASSUME NEW d \in Databases, NEW A \in SUBSET AppIds, d.lastRid + MaxApps <= MaxRequests
  PROVE  /\ \A a \in A : /\ RidsOf(d, A)[a] \in Rids
                         /\ d.lastRid < RidsOf(d, A)[a]
                         /\ RidsOf(d, A)[a] <= d.lastRid + Cardinality(A)
         /\ \A a, b \in A : RidsOf(d, A)[a] = RidsOf(d, A)[b] => a = b
         /\ d.lastRid \in Nat /\ Cardinality(A) \in Nat
         /\ d.lastRid + Cardinality(A) \in 0 .. MaxRequests
<1> DEFINE C(a) == Cardinality({b \in A : b <= a})
<1>1. d.lastRid \in Nat /\ MaxApps \in Nat /\ MaxRequests \in Nat
  BY Numbers DEF Databases
<1>2. Cardinality(A) \in Nat /\ Cardinality(A) <= MaxApps
  BY <1>1, Counts DEF AppIds
<1>3. /\ \A a \in A : C(a) \in 1 .. MaxApps /\ C(a) <= Cardinality(A)
      /\ \A a, b \in A : C(a) = C(b) => a = b
  BY <1>1, Ranks DEF AppIds
<1>4. \A a \in A : RidsOf(d, A)[a] = d.lastRid + C(a)
  BY DEF RidsOf
<1> HIDE DEF C
<1> QED BY <1>1, <1>2, <1>3, <1>4 DEF Rids

\* The tasks of the new requests: the ready ones, each with a number.
LEMMA AskedRows ==
  ASSUME NEW d, DbOK(d), NEW A \in SUBSET AppIds, d.lastRid + MaxApps <= MaxRequests
  PROVE  /\ Asked(d, A) \in Databases
         /\ Asked(d, A).task = d.task
         /\ Asked(d, A).lastRid = d.lastRid + Cardinality(A)
         /\ \A a \in A : Asked(d, A).request[RidsOf(d, A)[a]] = a
         /\ \A r \in Rids : r <= d.lastRid => Asked(d, A).request[r] = d.request[r]
         /\ \A x \in d.taskRequest : x[1] <= d.lastRid
         /\ d.taskRequest \subseteq Asked(d, A).taskRequest
         /\ \A x \in Asked(d, A).taskRequest \ d.taskRequest :
              \E a \in A : /\ x[1] = RidsOf(d, A)[a] /\ x[3] \in Ready(d, a)
                           /\ x[2] = Cardinality({u \in Ready(d, a) : u <= x[3]})
         /\ \A a \in A : TidsOfRequest(Asked(d, A), RidsOf(d, A)[a]) = Ready(d, a)
<1> DEFINE e       == Asked(d, A)
           rid     == RidsOf(d, A)
           N(a, t) == Cardinality({u \in Ready(d, a) : u <= t})
           rows(a) == {<<rid[a], N(a, t), t>> : t \in Ready(d, a)}
<1>1. d \in Databases /\ ConsistentRequests(d)
  BY DEF DbOK
<1>2. /\ \A a \in A : rid[a] \in Rids /\ d.lastRid < rid[a]
      /\ \A a, b \in A : rid[a] = rid[b] => a = b
      /\ d.lastRid \in Nat /\ d.lastRid + Cardinality(A) \in 0 .. MaxRequests
  BY <1>1, RidsAreNew
<1>3. ASSUME NEW a \in A PROVE Ready(d, a) \in SUBSET TaskIds
  BY <1>1, RowsOf DEF Ready
<1>4. ASSUME NEW a \in A, NEW t \in Ready(d, a) PROVE N(a, t) \in TaskIds
  BY <1>3, Ranks, Numbers DEF TaskIds
<1>5. \A x \in d.taskRequest : x[1] <= d.lastRid
  BY <1>1 DEF ConsistentRequests, RowsHaveRequest
<1>6. /\ e.task = d.task /\ e.lastRid = d.lastRid + Cardinality(A)
      /\ e.request = [r \in Rids |-> IF \E a \in A : rid[a] = r
                                     THEN CHOOSE a \in A : rid[a] = r ELSE d.request[r]]
      /\ e.taskRequest = d.taskRequest \cup UNION {rows(a) : a \in A}
      /\ e = [task |-> e.task, request |-> e.request, lastRid |-> e.lastRid,
              taskRequest |-> e.taskRequest]
  <2>1. d = [task |-> d.task, request |-> d.request, lastRid |-> d.lastRid,
             taskRequest |-> d.taskRequest]
    BY <1>1 DEF Databases
  <2>2. e = [d EXCEPT
          !.request = [r \in Rids |-> IF \E a \in A : rid[a] = r
                                      THEN CHOOSE a \in A : rid[a] = r ELSE d.request[r]],
          !.lastRid = d.lastRid + Cardinality(A),
          !.taskRequest = d.taskRequest \cup UNION {rows(a) : a \in A}]
    BY Zenon DEF Asked, RequestFromReadyTasks
  <2> HIDE DEF e, rid, rows
  <2> QED BY <2>1, <2>2
<1> HIDE DEF e, rid, N
<1>7. \A a \in A : e.request[rid[a]] = a
  BY <1>2, <1>6
<1>8. \A r \in Rids : r <= d.lastRid => e.request[r] = d.request[r]
  BY <1>2, <1>6, Numbers
<1>9. e.request \in [Rids -> AppIds \cup {NoApp}]
  <2>1. d.request \in [Rids -> AppIds \cup {NoApp}]
    BY <1>1 DEF Databases
  <2>2. ASSUME NEW r \in Rids PROVE e.request[r] \in AppIds \cup {NoApp}
    BY <1>6, <2>1
  <2> QED BY <1>6, <2>2
<1>10. \A x \in e.taskRequest \ d.taskRequest :
         \E a \in A : x[1] = rid[a] /\ x[3] \in Ready(d, a) /\ x[2] = N(a, x[3])
  BY <1>6
<1>11. e.taskRequest \in SUBSET (Rids \X TaskIds \X TaskIds)
  <2>1. \A a \in A : rows(a) \in SUBSET (Rids \X TaskIds \X TaskIds)
    BY <1>2, <1>3, <1>4
  <2>2. d.taskRequest \in SUBSET (Rids \X TaskIds \X TaskIds)
    BY <1>1 DEF Databases
  <2> QED BY <1>6, <2>1, <2>2
<1>12. e \in Databases
  <2>1. d.task \in [AppIds -> [TaskIds -> TaskRow]]
    BY <1>1 DEF Databases
  <2> QED BY <1>2, <1>6, <1>9, <1>11, <2>1 DEF Databases
<1>13. ASSUME NEW a \in A PROVE TidsOfRequest(e, rid[a]) = Ready(d, a)
  <2>1. ASSUME NEW t \in Ready(d, a) PROVE t \in TidsOfRequest(e, rid[a])
    <3>1. <<rid[a], N(a, t), t>> \in rows(a)
      OBVIOUS
    <3>2. <<rid[a], N(a, t), t>> \in e.taskRequest
      BY <1>6, <3>1
    <3> QED BY <3>2 DEF TidsOfRequest
  <2>2. ASSUME NEW x \in e.taskRequest, x[1] = rid[a] PROVE x[3] \in Ready(d, a)
    <3>1. x \notin d.taskRequest
      <4>1. rid[a] \in Nat /\ d.lastRid \in Nat /\ d.lastRid < rid[a]
        BY <1>2, Numbers
      <4>2. ~ (rid[a] <= d.lastRid)
        BY <4>1
      <4> QED BY <1>5, <2>2, <4>2
    <3> QED BY <1>2, <1>10, <2>2, <3>1
  <2> QED BY <2>1, <2>2 DEF TidsOfRequest
<1> QED BY <1>5, <1>6, <1>7, <1>8, <1>10, <1>12, <1>13 DEF e, rid, N

\* The tasks of the new requests are searched, the others stay as they are.
LEMMA SearchingRows ==
  ASSUME NEW d, DbOK(d), NEW A \in SUBSET AppIds, d.lastRid + MaxApps <= MaxRequests
  PROVE  /\ Searching(d, A) \in Databases
         /\ Searching(d, A).request = Asked(d, A).request
         /\ Searching(d, A).lastRid = Asked(d, A).lastRid
         /\ Searching(d, A).taskRequest = Asked(d, A).taskRequest
         /\ \A a \in AppIds : \A t \in TaskIds :
              IF a \in A /\ t \in Ready(d, a)
              THEN Searching(d, A).task[a][t] = [d.task[a][t] EXCEPT !.state = "SEARCHING"]
              ELSE Searching(d, A).task[a][t] = d.task[a][t]
<1> DEFINE b   == Asked(d, A)
           e   == Searching(d, A)
           rid == RidsOf(d, A)
<1>0. /\ b \in Databases /\ b.task = d.task
      /\ \A a \in A : TidsOfRequest(b, rid[a]) = Ready(d, a)
  BY AskedRows
<1> DEFINE asked(a) == [t \in TaskIds |-> IF t \in TidsOfRequest(b, rid[a])
                                          THEN [b.task[a][t] EXCEPT !.state = "SEARCHING"]
                                          ELSE b.task[a][t]]
           task     == [a \in AppIds |-> IF a \in A THEN asked(a) ELSE b.task[a]]
<1>1. e = [b EXCEPT !.task = task]
  BY Zenon DEF Searching, StartSearch
<1> HIDE DEF b, e, rid
<1>2. b = [task |-> b.task, request |-> b.request, lastRid |-> b.lastRid,
           taskRequest |-> b.taskRequest]
  BY <1>0 DEF Databases
<1>3. b.task \in [AppIds -> [TaskIds -> TaskRow]]
  BY <1>0 DEF Databases
<1>4. ASSUME NEW a \in A
      PROVE  /\ asked(a) \in [TaskIds -> TaskRow]
             /\ \A t \in TaskIds :
                  IF t \in Ready(d, a)
                  THEN asked(a)[t] = [d.task[a][t] EXCEPT !.state = "SEARCHING"]
                  ELSE asked(a)[t] = d.task[a][t]
  <2>1. ASSUME NEW t \in TaskIds PROVE [b.task[a][t] EXCEPT !.state = "SEARCHING"] \in TaskRow
    BY <1>3 DEF TaskRow, TaskStates
  <2>2. ASSUME NEW t \in TaskIds PROVE b.task[a][t] \in TaskRow
    BY <1>3
  <2> QED BY <1>0, <2>1, <2>2
<1> HIDE DEF asked
<1>5. task \in [AppIds -> [TaskIds -> TaskRow]]
  BY <1>3, <1>4
<1>6. \A a \in AppIds : task[a] = IF a \in A THEN asked(a) ELSE d.task[a]
  BY <1>0
<1> HIDE DEF task
<1>7. e.task = task /\ e.request = b.request /\ e.lastRid = b.lastRid
      /\ e.taskRequest = b.taskRequest
  BY <1>1, <1>2
<1>8. e \in Databases
  BY <1>0, <1>1, <1>2, <1>5 DEF Databases
<1> QED BY <1>4, <1>6, <1>7, <1>8 DEF b, e, rid

\* The new requests are right, and they are the ones of their timers.
LEMMA SearchingOK ==
  ASSUME NEW d, DbOK(d), NEW A \in SUBSET AppIds, d.lastRid + MaxApps <= MaxRequests,
         NEW T, Timed(d, T)
  PROVE  /\ DbOK(Searching(d, A)) /\ Follows(d, Searching(d, A))
         /\ Timed(Searching(d, A), T \cup {RequestTimer(RidsOf(d, A)[a]) : a \in A})
         /\ \A a \in A : /\ RidsOf(d, A)[a] \in Rids /\ Named(Searching(d, A), RidsOf(d, A)[a])
                         /\ GetInstanceId(Asked(d, A), RidsOf(d, A)[a]) = a
<1> DEFINE b       == Asked(d, A)
           e       == Searching(d, A)
           rid     == RidsOf(d, A)
           N(a, t) == Cardinality({u \in Ready(d, a) : u <= t})
<1>1. d \in Databases /\ ConsistentRequests(d) /\ Whole(d)
  BY DEF DbOK
<1>2. /\ \A a \in A : rid[a] \in Rids /\ d.lastRid < rid[a]
                      /\ rid[a] <= d.lastRid + Cardinality(A)
      /\ \A a, c \in A : rid[a] = rid[c] => a = c
      /\ d.lastRid \in Nat /\ Cardinality(A) \in Nat
      /\ d.lastRid + Cardinality(A) \in 0 .. MaxRequests
  BY <1>1, RidsAreNew
<1>3. /\ b \in Databases /\ b.task = d.task /\ b.lastRid = d.lastRid + Cardinality(A)
      /\ \A a \in A : b.request[rid[a]] = a
      /\ \A r \in Rids : r <= d.lastRid => b.request[r] = d.request[r]
      /\ \A x \in d.taskRequest : x[1] <= d.lastRid
      /\ d.taskRequest \subseteq b.taskRequest
      /\ \A x \in b.taskRequest \ d.taskRequest :
           \E a \in A : x[1] = rid[a] /\ x[3] \in Ready(d, a) /\ x[2] = N(a, x[3])
      /\ \A a \in A : TidsOfRequest(b, rid[a]) = Ready(d, a)
  BY AskedRows
<1>4. \A a \in A : /\ Ready(d, a) \in SUBSET TaskIds
                   /\ \A t \in TaskIds : t \in Ready(d, a) <=> d.task[a][t].state = "READY"
  BY <1>1, RowsOf DEF Ready
<1>5. \A a \in A : \A t, u \in Ready(d, a) : N(a, t) = N(a, u) => t = u
  BY <1>4, Ranks, Numbers DEF TaskIds
<1>6. /\ e \in Databases
      /\ e.request = b.request /\ e.lastRid = b.lastRid /\ e.taskRequest = b.taskRequest
      /\ \A a \in AppIds : \A t \in TaskIds :
           IF a \in A /\ t \in Ready(d, a)
           THEN e.task[a][t] = [d.task[a][t] EXCEPT !.state = "SEARCHING"]
           ELSE e.task[a][t] = d.task[a][t]
  BY SearchingRows
<1> HIDE DEF b, e, rid, N
<1>7. Rids \subseteq Nat
  BY Numbers
<1>8. \A x \in d.taskRequest : /\ x \in e.taskRequest /\ x[1] \in Rids /\ x[1] <= d.lastRid
                               /\ e.request[x[1]] = d.request[x[1]]
                               /\ d.request[x[1]] \in AppIds /\ x[3] \in TaskIds
  BY <1>1, <1>3, <1>6 DEF ConsistentRequests, RowsHaveRequest, Databases
<1>9. \A x \in e.taskRequest \ d.taskRequest :
        \E a \in A : /\ x[1] = rid[a] /\ x[3] \in Ready(d, a) /\ x[2] = N(a, x[3])
                     /\ e.request[x[1]] = a /\ ~ (x[1] <= d.lastRid)
  BY <1>2, <1>3, <1>6, <1>7
<1>10. \A x \in d.taskRequest : x[3] \notin Ready(d, d.request[x[1]])
  BY <1>1 DEF ConsistentRequests, ReadyTasksAreFree, Ready, InState
<1>11. RowsHaveRequest(e)
  <2>1. ASSUME NEW x \in e.taskRequest PROVE x[1] <= e.lastRid /\ e.request[x[1]] \in AppIds
    <3>1. CASE x \in d.taskRequest
      BY <1>2, <1>3, <1>6, <1>7, <1>8, <3>1
    <3>2. CASE x \notin d.taskRequest
      BY <1>2, <1>3, <1>6, <1>9, <3>2
    <3> QED BY <3>1, <3>2
  <2> QED BY <2>1 DEF RowsHaveRequest
<1>12. OneTaskPerNumber(e)
  <2>1. ASSUME NEW x \in e.taskRequest, NEW y \in e.taskRequest, x[1] = y[1], x[2] = y[2]
        PROVE  x[3] = y[3]
    <3>1. CASE x \in d.taskRequest
      BY <1>1, <1>8, <1>9, <2>1, <3>1 DEF ConsistentRequests, OneTaskPerNumber
    <3>2. CASE x \notin d.taskRequest
      <4>1. y \notin d.taskRequest
        BY <1>8, <1>9, <2>1, <3>2
      <4> QED BY <1>5, <1>9, <2>1, <3>2, <4>1
    <3> QED BY <3>1, <3>2
  <2> QED BY <2>1 DEF OneTaskPerNumber
<1>13. OneRequestPerTask(e)
  <2>1. ASSUME NEW x \in e.taskRequest, NEW y \in e.taskRequest,
               e.request[x[1]] = e.request[y[1]], x[3] = y[3]
        PROVE  x[1] = y[1]
    <3>1. CASE x \in d.taskRequest /\ y \in d.taskRequest
      BY <1>1, <1>8, <2>1, <3>1 DEF ConsistentRequests, OneRequestPerTask
    <3>2. CASE x \notin d.taskRequest /\ y \notin d.taskRequest
      BY <1>9, <2>1, <3>2
    <3>3. CASE x \in d.taskRequest /\ y \notin d.taskRequest
      BY <1>8, <1>9, <1>10, <2>1, <3>3
    <3>4. CASE x \notin d.taskRequest /\ y \in d.taskRequest
      BY <1>8, <1>9, <1>10, <2>1, <3>4
    <3> QED BY <3>1, <3>2, <3>3, <3>4
  <2> QED BY <2>1 DEF OneRequestPerTask
<1>14. ReadyTasksAreFree(e)
  <2>1. ASSUME NEW x \in e.taskRequest
        PROVE  e.task[e.request[x[1]]][x[3]].state \in {"SEARCHING", "EXECUTING", "FINISHED"}
    <3>1. CASE x \in d.taskRequest
      <4> DEFINE c == d.request[x[1]]
      <4>1. d.task[c][x[3]].state \in {"SEARCHING", "EXECUTING", "FINISHED"}
        BY <1>1, <3>1 DEF ConsistentRequests, ReadyTasksAreFree
      <4>2. c \in AppIds /\ x[3] \in TaskIds /\ x[3] \notin Ready(d, c) /\ e.request[x[1]] = c
        BY <1>8, <1>10, <3>1
      <4> HIDE DEF c
      <4>3. e.task[c][x[3]] = d.task[c][x[3]]
        BY ONLY <1>6, <4>2
      <4> QED BY <4>1, <4>2, <4>3
    <3>2. CASE x \notin d.taskRequest
      <4>1. PICK a \in A : x[3] \in Ready(d, a) /\ e.request[x[1]] = a
        BY <1>9, <3>2
      <4>2. e.task[a][x[3]] = [d.task[a][x[3]] EXCEPT !.state = "SEARCHING"]
        BY <1>4, <1>6, <4>1
      <4>3. d.task[a][x[3]] \in TaskRow
        BY <1>1, <1>4, <4>1 DEF Databases
      <4> QED BY <4>1, <4>2, <4>3 DEF TaskRow
    <3> QED BY <3>1, <3>2
  <2> QED BY <2>1 DEF ReadyTasksAreFree
<1>15. \A a \in AppIds : \A t \in TaskIds :
         /\ d.task[a][t] \in TaskRow
         /\ a \in A /\ t \in Ready(d, a) =>
              d.task[a][t].state = "READY" /\ e.task[a][t].state = "SEARCHING"
         /\ ~ (a \in A /\ t \in Ready(d, a)) => e.task[a][t].state = d.task[a][t].state
  <2>1. \A a \in AppIds : \A t \in TaskIds : d.task[a][t] \in TaskRow
    BY <1>1 DEF Databases
  <2>2. \A row \in TaskRow : [row EXCEPT !.state = "SEARCHING"].state = "SEARCHING"
    BY DEF TaskRow
  <2>3. ASSUME NEW a \in AppIds, NEW t \in TaskIds, a \in A, t \in Ready(d, a)
        PROVE  d.task[a][t].state = "READY" /\ e.task[a][t].state = "SEARCHING"
    <3>1. e.task[a][t] = [d.task[a][t] EXCEPT !.state = "SEARCHING"]
      BY <1>6, <2>3
    <3>2. e.task[a][t].state = "SEARCHING"
      BY <2>1, <2>2, <3>1
    <3> QED BY <1>4, <2>3, <3>2
  <2>4. ASSUME NEW a \in AppIds, NEW t \in TaskIds, ~ (a \in A /\ t \in Ready(d, a))
        PROVE  e.task[a][t].state = d.task[a][t].state
    BY <1>6, <2>4
  <2> QED BY <2>1, <2>3, <2>4
<1>16. Whole(e)
  BY <1>1, <1>15 DEF Whole, Created, InState
<1>17. Follows(d, e)
  <2>1. \A a \in AppIds : InState(d, a, {"FINISHED"}) \subseteq InState(e, a, {"FINISHED"})
    BY <1>15 DEF InState
  <2>2. d.lastRid <= e.lastRid /\ \A r \in Rids : r <= d.lastRid => e.request[r] = d.request[r]
    BY <1>2, <1>3, <1>6
  <2> QED BY <2>1, <2>2 DEF Follows, Named
<1>18. Timed(e, T \cup {RequestTimer(rid[a]) : a \in A})
  <2>1. ASSUME NEW a \in AppIds, NEW t \in InState(e, a, {"SEARCHING"})
        PROVE  \E r \in Rids : /\ GetInstanceId(e, r) = a /\ t \in TidsOfRequest(e, r)
                               /\ RequestTimer(r) \in T \cup {RequestTimer(rid[c]) : c \in A}
    <3>1. CASE a \in A /\ t \in Ready(d, a)
      <4>1. TidsOfRequest(e, rid[a]) = TidsOfRequest(b, rid[a])
        BY <1>6 DEF TidsOfRequest
      <4> QED BY <1>2, <1>3, <1>6, <3>1, <4>1 DEF GetInstanceId
    <3>2. CASE ~ (a \in A /\ t \in Ready(d, a))
      <4>1. t \in InState(d, a, {"SEARCHING"})
        BY <1>15, <3>2 DEF InState
      <4>2. PICK r \in Rids : /\ GetInstanceId(d, r) = a /\ t \in TidsOfRequest(d, r)
                              /\ RequestTimer(r) \in T
        BY <4>1 DEF Timed
      <4>3. PICK x \in d.taskRequest : x[1] = r /\ x[3] = t
        BY <4>2 DEF TidsOfRequest
      <4>4. GetInstanceId(e, r) = a
        BY <1>8, <4>2, <4>3 DEF GetInstanceId
      <4>5. t \in TidsOfRequest(e, r)
        BY <1>8, <4>3 DEF TidsOfRequest
      <4> QED BY <4>2, <4>4, <4>5
    <3> QED BY <3>1, <3>2
  <2> QED BY <2>1 DEF Timed
<1>19. \A a \in A : rid[a] \in Rids /\ Named(e, rid[a]) /\ GetInstanceId(b, rid[a]) = a
  BY <1>2, <1>3, <1>6 DEF Named, GetInstanceId
<1> QED BY <1>6, <1>11, <1>12, <1>13, <1>14, <1>16, <1>17, <1>18, <1>19
        DEF DbOK, ConsistentRequests, b, e, rid

\* What the methods that create no request do: no task is searched that was not,
\* a task made ready leaves its request, and a searched one stays in it and keeps
\* its timer, when the timers T become U.
Updates(d, e, T, U) ==
  /\ e \in Databases /\ e.request = d.request /\ e.lastRid = d.lastRid
  /\ e.taskRequest \subseteq d.taskRequest
  /\ \A a \in AppIds : \A t \in TaskIds :
       /\ d.task[a][t].state = "NONE" <=> e.task[a][t].state = "NONE"
       /\ d.task[a][t].state = "FINISHED" => e.task[a][t].state = "FINISHED"
       /\ e.task[a][t].state = "SEARCHING" => d.task[a][t].state = "SEARCHING"
  /\ \A x \in e.taskRequest :
       e.task[d.request[x[1]]][x[3]].state = "READY" =>
         d.task[d.request[x[1]]][x[3]].state = "READY"
  /\ \A x \in d.taskRequest :
       e.task[d.request[x[1]]][x[3]].state = "SEARCHING" =>
         /\ x \in e.taskRequest
         /\ RequestTimer(x[1]) \in T => RequestTimer(x[1]) \in U

\* What an update of rows of one instance keeps.
LEMMA UpdateOK ==
  ASSUME NEW d, DbOK(d), NEW e, NEW T, NEW U, Timed(d, T), Updates(d, e, T, U)
  PROVE  DbOK(e) /\ Follows(d, e) /\ Timed(e, U)
<1> USE DEF Updates
<1>1. d \in Databases /\ ConsistentRequests(d) /\ Whole(d)
  BY DEF DbOK
<1>2. \A x \in d.taskRequest : d.request[x[1]] \in AppIds /\ x[3] \in TaskIds /\ x[1] \in Rids
  BY <1>1 DEF ConsistentRequests, RowsHaveRequest, Databases
<1>3. RowsHaveRequest(e) /\ OneTaskPerNumber(e) /\ OneRequestPerTask(e)
  BY <1>1 DEF ConsistentRequests, RowsHaveRequest, OneTaskPerNumber, OneRequestPerTask
<1>4. ReadyTasksAreFree(e)
  <2>1. ASSUME NEW x \in e.taskRequest
        PROVE  e.task[e.request[x[1]]][x[3]].state \in {"SEARCHING", "EXECUTING", "FINISHED"}
    <3>1. d.request[x[1]] \in AppIds /\ x[3] \in TaskIds
      BY <1>2
    <3>2. d.task[d.request[x[1]]][x[3]].state \in {"SEARCHING", "EXECUTING", "FINISHED"}
      BY <1>1 DEF ConsistentRequests, ReadyTasksAreFree
    <3>3. e.task[d.request[x[1]]][x[3]].state \in TaskStates
      BY <3>1, RowsOf
    <3> QED BY <3>1, <3>2, <3>3 DEF TaskStates
  <2> QED BY <2>1 DEF ReadyTasksAreFree
<1>5. Whole(e)
  BY <1>1 DEF Whole, Created, InState
<1>6. Follows(d, e)
  <2>1. \A a \in AppIds : InState(d, a, {"FINISHED"}) \subseteq InState(e, a, {"FINISHED"})
    BY DEF InState
  <2>2. d.lastRid <= e.lastRid
    BY <1>1, Numbers DEF Databases
  <2> QED BY <2>1, <2>2 DEF Follows
<1>7. Timed(e, U)
  <2>1. ASSUME NEW a \in AppIds, NEW t \in InState(e, a, {"SEARCHING"})
        PROVE  \E r \in Rids : /\ GetInstanceId(e, r) = a /\ t \in TidsOfRequest(e, r)
                               /\ RequestTimer(r) \in U
    <3>1. t \in InState(d, a, {"SEARCHING"}) /\ e.task[a][t].state = "SEARCHING"
      BY DEF InState
    <3>2. PICK r \in Rids : /\ GetInstanceId(d, r) = a /\ t \in TidsOfRequest(d, r)
                            /\ RequestTimer(r) \in T
      BY <3>1 DEF Timed
    <3>3. PICK x \in d.taskRequest : x[1] = r /\ x[3] = t
      BY <3>2 DEF TidsOfRequest
    <3>4. x \in e.taskRequest /\ RequestTimer(r) \in U
      BY <3>1, <3>2, <3>3 DEF GetInstanceId
    <3>5. t \in TidsOfRequest(e, r)
      BY <3>3, <3>4 DEF TidsOfRequest
    <3> QED BY <3>2, <3>4, <3>5 DEF GetInstanceId
  <2> QED BY <2>1 DEF Timed
<1> QED BY <1>3, <1>4, <1>5, <1>6, <1>7 DEF DbOK, ConsistentRequests

\* The rows that a change of the state of some tasks leaves.
LEMMA SetStateRows ==
  ASSUME NEW d \in Databases, NEW a \in AppIds, NEW S, NEW s \in TaskStates
  PROVE  /\ SetState(d, a, S, s) \in Databases
         /\ SetState(d, a, S, s).request = d.request
         /\ SetState(d, a, S, s).lastRid = d.lastRid
         /\ SetState(d, a, S, s).taskRequest = d.taskRequest
         /\ \A b \in AppIds : \A t \in TaskIds :
              /\ SetState(d, a, S, s).task[b][t].state =
                   IF b = a /\ t \in S THEN s ELSE d.task[b][t].state
              /\ SetState(d, a, S, s).task[b][t].host = d.task[b][t].host
<1> DEFINE e   == SetState(d, a, S, s)
           row == [t \in TaskIds |-> IF t \in S THEN [d.task[a][t] EXCEPT !.state = s]
                                     ELSE d.task[a][t]]
<1>1. d = [task |-> d.task, request |-> d.request, lastRid |-> d.lastRid,
           taskRequest |-> d.taskRequest] /\ d.task \in [AppIds -> [TaskIds -> TaskRow]]
  BY DEF Databases
<1>2. e = [d EXCEPT !.task = [d.task EXCEPT ![a] = row]]
  BY <1>1 DEF SetState
<1>3. /\ row \in [TaskIds -> TaskRow]
      /\ \A t \in TaskIds : /\ row[t].state = IF t \in S THEN s ELSE d.task[a][t].state
                            /\ row[t].host = d.task[a][t].host
  <2>1. ASSUME NEW t \in TaskIds, t \in S
        PROVE  /\ row[t] \in TaskRow /\ row[t].state = s
               /\ row[t].host = d.task[a][t].host
    <3>1. d.task[a][t] \in TaskRow
      BY <1>1
    <3>2. row[t] = [d.task[a][t] EXCEPT !.state = s]
      BY <2>1
    <3> HIDE DEF row
    <3> QED BY <3>1, <3>2 DEF TaskRow
  <2>2. ASSUME NEW t \in TaskIds, t \notin S PROVE row[t] \in TaskRow /\ row[t] = d.task[a][t]
    BY <1>1, <2>2
  <2>3. row \in [TaskIds -> TaskRow]
    BY <2>1, <2>2
  <2> HIDE DEF row
  <2> QED BY <2>1, <2>2, <2>3
<1> HIDE DEF e, row
<1>4. /\ e.task = [d.task EXCEPT ![a] = row] /\ e.request = d.request
      /\ e.lastRid = d.lastRid /\ e.taskRequest = d.taskRequest
      /\ e = [task |-> e.task, request |-> e.request, lastRid |-> e.lastRid,
              taskRequest |-> e.taskRequest]
  BY <1>1, <1>2
<1>5. e.task \in [AppIds -> [TaskIds -> TaskRow]]
  BY <1>1, <1>3, <1>4
<1>6. e \in Databases
  BY <1>4, <1>5 DEF Databases
<1> QED BY <1>1, <1>3, <1>4, <1>6 DEF e

\* cancelSearch makes the searched tasks of the request ready and takes them out of it.
LEMMA CancelSearchRows ==
  ASSUME NEW d, DbOK(d), NEW r \in Rids, Named(d, r)
  PROVE  /\ CancelSearch(d, r) \in Databases
         /\ CancelSearch(d, r).request = d.request
         /\ CancelSearch(d, r).lastRid = d.lastRid
         /\ CancelSearch(d, r).taskRequest =
              {x \in d.taskRequest :
                 ~(x[1] = r /\ CancelSearch(d, r).task[GetInstanceId(d, r)][x[3]].state = "READY")}
         /\ \A a \in AppIds : \A t \in TaskIds :
              /\ CancelSearch(d, r).task[a][t].state =
                   IF a = GetInstanceId(d, r) /\ t \in Cancelled(d, r) THEN "READY"
                   ELSE d.task[a][t].state
              /\ CancelSearch(d, r).task[a][t].host = d.task[a][t].host
         /\ \A t \in TaskIds :
              t \in Cancelled(d, r) <=> /\ t \in TidsOfRequest(d, r)
                                       /\ d.task[GetInstanceId(d, r)][t].state = "SEARCHING"
<1> DEFINE e    == CancelSearch(d, r)
           a    == GetInstanceId(d, r)
           next == SetState(d, a, Cancelled(d, r), "READY")
<1>1. d \in Databases /\ ConsistentRequests(d) /\ a \in AppIds
  BY DEF DbOK, Named, GetInstanceId
<1>2. /\ next \in Databases /\ next.request = d.request /\ next.lastRid = d.lastRid
      /\ next.taskRequest = d.taskRequest
      /\ \A b \in AppIds : \A t \in TaskIds :
           /\ next.task[b][t].state =
                IF b = a /\ t \in Cancelled(d, r) THEN "READY" ELSE d.task[b][t].state
           /\ next.task[b][t].host = d.task[b][t].host
  BY <1>1, SetStateRows DEF TaskStates
<1>3. \A t \in TaskIds : t \in Cancelled(d, r) <=> /\ t \in TidsOfRequest(d, r)
                                                   /\ d.task[a][t].state = "SEARCHING"
  BY DEF Cancelled, InState
<1> HIDE DEF next
<1>4. /\ e \in Databases /\ e.task = next.task /\ e.request = d.request /\ e.lastRid = d.lastRid
      /\ e.taskRequest = {x \in d.taskRequest : ~(x[1] = r /\ x[3] \in Ready(next, a))}
  BY <1>2 DEF CancelSearch, next, Databases
<1>5. \A x \in d.taskRequest : x[3] \in TaskIds
  BY <1>1 DEF Databases
<1> HIDE DEF e, a
<1>6. \A t \in TaskIds : t \in Ready(next, a) <=> e.task[a][t].state = "READY"
  BY <1>4 DEF Ready, InState
<1>7. e.taskRequest = {x \in d.taskRequest : ~(x[1] = r /\ e.task[a][x[3]].state = "READY")}
  BY <1>4, <1>5, <1>6
<1> QED BY <1>2, <1>3, <1>4, <1>7 DEF e, a

\* cancelSearch leaves no task to the timer of its request.
LEMMA CancelSearchOK ==
  ASSUME NEW d, DbOK(d), NEW r \in Rids, Named(d, r), NEW T, Timed(d, T)
  PROVE  /\ DbOK(CancelSearch(d, r)) /\ Follows(d, CancelSearch(d, r))
         /\ Timed(CancelSearch(d, r), T \ {RequestTimer(r)})
         /\ CancelSearch(d, r).lastRid = d.lastRid
<1> DEFINE e    == CancelSearch(d, r)
           a    == GetInstanceId(d, r)
<1>1. d \in Databases /\ ConsistentRequests(d) /\ a \in AppIds
  BY DEF DbOK, Named, GetInstanceId
<1>2. /\ e \in Databases /\ e.request = d.request /\ e.lastRid = d.lastRid
      /\ e.taskRequest = {x \in d.taskRequest : ~(x[1] = r /\ e.task[a][x[3]].state = "READY")}
      /\ \A b \in AppIds : \A t \in TaskIds :
           e.task[b][t].state =
             IF b = a /\ t \in Cancelled(d, r) THEN "READY" ELSE d.task[b][t].state
      /\ \A t \in TaskIds : t \in Cancelled(d, r) <=> /\ t \in TidsOfRequest(d, r)
                                                     /\ d.task[a][t].state = "SEARCHING"
  BY CancelSearchRows
<1>3. \A t \in TaskIds : t \in Cancelled(d, r) <=> /\ t \in TidsOfRequest(d, r)
                                                   /\ d.task[a][t].state = "SEARCHING"
  BY <1>2
<1>4. /\ e \in Databases /\ e.request = d.request /\ e.lastRid = d.lastRid
      /\ e.taskRequest = {x \in d.taskRequest : ~(x[1] = r /\ e.task[a][x[3]].state = "READY")}
  BY <1>2
<1> HIDE DEF e, a
<1>5. \A x \in d.taskRequest : /\ d.request[x[1]] \in AppIds /\ x[3] \in TaskIds
                               /\ x[1] = r => d.request[x[1]] = a /\ x[3] \in TidsOfRequest(d, r)
  BY <1>1 DEF ConsistentRequests, RowsHaveRequest, Databases, TidsOfRequest, GetInstanceId, a
<1>7. ASSUME NEW x \in d.taskRequest,
             e.task[d.request[x[1]]][x[3]].state # d.task[d.request[x[1]]][x[3]].state
      PROVE  x \notin e.taskRequest
  <2>1. d.request[x[1]] = a /\ x[3] \in Cancelled(d, r) /\ e.task[a][x[3]].state = "READY"
    BY <1>2, <1>5, <1>7
  <2>2. PICK y \in d.taskRequest : y[1] = r /\ y[3] = x[3]
    BY <1>3, <1>5, <2>1 DEF TidsOfRequest
  <2>3. x[1] = r
    BY <1>1, <1>5, <2>1, <2>2 DEF ConsistentRequests, OneRequestPerTask
  <2> QED BY <1>4, <1>5, <2>1, <2>3
<1>8. ASSUME NEW x \in d.taskRequest, e.task[d.request[x[1]]][x[3]].state = "SEARCHING"
      PROVE  x \in e.taskRequest /\ x[1] # r
  <2>1. x[1] # r
    BY <1>2, <1>3, <1>4, <1>5, <1>8
  <2> QED BY <1>4, <2>1
<1>9. \A b \in AppIds : \A t \in TaskIds :
        /\ d.task[b][t].state = "NONE" <=> e.task[b][t].state = "NONE"
        /\ d.task[b][t].state = "FINISHED" => e.task[b][t].state = "FINISHED"
        /\ e.task[b][t].state = "SEARCHING" => d.task[b][t].state = "SEARCHING"
  BY <1>2, <1>3, <1>4
<1>10. \A q \in Rids : RequestTimer(q) = RequestTimer(r) => q = r
  BY DEF RequestTimer
<1>11. \A x \in d.taskRequest : x[1] \in Rids
  BY <1>1 DEF Databases
<1>12. e.taskRequest \subseteq d.taskRequest
  BY <1>4
<1>13. \A x \in e.taskRequest : e.task[d.request[x[1]]][x[3]].state = "READY" =>
                                   d.task[d.request[x[1]]][x[3]].state = "READY"
  BY <1>7, <1>12
<1>14. \A x \in d.taskRequest : e.task[d.request[x[1]]][x[3]].state = "SEARCHING" =>
         /\ x \in e.taskRequest
         /\ RequestTimer(x[1]) \in T => RequestTimer(x[1]) \in T \ {RequestTimer(r)}
  BY <1>8, <1>10, <1>11
<1>15. Updates(d, e, T, T \ {RequestTimer(r)})
  BY <1>4, <1>9, <1>12, <1>13, <1>14 DEF Updates
<1> QED BY <1>4, <1>15, UpdateOK DEF e

\* acceptedTasks gives the searched tasks of the keys to the node.
LEMMA AcceptedTasksRows ==
  ASSUME NEW d \in Databases, NEW h \in Hosts, NEW K
  PROVE  /\ AcceptedTasks(d, h, K) \in Databases
         /\ AcceptedTasks(d, h, K).request = d.request
         /\ AcceptedTasks(d, h, K).lastRid = d.lastRid
         /\ AcceptedTasks(d, h, K).taskRequest = d.taskRequest
         /\ \A a \in AppIds : \A t \in TaskIds :
              AcceptedTasks(d, h, K).task[a][t] =
                IF t \in Accepted(d, a, K) THEN [state |-> "EXECUTING", host |-> h]
                ELSE d.task[a][t]
<1> DEFINE e == AcceptedTasks(d, h, K)
<1>1. /\ e.request = d.request /\ e.lastRid = d.lastRid /\ e.taskRequest = d.taskRequest
      /\ e.task = [a \in AppIds |-> [t \in TaskIds |->
           IF t \in Accepted(d, a, K) THEN [state |-> "EXECUTING", host |-> h]
           ELSE d.task[a][t]]]
      /\ e = [task |-> e.task, request |-> e.request, lastRid |-> e.lastRid,
              taskRequest |-> e.taskRequest]
  <2> DEFINE task == [a \in AppIds |-> [t \in TaskIds |->
               IF t \in Accepted(d, a, K) THEN [state |-> "EXECUTING", host |-> h]
               ELSE d.task[a][t]]]
  <2>1. d = [task |-> d.task, request |-> d.request, lastRid |-> d.lastRid,
             taskRequest |-> d.taskRequest]
    BY DEF Databases
  <2>2. e = [d EXCEPT !.task = task]
    BY Zenon DEF AcceptedTasks
  <2> HIDE DEF e, task
  <2>3. /\ e.task = task /\ e.taskRequest = d.taskRequest /\ e.request = d.request
        /\ e.lastRid = d.lastRid
        /\ e = [task |-> e.task, request |-> e.request, lastRid |-> e.lastRid,
                taskRequest |-> e.taskRequest]
    BY <2>1, <2>2
  <2> QED BY <2>3 DEF task
<1> HIDE DEF e
<1>2. e \in Databases
  <2>1. e.task \in [AppIds -> [TaskIds -> TaskRow]]
    BY <1>1 DEF Databases, TaskRow, TaskStates
  <2> QED BY <1>1, <2>1 DEF Databases
<1> QED BY <1>1, <1>2 DEF e

\* acceptedTasks keeps the rows, and the searches it ends need no timer.
LEMMA AcceptedTasksOK ==
  ASSUME NEW d, DbOK(d), NEW h \in Hosts, NEW K, NEW T, Timed(d, T)
  PROVE  /\ DbOK(AcceptedTasks(d, h, K)) /\ Follows(d, AcceptedTasks(d, h, K))
         /\ Timed(AcceptedTasks(d, h, K), T)
         /\ AcceptedTasks(d, h, K).lastRid = d.lastRid
<1> DEFINE e == AcceptedTasks(d, h, K)
<1>1. d \in Databases
  BY DEF DbOK
<1>2. \A a \in AppIds : \A t \in Accepted(d, a, K) : d.task[a][t].state = "SEARCHING"
  BY DEF Accepted, InState
<1>3. /\ e \in Databases
      /\ e.request = d.request /\ e.lastRid = d.lastRid /\ e.taskRequest = d.taskRequest
      /\ \A a \in AppIds : \A t \in TaskIds :
           e.task[a][t] = IF t \in Accepted(d, a, K) THEN [state |-> "EXECUTING", host |-> h]
                          ELSE d.task[a][t]
  BY <1>1, AcceptedTasksRows
<1> HIDE DEF e
<1>5. \A a \in AppIds : \A t \in TaskIds :
        e.task[a][t].state = IF t \in Accepted(d, a, K) THEN "EXECUTING" ELSE d.task[a][t].state
  BY <1>3
<1>6. \A x \in d.taskRequest : d.request[x[1]] \in AppIds /\ x[3] \in TaskIds
  BY DEF DbOK, ConsistentRequests, RowsHaveRequest, Databases
<1>7. Updates(d, e, T, T)
  BY <1>2, <1>3, <1>5, <1>6 DEF Updates
<1> QED BY <1>3, <1>7, UpdateOK DEF e

\* The node that reports a task may only end it, not take it from a request.
LEMMA FinishedTaskOK ==
  ASSUME NEW d, DbOK(d), NEW h, NEW k \in Keys, Named(d, k[1]), NEW T, Timed(d, T)
  PROVE  /\ DbOK(FinishedTask(d, h, k)) /\ Follows(d, FinishedTask(d, h, k))
         /\ Timed(FinishedTask(d, h, k), T)
         /\ FinishedTask(d, h, k).lastRid = d.lastRid
<1> DEFINE a == GetInstanceId(d, k[1])
           S == {t \in TidsOf(d, {k}) : d.task[a][t].host = h}
           e == SetState(d, a, S, "FINISHED")
<1>1. d \in Databases /\ ConsistentRequests(d) /\ a \in AppIds
  BY DEF DbOK, Named, GetInstanceId
<1>2. CASE ~ FinishedTaskReturns(d, k)
  BY <1>1, <1>2, FollowsItself DEF FinishedTask
<1>3. CASE FinishedTaskReturns(d, k)
  <2>1. FinishedTask(d, h, k) = e
    BY <1>3 DEF FinishedTask
  <2>2. /\ e \in Databases /\ e.request = d.request /\ e.lastRid = d.lastRid
        /\ e.taskRequest = d.taskRequest
        /\ \A b \in AppIds : \A t \in TaskIds :
             e.task[b][t].state = IF b = a /\ t \in S THEN "FINISHED" ELSE d.task[b][t].state
    <3> HIDE DEF S, a
    <3> QED BY <1>1, SetStateRows DEF TaskStates
  <2>3. ASSUME NEW t \in S PROVE d.task[a][t].state # "NONE"
    <3>1. PICK x \in d.taskRequest : <<x[1], x[2]>> = k /\ x[3] = t
      BY DEF TidsOf
    <3>2. x[1] = k[1]
      BY <3>1
    <3> QED BY <1>1, <3>1, <3>2 DEF ConsistentRequests, ReadyTasksAreFree, GetInstanceId
  <2> HIDE DEF e, S, a
  <2>4. \A x \in d.taskRequest : d.request[x[1]] \in AppIds /\ x[3] \in TaskIds
    BY <1>1 DEF ConsistentRequests, RowsHaveRequest, Databases
  <2>5. Updates(d, e, T, T)
    BY <2>2, <2>3, <2>4 DEF Updates
  <2> QED BY <2>1, <2>2, <2>5, UpdateOK
<1> QED BY <1>2, <1>3

\* deadNode makes the tasks of the node ready and takes them out of their requests.
LEMMA DeadNodeRows ==
  ASSUME NEW d \in Databases, NEW h
  PROVE  /\ DeadNode(d, h) \in Databases
         /\ DeadNode(d, h).request = d.request
         /\ DeadNode(d, h).lastRid = d.lastRid
         /\ DeadNode(d, h).taskRequest =
              {x \in d.taskRequest :
                 ~\E a \in AppIds : a = d.request[x[1]] /\ x[3] \in ExecutingAt(d, a, h)}
         /\ \A a \in AppIds : \A t \in TaskIds :
              DeadNode(d, h).task[a][t] =
                IF t \in ExecutingAt(d, a, h) THEN [state |-> "READY", host |-> NoHost]
                ELSE d.task[a][t]
<1> DEFINE e == DeadNode(d, h)
<1>1. /\ e.request = d.request /\ e.lastRid = d.lastRid
      /\ e.taskRequest = {x \in d.taskRequest :
           ~\E a \in AppIds : a = d.request[x[1]] /\ x[3] \in ExecutingAt(d, a, h)}
      /\ e.task = [a \in AppIds |-> [t \in TaskIds |->
           IF t \in ExecutingAt(d, a, h) THEN [state |-> "READY", host |-> NoHost]
           ELSE d.task[a][t]]]
      /\ e = [task |-> e.task, request |-> e.request, lastRid |-> e.lastRid,
              taskRequest |-> e.taskRequest]
  <2> DEFINE task == [a \in AppIds |-> [t \in TaskIds |->
               IF t \in ExecutingAt(d, a, h) THEN [state |-> "READY", host |-> NoHost]
               ELSE d.task[a][t]]]
             rows == {x \in d.taskRequest :
               ~\E a \in AppIds : a = d.request[x[1]] /\ x[3] \in ExecutingAt(d, a, h)}
  <2>1. d = [task |-> d.task, request |-> d.request, lastRid |-> d.lastRid,
             taskRequest |-> d.taskRequest]
    BY DEF Databases
  <2>2. e = [d EXCEPT !.task = task, !.taskRequest = rows]
    BY Zenon DEF DeadNode
  <2> HIDE DEF e, task, rows
  <2>3. /\ e.task = task /\ e.taskRequest = rows /\ e.request = d.request
        /\ e.lastRid = d.lastRid
        /\ e = [task |-> e.task, request |-> e.request, lastRid |-> e.lastRid,
                taskRequest |-> e.taskRequest]
    BY <2>1, <2>2
  <2> QED BY <2>3 DEF task, rows
<1> HIDE DEF e
<1>2. e \in Databases
  <2>1. e.task \in [AppIds -> [TaskIds -> TaskRow]]
    BY <1>1 DEF Databases, TaskRow, TaskStates
  <2> QED BY <1>1, <2>1 DEF Databases
<1> QED BY <1>1, <1>2 DEF e

\* deadNode keeps the rows.
LEMMA DeadNodeOK ==
  ASSUME NEW d, DbOK(d), NEW h \in Hosts, NEW T, Timed(d, T)
  PROVE  /\ DbOK(DeadNode(d, h)) /\ Follows(d, DeadNode(d, h)) /\ Timed(DeadNode(d, h), T)
         /\ DeadNode(d, h).lastRid = d.lastRid
<1> DEFINE e == DeadNode(d, h)
<1>1. d \in Databases
  BY DEF DbOK
<1>2. \A a \in AppIds : \A t \in ExecutingAt(d, a, h) : d.task[a][t].state = "EXECUTING"
  BY DEF ExecutingAt, InState
<1>3. /\ e \in Databases /\ e.request = d.request /\ e.lastRid = d.lastRid
      /\ e.taskRequest = {x \in d.taskRequest :
           ~\E a \in AppIds : a = d.request[x[1]] /\ x[3] \in ExecutingAt(d, a, h)}
      /\ \A a \in AppIds : \A t \in TaskIds :
           e.task[a][t] = IF t \in ExecutingAt(d, a, h) THEN [state |-> "READY", host |-> NoHost]
                          ELSE d.task[a][t]
  BY <1>1, DeadNodeRows
<1> HIDE DEF e
<1>5. \A a \in AppIds : \A t \in TaskIds :
        e.task[a][t].state = IF t \in ExecutingAt(d, a, h) THEN "READY" ELSE d.task[a][t].state
  BY <1>3
<1>6. \A x \in d.taskRequest : d.request[x[1]] \in AppIds /\ x[3] \in TaskIds
  BY DEF DbOK, ConsistentRequests, RowsHaveRequest, Databases
<1>7. \A x \in d.taskRequest : x \in e.taskRequest <=> x[3] \notin ExecutingAt(d, d.request[x[1]], h)
  BY <1>3, <1>6
<1>8. Updates(d, e, T, T)
  BY <1>2, <1>3, <1>5, <1>6, <1>7 DEF Updates
<1> QED BY <1>3, <1>8, UpdateOK DEF e

\* The query of abortedTask finds nothing: an address is no row.
LEMMA AbortedTaskFails ==
  ASSUME NEW d, NEW h \in Hosts, NEW k
  PROVE  ~ AbortedTaskReturns(d, h, k)
BY HostsAreNotRowids, Numbers DEF HostsAreNotRowids, AbortedTaskReturns

-----------------------------------------------------------------------------
(* The node.                                                               *)

\* The retries that a call of sendRequest is made with.
Calls == {c \in [AppIds -> Nat \cup {NoEntry}] :
            \A a \in AppIds : c[a] \in {NoEntry, 0} \/ c[a] < SubmitRetries}

States ==
  [db        : Databases,
   remaining : [AppIds -> (0 .. UIntMax) \cup {NoEntry}],
   retries   : [Rids -> (0 .. SubmitRetries) \cup {1, NoEntry}],
   timers    : SUBSET Timers,
   offered   : SUBSET Keys,
   delayed   : Calls,
   remote    : [Hosts -> [AppIds -> Nat]]]

\* The requests that timers and keys name were created.
StateOK(s, expired) ==
  /\ s \in States
  /\ DbOK(s.db)
  /\ \A r \in Rids : RequestTimer(r) \in s.timers \cup expired => Named(s.db, r)
  /\ \A k \in s.offered : Named(s.db, k[1])

\* Counters are unsigned.
LEMMA Unsigned ==
  ASSUME NEW n \in Int, NEW k \in Int
  PROVE  Add(n, k) \in 0 .. UIntMax /\ Sub(n, k) \in 0 .. UIntMax
<1>1. UIntMax + 1 \in Nat \ {0} /\ UIntMax \in Nat
  BY SubmissionConstants DEF SubmissionConstants
<1>2. \A i \in Int, m \in Nat \ {0} : i % m \in 0 .. m - 1
  OBVIOUS
<1>3. (n + k) % (UIntMax + 1) \in 0 .. (UIntMax + 1) - 1
  BY <1>1, <1>2
<1>4. (n - k + UIntMax + 1) % (UIntMax + 1) \in 0 .. (UIntMax + 1) - 1
  BY <1>1, <1>2
<1>5. (UIntMax + 1) - 1 = UIntMax
  BY <1>1
<1> QED BY <1>3, <1>4, <1>5 DEF Add, Sub

\* A request that was created stays so.
LEMMA FollowsNamed ==
  ASSUME NEW d \in Databases, NEW e \in Databases, Follows(d, e), NEW r \in Rids, Named(d, r)
  PROVE  Named(e, r)
BY Numbers DEF Follows, Named, Databases

\* More timers do no harm.
LEMMA TimedMore ==
  ASSUME NEW d, NEW T, NEW U, Timed(d, T), T \subseteq U
  PROVE  Timed(d, U)
BY DEF Timed

\* sendRequest leaves the state right: what it asks for has a timer.
LEMMA SendRequestsOK ==
  ASSUME NEW s, NEW expired, StateOK(s, expired), NEW calls \in Calls, NEW changing \in BOOLEAN,
         changing \/ s.db.lastRid + MaxApps <= MaxRequests,
         NEW X, Timed(s.db, s.timers \cup X)
  PROVE  /\ StateOK(SendRequests(s, calls, changing), expired)
         /\ Follows(s.db, SendRequests(s, calls, changing).db)
         /\ Timed(SendRequests(s, calls, changing).db,
                  SendRequests(s, calls, changing).timers \cup X)
         /\ s.timers \subseteq SendRequests(s, calls, changing).timers
         /\ SendRequests(s, calls, changing).remote = s.remote
<1> DEFINE n == SendRequests(s, calls, changing)
<1>1. s \in States /\ DbOK(s.db) /\ s.db \in Databases
  BY DEF StateOK, DbOK
<1>2. s = [db |-> s.db, remaining |-> s.remaining, retries |-> s.retries, timers |-> s.timers,
           offered |-> s.offered, delayed |-> s.delayed, remote |-> s.remote]
  BY <1>1 DEF States
<1>3. /\ s.remaining \in [AppIds -> (0 .. UIntMax) \cup {NoEntry}]
      /\ s.retries \in [Rids -> (0 .. SubmitRetries) \cup {1, NoEntry}]
      /\ s.timers \in SUBSET Timers /\ s.offered \in SUBSET Keys
      /\ s.delayed \in Calls /\ s.remote \in [Hosts -> [AppIds -> Nat]]
  BY <1>1 DEF States
<1>4. CASE changing
  <2> DEFINE late == [a \in AppIds |-> IF s.delayed[a] = NoEntry THEN calls[a] ELSE s.delayed[a]]
  <2>1. late \in Calls
    BY <1>3 DEF Calls
  <2>2. n = [s EXCEPT !.delayed = late]
    BY <1>4, Zenon DEF SendRequests
  <2> HIDE DEF late, n
  <2>3. /\ n.db = s.db /\ n.timers = s.timers /\ n.offered = s.offered /\ n.remote = s.remote
        /\ n \in States
    BY <1>1, <1>2, <1>3, <2>1, <2>2 DEF States
  <2>4. StateOK(n, expired)
    BY <2>3 DEF StateOK
  <2>5. Follows(s.db, n.db)
    BY <1>1, <2>3, FollowsItself
  <2> QED BY <2>3, <2>4, <2>5 DEF n
<1>5. CASE ~ changing
  <2> DEFINE A     == {a \in AppIds : calls[a] # NoEntry /\ Ready(s.db, a) # {}}
             asked == Asked(s.db, A)
             e     == Searching(s.db, A)
             rid   == RidsOf(s.db, A)
             new   == {rid[a] : a \in A}
             left  == [a \in AppIds |-> IF a \in A
                         THEN Add(Value(s.remaining[a]), Cardinality(Ready(s.db, a)))
                         ELSE s.remaining[a]]
             tried == [r \in Rids |-> IF r \in new
                         THEN calls[GetInstanceId(asked, r)] + 1 ELSE s.retries[r]]
             armed == s.timers \cup {RequestTimer(r) : r \in new}
             offer == s.offered \cup {k \in Keys : k[1] \in new /\ TidsOf(asked, {k}) # {}}
  <2>1. n = [s EXCEPT !.db = e, !.remaining = left, !.retries = tried, !.timers = armed,
                      !.offered = offer]
    BY <1>5, Zenon DEF SendRequests, Asked, Searching, RidsOf
  <2>2. A \in SUBSET AppIds /\ s.db.lastRid + MaxApps <= MaxRequests
    BY <1>5
  <2>3. \A a \in A : calls[a] \in Nat /\ calls[a] + 1 \in (0 .. SubmitRetries) \cup {1}
    BY SubmissionConstants DEF Calls, SubmissionConstants
  <2>4. \A a \in AppIds : Cardinality(Ready(s.db, a)) \in Nat
    <3>1. ASSUME NEW a \in AppIds PROVE Ready(s.db, a) \in SUBSET (1 .. NumTasks)
      BY <1>1, RowsOf DEF Ready, TaskIds
    <3> QED BY <3>1, Counts, Numbers
  <2> HIDE DEF A
  <2>5. /\ DbOK(e) /\ Follows(s.db, e)
        /\ Timed(e, s.timers \cup X \cup {RequestTimer(rid[a]) : a \in A})
        /\ \A a \in A : rid[a] \in Rids /\ Named(e, rid[a]) /\ GetInstanceId(asked, rid[a]) = a
    BY <1>1, <2>2, SearchingOK
  <2> HIDE DEF e, rid, asked
  <2>6. new \subseteq Rids /\ \A r \in new : Named(e, r) /\ GetInstanceId(asked, r) \in A
    BY <2>5
  <2>7. left \in [AppIds -> (0 .. UIntMax) \cup {NoEntry}]
    <3>1. \A a \in AppIds : Value(s.remaining[a]) \in Int
      BY <1>3, SubmissionConstants DEF Value, NoEntry, SubmissionConstants
    <3>2. \A a \in AppIds : Add(Value(s.remaining[a]), Cardinality(Ready(s.db, a))) \in 0 .. UIntMax
      BY <2>4, <3>1, Unsigned
    <3> QED BY <1>3, <3>2
  <2>8. tried \in [Rids -> (0 .. SubmitRetries) \cup {1, NoEntry}]
    BY <1>3, <2>3, <2>6
  <2>9. armed \in SUBSET Timers /\ offer \in SUBSET Keys
    BY <1>3, <2>6 DEF Timers
  <2>10. Timed(e, armed \cup X)
    <3>1. s.timers \cup X \cup {RequestTimer(rid[a]) : a \in A} \subseteq armed \cup X
      OBVIOUS
    <3> HIDE DEF armed
    <3> QED BY <2>5, <3>1, TimedMore
  <2>11. \A r \in Rids : RequestTimer(r) \in armed \cup expired => Named(e, r)
    <3>1. ASSUME NEW r \in Rids, RequestTimer(r) \in armed \cup expired PROVE Named(e, r)
      <4>1. CASE RequestTimer(r) \in s.timers \cup expired
        BY <1>1, <2>5, <4>1, FollowsNamed DEF StateOK, DbOK
      <4>2. CASE \E q \in new : RequestTimer(r) = RequestTimer(q)
        BY <2>6, <4>2 DEF RequestTimer
      <4> QED BY <3>1, <4>1, <4>2
    <3> QED BY <3>1
  <2>12. \A k \in offer : Named(e, k[1])
    <3>1. \A k \in s.offered : Named(e, k[1])
      <4>1. \A k \in s.offered : k[1] \in Rids
        BY <1>3 DEF Keys
      <4> QED BY <1>1, <2>5, <4>1, FollowsNamed DEF StateOK, DbOK
    <3> QED BY <2>6, <3>1
  <2>13. s.timers \subseteq armed
    OBVIOUS
  <2> HIDE DEF n, left, tried, armed, offer
  <2>14. /\ n.db = e /\ n.timers = armed /\ n.offered = offer /\ n.remote = s.remote
         /\ n \in States
    <3>1. e \in Databases
      BY <2>5 DEF DbOK
    <3> QED BY <1>2, <1>3, <2>1, <2>7, <2>8, <2>9, <3>1 DEF States
  <2>15. StateOK(n, expired)
    BY <2>5, <2>11, <2>12, <2>14 DEF StateOK
  <2> QED BY <2>5, <2>10, <2>13, <2>14, <2>15 DEF n
<1> QED BY <1>4, <1>5

\* The end of a task changes two counters at most.
LEMMA FinishOneOK ==
  ASSUME NEW s, NEW expired, StateOK(s, expired), NEW h \in Hosts, NEW k \in Keys,
         Named(s.db, k[1]), NEW T, Timed(s.db, T)
  PROVE  /\ StateOK(FinishOne(s, h, k), expired)
         /\ Follows(s.db, FinishOne(s, h, k).db) /\ Timed(FinishOne(s, h, k).db, T)
         /\ FinishOne(s, h, k).timers = s.timers
         /\ \A g \in Hosts \ {h} : FinishOne(s, h, k).remote[g] = s.remote[g]
<1> DEFINE n        == FinishOne(s, h, k)
           a        == GetInstanceId(s.db, k[1])
           d        == FinishedTask(s.db, h, k)
           credited == FinishedTaskReturns(s.db, k) /\ s.remote[h][a] > 0
           fewer    == [s.remote EXCEPT ![h] = [s.remote[h] EXCEPT ![a] =
                          IF credited THEN s.remote[h][a] - 1 ELSE s.remote[h][a]]]
           left     == [s.remaining EXCEPT ![a] =
                          IF ~ credited \/ s.remaining[a] = NoEntry THEN s.remaining[a]
                          ELSE IF Sub(s.remaining[a], 1) = 0 THEN NoEntry
                          ELSE Sub(s.remaining[a], 1)]
<1>1. s \in States /\ DbOK(s.db) /\ a \in AppIds /\ k[1] \in Rids
  BY DEF StateOK, Named, GetInstanceId, Keys
<1>2. s = [db |-> s.db, remaining |-> s.remaining, retries |-> s.retries, timers |-> s.timers,
           offered |-> s.offered, delayed |-> s.delayed, remote |-> s.remote]
  BY <1>1 DEF States
<1>3. /\ s.remaining \in [AppIds -> (0 .. UIntMax) \cup {NoEntry}]
      /\ s.retries \in [Rids -> (0 .. SubmitRetries) \cup {1, NoEntry}]
      /\ s.timers \in SUBSET Timers /\ s.offered \in SUBSET Keys
      /\ s.delayed \in Calls /\ s.remote \in [Hosts -> [AppIds -> Nat]]
  BY <1>1 DEF States
<1>4. DbOK(d) /\ Follows(s.db, d) /\ Timed(d, T)
  BY <1>1, FinishedTaskOK
<1>5. fewer \in [Hosts -> [AppIds -> Nat]] /\ \A g \in Hosts \ {h} : fewer[g] = s.remote[g]
  BY <1>1, <1>3
<1>6. left \in [AppIds -> (0 .. UIntMax) \cup {NoEntry}]
  <2>1. s.remaining[a] \in Int
    BY <1>1, <1>3, SubmissionConstants DEF NoEntry, SubmissionConstants
  <2>2. \A i \in Int : Sub(i, 1) \in 0 .. UIntMax
    <3>1. 1 \in Int
      OBVIOUS
    <3> QED BY <3>1, Unsigned
  <2>3. Sub(s.remaining[a], 1) \in 0 .. UIntMax
    BY <2>1, <2>2
  <2> QED BY <1>1, <1>3, <2>3
<1>7. n = [s EXCEPT !.db = d, !.remote = fewer, !.remaining = left]
  <2>1. n = [s EXCEPT !.db = d,
               !.remote[h][a] = IF credited THEN @ - 1 ELSE @,
               !.remaining[a] = IF ~ credited \/ @ = NoEntry THEN @
                                ELSE IF Sub(s.remaining[a], 1) = 0 THEN NoEntry
                                ELSE Sub(s.remaining[a], 1)]
    BY Zenon DEF FinishOne
  <2> HIDE DEF n, d, credited
  <2> QED BY <1>1, <1>2, <1>3, <2>1
<1> HIDE DEF n, d, fewer, left
<1>8. /\ n.db = d /\ n.timers = s.timers /\ n.offered = s.offered /\ n.remote = fewer
      /\ n \in States
  BY <1>2, <1>3, <1>4, <1>5, <1>6, <1>7 DEF States, DbOK
<1>9. \A r \in Rids : RequestTimer(r) \in n.timers \cup expired => Named(d, r)
  BY <1>1, <1>4, <1>8, FollowsNamed DEF StateOK, DbOK
<1>10. \A q \in n.offered : Named(d, q[1])
  <2>1. \A q \in s.offered : q[1] \in Rids
    BY <1>3 DEF Keys
  <2> QED BY <1>1, <1>4, <1>8, <2>1, FollowsNamed DEF StateOK, DbOK
<1>11. StateOK(n, expired)
  BY <1>4, <1>8, <1>9, <1>10 DEF StateOK
<1> QED BY <1>4, <1>5, <1>8, <1>11 DEF n

\* The database of a state is changed by a method that creates no request.
LEMMA ChangedOK ==
  ASSUME NEW s, NEW expired, StateOK(s, expired), NEW d, DbOK(d), Follows(s.db, d),
         NEW n \in States, n.db = d, NEW E, n.timers \cup E \subseteq s.timers \cup expired,
         n.offered = s.offered
  PROVE  StateOK(n, E)
<1>1. s.db \in Databases /\ d \in Databases /\ s \in States
  BY DEF StateOK, DbOK
<1>2. \A r \in Rids : RequestTimer(r) \in n.timers \cup E => Named(d, r)
  BY <1>1, FollowsNamed DEF StateOK
<1>3. \A q \in n.offered : Named(d, q[1])
  <2>1. \A q \in s.offered : q[1] \in Rids
    BY <1>1 DEF States, Keys
  <2> QED BY <1>1, <2>1, FollowsNamed DEF StateOK
<1> QED BY <1>2, <1>3 DEF StateOK

-----------------------------------------------------------------------------
(* The invariant.                                                          *)

\* After a restart, no timer is asked for.
Lost == IF restarts = 0 THEN {} ELSE Timers

\* A node that is counted, or that has a timer, is watched by one that is set.
HeartbeatsOK ==
  /\ \A h \in Hosts : heartbeats[h] # NoEntry =>
       HeartbeatTimer(h, heartbeats[h]) \in timers \cup fired
  /\ NodesAreWatched

NodeInv ==
  /\ StateOK(Current, fired)
  /\ Timed(db, timers \cup (fired \cup Lost))
  /\ {inNetwork, inChange, alive} \subseteq BOOLEAN
  /\ heartbeats \in [Hosts -> TimerIds \cup {NoEntry}]
  /\ fired \subseteq Timers
  /\ HeartbeatsOK

\* The keys of a message.
KeysOf(m) == IF m.type = "accept" THEN {m.rid} \X m.rtids
             ELSE m.tasks \cup m.finished \cup m.aborted

EnvInv ==
  /\ running \subseteq [node : Hosts, key : Keys, exited : BOOLEAN]
  /\ \A x \in running : Named(db, x.key[1])
  /\ \A x, y \in running : x.node = y.node /\ x.exited /\ y.exited => x = y
  /\ up \subseteq Hosts
  /\ net \subseteq Messages
  /\ \A m \in net : IF m.type = "accept" THEN Named(db, m.rid)
                    ELSE \A k \in KeysOf(m) : Named(db, k[1])
  /\ \A m \in net : m.type = "monitor" => \E k \in Keys : m.finished \cup m.aborted \subseteq {k}
  /\ faults \in 0 .. MaxFaults /\ losses \in 0 .. MaxLosses /\ restarts \in 0 .. MaxRestarts

IInv == NodeInv /\ EnvInv

-----------------------------------------------------------------------------
(* The initial states.                                                     *)

\* The invariant holds at the start.
LEMMA InvInit == Init => IInv
<1> SUFFICES ASSUME Init PROVE IInv
  OBVIOUS
<1> USE SubmissionConstants DEF SubmissionConstants
<1>1. db \in Databases /\ db = EmptyDatabase
  BY Numbers DEF Init, EmptyDatabase, Databases, NoRow, TaskRow, TaskStates
<1>2. \A a \in AppIds : \A t \in TaskIds : db.task[a][t].state = "NONE"
  BY <1>1 DEF EmptyDatabase, NoRow
<1>3. DbOK(db)
  <2>1. db.taskRequest = {}
    BY <1>1 DEF EmptyDatabase
  <2>2. Whole(db)
    BY <1>2 DEF Whole, InState
  <2> QED BY <1>1, <2>1, <2>2 DEF DbOK, ConsistentRequests, RowsHaveRequest, OneTaskPerNumber,
                                  OneRequestPerTask, ReadyTasksAreFree
<1>4. Current \in States
  BY <1>1 DEF Init, Current, States, Calls, NoEntry
<1>5. StateOK(Current, fired)
  BY <1>3, <1>4 DEF Init, Current, StateOK
<1>6. Timed(db, timers \cup (fired \cup Lost))
  BY <1>2 DEF Timed, InState
<1>7. HeartbeatsOK
  BY DEF Init, HeartbeatsOK, NodesAreWatched
<1>8. NodeInv
  BY <1>5, <1>6, <1>7 DEF Init, NodeInv
<1>9. EnvInv
  BY DEF Init, EnvInv
<1> QED BY <1>8, <1>9 DEF IInv

-----------------------------------------------------------------------------
(* The steps of the node.                                                  *)

\* The parts of the state of the node.
LEMMA CurrentIs ==
  /\ Current.db = db /\ Current.remaining = remaining /\ Current.retries = retries
  /\ Current.timers = timers /\ Current.offered = offered /\ Current.delayed = delayed
  /\ Current.remote = remote
BY DEF Current

\* Their types.
LEMMA TypesOfCurrent ==
  ASSUME Current \in States
  PROVE  /\ db \in Databases
         /\ remaining \in [AppIds -> (0 .. UIntMax) \cup {NoEntry}]
         /\ retries \in [Rids -> (0 .. SubmitRetries) \cup {1, NoEntry}]
         /\ timers \in SUBSET Timers /\ offered \in SUBSET Keys
         /\ delayed \in Calls /\ remote \in [Hosts -> [AppIds -> Nat]]
BY DEF Current, States

\* What a handler makes of the state is what the variables become.
LEMMA BecomesState ==
  ASSUME NEW s \in States, Becomes(s)
  PROVE  Current' = s
BY DEF Current, Becomes, States

\* Steps that leave the node as it was, but for its leaf.
LEMMA NodeUnchanged ==
  ASSUME NodeInv, UNCHANGED <<db, offered, delayed, remaining, retries, heartbeats, remote,
                              timers, fired, restarts>>,
         {inNetwork', inChange', alive'} \subseteq BOOLEAN
  PROVE  NodeInv' /\ Follows(db, db')
<1>1. Current' = Current
  BY DEF Current
<1>2. HeartbeatsOK'
  BY DEF NodeInv, HeartbeatsOK, NodesAreWatched
<1>3. Follows(db, db')
  <2>1. Current \in States
    BY DEF NodeInv, StateOK
  <2> QED BY <2>1, TypesOfCurrent, FollowsItself
<1>4. Timed(db', timers' \cup (fired' \cup Lost'))
  BY DEF NodeInv, Lost
<1> QED BY <1>1, <1>2, <1>3, <1>4 DEF NodeInv

\* The timers of requests and those of nodes are not mixed up.
LEMMA TimerKinds ==
  /\ \A r \in Rids, h \in Hosts, i \in TimerIds : RequestTimer(r) # HeartbeatTimer(h, i)
  /\ \A r, q \in Rids : RequestTimer(r) = RequestTimer(q) => r = q
  /\ \A h, g \in Hosts, i, j \in TimerIds :
       HeartbeatTimer(h, i) = HeartbeatTimer(g, j) => h = g /\ i = j
BY DEF RequestTimer, HeartbeatTimer

\* A step that sends requests, with the leaf, the nodes and their timers as they
\* were: s is what the calls start from.
LEMMA SendStep ==
  ASSUME NodeInv, NEW s, NEW calls \in Calls, NEW changing \in BOOLEAN,
         StateOK(s, fired'), Follows(db, s.db), Timed(s.db, s.timers \cup (fired' \cup Lost)),
         changing \/ s.db.lastRid + MaxApps <= MaxRequests,
         Becomes(SendRequests(s, calls, changing)) \/ Becomes(s),
         fired' \subseteq Timers, UNCHANGED restarts,
         {inNetwork', inChange', alive'} \subseteq BOOLEAN,
         heartbeats' \in [Hosts -> TimerIds \cup {NoEntry}],
         \A h \in Hosts : heartbeats'[h] # NoEntry =>
           HeartbeatTimer(h, heartbeats'[h]) \in s.timers \cup fired',
         \A h \in Hosts : (\E a \in AppIds : s.remote[h][a] > 0) =>
           \E i \in TimerIds : HeartbeatTimer(h, i) \in s.timers \cup fired'
  PROVE  NodeInv' /\ Follows(db, db')
<1> DEFINE n == SendRequests(s, calls, changing)
<1>1. /\ StateOK(n, fired') /\ Follows(s.db, n.db)
      /\ Timed(n.db, n.timers \cup (fired' \cup Lost))
      /\ s.timers \subseteq n.timers /\ n.remote = s.remote
  BY SendRequestsOK
<1> HIDE DEF n
<1>2. PICK m : /\ m \in {n, s} /\ Becomes(m) /\ StateOK(m, fired') /\ Follows(s.db, m.db)
               /\ Timed(m.db, m.timers \cup (fired' \cup Lost))
               /\ s.timers \subseteq m.timers /\ m.remote = s.remote
  <2>1. CASE Becomes(n)
    BY <1>1, <2>1
  <2>2. CASE Becomes(s)
    <3>1. Follows(s.db, s.db)
      BY FollowsItself DEF StateOK, DbOK
    <3> QED BY <2>2, <3>1
  <2> QED BY <2>1, <2>2 DEF n
<1>3. Current' = m
  BY <1>2, BecomesState DEF StateOK
<1>4. db' = m.db /\ timers' = m.timers /\ remote' = s.remote
  BY <1>2 DEF Becomes
<1>5. Follows(db, db')
  <2>1. db \in Databases /\ s.db \in Databases /\ m.db \in Databases
    BY <1>2, TypesOfCurrent DEF NodeInv, StateOK, DbOK
  <2> QED BY <1>2, <1>4, <2>1, FollowsOn
<1>6. Timed(db', timers' \cup (fired' \cup Lost'))
  BY <1>2, <1>4 DEF Lost
<1>7. HeartbeatsOK'
  BY <1>2, <1>4 DEF HeartbeatsOK, NodesAreWatched
<1> QED BY <1>2, <1>3, <1>5, <1>6, <1>7 DEF NodeInv

\* The table of delayed requests at the start.
LEMMA NoCalls == [a \in AppIds |-> NoEntry] \in Calls
BY DEF Calls

\* A request is delayed.
LEMMA OneCallOK ==
  ASSUME NEW a, NEW k \in Nat \cup {NoEntry}, k \in {NoEntry, 0} \/ k < SubmitRetries
  PROVE  OneCall(a, k) \in Calls
BY DEF OneCall, Calls

\* SubmissionNode::fatherChanged
LEMMA FatherChangedStep ==
  ASSUME NodeInv, FatherChanged
  PROVE  NodeInv' /\ Follows(db, db')
<1> DEFINE s == [Current EXCEPT !.delayed = [a \in AppIds |-> NoEntry]]
<1>1. Current \in States /\ DbOK(db)
  BY CurrentIs DEF NodeInv, StateOK
<1>2. /\ s.db = db /\ s.timers = timers /\ s.offered = offered /\ s.remote = remote
      /\ s \in States
  BY <1>1, NoCalls DEF Current, States
<1>3. Becomes(SendRequests(s, delayed, FALSE)) /\ UNCHANGED <<heartbeats, fired, restarts>>
      /\ db.lastRid + MaxApps <= MaxRequests
      /\ {inNetwork', inChange', alive'} \subseteq BOOLEAN
  BY DEF FatherChanged, envVars, RequestsLeft, NodeInv
<1> HIDE DEF s
<1>4. StateOK(s, fired')
  BY <1>1, <1>2, <1>3, CurrentIs DEF NodeInv, StateOK
<1>5. Follows(db, s.db) /\ Timed(s.db, s.timers \cup (fired' \cup Lost))
  BY <1>1, <1>2, <1>3, FollowsItself DEF NodeInv, DbOK
<1>6. delayed \in Calls
  BY <1>1, TypesOfCurrent
<1>7. /\ heartbeats' \in [Hosts -> TimerIds \cup {NoEntry}] /\ fired' \subseteq Timers
      /\ \A h \in Hosts : heartbeats'[h] # NoEntry =>
           HeartbeatTimer(h, heartbeats'[h]) \in s.timers \cup fired'
      /\ \A h \in Hosts : (\E a \in AppIds : s.remote[h][a] > 0) =>
           \E i \in TimerIds : HeartbeatTimer(h, i) \in s.timers \cup fired'
  BY <1>2, <1>3 DEF NodeInv, HeartbeatsOK, NodesAreWatched
<1> QED BY <1>2, <1>3, <1>4, <1>5, <1>6, <1>7, SendStep

\* SubmissionNode::handle(DispatchCommandMsg)
LEMMA DispatchCommandStep ==
  ASSUME NodeInv, NEW a \in AppIds, DispatchCommand(a)
  PROVE  NodeInv' /\ Follows(db, db')
<1> DEFINE d == CreateAppInstance(db, a)
           s == [Current EXCEPT !.db = d, !.remaining[a] = 0]
<1>1. Current \in States /\ DbOK(db) /\ StateOK(Current, fired)
  BY CurrentIs DEF NodeInv, StateOK
<1>2. /\ DbOK(d) /\ Follows(db, d) /\ d.lastRid = db.lastRid
      /\ Timed(d, timers \cup (fired \cup Lost))
  BY <1>1, CreateAppInstanceOK DEF DispatchCommand, NodeInv
<1>3. /\ Becomes(SendRequests(s, OneCall(a, 0), inChange))
      /\ UNCHANGED <<heartbeats, fired, restarts>>
      /\ db.lastRid + MaxApps <= MaxRequests
      /\ {inNetwork', inChange', alive'} \subseteq BOOLEAN /\ inChange \in BOOLEAN
  BY DEF DispatchCommand, envVars, RequestsLeft, NodeInv
<1> HIDE DEF d
<1>4. /\ s.db = d /\ s.timers = timers /\ s.offered = offered /\ s.remote = remote
      /\ s \in States
  <2>1. [remaining EXCEPT ![a] = 0] \in [AppIds -> (0 .. UIntMax) \cup {NoEntry}]
    BY <1>1, TypesOfCurrent, SubmissionConstants DEF SubmissionConstants
  <2>2. s = [Current EXCEPT !.db = d, !.remaining = [remaining EXCEPT ![a] = 0]]
    BY DEF Current
  <2> QED BY <1>1, <1>2, <2>1, <2>2, TypesOfCurrent DEF Current, States, DbOK
<1> HIDE DEF s
<1>5. StateOK(s, fired')
  BY <1>1, <1>2, <1>3, <1>4, CurrentIs, ChangedOK
<1>6. OneCall(a, 0) \in Calls
  BY OneCallOK
<1>7. /\ heartbeats' \in [Hosts -> TimerIds \cup {NoEntry}] /\ fired' \subseteq Timers
      /\ \A h \in Hosts : heartbeats'[h] # NoEntry =>
           HeartbeatTimer(h, heartbeats'[h]) \in s.timers \cup fired'
      /\ \A h \in Hosts : (\E b \in AppIds : s.remote[h][b] > 0) =>
           \E i \in TimerIds : HeartbeatTimer(h, i) \in s.timers \cup fired'
  BY <1>3, <1>4 DEF NodeInv, HeartbeatsOK, NodesAreWatched
<1> QED BY <1>2, <1>3, <1>4, <1>5, <1>6, <1>7, SendStep

\* SubmissionNode::handle(RequestTimeout)
LEMMA RequestTimeoutStep ==
  ASSUME NodeInv, NEW r \in Rids, HandleRequestTimeout(r)
  PROVE  NodeInv' /\ Follows(db, db')
<1> DEFINE a     == GetInstanceId(db, r)
           d     == CancelSearch(db, r)
           left  == IF remaining[a] = NoEntry THEN NoEntry
                    ELSE Sub(remaining[a], Cardinality(Cancelled(db, r)))
           again == Ready(d, a) # {} /\ RetriesLeft(r)
           s     == [Current EXCEPT !.db = d, !.retries[r] = NoEntry,
                       !.remaining[a] = IF ~again /\ left = 0 THEN NoEntry ELSE left]
<1>1. Current \in States /\ DbOK(db) /\ StateOK(Current, fired) /\ Named(db, r) /\ a \in AppIds
  BY CurrentIs DEF NodeInv, StateOK, HandleRequestTimeout, Named, GetInstanceId
<1>2. /\ DbOK(d) /\ Follows(db, d) /\ d.lastRid = db.lastRid
      /\ Timed(d, (timers \cup (fired \cup Lost)) \ {RequestTimer(r)})
  BY <1>1, CancelSearchOK DEF NodeInv
<1>3. /\ IF again THEN Becomes(SendRequests(s, OneCall(a, retries[r]), inChange)) ELSE Becomes(s)
      /\ UNCHANGED <<heartbeats, restarts>> /\ fired' = fired \ {RequestTimer(r)}
      /\ db.lastRid + MaxApps <= MaxRequests
      /\ inNetwork' = inNetwork /\ inChange' = inChange /\ alive' \in BOOLEAN
  <2> HIDE DEF left
  <2> QED BY DEF HandleRequestTimeout, envVars, RequestsLeft, left
<1>4. inChange \in BOOLEAN /\ {inNetwork', inChange', alive'} \subseteq BOOLEAN
  BY <1>3 DEF NodeInv
<1>5. left \in (0 .. UIntMax) \cup {NoEntry}
  <2>1. remaining[a] \in Int
    BY <1>1, TypesOfCurrent, SubmissionConstants DEF NoEntry, SubmissionConstants
  <2>2. Cardinality(Cancelled(db, r)) \in Int
    <3>1. Cancelled(db, r) \in SUBSET (1 .. NumTasks)
      BY DEF Cancelled, InState, TaskIds
    <3> QED BY <3>1, Counts, Numbers
  <2>3. Sub(remaining[a], Cardinality(Cancelled(db, r))) \in 0 .. UIntMax
    BY <2>1, <2>2, Unsigned
  <2> QED BY <2>3
<1>6. again => OneCall(a, retries[r]) \in Calls
  <2>1. retries[r] \in (0 .. SubmitRetries) \cup {1, NoEntry}
    BY <1>1, TypesOfCurrent
  <2>2. retries[r] \in Nat \cup {NoEntry}
    BY <2>1, SubmissionConstants DEF SubmissionConstants
  <2> QED BY <2>2, OneCallOK DEF RetriesLeft
<1> HIDE DEF d, left, again
<1>7. /\ s.db = d /\ s.timers = timers /\ s.offered = offered /\ s.remote = remote
      /\ s \in States
  <2> DEFINE tried == [retries EXCEPT ![r] = NoEntry]
             rest  == [remaining EXCEPT ![a] = IF ~again /\ left = 0 THEN NoEntry ELSE left]
  <2>1. tried \in [Rids -> (0 .. SubmitRetries) \cup {1, NoEntry}]
    BY <1>1, TypesOfCurrent
  <2>2. rest \in [AppIds -> (0 .. UIntMax) \cup {NoEntry}]
    BY <1>1, <1>5, TypesOfCurrent
  <2>3. s = [Current EXCEPT !.db = d, !.retries = tried, !.remaining = rest]
    BY DEF Current
  <2> HIDE DEF tried, rest, s
  <2> QED BY <1>1, <1>2, <2>1, <2>2, <2>3, TypesOfCurrent DEF Current, States, DbOK
<1> HIDE DEF s
<1>8. StateOK(s, fired')
  BY <1>1, <1>2, <1>3, <1>7, CurrentIs, ChangedOK
<1>9. Timed(s.db, s.timers \cup (fired' \cup Lost))
  <2>1. (timers \cup (fired \cup Lost)) \ {RequestTimer(r)} \subseteq
          s.timers \cup (fired' \cup Lost)
    BY <1>3, <1>7
  <2> QED BY <1>2, <1>7, <2>1, TimedMore
<1>10. /\ heartbeats' \in [Hosts -> TimerIds \cup {NoEntry}] /\ fired' \subseteq Timers
       /\ \A h \in Hosts : heartbeats'[h] # NoEntry =>
            HeartbeatTimer(h, heartbeats'[h]) \in s.timers \cup fired'
       /\ \A h \in Hosts : (\E b \in AppIds : s.remote[h][b] > 0) =>
            \E i \in TimerIds : HeartbeatTimer(h, i) \in s.timers \cup fired'
  BY <1>3, <1>7, TimerKinds DEF NodeInv, HeartbeatsOK, NodesAreWatched
<1>11. PICK calls \in Calls : Becomes(SendRequests(s, calls, inChange)) \/ Becomes(s)
  BY <1>3, <1>6, NoCalls
<1> QED BY <1>2, <1>3, <1>4, <1>7, <1>8, <1>9, <1>10, <1>11, SendStep

\* SubmissionNode::handle(HeartbeatTimeout)
LEMMA HeartbeatTimeoutStep ==
  ASSUME NodeInv, NEW h \in Hosts, HandleHeartbeatTimeout(h)
  PROVE  NodeInv' /\ Follows(db, db')
<1> DEFINE d    == DeadNode(db, h)
           lost == [a \in AppIds |-> IF remote[h][a] > 0 THEN 0 ELSE NoEntry]
           rest == [a \in AppIds |-> IF lost[a] = NoEntry THEN remaining[a]
                                     ELSE Sub(Value(remaining[a]), remote[h][a])]
           none == [remote EXCEPT ![h] = [a \in AppIds |-> 0]]
           s    == [Current EXCEPT
                      !.db = d,
                      !.remaining = [a \in AppIds |-> IF lost[a] = NoEntry THEN @[a]
                                       ELSE Sub(Value(@[a]), remote[h][a])],
                      !.remote[h] = [a \in AppIds |-> 0]]
<1>1. Current \in States /\ DbOK(db) /\ StateOK(Current, fired)
  BY CurrentIs DEF NodeInv, StateOK
<1>2. /\ DbOK(d) /\ Follows(db, d) /\ d.lastRid = db.lastRid
      /\ Timed(d, timers \cup (fired \cup Lost))
  BY <1>1, DeadNodeOK DEF NodeInv
<1>3. /\ Becomes(SendRequests(s, lost, inChange)) /\ UNCHANGED restarts
      /\ \E i \in TimerIds : fired' = fired \ {HeartbeatTimer(h, i)}
      /\ heartbeats' = [heartbeats EXCEPT ![h] = NoEntry]
      /\ db.lastRid + MaxApps <= MaxRequests
      /\ inNetwork' = inNetwork /\ inChange' = inChange /\ alive' = alive
  BY DEF HandleHeartbeatTimeout, envVars, RequestsLeft
<1>4. inChange \in BOOLEAN /\ {inNetwork', inChange', alive'} \subseteq BOOLEAN
  BY <1>3 DEF NodeInv
<1>5. /\ rest \in [AppIds -> (0 .. UIntMax) \cup {NoEntry}]
      /\ none \in [Hosts -> [AppIds -> Nat]]
      /\ lost \in Calls
  <2>1. /\ \A a \in AppIds : remaining[a] \in (0 .. UIntMax) \cup {NoEntry}
        /\ remote \in [Hosts -> [AppIds -> Nat]]
    BY <1>1, TypesOfCurrent
  <2>2. \A a \in AppIds : Value(remaining[a]) \in Int /\ remote[h][a] \in Int
    BY <2>1, SubmissionConstants DEF Value, NoEntry, SubmissionConstants
  <2>3. \A a \in AppIds : Sub(Value(remaining[a]), remote[h][a]) \in 0 .. UIntMax
    BY <2>2, Unsigned
  <2>4. rest \in [AppIds -> (0 .. UIntMax) \cup {NoEntry}]
    BY <2>1, <2>3
  <2> QED BY <2>1, <2>4 DEF Calls
<1> HIDE DEF d, rest, none, lost
<1>6. /\ s.db = d /\ s.timers = timers /\ s.offered = offered /\ s.remote = none
      /\ s \in States
  <2>1. s = [Current EXCEPT !.db = d, !.remaining = rest, !.remote = none]
    BY DEF Current, rest, none
  <2> HIDE DEF s
  <2> QED BY <1>1, <1>2, <1>5, <2>1, TypesOfCurrent DEF Current, States, DbOK
<1> HIDE DEF s
<1>7. StateOK(s, fired')
  <2>1. s.timers \cup fired' \subseteq Current.timers \cup fired
    BY <1>3, <1>6, CurrentIs
  <2> QED BY <1>1, <1>2, <1>6, <2>1, CurrentIs, ChangedOK
<1>8. Timed(s.db, s.timers \cup (fired' \cup Lost))
  <2>1. ASSUME NEW r \in Rids, RequestTimer(r) \in timers \cup (fired \cup Lost)
        PROVE  RequestTimer(r) \in s.timers \cup (fired' \cup Lost)
    BY <1>3, <1>6, <2>1, TimerKinds
  <2> QED BY <1>2, <1>6, <2>1 DEF Timed
<1>9. heartbeats \in [Hosts -> TimerIds \cup {NoEntry}] /\ remote \in [Hosts -> [AppIds -> Nat]]
  BY <1>1, TypesOfCurrent DEF NodeInv
<1>10. \A g \in Hosts \ {h} : \A i \in TimerIds :
         HeartbeatTimer(g, i) \in timers \cup fired => HeartbeatTimer(g, i) \in s.timers \cup fired'
  BY <1>3, <1>6, TimerKinds
<1>11. \A g \in Hosts : heartbeats'[g] # NoEntry =>
         HeartbeatTimer(g, heartbeats'[g]) \in s.timers \cup fired'
  BY <1>3, <1>9, <1>10 DEF NodeInv, HeartbeatsOK
<1>12. \A g \in Hosts : (\E a \in AppIds : s.remote[g][a] > 0) =>
         \E i \in TimerIds : HeartbeatTimer(g, i) \in s.timers \cup fired'
  <2>1. ASSUME NEW g \in Hosts, NEW a \in AppIds, s.remote[g][a] > 0
        PROVE  g # h /\ remote[g][a] > 0
    BY <1>6, <1>9, <2>1 DEF none
  <2> QED BY <1>10, <2>1 DEF NodeInv, HeartbeatsOK, NodesAreWatched
<1>13. heartbeats' \in [Hosts -> TimerIds \cup {NoEntry}] /\ fired' \subseteq Timers
  BY <1>3, <1>9 DEF NodeInv
<1> QED BY <1>2, <1>3, <1>4, <1>5, <1>6, <1>7, <1>8, <1>11, <1>12, <1>13, SendStep

\* A timer that nothing refers to.
LEMMA NewTimerOK ==
  ASSUME NEW h \in Hosts, TimersLeft(h)
  PROVE  NewTimer(h) \in TimerIds
<1> DEFINE Free(i) == heartbeats[h] # i /\ HeartbeatTimer(h, i) \notin timers \cup fired
           ids     == {i \in TimerIds : Free(i)}
<1>1. ids \in SUBSET Nat /\ ids # {}
  BY SubmissionConstants DEF SubmissionConstants, TimersLeft, TimerIds
<1>2. PICK i \in ids : \A j \in ids : i <= j
  <2> HIDE DEF ids
  <2> QED BY <1>1, LeastNumber
<1>3. \A j \in 1 .. i - 1 : ~ Free(j)
  <2>1. i \in 1 .. MaxTimers /\ MaxTimers \in Nat
    BY SubmissionConstants DEF SubmissionConstants, TimerIds
  <2>2. ASSUME NEW j \in 1 .. i - 1, Free(j) PROVE FALSE
    <3>1. j \in ids
      BY <2>1, <2>2 DEF TimerIds
    <3>2. i <= j
      BY <1>2, <3>1
    <3> QED BY <2>1, <3>2
  <2> QED BY <2>2
<1>4. \E j \in TimerIds : /\ heartbeats[h] # j
                          /\ HeartbeatTimer(h, j) \notin timers \cup fired
                          /\ \A q \in 1 .. j - 1 : heartbeats[h] = q
                                                   \/ HeartbeatTimer(h, q) \in timers \cup fired
  BY <1>3
<1> QED BY <1>4 DEF NewTimer

\* A step that sends no request.
LEMMA QuietStep ==
  ASSUME NodeInv, StateOK(Current', fired'), Follows(db, db'),
         Timed(db', timers' \cup (fired' \cup Lost)),
         fired' \subseteq Timers, UNCHANGED restarts,
         {inNetwork', inChange', alive'} \subseteq BOOLEAN,
         heartbeats' \in [Hosts -> TimerIds \cup {NoEntry}],
         HeartbeatsOK'
  PROVE  NodeInv' /\ Follows(db, db')
BY DEF NodeInv, Lost

\* SubmissionNode::handle(AcceptTaskMsg)
LEMMA AcceptTaskStep ==
  ASSUME NodeInv, NEW m \in Messages, m.type = "accept" => Named(db, m.rid), HandleAcceptTask(m)
  PROVE  NodeInv' /\ Follows(db, db')
<1> DEFINE h   == m.node
           a   == GetInstanceId(db, m.rid)
           K   == {m.rid} \X m.rtids
           num == Cardinality(Accepted(db, a, K))
<1>1. Current \in States /\ DbOK(db) /\ StateOK(Current, fired)
  BY CurrentIs DEF NodeInv, StateOK
<1>2. m.type = "accept" /\ h \in Hosts /\ m.rid \in Rids /\ a \in AppIds
  BY DEF HandleAcceptTask, Messages, Named, GetInstanceId
<1>3. /\ DbOK(db') /\ Follows(db, db') /\ Timed(db', timers \cup (fired \cup Lost))
  BY <1>1, <1>2, AcceptedTasksOK DEF HandleAcceptTask, NodeInv
<1>4. num \in Nat
  <2>1. Accepted(db, a, K) \in SUBSET (1 .. NumTasks)
    BY DEF Accepted, InState, TaskIds
  <2> QED BY <2>1, Counts, Numbers
<1>5. /\ UNCHANGED <<offered, inNetwork, inChange, delayed, remaining, fired, alive, restarts>>
      /\ IF num > 0
         THEN /\ retries' = [retries EXCEPT ![m.rid] = 0]
              /\ remote' = [remote EXCEPT ![h][a] = @ + num]
              /\ IF heartbeats[h] = NoEntry
                 THEN /\ TimersLeft(h)
                      /\ heartbeats' = [heartbeats EXCEPT ![h] = NewTimer(h)]
                      /\ timers' = timers \cup {HeartbeatTimer(h, NewTimer(h))}
                 ELSE UNCHANGED <<heartbeats, timers>>
         ELSE UNCHANGED <<retries, remote, heartbeats, timers>>
  BY DEF HandleAcceptTask
<1>6. /\ remaining \in [AppIds -> (0 .. UIntMax) \cup {NoEntry}]
      /\ retries \in [Rids -> (0 .. SubmitRetries) \cup {1, NoEntry}]
      /\ timers \in SUBSET Timers /\ offered \in SUBSET Keys
      /\ delayed \in Calls /\ remote \in [Hosts -> [AppIds -> Nat]]
      /\ heartbeats \in [Hosts -> TimerIds \cup {NoEntry}] /\ fired \subseteq Timers
      /\ HeartbeatsOK /\ {inNetwork, inChange, alive} \subseteq BOOLEAN
  BY <1>1, TypesOfCurrent DEF NodeInv
<1> HIDE DEF h, a, num, K
<1>7. /\ retries' \in [Rids -> (0 .. SubmitRetries) \cup {1, NoEntry}]
      /\ remote' \in [Hosts -> [AppIds -> Nat]]
      /\ \A g \in Hosts \ {h} : remote'[g] = remote[g]
  <2>1. 0 \in 0 .. SubmitRetries
    BY SubmissionConstants DEF SubmissionConstants
  <2>2. CASE num > 0
    <3>1. retries' = [retries EXCEPT ![m.rid] = 0] /\ remote' = [remote EXCEPT ![h][a] = @ + num]
      BY <1>5, <2>2
    <3>2. remote[h][a] + num \in Nat
      BY <1>2, <1>4, <1>6
    <3>3. retries' \in [Rids -> (0 .. SubmitRetries) \cup {1, NoEntry}]
      BY <1>2, <1>6, <2>1, <3>1
    <3>4. remote' \in [Hosts -> [AppIds -> Nat]]
      BY <1>2, <1>6, <3>1, <3>2
    <3> QED BY <1>2, <1>6, <3>1, <3>3, <3>4
  <2>3. CASE ~ (num > 0)
    BY <1>5, <1>6, <2>3
  <2> QED BY <2>2, <2>3
<1>8. /\ timers \subseteq timers' /\ timers' \in SUBSET Timers
      /\ \A r \in Rids : RequestTimer(r) \in timers' => RequestTimer(r) \in timers
      /\ heartbeats' \in [Hosts -> TimerIds \cup {NoEntry}]
      /\ \A g \in Hosts : heartbeats'[g] # NoEntry =>
           HeartbeatTimer(g, heartbeats'[g]) \in timers' \cup fired
      /\ num > 0 => heartbeats'[h] # NoEntry
  <2>1. CASE num > 0 /\ heartbeats[h] = NoEntry
    <3>1. /\ heartbeats' = [heartbeats EXCEPT ![h] = NewTimer(h)]
          /\ timers' = timers \cup {HeartbeatTimer(h, NewTimer(h))}
          /\ NewTimer(h) \in TimerIds
      BY <1>2, <1>5, <2>1, NewTimerOK
    <3>2. NewTimer(h) # NoEntry
      BY <3>1, SubmissionConstants DEF SubmissionConstants, NoEntry, TimerIds
    <3>3. HeartbeatTimer(h, NewTimer(h)) \in Timers
      BY <1>2, <3>1 DEF Timers
    <3> QED BY <1>2, <1>6, <3>1, <3>2, <3>3, TimerKinds DEF HeartbeatsOK
  <2>2. CASE ~ (num > 0 /\ heartbeats[h] = NoEntry)
    BY <1>5, <1>6, <2>2 DEF HeartbeatsOK
  <2> QED BY <2>1, <2>2
<1>9. NodesAreWatched'
  <2>1. ASSUME NEW g \in Hosts, NEW b \in AppIds, remote'[g][b] > 0
        PROVE  \E i \in TimerIds : HeartbeatTimer(g, i) \in timers' \cup fired
    <3>1. CASE remote[g][b] > 0
      BY <1>6, <1>8, <3>1 DEF HeartbeatsOK, NodesAreWatched
    <3>2. CASE ~ (remote[g][b] > 0)
      <4>1. num > 0 /\ g = h
        BY <1>5, <1>7, <2>1, <3>2
      <4> QED BY <1>8, <4>1
    <3> QED BY <3>1, <3>2
  <2> QED BY <1>5, <2>1 DEF NodesAreWatched
<1>10. HeartbeatsOK'
  BY <1>5, <1>8, <1>9 DEF HeartbeatsOK
<1>11. Current' \in States
  BY <1>3, <1>5, <1>6, <1>7, <1>8 DEF Current, States, DbOK
<1>12. StateOK(Current', fired')
  <2>1. \A r \in Rids : RequestTimer(r) \in timers' \cup fired' => Named(db, r)
    BY <1>1, <1>5, <1>8, CurrentIs DEF StateOK
  <2>2. \A k \in offered : Named(db, k[1]) /\ k[1] \in Rids
    BY <1>1, <1>6, CurrentIs DEF StateOK, Keys
  <2>3. db \in Databases /\ db' \in Databases
    BY <1>1, <1>3 DEF DbOK
  <2>4. /\ \A r \in Rids : RequestTimer(r) \in timers' \cup fired' => Named(db', r)
        /\ \A k \in offered' : Named(db', k[1])
    BY <1>3, <1>5, <2>1, <2>2, <2>3, FollowsNamed
  <2> QED BY <1>3, <1>11, <2>4 DEF StateOK, Current
<1>13. Timed(db', timers' \cup (fired' \cup Lost))
  <2>1. timers \cup (fired \cup Lost) \subseteq timers' \cup (fired' \cup Lost)
    BY <1>5, <1>8
  <2> QED BY <1>3, <2>1, TimedMore
<1> QED BY <1>3, <1>5, <1>6, <1>8, <1>10, <1>12, <1>13, QuietStep

\* SubmissionNode::handle(TaskMonitorMsg)
LEMMA TaskMonitorStep ==
  ASSUME NodeInv, NEW m \in Messages, HandleTaskMonitor(m),
         m.type = "monitor" => \A k \in KeysOf(m) : Named(db, k[1])
  PROVE  NodeInv' /\ Follows(db, db')
<1> DEFINE h     == m.node
           d     == AcceptedTasks(db, h, m.tasks)
           s1    == [Current EXCEPT !.db = AcceptedTasks(@, h, m.tasks)]
           k     == CHOOSE q \in m.finished : TRUE
           s2    == IF m.finished = {} THEN s1 ELSE FinishOne(s1, h, k)
           s3    == IF m.aborted = {} THEN s2
                    ELSE AbortOne(s2, h, CHOOSE q \in m.aborted : TRUE)
           watch == \E a \in AppIds : s3.remote[h][a] > 0
           T     == timers \cup (fired \cup Lost)
<1>1. Current \in States /\ DbOK(db) /\ StateOK(Current, fired) /\ Timed(db, T)
  BY CurrentIs DEF NodeInv, StateOK
<1>2. m.type = "monitor" /\ h \in Hosts /\ m.finished \subseteq Keys
  BY DEF HandleTaskMonitor, Messages
<1>3. DbOK(d) /\ Follows(db, d) /\ Timed(d, T) /\ d.lastRid = db.lastRid
  BY <1>1, <1>2, AcceptedTasksOK
<1> HIDE DEF T
<1>4. /\ watch \in BOOLEAN /\ watch => TimersLeft(h)
      /\ heartbeats' = [heartbeats EXCEPT ![h] = IF watch THEN NewTimer(h) ELSE NoEntry]
      /\ Becomes([s3 EXCEPT !.timers = Rearmed(@, h, watch)])
      /\ UNCHANGED <<inNetwork, inChange, fired, alive, restarts>>
  BY Zenon DEF HandleTaskMonitor
<1>5. /\ s1.db = d /\ s1.timers = timers /\ s1.remote = remote /\ s1.offered = offered
      /\ s1 \in States
  <2>1. s1 = [Current EXCEPT !.db = d]
    BY DEF Current
  <2> HIDE DEF s1, d
  <2> QED BY <1>1, <1>3, <2>1, TypesOfCurrent DEF Current, States, DbOK
<1> HIDE DEF s1, d, k
<1>6. StateOK(s1, fired)
  <2>1. s1.timers \cup fired \subseteq Current.timers \cup fired /\ Current.db = db
        /\ s1.offered = Current.offered
    BY <1>5, CurrentIs
  <2> QED BY <1>1, <1>3, <1>5, <2>1, ChangedOK
<1>7. /\ StateOK(s2, fired) /\ Follows(db, s2.db) /\ Timed(s2.db, T)
      /\ s2.timers = timers /\ \A g \in Hosts \ {h} : s2.remote[g] = remote[g]
  <2>1. CASE m.finished = {}
    BY <1>3, <1>5, <1>6, <2>1
  <2>2. CASE m.finished # {}
    <3>1. k \in m.finished
      BY <2>2 DEF k
    <3>2. k \in Keys /\ Named(db, k[1])
      BY <1>2, <3>1 DEF KeysOf
    <3>3. db \in Databases /\ d \in Databases /\ k[1] \in Rids
      BY <1>1, <1>3, <3>2 DEF DbOK, Keys
    <3>4. Named(s1.db, k[1])
      BY <1>3, <1>5, <3>2, <3>3, FollowsNamed
    <3>5. /\ StateOK(s2, fired) /\ Follows(d, s2.db) /\ Timed(s2.db, T)
          /\ s2.timers = timers /\ \A g \in Hosts \ {h} : s2.remote[g] = remote[g]
      <4>1. s2 = FinishOne(s1, h, k)
        BY <2>2
      <4>2. Timed(s1.db, T)
        BY <1>3, <1>5
      <4> HIDE DEF s2
      <4>3. /\ StateOK(FinishOne(s1, h, k), fired)
            /\ Follows(s1.db, FinishOne(s1, h, k).db) /\ Timed(FinishOne(s1, h, k).db, T)
            /\ FinishOne(s1, h, k).timers = s1.timers
            /\ \A g \in Hosts \ {h} : FinishOne(s1, h, k).remote[g] = s1.remote[g]
        BY <1>2, <1>6, <3>2, <3>4, <4>2, FinishOneOK
      <4> QED BY <1>5, <4>1, <4>3
    <3>6. s2.db \in Databases
      BY <3>5 DEF StateOK, DbOK
    <3> QED BY <1>3, <3>3, <3>5, <3>6, FollowsOn
  <2> QED BY <2>1, <2>2
<1> HIDE DEF s2
<1>8. s3 = s2
  BY <1>2, AbortedTaskFails DEF AbortOne
<1> DEFINE armed == Rearmed(timers, h, watch)
           n     == [s2 EXCEPT !.timers = armed]
<1>9. /\ s2 \in States /\ heartbeats \in [Hosts -> TimerIds \cup {NoEntry}] /\ HeartbeatsOK
      /\ {inNetwork, inChange, alive} \subseteq BOOLEAN /\ fired \subseteq Timers
      /\ timers \in SUBSET Timers
  BY <1>1, <1>7, TypesOfCurrent DEF NodeInv, StateOK
<1>10. /\ Becomes(n)
       /\ watch = (\E a \in AppIds : s2.remote[h][a] > 0)
  BY <1>4, <1>7, <1>8
<1> HIDE DEF watch, s3
<1>11. watch => NewTimer(h) \in TimerIds /\ NewTimer(h) # NoEntry
  <2>1. NoEntry \notin TimerIds
    BY SubmissionConstants DEF SubmissionConstants, NoEntry, TimerIds
  <2> QED BY <1>2, <1>4, <2>1, NewTimerOK
<1>12. /\ \A t \in timers : t \in armed \/ t = HeartbeatTimer(h, heartbeats[h])
       /\ \A t \in armed : t \in timers \/ (watch /\ t = HeartbeatTimer(h, NewTimer(h)))
       /\ watch => HeartbeatTimer(h, NewTimer(h)) \in armed
  <2> DEFINE old == HeartbeatTimer(h, heartbeats[h])
             new == HeartbeatTimer(h, NewTimer(h))
  <2>1. armed = (timers \ {old}) \cup {new : w \in {watch} \cap {TRUE}}
    BY Zenon DEF Rearmed
  <2> HIDE DEF armed, old, new
  <2>2. CASE watch
    <3>1. watch = TRUE
      BY <2>2, Zenon DEF watch
    <3>2. armed = (timers \ {old}) \cup {new}
      BY <2>1, <3>1
    <3> QED BY <2>2, <3>2 DEF old, new
  <2>3. CASE ~ watch
    <3>1. watch = FALSE
      BY <2>3, Zenon DEF watch
    <3>2. armed = timers \ {old}
      BY <2>1, <3>1
    <3> QED BY <2>3, <3>2 DEF old, new
  <2> QED BY <2>2, <2>3
<1>13. armed \in SUBSET Timers
  <2>1. \A i \in TimerIds : HeartbeatTimer(h, i) \in Timers
    BY <1>2 DEF Timers
  <2> QED BY <1>9, <1>11, <1>12, <2>1
<1> HIDE DEF armed
<1>14. /\ n.db = s2.db /\ n.timers = armed /\ n.offered = s2.offered /\ n.remote = s2.remote
       /\ n \in States
  BY <1>9, <1>13 DEF States
<1> HIDE DEF n
<1>15. Current' = n /\ db' = s2.db /\ timers' = armed /\ remote' = s2.remote
  BY <1>10, <1>14, BecomesState DEF Becomes
<1>16. StateOK(Current', fired')
  <2>1. \A r \in Rids : RequestTimer(r) \in armed => RequestTimer(r) \in timers
    BY <1>2, <1>11, <1>12, TimerKinds
  <2>2. \A r \in Rids : RequestTimer(r) \in n.timers \cup fired => Named(n.db, r)
    BY <1>7, <1>14, <2>1 DEF StateOK
  <2> QED BY <1>4, <1>7, <1>14, <1>15, <2>2 DEF StateOK
<1>17. Timed(db', timers' \cup (fired' \cup Lost))
  <2>1. ASSUME NEW r \in Rids, RequestTimer(r) \in timers PROVE RequestTimer(r) \in armed
    <3>1. RequestTimer(r).type # HeartbeatTimer(h, heartbeats[h]).type
      BY DEF RequestTimer, HeartbeatTimer
    <3> QED BY <1>12, <2>1, <3>1
  <2> QED BY <1>4, <1>7, <1>15, <2>1 DEF Timed, T
<1>18. \A g \in Hosts \ {h} : \A i \in TimerIds :
         HeartbeatTimer(g, i) \in timers \cup fired => HeartbeatTimer(g, i) \in timers' \cup fired'
  <2>1. ASSUME NEW g \in Hosts \ {h}, NEW i \in TimerIds
        PROVE  HeartbeatTimer(g, i) # HeartbeatTimer(h, heartbeats[h])
    BY DEF HeartbeatTimer
  <2> QED BY <1>4, <1>12, <1>15, <2>1
<1>19. heartbeats' \in [Hosts -> TimerIds \cup {NoEntry}]
  BY <1>2, <1>4, <1>9, <1>11
<1>20. HeartbeatsOK'
  <2>1. ASSUME NEW g \in Hosts, heartbeats'[g] # NoEntry
        PROVE  HeartbeatTimer(g, heartbeats'[g]) \in timers' \cup fired'
    <3>1. CASE g = h
      BY <1>2, <1>4, <1>9, <1>12, <1>15, <2>1, <3>1
    <3>2. CASE g # h
      BY <1>2, <1>4, <1>9, <1>18, <2>1, <3>2 DEF HeartbeatsOK
    <3> QED BY <3>1, <3>2
  <2>2. ASSUME NEW g \in Hosts, NEW a \in AppIds, remote'[g][a] > 0
        PROVE  \E i \in TimerIds : HeartbeatTimer(g, i) \in timers' \cup fired'
    <3>1. CASE g = h
      <4>1. watch
        BY <1>10, <1>15, <2>2, <3>1
      <4> QED BY <1>11, <1>12, <1>15, <3>1, <4>1
    <3>2. CASE g # h
      <4>1. remote[g][a] > 0
        BY <1>7, <1>15, <2>2, <3>2
      <4> QED BY <1>9, <1>18, <3>2, <4>1 DEF HeartbeatsOK, NodesAreWatched
    <3> QED BY <3>1, <3>2
  <2> QED BY <2>1, <2>2 DEF HeartbeatsOK, NodesAreWatched
<1>21. Follows(db, db') /\ fired' \subseteq Timers /\ UNCHANGED restarts
       /\ {inNetwork', inChange', alive'} \subseteq BOOLEAN
  BY <1>4, <1>7, <1>9, <1>15
<1> QED BY <1>16, <1>17, <1>19, <1>20, <1>21, QuietStep

\* A timer that expires is still one that will be handled.
LEMMA ExpireStep ==
  ASSUME NodeInv, NEW t \in Timers, Expire(t)
  PROVE  NodeInv' /\ Follows(db, db')
<1>1. /\ Current \in States /\ DbOK(db) /\ StateOK(Current, fired)
      /\ {inNetwork, inChange, alive} \subseteq BOOLEAN /\ HeartbeatsOK
  BY CurrentIs DEF NodeInv, StateOK
<1>2. /\ timers' \cup fired' = timers \cup fired
      /\ timers' \subseteq timers /\ fired' \subseteq Timers
      /\ UNCHANGED <<db, offered, inNetwork, inChange, delayed, remaining, retries, heartbeats,
                     remote, alive, restarts>>
  BY DEF Expire, NodeInv, envVars
<1>3. Current' \in States
  BY <1>1, <1>2, TypesOfCurrent DEF Current, States
<1>4. StateOK(Current', fired')
  BY <1>1, <1>2, <1>3, CurrentIs DEF StateOK, Current
<1>5. Timed(db', timers' \cup (fired' \cup Lost))
  <2>1. timers' \cup (fired' \cup Lost) = timers \cup (fired \cup Lost)
    BY <1>2
  <2> QED BY <1>2, <2>1 DEF NodeInv
<1>6. HeartbeatsOK'
  BY <1>1, <1>2 DEF HeartbeatsOK, NodesAreWatched
<1>7. Follows(db, db')
  BY <1>1, <1>2, FollowsItself DEF DbOK
<1> QED BY <1>1, <1>2, <1>4, <1>5, <1>6, <1>7, QuietStep DEF NodeInv

\* After a restart the node has no timer, and nothing to watch.
LEMMA RestartStep ==
  ASSUME NodeInv, restarts \in Nat, Restart
  PROVE  NodeInv' /\ Follows(db, db')
<1>1. Current \in States /\ DbOK(db) /\ StateOK(Current, fired)
  BY CurrentIs DEF NodeInv, StateOK
<1>2. Current' \in States
  BY <1>1, NoCalls, TypesOfCurrent DEF Restart, Current, States
<1>3. StateOK(Current', fired')
  BY <1>1, <1>2 DEF StateOK, Current, Restart
<1>4. Timed(db', timers' \cup (fired' \cup Lost'))
  <2>1. timers \cup (fired \cup Lost) \subseteq Timers
    BY <1>1, TypesOfCurrent DEF NodeInv, Lost
  <2>2. Lost' = Timers /\ db' = db
    BY DEF Restart, Lost
  <2>3. Timed(db, Timers)
    BY <2>1, TimedMore DEF NodeInv
  <2>4. timers' \cup (fired' \cup Lost') = Timers
    BY <2>2 DEF Restart
  <2> QED BY <2>2, <2>3, <2>4
<1>5. HeartbeatsOK'
  BY DEF Restart, HeartbeatsOK, NodesAreWatched
<1>6. Follows(db, db')
  BY <1>1, FollowsItself DEF Restart, DbOK
<1> QED BY <1>3, <1>4, <1>5, <1>6 DEF NodeInv, Restart

-----------------------------------------------------------------------------
(* The steps of the environment, and all of them.                          *)

\* A step of the overlay or of an execution node: what is on its way was asked
\* for, and one message more or less keeps the types.
LEMMA EnvironmentStep ==
  ASSUME IInv, UNCHANGED <<db, nodeVars, restarts>>, offered' \subseteq offered,
         running' \subseteq [node : Hosts, key : Keys, exited : BOOLEAN],
         \A x \in running' : x.key \in offered \/ \E y \in running : x.key = y.key,
         \A x, y \in running' : x.node = y.node /\ x.exited /\ y.exited => x = y,
         up' \subseteq Hosts, net' \subseteq Messages,
         \A m \in net' \ net :
           /\ IF m.type = "accept" THEN \E k \in offered : k[1] = m.rid
              ELSE \A k \in KeysOf(m) : \E x \in running : k = x.key
           /\ m.type = "monitor" => \E k \in Keys : m.finished \cup m.aborted \subseteq {k},
         faults' \in 0 .. MaxFaults, losses' \in 0 .. MaxLosses
  PROVE  IInv' /\ Follows(db, db')
<1>1. NodeInv /\ EnvInv /\ StateOK(Current, fired) /\ Current \in States
  BY DEF IInv, NodeInv, StateOK
<1>2. \A k \in offered : Named(db, k[1])
  BY <1>1, CurrentIs DEF StateOK
<1>3. Current' \in States
  BY <1>1, TypesOfCurrent DEF Current, States, nodeVars
<1>4. StateOK(Current', fired')
  BY <1>1, <1>2, <1>3 DEF StateOK, Current, nodeVars
<1>5. HeartbeatsOK'
  BY <1>1 DEF NodeInv, HeartbeatsOK, NodesAreWatched, nodeVars
<1>6. NodeInv'
  BY <1>1, <1>4, <1>5 DEF NodeInv, Lost, nodeVars
<1>7. \A x \in running' : Named(db, x.key[1])
  BY <1>1, <1>2 DEF EnvInv
<1>8. \A m \in net' : IF m.type = "accept" THEN Named(db, m.rid)
                      ELSE \A k \in KeysOf(m) : Named(db, k[1])
  <2>1. ASSUME NEW m \in net', m \notin net
        PROVE  IF m.type = "accept" THEN Named(db, m.rid)
               ELSE \A k \in KeysOf(m) : Named(db, k[1])
    BY <1>1, <1>2, <2>1 DEF EnvInv
  <2> QED BY <1>1, <2>1 DEF EnvInv
<1>9. \A m \in net' : m.type = "monitor" =>
                        \E k \in Keys : m.finished \cup m.aborted \subseteq {k}
  BY <1>1 DEF EnvInv
<1>10. UNCHANGED <<db, restarts>>
  OBVIOUS
<1>11. EnvInv'
  <2>1. \A x \in running' : Named(db', x.key[1])
    BY <1>7, <1>10
  <2>2. \A m \in net' : IF m.type = "accept" THEN Named(db', m.rid)
                        ELSE \A k \in KeysOf(m) : Named(db', k[1])
    BY <1>8, <1>10
  <2> QED BY <1>1, <1>9, <1>10, <2>1, <2>2 DEF EnvInv, KeysOf
<1>12. Follows(db, db')
  BY <1>1, <1>10, TypesOfCurrent, FollowsItself
<1> QED BY <1>6, <1>11, <1>12 DEF IInv

\* A step of the node: it may only take a message.
LEMMA ServedStep ==
  ASSUME IInv, NodeInv', Follows(db, db'), net' \subseteq net,
         UNCHANGED <<running, up, faults, losses>>, restarts' \in 0 .. MaxRestarts
  PROVE  IInv' /\ Follows(db, db')
<1>1. db \in Databases /\ db' \in Databases
  BY DEF IInv, NodeInv, StateOK, DbOK, Current
<1>2. EnvInv
  BY DEF IInv
<1>3. \A r \in Rids : Named(db, r) => Named(db', r)
  BY <1>1, FollowsNamed
<1>4. \A x \in running : Named(db', x.key[1])
  <2>1. \A x \in running : x.key[1] \in Rids
    BY <1>2 DEF EnvInv, Keys
  <2> QED BY <1>2, <1>3, <2>1 DEF EnvInv
<1>5. \A m \in net' : IF m.type = "accept" THEN Named(db', m.rid)
                      ELSE \A k \in KeysOf(m) : Named(db', k[1])
  <2>1. ASSUME NEW m \in net', m.type = "accept" PROVE Named(db', m.rid)
    BY <1>2, <1>3, <2>1 DEF EnvInv, Messages
  <2>2. ASSUME NEW m \in net', m.type # "accept", NEW k \in KeysOf(m) PROVE Named(db', k[1])
    <3>1. k[1] \in Rids
      BY <1>2, <2>2 DEF EnvInv, Messages, KeysOf, Keys
    <3> QED BY <1>2, <1>3, <2>2, <3>1 DEF EnvInv
  <2> QED BY <2>1, <2>2
<1>6. EnvInv'
  BY <1>2, <1>4, <1>5 DEF EnvInv, KeysOf
<1> QED BY <1>6 DEF IInv

\* Every step keeps the invariant, the requests and the tasks that are finished.
LEMMA InvStep == IInv /\ [Next]_vars => IInv' /\ Follows(db, db')
<1> SUFFICES ASSUME IInv, [Next]_vars PROVE IInv' /\ Follows(db, db')
  OBVIOUS
<1>1. NodeInv /\ EnvInv
  BY DEF IInv
<1>2. /\ \A m \in net : m \in Messages /\ (m.type = "accept" => Named(db, m.rid))
      /\ \A m \in net : m.type = "monitor" => \A k \in KeysOf(m) : Named(db, k[1])
  BY <1>1 DEF EnvInv
<1>3. /\ {inNetwork, inChange, alive} \subseteq BOOLEAN
      /\ restarts \in 0 .. MaxRestarts /\ restarts \in Nat
      /\ MaxFaults \in Nat /\ MaxLosses \in Nat /\ MaxRestarts \in Nat
      /\ faults \in 0 .. MaxFaults /\ losses \in 0 .. MaxLosses
      /\ offered \subseteq Keys
  BY <1>1, TypesOfCurrent, SubmissionConstants DEF NodeInv, EnvInv, StateOK, SubmissionConstants
<1>4. /\ running \subseteq [node : Hosts, key : Keys, exited : BOOLEAN]
      /\ \A x, y \in running : x.node = y.node /\ x.exited /\ y.exited => x = y
      /\ up \subseteq Hosts /\ net \subseteq Messages
  BY <1>1 DEF EnvInv
<1>5. CASE FatherChanging
  <2>1. NodeInv' /\ Follows(db, db')
    BY <1>1, <1>3, <1>5, NodeUnchanged DEF FatherChanging, envVars
  <2> QED BY <1>3, <1>5, <2>1, ServedStep DEF FatherChanging, envVars
<1>6. CASE FatherChanged
  <2>1. NodeInv' /\ Follows(db, db')
    BY <1>1, <1>6, FatherChangedStep
  <2> QED BY <1>3, <1>6, <2>1, ServedStep DEF FatherChanged, envVars
<1>7. ASSUME NEW a \in AppIds, DispatchCommand(a) PROVE IInv' /\ Follows(db, db')
  <2>1. NodeInv' /\ Follows(db, db')
    BY <1>1, <1>7, DispatchCommandStep
  <2> QED BY <1>3, <1>7, <2>1, ServedStep DEF DispatchCommand, envVars
<1>8. ASSUME NEW r \in Rids, HandleRequestTimeout(r) PROVE IInv' /\ Follows(db, db')
  <2>1. NodeInv' /\ Follows(db, db')
    BY <1>1, <1>8, RequestTimeoutStep
  <2>2. UNCHANGED envVars
    BY <1>8, Zenon DEF HandleRequestTimeout
  <2> QED BY <1>3, <2>1, <2>2, ServedStep DEF envVars
<1>9. ASSUME NEW h \in Hosts, HandleHeartbeatTimeout(h) PROVE IInv' /\ Follows(db, db')
  <2>1. NodeInv' /\ Follows(db, db')
    BY <1>1, <1>9, HeartbeatTimeoutStep
  <2>2. UNCHANGED envVars
    BY <1>9, Zenon DEF HandleHeartbeatTimeout
  <2> QED BY <1>3, <2>1, <2>2, ServedStep DEF envVars
<1>10. ASSUME NEW m \in net, HandleAcceptTask(m) PROVE IInv' /\ Follows(db, db')
  <2>1. NodeInv' /\ Follows(db, db')
    BY <1>1, <1>2, <1>10, AcceptTaskStep
  <2>2. UNCHANGED <<running, up, faults, losses, restarts>> /\ net' \subseteq net
    BY <1>10 DEF HandleAcceptTask, Arrives
  <2> QED BY <1>3, <2>1, <2>2, ServedStep
<1>11. ASSUME NEW m \in net, HandleTaskMonitor(m) PROVE IInv' /\ Follows(db, db')
  <2>1. NodeInv' /\ Follows(db, db')
    BY <1>1, <1>2, <1>11, TaskMonitorStep
  <2>2. UNCHANGED <<running, up, faults, losses, restarts>> /\ Arrives(m)
    BY <1>11, Zenon DEF HandleTaskMonitor
  <2>3. net' \subseteq net
    BY <2>2 DEF Arrives
  <2> QED BY <1>3, <2>1, <2>2, <2>3, ServedStep
<1>12. ASSUME NEW t \in Timers, Expire(t) PROVE IInv' /\ Follows(db, db')
  <2>1. NodeInv' /\ Follows(db, db')
    BY <1>1, <1>12, ExpireStep
  <2> QED BY <1>3, <1>12, <2>1, ServedStep DEF Expire, envVars
<1>13. CASE Restart
  <2>1. NodeInv' /\ Follows(db, db')
    BY <1>1, <1>3, <1>13, RestartStep
  <2>2. restarts' \in 0 .. MaxRestarts /\ UNCHANGED <<running, up, net, faults, losses>>
    BY <1>3, <1>13 DEF Restart
  <2> QED BY <2>1, <2>2, ServedStep
<1>14. ASSUME NEW h \in Hosts, NEW r \in Rids, NEW f \in TaskIds, NEW l \in TaskIds,
              NodeAccepts(h, r, f, l)
       PROVE  IInv' /\ Follows(db, db')
  <2> DEFINE K  == {r} \X (f .. l)
             m  == AcceptTaskMsg(h, r, f, l)
             ts == {[node |-> h, key |-> k, exited |-> FALSE] : k \in K}
  <2>1. /\ UNCHANGED <<db, nodeVars, up, faults, losses, restarts>>
        /\ K \subseteq offered /\ f <= l
        /\ offered' = offered \ K /\ running' = running \cup ts /\ net' = net \cup {m}
    BY <1>14 DEF NodeAccepts
  <2>2. f .. l \subseteq TaskIds
    BY Numbers DEF TaskIds
  <2>3. m \in Messages /\ m.type = "accept" /\ m.rid = r
    BY <2>2 DEF AcceptTaskMsg, Messages
  <2>4. <<r, f>> \in K
    BY <2>1, Numbers
  <2>5. \A x \in ts : /\ x \in [node : Hosts, key : Keys, exited : BOOLEAN]
                      /\ x.key \in offered /\ ~ x.exited
    <3>1. K \subseteq Keys /\ K \subseteq offered
      BY <1>3, <2>1
    <3> HIDE DEF K
    <3>2. ASSUME NEW k \in K, NEW x, x = [node |-> h, key |-> k, exited |-> FALSE]
          PROVE  /\ x \in [node : Hosts, key : Keys, exited : BOOLEAN]
                 /\ x.key \in offered /\ ~ x.exited
      BY <3>1, <3>2
    <3> QED BY <3>2
  <2> HIDE DEF K, ts, m
  <2>6. \A x \in running' : x.key \in offered \/ \E y \in running : x.key = y.key
    BY <2>1, <2>5
  <2>7. \A x, y \in running' : x.node = y.node /\ x.exited /\ y.exited => x = y
    BY <1>4, <2>1, <2>5
  <2>8. running' \subseteq [node : Hosts, key : Keys, exited : BOOLEAN]
    BY <1>4, <2>1, <2>5
  <2>9. \E k \in offered : k[1] = r
    BY <2>1, <2>4
  <2>10. \A q \in net' \ net : q.type = "accept" /\ \E k \in offered : k[1] = q.rid
    BY <2>1, <2>3, <2>9
  <2>11. /\ net' \subseteq Messages /\ up' \subseteq Hosts /\ offered' \subseteq offered
         /\ faults' \in 0 .. MaxFaults /\ losses' \in 0 .. MaxLosses
    BY <1>3, <1>4, <2>1, <2>3
  <2> QED BY <2>1, <2>6, <2>7, <2>8, <2>10, <2>11, EnvironmentStep
<1>15. ASSUME NEW r \in Rids, NobodyAccepts(r) PROVE IInv' /\ Follows(db, db')
  BY <1>3, <1>4, <1>15, EnvironmentStep DEF NobodyAccepts, envVars
<1>16. ASSUME NEW x \in running, TaskExits(x) PROVE IInv' /\ Follows(db, db')
  <2> DEFINE y == [x EXCEPT !.exited = TRUE]
  <2>1. /\ UNCHANGED <<db, offered, nodeVars, up, net, faults, losses, restarts>>
        /\ running' = (running \ {x}) \cup {y}
        /\ \A z \in running : z.node = x.node => ~ z.exited
    BY <1>16 DEF TaskExits, InQueue
  <2>2. /\ y \in [node : Hosts, key : Keys, exited : BOOLEAN]
        /\ y.key = x.key /\ y.node = x.node
    BY <1>4
  <2> HIDE DEF y
  <2>3. running' \subseteq [node : Hosts, key : Keys, exited : BOOLEAN]
    BY <1>4, <2>1, <2>2
  <2>4. \A z, w \in running' : z.node = w.node /\ z.exited /\ w.exited => z = w
    BY <1>4, <2>1, <2>2
  <2>5. \A z \in running' : \E w \in running : z.key = w.key
    BY <2>1, <2>2
  <2> QED BY <1>3, <1>4, <2>1, <2>3, <2>4, <2>5, EnvironmentStep
<1>17. ASSUME NEW x \in running, NEW F \in SUBSET {x.key}, NEW A \in SUBSET {x.key},
              running' = running \ {x}, net' = net \cup {TaskMonitorMsg(x.node, {x.key}, F, A)},
              faults' \in 0 .. MaxFaults, UNCHANGED <<db, offered, nodeVars, up, losses, restarts>>
       PROVE  IInv' /\ Follows(db, db')
  <2> DEFINE m == TaskMonitorMsg(x.node, {x.key}, F, A)
  <2>1. x.node \in Hosts /\ x.key \in Keys
    BY <1>4
  <2>2. /\ m \in Messages /\ m.type = "monitor" /\ KeysOf(m) = {x.key}
        /\ m.finished \cup m.aborted \subseteq {x.key}
    BY <2>1 DEF TaskMonitorMsg, Messages, KeysOf
  <2> HIDE DEF m
  <2>3. net' = net \cup {m}
    BY <1>17 DEF m
  <2>4. \A q \in net' \ net :
          /\ q.type = "monitor" /\ \A k \in KeysOf(q) : \E z \in running : k = z.key
          /\ \E k \in Keys : q.finished \cup q.aborted \subseteq {k}
    BY <2>1, <2>2, <2>3
  <2>5. net' \subseteq Messages
    BY <1>4, <2>2, <2>3
  <2>6. /\ running' \subseteq [node : Hosts, key : Keys, exited : BOOLEAN]
        /\ \A z \in running' : \E w \in running : z.key = w.key
        /\ \A z, w \in running' : z.node = w.node /\ z.exited /\ w.exited => z = w
    BY <1>4, <1>17
  <2> QED BY <1>3, <1>4, <1>17, <2>4, <2>5, <2>6, EnvironmentStep
<1>18. ASSUME NEW x \in running, NodeFinishes(x) PROVE IInv' /\ Follows(db, db')
  BY <1>3, <1>17, <1>18 DEF NodeFinishes
<1>19. ASSUME NEW x \in running, NodeAborts(x) PROVE IInv' /\ Follows(db, db')
  <2>1. faults' \in 0 .. MaxFaults
    BY <1>3, <1>19 DEF NodeAborts
  <2> QED BY <1>17, <1>19, <2>1 DEF NodeAborts
<1>20. ASSUME NEW h \in Hosts, NodeReminds(h) PROVE IInv' /\ Follows(db, db')
  <2> DEFINE K == {x.key : x \in InQueue(h)}
             F == {x.key : x \in {y \in InQueue(h) : y.exited}}
             m == TaskMonitorMsg(h, K, F, {})
  <2>1. /\ UNCHANGED <<db, offered, nodeVars, running, up, faults, losses, restarts>>
        /\ net' = net \cup {m} /\ K # {}
    BY <1>20 DEF NodeReminds
  <2>2. /\ K \subseteq Keys /\ F \subseteq K
        /\ \A k \in K : \E x \in running : k = x.key
    BY <1>4 DEF InQueue
  <2>3. \E k \in Keys : F \subseteq {k}
    <3>1. \A k, q \in F : k = q
      BY <1>4 DEF InQueue
    <3>2. PICK k \in K : TRUE
      BY <2>1
    <3> HIDE DEF F, K
    <3> QED BY <2>2, <3>1, <3>2
  <2> HIDE DEF F, K
  <2>4. /\ m \in Messages /\ m.type = "monitor" /\ KeysOf(m) = K
        /\ m.finished \cup m.aborted = F
    BY <2>2 DEF TaskMonitorMsg, Messages, KeysOf
  <2> HIDE DEF m
  <2>5. \A q \in net' \ net :
          /\ q.type = "monitor" /\ \A k \in KeysOf(q) : \E z \in running : k = z.key
          /\ \E k \in Keys : q.finished \cup q.aborted \subseteq {k}
    BY <2>1, <2>2, <2>3, <2>4
  <2>6. net' \subseteq Messages
    BY <1>4, <2>1, <2>4
  <2> QED BY <1>3, <1>4, <2>1, <2>5, <2>6, EnvironmentStep
<1>21. ASSUME NEW h \in Hosts, NodeFails(h) PROVE IInv' /\ Follows(db, db')
  <2>1. faults' \in 0 .. MaxFaults
    BY <1>3, <1>21 DEF NodeFails
  <2> QED BY <1>3, <1>4, <1>21, <2>1, EnvironmentStep DEF NodeFails
<1>22. ASSUME NEW m \in net, LoseMessage(m) PROVE IInv' /\ Follows(db, db')
  <2>1. losses' \in 0 .. MaxLosses
    BY <1>3, <1>22 DEF LoseMessage
  <2> QED BY <1>3, <1>4, <1>22, <2>1, EnvironmentStep DEF LoseMessage
<1>23. CASE UNCHANGED vars
  BY <1>3, <1>4, <1>23, EnvironmentStep DEF vars, envVars
<1>24. ASSUME NEW r \in Rids, ExpireRequest(r) PROVE IInv' /\ Follows(db, db')
  BY <1>12, <1>24 DEF ExpireRequest, Timers
<1>25. ASSUME NEW h \in Hosts, NEW i \in TimerIds, ExpireHeartbeat(h, i)
       PROVE  IInv' /\ Follows(db, db')
  BY <1>12, <1>25 DEF ExpireHeartbeat, Timers
<1> QED
  BY <1>5, <1>6, <1>7, <1>8, <1>9, <1>10, <1>11, <1>13, <1>14, <1>15, <1>16, <1>18, <1>19,
     <1>20, <1>21, <1>22, <1>23, <1>24, <1>25 DEF Next

-----------------------------------------------------------------------------
(* The theorems.                                                           *)

\* The inductive invariant holds always: the database is consistent, every search
\* and every node with tasks has its timer, and messages and processes are of
\* known nodes and tasks.
THEOREM InvAlways == Spec => []IInv
<1>1. IInv /\ [Next]_vars => IInv'
  BY InvStep
<1> QED BY <1>1, InvInit, PTL DEF Spec

\* The node, its database and what it is told keep their types, whatever is lost,
\* late or restarted; and the counters of unfinished tasks stay in the range of
\* their unsigned type.
THEOREM TypeCorrect == Spec => []TypeOK
<1>1. IInv => TypeOK
  <2> SUFFICES ASSUME IInv PROVE TypeOK
    OBVIOUS
  <2>1. /\ Current \in States
        /\ {inNetwork, inChange, alive} \subseteq BOOLEAN
        /\ heartbeats \in [Hosts -> TimerIds \cup {NoEntry}]
        /\ fired \subseteq Timers
    BY DEF IInv, NodeInv, StateOK
  <2>2. /\ running \subseteq [node : Hosts, key : Keys, exited : BOOLEAN]
        /\ up \subseteq Hosts /\ net \subseteq Messages
        /\ faults \in 0 .. MaxFaults /\ losses \in 0 .. MaxLosses /\ restarts \in 0 .. MaxRestarts
    BY DEF IInv, EnvInv
  <2>3. ASSUME NEW m \in net, m.type = "monitor"
        PROVE  Cardinality(m.finished \cup m.aborted) <= 1
    <3>1. PICK k \in Keys : m.finished \cup m.aborted \subseteq {k}
      BY <2>3 DEF IInv, EnvInv
    <3>2. m.finished \cup m.aborted \in SUBSET {k}
      BY <3>1
    <3>3. IsFiniteSet({k}) /\ Cardinality({k}) = 1
      BY FS_Singleton
    <3> HIDE DEF IInv
    <3> QED BY <3>2, <3>3, FS_Subset
  <2>4. delayed \in [AppIds -> Nat \cup {NoEntry}]
    BY <2>1, TypesOfCurrent DEF Calls
  <2> QED BY <2>1, <2>2, <2>3, <2>4, TypesOfCurrent DEF TypeOK
<1> QED BY <1>1, InvAlways, PTL

\* tb_task_request never mixes up two tasks or two requests, in any order of
\* acceptances, reports, timeouts, failures and restarts: what
\* TaskBagAppDatabase.cpp:68 says the schema cannot check.
THEOREM RequestsAlwaysConsistent == Spec => []RequestsConsistent
<1>1. IInv => RequestsConsistent
  BY CurrentIs DEF IInv, NodeInv, StateOK, DbOK, RequestsConsistent
<1> QED BY <1>1, InvAlways, PTL

\* A search always has its timeout to come, and a node with tasks its heartbeat
\* timer: sendRequest, the handlers of acceptances and reports and the timers
\* that they cancel never leave one without.
THEOREM NothingEverForgotten == Spec => []NothingIsForgotten
<1>1. IInv => NothingIsForgotten
  <2> SUFFICES ASSUME IInv PROVE NothingIsForgotten
    OBVIOUS
  <2>1. Timed(db, timers \cup (fired \cup Lost)) /\ HeartbeatsOK
    BY DEF IInv, NodeInv
  <2>2. SearchesAreTimed
    BY <2>1 DEF SearchesAreTimed, Timed, Lost
  <2> QED BY <2>1, <2>2 DEF NothingIsForgotten, HeartbeatsOK
<1> QED BY <1>1, InvAlways, PTL

\* Nothing brings a finished task back: no acceptance, timeout or report that
\* comes late, no dead node and no restart.
THEOREM FinishedAlways == Spec => FinishedForGood
<1>1. IInv /\ [Next]_vars =>
        [\A a \in AppIds :
           InState(db, a, {"FINISHED"}) \subseteq InState(db, a, {"FINISHED"})']_vars
  <2>1. ASSUME IInv, [Next]_vars
        PROVE  \A a \in AppIds :
                 InState(db, a, {"FINISHED"}) \subseteq InState(db, a, {"FINISHED"})'
    <3>1. Follows(db, db')
      BY <2>1, InvStep
    <3>2. \A a \in AppIds : InState(db, a, {"FINISHED"})' = InState(db', a, {"FINISHED"})
      BY DEF InState
    <3> QED BY <3>1, <3>2 DEF Follows
  <2> QED BY <2>1
<1> QED BY <1>1, InvAlways, PTL DEF Spec, FinishedForGood

-----------------------------------------------------------------------------
(* The counters.                                                           *)

\* The counters do not wrap around while they fit in their type.
LEMMA NoWrap ==
  ASSUME NEW n \in 0 .. UIntMax, NEW k \in Nat
  PROVE  /\ n + k <= UIntMax => Add(n, k) = n + k
         /\ k <= n => Sub(n, k) = n - k
<1>1. UIntMax \in Nat
  BY SubmissionConstants DEF SubmissionConstants
<1>2. ASSUME NEW m \in Nat \ {0}, NEW x \in 0 .. m - 1
      PROVE  x % m = x /\ (x + m) % m = x
  OBVIOUS
<1> DEFINE m == UIntMax + 1
<1>3. m \in Nat \ {0}
  BY <1>1
<1>4. ASSUME n + k <= UIntMax PROVE Add(n, k) = n + k
  <2>1. n + k \in 0 .. m - 1
    BY <1>1, <1>4
  <2> HIDE DEF m
  <2>2. (n + k) % m = n + k
    BY <1>2, <1>3, <2>1
  <2> QED BY <2>2 DEF Add, m
<1>5. ASSUME k <= n PROVE Sub(n, k) = n - k
  <2>1. n - k \in 0 .. m - 1 /\ n - k + UIntMax + 1 = (n - k) + m
    BY <1>1, <1>5
  <2> HIDE DEF m
  <2>2. ((n - k) + m) % m = n - k
    BY <1>2, <1>3, <2>1
  <2> QED BY <2>1, <2>2 DEF Sub, m
<1> QED BY <1>4, <1>5

\* What is taken out of a set of tasks, or added to it, is what its size changes by.
LEMMA SizeChanges ==
  ASSUME NEW S \in SUBSET TaskIds, NEW T \in SUBSET TaskIds
  PROVE  /\ Cardinality(S) \in Nat /\ Cardinality(S) <= NumTasks
         /\ Cardinality(S) = 0 <=> S = {}
         /\ T \subseteq S => /\ Cardinality(S \ T) = Cardinality(S) - Cardinality(T)
                             /\ Cardinality(T) <= Cardinality(S)
         /\ S \cap T = {} => Cardinality(S \cup T) = Cardinality(S) + Cardinality(T)
<1>1. /\ IsFiniteSet(S) /\ Cardinality(S) \in Nat /\ Cardinality(S) <= NumTasks
      /\ Cardinality(S) = 0 <=> S = {}
  BY Counts, Numbers DEF TaskIds
<1>2. IsFiniteSet(T) /\ Cardinality(T) \in Nat
  BY Counts, Numbers DEF TaskIds
<1>3. ASSUME T \subseteq S
      PROVE  /\ Cardinality(S \ T) = Cardinality(S) - Cardinality(T)
             /\ Cardinality(T) <= Cardinality(S)
  <2>1. S \cap T = T
    BY <1>3
  <2>2. Cardinality(S \ T) = Cardinality(S) - Cardinality(S \cap T)
    BY <1>1, FS_Difference
  <2> QED BY <1>1, <1>3, <2>1, <2>2, FS_Subset
<1>4. ASSUME S \cap T = {} PROVE Cardinality(S \cup T) = Cardinality(S) + Cardinality(T)
  <2>1. Cardinality(S \cup T) = Cardinality(S) + Cardinality(T) - Cardinality(S \cap T)
    BY <1>1, <1>2, FS_Union
  <2>2. Cardinality(S \cap T) = 0
    BY <1>4, FS_EmptySet
  <2> QED BY <1>1, <1>2, <2>1, <2>2
<1> QED BY <1>1, <1>3, <1>4

-----------------------------------------------------------------------------
(* The tasks in process, and what the keys of the messages lead to.        *)

\* The tasks that remainingTasks counts.
Busy(d, a) == InState(d, a, {"SEARCHING", "EXECUTING"})

\* The counters are those of the database.
Counted(d, rest, at) ==
  /\ \A h \in Hosts, a \in AppIds : at[h][a] = Cardinality(ExecutingAt(d, a, h))
  /\ \A a \in AppIds : Value(rest[a]) = Cardinality(Busy(d, a))

\* A task has one number in its request.
Numbered(d) ==
  \A x, y \in d.taskRequest : x[1] = y[1] /\ x[3] = y[3] => x[2] = y[2]

\* The task of a row of tb_task_request, and the key that names it.
TaskOf(d, x) == d.task[d.request[x[1]]][x[3]]
Names(k, x)  == x[1] = k[1] /\ x[2] = k[2]

\* The task of a key is still searched; it is the node's, or finished.
Sought(d, k)  == \E x \in d.taskRequest : Names(k, x) /\ TaskOf(d, x).state = "SEARCHING"
Kept(d, h, k) == \E x \in d.taskRequest :
                   /\ Names(k, x)
                   /\ \/ TaskOf(d, x).state = "FINISHED"
                      \/ TaskOf(d, x).state = "EXECUTING" /\ TaskOf(d, x).host = h

\* What was searched still is, and nodes keep their tasks.
KeepsKeys(d, e) ==
  \A k \in Keys : /\ Sought(d, k) => Sought(e, k)
                  /\ \A h \in Hosts : Kept(d, h, k) => Kept(e, h, k)

\* The numbers of a row.
LEMMA RowTypes ==
  ASSUME NEW d, DbOK(d), NEW x \in d.taskRequest
  PROVE  /\ x[1] \in Rids /\ x[2] \in TaskIds /\ x[3] \in TaskIds
         /\ d.request[x[1]] \in AppIds /\ x[1] <= d.lastRid
BY DEF DbOK, ConsistentRequests, RowsHaveRequest, Databases

\* A row is named by its key, and by its task.
LEMMA OneRow ==
  ASSUME NEW d, DbOK(d), Numbered(d), NEW x \in d.taskRequest, NEW y \in d.taskRequest
  PROVE  /\ x[1] = y[1] /\ x[2] = y[2] => x[3] = y[3]
         /\ d.request[x[1]] = d.request[y[1]] /\ x[3] = y[3] => x[1] = y[1] /\ x[2] = y[2]
BY DEF DbOK, ConsistentRequests, OneTaskPerNumber, OneRequestPerTask, Numbered

\* A task in process, and one that a node executes.
LEMMA BusyIs ==
  ASSUME NEW d, NEW a, NEW h
  PROVE  /\ Busy(d, a) \in SUBSET TaskIds /\ ExecutingAt(d, a, h) \in SUBSET TaskIds
         /\ \A t \in TaskIds : t \in Busy(d, a) <=> d.task[a][t].state \in {"SEARCHING", "EXECUTING"}
         /\ \A t \in TaskIds : t \in ExecutingAt(d, a, h) <=>
              d.task[a][t].state = "EXECUTING" /\ d.task[a][t].host = h
BY DEF Busy, ExecutingAt, InState

\* A new instance has no task in process.
LEMMA CreateCounts ==
  ASSUME NEW d, DbOK(d), Numbered(d), NEW a \in AppIds, ~Created(d, a), NEW at,
         NEW rest \in [AppIds -> Int], Counted(d, rest, at)
  PROVE  /\ Counted(CreateAppInstance(d, a), [rest EXCEPT ![a] = 0], at)
         /\ Numbered(CreateAppInstance(d, a))
         /\ KeepsKeys(d, CreateAppInstance(d, a))
<1> DEFINE e == CreateAppInstance(d, a)
<1>1. /\ e.request = d.request /\ e.taskRequest = d.taskRequest
      /\ \A t \in TaskIds : e.task[a][t].state = "READY"
      /\ \A b \in AppIds \ {a} : e.task[b] = d.task[b]
  BY DEF CreateAppInstance, SetTasks, Databases, TaskRow, TaskStates, DbOK
<1>2. \A t \in TaskIds : d.task[a][t].state = "NONE"
  BY RowsOf DEF Whole, DbOK
<1> HIDE DEF e
<1>3. \A x \in d.taskRequest : d.request[x[1]] \in AppIds \ {a}
  BY <1>2, RowTypes DEF DbOK, ConsistentRequests, ReadyTasksAreFree
<1>4. Numbered(e)
  BY <1>1 DEF Numbered
<1>5. KeepsKeys(d, e)
  <2>1. \A x \in d.taskRequest : TaskOf(e, x) = TaskOf(d, x)
    BY <1>1, <1>3 DEF TaskOf
  <2> QED BY <1>1, <2>1 DEF KeepsKeys, Sought, Kept
<1>6. \A h \in Hosts, b \in AppIds : ExecutingAt(e, b, h) = ExecutingAt(d, b, h)
  <2>1. \A h \in Hosts : ExecutingAt(e, a, h) = {} /\ ExecutingAt(d, a, h) = {}
    BY <1>1, <1>2 DEF ExecutingAt, InState
  <2> QED BY <1>1, <2>1 DEF ExecutingAt, InState
<1>7. \A b \in AppIds : Busy(e, b) = Busy(d, b)
  <2>1. Busy(e, a) = {} /\ Busy(d, a) = {}
    BY <1>1, <1>2 DEF Busy, InState
  <2> QED BY <1>1, <2>1 DEF Busy, InState
<1>8. Cardinality(Busy(e, a)) = 0 /\ Value(0) = 0
  <2>1. Busy(e, a) = {}
    BY <1>1 DEF Busy, InState
  <2> QED BY <2>1, FS_EmptySet DEF Value, NoEntry
<1>9. Counted(e, [rest EXCEPT ![a] = 0], at)
  BY <1>6, <1>7, <1>8 DEF Counted
<1> QED BY <1>4, <1>5, <1>9 DEF e

\* cancelSearch takes the cancelled tasks, and no others, out of process.
LEMMA CancelCounts ==
  ASSUME NEW d, DbOK(d), Numbered(d), NEW r \in Rids, Named(d, r)
  PROVE  /\ Numbered(CancelSearch(d, r))
         /\ \A h \in Hosts, a \in AppIds :
              ExecutingAt(CancelSearch(d, r), a, h) = ExecutingAt(d, a, h)
         /\ \A a \in AppIds : Busy(CancelSearch(d, r), a) =
              IF a = GetInstanceId(d, r) THEN Busy(d, a) \ Cancelled(d, r) ELSE Busy(d, a)
         /\ Cancelled(d, r) \in SUBSET Busy(d, GetInstanceId(d, r))
         /\ \A k \in Keys : /\ Sought(d, k) /\ k[1] # r => Sought(CancelSearch(d, r), k)
                            /\ \A h \in Hosts : Kept(d, h, k) => Kept(CancelSearch(d, r), h, k)
<1> DEFINE e == CancelSearch(d, r)
           a == GetInstanceId(d, r)
           C == Cancelled(d, r)
<1>1. d \in Databases /\ a \in AppIds
  BY DEF DbOK, Named, GetInstanceId
<1>2. /\ e.request = d.request
      /\ e.taskRequest = {x \in d.taskRequest : ~(x[1] = r /\ e.task[a][x[3]].state = "READY")}
      /\ \A b \in AppIds : \A t \in TaskIds :
           /\ e.task[b][t].state = IF b = a /\ t \in C THEN "READY" ELSE d.task[b][t].state
           /\ e.task[b][t].host = d.task[b][t].host
      /\ \A t \in TaskIds : t \in C <=> /\ t \in TidsOfRequest(d, r)
                                        /\ d.task[a][t].state = "SEARCHING"
      /\ C \in SUBSET TaskIds
  BY CancelSearchRows DEF Cancelled, InState
<1>3. a = d.request[r]
  BY DEF GetInstanceId
<1> HIDE DEF e, a, C
<1>4. Numbered(e)
  BY <1>2 DEF Numbered
<1>5. \A h \in Hosts, b \in AppIds : ExecutingAt(e, b, h) = ExecutingAt(d, b, h)
  BY <1>1, <1>2 DEF ExecutingAt, InState
<1>6. \A b \in AppIds : Busy(e, b) = IF b = a THEN Busy(d, b) \ C ELSE Busy(d, b)
  BY <1>1, <1>2 DEF Busy, InState
<1>7. C \in SUBSET Busy(d, a)
  BY <1>2 DEF Busy, InState
<1>8. ASSUME NEW x \in d.taskRequest, \/ TaskOf(d, x).state = "SEARCHING" /\ x[1] # r
                                      \/ TaskOf(d, x).state \in {"EXECUTING", "FINISHED"}
      PROVE  /\ x \in e.taskRequest /\ TaskOf(e, x).state = TaskOf(d, x).state
             /\ TaskOf(e, x).host = TaskOf(d, x).host
  <2>1. x[1] \in Rids /\ x[3] \in TaskIds /\ d.request[x[1]] \in AppIds
    BY RowTypes
  <2>2. ~ (d.request[x[1]] = a /\ x[3] \in C)
    <3>1. ASSUME d.request[x[1]] = a, x[3] \in C PROVE FALSE
      <4>1. TaskOf(d, x).state = "SEARCHING" /\ x[3] \in TidsOfRequest(d, r)
        BY <1>2, <2>1, <3>1 DEF TaskOf
      <4>2. PICK y \in d.taskRequest : y[1] = r /\ y[3] = x[3]
        BY <4>1 DEF TidsOfRequest
      <4>3. x[1] = y[1]
        BY <1>3, <3>1, <4>2, OneRow
      <4> QED BY <1>8, <4>1, <4>2, <4>3
    <3> QED BY <3>1
  <2>3. TaskOf(e, x).state = TaskOf(d, x).state /\ TaskOf(e, x).host = TaskOf(d, x).host
    <3> DEFINE c == d.request[x[1]]
               t == x[3]
    <3>1. TaskOf(e, x) = e.task[c][t] /\ TaskOf(d, x) = d.task[c][t]
      BY <1>2 DEF TaskOf
    <3>2. c \in AppIds /\ t \in TaskIds /\ ~ (c = a /\ t \in C)
      BY <2>1, <2>2
    <3> HIDE DEF c, t
    <3>3. e.task[c][t].state = d.task[c][t].state /\ e.task[c][t].host = d.task[c][t].host
      BY ONLY <1>2, <3>2
    <3> QED BY ONLY <3>1, <3>3
  <2>4. ~ (x[1] = r /\ e.task[a][x[3]].state = "READY")
    <3>1. TaskOf(d, x).state # "READY"
      BY <1>8
    <3>2. x[1] = r => TaskOf(e, x) = e.task[a][x[3]]
      BY <1>2, <1>3 DEF TaskOf
    <3> QED BY ONLY <2>3, <3>1, <3>2
  <2> QED BY <1>2, <2>3, <2>4
<1>9. ASSUME NEW k \in Keys
      PROVE  /\ Sought(d, k) /\ k[1] # r => Sought(e, k)
             /\ \A h \in Hosts : Kept(d, h, k) => Kept(e, h, k)
  BY <1>8 DEF Sought, Kept, Names
<1> QED BY <1>4, <1>5, <1>6, <1>7, <1>9 DEF e, a, C

\* acceptedTasks moves the searched tasks of the keys to the node, and no others.
LEMMA AcceptedCounts ==
  ASSUME NEW d, DbOK(d), Numbered(d), NEW g \in Hosts, NEW K \in SUBSET Keys
  PROVE  /\ Numbered(AcceptedTasks(d, g, K))
         /\ \A a \in AppIds : Busy(AcceptedTasks(d, g, K), a) = Busy(d, a)
         /\ \A h \in Hosts, a \in AppIds : ExecutingAt(AcceptedTasks(d, g, K), a, h) =
              IF h = g THEN ExecutingAt(d, a, h) \cup Accepted(d, a, K) ELSE ExecutingAt(d, a, h)
         /\ \A h \in Hosts, a \in AppIds : /\ Accepted(d, a, K) \in SUBSET TaskIds
                                           /\ ExecutingAt(d, a, h) \cap Accepted(d, a, K) = {}
         /\ \A a \in AppIds : \A t \in Accepted(d, a, K) :
              \E x \in d.taskRequest : /\ <<x[1], x[2]>> \in K /\ x[3] = t
                                       /\ d.request[x[1]] = a /\ TaskOf(d, x).state = "SEARCHING"
         /\ \A k \in Keys :
              /\ Sought(d, k) => \/ Sought(AcceptedTasks(d, g, K), k)
                                 \/ k \in K /\ Kept(AcceptedTasks(d, g, K), g, k)
              /\ \A h \in Hosts : Kept(d, h, k) => Kept(AcceptedTasks(d, g, K), h, k)
         /\ \A k \in K : Sought(d, k) => Kept(AcceptedTasks(d, g, K), g, k)
<1> DEFINE e    == AcceptedTasks(d, g, K)
           G(a) == Accepted(d, a, K)
<1>1. d \in Databases
  BY DEF DbOK
<1>2. /\ e.request = d.request /\ e.taskRequest = d.taskRequest
      /\ \A a \in AppIds : \A t \in TaskIds :
           e.task[a][t] = IF t \in G(a) THEN [state |-> "EXECUTING", host |-> g] ELSE d.task[a][t]
  BY <1>1, AcceptedTasksRows
<1>3. \A a \in AppIds : /\ G(a) \in SUBSET TaskIds
                        /\ \A t \in G(a) : d.task[a][t].state = "SEARCHING"
  BY DEF Accepted, InState
<1>4. ASSUME NEW a \in AppIds, NEW t \in G(a)
      PROVE  \E x \in d.taskRequest : /\ <<x[1], x[2]>> \in K /\ x[3] = t
                                      /\ d.request[x[1]] = a /\ TaskOf(d, x).state = "SEARCHING"
  <2>1. t \in TidsOf(d, {k \in K : GetInstanceId(d, k[1]) = a}) /\ d.task[a][t].state = "SEARCHING"
    BY <1>3 DEF Accepted
  <2>2. PICK x \in d.taskRequest :
               <<x[1], x[2]>> \in {k \in K : GetInstanceId(d, k[1]) = a} /\ x[3] = t
    BY <2>1 DEF TidsOf
  <2>3. <<x[1], x[2]>> \in K /\ d.request[x[1]] = a
    BY <2>2 DEF GetInstanceId
  <2> QED BY <2>1, <2>2, <2>3 DEF TaskOf
<1>5. ASSUME NEW x \in d.taskRequest, <<x[1], x[2]>> \in K, TaskOf(d, x).state = "SEARCHING"
      PROVE  x[3] \in G(d.request[x[1]])
  <2>1. x[3] \in TaskIds /\ d.request[x[1]] \in AppIds
    BY RowTypes
  <2>2. x[3] \in TidsOf(d, {k \in K : GetInstanceId(d, k[1]) = d.request[x[1]]})
    <3>1. <<x[1], x[2]>> \in {k \in K : GetInstanceId(d, k[1]) = d.request[x[1]]}
      BY <1>5 DEF GetInstanceId
    <3> QED BY <3>1 DEF TidsOf
  <2> QED BY <1>5, <2>1, <2>2 DEF Accepted, InState, TaskOf
<1> HIDE DEF e, G
<1>6. Numbered(e)
  BY <1>2 DEF Numbered
<1>7. \A a \in AppIds : Busy(e, a) = Busy(d, a)
  BY <1>2, <1>3 DEF Busy, InState
<1>8. \A h \in Hosts, a \in AppIds :
        /\ ExecutingAt(e, a, h) = IF h = g THEN ExecutingAt(d, a, h) \cup G(a) ELSE ExecutingAt(d, a, h)
        /\ ExecutingAt(d, a, h) \cap G(a) = {}
  BY <1>2, <1>3 DEF ExecutingAt, InState
<1>9. \A x \in d.taskRequest : /\ x \in e.taskRequest
                               /\ TaskOf(e, x) = IF x[3] \in G(d.request[x[1]])
                                                 THEN [state |-> "EXECUTING", host |-> g]
                                                 ELSE TaskOf(d, x)
  BY <1>2, RowTypes DEF TaskOf
<1>10. ASSUME NEW k \in Keys, NEW x \in d.taskRequest, Names(k, x), TaskOf(d, x).state = "SEARCHING"
       PROVE  /\ k \in K => Kept(e, g, k)
              /\ k \notin K => Sought(e, k)
  <2>1. k = <<x[1], x[2]>>
    BY <1>10 DEF Names, Keys
  <2>2. ASSUME k \in K PROVE Kept(e, g, k)
    BY <1>5, <1>9, <1>10, <2>1, <2>2 DEF Kept
  <2>3. ASSUME k \notin K PROVE Sought(e, k)
    <3>1. x[3] \notin G(d.request[x[1]])
      <4>1. ASSUME x[3] \in G(d.request[x[1]]) PROVE FALSE
        <5>1. PICK y \in d.taskRequest : /\ <<y[1], y[2]>> \in K /\ y[3] = x[3]
                                         /\ d.request[y[1]] = d.request[x[1]]
          BY <1>4, <4>1, RowTypes
        <5>2. y[1] = x[1] /\ y[2] = x[2]
          BY <5>1, OneRow
        <5> QED BY <2>1, <2>3, <5>1, <5>2
      <4> QED BY <4>1
    <3> QED BY <1>9, <1>10, <3>1 DEF Sought
  <2> QED BY <2>2, <2>3
<1>11. ASSUME NEW k \in Keys
       PROVE  /\ Sought(d, k) => Sought(e, k) \/ (k \in K /\ Kept(e, g, k))
              /\ k \in K /\ Sought(d, k) => Kept(e, g, k)
  BY <1>10 DEF Sought
<1>12. ASSUME NEW k \in Keys, NEW h \in Hosts, Kept(d, h, k) PROVE Kept(e, h, k)
  <2>1. PICK x \in d.taskRequest :
          /\ Names(k, x)
          /\ \/ TaskOf(d, x).state = "FINISHED"
             \/ TaskOf(d, x).state = "EXECUTING" /\ TaskOf(d, x).host = h
    BY <1>12 DEF Kept
  <2>2. x[3] \notin G(d.request[x[1]])
    BY <1>3, <2>1, RowTypes DEF TaskOf
  <2> QED BY <1>9, <2>1, <2>2 DEF Kept
<1> QED BY <1>3, <1>4, <1>6, <1>7, <1>8, <1>11, <1>12 DEF e, G

\* deadNode takes the tasks of the node, and no others, out of process.
LEMMA DeadNodeCounts ==
  ASSUME NEW d, DbOK(d), Numbered(d), NEW g \in Hosts
  PROVE  /\ Numbered(DeadNode(d, g))
         /\ \A a \in AppIds : Busy(DeadNode(d, g), a) = Busy(d, a) \ ExecutingAt(d, a, g)
         /\ \A h \in Hosts, a \in AppIds : ExecutingAt(DeadNode(d, g), a, h) =
              IF h = g THEN {} ELSE ExecutingAt(d, a, h)
         /\ \A k \in Keys : /\ Sought(d, k) => Sought(DeadNode(d, g), k)
                            /\ \A h \in Hosts \ {g} : Kept(d, h, k) => Kept(DeadNode(d, g), h, k)
<1> DEFINE e == DeadNode(d, g)
<1>1. /\ e.request = d.request
      /\ e.taskRequest = {x \in d.taskRequest :
           ~\E a \in AppIds : a = d.request[x[1]] /\ x[3] \in ExecutingAt(d, a, g)}
      /\ \A a \in AppIds : \A t \in TaskIds :
           e.task[a][t] = IF t \in ExecutingAt(d, a, g) THEN [state |-> "READY", host |-> NoHost]
                          ELSE d.task[a][t]
  BY DeadNodeRows DEF DbOK
<1> HIDE DEF e
<1>2. \A a \in AppIds : \A t \in TaskIds : t \in ExecutingAt(d, a, g) <=>
        d.task[a][t].state = "EXECUTING" /\ d.task[a][t].host = g
  BY BusyIs
<1>3. Numbered(e)
  BY <1>1 DEF Numbered
<1>4. \A a \in AppIds : Busy(e, a) = Busy(d, a) \ ExecutingAt(d, a, g)
  <2>1. ASSUME NEW a \in AppIds, NEW t \in TaskIds
        PROVE  t \in Busy(e, a) <=> t \in Busy(d, a) /\ t \notin ExecutingAt(d, a, g)
    <3>1. /\ t \in Busy(e, a) <=> e.task[a][t].state \in {"SEARCHING", "EXECUTING"}
          /\ t \in Busy(d, a) <=> d.task[a][t].state \in {"SEARCHING", "EXECUTING"}
      BY ONLY a \in AppIds, t \in TaskIds, BusyIs
    <3>2. /\ t \in ExecutingAt(d, a, g) => e.task[a][t].state = "READY"
          /\ t \notin ExecutingAt(d, a, g) => e.task[a][t] = d.task[a][t]
      BY <1>1
    <3> QED BY ONLY <3>1, <3>2
  <2> QED BY <2>1, BusyIs
<1>5. \A h \in Hosts, a \in AppIds : ExecutingAt(e, a, h) = IF h = g THEN {} ELSE ExecutingAt(d, a, h)
  <2>1. ASSUME NEW h \in Hosts, NEW a \in AppIds, NEW t \in TaskIds
        PROVE  t \in ExecutingAt(e, a, h) <=> h # g /\ t \in ExecutingAt(d, a, h)
    <3>1. t \in ExecutingAt(e, a, h) <=> e.task[a][t].state = "EXECUTING" /\ e.task[a][t].host = h
      BY BusyIs
    <3>2. t \in ExecutingAt(d, a, h) <=> d.task[a][t].state = "EXECUTING" /\ d.task[a][t].host = h
      BY BusyIs
    <3> QED BY <1>1, <1>2, <3>1, <3>2
  <2>2. \A h \in Hosts, a \in AppIds : /\ ExecutingAt(e, a, h) \in SUBSET TaskIds
                                       /\ ExecutingAt(d, a, h) \in SUBSET TaskIds
    BY BusyIs
  <2> QED BY <2>1, <2>2
<1>6. ASSUME NEW x \in d.taskRequest,
             ~ (TaskOf(d, x).state = "EXECUTING" /\ TaskOf(d, x).host = g)
      PROVE  x \in e.taskRequest /\ TaskOf(e, x) = TaskOf(d, x)
  <2>1. x[3] \in TaskIds /\ d.request[x[1]] \in AppIds
    BY RowTypes
  <2>2. x[3] \notin ExecutingAt(d, d.request[x[1]], g)
    BY <1>2, <1>6, <2>1 DEF TaskOf
  <2> QED BY <1>1, <2>1, <2>2 DEF TaskOf
<1>7. ASSUME NEW k \in Keys, Sought(d, k) PROVE Sought(e, k)
  BY <1>6, <1>7 DEF Sought
<1>8. ASSUME NEW k \in Keys, NEW h \in Hosts \ {g}, Kept(d, h, k) PROVE Kept(e, h, k)
  BY <1>6, <1>8 DEF Kept
<1> QED BY <1>3, <1>4, <1>5, <1>7, <1>8 DEF e

\* finishedTask takes a task of the node that reports it out of process, or changes
\* nothing when the task has finished before.
LEMMA FinishedCounts ==
  ASSUME NEW d, DbOK(d), Numbered(d), NEW g \in Hosts, NEW q \in Keys, Kept(d, g, q)
  PROVE  /\ Numbered(FinishedTask(d, g, q)) /\ KeepsKeys(d, FinishedTask(d, g, q))
         /\ ~ FinishedTaskReturns(d, q) => FinishedTask(d, g, q) = d
         /\ FinishedTaskReturns(d, q) => \E t \in ExecutingAt(d, GetInstanceId(d, q[1]), g) :
              /\ \A a \in AppIds : Busy(FinishedTask(d, g, q), a) =
                   IF a = GetInstanceId(d, q[1]) THEN Busy(d, a) \ {t} ELSE Busy(d, a)
              /\ \A h \in Hosts, a \in AppIds : ExecutingAt(FinishedTask(d, g, q), a, h) =
                   IF h = g /\ a = GetInstanceId(d, q[1]) THEN ExecutingAt(d, a, h) \ {t}
                   ELSE ExecutingAt(d, a, h)
<1> DEFINE e == FinishedTask(d, g, q)
           b == GetInstanceId(d, q[1])
           S == {t \in TidsOf(d, {q}) : d.task[b][t].host = g}
<1>1. PICK z \in d.taskRequest : /\ Names(q, z)
                                 /\ \/ TaskOf(d, z).state = "FINISHED"
                                    \/ TaskOf(d, z).state = "EXECUTING" /\ TaskOf(d, z).host = g
  BY DEF Kept
<1>2. /\ q = <<z[1], z[2]>> /\ b = d.request[z[1]] /\ b \in AppIds
      /\ z[3] \in TaskIds /\ d \in Databases
  BY <1>1, RowTypes DEF Names, Keys, GetInstanceId, DbOK
<1>3. TidsOf(d, {q}) = {z[3]}
  <2>1. ASSUME NEW y \in d.taskRequest, <<y[1], y[2]>> \in {q} PROVE y[3] = z[3]
    BY <1>2, <2>1, OneRow
  <2> QED BY <1>2, <2>1 DEF TidsOf
<1>4. FinishedTaskReturns(d, q) <=> TaskOf(d, z).state # "FINISHED"
  BY <1>2, <1>3 DEF FinishedTaskReturns, InState, TaskOf
<1>5. CASE TaskOf(d, z).state = "FINISHED"
  <2>1. e = d
    BY <1>4, <1>5 DEF FinishedTask
  <2> QED BY <1>4, <1>5, <2>1 DEF KeepsKeys
<1>6. CASE TaskOf(d, z).state # "FINISHED"
  <2> DEFINE t == z[3]
  <2>1. S = {t} /\ d.task[b][t].state = "EXECUTING" /\ d.task[b][t].host = g
    BY <1>1, <1>2, <1>3, <1>6 DEF TaskOf
  <2>2. e = SetState(d, b, S, "FINISHED")
    BY <1>4, <1>6 DEF FinishedTask
  <2> HIDE DEF e, b, S, t
  <2>3. /\ e.request = d.request /\ e.taskRequest = d.taskRequest
        /\ \A a \in AppIds : \A u \in TaskIds :
             /\ e.task[a][u].state = IF a = b /\ u = t THEN "FINISHED" ELSE d.task[a][u].state
             /\ e.task[a][u].host = d.task[a][u].host
    <3>1. "FINISHED" \in TaskStates
      BY DEF TaskStates
    <3> QED BY <1>2, <2>1, <2>2, <3>1, SetStateRows
  <2>4. t \in ExecutingAt(d, b, g)
    BY <1>2, <2>1, BusyIs DEF t
  <2>5. \A a \in AppIds : Busy(e, a) = IF a = b THEN Busy(d, a) \ {t} ELSE Busy(d, a)
    <3>1. ASSUME NEW a \in AppIds, NEW u \in TaskIds
          PROVE  u \in Busy(e, a) <=> u \in Busy(d, a) /\ ~(a = b /\ u = t)
      BY <2>1, <2>3 DEF Busy, InState
    <3>2. \A a \in AppIds : Busy(e, a) \in SUBSET TaskIds /\ Busy(d, a) \in SUBSET TaskIds
      BY DEF Busy, InState
    <3> QED BY <3>1, <3>2
  <2>6. \A h \in Hosts, a \in AppIds : ExecutingAt(e, a, h) =
          IF h = g /\ a = b THEN ExecutingAt(d, a, h) \ {t} ELSE ExecutingAt(d, a, h)
    <3>1. ASSUME NEW h \in Hosts, NEW a \in AppIds, NEW u \in TaskIds
          PROVE  u \in ExecutingAt(e, a, h) <=>
                   u \in ExecutingAt(d, a, h) /\ ~(h = g /\ a = b /\ u = t)
      <4>1. u \in ExecutingAt(e, a, h) <=> e.task[a][u].state = "EXECUTING" /\ e.task[a][u].host = h
        BY BusyIs
      <4>2. u \in ExecutingAt(d, a, h) <=> d.task[a][u].state = "EXECUTING" /\ d.task[a][u].host = h
        BY BusyIs
      <4> QED BY <2>1, <2>3, <4>1, <4>2
    <3>2. \A h \in Hosts, a \in AppIds : /\ ExecutingAt(e, a, h) \in SUBSET TaskIds
                                         /\ ExecutingAt(d, a, h) \in SUBSET TaskIds
      BY BusyIs
    <3> QED BY <3>1, <3>2
  <2>7. Numbered(e)
    BY <2>3 DEF Numbered
  <2>8. ASSUME NEW x \in d.taskRequest
        PROVE  /\ x \in e.taskRequest /\ TaskOf(e, x).host = TaskOf(d, x).host
               /\ \/ TaskOf(e, x).state = TaskOf(d, x).state
                  \/ TaskOf(e, x).state = "FINISHED" /\ TaskOf(d, x).state = "EXECUTING"
    <3> DEFINE c == d.request[x[1]]
               u == x[3]
    <3>1. u \in TaskIds /\ c \in AppIds
      BY RowTypes
    <3>2. x \in e.taskRequest /\ TaskOf(e, x) = e.task[c][u] /\ TaskOf(d, x) = d.task[c][u]
      BY <2>3 DEF TaskOf
    <3> HIDE DEF c, u
    <3>3. /\ e.task[c][u].host = d.task[c][u].host
          /\ \/ e.task[c][u].state = d.task[c][u].state
             \/ e.task[c][u].state = "FINISHED" /\ d.task[c][u].state = "EXECUTING"
      BY ONLY <2>1, <2>3, <3>1
    <3> QED BY ONLY <3>2, <3>3
  <2>9. KeepsKeys(d, e)
    <3>1. ASSUME NEW k \in Keys, Sought(d, k) PROVE Sought(e, k)
      BY <2>8, <3>1 DEF Sought
    <3>2. ASSUME NEW k \in Keys, NEW h \in Hosts, Kept(d, h, k) PROVE Kept(e, h, k)
      BY <2>8, <3>2 DEF Kept
    <3> QED BY <3>1, <3>2 DEF KeepsKeys
  <2> QED BY <1>4, <1>6, <2>4, <2>5, <2>6, <2>7, <2>9 DEF e, b
<1> QED BY <1>5, <1>6

\* A request takes the ready tasks of its instance into process, and offers keys
\* that no message has named.
LEMMA SearchingCounts ==
  ASSUME NEW d, DbOK(d), Numbered(d), NEW A \in SUBSET AppIds, d.lastRid + MaxApps <= MaxRequests
  PROVE  /\ Numbered(Searching(d, A)) /\ KeepsKeys(d, Searching(d, A))
         /\ \A h \in Hosts, a \in AppIds : ExecutingAt(Searching(d, A), a, h) = ExecutingAt(d, a, h)
         /\ \A a \in AppIds : /\ Ready(d, a) \in SUBSET TaskIds /\ Busy(d, a) \cap Ready(d, a) = {}
                              /\ Busy(Searching(d, A), a) =
                                   IF a \in A THEN Busy(d, a) \cup Ready(d, a) ELSE Busy(d, a)
         /\ \A k \in Keys : \A a \in A :
              k[1] = RidsOf(d, A)[a] /\ TidsOf(Asked(d, A), {k}) # {} =>
                Sought(Searching(d, A), k) /\ ~ Named(d, k[1])
<1> DEFINE b       == Asked(d, A)
           e       == Searching(d, A)
           rid     == RidsOf(d, A)
           N(a, t) == Cardinality({u \in Ready(d, a) : u <= t})
<1>1. d \in Databases
  BY DEF DbOK
<1>2. /\ \A a \in A : rid[a] \in Rids /\ d.lastRid < rid[a]
      /\ \A a, c \in A : rid[a] = rid[c] => a = c
      /\ d.lastRid \in Nat
  BY <1>1, RidsAreNew
<1>3. /\ \A a \in A : b.request[rid[a]] = a
      /\ \A r \in Rids : r <= d.lastRid => b.request[r] = d.request[r]
      /\ d.taskRequest \subseteq b.taskRequest
      /\ \A x \in b.taskRequest \ d.taskRequest :
           \E a \in A : x[1] = rid[a] /\ x[3] \in Ready(d, a) /\ x[2] = N(a, x[3])
  BY AskedRows
<1>4. /\ e.request = b.request /\ e.taskRequest = b.taskRequest
      /\ \A a \in AppIds : \A t \in TaskIds :
           IF a \in A /\ t \in Ready(d, a)
           THEN e.task[a][t] = [d.task[a][t] EXCEPT !.state = "SEARCHING"]
           ELSE e.task[a][t] = d.task[a][t]
  BY SearchingRows
<1>5. \A a \in AppIds : /\ Ready(d, a) \in SUBSET TaskIds
                        /\ \A t \in TaskIds : t \in Ready(d, a) <=> d.task[a][t].state = "READY"
                        /\ \A t \in TaskIds : d.task[a][t] \in TaskRow
  BY <1>1 DEF Ready, InState, Databases
<1> HIDE DEF b, e, rid, N
<1>6. \A a \in AppIds : \A t \in TaskIds :
        /\ e.task[a][t].host = d.task[a][t].host
        /\ e.task[a][t].state = IF a \in A /\ t \in Ready(d, a) THEN "SEARCHING"
                                ELSE d.task[a][t].state
  <2>1. \A row \in TaskRow : /\ [row EXCEPT !.state = "SEARCHING"].state = "SEARCHING"
                             /\ [row EXCEPT !.state = "SEARCHING"].host = row.host
    BY DEF TaskRow
  <2>2. ASSUME NEW a \in AppIds, NEW t \in TaskIds, a \in A, t \in Ready(d, a)
        PROVE  e.task[a][t].host = d.task[a][t].host /\ e.task[a][t].state = "SEARCHING"
    <3>1. e.task[a][t] = [d.task[a][t] EXCEPT !.state = "SEARCHING"] /\ d.task[a][t] \in TaskRow
      BY <1>4, <1>5, <2>2
    <3> QED BY <2>1, <3>1
  <2>3. ASSUME NEW a \in AppIds, NEW t \in TaskIds, ~(a \in A /\ t \in Ready(d, a))
        PROVE  e.task[a][t] = d.task[a][t]
    BY <1>4, <2>3
  <2> QED BY <2>2, <2>3
<1>7. \A x \in d.taskRequest : /\ x[1] \in Rids /\ x[3] \in TaskIds /\ d.request[x[1]] \in AppIds
                               /\ x[1] <= d.lastRid /\ x[3] \notin Ready(d, d.request[x[1]])
  BY <1>5, RowTypes DEF DbOK, ConsistentRequests, ReadyTasksAreFree
<1>8. Rids \subseteq Nat
  BY Numbers
<1>9. Numbered(e)
  <2>1. ASSUME NEW x \in e.taskRequest, NEW y \in e.taskRequest, x[1] = y[1], x[3] = y[3]
        PROVE  x[2] = y[2]
    <3>1. CASE x \in d.taskRequest /\ y \in d.taskRequest
      BY <2>1, <3>1 DEF Numbered
    <3>2. CASE x \notin d.taskRequest /\ y \notin d.taskRequest
      BY <1>2, <1>3, <1>4, <2>1, <3>2
    <3>3. CASE ~ (x \in d.taskRequest <=> y \in d.taskRequest)
      BY <1>2, <1>3, <1>4, <1>7, <1>8, <2>1, <3>3
    <3> QED BY <3>1, <3>2, <3>3
  <2> QED BY <2>1 DEF Numbered
<1>10. KeepsKeys(d, e)
  <2>1. ASSUME NEW x \in d.taskRequest
        PROVE  /\ x \in e.taskRequest /\ TaskOf(e, x).state = TaskOf(d, x).state
               /\ TaskOf(e, x).host = TaskOf(d, x).host
    <3>1. e.request[x[1]] = d.request[x[1]] /\ x \in e.taskRequest
      BY <1>3, <1>4, <1>7
    <3> DEFINE c == d.request[x[1]]
    <3>2. c \in AppIds /\ x[3] \in TaskIds /\ x[3] \notin Ready(d, c)
      BY <1>7
    <3>3. TaskOf(e, x) = e.task[c][x[3]] /\ TaskOf(d, x) = d.task[c][x[3]]
      BY <3>1 DEF TaskOf
    <3> HIDE DEF c
    <3>4. /\ e.task[c][x[3]].host = d.task[c][x[3]].host
          /\ e.task[c][x[3]].state = d.task[c][x[3]].state
      BY ONLY <1>6, <3>2
    <3> QED BY ONLY <3>1, <3>3, <3>4
  <2>2. ASSUME NEW k \in Keys, Sought(d, k) PROVE Sought(e, k)
    BY <2>1, <2>2 DEF Sought
  <2>3. ASSUME NEW k \in Keys, NEW h \in Hosts, Kept(d, h, k) PROVE Kept(e, h, k)
    BY <2>1, <2>3 DEF Kept
  <2> QED BY <2>2, <2>3 DEF KeepsKeys
<1>11. \A h \in Hosts, a \in AppIds : ExecutingAt(e, a, h) = ExecutingAt(d, a, h)
  <2>1. ASSUME NEW h \in Hosts, NEW a \in AppIds, NEW t \in TaskIds
        PROVE  t \in ExecutingAt(e, a, h) <=> t \in ExecutingAt(d, a, h)
    <3>1. t \in ExecutingAt(e, a, h) <=> e.task[a][t].state = "EXECUTING" /\ e.task[a][t].host = h
      BY BusyIs
    <3>2. t \in ExecutingAt(d, a, h) <=> d.task[a][t].state = "EXECUTING" /\ d.task[a][t].host = h
      BY BusyIs
    <3> QED BY <1>5, <1>6, <3>1, <3>2
  <2>2. \A h \in Hosts, a \in AppIds : /\ ExecutingAt(e, a, h) \in SUBSET TaskIds
                                       /\ ExecutingAt(d, a, h) \in SUBSET TaskIds
    BY BusyIs
  <2> QED BY <2>1, <2>2
<1>12. ASSUME NEW a \in AppIds
       PROVE  /\ Busy(d, a) \cap Ready(d, a) = {}
              /\ Busy(e, a) = IF a \in A THEN Busy(d, a) \cup Ready(d, a) ELSE Busy(d, a)
  <2>1. \A t \in TaskIds : t \in Busy(d, a) <=> d.task[a][t].state \in {"SEARCHING", "EXECUTING"}
    BY DEF Busy, InState
  <2>2. \A t \in TaskIds : t \in Busy(e, a) <=> e.task[a][t].state \in {"SEARCHING", "EXECUTING"}
    BY DEF Busy, InState
  <2>3. Busy(e, a) \in SUBSET TaskIds /\ Busy(d, a) \in SUBSET TaskIds
    BY DEF Busy, InState
  <2>4. \A t \in TaskIds : t \in Busy(e, a) <=> t \in Busy(d, a) \/ (a \in A /\ t \in Ready(d, a))
    BY <1>6, <2>1, <2>2
  <2>5. Busy(d, a) \cap Ready(d, a) = {}
    BY <1>5, <2>1, <2>3
  <2> QED BY <1>5, <2>3, <2>4, <2>5
<1>13. ASSUME NEW k \in Keys, NEW a \in A, k[1] = rid[a], TidsOf(b, {k}) # {}
       PROVE  Sought(e, k) /\ ~ Named(d, k[1])
  <2>1. ~ (k[1] <= d.lastRid)
    <3>1. k[1] \in Nat /\ d.lastRid \in Nat /\ d.lastRid < k[1]
      BY <1>2, <1>8, <1>13
    <3> QED BY <3>1
  <2>2. PICK x \in b.taskRequest : <<x[1], x[2]>> \in {k}
    BY <1>13 DEF TidsOf
  <2>3. Names(k, x)
    BY <2>2 DEF Names
  <2>4. x \notin d.taskRequest
    BY <1>7, <2>1, <2>3 DEF Names
  <2>5. PICK c \in A : x[1] = rid[c] /\ x[3] \in Ready(d, c)
    BY <1>3, <2>4
  <2>6. c = a /\ e.request[x[1]] = a /\ x[3] \in TaskIds
    <3>1. rid[c] = rid[a]
      BY <1>13, <2>3, <2>5 DEF Names
    <3>2. c = a
      BY <1>2, <3>1
    <3> QED BY <1>3, <1>4, <1>5, <2>5, <3>2
  <2>7. TaskOf(e, x).state = "SEARCHING"
    BY <1>6, <2>5, <2>6 DEF TaskOf
  <2> QED BY <1>4, <2>1, <2>2, <2>3, <2>7 DEF Sought, Named
<1> QED BY <1>5, <1>9, <1>10, <1>11, <1>12, <1>13 DEF b, e, rid

-----------------------------------------------------------------------------
(* The node, and whose the tasks are.                                      *)

\* sendRequest keeps the counters right.
LEMMA SendRequestsCounts ==
  ASSUME NEW s \in States, DbOK(s.db), NEW calls \in Calls, NEW changing \in BOOLEAN,
         changing \/ s.db.lastRid + MaxApps <= MaxRequests,
         Numbered(s.db), Counted(s.db, s.remaining, s.remote)
  PROVE  LET n == SendRequests(s, calls, changing)
         IN  /\ Numbered(n.db) /\ Counted(n.db, n.remaining, n.remote)
             /\ KeepsKeys(s.db, n.db) /\ s.offered \subseteq n.offered
             /\ \A k \in n.offered \ s.offered :
                  k \in Keys /\ Sought(n.db, k) /\ ~ Named(s.db, k[1])
<1> DEFINE n == SendRequests(s, calls, changing)
<1>1. s \in States /\ DbOK(s.db) /\ s.db \in Databases
  BY DEF DbOK
<1>2. s = [db |-> s.db, remaining |-> s.remaining, retries |-> s.retries, timers |-> s.timers,
           offered |-> s.offered, delayed |-> s.delayed, remote |-> s.remote]
  BY <1>1 DEF States
<1>3. s.remaining \in [AppIds -> (0 .. UIntMax) \cup {NoEntry}]
  BY <1>1 DEF States
<1>4. CASE changing
  <2> DEFINE late == [a \in AppIds |-> IF s.delayed[a] = NoEntry THEN calls[a] ELSE s.delayed[a]]
  <2>1. n = [s EXCEPT !.delayed = late]
    BY <1>4, Zenon DEF SendRequests
  <2> HIDE DEF late, n
  <2>2. /\ n.db = s.db /\ n.remaining = s.remaining /\ n.remote = s.remote
        /\ n.offered = s.offered
    BY <1>2, <2>1
  <2> QED BY <2>2 DEF n, KeepsKeys
<1>5. CASE ~ changing
  <2> DEFINE A     == {a \in AppIds : calls[a] # NoEntry /\ Ready(s.db, a) # {}}
             asked == Asked(s.db, A)
             e     == Searching(s.db, A)
             rid   == RidsOf(s.db, A)
             new   == {rid[a] : a \in A}
             left  == [a \in AppIds |-> IF a \in A
                         THEN Add(Value(s.remaining[a]), Cardinality(Ready(s.db, a)))
                         ELSE s.remaining[a]]
             tried == [r \in Rids |-> IF r \in new
                         THEN calls[GetInstanceId(asked, r)] + 1 ELSE s.retries[r]]
             armed == s.timers \cup {RequestTimer(r) : r \in new}
             more  == {k \in Keys : k[1] \in new /\ TidsOf(asked, {k}) # {}}
             offer == s.offered \cup more
  <2>1. n = [s EXCEPT !.db = e, !.remaining = left, !.retries = tried, !.timers = armed,
                      !.offered = offer]
    BY <1>5, Zenon DEF SendRequests, Asked, Searching, RidsOf
  <2>2. A \in SUBSET AppIds /\ s.db.lastRid + MaxApps <= MaxRequests
    BY <1>5
  <2> HIDE DEF A
  <2>3. /\ Numbered(e) /\ KeepsKeys(s.db, e)
        /\ \A h \in Hosts, a \in AppIds : ExecutingAt(e, a, h) = ExecutingAt(s.db, a, h)
        /\ \A a \in AppIds : /\ Ready(s.db, a) \in SUBSET TaskIds
                             /\ Busy(s.db, a) \cap Ready(s.db, a) = {}
                             /\ Busy(e, a) = IF a \in A THEN Busy(s.db, a) \cup Ready(s.db, a)
                                             ELSE Busy(s.db, a)
        /\ \A k \in Keys : \A a \in A : k[1] = rid[a] /\ TidsOf(asked, {k}) # {} =>
                                          Sought(e, k) /\ ~ Named(s.db, k[1])
    <3> DEFINE d == s.db
    <3>1. DbOK(d) /\ Numbered(d) /\ A \in SUBSET AppIds /\ d.lastRid + MaxApps <= MaxRequests
      BY <1>1, <2>2
    <3> HIDE DEF d, e, rid, asked
    <3>2. /\ Numbered(Searching(d, A)) /\ KeepsKeys(d, Searching(d, A))
          /\ \A h \in Hosts, a \in AppIds :
               ExecutingAt(Searching(d, A), a, h) = ExecutingAt(d, a, h)
      BY ONLY <3>1, SearchingCounts
    <3>3. \A a \in AppIds : /\ Ready(d, a) \in SUBSET TaskIds
                            /\ Busy(d, a) \cap Ready(d, a) = {}
                            /\ Busy(Searching(d, A), a) =
                                 IF a \in A THEN Busy(d, a) \cup Ready(d, a) ELSE Busy(d, a)
      BY ONLY <3>1, SearchingCounts
    <3>4. \A k \in Keys : \A a \in A :
            k[1] = RidsOf(d, A)[a] /\ TidsOf(Asked(d, A), {k}) # {} =>
              Sought(Searching(d, A), k) /\ ~ Named(d, k[1])
      BY ONLY <3>1, SearchingCounts
    <3> QED BY ONLY <3>2, <3>3, <3>4 DEF d, e, rid, asked
  <2>4. \A k \in more : k \in Keys /\ Sought(e, k) /\ ~ Named(s.db, k[1])
    BY <2>3
  <2> HIDE DEF e, rid, asked, more
  <2>5. ASSUME NEW a \in AppIds PROVE Value(left[a]) = Cardinality(Busy(e, a))
    <3> DEFINE old == Busy(s.db, a)
               add == Ready(s.db, a)
               m   == Value(s.remaining[a])
    <3>1. /\ old \in SUBSET TaskIds /\ add \in SUBSET TaskIds /\ old \cap add = {}
          /\ old \cup add \in SUBSET TaskIds
      BY <2>3 DEF Busy, InState
    <3>2. m = Cardinality(old)
      BY DEF Counted
    <3> HIDE DEF old, add
    <3>3. /\ Cardinality(old) \in Nat /\ Cardinality(add) \in Nat
          /\ Cardinality(old \cup add) = Cardinality(old) + Cardinality(add)
          /\ Cardinality(old \cup add) <= NumTasks
      BY <3>1, SizeChanges
    <3>4. UIntMax \in Nat /\ NumTasks <= UIntMax /\ NumTasks \in Nat
      BY SubmissionConstants, Numbers DEF SubmissionConstants
    <3>5. m \in 0 .. UIntMax /\ m + Cardinality(add) <= UIntMax
      BY <3>2, <3>3, <3>4
    <3>6. Add(m, Cardinality(add)) = m + Cardinality(add)
      BY <3>3, <3>5, NoWrap
    <3>7. CASE a \in A
      <4>1. left[a] = m + Cardinality(add)
        BY <3>6, <3>7 DEF add
      <4>2. Value(left[a]) = left[a]
        <5> HIDE DEF left
        <5> QED BY <3>3, <3>5, <4>1 DEF Value, NoEntry
      <4>3. Busy(e, a) = old \cup add
        BY <2>3, <3>7 DEF old, add
      <4> HIDE DEF m, left
      <4> QED BY <3>2, <3>3, <4>1, <4>2, <4>3
    <3>8. CASE a \notin A
      <4>1. left[a] = s.remaining[a] /\ Busy(e, a) = old
        BY <2>3, <3>8 DEF old
      <4> QED BY <3>2, <4>1
    <3> QED BY <3>7, <3>8
  <2>6. s.offered \subseteq offer /\ \A k \in offer \ s.offered : k \in more
    OBVIOUS
  <2> HIDE DEF n, left, tried, armed, offer
  <2>7. /\ n.db = e /\ n.remaining = left /\ n.remote = s.remote /\ n.offered = offer
    BY <1>2, <2>1
  <2>8. Counted(e, left, s.remote)
    BY <2>3, <2>5 DEF Counted
  <2> QED BY <2>3, <2>4, <2>6, <2>7, <2>8 DEF n
<1> QED BY <1>4, <1>5

\* The report of a task that is the node's, or has finished, keeps the counters right.
LEMMA FinishOneCounts ==
  ASSUME NEW s \in States, DbOK(s.db), NEW h \in Hosts, NEW k \in Keys,
         Named(s.db, k[1]), Numbered(s.db), Counted(s.db, s.remaining, s.remote),
         Kept(s.db, h, k)
  PROVE  LET n == FinishOne(s, h, k)
         IN  /\ Numbered(n.db) /\ Counted(n.db, n.remaining, n.remote)
             /\ KeepsKeys(s.db, n.db) /\ n.offered = s.offered
<1> DEFINE n        == FinishOne(s, h, k)
           a        == GetInstanceId(s.db, k[1])
           d        == FinishedTask(s.db, h, k)
           first    == FinishedTaskReturns(s.db, k)
           credited == first /\ s.remote[h][a] > 0
           fewer    == [s.remote EXCEPT ![h] = [s.remote[h] EXCEPT ![a] =
                          IF credited THEN s.remote[h][a] - 1 ELSE s.remote[h][a]]]
           left     == [s.remaining EXCEPT ![a] =
                          IF ~ credited \/ s.remaining[a] = NoEntry THEN s.remaining[a]
                          ELSE IF Sub(s.remaining[a], 1) = 0 THEN NoEntry
                          ELSE Sub(s.remaining[a], 1)]
<1>1. s \in States /\ DbOK(s.db) /\ a \in AppIds
  BY DEF Named, GetInstanceId
<1>2. s = [db |-> s.db, remaining |-> s.remaining, retries |-> s.retries, timers |-> s.timers,
           offered |-> s.offered, delayed |-> s.delayed, remote |-> s.remote]
  BY <1>1 DEF States
<1>3. /\ s.remaining \in [AppIds -> (0 .. UIntMax) \cup {NoEntry}]
      /\ s.remote \in [Hosts -> [AppIds -> Nat]]
  BY <1>1 DEF States
<1>4. /\ Numbered(d) /\ KeepsKeys(s.db, d)
      /\ ~ first => d = s.db
      /\ first => \E t \in ExecutingAt(s.db, a, h) :
           /\ \A b \in AppIds : Busy(d, b) = IF b = a THEN Busy(s.db, b) \ {t} ELSE Busy(s.db, b)
           /\ \A g \in Hosts, b \in AppIds : ExecutingAt(d, b, g) =
                IF g = h /\ b = a THEN ExecutingAt(s.db, b, g) \ {t} ELSE ExecutingAt(s.db, b, g)
  BY <1>1, FinishedCounts
<1>5. n = [s EXCEPT !.db = d, !.remote = fewer, !.remaining = left]
  <2>1. n = [s EXCEPT !.db = d,
               !.remote[h][a] = IF credited THEN @ - 1 ELSE @,
               !.remaining[a] = IF ~ credited \/ @ = NoEntry THEN @
                                ELSE IF Sub(s.remaining[a], 1) = 0 THEN NoEntry
                                ELSE Sub(s.remaining[a], 1)]
    BY Zenon DEF FinishOne
  <2> HIDE DEF n, d, credited
  <2> QED BY <1>1, <1>2, <1>3, <2>1
<1>6. /\ fewer \in [Hosts -> [AppIds -> Int]]
      /\ \A g \in Hosts, b \in AppIds : fewer[g][b] =
           IF g = h /\ b = a /\ credited THEN s.remote[g][b] - 1 ELSE s.remote[g][b]
  BY <1>1, <1>3
<1>7. \A b \in AppIds : left[b] =
        IF b # a \/ ~ credited \/ s.remaining[a] = NoEntry THEN s.remaining[b]
        ELSE IF Sub(s.remaining[a], 1) = 0 THEN NoEntry
        ELSE Sub(s.remaining[a], 1)
  BY <1>1, <1>3
<1> HIDE DEF n, d, fewer, left
<1>8. n.db = d /\ n.remaining = left /\ n.remote = fewer /\ n.offered = s.offered
  BY <1>2, <1>5
<1>9. Counted(d, left, fewer)
  <2>1. CASE ~ first
    <3>1. d = s.db /\ ~ credited
      BY <1>4, <2>1
    <3> HIDE DEF first, credited
    <3>2. \A b \in AppIds : left[b] = s.remaining[b]
      BY <1>7, <3>1
    <3>3. \A g \in Hosts, b \in AppIds : fewer[g][b] = s.remote[g][b]
      BY <1>6, <3>1
    <3> QED BY <3>1, <3>2, <3>3 DEF Counted
  <2>2. CASE first
    <3>1. PICK t \in ExecutingAt(s.db, a, h) :
           /\ \A b \in AppIds : Busy(d, b) = IF b = a THEN Busy(s.db, b) \ {t} ELSE Busy(s.db, b)
           /\ \A g \in Hosts, b \in AppIds : ExecutingAt(d, b, g) =
                IF g = h /\ b = a THEN ExecutingAt(s.db, b, g) \ {t} ELSE ExecutingAt(s.db, b, g)
      BY <1>4, <2>2
    <3> DEFINE E == ExecutingAt(s.db, a, h)
               B == Busy(s.db, a)
    <3>2. E \in SUBSET TaskIds /\ B \in SUBSET TaskIds /\ t \in E /\ t \in B
      BY DEF Busy, ExecutingAt, InState
    <3>3. s.remote[h][a] = Cardinality(E) /\ Value(s.remaining[a]) = Cardinality(B)
      BY <1>1 DEF Counted
    <3>4. Busy(d, a) = B \ {t} /\ ExecutingAt(d, a, h) = E \ {t}
      BY <1>1, <3>1
    <3> HIDE DEF E, B
    <3>5. /\ Cardinality(E) \in Nat /\ Cardinality(E) # 0
          /\ Cardinality(B) \in Nat /\ Cardinality(B) # 0
          /\ Cardinality(E \ {t}) = Cardinality(E) - 1
          /\ Cardinality(B \ {t}) = Cardinality(B) - 1
      <4>1. IsFiniteSet(E) /\ IsFiniteSet(B)
        BY <3>2, Counts, Numbers DEF TaskIds
      <4>2. Cardinality(E) # 0 /\ Cardinality(B) # 0
        BY <3>2, SizeChanges
      <4> QED BY <3>2, <4>1, <4>2, FS_RemoveElement, FS_CardinalityType
    <3> DEFINE m == s.remaining[a]
               c == Cardinality(B)
    <3>6. credited
      BY <2>2, <3>3, <3>5
    <3>7. m = c /\ m \in 0 .. UIntMax /\ m # NoEntry
      BY <1>1, <1>3, <3>3, <3>5 DEF Value, NoEntry
    <3>8. Sub(m, 1) = c - 1
      <4>1. 1 \in Nat /\ 1 <= m
        BY <3>5, <3>7
      <4>2. Sub(m, 1) = m - 1
        BY <3>7, <4>1, NoWrap
      <4> QED BY <3>7, <4>2
    <3>9. Value(left[a]) = c - 1
      <4>1. left[a] = IF c - 1 = 0 THEN NoEntry ELSE c - 1
        BY <1>1, <1>7, <3>6, <3>7, <3>8
      <4> HIDE DEF c
      <4>2. c \in Nat /\ c # 0
        BY <3>5 DEF c
      <4> QED BY <4>1, <4>2 DEF Value, NoEntry
    <3> HIDE DEF first, credited, m, c
    <3>10. \A b \in AppIds : Value(left[b]) = Cardinality(Busy(d, b))
      <4>1. ASSUME NEW b \in AppIds, b # a PROVE Value(left[b]) = Cardinality(Busy(d, b))
        BY <1>7, <3>1, <4>1 DEF Counted
      <4>2. Value(left[a]) = Cardinality(Busy(d, a))
        BY <3>4, <3>5, <3>9 DEF c
      <4> QED BY <4>1, <4>2
    <3>11. \A g \in Hosts, b \in AppIds : fewer[g][b] = Cardinality(ExecutingAt(d, b, g))
      <4>1. ASSUME NEW g \in Hosts, NEW b \in AppIds, ~ (g = h /\ b = a)
            PROVE  fewer[g][b] = Cardinality(ExecutingAt(d, b, g))
        BY <1>6, <3>1, <4>1 DEF Counted
      <4>2. fewer[h][a] = Cardinality(ExecutingAt(d, a, h))
        BY <1>1, <1>6, <3>3, <3>4, <3>5, <3>6
      <4> QED BY <4>1, <4>2
    <3> QED BY <3>10, <3>11 DEF Counted
  <2> QED BY <2>1, <2>2
<1> QED BY <1>4, <1>8, <1>9 DEF n

-----------------------------------------------------------------------------
(* The invariant of the counters.                                          *)

\* Acceptances are handled first, timers expire in time, nothing is lost.
Punctual == AcceptFirst /\ PromptTimers /\ MaxLosses = 0 /\ MaxRestarts = 0

\* The tasks Q of the nodes or the messages N on their way name key k at node h.
Holds(Q, N, h, k) == \/ \E x \in Q : x.node = h /\ x.key = k
                     \/ \E m \in N : m.node = h /\ k \in KeysOf(m)

\* An acceptance of key k by node h is on its way.
Coming(N, h, k) == \E m \in N : m.type = "accept" /\ m.node = h /\ k \in KeysOf(m)

\* A key that the overlay is routing is searched, and no node has it.
OffersOK ==
  \A k \in offered : Sought(db, k) /\ \A h \in Hosts : ~ Holds(running, net, h, k)

\* A key that a node has leads to a task of the node or a finished one, or its
\* acceptance is still to come.
HoldsOK ==
  \A h \in Hosts : \A k \in Keys : Holds(running, net, h, k) =>
    Kept(db, h, k) \/ (Sought(db, k) /\ Coming(net, h, k))

\* No two nodes have the same key.
HoldersOK ==
  \A h, g \in Hosts : \A k \in Keys :
    Holds(running, net, h, k) /\ Holds(running, net, g, k) => h = g

\* A timer that has expired has nothing left that could stop it.
FiredOK ==
  /\ \A r \in Rids : RequestTimer(r) \in fired =>
       /\ \A k \in offered : k[1] # r
       /\ \A m \in net : ~(m.type = "accept" /\ m.rid = r)
  /\ \A h \in Hosts, i \in TimerIds : HeartbeatTimer(h, i) \in fired =>
       \A k \in Keys : ~ Holds(running, net, h, k)

KeysInv  == OffersOK /\ HoldsOK /\ HoldersOK /\ FiredOK
CountInv == Numbered(db) /\ Counted(db, remaining, remote)

\* It holds at the start.
LEMMA CountersInit == Init => CountInv /\ KeysInv
<1> SUFFICES ASSUME Init PROVE CountInv /\ KeysInv
  OBVIOUS
<1>1. /\ db = EmptyDatabase /\ offered = {} /\ running = {} /\ net = {} /\ fired = {}
      /\ remaining = [a \in AppIds |-> NoEntry]
      /\ remote = [h \in Hosts |-> [a \in AppIds |-> 0]]
  BY DEF Init
<1>2. Numbered(db)
  BY <1>1 DEF Numbered, EmptyDatabase
<1>3. \A a \in AppIds : Busy(db, a) = {} /\ \A h \in Hosts : ExecutingAt(db, a, h) = {}
  BY <1>1 DEF EmptyDatabase, NoRow, Busy, ExecutingAt, InState
<1>4. Cardinality({}) = 0 /\ Value(NoEntry) = 0
  BY FS_EmptySet DEF Value
<1>5. Counted(db, remaining, remote)
  BY <1>1, <1>3, <1>4 DEF Counted
<1>6. KeysInv
  BY <1>1 DEF KeysInv, OffersOK, HoldsOK, HoldersOK, FiredOK, Holds
<1> QED BY <1>2, <1>5, <1>6 DEF CountInv

\* Every key that a node has was created with a request.
LEMMA HeldAreNamed ==
  ASSUME IInv, NEW h, NEW k, Holds(running, net, h, k)
  PROVE  k \in Keys /\ Named(db, k[1])
<1>1. EnvInv
  BY DEF IInv
<1>2. CASE \E x \in running : x.node = h /\ x.key = k
  BY <1>1, <1>2 DEF EnvInv
<1>3. CASE \E m \in net : m.node = h /\ k \in KeysOf(m)
  <2>1. PICK m \in net : m.node = h /\ k \in KeysOf(m)
    BY <1>3
  <2>2. m \in Messages
    BY <1>1 DEF EnvInv
  <2>3. CASE m.type = "accept"
    <3>1. k \in {m.rid} \X m.rtids /\ m.rid \in Rids /\ m.rtids \in SUBSET TaskIds
      BY <2>1, <2>2, <2>3 DEF KeysOf, Messages
    <3>2. k \in Keys /\ k[1] = m.rid
      BY <3>1 DEF Keys
    <3> QED BY <1>1, <2>3, <3>2 DEF EnvInv
  <2>4. CASE m.type # "accept"
    <3>1. k \in Keys
      BY <2>1, <2>2, <2>4 DEF KeysOf, Messages
    <3> QED BY <1>1, <2>1, <2>4, <3>1 DEF EnvInv
  <2> QED BY <2>3, <2>4
<1> QED BY <1>2, <1>3 DEF Holds

\* A step of the submission node: it takes messages and timers, and asks for tasks
\* with new keys; what it does to the database spares the tasks of the nodes.
LEMMA ServedKeys ==
  ASSUME IInv, KeysInv, running' = running, net' \subseteq net, fired' \subseteq fired,
         \A k \in offered : k \in offered' => Sought(db', k),
         \A k \in offered' \ offered : k \in Keys /\ Sought(db', k) /\ ~ Named(db, k[1]),
         \A h \in Hosts : \A k \in Keys :
           Holds(running, net, h, k) /\ Kept(db, h, k) => Kept(db', h, k),
         \A h \in Hosts : \A k \in Keys :
           Holds(running, net', h, k) /\ Sought(db, k) /\ Coming(net, h, k) =>
             Kept(db', h, k) \/ (Sought(db', k) /\ Coming(net', h, k))
  PROVE  KeysInv'
<1>1. OffersOK /\ HoldsOK /\ HoldersOK /\ FiredOK
  BY DEF KeysInv
<1>2. \A h, k : Holds(running', net', h, k) => Holds(running, net, h, k)
  BY DEF Holds
<1>3. \A h, k : Holds(running, net, h, k) => Named(db, k[1])
  BY HeldAreNamed
<1>4. \A r \in Rids : RequestTimer(r) \in fired => Named(db, r)
  BY CurrentIs DEF IInv, NodeInv, StateOK
<1>5. OffersOK'
  BY <1>1, <1>2, <1>3 DEF OffersOK
<1>6. HoldsOK'
  <2>1. ASSUME NEW h \in Hosts, NEW k \in Keys, Holds(running', net', h, k)
        PROVE  Kept(db', h, k) \/ (Sought(db', k) /\ Coming(net', h, k))
    <3>1. Holds(running, net, h, k) /\ Holds(running, net', h, k)
      BY <1>2, <2>1
    <3>2. Kept(db, h, k) \/ (Sought(db, k) /\ Coming(net, h, k))
      BY <1>1, <3>1 DEF HoldsOK
    <3> QED BY <3>1, <3>2
  <2> QED BY <2>1 DEF HoldsOK
<1>7. HoldersOK'
  BY <1>1, <1>2 DEF HoldersOK
<1>8. FiredOK'
  <2>1. ASSUME NEW r \in Rids, RequestTimer(r) \in fired'
        PROVE  /\ \A k \in offered' : k[1] # r
               /\ \A m \in net' : ~(m.type = "accept" /\ m.rid = r)
    BY <1>1, <1>4, <2>1 DEF FiredOK
  <2>2. ASSUME NEW h \in Hosts, NEW i \in TimerIds, HeartbeatTimer(h, i) \in fired'
        PROVE  \A k \in Keys : ~ Holds(running', net', h, k)
    BY <1>1, <1>2, <2>2 DEF FiredOK
  <2> QED BY <2>1, <2>2 DEF FiredOK
<1> QED BY <1>5, <1>6, <1>7, <1>8 DEF KeysInv

\* A step of the overlay or of a node that gives no key to a node.
LEMMA OthersKeys ==
  ASSUME IInv, KeysInv, db' = db, offered' \subseteq offered, fired' = fired,
         \A h \in Hosts : \A k \in Keys :
           Holds(running', net', h, k) => Holds(running, net, h, k),
         \A m \in net : m.type = "accept" => m \in net',
         \A m \in net' : m.type = "accept" => m \in net
  PROVE  KeysInv'
<1>1. OffersOK /\ HoldsOK /\ HoldersOK /\ FiredOK
  BY DEF KeysInv
<1>2. \A h, k : Coming(net, h, k) => Coming(net', h, k)
  BY DEF Coming
<1>3. OffersOK'
  <2>1. offered \subseteq Keys
    BY TypesOfCurrent DEF IInv, NodeInv, StateOK
  <2>2. ASSUME NEW k \in offered', NEW h \in Hosts PROVE Sought(db', k) /\ ~ Holds(running', net', h, k)
    <3>1. Sought(db, k) /\ ~ Holds(running, net, h, k)
      BY <1>1 DEF OffersOK
    <3>2. k \in Keys
      BY <2>1
    <3> QED BY <3>1, <3>2
  <2> QED BY <1>1, <2>2 DEF OffersOK
<1>4. HoldsOK'
  BY <1>1, <1>2 DEF HoldsOK
<1>5. HoldersOK'
  BY <1>1 DEF HoldersOK
<1>6. FiredOK'
  BY <1>1 DEF FiredOK
<1> QED BY <1>3, <1>4, <1>5, <1>6 DEF KeysInv

\* A timer that expires in time.
LEMMA ExpireKeys ==
  ASSUME KeysInv, NEW t, Expire(t),
         \A r \in Rids : t = RequestTimer(r) =>
           /\ \A k \in offered : k[1] # r
           /\ \A m \in net : ~(m.type = "accept" /\ m.rid = r),
         \A h \in Hosts, i \in TimerIds : t = HeartbeatTimer(h, i) =>
           \A k \in Keys : ~ Holds(running, net, h, k)
  PROVE  KeysInv'
<1>1. OffersOK /\ HoldsOK /\ HoldersOK /\ FiredOK
  BY DEF KeysInv
<1>2. UNCHANGED <<db, offered, running, net>> /\ fired' = fired \cup {t}
  BY DEF Expire, envVars
<1>3. OffersOK' /\ HoldsOK' /\ HoldersOK'
  BY <1>1, <1>2 DEF OffersOK, HoldsOK, HoldersOK
<1>4. FiredOK'
  <2>1. ASSUME NEW r \in Rids, RequestTimer(r) \in fired'
        PROVE  /\ \A k \in offered' : k[1] # r
               /\ \A m \in net' : ~(m.type = "accept" /\ m.rid = r)
    BY <1>1, <1>2, <2>1 DEF FiredOK
  <2>2. ASSUME NEW h \in Hosts, NEW i \in TimerIds, HeartbeatTimer(h, i) \in fired'
        PROVE  \A k \in Keys : ~ Holds(running', net', h, k)
    BY <1>1, <1>2, <2>2 DEF FiredOK
  <2> QED BY <2>1, <2>2 DEF FiredOK
<1> QED BY <1>3, <1>4 DEF KeysInv

\* A node accepts keys that were on offer: nobody else has them.
LEMMA AcceptsKeys ==
  ASSUME Punctual, IInv, KeysInv, NEW h \in Hosts, NEW r \in Rids, NEW f \in TaskIds, NEW l \in TaskIds,
         NodeAccepts(h, r, f, l)
  PROVE  KeysInv'
<1> DEFINE K  == {r} \X (f .. l)
           m  == AcceptTaskMsg(h, r, f, l)
           ts == {[node |-> h, key |-> k, exited |-> FALSE] : k \in K}
<1>1. OffersOK /\ HoldsOK /\ HoldersOK /\ FiredOK
  BY DEF KeysInv
<1>2. /\ db' = db /\ fired' = fired /\ fired = {}
      /\ K \subseteq offered /\ offered' = offered \ K
      /\ running' = running \cup ts /\ net' = net \cup {m}
  BY DEF NodeAccepts, nodeVars, Punctual
<1>3. m.type = "accept" /\ m.node = h /\ KeysOf(m) = K
  BY DEF AcceptTaskMsg, KeysOf
<1>4. \A x \in ts : x.node = h /\ x.key \in K
  OBVIOUS
<1>5. K \subseteq Keys
  <2>1. offered \subseteq Keys
    BY TypesOfCurrent DEF IInv, NodeInv, StateOK
  <2> QED BY <1>2, <2>1
<1> HIDE DEF K, m, ts
<1>6. \A g, k : Holds(running', net', g, k) => Holds(running, net, g, k) \/ (g = h /\ k \in K)
  BY <1>2, <1>3, <1>4 DEF Holds
<1>7. \A g, k : Coming(net, g, k) => Coming(net', g, k)
  BY <1>2 DEF Coming
<1>8. \A k \in K : Coming(net', h, k)
  BY <1>2, <1>3 DEF Coming
<1>9. \A k \in K : Sought(db, k) /\ \A g \in Hosts : ~ Holds(running, net, g, k)
  BY <1>1, <1>2 DEF OffersOK
<1>10. OffersOK'
  BY <1>1, <1>2, <1>6 DEF OffersOK
<1>11. HoldsOK'
  <2>1. ASSUME NEW g \in Hosts, NEW k \in Keys, Holds(running', net', g, k)
        PROVE  Kept(db', g, k) \/ (Sought(db', k) /\ Coming(net', g, k))
    <3>1. CASE Holds(running, net, g, k)
      BY <1>1, <1>2, <1>7, <3>1 DEF HoldsOK
    <3>2. CASE g = h /\ k \in K
      BY <1>2, <1>8, <1>9, <3>2
    <3> QED BY <1>6, <2>1, <3>1, <3>2
  <2> QED BY <2>1 DEF HoldsOK
<1>12. HoldersOK'
  <2>1. ASSUME NEW g \in Hosts, NEW j \in Hosts, NEW k \in Keys,
               Holds(running', net', g, k), Holds(running', net', j, k)
        PROVE  g = j
    BY <1>1, <1>6, <1>9, <2>1 DEF HoldersOK
  <2> QED BY <2>1 DEF HoldersOK
<1>13. FiredOK'
  BY <1>2 DEF FiredOK
<1> QED BY <1>10, <1>11, <1>12, <1>13 DEF KeysInv

-----------------------------------------------------------------------------
(* The steps of the node, for the counters.                                *)

\* A step that asks for tasks: s is what the calls of sendRequest start from.
LEMMA SendKeys ==
  ASSUME IInv, KeysInv, NEW s \in States, DbOK(s.db), NEW calls \in Calls, NEW changing \in BOOLEAN,
         changing \/ s.db.lastRid + MaxApps <= MaxRequests,
         Becomes(SendRequests(s, calls, changing)) \/ Becomes(s),
         Numbered(s.db), Counted(s.db, s.remaining, s.remote),
         s.db.request = db.request, s.db.lastRid = db.lastRid, s.offered = offered,
         running' = running, net' = net, fired' \subseteq fired,
         \A k \in offered : Sought(s.db, k),
         \A h \in Hosts : \A k \in Keys : Holds(running, net, h, k) =>
           /\ Kept(db, h, k) => Kept(s.db, h, k)
           /\ Sought(db, k) /\ Coming(net, h, k) => Sought(s.db, k)
  PROVE  CountInv' /\ KeysInv'
<1> DEFINE n == SendRequests(s, calls, changing)
<1>1. /\ Numbered(n.db) /\ Counted(n.db, n.remaining, n.remote)
      /\ KeepsKeys(s.db, n.db) /\ s.offered \subseteq n.offered
      /\ \A k \in n.offered \ s.offered : k \in Keys /\ Sought(n.db, k) /\ ~ Named(s.db, k[1])
  BY SendRequestsCounts
<1> HIDE DEF n
<1>2. PICK m : /\ Becomes(m)
               /\ Numbered(m.db) /\ Counted(m.db, m.remaining, m.remote)
               /\ KeepsKeys(s.db, m.db) /\ s.offered \subseteq m.offered
               /\ \A k \in m.offered \ s.offered :
                    k \in Keys /\ Sought(m.db, k) /\ ~ Named(s.db, k[1])
  <2>1. CASE Becomes(n)
    BY <1>1, <2>1
  <2>2. CASE Becomes(s)
    BY <2>2 DEF KeepsKeys
  <2> QED BY <2>1, <2>2 DEF n
<1>3. db' = m.db /\ remaining' = m.remaining /\ remote' = m.remote /\ offered' = m.offered
  BY <1>2 DEF Becomes
<1>4. CountInv'
  BY <1>2, <1>3 DEF CountInv
<1>5. offered \subseteq Keys
  BY TypesOfCurrent DEF IInv, NodeInv, StateOK
<1>6. \A k \in offered : Sought(db', k)
  BY <1>2, <1>3, <1>5 DEF KeepsKeys
<1>7. \A k \in offered' \ offered : k \in Keys /\ Sought(db', k) /\ ~ Named(db, k[1])
  BY <1>2, <1>3 DEF Named
<1>8. \A h \in Hosts : \A k \in Keys : Holds(running, net, h, k) =>
        /\ Kept(db, h, k) => Kept(db', h, k)
        /\ Sought(db, k) /\ Coming(net, h, k) => Sought(db', k)
  BY <1>2, <1>3 DEF KeepsKeys
<1>9. KeysInv'
  BY <1>6, <1>7, <1>8, ServedKeys
<1> QED BY <1>4, <1>9

\* What the invariant says of the state that the handlers start from.
LEMMA CurrentCounts ==
  ASSUME IInv, CountInv, KeysInv
  PROVE  /\ Current \in States /\ DbOK(db) /\ db \in Databases
         /\ Numbered(db) /\ Counted(db, remaining, remote)
         /\ \A k \in offered : k \in Keys /\ Sought(db, k)
BY CurrentIs, TypesOfCurrent DEF IInv, NodeInv, StateOK, CountInv, KeysInv, OffersOK, DbOK

\* SubmissionNode::fatherChanged
LEMMA FatherChangedKeys ==
  ASSUME IInv, CountInv, KeysInv, FatherChanged
  PROVE  CountInv' /\ KeysInv'
<1> DEFINE s == [Current EXCEPT !.delayed = [a \in AppIds |-> NoEntry]]
<1>1. /\ s \in States /\ s.db = db /\ s.remaining = remaining /\ s.remote = remote
      /\ s.offered = offered
  BY CurrentCounts, NoCalls DEF Current, States
<1>2. /\ Becomes(SendRequests(s, delayed, FALSE)) /\ UNCHANGED <<running, net, fired>>
      /\ db.lastRid + MaxApps <= MaxRequests
  BY DEF FatherChanged, envVars, RequestsLeft
<1>3. delayed \in Calls
  BY CurrentCounts, TypesOfCurrent
<1> HIDE DEF s
<1> QED BY <1>1, <1>2, <1>3, CurrentCounts, SendKeys

\* SubmissionNode::handle(DispatchCommandMsg)
LEMMA DispatchCommandKeys ==
  ASSUME IInv, CountInv, KeysInv, NEW a \in AppIds, DispatchCommand(a)
  PROVE  CountInv' /\ KeysInv'
<1> DEFINE d    == CreateAppInstance(db, a)
           rest == [remaining EXCEPT ![a] = 0]
           s    == [Current EXCEPT !.db = d, !.remaining[a] = 0]
<1>1. /\ Becomes(SendRequests(s, OneCall(a, 0), inChange)) /\ UNCHANGED <<running, net, fired>>
      /\ db.lastRid + MaxApps <= MaxRequests /\ inChange \in BOOLEAN /\ ~ Created(db, a)
  BY DEF DispatchCommand, envVars, RequestsLeft, IInv, NodeInv
<1>2. remaining \in [AppIds -> (0 .. UIntMax) \cup {NoEntry}]
  BY CurrentCounts, TypesOfCurrent
<1>3. /\ DbOK(d) /\ d.lastRid = db.lastRid /\ d.request = db.request
  <2>1. Timed(db, timers \cup (fired \cup Lost))
    BY DEF IInv, NodeInv
  <2>2. d.request = db.request
    BY CurrentCounts DEF CreateAppInstance, SetTasks, Databases
  <2> QED BY <1>1, <2>1, <2>2, CurrentCounts, CreateAppInstanceOK
<1>4. Counted(d, rest, remote) /\ Numbered(d) /\ KeepsKeys(db, d)
  <2>1. remaining \in [AppIds -> Int]
    <3>1. (0 .. UIntMax) \cup {NoEntry} \subseteq Int
      BY DEF NoEntry
    <3> QED BY <1>2, <3>1
  <2> QED BY <1>1, <2>1, CurrentCounts, CreateCounts
<1>5. rest \in [AppIds -> (0 .. UIntMax) \cup {NoEntry}]
  BY <1>2, SubmissionConstants DEF SubmissionConstants
<1> HIDE DEF d
<1>6. s = [Current EXCEPT !.db = d, !.remaining = rest]
  BY DEF Current
<1> HIDE DEF rest, s
<1>7. /\ s \in States /\ s.db = d /\ s.remaining = rest /\ s.remote = remote
      /\ s.offered = offered
  BY <1>3, <1>5, <1>6, CurrentCounts, TypesOfCurrent DEF Current, States, DbOK
<1>8. OneCall(a, 0) \in Calls
  BY OneCallOK
<1>9. /\ \A k \in offered : Sought(d, k)
      /\ \A h \in Hosts : \A k \in Keys : Holds(running, net, h, k) =>
           /\ Kept(db, h, k) => Kept(d, h, k)
           /\ Sought(db, k) /\ Coming(net, h, k) => Sought(d, k)
  BY <1>4, CurrentCounts DEF KeepsKeys
<1> QED BY <1>1, <1>3, <1>4, <1>7, <1>8, <1>9, SendKeys

\* SubmissionNode::handle(RequestTimeout)
LEMMA RequestTimeoutKeys ==
  ASSUME IInv, CountInv, KeysInv, NEW r \in Rids, HandleRequestTimeout(r)
  PROVE  CountInv' /\ KeysInv'
<1> DEFINE a     == GetInstanceId(db, r)
           d     == CancelSearch(db, r)
           left  == IF remaining[a] = NoEntry THEN NoEntry
                    ELSE Sub(remaining[a], Cardinality(Cancelled(db, r)))
           again == Ready(d, a) # {} /\ RetriesLeft(r)
           last  == IF ~again /\ left = 0 THEN NoEntry ELSE left
           tried == [retries EXCEPT ![r] = NoEntry]
           rest  == [remaining EXCEPT ![a] = last]
           s     == [Current EXCEPT !.db = d, !.retries[r] = NoEntry,
                       !.remaining[a] = IF ~again /\ left = 0 THEN NoEntry ELSE left]
<1>1. Named(db, r) /\ a \in AppIds /\ Timed(db, timers \cup (fired \cup Lost))
      /\ RequestTimer(r) \in fired
  BY CurrentIs DEF IInv, NodeInv, StateOK, HandleRequestTimeout, Named, GetInstanceId
<1>2. /\ IF again THEN Becomes(SendRequests(s, OneCall(a, retries[r]), inChange)) ELSE Becomes(s)
      /\ UNCHANGED <<running, net>> /\ fired' = fired \ {RequestTimer(r)}
      /\ db.lastRid + MaxApps <= MaxRequests /\ inChange \in BOOLEAN
  <2> HIDE DEF left
  <2> QED BY DEF HandleRequestTimeout, envVars, RequestsLeft, left, IInv, NodeInv
<1>3. DbOK(d) /\ d.lastRid = db.lastRid /\ d.request = db.request
  BY <1>1, CurrentCounts, CancelSearchOK, CancelSearchRows
<1>4. /\ Numbered(d)
      /\ \A h \in Hosts, b \in AppIds : ExecutingAt(d, b, h) = ExecutingAt(db, b, h)
      /\ \A b \in AppIds : Busy(d, b) = IF b = a THEN Busy(db, b) \ Cancelled(db, r) ELSE Busy(db, b)
      /\ Cancelled(db, r) \in SUBSET Busy(db, a)
      /\ \A k \in Keys : /\ Sought(db, k) /\ k[1] # r => Sought(d, k)
                         /\ \A h \in Hosts : Kept(db, h, k) => Kept(d, h, k)
  BY <1>1, CurrentCounts, CancelCounts
<1>5. /\ remaining \in [AppIds -> (0 .. UIntMax) \cup {NoEntry}]
      /\ retries \in [Rids -> (0 .. SubmitRetries) \cup {1, NoEntry}]
  BY CurrentCounts, TypesOfCurrent
<1>6. again => OneCall(a, retries[r]) \in Calls
  <2>1. retries[r] \in Nat \cup {NoEntry}
    BY <1>5, SubmissionConstants DEF SubmissionConstants
  <2> QED BY <2>1, OneCallOK DEF RetriesLeft
<1>7. /\ left \in (0 .. UIntMax) \cup {NoEntry}
      /\ Value(left) = Cardinality(Busy(d, a))
  <2> DEFINE B == Busy(db, a)
             C == Cancelled(db, r)
             m == remaining[a]
  <2>1. /\ B \in SUBSET TaskIds /\ C \in SUBSET TaskIds /\ C \subseteq B
        /\ Busy(d, a) = B \ C
    BY <1>1, <1>4 DEF Busy, InState
  <2>2. Value(m) = Cardinality(B) /\ m \in (0 .. UIntMax) \cup {NoEntry}
    BY <1>1, <1>5, CurrentCounts DEF Counted
  <2> HIDE DEF B, C
  <2>3. /\ Cardinality(B) \in Nat /\ Cardinality(C) \in Nat /\ Cardinality(C) <= Cardinality(B)
        /\ Cardinality(B \ C) = Cardinality(B) - Cardinality(C)
    BY <2>1, SizeChanges
  <2>4. left = IF m = NoEntry THEN NoEntry ELSE Sub(m, Cardinality(C))
    BY DEF C
  <2> HIDE DEF left, m
  <2>5. CASE m = NoEntry
    BY <2>1, <2>2, <2>3, <2>4, <2>5 DEF Value, NoEntry
  <2>6. CASE m # NoEntry
    <3>1. m \in 0 .. UIntMax /\ m = Cardinality(B)
      BY <2>2, <2>6 DEF Value
    <3>2. Sub(m, Cardinality(C)) = m - Cardinality(C)
      BY <2>3, <3>1, NoWrap
    <3>3. left = Cardinality(B \ C) /\ left \in 0 .. UIntMax
      <4> DEFINE b == Cardinality(B)
                 c == Cardinality(C)
      <4>1. left = b - c /\ Cardinality(B \ C) = b - c
        BY <2>3, <2>4, <2>6, <3>1, <3>2
      <4>2. b \in 0 .. UIntMax /\ c \in Nat /\ c <= b /\ UIntMax \in Nat
        BY <2>3, <3>1, SubmissionConstants DEF SubmissionConstants
      <4> HIDE DEF b, c
      <4> QED BY <4>1, <4>2
    <3>4. left # NoEntry
      BY <3>3 DEF NoEntry
    <3> QED BY <2>1, <3>3, <3>4 DEF Value
  <2> QED BY <2>5, <2>6
<1>8. /\ last \in (0 .. UIntMax) \cup {NoEntry}
      /\ Value(last) = Cardinality(Busy(d, a))
  <2> HIDE DEF left, again
  <2> QED BY <1>7 DEF Value, NoEntry
<1>9. /\ tried \in [Rids -> (0 .. SubmitRetries) \cup {1, NoEntry}]
      /\ rest \in [AppIds -> (0 .. UIntMax) \cup {NoEntry}]
      /\ rest[a] = last /\ \A b \in AppIds \ {a} : rest[b] = remaining[b]
  <2> HIDE DEF last
  <2> QED BY <1>1, <1>5, <1>8
<1>10. s = [Current EXCEPT !.db = d, !.retries = tried, !.remaining = rest]
  <2> HIDE DEF d, left, again
  <2> QED BY DEF Current
<1> HIDE DEF d, left, again, last, tried, rest, s
<1>11. /\ s \in States /\ s.db = d /\ s.remaining = rest /\ s.remote = remote
       /\ s.offered = offered
  BY <1>3, <1>9, <1>10, CurrentCounts, TypesOfCurrent DEF Current, States, DbOK
<1>12. Counted(d, rest, remote)
  <2>1. \A b \in AppIds : Value(rest[b]) = Cardinality(Busy(d, b))
    BY <1>4, <1>8, <1>9, CurrentCounts DEF Counted
  <2> QED BY <1>4, <2>1, CurrentCounts DEF Counted
<1>13. /\ \A k \in offered : k[1] # r
       /\ \A h, k : Coming(net, h, k) => k[1] # r
  <2>1. /\ \A k \in offered : k[1] # r
        /\ \A m \in net : ~(m.type = "accept" /\ m.rid = r)
    BY <1>1 DEF KeysInv, FiredOK
  <2>2. ASSUME NEW h, NEW k, Coming(net, h, k) PROVE k[1] # r
    <3>1. PICK m \in net : m.type = "accept" /\ k \in KeysOf(m)
      BY <2>2 DEF Coming
    <3>2. k \in {m.rid} \X m.rtids
      BY <3>1 DEF KeysOf
    <3>3. k[1] = m.rid
      BY <3>2
    <3> QED BY <2>1, <3>1, <3>3
  <2> QED BY <2>1, <2>2
<1>14. /\ \A k \in offered : Sought(d, k)
       /\ \A h \in Hosts : \A k \in Keys : Holds(running, net, h, k) =>
            /\ Kept(db, h, k) => Kept(d, h, k)
            /\ Sought(db, k) /\ Coming(net, h, k) => Sought(d, k)
  BY <1>4, <1>13, CurrentCounts
<1>15. PICK calls \in Calls : Becomes(SendRequests(s, calls, inChange)) \/ Becomes(s)
  BY <1>2, <1>6, NoCalls
<1> QED BY <1>2, <1>3, <1>4, <1>11, <1>12, <1>14, <1>15, SendKeys

\* SubmissionNode::handle(HeartbeatTimeout)
LEMMA HeartbeatTimeoutKeys ==
  ASSUME IInv, CountInv, KeysInv, NEW h \in Hosts, HandleHeartbeatTimeout(h)
  PROVE  CountInv' /\ KeysInv'
<1> DEFINE d    == DeadNode(db, h)
           lost == [a \in AppIds |-> IF remote[h][a] > 0 THEN 0 ELSE NoEntry]
           rest == [a \in AppIds |-> IF lost[a] = NoEntry THEN remaining[a]
                                     ELSE Sub(Value(remaining[a]), remote[h][a])]
           none == [remote EXCEPT ![h] = [a \in AppIds |-> 0]]
           s    == [Current EXCEPT
                      !.db = d,
                      !.remaining = [a \in AppIds |-> IF lost[a] = NoEntry THEN @[a]
                                       ELSE Sub(Value(@[a]), remote[h][a])],
                      !.remote[h] = [a \in AppIds |-> 0]]
<1>1. Timed(db, timers \cup (fired \cup Lost))
  BY DEF IInv, NodeInv
<1>2. PICK i \in TimerIds : /\ HeartbeatTimer(h, i) \in fired
                            /\ fired' = fired \ {HeartbeatTimer(h, i)}
  BY DEF HandleHeartbeatTimeout
<1>3. /\ Becomes(SendRequests(s, lost, inChange)) /\ UNCHANGED <<running, net>>
      /\ db.lastRid + MaxApps <= MaxRequests /\ inChange \in BOOLEAN
  BY DEF HandleHeartbeatTimeout, envVars, RequestsLeft, IInv, NodeInv
<1>4. DbOK(d) /\ d.lastRid = db.lastRid /\ d.request = db.request
  BY <1>1, CurrentCounts, DeadNodeOK, DeadNodeRows
<1>5. /\ Numbered(d)
      /\ \A a \in AppIds : Busy(d, a) = Busy(db, a) \ ExecutingAt(db, a, h)
      /\ \A g \in Hosts, a \in AppIds : ExecutingAt(d, a, g) =
           IF g = h THEN {} ELSE ExecutingAt(db, a, g)
      /\ \A k \in Keys : /\ Sought(db, k) => Sought(d, k)
                         /\ \A g \in Hosts \ {h} : Kept(db, g, k) => Kept(d, g, k)
  BY CurrentCounts, DeadNodeCounts
<1>6. /\ remaining \in [AppIds -> (0 .. UIntMax) \cup {NoEntry}]
      /\ remote \in [Hosts -> [AppIds -> Nat]]
  BY CurrentCounts, TypesOfCurrent
<1>7. ASSUME NEW a \in AppIds
      PROVE  /\ rest[a] \in (0 .. UIntMax) \cup {NoEntry}
             /\ Value(rest[a]) = Cardinality(Busy(d, a))
  <2> DEFINE B == Busy(db, a)
             E == ExecutingAt(db, a, h)
             m == Value(remaining[a])
             c == remote[h][a]
             left == Sub(m, c)
  <2>1. /\ B \in SUBSET TaskIds /\ E \in SUBSET TaskIds /\ E \subseteq B
        /\ Busy(d, a) = B \ E
    BY <1>5 DEF Busy, ExecutingAt, InState
  <2>2. m = Cardinality(B) /\ c = Cardinality(E)
    BY CurrentCounts DEF Counted
  <2>3. rest[a] = IF c > 0 THEN left ELSE remaining[a]
    <3>1. lost[a] = NoEntry <=> ~ (remote[h][a] > 0)
      BY DEF NoEntry
    <3> HIDE DEF lost
    <3> QED BY <3>1
  <2>4. m \in 0 .. UIntMax /\ c \in Nat
    BY <1>6, SubmissionConstants DEF SubmissionConstants, Value, NoEntry
  <2>5. remaining[a] \in (0 .. UIntMax) \cup {NoEntry}
    BY <1>6
  <2> HIDE DEF B, E
  <2>6. /\ c <= m /\ Cardinality(B \ E) = m - c
    <3>1. /\ Cardinality(B \ E) = Cardinality(B) - Cardinality(E)
          /\ Cardinality(E) <= Cardinality(B)
      BY ONLY <2>1, SizeChanges
    <3> QED BY ONLY <2>2, <3>1
  <2>7. left = m - c
    <3> HIDE DEF m, c
    <3> QED BY <2>4, <2>6, NoWrap
  <2>8. CASE c > 0
    <3> HIDE DEF m, c, left, rest
    <3>1. rest[a] = m - c /\ m - c \in 0 .. UIntMax /\ m - c # NoEntry
      BY <2>3, <2>4, <2>6, <2>7, <2>8, SubmissionConstants DEF SubmissionConstants, NoEntry
    <3> QED BY <2>1, <2>6, <3>1 DEF Value
  <2>9. CASE ~ (c > 0)
    <3>1. rest[a] = remaining[a]
      BY <2>3, <2>9
    <3>2. m - c = m
      <4> HIDE DEF m, c
      <4> QED BY <2>4, <2>9
    <3> HIDE DEF rest, c
    <3> QED BY <2>1, <2>5, <2>6, <3>1, <3>2 DEF m
  <2> QED BY <2>8, <2>9
<1>8. rest \in [AppIds -> (0 .. UIntMax) \cup {NoEntry}]
  BY <1>7
<1>9. /\ none \in [Hosts -> [AppIds -> Nat]]
      /\ \A a \in AppIds : none[h][a] = 0
      /\ \A g \in Hosts \ {h} : none[g] = remote[g]
      /\ lost \in Calls
  BY <1>6 DEF Calls
<1>10. s = [Current EXCEPT !.db = d, !.remaining = rest, !.remote = none]
  BY DEF Current
<1> HIDE DEF d, rest, none, lost, s
<1>11. /\ s \in States /\ s.db = d /\ s.remaining = rest /\ s.remote = none
       /\ s.offered = offered
  BY <1>4, <1>8, <1>9, <1>10, CurrentCounts, TypesOfCurrent DEF Current, States, DbOK
<1>12. Counted(d, rest, none)
  <2>1. ASSUME NEW g \in Hosts, NEW a \in AppIds
        PROVE  none[g][a] = Cardinality(ExecutingAt(d, a, g))
    <3>1. CASE g = h
      BY <1>5, <1>9, <3>1, FS_EmptySet
    <3>2. CASE g # h
      BY <1>5, <1>9, <3>2, CurrentCounts DEF Counted
    <3> QED BY <3>1, <3>2
  <2> QED BY <1>7, <2>1 DEF Counted
<1>13. \A k \in Keys : ~ Holds(running, net, h, k)
  BY <1>2 DEF KeysInv, FiredOK
<1>14. /\ \A k \in offered : Sought(d, k)
       /\ \A g \in Hosts : \A k \in Keys : Holds(running, net, g, k) =>
            /\ Kept(db, g, k) => Kept(d, g, k)
            /\ Sought(db, k) /\ Coming(net, g, k) => Sought(d, k)
  BY <1>5, <1>13, CurrentCounts
<1> QED BY <1>2, <1>3, <1>4, <1>5, <1>9, <1>11, <1>12, <1>14, SendKeys

\* SubmissionNode::handle(AcceptTaskMsg)
LEMMA AcceptTaskKeys ==
  ASSUME IInv, CountInv, KeysInv, NEW m \in net, HandleAcceptTask(m)
  PROVE  CountInv' /\ KeysInv'
<1> DEFINE h   == m.node
           a   == GetInstanceId(db, m.rid)
           K   == {m.rid} \X m.rtids
           G(b) == Accepted(db, b, K)
           num == Cardinality(G(a))
           d   == AcceptedTasks(db, h, K)
<1>1. /\ m \in Messages /\ m.type = "accept" /\ Named(db, m.rid)
      /\ h \in Hosts /\ m.rid \in Rids /\ a \in AppIds /\ KeysOf(m) = K /\ K \in SUBSET Keys
  <2>1. m \in Messages /\ m.type = "accept" /\ Named(db, m.rid)
    BY DEF IInv, EnvInv, HandleAcceptTask
  <2> QED BY <2>1 DEF Messages, Named, GetInstanceId, KeysOf, Keys
<1>2. /\ db' = d /\ net' = net \ {m} /\ UNCHANGED <<offered, remaining, fired, running>>
      /\ IF num > 0 THEN remote' = [remote EXCEPT ![h][a] = @ + num] ELSE remote' = remote
  BY DEF HandleAcceptTask, Arrives
<1>3. /\ Numbered(d)
      /\ \A b \in AppIds : Busy(d, b) = Busy(db, b)
      /\ \A g \in Hosts, b \in AppIds : ExecutingAt(d, b, g) =
           IF g = h THEN ExecutingAt(db, b, g) \cup G(b) ELSE ExecutingAt(db, b, g)
      /\ \A g \in Hosts, b \in AppIds : /\ G(b) \in SUBSET TaskIds
                                        /\ ExecutingAt(db, b, g) \cap G(b) = {}
      /\ \A b \in AppIds : \A t \in G(b) :
           \E x \in db.taskRequest : /\ <<x[1], x[2]>> \in K /\ x[3] = t
                                     /\ db.request[x[1]] = b /\ TaskOf(db, x).state = "SEARCHING"
      /\ \A k \in Keys :
           /\ Sought(db, k) => Sought(d, k) \/ (k \in K /\ Kept(d, h, k))
           /\ \A g \in Hosts : Kept(db, g, k) => Kept(d, g, k)
      /\ \A k \in K : Sought(db, k) => Kept(d, h, k)
  <2> HIDE DEF K, h
  <2>1. DbOK(db) /\ Numbered(db)
    BY CurrentCounts
  <2> QED BY ONLY <1>1, <2>1, AcceptedCounts DEF d, G
<1>4. ASSUME NEW b \in AppIds, b # a PROVE G(b) = {}
  <2>1. ASSUME NEW t \in G(b) PROVE FALSE
    <3>1. PICK x \in db.taskRequest : <<x[1], x[2]>> \in K /\ db.request[x[1]] = b
      BY <1>3
    <3>2. x[1] = m.rid
      BY <3>1
    <3> QED BY <1>4, <3>1, <3>2 DEF GetInstanceId
  <2> QED BY <2>1
<1>5. remote \in [Hosts -> [AppIds -> Nat]]
  BY CurrentCounts, TypesOfCurrent
<1> HIDE DEF d, G, K, a, h
<1>6. ASSUME NEW g \in Hosts, NEW b \in AppIds
      PROVE  remote'[g][b] = Cardinality(ExecutingAt(d, b, g))
  <2> DEFINE E == ExecutingAt(db, b, g)
  <2>1. /\ E \in SUBSET TaskIds /\ G(b) \in SUBSET TaskIds /\ E \cap G(b) = {}
        /\ ExecutingAt(d, b, g) = IF g = h THEN E \cup G(b) ELSE E
    BY <1>3, BusyIs
  <2>2. remote[g][b] = Cardinality(E)
    BY CurrentCounts DEF Counted
  <2> HIDE DEF E
  <2> DEFINE T == G(b)
  <2>3. T \in SUBSET TaskIds /\ E \cap T = {}
    BY <2>1
  <2> HIDE DEF T
  <2>4. /\ Cardinality(E \cup T) = Cardinality(E) + Cardinality(T)
        /\ Cardinality(E) \in Nat /\ Cardinality(T) \in Nat
    BY <2>1, <2>3, SizeChanges
  <2>5. CASE g = h /\ b = a
    <3>1. num = Cardinality(T) /\ ExecutingAt(d, b, g) = E \cup T
      BY <2>1, <2>5 DEF T
    <3> HIDE DEF num
    <3>2. CASE num > 0
      BY <1>1, <1>2, <1>5, <2>2, <2>4, <2>5, <3>1, <3>2
    <3>3. CASE ~ (num > 0)
      BY <1>2, <2>2, <2>4, <3>1, <3>3
    <3> QED BY <3>2, <3>3
  <2>6. CASE ~ (g = h /\ b = a)
    <3>1. ExecutingAt(d, b, g) = E
      BY <1>4, <2>1, <2>6
    <3>2. remote'[g][b] = remote[g][b]
      <4> HIDE DEF num
      <4>1. CASE num > 0
        BY <1>1, <1>2, <1>5, <2>6, <4>1
      <4>2. CASE ~ (num > 0)
        BY <1>2, <4>2
      <4> QED BY <4>1, <4>2
    <3> QED BY <2>2, <3>1, <3>2
  <2> QED BY <2>5, <2>6
<1>7. CountInv'
  <2>1. \A b \in AppIds : Value(remaining[b]) = Cardinality(Busy(d, b))
    BY <1>3, CurrentCounts DEF Counted
  <2> QED BY <1>2, <1>3, <1>6, <2>1 DEF CountInv, Counted
<1>8. \A k \in K : Holds(running, net, h, k)
  BY <1>1 DEF Holds, h
<1>9. ASSUME NEW k \in offered PROVE Sought(d, k)
  <2>1. k \in Keys /\ Sought(db, k) /\ k \notin K
    BY <1>1, <1>8, CurrentCounts DEF KeysInv, OffersOK
  <2> QED BY <1>3, <2>1
<1>10. ASSUME NEW g \in Hosts, NEW k \in Keys, Sought(db, k), Coming(net, g, k)
       PROVE  Kept(d, g, k) \/ (Sought(d, k) /\ Coming(net', g, k))
  <2>1. CASE k \in K
    <3>1. Holds(running, net, g, k)
      BY <1>10 DEF Coming, Holds
    <3>2. g = h
      BY <1>1, <1>8, <2>1, <3>1 DEF KeysInv, HoldersOK
    <3> QED BY <1>3, <1>10, <2>1, <3>2
  <2>2. CASE k \notin K
    <3>1. Coming(net', g, k)
      BY <1>1, <1>2, <1>10, <2>2 DEF Coming
    <3> QED BY <1>3, <1>10, <2>2, <3>1
  <2> QED BY <2>1, <2>2
<1>11. KeysInv'
  <2>1. running' = running /\ net' \subseteq net /\ fired' \subseteq fired /\ offered' = offered
    BY <1>2
  <2>2. \A g \in Hosts : \A k \in Keys : Kept(db, g, k) => Kept(d, g, k)
    BY <1>3
  <2> QED BY <1>2, <1>9, <1>10, <2>1, <2>2, ServedKeys
<1> QED BY <1>7, <1>11

\* SubmissionNode::handle(TaskMonitorMsg), which finds that all the tasks it names
\* are the node's, or have finished.
LEMMA TaskMonitorKeys ==
  ASSUME Punctual, IInv, CountInv, KeysInv, NEW m \in net, HandleTaskMonitor(m)
  PROVE  CountInv' /\ KeysInv'
<1> DEFINE h     == m.node
           K     == m.tasks
           d     == AcceptedTasks(db, h, K)
           s1    == [Current EXCEPT !.db = AcceptedTasks(@, h, m.tasks)]
           k     == CHOOSE q \in m.finished : TRUE
           s2    == IF m.finished = {} THEN s1 ELSE FinishOne(s1, h, k)
           s3    == IF m.aborted = {} THEN s2
                    ELSE AbortOne(s2, h, CHOOSE q \in m.aborted : TRUE)
           watch == \E a \in AppIds : s3.remote[h][a] > 0
           armed == Rearmed(s3.timers, h, watch)
<1>1. /\ m \in Messages /\ m.type = "monitor" /\ h \in Hosts
      /\ m.tasks \in SUBSET Keys /\ m.finished \in SUBSET Keys
      /\ KeysOf(m) = m.tasks \cup m.finished \cup m.aborted
      /\ \A q \in KeysOf(m) : Named(db, q[1])
  <2>1. m \in Messages /\ m.type = "monitor" /\ \A q \in KeysOf(m) : Named(db, q[1])
    BY DEF IInv, EnvInv, HandleTaskMonitor
  <2> QED BY <2>1 DEF Messages, KeysOf
<1>2. /\ Arrives(m) /\ UNCHANGED <<fired, running>>
      /\ Becomes([s3 EXCEPT !.timers = Rearmed(@, h, watch)])
  BY Zenon DEF HandleTaskMonitor
<1>3. /\ net' = net \ {m} /\ ~ \E q \in net : q.node = h /\ q.type = "accept"
  BY <1>1, <1>2 DEF Arrives, Punctual
<1>4. \A q \in KeysOf(m) \cap Keys : Kept(db, h, q)
  <2>1. ASSUME NEW q \in KeysOf(m) \cap Keys PROVE Kept(db, h, q)
    <3>1. Holds(running, net, h, q) /\ ~ Coming(net, h, q)
      BY <1>3 DEF Holds, Coming
    <3> QED BY <1>1, <3>1 DEF KeysInv, HoldsOK
  <2> QED BY <2>1
<1>5. /\ Numbered(d)
      /\ \A a \in AppIds : Busy(d, a) = Busy(db, a)
      /\ \A g \in Hosts, a \in AppIds : ExecutingAt(d, a, g) =
           IF g = h THEN ExecutingAt(db, a, g) \cup Accepted(db, a, K) ELSE ExecutingAt(db, a, g)
      /\ \A a \in AppIds : \A t \in Accepted(db, a, K) :
           \E x \in db.taskRequest : /\ <<x[1], x[2]>> \in K /\ x[3] = t
                                     /\ db.request[x[1]] = a /\ TaskOf(db, x).state = "SEARCHING"
      /\ \A q \in Keys :
           /\ Sought(db, q) => Sought(d, q) \/ (q \in K /\ Kept(d, h, q))
           /\ \A g \in Hosts : Kept(db, g, q) => Kept(d, g, q)
  <2>1. DbOK(db) /\ Numbered(db) /\ h \in Hosts /\ K \in SUBSET Keys
    BY <1>1, CurrentCounts
  <2> HIDE DEF K, h
  <2> QED BY ONLY <2>1, AcceptedCounts DEF d
<1>6. \A x \in db.taskRequest : <<x[1], x[2]>> \in K => TaskOf(db, x).state # "SEARCHING"
  <2>1. ASSUME NEW x \in db.taskRequest, <<x[1], x[2]>> \in K
        PROVE  TaskOf(db, x).state # "SEARCHING"
    <3> DEFINE q == <<x[1], x[2]>>
    <3>1. q \in KeysOf(m) \cap Keys
      BY <1>1, <2>1
    <3>2. PICK y \in db.taskRequest : /\ Names(q, y)
                                      /\ TaskOf(db, y).state \in {"FINISHED", "EXECUTING"}
      <4> HIDE DEF q
      <4> QED BY <1>4, <3>1 DEF Kept
    <3>3. x[1] = y[1] /\ x[3] = y[3]
      BY <3>2, CurrentCounts, OneRow DEF Names
    <3> QED BY <3>2, <3>3 DEF TaskOf
  <2> QED BY <2>1
<1>7. \A a \in AppIds : Accepted(db, a, K) = {}
  <2>1. ASSUME NEW a \in AppIds, NEW t \in Accepted(db, a, K) PROVE FALSE
    <3>1. PICK x \in db.taskRequest : <<x[1], x[2]>> \in K /\ TaskOf(db, x).state = "SEARCHING"
      BY <1>5
    <3> QED BY <1>6, <3>1
  <2> QED BY <2>1
<1>8. KeepsKeys(db, d) /\ Counted(d, remaining, remote)
  <2>1. \A g \in Hosts, a \in AppIds : ExecutingAt(d, a, g) = ExecutingAt(db, a, g)
    BY <1>5, <1>7
  <2>2. Counted(d, remaining, remote)
    BY <1>5, <2>1, CurrentCounts DEF Counted
  <2>3. ASSUME NEW q \in Keys, Sought(db, q) PROVE Sought(d, q)
    <3>1. q \notin m.tasks
      <4>1. PICK x \in db.taskRequest : Names(q, x) /\ TaskOf(db, x).state = "SEARCHING"
        BY <2>3 DEF Sought
      <4>2. q = <<x[1], x[2]>>
        BY <4>1 DEF Names, Keys
      <4> QED BY <1>6, <4>1, <4>2
    <3> QED BY <1>5, <2>3, <3>1
  <2> QED BY <1>5, <2>2, <2>3 DEF KeepsKeys
<1>9. DbOK(d) /\ d \in Databases /\ d.request = db.request /\ d.lastRid = db.lastRid
  <2>1. Timed(db, timers \cup (fired \cup Lost))
    BY DEF IInv, NodeInv
  <2>2. DbOK(db) /\ db \in Databases /\ h \in Hosts
    BY <1>1, CurrentCounts
  <2> HIDE DEF K, h
  <2>3. DbOK(d) /\ d.lastRid = db.lastRid
    BY ONLY <2>1, <2>2, AcceptedTasksOK DEF d
  <2>4. d \in Databases /\ d.request = db.request
    BY ONLY <2>2, AcceptedTasksRows DEF d
  <2> QED BY <2>3, <2>4
<1> HIDE DEF d
<1>10. /\ s1 \in States /\ s1.db = d /\ s1.remaining = remaining /\ s1.remote = remote
       /\ s1.offered = offered
  <2>1. s1 = [Current EXCEPT !.db = d]
    BY DEF Current, d
  <2> HIDE DEF s1
  <2> QED BY <1>9, <2>1, CurrentCounts, TypesOfCurrent DEF Current, States
<1> HIDE DEF s1, k, h
<1>11. /\ s2 \in States /\ Numbered(s2.db) /\ Counted(s2.db, s2.remaining, s2.remote)
       /\ KeepsKeys(db, s2.db) /\ s2.offered = offered
  <2>1. CASE m.finished = {}
    BY <1>5, <1>8, <1>10, <2>1
  <2>2. CASE m.finished # {}
    <3>1. k \in m.finished
      BY <2>2 DEF k
    <3>2. k \in Keys /\ Kept(db, h, k) /\ Named(db, k[1])
      BY <1>1, <1>4, <3>1
    <3>3. Kept(d, h, k) /\ Named(d, k[1])
      BY <1>5, <1>9, <3>2, <1>1 DEF Named, h
    <3>4. /\ Numbered(s2.db) /\ Counted(s2.db, s2.remaining, s2.remote)
          /\ KeepsKeys(d, s2.db) /\ s2.offered = offered
      BY <1>1, <1>5, <1>8, <1>9, <1>10, <2>2, <3>2, <3>3, FinishOneCounts DEF h
    <3>5. KeepsKeys(db, s2.db)
      BY <1>8, <3>4 DEF KeepsKeys
    <3>6. s2 \in States
      <4>1. StateOK(s1, fired)
        <5>1. StateOK(Current, fired) /\ Timed(db, timers \cup (fired \cup Lost))
          BY DEF IInv, NodeInv
        <5>2. s1.timers = timers
          BY CurrentIs DEF s1
        <5> QED BY <1>9, <1>10, <5>1, <5>2, CurrentIs DEF StateOK, Named
      <4>2. Timed(d, timers \cup (fired \cup Lost)) 
        BY <1>1, CurrentCounts, AcceptedTasksOK DEF IInv, NodeInv, d
      <4> QED BY <1>1, <1>10, <2>2, <3>2, <3>3, <4>1, <4>2, FinishOneOK DEF StateOK, h
    <3> QED BY <3>4, <3>5, <3>6
  <2> QED BY <2>1, <2>2
<1> HIDE DEF s2
<1>12. s3 = s2
  BY <1>1, AbortedTaskFails DEF AbortOne, h
<1> HIDE DEF s3
<1>13. /\ db' = s2.db /\ remaining' = s2.remaining /\ remote' = s2.remote /\ offered' = offered
  <2> DEFINE n == [s2 EXCEPT !.timers = armed]
  <2>1. Becomes(n)
    BY <1>2, <1>12, Zenon
  <2> HIDE DEF armed
  <2>2. /\ n.db = s2.db /\ n.remaining = s2.remaining /\ n.remote = s2.remote
        /\ n.offered = s2.offered
    BY <1>11 DEF States
  <2> HIDE DEF n
  <2> QED BY <1>11, <2>1, <2>2 DEF Becomes
<1>14. CountInv'
  BY <1>11, <1>13 DEF CountInv
<1>15. KeysInv'
  <2>1. running' = running /\ net' \subseteq net /\ fired' \subseteq fired
    BY <1>2, <1>3
  <2>2. \A k1 \in offered : Sought(db', k1)
    BY <1>11, <1>13, CurrentCounts DEF KeepsKeys
  <2>3. \A g \in Hosts : \A k1 \in Keys : Kept(db, g, k1) => Kept(db', g, k1)
    BY <1>11, <1>13 DEF KeepsKeys
  <2>4. ASSUME NEW g \in Hosts, NEW k1 \in Keys, Sought(db, k1), Coming(net, g, k1)
        PROVE  Sought(db', k1) /\ Coming(net', g, k1)
    <3>1. Sought(db', k1)
      BY <1>11, <1>13, <2>4 DEF KeepsKeys
    <3>2. Coming(net', g, k1)
      BY <1>1, <1>3, <2>4 DEF Coming
    <3> QED BY <3>1, <3>2
  <2> QED BY <1>13, <2>1, <2>2, <2>3, <2>4, ServedKeys
<1> QED BY <1>14, <1>15

-----------------------------------------------------------------------------
(* Every step for the counters, and the theorems.                          *)

\* A report of tasks that the node has gives no key to a node.
LEMMA ReportKeys ==
  ASSUME IInv, KeysInv, db' = db, offered' = offered, fired' = fired,
         running' \subseteq running, NEW h \in Hosts, NEW K, NEW F, NEW A,
         net' = net \cup {TaskMonitorMsg(h, K, F, A)},
         \A k \in K \cup F \cup A : \E x \in running : x.node = h /\ x.key = k
  PROVE  KeysInv'
<1> DEFINE m == TaskMonitorMsg(h, K, F, A)
<1>1. m.type = "monitor" /\ m.node = h /\ KeysOf(m) = K \cup F \cup A
  BY DEF TaskMonitorMsg, KeysOf
<1> HIDE DEF m
<1>2. \A g, k : Holds(running', net', g, k) => Holds(running, net, g, k)
  BY <1>1 DEF Holds, m
<1>3. /\ \A q \in net : q.type = "accept" => q \in net'
      /\ \A q \in net' : q.type = "accept" => q \in net
  BY <1>1 DEF m
<1> QED BY <1>2, <1>3, OthersKeys

\* Every step keeps the invariant.
LEMMA CountersStep ==
  ASSUME Punctual, IInv, CountInv, KeysInv, [Next]_vars
  PROVE  CountInv' /\ KeysInv'
<1>1. /\ running \subseteq [node : Hosts, key : Keys, exited : BOOLEAN]
      /\ net \subseteq Messages /\ losses \in 0 .. MaxLosses /\ restarts \in 0 .. MaxRestarts
  BY DEF IInv, EnvInv
<1>2. UNCHANGED <<db, remaining, remote>> => CountInv'
  BY DEF CountInv
<1>3. UNCHANGED <<db, offered, running, net, fired>> => KeysInv'
  BY DEF KeysInv, OffersOK, HoldsOK, HoldersOK, FiredOK
<1>4. CASE FatherChanging
  BY <1>2, <1>3, <1>4 DEF FatherChanging, envVars
<1>5. CASE FatherChanged
  BY <1>5, FatherChangedKeys
<1>6. ASSUME NEW a \in AppIds, DispatchCommand(a) PROVE CountInv' /\ KeysInv'
  BY <1>6, DispatchCommandKeys
<1>7. ASSUME NEW r \in Rids, HandleRequestTimeout(r) PROVE CountInv' /\ KeysInv'
  BY <1>7, RequestTimeoutKeys
<1>8. ASSUME NEW h \in Hosts, HandleHeartbeatTimeout(h) PROVE CountInv' /\ KeysInv'
  BY <1>8, HeartbeatTimeoutKeys
<1>9. ASSUME NEW m \in net, HandleAcceptTask(m) PROVE CountInv' /\ KeysInv'
  BY <1>9, AcceptTaskKeys
<1>10. ASSUME NEW m \in net, HandleTaskMonitor(m) PROVE CountInv' /\ KeysInv'
  BY <1>10, TaskMonitorKeys
<1>11. ASSUME NEW r \in Rids, ExpireRequest(r) PROVE CountInv' /\ KeysInv'
  <2> DEFINE t == RequestTimer(r)
  <2>1. /\ Expire(t)
        /\ \A k \in offered : k[1] # r
        /\ \A m \in net : ~(m.type = "accept" /\ m.rid = r)
    BY <1>11 DEF ExpireRequest, Punctual
  <2>2. /\ \A q \in Rids : t = RequestTimer(q) => q = r
        /\ \A h \in Hosts, i \in TimerIds : t # HeartbeatTimer(h, i)
    BY DEF RequestTimer, HeartbeatTimer
  <2>3. CountInv'
    BY <1>2, <2>1 DEF Expire
  <2> HIDE DEF t
  <2> QED BY <2>1, <2>2, <2>3, ExpireKeys
<1>12. ASSUME NEW h \in Hosts, NEW i \in TimerIds, ExpireHeartbeat(h, i)
       PROVE  CountInv' /\ KeysInv'
  <2> DEFINE t == HeartbeatTimer(h, i)
  <2>1. /\ Expire(t)
        /\ \A x \in running : x.node # h
        /\ \A m \in net : m.node # h
    BY <1>12 DEF ExpireHeartbeat, Punctual
  <2>2. /\ \A r \in Rids : t # RequestTimer(r)
        /\ \A g \in Hosts, j \in TimerIds : t = HeartbeatTimer(g, j) => g = h
    BY DEF RequestTimer, HeartbeatTimer
  <2>3. \A k \in Keys : ~ Holds(running, net, h, k)
    BY <2>1 DEF Holds
  <2>4. CountInv'
    BY <1>2, <2>1 DEF Expire
  <2> HIDE DEF t
  <2> QED BY <2>1, <2>2, <2>3, <2>4, ExpireKeys
<1>13. CASE Restart
  BY <1>1, <1>13, SubmissionConstants DEF Restart, Punctual, SubmissionConstants
<1>14. ASSUME NEW h \in Hosts, NEW r \in Rids, NEW f \in TaskIds, NEW l \in TaskIds,
              NodeAccepts(h, r, f, l)
       PROVE  CountInv' /\ KeysInv'
  <2>1. CountInv'
    BY <1>2, <1>14 DEF NodeAccepts, nodeVars
  <2> QED BY <1>14, <2>1, AcceptsKeys
<1>15. ASSUME NEW r \in Rids, NobodyAccepts(r) PROVE CountInv' /\ KeysInv'
  <2>1. UNCHANGED <<db, remaining, remote, fired, running, net>> /\ offered' \subseteq offered
    BY <1>15 DEF NobodyAccepts, nodeVars, envVars
  <2> QED BY <1>2, <2>1, OthersKeys
<1>16. ASSUME NEW x \in running, TaskExits(x) PROVE CountInv' /\ KeysInv'
  <2> DEFINE y == [x EXCEPT !.exited = TRUE]
  <2>1. /\ UNCHANGED <<db, remaining, remote, fired, offered, net>>
        /\ running' = (running \ {x}) \cup {y}
    BY <1>16 DEF TaskExits, nodeVars
  <2>2. y.key = x.key /\ y.node = x.node
    BY <1>1
  <2> HIDE DEF y
  <2>3. \A g, k : Holds(running', net', g, k) => Holds(running, net, g, k)
    BY <2>1, <2>2 DEF Holds
  <2> QED BY <1>2, <2>1, <2>3, OthersKeys
<1>17. ASSUME NEW x \in running, NodeFinishes(x) \/ NodeAborts(x) PROVE CountInv' /\ KeysInv'
  <2>1. PICK F \in SUBSET {x.key}, A \in SUBSET {x.key} :
          net' = net \cup {TaskMonitorMsg(x.node, {x.key}, F, A)}
    BY <1>17 DEF NodeFinishes, NodeAborts
  <2>2. /\ UNCHANGED <<db, remaining, remote, fired, offered>> /\ running' \subseteq running
        /\ x.node \in Hosts
    BY <1>1, <1>17 DEF NodeFinishes, NodeAborts, nodeVars
  <2> DEFINE K == {x.key}
             h == x.node
  <2>3. /\ net' = net \cup {TaskMonitorMsg(h, K, F, A)} /\ h \in Hosts
        /\ \A k \in K \cup F \cup A : \E z \in running : z.node = h /\ z.key = k
    BY <2>1, <2>2
  <2> HIDE DEF K, h
  <2> QED BY <1>2, <2>2, <2>3, ReportKeys
<1>18. ASSUME NEW h \in Hosts, NodeReminds(h) PROVE CountInv' /\ KeysInv'
  <2> DEFINE K == {x.key : x \in InQueue(h)}
             F == {x.key : x \in {y \in InQueue(h) : y.exited}}
  <2>1. /\ UNCHANGED <<db, remaining, remote, fired, offered, running>>
        /\ net' = net \cup {TaskMonitorMsg(h, K, F, {})}
    BY <1>18 DEF NodeReminds, nodeVars
  <2>2. \A k \in K \cup F \cup {} : \E x \in running : x.node = h /\ x.key = k
    BY DEF InQueue
  <2> HIDE DEF K, F
  <2> QED BY <1>2, <2>1, <2>2, ReportKeys
<1>19. ASSUME NEW h \in Hosts, NodeFails(h) PROVE CountInv' /\ KeysInv'
  <2>1. UNCHANGED <<db, remaining, remote, fired, offered, net>> /\ running' \subseteq running
    BY <1>19 DEF NodeFails, nodeVars
  <2>2. \A g, k : Holds(running', net', g, k) => Holds(running, net, g, k)
    BY <2>1 DEF Holds
  <2> QED BY <1>2, <2>1, <2>2, OthersKeys
<1>20. ASSUME NEW m \in net, LoseMessage(m) PROVE CountInv' /\ KeysInv'
  BY <1>1, <1>20, SubmissionConstants DEF LoseMessage, Punctual, SubmissionConstants
<1>21. CASE UNCHANGED vars
  BY <1>2, <1>3, <1>21 DEF vars, nodeVars, envVars
<1> QED BY <1>4, <1>5, <1>6, <1>7, <1>8, <1>9, <1>10, <1>11, <1>12, <1>13, <1>14, <1>15,
           <1>16, <1>17, <1>18, <1>19, <1>20, <1>21 DEF Next

\* When acceptances are handled first, timers expire in time and nothing is lost, a
\* key leads to the task of the node that has it, in every state.
THEOREM KeysAlwaysLead == ASSUME Punctual PROVE Spec => [](CountInv /\ KeysInv)
<1>1. IInv /\ CountInv /\ KeysInv /\ [Next]_vars => (CountInv /\ KeysInv)'
  BY CountersStep
<1>2. IInv /\ [Next]_vars => IInv'
  BY InvStep
<1> QED BY <1>1, <1>2, CountersInit, InvInit, PTL DEF Spec

\* remoteTasks and remainingTasks (SubmissionNode.hpp) are the numbers of tasks that
\* the database has at each node and in process, in every state.
THEOREM CountersAlwaysMatch == ASSUME Punctual PROVE Spec => []CountersMatch
<1>1. TypeOK /\ CountInv => CountersMatch
  BY DEF CountInv, Counted, Busy, CountersMatch
<1> QED BY <1>1, TypeCorrect, KeysAlwaysLead, PTL

-----------------------------------------------------------------------------
(* The relation of the two databases.                                      *)

\* The database of the simulator.  A request is a list of pointers.
Lists == UNION {[D -> TaskIds \cup {NoTask}] : D \in SUBSET TaskIds}
Instances == [live : BOOLEAN, tasks : [TaskIds -> TaskRow], requests : Seq(Lists)]
SimDatabases == [AppIds -> Instances]

\* Pointer i of request k of instance x.
Leads(x, k, i) ==
  IF k \in DOMAIN x.requests /\ i \in DOMAIN x.requests[k] THEN x.requests[k][i] ELSE NoTask

\* The tasks have the same state, those that nodes execute are at the same, and
\* are in some request.
SameTasks(d, x, a) ==
  \A t \in TaskIds :
    /\ x.tasks[t].state = d.task[a][t].state
    /\ d.task[a][t].state = "EXECUTING" =>
         /\ x.tasks[t].host = d.task[a][t].host
         /\ \E y \in d.taskRequest : d.request[y[1]] = a /\ y[3] = t

\* Each request has a name of its own, and its pointers are its rows.
SameRequests(d, x, N, a) ==
  /\ \A r \in Rids : d.request[r] = a =>
       /\ N[r][1] = a /\ N[r][2] \in DOMAIN x.requests
       /\ \A i, t \in TaskIds : <<r, i, t>> \in d.taskRequest <=> Leads(x, N[r][2], i) = t
  /\ \A r, q \in Rids : d.request[r] = a /\ d.request[q] = a /\ N[r][2] = N[q][2] => r = q

\* Requests are numbered as they are created, for instances that were.
Made(d) ==
  \A r \in Rids : d.request[r] # NoApp => r <= d.lastRid /\ Created(d, d.request[r])

\* A request that has no name yet finds nothing, nor does one without instance.
NamesOK(d, N) ==
  /\ N = [r \in Rids |-> N[r]]
  /\ \A r \in Rids :
       /\ r > d.lastRid => N[r] = <<1, 0>>
       /\ d.request[r] \in AppIds =>
            N[r][1] \in AppIds /\ (N[r][2] = 0 \/ N[r][1] = d.request[r])

\* An instance of the program and its twin.
Paired(d, x, N, a) == Created(d, a) /\ SameTasks(d, x, a) /\ SameRequests(d, x, N, a)

Twin(d, S, N) ==
  /\ S \in SimDatabases /\ Made(d) /\ NamesOK(d, N)
  /\ \A a \in AppIds : S[a].live => Paired(d, S[a], N, a)

-----------------------------------------------------------------------------
(* Pointers.                                                               *)

\* The number of an element of a set.
Rank(R, t) == Cardinality({u \in R : u <= t})

\* The numbers of the elements of a set, in their order, are all the numbers up
\* to its size.
LEMMA RanksAreAll ==
  ASSUME NEW n \in Nat, NEW R \in SUBSET (1 .. n), NEW i \in 1 .. Cardinality(R)
  PROVE  \E t \in R : Cardinality({u \in R : u <= t}) = i
<1> DEFINE rank == [t \in R |-> Cardinality({u \in R : u <= t})]
           T    == 1 .. Cardinality(R)
<1>1. IsFiniteSet(R) /\ Cardinality(R) \in Nat
  BY Counts
<1>2. IsFiniteSet(T) /\ Cardinality(T) = Cardinality(R)
  BY <1>1, FS_Interval
<1> DEFINE c(t) == Cardinality({u \in R : u <= t})
<1>3. \A t \in R : c(t) \in 1 .. n /\ c(t) <= Cardinality(R)
  BY Ranks
<1>4. \A t, u \in R : c(t) = c(u) => t = u
  BY ONLY n \in Nat, R \in SUBSET (1 .. n), Ranks
<1> HIDE DEF c
<1>5. rank \in [R -> T] /\ \A t \in R : rank[t] = c(t)
  BY <1>1, <1>3 DEF c
<1> HIDE DEF T
<1>6. rank \in Injection(R, T)
  <2> HIDE DEF rank
  <2> QED BY <1>4, <1>5 DEF Injection, IsInjective
<1>7. rank \in Surjection(R, T)
  <2> HIDE DEF rank
  <2> QED BY <1>2, <1>6, FS_Injection
<1>8. PICK t \in R : rank[t] = i
  <2> HIDE DEF rank
  <2> QED BY <1>7 DEF Surjection, T
<1> QED BY <1>5, <1>8 DEF c

\* The list q has the tasks of R, each one by its number.
AreListed(q, R) ==
  /\ q \in Lists
  /\ \A t \in R : Rank(R, t) \in TaskIds
  /\ \A i, t \in TaskIds : i \in DOMAIN q /\ q[i] = t <=> t \in R /\ Rank(R, t) = i
  /\ \A i \in DOMAIN q : q[i] \in R

\* A new request points at each ready task by the number of its row.
LEMMA ReadyTasksAre ==
  ASSUME NEW S \in SimDatabases, NEW a \in AppIds, NEW R,
         R = {t \in TaskIds : S[a].tasks[t].state = "READY"}
  PROVE  AreListed(ReadyTasks(S, a), R)
<1> DEFINE rank(t) == Cardinality({u \in R : u <= t})
           n       == Cardinality(R)
           Q       == ReadyTasks(S, a)
<1>1. R \in SUBSET (1 .. NumTasks) /\ NumTasks \in Nat
  BY Numbers DEF TaskIds
<1>2. n \in Nat /\ n <= NumTasks
  BY <1>1, Counts
<1>3. \A t \in R : rank(t) \in 1 .. n /\ rank(t) \in TaskIds
  BY <1>1, <1>2, Ranks DEF TaskIds
<1>4. \A t, u \in R : rank(t) = rank(u) => t = u
  BY <1>1, Ranks
<1>5. \A i \in 1 .. n : \E t \in R : rank(t) = i
  BY <1>1, RanksAreAll
<1>6. Q = [i \in 1 .. n |-> CHOOSE t \in R : rank(t) = i]
  BY DEF ReadyTasks
<1> HIDE DEF rank, n, Q
<1>7. \A i \in 1 .. n : Q[i] \in R /\ rank(Q[i]) = i
  BY <1>5, <1>6
<1>8. DOMAIN Q = 1 .. n /\ Q = [i \in 1 .. n |-> Q[i]]
  BY <1>6
<1>9. Q \in Lists
  <2>1. 1 .. n \in SUBSET TaskIds
    BY <1>1, <1>2 DEF TaskIds
  <2>2. R \subseteq TaskIds
    OBVIOUS
  <2>3. Q \in [1 .. n -> TaskIds \cup {NoTask}]
    BY <1>7, <1>8, <2>2
  <2> QED BY <2>1, <2>3 DEF Lists
<1>10. ASSUME NEW i \in TaskIds, NEW t \in TaskIds
       PROVE  i \in DOMAIN Q /\ Q[i] = t <=> t \in R /\ rank(t) = i
  BY <1>3, <1>4, <1>7, <1>8
<1>11. /\ \A t \in R : Rank(R, t) \in TaskIds
       /\ \A i, t \in TaskIds : i \in DOMAIN Q /\ Q[i] = t <=> t \in R /\ Rank(R, t) = i
  BY <1>3, <1>10 DEF rank, Rank
<1> QED BY <1>7, <1>8, <1>9, <1>11 DEF Q, AreListed

-----------------------------------------------------------------------------
(* What the relation says of what the methods look at.                     *)

\* The pointers of a request of a twin are the tasks of its rows.
LEMMA PointersAre ==
  ASSUME NEW d, DbOK(d), NEW S, NEW N, Twin(d, S, N), NEW r \in Rids,
         d.request[r] \in AppIds, S[d.request[r]].live
  PROVE  /\ N[r][1] = d.request[r] /\ FindRequest(S, N[r])
         /\ N[r][2] \in DOMAIN S[d.request[r]].requests
         /\ \A i \in TaskIds : Pointee(S, N[r], i) = Leads(S[d.request[r]], N[r][2], i)
         /\ \A i, t \in TaskIds : <<r, i, t>> \in d.taskRequest <=> Pointee(S, N[r], i) = t
         /\ Pointees(S, N[r]) = TidsOfRequest(d, r)
         /\ \A i \in TaskIds : TidsOf(d, {<<r, i>>}) = {Pointee(S, N[r], i)} \ {NoTask}
<1> DEFINE a == d.request[r]
           x == S[a]
           k == N[r][2]
<1>1. a \in AppIds /\ N[r][1] = a /\ k \in DOMAIN x.requests
  BY DEF Twin, Paired, SameRequests
<1>2. \A i, t \in TaskIds : <<r, i, t>> \in d.taskRequest <=> Leads(x, k, i) = t
  BY DEF Twin, Paired, SameRequests
<1>3. x \in Instances
  BY <1>1 DEF Twin, SimDatabases
<1>4. x.requests \in Seq(Lists)
  BY <1>3 DEF Instances
<1>5. x.requests[k] \in Lists
  BY <1>1, <1>4
<1>6. \A i \in TaskIds : Leads(x, k, i) \in TaskIds \cup {NoTask}
  BY <1>5 DEF Leads, Lists
<1>7. \A i \in TaskIds : Pointee(S, N[r], i) = Leads(x, k, i)
  BY <1>1 DEF Pointee, FindRequest, Leads
<1>8. FindRequest(S, N[r])
  BY <1>1 DEF FindRequest
<1>9. NoTask \notin TaskIds
  BY Numbers DEF NoTask
<1> DEFINE p(i) == Pointee(S, N[r], i)
<1>10. \A i \in TaskIds : p(i) \in TaskIds \cup {NoTask}
  BY <1>6, <1>7
<1>11. \A i, t \in TaskIds : <<r, i, t>> \in d.taskRequest <=> p(i) = t
  BY <1>2, <1>7
<1>12. \A y \in d.taskRequest : y[2] \in TaskIds /\ y[3] \in TaskIds /\ y = <<y[1], y[2], y[3]>>
  <2>1. d.taskRequest \in SUBSET (Rids \X TaskIds \X TaskIds)
    BY DEF DbOK, Databases
  <2> QED BY <2>1
<1>13. Pointees(S, N[r]) = TidsOfRequest(d, r)
  <2>1. Pointees(S, N[r]) = {p(i) : i \in TaskIds} \ {NoTask}
    BY DEF Pointees
  <2> HIDE DEF p
  <2>2. ASSUME NEW t \in TidsOfRequest(d, r) PROVE t \in Pointees(S, N[r])
    <3>1. PICK y \in d.taskRequest : y[1] = r /\ y[3] = t
      BY DEF TidsOfRequest
    <3>2. <<r, y[2], t>> \in d.taskRequest /\ y[2] \in TaskIds /\ t \in TaskIds
      BY <1>12, <3>1
    <3>3. p(y[2]) = t
      BY <1>11, <3>2
    <3> QED BY <1>9, <2>1, <3>2, <3>3
  <2>3. ASSUME NEW i \in TaskIds, p(i) # NoTask PROVE p(i) \in TidsOfRequest(d, r)
    <3>1. <<r, i, p(i)>> \in d.taskRequest
      BY <1>10, <1>11, <2>3
    <3> QED BY <3>1 DEF TidsOfRequest
  <2> QED BY <2>1, <2>2, <2>3
<1>14. ASSUME NEW i \in TaskIds PROVE TidsOf(d, {<<r, i>>}) = {p(i)} \ {NoTask}
  <2>1. p(i) \in TaskIds \cup {NoTask} /\ \A t \in TaskIds : <<r, i, t>> \in d.taskRequest <=> p(i) = t
    BY <1>10, <1>11
  <2> HIDE DEF p
  <2>2. ASSUME NEW t \in TidsOf(d, {<<r, i>>}) PROVE t \in {p(i)} \ {NoTask}
    <3>1. PICK y \in d.taskRequest : y[1] = r /\ y[2] = i /\ y[3] = t
      BY DEF TidsOf
    <3>2. <<r, i, t>> \in d.taskRequest /\ t \in TaskIds
      BY <1>12, <3>1
    <3> QED BY <1>9, <2>1, <3>2
  <2>3. ASSUME p(i) # NoTask PROVE p(i) \in TidsOf(d, {<<r, i>>})
    <3>1. <<r, i, p(i)>> \in d.taskRequest
      BY <2>1, <2>3
    <3> QED BY <3>1 DEF TidsOf
  <2> QED BY <2>2, <2>3
<1> QED BY <1>1, <1>7, <1>8, <1>11, <1>13, <1>14 DEF p

\* A request of an instance that is over leads nowhere.
LEMMA NoPointers ==
  ASSUME NEW d, NEW S, NEW N, Twin(d, S, N), NEW r \in Rids,
         d.request[r] \in AppIds, ~ S[d.request[r]].live
  PROVE  /\ \A i : Pointee(S, N[r], i) = NoTask
         /\ N[r][1] \in AppIds
<1>1. N[r][1] \in AppIds /\ (N[r][2] = 0 \/ N[r][1] = d.request[r])
  BY DEF Twin, NamesOK
<1>2. S[N[r][1]].requests \in Seq(Lists)
  BY <1>1 DEF Twin, SimDatabases, Instances
<1>3. 0 \notin DOMAIN S[N[r][1]].requests
  BY <1>2
<1>4. ~ FindRequest(S, N[r])
  BY <1>1, <1>3 DEF FindRequest
<1> QED BY <1>1, <1>4 DEF Pointee

\* The tasks of a live instance are in the same states in both.
LEMMA StatesAre ==
  ASSUME NEW d, NEW S, NEW N, Twin(d, S, N), NEW a \in AppIds, S[a].live, NEW Q
  PROVE  SimInState(S, a, Q) = InState(d, a, Q)
BY DEF Twin, Paired, SameTasks, SimInState, InState

-----------------------------------------------------------------------------
(* Method by method.                                                       *)

\* A method that makes no request: the tasks that T pairs with a request leave it
\* in both databases.
Moves(d, e, S, Z, N, T) ==
  /\ e.request = d.request /\ e.lastRid = d.lastRid
  /\ e.taskRequest = {x \in d.taskRequest : <<x[1], x[3]>> \notin T}
  /\ \A a \in AppIds : Created(d, a) => Created(e, a)
  /\ \A a \in AppIds : Z[a].live =>
       /\ S[a].live /\ DOMAIN Z[a].requests = DOMAIN S[a].requests
       /\ SameTasks(e, Z[a], a)
       /\ \A r \in Rids : d.request[r] = a => \A i, t \in TaskIds :
            Leads(Z[a], N[r][2], i) = t <=> Leads(S[a], N[r][2], i) = t /\ <<r, t>> \notin T

LEMMA MovesTwins ==
  ASSUME NEW d \in Databases, NEW e, NEW S, NEW Z \in SimDatabases, NEW N, Twin(d, S, N), NEW T,
         Moves(d, e, S, Z, N, T)
  PROVE  Twin(e, Z, N)
<1>0. /\ e.request = d.request /\ e.lastRid = d.lastRid
      /\ e.taskRequest = {x \in d.taskRequest : <<x[1], x[3]>> \notin T}
      /\ \A a \in AppIds : Created(d, a) => Created(e, a)
      /\ \A a \in AppIds : Z[a].live =>
           /\ S[a].live /\ DOMAIN Z[a].requests = DOMAIN S[a].requests
           /\ SameTasks(e, Z[a], a)
           /\ \A r \in Rids : d.request[r] = a => \A i, t \in TaskIds :
                Leads(Z[a], N[r][2], i) = t <=> Leads(S[a], N[r][2], i) = t /\ <<r, t>> \notin T
  BY DEF Moves
<1>1. Made(e)
  <2>1. \A r \in Rids : d.request[r] \in AppIds \cup {NoApp}
    BY DEF Databases
  <2> QED BY <1>0, <2>1 DEF Twin, Made
<1>2. NamesOK(e, N)
  BY <1>0 DEF Twin, NamesOK
<1>3. ASSUME NEW a \in AppIds, Z[a].live PROVE Paired(e, Z[a], N, a)
  <2>1. S[a].live /\ DOMAIN Z[a].requests = DOMAIN S[a].requests /\ SameTasks(e, Z[a], a)
    BY <1>0, <1>3
  <2>2. Created(d, a) /\ SameRequests(d, S[a], N, a)
    BY <2>1 DEF Twin, Paired
  <2>3. Created(e, a)
    BY <1>0, <2>2
  <2>4. ASSUME NEW r \in Rids, e.request[r] = a
        PROVE  /\ N[r][1] = a /\ N[r][2] \in DOMAIN Z[a].requests
               /\ \A i, t \in TaskIds : <<r, i, t>> \in e.taskRequest <=> Leads(Z[a], N[r][2], i) = t
    <3>1. d.request[r] = a
      BY <1>0, <2>4
    <3>2. /\ N[r][1] = a /\ N[r][2] \in DOMAIN S[a].requests
          /\ \A i, t \in TaskIds : <<r, i, t>> \in d.taskRequest <=> Leads(S[a], N[r][2], i) = t
      BY <2>2, <3>1 DEF SameRequests
    <3>3. ASSUME NEW i \in TaskIds, NEW t \in TaskIds
          PROVE  <<r, i, t>> \in e.taskRequest <=> Leads(Z[a], N[r][2], i) = t
      <4>1. Leads(Z[a], N[r][2], i) = t <=> Leads(S[a], N[r][2], i) = t /\ <<r, t>> \notin T
        BY <1>0, <1>3, <3>1
      <4>2. <<r, i, t>> \in e.taskRequest <=> <<r, i, t>> \in d.taskRequest /\ <<r, t>> \notin T
        BY <1>0
      <4> QED BY <3>2, <4>1, <4>2
    <3> QED BY <2>1, <3>2, <3>3
  <2>5. \A r, q \in Rids : e.request[r] = a /\ e.request[q] = a /\ N[r][2] = N[q][2] => r = q
    BY <1>0, <2>2 DEF SameRequests
  <2> QED BY <2>1, <2>3, <2>4, <2>5 DEF Paired, SameRequests
<1> QED BY <1>1, <1>2, <1>3 DEF Twin

\* Instances may be erased.
LEMMA ErasesTwins ==
  ASSUME NEW d, NEW S, NEW N, Twin(d, S, N), NEW Z,
         Z = [a \in AppIds |-> Z[a]], \A a \in AppIds : Z[a] \in {S[a], NoInstance}
  PROVE  Twin(d, Z, N)
<1>1. NoInstance \in Instances /\ ~ NoInstance.live
  <2>1. NoRow \in TaskRow
    BY DEF NoRow, TaskRow, TaskStates
  <2>2. <<>> \in Seq(Lists)
    OBVIOUS
  <2> QED BY <2>1, <2>2 DEF NoInstance, Instances
<1>2. Z \in SimDatabases
  BY <1>1 DEF Twin, SimDatabases
<1> QED BY <1>1, <1>2 DEF Twin

\* The program's tasks and requests may be given otherwise.
LEMMA SameTwins ==
  ASSUME NEW d \in Databases, NEW e, NEW S, NEW N, Twin(d, S, N),
         e.request = d.request, e.lastRid = d.lastRid, e.taskRequest = d.taskRequest,
         \A a \in AppIds : \A t \in TaskIds : e.task[a][t] = d.task[a][t]
  PROVE  Twin(e, S, N)
<1>1. \A a \in AppIds : Created(e, a) <=> Created(d, a)
  BY DEF Created, InState
<1>2. \A a \in AppIds : SameTasks(d, S[a], a) => SameTasks(e, S[a], a)
  BY DEF SameTasks
<1>3. Made(e) /\ NamesOK(e, N)
  <2>1. \A r \in Rids : d.request[r] \in AppIds \cup {NoApp}
    BY DEF Databases
  <2> QED BY <1>1, <2>1 DEF Twin, Made, NamesOK
<1> QED BY <1>1, <1>2, <1>3 DEF Twin, Paired, SameRequests

\* createAppInstance.
LEMMA CreateTwins ==
  ASSUME NEW d, DbOK(d), NEW a \in AppIds, ~ Created(d, a), NEW S, NEW N, Twin(d, S, N)
  PROVE  Twin(CreateAppInstance(d, a), SimCreateAppInstance(S, a), N)
<1> DEFINE e    == CreateAppInstance(d, a)
           tasks == [t \in TaskIds |-> [state |-> "READY", host |-> NoHost]]
           x    == [live |-> TRUE, tasks |-> tasks, requests |-> <<>>]
           Z    == SimCreateAppInstance(S, a)
<1>1. /\ e.request = d.request /\ e.lastRid = d.lastRid /\ e.taskRequest = d.taskRequest
      /\ \A b \in AppIds : \A t \in TaskIds :
           e.task[b][t] = IF b = a THEN [state |-> "READY", host |-> NoHost] ELSE d.task[b][t]
  BY DEF CreateAppInstance, SetTasks, DbOK, Databases
<1>2. x \in Instances
  <2>1. [state |-> "READY", host |-> NoHost] \in TaskRow
    BY DEF TaskRow, TaskStates
  <2>2. tasks \in [TaskIds -> TaskRow]
    BY <2>1
  <2>3. <<>> \in Seq(Lists)
    OBVIOUS
  <2> HIDE DEF tasks
  <2> QED BY <2>2, <2>3 DEF Instances
<1>3. S \in [AppIds -> Instances]
  BY DEF Twin, SimDatabases
<1> HIDE DEF x
<1>4. Z = [S EXCEPT ![a] = x]
  BY DEF SimCreateAppInstance, x
<1> HIDE DEF Z, e
<1>5. Z \in SimDatabases /\ Z[a] = x /\ \A b \in AppIds \ {a} : Z[b] = S[b]
  BY <1>2, <1>3, <1>4 DEF SimDatabases
<1>6. \A r \in Rids : d.request[r] # a
  <2>1. a # NoApp
    BY Numbers DEF NoApp
  <2> QED BY <2>1 DEF Twin, Made
<1>7. Created(e, a) /\ \A b \in AppIds \ {a} : Created(e, b) <=> Created(d, b)
  BY <1>1 DEF Created, InState
<1>8. Made(e) /\ NamesOK(e, N)
  <2>1. \A r \in Rids : d.request[r] \in AppIds \cup {NoApp}
    BY DEF DbOK, Databases
  <2> QED BY <1>1, <1>6, <1>7, <2>1 DEF Twin, Made, NamesOK
<1>9. Paired(e, Z[a], N, a)
  <2>1. \A t \in TaskIds : x.tasks[t].state = "READY"
    BY DEF x
  <2>2. SameTasks(e, x, a)
    BY <1>1, <2>1 DEF SameTasks
  <2>3. SameRequests(e, x, N, a)
    BY <1>1, <1>6 DEF SameRequests
  <2> QED BY <1>5, <1>7, <2>2, <2>3 DEF Paired
<1>10. ASSUME NEW b \in AppIds \ {a}, Z[b].live PROVE Paired(e, Z[b], N, b)
  <2>1. Paired(d, S[b], N, b) /\ Z[b] = S[b]
    BY <1>5, <1>10 DEF Twin
  <2>2. SameTasks(e, S[b], b)
    BY <1>1, <2>1 DEF Paired, SameTasks
  <2>3. SameRequests(e, S[b], N, b)
    BY <1>1, <2>1 DEF Paired, SameRequests
  <2> QED BY <1>7, <2>1, <2>2, <2>3 DEF Paired
<1> QED BY <1>5, <1>8, <1>9, <1>10 DEF Twin, Z, e

\* The rows and the requests that startSearch and createRequest leave.
LEMMA RequestsMade ==
  ASSUME NEW d, DbOK(d), NEW A \in SUBSET AppIds, d.lastRid + MaxApps <= MaxRequests, Made(d)
  PROVE  LET e   == Searching(d, A)
             rid == RidsOf(d, A)
         IN  /\ \A r \in Rids : e.request[r] \in AppIds =>
                  \/ r <= d.lastRid /\ e.request[r] = d.request[r]
                  \/ d.lastRid < r /\ e.request[r] \in A /\ r = rid[e.request[r]]
             /\ \A r \in Rids : r <= d.lastRid => e.request[r] = d.request[r]
             /\ \A r \in Rids : r <= d.lastRid => \A i, t \in TaskIds :
                  <<r, i, t>> \in e.taskRequest <=> <<r, i, t>> \in d.taskRequest
             /\ \A a \in A : /\ rid[a] \in Rids /\ d.lastRid < rid[a] /\ rid[a] <= e.lastRid
                             /\ e.request[rid[a]] = a
             /\ \A a \in A : \A i, t \in TaskIds : <<rid[a], i, t>> \in e.taskRequest
                  <=> t \in Ready(d, a) /\ i = Rank(Ready(d, a), t)
             /\ d.taskRequest \subseteq e.taskRequest /\ d.lastRid <= e.lastRid
             /\ e \in Databases
<1> DEFINE b    == Asked(d, A)
           e    == Searching(d, A)
           rid  == RidsOf(d, A)
           R(a) == Ready(d, a)
           C(a, t) == Rank(Ready(d, a), t)
<1>1. /\ b \in Databases /\ b.lastRid = d.lastRid + Cardinality(A)
      /\ \A a \in A : b.request[rid[a]] = a
      /\ \A r \in Rids : r <= d.lastRid => b.request[r] = d.request[r]
      /\ \A x \in d.taskRequest : x[1] <= d.lastRid
      /\ d.taskRequest \subseteq b.taskRequest
      /\ \A a \in A : TidsOfRequest(b, rid[a]) = R(a)
  BY AskedRows
<1>0. \A x \in b.taskRequest \ d.taskRequest :
        \E a \in A : /\ x[1] = rid[a] /\ x[3] \in R(a) /\ x[2] = C(a, x[3])
  BY ONLY DbOK(d), A \in SUBSET AppIds, d.lastRid + MaxApps <= MaxRequests, AskedRows
     DEF Rank
<1>2. /\ e \in Databases /\ e.request = b.request /\ e.lastRid = b.lastRid
      /\ e.taskRequest = b.taskRequest
  BY SearchingRows
<1>3. /\ \A a \in A : rid[a] \in Rids /\ d.lastRid < rid[a] /\ rid[a] <= d.lastRid + Cardinality(A)
      /\ \A a, c \in A : rid[a] = rid[c] => a = c
      /\ d.lastRid \in Nat /\ Cardinality(A) \in Nat
  BY RidsAreNew DEF DbOK
<1>4. \A r \in Rids : b.request[r] = d.request[r] \/ \E a \in A : rid[a] = r
  BY DEF Asked, RequestFromReadyTasks, DbOK, Databases
<1>5. \A r \in Rids : d.request[r] \in AppIds => r <= d.lastRid
  <2>1. NoApp \notin AppIds
    BY Numbers DEF NoApp
  <2> QED BY <2>1 DEF Made
<1>6. \A x \in b.taskRequest : x[1] \in Rids /\ x[2] \in TaskIds /\ x[3] \in TaskIds
                             /\ x = <<x[1], x[2], x[3]>>
  <2>1. b.taskRequest \in SUBSET (Rids \X TaskIds \X TaskIds)
    BY <1>1 DEF Databases
  <2> QED BY <2>1
<1> HIDE DEF b, e, rid, R, C
<1>7. \A r \in Rids : e.request[r] \in AppIds =>
        \/ r <= d.lastRid /\ e.request[r] = d.request[r]
        \/ d.lastRid < r /\ e.request[r] \in A /\ r = rid[e.request[r]]
  BY <1>1, <1>2, <1>3, <1>4, <1>5
<1>8. ASSUME NEW r \in Rids, r <= d.lastRid, NEW i \in TaskIds, NEW t \in TaskIds
      PROVE  <<r, i, t>> \in e.taskRequest <=> <<r, i, t>> \in d.taskRequest
  <2>1. ASSUME <<r, i, t>> \in b.taskRequest \ d.taskRequest PROVE FALSE
    <3>1. PICK a \in A : r = rid[a]
      BY <1>0, <2>1
    <3> QED BY <1>3, <1>8, <3>1, Numbers
  <2> QED BY <1>1, <1>2, <2>1
<1>9. ASSUME NEW a \in A, NEW i \in TaskIds, NEW t \in TaskIds
      PROVE  <<rid[a], i, t>> \in e.taskRequest <=> t \in R(a) /\ i = C(a, t)
  <2>1. ASSUME NEW x \in b.taskRequest, x[1] = rid[a]
        PROVE  x[3] \in R(a) /\ x[2] = C(a, x[3])
    <3>1. x \notin d.taskRequest
      <4>1. rid[a] \in Nat /\ d.lastRid \in Nat /\ d.lastRid < rid[a]
        BY <1>3, Numbers
      <4>2. \A z \in d.taskRequest : z[1] <= d.lastRid
        BY <1>1
      <4> QED BY ONLY <2>1, <4>1, <4>2
    <3>2. PICK c \in A : x[1] = rid[c] /\ x[3] \in R(c) /\ x[2] = C(c, x[3])
      BY <1>0, <3>1
    <3>3. c = a
      BY <1>3, <2>1, <3>2
    <3> QED BY <3>2, <3>3
  <2>2. ASSUME t \in R(a), i = C(a, t) PROVE <<rid[a], i, t>> \in b.taskRequest
    <3>1. PICK x \in b.taskRequest : x[1] = rid[a] /\ x[3] = t
      BY <1>1, <2>2 DEF TidsOfRequest
    <3>2. x[2] = i
      BY <2>1, <2>2, <3>1
    <3> QED BY <1>6, <3>1, <3>2
  <2>3. ASSUME <<rid[a], i, t>> \in b.taskRequest PROVE t \in R(a) /\ i = C(a, t)
    BY <2>1, <2>3
  <2> QED BY <1>2, <2>2, <2>3
<1>10. d.lastRid <= e.lastRid
  BY <1>1, <1>2, <1>3
<1> QED BY <1>1, <1>2, <1>3, <1>7, <1>8, <1>9, <1>10 DEF e, rid, R, C

\* A request is made for each of the instances A, and M names the new ones.
Asks(d, A, S, Z, N, M) ==
  /\ M = [r \in Rids |-> M[r]]
  /\ \A r \in Rids : IF r <= d.lastRid \/ Searching(d, A).lastRid < r THEN M[r] = N[r]
       ELSE Searching(d, A).request[r] \in AppIds =>
              M[r][1] \in AppIds /\ (M[r][2] = 0 \/ M[r][1] = Searching(d, A).request[r])
  /\ \A a \in AppIds : Z[a].live =>
       /\ S[a].live
       /\ \A k \in DOMAIN S[a].requests :
            k \in DOMAIN Z[a].requests /\ Z[a].requests[k] = S[a].requests[k]
       /\ \A t \in TaskIds :
            /\ Z[a].tasks[t].state = IF a \in A /\ t \in Ready(d, a) THEN "SEARCHING"
                                     ELSE S[a].tasks[t].state
            /\ Z[a].tasks[t].host = S[a].tasks[t].host
       /\ a \in A => LET q == M[RidsOf(d, A)[a]]
                     IN  /\ q[1] = a /\ q[2] \in DOMAIN Z[a].requests \ DOMAIN S[a].requests
                         /\ Z[a].requests[q[2]] = ReadyTasks(S, a)

\* sendRequest of some instances.
LEMMA SearchingTwins ==
  ASSUME NEW d, DbOK(d), NEW A \in SUBSET AppIds, d.lastRid + MaxApps <= MaxRequests,
         \A a \in A : Ready(d, a) # {}, NEW S, NEW N, Twin(d, S, N),
         NEW Z \in SimDatabases, NEW M, Asks(d, A, S, Z, N, M)
  PROVE  Twin(Searching(d, A), Z, M)
<1> DEFINE e   == Searching(d, A)
           rid == RidsOf(d, A)
<1>1. Made(d) /\ NamesOK(d, N) /\ S \in SimDatabases
  BY DEF Twin
<1>2. /\ \A r \in Rids : e.request[r] \in AppIds =>
           \/ r <= d.lastRid /\ e.request[r] = d.request[r]
           \/ d.lastRid < r /\ e.request[r] \in A /\ r = rid[e.request[r]]
      /\ \A r \in Rids : r <= d.lastRid => e.request[r] = d.request[r]
      /\ \A r \in Rids : r <= d.lastRid => \A i, t \in TaskIds :
           <<r, i, t>> \in e.taskRequest <=> <<r, i, t>> \in d.taskRequest
      /\ \A a \in A : /\ rid[a] \in Rids /\ d.lastRid < rid[a] /\ rid[a] <= e.lastRid
                      /\ e.request[rid[a]] = a
      /\ d.taskRequest \subseteq e.taskRequest /\ d.lastRid <= e.lastRid /\ e \in Databases
  BY <1>1, RequestsMade
<1>3. \A a \in A : \A i, t \in TaskIds : <<rid[a], i, t>> \in e.taskRequest
        <=> t \in Ready(d, a) /\ i = Rank(Ready(d, a), t)
  BY <1>1, RequestsMade
<1>4. \A a \in AppIds : \A t \in TaskIds :
        IF a \in A /\ t \in Ready(d, a)
        THEN e.task[a][t] = [d.task[a][t] EXCEPT !.state = "SEARCHING"]
        ELSE e.task[a][t] = d.task[a][t]
  BY SearchingRows
<1>5. \A a \in AppIds : \A t \in TaskIds : d.task[a][t] \in TaskRow
  BY DEF DbOK, Databases
<1>6. \A a \in AppIds : \A t \in TaskIds :
        /\ e.task[a][t].state = IF a \in A /\ t \in Ready(d, a) THEN "SEARCHING"
                                ELSE d.task[a][t].state
        /\ e.task[a][t].host = d.task[a][t].host
  <2> SUFFICES ASSUME NEW a \in AppIds, NEW t \in TaskIds
               PROVE  /\ e.task[a][t].state = IF a \in A /\ t \in Ready(d, a) THEN "SEARCHING"
                                              ELSE d.task[a][t].state
                      /\ e.task[a][t].host = d.task[a][t].host
    OBVIOUS
  <2> DEFINE old == d.task[a][t]
             new == e.task[a][t]
  <2>1. old \in TaskRow
    BY <1>5
  <2>2. CASE a \in A /\ t \in Ready(d, a)
    <3>1. new = [old EXCEPT !.state = "SEARCHING"]
      BY <1>4, <2>2
    <3> HIDE DEF old, new
    <3>2. new.state = "SEARCHING" /\ new.host = old.host
      BY ONLY <2>1, <3>1 DEF TaskRow
    <3> QED BY <2>2, <3>2 DEF old, new
  <2>3. CASE ~(a \in A /\ t \in Ready(d, a))
    <3>1. new = old
      BY <1>4, <2>3
    <3> QED BY <2>3, <3>1
  <2> QED BY <2>2, <2>3
<1>7. \A a \in AppIds : Created(d, a) => Created(e, a)
  BY <1>6 DEF Created, InState
<1>8. /\ \A r \in Rids : d.request[r] \in AppIds \cup {NoApp} /\ e.request[r] \in AppIds \cup {NoApp}
      /\ d.lastRid \in Int /\ e.lastRid \in Int /\ NoApp \notin AppIds
  BY <1>2, Numbers DEF DbOK, Databases, NoApp
<1> HIDE DEF e, rid
<1>9. \A a \in A : Created(d, a)
  BY DEF DbOK, Whole, Ready, InState
<1>10. Made(e)
  <2> SUFFICES ASSUME NEW r \in Rids, e.request[r] # NoApp
               PROVE  r <= e.lastRid /\ Created(e, e.request[r])
    BY DEF Made
  <2>1. e.request[r] \in AppIds
    BY <1>8
  <2>2. CASE r <= d.lastRid /\ e.request[r] = d.request[r]
    BY <1>1, <1>2, <1>7, <1>8, <2>1, <2>2, Numbers DEF Made
  <2>3. CASE e.request[r] \in A /\ r = rid[e.request[r]]
    BY <1>2, <1>7, <1>9, <2>1, <2>3
  <2> QED BY <1>2, <2>1, <2>2, <2>3
<1>11. /\ M = [r \in Rids |-> M[r]]
       /\ \A r \in Rids : IF r <= d.lastRid \/ e.lastRid < r THEN M[r] = N[r]
            ELSE e.request[r] \in AppIds =>
                   M[r][1] \in AppIds /\ (M[r][2] = 0 \/ M[r][1] = e.request[r])
  BY DEF Asks, e
<1>12. NamesOK(e, M)
  <2>1. ASSUME NEW r \in Rids, r > e.lastRid PROVE M[r] = <<1, 0>>
    BY <1>1, <1>2, <1>8, <1>11, <2>1, Numbers DEF NamesOK
  <2>2. ASSUME NEW r \in Rids, e.request[r] \in AppIds
        PROVE  M[r][1] \in AppIds /\ (M[r][2] = 0 \/ M[r][1] = e.request[r])
    <3>1. CASE r <= d.lastRid
      BY <1>1, <1>2, <1>11, <2>2, <3>1 DEF NamesOK
    <3>2. CASE r > e.lastRid
      BY <1>10, <1>8, <2>2, <3>2, Numbers DEF Made
    <3> QED BY <1>8, <1>11, <2>2, <3>1, <3>2, Numbers
  <2> QED BY <1>11, <2>1, <2>2 DEF NamesOK
<1>13. ASSUME NEW a \in AppIds, Z[a].live PROVE Paired(e, Z[a], M, a)
  <2> DEFINE x == S[a]
             y == Z[a]
  <2>1. /\ S[a].live
        /\ \A k \in DOMAIN x.requests : k \in DOMAIN y.requests /\ y.requests[k] = x.requests[k]
        /\ \A t \in TaskIds :
             /\ y.tasks[t].state = IF a \in A /\ t \in Ready(d, a) THEN "SEARCHING"
                                   ELSE x.tasks[t].state
             /\ y.tasks[t].host = x.tasks[t].host
        /\ a \in A => /\ M[rid[a]][1] = a
                      /\ M[rid[a]][2] \in DOMAIN y.requests \ DOMAIN x.requests
                      /\ y.requests[M[rid[a]][2]] = ReadyTasks(S, a)
    BY <1>13 DEF Asks, rid
  <2>2. Created(d, a) /\ SameTasks(d, x, a) /\ SameRequests(d, x, N, a)
    BY <2>1 DEF Twin, Paired
  <2> HIDE DEF x, y
  <2>3. SameTasks(e, y, a)
    <3> SUFFICES ASSUME NEW t \in TaskIds
                 PROVE  /\ y.tasks[t].state = e.task[a][t].state
                        /\ e.task[a][t].state = "EXECUTING" =>
                             /\ y.tasks[t].host = e.task[a][t].host
                             /\ \E z \in e.taskRequest : e.request[z[1]] = a /\ z[3] = t
      BY DEF SameTasks
    <3>1. y.tasks[t].state = e.task[a][t].state
      BY <1>6, <2>1, <2>2 DEF SameTasks
    <3>2. ASSUME e.task[a][t].state = "EXECUTING"
          PROVE  /\ y.tasks[t].host = e.task[a][t].host
                 /\ \E z \in e.taskRequest : e.request[z[1]] = a /\ z[3] = t
      <4>1. d.task[a][t].state = "EXECUTING"
        BY <1>6, <3>2
      <4>2. y.tasks[t].host = e.task[a][t].host
        BY <1>6, <2>1, <2>2, <4>1 DEF SameTasks
      <4>3. PICK z \in d.taskRequest : d.request[z[1]] = a /\ z[3] = t
        BY <2>2, <4>1 DEF SameTasks
      <4>4. z[1] \in Rids /\ z[1] <= d.lastRid
        BY RowTypes
      <4> QED BY <1>2, <4>2, <4>3, <4>4
    <3> QED BY <3>1, <3>2
  <2>4. ASSUME NEW r \in Rids, e.request[r] = a
        PROVE  /\ M[r][1] = a /\ M[r][2] \in DOMAIN y.requests
               /\ \A i, t \in TaskIds : <<r, i, t>> \in e.taskRequest <=> Leads(y, M[r][2], i) = t
               /\ IF r <= d.lastRid
                  THEN d.request[r] = a /\ M[r] = N[r] /\ M[r][2] \in DOMAIN x.requests
                  ELSE a \in A /\ r = rid[a] /\ M[r][2] \notin DOMAIN x.requests
    <3>1. CASE r <= d.lastRid
      <4>1. d.request[r] = a /\ M[r] = N[r]
        BY <1>2, <1>11, <2>4, <3>1
      <4>2. /\ N[r][1] = a /\ N[r][2] \in DOMAIN x.requests
            /\ \A i, t \in TaskIds : <<r, i, t>> \in d.taskRequest <=> Leads(x, N[r][2], i) = t
        BY <2>2, <4>1 DEF SameRequests
      <4>3. \A i : Leads(y, N[r][2], i) = Leads(x, N[r][2], i)
        BY <2>1, <4>2 DEF Leads
      <4>4. \A i, t \in TaskIds : <<r, i, t>> \in e.taskRequest <=> <<r, i, t>> \in d.taskRequest
        BY <1>2, <3>1
      <4> QED BY <2>1, <3>1, <4>1, <4>2, <4>3, <4>4
    <3>2. CASE ~(r <= d.lastRid)
      <4>1. a \in A /\ r = rid[a]
        BY <1>2, <2>4, <3>2
      <4> DEFINE R == Ready(d, a)
                 Q == ReadyTasks(S, a)
                 k == M[r][2]
      <4>2. R = {t \in TaskIds : S[a].tasks[t].state = "READY"}
        BY <2>2 DEF Ready, InState, SameTasks, x
      <4> HIDE DEF R
      <4>3. \A i, t \in TaskIds : i \in DOMAIN Q /\ Q[i] = t
                                    <=> t \in R /\ Rank(R, t) = i
        <5>1. S \in SimDatabases /\ a \in AppIds
          BY <1>1
        <5> HIDE DEF Q
        <5>2. Q = ReadyTasks(S, a)
          BY DEF Q
        <5>3. AreListed(ReadyTasks(S, a), R)
          BY ONLY <4>2, <5>1, ReadyTasksAre
        <5> QED BY ONLY <5>2, <5>3 DEF AreListed
      <4>4. \A i, t \in TaskIds : <<r, i, t>> \in e.taskRequest
                                    <=> t \in R /\ i = Rank(R, t)
        BY <1>3, <4>1 DEF R
      <4>5. M[r][1] = a /\ k \in DOMAIN y.requests /\ y.requests[k] = Q /\ k \notin DOMAIN x.requests
        BY <2>1, <4>1
      <4>6. NoTask \notin TaskIds
        BY Numbers DEF NoTask
      <4> HIDE DEF Q, k
      <4>7. \A i, t \in TaskIds : Leads(y, k, i) = t <=> i \in DOMAIN Q /\ Q[i] = t
        BY <4>5, <4>6 DEF Leads
      <4>8. \A i, t \in TaskIds : <<r, i, t>> \in e.taskRequest <=> Leads(y, k, i) = t
        BY <4>3, <4>4, <4>7
      <4> QED BY <3>2, <4>1, <4>5, <4>8 DEF k
    <3> QED BY <3>1, <3>2
  <2>5. ASSUME NEW r \in Rids, NEW q \in Rids, e.request[r] = a, e.request[q] = a,
               M[r][2] = M[q][2]
        PROVE  r = q
    <3>1. r <= d.lastRid <=> q <= d.lastRid
      BY <2>4, <2>5
    <3>2. CASE r <= d.lastRid
      BY <2>2, <2>4, <2>5, <3>1, <3>2 DEF SameRequests
    <3> QED BY <2>4, <2>5, <3>1, <3>2
  <2>6. SameRequests(e, y, M, a)
    BY <2>4, <2>5 DEF SameRequests
  <2> QED BY <1>7, <2>2, <2>3, <2>6 DEF Paired, y
<1> QED BY <1>10, <1>12, <1>13 DEF Twin, e

\* A pointer that becomes NULL leaves a list a list.
LEMMA ListsForget ==
  ASSUME NEW l \in Lists, NEW T
  PROVE  [i \in DOMAIN l |-> IF l[i] \in T THEN NoTask ELSE l[i]] \in Lists
<1>1. PICK D \in SUBSET TaskIds : l \in [D -> TaskIds \cup {NoTask}]
  BY DEF Lists
<1>2. [i \in DOMAIN l |-> IF l[i] \in T THEN NoTask ELSE l[i]] \in [D -> TaskIds \cup {NoTask}]
  BY <1>1
<1> QED BY <1>2 DEF Lists

\* Tasks of an instance of the simulator change their state.
LEMMA SimSetStateIs ==
  ASSUME NEW S \in SimDatabases, NEW a \in AppIds, NEW T, NEW s \in TaskStates
  PROVE  LET Z == SimSetState(S, a, T, s)
         IN  /\ Z \in SimDatabases /\ \A b \in AppIds \ {a} : Z[b] = S[b]
             /\ Z[a].live = S[a].live /\ Z[a].requests = S[a].requests
             /\ \A t \in TaskIds :
                  /\ Z[a].tasks[t].state = IF t \in T THEN s ELSE S[a].tasks[t].state
                  /\ Z[a].tasks[t].host = S[a].tasks[t].host
<1> DEFINE x     == S[a]
           tasks == [t \in TaskIds |-> IF t \in T THEN [x.tasks[t] EXCEPT !.state = s]
                                       ELSE x.tasks[t]]
           y     == [x EXCEPT !.tasks = tasks]
           Z     == SimSetState(S, a, T, s)
<1>1. x \in Instances
  BY DEF SimDatabases
<1>2. \A t \in TaskIds : x.tasks[t] \in TaskRow
  BY <1>1 DEF Instances
<1>3. tasks \in [TaskIds -> TaskRow]
      /\ \A t \in TaskIds : /\ tasks[t].state = IF t \in T THEN s ELSE x.tasks[t].state
                            /\ tasks[t].host = x.tasks[t].host
  BY <1>2 DEF TaskRow
<1>4. Z = [S EXCEPT ![a] = y]
  BY DEF SimSetState
<1> HIDE DEF tasks
<1>5. y \in Instances /\ y.live = x.live /\ y.requests = x.requests /\ y.tasks = tasks
  BY <1>1, <1>3 DEF Instances
<1> HIDE DEF y, Z
<1>6. Z \in SimDatabases /\ Z[a] = y /\ \A b \in AppIds \ {a} : Z[b] = S[b]
  BY <1>4, <1>5 DEF SimDatabases
<1> QED BY <1>3, <1>5, <1>6 DEF Z

\* A request of the simulator loses its pointers to some tasks.
Forgets(S, Z, a, n, T) ==
  /\ Z \in SimDatabases /\ \A b \in AppIds \ {a} : Z[b] = S[b]
  /\ Z[a].live = S[a].live /\ Z[a].tasks = S[a].tasks
  /\ DOMAIN Z[a].requests = DOMAIN S[a].requests
  /\ \A k, i : \A t \in TaskIds :
       Leads(Z[a], k, i) = t <=> Leads(S[a], k, i) = t /\ ~(k = n /\ t \in T)

LEMMA SimForgetIs ==
  ASSUME NEW S \in SimDatabases, NEW q, NEW a \in AppIds, q[1] = a, FindRequest(S, q), NEW T,
         NEW Z, Z = SimForget(S, q, T)
  PROVE  Forgets(S, Z, a, q[2], T)
<1> DEFINE n   == q[2]
           x   == S[a]
           rs  == x.requests
           l   == rs[n]
           new == [i \in DOMAIN l |-> IF l[i] \in T THEN NoTask ELSE l[i]]
           ns  == [rs EXCEPT ![n] = new]
           y   == [x EXCEPT !.requests = ns]
<1>1. a \in AppIds /\ x \in Instances /\ n \in DOMAIN rs
  BY DEF SimDatabases, FindRequest
<1>2. rs \in Seq(Lists)
  BY <1>1 DEF Instances
<1>3. l \in Lists
  BY <1>1, <1>2
<1>4. Z = [S EXCEPT ![a] = y]
  BY DEF SimForget
<1>5. new \in Lists
  BY <1>3, ListsForget
<1>6. \A i : \A t \in TaskIds : i \in DOMAIN new /\ new[i] = t <=> i \in DOMAIN l /\ l[i] = t /\ t \notin T
  BY Numbers DEF NoTask
<1> HIDE DEF new, l, n, x
<1>7. ns \in Seq(Lists) /\ DOMAIN ns = DOMAIN rs /\ ns[n] = new
      /\ \A k \in DOMAIN rs : k # n => ns[k] = rs[k]
  BY <1>1, <1>2, <1>5
<1> HIDE DEF ns
<1>8. y \in Instances /\ y.live = x.live /\ y.requests = ns /\ y.tasks = x.tasks
  BY <1>1, <1>7 DEF Instances
<1> HIDE DEF y
<1>9. Z \in SimDatabases /\ Z[a] = y /\ \A b \in AppIds \ {a} : Z[b] = S[b]
  BY <1>1, <1>4, <1>8 DEF SimDatabases, x
<1> HIDE DEF rs
<1>10. x.requests = rs /\ rs[n] = l /\ NoTask \notin TaskIds
  BY Numbers DEF rs, l, NoTask
<1>11. ASSUME NEW k, NEW i, NEW t \in TaskIds
       PROVE  Leads(y, k, i) = t <=> Leads(x, k, i) = t /\ ~(k = n /\ t \in T)
  <2>1. Leads(y, k, i) = t <=> k \in DOMAIN ns /\ i \in DOMAIN ns[k] /\ ns[k][i] = t
    BY <1>8, <1>10 DEF Leads
  <2>2. Leads(x, k, i) = t <=> k \in DOMAIN rs /\ i \in DOMAIN rs[k] /\ rs[k][i] = t
    BY <1>10 DEF Leads
  <2>3. CASE k = n
    BY <1>1, <1>6, <1>7, <1>10, <2>1, <2>2, <2>3
  <2>4. CASE k # n
    BY <1>7, <2>1, <2>2, <2>4
  <2> QED BY <2>3, <2>4
<1> QED BY <1>7, <1>8, <1>9, <1>10, <1>11 DEF n, x, Forgets

\* cancelSearch returns the same and keeps the twins.
LEMMA CancelTwins ==
  ASSUME NEW d, DbOK(d), NEW r \in Rids, Named(d, r), NEW S, NEW N, Twin(d, S, N)
  PROVE  /\ S[d.request[r]].live =>
              /\ SimCancelled(S, N[r]) = Cancelled(d, r)
              /\ SimCancelSearch(S, N[r])[d.request[r]].live
              /\ Twin(CancelSearch(d, r), SimCancelSearch(S, N[r]), N)
         /\ ~ S[d.request[r]].live => Twin(CancelSearch(d, r), S, N)
<1> DEFINE a == d.request[r]
           C == Cancelled(d, r)
           e == CancelSearch(d, r)
           T == {r} \X C
<1>1. a \in AppIds /\ d \in Databases /\ S \in SimDatabases
  BY DEF Named, DbOK, Twin
<1>2. /\ e.request = d.request /\ e.lastRid = d.lastRid
      /\ e.taskRequest = {x \in d.taskRequest : ~(x[1] = r /\ e.task[a][x[3]].state = "READY")}
      /\ \A b \in AppIds : \A t \in TaskIds :
           /\ e.task[b][t].state = IF b = a /\ t \in C THEN "READY" ELSE d.task[b][t].state
           /\ e.task[b][t].host = d.task[b][t].host
      /\ \A t \in TaskIds : t \in C <=> /\ t \in TidsOfRequest(d, r)
                                       /\ d.task[a][t].state = "SEARCHING"
  BY CancelSearchRows DEF GetInstanceId
<1>3. \A x \in d.taskRequest : /\ x[1] \in Rids /\ x[3] \in TaskIds
                             /\ d.task[d.request[x[1]]][x[3]].state # "READY"
  <2> SUFFICES ASSUME NEW x \in d.taskRequest
               PROVE  /\ x[1] \in Rids /\ x[3] \in TaskIds
                      /\ d.task[d.request[x[1]]][x[3]].state # "READY"
    OBVIOUS
  <2>1. x[1] \in Rids /\ x[3] \in TaskIds
    BY RowTypes
  <2>2. ReadyTasksAreFree(d)
    BY DEF DbOK, ConsistentRequests
  <2>3. d.task[d.request[x[1]]][x[3]].state # "READY"
    <3> DEFINE s == d.task[d.request[x[1]]][x[3]].state
    <3>1. s \in {"SEARCHING", "EXECUTING", "FINISHED"}
      BY <2>2 DEF ReadyTasksAreFree
    <3> HIDE DEF s
    <3>2. s # "READY"
      BY ONLY <3>1
    <3> QED BY <3>2 DEF s
  <2> QED BY <2>1, <2>3
<1>4. C = TidsOfRequest(d, r) \cap InState(d, a, {"SEARCHING"}) /\ C \in SUBSET TaskIds
  BY DEF Cancelled, InState, GetInstanceId
<1> HIDE DEF C, e
<1>5. e.taskRequest = {x \in d.taskRequest : <<x[1], x[3]>> \notin T}
  <2>1. ASSUME NEW x \in d.taskRequest, x[1] = r
        PROVE  e.task[a][x[3]].state = "READY" <=> x[3] \in C
    BY <1>1, <1>2, <1>3, <2>1
  <2>2. \A x \in d.taskRequest : x[1] = r /\ e.task[a][x[3]].state = "READY" <=> <<x[1], x[3]>> \in T
    BY <2>1
  <2> HIDE DEF T
  <2> QED BY <1>2, <2>2
<1>6. \A b \in AppIds : Created(d, b) => Created(e, b)
  BY <1>2 DEF Created, InState
<1>7. ASSUME NEW b \in AppIds, SameTasks(d, S[b], b), b = a => C = {} PROVE SameTasks(e, S[b], b)
  <2> SUFFICES ASSUME NEW t \in TaskIds
               PROVE  /\ S[b].tasks[t].state = e.task[b][t].state
                      /\ e.task[b][t].state = "EXECUTING" =>
                           /\ S[b].tasks[t].host = e.task[b][t].host
                           /\ \E y \in e.taskRequest : e.request[y[1]] = b /\ y[3] = t
    BY DEF SameTasks
  <2>1. S[b].tasks[t].state = e.task[b][t].state /\ e.task[b][t] .state = d.task[b][t].state
    BY <1>2, <1>7 DEF SameTasks
  <2>2. ASSUME e.task[b][t].state = "EXECUTING"
        PROVE  /\ S[b].tasks[t].host = e.task[b][t].host
               /\ \E y \in e.taskRequest : e.request[y[1]] = b /\ y[3] = t
    <3>1. S[b].tasks[t].host = d.task[b][t].host
      BY <1>7, <2>1, <2>2 DEF SameTasks
    <3>2. PICK y \in d.taskRequest : d.request[y[1]] = b /\ y[3] = t
      BY <1>7, <2>1, <2>2 DEF SameTasks
    <3>3. <<y[1], y[3]>> \notin T
      BY <1>7, <3>2
    <3> QED BY <1>2, <1>5, <3>1, <3>2, <3>3
  <2> QED BY <2>1, <2>2
<1>8. CASE ~ S[a].live
  <2>1. \A b \in AppIds : S[b].live => b # a /\ SameTasks(d, S[b], b)
    BY <1>8 DEF Twin, Paired
  <2>2. ASSUME NEW b \in AppIds, S[b].live
        PROVE  /\ S[b].live /\ DOMAIN S[b].requests = DOMAIN S[b].requests
               /\ SameTasks(e, S[b], b)
               /\ \A p \in Rids : d.request[p] = b => \A i, t \in TaskIds :
                    Leads(S[b], N[p][2], i) = t
                      <=> Leads(S[b], N[p][2], i) = t /\ <<p, t>> \notin T
    <3>1. b # a /\ SameTasks(e, S[b], b)
      BY <1>7, <2>1, <2>2
    <3> QED BY <2>2, <3>1
  <2> HIDE DEF T
  <2>20. Moves(d, e, S, S, N, T)
    BY ONLY <1>2, <1>5, <1>6, <2>2 DEF Moves
  <2>4. Twin(e, S, N)
    BY ONLY <2>20, <1>1, Twin(d, S, N), MovesTwins
  <2> QED BY <1>8, <2>4 DEF e
<1>9. CASE S[a].live
  <2> DEFINE q == N[r]
             Z == SimCancelSearch(S, q)
  <2>1. q[1] = a /\ FindRequest(S, q) /\ Pointees(S, q) = TidsOfRequest(d, r)
    BY <1>1, <1>9, PointersAre
  <2>2. SimInState(S, a, {"SEARCHING"}) = InState(d, a, {"SEARCHING"})
    BY <1>1, <1>9, StatesAre
  <2>3. SimCancelled(S, q) = C
    BY <1>4, <2>1, <2>2 DEF SimCancelled
  <2>4. \A b \in AppIds : S[b].live => SameTasks(d, S[b], b) /\ SameRequests(d, S[b], N, b)
    BY DEF Twin, Paired
  <2>5. CASE C = {}
    <3>1. Z = S
      BY <2>3, <2>5 DEF SimCancelSearch
    <3>2. ASSUME NEW b \in AppIds, S[b].live
          PROVE  /\ S[b].live /\ DOMAIN S[b].requests = DOMAIN S[b].requests
                 /\ SameTasks(e, S[b], b)
                 /\ \A p \in Rids : d.request[p] = b => \A i, t \in TaskIds :
                      Leads(S[b], N[p][2], i) = t
                        <=> Leads(S[b], N[p][2], i) = t /\ <<p, t>> \notin T
      <4>1. SameTasks(e, S[b], b)
        BY <1>7, <2>4, <2>5, <3>2
      <4> QED BY <2>5, <3>2, <4>1
    <3> HIDE DEF T
    <3>20. Moves(d, e, S, S, N, T)
      BY ONLY <1>2, <1>5, <1>6, <3>2 DEF Moves
    <3>4. Twin(e, S, N)
      BY ONLY <3>20, <1>1, Twin(d, S, N), MovesTwins
    <3> QED BY <1>9, <2>3, <3>1, <3>4 DEF e, C
  <2>6. CASE C # {}
    <3> DEFINE Y == SimSetState(S, a, C, "READY")
    <3>1. Z = SimForget(Y, q, C)
      BY <2>1, <2>3, <2>6 DEF SimCancelSearch
    <3>2. /\ Y \in SimDatabases /\ \A b \in AppIds \ {a} : Y[b] = S[b]
          /\ Y[a].live = S[a].live /\ Y[a].requests = S[a].requests
          /\ \A t \in TaskIds : /\ Y[a].tasks[t].state = IF t \in C THEN "READY" ELSE S[a].tasks[t].state
                                /\ Y[a].tasks[t].host = S[a].tasks[t].host
      <4>1. Y = SimSetState(S, a, C, "READY") /\ "READY" \in TaskStates
        BY DEF TaskStates
      <4> HIDE DEF Y, Z, q, a
      <4> QED BY ONLY <1>1, <4>1, SimSetStateIs
    <3> HIDE DEF Y, Z, q
    <3>3. FindRequest(Y, q)
      BY <2>1, <3>2 DEF FindRequest
    <3>4. /\ Z \in SimDatabases /\ \A b \in AppIds \ {a} : Z[b] = Y[b]
          /\ Z[a].live = Y[a].live /\ Z[a].tasks = Y[a].tasks
          /\ DOMAIN Z[a].requests = DOMAIN Y[a].requests
          /\ \A k, i : \A t \in TaskIds :
               Leads(Z[a], k, i) = t <=> Leads(Y[a], k, i) = t /\ ~(k = q[2] /\ t \in C)
      <4>1. Y \in SimDatabases /\ a \in AppIds /\ q[1] = a
        BY <1>1, <2>1, <3>2
      <4> HIDE DEF a
      <4>2. Forgets(Y, Z, a, q[2], C)
        BY ONLY <3>1, <3>3, <4>1, SimForgetIs
      <4> QED BY ONLY <4>2 DEF Forgets
    <3>5. \A k, i : Leads(Y[a], k, i) = Leads(S[a], k, i)
      BY <3>2 DEF Leads
    <3>6. SameTasks(e, Z[a], a)
      <4> SUFFICES ASSUME NEW t \in TaskIds
                   PROVE  /\ Z[a].tasks[t].state = e.task[a][t].state
                          /\ e.task[a][t].state = "EXECUTING" =>
                               /\ Z[a].tasks[t].host = e.task[a][t].host
                               /\ \E y \in e.taskRequest : e.request[y[1]] = a /\ y[3] = t
        BY DEF SameTasks
      <4>1. SameTasks(d, S[a], a)
        BY <1>1, <1>9, <2>4
      <4>20. Z[a].tasks[t].state = Y[a].tasks[t].state /\ Z[a].tasks[t].host = Y[a].tasks[t].host
        BY ONLY <3>4
      <4>21. /\ Y[a].tasks[t].state = IF t \in C THEN "READY" ELSE S[a].tasks[t].state
             /\ Y[a].tasks[t].host = S[a].tasks[t].host
        BY <3>2
      <4>22. /\ S[a].tasks[t].state = d.task[a][t].state
             /\ d.task[a][t].state = "EXECUTING" => S[a].tasks[t].host = d.task[a][t].host
        BY <4>1 DEF SameTasks
      <4>23. /\ e.task[a][t].state = IF t \in C THEN "READY" ELSE d.task[a][t].state
             /\ e.task[a][t].host = d.task[a][t].host
        BY <1>1, <1>2
      <4>2. Z[a].tasks[t].state = e.task[a][t].state
        BY ONLY <4>20, <4>21, <4>22, <4>23
      <4>3. ASSUME e.task[a][t].state = "EXECUTING"
            PROVE  /\ Z[a].tasks[t].host = e.task[a][t].host
                   /\ \E y \in e.taskRequest : e.request[y[1]] = a /\ y[3] = t
        <5>1. t \notin C /\ d.task[a][t].state = "EXECUTING"
          BY <1>1, <1>2, <4>3
        <5>2. Z[a].tasks[t].host = e.task[a][t].host
          BY ONLY <4>20, <4>21, <4>22, <4>23, <5>1
        <5>3. PICK y \in d.taskRequest : d.request[y[1]] = a /\ y[3] = t
          BY <4>1, <5>1 DEF SameTasks
        <5>4. <<y[1], y[3]>> \notin T
          BY <5>1, <5>3
        <5> QED BY <1>2, <1>5, <5>2, <5>3, <5>4
      <4> QED BY <4>2, <4>3
    <3>7. ASSUME NEW b \in AppIds, Z[b].live
          PROVE  /\ S[b].live /\ DOMAIN Z[b].requests = DOMAIN S[b].requests
                 /\ SameTasks(e, Z[b], b)
                 /\ \A p \in Rids : d.request[p] = b => \A i, t \in TaskIds :
                      Leads(Z[b], N[p][2], i) = t
                        <=> Leads(S[b], N[p][2], i) = t /\ <<p, t>> \notin T
      <4>1. CASE b = a
        <5>1. ASSUME NEW p \in Rids, d.request[p] = a PROVE N[p][2] = q[2] <=> p = r
          BY <1>1, <1>9, <2>4, <5>1 DEF SameRequests, q
        <5>2. \A p \in Rids, t \in TaskIds : <<p, t>> \in T <=> p = r /\ t \in C
          OBVIOUS
        <5>3. S[b].live /\ DOMAIN Z[b].requests = DOMAIN S[b].requests /\ SameTasks(e, Z[b], b)
          BY <1>9, <3>2, <3>4, <3>6, <4>1
        <5>4. ASSUME NEW p \in Rids, d.request[p] = b, NEW i \in TaskIds, NEW t \in TaskIds
              PROVE  Leads(Z[b], N[p][2], i) = t
                       <=> Leads(S[b], N[p][2], i) = t /\ <<p, t>> \notin T
          <6>1. Leads(Z[a], N[p][2], i) = t
                  <=> Leads(Y[a], N[p][2], i) = t /\ ~(N[p][2] = q[2] /\ t \in C)
            BY <3>4
          <6>2. Leads(Y[a], N[p][2], i) = Leads(S[a], N[p][2], i)
            BY <3>5
          <6>3. N[p][2] = q[2] <=> p = r
            BY <4>1, <5>1, <5>4
          <6>4. <<p, t>> \in T <=> p = r /\ t \in C
            BY <5>2
          <6> HIDE DEF a, T
          <6> QED BY ONLY <4>1, <6>1, <6>2, <6>3, <6>4
        <5> QED BY <5>3, <5>4
      <4>2. CASE b # a
        <5>1. Z[b] = S[b]
          BY <3>2, <3>4, <4>2
        <5>2. SameTasks(e, S[b], b)
          BY <1>7, <2>4, <3>7, <4>2, <5>1
        <5>3. \A p \in Rids : d.request[p] = b => \A t : <<p, t>> \notin T
          BY <4>2
        <5> QED BY <3>7, <5>1, <5>2, <5>3
      <4> QED BY <4>1, <4>2
    <3> HIDE DEF T
    <3>20. Moves(d, e, S, Z, N, T)
      BY ONLY <1>2, <1>5, <1>6, <3>7 DEF Moves
    <3>8. Twin(e, Z, N)
      BY ONLY <3>20, <1>1, <3>4, Twin(d, S, N), MovesTwins
    <3> QED BY <1>9, <2>3, <3>2, <3>4, <3>8 DEF e, C, Z, q
  <2> QED BY <2>5, <2>6
<1> QED BY <1>8, <1>9

\* acceptedTasks of a request assigns the same tasks and keeps the twins.
LEMMA AcceptedTwins ==
  ASSUME NEW d, DbOK(d), Numbered(d), NEW r \in Rids, Named(d, r), NEW S, NEW N, Twin(d, S, N),
         NEW h \in Hosts, NEW I \in SUBSET TaskIds
  PROVE  /\ Twin(AcceptedTasks(d, h, {r} \X I), SimAcceptedTasks(S, h, N[r], I), N)
         /\ S[d.request[r]].live =>
              SimAccepted(S, N[r], I) = Accepted(d, d.request[r], {r} \X I)
         /\ ~ S[d.request[r]].live => SimAccepted(S, N[r], I) = {}
<1> DEFINE a == d.request[r]
           K == {r} \X I
           C == Accepted(d, a, K)
           D == SimAccepted(S, N[r], I)
           b == N[r][1]
           e == AcceptedTasks(d, h, K)
           Z == SimAcceptedTasks(S, h, N[r], I)
           at == [state |-> "EXECUTING", host |-> h]
<1>1. a \in AppIds /\ d \in Databases /\ S \in SimDatabases /\ K \in SUBSET Keys
  BY DEF Named, DbOK, Twin, Keys
<1>2. /\ e.request = d.request /\ e.lastRid = d.lastRid /\ e.taskRequest = d.taskRequest
      /\ \A c \in AppIds : \A t \in TaskIds :
           e.task[c][t] = IF t \in Accepted(d, c, K) THEN at ELSE d.task[c][t]
  BY <1>1, AcceptedTasksRows
<1>3. \A c \in AppIds : \A t \in Accepted(d, c, K) :
        /\ c = a
        /\ \E x \in d.taskRequest : x[3] = t /\ d.request[x[1]] = a
  <2> SUFFICES ASSUME NEW c \in AppIds, NEW t \in Accepted(d, c, K)
               PROVE  c = a /\ \E x \in d.taskRequest : x[3] = t /\ d.request[x[1]] = a
    OBVIOUS
  <2>1. PICK x \in d.taskRequest : <<x[1], x[2]>> \in K /\ GetInstanceId(d, x[1]) = c /\ x[3] = t
    BY DEF Accepted, TidsOf
  <2> QED BY <2>1 DEF GetInstanceId
<1>4. C \in SUBSET TaskIds /\ C = TidsOf(d, K) \cap InState(d, a, {"SEARCHING"})
  <2>1. {k \in K : GetInstanceId(d, k[1]) = a} = K
    BY DEF GetInstanceId
  <2> QED BY <2>1 DEF Accepted, InState
<1>5. S[a].live => D = C
  <2> SUFFICES ASSUME S[a].live PROVE D = C
    OBVIOUS
  <2> DEFINE p(i) == Pointee(S, N[r], i)
  <2>1. N[r][1] = a /\ SimInState(S, a, {"SEARCHING"}) = InState(d, a, {"SEARCHING"})
    BY <1>1, PointersAre, StatesAre
  <2>2. \A i \in TaskIds : TidsOf(d, {<<r, i>>}) = {p(i)} \ {NoTask}
    BY <1>1, PointersAre
  <2>3. TidsOf(d, K) = {p(i) : i \in I} \ {NoTask}
    <3>1. ASSUME NEW t \in TidsOf(d, K) PROVE \E i \in I : t \in TidsOf(d, {<<r, i>>})
      BY DEF TidsOf
    <3>2. ASSUME NEW i \in I, NEW t \in TidsOf(d, {<<r, i>>}) PROVE t \in TidsOf(d, K)
      BY DEF TidsOf
    <3> HIDE DEF p, K
    <3>3. ASSUME NEW t \in TidsOf(d, K) PROVE t \in {p(i) : i \in I} \ {NoTask}
      BY <2>2, <3>1
    <3>4. ASSUME NEW i \in I, p(i) # NoTask PROVE p(i) \in TidsOf(d, K)
      BY <2>2, <3>2, <3>4
    <3> QED BY <3>3, <3>4
  <2>4. D = {p(i) : i \in I} \cap InState(d, a, {"SEARCHING"})
    BY <2>1 DEF SimAccepted
  <2>5. NoTask \notin InState(d, a, {"SEARCHING"})
    BY Numbers DEF NoTask, InState
  <2> HIDE DEF p, C, D, K
  <2> QED BY <1>4, <2>3, <2>4, <2>5
<1>6. ~ S[a].live => D = {}
  <2>1. NoTask \notin SimInState(S, b, {"SEARCHING"})
    BY Numbers DEF NoTask, SimInState
  <2>2. ~ S[a].live => \A i : Pointee(S, N[r], i) = NoTask
    BY <1>1, NoPointers
  <2> QED BY <2>1, <2>2 DEF SimAccepted
<1>7. b \in AppIds /\ (S[a].live => b = a)
  BY <1>1, NoPointers, PointersAre
<1>8. /\ Z \in SimDatabases /\ \A c \in AppIds \ {b} : Z[c] = S[c]
      /\ Z[b].live = S[b].live /\ Z[b].requests = S[b].requests
      /\ \A t \in TaskIds : Z[b].tasks[t] = IF t \in D THEN at ELSE S[b].tasks[t]
  <2> DEFINE x     == S[b]
             tasks == [t \in TaskIds |-> IF t \in D THEN at ELSE x.tasks[t]]
             y     == [x EXCEPT !.tasks = tasks]
  <2>1. x \in Instances /\ at \in TaskRow
    BY <1>1, <1>7 DEF SimDatabases, TaskRow, TaskStates
  <2>2. tasks \in [TaskIds -> TaskRow]
    BY <2>1 DEF Instances
  <2>3. Z = [S EXCEPT ![b] = y]
    BY DEF SimAcceptedTasks
  <2>4. \A t \in TaskIds : tasks[t] = IF t \in D THEN at ELSE x.tasks[t]
    OBVIOUS
  <2> HIDE DEF tasks
  <2>5. y \in Instances /\ y.live = x.live /\ y.requests = x.requests /\ y.tasks = tasks
    BY <2>1, <2>2 DEF Instances
  <2> HIDE DEF y, Z, D
  <2>6. Z \in SimDatabases /\ Z[b] = y /\ \A c \in AppIds \ {b} : Z[c] = S[c]
    BY <1>1, <1>7, <2>3, <2>5 DEF SimDatabases
  <2> QED BY <2>4, <2>5, <2>6
<1> HIDE DEF C, D, e, Z, K, b
<1>9. \A c \in AppIds : \A t \in TaskIds : S[c].live =>
        /\ e.task[c][t] = IF c = a /\ t \in C THEN at ELSE d.task[c][t]
        /\ Z[c].tasks[t] = IF c = a /\ t \in C THEN at ELSE S[c].tasks[t]
  <2>1. ASSUME NEW c \in AppIds, NEW t \in TaskIds, S[c].live
        PROVE  /\ e.task[c][t] = IF c = a /\ t \in C THEN at ELSE d.task[c][t]
               /\ Z[c].tasks[t] = IF c = a /\ t \in C THEN at ELSE S[c].tasks[t]
    <3>1. e.task[c][t] = IF c = a /\ t \in C THEN at ELSE d.task[c][t]
      BY <1>2, <1>3 DEF C
    <3>2. Z[c].tasks[t] = IF c = a /\ t \in C THEN at ELSE S[c].tasks[t]
      BY <1>5, <1>6, <1>7, <1>8, <2>1
    <3> QED BY <3>1, <3>2
  <2> QED BY <2>1
<1>10. \A c \in AppIds : Created(d, c) => Created(e, c)
  BY <1>2 DEF Created, InState
<1>11. ASSUME NEW c \in AppIds, Z[c].live
       PROVE  /\ S[c].live /\ DOMAIN Z[c].requests = DOMAIN S[c].requests
              /\ SameTasks(e, Z[c], c)
              /\ \A q \in Rids : d.request[q] = c => \A i, t \in TaskIds :
                   Leads(Z[c], N[q][2], i) = t
                     <=> Leads(S[c], N[q][2], i) = t /\ <<q, t>> \notin {}
  <2>1. S[c].live /\ Z[c].requests = S[c].requests
    BY <1>7, <1>8, <1>11
  <2>2. SameTasks(d, S[c], c)
    BY <2>1 DEF Twin, Paired
  <2>3. SameTasks(e, Z[c], c)
    <3> SUFFICES ASSUME NEW t \in TaskIds
                 PROVE  /\ Z[c].tasks[t].state = e.task[c][t].state
                        /\ e.task[c][t].state = "EXECUTING" =>
                             /\ Z[c].tasks[t].host = e.task[c][t].host
                             /\ \E y \in e.taskRequest : e.request[y[1]] = c /\ y[3] = t
      BY DEF SameTasks
    <3>1. CASE c = a /\ t \in C
      <4>1. e.task[c][t] = at /\ Z[c].tasks[t] = at
        BY <1>9, <2>1, <3>1
      <4>2. \E y \in d.taskRequest : d.request[y[1]] = c /\ y[3] = t
        BY <1>1, <1>3, <3>1 DEF C
      <4> QED BY <1>2, <4>1, <4>2
    <3>2. CASE ~(c = a /\ t \in C)
      <4>1. e.task[c][t] = d.task[c][t] /\ Z[c].tasks[t] = S[c].tasks[t]
        BY <1>9, <2>1, <3>2
      <4> QED BY <1>2, <2>2, <4>1 DEF SameTasks
    <3> QED BY <3>1, <3>2
  <2>4. \A k, i : Leads(Z[c], k, i) = Leads(S[c], k, i)
    BY <2>1 DEF Leads
  <2> QED BY <2>1, <2>3, <2>4
<1>12. Moves(d, e, S, Z, N, {})
  <2>1. e.taskRequest = {x \in d.taskRequest : <<x[1], x[3]>> \notin {}}
    BY <1>2
  <2> QED BY ONLY <1>2, <1>10, <1>11, <2>1 DEF Moves
<1>13. Twin(e, Z, N)
  BY ONLY <1>1, <1>8, <1>12, Twin(d, S, N), MovesTwins
<1> QED BY <1>5, <1>6, <1>13 DEF C, D, e, Z, K

\* finishedTask ends the same task and keeps the twins, when the node that reports
\* it has it.
LEMMA FinishedTwins ==
  ASSUME NEW d, DbOK(d), Numbered(d), NEW k \in Keys, Named(d, k[1]), NEW S, NEW N,
         Twin(d, S, N), NEW h \in Hosts, Kept(d, h, k)
  PROVE  /\ Twin(FinishedTask(d, h, k), SimFinishedTask(S, N[k[1]], k[2]), N)
         /\ S[d.request[k[1]]].live => SimFinishedTaskReturns(S, N[k[1]], k[2])
<1> DEFINE r == k[1]
           a == d.request[r]
           q == N[r]
           p == Pointee(S, q, k[2])
           b == q[1]
           e == FinishedTask(d, h, k)
           Z == SimFinishedTask(S, q, k[2])
<1>1. /\ r \in Rids /\ a \in AppIds /\ d \in Databases /\ S \in SimDatabases
      /\ k[2] \in TaskIds /\ k = <<r, k[2]>>
  BY DEF Named, DbOK, Twin, Keys
<1>2. PICK z \in d.taskRequest : /\ Names(k, z)
                                 /\ \/ TaskOf(d, z).state = "FINISHED"
                                    \/ TaskOf(d, z).state = "EXECUTING" /\ TaskOf(d, z).host = h
  BY DEF Kept
<1> DEFINE u == z[3]
<1>3. /\ u \in TaskIds /\ <<r, k[2], u>> \in d.taskRequest
      /\ \/ d.task[a][u].state = "FINISHED"
         \/ d.task[a][u].state = "EXECUTING" /\ d.task[a][u].host = h
  <2>1. z[1] = r /\ z[2] = k[2] /\ z[3] \in TaskIds
    BY <1>2, RowTypes DEF Names
  <2>2. z = <<z[1], z[2], z[3]>>
    <3>1. d.taskRequest \in SUBSET (Rids \X TaskIds \X TaskIds)
      BY <1>1 DEF Databases
    <3> QED BY <3>1
  <2> QED BY <1>2, <2>1, <2>2 DEF TaskOf
<1>4. TidsOf(d, {k}) = {u}
  <2>1. ASSUME NEW y \in d.taskRequest, <<y[1], y[2]>> \in {k} PROVE y[3] = u
    BY <1>1, <1>2, <2>1, OneRow DEF Names
  <2>2. <<z[1], z[2]>> \in {k}
    BY <1>1, <1>2 DEF Names
  <2> QED BY <2>1, <2>2 DEF TidsOf
<1>5. S[a].live => b = a /\ p = u
  <2> SUFFICES ASSUME S[a].live PROVE b = a /\ p = u
    OBVIOUS
  <2>1. /\ N[r][1] = d.request[r]
        /\ \A i, t \in TaskIds : <<r, i, t>> \in d.taskRequest <=> Pointee(S, N[r], i) = t
    BY <1>1, PointersAre
  <2>2. Pointee(S, N[r], k[2]) = u
    <3> HIDE DEF u, r
    <3> QED BY ONLY <1>1, <1>3, <2>1
  <2> QED BY <2>1, <2>2
<1>6. ~ S[a].live => p = NoTask
  BY <1>1, NoPointers
<1>7. b \in AppIds
  BY <1>1, NoPointers, PointersAre
<1> HIDE DEF p
<1>8. /\ Z \in SimDatabases /\ \A c \in AppIds \ {b} : Z[c] = S[c]
      /\ Z[b].live = S[b].live /\ Z[b].requests = S[b].requests
      /\ \A t \in TaskIds :
           /\ Z[b].tasks[t].state = IF t \in {p} THEN "FINISHED" ELSE S[b].tasks[t].state
           /\ Z[b].tasks[t].host = S[b].tasks[t].host
  <2>1. Z = SimSetState(S, b, {p}, "FINISHED") /\ "FINISHED" \in TaskStates
    BY DEF SimFinishedTask, p, TaskStates
  <2> HIDE DEF Z, b
  <2> QED BY ONLY <1>1, <1>7, <2>1, SimSetStateIs
<1>9. /\ e.request = d.request /\ e.lastRid = d.lastRid /\ e.taskRequest = d.taskRequest
      /\ \A c \in AppIds : \A t \in TaskIds :
           /\ e.task[c][t].state = IF c = a /\ t = u THEN "FINISHED" ELSE d.task[c][t].state
           /\ e.task[c][t].host = d.task[c][t].host
  <2>1. CASE d.task[a][u].state = "FINISHED"
    <3>1. ~ FinishedTaskReturns(d, k)
      BY <1>3, <1>4, <2>1 DEF FinishedTaskReturns, InState, GetInstanceId
    <3>2. e = d
      BY <3>1 DEF FinishedTask
    <3> QED BY <2>1, <3>2
  <2>2. CASE d.task[a][u].state # "FINISHED"
    <3>1. FinishedTaskReturns(d, k)
      BY <1>3, <1>4, <2>2 DEF FinishedTaskReturns, InState, GetInstanceId
    <3>2. {t \in TidsOf(d, {k}) : d.task[a][t].host = h} = {u}
      BY <1>3, <1>4, <2>2
    <3>3. e = SetState(d, a, {u}, "FINISHED") /\ "FINISHED" \in TaskStates
      BY <3>1, <3>2 DEF FinishedTask, GetInstanceId, TaskStates
    <3> HIDE DEF e, a, u
    <3> QED BY <1>1, <3>3, SetStateRows
  <2> QED BY <2>1, <2>2
<1>10. \A c \in AppIds : Created(d, c) => Created(e, c)
  BY <1>9 DEF Created, InState
<1> HIDE DEF e, Z, b, u, a
<1>11. ASSUME NEW c \in AppIds, Z[c].live
       PROVE  /\ S[c].live /\ DOMAIN Z[c].requests = DOMAIN S[c].requests
              /\ SameTasks(e, Z[c], c)
              /\ \A m \in Rids : d.request[m] = c => \A i, t \in TaskIds :
                   Leads(Z[c], N[m][2], i) = t
                     <=> Leads(S[c], N[m][2], i) = t /\ <<m, t>> \notin {}
  <2>1. S[c].live /\ Z[c].requests = S[c].requests
    BY <1>7, <1>8, <1>11
  <2>2. SameTasks(d, S[c], c)
    BY <2>1 DEF Twin, Paired
  <2>3. ASSUME NEW t \in TaskIds
        PROVE  /\ Z[c].tasks[t].state = IF c = a /\ t = u THEN "FINISHED" ELSE S[c].tasks[t].state
               /\ Z[c].tasks[t].host = S[c].tasks[t].host
    <3>1. NoTask \notin TaskIds
      BY Numbers DEF NoTask
    <3> QED BY <1>5, <1>6, <1>7, <1>8, <2>1, <3>1
  <2>4. SameTasks(e, Z[c], c)
    BY <1>9, <2>2, <2>3 DEF SameTasks
  <2>5. \A n, i : Leads(Z[c], n, i) = Leads(S[c], n, i)
    BY <2>1 DEF Leads
  <2> QED BY <2>1, <2>4, <2>5
<1>12. Moves(d, e, S, Z, N, {})
  <2>1. e.taskRequest = {x \in d.taskRequest : <<x[1], x[3]>> \notin {}}
    BY <1>9
  <2> QED BY ONLY <1>9, <1>10, <1>11, <2>1 DEF Moves
<1>13. Twin(e, Z, N)
  BY ONLY <1>1, <1>8, <1>12, Twin(d, S, N), MovesTwins
<1>14. S[a].live => SimFinishedTaskReturns(S, N[k[1]], k[2])
  <2>1. NoTask \notin TaskIds
    BY Numbers DEF NoTask
  <2> QED BY <1>3, <1>5, <2>1 DEF SimFinishedTaskReturns, p
<1> QED BY <1>13, <1>14 DEF e, Z, a

\* deadNode makes the same tasks ready and keeps the twins.
LEMMA DeadTwins ==
  ASSUME NEW d, DbOK(d), NEW S, NEW N, Twin(d, S, N), NEW h \in Hosts
  PROVE  Twin(DeadNode(d, h), SimDeadNode(S, h), N)
<1> DEFINE e == DeadNode(d, h)
           Z == SimDeadNode(S, h)
           L(a) == {t \in SimInState(S, a, {"EXECUTING"}) :
                      /\ S[a].tasks[t].host = h
                      /\ \E k \in DOMAIN S[a].requests : t \in Pointees(S, <<a, k>>)}
           E(a) == ExecutingAt(d, a, h)
           T    == {x \in Rids \X TaskIds : \E a \in AppIds : a = d.request[x[1]] /\ x[2] \in E(a)}
           ready == [state |-> "READY", host |-> NoHost]
<1>1. d \in Databases /\ S \in SimDatabases
  BY DEF DbOK, Twin
<1>2. /\ e.request = d.request /\ e.lastRid = d.lastRid
      /\ e.taskRequest = {x \in d.taskRequest :
                            ~\E a \in AppIds : a = d.request[x[1]] /\ x[3] \in E(a)}
      /\ \A a \in AppIds : \A t \in TaskIds :
           e.task[a][t] = IF t \in E(a) THEN ready ELSE d.task[a][t]
  BY <1>1, DeadNodeRows
<1>3. \A a \in AppIds : \A t \in TaskIds :
        t \in E(a) <=> d.task[a][t].state = "EXECUTING" /\ d.task[a][t].host = h
  BY DEF ExecutingAt, InState
<1>4. e.taskRequest = {x \in d.taskRequest : <<x[1], x[3]>> \notin T}
  <2>1. \A x \in d.taskRequest : x[1] \in Rids /\ x[3] \in TaskIds
    BY RowTypes
  <2>2. \A x \in d.taskRequest : <<x[1], x[3]>> \in T
          <=> \E a \in AppIds : a = d.request[x[1]] /\ x[3] \in E(a)
    BY <2>1
  <2> HIDE DEF e, E, T
  <2> QED BY <1>2, <2>2
<1>5. \A r \in Rids, t \in TaskIds, a \in AppIds : d.request[r] = a => (<<r, t>> \in T <=> t \in E(a))
  OBVIOUS
<1>6. ASSUME NEW a \in AppIds
      PROVE  LET x == S[a]
                 y == Z[a]
             IN  /\ y \in Instances /\ y.live = x.live
                 /\ DOMAIN y.requests = DOMAIN x.requests
                 /\ \A k, i : \A t \in TaskIds : Leads(y, k, i) = t
                                                <=> Leads(x, k, i) = t /\ t \notin L(a)
                 /\ \A t \in TaskIds :
                      /\ y.tasks[t].state = IF t \in L(a) THEN "READY" ELSE x.tasks[t].state
                      /\ y.tasks[t].host = x.tasks[t].host
  <2> DEFINE x     == S[a]
             rs    == x.requests
             M     == L(a)
             tasks == [t \in TaskIds |-> IF t \in M THEN [x.tasks[t] EXCEPT !.state = "READY"]
                                         ELSE x.tasks[t]]
             f(k)  == [i \in DOMAIN rs[k] |-> IF rs[k][i] \in M THEN NoTask ELSE rs[k][i]]
             new   == [k \in DOMAIN rs |-> f(k)]
             y     == [x EXCEPT !.tasks = tasks, !.requests = new]
  <2>1. x \in Instances
    BY <1>1 DEF SimDatabases
  <2>2. rs \in Seq(Lists) /\ \A t \in TaskIds : x.tasks[t] \in TaskRow
    BY <2>1 DEF Instances
  <2>3. Z[a] = y
    BY DEF SimDeadNode
  <2> HIDE DEF M, L
  <2>4. \A k \in DOMAIN rs : f(k) \in Lists
    <3>1. ASSUME NEW k \in DOMAIN rs PROVE rs[k] \in Lists
      BY <2>2
    <3> HIDE DEF rs
    <3> QED BY <3>1, ListsForget
  <2>5. \A k \in DOMAIN rs : \A i : \A t \in TaskIds :
          i \in DOMAIN f(k) /\ f(k)[i] = t <=> i \in DOMAIN rs[k] /\ rs[k][i] = t /\ t \notin M
    BY Numbers DEF NoTask
  <2> HIDE DEF f, rs
  <2>6. new \in Seq(Lists) /\ DOMAIN new = DOMAIN rs /\ \A k \in DOMAIN rs : new[k] = f(k)
    BY <2>2, <2>4
  <2>7. tasks \in [TaskIds -> TaskRow]
        /\ \A t \in TaskIds : /\ tasks[t].state = IF t \in M THEN "READY" ELSE x.tasks[t].state
                              /\ tasks[t].host = x.tasks[t].host
    BY <2>2 DEF TaskRow, TaskStates
  <2> HIDE DEF tasks, new
  <2>8. y \in Instances /\ y.live = x.live /\ y.requests = new /\ y.tasks = tasks
    BY <2>1, <2>6, <2>7 DEF Instances
  <2> HIDE DEF y
  <2>9. x.requests = rs /\ NoTask \notin TaskIds
    BY Numbers DEF rs, NoTask
  <2> HIDE DEF x
  <2>10. ASSUME NEW k, NEW i, NEW t \in TaskIds
         PROVE  Leads(y, k, i) = t <=> Leads(x, k, i) = t /\ t \notin M
    <3>1. Leads(y, k, i) = t <=> k \in DOMAIN rs /\ i \in DOMAIN f(k) /\ f(k)[i] = t
      BY <2>6, <2>8, <2>9 DEF Leads
    <3>2. Leads(x, k, i) = t <=> k \in DOMAIN rs /\ i \in DOMAIN rs[k] /\ rs[k][i] = t
      BY <2>9 DEF Leads
    <3> QED BY <2>5, <3>1, <3>2
  <2> QED BY <2>3, <2>6, <2>7, <2>8, <2>9, <2>10 DEF x, M
<1>7. Z \in SimDatabases
  <2>1. Z = [a \in AppIds |-> Z[a]]
    BY DEF SimDeadNode
  <2> HIDE DEF Z
  <2> QED BY <1>6, <2>1 DEF SimDatabases
<1>8. ASSUME NEW a \in AppIds, S[a].live PROVE L(a) = E(a)
  <2>1. SameTasks(d, S[a], a) /\ SameRequests(d, S[a], N, a)
    BY <1>8 DEF Twin, Paired
  <2>2. ASSUME NEW t \in L(a) PROVE t \in E(a)
    <3>1. t \in TaskIds /\ S[a].tasks[t].state = "EXECUTING" /\ S[a].tasks[t].host = h
      BY DEF SimInState
    <3> QED BY <1>3, <2>1, <3>1 DEF SameTasks
  <2>3. ASSUME NEW t \in E(a) PROVE t \in L(a)
    <3>1. t \in TaskIds /\ d.task[a][t].state = "EXECUTING" /\ d.task[a][t].host = h
      BY <1>3 DEF ExecutingAt, InState
    <3>2. S[a].tasks[t].state = "EXECUTING" /\ S[a].tasks[t].host = h
      BY <2>1, <3>1 DEF SameTasks
    <3>3. PICK y \in d.taskRequest : d.request[y[1]] = a /\ y[3] = t
      BY <2>1, <3>1 DEF SameTasks
    <3> DEFINE r == y[1]
               k == N[r][2]
    <3>4. r \in Rids /\ y[2] \in TaskIds /\ <<r, y[2], t>> \in d.taskRequest
      <4>1. d.taskRequest \in SUBSET (Rids \X TaskIds \X TaskIds)
        BY <1>1 DEF Databases
      <4> QED BY <3>3, <4>1
    <3>5. N[r][1] = a /\ k \in DOMAIN S[a].requests /\ Leads(S[a], k, y[2]) = t
      BY <2>1, <3>1, <3>3, <3>4 DEF SameRequests
    <3>6. Pointee(S, <<a, k>>, y[2]) = t
      BY <1>8, <3>5, <3>1, Numbers DEF Pointee, FindRequest, Leads, NoTask
    <3>7. t \in Pointees(S, <<a, k>>)
      BY <3>1, <3>4, <3>6, Numbers DEF Pointees, NoTask
    <3> QED BY <1>8, <3>1, <3>2, <3>5, <3>7 DEF SimInState
  <2> QED BY <2>2, <2>3
<1> HIDE DEF e, Z, L, E, T
<1>9. \A a \in AppIds : Created(d, a) => Created(e, a)
  BY <1>2 DEF Created, InState
<1>10. ASSUME NEW a \in AppIds, Z[a].live
       PROVE  /\ S[a].live /\ DOMAIN Z[a].requests = DOMAIN S[a].requests
              /\ SameTasks(e, Z[a], a)
              /\ \A r \in Rids : d.request[r] = a => \A i, t \in TaskIds :
                   Leads(Z[a], N[r][2], i) = t
                     <=> Leads(S[a], N[r][2], i) = t /\ <<r, t>> \notin T
  <2>1. /\ S[a].live /\ L(a) = E(a) /\ DOMAIN Z[a].requests = DOMAIN S[a].requests
        /\ \A k, i : \A t \in TaskIds : Leads(Z[a], k, i) = t
                                       <=> Leads(S[a], k, i) = t /\ t \notin E(a)
        /\ \A t \in TaskIds :
             /\ Z[a].tasks[t].state = IF t \in E(a) THEN "READY" ELSE S[a].tasks[t].state
             /\ Z[a].tasks[t].host = S[a].tasks[t].host
    BY <1>6, <1>8, <1>10
  <2>2. SameTasks(d, S[a], a)
    BY <2>1 DEF Twin, Paired
  <2>3. SameTasks(e, Z[a], a)
    <3> SUFFICES ASSUME NEW t \in TaskIds
                 PROVE  /\ Z[a].tasks[t].state = e.task[a][t].state
                        /\ e.task[a][t].state = "EXECUTING" =>
                             /\ Z[a].tasks[t].host = e.task[a][t].host
                             /\ \E y \in e.taskRequest : e.request[y[1]] = a /\ y[3] = t
      BY DEF SameTasks
    <3>1. CASE t \in E(a)
      BY <1>2, <2>1, <3>1
    <3>2. CASE t \notin E(a)
      <4>1. e.task[a][t] = d.task[a][t] /\ Z[a].tasks[t].state = d.task[a][t].state
        BY <1>2, <2>1, <2>2, <3>2 DEF SameTasks
      <4>2. ASSUME d.task[a][t].state = "EXECUTING"
            PROVE  /\ Z[a].tasks[t].host = e.task[a][t].host
                   /\ \E y \in e.taskRequest : e.request[y[1]] = a /\ y[3] = t
        <5>1. Z[a].tasks[t].host = e.task[a][t].host
          BY <2>1, <2>2, <4>1, <4>2 DEF SameTasks
        <5>2. PICK y \in d.taskRequest : d.request[y[1]] = a /\ y[3] = t
          BY <2>2, <4>2 DEF SameTasks
        <5>3. y[1] \in Rids
          BY RowTypes
        <5>4. <<y[1], y[3]>> \notin T
          BY <1>5, <3>2, <5>2, <5>3
        <5> QED BY <1>2, <1>4, <5>1, <5>2, <5>4
      <4> QED BY <4>1, <4>2
    <3> QED BY <3>1, <3>2
  <2> QED BY <1>5, <2>1, <2>3
<1>11. Moves(d, e, S, Z, N, T)
  BY ONLY <1>2, <1>4, <1>9, <1>10 DEF Moves
<1>12. Twin(e, Z, N)
  BY ONLY <1>1, <1>7, <1>11, Twin(d, S, N), MovesTwins
<1> QED BY <1>12 DEF e, Z

-----------------------------------------------------------------------------
(* The requests of the simulator.                                          *)

\* What createRequest and startSearch of the instances B leave.
AskedBy(S, B) == [a \in AppIds |-> IF a \in B THEN SimRequestFromReadyTasks(S, a)[a] ELSE S[a]]
SentBy(S, B)  ==
  [a \in AppIds |-> IF a \in B
                    THEN SimStartSearch(AskedBy(S, B), LastRequest(AskedBy(S, B), a))[a]
                    ELSE AskedBy(S, B)[a]]

\* One more request, which points at the ready tasks.
Grows(S, a, y) ==
  /\ y \in Instances /\ y.live
  /\ y.requests = Append(S[a].requests, ReadyTasks(S, a))
  /\ \A t \in TaskIds :
       /\ y.tasks[t].state = IF S[a].tasks[t].state = "READY" THEN "SEARCHING"
                             ELSE S[a].tasks[t].state
       /\ y.tasks[t].host = S[a].tasks[t].host

\* A live instance has one more request, and its ready tasks are searched.
LEMMA SentIs ==
  ASSUME NEW S \in SimDatabases, NEW B \in SUBSET AppIds, NEW a \in AppIds
  PROVE  IF a \in B /\ S[a].live THEN Grows(S, a, SentBy(S, B)[a]) ELSE SentBy(S, B)[a] = S[a]
<1> DEFINE x == S[a]
           Q == ReadyTasks(S, a)
           R == {t \in TaskIds : x.tasks[t].state = "READY"}
           D == AskedBy(S, B)
           more == Append(x.requests, Q)
           y == SentBy(S, B)[a]
           q == LastRequest(D, a)
<1>1. x \in Instances /\ x.requests \in Seq(Lists)
  BY DEF SimDatabases, Instances
<1>2. CASE ~ x.live
  <2>1. D[a] = x
    BY <1>2 DEF AskedBy, SimRequestFromReadyTasks, FindAppInstance
  <2>2. ~ FindRequest(D, q)
    BY <1>2, <2>1 DEF FindRequest, LastRequest
  <2>3. y = D[a]
    BY <2>2 DEF SentBy, SimStartSearch
  <2> QED BY <1>2, <2>1, <2>3
<1>3. CASE a \notin B
  BY <1>3 DEF SentBy, AskedBy
<1>4. CASE a \in B /\ x.live
  <2>1. /\ Q \in Lists
        /\ \A t \in R : Rank(R, t) \in TaskIds
        /\ \A i, t \in TaskIds : i \in DOMAIN Q /\ Q[i] = t <=> t \in R /\ Rank(R, t) = i
        /\ \A i \in DOMAIN Q : Q[i] \in R
    BY ReadyTasksAre DEF AreListed
  <2>2. D[a] = [x EXCEPT !.requests = more]
    BY <1>4 DEF AskedBy, SimRequestFromReadyTasks, FindAppInstance, SimDatabases
  <2>3. D \in SimDatabases
    <3> SUFFICES ASSUME NEW c \in AppIds PROVE D[c] \in Instances
      BY DEF AskedBy, SimDatabases
    <3>1. S[c] \in Instances /\ ReadyTasks(S, c) \in Lists
      BY ReadyTasksAre DEF SimDatabases, AreListed
    <3>2. Append(S[c].requests, ReadyTasks(S, c)) \in Seq(Lists)
      BY <3>1 DEF Instances
    <3>3. [S[c] EXCEPT !.requests = Append(S[c].requests, ReadyTasks(S, c))] \in Instances
      BY <3>1, <3>2 DEF Instances
    <3>4. D[c] \in {S[c], [S[c] EXCEPT !.requests = Append(S[c].requests, ReadyTasks(S, c))]}
      BY DEF AskedBy, SimRequestFromReadyTasks, SimDatabases
    <3> QED BY <3>1, <3>3, <3>4
  <2> HIDE DEF Q, R
  <2>4. /\ more \in Seq(Lists) /\ Len(more) \in DOMAIN more /\ more[Len(more)] = Q
    BY <1>1, <2>1
  <2> HIDE DEF more
  <2>5. D[a].live /\ D[a].requests = more /\ D[a].tasks = x.tasks
    BY <1>1, <1>4, <2>2 DEF Instances
  <2> HIDE DEF D
  <2>6. q[1] = a /\ q[2] = Len(more) /\ FindRequest(D, q)
    BY <2>4, <2>5 DEF FindRequest, LastRequest
  <2> HIDE DEF q
  <2>7. \A i : Pointee(D, q, i) = IF i \in DOMAIN Q THEN Q[i] ELSE NoTask
    BY <2>4, <2>5, <2>6 DEF Pointee
  <2>8. Pointees(D, q) = R
    <3>1. R \in SUBSET TaskIds /\ NoTask \notin TaskIds
      BY Numbers DEF R, NoTask
    <3>2. ASSUME NEW t \in Pointees(D, q) PROVE t \in R
      BY <2>1, <2>7 DEF Pointees
    <3>3. ASSUME NEW t \in R PROVE t \in Pointees(D, q)
      <4>1. Rank(R, t) \in TaskIds /\ Rank(R, t) \in DOMAIN Q /\ Q[Rank(R, t)] = t
        BY <2>1, <3>1
      <4> QED BY <2>7, <3>1, <4>1 DEF Pointees
    <3> QED BY <3>2, <3>3
  <2>9. y = SimSetState(D, a, R, "SEARCHING")[a] /\ "SEARCHING" \in TaskStates
    BY <1>4, <2>6, <2>8 DEF SentBy, SimStartSearch, TaskStates, D, q
  <2> DEFINE Z == SimSetState(D, a, R, "SEARCHING")
  <2>10. /\ Z \in SimDatabases /\ Z[a].live = D[a].live /\ Z[a].requests = D[a].requests
         /\ \A t \in TaskIds :
              /\ Z[a].tasks[t].state = IF t \in R THEN "SEARCHING" ELSE D[a].tasks[t].state
              /\ Z[a].tasks[t].host = D[a].tasks[t].host
    BY <2>3, <2>9, SimSetStateIs
  <2> HIDE DEF Z, y
  <2>11. y = Z[a]
    BY <2>9 DEF Z
  <2>12. y \in Instances /\ y.live /\ y.requests = more
    BY <2>5, <2>10, <2>11 DEF SimDatabases
  <2>13. ASSUME NEW t \in TaskIds
         PROVE  /\ y.tasks[t].state = IF x.tasks[t].state = "READY" THEN "SEARCHING"
                                      ELSE x.tasks[t].state
                /\ y.tasks[t].host = x.tasks[t].host
    BY <2>5, <2>10, <2>11 DEF R
  <2>14. Grows(S, a, y)
    BY <2>12, <2>13 DEF Grows, more, Q
  <2> QED BY <1>4, <2>14 DEF y
<1> QED BY <1>2, <1>3, <1>4


-----------------------------------------------------------------------------
(* The handlers.                                                           *)

\* The step takes from the simulator the instances that it drops.
LEMMA ErasedIs ==
  ASSUME NEW S \in SimDatabases
  PROVE  /\ Erased(S) = [a \in AppIds |-> Erased(S)[a]]
         /\ \A a \in AppIds : Erased(S)[a] \in {S[a], NoInstance}
BY DEF Erased, AppInstanceFinished, SimDatabases

\* The calls of sendRequest of a step, or none.
LEMMA SendsTwins ==
  ASSUME NEW d, DbOK(d), d.lastRid = db.lastRid, NEW S, Twin(d, S, name),
         NEW B \in SUBSET AppIds, TwinSends(S, B),
         \/ B = {} /\ db' = d
         \/ /\ d.lastRid + MaxApps <= MaxRequests
            /\ db' = Searching(d, {a \in B : Ready(d, a) # {}})
  PROVE  Twin(db', simDb', name')
<1> DEFINE A == {a \in B : Ready(d, a) # {}}
           e == Searching(d, A)
           Z == SentBy(S, B)
           M == [r \in Rids |-> IF r > db.lastRid /\ r <= db'.lastRid
                                THEN LastRequest(Z, db'.request[r]) ELSE name[r]]
<1>1. S \in SimDatabases /\ Made(d) /\ NamesOK(d, name) /\ d \in Databases
  BY DEF Twin, DbOK
<1>2. simDb' = Erased(Z) /\ name' = M
  BY DEF TwinSends, SentBy, AskedBy
<1>3. \A a \in AppIds :
        IF a \in B /\ S[a].live THEN Grows(S, a, Z[a]) ELSE Z[a] = S[a]
  BY <1>1, SentIs
<1>4. Z \in SimDatabases
  <2>1. Z = [a \in AppIds |-> Z[a]]
    BY DEF SentBy
  <2>2. \A a \in AppIds : Z[a] \in Instances
    <3> HIDE DEF Z
    <3> QED BY <1>1, <1>3 DEF Grows, SimDatabases
  <2> HIDE DEF Z
  <2> QED BY <2>1, <2>2 DEF SimDatabases
<1> HIDE DEF Z
<1>5. Twin(db', Z, M)
  <2>1. CASE B = {} /\ db' = d
    <3>1. Z = S
      <4>1. \A a \in AppIds : Z[a] = S[a]
        BY <1>3, <2>1
      <4> QED BY <1>1, <1>4, <4>1 DEF SimDatabases
    <3>2. M = name
      <4>1. \A r \in Rids : ~(r > d.lastRid /\ r <= d.lastRid)
        BY <1>1, Numbers DEF Databases
      <4>2. M = [r \in Rids |-> name[r]]
        BY <2>1, <4>1
      <4> HIDE DEF M
      <4> QED BY <1>1, <4>2 DEF NamesOK
    <3> QED BY <2>1, <3>1, <3>2
  <2>2. CASE d.lastRid + MaxApps <= MaxRequests /\ db' = e
    <3>1. A \in SUBSET AppIds /\ \A a \in A : Ready(d, a) # {}
      OBVIOUS
    <3>0. A \subseteq B /\ \A a \in B \ A : Ready(d, a) = {}
      OBVIOUS
    <3> HIDE DEF A
    <3> DEFINE rid == RidsOf(d, A)
    <3>2. /\ \A a \in A : /\ rid[a] \in Rids /\ d.lastRid < rid[a] /\ rid[a] <= e.lastRid
                          /\ e.request[rid[a]] = a
          /\ d.lastRid <= e.lastRid /\ e \in Databases
          /\ \A r \in Rids : e.request[r] \in AppIds =>
               \/ r <= d.lastRid /\ e.request[r] = d.request[r]
               \/ d.lastRid < r /\ e.request[r] \in A /\ r = rid[e.request[r]]
      BY <1>1, <2>2, <3>1, RequestsMade
    <3> HIDE DEF rid
    <3>3. \A r \in Rids : M[r] = IF r > d.lastRid /\ r <= e.lastRid
                                 THEN LastRequest(Z, e.request[r]) ELSE name[r]
      BY <2>2
    <3>4. M = [r \in Rids |-> M[r]]
      OBVIOUS
    <3> HIDE DEF M, e
    <3>5. d.lastRid \in Int /\ e.lastRid \in Int /\ \A r \in Rids : r \in Int
      BY <1>1, <3>2, Numbers DEF Databases
    <3>6. ASSUME NEW r \in Rids
          PROVE  IF r <= d.lastRid \/ e.lastRid < r THEN M[r] = name[r]
                 ELSE e.request[r] \in AppIds =>
                        M[r][1] \in AppIds /\ (M[r][2] = 0 \/ M[r][1] = e.request[r])
      <4>1. CASE r <= d.lastRid \/ e.lastRid < r
        BY <3>3, <3>5, <4>1
      <4>2. CASE ~(r <= d.lastRid \/ e.lastRid < r)
        <5>1. M[r] = LastRequest(Z, e.request[r])
          BY <3>3, <3>5, <4>2
        <5>2. M[r][1] = e.request[r]
          BY <5>1 DEF LastRequest
        <5> QED BY <4>2, <5>2
      <4> QED BY <4>1, <4>2
    <3>7. ASSUME NEW a \in AppIds, Z[a].live
          PROVE  /\ S[a].live
                 /\ \A k \in DOMAIN S[a].requests :
                      k \in DOMAIN Z[a].requests /\ Z[a].requests[k] = S[a].requests[k]
                 /\ \A t \in TaskIds :
                      /\ Z[a].tasks[t].state = IF a \in A /\ t \in Ready(d, a) THEN "SEARCHING"
                                               ELSE S[a].tasks[t].state
                      /\ Z[a].tasks[t].host = S[a].tasks[t].host
                 /\ a \in A => LET q == M[rid[a]]
                               IN  /\ q[1] = a
                                   /\ q[2] \in DOMAIN Z[a].requests \ DOMAIN S[a].requests
                                   /\ Z[a].requests[q[2]] = ReadyTasks(S, a)
      <4>1. S[a].live
        BY <1>3, <3>7
      <4>2. S[a] \in Instances /\ S[a].requests \in Seq(Lists)
        BY <1>1 DEF SimDatabases, Instances
      <4>3. \A t \in TaskIds : t \in Ready(d, a) <=> S[a].tasks[t].state = "READY"
        BY <4>1 DEF Twin, Paired, SameTasks, Ready, InState
      <4>4. CASE a \in B
        <5>1. Grows(S, a, Z[a])
          BY <1>3, <4>1, <4>4
        <5> DEFINE l == S[a].requests
                   Q == ReadyTasks(S, a)
                   m == Z[a].requests
        <5>2. m = Append(l, Q)
          BY <5>1 DEF Grows
        <5>3. l \in Seq(Lists) /\ Q \in Lists
          BY <1>1, <4>2, ReadyTasksAre DEF AreListed
        <5> HIDE DEF l, Q
        <5>4. /\ DOMAIN l = 1 .. Len(l) /\ DOMAIN m = 1 .. (Len(l) + 1) /\ Len(l) \in Nat
              /\ Len(m) = Len(l) + 1 /\ m[Len(m)] = Q
              /\ \A k \in DOMAIN l : m[k] = l[k]
          <6> HIDE DEF m
          <6> QED BY <5>2, <5>3
        <5> HIDE DEF m
        <5>5. \A k \in DOMAIN l : k \in DOMAIN m /\ m[k] = l[k]
          BY <5>4
        <5>6. \A t \in TaskIds :
                /\ Z[a].tasks[t].state = IF a \in A /\ t \in Ready(d, a) THEN "SEARCHING"
                                         ELSE S[a].tasks[t].state
                /\ Z[a].tasks[t].host = S[a].tasks[t].host
          BY <3>0, <4>3, <4>4, <5>1 DEF Grows
        <5>7. ASSUME a \in A
              PROVE  /\ M[rid[a]][1] = a /\ M[rid[a]][2] \in DOMAIN m \ DOMAIN l
                     /\ m[M[rid[a]][2]] = Q
          <6>1. M[rid[a]] = LastRequest(Z, a)
            BY <3>2, <3>3, <3>5, <5>7
          <6>2. M[rid[a]][1] = a /\ M[rid[a]][2] = Len(m)
            BY <6>1 DEF LastRequest, m
          <6> QED BY <5>4, <6>2
        <5> QED BY <4>1, <5>5, <5>6, <5>7 DEF l, m, Q
      <4>5. CASE a \notin B
        <5>1. Z[a] = S[a] /\ a \notin A
          BY <1>3, <3>0, <4>5
        <5> QED BY <4>1, <5>1
      <4> QED BY <4>4, <4>5
    <3>8. Asks(d, A, S, Z, name, M)
      BY ONLY <3>4, <3>6, <3>7 DEF Asks, e, rid
    <3>9. Twin(e, Z, M)
      BY <1>4, <2>2, <3>1, <3>8, SearchingTwins DEF e
    <3> QED BY <2>2, <3>9
  <2> QED BY <2>1, <2>2
<1> HIDE DEF M
<1>6. Twin(db', Erased(Z), M)
  BY <1>4, <1>5, ErasedIs, ErasesTwins
<1> QED BY <1>2, <1>6

\* The timer of a request is armed or has expired, not both, and it has retries.
Tried(T, F, tries) ==
  \A r \in Rids : /\ RequestTimer(r) \notin T \cap F
                  /\ RequestTimer(r) \in T \cup F => tries[r] # NoEntry

\* sendRequest asks for the ready tasks of the instances that are called, unless the
\* father is changing; the new requests have retries.
LEMMA SendTries ==
  ASSUME NEW s \in States, DbOK(s.db), NEW calls \in Calls, NEW changing \in BOOLEAN,
         changing \/ s.db.lastRid + MaxApps <= MaxRequests,
         NEW F, Tried(s.timers, F, s.retries),
         \A r \in Rids : RequestTimer(r) \in F => r <= s.db.lastRid
  PROVE  LET n == SendRequests(s, calls, changing)
         IN  /\ n.db = IF changing THEN s.db
                       ELSE Searching(s.db, {a \in {b \in AppIds : calls[b] # NoEntry} :
                                               Ready(s.db, a) # {}})
             /\ Tried(n.timers, F, n.retries)
<1> DEFINE n == SendRequests(s, calls, changing)
<1>1. s = [db |-> s.db, remaining |-> s.remaining, retries |-> s.retries, timers |-> s.timers,
           offered |-> s.offered, delayed |-> s.delayed, remote |-> s.remote]
  BY DEF States
<1>2. CASE changing
  <2> DEFINE late == [a \in AppIds |-> IF s.delayed[a] = NoEntry THEN calls[a] ELSE s.delayed[a]]
  <2>1. n = [s EXCEPT !.delayed = late]
    BY <1>2, Zenon DEF SendRequests
  <2> HIDE DEF late, n
  <2>2. n.db = s.db /\ n.timers = s.timers /\ n.retries = s.retries
    BY <1>1, <2>1
  <2> QED BY <1>2, <2>2 DEF n
<1>3. CASE ~ changing
  <2> DEFINE A     == {a \in AppIds : calls[a] # NoEntry /\ Ready(s.db, a) # {}}
             asked == Asked(s.db, A)
             e     == Searching(s.db, A)
             rid   == RidsOf(s.db, A)
             new   == {rid[a] : a \in A}
             left  == [a \in AppIds |-> IF a \in A
                         THEN Add(Value(s.remaining[a]), Cardinality(Ready(s.db, a)))
                         ELSE s.remaining[a]]
             tried == [r \in Rids |-> IF r \in new
                         THEN calls[GetInstanceId(asked, r)] + 1 ELSE s.retries[r]]
             armed == s.timers \cup {RequestTimer(r) : r \in new}
             offer == s.offered \cup {k \in Keys : k[1] \in new /\ TidsOf(asked, {k}) # {}}
  <2>1. n = [s EXCEPT !.db = e, !.remaining = left, !.retries = tried, !.timers = armed,
                      !.offered = offer]
    BY <1>3, Zenon DEF SendRequests, Asked, Searching, RidsOf
  <2>2. A \in SUBSET AppIds /\ s.db.lastRid + MaxApps <= MaxRequests
    BY <1>3
  <2>3. \A a \in A : calls[a] + 1 # NoEntry
    <3>1. \A a \in A : calls[a] \in Nat
      BY DEF Calls
    <3> QED BY <3>1 DEF NoEntry
  <2>4. A = {a \in {b \in AppIds : calls[b] # NoEntry} : Ready(s.db, a) # {}}
    OBVIOUS
  <2> HIDE DEF A
  <2>5. \A a \in A : /\ rid[a] \in Rids /\ s.db.lastRid < rid[a]
                     /\ GetInstanceId(asked, rid[a]) = a
    <3>1. \A a \in A : rid[a] \in Rids /\ s.db.lastRid < rid[a]
      BY <2>2, RidsAreNew DEF DbOK
    <3>2. \A a \in A : asked.request[rid[a]] = a
      BY <2>2, AskedRows
    <3> QED BY <3>1, <3>2 DEF GetInstanceId
  <2> HIDE DEF e, rid, asked
  <2>6. \A r \in new : r \in Rids /\ s.db.lastRid < r /\ calls[GetInstanceId(asked, r)] + 1 # NoEntry
    BY <2>3, <2>5
  <2> HIDE DEF new
  <2>7. \A r \in new : RequestTimer(r) \notin F
    <3>1. s.db.lastRid \in Int /\ \A r \in Rids : r \in Int
      BY Numbers DEF DbOK, Databases
    <3> QED BY <2>6, <3>1
  <2>8. \A r \in Rids : RequestTimer(r) \in armed <=> RequestTimer(r) \in s.timers \/ r \in new
    BY DEF RequestTimer
  <2>9. \A r \in Rids : tried[r] = IF r \in new THEN calls[GetInstanceId(asked, r)] + 1
                                   ELSE s.retries[r]
    OBVIOUS
  <2> HIDE DEF n, left, tried, armed, offer
  <2>10. n.db = e /\ n.timers = armed /\ n.retries = tried
    BY <1>1, <2>1
  <2>11. Tried(armed, F, tried)
    BY <2>6, <2>7, <2>8, <2>9 DEF Tried
  <2> QED BY <1>3, <2>4, <2>10, <2>11 DEF n, e
<1> QED BY <1>2, <1>3

\* A step that sends requests: s is what the calls start from, and S its twin.
LEMMA SendTwins ==
  ASSUME NEW s \in States, DbOK(s.db), s.db.lastRid = db.lastRid, NEW calls \in Calls,
         NEW changing \in BOOLEAN, changing \/ s.db.lastRid + MaxApps <= MaxRequests,
         Becomes(SendRequests(s, calls, changing)),
         NEW S, TwinSends(S, {a \in AppIds : calls[a] # NoEntry /\ ~ changing}),
         Tried(s.timers, fired', s.retries),
         \A r \in Rids : RequestTimer(r) \in fired' => r <= db.lastRid
  PROVE  /\ Twin(s.db, S, name) => Twin(db', simDb', name')
         /\ Tried(timers', fired', retries')
<1> DEFINE n == SendRequests(s, calls, changing)
           B == {a \in AppIds : calls[a] # NoEntry /\ ~ changing}
<1>1. /\ n.db = IF changing THEN s.db
                ELSE Searching(s.db, {a \in {b \in AppIds : calls[b] # NoEntry} :
                                        Ready(s.db, a) # {}})
      /\ Tried(n.timers, fired', n.retries)
  BY SendTries
<1>2. db' = n.db /\ timers' = n.timers /\ retries' = n.retries
  <2> HIDE DEF n
  <2>1. Becomes(n)
    BY DEF n
  <2> QED BY <2>1 DEF Becomes
<1> HIDE DEF n
<1>3. \/ B = {} /\ db' = s.db
      \/ /\ s.db.lastRid + MaxApps <= MaxRequests
         /\ db' = Searching(s.db, {a \in B : Ready(s.db, a) # {}})
  <2>1. CASE changing
    BY <1>1, <1>2, <2>1
  <2>2. CASE ~ changing
    <3>1. B = {b \in AppIds : calls[b] # NoEntry}
      BY <2>2
    <3> HIDE DEF B
    <3> QED BY <1>1, <1>2, <2>2, <3>1
  <2> QED BY <2>1, <2>2
<1>4. B \in SUBSET AppIds /\ TwinSends(S, B)
  OBVIOUS
<1> HIDE DEF B
<1>5. Twin(s.db, S, name) => Twin(db', simDb', name')
  BY <1>3, <1>4, SendsTwins
<1> QED BY <1>1, <1>2, <1>5

\* What the invariants say of the timers that have expired.
LEMMA FiredAreOld ==
  ASSUME IInv, NEW r \in Rids, RequestTimer(r) \in timers \cup fired
  PROVE  r <= db.lastRid /\ Named(db, r)
BY CurrentIs DEF IInv, NodeInv, StateOK, Named

\* SubmissionNode::fatherChanged
LEMMA FatherChangedTwins ==
  ASSUME IInv, CountInv, KeysInv, Tried(timers, fired, retries), TwinFatherChanged
  PROVE  /\ Twin(db, simDb, name) => Twin(db', simDb', name')
         /\ Tried(timers', fired', retries')
<1> DEFINE s == [Current EXCEPT !.delayed = [a \in AppIds |-> NoEntry]]
           B == {a \in AppIds : delayed[a] # NoEntry /\ ~ FALSE}
<1>1. s \in States /\ s.db = db /\ s.timers = timers /\ s.retries = retries
  BY CurrentCounts, NoCalls DEF Current, States
<1>2. /\ Becomes(SendRequests(s, delayed, FALSE)) /\ fired' = fired
      /\ db.lastRid + MaxApps <= MaxRequests
  BY DEF TwinFatherChanged, FatherChanged, envVars, RequestsLeft
<1>3. delayed \in Calls
  BY CurrentCounts, TypesOfCurrent
<1>4. TwinSends(simDb, B)
  <2>1. B = {a \in AppIds : delayed[a] # NoEntry}
    OBVIOUS
  <2> HIDE DEF B
  <2> QED BY <2>1 DEF TwinFatherChanged
<1> HIDE DEF s
<1> QED BY <1>1, <1>2, <1>3, <1>4, CurrentCounts, FiredAreOld, SendTwins

\* SubmissionNode::handle(DispatchCommandMsg)
LEMMA DispatchTwins ==
  ASSUME IInv, CountInv, KeysInv, Tried(timers, fired, retries), NEW a \in AppIds, TwinDispatch(a)
  PROVE  /\ Twin(db, simDb, name) => Twin(db', simDb', name')
         /\ Tried(timers', fired', retries')
<1> DEFINE d    == CreateAppInstance(db, a)
           S    == SimCreateAppInstance(simDb, a)
           rest == [remaining EXCEPT ![a] = 0]
           s    == [Current EXCEPT !.db = d, !.remaining[a] = 0]
           calls == OneCall(a, 0)
           B    == {b \in AppIds : calls[b] # NoEntry /\ ~ inChange}
<1>1. /\ Becomes(SendRequests(s, calls, inChange)) /\ fired' = fired
      /\ db.lastRid + MaxApps <= MaxRequests /\ inChange \in BOOLEAN /\ ~ Created(db, a)
  BY DEF TwinDispatch, DispatchCommand, envVars, RequestsLeft, IInv, NodeInv
<1>2. remaining \in [AppIds -> (0 .. UIntMax) \cup {NoEntry}]
  BY CurrentCounts, TypesOfCurrent
<1>3. DbOK(d) /\ d.lastRid = db.lastRid
  <2>1. Timed(db, timers \cup (fired \cup Lost))
    BY DEF IInv, NodeInv
  <2> QED BY <1>1, <2>1, CurrentCounts, CreateAppInstanceOK
<1>4. Twin(db, simDb, name) => Twin(d, S, name)
  BY <1>1, CurrentCounts, CreateTwins
<1>5. rest \in [AppIds -> (0 .. UIntMax) \cup {NoEntry}]
  BY <1>2, SubmissionConstants DEF SubmissionConstants
<1>6. calls \in Calls
  BY OneCallOK
<1>7. TwinSends(S, B)
  <2>1. B = {a} \cap {b \in AppIds : ~ inChange}
    BY DEF OneCall, NoEntry
  <2> HIDE DEF B
  <2> QED BY <2>1 DEF TwinDispatch
<1> HIDE DEF d, S, calls
<1>8. s = [Current EXCEPT !.db = d, !.remaining = rest]
  BY DEF Current
<1> HIDE DEF rest, s
<1>9. s \in States /\ s.db = d /\ s.timers = timers /\ s.retries = retries
  BY <1>3, <1>5, <1>8, CurrentCounts, TypesOfCurrent DEF Current, States, DbOK
<1> QED BY <1>1, <1>3, <1>4, <1>6, <1>7, <1>9, FiredAreOld, SendTwins

\* SubmissionNode::handle(RequestTimeout), which asks again in both or in none.
LEMMA RequestTimeoutTwins ==
  ASSUME IInv, CountInv, KeysInv, Tried(timers, fired, retries), NEW r \in Rids,
         TwinRequestTimeout(r)
  PROVE  /\ Twin(db, simDb, name) => Twin(db', simDb', name')
         /\ Tried(timers', fired', retries')
         /\ {same, aborted} \subseteq BOOLEAN /\ Twin(db, simDb, name) =>
              same' = same /\ aborted' = aborted
<1> DEFINE a     == GetInstanceId(db, r)
           d     == CancelSearch(db, r)
           left  == IF remaining[a] = NoEntry THEN NoEntry
                    ELSE Sub(remaining[a], Cardinality(Cancelled(db, r)))
           again == Ready(d, a) # {} /\ RetriesLeft(r)
           last  == IF ~again /\ left = 0 THEN NoEntry ELSE left
           tried == [retries EXCEPT ![r] = NoEntry]
           rest  == [remaining EXCEPT ![a] = last]
           s     == [Current EXCEPT !.db = d, !.retries[r] = NoEntry,
                       !.remaining[a] = IF ~again /\ left = 0 THEN NoEntry ELSE left]
           calls == OneCall(a, retries[r])
           ready == SimCancelSearch(simDb, name[r])
           more  == SimInState(ready, a, {"READY"}) # {} /\ RetriesLeft(r) /\ ~ inChange
<1>1. /\ Named(db, r) /\ a \in AppIds /\ a = db.request[r] /\ DbOK(db)
      /\ RequestTimer(r) \in fired /\ retries[r] # NoEntry
  BY CurrentIs, CurrentCounts
     DEF IInv, NodeInv, StateOK, TwinRequestTimeout, HandleRequestTimeout, Named, GetInstanceId, Tried
<1>2. /\ IF again THEN Becomes(SendRequests(s, calls, inChange)) ELSE Becomes(s)
      /\ fired' = fired \ {RequestTimer(r)}
      /\ db.lastRid + MaxApps <= MaxRequests /\ inChange \in BOOLEAN
  <2> HIDE DEF left
  <2> QED BY DEF TwinRequestTimeout, HandleRequestTimeout, envVars, RequestsLeft, left, IInv, NodeInv
<1>3. DbOK(d) /\ d.lastRid = db.lastRid /\ d.request = db.request
  <2>1. Timed(db, timers \cup (fired \cup Lost))
    BY DEF IInv, NodeInv
  <2> QED BY <1>1, <2>1, CurrentCounts, CancelSearchOK, CancelSearchRows
<1>4. /\ remaining \in [AppIds -> (0 .. UIntMax) \cup {NoEntry}]
      /\ retries \in [Rids -> (0 .. SubmitRetries) \cup {1, NoEntry}]
  BY CurrentCounts, TypesOfCurrent
<1>5. again => calls \in Calls
  <2>1. retries[r] \in Nat \cup {NoEntry}
    BY <1>4, SubmissionConstants DEF SubmissionConstants
  <2> QED BY <2>1, OneCallOK DEF RetriesLeft
<1>6. left \in (0 .. UIntMax) \cup {NoEntry}
  <2>1. remaining[a] \in Int
    BY <1>1, <1>4, SubmissionConstants DEF NoEntry, SubmissionConstants
  <2>2. Cardinality(Cancelled(db, r)) \in Int
    <3>1. Cancelled(db, r) \in SUBSET (1 .. NumTasks)
      BY DEF Cancelled, InState, TaskIds
    <3> QED BY <3>1, Counts, Numbers
  <2>3. Sub(remaining[a], Cardinality(Cancelled(db, r))) \in 0 .. UIntMax
    BY <2>1, <2>2, Unsigned
  <2> QED BY <2>3
<1>7. /\ tried \in [Rids -> (0 .. SubmitRetries) \cup {1, NoEntry}]
      /\ rest \in [AppIds -> (0 .. UIntMax) \cup {NoEntry}]
  <2>1. last \in (0 .. UIntMax) \cup {NoEntry}
    <3> HIDE DEF left, again
    <3> QED BY <1>6
  <2> HIDE DEF last
  <2> QED BY <1>1, <1>4, <2>1
<1>8. s = [Current EXCEPT !.db = d, !.retries = tried, !.remaining = rest]
  <2> HIDE DEF d, left, again
  <2> QED BY DEF Current
<1>9. \A q \in Rids : tried[q] = IF q = r THEN NoEntry ELSE retries[q]
  BY <1>4
<1> HIDE DEF left, last, tried, rest, s
<1>10. s \in States /\ s.db = d /\ s.timers = timers /\ s.retries = tried
  BY <1>3, <1>7, <1>8, CurrentCounts, TypesOfCurrent DEF Current, States, DbOK
<1>11. Tried(s.timers, fired', s.retries)
  BY <1>1, <1>2, <1>9, <1>10 DEF Tried, RequestTimer
<1>12. \A q \in Rids : RequestTimer(q) \in fired' => q <= db.lastRid
  BY <1>2, FiredAreOld
<1> DEFINE A == {b \in {c \in AppIds : calls[c] # NoEntry} : Ready(d, b) # {}}
<1>13. A = IF Ready(d, a) # {} THEN {a} ELSE {}
  BY <1>1 DEF OneCall
<1>14. /\ Tried(timers', fired', retries')
       /\ db' = IF again /\ ~ inChange THEN Searching(d, A) ELSE d
  <2>1. CASE again
    <3> DEFINE n == SendRequests(s, calls, inChange)
    <3>1. /\ n.db = IF inChange THEN s.db
                    ELSE Searching(s.db, {b \in {c \in AppIds : calls[c] # NoEntry} :
                                            Ready(s.db, b) # {}})
          /\ Tried(n.timers, fired', n.retries)
      <4> HIDE DEF calls, d
      <4> QED BY <1>2, <1>3, <1>5, <1>10, <1>11, <1>12, <2>1, SendTries
    <3>2. Becomes(n)
      BY <1>2, <2>1
    <3> HIDE DEF n, calls
    <3>3. db' = n.db /\ timers' = n.timers /\ retries' = n.retries
      BY <3>2 DEF Becomes
    <3> QED BY <1>10, <2>1, <3>1, <3>3
  <2>2. CASE ~ again
    BY <1>2, <1>10, <1>11, <2>2 DEF Becomes
  <2> QED BY <2>1, <2>2
<1>15. IF FindAppInstance(simDb, a)
       THEN /\ TwinSends(ready, {a} \cap {b \in AppIds : more})
            /\ Agreed(SimCancelled(simDb, name[r]) = Cancelled(db, r))
       ELSE UNCHANGED twinVars
  BY Zenon DEF TwinRequestTimeout
<1>16. ASSUME Twin(db, simDb, name), FindAppInstance(simDb, a)
       PROVE  /\ Twin(db', simDb', name')
              /\ {same, aborted} \subseteq BOOLEAN => same' = same /\ aborted' = aborted
  <2> HIDE DEF ready, d
  <2>1. /\ SimCancelled(simDb, name[r]) = Cancelled(db, r)
        /\ ready[a].live /\ Twin(d, ready, name)
    BY <1>1, <1>16, CancelTwins DEF FindAppInstance, ready, d
  <2>2. SimInState(ready, a, {"READY"}) = Ready(d, a)
    BY <1>1, <2>1, StatesAre DEF Ready
  <2> DEFINE B == {a} \cap {b \in AppIds : more}
  <2>3. more <=> again /\ ~ inChange
    BY <2>2
  <2> HIDE DEF more, again
  <2>4. TwinSends(ready, B) /\ B \in SUBSET AppIds
    BY <1>15, <1>16
  <2>5. \/ B = {} /\ db' = d
        \/ d.lastRid + MaxApps <= MaxRequests /\ db' = Searching(d, {b \in B : Ready(d, b) # {}})
    <3>1. CASE more
      <4>1. B = {a} /\ Ready(d, a) # {}
        BY <1>1, <2>3, <3>1 DEF again
      <4>2. A = {b \in B : Ready(d, b) # {}}
        BY <1>13, <4>1
      <4> HIDE DEF A, B
      <4> QED BY <1>2, <1>3, <1>14, <2>3, <3>1, <4>2
    <3>2. CASE ~ more
      BY <1>14, <2>3, <3>2
    <3> QED BY <3>1, <3>2
  <2> HIDE DEF B
  <2>6. Twin(db', simDb', name')
    BY <1>3, <2>1, <2>4, <2>5, SendsTwins
  <2>7. {same, aborted} \subseteq BOOLEAN => same' = same /\ aborted' = aborted
    <3>1. Agreed(SimCancelled(simDb, name[r]) = Cancelled(db, r))
      BY <1>15, <1>16
    <3> QED BY <2>1, <3>1 DEF Agreed
  <2> QED BY <2>6, <2>7
<1>17. ASSUME Twin(db, simDb, name), ~ FindAppInstance(simDb, a)
       PROVE  Twin(db', simDb', name') /\ same' = same /\ aborted' = aborted
  <2>1. simDb' = simDb /\ name' = name /\ same' = same /\ aborted' = aborted
    BY <1>15, <1>17 DEF twinVars
  <2>2. ~ simDb[a].live
    BY <1>17 DEF FindAppInstance
  <2> HIDE DEF d, A, again
  <2>3. Twin(d, simDb, name)
    BY <1>1, <1>17, <2>2, CancelTwins DEF d
  <2>4. CASE db' = d
    BY <2>1, <2>3, <2>4
  <2>5. CASE db' = Searching(d, A) /\ again
    <3>1. A = {a} /\ Ready(d, a) # {}
      BY <1>13, <2>5 DEF again
    <3> HIDE DEF a
    <3>2. /\ name = [q \in Rids |-> name[q]]
          /\ \A q \in Rids : q > d.lastRid => name[q] = <<1, 0>>
      BY <2>3 DEF Twin, NamesOK
    <3>3. 1 \in AppIds /\ d.lastRid \in Int /\ \A q \in Rids : q \in Int
      BY <1>3, Numbers DEF AppIds, DbOK, Databases
    <3>4. \A q \in Rids : ~(q <= d.lastRid) => name[q][1] \in AppIds /\ name[q][2] = 0
      BY <3>2, <3>3
    <3>5. ASSUME NEW b \in AppIds, simDb[b].live PROVE b \notin A
      BY <2>2, <3>1, <3>5
    <3>6. Asks(d, A, simDb, simDb, name, name)
      BY <3>2, <3>4, <3>5 DEF Asks
    <3>7. simDb \in SimDatabases
      BY <2>3 DEF Twin
    <3>8. A \in SUBSET AppIds /\ \A b \in A : Ready(d, b) # {}
      BY <1>1, <3>1
    <3>9. Twin(Searching(d, A), simDb, name)
      BY <1>2, <1>3, <2>3, <3>6, <3>7, <3>8, SearchingTwins
    <3> QED BY <2>1, <2>5, <3>9
  <2> QED BY <1>14, <2>4, <2>5
<1> QED BY <1>14, <1>16, <1>17

\* SubmissionNode::handle(HeartbeatTimeout)
LEMMA HeartbeatTimeoutTwins ==
  ASSUME IInv, CountInv, KeysInv, Tried(timers, fired, retries), NEW h \in Hosts,
         TwinHeartbeatTimeout(h)
  PROVE  /\ Twin(db, simDb, name) => Twin(db', simDb', name')
         /\ Tried(timers', fired', retries')
<1> DEFINE d    == DeadNode(db, h)
           S    == SimDeadNode(simDb, h)
           lost == [a \in AppIds |-> IF remote[h][a] > 0 THEN 0 ELSE NoEntry]
           rest == [a \in AppIds |-> IF lost[a] = NoEntry THEN remaining[a]
                                     ELSE Sub(Value(remaining[a]), remote[h][a])]
           none == [remote EXCEPT ![h] = [a \in AppIds |-> 0]]
           s    == [Current EXCEPT
                      !.db = d,
                      !.remaining = [a \in AppIds |-> IF lost[a] = NoEntry THEN @[a]
                                       ELSE Sub(Value(@[a]), remote[h][a])],
                      !.remote[h] = [a \in AppIds |-> 0]]
           B    == {a \in AppIds : lost[a] # NoEntry /\ ~ inChange}
<1>1. DbOK(d) /\ d.lastRid = db.lastRid
  <2>1. Timed(db, timers \cup (fired \cup Lost))
    BY DEF IInv, NodeInv
  <2> QED BY <2>1, CurrentCounts, DeadNodeOK
<1>2. /\ Becomes(SendRequests(s, lost, inChange))
      /\ \E i \in TimerIds : fired' = fired \ {HeartbeatTimer(h, i)}
      /\ db.lastRid + MaxApps <= MaxRequests /\ inChange \in BOOLEAN
  BY DEF TwinHeartbeatTimeout, HandleHeartbeatTimeout, envVars, RequestsLeft, IInv, NodeInv
<1>3. Twin(db, simDb, name) => Twin(d, S, name)
  BY CurrentCounts, DeadTwins
<1>4. TwinSends(S, B)
  <2>1. B = {a \in AppIds : remote[h][a] > 0 /\ ~ inChange}
    BY DEF NoEntry
  <2> HIDE DEF B
  <2> QED BY <2>1 DEF TwinHeartbeatTimeout
<1>5. /\ rest \in [AppIds -> (0 .. UIntMax) \cup {NoEntry}]
      /\ none \in [Hosts -> [AppIds -> Nat]]
      /\ lost \in Calls
  <2>1. /\ \A a \in AppIds : remaining[a] \in (0 .. UIntMax) \cup {NoEntry}
        /\ remote \in [Hosts -> [AppIds -> Nat]]
    BY CurrentCounts, TypesOfCurrent
  <2>2. \A a \in AppIds : Value(remaining[a]) \in Int /\ remote[h][a] \in Int
    BY <2>1, SubmissionConstants DEF Value, NoEntry, SubmissionConstants
  <2>3. \A a \in AppIds : Sub(Value(remaining[a]), remote[h][a]) \in 0 .. UIntMax
    BY <2>2, Unsigned
  <2>4. rest \in [AppIds -> (0 .. UIntMax) \cup {NoEntry}]
    BY <2>1, <2>3
  <2> QED BY <2>1, <2>4 DEF Calls
<1> HIDE DEF d, S, rest, none, lost
<1>6. s \in States /\ s.db = d /\ s.timers = timers /\ s.retries = retries
  <2>1. s = [Current EXCEPT !.db = d, !.remaining = rest, !.remote = none]
    BY DEF Current, rest, none
  <2> HIDE DEF s
  <2> QED BY <1>1, <1>5, <2>1, CurrentCounts, TypesOfCurrent DEF Current, States, DbOK
<1> HIDE DEF s
<1>7. Tried(timers, fired', retries)
  BY <1>2 DEF Tried
<1>8. \A r \in Rids : RequestTimer(r) \in fired' => r <= db.lastRid
  BY <1>2, FiredAreOld
<1> QED BY <1>1, <1>2, <1>3, <1>4, <1>5, <1>6, <1>7, <1>8, SendTwins

\* SubmissionNode::handle(AcceptTaskMsg)
LEMMA AcceptTaskTwins ==
  ASSUME IInv, CountInv, KeysInv, Tried(timers, fired, retries), NEW m \in net, TwinAcceptTask(m)
  PROVE  /\ Twin(db, simDb, name) => Twin(db', simDb', name')
         /\ Tried(timers', fired', retries')
         /\ {same, aborted} \subseteq BOOLEAN /\ Twin(db, simDb, name) =>
              same' = same /\ aborted' = aborted
<1> DEFINE h == m.node
           r == m.rid
           a == GetInstanceId(db, r)
           num == Cardinality(Accepted(db, a, {r} \X m.rtids))
<1>1. /\ h \in Hosts /\ r \in Rids /\ m.rtids \in SUBSET TaskIds /\ Named(db, r)
      /\ a = db.request[r]
  <2>1. m \in Messages /\ m.type = "accept" /\ Named(db, r)
    BY DEF IInv, EnvInv, TwinAcceptTask, HandleAcceptTask
  <2> QED BY <2>1 DEF Messages, GetInstanceId
<1>2. /\ db' = AcceptedTasks(db, h, {r} \X m.rtids) /\ fired' = fired
      /\ retries' = retries \/ retries' = [retries EXCEPT ![r] = 0]
      /\ timers' = timers \/ timers' = timers \cup {HeartbeatTimer(h, NewTimer(h))}
  BY DEF TwinAcceptTask, HandleAcceptTask, Arrives
<1>3. /\ simDb' = SimAcceptedTasks(simDb, h, name[r], m.rtids) /\ name' = name
      /\ Agreed(FindAppInstance(simDb, a) =>
                  SimAccepted(simDb, name[r], m.rtids) = Accepted(db, a, {r} \X m.rtids))
  BY DEF TwinAcceptTask
<1>4. ASSUME Twin(db, simDb, name)
      PROVE  /\ Twin(db', simDb', name')
             /\ {same, aborted} \subseteq BOOLEAN => same' = same /\ aborted' = aborted
  <2>1. /\ Twin(AcceptedTasks(db, h, {r} \X m.rtids),
                SimAcceptedTasks(simDb, h, name[r], m.rtids), name)
        /\ simDb[a].live =>
             SimAccepted(simDb, name[r], m.rtids) = Accepted(db, a, {r} \X m.rtids)
    <3> DEFINE I == m.rtids
    <3>1. DbOK(db) /\ Numbered(db) /\ Twin(db, simDb, name)
      BY <1>4, CurrentCounts
    <3>2. h \in Hosts /\ r \in Rids /\ I \in SUBSET TaskIds /\ Named(db, r) /\ a = db.request[r]
      BY <1>1
    <3> HIDE DEF h, r, a, I
    <3>3. /\ Twin(AcceptedTasks(db, h, {r} \X I), SimAcceptedTasks(simDb, h, name[r], I), name)
          /\ simDb[db.request[r]].live =>
               SimAccepted(simDb, name[r], I) = Accepted(db, db.request[r], {r} \X I)
      BY ONLY <3>1, <3>2, AcceptedTwins
    <3> QED BY <3>2, <3>3 DEF I
  <2> QED BY <1>2, <1>3, <2>1 DEF Agreed, FindAppInstance
<1>5. retries \in [Rids -> (0 .. SubmitRetries) \cup {1, NoEntry}]
  BY CurrentCounts, TypesOfCurrent
<1>6. /\ \A q \in Rids : retries[q] # NoEntry => retries'[q] # NoEntry
  BY <1>2, <1>5 DEF NoEntry
<1>7. \A q \in Rids : RequestTimer(q) \in timers' <=> RequestTimer(q) \in timers
  BY <1>2 DEF RequestTimer, HeartbeatTimer
<1>8. Tried(timers', fired', retries')
  BY <1>2, <1>6, <1>7 DEF Tried
<1> QED BY <1>4, <1>8

\* SubmissionNode::handle(TaskMonitorMsg): a report assigns nothing, and the task it
\* ends is the node's in both, or has finished.
LEMMA TaskMonitorTwins ==
  ASSUME Punctual, IInv, CountInv, KeysInv, Tried(timers, fired, retries), NEW m \in net,
         TwinTaskMonitor(m)
  PROVE  /\ Tried(timers', fired', retries')
         /\ aborted \in BOOLEAN => aborted' \in BOOLEAN
         /\ {same, aborted} \subseteq BOOLEAN /\ ~ aborted' => ~ aborted
         /\ Twin(db, simDb, name) /\ ~ aborted' /\ {same, aborted} \subseteq BOOLEAN =>
              same' = same /\ Twin(db', simDb', name')
<1> DEFINE h     == m.node
           K     == m.tasks
           d     == AcceptedTasks(db, h, K)
           s1    == [Current EXCEPT !.db = AcceptedTasks(@, h, m.tasks)]
           k     == CHOOSE q \in m.finished : TRUE
           s2    == IF m.finished = {} THEN s1 ELSE FinishOne(s1, h, k)
           s3    == IF m.aborted = {} THEN s2
                    ELSE AbortOne(s2, h, CHOOSE q \in m.aborted : TRUE)
           watch == \E a \in AppIds : s3.remote[h][a] > 0
           armed == Rearmed(s3.timers, h, watch)
<1>1. /\ m \in Messages /\ m.type = "monitor" /\ h \in Hosts
      /\ m.tasks \in SUBSET Keys /\ m.finished \in SUBSET Keys
      /\ KeysOf(m) = m.tasks \cup m.finished \cup m.aborted
      /\ \A q \in KeysOf(m) : Named(db, q[1])
  <2>1. m \in Messages /\ m.type = "monitor" /\ \A q \in KeysOf(m) : Named(db, q[1])
    BY DEF IInv, EnvInv, TwinTaskMonitor, HandleTaskMonitor
  <2> QED BY <2>1 DEF Messages, KeysOf
<1>2. /\ Arrives(m) /\ UNCHANGED <<fired, running>>
      /\ Becomes([s3 EXCEPT !.timers = Rearmed(@, h, watch)])
  BY Zenon DEF TwinTaskMonitor, HandleTaskMonitor
<1>3. ~ \E q \in net : q.node = h /\ q.type = "accept"
  BY <1>1, <1>2 DEF Arrives, Punctual
<1>4. \A q \in KeysOf(m) \cap Keys : Kept(db, h, q)
  <2>1. ASSUME NEW q \in KeysOf(m) \cap Keys PROVE Kept(db, h, q)
    <3>1. Holds(running, net, h, q) /\ ~ Coming(net, h, q)
      BY <1>3 DEF Holds, Coming
    <3> QED BY <1>1, <3>1 DEF KeysInv, HoldsOK
  <2> QED BY <2>1
<1>5. \A x \in db.taskRequest : <<x[1], x[2]>> \in K => TaskOf(db, x).state # "SEARCHING"
  <2>1. ASSUME NEW x \in db.taskRequest, <<x[1], x[2]>> \in K
        PROVE  TaskOf(db, x).state # "SEARCHING"
    <3> DEFINE q == <<x[1], x[2]>>
    <3>1. q \in KeysOf(m) \cap Keys
      BY <1>1, <2>1
    <3>2. PICK y \in db.taskRequest : /\ Names(q, y)
                                      /\ TaskOf(db, y).state \in {"FINISHED", "EXECUTING"}
      <4> HIDE DEF q
      <4> QED BY <1>4, <3>1 DEF Kept
    <3>3. x[1] = y[1] /\ x[3] = y[3]
      BY <3>2, CurrentCounts, OneRow DEF Names
    <3> QED BY <3>2, <3>3 DEF TaskOf
  <2> QED BY <2>1
<1>6. \A L \in SUBSET K : \A a \in AppIds : Accepted(db, a, L) = {}
  <2>1. ASSUME NEW L \in SUBSET K, NEW a \in AppIds, NEW t \in Accepted(db, a, L) PROVE FALSE
    <3>1. PICK x \in db.taskRequest :
            <<x[1], x[2]>> \in L /\ GetInstanceId(db, x[1]) = a /\ x[3] = t
      BY DEF Accepted, TidsOf
    <3>2. db.task[a][t].state = "SEARCHING"
      BY DEF Accepted, InState
    <3> QED BY <1>5, <3>1, <3>2 DEF TaskOf, GetInstanceId
  <2> QED BY <2>1
<1>7. /\ DbOK(d) /\ Numbered(d) /\ d \in Databases
      /\ d.request = db.request /\ d.lastRid = db.lastRid /\ d.taskRequest = db.taskRequest
      /\ \A a \in AppIds : \A t \in TaskIds : d.task[a][t] = db.task[a][t]
      /\ \A q \in Keys : Kept(db, h, q) => Kept(d, h, q)
  <2>1. Timed(db, timers \cup (fired \cup Lost)) /\ DbOK(db) /\ db \in Databases
        /\ Numbered(db) /\ h \in Hosts /\ K \in SUBSET Keys
    BY <1>1, CurrentCounts DEF IInv, NodeInv
  <2> HIDE DEF K, h
  <2>2. DbOK(d) /\ d.lastRid = db.lastRid
    BY ONLY <2>1, AcceptedTasksOK DEF d
  <2>3. /\ d \in Databases /\ d.request = db.request /\ d.taskRequest = db.taskRequest
        /\ \A a \in AppIds : \A t \in TaskIds :
             d.task[a][t] = IF t \in Accepted(db, a, K) THEN [state |-> "EXECUTING", host |-> h]
                            ELSE db.task[a][t]
    BY ONLY <2>1, AcceptedTasksRows DEF d
  <2>4. \A a \in AppIds : Accepted(db, a, K) = {}
    BY <1>6
  <2>5. \A a \in AppIds : \A t \in TaskIds : d.task[a][t] = db.task[a][t]
    BY <2>3, <2>4
  <2>6. Numbered(d) /\ \A q \in Keys : Kept(db, h, q) => Kept(d, h, q)
    BY ONLY <2>1, AcceptedCounts DEF d
  <2> QED BY <2>2, <2>3, <2>5, <2>6
<1> HIDE DEF d
<1>8. /\ s1 \in States /\ s1.db = d /\ s1.timers = timers /\ s1.retries = retries
  <2>1. s1 = [Current EXCEPT !.db = d]
    BY DEF Current, d
  <2> HIDE DEF s1
  <2> QED BY <1>7, <2>1, CurrentCounts, TypesOfCurrent DEF Current, States
<1> DEFINE e == IF m.finished = {} THEN d ELSE FinishedTask(d, h, k)
<1>9. s2.db = e /\ s2.timers = timers /\ s2.retries = retries
  <2> HIDE DEF s1, k
  <2>1. CASE m.finished = {}
    BY <1>8, <2>1
  <2>2. CASE m.finished # {}
    <3> DEFINE a     == GetInstanceId(s1.db, k[1])
               credited == FinishedTaskReturns(s1.db, k) /\ s1.remote[h][a] > 0
               left  == Sub(s1.remaining[a], 1)
               at    == [s1.remote EXCEPT ![h][a] = IF credited THEN @ - 1 ELSE @]
               rest  == [s1.remaining EXCEPT ![a] = IF ~credited \/ @ = NoEntry THEN @
                                                    ELSE IF left = 0 THEN NoEntry ELSE left]
               x     == FinishedTask(s1.db, h, k)
    <3>1. s2 = [s1 EXCEPT !.db = x, !.remote = at, !.remaining = rest]
      BY <2>2 DEF FinishOne
    <3>2. s1 = [db |-> s1.db, remaining |-> s1.remaining, retries |-> s1.retries,
                timers |-> s1.timers, offered |-> s1.offered, delayed |-> s1.delayed,
                remote |-> s1.remote]
      BY <1>8 DEF States
    <3> HIDE DEF x, at, rest, s2
    <3>3. s2.db = x /\ s2.timers = s1.timers /\ s2.retries = s1.retries
      BY <3>1, <3>2
    <3> QED BY <1>8, <2>2, <3>3 DEF x
  <2> QED BY <2>1, <2>2
<1> HIDE DEF s2, e
<1>10. s3 = s2
  BY <1>1, AbortedTaskFails DEF AbortOne, h
<1>11. db' = e /\ retries' = retries /\ timers' = armed
  <2> DEFINE n == [s2 EXCEPT !.timers = armed]
  <2>1. Becomes(n)
    BY <1>2, <1>10, Zenon
  <2>2. s2 \in [db : {s2.db}, remaining : {s2.remaining}, retries : {s2.retries},
                timers : {s2.timers}, offered : {s2.offered}, delayed : {s2.delayed},
                remote : {s2.remote}]
    <3> HIDE DEF s1, k
    <3>1. s1 \in States
      BY <1>8
    <3> QED BY <3>1 DEF s2, FinishOne, States
  <2> HIDE DEF armed
  <2>3. n.db = s2.db /\ n.retries = s2.retries /\ n.timers = armed
    BY <2>2
  <2> HIDE DEF n
  <2> QED BY <1>9, <2>1, <2>3 DEF Becomes
<1>12. \A q \in Rids : RequestTimer(q) \in timers' <=> RequestTimer(q) \in timers
  <2>1. armed = Rearmed(timers, h, watch)
    BY <1>9, <1>10
  <2> HIDE DEF watch, armed
  <2> QED BY <1>11, <2>1 DEF Rearmed, RequestTimer, HeartbeatTimer
<1>13. Tried(timers', fired', retries')
  BY <1>2, <1>11, <1>12 DEF Tried
<1> HIDE DEF s1, s3, armed, watch
<1> DEFINE accepted == [a \in AppIds |->
             [simDb[a] EXCEPT !.tasks = [t \in TaskIds |->
                IF \E q \in m.tasks : /\ name[q[1]][1] = a
                                      /\ t \in SimAccepted(simDb, name[q[1]], {q[2]})
                THEN [state |-> "EXECUTING", host |-> m.node] ELSE @[t]]]]
           j == CHOOSE q \in m.finished \cup m.aborted : TRUE
           b == GetInstanceId(db, j[1])
           finished == m.finished # {}
           repeated == TidsOf(db, {j}) \cap InState(db, b, {"FINISHED"}) # {}
<1>14. /\ name' = name
       /\ simDb' = Erased(
            IF finished THEN SimFinishedTask(accepted, name[j[1]], j[2])
            ELSE IF m.aborted # {} THEN SimAbortedTask(accepted, name[j[1]], j[2])
            ELSE accepted)
       /\ aborted' = (aborted \/ m.aborted # {})
       /\ same' = (same /\ (finished /\ ~repeated /\ FindAppInstance(simDb, b) =>
            SimFinishedTaskReturns(accepted, name[j[1]], j[2]) = FinishedTaskReturns(db, j)))
  BY Zenon DEF TwinTaskMonitor
<1> HIDE DEF accepted
<1>15. ASSUME Twin(db, simDb, name), ~ aborted', {same, aborted} \subseteq BOOLEAN
       PROVE  same' = same /\ Twin(db', simDb', name')
  <2>1. m.aborted = {} /\ simDb \in SimDatabases
    BY <1>14, <1>15 DEF Twin
  <2>2. ASSUME NEW q \in m.tasks PROVE SimAccepted(simDb, name[q[1]], {q[2]}) = {}
    <3>1. /\ q[1] \in Rids /\ {q[2]} \in SUBSET TaskIds /\ Named(db, q[1])
          /\ {q[1]} \X {q[2]} \in SUBSET K /\ db.request[q[1]] \in AppIds
      <4>1. q \in Keys /\ Named(db, q[1])
        BY <1>1
      <4>2. q[1] \in Rids /\ q[2] \in TaskIds /\ q = <<q[1], q[2]>>
        BY <4>1 DEF Keys
      <4>3. {q[1]} \X {q[2]} = {q}
        BY <4>2
      <4> QED BY <4>1, <4>2, <4>3 DEF Named
    <3>2. /\ simDb[db.request[q[1]]].live =>
               SimAccepted(simDb, name[q[1]], {q[2]})
                 = Accepted(db, db.request[q[1]], {q[1]} \X {q[2]})
          /\ ~ simDb[db.request[q[1]]].live => SimAccepted(simDb, name[q[1]], {q[2]}) = {}
      <4> DEFINE r == q[1]
                 I == {q[2]}
      <4>1. DbOK(db) /\ Numbered(db) /\ Twin(db, simDb, name)
        BY <1>15, CurrentCounts
      <4>2. h \in Hosts /\ r \in Rids /\ I \in SUBSET TaskIds /\ Named(db, r)
        BY <1>1, <3>1
      <4> HIDE DEF h, r, I
      <4>3. /\ Twin(AcceptedTasks(db, h, {r} \X I), SimAcceptedTasks(simDb, h, name[r], I), name)
            /\ simDb[db.request[r]].live =>
                 SimAccepted(simDb, name[r], I) = Accepted(db, db.request[r], {r} \X I)
            /\ ~ simDb[db.request[r]].live => SimAccepted(simDb, name[r], I) = {}
        BY ONLY <4>1, <4>2, AcceptedTwins
      <4> QED BY <4>3 DEF r, I
    <3> QED BY <1>6, <3>1, <3>2
  <2>3. accepted = simDb
    <3>1. \A a \in AppIds : accepted[a] = [simDb[a] EXCEPT !.tasks = [t \in TaskIds |-> @[t]]]
      BY <2>2 DEF accepted
    <3>2. ASSUME NEW a \in AppIds PROVE accepted[a] = simDb[a]
      <4> DEFINE x == simDb[a]
      <4>1. x \in Instances
        BY <2>1 DEF SimDatabases
      <4>2. [t \in TaskIds |-> x.tasks[t]] = x.tasks
        BY <4>1 DEF Instances
      <4>3. accepted[a] = [x EXCEPT !.tasks = x.tasks]
        BY <3>1, <4>2
      <4> HIDE DEF x
      <4>4. [x EXCEPT !.tasks = x.tasks] = x
        BY <4>1 DEF Instances
      <4> QED BY <4>3, <4>4 DEF x
    <3>3. accepted = [a \in AppIds |-> accepted[a]]
      BY DEF accepted
    <3> QED BY <2>1, <3>2, <3>3 DEF SimDatabases
  <2>4. Twin(d, simDb, name)
    BY <1>7, <1>15, CurrentCounts, SameTwins
  <2>5. CASE m.finished = {}
    <3>1. simDb' = Erased(simDb) /\ same' = same /\ db' = d
      BY <1>11, <1>14, <1>15, <2>1, <2>3, <2>5 DEF e
    <3> QED BY <1>14, <2>1, <2>4, <3>1, ErasedIs, ErasesTwins
  <2>6. CASE m.finished # {}
    <3>1. j = k /\ k \in m.finished
      BY <2>1, <2>6
    <3> HIDE DEF j, k
    <3>2. /\ k \in Keys /\ Kept(d, h, k) /\ Named(d, k[1])
      BY <1>1, <1>4, <1>7, <3>1 DEF Named
    <3> DEFINE Z == SimFinishedTask(simDb, name[k[1]], k[2])
    <3>3. /\ Twin(FinishedTask(d, h, k), Z, name)
          /\ simDb[d.request[k[1]]].live => SimFinishedTaskReturns(simDb, name[k[1]], k[2])
      <4> HIDE DEF h
      <4> QED BY <1>1, <1>7, <2>4, <3>2, FinishedTwins DEF h
    <3>4. simDb' = Erased(Z) /\ db' = FinishedTask(d, h, k)
      BY <1>11, <1>14, <2>3, <2>6, <3>1 DEF e
    <3> HIDE DEF Z
    <3>5. Z \in SimDatabases
      BY <3>3 DEF Twin
    <3>6. Twin(db', simDb', name')
      BY <1>14, <3>3, <3>4, <3>5, ErasedIs, ErasesTwins
    <3>7. same' = same
      <4>1. ~repeated => FinishedTaskReturns(db, k)
        BY <3>1 DEF FinishedTaskReturns
      <4>2. FindAppInstance(simDb, b) => SimFinishedTaskReturns(accepted, name[k[1]], k[2])
        BY <1>7, <2>3, <3>1, <3>3 DEF FindAppInstance, GetInstanceId
      <4>3. SimFinishedTaskReturns(accepted, name[k[1]], k[2]) \in BOOLEAN
            /\ FinishedTaskReturns(db, k) \in BOOLEAN
        BY DEF SimFinishedTaskReturns, FinishedTaskReturns
      <4> HIDE DEF repeated, b
      <4> QED BY <1>14, <1>15, <3>1, <4>1, <4>2, <4>3
    <3> QED BY <3>6, <3>7
  <2> QED BY <2>5, <2>6
<1> QED BY <1>13, <1>14, <1>15

-----------------------------------------------------------------------------
(* The invariant, and the theorem.                                         *)

\* As long as no abortion is reported, the databases are twins.
TwinInv ==
  /\ {same, aborted} \subseteq BOOLEAN
  /\ Tried(timers, fired, retries)
  /\ ~ aborted => same /\ Twin(db, simDb, name)

\* It holds at the start.
LEMMA TwinInit == SimInit => TwinInv
<1> SUFFICES ASSUME SimInit PROVE TwinInv
  OBVIOUS
<1>1. /\ db = EmptyDatabase /\ timers = {} /\ fired = {}
      /\ simDb = [a \in AppIds |-> NoInstance] /\ name = [r \in Rids |-> <<1, 0>>]
      /\ same = TRUE /\ aborted = FALSE
  BY DEF SimInit, Init, SimEmptyDatabase
<1>2. Tried(timers, fired, retries)
  BY <1>1 DEF Tried
<1>3. \A r \in Rids : db.request[r] = NoApp
  BY <1>1 DEF EmptyDatabase
<1>4. Made(db)
  BY <1>3 DEF Made
<1>5. NamesOK(db, name)
  <2>1. \A r \in Rids : name[r] = <<1, 0>> /\ db.request[r] \notin AppIds
    BY <1>1, <1>3, Numbers DEF NoApp
  <2>2. name = [r \in Rids |-> name[r]]
    BY <1>1
  <2> QED BY <2>1, <2>2 DEF NamesOK
<1>6. NoInstance \in Instances /\ ~ NoInstance.live
  <2>1. NoRow \in TaskRow
    BY DEF NoRow, TaskRow, TaskStates
  <2>2. <<>> \in Seq(Lists)
    OBVIOUS
  <2> QED BY <2>1, <2>2 DEF NoInstance, Instances
<1>7. Twin(db, simDb, name)
  <2> HIDE DEF NoInstance
  <2> QED BY <1>1, <1>4, <1>5, <1>6 DEF Twin, SimDatabases
<1> QED BY <1>1, <1>2, <1>7 DEF TwinInv

\* The other steps leave both databases and the timers of requests.
LEMMA ApartTwins ==
  ASSUME Tried(timers, fired, retries), Apart
  PROVE  db' = db /\ Tried(timers', fired', retries')
<1>1. ASSUME NEW t, Expire(t) PROVE db' = db /\ Tried(timers', fired', retries')
  BY <1>1 DEF Expire, Tried
<1>2. ASSUME UNCHANGED <<db, nodeVars>> PROVE db' = db /\ Tried(timers', fired', retries')
  BY <1>2 DEF nodeVars
<1>3. CASE FatherChanging
  BY <1>3 DEF FatherChanging
<1>4. ASSUME NEW r \in Rids, ExpireRequest(r) PROVE \E t : Expire(t)
  BY <1>4 DEF ExpireRequest
<1>5. ASSUME NEW h \in Hosts, NEW i \in TimerIds, ExpireHeartbeat(h, i) PROVE \E t : Expire(t)
  BY <1>5 DEF ExpireHeartbeat
<1>6. ASSUME NEW h \in Hosts, NEW r \in Rids, NEW f \in TaskIds, NEW l \in TaskIds,
             NodeAccepts(h, r, f, l)
      PROVE  UNCHANGED <<db, nodeVars>>
  BY <1>6 DEF NodeAccepts
<1>7. ASSUME NEW r \in Rids, NobodyAccepts(r) PROVE UNCHANGED <<db, nodeVars>>
  BY <1>7 DEF NobodyAccepts
<1>8. ASSUME NEW x \in running, TaskExits(x) \/ NodeFinishes(x) \/ NodeAborts(x)
      PROVE  UNCHANGED <<db, nodeVars>>
  BY <1>8 DEF TaskExits, NodeFinishes, NodeAborts
<1>9. ASSUME NEW h \in Hosts, NodeReminds(h) \/ NodeFails(h) PROVE UNCHANGED <<db, nodeVars>>
  BY <1>9 DEF NodeReminds, NodeFails
<1> QED BY <1>1, <1>2, <1>3, <1>4, <1>5, <1>6, <1>7, <1>8, <1>9 DEF Apart

\* Every step keeps it.
LEMMA TwinStep ==
  ASSUME Punctual, IInv, CountInv, KeysInv, TwinInv, [SimNext]_simVars
  PROVE  TwinInv'
<1>1. /\ {same, aborted} \subseteq BOOLEAN /\ Tried(timers, fired, retries)
      /\ ~ aborted => same /\ Twin(db, simDb, name)
  BY DEF TwinInv
<1>2. ASSUME Tried(timers', fired', retries'), Agreed(TRUE),
             Twin(db, simDb, name) => Twin(db', simDb', name')
      PROVE  TwinInv'
  <2>1. same' = same /\ aborted' = aborted
    BY <1>1, <1>2 DEF Agreed
  <2> QED BY <1>1, <1>2, <2>1 DEF TwinInv
<1>3. CASE TwinFatherChanged
  BY <1>1, <1>2, <1>3, FatherChangedTwins DEF TwinFatherChanged
<1>4. ASSUME NEW a \in AppIds, TwinDispatch(a) PROVE TwinInv'
  BY <1>1, <1>2, <1>4, DispatchTwins DEF TwinDispatch
<1>5. ASSUME NEW h \in Hosts, TwinHeartbeatTimeout(h) PROVE TwinInv'
  BY <1>1, <1>2, <1>5, HeartbeatTimeoutTwins DEF TwinHeartbeatTimeout
<1>6. ASSUME Tried(timers', fired', retries'), aborted' = aborted, same' \in BOOLEAN,
             Twin(db, simDb, name) => same' = same /\ Twin(db', simDb', name')
      PROVE  TwinInv'
  BY <1>1, <1>6 DEF TwinInv
<1>7. ASSUME NEW r \in Rids, TwinRequestTimeout(r) PROVE TwinInv'
  <2>1. aborted' = aborted /\ same' \in BOOLEAN
    <3> DEFINE a == GetInstanceId(db, r)
    <3>1. Agreed(SimCancelled(simDb, name[r]) = Cancelled(db, r)) \/ UNCHANGED twinVars
      BY <1>7, Zenon DEF TwinRequestTimeout
    <3> QED BY <1>1, <3>1 DEF Agreed, twinVars
  <2> QED BY <1>1, <1>6, <1>7, <2>1, RequestTimeoutTwins
<1>8. ASSUME NEW m \in net, TwinAcceptTask(m) PROVE TwinInv'
  <2>1. aborted' = aborted /\ same' \in BOOLEAN
    <3>1. PICK b \in BOOLEAN : Agreed(b)
      BY <1>8 DEF TwinAcceptTask
    <3> QED BY <1>1, <3>1 DEF Agreed
  <2> QED BY <1>1, <1>6, <1>8, <2>1, AcceptTaskTwins
<1>9. ASSUME NEW m \in net, TwinTaskMonitor(m) PROVE TwinInv'
  <2>1. same' \in BOOLEAN
    BY <1>1, <1>9 DEF TwinTaskMonitor
  <2>2. /\ Tried(timers', fired', retries') /\ aborted' \in BOOLEAN
        /\ ~ aborted' => ~ aborted
        /\ Twin(db, simDb, name) /\ ~ aborted' => same' = same /\ Twin(db', simDb', name')
    BY <1>1, <1>9, TaskMonitorTwins
  <2> QED BY <1>1, <2>1, <2>2 DEF TwinInv
<1>10. CASE Apart /\ UNCHANGED twinVars
  <2>1. db' = db /\ Tried(timers', fired', retries')
    BY <1>1, <1>10, ApartTwins
  <2> QED BY <1>1, <1>10, <2>1 DEF TwinInv, twinVars
<1>11. CASE UNCHANGED simVars
  BY <1>1, <1>11 DEF TwinInv, simVars, vars, nodeVars, twinVars
<1> QED BY <1>3, <1>4, <1>5, <1>7, <1>8, <1>9, <1>10, <1>11 DEF SimNext

\* A step of the two is a step of the submission node.
LEMMA SimSteps == [SimNext]_simVars => [Next]_vars
<1>1. TwinFatherChanged => FatherChanged
  BY DEF TwinFatherChanged
<1>2. \A a \in AppIds : TwinDispatch(a) => DispatchCommand(a)
  BY DEF TwinDispatch
<1>3. \A r \in Rids : TwinRequestTimeout(r) => HandleRequestTimeout(r)
  BY Zenon DEF TwinRequestTimeout
<1>4. \A h \in Hosts : TwinHeartbeatTimeout(h) => HandleHeartbeatTimeout(h)
  BY DEF TwinHeartbeatTimeout
<1>5. \A m \in net : TwinAcceptTask(m) => HandleAcceptTask(m)
  BY DEF TwinAcceptTask
<1>6. \A m \in net : TwinTaskMonitor(m) => HandleTaskMonitor(m)
  BY Zenon DEF TwinTaskMonitor
<1>7. Apart => Next
  BY DEF Apart, Next
<1>8. UNCHANGED simVars => UNCHANGED vars
  BY DEF simVars
<1> QED BY <1>1, <1>2, <1>3, <1>4, <1>5, <1>6, <1>7, <1>8 DEF SimNext, Next

\* Twins give the same answers.
LEMMA TwinsAnswer == IInv /\ TwinInv => TwinsAgree
<1> SUFFICES ASSUME IInv, TwinInv, ~ aborted
             PROVE  /\ same
                    /\ \A a \in AppIds : FindAppInstance(simDb, a) =>
                         /\ \A s \in TaskStates :
                              SimInState(simDb, a, {s}) = InState(db, a, {s})
                         /\ \A t \in InState(db, a, {"EXECUTING"}) :
                              simDb[a].tasks[t].host = db.task[a][t].host
                         /\ \A r \in Rids : GetInstanceId(db, r) = a =>
                              \A i \in TaskIds :
                                TidsOf(db, {<<r, i>>}) = {Pointee(simDb, name[r], i)} \ {NoTask}
  BY DEF TwinsAgree
<1>1. same /\ Twin(db, simDb, name) /\ DbOK(db)
  BY CurrentIs DEF TwinInv, IInv, NodeInv, StateOK
<1>2. ASSUME NEW a \in AppIds, FindAppInstance(simDb, a)
      PROVE  /\ \A s \in TaskStates : SimInState(simDb, a, {s}) = InState(db, a, {s})
             /\ \A t \in InState(db, a, {"EXECUTING"}) :
                  simDb[a].tasks[t].host = db.task[a][t].host
             /\ \A r \in Rids : GetInstanceId(db, r) = a =>
                  \A i \in TaskIds :
                    TidsOf(db, {<<r, i>>}) = {Pointee(simDb, name[r], i)} \ {NoTask}
  <2>1. simDb[a].live
    BY <1>2 DEF FindAppInstance
  <2>2. \A s \in TaskStates : SimInState(simDb, a, {s}) = InState(db, a, {s})
    BY <1>1, <2>1, StatesAre
  <2>3. \A t \in InState(db, a, {"EXECUTING"}) : simDb[a].tasks[t].host = db.task[a][t].host
    BY <1>1, <2>1 DEF Twin, Paired, SameTasks, InState
  <2>4. ASSUME NEW r \in Rids, GetInstanceId(db, r) = a, NEW i \in TaskIds
        PROVE  TidsOf(db, {<<r, i>>}) = {Pointee(simDb, name[r], i)} \ {NoTask}
    BY <1>1, <2>1, <2>4, PointersAre DEF GetInstanceId
  <2> QED BY <2>2, <2>3, <2>4
<1> QED BY <1>1, <1>2

\* What the submission node asks of TaskBagAppDatabase (TaskBagAppDatabase.cpp) and of
\* the database that the simulator links instead (SimAppDatabase.cpp) has the same
\* answer in every state, until the abortion of a task is reported.
THEOREM TwinsAlwaysAgree == ASSUME Punctual PROVE SimSpec => []TwinsAgree
<1>1. SimInit => IInv /\ CountInv /\ KeysInv /\ TwinInv
  BY InvInit, CountersInit, TwinInit DEF SimInit
<1>2. IInv /\ CountInv /\ KeysInv /\ TwinInv /\ [SimNext]_simVars
        => (IInv /\ CountInv /\ KeysInv /\ TwinInv)'
  BY SimSteps, InvStep, CountersStep, TwinStep
<1> QED BY <1>1, <1>2, TwinsAnswer, PTL DEF SimSpec

=============================================================================
