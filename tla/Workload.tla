------------------------------ MODULE Workload ------------------------------
(***************************************************************************)
(* What the simulator asks of the system it simulates: the processes that  *)
(* submit applications (oldsim/cases/dispatcher.cpp: uniformProcess,       *)
(* poissonProcess, repeat and siteLevel; cases/manySearches.cpp), the      *)
(* generator of their descriptions (RequestGenerator.cpp) and the          *)
(* statistics of tasks and applications (LibStarsStatistics.cpp).          *)
(*                                                                         *)
(* A description is the number of the command it was generated for; those  *)
(* of siteLevel, and its deadlines, are not told apart.  The submission    *)
(* nodes and schedulers in between are left open: the tasks of an          *)
(* application are accepted, start, pause, abort and finish in any way     *)
(* (see SubmissionNode and Scheduler), and every command finds its node in *)
(* the network.  Time is a number of ticks from the start.                 *)
(***************************************************************************)
EXTENDS Integers, Sequences, FiniteSetsExt

CONSTANTS
  Cases,         \* the simulation cases that may be configured
  NumNodes,      \* Simulator::getNumNodes() with each of them
  NumSearches,   \* property num_searches with each, and the lines of the file of repeat
  Gaps,          \* the times between two submissions
  Releases,      \* the dates of release in the file of repeat
  NumTasks,      \* the tasks of an application
  Batches,       \* the values of batchCDF
  Pauses,        \* the values of interBatchTimeCDF
  Thoughts,      \* the values of thinkTimeCDF and breakTimeCDF
  Day,           \* the ticks of a day
  Morning,       \* User::morning
  Night,         \* User::night
  Deltas,        \* the values of User::deltaVariable
  Start,         \* the ticks from a Sunday's midnight until the simulation starts
  MaxSimTime,    \* property max_sim_time
  MaxTroubles    \* bound: tasks that pause or abort, applications given up

Tasks == 1 .. NumTasks

ASSUME WorkloadAssumption ==
  /\ Cases \subseteq {"uniform", "poisson", "repeat", "site", "many"}
  /\ NumNodes \in [Cases -> Nat \ {0}]
  /\ NumSearches \in [Cases -> Nat \ {0}] /\ {NumTasks, Day} \subseteq Nat \ {0}
  /\ Gaps \subseteq Nat \ {0} /\ {Releases, Pauses} \subseteq SUBSET Nat /\ Thoughts \subseteq Nat \ {0}
  /\ Batches \subseteq Nat \ {0}
  /\ Deltas \subseteq Int /\ Start \in Nat /\ {Morning, Night} \subseteq Int
  /\ \A d \in Deltas : 0 <= Morning + d /\ Morning < Night /\ Night + d < Day
  /\ {MaxSimTime, MaxTroubles} \subseteq Nat

VARIABLES
  case,       \* Simulator::simCase
  now,        \* Simulator::time
  events,     \* Simulator::events, in their order
  nextApp,    \* SimAppDatabase::nextApp of each node
  records,    \* repeat::apps
  submitted,  \* nextInstance: the commands so far
  finished,   \* remainingApps, finishedApps: the applications over so far
  users,      \* siteLevel::users
  jobs,       \* the instances of applications that are not over
  stats,      \* LibStarsStatistics
  troubles,   \* pauses, aborts and applications given up so far
  ended       \* Whether the statistics have been finished.

vars == <<case, now, events, nextApp, records, submitted, finished, users, jobs,
          stats, troubles, ended>>

Nodes == 0 .. NumNodes[case] - 1
Commands == 1 .. NumSearches[case]

-----------------------------------------------------------------------------
(* The queue of events.                                                    *)

\* Messages injected one after another into a queue: events come in the order
\* of their times, and those of the same time as they were injected.
InjectAll(q, new) ==
  LET all     == q \o new
      Rank(i) == Cardinality({j \in DOMAIN all :
                   all[j].t < all[i].t \/ (all[j].t = all[i].t /\ j <= i)})
  IN  [k \in DOMAIN all |-> all[CHOOSE i \in DOMAIN all : Rank(i) = k]]

InjectMessage(q, event) == InjectAll(q, <<event>>)

Dispatch(node, cmd, t) == [type |-> "dispatch", node |-> node, cmd |-> cmd, t |-> t]
UserEvent(node, t) == [type |-> "user", node |-> node, t |-> t]
SendJob(node, t) == [type |-> "send", node |-> node, t |-> t]

Pending(type, node) ==
  Cardinality({i \in DOMAIN events : events[i].type = type /\ events[i].node = node})

JobsOf(node) == {j \in jobs : j.node = node}

-----------------------------------------------------------------------------
(* The users of siteLevel.                                                 *)

\* The day of the week of time t, 0 on Sundays, and the hour of the day.
DayOfWeek(t) == ((Start + t) \div Day) % 7
Hour(t) == (Start + t) % Day

IsWorkTime(u, t) ==
  /\ u.weekdays <=> DayOfWeek(t) \notin {0, 6}
  /\ u.daytime <=> ~(Hour(t) < Morning + u.delta \/ Hour(t) > Night + u.delta)

WeekDaysDelta == <<1, 0, 0, 0, 0, 0, 2>>
WeekendDaysDelta == <<0, 5, 4, 3, 2, 1, 0>>

WakeHour(u) == (IF u.daytime THEN Morning ELSE Night) + u.delta

\* Mutant of GetWakeTime: the day is chosen before it is known to be tomorrow.
GetWakeTimeToday(u, t) ==
  LET later == IF WakeHour(u) < Hour(t) THEN 1 ELSE 0
      delta == IF u.weekdays THEN WeekDaysDelta ELSE WeekendDaysDelta
  IN  WakeHour(u) + (later + delta[DayOfWeek(t) + 1]) * Day - Hour(t)

\* How long a user sleeps who goes to sleep at time t.
GetWakeTime(u, t) ==
  LET later == IF WakeHour(u) < Hour(t) THEN 1 ELSE 0
      delta == IF u.weekdays THEN WeekDaysDelta ELSE WeekendDaysDelta
      today == DayOfWeek(t + later * Day)
  IN  WakeHour(u) + (later + delta[today + 1]) * Day - Hour(t)

\* A user who goes on: the new user and the events of the user.
Sleeps(u, n, t) ==
  {[user |-> [u EXCEPT !.state = "SLEEPING"],
    events |-> <<UserEvent(n, t + GetWakeTime(u, t))>>]}

Thinks(u, n, t) ==
  {[user |-> [u EXCEPT !.state = "WAIT_TT"], events |-> <<UserEvent(n, t + tt)>>] :
     tt \in Thoughts}

ThinksOrSleeps(u, n, t) == IF IsWorkTime(u, t) THEN Thinks(u, n, t) ELSE Sleeps(u, n, t)

\* A batch of jobs: the first one at once, the others one after another.
Spread(n, t, size) ==
  {[i \in 1 .. size |-> SendJob(n, t + when[i])] :
     when \in {w \in [1 .. size -> 0 .. (size - 1) * Max(Pauses)] :
                 w[1] = 0 /\ \A i \in 2 .. size : w[i] - w[i - 1] \in Pauses}}

GeneratesWorkload(u, n, t) ==
  UNION {{[user |-> [u EXCEPT !.batchSize = b, !.state = "WAIT_JOB_FINISH"], events |-> sends] :
            sends \in Spread(n, t, b)} : b \in Batches}

\* A timer of a user goes off.
Wakes(u, n, t) ==
  IF u.state = "SLEEPING" \/ IsWorkTime(u, t) THEN GeneratesWorkload(u, n, t) ELSE Sleeps(u, n, t)

\* Mutant of JobFinished: the user is not looked at when the batch is over.
JobFinishedAlone(u, n, t) == {[user |-> [u EXCEPT !.batchSize = @ - 1], events |-> <<>>]}

JobFinished(u, n, t) ==
  LET left == [u EXCEPT !.batchSize = @ - 1]
  IN  IF left.batchSize = 0 THEN ThinksOrSleeps(left, n, t)
      ELSE {[user |-> left, events |-> <<>>]}

Users ==
  [state : {"NEW"}, batchSize : {0}, daytime : BOOLEAN, weekdays : BOOLEAN, delta : Deltas]

-----------------------------------------------------------------------------
(* The five cases before the first event.                                  *)

\* RequestGenerator::generate makes command k and leaves its description.
Generate(next, client, k) == [next EXCEPT ![client] = k]

\* The lines of the file in the order of their release, as sort leaves them.
Sorted(file) == \A i, j \in DOMAIN file : i < j => file[i].release <= file[j].release
Files == {f \in [Commands -> [client : Nodes, release : Releases]] : Sorted(f)}

Nobody == [n \in Nodes |-> [state |-> "NEW"]]

PreStartProcess ==
  /\ users = Nobody /\ records = <<>> /\ submitted = 1
  /\ \E client \in Nodes :
       /\ nextApp = Generate([n \in Nodes |-> 0], client, 1)
       /\ events = <<Dispatch(client, 1, now)>>

\* manySearches describes its application to the current node only, which is
\* the last one that was set up; the other nodes keep an empty description.
PreStartMany ==
  /\ users = Nobody /\ records = <<>> /\ submitted = 1
  /\ nextApp = Generate([n \in Nodes |-> 0], NumNodes[case] - 1, 1)
  /\ \E client \in Nodes : events = <<Dispatch(client, 1, now)>>

PreStartRepeat ==
  /\ users = Nobody /\ submitted = 1
  /\ \E file \in Files :
       /\ records = Tail(file)
       /\ nextApp = [n \in Nodes |-> IF n = file[1].client THEN 1 ELSE 0]
       /\ events = <<Dispatch(file[1].client, 1, now + file[1].release)>>

\* The users come one after another, each with one event.
Setup(n) == UNION {ThinksOrSleeps(u, n, now) : u \in Users}

PreStartSite ==
  /\ records = <<>> /\ submitted = 0 /\ nextApp = [n \in Nodes |-> 0]
  /\ \E s \in [Nodes -> UNION {Setup(n) : n \in Nodes}] :
       /\ \A n \in Nodes : s[n] \in Setup(n)
       /\ users = [n \in Nodes |-> s[n].user]
       /\ events = InjectAll(<<>>, [i \in 1 .. NumNodes[case] |-> s[i - 1].events[1]])

Init ==
  /\ case \in Cases
  /\ now = 0
  /\ finished = 0 /\ jobs = {} /\ troubles = 0 /\ ended = FALSE
  /\ stats = [existing |-> 0, running |-> 0, apps |-> 0, unfinished |-> 0]
  /\ CASE case = "repeat" -> PreStartRepeat
       [] case = "site" -> PreStartSite
       [] case = "many" -> PreStartMany
       [] OTHER -> PreStartProcess

-----------------------------------------------------------------------------
(* The events.                                                             *)

DoContinue ==
  CASE case = "site" -> TRUE
    [] case = "many" -> submitted < NumSearches[case] \/ stats.existing > 0
    [] OTHER -> finished < NumSearches[case]

\* Simulator::run goes on.
Runs == ~ended /\ DoContinue /\ now < MaxSimTime

Arrives(type) ==
  /\ Runs /\ events # <<>>
  /\ Head(events).type = type
  /\ now' = Head(events).t

\* SubmissionNode::handle(DispatchCommandMsg) creates an instance of nextApp.
Instance(e, description) ==
  [id    |-> CHOOSE i \in 1 .. Cardinality(jobs) + 1 : \A j \in jobs : j.id # i,
   node  |-> e.node,
   cmd   |-> e.cmd,
   desc  |-> description[e.node],
   born  |-> now',
   tasks |-> [i \in Tasks |-> "sought"]]

(***************************************************************************)
(* The first two cases prepare the next command in beforeEvent, when the   *)
(* node has not handled this one: when both are for one node, this one     *)
(* finds the description of the next.                                      *)
(***************************************************************************)
HandleDispatchOfProcess ==
  /\ case \in {"uniform", "poisson"}
  /\ Arrives("dispatch")
  /\ IF submitted < NumSearches[case]
     THEN \E client \in Nodes, gap \in Gaps :
            /\ case = "uniform" => \A g \in Gaps : gap <= g
            /\ submitted' = submitted + 1
            /\ nextApp' = Generate(nextApp, client, submitted + 1)
            /\ events' = InjectMessage(Tail(events),
                                       Dispatch(client, submitted + 1, now' + gap))
     ELSE events' = Tail(events) /\ UNCHANGED <<nextApp, submitted>>
  /\ jobs' = jobs \cup {Instance(Head(events), nextApp')}
  /\ UNCHANGED <<case, records, finished, users, stats, troubles, ended>>

\* The descriptions when the node handles a command: repeat has afterEvent.
RepeatFinds(before, after) == before

HandleDispatchOfRepeat ==
  /\ case = "repeat"
  /\ Arrives("dispatch")
  /\ IF records # <<>>
     THEN /\ records' = Tail(records)
          /\ submitted' = submitted + 1
          /\ nextApp' = [nextApp EXCEPT ![Head(records).client] = submitted + 1]
          /\ events' = InjectMessage(Tail(events),
               Dispatch(Head(records).client, submitted + 1, Head(records).release))
     ELSE events' = Tail(events) /\ UNCHANGED <<records, submitted, nextApp>>
  /\ jobs' = jobs \cup {Instance(Head(events), RepeatFinds(nextApp, nextApp'))}
  /\ UNCHANGED <<case, finished, users, stats, troubles, ended>>

\* The simulator calls afterEvent with other arguments than those that the
\* one of manySearches takes, which therefore never sends the next command.
HandleDispatchOfMany ==
  /\ case = "many"
  /\ Arrives("dispatch")
  /\ events' = Tail(events)
  /\ jobs' = jobs \cup {Instance(Head(events), nextApp)}
  /\ UNCHANGED <<case, nextApp, records, submitted, finished, users, stats, troubles, ended>>

HandleDispatchOfSite ==
  /\ case = "site"
  /\ Arrives("dispatch")
  /\ events' = Tail(events)
  /\ jobs' = jobs \cup {Instance(Head(events), nextApp)}
  /\ UNCHANGED <<case, nextApp, records, submitted, finished, users, stats, troubles, ended>>

HandleUserEvent ==
  LET n == Head(events).node
  IN  /\ Arrives("user")
      /\ \E o \in Wakes(users[n], n, now') :
           /\ users' = [users EXCEPT ![n] = o.user]
           /\ events' = InjectAll(Tail(events), o.events)
      /\ UNCHANGED <<case, nextApp, records, submitted, finished, jobs, stats, troubles, ended>>

HandleSendJob ==
  /\ Arrives("send")
  /\ events' = InjectMessage(Tail(events), Dispatch(Head(events).node, 0, now'))
  /\ UNCHANGED <<case, nextApp, records, submitted, finished, users, jobs, stats, troubles,
                 ended>>

-----------------------------------------------------------------------------
(* The applications.                                                       *)

In(j, S) == {i \in Tasks : j.tasks[i] \in S}

With(j, i, s) == (jobs \ {j}) \cup {[j EXCEPT !.tasks[i] = s]}

\* Scheduler::addedTasksEvent
TaskAccepted(j, i) ==
  /\ Runs /\ j.tasks[i] = "sought"
  /\ jobs' = With(j, i, "queued")
  /\ stats' = [stats EXCEPT !.existing = @ + 1]
  /\ UNCHANGED <<case, now, events, nextApp, records, submitted, finished, users, troubles,
                 ended>>

\* Scheduler::startedTaskEvent, for a task that goes on after a pause too.
TaskStarted(j, i) ==
  /\ Runs /\ j.tasks[i] = "queued"
  /\ jobs' = With(j, i, "running")
  /\ stats' = [stats EXCEPT !.running = @ + 1]
  /\ UNCHANGED <<case, now, events, nextApp, records, submitted, finished, users, troubles,
                 ended>>

\* No event tells of it.
TaskPaused(j, i) ==
  /\ Runs /\ j.tasks[i] = "running" /\ troubles < MaxTroubles
  /\ jobs' = With(j, i, "queued")
  /\ troubles' = troubles + 1
  /\ UNCHANGED <<case, now, events, nextApp, records, submitted, finished, users, stats, ended>>

\* LibStarsStatistics::taskFinished
TaskFinishedStats(s, old, new) ==
  [s EXCEPT !.existing = @ - 1, !.running = IF old = "running" THEN @ - 1 ELSE @]

TaskAborted(j, i) ==
  /\ Runs /\ j.tasks[i] \in {"queued", "running"} /\ troubles < MaxTroubles
  /\ jobs' = With(j, i, "sought")
  /\ stats' = TaskFinishedStats(stats, j.tasks[i], "sought")
  /\ troubles' = troubles + 1
  /\ UNCHANGED <<case, now, events, nextApp, records, submitted, finished, users, ended>>

\* LibStarsStatistics::finishedApp; bound: the users of siteLevel submit
\* applications without end, and their total is left out.
AppStats(s, done) ==
  IF case = "site" THEN s
  ELSE [s EXCEPT !.apps = @ + 1, !.unfinished = IF done = {} THEN @ + 1 ELSE @]

\* finishedApp of the users' case, and of the others; manySearches has the one
\* of every case, which counts nothing: there it is how many were over.
UserFinishedApp(n) ==
  /\ \E o \in JobFinished(users[n], n, now) :
       users' = [users EXCEPT ![n] = o.user] /\ events' = InjectAll(events, o.events)
  /\ UNCHANGED finished

CaseFinishedApp == finished' = finished + 1 /\ UNCHANGED <<users, events>>

\* The statistics first, and then finishedApp of the case.
FinishedApp(j, done, s) ==
  /\ jobs' = jobs \ {j}
  /\ stats' = AppStats(s, done)
  /\ IF case = "site" THEN UserFinishedApp(j.node) ELSE CaseFinishedApp

\* A task takes a tick at least.
TaskFinished(j, i) ==
  LET s == TaskFinishedStats(stats, "running", "done")
  IN  /\ Runs /\ j.tasks[i] = "running" /\ now > j.born
      /\ IF In(j, {"done"}) \cup {i} = Tasks
         THEN FinishedApp(j, Tasks, s)
         ELSE jobs' = With(j, i, "done") /\ stats' = s /\ UNCHANGED <<users, events, finished>>
      /\ UNCHANGED <<case, now, nextApp, records, submitted, troubles, ended>>

\* The submission node has no retries left.
GivenUp(j) ==
  /\ Runs /\ troubles < MaxTroubles /\ now > j.born
  /\ In(j, {"queued", "running"}) = {}
  /\ FinishedApp(j, In(j, {"done"}), stats)
  /\ troubles' = troubles + 1
  /\ UNCHANGED <<case, now, nextApp, records, submitted, ended>>

\* Time goes by with the applications.
Elapse ==
  /\ Runs /\ jobs # {}
  /\ events # <<>> => Head(events).t > now
  /\ now' = now + 1
  /\ UNCHANGED <<case, events, nextApp, records, submitted, finished, users, jobs, stats,
                 troubles, ended>>

\* finishAppStatistics counts the applications with tasks in some queue.
FinishStatistics ==
  /\ ~ended
  /\ ~Runs \/ (events = <<>> /\ jobs = {})
  /\ ended' = TRUE
  /\ stats' = [stats EXCEPT
       !.apps = @ + Cardinality({j \in jobs : In(j, {"queued", "running"}) # {}})]
  /\ UNCHANGED <<case, now, events, nextApp, records, submitted, finished, users, jobs,
                 troubles>>

Next ==
  \/ HandleDispatchOfProcess
  \/ HandleDispatchOfRepeat
  \/ HandleDispatchOfMany
  \/ HandleDispatchOfSite
  \/ HandleUserEvent
  \/ HandleSendJob
  \/ \E j \in jobs, i \in Tasks : TaskAccepted(j, i)
  \/ \E j \in jobs, i \in Tasks : TaskStarted(j, i)
  \/ \E j \in jobs, i \in Tasks : TaskPaused(j, i)
  \/ \E j \in jobs, i \in Tasks : TaskAborted(j, i)
  \/ \E j \in jobs, i \in Tasks : TaskFinished(j, i)
  \/ \E j \in jobs : GivenUp(j)
  \/ Elapse
  \/ FinishStatistics

\* The simulation handles its events, time goes by, and the tasks go on until
\* they finish.
Fairness ==
  /\ WF_vars(\/ HandleDispatchOfProcess \/ HandleDispatchOfRepeat \/ HandleDispatchOfMany
             \/ HandleDispatchOfSite \/ HandleUserEvent \/ HandleSendJob)
  /\ WF_vars(\E j \in jobs, i \in Tasks :
               TaskAccepted(j, i) \/ TaskStarted(j, i) \/ TaskFinished(j, i))
  /\ WF_vars(Elapse)
  /\ WF_vars(FinishStatistics)

Spec == Init /\ [][Next]_vars /\ Fairness

-----------------------------------------------------------------------------
(* Properties.                                                             *)

\* An application gets the description of its command; in uniformProcess and
\* poissonProcess, it may be the one of the next command (see
\* HandleDispatchOfProcess), and in manySearches it is only there when the
\* client is the last node.
DescriptionsMatch ==
  \A j \in jobs :
    /\ case = "repeat" => j.desc = j.cmd
    /\ case \in {"uniform", "poisson"} => j.desc \in {j.cmd, j.cmd + 1}
    /\ case = "many" => j.desc = (IF j.node = NumNodes[case] - 1 THEN j.cmd ELSE 0)

\* A user who thinks or sleeps has one timer and no job, and who sleeps wakes
\* when the work time of the right day starts; a user who waits for jobs has as
\* many on the way as batchSize says, and there is at least one.
UsersAreAwaited ==
  case = "site" =>
    \A n \in Nodes :
      LET u    == users[n]
          work == Pending("send", n) + Pending("dispatch", n) + Cardinality(JobsOf(n))
      IN  /\ u.batchSize = work
          /\ Pending("user", n) = (IF work = 0 THEN 1 ELSE 0)
          /\ u.state = "WAIT_JOB_FINISH" <=> work > 0
          /\ u.state = "SLEEPING" =>
               \A i \in DOMAIN events : events[i] = UserEvent(n, events[i].t) =>
                 /\ Hour(events[i].t) = WakeHour(u)
                 /\ u.weekdays <=> DayOfWeek(events[i].t) \notin {0, 6}

\* The statistics agree with the queues and the applications, except that a
\* task that pauses is counted as running for ever.
StatisticsMatch ==
  LET queued(j) == In(j, {"queued", "running"})
  IN  /\ stats.existing = Cardinality(UNION {{j} \X queued(j) : j \in jobs})
      /\ stats.running >= Cardinality(UNION {{j} \X In(j, {"running"}) : j \in jobs})
      /\ stats.unfinished <= stats.apps
      /\ case # "site" =>
           stats.apps = finished + (IF ended THEN Cardinality({j \in jobs : queued(j) # {}}) ELSE 0)

\* What the simulator submits is what its cases say, no user of it is left
\* without anything to wait for, and nothing is counted twice or forgotten.
WorkIsAccounted == DescriptionsMatch /\ UsersAreAwaited /\ StatisticsMatch

\* A run comes to its end: all the applications of the case are over, the one
\* that manySearches sends is, or the users go on until max_sim_time.
RunsEnd ==
  <>(/\ ended
     /\ \/ now >= MaxSimTime
        \/ case \notin {"site", "many"} /\ finished = NumSearches[case]
        \/ case = "many" /\ finished = 1)

=============================================================================
