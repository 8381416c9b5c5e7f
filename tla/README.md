# STaRS in TLA+

STaRS is a peer-to-peer scheduler of bags of independent tasks. Every peer may submit
applications, execute tasks of others, and hold a branch of the tree that joins them. It
comes with a simulator that runs the same services on thousands of peers, and with tools
that sweep simulations and read their results. This directory specifies the parts of the
program that decide what happens to the tasks, and those of the simulator that its results
rest on, checks them with TLC on small instances, and proves some of the results with TLAPS
for all of them.

## The system

A peer is one process. Its main thread runs an event loop that takes messages from one queue
and hands each to the services of the peer. Everything below except the threads named here
runs in that thread, one handler at a time.

| part (source) | state it keeps | operations | talks to |
|---|---|---|---|
| communication layer (`CommLayer`, `NetworkManager`) | message queue, timer list, exit flag, one asio timer | send, set and cancel a timer, process the next message, check expired timers, stop | its io thread enqueues what comes from the network and the timers that expire; a SIGINT handler stops it |
| submission node (`SubmissionNode`) | unfinished tasks per application, retries per request, heartbeat timer per node, tasks per node | dispatch an application, retry it, handle acceptances, reports and both timeouts, delay requests while the father changes | the database, the branch of its father, the execution nodes |
| application database (`TaskBagAppDatabase`) | tables of applications, instances, tasks, requests and tasks of requests, in a file | one SQL transaction per operation | the submission node |
| scheduler (`Scheduler` and the policies IBP, MMP, DP, FSP) | queue of tasks, reschedule and monitor timers, what the father was told | accept a part of a bag, end, abort and order tasks, remind the owners | the threads of its tasks, the owners, its father |
| execution environment (`UnixExecutionEnvironment`) | status, run lock and process of each task | prepare, run, abort; one thread per task | the scheduler, by messages to itself |
| dispatcher (`Dispatcher<T>` and a policy) | information of each child, what the father was last told, an update timer, updates delayed by a change | merge the information of the children and tell the father, route bags down and up | the dispatchers of father and children, schedulers, the overlay as its observer |
| overlay (`StructureNode`, `ResourceNode`) | the links of the tree and the transaction in course | insert, split, change father and children in two-phase transactions | the overlay of other peers; tells scheduler, dispatcher and submission node when links change |
| availability information (`ClusteringList`, `*AvailabilityInformation`, `LDeltaFunction`, `ZAFunction`) | clusters of nodes, with ranges of memory and disk, and functions of time or of slowness | aggregate, join, reduce, update, compare | the dispatchers and schedulers |
| simulator, engine (`oldsim/Simulator`, `NetworkInterface`, `StarsNode`, `SimTask`, `FailureGenerator`) | one queue of events, the links and timers of every node, the nodes that fail | inject, send and deliver a message, expire timers, fail a node; start, stop and skip a run | the services of every node; the files of results |
| simulator, trees and databases (`cases/structure.cpp`, `SimOverlayBranch`, `PolicyFactory`, `SimAppDatabase`) | a tree and a database for every node | build, fill, save, load and check them | take the place of the overlay and of SQLite |
| simulator, central schedulers (`CentralizedScheduler`, `SlaveLocalScheduler`) | a copy of the queue of every node | place the tasks of an application, reschedule | what the policies are compared with |
| simulator, cases and statistics (`cases/dispatcher.cpp`, `RequestGenerator`, `*Statistics`, `Distributions`) | what users do next, counters, histograms | submit applications, count and reduce what happens | the submission nodes; the files of results |
| sweeper (`sweeperdaemon`, `SimulationsFile`) | cases to run, processes, memory left | read files of cases, start processes and wait for them | the simulator, as processes |
| the rest | configuration, logs, time, web interface, serialization | | |

What makes it hard:

* messages to the same node go over different connections and overtake one another; one
  without a connection is dropped with a log line;
* timers are cancelled when they may already have expired, and their messages are then
  handled late;
* nodes die, come back, and send reports about tasks that were given to others;
* counters, a database and timers hold the same facts and must agree;
* the threads of the communication layer, of the tasks and a signal handler share state with
  the event loop;
* dispatchers decide with information that is old by the time they use it, and correct it by
  guesses;
* the structure of the tree changes while updates and bags are on their way;
* summaries are made by an algorithm that works on with distances that may be stale, and
  functions are cut to a few pieces that must not promise more than there is;
* simulations are stopped, killed and started again over the same files, and run by a daemon
  of three threads that share its lists with a signal handler.

What makes each part correct:

* communication layer: messages in order and once, no timer early, late for ever or after it
  was cancelled, no wakeup lost, the loop ends when told to;
* submission node and database: every task in one request at most, counters equal to the
  tables, everything searched or executed watched by a timer, a finished task stays
  finished, every instance ends;
* scheduler and threads: one process at a time and that of the first task, every accepted
  task ends and is reported once, owners are reminded, the father knows the queue;
* dispatcher: a task is never in two places nor in none, the information settles to the
  truth, new information is not taken for old, bags that fit are placed, bags do not wander
  for ever;
* overlay: at rest the tree is one, balanced, complete, and agreed on by fathers and
  children; at any time a node is a child of one branch; members commit only what the driver
  commits; transactions end;
* routing of the other policies: each task sent once, and no bag wanders for ever;
* summaries: no node is lost, statistics are exact, reductions end; functions are those of
  the poorest node;
* central schedulers: the copy of a queue is the queue, once messages are taken into
  account;
* simulator: timers neither early nor forgotten, one message at a time in a link, tasks take
  their time, runs end and their results are neither lost nor half written, its tree and its
  database are as good as those they replace, its counters agree with what happened;
* sweeper: each case runs once, in the memory there is.

The hazards that threaten these are listed in `PROJECT.json`, each at its line and with the
properties that would see it.

## Modules

| module | models | checked by |
|---|---|---|
| `TaskBagAppDatabase` | the database: one operator per SQL operation | through `SubmissionNode` |
| `SubmissionNode` (extends it) | the submission manager and the messages of the execution nodes | `MCSubmissionNode`, `SubmissionNode_proofs` |
| `SimAppDatabase` (extends the database), `SimSubmissionNode` (composes both) | the database of the simulator, and the submission node over both databases at once | `MCSimSubmissionNode`, `SubmissionNode_proofs` |
| `EventService` | what the communication layer promises to the services (abstract) | through `CommLayer` |
| `CommLayer` | the threads and mutexes of the communication layer; implements `EventService` | `MCCommLayer`, `CommLayer_proofs` |
| `Scheduler` | the scheduler with a policy, and the threads of its tasks | `MCScheduler`, `Scheduler_proofs` |
| `Dispatcher` | a whole tree of dispatchers with the IBP policy, execution nodes and clients | `MCDispatcher`, `Dispatcher_proofs` |
| `Routing` | how DP, MMP and FSP route bags, on a tree with its clients | `MCRouting`, `Routing_proofs` |
| `CentralScheduler` | the five centralized schedulers, the nodes that obey them and the messages in between | `MCCentralScheduler`, `CentralScheduler_proofs` |
| `Zones` | what a branch of the overlay knows of its children, and the choices it makes by it | through `Overlay` |
| `Overlay` (extends it) | the structure and resource nodes of all peers, and their messages | `MCOverlay` |
| `Clustering` | the summaries of the four policies and how they are reduced | `MCSummaries` |
| `DeltaFunction` | the functions of availability of DP | `MCSummaries` |
| `FSPTaskList`, `ZAFunction`, `ZAReduction` (each extends the one before) | the queue of FSP, the functions of slowness made of it, and their reduction | `MCSummaries` |
| `Simulation` | the engine of the simulator | `MCSimulation`, `Simulation_proofs` |
| `SimTree` | the tree that the simulator builds, saves and loads | `MCSimulation` |
| `SimulationRun` | runs of the simulator, one after another, over one directory of results | `MCSimulation`, `Simulation_proofs` |
| `Workload` | the cases that submit applications, and the counters of tasks and applications | `MCWorkload`, `Workload_proofs` |
| `SimulationsFile`, `Sweeper` (extends it) | the files of simulation cases, and the daemon that runs them | `MCWorkload`, `Simulation_proofs` |
| `Distributions`, `Statistics` (extends it) | histograms and distributions, and what makes and draws from them | `MCWorkload` |

`MCSummaries`, `MCSimulation` and `MCWorkload` hold several machines that do not touch each
other. A behaviour is of one of them: their `Init` is a disjunction in which the others have
a value that enables nothing, and each of them leaves the others as they are.

### TaskBagAppDatabase and SubmissionNode

The database is one record: for each task its state and the node that has it, and for each
request its application and the tasks in it. Every method that the submission node calls is
an operator from a database to a database, with the `where` clauses of its statements as the
sets it is defined on. `db` is the only variable a restart keeps.

`SubmissionNode` has one action per handler (`DispatchCommand`, `HandleAcceptTask`,
`HandleTaskMonitor`, `HandleRequestTimeout`, `HandleHeartbeatTimeout`, `FatherChanging`,
`FatherChanged`), two for timers that expire and wait in the queue, and the actions of the
environment: nodes accept a range of the tasks, end them, abort them, remind, fail; messages
are lost; the program restarts. Counters are unsigned with `UIntMax`. Dereferencing `end()`
of a map makes `alive` false. Two constants describe the network: `AcceptFirst` (an
acceptance is handled before later reports of the same node) and `PromptTimers` (a timer
expires only if nothing that would have stopped it is on its way). Neither is guaranteed by
the code; the runs say which properties need them.

### SimAppDatabase and SimSubmissionNode

The simulator links another `TaskBagAppDatabase`: instances own their tasks, and a request
is a sequence of pointers to them, which are set to null one by one where the program has
`where` clauses. `SimSubmissionNode` takes each step of `SubmissionNode` and, in the same
step, makes the calls of its handler to both databases in the order of the code; `same` is a
history variable that says whether all calls have returned the same.

### EventService and CommLayer

`EventService` is a queue, a set of timers and a clock: messages are appended and taken in
order, a timer is appended when it is due and not before one that is due earlier, and never
after being cancelled. `CommLayer` has the program counters of the main thread and of the io
thread, the mutex of the queue as a Boolean that the main thread keeps over several steps,
the set of threads that have put a message and not yet notified, and the asio timer (the
pending wait, and the handlers posted when a wait ends or is cancelled). `Service` is the
refinement mapping.

### Scheduler

One action per handler of `Scheduler.cpp` and per step of the thread of a task between two
points where another thread may see its effects. The policy is read from the configuration
when the program starts, so that it is a variable that only `Init` chooses. It decides two
things: `Schedules`, the orders in which it may leave the queue, and `Acceptable`, how many
tasks it takes. FSP rebuilds the queue from its proxies, so that the order may be any that
keeps the first task first; MMP and IBP order by creation; DP sorts by deadline, running
tasks before. `SwitchContext` is the tail that most handlers end with: reorder, program the
reschedule timer, run the first task. What the father was told is kept as the queue it
described. `crash` is set when `run` unlocks the mutex of a thread twice (an exception
nobody catches) and when a task is destroyed under its thread.

### Dispatcher

The tree is a constant: `Child[b][c]` and `Leaf[b][c]`, with addresses that are those of
peers, since a peer may hold both a branch and a leaf. Each branch has the links of
`Dispatcher<T>`: the information of the children with its sequence number, what waits to be
told to the father and what was last told, the update timer, the time before which no update
may be sent (`hot`), and the updates delayed by a change. All nodes are equal, so that the
summary of a branch is the number of idle nodes below. `HandleBag` divides a bag as
`IBPDispatcher::handle` and `sendTasks` do; since all groups are equally good the distance
decides which goes first, and both orders are possible. `HandleNodeBag`, `FinishTask` and
`Refresh` are the IBP scheduler of an execution node. Changes of the structure appear as the
observer calls `startChanges` and `commitChanges`, which empty the links of the children;
losses and the failure of a peer (`StarsNode::fail`) are actions too. A peer that fails gets
a new scheduler, whose constructor tells the father that the node is idle, with number 1.

### Zones and Overlay

`Zones` has the interval of addresses and the count of available structure nodes of a child
(`ZoneDescription`), the entry of the list of children with its new values
(`TransactionalZoneDescription`), and the pure algorithms on them: aggregation with its
rounding, the direction of an insertion and of a search, and the half of the children that a
split gives away (`Upper`), whose permutation is that of the code.

`Overlay` keeps a structure node and a resource node per peer and a bag of messages, from
which any may arrive next. Each handler is an operator from the state of a node and a
message to its next state, since handlers call each other: the end of a transaction handles
the delayed messages, one of which may start the next, and then looks whether the branch
must split. `Commit`, `Rollback`, `HandleDelayed`, `CheckFanout` and `NotifyFather` are
`commit()`, `rollback()` and so on, in the same order. The actions `Handle...` and
`RNHandle...` take a message and apply its operator; `SearchTimeout` is the timer that
repeats a search. The identifiers that a process draws are 1, 2, 3...: the generator of
`createRandomId` is not seeded, so that the k-th is the same in all processes, and a
transaction is told from another only by its members. `Starts` are the situations to start
from, built as the simulator builds a network (`concurrentNodeInsertion`) or continues one
it saved (`serializeState`).

### Routing

The links of a branch know one cluster of nodes below them: how many are able to run the
tasks, the length of their longest queue or their slowness, and the range that goes with it.
`HandleBag` is `handle`, with the outcomes of each policy (`DPHandle`, `MMPUp` and
`MMPDown`, `FSPHandle`), the searches of `getAvailability`, and `SendTasks`. The cache of DP is a set of requests from which time may take any. What a
branch tells its father and its children is told whenever it pleases, and before it does
they decide with what they had. The levels of the execution nodes are arbitrary. Bags to an
address that holds nobody, and null pointers that are read, are seen: the first are `lost`
and the second put the peer in `crashed`.

MMP looks for the length that queues will have in two loops. The first tries 300 seconds
from now, 900, 2100 and so on, until all tasks have room: these lengths are the constant
`Probe`, whose last one is as far as the loop goes (`LongestProbe`, some 40000 years). The
second loop is a bisection, whose first probe is the upper end again, so that it stops at
once; `Balanced` is therefore the first `Probe` with room. Room is counted in tasks of
`TaskTime`, rounded down (`Fits`). It is counted in the zone, where a cluster counts as one
node, and then used on the clusters of the children, which count as many nodes as they have.

### CentralScheduler

One variable for the queues that the scheduler believes in and one for those of the nodes,
with the sequence numbers of the messages that it sends and the set of messages on their
way. A queue that the scheduler believes in is the set of its tasks: the code sorts the list
whenever it changes, so that the list is `SortedTasks` of the set, and its front is `First`.
`NewApp` has the five `newApp`: IBP takes nodes that look free, blind, MMP and FSP divide the
tasks in any way (which nodes are better, or drawn, is left open), and DP fills holes of any
size. Its heap of holes is the set of the nodes in it (`Caches`, node by node): a hole leaves
the heap when those that are `Better` are enough (`Trimmed`), and gets the tasks that the
better ones leave (`DPPlace`). `TaskFinished` drops the first of the copy, as the code does
when the node tells that any of its tasks has ended; `Reschedule` is the slave, which orders
its queue by the last message that it has.

### Clustering

A branch joins the lists of clusters of its children and reduces the result. The state of
`cluster()` is explicit: the lists of nearest neighbours with the distances that they had,
the heap, and a program counter of four values, so that a pair which became stale because of
an earlier join is met at any later moment. The policies are records of dimensions: each
with its aggregate, its distance and whether two clusters are `far`. Functions stand for
their value at one point.

### DeltaFunction

`FromQueue` is the constructor, `Segments` the `stepper` that all binary operations share,
and `MinAndLoss`, `MaxAvailability`, `MinAvailability`, `LinearCombination`, `Sqdiff3` and
`Loss6` are the operations. `Update` takes a task out of the function with the index
arithmetic of the code. The variable `ideal` is the same function computed on a grid of
instants from its definition, by the work that a node can do before each without breaking a
deadline, and follows it through aggregations and updates. Instants are whole: the grid and
the tasks are chosen so that lines cross at whole instants.

### FSPTaskList, ZAFunction and ZAReduction

`FSPTaskList` is the queue: tasks arrive, leave and grow older, and a reschedule sorts them
with the least slowness by a search among the values where two of them change their order.
Slownesses are exact fractions. `ZAFunction` builds the function of a queue interval by
interval as its constructor does, and has `min`, `max` and `maxDiff`; `LeastSlowness` and
`PromiseIsLeastSlowness` compare both modules with a search over all orders. `ZAReduction`
joins pieces in one that is not below them, by the three curves that the code tries.

### Simulation

`events` is the priority queue, a set ordered by time and identifier. Each kind of event has
an action: a message that finds its incoming link busy and goes back to the queue
(`Enqueue`), the check of the timers of a node, the end of a task, and a failure, that takes
all the events of a node away. `Cancel` and `SetTimer` keep the bit in the identifier of the
first timer that says whether a check is programmed. The services do at most one thing when
they hear a message: send, set or cancel a timer, or accept a task, which may pause the one
that runs. Real time spent in a handler is `MaxOp`.

### SimTree and SimulationRun

`SimTree` builds the tree by levels, choosing any branch that is free, fills the dispatchers
upwards in the order of the sort and downwards in the reverse one, saves it and loads it in
another simulation. `TreeIsWhole` looks at the tree when it is built and loaded; the depth of
a node as a leaf is `LeafLevel`, wherever its branch is, and no two differ by more than one.

`SimulationRun` has the phases of `main` (read the properties, look at the log of the former
run, load the state, run, write) as a program counter, the files that survive (`log`,
`files`, `network`) and those that do not. A run may be killed at any point (`Crash`), gets
the signals that stop it (`Signal`) or ask for its properties (`SignalInformation`), and may
reach one of its limits.

### Workload, SimulationsFile and Sweeper

`Workload` has the events that the cases inject, the members of the case, and the state of
each task of each application. Accepting, starting, pausing, aborting and ending a task is
left to the environment, and each makes the calls to the statistics and to the case that the
services would make. The queue is put in order by the rank of each event, its time and then
its turn (`InjectAll`), which says what the heap of the simulator does without a recursion
over it. A day has six ticks; the users of `siteLevel` start on a Friday, so
that the table of days until they wake is used over a weekend.

`SimulationsFile` is a function from the sections of a file to its cases. `Sweeper` has the
program counters of the main thread, the waiter, the reader and the signal handler, the
mutex, and the two lists. The memory of the processes is counted, each megabyte with its
owner (`MemoryOf`), and this needs no sum over the list. `CombinationsAreAll` compares the
cases with their definition as products; `CasesAreTried` asks it of every file that the
daemon will read (`FilesAreRead`).

### Distributions and Statistics

`Histogram` and `CDF` work on the number of a bin, and probabilities are whole numbers of
units. `Statistics` has three users of them: durations of events that are saved in the
middle of a run, files of results that `cdf` reads, and the generator of applications that
draws from them.

## Runs

`MC*.tla` hold what a `.cfg` cannot say; the configurations have the name of the run.
`CHECK_DEADLOCK FALSE` is in all but `summaries`, whose last states stutter: when all
bounded events have happened and all work is done, the modelled systems rest.

| run | asks | bounds and why they are enough |
|---|---|---|
| `submission_ends` | when the network keeps its promises (`AcceptFirst`, `PromptTimers`), do counters and tables agree, does the database of the simulator give the same answers, and does every instance end? | one application of 2 tasks, 5 requests, 1 fault: a request may be taken in two parts, a part may abort or its node fail, and everything be retried until it gives up; one node, since liveness excludes symmetry |
| `submission_late` | when it does not, are requests consistent, searched tasks and counted nodes watched by a timer, finished tasks final? | 2 nodes, 1 task, 2 requests (the first and its retry), a failure, a lost message, a restart, 2 messages on their way, and 2 heartbeat timers per node, so that a stale one meets its successor |
| `commlayer_service` | is a wakeup lost or a timer forgotten; does the layer implement the service; is every timer and message handled at last? | a message, 2 timers over 2 instants (equal, earlier and later timeouts, one cancelled while the other is due), a SIGINT: one event more than threads |
| `scheduler_policies` | with each policy: one process, owners reminded, father informed, ends final, every task run? | 2 tasks, the least with an order and a turn; 2 reschedule timers, one of which may be stale; an abort, a thread that cannot be created or a change of the father |
| `dispatcher_info` | does the information settle, and is news used? | 3 nodes under two branches, requests of 2 tasks and of 1 from different branches, and a node that tells again: as many tasks as nodes, in every order of arrival |
| `dispatcher_faults` | are tasks in one place, are no nodes invented, does every bag settle? | a bag of 2 tasks for 3 nodes, a loss, a failure or a change of structure, limited bandwidth, and the root in the same peer as a leaf of its child |
| `routing_policies` | with DP, MMP and FSP: is a task lost or sent twice, does a bag wander for ever? | a tree of two levels with 3 nodes, each as good as the rest or full, so that 8 situations per policy; bags of 2 tasks and of 1 from both ends, that meet in the root; links tell in any order, or not yet; under DP and FSP the node of the root changes its state once; under MMP tasks of 3 and of 2 units and lengths of 2, 6 and 14, so that a busy node may lack room at one length and have it at the next, and counts are rounded down |
| `central_policies` | with each of the five: is the copy of the queues right, and do the holes of DP suffice? | 2 nodes and applications of 2, 1 and 2 tasks with earlier and earlier deadlines, so that the second and third go before tasks that wait or run |
| `overlay_tree` | at rest, is the tree one, balanced, complete and agreed on, with no transaction left open; is no commit a surprise; does the network always come to rest? | fanout 2, so that 4 children split; 4 starts: a network from nothing to its first split (which needs two new branches); a join, split and 2 repeated searches; a tree of two levels that two peers join at once; and a tree where a branch and its father, the root, split at once, so that a split is rolled back by another. The first three are explored whole, the last with at most 6 messages on their way at a time and one answer among them: the widest split sends 5 |
| `summaries` | does a reduction lose nodes, are its statistics exact, does it end; do the functions of DP and FSP, joined and reduced, promise no more than the nodes can do? | 3 or 4 nodes joined and then 2 more, reduced to 1, 2 or 4 clusters with 1 or 2 neighbours each, so that lists run out; for DP 7 nodes with queues of 0 to 3 tasks and 3 changes; for FSP queues of up to 3 tasks and lengths up to 13, past the last crossing |
| `simulation_engine` | are timers, links and tasks on time; is the tree that is built whole; do runs keep results? | 2 nodes and 4 operations over 3 ticks, the least that cancels the first of two timers, or pauses a task in the instant of its end, and fails a node; trees of 2 to 6 nodes (three levels, with odd ones out); 3 runs of 4 events each, with 8 configurations that save, load, overwrite, reach a limit or crash |
| `workload` | do cases submit what they say and end; do files give all their cases, does the sweeper run each once; are the statistics faithful? | 2 clients and 2 or 3 applications, or one user over a weekend; a machine of 4 MB and 2 places with cases of 1, 2 and 5 MB, by a pipe and by a file; 3 rows of results, 3 durations |

Every property of these runs has a mutant in `PROJECT.json`: a plausible error in the code
that makes TLC find it violated. Mutated forms are in the modules, next to what they change,
and are used nowhere else. Some properties gather several parts, named in the modules:
`TreeIsSound` is `TypeOK`, `LinksAgree`, `OneFather`, `EveryoneIn`, `Balanced` and
`ZonesCover`; `TransactionsSettle` is `TransactionsEnd` and `CommitsExpected`;
`NothingIsInvented` is `TasksAreInOnePlace` and `NoInventedNodes`; `TasksAreNotWasted` is
`EachTaskOnce` and `DropsWithoutRoom`; `DecisionsHold` is `CopiesCanBeTrusted` and
`HolesSuffice`; `TimersAreRight` is `TimersAreChecked` and `TimersAreHonest`;
`EverythingComes` is `TimersEnd` and `MessagesAreHandled`.

Some properties say what the code does only under a condition, which is part of them:
`OneProcess` excludes DP; `EveryTaskEnds` excludes tasks the client aborted, a thread that
could not be created and a program that has crashed; `EverythingComes` ends with a signal;
`EveryTaskSettles` and `EveryBagSettles` with a peer that reads a null pointer; `TwinsAgree`
with the report of an aborted task; `RunsEnd` asks no more than one search of
`manySearches`. What happens in the excluded cases is told below.

### Disagreements found

They came up while the modules were written, reading the code or in traces of properties
that no run keeps. The modules contain the behaviour, unless the text says that it is left
out, so that the properties above hold in its presence or say that they exclude it.

In the services:

* `TaskBagAppDatabase.cpp:250`: a late report is counted for a task that is no longer in the
  request.
* `CommLayer.cpp:65`: `processNextMessage` waits once, with `if`, and a late notification
  leaves it with an empty queue.
* `UnixExecutionEnvironment.cpp:83`: `run` called twice unlocks twice, and the exception
  ends the program.
* `Dispatcher.hpp:122`: with limited bandwidth, an update that returns to the last value
  told is not sent, and the guess of the father is never corrected.
* `SubmissionNode.cpp:221`: the report of a short task that overtakes its acceptance is lost
  and the application never ends, as a FIXME there suspects.
* `SubmissionNode.cpp:182`: the timeout of a request whose application has ended
  dereferences `end()`.
* `TaskBagAppDatabase.cpp:262`: the statement for aborted tasks compares the wrong column.
* `CommLayer.cpp:52`: the signal handler locks a mutex that the thread it interrupts may
  hold, and the program waits for itself.
* `CommLayer.cpp:55`: the exit flag may be set between the test and the wait, and the loop
  does not see it.
* `NetworkManager.cpp:156`: with two timers the io thread never rests, as every cancelled
  wait programs the timer again.
* `DPScheduler.cpp:36`: a task that was run but has not forked yet loses its place to one
  with an earlier deadline, and two processes run.
* `Scheduler.cpp:189`: an aborted task comes back with FSP, whose proxies keep it, and is
  destroyed under its thread with the other policies.
* `UnixExecutionEnvironment.cpp:57`: a task whose thread cannot be created blocks the queue.
* `Scheduler.cpp:170`: a stale `RescheduleTimer` clears the identifier of the timer in
  force, and there are two.
* `PolicyFactory.cpp:107`, `StarsNode.cpp:292`: sequence numbers that start twice make new
  information look old.
* `IBPDispatcher.cpp:69` and `:99`: branches and leaves of one peer share an address, and
  tasks are dropped although there is an idle node, or a father.
* `Dispatcher.hpp:294`: a branch without information reads it.

In the overlay, which the properties of `overlay_tree` tolerate:

* `TransactionMsg.cpp:27`: the generator is never seeded, so that identifiers of
  transactions of different peers are equal. `CommitsExpected` holds nevertheless: those
  whose identifiers meet have no members in common at the time.
* `StructureNode.cpp:207`: `recomputeZone` copies the first zone and then aggregates the
  whole list, so that the available nodes of the first count twice.
* `ResourceNode.cpp:85`: nothing observes the availability of the structure node of the
  peer, which is told as available for ever; searches correct it on their way, and go up
  when nobody is left.
* `StructureNode.cpp:396`: a repeated search that was delayed stays so after its split is
  over, and may later take an available node and let it go again, which leaves the count
  lower than it is. This is why `TransactionsEnd` allows delayed searches.
* `ResourceNode.cpp:252`: there is no timeout for an insertion, as a TODO says: one that
  reaches a peer outside the network is dropped, and the peer waits for ever. The module
  tells the peers to join after their contact.
* `StructureNode.cpp:968`: `rollback` leaves the entry of the child that split as changing
  when a `NewChildMsg` is undone; no driver undoes one after it was acknowledged on these
  trees.
* `StructureNode.cpp:553`: a split places child `i` at `pos[i]`, the inverse of the
  permutation that the comment above it describes. It still moves half of the children.

In the routing and the summaries:

* `MMPAvailabilityInformation.cpp:96`: the bisection stops at its first probe, `min + d / 2`,
  which is `max`. The function returns the first exponential step with room, which may be
  three times as far as needed, where the header promises "the end time of the longest
  queue" (`MMPAvailabilityInformation.hpp:203-207`), and the dispatcher takes it for the
  length of the queues. In a trace of the run a node with a queue of 3 gets two tasks of 3
  units, and its queue is recorded as 14 instead of 9. `Balanced` is what the code returns.
* `MMPDispatcher.cpp:129`: the branch that drops tasks is never taken.
* `Clustering`: the limit of clusters is not reached when all pairs are `far`, and the test
  of `isFree` in `far` of DP follows from the rest.
* `ZAFunction.cpp:410`: `reduceMax` passes its step by value, so that every candidate costs
  0 and the first two pieces are joined whatever the quality.
* `LDeltaFunction.cpp:553`: `update` reduces the points that follow from a wrong index
  unless exactly two were replaced. It has no unit test. With a final availability of 0 it
  divides 0 by 0, and `min` and `max` use the horizon of the left function.
* `FSPAvailabilityInformation`: the aggregate doubles `accumZsq`, starts `accumZmax` with
  the function itself, and the distance has a precedence error.
* `ZAFunction`: a new piece begins one unit after the crossing, and `min` and `max` split
  pieces without need.

In the simulator:

* `CentralizedScheduler.cpp:75`: the first of the copy is dropped when any task of the node
  finishes; with DP, whose tasks are reordered while they run, it may be one that waits, and
  with messages out of order (`RescheduleMsg`) the copies of MMP, DP and FSP differ from the
  queues. `CopiesCanBeTrusted` says what remains true.
* `SimAppDatabase`: `finishedTask` returns true again for a repeated report, `abortedTask`
  works where that of the program never does, and `getInstanceId` returns -1 where the
  program dereferences `end()`.
* `oldsim/StarsNode.cpp:292`: the messages that a failed node sent to itself reach the
  scheduler that replaces its own, and the new one numbers its information from the start,
  which the father discards; after `createSimTree` the first update of each branch is
  discarded too, as it has number 1 like the copy of the father (`PolicyFactory.cpp:106`).
* `Simulator::stepForward`: `p` dangles when the last event was captured. A tree of one node
  reads `currentLevel[1]` out of bounds; the module starts at two.
* `cases/dispatcher.cpp`: in `uniformProcess` and `poissonProcess` the next application is
  written over the current one before its command is handled, and in `siteLevel` when two
  are sent in the same instant; the percentage is one ahead; a deadline of `siteLevel`
  counts from the wrong instant; an application sent by a node without a father leaves its
  user waiting for ever.
* `manySearches.cpp:83`: `afterEvent` has another signature than that of the base and is
  never called, so that only the first search is sent, and with one search the run ends
  before its first event.
* `RequestGenerator.cpp`: the first description is drawn 2 times in n and the last almost
  never; a trailing empty line is a description with an uninitialized frequency;
  `createUniformCDF` of an unsorted list has probabilities that go down. An empty file makes
  `repeat` take the front of an empty list.
* `LibStarsStatistics`: a task that pauses is counted as running for ever.
* `Simulator.cpp:253`: a run that is stopped by a signal or by a limit writes "Ending test
  at" as one that is complete, and is skipped afterwards, also when the directory was left
  by another configuration; SIGUSR1 after that line makes it run again; when `in_file` and
  `out_file` are the same it is truncated before it is read.
* `sweeperdaemon.cpp`: given a regular file, the waiter may wait for ever or return too
  early; the handler of the signal does not take the mutex, so that it may lose a wakeup or
  miss a process that is not in the list yet; and it blocks when the reader is about to open
  the pipe. A step of 0 never ends, a date such as `2012-01-02` is an interval, and the last
  header without a newline is lost. `max_mem` is three different things
  (`Simulator.cpp:274`, `sweeperdaemon.cpp:70`, `oldsim/StarsNode.cpp:140`).
* `Distributions.cpp:127`: a comment says that the first and the last value of a plateau
  stay; at the end of the distribution the last is dropped. A histogram of equal values has
  a distribution of zeros.
* `PerformanceStatistics`: after a partial save, the minimum of an event that did not happen
  again is 0. Fields that `cdf` does not find wrap around.

### Fairness

* `SubmissionNode`: weak fairness of the handlers (the event loop takes what is in the
  queue), of timers that expire, of the overlay settling, and of nodes that are up ending
  their tasks. Dispatching, failures and reminders are free. `SimSubmissionNode` has the
  same.
* `CommLayer`: weak fairness of each thread, of the end of a wait whose time has come, and,
  for the properties of timers, of the clock. Messages, timers and signals are free.
* `Scheduler`: weak fairness of the handler of status messages, of each thread of a task
  (processes end) and of the father settling. Timers need not expire.
* `Dispatcher`: weak fairness of the receipt of messages, of time passing and of tasks
  ending. Losses are free and bounded.
* `Routing`: weak fairness of the receipt of bags only. Information need never be told and
  requests never forgotten.
* `Workload`: weak fairness of the handlers of events, of the tasks, which end or are given
  up, of time and of the statistics at the end: the simulator takes the next event as long
  as there is one.
* `Sweeper`: weak fairness of each thread, of the handler and of the processes, which end.
* `Overlay` and `Clustering` need none. `ComesToRest` says that no behaviour goes on for
  ever, however its steps are chosen; since a message can always be handled, with any
  fairness the network reaches the quiet states that most of the other properties speak of.
  `EveryStepIsProgress` says that each step lowers a measure.

The event loop handles its queue in order and never stops by itself, threads are scheduled
by the system, and asio calls its handlers, so that no more than weak fairness is ever asked
for.

## Proofs

All proofs are for every value of the constants that satisfies the named assumption of the
module. Each follows the same argument: a type invariant, one strengthening per theorem with
what it needs of the rest of the state, and a lemma for the step with a case per action.

`CommLayer_proofs` proves for any number of messages, timers, signals and instants
(assumption `CommLayerConstants`: the bounds are naturals):

* `TypeCorrect`: `TypeOK`, which includes that `queueMutex` is held exactly in the critical
  sections of the main thread. It is inductive.
* `NoLostWakeup`: `NoWaitWithMessages`. Inductive together with `TypeOK`: the main thread
  begins to wait in the step that has found the queue empty with the mutex held, and whoever
  appends afterwards is in `notifying` in the same step.
* `NoForgottenTimer`: `TimersAreCovered`. The step lemma follows the first timer of the list
  (`FrontIsFirst`, from the least element of a set of naturals) through `setTimer`,
  `cancelTimer` and `checkExpired`.
* `ImplementsService`: the refinement of `EventService`, step by step (`ServiceStep`).

`Scheduler_proofs` proves for any set of policies, deadlines, and number of tasks, timers,
aborts, failures and changes (assumption `SchedulerConstants`):

* `TypeCorrect`: `TypeOK`, which includes that no task is twice in the queue. It rests on
  `OrdersOf`: what a policy leaves of a set of tasks is a sequence with each once.
* `OwnersAlwaysReminded`: `OwnersAreReminded`. `monitorTimer` must be shown to agree with
  the timer itself, which the property does not say.
* `FatherAlwaysKnows`: `FatherKnowsQueue`. In a change the property says nothing, so that
  the invariant adds that a queue the father does not know is noted in `dirty`.
* `EndAlwaysFinal`: `EndIsFinal`, an action property. Tasks that ended are out of the queue,
  and new ones have numbers that none has had.
* `OneProcessAlways`: `OneProcess`. It is far from inductive. `RunInv` adds that a thread
  that has been released is that of the first task even before it forks; that threads that
  have not prepared their task are locked out; that a message with the end of a task is in
  the queue only when its thread is over, so that the first task leaves its place only then;
  and that MMP and IBP have the oldest task first, so that a new bag does not take its turn
  (`FirstStays`).

`SubmissionNode_proofs` proves for any number of instances, tasks, requests, nodes, timers,
losses, faults and restarts (`DatabaseConstants`, `SubmissionConstants`):

* `TypeCorrect`: `TypeOK`. The counters are unsigned whatever is subtracted from them, and a
  reminder has at most one task that has ended because a node runs one at a time.
* `RequestsAlwaysConsistent`: `RequestsConsistent`. `DbOK` adds that an instance has all
  its tasks or none, so that no row leads to a task that was not created, and `EnvInv` that
  nodes and messages only name requests that were created.
* `NothingEverForgotten`: `NothingIsForgotten`. `Timed` says of each search which request
  watches it, `HeartbeatsOK` that the handle a node has is that of a timer that is armed or
  has expired. `sendRequest` is one lemma (`SendKeeps`) on the record of what it changes, so
  that the five handlers that call it use the same facts.
* `FinishedAlways`: `FinishedForGood`. `Follows` relates two databases: no new request takes
  the number of an old one, and finished tasks stay.

It also proves `CountersAlwaysMatch`: `CountersMatch`, under `Punctual` (the acceptance of a node is handled before its reports, timers expire when
nothing that would stop them is on its way, nothing is lost, no restart), which is what
`Submission_ends.cfg` sets; without it the property is false, as the disagreements at
`TaskBagAppDatabase.cpp:250` and `SubmissionNode.cpp:221` show. The step from the database to
the counters is counting (`SizeChanges`, `NoWrap`). Most of the proof is `KeysInv`, since a
counter is only right if no node reports a task that is not its own: a key that the overlay
routes is searched and no node has it (`OffersOK`); a key that a node or one of its messages
has leads to a task that is the node's or finished, or is searched with the acceptance still
to come (`HoldsOK`); no two nodes have the same key (`HoldersOK`); a timer that has expired
has nothing left that could have stopped it (`FiredOK`).

Its last part proves of `SimSubmissionNode` `TwinsAlwaysAgree`: `TwinsAgree`, under `Punctual`
again. `Twin`
relates the tables of the program to the instances of the simulator: the tasks of a live
instance have the same state and, if they execute, the same host; each request has a name of
its own, and its pointers are its rows (`SameRequests`); a request that the simulator erased
with its instance finds nothing. It is kept method by method, from `CreateTwins` and
`SearchingTwins`, which needs that the ranks of the ready tasks are all the numbers up to
their count (`RanksAreAll`), to `CancelTwins`, `AcceptedTwins`, `FinishedTwins` and the
erasure of an instance, and then handler by handler (`DispatchTwins` to `TaskMonitorTwins`).
Two facts of the rest of the state are needed. A report must find its tasks still with its
node (`KeysInv`): `finishedTask` of the simulator does not look at the host, that of the
program does. And a request whose timer is armed or has expired has a number of retries (`Tried`), so
that a timeout asks both again or neither. The simulator finds a task that is aborted and the
program never does (`AbortedTaskReturns`), so that the property says nothing once `aborted`.

`Dispatcher_proofs` proves for any tree, set of requests and number of faults
(`TreeAssumption`: finitely many peers, each of them the leaf of one branch, and no branch
below itself; `RequestAssumption`):

* `TypeCorrect`: `TypeOK`, for which a count of free nodes is at most the number of nodes
  below the link, on links, in what waits and in messages alike (`TypeInv`).
* `NothingEverInvented`: `NothingIsInvented`. `OnceInv` says of each task that it is in one
  bag on its way, or at one node, or over; the division of a bag between two sides is shown
  to be a partition.
* `NewsAlwaysUsed`: `NewsIsUsed`, under `NoFaults` (the nodes tell their state first and
  nothing fails), as in `Dispatcher_info.cfg`: the numbers on a link, on their way and of the
  last notification are in their order (`SeqInv`). With faults it is false.
* `InformationAlwaysSettles`: `InformationSettles`, under `NoFaults` and `Unhindered` (no limit
  of bandwidth, and no branch with its father's address for a child). `RightInv` says what a
  link is wrong about while messages are on their way: the last message of the child is right,
  or a bag that the child has not received explains the difference; `ToldInv` that a branch
  has told its father all it knows.

`Routing_proofs` proves for any tree, requests and each policy `TasksAreNeverWasted`:
`TasksAreNotWasted`. `OnceInv` says of each task that it is in one bag on its way, or at one
node, or done with. What each policy gives to the two sides is shown to be no more than the
bag has (for MMP, `Served` counts the turns of both sides), the bags that are sent to share
no task, and `TypeInv` says how a zone that MMP changed goes with the links (`Covers`): it
counts the same nodes, either with the same queues (`SameQueues`) or with queues of one
length, which those of the links do not exceed (`LevelQueues`). A length that is enough in
the zone (`BalancedFits`) is then enough for the groups of the children, which are never
smaller than what the zone counts of them (`GroupRoom`). Hence `DropsWithoutRoom`: MMP drops
a task only if the longest length that it tries is not enough, or a queue has it already.

`Simulation_proofs` proves for any number of nodes, bandwidths, delays, lengths of tasks,
clients, failures and operations (`SimulationAssumption`):

* `EngineIsGood`: the inductive invariant. No event is in the past, and only the messages of
  applications take the network (`FutureOK`); a timer is set, on its way to the services or
  gone, at most one of these, whatever nodes it was lost with (`TimersOK`, `ExpirationsOK`);
  each timer has a check at its node that is not later than it, and one at its time if its
  bit says so (`ChecksOK`); the messages that wait at a link are spaced by what the link takes
  (`LinksOK`); and a task that runs has one timer, of the time that is left of it, or its end
  on its way (`TasksOK`). An action changes the state by several calls in a row, so that each
  call is a function on the record of the state and has one lemma that says it keeps `Good`
  (`SetTimerIsGood`, `PutIsGood`, `RunIsGood`...).
* `TimersRight`, `LinksAreSerial` and `TasksTakeTime`: `TimersAreRight`, `LinkIsSerial` and
  `TasksTakeTheirTime`, each from that invariant. A timer that is set first gets a check of
  its own; when a check sends the first timers, the next one gets one unless its bit says that
  it has it: were the bit wrong, the timer would wait for the next message of the node. The
  tasks only take their time because a pause cancels the timer, so that no end of a task that
  was paused meanwhile is heard (`gone`).
* The nodes that fail are a shuffle that is defined by recursion. What it computes is not
  proved, only that it is a sequence of nodes (`ShuffledTyped`): the recursive function is
  shown to exist, as there would be a least number at which it does not.

It also proves, of `SimulationRun` and for any files of properties, size of network and number
of runs, `RunsAlwaysKeepResults`: `RunsKeepResults`. `LogInv` relates the lines of the log to the
statistics written so far and to the phase, `LimitsInv` the memory and the number of events
to the last check, `NetworkInv` the nodes to the file.

Its last part proves of `Sweeper`, for any memory, number of places and files, through a pipe
or not, and with or without the signal (`SweeperAssumption`: a file gives a list of cases,
which TLC evaluates), `CasesAlwaysRight`: `CasesAreRight`. The inductive invariant is
`SweeperInv`:

* `MainOK`: the main thread holds the mutex from the test of the memory left until the process
  is in the list, so that the case it looks at is still there, and still fits, when it is
  noted.
* `ProcessesOK`: each child has a case of its own, which was started or is being started; one
  that has ended before it is in the list is only collected when the mutex is free, and then
  its memory is given back.
* `CasesTyped`, and `CasesApart`: there are as many cases as numbers, so that no two places
  have the same case, and none that is in the list was started or thrown away.

`Workload_proofs` proves for any cases, nodes, commands, tasks and calendar
(`WorkloadAssumption`: among others, with the largest deltas the morning and the night are
hours of one day) `WorkAlwaysAccounted`: `WorkIsAccounted`, which is inductive once the types,
and the identifiers of applications, are added (`TypeInv`), and `QueueInv`: in the cases
without users there is one command at most on its way, the last one, and its node has the
description.

* `Count` counts the members of a set in a queue. The queue after an injection is a
  permutation of the two lists it joins (`Injected`, from the ranks, which are all different),
  so that each count is the sum of both (`InjectedCount`).
* `WakesInTime` is the calendar: however late a user of either kind goes to sleep, the days
  from the table lead to the right hour of a work day. `WeekDaysDelta` is only correct because
  it is looked up for the day the user would wake, not for the day he goes to sleep.
* `Awaits` is what `UsersAreAwaited` says of one user. An event of another node leaves it
  (`OthersStay`, `AwaitsWithoutHead`); its own adds a timer, a batch, or passes a job on from
  a message to a command to an application (`TimerSet`, `BatchSet`, `NodeHandles`, `UserIsTold`).
* `TaskChanges` and `TasksWithoutOne` do the same for the tasks the statistics count.

`CentralScheduler_proofs` proves for any nodes, applications, lengths, deadlines and set of
policies (`CentralAssumption`) `DecisionsAlwaysHold`: `DecisionsHold`. The inductive invariant
is `IInv`:

* `CountInv`: the tasks on their way to a node, those at the node and those it has told of are
  at most as many as in the copy of its queue, whichever of these the copy drops. For this a
  node must never hold a task that its sequence does not name, since it would drop it
  (`StateInv`), nor a message bring one that its own sequence does not name (`MessagesInv`).
* `SeqInv` and `LastInv`: the messages to a node are numbered as the applications came, so
  that no older message, however late, makes a node forget tasks of the last application.
  That is what the count of the tasks of DP in `HolesSuffice` needs.
* `IBPInv`: with IBP a queue has at most one task and nothing is overtaken.
* `CacheOk`, the invariant of the loop of DP over the nodes: no more holes than tasks, none of
  them empty, and room for all the tasks or all the room there is. `WithHoleIsOk` shows that a
  node keeps it, also when holes leave the heap, and `DPPlaceIs` that each hole gets tasks
  that no other gets, as many as the application has if there is room. That `Caches`, defined
  by recursion, exists is shown with a least number at which it does not (`CachesAre`).
* `blind` keeps no copy of the queues, so that the theorem says nothing of it.

Only model-checked:

* All liveness (`EveryInstanceEnds`, `ComesToRest` and the others under fairness), and
  `EveryStepIsProgress` and `StatisticsAreFaithful`, whose measures are sums over data.
* `TreeIsSound` and `TransactionsSettle` of `Overlay`: its handlers are folds over sequences
  and bags, which the prover cannot expand, and would have to be written without them first.
* `BuiltTreeIsSound`, `SummariesAreSound` and `FunctionsPromiseWhatIs`: `SimTree`,
  `Clustering` and the functions use recursion or folds over data, so that what they compute
  needs induction; so does what the files of `SimulationsFile` give (`FilesAreRead`).

## Not modelled

* In `SimulationsFile`: intervals with an empty part, which the code counts as intervals.
* In `Overlay`: the states of leaving and merging, which `checkFanout` does not start and no
  handler completes; the calls to the observers of the structure (they are the
  `startChanges` and `commitChanges` of `Dispatcher`); lost messages and failing peers, for
  which the transactions have no timeout. At this commit `StructureNode` does not implement
  the whole of `OverlayBranch`, and only tests and the simulator drive it.
* In `Dispatcher`: memory and disk of nodes, reduction of clusters (it is in `Clustering`),
  and information sent downwards, which IBP does not send (it is in `Routing`). In
  `SubmissionNode`: what execution nodes do beyond their messages. In `Scheduler`: the
  sequence numbers of the information.
* In `Routing`: more than one change of state of a node while bags are on their way (the run
  lets one node change once, under DP and FSP), and more than one cluster per link. The second
  matters to `DropsWithoutRoom`: with several clusters per link, the zone may leave a cluster
  that lacks room for one task where it is and raise the rest, while the clusters of the
  child are grouped in another way. The theorem says nothing of it.
* In `Clustering` and the functions: rounding, `sqdiff` and `maxAndLoss` of `ZAFunction`,
  which need logarithms, and the quality of an approximation. `reduceMin` and `reduceMax` of
  `LDeltaFunction` have their bodies commented out. The functions of DP are checked for a
  queue that is not preempted.
* In the simulator: percentages, speedups, cut lines and the text of files; the size of
  messages; what `FailureGenerator` tells the other nodes; traffic accounting. Undefined
  behaviour of the signal handler of the sweeper, which reads lists that other threads
  change, is left out.
* Serialization, configuration, logs, the database wrapper, the web interface, unit and
  performance tests, and the tools that write to a pipe or start a debugger: no state
  machine in them.
* `src/sim`, a rewriting of the simulator over SimGrid that `src/src/CMakeLists.txt` has
  commented out.

The map covers about a third of the lines of implementation. Much of the rest is the
previous item, the tests, `src/sim`, the headers of accessors, and output.

## Plan

In order:

1. An abstract tree that changes atomically, and `Overlay` shown to implement it; lemmas
   about `Zones` (what aggregation covers, that a split halves) and the type
   invariant of `Overlay`, proved.
2. An abstract execution service that `Scheduler` implements and that
   `SubmissionNode` relies on, so that both ends are composed.
3. More changes of the state of nodes in `Routing` while bags are on their way, and with MMP.
