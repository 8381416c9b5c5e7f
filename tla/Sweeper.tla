------------------------------- MODULE Sweeper -------------------------------
(***************************************************************************)
(* The daemon that runs simulation cases (tools/sweeperdaemon.cpp).  The   *)
(* main thread starts processes while there are places and memory for      *)
(* them, a second thread waits for their ends, and a third one reads files *)
(* of cases from a pipe; with a regular file instead of the pipe there is  *)
(* no third thread.  A signal stops the daemon; its handler runs on the    *)
(* main thread, without the mutex.                                         *)
(*                                                                         *)
(* What a case is comes from SimulationsFile.  A step is what a thread     *)
(* does while it holds the mutex, or between two points where another      *)
(* thread could notice.  Reading processes or availableMemory in the       *)
(* handler while another thread changes them is undefined, and left out.   *)
(***************************************************************************)
EXTENDS SimulationsFile

CONSTANTS
  Memory,        \* the memory of the machine, in megabytes
  NumProcesses,  \* option -p
  Scripts,       \* what is given: whether through a pipe, and the files
  MayStop        \* whether the signal may come

ASSUME SweeperAssumption ==
  /\ Memory \in Nat /\ NumProcesses \in Nat \ {0} /\ MayStop \in BOOLEAN
  /\ \A s \in Scripts :
       /\ s.pipe \in BOOLEAN /\ (~s.pipe => Len(s.files) = 1)
       /\ Len(s.files) \in Nat /\ DOMAIN s.files = 1 .. Len(s.files)
       /\ \A i \in DOMAIN s.files : Len(GetPropertiesList(s.files[i])) \in Nat

VARIABLES
  script,         \* whether there is a pipe, and the cases of the files still to come
  caseInstances,  \* the cases to run, with the order in which they came
  newInstances,   \* those that the reader has, and has not handed over
  processes,      \* the processes as the daemon knows them
  availableMemory,
  children,       \* the processes that exist, and whether they still run
  instance,       \* how far reschedule is in the list
  end,            \* whether the daemon has to end
  mutex,          \* the thread that holds m
  main, waiter, reader, handler,   \* where each of them is
  pid,            \* what the waiter got from wait()
  interrupted,    \* whether pipeThread was interrupted
  given,          \* how many cases were read
  started, dropped,  \* the cases that ran or were found too large
  atRest          \* whether the signal found every thread waiting

sweeperVars == <<script, caseInstances, newInstances, processes, availableMemory, children,
                 instance, end, mutex, main, waiter, reader, handler, pid, interrupted, given, started,
                 dropped, atRest>>

None == 0

\* A process is known by the number of its case.
GetMemoryLimit(c) ==
  IF "max_mem" \in DOMAIN c.props /\ IsNumber(c.props["max_mem"])
  THEN Numbers[c.props["max_mem"]] ELSE 0

Numbered(list, n) == [i \in 1 .. Len(list) |-> [id |-> n + i, props |-> list[i]]]

Known(id) == \E p \in processes : p.id = id
Running == {c \in children : c.runs}

\* What a notification makes of a thread that waits for it.
Woken(pc, from, to) == IF pc = from THEN to ELSE pc

-----------------------------------------------------------------------------
(* The main thread.                                                        *)

\* Simulations::run up to its loop: only a regular file is read at once.
SweeperInit ==
  /\ \E s \in Scripts :
       LET lists == [i \in DOMAIN s.files |-> GetPropertiesList(s.files[i])] IN
       IF s.pipe THEN /\ script = [pipe |-> TRUE, files |-> lists]
                      /\ caseInstances = <<>> /\ reader = "open"
       ELSE /\ script = [pipe |-> FALSE, files |-> <<>>]
            /\ caseInstances = Numbered(lists[1], 0) /\ reader = "none"
  /\ given = Len(caseInstances)
  /\ newInstances = <<>> /\ processes = {} /\ children = {} /\ started = <<>> /\ dropped = {}
  /\ availableMemory = Memory /\ instance = 1
  /\ end = FALSE /\ mutex = "nobody" /\ pid = None /\ interrupted = FALSE /\ atRest = FALSE
  /\ main = "round" /\ waiter = "look" /\ handler = "idle"

Round ==
  /\ main = "round" /\ handler = "idle" /\ mutex = "nobody"
  /\ main' = "reschedule" /\ mutex' = "main" /\ instance' = 1
  /\ UNCHANGED <<script, caseInstances, newInstances, processes, availableMemory, children, end,
                 waiter, reader, handler, pid, interrupted, given, started, dropped, atRest>>

\* Simulations::reschedule looks at the next case.
Looks ==
  /\ main = "reschedule" /\ handler = "idle"
  /\ Cardinality(processes) < NumProcesses /\ instance <= Len(caseInstances)

Candidate == caseInstances[instance]

\* spawnProcess: the process may end before the daemon has it in its list.
Spawn ==
  /\ Looks /\ GetMemoryLimit(Candidate) <= availableMemory
  /\ children' = children \cup {[id |-> Candidate.id, runs |-> TRUE]}
  /\ main' = "spawned"
  /\ UNCHANGED <<script, caseInstances, newInstances, processes, availableMemory, instance, end,
                 mutex, waiter, reader, handler, pid, interrupted, given, started, dropped, atRest>>

NoteProcess ==
  /\ main = "spawned" /\ handler = "idle"
  /\ availableMemory' = availableMemory - GetMemoryLimit(Candidate)
  /\ processes' = processes \cup {[id |-> Candidate.id, mem |-> GetMemoryLimit(Candidate)]}
  /\ started' = Append(started, Candidate)
  /\ caseInstances' = RemoveAt(caseInstances, instance)
  /\ waiter' = Woken(waiter, "wait children", "woken")
  /\ main' = "reschedule"
  /\ UNCHANGED <<script, newInstances, children, instance, end, mutex, reader, handler, pid,
                 interrupted, given, dropped, atRest>>

\* Mutant of TooLarge: a case that does not fit now is thrown away.
TooLargeNow == TRUE

\* There is not enough memory, though nothing else is running.
TooLarge == processes = {}

SkipCase ==
  /\ Looks /\ GetMemoryLimit(Candidate) > availableMemory
  /\ IF TooLarge
     THEN /\ dropped' = dropped \cup {Candidate}
          /\ caseInstances' = RemoveAt(caseInstances, instance) /\ UNCHANGED instance
     ELSE instance' = instance + 1 /\ UNCHANGED <<dropped, caseInstances>>
  /\ UNCHANGED <<script, newInstances, processes, availableMemory, children, end, mutex, main,
                 waiter, reader, handler, pid, interrupted, given, started, atRest>>

\* The list is over: with a regular file, the daemon ends with its last case.
Rescheduled ==
  /\ main = "reschedule" /\ handler = "idle"
  /\ Cardinality(processes) = NumProcesses \/ instance > Len(caseInstances)
  /\ IF ~script.pipe /\ caseInstances = <<>>
     THEN end' = TRUE /\ main' = "test" /\ mutex' = "nobody"
     ELSE main' = "falls asleep" /\ UNCHANGED <<end, mutex>>
  /\ UNCHANGED <<script, caseInstances, newInstances, processes, availableMemory, children,
                 instance, waiter, reader, handler, pid, interrupted, given, started, dropped,
                 atRest>>

\* newCasesOrProcesses.wait gives the mutex back.
FallAsleep ==
  /\ main = "falls asleep" /\ handler = "idle"
  /\ main' = "waiting" /\ mutex' = "nobody"
  /\ UNCHANGED <<script, caseInstances, newInstances, processes, availableMemory, children, instance, end,
                 waiter, reader, handler, pid, interrupted, given, started, dropped, atRest>>

Test ==
  /\ main = "test" /\ handler = "idle"
  /\ main' = IF end THEN "join" ELSE "round"
  /\ UNCHANGED <<script, caseInstances, newInstances, processes, availableMemory, children, instance, end,
                 mutex, waiter, reader, handler, pid, interrupted, given, started, dropped, atRest>>

\* The threads are joined; a thread that never started is no obstacle.
Join ==
  /\ main = "join" /\ handler = "idle"
  /\ reader \in {"none", "done"} /\ waiter = "done"
  /\ main' = "done"
  /\ UNCHANGED <<script, caseInstances, newInstances, processes, availableMemory, children, instance, end,
                 mutex, waiter, reader, handler, pid, interrupted, given, started, dropped, atRest>>

-----------------------------------------------------------------------------
(* Simulations::waitProcesses.                                             *)

Look ==
  /\ waiter = "look" /\ mutex = "nobody"
  /\ IF processes # {} THEN waiter' = "wait" /\ UNCHANGED mutex
     ELSE IF end THEN waiter' = "done" /\ UNCHANGED mutex
     ELSE waiter' = "falls asleep" /\ mutex' = "waiter"
  /\ UNCHANGED <<script, caseInstances, newInstances, processes, availableMemory, children, instance, end,
                 main, reader, handler, pid, interrupted, given, started, dropped, atRest>>

\* children.wait gives the mutex back.
WaitChildren ==
  /\ waiter = "falls asleep"
  /\ waiter' = "wait children" /\ mutex' = "nobody"
  /\ UNCHANGED <<script, caseInstances, newInstances, processes, availableMemory, children, instance, end,
                 main, reader, handler, pid, interrupted, given, started, dropped, atRest>>

WakeUp ==
  /\ waiter = "woken" /\ mutex = "nobody"
  /\ waiter' = IF end THEN "done" ELSE "wait"
  /\ UNCHANGED <<script, caseInstances, newInstances, processes, availableMemory, children, instance, end,
                 mutex, main, reader, handler, pid, interrupted, given, started, dropped, atRest>>

\* wait(NULL) returns -1 when there are no children.
WaitProcess ==
  /\ waiter = "wait"
  /\ \/ /\ children = {}
        /\ waiter' = "look"
        /\ UNCHANGED <<children, pid>>
     \/ \E c \in children \ Running :
          /\ pid' = c.id /\ children' = children \ {c}
          /\ waiter' = "collect"
  /\ UNCHANGED <<script, caseInstances, newInstances, processes, availableMemory, instance, end, mutex,
                 main, reader, handler, interrupted, given, started, dropped, atRest>>

\* The megabytes of some processes, each counted with its owner.
Megabytes(S) == UNION {{p.id} \X (1 .. p.mem) : p \in S}
MemoryOf(S) == Cardinality(Megabytes(S))

Freed(id) == MemoryOf({p \in processes : p.id = id})

Collect ==
  /\ waiter = "collect" /\ mutex = "nobody"
  /\ availableMemory' = availableMemory + Freed(pid)
  /\ processes' = {p \in processes : p.id # pid}
  /\ waiter' = "tell"
  /\ UNCHANGED <<script, caseInstances, newInstances, children, instance, end, mutex, main, reader, handler,
                 pid, interrupted, given, started, dropped, atRest>>

Tell ==
  /\ waiter = "tell"
  /\ waiter' = "look" /\ pid' = None
  /\ main' = Woken(main, "waiting", "test")
  /\ UNCHANGED <<script, caseInstances, newInstances, processes, availableMemory, children, instance, end,
                 mutex, reader, handler, interrupted, given, started, dropped, atRest>>

\* A simulation ends.
ProcessEnds ==
  /\ \E c \in Running : children' = (children \ {c}) \cup {[c EXCEPT !.runs = FALSE]}
  /\ UNCHANGED <<script, caseInstances, newInstances, processes, availableMemory, instance, end, mutex,
                 main, waiter, reader, handler, pid, interrupted, given, started, dropped, atRest>>

-----------------------------------------------------------------------------
(* Simulations::getNewCases.                                               *)

\* Somebody writes a file into the pipe, and the reader reads it whole.
ReadPipe ==
  /\ reader = "open" /\ script.files # <<>>
  /\ script' = [script EXCEPT !.files = Tail(@)]
  /\ newInstances' = Numbered(Head(script.files), given)
  /\ given' = given + Len(newInstances')
  /\ reader' = "interruption point"
  /\ UNCHANGED <<caseInstances, processes, availableMemory, children, instance, end, mutex, main, waiter,
                 handler, pid, interrupted, started, dropped, atRest>>

InterruptionPoint ==
  /\ reader = "interruption point"
  /\ reader' = IF interrupted THEN "done" ELSE IF newInstances = <<>> THEN "open" ELSE "splice"
  /\ UNCHANGED <<script, caseInstances, newInstances, processes, availableMemory, children, instance, end,
                 mutex, main, waiter, handler, pid, interrupted, given, started, dropped, atRest>>

Splice ==
  /\ reader = "splice" /\ mutex = "nobody"
  /\ caseInstances' = caseInstances \o newInstances /\ newInstances' = <<>>
  /\ reader' = "tell"
  /\ UNCHANGED <<script, processes, availableMemory, children, instance, end, mutex, main, waiter, handler,
                 pid, interrupted, given, started, dropped, atRest>>

\* Mutant of ToldOfCases: the main thread is told only while some process
\* runs, which is when it counts what is left.
ToldOfCasesWhenBusy(pc) == IF processes # {} THEN Woken(pc, "waiting", "test") ELSE pc

ToldOfCases(pc) == Woken(pc, "waiting", "test")

TellOfCases ==
  /\ reader = "tell"
  /\ reader' = "open" /\ main' = ToldOfCases(main)
  /\ UNCHANGED <<script, caseInstances, newInstances, processes, availableMemory, children, instance, end,
                 mutex, waiter, handler, pid, interrupted, given, started, dropped, atRest>>

-----------------------------------------------------------------------------
(* Simulations::stop, on the main thread.                                  *)

Stop ==
  /\ MayStop /\ handler = "idle" /\ ~end /\ main # "done"
  /\ handler' = "write"
  /\ end' = TRUE /\ interrupted' = TRUE
  /\ children' = {IF Known(c.id) THEN [c EXCEPT !.runs = FALSE] ELSE c : c \in children}
  /\ waiter' = Woken(waiter, "wait children", "woken")
  /\ atRest' = (main = "waiting" /\ reader \in {"open", "none"} /\ script.files = <<>>
                /\ waiter \in {"wait children", "wait"})
  /\ UNCHANGED <<script, caseInstances, newInstances, processes, availableMemory, instance, mutex, main,
                 reader, pid, given, started, dropped>>

\* The pipe cannot be opened for writing while nobody reads it; the reader
\* finds an empty file in it.
WriteNothing ==
  /\ handler = "write"
  /\ reader \in {"open", "none"}
  /\ reader' = Woken(reader, "open", "interruption point")
  /\ handler' = "tell"
  /\ UNCHANGED <<script, caseInstances, newInstances, processes, availableMemory, children, instance, end,
                 mutex, main, waiter, pid, interrupted, given, started, dropped, atRest>>

StopTells ==
  /\ handler = "tell"
  /\ handler' = "idle" /\ main' = Woken(main, "waiting", "test")
  /\ UNCHANGED <<script, caseInstances, newInstances, processes, availableMemory, children, instance, end,
                 mutex, waiter, reader, pid, interrupted, given, started, dropped, atRest>>

MainSteps ==
  Round \/ Spawn \/ NoteProcess \/ SkipCase \/ Rescheduled \/ FallAsleep \/ Test \/ Join
WaiterSteps == Look \/ WaitChildren \/ WakeUp \/ WaitProcess \/ Collect \/ Tell
ReaderSteps == ReadPipe \/ InterruptionPoint \/ Splice \/ TellOfCases
HandlerSteps == WriteNothing \/ StopTells

SweeperNext == MainSteps \/ WaiterSteps \/ ProcessEnds \/ ReaderSteps \/ Stop \/ HandlerSteps

SweeperSpec == SweeperInit /\ [][SweeperNext]_sweeperVars

\* Threads are scheduled, simulations end, and files are written as long as
\* there are any.
SweeperFairness ==
  /\ WF_sweeperVars(MainSteps)
  /\ WF_sweeperVars(WaiterSteps) /\ WF_sweeperVars(ReaderSteps) /\ WF_sweeperVars(HandlerSteps)
  /\ WF_sweeperVars(ProcessEnds)

-----------------------------------------------------------------------------
(* Properties.                                                             *)

\* The processes that exist never take more than the memory and the places of
\* the machine, and what the daemon thinks is left is what is left.
MachineIsRespected ==
  /\ availableMemory + MemoryOf(processes) = Memory /\ availableMemory >= 0
  /\ Cardinality(processes) <= NumProcesses
  /\ \A c \in children : Known(c.id) \/ (main = "spawned" /\ c.id = Candidate.id)

\* No case is lost or run twice: it is with the reader, in the list, started
\* or thrown away, and this only when it would not fit into an idle machine.
CasesAreKept ==
  LET all == newInstances \o caseInstances \o started
      ids == {c.id : c \in ToSet(all) \cup dropped}
  IN  /\ Len(all) + Cardinality(dropped) = given /\ ids = 1 .. given
      /\ \A c \in dropped : GetMemoryLimit(c) > Memory

\* Each case that is read is kept until it runs or is found too large, and the
\* machine is never asked for more than it has.
CasesAreRight == CasesAreKept /\ MachineIsRespected

\* The daemon has nothing more to do.
SweeperIdle ==
  /\ script = [pipe |-> FALSE, files |-> <<>>] /\ caseInstances = <<>> /\ newInstances = <<>>
  /\ processes = {} /\ children = {} /\ availableMemory = Memory
  /\ instance = 1 /\ end = TRUE /\ mutex = "nobody" /\ pid = None
  /\ main = "done" /\ waiter = "done" /\ reader = "none" /\ handler = "idle"
  /\ interrupted = FALSE /\ atRest = FALSE
  /\ given = 0 /\ started = <<>> /\ dropped = {}

\* The daemon that starts will read of each file what it says; not said of
\* one that is over.
FilesAreRead ==
  main # "done" => \A s \in Scripts : \A i \in DOMAIN s.files : CombinationsAreAll(s.files[i])

\* The files give all their cases, and each case that is read is run or found
\* too large in the end, unless the daemon is stopped; and a signal that finds
\* its threads waiting ends it.
CasesAreTried ==
  /\ FilesAreRead
  /\ []<>(/\ interrupted \/ Len(started) + Cardinality(dropped) = given
          /\ atRest => main = "done")
=============================================================================
