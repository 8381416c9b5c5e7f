---------------------------- MODULE SimulationRun ----------------------------
(***************************************************************************)
(* One run of the simulator after another, with the same directory of      *)
(* results and the same file for the state of the nodes: main and the      *)
(* phases that it goes through (oldsim/Simulator.cpp), the files that      *)
(* StarsNode::Configuration opens (oldsim/StarsNode.cpp) and the cases     *)
(* that have no workload (oldsim/cases/test.cpp).                          *)
(*                                                                         *)
(* What happens inside a simulation is in Simulation and Workload; here an *)
(* event takes time and memory and may bring the case forward.  A run may  *)
(* be killed anywhere, and gets the signals that it handles from preStart  *)
(* on.  A file is whole when it is on disk; the state of the nodes is only *)
(* written out when the process ends.                                      *)
(***************************************************************************)
EXTENDS Integers, Sequences, FiniteSets

CONSTANTS
  Configurations,  \* the files of properties that runs are started with
  NetworkSize,        \* num_nodes
  Goal,            \* what a case with a workload has to do
  MemoryEvents,    \* how often the memory is checked, 1000 events in the code
  MaxEvents,       \* how many events a run may have
  MaxRuns          \* how many runs there may be

ASSUME RunAssumption ==
  /\ NetworkSize \in Nat \ {0} /\ Goal \in Nat /\ MemoryEvents \in Nat \ {0}
  /\ MaxEvents \in Nat /\ MaxRuns \in Nat
  /\ Configurations \subseteq
       Seq({"case_name"} \X STRING \cup {"overwrite", "in_file", "out_file"} \X BOOLEAN
             \cup {"max_time", "max_sim_time", "max_mem"} \X Int)

VARIABLES
  conf,      \* the properties of the run
  phase,     \* how far main is
  doStop,
  sim,       \* numEvents, the times, the memory and whether there are events
  progress,  \* what the case has done
  nodes,     \* how many nodes were set up or, at the end, finished
  log,       \* the lines of execution.log that matter
  files,     \* the files of statistics
  network,   \* how many nodes the file of states has, or NoFile
  runs       \* how many runs there were

runVars == <<conf, phase, doStop, sim, progress, nodes, log, files, network, runs>>

NoFile == -1
StatisticsFiles == {"stars", "perf", "traffic"}

\* Simulator::Simulator
NewSim == [numEvents |-> 0, time |-> 0, real |-> 0, memory |-> 0, pending |-> FALSE]

\* What the code takes for a property that is not there.
Defaults ==
  [case_name |-> "", overwrite |-> FALSE, max_time |-> 0, max_sim_time |-> 0, max_mem |-> 0,
   in_file |-> FALSE, out_file |-> FALSE]

\* Properties::loadFrom: the last line of a key counts.
LoadFromLines(lines) ==
  [k \in DOMAIN Defaults |->
     LET at == {i \in DOMAIN lines : lines[i][1] = k} IN
     IF at = {} THEN Defaults[k] ELSE lines[CHOOSE i \in at : \A j \in at : j <= i][2]]

\* The memory of a process that is gone.
Gone ==
  /\ phase' = "down" /\ conf' = Defaults /\ doStop' = FALSE
  /\ sim' = NewSim /\ progress' = 0 /\ nodes' = 0

\* The cases that are registered: noop, sigsev and networkCheck, and one that
\* stands for those with a workload.
CaseNames == {"noop", "sigsev", "networkCheck", "work"}

RunInit ==
  /\ conf = Defaults /\ phase = "down" /\ doStop = FALSE /\ sim = NewSim
  /\ progress = 0 /\ nodes = 0 /\ log = <<>>
  /\ files = [f \in StatisticsFiles |-> "none"] /\ network = NoFile /\ runs = 0

-----------------------------------------------------------------------------
(* setProperties.                                                          *)

Begin(lines) ==
  /\ phase = "down" /\ runs < MaxRuns
  /\ conf' = LoadFromLines(lines) /\ phase' = "case" /\ runs' = runs + 1
  /\ UNCHANGED <<doStop, sim, progress, nodes, log, files, network>>

\* CaseFactory::createCase
CreateCase ==
  /\ phase = "case"
  /\ IF conf.case_name \in CaseNames THEN phase' = "log" /\ UNCHANGED doStop
     ELSE phase' = "unknown" /\ doStop' = TRUE
  /\ UNCHANGED <<conf, sim, progress, nodes, log, files, network, runs>>

\* The variant for which any log will do.
LogExists == log # <<>>

\* checkLogFile: the last whole line, unless it is the first one.
CheckLogFile == Len(log) >= 2 /\ log[Len(log)] = "Ending"

Skip ==
  /\ phase = "log" /\ ~conf.overwrite /\ CheckLogFile
  /\ phase' = "skipped" /\ doStop' = TRUE
  /\ UNCHANGED <<conf, sim, progress, nodes, log, files, network, runs>>

\* The log starts again, and with it the statistics of performance.
OpenLog ==
  /\ phase = "log" /\ (conf.overwrite \/ ~CheckLogFile)
  /\ log' = <<"Running">> /\ files' = [files EXCEPT !["perf"] = "open"]
  /\ phase' = "configure"
  /\ UNCHANGED <<conf, doStop, sim, progress, nodes, network, runs>>

\* StarsNode::libStarsConfigure, of which the parameters of the policies are
\* left out, and StarsNode::Configuration::setup: an input file that is not
\* there is an exception that nobody catches; the output file starts again,
\* even when it is the same one.
SetupConfiguration ==
  /\ phase = "configure"
  /\ IF conf.in_file /\ network = NoFile THEN Gone /\ UNCHANGED network
     ELSE /\ phase' = "open"
          /\ network' = IF conf.out_file THEN 0 ELSE network
          /\ UNCHANGED <<conf, doStop, sim, progress, nodes>>
  /\ UNCHANGED <<log, files, runs>>

\* LibStarsStatistics::openStatsFiles
OpenStatsFiles ==
  /\ phase = "open"
  /\ files' = [files EXCEPT !["stars"] = "open"] /\ phase' = "nodes"
  /\ UNCHANGED <<conf, doStop, sim, progress, nodes, log, network, runs>>

\* StarsNode::setup and unpackState; a state that is missing is taken for the
\* end of the run.
SetupNode ==
  /\ phase = "nodes" /\ nodes < NetworkSize
  /\ IF conf.in_file /\ network <= nodes THEN Gone
     ELSE nodes' = nodes + 1 /\ UNCHANGED <<conf, phase, doStop, sim, progress>>
  /\ UNCHANGED <<log, files, network, runs>>

-----------------------------------------------------------------------------
(* The simulation.                                                         *)

\* setProperties is over; the failures and the central scheduler that it sets
\* up last are in other modules.
Prepared == phase = "nodes" /\ nodes = NetworkSize

\* preStart of sigsev, and of networkCheck, which only looks at the tree.
Crashes == conf.case_name = "sigsev"
StopsAtOnce == conf.case_name = "networkCheck"

PreStart ==
  /\ Prepared
  /\ IF Crashes THEN Gone
     ELSE /\ phase' = "run" /\ doStop' = StopsAtOnce
          /\ sim' = [sim EXCEPT !.pending = conf.case_name = "work"]
          /\ UNCHANGED <<conf, progress, nodes>>
  /\ UNCHANGED <<log, files, network, runs>>

CaseGoesOn == conf.case_name = "work" /\ progress < Goal

\* The limits that run tests before an event.
LimitReached ==
  \/ conf.max_time > 0 /\ sim.real >= conf.max_time
  \/ conf.max_sim_time > 0 /\ sim.time >= conf.max_sim_time
  \/ conf.max_mem > 0 /\ sim.numEvents % MemoryEvents = 0 /\ sim.memory > conf.max_mem

GoesOn == sim.pending /\ ~doStop /\ CaseGoesOn

\* An iteration of run: real time passes, the rest may.
StepForward ==
  /\ phase = "run" /\ GoesOn /\ ~LimitReached /\ sim.numEvents < MaxEvents
  /\ \E t \in 0 .. 2, m \in 0 .. 1, more \in BOOLEAN :
       sim' = [numEvents |-> sim.numEvents + 1, time |-> sim.time + t, real |-> sim.real + 1,
               memory |-> sim.memory + m, pending |-> more]
  /\ progress' \in {progress, progress + 1}
  /\ UNCHANGED <<conf, phase, doStop, nodes, log, files, network, runs>>

\* The progress that is shown from time to time.
ShowProgress ==
  /\ phase = "run" /\ log = <<"Running">>
  /\ log' = Append(log, "Progress")
  /\ UNCHANGED <<conf, phase, doStop, sim, progress, nodes, files, network, runs>>

\* What the simulation did only goes to the statistics.
EndOfRun ==
  /\ phase = "run" /\ (~GoesOn \/ LimitReached)
  /\ phase' = "stars" /\ sim' = NewSim /\ progress' = 0 /\ nodes' = 0
  /\ UNCHANGED <<conf, doStop, log, files, network, runs>>

-----------------------------------------------------------------------------
(* The end.                                                                *)

\* showStatistics: one file after another.
SaveTotal(f, next) ==
  /\ phase = f
  /\ files' = [files EXCEPT ![f] = "whole"] /\ phase' = next
  /\ UNCHANGED <<conf, doStop, sim, progress, nodes, log, network, runs>>

\* Simulator::finish, node by node; StarsNode::finish packs the state.
FinishNode ==
  /\ phase = "finish" /\ nodes < NetworkSize
  /\ nodes' = nodes + 1
  /\ network' = IF conf.out_file THEN network + 1 ELSE network
  /\ UNCHANGED <<conf, phase, doStop, sim, progress, log, files, runs>>

\* The last line of main.
Ending ==
  /\ phase = "finish" /\ nodes = NetworkSize
  /\ log' = Append(log, "Ending") /\ phase' = "ended"
  /\ UNCHANGED <<conf, doStop, sim, progress, nodes, files, network, runs>>

Exit ==
  /\ phase \in {"unknown", "skipped", "ended"} /\ Gone
  /\ UNCHANGED <<log, files, network, runs>>

-----------------------------------------------------------------------------
(* The signals, and what kills a run.                                      *)

\* Since the handlers of SIGINT and SIGTERM were installed, finish(int) only
\* stops the simulation.
Handled == phase \in {"run", "stars", "perf", "traffic", "finish", "ended"}

Signal ==
  /\ Handled /\ ~doStop /\ doStop' = TRUE
  /\ UNCHANGED <<conf, phase, sim, progress, nodes, log, files, network, runs>>

ShowInformation == log' = Append(log, "Properties")

\* SIGUSR1 writes the properties to the log; bound: the lines of the log.
SignalInformation ==
  /\ Handled /\ Len(log) < 4 /\ ShowInformation
  /\ UNCHANGED <<conf, phase, doStop, sim, progress, nodes, files, network, runs>>

\* Any other signal or, earlier, those ones.  What was packed may be lost.
Crash ==
  /\ phase # "down" /\ Gone
  /\ network' \in IF conf.out_file /\ nodes > 0 /\ phase \in {"finish", "ended"}
                  THEN 0 .. network ELSE {network}
  /\ UNCHANGED <<log, files, runs>>

RunNext ==
  \/ \E lines \in Configurations : Begin(lines)
  \/ CreateCase \/ Skip \/ OpenLog \/ SetupConfiguration \/ OpenStatsFiles \/ SetupNode
  \/ PreStart \/ StepForward \/ ShowProgress \/ EndOfRun
  \/ SaveTotal("stars", "perf") \/ SaveTotal("perf", "traffic") \/ SaveTotal("traffic", "finish")
  \/ FinishNode \/ Ending \/ Exit
  \/ Signal \/ SignalInformation \/ Crash

RunSpec == RunInit /\ [][RunNext]_runVars
-----------------------------------------------------------------------------
(* The properties.                                                         *)

\* A run is only skipped when all the statistics of an earlier one are there,
\* whatever was killed or crashed in between (Simulator.cpp:213, 253).
SkipsAreRight == phase = "skipped" => \A f \in StatisticsFiles : files[f] = "whole"

\* The limits stop a simulation with at most one more event, and that of
\* memory before the next check passed (Simulator.cpp:403).
LimitsAreRespected ==
  /\ conf.max_time > 0 => sim.real <= conf.max_time
  /\ conf.max_sim_time > 0 => sim.time <= conf.max_sim_time + 1
  /\ conf.max_mem > 0 => sim.memory <= conf.max_mem + MemoryEvents

\* A simulation goes on with a network only if all of its nodes were loaded
\* from a file, and the state of all of them is packed before a run says that
\* it ended (oldsim/StarsNode.cpp:155, 267).
NetworkIsWhole ==
  /\ phase = "run" /\ conf.in_file /\ ~conf.out_file => network >= NetworkSize
  /\ phase = "ended" /\ conf.out_file => network = NetworkSize

\* Results that are complete, and the network that was saved with them, are
\* replaced by nothing but a run that has to overwrite them; and then what
\* runs keep is right (Simulator.cpp:253, oldsim/StarsNode.cpp:155).
RunsKeepResults ==
  /\ [](SkipsAreRight /\ LimitsAreRespected /\ NetworkIsWhole)
  /\ [][CheckLogFile /\ ~conf.overwrite /\ phase # "ended" => UNCHANGED <<log, files, network>>]_runVars

=============================================================================
