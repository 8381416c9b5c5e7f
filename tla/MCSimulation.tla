---------------------------- MODULE MCSimulation ----------------------------
(***************************************************************************)
(* Simulation with two nodes, the second with a slower link inwards, the   *)
(* trees of SimTree, or three runs of SimulationRun: a behaviour is of one *)
(* of them.                                                                *)
(***************************************************************************)
EXTENDS Simulation, SimTree, SimulationRun, TLC

SlowIn == (0 :> 1) @@ (1 :> 2)
FastOut == (0 :> 1) @@ (1 :> 1)
FirstTwice == <<0, 0, 1>>

NoSimulation ==
  /\ time = 0 /\ events = {} /\ lastId = 0 /\ timerId = 0 /\ taskId = 0
  /\ failing = <<>> /\ numFailed = 0 /\ gone = {} /\ left = 0
  /\ node = [n \in Nodes |-> [timers |-> {}, tasks |-> <<>>, inEnd |-> 0, outEnd |-> 0, heard |-> 0]]

NoTree ==
  /\ size = 0 /\ down = FALSE /\ leafFather = <<>> /\ branch = <<>> /\ disp = <<>>
  /\ level = <<>> /\ avail = <<>> /\ sorted = <<>> /\ stage = "none"

Case(n) == <<"case_name", n>>

\* Runs that save a network, load it, do both with the same file, have a limit
\* or crash; and one whose file of properties is empty.
RunProperties ==
  {<<Case("work"), <<"out_file", TRUE>>>>,
   <<Case("work"), <<"max_mem", 5>>, <<"max_mem", 1>>, <<"in_file", TRUE>>>>,
   <<Case("work"), <<"max_sim_time", 2>>, <<"overwrite", TRUE>>>>,
   <<Case("work"), <<"max_time", 2>>, <<"in_file", TRUE>>, <<"out_file", TRUE>>>>,
   <<Case("networkCheck"), <<"in_file", TRUE>>, <<"overwrite", TRUE>>>>,
   <<Case("noop")>>, <<Case("sigsev"), <<"overwrite", TRUE>>>>, <<>>}

RunIdle ==
  /\ conf = Defaults /\ phase = "down" /\ doStop = FALSE /\ sim = NewSim
  /\ progress = 0 /\ nodes = 0 /\ log = <<>>
  /\ files = [f \in StatisticsFiles |-> "none"] /\ network = NoFile /\ runs = MaxRuns

MCInit ==
  \/ Init /\ NoTree /\ RunIdle
  \/ NoSimulation /\ TreeInit /\ RunIdle
  \/ NoSimulation /\ NoTree /\ RunInit

MCNext ==
  \/ Next /\ UNCHANGED <<treeVars, runVars>>
  \/ TreeNext /\ UNCHANGED <<vars, runVars>>
  \/ RunNext /\ UNCHANGED <<vars, treeVars>>

MCSpec == MCInit /\ [][MCNext]_<<vars, treeVars, runVars>>
=============================================================================
