----------------------------- MODULE MCWorkload -----------------------------
(***************************************************************************)
(* Workload with two clients, or one user from a Friday until the Monday;  *)
(* Sweeper on a small machine; or the Statistics of a few rows: in a       *)
(* behaviour only one of them does something, and the others are over.     *)
(***************************************************************************)
EXTENDS Workload, Sweeper, Statistics

NodesOf == [c \in Cases |-> IF c = "site" THEN 1 ELSE 2]
SearchesOf == [c \in Cases |-> IF c \in {"poisson", "many"} THEN 2 ELSE 3]

Numerals == <<"0", "1", "2", "3", "4", "5">>
SmallNumbers == [t \in ToSet(Numerals) |-> CHOOSE n \in 0 .. 5 : Numerals[n + 1] = t]

CaseSection(name, super, lines) == [case |-> name, name |-> name, super |-> super, lines |-> lines]
Line(key, values) == [key |-> key, values |-> values]

\* One section, whose second case is larger than the machine.
Sizes3 == <<CaseSection("a", "", <<Line("max_mem", <<Text("2"), Text("5"), Text("1")>>)>>)>>

\* An interval, and a section that inherits the memory, as a choice between
\* the values of another key.
Inheriting ==
  <<CaseSection("a", "", <<Line("max_mem", <<Text("1")>>),
                           Line("x", <<Interval("-", Text("1"), Text("1"), Text("2"))>>)>>),
    CaseSection("b", "a", <<Line("max_mem", <<Reference("x"), Text("4")>>),
                            Line("x", <<Text("3")>>)>>)>>

\* The combinations of two keys, and the memory chosen by the first one.
Choosing ==
  <<CaseSection("a", "", <<Line("k", <<Text("0"), Text("1")>>),
                           Line("max_mem", <<Choice("k", <<"3", "1">>)>>)>>)>>

OneCase == <<CaseSection("a", "", <<Line("max_mem", <<Text("3")>>)>>)>>

SmallScripts ==
  {[pipe |-> FALSE, files |-> <<f>>] : f \in {Sizes3, Inheriting, Choosing, <<>>}}
    \cup {[pipe |-> TRUE, files |-> <<f, g>>] : f \in {Sizes3, Choosing}, g \in {OneCase, <<>>}}

WorkloadIdle ==
  /\ case = "uniform" /\ now = 0 /\ events = <<>> /\ nextApp = [n \in Nodes |-> 0]
  /\ records = <<>> /\ users = Nobody /\ jobs = {} /\ troubles = 0 /\ ended = TRUE
  /\ submitted = NumSearches[case] /\ finished = NumSearches[case]
  /\ stats = [existing |-> 0, running |-> 0, apps |-> NumSearches[case], unfinished |-> 0]

AppRow(t, l, f) ==
  [x \in {2, 3, 8, 9, 10, 11} |->
     CASE x = 2 -> t [] x = 3 -> l [] x = 8 -> f
       [] x = 9 -> l + 2 * f [] x = 10 -> l * t [] x = 11 -> 4 * t - f]

SmallRows ==
  [f \in {"apps", "requests", "cpu", "availability"} |->
     CASE f = "apps" -> {AppRow(t, l, n) : t \in {1, 3}, l \in {2, 5, 9}, n \in 0 .. 1}
                          \cup {AppRow(2, 13, 2)}
       [] f = "requests" -> {[x \in {4, 7} |-> IF x = 4 THEN n ELSE n * n] : n \in {0, 3}}
       [] f = "cpu" -> {[x \in {1} |-> 7]}
       [] f = "availability" -> {[x \in {0, 1} |-> 1 + x]}]

SmallGenerators ==
  {[kind |-> "file", frequencies |-> f] : f \in {<<3>>, <<1, 2, 1>>, <<2, 0, 1>>, <<0, 2>>}}
    \cup {[kind |-> "lists", lengths |-> <<1, 2>>, sizes |-> s, deadlines |-> <<1>>] :
            s \in {<<5>>, <<5, 10, 20>>}}
    \cup {[kind |-> "values", values |-> v] : v \in {<<1>>, <<1, 2>>, <<1, 4, 6>>}}

MCInit ==
  \/ Init /\ SweeperIdle /\ StatisticsIdle
  \/ WorkloadIdle /\ SweeperInit /\ StatisticsIdle
  \/ WorkloadIdle /\ SweeperIdle /\ StatisticsInit

MCNext ==
  \/ Next /\ UNCHANGED <<sweeperVars, statisticsVars>>
  \/ SweeperNext /\ UNCHANGED <<vars, statisticsVars>>
  \/ StatisticsNext /\ UNCHANGED <<vars, sweeperVars>>

MCSpec ==
  /\ MCInit /\ [][MCNext]_<<vars, sweeperVars, statisticsVars>>
  /\ Fairness /\ SweeperFairness

=============================================================================
