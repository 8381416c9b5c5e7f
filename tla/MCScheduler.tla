---------------------------- MODULE MCScheduler ----------------------------
(***************************************************************************)
(* Small instances of Scheduler for TLC.                                   *)
(***************************************************************************)
EXTENDS Scheduler

\* Every task has an earlier deadline than the ones before it.
EarlierAndEarlier == [t \in TaskIds |-> MaxTasks - t]

\* Bound: client aborts, failed threads and changes of the father together.
FewEvents == aborts + failures + changes <= 1

=============================================================================
