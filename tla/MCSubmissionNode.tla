-------------------------- MODULE MCSubmissionNode --------------------------
(***************************************************************************)
(* Small instances of SubmissionNode for TLC.                              *)
(***************************************************************************)
EXTENDS SubmissionNode, TLC

CONSTANTS h1, h2

\* The execution nodes are interchangeable: safety runs only.
HostSymmetry == Permutations(Hosts)

=============================================================================
