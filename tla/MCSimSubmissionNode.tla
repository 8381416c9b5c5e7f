------------------------ MODULE MCSimSubmissionNode -------------------------
(***************************************************************************)
(* Small instances of SimSubmissionNode for TLC.                           *)
(***************************************************************************)
EXTENDS SimSubmissionNode

CONSTANTS h1, h2

=============================================================================
