---------------------------- MODULE MCCommLayer ----------------------------
(***************************************************************************)
(* Small instances of CommLayer for TLC: the constants are in the .cfg     *)
(* files.                                                                  *)
(***************************************************************************)
EXTENDS CommLayer

=============================================================================
