---------------------------- MODULE MCWriteBehind ----------------------------
(***************************************************************************)
(* Instance of WriteBehind for TLC.  Snapshots are ordered by their        *)
(* numbers, so there is no symmetry to use.                                *)
(***************************************************************************)
EXTENDS WriteBehind
=============================================================================
