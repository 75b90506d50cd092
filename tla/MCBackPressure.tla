--------------------------- MODULE MCBackPressure ---------------------------
(***************************************************************************)
(* Instance of BackPressure for TLC; requests are interchangeable.         *)
(***************************************************************************)
EXTENDS BackPressure, TLC

Symmetry == Permutations(Requests)
=============================================================================
