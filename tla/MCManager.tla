------------------------------ MODULE MCManager ------------------------------
(***************************************************************************)
(* Instance of Manager for TLC: every client is configured once, in some   *)
(* order.                                                                  *)
(***************************************************************************)
EXTENDS Manager, SequencesExt

MCConfigured == SetToSeq(Clients)
=============================================================================
