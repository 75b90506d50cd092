----------------------------- MODULE MCMonitors -----------------------------
(***************************************************************************)
(* Instance of Monitors for TLC.                                           *)
(***************************************************************************)
EXTENDS Monitors
=============================================================================
