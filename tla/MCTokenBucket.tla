---------------------------- MODULE MCTokenBucket ----------------------------
(***************************************************************************)
(* Instance of TokenBucket for TLC.                                        *)
(***************************************************************************)
EXTENDS TokenBucket
=============================================================================
