----------------------------- MODULE MCSession -----------------------------
(***************************************************************************)
(* Instance of Session for TLC: programs that succeed with and without     *)
(* files, exit with a code, and trap after writing files.                  *)
(***************************************************************************)
EXTENDS Session

MCResults == {
  [end |-> "ok",      chunks |-> 2, files |-> TRUE],
  [end |-> "ok",      chunks |-> 0, files |-> FALSE],
  [end |-> "nonzero", chunks |-> 1, files |-> FALSE],
  [end |-> "trap",    chunks |-> 1, files |-> TRUE]}
=============================================================================
