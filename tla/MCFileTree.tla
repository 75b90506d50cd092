---------------------------- MODULE MCFileTree ----------------------------
(***************************************************************************)
(* Instance of FileTree for TLC: a file at the root before a directory     *)
(* that has a file and a directory in it.                                  *)
(***************************************************************************)
EXTENDS FileTree

MCPathOrder == << <<"readme">>, <<"src", "lib", "a">>, <<"src", "main">> >>

\* A run leaves nothing or files at all three levels.
MCOutputs == {{}, ToSet(MCPathOrder)}
=============================================================================
