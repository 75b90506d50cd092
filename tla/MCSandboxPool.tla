---------------------------- MODULE MCSandboxPool ----------------------------
(***************************************************************************)
(* Instance of SandboxPool for TLC.                                        *)
(***************************************************************************)
EXTENDS SandboxPool

\* One module of each kind that takes a path of its own through execute: where
\* a thread is free for the ticker, one that spins runs like all the others.
OneOfEachPath == {"spins", "no_start", "wont_compile"}

\* Requests queue for a permit only with more threads than permits; spinning
\* guests starve the ticker only without.
FewOrManyThreads == {2, 3}
=============================================================================
