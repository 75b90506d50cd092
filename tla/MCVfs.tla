------------------------------- MODULE MCVfs -------------------------------
(***************************************************************************)
(* Instance of Vfs for TLC: a file and a directory, a path that leaves the *)
(* root, one without a parent; a table of two descriptors, a quota of four *)
(* bytes and rings of two and one bytes.                                   *)
(***************************************************************************)
EXTENDS Vfs

MCComponents == {"", ".", "..", "a", "b", "x", "none", "tmp", "home", "workspace", "main.wasm"}
MCGuestPaths == {<<"tmp", ".", "a">>, <<"tmp">>, <<"none", "x">>, <<"..", "tmp">>}
ReadWrite == [creat |-> TRUE, excl |-> FALSE, trunc |-> TRUE, append |-> FALSE,
              rights |-> Rights]
Appending == [creat |-> FALSE, excl |-> FALSE, trunc |-> FALSE, append |-> TRUE,
              rights |-> {"FD_WRITE"}]
Exclusive == [creat |-> TRUE, excl |-> TRUE, trunc |-> FALSE, append |-> FALSE,
              rights |-> {"FD_READ"}]
MCOpenModes == {ReadWrite, Appending, Exclusive}
MCIovLists == {<<2>>, <<1, -1>>}
MCOffsets == {-1, 2}
MCAllPaths == SeqOf({"", ".", "..", "a", "b"}, 5)
=============================================================================
