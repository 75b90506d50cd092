---------------------------- MODULE DurableStore ----------------------------
(***************************************************************************)
(* What the write-behind service promises of the snapshots its channel     *)
(* accepts: each one is settled once, either stored or given up, for good. *)
(* How many are outstanding, and when a batch is settled, is left open.    *)
(***************************************************************************)
EXTENDS Naturals

VARIABLES
  accepted,   \* number of snapshots accepted; they are numbered from 1
  stored,     \* the ones in the database
  forsaken    \* the ones that will never be stored

vars == <<accepted, stored, forsaken>>

Outstanding == (1 .. accepted) \ (stored \cup forsaken)

Init ==
  /\ accepted = 0
  /\ stored = {}
  /\ forsaken = {}

Accept ==
  /\ accepted' = accepted + 1
  /\ UNCHANGED <<stored, forsaken>>

\* One transaction stores a whole batch.
Store ==
  /\ stored \subseteq stored' /\ stored' \subseteq stored \cup Outstanding
  /\ UNCHANGED <<accepted, forsaken>>

Forsake ==
  /\ forsaken \subseteq forsaken' /\ forsaken' \subseteq forsaken \cup Outstanding
  /\ UNCHANGED <<accepted, stored>>

Next == Accept \/ Store \/ Forsake

Spec == Init /\ [][Next]_vars
=============================================================================
