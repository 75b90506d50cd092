---------------------------- MODULE BackPressure ----------------------------
(***************************************************************************)
(* Admission control of the WASM worker (backpressure.rs) as handle_execute *)
(* uses it (api.rs).  check_admission and admit run in one poll of the     *)
(* handler, so at most one handler per runtime thread is between them; the *)
(* counter they share is read by the first and written by the second.      *)
(***************************************************************************)
EXTENDS Naturals, FiniteSets

CONSTANTS
  Requests,   \* POST /execute requests; each happens at most once
  Threads,    \* worker threads of the tokio runtime
  Capacity    \* pool_capacity: main passes the pool size

ASSUME BackPressureAssumption ==
  /\ IsFiniteSet(Requests)
  /\ Threads \in Nat
  /\ Capacity \in Nat

VARIABLES
  pc,         \* how far each handler is
  sawHot,     \* the CPU/memory verdict in the handler's copy of the snapshot
  active,     \* active_count
  admittedCount, shedCount,
  hot         \* the cached snapshot is above the CPU or memory threshold

vars == <<pc, sawHot, active, admittedCount, shedCount, hot>>

PCs == {"new", "loading", "checked", "executing", "shed", "done"}

Loading   == {r \in Requests : pc[r] = "loading"}
Checked   == {r \in Requests : pc[r] = "checked"}
Executing == {r \in Requests : pc[r] = "executing"}

\* POOL_UTILISATION_THRESHOLD = 0.90 of the capacity, as a number of requests.
\* active / capacity > 0.90 in f64 is the same comparison: the quotient is the
\* double nearest to 0.9 only when it is exactly nine tenths.
Limit == (9 * Capacity) \div 10
PoolOverloaded(a) == Capacity = 0 \/ 10 * a > 9 * Capacity

TypeOK ==
  /\ pc \in [Requests -> PCs]
  /\ sawHot \in [Requests -> BOOLEAN]
  /\ active \in Nat
  /\ admittedCount \in Nat /\ shedCount \in Nat
  /\ hot \in BOOLEAN

Init ==
  /\ pc = [r \in Requests |-> "new"]
  /\ sawHot = [r \in Requests |-> FALSE]
  /\ active = 0
  /\ admittedCount = 0 /\ shedCount = 0
  /\ hot = FALSE

\* The background task writes the next sample of CPU and memory.
Refresh ==
  /\ hot' \in BOOLEAN
  /\ UNCHANGED <<pc, sawHot, active, admittedCount, shedCount>>

\* check_admission, first half: copy the snapshot.  The handler needs a thread.
LoadSnapshot(r) ==
  /\ pc[r] = "new"
  /\ Cardinality(Loading \cup Checked) < Threads
  /\ pc' = [pc EXCEPT ![r] = "loading"]
  /\ sawHot' = [sawHot EXCEPT ![r] = hot]
  /\ UNCHANGED <<active, admittedCount, shedCount, hot>>

\* Mutant: the pool's utilisation is not looked at.
DecideByLoadOnly(r) ==
  /\ pc[r] = "loading"
  /\ \/ /\ sawHot[r]
        /\ pc' = [pc EXCEPT ![r] = "shed"]
        /\ shedCount' = shedCount + 1
        /\ UNCHANGED admittedCount
     \/ /\ ~sawHot[r]
        /\ pc' = [pc EXCEPT ![r] = "checked"]
        /\ admittedCount' = admittedCount + 1
        /\ UNCHANGED shedCount
  /\ UNCHANGED <<sawHot, active, hot>>

\* check_admission, second half: load active_count and decide.
Decide(r) ==
  /\ pc[r] = "loading"
  /\ \/ /\ sawHot[r] \/ PoolOverloaded(active)
        /\ pc' = [pc EXCEPT ![r] = "shed"]
        /\ shedCount' = shedCount + 1
        /\ UNCHANGED admittedCount
     \/ /\ ~sawHot[r] /\ ~PoolOverloaded(active)
        /\ pc' = [pc EXCEPT ![r] = "checked"]
        /\ admittedCount' = admittedCount + 1
        /\ UNCHANGED shedCount
  /\ UNCHANGED <<sawHot, active, hot>>

\* admit: count the execution and hand out the ticket.
Admit(r) ==
  /\ pc[r] = "checked"
  /\ pc' = [pc EXCEPT ![r] = "executing"]
  /\ active' = active + 1
  /\ UNCHANGED <<sawHot, admittedCount, shedCount, hot>>

\* Mutant: an error path loses the ticket.
FinishLeaks(r) ==
  /\ pc[r] = "executing"
  /\ pc' = [pc EXCEPT ![r] = "done"]
  /\ active' \in {active - 1, active}
  /\ UNCHANGED <<sawHot, admittedCount, shedCount, hot>>

\* The ticket is dropped on every way out of the handler: a result, an error, a
\* payload that is not Base64, a panic, a client that went away.
Finish(r) ==
  /\ pc[r] = "executing"
  /\ pc' = [pc EXCEPT ![r] = "done"]
  /\ active' = active - 1
  /\ UNCHANGED <<sawHot, admittedCount, shedCount, hot>>

Next ==
  \/ \E r \in Requests : LoadSnapshot(r) \/ Decide(r) \/ Admit(r) \/ Finish(r)
  \/ Refresh

Spec == Init /\ [][Next]_vars

-----------------------------------------------------------------------------
(* Properties. *)

\* The gauge is the truth: active_count is the number of executions in flight,
\* so a panic or a lost client never wedges admission shut, and the counter
\* never goes below zero (AtomicUsize would wrap).
ActiveAccurate == active = Cardinality(Executing)

\* The check and the count race, but only as far as there are threads: the
\* executions in flight never exceed nine tenths of the capacity by more than
\* the number of runtime threads.
AdmissionBounded == Cardinality(Executing) <= Limit + Threads

\* Admission control works for good: the gauge it reads does not drift, and what
\* it lets in stays bounded although check_admission and admit are not atomic.
AdmissionSound == ActiveAccurate /\ AdmissionBounded

\* The bound with the handlers that passed the check and are not counted yet.
CommittedBounded ==
  /\ Cardinality(Loading) + Cardinality(Checked) <= Threads
  /\ active + Cardinality(Checked) <= Limit + Threads

=============================================================================
