------------------------------- MODULE Manager -------------------------------
(***************************************************************************)
(* The orchestrator's SandboxManager (pool/manager.go) and its WarmPool    *)
(* (pool/pool.go): Execute calls, the replenish loop and the heartbeat     *)
(* loop run as separate goroutines over one buffered channel of worker     *)
(* clients and one mutex-protected list of workers.                        *)
(***************************************************************************)
EXTENDS Naturals, Sequences, FiniteSets

CONSTANTS
  Calls,      \* calls of Execute; each happens at most once
  Clients,    \* worker clients
  NoClient,   \* a call that holds no client
  Configured, \* cfg.WorkerClients: the clients as the list NewManager gets
  PoolCap,    \* PoolCapacity
  VFSCap,     \* capacity of the write-behind channel
  MaxFlips    \* bound: how often a worker goes down or comes back

ASSUME ManagerAssumption ==
  /\ IsFiniteSet(Calls)
  /\ NoClient \notin Clients
  /\ Configured \in Seq(Clients) /\ Configured # <<>>
  /\ PoolCap \in Nat \ {0}
  /\ VFSCap \in Nat
  /\ MaxFlips \in Nat

VARIABLES
  slots,      \* pool.slots: the buffered channel
  workers,    \* m.workers
  pc,         \* how far each call is in Execute
  ctxDone,    \* acquireCtx of a waiting call has expired or was cancelled
  held,       \* client a call got from the pool
  snap,       \* the worker's response carries a VFS snapshot
  outcome,    \* what Execute returns
  vfsCh,      \* the write-behind channel
  totalExecs, failedExecs,
  refill,     \* the replenish loop: its local state
  beat,       \* the heartbeat loop: its local state
  closed,     \* m.done is closed
  up,         \* environment: the workers that answer
  flips       \* environment: changes of up so far

callVars == <<pc, ctxDone, held, snap, outcome>>
loopVars == <<refill, beat, closed>>
envVars  == <<up, flips>>
countVars == <<totalExecs, failedExecs>>
vars == <<slots, workers, pc, ctxDone, held, snap, outcome, vfsCh,
          totalExecs, failedExecs, refill, beat, closed, up, flips>>

PCs  == {"new", "select", "executing", "forward", "putting", "done"}

\* The calls that took a client and have not put it back.
InFlight == {c \in Calls : pc[c] \in {"executing", "forward", "putting"}}

RefillIdle == [at |-> "idle", list |-> <<>>, needed |-> 0, i |-> 0]
BeatIdle   == [at |-> "idle", list |-> <<>>, alive |-> <<>>]

TypeOK ==
  /\ slots \in Seq(Clients) /\ Len(slots) <= PoolCap
  /\ workers \in Seq(Clients)
  /\ pc \in [Calls -> PCs]
  /\ ctxDone \in [Calls -> BOOLEAN]
  /\ held \in [Calls -> Clients \cup {NoClient}]
  /\ \A c \in InFlight : held[c] \in Clients
  /\ snap \in [Calls -> BOOLEAN]
  /\ outcome \in [Calls -> {"none", "exhausted", "failed", "ok"}]
  /\ vfsCh \in Seq(Calls) /\ Len(vfsCh) <= VFSCap
  /\ totalExecs \in Nat /\ failedExecs \in Nat
  /\ refill \in [at : {"idle", "counting", "filling", "ended"}, list : Seq(Clients),
                 needed : Nat, i : Nat]
  /\ refill.at \in {"counting", "filling"} => refill.list # <<>>
  /\ beat \in [at : {"idle", "checking", "ended"}, list : Seq(Clients),
               alive : Seq(Clients)]
  /\ closed \in BOOLEAN
  /\ up \subseteq Clients
  /\ flips \in Nat

\* workers[i % len(workers)]
RoundRobin(list, i) == list[(i % Len(list)) + 1]

\* NewManager: the first replenish fills the pool before anything else runs.
Init ==
  /\ slots = [k \in 1 .. PoolCap |-> RoundRobin(Configured, k - 1)]
  /\ workers = Configured
  /\ pc = [c \in Calls |-> "new"]
  /\ ctxDone = [c \in Calls |-> FALSE]
  /\ held = [c \in Calls |-> NoClient]
  /\ snap = [c \in Calls |-> FALSE]
  /\ outcome = [c \in Calls |-> "none"]
  /\ vfsCh = <<>>
  /\ totalExecs = 0 /\ failedExecs = 0
  /\ refill = RefillIdle
  /\ beat = BeatIdle
  /\ closed = FALSE
  /\ up = Clients
  /\ flips = 0

-----------------------------------------------------------------------------
(* Execute. *)

\* WarmPool.Put: a non-blocking send, discarded when the channel is full.
Put(w) ==
  \/ /\ Len(slots) < PoolCap
     /\ slots' = Append(slots, w)
  \/ /\ Len(slots) = PoolCap
     /\ UNCHANGED slots

\* WarmPool.Get's check of ctx.Err() before the select: the caller may have
\* cancelled already.
GetEnter(c, cancelled) ==
  /\ pc[c] = "new"
  /\ \/ /\ cancelled
        /\ pc' = [pc EXCEPT ![c] = "done"]
        /\ outcome' = [outcome EXCEPT ![c] = "exhausted"]
     \/ /\ ~cancelled
        /\ pc' = [pc EXCEPT ![c] = "select"]
        /\ UNCHANGED outcome
  /\ UNCHANGED <<slots, workers, ctxDone, held, snap, vfsCh, countVars,
                 loopVars, envVars>>

\* The caller cancels, or the acquire or execution timeout passes.
CtxEnds(c) ==
  /\ pc[c] = "select"
  /\ ~ctxDone[c]
  /\ ctxDone' = [ctxDone EXCEPT ![c] = TRUE]
  /\ UNCHANGED <<slots, workers, pc, held, snap, outcome, vfsCh, countVars,
                 loopVars, envVars>>

\* Either ready case of the select may be taken; nothing looks at acquireCtx
\* after it.
GetSlot(c) ==
  /\ pc[c] = "select"
  /\ slots # <<>>
  /\ held' = [held EXCEPT ![c] = Head(slots)]
  /\ slots' = Tail(slots)
  /\ pc' = [pc EXCEPT ![c] = "executing"]
  /\ ctxDone' = [ctxDone EXCEPT ![c] = FALSE]
  /\ UNCHANGED <<workers, snap, outcome, vfsCh, countVars, loopVars, envVars>>

GetFails(c) ==
  /\ pc[c] = "select"
  /\ ctxDone[c]
  /\ pc' = [pc EXCEPT ![c] = "done"]
  /\ outcome' = [outcome EXCEPT ![c] = "exhausted"]
  /\ ctxDone' = [ctxDone EXCEPT ![c] = FALSE]
  /\ UNCHANGED <<slots, workers, held, snap, vfsCh, countVars,
                 loopVars, envVars>>

\* w.Execute returns a response, with or without a VFS snapshot.
WorkerReturns(c, hasSnapshot) ==
  /\ pc[c] = "executing"
  /\ held[c] \in up
  /\ totalExecs' = totalExecs + 1
  /\ snap' = [snap EXCEPT ![c] = hasSnapshot]
  /\ outcome' = [outcome EXCEPT ![c] = "ok"]
  /\ pc' = [pc EXCEPT ![c] = "forward"]
  /\ UNCHANGED <<failedExecs, slots, workers, ctxDone, held, vfsCh, loopVars,
                 envVars>>

\* Mutant: the error path returns without the deferred Put.
WorkerFailsSkipsPut(c) ==
  /\ pc[c] = "executing"
  /\ totalExecs' = totalExecs + 1
  /\ failedExecs' = failedExecs + 1
  /\ outcome' = [outcome EXCEPT ![c] = "failed"]
  /\ pc' = [pc EXCEPT ![c] = "done"]
  /\ UNCHANGED <<slots, workers, ctxDone, held, snap, vfsCh, loopVars, envVars>>

\* w.Execute fails: worker down, deadline passed, or an error status.  The
\* deferred Put is all that is left to do.
WorkerFails(c) ==
  /\ pc[c] = "executing"
  /\ totalExecs' = totalExecs + 1
  /\ failedExecs' = failedExecs + 1
  /\ outcome' = [outcome EXCEPT ![c] = "failed"]
  /\ pc' = [pc EXCEPT ![c] = "putting"]
  /\ UNCHANGED <<slots, workers, ctxDone, held, snap, vfsCh, loopVars, envVars>>

\* Mutant: the send waits for room.
ForwardBlocking(c) ==
  /\ pc[c] = "forward"
  /\ pc' = [pc EXCEPT ![c] = "putting"]
  /\ \/ ~snap[c] /\ UNCHANGED vfsCh
     \/ snap[c] /\ Len(vfsCh) < VFSCap /\ vfsCh' = Append(vfsCh, c)
  /\ UNCHANGED <<slots, workers, ctxDone, held, snap, outcome,
                 countVars, loopVars, envVars>>

\* The non-blocking send of the snapshot to the write-behind service.
Forward(c) ==
  /\ pc[c] = "forward"
  /\ pc' = [pc EXCEPT ![c] = "putting"]
  /\ \/ /\ snap[c] /\ Len(vfsCh) < VFSCap
        /\ vfsCh' = Append(vfsCh, c)
     \/ /\ ~snap[c] \/ Len(vfsCh) = VFSCap
        /\ UNCHANGED vfsCh
  /\ UNCHANGED <<slots, workers, ctxDone, held, snap, outcome, countVars,
                 loopVars, envVars>>

\* The deferred m.pool.Put(w), and Execute returns.
PutBack(c) ==
  /\ pc[c] = "putting"
  /\ Put(held[c])
  /\ pc' = [pc EXCEPT ![c] = "done"]
  /\ held' = [held EXCEPT ![c] = NoClient]
  /\ snap' = [snap EXCEPT ![c] = FALSE]
  /\ UNCHANGED <<workers, ctxDone, outcome, vfsCh, countVars, loopVars, envVars>>

\* The write-behind service receives from its channel.
Receive ==
  /\ vfsCh # <<>>
  /\ vfsCh' = Tail(vfsCh)
  /\ UNCHANGED <<slots, workers, callVars, countVars, loopVars, envVars>>

-----------------------------------------------------------------------------
(* The replenish loop. *)

\* int(float64(cap) * 0.5)
Threshold == PoolCap \div 2

\* A tick that finds the pool below the threshold calls replenish, which reads
\* the worker list under the lock and gives up if it is empty.
Tick(threshold, list) ==
  /\ refill.at = "idle"
  /\ Len(slots) < threshold
  /\ list # <<>>
  /\ refill' = [RefillIdle EXCEPT !.at = "counting", !.list = list]
  /\ UNCHANGED <<slots, workers, callVars, vfsCh, countVars, beat, closed,
                 envVars>>

\* Mutant: the threshold is one too low.
ReplenishTickLate == Tick(Threshold - 1, workers)

ReplenishTick == Tick(Threshold, workers)

\* Once m.done is closed the select may still take a tick, but not for ever.
ReplenishEnds ==
  /\ closed /\ refill.at = "idle"
  /\ refill' = [RefillIdle EXCEPT !.at = "ended"]
  /\ UNCHANGED <<slots, workers, callVars, vfsCh, countVars, beat, closed,
                 envVars>>

\* needed := Cap - Len, read after the check and without a lock.
ReplenishCount ==
  /\ refill.at = "counting"
  /\ refill' = [refill EXCEPT !.at = "filling", !.needed = PoolCap - Len(slots)]
  /\ UNCHANGED <<slots, workers, callVars, vfsCh, countVars, beat, closed,
                 envVars>>

\* Mutant: replenish uses the configured list, not the current one.
ReplenishPutConfigured ==
  /\ refill.at = "filling"
  /\ \/ /\ refill.i < refill.needed
        /\ Put(RoundRobin(Configured, refill.i))
        /\ refill' = [refill EXCEPT !.i = refill.i + 1]
     \/ /\ refill.i = refill.needed
        /\ refill' = RefillIdle
        /\ UNCHANGED slots
  /\ UNCHANGED <<workers, callVars, vfsCh, countVars, beat, closed, envVars>>

ReplenishPut ==
  /\ refill.at = "filling"
  /\ \/ /\ refill.i < refill.needed
        /\ Put(RoundRobin(refill.list, refill.i))
        /\ refill' = [refill EXCEPT !.i = refill.i + 1]
     \/ /\ refill.i = refill.needed
        /\ refill' = RefillIdle
        /\ UNCHANGED slots
  /\ UNCHANGED <<workers, callVars, vfsCh, countVars, beat, closed, envVars>>

-----------------------------------------------------------------------------
(* The heartbeat loop. *)

HeartbeatTick ==
  /\ beat.at = "idle"
  /\ beat' = [at |-> "checking", list |-> workers, alive |-> <<>>]
  /\ UNCHANGED <<slots, workers, callVars, vfsCh, countVars, refill, closed,
                 envVars>>

\* Mutant: a failed check keeps the worker.
HealthCheckKeepsDead ==
  /\ beat.at = "checking"
  /\ beat.list # <<>>
  /\ beat' = [at |-> "checking", list |-> Tail(beat.list),
              alive |-> Append(beat.alive, Head(beat.list))]
  /\ UNCHANGED <<slots, workers, callVars, vfsCh, countVars, refill, closed,
                 envVars>>

\* Health of the next worker of the copied list; the alive ones are kept.
HealthCheck ==
  /\ beat.at = "checking"
  /\ beat.list # <<>>
  /\ beat' = [at |-> "checking", list |-> Tail(beat.list),
              alive |-> IF Head(beat.list) \in up
                        THEN Append(beat.alive, Head(beat.list))
                        ELSE beat.alive]
  /\ UNCHANGED <<slots, workers, callVars, vfsCh, countVars, refill, closed,
                 envVars>>

HeartbeatStore ==
  /\ beat.at = "checking"
  /\ beat.list = <<>>
  /\ workers' = beat.alive
  /\ beat' = BeatIdle
  /\ UNCHANGED <<slots, callVars, vfsCh, countVars, refill, closed, envVars>>

HeartbeatEnds ==
  /\ closed /\ beat.at = "idle"
  /\ beat' = [BeatIdle EXCEPT !.at = "ended"]
  /\ UNCHANGED <<slots, workers, callVars, vfsCh, countVars, refill, closed,
                 envVars>>

\* Manager.Close: both loops end at their next select; calls go on.
Close ==
  /\ ~closed
  /\ closed' = TRUE
  /\ UNCHANGED <<slots, workers, callVars, vfsCh, countVars, refill, beat,
                 envVars>>

\* A worker crashes or comes back.
WorkerFlips(w) ==
  /\ flips < MaxFlips
  /\ flips' = flips + 1
  /\ up' = IF w \in up THEN up \ {w} ELSE up \cup {w}
  /\ UNCHANGED <<slots, workers, callVars, vfsCh, countVars, loopVars>>

\* All calls have returned and the loops have ended.
Idle ==
  /\ refill.at = "ended" /\ beat.at = "ended"
  /\ \A c \in Calls : pc[c] = "done"
  /\ UNCHANGED vars

-----------------------------------------------------------------------------
Step(c) ==
  \/ GetSlot(c) \/ GetFails(c) \/ WorkerFails(c) \/ Forward(c) \/ PutBack(c)
  \/ \E b \in BOOLEAN : WorkerReturns(c, b)

ReplenishLoop ==
  ReplenishTick \/ ReplenishCount \/ ReplenishPut \/ ReplenishEnds

HeartbeatLoop ==
  HeartbeatTick \/ HealthCheck \/ HeartbeatStore \/ HeartbeatEnds

Next ==
  \/ \E c \in Calls : (\E b \in BOOLEAN : GetEnter(c, b)) \/ CtxEnds(c) \/ Step(c)
  \/ ReplenishLoop \/ HeartbeatLoop \/ Receive \/ Close \/ Idle
  \/ \E w \in Clients : WorkerFlips(w)

Spec == Init /\ [][Next]_vars

\* The loops' tickers fire and a health check has a timeout of its own.  Every
\* wait for a slot has a deadline, and a goroutine that can go on does.  A
\* worker need not answer, nor the write-behind service receive.
Resumes(c) == GetSlot(c) \/ GetFails(c) \/ Forward(c) \/ PutBack(c)

FairSpec ==
  /\ Spec
  /\ WF_vars(ReplenishLoop) /\ WF_vars(HeartbeatLoop)
  /\ \A c \in Calls : WF_vars(CtxEnds(c)) /\ WF_vars(Resumes(c))

-----------------------------------------------------------------------------
(* Properties. *)

\* "Always return the slot so the pool doesn't drain permanently": idle slots
\* and calls in flight together never fall below the capacity, whatever calls
\* fail, time out or race the replenish loop for a place in the channel.
NeverDrains == Len(slots) + Cardinality(InFlight) >= PoolCap

\* Copies of a client: idle in the pool or held by a call in flight.
Copies(w) ==
  Cardinality({i \in 1 .. Len(slots) : slots[i] = w})
    + Cardinality({c \in InFlight : held[c] = w})

Listed(w, list) == \E i \in 1 .. Len(list) : list[i] = w

\* A worker the heartbeat removed wins no new slot, except from a replenish
\* that had read the list before the removal: its slots only wear out.
EvictedNeverMultiplies ==
  [][\A w \in Clients :
       ~Listed(w, workers) /\ ~Listed(w, refill.list)
         => Copies(w)' <= Copies(w)]_vars

\* Only a worker can keep a caller waiting: whoever queues for a slot, or has
\* the worker's answer, gets on, even if the write-behind service never
\* receives and its channel is full.
OnlyWorkersBlock ==
  \A c \in Calls :
    pc[c] \in {"select", "forward", "putting"} ~> pc[c] \in {"executing", "done"}

\* The warm pool is "replenish[ed] when it drains below the threshold": an
\* empty pool is refilled even if no call in flight ever returns, as long as
\* there is a worker and the manager is open.  A pool of capacity 1 has the
\* threshold 0, which no length is below: nothing refills that one.
PoolRecovers ==
  Threshold > 0 => (slots = <<>> ~> (slots # <<>> \/ workers = <<>> \/ closed))

\* Zombie clean-up: a worker that stays down leaves the list replenish reads,
\* whatever the calls in flight do, while the manager is open.
ZombieUnlisted ==
  \A w \in Clients :
    <>[](w \notin up /\ ~closed) => <>[](~Listed(w, workers))

=============================================================================
