----------------------------- MODULE SandboxPool -----------------------------
(***************************************************************************)
(* The warm sandbox pool of the WASM worker (sandbox_pool.rs) with the RSS *)
(* watchdog it registers executions with (resource_monitor.rs).            *)
(*                                                                         *)
(* Every request runs SandboxPool::execute.  After the semaphore await the *)
(* future never suspends again: no host function awaits and the epoch      *)
(* deadline traps instead of yielding, so instantiate_async and call_async *)
(* complete in the poll that starts them.  A client that disconnects can   *)
(* therefore drop the future only while it waits for its permit.  The      *)
(* rest of execute is split where it touches state shared with the other   *)
(* executions: the semaphore, the deque of warm slots, the registry.       *)
(*                                                                         *)
(* For the same reason an execution keeps its runtime thread from the poll *)
(* that finds the permit until execute returns.  Every other task of the   *)
(* worker, the epoch ticker and the timers included, runs on the threads   *)
(* that are left.                                                          *)
(***************************************************************************)
EXTENDS Naturals, Sequences, FiniteSets

CONSTANTS
  Requests,   \* the calls of execute; each happens at most once
  PoolSize,   \* config.pool_size: slots made by prewarm
  Permits,    \* POOL_TOTAL_SLOTS: permits of the semaphore
  Submitted,  \* the kinds of module clients submit
  Threads     \* the numbers of worker threads the runtime may have

\* What an agent module can do to the pool.  The init_ programs do it in the
\* WASM start section, which runs during instantiation.
Programs == {"clean", "exits", "traps", "spins", "no_start", "wont_compile",
             "init_exits", "init_traps", "init_spins"}

\* Only the epoch deadline ends these.
Spinners == {"spins", "init_spins"}

ASSUME PoolAssumption ==
  /\ IsFiniteSet(Requests)
  /\ PoolSize \in Nat
  /\ Permits \in Nat \ {0}
  /\ Submitted \subseteq Programs
  /\ Threads \subseteq Nat \ {0}

VARIABLES
  threads,    \* worker threads of the runtime: the CPUs of the host
  permits,    \* free permits of the semaphore
  waiters,    \* FIFO of the requests queued on the semaphore
  pc,         \* how far each request is in execute
  prog,       \* what the submitted module does once it runs
  answer,     \* what execute returned
  warm,       \* warm_slots: ids of the ready slots, front first
  slot,       \* id of the slot a request runs in, NoSlot before it has one
  nextId,     \* the next slot id (a fresh UUID in the code)
  registry,   \* ids the watchdog tracks
  orders,     \* ids with an eviction order in the channel
  watching,   \* the watchdog task has not been shut down
  evicted,    \* history: ids removed by the eviction loop
  lost        \* history: slots dropped by an early return

poolVars  == <<warm, slot, nextId>>
watchVars == <<registry, orders, watching, evicted>>
vars == <<threads, permits, waiters, pc, prog, answer, warm, slot, nextId,
          registry, orders, watching, evicted, lost>>

NoSlot == 0

Answers == {"none", "exhausted", "quota", "failed", "trapped", "ok"}

PCs == {"new", "waiting", "granted", "acquired", "slotted", "watched",
        "running", "ran", "unwatched", "returned", "dropped", "done", "gone"}

\* The requests that own a permit, those that own a slot, and those whose poll
\* runs.  The used slot is a local of execute: it lives until the call returns,
\* beside the replacement already in the deque, and is dropped before the
\* permit, which was declared first.
HasPermit == {"granted", "acquired", "slotted", "watched", "running", "ran",
              "unwatched", "returned", "dropped"}
Occupied  == {"slotted", "watched", "running", "ran", "unwatched"}
HasSlot   == Occupied \cup {"returned"}
OnThread  == HasPermit \ {"granted"}

Holders   == {r \in Requests : pc[r] \in HasPermit}
InUse     == {r \in Requests : pc[r] \in HasSlot}
Returning == {r \in Requests : pc[r] = "returned"}
Polled    == {r \in Requests : pc[r] \in OnThread}

\* A runtime thread is left to poll another task.
ThreadFree == Cardinality(Polled) < threads

TypeOK ==
  /\ threads \in Nat
  /\ permits \in Nat
  /\ waiters \in Seq(Requests)
  /\ pc \in [Requests -> PCs]
  /\ prog \in [Requests -> Programs]
  /\ answer \in [Requests -> Answers]
  /\ warm \in Seq(Nat)
  /\ slot \in [Requests -> Nat]
  /\ nextId \in Nat
  /\ registry \subseteq Nat
  /\ orders \subseteq Nat
  /\ watching \in BOOLEAN
  /\ evicted \subseteq Nat
  /\ lost \in Nat

\* SandboxPool::new and prewarm: PoolSize slots, all permits free.
Init ==
  /\ threads \in Threads
  /\ permits = Permits
  /\ waiters = <<>>
  /\ pc = [r \in Requests |-> "new"]
  /\ prog = [r \in Requests |-> "clean"]
  /\ answer = [r \in Requests |-> "none"]
  /\ warm = [i \in 1 .. PoolSize |-> i]
  /\ slot = [r \in Requests |-> NoSlot]
  /\ nextId = PoolSize + 1
  /\ registry = {}
  /\ orders = {}
  /\ watching = TRUE
  /\ evicted = {}
  /\ lost = 0

-----------------------------------------------------------------------------
(* The semaphore. *)

\* Mutant: a returned permit wakes nobody.
ReleaseNoHandOff(r, next) ==
  /\ permits' = permits + 1
  /\ UNCHANGED waiters
  /\ pc' = [pc EXCEPT ![r] = next]

\* A returned permit goes straight to the longest waiting request; it becomes
\* available again only when nobody waits.
Release(r, next) ==
  \/ /\ waiters = <<>>
     /\ permits' = permits + 1
     /\ UNCHANGED waiters
     /\ pc' = [pc EXCEPT ![r] = next]
  \/ /\ waiters # <<>>
     /\ UNCHANGED permits
     /\ waiters' = Tail(waiters)
     /\ pc' = [pc EXCEPT ![r] = next, ![Head(waiters)] = "granted"]

\* The queue without its i-th entry.
Without(s, i) ==
  [j \in 1 .. (Len(s) - 1) |-> IF j < i THEN s[j] ELSE s[j + 1]]

LeaveQueue(r) ==
  \E i \in 1 .. Len(waiters) : waiters[i] = r /\ waiters' = Without(waiters, i)

\* A call up to the first poll of the semaphore: take a permit or queue for one.
Acquire(r) ==
  /\ pc[r] = "new"
  /\ ThreadFree
  /\ \/ /\ permits > 0
        /\ permits' = permits - 1
        /\ pc' = [pc EXCEPT ![r] = "acquired"]
        /\ UNCHANGED waiters
     \/ /\ permits = 0
        /\ waiters' = Append(waiters, r)
        /\ pc' = [pc EXCEPT ![r] = "waiting"]
        /\ UNCHANGED permits
  /\ UNCHANGED <<threads, prog, answer, lost, poolVars, watchVars>>

\* The woken future is polled: tokio's timeout polls the acquisition before
\* the timer, so a granted permit wins even after the deadline.
Granted(r) ==
  /\ pc[r] = "granted"
  /\ ThreadFree
  /\ pc' = [pc EXCEPT ![r] = "acquired"]
  /\ UNCHANGED <<threads, permits, waiters, prog, answer, lost, poolVars, watchVars>>

\* ACQUIRE_TIMEOUT_MS elapsed before a permit was granted.
AcquireTimeout(r) ==
  /\ pc[r] = "waiting"
  /\ ThreadFree
  /\ LeaveQueue(r)
  /\ pc' = [pc EXCEPT ![r] = "done"]
  /\ answer' = [answer EXCEPT ![r] = "exhausted"]
  /\ UNCHANGED <<threads, permits, prog, lost, poolVars, watchVars>>

\* Mutant: a dropped future keeps the permit it was granted.
CancelKeepsPermit(r) ==
  /\ pc[r] \in {"waiting", "granted"}
  /\ ThreadFree
  /\ UNCHANGED permits
  /\ IF pc[r] = "waiting" THEN LeaveQueue(r) ELSE UNCHANGED waiters
  /\ pc' = [pc EXCEPT ![r] = "gone"]
  /\ UNCHANGED <<threads, prog, answer, lost, poolVars, watchVars>>

\* The client disconnects and the waiting future is dropped; a permit that was
\* already granted to it is given back.
Cancel(r) ==
  /\ ThreadFree
  /\ \/ /\ pc[r] = "waiting"
        /\ LeaveQueue(r)
        /\ pc' = [pc EXCEPT ![r] = "gone"]
        /\ UNCHANGED permits
     \/ /\ pc[r] = "granted"
        /\ Release(r, "gone")
  /\ UNCHANGED <<threads, prog, answer, lost, poolVars, watchVars>>

-----------------------------------------------------------------------------
(* The body of execute. *)

\* Mutant: the deque is never used.
TakeSlotAlwaysCold(r) ==
  /\ pc[r] = "acquired"
  /\ pc' = [pc EXCEPT ![r] = "slotted"]
  /\ slot' = [slot EXCEPT ![r] = nextId]
  /\ nextId' = nextId + 1
  /\ UNCHANGED <<threads, warm, permits, waiters, prog, answer, lost, watchVars>>

\* Mutant: with the deque empty the request polls it until a slot comes back.
TakeSlotWaits(r) ==
  /\ pc[r] = "acquired"
  /\ \/ /\ warm # <<>>
        /\ pc' = [pc EXCEPT ![r] = "slotted"]
        /\ slot' = [slot EXCEPT ![r] = Head(warm)]
        /\ warm' = Tail(warm)
     \/ /\ warm = <<>>
        /\ UNCHANGED <<pc, slot, warm>>
  /\ UNCHANGED <<threads, nextId, permits, waiters, prog, answer, lost, watchVars>>

\* Pop the front warm slot, or make a cold one when the deque is empty.
TakeSlot(r) ==
  /\ pc[r] = "acquired"
  /\ pc' = [pc EXCEPT ![r] = "slotted"]
  /\ \/ /\ warm # <<>>
        /\ slot' = [slot EXCEPT ![r] = Head(warm)]
        /\ warm' = Tail(warm)
        /\ UNCHANGED nextId
     \/ /\ warm = <<>>
        /\ slot' = [slot EXCEPT ![r] = nextId]
        /\ nextId' = nextId + 1
        /\ UNCHANGED warm
  /\ UNCHANGED <<threads, permits, waiters, prog, answer, lost, watchVars>>

Register(r) ==
  /\ pc[r] = "slotted"
  /\ pc' = [pc EXCEPT ![r] = "watched"]
  /\ registry' = registry \cup {slot[r]}
  /\ UNCHANGED <<threads, permits, waiters, prog, answer, lost, poolVars,
                 orders, watching, evicted>>

\* A `?` between registration and clean-up: execute drops its locals, the slot
\* among them, and returns.  Nothing deregisters.
EarlyReturn(r) ==
  /\ pc' = [pc EXCEPT ![r] = "dropped"]
  /\ answer' = [answer EXCEPT ![r] = "failed"]
  /\ lost' = lost + 1
  /\ UNCHANGED <<threads, permits, waiters, prog, poolVars, watchVars>>

\* Inject the code into the fresh VFS (which cannot fail below the 64 MB
\* quota), build the linker and compile the module, which is of kind p.
Prepare(r, p) ==
  /\ pc[r] = "watched"
  /\ \/ /\ p = "wont_compile"
        /\ EarlyReturn(r)
     \/ /\ p # "wont_compile"
        /\ pc' = [pc EXCEPT ![r] = "running"]
        /\ prog' = [prog EXCEPT ![r] = p]
        /\ UNCHANGED <<threads, permits, waiters, answer, lost, poolVars, watchVars>>

\* exec_result: every error of the instantiation is a Trap; an error of _start
\* is a clean exit if proc_exit stored a code, a quota error if the epoch
\* deadline interrupted it, and a Trap otherwise.
ExecResult(p) ==
  CASE p \in {"clean", "exits"} -> "ok"
    [] p = "spins"              -> "quota"
    [] OTHER                    -> "trapped"

\* A guest that spins is stopped by the epoch ticker, a task that needs a
\* thread of its own to be polled.
RunGuest(r) ==
  /\ pc[r] = "running"
  /\ prog[r] \in Spinners => ThreadFree
  /\ \/ /\ prog[r] = "no_start"
        /\ EarlyReturn(r)
     \/ /\ prog[r] # "no_start"
        /\ pc' = [pc EXCEPT ![r] = "ran"]
        /\ answer' = [answer EXCEPT ![r] = ExecResult(prog[r])]
        /\ UNCHANGED <<threads, permits, waiters, prog, lost, poolVars, watchVars>>

Deregister(r) ==
  /\ pc[r] = "ran"
  /\ pc' = [pc EXCEPT ![r] = "unwatched"]
  /\ registry' = registry \ {slot[r]}
  /\ UNCHANGED <<threads, permits, waiters, prog, answer, lost, poolVars,
                 orders, watching, evicted>>

\* Mutant: the used slot is put back instead of a new one.
ReturnSlotReuse(r) ==
  /\ pc[r] = "unwatched"
  /\ pc' = [pc EXCEPT ![r] = "returned"]
  /\ warm' = Append(warm, slot[r])
  /\ UNCHANGED <<threads, nextId, permits, waiters, prog, answer, lost, slot, watchVars>>

\* Mutant: no replacement slot is made.
ReturnSlotForgotten(r) ==
  /\ pc[r] = "unwatched"
  /\ pc' = [pc EXCEPT ![r] = "returned"]
  /\ UNCHANGED <<threads, permits, waiters, prog, answer, lost, poolVars, watchVars>>

\* A newly made slot joins the back of the deque, while the used one lives on.
ReturnSlot(r) ==
  /\ pc[r] = "unwatched"
  /\ pc' = [pc EXCEPT ![r] = "returned"]
  /\ warm' = Append(warm, nextId)
  /\ nextId' = nextId + 1
  /\ UNCHANGED <<threads, permits, waiters, prog, answer, lost, slot, watchVars>>

\* execute has its result and drops its locals: the used store,
DropSlot(r) ==
  /\ pc[r] = "returned"
  /\ pc' = [pc EXCEPT ![r] = "dropped"]
  /\ UNCHANGED <<threads, permits, waiters, prog, answer, lost, poolVars, watchVars>>

\* and last the permit.
Return(r) ==
  /\ pc[r] = "dropped"
  /\ Release(r, "done")
  /\ UNCHANGED <<threads, prog, answer, lost, poolVars, watchVars>>

-----------------------------------------------------------------------------
(* The watchdog and the eviction loop. *)

\* poll_once finds the RSS above the limit.  Every entry carries the pid of
\* the worker itself, so a breach orders the eviction of all of them.  The
\* channel is a set of ids: processing an order twice is processing it once.
PollOnce ==
  /\ watching
  /\ ThreadFree
  /\ registry # {}
  /\ orders' = orders \cup registry
  /\ UNCHANGED <<threads, permits, waiters, pc, prog, answer, lost, poolVars,
                 registry, watching, evicted>>

\* Mutant: one order clears the whole registry.
EvictOverreach(id) ==
  /\ id \in orders
  /\ ThreadFree
  /\ orders' = {}
  /\ registry' = {}
  /\ evicted' = evicted \cup {id}
  /\ UNCHANGED <<threads, permits, waiters, pc, prog, answer, lost, poolVars, watching>>

\* eviction_loop: logs the order and stops tracking the id.
Evict(id) ==
  /\ id \in orders
  /\ ThreadFree
  /\ orders' = orders \ {id}
  /\ registry' = registry \ {id}
  /\ evicted' = evicted \cup {id}
  /\ UNCHANGED <<threads, permits, waiters, pc, prog, answer, lost, poolVars, watching>>

\* SandboxPool::shutdown stops the watchdog only; main calls it once the
\* server has drained its connections.
Shutdown ==
  /\ watching
  /\ \A r \in Requests : pc[r] \in {"done", "gone"}
  /\ watching' = FALSE
  /\ UNCHANGED <<threads, permits, waiters, pc, prog, answer, lost, poolVars,
                 registry, orders, evicted>>

\* Guests that spin hold every thread: nothing is left to run the ticker that
\* would stop one of them.
Starved ==
  Cardinality({r \in Requests : pc[r] = "running" /\ prog[r] \in Spinners}) >= threads

\* All requests are answered and the worker idles, or it is stuck for good.
Idle ==
  /\ \/ \A r \in Requests : pc[r] \in {"done", "gone"}
     \/ Starved
  /\ UNCHANGED vars

-----------------------------------------------------------------------------
Step(r) ==
  \/ Granted(r) \/ AcquireTimeout(r) \/ TakeSlot(r) \/ Register(r)
  \/ (\E p \in Submitted : Prepare(r, p)) \/ RunGuest(r) \/ Deregister(r) \/ ReturnSlot(r)
  \/ DropSlot(r) \/ Return(r)

Next ==
  \/ \E r \in Requests : Acquire(r) \/ Cancel(r) \/ Step(r)
  \/ \E id \in orders : Evict(id)
  \/ PollOnce \/ Shutdown \/ Idle

Spec == Init /\ [][Next]_vars

\* A runtime thread takes its request to the next step.  A thread that is free
\* steals the tasks that are ready: a woken request, the timer that ends a wait,
\* the epoch ticker that ends a guest.  Nothing is assumed of tasks no thread is
\* free for.  Arrival and disconnection are the client's choice.
FairSpec ==
  /\ Spec
  /\ \A r \in Requests : WF_vars(Step(r))

-----------------------------------------------------------------------------
(* Properties. *)

\* Every permit of the semaphore is free or owned by exactly one request, on
\* every path out of execute: result, early return, timeout and a client that
\* disconnects after the permit was granted to it.
PermitsConserved == permits + Cardinality(Holders) = Permits

\* No lost wake-up: a request queues on the semaphore only while no permit is
\* free, although permits come back while requests time out and disconnect.
NoLostWakeup == waiters # <<>> => permits = 0

\* The semaphore as execute uses it, on every path out and in every order: no
\* permit is lost or held twice, and none is free while somebody waits.
PermitsSound == PermitsConserved /\ NoLostWakeup

\* The queue holds each waiting request once and nobody else.
QueueOK ==
  /\ \A i \in 1 .. Len(waiters) : pc[waiters[i]] = "waiting"
  /\ \A i, j \in 1 .. Len(waiters) : waiters[i] = waiters[j] => i = j

\* Ids are minted in order, and the deque hands out the oldest first.
SlotsOrdered ==
  /\ nextId > NoSlot
  /\ \A i \in 1 .. Len(warm) : NoSlot < warm[i] /\ warm[i] < nextId
  /\ \A i, j \in 1 .. Len(warm) : i < j => warm[i] < warm[j]
  /\ \A r \in Requests : slot[r] < nextId
  /\ \A r \in Requests, i \in 1 .. Len(warm) : slot[r] < warm[i]
  /\ \A r \in InUse : slot[r] # NoSlot
  /\ \A r, q \in Requests : slot[r] # NoSlot /\ slot[r] = slot[q] => r = q

\* Isolation: a slot serves at most one execution, ever, and a slot somebody
\* has run in is never handed out again ("Wipe and return slot to the pool").
SlotServesOnce ==
  /\ \A r, q \in Requests : slot[r] # NoSlot /\ slot[r] = slot[q] => r = q
  /\ \A r \in Requests, i \in 1 .. Len(warm) : slot[r] # warm[i]

\* The stores alive at once, and those of them no replacement was made for yet.
LiveSlots == Len(warm) + Cardinality(InUse)
PoolSlots == Len(warm) + Cardinality({r \in Requests : pc[r] \in Occupied})

\* The stores alive at once never exceed what prewarm made, or the semaphore
\* allows if that is more, but by the used ones of calls that are about to
\* return; and no more than the semaphore allows, which is what the pooling
\* allocator has room for, hold a guest.
LiveSlotsBounded ==
  /\ \/ LiveSlots <= PoolSize + Cardinality(Returning)
     \/ LiveSlots <= Permits + Cardinality(Returning)
  /\ Cardinality(InUse) <= Permits

\* The pool shrinks below its configured size only by the slots that early
\* returns dropped, one each.
ShrinksOnlyByEarlyReturn == PoolSlots + lost >= PoolSize

\* Slots are accounted for: bursts over the cold path do not pile them up, and
\* of the configured ones only those that `?` dropped after registration miss.
SlotsAccounted == LiveSlotsBounded /\ ShrinksOnlyByEarlyReturn

\* A guest that runs and is not in the registry had an eviction order carried
\* out for its own slot: a stale order never stops the watch on another one.
UnwatchedOnlyByOrder ==
  \A r \in Requests :
    pc[r] \in {"watched", "running", "ran"} /\ slot[r] \notin registry
      => slot[r] \in evicted

\* Every call of execute ends, with a result, an error, or dropped, unless
\* guests that spin take every thread of the runtime: "a guest running
\* continuously will be preempted after `quota_ms`" holds up to that point.
EveryCallEnds ==
  \A r \in Requests : pc[r] # "new" ~> pc[r] \in {"done", "gone"} \/ Starved

=============================================================================
