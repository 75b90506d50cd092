# Isolator-V in TLA+

TLA+ modules for the control logic of Isolator-V, a service that runs WebAssembly
modules in throw-away sandboxes. The modules are translated from the source, checked
with TLC on small instances, and every safety property the runs check is proved with TLAPS
for every value of the constants (section 4). `PROJECT.json` lists components, runs, hazards,
theorems, and the source lines each definition stands for.

## 1. The system

A request travels through three programs.

| Part | Source | State it keeps | Operations |
|---|---|---|---|
| Rate limiter | `orchestrator/internal/ratelimit/tokenbucket.go`, `middleware/ratelimit.go` | one Redis hash per client: tokens, last refill, expiry | `Allow` (clock reading, then one Lua script), fail-open |
| SandboxManager and WarmPool | `orchestrator/internal/pool/` | a buffered channel of worker clients, the list of workers, counters | `Execute`, replenish loop, heartbeat loop, `Close` |
| Write-behind service | `orchestrator/internal/vfs/writebehind.go`, `cmd/server/main.go` | channel of snapshots, pending batch, `vfs_snapshots` table | ingest, flush loop, `Flush`, `Close`, two queries |
| Orchestrator API | `orchestrator/internal/api/` | WebSocket sessions | REST handlers, WebSocket execution, compile |
| Worker API | `wasm-worker-manager/src/api.rs` | job table | `/execute`, `/stream`, `/health`, `/metrics` |
| Back-pressure guard | `wasm-worker-manager/src/backpressure.rs` | `active_count`, cached CPU/memory snapshot | `check_admission`, `admit`, ticket drop, refresh task |
| Sandbox pool | `wasm-worker-manager/src/sandbox_pool.rs` | semaphore, deque of warm slots | `execute`, eviction loop, `shutdown` |
| RSS watchdog | `wasm-worker-manager/src/resource_monitor.rs` | registry of sandboxes, eviction channel | `register`, `deregister`, `poll_once`, epoch ticker |
| Virtual file system | `wasm-worker-manager/src/vfs.rs`, host functions in `sandbox_pool.rs` | file map, descriptor table, quota counter, two rings | `path_open`, `fd_read`, `fd_write`, `fd_seek`, `fd_close`, `snapshot` |
| Capabilities, PII scrubber, seccomp guard | `wasm-worker-manager/src/` | tokens; none; none | grants and checks; text rewriting; filter set-up |
| Browser console and terminal | `frontend/components/ExecutionConsole.tsx`, `CodeEditor.tsx`, `Terminal.tsx`, `TerminalErrorBoundary.tsx` | run state, session, files on display; one socket per run, output buffer, refs with exit code, trap mark and snapshot | Run, Stop, Reset, compile and run, socket callbacks, buffer flush, crash and reconnect of the terminal |
| File tree | `frontend/components/VirtualFileTree.tsx` | the last listing, expanded directories, offline and disabled marks, a poll timer with its back-off | the session effect, poll answers, toggling, building the tree and its rows |
| File previews | `frontend/components/ComponentRegistry.tsx` | the request of the file on display, the page and order of a table | select a file, switch tabs, load, page, sort; Markdown, charts |
| Health dot and vitals | `frontend/components/OrchestratorStatus.tsx`, `AgentVitals.tsx` | reachability, back-off, countdown; the last samples of the running session | poll answers, the countdown's interval, starting and stopping with the run |

How they interact: the orchestrator's middleware asks the rate limiter; `Manager.Execute`
takes a client from the warm pool, calls the worker, forwards the VFS snapshot of the
answer to the write-behind channel and puts the client back. The worker's handler passes
the back-pressure guard, then `SandboxPool::execute` takes a permit and a slot, registers
with the watchdog, injects the code into the slot's VFS, runs the guest, drains the rings
and snapshots the files. The console gives every run a session of its own; the terminal's effect
opens one socket for it, `WSExecute` calls `Manager.Execute` and sends the output, an exit frame
and a close code, and the callbacks turn those into the outcome and the files on display. Beside
the terminal, three components poll the orchestrator by themselves: the file tree lists what the
write-behind service committed for the session, the vitals ask for measurements while the run is
on, and the dot asks for health. A selected file is rendered from the exit frame's snapshot if it
is in it, else it is fetched.

What is hard here:

* a permit, a client, a ticket or a slot has to come back on *every* way out (result,
  error, timeout, disconnect), while others queue for it;
* values are read in one critical section and used in another (replenish counts,
  heartbeat lists, admission counters, clock readings);
* batches go back and forth between goroutines while the database fails;
* eviction orders and health verdicts are applied to something that has moved on;
* one descriptor's position goes stale when another truncates or appends;
* every component of the page awaits answers while the user goes on: listings, file contents and
  measurements of a session or file that was left arrive after those of the next;
* loops that re-arm their own timer must do so after every kind of answer, exactly once;
* close events of a browser socket come after the next run has started, and all sockets of a
  terminal share one intentional-close flag and one set of refs.

The full list, each at its line, is under `hazards` in `PROJECT.json`.

## 2. Modules

| Module | Models | Extends / uses |
|---|---|---|
| `SandboxPool` | `execute`, semaphore, warm deque, watchdog, eviction loop | |
| `Manager` | `Execute`, `WarmPool`, replenish and heartbeat loops, `Close` | |
| `WriteBehind` | ingest, `Flush` by two callers, `Close`, process exit, `QueryFile` | `DurableStore` |
| `DurableStore` | abstract: every accepted snapshot is settled once, for good | |
| `BackPressure` | `check_admission`, `admit`, the ticket, the refresh task | |
| `TokenBucket` | `Allow`, the Lua script, key expiry | |
| `Vfs` | file map, descriptors, quota, rings, and the WASI functions that change them | |
| `Session` | console, compile request, terminal, its sockets, `WSExecute` | |
| `FileTree` | the tree's poll loop, reducer and rows, the service it polls, the console that changes the session | |
| `Preview` | file selection, tabs, the registry's effect and requests, the table's pager | `Viewers` |
| `Viewers` | what Markdown, chart and pager compute, with their references | |
| `Monitors` | the health dot with its countdown, the vitals, the run that starts and stops them | |
| `MC*` | the instances TLC checks | the module of the same name |
| `SandboxProofs` | theorems | `SandboxPool`, `Vfs` |
| `AdmissionProofs` | theorems | `BackPressure`, `TokenBucket` |
| other `*Proofs` | theorems | the module of the same name |

Definitions named in a `Mutant:` comment are deliberately wrong variants of the definition
that follows them. They are used only to show that a property notices the bug.

### SandboxPool

Each request is a process with a program counter `pc`. After the semaphore await `execute`
never suspends: no host function awaits, and the epoch deadline traps instead of yielding.
So the client can drop the future only while it waits (`Cancel`), and the rest of the body
is one step per piece of shared state it touches: `TakeSlot`, `Register`, `Prepare`,
`RunGuest`, `Deregister`, `ReturnSlot`, `DropSlot`, `Return`. The used slot with its store is a
local of `execute`, so it lives beside the replacement that `ReturnSlot` pushed until the call
returns, and is dropped (`DropSlot`) before the permit. Because it never suspends, an execution
also keeps its runtime thread: `threads` is how many the runtime has (`Threads` are the numbers
considered), `ThreadFree` says that one is left for other tasks, and those include the epoch ticker
and the timers. Tokio's semaphore is external and modelled
by how `execute` uses it: a FIFO; a released permit is handed to the longest waiter; a
dropped waiter gives a granted permit back. A module is one of nine kinds (`Programs`), by
what it does to `execute`. The `?` after registration is `EarlyReturn`. A breach of the RSS
limit orders the eviction of every registered sandbox, since each entry carries the
worker's own pid. Slot ids are numbers in place of UUIDs.

### Manager

A call goes through `GetEnter` (the `ctx.Err()` check), the `select` (`GetSlot`, `GetFails`;
either may win when both are ready), the worker (`WorkerReturns`, `WorkerFails`), the
non-blocking send (`Forward`) and the deferred `Put` (`PutBack`). The replenish loop reads
the worker list, then the length, then puts one client at a time. The heartbeat loop copies
the list, checks one worker per step and stores the survivors. `WorkerFlips` is the
environment: a worker crashes or returns.

### WriteBehind

`Flush` is four steps: take the batch under the mutex, `BeginTx`, inserts, commit. Two callers
run it, the loop and `Close`. A failed `BeginTx` puts the batch back in front; a later failure
does not. A failed commit may or may not have been applied. `datetime('now')` has whole
seconds, hence `stamp`. Sends after `close(vfsCh)` panic, which ends the process like `Exit`.

### BackPressure

`check_admission` is two steps (copy the snapshot; load the counter and decide) and `admit` a
third. They run in one poll, so at most `Threads` handlers are between them.

### TokenBucket

One client key, since buckets are independent. The clock reading and the atomic script are two
steps, and any number of handlers may be between them, so a script may carry a reading older than
the key's. A missing key is a full bucket. Time is in ticks, `Hz` a second, so that rounding shows.
`rewound` is history: the ticks by which such late scripts set the key back.

### Vfs

One guest, whose host calls follow one another. Bytes are numbered in the order they are
written, with 0 for the fill byte, so equal bytes are the same write. A path is its sequence of
components; `Canonicalise` is a recursive function over them, as the loop in `vfs.rs` pushes and
pops. Its reference pops nothing: a component of the result is the last name that enters its level,
where the level is the number of names minus the number of `..` so far. `fd_write` and `fd_read` take one step per iovec,
which is where the code can fail half-way. The order inside `path_open` is kept: the file is
created or truncated before the table is found full. `RingWrite` is the release build, in which
`capacity - buf.len()` wraps around; the history variable `burst` notes what was said before the
first chunk longer than the ring, after which nothing is dropped any more.

### Session

A run, its session and its socket share a number. State set in a click or key handler is
rendered, and its effects run, before the next event (`SetNow`); state set in a socket callback
or after an await is rendered later (`Render`), which is where a compile that answers late meets
a run in progress. `SocketEffect` is the terminal's effect with its cleanup. A socket that the
cleanup closed keeps its close event (`conn` is `closing` or `failing`); what the server does
after that reaches the browser only as a close code, so its frames are dropped (`Forgets`). Close
codes are `normal` (1000) and `abnormal` (1006, 1011), the two the callbacks tell apart. A
program is what it does to the session: how it ends, how many binary frames it writes, whether
it leaves files (`Results`). `Lose` is the network: any undelivered frames may go with it. The
variables `by`, `stale` and `unseen` are history, read by properties only.

### FileTree

A session, its socket, its effect and its poll loop share a number; `fetching` has the sessions with a request
out, the cancelled ones too, `timers` those with an armed timer. `Answer` is `load` after its await
and covers the five kinds of answer (`Ok`, `Missed`, `Disabled`, `Failed`, and one that finds its
session left). `buildTree` walks the sorted listing and creates directories on first use; `Rows`
is what the recursive components put on the screen. The loops of `buildTree` (`EnsureDirs`, over
the directories above a path, and the one over the listing) are recursive functions of a number,
which is the form the proofs need. The service is external: every
request may be answered in any of those ways, and a listing has what `WriteBehind` would have
committed (`Commits`). Which files stand in front of the listing is the terminal's doing, so its
sockets, `vfsSnapshotRef` and `hasTrapRef` are here too: the exit frame sets the refs, only a normal
close hands them over and clears them, Stop and a failed close leave them to the next run, and the
close event of a replaced socket ends the run that replaced it. What these callbacks set is rendered
at once; the delay is in `Session`. The cross-tab channel
is left out, since its name contains the session identifier and no other tab has the same one.
Time is abstracted: a timer fires some time, and the back-off is kept as a value only.

### Preview and Viewers

`ui` is the console's state a preview depends on. `Console(u)` sets it, and with it happen, in one
step, the effect of the registry (`Registry`: mounting, unmounting, or a change of its
dependencies) and what that does to the table's own state (`Grid`: a `DataGrid` that stays on the
screen keeps page and order). Requests are numbered, and any of those out may be answered next: the
code cancels none. An unmounted registry takes its requests with it, since its setters do nothing.
`raced` and `kept` are history, read by properties only.

`Viewers` has the parser of Markdown blocks as a recursive function over the lines, where a line is
one of the twelve kinds the parser's tests tell apart, and the bars of a chart in integer
arithmetic: values are counted in fractions of `1 / Unit`, so `Math.floor` and the minimal range
of 1 act as on fractional data, `serMin > 0.2 * serMax` is `5 * serMin > serMax`, and a height is
in pixels times the range, with the plot's 144 px and the minimum of 2 px. The references say of each line by
itself how it is to be rendered, and of two bars how they compare.

### Monitors

The dot's timeout and the interval of its countdown are in whole seconds; a second passes when
nothing is due, and at the end both are due and run in either order. Reachability is the
environment's. A sample of the vitals is the session it was measured in, 0 for made-up zeros, so
that a sample in the wrong place is visible; a request remembers the value it would fall back to,
as the closure does. The vitals' timers just fire; their back-off is kept as a value.

## 3. Runs

All runs use the constants in their `.cfg`. Deadlock checking is on everywhere; models
end in an explicit idle step, or have a step of the environment that is always possible.

| Run | Shows | Instance |
|---|---|---|
| `pool` | permits conserved on all paths and no lost wake-up, a slot serves once, live slots bounded and lost only by early returns, a guest is unwatched only by its own order, every call ends unless spinning guests hold all threads | 3 requests, 2 permits, 1 warm slot, 2 or 3 threads |
| `manager` | the pool never drains, an evicted worker never multiplies, only workers can block callers, an empty pool recovers, a dead worker leaves the list | 2 calls, 2 workers, capacity 2, one crash or return |
| `writebehind` | stored at most once and nothing vanishes, reads move forward, implements `DurableStore`, every snapshot is settled while serving, if the calls of the database return | 4 snapshots, 2 database failures, channel of 2 |
| `backpressure` | the gauge is exact and admission overshoots by at most the threads | 6 requests, 2 threads, capacity 2 |
| `bucket` | grants stay within capacity plus rate (and the time late scripts set the key back), one second of waiting is enough | 2 handlers, rate 2, capacity 3, 3 ticks a second |
| `vfs` | path resolution equals its reference, the descriptor table stays sound, files hold exactly their writes, append keeps what is there, output is exactly what the ring keeps of the newest bytes | 2 descriptors at once, 3 opens, 4 bytes, rings of 2 and 1 |
| `session` | output in order, kept and complete, outcomes truthful, no files of a trapped run, files never go back, every run ends | 2 runs, 1 compile in flight, 2 frames of output, 4 programs |
| `filetree` | one live poll loop, no listing of another session, rows are the files on display, the screen catches up when the service is back | 2 sessions, no files or three in nested directories, intervals 1 to 3 |
| `preview` | the file named is the file shown, the table's page exists, Markdown and charts equal their references, loading ends | 5 files of 4 kinds, 2 sessions, 2 requests; documents of up to 4 lines, series of up to 3 of 8 values in quarters |
| `monitors` | the countdown tells the time to the next attempt, vitals are of the run that is on, the dot settles | intervals of 2 to 5 s, 3 runs, 3 samples |
| `writebehind_flush_loses`, `session_stale_close` | violations: section 6 | smallest that shows it |

Type invariants are proved (section 4) and not repeated as invariants of the runs; that of `Vfs` is
part of `DescriptorsSound`, that of `TokenBucket` of the invariant behind `GrantsSafety`.

Why the bounds are enough. In `pool`, three requests over two permits make one queue while
the others hold permits, time out or leave; one warm slot for two permits exercises both the
warm and the cold path; the three module kinds used are the three different paths through
`execute` (the others change the answer only; one that spins and is interrupted takes the path of all
that run). Three threads let the third request be polled and queue, two make it wait for a thread and
let two spinning guests hold them all. In `manager`, capacity 2 is the least with a
threshold above zero (with 1 nothing is refilled, section 6), and two calls can empty it; one flip is a crash. In `writebehind`, four snapshots
are two batches of two, with room for one to be put back while the other is ingested. In
`backpressure`, the limit is one and three of the six requests can be in flight. In
`bucket`, rate and ticks are coprime, so every refill rounds, and the clock passes the key's
lifetime. In `vfs`, two descriptors on one file with four bytes give overlapping writes,
gaps, truncation under an open descriptor, and stale append positions; paths are compared with
the reference for all sequences of up to five components over two names, `.`, `..` and the
empty component (3906 paths). In `session`, all interference is between a run and the next one,
so two runs suffice (the safety properties also hold with three); the four programs are the ways
a run can end, with files where they matter, and two frames with one written per animation frame
leave output in the buffer when the exit frame comes. In `filetree`, interference is between a
session and the one before it; a run leaves nothing, or a file at
the root beside two in nested directories. In `preview`, two requests are a late one and the current one; the five
files are two tables, an image, an icon and an empty log, which together take every way through the
selection; the tables have a full page, a page and a half and two and a half. Four lines let a fence open and
close around another construct with a line after it, and three points are a minimum, a maximum and
one between them; their values are negative, zero, close fractions around the steps of the baseline,
and one so great that the small ones are at the minimum height. In `monitors`, doubling 2 reaches the cap of 5 unevenly, three samples
overflow the sparkline, and three runs give one that ended, one that was replaced and one after it.

Symmetry is used only in `backpressure`, whose properties treat requests alike and are
invariants.

### Fairness

* `pool`: weak fairness of each request's own steps. The runtime polls what can proceed on a thread
  that is free, work stealing moves it there, and the acquire timeout and the epoch ticker run on
  such a thread too: a step that needs a free thread is enabled only when there is one, and
  `EveryCallEnds` excepts the state in which spinning guests hold all threads (`Starved`), which
  nothing ends. Arrivals, disconnects, the watchdog and the eviction loop are not assumed to run.
  With at least as many permits as threads, no request ever queues: with 512 permits the acquire
  timeout has no occasion to act.
* `manager`: weak fairness of both loops (tickers; a health check has its own timeout), of the
  deadline of a waiting call (`acquireCtx` has a timeout), and of the local steps of a call.
  Nothing is assumed of workers or of the write-behind service.
* `writebehind`: weak fairness of ingest and of the flush loop's next turn (its ticker). The calls of
  the database are not fair: the loop passes `context.Background()`, so nothing bounds them, and a call
  that hangs stalls the loop for good. `EventuallySettled` has their return (`CallsReturn`) as its
  premise. Nothing makes a client produce a snapshot or the operator stop the server; failures are
  bounded in number.
* `session`: weak fairness of `Render`, of the server's steps and of the socket's callbacks (the
  event loop takes up every queued task, `Manager.Execute` has its own timeouts, a connection
  delivers or fails). Nothing is assumed of the user, the compiler, xterm's loading or `Lose`.
* `filetree`, `preview`: weak fairness of answers and timers (every request has an
  `AbortSignal.timeout`, an armed timer fires). The service may give any kind of answer; what
  `TreeCatchesUp` claims is conditional on its answering with listings from some time on (`Listed`).
* `monitors`: weak fairness of passing time, of callbacks that are due and of answers (3 s timeout).
  Nothing is assumed of the orchestrator, the user or the vitals' requests.

## 4. Theorems

Proved for all values of the constants under the assumptions the modules name.

| Theorem | States |
|---|---|
| `SandboxProofs!TypeCorrect` | `Spec => []TypeOK` |
| `SandboxProofs!PermitSafety` | permits are conserved, nobody waits beside a free one |
| `SandboxProofs!SlotCountSafety` | live slots, the used ones that wait beside their replacement included, bounded; slots in use within the permits; the pool shrinks only by early returns |
| `SandboxProofs!SlotIsolation` | a slot serves at most one execution |
| `SandboxProofs!WatchSafety` | a running guest loses its watch only by an order for its slot |
| `SandboxProofs!CanonicaliseHolds` | path resolution equals its reference, for paths of any length |
| `SandboxProofs!DescriptorsHold` | `VfsSpec => []DescriptorsSound`: types, the table within `MAX_FDS`, every descriptor naming an entry of its kind, no number given out twice |
| `SandboxProofs!FilesHold`, `AppendHolds` | files and snapshot are what was written last at each offset; append keeps what is there |
| `SandboxProofs!OutputHolds` | stdout and stderr are exactly as much of the newest output as the ring holds; after a chunk longer than the ring, everything from it on |
| `ManagerProofs!TypeCorrect`, `PoolNeverDrains`, `EvictedWearsOut` | types; idle slots and calls in flight cover the capacity; a removed worker gains no slot |
| `WriteBehindProofs!TypeCorrect`, `StoredOnceNothingVanishes` | types; each snapshot in one place, stored at most once |
| `WriteBehindProofs!ImplementsDurableStore` | refinement of `DurableStore` |
| `WriteBehindProofs!ReadsSafety` | while serving, what a read returns was accepted after everything stored in an earlier second |
| `AdmissionProofs!AdmissionSafety` | the gauge is exact and admission bounded |
| `AdmissionProofs!GrantsSafety`, `RetrySafety` | tokens handed out are bounded by capacity, rate and time set back; `Retry-After: 1` is enough |
| `SessionProofs!TypeCorrect` | `Spec => []TypeOK` |
| `SessionProofs!FilesSafety`, `FilesNeverGoBack` | no files of a trapped run; files on display only get newer |
| `SessionProofs!OutcomeSafety` | a run's own close event never makes it look better than its exit frame |
| `SessionProofs!OrderSafety`, `OutputNotDropped`, `ShownSafety` | output is in order; once xterm is there no step drops any; a run reported as exited has all of it on the screen |
| `FileTreeProofs!TypeCorrect`, `OneLoopHolds`, `ListingOfSessionHolds` | types; one live poll loop; no listing of a session that was left |
| `FileTreeProofs!RowsHold` | for listings of any length and depth, the rows are the files and directories whose directories are expanded, each once, and what is in a directory follows it |
| `PreviewProofs!TypeCorrect`, `ContentOfFileHolds` | types; the content on display is the named file's, unless a request was out when it was selected |
| `PreviewProofs!GridHolds`, `BarsHold` | the table's page exists, unless the table was replaced under the pager, and sort mark and direction agree; bars, of any values and fractions, fit the plot and order as their values, and the maximum's reaches the top, or a quarter of it below 5 |
| `PreviewProofs!MarkdownHolds`, `ViewersHold` | for documents of any length, every line to be rendered is in exactly one block, of its kind, and blocks follow the document; with `BarsHold`, `ViewersFaithful` |
| `MonitorsProofs!TypeCorrect`, `CountdownHolds`, `VitalsOfRunHolds` | types; the countdown is the time to the next attempt; vitals are of the run that is on |

The arguments:

* *Permits.* `PermitsConserved` needs to know that a waiter holds no permit and is queued once,
  else a hand-off could grant twice. `PermitInv` adds `QueueOK` and `NoLostWakeup`. One lemma
  per kind of step (`ReleaseConserves`, `LeaveQueueOK`, `QuietMove`, `AcquireConserves`) says how
  the count of holders moves.
* *Slot counts.* From `StepEffect`, which gives the change of live slots in every step, and from
  slots in use never exceeding permits held.
* *Isolation.* "Never reused" is not inductive. `SlotsOrdered` is: ids grow along the deque, and
  every id ever used is below all ids in it. A popped front is then new to every request.
  `WatchSafety` uses the same order.
* *Pool.* `NeverDrains` is inductive with types: a `Put` is discarded only when the channel is
  full, which alone gives the bound.
* *Evicted workers.* An action property, from types alone: `CopiesStep` follows a client's places in
  the channel and in calls. They move between the two; only replenish makes a new one, and only of
  the list it read.
* *Write-behind.* The invariant is the conjunction of `StoredOnce`, `NothingVanishes`,
  `OnePlaceEach` and types: to store a batch once, it must be in no other place before. The
  refinement maps each step to a `Store`, a `Forsake`, an `Accept` or a stutter.
* *Reads.* While only the loop flushes, snapshots travel in the order they were accepted: table,
  batch, pending entries and channel are each increasing and each below the next
  (`InTransitInOrder`), and rows grow in number and in stamp (`TableInOrder`). The batch put back by
  a failed `BeginTx` keeps this, because it goes in front. The flush of `Close` breaks it, hence
  "while serving".
* *Admission.* `active` alone is not enough; `CommittedBounded` counts the handlers that
  passed the check and are not counted yet.
* *Rate limiter.* `Credited` ties tokens and grants to the key's `last`: together they stay within
  what the capacity and the time up to `last` allow. An expired key counts as a full bucket, which
  is sound since its lifetime (`TTL`) fills the bucket; `TimesOrdered` keeps `last + TTL` before the
  expiry. A late script lowers `last`, and what it may credit again is what `rewound` counts.
* *Paths.* `Resolved` says of the first `i` components what the reference says of all. It goes from
  `i` to `i + 1` by the three kinds of component; that it holds for every `i` follows because a
  least counterexample has a predecessor. That the recursion has a solution at all is `AfterExists`,
  by the same argument.
* *Descriptor table.* `TableInv`: all numbers given out are below `next_fd`, so the next is new, and
  files are never removed, so a descriptor's entry stays.
* *Files.* `OfWrites` describes a file by the set of writes since its last truncation: each position
  has the highest-numbered byte written there, or the fill byte, and the length is the furthest
  write. Writing a chunk (`Overlay`) at any position keeps it, as its bytes have numbers above
  `last`. `AppendKeeps` follows from the table and from what `Overlay` does at the end of a file.
* *Rings.* `OutputInv` keeps, beside "is an end of what was said", how long the ring is exactly
  (`KeptLen`): full or whole before a chunk longer than it, and from that chunk on all that was said.
  The wrapped room is then more than any chunk, which is why nothing is dropped again.
* *Session.* Three layers. `SocketsInv`: sockets open in the order of their numbers, only the newest
  is live (`RunsOrdered`), and an exit frame is on the wire only once the program has ended
  (`ExitIsLast`). `FilesInv` adds that a snapshot in the refs comes with the trap mark of its run
  (`SnapshotMarked`): both are set by the same exit frame and reset together, which is why the
  leak into the next run is harmless for files. `TruthInv` adds that a normal close follows the
  exit frame directly (`NormalAfterExit`), so the refs match the run when it arrives unless a stale
  close came between, and that a socket on its way out is not the session's own (`CurOK`).
* *Output.* `OrderInv` reads screen and buffer as one sequence (`Out`): it is in order, older than
  what is on the wire, and without chunks of a run newer than the live one. The flush of a
  frame or of the exit then only moves the border. `ShownInv` adds that nothing is missing: what a
  run wrote is delivered or on the wire, its exit frame comes after all of it, and when the normal
  close is next, everything is on the screen.
* *File tree.* `OneLoop` and `ListingOfSession` are inductive together with types: an answer of the
  session on display moves it from `fetching` to `timers`, all others change neither.
* *Rows.* Everything is about a state's listing, so the invariant used is `TypeOK` and the work is on
  the operators. `TreeOf` says what `buildTree` keeps: the tree holds the nodes of the entries so far,
  each once, in the list of its directory, and nothing else. It survives the creation of one directory
  (`EnsureDirTree`), of all above a path (`EnsureDirsTree`), an entry (`AddEntryTree`), and so the
  listing (`BuildTreeIs`). `RowsOK` says that the rows below a directory are the open nodes there
  (`RowsBelow`) and that each follows what it belongs to (`Chain`); it goes from the deepest level
  upwards (`FlattenedRows`), since rows of different children are never below one another.
* *Preview.* What is shown depends on content in three places, so the invariant follows it there:
  `InlineOfFile` for what the console handed over, `FetchedOfFile` for requests under way and for
  what has arrived. Unless the effect ran with a request out, all of them are for the current file
  and session; unmounting leaves no request behind.
* *Table and bars.* `GridInv` adds the page's own bound (0, or below the page count) to the
  agreement of the sort mark with its direction. `BarsHold` needs that a series has a least and a greatest value
  (`SeriesBounded`, by induction over its length) and that the baseline is zero or a whole number of at
  most 80 % of the minimum (`BaselineIs`); the rest is linear.
* *Markdown.* The parser starts a construct only in a line that is in no fence and not in running
  indented code (`Entry`), where the reference, which counts fences from the top, and the parser,
  which knows only its index, agree. Each construct then `TakesAll`: what is to be rendered up to the
  line where it stops, as one block, and nothing the reference puts together crosses that line; and
  that line is an `Entry` again. `RendersFrom` follows from the end of the document backwards, one
  construct at a time (`PutsBefore`, `PassesOver`).
* *Countdown.* Besides the number shown, `DotInv` needs that the interval has a callback to run only
  while a number is shown, else a callback left over would count below zero.
* *Vitals.* `Started` says that loops are of sessions handed out, so a new session has none;
  `OfRun` follows samples to the closure of a request (`prev`), through which a failed request
  brings back a value of before.

Assumptions, each a named `ASSUME` of the module that declares the constants: finite sets of
requests and calls; capacities, rates and bounds in `Nat`, non-zero where the code would block for
ever or divide by zero; a client is not `NoClient` and a file not `NoFile`; the paths, modes and
programs of the environment have the shape of their records. `Components` of `Vfs`, the strings that
may stand between two slashes, contains the names of the directories `execute` starts with: the
prover has no fact that a string literal is a string, so the set is a constant.

Induction over data: the library's induction theorems take an operator as parameter, which the
provers cannot instantiate. Where a recursion must be reasoned about (path components, listings,
directories, lines of a document), induction is over a number, with the set of numbers for which a
fact holds and the least element of its complement (`LeastNumber`, `Induct`). That a recursive
function has the value its definition says is shown the same way (`ToEntriesExists`, `RowsExist`,
`FromExists`, ...), since a function chosen with no witness would be unspecified.

Model-checked only: the liveness properties (`EveryCallEnds`, `OnlyWorkersBlock`, `PoolRecovers`,
`ZombieUnlisted`, `EventuallySettled`, `RunEnds`, `TreeCatchesUp`, `LoadingEnds`, `DotSettles`),
since fairness and `ENABLED` are out of the prover's reach.

## 5. Not modelled

* Memory limiter callbacks and CPU/memory sampling: pure comparisons of measurements.
* WASI functions that only read (`filestat`, `fdstat`, `clock`, `environ`, `args`, `random`,
  `prestat`) and `read_file`, `list_dir`.
* PII scrubber: regular expressions over text. Seccomp guard: a static filter, no state.
* Worker clients, auth, metrics, configuration: encoding, a comparison, counters, environment.
* Of the page: status bar, help, tooltips, theme, the demo menu, the editor's text; of the
  previewers, cell comparison, inline Markdown, log colours and the drawing of sparklines. They are
  text and layout, without state that outlives an event.
* The cross-tab merge of file listings: no two tabs share a session identifier, so it never runs.
* `u32` exhaustion of descriptors and `i64` overflow of seek offsets, far outside the bounds.
* The VFS path `/` as an argument of `path_open`: the module handles it, the instance
  leaves it out to keep the number of files small.
* A dev build's panic on the ring's wrapped subtraction; the model is the release build.

## 6. Where code and documentation differ

Kept as runs whose property TLC violates:

| Run | Documentation | Code |
|---|---|---|
| `writebehind_flush_loses` | `writebehind.go:174-175` "no entries are lost" | only a failed `BeginTx` puts the batch back |
| `session_stale_close` | `Terminal.tsx:106-108`, the comment on `intentionalCloseRef` | the flag is cleared at line 253 by the next run, before the close event of the replaced socket, which then ends that run |

Seen while modelling, without a run of their own:

* `manager.go:256-257` "unhealthy workers are evicted within one heartbeat cycle": the heartbeat
  replaces the list only; copies of the client stay in the channel, are handed out and put back.
* `tokenbucket.go:14-15` "no race conditions, no double-spending": the clock is read outside the
  script, and two scripts that run in the other order refill an interval twice. `GrantsBounded`
  counts that time (`rewound`); without the term it holds with one handler and fails with two.
* `vfs.rs:187` "Fixed-capacity ring buffer" and `204` "drops oldest data when at capacity": a chunk
  longer than the capacity is kept whole, the room left wraps from then on, and nothing is dropped
  again. `OutputIsNewest` says what is kept before and after such a chunk.
* `resource_monitor.rs:314` "a guest running continuously will be preempted after `quota_ms`": the
  ticker is a task of the runtime whose threads the guests hold. As many spinning guests as there are
  threads are never preempted, and no timer of the worker fires (`Starved`).
* `manager.go:61` "Replenish the warm pool when it drains below the threshold": the threshold is the
  capacity halved and rounded down, so with `POOL_CAPACITY=1` it is 0 and an empty pool is not refilled
  (`PoolRecovers` has `Threshold > 0` as its premise).
* `writebehind.go:11` "every 500 ms (or on Close)": the loop's calls have no deadline
  (164), and one that hangs stops all further flushes (the premise of `EventuallySettled`).
* `sandbox_pool.rs:72` "Number of slots to keep warm at all times": early returns lower it
  (`ShrinksOnlyByEarlyReturn` says by how much).
* `resource_monitor.rs:3-6` describes eviction as termination; the eviction loop only stops
  tracking the sandbox.
* `resource_monitor.rs:187` "Deregister a sandbox (call this after the pool reclaims the slot)": the
  `?` at `sandbox_pool.rs:893-895` and `928-931` leave without deregistering.
* A guest interrupted in its start section is reported as a trap, not as the quota error of
  `error.rs:32`, because the instantiation maps every error to `Trap`.
* `pool.go:21-22` "the pool simply controls concurrency (max N in-flight executions)": replenish
  adds clients while others are in flight, so more than N can be. `pool.go:48-49` says a full pool
  "shouldn't happen in normal operation"; after such a replenish it does, and `Put` discards.
* `writebehind.go:15-17` expects loss "on unclean shutdown" only; entries still in the channel or
  in the loop's batch are lost on a clean one too.
* `writebehind.go:253` and `227-228` speak of the most recent snapshot; rows of the same second
  have no order.
* `backpressure.rs:16` "Pool > 90% full?" sheds: several requests can pass the check together and
  exceed it (`AdmissionBounded` says by how many).
* `tokenbucket.go:96` speaks of sub-second accuracy; the refill forgets the remainder.
* `vfs.rs:27-28` says the quota error is `ERRNO_NOSPC`; `fd_write` returns `BADF`
  (`sandbox_pool.rs:438`). The quota counts bytes passed to `fd_write`, not the gaps
  `resize` fills.
* `vfs.rs` "Ensure parent directory exists": the parent may be a file.
* The stale close event also resets the refs of the run in progress, so that its exit code, trap
  or files are lost; hence the `stale` condition of `TruthfulSuccess`.
* `Terminal.tsx:432` "reset for next session": an intentional or failed close does not reset the
  refs, and what a stopped run left is still there when the next one ends.
* Output that arrives before xterm is loaded is discarded by the exit frame and by the cleanup.
* Run on the terminal's panic screen sets the running state but opens no socket until Reconnect.
* `handlers.go:351-352` says `CloseRead` "discards any further client→server frames"; the library
  closes the connection on a data frame, so what is typed into the terminal ends the run
  (an instance of `Lose`).

In the browser's components:

* `VirtualFileTree.tsx:6-7` "shows the VFS snapshot for the current sandbox session": files an exit
  frame brought are preferred to the listing (525-527) and `handleRun` keeps them, so when the current
  run is stopped, fails, traps or leaves no files, those of the earlier one hide its committed listing
  for good (the exception in `TreeCatchesUp`; without it TLC finds the run of two sessions). The refs a
  stopped run left are handed over by the next run's normal close, under the next session.
* `VirtualFileTree.tsx:493-495` "don't show the offline banner" on a 503, and 505-507 on a 4xx: the
  mark is not set, but one that is set stays until the next 200. `466` "reset backoff →
  POLL_BASE_MS": it is half of that. `472` "keep base interval": a 4xx keeps the current one.
* The first listing of a session *toggles* `/src` and `/output`, so the second session closes them.
  `vfsDisabled` is never cleared; a session without files shimmers for ever. `117` "Sort so dirs
  come before files": the sort is by path only.
* `ComponentRegistry.tsx:762-772`: a late answer overwrites the preview of the file selected after
  it (the exception in `ContentOfFile`). An `.ico` or `.bmp` of the exit frame is passed as base64
  (`ExecutionConsole.tsx:691`) to a registry that does not count it as an image, and loads for ever
  (the exception in `LoadingEnds`). The WebAssembly inspector always falls back to the raw viewer,
  as binary content is replaced by a text. An image that failed hides those after it (698). A table
  replaced by another keeps its page, which may be empty (the exception in `GridConsistent`). A table
  line with no closing bar and one cell renders nothing. A preview is not refreshed by a new run.
* `ComponentRegistry.tsx:278` "align with top / mid / bottom of bar area": the range is at least 1
  (258), so for close values below 5 the axis labels the top with a maximum whose bar does not reach it
  (1.25 and 1.5: half the plot). Bars are at least 2 px high (318), so small values beside a great one
  look equal, zero and negative ones included. `BarsFaithful` states both.
* `AgentVitals.tsx:340-341` "Start backoff from the base": the doubled value never equals the
  interval, so the first back-off is 1.6 s. Samples are carried over when a late compile replaces the
  run (the exception in `VitalsOfRun`).
* ⌘↵ in the editor compiles and, by the console's own handler, also runs what was there before; Esc
  in the help overlay stops the run; the crashed screen speaks of a Reconnect button that exists
  only if the terminal itself crashed.

## 7. Plan

Done: sandbox pool, manager, write-behind with its abstract specification, admission, rate
limiter, VFS, browser session, file tree, previews, health dot and vitals; the theorems above.
Next, in this order:

1. Proofs: the wake-up steps behind the liveness properties, as action properties.
2. `Worker`: the handler of `/execute` in `api.rs` over `BackPressure` and `SandboxPool`, where
   admission meets permits, and the stream of a job.
3. The worker clients' retries and deadlines, composed with `Manager`.
4. `Capability`: grants, expiry and revocation in `capability.rs`.
5. REST handlers of the orchestrator: execution records, snapshot queries, compile's limits.
