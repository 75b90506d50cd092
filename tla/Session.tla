------------------------------ MODULE Session ------------------------------
(***************************************************************************)
(* A browser session from Run to outcome: the console's run state          *)
(* (ExecutionConsole.tsx), the editor's compile request (CodeEditor.tsx,   *)
(* compile.go), the terminal with its output buffer and its socket         *)
(* (Terminal.tsx), and the handler behind the socket (WSExecute).          *)
(*                                                                         *)
(* Every run gets a session identifier of its own and the terminal's       *)
(* effect opens one socket for it, so a run, its session and its socket    *)
(* share a number.  State set in a click or key handler is rendered, and   *)
(* its effects run, before the next event; state set in a socket callback  *)
(* or after an await is rendered later (Render).                           *)
(***************************************************************************)
EXTENDS Integers, Sequences, SequencesExt

CONSTANTS
  MaxRuns,      \* runs the user starts (a bound of the model)
  MaxCompiles,  \* compile requests in flight (a bound of the model)
  MaxChunks,    \* binary frames a run's output takes (a bound of the model)
  Results,      \* what a program can do: exit, binary frames, files left behind
  PerFrame      \* chunks flushBuffer writes: MAX_BYTES_PER_FRAME over 4096

ASSUME SessionAssumption ==
  /\ MaxRuns \in Nat /\ MaxCompiles \in Nat /\ MaxChunks \in Nat
  /\ PerFrame \in Nat \ {0}
  /\ Results \subseteq [end : {"ok", "nonzero", "trap"}, chunks : 0..MaxChunks, files : BOOLEAN]

VARIABLES
  \* ExecutionConsole
  state, session,   \* sandboxState and sessionId (0 is null), as last set
  view,             \* sandboxState as last rendered: what the callbacks see
  mounted,          \* the error boundary shows the terminal
  shown,            \* the run whose files inlineVfsSnapshot holds
  issued,           \* session identifiers handed out
  compiling,        \* POST /compile requests without an answer
  \* Terminal
  cur,              \* the run whose socket effect is live
  ready,            \* xtermRef is set
  intentional,      \* intentionalCloseRef
  refs,             \* vfsSnapshotRef (the run), exitCodeRef, hasTrapRef
  buffer, raf,      \* bufferRef; rafRef is set
  screen,           \* chunks written to xterm
  \* the sockets and WSExecute
  conn, serv, wire, result, written,
  \* history
  by,               \* the run whose close event set the outcome on display
  stale,            \* runs during which another run's close event got through
  unseen            \* runs with a chunk discarded before xterm was loaded

console == <<state, session, view, mounted, shown, issued, compiling>>
term    == <<cur, ready, intentional, refs, buffer, raf, screen>>
server  == <<serv, wire, result, written>>
history == <<by, stale, unseen>>
vars    == <<console, term, conn, server, history>>

Runs    == 1..MaxRuns
Ended   == {"complete", "nonzero", "crashed"}
States  == {"idle", "running", "complete", "nonzero", "crashed"}
None    == [end |-> "none", chunks |-> 0, files |-> FALSE]
Failed  == [end |-> "error", chunks |-> 0, files |-> FALSE]
NoRefs  == [snap |-> 0, code |-> "none", trap |-> FALSE]
Frames  == [kind : {"chunk", "error", "exit", "normal", "abnormal"}, n : 0..MaxChunks]
Frame(kind, n) == [kind |-> kind, n |-> n]

ConsoleOK ==
  /\ state \in States /\ view \in States /\ mounted \in BOOLEAN
  /\ session \in 0..MaxRuns /\ shown \in 0..MaxRuns
  /\ issued \in 0..MaxRuns /\ compiling \in 0..MaxCompiles

TerminalOK ==
  /\ cur \in 0..MaxRuns
  /\ ready \in BOOLEAN /\ intentional \in BOOLEAN /\ raf \in BOOLEAN
  /\ refs \in [snap : 0..MaxRuns, code : {"none", "zero", "nonzero"}, trap : BOOLEAN]
  /\ buffer \in Seq(Runs \X Nat) /\ screen \in Seq(Runs \X Nat)

SocketsOK ==
  /\ conn \in [Runs -> {"new", "connecting", "open", "failing", "closing", "closed"}]
  /\ serv \in [Runs -> {"idle", "executing", "writing", "done"}]
  /\ wire \in [Runs -> Seq(Frames)]
  /\ result \in [Runs -> Results \cup {None, Failed}]
  /\ written \in [Runs -> 0..MaxChunks]

HistoryOK == by \in 0..MaxRuns /\ stale \subseteq 0..MaxRuns /\ unseen \subseteq Runs

TypeOK == ConsoleOK /\ TerminalOK /\ SocketsOK /\ HistoryOK

Init ==
  /\ state = "idle" /\ view = "idle" /\ session = 0 /\ mounted = TRUE
  /\ shown = 0 /\ issued = 0 /\ compiling = 0
  /\ cur = 0 /\ ready = FALSE /\ intentional = FALSE /\ refs = NoRefs
  /\ buffer = <<>> /\ raf = FALSE /\ screen = <<>>
  /\ conn = [s \in Runs |-> "new"] /\ serv = [s \in Runs |-> "idle"]
  /\ wire = [s \in Runs |-> <<>>] /\ result = [s \in Runs |-> None]
  /\ written = [s \in Runs |-> 0]
  /\ by = 0 /\ stale = {} /\ unseen = {}

-----------------------------------------------------------------------------
(***************************************************************************)
(* The socket effect of the terminal.  Cleanup marks the close as          *)
(* intentional, closes the socket and writes out the buffer; the effect    *)
(* clears the mark and opens the next socket.                              *)
(***************************************************************************)
RunsIn(q) == {q[i][1] : i \in DOMAIN q}

\* Mutant: the buffer is emptied without being written.
FlushAllDiscards ==
  /\ UNCHANGED <<screen, unseen>>
  /\ buffer' = <<>> /\ raf' = FALSE

\* Write the whole buffer to xterm, if there is one, and empty it.
FlushAll ==
  /\ screen' = IF ready THEN screen \o buffer ELSE screen
  /\ unseen' = IF ready THEN unseen ELSE unseen \cup RunsIn(buffer)
  /\ buffer' = <<>> /\ raf' = FALSE

\* ws.close: an open socket starts the closing handshake, one that is not open
\* yet fails.
Closing(s) == IF conn[s] = "connecting" THEN "failing"
              ELSE IF conn[s] = "open" THEN "closing" ELSE conn[s]

\* Once the browser has closed its end, what WSExecute still does can reach it
\* only as the code of the close event (ClosesWith).
Forgets(runs) ==
  /\ serv' = [s \in Runs |-> IF s \in runs THEN "done" ELSE serv[s]]
  /\ wire' = [s \in Runs |-> IF s \in runs THEN <<>> ELSE wire[s]]
  /\ written' = [s \in Runs |-> IF s \in runs THEN 0 ELSE written[s]]
  /\ UNCHANGED result

Cleanup ==
  \/ cur = 0 /\ UNCHANGED <<screen, unseen, buffer, raf>>
  \/ cur # 0 /\ FlushAll

\* Mutant: the cleanup leaves the socket of the replaced run open.
SocketEffectKeepsOpen(want) ==
  \/ want = cur /\ UNCHANGED <<cur, intentional, conn, server, screen, unseen, buffer, raf>>
  \/ /\ want # cur
     /\ Cleanup
     /\ cur' = want
     /\ intentional' = (want = 0)
     /\ conn' = [s \in Runs |-> IF s = want THEN "connecting" ELSE conn[s]]
     /\ UNCHANGED server

\* The dependencies (running, sessionId, wasmB64) changed iff the run they ask
\* for is not the one the effect is live for: the demo and mode selectors are
\* disabled while a run is on, and a compiled binary comes with a new session.
SocketEffect(want) ==
  \/ want = cur /\ UNCHANGED <<cur, intentional, conn, server, screen, unseen, buffer, raf>>
  \/ /\ want # cur
     /\ Cleanup
     /\ cur' = want
     /\ intentional' = (want = 0)
     /\ conn' = [s \in Runs |-> IF s = want THEN "connecting"
                                ELSE IF s = cur THEN Closing(s) ELSE conn[s]]
     /\ Forgets({cur})

Wanted(st, se) == IF st = "running" /\ mounted THEN se ELSE 0

-----------------------------------------------------------------------------
(***************************************************************************)
(* The console.                                                            *)
(***************************************************************************)
\* A click or key handler: set the state, render, run the effects.
SetNow(st, se) ==
  /\ state' = st /\ session' = se /\ view' = st
  /\ SocketEffect(Wanted(st, se))
  /\ UNCHANGED <<mounted, ready, refs>>

handleRun ==
  /\ view # "running"
  /\ issued < MaxRuns
  /\ issued' = issued + 1
  /\ SetNow("running", issued + 1)
  /\ UNCHANGED <<shown, compiling, by, stale>>

handleStop ==
  /\ view = "running"
  /\ SetNow("idle", session)
  /\ UNCHANGED <<shown, issued, compiling, by, stale>>

handleReset ==
  /\ SetNow("idle", 0)
  /\ shown' = 0
  /\ UNCHANGED <<issued, compiling, by, stale>>

\* handleCompileAndRun up to its await.  compileState keeps one mounted editor
\* from asking twice; an editor that was replaced by a preview and mounted
\* again has forgotten its request.
handleCompileAndRun ==
  /\ view # "running"
  /\ compiling < MaxCompiles
  /\ compiling' = compiling + 1
  /\ UNCHANGED <<state, session, view, mounted, shown, issued, term, conn, server, history>>

\* rustc succeeded: handleCompiled starts a run whatever is running by now.
handleCompiled ==
  /\ compiling > 0
  /\ issued < MaxRuns
  /\ compiling' = compiling - 1
  /\ issued' = issued + 1
  /\ state' = "running" /\ session' = issued + 1
  /\ UNCHANGED <<view, mounted, shown, term, conn, server, history>>

\* A rejected source, a failed rustc, an internal error or no answer.
CompileFails ==
  /\ compiling > 0
  /\ compiling' = compiling - 1
  /\ UNCHANGED <<state, session, view, mounted, shown, issued, term, conn, server, history>>

\* React renders what the callbacks set and runs the effect.
Render ==
  /\ view # state \/ cur # Wanted(state, session)
  /\ view' = state
  /\ SocketEffect(Wanted(state, session))
  /\ UNCHANGED <<state, session, mounted, shown, issued, compiling, ready, refs, by, stale>>

\* The boundary catches an error of the terminal and unmounts it: cleanup runs,
\* xterm is disposed, and the refs go.  The sockets keep the old refs, with the
\* mark set, so that their close events no longer reach the console.
handleCrash ==
  /\ mounted
  /\ mounted' = FALSE
  /\ state' = "crashed" /\ view' = "crashed" /\ by' = session
  /\ cur' = 0 /\ intentional' = FALSE /\ refs' = NoRefs /\ ready' = FALSE
  /\ buffer' = <<>> /\ raf' = FALSE /\ screen' = <<>>
  /\ conn' = [s \in Runs |-> IF conn[s] = "new" THEN "new" ELSE "closed"]
  /\ Forgets({cur})
  /\ UNCHANGED <<session, shown, issued, compiling, stale, unseen>>

\* The panic screen's Reconnect button mounts a new terminal.
handleReconnect ==
  /\ ~mounted
  /\ mounted' = TRUE
  /\ state' = "idle" /\ view' = "idle" /\ session' = 0
  /\ UNCHANGED <<shown, issued, compiling, term, conn, server, history>>

-----------------------------------------------------------------------------
(***************************************************************************)
(* WSExecute, for a socket the browser still holds (see Forgets).          *)
(***************************************************************************)
Sends(s, frames) == wire' = [wire EXCEPT ![s] = @ \o frames]

\* websocket.Accept, onopen with its send of the request, wsjson.Read and the
\* checks of the request, which the binaries of the console pass.
OnOpen(s) ==
  /\ conn[s] = "connecting" /\ wire[s] = <<>>
  /\ conn' = [conn EXCEPT ![s] = "open"]
  /\ serv' = [serv EXCEPT ![s] = "executing"]
  /\ UNCHANGED <<console, term, wire, result, written, history>>

\* manager.Execute returns an error: an error frame and close code 1011.
ExecuteFails(s) ==
  /\ conn[s] = "open" /\ serv[s] = "executing"
  /\ result' = [result EXCEPT ![s] = Failed]
  /\ serv' = [serv EXCEPT ![s] = "done"]
  /\ Sends(s, <<Frame("error", 0), Frame("abnormal", 0)>>)
  /\ UNCHANGED <<console, term, conn, written, history>>

ExecuteReturns(s) ==
  /\ conn[s] = "open" /\ serv[s] = "executing"
  /\ \E r \in Results : result' = [result EXCEPT ![s] = r]
  /\ serv' = [serv EXCEPT ![s] = "writing"]
  /\ UNCHANGED <<console, term, conn, wire, written, history>>

\* One binary frame of stdout or, after those, of stderr.
WriteChunk(s) ==
  /\ conn[s] = "open" /\ serv[s] = "writing" /\ written[s] < result[s].chunks
  /\ written' = [written EXCEPT ![s] = @ + 1]
  /\ Sends(s, <<Frame("chunk", written[s] + 1)>>)
  /\ UNCHANGED <<console, term, conn, serv, result, history>>

\* The exit frame and close code 1000.
WriteExit(s) ==
  /\ conn[s] = "open" /\ serv[s] = "writing" /\ written[s] = result[s].chunks
  /\ serv' = [serv EXCEPT ![s] = "done"]
  /\ written' = [written EXCEPT ![s] = 0]
  /\ Sends(s, <<Frame("exit", 0), Frame("normal", 0)>>)
  /\ UNCHANGED <<console, term, conn, result, history>>

\* Refused upgrade, lost network, dead server, or input the server did not
\* expect: the frames not delivered so far may be lost with the connection.
Lose(s) ==
  /\ conn[s] \in {"connecting", "open"}
  /\ \A i \in DOMAIN wire[s] : wire[s][i].kind # "abnormal"
  /\ \E k \in 0..Len(wire[s]) :
       /\ \A i \in 1..k : wire[s][i].kind # "normal"
       /\ wire' = [wire EXCEPT ![s] = SubSeq(@, 1, k) \o <<Frame("abnormal", 0)>>]
  /\ serv' = [serv EXCEPT ![s] = "done"]
  /\ written' = [written EXCEPT ![s] = 0]
  /\ UNCHANGED <<console, term, conn, result, history>>

-----------------------------------------------------------------------------
(***************************************************************************)
(* The callbacks of the terminal.                                          *)
(***************************************************************************)
\* Promise.all of the imports resolves, and the first frame passes.
XtermLoads ==
  /\ mounted /\ ~ready
  /\ ready' = TRUE
  /\ UNCHANGED <<console, cur, intentional, refs, buffer, raf, screen, conn, server, history>>

flushBuffer ==
  /\ raf
  /\ IF ready
     THEN LET n == IF PerFrame < Len(buffer) THEN PerFrame ELSE Len(buffer) IN
          /\ screen' = screen \o SubSeq(buffer, 1, n)
          /\ buffer' = SubSeq(buffer, n + 1, Len(buffer))
          /\ raf' = (n < Len(buffer))
     ELSE raf' = FALSE /\ UNCHANGED <<screen, buffer>>
  /\ UNCHANGED <<console, cur, ready, intentional, refs, conn, server, history>>

\* The browser delivers frames of an open socket only.
Delivers(s, kind) ==
  /\ conn[s] = "open" /\ wire[s] # <<>> /\ Head(wire[s]).kind = kind
  /\ wire' = [wire EXCEPT ![s] = Tail(@)]
  /\ UNCHANGED <<console, cur, ready, intentional, conn, serv, result, written, by, stale>>

OnChunk(s) ==
  /\ Delivers(s, "chunk")
  /\ buffer' = Append(buffer, <<s, Head(wire[s]).n>>) /\ raf' = TRUE
  /\ UNCHANGED <<refs, screen, unseen>>

\* A control frame that is not an exit frame is ignored.
OnErrorFrame(s) ==
  /\ Delivers(s, "error")
  /\ UNCHANGED <<refs, screen, unseen, buffer, raf>>

CodeOf(r) == IF r.end = "ok" THEN "zero" ELSE "nonzero"

\* Mutant: the exit frame leaves the buffer to the frame loop.
OnExitUnflushed(s) ==
  /\ Delivers(s, "exit")
  /\ refs' = [snap |-> IF result[s].files THEN s ELSE refs.snap,
              code |-> CodeOf(result[s]),
              trap |-> refs.trap \/ result[s].end = "trap"]
  /\ UNCHANGED <<screen, unseen, buffer, raf>>

\* Mutant: every exit frame sets hasTrapRef, while the snapshot is kept.
OnExitForgetsTrap(s) ==
  /\ Delivers(s, "exit")
  /\ FlushAll
  /\ refs' = [snap |-> IF result[s].files THEN s ELSE refs.snap,
              code |-> CodeOf(result[s]),
              trap |-> result[s].end = "trap"]

\* The snapshot and the trap mark are only ever set here, never cleared.
OnExit(s) ==
  /\ Delivers(s, "exit")
  /\ FlushAll
  /\ refs' = [snap |-> IF result[s].files THEN s ELSE refs.snap,
              code |-> CodeOf(result[s]),
              trap |-> refs.trap \/ result[s].end = "trap"]

\* onEnd of the console.
OnEnd(outcome) ==
  \/ outcome = "error" /\ state' = "crashed" /\ UNCHANGED shown
  \/ /\ outcome = "complete"
     /\ state' = IF refs.code = "nonzero" THEN "nonzero" ELSE "complete"
     /\ shown' = IF refs.snap # 0 THEN refs.snap ELSE shown

\* Mutant: a normal close is a completed run, trap or not.
ReportsAnyNormal(s, code) ==
  \/ code = "abnormal" /\ OnEnd("error") /\ UNCHANGED refs
  \/ code = "normal" /\ OnEnd("complete") /\ refs' = NoRefs

\* Mutant: only a normal close tells the console.
ReportsNormalOnly(s, code) ==
  \/ code = "abnormal" /\ UNCHANGED <<state, shown, refs>>
  \/ /\ code = "normal"
     /\ OnEnd(IF refs.trap THEN "error" ELSE "complete")
     /\ refs' = NoRefs

\* ws.onclose once the mark was found clear.
Reports(s, code) ==
  \/ /\ code = "abnormal"
     /\ OnEnd("error")
     /\ UNCHANGED refs
  \/ /\ code = "normal"
     /\ OnEnd(IF refs.trap THEN "error" ELSE "complete")
     /\ refs' = NoRefs

\* A socket the cleanup closed gets the server's echo of code 1000, the code
\* the server had sent already, or 1006 if there was no closing handshake.
ClosesWith(s, code) ==
  \/ conn[s] \in {"connecting", "open"} /\ wire[s] # <<>> /\ Head(wire[s]).kind = code
  \/ conn[s] = "failing" /\ code = "abnormal"
  \/ conn[s] = "closing"

OnClose(s) ==
  \E code \in {"normal", "abnormal"} :
    /\ ClosesWith(s, code)
    /\ conn' = [conn EXCEPT ![s] = "closed"]
    /\ wire' = [wire EXCEPT ![s] = <<>>]
    /\ \/ intentional /\ UNCHANGED <<state, shown, refs, by, stale>>
       \/ /\ ~intentional /\ Reports(s, code)
          /\ by' = s /\ stale' = IF s = cur THEN stale ELSE stale \cup {cur}
    /\ UNCHANGED <<session, view, mounted, issued, compiling, cur, ready, intentional,
                   buffer, raf, screen, serv, result, written, unseen>>

-----------------------------------------------------------------------------
User == handleRun \/ handleStop \/ handleReset \/ handleCompileAndRun \/ handleReconnect

Server(s) == ExecuteFails(s) \/ ExecuteReturns(s) \/ WriteChunk(s) \/ WriteExit(s)

Socket(s) == OnOpen(s) \/ OnChunk(s) \/ OnErrorFrame(s) \/ OnExit(s) \/ OnClose(s)

Next ==
  \/ User \/ handleCompiled \/ CompileFails \/ Render \/ handleCrash
  \/ XtermLoads \/ flushBuffer
  \/ \E s \in Runs : Server(s) \/ Lose(s) \/ Socket(s)

Spec == Init /\ [][Next]_vars

\* The event loop takes up every queued task, Manager.Execute is bounded by its
\* timeouts, and a connection delivers or fails.
FairSpec ==
  /\ Spec
  /\ WF_vars(Render)
  /\ \A s \in Runs : WF_vars(Server(s)) /\ WF_vars(Socket(s))

-----------------------------------------------------------------------------
Before(a, b) == a[1] < b[1] \/ (a[1] = b[1] /\ a[2] < b[2])

\* What the terminal shows, and will show, is each run's output in the order the
\* program wrote it, and nothing of an older run comes after a newer one, however
\* Stop, a late compile and the frame loop interleave with the socket.
OutputInOrder ==
  LET out == screen \o buffer IN
  \A i \in 1..(Len(out) - 1) : Before(out[i], out[i + 1])

\* A chunk the socket delivered stays in the buffer until it is on the screen:
\* neither the exit frame nor the cleanup that cancels the frame loop drops it.
OutputKept ==
  [][ready /\ mounted' =>
       \A i \in DOMAIN buffer : buffer[i] \in Range(screen' \o buffer')]_vars

\* When the console reports how its run exited, all the run wrote is on the
\* screen, unless some of it came before xterm was loaded.
AllOutputShown ==
  state \in {"complete", "nonzero"} /\ by = session /\ session \notin stale \cup unseen =>
    \A n \in 1..result[session].chunks : <<session, n>> \in Range(screen)

\* A close event of the console's own run never makes it look better than it was:
\* "complete" and "nonzero" are what the exit frame said, and a run that trapped,
\* failed or lost its connection is neither.  (The close of a replaced socket can
\* break that, see OutcomeOfOwnRun: it takes the refs of the run in progress.)
TruthfulSuccess ==
  by = session /\ session \notin stale =>
    /\ state = "complete" => result[session].end = "ok"
    /\ state = "nonzero" => result[session].end = "nonzero"

\* The files of a run that trapped are never offered, although the refs keep its
\* snapshot across an intentional or failed close into the next run.
NoFilesOfTrappedRun == shown # 0 => result[shown].files /\ result[shown].end # "trap"

\* The files on display are never replaced by those of an older run.
FilesMoveForward == [][shown' = 0 \/ shown' >= shown]_vars

\* While the terminal is up, a run that is on comes to an end: no close event of
\* the live socket is taken for one the cleanup caused.
RunEnds == (state = "running" /\ mounted) ~> (state # "running" \/ ~mounted)

\* What the comment on intentionalCloseRef promises: the close of a socket the
\* cleanup closed does not set the outcome of the console.
OutcomeOfOwnRun == state \in Ended => by = session
=============================================================================
