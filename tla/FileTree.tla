----------------------------- MODULE FileTree -----------------------------
(***************************************************************************)
(* The file tree of the console (VirtualFileTree.tsx): a self-rescheduling *)
(* poll of GET /api/v1/vfs/:sessionId with back-off, one loop per session  *)
(* identifier, against a service that is up, down, or runs without         *)
(* persistence, and against the console and its terminal, which change the *)
(* session and hand over the files of the exit frame; then the tree that   *)
(* is built from the listing and the rows that are on the screen.          *)
(*                                                                         *)
(* Every run has a session identifier of its own (a number here), so a     *)
(* run, its socket, the effect of the component and its poll loop share a  *)
(* number; no other tab has the same identifier, so nothing arrives on the *)
(* BroadcastChannel.  Of the terminal there is what decides which files it *)
(* hands over; what a callback sets is rendered at once (module Session    *)
(* has the delay).  A path is the sequence of its segments.                *)
(***************************************************************************)
EXTENDS Integers, Sequences, FiniteSets, SequencesExt

CONSTANTS
  MaxSessions,  \* sessions the console starts (a bound of the model)
  PathOrder,    \* the paths programs write, in the order of localeCompare
  Outputs,      \* the sets of files a run may leave
  PollStart,    \* POLL_BASE_MS / 2
  PollMax       \* POLL_MAX_MS

ASSUME FileTreeAssumption ==
  /\ MaxSessions \in Nat
  /\ PathOrder \in Seq(Seq(STRING) \ {<<>>}) /\ IsInjective(PathOrder)
  /\ Outputs \subseteq SUBSET ToSet(PathOrder)
  /\ PollStart \in Nat \ {0} /\ PollMax \in Nat /\ PollStart <= PollMax

VARIABLES
  \* what the component is given
  session,      \* sessionId (0 is null)
  inline,       \* the session whose files inlineEntries are (0: none)
  \* the terminal
  socket,       \* of each run
  refs,         \* vfsSnapshotRef (the run), hasTrapRef
  \* the reducer's state
  entries,      \* the last listing, with the session it is of (0: none)
  expanded, offline, vfsDisabled,
  \* the effect of the current session
  firstLoad, backoffMs,
  fetching,     \* sessions with a request in flight, the cancelled ones too
  timers,       \* sessions with an armed timer
  \* the service
  issued,       \* session identifiers handed out
  files,        \* the files each run left (chosen when it returns)
  returned, stored

props   == <<session, inline, socket, refs>>
reducer == <<entries, expanded, offline, vfsDisabled>>
effect  == <<firstLoad, backoffMs, fetching, timers>>
service == <<issued, files, returned, stored>>
vars    == <<props, reducer, effect, service>>

Sessions == 1..MaxSessions
Paths    == ToSet(PathOrder)
Dirs(p)  == {SubSeq(p, 1, i) : i \in 1..(Len(p) - 1)}
AllDirs  == UNION {Dirs(p) : p \in Paths}
NoRefs   == [snap |-> 0, trap |-> FALSE]
Empty    == [of |-> 0, paths |-> {}]
Listings == [of : 0..MaxSessions, paths : SUBSET Paths]

TypeOK ==
  /\ session \in 0..MaxSessions /\ issued \in 0..MaxSessions
  /\ inline \in 0..MaxSessions /\ entries \in Listings
  /\ socket \in [Sessions -> {"new", "open", "exited", "closing", "closed"}]
  /\ refs \in [snap : 0..MaxSessions, trap : BOOLEAN]
  /\ expanded \subseteq AllDirs \cup {<<"src">>, <<"output">>}
  /\ offline \in BOOLEAN /\ vfsDisabled \in BOOLEAN /\ firstLoad \in BOOLEAN
  /\ backoffMs \in PollStart..PollMax
  /\ fetching \subseteq Sessions /\ timers \subseteq Sessions
  /\ files \in [Sessions -> SUBSET Paths]
  /\ returned \subseteq Sessions /\ stored \subseteq Sessions

Init ==
  /\ session = 0 /\ inline = 0
  /\ socket = [s \in Sessions |-> "new"] /\ refs = NoRefs
  /\ entries = Empty /\ expanded = {} /\ offline = FALSE /\ vfsDisabled = FALSE
  /\ firstLoad = FALSE /\ backoffMs = PollStart /\ fetching = {} /\ timers = {}
  /\ issued = 0 /\ files = [s \in Sessions |-> {}] /\ returned = {} /\ stored = {}

-----------------------------------------------------------------------------
(***************************************************************************)
(* The effect of the session.                                              *)
(***************************************************************************)
\* Mutant: the cleanup leaves the timer of the old session armed.
SessionEffectKeepsTimer(s) ==
  /\ session' = s
  /\ \/ s = 0 /\ entries' = Empty /\ UNCHANGED <<firstLoad, backoffMs, fetching, timers>>
     \/ /\ s # 0
        /\ firstLoad' = TRUE /\ backoffMs' = PollStart
        /\ fetching' = fetching \cup {s}
        /\ UNCHANGED <<entries, timers>>
  /\ UNCHANGED <<expanded, offline, vfsDisabled>>

\* The cleanup cancels the old loop: its timer is cleared, and a request it has
\* in flight will find the loop cancelled.  Without a session the listing is
\* cleared; a new session starts its loop, with the old listing still there.
SessionEffect(s) ==
  /\ session' = s
  /\ timers' = timers \ {session}
  /\ \/ s = 0 /\ entries' = Empty /\ UNCHANGED <<firstLoad, backoffMs, fetching>>
     \/ /\ s # 0
        /\ firstLoad' = TRUE /\ backoffMs' = PollStart
        /\ fetching' = fetching \cup {s}
        /\ UNCHANGED entries
  /\ UNCHANGED <<expanded, offline, vfsDisabled>>

\* TOGGLE_DIR
Toggle(set, dir) == IF dir \in set THEN set \ {dir} ELSE set \cup {dir}

Double == IF backoffMs * 2 < PollMax THEN backoffMs * 2 ELSE PollMax

\* Mutant: a listing does not clear the offline mark.
OkStaysOffline(s) ==
  /\ backoffMs' = PollStart
  /\ entries' = [of |-> s, paths |-> IF s \in stored THEN files[s] ELSE {}]
  /\ expanded' = IF firstLoad THEN Toggle(Toggle(expanded, <<"src">>), <<"output">>) ELSE expanded
  /\ firstLoad' = FALSE
  /\ UNCHANGED <<offline, vfsDisabled>>

\* What fetchVFSEntries returned: the service may be down, up again, or restarted
\* with or without LIBSQL_URL at every request.  Here, a listing.
Ok(s) ==
  /\ backoffMs' = PollStart
  /\ offline' = FALSE
  /\ entries' = [of |-> s, paths |-> IF s \in stored THEN files[s] ELSE {}]
  /\ expanded' = IF firstLoad THEN Toggle(Toggle(expanded, <<"src">>), <<"output">>) ELSE expanded
  /\ firstLoad' = FALSE
  /\ UNCHANGED vfsDisabled

\* 503
Disabled ==
  /\ vfsDisabled' = TRUE
  /\ backoffMs' = PollMax
  /\ UNCHANGED <<entries, expanded, offline, firstLoad>>

\* A network error, the timeout of 5 s, or another 5xx.
Failed ==
  /\ offline' = TRUE
  /\ backoffMs' = Double
  /\ UNCHANGED <<entries, expanded, vfsDisabled, firstLoad>>

\* 4xx
Missed ==
  /\ UNCHANGED <<reducer, firstLoad, backoffMs>>

\* Mutant: a late answer of a session that was left is taken for the current.
AnswerUnchecked(s) ==
  /\ s \in fetching
  /\ fetching' = fetching \ {s}
  /\ Ok(s) \/ Disabled \/ Failed \/ Missed
  /\ timers' = timers \cup {session}
  /\ UNCHANGED <<props, service>>

\* load after its await.
Answer(s) ==
  /\ s \in fetching
  /\ fetching' = fetching \ {s}
  /\ \/ s # session /\ UNCHANGED <<reducer, firstLoad, backoffMs, timers>>
     \/ /\ s = session
        /\ Ok(s) \/ Disabled \/ Failed \/ Missed
        /\ timers' = timers \cup {s}
  /\ UNCHANGED <<props, service>>

\* The timer calls load, which sends the next request.
TimerFires(s) ==
  /\ s \in timers
  /\ timers' = timers \ {s}
  /\ fetching' = fetching \cup {s}
  /\ UNCHANGED <<props, reducer, firstLoad, backoffMs, service>>

-----------------------------------------------------------------------------
(***************************************************************************)
(* The console and the service.                                            *)
(***************************************************************************)
\* The run whose socket is open: intentionalCloseRef is clear.
Live == {s \in Sessions : socket[s] \in {"open", "exited"}}

\* The socket effect: the cleanup closes the socket there is, whose close event
\* is still to come, and a new run opens its own.
SocketEffect(run) ==
  socket' = [s \in Sessions |-> IF s = run THEN "open"
                                ELSE IF s \in Live THEN "closing" ELSE socket[s]]

\* handleRun and handleCompiled: the files of the last exit frame stay.
handleRun ==
  /\ issued < MaxSessions
  /\ issued' = issued + 1
  /\ SessionEffect(issued + 1) /\ SocketEffect(issued + 1)
  /\ UNCHANGED <<inline, refs, files, returned, stored>>

\* The run stops, its session stays on display.
handleStop ==
  /\ Live # {}
  /\ SocketEffect(0)
  /\ UNCHANGED <<session, inline, refs, reducer, effect, service>>

\* The run of a session returns; its snapshot goes to the write-behind service
\* and into the exit frame.
RunReturns(s) ==
  /\ s <= issued /\ s \notin returned
  /\ returned' = returned \cup {s}
  /\ \E ps \in Outputs : files' = [files EXCEPT ![s] = ps]
  /\ UNCHANGED <<props, reducer, effect, issued, stored>>

\* The exit frame: the snapshot, if there are files, and the trap mark are set,
\* never cleared.
ExitFrame(s) ==
  /\ socket[s] = "open" /\ s \in returned
  /\ socket' = [socket EXCEPT ![s] = "exited"]
  /\ \E trap \in BOOLEAN :
       refs' = [snap |-> IF files[s] # {} THEN s ELSE refs.snap, trap |-> refs.trap \/ trap]
  /\ UNCHANGED <<session, inline, reducer, effect, service>>

\* onEnd of the console: the snapshot is whatever the ref holds, of this run or
\* of an earlier one that ended without a normal close.
onEnd(code) ==
  \/ code = "abnormal" /\ UNCHANGED <<inline, refs>>
  \/ /\ code = "normal"
     /\ inline' = IF refs.snap # 0 /\ ~refs.trap THEN refs.snap ELSE inline
     /\ refs' = NoRefs

\* ws.onclose: a normal close follows the exit frame or answers the cleanup's.
\* The close event of a replaced socket finds the mark clear and ends the run
\* that replaced it.
OnClose(s) ==
  \E code \in {"normal", "abnormal"} :
    /\ socket[s] \in {"exited", "closing"} \/ (socket[s] = "open" /\ code = "abnormal")
    /\ socket' = [r \in Sessions |-> IF r = s THEN "closed"
                                     ELSE IF r \in Live THEN "closing" ELSE socket[r]]
    /\ \/ Live = {} /\ UNCHANGED <<inline, refs>>
       \/ Live # {} /\ onEnd(code)
    /\ UNCHANGED <<session, reducer, effect, service>>

\* The write-behind service commits the snapshot.
Commits(s) ==
  /\ s \in returned \ stored
  /\ stored' = stored \cup {s}
  /\ UNCHANGED <<props, reducer, effect, issued, files, returned>>

handleReset ==
  /\ SessionEffect(0) /\ SocketEffect(0)
  /\ inline' = 0
  /\ UNCHANGED <<refs, service>>

\* The terminal fails and the user presses Reconnect on the panic screen: the
\* refs and the sockets go with the old terminal, but the files stay.
handleReconnect ==
  /\ SessionEffect(0)
  /\ socket' = [s \in Sessions |-> IF socket[s] = "new" THEN "new" ELSE "closed"]
  /\ refs' = NoRefs
  /\ UNCHANGED <<inline, service>>

-----------------------------------------------------------------------------
(***************************************************************************)
(* What is on the screen.  A tree is its directories' lists of children,   *)
(* <<>> being the root: the dirMap of buildTree.                           *)
(***************************************************************************)
Node(kind, path) == [kind |-> kind, path |-> path]

\* Mutant: dirMap is not consulted, each file brings its own directories.
EnsureDirAlways(tree, dir) ==
  [d \in DOMAIN tree \cup {dir} |->
     IF d = dir THEN <<>>
     ELSE IF d = Front(dir) THEN Append(tree[d], Node("dir", dir)) ELSE tree[d]]

EnsureDir(tree, dir) ==
  IF dir \in DOMAIN tree THEN tree
  ELSE [d \in DOMAIN tree \cup {dir} |->
          IF d = dir THEN <<>>
          ELSE IF d = Front(dir) THEN Append(tree[d], Node("dir", dir)) ELSE tree[d]]

\* The directories above a path, from the top down.
EnsureDirs(tree, path) ==
  LET to[i \in 0..(Len(path) - 1)] ==
        IF i = 0 THEN tree ELSE EnsureDir(to[i - 1], SubSeq(path, 1, i))
  IN  to[Len(path) - 1]

AddEntry(tree, path) ==
  [EnsureDirs(tree, path) EXCEPT ![Front(path)] = Append(@, Node("file", path))]

\* The listing in the order of localeCompare, entry by entry.
buildTree(paths) ==
  LET to[n \in 0..Len(PathOrder)] ==
        IF n = 0 THEN [d \in {<<>>} |-> <<>>]
        ELSE IF PathOrder[n] \in paths THEN AddEntry(to[n - 1], PathOrder[n])
        ELSE to[n - 1]
  IN  to[Len(PathOrder)]

\* The rows below a directory; those of a collapsed one are not rendered.
TreeNodes(tree) ==
  LET rows[dir \in DOMAIN tree] ==
        FlattenSeq([i \in DOMAIN tree[dir] |->
          LET node == tree[dir][i] IN
          <<node>> \o IF node.kind = "dir" /\ node.path \in expanded
                      THEN rows[node.path] ELSE <<>>])
  IN  rows[<<>>]

\* Files of an exit frame are preferred to the listing, whichever run they are of.
displayEntries == IF inline # 0 THEN files[inline] ELSE entries.paths

\* The pane and its rows: no session, one of the three placeholders, or the tree.
Pane ==
  IF session = 0 THEN "no session"
  ELSE IF displayEntries # {} THEN "tree"
  ELSE IF offline THEN "unreachable"
  ELSE IF vfsDisabled THEN "disabled" ELSE "shimmer"

Rows == IF Pane = "tree" THEN TreeNodes(buildTree(displayEntries)) ELSE <<>>

handleToggle ==
  /\ LET rows == ToSet(Rows) IN
     \E dir \in AllDirs : Node("dir", dir) \in rows /\ expanded' = Toggle(expanded, dir)
  /\ UNCHANGED <<props, entries, offline, vfsDisabled, effect, service>>

-----------------------------------------------------------------------------
Next ==
  \/ handleRun \/ handleStop \/ handleReset \/ handleReconnect \/ handleToggle
  \/ \E s \in Sessions : \/ Answer(s) \/ TimerFires(s) \/ RunReturns(s) \/ Commits(s)
                         \/ ExitFrame(s) \/ OnClose(s)

Spec == Init /\ [][Next]_vars

\* Timers fire, and every request is answered or runs into its timeout.
FairSpec ==
  /\ Spec
  /\ \A s \in Sessions : WF_vars(Answer(s)) /\ WF_vars(TimerFires(s))

-----------------------------------------------------------------------------
\* The loop of the session on display neither dies nor doubles, whatever the
\* service answers and however sessions are switched while a request is out: it
\* has either a request in flight or a timer, and no other session has a timer.
OneLoop ==
  /\ timers \subseteq {session}
  /\ session # 0 => (session \in fetching <=> session \notin timers)

\* Once the service has listed the current session, no listing of another one
\* comes back on the screen: an answer that arrives after its session was left
\* is dropped, although its request cannot be recalled.
ListingOfSession ==
  /\ entries.of # session /\ session # 0 => firstLoad
  /\ session = 0 => entries = Empty

\* The rows are the listing: a file is a row iff all the directories above it
\* are expanded, a directory likewise and once, and what is in a directory comes
\* right after it; outages and missing persistence hide no file that is known.
RowsFaithful ==
  session # 0 =>
    LET rows    == Rows
        Open(p) == Dirs(p) \subseteq expanded
        known   == {Node("file", p) : p \in displayEntries}
                     \cup {Node("dir", d) : d \in UNION {Dirs(p) : p \in displayEntries}}
    IN  /\ ToSet(rows) = {n \in known : Open(n.path)}
        /\ IsInjective(rows)
        /\ \A i \in DOMAIN rows : Len(rows[i].path) > 1 =>
             LET above == Front(rows[i].path) IN
             i > 1 /\ (rows[i - 1].path = above \/ IsStrictPrefix(above, rows[i - 1].path))

\* The service answers the session on display with its listing.
Listed == \A s \in Sessions : Answer(s) /\ s = session => Ok(s)

\* When the service is back for good the outage is gone from the screen: the tree
\* shows what the current session left, as committed or as its exit frame had it.
\* Only files an exit frame of an earlier session brought stay in front of it.
TreeCatchesUp ==
  <>[][Listed]_vars =>
    <>[](session # 0 =>
           /\ entries.of = session /\ ~offline
           /\ inline \in {0, session} =>
                displayEntries = IF session \in stored \cup {inline} THEN files[session] ELSE {})
=============================================================================
