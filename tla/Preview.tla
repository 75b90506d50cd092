------------------------------ MODULE Preview ------------------------------
(***************************************************************************)
(* The preview of a file: the part of the console that chooses the file    *)
(* and hands over what the exit frame brought (ExecutionConsole.tsx), and  *)
(* the registry that fetches the rest and picks the viewer                 *)
(* (ComponentRegistry.tsx), with requests that are answered late or out of *)
(* order: load has no cancellation.                                        *)
(*                                                                         *)
(* What a viewer shows is a value [of, file]: the file, as the run of that *)
(* session left it.  React discards the state of the registry when it is   *)
(* unmounted, and what a pending request sets later; the effects of a      *)
(* click run before anything else does.                                    *)
(***************************************************************************)
EXTENDS Viewers

CONSTANTS
  Files,        \* the paths of the files
  Ext,          \* the extension of each, as far as the code tells them apart
  Blank,        \* the files that are empty
  Snapshots,    \* the sets of files an exit frame may bring
  RowCount,     \* RowCount[s][f]: rows of f, a table, as session s left it
  MaxSessions,  \* sessions the console starts (a bound of the model)
  MaxLoads,     \* requests of one mounted registry (a bound of the model)
  Columns,      \* columns of a table
  NoFile        \* null

Sessions == 1..MaxSessions

ASSUME PreviewAssumption ==
  /\ Ext \in [Files -> {"csv", "json", "wasm", "md", "log", "image", "icon", "other"}]
  /\ Blank \subseteq Files /\ Snapshots \subseteq SUBSET Files /\ NoFile \notin Files
  /\ MaxSessions \in Nat /\ MaxLoads \in Nat /\ Columns \in Nat
  /\ RowCount \in [1..MaxSessions -> [Files -> Nat]]

VARIABLES
  ui,           \* the console's state: sessionId, activeTab, previewFile and
                \* inlineFileContent, inlineFileB64
  issued,       \* session identifiers handed out
  snapshot,     \* inlineVfsSnapshot, with the session that left it
  fetchState,   \* the registry's state, with the value it holds
  flights,      \* requests in flight, numbered in the order they were sent
  loads,        \* the last number
  raced,        \* history: the effect last ran with a request of before out
  grid,         \* page, sortCol and sortDir of a mounted DataGrid
  kept          \* history: a mounted DataGrid was handed another table

vars == <<ui, issued, snapshot, fetchState, flights, loads, raced, grid, kept>>

Nothing == [of |-> 0, file |-> NoFile]
Values  == [of : Sessions, file : Files]
NoGrid  == [page |-> 0, sortCol |-> 0, sortDir |-> "none"]

TypeOK ==
  /\ ui \in [session : 0..MaxSessions, tab : {"terminal", "preview"},
             file : Files \cup {NoFile},
             content : Values \cup {Nothing}, b64 : Values \cup {Nothing}]
  /\ issued \in 0..MaxSessions
  /\ snapshot \in [of : 0..MaxSessions, files : SUBSET Files]
  /\ snapshot.files # {} => snapshot.of # 0
  /\ \/ fetchState \in [status : {"idle", "loading", "error"}, data : {Nothing}]
     \/ fetchState \in [status : {"ok"}, data : Values]
  /\ flights \subseteq [n : 1..MaxLoads, value : Values] /\ loads \in 0..MaxLoads
  /\ raced \in BOOLEAN /\ kept \in BOOLEAN
  /\ grid \in [page : Nat, sortCol : 0..Columns, sortDir : {"none", "asc", "desc"}]

State(status, data) == [status |-> status, data |-> data]

-----------------------------------------------------------------------------
(***************************************************************************)
(* What the registry renders.                                              *)
(***************************************************************************)
detectKind(f) == IF Ext[f] \in {"icon", "other"} THEN "raw" ELSE Ext[f]

needsFetch(u) ==
  detectKind(u.file) # "image" /\ u.content = Nothing /\ u.b64 = Nothing

Mounted(u) == u.tab = "preview" /\ u.file # NoFile

\* Fetched WebAssembly is replaced by a text that is no JSON, and inline content
\* does not come here: the inspector always falls back to the raw viewer.
WasmInspector == "RawViewer"

Viewer(kind) ==
  CASE kind = "csv"  -> "DataGrid"
    [] kind = "wasm" -> WasmInspector
    [] kind = "json" -> "ChartView"
    [] kind = "md"   -> "MarkdownViewer"
    [] kind = "log"  -> "LogViewer"
    [] OTHER         -> "RawViewer"

Image(u) ==
  IF u.b64 # Nothing THEN u.b64
  ELSE IF u.session # 0 THEN [of |-> u.session, file |-> u.file] ELSE Nothing

Screen(u, fs) ==
  CASE ~Mounted(u)                    -> [pane |-> "none", data |-> Nothing]
    [] Mounted(u) /\ detectKind(u.file) = "image"
                                      -> [pane |-> "ImageViewer", data |-> Image(u)]
    [] OTHER ->
       CASE u.content # Nothing       -> [pane |-> Viewer(detectKind(u.file)), data |-> u.content]
         [] OTHER ->
            CASE fs.status \in {"idle", "loading"} -> [pane |-> "LoadingPane", data |-> Nothing]
              [] fs.status = "error"  -> [pane |-> "ErrorPane", data |-> Nothing]
              [] OTHER                -> [pane |-> Viewer(detectKind(u.file)), data |-> fs.data]

screen == Screen(ui, fetchState)

-----------------------------------------------------------------------------
(***************************************************************************)
(* The registry's effect.                                                  *)
(***************************************************************************)
\* useEffect and load: it runs on mounting and when needsFetch, the session or
\* the path changed.
Effect(u) ==
  /\ raced' = (flights # {})
  /\ \/ /\ ~needsFetch(u)
        /\ fetchState' = State("idle", Nothing)
        /\ UNCHANGED <<flights, loads>>
     \/ /\ needsFetch(u) /\ u.session = 0
        /\ fetchState' = State("error", Nothing)
        /\ UNCHANGED <<flights, loads>>
     \/ /\ needsFetch(u) /\ u.session # 0
        /\ loads < MaxLoads
        /\ loads' = loads + 1
        /\ fetchState' = State("loading", Nothing)
        /\ flights' = flights \cup
             {[n |-> loads + 1, value |-> [of |-> u.session, file |-> u.file]]}

Deps(u) == IF Mounted(u) THEN <<needsFetch(u), u.session, u.file>> ELSE <<>>

Registry(u) ==
  \/ /\ ~Mounted(u)
     /\ fetchState' = State("idle", Nothing)
     /\ flights' = {} /\ loads' = 0 /\ raced' = FALSE
  \/ /\ Mounted(u) /\ Deps(u) # Deps(ui)
     /\ Effect(u)
  \/ /\ Mounted(u) /\ Deps(u) = Deps(ui)
     /\ UNCHANGED <<fetchState, flights, loads, raced>>

\* A DataGrid that stays on the screen keeps its page and its order, whatever
\* table it is given.
Grid ==
  LET before == screen
      after  == Screen(ui', fetchState')
  IN  \/ /\ before.pane = "DataGrid" /\ after.pane = "DataGrid"
         /\ kept' = (kept \/ before.data # after.data)
         /\ UNCHANGED grid
      \/ /\ ~(before.pane = "DataGrid" /\ after.pane = "DataGrid")
         /\ kept' = FALSE /\ grid' = NoGrid

Console(u) == ui' = u /\ Registry(u) /\ Grid

-----------------------------------------------------------------------------
(***************************************************************************)
(* The console's handlers.                                                 *)
(***************************************************************************)
Init ==
  /\ ui = [session |-> 0, tab |-> "terminal", file |-> NoFile,
           content |-> Nothing, b64 |-> Nothing]
  /\ issued = 0 /\ snapshot = [of |-> 0, files |-> {}]
  /\ fetchState = State("idle", Nothing) /\ flights = {} /\ loads = 0 /\ raced = FALSE
  /\ grid = NoGrid /\ kept = FALSE

\* handleRun and handleCompiled.
handleRun ==
  /\ issued < MaxSessions
  /\ issued' = issued + 1
  /\ Console([ui EXCEPT !.session = issued + 1, !.tab = "terminal"])
  /\ UNCHANGED snapshot

\* onEnd with a snapshot: what is on display is not refreshed.
onEnd ==
  /\ ui.session # 0
  /\ \E fs \in Snapshots \ {{}} : snapshot' = [of |-> ui.session, files |-> fs]
  /\ UNCHANGED <<ui, issued, fetchState, flights, loads, raced, grid, kept>>

\* The files in the tree: those of the exit frame, else those of the listing.
Listed == IF snapshot.files # {} THEN snapshot.files ELSE Files

\* The content of an empty file is the empty string, which counts as none.
Inline(f) == f \in snapshot.files \ Blank

\* Mutant: a file that is not inline leaves the last inline content in place.
handleFileSelectKeepsInline ==
  /\ ui.session # 0
  /\ \E f \in Listed :
       LET value == [of |-> snapshot.of, file |-> f]
           image == Ext[f] \in {"image", "icon"}
       IN  Console([ui EXCEPT !.file = f, !.tab = "preview",
                      !.b64     = IF Inline(f) /\ image THEN value ELSE Nothing,
                      !.content = IF Inline(f) /\ ~image THEN value
                                  ELSE IF Inline(f) THEN Nothing ELSE @])
  /\ UNCHANGED <<issued, snapshot>>

handleFileSelect ==
  /\ ui.session # 0
  /\ \E f \in Listed :
       LET value == [of |-> snapshot.of, file |-> f]
           image == Ext[f] \in {"image", "icon"}
       IN  Console([ui EXCEPT !.file = f, !.tab = "preview",
                      !.b64     = IF Inline(f) /\ image THEN value ELSE Nothing,
                      !.content = IF Inline(f) /\ ~image THEN value ELSE Nothing])
  /\ UNCHANGED <<issued, snapshot>>

\* The two tabs and their shortcuts.
setActiveTab ==
  /\ \E t \in {"terminal", "preview"} \ {ui.tab} :
       /\ t = "preview" => ui.file # NoFile
       /\ Console([ui EXCEPT !.tab = t])
  /\ UNCHANGED <<issued, snapshot>>

handleReset ==
  /\ Console([session |-> 0, tab |-> "terminal", file |-> NoFile,
              content |-> Nothing, b64 |-> Nothing])
  /\ snapshot' = [of |-> 0, files |-> {}]
  /\ UNCHANGED issued

\* Reconnect of the panic screen.
handleReconnect ==
  /\ ui.session # 0
  /\ Console([ui EXCEPT !.session = 0])
  /\ UNCHANGED <<issued, snapshot>>

-----------------------------------------------------------------------------
(***************************************************************************)
(* The answers, and the clicks into a table.                               *)
(***************************************************************************)
\* Mutant: a failed request is not reported.
AnswerSilent(n) ==
  /\ \E r \in flights :
       /\ r.n = n
       /\ flights' = flights \ {r}
       /\ fetchState' \in {State("ok", r.value), fetchState}
  /\ ui' = ui /\ Grid
  /\ UNCHANGED <<issued, snapshot, loads, raced>>

\* A request is answered, or fails after 10 s at the latest.
fetchFileContent(r) == {State("ok", r.value), State("error", Nothing)}

\* load after its await: nobody asks whether the file is still on display.
Answer(n) ==
  /\ \E r \in flights :
       /\ r.n = n
       /\ flights' = flights \ {r}
       /\ fetchState' \in fetchFileContent(r)
  /\ ui' = ui /\ Grid
  /\ UNCHANGED <<issued, snapshot, loads, raced>>

tableRows == RowCount[screen.data.of][screen.data.file]

\* The buttons are there with two pages or more, and disabled at the ends.
setPage ==
  /\ screen.pane = "DataGrid"
  /\ pageCount(tableRows) > 1
  /\ \/ /\ grid.page # 0
        /\ grid' = [grid EXCEPT !.page = Max({0, @ - 1})]
     \/ /\ grid.page < pageCount(tableRows) - 1
        /\ grid' = [grid EXCEPT !.page = Min({pageCount(tableRows) - 1, @ + 1})]
  /\ UNCHANGED <<ui, issued, snapshot, fetchState, flights, loads, raced, kept>>

handleSort ==
  /\ screen.pane = "DataGrid"
  /\ \E i \in 1..Columns :
       grid' = IF grid.sortCol # i THEN [grid EXCEPT !.sortCol = i, !.sortDir = "asc"]
               ELSE [grid EXCEPT
                       !.sortCol = IF grid.sortDir = "desc" THEN 0 ELSE i,
                       !.sortDir = CASE @ = "asc"  -> "desc"
                                     [] @ = "desc" -> "none"
                                     [] OTHER      -> "asc"]
  /\ UNCHANGED <<ui, issued, snapshot, fetchState, flights, loads, raced, kept>>

Next ==
  \/ handleRun \/ onEnd \/ handleFileSelect \/ setActiveTab \/ handleReset \/ handleReconnect
  \/ setPage \/ handleSort
  \/ \E n \in 1..MaxLoads : Answer(n)

Spec == Init /\ [][Next]_vars

\* Every request is answered or runs into its timeout.
FairSpec == Spec /\ \A n \in 1..MaxLoads : WF_vars(Answer(n))

-----------------------------------------------------------------------------
\* The preview shows the file its tab is named after: content handed over by the
\* console is of that file, and fetched content is of that file and of the
\* current session.  The one exception is the race the code leaves open: the file
\* or the session changed while a request was still out.
ContentOfFile ==
  LET fetched == ui.content = Nothing /\ screen.pane # "ImageViewer" IN
  screen.data # Nothing =>
    \/ screen.data.file = ui.file /\ (fetched => screen.data.of = ui.session)
    \/ raced /\ fetched

\* The table on display has its page: the page has rows unless the table has
\* none, one can page on exactly while rows are left, and a column is marked
\* as sorted iff a direction is.  (A table that is replaced under the pager
\* keeps the page of the old one.)
GridConsistent ==
  screen.pane = "DataGrid" =>
    /\ grid.sortCol = 0 <=> grid.sortDir = "none"
    /\ ~kept => /\ tableRows > 0 => pageRows(tableRows, grid.page) # {}
                /\ (grid.page + 1) * PAGE_SIZE < tableRows
                     <=> pageCount(tableRows) > 1 /\ grid.page < pageCount(tableRows) - 1

\* What the viewers draw is what the file says: every line of a document once and
\* as what it is (MarkdownViewer), and every point of a chart in proportion
\* (ChartView).  They have no state of their own: looked at once, at the start.
ViewersFaithful == Init => MarkdownFaithful /\ BarsFaithful

\* "Loading" comes to an end, in the file or in an error, unless the user leaves.
\* (An icon the exit frame brought is neither shown nor fetched.)
LoadingEnds ==
  screen.pane = "LoadingPane" /\ ui.b64 = Nothing ~> screen.pane # "LoadingPane" \/ ui.b64 # Nothing
=============================================================================
