--------------------------- MODULE PreviewProofs ---------------------------
(***************************************************************************)
(* For every set of files, sessions and requests: the preview shows the    *)
(* file its tab is named after, except for the race that load leaves open. *)
(* For documents and series of any length: the table's page exists, the    *)
(* bars order as their values do, and Markdown loses no line.              *)
(***************************************************************************)
EXTENDS Preview, FiniteSetTheorems, WellFoundedInduction, TLAPS

\* The value a request for what is on display brings.
Wanted(u) == [of |-> u.session, file |-> u.file]

\* What the console handed over is of the file on display.
InlineOfFile ==
  /\ ui.content # Nothing => ui.content.file = ui.file
  /\ ui.b64 # Nothing => ui.b64.file = ui.file

\* Unless the effect ran with a request out, what is out or has arrived is for
\* the file and the session on display.
FetchedOfFile ==
  /\ ~Mounted(ui) => flights = {}
  /\ ~raced => \A r \in flights : r.value = Wanted(ui)
  /\ ~raced /\ fetchState.status = "ok" => fetchState.data = Wanted(ui)

Inv == InlineOfFile /\ FetchedOfFile

-----------------------------------------------------------------------------
LEMMA MaxOfTwo ==
  ASSUME NEW a \in Int, NEW b \in Int
  PROVE  Max({a, b}) \in {a, b}
  <1>1. \E x \in {a, b} : \A y \in {a, b} : x >= y OBVIOUS
  <1> QED BY <1>1 DEF Max

LEMMA MinOfTwo ==
  ASSUME NEW a \in Int, NEW b \in Int
  PROVE  Min({a, b}) \in {a, b}
  <1>1. \E x \in {a, b} : \A y \in {a, b} : x =< y OBVIOUS
  <1> QED BY <1>1 DEF Min

\* The types of the registry's own state, of the console's and of the table's.
RegistryOK ==
  /\ \/ fetchState \in [status : {"idle", "loading", "error"}, data : {Nothing}]
     \/ fetchState \in [status : {"ok"}, data : Values]
  /\ flights \subseteq [n : 1..MaxLoads, value : Values] /\ loads \in 0..MaxLoads
  /\ raced \in BOOLEAN

GridOK ==
  /\ kept \in BOOLEAN
  /\ grid \in [page : Nat, sortCol : 0..Columns, sortDir : {"none", "asc", "desc"}]

UiType == [session : 0..MaxSessions, tab : {"terminal", "preview"},
           file : Files \cup {NoFile},
           content : Values \cup {Nothing}, b64 : Values \cup {Nothing}]

ConsoleOK ==
  /\ ui \in UiType /\ issued \in 0..MaxSessions
  /\ snapshot \in [of : 0..MaxSessions, files : SUBSET Files]
  /\ snapshot.files # {} => snapshot.of # 0

LEMMA TypeParts ==
  /\ TypeOK <=> ConsoleOK /\ RegistryOK /\ GridOK
  /\ TypeOK' <=> ConsoleOK' /\ RegistryOK' /\ GridOK'
  BY DEF TypeOK, ConsoleOK, RegistryOK, GridOK, UiType

LEMMA RealValue ==
  ASSUME TypeOK, screen.pane = "DataGrid"
  PROVE  tableRows \in Nat
  <1>1. /\ Mounted(ui) /\ detectKind(ui.file) # "image"
        /\ screen.data = IF ui.content # Nothing THEN ui.content ELSE fetchState.data
        /\ ui.content # Nothing \/ fetchState.status = "ok"
    BY DEF screen, Screen, TypeOK
  <1>2. screen.data \in Values BY <1>1 DEF TypeOK
  <1> QED BY <1>2, PreviewAssumption DEF tableRows, Values, Sessions

LEMMA PageCountType ==
  ASSUME NEW rows \in Nat PROVE pageCount(rows) \in Nat
  BY PageAssumption DEF pageCount

LEMMA QuietType ==
  ASSUME NEW st \in {"idle", "loading", "error"}
  PROVE  State(st, Nothing) \in [status : {"idle", "loading", "error"}, data : {Nothing}]
  BY DEF State

LEMMA NoGridType ==
  NoGrid \in [page : Nat, sortCol : 0..Columns, sortDir : {"none", "asc", "desc"}]
  <1>1. 0 \in 0..Columns BY PreviewAssumption
  <1> QED BY <1>1 DEF NoGrid

LEMMA GridTypes ==
  ASSUME GridOK, Grid
  PROVE  GridOK'
  <1>1. kept' \in BOOLEAN BY DEF Grid
  <1>2. grid' \in {grid, NoGrid} BY DEF Grid
  <1>3. grid' \in [page : Nat, sortCol : 0..Columns, sortDir : {"none", "asc", "desc"}]
    BY <1>2, NoGridType DEF GridOK
  <1> QED BY <1>1, <1>3 DEF GridOK

\* A step of the console keeps the types of what it drives.
LEMMA ConsoleTypes ==
  ASSUME TypeOK, NEW u \in UiType, Console(u)
  PROVE  RegistryOK' /\ GridOK' /\ ui' \in UiType
  <1>1. ui' = u /\ Registry(u) /\ Grid BY DEF Console
  <1>2. GridOK'
    BY <1>1, GridTypes, TypeParts
  <1>3. CASE ~Mounted(u)
    <2>1. /\ fetchState' = State("idle", Nothing)
          /\ flights' = {} /\ loads' = 0 /\ raced' = FALSE
      BY <1>1, <1>3 DEF Registry
    <2>2. 0 \in 0..MaxLoads BY PreviewAssumption
    <2>3. fetchState' \in [status : {"idle", "loading", "error"}, data : {Nothing}]
      BY <2>1, QuietType
    <2>4. RegistryOK' BY <2>1, <2>2, <2>3 DEF RegistryOK
    <2> QED BY <1>1, <1>2, <2>4
  <1>4. CASE Mounted(u) /\ Deps(u) # Deps(ui)
    <2>1. Effect(u) BY <1>1, <1>4 DEF Registry
    <2>2. raced' \in BOOLEAN BY <2>1 DEF Effect
    <2>3. CASE UNCHANGED <<flights, loads>>
      <3>1. fetchState' \in {State("idle", Nothing), State("error", Nothing), State("loading", Nothing)}
        BY <2>1 DEF Effect
      <3> QED BY <1>1, <1>2, <2>2, <2>3, <3>1 DEF RegistryOK, TypeOK, State
    <2>4. CASE /\ u.session # 0 /\ loads < MaxLoads /\ loads' = loads + 1
               /\ fetchState' = State("loading", Nothing)
               /\ flights' = flights \cup
                    {[n |-> loads + 1, value |-> [of |-> u.session, file |-> u.file]]}
      <3>1. [of |-> u.session, file |-> u.file] \in Values
        BY <1>4, <2>4, PreviewAssumption DEF Values, Sessions, UiType, Mounted
      <3>2. loads + 1 \in 1..MaxLoads BY <2>4, PreviewAssumption DEF TypeOK
      <3>3. flights' \subseteq [n : 1..MaxLoads, value : Values]
        BY <2>4, <3>1, <3>2 DEF TypeOK
      <3>4. loads' \in 0..MaxLoads BY <2>4, <3>2
      <3>5. fetchState' \in [status : {"idle", "loading", "error"}, data : {Nothing}]
        BY <2>4 DEF State
      <3> QED BY <1>1, <1>2, <2>2, <3>3, <3>4, <3>5 DEF RegistryOK
    <2> QED BY <2>1, <2>3, <2>4 DEF Effect
  <1>5. CASE Mounted(u) /\ Deps(u) = Deps(ui)
    <2>1. UNCHANGED <<fetchState, flights, loads, raced>> BY <1>1, <1>5 DEF Registry
    <2> QED BY <1>1, <1>2, <2>1 DEF RegistryOK, TypeOK
  <1> QED BY <1>3, <1>4, <1>5

LEMMA InitTypes == Init => TypeOK
  <1> SUFFICES ASSUME Init PROVE TypeOK OBVIOUS
  <1>1. ConsoleOK BY PreviewAssumption DEF Init, ConsoleOK, UiType
  <1>2. RegistryOK
    <2>1. 0 \in 0..MaxLoads BY PreviewAssumption
    <2> QED BY <2>1, QuietType DEF Init, RegistryOK
  <1>3. GridOK BY NoGridType DEF Init, GridOK
  <1> QED BY <1>1, <1>2, <1>3, TypeParts

LEMMA NextTypes ==
  ASSUME TypeOK, [Next]_vars
  PROVE  TypeOK'
  <1>0. ui \in UiType BY DEF UiType, TypeOK
  <1>a. ConsoleOK /\ RegistryOK /\ GridOK BY TypeParts
  <1>1. CASE handleRun
    <2> DEFINE u == [ui EXCEPT !.session = issued + 1, !.tab = "terminal"]
    <2>1. Console(u) /\ issued' = issued + 1 /\ issued < MaxSessions /\ snapshot' = snapshot
      BY <1>1 DEF handleRun
    <2>2. issued + 1 \in 0..MaxSessions BY <2>1, PreviewAssumption DEF TypeOK
    <2>3. u \in UiType BY <1>0, <2>2 DEF UiType
    <2> HIDE DEF u
    <2>4. RegistryOK' /\ GridOK' /\ ui' \in UiType BY <2>1, <2>3, ConsoleTypes
    <2> QED BY <2>1, <2>2, <2>4, TypeParts, <1>a DEF ConsoleOK
  <1>2. CASE onEnd
    <2>1. /\ ui.session # 0
          /\ \E fs \in Snapshots \ {{}} : snapshot' = [of |-> ui.session, files |-> fs]
          /\ UNCHANGED <<ui, issued, fetchState, flights, loads, raced, grid, kept>>
      BY <1>2 DEF onEnd
    <2>2. ConsoleOK' BY <1>0, <1>a, <2>1, PreviewAssumption DEF ConsoleOK, UiType
    <2>3. RegistryOK' /\ GridOK' BY <1>a, <2>1 DEF RegistryOK, GridOK
    <2> QED BY <2>2, <2>3, TypeParts
  <1>3. CASE handleFileSelect
    <2>1. PICK f \in Listed :
            LET value == [of |-> snapshot.of, file |-> f]
                image == Ext[f] \in {"image", "icon"}
            IN  Console([ui EXCEPT !.file = f, !.tab = "preview",
                           !.b64     = IF Inline(f) /\ image THEN value ELSE Nothing,
                           !.content = IF Inline(f) /\ ~image THEN value ELSE Nothing])
      BY <1>3 DEF handleFileSelect
    <2> DEFINE value == [of |-> snapshot.of, file |-> f]
               image == Ext[f] \in {"image", "icon"}
               u     == [ui EXCEPT !.file = f, !.tab = "preview",
                           !.b64     = IF Inline(f) /\ image THEN value ELSE Nothing,
                           !.content = IF Inline(f) /\ ~image THEN value ELSE Nothing]
    <2>2. Console(u) /\ UNCHANGED <<issued, snapshot>> BY <1>3, <2>1 DEF handleFileSelect
    <2>3. f \in Files BY DEF Listed, TypeOK
    <2>4. Inline(f) => value \in Values
      BY <2>3, PreviewAssumption DEF Inline, Values, Sessions, TypeOK
    <2>5. u \in UiType BY <1>0, <2>3, <2>4 DEF UiType
    <2> HIDE DEF u
    <2>6. RegistryOK' /\ GridOK' /\ ui' \in UiType BY <2>2, <2>5, ConsoleTypes
    <2> QED BY <2>2, <2>6, TypeParts, <1>a DEF ConsoleOK
  <1>4. CASE setActiveTab
    <2>1. PICK t \in {"terminal", "preview"} : Console([ui EXCEPT !.tab = t])
      BY <1>4 DEF setActiveTab
    <2>2. [ui EXCEPT !.tab = t] \in UiType BY <1>0 DEF UiType
    <2>3. RegistryOK' /\ GridOK' /\ ui' \in UiType BY <2>1, <2>2, ConsoleTypes
    <2> QED BY <1>4, <2>3, TypeParts, <1>a DEF ConsoleOK, setActiveTab
  <1>5. CASE handleReset
    <2> DEFINE u == [session |-> 0, tab |-> "terminal", file |-> NoFile,
                     content |-> Nothing, b64 |-> Nothing]
    <2>1. Console(u) BY <1>5 DEF handleReset
    <2>2. u \in UiType BY PreviewAssumption DEF UiType
    <2> HIDE DEF u
    <2>3. RegistryOK' /\ GridOK' /\ ui' \in UiType BY <2>1, <2>2, ConsoleTypes
    <2> QED BY <1>5, <2>3, TypeParts, <1>a, PreviewAssumption DEF ConsoleOK, handleReset
  <1>6. CASE handleReconnect
    <2>1. Console([ui EXCEPT !.session = 0]) BY <1>6 DEF handleReconnect
    <2>0. 0 \in 0..MaxSessions BY PreviewAssumption
    <2>2. [ui EXCEPT !.session = 0] \in UiType BY <1>0, <2>0 DEF UiType
    <2>3. RegistryOK' /\ GridOK' /\ ui' \in UiType BY <2>1, <2>2, ConsoleTypes
    <2> QED BY <1>6, <2>3, TypeParts, <1>a DEF ConsoleOK, handleReconnect
  <1>7. CASE setPage
    <2>1. tableRows \in Nat BY <1>7, RealValue DEF setPage
    <2>2. pageCount(tableRows) \in Nat /\ pageCount(tableRows) > 1
      BY <1>7, <2>1, PageCountType DEF setPage
    <2>3. PICK p : /\ grid' = [grid EXCEPT !.page = p]
                   /\ \/ p = Max({0, grid.page - 1})
                      \/ p = Min({pageCount(tableRows) - 1, grid.page + 1})
                   /\ grid.page # 0 \/ p = Min({pageCount(tableRows) - 1, grid.page + 1})
      BY <1>7 DEF setPage
    <2>4. grid.page \in Nat BY DEF TypeOK
    <2>5. p \in Nat
      <3>1. CASE p = Min({pageCount(tableRows) - 1, grid.page + 1})
        <4>1. p \in {pageCount(tableRows) - 1, grid.page + 1}
          BY <2>2, <2>4, <3>1, MinOfTwo
        <4> QED BY <2>2, <2>4, <4>1
      <3>2. CASE p = Max({0, grid.page - 1}) /\ grid.page # 0
        <4>1. p \in {0, grid.page - 1} BY <2>4, <3>2, MaxOfTwo
        <4> QED BY <2>4, <3>2, <4>1
      <3> QED BY <2>3, <3>1, <3>2
    <2>6. GridOK' BY <1>7, <1>a, <2>3, <2>5 DEF setPage, GridOK
    <2>7. ConsoleOK' /\ RegistryOK' BY <1>7, <1>a DEF setPage, ConsoleOK, RegistryOK
    <2> QED BY <2>6, <2>7, TypeParts
  <1>8. CASE handleSort
    <2>1. PICK i \in 1..Columns :
            grid' = IF grid.sortCol # i THEN [grid EXCEPT !.sortCol = i, !.sortDir = "asc"]
                    ELSE [grid EXCEPT
                            !.sortCol = IF grid.sortDir = "desc" THEN 0 ELSE i,
                            !.sortDir = CASE @ = "asc"  -> "desc"
                                          [] @ = "desc" -> "none"
                                          [] OTHER      -> "asc"]
      BY <1>8 DEF handleSort
    <2>2. grid' \in [page : Nat, sortCol : 0..Columns, sortDir : {"none", "asc", "desc"}]
      <3>1. grid \in [page : Nat, sortCol : 0..Columns, sortDir : {"none", "asc", "desc"}]
        BY DEF TypeOK
      <3>2. CASE grid.sortCol # i
        <4>1. grid' = [grid EXCEPT !.sortCol = i, !.sortDir = "asc"] BY <2>1, <3>2
        <4>2. i \in 0..Columns BY PreviewAssumption
        <4> QED BY <3>1, <4>1, <4>2
      <3>3. CASE grid.sortCol = i
        <4> DEFINE d == CASE grid.sortDir = "asc"  -> "desc"
                          [] grid.sortDir = "desc" -> "none"
                          [] OTHER                 -> "asc"
                   c == IF grid.sortDir = "desc" THEN 0 ELSE i
        <4>1. grid' = [grid EXCEPT !.sortCol = c, !.sortDir = d] BY <2>1, <3>3
        <4>2. d \in {"none", "asc", "desc"} OBVIOUS
        <4>3. c \in 0..Columns BY PreviewAssumption
        <4> HIDE DEF c, d
        <4> QED BY <3>1, <4>1, <4>2, <4>3
      <3> QED BY <3>2, <3>3
    <2>3. GridOK' BY <1>8, <1>a, <2>2 DEF handleSort, GridOK
    <2>4. ConsoleOK' /\ RegistryOK' BY <1>8, <1>a DEF handleSort, ConsoleOK, RegistryOK
    <2> QED BY <2>3, <2>4, TypeParts
  <1>9. ASSUME NEW n \in 1..MaxLoads, Answer(n) PROVE TypeOK'
    <2>1. PICK r \in flights : /\ flights' = flights \ {r}
                               /\ fetchState' \in fetchFileContent(r)
      BY <1>9 DEF Answer
    <2>2. Grid /\ UNCHANGED <<ui, issued, snapshot, loads, raced>> BY <1>9 DEF Answer
    <2>3. GridOK' BY <1>a, <2>2, GridTypes
    <2>4. r.value \in Values BY <1>a DEF RegistryOK
    <2>5. RegistryOK' BY <1>a, <2>1, <2>2, <2>4 DEF RegistryOK, fetchFileContent, State
    <2>6. ConsoleOK' BY <1>a, <2>2 DEF ConsoleOK, UiType
    <2> QED BY <2>3, <2>5, <2>6, TypeParts
  <1>10. CASE UNCHANGED vars BY <1>10 DEF vars, TypeOK
  <1> QED BY <1>1, <1>2, <1>3, <1>4, <1>5, <1>6, <1>7, <1>8, <1>9, <1>10 DEF Next

-----------------------------------------------------------------------------
LEMMA InitInv == Init => Inv
  BY DEF Init, Inv, InlineOfFile, FetchedOfFile, Mounted, State

\* A step of the console: whatever the registry does with the new props, what it
\* then holds is for them.
LEMMA ConsoleKeeps ==
  ASSUME Inv, NEW u, Console(u)
  PROVE  FetchedOfFile'
  <1>1. ui' = u /\ Registry(u) BY DEF Console
  <1>2. CASE ~Mounted(u)
    <2>1. /\ fetchState' = State("idle", Nothing) /\ flights' = {}
      BY <1>1, <1>2 DEF Registry
    <2> QED BY <1>1, <2>1 DEF FetchedOfFile, State
  <1>3. CASE Mounted(u) /\ Deps(u) # Deps(ui)
    <2>1. Effect(u) BY <1>1, <1>3 DEF Registry
    <2>2. raced' = (flights # {}) BY <2>1 DEF Effect
    <2>3. fetchState'.status # "ok" BY <2>1 DEF Effect, State
    <2>4. ASSUME ~raced', NEW r \in flights' PROVE r.value = Wanted(u)
      <3>1. flights = {} BY <2>2, <2>4
      <3>2. r = [n |-> loads + 1, value |-> Wanted(u)] BY <2>1, <2>4, <3>1 DEF Effect, Wanted
      <3> QED BY <3>2
    <2> QED BY <1>1, <1>3, <2>3, <2>4 DEF FetchedOfFile, Wanted, Mounted
  <1>4. CASE Mounted(u) /\ Deps(u) = Deps(ui)
    <2>1. UNCHANGED <<fetchState, flights, raced>>
      BY <1>1, <1>4 DEF Registry
    <2>2. Mounted(ui) /\ u.session = ui.session /\ u.file = ui.file
      BY <1>4 DEF Deps
    <2>3. Wanted(u) = Wanted(ui) BY <2>2 DEF Wanted
    <2> QED BY <1>1, <1>4, <2>1, <2>3 DEF Inv, FetchedOfFile, Wanted, Mounted
  <1> QED BY <1>2, <1>3, <1>4

LEMMA NextKeeps ==
  ASSUME Inv, TypeOK, [Next]_vars
  PROVE  Inv'
  <1> USE DEF TypeOK
  <1>1. CASE handleRun
    <2>1. ui' = [ui EXCEPT !.session = issued + 1, !.tab = "terminal"]
      BY <1>1 DEF handleRun, Console
    <2>2. InlineOfFile' BY <2>1 DEF Inv, InlineOfFile
    <2> QED BY <1>1, <2>2, ConsoleKeeps DEF handleRun, Inv
  <1>2. CASE onEnd
    BY <1>2 DEF onEnd, Inv, InlineOfFile, FetchedOfFile, Wanted, Mounted
  <1>3. CASE handleFileSelect
    <2>1. PICK f \in Listed :
            LET value == [of |-> snapshot.of, file |-> f]
                image == Ext[f] \in {"image", "icon"}
            IN  Console([ui EXCEPT !.file = f, !.tab = "preview",
                           !.b64     = IF Inline(f) /\ image THEN value ELSE Nothing,
                           !.content = IF Inline(f) /\ ~image THEN value ELSE Nothing])
      BY <1>3 DEF handleFileSelect
    <2> DEFINE value == [of |-> snapshot.of, file |-> f]
               image == Ext[f] \in {"image", "icon"}
               u     == [ui EXCEPT !.file = f, !.tab = "preview",
                           !.b64     = IF Inline(f) /\ image THEN value ELSE Nothing,
                           !.content = IF Inline(f) /\ ~image THEN value ELSE Nothing]
    <2>2. Console(u) BY <2>1
    <2>3. ui' = u BY <2>2 DEF Console
    <2>4. /\ u.file = f /\ value.file = f
          /\ u.b64 \in {value, Nothing} /\ u.content \in {value, Nothing}
      OBVIOUS
    <2>5. InlineOfFile' BY <2>3, <2>4 DEF InlineOfFile
    <2> HIDE DEF u
    <2>6. FetchedOfFile' BY <2>2, ConsoleKeeps
    <2> QED BY <2>5, <2>6 DEF Inv
  <1>4. CASE setActiveTab
    <2>1. PICK t \in {"terminal", "preview"} : Console([ui EXCEPT !.tab = t])
      BY <1>4 DEF setActiveTab
    <2>2. ui' = [ui EXCEPT !.tab = t] BY <2>1 DEF Console
    <2>3. InlineOfFile' BY <2>2 DEF Inv, InlineOfFile
    <2> QED BY <2>1, <2>3, ConsoleKeeps DEF Inv
  <1>5. CASE handleReset
    <2> DEFINE u == [session |-> 0, tab |-> "terminal", file |-> NoFile,
                     content |-> Nothing, b64 |-> Nothing]
    <2>1. Console(u) BY <1>5 DEF handleReset
    <2>2. ui' = u BY <2>1 DEF Console
    <2>3. InlineOfFile' BY <2>2 DEF InlineOfFile
    <2> QED BY <2>1, <2>3, ConsoleKeeps DEF Inv
  <1>6. CASE handleReconnect
    <2>1. Console([ui EXCEPT !.session = 0]) BY <1>6 DEF handleReconnect
    <2>2. ui' = [ui EXCEPT !.session = 0] BY <2>1 DEF Console
    <2>3. InlineOfFile' BY <2>2 DEF Inv, InlineOfFile
    <2> QED BY <2>1, <2>3, ConsoleKeeps DEF Inv
  <1>7. CASE setPage \/ handleSort
    <2>1. UNCHANGED <<ui, fetchState, flights, raced>> BY <1>7 DEF setPage, handleSort
    <2>2. InlineOfFile' BY <2>1 DEF Inv, InlineOfFile
    <2>3. FetchedOfFile' BY <2>1 DEF Inv, FetchedOfFile, Wanted, Mounted
    <2> QED BY <2>2, <2>3 DEF Inv
  <1>8. ASSUME NEW n \in 1..MaxLoads, Answer(n) PROVE Inv'
    <2>1. PICK r \in flights : /\ flights' = flights \ {r}
                               /\ fetchState' \in fetchFileContent(r)
      BY <1>8 DEF Answer
    <2>2. ui' = ui /\ raced' = raced BY <1>8 DEF Answer
    <2>3. fetchState'.status = "ok" => fetchState'.data = r.value
      BY <2>1 DEF fetchFileContent, State
    <2> QED BY <2>1, <2>2, <2>3 DEF Inv, InlineOfFile, FetchedOfFile, Wanted, Mounted
  <1>9. CASE UNCHANGED vars
    BY <1>9 DEF vars, Inv, InlineOfFile, FetchedOfFile, Wanted, Mounted
  <1> QED BY <1>1, <1>2, <1>3, <1>4, <1>5, <1>6, <1>7, <1>8, <1>9 DEF Next

LEMMA InvSuffices ==
  ASSUME TypeOK, Inv PROVE ContentOfFile
  <1> DEFINE fetched == ui.content = Nothing /\ screen.pane # "ImageViewer"
  <1> SUFFICES ASSUME screen.data # Nothing
               PROVE  \/ screen.data.file = ui.file /\ (fetched => screen.data.of = ui.session)
                      \/ raced /\ fetched
    BY DEF ContentOfFile
  <1>1. Mounted(ui) BY DEF screen, Screen
  <1>2. CASE detectKind(ui.file) = "image"
    <2>1. screen.pane = "ImageViewer" /\ screen.data = Image(ui)
      BY <1>1, <1>2 DEF screen, Screen
    <2>2. screen.data.file = ui.file BY <2>1 DEF Image, Inv, InlineOfFile
    <2> QED BY <2>1, <2>2
  <1>3. CASE detectKind(ui.file) # "image" /\ ui.content # Nothing
    <2>1. screen.data = ui.content BY <1>1, <1>3 DEF screen, Screen
    <2> QED BY <1>3, <2>1 DEF Inv, InlineOfFile
  <1>4. CASE detectKind(ui.file) # "image" /\ ui.content = Nothing
    <2>1. fetchState.status = "ok" /\ screen.data = fetchState.data
      BY <1>1, <1>4 DEF screen, Screen, TypeOK
    <2>2. screen.pane = Viewer(detectKind(ui.file))
      BY <1>1, <1>4, <2>1 DEF screen, Screen
    <2>3. screen.pane # "ImageViewer" BY <2>2 DEF Viewer, WasmInspector
    <2>4. CASE ~raced
      <3>1. screen.data = Wanted(ui) BY <2>1, <2>4 DEF Inv, FetchedOfFile
      <3> QED BY <3>1 DEF Wanted
    <2> QED BY <1>4, <2>3, <2>4
  <1> QED BY <1>2, <1>3, <1>4

\* Type correctness: what is on display is a file of a session that was started,
\* and the page of a table is a number.
THEOREM TypeCorrect == Spec => []TypeOK
  BY InitTypes, NextTypes, PTL DEF Spec

\* The preview shows the file its tab is named after, unless a request was out
\* when the file or the session changed: the exact extent of the race in load.
THEOREM ContentOfFileHolds == Spec => []ContentOfFile
  <1>1. Init => Inv BY InitInv
  <1>2. TypeOK /\ Inv /\ [Next]_vars => Inv' BY NextKeeps
  <1>3. TypeOK /\ Inv => ContentOfFile BY InvSuffices
  <1> QED BY <1>1, <1>2, <1>3, TypeCorrect, PTL DEF Spec
-----------------------------------------------------------------------------
(***************************************************************************)
(* The pages of a table.                                                   *)
(***************************************************************************)
\* A column is marked as sorted iff a direction is, and the page of a table that
\* was not replaced under the pager is one of its pages.
GridInv ==
  screen.pane = "DataGrid" =>
    /\ grid.sortCol = 0 <=> grid.sortDir = "none"
    /\ ~kept => grid.page = 0 \/ grid.page < pageCount(tableRows)

LEMMA Product ==
  ASSUME NEW a \in Int, NEW b \in Int, NEW m \in Nat, a <= b
  PROVE  a * m \in Int /\ b * m \in Int /\ a * m <= b * m
  OBVIOUS

\* pageCount is the number of pages: the last one begins before the last row.
LEMMA Between ==
  ASSUME NEW a \in Int, NEW b \in Int, NEW c \in Int, a <= b
  PROVE  (b < c => a < c) /\ ~(c <= a /\ b < c)
  OBVIOUS

LEMMA PagesCover ==
  ASSUME NEW rows \in Nat
  PROVE  /\ pageCount(rows) \in Nat
         /\ (pageCount(rows) - 1) * PAGE_SIZE < rows
         /\ rows <= pageCount(rows) * PAGE_SIZE
  <1>1. PAGE_SIZE \in Nat /\ PAGE_SIZE > 0 BY PageAssumption
  <1> DEFINE a == rows + PAGE_SIZE - 1
             d == a \div PAGE_SIZE
  <1>2. a \in Nat BY <1>1
  <1>3. d \in Nat /\ d * PAGE_SIZE <= a /\ a < d * PAGE_SIZE + PAGE_SIZE
    <2> HIDE DEF a
    <2> QED BY <1>1, <1>2
  <1>4. pageCount(rows) = d BY DEF pageCount
  <1> HIDE DEF d
  <1>5. (d - 1) * PAGE_SIZE = d * PAGE_SIZE - PAGE_SIZE BY <1>1, <1>3
  <1>6. d * PAGE_SIZE \in Nat BY <1>1, <1>3
  <1> QED BY <1>1, <1>3, <1>4, <1>5, <1>6

LEMMA PageThere ==
  ASSUME NEW rows \in Nat, NEW page \in Nat, page = 0 \/ page < pageCount(rows)
  PROVE  /\ rows > 0 => pageRows(rows, page) # {}
         /\ (page + 1) * PAGE_SIZE < rows <=> pageCount(rows) > 1 /\ page < pageCount(rows) - 1
  <1> DEFINE pc == pageCount(rows)
             top == page * PAGE_SIZE
  <1>1. PAGE_SIZE \in Nat /\ PAGE_SIZE > 0 BY PageAssumption
  <1>2. pc \in Nat /\ (pc - 1) * PAGE_SIZE < rows /\ rows <= pc * PAGE_SIZE BY PagesCover
  <1>3. top \in Nat /\ (page + 1) * PAGE_SIZE = top + PAGE_SIZE BY <1>1
  <1>4. rows > 0 => top < rows
    <2>1. CASE page = 0 BY <1>1, <2>1
    <2>2. CASE page < pc
      <3>1. page <= pc - 1 BY <1>2, <2>2
      <3>2. top <= (pc - 1) * PAGE_SIZE /\ (pc - 1) * PAGE_SIZE \in Int
        <4> HIDE DEF pc
        <4> QED BY <1>1, <1>2, <3>1, Product
      <3> QED BY <1>2, <1>3, <3>2
    <2> QED BY <2>1, <2>2
  <1>5. ASSUME rows > 0 PROVE pageRows(rows, page) # {}
    <2>1. top \in 0..(rows - 1) BY <1>3, <1>4, <1>5
    <2>2. top <= top /\ top < (page + 1) * PAGE_SIZE BY <1>1, <1>3
    <2>3. top \in pageRows(rows, page) BY <2>1, <2>2 DEF pageRows
    <2> QED BY <2>3
  <1>6. ASSUME (page + 1) * PAGE_SIZE < rows PROVE pc > 1 /\ page < pc - 1
    <2>1. ~(pc <= page + 1)
      <3> SUFFICES ASSUME pc <= page + 1 PROVE FALSE OBVIOUS
      <3>1. /\ pc * PAGE_SIZE <= (page + 1) * PAGE_SIZE
            /\ pc * PAGE_SIZE \in Int /\ (page + 1) * PAGE_SIZE \in Int
        <4> HIDE DEF pc
        <4> QED BY <1>1, <1>2, Product
      <3>2. rows \in Int OBVIOUS
      <3> QED BY <1>2, <1>6, <3>1, <3>2, Between, Zenon
    <2> QED BY <1>2, <2>1
  <1>7. ASSUME pc > 1, page < pc - 1 PROVE (page + 1) * PAGE_SIZE < rows
    <2>1. page + 1 <= pc - 1 BY <1>2, <1>7
    <2>2. /\ (page + 1) * PAGE_SIZE <= (pc - 1) * PAGE_SIZE
          /\ (page + 1) * PAGE_SIZE \in Int /\ (pc - 1) * PAGE_SIZE \in Int
      <3> HIDE DEF pc
      <3> QED BY <1>1, <1>2, <2>1, Product
    <2>3. rows \in Int OBVIOUS
    <2> QED BY <1>2, <2>2, <2>3, Between, Zenon
  <1> QED BY <1>5, <1>6, <1>7

\* A step that leaves the table alone keeps the invariant; a new table starts afresh.
LEMMA GridKeeps ==
  ASSUME GridInv, Grid PROVE GridInv'
  <1>1. screen' = Screen(ui', fetchState') BY DEF screen
  <1> SUFFICES ASSUME screen'.pane = "DataGrid"
               PROVE  /\ grid'.sortCol = 0 <=> grid'.sortDir = "none"
                      /\ ~kept' => grid'.page = 0 \/ grid'.page < pageCount(tableRows)'
    BY DEF GridInv
  <1>2. CASE screen.pane = "DataGrid"
    <2>1. grid' = grid /\ kept' = (kept \/ screen.data # screen'.data)
      BY <1>1, <1>2 DEF Grid
    <2>2. ~kept' => ~kept /\ tableRows' = tableRows BY <2>1 DEF tableRows
    <2> QED BY <1>2, <2>1, <2>2 DEF GridInv, pageCount
  <1>3. CASE screen.pane # "DataGrid"
    <2>1. grid' = NoGrid BY <1>1, <1>3 DEF Grid
    <2> QED BY <2>1 DEF NoGrid
  <1> QED BY <1>2, <1>3

LEMMA NextGrid ==
  ASSUME TypeOK, GridInv, [Next]_vars PROVE GridInv'
  <1>1. CASE handleRun \/ handleFileSelect \/ setActiveTab \/ handleReset \/ handleReconnect
    <2>1. Grid
      BY <1>1 DEF handleRun, handleFileSelect, setActiveTab, handleReset, handleReconnect, Console
    <2> QED BY <2>1, GridKeeps
  <1>2. ASSUME NEW n \in 1..MaxLoads, Answer(n) PROVE GridInv'
    BY <1>2, GridKeeps DEF Answer
  <1>3. CASE onEnd \/ UNCHANGED vars
    <2>1. UNCHANGED <<ui, fetchState, grid, kept>> BY <1>3 DEF onEnd, vars
    <2>2. screen' = screen BY <2>1 DEF screen
    <2> QED BY <2>1, <2>2 DEF GridInv, tableRows, pageCount
  <1>4. CASE setPage
    <2>1. tableRows \in Nat BY <1>4, RealValue DEF setPage
    <2> DEFINE pc == pageCount(tableRows)
    <2>2. pc \in Nat /\ pc > 1 BY <1>4, <2>1, PageCountType DEF setPage
    <2>3. grid \in [page : Nat, sortCol : 0..Columns, sortDir : {"none", "asc", "desc"}]
      BY DEF TypeOK
    <2>4. screen' = screen /\ tableRows' = tableRows /\ kept' = kept
      BY <1>4 DEF setPage, screen, tableRows
    <2>5. PICK p : /\ grid' = [grid EXCEPT !.page = p]
                   /\ \/ grid.page # 0 /\ p = Max({0, grid.page - 1})
                      \/ p = Min({pc - 1, grid.page + 1})
      BY <1>4 DEF setPage
    <2> HIDE DEF pc
    <2>6. p = Min({pc - 1, grid.page + 1}) => p < pc
      <3> SUFFICES ASSUME p = Min({pc - 1, grid.page + 1}) PROVE p < pc OBVIOUS
      <3>1. \E x \in {pc - 1, grid.page + 1} : \A y \in {pc - 1, grid.page + 1} : x =< y
        BY <2>2, <2>3
      <3>2. p <= pc - 1 /\ p \in {pc - 1, grid.page + 1} BY <3>1 DEF Min
      <3> QED BY <2>2, <2>3, <3>2
    <2>7. grid.page # 0 /\ p = Max({0, grid.page - 1}) => p = grid.page - 1 \/ p = 0
      BY <2>3, MaxOfTwo
    <2>8. grid'.page = p /\ grid'.sortCol = grid.sortCol /\ grid'.sortDir = grid.sortDir
      BY <2>3, <2>5
    <2>9. screen.pane = "DataGrid" BY <1>4 DEF setPage
    <2>10. ~kept => p = 0 \/ p < pc
      BY <2>2, <2>3, <2>5, <2>6, <2>7, <2>9 DEF GridInv, pc
    <2>11. pageCount(tableRows)' = pc BY <2>4 DEF pc, pageCount
    <2> QED BY <2>4, <2>8, <2>9, <2>10, <2>11 DEF GridInv
  <1>5. CASE handleSort
    <2>1. PICK i \in 1..Columns :
            grid' = IF grid.sortCol # i THEN [grid EXCEPT !.sortCol = i, !.sortDir = "asc"]
                    ELSE [grid EXCEPT
                            !.sortCol = IF grid.sortDir = "desc" THEN 0 ELSE i,
                            !.sortDir = CASE @ = "asc"  -> "desc"
                                          [] @ = "desc" -> "none"
                                          [] OTHER      -> "asc"]
      BY <1>5 DEF handleSort
    <2>2. grid \in [page : Nat, sortCol : 0..Columns, sortDir : {"none", "asc", "desc"}] /\ i # 0
      BY PreviewAssumption DEF TypeOK
    <2>3. screen' = screen /\ tableRows' = tableRows /\ kept' = kept /\ screen.pane = "DataGrid"
      BY <1>5 DEF handleSort, screen, tableRows
    <2>4. grid'.page = grid.page /\ (grid'.sortCol = 0 <=> grid'.sortDir = "none")
      <3>1. CASE grid.sortCol # i BY <2>1, <2>2, <3>1
      <3>2. CASE grid.sortCol = i
        <4>1. grid.sortDir \in {"asc", "desc"} BY <2>2, <2>3, <3>2 DEF GridInv
        <4> QED BY <2>1, <2>2, <3>2, <4>1
      <3> QED BY <3>1, <3>2
    <2>5. pageCount(tableRows)' = pageCount(tableRows) BY <2>3 DEF pageCount
    <2> QED BY <2>3, <2>4, <2>5 DEF GridInv
  <1> QED BY <1>1, <1>2, <1>3, <1>4, <1>5 DEF Next

\* The table on display has its page, the pager ends where the rows do, and the
\* sort mark and direction agree, for every page size and every set of tables.
THEOREM GridHolds == Spec => []GridConsistent
  <1>1. Init => GridInv
    BY DEF Init, GridInv, screen, Screen, Mounted
  <1>2. TypeOK /\ GridInv /\ [Next]_vars => GridInv' BY NextGrid
  <1>3. TypeOK /\ GridInv => GridConsistent
    <2> SUFFICES ASSUME TypeOK, GridInv, screen.pane = "DataGrid"
                 PROVE  /\ grid.sortCol = 0 <=> grid.sortDir = "none"
                        /\ ~kept => /\ tableRows > 0 => pageRows(tableRows, grid.page) # {}
                                    /\ (grid.page + 1) * PAGE_SIZE < tableRows
                                         <=> pageCount(tableRows) > 1 /\ grid.page < pageCount(tableRows) - 1
      BY DEF GridConsistent
    <2>1. tableRows \in Nat /\ grid.page \in Nat BY RealValue DEF TypeOK
    <2> QED BY <2>1, PageThere DEF GridInv
  <1> QED BY <1>1, <1>2, <1>3, TypeCorrect, PTL DEF Spec
-----------------------------------------------------------------------------
(***************************************************************************)
(* The bars of a chart.                                                    *)
(***************************************************************************)
\* Every set of natural numbers has a least one.
LEMMA LeastNumber ==
  ASSUME NEW T, T \subseteq Nat, T # {}
  PROVE  \E x \in T : \A y \in T : x <= y
  <1> DEFINE R == {ss \in Nat \X Nat : ss[1] < ss[2]}
  <1>1. IsWellFoundedOn(R, Nat) BY NatLessThanWellFounded DEF OpToRel
  <1>2. PICK x \in T : \A y \in T : ~(<<y, x>> \in R)
    <2> HIDE DEF R
    <2> QED BY <1>1, WFMin
  <1>3. ASSUME NEW y \in T PROVE x <= y
    <2>1. ~(<<y, x>> \in R) BY <1>2
    <2>2. <<y, x>> \in Nat \X Nat /\ <<y, x>>[1] = y /\ <<y, x>>[2] = x BY Zenon
    <2>3. ~(y < x) BY <2>1, <2>2
    <2>4. x \in Int /\ y \in Int OBVIOUS
    <2> QED BY <2>3, <2>4
  <1> QED BY <1>3

LEMMA Induct ==
  ASSUME NEW S, 0 \in S, \A n \in Nat : n \in S => n + 1 \in S
  PROVE  Nat \subseteq S
  <1> SUFFICES ASSUME Nat \ S # {} PROVE FALSE OBVIOUS
  <1>1. PICK x \in Nat \ S : \A y \in Nat \ S : x <= y
    <2> DEFINE T == Nat \ S
    <2>1. T \subseteq Nat /\ T # {} OBVIOUS
    <2> HIDE DEF T
    <2>2. \E x \in T : \A y \in T : x <= y BY <2>1, LeastNumber
    <2> QED BY <2>2 DEF T
  <1>2. x # 0 OBVIOUS
  <1>3. x - 1 \in Nat /\ ~(x <= x - 1) /\ (x - 1) + 1 = x BY <1>2
  <1>4. x - 1 \in S BY <1>1, <1>3
  <1> QED BY <1>3, <1>4

LEMMA LeastOf ==
  ASSUME NEW S, S \subseteq Int, S # {}, NEW b \in Int, \A x \in S : b <= x
  PROVE  Min(S) \in S /\ \A y \in S : Min(S) <= y
  <1> DEFINE T == {x - b : x \in S}
  <1>1. T \subseteq Nat /\ T # {}
    <2>1. \A x \in S : x - b \in Nat OBVIOUS
    <2> QED BY <2>1, Zenon
  <1>2. PICK t \in T : \A u \in T : t <= u
    <2> HIDE DEF T
    <2> QED BY <1>1, LeastNumber
  <1>3. PICK x \in S : t = x - b BY <1>2
  <1>4. ASSUME NEW y \in S PROVE x <= y
    <2>1. y - b \in T OBVIOUS
    <2>2. x - b <= y - b BY <1>2, <1>3, <2>1
    <2> QED BY <2>2
  <1>5. \E z \in S : \A y \in S : z <= y BY <1>4
  <1> QED BY <1>5 DEF Min

LEMMA GreatestOf ==
  ASSUME NEW S, S \subseteq Int, S # {}, NEW b \in Int, \A x \in S : x <= b
  PROVE  Max(S) \in S /\ \A y \in S : y <= Max(S)
  <1> DEFINE T == {b - x : x \in S}
  <1>1. T \subseteq Nat /\ T # {}
    <2>1. \A x \in S : b - x \in Nat OBVIOUS
    <2> QED BY <2>1, Zenon
  <1>2. PICK t \in T : \A u \in T : t <= u
    <2> HIDE DEF T
    <2> QED BY <1>1, LeastNumber
  <1>3. PICK x \in S : t = b - x BY <1>2
  <1>4. ASSUME NEW y \in S PROVE x >= y
    <2>1. b - y \in T OBVIOUS
    <2>2. b - x <= b - y BY <1>2, <1>3, <2>1
    <2> QED BY <2>2
  <1>5. \E z \in S : \A y \in S : z >= y BY <1>4
  <1>6. Max(S) \in S /\ \A y \in S : Max(S) >= y BY <1>5 DEF Max
  <1>7. \A y \in S : y <= Max(S) BY <1>6
  <1> QED BY <1>6, <1>7

\* The points of a series lie between two numbers.
LEMMA SeriesBounded ==
  ASSUME NEW n \in Nat, NEW data \in [1..n -> Int]
  PROVE  \E lo, hi \in Int : \A i \in 1..n : lo <= data[i] /\ data[i] <= hi
  <1> DEFINE Bounded(k) == \E lo, hi \in Int : \A i \in 1..k : lo <= data[i] /\ data[i] <= hi
             S == {k \in Nat : k <= n => Bounded(k)}
  <1>1. 0 \in S OBVIOUS
  <1>2. ASSUME NEW k \in Nat, k \in S PROVE k + 1 \in S
    <2> SUFFICES ASSUME k + 1 <= n PROVE Bounded(k + 1) OBVIOUS
    <2>1. PICK lo \in Int, hi \in Int : \A i \in 1..k : lo <= data[i] /\ data[i] <= hi
      BY <1>2
    <2>2. data[k + 1] \in Int OBVIOUS
    <2> DEFINE l == IF data[k + 1] <= lo THEN data[k + 1] ELSE lo
               h == IF data[k + 1] <= hi THEN hi ELSE data[k + 1]
    <2>3. l \in Int /\ h \in Int BY <2>2
    <2>4. \A i \in 1..(k + 1) : l <= data[i] /\ data[i] <= h
      <3> SUFFICES ASSUME NEW i \in 1..(k + 1) PROVE l <= data[i] /\ data[i] <= h OBVIOUS
      <3>1. i = k + 1 \/ i \in 1..k OBVIOUS
      <3>2. data[i] \in Int OBVIOUS
      <3> QED BY <2>1, <2>2, <3>1, <3>2
    <2> QED BY <2>3, <2>4
  <1>3. Nat \subseteq S
    <2> HIDE DEF S
    <2> QED BY <1>1, <1>2, Induct
  <1>4. n \in S
    <2> HIDE DEF S
    <2> QED BY <1>3
  <1>5. n <= n OBVIOUS
  <1> QED BY <1>4, <1>5

\* The baseline is zero, or a whole number of at most 80 % of the minimum.
LEMMA BaselineIs ==
  ASSUME NEW mn \in Int, NEW mx \in Int, mx >= Unit, 5 * mn > mx
  PROVE  LET b == Unit * ((4 * mn) \div (5 * Unit)) IN
         b = 0 \/ (b \in Nat /\ Unit <= b /\ 5 * b <= 4 * mn)
  <1>1. Unit \in Nat /\ Unit > 0 BY ViewersAssumption
  <1> DEFINE a == 4 * mn
             d == 5 * Unit
             q == a \div d
  <1>2. a \in Nat /\ d \in Nat /\ d > 0 BY <1>1
  <1>3. q \in Nat /\ q * d <= a
    <2> HIDE DEF a, d
    <2> QED BY <1>2
  <1> HIDE DEF q
  <1>4. Unit * q \in Nat /\ q * d = 5 * (Unit * q) BY <1>1, <1>3
  <1>5. q = 0 \/ 1 <= q BY <1>3
  <1>6. CASE q = 0 BY <1>1, <1>6 DEF q
  <1>7. CASE 1 <= q
    <2>1. 1 * Unit <= q * Unit BY <1>1, <1>3, <1>7, Product
    <2>2. q * Unit = Unit * q BY <1>1, <1>3
    <2>3. Unit <= Unit * q BY <1>1, <2>1, <2>2
    <2> QED BY <1>3, <1>4, <2>3 DEF q
  <1> QED BY <1>5, <1>6, <1>7

\* The smart baseline of ChartView never misleads, for series of any length, any
\* values and any fractions of them: no bar leaves the plot, heights order as the
\* values do and, above the minimum height, as strictly, and the greatest value
\* reaches the top of the plot from 5 on and a quarter of it below.
THEOREM BarsHold == BarsFaithful
  <1> SUFFICES ASSUME NEW n \in 1..MaxPoints, NEW data \in [1..n -> Points],
                      NEW i \in DOMAIN data, NEW j \in DOMAIN data
               PROVE  /\ barHeight(data, i) <= plotHeight * range(data)
                      /\ data[i] <= data[j] => barHeight(data, i) <= barHeight(data, j)
                      /\ data[i] < data[j] /\ barHeight(data, j) > minHeight * range(data) =>
                           barHeight(data, i) < barHeight(data, j)
                      /\ data[i] = serMax(data) =>
                           /\ 4 * barHeight(data, i) >= plotHeight * range(data)
                           /\ data[i] >= 5 * Unit => barHeight(data, i) = plotHeight * range(data)
    BY DEF BarsFaithful
  <1> DEFINE mn == serMin(data)
             mx == serMax(data)
             b  == baseline(data)
             r  == range(data)
             V  == ToSet(data)
  <1>1. Unit \in Nat /\ Unit > 0 BY ViewersAssumption
  <1>2. n \in Nat /\ data \in [1..n -> Int]
    <2>1. n \in Nat BY ViewersAssumption
    <2>2. \A k \in 1..n : data[k] \in Int BY ViewersAssumption
    <2> QED BY <2>1, <2>2
  <1>3. PICK lo \in Int, hi \in Int : \A k \in 1..n : lo <= data[k] /\ data[k] <= hi
    BY <1>2, SeriesBounded
  <1>4. /\ V \subseteq Int /\ data[i] \in V /\ data[j] \in V
        /\ \A x \in V : lo <= x /\ x <= hi
    BY <1>2, <1>3 DEF ToSet
  <1> HIDE DEF V
  <1>5. mn \in V /\ \A y \in V : mn <= y
    <2>1. Min(V) \in V /\ \A y \in V : Min(V) <= y BY <1>4, LeastOf
    <2> QED BY <2>1 DEF serMin, V
  <1>6. mx \in V \cup {Unit} /\ \A y \in V \cup {Unit} : y <= mx
    <2> DEFINE W == V \cup {Unit}
               t == IF hi <= Unit THEN Unit ELSE hi
    <2>1. W \subseteq Int /\ W # {} /\ t \in Int /\ \A x \in W : x <= t BY <1>1, <1>4
    <2>2. Max(W) \in W /\ \A y \in W : y <= Max(W)
      <3> HIDE DEF W, t
      <3> QED BY <2>1, GreatestOf
    <2>3. mx = Max(W) BY DEF serMax, V
    <2> QED BY <2>2, <2>3
  <1>7. mn \in Int /\ mx \in Int /\ Unit <= mx /\ data[i] \in Int /\ data[j] \in Int
        /\ mn <= data[i] /\ data[i] <= mx /\ data[j] <= mx
    <2> HIDE DEF mn, mx
    <2>1. mn \in Int /\ data[i] \in Int /\ data[j] \in Int BY <1>4, <1>5
    <2>4. V \cup {Unit} \subseteq Int BY <1>1, <1>4
    <2>5. mx \in Int BY <1>6, <2>4, Zenon
    <2>2. mn <= data[i] BY <1>4, <1>5
    <2>3. data[i] <= mx /\ data[j] <= mx /\ Unit <= mx BY <1>4, <1>6, Zenon
    <2> QED BY <2>1, <2>2, <2>3, <2>5
  <1> HIDE DEF mn, mx
  <1>8. ASSUME NEW x \in Int, NEW y \in Int PROVE Max({x, y}) = IF x <= y THEN y ELSE x
    <2>1. Max({x, y}) \in {x, y} /\ \A z \in {x, y} : Max({x, y}) >= z
      <3>1. \E v \in {x, y} : \A z \in {x, y} : v >= z OBVIOUS
      <3> QED BY <3>1 DEF Max
    <2> QED BY <2>1
  <1>9. b = 0 \/ (b \in Nat /\ Unit <= b /\ 5 * b <= 4 * mn)
    <2> DEFINE f == Unit * ((4 * mn) \div (5 * Unit))
    <2>1. b = IF 5 * mn > mx THEN Max({0, f}) ELSE 0 BY DEF baseline, mn, mx
    <2>2. CASE 5 * mn > mx
      <3>1. f = 0 \/ (f \in Nat /\ Unit <= f /\ 5 * f <= 4 * mn)
        BY <1>7, <2>2, BaselineIs
      <3> HIDE DEF f
      <3>2. Max({0, f}) = f BY <1>8, <3>1
      <3> QED BY <2>1, <2>2, <3>1, <3>2
    <2>3. CASE ~(5 * mn > mx) BY <2>1, <2>3
    <2> QED BY <2>2, <2>3
  <1> HIDE DEF b
  <1>10. b \in Int BY <1>9
  <1>11. r = IF mx - b <= Unit THEN Unit ELSE mx - b
    <2>1. r = Max({mx - b, Unit}) BY DEF range, mx, b
    <2>2. mx - b \in Int /\ Unit \in Int BY <1>1, <1>7, <1>10
    <2> QED BY <1>8, <2>1, <2>2
  <1> HIDE DEF r
  <1>12. r \in Int BY <1>1, <1>7, <1>10, <1>11
  <1> DEFINE H(v) == IF 144 * (v - b) <= 2 * r THEN 2 * r ELSE 144 * (v - b)
  <1>13. barHeight(data, i) = H(data[i]) /\ barHeight(data, j) = H(data[j])
    <2>1. /\ barHeight(data, i) = Max({144 * (data[i] - b), 2 * r})
          /\ barHeight(data, j) = Max({144 * (data[j] - b), 2 * r})
      BY DEF barHeight, plotHeight, minHeight, b, r
    <2>2. 144 * (data[i] - b) \in Int /\ 144 * (data[j] - b) \in Int /\ 2 * r \in Int
      BY <1>7, <1>10, <1>12
    <2> QED BY <1>8, <2>1, <2>2
  <1>14. H(data[i]) <= 144 * r BY <1>1, <1>7, <1>10, <1>11
  <1>15. /\ data[i] <= data[j] => H(data[i]) <= H(data[j])
         /\ data[i] < data[j] /\ H(data[j]) > 2 * r => H(data[i]) < H(data[j])
    BY <1>7, <1>10, <1>12
  <1>16. ASSUME data[i] = mx
         PROVE  4 * H(mx) >= 144 * r /\ (mx >= 5 * Unit => H(mx) = 144 * r)
    <2>1. mn <= mx BY <1>7
    <2>2. CASE mx - b > Unit
      BY <1>1, <1>7, <1>10, <1>11, <2>2
    <2>3. CASE mx - b <= Unit
      <3>1. r = Unit BY <1>11, <2>3
      <3>2. CASE b = 0 BY <1>1, <1>7, <2>3, <3>1, <3>2
      <3>3. CASE Unit <= b /\ 5 * b <= 4 * mn
        <4>1. 5 * b <= 4 * mx BY <1>7, <1>10, <2>1, <3>3
        <4>2. 4 * (mx - b) >= Unit BY <1>1, <1>7, <1>10, <3>3, <4>1
        <4>3. mx >= 5 * Unit => mx - b = Unit BY <1>1, <1>7, <1>10, <2>3, <4>1
        <4> QED BY <1>1, <1>7, <1>10, <3>1, <4>2, <4>3
      <3> QED BY <1>9, <3>2, <3>3
    <2> QED BY <1>7, <1>10, <1>1, <2>2, <2>3
  <1>17. serMax(data) = mx /\ range(data) = r BY DEF mx, r
  <1> HIDE DEF H
  <1> QED BY <1>13, <1>14, <1>15, <1>16, <1>17 DEF plotHeight, minHeight
-----------------------------------------------------------------------------
(***************************************************************************)
(* MarkdownViewer.  A line where the parser starts a construct is neither  *)
(* in a fence nor in the middle of indented code; a construct then takes   *)
(* the lines that the reference puts together, up to the next such line.   *)
(***************************************************************************)
\* An odd number of fences is above line i.
InFence(doc, i) == Cardinality({j \in 1..(i - 1) : doc[j] = "fence"}) % 2 = 1

\* Line k does not end indented code.
GoesOn(doc, k) ==
  Indented(doc[k]) \/ (doc[k] = "empty" /\ k < Len(doc) /\ Indented(doc[k + 1]))

\* Indented code that began above line i reaches line i.
Runs(doc, i) ==
  \E j \in 1..(i - 1) :
    doc[j] = "indent" /\ ~Fenced(doc, j) /\ \A k \in j..i : GoesOn(doc, k)

\* The parser may start a construct in line i.
Entry(doc, i) == ~InFence(doc, i) /\ ~Runs(doc, i)

LEMMA FencedIs ==
  ASSUME NEW doc, NEW i
  PROVE  Fenced(doc, i) <=> doc[i] # "fence" /\ InFence(doc, i)
  BY DEF Fenced, InFence

LEMMA InIndentIs ==
  ASSUME NEW doc, NEW i \in Nat, i # 0
  PROVE  /\ InIndent(doc, i) <=>
              \E j \in 1..i : /\ doc[j] = "indent" /\ ~Fenced(doc, j)
                              /\ \A k \in j..i : GoesOn(doc, k)
         /\ InIndent(doc, i) => GoesOn(doc, i)
         /\ ~Runs(doc, i) /\ InIndent(doc, i) => doc[i] = "indent"
  <1>1. InIndent(doc, i) <=>
              \E j \in 1..i : /\ doc[j] = "indent" /\ ~Fenced(doc, j)
                              /\ \A k \in j..i : GoesOn(doc, k)
    BY DEF InIndent, GoesOn
  <1>2. ASSUME InIndent(doc, i) PROVE GoesOn(doc, i)
    <2>1. PICK j \in 1..i : \A k \in j..i : GoesOn(doc, k) BY <1>1, <1>2
    <2>2. i \in j..i BY <2>1
    <2> QED BY <2>1, <2>2
  <1>3. ASSUME ~Runs(doc, i), InIndent(doc, i) PROVE doc[i] = "indent"
    <2>1. PICK j \in 1..i : /\ doc[j] = "indent" /\ ~Fenced(doc, j)
                            /\ \A k \in j..i : GoesOn(doc, k)
      BY <1>1, <1>3
    <2>2. CASE j = i BY <2>1, <2>2
    <2>3. CASE j # i
      <3>1. j \in 1..(i - 1) BY <2>3
      <3> QED BY <1>3, <2>1, <3>1 DEF Runs
    <2> QED BY <2>2, <2>3
  <1> QED BY <1>1, <1>2, <1>3

\* A fence opens or closes; between fences nothing changes.
LEMMA FenceFlips ==
  ASSUME NEW doc, NEW i \in Nat, i # 0, doc[i] = "fence"
  PROVE  InFence(doc, i + 1) <=> ~InFence(doc, i)
  <1> DEFINE A == {j \in 1..(i - 1) : doc[j] = "fence"}
             B == {j \in 1..((i + 1) - 1) : doc[j] = "fence"}
  <1>1. B = A \cup {i} /\ i \notin A OBVIOUS
  <1>2. A \in SUBSET (1..(i - 1)) OBVIOUS
  <1>3. IsFiniteSet(1..(i - 1)) BY FS_Interval
  <1> HIDE DEF A, B
  <1>4. IsFiniteSet(A) BY <1>2, <1>3, FS_Subset
  <1>5. Cardinality(B) = Cardinality(A) + 1 BY <1>1, <1>4, FS_AddElement
  <1>6. Cardinality(A) \in Nat BY <1>4, FS_CardinalityType
  <1>7. (Cardinality(A) + 1) % 2 = 1 <=> ~(Cardinality(A) % 2 = 1) BY <1>6
  <1> QED BY <1>5, <1>7 DEF InFence, A, B

LEMMA FenceStays ==
  ASSUME NEW doc, NEW i \in Nat, NEW m \in Nat, i # 0, i <= m,
         \A k \in i..(m - 1) : doc[k] # "fence"
  PROVE  InFence(doc, m) <=> InFence(doc, i)
  <1>1. {j \in 1..(m - 1) : doc[j] = "fence"} = {j \in 1..(i - 1) : doc[j] = "fence"}
    <2>1. ASSUME NEW j \in 1..(m - 1), doc[j] = "fence" PROVE j \in 1..(i - 1)
      <3>1. j \notin i..(m - 1) BY <2>1
      <3> QED BY <3>1
    <2>2. 1..(i - 1) \subseteq 1..(m - 1) OBVIOUS
    <2> QED BY <2>1, <2>2
  <1> QED BY <1>1 DEF InFence

\* Where the code for a line that ends indented code leads is not in any.
LEMMA NothingRuns ==
  ASSUME NEW doc, NEW i \in Nat, ~GoesOn(doc, i)
  PROVE  ~Runs(doc, i) /\ ~Runs(doc, i + 1)
  <1>1. ASSUME Runs(doc, i) PROVE FALSE
    <2>1. PICK j \in 1..(i - 1) : \A k \in j..i : GoesOn(doc, k) BY <1>1 DEF Runs
    <2>2. i \in j..i BY <2>1
    <2> QED BY <2>1, <2>2
  <1>2. ASSUME Runs(doc, i + 1) PROVE FALSE
    <2>1. PICK j \in 1..((i + 1) - 1) : \A k \in j..(i + 1) : GoesOn(doc, k)
      BY <1>2 DEF Runs
    <2>2. i \in j..(i + 1) BY <2>1
    <2> QED BY <2>1, <2>2
  <1> QED BY <1>1, <1>2

\* What the reference says of a line that is in no fence and no indented code.
Plain(line) ==
  CASE line \in {"fence", "empty", "blank", "sep"} -> "none"
    [] line = "irule" -> "rule"
    [] line = "item"  -> "list"
    [] line = "row"   -> "table"
    [] OTHER          -> line

LEMMA RenderingIs ==
  ASSUME NEW doc, NEW i
  PROVE  Rendering(doc, i) = IF Fenced(doc, i) THEN "code"
                             ELSE IF InIndent(doc, i) THEN "pre" ELSE Plain(doc[i])
  BY DEF Rendering, Plain

\* A rendering tells what the line is.
LEMMA RenderingSays ==
  ASSUME NEW doc, NEW i, doc[i] \in Lines
  PROVE  /\ Rendering(doc, i) = "code" => Fenced(doc, i)
         /\ Rendering(doc, i) = "pre" => InIndent(doc, i)
         /\ Rendering(doc, i) = "list" => doc[i] = "item"
         /\ Rendering(doc, i) = "table" => doc[i] = "row"
  <1>1. Plain(doc[i]) \notin {"code", "pre"} BY DEF Plain, Lines
  <1>2. Plain(doc[i]) = "list" => doc[i] = "item" BY DEF Plain, Lines
  <1>3. Plain(doc[i]) = "table" => doc[i] = "row" BY DEF Plain, Lines
  <1>4. CASE Fenced(doc, i)
    <2>1. Rendering(doc, i) = "code" BY <1>4, RenderingIs
    <2> QED BY <1>4, <2>1
  <1>5. CASE ~Fenced(doc, i) /\ InIndent(doc, i)
    <2>1. Rendering(doc, i) = "pre" BY <1>5, RenderingIs
    <2> QED BY <1>5, <2>1
  <1>6. CASE ~Fenced(doc, i) /\ ~InIndent(doc, i)
    <2>1. Rendering(doc, i) = Plain(doc[i]) BY <1>6, RenderingIs
    <2> QED BY <1>1, <1>2, <1>3, <2>1
  <1> QED BY <1>4, <1>5, <1>6

\* The lines from i on and before e that are rendered.
Taken(doc, i, e) == {k \in i..Len(doc) : k < e /\ Rendering(doc, k) # "none"}

Block(kind, lines) == [kind |-> kind, lines |-> lines]
BlockKinds == Lines \cup {"code", "pre", "list", "table"}

\* A construct in line i takes what is rendered up to the line where the next
\* one starts, as one block, and nothing goes on past that line.
TakesAll(doc, i, c) ==
  /\ c.next \in (i + 1)..(Len(doc) + 2)
  /\ c.next <= Len(doc) => Entry(doc, c.next)
  /\ \/ c.blocks = <<>> /\ Taken(doc, i, c.next) = {}
     \/ \E kind \in BlockKinds :
          /\ c.blocks = <<Block(kind, Taken(doc, i, c.next))>>
          /\ \A k \in Taken(doc, i, c.next) : Rendering(doc, k) = kind
          /\ \A k, l \in Taken(doc, i, c.next) : k < l => Together(doc, k, l)
  /\ \A k \in Taken(doc, i, c.next) : \A l \in c.next..Len(doc) : ~Together(doc, k, l)

\* End, for the lines Q of a document of n lines.
FirstNot(n, i, Q) == Min({k \in i..(n + 1) : k = n + 1 \/ k \notin Q})

LEMMA EndIs ==
  ASSUME NEW n \in Nat, NEW i \in 1..(n + 1), NEW Q, NEW e, e = FirstNot(n, i, Q)
  PROVE  /\ e \in i..(n + 1) /\ \A k \in i..(e - 1) : k \in Q
         /\ e <= n => e \notin Q
  <1> DEFINE S == {k \in i..(n + 1) : k = n + 1 \/ k \notin Q}
  <1>1. S \subseteq Int /\ n + 1 \in S /\ \A x \in S : i <= x OBVIOUS
  <1>2. e \in S /\ \A y \in S : e <= y
    <2>1. S # {} /\ i \in Int BY <1>1
    <2>2. e = Min(S) BY DEF FirstNot
    <2> HIDE DEF S
    <2> QED BY <1>1, <2>1, <2>2, LeastOf
  <1>3. ASSUME NEW k \in i..(e - 1) PROVE k \in Q
    <2>0. e \in i..(n + 1) BY <1>2
    <2>1. k \in i..(n + 1) /\ k < e /\ k # n + 1 BY <2>0
    <2>2. k \notin S
      <3>1. k \in S => e <= k BY <1>2
      <3> HIDE DEF S
      <3> QED BY <2>0, <2>1, <3>1
    <2> QED BY <2>1, <2>2
  <1> QED BY <1>2, <1>3

\* Lines of one kind with nothing else between them belong together.
LEMMA TogetherIs ==
  ASSUME NEW doc, NEW kind \in {"code", "pre", "list"}, NEW k \in Nat, NEW l \in Nat, k < l,
         \A m \in k..l : Rendering(doc, m) = kind
  PROVE  Together(doc, k, l)
  <1>1. Rendering(doc, k) = kind /\ Rendering(doc, l) = kind OBVIOUS
  <1> QED BY <1>1 DEF Together

\* Nothing goes on past a line that is not of the kind.
LEMMA NotTogether ==
  ASSUME NEW doc, NEW k \in Nat, NEW l \in Nat, NEW m \in k..l,
         Rendering(doc, m) # Rendering(doc, k),
         Rendering(doc, k) = "table" => doc[m] # "sep"
  PROVE  ~Together(doc, k, l)
  BY DEF Together

\* Between fences everything is code.
LEMMA FencedCodeTakesAll ==
  ASSUME NEW doc \in Seq(Lines), NEW i \in 1..Len(doc), Entry(doc, i), doc[i] = "fence"
  PROVE  TakesAll(doc, i, FencedCode(doc, i))
  <1> DEFINE n == Len(doc)
             Q == {k \in 1..n : doc[k] # "fence"}
             e == End(doc, i + 1, LAMBDA k : doc[k] # "fence")
             c == FencedCode(doc, i)
  <1>1. n \in Nat /\ i + 1 \in 1..(n + 1) /\ i \in Nat /\ i # 0 OBVIOUS
  <1>2. e = FirstNot(n, i + 1, Q)
    <2>1. {k \in (i + 1)..(n + 1) : k = n + 1 \/ ~(doc[k] # "fence")}
            = {k \in (i + 1)..(n + 1) : k = n + 1 \/ k \notin Q}
      OBVIOUS
    <2> QED BY <2>1 DEF End, FirstNot
  <1>3. c.next = e + 1 /\ c.blocks = <<Block("code", (i + 1)..(e - 1))>>
    BY DEF FencedCode, Parsed, Block
  <1> HIDE DEF e, n, Q, c
  <1>4. /\ e \in (i + 1)..(n + 1) /\ \A k \in (i + 1)..(e - 1) : k \in Q
        /\ e <= n => e \notin Q
    BY <1>1, <1>2, EndIs
  <1>5. e \in Nat /\ i < e /\ e <= n + 1 BY <1>1, <1>4
  <1>6. InFence(doc, i + 1) BY <1>1, FenceFlips DEF Entry
  <1>7. ASSUME NEW k \in (i + 1)..(e - 1)
        PROVE  /\ k \in i..n /\ k < e + 1 /\ Rendering(doc, k) = "code"
    <2>1. k \in Nat /\ i + 1 \in Nat /\ i + 1 # 0 /\ i + 1 <= k /\ k \in i..n /\ k < e + 1
      BY <1>1, <1>5
    <2>2. \A j \in (i + 1)..(k - 1) : doc[j] # "fence"
      <3>1. \A j \in (i + 1)..(k - 1) : j \in (i + 1)..(e - 1) BY <1>5, <2>1
      <3> QED BY <1>4, <3>1 DEF Q
    <2>3. InFence(doc, k) BY <1>6, <2>1, <2>2, FenceStays
    <2>4. doc[k] # "fence" BY <1>4 DEF Q
    <2>5. Fenced(doc, k) BY <2>3, <2>4, FencedIs
    <2> QED BY <2>1, <2>5, RenderingIs
  <1>8. ASSUME NEW k \in Nat, k # 0, doc[k] = "fence"
        PROVE  Rendering(doc, k) = "none"
    <2>1. ~Fenced(doc, k) BY <1>8, FencedIs
    <2>2. ~GoesOn(doc, k) BY <1>8 DEF GoesOn, Indented
    <2>3. ~InIndent(doc, k) BY <1>8, <2>2, InIndentIs
    <2>4. Rendering(doc, k) = Plain(doc[k]) BY <2>1, <2>3, RenderingIs
    <2> QED BY <1>8, <2>4 DEF Plain
  <1>9. e <= n => doc[e] = "fence" BY <1>1, <1>4, <1>5 DEF Q
  <1>10. Taken(doc, i, e + 1) = (i + 1)..(e - 1)
    <2>1. ASSUME NEW k \in Taken(doc, i, e + 1) PROVE k \in (i + 1)..(e - 1)
      <3>1. k \in i..n /\ k < e + 1 /\ Rendering(doc, k) # "none" BY DEF Taken, n
      <3>2. k # i BY <1>1, <1>8, <3>1
      <3>3. k # e
        <4>1. e # 0 BY <1>1, <1>5
        <4> QED BY <1>1, <1>5, <1>8, <1>9, <3>1, <4>1
      <3> QED BY <1>1, <1>5, <3>1, <3>2, <3>3
    <2>2. ASSUME NEW k \in (i + 1)..(e - 1) PROVE k \in Taken(doc, i, e + 1)
      BY <1>7 DEF Taken, n
    <2> QED BY <2>1, <2>2
  <1>11. e + 1 <= n => Entry(doc, e + 1)
    <2> SUFFICES ASSUME e + 1 <= n PROVE Entry(doc, e + 1) OBVIOUS
    <2>1. doc[e] = "fence" /\ e # 0 BY <1>1, <1>5, <1>9
    <2>2. \A j \in (i + 1)..(e - 1) : doc[j] # "fence" BY <1>4 DEF Q
    <2>3. InFence(doc, e) BY <1>1, <1>5, <1>6, <2>2, FenceStays
    <2>4. ~InFence(doc, e + 1) BY <1>5, <2>1, <2>3, FenceFlips
    <2>5. ~GoesOn(doc, e) BY <2>1 DEF GoesOn, Indented
    <2>6. ~Runs(doc, e + 1) BY <1>5, <2>5, NothingRuns
    <2> QED BY <2>4, <2>6 DEF Entry
  <1>12. ASSUME NEW k \in (i + 1)..(e - 1), NEW l \in (e + 1)..n PROVE ~Together(doc, k, l)
    <2>1. e \in k..l /\ k \in Nat /\ l \in Nat /\ e # 0 /\ e <= n BY <1>1, <1>5
    <2>2. Rendering(doc, e) = "none" BY <1>5, <1>8, <1>9, <2>1
    <2>3. Rendering(doc, k) = "code" BY <1>7
    <2> QED BY <2>1, <2>2, <2>3, NotTogether
  <1>13. ASSUME NEW k \in (i + 1)..(e - 1), NEW l \in (i + 1)..(e - 1), k < l
         PROVE  Together(doc, k, l)
    <2>1. k \in Nat /\ l \in Nat /\ \A m \in k..l : m \in (i + 1)..(e - 1) BY <1>1, <1>5
    <2>2. \A m \in k..l : Rendering(doc, m) = "code" BY <1>7, <2>1
    <2> QED BY <1>13, <2>1, <2>2, TogetherIs
  <1>14. e + 1 \in (i + 1)..(n + 2) BY <1>1, <1>5
  <1>15. "code" \in BlockKinds BY DEF BlockKinds
  <1>16. /\ c.next \in (i + 1)..(Len(doc) + 2)
         /\ c.next <= Len(doc) => Entry(doc, c.next)
    BY <1>3, <1>11, <1>14 DEF n
  <1>17. Taken(doc, i, c.next) = (i + 1)..(e - 1) BY <1>3, <1>10
  <1>18. /\ c.blocks = <<Block("code", Taken(doc, i, c.next))>>
         /\ \A k \in Taken(doc, i, c.next) : Rendering(doc, k) = "code"
         /\ \A k, l \in Taken(doc, i, c.next) : k < l => Together(doc, k, l)
         /\ \A k \in Taken(doc, i, c.next) : \A l \in c.next..Len(doc) : ~Together(doc, k, l)
    BY <1>3, <1>7, <1>12, <1>13, <1>17, Zenon DEF n
  <1> QED BY <1>15, <1>16, <1>18, Zenon DEF TakesAll, c

\* Lines outside a fence, none of which is one or ends in indented code.
LEMMA OutsideIs ==
  ASSUME NEW doc, NEW i \in Nat, i # 0, NEW k \in Nat, i <= k, ~InFence(doc, i),
         \A j \in i..k : doc[j] # "fence" /\ ~GoesOn(doc, j)
  PROVE  /\ Rendering(doc, k) = Plain(doc[k])
         /\ ~InFence(doc, k + 1) /\ ~Runs(doc, k + 1)
  <1>1. \A j \in i..(k - 1) : doc[j] # "fence"
    <2>1. \A j \in i..(k - 1) : j \in i..k OBVIOUS
    <2> QED BY <2>1
  <1>2. ~InFence(doc, k) BY <1>1, FenceStays
  <1>3. \A j \in i..((k + 1) - 1) : doc[j] # "fence"
    <2>1. \A j \in i..((k + 1) - 1) : j \in i..k OBVIOUS
    <2> QED BY <2>1
  <1>4. ~InFence(doc, k + 1)
    <2>1. k + 1 \in Nat /\ i <= k + 1 OBVIOUS
    <2> QED BY <1>3, <2>1, FenceStays
  <1>5. k \in i..k /\ k # 0 OBVIOUS
  <1>6. ~GoesOn(doc, k) BY <1>5
  <1>7. ~Runs(doc, k + 1) BY <1>6, NothingRuns
  <1>8. ~InIndent(doc, k) BY <1>5, <1>6, InIndentIs
  <1>9. ~Fenced(doc, k) BY <1>2, FencedIs
  <1> QED BY <1>4, <1>7, <1>8, <1>9, RenderingIs

LEMMA UnorderedListTakesAll ==
  ASSUME NEW doc \in Seq(Lines), NEW i \in 1..Len(doc), Entry(doc, i), doc[i] = "item"
  PROVE  TakesAll(doc, i, UnorderedList(doc, i))
  <1> DEFINE n == Len(doc)
             Q == {k \in 1..n : doc[k] = "item"}
             e == End(doc, i, LAMBDA k : doc[k] = "item")
             c == UnorderedList(doc, i)
  <1>1. n \in Nat /\ i \in 1..(n + 1) /\ i \in Nat /\ i # 0 /\ i \in Q OBVIOUS
  <1>2. e = FirstNot(n, i, Q)
    <2>1. {k \in i..(n + 1) : k = n + 1 \/ ~(doc[k] = "item")}
            = {k \in i..(n + 1) : k = n + 1 \/ k \notin Q}
      OBVIOUS
    <2> QED BY <2>1 DEF End, FirstNot
  <1>3. c.next = e /\ c.blocks = <<Block("list", i..(e - 1))>>
    BY DEF UnorderedList, Parsed, Block
  <1>4. \A k \in 1..n : doc[k] \in Lines OBVIOUS
  <1> HIDE DEF e, n, Q, c
  <1>5. /\ e \in i..(n + 1) /\ \A k \in i..(e - 1) : k \in Q
        /\ e <= n => e \notin Q
    BY <1>1, <1>2, EndIs
  <1>6. e # i
    <2>1. i <= n BY DEF n
    <2> QED BY <1>1, <1>5, <2>1
  <1>7. e \in Nat /\ i < e /\ e <= n + 1 BY <1>1, <1>5, <1>6
  <1>8. \A k \in i..(e - 1) : doc[k] = "item" /\ doc[k] # "fence" /\ ~GoesOn(doc, k)
    BY <1>5 DEF Q, GoesOn, Indented
  <1>9. ASSUME NEW k \in i..(e - 1)
        PROVE  /\ k \in i..n /\ k < e /\ Rendering(doc, k) = "list"
               /\ Entry(doc, k + 1)
    <2>1. k \in Nat /\ i <= k /\ k \in i..n /\ k < e /\ \A j \in i..k : j \in i..(e - 1)
      BY <1>1, <1>7
    <2>2. \A j \in i..k : doc[j] # "fence" /\ ~GoesOn(doc, j) BY <1>8, <2>1
    <2>3. ~InFence(doc, i) BY DEF Entry
    <2>4. /\ Rendering(doc, k) = Plain(doc[k])
          /\ ~InFence(doc, k + 1) /\ ~Runs(doc, k + 1)
      BY <1>1, <2>1, <2>2, <2>3, OutsideIs
    <2>5. doc[k] = "item" BY <1>8
    <2> QED BY <2>1, <2>4, <2>5 DEF Plain, Entry
  <1>10. Taken(doc, i, e) = i..(e - 1)
    <2>1. ASSUME NEW k \in Taken(doc, i, e) PROVE k \in i..(e - 1)
      <3>1. k \in i..n /\ k < e BY DEF Taken, n
      <3> QED BY <1>1, <1>7, <3>1
    <2>2. ASSUME NEW k \in i..(e - 1) PROVE k \in Taken(doc, i, e)
      BY <1>9 DEF Taken, n
    <2> QED BY <2>1, <2>2
  <1>11. Entry(doc, e)
    <2>1. e - 1 \in i..(e - 1) /\ (e - 1) + 1 = e BY <1>1, <1>7
    <2>2. Entry(doc, (e - 1) + 1) BY <1>9, <2>1
    <2> QED BY <2>1, <2>2
  <1>12. ASSUME NEW k \in i..(e - 1), NEW l \in e..n PROVE ~Together(doc, k, l)
    <2>1. e \in k..l /\ k \in Nat /\ l \in Nat /\ e <= n /\ e \in 1..n BY <1>1, <1>7
    <2>2. doc[e] # "item" /\ doc[e] \in Lines BY <1>4, <1>5, <2>1 DEF Q
    <2>3. Rendering(doc, e) # "list" BY <2>2, RenderingSays
    <2>4. Rendering(doc, k) = "list" BY <1>9
    <2> QED BY <2>1, <2>3, <2>4, NotTogether
  <1>13. ASSUME NEW k \in i..(e - 1), NEW l \in i..(e - 1), k < l
         PROVE  Together(doc, k, l)
    <2>1. k \in Nat /\ l \in Nat /\ \A m \in k..l : m \in i..(e - 1) BY <1>1, <1>7
    <2>2. \A m \in k..l : Rendering(doc, m) = "list" BY <1>9, <2>1
    <2> QED BY <1>13, <2>1, <2>2, TogetherIs
  <1>14. e \in (i + 1)..(n + 2) BY <1>1, <1>7
  <1>15. "list" \in BlockKinds BY DEF BlockKinds
  <1>16. /\ c.next \in (i + 1)..(Len(doc) + 2)
         /\ c.next <= Len(doc) => Entry(doc, c.next)
    BY <1>3, <1>11, <1>14 DEF n
  <1>17. Taken(doc, i, c.next) = i..(e - 1) BY <1>3, <1>10
  <1>18. /\ c.blocks = <<Block("list", Taken(doc, i, c.next))>>
         /\ \A k \in Taken(doc, i, c.next) : Rendering(doc, k) = "list"
         /\ \A k, l \in Taken(doc, i, c.next) : k < l => Together(doc, k, l)
         /\ \A k \in Taken(doc, i, c.next) : \A l \in c.next..Len(doc) : ~Together(doc, k, l)
    BY <1>3, <1>9, <1>12, <1>13, <1>17, Zenon DEF n
  <1> QED BY <1>15, <1>16, <1>18, Zenon DEF TakesAll, c

\* A table: separators are between its rows and are no rows themselves.
LEMMA TableTakesAll ==
  ASSUME NEW doc \in Seq(Lines), NEW i \in 1..Len(doc), Entry(doc, i), InTable(doc[i])
  PROVE  TakesAll(doc, i, Table(doc, i))
  <1> DEFINE n == Len(doc)
             Q == {k \in 1..n : InTable(doc[k])}
             e == End(doc, i, LAMBDA k : InTable(doc[k]))
             rows == {k \in i..(e - 1) : doc[k] = "row"}
             c == Table(doc, i)
  <1>1. n \in Nat /\ i \in 1..(n + 1) /\ i \in Nat /\ i # 0 /\ i \in Q OBVIOUS
  <1>2. e = FirstNot(n, i, Q)
    <2>1. {k \in i..(n + 1) : k = n + 1 \/ ~InTable(doc[k])}
            = {k \in i..(n + 1) : k = n + 1 \/ k \notin Q}
      OBVIOUS
    <2> QED BY <2>1 DEF End, FirstNot
  <1>3. c.next = e /\ c.blocks = IF rows = {} THEN <<>> ELSE <<Block("table", rows)>>
    BY DEF Table, Parsed, Block
  <1>4. \A k \in 1..n : doc[k] \in Lines OBVIOUS
  <1> HIDE DEF e, n, Q, c
  <1>5. /\ e \in i..(n + 1) /\ \A k \in i..(e - 1) : k \in Q
        /\ e <= n => e \notin Q
    BY <1>1, <1>2, EndIs
  <1>6. e # i
    <2>1. i <= n BY DEF n
    <2> QED BY <1>1, <1>5, <2>1
  <1>7. e \in Nat /\ i < e /\ e <= n + 1 BY <1>1, <1>5, <1>6
  <1>8. \A k \in i..(e - 1) : doc[k] \in {"row", "sep"} /\ doc[k] # "fence" /\ ~GoesOn(doc, k)
    BY <1>5 DEF Q, GoesOn, Indented, InTable
  <1>9. ASSUME NEW k \in i..(e - 1)
        PROVE  /\ k \in i..n /\ k < e
               /\ Rendering(doc, k) = IF doc[k] = "row" THEN "table" ELSE "none"
               /\ Entry(doc, k + 1)
    <2>1. k \in Nat /\ i <= k /\ k \in i..n /\ k < e /\ \A j \in i..k : j \in i..(e - 1)
      BY <1>1, <1>7
    <2>2. \A j \in i..k : doc[j] # "fence" /\ ~GoesOn(doc, j) BY <1>8, <2>1
    <2>3. ~InFence(doc, i) BY DEF Entry
    <2>4. /\ Rendering(doc, k) = Plain(doc[k])
          /\ ~InFence(doc, k + 1) /\ ~Runs(doc, k + 1)
      BY <1>1, <2>1, <2>2, <2>3, OutsideIs
    <2>5. doc[k] = "row" \/ doc[k] = "sep" BY <1>8
    <2> QED BY <2>1, <2>4, <2>5 DEF Plain, Entry
  <1>10. Taken(doc, i, e) = rows
    <2>1. ASSUME NEW k \in Taken(doc, i, e) PROVE k \in rows
      <3>1. k \in i..n /\ k < e /\ Rendering(doc, k) # "none" BY DEF Taken, n
      <3>2. k \in i..(e - 1) BY <1>1, <1>7, <3>1
      <3> QED BY <1>9, <3>1, <3>2
    <2>2. ASSUME NEW k \in rows PROVE k \in Taken(doc, i, e)
      <3>1. k \in i..(e - 1) /\ doc[k] = "row" OBVIOUS
      <3>2. Rendering(doc, k) = "table" /\ k \in i..n /\ k < e BY <1>9, <3>1
      <3> QED BY <3>2 DEF Taken, n
    <2> QED BY <2>1, <2>2
  <1>11. Entry(doc, e)
    <2>1. e - 1 \in i..(e - 1) /\ (e - 1) + 1 = e BY <1>1, <1>7
    <2>2. Entry(doc, (e - 1) + 1) BY <1>9, <2>1
    <2> QED BY <2>1, <2>2
  <1>12. ASSUME NEW k \in rows PROVE k \in i..(e - 1) /\ Rendering(doc, k) = "table"
    <2>1. k \in i..(e - 1) /\ doc[k] = "row" OBVIOUS
    <2> QED BY <1>9, <2>1
  <1> HIDE DEF rows
  <1>13. ASSUME NEW k \in rows, NEW l \in e..n PROVE ~Together(doc, k, l)
    <2>1. e \in k..l /\ k \in Nat /\ l \in Nat /\ e <= n /\ e \in 1..n BY <1>1, <1>7, <1>12
    <2>2. ~InTable(doc[e]) /\ doc[e] \in Lines BY <1>4, <1>5, <2>1 DEF Q
    <2>3. doc[e] # "row" /\ doc[e] # "sep" BY <2>2 DEF InTable
    <2>4. Rendering(doc, e) # "table" BY <2>2, <2>3, RenderingSays
    <2>5. Rendering(doc, k) = "table" BY <1>12
    <2> QED BY <2>1, <2>3, <2>4, <2>5, NotTogether
  <1>14. ASSUME NEW k \in rows, NEW l \in rows, k < l PROVE Together(doc, k, l)
    <2>1. k \in Nat /\ l \in Nat /\ \A m \in k..l : m \in i..(e - 1) BY <1>1, <1>7, <1>12
    <2>2. \A m \in k..l : Rendering(doc, m) = "table" \/ doc[m] = "sep" BY <1>8, <1>9, <2>1
    <2>3. Rendering(doc, k) = "table" /\ Rendering(doc, l) = "table" BY <1>12
    <2> QED BY <2>2, <2>3 DEF Together
  <1>15. e \in (i + 1)..(n + 2) BY <1>1, <1>7
  <1>16. "table" \in BlockKinds BY DEF BlockKinds
  <1>17. /\ c.next \in (i + 1)..(Len(doc) + 2)
         /\ c.next <= Len(doc) => Entry(doc, c.next)
    BY <1>3, <1>11, <1>15 DEF n
  <1>18. Taken(doc, i, c.next) = rows BY <1>3, <1>10
  <1>19. /\ \A k \in Taken(doc, i, c.next) : Rendering(doc, k) = "table"
         /\ \A k, l \in Taken(doc, i, c.next) : k < l => Together(doc, k, l)
         /\ \A k \in Taken(doc, i, c.next) : \A l \in c.next..Len(doc) : ~Together(doc, k, l)
    BY <1>3, <1>12, <1>13, <1>14, <1>18, Zenon DEF n
  <1>20. CASE rows = {}
    <2>1. c.blocks = <<>> /\ Taken(doc, i, c.next) = {} BY <1>3, <1>18, <1>20
    <2> QED BY <1>17, <1>19, <2>1, Zenon DEF TakesAll, c
  <1>21. CASE rows # {}
    <2>1. c.blocks = <<Block("table", Taken(doc, i, c.next))>> BY <1>3, <1>18, <1>21
    <2> QED BY <1>16, <1>17, <1>19, <2>1, Zenon DEF TakesAll, c
  <1> QED BY <1>20, <1>21

\* Indented code ends with the last line that is indented or before one.
LEMMA IndentedCodeTakesAll ==
  ASSUME NEW doc \in Seq(Lines), NEW i \in 1..Len(doc), Entry(doc, i), doc[i] = "indent"
  PROVE  TakesAll(doc, i, IndentedCode(doc, i))
  <1> DEFINE n == Len(doc)
             Q == {k \in 1..n : GoesOn(doc, k)}
             e == End(doc, i, LAMBDA k : \/ Indented(doc[k])
                                         \/ doc[k] = "empty" /\ k < Len(doc) /\ Indented(doc[k + 1]))
             c == IndentedCode(doc, i)
  <1>1. n \in Nat /\ i \in 1..(n + 1) /\ i \in Nat /\ i # 0 OBVIOUS
  <1>2. e = FirstNot(n, i, Q)
    <2>1. {k \in i..(n + 1) : k = n + 1 \/ ~GoesOn(doc, k)}
            = {k \in i..(n + 1) : k = n + 1 \/ k \notin Q}
      OBVIOUS
    <2>2. e = Min({k \in i..(n + 1) : k = n + 1 \/ ~GoesOn(doc, k)}) BY DEF End, GoesOn
    <2> HIDE DEF e, Q
    <2> QED BY <2>1, <2>2 DEF FirstNot
  <1>3. c.next = e /\ c.blocks = <<Block("pre", i..(e - 1))>>
    BY DEF IndentedCode, Parsed, Block
  <1>4. GoesOn(doc, i) /\ i \in Q BY DEF GoesOn, Indented
  <1> HIDE DEF e, n, Q, c
  <1>5. /\ e \in i..(n + 1) /\ \A k \in i..(e - 1) : k \in Q
        /\ e <= n => e \notin Q
    BY <1>1, <1>2, EndIs
  <1>6. e # i
    <2>1. i <= n BY DEF n
    <2> QED BY <1>1, <1>4, <1>5, <2>1
  <1>7. e \in Nat /\ i < e /\ e <= n + 1 BY <1>1, <1>5, <1>6
  <1>8. \A k \in i..(e - 1) : GoesOn(doc, k) /\ doc[k] # "fence"
    BY <1>5 DEF Q, GoesOn, Indented
  <1>9. ~InFence(doc, i) BY DEF Entry
  <1>10. ASSUME NEW k \in i..(e - 1)
         PROVE  /\ k \in i..n /\ k < e /\ Rendering(doc, k) = "pre"
                /\ ~InFence(doc, k + 1)
    <2>1. /\ k \in Nat /\ i <= k /\ k \in i..n /\ k < e /\ k # 0
          /\ \A j \in i..k : j \in i..(e - 1)
          /\ \A j \in i..(k - 1) : j \in i..(e - 1)
          /\ (k + 1) - 1 = k /\ k + 1 \in Nat /\ i <= k + 1
      BY <1>1, <1>7
    <2>2. ~InFence(doc, k)
      <3>1. \A j \in i..(k - 1) : doc[j] # "fence" BY <1>8, <2>1
      <3> QED BY <1>1, <1>9, <2>1, <3>1, FenceStays
    <2>3. ~InFence(doc, k + 1)
      <3>1. \A j \in i..((k + 1) - 1) : doc[j] # "fence" BY <1>8, <2>1
      <3> QED BY <1>1, <1>9, <2>1, <3>1, FenceStays
    <2>4. ~Fenced(doc, k) BY <2>2, FencedIs
    <2>5. InIndent(doc, k)
      <3>1. i \in 1..k /\ \A j \in i..k : GoesOn(doc, j) BY <1>1, <1>8, <2>1
      <3>2. ~Fenced(doc, i) BY <1>9, FencedIs
      <3> QED BY <2>1, <3>1, <3>2, InIndentIs
    <2> QED BY <2>1, <2>3, <2>4, <2>5, RenderingIs
  <1>11. Taken(doc, i, e) = i..(e - 1)
    <2>1. ASSUME NEW k \in Taken(doc, i, e) PROVE k \in i..(e - 1)
      <3>1. k \in i..n /\ k < e BY DEF Taken, n
      <3> QED BY <1>1, <1>7, <3>1
    <2>2. ASSUME NEW k \in i..(e - 1) PROVE k \in Taken(doc, i, e)
      BY <1>10 DEF Taken, n
    <2> QED BY <2>1, <2>2
  <1>12. ASSUME e <= n PROVE Entry(doc, e) /\ ~InIndent(doc, e) /\ doc[e] \in Lines
    <2>1. e \in 1..n /\ e # 0 BY <1>1, <1>7, <1>12
    <2>2. ~GoesOn(doc, e) BY <1>5, <1>12, <2>1 DEF Q
    <2>3. ~Runs(doc, e) BY <1>7, <2>2, NothingRuns
    <2>4. ~InIndent(doc, e) BY <1>7, <2>1, <2>2, InIndentIs
    <2>5. e - 1 \in i..(e - 1) /\ (e - 1) + 1 = e BY <1>1, <1>7
    <2>6. ~InFence(doc, (e - 1) + 1) BY <1>10, <2>5
    <2>7. doc[e] \in Lines BY <2>1 DEF n
    <2> QED BY <2>3, <2>4, <2>5, <2>6, <2>7 DEF Entry
  <1>13. ASSUME NEW k \in i..(e - 1), NEW l \in e..n PROVE ~Together(doc, k, l)
    <2>1. e \in k..l /\ k \in Nat /\ l \in Nat /\ e <= n BY <1>1, <1>7
    <2>2. Rendering(doc, e) # "pre" BY <1>12, <2>1, RenderingSays
    <2>3. Rendering(doc, k) = "pre" BY <1>10
    <2> QED BY <2>1, <2>2, <2>3, NotTogether
  <1>14. ASSUME NEW k \in i..(e - 1), NEW l \in i..(e - 1), k < l
         PROVE  Together(doc, k, l)
    <2>1. k \in Nat /\ l \in Nat /\ \A m \in k..l : m \in i..(e - 1) BY <1>1, <1>7
    <2>2. \A m \in k..l : Rendering(doc, m) = "pre" BY <1>10, <2>1
    <2> QED BY <1>14, <2>1, <2>2, TogetherIs
  <1>15. e \in (i + 1)..(n + 2) BY <1>1, <1>7
  <1>16. "pre" \in BlockKinds BY DEF BlockKinds
  <1>17. /\ c.next \in (i + 1)..(Len(doc) + 2)
         /\ c.next <= Len(doc) => Entry(doc, c.next)
    BY <1>3, <1>12, <1>15 DEF n
  <1>18. Taken(doc, i, c.next) = i..(e - 1) BY <1>3, <1>11
  <1>19. /\ c.blocks = <<Block("pre", Taken(doc, i, c.next))>>
         /\ \A k \in Taken(doc, i, c.next) : Rendering(doc, k) = "pre"
         /\ \A k, l \in Taken(doc, i, c.next) : k < l => Together(doc, k, l)
         /\ \A k \in Taken(doc, i, c.next) : \A l \in c.next..Len(doc) : ~Together(doc, k, l)
    BY <1>3, <1>10, <1>13, <1>14, <1>18, Zenon DEF n
  <1> QED BY <1>16, <1>17, <1>19, Zenon DEF TakesAll, c

LEMMA ParsedIs ==
  ASSUME NEW kind, NEW lines, NEW next
  PROVE  /\ Parsed(kind, lines, next).next = next
         /\ Parsed(kind, lines, next).blocks = <<Block(kind, lines)>>
  BY DEF Parsed, Block

\* The constructs of one line, or of no block at all.
LEMMA OneLineTakesAll ==
  ASSUME NEW doc \in Seq(Lines), NEW i \in 1..Len(doc), Entry(doc, i),
         doc[i] \in Lines \ {"fence", "item", "row", "sep", "indent"}
  PROVE  TakesAll(doc, i, OneLine(doc, i))
  <1> DEFINE n == Len(doc)
             c == OneLine(doc, i)
             r == Rendering(doc, i)
  <1>1. n \in Nat /\ i \in 1..n /\ i \in Nat /\ i # 0 OBVIOUS
  <1>2. r = Plain(doc[i])
    <2>1. ~Fenced(doc, i) BY FencedIs DEF Entry
    <2>2. ~InIndent(doc, i) BY <1>1, InIndentIs DEF Entry
    <2> QED BY <2>1, <2>2, RenderingIs
  <1>3. /\ c.next = i + 1
        /\ IF r = "none" THEN c.blocks = <<>> ELSE c.blocks = <<Block(r, {i})>>
        /\ r # "none" => r \in {"heading", "rule", "quote", "text"}
    <2>1. CASE doc[i] \in {"empty", "blank"}
      BY <1>2, <2>1 DEF OneLine, Plain
    <2>2. CASE doc[i] \in {"rule", "irule"}
      <3>1. r = "rule" BY <1>2, <2>2 DEF Plain
      <3>2. c = Parsed("rule", {i}, i + 1) BY <2>2 DEF OneLine
      <3> DEFINE p == Parsed("rule", {i}, i + 1)
      <3>3. p.next = i + 1 /\ p.blocks = <<Block("rule", {i})>> BY ParsedIs
      <3> HIDE DEF p, c, r
      <3> QED BY <3>1, <3>2, <3>3 DEF p
    <2>3. CASE doc[i] \in {"heading", "quote", "text"}
      <3>1. r = doc[i] BY <1>2, <2>3 DEF Plain
      <3>2. c = Parsed(doc[i], {i}, i + 1) BY <2>3 DEF OneLine
      <3> DEFINE p == Parsed(doc[i], {i}, i + 1)
      <3>3. p.next = i + 1 /\ p.blocks = <<Block(doc[i], {i})>> BY ParsedIs
      <3> HIDE DEF p, c, r
      <3> QED BY <2>3, <3>1, <3>2, <3>3 DEF p
    <2> QED BY <2>1, <2>2, <2>3 DEF Lines
  <1> HIDE DEF c, r
  <1>4. ASSUME NEW k \in Taken(doc, i, i + 1) PROVE k = i /\ r # "none"
    <2>1. k \in i..Len(doc) /\ k < i + 1 /\ Rendering(doc, k) # "none" BY DEF Taken
    <2>2. k = i BY <1>1, <2>1
    <2> QED BY <2>1, <2>2 DEF r
  <1>5. r # "none" => i \in Taken(doc, i, i + 1) BY <1>1 DEF Taken, r
  <1>6. Taken(doc, i, i + 1) = IF r = "none" THEN {} ELSE {i} BY <1>4, <1>5
  <1>7. ~InFence(doc, i + 1)
    <2>1. \A j \in i..((i + 1) - 1) : doc[j] # "fence"
      <3>1. \A j \in i..((i + 1) - 1) : j = i BY <1>1
      <3> QED BY <3>1
    <2>2. i + 1 \in Nat /\ i <= i + 1 BY <1>1
    <2>3. ~InFence(doc, i) BY DEF Entry
    <2> QED BY <1>1, <2>1, <2>2, <2>3, FenceStays
  <1>8. ~Runs(doc, i + 1)
    <2>1. ASSUME Runs(doc, i + 1) PROVE FALSE
      <3>1. PICK j \in 1..((i + 1) - 1) :
              doc[j] = "indent" /\ ~Fenced(doc, j) /\ \A k \in j..(i + 1) : GoesOn(doc, k)
        BY <2>1 DEF Runs
      <3>2. j # i BY <3>1
      <3>3. j \in 1..(i - 1) /\ \A k \in j..i : k \in j..(i + 1) BY <1>1, <3>2
      <3>4. Runs(doc, i) BY <3>1, <3>3 DEF Runs
      <3> QED BY <3>4 DEF Entry
    <2> QED BY <2>1
  <1>9. ASSUME NEW k \in Taken(doc, i, i + 1), NEW l \in (i + 1)..n PROVE ~Together(doc, k, l)
    <2>1. k = i /\ r \in {"heading", "rule", "quote", "text"} BY <1>3, <1>4
    <2> QED BY <2>1 DEF Together, r
  <1>10. ASSUME NEW k \in Taken(doc, i, i + 1), NEW l \in Taken(doc, i, i + 1), k < l PROVE FALSE
    <2>1. k = i /\ l = i BY <1>4
    <2> QED BY <1>1, <1>10, <2>1
  <1>11. c.next \in (i + 1)..(Len(doc) + 2) BY <1>1, <1>3 DEF n
  <1>12. Entry(doc, c.next) BY <1>3, <1>7, <1>8 DEF Entry
  <1>13. \A k \in Taken(doc, i, c.next) : \A l \in c.next..Len(doc) : ~Together(doc, k, l)
    BY <1>3, <1>9 DEF n
  <1>14. CASE r = "none"
    <2>1. c.blocks = <<>> /\ Taken(doc, i, c.next) = {} BY <1>3, <1>6, <1>14
    <2> QED BY <1>11, <1>12, <1>13, <2>1, Zenon DEF TakesAll, c
  <1>15. CASE r # "none"
    <2>1. c.blocks = <<Block(r, Taken(doc, i, c.next))>> BY <1>3, <1>6, <1>15
    <2>2. r \in BlockKinds BY <1>3, <1>15 DEF BlockKinds, Lines
    <2>3. \A k \in Taken(doc, i, c.next) : Rendering(doc, k) = r BY <1>3, <1>4 DEF r
    <2>4. \A k, l \in Taken(doc, i, c.next) : k < l => Together(doc, k, l) BY <1>3, <1>10
    <2> QED BY <1>11, <1>12, <1>13, <2>1, <2>2, <2>3, <2>4, Zenon DEF TakesAll, c
  <1> QED BY <1>14, <1>15

LEMMA ConstructTakesAll ==
  ASSUME NEW doc \in Seq(Lines), NEW i \in 1..Len(doc), Entry(doc, i)
  PROVE  TakesAll(doc, i, Construct(doc, i))
  <1>1. doc[i] \in Lines OBVIOUS
  <1>2. CASE doc[i] = "fence"
    <2>1. Construct(doc, i) = FencedCode(doc, i) BY <1>2 DEF Construct, InTable
    <2> QED BY <1>2, <2>1, FencedCodeTakesAll
  <1>3. CASE doc[i] = "item"
    <2>1. Construct(doc, i) = UnorderedList(doc, i) BY <1>3 DEF Construct, InTable
    <2> QED BY <1>3, <2>1, UnorderedListTakesAll
  <1>4. CASE InTable(doc[i])
    <2>1. Construct(doc, i) = Table(doc, i) BY <1>4 DEF Construct, InTable
    <2> QED BY <1>4, <2>1, TableTakesAll
  <1>5. CASE doc[i] = "indent"
    <2>1. Construct(doc, i) = IndentedCode(doc, i) BY <1>5 DEF Construct, InTable
    <2> QED BY <1>5, <2>1, IndentedCodeTakesAll
  <1>6. CASE doc[i] \in Lines \ {"fence", "item", "row", "sep", "indent"}
    <2>1. Construct(doc, i) = OneLine(doc, i) BY <1>6 DEF Construct, InTable
    <2> QED BY <1>6, <2>1, OneLineTakesAll
  <1> QED BY <1>1, <1>2, <1>3, <1>4, <1>5, <1>6 DEF InTable
-----------------------------------------------------------------------------
(* The parser: it moves on, so the recursion of Blocks has a solution. *)

LEMMA EndBeyond ==
  ASSUME NEW n \in Nat, NEW i \in 1..n, NEW Q, i \in Q
  PROVE  FirstNot(n, i, Q) \in (i + 1)..(n + 1)
  <1> DEFINE e == FirstNot(n, i, Q)
  <1>1. i \in 1..(n + 1) OBVIOUS
  <1>2. e \in i..(n + 1) /\ (e <= n => e \notin Q) BY <1>1, EndIs
  <1> HIDE DEF e
  <1>3. e # i BY <1>2
  <1>4. e \in (i + 1)..(n + 1) BY <1>2, <1>3
  <1> QED BY <1>4 DEF e

LEMMA MovesOn ==
  ASSUME NEW doc \in Seq(Lines), NEW i \in 1..Len(doc)
  PROVE  Construct(doc, i).next \in (i + 1)..(Len(doc) + 2)
  <1> DEFINE n == Len(doc)
             c == Construct(doc, i)
  <1>1. n \in Nat /\ i \in 1..n /\ i + 1 \in 1..(n + 1) /\ doc[i] \in Lines OBVIOUS
  <1>2. CASE doc[i] = "fence"
    <2> DEFINE Q == {k \in 1..n : doc[k] # "fence"}
               e == End(doc, i + 1, LAMBDA k : doc[k] # "fence")
    <2>1. c = FencedCode(doc, i) BY <1>2 DEF Construct, InTable
    <2>2. c.next = e + 1 BY <2>1 DEF FencedCode, Parsed
    <2>3. {k \in (i + 1)..(n + 1) : k = n + 1 \/ ~(doc[k] # "fence")}
            = {k \in (i + 1)..(n + 1) : k = n + 1 \/ k \notin Q}
      OBVIOUS
    <2>4. e = FirstNot(n, i + 1, Q) BY <2>3 DEF End, FirstNot
    <2> HIDE DEF e, c, n, Q
    <2>5. e \in (i + 1)..(n + 1) BY <1>1, <2>4, EndIs
    <2>6. c.next \in (i + 1)..(n + 2) BY <1>1, <2>2, <2>5
    <2> QED BY <2>6 DEF c, n
  <1>3. CASE doc[i] = "item"
    <2> DEFINE Q == {k \in 1..n : doc[k] = "item"}
               e == End(doc, i, LAMBDA k : doc[k] = "item")
    <2>1. c = UnorderedList(doc, i) BY <1>3 DEF Construct, InTable
    <2>2. c.next = e /\ i \in Q BY <1>3, <2>1 DEF UnorderedList, Parsed
    <2>3. {k \in i..(n + 1) : k = n + 1 \/ ~(doc[k] = "item")}
            = {k \in i..(n + 1) : k = n + 1 \/ k \notin Q}
      OBVIOUS
    <2>4. e = FirstNot(n, i, Q) BY <2>3 DEF End, FirstNot
    <2> HIDE DEF e, c, n, Q
    <2>5. e \in (i + 1)..(n + 1) BY <1>1, <2>2, <2>4, EndBeyond
    <2>6. c.next \in (i + 1)..(n + 2) BY <1>1, <2>2, <2>5
    <2> QED BY <2>6 DEF c, n
  <1>4. CASE InTable(doc[i])
    <2> DEFINE Q == {k \in 1..n : InTable(doc[k])}
               e == End(doc, i, LAMBDA k : InTable(doc[k]))
    <2>1. c = Table(doc, i) BY <1>4 DEF Construct, InTable
    <2>2. c.next = e /\ i \in Q BY <1>4, <2>1 DEF Table, Parsed
    <2>3. {k \in i..(n + 1) : k = n + 1 \/ ~InTable(doc[k])}
            = {k \in i..(n + 1) : k = n + 1 \/ k \notin Q}
      OBVIOUS
    <2>4. e = FirstNot(n, i, Q) BY <2>3 DEF End, FirstNot
    <2> HIDE DEF e, c, n, Q
    <2>5. e \in (i + 1)..(n + 1) BY <1>1, <2>2, <2>4, EndBeyond
    <2>6. c.next \in (i + 1)..(n + 2) BY <1>1, <2>2, <2>5
    <2> QED BY <2>6 DEF c, n
  <1>5. CASE doc[i] = "indent"
    <2> DEFINE Q == {k \in 1..n : GoesOn(doc, k)}
               e == End(doc, i, LAMBDA k : \/ Indented(doc[k])
                                           \/ doc[k] = "empty" /\ k < Len(doc) /\ Indented(doc[k + 1]))
    <2>1. c = IndentedCode(doc, i) BY <1>5 DEF Construct, InTable
    <2>2. c.next = e BY <2>1 DEF IndentedCode, Parsed
    <2>3. i \in Q BY <1>5 DEF GoesOn, Indented
    <2>4. {k \in i..(n + 1) : k = n + 1 \/ ~GoesOn(doc, k)}
            = {k \in i..(n + 1) : k = n + 1 \/ k \notin Q}
      OBVIOUS
    <2>5. e = Min({k \in i..(n + 1) : k = n + 1 \/ ~GoesOn(doc, k)}) BY DEF End, GoesOn
    <2> HIDE DEF e, c, n, Q
    <2>6. e = FirstNot(n, i, Q) BY <2>4, <2>5 DEF FirstNot
    <2>7. e \in (i + 1)..(n + 1) BY <1>1, <2>3, <2>6, EndBeyond
    <2>8. c.next \in (i + 1)..(n + 2) BY <1>1, <2>2, <2>7
    <2> QED BY <2>8 DEF c, n
  <1>6. CASE doc[i] \in Lines \ {"fence", "item", "row", "sep", "indent"}
    <2>1. c = OneLine(doc, i) BY <1>6 DEF Construct, InTable
    <2>2. OneLine(doc, i).next = i + 1
      <3>1. CASE doc[i] \in {"empty", "blank"} BY <3>1 DEF OneLine
      <3>2. CASE doc[i] \in {"rule", "irule"}
        <4>1. OneLine(doc, i) = Parsed("rule", {i}, i + 1) BY <3>2 DEF OneLine
        <4> QED BY <4>1, ParsedIs
      <3>3. CASE doc[i] \notin {"empty", "blank", "rule", "irule"}
        <4>1. OneLine(doc, i) = Parsed(doc[i], {i}, i + 1) BY <3>3 DEF OneLine
        <4> QED BY <4>1, ParsedIs
      <3> QED BY <3>1, <3>2, <3>3
    <2> HIDE DEF c
    <2>3. c.next \in (i + 1)..(Len(doc) + 2) BY <1>1, <2>1, <2>2
    <2> QED BY <2>3 DEF c
  <1> QED BY <1>1, <1>2, <1>3, <1>4, <1>5, <1>6 DEF InTable

\* One step of the recursion behind Blocks, for the lines in D.
From(doc, D, g) ==
  [i \in D |-> IF i > Len(doc) THEN <<>>
               ELSE Construct(doc, i).blocks \o g[Construct(doc, i).next]]

\* The last n lines of a document and the two places behind it.
LastLines(doc, n) == {i \in 1..(Len(doc) + 2) : i + n >= Len(doc) + 1}

LEMMA FromExists ==
  ASSUME NEW doc \in Seq(Lines), NEW n \in Nat
  PROVE  \E g : g = From(doc, LastLines(doc, n), g)
  <1> DEFINE S == {m \in Nat : \E g : g = From(doc, LastLines(doc, m), g)}
             N == Len(doc)
  <1>1. N \in Nat OBVIOUS
  <1>2. 0 \in S
    <2> DEFINE g == [i \in LastLines(doc, 0) |-> <<>>]
    <2>1. \A i \in LastLines(doc, 0) : i > N BY <1>1 DEF LastLines
    <2>2. g = From(doc, LastLines(doc, 0), g) BY <2>1 DEF From
    <2> QED BY <2>2
  <1>3. ASSUME NEW m \in Nat, m \in S PROVE m + 1 \in S
    <2> DEFINE D == LastLines(doc, m)
               E == LastLines(doc, m + 1)
               F(f, i) == IF i > N THEN <<>> ELSE Construct(doc, i).blocks \o f[Construct(doc, i).next]
    <2>1. PICK g : g = From(doc, D, g) BY <1>3
    <2> DEFINE h == [i \in E |-> IF i \in D THEN g[i] ELSE F(g, i)]
    <2>2. \A i \in D : g[i] = F(g, i) BY <2>1 DEF From
    <2>3. D \subseteq E BY <1>1 DEF LastLines
    <2>4. \A i \in D : h[i] = g[i] BY <2>3
    <2>5. \A i \in E : h[i] = F(g, i) BY <2>2
    <2>6. h = [i \in E |-> h[i]] OBVIOUS
    <2> HIDE DEF h
    <2>7. ASSUME NEW i \in E PROVE h[i] = F(h, i)
      <3>1. CASE i > N BY <2>5, <3>1
      <3>2. CASE ~(i > N)
        <4> DEFINE x == Construct(doc, i).next
        <4>1. i \in 1..N /\ i + (m + 1) >= N + 1 BY <1>1, <3>2 DEF LastLines
        <4>2. x \in (i + 1)..(N + 2) BY <4>1, MovesOn
        <4> HIDE DEF x
        <4>3. x \in 1..(N + 2) /\ x + m >= N + 1 BY <1>1, <4>1, <4>2
        <4>4. x \in D BY <4>3 DEF LastLines
        <4>5. h[x] = g[x] BY <2>4, <4>4
        <4> QED BY <2>5, <3>2, <4>5 DEF x
      <3> QED BY <3>1, <3>2
    <2>8. h = From(doc, E, h)
      <3> HIDE DEF E
      <3> QED BY <2>6, <2>7 DEF From
    <2> QED BY <2>8
  <1> HIDE DEF S
  <1>4. n \in S BY <1>2, <1>3, Induct
  <1> QED BY <1>4 DEF S
-----------------------------------------------------------------------------
(* The document: what the constructs take, one after the other. *)

AllBlocks == [kind : BlockKinds, lines : SUBSET Nat]

\* The blocks bs are the rendering of the document from line i on.
RendersFrom(doc, i, bs) ==
  /\ bs \in Seq(AllBlocks)
  /\ \A b \in DOMAIN bs : \A k \in bs[b].lines :
       k \in i..Len(doc) /\ Rendering(doc, k) # "none" /\ bs[b].kind = Rendering(doc, k)
  /\ \A k \in i..Len(doc) : Rendering(doc, k) # "none" => \E b \in DOMAIN bs : k \in bs[b].lines
  /\ \A a, b \in DOMAIN bs : \A k \in bs[a].lines : \A l \in bs[b].lines :
       /\ k = l => a = b
       /\ k < l => IF Together(doc, k, l) THEN a = b ELSE a < b

LEMMA NothingToRender ==
  ASSUME NEW doc \in Seq(Lines), NEW i \in Nat, i > Len(doc)
  PROVE  RendersFrom(doc, i, <<>>)
  <1>1. i..Len(doc) = {} OBVIOUS
  <1>2. <<>> \in Seq(AllBlocks) /\ DOMAIN <<>> = {} OBVIOUS
  <1> QED BY <1>1, <1>2 DEF RendersFrom

\* A construct without a block only passes over lines.
LEMMA PassesOver ==
  ASSUME NEW doc \in Seq(Lines), NEW i \in 1..Len(doc), NEW e \in (i + 1)..(Len(doc) + 2),
         Taken(doc, i, e) = {}, NEW bs, RendersFrom(doc, e, bs)
  PROVE  RendersFrom(doc, i, <<>> \o bs)
  <1>1. bs \in Seq(AllBlocks) BY DEF RendersFrom
  <1>2. <<>> \o bs = bs BY <1>1
  <1>3. Len(doc) \in Nat OBVIOUS
  <1>4. \A k \in e..Len(doc) : k \in i..Len(doc) BY <1>3
  <1>5. ASSUME NEW k \in i..Len(doc), Rendering(doc, k) # "none"
        PROVE  k \in e..Len(doc)
    <2>1. ~(k < e) BY <1>5 DEF Taken
    <2> QED BY <1>3, <2>1
  <1>6. RendersFrom(doc, i, bs) BY <1>4, <1>5 DEF RendersFrom
  <1> QED BY <1>2, <1>6

\* A construct with a block puts it before the others.
LEMMA PutsBefore ==
  ASSUME NEW doc \in Seq(Lines), NEW i \in 1..Len(doc), NEW e \in (i + 1)..(Len(doc) + 2),
         NEW kind \in BlockKinds,
         \A k \in Taken(doc, i, e) : Rendering(doc, k) = kind,
         \A k, l \in Taken(doc, i, e) : k < l => Together(doc, k, l),
         \A k \in Taken(doc, i, e) : \A l \in e..Len(doc) : ~Together(doc, k, l),
         NEW bs, RendersFrom(doc, e, bs)
  PROVE  RendersFrom(doc, i, <<Block(kind, Taken(doc, i, e))>> \o bs)
  <1> DEFINE N == Len(doc)
             T == Taken(doc, i, e)
             B == Block(kind, T)
             r == <<B>> \o bs
  <1>1. /\ N \in Nat /\ i \in Nat /\ e \in Nat /\ i < e
        /\ \A k \in T : k \in i..N /\ k \in Nat /\ k < e /\ Rendering(doc, k) # "none"
    BY DEF Taken
  <1>2. B \in AllBlocks /\ B.kind = kind /\ B.lines = T
    <2>1. T \in SUBSET Nat BY <1>1
    <2> HIDE DEF T
    <2> QED BY <2>1 DEF Block, AllBlocks
  <1>3. bs \in Seq(AllBlocks) BY DEF RendersFrom
  <1> HIDE DEF B, T
  <1>4. /\ r \in Seq(AllBlocks) /\ DOMAIN r = 1..(1 + Len(bs)) /\ r[1] = B
        /\ Len(bs) \in Nat /\ DOMAIN bs = 1..Len(bs)
    BY <1>2, <1>3
  <1>5. \A b \in 1..Len(bs) : r[1 + b] = bs[b] BY <1>2, <1>3
  <1> HIDE DEF r, N
  <1>6. ASSUME NEW b \in DOMAIN r, b # 1
        PROVE  b - 1 \in DOMAIN bs /\ r[b] = bs[b - 1] /\ b > 1
    <2>1. b - 1 \in 1..Len(bs) /\ 1 + (b - 1) = b /\ b > 1 BY <1>4, <1>6
    <2> QED BY <1>4, <1>5, <2>1
  <1>7. ASSUME NEW b \in DOMAIN bs, NEW k \in bs[b].lines
        PROVE  /\ k \in e..N /\ k \in i..N /\ Rendering(doc, k) # "none"
               /\ bs[b].kind = Rendering(doc, k)
    <2>1. k \in e..N /\ Rendering(doc, k) # "none" /\ bs[b].kind = Rendering(doc, k)
      BY DEF RendersFrom, N
    <2> QED BY <1>1, <2>1
  <1>8. ASSUME NEW b \in DOMAIN r, NEW k \in r[b].lines
        PROVE  k \in i..N /\ Rendering(doc, k) # "none" /\ r[b].kind = Rendering(doc, k)
    <2>1. CASE b = 1
      <3>1. k \in T /\ r[b].kind = kind BY <1>2, <1>4, <2>1
      <3>2. Rendering(doc, k) = kind BY <3>1 DEF T
      <3> QED BY <1>1, <3>1, <3>2
    <2>2. CASE b # 1 BY <1>6, <1>7, <2>2
    <2> QED BY <2>1, <2>2
  <1>9. ASSUME NEW k \in i..N, Rendering(doc, k) # "none"
        PROVE  \E b \in DOMAIN r : k \in r[b].lines
    <2>1. CASE k < e
      <3>1. k \in T BY <1>9, <2>1 DEF T, Taken, N
      <3>2. 1 \in DOMAIN r /\ k \in r[1].lines BY <1>2, <1>4, <3>1
      <3> QED BY <3>2
    <2>2. CASE ~(k < e)
      <3>1. k \in e..N BY <1>1, <2>2
      <3>2. PICK b \in DOMAIN bs : k \in bs[b].lines BY <1>9, <3>1 DEF RendersFrom, N
      <3>3. 1 + b \in DOMAIN r /\ r[1 + b] = bs[b] BY <1>4, <1>5
      <3> QED BY <3>2, <3>3
    <2> QED BY <2>1, <2>2
  <1>10. ASSUME NEW a \in DOMAIN r, NEW b \in DOMAIN r, NEW k \in r[a].lines, NEW l \in r[b].lines
         PROVE  /\ k = l => a = b
                /\ k < l => IF Together(doc, k, l) THEN a = b ELSE a < b
    <2>1. CASE a = 1 /\ b = 1
      <3>1. k \in T /\ l \in T BY <1>2, <1>4, <2>1
      <3>2. k < l => Together(doc, k, l) BY <3>1 DEF T
      <3> QED BY <2>1, <3>2
    <2>2. CASE a = 1 /\ b # 1
      <3>1. k \in T BY <1>2, <1>4, <2>2
      <3>2. b - 1 \in DOMAIN bs /\ l \in bs[b - 1].lines /\ b > 1 BY <1>6, <2>2
      <3>3. l \in e..N BY <1>7, <3>2
      <3>4. ~Together(doc, k, l) BY <3>1, <3>3 DEF T, N
      <3>5. k # l BY <1>1, <3>1, <3>3
      <3> QED BY <2>2, <3>2, <3>4, <3>5
    <2>3. CASE a # 1 /\ b = 1
      <3>1. l \in T BY <1>2, <1>4, <2>3
      <3>2. a - 1 \in DOMAIN bs /\ k \in bs[a - 1].lines BY <1>6, <2>3
      <3>3. k \in e..N BY <1>7, <3>2
      <3>4. k # l /\ ~(k < l) BY <1>1, <3>1, <3>3
      <3> QED BY <3>4
    <2>4. CASE a # 1 /\ b # 1
      <3>1. /\ a - 1 \in DOMAIN bs /\ k \in bs[a - 1].lines
            /\ b - 1 \in DOMAIN bs /\ l \in bs[b - 1].lines
        BY <1>6, <2>4
      <3>2. /\ k = l => a - 1 = b - 1
            /\ k < l => IF Together(doc, k, l) THEN a - 1 = b - 1 ELSE a - 1 < b - 1
        BY <3>1 DEF RendersFrom
      <3>3. a \in Int /\ b \in Int BY <1>4
      <3>4. (a - 1 = b - 1 => a = b) /\ (a - 1 < b - 1 => a < b) BY <3>3
      <3> QED BY <3>2, <3>4
    <2> QED BY <2>1, <2>2, <2>3, <2>4
  <1>11. RendersFrom(doc, i, r) BY <1>4, <1>8, <1>9, <1>10 DEF RendersFrom, N
  <1> QED BY <1>11 DEF r, B, T

LEMMA BlocksRender ==
  ASSUME NEW doc \in Seq(Lines)
  PROVE  RendersFrom(doc, 1, Blocks(doc))
  <1> DEFINE N == Len(doc)
             g == CHOOSE f : f = From(doc, 1..(N + 2), f)
  <1>1. N \in Nat OBVIOUS
  <1>2. g = From(doc, 1..(N + 2), g)
    <2>1. LastLines(doc, N) = 1..(N + 2) BY <1>1 DEF LastLines
    <2>2. \E f : f = From(doc, 1..(N + 2), f) BY <1>1, <2>1, FromExists
    <2> QED BY <2>2
  <1>3. Blocks(doc) = g[1] BY DEF Blocks, From
  <1> HIDE DEF g
  <1>4. \A i \in 1..(N + 2) :
          g[i] = IF i > Len(doc) THEN <<>>
                 ELSE Construct(doc, i).blocks \o g[Construct(doc, i).next]
    BY <1>2 DEF From
  <1> DEFINE Good(i) == (i <= N => Entry(doc, i)) => RendersFrom(doc, i, g[i])
             S == {n \in Nat : \A i \in LastLines(doc, n) : Good(i)}
  <1>5. 0 \in S
    <2> SUFFICES ASSUME NEW i \in LastLines(doc, 0) PROVE RendersFrom(doc, i, g[i])
      OBVIOUS
    <2>1. i \in 1..(N + 2) /\ i > Len(doc) /\ i \in Nat BY <1>1 DEF LastLines
    <2>2. g[i] = <<>> BY <1>4, <2>1
    <2> QED BY <2>1, <2>2, NothingToRender
  <1>6. ASSUME NEW n \in Nat, n \in S PROVE n + 1 \in S
    <2> SUFFICES ASSUME NEW i \in LastLines(doc, n + 1), i <= N => Entry(doc, i)
                 PROVE  RendersFrom(doc, i, g[i])
      OBVIOUS
    <2>1. i \in 1..(N + 2) /\ i + (n + 1) >= N + 1 /\ i \in Nat BY <1>1 DEF LastLines
    <2>2. CASE i > Len(doc)
      <3>1. g[i] = <<>> BY <1>4, <2>1, <2>2
      <3> QED BY <2>1, <2>2, <3>1, NothingToRender
    <2>3. CASE ~(i > Len(doc))
      <3> DEFINE c == Construct(doc, i)
                 e == c.next
      <3>1. i \in 1..Len(doc) /\ Entry(doc, i) BY <1>1, <2>1, <2>3
      <3>2. TakesAll(doc, i, c) BY <3>1, ConstructTakesAll
      <3>3. g[i] = c.blocks \o g[e] BY <1>4, <2>1, <2>3
      <3> HIDE DEF c
      <3>4. e \in (i + 1)..(Len(doc) + 2) /\ (e <= Len(doc) => Entry(doc, e)) BY <3>2 DEF TakesAll
      <3>5. e \in LastLines(doc, n)
        <4> HIDE DEF e
        <4>1. e \in 1..(N + 2) /\ e + n >= N + 1 BY <1>1, <2>1, <3>1, <3>4
        <4> QED BY <4>1 DEF LastLines
      <3>6. RendersFrom(doc, e, g[e]) BY <1>6, <3>4, <3>5
      <3>7. CASE c.blocks = <<>> /\ Taken(doc, i, e) = {}
        <4>1. RendersFrom(doc, i, <<>> \o g[e]) BY <3>1, <3>4, <3>6, <3>7, PassesOver
        <4> QED BY <3>3, <3>7, <4>1
      <3>8. ASSUME NEW kind \in BlockKinds,
                   c.blocks = <<Block(kind, Taken(doc, i, e))>>,
                   \A k \in Taken(doc, i, e) : Rendering(doc, k) = kind,
                   \A k, l \in Taken(doc, i, e) : k < l => Together(doc, k, l)
            PROVE  RendersFrom(doc, i, g[i])
        <4>1. \A k \in Taken(doc, i, e) : \A l \in e..Len(doc) : ~Together(doc, k, l)
          BY <3>2 DEF TakesAll
        <4>2. RendersFrom(doc, i, <<Block(kind, Taken(doc, i, e))>> \o g[e])
          <5> HIDE DEF e
          <5> QED BY <3>1, <3>4, <3>6, <3>8, <4>1, PutsBefore
        <4> QED BY <3>3, <3>8, <4>2
      <3> QED BY <3>2, <3>7, <3>8 DEF TakesAll
    <2> QED BY <2>2, <2>3
  <1> HIDE DEF S
  <1>7. N \in S BY <1>1, <1>5, <1>6, Induct
  <1>8. 1 \in LastLines(doc, N) BY <1>1 DEF LastLines
  <1>9. Entry(doc, 1)
    <2>1. {j \in 1..(1 - 1) : doc[j] = "fence"} = {} OBVIOUS
    <2>2. ~InFence(doc, 1) BY <2>1, FS_EmptySet DEF InFence
    <2>3. ~Runs(doc, 1) BY DEF Runs
    <2> QED BY <2>2, <2>3 DEF Entry
  <1>10. RendersFrom(doc, 1, g[1]) BY <1>7, <1>8, <1>9 DEF S
  <1> QED BY <1>3, <1>10

LEMMA MinOfOne ==
  ASSUME NEW b \in Int PROVE Min({b}) = b
  <1>1. \E x \in {b} : \A y \in {b} : x =< y OBVIOUS
  <1> QED BY <1>1 DEF Min

\* MarkdownViewer, for documents of any length: every line that is to be rendered
\* is in exactly one block, of its own kind; lines of one run share their block
\* and all others come in the order of the document.
THEOREM MarkdownHolds == MarkdownFaithful
  <1> SUFFICES ASSUME NEW doc \in BoundedSeq(Lines, MaxLines)
               PROVE  LET blocks    == Blocks(doc)
                          Where(i)  == {b \in DOMAIN blocks : i \in blocks[b].lines}
                          placed    == {i \in DOMAIN doc : Rendering(doc, i) # "none"}
                      IN  /\ \A i \in DOMAIN doc : Where(i) # {} <=> i \in placed
                          /\ \A i \in placed : \E b \in DOMAIN blocks :
                               Where(i) = {b} /\ blocks[b].kind = Rendering(doc, i)
                          /\ \A i, j \in placed : i < j =>
                               IF Together(doc, i, j) THEN Where(i) = Where(j)
                               ELSE Min(Where(i)) < Min(Where(j))
    BY DEF MarkdownFaithful
  <1> DEFINE blocks    == Blocks(doc)
             Where(i)  == {b \in DOMAIN blocks : i \in blocks[b].lines}
             placed    == {i \in DOMAIN doc : Rendering(doc, i) # "none"}
  <1>1. doc \in Seq(Lines)
    <2>1. PICK m \in 0..MaxLines : doc \in [1..m -> Lines]
      BY DEF BoundedSeq, SeqOf
    <2> QED BY <2>1
  <1>2. RendersFrom(doc, 1, blocks) BY <1>1, BlocksRender
  <1>3. DOMAIN doc = 1..Len(doc) /\ DOMAIN blocks \subseteq Int
    <2>1. blocks \in Seq(AllBlocks) BY <1>2 DEF RendersFrom
    <2> HIDE DEF blocks
    <2>2. DOMAIN blocks = 1..Len(blocks) /\ Len(blocks) \in Nat BY <2>1
    <2> QED BY <1>1, <2>2
  <1> HIDE DEF blocks
  <1>4. ASSUME NEW i \in DOMAIN doc, Where(i) # {} PROVE i \in placed
    BY <1>2, <1>4 DEF RendersFrom
  <1>5. ASSUME NEW i \in placed
        PROVE  \E b \in DOMAIN blocks : Where(i) = {b} /\ blocks[b].kind = Rendering(doc, i)
    <2>1. PICK b \in DOMAIN blocks : i \in blocks[b].lines BY <1>2, <1>3 DEF RendersFrom
    <2>2. \A a \in Where(i) : a = b BY <1>2, <2>1 DEF RendersFrom
    <2>3. Where(i) = {b} BY <2>1, <2>2
    <2>4. blocks[b].kind = Rendering(doc, i) BY <1>2, <2>1 DEF RendersFrom
    <2> QED BY <2>3, <2>4
  <1>6. ASSUME NEW i \in placed, NEW j \in placed, i < j
        PROVE  IF Together(doc, i, j) THEN Where(i) = Where(j)
               ELSE Min(Where(i)) < Min(Where(j))
    <2>1. PICK a \in DOMAIN blocks : Where(i) = {a} BY <1>5
    <2>2. PICK b \in DOMAIN blocks : Where(j) = {b} BY <1>5
    <2>3. i \in blocks[a].lines /\ j \in blocks[b].lines BY <2>1, <2>2
    <2>4. IF Together(doc, i, j) THEN a = b ELSE a < b BY <1>2, <1>6, <2>3 DEF RendersFrom
    <2>5. Min(Where(i)) = a /\ Min(Where(j)) = b
      <3>1. a \in Int /\ b \in Int BY <1>3
      <3> HIDE DEF Where
      <3> QED BY <2>1, <2>2, <3>1, MinOfOne
    <2> HIDE DEF Where
    <2> QED BY <2>1, <2>2, <2>4, <2>5
  <1>7. \A i \in DOMAIN doc : Where(i) # {} <=> i \in placed
    <2>1. ASSUME NEW i \in placed PROVE Where(i) # {}
      <3> HIDE DEF Where
      <3> QED BY <1>5
    <2> QED BY <1>4, <2>1
  <1> HIDE DEF Where, placed
  <1> QED BY <1>5, <1>6, <1>7 DEF Where, placed, blocks

\* Every viewer that computes what it draws draws what the file says, whatever
\* the document and the series: MarkdownViewer's lines and ChartView's bars.
THEOREM ViewersHold == Spec => []ViewersFaithful
  <1>1. ViewersFaithful BY MarkdownHolds, BarsHold DEF ViewersFaithful
  <1> QED BY <1>1, PTL
=============================================================================
