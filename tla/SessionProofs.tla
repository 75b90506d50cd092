--------------------------- MODULE SessionProofs ---------------------------
(***************************************************************************)
(* Theorems about Session, for any number of runs and any programs.        *)
(***************************************************************************)
EXTENDS Session, SequenceTheorems, TLAPS

Live == {"connecting", "open"}

\* A run whose program has ended, or will never be heard of again.
Settled(s) == conn[s] \notin {"new", "connecting"} /\ serv[s] = "done"

\* Runs are opened in the order of their numbers, and only the newest is live.
RunsOrdered ==
  /\ {session, shown, cur, refs.snap} \subseteq 0..issued
  /\ state = "running" => /\ session = issued /\ session # 0
                          /\ cur = session \/ conn[session] = "new"
  /\ \A s \in Runs : s > issued => conn[s] = "new"
  /\ \A s \in Runs : conn[s] \in Live => s = cur
  /\ ~mounted => cur = 0

\* An exit frame speaks of a program that has ended.
ExitIsLast ==
  \A s \in Runs :
    /\ serv[s] = "writing" => result[s] \in Results
    /\ \A i \in DOMAIN wire[s] :
         wire[s][i].kind = "exit" =>
           conn[s] = "open" /\ serv[s] = "done" /\ result[s] \in Results

SocketsInv == RunsOrdered /\ ExitIsLast

\* The snapshot a ref holds comes with the trap mark, if its run trapped.
SnapshotMarked ==
  refs.snap # 0 =>
    /\ Settled(refs.snap) /\ result[refs.snap].files
    /\ result[refs.snap].end = "trap" => refs.trap

ShownSettled == shown # 0 => Settled(shown)

\* The files on display are not newer than those to come.
FilesOrdered ==
  /\ refs.snap # 0 => shown <= refs.snap
  /\ cur # 0 => shown <= cur /\ refs.snap <= cur

FilesOK == SnapshotMarked /\ ShownSettled /\ FilesOrdered /\ NoFilesOfTrappedRun

FilesInv == TypeOK /\ SocketsInv /\ FilesOK

\* The refs hold what the exit frame of s said.
Match(s) ==
  /\ serv[s] = "done" /\ result[s] \in Results
  /\ refs.code = CodeOf(result[s])
  /\ result[s].end = "trap" => refs.trap

\* A normal close comes last, right after the exit frame, and speaks of a program
\* that has ended; a socket the browser let go of carries no frames any more.
NormalOK(s) ==
  /\ conn[s] \notin Live => wire[s] = <<>>
  /\ conn[s] \in {"failing", "closing"} => serv[s] = "done"
  /\ \A i \in DOMAIN wire[s] :
       wire[s][i].kind = "normal" =>
         /\ i = Len(wire[s]) /\ serv[s] = "done"
         /\ i = 1 => s \in stale \/ Match(s)
         /\ i > 1 => wire[s][i - 1].kind = "exit"

NormalAfterExit == \A s \in Runs : NormalOK(s)

\* The live effect is that of the session, unless a newer one waits to be rendered;
\* without a live effect every socket on its way out is marked as intentional.
CurOK ==
  /\ cur # 0 => /\ conn[cur] \in {"connecting", "open", "closed"}
                /\ session = cur \/ (session # 0 /\ conn[session] = "new")
  /\ cur = 0 /\ ~intentional => \A s \in Runs : conn[s] \in {"new", "closed"}

OutcomeSettled == state \in {"complete", "nonzero"} => by # 0 /\ Settled(by)

OutcomeOK == OutcomeSettled /\ TruthfulSuccess

TruthInv == FilesInv /\ NormalAfterExit /\ CurOK /\ OutcomeOK
-----------------------------------------------------------------------------
\* Joining, cutting and taking apart sequences keeps their elements.
LEMMA ConcatType ==
  ASSUME NEW S, NEW q \in Seq(S), NEW r \in Seq(S)
  PROVE  q \o r \in Seq(S)
  BY ConcatProperties

LEMMA SubSeqType ==
  ASSUME NEW S, NEW q \in Seq(S), NEW m \in Nat \ {0}, NEW n \in 0..Len(q)
  PROVE  SubSeq(q, m, n) \in Seq(S)
  BY SubSeqProperties, LenProperties

LEMMA TailType ==
  ASSUME NEW S, NEW q \in Seq(S), q # <<>>
  PROVE  Head(q) \in S /\ Tail(q) \in Seq(S)
  BY HeadTailProperties

LEMMA FlushAllType ==
  ASSUME TypeOK, FlushAll
  PROVE  /\ buffer' \in Seq(Runs \X Nat) /\ screen' \in Seq(Runs \X Nat)
         /\ raf' \in BOOLEAN /\ unseen' \subseteq Runs
<1>1. RunsIn(buffer) \subseteq Runs
  BY ElementOfSeq DEF RunsIn, TypeOK, TerminalOK
<1>2. screen \o buffer \in Seq(Runs \X Nat)
  BY ConcatType DEF TypeOK, TerminalOK
<1>3. <<>> \in Seq(Runs \X Nat)
  OBVIOUS
<1> QED
  BY <1>1, <1>2, <1>3 DEF FlushAll, TypeOK, TerminalOK, HistoryOK

LEMMA SocketEffectType ==
  ASSUME TypeOK, NEW want \in 0..MaxRuns, SocketEffect(want)
  PROVE  /\ cur' \in 0..MaxRuns /\ intentional' \in BOOLEAN /\ raf' \in BOOLEAN
         /\ buffer' \in Seq(Runs \X Nat) /\ screen' \in Seq(Runs \X Nat)
         /\ unseen' \subseteq Runs
         /\ SocketsOK'
<1>1. CASE want = cur
  BY <1>1 DEF SocketEffect, TypeOK, TerminalOK, SocketsOK, HistoryOK, server
<1>2. CASE want # cur
  <2>1. /\ buffer' \in Seq(Runs \X Nat) /\ screen' \in Seq(Runs \X Nat)
        /\ raf' \in BOOLEAN /\ unseen' \subseteq Runs
    <3>1. Cleanup
      BY <1>2 DEF SocketEffect
    <3> QED
      BY <3>1, FlushAllType DEF Cleanup, TypeOK, TerminalOK, HistoryOK
  <2>2. conn' \in [Runs -> {"new", "connecting", "open", "failing", "closing", "closed"}]
    BY <1>2 DEF SocketEffect, Closing, TypeOK, SocketsOK
  <2>3. <<>> \in Seq(Frames) /\ 0 \in 0..MaxChunks
    BY SessionAssumption
  <2>4. /\ serv' \in [Runs -> {"idle", "executing", "writing", "done"}]
        /\ wire' \in [Runs -> Seq(Frames)]
        /\ result' \in [Runs -> Results \cup {None, Failed}]
        /\ written' \in [Runs -> 0..MaxChunks]
    <3>1. Forgets({cur})
      BY <1>2 DEF SocketEffect
    <3>2. /\ serv' \in [Runs -> {"idle", "executing", "writing", "done"}]
          /\ result' \in [Runs -> Results \cup {None, Failed}]
      BY <3>1 DEF Forgets, TypeOK, SocketsOK
    <3>3. wire' \in [Runs -> Seq(Frames)]
      BY <2>3, <3>1 DEF Forgets, TypeOK, SocketsOK
    <3>4. written' \in [Runs -> 0..MaxChunks]
      BY <2>3, <3>1 DEF Forgets, TypeOK, SocketsOK
    <3> QED
      BY <3>2, <3>3, <3>4
  <2> QED
    BY <1>2, <2>1, <2>2, <2>4 DEF SocketEffect, SocketsOK
<1> QED
  BY <1>1, <1>2

LEMMA NoRefsType ==
  NoRefs \in [snap : 0..MaxRuns, code : {"none", "zero", "nonzero"}, trap : BOOLEAN]
  BY SessionAssumption DEF NoRefs

LEMMA TypeInit == Init => TypeOK
<1> SUFFICES ASSUME Init PROVE TypeOK
  OBVIOUS
<1> USE SessionAssumption DEF Init
<1>1. ConsoleOK
  BY DEF ConsoleOK, States
<1>2. TerminalOK
  <2>1. <<>> \in Seq(Runs \X Nat)
    OBVIOUS
  <2> QED
    <3>1. 0 \in 0..MaxRuns
      OBVIOUS
    <3> QED
      BY <2>1, <3>1, NoRefsType, Zenon DEF TerminalOK
<1>3. SocketsOK
  BY DEF SocketsOK, None
<1>4. HistoryOK
  BY DEF HistoryOK
<1> QED
  BY <1>1, <1>2, <1>3, <1>4 DEF TypeOK

LEMMA WantedType ==
  ASSUME NEW st, NEW se \in 0..MaxRuns PROVE Wanted(st, se) \in 0..MaxRuns
  BY SessionAssumption DEF Wanted

\* Every step keeps the types of the console.
LEMMA ConsoleStep == TypeOK /\ [Next]_vars => ConsoleOK'
<1> SUFFICES ASSUME TypeOK, [Next]_vars PROVE ConsoleOK'
  OBVIOUS
<1> USE SessionAssumption DEF TypeOK, ConsoleOK, States
<1>1. CASE User
  <2>1. CASE handleRun
    BY <2>1 DEF handleRun, SetNow
  <2>2. CASE handleStop
    BY <2>2 DEF handleStop, SetNow
  <2>3. CASE handleReset
    BY <2>3 DEF handleReset, SetNow
  <2>4. CASE handleCompileAndRun \/ handleReconnect
    <3>1. CASE handleCompileAndRun
      BY <3>1 DEF handleCompileAndRun
    <3>2. CASE handleReconnect
      <4>1. 0 \in 0..MaxRuns
        OBVIOUS
      <4> QED
        BY <3>2, <4>1, Zenon DEF handleReconnect
    <3> QED
      BY <2>4, <3>1, <3>2
  <2> QED
    BY <1>1, <2>1, <2>2, <2>3, <2>4 DEF User
<1>2. CASE handleCompiled \/ CompileFails \/ Render \/ handleCrash
  <2>1. CASE handleCompiled
    BY <2>1 DEF handleCompiled
  <2>2. CASE CompileFails
    BY <2>2 DEF CompileFails
  <2>3. CASE Render \/ handleCrash
    BY <2>3 DEF Render, handleCrash
  <2> QED
    BY <1>2, <2>1, <2>2, <2>3
<1>3. CASE XtermLoads \/ flushBuffer
  BY <1>3 DEF XtermLoads, flushBuffer, console
<1>4. ASSUME NEW s \in Runs, Server(s) \/ Lose(s) \/ OnOpen(s) PROVE ConsoleOK'
  BY <1>4 DEF Server, ExecuteFails, ExecuteReturns, WriteChunk, WriteExit, Lose, OnOpen, console
<1>5. ASSUME NEW s \in Runs, OnChunk(s) \/ OnErrorFrame(s) \/ OnExit(s) PROVE ConsoleOK'
  BY <1>5 DEF OnChunk, OnErrorFrame, OnExit, Delivers, console
<1>6. ASSUME NEW s \in Runs, OnClose(s) PROVE ConsoleOK'
  BY <1>6 DEF OnClose, Reports, OnEnd, TerminalOK
<1>7. CASE UNCHANGED vars
  BY <1>7 DEF vars, console
<1> QED
  BY <1>1, <1>2, <1>3, <1>4, <1>5, <1>6, <1>7 DEF Next, Socket

\* Every step keeps the types of the terminal and the history.
LEMMA TerminalStep == TypeOK /\ [Next]_vars => TerminalOK' /\ HistoryOK'
<1> SUFFICES ASSUME TypeOK, [Next]_vars PROVE TerminalOK' /\ HistoryOK'
  OBVIOUS
<1> USE SessionAssumption
<1>1. ASSUME NEW st, NEW se \in 0..MaxRuns, SetNow(st, se), UNCHANGED <<by, stale>>
      PROVE  TerminalOK' /\ HistoryOK'
  BY <1>1, WantedType, SocketEffectType DEF SetNow, TypeOK, TerminalOK, HistoryOK
<1>2. CASE handleRun \/ handleStop \/ handleReset
  BY <1>1, <1>2 DEF handleRun, handleStop, handleReset, TypeOK, ConsoleOK
<1>3. CASE handleCompileAndRun \/ CompileFails \/ handleCompiled \/ handleReconnect
  BY <1>3 DEF handleCompileAndRun, CompileFails, handleCompiled, handleReconnect, term, history,
              TypeOK, TerminalOK, HistoryOK
<1>4. CASE Render
  BY <1>4, WantedType, SocketEffectType DEF Render, TypeOK, ConsoleOK, TerminalOK, HistoryOK
<1>5. CASE handleCrash
  <2>1. <<>> \in Seq(Runs \X Nat)
    OBVIOUS
  <2>2. TerminalOK'
    <3>1. 0 \in 0..MaxRuns
      OBVIOUS
    <3> QED
      BY <1>5, <2>1, <3>1, NoRefsType, Zenon DEF handleCrash, TerminalOK
  <2>3. HistoryOK'
    BY <1>5 DEF handleCrash, TypeOK, ConsoleOK, HistoryOK
  <2> QED
    BY <2>2, <2>3
<1>6. CASE XtermLoads
  BY <1>6 DEF XtermLoads, history, TypeOK, TerminalOK, HistoryOK
<1>7. CASE flushBuffer
  <2>1. CASE ready
    <3> DEFINE n == IF PerFrame < Len(buffer) THEN PerFrame ELSE Len(buffer)
    <3>1. n \in 0..Len(buffer) /\ n + 1 \in Nat \ {0} /\ Len(buffer) \in 0..Len(buffer)
      BY LenProperties DEF TypeOK, TerminalOK
    <3>2. /\ SubSeq(buffer, 1, n) \in Seq(Runs \X Nat)
          /\ SubSeq(buffer, n + 1, Len(buffer)) \in Seq(Runs \X Nat)
      <4> HIDE DEF n
      <4> QED
        BY <3>1, SubSeqType DEF TypeOK, TerminalOK
    <3>3. screen \o SubSeq(buffer, 1, n) \in Seq(Runs \X Nat)
      <4> HIDE DEF n
      <4> QED
        BY <3>2, ConcatType DEF TypeOK, TerminalOK
    <3>4. /\ screen' = screen \o SubSeq(buffer, 1, n)
          /\ buffer' = SubSeq(buffer, n + 1, Len(buffer))
      BY <1>7, <2>1 DEF flushBuffer
    <3>5. raf' = (n < Len(buffer))
      BY <1>7, <2>1 DEF flushBuffer
    <3>6. raf' \in BOOLEAN
      <4> HIDE DEF n
      <4> QED
        BY <3>5
    <3> HIDE DEF n
    <3> QED
      BY <1>7, <3>2, <3>3, <3>4, <3>6 DEF flushBuffer, history, TypeOK, TerminalOK, HistoryOK
  <2>2. CASE ~ready
    BY <1>7, <2>2 DEF flushBuffer, history, TypeOK, TerminalOK, HistoryOK
  <2> QED
    BY <2>1, <2>2
<1>8. ASSUME NEW s \in Runs, Server(s) \/ Lose(s) \/ OnOpen(s)
      PROVE  TerminalOK' /\ HistoryOK'
  BY <1>8 DEF Server, ExecuteFails, ExecuteReturns, WriteChunk, WriteExit, Lose, OnOpen, term, history,
              TypeOK, TerminalOK, HistoryOK
<1>9. ASSUME NEW s \in Runs, OnChunk(s) PROVE TerminalOK' /\ HistoryOK'
  <2>1. Head(wire[s]) \in Frames
    BY <1>9, TailType DEF OnChunk, Delivers, TypeOK, SocketsOK
  <2>2. <<s, Head(wire[s]).n>> \in Runs \X Nat
    BY <2>1 DEF Frames
  <2>3. Append(buffer, <<s, Head(wire[s]).n>>) \in Seq(Runs \X Nat)
    BY <2>2, AppendProperties DEF TypeOK, TerminalOK
  <2> QED
    BY <1>9, <2>3 DEF OnChunk, Delivers, TypeOK, TerminalOK, HistoryOK
<1>10. ASSUME NEW s \in Runs, OnErrorFrame(s) PROVE TerminalOK' /\ HistoryOK'
  BY <1>10 DEF OnErrorFrame, Delivers, TypeOK, TerminalOK, HistoryOK
<1>11. ASSUME NEW s \in Runs, OnExit(s) PROVE TerminalOK' /\ HistoryOK'
  <2>1. refs' \in [snap : 0..MaxRuns, code : {"none", "zero", "nonzero"}, trap : BOOLEAN]
    BY <1>11 DEF OnExit, CodeOf, Runs, TypeOK, TerminalOK
  <2> QED
    BY <1>11, <2>1, FlushAllType DEF OnExit, Delivers, TypeOK, TerminalOK, HistoryOK
<1>12. ASSUME NEW s \in Runs, OnClose(s) PROVE TerminalOK' /\ HistoryOK'
  <2>1. refs' \in [snap : 0..MaxRuns, code : {"none", "zero", "nonzero"}, trap : BOOLEAN]
    <3>1. refs' = refs \/ refs' = NoRefs
      BY <1>12 DEF OnClose, Reports
    <3> QED
      BY <3>1, NoRefsType DEF TypeOK, TerminalOK
  <2>2. by' \in 0..MaxRuns /\ stale' \subseteq 0..MaxRuns
    <3>1. by' \in {by, s} /\ (stale' = stale \/ stale' = stale \cup {cur})
      BY <1>12 DEF OnClose
    <3> QED
      <4>1. s \in 0..MaxRuns /\ cur \in 0..MaxRuns
        BY DEF Runs, TypeOK, TerminalOK
      <4> QED
        BY <3>1, <4>1, Zenon DEF TypeOK, HistoryOK
  <2> QED
    BY <1>12, <2>1, <2>2 DEF OnClose, TypeOK, TerminalOK, HistoryOK
<1>13. CASE UNCHANGED vars
  BY <1>13 DEF vars, term, history, TypeOK, TerminalOK, HistoryOK
<1> QED
  BY <1>2, <1>3, <1>4, <1>5, <1>6, <1>7, <1>8, <1>9, <1>10, <1>11, <1>12, <1>13 DEF Next, User, Socket

\* Every step keeps the types of the sockets.
LEMMA SocketsStep == TypeOK /\ [Next]_vars => SocketsOK'
<1> SUFFICES ASSUME TypeOK, [Next]_vars PROVE SocketsOK'
  OBVIOUS
<1> USE SessionAssumption
<1>1. CASE handleRun \/ handleStop \/ handleReset \/ Render
  <2>1. session \in 0..MaxRuns /\ (issued < MaxRuns => issued + 1 \in 0..MaxRuns) /\ 0 \in 0..MaxRuns
    BY DEF TypeOK, ConsoleOK
  <2>2. PICK want \in 0..MaxRuns : SocketEffect(want)
    BY <1>1, <2>1, WantedType DEF handleRun, handleStop, handleReset, Render, SetNow
  <2> QED
    BY <2>2, SocketEffectType
<1>2. CASE handleCompileAndRun \/ CompileFails \/ handleCompiled \/ handleReconnect \/ XtermLoads \/ flushBuffer
  BY <1>2 DEF handleCompileAndRun, CompileFails, handleCompiled, handleReconnect, XtermLoads, flushBuffer,
              server, TypeOK, SocketsOK
<1>3. CASE handleCrash
  <2>1. <<>> \in Seq(Frames) /\ 0 \in 0..MaxChunks
    OBVIOUS
  <2> QED
    BY <1>3, <2>1 DEF handleCrash, Forgets, TypeOK, SocketsOK
<1>4. ASSUME NEW s \in Runs, NEW q \in Seq(Frames), Sends(s, q)
      PROVE  wire' \in [Runs -> Seq(Frames)]
  <2>1. wire[s] \o q \in Seq(Frames)
    BY ConcatType DEF TypeOK, SocketsOK
  <2> QED
    BY <1>4, <2>1 DEF Sends, TypeOK, SocketsOK
<1>5. ASSUME NEW kind \in {"chunk", "error", "exit", "normal", "abnormal"}, NEW n \in 0..MaxChunks
      PROVE  Frame(kind, n) \in Frames
  BY DEF Frame, Frames
<1>6. ASSUME NEW s \in Runs, OnOpen(s) \/ ExecuteReturns(s) PROVE SocketsOK'
  <2>1. CASE OnOpen(s)
    BY <2>1 DEF OnOpen, TypeOK, SocketsOK
  <2>2. CASE ExecuteReturns(s)
    BY <2>2 DEF ExecuteReturns, TypeOK, SocketsOK
  <2> QED
    BY <1>6, <2>1, <2>2
<1>7. ASSUME NEW s \in Runs, ExecuteFails(s) \/ WriteExit(s) PROVE SocketsOK'
  <2>1. /\ <<Frame("error", 0), Frame("abnormal", 0)>> \in Seq(Frames)
        /\ <<Frame("exit", 0), Frame("normal", 0)>> \in Seq(Frames)
    BY <1>5
  <2>2. wire' \in [Runs -> Seq(Frames)]
    BY <1>4, <1>7, <2>1 DEF ExecuteFails, WriteExit
  <2>3. SocketsOK'
    <3>1. CASE ExecuteFails(s)
      BY <3>1, <2>2 DEF ExecuteFails, TypeOK, SocketsOK
    <3>2. CASE WriteExit(s)
      <4>1. 0 \in 0..MaxChunks
        OBVIOUS
      <4>2. written' \in [Runs -> 0..MaxChunks]
        BY <3>2, <4>1 DEF WriteExit, TypeOK, SocketsOK
      <4>3. serv' \in [Runs -> {"idle", "executing", "writing", "done"}]
        BY <3>2 DEF WriteExit, TypeOK, SocketsOK
      <4> QED
        BY <3>2, <2>2, <4>2, <4>3, Zenon DEF WriteExit, TypeOK, SocketsOK
    <3> QED
      BY <1>7, <3>1, <3>2
  <2> QED
    BY <2>3
<1>8. ASSUME NEW s \in Runs, WriteChunk(s) PROVE SocketsOK'
  <2>1. result[s].chunks \in 0..MaxChunks
    <3>1. result[s] \in Results \cup {None, Failed}
      BY DEF TypeOK, SocketsOK
    <3> QED
      BY <3>1, SessionAssumption DEF None, Failed
  <2>2. written[s] + 1 \in 0..MaxChunks
    BY <1>8, <2>1 DEF WriteChunk, TypeOK, SocketsOK
  <2>3. <<Frame("chunk", written[s] + 1)>> \in Seq(Frames)
    BY <1>5, <2>2
  <2>4. wire' \in [Runs -> Seq(Frames)]
    BY <1>4, <1>8, <2>3 DEF WriteChunk
  <2> QED
    BY <1>8, <2>2, <2>4 DEF WriteChunk, TypeOK, SocketsOK
<1>9. ASSUME NEW s \in Runs, Lose(s) PROVE SocketsOK'
  <2>1. PICK k \in 0..Len(wire[s]) :
          wire' = [wire EXCEPT ![s] = SubSeq(@, 1, k) \o <<Frame("abnormal", 0)>>]
    BY <1>9 DEF Lose
  <2>2. SubSeq(wire[s], 1, k) \in Seq(Frames)
    BY SubSeqType DEF TypeOK, SocketsOK
  <2>3. <<Frame("abnormal", 0)>> \in Seq(Frames)
    BY <1>5
  <2>4. SubSeq(wire[s], 1, k) \o <<Frame("abnormal", 0)>> \in Seq(Frames)
    BY <2>2, <2>3, ConcatType
  <2>5. wire' \in [Runs -> Seq(Frames)]
    BY <2>1, <2>4 DEF TypeOK, SocketsOK
  <2> QED
    BY <1>9, <2>5 DEF Lose, TypeOK, SocketsOK
<1>10. ASSUME NEW s \in Runs, NEW kind, Delivers(s, kind) PROVE SocketsOK'
  BY <1>10, TailType DEF Delivers, TypeOK, SocketsOK
<1>11. ASSUME NEW s \in Runs, OnClose(s) PROVE SocketsOK'
  BY <1>11 DEF OnClose, TypeOK, SocketsOK
<1>12. CASE UNCHANGED vars
  BY <1>12 DEF vars, server, TypeOK, SocketsOK
<1> QED
  BY <1>1, <1>2, <1>3, <1>6, <1>7, <1>8, <1>9, <1>10, <1>11, <1>12
     DEF Next, User, Server, Socket, OnChunk, OnErrorFrame, OnExit

LEMMA TypeStep == TypeOK /\ [Next]_vars => TypeOK'
  BY ConsoleStep, TerminalStep, SocketsStep DEF TypeOK

\* Every reachable state of the console, the terminal and the sockets is well typed.
THEOREM TypeCorrect == Spec => []TypeOK
  BY TypeInit, TypeStep, PTL DEF Spec
-----------------------------------------------------------------------------
(***************************************************************************)
(* Files.                                                                  *)
(***************************************************************************)
\* What a step may not undo: a settled run stays settled, with its result.
SettledKept == \A s \in Runs : Settled(s) => Settled(s)' /\ result'[s] = result[s]

LEMMA EffectRuns ==
  ASSUME TypeOK, SocketsInv, NEW want \in 0..MaxRuns, SocketEffect(want),
         want = 0 \/ want = cur \/ conn[want] = "new"
  PROVE  /\ cur' = want
         /\ \A s \in Runs : conn'[s] \in Live => s = cur'
         /\ \A s \in Runs : s # want /\ conn[s] = "new" => conn'[s] = "new"
         /\ SettledKept
         /\ ExitIsLast'
<1> USE DEF TypeOK, SocketsOK, SocketsInv, RunsOrdered, Live
<1>1. CASE want = cur
  BY <1>1 DEF SocketEffect, server, SettledKept, Settled, ExitIsLast
<1>2. CASE want # cur
  <2>1. /\ cur' = want
        /\ conn' = [s \in Runs |-> IF s = want THEN "connecting"
                                   ELSE IF s = cur THEN Closing(s) ELSE conn[s]]
        /\ serv' = [s \in Runs |-> IF s \in {cur} THEN "done" ELSE serv[s]]
        /\ wire' = [s \in Runs |-> IF s \in {cur} THEN <<>> ELSE wire[s]]
        /\ result' = result
    BY <1>2 DEF SocketEffect, Forgets
  <2>2. \A s \in Runs : s # want => conn'[s] \notin Live
    BY <2>1 DEF Closing
  <2>3. \A s \in Runs : conn'[s] \in Live => s = cur'
    BY <2>1, <2>2
  <2>4. \A s \in Runs : s # want /\ conn[s] = "new" => conn'[s] = "new"
    BY <2>1 DEF Closing
  <2>5. SettledKept
    BY <1>2, <2>1 DEF SettledKept, Settled, Closing, Runs
  <2>6. ExitIsLast'
    <3> SUFFICES ASSUME NEW s \in Runs
                 PROVE  /\ serv'[s] = "writing" => result'[s] \in Results
                        /\ \A i \in DOMAIN wire'[s] :
                             wire'[s][i].kind = "exit" =>
                               conn'[s] = "open" /\ serv'[s] = "done" /\ result'[s] \in Results
      BY DEF ExitIsLast
    <3>1. serv'[s] = "writing" => result'[s] \in Results
      BY <2>1 DEF ExitIsLast
    <3>2. CASE s = cur
      BY <2>1, <3>1, <3>2
    <3>3. CASE s # cur
      <4>1. wire'[s] = wire[s] /\ serv'[s] = serv[s]
        BY <2>1, <3>3
      <4>2. s = want => conn[s] = "new"
        BY <1>2, <3>3 DEF Runs
      <4>3. s # want => conn'[s] = conn[s]
        BY <2>1, <3>3
      <4> QED
        BY <2>1, <3>1, <4>1, <4>2, <4>3 DEF ExitIsLast
    <3> QED
      BY <3>2, <3>3
  <2> QED
    BY <2>1, <2>3, <2>4, <2>5, <2>6
<1> QED
  BY <1>1, <1>2

\* A frame of a joined, cut or shortened sequence was in the sequence.
LEMMA FramesOfConcat ==
  ASSUME NEW S, NEW q \in Seq(S), NEW r \in Seq(S), NEW i \in DOMAIN (q \o r)
  PROVE  \/ i \in DOMAIN q /\ (q \o r)[i] = q[i]
         \/ i - Len(q) \in DOMAIN r /\ (q \o r)[i] = r[i - Len(q)]
  BY ConcatProperties, LenProperties

LEMMA FramesOfTail ==
  ASSUME NEW S, NEW q \in Seq(S), q # <<>>, NEW i \in DOMAIN Tail(q)
  PROVE  i + 1 \in DOMAIN q /\ Tail(q)[i] = q[i + 1] /\ Len(q) = Len(Tail(q)) + 1 /\ i \in 1..Len(Tail(q))
  BY HeadTailProperties, LenProperties

LEMMA FramesOfSubSeq ==
  ASSUME NEW S, NEW q \in Seq(S), NEW k \in 0..Len(q), NEW i \in DOMAIN SubSeq(q, 1, k)
  PROVE  i \in 1..k /\ i \in DOMAIN q /\ SubSeq(q, 1, k)[i] = q[i]
  BY SubSeqProperties, LenProperties

\* Steps that move no run: the frames and the run's place in WSExecute aside.
LEMMA SocketsInvSame ==
  ASSUME SocketsInv, UNCHANGED <<state, session, mounted, shown, issued, cur, conn>>, refs'.snap = refs.snap
  PROVE  RunsOrdered'
  BY DEF SocketsInv, RunsOrdered

LEMMA SocketsInvStep ==
  TypeOK /\ TypeOK' /\ SocketsInv /\ [Next]_vars => SocketsInv' /\ SettledKept
<1> SUFFICES ASSUME TypeOK, TypeOK', SocketsInv, [Next]_vars PROVE SocketsInv' /\ SettledKept
  OBVIOUS
<1>1. /\ session \in 0..issued /\ shown \in 0..issued /\ cur \in 0..issued /\ refs.snap \in 0..issued
      /\ issued \in 0..MaxRuns /\ MaxRuns \in Nat
  BY SessionAssumption DEF SocketsInv, RunsOrdered, TypeOK, ConsoleOK
<1>2. ASSUME NEW st \in {"idle", "running"}, NEW se \in 0..issued', SetNow(st, se),
             issued' \in {issued, issued + 1}, issued' \in 0..MaxRuns, shown' \in {shown, 0},
             st = "running" => se = issued' /\ issued' = issued + 1
      PROVE  SocketsInv' /\ SettledKept
  <2> DEFINE want == Wanted(st, se)
  <2>1. want \in 0..MaxRuns /\ want \in {0, se} /\ (want # 0 => st = "running") /\ (~mounted => want = 0)
    BY <1>1, <1>2 DEF Wanted
  <2>2. want = 0 \/ conn[want] = "new"
    BY <1>1, <1>2, <2>1 DEF SocketsInv, RunsOrdered, Runs
  <2>3. SocketEffect(want) /\ state' = st /\ session' = se /\ refs' = refs /\ mounted' = mounted
    BY <1>2 DEF SetNow
  <2> HIDE DEF want
  <2>4. /\ cur' = want
        /\ \A s \in Runs : conn'[s] \in Live => s = cur'
        /\ \A s \in Runs : s # want /\ conn[s] = "new" => conn'[s] = "new"
        /\ SettledKept
        /\ ExitIsLast'
    BY <2>1, <2>2, <2>3, EffectRuns
  <2>5. \A s \in Runs : s > issued' => conn'[s] = "new"
    BY <1>1, <1>2, <2>1, <2>4 DEF SocketsInv, RunsOrdered, Runs
  <2>6. state' = "running" => /\ session' = issued' /\ session' # 0
                              /\ cur' = session' \/ conn'[session'] = "new"
    BY <1>1, <1>2, <2>1, <2>3, <2>4 DEF SocketsInv, RunsOrdered, Runs
  <2>7. {session', shown', cur', refs'.snap} \subseteq 0..issued'
    BY <1>1, <1>2, <2>1, <2>3, <2>4
  <2> QED
    BY <2>1, <2>3, <2>4, <2>5, <2>6, <2>7 DEF SocketsInv, RunsOrdered
<1>3. CASE handleRun
  BY <1>1, <1>2, <1>3 DEF handleRun
<1>4. CASE handleStop \/ handleReset
  BY <1>1, <1>2, <1>4 DEF handleStop, handleReset
<1>5. CASE handleCompileAndRun \/ CompileFails
  BY <1>5 DEF handleCompileAndRun, CompileFails, term, server, SocketsInv, RunsOrdered, ExitIsLast,
              SettledKept, Settled
<1>6. CASE handleCompiled
  <2>1. conn[issued + 1] = "new"
    BY <1>1, <1>6 DEF handleCompiled, SocketsInv, RunsOrdered, Runs
  <2>2. RunsOrdered'
    BY <1>1, <1>6, <2>1 DEF handleCompiled, term, SocketsInv, RunsOrdered, Runs
  <2>3. ExitIsLast' /\ SettledKept
    BY <1>6 DEF handleCompiled, server, SocketsInv, ExitIsLast, SettledKept, Settled
  <2> QED
    BY <2>2, <2>3 DEF SocketsInv
<1>7. CASE Render
  <2> DEFINE want == Wanted(state, session)
  <2>1. /\ want \in 0..MaxRuns /\ want \in {0, session}
        /\ want # 0 => state = "running"
        /\ ~mounted => want = 0
        /\ mounted /\ state = "running" => want = session
    BY <1>1 DEF Wanted
  <2>2. want = 0 \/ want = cur \/ conn[want] = "new"
    BY <2>1 DEF SocketsInv, RunsOrdered
  <2>3. SocketEffect(want) /\ UNCHANGED <<state, session, mounted, issued, shown, refs>>
    BY <1>7 DEF Render
  <2> HIDE DEF want
  <2>4. /\ cur' = want
        /\ \A s \in Runs : conn'[s] \in Live => s = cur'
        /\ \A s \in Runs : s # want /\ conn[s] = "new" => conn'[s] = "new"
        /\ SettledKept
        /\ ExitIsLast'
    BY <2>1, <2>2, <2>3, EffectRuns
  <2>5. \A s \in Runs : s > issued' => conn'[s] = "new"
    BY <1>1, <2>1, <2>3, <2>4 DEF SocketsInv, RunsOrdered, Runs
  <2>6. state' = "running" => /\ session' = issued' /\ session' # 0
                              /\ cur' = session' \/ conn'[session'] = "new"
    <3>1. CASE mounted
      BY <2>1, <2>3, <2>4, <3>1 DEF SocketsInv, RunsOrdered
    <3>2. CASE ~mounted
      BY <1>1, <2>1, <2>3, <2>4, <3>2 DEF SocketsInv, RunsOrdered, Runs
    <3> QED
      BY <3>1, <3>2
  <2>7. {session', shown', cur', refs'.snap} \subseteq 0..issued'
    BY <1>1, <2>1, <2>3, <2>4
  <2> QED
    BY <2>1, <2>3, <2>4, <2>5, <2>6, <2>7 DEF SocketsInv, RunsOrdered
<1>8. CASE handleCrash
  <2>1. RunsOrdered'
    BY <1>1, <1>8 DEF handleCrash, NoRefs, SocketsInv, RunsOrdered, Live, TypeOK, SocketsOK
  <2>2. \A s \in Runs : s = cur \/ conn[s] # "open"
    BY DEF SocketsInv, RunsOrdered, Live
  <2>3. ExitIsLast'
    BY <1>8, <2>2 DEF handleCrash, Forgets, SocketsInv, ExitIsLast, TypeOK, SocketsOK
  <2>4. SettledKept
    BY <1>8 DEF handleCrash, Forgets, SettledKept, Settled, TypeOK, SocketsOK
  <2> QED
    BY <2>1, <2>3, <2>4 DEF SocketsInv
<1>9. CASE handleReconnect
  BY <1>1, <1>9 DEF handleReconnect, term, server, SocketsInv, RunsOrdered, ExitIsLast, SettledKept, Settled
<1>10. CASE XtermLoads \/ flushBuffer
  BY <1>10 DEF XtermLoads, flushBuffer, console, server, SocketsInv, RunsOrdered, ExitIsLast,
               SettledKept, Settled
<1>11. ASSUME NEW s \in Runs, OnOpen(s) PROVE SocketsInv' /\ SettledKept
  <2>1. RunsOrdered'
    BY <1>1, <1>11 DEF OnOpen, console, term, SocketsInv, RunsOrdered, Live, TypeOK, SocketsOK
  <2>2. ExitIsLast' /\ SettledKept
    BY <1>11 DEF OnOpen, SocketsInv, ExitIsLast, SettledKept, Settled, TypeOK, SocketsOK
  <2> QED
    BY <2>1, <2>2 DEF SocketsInv
<1>12. ASSUME NEW s \in Runs, ExecuteReturns(s) PROVE SocketsInv' /\ SettledKept
  <2>1. RunsOrdered'
    BY <1>12, SocketsInvSame DEF ExecuteReturns, console, term
  <2>2. ExitIsLast' /\ SettledKept
    BY <1>12 DEF ExecuteReturns, SocketsInv, ExitIsLast, SettledKept, Settled, TypeOK, SocketsOK
  <2> QED
    BY <2>1, <2>2 DEF SocketsInv
<1>13. ASSUME NEW s \in Runs, NEW q \in Seq(Frames), Sends(s, q),
              UNCHANGED conn, serv' = [serv EXCEPT ![s] = serv'[s]],
              result' = [result EXCEPT ![s] = result'[s]],
              serv[s] \in {"executing", "writing"}, serv'[s] \in {"writing", "done"},
              serv'[s] = "writing" => serv[s] = "writing" /\ result' = result,
              \A i \in DOMAIN q : q[i].kind = "exit" =>
                 conn[s] = "open" /\ serv'[s] = "done" /\ result'[s] \in Results
       PROVE  ExitIsLast' /\ SettledKept
  <2>1. SettledKept
    BY <1>13 DEF SettledKept, Settled, TypeOK, SocketsOK
  <2>2. ASSUME NEW t \in Runs
        PROVE  /\ serv'[t] = "writing" => result'[t] \in Results
               /\ \A i \in DOMAIN wire'[t] :
                    wire'[t][i].kind = "exit" =>
                      conn'[t] = "open" /\ serv'[t] = "done" /\ result'[t] \in Results
    <3>1. CASE t # s
      BY <1>13, <3>1 DEF Sends, SocketsInv, ExitIsLast, TypeOK, SocketsOK
    <3>2. CASE t = s
      <4>1. serv'[s] = "writing" => result'[s] \in Results
        BY <1>13 DEF SocketsInv, ExitIsLast
      <4>2. wire'[s] = wire[s] \o q /\ wire[s] \in Seq(Frames)
        BY <1>13 DEF Sends, TypeOK, SocketsOK
      <4>3. \A i \in DOMAIN wire[s] : wire[s][i].kind # "exit"
        BY <1>13 DEF SocketsInv, ExitIsLast
      <4> QED
        BY <1>13, <3>2, <4>1, <4>2, <4>3, FramesOfConcat
    <3> QED
      BY <3>1, <3>2
  <2> QED
    BY <2>1, <2>2 DEF ExitIsLast
<1>14. /\ <<Frame("error", 0), Frame("abnormal", 0)>> \in Seq(Frames)
       /\ <<Frame("exit", 0), Frame("normal", 0)>> \in Seq(Frames)
       /\ \A n \in 0..MaxChunks : <<Frame("chunk", n)>> \in Seq(Frames)
  BY SessionAssumption DEF Frame, Frames
<1>15. ASSUME NEW s \in Runs, ExecuteFails(s) PROVE SocketsInv' /\ SettledKept
  <2>1. RunsOrdered'
    BY <1>15, SocketsInvSame DEF ExecuteFails, console, term
  <2>2. ExitIsLast' /\ SettledKept
    <3> DEFINE q == <<Frame("error", 0), Frame("abnormal", 0)>>
    <3>1. \A i \in DOMAIN q : q[i].kind # "exit"
      BY DEF Frame
    <3>2. /\ Sends(s, q) /\ UNCHANGED conn /\ serv[s] = "executing" /\ serv'[s] = "done"
          /\ serv' = [serv EXCEPT ![s] = serv'[s]] /\ result' = [result EXCEPT ![s] = result'[s]]
      BY <1>15 DEF ExecuteFails, TypeOK, SocketsOK
    <3>3. q \in Seq(Frames)
      BY <1>14
    <3> HIDE DEF q
    <3> QED
      BY <1>13, <3>1, <3>2, <3>3
  <2> QED
    BY <2>1, <2>2 DEF SocketsInv
<1>16. ASSUME NEW s \in Runs, WriteChunk(s) PROVE SocketsInv' /\ SettledKept
  <2>1. RunsOrdered'
    BY <1>16, SocketsInvSame DEF WriteChunk, console, term
  <2>2. ExitIsLast' /\ SettledKept
    <3> DEFINE q == <<Frame("chunk", written[s] + 1)>>
    <3>1. \A i \in DOMAIN q : q[i].kind # "exit"
      BY DEF Frame
    <3>2. /\ Sends(s, q) /\ UNCHANGED conn /\ serv[s] = "writing" /\ serv'[s] = "writing"
          /\ serv' = [serv EXCEPT ![s] = serv'[s]] /\ result' = [result EXCEPT ![s] = result'[s]]
          /\ result' = result
      BY <1>16 DEF WriteChunk, TypeOK, SocketsOK
    <3>3. written[s] + 1 \in 0..MaxChunks
      BY <1>16 DEF WriteChunk, TypeOK, SocketsOK
    <3>4. q \in Seq(Frames)
      BY <1>14, <3>3
    <3> HIDE DEF q
    <3> QED
      BY <1>13, <3>1, <3>2, <3>4
  <2> QED
    BY <2>1, <2>2 DEF SocketsInv
<1>17. ASSUME NEW s \in Runs, WriteExit(s) PROVE SocketsInv' /\ SettledKept
  <2>1. RunsOrdered'
    BY <1>17, SocketsInvSame DEF WriteExit, console, term
  <2>2. ExitIsLast' /\ SettledKept
    <3> DEFINE q == <<Frame("exit", 0), Frame("normal", 0)>>
    <3>1. /\ Sends(s, q) /\ UNCHANGED conn /\ serv[s] = "writing" /\ serv'[s] = "done"
          /\ serv' = [serv EXCEPT ![s] = serv'[s]] /\ result' = [result EXCEPT ![s] = result'[s]]
          /\ result' = result /\ conn[s] = "open"
      BY <1>17 DEF WriteExit, TypeOK, SocketsOK
    <3>2. result'[s] \in Results
      BY <3>1 DEF SocketsInv, ExitIsLast
    <3>3. q \in Seq(Frames)
      BY <1>14
    <3> HIDE DEF q
    <3> QED
      BY <1>13, <3>1, <3>2, <3>3
  <2> QED
    BY <2>1, <2>2 DEF SocketsInv
<1>18. ASSUME NEW s \in Runs, Lose(s) PROVE SocketsInv' /\ SettledKept
  <2>1. RunsOrdered'
    BY <1>18, SocketsInvSame DEF Lose, console, term
  <2>2. SettledKept
    BY <1>18 DEF Lose, SettledKept, Settled, TypeOK, SocketsOK
  <2>3. PICK k \in 0..Len(wire[s]) :
          wire' = [wire EXCEPT ![s] = SubSeq(@, 1, k) \o <<Frame("abnormal", 0)>>]
    BY <1>18 DEF Lose
  <2>4. /\ wire[s] \in Seq(Frames) /\ SubSeq(wire[s], 1, k) \in Seq(Frames)
        /\ <<Frame("abnormal", 0)>> \in Seq(Frames)
        /\ wire'[s] = SubSeq(wire[s], 1, k) \o <<Frame("abnormal", 0)>>
    <3>1. wire[s] \in Seq(Frames)
      BY DEF TypeOK, SocketsOK
    <3>2. SubSeq(wire[s], 1, k) \in Seq(Frames)
      BY <3>1, SubSeqType
    <3>3. <<Frame("abnormal", 0)>> \in Seq(Frames)
      BY SessionAssumption DEF Frame, Frames
    <3>4. wire'[s] = SubSeq(wire[s], 1, k) \o <<Frame("abnormal", 0)>>
      BY <2>3 DEF TypeOK, SocketsOK
    <3> QED
      BY <3>1, <3>2, <3>3, <3>4
  <2>5. ASSUME NEW i \in DOMAIN wire'[s], wire'[s][i].kind = "exit"
        PROVE  i \in DOMAIN wire[s] /\ wire[s][i].kind = "exit"
    <3>1. \A j \in DOMAIN <<Frame("abnormal", 0)>> : <<Frame("abnormal", 0)>>[j].kind # "exit"
      BY DEF Frame
    <3> DEFINE q == <<Frame("abnormal", 0)>>
    <3> HIDE DEF q
    <3>2. i \in DOMAIN SubSeq(wire[s], 1, k) /\ wire'[s][i] = SubSeq(wire[s], 1, k)[i]
      BY <2>4, <2>5, <3>1, FramesOfConcat DEF q
    <3> QED
      BY <2>4, <2>5, <3>2, FramesOfSubSeq
  <2>6. ExitIsLast'
    BY <1>18, <2>3, <2>5 DEF Lose, SocketsInv, ExitIsLast, TypeOK, SocketsOK
  <2> QED
    BY <2>1, <2>2, <2>6 DEF SocketsInv
<1>19. ASSUME NEW s \in Runs, NEW kind, Delivers(s, kind) PROVE ExitIsLast' /\ SettledKept
  <2>1. /\ UNCHANGED <<conn, serv, result>> /\ wire[s] \in Seq(Frames) /\ wire[s] # <<>>
        /\ wire' = [wire EXCEPT ![s] = Tail(wire[s])]
    BY <1>19 DEF Delivers, TypeOK, SocketsOK
  <2>2. \A i \in DOMAIN wire'[s] : i + 1 \in DOMAIN wire[s] /\ wire'[s][i] = wire[s][i + 1]
    BY <2>1, FramesOfTail DEF TypeOK, SocketsOK
  <2>3. ExitIsLast'
    BY <2>1, <2>2 DEF SocketsInv, ExitIsLast, TypeOK, SocketsOK
  <2>4. SettledKept
    BY <2>1 DEF SettledKept, Settled
  <2> QED
    BY <2>3, <2>4
<1>20. ASSUME NEW s \in Runs, OnChunk(s) \/ OnErrorFrame(s) PROVE SocketsInv' /\ SettledKept
  <2>1. RunsOrdered'
    BY <1>20, SocketsInvSame DEF OnChunk, OnErrorFrame, Delivers, console
  <2> QED
    BY <1>19, <1>20, <2>1 DEF OnChunk, OnErrorFrame, SocketsInv
<1>21. ASSUME NEW s \in Runs, OnExit(s) PROVE SocketsInv' /\ SettledKept
  <2>1. s \in 0..issued
    BY <1>1, <1>21 DEF OnExit, Delivers, SocketsInv, RunsOrdered, Runs
  <2>2. refs'.snap \in 0..issued
    BY <1>1, <1>21, <2>1 DEF OnExit
  <2>3. RunsOrdered'
    BY <1>1, <1>21, <2>2 DEF OnExit, Delivers, console, SocketsInv, RunsOrdered
  <2> QED
    BY <1>19, <1>21, <2>3 DEF OnExit, SocketsInv
<1>22. ASSUME NEW s \in Runs, OnClose(s) PROVE SocketsInv' /\ SettledKept
  <2>1. conn[s] \in {"connecting", "open", "failing", "closing"} /\ conn' = [conn EXCEPT ![s] = "closed"]
    BY <1>22 DEF OnClose, ClosesWith
  <2>2. refs'.snap \in 0..issued
    <3>1. refs' = refs \/ refs' = NoRefs
      BY <1>22 DEF OnClose, Reports
    <3> QED
      BY <1>1, <3>1 DEF NoRefs
  <2>3. shown' \in 0..issued /\ (state' = "running" => state = "running")
    BY <1>1, <1>22 DEF OnClose, Reports, OnEnd
  <2>4. UNCHANGED <<session, mounted, issued, cur>>
    BY <1>22 DEF OnClose
  <2>5. RunsOrdered'
    <3>1. \A r \in Runs : conn'[r] = IF r = s THEN "closed" ELSE conn[r]
      BY <2>1 DEF TypeOK, SocketsOK
    <3>2. s <= issued
      BY <1>1, <2>1 DEF SocketsInv, RunsOrdered, Runs
    <3>3. \A r \in Runs : r > issued' => conn'[r] = "new"
      BY <1>1, <2>4, <3>1, <3>2 DEF SocketsInv, RunsOrdered, Runs
    <3>4. \A r \in Runs : conn'[r] \in Live => r = cur'
      BY <2>4, <3>1 DEF SocketsInv, RunsOrdered, Live
    <3>5. state' = "running" => /\ session' = issued' /\ session' # 0
                                /\ cur' = session' \/ conn'[session'] = "new"
      BY <1>1, <2>1, <2>3, <2>4, <3>1 DEF SocketsInv, RunsOrdered, Runs
    <3> QED
      BY <1>1, <2>2, <2>3, <2>4, <3>3, <3>4, <3>5 DEF SocketsInv, RunsOrdered
  <2>6. UNCHANGED <<serv, result>> /\ wire' = [wire EXCEPT ![s] = <<>>]
    BY <1>22 DEF OnClose
  <2>7. ExitIsLast' /\ SettledKept
    BY <2>1, <2>6 DEF SocketsInv, ExitIsLast, SettledKept, Settled, TypeOK, SocketsOK
  <2> QED
    BY <2>5, <2>7 DEF SocketsInv
<1>23. CASE UNCHANGED vars
  BY <1>23 DEF vars, console, term, server, SocketsInv, RunsOrdered, ExitIsLast, SettledKept, Settled
<1> QED
  BY <1>3, <1>4, <1>5, <1>6, <1>7, <1>8, <1>9, <1>10, <1>11, <1>12, <1>15, <1>16, <1>17, <1>18,
     <1>20, <1>21, <1>22, <1>23
     DEF Next, User, Server, Socket

\* A step that leaves the refs alone and moves at most to the newest run.
LEMMA FilesKept ==
  ASSUME FilesInv, SettledKept, refs' = refs, shown' \in {shown, 0},
         issued' \in Nat, issued' >= issued, cur' \in {cur, 0, issued'}
  PROVE  FilesOK' /\ (shown' = 0 \/ shown' >= shown)
<1>1. /\ shown \in Nat /\ refs.snap \in Nat /\ issued \in Nat /\ cur \in Nat
      /\ shown <= issued /\ refs.snap <= issued
      /\ shown # 0 => shown \in Runs
      /\ refs.snap # 0 => refs.snap \in Runs
  BY SessionAssumption DEF FilesInv, SocketsInv, RunsOrdered, TypeOK, ConsoleOK, TerminalOK, Runs
<1>2. SnapshotMarked'
  BY <1>1 DEF FilesInv, FilesOK, SnapshotMarked, SettledKept, Settled
<1>3. ShownSettled' /\ NoFilesOfTrappedRun'
  BY <1>1 DEF FilesInv, FilesOK, ShownSettled, NoFilesOfTrappedRun, SettledKept, Settled
<1>4. FilesOrdered'
  BY <1>1 DEF FilesInv, FilesOK, FilesOrdered
<1> QED
  BY <1>1, <1>2, <1>3, <1>4 DEF FilesOK

LEMMA EffectCur ==
  ASSUME NEW want, SocketEffect(want) PROVE cur' = want
  BY DEF SocketEffect

LEMMA FilesStep ==
  FilesInv /\ [Next]_vars => FilesInv' /\ (shown' = 0 \/ shown' >= shown)
<1> SUFFICES ASSUME FilesInv, [Next]_vars PROVE FilesInv' /\ (shown' = 0 \/ shown' >= shown)
  OBVIOUS
<1>1. TypeOK /\ TypeOK' /\ SocketsInv /\ SocketsInv' /\ SettledKept
  BY TypeStep, SocketsInvStep DEF FilesInv
<1>2. /\ shown \in Nat /\ refs.snap \in Nat /\ issued \in Nat /\ cur \in Nat /\ issued' \in Nat
      /\ shown <= issued /\ refs.snap <= issued /\ cur <= issued
      /\ shown # 0 => shown \in Runs
      /\ refs.snap # 0 => refs.snap \in Runs
  <2>1. /\ issued \in 0..MaxRuns /\ issued' \in 0..MaxRuns
        /\ {session, shown, cur, refs.snap} \subseteq 0..issued
    BY <1>1 DEF SocketsInv, RunsOrdered, TypeOK, ConsoleOK
  <2>2. /\ shown \in 0..issued /\ cur \in 0..issued /\ refs.snap \in 0..issued
    BY <2>1
  <2> QED
    BY <2>1, <2>2, SessionAssumption DEF Runs
<1> SUFFICES FilesOK' /\ (shown' = 0 \/ shown' >= shown)
  BY <1>1 DEF FilesInv
<1>3. CASE handleRun
  BY <1>1, <1>2, <1>3, FilesKept, EffectCur DEF handleRun, SetNow, Wanted
<1>4. CASE handleStop \/ handleReset
  BY <1>1, <1>2, <1>4, FilesKept, EffectCur DEF handleStop, handleReset, SetNow, Wanted
<1>5. CASE handleCompileAndRun \/ CompileFails \/ handleCompiled \/ handleReconnect
  BY <1>1, <1>2, <1>5, FilesKept
     DEF handleCompileAndRun, CompileFails, handleCompiled, handleReconnect, term
<1>6. CASE Render
  <2>1. cur' \in {0, session} /\ (cur' # 0 => state = "running")
    BY <1>6, EffectCur DEF Render, Wanted
  <2>2. cur' \in {0, issued'} /\ UNCHANGED <<refs, shown, issued>>
    BY <1>1, <1>6, <2>1 DEF Render, SocketsInv, RunsOrdered
  <2> QED
    BY <1>1, <1>2, <2>2, FilesKept
<1>7. CASE handleCrash
  <2>1. refs'.snap = 0 /\ cur' = 0 /\ shown' = shown
    BY <1>7 DEF handleCrash, NoRefs
  <2> QED
    BY <1>1, <1>2, <2>1
       DEF FilesInv, FilesOK, SnapshotMarked, ShownSettled, FilesOrdered, NoFilesOfTrappedRun,
           SettledKept, Settled
<1>8. CASE XtermLoads \/ flushBuffer
  BY <1>1, <1>2, <1>8, FilesKept DEF XtermLoads, flushBuffer, console
<1>9. ASSUME NEW s \in Runs, Server(s) \/ Lose(s) \/ OnOpen(s)
      PROVE  FilesOK' /\ (shown' = 0 \/ shown' >= shown)
  BY <1>1, <1>2, <1>9, FilesKept
     DEF Server, ExecuteFails, ExecuteReturns, WriteChunk, WriteExit, Lose, OnOpen, console, term
<1>10. ASSUME NEW s \in Runs, OnChunk(s) \/ OnErrorFrame(s)
       PROVE  FilesOK' /\ (shown' = 0 \/ shown' >= shown)
  BY <1>1, <1>2, <1>10, FilesKept DEF OnChunk, OnErrorFrame, Delivers, console
<1>11. ASSUME NEW s \in Runs, OnExit(s)
       PROVE  FilesOK' /\ (shown' = 0 \/ shown' >= shown)
  <2>1. /\ UNCHANGED <<shown, cur, conn, serv, result>> /\ s = cur /\ cur # 0
        /\ conn[s] = "open" /\ wire[s] # <<>> /\ Head(wire[s]).kind = "exit"
    BY <1>1, <1>11 DEF OnExit, Delivers, console, SocketsInv, RunsOrdered, Live, Runs
  <2>2. serv[s] = "done"
    <3>1. 1 \in DOMAIN wire[s] /\ wire[s][1] = Head(wire[s])
      BY <1>1, <2>1, HeadTailProperties, LenProperties, EmptySeq DEF TypeOK, SocketsOK
    <3> QED
      BY <1>1, <2>1, <3>1 DEF SocketsInv, ExitIsLast
  <2>3. /\ refs'.snap = IF result[s].files THEN s ELSE refs.snap
        /\ refs'.trap = (refs.trap \/ result[s].end = "trap")
    BY <1>11 DEF OnExit
  <2>4. SnapshotMarked'
    <3>1. CASE result[s].files
      BY <2>1, <2>2, <2>3, <3>1 DEF SnapshotMarked, Settled
    <3>2. CASE ~result[s].files
      BY <2>1, <2>3, <3>2 DEF FilesInv, FilesOK, SnapshotMarked, Settled
    <3> QED
      BY <3>1, <3>2
  <2>5. ShownSettled' /\ NoFilesOfTrappedRun'
    BY <2>1 DEF FilesInv, FilesOK, ShownSettled, NoFilesOfTrappedRun, Settled
  <2>6. FilesOrdered'
    BY <1>2, <2>1, <2>3 DEF FilesInv, FilesOK, FilesOrdered
  <2> QED
    BY <1>2, <2>1, <2>4, <2>5, <2>6 DEF FilesOK
<1>12. ASSUME NEW s \in Runs, OnClose(s)
       PROVE  FilesOK' /\ (shown' = 0 \/ shown' >= shown)
  <2>1. cur' = cur /\ issued' = issued
    BY <1>12 DEF OnClose
  <2>2. CASE UNCHANGED <<shown, refs>>
    BY <1>1, <1>2, <2>1, <2>2, FilesKept
  <2>3. CASE refs' = NoRefs /\ (shown' = shown \/ (~refs.trap /\ refs.snap # 0 /\ shown' = refs.snap))
    <3>1. refs'.snap = 0
      BY <2>3 DEF NoRefs
    <3>2. shown' = shown \/ (shown' = refs.snap /\ refs.snap # 0 /\ refs.snap >= shown)
      BY <1>2, <2>3 DEF FilesInv, FilesOK, FilesOrdered
    <3>3. ShownSettled' /\ NoFilesOfTrappedRun'
      BY <1>1, <1>2, <2>3 DEF FilesInv, FilesOK, SnapshotMarked, ShownSettled, NoFilesOfTrappedRun,
                              SettledKept, Settled
    <3>4. FilesOrdered'
      BY <1>2, <2>1, <3>1, <3>2 DEF FilesInv, FilesOK, FilesOrdered
    <3> QED
      BY <1>2, <3>1, <3>2, <3>3, <3>4 DEF FilesOK, SnapshotMarked
  <2> QED
    BY <1>12, <2>2, <2>3 DEF OnClose, Reports, OnEnd
<1>13. CASE UNCHANGED vars
  BY <1>1, <1>2, <1>13, FilesKept DEF vars, console, term
<1> QED
  BY <1>3, <1>4, <1>5, <1>6, <1>7, <1>8, <1>9, <1>10, <1>11, <1>12, <1>13 DEF Next, User, Socket

LEMMA FilesInit == Init => FilesInv
<1> SUFFICES ASSUME Init PROVE FilesInv
  OBVIOUS
<1>1. TypeOK
  BY TypeInit
<1>2. RunsOrdered
  BY SessionAssumption DEF Init, RunsOrdered, NoRefs, Live, Runs
<1>3. ExitIsLast
  BY DEF Init, ExitIsLast
<1>4. FilesOK
  BY DEF Init, FilesOK, SnapshotMarked, ShownSettled, FilesOrdered, NoFilesOfTrappedRun, NoRefs
<1> QED
  BY <1>1, <1>2, <1>3, <1>4 DEF FilesInv, SocketsInv

\* The files of a run that trapped are never offered by the console, although the
\* refs of the terminal carry its snapshot into the next run.
THEOREM FilesSafety == Spec => []NoFilesOfTrappedRun
<1>1. FilesInv => NoFilesOfTrappedRun
  BY DEF FilesInv, FilesOK
<1> QED
  BY <1>1, FilesInit, FilesStep, PTL DEF Spec

\* onEnd never replaces the files on display by those of an older run.
THEOREM FilesNeverGoBack == Spec => FilesMoveForward
<1>1. FilesInv /\ [Next]_vars => [shown' = 0 \/ shown' >= shown]_vars
  BY FilesStep
<1> QED
  BY <1>1, FilesInit, FilesStep, PTL DEF Spec, FilesMoveForward

-----------------------------------------------------------------------------
(***************************************************************************)
(* Outcomes.                                                               *)
(***************************************************************************)
\* The step leaves the frames of s, the refs and what they match alone.
LEMMA NormalKept ==
  ASSUME NEW s \in Runs, NormalOK(s), conn[s] \in Live => conn'[s] \in Live,
         conn'[s] \in {"failing", "closing"} => conn[s] \in {"failing", "closing"},
         wire'[s] = wire[s], serv[s] = "done" => serv'[s] = "done" /\ result'[s] = result[s],
         refs' = refs, stale \subseteq stale'
  PROVE  NormalOK(s)'
  BY DEF NormalOK, Match, Live

\* No frame, nothing to show.
LEMMA NormalEmpty ==
  ASSUME NEW s \in Runs, wire'[s] = <<>>,
         conn'[s] \in {"failing", "closing"} => serv'[s] = "done"
  PROVE  NormalOK(s)'
  BY DEF NormalOK

LEMMA OutcomeKept ==
  ASSUME FilesInv, SettledKept, OutcomeOK, by \in 0..MaxRuns, stale \subseteq stale',
         state' \notin {"complete", "nonzero"} \/ UNCHANGED <<state, session, by>>
  PROVE  OutcomeOK'
<1>1. CASE state' \notin {"complete", "nonzero"}
  BY <1>1 DEF OutcomeOK, OutcomeSettled, TruthfulSuccess
<1>2. CASE state' \in {"complete", "nonzero"}
  <2>1. UNCHANGED <<state, session, by>> /\ by # 0 /\ Settled(by)
    BY <1>2 DEF OutcomeOK, OutcomeSettled
  <2>2. by \in Runs
    BY <2>1, SessionAssumption DEF Runs
  <2>3. Settled(by)' /\ result'[by] = result[by]
    BY <2>1, <2>2 DEF SettledKept, Settled
  <2> QED
    BY <2>1, <2>3 DEF OutcomeOK, OutcomeSettled, TruthfulSuccess, Settled
<1> QED
  BY <1>1, <1>2

\* The socket effect keeps the frames in order and the live run current.
LEMMA EffectTruth ==
  ASSUME TypeOK, SocketsInv, NormalAfterExit, CurOK, NEW want \in 0..MaxRuns, SocketEffect(want),
         want = 0 \/ want = cur \/ conn[want] = "new",
         want # 0 => session' = want, want = cur => session' = session \/ cur = 0,
         refs' = refs, stale' = stale
  PROVE  NormalAfterExit' /\ CurOK'
<1> USE DEF TypeOK, SocketsOK
<1>1. CASE want = cur
  <2>1. UNCHANGED <<cur, intentional, conn, serv, wire, result>>
    BY <1>1 DEF SocketEffect, server
  <2>2. NormalAfterExit'
    BY <2>1, NormalKept DEF NormalAfterExit
  <2>3. CurOK'
    BY <1>1, <2>1 DEF CurOK
  <2> QED
    BY <2>2, <2>3
<1>2. CASE want # cur
  <2>1. /\ cur' = want /\ intentional' = (want = 0)
        /\ conn' = [s \in Runs |-> IF s = want THEN "connecting"
                                   ELSE IF s = cur THEN Closing(s) ELSE conn[s]]
        /\ serv' = [s \in Runs |-> IF s \in {cur} THEN "done" ELSE serv[s]]
        /\ wire' = [s \in Runs |-> IF s \in {cur} THEN <<>> ELSE wire[s]]
        /\ result' = result
    BY <1>2 DEF SocketEffect, Forgets
  <2>2. ASSUME NEW s \in Runs PROVE NormalOK(s)'
    <3>1. CASE s = cur
      BY <1>2, <2>1, <3>1, NormalEmpty
    <3>2. CASE s = want
      <4>1. conn[s] = "new" /\ conn'[s] = "connecting" /\ wire'[s] = wire[s]
        BY <1>2, <2>1, <3>2 DEF Runs
      <4>2. wire[s] = <<>>
        BY <4>1 DEF NormalAfterExit, NormalOK, Live
      <4> QED
        BY <4>1, <4>2, NormalEmpty
    <3>3. CASE s # cur /\ s # want
      <4>1. conn'[s] = conn[s] /\ wire'[s] = wire[s] /\ serv'[s] = serv[s]
        BY <2>1, <3>3
      <4> QED
        BY <2>1, <4>1, NormalKept DEF NormalAfterExit
    <3> QED
      BY <3>1, <3>2, <3>3
  <2>3. CurOK'
    <3>1. CASE want = 0
      <4>1. cur' = 0 /\ intentional'
        BY <2>1, <3>1
      <4> QED
        BY <4>1 DEF CurOK
    <3>2. CASE want # 0
      <4>1. cur' = want /\ session' = want /\ want \in Runs
        BY <2>1, <3>2, SessionAssumption DEF Runs
      <4>2. conn'[want] = "connecting"
        BY <2>1, <4>1
      <4> QED
        BY <3>2, <4>1, <4>2 DEF CurOK
    <3> QED
      BY <3>1, <3>2
  <2> QED
    BY <2>2, <2>3 DEF NormalAfterExit
<1> QED
  BY <1>1, <1>2

LEMMA TruthStep == TruthInv /\ [Next]_vars => TruthInv'
<1> SUFFICES ASSUME TruthInv, [Next]_vars PROVE TruthInv'
  OBVIOUS
<1>1. FilesInv /\ FilesInv' /\ TypeOK /\ TypeOK' /\ SocketsInv /\ SocketsInv' /\ SettledKept
  BY FilesStep, SocketsInvStep DEF TruthInv, FilesInv
<1>2. NormalAfterExit /\ CurOK /\ OutcomeOK /\ by \in 0..MaxRuns
  BY <1>1 DEF TruthInv, TypeOK, HistoryOK
<1> SUFFICES NormalAfterExit' /\ CurOK' /\ OutcomeOK'
  BY <1>1 DEF TruthInv
<1>3. /\ session \in 0..issued /\ cur \in 0..issued /\ issued \in 0..MaxRuns /\ MaxRuns \in Nat
  BY <1>1, SessionAssumption DEF SocketsInv, RunsOrdered, TypeOK, ConsoleOK
<1>4. CASE handleRun
  <2>1. SocketEffect(Wanted("running", issued + 1)) /\ state' = "running" /\ session' = issued + 1
        /\ refs' = refs /\ stale' = stale /\ issued < MaxRuns
    BY <1>4 DEF handleRun, SetNow
  <2> DEFINE want == Wanted("running", issued + 1)
  <2>2. want \in {0, issued + 1} /\ want \in 0..MaxRuns
    BY <1>3, <2>1 DEF Wanted
  <2>3. want = 0 \/ conn[want] = "new"
    BY <1>1, <1>3, <2>1, <2>2 DEF SocketsInv, RunsOrdered, Runs
  <2>4. want = cur => cur = 0
    BY <1>3, <2>2
  <2> HIDE DEF want
  <2>5. NormalAfterExit' /\ CurOK'
    BY <1>1, <1>2, <2>1, <2>2, <2>3, <2>4, EffectTruth DEF want
  <2>6. OutcomeOK'
    BY <1>1, <1>2, <2>1, OutcomeKept
  <2> QED
    BY <2>5, <2>6
<1>5. CASE handleStop \/ handleReset
  <2>1. SocketEffect(0) /\ state' = "idle" /\ refs' = refs /\ stale' = stale
    BY <1>5 DEF handleStop, handleReset, SetNow, Wanted
  <2>2. NormalAfterExit' /\ CurOK'
    BY <1>1, <1>2, <1>3, <2>1, EffectTruth
  <2>3. OutcomeOK'
    BY <1>1, <1>2, <2>1, OutcomeKept
  <2> QED
    BY <2>2, <2>3
<1>6. CASE Render
  <2>1. SocketEffect(Wanted(state, session)) /\ UNCHANGED <<state, session, refs, by, stale>>
    BY <1>6 DEF Render
  <2> DEFINE want == Wanted(state, session)
  <2>2. want \in 0..MaxRuns /\ want \in {0, session} /\ (want # 0 => state = "running")
    BY <1>3 DEF Wanted
  <2>3. want = 0 \/ want = cur \/ conn[want] = "new"
    BY <1>1, <2>2 DEF SocketsInv, RunsOrdered
  <2> HIDE DEF want
  <2>4. NormalAfterExit' /\ CurOK'
    BY <1>1, <1>2, <2>1, <2>2, <2>3, EffectTruth DEF want
  <2>5. OutcomeOK'
    BY <1>1, <1>2, <2>1, OutcomeKept
  <2> QED
    BY <2>4, <2>5
<1>7. CASE UNCHANGED <<cur, intentional, refs, conn, server, history>> /\ state' \in {state, "running", "idle"}
           /\ (state' = state => session' = session)
           /\ (session' = session \/ cur = 0 \/ (session' # 0 /\ conn[session'] = "new"))
  <2>1. NormalAfterExit'
    BY <1>2, <1>7, NormalKept DEF NormalAfterExit, server, history
  <2>2. CurOK'
    BY <1>2, <1>7 DEF CurOK
  <2>3. OutcomeOK'
    BY <1>1, <1>2, <1>7, OutcomeKept DEF history
  <2> QED
    BY <2>1, <2>2, <2>3
<1>8. CASE handleCompileAndRun \/ CompileFails \/ XtermLoads \/ flushBuffer
  BY <1>7, <1>8 DEF handleCompileAndRun, CompileFails, XtermLoads, flushBuffer, console, term
<1>9. CASE handleCompiled
  <2>1. conn[issued + 1] = "new" /\ issued + 1 # 0
    BY <1>1, <1>3, <1>9 DEF handleCompiled, SocketsInv, RunsOrdered, Runs
  <2>2. NormalAfterExit'
    BY <1>2, <1>9, NormalKept DEF handleCompiled, NormalAfterExit, server, term, history
  <2>3. CurOK'
    BY <1>2, <1>9, <2>1 DEF handleCompiled, term, CurOK
  <2>4. OutcomeOK'
    BY <1>1, <1>2, <1>9, OutcomeKept DEF handleCompiled, history
  <2> QED
    BY <2>2, <2>3, <2>4
<1>10. CASE handleReconnect
  <2>1. cur = 0
    BY <1>1, <1>10 DEF handleReconnect, SocketsInv, RunsOrdered
  <2>2. NormalAfterExit'
    BY <1>2, <1>10, NormalKept DEF handleReconnect, NormalAfterExit, server, term, history
  <2>3. CurOK'
    BY <1>2, <1>10, <2>1 DEF handleReconnect, term, CurOK
  <2>4. OutcomeOK'
    BY <1>1, <1>2, <1>10, OutcomeKept DEF handleReconnect, history
  <2> QED
    BY <2>2, <2>3, <2>4
<1>11. CASE handleCrash
  <2>1. ASSUME NEW s \in Runs PROVE NormalOK(s)'
    <3>1. conn'[s] \in {"new", "closed"}
      BY <1>1, <1>11 DEF handleCrash, TypeOK, SocketsOK
    <3>2. wire'[s] = <<>>
      <4>1. s = cur \/ conn[s] \notin Live
        BY <1>1 DEF SocketsInv, RunsOrdered
      <4> QED
        BY <1>1, <1>2, <1>11, <4>1 DEF handleCrash, Forgets, NormalAfterExit, NormalOK
    <3> QED
      BY <3>1, <3>2, NormalEmpty
  <2>2. CurOK'
    BY <1>1, <1>11 DEF handleCrash, CurOK, TypeOK, SocketsOK
  <2>3. OutcomeOK'
    BY <1>1, <1>2, <1>11, OutcomeKept DEF handleCrash
  <2> QED
    BY <2>1, <2>2, <2>3 DEF NormalAfterExit
\* Steps of one run's socket: the outcome stands, the other runs keep their frames.
<1>12. ASSUME NEW s \in Runs, UNCHANGED <<state, session, by, stale, cur, intentional>>,
              conn' = [conn EXCEPT ![s] = conn'[s]], conn[s] \in Live, conn'[s] \in Live
       PROVE  CurOK' /\ OutcomeOK' /\ s = cur
  <2>1. s = cur
    BY <1>1, <1>12 DEF SocketsInv, RunsOrdered
  <2>2. \A x \in Runs : x # s => conn'[x] = conn[x]
    BY <1>1, <1>12 DEF TypeOK, SocketsOK
  <2>3. s # 0
    BY SessionAssumption DEF Runs
  <2>4. session # cur => session # s
    BY <2>1
  <2>5. CurOK'
    BY <1>2, <1>3, <1>12, <2>1, <2>2, <2>3 DEF CurOK, Live, Runs
  <2>6. OutcomeOK'
    BY <1>1, <1>2, <1>12, OutcomeKept
  <2> QED
    BY <2>1, <2>5, <2>6
<1>13. ASSUME NEW s \in Runs, conn[s] \in Live, UNCHANGED stale, NormalOK(s)',
              \A x \in Runs : x # s => wire'[x] = wire[x] /\ conn'[x] = conn[x] /\ serv'[x] = serv[x]
       PROVE  NormalAfterExit'
  <2>1. ASSUME NEW x \in Runs, x # s PROVE NormalOK(x)'
    <3>1. conn[x] \notin Live
      BY <1>1, <1>13, <2>1 DEF SocketsInv, RunsOrdered
    <3>2. wire[x] = <<>>
      BY <1>2, <3>1 DEF NormalAfterExit, NormalOK
    <3> QED
      BY <1>2, <1>13, <2>1, <3>2, NormalEmpty DEF NormalAfterExit, NormalOK
  <2> QED
    BY <1>13, <2>1 DEF NormalAfterExit
<1>14. ASSUME NEW s \in Runs, OnOpen(s) PROVE NormalAfterExit' /\ CurOK' /\ OutcomeOK'
  <2>1. /\ UNCHANGED <<state, session, by, stale, cur, intentional>> /\ conn[s] \in Live /\ conn'[s] = "open"
        /\ conn' = [conn EXCEPT ![s] = conn'[s]] /\ wire'[s] = <<>>
        /\ \A x \in Runs : x # s => wire'[x] = wire[x] /\ conn'[x] = conn[x] /\ serv'[x] = serv[x]
    BY <1>1, <1>14 DEF OnOpen, console, term, history, Live, TypeOK, SocketsOK
  <2>2. NormalOK(s)'
    BY <2>1, NormalEmpty
  <2> QED
    BY <1>12, <1>13, <2>1, <2>2 DEF Live
<1>15. ASSUME NEW s \in Runs, ExecuteReturns(s) PROVE NormalAfterExit' /\ CurOK' /\ OutcomeOK'
  <2>1. /\ UNCHANGED <<state, session, by, stale, cur, intentional, refs>> /\ conn[s] \in Live /\ conn'[s] = conn[s]
        /\ conn' = [conn EXCEPT ![s] = conn'[s]] /\ wire'[s] = wire[s] /\ serv[s] = "executing"
        /\ \A x \in Runs : x # s => wire'[x] = wire[x] /\ conn'[x] = conn[x] /\ serv'[x] = serv[x]
    BY <1>1, <1>15 DEF ExecuteReturns, console, term, history, Live, TypeOK, SocketsOK
  <2>2. NormalOK(s)'
    BY <1>2, <2>1, NormalKept DEF NormalAfterExit
  <2> QED
    BY <1>12, <1>13, <2>1, <2>2
\* Frames sent while the program runs.
<1>16. ASSUME NEW s \in Runs, NEW q \in Seq(Frames), wire'[s] = wire[s] \o q, serv[s] # "done",
              conn[s] \in Live, conn'[s] = conn[s], \A i \in DOMAIN q : q[i].kind # "normal"
       PROVE  NormalOK(s)'
  <2>1. wire[s] \in Seq(Frames) /\ \A i \in DOMAIN wire[s] : wire[s][i].kind # "normal"
    BY <1>1, <1>2, <1>16 DEF NormalAfterExit, NormalOK, TypeOK, SocketsOK
  <2>2. \A i \in DOMAIN wire'[s] : wire'[s][i].kind # "normal"
    BY <1>16, <2>1, FramesOfConcat
  <2> QED
    BY <1>16, <2>2 DEF NormalOK, Live
<1>17. ASSUME NEW s \in Runs, ExecuteFails(s) \/ WriteChunk(s) \/ WriteExit(s) \/ Lose(s)
       PROVE  /\ UNCHANGED <<state, session, by, stale, cur, intentional, refs>>
              /\ conn[s] \in Live /\ conn'[s] = conn[s]
              /\ conn' = [conn EXCEPT ![s] = conn'[s]]
              /\ \A x \in Runs : x # s => wire'[x] = wire[x] /\ conn'[x] = conn[x] /\ serv'[x] = serv[x]
  BY <1>1, <1>17 DEF ExecuteFails, WriteChunk, WriteExit, Lose, Sends, console, term, history, Live,
                     TypeOK, SocketsOK
<1>18. ASSUME NEW s \in Runs, ExecuteFails(s) PROVE NormalAfterExit' /\ CurOK' /\ OutcomeOK'
  <2> DEFINE q == <<Frame("error", 0), Frame("abnormal", 0)>>
  <2>1. \A i \in DOMAIN q : q[i].kind # "normal"
    BY DEF Frame
  <2>2. q \in Seq(Frames)
    BY SessionAssumption DEF Frame, Frames
  <2>3. wire'[s] = wire[s] \o q /\ serv[s] # "done"
    BY <1>1, <1>18 DEF ExecuteFails, Sends, TypeOK, SocketsOK
  <2> HIDE DEF q
  <2>4. NormalOK(s)'
    BY <1>16, <1>17, <1>18, <2>1, <2>2, <2>3
  <2> QED
    BY <1>12, <1>13, <1>17, <1>18, <2>4
<1>19. ASSUME NEW s \in Runs, WriteChunk(s) PROVE NormalAfterExit' /\ CurOK' /\ OutcomeOK'
  <2> DEFINE q == <<Frame("chunk", written[s] + 1)>>
  <2>1. \A i \in DOMAIN q : q[i].kind # "normal"
    BY DEF Frame
  <2>2. q \in Seq(Frames)
    <3>1. result[s].chunks \in 0..MaxChunks
      <4>1. result[s] \in Results \cup {None, Failed}
        BY <1>1 DEF TypeOK, SocketsOK
      <4> QED
        BY <4>1, SessionAssumption DEF None, Failed
    <3>2. written[s] + 1 \in 0..MaxChunks
      BY <1>1, <1>19, <3>1, SessionAssumption DEF WriteChunk, TypeOK, SocketsOK
    <3> QED
      BY <3>2 DEF Frame, Frames
  <2>3. wire'[s] = wire[s] \o q /\ serv[s] # "done"
    BY <1>1, <1>19 DEF WriteChunk, Sends, TypeOK, SocketsOK
  <2> HIDE DEF q
  <2>4. NormalOK(s)'
    BY <1>16, <1>17, <1>19, <2>1, <2>2, <2>3
  <2> QED
    BY <1>12, <1>13, <1>17, <1>19, <2>4
<1>20. ASSUME NEW s \in Runs, WriteExit(s) PROVE NormalAfterExit' /\ CurOK' /\ OutcomeOK'
  <2> DEFINE q == <<Frame("exit", 0), Frame("normal", 0)>>
             w == wire[s]
  <2>1. q \in Seq(Frames) /\ w \in Seq(Frames)
    <3>1. q \in Seq(Frames)
      BY SessionAssumption DEF Frame, Frames
    <3>2. w \in Seq(Frames)
      BY <1>1 DEF TypeOK, SocketsOK
    <3> QED
      BY <3>1, <3>2
  <2>2. Len(q) = 2 /\ q[1].kind = "exit"
    BY DEF Frame
  <2>3. wire'[s] = w \o q /\ serv[s] # "done" /\ serv'[s] = "done"
    BY <1>1, <1>20 DEF WriteExit, Sends, TypeOK, SocketsOK
  <2>4. \A i \in DOMAIN w : w[i].kind # "normal"
    BY <1>2, <2>3 DEF NormalAfterExit, NormalOK
  <2> HIDE DEF q, w
  <2>5. /\ Len(w \o q) = Len(w) + 2 /\ Len(w) \in Nat /\ (w \o q)[Len(w) + 1] = q[1]
        /\ DOMAIN (w \o q) = 1..(Len(w) + 2) /\ DOMAIN q = 1..2
    <3>1. Len(w) \in Nat /\ DOMAIN q = 1..2
      BY <2>1, <2>2, LenProperties
    <3>2. w \o q \in Seq(Frames) /\ Len(w \o q) = Len(w) + 2
      <4>1. w \o q \in Seq(Frames) /\ Len(w \o q) = Len(w) + Len(q)
        BY <2>1, ConcatProperties
      <4> QED
        BY <2>2, <4>1
    <3>3. (w \o q)[Len(w) + 1] = q[1]
      <4>1. Len(w) + 1 \in 1..(Len(w) + Len(q)) /\ ~(Len(w) + 1 <= Len(w)) /\ (Len(w) + 1) - Len(w) = 1
        BY <2>2, <3>1
      <4> QED
        BY <2>1, <4>1, ConcatProperties
    <3>4. DOMAIN (w \o q) = 1..(Len(w) + 2)
      BY <3>2, LenProperties
    <3> QED
      BY <3>1, <3>2, <3>3, <3>4
  <2>6. ASSUME NEW i \in DOMAIN (w \o q), (w \o q)[i].kind = "normal" PROVE i = Len(w) + 2
    <3>1. i - Len(w) \in DOMAIN q /\ (w \o q)[i] = q[i - Len(w)]
      BY <2>1, <2>4, <2>6, FramesOfConcat
    <3>2. i - Len(w) # 1
      BY <2>2, <2>6, <3>1
    <3> QED
      BY <2>5, <3>1, <3>2
  <2>7. NormalOK(s)'
    <3>1. ASSUME NEW i \in DOMAIN wire'[s], wire'[s][i].kind = "normal"
          PROVE  i = Len(wire'[s]) /\ i # 1 /\ wire'[s][i - 1].kind = "exit"
      <4>1. i = Len(w) + 2 /\ i - 1 = Len(w) + 1
        BY <2>3, <2>5, <2>6, <3>1
      <4> QED
        BY <2>2, <2>3, <2>5, <4>1
    <3> QED
      BY <1>17, <1>20, <2>3, <3>1 DEF NormalOK, Live
  <2> QED
    BY <1>12, <1>13, <1>17, <1>20, <2>7
<1>21. ASSUME NEW s \in Runs, Lose(s) PROVE NormalAfterExit' /\ CurOK' /\ OutcomeOK'
  <2> DEFINE q == <<Frame("abnormal", 0)>>
             w == wire[s]
  <2>1. PICK k \in 0..Len(w) : /\ \A i \in 1..k : w[i].kind # "normal"
                               /\ wire' = [wire EXCEPT ![s] = SubSeq(@, 1, k) \o q]
    BY <1>21 DEF Lose
  <2>2. w \in Seq(Frames) /\ q \in Seq(Frames) /\ q[1].kind # "normal" /\ Len(q) = 1
    <3>1. w \in Seq(Frames)
      BY <1>1 DEF TypeOK, SocketsOK
    <3>2. q \in Seq(Frames)
      BY SessionAssumption DEF Frame, Frames
    <3>3. q[1].kind # "normal" /\ Len(q) = 1
      BY DEF Frame
    <3> QED
      BY <3>1, <3>2, <3>3
  <2>3. wire'[s] = SubSeq(w, 1, k) \o q
    BY <1>1, <2>1 DEF TypeOK, SocketsOK
  <2> HIDE DEF q, w
  <2>4. SubSeq(w, 1, k) \in Seq(Frames)
    BY <2>2, SubSeqType
  <2>5. \A i \in DOMAIN SubSeq(w, 1, k) : SubSeq(w, 1, k)[i].kind # "normal"
    BY <2>1, <2>2, FramesOfSubSeq
  <2>6. \A i \in DOMAIN q : q[i].kind # "normal"
    BY <2>2, LenProperties
  <2>7. \A i \in DOMAIN wire'[s] : wire'[s][i].kind # "normal"
    <3> DEFINE p == SubSeq(w, 1, k)
    <3> HIDE DEF p
    <3>1. p \in Seq(Frames) /\ wire'[s] = p \o q /\ \A i \in DOMAIN p : p[i].kind # "normal"
      BY <2>3, <2>4, <2>5 DEF p
    <3> QED
      BY <2>2, <2>6, <3>1, FramesOfConcat
  <2>8. NormalOK(s)'
    BY <1>17, <1>21, <2>7 DEF NormalOK, Live
  <2> QED
    BY <1>12, <1>13, <1>17, <1>21, <2>8
\* A frame is delivered: the next one is a normal close only after an exit frame.
<1>22. ASSUME NEW s \in Runs, NEW kind, Delivers(s, kind),
              kind = "exit" => s \in stale \/ Match(s)'
       PROVE  NormalAfterExit' /\ CurOK' /\ OutcomeOK'
  <2>1. /\ UNCHANGED <<state, session, by, stale, cur, intentional, conn, serv, result>>
        /\ conn[s] \in Live /\ conn' = [conn EXCEPT ![s] = conn'[s]] /\ conn'[s] = conn[s]
        /\ wire[s] \in Seq(Frames) /\ wire[s] # <<>> /\ Head(wire[s]).kind = kind
        /\ wire'[s] = Tail(wire[s])
        /\ \A x \in Runs : x # s => wire'[x] = wire[x] /\ conn'[x] = conn[x] /\ serv'[x] = serv[x]
    BY <1>1, <1>22 DEF Delivers, console, Live, TypeOK, SocketsOK
  <2>2. ASSUME NEW i \in DOMAIN wire'[s], wire'[s][i].kind = "normal"
        PROVE  /\ i = Len(wire'[s]) /\ serv'[s] = "done"
               /\ i = 1 => kind = "exit"
               /\ i > 1 => wire'[s][i - 1].kind = "exit"
    <3>1. /\ i + 1 \in DOMAIN wire[s] /\ wire'[s][i] = wire[s][i + 1]
          /\ Len(wire[s]) = Len(wire'[s]) + 1 /\ i \in 1..Len(wire'[s]) /\ Len(wire'[s]) \in Nat
      BY <1>1, <2>1, <2>2, FramesOfTail, LenProperties DEF TypeOK, SocketsOK
    <3>2. i + 1 = Len(wire[s]) /\ serv[s] = "done" /\ wire[s][i].kind = "exit"
      <4>1. /\ i + 1 = Len(wire[s]) /\ serv[s] = "done"
            /\ i + 1 > 1 => wire[s][(i + 1) - 1].kind = "exit"
        BY <1>2, <2>2, <3>1 DEF NormalAfterExit, NormalOK
      <4>2. (i + 1) - 1 = i /\ i + 1 > 1
        BY <3>1
      <4> QED
        BY <4>1, <4>2
    <3>3. i = 1 => kind = "exit"
      BY <2>1, <3>2, HeadTailProperties
    <3>4. i > 1 => wire'[s][i - 1] = wire[s][i]
      <4>1. SUFFICES ASSUME i > 1 PROVE wire'[s][i - 1] = wire[s][i]
        OBVIOUS
      <4>2. i - 1 \in DOMAIN Tail(wire[s]) /\ (i - 1) + 1 = i
        BY <1>1, <2>1, <3>1, <4>1, LenProperties DEF TypeOK, SocketsOK
      <4> QED
        BY <2>1, <4>2, FramesOfTail
    <3>5. i = Len(wire'[s])
      BY <3>1, <3>2
    <3>6. serv'[s] = "done"
      BY <2>1, <3>2
    <3> QED
      BY <3>2, <3>3, <3>4, <3>5, <3>6
  <2>3. NormalOK(s)'
    BY <1>22, <2>1, <2>2 DEF NormalOK, Live
  <2> QED
    BY <1>12, <1>13, <2>1, <2>3
<1>23. ASSUME NEW s \in Runs, OnChunk(s) \/ OnErrorFrame(s)
       PROVE  NormalAfterExit' /\ CurOK' /\ OutcomeOK'
  BY <1>22, <1>23 DEF OnChunk, OnErrorFrame
<1>24. ASSUME NEW s \in Runs, OnExit(s) PROVE NormalAfterExit' /\ CurOK' /\ OutcomeOK'
  <2>1. /\ Delivers(s, "exit") /\ UNCHANGED <<serv, result>> /\ wire[s] # <<>>
        /\ Head(wire[s]).kind = "exit"
        /\ refs'.code = CodeOf(result[s]) /\ refs'.trap = (refs.trap \/ result[s].end = "trap")
    BY <1>24 DEF OnExit, Delivers
  <2>2. 1 \in DOMAIN wire[s] /\ wire[s][1] = Head(wire[s])
    BY <1>1, <2>1, HeadTailProperties, LenProperties, EmptySeq DEF TypeOK, SocketsOK
  <2>3. serv[s] = "done" /\ result[s] \in Results
    BY <1>1, <2>1, <2>2 DEF SocketsInv, ExitIsLast
  <2>4. Match(s)'
    BY <2>1, <2>3 DEF Match, CodeOf
  <2> QED
    BY <1>22, <2>1, <2>4
<1>25. ASSUME NEW s \in Runs, OnClose(s) PROVE NormalAfterExit' /\ CurOK' /\ OutcomeOK'
  <2>1. PICK code \in {"normal", "abnormal"} :
          /\ ClosesWith(s, code)
          /\ \/ intentional /\ UNCHANGED <<state, shown, refs, by, stale>>
             \/ /\ ~intentional /\ Reports(s, code)
                /\ by' = s /\ stale' = IF s = cur THEN stale ELSE stale \cup {cur}
    BY <1>25 DEF OnClose
  <2>2. /\ UNCHANGED <<session, cur, intentional, serv, result>>
        /\ conn'[s] = "closed" /\ wire'[s] = <<>> /\ stale \subseteq stale'
        /\ \A x \in Runs : x # s => wire'[x] = wire[x] /\ conn'[x] = conn[x]
    BY <1>1, <1>25, <2>1 DEF OnClose, TypeOK, SocketsOK
  <2>3. conn[s] \in {"connecting", "open", "failing", "closing"} /\ s # 0
    BY <2>1, SessionAssumption DEF ClosesWith, Runs
  <2>4. ASSUME NEW x \in Runs PROVE NormalOK(x)'
    <3>1. CASE x = s
      BY <2>2, <3>1, NormalEmpty
    <3>2. CASE x # s /\ wire[x] = <<>>
      BY <1>2, <2>2, <3>2, NormalEmpty DEF NormalAfterExit, NormalOK
    <3>3. CASE x # s /\ wire[x] # <<>>
      <4>1. conn[x] \in Live
        BY <1>2, <3>3 DEF NormalAfterExit, NormalOK
      <4>2. x = cur
        BY <1>1, <4>1 DEF SocketsInv, RunsOrdered
      <4>3. CASE refs' = refs
        BY <1>2, <2>2, <3>3, <4>3, NormalKept DEF NormalAfterExit
      <4>4. CASE x \in stale'
        <5>1. NormalOK(x) /\ conn'[x] = conn[x] /\ wire'[x] = wire[x] /\ serv'[x] = serv[x]
          BY <1>2, <2>2, <3>3 DEF NormalAfterExit
        <5> QED
          BY <4>1, <4>4, <5>1 DEF NormalOK
      <4> QED
        BY <2>1, <3>3, <4>2, <4>3, <4>4
    <3> QED
      BY <3>1, <3>2, <3>3
  <2>5. CurOK'
    <3>1. cur \in Runs \/ cur = 0
      BY <1>3 DEF Runs
    <3>2. session \in Runs \/ session = 0
      BY <1>3 DEF Runs
    <3>3. cur' # 0 => /\ conn'[cur'] \in {"connecting", "open", "closed"}
                      /\ session' = cur' \/ (session' # 0 /\ conn'[session'] = "new")
      BY <1>2, <2>2, <2>3, <3>1, <3>2 DEF CurOK
    <3>4. cur' = 0 /\ ~intentional' => \A x \in Runs : conn'[x] \in {"new", "closed"}
      BY <1>2, <2>2 DEF CurOK
    <3> QED
      BY <3>3, <3>4 DEF CurOK
  <2>6. CASE intentional \/ state' = "crashed"
    <3>1. OutcomeOK'
      BY <1>1, <1>2, <2>1, <2>2, <2>6, OutcomeKept
    <3> QED
      BY <2>4, <2>5, <3>1 DEF NormalAfterExit
  <2>7. CASE ~intentional /\ state' # "crashed"
    <3>1. /\ code = "normal" /\ ~refs.trap /\ by' = s
          /\ state' = IF refs.code = "nonzero" THEN "nonzero" ELSE "complete"
          /\ stale' = IF s = cur THEN stale ELSE stale \cup {cur}
      BY <2>1, <2>7 DEF Reports, OnEnd
    <3>2. (conn[s] \in Live /\ wire[s] # <<>> /\ Head(wire[s]).kind = "normal") \/ conn[s] = "closing"
      BY <2>1, <3>1 DEF ClosesWith, Live
    <3>3. CASE conn[s] = "closing"
      <4>1. serv[s] = "done"
        BY <1>2, <3>3 DEF NormalAfterExit, NormalOK
      <4>2. s # session
        BY <1>2, <2>7, <3>3 DEF CurOK
      <4>3. OutcomeOK'
        BY <2>2, <2>3, <3>1, <4>1, <4>2 DEF OutcomeOK, OutcomeSettled, TruthfulSuccess, Settled
      <4> QED
        BY <2>4, <2>5, <4>3 DEF NormalAfterExit
    <3>4. CASE conn[s] \in Live /\ wire[s] # <<>> /\ Head(wire[s]).kind = "normal"
      <4>1. s = cur
        BY <1>1, <3>4 DEF SocketsInv, RunsOrdered
      <4>2. 1 \in DOMAIN wire[s] /\ wire[s][1] = Head(wire[s])
        BY <1>1, <3>4, HeadTailProperties, LenProperties, EmptySeq DEF TypeOK, SocketsOK
      <4>3. serv[s] = "done" /\ (s \in stale \/ Match(s))
        BY <1>2, <3>4, <4>2 DEF NormalAfterExit, NormalOK
      <4>4. ASSUME Match(s)
            PROVE  /\ state' = "complete" => result[s].end = "ok"
                   /\ state' = "nonzero" => result[s].end = "nonzero"
        <5>1. result[s].end \in {"ok", "nonzero", "trap"} /\ result[s].end # "trap"
          BY <3>1, <4>4, SessionAssumption DEF Match
        <5> QED
          BY <3>1, <4>4, <5>1 DEF Match, CodeOf
      <4>5. OutcomeOK'
        BY <2>2, <2>3, <3>1, <4>1, <4>3, <4>4 DEF OutcomeOK, OutcomeSettled, TruthfulSuccess, Settled
      <4> QED
        BY <2>4, <2>5, <4>5 DEF NormalAfterExit
    <3> QED
      BY <3>2, <3>3, <3>4
  <2> QED
    BY <2>6, <2>7
<1>26. CASE UNCHANGED vars
  BY <1>7, <1>26 DEF vars, console, term
<1> QED
  BY <1>4, <1>5, <1>6, <1>8, <1>9, <1>10, <1>11, <1>14, <1>15, <1>18, <1>19, <1>20, <1>21, <1>23, <1>24,
     <1>25, <1>26 DEF Next, User, Server, Socket

LEMMA TruthInit == Init => TruthInv
<1> SUFFICES ASSUME Init PROVE TruthInv
  OBVIOUS
<1>1. NormalAfterExit
  BY DEF Init, NormalAfterExit, NormalOK
<1>2. CurOK /\ OutcomeOK
  BY DEF Init, CurOK, OutcomeOK, OutcomeSettled, TruthfulSuccess
<1> QED
  BY <1>1, <1>2, FilesInit DEF TruthInv

\* The close event of the console's own run never makes the run look better than
\* its exit frame said, unless the close of a replaced socket took its refs.
THEOREM OutcomeSafety == Spec => []TruthfulSuccess
<1>1. TruthInv => TruthfulSuccess
  BY DEF TruthInv, OutcomeOK
<1> QED
  BY <1>1, TruthInit, TruthStep, PTL DEF Spec
-----------------------------------------------------------------------------
(***************************************************************************)
(* Output.                                                                 *)
(***************************************************************************)
\* Everything the socket delivered and the terminal still has.
Out == screen \o buffer

\* A run that has not been heard of yet has not started, and has written nothing.
Fresh(s) ==
  /\ conn[s] = "new" \/ (conn[s] = "connecting" /\ wire[s] = <<>>) => serv[s] = "idle"
  /\ serv[s] \in {"idle", "executing"} => written[s] = 0

\* The terminal holds the chunks in order, and none of a run newer than the live one.
OutOrdered == \A i, j \in DOMAIN Out : i < j => Before(Out[i], Out[j])
OutKnown   == \A i \in DOMAIN Out : Out[i][1] <= issued /\ (cur # 0 => Out[i][1] <= cur)

\* The chunks on their way are in order, newer than those delivered, and not newer
\* than what WSExecute has written.
ChunksOrdered(s) ==
  /\ \A i, j \in DOMAIN wire[s] :
       i < j /\ wire[s][i].kind = "chunk" /\ wire[s][j].kind = "chunk" => wire[s][i].n < wire[s][j].n
  /\ \A i \in DOMAIN Out, j \in DOMAIN wire[s] :
       Out[i][1] = s /\ wire[s][j].kind = "chunk" => Out[i][2] < wire[s][j].n
  /\ serv[s] # "done" =>
       /\ \A j \in DOMAIN wire[s] : wire[s][j].kind = "chunk" => wire[s][j].n <= written[s]
       /\ \A i \in DOMAIN Out : Out[i][1] = s => Out[i][2] <= written[s]

OrderInv ==
  TruthInv /\ OutOrdered /\ OutKnown /\ \A s \in Runs : Fresh(s) /\ ChunksOrdered(s)

\* Chunk n of run s was delivered, or is among the first k frames on the wire.
Delivered(s, n) == <<s, n>> \in Range(Out)
OnWire(s, n, k) == \E j \in 1..k : wire[s][j] = Frame("chunk", n)

\* What a run wrote is delivered or on the wire; its exit frame comes after all of
\* it, and once that is delivered everything is on the screen.
NothingMissing(s) ==
  s \notin unseen =>
    /\ conn[s] = "open" /\ serv[s] = "writing" =>
         \A n \in 1..written[s] : Delivered(s, n) \/ OnWire(s, n, Len(wire[s]))
    /\ \A i \in DOMAIN wire[s] :
         wire[s][i].kind = "exit" =>
           \A n \in 1..result[s].chunks : Delivered(s, n) \/ OnWire(s, n, i - 1)
    /\ 1 \in DOMAIN wire[s] /\ wire[s][1].kind = "normal" =>
         \A n \in 1..result[s].chunks : <<s, n>> \in Range(screen)

ShownInv == OrderInv /\ AllOutputShown /\ \A s \in Runs : NothingMissing(s)
\* What a step does to one run: nothing but opening its socket, or it lets go of it.
Same(s) ==
  /\ wire'[s] = wire[s] /\ serv'[s] = serv[s] /\ written'[s] = written[s] /\ result'[s] = result[s]
  /\ conn'[s] = conn[s] \/ (conn[s] = "new" /\ conn'[s] = "connecting")

Gone(s) ==
  /\ wire'[s] = <<>> /\ conn'[s] \in {"failing", "closing", "closed"} /\ result'[s] = result[s]
  /\ serv'[s] = "done" \/ (serv'[s] = serv[s] /\ written'[s] = written[s])

Moves(s) == OnOpen(s) \/ Server(s) \/ Lose(s) \/ OnChunk(s) \/ OnErrorFrame(s) \/ OnExit(s)

LEMMA EffectRun ==
  ASSUME TypeOK, SocketsInv, CurOK, NEW want \in 0..MaxRuns, SocketEffect(want),
         want = 0 \/ want = cur \/ conn[want] = "new", NEW s \in Runs
  PROVE  Same(s) \/ Gone(s)
<1>1. CASE want = cur
  BY <1>1 DEF SocketEffect, server, Same
<1>2. CASE want # cur
  <2>1. /\ conn'[s] = IF s = want THEN "connecting" ELSE IF s = cur THEN Closing(s) ELSE conn[s]
        /\ serv'[s] = (IF s \in {cur} THEN "done" ELSE serv[s])
        /\ wire'[s] = (IF s \in {cur} THEN <<>> ELSE wire[s])
        /\ written'[s] = (IF s \in {cur} THEN 0 ELSE written[s])
        /\ result' = result
    BY <1>2 DEF SocketEffect, Forgets
  <2>2. s # 0
    BY SessionAssumption DEF Runs
  <2>3. CASE s = cur
    BY <1>2, <2>1, <2>2, <2>3 DEF Gone, Closing, CurOK
  <2>4. CASE s # cur
    BY <1>2, <2>1, <2>2, <2>4 DEF Same
  <2> QED
    BY <2>3, <2>4
<1> QED
  BY <1>1, <1>2

LEMMA RunStep ==
  ASSUME TypeOK, SocketsInv, NormalAfterExit, CurOK, [Next]_vars, NEW s \in Runs
  PROVE  Same(s) \/ Gone(s) \/ Moves(s)
<1>1. /\ session \in 0..issued /\ cur \in 0..issued /\ issued \in 0..MaxRuns /\ MaxRuns \in Nat
  BY SessionAssumption DEF SocketsInv, RunsOrdered, TypeOK, ConsoleOK
<1>2. CASE handleRun
  <2> DEFINE want == Wanted("running", issued + 1)
  <2>1. SocketEffect(want) /\ issued < MaxRuns
    BY <1>2 DEF handleRun, SetNow
  <2>2. want \in {0, issued + 1} /\ want \in 0..MaxRuns
    BY <1>1, <2>1 DEF Wanted
  <2>3. want = 0 \/ conn[want] = "new"
    BY <1>1, <2>1, <2>2 DEF SocketsInv, RunsOrdered, Runs
  <2> HIDE DEF want
  <2> QED
    BY <2>1, <2>2, <2>3, EffectRun
<1>3. CASE handleStop \/ handleReset
  <2>1. SocketEffect(0)
    BY <1>3 DEF handleStop, handleReset, SetNow, Wanted
  <2> QED
    BY <1>1, <2>1, EffectRun
<1>4. CASE Render
  <2> DEFINE want == Wanted(state, session)
  <2>1. SocketEffect(want)
    BY <1>4 DEF Render
  <2>2. want \in 0..MaxRuns /\ want \in {0, session} /\ (want # 0 => state = "running")
    BY <1>1 DEF Wanted
  <2>3. want = 0 \/ want = cur \/ conn[want] = "new"
    BY <2>2 DEF SocketsInv, RunsOrdered
  <2> HIDE DEF want
  <2> QED
    BY <2>1, <2>2, <2>3, EffectRun
<1>5. CASE handleCompileAndRun \/ CompileFails \/ handleCompiled \/ handleReconnect \/ XtermLoads \/ flushBuffer
  BY <1>5 DEF handleCompileAndRun, CompileFails, handleCompiled, handleReconnect, XtermLoads, flushBuffer,
              server, Same
<1>6. CASE handleCrash
  <2>1. /\ conn'[s] = (IF conn[s] = "new" THEN "new" ELSE "closed")
        /\ serv'[s] = (IF s \in {cur} THEN "done" ELSE serv[s])
        /\ wire'[s] = (IF s \in {cur} THEN <<>> ELSE wire[s])
        /\ written'[s] = (IF s \in {cur} THEN 0 ELSE written[s])
        /\ result' = result
    BY <1>6 DEF handleCrash, Forgets
  <2>2. s # 0
    BY SessionAssumption DEF Runs
  <2>3. CASE s = cur
    BY <2>1, <2>2, <2>3 DEF Gone, CurOK
  <2>4. CASE s # cur
    <3>1. wire[s] = <<>>
      BY <2>4 DEF SocketsInv, RunsOrdered, NormalAfterExit, NormalOK
    <3> QED
      BY <2>1, <2>4, <3>1 DEF Gone, Same
  <2> QED
    BY <2>3, <2>4
<1>7. ASSUME NEW x \in Runs, x # s, Server(x) \/ Lose(x) \/ OnOpen(x) PROVE Same(s)
  BY <1>7 DEF Server, ExecuteFails, ExecuteReturns, WriteChunk, WriteExit, Lose, OnOpen, Sends, Same,
              TypeOK, SocketsOK
<1>8. ASSUME NEW x \in Runs, NEW kind, x # s, Delivers(x, kind) PROVE Same(s)
  BY <1>8 DEF Delivers, Same, TypeOK, SocketsOK
<1>9. ASSUME NEW x \in Runs, OnClose(x) PROVE Same(s) \/ Gone(s)
  BY <1>9 DEF OnClose, Same, Gone, TypeOK, SocketsOK
<1>10. CASE UNCHANGED vars
  BY <1>10 DEF vars, server, Same
<1> QED
  BY <1>2, <1>3, <1>4, <1>5, <1>6, <1>7, <1>8, <1>9, <1>10
     DEF Next, User, Socket, Moves, OnChunk, OnErrorFrame, OnExit

\* What a step does to the output the terminal holds: nothing, unless xterm is not
\* loaded or crashes, or a chunk arrives.
LEMMA FlushAllOut ==
  ASSUME TypeOK, FlushAll
  PROVE  /\ ready => Out' = Out /\ unseen' = unseen
         /\ ~ready => Out' = screen /\ unseen' = unseen \cup RunsIn(buffer)
<1>1. screen \in Seq(Runs \X Nat) /\ buffer \in Seq(Runs \X Nat) /\ screen \o buffer \in Seq(Runs \X Nat)
  BY ConcatType DEF TypeOK, TerminalOK
<1>2. screen \o <<>> = screen /\ (screen \o buffer) \o <<>> = screen \o buffer
  BY <1>1, ConcatEmptySeq
<1> QED
  BY <1>2 DEF FlushAll, Out

\* Joining three sequences, in either order.
LEMMA Associates ==
  ASSUME NEW S PROVE \A x, y, z \in Seq(S) : (x \o y) \o z = x \o (y \o z)
<1>1. ASSUME NEW x \in Seq(S), NEW y \in Seq(S), NEW z \in Seq(S)
      PROVE  (x \o y) \o z = x \o (y \o z)
  BY ConcatAssociative, SMT
<1> QED
  BY <1>1

\* Where the entries of a joined sequence come from.
Joined(s, t) ==
  /\ Len(s \o t) = Len(s) + Len(t)
  /\ \A i \in 1..Len(s) : (s \o t)[i] = s[i]
  /\ \A i \in Len(s) + 1..Len(s) + Len(t) : (s \o t)[i] = t[i - Len(s)]

LEMMA JoinIs ==
  ASSUME NEW E, NEW s \in Seq(E), NEW t \in Seq(E)
  PROVE  s \o t \in Seq(E) /\ Joined(s, t)
<1> QED
  BY DEF Joined

\* Moving the first entries of a sequence behind another one changes neither the
\* entries nor their order.
LEMMA MoveBorder ==
  ASSUME NEW E, NEW front \in Seq(E), NEW seq \in Seq(E), NEW k \in 0..Len(seq)
  PROVE  (front \o SubSeq(seq, 1, k)) \o SubSeq(seq, k + 1, Len(seq)) = front \o seq
<1> DEFINE a == SubSeq(seq, 1, k)
           b == SubSeq(seq, k + 1, Len(seq))
           l == (front \o a) \o b
           r == front \o seq
           m == Len(front)
<1>1. m \in Nat /\ Len(seq) \in Nat /\ k \in Nat /\ k <= Len(seq)
  BY LenProperties
<1>2. a \in Seq(E) /\ Len(a) = k /\ \A i \in 1..k : a[i] = seq[i]
  BY <1>1
<1>3. b \in Seq(E) /\ Len(b) = Len(seq) - k /\ \A i \in 1..Len(seq) - k : b[i] = seq[k + i]
  BY <1>1
<1> HIDE DEF a, b
<1>4. /\ front \o a \in Seq(E) /\ Len(front \o a) = m + k
      /\ \A i \in 1..m : (front \o a)[i] = front[i]
      /\ \A i \in m + 1..m + k : (front \o a)[i] = a[i - m]
  <2>1. front \o a \in Seq(E) /\ Joined(front, a)
    BY <1>2, JoinIs, Zenon
  <2> QED
    BY <1>2, <2>1 DEF Joined
<1>5. /\ l \in Seq(E) /\ Len(l) = m + Len(seq)
      /\ \A i \in 1..m + k : l[i] = (front \o a)[i]
      /\ \A i \in m + k + 1..m + Len(seq) : l[i] = b[i - (m + k)]
  <2> HIDE DEF m
  <2>1. /\ l \in Seq(E) /\ Len(l) = (m + k) + Len(b)
        /\ \A i \in 1..m + k : l[i] = (front \o a)[i]
        /\ \A i \in m + k + 1..(m + k) + Len(b) : l[i] = b[i - (m + k)]
    <3> DEFINE f == front \o a
    <3>1. f \in Seq(E) /\ Len(f) = m + k
      BY <1>4
    <3> HIDE DEF f
    <3>2. f \o b \in Seq(E) /\ Joined(f, b)
      BY <1>3, <3>1, JoinIs, Zenon
    <3>3. l = f \o b
      BY DEF f
    <3> HIDE DEF l
    <3> QED
      BY <3>1, <3>2, <3>3 DEF Joined, f
  <2>2. (m + k) + Len(b) = m + Len(seq)
    BY <1>1, <1>3
  <2> QED
    BY <2>1, <2>2
<1>6. /\ r \in Seq(E) /\ Len(r) = m + Len(seq)
      /\ \A i \in 1..m : r[i] = front[i]
      /\ \A i \in m + 1..m + Len(seq) : r[i] = seq[i - m]
  BY <1>1
<1> HIDE DEF l, r, m
<1>7. ASSUME NEW i \in 1..Len(l) PROVE l[i] = r[i]
  <2>1. CASE i \in 1..m
    <3>1. i \in 1..m + k
      BY <1>1, <2>1
    <3>2. l[i] = (front \o a)[i]
      BY <1>5, <3>1
    <3>3. (front \o a)[i] = front[i] /\ r[i] = front[i]
      BY <1>4, <1>6, <2>1
    <3> QED
      BY <3>2, <3>3
  <2>2. CASE i \in m + 1..m + k
    <3>1. i \in 1..m + k /\ i \in m + 1..m + Len(seq) /\ i - m \in 1..k
      BY <1>1, <2>2
    <3> QED
      <4>1. l[i] = (front \o a)[i]
        BY <1>5, <3>1
      <4>2. (front \o a)[i] = a[i - m]
        BY <1>4, <2>2
      <4>3. a[i - m] = seq[i - m] /\ r[i] = seq[i - m]
        BY <1>2, <1>6, <3>1
      <4> QED
        BY <4>1, <4>2, <4>3
  <2>3. CASE i \in m + k + 1..m + Len(seq)
    <3>1. /\ i \in m + 1..m + Len(seq) /\ i - (m + k) \in 1..Len(seq) - k
          /\ k + (i - (m + k)) = i - m
      BY <1>1, <2>3
    <3> QED
      BY <1>3, <1>5, <1>6, <2>3, <3>1
  <2> QED
    BY <1>1, <1>5, <2>1, <2>2, <2>3
<1>8. l = r
  BY <1>5, <1>6, <1>7, SeqEqual
<1> QED
  BY <1>8 DEF l, r, a, b

LEMMA FlushBufferOut == TypeOK /\ flushBuffer => Out' = Out
<1> SUFFICES ASSUME TypeOK, flushBuffer PROVE Out' = Out
  OBVIOUS
<1> DEFINE n == IF PerFrame < Len(buffer) THEN PerFrame ELSE Len(buffer)
<1>1. CASE ready
  <2>1. screen \in Seq(Runs \X Nat) /\ buffer \in Seq(Runs \X Nat) /\ Len(buffer) \in Nat
    BY LenProperties DEF TypeOK, TerminalOK
  <2>2. n \in 0..Len(buffer)
    BY <2>1, SessionAssumption
  <2>3. /\ screen' = screen \o SubSeq(buffer, 1, n)
        /\ buffer' = SubSeq(buffer, n + 1, Len(buffer))
    BY <1>1 DEF flushBuffer
  <2> HIDE DEF n
  <2>4. (screen \o SubSeq(buffer, 1, n)) \o SubSeq(buffer, n + 1, Len(buffer)) = screen \o buffer
    BY <2>1, <2>2, MoveBorder
  <2> QED
    BY <2>3, <2>4 DEF Out
<1>2. CASE ~ready
  BY <1>2 DEF flushBuffer, Out
<1> QED
  BY <1>1, <1>2

OutSame == Out' = Out /\ unseen' = unseen
OutCut  == ~ready /\ Out' = screen /\ unseen' = unseen \cup RunsIn(buffer)

LEMMA EffectOut ==
  ASSUME TypeOK, NEW want, SocketEffect(want) PROVE OutSame \/ OutCut
<1>1. CASE want = cur
  BY <1>1 DEF SocketEffect, OutSame, Out
<1>2. CASE want # cur
  <2>1. Cleanup
    BY <1>2 DEF SocketEffect
  <2> QED
    BY <2>1, FlushAllOut DEF Cleanup, OutSame, OutCut, Out, TypeOK, TerminalOK
<1> QED
  BY <1>1, <1>2

LEMMA ChunkOut ==
  ASSUME TypeOK, NEW s \in Runs, OnChunk(s)
  PROVE  Out' = Append(Out, <<s, Head(wire[s]).n>>)
<1> DEFINE e == <<s, Head(wire[s]).n>>
<1>1. screen' = screen /\ buffer' = Append(buffer, e)
  BY DEF OnChunk
<1>2. Head(wire[s]) \in Frames
  BY TailType DEF OnChunk, Delivers, TypeOK, SocketsOK
<1>3. e \in Runs \X Nat
  BY <1>2 DEF Frames
<1>4. screen \in Seq(Runs \X Nat) /\ buffer \in Seq(Runs \X Nat) /\ screen \o buffer \in Seq(Runs \X Nat)
  BY ConcatType DEF TypeOK, TerminalOK
<1> HIDE DEF e
<1>5. /\ Append(buffer, e) = buffer \o <<e>> /\ <<e>> \in Seq(Runs \X Nat)
      /\ Append(screen \o buffer, e) = (screen \o buffer) \o <<e>>
  <2>1. Append(buffer, e) = buffer \o <<e>>
    BY <1>3, <1>4, AppendIsConcat, Zenon
  <2>2. Append(screen \o buffer, e) = (screen \o buffer) \o <<e>>
    BY <1>3, <1>4, AppendIsConcat, Zenon
  <2>3. <<e>> \in Seq(Runs \X Nat)
    BY <1>3
  <2> QED
    BY <2>1, <2>2, <2>3
<1>6. (screen \o buffer) \o <<e>> = screen \o (buffer \o <<e>>)
  <2> DEFINE S == Runs \X Nat
  <2> HIDE DEF S
  <2>1. \A x, y, z \in Seq(S) : (x \o y) \o z = x \o (y \o z)
    BY Associates
  <2>2. screen \in Seq(S) /\ buffer \in Seq(S) /\ <<e>> \in Seq(S)
    BY <1>4, <1>5 DEF S
  <2> QED
    BY <2>1, <2>2
<1>7. Append(screen \o buffer, e) = screen \o Append(buffer, e)
  BY <1>5, <1>6
<1> QED
  BY <1>1, <1>7 DEF Out, e

LEMMA OutStep ==
  ASSUME TypeOK, [Next]_vars
  PROVE  \/ OutSame \/ OutCut
         \/ handleCrash /\ Out' = <<>>
         \/ \E s \in Runs : OnChunk(s) /\ Out' = Append(Out, <<s, Head(wire[s]).n>>)
<1>1. CASE handleRun \/ handleStop \/ handleReset \/ Render
  BY <1>1, EffectOut DEF handleRun, handleStop, handleReset, Render, SetNow
<1>2. CASE handleCompileAndRun \/ CompileFails \/ handleCompiled \/ handleReconnect \/ XtermLoads
  BY <1>2 DEF handleCompileAndRun, CompileFails, handleCompiled, handleReconnect, XtermLoads,
              term, history, OutSame, Out
<1>3. CASE flushBuffer
  BY <1>3, FlushBufferOut DEF flushBuffer, history, OutSame
<1>4. CASE handleCrash
  <2>1. screen' = <<>> /\ buffer' = <<>>
    BY <1>4 DEF handleCrash
  <2>2. <<>> \o <<>> = <<>>
    BY ConcatEmptySeq, EmptySeq
  <2> QED
    BY <1>4, <2>1, <2>2 DEF Out
<1>5. ASSUME NEW s \in Runs, Server(s) \/ Lose(s) \/ OnOpen(s) PROVE OutSame
  BY <1>5 DEF Server, ExecuteFails, ExecuteReturns, WriteChunk, WriteExit, Lose, OnOpen, term, history,
              OutSame, Out
<1>6. ASSUME NEW s \in Runs, OnErrorFrame(s) \/ OnClose(s) PROVE OutSame
  BY <1>6 DEF OnErrorFrame, OnClose, OutSame, Out
<1>7. ASSUME NEW s \in Runs, OnExit(s) PROVE OutSame \/ OutCut
  BY <1>7, FlushAllOut DEF OnExit, OutSame, OutCut, TypeOK, TerminalOK
<1>8. ASSUME NEW s \in Runs, OnChunk(s) PROVE Out' = Append(Out, <<s, Head(wire[s]).n>>)
  BY <1>8, ChunkOut
<1>9. CASE UNCHANGED vars
  BY <1>9 DEF vars, term, history, OutSame, Out
<1> QED
  BY <1>1, <1>2, <1>3, <1>4, <1>5, <1>6, <1>7, <1>8, <1>9 DEF Next, User, Socket

\* A chunk the socket delivered stays in the buffer until it is on the screen.
LEMMA OutRange ==
  ASSUME TypeOK
  PROVE  /\ Out \in Seq(Runs \X Nat) /\ DOMAIN Out = 1..Len(Out) /\ Len(Out) \in Nat
         /\ screen \in Seq(Runs \X Nat) /\ DOMAIN screen = 1..Len(screen) /\ Len(screen) \in Nat
         /\ Range(Out) = Range(screen) \cup Range(buffer)
         /\ \A i \in DOMAIN screen : i \in DOMAIN Out /\ Out[i] = screen[i]
<1>1. screen \in Seq(Runs \X Nat) /\ buffer \in Seq(Runs \X Nat)
  BY DEF TypeOK, TerminalOK
<1>2. /\ Out \in Seq(Runs \X Nat) /\ Len(Out) = Len(screen) + Len(buffer)
      /\ \A i \in 1..Len(screen) + Len(buffer) :
           Out[i] = IF i <= Len(screen) THEN screen[i] ELSE buffer[i - Len(screen)]
  BY <1>1, ConcatProperties DEF Out
<1>3. /\ Len(screen) \in Nat /\ DOMAIN screen = 1..Len(screen)
      /\ Len(buffer) \in Nat /\ DOMAIN buffer = 1..Len(buffer)
      /\ Len(Out) \in Nat /\ DOMAIN Out = 1..Len(Out)
  BY <1>1, <1>2, LenProperties
<1>4. \A i \in DOMAIN screen : i \in DOMAIN Out /\ Out[i] = screen[i]
  BY <1>2, <1>3
<1>5. ASSUME NEW i \in DOMAIN buffer PROVE \E j \in DOMAIN Out : Out[j] = buffer[i]
  <2>1. /\ Len(screen) + i \in DOMAIN Out /\ ~(Len(screen) + i <= Len(screen))
        /\ Len(screen) + i \in 1..Len(screen) + Len(buffer)
        /\ (Len(screen) + i) - Len(screen) = i
    BY <1>2, <1>3
  <2> QED
    BY <1>2, <2>1
<1>6. ASSUME NEW j \in DOMAIN Out
      PROVE  (\E i \in DOMAIN screen : screen[i] = Out[j]) \/ (\E i \in DOMAIN buffer : buffer[i] = Out[j])
  <2>1. j \in 1..Len(screen) + Len(buffer)
    BY <1>2, <1>3
  <2>2. CASE j <= Len(screen)
    BY <1>2, <1>3, <2>1, <2>2
  <2>3. CASE ~(j <= Len(screen))
    <3>1. j - Len(screen) \in DOMAIN buffer
      BY <1>3, <2>1, <2>3
    <3> QED
      BY <1>2, <2>1, <2>3, <3>1
  <2> QED
    BY <2>2, <2>3
<1>7. Range(Out) = Range(screen) \cup Range(buffer)
  <2>1. Range(Out) \subseteq Range(screen) \cup Range(buffer)
    BY <1>6 DEF Range
  <2>2. Range(screen) \subseteq Range(Out)
    BY <1>4 DEF Range
  <2>3. Range(buffer) \subseteq Range(Out)
    BY <1>5 DEF Range
  <2> QED
    BY <2>1, <2>2, <2>3
<1> QED
  BY <1>1, <1>2, <1>3, <1>4, <1>7

LEMMA AppendRange ==
  ASSUME NEW S, NEW q \in Seq(S), NEW e \in S
  PROVE  /\ Range(Append(q, e)) = Range(q) \cup {e}
         /\ \A i \in DOMAIN Append(q, e) :
              (i \in DOMAIN q /\ i < Len(q) + 1 /\ Append(q, e)[i] = q[i])
                \/ (i = Len(q) + 1 /\ Append(q, e)[i] = e)
<1>1. /\ Append(q, e) \in Seq(S) /\ Len(Append(q, e)) = Len(q) + 1
      /\ \A i \in 1..Len(q) : Append(q, e)[i] = q[i]
      /\ Append(q, e)[Len(q) + 1] = e
  BY AppendProperties
<1>2. /\ Len(q) \in Nat /\ DOMAIN q = 1..Len(q)
      /\ DOMAIN Append(q, e) = 1..(Len(q) + 1) /\ Len(q) + 1 \in DOMAIN Append(q, e)
  BY <1>1, LenProperties
<1>3. \A i \in DOMAIN Append(q, e) :
        (i \in DOMAIN q /\ i < Len(q) + 1 /\ Append(q, e)[i] = q[i])
          \/ (i = Len(q) + 1 /\ Append(q, e)[i] = e)
  BY <1>1, <1>2
<1>4. \A i \in DOMAIN q : i \in DOMAIN Append(q, e) /\ Append(q, e)[i] = q[i]
  BY <1>1, <1>2
<1>5. Range(Append(q, e)) = Range(q) \cup {e}
  BY <1>1, <1>2, <1>3, <1>4, Zenon DEF Range
<1> QED
  BY <1>3, <1>5

LEMMA KeptStep ==
  TypeOK /\ TypeOK' /\ [Next]_vars =>
    (ready /\ mounted' => \A i \in DOMAIN buffer : buffer[i] \in Range(screen' \o buffer'))
<1> SUFFICES ASSUME TypeOK, TypeOK', [Next]_vars, ready, mounted'
             PROVE  \A i \in DOMAIN buffer : buffer[i] \in Range(Out')
  BY DEF Out
<1>1. \A i \in DOMAIN buffer : buffer[i] \in Range(Out)
  BY OutRange, Zenon DEF Range
<1>2. Range(Out) \subseteq Range(Out')
  <2>1. CASE OutSame
    BY <2>1 DEF OutSame
  <2>2. CASE \E s \in Runs : OnChunk(s) /\ Out' = Append(Out, <<s, Head(wire[s]).n>>)
    <3>1. PICK s \in Runs : OnChunk(s) /\ Out' = Append(Out, <<s, Head(wire[s]).n>>)
      BY <2>2
    <3>2. Head(wire[s]) \in Frames
      BY <3>1, TailType DEF OnChunk, Delivers, TypeOK, SocketsOK
    <3>3. <<s, Head(wire[s]).n>> \in Runs \X Nat
      BY <3>2 DEF Frames
    <3>4. Out \in Seq(Runs \X Nat)
      BY OutRange
    <3> QED
      BY <3>1, <3>3, <3>4, AppendRange
  <2>3. ~OutCut /\ ~handleCrash
    BY DEF OutCut, handleCrash
  <2> QED
    BY <2>1, <2>2, <2>3, OutStep
<1> QED
  BY <1>1, <1>2

\* Neither the exit frame nor the cleanup that cancels the frame loop drops a chunk
\* the socket delivered, once xterm is loaded.
THEOREM OutputNotDropped == Spec => OutputKept
<1>1. TypeOK /\ TypeOK' /\ [Next]_vars =>
        [ready /\ mounted' => \A i \in DOMAIN buffer : buffer[i] \in Range(screen' \o buffer')]_vars
  BY KeptStep
<1> QED
  BY <1>1, TypeCorrect, PTL DEF Spec, OutputKept
-----------------------------------------------------------------------------
\* The elements of the terminal after a step: those before it, and the chunk that
\* came first on the wire.
LEMMA OutElements ==
  ASSUME TypeOK, TypeOK', [Next]_vars
  PROVE  /\ \A i \in DOMAIN Out' :
              \/ \E k \in DOMAIN Out : Out'[i] = Out[k]
              \/ \E s \in Runs : /\ OnChunk(s) /\ wire[s] \in Seq(Frames) /\ wire[s] # <<>>
                                 /\ wire[s][1].kind = "chunk" /\ Out'[i] = <<s, wire[s][1].n>>
         /\ \A i, j \in DOMAIN Out' : i < j =>
              /\ i \in DOMAIN Out /\ Out'[i] = Out[i]
              /\ \/ j \in DOMAIN Out /\ Out'[j] = Out[j]
                 \/ \E s \in Runs : /\ OnChunk(s) /\ wire[s] \in Seq(Frames) /\ wire[s] # <<>>
                                    /\ wire[s][1].kind = "chunk" /\ Out'[j] = <<s, wire[s][1].n>>
<1>1. CASE OutSame
  BY <1>1 DEF OutSame
<1>2. CASE OutCut
  BY <1>2, OutRange DEF OutCut
<1>3. CASE Out' = <<>>
  BY <1>3
<1>4. CASE \E s \in Runs : OnChunk(s) /\ Out' = Append(Out, <<s, Head(wire[s]).n>>)
  <2>1. PICK s \in Runs : OnChunk(s) /\ Out' = Append(Out, <<s, Head(wire[s]).n>>)
    BY <1>4
  <2>2. wire[s] \in Seq(Frames) /\ wire[s] # <<>> /\ Head(wire[s]).kind = "chunk"
    BY <2>1 DEF OnChunk, Delivers, TypeOK, SocketsOK
  <2>3. Head(wire[s]) \in Frames /\ wire[s][1] = Head(wire[s])
    BY <2>2, HeadTailProperties
  <2>4. <<s, wire[s][1].n>> \in Runs \X Nat
    BY <2>3 DEF Frames
  <2>5. Out \in Seq(Runs \X Nat) /\ DOMAIN Out = 1..Len(Out) /\ Len(Out) \in Nat
    BY OutRange
  <2> DEFINE e == <<s, wire[s][1].n>>
  <2>6. Out' = Append(Out, e)
    BY <2>1, <2>3
  <2>7. e \in Runs \X Nat
    BY <2>4
  <2> HIDE DEF e
  <2>8. \A i \in DOMAIN Out' :
          (i \in DOMAIN Out /\ i < Len(Out) + 1 /\ Out'[i] = Out[i])
            \/ (i = Len(Out) + 1 /\ Out'[i] = e)
    BY <2>5, <2>6, <2>7, AppendRange
  <2>9. \A i, j \in DOMAIN Out' : i < j => i \in DOMAIN Out /\ Out'[i] = Out[i]
    <3> SUFFICES ASSUME NEW i \in DOMAIN Out', NEW j \in DOMAIN Out', i < j PROVE i # Len(Out) + 1
      BY <2>8
    <3>1. j \in DOMAIN Out \/ j = Len(Out) + 1
      BY <2>8
    <3>2. i \in DOMAIN Out \/ i = Len(Out) + 1
      BY <2>8
    <3> QED
      BY <2>5, <3>1, <3>2
  <2> QED
    BY <2>1, <2>2, <2>3, <2>8, <2>9 DEF e
<1> QED
  BY <1>1, <1>2, <1>3, <1>4, OutStep

\* Dropping frames from the wire, and delivering the first one, keeps the order.
LEMMA ChunksShift ==
  ASSUME TypeOK, NEW s \in Runs, ChunksOrdered(s), NEW d \in {0, 1}, wire'[s] \in Seq(Frames),
         \A j \in DOMAIN wire'[s] :
           wire'[s][j].kind = "chunk" => j + d \in DOMAIN wire[s] /\ wire'[s][j] = wire[s][j + d],
         \A i \in DOMAIN Out' : Out'[i][1] = s =>
           \/ \E k \in DOMAIN Out : Out'[i] = Out[k]
           \/ d = 1 /\ 1 \in DOMAIN wire[s] /\ wire[s][1].kind = "chunk" /\ Out'[i] = <<s, wire[s][1].n>>,
         serv'[s] # "done" => serv[s] # "done" /\ written'[s] = written[s]
  PROVE  ChunksOrdered(s)'
<1>1. DOMAIN wire'[s] = 1..Len(wire'[s]) /\ Len(wire'[s]) \in Nat
  BY LenProperties
<1>2. ASSUME NEW i \in DOMAIN wire'[s], NEW j \in DOMAIN wire'[s], i < j,
             wire'[s][i].kind = "chunk", wire'[s][j].kind = "chunk"
      PROVE  wire'[s][i].n < wire'[s][j].n
  <2>1. i + d < j + d
    BY <1>1, <1>2
  <2> QED
    BY <1>2, <2>1 DEF ChunksOrdered
<1>3. ASSUME NEW i \in DOMAIN Out', NEW j \in DOMAIN wire'[s], Out'[i][1] = s, wire'[s][j].kind = "chunk"
      PROVE  Out'[i][2] < wire'[s][j].n
  <2>1. CASE \E k \in DOMAIN Out : Out'[i] = Out[k]
    BY <1>3, <2>1 DEF ChunksOrdered
  <2>2. CASE d = 1 /\ 1 \in DOMAIN wire[s] /\ wire[s][1].kind = "chunk" /\ Out'[i] = <<s, wire[s][1].n>>
    <3>1. j + 1 \in DOMAIN wire[s] /\ wire'[s][j] = wire[s][j + 1] /\ 1 < j + 1
      BY <1>1, <1>3, <2>2
    <3>2. wire[s][1].n < wire[s][j + 1].n
      BY <1>3, <2>2, <3>1 DEF ChunksOrdered
    <3> QED
      BY <2>2, <3>1, <3>2
  <2> QED
    BY <1>3, <2>1, <2>2
<1>4. ASSUME serv'[s] # "done"
      PROVE  /\ \A j \in DOMAIN wire'[s] : wire'[s][j].kind = "chunk" => wire'[s][j].n <= written'[s]
             /\ \A i \in DOMAIN Out' : Out'[i][1] = s => Out'[i][2] <= written'[s]
  <2>1. \A j \in DOMAIN wire'[s] : wire'[s][j].kind = "chunk" => wire'[s][j].n <= written'[s]
    BY <1>4 DEF ChunksOrdered
  <2>2. ASSUME NEW i \in DOMAIN Out', Out'[i][1] = s PROVE Out'[i][2] <= written'[s]
    BY <1>4, <2>2 DEF ChunksOrdered
  <2> QED
    BY <2>1, <2>2
<1> QED
  BY <1>2, <1>3, <1>4 DEF ChunksOrdered

LEMMA FreshStep ==
  ASSUME TypeOK, TypeOK', SocketsInv, NormalAfterExit, CurOK, [Next]_vars, NEW s \in Runs, Fresh(s)
  PROVE  Fresh(s)'
<1>1. CASE Same(s)
  BY <1>1 DEF Same, Fresh
<1>2. CASE Gone(s)
  BY <1>2 DEF Gone, Fresh
<1>3. CASE OnOpen(s)
  BY <1>3 DEF OnOpen, Fresh, TypeOK, SocketsOK
<1>4. CASE Server(s)
  BY <1>4 DEF Server, ExecuteFails, ExecuteReturns, WriteChunk, WriteExit, Fresh, TypeOK, SocketsOK
<1>5. CASE Lose(s)
  <2>1. PICK k \in 0..Len(wire[s]) :
          wire' = [wire EXCEPT ![s] = SubSeq(@, 1, k) \o <<Frame("abnormal", 0)>>]
    BY <1>5 DEF Lose
  <2>2. SubSeq(wire[s], 1, k) \in Seq(Frames) /\ <<Frame("abnormal", 0)>> \in Seq(Frames)
    <3>1. <<Frame("abnormal", 0)>> \in Seq(Frames)
      BY SessionAssumption DEF Frame, Frames
    <3> QED
      BY <3>1, SubSeqType DEF TypeOK, SocketsOK
  <2>3. wire'[s] = SubSeq(wire[s], 1, k) \o <<Frame("abnormal", 0)>>
    BY <2>1 DEF TypeOK, SocketsOK
  <2>4. wire'[s] # <<>>
    BY <2>2, <2>3, ConcatEqualIffEmpty
  <2> QED
    BY <1>5, <2>4 DEF Lose, Fresh, TypeOK, SocketsOK
<1>6. CASE OnChunk(s) \/ OnErrorFrame(s) \/ OnExit(s)
  BY <1>6 DEF OnChunk, OnErrorFrame, OnExit, Delivers, Fresh
<1> QED
  BY <1>1, <1>2, <1>3, <1>4, <1>5, <1>6, RunStep DEF Moves

\* The frames that follow a sent frame, or a cut.
LEMMA SentFrames ==
  ASSUME TypeOK, NEW s \in Runs
  PROVE  /\ ExecuteFails(s) => wire'[s] = wire[s] \o <<Frame("error", 0), Frame("abnormal", 0)>>
         /\ WriteChunk(s) => wire'[s] = wire[s] \o <<Frame("chunk", written[s] + 1)>>
         /\ WriteExit(s) => wire'[s] = wire[s] \o <<Frame("exit", 0), Frame("normal", 0)>>
         /\ Lose(s) => \E k \in 0..Len(wire[s]) :
                         wire'[s] = SubSeq(wire[s], 1, k) \o <<Frame("abnormal", 0)>>
         /\ <<Frame("error", 0), Frame("abnormal", 0)>> \in Seq(Frames)
         /\ <<Frame("exit", 0), Frame("normal", 0)>> \in Seq(Frames)
         /\ <<Frame("abnormal", 0)>> \in Seq(Frames)
         /\ WriteChunk(s) => <<Frame("chunk", written[s] + 1)>> \in Seq(Frames)
<1>1. wire \in [Runs -> Seq(Frames)]
  BY DEF TypeOK, SocketsOK
<1>2. ASSUME NEW kind \in {"chunk", "error", "exit", "normal", "abnormal"}, NEW n \in 0..MaxChunks
      PROVE  Frame(kind, n) \in Frames
  BY DEF Frame, Frames
<1>3. 0 \in 0..MaxChunks
  BY SessionAssumption
<1>4. ASSUME WriteChunk(s) PROVE written[s] + 1 \in 0..MaxChunks
  <2>1. result[s] \in Results \cup {None, Failed}
    BY DEF TypeOK, SocketsOK
  <2>2. result[s].chunks \in 0..MaxChunks
    BY <2>1, SessionAssumption DEF None, Failed
  <2> QED
    BY <1>4, <2>2, SessionAssumption DEF WriteChunk, TypeOK, SocketsOK
<1>5. /\ ExecuteFails(s) => wire'[s] = wire[s] \o <<Frame("error", 0), Frame("abnormal", 0)>>
      /\ WriteChunk(s) => wire'[s] = wire[s] \o <<Frame("chunk", written[s] + 1)>>
      /\ WriteExit(s) => wire'[s] = wire[s] \o <<Frame("exit", 0), Frame("normal", 0)>>
  BY <1>1 DEF ExecuteFails, WriteChunk, WriteExit, Sends
<1>6. Lose(s) => \E k \in 0..Len(wire[s]) : wire'[s] = SubSeq(wire[s], 1, k) \o <<Frame("abnormal", 0)>>
  BY <1>1 DEF Lose
<1>7. /\ <<Frame("error", 0), Frame("abnormal", 0)>> \in Seq(Frames)
      /\ <<Frame("exit", 0), Frame("normal", 0)>> \in Seq(Frames)
      /\ <<Frame("abnormal", 0)>> \in Seq(Frames)
  <2>1. /\ Frame("error", 0) \in Frames /\ Frame("abnormal", 0) \in Frames
        /\ Frame("exit", 0) \in Frames /\ Frame("normal", 0) \in Frames
    BY <1>2, <1>3
  <2> QED
    BY <2>1
<1>8. ASSUME WriteChunk(s) PROVE <<Frame("chunk", written[s] + 1)>> \in Seq(Frames)
  <2>1. Frame("chunk", written[s] + 1) \in Frames
    BY <1>2, <1>4, <1>8
  <2> QED
    BY <2>1
<1> QED
  BY <1>5, <1>6, <1>7, <1>8, Zenon

LEMMA ChunksStep ==
  ASSUME TypeOK, TypeOK', SocketsInv, NormalAfterExit, CurOK, [Next]_vars, NEW s \in Runs, Fresh(s), ChunksOrdered(s)
  PROVE  ChunksOrdered(s)'
<1>1. wire[s] \in Seq(Frames) /\ wire'[s] \in Seq(Frames)
      /\ DOMAIN wire[s] = 1..Len(wire[s]) /\ Len(wire[s]) \in Nat
  BY LenProperties DEF TypeOK, SocketsOK
<1>2. ~OnChunk(s) => \A i \in DOMAIN Out' : Out'[i][1] = s => \E k \in DOMAIN Out : Out'[i] = Out[k]
  <2> SUFFICES ASSUME ~OnChunk(s), NEW i \in DOMAIN Out', Out'[i][1] = s
               PROVE  \E k \in DOMAIN Out : Out'[i] = Out[k]
    OBVIOUS
  <2> QED
    BY OutElements
\* The frames on the wire are the same, or some of them, or others than chunks.
<1>3. ASSUME ~OnChunk(s), serv'[s] # "done" => serv[s] # "done" /\ written'[s] = written[s],
             \A j \in DOMAIN wire'[s] :
               wire'[s][j].kind = "chunk" => j \in DOMAIN wire[s] /\ wire'[s][j] = wire[s][j]
      PROVE  ChunksOrdered(s)'
  <2>1. \A j \in DOMAIN wire'[s] :
          wire'[s][j].kind = "chunk" => j + 0 \in DOMAIN wire[s] /\ wire'[s][j] = wire[s][j + 0]
    <3>1. \A j \in DOMAIN wire[s] : j + 0 = j
      BY <1>1
    <3> QED
      BY <1>3, <3>1
  <2> QED
    BY <1>1, <1>2, <1>3, <2>1, ChunksShift
<1>4. ASSUME NEW q \in Seq(Frames), NEW r \in Seq(Frames), wire'[s] = q \o r, ~OnChunk(s), serv'[s] = "done",
             \A i \in DOMAIN r : r[i].kind # "chunk",
             \A i \in DOMAIN q : i \in DOMAIN wire[s] /\ q[i] = wire[s][i]
      PROVE  ChunksOrdered(s)'
  <2>1. \A j \in DOMAIN wire'[s] :
          wire'[s][j].kind = "chunk" => j \in DOMAIN wire[s] /\ wire'[s][j] = wire[s][j]
    BY <1>4, FramesOfConcat
  <2> QED
    BY <1>3, <1>4, <2>1
<1>5. CASE Same(s) /\ ~OnChunk(s)
  BY <1>3, <1>5 DEF Same
<1>6. CASE Gone(s) /\ ~OnChunk(s)
  BY <1>3, <1>6 DEF Gone
<1>7. CASE OnOpen(s)
  <2>1. wire'[s] = wire[s] /\ serv[s] # "done" /\ written' = written /\ ~OnChunk(s)
    BY <1>7 DEF OnOpen, Fresh, OnChunk, Delivers
  <2> QED
    BY <1>3, <2>1
<1>8. CASE ExecuteReturns(s)
  <2>1. wire'[s] = wire[s] /\ serv[s] # "done" /\ written' = written /\ ~OnChunk(s)
    BY <1>8 DEF ExecuteReturns, OnChunk, Delivers, TypeOK, SocketsOK
  <2> QED
    BY <1>3, <2>1
<1>9. CASE ExecuteFails(s) \/ WriteExit(s)
  <2>1. serv'[s] = "done" /\ ~OnChunk(s)
    BY <1>9 DEF ExecuteFails, WriteExit, OnChunk, Delivers, TypeOK, SocketsOK
  <2>2. CASE ExecuteFails(s)
    <3> DEFINE q == <<Frame("error", 0), Frame("abnormal", 0)>>
    <3>1. q \in Seq(Frames) /\ wire'[s] = wire[s] \o q
      BY <2>2, SentFrames
    <3>2. \A i \in DOMAIN q : q[i].kind # "chunk"
      BY DEF Frame
    <3> HIDE DEF q
    <3> QED
      BY <1>1, <1>4, <2>1, <3>1, <3>2
  <2>3. CASE WriteExit(s)
    <3> DEFINE q == <<Frame("exit", 0), Frame("normal", 0)>>
    <3>1. q \in Seq(Frames) /\ wire'[s] = wire[s] \o q
      BY <2>3, SentFrames
    <3>2. \A i \in DOMAIN q : q[i].kind # "chunk"
      BY DEF Frame
    <3> HIDE DEF q
    <3> QED
      BY <1>1, <1>4, <2>1, <3>1, <3>2
  <2> QED
    BY <1>9, <2>2, <2>3
<1>10. CASE Lose(s) /\ ~OnChunk(s)
  <2> DEFINE q == <<Frame("abnormal", 0)>>
  <2>1. serv'[s] = "done" /\ ~OnChunk(s)
    BY <1>10 DEF Lose, TypeOK, SocketsOK
  <2>2. PICK k \in 0..Len(wire[s]) : wire'[s] = SubSeq(wire[s], 1, k) \o q
    BY <1>10, SentFrames
  <2>3. q \in Seq(Frames)
    BY SentFrames
  <2>4. \A i \in DOMAIN q : q[i].kind # "chunk"
    BY DEF Frame
  <2> HIDE DEF q
  <2>5. SubSeq(wire[s], 1, k) \in Seq(Frames)
    BY <1>1, SubSeqType
  <2>6. \A i \in DOMAIN SubSeq(wire[s], 1, k) : i \in DOMAIN wire[s] /\ SubSeq(wire[s], 1, k)[i] = wire[s][i]
    BY <1>1, FramesOfSubSeq
  <2> DEFINE p == SubSeq(wire[s], 1, k)
  <2>7. p \in Seq(Frames) /\ wire'[s] = p \o q /\ \A i \in DOMAIN p : i \in DOMAIN wire[s] /\ p[i] = wire[s][i]
    BY <2>2, <2>5, <2>6
  <2> HIDE DEF p
  <2> QED
    BY <1>4, <2>1, <2>3, <2>4, <2>7
<1>11. CASE WriteChunk(s)
  <2> DEFINE w == wire[s]
             e == Frame("chunk", written[s] + 1)
  <2>1. /\ w \in Seq(Frames) /\ DOMAIN w = 1..Len(w) /\ Len(w) \in Nat
        /\ <<e>> \in Seq(Frames) /\ wire'[s] = w \o <<e>>
    BY <1>1, <1>11, SentFrames
  <2>2. /\ written[s] \in Nat /\ written'[s] = written[s] + 1 /\ serv[s] # "done" /\ ~OnChunk(s)
        /\ e.kind = "chunk" /\ e.n = written[s] + 1
    BY <1>11 DEF WriteChunk, OnChunk, Delivers, TypeOK, SocketsOK, Frame
  <2>3. /\ \A i \in DOMAIN w : w[i].kind = "chunk" => w[i].n <= written[s]
        /\ \A i \in DOMAIN Out : Out[i][1] = s => Out[i][2] <= written[s]
        /\ \A i \in DOMAIN w : w[i] \in Frames
        /\ \A i \in DOMAIN Out : Out[i] \in Runs \X Nat
    <3>1. \A i \in DOMAIN w : w[i] \in Frames
      BY <2>1, ElementOfSeq
    <3>2. \A i \in DOMAIN Out : Out[i] \in Runs \X Nat
      BY OutRange, ElementOfSeq
    <3> QED
      BY <2>2, <3>1, <3>2 DEF ChunksOrdered
  <2> HIDE DEF w, e
  <2>4. \A i \in DOMAIN wire'[s] :
          \/ i \in DOMAIN w /\ wire'[s][i] = w[i]
          \/ i = Len(w) + 1 /\ wire'[s][i] = e
    <3> SUFFICES ASSUME NEW i \in DOMAIN wire'[s]
                 PROVE  (i \in DOMAIN w /\ wire'[s][i] = w[i]) \/ (i = Len(w) + 1 /\ wire'[s][i] = e)
      OBVIOUS
    <3>1. \/ i \in DOMAIN w /\ wire'[s][i] = w[i]
          \/ i - Len(w) \in DOMAIN <<e>> /\ wire'[s][i] = <<e>>[i - Len(w)]
      BY <2>1, FramesOfConcat
    <3>2. i \in Int
      BY <1>1, LenProperties DEF TypeOK, SocketsOK
    <3> QED
      BY <2>1, <3>1, <3>2
  <2>5. ASSUME NEW i \in DOMAIN wire'[s], NEW j \in DOMAIN wire'[s], i < j,
               wire'[s][i].kind = "chunk", wire'[s][j].kind = "chunk"
        PROVE  wire'[s][i].n < wire'[s][j].n
    <3>1. i \in DOMAIN w /\ wire'[s][i] = w[i]
      BY <2>1, <2>4, <2>5
    <3>2. CASE j \in DOMAIN w /\ wire'[s][j] = w[j]
      BY <2>5, <3>1, <3>2 DEF w, ChunksOrdered
    <3>3. CASE j = Len(w) + 1 /\ wire'[s][j] = e
      <4>1. w[i].n <= written[s] /\ w[i].n \in Nat
        BY <2>3, <2>5, <3>1 DEF Frames
      <4> QED
        BY <2>2, <3>1, <3>3, <4>1
    <3> QED
      BY <2>4, <3>2, <3>3
  <2>6. ASSUME NEW i \in DOMAIN Out', Out'[i][1] = s
        PROVE  /\ Out'[i][2] <= written'[s]
               /\ \A j \in DOMAIN wire'[s] : wire'[s][j].kind = "chunk" => Out'[i][2] < wire'[s][j].n
    <3>1. PICK k \in DOMAIN Out : Out'[i] = Out[k]
      BY <1>2, <2>2, <2>6
    <3>2. Out[k][2] <= written[s] /\ Out[k][2] \in Nat
      BY <2>3, <2>6, <3>1
    <3>3. ASSUME NEW j \in DOMAIN wire'[s], wire'[s][j].kind = "chunk" PROVE Out[k][2] < wire'[s][j].n
      <4>1. CASE j \in DOMAIN w /\ wire'[s][j] = w[j]
        BY <2>6, <3>1, <3>3, <4>1 DEF w, ChunksOrdered
      <4>2. CASE j = Len(w) + 1 /\ wire'[s][j] = e
        BY <2>2, <3>2, <4>2
      <4> QED
        BY <2>4, <4>1, <4>2
    <3>4. Out[k][2] <= written'[s]
      BY <2>2, <3>2
    <3> QED
      BY <3>1, <3>3, <3>4
  <2>7. ASSUME NEW j \in DOMAIN wire'[s], wire'[s][j].kind = "chunk" PROVE wire'[s][j].n <= written'[s]
    <3>1. CASE j \in DOMAIN w /\ wire'[s][j] = w[j]
      <4>1. w[j].n <= written[s] /\ w[j].n \in Nat
        BY <2>3, <2>7, <3>1 DEF Frames
      <4> QED
        BY <2>2, <3>1, <4>1
    <3>2. CASE j = Len(w) + 1 /\ wire'[s][j] = e
      BY <2>2, <3>2
    <3> QED
      BY <2>4, <3>1, <3>2
  <2> QED
    BY <2>5, <2>6, <2>7 DEF ChunksOrdered
<1>12. CASE OnChunk(s) \/ OnErrorFrame(s) \/ OnExit(s)
  <2>1. /\ wire[s] # <<>> /\ wire'[s] = Tail(wire[s]) /\ Head(wire[s]) = wire[s][1]
        /\ (OnChunk(s) => wire[s][1].kind = "chunk") /\ UNCHANGED <<serv, written>>
    BY <1>1, <1>12, HeadTailProperties DEF OnChunk, OnErrorFrame, OnExit, Delivers, TypeOK, SocketsOK
  <2>2. 1 \in DOMAIN wire[s]
    BY <1>1, <2>1, EmptySeq
  <2>3. \A j \in DOMAIN wire'[s] : j + 1 \in DOMAIN wire[s] /\ wire'[s][j] = wire[s][j + 1]
    BY <1>1, <2>1, FramesOfTail
  <2>4. \A i \in DOMAIN Out' : Out'[i][1] = s =>
          \/ \E k \in DOMAIN Out : Out'[i] = Out[k]
          \/ wire[s][1].kind = "chunk" /\ Out'[i] = <<s, wire[s][1].n>>
    <3> SUFFICES ASSUME NEW i \in DOMAIN Out', Out'[i][1] = s
                 PROVE  \/ \E k \in DOMAIN Out : Out'[i] = Out[k]
                        \/ wire[s][1].kind = "chunk" /\ Out'[i] = <<s, wire[s][1].n>>
      OBVIOUS
    <3> QED
      BY OutElements
  <2>5. serv'[s] # "done" => serv[s] # "done" /\ written'[s] = written[s]
    BY <2>1
  <2> QED
    BY <1>1, <2>2, <2>3, <2>4, <2>5, ChunksShift
<1> QED
  BY <1>5, <1>6, <1>7, <1>8, <1>9, <1>10, <1>11, <1>12, RunStep DEF Moves, Server

\* Only the newest run is opened, and the terminal holds nothing of a newer one.
LEMMA OutKnownStep ==
  ASSUME TypeOK, TypeOK', SocketsInv, SocketsInv', [Next]_vars, OutKnown
  PROVE  OutKnown'
<1>1. issued \in Nat /\ issued' \in Nat /\ cur \in Nat /\ cur' \in Nat /\ issued <= issued'
  <2>1. issued' \in {issued, issued + 1}
    <3>1. CASE User \/ Render
      BY <3>1 DEF User, handleRun, handleStop, handleReset, handleCompileAndRun, handleReconnect, Render,
                  console, SetNow
    <3>2. CASE \E s \in Runs : Server(s) \/ Lose(s)
      BY <3>2 DEF Server, ExecuteFails, ExecuteReturns, WriteChunk, WriteExit, Lose, console
    <3>3. CASE \E s \in Runs : Socket(s)
      BY <3>3 DEF Socket, OnOpen, OnChunk, OnErrorFrame, OnExit, Delivers, OnClose, console
    <3> QED
      BY <3>1, <3>2, <3>3
         DEF Next, handleCompiled, CompileFails, handleCrash, XtermLoads, flushBuffer, vars, console
  <2> QED
    BY <2>1, SessionAssumption DEF TypeOK, ConsoleOK, TerminalOK
<1>2. cur' = cur \/ cur' = 0 \/ cur' = issued'
  <2>1. ASSUME NEW want, SocketEffect(want) PROVE cur' = want
    BY <2>1 DEF SocketEffect
  <2>2. CASE handleRun
    BY <2>1, <2>2 DEF handleRun, SetNow, Wanted
  <2>3. CASE handleStop \/ handleReset
    BY <2>1, <2>3 DEF handleStop, handleReset, SetNow, Wanted
  <2>4. CASE Render
    BY <2>1, <2>4 DEF Render, Wanted, SocketsInv, RunsOrdered
  <2>5. CASE handleCompileAndRun \/ CompileFails \/ handleCompiled \/ handleReconnect \/ XtermLoads \/ flushBuffer
              \/ handleCrash
    BY <2>5 DEF handleCompileAndRun, CompileFails, handleCompiled, handleReconnect, XtermLoads, flushBuffer,
                handleCrash, term
  <2>6. ASSUME NEW s \in Runs, Server(s) \/ Lose(s) \/ Socket(s) PROVE cur' = cur
    BY <2>6 DEF Server, ExecuteFails, ExecuteReturns, WriteChunk, WriteExit, Lose, Socket, OnOpen, OnChunk,
                OnErrorFrame, OnExit, Delivers, OnClose, term
  <2>7. CASE UNCHANGED vars
    BY <2>7 DEF vars, term
  <2> QED
    BY <2>2, <2>3, <2>4, <2>5, <2>6, <2>7 DEF Next, User
<1>3. ASSUME NEW i \in DOMAIN Out' PROVE Out'[i][1] \in Nat /\ Out'[i][1] <= issued /\ (cur # 0 => Out'[i][1] <= cur)
  <2>1. CASE \E k \in DOMAIN Out : Out'[i] = Out[k]
    <3>1. \A k \in DOMAIN Out : Out[k] \in Runs \X Nat
      BY OutRange, ElementOfSeq
    <3> QED
      BY <2>1, <3>1, SessionAssumption DEF OutKnown, Runs
  <2>2. CASE \E s \in Runs : OnChunk(s) /\ Out'[i] = <<s, wire[s][1].n>>
    <3>1. PICK s \in Runs : OnChunk(s) /\ Out'[i] = <<s, wire[s][1].n>>
      BY <2>2
    <3>2. s = cur
      BY <3>1 DEF OnChunk, Delivers, SocketsInv, RunsOrdered, Live
    <3>3. cur \in 0..issued
      BY DEF SocketsInv, RunsOrdered
    <3> QED
      BY <1>1, <3>1, <3>2, <3>3
  <2> QED
    BY <2>1, <2>2, OutElements
<1> SUFFICES ASSUME NEW i \in DOMAIN Out' PROVE Out'[i][1] <= issued' /\ (cur' # 0 => Out'[i][1] <= cur')
  BY DEF OutKnown
<1> QED
  BY <1>1, <1>2, <1>3

LEMMA OutOrderedStep ==
  ASSUME TypeOK, TypeOK', SocketsInv, [Next]_vars, OutOrdered, OutKnown, \A s \in Runs : ChunksOrdered(s)
  PROVE  OutOrdered'
<1> SUFFICES ASSUME NEW i \in DOMAIN Out', NEW j \in DOMAIN Out', i < j PROVE Before(Out'[i], Out'[j])
  BY DEF OutOrdered
<1>1. i \in DOMAIN Out /\ Out'[i] = Out[i]
  BY OutElements
<1>2. CASE j \in DOMAIN Out /\ Out'[j] = Out[j]
  BY <1>1, <1>2 DEF OutOrdered
<1>3. ASSUME NEW s \in Runs, OnChunk(s), wire[s] \in Seq(Frames), wire[s] # <<>>, wire[s][1].kind = "chunk",
             Out'[j] = <<s, wire[s][1].n>>
      PROVE  Before(Out'[i], Out'[j])
  <2>1. s = cur /\ cur # 0
    BY <1>3, SessionAssumption DEF OnChunk, Delivers, SocketsInv, RunsOrdered, Live, Runs
  <2>2. Out[i] \in Runs \X Nat /\ Out[i][1] <= s
    BY <1>1, <2>1, OutRange, ElementOfSeq DEF OutKnown
  <2>3. 1 \in DOMAIN wire[s]
    BY <1>3, EmptySeq, LenProperties
  <2>4. Out[i][1] = s => Out[i][2] < wire[s][1].n
    BY <1>1, <1>3, <2>3 DEF ChunksOrdered
  <2>5. Out[i][1] \in Int /\ s \in Int
    BY <2>2, SessionAssumption DEF Runs
  <2> QED
    BY <1>1, <1>3, <2>2, <2>4, <2>5 DEF Before
<1> QED
  BY <1>2, <1>3, OutElements

LEMMA OrderStep == OrderInv /\ [Next]_vars => OrderInv'
<1> SUFFICES ASSUME OrderInv, [Next]_vars PROVE OrderInv'
  OBVIOUS
<1>1. TruthInv /\ TruthInv'
  BY TruthStep DEF OrderInv
<1>2. TypeOK /\ TypeOK' /\ SocketsInv /\ SocketsInv' /\ NormalAfterExit /\ CurOK
  BY <1>1 DEF TruthInv, FilesInv
<1>3. \A s \in Runs : Fresh(s)' /\ ChunksOrdered(s)'
  BY <1>2, FreshStep, ChunksStep DEF OrderInv
<1> QED
  BY <1>1, <1>2, <1>3, OutKnownStep, OutOrderedStep DEF OrderInv

LEMMA OrderInit == Init => OrderInv
<1> SUFFICES ASSUME Init PROVE OrderInv
  OBVIOUS
<1>1. Out = <<>>
  BY ConcatEmptySeq, EmptySeq DEF Init, Out
<1>2. DOMAIN Out = {}
  BY <1>1
<1>3. ASSUME NEW s \in Runs PROVE Fresh(s) /\ ChunksOrdered(s)
  BY <1>2 DEF Init, Fresh, ChunksOrdered
<1> QED
  BY <1>2, <1>3, TruthInit DEF OrderInv, OutOrdered, OutKnown

\* What the terminal shows, and will show, is each run's output in the order the
\* program wrote it, and nothing of an older run comes after a newer one.
THEOREM OrderSafety == Spec => []OutputInOrder
<1>1. OrderInv => OutputInOrder
  <2> SUFFICES ASSUME OrderInv, NEW i \in 1..(Len(Out) - 1) PROVE Before(Out[i], Out[i + 1])
    BY DEF OutputInOrder, Out
  <2>1. DOMAIN Out = 1..Len(Out) /\ Len(Out) \in Nat
    BY OutRange DEF OrderInv, TruthInv, FilesInv
  <2>2. i \in DOMAIN Out /\ i + 1 \in DOMAIN Out /\ i < i + 1
    BY <2>1
  <2> QED
    BY <2>2 DEF OrderInv, OutOrdered
<1> QED
  BY <1>1, OrderInit, OrderStep, PTL DEF Spec
-----------------------------------------------------------------------------
\* Short of a crash, what is on the screen stays there, and what was delivered is
\* kept unless its run is marked as unseen.
LEMMA ScreenStep ==
  ASSUME TypeOK, TypeOK', [Next]_vars, ~handleCrash
  PROVE  Range(screen) \subseteq Range(screen')
<1>1. ASSUME NEW q \in Seq(Runs \X Nat), screen' = screen \o q PROVE Range(screen) \subseteq Range(screen')
  <2>1. /\ screen \in Seq(Runs \X Nat) /\ DOMAIN screen = 1..Len(screen) /\ Len(screen) \in Nat
        /\ Len(q) \in Nat
    BY OutRange, LenProperties
  <2>2. /\ screen \o q \in Seq(Runs \X Nat) /\ Len(screen \o q) = Len(screen) + Len(q)
        /\ \A i \in 1..Len(screen) + Len(q) : (screen \o q)[i] = IF i <= Len(screen) THEN screen[i] ELSE q[i - Len(screen)]
    BY <2>1, ConcatProperties
  <2>3. DOMAIN (screen \o q) = 1..Len(screen) + Len(q)
    BY <2>2, LenProperties
  <2>4. \A i \in DOMAIN screen : i \in DOMAIN (screen \o q) /\ (screen \o q)[i] = screen[i]
    BY <2>1, <2>2, <2>3
  <2> QED
    BY <1>1, <2>4 DEF Range
<1>2. CASE screen' = screen
  BY <1>2
<1>3. CASE FlushAll
  BY <1>1, <1>3 DEF FlushAll, TypeOK, TerminalOK
<1>4. CASE flushBuffer
  <2>1. CASE ready
    <3> DEFINE n == IF PerFrame < Len(buffer) THEN PerFrame ELSE Len(buffer)
    <3>1. n \in 0..Len(buffer)
      BY LenProperties, SessionAssumption DEF TypeOK, TerminalOK
    <3>2. screen' = screen \o SubSeq(buffer, 1, n)
      BY <1>4, <2>1 DEF flushBuffer
    <3> HIDE DEF n
    <3>3. SubSeq(buffer, 1, n) \in Seq(Runs \X Nat)
      BY <3>1, SubSeqType DEF TypeOK, TerminalOK
    <3> QED
      BY <1>1, <3>2, <3>3
  <2>2. CASE ~ready
    BY <1>4, <2>2 DEF flushBuffer
  <2> QED
    BY <2>1, <2>2
<1>5. ASSUME NEW want, SocketEffect(want) PROVE screen' = screen \/ FlushAll
  BY <1>5 DEF SocketEffect, Cleanup
<1>6. CASE handleRun \/ handleStop \/ handleReset \/ Render
  BY <1>2, <1>3, <1>5, <1>6 DEF handleRun, handleStop, handleReset, Render, SetNow
<1>7. CASE handleCompileAndRun \/ CompileFails \/ handleCompiled \/ handleReconnect \/ XtermLoads
  BY <1>2, <1>7 DEF handleCompileAndRun, CompileFails, handleCompiled, handleReconnect, XtermLoads, term
<1>8. ASSUME NEW s \in Runs, Server(s) \/ Lose(s) \/ Socket(s) PROVE screen' = screen \/ FlushAll
  BY <1>8 DEF Server, ExecuteFails, ExecuteReturns, WriteChunk, WriteExit, Lose, Socket, OnOpen, OnChunk,
              OnErrorFrame, OnExit, OnClose, term
<1>9. CASE UNCHANGED vars
  BY <1>2, <1>9 DEF vars, term
<1> QED
  BY <1>2, <1>3, <1>4, <1>6, <1>7, <1>8, <1>9 DEF Next, User

LEMMA DeliveredStep ==
  ASSUME TypeOK, TypeOK', [Next]_vars, ~handleCrash, NEW s \in Runs, s \notin unseen'
  PROVE  /\ s \notin unseen
         /\ \A n : Delivered(s, n) => Delivered(s, n)'
<1>1. CASE OutSame
  BY <1>1 DEF OutSame, Delivered
<1>2. CASE OutCut
  <2>1. Out' = screen /\ s \notin unseen /\ s \notin RunsIn(buffer)
    BY <1>2 DEF OutCut
  <2>2. \A n : <<s, n>> \notin Range(buffer)
    <3> SUFFICES ASSUME NEW n, <<s, n>> \in Range(buffer) PROVE FALSE
      OBVIOUS
    <3>1. PICK i \in DOMAIN buffer : buffer[i] = <<s, n>>
      BY DEF Range
    <3>2. buffer[i][1] = s
      BY <3>1
    <3> QED
      BY <2>1, <3>2 DEF RunsIn
  <2> QED
    BY <2>1, <2>2, OutRange DEF Delivered
<1>3. CASE \E x \in Runs : OnChunk(x) /\ Out' = Append(Out, <<x, Head(wire[x]).n>>)
  <2>1. PICK x \in Runs : OnChunk(x) /\ Out' = Append(Out, <<x, Head(wire[x]).n>>)
    BY <1>3
  <2>2. Head(wire[x]) \in Frames
    BY <2>1, TailType DEF OnChunk, Delivers, TypeOK, SocketsOK
  <2>3. <<x, Head(wire[x]).n>> \in Runs \X Nat
    BY <2>2 DEF Frames
  <2>4. Out \in Seq(Runs \X Nat)
    BY OutRange
  <2>5. Range(Out) \subseteq Range(Out')
    BY <2>1, <2>3, <2>4, AppendRange
  <2> QED
    BY <2>1, <2>5 DEF OnChunk, Delivered
<1> QED
  BY <1>1, <1>2, <1>3, OutStep

\* While a program runs or writes, no exit frame and no normal close is on the wire.
LEMMA NotYetOver ==
  ASSUME SocketsInv, NormalAfterExit, NEW s \in Runs, serv[s] # "done"
  PROVE  \A i \in DOMAIN wire[s] : wire[s][i].kind \notin {"exit", "normal"}
  BY DEF SocketsInv, ExitIsLast, NormalAfterExit, NormalOK

\* A delivered frame: the rest moves up, and nothing is missing that was not before.
LEMMA MissingDelivered ==
  ASSUME TypeOK, TypeOK', SocketsInv, NormalAfterExit, [Next]_vars, ~handleCrash,
         NEW s \in Runs, s \notin unseen', NothingMissing(s), OnChunk(s) \/ OnErrorFrame(s) \/ OnExit(s)
  PROVE  NothingMissing(s)'
<1>1. /\ wire[s] \in Seq(Frames) /\ wire[s] # <<>> /\ Tail(wire[s]) \in Seq(Frames) /\ wire'[s] = Tail(wire[s])
      /\ Head(wire[s]) = wire[s][1] /\ UNCHANGED <<serv, written, result, conn>>
      /\ OnChunk(s) => wire[s][1].kind = "chunk" /\ Out' = Append(Out, <<s, wire[s][1].n>>)
      /\ OnErrorFrame(s) => wire[s][1].kind = "error"
      /\ OnExit(s) => wire[s][1].kind = "exit" /\ FlushAll
  <2>1. /\ wire[s] \in Seq(Frames) /\ wire[s] # <<>> /\ wire'[s] = Tail(wire[s])
        /\ UNCHANGED <<serv, written, result, conn>>
    BY DEF OnChunk, OnErrorFrame, OnExit, Delivers, TypeOK, SocketsOK
  <2>2. Head(wire[s]) = wire[s][1] /\ Tail(wire[s]) \in Seq(Frames)
    BY <2>1, HeadTailProperties
  <2>3. ASSUME OnChunk(s) PROVE Out' = Append(Out, <<s, wire[s][1].n>>)
    BY <2>2, <2>3, ChunkOut
  <2> QED
    BY <2>1, <2>2, <2>3 DEF OnChunk, OnErrorFrame, OnExit, Delivers
<1>2. /\ DOMAIN wire'[s] = 1..Len(wire'[s]) /\ Len(wire'[s]) \in Nat /\ Len(wire[s]) = Len(wire'[s]) + 1
      /\ DOMAIN wire[s] = 1..Len(wire[s])
      /\ \A j \in 1..Len(wire'[s]) : wire'[s][j] = wire[s][j + 1]
  BY <1>1, HeadTailProperties, LenProperties
<1>3. s \notin unseen /\ \A n : Delivered(s, n) => Delivered(s, n)'
  BY DeliveredStep
<1>4. ASSUME NEW n, NEW k \in 0..Len(wire'[s]), Delivered(s, n) \/ OnWire(s, n, k + 1)
      PROVE  Delivered(s, n)' \/ OnWire(s, n, k)'
  <2>1. CASE Delivered(s, n)
    BY <1>3, <2>1
  <2>2. ASSUME NEW j \in 1..(k + 1), wire[s][j] = Frame("chunk", n) PROVE Delivered(s, n)' \/ OnWire(s, n, k)'
    <3>1. CASE j = 1
      <4>1. wire[s][1].kind = "chunk" /\ wire[s][1].n = n
        BY <2>2, <3>1 DEF Frame
      <4>2. OnChunk(s) /\ Out' = Append(Out, <<s, n>>)
        BY <1>1, <4>1
      <4>3. wire[s][1] \in Frames
        BY <1>1, HeadTailProperties
      <4>4. <<s, n>> \in Runs \X Nat
        BY <4>1, <4>3 DEF Frames
      <4>5. <<s, n>> \in Range(Out')
        <5>1. Range(Append(Out, <<s, n>>)) = Range(Out) \cup {<<s, n>>}
          BY <4>4, OutRange, AppendRange
        <5> QED
          BY <4>2, <5>1
      <4> QED
        BY <4>5 DEF Delivered
    <3>2. CASE j # 1
      <4>1. j - 1 \in 1..k /\ j - 1 \in 1..Len(wire'[s]) /\ (j - 1) + 1 = j
        BY <1>2, <2>2, <3>2
      <4>2. wire'[s][j - 1] = Frame("chunk", n)
        BY <1>2, <2>2, <4>1
      <4> QED
        BY <4>1, <4>2 DEF OnWire
    <3> QED
      BY <3>1, <3>2
  <2> QED
    BY <1>4, <2>1, <2>2 DEF OnWire
<1>5. conn'[s] = "open" /\ serv'[s] = "writing" =>
        \A n \in 1..written'[s] : Delivered(s, n)' \/ OnWire(s, n, Len(wire[s]))'
  <2> SUFFICES ASSUME conn'[s] = "open", serv'[s] = "writing", NEW n \in 1..written'[s]
               PROVE  Delivered(s, n)' \/ OnWire(s, n, Len(wire[s]))'
    OBVIOUS
  <2>1. Delivered(s, n) \/ OnWire(s, n, Len(wire'[s]) + 1)
    BY <1>1, <1>2, <1>3 DEF NothingMissing
  <2>2. Len(wire'[s]) \in 0..Len(wire'[s])
    BY <1>2
  <2>3. Delivered(s, n)' \/ (\E j \in 1..Len(wire'[s]) : wire'[s][j] = Frame("chunk", n))
    BY <1>4, <2>1, <2>2 DEF OnWire
  <2> QED
    BY <2>3 DEF OnWire
<1>6. ASSUME NEW i \in DOMAIN wire'[s], wire'[s][i].kind = "exit", NEW n \in 1..result'[s].chunks
      PROVE  Delivered(s, n)' \/ (\E j \in 1..(i - 1) : wire'[s][j] = Frame("chunk", n))
  <2>1. i + 1 \in DOMAIN wire[s] /\ wire[s][i + 1].kind = "exit" /\ (i + 1) - 1 = (i - 1) + 1
        /\ i - 1 \in 0..Len(wire'[s])
    <3>1. i \in 1..Len(wire'[s])
      BY <1>2, <1>6
    <3>2. wire'[s][i] = wire[s][i + 1]
      BY <1>2, <3>1
    <3>3. i + 1 \in DOMAIN wire[s] /\ (i + 1) - 1 = (i - 1) + 1 /\ i - 1 \in 0..Len(wire'[s])
      BY <1>2, <3>1
    <3> QED
      BY <1>6, <3>2, <3>3
  <2>2. Delivered(s, n) \/ OnWire(s, n, (i - 1) + 1)
    BY <1>1, <1>3, <1>6, <2>1 DEF NothingMissing
  <2> QED
    BY <1>4, <2>1, <2>2 DEF OnWire
<1>7. ASSUME 1 \in DOMAIN wire'[s], wire'[s][1].kind = "normal", NEW n \in 1..result'[s].chunks
      PROVE  <<s, n>> \in Range(screen')
  <2>1. 2 \in DOMAIN wire[s] /\ wire[s][2].kind = "normal"
    BY <1>2, <1>7
  <2>2. wire[s][2 - 1].kind = "exit"
    BY <2>1 DEF NormalAfterExit, NormalOK
  <2>3. wire[s][1].kind = "exit" /\ 1 \in DOMAIN wire[s]
    BY <1>2, <2>2
  <2>4. Delivered(s, n) \/ OnWire(s, n, 1 - 1)
    BY <1>1, <1>3, <1>7, <2>3 DEF NothingMissing
  <2>5. Delivered(s, n)'
    BY <1>3, <2>4 DEF OnWire
  <2>6. OnExit(s) /\ buffer' = <<>>
    BY <1>1, <2>3 DEF FlushAll
  <2>7. Out' = screen'
    <3>1. screen' \in Seq(Runs \X Nat)
      BY DEF TypeOK, TerminalOK
    <3> QED
      BY <2>6, <3>1, ConcatEmptySeq DEF Out
  <2> QED
    BY <2>5, <2>7 DEF Delivered
<1> QED
  BY <1>5, <1>6, <1>7 DEF NothingMissing, OnWire

LEMMA MissingStep ==
  ASSUME TypeOK, TypeOK', SocketsInv, NormalAfterExit, CurOK, [Next]_vars,
         NEW s \in Runs, Fresh(s), NothingMissing(s)
  PROVE  NothingMissing(s)'
<1>1. CASE handleCrash
  <2>1. conn'[s] \in {"new", "closed"}
    BY <1>1 DEF handleCrash
  <2>2. wire'[s] = <<>>
    <3>1. s = cur \/ conn[s] \notin Live
      BY DEF SocketsInv, RunsOrdered
    <3> QED
      BY <1>1, <3>1 DEF handleCrash, Forgets, NormalAfterExit, NormalOK
  <2> QED
    BY <2>1, <2>2 DEF NothingMissing
<1> SUFFICES ASSUME ~handleCrash, s \notin unseen' PROVE NothingMissing(s)'
  BY <1>1 DEF NothingMissing
<1>2. s \notin unseen /\ \A n : Delivered(s, n) => Delivered(s, n)'
  BY DeliveredStep
<1>3. Range(screen) \subseteq Range(screen')
  BY ScreenStep
<1>4. wire[s] \in Seq(Frames) /\ DOMAIN wire[s] = 1..Len(wire[s]) /\ Len(wire[s]) \in Nat
      /\ wire'[s] \in Seq(Frames) /\ DOMAIN wire'[s] = 1..Len(wire'[s])
  BY LenProperties DEF TypeOK, SocketsOK
<1>5. CASE Same(s)
  BY <1>2, <1>3, <1>5 DEF Same, NothingMissing, OnWire
<1>6. CASE Gone(s)
  BY <1>6 DEF Gone, NothingMissing
<1>7. CASE OnOpen(s)
  <2>1. wire'[s] = <<>> /\ serv'[s] = "executing"
    BY <1>7 DEF OnOpen, TypeOK, SocketsOK
  <2> QED
    BY <2>1 DEF NothingMissing
<1>8. CASE ExecuteReturns(s)
  <2>1. wire'[s] = wire[s] /\ serv[s] = "executing" /\ written'[s] = 0
    BY <1>8 DEF ExecuteReturns, Fresh
  <2>2. \A i \in DOMAIN wire[s] : wire[s][i].kind \notin {"exit", "normal"}
    BY <2>1, NotYetOver
  <2> QED
    BY <2>1, <2>2 DEF NothingMissing
\* The frames sent while the program runs follow what is on the wire.
<1>9. ASSUME NEW q \in Seq(Frames), wire'[s] = wire[s] \o q, serv[s] # "done", NEW i \in DOMAIN wire'[s],
             wire'[s][i].kind \in {"exit", "normal"}
      PROVE  i - Len(wire[s]) \in DOMAIN q /\ wire'[s][i] = q[i - Len(wire[s])]
  BY <1>4, <1>9, NotYetOver, FramesOfConcat
<1>10. ASSUME NEW q \in Seq(Frames), wire'[s] = wire[s] \o q
       PROVE  /\ Len(wire'[s]) = Len(wire[s]) + Len(q)
              /\ \A j \in DOMAIN wire[s] : j \in DOMAIN wire'[s] /\ wire'[s][j] = wire[s][j]
  <2>1. /\ Len(wire'[s]) = Len(wire[s]) + Len(q) /\ Len(q) \in Nat
        /\ \A j \in 1..Len(wire[s]) + Len(q) :
             wire'[s][j] = IF j <= Len(wire[s]) THEN wire[s][j] ELSE q[j - Len(wire[s])]
    BY <1>4, <1>10, ConcatProperties, LenProperties
  <2> QED
    BY <1>4, <2>1
<1>11. CASE ExecuteFails(s)
  <2> DEFINE q == <<Frame("error", 0), Frame("abnormal", 0)>>
  <2>1. q \in Seq(Frames) /\ wire'[s] = wire[s] \o q
    BY <1>11, SentFrames
  <2>2. \A j \in DOMAIN q : q[j].kind \notin {"exit", "normal"}
    BY DEF Frame
  <2>3. serv[s] # "done" /\ serv'[s] = "done"
    BY <1>11 DEF ExecuteFails, TypeOK, SocketsOK
  <2> HIDE DEF q
  <2>4. \A i \in DOMAIN wire'[s] : wire'[s][i].kind \notin {"exit", "normal"}
    BY <1>9, <2>1, <2>2, <2>3
  <2> QED
    BY <2>3, <2>4 DEF NothingMissing
<1>12. CASE WriteChunk(s)
  <2> DEFINE e == Frame("chunk", written[s] + 1)
  <2>1. <<e>> \in Seq(Frames) /\ wire'[s] = wire[s] \o <<e>>
    BY <1>12, SentFrames
  <2>2. e.kind = "chunk"
    BY DEF Frame
  <2>3. /\ serv[s] = "writing" /\ conn[s] = "open" /\ written[s] \in Nat /\ written'[s] = written[s] + 1
    BY <1>12 DEF WriteChunk, TypeOK, SocketsOK
  <2> HIDE DEF e
  <2>4. \A i \in DOMAIN wire'[s] : wire'[s][i].kind \notin {"exit", "normal"}
    <3> SUFFICES ASSUME NEW i \in DOMAIN wire'[s], wire'[s][i].kind \in {"exit", "normal"} PROVE FALSE
      OBVIOUS
    <3>1. i - Len(wire[s]) \in DOMAIN <<e>> /\ wire'[s][i] = <<e>>[i - Len(wire[s])]
      BY <1>9, <2>1, <2>3
    <3> QED
      BY <2>2, <3>1
  <2>5. Len(wire'[s]) = Len(wire[s]) + 1 /\ \A j \in DOMAIN wire[s] : wire'[s][j] = wire[s][j]
    BY <1>10, <2>1
  <2>6. wire'[s][Len(wire[s]) + 1] = e
    <3>1. /\ Len(<<e>>) = 1 /\ Len(wire[s]) + 1 \in 1..Len(wire[s]) + Len(<<e>>)
          /\ ~(Len(wire[s]) + 1 <= Len(wire[s])) /\ (Len(wire[s]) + 1) - Len(wire[s]) = 1
      BY <1>4
    <3>2. (wire[s] \o <<e>>)[Len(wire[s]) + 1] = <<e>>[(Len(wire[s]) + 1) - Len(wire[s])]
      BY <1>4, <2>1, <3>1, ConcatProperties
    <3> QED
      BY <2>1, <3>1, <3>2
  <2>7. ASSUME NEW n \in 1..written'[s]
        PROVE  Delivered(s, n)' \/ \E j \in 1..Len(wire'[s]) : wire'[s][j] = Frame("chunk", n)
    <3>1. CASE n = written[s] + 1
      <4>1. Len(wire[s]) + 1 \in 1..Len(wire'[s])
        BY <1>4, <2>5
      <4> QED
        BY <2>6, <3>1, <4>1 DEF e
    <3>2. CASE n # written[s] + 1
      <4>1. n \in 1..written[s]
        BY <2>3, <3>2
      <4>2. Delivered(s, n) \/ OnWire(s, n, Len(wire[s]))
        BY <1>2, <2>3, <4>1 DEF NothingMissing
      <4>3. ASSUME NEW j \in 1..Len(wire[s]), wire[s][j] = Frame("chunk", n)
            PROVE  j \in 1..Len(wire'[s]) /\ wire'[s][j] = Frame("chunk", n)
        BY <1>4, <2>5, <4>3
      <4> QED
        BY <1>2, <4>2, <4>3 DEF OnWire
    <3> QED
      BY <3>1, <3>2
  <2> QED
    BY <2>4, <2>7 DEF NothingMissing, OnWire
<1>13. CASE WriteExit(s)
  <2> DEFINE q == <<Frame("exit", 0), Frame("normal", 0)>>
             l == Len(wire[s])
  <2>1. q \in Seq(Frames) /\ wire'[s] = wire[s] \o q
    BY <1>13, SentFrames
  <2>2. DOMAIN q = 1..2 /\ q[1].kind = "exit" /\ q[2].kind = "normal"
    BY DEF Frame
  <2>3. /\ serv[s] = "writing" /\ conn[s] = "open" /\ serv'[s] = "done"
        /\ written[s] = result[s].chunks /\ result' = result
    BY <1>13 DEF WriteExit, TypeOK, SocketsOK
  <2>4. \A j \in DOMAIN wire[s] : wire'[s][j] = wire[s][j]
    BY <1>10, <2>1
  <2> HIDE DEF q
  <2>5. ASSUME NEW i \in DOMAIN wire'[s], wire'[s][i].kind \in {"exit", "normal"}
        PROVE  i \in {l + 1, l + 2} /\ (wire'[s][i].kind = "exit" => i = l + 1) /\ (wire'[s][i].kind = "normal" => i # 1)
    <3>1. i - l \in 1..2 /\ wire'[s][i] = q[i - l]
      BY <1>9, <2>1, <2>2, <2>3, <2>5
    <3>2. i \in Int /\ l \in Nat
      BY <1>4
    <3>3. i = l + 1 \/ i = l + 2
      BY <3>1, <3>2
    <3>4. i = l + 1 => wire'[s][i].kind = "exit"
      BY <2>2, <3>1, <3>2
    <3>5. i = l + 2 => wire'[s][i].kind = "normal"
      BY <2>2, <3>1, <3>2
    <3> QED
      BY <3>2, <3>3, <3>4, <3>5
  <2>6. ASSUME NEW i \in DOMAIN wire'[s], wire'[s][i].kind = "exit", NEW n \in 1..result'[s].chunks
        PROVE  Delivered(s, n)' \/ \E j \in 1..(i - 1) : wire'[s][j] = Frame("chunk", n)
    <3>1. i - 1 = l
      BY <1>4, <2>5, <2>6
    <3>2. Delivered(s, n) \/ OnWire(s, n, l)
      BY <1>2, <2>3, <2>6 DEF NothingMissing
    <3> QED
      BY <1>2, <1>4, <2>4, <3>1, <3>2 DEF OnWire
  <2>7. ~(1 \in DOMAIN wire'[s] /\ wire'[s][1].kind = "normal")
    BY <2>5
  <2> QED
    BY <2>3, <2>6, <2>7 DEF NothingMissing, OnWire
<1>14. CASE Lose(s)
  <2> DEFINE q == <<Frame("abnormal", 0)>>
  <2>1. PICK k \in 0..Len(wire[s]) : wire'[s] = SubSeq(wire[s], 1, k) \o q
    BY <1>14, SentFrames
  <2>2. serv'[s] = "done" /\ result' = result
    BY <1>14 DEF Lose, TypeOK, SocketsOK
  <2>3. q \in Seq(Frames) /\ \A j \in DOMAIN q : q[j].kind \notin {"exit", "normal"}
    <3>1. q \in Seq(Frames)
      BY SentFrames
    <3>2. \A j \in DOMAIN q : q[j].kind \notin {"exit", "normal"}
      BY DEF Frame
    <3> QED
      BY <3>1, <3>2
  <2> DEFINE p == SubSeq(wire[s], 1, k)
  <2>4. p \in Seq(Frames) /\ Len(p) = k /\ \A j \in 1..k : p[j] = wire[s][j]
    <3>1. \A j \in 1..k : wire[s][j] \in Frames
      BY <1>4, ElementOfSeq
    <3>2. \A j \in 1..(k - 1 + 1) : p[j] = wire[s][1 + j - 1]
      BY <3>1, SubSeqProperties
    <3>3. p \in Seq(Frames) /\ Len(p) = IF 1 <= k THEN k - 1 + 1 ELSE 0
      BY <3>1, SubSeqProperties
    <3>4. k - 1 + 1 = k /\ \A j \in 1..k : 1 + j - 1 = j
      OBVIOUS
    <3>5. Len(p) = k
      BY <3>3
    <3> QED
      BY <3>2, <3>3, <3>4, <3>5
  <2> HIDE DEF p, q
  <2>5. /\ wire'[s] = p \o q /\ DOMAIN p = 1..k
    BY <2>1, <2>4, LenProperties DEF p
  <2>6. \A j \in 1..k : j \in DOMAIN wire'[s] /\ j \in DOMAIN wire[s] /\ wire'[s][j] = wire[s][j]
    <3>1. /\ Len(wire'[s]) = k + Len(q) /\ Len(q) \in Nat
          /\ \A j \in 1..(k + Len(q)) : wire'[s][j] = IF j <= k THEN p[j] ELSE q[j - k]
      <4>1. /\ Len(p \o q) = Len(p) + Len(q)
            /\ \A j \in 1..Len(p) + Len(q) : (p \o q)[j] = IF j <= Len(p) THEN p[j] ELSE q[j - Len(p)]
        <5> USE <2>3, <2>4
        <5>1. Len(p \o q) = Len(p) + Len(q)
          BY ConcatProperties
        <5>2. \A j \in 1..Len(p) + Len(q) : (p \o q)[j] = IF j <= Len(p) THEN p[j] ELSE q[j - Len(p)]
          BY ConcatProperties
        <5> QED
          BY <5>1, <5>2
      <4>2. Len(q) \in Nat
        BY <2>3, LenProperties
      <4> QED
        BY <2>4, <2>5, <4>1, <4>2
    <3> QED
      BY <1>4, <2>4, <3>1
  <2>7. \A i \in DOMAIN wire'[s] : wire'[s][i].kind \in {"exit", "normal"} => i \in 1..k
    <3> SUFFICES ASSUME NEW i \in DOMAIN wire'[s], wire'[s][i].kind \in {"exit", "normal"} PROVE i \in 1..k
      OBVIOUS
    <3>1. \/ i \in DOMAIN p /\ wire'[s][i] = p[i]
          \/ i - Len(p) \in DOMAIN q /\ wire'[s][i] = q[i - Len(p)]
      BY <2>3, <2>4, <2>5, FramesOfConcat
    <3> QED
      BY <2>3, <2>5, <3>1
  <2>8. ASSUME NEW i \in DOMAIN wire'[s], wire'[s][i].kind = "exit", NEW n \in 1..result'[s].chunks
        PROVE  Delivered(s, n)' \/ \E j \in 1..(i - 1) : wire'[s][j] = Frame("chunk", n)
    <3>1. i \in 1..k /\ i \in DOMAIN wire[s] /\ wire[s][i].kind = "exit"
      BY <2>6, <2>7, <2>8
    <3>2. Delivered(s, n) \/ OnWire(s, n, i - 1)
      BY <1>2, <2>2, <2>8, <3>1 DEF NothingMissing
    <3>3. \A j \in 1..(i - 1) : wire'[s][j] = wire[s][j]
      BY <2>6, <3>1
    <3> QED
      BY <1>2, <3>2, <3>3 DEF OnWire
  <2>9. ASSUME 1 \in DOMAIN wire'[s], wire'[s][1].kind = "normal", NEW n \in 1..result'[s].chunks
        PROVE  <<s, n>> \in Range(screen')
    <3>1. 1 \in DOMAIN wire[s] /\ wire[s][1].kind = "normal"
      BY <2>6, <2>7, <2>9
    <3> QED
      BY <1>2, <1>3, <2>2, <2>9, <3>1 DEF NothingMissing
  <2> QED
    BY <2>2, <2>8, <2>9 DEF NothingMissing, OnWire
<1>15. CASE OnChunk(s) \/ OnErrorFrame(s) \/ OnExit(s)
  BY <1>15, MissingDelivered
<1> QED
  BY <1>5, <1>6, <1>7, <1>8, <1>11, <1>12, <1>13, <1>14, <1>15, RunStep DEF Moves, Server

\* The outcome on display is set by a close event that found the mark clear.
LEMMA OutcomeStep ==
  ASSUME TypeOK, [Next]_vars, state' \in {"complete", "nonzero"}
  PROVE  \/ \E s \in Runs : OnClose(s) /\ ~intentional
         \/ UNCHANGED <<state, session, by, stale>> /\ ~handleCrash /\ unseen \subseteq unseen'
<1>1. ~handleCrash /\ ~handleRun /\ ~handleStop /\ ~handleReset /\ ~handleCompiled /\ ~handleReconnect
  BY DEF handleCrash, handleRun, handleStop, handleReset, handleCompiled, handleReconnect, SetNow
<1>2. CASE Render
  <2>1. UNCHANGED <<state, session, by, stale>>
    BY <1>2 DEF Render
  <2>2. OutSame \/ OutCut
    BY <1>2, EffectOut DEF Render
  <2> QED
    BY <1>1, <2>1, <2>2 DEF OutSame, OutCut
<1>3. CASE handleCompileAndRun \/ CompileFails \/ XtermLoads \/ flushBuffer \/ UNCHANGED vars
  BY <1>1, <1>3 DEF handleCompileAndRun, CompileFails, XtermLoads, flushBuffer, vars, console, history
<1>4. ASSUME NEW s \in Runs, Server(s) \/ Lose(s) \/ OnOpen(s)
      PROVE  UNCHANGED <<state, session, by, stale>> /\ unseen \subseteq unseen'
  BY <1>4 DEF Server, ExecuteFails, ExecuteReturns, WriteChunk, WriteExit, Lose, OnOpen, console, history
<1>5. ASSUME NEW s \in Runs, OnChunk(s) \/ OnErrorFrame(s) \/ OnExit(s)
      PROVE  UNCHANGED <<state, session, by, stale>> /\ unseen \subseteq unseen'
  BY <1>5 DEF OnChunk, OnErrorFrame, OnExit, Delivers, console, FlushAll
<1>6. ASSUME NEW s \in Runs, OnClose(s), intentional
      PROVE  UNCHANGED <<state, session, by, stale>> /\ unseen \subseteq unseen'
  BY <1>6 DEF OnClose
<1> QED
  BY <1>1, <1>2, <1>3, <1>4, <1>5, <1>6 DEF Next, User, Socket

LEMMA ShownStep == ShownInv /\ [Next]_vars => ShownInv'
<1> SUFFICES ASSUME ShownInv, [Next]_vars PROVE ShownInv'
  OBVIOUS
<1>1. OrderInv /\ OrderInv'
  BY OrderStep DEF ShownInv
<1>2. TypeOK /\ TypeOK' /\ SocketsInv /\ NormalAfterExit /\ CurOK /\ OutcomeOK /\ SettledKept
  BY <1>1, SocketsInvStep DEF OrderInv, TruthInv, FilesInv
<1>3. \A s \in Runs : NothingMissing(s)'
  BY <1>1, <1>2, MissingStep DEF ShownInv, OrderInv
<1>4. AllOutputShown'
  <2> SUFFICES ASSUME state' \in {"complete", "nonzero"}, by' = session', session' \notin stale' \cup unseen'
               PROVE  \A n \in 1..result'[session'].chunks : <<session', n>> \in Range(screen')
    BY DEF AllOutputShown
  <2>1. CASE UNCHANGED <<state, session, by, stale>> /\ ~handleCrash /\ unseen \subseteq unseen'
    <3>1. by # 0 /\ Settled(by) /\ by = session /\ session \notin stale \cup unseen
      BY <1>2, <2>1 DEF OutcomeOK, OutcomeSettled
    <3>2. session \in Runs
      BY <1>2, <3>1, SessionAssumption DEF TypeOK, ConsoleOK, Runs
    <3>3. result'[session] = result[session]
      BY <1>2, <3>1, <3>2 DEF SettledKept
    <3>4. Range(screen) \subseteq Range(screen')
      BY <1>2, <2>1, ScreenStep
    <3> QED
      BY <2>1, <3>1, <3>3, <3>4 DEF ShownInv, AllOutputShown
  <2>2. ASSUME NEW s \in Runs, OnClose(s), ~intentional
        PROVE  \A n \in 1..result'[session'].chunks : <<session', n>> \in Range(screen')
    <3>1. PICK code \in {"normal", "abnormal"} : ClosesWith(s, code) /\ Reports(s, code) /\ by' = s
      BY <2>2 DEF OnClose
    <3>2. UNCHANGED <<session, screen, unseen, result>>
      BY <2>2 DEF OnClose
    <3>3. code = "normal" /\ s = session
      BY <3>1, <3>2 DEF Reports, OnEnd
    <3>4. conn[s] # "closing"
      BY <1>2, <2>2, <3>3, SessionAssumption DEF CurOK, Runs
    <3>5. wire[s] # <<>> /\ Head(wire[s]).kind = "normal"
      BY <3>1, <3>3, <3>4 DEF ClosesWith
    <3>6. 1 \in DOMAIN wire[s] /\ wire[s][1] = Head(wire[s])
      BY <1>2, <3>5, HeadTailProperties, LenProperties, EmptySeq DEF TypeOK, SocketsOK
    <3> QED
      BY <3>2, <3>3, <3>5, <3>6 DEF ShownInv, NothingMissing
  <2> QED
    BY <1>2, <2>1, <2>2, OutcomeStep
<1> QED
  BY <1>1, <1>3, <1>4 DEF ShownInv

LEMMA ShownInit == Init => ShownInv
<1> SUFFICES ASSUME Init PROVE ShownInv
  OBVIOUS
<1>1. AllOutputShown
  BY DEF Init, AllOutputShown
<1>2. \A s \in Runs : NothingMissing(s)
  BY DEF Init, NothingMissing
<1> QED
  BY <1>1, <1>2, OrderInit DEF ShownInv

\* When the console reports how its run exited, all the run wrote is on the screen,
\* unless some of it came before xterm was loaded or a stale close event intervened.
THEOREM ShownSafety == Spec => []AllOutputShown
<1>1. ShownInv => AllOutputShown
  BY DEF ShownInv
<1> QED
  BY <1>1, ShownInit, ShownStep, PTL DEF Spec
=============================================================================
