-------------------------- MODULE FileTreeProofs --------------------------
(***************************************************************************)
(* For every number of sessions, every set of paths and every pair of poll *)
(* intervals: the poll loop of the session on display is one and alive,    *)
(* the listing on display is of that session, and the rows drawn of a      *)
(* listing are its files and directories, in the order of a tree.          *)
(***************************************************************************)
EXTENDS FileTree, WellFoundedInduction, TLAPS

Inv == TypeOK /\ OneLoop /\ ListingOfSession

LEMMA ToggleType ==
  ASSUME NEW D, NEW set \in SUBSET D, NEW dir \in D
  PROVE  Toggle(set, dir) \in SUBSET D
  BY DEF Toggle

LEMMA DoubleType ==
  ASSUME TypeOK
  PROVE  Double \in PollStart..PollMax
  BY FileTreeAssumption DEF TypeOK, Double

LEMMA Constants ==
  /\ 0 \in 0..MaxSessions
  /\ PollStart \in PollStart..PollMax /\ PollMax \in PollStart..PollMax
  /\ Empty \in Listings /\ NoRefs \in [snap : 0..MaxSessions, trap : BOOLEAN]
  /\ 0 \notin Sessions /\ Sessions \subseteq 0..MaxSessions
  BY FileTreeAssumption DEF Empty, NoRefs, Listings, Sessions

Sockets == [Sessions -> {"new", "open", "exited", "closing", "closed"}]
Refs    == [snap : 0..MaxSessions, trap : BOOLEAN]

\* Every update of all the sockets at once.
LEMMA SocketTypes ==
  ASSUME TypeOK
  PROVE  /\ \A run \in 0..MaxSessions :
              SocketEffect(run) => socket' \in Sockets
         /\ \A s : [r \in Sessions |-> IF r = s THEN "closed"
                       ELSE IF r \in Live THEN "closing" ELSE socket[r]] \in Sockets
         /\ [s \in Sessions |-> IF socket[s] = "new" THEN "new" ELSE "closed"] \in Sockets
  BY DEF TypeOK, Sockets, SocketEffect

LEMMA InitInv == Init => Inv
  <1> SUFFICES ASSUME Init PROVE Inv OBVIOUS
  <1>1. /\ files \in [Sessions -> SUBSET Paths]
        /\ socket \in [Sessions -> {"new", "open", "exited", "closing", "closed"}]
    BY DEF Init
  <1>2. TypeOK BY <1>1, Constants DEF Init, TypeOK
  <1>3. OneLoop /\ ListingOfSession BY DEF Init, OneLoop, ListingOfSession
  <1> QED BY <1>2, <1>3 DEF Inv

\* The effect: the old loop is stopped before the new one starts.
LEMMA EffectKeeps ==
  ASSUME Inv, NEW s \in 0..MaxSessions, SessionEffect(s)
  PROVE  /\ OneLoop' /\ ListingOfSession'
         /\ session' \in 0..MaxSessions /\ entries' \in Listings
         /\ firstLoad' \in BOOLEAN /\ backoffMs' \in PollStart..PollMax
         /\ fetching' \in SUBSET Sessions /\ timers' \in SUBSET Sessions
         /\ UNCHANGED <<expanded, offline, vfsDisabled>>
  <1>1. /\ session' = s /\ timers' = timers \ {session} /\ timers' = {}
        /\ UNCHANGED <<expanded, offline, vfsDisabled>>
    BY DEF Inv, OneLoop, SessionEffect
  <1>2. CASE s = 0
    <2>1. entries' = Empty /\ UNCHANGED <<firstLoad, backoffMs, fetching>>
      BY <1>2 DEF SessionEffect
    <2>2. OneLoop' /\ ListingOfSession'
      BY <1>1, <1>2, <2>1 DEF OneLoop, ListingOfSession, Empty
    <2> QED BY <1>1, <2>1, <2>2, Constants DEF Inv, TypeOK
  <1>3. CASE s # 0
    <2>1. /\ firstLoad' = TRUE /\ backoffMs' = PollStart
          /\ fetching' = fetching \cup {s} /\ entries' = entries
      BY <1>3 DEF SessionEffect
    <2>2. OneLoop' /\ ListingOfSession'
      BY <1>1, <1>3, <2>1 DEF OneLoop, ListingOfSession
    <2>3. s \in Sessions BY <1>3, FileTreeAssumption DEF Sessions
    <2> QED BY <1>1, <2>1, <2>2, <2>3, Constants DEF Inv, TypeOK
  <1> QED BY <1>2, <1>3

\* An answer: a request of a session that was left changes nothing but itself.
LEMMA AnswerKeeps ==
  ASSUME Inv, NEW s \in Sessions, Answer(s)
  PROVE  Inv'
  <1> DEFINE Result == Ok(s) \/ Disabled \/ Failed \/ Missed
  <1>1. CASE s # session
    <2>1. /\ fetching' = fetching \ {s}
          /\ UNCHANGED <<props, reducer, firstLoad, backoffMs, timers, service>>
      BY <1>1 DEF Answer
    <2>2. OneLoop' BY <1>1, <2>1 DEF Inv, OneLoop, props
    <2>3. ListingOfSession' BY <2>1 DEF Inv, ListingOfSession, props, reducer
    <2>4. TypeOK' BY <2>1 DEF Inv, TypeOK, props, reducer, service
    <2> QED BY <2>2, <2>3, <2>4 DEF Inv
  <1>2. CASE s = session
    <2>1. /\ s \in fetching /\ fetching' = fetching \ {s} /\ timers' = timers \cup {s}
          /\ Result /\ UNCHANGED <<props, service>>
      BY <1>2 DEF Answer
    <2>2. OneLoop'
      BY <1>2, <2>1 DEF Inv, OneLoop, props
    <2>3. /\ entries' \in Listings /\ offline' \in BOOLEAN /\ vfsDisabled' \in BOOLEAN
          /\ firstLoad' \in BOOLEAN /\ backoffMs' \in PollStart..PollMax
      <3>1. CASE Ok(s)
        <4>1. files[s] \in SUBSET Paths BY DEF Inv, TypeOK
        <4>2. entries' \in Listings BY <3>1, <4>1, Constants DEF Ok, Listings
        <4> QED BY <3>1, <4>2, Constants DEF Ok, Inv, TypeOK
      <3>2. CASE Disabled
        BY <3>2, Constants DEF Disabled, Inv, TypeOK
      <3>3. CASE Failed
        BY <3>3, DoubleType DEF Failed, Inv, TypeOK
      <3>4. CASE Missed
        BY <3>4 DEF Missed, Inv, TypeOK, reducer
      <3> QED BY <2>1, <3>1, <3>2, <3>3, <3>4
    <2>4. expanded' \subseteq AllDirs \cup {<<"src">>, <<"output">>}
      <3> DEFINE D == AllDirs \cup {<<"src">>, <<"output">>}
      <3>1. expanded \in SUBSET D BY DEF Inv, TypeOK
      <3>2. Toggle(Toggle(expanded, <<"src">>), <<"output">>) \in SUBSET D
        <4> HIDE DEF D
        <4>1. <<"src">> \in D /\ <<"output">> \in D BY DEF D
        <4>2. Toggle(expanded, <<"src">>) \in SUBSET D BY <3>1, <4>1, ToggleType
        <4> QED BY <4>1, <4>2, ToggleType
      <3> QED BY <2>1, <3>1, <3>2 DEF Ok, Disabled, Failed, Missed, reducer
    <2>5. TypeOK'
      BY <2>1, <2>3, <2>4 DEF Inv, TypeOK, Sessions, props, service
    <2>6. ListingOfSession'
      <3>1. CASE Ok(s)
        BY <1>2, <2>1, <3>1 DEF Ok, ListingOfSession, Sessions, props
      <3>2. CASE Disabled \/ Failed \/ Missed
        BY <2>1, <3>2 DEF Disabled, Failed, Missed, Inv, ListingOfSession, props, reducer
      <3> QED BY <2>1, <3>1, <3>2
    <2> QED BY <2>2, <2>5, <2>6 DEF Inv
  <1> QED BY <1>1, <1>2

LEMMA NextKeeps ==
  ASSUME Inv, [Next]_vars
  PROVE  Inv'
  <1>1. CASE handleRun
    <2>1. issued + 1 \in 0..MaxSessions /\ issued' = issued + 1
      BY <1>1, FileTreeAssumption DEF handleRun, Inv, TypeOK
    <2>2. SessionEffect(issued + 1) BY <1>1 DEF handleRun
    <2>3. socket' \in Sockets BY <1>1, <2>1, SocketTypes DEF handleRun, Inv
    <2> QED BY <1>1, <2>1, <2>2, <2>3, EffectKeeps DEF handleRun, Inv, TypeOK, Sockets
  <1>2. CASE handleStop
    <2>1. socket' \in Sockets BY <1>2, SocketTypes, Constants DEF handleStop, Inv
    <2> QED BY <1>2, <2>1 DEF handleStop, Inv, TypeOK, OneLoop, ListingOfSession, Sockets,
                              reducer, effect, service
  <1>3. CASE handleReset
    <2>1. SessionEffect(0) /\ socket' \in Sockets
      BY <1>3, SocketTypes, Constants DEF handleReset, Inv
    <2> QED BY <1>3, <2>1, EffectKeeps, Constants
            DEF handleReset, Inv, TypeOK, Sockets, service
  <1>4. CASE handleReconnect
    <2>1. SessionEffect(0) BY <1>4 DEF handleReconnect
    <2>2. socket' \in Sockets /\ refs' \in Refs
      BY <1>4, SocketTypes, Constants DEF handleReconnect, Inv, Refs
    <2> QED BY <1>4, <2>1, <2>2, EffectKeeps, Constants
            DEF handleReconnect, Inv, TypeOK, Sockets, Refs, service
  <1>5. CASE handleToggle
    <2>1. PICK dir \in AllDirs : expanded' = Toggle(expanded, dir)
      BY <1>5 DEF handleToggle
    <2>2. expanded' \subseteq AllDirs \cup {<<"src">>, <<"output">>}
      BY <2>1, ToggleType DEF Inv, TypeOK, Toggle
    <2> QED BY <1>5, <2>2 DEF handleToggle, Inv, TypeOK, OneLoop, ListingOfSession,
                              props, effect, service
  <1>6. ASSUME NEW s \in Sessions, ExitFrame(s) PROVE Inv'
    <2>1. socket' \in Sockets
      BY <1>6 DEF ExitFrame, Inv, TypeOK, Sockets
    <2>2. refs' \in Refs
      BY <1>6, Constants DEF ExitFrame, Inv, TypeOK, Refs
    <2> QED BY <1>6, <2>1, <2>2 DEF ExitFrame, Inv, TypeOK, OneLoop, ListingOfSession,
                                    Sockets, Refs, reducer, effect, service
  <1>7. ASSUME NEW s \in Sessions, Answer(s) PROVE Inv'
    BY <1>7, AnswerKeeps
  <1>8. ASSUME NEW s \in Sessions, TimerFires(s) PROVE Inv'
    BY <1>8 DEF TimerFires, Inv, TypeOK, OneLoop, ListingOfSession, props, reducer, service
  <1>9. ASSUME NEW s \in Sessions, RunReturns(s) PROVE Inv'
    BY <1>9, FileTreeAssumption
       DEF RunReturns, Inv, TypeOK, OneLoop, ListingOfSession, Paths, props, reducer, effect
  <1>10. ASSUME NEW s \in Sessions, Commits(s) PROVE Inv'
    BY <1>10 DEF Commits, Inv, TypeOK, OneLoop, ListingOfSession, props, reducer, effect
  <1>11. ASSUME NEW s \in Sessions, OnClose(s) PROVE Inv'
    <2>1. socket' \in Sockets BY <1>11, SocketTypes DEF OnClose, Inv
    <2>2. refs' \in Refs /\ inline' \in 0..MaxSessions
      BY <1>11, Constants DEF OnClose, onEnd, Inv, TypeOK, Refs
    <2> QED BY <1>11, <2>1, <2>2 DEF OnClose, Inv, TypeOK, OneLoop, ListingOfSession,
                                     Sockets, Refs, reducer, effect, service
  <1>12. CASE UNCHANGED vars
    BY <1>12 DEF vars, props, reducer, effect, service, Inv, TypeOK, OneLoop, ListingOfSession
  <1> QED BY <1>1, <1>2, <1>3, <1>4, <1>5, <1>6, <1>7, <1>8, <1>9, <1>10, <1>11, <1>12 DEF Next

LEMMA AlwaysInv == Spec => []Inv
  BY InitInv, NextKeeps, PTL DEF Spec

\* Type correctness of the component, the service and the console's part.
THEOREM TypeCorrect == Spec => []TypeOK
  BY AlwaysInv, PTL DEF Inv

\* load reschedules itself for ever and only once: with a session on display
\* there is a request in flight or a timer armed, never both, and no loop of a
\* session that was left can fire again.
THEOREM OneLoopHolds == Spec => []OneLoop
  BY AlwaysInv, PTL DEF Inv

\* After the first listing of a session, what is on display is of that session:
\* the cancelled flag keeps out every answer that was under way at the switch.
THEOREM ListingOfSessionHolds == Spec => []ListingOfSession
  BY AlwaysInv, PTL DEF Inv

-----------------------------------------------------------------------------
(* Induction over the numbers, and paths as functions of their segments. *)

LEMMA LeastNumber ==
  ASSUME NEW T, T \subseteq Nat, T # {}
  PROVE  \E x \in T : \A y \in T : x <= y
  <1> DEFINE R == {ss \in Nat \X Nat : ss[1] < ss[2]}
  <1>1. IsWellFoundedOn(R, Nat) BY NatLessThanWellFounded DEF OpToRel
  <1>2. PICK x \in T : \A y \in T : ~(<<y, x>> \in R)
    <2> HIDE DEF R
    <2> QED BY <1>1, WFMin
  <1>3. ASSUME NEW y \in T PROVE x <= y
    <2>1. ~(<<y, x>> \in R) BY <1>2
    <2>2. <<y, x>> \in Nat \X Nat /\ <<y, x>>[1] = y /\ <<y, x>>[2] = x BY Zenon
    <2>3. ~(y < x) BY <2>1, <2>2
    <2>4. x \in Int /\ y \in Int OBVIOUS
    <2> QED BY <2>3, <2>4
  <1> QED BY <1>3

LEMMA Induct ==
  ASSUME NEW S, 0 \in S, \A n \in Nat : n \in S => n + 1 \in S
  PROVE  Nat \subseteq S
  <1> SUFFICES ASSUME Nat \ S # {} PROVE FALSE OBVIOUS
  <1>1. PICK x \in Nat \ S : \A y \in Nat \ S : x <= y
    <2> DEFINE T == Nat \ S
    <2>1. T \subseteq Nat /\ T # {} OBVIOUS
    <2> HIDE DEF T
    <2>2. \E x \in T : \A y \in T : x <= y BY <2>1, LeastNumber
    <2> QED BY <2>2 DEF T
  <1>2. x # 0 OBVIOUS
  <1>3. x - 1 \in Nat /\ ~(x <= x - 1) /\ (x - 1) + 1 = x BY <1>2
  <1>4. x - 1 \in S BY <1>1, <1>3
  <1> QED BY <1>3, <1>4

Segments == Seq(STRING)

\* p is somewhere below directory d.
Below(d, p) == Len(d) < Len(p) /\ \A i \in 1..Len(d) : d[i] = p[i]

LEMMA CutIs ==
  ASSUME NEW p \in Segments, NEW n \in 0..Len(p)
  PROVE  /\ SubSeq(p, 1, n) \in Segments /\ Len(SubSeq(p, 1, n)) = n
         /\ \A i \in 1..n : SubSeq(p, 1, n)[i] = p[i]
  BY DEF Segments

LEMMA SamePath ==
  ASSUME NEW p \in Segments, NEW q \in Segments, Len(p) = Len(q),
         \A i \in 1..Len(p) : p[i] = q[i]
  PROVE  p = q
  BY DEF Segments

LEMMA BelowIs ==
  ASSUME NEW d \in Segments, NEW p \in Segments
  PROVE  IsStrictPrefix(d, p) <=> Below(d, p)
  <1>1. Len(d) \in Nat /\ Len(p) \in Nat BY DEF Segments
  <1>2. CASE Below(d, p)
    <2>1. Len(d) \in 0..Len(p) /\ Len(d) \in 0..Len(d) BY <1>1, <1>2 DEF Below
    <2>2. SubSeq(d, 1, Len(d)) = SubSeq(p, 1, Len(d))
      BY <1>2, <2>1, CutIs, SamePath DEF Below
    <2> QED BY <1>1, <1>2, <2>2 DEF IsStrictPrefix, IsPrefix, Below
  <1>3. CASE IsStrictPrefix(d, p)
    <2>1. Len(d) <= Len(p) /\ SubSeq(d, 1, Len(d)) = SubSeq(p, 1, Len(d)) /\ d # p
      BY <1>3 DEF IsStrictPrefix, IsPrefix
    <2>2. Len(d) \in 0..Len(p) /\ Len(d) \in 0..Len(d) BY <1>1, <2>1
    <2>3. \A i \in 1..Len(d) : d[i] = p[i]
      BY <2>1, <2>2, CutIs
    <2>4. Len(d) # Len(p) BY <2>1, <2>3, SamePath
    <2>5. Len(d) < Len(p) BY <1>1, <2>1, <2>4
    <2>6. Below(d, p) BY <2>3, <2>5 DEF Below
    <2> QED BY <1>3, <2>6
  <1> QED BY <1>2, <1>3

LEMMA FrontIs ==
  ASSUME NEW p \in Segments, p # <<>>
  PROVE  /\ Front(p) \in Segments /\ Len(p) = Len(Front(p)) + 1 /\ Below(Front(p), p)
         /\ \A d \in Segments : Below(d, p) /\ Len(p) = Len(d) + 1 => d = Front(p)
  <1>1. Len(p) \in Nat /\ Len(p) # 0 BY DEF Segments
  <1>2. Len(p) - 1 \in 0..Len(p) BY <1>1
  <1>3. /\ Front(p) \in Segments /\ Len(Front(p)) = Len(p) - 1
        /\ \A i \in 1..(Len(p) - 1) : Front(p)[i] = p[i]
    BY <1>2, CutIs DEF Front
  <1>4. Below(Front(p), p) BY <1>1, <1>3 DEF Below
  <1>5. ASSUME NEW d \in Segments, Below(d, p), Len(p) = Len(d) + 1
        PROVE  d = Front(p)
    <2>1. Len(d) = Len(p) - 1 /\ Len(d) = Len(Front(p)) BY <1>1, <1>3, <1>5 DEF Segments
    <2> QED BY <1>3, <1>5, <2>1, SamePath DEF Below
  <1> QED BY <1>1, <1>3, <1>4, <1>5

LEMMA DirsIs ==
  ASSUME NEW p \in Segments, NEW d
  PROVE  d \in Dirs(p) <=> d \in Segments /\ d # <<>> /\ Below(d, p)
  <1>1. Len(p) \in Nat BY DEF Segments
  <1>2. ASSUME d \in Dirs(p) PROVE d \in Segments /\ d # <<>> /\ Below(d, p)
    <2>1. PICK i \in 1..(Len(p) - 1) : d = SubSeq(p, 1, i) BY <1>2 DEF Dirs
    <2>2. i \in 0..Len(p) /\ i # 0 /\ i < Len(p) BY <1>1
    <2>3. d \in Segments /\ Len(d) = i /\ \A j \in 1..i : d[j] = p[j] BY <2>1, <2>2, CutIs
    <2>4. d # <<>> BY <2>2, <2>3
    <2> QED BY <2>2, <2>3, <2>4 DEF Below
  <1>3. ASSUME d \in Segments, d # <<>>, Below(d, p) PROVE d \in Dirs(p)
    <2>1. Len(d) \in Nat /\ Len(d) # 0 BY <1>3 DEF Segments
    <2>2. Len(d) \in 1..(Len(p) - 1) /\ Len(d) \in 0..Len(p) BY <1>1, <1>3, <2>1 DEF Below
    <2>3. SubSeq(p, 1, Len(d)) \in Segments /\ Len(SubSeq(p, 1, Len(d))) = Len(d)
          /\ \A i \in 1..Len(d) : SubSeq(p, 1, Len(d))[i] = d[i]
      BY <1>3, <2>2, CutIs DEF Below
    <2>4. d = SubSeq(p, 1, Len(d)) BY <1>3, <2>3, SamePath
    <2> QED BY <2>2, <2>4 DEF Dirs
  <1> QED BY <1>2, <1>3

LEMMA BelowBelow ==
  ASSUME NEW d \in Segments, NEW e \in Segments, NEW p \in Segments, Below(d, e), Below(e, p)
  PROVE  Below(d, p)
  <1>1. Len(d) \in Nat /\ Len(e) \in Nat /\ Len(p) \in Nat BY DEF Segments
  <1>2. Len(d) < Len(p) BY <1>1 DEF Below
  <1>3. ASSUME NEW i \in 1..Len(d) PROVE d[i] = p[i]
    <2>1. i \in 1..Len(e) BY <1>1 DEF Below
    <2> QED BY <2>1 DEF Below
  <1> QED BY <1>2, <1>3 DEF Below

\* Of two paths above a third one, the shorter is above the other.
LEMMA BothAbove ==
  ASSUME NEW d \in Segments, NEW e \in Segments, NEW p \in Segments, Below(d, p), Below(e, p)
  PROVE  /\ Len(d) < Len(e) => Below(d, e)
         /\ Len(d) = Len(e) => d = e
  <1>1. Len(d) \in Nat /\ Len(e) \in Nat /\ Len(p) \in Nat BY DEF Segments
  <1>2. \A i \in 1..Len(d) : i \in 1..Len(e) => d[i] = e[i] BY DEF Below
  <1>3. ASSUME Len(d) < Len(e) PROVE Below(d, e)
    BY <1>1, <1>2, <1>3 DEF Below
  <1>4. ASSUME Len(d) = Len(e) PROVE d = e
    BY <1>2, <1>4, SamePath
  <1> QED BY <1>3, <1>4
-----------------------------------------------------------------------------
(* buildTree: the tree holds the nodes of the entries so far, each once and  *)
(* in the list of its directory.                                             *)

Nodes == [kind : {"file", "dir"}, path : Segments \ {<<>>}]

TreeOf(tree, K) ==
  /\ K \subseteq Nodes
  /\ DOMAIN tree = {<<>>} \cup {d \in Segments : Node("dir", d) \in K}
  /\ \A n \in K : Front(n.path) \in DOMAIN tree
  /\ \A d \in DOMAIN tree : /\ tree[d] \in Seq(K) /\ IsInjective(tree[d])
                            /\ ToSet(tree[d]) = {n \in K : Front(n.path) = d}

LEMMA NodeIs ==
  ASSUME NEW k \in {"file", "dir"}, NEW p \in Segments, p # <<>>
  PROVE  Node(k, p) \in Nodes /\ Node(k, p).kind = k /\ Node(k, p).path = p
  BY DEF Node, Nodes

LEMMA DirNode ==
  ASSUME NEW n \in Nodes, n.kind = "dir"
  PROVE  n = Node("dir", n.path)
  BY DEF Node, Nodes

LEMMA AppendIs ==
  ASSUME NEW S, NEW s \in Seq(S), NEW x, IsInjective(s), x \notin ToSet(s)
  PROVE  /\ Append(s, x) \in Seq(S \cup {x}) /\ IsInjective(Append(s, x))
         /\ ToSet(Append(s, x)) = ToSet(s) \cup {x}
  <1> DEFINE t == Append(s, x)
  <1>1. /\ Len(s) \in Nat /\ DOMAIN s = 1..Len(s) /\ DOMAIN t = 1..(Len(s) + 1)
        /\ \A i \in 1..Len(s) : t[i] = s[i] /\ s[i] \in S
        /\ t[Len(s) + 1] = x /\ Len(t) = Len(s) + 1
    OBVIOUS
  <1>2. s \in Seq(S \cup {x}) OBVIOUS
  <1>3. t \in Seq(S \cup {x}) BY <1>2
  <1> HIDE DEF t
  <1>4. \A i \in DOMAIN t : i \in DOMAIN s \/ i = Len(s) + 1 BY <1>1
  <1>5. ToSet(t) = ToSet(s) \cup {x}
    <2>1. ASSUME NEW y \in ToSet(t) PROVE y \in ToSet(s) \cup {x}
      BY <1>1, <1>4, <2>1 DEF ToSet
    <2>2. \A i \in DOMAIN s : i \in DOMAIN t /\ t[i] = s[i] BY <1>1
    <2>3. ASSUME NEW y \in ToSet(s) PROVE y \in ToSet(t) BY <2>2, <2>3 DEF ToSet
    <2>4. x \in ToSet(t)
      <3>1. Len(s) + 1 \in DOMAIN t BY <1>1
      <3> QED BY <1>1, <3>1 DEF ToSet
    <2> QED BY <2>1, <2>3, <2>4
  <1>6. IsInjective(t)
    <2> SUFFICES ASSUME NEW i \in DOMAIN t, NEW j \in DOMAIN t, t[i] = t[j] PROVE i = j
      BY DEF IsInjective
    <2>1. \A k \in DOMAIN s : s[k] # x BY DEF ToSet
    <2>2. CASE i \in DOMAIN s /\ j \in DOMAIN s BY <1>1, <2>2 DEF IsInjective
    <2>3. CASE i \notin DOMAIN s \/ j \notin DOMAIN s BY <1>1, <1>4, <2>1, <2>3
    <2> QED BY <2>2, <2>3
  <1> QED BY <1>3, <1>5, <1>6 DEF t

LEMMA EmptyList ==
  ASSUME NEW S
  PROVE  <<>> \in Seq(S) /\ IsInjective(<<>>) /\ ToSet(<<>>) = {}
  BY DEF IsInjective, ToSet

LEMMA EnsureDirTree ==
  ASSUME NEW tree, NEW K, TreeOf(tree, K), NEW dir \in Segments, dir # <<>>,
         Front(dir) \in DOMAIN tree
  PROVE  TreeOf(EnsureDir(tree, dir), K \cup {Node("dir", dir)})
  <1> DEFINE x == Node("dir", dir)
             t == EnsureDir(tree, dir)
  <1>1. x \in Nodes /\ x.path = dir /\ dir # Front(dir)
    <2>1. x \in Nodes /\ x.path = dir BY NodeIs
    <2>2. Len(dir) = Len(Front(dir)) + 1 /\ Front(dir) \in Segments BY FrontIs
    <2>3. Len(Front(dir)) \in Nat BY <2>2 DEF Segments
    <2> QED BY <2>1, <2>2, <2>3
  <1>2. CASE dir \in DOMAIN tree
    <2>1. x \in K BY <1>2 DEF TreeOf
    <2>2. t = tree BY <1>2 DEF EnsureDir
    <2>3. K \cup {x} = K BY <2>1
    <2> QED BY <2>2, <2>3
  <1>3. CASE dir \notin DOMAIN tree
    <2>1. /\ DOMAIN t = DOMAIN tree \cup {dir} /\ t[dir] = <<>>
          /\ t[Front(dir)] = Append(tree[Front(dir)], x)
          /\ \A d \in DOMAIN tree : d # Front(dir) => t[d] = tree[d]
      BY <1>1, <1>3 DEF EnsureDir
    <2> HIDE DEF t, x
    <2>2. x \notin K BY <1>3 DEF TreeOf, x
    <2>3. K \cup {x} \subseteq Nodes BY <1>1 DEF TreeOf
    <2>4. DOMAIN t = {<<>>} \cup {d \in Segments : Node("dir", d) \in K \cup {x}}
      <3>1. \A d \in Segments : Node("dir", d) = x => d = dir BY DEF Node, x
      <3>2. Node("dir", dir) = x BY DEF x
      <3> QED BY <2>1, <3>1, <3>2 DEF TreeOf
    <2>5. \A n \in K \cup {x} : Front(n.path) \in DOMAIN t BY <1>1, <2>1 DEF TreeOf
    <2>6. ASSUME NEW d \in DOMAIN t
          PROVE  /\ t[d] \in Seq(K \cup {x}) /\ IsInjective(t[d])
                 /\ ToSet(t[d]) = {n \in K \cup {x} : Front(n.path) = d}
      <3>1. CASE d = dir
        <4>1. {n \in K \cup {x} : Front(n.path) = dir} = {} BY <1>1, <1>3 DEF TreeOf
        <4>2. t[d] = <<>> BY <2>1, <3>1
        <4> QED BY <3>1, <4>1, <4>2, EmptyList
      <3>2. CASE d = Front(dir)
        <4>1. /\ tree[d] \in Seq(K) /\ IsInjective(tree[d])
              /\ ToSet(tree[d]) = {n \in K : Front(n.path) = d}
          BY <3>2 DEF TreeOf
        <4>2. x \notin ToSet(tree[d]) BY <2>2, <4>1
        <4>3. t[d] = Append(tree[d], x) BY <2>1, <3>2
        <4>4. /\ t[d] \in Seq(K \cup {x}) /\ IsInjective(t[d])
              /\ ToSet(t[d]) = ToSet(tree[d]) \cup {x}
          <5>1. tree[d] \in Seq(K) /\ IsInjective(tree[d]) BY <4>1
          <5>2. /\ Append(tree[d], x) \in Seq(K \cup {x}) /\ IsInjective(Append(tree[d], x))
                /\ ToSet(Append(tree[d], x)) = ToSet(tree[d]) \cup {x}
            BY <5>1, <4>2, AppendIs, Zenon
          <5> QED BY <4>3, <5>2, Zenon
        <4>5. Front(x.path) = d BY <1>1, <3>2
        <4> QED BY <4>1, <4>4, <4>5
      <3>3. CASE d # dir /\ d # Front(dir)
        <4>1. d \in DOMAIN tree /\ t[d] = tree[d] BY <2>1, <3>3
        <4>2. /\ tree[d] \in Seq(K) /\ IsInjective(tree[d])
              /\ ToSet(tree[d]) = {n \in K : Front(n.path) = d}
          BY <4>1 DEF TreeOf
        <4>3. Front(x.path) # d BY <1>1, <3>3
        <4>4. tree[d] \in Seq(K \cup {x}) BY <4>2
        <4> QED BY <4>1, <4>2, <4>3, <4>4
      <3> QED BY <3>1, <3>2, <3>3
    <2> QED BY <2>3, <2>4, <2>5, <2>6 DEF TreeOf, x, t
  <1> QED BY <1>2, <1>3

\* The first n directories above p.
DirNodes(p, n) == {Node("dir", SubSeq(p, 1, i)) : i \in 1..n}

\* The recursion over the directories above a path has a solution.
ToDirs(tree, p, n, g) ==
  [i \in 0..n |-> IF i = 0 THEN tree ELSE EnsureDir(g[i - 1], SubSeq(p, 1, i))]

LEMMA ToDirsExists ==
  ASSUME NEW tree, NEW p, NEW n \in Nat
  PROVE  \E g : g = ToDirs(tree, p, n, g)
  <1> DEFINE S == {m \in Nat : \E g : g = ToDirs(tree, p, m, g)}
  <1>1. 0 \in S
    <2> DEFINE g == [i \in 0..0 |-> tree]
    <2>1. g = ToDirs(tree, p, 0, g) BY DEF ToDirs
    <2> QED BY <2>1
  <1>2. ASSUME NEW m \in Nat, m \in S PROVE m + 1 \in S
    <2>1. PICK g : g = ToDirs(tree, p, m, g) BY <1>2
    <2> DEFINE h == [i \in 0..(m + 1) |-> IF i <= m THEN g[i]
                                         ELSE EnsureDir(g[m], SubSeq(p, 1, m + 1))]
    <2>2. \A i \in 0..m : g[i] = IF i = 0 THEN tree ELSE EnsureDir(g[i - 1], SubSeq(p, 1, i))
      BY <2>1 DEF ToDirs
    <2>3. \A i \in 0..m : h[i] = g[i] OBVIOUS
    <2>4. h[m + 1] = EnsureDir(h[m], SubSeq(p, 1, m + 1)) OBVIOUS
    <2>5. ASSUME NEW i \in 0..(m + 1)
          PROVE  h[i] = IF i = 0 THEN tree ELSE EnsureDir(h[i - 1], SubSeq(p, 1, i))
      <3>1. CASE i = m + 1 BY <2>4, <3>1
      <3>2. CASE i = 0 BY <2>2, <2>3, <3>2
      <3>3. CASE i # 0 /\ i # m + 1
        <4>1. i \in 0..m /\ i - 1 \in 0..m BY <3>3
        <4> HIDE DEF h
        <4> QED BY <2>2, <2>3, <3>3, <4>1
      <3> QED BY <3>1, <3>2, <3>3
    <2>6. h = [i \in 0..(m + 1) |-> h[i]] OBVIOUS
    <2>7. h = ToDirs(tree, p, m + 1, h)
      <3> HIDE DEF h
      <3> QED BY <2>5, <2>6 DEF ToDirs
    <2> QED BY <2>7
  <1> HIDE DEF S
  <1>3. n \in S BY <1>1, <1>2, Induct
  <1> QED BY <1>3 DEF S

LEMMA EnsureDirsTree ==
  ASSUME NEW tree, NEW K, TreeOf(tree, K), NEW p \in Segments, p # <<>>
  PROVE  /\ TreeOf(EnsureDirs(tree, p), K \cup DirNodes(p, Len(p) - 1))
         /\ Front(p) \in DOMAIN EnsureDirs(tree, p)
  <1> DEFINE g == CHOOSE f : f = ToDirs(tree, p, Len(p) - 1, f)
  <1>1. Len(p) \in Nat /\ Len(p) - 1 \in Nat
    <2>1. Len(p) \in Nat /\ Len(p) # 0 BY DEF Segments
    <2> QED BY <2>1
  <1>2. g = ToDirs(tree, p, Len(p) - 1, g) BY <1>1, ToDirsExists
  <1>3. EnsureDirs(tree, p) = g[Len(p) - 1] BY DEF EnsureDirs, ToDirs
  <1> HIDE DEF g
  <1>4. \A i \in 0..(Len(p) - 1) :
          g[i] = IF i = 0 THEN tree ELSE EnsureDir(g[i - 1], SubSeq(p, 1, i))
    BY <1>2 DEF ToDirs
  <1> DEFINE Done(i) == TreeOf(g[i], K \cup DirNodes(p, i)) /\ SubSeq(p, 1, i) \in DOMAIN g[i]
             S == {i \in Nat : i <= Len(p) - 1 => Done(i)}
  <1>5. 0 \in S
    <2>1. g[0] = tree BY <1>1, <1>4
    <2>2. DirNodes(p, 0) = {} BY DEF DirNodes
    <2>3. K \cup DirNodes(p, 0) = K BY <2>2
    <2>4. SubSeq(p, 1, 0) = <<>> BY <1>1, CutIs, EmptyList DEF Segments
    <2>5. <<>> \in DOMAIN tree BY DEF TreeOf
    <2> QED BY <2>1, <2>3, <2>4, <2>5
  <1>6. ASSUME NEW m \in Nat, m \in S PROVE m + 1 \in S
    <2> SUFFICES ASSUME m + 1 <= Len(p) - 1 PROVE Done(m + 1) OBVIOUS
    <2> DEFINE dir == SubSeq(p, 1, m + 1)
    <2>1. m + 1 \in 0..Len(p) /\ m \in 0..Len(p) /\ m <= Len(p) - 1 BY <1>1
    <2>2. dir \in Segments /\ Len(dir) = m + 1 /\ \A i \in 1..(m + 1) : dir[i] = p[i]
      BY <2>1, CutIs
    <2>3. /\ SubSeq(p, 1, m) \in Segments /\ Len(SubSeq(p, 1, m)) = m
          /\ \A i \in 1..m : SubSeq(p, 1, m)[i] = p[i]
      BY <2>1, CutIs
    <2>4. dir # <<>>
      <3>1. m + 1 # 0 OBVIOUS
      <3> QED BY <2>2, <3>1
    <2>5. SubSeq(p, 1, m) = Front(dir)
      <3>1. Below(SubSeq(p, 1, m), dir) BY <2>2, <2>3 DEF Below
      <3> QED BY <2>2, <2>3, <2>4, <3>1, FrontIs
    <2>6. Done(m) BY <1>6, <2>1
    <2>7. g[m + 1] = EnsureDir(g[m], dir)
      <3>1. m + 1 \in 0..(Len(p) - 1) /\ m + 1 # 0 /\ (m + 1) - 1 = m BY <1>1
      <3> QED BY <1>4, <3>1
    <2>8. DirNodes(p, m + 1) = DirNodes(p, m) \cup {Node("dir", dir)}
      <3>1. 1..(m + 1) = 1..m \cup {m + 1} OBVIOUS
      <3> QED BY <3>1 DEF DirNodes
    <2> HIDE DEF dir
    <2>9. Front(dir) \in DOMAIN g[m] BY <2>5, <2>6
    <2>10. TreeOf(g[m + 1], (K \cup DirNodes(p, m)) \cup {Node("dir", dir)})
      BY <2>2, <2>4, <2>6, <2>7, <2>9, EnsureDirTree
    <2>11. (K \cup DirNodes(p, m)) \cup {Node("dir", dir)} = K \cup DirNodes(p, m + 1) BY <2>8
    <2>12. dir \in DOMAIN g[m + 1] BY <2>2, <2>10 DEF TreeOf
    <2> QED BY <2>10, <2>11, <2>12 DEF dir
  <1> HIDE DEF S
  <1>7. Len(p) - 1 \in S BY <1>1, <1>5, <1>6, Induct
  <1>8. Done(Len(p) - 1) BY <1>1, <1>7 DEF S
  <1> QED BY <1>3, <1>8 DEF Front

LEMMA AddEntryTree ==
  ASSUME NEW tree, NEW K, TreeOf(tree, K), NEW p \in Segments, p # <<>>,
         Node("file", p) \notin K
  PROVE  TreeOf(AddEntry(tree, p), K \cup DirNodes(p, Len(p) - 1) \cup {Node("file", p)})
  <1> DEFINE x == Node("file", p)
             J == K \cup DirNodes(p, Len(p) - 1)
             s == EnsureDirs(tree, p)
             t == AddEntry(tree, p)
             dir == Front(p)
  <1>1. TreeOf(s, J) /\ dir \in DOMAIN s BY EnsureDirsTree
  <1>2. x \in Nodes /\ x.path = p /\ x.kind = "file" BY NodeIs
  <1>3. x \notin DirNodes(p, Len(p) - 1) BY <1>2 DEF DirNodes, Node
  <1>4. x \notin J BY <1>3
  <1>5. t = [s EXCEPT ![dir] = Append(@, x)] BY DEF AddEntry
  <1>6. \A d \in Segments : Node("dir", d) # x BY DEF Node
  <1> HIDE DEF x, J, s, t, dir
  <1>7. /\ DOMAIN t = DOMAIN s /\ t[dir] = Append(s[dir], x)
        /\ \A d \in DOMAIN s : d # dir => t[d] = s[d]
    BY <1>1, <1>5
  <1>8. DOMAIN t = {<<>>} \cup {d \in Segments : Node("dir", d) \in J \cup {x}}
    BY <1>1, <1>6, <1>7 DEF TreeOf
  <1>9. \A n \in J \cup {x} : Front(n.path) \in DOMAIN t BY <1>1, <1>2, <1>7 DEF TreeOf, dir
  <1>10. ASSUME NEW d \in DOMAIN t
         PROVE  /\ t[d] \in Seq(J \cup {x}) /\ IsInjective(t[d])
                /\ ToSet(t[d]) = {n \in J \cup {x} : Front(n.path) = d}
    <2>1. /\ s[d] \in Seq(J) /\ IsInjective(s[d])
          /\ ToSet(s[d]) = {n \in J : Front(n.path) = d}
      BY <1>1, <1>7 DEF TreeOf
    <2>2. CASE d = dir
      <3>1. x \notin ToSet(s[d]) BY <1>4, <2>1
      <3>2. s[d] \in Seq(J) /\ IsInjective(s[d]) BY <2>1
      <3>3. /\ Append(s[d], x) \in Seq(J \cup {x}) /\ IsInjective(Append(s[d], x))
            /\ ToSet(Append(s[d], x)) = ToSet(s[d]) \cup {x}
        BY <3>1, <3>2, AppendIs, Zenon
      <3>4. t[d] = Append(s[d], x) BY <1>7, <2>2
      <3>5. Front(x.path) = d BY <1>2, <2>2 DEF dir
      <3>6. ToSet(s[d]) \cup {x} = {n \in J \cup {x} : Front(n.path) = d} BY <2>1, <3>5
      <3> QED BY <3>3, <3>4, <3>6, Zenon
    <2>3. CASE d # dir
      <3>1. t[d] = s[d] BY <1>7, <2>3
      <3>2. Front(x.path) # d BY <1>2, <2>3 DEF dir
      <3>3. s[d] \in Seq(J \cup {x}) BY <2>1
      <3>4. {n \in J : Front(n.path) = d} = {n \in J \cup {x} : Front(n.path) = d} BY <3>2
      <3> QED BY <2>1, <3>1, <3>3, <3>4, Zenon
    <2> QED BY <2>2, <2>3
  <1>11. J \cup {x} \subseteq Nodes BY <1>1, <1>2 DEF TreeOf
  <1>12. TreeOf(t, J \cup {x}) BY <1>8, <1>9, <1>10, <1>11 DEF TreeOf
  <1> QED BY <1>12 DEF t, J, x

\* The nodes a tree of these paths has.
KnownOf(F) ==
  {Node("file", p) : p \in F} \cup {Node("dir", d) : d \in UNION {Dirs(p) : p \in F}}

RootOnly == [d \in {<<>>} |-> <<>>]
\* The recursion over the listing has a solution.
ToEntries(paths, n, g) ==
  [i \in 0..n |-> IF i = 0 THEN RootOnly
                  ELSE IF PathOrder[i] \in paths THEN AddEntry(g[i - 1], PathOrder[i])
                  ELSE g[i - 1]]

LEMMA ToEntriesExists ==
  ASSUME NEW paths, NEW n \in Nat
  PROVE  \E g : g = ToEntries(paths, n, g)
  <1> DEFINE S == {m \in Nat : \E g : g = ToEntries(paths, m, g)}
             E(tree, i) == IF PathOrder[i] \in paths THEN AddEntry(tree, PathOrder[i]) ELSE tree
  <1>1. 0 \in S
    <2> DEFINE g == [i \in 0..0 |-> RootOnly]
    <2>1. g = ToEntries(paths, 0, g) BY DEF ToEntries
    <2> QED BY <2>1
  <1>2. ASSUME NEW m \in Nat, m \in S PROVE m + 1 \in S
    <2>1. PICK g : g = ToEntries(paths, m, g) BY <1>2
    <2> DEFINE h == [i \in 0..(m + 1) |-> IF i <= m THEN g[i] ELSE E(g[m], m + 1)]
    <2>2. \A i \in 0..m : g[i] = IF i = 0 THEN RootOnly ELSE E(g[i - 1], i)
      BY <2>1 DEF ToEntries
    <2> HIDE DEF E
    <2>3. \A i \in 0..m : h[i] = g[i] OBVIOUS
    <2>4. h[m + 1] = E(h[m], m + 1) OBVIOUS
    <2>5. ASSUME NEW i \in 0..(m + 1)
          PROVE  h[i] = IF i = 0 THEN RootOnly ELSE E(h[i - 1], i)
      <3>1. CASE i = m + 1 BY <2>4, <3>1
      <3>2. CASE i = 0 BY <2>2, <2>3, <3>2
      <3>3. CASE i # 0 /\ i # m + 1
        <4>1. i \in 0..m /\ i - 1 \in 0..m BY <3>3
        <4> HIDE DEF h
        <4> QED BY <2>2, <2>3, <3>3, <4>1
      <3> QED BY <3>1, <3>2, <3>3
    <2>6. h = [i \in 0..(m + 1) |-> h[i]] OBVIOUS
    <2>7. h = ToEntries(paths, m + 1, h)
      <3> HIDE DEF h
      <3>1. h = [i \in 0..(m + 1) |-> IF i = 0 THEN RootOnly ELSE E(h[i - 1], i)]
        BY <2>5, <2>6
      <3> QED BY <3>1, Zenon DEF ToEntries, E
    <2> QED BY <2>7
  <1> HIDE DEF S
  <1>3. n \in S BY <1>1, <1>2, Induct
  <1> QED BY <1>3 DEF S

LEMMA KnownOfOneMore ==
  ASSUME NEW F, NEW p \in Segments
  PROVE  KnownOf(F \cup {p}) = KnownOf(F) \cup DirNodes(p, Len(p) - 1) \cup {Node("file", p)}
  <1> DEFINE G == F \cup {p}
             x == Node("file", p)
             J == KnownOf(F) \cup DirNodes(p, Len(p) - 1) \cup {x}
  <1>1. DirNodes(p, Len(p) - 1) = {Node("dir", d) : d \in Dirs(p)} BY DEF Dirs, DirNodes
  <1>2. ASSUME NEW n \in KnownOf(G) PROVE n \in J
    <2>1. CASE \E q \in G : n = Node("file", q) BY <2>1 DEF KnownOf
    <2>2. CASE \E q \in G : \E d \in Dirs(q) : n = Node("dir", d)
      <3>1. PICK q \in G : \E d \in Dirs(q) : n = Node("dir", d) BY <2>2
      <3>2. CASE q \in F BY <3>1, <3>2 DEF KnownOf
      <3>3. CASE q = p BY <1>1, <3>1, <3>3
      <3> QED BY <3>2, <3>3
    <2> QED BY <1>2, <2>1, <2>2 DEF KnownOf
  <1>3. ASSUME NEW n \in J PROVE n \in KnownOf(G)
    <2>1. CASE n \in KnownOf(F) BY <2>1 DEF KnownOf
    <2>2. CASE n = x BY <2>2 DEF KnownOf
    <2>3. CASE n \in DirNodes(p, Len(p) - 1) BY <1>1, <2>3 DEF KnownOf
    <2> QED BY <2>1, <2>2, <2>3
  <1> QED BY <1>2, <1>3

\* The tree of a listing holds what the listing names, and nothing else.
LEMMA BuildTreeIs ==
  ASSUME NEW paths \in SUBSET Paths
  PROVE  TreeOf(buildTree(paths), KnownOf(paths))
  <1> DEFINE N == Len(PathOrder)
             g == CHOOSE f : f = ToEntries(paths, N, f)
             F(n) == {PathOrder[i] : i \in 1..n} \cap paths
  <1>1. /\ N \in Nat /\ DOMAIN PathOrder = 1..N
        /\ \A i \in 1..N : PathOrder[i] \in Segments /\ PathOrder[i] # <<>>
        /\ \A i, j \in 1..N : PathOrder[i] = PathOrder[j] => i = j
    BY FileTreeAssumption DEF Segments, IsInjective
  <1>2. g = ToEntries(paths, N, g) BY <1>1, ToEntriesExists
  <1>3. buildTree(paths) = g[N] BY DEF buildTree, ToEntries, RootOnly
  <1> HIDE DEF g, N
  <1>4. \A i \in 0..N :
          g[i] = IF i = 0 THEN RootOnly
                 ELSE IF PathOrder[i] \in paths THEN AddEntry(g[i - 1], PathOrder[i])
                 ELSE g[i - 1]
    BY <1>2 DEF ToEntries
  <1> DEFINE S == {n \in Nat : n <= N => TreeOf(g[n], KnownOf(F(n)))}
  <1>5. 0 \in S
    <2>1. g[0] = RootOnly BY <1>1, <1>4
    <2>2. F(0) = {} OBVIOUS
    <2>3. KnownOf({}) = {} BY DEF KnownOf
    <2>4. DOMAIN RootOnly = {<<>>} /\ RootOnly[<<>>] = <<>> BY DEF RootOnly
    <2>5. TreeOf(RootOnly, {})
      <3>1. {n \in {} : Front(n.path) = <<>>} = {} OBVIOUS
      <3>2. <<>> \in Seq({}) /\ IsInjective(<<>>) /\ ToSet(<<>>) = {} BY EmptyList
      <3> QED BY <2>4, <3>1, <3>2 DEF TreeOf
    <2> QED BY <2>1, <2>2, <2>3, <2>5
  <1>6. ASSUME NEW m \in Nat, m \in S PROVE m + 1 \in S
    <2> SUFFICES ASSUME m + 1 <= N PROVE TreeOf(g[m + 1], KnownOf(F(m + 1))) OBVIOUS
    <2> DEFINE p == PathOrder[m + 1]
    <2>1. /\ m + 1 \in 0..N /\ m + 1 \in 1..N /\ m + 1 # 0 /\ (m + 1) - 1 = m /\ m <= N
      BY <1>1
    <2>2. TreeOf(g[m], KnownOf(F(m))) BY <1>6, <2>1
    <2>3. F(m + 1) = F(m) \cup ({p} \cap paths)
      <3>1. 1..(m + 1) = 1..m \cup {m + 1} OBVIOUS
      <3> QED BY <3>1
    <2>4. CASE p \in paths
      <3>1. g[m + 1] = AddEntry(g[m], p) BY <1>4, <2>1, <2>4
      <3>2. p \in Segments /\ p # <<>> BY <1>1, <2>1
      <3>3. p \notin F(m)
        <4>1. \A i \in 1..m : i \in 1..N /\ i # m + 1 BY <2>1, <1>1
        <4> QED BY <1>1, <2>1, <4>1
      <3>4. F(m + 1) = F(m) \cup {p} BY <2>3, <2>4
      <3> HIDE DEF p, F
      <3>5. Node("file", p) \notin KnownOf(F(m)) BY <3>3 DEF KnownOf, Node
      <3>6. TreeOf(AddEntry(g[m], p), KnownOf(F(m)) \cup DirNodes(p, Len(p) - 1) \cup {Node("file", p)})
        BY <2>2, <3>2, <3>5, AddEntryTree
      <3> QED BY <3>1, <3>2, <3>4, <3>6, KnownOfOneMore
    <2>5. CASE p \notin paths
      <3>1. g[m + 1] = g[m] BY <1>4, <2>1, <2>5
      <3>2. F(m + 1) = F(m) BY <2>3, <2>5
      <3> QED BY <2>2, <3>1, <3>2
    <2> QED BY <2>4, <2>5
  <1> HIDE DEF S
  <1>7. N \in S BY <1>1, <1>5, <1>6, Induct
  <1>8. F(N) = paths BY <1>1 DEF Paths, ToSet
  <1>9. TreeOf(g[N], KnownOf(F(N))) BY <1>1, <1>7 DEF S
  <1> QED BY <1>3, <1>8, <1>9

\* The directories above a known node are known.
LEMMA KnownClosed ==
  ASSUME NEW paths \in SUBSET Paths, NEW n \in KnownOf(paths), NEW d \in Dirs(n.path)
  PROVE  Node("dir", d) \in KnownOf(paths)
  <1>1. \A p \in paths : p \in Segments /\ p # <<>>
    BY FileTreeAssumption DEF Paths, ToSet, Segments
  <1>2. CASE \E p \in paths : n = Node("file", p)
    <2>1. PICK p \in paths : n = Node("file", p) BY <1>2
    <2>2. d \in Dirs(p) BY <2>1 DEF Node
    <2> QED BY <2>2 DEF KnownOf
  <1>3. CASE \E p \in paths : \E e \in Dirs(p) : n = Node("dir", e)
    <2>0. PICK p \in paths : \E e \in Dirs(p) : n = Node("dir", e) BY <1>3
    <2>1. PICK e \in Dirs(p) : n = Node("dir", e) BY <2>0
    <2>2. n.path = e BY <2>1 DEF Node
    <2>3. e \in Segments /\ Below(e, p) BY <1>1, <2>1, DirsIs
    <2>4. d \in Segments /\ d # <<>> /\ Below(d, e) BY <2>2, <2>3, DirsIs
    <2>5. d \in Dirs(p) BY <1>1, <2>3, <2>4, BelowBelow, DirsIs
    <2> QED BY <2>5 DEF KnownOf
  <1> QED BY <1>2, <1>3 DEF KnownOf
-----------------------------------------------------------------------------
(* TreeNodes: the rows below a directory follow one another. *)

\* The recursion of a flattened sequence of sequences has a solution.
Flat(seqs, n, g) ==
  [i \in 1..n |-> IF i = 1 THEN seqs[i] ELSE g[i - 1] \o seqs[i]]

LEMMA FlatExists ==
  ASSUME NEW seqs, NEW n \in Nat
  PROVE  \E g : g = Flat(seqs, n, g)
  <1> DEFINE S == {m \in Nat : \E g : g = Flat(seqs, m, g)}
  <1>1. 0 \in S
    <2> DEFINE g == [i \in 1..0 |-> <<>>]
    <2>1. g = Flat(seqs, 0, g) BY DEF Flat
    <2> QED BY <2>1
  <1>2. ASSUME NEW m \in Nat, m \in S PROVE m + 1 \in S
    <2>1. PICK g : g = Flat(seqs, m, g) BY <1>2
    <2> DEFINE new == IF m = 0 THEN seqs[1] ELSE g[m] \o seqs[m + 1]
               h   == [i \in 1..(m + 1) |-> IF i <= m THEN g[i] ELSE new]
    <2>2. \A i \in 1..m : g[i] = IF i = 1 THEN seqs[i] ELSE g[i - 1] \o seqs[i]
      BY <2>1 DEF Flat
    <2>3. \A i \in 1..m : h[i] = g[i] OBVIOUS
    <2>4. h[m + 1] = new OBVIOUS
    <2>5. ASSUME NEW i \in 1..(m + 1)
          PROVE  h[i] = IF i = 1 THEN seqs[i] ELSE h[i - 1] \o seqs[i]
      <3>1. CASE i = m + 1 /\ m = 0 BY <2>4, <3>1
      <3>2. CASE i = m + 1 /\ m # 0
        <4>1. m \in 1..m /\ i # 1 /\ i - 1 = m BY <3>2
        <4>2. h[m] = g[m] BY <2>3, <4>1
        <4> HIDE DEF h
        <4> QED BY <2>4, <3>2, <4>1, <4>2
      <3>3. CASE i # m + 1 /\ i = 1
        <4>1. i \in 1..m BY <3>3
        <4> QED BY <2>2, <2>3, <3>3, <4>1
      <3>4. CASE i # m + 1 /\ i # 1
        <4>1. i \in 1..m /\ i - 1 \in 1..m BY <3>4
        <4> HIDE DEF h
        <4> QED BY <2>2, <2>3, <3>4, <4>1
      <3> QED BY <3>1, <3>2, <3>3, <3>4
    <2>6. h = [i \in 1..(m + 1) |-> h[i]] OBVIOUS
    <2>7. h = Flat(seqs, m + 1, h)
      <3> HIDE DEF h
      <3> QED BY <2>5, <2>6 DEF Flat
    <2> QED BY <2>7
  <1> HIDE DEF S
  <1>3. n \in S BY <1>1, <1>2, Induct
  <1> QED BY <1>3 DEF S

LEMMA FlattenIs ==
  ASSUME NEW T, NEW seqs \in Seq(Seq(T))
  PROVE  \E g : /\ g[0] = <<>>
                /\ \A i \in 1..Len(seqs) : g[i] = g[i - 1] \o seqs[i]
                /\ FlattenSeq(seqs) = g[Len(seqs)]
  <1> DEFINE n == Len(seqs)
             f == CHOOSE h : h = Flat(seqs, n, h)
             g == [i \in 0..n |-> IF i = 0 THEN <<>> ELSE f[i]]
  <1>1. n \in Nat /\ \A i \in 1..n : seqs[i] \in Seq(T) OBVIOUS
  <1>2. f = Flat(seqs, n, f) BY <1>1, FlatExists
  <1>3. FlattenSeq(seqs) = IF n = 0 THEN seqs ELSE f[n] BY DEF FlattenSeq, Flat
  <1> HIDE DEF f
  <1>4. \A i \in 1..n : f[i] = IF i = 1 THEN seqs[i] ELSE f[i - 1] \o seqs[i]
    BY <1>2 DEF Flat
  <1>5. g[0] = <<>> BY <1>1
  <1>6. ASSUME NEW i \in 1..n PROVE g[i] = g[i - 1] \o seqs[i]
    <2>1. g[i] = f[i] BY <1>1
    <2>2. CASE i = 1
      <3>1. f[i] = seqs[i] BY <1>4, <2>2
      <3>2. seqs[i] = <<>> \o seqs[i] BY <1>1
      <3>3. g[i - 1] = <<>> BY <1>5, <2>2
      <3> QED BY <2>1, <3>1, <3>2, <3>3
    <2>3. CASE i # 1
      <3>1. i - 1 \in 0..n /\ i - 1 # 0 BY <1>1, <2>3
      <3>2. g[i - 1] = f[i - 1] BY <3>1
      <3> HIDE DEF g
      <3> QED BY <1>4, <2>1, <2>3, <3>2
    <2> QED BY <2>2, <2>3
  <1>7. FlattenSeq(seqs) = g[n]
    <2>1. CASE n = 0
      <3>1. seqs = <<>> BY <2>1
      <3> QED BY <1>3, <1>5, <2>1, <3>1
    <2>2. CASE n # 0
      <3>1. n \in 0..n BY <1>1
      <3> QED BY <1>3, <2>2, <3>1
    <2> QED BY <2>1, <2>2
  <1> HIDE DEF g
  <1> QED BY <1>5, <1>6, <1>7

\* A row comes right after its directory or after something in it.
Follows(s, i) ==
  LET above == Front(s[i].path) IN
  i > 1 /\ (s[i - 1].path = above \/ IsStrictPrefix(above, s[i - 1].path))

\* Rows below d: every row is d's own or follows what it belongs to.
Chain(d, s) ==
  /\ s \in Seq(Nodes) /\ IsInjective(s)
  /\ \A i \in DOMAIN s : Front(s[i].path) = d \/ Follows(s, i)

LEMMA JoinedSets ==
  ASSUME NEW T, NEW s \in Seq(T), NEW t \in Seq(T)
  PROVE  /\ s \o t \in Seq(T) /\ ToSet(s \o t) = ToSet(s) \cup ToSet(t)
         /\ DOMAIN (s \o t) = 1..(Len(s) + Len(t)) /\ Len(s) \in Nat /\ Len(t) \in Nat
         /\ \A i \in 1..Len(s) : (s \o t)[i] = s[i]
         /\ \A i \in 1..Len(t) : (s \o t)[Len(s) + i] = t[i]
         /\ DOMAIN s = 1..Len(s) /\ DOMAIN t = 1..Len(t)
  <1> DEFINE r == s \o t
  <1>1. /\ r \in Seq(T)
        /\ DOMAIN r = 1..(Len(s) + Len(t)) /\ Len(s) \in Nat /\ Len(t) \in Nat
        /\ \A i \in 1..Len(s) : r[i] = s[i]
        /\ DOMAIN s = 1..Len(s) /\ DOMAIN t = 1..Len(t)
    OBVIOUS
  <1>2. \A i \in 1..Len(t) : r[Len(s) + i] = t[i] OBVIOUS
  <1> HIDE DEF r
  <1>3. ASSUME NEW x \in ToSet(r) PROVE x \in ToSet(s) \cup ToSet(t)
    <2>1. PICK i \in DOMAIN r : x = r[i] BY <1>3 DEF ToSet
    <2>2. CASE i \in 1..Len(s) BY <1>1, <2>1, <2>2 DEF ToSet
    <2>3. CASE i \notin 1..Len(s)
      <3>1. i - Len(s) \in 1..Len(t) /\ Len(s) + (i - Len(s)) = i BY <1>1, <2>1, <2>3
      <3>2. x = t[i - Len(s)] BY <1>2, <2>1, <3>1
      <3> QED BY <1>1, <3>1, <3>2 DEF ToSet
    <2> QED BY <2>2, <2>3
  <1>4. ASSUME NEW x \in ToSet(s) PROVE x \in ToSet(r)
    <2>1. PICK i \in 1..Len(s) : x = s[i] BY <1>1, <1>4 DEF ToSet
    <2>2. i \in DOMAIN r /\ r[i] = x BY <1>1, <2>1
    <2> QED BY <2>2 DEF ToSet
  <1>5. ASSUME NEW x \in ToSet(t) PROVE x \in ToSet(r)
    <2>1. PICK i \in 1..Len(t) : x = t[i] BY <1>1, <1>5 DEF ToSet
    <2>2. Len(s) + i \in DOMAIN r /\ r[Len(s) + i] = x BY <1>1, <1>2, <2>1
    <2> QED BY <2>2 DEF ToSet
  <1>6. ToSet(r) = ToSet(s) \cup ToSet(t) BY <1>3, <1>4, <1>5
  <1> QED BY <1>1, <1>2, <1>6 DEF r

\* No row is in both.
Apart(s, t) == ToSet(s) \cap ToSet(t) = {}

\* The rows of u are those of both.
Joins(u, s, t) == ToSet(u) = ToSet(s) \cup ToSet(t)

LEMMA ChainJoined ==
  ASSUME NEW d, NEW s, NEW t, Chain(d, s), Chain(d, t), Apart(s, t)
  PROVE  Chain(d, s \o t) /\ Joins(s \o t, s, t)
  <1> DEFINE r == s \o t
             n == Len(s)
  <1>1. s \in Seq(Nodes) /\ t \in Seq(Nodes) BY DEF Chain
  <1>2. /\ r \in Seq(Nodes) /\ ToSet(r) = ToSet(s) \cup ToSet(t)
        /\ DOMAIN r = 1..(n + Len(t)) /\ n \in Nat /\ Len(t) \in Nat
        /\ \A i \in 1..n : r[i] = s[i]
        /\ \A i \in 1..Len(t) : r[n + i] = t[i]
        /\ DOMAIN s = 1..n /\ DOMAIN t = 1..Len(t)
    BY <1>1, JoinedSets
  <1> HIDE DEF r, n
  <1>3. ASSUME NEW i \in DOMAIN r, i \notin DOMAIN s
        PROVE  i - n \in DOMAIN t /\ r[i] = t[i - n] /\ n + (i - n) = i
    <2>1. i - n \in 1..Len(t) /\ n + (i - n) = i BY <1>2, <1>3
    <2> QED BY <1>2, <2>1
  <1>4. IsInjective(r)
    <2> SUFFICES ASSUME NEW i \in DOMAIN r, NEW j \in DOMAIN r, r[i] = r[j] PROVE i = j
      BY DEF IsInjective
    <2>1. CASE i \in DOMAIN s /\ j \in DOMAIN s
      <3>1. s[i] = s[j] BY <1>2, <2>1
      <3> QED BY <2>1, <3>1 DEF Chain, IsInjective
    <2>2. CASE i \notin DOMAIN s /\ j \notin DOMAIN s
      <3>1. t[i - n] = t[j - n] /\ i - n \in DOMAIN t /\ j - n \in DOMAIN t BY <1>3, <2>2
      <3>2. i - n = j - n BY <3>1 DEF Chain, IsInjective
      <3> QED BY <1>2, <3>2
    <2>3. ASSUME NEW k \in DOMAIN s, NEW l \in DOMAIN r, l \notin DOMAIN s, r[k] = r[l]
          PROVE  FALSE
      <3>1. r[k] \in ToSet(s) BY <1>2, <2>3 DEF ToSet
      <3>2. r[l] \in ToSet(t) BY <1>3, <2>3 DEF ToSet
      <3> QED BY <2>3, <3>1, <3>2 DEF Apart
    <2> QED BY <2>1, <2>2, <2>3
  <1>5. ASSUME NEW i \in DOMAIN r PROVE Front(r[i].path) = d \/ Follows(r, i)
    <2>1. CASE i \in DOMAIN s
      <3>1. r[i] = s[i] BY <1>2, <2>1
      <3>2. CASE Front(s[i].path) = d BY <3>1, <3>2
      <3>3. CASE Follows(s, i)
        <4>1. i > 1 BY <3>3 DEF Follows
        <4>2. i - 1 \in DOMAIN s /\ r[i - 1] = s[i - 1] BY <1>2, <2>1, <4>1
        <4> QED BY <3>1, <3>3, <4>2 DEF Follows
      <3> QED BY <2>1, <3>2, <3>3 DEF Chain
    <2>2. CASE i \notin DOMAIN s
      <3>1. i - n \in DOMAIN t /\ r[i] = t[i - n] /\ n + (i - n) = i BY <1>3, <2>2
      <3>2. CASE Front(t[i - n].path) = d BY <3>1, <3>2
      <3>3. CASE Follows(t, i - n)
        <4>1. i - n > 1 BY <3>3 DEF Follows
        <4>2. /\ i > 1 /\ (i - n) - 1 \in 1..Len(t) /\ n + ((i - n) - 1) = i - 1
          BY <1>2, <3>1, <4>1
        <4>3. r[i - 1] = t[(i - n) - 1] BY <1>2, <4>2
        <4> QED BY <3>1, <3>3, <4>2, <4>3 DEF Follows
      <3> QED BY <3>1, <3>2, <3>3 DEF Chain
    <2> QED BY <2>1, <2>2
  <1>6. Chain(d, r) BY <1>2, <1>4, <1>5 DEF Chain
  <1>7. Joins(r, s, t) BY <1>2 DEF Joins
  <1> QED BY <1>6, <1>7 DEF r

\* The rows below a directory, with its own row at their head.
LEMMA ChainHeaded ==
  ASSUME NEW d, NEW e \in Segments, e # <<>>, Front(e) = d, NEW s, Chain(e, s),
         \A n \in ToSet(s) : Below(e, n.path)
  PROVE  /\ Chain(d, <<Node("dir", e)>> \o s)
         /\ ToSet(<<Node("dir", e)>> \o s) = {Node("dir", e)} \cup ToSet(s)
  <1> DEFINE x == Node("dir", e)
             r == <<x>> \o s
  <1>1. x \in Nodes /\ x.path = e BY NodeIs
  <1>2. <<x>> \in Seq(Nodes) /\ s \in Seq(Nodes) /\ Len(<<x>>) = 1 /\ <<x>>[1] = x
    BY <1>1 DEF Chain
  <1>3. ToSet(<<x>>) = {x} BY DEF ToSet
  <1>4. /\ r \in Seq(Nodes) /\ ToSet(r) = {x} \cup ToSet(s)
        /\ DOMAIN r = 1..(1 + Len(s)) /\ Len(s) \in Nat /\ DOMAIN s = 1..Len(s)
        /\ r[1] = x /\ \A i \in 1..Len(s) : r[1 + i] = s[i]
    <2> HIDE DEF x
    <2>1. /\ r \in Seq(Nodes) /\ Len(s) \in Nat /\ DOMAIN s = 1..Len(s)
          /\ DOMAIN r = 1..(1 + Len(s))
          /\ r[1] = x
      BY <1>2
    <2>2. \A i \in 1..Len(s) : r[1 + i] = s[i] BY <1>2
    <2>3. <<x>> \in Seq(Nodes) /\ s \in Seq(Nodes) BY <1>2
    <2> DEFINE u == <<x>>
    <2> HIDE DEF u
    <2>4. u \in Seq(Nodes) BY <2>3 DEF u
    <2>5. ToSet(u \o s) = ToSet(u) \cup ToSet(s) BY <2>3, <2>4, JoinedSets
    <2>6. ToSet(r) = {x} \cup ToSet(s) BY <1>3, <2>5 DEF u
    <2> HIDE DEF r
    <2> QED BY <2>1, <2>2, <2>6
  <1> HIDE DEF r, x
  <1>5. \A i \in DOMAIN r : i # 1 => i - 1 \in DOMAIN s /\ r[i] = s[i - 1] BY <1>4
  <1>6. x \notin ToSet(s)
    <2>1. ~Below(e, e) BY DEF Below, Segments
    <2> QED BY <1>1, <2>1
  <1>7. \A i \in DOMAIN s : s[i] # x BY <1>6 DEF ToSet
  <1>8. IsInjective(r)
    <2> SUFFICES ASSUME NEW i \in DOMAIN r, NEW j \in DOMAIN r, r[i] = r[j] PROVE i = j
      BY DEF IsInjective
    <2>1. CASE i = 1 \/ j = 1 BY <1>4, <1>5, <1>7, <2>1
    <2>2. CASE i # 1 /\ j # 1
      <3>1. i - 1 \in DOMAIN s /\ j - 1 \in DOMAIN s /\ s[i - 1] = s[j - 1] BY <1>5, <2>2
      <3>2. i - 1 = j - 1 BY <3>1 DEF Chain, IsInjective
      <3> QED BY <1>4, <3>2
    <2> QED BY <2>1, <2>2
  <1>9. ASSUME NEW i \in DOMAIN r PROVE Front(r[i].path) = d \/ Follows(r, i)
    <2>1. CASE i = 1 BY <1>1, <1>4, <2>1
    <2>2. CASE i # 1
      <3>1. i - 1 \in DOMAIN s /\ r[i] = s[i - 1] /\ i > 1 BY <1>4, <1>5, <2>2
      <3>2. CASE Front(s[i - 1].path) = e
        <4>1. CASE i = 2
          <5>1. r[i - 1].path = e BY <1>1, <1>4, <4>1
          <5> QED BY <3>1, <3>2, <5>1 DEF Follows
        <4>2. CASE i # 2
          <5>1. i - 1 \in DOMAIN r /\ i - 1 # 1 BY <1>4, <3>1, <4>2
          <5>2. (i - 1) - 1 \in DOMAIN s /\ r[i - 1] = s[(i - 1) - 1] BY <1>5, <5>1
          <5>3. r[i - 1] \in ToSet(s) /\ r[i - 1] \in Nodes BY <1>2, <5>2 DEF ToSet
          <5>4. r[i - 1].path \in Segments BY <5>3 DEF Nodes
          <5>5. IsStrictPrefix(e, r[i - 1].path) BY <5>3, <5>4, BelowIs
          <5> QED BY <3>1, <3>2, <5>5 DEF Follows
        <4> QED BY <4>1, <4>2
      <3>3. CASE Follows(s, i - 1)
        <4>1. i - 1 > 1 BY <3>3 DEF Follows
        <4>2. i - 1 \in DOMAIN r /\ i - 1 # 1 BY <1>4, <3>1, <4>1
        <4>3. r[i - 1] = s[(i - 1) - 1] BY <1>5, <4>2
        <4> QED BY <3>1, <3>3, <4>3 DEF Follows
      <3> QED BY <3>1, <3>2, <3>3 DEF Chain
    <2> QED BY <2>1, <2>2
  <1>10. Chain(d, r) BY <1>4, <1>8, <1>9 DEF Chain
  <1> QED BY <1>4, <1>10 DEF r, x

\* The nodes of K that are rows below d: every directory between is expanded.
RowsBelow(K, d) ==
  {n \in K : Below(d, n.path) /\ \A e \in Dirs(n.path) : Len(e) > Len(d) => e \in expanded}

\* s draws what is below d: all of it, and in the order of a tree.
RowsOK(K, d, s) == Chain(d, s) /\ ToSet(s) = RowsBelow(K, d)

\* With a node, K has the directories above it.
Closed(K) == \A n \in K : \A e \in Dirs(n.path) : Node("dir", e) \in K

OpenDir(n) == n.kind = "dir" /\ n.path \in expanded

\* TreeNodes before it is joined: each node of d with the rows below it.
Pieces(tree, g, d) ==
  [i \in DOMAIN tree[d] |->
     LET node == tree[d][i] IN
     <<node>> \o IF node.kind = "dir" /\ node.path \in expanded THEN g[node.path] ELSE <<>>]

\* The rows in the piece of node n.
PieceSet(K, n) == {n} \cup (IF OpenDir(n) THEN RowsBelow(K, n.path) ELSE {})

LEMMA OneRow ==
  ASSUME NEW n \in Nodes
  PROVE  Chain(Front(n.path), <<n>> \o <<>>) /\ ToSet(<<n>> \o <<>>) = {n}
  <1>1. <<n>> \o <<>> = <<n>> OBVIOUS
  <1>2. <<n>> \in Seq(Nodes) /\ DOMAIN <<n>> = {1} /\ <<n>>[1] = n OBVIOUS
  <1>3. Chain(Front(n.path), <<n>>) BY <1>2 DEF Chain, IsInjective
  <1>4. ToSet(<<n>>) = {n} BY <1>2 DEF ToSet
  <1> QED BY <1>1, <1>3, <1>4

\* A node of a directory's list: its row, and those below it if it is open.
LEMMA PieceIs ==
  ASSUME NEW tree, NEW K, TreeOf(tree, K), NEW g, NEW d \in DOMAIN tree,
         \A e \in DOMAIN tree : Len(e) = Len(d) + 1 => RowsOK(K, e, g[e]),
         NEW i \in DOMAIN tree[d]
  PROVE  /\ Chain(d, Pieces(tree, g, d)[i])
         /\ ToSet(Pieces(tree, g, d)[i]) = PieceSet(K, tree[d][i])
  <1> DEFINE n == tree[d][i]
  <1>1. n \in K /\ Front(n.path) = d
    <2>1. n \in ToSet(tree[d]) BY DEF ToSet
    <2> QED BY <2>1 DEF TreeOf
  <1>2. n \in Nodes BY <1>1 DEF TreeOf
  <1> HIDE DEF n
  <1>3. n.path \in Segments /\ n.path # <<>> BY <1>2 DEF Nodes
  <1>4. CASE OpenDir(n)
    <2>1. n = Node("dir", n.path) BY <1>2, <1>4, DirNode DEF OpenDir
    <2>2. n.path \in DOMAIN tree BY <1>1, <1>3, <2>1 DEF TreeOf
    <2>3. Len(n.path) = Len(d) + 1 BY <1>1, <1>3, FrontIs
    <2>4. Chain(n.path, g[n.path]) /\ ToSet(g[n.path]) = RowsBelow(K, n.path)
      BY <2>2, <2>3 DEF RowsOK
    <2>5. Pieces(tree, g, d)[i] = <<n>> \o g[n.path] BY <1>4 DEF Pieces, n, OpenDir
    <2>6. \A m \in ToSet(g[n.path]) : Below(n.path, m.path) BY <2>4 DEF RowsBelow
    <2>7. /\ Chain(d, <<Node("dir", n.path)>> \o g[n.path])
          /\ ToSet(<<Node("dir", n.path)>> \o g[n.path]) = {Node("dir", n.path)} \cup ToSet(g[n.path])
      BY <1>1, <1>3, <2>4, <2>6, ChainHeaded
    <2>8. PieceSet(K, n) = {n} \cup RowsBelow(K, n.path) BY <1>4 DEF PieceSet
    <2>9. Chain(d, <<n>> \o g[n.path]) /\ ToSet(<<n>> \o g[n.path]) = {n} \cup ToSet(g[n.path])
      BY <2>1, <2>7, Zenon
    <2> QED BY <2>4, <2>5, <2>8, <2>9, Zenon DEF n
  <1>5. CASE ~OpenDir(n)
    <2>1. Pieces(tree, g, d)[i] = <<n>> \o <<>> BY <1>5 DEF Pieces, n, OpenDir
    <2>2. PieceSet(K, n) = {n} BY <1>5 DEF PieceSet
    <2>3. Chain(d, <<n>> \o <<>>) /\ ToSet(<<n>> \o <<>>) = {n} BY <1>1, <1>2, OneRow
    <2> QED BY <2>1, <2>2, <2>3, Zenon DEF n
  <1> QED BY <1>4, <1>5

\* No row is below two nodes of a directory.
LEMMA PiecesDisjoint ==
  ASSUME NEW K \in SUBSET Nodes, NEW d, NEW m \in K, NEW n \in K, m # n,
         Front(m.path) = d, Front(n.path) = d
  PROVE  PieceSet(K, m) \cap PieceSet(K, n) = {}
  <1>1. /\ m.path \in Segments /\ n.path \in Segments /\ m.path # <<>> /\ n.path # <<>>
    BY DEF Nodes
  <1>2. Len(m.path) = Len(d) + 1 /\ Len(n.path) = Len(d) + 1 BY <1>1, FrontIs
  <1>3. ASSUME NEW x \in PieceSet(K, m), x \in PieceSet(K, n) PROVE FALSE
    <2>0. ASSUME NEW y, x \in PieceSet(K, y)
          PROVE  x = y \/ (OpenDir(y) /\ x \in K /\ Below(y.path, x.path))
      <3>1. CASE OpenDir(y)
        <4>1. x \in {y} \cup RowsBelow(K, y.path) BY <2>0, <3>1 DEF PieceSet
        <4>2. x \in RowsBelow(K, y.path) => x \in K /\ Below(y.path, x.path) BY DEF RowsBelow
        <4> QED BY <3>1, <4>1, <4>2
      <3>2. CASE ~OpenDir(y)
        <4>1. x \in {y} BY <2>0, <3>2 DEF PieceSet
        <4> QED BY <4>1
      <3> QED BY <3>1, <3>2
    <2>1. /\ x = m \/ (OpenDir(m) /\ x \in K /\ Below(m.path, x.path))
          /\ x = n \/ (OpenDir(n) /\ x \in K /\ Below(n.path, x.path))
      BY <1>3, <2>0
    <2>2. ~Below(m.path, n.path) /\ ~Below(n.path, m.path)
      BY <1>1, <1>2 DEF Below, Segments
    <2>3. OpenDir(m) /\ OpenDir(n) /\ x \in K /\ Below(m.path, x.path) /\ Below(n.path, x.path)
      BY <2>1, <2>2
    <2>4. x.path \in Segments BY <2>3 DEF Nodes
    <2>5. m.path = n.path BY <1>1, <1>2, <2>3, <2>4, BothAbove
    <2>6. m = Node("dir", m.path) /\ n = Node("dir", n.path) BY <2>3, DirNode DEF OpenDir
    <2> QED BY <2>5, <2>6
  <1> QED BY <1>3

\* What is below a directory: its own nodes and what is below the open ones.
LEMMA SplitBelow ==
  ASSUME NEW tree, NEW K, TreeOf(tree, K), Closed(K), NEW d \in DOMAIN tree
  PROVE  /\ \A n \in ToSet(tree[d]) : PieceSet(K, n) \subseteq RowsBelow(K, d)
         /\ \A x \in RowsBelow(K, d) : \E n \in ToSet(tree[d]) : x \in PieceSet(K, n)
  <1>1. d \in Segments
    <2>1. <<>> \in Segments BY DEF Segments
    <2> QED BY <2>1 DEF TreeOf
  <1>2. \A n \in K : n \in Nodes /\ n.path \in Segments /\ n.path # <<>>
    BY DEF TreeOf, Nodes
  <1>3. ToSet(tree[d]) = {n \in K : Front(n.path) = d} BY DEF TreeOf
  <1>4. ASSUME NEW n \in ToSet(tree[d]), NEW x \in PieceSet(K, n) PROVE x \in RowsBelow(K, d)
    <2>1. n \in K /\ Len(n.path) = Len(d) + 1 /\ Below(d, n.path) BY <1>2, <1>3, FrontIs
    <2>2. CASE x = n
      <3>1. ASSUME NEW e \in Dirs(n.path), Len(e) > Len(d) PROVE FALSE
        <4>1. e \in Segments /\ Len(e) < Len(n.path) BY <1>2, <2>1, DirsIs DEF Below
        <4> QED BY <1>1, <2>1, <3>1, <4>1 DEF Segments
      <3> QED BY <2>1, <2>2, <3>1 DEF RowsBelow
    <2>3. CASE x # n
      <3>1. OpenDir(n) /\ x \in RowsBelow(K, n.path)
        <4>1. CASE OpenDir(n) BY <1>4, <2>3, <4>1 DEF PieceSet
        <4>2. CASE ~OpenDir(n) BY <1>4, <2>3, <4>2 DEF PieceSet
        <4> QED BY <4>1, <4>2
      <3>2. x \in K /\ Below(n.path, x.path) BY <3>1 DEF RowsBelow
      <3>3. Below(d, x.path) BY <1>1, <1>2, <2>1, <3>2, BelowBelow
      <3>4. ASSUME NEW e \in Dirs(x.path), Len(e) > Len(d) PROVE e \in expanded
        <4>1. e \in Segments /\ Below(e, x.path) BY <1>2, <3>2, DirsIs
        <4>2. CASE Len(e) > Len(n.path) BY <3>1, <4>2 DEF RowsBelow
        <4>3. CASE ~(Len(e) > Len(n.path))
          <5>1. Len(e) = Len(n.path) BY <1>1, <1>2, <2>1, <3>4, <4>1, <4>3 DEF Segments
          <5>2. e = n.path BY <1>2, <2>1, <3>2, <4>1, <5>1, BothAbove
          <5> QED BY <3>1, <5>2 DEF OpenDir
        <4> QED BY <4>2, <4>3
      <3> QED BY <3>2, <3>3, <3>4 DEF RowsBelow
    <2> QED BY <2>2, <2>3
  <1>5. ASSUME NEW x \in RowsBelow(K, d)
        PROVE  \E n \in ToSet(tree[d]) : x \in PieceSet(K, n)
    <2>1. /\ x \in K /\ Below(d, x.path)
          /\ \A e \in Dirs(x.path) : Len(e) > Len(d) => e \in expanded
      BY DEF RowsBelow
    <2>2. Len(d) \in Nat /\ Len(x.path) \in Nat /\ Len(d) < Len(x.path)
      BY <1>1, <1>2, <2>1 DEF Segments, Below
    <2>3. CASE Len(x.path) = Len(d) + 1
      <3>1. d = Front(x.path) BY <1>1, <1>2, <2>1, <2>3, FrontIs
      <3>2. x \in PieceSet(K, x) BY DEF PieceSet
      <3> QED BY <1>3, <2>1, <3>1, <3>2
    <2>4. CASE Len(x.path) # Len(d) + 1
      <3> DEFINE e == SubSeq(x.path, 1, Len(d) + 1)
                 n == Node("dir", e)
      <3>1. Len(d) + 1 \in 0..Len(x.path) /\ Len(d) + 1 < Len(x.path) /\ Len(d) + 1 # 0
        BY <2>2, <2>4
      <3>2. /\ e \in Segments /\ Len(e) = Len(d) + 1
            /\ \A i \in 1..(Len(d) + 1) : e[i] = x.path[i]
        BY <1>2, <2>1, <3>1, CutIs
      <3> HIDE DEF e
      <3>3. e # <<>> BY <3>1, <3>2
      <3>4. Below(e, x.path) BY <3>1, <3>2 DEF Below
      <3>5. Below(d, e) BY <1>1, <1>2, <2>1, <2>2, <3>2, <3>4, BothAbove
      <3>6. e \in Dirs(x.path) BY <1>2, <2>1, <3>2, <3>3, <3>4, DirsIs
      <3>7. n \in K BY <2>1, <3>6 DEF Closed
      <3>8. n.path = e /\ n.kind = "dir" BY <3>2, <3>3, NodeIs
      <3>9. Front(e) = d BY <1>1, <3>2, <3>3, <3>5, FrontIs
      <3>10. n \in ToSet(tree[d]) BY <1>3, <3>7, <3>8, <3>9
      <3>11. e \in expanded BY <2>1, <2>2, <3>2, <3>6
      <3>12. OpenDir(n) BY <3>8, <3>11 DEF OpenDir
      <3>13. x \in RowsBelow(K, e)
        <4>1. \A c \in Dirs(x.path) : Len(c) > Len(e) => Len(c) > Len(d)
          BY <1>2, <2>1, <2>2, <3>2, DirsIs DEF Segments
        <4> QED BY <2>1, <3>4, <4>1 DEF RowsBelow
      <3>14. x \in PieceSet(K, n) BY <3>8, <3>12, <3>13 DEF PieceSet
      <3> QED BY <3>10, <3>14
    <2> QED BY <2>3, <2>4
  <1> QED BY <1>4, <1>5

\* A directory's rows are right if those of the directories in it are.
LEMMA FlattenedRows ==
  ASSUME NEW tree, NEW K, TreeOf(tree, K), Closed(K), NEW g, NEW d \in DOMAIN tree,
         \A e \in DOMAIN tree : Len(e) = Len(d) + 1 => RowsOK(K, e, g[e])
  PROVE  RowsOK(K, d, FlattenSeq(Pieces(tree, g, d)))
  <1> DEFINE c == tree[d]
             n == Len(c)
             q == Pieces(tree, g, d)
  <1>1. /\ n \in Nat /\ DOMAIN c = 1..n /\ IsInjective(c)
        /\ \A i \in 1..n : c[i] \in K /\ Front(c[i].path) = d
        /\ ToSet(c) = {c[i] : i \in 1..n}
    <2>1. c \in Seq(K) /\ IsInjective(c) /\ ToSet(c) = {m \in K : Front(m.path) = d}
      BY DEF TreeOf
    <2>2. n \in Nat /\ DOMAIN c = 1..n BY <2>1
    <2> HIDE DEF c, n
    <2>3. \A i \in 1..n : c[i] \in ToSet(c) BY <2>2 DEF ToSet
    <2> QED BY <2>1, <2>2, <2>3 DEF ToSet
  <1>2. \A i \in 1..n : Chain(d, q[i]) /\ ToSet(q[i]) = PieceSet(K, c[i])
    BY <1>1, PieceIs
  <1>3. q = [i \in 1..n |-> q[i]] BY <1>1 DEF Pieces
  <1> HIDE DEF c, n, q
  <1>4. q \in Seq(Seq(Nodes)) /\ Len(q) = n
    <2>1. \A i \in 1..n : q[i] \in Seq(Nodes) BY <1>2 DEF Chain
    <2> QED BY <1>1, <1>3, <2>1
  <1>5. PICK f : /\ f[0] = <<>>
                 /\ \A i \in 1..n : f[i] = f[i - 1] \o q[i]
                 /\ FlattenSeq(q) = f[n]
    BY <1>4, FlattenIs
  <1> DEFINE Good(m) == /\ Chain(d, f[m])
                        /\ \A x : x \in ToSet(f[m]) <=> \E j \in 1..m : x \in PieceSet(K, c[j])
             S == {m \in Nat : m <= n => Good(m)}
  <1>6. 0 \in S
    <2>1. Chain(d, <<>>) /\ ToSet(<<>>) = {}
      BY EmptyList DEF Chain
    <2> QED BY <1>5, <2>1
  <1>7. ASSUME NEW m \in Nat, m \in S PROVE m + 1 \in S
    <2> SUFFICES ASSUME m + 1 <= n PROVE Good(m + 1) OBVIOUS
    <2>1. m + 1 \in 1..n /\ m <= n /\ (m + 1) - 1 = m BY <1>1
    <2>2. Good(m) BY <1>7, <2>1
    <2>3. f[m + 1] = f[m] \o q[m + 1] BY <1>5, <2>1
    <2>4. Chain(d, q[m + 1]) /\ ToSet(q[m + 1]) = PieceSet(K, c[m + 1]) BY <1>2, <2>1
    <2>5. ASSUME NEW x \in ToSet(f[m]), x \in ToSet(q[m + 1]) PROVE FALSE
      <3>1. PICK j \in 1..m : x \in PieceSet(K, c[j]) BY <2>2, <2>5
      <3>2. j \in 1..n /\ j # m + 1 BY <2>1, <1>1
      <3>3. c[j] # c[m + 1] BY <1>1, <2>1, <3>2 DEF IsInjective
      <3>4. /\ c[j] \in K /\ Front(c[j].path) = d
            /\ c[m + 1] \in K /\ Front(c[m + 1].path) = d
        BY <1>1, <2>1, <3>2
      <3>5. K \in SUBSET Nodes BY DEF TreeOf
      <3>6. PieceSet(K, c[j]) \cap PieceSet(K, c[m + 1]) = {}
        BY <3>3, <3>4, <3>5, PiecesDisjoint
      <3> QED BY <2>4, <2>5, <3>1, <3>6
    <2>6. Apart(f[m], q[m + 1]) BY <2>5 DEF Apart
    <2>7. Chain(d, f[m] \o q[m + 1]) /\ Joins(f[m] \o q[m + 1], f[m], q[m + 1])
      <3>1. Chain(d, f[m]) /\ Chain(d, q[m + 1]) BY <2>2, <2>4
      <3> QED BY <3>1, <2>6, ChainJoined, Zenon
    <2>8. Chain(d, f[m + 1]) /\ ToSet(f[m + 1]) = ToSet(f[m]) \cup PieceSet(K, c[m + 1])
      BY <2>3, <2>4, <2>7, Zenon DEF Joins
    <2>9. ASSUME NEW x
          PROVE  x \in ToSet(f[m + 1]) <=> \E j \in 1..(m + 1) : x \in PieceSet(K, c[j])
      <3>1. 1..(m + 1) = 1..m \cup {m + 1} OBVIOUS
      <3>2. (\E j \in 1..(m + 1) : x \in PieceSet(K, c[j]))
              <=> (\E j \in 1..m : x \in PieceSet(K, c[j])) \/ x \in PieceSet(K, c[m + 1])
        BY <3>1
      <3>3. x \in ToSet(f[m]) <=> \E j \in 1..m : x \in PieceSet(K, c[j]) BY <2>2
      <3>4. x \in ToSet(f[m + 1]) <=> x \in ToSet(f[m]) \/ x \in PieceSet(K, c[m + 1])
        BY <2>8
      <3> QED BY <3>2, <3>3, <3>4
    <2> QED BY <2>8, <2>9
  <1> HIDE DEF S
  <1>8. n \in S BY <1>1, <1>6, <1>7, Induct
  <1>9. Good(n) BY <1>1, <1>8 DEF S
  <1>10. /\ \A m \in ToSet(c) : PieceSet(K, m) \subseteq RowsBelow(K, d)
         /\ \A x \in RowsBelow(K, d) : \E m \in ToSet(c) : x \in PieceSet(K, m)
    BY SplitBelow DEF c
  <1>11. ToSet(f[n]) = RowsBelow(K, d)
    <2>1. ASSUME NEW x \in ToSet(f[n]) PROVE x \in RowsBelow(K, d)
      <3>1. PICK j \in 1..n : x \in PieceSet(K, c[j]) BY <1>9, <2>1
      <3>2. c[j] \in ToSet(c) BY <1>1
      <3> QED BY <1>10, <3>1, <3>2
    <2>2. ASSUME NEW x \in RowsBelow(K, d) PROVE x \in ToSet(f[n])
      <3>1. PICK m \in ToSet(c) : x \in PieceSet(K, m) BY <1>10
      <3>2. PICK j \in 1..n : m = c[j] BY <1>1
      <3> QED BY <1>9, <3>1, <3>2
    <2> QED BY <2>1, <2>2
  <1> QED BY <1>5, <1>9, <1>11 DEF RowsOK, q

\* The rows of a directory depend on those of the directories in it only.
LEMMA PiecesSame ==
  ASSUME NEW tree, NEW K, TreeOf(tree, K), NEW g, NEW h, NEW d \in DOMAIN tree,
         \A e \in DOMAIN tree : Len(e) = Len(d) + 1 => g[e] = h[e]
  PROVE  Pieces(tree, g, d) = Pieces(tree, h, d)
  <1>1. ASSUME NEW i \in DOMAIN tree[d], OpenDir(tree[d][i])
        PROVE  g[tree[d][i].path] = h[tree[d][i].path]
    <2> DEFINE n == tree[d][i]
    <2>1. n \in ToSet(tree[d]) BY DEF ToSet
    <2>2. n \in K /\ Front(n.path) = d BY <2>1 DEF TreeOf
    <2> HIDE DEF n
    <2>3. n \in Nodes /\ n.path \in Segments /\ n.path # <<>> BY <2>2 DEF TreeOf, Nodes
    <2>4. n = Node("dir", n.path) BY <1>1, <2>3, DirNode DEF OpenDir, n
    <2>5. n.path \in DOMAIN tree BY <2>2, <2>3, <2>4 DEF TreeOf
    <2>6. Len(n.path) = Len(d) + 1 BY <2>2, <2>3, FrontIs
    <2> QED BY <2>5, <2>6 DEF n
  <1> QED BY <1>1 DEF Pieces, OpenDir

\* One step of the recursion behind Rows.
RowsStep(tree, D, g) == [dir \in D |-> FlattenSeq(Pieces(tree, g, dir))]

\* The directories at most n levels above level M.
Layer(tree, M, n) == {d \in DOMAIN tree : Len(d) + n >= M}

LEMMA LayerIs ==
  ASSUME NEW tree, NEW K, TreeOf(tree, K), NEW M \in Nat, NEW n \in Nat,
         NEW d \in Layer(tree, M, n + 1)
  PROVE  /\ d \in DOMAIN tree /\ d \in Segments
         /\ \A e \in DOMAIN tree : Len(e) = Len(d) + 1 => e \in Layer(tree, M, n)
  <1>1. \A e \in DOMAIN tree : e \in Segments
    <2>1. <<>> \in Segments BY DEF Segments
    <2> QED BY <2>1 DEF TreeOf
  <1>2. d \in DOMAIN tree /\ Len(d) + (n + 1) >= M BY DEF Layer
  <1>3. Len(d) \in Nat BY <1>1, <1>2 DEF Segments
  <1>4. ASSUME NEW e \in DOMAIN tree, Len(e) = Len(d) + 1 PROVE e \in Layer(tree, M, n)
    <2>1. Len(e) + n >= M BY <1>2, <1>3, <1>4
    <2> QED BY <2>1 DEF Layer
  <1> QED BY <1>1, <1>2, <1>4

LEMMA RowsExist ==
  ASSUME NEW tree, NEW K, TreeOf(tree, K), NEW M \in Nat, Layer(tree, M, 0) = {},
         NEW n \in Nat
  PROVE  \E g : g = RowsStep(tree, Layer(tree, M, n), g)
  <1> DEFINE S == {m \in Nat : \E g : g = RowsStep(tree, Layer(tree, M, m), g)}
  <1>1. 0 \in S
    <2> DEFINE g == [d \in {} |-> <<>>]
    <2>1. g = RowsStep(tree, {}, g) BY DEF RowsStep
    <2> QED BY <2>1
  <1>2. ASSUME NEW m \in Nat, m \in S PROVE m + 1 \in S
    <2> DEFINE D == Layer(tree, M, m)
               E == Layer(tree, M, m + 1)
    <2>1. PICK g : g = RowsStep(tree, D, g) BY <1>2
    <2> DEFINE h == [d \in E |-> IF d \in D THEN g[d] ELSE FlattenSeq(Pieces(tree, g, d))]
    <2>2. \A d \in D : g[d] = FlattenSeq(Pieces(tree, g, d)) BY <2>1 DEF RowsStep
    <2>3. D \subseteq E
      <3>1. ASSUME NEW d \in D PROVE d \in E
        <4>1. d \in DOMAIN tree /\ Len(d) + m >= M BY DEF Layer
        <4>2. d \in Segments
          <5>1. <<>> \in Segments BY DEF Segments
          <5> QED BY <4>1, <5>1 DEF TreeOf
        <4>3. Len(d) \in Nat BY <4>2 DEF Segments
        <4>4. Len(d) + (m + 1) >= M BY <4>1, <4>3
        <4> QED BY <4>1, <4>4 DEF Layer
      <3> QED BY <3>1
    <2>4. \A d \in D : h[d] = g[d] BY <2>3
    <2>5. \A d \in E : h[d] = FlattenSeq(Pieces(tree, g, d)) BY <2>2
    <2>6. DOMAIN h = E /\ h = [d \in E |-> h[d]] OBVIOUS
    <2> HIDE DEF h
    <2>7. ASSUME NEW d \in E PROVE h[d] = FlattenSeq(Pieces(tree, h, d))
      <3>1. /\ d \in DOMAIN tree
            /\ \A e \in DOMAIN tree : Len(e) = Len(d) + 1 => e \in D
        BY LayerIs
      <3>2. \A e \in DOMAIN tree : Len(e) = Len(d) + 1 => g[e] = h[e] BY <2>4, <3>1
      <3> HIDE DEF D, E
      <3>3. Pieces(tree, g, d) = Pieces(tree, h, d) BY <3>1, <3>2, PiecesSame
      <3> QED BY <2>5, <3>3
    <2>8. h = RowsStep(tree, E, h)
      <3> HIDE DEF E
      <3> QED BY <2>6, <2>7 DEF RowsStep
    <2> QED BY <2>8
  <1> HIDE DEF S
  <1>3. n \in S BY <1>1, <1>2, Induct
  <1> QED BY <1>3 DEF S

\* The rows of a tree are what its expanded directories show.
LEMMA TreeNodesIs ==
  ASSUME NEW tree, NEW K, TreeOf(tree, K), Closed(K), NEW M \in Nat, Layer(tree, M, 0) = {}
  PROVE  RowsOK(K, <<>>, TreeNodes(tree))
  <1> DEFINE g == CHOOSE f : f = RowsStep(tree, DOMAIN tree, f)
  <1>1. \A e \in DOMAIN tree : e \in Segments /\ Len(e) \in Nat
    <2>1. <<>> \in Segments BY DEF Segments
    <2>2. \A e \in DOMAIN tree : e \in Segments BY <2>1 DEF TreeOf
    <2> QED BY <2>2 DEF Segments
  <1>2. Layer(tree, M, M) = DOMAIN tree
    <2>1. \A e \in DOMAIN tree : Len(e) + M >= M BY <1>1
    <2> QED BY <2>1 DEF Layer
  <1>3. \E f : f = RowsStep(tree, DOMAIN tree, f) BY <1>2, RowsExist
  <1>4. g = RowsStep(tree, DOMAIN tree, g) BY <1>3
  <1>5. TreeNodes(tree) = g[<<>>] BY DEF TreeNodes, RowsStep, Pieces
  <1> HIDE DEF g
  <1>6. \A d \in DOMAIN tree : g[d] = FlattenSeq(Pieces(tree, g, d)) BY <1>4 DEF RowsStep
  <1> DEFINE S == {n \in Nat : \A d \in Layer(tree, M, n) : RowsOK(K, d, g[d])}
  <1>7. 0 \in S OBVIOUS
  <1>8. ASSUME NEW n \in Nat, n \in S PROVE n + 1 \in S
    <2> SUFFICES ASSUME NEW d \in Layer(tree, M, n + 1) PROVE RowsOK(K, d, g[d])
      OBVIOUS
    <2>1. /\ d \in DOMAIN tree
          /\ \A e \in DOMAIN tree : Len(e) = Len(d) + 1 => e \in Layer(tree, M, n)
      BY LayerIs
    <2>2. \A e \in DOMAIN tree : Len(e) = Len(d) + 1 => RowsOK(K, e, g[e]) BY <1>8, <2>1
    <2> HIDE DEF S
    <2>3. RowsOK(K, d, FlattenSeq(Pieces(tree, g, d))) BY <2>1, <2>2, FlattenedRows
    <2> QED BY <1>6, <2>1, <2>3
  <1> HIDE DEF S
  <1>9. M \in S BY <1>7, <1>8, Induct
  <1>10. <<>> \in DOMAIN tree BY DEF TreeOf
  <1>11. RowsOK(K, <<>>, g[<<>>]) BY <1>2, <1>9, <1>10 DEF S
  <1> QED BY <1>5, <1>11

\* There is a level below all paths.
LEMMA Depth ==
  \E M \in Nat : \A p \in Paths : Len(p) < M
  <1> DEFINE N == Len(PathOrder)
             S == {n \in Nat : n <= N => \E M \in Nat : \A i \in 1..n : Len(PathOrder[i]) < M}
  <1>1. N \in Nat /\ DOMAIN PathOrder = 1..N /\ \A i \in 1..N : Len(PathOrder[i]) \in Nat
    BY FileTreeAssumption
  <1> HIDE DEF N
  <1>2. 0 \in S OBVIOUS
  <1>3. ASSUME NEW n \in Nat, n \in S PROVE n + 1 \in S
    <2> SUFFICES ASSUME n + 1 <= N PROVE \E M \in Nat : \A i \in 1..(n + 1) : Len(PathOrder[i]) < M
      OBVIOUS
    <2>1. n <= N /\ n + 1 \in 1..N BY <1>1
    <2>2. PICK M \in Nat : \A i \in 1..n : Len(PathOrder[i]) < M BY <1>3, <2>1
    <2> DEFINE L == M + Len(PathOrder[n + 1]) + 1
    <2>3. Len(PathOrder[n + 1]) \in Nat BY <1>1, <2>1
    <2>4. L \in Nat BY <2>3
    <2>5. ASSUME NEW i \in 1..(n + 1) PROVE Len(PathOrder[i]) < L
      <3>1. CASE i = n + 1 BY <2>3, <3>1
      <3>2. CASE i # n + 1
        <4>1. i \in 1..n /\ i \in 1..N BY <2>1, <3>2, <1>1
        <4>2. Len(PathOrder[i]) < M /\ Len(PathOrder[i]) \in Nat BY <1>1, <2>2, <4>1
        <4> QED BY <2>3, <4>2
      <3> QED BY <3>1, <3>2
    <2> QED BY <2>4, <2>5
  <1> HIDE DEF S
  <1>4. N \in S BY <1>1, <1>2, <1>3, Induct
  <1>5. PICK M \in Nat : \A i \in 1..N : Len(PathOrder[i]) < M BY <1>1, <1>4 DEF S
  <1>6. \A p \in Paths : Len(p) < M BY <1>1, <1>5 DEF Paths, ToSet
  <1> QED BY <1>6

\* The rows of a listing.
LEMMA RowsOfListing ==
  ASSUME NEW paths \in SUBSET Paths
  PROVE  RowsOK(KnownOf(paths), <<>>, TreeNodes(buildTree(paths)))
  <1> DEFINE K == KnownOf(paths)
             tree == buildTree(paths)
  <1>1. TreeOf(tree, K) BY BuildTreeIs
  <1>2. Closed(K) BY KnownClosed DEF Closed
  <1>3. PICK M \in Nat : \A p \in Paths : Len(p) < M BY Depth
  <1>4. \A p \in Paths : p \in Segments BY FileTreeAssumption DEF Paths, ToSet, Segments
  <1>5. ASSUME NEW d \in DOMAIN tree PROVE Len(d) \in Nat /\ Len(d) < M + 1
    <2>1. CASE d = <<>> BY <2>1, <1>3
    <2>2. CASE d # <<>>
      <3>1. d \in Segments /\ Node("dir", d) \in K BY <1>1, <2>2 DEF TreeOf
      <3>2. PICK p \in paths : d \in Dirs(p)
        <4>1. \A q : Node("dir", d) # Node("file", q) BY DEF Node
        <4>2. \A e : Node("dir", d) = Node("dir", e) => d = e BY DEF Node
        <4> QED BY <3>1, <4>1, <4>2 DEF KnownOf
      <3>3. Below(d, p) /\ Len(p) < M /\ p \in Segments BY <1>3, <1>4, <3>2, DirsIs
      <3> QED BY <3>1, <3>3 DEF Below, Segments
    <2> QED BY <2>1, <2>2
  <1> HIDE DEF K, tree
  <1>6. Layer(tree, M + 1, 0) = {} BY <1>5 DEF Layer
  <1> QED BY <1>1, <1>2, <1>6, TreeNodesIs DEF K, tree

LEMMA RowsAreFaithful ==
  ASSUME TypeOK PROVE RowsFaithful
  <1> SUFFICES ASSUME session # 0 PROVE RowsFaithful BY DEF RowsFaithful
  <1> DEFINE F == displayEntries
             K == KnownOf(F)
             rows == Rows
  <1>1. F \in SUBSET Paths BY DEF TypeOK, Listings, Sessions, displayEntries
  <1>2. RowsOK(K, <<>>, rows)
    <2>1. CASE F # {}
      <3>1. Pane = "tree" BY <2>1 DEF Pane
      <3>2. rows = TreeNodes(buildTree(F)) BY <3>1 DEF Rows
      <3> QED BY <1>1, <3>2, RowsOfListing
    <2>2. CASE F = {}
      <3>1. Pane # "tree" BY <2>2 DEF Pane
      <3>2. rows = <<>> BY <3>1 DEF Rows
      <3>3. K = {} BY <2>2 DEF KnownOf
      <3>4. RowsBelow(K, <<>>) = {} BY <3>3 DEF RowsBelow
      <3>5. Chain(<<>>, <<>>) /\ ToSet(<<>>) = {} BY EmptyList DEF Chain
      <3> QED BY <3>2, <3>4, <3>5 DEF RowsOK
    <2> QED BY <2>1, <2>2
  <1> HIDE DEF F, rows
  <1>3. \A n \in K : n.path \in Segments /\ n.path # <<>>
    <2>1. K \subseteq Nodes BY <1>1, BuildTreeIs DEF TreeOf
    <2> QED BY <2>1 DEF Nodes
  <1>4. ToSet(rows) = {n \in K : Dirs(n.path) \subseteq expanded}
    <2>1. ASSUME NEW n \in K
          PROVE  n \in RowsBelow(K, <<>>) <=> Dirs(n.path) \subseteq expanded
      <3>1. Len(n.path) \in Nat /\ Len(n.path) # 0 BY <1>3 DEF Segments
      <3>2. Below(<<>>, n.path) BY <3>1 DEF Below
      <3>3. \A e \in Dirs(n.path) : Len(e) > Len(<<>>)
        <4>1. \A e \in Segments : e # <<>> => Len(e) > 0 BY DEF Segments
        <4> QED BY <1>3, <4>1, DirsIs
      <3> QED BY <3>2, <3>3 DEF RowsBelow
    <2>2. RowsBelow(K, <<>>) \subseteq K BY DEF RowsBelow
    <2> QED BY <1>2, <2>1, <2>2 DEF RowsOK
  <1>5. IsInjective(rows) BY <1>2 DEF RowsOK, Chain
  <1>6. ASSUME NEW i \in DOMAIN rows, Len(rows[i].path) > 1 PROVE Follows(rows, i)
    <2>1. rows[i] \in Nodes BY <1>2 DEF RowsOK, Chain
    <2>2. rows[i].path \in Segments /\ rows[i].path # <<>> BY <2>1 DEF Nodes
    <2>3. Front(rows[i].path) # <<>> BY <1>6, <2>2, FrontIs
    <2> QED BY <1>2, <2>3 DEF RowsOK, Chain
  <1>7. K = {Node("file", p) : p \in F} \cup {Node("dir", d) : d \in UNION {Dirs(p) : p \in F}}
    BY DEF KnownOf
  <1> HIDE DEF K
  <1> QED BY <1>4, <1>5, <1>6, <1>7 DEF RowsFaithful, Follows, F, rows

\* The rows on the screen are the listing, for every listing, every nesting and
\* every history of toggles: no node is lost or drawn twice, and each stands with
\* its directory.
THEOREM RowsHold == Spec => []RowsFaithful
  <1>1. TypeOK => RowsFaithful BY RowsAreFaithful
  <1> QED BY <1>1, TypeCorrect, PTL
=============================================================================
