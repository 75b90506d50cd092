---------------------------- MODULE SandboxProofs ----------------------------
(***************************************************************************)
(* Safety of the sandboxes of the worker.  The file system inside one, for *)
(* every set of paths, list of iovecs, quota and capacity; and the pool    *)
(* that hands them out, for every number of requests, slots and permits.   *)
(***************************************************************************)
EXTENDS SandboxPool, Vfs, FiniteSetTheorems, WellFoundedInduction, TLAPS

-----------------------------------------------------------------------------
(***************************************************************************)
(* The file system.                                                        *)
(***************************************************************************)

\* Every nonempty set of numbers has a least one.
LEMMA LeastNumber ==
  ASSUME NEW T, T \subseteq Nat, T # {}
  PROVE  \E x \in T : \A y \in T : x <= y
  <1> DEFINE R == {ss \in Nat \X Nat : ss[1] < ss[2]}
  <1>1. IsWellFoundedOn(R, Nat) BY NatLessThanWellFounded DEF OpToRel
  <1>2. PICK x \in T : \A y \in T : ~(<<y, x>> \in R)
    <2> HIDE DEF R
    <2> QED BY <1>1, WFMin
  <1>3. ASSUME NEW y \in T PROVE x <= y
    <2>1. ~(<<y, x>> \in R) BY <1>2
    <2>2. <<y, x>> \in Nat \X Nat /\ <<y, x>>[1] = y /\ <<y, x>>[2] = x BY Zenon
    <2>3. ~(y < x) BY <2>1, <2>2
    <2>4. x \in Int /\ y \in Int OBVIOUS
    <2> QED BY <2>3, <2>4
  <1> QED BY <1>3

\* Induction over a set that holds the numbers for which something is true.
LEMMA Induct ==
  ASSUME NEW S, 0 \in S, \A n \in Nat : n \in S => n + 1 \in S
  PROVE  Nat \subseteq S
  <1> SUFFICES ASSUME Nat \ S # {} PROVE FALSE OBVIOUS
  <1>1. PICK x \in Nat \ S : \A y \in Nat \ S : x <= y
    <2> DEFINE T == Nat \ S
    <2>1. T \subseteq Nat /\ T # {} OBVIOUS
    <2> HIDE DEF T
    <2>2. \E x \in T : \A y \in T : x <= y BY <2>1, LeastNumber
    <2> QED BY <2>2 DEF T
  <1>2. x # 0 OBVIOUS
  <1>3. x - 1 \in Nat /\ ~(x <= x - 1) /\ (x - 1) + 1 = x BY <1>2
  <1>4. x - 1 \in S BY <1>1, <1>3
  <1> QED BY <1>3, <1>4

-----------------------------------------------------------------------------
(* Path resolution: the recursion of Canonicalise and what it computes. *)

Accs == [ok : BOOLEAN, parts : Seq(Components)]
NoComponents == [ok |-> TRUE, parts |-> <<>>]
AfterStep(raw, m, g) ==
  [i \in 0 .. m |-> IF i = 0 THEN NoComponents ELSE TakeComponent(g[i - 1], raw[i])]

\* The recursion of Canonicalise has a solution: one for a prefix extends to
\* the next component.
LEMMA AfterExists ==
  ASSUME NEW raw, NEW n \in Nat
  PROVE  \E g : g = AfterStep(raw, n, g)
  <1> DEFINE S == {m \in Nat : \E g : g = AfterStep(raw, m, g)}
  <1>1. 0 \in S
    <2> DEFINE g == [i \in 0 .. 0 |-> NoComponents]
    <2>1. g = AfterStep(raw, 0, g) BY DEF AfterStep
    <2> QED BY <2>1
  <1>2. ASSUME NEW m \in Nat, m \in S PROVE m + 1 \in S
    <2>1. PICK g : g = AfterStep(raw, m, g) BY <1>2
    <2> DEFINE h == [i \in 0 .. m + 1 |-> IF i <= m THEN g[i] ELSE TakeComponent(g[m], raw[m + 1])]
    <2>2. \A i \in 0 .. m : g[i] = IF i = 0 THEN NoComponents ELSE TakeComponent(g[i - 1], raw[i])
      BY <2>1 DEF AfterStep
    <2>3. \A i \in 0 .. m : h[i] = g[i] OBVIOUS
    <2>4. h[m + 1] = TakeComponent(h[m], raw[m + 1]) OBVIOUS
    <2>5. ASSUME NEW i \in 0 .. m + 1
          PROVE  h[i] = IF i = 0 THEN NoComponents ELSE TakeComponent(h[i - 1], raw[i])
      <3>1. CASE i = m + 1 BY <2>4, <3>1
      <3>2. CASE i = 0 BY <2>2, <2>3, <3>2
      <3>3. CASE i # 0 /\ i # m + 1
        <4>1. i \in 0 .. m /\ i - 1 \in 0 .. m BY <3>3
        <4> HIDE DEF h
        <4> QED BY <2>2, <2>3, <3>3, <4>1
      <3> QED BY <3>1, <3>2, <3>3
    <2>6. h = [i \in 0 .. m + 1 |-> h[i]] OBVIOUS
    <2>7. h = AfterStep(raw, m + 1, h)
      <3> HIDE DEF h
      <3> QED BY <2>5, <2>6 DEF AfterStep
    <2> QED BY <2>7
  <1> HIDE DEF S
  <1>3. n \in S BY <1>1, <1>2, Induct
  <1> QED BY <1>3 DEF S

LEMMA CanonicaliseIs ==
  ASSUME NEW raw \in Seq(Components)
  PROVE  \E g : /\ g[0] = NoComponents
                /\ \A i \in 1 .. Len(raw) : g[i] = TakeComponent(g[i - 1], raw[i])
                /\ Canonicalise(raw) = g[Len(raw)]
  <1> DEFINE g == CHOOSE h : h = AfterStep(raw, Len(raw), h)
  <1>1. Len(raw) \in Nat OBVIOUS
  <1>2. g = AfterStep(raw, Len(raw), g) BY <1>1, AfterExists
  <1>3. Canonicalise(raw) = g[Len(raw)] BY DEF Canonicalise, AfterStep, NoComponents
  <1> HIDE DEF g
  <1>4. \A i \in 0 .. Len(raw) :
          g[i] = IF i = 0 THEN NoComponents ELSE TakeComponent(g[i - 1], raw[i])
    BY <1>2 DEF AfterStep
  <1>5. g[0] = NoComponents /\ \A i \in 1 .. Len(raw) : g[i] = TakeComponent(g[i - 1], raw[i])
    BY <1>1, <1>4
  <1> QED BY <1>3, <1>5

LEMMA TakeComponentType ==
  ASSUME NEW acc \in Accs, NEW component \in Components
  PROVE  TakeComponent(acc, component) \in Accs
  <1>1. acc.ok \in BOOLEAN /\ acc.parts \in Seq(Components) BY DEF Accs
  <1>2. CASE ~acc.ok \/ component \in {"", "."} BY <1>2 DEF TakeComponent
  <1>3. CASE acc.ok /\ component = ".."
    <2>1. [acc EXCEPT !.ok = FALSE] \in Accs BY DEF Accs
    <2>2. ASSUME acc.parts # <<>> PROVE Front(acc.parts) \in Seq(Components)
      BY <1>1, <2>2 DEF Front
    <2>3. acc.parts # <<>> => [acc EXCEPT !.parts = Front(@)] \in Accs BY <2>2 DEF Accs
    <2> QED BY <1>3, <2>1, <2>3 DEF TakeComponent
  <1>4. CASE acc.ok /\ component \notin {"", ".", ".."}
    <2>1. Append(acc.parts, component) \in Seq(Components) BY <1>1
    <2>2. [acc EXCEPT !.parts = Append(@, component)] \in Accs BY <2>1 DEF Accs
    <2> QED BY <1>4, <2>2 DEF TakeComponent
  <1> QED BY <1>1, <1>2, <1>3, <1>4

NameAt(raw, i) == raw[i] \notin {"", ".", ".."}
DepthAt(raw, j) ==
  Cardinality({k \in 1 .. j : NameAt(raw, k)}) - Cardinality({k \in 1 .. j : raw[k] = ".."})

LEMMA CountStep ==
  ASSUME NEW M, NEW j \in Nat
  PROVE  /\ Cardinality((1 .. j) \cap M) \in Nat
         /\ Cardinality((1 .. j + 1) \cap M)
              = Cardinality((1 .. j) \cap M) + (IF j + 1 \in M THEN 1 ELSE 0)
  <1> DEFINE A == (1 .. j) \cap M
             B == (1 .. j + 1) \cap M
  <1>1. IsFiniteSet(A)
    <2>1. IsFiniteSet(1 .. j) BY FS_Interval
    <2> QED BY <2>1, FS_Subset
  <1>2. Cardinality(A) \in Nat BY <1>1, FS_CardinalityType
  <1>3. CASE j + 1 \in M
    <2>1. B = A \cup {j + 1} /\ j + 1 \notin A BY <1>3
    <2> HIDE DEF A, B
    <2>2. Cardinality(B) = Cardinality(A) + 1 BY <1>1, <2>1, FS_AddElement
    <2> QED BY <1>2, <1>3, <2>2 DEF A, B
  <1>4. CASE j + 1 \notin M
    <2>1. B = A BY <1>4
    <2> QED BY <1>2, <1>4, <2>1
  <1> QED BY <1>2, <1>3, <1>4

LEMMA DepthStep ==
  ASSUME NEW raw \in Seq(Components)
  PROVE  /\ DepthAt(raw, 0) = 0
         /\ \A j \in Nat :
              /\ DepthAt(raw, j) \in Int
              /\ DepthAt(raw, j + 1) = DepthAt(raw, j)
                   + (IF NameAt(raw, j + 1) THEN 1 ELSE IF raw[j + 1] = ".." THEN -1 ELSE 0)
  <1> DEFINE N == {k \in Nat : NameAt(raw, k)}
             U == {k \in Nat : raw[k] = ".."}
  <1>1. \A j \in Nat : /\ {k \in 1 .. j : NameAt(raw, k)} = (1 .. j) \cap N
                       /\ {k \in 1 .. j : raw[k] = ".."} = (1 .. j) \cap U
    OBVIOUS
  <1>2. \A j \in Nat : DepthAt(raw, j) = Cardinality((1 .. j) \cap N) - Cardinality((1 .. j) \cap U)
    <2> HIDE DEF N, U
    <2> QED BY <1>1 DEF DepthAt
  <1>3. \A k \in Nat : k \in N <=> NameAt(raw, k) OBVIOUS
  <1>4. \A k \in Nat : k \in U <=> raw[k] = ".." OBVIOUS
  <1>5. \A k \in Nat : ~(k \in U /\ k \in N) BY <1>3, <1>4 DEF NameAt
  <1> HIDE DEF N, U
  <1>6. DepthAt(raw, 0) = 0
    <2>1. (1 .. 0) \cap N = {} /\ (1 .. 0) \cap U = {} OBVIOUS
    <2>2. Cardinality({}) = 0 BY FS_EmptySet
    <2>3. DepthAt(raw, 0) = Cardinality((1 .. 0) \cap N) - Cardinality((1 .. 0) \cap U)
      BY <1>2
    <2> QED BY <2>1, <2>2, <2>3
  <1>7. ASSUME NEW j \in Nat
        PROVE  /\ DepthAt(raw, j) \in Int
               /\ DepthAt(raw, j + 1) = DepthAt(raw, j)
                   + (IF NameAt(raw, j + 1) THEN 1 ELSE IF raw[j + 1] = ".." THEN -1 ELSE 0)
    <2> DEFINE c == Cardinality((1 .. j) \cap N)
               d == Cardinality((1 .. j) \cap U)
    <2>1. /\ c \in Nat
          /\ Cardinality((1 .. j + 1) \cap N) = c + (IF j + 1 \in N THEN 1 ELSE 0)
      BY CountStep
    <2>2. /\ d \in Nat
          /\ Cardinality((1 .. j + 1) \cap U) = d + (IF j + 1 \in U THEN 1 ELSE 0)
      BY CountStep
    <2>3. j + 1 \in Nat OBVIOUS
    <2>4. DepthAt(raw, j) = c - d BY <1>2
    <2>5. DepthAt(raw, j + 1) = (c + (IF j + 1 \in N THEN 1 ELSE 0)) - (d + (IF j + 1 \in U THEN 1 ELSE 0))
      BY <1>2, <2>1, <2>2, <2>3
    <2> HIDE DEF c, d
    <2>6. DepthAt(raw, j) \in Int BY <2>1, <2>2, <2>4
    <2>7. CASE NameAt(raw, j + 1)
      <3>1. j + 1 \in N /\ j + 1 \notin U BY <1>3, <1>5, <2>3, <2>7
      <3>2. DepthAt(raw, j + 1) = DepthAt(raw, j) + 1 BY <2>1, <2>2, <2>4, <2>5, <3>1
      <3> QED BY <2>6, <2>7, <3>2
    <2>8. CASE ~NameAt(raw, j + 1) /\ raw[j + 1] = ".."
      <3>1. j + 1 \notin N /\ j + 1 \in U BY <1>3, <1>4, <2>3, <2>8
      <3>2. DepthAt(raw, j + 1) = DepthAt(raw, j) - 1 BY <2>1, <2>2, <2>4, <2>5, <3>1
      <3> QED BY <2>6, <2>8, <3>2
    <2>9. CASE ~NameAt(raw, j + 1) /\ raw[j + 1] # ".."
      <3>1. j + 1 \notin N /\ j + 1 \notin U BY <1>3, <1>4, <2>3, <2>9
      <3>2. DepthAt(raw, j + 1) = DepthAt(raw, j) BY <2>1, <2>2, <2>4, <2>5, <3>1
      <3> QED BY <2>6, <2>9, <3>2
    <2> QED BY <2>7, <2>8, <2>9
  <1> QED BY <1>6, <1>7

\* e is the last name among the first i components that enters the level.
EntersLast(raw, i, level, e) ==
  /\ e \in 1 .. i /\ NameAt(raw, e) /\ DepthAt(raw, e) = level
  /\ \A k \in 1 .. i : NameAt(raw, k) /\ DepthAt(raw, k) = level => k <= e

\* What the first i components leave, by the reference.
Resolved(raw, i, acc) ==
  /\ acc \in Accs
  /\ acc.ok <=> \A j \in 1 .. i : DepthAt(raw, j) >= 0
  /\ acc.ok => /\ Len(acc.parts) = DepthAt(raw, i)
               /\ \A level \in 1 .. Len(acc.parts) :
                    \E e \in 1 .. i : EntersLast(raw, i, level, e) /\ acc.parts[level] = raw[e]

LEMMA ResolvedStep ==
  ASSUME NEW raw \in Seq(Components), NEW i \in Nat, i + 1 <= Len(raw), NEW acc, Resolved(raw, i, acc)
  PROVE  Resolved(raw, i + 1, TakeComponent(acc, raw[i + 1]))
  <1> DEFINE new == TakeComponent(acc, raw[i + 1])
             component == raw[i + 1]
  <1> SUFFICES Resolved(raw, i + 1, new) OBVIOUS
  <1>1. component \in Components OBVIOUS
  <1>2. acc \in Accs /\ acc.ok \in BOOLEAN /\ acc.parts \in Seq(Components) BY DEF Resolved, Accs
  <1>3. new \in Accs BY <1>1, <1>2, TakeComponentType
  <1>4. DepthAt(raw, i) \in Int /\ DepthAt(raw, i + 1) \in Int BY DepthStep
  <1>5. \A j \in 1 .. i + 1 : j \in 1 .. i \/ j = i + 1 OBVIOUS
  <1>6. \A j \in 1 .. i : j \in 1 .. i + 1 /\ j <= i + 1 /\ j # i + 1 OBVIOUS
  <1>7. i + 1 \in 1 .. i + 1 OBVIOUS
  <1>8. CASE ~acc.ok
    <2>1. new = acc BY <1>8 DEF TakeComponent
    <2>2. ~\A j \in 1 .. i : DepthAt(raw, j) >= 0 BY <1>8 DEF Resolved
    <2>3. ~\A j \in 1 .. i + 1 : DepthAt(raw, j) >= 0 BY <2>2, <1>6
    <2> QED BY <1>2, <1>8, <2>1, <2>3 DEF Resolved
  <1>9. CASE acc.ok
    <2>1. /\ \A j \in 1 .. i : DepthAt(raw, j) >= 0
          /\ Len(acc.parts) = DepthAt(raw, i) /\ DepthAt(raw, i) \in Nat
      BY <1>2, <1>9 DEF Resolved
    <2>2. \A level \in 1 .. Len(acc.parts) :
            \E e \in 1 .. i : EntersLast(raw, i, level, e) /\ acc.parts[level] = raw[e]
      BY <1>9 DEF Resolved
    <2>3. (\A j \in 1 .. i + 1 : DepthAt(raw, j) >= 0) <=> DepthAt(raw, i + 1) >= 0
      BY <1>5, <1>7, <2>1
    \* A level the new component does not enter keeps its last name.
    <2>4. ASSUME NEW level \in 1 .. Len(acc.parts), ~NameAt(raw, i + 1) \/ DepthAt(raw, i + 1) # level
          PROVE  \E e \in 1 .. i + 1 : EntersLast(raw, i + 1, level, e) /\ acc.parts[level] = raw[e]
      <3>1. PICK e \in 1 .. i : EntersLast(raw, i, level, e) /\ acc.parts[level] = raw[e]
        BY <2>2
      <3>2. e \in 1 .. i + 1 BY <1>6
      <3>3. EntersLast(raw, i + 1, level, e) BY <1>5, <2>4, <3>1, <3>2 DEF EntersLast
      <3> QED BY <3>1, <3>2, <3>3
    <2>5. CASE component \in {"", "."}
      <3>1. new = acc /\ ~NameAt(raw, i + 1) /\ raw[i + 1] # ".."
        BY <2>5 DEF TakeComponent, NameAt
      <3> HIDE DEF new, component
      <3>0. DepthAt(raw, i + 1) = DepthAt(raw, i) + 0 BY <3>1, DepthStep
      <3>2. DepthAt(raw, i + 1) = DepthAt(raw, i) BY <1>4, <3>0
      <3>3. new.ok /\ DepthAt(raw, i + 1) >= 0 /\ Len(new.parts) = DepthAt(raw, i + 1)
        BY <1>9, <2>1, <3>1, <3>2
      <3> HIDE DEF new, component
      <3> QED BY <1>3, <2>3, <2>4, <3>1, <3>3 DEF Resolved
    <2>6. CASE component = ".."
      <3>1. ~NameAt(raw, i + 1) BY <2>6 DEF NameAt
      <3>2. DepthAt(raw, i + 1) = DepthAt(raw, i) - 1 BY <2>6, <3>1, DepthStep
      <3>3. CASE acc.parts = <<>>
        <4>1. new = [acc EXCEPT !.ok = FALSE] BY <1>9, <2>6, <3>3 DEF TakeComponent
        <4>2. ~new.ok BY <4>1, <1>2 DEF Accs
        <4>3. ~(DepthAt(raw, i + 1) >= 0) BY <2>1, <3>2, <3>3
        <4> HIDE DEF new
        <4> QED BY <1>3, <2>3, <4>2, <4>3 DEF Resolved
      <3>4. CASE acc.parts # <<>>
        <4>1. new = [acc EXCEPT !.parts = Front(@)] BY <1>9, <2>6, <3>4 DEF TakeComponent
        <4>2. new.ok /\ new.parts = Front(acc.parts) BY <1>2, <1>9, <4>1 DEF Accs
        <4>3. /\ Len(Front(acc.parts)) = Len(acc.parts) - 1
              /\ \A l \in 1 .. Len(acc.parts) - 1 : Front(acc.parts)[l] = acc.parts[l]
          BY <1>2, <3>4 DEF Front
        <4>4. Len(acc.parts) > 0 /\ Len(acc.parts) \in Nat BY <1>2, <3>4
        <4>5. DepthAt(raw, i + 1) >= 0 /\ Len(new.parts) = DepthAt(raw, i + 1)
          BY <2>1, <3>2, <4>2, <4>3, <4>4
        <4>6. ASSUME NEW level \in 1 .. Len(new.parts)
              PROVE  level \in 1 .. Len(acc.parts) /\ new.parts[level] = acc.parts[level]
          BY <4>2, <4>3, <4>4
        <4> HIDE DEF new
        <4> QED BY <1>3, <2>3, <2>4, <3>1, <4>2, <4>5, <4>6 DEF Resolved
      <3> QED BY <3>3, <3>4
    <2>7. CASE component \notin {"", ".", ".."}
      <3>1. NameAt(raw, i + 1) BY <2>7 DEF NameAt
      <3>2. DepthAt(raw, i + 1) = DepthAt(raw, i) + 1 BY <3>1, DepthStep
      <3>3. new = [acc EXCEPT !.parts = Append(@, component)] BY <1>9, <2>7 DEF TakeComponent
      <3>4. new.ok /\ new.parts = Append(acc.parts, component) BY <1>2, <1>9, <3>3 DEF Accs
      <3>5. /\ Len(new.parts) = Len(acc.parts) + 1 /\ new.parts[Len(acc.parts) + 1] = component
            /\ \A l \in 1 .. Len(acc.parts) : new.parts[l] = acc.parts[l]
            /\ Len(acc.parts) \in Nat
        BY <1>1, <1>2, <3>4
      <3>6. DepthAt(raw, i + 1) >= 0 /\ Len(new.parts) = DepthAt(raw, i + 1)
        BY <2>1, <3>2, <3>5
      <3>7. ASSUME NEW level \in 1 .. Len(new.parts)
            PROVE  \E e \in 1 .. i + 1 : EntersLast(raw, i + 1, level, e) /\ new.parts[level] = raw[e]
        <4> HIDE DEF new
        <4>1. CASE level = Len(acc.parts) + 1
          <5>1. DepthAt(raw, i + 1) = level BY <3>5, <3>6, <4>1
          <5>2. EntersLast(raw, i + 1, level, i + 1) BY <1>7, <3>1, <5>1 DEF EntersLast
          <5> QED BY <1>7, <3>5, <4>1, <5>2
        <4>2. CASE level # Len(acc.parts) + 1
          <5>1. level \in 1 .. Len(acc.parts) BY <3>5, <4>2
          <5>2. DepthAt(raw, i + 1) # level BY <3>5, <3>6, <4>2
          <5>3. new.parts[level] = acc.parts[level] BY <3>5, <5>1
          <5> QED BY <2>4, <5>1, <5>2, <5>3
        <4> QED BY <4>1, <4>2
      <3> HIDE DEF new, component
      <3> QED BY <1>3, <2>3, <3>4, <3>6, <3>7 DEF Resolved
    <2> QED BY <2>5, <2>6, <2>7
  <1> QED BY <1>2, <1>8, <1>9

LEMMA CanonicaliseResolves ==
  ASSUME NEW raw \in Seq(Components)
  PROVE  Resolved(raw, Len(raw), Canonicalise(raw))
  <1>1. PICK g : /\ g[0] = NoComponents
                 /\ \A i \in 1 .. Len(raw) : g[i] = TakeComponent(g[i - 1], raw[i])
                 /\ Canonicalise(raw) = g[Len(raw)]
    BY CanonicaliseIs
  <1> DEFINE S == {i \in Nat : i <= Len(raw) => Resolved(raw, i, g[i])}
  <1>2. 0 \in S
    <2>1. NoComponents \in Accs /\ NoComponents.ok /\ NoComponents.parts = <<>>
      BY DEF NoComponents, Accs
    <2>2. Len(NoComponents.parts) = DepthAt(raw, 0) BY <2>1, DepthStep
    <2>3. 1 .. 0 = {} /\ 1 .. Len(NoComponents.parts) = {} BY <2>1
    <2> QED BY <1>1, <2>1, <2>2, <2>3 DEF Resolved
  <1>3. ASSUME NEW i \in Nat, i \in S PROVE i + 1 \in S
    <2> SUFFICES ASSUME i + 1 <= Len(raw) PROVE Resolved(raw, i + 1, g[i + 1])
      OBVIOUS
    <2>1. i <= Len(raw) /\ i + 1 \in 1 .. Len(raw) /\ (i + 1) - 1 = i OBVIOUS
    <2>2. g[i + 1] = TakeComponent(g[i], raw[i + 1]) BY <1>1, <2>1
    <2>3. Resolved(raw, i, g[i]) BY <1>3, <2>1
    <2> QED BY <2>2, <2>3, ResolvedStep
  <1>4. Len(raw) \in S
    <2> HIDE DEF S
    <2>1. Len(raw) \in Nat OBVIOUS
    <2> QED BY <1>2, <1>3, <2>1, Induct
  <1> QED BY <1>1, <1>4

LEMMA MaxIs ==
  ASSUME NEW S, S \subseteq Int, NEW m \in S, \A y \in S : y <= m
  PROVE  Max(S) = m
  <1>1. \A y \in S : m >= y OBVIOUS
  <1>2. Max(S) \in S /\ \A y \in S : Max(S) >= y BY <1>1 DEF Max
  <1>3. Max(S) >= m /\ m >= Max(S) BY <1>1, <1>2
  <1>4. Max(S) \in Int /\ m \in Int BY <1>2
  <1> HIDE DEF Max
  <1> QED BY <1>3, <1>4

LEMMA CanonicaliseAgrees == CanonicaliseCorrect
  <1> SUFFICES ASSUME NEW raw \in AllPaths
      PROVE  /\ Canonicalise(raw).ok <=> \A j \in 1 .. Len(raw) : DepthAt(raw, j) >= 0
             /\ Canonicalise(raw).ok =>
                  Canonicalise(raw).parts =
                    [level \in 1 .. DepthAt(raw, Len(raw)) |->
                       raw[Max({i \in 1 .. Len(raw) : NameAt(raw, i) /\ DepthAt(raw, i) = level})]]
    BY DEF CanonicaliseCorrect, NameAt, DepthAt
  <1> DEFINE c == Canonicalise(raw)
             n == Len(raw)
  <1>1. raw \in Seq(Components) /\ n \in Nat BY VfsAssumption
  <1>2. Resolved(raw, n, c) BY <1>1, CanonicaliseResolves
  <1>3. c.ok <=> \A j \in 1 .. n : DepthAt(raw, j) >= 0 BY <1>2 DEF Resolved
  <1>4. ASSUME c.ok
        PROVE  c.parts = [level \in 1 .. DepthAt(raw, n) |->
                 raw[Max({i \in 1 .. n : NameAt(raw, i) /\ DepthAt(raw, i) = level})]]
    <2>1. c.parts \in Seq(Components) /\ Len(c.parts) = DepthAt(raw, n)
      BY <1>2, <1>4 DEF Resolved, Accs
    <2>2. ASSUME NEW level \in 1 .. DepthAt(raw, n)
          PROVE  c.parts[level] = raw[Max({i \in 1 .. n : NameAt(raw, i) /\ DepthAt(raw, i) = level})]
      <3> DEFINE E == {i \in 1 .. n : NameAt(raw, i) /\ DepthAt(raw, i) = level}
      <3>1. PICK e \in 1 .. n : EntersLast(raw, n, level, e) /\ c.parts[level] = raw[e]
        BY <1>2, <1>4, <2>1 DEF Resolved
      <3>2. E \subseteq Int /\ e \in E /\ \A y \in E : y <= e
        BY <1>1, <3>1 DEF EntersLast
      <3> HIDE DEF E
      <3>3. Max(E) = e BY <3>2, MaxIs
      <3> QED BY <3>1, <3>3 DEF E
    <2>3. c.parts = [level \in 1 .. DepthAt(raw, n) |-> c.parts[level]] BY <2>1
    <2> HIDE DEF c, n
    <2> QED BY <2>2, <2>3
  <1> QED BY <1>3, <1>4

\* Path resolution computes the reference, and refuses exactly the paths that
\* leave the root, for every path of every length.
THEOREM CanonicaliseHolds == VfsSpec => []CanonicaliseCorrect
  BY CanonicaliseAgrees, PTL

-----------------------------------------------------------------------------
(* The descriptor table. *)

LEMMA MaxOfTwo ==
  ASSUME NEW a \in Int, NEW b \in Int
  PROVE  Max({a, b}) = IF a >= b THEN a ELSE b
  <1>1. CASE a >= b
    <2>1. {a, b} \subseteq Int /\ a \in {a, b} /\ \A y \in {a, b} : y <= a BY <1>1
    <2> QED BY <1>1, <2>1, MaxIs
  <1>2. CASE ~(a >= b)
    <2>1. {a, b} \subseteq Int /\ b \in {a, b} /\ \A y \in {a, b} : y <= b BY <1>2
    <2> QED BY <1>2, <2>1, MaxIs
  <1> QED BY <1>1, <1>2

LEMMA MinOfTwo ==
  ASSUME NEW a \in Int, NEW b \in Int
  PROVE  Min({a, b}) = IF a <= b THEN a ELSE b
  <1> DEFINE m == IF a <= b THEN a ELSE b
  <1>1. m \in {a, b} /\ m \in Int /\ \A y \in {a, b} : m =< y OBVIOUS
  <1> HIDE DEF m
  <1>2. Min({a, b}) \in {a, b} /\ \A y \in {a, b} : Min({a, b}) =< y BY <1>1 DEF Min
  <1>3. Min({a, b}) \in Int /\ Min({a, b}) =< m /\ m =< Min({a, b}) BY <1>1, <1>2
  <1>4. Min({a, b}) = m BY <1>1, <1>3
  <1> QED BY <1>4 DEF m

LEMMA InsertedType ==
  ASSUME NEW B, NEW f, f \in [DOMAIN f -> B], NEW d, NEW e \in B
  PROVE  Insert(f, d, e) \in [DOMAIN Insert(f, d, e) -> B]
  BY DEF Insert

LEMMA MapIsSeq ==
  ASSUME NEW n \in Nat, NEW S, NEW s \in [1 .. n -> S]
  PROVE  s \in Seq(S) /\ Len(s) = n /\ DOMAIN s = 1 .. n
  OBVIOUS

Node == [dir : BOOLEAN, data : Seq(Nat)]
Calls == [op : {"none", "write", "read"}, fd : Nat, iovs : Seq(Int)]

Shapes ==
  /\ phase \in {"fresh", "running", "failed", "collected"}
  /\ DOMAIN root \subseteq Seq(Components) /\ root \in [DOMAIN root -> Node]
  /\ DOMAIN open_fds \subseteq Nat /\ open_fds \in [DOMAIN open_fds -> Handle]
  /\ next_fd \in Nat /\ bytes_written \in Nat /\ stored \in Nat /\ last \in Nat
  /\ ring \in [Stdio -> Seq(Nat)] /\ said \in [Stdio -> Seq(Nat)]
  /\ call \in Calls /\ (call # NoCall => call.iovs # <<>>)

\* Numbers below the counter are all that was ever given out.
Numbered ==
  /\ IsFiniteSet(DOMAIN open_fds) /\ Cardinality(DOMAIN open_fds) <= MAX_FDS
  /\ \A fd \in DOMAIN open_fds : fd < next_fd
  /\ closed \subseteq Nat /\ \A fd \in closed : fd < next_fd

\* What execute starts from, until it injects the code.
FreshStart ==
  phase = "fresh" =>
    /\ root = [p \in PosixDirs |-> Directory] /\ wrote = <<>>
    /\ open_fds = <<>> /\ closed = {} /\ last = 0 /\ call = NoCall

TableInv == Shapes /\ Numbered /\ FreshStart /\ HandlesValid /\ FdsNotReused

LEMMA InitTable == VfsInit => TableInv
  <1> SUFFICES ASSUME VfsInit PROVE TableInv OBVIOUS
  <1> USE DEF VfsInit
  <1>1. DOMAIN root = PosixDirs /\ PosixDirs \subseteq Seq(Components)
    <2>1. \A s \in Components : <<s>> \in Seq(Components) OBVIOUS
    <2>2. "tmp" \in Components /\ "home" \in Components /\ "workspace" \in Components
      BY VfsAssumption
    <2>3. <<"tmp">> \in Seq(Components) /\ <<"home">> \in Seq(Components) /\ <<"workspace">> \in Seq(Components)
      BY <2>1, <2>2, Zenon
    <2> QED BY <2>3, Zenon DEF PosixDirs, VfsInit
  <1>2. Directory \in Node BY DEF Directory, Node
  <1>3. root \in [DOMAIN root -> Node] BY <1>2
  <1>4. DOMAIN open_fds = {} /\ open_fds \in [DOMAIN open_fds -> Handle] OBVIOUS
  <1>5. call \in Calls BY DEF NoCall, Calls
  <1>6. ring \in [Stdio -> Seq(Nat)] /\ said \in [Stdio -> Seq(Nat)] OBVIOUS
  <1>7. Shapes BY <1>1, <1>3, <1>4, <1>5, <1>6 DEF Shapes, FIRST_GUEST_FD
  <1>8. IsFiniteSet({}) /\ Cardinality({}) = 0 BY FS_EmptySet
  <1>9. Numbered BY <1>4, <1>8, VfsAssumption DEF Numbered
  <1>10. HandlesValid /\ FdsNotReused BY <1>4 DEF HandlesValid, FdsNotReused
  <1> QED BY <1>7, <1>9, <1>10 DEF TableInv, FreshStart

\* A descriptor whose position moves stays what it was otherwise.
LEMMA Moved ==
  ASSUME Shapes, NEW fd \in DOMAIN open_fds, NEW q \in Nat,
         open_fds' = [open_fds EXCEPT ![fd].position = q]
  PROVE  /\ DOMAIN open_fds' = DOMAIN open_fds
         /\ open_fds' \in [DOMAIN open_fds -> Handle]
         /\ \A f \in DOMAIN open_fds : /\ open_fds'[f].path = open_fds[f].path
                                       /\ open_fds'[f].is_dir = open_fds[f].is_dir
                                       /\ f # fd => open_fds'[f] = open_fds[f]
         /\ open_fds'[fd].position = q
  BY DEF Shapes, Handle

\* The data of a node changes, and nothing else about it.
LEMMA DataChanged ==
  ASSUME Shapes, NEW p \in DOMAIN root, NEW d \in Seq(Nat),
         root' = [root EXCEPT ![p].data = d]
  PROVE  /\ DOMAIN root' = DOMAIN root
         /\ root' \in [DOMAIN root -> Node]
         /\ \A x \in DOMAIN root : /\ root'[x].dir = root[x].dir
                                   /\ x # p => root'[x] = root[x]
         /\ root'[p].data = d
  BY DEF Shapes, Node

LEMMA GoesOnType ==
  ASSUME NEW op \in {"write", "read"}, NEW fd \in Nat, NEW iovs \in Seq(Int), iovs # <<>>,
         GoesOn(op, fd, iovs)
  PROVE  call' \in Calls /\ (call' # NoCall => call'.iovs # <<>>)
  <1>1. Tail(iovs) \in Seq(Int) /\ Len(Tail(iovs)) = Len(iovs) - 1 /\ Len(iovs) \in Nat OBVIOUS
  <1>0. ASSUME Len(iovs) # 1 PROVE Tail(iovs) # <<>>
    <2>1. Len(Tail(iovs)) # 0 BY <1>0, <1>1
    <2>2. Len(<<>>) = 0 OBVIOUS
    <2> QED BY <2>1, <2>2, Zenon
  <1>2. NoCall \in Calls BY DEF NoCall, Calls
  <1>3. CASE Len(iovs) = 1 BY <1>2, <1>3 DEF GoesOn
  <1>4. CASE Len(iovs) # 1
    <2>1. call' = [op |-> op, fd |-> fd, iovs |-> Tail(iovs)] BY <1>4 DEF GoesOn
    <2> QED BY <1>0, <1>1, <1>4, <2>1 DEF Calls
  <1> QED BY <1>3, <1>4

LEMMA ChunkType ==
  ASSUME last \in Nat, NEW n \in Nat
  PROVE  Chunk(n) \in Seq(Nat) /\ Len(Chunk(n)) = n /\ \A i \in 1 .. n : Chunk(n)[i] = last + i
  <1>1. Chunk(n) \in [1 .. n -> Nat] BY DEF Chunk
  <1> QED BY <1>1, MapIsSeq DEF Chunk

LEMMA OverlayIs ==
  ASSUME NEW data \in Seq(Nat), NEW pos \in Nat, NEW chunk \in Seq(Nat)
  PROVE  LET new == Overlay(data, pos, chunk)
             end == pos + Len(chunk)
         IN  /\ new \in Seq(Nat)
             /\ Len(new) = IF Len(data) >= end THEN Len(data) ELSE end
             /\ \A i \in 1 .. Len(new) :
                  new[i] = IF i \in pos + 1 .. end THEN chunk[i - pos]
                           ELSE IF i <= Len(data) THEN data[i] ELSE 0
  <1> DEFINE end == pos + Len(chunk)
             m == IF Len(data) >= end THEN Len(data) ELSE end
             new == Overlay(data, pos, chunk)
  <1>1. Len(data) \in Nat /\ Len(chunk) \in Nat /\ end \in Nat /\ m \in Nat OBVIOUS
  <1>2. Max({Len(data), end}) = m
    <2>1. \A a, b \in Int : Max({a, b}) = IF a >= b THEN a ELSE b BY MaxOfTwo
    <2>2. Len(data) \in Int /\ end \in Int BY <1>1
    <2> QED BY <2>1, <2>2
  <1>3. new = [i \in 1 .. m |-> IF i \in pos + 1 .. end THEN chunk[i - pos]
                                ELSE IF i <= Len(data) THEN data[i] ELSE 0]
    BY <1>2 DEF Overlay
  <1>4. ASSUME NEW i \in 1 .. m
        PROVE  (IF i \in pos + 1 .. end THEN chunk[i - pos]
                ELSE IF i <= Len(data) THEN data[i] ELSE 0) \in Nat
    <2>1. CASE i \in pos + 1 .. end
      <3>1. i - pos \in 1 .. Len(chunk) BY <1>1, <2>1
      <3> QED BY <2>1, <3>1
    <2>2. CASE i \notin pos + 1 .. end
      <3>1. i <= Len(data) => i \in 1 .. Len(data) BY <1>1
      <3> QED BY <2>2, <3>1
    <2> QED BY <2>1, <2>2
  <1> HIDE DEF m, new
  <1>5. new \in [1 .. m -> Nat] BY <1>3, <1>4
  <1>6. new \in Seq(Nat) /\ Len(new) = m BY <1>1, <1>5, MapIsSeq
  <1>7. \A i \in 1 .. Len(new) : new[i] = IF i \in pos + 1 .. end THEN chunk[i - pos]
                           ELSE IF i <= Len(data) THEN data[i] ELSE 0
    BY <1>3, <1>6
  <1> QED BY <1>6, <1>7 DEF m, new

LEMMA BytesReadType ==
  ASSUME Shapes, HandlesValid, NEW fd \in DOMAIN open_fds, NEW n \in Nat
  PROVE  BytesRead(open_fds[fd], n) \in Nat
  <1> DEFINE x == Len(root[open_fds[fd].path].data) - open_fds[fd].position
  <1>1. x \in Int BY DEF Shapes, HandlesValid, Node, Handle
  <1>2. Min({n, x}) \in Int BY <1>1, MinOfTwo
  <1> HIDE DEF x
  <1>3. Max({0, Min({n, x})}) \in Nat
    <2> DEFINE y == Min({n, x})
    <2>1. y \in Int BY <1>2
    <2> HIDE DEF y
    <2>2. Max({0, y}) = IF 0 >= y THEN 0 ELSE y BY <2>1, MaxOfTwo
    <2> QED BY <2>1, <2>2 DEF y
  <1> QED BY <1>3 DEF BytesRead, x

LEMMA CallParts ==
  ASSUME Shapes
  PROVE  call.fd \in Nat /\ call.iovs \in Seq(Int) /\ (call # NoCall => call.iovs # <<>>)
  BY DEF Shapes, Calls

LEMMA NoCallType == NoCall \in Calls
  BY DEF NoCall, Calls

LEMMA HeadType ==
  ASSUME NEW iovs \in Seq(Int), iovs # <<>>
  PROVE  Head(iovs) \in Int
  OBVIOUS

\* A descriptor moves: read, seek, and the descriptor's side of a write.
LEMMA MoveKeeps ==
  ASSUME TableInv, NEW fd \in DOMAIN open_fds, NEW q \in Nat,
         open_fds' = [open_fds EXCEPT ![fd].position = q], UNCHANGED <<next_fd, closed>>,
         DOMAIN root' = DOMAIN root, \A x \in DOMAIN root : root'[x].dir = root[x].dir
  PROVE  /\ DOMAIN open_fds' \subseteq Nat /\ open_fds' \in [DOMAIN open_fds' -> Handle]
         /\ Numbered' /\ HandlesValid' /\ FdsNotReused'
  <1>1. Shapes /\ Numbered /\ HandlesValid /\ FdsNotReused BY DEF TableInv
  <1>2. /\ DOMAIN open_fds' = DOMAIN open_fds
        /\ open_fds' \in [DOMAIN open_fds -> Handle]
        /\ \A f \in DOMAIN open_fds : /\ open_fds'[f].path = open_fds[f].path
                                      /\ open_fds'[f].is_dir = open_fds[f].is_dir
    BY <1>1, Moved
  <1>3. Numbered' BY <1>1, <1>2 DEF Numbered
  <1>4. HandlesValid' BY <1>1, <1>2 DEF HandlesValid
  <1>5. FdsNotReused' BY <1>1, <1>2 DEF FdsNotReused
  <1> QED BY <1>1, <1>2, <1>3, <1>4, <1>5 DEF Shapes

\* The map after an open that is admitted.
LEMMA Opened ==
  ASSUME Shapes, NEW p \in Seq(Components), NEW mode, Admits(p, mode), root' = RootOpened(p, mode)
  PROVE  /\ DOMAIN root' = DOMAIN root \cup {p}
         /\ root' \in [DOMAIN root' -> Node]
         /\ \A x \in DOMAIN root : root'[x].dir = root[x].dir /\ (x # p => root'[x] = root[x])
         /\ Clears(p, mode) => root'[p] = EmptyFile
         /\ ~Clears(p, mode) => root' = root
  <1>1. root \in [DOMAIN root -> Node] BY DEF Shapes
  <1>2. EmptyFile \in Node /\ EmptyFile.dir = FALSE BY DEF EmptyFile, Node
  <1>3. CASE Clears(p, mode)
    <2>1. root' = Insert(root, p, EmptyFile) BY <1>3 DEF RootOpened
    <2>2. /\ DOMAIN root' = DOMAIN root \cup {p} /\ root'[p] = EmptyFile
          /\ \A x \in DOMAIN root : x # p => root'[x] = root[x]
      BY <2>1 DEF Insert
    <2>0. root' \in [DOMAIN root' -> Node] BY <1>1, <1>2, <2>1, InsertedType
    <2>3. p \in DOMAIN root => root[p].dir = FALSE
      BY <1>1, <1>3 DEF Clears, Node
    <2> QED BY <1>2, <1>3, <2>0, <2>2, <2>3
  <1>4. CASE ~Clears(p, mode)
    <2>1. root' = root /\ p \in DOMAIN root BY <1>4 DEF RootOpened, Clears
    <2> QED BY <1>1, <1>4, <2>1
  <1> QED BY <1>3, <1>4

LEMMA OpenKeeps ==
  ASSUME TableInv, NEW raw \in GuestPaths, NEW mode \in OpenModes, PathOpen(raw, mode)
  PROVE  TableInv'
  <1> DEFINE p == Canonicalise(raw).parts
             h == [path |-> p, position |-> 0, rights |-> mode.rights,
                   append |-> mode.append, is_dir |-> root'[p].dir]
  <1>1. Shapes /\ Numbered /\ HandlesValid /\ FdsNotReused BY DEF TableInv
  <1>2. p \in Seq(Components)
    <2>1. raw \in Seq(Components) BY VfsAssumption
    <2> QED BY <2>1, CanonicaliseResolves DEF Resolved, Accs
  <1>3. /\ phase = "running" /\ Admits(p, mode) /\ root' = RootOpened(p, mode)
        /\ \/ TableFull /\ UNCHANGED <<open_fds, next_fd, closed>>
           \/ /\ ~TableFull /\ open_fds' = Insert(open_fds, next_fd, h)
              /\ next_fd' = next_fd + 1 /\ UNCHANGED closed
        /\ UNCHANGED <<phase, bytes_written, stored, ring, said, call, last>>
    BY DEF PathOpen, fdVars, quotaVars, ringVars, NewFd
  <1> HIDE DEF p
  <1>4. /\ DOMAIN root' = DOMAIN root \cup {p} /\ root' \in [DOMAIN root' -> Node]
        /\ \A x \in DOMAIN root : root'[x].dir = root[x].dir
    BY <1>1, <1>2, <1>3, Opened
  <1>5. DOMAIN root' \subseteq Seq(Components) BY <1>1, <1>2, <1>4 DEF Shapes
  <1>6. FreshStart' BY <1>3 DEF FreshStart
  <1>7. CASE TableFull /\ UNCHANGED <<open_fds, next_fd, closed>>
    <2>1. Shapes' BY <1>1, <1>3, <1>4, <1>5, <1>7 DEF Shapes
    <2>2. Numbered' BY <1>1, <1>7 DEF Numbered
    <2>3. HandlesValid' BY <1>1, <1>4, <1>7 DEF HandlesValid
    <2>4. FdsNotReused' BY <1>1, <1>7 DEF FdsNotReused
    <2> QED BY <1>6, <2>1, <2>2, <2>3, <2>4 DEF TableInv
  <1>8. CASE /\ ~TableFull /\ open_fds' = Insert(open_fds, next_fd, h)
             /\ next_fd' = next_fd + 1 /\ UNCHANGED closed
    <2>1. h \in Handle /\ h.path = p /\ h.is_dir = root'[p].dir
      <3>1. mode.rights \in SUBSET Rights /\ mode.append \in BOOLEAN BY VfsAssumption
      <3>2. root'[p].dir \in BOOLEAN BY <1>4 DEF Node
      <3> QED BY <1>2, <3>1, <3>2 DEF Handle
    <2> HIDE DEF h
    <2>2. /\ DOMAIN open_fds' = DOMAIN open_fds \cup {next_fd} /\ open_fds'[next_fd] = h
          /\ \A x \in DOMAIN open_fds : x # next_fd => open_fds'[x] = open_fds[x]
      BY <1>8 DEF Insert
    <2>0. open_fds' \in [DOMAIN open_fds' -> Handle]
      <3>1. open_fds \in [DOMAIN open_fds -> Handle] BY <1>1 DEF Shapes
      <3> QED BY <1>8, <2>1, <3>1, InsertedType
    <2>3. next_fd \in Nat /\ next_fd \notin DOMAIN open_fds /\ next_fd \notin closed
      BY <1>1 DEF Shapes, Numbered
    <2>4. Shapes' BY <1>1, <1>3, <1>4, <1>5, <1>8, <2>0, <2>2, <2>3 DEF Shapes
    <2>5. Numbered'
      <3>1. IsFiniteSet(DOMAIN open_fds) /\ Cardinality(DOMAIN open_fds) \in Nat
        BY <1>1, FS_CardinalityType DEF Numbered
      <3>2. /\ IsFiniteSet(DOMAIN open_fds')
            /\ Cardinality(DOMAIN open_fds') = Cardinality(DOMAIN open_fds) + 1
        BY <2>2, <2>3, <3>1, FS_AddElement
      <3>3. Cardinality(DOMAIN open_fds') <= MAX_FDS
        BY <1>8, <3>1, <3>2, VfsAssumption DEF TableFull
      <3>4. \A fd \in DOMAIN open_fds' : fd < next_fd' BY <1>1, <1>8, <2>2, <2>3 DEF Numbered, Shapes
      <3>5. closed' \subseteq Nat /\ \A fd \in closed' : fd < next_fd'
        BY <1>1, <1>8, <2>3 DEF Numbered
      <3> QED BY <3>2, <3>3, <3>4, <3>5 DEF Numbered
    <2>6. HandlesValid' BY <1>1, <1>4, <2>1, <2>2, <2>3 DEF HandlesValid
    <2>7. FdsNotReused' BY <1>1, <1>8, <2>2, <2>3 DEF FdsNotReused
    <2> QED BY <1>6, <2>4, <2>5, <2>6, <2>7 DEF TableInv
  <1> QED BY <1>3, <1>7, <1>8

LEMMA WritePositionType ==
  ASSUME Shapes, HandlesValid, NEW fd \in DOMAIN open_fds
  PROVE  /\ WritePosition(open_fds[fd]) \in Nat
         /\ open_fds[fd].path \in DOMAIN root /\ root[open_fds[fd].path].data \in Seq(Nat)
  BY DEF Shapes, HandlesValid, WritePosition, Node, Handle

\* What a write does to the map and to its descriptor.
LEMMA StoreIs ==
  ASSUME Shapes, HandlesValid, NEW fd \in DOMAIN open_fds, NEW n \in Nat, Store(fd, n)
  PROVE  LET p == open_fds[fd].path
             pos == WritePosition(open_fds[fd])
             d == Overlay(root[p].data, pos, Chunk(n))
         IN  /\ d \in Seq(Nat) /\ root' = [root EXCEPT ![p].data = d]
             /\ open_fds' = [open_fds EXCEPT ![fd].position = pos + n]
             /\ pos + n \in Nat /\ pos \in Nat /\ p \in DOMAIN root
             /\ bytes_written' = bytes_written + n /\ stored' = stored + n /\ last' = last + n
             /\ DOMAIN root' = DOMAIN root
             /\ root' \in [DOMAIN root -> Node]
             /\ \A x \in DOMAIN root : /\ root'[x].dir = root[x].dir
                                       /\ x # p => root'[x] = root[x]
             /\ root'[p].data = d
  <1> DEFINE p == open_fds[fd].path
             pos == WritePosition(open_fds[fd])
             d == Overlay(root[p].data, pos, Chunk(n))
  <1>1. pos \in Nat /\ p \in DOMAIN root /\ root[p].data \in Seq(Nat) BY WritePositionType
  <1>2. Chunk(n) \in Seq(Nat) BY ChunkType DEF Shapes
  <1>3. d \in Seq(Nat) BY <1>1, <1>2, OverlayIs
  <1>4. /\ root' = [root EXCEPT ![p].data = d]
        /\ open_fds' = [open_fds EXCEPT ![fd].position = pos + n]
        /\ bytes_written' = bytes_written + n /\ stored' = stored + n /\ last' = last + n
    BY DEF Store
  <1> HIDE DEF p, pos, d
  <1>5. /\ DOMAIN root' = DOMAIN root /\ root' \in [DOMAIN root -> Node]
        /\ \A x \in DOMAIN root : root'[x].dir = root[x].dir /\ (x # p => root'[x] = root[x])
        /\ root'[p].data = d
    BY <1>1, <1>3, <1>4, DataChanged
  <1>6. pos + n \in Nat BY <1>1
  <1> QED BY <1>1, <1>3, <1>4, <1>5, <1>6 DEF p, pos, d

LEMMA WriteKeeps ==
  ASSUME TableInv, NEW fd \in Nat, NEW iovs \in Seq(Int), iovs # <<>>, FdWriteIov(fd, iovs)
  PROVE  TableInv'
  <1> DEFINE n == Head(iovs)
  <1>1. Shapes /\ Numbered /\ HandlesValid /\ FdsNotReused BY DEF TableInv
  <1>2. /\ phase = "running" /\ n \in Nat /\ fd \in DOMAIN open_fds /\ Store(fd, n)
        /\ GoesOn("write", fd, iovs)
        /\ UNCHANGED <<phase, next_fd, closed, ring, said>>
    BY HeadType DEF FdWriteIov, Processes, Writable, ringVars
  <1>3. call' \in Calls /\ (call' # NoCall => call'.iovs # <<>>) BY <1>2, GoesOnType
  <1> HIDE DEF n
  <1>4. PICK q \in Nat : open_fds' = [open_fds EXCEPT ![fd].position = q] BY <1>1, <1>2, StoreIs
  <1>5. /\ bytes_written' = bytes_written + n /\ stored' = stored + n /\ last' = last + n
        /\ DOMAIN root' = DOMAIN root /\ root' \in [DOMAIN root -> Node]
        /\ \A x \in DOMAIN root : root'[x].dir = root[x].dir
    BY <1>1, <1>2, StoreIs
  <1>6. /\ DOMAIN open_fds' \subseteq Nat /\ open_fds' \in [DOMAIN open_fds' -> Handle]
        /\ Numbered' /\ HandlesValid' /\ FdsNotReused'
    BY <1>2, <1>4, <1>5, MoveKeeps
  <1>7. bytes_written' \in Nat /\ stored' \in Nat /\ last' \in Nat
    <2>1. bytes_written \in Nat /\ stored \in Nat /\ last \in Nat BY <1>1 DEF Shapes
    <2>2. n \in Nat BY <1>2
    <2> QED BY ONLY <2>1, <2>2, <1>5
  <1>8. Shapes' BY <1>1, <1>2, <1>3, <1>5, <1>6, <1>7 DEF Shapes
  <1>9. FreshStart' BY <1>2 DEF FreshStart
  <1> QED BY <1>6, <1>8, <1>9 DEF TableInv

\* Read and seek: a descriptor moves, the rest of the table stays.
LEMMA ReadKeeps ==
  ASSUME TableInv, phase = "running", UNCHANGED <<phase, root, next_fd, closed>>,
         UNCHANGED <<bytes_written, stored, ring, said, last>>,
         NEW fd \in DOMAIN open_fds, NEW q \in Nat,
         open_fds' = [open_fds EXCEPT ![fd].position = q],
         call' \in Calls, call' # NoCall => call'.iovs # <<>>
  PROVE  TableInv'
  <1>1. /\ DOMAIN open_fds' \subseteq Nat /\ open_fds' \in [DOMAIN open_fds' -> Handle]
        /\ Numbered' /\ HandlesValid' /\ FdsNotReused'
    BY MoveKeeps
  <1>2. Shapes' BY <1>1 DEF TableInv, Shapes
  <1>3. FreshStart' BY DEF FreshStart
  <1> QED BY <1>1, <1>2, <1>3 DEF TableInv

\* Steps that leave the map and the table alone.
LEMMA OtherKeeps ==
  ASSUME TableInv, phase' # "fresh",
         phase' \in {"running", "failed", "collected"},
         UNCHANGED <<root, open_fds, next_fd, closed>>,
         bytes_written' \in Nat, stored' \in Nat, last' \in Nat,
         ring' \in [Stdio -> Seq(Nat)], said' \in [Stdio -> Seq(Nat)],
         call' \in Calls, call' # NoCall => call'.iovs # <<>>
  PROVE  TableInv'
  <1>1. Shapes' BY DEF TableInv, Shapes
  <1>2. Numbered' BY DEF TableInv, Numbered
  <1>3. HandlesValid' /\ FdsNotReused' BY DEF TableInv, HandlesValid, FdsNotReused
  <1>4. FreshStart' BY DEF FreshStart
  <1> QED BY <1>1, <1>2, <1>3, <1>4 DEF TableInv

LEMMA RingWriteType ==
  ASSUME NEW buf \in Seq(Nat), NEW capacity \in Nat, NEW chunk \in Seq(Nat)
  PROVE  LET kept == IF Len(buf) > capacity \/ Len(chunk) <= capacity - Len(buf) THEN 0
                     ELSE IF Len(chunk) - (capacity - Len(buf)) <= Len(buf)
                     THEN Len(chunk) - (capacity - Len(buf)) ELSE Len(buf)
         IN  /\ kept \in 0 .. Len(buf)
             /\ RingWrite(buf, capacity, chunk) = SubSeq(buf, kept + 1, Len(buf)) \o chunk
             /\ RingWrite(buf, capacity, chunk) \in Seq(Nat)
  <1> DEFINE needed == Len(chunk) - (capacity - Len(buf))
             fits == Len(buf) > capacity \/ Len(chunk) <= capacity - Len(buf)
  <1>1. Len(buf) \in Nat /\ Len(chunk) \in Nat /\ needed \in Int OBVIOUS
  <1>2. CASE fits
    <2>1. RingWrite(buf, capacity, chunk) = buf \o chunk BY <1>2 DEF RingWrite
    <2>2. SubSeq(buf, 0 + 1, Len(buf)) = buf OBVIOUS
    <2>3. buf \o chunk \in Seq(Nat) OBVIOUS
    <2>4. 0 \in 0 .. Len(buf) BY <1>1
    <2> QED BY <1>2, <2>1, <2>2, <2>3, <2>4
  <1>3. CASE ~fits
    <2>1. RingWrite(buf, capacity, chunk)
            = SubSeq(buf, Min({needed, Len(buf)}) + 1, Len(buf)) \o chunk
      BY <1>3 DEF RingWrite
    <2>2. Min({needed, Len(buf)}) = IF needed <= Len(buf) THEN needed ELSE Len(buf)
      <3>1. \A a, b \in Int : Min({a, b}) = IF a <= b THEN a ELSE b BY MinOfTwo
      <3>2. Len(buf) \in Int BY <1>1
      <3> HIDE DEF needed
      <3> QED BY <1>1, <3>1, <3>2
    <2>3. needed > 0 BY <1>1, <1>3
    <2> DEFINE kept == IF needed <= Len(buf) THEN needed ELSE Len(buf)
    <2>4. kept \in 0 .. Len(buf) BY <1>1, <2>3
    <2>5. SubSeq(buf, kept + 1, Len(buf)) \in Seq(Nat)
      <3> HIDE DEF kept
      <3> QED BY <1>1, <2>4
    <2>6. SubSeq(buf, kept + 1, Len(buf)) \o chunk \in Seq(Nat)
      <3> HIDE DEF kept
      <3> QED BY <2>5
    <2> QED BY <1>3, <2>1, <2>2, <2>4, <2>6
  <1> QED BY <1>2, <1>3

LEMMA CapacityType == ASSUME NEW f \in Stdio PROVE Capacity(f) \in Nat
  BY VfsAssumption DEF Capacity

LEMMA IoKeeps ==
  ASSUME TableInv, NEW fd \in Nat, NEW iovs \in Seq(Int), iovs # <<>>, FdIo(fd, iovs)
  PROVE  TableInv'
  <1> DEFINE n == Head(iovs)
  <1>1. Shapes /\ HandlesValid BY DEF TableInv
  <1>2. n \in Int BY HeadType
  <1>3. NoCall \in Calls BY NoCallType
  <1>4. CASE FdWriteIov(fd, iovs) BY <1>4, WriteKeeps
  <1>5. CASE FdWriteRing(fd, iovs)
    <2>1. /\ phase = "running" /\ n \in Nat /\ fd \in Stdio
          /\ ring' = [ring EXCEPT ![fd] = RingWrite(@, Capacity(fd), Chunk(n))]
          /\ said' = [said EXCEPT ![fd] = @ \o Chunk(n)]
          /\ last' = last + n /\ GoesOn("write", fd, iovs)
          /\ UNCHANGED <<phase, root, open_fds, next_fd, closed, bytes_written, stored>>
      BY <1>2, <1>5 DEF FdWriteRing, Processes, fileVars, fdVars, quotaVars
    <2>2. Chunk(n) \in Seq(Nat) BY <1>1, <2>1, ChunkType DEF Shapes
    <2>3. ring[fd] \in Seq(Nat) /\ said[fd] \in Seq(Nat) BY <1>1, <2>1 DEF Shapes
    <2>4. RingWrite(ring[fd], Capacity(fd), Chunk(n)) \in Seq(Nat)
      BY <2>1, <2>2, <2>3, RingWriteType, CapacityType
    <2>5. said[fd] \o Chunk(n) \in Seq(Nat) BY <2>2, <2>3
    <2>6. ring' \in [Stdio -> Seq(Nat)] /\ said' \in [Stdio -> Seq(Nat)]
      BY <1>1, <2>1, <2>4, <2>5 DEF Shapes
    <2>7. call' \in Calls /\ (call' # NoCall => call'.iovs # <<>>) BY <2>1, GoesOnType
    <2>8. last' \in Nat /\ bytes_written' \in Nat /\ stored' \in Nat
      BY <1>1, <2>1 DEF Shapes
    <2> HIDE DEF n
    <2> QED BY <2>1, <2>6, <2>7, <2>8, OtherKeeps
  <1>6. CASE FdWriteFails(fd, iovs)
    <2>1. /\ phase = "running" /\ call' = NoCall
          /\ UNCHANGED <<phase, root, open_fds, next_fd, closed, stored, ring, said, last>>
          /\ bytes_written' = bytes_written \/ (n \in Nat /\ bytes_written' = bytes_written + n)
      BY <1>2, <1>6 DEF FdWriteFails, Processes, fileVars, fdVars, ringVars
    <2>2. bytes_written' \in Nat BY <1>1, <2>1 DEF Shapes
    <2>3. /\ stored' \in Nat /\ last' \in Nat
          /\ ring' \in [Stdio -> Seq(Nat)] /\ said' \in [Stdio -> Seq(Nat)]
      BY <1>1, <2>1 DEF Shapes
    <2> QED BY <1>3, <2>1, <2>2, <2>3, OtherKeeps
  <1>7. CASE FdReadIov(fd, iovs)
    <2> DEFINE q == open_fds[fd].position + BytesRead(open_fds[fd], n)
    <2>1. /\ phase = "running" /\ fd \in DOMAIN open_fds /\ n \in Nat
          /\ open_fds' = [open_fds EXCEPT ![fd].position = q]
          /\ call' = NoCall \/ GoesOn("read", fd, iovs)
          /\ UNCHANGED <<phase, root, next_fd, closed, bytes_written, stored, ring, said, last>>
      BY <1>2, <1>7 DEF FdReadIov, Processes, Readable, fileVars, quotaVars, ringVars
    <2>2. q \in Nat BY <1>1, <2>1, BytesReadType DEF Shapes, Handle
    <2>3. call' \in Calls /\ (call' # NoCall => call'.iovs # <<>>) BY <1>3, <2>1, GoesOnType
    <2> HIDE DEF q
    <2> QED BY <2>1, <2>2, <2>3, ReadKeeps
  <1>8. CASE FdReadFails(fd, iovs)
    <2>1. /\ phase = "running" /\ call' = NoCall
          /\ UNCHANGED <<phase, root, next_fd, closed, bytes_written, stored, ring, said, last>>
      BY <1>8 DEF FdReadFails, Processes, fileVars, quotaVars, ringVars
    <2>2. CASE UNCHANGED open_fds
      <3>1. /\ bytes_written' \in Nat /\ stored' \in Nat /\ last' \in Nat
            /\ ring' \in [Stdio -> Seq(Nat)] /\ said' \in [Stdio -> Seq(Nat)]
        BY <1>1, <2>1 DEF Shapes
      <3> QED BY <1>3, <2>1, <2>2, <3>1, OtherKeeps
    <2>3. CASE ~UNCHANGED open_fds
      <3> DEFINE q == open_fds[fd].position + BytesRead(open_fds[fd], -n)
      <3>1. /\ fd \in DOMAIN open_fds /\ n < 0
            /\ open_fds' = [open_fds EXCEPT ![fd].position = q]
        BY <1>8, <2>3 DEF FdReadFails, Readable
      <3>2. -n \in Nat BY <1>2, <3>1
      <3>3. q \in Nat
        <4>1. open_fds[fd] \in Handle BY <1>1, <3>1 DEF Shapes
        <4>2. BytesRead(open_fds[fd], -n) \in Nat BY <1>1, <3>1, <3>2, <4>1, BytesReadType
        <4>3. open_fds[fd].position \in Nat BY <4>1 DEF Handle
        <4> QED BY <4>2, <4>3
      <3> HIDE DEF q
      <3> QED BY <1>3, <2>1, <3>1, <3>3, ReadKeeps
    <2> QED BY <2>2, <2>3
  <1> QED BY <1>4, <1>5, <1>6, <1>7, <1>8 DEF FdIo

LEMMA SeekKeeps ==
  ASSUME TableInv, NEW fd, NEW offset \in Offsets, NEW whence \in {"SET", "CUR", "END"},
         FdSeek(fd, offset, whence)
  PROVE  TableInv'
  <1> DEFINE q == SeekBase(whence, open_fds[fd]) + offset
  <1>1. /\ phase = "running" /\ call = NoCall /\ fd \in DOMAIN open_fds /\ q \in 0 .. MaxPos
        /\ open_fds' = [open_fds EXCEPT ![fd].position = q]
        /\ UNCHANGED <<phase, root, next_fd, closed, bytes_written, stored, ring, said, call, last>>
    BY DEF FdSeek, fileVars, quotaVars, ringVars
  <1>2. q \in Nat BY <1>1, VfsAssumption
  <1>3. call' \in Calls /\ call' = NoCall BY <1>1, NoCallType
  <1> HIDE DEF q
  <1> QED BY <1>1, <1>2, <1>3, ReadKeeps

LEMMA CloseKeeps ==
  ASSUME TableInv, NEW fd, FdClose(fd)
  PROVE  TableInv'
  <1>1. Shapes /\ Numbered /\ HandlesValid /\ FdsNotReused BY DEF TableInv
  <1>2. /\ phase = "running" /\ open_fds' = [f \in DOMAIN open_fds \ {fd} |-> open_fds[f]]
        /\ closed' = closed \union ({fd} \intersect DOMAIN open_fds)
        /\ UNCHANGED <<phase, root, next_fd, bytes_written, stored, ring, said, call, last>>
    BY DEF FdClose, fileVars, quotaVars, ringVars
  <1>3. /\ DOMAIN open_fds' = DOMAIN open_fds \ {fd}
        /\ \A f \in DOMAIN open_fds' : open_fds'[f] = open_fds[f]
        /\ open_fds' \in [DOMAIN open_fds' -> Handle]
    BY <1>1, <1>2 DEF Shapes
  <1>4. Shapes' BY <1>1, <1>2, <1>3 DEF Shapes
  <1>5. Numbered'
    <2>1. IsFiniteSet(DOMAIN open_fds) /\ DOMAIN open_fds' \subseteq DOMAIN open_fds
      BY <1>1, <1>3 DEF Numbered
    <2>2. /\ IsFiniteSet(DOMAIN open_fds')
          /\ Cardinality(DOMAIN open_fds') <= Cardinality(DOMAIN open_fds)
          /\ Cardinality(DOMAIN open_fds') \in Nat /\ Cardinality(DOMAIN open_fds) \in Nat
      BY <2>1, FS_Subset, FS_CardinalityType
    <2>3. Cardinality(DOMAIN open_fds') <= MAX_FDS
      BY <1>1, <2>2, VfsAssumption DEF Numbered
    <2>4. closed' \subseteq Nat /\ \A f \in closed' : f < next_fd'
      BY <1>1, <1>2 DEF Numbered, Shapes
    <2>5. \A f \in DOMAIN open_fds' : f < next_fd' BY <1>1, <1>2, <1>3 DEF Numbered
    <2> QED BY <2>2, <2>3, <2>4, <2>5 DEF Numbered
  <1>6. HandlesValid' BY <1>1, <1>2, <1>3 DEF HandlesValid
  <1>7. FdsNotReused' BY <1>1, <1>2, <1>3 DEF FdsNotReused
  <1>8. FreshStart' BY <1>2 DEF FreshStart
  <1> QED BY <1>4, <1>5, <1>6, <1>7, <1>8 DEF TableInv

LEMMA CodePathType == CodePath \in Seq(Components) /\ CodePath \notin PosixDirs
  <1>1. \A s, t \in Components : <<s, t>> \in Seq(Components) OBVIOUS
  <1>2. "workspace" \in Components /\ "main.wasm" \in Components BY VfsAssumption
  <1>3. <<"workspace", "main.wasm">> \in Seq(Components) BY <1>1, <1>2, Zenon
  <1>4. CodePath \in Seq(Components) BY <1>3 DEF CodePath
  <1>5. Len(CodePath) = 2 BY DEF CodePath
  <1>6. \A p \in PosixDirs : Len(p) = 1 BY DEF PosixDirs
  <1> QED BY <1>4, <1>5, <1>6

LEMMA InjectKeeps ==
  ASSUME TableInv, NEW n \in CodeSizes, Inject(n)
  PROVE  TableInv'
  <1> DEFINE node == [dir |-> FALSE, data |-> IF OverQuota(n) THEN <<>> ELSE Chunk(n)]
             h == [path |-> CodePath, position |-> 0, rights |-> {"FD_READ", "FD_WRITE"},
                   append |-> FALSE, is_dir |-> FALSE]
  <1>1. Shapes /\ Numbered BY DEF TableInv
  <1>2. n \in Nat BY VfsAssumption
  <1>3. /\ phase = "fresh" /\ next_fd' = next_fd + 1 /\ root' = Insert(root, CodePath, node)
        /\ UNCHANGED <<ring, said, call>>
    BY DEF Inject, ringVars
  <1>4. open_fds = <<>> /\ closed = {} /\ call = NoCall /\ DOMAIN open_fds = {} /\ next_fd \in Nat
    BY <1>3 DEF TableInv, FreshStart, Shapes
  <1>5. node \in Node /\ node.dir = FALSE
    <2>1. Chunk(n) \in Seq(Nat) BY <1>1, <1>2, ChunkType DEF Shapes
    <2>2. <<>> \in Seq(Nat) OBVIOUS
    <2> QED BY <2>1, <2>2 DEF Node
  <1> HIDE DEF node
  <1>6. DOMAIN root' = DOMAIN root \cup {CodePath} /\ root'[CodePath] = node BY <1>3 DEF Insert
  <1>7. root' \in [DOMAIN root' -> Node] BY <1>1, <1>3, <1>5, InsertedType DEF Shapes
  <1>8. DOMAIN root' \subseteq Seq(Components) BY <1>1, <1>6, CodePathType DEF Shapes
  <1>9. CASE OverQuota(n)
    <2>1. /\ phase' = "failed" /\ UNCHANGED <<bytes_written, stored, last, closed>>
          /\ open_fds' = Insert(open_fds, next_fd, h)
      BY <1>9 DEF Inject, quotaVars
    <2>2. h \in Handle /\ h.path = CodePath /\ h.is_dir = FALSE
      <3>1. {"FD_READ", "FD_WRITE"} \in SUBSET Rights BY DEF Rights
      <3> QED BY <3>1, CodePathType DEF Handle
    <2> HIDE DEF h
    <2>3. DOMAIN open_fds' = {next_fd} /\ open_fds'[next_fd] = h BY <1>4, <2>1 DEF Insert
    <2>4. open_fds' \in [DOMAIN open_fds' -> Handle]
      BY <1>1, <2>1, <2>2, InsertedType DEF Shapes
    <2>5. Shapes' BY <1>1, <1>3, <1>4, <1>7, <1>8, <2>1, <2>3, <2>4 DEF Shapes
    <2>6. Numbered'
      <3>1. IsFiniteSet({next_fd}) /\ Cardinality({next_fd}) = 1 BY FS_Singleton
      <3>2. Cardinality(DOMAIN open_fds') <= MAX_FDS BY <2>3, <3>1, VfsAssumption
      <3>3. next_fd < next_fd' BY <1>3, <1>4
      <3> QED BY <1>4, <2>1, <2>3, <3>1, <3>2, <3>3 DEF Numbered
    <2>7. HandlesValid' BY <1>5, <1>6, <2>2, <2>3 DEF HandlesValid
    <2>8. FdsNotReused' BY <1>4, <2>1 DEF FdsNotReused
    <2>9. FreshStart' BY <2>1 DEF FreshStart
    <2> QED BY <2>5, <2>6, <2>7, <2>8, <2>9 DEF TableInv
  <1>10. CASE ~OverQuota(n)
    <2>1. /\ phase' = "running" /\ UNCHANGED open_fds /\ closed' = closed \union {next_fd}
          /\ bytes_written' = bytes_written + n /\ stored' = stored + n /\ last' = last + n
      BY <1>10 DEF Inject
    <2>2. bytes_written' \in Nat /\ stored' \in Nat /\ last' \in Nat BY <1>1, <1>2, <2>1 DEF Shapes
    <2>3. Shapes' BY <1>1, <1>3, <1>4, <1>7, <1>8, <2>1, <2>2 DEF Shapes
    <2>4. Numbered'
      <3>1. next_fd < next_fd' BY <1>3, <1>4
      <3> QED BY <1>1, <1>4, <2>1, <3>1 DEF Numbered
    <2>5. HandlesValid' /\ FdsNotReused' BY <1>4, <2>1 DEF HandlesValid, FdsNotReused
    <2>6. FreshStart' BY <2>1 DEF FreshStart
    <2> QED BY <2>3, <2>4, <2>5, <2>6 DEF TableInv
  <1> QED BY <1>9, <1>10

\* An operation of the guest with its arguments, whichever way the call began.
LEMMA IoStep ==
  ASSUME Shapes
  PROVE  /\ \A fd \in GuestFds, iovs \in IovLists : fd \in Nat /\ iovs \in Seq(Int) /\ iovs # <<>>
         /\ call # NoCall => call.fd \in Nat /\ call.iovs \in Seq(Int) /\ call.iovs # <<>>
  BY CallParts, VfsAssumption DEF GuestFds

LEMMA NextTable ==
  ASSUME TableInv, [VfsNext]_vfs
  PROVE  TableInv'
  <1>1. Shapes BY DEF TableInv
  <1>2. CASE UNCHANGED vfs
    BY <1>2 DEF vfs, TableInv, Shapes, Numbered, FreshStart, HandlesValid, FdsNotReused
  <1>3. ASSUME NEW n \in CodeSizes, Inject(n) PROVE TableInv' BY <1>3, InjectKeeps
  <1>4. ASSUME NEW raw \in GuestPaths, NEW mode \in OpenModes,
               PathOpen(raw, mode) \/ PathOpenRefused(raw, mode)
        PROVE  TableInv'
    BY <1>2, <1>4, OpenKeeps DEF PathOpenRefused
  <1>5. ASSUME NEW fd \in GuestFds, NEW iovs \in IovLists, FdIo(fd, iovs) PROVE TableInv'
    BY <1>1, <1>5, IoStep, IoKeeps
  <1>6. ASSUME call # NoCall, FdIo(call.fd, call.iovs) PROVE TableInv'
    BY <1>1, <1>6, IoStep, IoKeeps
  <1>7. ASSUME NEW fd \in GuestFds, NEW offset \in Offsets, NEW whence \in {"SET", "CUR", "END"},
               FdSeek(fd, offset, whence)
        PROVE  TableInv'
    BY <1>7, SeekKeeps
  <1>8. ASSUME NEW fd \in GuestFds, FdClose(fd) PROVE TableInv' BY <1>8, CloseKeeps
  <1>9. CASE Collect
    <2>1. /\ phase' = "collected" /\ ring' = [f \in Stdio |-> <<>>]
          /\ UNCHANGED <<root, open_fds, next_fd, closed, bytes_written, stored, said, call, last>>
      BY <1>9 DEF Collect, fileVars, fdVars, quotaVars
    <2>2. ring' \in [Stdio -> Seq(Nat)] BY <2>1
    <2> QED BY <1>1, <2>1, <2>2, OtherKeeps DEF Shapes
  <1> QED BY <1>2, <1>3, <1>4, <1>5, <1>6, <1>7, <1>8, <1>9 DEF VfsNext, Done

LEMMA TableSuffices == TableInv => DescriptorsSound
  <1> SUFFICES ASSUME TableInv PROVE VfsTypeOK BY DEF TableInv, DescriptorsSound
  <1>1. Shapes /\ Numbered BY DEF TableInv
  <1>2. \A p \in DOMAIN root : /\ p \in Seq(Components)
                               /\ root[p].dir \in BOOLEAN /\ root[p].data \in Seq(Bytes)
    BY <1>1 DEF Shapes, Node, Bytes
  <1>3. \A fd \in DOMAIN open_fds : fd \in Nat /\ open_fds[fd] \in Handle BY <1>1 DEF Shapes
  <1>4. call.op \in {"none", "write", "read"} /\ call.fd \in Nat /\ call.iovs \in Seq(Int)
    BY <1>1 DEF Shapes, Calls
  <1> QED BY <1>1, <1>2, <1>3, <1>4 DEF VfsTypeOK, Shapes, Numbered, Bytes

\* The descriptor table of a sandbox stays sound over any sequence of opens,
\* closes, reads, writes and seeks, for every table size and set of paths.
THEOREM DescriptorsHold == VfsSpec => []DescriptorsSound
  BY InitTable, NextTable, TableSuffices, PTL DEF VfsSpec

-----------------------------------------------------------------------------
(* APPEND writes. *)

LEMMA PrefixIs ==
  ASSUME NEW s \in Seq(Nat), NEW t \in Seq(Nat), Len(s) <= Len(t),
         \A i \in 1 .. Len(s) : s[i] = t[i]
  PROVE  IsPrefix(s, t)
  <1>1. SubSeq(s, 1, Len(s)) = s OBVIOUS
  <1>2. SubSeq(t, 1, Len(s)) \in Seq(Nat) /\ Len(SubSeq(t, 1, Len(s))) = Len(s) OBVIOUS
  <1>3. \A i \in 1 .. Len(s) : SubSeq(t, 1, Len(s))[i] = s[i] OBVIOUS
  <1>4. SubSeq(t, 1, Len(s)) = s BY <1>2, <1>3
  <1> QED BY <1>1, <1>4 DEF IsPrefix

AppendStep ==
  \A fd \in DOMAIN open_fds \intersect DOMAIN open_fds' :
    LET h == open_fds[fd] IN
    (h.append /\ stored' > stored /\ open_fds'[fd].position # h.position)
      => IsPrefix(root[h.path].data, root'[h.path].data)

LEMMA StoredMoves ==
  ASSUME TableInv, VfsNext, stored' > stored
  PROVE  \/ DOMAIN open_fds = {}
         \/ \E fd \in DOMAIN open_fds, n \in Nat : Store(fd, n)
  <1>1. Shapes BY DEF TableInv
  <1>2. stored' # stored BY <1>1 DEF Shapes
  <1>3. ASSUME NEW fd \in Nat, NEW iovs \in Seq(Int), iovs # <<>>, FdIo(fd, iovs)
        PROVE  \E f \in DOMAIN open_fds, n \in Nat : Store(f, n)
    <2>1. FdWriteIov(fd, iovs)
      BY <1>2, <1>3 DEF FdIo, FdWriteRing, FdWriteFails, FdReadIov, FdReadFails, quotaVars
    <2>2. fd \in DOMAIN open_fds /\ Head(iovs) \in Nat /\ Store(fd, Head(iovs))
      BY <1>3, <2>1, HeadType DEF FdWriteIov, Writable
    <2> QED BY <2>2
  <1>4. ASSUME NEW n \in CodeSizes, Inject(n) PROVE DOMAIN open_fds = {}
    BY <1>4 DEF Inject, TableInv, FreshStart
  <1>5. CASE \E n \in CodeSizes : Inject(n) BY <1>4, <1>5
  <1>6. CASE call = NoCall /\ \E fd \in GuestFds, iovs \in IovLists : FdIo(fd, iovs)
    BY <1>1, <1>3, <1>6, IoStep
  <1>7. CASE call # NoCall /\ FdIo(call.fd, call.iovs) BY <1>1, <1>3, <1>7, IoStep
  <1> QED
    BY <1>2, <1>5, <1>6, <1>7
       DEF VfsNext, PathOpen, PathOpenRefused, FdSeek, FdClose, Collect, Done, quotaVars, vfs

LEMMA AppendNext ==
  ASSUME TableInv, VfsNext
  PROVE  AppendStep
  <1> SUFFICES ASSUME NEW fd \in DOMAIN open_fds \intersect DOMAIN open_fds',
                      open_fds[fd].append, stored' > stored,
                      open_fds'[fd].position # open_fds[fd].position
               PROVE  IsPrefix(root[open_fds[fd].path].data, root'[open_fds[fd].path].data)
    BY DEF AppendStep
  <1> DEFINE p == open_fds[fd].path
             data == root[p].data
  <1>1. Shapes /\ HandlesValid BY DEF TableInv
  <1>2. PICK f \in DOMAIN open_fds, n \in Nat : Store(f, n) BY StoredMoves
  <1>3. PICK q \in Nat : open_fds' = [open_fds EXCEPT ![f].position = q]
    <2>1. /\ open_fds' = [open_fds EXCEPT ![f].position = WritePosition(open_fds[f]) + n]
          /\ WritePosition(open_fds[f]) + n \in Nat
      BY <1>1, <1>2, StoreIs
    <2> QED BY <2>1
  <1>4. f = fd BY <1>1, <1>3, Moved
  <1>5. WritePosition(open_fds[fd]) = Len(data) BY DEF WritePosition
  <1>0. root'[open_fds[f].path].data
          = Overlay(root[open_fds[f].path].data, WritePosition(open_fds[f]), Chunk(n))
    BY <1>1, <1>2, StoreIs
  <1>6. root'[p].data = Overlay(data, Len(data), Chunk(n))
    <2> HIDE DEF data
    <2> QED BY <1>0, <1>4, <1>5 DEF data
  <1>7. data \in Seq(Nat) /\ Len(data) \in Nat BY <1>1, WritePositionType
  <1>8. Chunk(n) \in Seq(Nat) /\ Len(Chunk(n)) = n BY <1>1, ChunkType DEF Shapes
  <1> DEFINE new == Overlay(data, Len(data), Chunk(n))
  <1> HIDE DEF data
  <1>9. /\ new \in Seq(Nat)
        /\ Len(new) = IF Len(data) >= Len(data) + Len(Chunk(n)) THEN Len(data)
                      ELSE Len(data) + Len(Chunk(n))
        /\ \A i \in 1 .. Len(new) :
             new[i] = IF i \in Len(data) + 1 .. Len(data) + Len(Chunk(n)) THEN Chunk(n)[i - Len(data)]
                      ELSE IF i <= Len(data) THEN data[i] ELSE 0
    BY <1>7, <1>8, OverlayIs
  <1> HIDE DEF new
  <1>10. Len(data) <= Len(new) BY <1>7, <1>8, <1>9
  <1>11. ASSUME NEW i \in 1 .. Len(data) PROVE data[i] = new[i]
    <2>1. i \in 1 .. Len(new) /\ i <= Len(data) BY <1>7, <1>8, <1>9
    <2>2. i \notin Len(data) + 1 .. Len(data) + Len(Chunk(n)) BY <1>7, <1>8
    <2> QED BY <1>9, <2>1, <2>2
  <1>12. IsPrefix(data, new) BY <1>7, <1>9, <1>10, <1>11, PrefixIs
  <1> QED BY <1>6, <1>12 DEF data, new

\* A write through an APPEND descriptor never moves or overwrites a byte of the
\* file, whatever other descriptors did to it since.
THEOREM AppendHolds == VfsSpec => AppendKeeps
  <1>1. TableInv /\ [VfsNext]_vfs => [AppendStep]_vfs BY AppendNext
  <1>2. VfsSpec => []TableInv BY InitTable, NextTable, PTL DEF VfsSpec
  <1>3. [][AppendStep]_vfs => AppendKeeps BY DEF AppendStep, AppendKeeps
  <1> QED BY <1>1, <1>2, <1>3, PTL DEF VfsSpec

-----------------------------------------------------------------------------
(* The rings of stdout and stderr. *)

\* out is the end of all.
Ends(out, all) ==
  /\ out \in Seq(Nat) /\ Len(out) <= Len(all)
  /\ \A i \in 1 .. Len(out) : out[i] = all[(Len(all) - Len(out)) + i]

Out(f) == IF phase = "collected" THEN result.out[f] ELSE ring[f]

\* How long the kept end of a stream of length a is.
KeptLen(len, a, capacity, at) ==
  IF at = NoBurst THEN len <= capacity /\ (len = capacity \/ len = a)
  ELSE at \in Nat /\ len = a - at /\ len > capacity

\* The newest bytes, as many of them as the ring keeps.
OutputInv ==
  /\ burst = [f \in Stdio |-> burst[f]]
  /\ \A f \in Stdio : /\ Ends(Out(f), said[f])
                      /\ KeptLen(Len(Out(f)), Len(said[f]), Capacity(f), burst[f])

LEMMA EndsIsSuffix ==
  ASSUME NEW out, NEW all \in Seq(Nat), Ends(out, all)
  PROVE  IsSuffix(out, all)
  <1> DEFINE s == Reverse(out)
             t == Reverse(all)
  <1>1. out \in Seq(Nat) /\ Len(out) \in Nat /\ Len(all) \in Nat /\ Len(out) <= Len(all) BY DEF Ends
  <1>2. ASSUME NEW q \in Seq(Nat)
        PROVE  /\ Reverse(q) \in Seq(Nat) /\ Len(Reverse(q)) = Len(q)
               /\ \A i \in 1 .. Len(q) : Reverse(q)[i] = q[(Len(q) - i) + 1]
    <2>1. Len(q) \in Nat OBVIOUS
    <2>2. \A i \in 1 .. Len(q) : (Len(q) - i) + 1 \in 1 .. Len(q) BY <2>1
    <2>3. Reverse(q) \in [1 .. Len(q) -> Nat] BY <2>2 DEF Reverse
    <2> QED BY <2>1, <2>3, MapIsSeq DEF Reverse
  <1>3. ASSUME NEW i \in 1 .. Len(s) PROVE s[i] = t[i]
    <2>1. Len(s) = Len(out) /\ Len(t) = Len(all) BY <1>1, <1>2
    <2>2. i \in 1 .. Len(out) /\ i \in 1 .. Len(all) BY <1>1, <2>1
    <2>3. s[i] = out[(Len(out) - i) + 1] /\ t[i] = all[(Len(all) - i) + 1] BY <1>1, <1>2, <2>2
    <2>4. (Len(out) - i) + 1 \in 1 .. Len(out) BY <1>1, <2>2
    <2>5. out[(Len(out) - i) + 1] = all[(Len(all) - Len(out)) + ((Len(out) - i) + 1)]
      BY <2>4 DEF Ends
    <2>6. (Len(all) - Len(out)) + ((Len(out) - i) + 1) = (Len(all) - i) + 1 BY <1>1, <2>2
    <2> HIDE DEF s, t
    <2> QED BY <2>3, <2>5, <2>6
  <1>4. s \in Seq(Nat) /\ t \in Seq(Nat) /\ Len(s) <= Len(t) BY <1>1, <1>2
  <1> HIDE DEF s, t
  <1>5. IsPrefix(s, t) BY <1>3, <1>4, PrefixIs
  <1> QED BY <1>5 DEF IsSuffix, s, t

LEMMA CatIs ==
  ASSUME NEW s \in Seq(Nat), NEW t \in Seq(Nat)
  PROVE  /\ Len(s \o t) = Len(s) + Len(t)
         /\ \A j \in 1 .. Len(s) + Len(t) :
              (s \o t)[j] = IF j <= Len(s) THEN s[j] ELSE t[j - Len(s)]
  OBVIOUS

\* What RingBuffer::write keeps, for a buffer that held the end of the stream.
LEMMA RingWriteEnds ==
  ASSUME NEW buf, NEW all \in Seq(Nat), Ends(buf, all), NEW capacity \in Nat, NEW chunk \in Seq(Nat)
  PROVE  LET new == RingWrite(buf, capacity, chunk) IN
         /\ Ends(new, all \o chunk)
         /\ Len(new) = IF Len(buf) > capacity \/ Len(chunk) <= capacity - Len(buf)
                       THEN Len(buf) + Len(chunk)
                       ELSE IF Len(chunk) <= capacity THEN capacity ELSE Len(chunk)
  <1> DEFINE new == RingWrite(buf, capacity, chunk)
             cut == IF Len(buf) > capacity \/ Len(chunk) <= capacity - Len(buf) THEN 0
                    ELSE IF Len(chunk) - (capacity - Len(buf)) <= Len(buf)
                    THEN Len(chunk) - (capacity - Len(buf)) ELSE Len(buf)
             b == Len(buf)
             c == Len(chunk)
             a == Len(all)
             kept == SubSeq(buf, cut + 1, b)
  <1>1. buf \in Seq(Nat) /\ b \in Nat /\ c \in Nat /\ a \in Nat /\ b <= a BY DEF Ends
  <1>2. cut \in 0 .. b /\ new = kept \o chunk /\ new \in Seq(Nat) BY <1>1, RingWriteType
  <1>3. b - cut + c = IF b > capacity \/ c <= capacity - b THEN b + c
                      ELSE IF c <= capacity THEN capacity ELSE c
    <2>1. CASE b > capacity \/ c <= capacity - b
      <3>1. cut = 0 BY <2>1
      <3> QED BY <1>1, <2>1, <3>1
    <2>2. CASE ~(b > capacity \/ c <= capacity - b) /\ c <= capacity
      <3>1. c - (capacity - b) <= b BY <1>1, <2>2
      <3>2. cut = c - (capacity - b) BY <2>2, <3>1
      <3> HIDE DEF cut
      <3> QED BY <1>1, <2>2, <3>2
    <2>3. CASE ~(b > capacity \/ c <= capacity - b) /\ ~(c <= capacity)
      <3>1. ~(c - (capacity - b) <= b) BY <1>1, <2>3
      <3>2. cut = b BY <2>3, <3>1
      <3> HIDE DEF cut
      <3> QED BY <1>1, <2>3, <3>2
    <2> QED BY <2>1, <2>2, <2>3
  <1> HIDE DEF new, cut
  <1>4. /\ kept \in Seq(Nat) /\ Len(kept) = b - cut
        /\ \A i \in 1 .. b - cut : kept[i] = buf[cut + i]
    <2>1. cut + 1 \in 1 .. b + 1 /\ cut \in Nat BY <1>1, <1>2
    <2>2. kept \in Seq(Nat)
      <3>1. \A i \in cut + 1 .. b : buf[i] \in Nat BY <1>1, <2>1
      <3> QED BY <1>1, <2>1, <3>1
    <2>3. Len(kept) = b - cut BY <1>1, <1>2, <2>1
    <2>4. ASSUME NEW i \in 1 .. b - cut PROVE kept[i] = buf[cut + i]
      <3>1. i \in 1 .. (b - (cut + 1)) + 1 /\ (cut + 1) + i - 1 = cut + i BY <1>1, <2>1
      <3>2. kept[i] = buf[(cut + 1) + i - 1] BY <1>1, <2>1, <3>1
      <3> QED BY <3>1, <3>2
    <2> QED BY <2>2, <2>3, <2>4
  <1> HIDE DEF kept
  <1>0. /\ Len(kept \o chunk) = Len(kept) + c
        /\ \A j \in 1 .. Len(kept) + c :
             (kept \o chunk)[j] = IF j <= Len(kept) THEN kept[j] ELSE chunk[j - Len(kept)]
    BY <1>4, CatIs
  <1>5. Len(new) = b - cut + c BY <1>0, <1>2, <1>4
  <1>6. Len(all \o chunk) = a + c /\ all \o chunk \in Seq(Nat) OBVIOUS
  <1>7. ASSUME NEW i \in 1 .. Len(new) PROVE new[i] = (all \o chunk)[((a + c) - Len(new)) + i]
    <2>1. ((a + c) - Len(new)) + i = (a - b) + cut + i BY <1>1, <1>2, <1>5
    <2>2. CASE i <= b - cut
      <3>1. i \in 1 .. b - cut /\ cut + i \in 1 .. b BY <1>1, <1>2, <1>5, <2>2
      <3>2. new[i] = buf[cut + i] BY <1>1, <1>2, <1>4, <3>1
      <3>3. buf[cut + i] = all[(a - b) + (cut + i)] BY <3>1 DEF Ends
      <3>4. (a - b) + (cut + i) \in 1 .. a
        <4> DEFINE k == cut + i
        <4>1. k \in 1 .. b BY <3>1
        <4> HIDE DEF k
        <4>2. (a - b) + k \in 1 .. a BY ONLY <1>1, <4>1
        <4> QED BY <4>2 DEF k
      <3>5. (all \o chunk)[(a - b) + (cut + i)] = all[(a - b) + (cut + i)] BY <3>4
      <3>6. (a - b) + (cut + i) = (a - b) + cut + i BY <1>1, <1>2
      <3> QED BY <2>1, <3>2, <3>3, <3>5, <3>6
    <2>3. CASE ~(i <= b - cut)
      <3>1. i - (b - cut) \in 1 .. c /\ i \in Nat BY <1>1, <1>2, <1>5, <2>3
      <3>2. new[i] = chunk[i - (b - cut)] BY <1>0, <1>2, <1>4, <1>5, <2>3
      <3>3. a + (i - (b - cut)) \in a + 1 .. a + c BY <1>1, <3>1
      <3>4. (all \o chunk)[a + (i - (b - cut))] = chunk[i - (b - cut)]
        <4> DEFINE k == i - (b - cut)
        <4>1. k \in 1 .. c BY <3>1
        <4> HIDE DEF k
        <4>2. a + k \in 1 .. a + c /\ ~(a + k <= a) /\ (a + k) - a = k BY <1>1, <4>1
        <4>3. (all \o chunk)[a + k] = chunk[(a + k) - a] BY <4>2, CatIs
        <4>4. (all \o chunk)[a + k] = chunk[k] BY <4>2, <4>3
        <4> QED BY <4>4 DEF k
      <3>5. a + (i - (b - cut)) = (a - b) + cut + i BY <1>1, <1>2, <3>1
      <3> QED BY <2>1, <3>2, <3>4, <3>5
    <2> QED BY <1>1, <1>2, <1>5, <2>2, <2>3
  <1>8. Ends(new, all \o chunk)
    <2>1. Len(new) <= a + c BY <1>1, <1>2, <1>5
    <2> QED BY <1>2, <1>6, <1>7, <2>1 DEF Ends
  <1> QED BY <1>3, <1>5, <1>8 DEF new

LEMMA InitOutput == VfsInit => OutputInv
  <1> SUFFICES ASSUME VfsInit, NEW f \in Stdio
               PROVE  /\ Ends(Out(f), said[f])
                      /\ KeptLen(Len(Out(f)), Len(said[f]), Capacity(f), burst[f])
    BY DEF OutputInv, VfsInit
  <1>1. Out(f) = <<>> /\ said[f] = <<>> /\ burst[f] = NoBurst BY DEF VfsInit, Out
  <1>2. Capacity(f) \in Nat BY CapacityType
  <1>3. Len(<<>>) = 0 /\ 0 <= Capacity(f) BY <1>2
  <1>4. KeptLen(Len(Out(f)), Len(said[f]), Capacity(f), burst[f]) BY <1>1, <1>3 DEF KeptLen
  <1> QED BY <1>1, <1>4 DEF Ends

\* Writing c bytes keeps the length right: a chunk longer than the ring replaces
\* what it held, and after that nothing is dropped.
LEMMA KeptLenStep ==
  ASSUME NEW b \in Nat, NEW a \in Nat, NEW c \in Nat, NEW capacity \in Nat, NEW at,
         b <= a, KeptLen(b, a, capacity, at)
  PROVE  KeptLen(IF b > capacity \/ c <= capacity - b THEN b + c
                 ELSE IF c <= capacity THEN capacity ELSE c,
                 a + c, capacity, IF at = NoBurst /\ c > capacity THEN a ELSE at)
  <1>0. a # NoBurst BY DEF NoBurst
  <1>1. CASE at # NoBurst
    <2>1. at \in Nat /\ b = a - at /\ b > capacity BY <1>1 DEF KeptLen
    <2> QED BY <1>1, <2>1 DEF KeptLen
  <1>2. CASE at = NoBurst /\ c > capacity
    <2>1. b <= capacity BY <1>2 DEF KeptLen
    <2>2. ~(b > capacity \/ c <= capacity - b) /\ ~(c <= capacity) BY <1>2, <2>1
    <2>3. a + c - a = c BY <1>2
    <2> QED BY <1>0, <1>2, <2>2, <2>3 DEF KeptLen
  <1>3. CASE at = NoBurst /\ ~(c > capacity)
    <2>1. b <= capacity /\ (b = capacity \/ b = a) BY <1>3 DEF KeptLen
    <2> QED BY <1>3, <2>1 DEF KeptLen
  <1> QED BY <1>1, <1>2, <1>3

LEMMA NextOutput ==
  ASSUME TableInv, OutputInv, [VfsNext]_vfs
  PROVE  OutputInv'
  <1>1. Shapes BY DEF TableInv
  <1>2. CASE burst' = burst /\ \A f \in Stdio : Out(f)' = Out(f) /\ said'[f] = said[f]
    <2>1. \A f \in Stdio : Capacity(f)' = Capacity(f) BY DEF Capacity
    <2> QED BY <1>2, <2>1 DEF OutputInv
  <1>3. CASE Collect
    <2>1. /\ phase = "running" /\ phase' = "collected" /\ UNCHANGED <<said, burst>>
          /\ result' = [files |-> Snapshot, out |-> ring]
      BY <1>3 DEF Collect
    <2>2. result'.out = ring BY <2>1
    <2>3. \A f \in Stdio : Out(f)' = Out(f) BY <2>1, <2>2 DEF Out
    <2> QED BY <1>2, <2>1, <2>3
  <1>4. ASSUME NEW fd \in Nat, NEW iovs \in Seq(Int), iovs # <<>>, FdIo(fd, iovs)
        PROVE  OutputInv'
    <2>1. CASE UNCHANGED <<phase, ring, result, said, burst>>
      <3>1. \A f \in Stdio : Out(f)' = Out(f) /\ said'[f] = said[f] BY <2>1 DEF Out
      <3> QED BY <1>2, <2>1, <3>1
    <2>2. CASE FdWriteRing(fd, iovs)
      <3> DEFINE n == Head(iovs)
                 chunk == Chunk(n)
      <3>1. /\ phase = "running" /\ phase' = "running" /\ fd \in Stdio /\ n \in Nat
            /\ ring' = [ring EXCEPT ![fd] = RingWrite(@, Capacity(fd), chunk)]
            /\ said' = [said EXCEPT ![fd] = @ \o chunk]
            /\ burst' = [burst EXCEPT ![fd] = IF @ = NoBurst /\ n > Capacity(fd) THEN Len(said[fd]) ELSE @]
        BY <1>4, <2>2, HeadType DEF FdWriteRing, Processes
      <3>2. chunk \in Seq(Nat) /\ Len(chunk) = n BY <1>1, <3>1, ChunkType DEF Shapes
      <3>0. burst = [f \in Stdio |-> burst[f]] BY DEF OutputInv
      <3> HIDE DEF chunk, n
      <3>3. ring \in [Stdio -> Seq(Nat)] /\ said \in [Stdio -> Seq(Nat)] BY <1>1 DEF Shapes
      <3>4. ASSUME NEW f \in Stdio
            PROVE  /\ Ends(ring'[f], said'[f])
                   /\ KeptLen(Len(ring'[f]), Len(said'[f]), Capacity(f), burst'[f])
        <4>1. /\ Ends(ring[f], said[f])
              /\ KeptLen(Len(ring[f]), Len(said[f]), Capacity(f), burst[f])
          BY <3>1 DEF OutputInv, Out
        <4>2. CASE f # fd
          <5>1. ring'[f] = ring[f] /\ said'[f] = said[f] /\ burst'[f] = burst[f]
            BY <3>0, <3>1, <3>3, <4>2
          <5> QED BY <4>1, <5>1
        <4>3. CASE f = fd
          <5>1. ring'[f] = RingWrite(ring[f], Capacity(f), chunk) /\ said'[f] = said[f] \o chunk
            BY <3>1, <3>3, <4>3
          <5>2. Capacity(f) \in Nat BY CapacityType
          <5>3. said[f] \in Seq(Nat) BY <3>3
          <5> DEFINE b == Len(ring[f])
                     a == Len(said[f])
                     cap == Capacity(f)
          <5>4. /\ Ends(RingWrite(ring[f], cap, chunk), said[f] \o chunk)
                /\ Len(RingWrite(ring[f], cap, chunk)) =
                     IF b > cap \/ Len(chunk) <= cap - b THEN b + Len(chunk)
                     ELSE IF Len(chunk) <= cap THEN cap ELSE Len(chunk)
            BY <3>2, <4>1, <5>2, <5>3, RingWriteEnds
          <5>5. Ends(ring'[f], said'[f]) BY <5>1, <5>4
          <5>6. Len(ring'[f]) = IF b > cap \/ n <= cap - b THEN b + n
                                ELSE IF n <= cap THEN cap ELSE n
            <6> HIDE DEF b, cap
            <6> QED BY <3>2, <5>1, <5>4 DEF cap
          <5>7. Len(said[f] \o chunk) = a + Len(chunk) /\ a \in Nat
            <6>1. Len(said[f] \o chunk) = Len(said[f]) + Len(chunk)
              BY ONLY <3>2, <5>3, CatIs
            <6>2. Len(said[f]) \in Nat BY ONLY <5>3
            <6> QED BY <6>1, <6>2
          <5>8. Len(said'[f]) = a + n BY <3>2, <5>1, <5>7
          <5>9. burst'[f] = IF burst[f] = NoBurst /\ n > cap THEN a ELSE burst[f]
            BY <3>0, <3>1, <4>3
          <5>10. b \in Nat /\ b <= a /\ KeptLen(b, a, cap, burst[f]) /\ cap \in Nat /\ n \in Nat
            BY <3>1, <4>1, <5>2 DEF Ends
          <5>11. KeptLen(Len(ring'[f]), Len(said'[f]), cap, burst'[f])
            <6> HIDE DEF a, b, cap
            <6>1. KeptLen(IF b > cap \/ n <= cap - b THEN b + n ELSE IF n <= cap THEN cap ELSE n,
                          a + n, cap, IF burst[f] = NoBurst /\ n > cap THEN a ELSE burst[f])
              BY <5>7, <5>10, KeptLenStep
            <6> QED BY <5>6, <5>8, <5>9, <6>1
          <5> QED BY <5>5, <5>11
        <4> QED BY <4>2, <4>3
      <3>5. \A f \in Stdio : Out(f)' = ring'[f] BY <3>1 DEF Out
      <3>6. \A f \in Stdio : Capacity(f)' = Capacity(f) BY DEF Capacity
      <3>7. burst' = [f \in Stdio |-> burst'[f]] BY <3>0, <3>1
      <3> QED BY <3>4, <3>5, <3>6, <3>7 DEF OutputInv
    <2> QED
      BY <1>4, <2>1, <2>2
         DEF FdIo, FdWriteIov, FdWriteFails, FdReadIov, FdReadFails, ringVars
  <1>5. CASE UNCHANGED <<phase, ring, result, said, burst>>
    <2>1. \A f \in Stdio : Out(f)' = Out(f) /\ said'[f] = said[f] BY <1>5 DEF Out
    <2> QED BY <1>2, <1>5, <2>1
  <1>6. ASSUME NEW n \in CodeSizes, Inject(n) PROVE OutputInv'
    <2>1. phase # "collected" /\ phase' # "collected" /\ UNCHANGED <<ring, said, burst>>
      BY <1>6 DEF Inject, ringVars
    <2>2. \A f \in Stdio : Out(f)' = Out(f) /\ said'[f] = said[f] BY <2>1 DEF Out
    <2> QED BY <1>2, <2>1, <2>2
  <1>7. CASE call = NoCall /\ \E fd \in GuestFds, iovs \in IovLists : FdIo(fd, iovs)
    BY <1>1, <1>4, <1>7, IoStep
  <1>8. CASE call # NoCall /\ FdIo(call.fd, call.iovs) BY <1>1, <1>4, <1>8, IoStep
  <1> QED
    BY <1>3, <1>5, <1>6, <1>7, <1>8
       DEF VfsNext, vfs, PathOpen, PathOpenRefused, FdSeek, FdClose, Done, ringVars

\* What execute returns of stdout and stderr is the newest end of what the guest
\* said: as much as the ring holds, or all from the first chunk on that was too
\* long for it, for every capacity and every size of the writes.
THEOREM OutputHolds == VfsSpec => []OutputIsNewest
  <1>1. TableInv /\ OutputInv => OutputIsNewest
    <2> SUFFICES ASSUME TableInv, OutputInv, NEW f \in Stdio
                 PROVE  /\ IsSuffix(Out(f), said[f])
                        /\ Len(Out(f)) = IF burst[f] = NoBurst THEN Min({Capacity(f), Len(said[f])})
                                         ELSE Len(said[f]) - burst[f]
      BY DEF OutputIsNewest, Out
    <2>1. said[f] \in Seq(Nat) /\ Len(said[f]) \in Nat BY DEF TableInv, Shapes
    <2>2. Ends(Out(f), said[f]) /\ KeptLen(Len(Out(f)), Len(said[f]), Capacity(f), burst[f])
      BY DEF OutputInv
    <2>3. IsSuffix(Out(f), said[f]) BY <2>1, <2>2, EndsIsSuffix
    <2>4. /\ Capacity(f) \in Nat /\ Len(Out(f)) \in Nat /\ Len(Out(f)) <= Len(said[f])
      BY <2>2, CapacityType DEF Ends
    <2>5. Min({Capacity(f), Len(said[f])}) =
            IF Capacity(f) <= Len(said[f]) THEN Capacity(f) ELSE Len(said[f])
      <3>1. \A a, b \in Int : Min({a, b}) = IF a <= b THEN a ELSE b BY MinOfTwo
      <3>2. Capacity(f) \in Int /\ Len(said[f]) \in Int BY <2>1, <2>4
      <3> QED BY ONLY <3>1, <3>2
    <2> QED BY <2>1, <2>2, <2>3, <2>4, <2>5 DEF KeptLen
  <1>2. VfsSpec => []TableInv BY InitTable, NextTable, PTL DEF VfsSpec
  <1>3. VfsSpec => []OutputInv BY <1>2, InitOutput, NextOutput, PTL DEF VfsSpec
  <1> QED BY <1>1, <1>2, <1>3, PTL

-----------------------------------------------------------------------------
(* The files and their writes. *)

\* data is what the writes W leave: <<a, b>> is byte b written at offset a, a
\* later byte having a higher number, none of them above top.
OfWrites(data, W, top) ==
  /\ data \in Seq(Nat) /\ W \subseteq Nat \X Nat
  /\ Len(data) = 0 \/ \E b \in Nat : <<Len(data), b>> \in W
  /\ \A a, b \in Nat : <<a, b>> \in W => a <= Len(data) /\ b <= top
  /\ \A i \in 1 .. Len(data) : /\ data[i] = 0 \/ <<i, data[i]>> \in W
                               /\ \A b \in Nat : <<i, b>> \in W => b <= data[i]

FilesInv ==
  /\ DOMAIN wrote = Files
  /\ wrote = [p \in Files |-> wrote[p]]
  /\ \A p \in Files : OfWrites(root[p].data, wrote[p], last)
  /\ phase = "collected" => result.files = Snapshot

LEMMA OfWritesLater ==
  ASSUME NEW data, NEW W, NEW top \in Nat, OfWrites(data, W, top), NEW later \in Nat, top <= later
  PROVE  OfWrites(data, W, later)
  BY DEF OfWrites

LEMMA OfNoWrites == ASSUME NEW top PROVE OfWrites(<<>>, {}, top)
  BY DEF OfWrites

\* The bytes a write adds to the history.
LEMMA WriteAdds ==
  ASSUME NEW W, W \subseteq Nat \X Nat, NEW pos \in Nat, NEW n \in Nat, NEW top \in Nat, NEW V,
         V = W \union {<<pos, 0>>} \union {<<pos + i, top + i>> : i \in 1 .. n}
  PROVE  /\ V \subseteq Nat \X Nat
         /\ \A a, b \in Nat :
              <<a, b>> \in V <=> \/ <<a, b>> \in W
                                 \/ a = pos /\ b = 0
                                 \/ a \in pos + 1 .. pos + n /\ b = top + (a - pos)
  <1>1. \A i \in 1 .. n : pos + i \in Nat /\ top + i \in Nat OBVIOUS
  <1>2. {<<pos + i, top + i>> : i \in 1 .. n} \subseteq Nat \X Nat BY <1>1
  <1>3. V \subseteq Nat \X Nat BY <1>2
  <1>4. ASSUME NEW a \in Nat, NEW b \in Nat
        PROVE  (\E i \in 1 .. n : <<a, b>> = <<pos + i, top + i>>)
                 <=> a \in pos + 1 .. pos + n /\ b = top + (a - pos)
    <2>1. ASSUME NEW i \in 1 .. n, <<a, b>> = <<pos + i, top + i>>
          PROVE  a \in pos + 1 .. pos + n /\ b = top + (a - pos)
      <3>1. a = pos + i /\ b = top + i BY <2>1
      <3> QED BY <3>1
    <2>2. ASSUME a \in pos + 1 .. pos + n, b = top + (a - pos)
          PROVE  \E i \in 1 .. n : <<a, b>> = <<pos + i, top + i>>
      <3>1. a - pos \in 1 .. n /\ a = pos + (a - pos) BY <2>2
      <3> QED BY <2>2, <3>1
    <2> QED BY <2>1, <2>2
  <1>5. ASSUME NEW a \in Nat, NEW b \in Nat
        PROVE  <<a, b>> \in V <=> \/ <<a, b>> \in W
                                  \/ a = pos /\ b = 0
                                  \/ a \in pos + 1 .. pos + n /\ b = top + (a - pos)
    <2>1. <<a, b>> \in {<<pos + i, top + i>> : i \in 1 .. n}
            <=> \E i \in 1 .. n : <<a, b>> = <<pos + i, top + i>>
      OBVIOUS
    <2>2. <<a, b>> \in {<<pos, 0>>} <=> a = pos /\ b = 0 OBVIOUS
    <2> QED BY <1>4, <2>1, <2>2
  <1> QED BY <1>3, <1>5

\* Vec::resize and the copy leave what the writes, with this one, leave.
LEMMA OverlayOfWrites ==
  ASSUME NEW data, NEW W, NEW top \in Nat, OfWrites(data, W, top),
         NEW pos \in Nat, NEW n \in Nat, NEW chunk \in Seq(Nat), Len(chunk) = n,
         \A i \in 1 .. n : chunk[i] = top + i,
         NEW V, V = W \union {<<pos, 0>>} \union {<<pos + i, top + i>> : i \in 1 .. n}
  PROVE  OfWrites(Overlay(data, pos, chunk), V, top + n)
  <1> DEFINE new == Overlay(data, pos, chunk)
             end == pos + n
  <1> SUFFICES OfWrites(new, V, top + n) OBVIOUS
  <1>1. /\ data \in Seq(Nat) /\ Len(data) \in Nat /\ W \subseteq Nat \X Nat
        /\ Len(data) = 0 \/ \E b \in Nat : <<Len(data), b>> \in W
        /\ \A a, b \in Nat : <<a, b>> \in W => a <= Len(data) /\ b <= top
        /\ \A i \in 1 .. Len(data) : /\ data[i] = 0 \/ <<i, data[i]>> \in W
                                     /\ \A b \in Nat : <<i, b>> \in W => b <= data[i]
    BY DEF OfWrites
  <1>2. /\ new \in Seq(Nat)
        /\ Len(new) = IF Len(data) >= end THEN Len(data) ELSE end
        /\ \A i \in 1 .. Len(new) :
             new[i] = IF i \in pos + 1 .. end THEN chunk[i - pos]
                      ELSE IF i <= Len(data) THEN data[i] ELSE 0
    <2>1. /\ new \in Seq(Nat)
          /\ Len(new) = IF Len(data) >= pos + Len(chunk) THEN Len(data) ELSE pos + Len(chunk)
          /\ \A i \in 1 .. Len(new) :
               new[i] = IF i \in pos + 1 .. pos + Len(chunk) THEN chunk[i - pos]
                        ELSE IF i <= Len(data) THEN data[i] ELSE 0
      <3>1. data \in Seq(Nat) BY <1>1
      <3> QED BY ONLY <3>1, pos \in Nat, chunk \in Seq(Nat), OverlayIs
    <2> QED BY <2>1
  <1>3. /\ V \subseteq Nat \X Nat
        /\ \A a, b \in Nat : <<a, b>> \in V <=> \/ <<a, b>> \in W
                                                \/ a = pos /\ b = 0
                                                \/ a \in pos + 1 .. end /\ b = top + (a - pos)
    BY <1>1, WriteAdds
  <1> HIDE DEF new
  <1>4. end \in Nat /\ Len(new) \in Nat /\ end <= Len(new) /\ Len(data) <= Len(new)
    BY <1>1, <1>2
  <1>5. Len(new) = 0 \/ \E b \in Nat : <<Len(new), b>> \in V
    <2>1. CASE Len(data) >= end
      <3>1. Len(new) = Len(data) BY <1>2, <2>1
      <3> QED BY <1>1, <1>3, <3>1
    <2>2. CASE ~(Len(data) >= end) /\ n = 0
      <3>1. Len(new) = pos BY <1>2, <2>2
      <3>2. <<pos, 0>> \in V BY <1>3
      <3> QED BY <3>1, <3>2
    <2>3. CASE ~(Len(data) >= end) /\ n # 0
      <3>1. Len(new) = end /\ end \in pos + 1 .. end /\ top + (end - pos) \in Nat BY <1>2, <2>3
      <3>2. <<end, top + (end - pos)>> \in V BY <1>3, <1>4, <3>1
      <3> QED BY <3>1, <3>2
    <2> QED BY <2>1, <2>2, <2>3
  <1>6. ASSUME NEW a \in Nat, NEW b \in Nat, <<a, b>> \in V PROVE a <= Len(new) /\ b <= top + n
    <2>1. CASE <<a, b>> \in W
      <3>1. a <= Len(data) /\ b <= top BY <1>1, <2>1
      <3> QED BY <1>1, <1>4, <3>1
    <2>2. CASE a = pos /\ b = 0 BY <1>4, <2>2
    <2>3. CASE a \in pos + 1 .. end /\ b = top + (a - pos) BY <1>4, <2>3
    <2> QED BY <1>3, <1>6, <2>1, <2>2, <2>3
  <1>7. ASSUME NEW i \in 1 .. Len(new)
        PROVE  /\ new[i] = 0 \/ <<i, new[i]>> \in V
               /\ \A b \in Nat : <<i, b>> \in V => b <= new[i]
    <2>0. i \in Nat BY <1>4
    <2>1. CASE i \in pos + 1 .. end
      <3>1. i - pos \in 1 .. n BY <2>1
      <3>2. new[i] = top + (i - pos) /\ new[i] \in Nat /\ new[i] > top
        <4>1. new[i] = top + (i - pos) BY <1>2, <2>1, <3>1
        <4>2. top + (i - pos) \in Nat /\ top + (i - pos) > top BY <3>1
        <4> QED BY <4>1, <4>2
      <3>3. <<i, new[i]>> \in V BY <1>3, <2>0, <2>1, <3>2
      <3>4. ASSUME NEW b \in Nat, <<i, b>> \in V PROVE b <= new[i]
        <4>1. <<i, b>> \in W => b <= top BY <1>1, <2>0
        <4>2. <<i, b>> \in W \/ b = 0 \/ b = top + (i - pos) BY <1>3, <2>0, <3>4
        <4> QED BY <3>2, <4>1, <4>2
      <3> QED BY <3>3, <3>4
    <2>2. CASE i \notin pos + 1 .. end /\ i <= Len(data)
      <3>0. i \in 1 .. Len(data) BY <1>1, <1>4, <2>2
      <3>4. data[i] \in Nat BY <1>1, <3>0
      <3>5. new[i] = data[i] BY <1>2, <2>2
      <3>1. new[i] = data[i] /\ i \in 1 .. Len(data) /\ data[i] \in Nat
        BY <3>0, <3>4, <3>5
      <3>2. data[i] = 0 \/ <<i, data[i]>> \in V BY <1>1, <1>3, <2>0, <3>1
      <3>3. ASSUME NEW b \in Nat, <<i, b>> \in V PROVE b <= data[i]
        <4>1. <<i, b>> \in W \/ b = 0 BY <1>3, <2>0, <2>2, <3>3
        <4>2. <<i, b>> \in W => b <= data[i] BY <1>1, <3>0
        <4> QED BY <3>1, <4>1, <4>2
      <3> QED BY <3>1, <3>2, <3>3
    <2>3. CASE i \notin pos + 1 .. end /\ ~(i <= Len(data))
      <3>1. new[i] = 0 BY <1>2, <2>3
      <3>2. ASSUME NEW b \in Nat, <<i, b>> \in V PROVE b = 0
        BY <1>1, <1>3, <2>0, <2>3, <3>2
      <3> QED BY <3>1, <3>2
    <2> QED BY <2>1, <2>2, <2>3
  <1> HIDE DEF end
  <1> QED BY <1>2, <1>3, <1>5, <1>6, <1>7 DEF OfWrites

\* The invariant is what the property asks, with Max for "the last".
LEMMA OfWritesMax ==
  ASSUME NEW data, NEW W, NEW top, OfWrites(data, W, top)
  PROVE  /\ Len(data) = Max({0} \union {w[1] : w \in W})
         /\ \A i \in DOMAIN data :
              data[i] = Max({0} \union {w[2] : w \in {v \in W : v[1] = i}})
  <1>1. /\ data \in Seq(Nat) /\ Len(data) \in Nat /\ DOMAIN data = 1 .. Len(data)
        /\ W \subseteq Nat \X Nat
    BY DEF OfWrites
  <1>2. ASSUME NEW w \in W
        PROVE  w[1] \in Nat /\ w[2] \in Nat /\ <<w[1], w[2]>> \in W
    <2>1. w \in Nat \X Nat BY <1>1
    <2>2. w = <<w[1], w[2]>> /\ w[1] \in Nat /\ w[2] \in Nat BY <2>1
    <2> QED BY <2>2
  <1>3. \A a, b \in Nat : <<a, b>>[1] = a /\ <<a, b>>[2] = b OBVIOUS
  <1>4. Len(data) = Max({0} \union {w[1] : w \in W})
    <2> DEFINE S == {0} \union {w[1] : w \in W}
    <2>1. S \subseteq Int
      <3> SUFFICES ASSUME NEW y \in S PROVE y \in Int OBVIOUS
      <3>1. CASE y = 0 BY <3>1
      <3>2. CASE y # 0
        <4>1. y \in Nat BY <1>2, <3>2
        <4> QED BY <4>1
      <3> QED BY <3>1, <3>2
    <2>2. Len(data) \in S
      <3>1. CASE Len(data) = 0 BY <3>1
      <3>2. CASE Len(data) # 0
        <4>1. PICK b \in Nat : <<Len(data), b>> \in W BY <3>2 DEF OfWrites
        <4>2. <<Len(data), b>>[1] = Len(data) OBVIOUS
        <4> QED BY <4>1, <4>2
      <3> QED BY <3>1, <3>2
    <2>3. \A y \in S : y <= Len(data)
      <3>1. \A w \in W : w[1] <= Len(data) BY <1>2 DEF OfWrites
      <3>2. 0 <= Len(data) BY <1>1
      <3> QED BY <3>1, <3>2
    <2> HIDE DEF S
    <2>4. Max(S) = Len(data) BY <2>1, <2>2, <2>3, MaxIs
    <2> QED BY <2>4 DEF S
  <1>5. ASSUME NEW i \in DOMAIN data
        PROVE  data[i] = Max({0} \union {w[2] : w \in {v \in W : v[1] = i}})
    <2> DEFINE S == {0} \union {w[2] : w \in {v \in W : v[1] = i}}
    <2>0. i \in 1 .. Len(data) /\ i \in Nat /\ data[i] \in Nat BY <1>1
    <2>1. S \subseteq Int
      <3> SUFFICES ASSUME NEW y \in S PROVE y \in Int OBVIOUS
      <3>1. CASE y = 0 BY <3>1
      <3>2. CASE y # 0
        <4>1. y \in Nat BY <1>2, <3>2
        <4> QED BY <4>1
      <3> QED BY <3>1, <3>2
    <2>2. data[i] \in S
      <3>1. CASE data[i] = 0 BY <3>1
      <3>2. CASE data[i] # 0
        <4>1. <<i, data[i]>> \in W BY <2>0, <3>2 DEF OfWrites
        <4>2. <<i, data[i]>>[1] = i /\ <<i, data[i]>>[2] = data[i] BY <1>3, <2>0
        <4> QED BY <4>1, <4>2
      <3> QED BY <3>1, <3>2
    <2>3. \A y \in S : y <= data[i]
      <3>1. ASSUME NEW w \in W, w[1] = i PROVE w[2] <= data[i]
        <4>1. <<i, w[2]>> \in W /\ w[2] \in Nat BY <1>2, <3>1
        <4> QED BY <2>0, <4>1 DEF OfWrites
      <3>2. 0 <= data[i] BY <2>0
      <3> QED BY <3>1, <3>2
    <2> HIDE DEF S
    <2>4. Max(S) = data[i] BY <2>1, <2>2, <2>3, MaxIs
    <2> QED BY <2>4 DEF S
  <1> QED BY <1>4, <1>5

LEMMA InitFiles == VfsInit => FilesInv
  <1> SUFFICES ASSUME VfsInit PROVE FilesInv OBVIOUS
  <1>1. root = [p \in PosixDirs |-> Directory] /\ wrote = <<>> /\ phase = "fresh" BY DEF VfsInit
  <1>2. \A p \in DOMAIN root : root[p].dir BY <1>1 DEF Directory
  <1>3. Files = {} BY <1>2 DEF Files
  <1> QED BY <1>1, <1>3 DEF FilesInv

\* Steps that leave the files alone, before the snapshot is taken.
LEMMA FilesStay ==
  ASSUME FilesInv, UNCHANGED <<root, wrote>>, phase' # "collected",
         last \in Nat, last' \in Nat, last <= last'
  PROVE  FilesInv'
  <1>1. Files' = Files BY DEF Files
  <1>2. \A p \in Files : OfWrites(root[p].data, wrote[p], last') BY OfWritesLater DEF FilesInv
  <1> QED BY <1>1, <1>2 DEF FilesInv

LEMMA OpenFiles ==
  ASSUME TableInv, FilesInv, NEW raw \in GuestPaths, NEW mode \in OpenModes, PathOpen(raw, mode)
  PROVE  FilesInv'
  <1> DEFINE p == Canonicalise(raw).parts
  <1>1. Shapes BY DEF TableInv
  <1>2. p \in Seq(Components)
    <2>1. raw \in Seq(Components) BY VfsAssumption
    <2> QED BY <2>1, CanonicaliseResolves DEF Resolved, Accs
  <1>3. /\ phase = "running" /\ Admits(p, mode) /\ root' = RootOpened(p, mode)
        /\ wrote' = WroteOpened(p, mode) /\ UNCHANGED <<phase, last>>
    BY DEF PathOpen
  <1> HIDE DEF p
  <1>4. /\ DOMAIN root' = DOMAIN root \cup {p}
        /\ \A x \in DOMAIN root : root'[x].dir = root[x].dir /\ (x # p => root'[x] = root[x])
        /\ Clears(p, mode) => root'[p] = EmptyFile
        /\ ~Clears(p, mode) => root' = root
    BY <1>1, <1>2, <1>3, Opened
  <1>5. CASE ~Clears(p, mode)
    <2>1. UNCHANGED <<root, wrote>> BY <1>3, <1>4, <1>5 DEF WroteOpened, Clears
    <2>2. last \in Nat /\ last <= last' BY <1>1, <1>3 DEF Shapes
    <2> QED BY <1>3, <2>1, <2>2, FilesStay
  <1>6. CASE Clears(p, mode)
    <2>1. wrote' = Insert(wrote, p, {}) BY <1>3, <1>6 DEF WroteOpened, Clears
    <2>2. root'[p] = EmptyFile /\ root'[p].dir = FALSE /\ root'[p].data = <<>>
      BY <1>4, <1>6 DEF EmptyFile
    <2>3. Files' = Files \cup {p} BY <1>4, <2>2 DEF Files
    <2>4. /\ DOMAIN wrote' = DOMAIN wrote \cup {p} /\ wrote'[p] = {}
          /\ \A x \in DOMAIN wrote : x # p => wrote'[x] = wrote[x]
          /\ wrote' = [x \in DOMAIN wrote' |-> wrote'[x]]
      BY <2>1 DEF Insert
    <2>5. DOMAIN wrote = Files BY DEF FilesInv
    <2>6. ASSUME NEW x \in Files' PROVE OfWrites(root'[x].data, wrote'[x], last')
      <3>1. CASE x = p BY <2>2, <2>4, <3>1, OfNoWrites
      <3>2. CASE x # p
        <4>1. x \in Files /\ x \in DOMAIN root BY <2>3, <3>2 DEF Files
        <4>2. root'[x] = root[x] /\ wrote'[x] = wrote[x] /\ last' = last
          BY <1>3, <1>4, <2>4, <2>5, <3>2, <4>1
        <4> QED BY <4>1, <4>2 DEF FilesInv
      <3> QED BY <3>1, <3>2
    <2>7. DOMAIN wrote' = Files' BY <2>3, <2>4, <2>5
    <2>8. phase' # "collected" BY <1>3
    <2> QED BY <2>4, <2>6, <2>7, <2>8 DEF FilesInv
  <1> QED BY <1>5, <1>6

LEMMA WriteFiles ==
  ASSUME TableInv, FilesInv, NEW fd \in Nat, NEW iovs \in Seq(Int), iovs # <<>>,
         FdWriteIov(fd, iovs)
  PROVE  FilesInv'
  <1> DEFINE n == Head(iovs)
             p == open_fds[fd].path
             pos == WritePosition(open_fds[fd])
  <1>1. Shapes /\ HandlesValid /\ last \in Nat BY DEF TableInv, Shapes
  <1>2. /\ phase = "running" /\ phase' = "running" /\ n \in Nat /\ fd \in DOMAIN open_fds
        /\ Store(fd, n) /\ ~root[p].dir
    BY HeadType DEF FdWriteIov, Processes, Writable
  <1>3. wrote' = [wrote EXCEPT ![p] = @ \union {<<pos, 0>>}
                                        \union {<<pos + i, last + i>> : i \in 1 .. n}]
    BY <1>2 DEF Store
  <1> HIDE DEF n
  <1>4. /\ pos \in Nat /\ p \in DOMAIN root /\ last' = last + n /\ DOMAIN root' = DOMAIN root
        /\ \A x \in DOMAIN root : root'[x].dir = root[x].dir /\ (x # p => root'[x] = root[x])
        /\ root'[p].data = Overlay(root[p].data, pos, Chunk(n))
    BY <1>1, <1>2, StoreIs
  <1> HIDE DEF p, pos
  <1>5. p \in Files BY <1>2, <1>4 DEF Files
  <1>6. Files' = Files BY <1>4 DEF Files
  <1>7. DOMAIN wrote = Files BY DEF FilesInv
  <1>8. /\ DOMAIN wrote' = DOMAIN wrote /\ wrote' = [x \in DOMAIN wrote |-> wrote'[x]]
        /\ \A x \in DOMAIN wrote : x # p => wrote'[x] = wrote[x]
        /\ wrote'[p] = wrote[p] \union {<<pos, 0>>} \union {<<pos + i, last + i>> : i \in 1 .. n}
    BY <1>3, <1>5, <1>7
  <1>9. /\ Chunk(n) \in Seq(Nat) /\ Len(Chunk(n)) = n /\ \A i \in 1 .. n : Chunk(n)[i] = last + i
    BY <1>1, <1>2, ChunkType
  <1>10. OfWrites(root'[p].data, wrote'[p], last')
    <2>1. OfWrites(root[p].data, wrote[p], last) BY <1>5 DEF FilesInv
    <2>2. OfWrites(Overlay(root[p].data, pos, Chunk(n)), wrote'[p], last + n)
      BY <1>1, <1>2, <1>4, <1>8, <1>9, <2>1, OverlayOfWrites
    <2> QED BY <1>4, <2>2
  <1>11. ASSUME NEW x \in Files, x # p PROVE OfWrites(root'[x].data, wrote'[x], last')
    <2>1. root'[x] = root[x] /\ wrote'[x] = wrote[x] BY <1>4, <1>7, <1>8, <1>11 DEF Files
    <2>2. OfWrites(root[x].data, wrote[x], last) BY DEF FilesInv
    <2>3. last' \in Nat /\ last <= last' BY <1>1, <1>2, <1>4
    <2> QED BY <1>1, <2>1, <2>2, <2>3, OfWritesLater
  <1>12. \A x \in Files' : OfWrites(root'[x].data, wrote'[x], last') BY <1>6, <1>10, <1>11
  <1>13. DOMAIN wrote' = Files' /\ wrote' = [x \in Files' |-> wrote'[x]] BY <1>6, <1>7, <1>8
  <1> QED BY <1>2, <1>12, <1>13 DEF FilesInv

LEMMA InjectFiles ==
  ASSUME TableInv, FilesInv, NEW n \in CodeSizes, Inject(n)
  PROVE  FilesInv'
  <1> DEFINE data == IF OverQuota(n) THEN <<>> ELSE Chunk(n)
             W == IF OverQuota(n) THEN {} ELSE {<<i, last + i>> : i \in 1 .. n}
             node == [dir |-> FALSE, data |-> data]
  <1>1. n \in Nat /\ last \in Nat BY VfsAssumption DEF TableInv, Shapes
  <1>2. /\ phase = "fresh" /\ phase' # "collected" /\ root' = Insert(root, CodePath, node)
        /\ wrote' = Insert(wrote, CodePath, W)
        /\ last' = IF OverQuota(n) THEN last ELSE last + n
    BY DEF Inject
  <1>3. /\ root = [p \in PosixDirs |-> Directory] /\ wrote = <<>> BY <1>2 DEF TableInv, FreshStart
  <1>4. \A p \in DOMAIN root : root[p].dir BY <1>3 DEF Directory
  <1>5. CodePath \notin DOMAIN root BY <1>3, CodePathType
  <1>6. node.dir = FALSE /\ node.data = data OBVIOUS
  <1>7. OfWrites(data, W, last')
    <2>1. CASE OverQuota(n) BY <2>1, OfNoWrites
    <2>2. CASE ~OverQuota(n)
      <3>1. Chunk(n) \in Seq(Nat) /\ Len(Chunk(n)) = n /\ \A i \in 1 .. n : Chunk(n)[i] = last + i
        BY <1>1, ChunkType
      <3> DEFINE V == {<<i, last + i>> : i \in 1 .. n}
      <3>2. V \subseteq Nat \X Nat
        <4>1. \A i \in 1 .. n : i \in Nat /\ last + i \in Nat BY <1>1
        <4> QED BY <4>1
      <3>3. ASSUME NEW a \in Nat, NEW b \in Nat
            PROVE  <<a, b>> \in V <=> a \in 1 .. n /\ b = last + a
        OBVIOUS
      <3> HIDE DEF V
      <3>4. n = 0 \/ \E b \in Nat : <<n, b>> \in V
        <4>1. n # 0 => n \in 1 .. n /\ last + n \in Nat BY <1>1
        <4> QED BY <1>1, <3>3, <4>1
      <3>5. \A a, b \in Nat : <<a, b>> \in V => a <= n /\ b <= last + n BY <1>1, <3>3
      <3>6. ASSUME NEW i \in 1 .. n
            PROVE  <<i, last + i>> \in V /\ \A b \in Nat : <<i, b>> \in V => b <= last + i
        <4>1. i \in Nat /\ last + i \in Nat BY <1>1
        <4> QED BY <3>3, <4>1
      <3>7. OfWrites(Chunk(n), V, last + n) BY <3>1, <3>2, <3>4, <3>5, <3>6 DEF OfWrites
      <3> QED BY <1>2, <2>2, <3>7 DEF V
    <2> QED BY <2>1, <2>2
  <1> HIDE DEF data, W, node
  <1>8. /\ DOMAIN root' = DOMAIN root \cup {CodePath} /\ root'[CodePath] = node
        /\ \A x \in DOMAIN root : x # CodePath => root'[x] = root[x]
    BY <1>2 DEF Insert
  <1>9. DOMAIN wrote' = {CodePath} /\ wrote'[CodePath] = W /\ wrote' = [x \in {CodePath} |-> wrote'[x]]
    BY <1>2, <1>3 DEF Insert
  <1>10. Files' = {CodePath} BY <1>4, <1>5, <1>6, <1>8 DEF Files
  <1>11. \A x \in Files' : OfWrites(root'[x].data, wrote'[x], last')
    BY <1>6, <1>7, <1>8, <1>9, <1>10
  <1> QED BY <1>2, <1>9, <1>10, <1>11 DEF FilesInv

LEMMA NextFiles ==
  ASSUME TableInv, FilesInv, [VfsNext]_vfs
  PROVE  FilesInv'
  <1>1. Shapes /\ last \in Nat /\ last <= last BY DEF TableInv, Shapes
  <1>2. CASE UNCHANGED vfs
    BY <1>2 DEF vfs, FilesInv, Files, Snapshot
  <1>3. CASE UNCHANGED <<phase, root, wrote, last>> /\ phase = "running" BY <1>1, <1>3, FilesStay
  <1>4. ASSUME NEW fd \in Nat, NEW iovs \in Seq(Int), iovs # <<>>, FdIo(fd, iovs)
        PROVE  FilesInv'
    <2>1. CASE FdWriteIov(fd, iovs) BY <1>4, <2>1, WriteFiles
    <2>2. CASE FdWriteRing(fd, iovs)
      <3>1. /\ phase = "running" /\ UNCHANGED <<phase, root, wrote>>
            /\ last' = last + Head(iovs) /\ Head(iovs) \in Nat
        BY <1>4, <2>2, HeadType DEF FdWriteRing, Processes, fileVars
      <3>2. last' \in Nat /\ last <= last' BY <1>1, <3>1
      <3> QED BY <1>1, <3>1, <3>2, FilesStay
    <2> QED BY <1>3, <1>4, <2>1, <2>2
            DEF FdIo, FdWriteFails, FdReadIov, FdReadFails, Processes, fileVars
  <1>5. CASE Collect
    <2>1. /\ phase' = "collected" /\ UNCHANGED <<root, wrote, last>>
          /\ result' = [files |-> Snapshot, out |-> ring]
      BY <1>5 DEF Collect, fileVars
    <2>2. result'.files = Snapshot BY <2>1
    <2>3. Files' = Files /\ Snapshot' = Snapshot BY <2>1 DEF Files, Snapshot
    <2> QED BY <2>1, <2>2, <2>3 DEF FilesInv
  <1>6. CASE \E n \in CodeSizes : Inject(n) BY <1>6, InjectFiles
  <1>7. CASE \E raw \in GuestPaths, mode \in OpenModes :
               PathOpen(raw, mode) \/ PathOpenRefused(raw, mode)
    BY <1>2, <1>7, OpenFiles DEF PathOpenRefused
  <1>8. CASE call = NoCall /\ \E fd \in GuestFds, iovs \in IovLists : FdIo(fd, iovs)
    BY <1>1, <1>4, <1>8, IoStep
  <1>9. CASE call # NoCall /\ FdIo(call.fd, call.iovs) BY <1>1, <1>4, <1>9, IoStep
  <1>10. CASE \E fd \in GuestFds, offset \in Offsets, whence \in {"SET", "CUR", "END"} :
                FdSeek(fd, offset, whence)
    BY <1>3, <1>10 DEF FdSeek, fileVars
  <1>11. CASE \E fd \in GuestFds : FdClose(fd) BY <1>3, <1>11 DEF FdClose, fileVars
  <1> QED BY <1>2, <1>5, <1>6, <1>7, <1>8, <1>9, <1>10, <1>11 DEF VfsNext, Done

\* A file, and the snapshot the caller of execute receives, holds at each offset
\* the last byte written there since its creation or last truncation, and ends at
\* the furthest write: for every mix of descriptors, positions and quotas.
THEOREM FilesHold == VfsSpec => []FilesAreTheirWrites
  <1>1. FilesInv => FilesAreTheirWrites
    <2> SUFFICES ASSUME FilesInv PROVE FilesAreTheirWrites OBVIOUS
    <2> DEFINE files == IF phase = "collected" THEN result.files ELSE Snapshot
    <2>1. files = Snapshot BY DEF FilesInv
    <2> HIDE DEF files
    <2>2. DOMAIN files = Files /\ \A p \in Files : files[p] = root[p].data
      BY <2>1 DEF Snapshot
    <2>3. DOMAIN files = DOMAIN wrote BY <2>2 DEF FilesInv
    <2>4. ASSUME NEW p \in DOMAIN files
          PROVE  /\ Len(files[p]) = Max({0} \union {w[1] : w \in wrote[p]})
                 /\ \A i \in DOMAIN files[p] :
                      files[p][i] = Max({0} \union {w[2] : w \in {v \in wrote[p] : v[1] = i}})
      <3>1. files[p] = root[p].data /\ p \in Files BY <2>2
      <3>2. OfWrites(files[p], wrote[p], last) BY <3>1 DEF FilesInv
      <3> DEFINE data == files[p]
                 W == wrote[p]
      <3>3. OfWrites(data, W, last) BY <3>2
      <3> HIDE DEF data, W
      <3>4. /\ Len(data) = Max({0} \union {w[1] : w \in W})
            /\ \A i \in DOMAIN data :
                 data[i] = Max({0} \union {w[2] : w \in {v \in W : v[1] = i}})
        BY ONLY <3>3, OfWritesMax
      <3> QED BY <3>4 DEF data, W
    <2> QED BY <2>3, <2>4 DEF FilesAreTheirWrites, files
  <1>2. VfsSpec => []TableInv BY InitTable, NextTable, PTL DEF VfsSpec
  <1>3. VfsSpec => []FilesInv BY <1>2, InitFiles, NextFiles, PTL DEF VfsSpec
  <1> QED BY <1>1, <1>3, PTL

-----------------------------------------------------------------------------
(***************************************************************************)
(* The pool.                                                               *)
(***************************************************************************)
USE PoolAssumption

(* Facts about the queue operators. *)

\* Removing an entry of a sequence gives a sequence, one shorter, whose entries
\* are entries of the original in the same order (a timeout leaves the queue).
LEMMA WithoutIsSeq ==
  ASSUME NEW S, NEW s \in Seq(S), NEW i \in 1 .. Len(s)
  PROVE  /\ Without(s, i) \in Seq(S)
         /\ Len(Without(s, i)) = Len(s) - 1
         /\ \A j \in 1 .. (Len(s) - 1) :
              Without(s, i)[j] = IF j < i THEN s[j] ELSE s[j + 1]
BY DEF Without

\* Every step of the pool and of the watchdog preserves the types.
LEMMA TypeStep == TypeOK /\ [Next]_vars => TypeOK'
<1> SUFFICES ASSUME TypeOK, [Next]_vars PROVE TypeOK'
  OBVIOUS
<1> USE DEF TypeOK, poolVars, watchVars
<1>a. /\ "waiting" \in PCs /\ "granted" \in PCs /\ "acquired" \in PCs
      /\ "slotted" \in PCs /\ "watched" \in PCs /\ "running" \in PCs
      /\ "ran" \in PCs /\ "unwatched" \in PCs /\ "returned" \in PCs
      /\ "dropped" \in PCs /\ "done" \in PCs /\ "gone" \in PCs
  BY DEF PCs
<1>b. "exhausted" \in Answers /\ "failed" \in Answers
  BY DEF Answers
<1> USE <1>a, <1>b
<1>1. ASSUME NEW r \in Requests, Acquire(r)
      PROVE TypeOK'
  <2>2. Append(waiters, r) \in Seq(Requests)
    OBVIOUS
  <2>3. permits > 0 => permits - 1 \in Nat
    OBVIOUS
  <2>4. CASE permits > 0
    <3>1. /\ pc' = [pc EXCEPT ![r] = "acquired"]
          /\ permits' = permits - 1
          /\ UNCHANGED <<threads, waiters, prog, answer, lost, poolVars, watchVars>>
      BY <1>1, <2>4 DEF Acquire
    <3>2. QED BY <3>1, <2>3, <2>4
  <2>5. CASE permits = 0
    <3>1. /\ pc' = [pc EXCEPT ![r] = "waiting"]
          /\ waiters' = Append(waiters, r)
          /\ UNCHANGED <<threads, permits, prog, answer, lost, poolVars, watchVars>>
      BY <1>1, <2>5 DEF Acquire
    <3>2. QED BY <3>1, <2>2, <2>5
  <2>6. QED BY <1>1, <2>4, <2>5 DEF Acquire
<1>2. ASSUME NEW r \in Requests, LeaveQueue(r) PROVE waiters' \in Seq(Requests)
  BY <1>2, WithoutIsSeq DEF LeaveQueue
<1>3. ASSUME NEW r \in Requests, NEW v \in {"done", "gone"}, Release(r, v)
      PROVE /\ permits' \in Nat
            /\ waiters' \in Seq(Requests)
            /\ pc' \in [Requests -> PCs]
  <2>1. CASE waiters = <<>>
    <3>1. /\ permits' = permits + 1
          /\ UNCHANGED waiters
          /\ pc' = [pc EXCEPT ![r] = v]
      BY <1>3, <2>1 DEF Release
    <3>2. QED BY <3>1
  <2>2. CASE waiters # <<>>
    <3>1. Head(waiters) \in Requests /\ Tail(waiters) \in Seq(Requests)
      BY <2>2
    <3>2. QED BY <1>3, <2>2, <3>1 DEF Release
  <2>3. QED BY <2>1, <2>2
<1>4. ASSUME NEW r \in Requests, Cancel(r) PROVE TypeOK'
  BY <1>4, <1>2, <1>3 DEF Cancel
<1>5. ASSUME NEW r \in Requests, Granted(r) PROVE TypeOK'
  BY <1>5 DEF Granted
<1>6. ASSUME NEW r \in Requests, AcquireTimeout(r) PROVE TypeOK'
  BY <1>6, <1>2 DEF AcquireTimeout
<1>7. ASSUME NEW r \in Requests, TakeSlot(r) PROVE TypeOK'
  <2>1. CASE warm = <<>>
    BY <1>7, <2>1 DEF TakeSlot
  <2>2. CASE warm # <<>>
    <3>1. Head(warm) \in Nat /\ Tail(warm) \in Seq(Nat)
      BY <2>2
    <3>2. QED BY <1>7, <2>2, <3>1 DEF TakeSlot
  <2>3. QED BY <2>1, <2>2
<1>8. ASSUME NEW r \in Requests, Register(r) PROVE TypeOK'
  BY <1>8 DEF Register
<1>9. ASSUME NEW r \in Requests, EarlyReturn(r) PROVE TypeOK'
  BY <1>9 DEF EarlyReturn
<1>10. ASSUME NEW r \in Requests, NEW p \in Submitted, Prepare(r, p) PROVE TypeOK'
  BY <1>10, <1>9 DEF Prepare
<1>11. ASSUME NEW r \in Requests, RunGuest(r) PROVE TypeOK'
  <2>1. ExecResult(prog[r]) \in Answers
    BY DEF ExecResult, Answers
  <2>2. QED BY <2>1, <1>9, <1>11 DEF RunGuest
<1>12. ASSUME NEW r \in Requests, Deregister(r) PROVE TypeOK'
  BY <1>12 DEF Deregister
<1>13. ASSUME NEW r \in Requests, ReturnSlot(r) PROVE TypeOK'
  BY <1>13 DEF ReturnSlot
<1>14. ASSUME NEW r \in Requests, DropSlot(r) \/ Return(r) PROVE TypeOK'
  BY <1>14, <1>3 DEF DropSlot, Return
<1>15. CASE PollOnce BY <1>15 DEF PollOnce
<1>16. ASSUME NEW id \in orders, Evict(id) PROVE TypeOK'
  BY <1>16 DEF Evict
<1>17. CASE Shutdown BY <1>17 DEF Shutdown
<1>18. CASE Idle \/ UNCHANGED vars BY <1>18 DEF Idle, vars
<1>19. QED
  BY <1>1, <1>4, <1>5, <1>6, <1>7, <1>8, <1>10, <1>11, <1>12, <1>13, <1>14,
     <1>15, <1>16, <1>17, <1>18 DEF Next, Step

\* Type correctness of the pool and of the watchdog.
THEOREM TypeCorrect == Spec => []TypeOK
<1>1. Init => TypeOK
  BY DEF Init, TypeOK, PCs, Programs, Answers, NoSlot
<1>2. QED BY <1>1, TypeStep, PTL DEF Spec

-----------------------------------------------------------------------------
(* Counting the requests by what they own. *)

Count(f, X) == Cardinality({q \in Requests : f[q] \in X})

\* How one request's step changes the number of requests in a set of places.
LEMMA CountMove ==
  ASSUME NEW X, NEW f, NEW g, NEW r \in Requests,
         \A q \in Requests \ {r} : f[q] = g[q]
  PROVE  /\ Count(f, X) \in Nat
         /\ (f[r] \in X <=> g[r] \in X) => Count(g, X) = Count(f, X)
         /\ f[r] \notin X /\ g[r] \in X => Count(g, X) = Count(f, X) + 1
         /\ f[r] \in X /\ g[r] \notin X => Count(g, X) = Count(f, X) - 1
<1> DEFINE A == {q \in Requests : f[q] \in X}
           B == {q \in Requests : g[q] \in X}
<1>1. IsFiniteSet(A) /\ Cardinality(A) \in Nat
  BY FS_Subset, FS_CardinalityType
<1>2. (f[r] \in X <=> g[r] \in X) => B = A
  OBVIOUS
<1>3. f[r] \notin X /\ g[r] \in X => B = A \cup {r} /\ r \notin A
  OBVIOUS
<1>4. f[r] \in X /\ g[r] \notin X => B = A \ {r} /\ r \in A
  OBVIOUS
<1>5. Cardinality(A \cup {r}) = IF r \in A THEN Cardinality(A) ELSE Cardinality(A) + 1
  BY <1>1, FS_AddElement
<1>6. Cardinality(A \ {r}) = IF r \in A THEN Cardinality(A) - 1 ELSE Cardinality(A)
  BY <1>1, FS_RemoveElement
<1>7. QED BY <1>1, <1>2, <1>3, <1>4, <1>5, <1>6 DEF Count

\* Fewer requests own a slot than own a permit.
LEMMA CountMonotone ==
  ASSUME NEW f, NEW X, NEW Y, X \subseteq Y
  PROVE  Count(f, X) <= Count(f, Y)
<1>1. IsFiniteSet({q \in Requests : f[q] \in Y})
  BY FS_Subset
<1>2. QED BY <1>1, FS_Subset DEF Count

\* Giving a permit back, whether it becomes free or is handed to a waiter,
\* conserves the permits and leaves a well-formed queue.
LEMMA ReleaseConserves ==
  ASSUME TypeOK, QueueOK, NoLostWakeup,
         NEW r \in Requests, NEW v \in {"done", "gone"},
         pc[r] \in HasPermit, Release(r, v)
  PROVE  /\ permits' + Count(pc', HasPermit) = permits + Count(pc, HasPermit)
         /\ Count(pc', Occupied) =
              Count(pc, Occupied) - (IF pc[r] \in Occupied THEN 1 ELSE 0)
         /\ QueueOK' /\ NoLostWakeup'
<1> USE DEF TypeOK
<1>0. /\ v \in PCs /\ v \notin HasPermit /\ v \notin Occupied /\ v # "waiting"
      /\ "granted" \in HasPermit /\ "granted" \notin Occupied
      /\ "waiting" \notin HasPermit /\ "waiting" \notin Occupied
      /\ "granted" \in PCs /\ pc[r] # "waiting"
  BY DEF PCs, HasPermit, Occupied
<1>1. CASE waiters = <<>>
  <2>1. /\ permits' = permits + 1 /\ waiters' = <<>>
        /\ pc' = [pc EXCEPT ![r] = v]
    BY <1>1 DEF Release
  <2>2. pc'[r] = v /\ \A q \in Requests \ {r} : pc[q] = pc'[q]
    BY <2>1
  <2>3. /\ Count(pc', HasPermit) = Count(pc, HasPermit) - 1
        /\ pc[r] \in Occupied => Count(pc', Occupied) = Count(pc, Occupied) - 1
        /\ pc[r] \notin Occupied => Count(pc', Occupied) = Count(pc, Occupied)
        /\ Count(pc, HasPermit) \in Nat /\ Count(pc, Occupied) \in Nat
    BY <1>0, <2>2, CountMove
  <2>4. QueueOK' /\ NoLostWakeup'
    BY <2>1 DEF QueueOK, NoLostWakeup
  <2>5. QED BY <2>1, <2>3, <2>4
<1>2. CASE waiters # <<>>
  <2> DEFINE h == Head(waiters)
  <2>1. /\ permits' = permits /\ waiters' = Tail(waiters)
        /\ pc' = [pc EXCEPT ![r] = v, ![h] = "granted"]
    BY <1>2 DEF Release
  <2>2. /\ h \in Requests /\ h = waiters[1] /\ 1 \in 1 .. Len(waiters)
        /\ Len(Tail(waiters)) = Len(waiters) - 1
        /\ \A i \in 1 .. (Len(waiters) - 1) : Tail(waiters)[i] = waiters[i + 1]
    BY <1>2
  <2> HIDE DEF h
  <2>3. pc[h] = "waiting" /\ h # r
    BY <2>2, <1>0 DEF QueueOK
  <2> DEFINE mid == [pc EXCEPT ![r] = v]
  <2>4. /\ mid[r] = v /\ \A q \in Requests \ {r} : pc[q] = mid[q]
        /\ pc'[h] = "granted" /\ mid[h] = "waiting"
        /\ \A q \in Requests \ {h} : mid[q] = pc'[q]
    BY <2>1, <2>2, <2>3, <1>0
  <2> HIDE DEF mid
  <2>5. /\ Count(mid, HasPermit) = Count(pc, HasPermit) - 1
        /\ pc[r] \in Occupied => Count(mid, Occupied) = Count(pc, Occupied) - 1
        /\ pc[r] \notin Occupied => Count(mid, Occupied) = Count(pc, Occupied)
        /\ Count(pc, HasPermit) \in Nat /\ Count(pc, Occupied) \in Nat
    BY <1>0, <2>4, CountMove
  <2>6. /\ Count(pc', HasPermit) = Count(mid, HasPermit) + 1
        /\ Count(pc', Occupied) = Count(mid, Occupied)
    <3>1. /\ mid[h] \notin HasPermit /\ pc'[h] \in HasPermit
          /\ mid[h] \notin Occupied /\ pc'[h] \notin Occupied
          /\ h \in Requests /\ \A q \in Requests \ {h} : mid[q] = pc'[q]
      BY <1>0, <2>2, <2>4
    <3>2. QED BY ONLY <3>1, CountMove, PoolAssumption
  <2>11. QueueOK'
    <3>1. ASSUME NEW i \in 1 .. Len(waiters')
          PROVE  /\ waiters'[i] = waiters[i + 1] /\ i + 1 \in 1 .. Len(waiters)
                 /\ waiters'[i] \in Requests
      <4>1. waiters \in Seq(Requests) /\ waiters # <<>> /\ waiters' = Tail(waiters)
        BY <2>1, <2>2
      <4>2. Len(waiters') = Len(waiters) - 1 /\ Len(waiters) \in Nat BY ONLY <4>1
      <4>3. i + 1 \in 1 .. Len(waiters) BY ONLY <4>2
      <4>4. waiters'[i] = waiters[i + 1] BY ONLY <4>1, <4>2
      <4> QED BY ONLY <4>1, <4>3, <4>4
    <3>2. ASSUME NEW i \in 1 .. Len(waiters')
          PROVE  pc'[waiters'[i]] = "waiting"
      <4>3. i + 1 \in 1 .. Len(waiters) /\ i + 1 # 1 BY <3>1
      <4>4. pc[waiters[i + 1]] = "waiting" BY <4>3 DEF QueueOK
      <4>5. waiters[i + 1] # waiters[1] BY <2>2, <4>3 DEF QueueOK
      <4>1. waiters[i + 1] # h /\ pc[waiters[i + 1]] = "waiting"
        BY <2>2, <4>4, <4>5
      <4>2. QED BY <4>1, <3>1, <2>1, <1>0
    <3>3. ASSUME NEW i \in 1 .. Len(waiters'), NEW j \in 1 .. Len(waiters'),
                 waiters'[i] = waiters'[j]
          PROVE  i = j
      BY <3>1, <3>3 DEF QueueOK
    <3>4. QED BY <3>2, <3>3 DEF QueueOK
  <2>12. NoLostWakeup'
    BY <2>1, <1>2 DEF NoLostWakeup
  <2>13. QED BY <2>1, <2>5, <2>6, <2>11, <2>12
<1>3. QED BY <1>1, <1>2

\* Leaving the queue on a timeout or a disconnect keeps it well-formed.
LEMMA LeaveQueueOK ==
  ASSUME TypeOK, QueueOK, NoLostWakeup, UNCHANGED permits,
         NEW r \in Requests, NEW v \in {"done", "gone"},
         pc[r] = "waiting", LeaveQueue(r), pc' = [pc EXCEPT ![r] = v]
  PROVE  /\ Count(pc', HasPermit) = Count(pc, HasPermit)
         /\ Count(pc', Occupied) = Count(pc, Occupied)
         /\ QueueOK' /\ NoLostWakeup'
<1> USE DEF TypeOK
<1>1. /\ v \notin HasPermit /\ v \notin Occupied
      /\ "waiting" \notin HasPermit /\ "waiting" \notin Occupied
  BY DEF HasPermit, Occupied
<1>2. PICK i \in 1 .. Len(waiters) : waiters[i] = r /\ waiters' = Without(waiters, i)
  BY DEF LeaveQueue
<1>3. /\ Len(waiters') = Len(waiters) - 1
      /\ \A j \in 1 .. Len(waiters') :
           waiters'[j] = IF j < i THEN waiters[j] ELSE waiters[j + 1]
  <2>1. waiters \in Seq(Requests) OBVIOUS
  <2> QED BY ONLY <1>2, <2>1, WithoutIsSeq
<1> DEFINE K(j) == IF j < i THEN j ELSE j + 1
<1>4. ASSUME NEW j \in 1 .. Len(waiters')
      PROVE  K(j) \in 1 .. Len(waiters) /\ K(j) # i /\ waiters'[j] = waiters[K(j)]
  <2>1. Len(waiters) \in Nat /\ j \in Nat /\ i \in Nat
    BY <1>3
  <2>2. K(j) \in 1 .. Len(waiters) /\ K(j) # i
    <3>1. j <= Len(waiters) - 1 /\ j >= 1 /\ i >= 1 /\ i <= Len(waiters) BY <1>3
    <3> QED BY ONLY <2>1, <3>1
  <2>3. waiters'[j] = waiters[K(j)] BY <1>3
  <2>4. QED BY <2>2, <2>3
<1>5. ASSUME NEW j \in 1 .. Len(waiters') PROVE pc'[waiters'[j]] = "waiting"
  <2> DEFINE k == K(j)
  <2>1. k \in 1 .. Len(waiters) /\ k # i /\ waiters'[j] = waiters[k]
    BY <1>4
  <2> HIDE DEF k
  <2>2. waiters[k] # r /\ pc[waiters[k]] = "waiting" /\ waiters[k] \in Requests
    BY <1>2, <2>1 DEF QueueOK
  <2>3. QED BY <2>1, <2>2
<1>6. ASSUME NEW j \in 1 .. Len(waiters'), NEW l \in 1 .. Len(waiters'),
             waiters'[j] = waiters'[l]
      PROVE  j = l
  <2>1. /\ waiters[K(j)] = waiters[K(l)]
        /\ K(j) \in 1 .. Len(waiters) /\ K(l) \in 1 .. Len(waiters)
    BY <1>4, <1>6
  <2> HIDE DEF K
  <2>2. K(j) = K(l)
    BY <2>1 DEF QueueOK
  <2>3. j \in Int /\ l \in Int /\ i \in Int
    BY <1>3
  <2>4. (IF j < i THEN j ELSE j + 1) = (IF l < i THEN l ELSE l + 1)
    BY ONLY <2>2 DEF K
  <2>5. QED BY ONLY <2>3, <2>4
<1>7. QueueOK'
  BY <1>5, <1>6 DEF QueueOK
<1>8. NoLostWakeup'
  <2>1. CASE waiters' = <<>> BY <2>1 DEF NoLostWakeup
  <2>2. CASE waiters' # <<>>
    <3>1. waiters # <<>> BY <1>2
    <3>2. QED BY <3>1 DEF NoLostWakeup
  <2>3. QED BY <2>1, <2>2
<1>9. pc'[r] = v /\ \A q \in Requests \ {r} : pc[q] = pc'[q]
  OBVIOUS
<1>10. /\ Count(pc', HasPermit) = Count(pc, HasPermit)
       /\ Count(pc', Occupied) = Count(pc, Occupied)
  <2>1. /\ pc[r] \notin HasPermit /\ pc'[r] \notin HasPermit
        /\ pc[r] \notin Occupied /\ pc'[r] \notin Occupied
    BY <1>1, <1>9
  <2>2. QED BY ONLY <2>1, <1>9, r \in Requests, CountMove, PoolAssumption
<1>11. QED BY <1>7, <1>8, <1>10

\* A step of a request that keeps its permit.
LEMMA QuietMove ==
  ASSUME TypeOK, QueueOK, NoLostWakeup, NEW r \in Requests, NEW v \in HasPermit,
         pc[r] \in HasPermit, pc' = [pc EXCEPT ![r] = v],
         UNCHANGED <<permits, waiters>>
  PROVE  /\ Count(pc', HasPermit) = Count(pc, HasPermit)
         /\ (pc[r] \in Occupied <=> v \in Occupied)
              => Count(pc', Occupied) = Count(pc, Occupied)
         /\ pc[r] \notin Occupied /\ v \in Occupied
              => Count(pc', Occupied) = Count(pc, Occupied) + 1
         /\ pc[r] \in Occupied /\ v \notin Occupied
              => Count(pc', Occupied) = Count(pc, Occupied) - 1
         /\ QueueOK' /\ NoLostWakeup'
<1> USE DEF TypeOK
<1>1. pc'[r] = v /\ \A q \in Requests \ {r} : pc[q] = pc'[q]
  OBVIOUS
<1>2. Count(pc', HasPermit) = Count(pc, HasPermit)
  BY ONLY pc[r] \in HasPermit, v \in HasPermit, <1>1, r \in Requests, CountMove,
          PoolAssumption
<1>3. /\ (pc[r] \in Occupied <=> v \in Occupied)
           => Count(pc', Occupied) = Count(pc, Occupied)
      /\ pc[r] \notin Occupied /\ v \in Occupied
           => Count(pc', Occupied) = Count(pc, Occupied) + 1
      /\ pc[r] \in Occupied /\ v \notin Occupied
           => Count(pc', Occupied) = Count(pc, Occupied) - 1
  BY ONLY <1>1, r \in Requests, CountMove, PoolAssumption
<1>4. pc[r] # "waiting"
  BY DEF HasPermit
<1>5. QueueOK'
  <2>1. ASSUME NEW i \in 1 .. Len(waiters) PROVE pc'[waiters[i]] = "waiting"
    BY <1>1, <1>4 DEF QueueOK
  <2>2. QED BY <2>1 DEF QueueOK
<1>6. NoLostWakeup'
  BY DEF NoLostWakeup
<1>7. QED BY <1>2, <1>3, <1>5, <1>6

\* Joining the queue or taking a free permit.
LEMMA AcquireConserves ==
  ASSUME TypeOK, QueueOK, NoLostWakeup,
         NEW r \in Requests, Acquire(r)
  PROVE  /\ permits' + Count(pc', HasPermit) = permits + Count(pc, HasPermit)
         /\ Count(pc', Occupied) = Count(pc, Occupied)
         /\ QueueOK' /\ NoLostWakeup'
<1> USE DEF TypeOK
<1>0. /\ "new" \notin HasPermit /\ "new" \notin Occupied /\ pc[r] = "new"
      /\ "waiting" \notin HasPermit /\ "waiting" \notin Occupied
      /\ "acquired" \in HasPermit /\ "acquired" \notin Occupied
  BY DEF HasPermit, Occupied, Acquire
<1>a. Count(pc, HasPermit) \in Nat
  BY ONLY r \in Requests, CountMove, PoolAssumption
<1>1. CASE permits > 0
  <2>1. /\ permits' = permits - 1 /\ waiters' = waiters
        /\ pc' = [pc EXCEPT ![r] = "acquired"]
    BY <1>1 DEF Acquire
  <2>2. pc'[r] = "acquired" /\ \A q \in Requests \ {r} : pc[q] = pc'[q]
    BY <2>1
  <2>3. /\ Count(pc', HasPermit) = Count(pc, HasPermit) + 1
        /\ Count(pc', Occupied) = Count(pc, Occupied)
    BY ONLY <1>0, <2>2, r \in Requests, CountMove, PoolAssumption
  <2>4. waiters = <<>>
    BY <1>1 DEF NoLostWakeup
  <2>5. QueueOK' /\ NoLostWakeup'
    BY <2>1, <2>4 DEF QueueOK, NoLostWakeup
  <2>6. QED BY <1>a, <2>1, <2>3, <2>5
<1>2. CASE permits = 0
  <2>1. /\ permits' = permits /\ waiters' = Append(waiters, r)
        /\ pc' = [pc EXCEPT ![r] = "waiting"]
    BY <1>2 DEF Acquire
  <2>2. pc'[r] = "waiting" /\ \A q \in Requests \ {r} : pc[q] = pc'[q]
    BY <2>1
  <2>3. /\ Count(pc', HasPermit) = Count(pc, HasPermit)
        /\ Count(pc', Occupied) = Count(pc, Occupied)
    BY ONLY <1>0, <2>2, r \in Requests, CountMove, PoolAssumption
  <2>4. /\ Len(waiters') = Len(waiters) + 1 /\ Len(waiters) \in Nat
        /\ waiters'[Len(waiters) + 1] = r
        /\ \A i \in 1 .. Len(waiters) :
             waiters'[i] = waiters[i] /\ waiters[i] \in Requests
    BY <2>1
  <2>5. \A i \in 1 .. Len(waiters) : waiters[i] # r
    BY <1>0 DEF QueueOK
  <2>6. ASSUME NEW i \in 1 .. Len(waiters') PROVE pc'[waiters'[i]] = "waiting"
    <3>1. CASE i = Len(waiters) + 1 BY <3>1, <2>2, <2>4
    <3>2. CASE i \in 1 .. Len(waiters)
      <4>1. pc[waiters[i]] = "waiting" BY <3>2 DEF QueueOK
      <4>2. waiters'[i] = waiters[i] /\ waiters[i] \in Requests \ {r} BY <3>2, <2>4, <2>5
      <4>3. QED BY <4>1, <4>2, <2>2
    <3>3. QED BY <3>1, <3>2, <2>4
  <2>7. ASSUME NEW i \in 1 .. Len(waiters'), NEW j \in 1 .. Len(waiters'),
               waiters'[i] = waiters'[j]
        PROVE  i = j
    <3>1. CASE i \in 1 .. Len(waiters) /\ j \in 1 .. Len(waiters)
      BY <3>1, <2>4, <2>7 DEF QueueOK
    <3>2. CASE i = Len(waiters) + 1 /\ j \in 1 .. Len(waiters)
      BY <3>2, <2>4, <2>5, <2>7
    <3>3. CASE j = Len(waiters) + 1 /\ i \in 1 .. Len(waiters)
      BY <3>3, <2>4, <2>5, <2>7
    <3>4. CASE i = Len(waiters) + 1 /\ j = Len(waiters) + 1
      BY <3>4
    <3>5. /\ i \in 1 .. Len(waiters) \/ i = Len(waiters) + 1
          /\ j \in 1 .. Len(waiters) \/ j = Len(waiters) + 1
      <4>1. i \in Int /\ j \in Int /\ 1 <= i /\ 1 <= j
        BY <2>4
      <4>2. i <= Len(waiters) + 1 /\ j <= Len(waiters) + 1
        BY <2>4
      <4>3. Len(waiters) \in Nat BY <2>4
      <4> QED BY ONLY <4>1, <4>2, <4>3
    <3>6. QED BY <3>1, <3>2, <3>3, <3>4, <3>5
  <2>8. QueueOK'
    BY <2>6, <2>7 DEF QueueOK
  <2>9. NoLostWakeup'
    BY <2>1, <1>2 DEF NoLostWakeup
  <2>10. QED BY <2>1, <2>3, <2>8, <2>9
<1>3. QED BY <1>1, <1>2

-----------------------------------------------------------------------------
(* The semaphore and the stores alive at once. *)

\* PermitsConserved and NoLostWakeup are inductive only together with the shape
\* of the queue: the waiter a permit is handed to must not own one already.
PermitInv == TypeOK /\ QueueOK /\ NoLostWakeup /\ PermitsConserved

\* A replacement takes the place of the used slot in the count.
SlotCountInv ==
  /\ PoolSlots <= PoolSize \/ PoolSlots <= Permits
  /\ ShrinksOnlyByEarlyReturn

\* The bound on the pool's slots in terms of the two counts.
LEMMA SlotCountBounds ==
  ASSUME PermitInv
  PROVE  /\ Count(pc, Occupied) \in Nat
         /\ Count(pc, HasPermit) \in Nat
         /\ Count(pc, Occupied) <= Count(pc, HasPermit)
         /\ permits + Count(pc, HasPermit) = Permits
         /\ PoolSlots = Len(warm) + Count(pc, Occupied)
<1>1. Occupied \subseteq HasPermit
  BY DEF Occupied, HasPermit
<1>2. /\ IsFiniteSet({q \in Requests : pc[q] \in Occupied})
      /\ IsFiniteSet({q \in Requests : pc[q] \in HasPermit})
  BY FS_Subset
<1>3. Count(pc, Occupied) \in Nat /\ Count(pc, HasPermit) \in Nat
  BY <1>2, FS_CardinalityType DEF Count
<1>4. Count(pc, Occupied) <= Count(pc, HasPermit)
  BY ONLY <1>1, CountMonotone, PoolAssumption
<1>5. QED
  BY <1>3, <1>4 DEF PermitInv, PermitsConserved, Holders, PoolSlots, Count

\* A step that keeps the permits and the queue in order, moves pc and leaves
\* the total unchanged re-establishes the invariant.
LEMMA PermitInvKept ==
  ASSUME PermitInv, TypeOK', QueueOK', NoLostWakeup',
         permits' + Count(pc', HasPermit) = permits + Count(pc, HasPermit)
  PROVE  PermitInv'
BY DEF PermitInv, PermitsConserved, Holders, Count

\* What a step does to the counts: permits are conserved, and the pool's slots
\* change only by a warm checkout, a cold start, a return or an early return.
SlotEffect ==
  LET d == Count(pc', Occupied) - Count(pc, Occupied)
  IN  \/ d = 0 /\ warm' = warm /\ lost' = lost
      \/ d = 1 /\ warm # <<>> /\ Len(warm') = Len(warm) - 1 /\ lost' = lost
      \/ d = 1 /\ warm = <<>> /\ warm' = warm /\ lost' = lost
      \/ d = -1 /\ Len(warm') = Len(warm) + 1 /\ lost' = lost
      \/ d = -1 /\ warm' = warm /\ lost' = lost + 1

PermitEffect ==
  /\ permits' + Count(pc', HasPermit) = permits + Count(pc, HasPermit)
  /\ QueueOK' /\ NoLostWakeup'

\* Every step but an arrival's conserves the permits and keeps the queue right.
LEMMA StepEffect ==
  ASSUME PermitInv, [Next]_vars
  PROVE  PermitEffect /\ SlotEffect
<1> USE DEF poolVars, watchVars
<1>0. TypeOK /\ QueueOK /\ NoLostWakeup
  BY DEF PermitInv
<1>a. Count(pc, Occupied) \in Nat /\ Count(pc, HasPermit) \in Nat
  BY SlotCountBounds
<1>1. ASSUME NEW r \in Requests, Acquire(r)
      PROVE  PermitEffect /\ SlotEffect
  <2>1. warm' = warm /\ lost' = lost
    BY <1>1 DEF Acquire
  <2>2. QED BY <1>0, <1>1, <1>a, <2>1, AcquireConserves DEF PermitEffect, SlotEffect
<1>2. ASSUME NEW r \in Requests, Cancel(r) PROVE PermitEffect /\ SlotEffect
  <2>1. warm' = warm /\ lost' = lost
    BY <1>2 DEF Cancel
  <2>2. CASE pc[r] = "waiting"
    <3>1. LeaveQueue(r) /\ pc' = [pc EXCEPT ![r] = "gone"] /\ UNCHANGED permits
      BY <1>2, <2>2 DEF Cancel
    <3>2. PermitEffect /\ Count(pc', Occupied) = Count(pc, Occupied)
      BY <1>0, <2>2, <3>1, LeaveQueueOK DEF PermitEffect
    <3>3. QED BY <1>a, <2>1, <3>2 DEF SlotEffect
  <2>3. CASE pc[r] = "granted"
    <3>1. Release(r, "gone")
      BY <1>2, <2>3 DEF Cancel
    <3>2. pc[r] \in HasPermit /\ pc[r] \notin Occupied
      BY <2>3 DEF HasPermit, Occupied
    <3>3. QED
      BY <1>0, <1>a, <2>1, <3>1, <3>2, ReleaseConserves DEF PermitEffect, SlotEffect
  <2>4. QED BY <1>2, <2>2, <2>3 DEF Cancel
<1>3. ASSUME NEW r \in Requests, AcquireTimeout(r) PROVE PermitEffect /\ SlotEffect
  <2>1. /\ warm' = warm /\ lost' = lost /\ pc[r] = "waiting" /\ LeaveQueue(r)
        /\ pc' = [pc EXCEPT ![r] = "done"] /\ UNCHANGED permits
    BY <1>3 DEF AcquireTimeout
  <2>2. PermitEffect /\ Count(pc', Occupied) = Count(pc, Occupied)
    BY <1>0, <2>1, LeaveQueueOK DEF PermitEffect
  <2>3. QED BY <1>a, <2>1, <2>2 DEF SlotEffect
<1>4. ASSUME NEW r \in Requests, Granted(r) PROVE PermitEffect /\ SlotEffect
  <2>1. /\ warm' = warm /\ lost' = lost /\ pc' = [pc EXCEPT ![r] = "acquired"]
        /\ UNCHANGED <<permits, waiters>>
    BY <1>4 DEF Granted
  <2>2. /\ pc[r] \in HasPermit /\ pc[r] \notin Occupied
        /\ "acquired" \in HasPermit /\ "acquired" \notin Occupied
    BY <1>4 DEF Granted, HasPermit, Occupied
  <2>3. PermitEffect /\ Count(pc', Occupied) = Count(pc, Occupied)
    BY <1>0, <2>1, <2>2, QuietMove DEF PermitEffect
  <2>4. QED BY <1>a, <2>1, <2>3 DEF SlotEffect
<1>5. ASSUME NEW r \in Requests, TakeSlot(r) PROVE PermitEffect /\ SlotEffect
  <2>1. /\ lost' = lost /\ pc' = [pc EXCEPT ![r] = "slotted"]
        /\ UNCHANGED <<permits, waiters>>
    BY <1>5 DEF TakeSlot
  <2>2. \/ warm # <<>> /\ Len(warm') = Len(warm) - 1
        \/ warm = <<>> /\ warm' = warm
    BY <1>0, <1>5 DEF TakeSlot, TypeOK
  <2>3. /\ pc[r] \in HasPermit /\ pc[r] \notin Occupied
        /\ "slotted" \in HasPermit /\ "slotted" \in Occupied
    BY <1>5 DEF TakeSlot, HasPermit, Occupied
  <2>4. PermitEffect /\ Count(pc', Occupied) = Count(pc, Occupied) + 1
    BY <1>0, <1>a, <2>1, <2>3, QuietMove DEF PermitEffect
  <2>5. QED BY <1>a, <2>1, <2>2, <2>4 DEF SlotEffect
<1>6. ASSUME NEW r \in Requests, Register(r) \/ Deregister(r)
      PROVE  PermitEffect /\ SlotEffect
  <2>1. /\ warm' = warm /\ lost' = lost /\ UNCHANGED <<permits, waiters>>
        /\ \/ pc' = [pc EXCEPT ![r] = "watched"]
           \/ pc' = [pc EXCEPT ![r] = "unwatched"]
    BY <1>6 DEF Register, Deregister
  <2>2. /\ pc[r] \in HasPermit /\ pc[r] \in Occupied
        /\ "watched" \in HasPermit /\ "watched" \in Occupied
        /\ "unwatched" \in HasPermit /\ "unwatched" \in Occupied
    BY <1>6 DEF Register, Deregister, HasPermit, Occupied
  <2>3. PermitEffect /\ Count(pc', Occupied) = Count(pc, Occupied)
    BY <1>0, <1>a, <2>1, <2>2, QuietMove DEF PermitEffect
  <2>4. QED BY <1>a, <2>1, <2>3 DEF SlotEffect
<1>7. ASSUME NEW r \in Requests, EarlyReturn(r), pc[r] \in Occupied, pc[r] \in HasPermit
      PROVE  PermitEffect /\ SlotEffect
  <2>1. /\ warm' = warm /\ lost' = lost + 1 /\ pc' = [pc EXCEPT ![r] = "dropped"]
        /\ UNCHANGED <<permits, waiters>>
    BY <1>7 DEF EarlyReturn
  <2>2. "dropped" \in HasPermit /\ "dropped" \notin Occupied
    BY DEF HasPermit, Occupied
  <2>3. PermitEffect /\ Count(pc', Occupied) = Count(pc, Occupied) - 1
    BY <1>0, <1>7, <1>a, <2>1, <2>2, QuietMove DEF PermitEffect
  <2>4. QED BY <1>a, <2>1, <2>3 DEF SlotEffect
<1>8. ASSUME NEW r \in Requests, (\E p \in Submitted : Prepare(r, p)) \/ RunGuest(r)
      PROVE  PermitEffect /\ SlotEffect
  <2>1. /\ pc[r] \in HasPermit /\ pc[r] \in Occupied
        /\ "running" \in HasPermit /\ "running" \in Occupied
        /\ "ran" \in HasPermit /\ "ran" \in Occupied
    BY <1>8 DEF Prepare, RunGuest, HasPermit, Occupied
  <2>2. CASE EarlyReturn(r)
    BY <2>1, <2>2, <1>7
  <2>3. CASE ~EarlyReturn(r)
    <3>1. /\ warm' = warm /\ lost' = lost /\ UNCHANGED <<permits, waiters>>
          /\ \/ pc' = [pc EXCEPT ![r] = "running"]
             \/ pc' = [pc EXCEPT ![r] = "ran"]
      BY <1>8, <2>3 DEF Prepare, RunGuest
    <3>2. PermitEffect /\ Count(pc', Occupied) = Count(pc, Occupied)
      BY <1>0, <1>a, <2>1, <3>1, QuietMove DEF PermitEffect
    <3>3. QED BY <1>a, <3>1, <3>2 DEF SlotEffect
  <2>4. QED BY <2>2, <2>3
<1>9. ASSUME NEW r \in Requests, ReturnSlot(r) PROVE PermitEffect /\ SlotEffect
  <2>1. /\ lost' = lost /\ pc' = [pc EXCEPT ![r] = "returned"]
        /\ UNCHANGED <<permits, waiters>>
        /\ Len(warm') = Len(warm) + 1
    BY <1>0, <1>9 DEF ReturnSlot, TypeOK
  <2>2. /\ pc[r] \in HasPermit /\ pc[r] \in Occupied
        /\ "returned" \in HasPermit /\ "returned" \notin Occupied
    BY <1>9 DEF ReturnSlot, HasPermit, Occupied
  <2>3. PermitEffect /\ Count(pc', Occupied) = Count(pc, Occupied) - 1
    BY <1>0, <1>a, <2>1, <2>2, QuietMove DEF PermitEffect
  <2>4. QED BY <1>a, <2>1, <2>3 DEF SlotEffect
<1>b. ASSUME NEW r \in Requests, DropSlot(r) PROVE PermitEffect /\ SlotEffect
  <2>1. /\ warm' = warm /\ lost' = lost /\ pc' = [pc EXCEPT ![r] = "dropped"]
        /\ UNCHANGED <<permits, waiters>>
    BY <1>b DEF DropSlot
  <2>2. /\ pc[r] \in HasPermit /\ pc[r] \notin Occupied
        /\ "dropped" \in HasPermit /\ "dropped" \notin Occupied
    BY <1>b DEF DropSlot, HasPermit, Occupied
  <2>3. PermitEffect /\ Count(pc', Occupied) = Count(pc, Occupied)
    BY <1>0, <2>1, <2>2, QuietMove DEF PermitEffect
  <2>4. QED BY <1>a, <2>1, <2>3 DEF SlotEffect
<1>10. ASSUME NEW r \in Requests, Return(r) PROVE PermitEffect /\ SlotEffect
  <2>1. warm' = warm /\ lost' = lost /\ Release(r, "done")
    BY <1>10 DEF Return
  <2>2. pc[r] \in HasPermit /\ pc[r] \notin Occupied
    BY <1>10 DEF Return, HasPermit, Occupied
  <2>3. QED
    BY <1>0, <1>a, <2>1, <2>2, ReleaseConserves DEF PermitEffect, SlotEffect
<1>11. ASSUME UNCHANGED <<permits, waiters, pc, warm, lost>>
       PROVE  PermitEffect /\ SlotEffect
  BY <1>0, <1>a, <1>11 DEF PermitEffect, SlotEffect, QueueOK, NoLostWakeup, Count
<1>12. CASE (\E id \in orders : Evict(id)) \/ PollOnce \/ Shutdown \/ Idle
           \/ UNCHANGED vars
  BY <1>11, <1>12 DEF Evict, PollOnce, Shutdown, Idle, vars
<1>13. QED
  BY <1>1, <1>2, <1>3, <1>4, <1>5, <1>6, <1>8, <1>9, <1>b, <1>10, <1>12 DEF Next, Step

\* The strengthened semaphore invariant.
LEMMA PermitInvariant == Spec => []PermitInv
<1>1. Init => PermitInv
  <2> SUFFICES ASSUME Init PROVE PermitInv
    OBVIOUS
  <2>1. TypeOK /\ QueueOK /\ NoLostWakeup
    BY DEF Init, TypeOK, QueueOK, NoLostWakeup, PCs, Programs, Answers, NoSlot
  <2>2. Holders = {}
    BY DEF Init, Holders, HasPermit
  <2>3. QED BY <2>1, <2>2, FS_EmptySet DEF Init, PermitInv, PermitsConserved
<1>2. PermitInv /\ [Next]_vars => PermitInv'
  BY StepEffect, PermitInvKept, TypeStep DEF PermitInv, PermitEffect
<1>3. QED BY <1>1, <1>2, PTL DEF Spec

\* Permits are conserved and no wake-up is lost, for any number of requests.
THEOREM PermitSafety == Spec => []PermitsSound
<1>1. PermitInv => PermitsSound
  BY DEF PermitInv, PermitsSound
<1>2. QED BY <1>1, PermitInvariant, PTL

\* The stores alive at once are bounded by the larger of pool size and permits,
\* but for the used slots of calls about to return; the guests among them by the
\* permits; and the pool loses at most one slot per early return.
THEOREM SlotCountSafety == Spec => []SlotsAccounted
<1>1. Init => SlotCountInv
  <2> SUFFICES ASSUME Init PROVE SlotCountInv
    OBVIOUS
  <2>1. {r \in Requests : pc[r] \in Occupied} = {}
    BY DEF Init, Occupied
  <2>2. Len(warm) = PoolSize /\ lost = 0
    BY DEF Init
  <2>3. PoolSlots = PoolSize + 0
    BY <2>1, <2>2, FS_EmptySet DEF PoolSlots
  <2>4. QED BY <2>2, <2>3 DEF SlotCountInv, ShrinksOnlyByEarlyReturn
<1>2. PermitInv /\ PermitInv' /\ SlotCountInv /\ [Next]_vars => SlotCountInv'
  <2> SUFFICES ASSUME PermitInv, PermitInv', SlotCountInv, [Next]_vars
               PROVE  SlotCountInv'
    OBVIOUS
  <2> DEFINE c == Count(pc, Occupied)
             c1 == Count(pc', Occupied)
             w == Len(warm)
             w1 == Len(warm')
  <2>1. /\ c \in Nat /\ PoolSlots = w + c /\ w \in Nat /\ lost \in Nat
    <3>1. TypeOK BY DEF PermitInv
    <3>2. w \in Nat /\ lost \in Nat BY ONLY <3>1 DEF TypeOK
    <3> QED BY <3>1, <3>2, SlotCountBounds DEF PermitInv
  <2>2. c1 \in Nat /\ c1 <= Permits /\ PoolSlots' = w1 + c1 /\ w1 \in Nat
    <3>1. /\ IsFiniteSet({q \in Requests : pc'[q] \in Occupied})
          /\ IsFiniteSet({q \in Requests : pc'[q] \in HasPermit})
      BY FS_Subset
    <3>2. c1 \in Nat /\ Count(pc', HasPermit) \in Nat
      BY <3>1, FS_CardinalityType DEF Count
    <3>3. Occupied \subseteq HasPermit
      BY DEF Occupied, HasPermit
    <3>4. c1 <= Count(pc', HasPermit)
      BY ONLY <3>3, CountMonotone, PoolAssumption
    <3>5. permits' \in Nat /\ permits' + Count(pc', HasPermit) = Permits /\ w1 \in Nat
      BY DEF PermitInv, PermitsConserved, Holders, Count, TypeOK
    <3>6. PoolSlots' = w1 + c1
      BY DEF PoolSlots, Count
    <3>7. QED BY <3>2, <3>4, <3>5, <3>6
  <2>3. \/ c1 - c = 0 /\ w1 = w /\ lost' = lost
        \/ c1 - c = 1 /\ w1 = w - 1 /\ lost' = lost
        \/ c1 - c = 1 /\ w = 0 /\ w1 = 0 /\ lost' = lost
        \/ c1 - c = -1 /\ w1 = w + 1 /\ lost' = lost
        \/ c1 - c = -1 /\ w1 = w /\ lost' = lost + 1
    BY StepEffect DEF SlotEffect
  <2>4. /\ w + c <= PoolSize \/ w + c <= Permits
        /\ w + c + lost >= PoolSize
    BY <2>1 DEF SlotCountInv, ShrinksOnlyByEarlyReturn
  <2> HIDE DEF c, c1, w, w1
  <2>5. /\ w1 + c1 <= PoolSize \/ w1 + c1 <= Permits
        /\ w1 + c1 + lost' >= PoolSize
    BY <2>1, <2>2, <2>3, <2>4
  <2>6. QED
    BY <2>2, <2>5 DEF SlotCountInv, ShrinksOnlyByEarlyReturn
<1>3. PermitInv /\ SlotCountInv => SlotsAccounted
  <2> SUFFICES ASSUME PermitInv, SlotCountInv PROVE LiveSlotsBounded
    BY DEF SlotCountInv, SlotsAccounted
  <2> DEFINE O == {r \in Requests : pc[r] \in Occupied}
  <2>1. /\ IsFiniteSet(O) /\ IsFiniteSet(Returning) /\ IsFiniteSet(Holders)
        /\ Cardinality(O) \in Nat /\ Cardinality(Returning) \in Nat
        /\ Cardinality(Holders) \in Nat
    BY FS_Subset, FS_CardinalityType DEF Returning, Holders
  <2>2. InUse = O \cup Returning /\ O \cap Returning = {}
    BY DEF InUse, Returning, HasSlot, Occupied
  <2>3. InUse \subseteq Holders
    BY DEF InUse, Holders, HasSlot, Occupied, HasPermit
  <2>4. Len(warm) \in Nat /\ permits \in Nat /\ permits + Cardinality(Holders) = Permits
    BY DEF PermitInv, TypeOK, PermitsConserved
  <2>5. PoolSlots = Len(warm) + Cardinality(O)
    BY DEF PoolSlots
  <2> HIDE DEF O
  <2>6. Cardinality(InUse) = Cardinality(O) + Cardinality(Returning)
    <3>1. Cardinality(O \cap Returning) = 0 BY <2>2, FS_EmptySet
    <3>2. Cardinality(O \cup Returning)
            = Cardinality(O) + Cardinality(Returning) - Cardinality(O \cap Returning)
      BY <2>1, FS_Union
    <3> QED BY <2>1, <2>2, <3>1, <3>2
  <2>7. Cardinality(InUse) <= Cardinality(Holders)
    BY <2>1, <2>3, FS_Subset
  <2>8. Cardinality(InUse) <= Permits
    BY <2>1, <2>4, <2>6, <2>7
  <2>9. LiveSlots = PoolSlots + Cardinality(Returning)
    BY <2>1, <2>4, <2>5, <2>6 DEF LiveSlots
  <2>10. PoolSlots <= PoolSize \/ PoolSlots <= Permits
    BY DEF SlotCountInv
  <2>11. /\ PoolSlots \in Nat /\ PoolSize \in Nat /\ Permits \in Nat
         /\ Cardinality(Returning) \in Nat
    BY <2>1, <2>4, <2>5
  <2>12. \/ LiveSlots <= PoolSize + Cardinality(Returning)
         \/ LiveSlots <= Permits + Cardinality(Returning)
    BY ONLY <2>9, <2>10, <2>11
  <2> QED BY ONLY <2>8, <2>12 DEF LiveSlotsBounded
<1>4. QED BY <1>1, <1>2, <1>3, PermitInvariant, PTL DEF Spec

-----------------------------------------------------------------------------
(* Isolation and the watch. *)

\* Ids are minted in increasing order, so the slots handed out are older than
\* every warm one; SlotServesOnce alone does not say where a new id can be.
LEMMA SlotsOrderedStep == TypeOK /\ SlotsOrdered /\ [Next]_vars => SlotsOrdered'
<1> SUFFICES ASSUME TypeOK, SlotsOrdered, [Next]_vars PROVE SlotsOrdered'
  OBVIOUS
<1> USE DEF TypeOK, NoSlot
<1>1. ASSUME UNCHANGED <<warm, slot, nextId>>, InUse' \subseteq InUse
      PROVE  SlotsOrdered'
  BY <1>1 DEF SlotsOrdered
<1>2. ASSUME NEW r \in Requests, NEW v, v \notin HasSlot, Release(r, v)
      PROVE  InUse' \subseteq InUse
  <2>1. "granted" \notin HasSlot
    BY DEF HasSlot, Occupied
  <2>2. CASE waiters = <<>>
    <3>1. pc' = [pc EXCEPT ![r] = v]
      BY <1>2, <2>2 DEF Release
    <3>2. QED BY <3>1, <1>2 DEF InUse
  <2>3. CASE waiters # <<>>
    <3>1. pc' = [pc EXCEPT ![r] = v, ![Head(waiters)] = "granted"]
      BY <1>2, <2>3 DEF Release
    <3>2. ASSUME NEW q \in Requests, pc'[q] \in HasSlot PROVE pc'[q] = pc[q]
      BY <3>1, <3>2, <2>1, <1>2
    <3>3. QED BY <3>2 DEF InUse
  <2>4. QED BY <2>2, <2>3
<1>3. ASSUME NEW r \in Requests, NEW v, pc' = [pc EXCEPT ![r] = v],
             pc[r] \in HasSlot \/ v \notin HasSlot
      PROVE  InUse' \subseteq InUse
  BY <1>3 DEF InUse
<1>4. /\ "waiting" \notin HasSlot /\ "acquired" \notin HasSlot
      /\ "done" \notin HasSlot /\ "gone" \notin HasSlot
      /\ "slotted" \in HasSlot /\ "watched" \in HasSlot /\ "running" \in HasSlot
      /\ "ran" \in HasSlot /\ "unwatched" \in HasSlot
      /\ "returned" \in HasSlot /\ "dropped" \notin HasSlot
  BY DEF HasSlot, Occupied
<1> USE DEF poolVars, watchVars
<1>5. ASSUME NEW r \in Requests, Acquire(r)
      PROVE  SlotsOrdered'
  BY <1>1, <1>3, <1>4, <1>5 DEF Acquire
<1>6. ASSUME NEW r \in Requests,
             Cancel(r) \/ Granted(r) \/ AcquireTimeout(r) \/ DropSlot(r) \/ Return(r)
      PROVE  SlotsOrdered'
  <2>1. UNCHANGED <<warm, slot, nextId>>
    BY <1>6 DEF Cancel, Granted, AcquireTimeout, DropSlot, Return
  <2>2. InUse' \subseteq InUse
    BY <1>2, <1>3, <1>4, <1>6 DEF Cancel, Granted, AcquireTimeout, DropSlot, Return
  <2>3. QED BY <1>1, <2>1, <2>2
<1>7. ASSUME NEW r \in Requests,
             Register(r) \/ (\E p \in Submitted : Prepare(r, p)) \/ RunGuest(r) \/ Deregister(r)
      PROVE  SlotsOrdered'
  <2>1. UNCHANGED <<warm, slot, nextId>>
    BY <1>7 DEF Register, Prepare, RunGuest, Deregister, EarlyReturn
  <2>2. InUse' \subseteq InUse
    <3>1. /\ pc[r] \in HasSlot
          /\ \E v \in {"watched", "running", "ran", "unwatched", "dropped"} : pc' = [pc EXCEPT ![r] = v]
      BY <1>4, <1>7 DEF Register, Prepare, RunGuest, Deregister, EarlyReturn
    <3> QED BY <1>3, <3>1
  <2>3. QED BY <1>1, <2>1, <2>2
<1>8. ASSUME NEW r \in Requests, TakeSlot(r) PROVE SlotsOrdered'
  <2>1. InUse' \subseteq InUse \cup {r}
    BY <1>8 DEF TakeSlot, InUse
  <2>2. CASE warm # <<>>
    <3>1. /\ slot' = [slot EXCEPT ![r] = Head(warm)]
          /\ warm' = Tail(warm) /\ nextId' = nextId
      BY <1>8, <2>2 DEF TakeSlot
    <3>2. /\ Head(warm) = warm[1] /\ 1 \in 1 .. Len(warm) /\ Len(warm) \in Nat
          /\ Len(warm') = Len(warm) - 1
          /\ \A i \in 1 .. Len(warm') :
               warm'[i] = warm[i + 1] /\ i + 1 \in 1 .. Len(warm) /\ 1 < i + 1
      BY <2>2, <3>1
    <3>3. /\ warm[1] < nextId /\ 0 < warm[1]
          /\ \A i \in 1 .. Len(warm') : warm[1] < warm'[i]
          /\ \A q \in Requests : slot[q] < warm[1]
      BY <3>2 DEF SlotsOrdered
    <3>4. /\ nextId' > NoSlot
          /\ \A i \in 1 .. Len(warm') : NoSlot < warm'[i] /\ warm'[i] < nextId'
      BY <3>1, <3>2 DEF SlotsOrdered
    <3>5. \A i, j \in 1 .. Len(warm') : i < j => warm'[i] < warm'[j]
      <4> SUFFICES ASSUME NEW i \in 1 .. Len(warm'), NEW j \in 1 .. Len(warm'), i < j
                   PROVE  warm'[i] < warm'[j]
        OBVIOUS
      <4>1. /\ warm'[i] = warm[i + 1] /\ warm'[j] = warm[j + 1]
            /\ i + 1 \in 1 .. Len(warm) /\ j + 1 \in 1 .. Len(warm)
            /\ i + 1 < j + 1
        BY <3>2
      <4>2. QED BY <4>1 DEF SlotsOrdered
    <3>6. \A q \in Requests : slot'[q] = IF q = r THEN warm[1] ELSE slot[q]
      BY <3>1, <3>2
    <3>7. \A q \in Requests : slot'[q] < nextId'
      BY <3>1, <3>3, <3>6 DEF SlotsOrdered
    <3>8. \A q \in Requests, i \in 1 .. Len(warm') : slot'[q] < warm'[i]
      BY <3>2, <3>3, <3>6 DEF SlotsOrdered
    <3>9. \A q \in InUse' : slot'[q] # NoSlot
      <4> SUFFICES ASSUME NEW q \in InUse' PROVE slot'[q] # NoSlot
        OBVIOUS
      <4>1. q \in Requests
        BY DEF InUse
      <4>2. CASE q = r BY <4>1, <4>2, <3>3, <3>6
      <4>3. CASE q # r
        <5>1. q \in InUse /\ slot'[q] = slot[q]
          BY <2>1, <4>1, <4>3, <3>6
        <5>2. QED BY <5>1 DEF SlotsOrdered
      <4>4. QED BY <4>2, <4>3
    <3>10. \A q, u \in Requests : slot'[q] # NoSlot /\ slot'[q] = slot'[u] => q = u
      BY <3>3, <3>6 DEF SlotsOrdered
    <3>11. QED BY <3>4, <3>5, <3>7, <3>8, <3>9, <3>10 DEF SlotsOrdered
  <2>3. CASE warm = <<>>
    <3>1. /\ slot' = [slot EXCEPT ![r] = nextId]
          /\ warm' = <<>> /\ nextId' = nextId + 1
      BY <1>8, <2>3 DEF TakeSlot
    <3>2. /\ \A q \in Requests : slot'[q] = IF q = r THEN nextId ELSE slot[q]
          /\ \A q \in Requests : slot[q] < nextId
          /\ nextId > 0
      BY <3>1 DEF SlotsOrdered
    <3>3. \A q \in Requests : slot'[q] < nextId'
      BY <3>1, <3>2
    <3>4. \A q \in InUse' : slot'[q] # NoSlot
      <4> SUFFICES ASSUME NEW q \in InUse' PROVE slot'[q] # NoSlot
        OBVIOUS
      <4>1. q \in Requests
        BY DEF InUse
      <4>2. CASE q = r BY <4>1, <4>2, <3>2
      <4>3. CASE q # r
        <5>1. q \in InUse /\ slot'[q] = slot[q]
          BY <2>1, <4>1, <4>3, <3>2
        <5>2. QED BY <5>1 DEF SlotsOrdered
      <4>4. QED BY <4>2, <4>3
    <3>5. \A q, u \in Requests : slot'[q] # NoSlot /\ slot'[q] = slot'[u] => q = u
      <4>1. \A q, u \in Requests : slot[q] # NoSlot /\ slot[q] = slot[u] => q = u
        BY DEF SlotsOrdered
      <4>2. ASSUME NEW q \in Requests, NEW u \in Requests,
                   slot'[q] # NoSlot, slot'[q] = slot'[u], q # u
            PROVE  FALSE
        <5>1. CASE q # r /\ u # r BY <5>1, <4>1, <4>2, <3>2
        <5>2. CASE q = r \/ u = r BY <5>2, <4>2, <3>2
        <5>3. QED BY <5>1, <5>2
      <4>3. QED BY <4>2
    <3>6. QED BY <3>1, <3>2, <3>3, <3>4, <3>5 DEF SlotsOrdered
  <2>4. QED BY <2>2, <2>3
<1>9. ASSUME NEW r \in Requests, ReturnSlot(r) PROVE SlotsOrdered'
  <2>1. /\ warm' = Append(warm, nextId) /\ nextId' = nextId + 1 /\ slot' = slot
        /\ pc' = [pc EXCEPT ![r] = "returned"]
    BY <1>9 DEF ReturnSlot
  <2>2. InUse' \subseteq InUse
    <3>1. pc[r] = "unwatched" BY <1>9 DEF ReturnSlot
    <3> QED BY <1>3, <1>4, <2>1, <3>1
  <2>3. /\ Len(warm') = Len(warm) + 1 /\ Len(warm) \in Nat
        /\ warm'[Len(warm) + 1] = nextId
        /\ \A i \in 1 .. Len(warm) : warm'[i] = warm[i] /\ warm[i] < nextId
    BY <2>1 DEF SlotsOrdered
  <2>4. \A i \in 1 .. Len(warm') : i \in 1 .. Len(warm) \/ i = Len(warm) + 1
    BY <2>3
  <2>5. /\ nextId' > NoSlot
        /\ \A i \in 1 .. Len(warm') : NoSlot < warm'[i] /\ warm'[i] < nextId'
    BY <2>1, <2>3, <2>4 DEF SlotsOrdered
  <2>6. \A i, j \in 1 .. Len(warm') : i < j => warm'[i] < warm'[j]
    <3> SUFFICES ASSUME NEW i \in 1 .. Len(warm'), NEW j \in 1 .. Len(warm'), i < j
                 PROVE  warm'[i] < warm'[j]
      OBVIOUS
    <3>1. i \in 1 .. Len(warm) /\ warm'[i] = warm[i] /\ warm[i] < nextId
      BY <2>3
    <3>2. CASE j = Len(warm) + 1 BY <3>1, <3>2, <2>3
    <3>3. CASE j \in 1 .. Len(warm)
      <4>1. warm'[j] = warm[j] BY <3>3, <2>3
      <4>2. QED BY <3>1, <3>3, <4>1 DEF SlotsOrdered
    <3>4. QED BY <3>2, <3>3, <2>4
  <2>7. \A q \in Requests : slot'[q] < nextId'
    BY <2>1 DEF SlotsOrdered
  <2>8. \A q \in Requests, i \in 1 .. Len(warm') : slot'[q] < warm'[i]
    BY <2>1, <2>3, <2>4 DEF SlotsOrdered
  <2>9. QED BY <2>1, <2>2, <2>5, <2>6, <2>7, <2>8 DEF SlotsOrdered
<1>10. CASE (\E id \in orders : Evict(id)) \/ PollOnce \/ Shutdown \/ Idle
           \/ UNCHANGED vars
  BY <1>1, <1>10 DEF Evict, PollOnce, Shutdown, Idle, vars, InUse
<1>11. QED
  BY <1>5, <1>6, <1>7, <1>8, <1>9, <1>10 DEF Next, Step

\* The strengthened isolation invariant.
LEMMA SlotsOrderedInvariant == Spec => []SlotsOrdered
<1>1. Init => SlotsOrdered
  BY DEF Init, SlotsOrdered, InUse, HasSlot, Occupied, NoSlot
<1>2. QED BY <1>1, SlotsOrderedStep, TypeCorrect, PTL DEF Spec

\* No slot serves two executions, and no used slot is handed out again.
THEOREM SlotIsolation == Spec => []SlotServesOnce
<1>1. TypeOK /\ SlotsOrdered => SlotServesOnce
  BY DEF TypeOK, SlotsOrdered, SlotServesOnce
<1>2. QED BY <1>1, SlotsOrderedInvariant, TypeCorrect, PTL

\* The part of execute between registration and deregistration.
Watched == {"watched", "running", "ran"}

\* Distinct slots make deregistration and eviction hit their own target only.
LEMMA WatchStep ==
  TypeOK /\ SlotsOrdered /\ UnwatchedOnlyByOrder /\ [Next]_vars
    => UnwatchedOnlyByOrder'
<1> SUFFICES ASSUME TypeOK, SlotsOrdered, UnwatchedOnlyByOrder, [Next]_vars
             PROVE  UnwatchedOnlyByOrder'
  OBVIOUS
<1> USE DEF TypeOK, poolVars, watchVars, Watched
<1>1. ASSUME UNCHANGED <<registry, evicted>>,
             \A q \in Requests : pc'[q] \in Watched
               => pc[q] \in Watched /\ slot'[q] = slot[q]
      PROVE  UnwatchedOnlyByOrder'
  BY <1>1 DEF UnwatchedOnlyByOrder
<1>2. ASSUME NEW r \in Requests, NEW v, v \notin Watched, Release(r, v)
      PROVE  \A q \in Requests : pc'[q] \in Watched => pc[q] \in Watched
  <2>1. CASE waiters = <<>>
    <3>1. pc' = [pc EXCEPT ![r] = v]
      BY <1>2, <2>1 DEF Release
    <3>2. QED BY <3>1, <1>2
  <2>2. CASE waiters # <<>>
    <3>1. pc' = [pc EXCEPT ![r] = v, ![Head(waiters)] = "granted"]
      BY <1>2, <2>2 DEF Release
    <3>2. QED BY <3>1, <1>2
  <2>3. QED BY <2>1, <2>2
<1>3. ASSUME NEW r \in Requests, Acquire(r)
      PROVE  UnwatchedOnlyByOrder'
  BY <1>1, <1>3 DEF Acquire
<1>4. ASSUME NEW r \in Requests, Cancel(r) \/ Return(r)
      PROVE  UnwatchedOnlyByOrder'
  <2>1. UNCHANGED <<registry, evicted, slot>>
    BY <1>4 DEF Cancel, Return
  <2>2. \A q \in Requests : pc'[q] \in Watched => pc[q] \in Watched
    BY <1>2, <1>4 DEF Cancel, Return
  <2>3. QED BY <1>1, <2>1, <2>2
<1>5. ASSUME NEW r \in Requests,
             Granted(r) \/ AcquireTimeout(r) \/ ReturnSlot(r) \/ DropSlot(r)
      PROVE  UnwatchedOnlyByOrder'
  BY <1>1, <1>5 DEF Granted, AcquireTimeout, ReturnSlot, DropSlot
<1>6. ASSUME NEW r \in Requests, TakeSlot(r) PROVE UnwatchedOnlyByOrder'
  <2>1. /\ UNCHANGED <<registry, evicted>>
        /\ pc' = [pc EXCEPT ![r] = "slotted"]
        /\ \A q \in Requests \ {r} : slot'[q] = slot[q]
    BY <1>6 DEF TakeSlot
  <2>2. QED BY <1>1, <2>1
<1>7. ASSUME NEW r \in Requests, (\E p \in Submitted : Prepare(r, p)) \/ RunGuest(r)
      PROVE  UnwatchedOnlyByOrder'
  <2>1. UNCHANGED <<registry, evicted, slot>> /\ pc[r] \in Watched
    BY <1>7 DEF Prepare, RunGuest, EarlyReturn
  <2>2. \A q \in Requests : pc'[q] \in Watched => pc[q] \in Watched
    <3>1. CASE EarlyReturn(r) BY <1>2, <3>1 DEF EarlyReturn
    <3>2. CASE ~EarlyReturn(r) BY <1>7, <2>1, <3>2 DEF Prepare, RunGuest
    <3>3. QED BY <3>1, <3>2
  <2>3. QED BY <1>1, <2>1, <2>2
<1>8. ASSUME NEW r \in Requests, Register(r) PROVE UnwatchedOnlyByOrder'
  BY <1>8 DEF Register, UnwatchedOnlyByOrder
<1>9. ASSUME NEW r \in Requests, Deregister(r) PROVE UnwatchedOnlyByOrder'
  <2>1. /\ pc' = [pc EXCEPT ![r] = "unwatched"] /\ pc[r] = "ran"
        /\ registry' = registry \ {slot[r]} /\ slot' = slot /\ evicted' = evicted
    BY <1>9 DEF Deregister
  <2>2. ASSUME NEW q \in Requests, pc'[q] \in Watched, slot[q] \notin registry'
        PROVE  slot[q] \in evicted
    <3>1. q # r /\ pc[q] \in Watched
      BY <2>1, <2>2
    <3>2. q \in InUse /\ slot[q] # NoSlot
      BY <3>1 DEF InUse, HasSlot, Occupied, SlotsOrdered
    <3>3. slot[q] # slot[r]
      BY <3>1, <3>2 DEF SlotsOrdered
    <3>4. QED BY <2>1, <2>2, <3>1, <3>3 DEF UnwatchedOnlyByOrder
  <2>3. QED BY <2>1, <2>2 DEF UnwatchedOnlyByOrder
<1>10. ASSUME NEW id \in orders, Evict(id) PROVE UnwatchedOnlyByOrder'
  BY <1>10 DEF Evict, UnwatchedOnlyByOrder
<1>11. CASE PollOnce \/ Shutdown \/ Idle \/ UNCHANGED vars
  BY <1>1, <1>11 DEF PollOnce, Shutdown, Idle, vars
<1>12. QED
  BY <1>3, <1>4, <1>5, <1>6, <1>7, <1>8, <1>9, <1>10, <1>11 DEF Next, Step

\* Only a processed order for its own slot takes the watch off a guest.
THEOREM WatchSafety == Spec => []UnwatchedOnlyByOrder
<1>1. Init => UnwatchedOnlyByOrder
  BY DEF Init, UnwatchedOnlyByOrder
<1>2. QED
  BY <1>1, WatchStep, SlotsOrderedInvariant, TypeCorrect, PTL DEF Spec
=============================================================================
