-------------------------- MODULE WriteBehindProofs --------------------------
(***************************************************************************)
(* The write-behind service stores no snapshot twice, lets none vanish,    *)
(* implements DurableStore, and lets reads move forward while it serves,   *)
(* for every channel capacity and every number of snapshots and database   *)
(* failures.                                                               *)
(***************************************************************************)
EXTENDS WriteBehind, TLAPS

USE WriteBehindAssumption

-----------------------------------------------------------------------------
(* Sequences of snapshots as the sets of their entries. *)

\* What a send to the channel, and ingest, add to a sequence.
LEMMA IdsAppend ==
  ASSUME NEW s \in Seq(Nat), NEW x \in Nat
  PROVE  /\ Append(s, x) \in Seq(Nat)
         /\ Len(Append(s, x)) = Len(s) + 1
         /\ Ids(Append(s, x)) = Ids(s) \cup {x}
         /\ NoRepeat(s) /\ x \notin Ids(s) => NoRepeat(Append(s, x))
<1> DEFINE t == Append(s, x)
<1>1. /\ t \in Seq(Nat) /\ Len(t) = Len(s) + 1 /\ Len(s) \in Nat
      /\ t[Len(s) + 1] = x
      /\ \A i \in 1 .. Len(s) : t[i] = s[i]
  OBVIOUS
<1> HIDE DEF t
<1>2. Ids(t) = Ids(s) \cup {x}
  <2>1. ASSUME NEW y \in Ids(t) PROVE y \in Ids(s) \cup {x}
    <3>1. PICK i \in 1 .. Len(t) : y = t[i]
      BY <2>1 DEF Ids
    <3>2. CASE i = Len(s) + 1
      BY <3>1, <3>2, <1>1
    <3>3. CASE i \in 1 .. Len(s)
      BY <3>1, <3>3, <1>1 DEF Ids
    <3>4. QED BY <3>2, <3>3, <1>1
  <2>2. ASSUME NEW i \in 1 .. Len(s) PROVE s[i] \in Ids(t)
    <3>1. i \in 1 .. Len(t) /\ t[i] = s[i]
      BY <1>1
    <3>2. QED BY <3>1 DEF Ids
  <2>3. x \in Ids(t)
    <3>1. Len(s) + 1 \in 1 .. Len(t)
      BY <1>1
    <3>2. QED BY <3>1, <1>1 DEF Ids
  <2>4. QED BY <2>1, <2>2, <2>3 DEF Ids
<1>3. ASSUME NoRepeat(s), x \notin Ids(s), NEW i \in 1 .. Len(t), NEW j \in 1 .. Len(t),
             t[i] = t[j]
      PROVE  i = j
  <2>1. CASE i = Len(s) + 1 /\ j = Len(s) + 1
    BY <2>1
  <2>2. CASE i \in 1 .. Len(s) /\ j \in 1 .. Len(s)
    BY <1>1, <1>3, <2>2 DEF NoRepeat
  <2>3. CASE i \in 1 .. Len(s) /\ j = Len(s) + 1
    BY <1>1, <1>3, <2>3 DEF Ids
  <2>4. CASE j \in 1 .. Len(s) /\ i = Len(s) + 1
    BY <1>1, <1>3, <2>4 DEF Ids
  <2>5. QED BY <1>1, <2>1, <2>2, <2>3, <2>4
<1>4. QED BY <1>1, <1>2, <1>3 DEF t, NoRepeat

\* What ingest takes from the channel.
LEMMA IdsTail ==
  ASSUME NEW s \in Seq(Nat), s # <<>>
  PROVE  /\ Head(s) \in Nat
         /\ Tail(s) \in Seq(Nat)
         /\ Len(Tail(s)) = Len(s) - 1
         /\ Ids(s) = Ids(Tail(s)) \cup {Head(s)}
         /\ NoRepeat(s) => NoRepeat(Tail(s)) /\ Head(s) \notin Ids(Tail(s))
<1> DEFINE t == Tail(s)
<1>1. /\ Head(s) \in Nat /\ Head(s) = s[1] /\ t \in Seq(Nat)
      /\ Len(s) \in Nat \ {0} /\ Len(t) = Len(s) - 1
      /\ \A i \in 1 .. Len(t) : t[i] = s[i + 1]
  OBVIOUS
<1> HIDE DEF t
<1>2. Ids(s) \subseteq Ids(t) \cup {Head(s)}
  <2> SUFFICES ASSUME NEW i \in 1 .. Len(s) PROVE s[i] \in Ids(t) \cup {Head(s)}
    BY DEF Ids
  <2>1. CASE i = 1
    BY <2>1, <1>1
  <2>2. CASE i > 1
    <3>1. i - 1 \in 1 .. Len(t) /\ t[i - 1] = s[i]
      BY <2>2, <1>1
    <3>2. QED BY <3>1 DEF Ids
  <2>3. QED BY <2>1, <2>2
<1>3. Ids(t) \cup {Head(s)} \subseteq Ids(s)
  <2>1. ASSUME NEW i \in 1 .. Len(t) PROVE t[i] \in Ids(s)
    <3>1. i + 1 \in 1 .. Len(s) /\ t[i] = s[i + 1]
      BY <1>1
    <3>2. QED BY <3>1 DEF Ids
  <2>2. Head(s) \in Ids(s)
    BY <1>1 DEF Ids
  <2>3. QED BY <2>1, <2>2 DEF Ids
<1>4. ASSUME NoRepeat(s) PROVE NoRepeat(t) /\ Head(s) \notin Ids(t)
  <2>1. ASSUME NEW i \in 1 .. Len(t), NEW j \in 1 .. Len(t), t[i] = t[j]
        PROVE  i = j
    <3>1. i + 1 \in 1 .. Len(s) /\ j + 1 \in 1 .. Len(s)
      BY <1>1
    <3>2. t[i] = s[i + 1] /\ t[j] = s[j + 1]
      BY <1>1
    <3>3. s[i + 1] = s[j + 1]
      BY <2>1, <3>2
    <3>4. i + 1 = j + 1
      BY <1>4, <3>1, <3>3 DEF NoRepeat
    <3>5. QED BY <3>4
  <2>2. ASSUME NEW i \in 1 .. Len(t), t[i] = Head(s) PROVE FALSE
    <3>1. i + 1 \in 1 .. Len(s) /\ 1 \in 1 .. Len(s) /\ s[i + 1] = s[1]
      BY <1>1, <2>2
    <3>2. i + 1 = 1
      BY <3>1, <1>4 DEF NoRepeat
    <3>3. QED BY <3>2
  <2>3. QED BY <2>1, <2>2 DEF NoRepeat, Ids
<1>5. QED BY <1>1, <1>2, <1>3, <1>4 DEF t

\* The entries of a concatenation.
LEMMA ConcatEntries ==
  ASSUME NEW S, NEW s \in Seq(S), NEW t \in Seq(S)
  PROVE  /\ s \o t \in Seq(S) /\ Len(s \o t) = Len(s) + Len(t)
         /\ \A i \in 1 .. Len(s) : (s \o t)[i] = s[i]
         /\ \A i \in 1 .. Len(s \o t) : i > Len(s) => (s \o t)[i] = t[i - Len(s)]
OBVIOUS

\* What putting a batch back in front of the pending entries gives.
LEMMA IdsConcat ==
  ASSUME NEW s \in Seq(Nat), NEW t \in Seq(Nat)
  PROVE  /\ s \o t \in Seq(Nat)
         /\ Ids(s \o t) = Ids(s) \cup Ids(t)
         /\ NoRepeat(s) /\ NoRepeat(t) /\ Disjoint(Ids(s), Ids(t))
              => NoRepeat(s \o t)
<1> DEFINE u == s \o t
<1>1. /\ u \in Seq(Nat) /\ Len(u) = Len(s) + Len(t)
      /\ Len(s) \in Nat /\ Len(t) \in Nat
      /\ \A i \in 1 .. Len(s) : u[i] = s[i]
      /\ \A i \in 1 .. Len(u) : i > Len(s) => u[i] = t[i - Len(s)]
  OBVIOUS
<1> HIDE DEF u
<1>2. Ids(u) \subseteq Ids(s) \cup Ids(t)
  <2> SUFFICES ASSUME NEW i \in 1 .. Len(u) PROVE u[i] \in Ids(s) \cup Ids(t)
    BY DEF Ids
  <2>1. CASE i \in 1 .. Len(s)
    BY <2>1, <1>1 DEF Ids
  <2>2. CASE i > Len(s)
    <3>1. i - Len(s) \in 1 .. Len(t) /\ u[i] = t[i - Len(s)]
      BY <2>2, <1>1
    <3>2. QED BY <3>1 DEF Ids
  <2>3. QED BY <2>1, <2>2, <1>1
<1>3. Ids(s) \cup Ids(t) \subseteq Ids(u)
  <2>1. ASSUME NEW i \in 1 .. Len(s) PROVE s[i] \in Ids(u)
    <3>1. i \in 1 .. Len(u) /\ u[i] = s[i]
      BY <1>1
    <3>2. QED BY <3>1 DEF Ids
  <2>2. ASSUME NEW i \in 1 .. Len(t) PROVE t[i] \in Ids(u)
    <3>1. i + Len(s) \in 1 .. Len(u) /\ i + Len(s) > Len(s)
      BY <1>1
    <3>2. (i + Len(s)) - Len(s) = i
      BY <1>1
    <3>3. u[i + Len(s)] = t[(i + Len(s)) - Len(s)]
      BY <1>1, <3>1
    <3>4. u[i + Len(s)] = t[i]
      BY <3>2, <3>3
    <3>5. QED BY <3>1, <3>4 DEF Ids
  <2>3. QED BY <2>1, <2>2 DEF Ids
<1>4. ASSUME NoRepeat(s), NoRepeat(t), Disjoint(Ids(s), Ids(t)),
             NEW i \in 1 .. Len(u), NEW j \in 1 .. Len(u), u[i] = u[j]
      PROVE  i = j
  <2>1. ASSUME NEW a \in 1 .. Len(s), NEW b \in 1 .. Len(u), b > Len(s), u[a] = u[b]
        PROVE FALSE
    <3>a. u[b] = t[b - Len(s)]
      BY <2>1, <1>1
    <3>b. u[a] = s[a]
      BY <2>1, <1>1
    <3>c. b \in Nat /\ b <= Len(s) + Len(t)
      BY <2>1, <1>1
    <3>d. b - Len(s) \in 1 .. Len(t)
      BY <2>1, <3>c, <1>1
    <3>1. b - Len(s) \in 1 .. Len(t) /\ u[b] = t[b - Len(s)] /\ u[a] = s[a]
      BY <3>a, <3>b, <3>d
    <3>2. t[b - Len(s)] \in Ids(t) /\ s[a] \in Ids(s)
      BY <3>1 DEF Ids
    <3>3. t[b - Len(s)] = s[a]
      BY <3>1, <2>1
    <3>4. QED BY <3>2, <3>3, <1>4 DEF Disjoint
  <2>2. CASE i \in 1 .. Len(s) /\ j \in 1 .. Len(s)
    BY <2>2, <1>1, <1>4 DEF NoRepeat
  <2>3. CASE i > Len(s) /\ j > Len(s)
    <3>1. /\ i - Len(s) \in 1 .. Len(t) /\ j - Len(s) \in 1 .. Len(t)
          /\ t[i - Len(s)] = t[j - Len(s)]
      <4>1. i \in Nat /\ j \in Nat /\ i <= Len(s) + Len(t) /\ j <= Len(s) + Len(t)
        BY <1>1
      <4>2. i - Len(s) \in 1 .. Len(t) /\ j - Len(s) \in 1 .. Len(t)
        BY <2>3, <4>1, <1>1
      <4>3. u[i] = t[i - Len(s)] /\ u[j] = t[j - Len(s)]
        BY <2>3, <1>1
      <4>4. QED BY <4>2, <4>3, <1>4
    <3>2. i - Len(s) = j - Len(s)
      BY <3>1, <1>4 DEF NoRepeat
    <3>3. QED BY <3>2, <1>1
  <2>4. CASE i \in 1 .. Len(s) /\ j > Len(s)
    BY <2>1, <2>4, <1>4
  <2>5. CASE j \in 1 .. Len(s) /\ i > Len(s)
    BY <2>1, <2>5, <1>4
  <2>6. /\ i \in 1 .. Len(s) \/ i > Len(s)
        /\ j \in 1 .. Len(s) \/ j > Len(s)
    BY <1>1
  <2>7. QED BY <2>2, <2>3, <2>4, <2>5, <2>6
<1>5. QED BY <1>1, <1>2, <1>3, <1>4 DEF u, NoRepeat

\* Entries are snapshot numbers.
LEMMA IdsNat == ASSUME NEW s \in Seq(Nat) PROVE Ids(s) \subseteq Nat
<1>1. \A i \in 1 .. Len(s) : s[i] \in Nat
  OBVIOUS
<1>2. QED BY <1>1 DEF Ids

\* The empty sequence.
LEMMA IdsEmpty == <<>> \in Seq(Nat) /\ Len(<<>>) = 0 /\ Ids(<<>>) = {} /\ NoRepeat(<<>>)
BY DEF Ids, NoRepeat

-----------------------------------------------------------------------------
(* Types. *)

Row == [id : Nat, at : Nat]

\* What a commit appends to the table.
LEMMA RowsAppended ==
  ASSUME TypeOK, NEW f \in Flushers, db' = db \o Rows(f)
  PROVE  /\ db' \in Seq(Row)
         /\ Stored' = Stored \cup Ids(batch[f])
         /\ StoredOnce /\ NoRepeat(batch[f]) /\ Disjoint(Ids(batch[f]), Stored)
              => StoredOnce'
<1> DEFINE b == batch[f]
           rows == Rows(f)
<1>1. b \in Seq(Nat) /\ db \in Seq(Row) /\ stamp[f] \in Nat /\ Len(b) \in Nat
      /\ Len(db) \in Nat
  BY DEF TypeOK, Row
<1>2. /\ rows \in Seq(Row) /\ Len(rows) = Len(b)
      /\ \A i \in 1 .. Len(b) : rows[i].id = b[i]
  BY <1>1 DEF Rows, Row
<1> HIDE DEF rows
<1>3. /\ db' \in Seq(Row) /\ Len(db') = Len(db) + Len(b)
      /\ \A i \in 1 .. Len(db) : db'[i] = db[i]
      /\ \A i \in 1 .. Len(db') : i > Len(db) => db'[i] = rows[i - Len(db)]
  <2>1. db' = db \o rows
    BY DEF rows
  <2>2. rows \in Seq(Row) /\ db \in Seq(Row)
    BY <1>1, <1>2
  <2>3. /\ db \o rows \in Seq(Row) /\ Len(db \o rows) = Len(db) + Len(rows)
        /\ \A i \in 1 .. Len(db) : (db \o rows)[i] = db[i]
        /\ \A i \in 1 .. Len(db \o rows) :
             i > Len(db) => (db \o rows)[i] = rows[i - Len(db)]
    BY ONLY <2>2, ConcatEntries
  <2>4. Len(rows) = Len(b)
    BY <1>2
  <2>5. QED BY ONLY <2>1, <2>3, <2>4, Zenon
<1> HIDE DEF b
<1>4. ASSUME NEW i \in 1 .. Len(db'), i > Len(db)
      PROVE  i - Len(db) \in 1 .. Len(b) /\ db'[i].id = b[i - Len(db)]
  <2>1. i - Len(db) \in 1 .. Len(b)
    BY <1>1, <1>3, <1>4
  <2>2. db'[i] = rows[i - Len(db)]
    BY <1>3, <1>4
  <2>3. QED BY <2>1, <2>2, <1>2
<1>5. ASSUME NEW i \in 1 .. Len(db') PROVE i \in 1 .. Len(db) \/ i > Len(db)
  BY <1>1, <1>3
<1>6. Stored' \subseteq Stored \cup Ids(b)
  <2> SUFFICES ASSUME NEW i \in 1 .. Len(db') PROVE db'[i].id \in Stored \cup Ids(b)
    BY DEF Stored
  <2>1. CASE i \in 1 .. Len(db)
    BY <2>1, <1>3 DEF Stored
  <2>2. CASE i > Len(db)
    BY <2>2, <1>4 DEF Ids
  <2>3. QED BY <2>1, <2>2, <1>5
<1>7. Stored \cup Ids(b) \subseteq Stored'
  <2>1. ASSUME NEW i \in 1 .. Len(db) PROVE db[i].id \in Stored'
    <3>1. i \in 1 .. Len(db') /\ db'[i] = db[i]
      BY <1>1, <1>3
    <3>2. QED BY <3>1 DEF Stored
  <2>2. ASSUME NEW i \in 1 .. Len(b) PROVE b[i] \in Stored'
    <3>1. i + Len(db) \in 1 .. Len(db') /\ i + Len(db) > Len(db)
      BY <1>1, <1>3
    <3>2. (i + Len(db)) - Len(db) = i
      BY <1>1
    <3>3. db'[i + Len(db)].id = b[(i + Len(db)) - Len(db)]
      BY <3>1, <1>4
    <3>4. db'[i + Len(db)].id = b[i]
      BY <3>2, <3>3
    <3>5. QED BY <3>1, <3>4 DEF Stored
  <2>3. QED BY <2>1, <2>2 DEF Stored, Ids
<1>8. ASSUME StoredOnce, NoRepeat(b), Disjoint(Ids(b), Stored),
             NEW i \in 1 .. Len(db'), NEW j \in 1 .. Len(db'),
             db'[i].id = db'[j].id
      PROVE  i = j
  <2>1. ASSUME NEW k \in 1 .. Len(db), NEW n \in 1 .. Len(db'), n > Len(db),
               db'[k].id = db'[n].id
        PROVE  FALSE
    <3>1. n - Len(db) \in 1 .. Len(b) /\ db'[n].id = b[n - Len(db)]
      BY <2>1, <1>4
    <3>2. b[n - Len(db)] \in Ids(b)
      BY <3>1 DEF Ids
    <3>3. db'[k].id \in Stored
      BY <2>1, <1>3 DEF Stored
    <3>4. QED BY <3>1, <3>2, <3>3, <2>1, <1>8 DEF Disjoint
  <2>2. CASE i \in 1 .. Len(db) /\ j \in 1 .. Len(db)
    BY <2>2, <1>3, <1>8 DEF StoredOnce
  <2>3. CASE i > Len(db) /\ j > Len(db)
    <3>1. /\ i - Len(db) \in 1 .. Len(b) /\ j - Len(db) \in 1 .. Len(b)
          /\ b[i - Len(db)] = b[j - Len(db)]
      BY <2>3, <1>4, <1>8
    <3>2. i - Len(db) = j - Len(db)
      BY <3>1, <1>8 DEF NoRepeat
    <3>3. QED BY <3>2, <1>1
  <2>4. CASE i \in 1 .. Len(db) /\ j > Len(db)
    BY <2>1, <2>4, <1>8
  <2>5. CASE j \in 1 .. Len(db) /\ i > Len(db)
    BY <2>1, <2>5, <1>8
  <2>6. QED BY <2>2, <2>3, <2>4, <2>5, <1>5
<1>9. StoredOnce /\ NoRepeat(b) /\ Disjoint(Ids(b), Stored) => StoredOnce'
  BY <1>8 DEF StoredOnce
<1>10. QED BY <1>3, <1>6, <1>7, <1>9 DEF b

\* Every step preserves the types.
LEMMA TypeStep == TypeOK /\ [Next]_vars => TypeOK'
<1> SUFFICES ASSUME TypeOK, [Next]_vars PROVE TypeOK'
  OBVIOUS
<1> USE DEF flushVars
<1>0. /\ "loop" \in Flushers /\ "close" \in Flushers
      /\ "taking" \in FlushPCs /\ "begin" \in FlushPCs /\ "insert" \in FlushPCs
      /\ "commit" \in FlushPCs /\ "returned" \in FlushPCs /\ "ended" \in FlushPCs
      /\ \A f : Returned(f) \in FlushPCs
      /\ "closing" \in Stages /\ "closed" \in Stages /\ "exited" \in Stages
      /\ <<>> \in Seq(Nat) /\ Len(<<>>) = 0
  BY DEF Flushers, FlushPCs, Stages, Returned
<1> USE <1>0
<1>1. CASE Send
  <2>1. /\ ch' = Append(ch, sent + 1) /\ ch \in Seq(Nat) /\ sent + 1 \in Nat
        /\ Len(ch) < ChanCap
    BY <1>1 DEF Send, TypeOK
  <2>2. ch' \in Seq(Nat) /\ Len(ch') <= ChanCap
    BY <2>1
  <2>3. QED BY <1>1, <2>1, <2>2 DEF Send, TypeOK
<1>2. CASE Ingest
  <2>1. /\ ch \in Seq(Nat) /\ ch # <<>> /\ pending \in Seq(Nat) /\ Len(ch) <= ChanCap
        /\ ch' = Tail(ch) /\ pending' = Append(pending, Head(ch))
    BY <1>2 DEF Ingest, TypeOK
  <2>2. ch' \in Seq(Nat) /\ Len(ch') <= ChanCap /\ pending' \in Seq(Nat)
    BY <2>1
  <2>3. QED BY <1>2, <2>2 DEF Ingest, TypeOK
<1>3. CASE FlushEmpty
  BY <1>3 DEF FlushEmpty, TypeOK
<1>4. ASSUME NEW f \in Flushers, FlushTake(f) PROVE TypeOK'
  BY <1>4 DEF FlushTake, TypeOK
<1>a. /\ pending \in Seq(Nat) /\ failures \in Nat /\ clock \in Nat /\ lost \subseteq Nat
      /\ fpc \in [Flushers -> FlushPCs] /\ batch \in [Flushers -> Seq(Nat)]
      /\ stamp \in [Flushers -> Nat]
  BY DEF TypeOK
<1>b. ASSUME NEW f \in Flushers, FlushReturns(f)
      PROVE  /\ fpc' \in [Flushers -> FlushPCs] /\ batch' \in [Flushers -> Seq(Nat)]
             /\ stamp' \in [Flushers -> Nat]
  BY <1>a, <1>b DEF FlushReturns
<1>c. DBFails => failures' \in Nat
  BY <1>a DEF DBFails
<1>5. ASSUME NEW f \in Flushers, FlushBegin(f) PROVE TypeOK'
  <2>1. batch[f] \o pending \in Seq(Nat)
    BY <1>a
  <2>2. CASE /\ fpc' = [fpc EXCEPT ![f] = "insert"]
             /\ UNCHANGED <<batch, stamp, pending, failures>>
    BY <1>5, <2>2 DEF FlushBegin, TypeOK
  <2>3. CASE /\ IF stage = "closed" THEN UNCHANGED failures ELSE DBFails
             /\ pending' = batch[f] \o pending
             /\ FlushReturns(f)
    <3>1. failures' \in Nat
      BY <2>3, <1>a, <1>c
    <3>2. QED BY <1>5, <2>1, <2>3, <3>1, <1>b DEF FlushBegin, TypeOK
  <2>4. QED BY <1>5, <2>2, <2>3 DEF FlushBegin
<1>6. ASSUME NEW f \in Flushers, FlushInsert(f) PROVE TypeOK'
  <2>1. lost \cup Ids(batch[f]) \subseteq Nat
    BY <1>a, IdsNat
  <2>2. CASE /\ fpc' = [fpc EXCEPT ![f] = "commit"]
             /\ stamp' = [stamp EXCEPT ![f] = clock]
             /\ UNCHANGED <<batch, lost, failures>>
    <3>1. /\ fpc' \in [Flushers -> FlushPCs] /\ batch' \in [Flushers -> Seq(Nat)]
          /\ stamp' \in [Flushers -> Nat]
      BY <1>a, <2>2
    <3>2. QED BY <1>6, <2>2, <3>1 DEF FlushInsert, TypeOK
  <2>3. CASE DBFails /\ lost' = lost \cup Ids(batch[f]) /\ FlushReturns(f)
    BY <1>6, <2>1, <2>3, <1>b, <1>c DEF FlushInsert, TypeOK
  <2>4. QED BY <1>6, <2>2, <2>3 DEF FlushInsert
<1>7. ASSUME NEW f \in Flushers, FlushCommit(f) PROVE TypeOK'
  <2>1. Ids(batch[f]) \subseteq Nat
    BY <1>a, IdsNat
  <2>2. db' = db \o Rows(f) => db' \in Seq([id : Nat, at : Nat])
    BY RowsAppended DEF Row
  <2>3. db' \in Seq([id : Nat, at : Nat])
    BY <1>7, <2>2 DEF FlushCommit, TypeOK
  <2>4. lost' \subseteq Nat
    BY <1>7, <2>1 DEF FlushCommit, TypeOK
  <2>5. failures' \in Nat
    BY <1>7 DEF FlushCommit, DBFails, TypeOK
  <2>6. /\ FlushReturns(f) /\ UNCHANGED <<sent, ch, pending, clock, stage>>
    BY <1>7 DEF FlushCommit
  <2>7. QED BY <2>3, <2>4, <2>5, <2>6, <1>b, <1>c DEF TypeOK
<1>8. CASE Close BY <1>8 DEF Close, TypeOK
<1>9. CASE LoopEnds BY <1>9 DEF LoopEnds, TypeOK
<1>10. CASE CloseDB BY <1>10 DEF CloseDB, TypeOK
<1>11. CASE Exit
  <2>1. Held \subseteq Nat
    BY <1>0, <1>a, IdsNat DEF Held, TypeOK
  <2>2. QED BY <1>11, <2>1 DEF Exit, TypeOK
<1>12. CASE Tick BY <1>12 DEF Tick, TypeOK
<1>13. CASE Exited \/ UNCHANGED vars BY <1>13 DEF Exited, vars, TypeOK
<1>14. QED
  BY <1>1, <1>2, <1>3, <1>4, <1>5, <1>6, <1>7, <1>8, <1>9, <1>10, <1>11, <1>12,
     <1>13 DEF Next, Flush

\* Type correctness of the write-behind service.
THEOREM TypeCorrect == Spec => []TypeOK
<1>1. Init => TypeOK
  BY DEF Init, TypeOK, FlushPCs, Stages
<1>2. QED BY <1>1, TypeStep, PTL DEF Spec

-----------------------------------------------------------------------------
(* One place each. *)

\* Before Close is called, its flush has not begun.
CloseWaits == stage = "serving" => fpc["close"] = "idle"

Inv == TypeOK /\ OnePlaceEach /\ StoredOnce /\ NothingVanishes /\ CloseWaits

\* Only Close starts the second flush.
LEMMA CloseWaitsStep == TypeOK /\ CloseWaits /\ [Next]_vars => CloseWaits'
<1> SUFFICES ASSUME TypeOK, CloseWaits, [Next]_vars, stage' = "serving"
             PROVE  fpc'["close"] = "idle"
  BY DEF CloseWaits
<1> USE DEF flushVars
<1>0. fpc \in [Flushers -> FlushPCs] /\ "close" \in Flushers /\ "loop" \in Flushers
  BY DEF TypeOK, Flushers
<1>1. stage = "serving" /\ fpc["close"] = "idle"
  BY DEF CloseWaits, Next, Send, Ingest, FlushEmpty, Flush, FlushTake, FlushBegin,
     FlushInsert, FlushCommit, Close, LoopEnds, CloseDB, Exit, Tick, Exited, vars
<1>2. ASSUME NEW f \in Flushers, Flush(f) PROVE fpc'["close"] = "idle"
  <2>1. f = "loop"
    BY <1>1, <1>2 DEF Flush, FlushTake, Entering, FlushBegin, FlushInsert,
       FlushCommit, Flushers
  <2>2. QED
    BY <1>0, <1>1, <1>2, <2>1 DEF Flush, FlushTake, FlushBegin, FlushInsert,
       FlushCommit, FlushReturns
<1>3. ~FlushEmpty /\ ~Close /\ ~LoopEnds
  BY <1>1 DEF FlushEmpty, Entering, Close, LoopEnds
<1>4. QED
  BY <1>1, <1>2, <1>3 DEF Next, Send, Ingest, CloseDB, Exit, Tick, Exited, vars

\* The invariant holds initially.
LEMMA InvInit == Init => Inv
<1> SUFFICES ASSUME Init PROVE Inv
  OBVIOUS
<1>1. TypeOK
  BY DEF Init, TypeOK, FlushPCs, Stages
<1>2. /\ ch = <<>> /\ pending = <<>> /\ db = <<>> /\ lost = {} /\ sent = 0
      /\ \A f \in Flushers : batch[f] = <<>>
      /\ batch["loop"] = <<>> /\ batch["close"] = <<>>
  BY DEF Init, Flushers
<1>3. Stored = {} /\ StoredOnce
  BY <1>2 DEF Stored, StoredOnce
<1>4. Held = {}
  BY <1>2, IdsEmpty DEF Held
<1>5. OnePlaceEach
  BY <1>2, <1>3, <1>4, IdsEmpty DEF OnePlaceEach, Disjoint
<1>6. NothingVanishes
  BY <1>2, <1>3, <1>4 DEF NothingVanishes
<1>7. CloseWaits
  BY DEF Init, CloseWaits, Flushers
<1>8. QED BY <1>1, <1>3, <1>5, <1>6, <1>7 DEF Inv

\* A caller that is not between taking a batch and settling it holds none.
Active == {"begin", "insert", "commit"}

\* The invariant, caller by caller.
LEMMA TwoCallers ==
  ASSUME NEW f \in Flushers, NEW g \in Flushers, f # g, TypeOK
  PROVE  /\ Held = Ids(ch) \cup Ids(pending) \cup Ids(batch[f]) \cup Ids(batch[g])
         /\ OnePlaceEach <=>
              /\ NoRepeat(ch) /\ NoRepeat(pending)
              /\ NoRepeat(batch[f]) /\ NoRepeat(batch[g])
              /\ Disjoint(Ids(ch), Ids(pending))
              /\ Disjoint(Ids(batch[f]), Ids(batch[g]))
              /\ Disjoint(Ids(batch[f]), Ids(ch) \cup Ids(pending))
              /\ Disjoint(Ids(batch[g]), Ids(ch) \cup Ids(pending))
              /\ fpc[f] \notin Active => batch[f] = <<>>
              /\ fpc[g] \notin Active => batch[g] = <<>>
              /\ Disjoint(Stored, lost) /\ Disjoint(Held, Stored \cup lost)
<1>1. CASE f = "loop" /\ g = "close"
  BY <1>1 DEF Flushers, Held, OnePlaceEach, Active, Disjoint
<1>2. CASE f = "close" /\ g = "loop"
  BY <1>2 DEF Flushers, Held, OnePlaceEach, Active, Disjoint
<1>3. QED BY <1>1, <1>2 DEF Flushers

\* Every step moves snapshots between places without copying or dropping one.
LEMMA InvStep == Inv /\ [Next]_vars => Inv'
<1> SUFFICES ASSUME Inv, [Next]_vars PROVE Inv'
  OBVIOUS
<1> USE DEF flushVars
<1>0. /\ TypeOK /\ OnePlaceEach /\ StoredOnce /\ NothingVanishes /\ CloseWaits
      /\ TypeOK' /\ CloseWaits'
  BY TypeStep, CloseWaitsStep DEF Inv
<1>t. /\ ch \in Seq(Nat) /\ pending \in Seq(Nat) /\ sent \in Nat
      /\ batch \in [Flushers -> Seq(Nat)] /\ fpc \in [Flushers -> FlushPCs]
  BY <1>0 DEF TypeOK
<1>s. db' = db => Stored' = Stored /\ (StoredOnce => StoredOnce')
  BY DEF Stored, StoredOnce
<1>f. "loop" \in Flushers /\ "close" \in Flushers
  BY DEF Flushers
<1>d. /\ NoRepeat(ch) /\ NoRepeat(pending)
      /\ NoRepeat(batch["loop"]) /\ NoRepeat(batch["close"])
      /\ Disjoint(Ids(ch), Ids(pending))
      /\ Disjoint(Ids(batch["loop"]), Ids(batch["close"]))
      /\ Disjoint(Ids(batch["loop"]), Ids(ch) \cup Ids(pending))
      /\ Disjoint(Ids(batch["close"]), Ids(ch) \cup Ids(pending))
      /\ Disjoint(Stored, lost) /\ Disjoint(Held, Stored \cup lost)
  BY <1>0, <1>f DEF OnePlaceEach
<1>1. CASE Send
  <2>1. /\ ch' = Append(ch, sent + 1) /\ sent' = sent + 1
        /\ pending' = pending /\ batch' = batch /\ fpc' = fpc
        /\ db' = db /\ lost' = lost
    BY <1>1 DEF Send
  <2>2. sent + 1 \notin Held \cup Stored \cup lost
    BY <1>0, <1>t DEF NothingVanishes
  <2>3. sent + 1 \notin Ids(ch)
    BY <2>2 DEF Held
  <2>4. Ids(ch') = Ids(ch) \cup {sent + 1} /\ NoRepeat(ch')
    BY <2>1, <2>3, <1>t, <1>d, IdsAppend
  <2>5. Held' = Held \cup {sent + 1}
    BY <2>1, <2>4 DEF Held
  <2>6. OnePlaceEach'
    <3>1. sent + 1 \notin Ids(pending) /\ sent + 1 \notin Ids(batch["loop"])
          /\ sent + 1 \notin Ids(batch["close"]) /\ sent + 1 \notin Stored
          /\ sent + 1 \notin lost
      BY <2>2 DEF Held
    <3>2. \A f \in Flushers : sent + 1 \notin Ids(batch[f])
      BY <3>1 DEF Flushers
    <3>3. QED
      BY <1>0, <1>d, <1>s, <2>1, <2>4, <2>5, <3>1, <3>2 DEF OnePlaceEach, Disjoint
  <2>7. NothingVanishes'
    <3>1. 1 .. (sent + 1) = (1 .. sent) \cup {sent + 1}
      BY <1>t
    <3>2. QED BY <1>0, <1>s, <2>1, <2>5, <3>1 DEF NothingVanishes
  <2>8. QED BY <1>0, <1>s, <2>1, <2>6, <2>7 DEF Inv
<1>2. CASE Ingest
  <2>1. /\ ch' = Tail(ch) /\ ch # <<>> /\ sent' = sent
        /\ pending' = Append(pending, Head(ch)) /\ batch' = batch /\ fpc' = fpc
        /\ db' = db /\ lost' = lost
    BY <1>2 DEF Ingest
  <2>2. /\ Head(ch) \in Nat /\ Ids(ch) = Ids(ch') \cup {Head(ch)}
        /\ NoRepeat(ch') /\ Head(ch) \notin Ids(ch')
    BY <2>1, <1>t, <1>d, IdsTail
  <2>3. Head(ch) \notin Ids(pending)
    BY <2>2, <1>d DEF Disjoint
  <2>4. Ids(pending') = Ids(pending) \cup {Head(ch)} /\ NoRepeat(pending')
    BY <2>1, <2>2, <2>3, <1>t, <1>d, IdsAppend
  <2>5. Held' = Held
    BY <2>1, <2>2, <2>4 DEF Held
  <2>6. OnePlaceEach'
    BY <1>0, <1>d, <1>s, <2>1, <2>2, <2>3, <2>4, <2>5 DEF OnePlaceEach, Disjoint
  <2>7. QED BY <1>0, <1>s, <2>1, <2>5, <2>6 DEF Inv, NothingVanishes
<1>3. ASSUME NEW f \in Flushers, Flush(f) PROVE Inv'
  <2> PICK g \in Flushers : f # g
    BY DEF Flushers
  <2>1. /\ Held = Ids(ch) \cup Ids(pending) \cup Ids(batch[f]) \cup Ids(batch[g])
        /\ NoRepeat(ch) /\ NoRepeat(pending)
        /\ NoRepeat(batch[f]) /\ NoRepeat(batch[g])
        /\ Disjoint(Ids(ch), Ids(pending))
        /\ Disjoint(Ids(batch[f]), Ids(batch[g]))
        /\ Disjoint(Ids(batch[f]), Ids(ch) \cup Ids(pending))
        /\ Disjoint(Ids(batch[g]), Ids(ch) \cup Ids(pending))
        /\ fpc[f] \notin Active => batch[f] = <<>>
        /\ fpc[g] \notin Active => batch[g] = <<>>
        /\ Disjoint(Stored, lost) /\ Disjoint(Held, Stored \cup lost)
    BY <1>0, TwoCallers
  <2>2. /\ Held' = Ids(ch)' \cup Ids(pending)' \cup Ids(batch[f])' \cup Ids(batch[g])'
        /\ OnePlaceEach' <=>
              /\ NoRepeat(ch)' /\ NoRepeat(pending)'
              /\ NoRepeat(batch[f])' /\ NoRepeat(batch[g])'
              /\ Disjoint(Ids(ch)', Ids(pending)')
              /\ Disjoint(Ids(batch[f])', Ids(batch[g])')
              /\ Disjoint(Ids(batch[f])', Ids(ch)' \cup Ids(pending)')
              /\ Disjoint(Ids(batch[g])', Ids(ch)' \cup Ids(pending)')
              /\ fpc'[f] \notin Active => batch'[f] = <<>>
              /\ fpc'[g] \notin Active => batch'[g] = <<>>
              /\ Disjoint(Stored', lost') /\ Disjoint(Held', Stored' \cup lost')
    <3>1. CASE f = "loop" /\ g = "close"
      BY <3>1 DEF Flushers, Held, OnePlaceEach, Active, Disjoint
    <3>2. CASE f = "close" /\ g = "loop"
      BY <3>2 DEF Flushers, Held, OnePlaceEach, Active, Disjoint
    <3>3. QED BY <3>1, <3>2 DEF Flushers
  <2>3. /\ ch' = ch /\ sent' = sent /\ batch'[g] = batch[g] /\ fpc'[g] = fpc[g]
    BY <1>3, <1>t DEF Flush, FlushTake, FlushBegin, FlushInsert, FlushCommit,
       FlushReturns
  <2>4. CASE FlushTake(f)
    <3>1. /\ batch'[f] = pending /\ pending' = <<>> /\ fpc'[f] = "begin"
          /\ db' = db /\ lost' = lost /\ fpc[f] \notin Active
      BY <2>4, <1>t DEF FlushTake, Entering, Active
    <3>2. Ids(batch[f]) = {} /\ Ids(pending') = {} /\ NoRepeat(pending')
      BY <3>1, <2>1, IdsEmpty
    <3>3. Held' = Held
      BY <2>1, <2>2, <2>3, <3>1, <3>2
    <3>4. OnePlaceEach'
      BY <2>1, <2>2, <2>3, <3>1, <3>2, <3>3, <1>s DEF Disjoint, Active
    <3>5. QED BY <1>0, <1>s, <2>3, <3>1, <3>3, <3>4 DEF Inv, NothingVanishes
  <2>5. CASE /\ fpc'[f] \in Active /\ batch' = batch /\ pending' = pending
             /\ db' = db /\ lost' = lost /\ fpc[f] \in Active
    <3>1. Held' = Held
      BY <2>1, <2>2, <2>3, <2>5
    <3>2. OnePlaceEach'
      BY <2>1, <2>2, <2>3, <2>5, <3>1, <1>s
    <3>3. QED BY <1>0, <1>s, <2>3, <2>5, <3>1, <3>2 DEF Inv, NothingVanishes
  <2>6. CASE FlushReturns(f) /\ pending' = batch[f] \o pending
             /\ db' = db /\ lost' = lost
    <3>1. batch'[f] = <<>> /\ Ids(batch'[f]) = {} /\ NoRepeat(batch'[f])
      BY <2>6, <1>t, IdsEmpty DEF FlushReturns
    <3>2. Ids(pending') = Ids(batch[f]) \cup Ids(pending) /\ NoRepeat(pending')
      <4>1. Disjoint(Ids(batch[f]), Ids(pending))
        BY <2>1 DEF Disjoint
      <4>2. batch[f] \in Seq(Nat) /\ pending \in Seq(Nat)
        BY <1>t
      <4>3. QED BY <4>1, <4>2, <2>1, <2>6, IdsConcat
    <3>3. Held' = Held
      BY <2>1, <2>2, <2>3, <3>1, <3>2
    <3>4. OnePlaceEach'
      BY <2>1, <2>2, <2>3, <2>6, <3>1, <3>2, <3>3, <1>s DEF Disjoint
    <3>5. QED BY <1>0, <1>s, <2>3, <2>6, <3>3, <3>4 DEF Inv, NothingVanishes
  <2>7. CASE FlushReturns(f) /\ pending' = pending
             /\ db' = db /\ lost' = lost \cup Ids(batch[f])
    <3>1. batch'[f] = <<>> /\ Ids(batch'[f]) = {} /\ NoRepeat(batch'[f])
      BY <2>7, <1>t, IdsEmpty DEF FlushReturns
    <3>2. Held' \cup Ids(batch[f]) = Held /\ Disjoint(Held', Ids(batch[f]))
      BY <2>1, <2>2, <2>3, <2>7, <3>1 DEF Disjoint
    <3>3. Disjoint(Ids(batch[f]), Stored \cup lost)
      BY <2>1 DEF Disjoint
    <3>4. OnePlaceEach'
      BY <2>1, <2>2, <2>3, <2>7, <3>1, <3>2, <3>3, <1>s DEF Disjoint
    <3>5. NothingVanishes'
      BY <1>0, <1>s, <2>3, <2>7, <3>2 DEF NothingVanishes
    <3>6. QED BY <1>0, <1>s, <2>7, <3>4, <3>5 DEF Inv
  <2>8. CASE FlushReturns(f) /\ pending' = pending
             /\ db' = db \o Rows(f) /\ lost' = lost
    <3>1. batch'[f] = <<>> /\ Ids(batch'[f]) = {} /\ NoRepeat(batch'[f])
      BY <2>8, <1>t, IdsEmpty DEF FlushReturns
    <3>2. Held' \cup Ids(batch[f]) = Held /\ Disjoint(Held', Ids(batch[f]))
      BY <2>1, <2>2, <2>3, <2>8, <3>1 DEF Disjoint
    <3>3. Disjoint(Ids(batch[f]), Stored \cup lost) /\ Disjoint(Ids(batch[f]), Stored)
      BY <2>1 DEF Disjoint
    <3>4. Stored' = Stored \cup Ids(batch[f]) /\ StoredOnce'
      BY <1>0, <2>1, <2>8, <3>3, RowsAppended
    <3>5. OnePlaceEach'
      BY <2>1, <2>2, <2>3, <2>8, <3>1, <3>2, <3>3, <3>4 DEF Disjoint
    <3>6. NothingVanishes'
      BY <1>0, <2>3, <2>8, <3>2, <3>4 DEF NothingVanishes
    <3>7. QED BY <1>0, <3>4, <3>5, <3>6 DEF Inv
  <2>9. CASE FlushBegin(f)
    <3>1. CASE fpc' = [fpc EXCEPT ![f] = "insert"] /\ UNCHANGED <<batch, pending>>
      BY <2>5, <2>9, <3>1, <1>t DEF FlushBegin, Active
    <3>2. CASE FlushReturns(f) /\ pending' = batch[f] \o pending
      BY <2>6, <2>9, <3>2 DEF FlushBegin
    <3>3. QED BY <2>9, <3>1, <3>2 DEF FlushBegin
  <2>10. CASE FlushInsert(f)
    <3>1. CASE fpc' = [fpc EXCEPT ![f] = "commit"] /\ UNCHANGED <<batch, lost>>
      BY <2>5, <2>10, <3>1, <1>t DEF FlushInsert, Active
    <3>2. CASE FlushReturns(f) /\ lost' = lost \cup Ids(batch[f])
      BY <2>7, <2>10, <3>2 DEF FlushInsert
    <3>3. QED BY <2>10, <3>1, <3>2 DEF FlushInsert
  <2>11. CASE FlushCommit(f)
    BY <2>7, <2>8, <2>11 DEF FlushCommit
  <2>12. QED BY <1>3, <2>4, <2>9, <2>10, <2>11 DEF Flush
<1>4. CASE FlushEmpty \/ Close \/ LoopEnds
  <2>1. /\ UNCHANGED <<ch, pending, batch, sent, db, lost>>
        /\ \A f \in Flushers : fpc[f] \in Active => fpc'[f] \in Active
    <3>1. CASE FlushEmpty
      BY <3>1, <1>t, <1>f DEF FlushEmpty, Entering, Active
    <3>2. CASE LoopEnds
      BY <3>2, <1>t, <1>f DEF LoopEnds, Active
    <3>3. CASE Close
      BY <3>3, <1>t, <1>f, <1>0 DEF Close, Active, CloseWaits
    <3>4. QED BY <1>4, <3>1, <3>2, <3>3
  <2>2. Held' = Held
    BY <2>1 DEF Held
  <2>3. OnePlaceEach'
    BY <1>0, <1>s, <2>1, <2>2 DEF OnePlaceEach, Active
  <2>4. QED BY <1>0, <1>s, <2>1, <2>2, <2>3 DEF Inv, NothingVanishes
<1>5. CASE Exit
  <2>1. /\ ch' = <<>> /\ pending' = <<>> /\ lost' = lost \cup Held
        /\ \A f \in Flushers : batch'[f] = <<>>
        /\ db' = db /\ sent' = sent
    BY <1>5 DEF Exit
  <2>2. Held' = {}
    BY <2>1, <1>f, IdsEmpty DEF Held
  <2>3. OnePlaceEach'
    BY <1>d, <1>f, <1>s, <2>1, <2>2, IdsEmpty DEF OnePlaceEach, Disjoint
  <2>4. NothingVanishes'
    BY <1>0, <1>s, <2>1, <2>2 DEF NothingVanishes
  <2>5. QED BY <1>0, <1>s, <2>1, <2>3, <2>4 DEF Inv
<1>6. CASE CloseDB \/ Tick \/ Exited \/ UNCHANGED vars
  <2>1. UNCHANGED <<ch, pending, batch, fpc, sent, db, lost>>
    BY <1>6 DEF CloseDB, Tick, Exited, vars
  <2>2. Held' = Held
    BY <2>1 DEF Held
  <2>3. OnePlaceEach'
    BY <1>0, <1>s, <2>1, <2>2 DEF OnePlaceEach
  <2>4. QED BY <1>0, <1>s, <2>1, <2>2, <2>3 DEF Inv, NothingVanishes
<1>7. QED BY <1>1, <1>2, <1>3, <1>4, <1>5, <1>6 DEF Next

\* Nothing is stored twice, and nothing vanishes: every accepted snapshot is in
\* memory, stored, or was refused by the database, and in one place only.
THEOREM StoredOnceNothingVanishes ==
  Spec => [](SnapshotsAccounted /\ OnePlaceEach)
<1>1. Inv => SnapshotsAccounted /\ OnePlaceEach
  BY DEF Inv, SnapshotsAccounted
<1>2. QED BY <1>1, InvInit, InvStep, PTL DEF Spec

-----------------------------------------------------------------------------
(* Refinement. *)

\* Every step accepts one snapshot, settles a batch one way, or does nothing
\* that DurableStore sees.
LEMMA RefinementStep == Inv /\ [Next]_vars => [Durable!Next]_Durable!vars
<1> SUFFICES ASSUME Inv, [Next]_vars PROVE [Durable!Next]_Durable!vars
  OBVIOUS
<1> USE DEF flushVars
<1>0. TypeOK /\ OnePlaceEach /\ NothingVanishes
  BY DEF Inv
<1>s. db' = db => Stored' = Stored
  BY DEF Stored
<1>o. Held \subseteq Durable!Outstanding
  BY <1>0 DEF OnePlaceEach, NothingVanishes, Disjoint, Durable!Outstanding
<1>1. CASE Send
  BY <1>1, <1>s DEF Send, Durable!Next, Durable!Accept
<1>2. ASSUME NEW f \in Flushers, Flush(f) PROVE [Durable!Next]_Durable!vars
  <2>1. Ids(batch[f]) \subseteq Durable!Outstanding
    BY <1>o DEF Held, Flushers
  <2>2. CASE sent' = sent /\ db' = db /\ lost' = lost
    BY <2>2, <1>s DEF Durable!vars
  <2>3. CASE sent' = sent /\ db' = db /\ lost' = lost \cup Ids(batch[f])
    BY <2>1, <2>3, <1>s DEF Durable!Next, Durable!Forsake
  <2>4. CASE sent' = sent /\ db' = db \o Rows(f) /\ lost' = lost
    <3>1. Stored' = Stored \cup Ids(batch[f])
      BY <1>0, <2>4, RowsAppended
    <3>2. QED BY <2>1, <2>4, <3>1 DEF Durable!Next, Durable!Store
  <2>5. QED
    BY <1>2, <2>2, <2>3, <2>4 DEF Flush, FlushTake, FlushBegin, FlushInsert,
       FlushCommit
<1>3. CASE Exit
  BY <1>3, <1>o, <1>s DEF Exit, Durable!Next, Durable!Forsake
<1>4. CASE \/ Ingest \/ FlushEmpty \/ Close \/ LoopEnds \/ CloseDB \/ Tick
           \/ Exited \/ UNCHANGED vars
  <2>1. sent' = sent /\ db' = db /\ lost' = lost
    BY <1>4 DEF Ingest, FlushEmpty, Close, LoopEnds, CloseDB, Tick, Exited, vars
  <2>2. QED BY <2>1, <1>s DEF Durable!vars
<1>5. QED BY <1>1, <1>2, <1>3, <1>4 DEF Next

\* The service implements DurableStore: what was stored stays stored, what was
\* given up is never stored later, and no snapshot is settled twice.
THEOREM ImplementsDurableStore == Spec => RefinesDurableStore
<1>1. Init => Durable!Init
  BY DEF Init, Durable!Init, Stored
<1>2. QED
  BY <1>1, InvInit, InvStep, RefinementStep, PTL
  DEF Spec, RefinesDurableStore, Durable!Spec

-----------------------------------------------------------------------------
(* Reads move forward while only the loop flushes. *)

Increasing(s) == \A i, j \in 1 .. Len(s) : i < j => s[i] < s[j]
Below(S, T) == \A x \in S, y \in T : x < y

\* The rows of the table are in the order of their snapshots and of their stamps,
\* and the next transaction's stamp is no older than any of them.
TableInOrder ==
  /\ \A i, j \in 1 .. Len(db) :
       i < j => db[i].id < db[j].id /\ db[i].at <= db[j].at
  /\ \A i \in 1 .. Len(db) :
       /\ db[i].at <= clock
       /\ fpc["loop"] = "commit" => db[i].at <= stamp["loop"]
  /\ fpc["loop"] = "commit" => stamp["loop"] <= clock

\* The snapshots are on their way in the order in which they were accepted: the
\* table, the batch of the loop, the pending entries and the channel.
InTransitInOrder ==
  /\ Increasing(ch) /\ Increasing(pending) /\ Increasing(batch["loop"])
  /\ Below(Stored, Ids(batch["loop"])) /\ Below(Stored, Ids(pending)) /\ Below(Stored, Ids(ch))
  /\ Below(Ids(batch["loop"]), Ids(pending)) /\ Below(Ids(batch["loop"]), Ids(ch))
  /\ Below(Ids(pending), Ids(ch))
  /\ \A x \in Held \cup Stored : x <= sent

OrderInv == stage = "serving" => TableInOrder /\ InTransitInOrder

\* A sequence stays increasing when a greater entry comes behind it, when its
\* head is taken, and when a sequence of smaller entries is put in front.
LEMMA IncreasingAppend ==
  ASSUME NEW s \in Seq(Nat), NEW x \in Nat, Increasing(s), Below(Ids(s), {x})
  PROVE  Increasing(Append(s, x))
<1> DEFINE t == Append(s, x)
<1>1. /\ Len(t) = Len(s) + 1 /\ Len(s) \in Nat /\ t[Len(s) + 1] = x
      /\ \A i \in 1 .. Len(s) : t[i] = s[i] /\ s[i] < x
  BY DEF Below, Ids
<1> HIDE DEF t
<1>2. ASSUME NEW i \in 1 .. Len(t), NEW j \in 1 .. Len(t), i < j PROVE t[i] < t[j]
  <2>1. i \in 1 .. Len(s)
    BY <1>1, <1>2
  <2>2. CASE j = Len(s) + 1
    BY <1>1, <2>1, <2>2
  <2>3. CASE j \in 1 .. Len(s)
    BY <1>1, <1>2, <2>1, <2>3 DEF Increasing
  <2>4. QED BY <1>1, <2>2, <2>3
<1>3. QED BY <1>2 DEF Increasing, t

LEMMA IncreasingTail ==
  ASSUME NEW s \in Seq(Nat), s # <<>>, Increasing(s)
  PROVE  Increasing(Tail(s)) /\ Below({Head(s)}, Ids(Tail(s)))
<1> DEFINE t == Tail(s)
<1>1. /\ Head(s) = s[1] /\ Len(s) \in Nat \ {0} /\ Len(t) = Len(s) - 1
      /\ \A i \in 1 .. Len(t) : t[i] = s[i + 1]
  OBVIOUS
<1> HIDE DEF t
<1>2. ASSUME NEW i \in 1 .. Len(t) PROVE i + 1 \in 1 .. Len(s) /\ s[1] < t[i]
  <2>1. i + 1 \in 1 .. Len(s) /\ 1 \in 1 .. Len(s) /\ 1 < i + 1
    BY <1>1
  <2>2. s[1] < s[i + 1]
    BY <2>1 DEF Increasing
  <2>3. QED BY <1>1, <2>1, <2>2
<1>3. ASSUME NEW i \in 1 .. Len(t), NEW j \in 1 .. Len(t), i < j PROVE t[i] < t[j]
  <2>1. i + 1 \in 1 .. Len(s) /\ j + 1 \in 1 .. Len(s) /\ i + 1 < j + 1
    BY <1>2, <1>3
  <2>2. QED BY <1>1, <2>1 DEF Increasing
<1>4. QED BY <1>1, <1>2, <1>3 DEF Increasing, Below, Ids, t

LEMMA IncreasingConcat ==
  ASSUME NEW s \in Seq(Nat), NEW t \in Seq(Nat), Increasing(s), Increasing(t),
         Below(Ids(s), Ids(t))
  PROVE  Increasing(s \o t)
<1> DEFINE u == s \o t
<1>1. /\ Len(u) = Len(s) + Len(t) /\ Len(s) \in Nat /\ Len(t) \in Nat
      /\ \A i \in 1 .. Len(s) : u[i] = s[i]
      /\ \A i \in 1 .. Len(u) : i > Len(s) => u[i] = t[i - Len(s)]
  BY ConcatEntries
<1> HIDE DEF u
<1>2. ASSUME NEW i \in 1 .. Len(u), NEW j \in 1 .. Len(u), i < j PROVE u[i] < u[j]
  <2>1. CASE j <= Len(s)
    BY <1>1, <1>2, <2>1 DEF Increasing
  <2>2. CASE i > Len(s)
    <3>1. /\ i - Len(s) \in 1 .. Len(t) /\ j - Len(s) \in 1 .. Len(t)
          /\ i - Len(s) < j - Len(s) /\ u[i] = t[i - Len(s)] /\ u[j] = t[j - Len(s)]
      BY <1>1, <1>2, <2>2
    <3>2. QED BY <3>1 DEF Increasing
  <2>3. CASE i <= Len(s) /\ j > Len(s)
    <3>1. /\ i \in 1 .. Len(s) /\ j - Len(s) \in 1 .. Len(t)
          /\ u[i] = s[i] /\ u[j] = t[j - Len(s)]
      BY <1>1, <2>3
    <3>2. QED BY <3>1 DEF Below, Ids
  <2>4. QED BY <1>1, <2>1, <2>2, <2>3
<1>3. QED BY <1>2 DEF Increasing, u

\* The rows' fields are numbers.
LEMMA RowTypes ==
  ASSUME db \in Seq(Row)
  PROVE  /\ \A i \in 1 .. Len(db) : db[i].id \in Nat /\ db[i].at \in Nat
         /\ Stored \subseteq Nat
<1>1. ASSUME NEW i \in 1 .. Len(db) PROVE db[i].id \in Nat /\ db[i].at \in Nat
  <2>1. db[i] \in Row
    OBVIOUS
  <2>2. QED BY <2>1 DEF Row
<1>2. QED BY <1>1 DEF Stored

\* A commit of the loop leaves the table in order.
LEMMA CommitInOrder ==
  ASSUME TypeOK, TableInOrder, InTransitInOrder, fpc["loop"] = "commit",
         db' = db \o Rows("loop"), clock' = clock, fpc'["loop"] # "commit"
  PROVE  TableInOrder'
<1> DEFINE b == batch["loop"]
           rows == Rows("loop")
           z == stamp["loop"]
<1>1. /\ "loop" \in Flushers /\ b \in Seq(Nat) /\ db \in Seq(Row) /\ z \in Nat
      /\ Len(b) \in Nat /\ Len(db) \in Nat /\ clock \in Nat
  BY DEF TypeOK, Row, Flushers
<1>2. /\ rows \in Seq(Row) /\ Len(rows) = Len(b)
      /\ \A i \in 1 .. Len(b) : rows[i].id = b[i] /\ rows[i].at = z
  BY <1>1 DEF Rows, Row
<1> HIDE DEF rows
<1>3. /\ Len(db') = Len(db) + Len(b)
      /\ \A i \in 1 .. Len(db) : db'[i] = db[i]
      /\ \A i \in 1 .. Len(db') : i > Len(db) => db'[i] = rows[i - Len(db)]
  <2>1. db' = db \o rows
    BY DEF rows
  <2>2. rows \in Seq(Row) /\ db \in Seq(Row)
    BY <1>1, <1>2
  <2>3. /\ Len(db \o rows) = Len(db) + Len(rows)
        /\ \A i \in 1 .. Len(db) : (db \o rows)[i] = db[i]
        /\ \A i \in 1 .. Len(db \o rows) :
             i > Len(db) => (db \o rows)[i] = rows[i - Len(db)]
    BY ONLY <2>2, ConcatEntries
  <2>4. Len(rows) = Len(b)
    BY <1>2
  <2>5. QED BY ONLY <2>1, <2>3, <2>4, Zenon
<1>4. /\ z <= clock /\ \A i \in 1 .. Len(db) : db[i].at <= z
      /\ \A i, j \in 1 .. Len(db) :
           i < j => db[i].id < db[j].id /\ db[i].at <= db[j].at
      /\ \A i, j \in 1 .. Len(b) : i < j => b[i] < b[j]
      /\ \A i \in 1 .. Len(db), j \in 1 .. Len(b) : db[i].id < b[j]
  BY DEF TableInOrder, InTransitInOrder, Increasing, Below, Stored, Ids
<1> HIDE DEF b, z
<1>5. ASSUME NEW i \in 1 .. Len(db'), i > Len(db)
      PROVE  /\ i - Len(db) \in 1 .. Len(b)
             /\ db'[i].id = b[i - Len(db)] /\ db'[i].at = z
  <2>1. i - Len(db) \in 1 .. Len(b)
    BY <1>1, <1>3, <1>5
  <2>2. db'[i] = rows[i - Len(db)]
    BY <1>3, <1>5
  <2>3. QED BY <1>2, <2>1, <2>2
<1>6. ASSUME NEW i \in 1 .. Len(db') PROVE i \in 1 .. Len(db) \/ i > Len(db)
  BY <1>1, <1>3
<1>7. ASSUME NEW i \in 1 .. Len(db'), NEW j \in 1 .. Len(db'), i < j
      PROVE  db'[i].id < db'[j].id /\ db'[i].at <= db'[j].at
  <2>1. CASE j \in 1 .. Len(db)
    <3>1. i \in 1 .. Len(db)
      BY <1>1, <1>7, <2>1
    <3>2. QED BY <1>3, <1>4, <1>7, <2>1, <3>1
  <2>2. CASE i > Len(db) /\ j > Len(db)
    <3>1. i - Len(db) < j - Len(db)
      BY <1>1, <1>7
    <3>2. db'[i].at <= db'[j].at
      BY <1>1, <1>5, <2>2
    <3>3. QED BY <1>4, <1>5, <2>2, <3>1, <3>2
  <2>3. CASE i \in 1 .. Len(db) /\ j > Len(db)
    BY <1>3, <1>4, <1>5, <2>3
  <2>4. QED BY <1>1, <1>6, <1>7, <2>1, <2>2, <2>3
<1>8. ASSUME NEW i \in 1 .. Len(db') PROVE db'[i].at <= clock'
  <2>1. CASE i \in 1 .. Len(db)
    <3>1. db'[i] = db[i] /\ db[i].at <= clock
      BY <1>3, <2>1 DEF TableInOrder
    <3>2. QED BY <3>1
  <2>2. CASE i > Len(db)
    BY <1>4, <1>5, <2>2
  <2>3. QED BY <1>6, <2>1, <2>2
<1>9. QED BY <1>7, <1>8 DEF TableInOrder

\* Every step but Close keeps the order.
LEMMA OrderStep == Inv /\ Inv' /\ OrderInv /\ [Next]_vars => OrderInv'
<1> SUFFICES ASSUME Inv, Inv', OrderInv, [Next]_vars, stage' = "serving"
             PROVE  TableInOrder' /\ InTransitInOrder'
  BY DEF OrderInv
<1> USE DEF flushVars
<1>0. /\ stage = "serving" /\ TableInOrder /\ InTransitInOrder
      /\ fpc["close"] = "idle" /\ batch["close"] = <<>> /\ TypeOK /\ TypeOK'
  <2>1. stage = "serving"
    BY DEF Next, Send, Ingest, FlushEmpty, Flush, FlushTake, FlushBegin,
       FlushInsert, FlushCommit, Close, LoopEnds, CloseDB, Exit, Tick, Exited, vars
  <2>2. fpc["close"] = "idle" /\ OnePlaceEach /\ TypeOK /\ TypeOK'
    BY <2>1 DEF Inv, CloseWaits
  <2>3. batch["close"] = <<>>
    BY <2>2 DEF OnePlaceEach, Flushers
  <2>4. QED BY <2>1, <2>2, <2>3 DEF OrderInv
<1>1. /\ ch \in Seq(Nat) /\ pending \in Seq(Nat) /\ batch["loop"] \in Seq(Nat)
      /\ sent \in Nat /\ clock \in Nat /\ "loop" \in Flushers
      /\ fpc \in [Flushers -> FlushPCs] /\ batch \in [Flushers -> Seq(Nat)]
      /\ stamp \in [Flushers -> Nat]
  BY <1>0 DEF TypeOK, Flushers
<1>2. /\ Ids(ch) \subseteq Nat /\ Ids(pending) \subseteq Nat /\ Ids(batch["loop"]) \subseteq Nat
      /\ Ids(<<>>) = {} /\ Increasing(<<>>)
      /\ Held = Ids(ch) \cup Ids(pending) \cup Ids(batch["loop"])
  BY <1>0, <1>1, IdsNat, IdsEmpty DEF Held, Increasing
<1>t. /\ \A i \in 1 .. Len(db) : db[i].id \in Nat /\ db[i].at \in Nat
      /\ Stored \subseteq Nat
  BY <1>0, RowTypes DEF TypeOK, Row
<1>s. db' = db => Stored' = Stored
  BY DEF Stored
<1>b. /\ batch'["close"] = <<>>
      /\ Held' = Ids(ch') \cup Ids(pending') \cup Ids(batch'["loop"])
  <2>1. batch'["close"] = <<>>
    BY DEF Inv, CloseWaits, OnePlaceEach, Flushers
  <2>2. QED BY <1>2, <2>1 DEF Held
<1>3. CASE Send
  <2>1. /\ sent' = sent + 1 /\ ch' = Append(ch, sent + 1)
        /\ UNCHANGED <<pending, fpc, batch, stamp, db, clock>>
    BY <1>3 DEF Send
  <2>2. Ids(ch') = Ids(ch) \cup {sent + 1}
    BY <1>1, <2>1, IdsAppend
  <2>3. \A x \in Held \cup Stored : x < sent + 1 /\ x <= sent + 1
    <3>1. \A x \in Held \cup Stored : x <= sent /\ x \in Nat
      BY <1>0, <1>2, <1>t DEF InTransitInOrder
    <3>2. QED BY <1>1, <3>1
  <2>4. Increasing(ch')
    BY <1>0, <1>1, <1>2, <2>1, <2>3, IncreasingAppend DEF InTransitInOrder, Below
  <2>5. TableInOrder'
    BY <1>0, <2>1 DEF TableInOrder
  <2>6. InTransitInOrder'
    <3>1. \A x \in Held' \cup Stored' : x <= sent'
      <4>1. \A x \in Held \cup Stored : x <= sent + 1
        BY <2>3
      <4>2. Held' \cup Stored' = Held \cup Stored \cup {sent + 1}
        BY <1>2, <1>b, <1>s, <2>1, <2>2
      <4>3. QED BY <1>1, <2>1, <4>1, <4>2
    <3>2. QED BY <1>0, <1>2, <1>s, <2>1, <2>2, <2>3, <2>4, <3>1 DEF InTransitInOrder, Below
  <2>7. QED BY <2>5, <2>6
<1>4. CASE Ingest
  <2>1. /\ ch # <<>> /\ ch' = Tail(ch) /\ pending' = Append(pending, Head(ch))
        /\ UNCHANGED <<sent, fpc, batch, stamp, db, clock>>
    BY <1>4 DEF Ingest
  <2>2. Head(ch) \in Nat /\ Ids(ch) = Ids(ch') \cup {Head(ch)}
    BY <1>1, <2>1, IdsTail
  <2>3. Ids(pending') = Ids(pending) \cup {Head(ch)}
    BY <1>1, <2>1, <2>2, IdsAppend
  <2>4. Increasing(ch') /\ Below({Head(ch)}, Ids(ch'))
    BY <1>0, <1>1, <2>1, IncreasingTail DEF InTransitInOrder
  <2>5. Increasing(pending')
    BY <1>0, <1>1, <2>1, <2>2, IncreasingAppend DEF InTransitInOrder, Below
  <2>6. TableInOrder'
    BY <1>0, <2>1 DEF TableInOrder
  <2>7. InTransitInOrder'
    BY <1>0, <1>2, <1>b, <1>s, <2>1, <2>2, <2>3, <2>4, <2>5 DEF InTransitInOrder, Below
  <2>8. QED BY <2>6, <2>7
<1>5. ASSUME NEW f \in Flushers, Flush(f) PROVE TableInOrder' /\ InTransitInOrder'
  <2>0. f = "loop"
    BY <1>0, <1>5 DEF Flush, FlushTake, Entering, FlushBegin, FlushInsert,
       FlushCommit, Flushers
  <2>1. CASE FlushTake("loop")
    <3>1. /\ batch'["loop"] = pending /\ pending' = <<>> /\ fpc'["loop"] = "begin"
          /\ fpc["loop"] = "idle"
          /\ UNCHANGED <<stamp, sent, ch, db, clock>>
      BY <1>1, <2>1 DEF FlushTake, Entering
    <3>2. Ids(batch["loop"]) = {}
      <4>1. batch["loop"] = <<>>
        BY <1>1, <3>1 DEF Inv, OnePlaceEach
      <4>2. QED BY <1>2, <4>1
    <3>3. TableInOrder'
      BY <1>0, <3>1 DEF TableInOrder
    <3>4. InTransitInOrder'
      BY <1>0, <1>2, <1>b, <1>s, <3>1, <3>2 DEF InTransitInOrder, Below
    <3>5. QED BY <3>3, <3>4
  <2>2. CASE FlushBegin("loop")
    <3>1. UNCHANGED <<stamp, sent, ch, db, clock>> /\ fpc'["loop"] # "commit"
      BY <1>1, <2>2 DEF FlushBegin, FlushReturns, Returned
    <3>2. TableInOrder'
      BY <1>0, <3>1 DEF TableInOrder
    <3>3. CASE UNCHANGED <<batch, pending>>
      BY <1>0, <1>2, <1>b, <1>s, <3>1, <3>2, <3>3 DEF InTransitInOrder, Below
    <3>4. CASE pending' = batch["loop"] \o pending /\ batch'["loop"] = <<>>
      <4>1. Ids(pending') = Ids(batch["loop"]) \cup Ids(pending)
        BY <1>1, <3>4, IdsConcat
      <4>2. Increasing(pending')
        BY <1>0, <1>1, <3>4, IncreasingConcat DEF InTransitInOrder
      <4>3. InTransitInOrder'
        BY <1>0, <1>2, <1>b, <1>s, <3>1, <3>4, <4>1, <4>2 DEF InTransitInOrder, Below
      <4>4. QED BY <3>2, <4>3
    <3>5. QED BY <1>1, <2>2, <3>3, <3>4 DEF FlushBegin, FlushReturns
  <2>3. CASE FlushInsert("loop")
    <3>1. /\ UNCHANGED <<sent, ch, pending, db, clock>>
          /\ \/ UNCHANGED batch /\ stamp'["loop"] = clock
             \/ batch'["loop"] = <<>> /\ fpc'["loop"] # "commit"
      BY <1>1, <2>3 DEF FlushInsert, FlushReturns, Returned
    <3>2. TableInOrder'
      <4>1. \A i \in 1 .. Len(db) : db[i].at <= clock
        BY <1>0 DEF TableInOrder
      <4>2. fpc'["loop"] = "commit" => stamp'["loop"] = clock
        BY <3>1
      <4>3. QED BY <1>0, <1>1, <3>1, <4>1, <4>2 DEF TableInOrder
    <3>3. InTransitInOrder'
      BY <1>0, <1>2, <1>b, <1>s, <3>1 DEF InTransitInOrder, Below
    <3>4. QED BY <3>2, <3>3
  <2>4. CASE FlushCommit("loop")
    <3>1. /\ UNCHANGED <<sent, ch, pending, clock>> /\ batch'["loop"] = <<>>
          /\ fpc["loop"] = "commit" /\ fpc'["loop"] # "commit"
          /\ db' = db \/ db' = db \o Rows("loop")
      BY <1>1, <2>4 DEF FlushCommit, FlushReturns, Returned
    <3>2. CASE db' = db
      <4>1. TableInOrder'
        BY <1>0, <3>1, <3>2 DEF TableInOrder
      <4>2. InTransitInOrder'
        BY <1>0, <1>2, <1>b, <1>s, <3>1, <3>2 DEF InTransitInOrder, Below
      <4>3. QED BY <4>1, <4>2
    <3>3. CASE db' = db \o Rows("loop")
      <4>1. TableInOrder'
        BY <1>0, <3>1, <3>3, CommitInOrder
      <4>2. Stored' = Stored \cup Ids(batch["loop"])
        BY <1>0, <1>1, <3>3, RowsAppended
      <4>3. InTransitInOrder'
        BY <1>0, <1>2, <1>b, <3>1, <4>2 DEF InTransitInOrder, Below
      <4>4. QED BY <4>1, <4>3
    <3>4. QED BY <3>1, <3>2, <3>3
  <2>5. QED BY <1>5, <2>0, <2>1, <2>2, <2>3, <2>4 DEF Flush
<1>6. CASE Tick
  <2>1. clock' = clock + 1 /\ UNCHANGED <<sent, ch, pending, fpc, batch, stamp, db>>
    BY <1>6 DEF Tick
  <2>2. \A i \in 1 .. Len(db) : db[i].at \in Nat
    BY <1>t
  <2>3. TableInOrder'
    BY <1>0, <1>1, <2>1, <2>2 DEF TableInOrder
  <2>4. InTransitInOrder'
    BY <1>0, <1>2, <1>b, <1>s, <2>1 DEF InTransitInOrder
  <2>5. QED BY <2>3, <2>4
<1>7. CASE UNCHANGED vars
  <2>1. UNCHANGED <<clock, sent, ch, pending, fpc, batch, stamp, db>>
    BY <1>7 DEF vars
  <2>2. TableInOrder'
    BY <1>0, <2>1 DEF TableInOrder
  <2>3. InTransitInOrder'
    BY <1>0, <1>2, <1>b, <1>s, <2>1 DEF InTransitInOrder
  <2>4. QED BY <2>2, <2>3
<1>8. ~FlushEmpty /\ ~Close /\ ~LoopEnds /\ ~CloseDB /\ ~Exit /\ ~Exited
  BY <1>0 DEF FlushEmpty, Entering, Close, LoopEnds, CloseDB, Exit, Exited
<1>9. QED BY <1>3, <1>4, <1>5, <1>6, <1>7, <1>8 DEF Next

\* While the server runs, what QueryFile returns was accepted after everything
\* stored in an earlier second.
THEOREM ReadsSafety == Spec => []ReadsMoveForward
<1>1. Init => OrderInv
  <2> SUFFICES ASSUME Init PROVE TableInOrder /\ InTransitInOrder
    BY DEF OrderInv
  <2>1. /\ ch = <<>> /\ pending = <<>> /\ db = <<>> /\ fpc["loop"] = "idle"
        /\ batch["loop"] = <<>> /\ batch["close"] = <<>>
    BY DEF Init, Flushers
  <2>2. Ids(<<>>) = {} /\ Increasing(<<>>) /\ Stored = {}
    BY <2>1, IdsEmpty DEF Increasing, Stored
  <2>3. TableInOrder
    BY <2>1 DEF TableInOrder
  <2>4. InTransitInOrder
    BY <2>1, <2>2 DEF InTransitInOrder, Below, Held
  <2>5. QED BY <2>3, <2>4
<1>2. Inv /\ OrderInv => ReadsMoveForward
  <2> SUFFICES ASSUME Inv, OrderInv, stage = "serving", NEW x \in QueryFile,
                      NEW i \in 1 .. Len(db), NEW j \in 1 .. Len(db), db[i].at < db[j].at
               PROVE  db[i].id < x
    BY DEF ReadsMoveForward
  <2>1. PICK k \in 1 .. Len(db) : x = db[k].id /\ db[j].at <= db[k].at
    BY DEF QueryFile
  <2>2. /\ TableInOrder /\ db[i].at \in Nat /\ db[j].at \in Nat /\ db[k].at \in Nat
    BY RowTypes DEF Inv, TypeOK, OrderInv, Row
  <2>3. i < k
    BY <2>1, <2>2 DEF TableInOrder
  <2>4. QED BY <2>1, <2>2, <2>3 DEF TableInOrder
<1>3. QED BY <1>1, <1>2, InvInit, InvStep, OrderStep, PTL DEF Spec
=============================================================================
