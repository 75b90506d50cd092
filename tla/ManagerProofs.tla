---------------------------- MODULE ManagerProofs ----------------------------
(***************************************************************************)
(* Safety of the orchestrator's warm pool for every number of calls, list  *)
(* of workers and capacity.                                                *)
(***************************************************************************)
EXTENDS Manager, FiniteSetTheorems, TLAPS

USE ManagerAssumption

\* The round-robin choice of replenish is an element of the list it read.
LEMMA RoundRobinType ==
  ASSUME NEW list \in Seq(Clients), list # <<>>, NEW i \in Nat
  PROVE  RoundRobin(list, i) \in Clients
<1>1. Len(list) \in Nat \ {0}
  OBVIOUS
<1>2. i % Len(list) \in 0 .. Len(list) - 1
  BY <1>1
<1>3. (i % Len(list)) + 1 \in 1 .. Len(list)
  BY <1>1, <1>2
<1>4. QED BY <1>3 DEF RoundRobin

\* What WarmPool.Put does to the channel.
LEMMA PutEffect ==
  ASSUME TypeOK, NEW w \in Clients, Put(w)
  PROVE  /\ slots' \in Seq(Clients)
         /\ Len(slots') <= PoolCap
         /\ Len(slots') >= Len(slots)
         /\ Len(slots') = PoolCap \/ Len(slots') = Len(slots) + 1
<1>1. slots \in Seq(Clients) /\ Len(slots) <= PoolCap /\ Len(slots) \in Nat
  BY DEF TypeOK
<1>2. CASE Len(slots) < PoolCap
  <2>1. slots' = Append(slots, w)
    BY <1>2 DEF Put
  <2>2. QED BY <2>1, <1>1, <1>2
<1>3. CASE Len(slots) = PoolCap
  BY <1>1, <1>3 DEF Put
<1>4. QED BY <1>1, <1>2, <1>3

\* The loops' resting states are well typed.
LEMMA IdleTypes ==
  /\ RefillIdle \in [at : {"idle", "counting", "filling", "ended"},
                    list : Seq(Clients), needed : Nat, i : Nat]
  /\ BeatIdle \in [at : {"idle", "checking", "ended"}, list : Seq(Clients),
                  alive : Seq(Clients)]
  /\ RefillIdle.at = "idle" /\ BeatIdle.at = "idle"
<1>1. <<>> \in Seq(Clients)
  OBVIOUS
<1>2. QED BY <1>1 DEF RefillIdle, BeatIdle

\* Every step of a call, a loop or a worker preserves the types.
LEMMA TypeStep == TypeOK /\ [Next]_vars => TypeOK'
<1> SUFFICES ASSUME TypeOK, [Next]_vars PROVE TypeOK'
  OBVIOUS
<1> USE DEF callVars, loopVars, envVars, countVars
<1>1. ASSUME NEW c \in Calls, NEW b \in BOOLEAN, GetEnter(c, b) PROVE TypeOK'
  BY <1>1 DEF GetEnter, TypeOK, PCs, InFlight
<1>2. ASSUME NEW c \in Calls, CtxEnds(c) PROVE TypeOK'
  BY <1>2 DEF CtxEnds, TypeOK, InFlight
<1>3. ASSUME NEW c \in Calls, GetSlot(c) PROVE TypeOK'
  <2>1. slots # <<>> /\ slots \in Seq(Clients) /\ Len(slots) <= PoolCap
    BY <1>3 DEF GetSlot, TypeOK
  <2>2. /\ Head(slots) \in Clients /\ Tail(slots) \in Seq(Clients)
        /\ Len(Tail(slots)) <= PoolCap
    BY <2>1
  <2>3. QED BY <1>3, <2>2 DEF GetSlot, TypeOK, PCs, InFlight
<1>4. ASSUME NEW c \in Calls, GetFails(c) PROVE TypeOK'
  BY <1>4 DEF GetFails, TypeOK, PCs, InFlight
<1>5. ASSUME NEW c \in Calls, NEW b \in BOOLEAN, WorkerReturns(c, b)
      PROVE TypeOK'
  BY <1>5 DEF WorkerReturns, TypeOK, PCs, InFlight
<1>6. ASSUME NEW c \in Calls, WorkerFails(c) PROVE TypeOK'
  BY <1>6 DEF WorkerFails, TypeOK, PCs, InFlight
<1>7. ASSUME NEW c \in Calls, Forward(c) PROVE TypeOK'
  <2>0. vfsCh \in Seq(Calls) /\ Len(vfsCh) \in Nat /\ Len(vfsCh) <= VFSCap
    BY DEF TypeOK
  <2>1. vfsCh' \in Seq(Calls) /\ Len(vfsCh') <= VFSCap
    <3>1. CASE UNCHANGED vfsCh
      BY <2>0, <3>1
    <3>2. CASE Len(vfsCh) < VFSCap /\ vfsCh' = Append(vfsCh, c)
      BY <2>0, <3>2
    <3>3. QED BY <1>7, <3>1, <3>2 DEF Forward
  <2>2. QED BY <1>7, <2>1 DEF Forward, TypeOK, PCs, InFlight
<1>8. ASSUME NEW c \in Calls, PutBack(c) PROVE TypeOK'
  <2>1. held[c] \in Clients /\ Put(held[c])
    BY <1>8 DEF PutBack, TypeOK, InFlight
  <2>2. slots' \in Seq(Clients) /\ Len(slots') <= PoolCap
    BY <2>1, PutEffect
  <2>3. QED BY <1>8, <2>2 DEF PutBack, TypeOK, PCs, InFlight
<1>9. CASE ReplenishTick
  BY <1>9 DEF ReplenishTick, Tick, RefillIdle, TypeOK, InFlight
<1>10. CASE ReplenishCount
  <2>1. PoolCap - Len(slots) \in Nat
    BY DEF TypeOK
  <2>2. QED BY <1>10, <2>1 DEF ReplenishCount, TypeOK, InFlight
<1>11. CASE ReplenishPut
  <2>1. CASE refill.i < refill.needed /\ Put(RoundRobin(refill.list, refill.i))
    <3>1. refill.list \in Seq(Clients) /\ refill.list # <<>> /\ refill.i \in Nat
      BY <1>11 DEF ReplenishPut, TypeOK
    <3>2. slots' \in Seq(Clients) /\ Len(slots') <= PoolCap
      BY <2>1, <3>1, RoundRobinType, PutEffect
    <3>3. refill' = [refill EXCEPT !.i = refill.i + 1]
      BY <1>11, <2>1 DEF ReplenishPut, TypeOK
    <3>4. /\ refill' \in [at : {"idle", "counting", "filling", "ended"},
                           list : Seq(Clients), needed : Nat, i : Nat]
          /\ refill'.list # <<>>
      <4>1. refill \in [at : {"idle", "counting", "filling", "ended"},
                        list : Seq(Clients), needed : Nat, i : Nat]
        BY DEF TypeOK
      <4>2. refill.i + 1 \in Nat
        BY <3>1
      <4>3. QED BY ONLY <3>1, <3>3, <4>1, <4>2
    <3>5. QED BY <1>11, <3>2, <3>4 DEF ReplenishPut, TypeOK, InFlight
  <2>2. CASE refill' = RefillIdle /\ UNCHANGED slots
    BY <1>11, <2>2, IdleTypes DEF ReplenishPut, TypeOK, InFlight
  <2>3. QED BY <1>11, <2>1, <2>2 DEF ReplenishPut
<1>12. CASE ReplenishEnds
  <2>1. /\ refill' \in [at : {"idle", "counting", "filling", "ended"},
                         list : Seq(Clients), needed : Nat, i : Nat]
        /\ refill'.at = "ended"
    BY <1>12, IdleTypes DEF ReplenishEnds
  <2>2. QED BY <1>12, <2>1 DEF ReplenishEnds, TypeOK, InFlight
<1>13. CASE HeartbeatTick
  BY <1>13 DEF HeartbeatTick, TypeOK, InFlight
<1>14. CASE HealthCheck
  <2>1. beat.list \in Seq(Clients) /\ beat.list # <<>> /\ beat.alive \in Seq(Clients)
    BY <1>14 DEF HealthCheck, TypeOK
  <2>2. /\ Tail(beat.list) \in Seq(Clients)
        /\ Append(beat.alive, Head(beat.list)) \in Seq(Clients)
    BY <2>1
  <2>3. QED BY <1>14, <2>1, <2>2 DEF HealthCheck, TypeOK, InFlight
<1>15. CASE HeartbeatStore
  <2>1. beat.alive \in Seq(Clients)
    BY DEF TypeOK
  <2>2. QED BY <1>15, <2>1, IdleTypes DEF HeartbeatStore, TypeOK, InFlight
<1>16. CASE HeartbeatEnds
  <2>1. beat' \in [at : {"idle", "checking", "ended"}, list : Seq(Clients),
                   alive : Seq(Clients)]
    BY <1>16, IdleTypes DEF HeartbeatEnds
  <2>2. QED BY <1>16, <2>1 DEF HeartbeatEnds, TypeOK, InFlight
<1>17. CASE Receive
  <2>1. vfsCh' \in Seq(Calls) /\ Len(vfsCh') <= VFSCap
    BY <1>17 DEF Receive, TypeOK
  <2>2. QED BY <1>17, <2>1 DEF Receive, TypeOK, InFlight
<1>18. CASE Close
  BY <1>18 DEF Close, TypeOK, InFlight
<1>19. ASSUME NEW w \in Clients, WorkerFlips(w) PROVE TypeOK'
  BY <1>19 DEF WorkerFlips, TypeOK, InFlight
<1>20. CASE Idle \/ UNCHANGED vars
  BY <1>20 DEF Idle, vars, TypeOK, InFlight
<1>21. QED
  BY <1>1, <1>2, <1>3, <1>4, <1>5, <1>6, <1>7, <1>8, <1>9, <1>10, <1>11, <1>12,
     <1>13, <1>14, <1>15, <1>16, <1>17, <1>18, <1>19, <1>20
  DEF Next, Step, ReplenishLoop, HeartbeatLoop

\* Type correctness: among others the channel never exceeds its capacity, and
\* a call in flight holds a real client.
THEOREM TypeCorrect == Spec => []TypeOK
<1>1. Init => TypeOK
  <2> SUFFICES ASSUME Init PROVE TypeOK
    OBVIOUS
  <2>1. \A k \in 1 .. PoolCap : RoundRobin(Configured, k - 1) \in Clients
    BY RoundRobinType
  <2>2. slots \in Seq(Clients) /\ Len(slots) = PoolCap
    BY <2>1 DEF Init
  <2>3. <<>> \in Seq(Calls) /\ Len(<<>>) = 0
    OBVIOUS
  <2>4. vfsCh \in Seq(Calls) /\ Len(vfsCh) <= VFSCap
    BY <2>3 DEF Init
  <2>5. InFlight = {}
    BY DEF Init, InFlight
  <2>6. refill = RefillIdle /\ beat = BeatIdle
    BY DEF Init
  <2>7. /\ pc \in [Calls -> PCs] /\ ctxDone \in [Calls -> BOOLEAN]
        /\ held \in [Calls -> Clients \cup {NoClient}]
        /\ snap \in [Calls -> BOOLEAN]
        /\ outcome \in [Calls -> {"none", "exhausted", "failed", "ok"}]
    BY DEF Init, PCs
  <2>8. /\ refill \in [at : {"idle", "counting", "filling", "ended"},
                        list : Seq(Clients), needed : Nat, i : Nat]
        /\ refill.at \in {"counting", "filling"} => refill.list # <<>>
        /\ beat \in [at : {"idle", "checking", "ended"}, list : Seq(Clients),
                      alive : Seq(Clients)]
    BY ONLY <2>6, IdleTypes
  <2>9. /\ workers \in Seq(Clients) /\ totalExecs \in Nat
        /\ failedExecs \in Nat /\ closed \in BOOLEAN /\ up \subseteq Clients
        /\ flips \in Nat
    BY DEF Init
  <2>10. QED BY ONLY <2>2, <2>4, <2>5, <2>7, <2>8, <2>9, ManagerAssumption
                DEF TypeOK
<1>2. QED BY <1>1, TypeStep, PTL DEF Spec

-----------------------------------------------------------------------------
(* The pool never drains. *)

\* The set of calls in flight is finite, and one call's step moves its size by
\* at most one.
LEMMA InFlightMove ==
  ASSUME NEW c \in Calls, \A d \in Calls \ {c} : pc'[d] = pc[d]
  PROVE  /\ Cardinality(InFlight) \in Nat /\ Cardinality(InFlight') \in Nat
         /\ c \notin InFlight /\ c \in InFlight'
              => Cardinality(InFlight') = Cardinality(InFlight) + 1
         /\ c \in InFlight /\ c \notin InFlight'
              => Cardinality(InFlight') = Cardinality(InFlight) - 1
         /\ (c \in InFlight <=> c \in InFlight')
              => Cardinality(InFlight') = Cardinality(InFlight)
<1>1. /\ IsFiniteSet(InFlight) /\ IsFiniteSet(InFlight')
      /\ Cardinality(InFlight) \in Nat /\ Cardinality(InFlight') \in Nat
  BY FS_Subset, FS_CardinalityType DEF InFlight
<1>2. c \notin InFlight /\ c \in InFlight' => InFlight' = InFlight \cup {c}
  BY DEF InFlight
<1>3. c \in InFlight /\ c \notin InFlight' => InFlight' = InFlight \ {c}
  BY DEF InFlight
<1>4. (c \in InFlight <=> c \in InFlight') => InFlight' = InFlight
  BY DEF InFlight
<1>5. QED
  BY <1>1, <1>2, <1>3, <1>4, FS_AddElement, FS_RemoveElement

\* Every step keeps idle slots plus calls in flight at the capacity or above: a
\* slot taken becomes a call in flight, and a slot put back is lost only when
\* the channel alone is already full.
LEMMA NeverDrainsStep == TypeOK /\ NeverDrains /\ [Next]_vars => NeverDrains'
<1> SUFFICES ASSUME TypeOK, NeverDrains, [Next]_vars PROVE NeverDrains'
  OBVIOUS
<1> USE DEF callVars, loopVars, envVars, countVars
<1>0. slots \in Seq(Clients) /\ Len(slots) \in Nat
  BY DEF TypeOK
<1>1. ASSUME NEW c \in Calls, (\E b \in BOOLEAN : GetEnter(c, b)) \/ GetFails(c)
                              \/ WorkerFails(c) \/ Forward(c) \/ CtxEnds(c)
      PROVE NeverDrains'
  <2>1. /\ \A d \in Calls \ {c} : pc'[d] = pc[d]
        /\ slots' = slots
        /\ c \in InFlight <=> c \in InFlight'
    BY <1>1 DEF GetEnter, GetFails, WorkerFails, Forward, CtxEnds, InFlight, TypeOK
  <2>2. QED BY <2>1, InFlightMove DEF NeverDrains
<1>2. ASSUME NEW c \in Calls, NEW b \in BOOLEAN, WorkerReturns(c, b)
      PROVE NeverDrains'
  <2>1. /\ \A d \in Calls \ {c} : pc'[d] = pc[d]
        /\ slots' = slots
        /\ c \in InFlight <=> c \in InFlight'
    BY <1>2 DEF WorkerReturns, InFlight, TypeOK
  <2>2. QED BY <2>1, InFlightMove DEF NeverDrains
<1>3. ASSUME NEW c \in Calls, GetSlot(c) PROVE NeverDrains'
  <2>1. /\ \A d \in Calls \ {c} : pc'[d] = pc[d]
        /\ slots' = Tail(slots) /\ slots # <<>>
        /\ c \notin InFlight /\ c \in InFlight'
    BY <1>3 DEF GetSlot, InFlight, TypeOK
  <2>2. Len(slots') = Len(slots) - 1
    BY <2>1, <1>0
  <2>3. QED BY <2>1, <2>2, <1>0, InFlightMove DEF NeverDrains
<1>4. ASSUME NEW c \in Calls, PutBack(c) PROVE NeverDrains'
  <2>1. /\ \A d \in Calls \ {c} : pc'[d] = pc[d]
        /\ c \in InFlight /\ c \notin InFlight'
        /\ held[c] \in Clients /\ Put(held[c])
    BY <1>4 DEF PutBack, InFlight, TypeOK
  <2>2. /\ slots' \in Seq(Clients)
        /\ Len(slots') = PoolCap \/ Len(slots') = Len(slots) + 1
    BY <2>1, PutEffect
  <2>3. Len(slots') \in Nat
    BY <2>2
  <2>4. QED BY <2>1, <2>2, <2>3, <1>0, InFlightMove DEF NeverDrains
<1>5. CASE ReplenishPut
  <2>1. InFlight' = InFlight
    BY <1>5 DEF ReplenishPut, InFlight
  <2>2. slots' \in Seq(Clients) /\ Len(slots') >= Len(slots)
    <3>1. CASE refill.i < refill.needed /\ Put(RoundRobin(refill.list, refill.i))
      <4>1. refill.list \in Seq(Clients) /\ refill.list # <<>> /\ refill.i \in Nat
        BY <1>5 DEF ReplenishPut, TypeOK
      <4>2. QED BY <3>1, <4>1, RoundRobinType, PutEffect
    <3>2. CASE UNCHANGED slots
      BY <3>2, <1>0
    <3>3. QED BY <1>5, <3>1, <3>2 DEF ReplenishPut
  <2>3. Cardinality(InFlight) \in Nat /\ Len(slots') \in Nat
    BY <2>2, FS_Subset, FS_CardinalityType DEF InFlight
  <2>4. QED BY <2>1, <2>2, <2>3, <1>0 DEF NeverDrains
<1>6. CASE \/ ReplenishTick \/ ReplenishCount \/ ReplenishEnds
           \/ HeartbeatTick \/ HealthCheck \/ HeartbeatStore \/ HeartbeatEnds
           \/ Receive \/ Close \/ Idle \/ UNCHANGED vars
           \/ \E w \in Clients : WorkerFlips(w)
  <2>1. slots' = slots /\ pc' = pc
    BY <1>6 DEF ReplenishTick, Tick, ReplenishCount, ReplenishEnds, HeartbeatTick,
       HealthCheck, HeartbeatStore, HeartbeatEnds, Receive, Close, Idle, vars,
       WorkerFlips
  <2>2. QED BY <2>1 DEF NeverDrains, InFlight
<1>7. QED
  BY <1>1, <1>2, <1>3, <1>4, <1>5, <1>6
  DEF Next, Step, ReplenishLoop, HeartbeatLoop

\* The pool never drains permanently: whatever calls fail or time out, and
\* however they race the replenish loop for the places of the channel, idle
\* slots and calls in flight together make up the capacity.
THEOREM PoolNeverDrains == Spec => []NeverDrains
<1>1. Init => NeverDrains
  <2> SUFFICES ASSUME Init PROVE NeverDrains
    OBVIOUS
  <2>1. \A k \in 1 .. PoolCap : RoundRobin(Configured, k - 1) \in Clients
    BY RoundRobinType
  <2>2. Len(slots) = PoolCap
    BY <2>1 DEF Init
  <2>3. Cardinality(InFlight) \in Nat
    BY FS_Subset, FS_CardinalityType DEF InFlight
  <2>4. QED BY <2>2, <2>3 DEF NeverDrains
<1>2. QED BY <1>1, TypeCorrect, NeverDrainsStep, PTL DEF Spec

-----------------------------------------------------------------------------
(* A worker that was removed wins no new slot. *)

At(s, w) == {i \in 1 .. Len(s) : s[i] = w}
HeldOf(w) == {c \in InFlight : held[c] = w}

\* The places of a client in the channel are finitely many.
LEMMA AtFinite ==
  ASSUME NEW s \in Seq(Clients), NEW w
  PROVE  IsFiniteSet(At(s, w)) /\ Cardinality(At(s, w)) \in Nat
<1>1. Len(s) \in Nat /\ IsFiniteSet(1 .. Len(s))
  BY FS_Interval
<1>2. At(s, w) \in SUBSET (1 .. Len(s))
  BY DEF At
<1>3. QED BY <1>1, <1>2, FS_Subset, FS_CardinalityType

\* WarmPool.Get takes one copy of the client at the head and no other.
LEMMA CopiesTail ==
  ASSUME NEW s \in Seq(Clients), s # <<>>, NEW w
  PROVE  Cardinality(At(Tail(s), w))
           = IF Head(s) = w THEN Cardinality(At(s, w)) - 1 ELSE Cardinality(At(s, w))
<1> DEFINE t == Tail(s)
           A == At(t, w)
           B == At(s, w) \ {1}
           f == [i \in A |-> i + 1]
<1>1. /\ Len(s) \in Nat \ {0} /\ t \in Seq(Clients) /\ Len(t) = Len(s) - 1
      /\ Head(s) = s[1] /\ \A i \in 1 .. Len(t) : t[i] = s[i + 1]
  OBVIOUS
<1> HIDE DEF t
<1>2. \A i \in A : i \in Nat /\ i + 1 \in B
  BY <1>1 DEF At
<1>3. \A j \in B : j - 1 \in A /\ (j - 1) + 1 = j
  BY <1>1 DEF At
<1>4. ExistsBijection(A, B)
  <2> HIDE DEF A, B
  <2>1. f \in [A -> B]
    BY <1>2
  <2>2. IsInjective(f)
    BY <1>2 DEF IsInjective
  <2>3. \A j \in B : \E i \in A : f[i] = j
    BY <1>3
  <2>4. f \in Bijection(A, B)
    BY <2>1, <2>2, <2>3 DEF Bijection, Injection, Surjection
  <2>5. QED BY <2>4 DEF ExistsBijection
<1>5. IsFiniteSet(A) /\ IsFiniteSet(At(s, w))
  BY <1>1, AtFinite
<1>6. Cardinality(B) = Cardinality(A)
  BY <1>4, <1>5, FS_Bijection
<1>7. Cardinality(B) = IF 1 \in At(s, w) THEN Cardinality(At(s, w)) - 1
                                       ELSE Cardinality(At(s, w))
  BY <1>5, FS_RemoveElement
<1>8. 1 \in At(s, w) <=> Head(s) = w
  BY <1>1 DEF At
<1>9. QED BY <1>6, <1>7, <1>8 DEF t

\* WarmPool.Put adds at most one copy, and none of another client.
LEMMA CopiesPut ==
  ASSUME TypeOK, NEW v \in Clients, Put(v), NEW w
  PROVE  /\ Cardinality(At(slots', w)) <= Cardinality(At(slots, w)) + 1
         /\ v # w => Cardinality(At(slots', w)) = Cardinality(At(slots, w))
<1>1. slots \in Seq(Clients) /\ Len(slots) \in Nat
  BY DEF TypeOK
<1>2. IsFiniteSet(At(slots, w)) /\ Cardinality(At(slots, w)) \in Nat
  BY <1>1, AtFinite
<1>3. CASE UNCHANGED slots
  BY <1>2, <1>3
<1>4. CASE slots' = Append(slots, v)
  <2>1. /\ Len(slots') = Len(slots) + 1 /\ slots'[Len(slots) + 1] = v
        /\ \A i \in 1 .. Len(slots) : slots'[i] = slots[i]
    BY <1>1, <1>4
  <2>2. v # w => At(slots', w) = At(slots, w)
    BY <1>1, <2>1 DEF At
  <2>3. v = w => At(slots', w) = At(slots, w) \cup {Len(slots) + 1}
    BY <1>1, <2>1 DEF At
  <2>4. v = w => Cardinality(At(slots', w)) \in {Cardinality(At(slots, w)),
                                                Cardinality(At(slots, w)) + 1}
    BY <1>2, <2>3, FS_AddElement
  <2>5. QED BY <1>2, <2>2, <2>4
<1>5. QED BY <1>3, <1>4 DEF Put

\* How one call's step moves the number of calls that hold a client.
LEMMA HeldMove ==
  ASSUME NEW c \in Calls, NEW w,
         \A d \in Calls \ {c} : pc'[d] = pc[d] /\ held'[d] = held[d]
  PROVE  /\ Cardinality(HeldOf(w)) \in Nat /\ Cardinality(HeldOf(w)') \in Nat
         /\ c \notin HeldOf(w) /\ c \in HeldOf(w)'
              => Cardinality(HeldOf(w)') = Cardinality(HeldOf(w)) + 1
         /\ c \in HeldOf(w) /\ c \notin HeldOf(w)'
              => Cardinality(HeldOf(w)') = Cardinality(HeldOf(w)) - 1
         /\ (c \in HeldOf(w) <=> c \in HeldOf(w)')
              => Cardinality(HeldOf(w)') = Cardinality(HeldOf(w))
<1>1. /\ IsFiniteSet(HeldOf(w)) /\ IsFiniteSet(HeldOf(w)')
      /\ Cardinality(HeldOf(w)) \in Nat /\ Cardinality(HeldOf(w)') \in Nat
  BY FS_Subset, FS_CardinalityType DEF HeldOf, InFlight
<1>2. c \notin HeldOf(w) /\ c \in HeldOf(w)' => HeldOf(w)' = HeldOf(w) \cup {c}
  BY DEF HeldOf, InFlight
<1>3. c \in HeldOf(w) /\ c \notin HeldOf(w)' => HeldOf(w)' = HeldOf(w) \ {c}
  BY DEF HeldOf, InFlight
<1>4. (c \in HeldOf(w) <=> c \in HeldOf(w)') => HeldOf(w)' = HeldOf(w)
  BY DEF HeldOf, InFlight
<1>5. QED BY <1>1, <1>2, <1>3, <1>4, FS_AddElement, FS_RemoveElement

\* No step adds a copy of a client that replenish does not have in its list.
LEMMA CopiesStep ==
  ASSUME TypeOK, [Next]_vars, NEW w \in Clients, ~Listed(w, refill.list)
  PROVE  Copies(w)' <= Copies(w)
<1> USE DEF callVars, loopVars, envVars, countVars
<1>0. slots \in Seq(Clients) /\ Len(slots) \in Nat
  BY DEF TypeOK
<1>1. /\ Copies(w) = Cardinality(At(slots, w)) + Cardinality(HeldOf(w))
      /\ Copies(w)' = Cardinality(At(slots', w)) + Cardinality(HeldOf(w)')
      /\ Cardinality(At(slots, w)) \in Nat
      /\ Cardinality(HeldOf(w)) \in Nat
  <2>1. Cardinality(HeldOf(w)) \in Nat
    BY FS_Subset, FS_CardinalityType DEF HeldOf, InFlight
  <2>2. QED BY <1>0, <2>1, AtFinite DEF Copies, At, HeldOf
<1>2. ASSUME NEW c \in Calls, GetSlot(c) PROVE Copies(w)' <= Copies(w)
  <2>1. /\ \A d \in Calls \ {c} : pc'[d] = pc[d] /\ held'[d] = held[d]
        /\ slots' = Tail(slots) /\ slots # <<>>
        /\ c \notin HeldOf(w) /\ (c \in HeldOf(w)' <=> Head(slots) = w)
    BY <1>2 DEF GetSlot, HeldOf, InFlight, TypeOK
  <2>2. Cardinality(At(slots', w))
          = IF Head(slots) = w THEN Cardinality(At(slots, w)) - 1 ELSE Cardinality(At(slots, w))
    BY <1>0, <2>1, CopiesTail
  <2>3. QED BY <1>1, <2>1, <2>2, HeldMove
<1>3. ASSUME NEW c \in Calls, PutBack(c) PROVE Copies(w)' <= Copies(w)
  <2>1. /\ \A d \in Calls \ {c} : pc'[d] = pc[d] /\ held'[d] = held[d]
        /\ held[c] \in Clients /\ Put(held[c])
        /\ c \notin HeldOf(w)' /\ (c \in HeldOf(w) <=> held[c] = w)
    BY <1>3 DEF PutBack, HeldOf, InFlight, TypeOK
  <2>2. /\ Cardinality(At(slots', w)) <= Cardinality(At(slots, w)) + 1
        /\ held[c] # w => Cardinality(At(slots', w)) = Cardinality(At(slots, w))
    BY <2>1, CopiesPut
  <2>3. slots' \in Seq(Clients)
    BY <2>1, PutEffect
  <2>4. Cardinality(At(slots', w)) \in Nat
    BY <2>3, AtFinite
  <2>5. QED BY <1>1, <2>1, <2>2, <2>4, HeldMove
<1>4. ASSUME NEW c \in Calls,
             \/ \E b \in BOOLEAN : GetEnter(c, b) \/ WorkerReturns(c, b)
             \/ GetFails(c) \/ WorkerFails(c) \/ Forward(c) \/ CtxEnds(c)
      PROVE  Copies(w)' <= Copies(w)
  <2>1. /\ \A d \in Calls \ {c} : pc'[d] = pc[d] /\ held'[d] = held[d]
        /\ slots' = slots
        /\ c \in HeldOf(w) <=> c \in HeldOf(w)'
    BY <1>4 DEF GetEnter, GetFails, WorkerFails, WorkerReturns, Forward, CtxEnds,
       HeldOf, InFlight, TypeOK
  <2>2. QED BY <1>1, <2>1, HeldMove
<1>5. CASE ReplenishPut
  <2>1. HeldOf(w)' = HeldOf(w)
    BY <1>5 DEF ReplenishPut, HeldOf, InFlight
  <2>2. Cardinality(At(slots', w)) = Cardinality(At(slots, w))
    <3>1. CASE UNCHANGED slots
      BY <3>1
    <3>2. CASE Put(RoundRobin(refill.list, refill.i))
      <4>1. refill.list \in Seq(Clients) /\ refill.list # <<>> /\ refill.i \in Nat
        BY <1>5 DEF ReplenishPut, TypeOK
      <4>2. /\ Len(refill.list) \in Nat \ {0}
            /\ (refill.i % Len(refill.list)) + 1 \in 1 .. Len(refill.list)
        BY <4>1
      <4>3. RoundRobin(refill.list, refill.i) # w
        BY <4>2 DEF RoundRobin, Listed
      <4>4. RoundRobin(refill.list, refill.i) \in Clients
        BY <4>1, RoundRobinType
      <4>5. QED BY <3>2, <4>3, <4>4, CopiesPut
    <3>3. QED BY <1>5, <3>1, <3>2 DEF ReplenishPut
  <2>3. QED BY <1>1, <2>1, <2>2
<1>6. CASE \/ ReplenishTick \/ ReplenishCount \/ ReplenishEnds
           \/ HeartbeatTick \/ HealthCheck \/ HeartbeatStore \/ HeartbeatEnds
           \/ Receive \/ Close \/ Idle \/ UNCHANGED vars
           \/ \E v \in Clients : WorkerFlips(v)
  <2>1. slots' = slots /\ pc' = pc /\ held' = held
    BY <1>6 DEF ReplenishTick, Tick, ReplenishCount, ReplenishEnds, HeartbeatTick,
       HealthCheck, HeartbeatStore, HeartbeatEnds, Receive, Close, Idle, vars,
       WorkerFlips
  <2>2. HeldOf(w)' = HeldOf(w)
    BY <2>1 DEF HeldOf, InFlight
  <2>3. QED BY <1>1, <2>1, <2>2
<1>7. QED
  BY <1>2, <1>3, <1>4, <1>5, <1>6 DEF Next, Step, ReplenishLoop, HeartbeatLoop

\* The slots of a worker the heartbeat removed only wear out, for every number
\* of calls and workers, unless a replenish read the list before the removal.
THEOREM EvictedWearsOut == Spec => EvictedNeverMultiplies
<1>1. TypeOK /\ [Next]_vars
        => [\A w \in Clients : ~Listed(w, workers) /\ ~Listed(w, refill.list)
              => Copies(w)' <= Copies(w)]_vars
  BY CopiesStep
<1>2. QED BY <1>1, TypeCorrect, PTL DEF Spec, EvictedNeverMultiplies
=============================================================================
