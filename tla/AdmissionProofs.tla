--------------------------- MODULE AdmissionProofs ---------------------------
(***************************************************************************)
(* The two gates a request passes, each for every value of its parameters: *)
(* the orchestrator's rate limiter (TokenBucket) and the worker's          *)
(* back-pressure guard (BackPressure).  They share no state.               *)
(***************************************************************************)
EXTENDS BackPressure, TokenBucket, FiniteSetTheorems, TLAPS

USE BackPressureAssumption

At(v) == {q \in Requests : pc[q] = v}

\* The handlers at one place are finitely many; one handler's step changes
\* their number by its own leaving or arriving.
LEMMA AtMove ==
  ASSUME NEW v, NEW r \in Requests, \A q \in Requests \ {r} : pc'[q] = pc[q]
  PROVE  /\ Cardinality(At(v)) \in Nat /\ Cardinality(At(v)') \in Nat
         /\ (pc[r] = v <=> pc'[r] = v) => Cardinality(At(v)') = Cardinality(At(v))
         /\ pc[r] = v /\ pc'[r] # v => Cardinality(At(v)') = Cardinality(At(v)) - 1
         /\ pc[r] # v /\ pc'[r] = v => Cardinality(At(v)') = Cardinality(At(v)) + 1
<1>1. /\ IsFiniteSet(At(v)) /\ IsFiniteSet(At(v)')
      /\ Cardinality(At(v)) \in Nat /\ Cardinality(At(v)') \in Nat
  BY FS_Subset, FS_CardinalityType DEF At
<1>2. (pc[r] = v <=> pc'[r] = v) => At(v)' = At(v)
  BY DEF At
<1>3. pc[r] = v /\ pc'[r] # v => At(v)' = At(v) \ {r} /\ r \in At(v)
  BY DEF At
<1>4. pc[r] # v /\ pc'[r] = v => At(v)' = At(v) \cup {r} /\ r \notin At(v)
  BY DEF At
<1>5. QED BY <1>1, <1>2, <1>3, <1>4, FS_AddElement, FS_RemoveElement

Inv == TypeOK /\ ActiveAccurate /\ CommittedBounded

\* A pool that is not overloaded has at most Limit executions.
LEMMA BelowLimit ==
  ASSUME NEW a \in Nat, ~PoolOverloaded(a) PROVE a <= Limit /\ Limit \in Nat
<1>1. 10 * a <= 9 * Capacity /\ 9 * Capacity \in Nat
  BY DEF PoolOverloaded
<1>2. QED BY <1>1 DEF Limit

\* Every step keeps the gauge accurate and the commitments bounded.
LEMMA InvStep == Inv /\ [Next]_vars => Inv'
<1> SUFFICES ASSUME Inv, [Next]_vars PROVE Inv'
  OBVIOUS
<1>0. TypeOK /\ ActiveAccurate /\ CommittedBounded
  BY DEF Inv
<1>l. Limit \in Nat
  <2>1. 9 * Capacity \in Nat
    OBVIOUS
  <2>2. QED BY <2>1 DEF Limit
<1>a. /\ Loading = At("loading") /\ Checked = At("checked") /\ Executing = At("executing")
      /\ Loading' = At("loading")' /\ Checked' = At("checked")'
      /\ Executing' = At("executing")'
  BY DEF Loading, Checked, Executing, At
<1>1. ASSUME NEW r \in Requests, LoadSnapshot(r) PROVE Inv'
  <2>1. /\ \A q \in Requests \ {r} : pc'[q] = pc[q]
        /\ pc[r] = "new" /\ pc'[r] = "loading" /\ active' = active
        /\ Cardinality(Loading \cup Checked) < Threads
    BY <1>0, <1>1 DEF LoadSnapshot, TypeOK
  <2>2. TypeOK'
    BY <1>0, <1>1 DEF LoadSnapshot, TypeOK, PCs
  <2>3. Cardinality(Loading) + Cardinality(Checked) < Threads
    <3>1. IsFiniteSet(Loading) /\ IsFiniteSet(Checked) /\ Loading \cap Checked = {}
      BY FS_Subset DEF Loading, Checked
    <3>2. /\ Cardinality(Loading \cup Checked)
               = Cardinality(Loading) + Cardinality(Checked)
                   - Cardinality(Loading \cap Checked)
          /\ Cardinality({}) = 0
          /\ Cardinality(Loading) \in Nat /\ Cardinality(Checked) \in Nat
      BY <3>1, FS_Union, FS_EmptySet, FS_CardinalityType
    <3>3. Cardinality(Loading \cap Checked) = 0
      BY <3>1, <3>2
    <3>4. QED BY ONLY <2>1, <3>2, <3>3
  <2>4. QED BY <1>0, <1>a, <1>l, <2>1, <2>2, <2>3, AtMove
            DEF Inv, ActiveAccurate, CommittedBounded, TypeOK
<1>2. ASSUME NEW r \in Requests, Decide(r) PROVE Inv'
  <2>1. /\ \A q \in Requests \ {r} : pc'[q] = pc[q]
        /\ pc[r] = "loading" /\ active' = active
        /\ pc'[r] = "shed" \/ (pc'[r] = "checked" /\ ~PoolOverloaded(active))
    BY <1>0, <1>2 DEF Decide, TypeOK
  <2>2. TypeOK'
    BY <1>0, <1>2 DEF Decide, TypeOK, PCs
  <2>3. pc'[r] = "checked" => active <= Limit
    BY <1>0, <2>1, BelowLimit DEF TypeOK
  <2>4. QED BY <1>0, <1>a, <1>l, <2>1, <2>2, <2>3, AtMove
            DEF Inv, ActiveAccurate, CommittedBounded, TypeOK
<1>3. ASSUME NEW r \in Requests, Admit(r) PROVE Inv'
  <2>1. /\ \A q \in Requests \ {r} : pc'[q] = pc[q]
        /\ pc[r] = "checked" /\ pc'[r] = "executing" /\ active' = active + 1
    BY <1>0, <1>3 DEF Admit, TypeOK
  <2>2. TypeOK'
    BY <1>0, <1>3 DEF Admit, TypeOK, PCs
  <2>3. QED BY <1>0, <1>a, <1>l, <2>1, <2>2, AtMove
            DEF Inv, ActiveAccurate, CommittedBounded, TypeOK
<1>4. ASSUME NEW r \in Requests, Finish(r) PROVE Inv'
  <2>1. /\ \A q \in Requests \ {r} : pc'[q] = pc[q]
        /\ pc[r] = "executing" /\ pc'[r] = "done" /\ active' = active - 1
    BY <1>0, <1>4 DEF Finish, TypeOK
  <2>2. active' = Cardinality(Executing') /\ active' \in Nat
    BY <1>0, <1>a, <2>1, AtMove DEF ActiveAccurate
  <2>3. TypeOK'
    BY <1>0, <1>4, <2>2 DEF Finish, TypeOK, PCs
  <2>4. QED BY <1>0, <1>a, <1>l, <2>1, <2>2, <2>3, AtMove
            DEF Inv, ActiveAccurate, CommittedBounded, TypeOK
<1>5. CASE Refresh \/ UNCHANGED vars
  <2>1. pc' = pc /\ active' = active
    BY <1>5 DEF Refresh, vars
  <2>2. TypeOK'
    BY <1>0, <1>5 DEF Refresh, vars, TypeOK
  <2>3. QED BY <1>0, <2>1, <2>2
            DEF Inv, ActiveAccurate, CommittedBounded, Loading, Checked, Executing
<1>6. QED BY <1>1, <1>2, <1>3, <1>4, <1>5 DEF Next

\* active_count is the number of executions in flight, and that number exceeds
\* nine tenths of the capacity by at most the number of runtime threads.
THEOREM AdmissionSafety == Spec => [](TypeOK /\ AdmissionSound)
<1>1. Init => Inv
  <2> SUFFICES ASSUME Init PROVE Inv
    OBVIOUS
  <2>1. Loading = {} /\ Checked = {} /\ Executing = {}
    BY DEF Init, Loading, Checked, Executing
  <2>2. Cardinality({}) = 0
    BY FS_EmptySet
  <2>3. 9 * Capacity \in Nat
    OBVIOUS
  <2>4. Limit \in Nat
    BY <2>3 DEF Limit
  <2>5. TypeOK /\ active = 0
    BY DEF Init, TypeOK, PCs
  <2>6. ActiveAccurate /\ CommittedBounded
    BY <2>1, <2>2, <2>4, <2>5 DEF ActiveAccurate, CommittedBounded
  <2>7. QED BY <2>5, <2>6 DEF Inv
<1>2. Inv => TypeOK /\ AdmissionSound
  <2> SUFFICES ASSUME Inv PROVE AdmissionBounded
    BY DEF Inv, AdmissionSound
  <2>1. Cardinality(Checked) \in Nat
    BY FS_Subset, FS_CardinalityType DEF Checked
  <2>2. QED BY <2>1 DEF Inv, TypeOK, ActiveAccurate, CommittedBounded, AdmissionBounded, Limit
<1>3. QED BY <1>1, <1>2, InvStep, PTL DEF Spec

-----------------------------------------------------------------------------
(* The rate limiter. *)

USE BucketAssumption

\* Products and quotients, as the proofs below need them.
LEMMA Distributes ==
  \A a, b, c \in Int : (a + b) * c = a * c + b * c /\ a * c \in Int
  OBVIOUS

\* Multiplying by a natural number keeps the order.
LEMMA Monotone ==
  \A a, b \in Int, c \in Nat : a <= b => a * c <= b * c
  OBVIOUS

\* A quotient rounds down.
LEMMA DivBound ==
  ASSUME NEW a \in Nat, NEW b \in Nat \ {0}
  PROVE  (a \div b) \in Nat /\ (a \div b) * b <= a /\ a < (a \div b) * b + b
  OBVIOUS

\* A refill is at most the rate for the time since the last one.
LEMMA RefillBound ==
  ASSUME NEW t \in Nat, last \in Nat
  PROVE  /\ Refill(t) \in Nat
         /\ t > last => Refill(t) * Hz <= (t - last) * Rate
         /\ t <= last => Refill(t) = 0
<1>1. CASE t > last
  <2>1. (t - last) * Rate \in Nat BY <1>1
  <2>2. QED BY <1>1, <2>1, DivBound DEF Refill
<1>2. CASE t <= last
  BY <1>2 DEF Refill
<1>3. QED BY <1>1, <1>2

\* A key lives long enough after its last script to be full again by then.
LEMMA LifetimeFills ==
  TTL \in Nat /\ BucketCapacity * Hz <= TTL * Rate
<1> DEFINE q == BucketCapacity \div Rate
<1>1. /\ Rate \in Nat \ {0} /\ BucketCapacity \in Nat \ {0} /\ Hz \in Nat \ {0}
      /\ Slack \in Nat \ {0}
  OBVIOUS
<1>2. q \in Nat /\ BucketCapacity < q * Rate + Rate
  BY <1>1, DivBound
<1> HIDE DEF q
<1>3. BucketCapacity <= (q * 2 + Slack) * Rate
  <2>1. q + 1 <= q * 2 + Slack /\ q + 1 \in Int /\ q * 2 + Slack \in Int
    BY <1>1, <1>2
  <2>2. (q + 1) * Rate <= (q * 2 + Slack) * Rate
    BY ONLY <1>1, <2>1, Monotone
  <2>3. (q + 1) * Rate = q * Rate + Rate
    BY <1>1, <1>2
  <2>4. (q * 2 + Slack) * Rate \in Int
    BY <1>1, <1>2
  <2>5. QED BY ONLY <1>1, <1>2, <2>2, <2>3, <2>4
<1> DEFINE s == q * 2 + Slack
<1>4. s \in Nat /\ TTL = s * Hz
  BY <1>1, <1>2 DEF TTL, q
<1>5. BucketCapacity <= s * Rate
  BY <1>3
<1> HIDE DEF s
<1>6. s * Rate \in Int /\ BucketCapacity * Hz <= (s * Rate) * Hz
  BY ONLY <1>1, <1>4, <1>5, Monotone
<1>7. (s * Rate) * Hz = (s * Hz) * Rate /\ s * Hz \in Nat
  BY ONLY <1>1, <1>4
<1>8. QED BY <1>4, <1>6, <1>7

\* What the key's state says of the tokens handed out so far.
Credited ==
  IF exists THEN (granted + tokens) * Hz <= BucketCapacity * Hz + (last + rewound) * Rate
            ELSE granted * Hz <= (expiry + rewound) * Rate

\* The key's times, and the readings under way, are of the past; the key
\* outlives its last refill by its lifetime.
TimesOrdered ==
  /\ \A h \in Handlers : reading[h] <= now
  /\ exists => last <= now /\ last + TTL <= expiry
  /\ ~exists => expiry <= now

BucketInv == BucketTypeOK /\ Credited /\ TimesOrdered

\* A script, whatever reading it carries, keeps the account.
LEMMA ScriptCredits ==
  ASSUME BucketInv, NEW h \in Handlers, RunScript(h)
  PROVE  BucketInv'
<1> DEFINE t == reading[h]
           a == Available(t)
<1>1. /\ Rate \in Nat \ {0} /\ BucketCapacity \in Nat \ {0} /\ Hz \in Nat \ {0}
      /\ TTL \in Nat
  BY LifetimeFills
<1>2. /\ now \in Nat /\ tokens \in 0 .. BucketCapacity /\ last \in Nat /\ expiry \in Nat
      /\ granted \in Nat /\ rewound \in Nat /\ exists \in BOOLEAN
      /\ reading \in [Handlers -> Nat \cup {NoReading}]
      /\ Credited /\ TimesOrdered
  BY DEF BucketInv, BucketTypeOK
<1>3. t \in Nat /\ t <= now
  BY <1>2 DEF RunScript, TimesOrdered
<1>4. /\ Refill(t) \in Nat
      /\ t > last => Refill(t) * Hz <= (t - last) * Rate
      /\ t <= last => Refill(t) = 0
  BY <1>2, <1>3, RefillBound
<1>5. /\ a \in 0 .. BucketCapacity
      /\ exists => a <= tokens + Refill(t)
      /\ ~exists => a = BucketCapacity
  BY <1>1, <1>2, <1>4 DEF Available
<1>6. /\ exists' = TRUE /\ last' = t /\ expiry' = now + TTL /\ now' = now
      /\ reading' = [reading EXCEPT ![h] = NoReading]
      /\ rewound' = IF t < CreditedUpTo
                      THEN rewound + (CreditedUpTo - t) ELSE rewound
      /\ \/ a >= 1 /\ tokens' = a - 1 /\ granted' = granted + 1
         \/ ~(a >= 1) /\ tokens' = a /\ granted' = granted
  BY DEF RunScript, Grants
<1> HIDE DEF t, a
<1>7. /\ granted' \in Nat /\ tokens' \in 0 .. BucketCapacity /\ granted' + tokens' = granted + a
  BY <1>1, <1>2, <1>5, <1>6
<1>8. rewound' \in Nat
  BY <1>2, <1>3, <1>6 DEF CreditedUpTo
<1>9. Credited'
  <2>1. (granted + a) * Hz = granted * Hz + a * Hz /\ granted * Hz \in Int /\ a * Hz \in Int
    BY ONLY <1>1, <1>2, <1>5, Distributes
  <2>2. CASE exists
    <3>1. (granted + tokens) * Hz = granted * Hz + tokens * Hz /\ tokens * Hz \in Int
      BY ONLY <1>1, <1>2, Distributes
    <3>2. (last + rewound) * Rate = last * Rate + rewound * Rate
          /\ last * Rate \in Int /\ rewound * Rate \in Int
      BY ONLY <1>1, <1>2, Distributes
    <3>3. a * Hz <= (tokens + Refill(t)) * Hz
      BY ONLY <1>1, <1>2, <1>4, <1>5, <2>2, Monotone
    <3>4. (tokens + Refill(t)) * Hz = tokens * Hz + Refill(t) * Hz
          /\ Refill(t) * Hz \in Int
      BY ONLY <1>1, <1>2, <1>4, Distributes
    <3>5. (t + rewound') * Rate = t * Rate + rewound' * Rate
          /\ t * Rate \in Int /\ rewound' * Rate \in Int
      BY ONLY <1>1, <1>3, <1>8, Distributes
    <3>6. CASE t > last
      <4>1. rewound' = rewound
        BY <1>2, <1>3, <1>6, <2>2, <3>6 DEF CreditedUpTo
      <4>2. (t - last) * Rate = t * Rate - last * Rate
        BY ONLY <1>1, <1>2, <1>3
      <4>3. QED BY <1>1, <1>2, <1>4, <1>6, <1>7, <2>1, <2>2, <3>1, <3>2, <3>3, <3>4, <3>5,
                   <3>6, <4>1, <4>2 DEF Credited
    <3>7. CASE t <= last
      <4>1. t + rewound' = last + rewound
        BY <1>2, <1>3, <1>6, <2>2, <3>7 DEF CreditedUpTo
      <4>2. Refill(t) * Hz = 0
        BY <1>1, <1>4, <3>7
      <4>3. QED BY <1>1, <1>2, <1>4, <1>6, <1>7, <2>1, <2>2, <3>1, <3>3, <3>4, <4>1, <4>2
                DEF Credited
    <3>8. QED BY <1>2, <1>3, <3>6, <3>7
  <2>3. CASE ~exists
    <3>1. /\ expiry + rewound <= t + rewound'
          /\ expiry + rewound \in Int /\ t + rewound' \in Int /\ Rate \in Nat
      BY <1>1, <1>2, <1>3, <1>6, <1>8, <2>3 DEF CreditedUpTo
    <3>2. (expiry + rewound) * Rate <= (t + rewound') * Rate
      BY ONLY <3>1, Monotone
    <3>3. (expiry + rewound) * Rate \in Int /\ (t + rewound') * Rate \in Int
          /\ BucketCapacity * Hz \in Int
      BY ONLY <1>1, <1>2, <1>3, <1>8
    <3>4. QED BY <1>2, <1>5, <1>6, <1>7, <2>1, <2>3, <3>2, <3>3 DEF Credited
  <2>4. QED BY <1>2, <2>2, <2>3
<1>10. TimesOrdered'
  BY <1>1, <1>2, <1>3, <1>6 DEF TimesOrdered, NoReading
<1>11. BucketTypeOK'
  BY <1>1, <1>2, <1>3, <1>6, <1>7, <1>8 DEF BucketTypeOK
<1>12. QED BY <1>9, <1>10, <1>11 DEF BucketInv

\* Every step keeps the account of the bucket.
LEMMA BucketStep ==
  ASSUME BucketInv, [BucketNext]_bucketVars
  PROVE  BucketInv'
<1>1. /\ Rate \in Nat \ {0} /\ BucketCapacity \in Nat \ {0} /\ Hz \in Nat \ {0}
      /\ TTL \in Nat /\ BucketCapacity * Hz <= TTL * Rate
  BY LifetimeFills
<1>2. /\ now \in Nat /\ tokens \in 0 .. BucketCapacity /\ last \in Nat /\ expiry \in Nat
      /\ granted \in Nat /\ rewound \in Nat /\ exists \in BOOLEAN
      /\ reading \in [Handlers -> Nat \cup {NoReading}]
      /\ Credited /\ TimesOrdered
  BY DEF BucketInv, BucketTypeOK
<1>3. ASSUME NEW h \in Handlers, ReadClock(h) PROVE BucketInv'
  BY <1>2, <1>3 DEF ReadClock, BucketInv, BucketTypeOK, Credited, TimesOrdered
<1>4. ASSUME NEW h \in Handlers, FailOpen(h) PROVE BucketInv'
  BY <1>2, <1>4 DEF FailOpen, BucketInv, BucketTypeOK, Credited, TimesOrdered,
                    NoReading
<1>5. CASE Expire
  <2>1. /\ exists /\ ~exists' /\ exists' \in BOOLEAN /\ expiry <= now
        /\ UNCHANGED <<now, reading, tokens, last, expiry, granted, rewound>>
    BY <1>2, <1>5 DEF Expire
  <2>2. Credited'
    <3>1. (granted + tokens) * Hz = granted * Hz + tokens * Hz
          /\ granted * Hz \in Int /\ tokens * Hz \in Int
      BY ONLY <1>1, <1>2, Distributes
    <3>2. 0 <= tokens * Hz
      BY ONLY <1>1, <1>2
    <3>3. /\ last + TTL + rewound <= expiry + rewound
          /\ last + TTL + rewound \in Int /\ expiry + rewound \in Int
          /\ Rate \in Nat
      BY <1>1, <1>2, <2>1 DEF TimesOrdered
    <3>4. (last + TTL + rewound) * Rate <= (expiry + rewound) * Rate
          /\ (expiry + rewound) * Rate \in Int
      BY ONLY <3>3, Monotone, Distributes
    <3>5. (last + TTL + rewound) * Rate = (last + rewound) * Rate + TTL * Rate
          /\ (last + rewound) * Rate \in Int /\ TTL * Rate \in Int
          /\ BucketCapacity * Hz \in Int
      BY ONLY <1>1, <1>2
    <3>6. (granted + tokens) * Hz <= BucketCapacity * Hz + (last + rewound) * Rate
      BY <1>2, <2>1 DEF Credited
    <3>7. granted * Hz <= (expiry + rewound) * Rate
      BY ONLY <1>1, <3>1, <3>2, <3>4, <3>5, <3>6
    <3>8. QED BY <2>1, <3>7 DEF Credited
  <2>3. TimesOrdered'
    BY <1>2, <2>1 DEF TimesOrdered
  <2>4. BucketTypeOK'
    BY <1>2, <2>1 DEF BucketTypeOK
  <2>5. QED BY <2>2, <2>3, <2>4 DEF BucketInv
<1>6. CASE Tick
  BY <1>1, <1>2, <1>6 DEF Tick, BucketInv, BucketTypeOK, Credited, TimesOrdered,
                          NoReading
<1>7. CASE UNCHANGED bucketVars
  BY <1>2, <1>7 DEF bucketVars, BucketInv, BucketTypeOK, Credited, TimesOrdered
<1>8. QED BY <1>3, <1>4, <1>5, <1>6, <1>7, ScriptCredits DEF BucketNext

\* Whatever the rate, the burst, the clock's grain and the number of handlers:
\* the bucket hands out no more than its capacity and its rate allow, plus the
\* rate for the time by which late scripts set the key back.
THEOREM GrantsSafety ==
  BucketSpec => [](BucketTypeOK /\ GrantsBounded)
<1>1. BucketInit => BucketInv
  <2> SUFFICES ASSUME BucketInit PROVE BucketInv
    OBVIOUS
  <2>1. Rate \in Nat /\ BucketCapacity \in Nat /\ Hz \in Nat
    OBVIOUS
  <2>2. BucketTypeOK
    <3>1. exists \in BOOLEAN /\ reading \in [Handlers -> Nat \cup {NoReading}]
      BY Zenon DEF BucketInit
    <3>2. QED BY <2>1, <3>1 DEF BucketInit, BucketTypeOK
  <2>3. TimesOrdered
    BY DEF BucketInit, TimesOrdered, NoReading
  <2>4. Credited
    BY <2>1 DEF BucketInit, Credited
  <2>5. QED BY <2>2, <2>3, <2>4 DEF BucketInv
<1>2. BucketInv /\ [BucketNext]_bucketVars => BucketInv'
  BY BucketStep
<1>3. BucketInv => BucketTypeOK /\ GrantsBounded
  <2> SUFFICES ASSUME BucketInv PROVE GrantsBounded
    BY DEF BucketInv
  <2>1. /\ Rate \in Nat \ {0} /\ BucketCapacity \in Nat \ {0} /\ Hz \in Nat \ {0}
        /\ now \in Nat /\ tokens \in 0 .. BucketCapacity /\ last \in Nat /\ expiry \in Nat
        /\ granted \in Nat /\ rewound \in Nat
        /\ Credited /\ TimesOrdered
    BY DEF BucketInv, BucketTypeOK
  <2>2. ASSUME NEW u \in Nat, u <= now
        PROVE  (u + rewound) * Rate <= (now + rewound) * Rate
               /\ (u + rewound) * Rate \in Int /\ (now + rewound) * Rate \in Int
    <3>1. u + rewound <= now + rewound /\ u + rewound \in Int /\ now + rewound \in Int
          /\ Rate \in Nat
      BY <2>1, <2>2
    <3>2. QED BY ONLY <3>1, Monotone, Distributes
  <2>3. granted * Hz \in Int /\ BucketCapacity * Hz \in Nat
    BY ONLY <2>1
  <2>4. CASE exists
    <3>1. (granted + tokens) * Hz = granted * Hz + tokens * Hz /\ tokens * Hz \in Nat
      BY ONLY <2>1, Distributes
    <3>2. (granted + tokens) * Hz <= BucketCapacity * Hz + (last + rewound) * Rate /\ last <= now
      BY <2>1, <2>4 DEF Credited, TimesOrdered
    <3>3. QED BY <2>1, <2>2, <2>3, <3>1, <3>2 DEF GrantsBounded
  <2>5. CASE ~exists
    <3>1. granted * Hz <= (expiry + rewound) * Rate /\ expiry <= now
      BY <2>1, <2>5 DEF Credited, TimesOrdered
    <3>2. QED BY <2>1, <2>2, <2>3, <3>1 DEF GrantsBounded
  <2>6. QED BY <2>4, <2>5
<1>4. QED BY <1>1, <1>2, <1>3, PTL DEF BucketSpec

\* A script that runs a second or more of clock time after the previous one
\* grants, so the Retry-After of one second is honest for every configuration.
THEOREM RetrySafety ==
  BucketSpec => RetryAfterSuffices
<1> DEFINE Waited(h) == reading[h] - last >= Hz /\ reading'[h] # reading[h] /\ last' # last
<1>1. BucketTypeOK /\ [BucketNext]_bucketVars
        => [\A h \in Handlers : Waited(h) => granted' = granted + 1]_bucketVars
  <2> SUFFICES ASSUME BucketTypeOK, BucketNext, NEW h \in Handlers, Waited(h)
               PROVE  granted' = granted + 1
    OBVIOUS
  <2>1. PICK g \in Handlers : RunScript(g)
    BY DEF BucketNext, ReadClock, FailOpen, Expire, Tick
  <2>2. g = h
    BY <2>1 DEF RunScript, BucketTypeOK
  <2>3. /\ Rate \in Nat \ {0} /\ BucketCapacity \in Nat \ {0} /\ Hz \in Nat \ {0}
        /\ last \in Nat /\ tokens \in 0 .. BucketCapacity /\ reading[h] \in Int
    BY DEF BucketTypeOK, NoReading
  <2>4. Refill(reading[h]) >= 1 /\ Refill(reading[h]) \in Int
    <3>1. reading[h] > last /\ reading[h] - last \in Nat /\ Hz <= reading[h] - last
      BY <2>3
    <3> DEFINE a == (reading[h] - last) * Rate
    <3>2. a \in Nat
      BY <2>3, <3>1
    <3>3. Hz <= a
      <4>1. Hz * Rate <= a
        BY ONLY <2>3, <3>1, Monotone
      <4>2. Hz <= Hz * Rate /\ Hz * Rate \in Nat
        BY ONLY <2>3
      <4>3. QED BY <2>3, <3>2, <4>1, <4>2
    <3>4. Refill(reading[h]) = a \div Hz
      BY <3>1 DEF Refill
    <3> HIDE DEF a
    <3>5. (a \div Hz) \in Nat /\ a < (a \div Hz) * Hz + Hz
      BY <2>3, <3>2, DivBound
    <3>6. a \div Hz # 0
      BY <2>3, <3>2, <3>3, <3>5
    <3>7. QED BY <3>4, <3>5, <3>6
  <2>5. Available(reading[h]) >= 1
    BY <2>3, <2>4 DEF Available
  <2>6. QED BY <2>1, <2>2, <2>5 DEF RunScript, Grants
<1>2. QED BY <1>1, GrantsSafety, PTL DEF BucketSpec, RetryAfterSuffices
=============================================================================
