-------------------------- MODULE MonitorsProofs --------------------------
(***************************************************************************)
(* For every number of sessions, every limit of the samples and every pair *)
(* of intervals: the countdown of the health dot tells the time to the     *)
(* next attempt, and the vitals on display are of the run that is on.      *)
(***************************************************************************)
EXTENDS Monitors, TLAPS

UpOK == up \in BOOLEAN

DotOK ==
  /\ status \in {"checking", "online", "offline"} /\ backoff \in POLL_BASE..POLL_MAX
  /\ retryIn \in 0..POLL_MAX /\ due \in BOOLEAN /\ left \in Asking..POLL_MAX

\* The interval has a callback to run only while a number is on display, and the
\* number is the time left, plus a second that has passed unnoticed.
DotInv ==
  /\ DotOK
  /\ status # "offline" => retryIn = 0
  /\ due => retryIn > 0
  /\ retryIn > 0 => retryIn = (IF left = Asking THEN 0 ELSE left) + (IF due THEN 1 ELSE 0)

Shown(s) == {0, s}

VitalsTypes ==
  /\ sessionId \in 0..MaxSessions /\ running \in BOOLEAN /\ issued \in 0..MaxSessions
  /\ replaced \in BOOLEAN
  /\ snapshots \in Seq(Samples) /\ Len(snapshots) <= SPARKLINE_SAMPLES
  /\ latest \in Samples \cup {NoSample}
  /\ vBackoff \in 1..POLL_BACKOFF_MAX
  /\ asking \subseteq [of : Sessions, prev : Samples \cup {NoSample}]
  /\ timers \subseteq Sessions

\* Loops are of sessions that were started, so a new session has none.
Started ==
  /\ sessionId <= issued
  /\ running => sessionId # 0
  /\ \A r \in asking : r.of <= issued
  /\ \A s \in timers : s <= issued

\* What the loop of the current run has recorded, shows and may fall back to.
OfRun ==
  /\ ~running => snapshots = <<>> /\ latest = NoSample
  /\ latest # NoSample => Len(snapshots) > 0 /\ latest = snapshots[Len(snapshots)]
  /\ running /\ ~replaced =>
       /\ snapshots \in Seq(Shown(sessionId))
       /\ latest \in Shown(sessionId) \cup {NoSample}
       /\ \A r \in asking : r.of = sessionId => r.prev \in Shown(sessionId) \cup {NoSample}

VitalsInv == VitalsTypes /\ Started /\ OfRun

-----------------------------------------------------------------------------
LEMMA SmallerType ==
  ASSUME NEW lo \in Nat, NEW hi \in Nat, NEW x \in lo..hi, lo <= hi
  PROVE  Smaller(x * 2, hi) \in lo..hi
  BY DEF Smaller

LEMMA InitDot == Init => DotInv
  <1> SUFFICES ASSUME Init PROVE DotInv OBVIOUS
  <1>1. POLL_BASE \in POLL_BASE..POLL_MAX /\ 0 \in 0..POLL_MAX /\ Asking \in Asking..POLL_MAX
    BY MonitorsAssumption DEF Asking
  <1>2. status = "checking" /\ backoff = POLL_BASE /\ retryIn = 0 /\ due = FALSE /\ left = Asking
    BY DEF Init
  <1>3. DotOK BY <1>1, <1>2 DEF DotOK
  <1> QED BY <1>2, <1>3 DEF DotInv

LEMMA NextDot ==
  ASSUME DotInv, [Next]_vars
  PROVE  DotInv'
  <1>0. DotOK BY DEF DotInv
  <1>1. CASE UNCHANGED dot BY <1>1 DEF dot, DotInv, DotOK
  <1>2. CASE Second
    <2>1. /\ left > 0 /\ ~due /\ left' = left - 1 /\ due' = (retryIn > 0)
          /\ UNCHANGED <<status, backoff, retryIn>>
      BY <1>2 DEF Second
    <2>2. left \in Int /\ left' \in Asking..POLL_MAX /\ left # Asking /\ left' # Asking
      BY <1>0, <2>1, MonitorsAssumption DEF DotOK, Asking
    <2>3. DotOK' BY <1>0, <2>1, <2>2 DEF DotOK
    <2>4. retryIn > 0 => retryIn = left BY <1>0, <2>1, <2>2 DEF DotInv, DotOK
    <2>5. retryIn > 0 => retryIn = left' + 1 BY <2>1, <2>2, <2>4
    <2>6. due' <=> retryIn' > 0 BY <2>1
    <2>7. (due => retryIn > 0)' BY <2>6
    <2>8. ASSUME retryIn > 0
          PROVE  retryIn' = (IF left' = Asking THEN 0 ELSE left') + (IF due' THEN 1 ELSE 0)
      <3>1. due' /\ retryIn' = retryIn BY <2>1, <2>8
      <3> QED BY <2>2, <2>5, <2>8, <3>1
    <2>9. (status # "offline" => retryIn = 0)' BY <2>1 DEF DotInv
    <2> QED BY <2>1, <2>3, <2>7, <2>8, <2>9 DEF DotInv
  <1>3. CASE CountdownTick
    <2>1. due /\ due' = FALSE /\ retryIn' = retryIn - 1 /\ UNCHANGED <<status, backoff, left>>
      BY <1>3 DEF CountdownTick
    <2>2. retryIn > 0 /\ status = "offline" BY <1>0, <2>1 DEF DotInv, DotOK
    <2>3. retryIn = (IF left = Asking THEN 0 ELSE left) + 1 BY <2>1, <2>2 DEF DotInv
    <2>4. retryIn' \in 0..POLL_MAX BY <1>0, <2>1, <2>2, MonitorsAssumption DEF DotOK
    <2>5. DotOK' BY <1>0, <2>1, <2>4 DEF DotOK
    <2>6. retryIn' = (IF left' = Asking THEN 0 ELSE left')
      BY <1>0, <2>1, <2>3, MonitorsAssumption DEF DotOK, Asking
    <2>7. (IF left' = Asking THEN 0 ELSE left') + (IF due' THEN 1 ELSE 0) = retryIn'
      BY <2>1, <2>4, <2>6, MonitorsAssumption
    <2> QED BY <2>1, <2>2, <2>5, <2>7 DEF DotInv
  <1>4. CASE PollTimeout
    <2>1. left = 0 /\ left' = Asking /\ UNCHANGED <<status, backoff, retryIn, due>>
      BY <1>4 DEF PollTimeout
    <2>2. left # Asking /\ Asking \in Asking..POLL_MAX BY <2>1, MonitorsAssumption DEF Asking
    <2>3. DotOK' BY <1>0, <2>1, <2>2 DEF DotOK
    <2> QED BY <2>1, <2>2, <2>3 DEF DotInv
  <1>5. CASE HealthAnswer
    <2>1. CASE up
      <3>1. /\ status' = "online" /\ backoff' = POLL_BASE
            /\ retryIn' = 0 /\ left' = POLL_BASE /\ due' = FALSE
        BY <1>5, <2>1 DEF HealthAnswer
      <3>2. /\ POLL_BASE \in POLL_BASE..POLL_MAX /\ 0 \in 0..POLL_MAX
            /\ POLL_BASE \in Asking..POLL_MAX
        BY MonitorsAssumption DEF Asking
      <3>3. DotOK' BY <3>1, <3>2 DEF DotOK
      <3> QED BY <3>1, <3>3 DEF DotInv
    <2>2. CASE ~up
      <3>1. /\ status' = "offline" /\ backoff' = Smaller(backoff * 2, POLL_MAX)
            /\ retryIn' = backoff' /\ left' = backoff' /\ due' = FALSE
        BY <1>5, <2>2 DEF HealthAnswer
      <3>2. backoff' \in POLL_BASE..POLL_MAX
        BY <1>0, <3>1, SmallerType, MonitorsAssumption DEF DotOK
      <3>3. /\ backoff' \in 0..POLL_MAX /\ backoff' \in Asking..POLL_MAX
            /\ backoff' # Asking /\ backoff' \in Nat
        BY <3>2, MonitorsAssumption DEF Asking
      <3>4. DotOK' BY <3>1, <3>2, <3>3 DEF DotOK
      <3>5. (IF left' = Asking THEN 0 ELSE left') + (IF due' THEN 1 ELSE 0) = retryIn'
        BY <3>1, <3>3
      <3> QED BY <3>1, <3>4, <3>5 DEF DotInv
    <2> QED BY <2>1, <2>2
  <1> QED
    BY <1>1, <1>2, <1>3, <1>4, <1>5
       DEF Next, vars, ReachabilityChanges, handleRun, RunEnds, handleReset,
           VitalsAnswer, VitalsTimeout

-----------------------------------------------------------------------------
\* push and shift: a sample more, none beyond the limit, and the new one last.
LEMMA RecordKeeps ==
  ASSUME NEW S, snapshots \in Seq(S), Len(snapshots) <= SPARKLINE_SAMPLES,
         NEW sample \in S, Record(sample)
  PROVE  /\ snapshots' \in Seq(S) /\ latest' = sample
         /\ Len(snapshots') <= SPARKLINE_SAMPLES
         /\ Len(snapshots') > 0 /\ snapshots'[Len(snapshots')] = sample
  <1> DEFINE all == Append(snapshots, sample)
  <1>1. /\ all \in Seq(S) /\ Len(all) = Len(snapshots) + 1 /\ all[Len(all)] = sample
        /\ Len(snapshots) \in Nat
    OBVIOUS
  <1>2. latest' = sample /\ snapshots' = IF Len(all) > SPARKLINE_SAMPLES THEN Tail(all) ELSE all
    BY DEF Record
  <1> HIDE DEF all
  <1>3. CASE Len(all) > SPARKLINE_SAMPLES
    <2>1. Len(snapshots) > 0 BY <1>1, <1>3, MonitorsAssumption
    <2>2. /\ Tail(all) \in Seq(S) /\ Len(Tail(all)) = Len(all) - 1
          /\ Tail(all)[Len(all) - 1] = all[Len(all)]
      BY <1>1, <2>1
    <2> QED BY <1>1, <1>2, <1>3, <2>1, <2>2
  <1>4. CASE ~(Len(all) > SPARKLINE_SAMPLES)
    BY <1>1, <1>2, <1>4, MonitorsAssumption
  <1> QED BY <1>3, <1>4

LEMMA InitVitals == Init => VitalsInv
  <1> SUFFICES ASSUME Init PROVE VitalsInv OBVIOUS
  <1>1. /\ sessionId = 0 /\ running = FALSE /\ issued = 0 /\ replaced = FALSE
        /\ snapshots = <<>> /\ latest = NoSample /\ vBackoff = 1 /\ asking = {} /\ timers = {}
    BY DEF Init
  <1>2. 0 \in 0..MaxSessions /\ 1 \in 1..POLL_BACKOFF_MAX /\ 0 <= SPARKLINE_SAMPLES
    BY MonitorsAssumption
  <1>3. snapshots \in Seq(Samples) /\ Len(snapshots) = 0 BY <1>1
  <1>4. VitalsTypes BY <1>1, <1>2, <1>3 DEF VitalsTypes
  <1>5. Started BY <1>1 DEF Started
  <1>6. OfRun BY <1>1 DEF OfRun
  <1> QED BY <1>4, <1>5, <1>6 DEF VitalsInv

\* The effect, for a run that ends and for one that starts.
LEMMA EffectEnds ==
  ASSUME VitalsInv, NEW s \in {0, sessionId}, VitalsEffect(s, FALSE), UNCHANGED <<issued, replaced>>
  PROVE  VitalsInv'
  <1>1. /\ sessionId' = s /\ running' = FALSE /\ timers' = timers \ {sessionId}
        /\ snapshots' = <<>> /\ latest' = NoSample /\ UNCHANGED <<vBackoff, asking>>
    BY DEF VitalsEffect
  <1>2. VitalsTypes'
    <2>1. snapshots' \in Seq(Samples) /\ Len(snapshots') = 0 BY <1>1
    <2>2. 0 <= SPARKLINE_SAMPLES /\ s \in 0..MaxSessions
      BY MonitorsAssumption DEF VitalsInv, VitalsTypes
    <2> QED BY <1>1, <2>1, <2>2 DEF VitalsInv, VitalsTypes
  <1>3. Started'
    BY <1>1, MonitorsAssumption DEF VitalsInv, VitalsTypes, Started
  <1>4. OfRun' BY <1>1 DEF OfRun
  <1> QED BY <1>2, <1>3, <1>4 DEF VitalsInv

LEMMA RunStarts ==
  ASSUME VitalsInv, handleRun
  PROVE  VitalsInv'
  <1> DEFINE s == issued + 1
  <1>1. /\ issued < MaxSessions /\ issued' = s /\ replaced' = running
        /\ sessionId' = s /\ running' = TRUE /\ timers' = timers \ {sessionId}
        /\ vBackoff' = 1 /\ asking' = asking \cup {[of |-> s, prev |-> latest]}
        /\ UNCHANGED <<snapshots, latest>>
    BY MonitorsAssumption DEF handleRun, VitalsEffect, VitalsInv, VitalsTypes
  <1>2. s \in Sessions /\ s \in 0..MaxSessions
    BY <1>1, MonitorsAssumption DEF VitalsInv, VitalsTypes, Sessions
  <1>3. VitalsTypes' BY <1>1, <1>2, MonitorsAssumption DEF VitalsInv, VitalsTypes
  <1>4. \A r \in asking : r.of \in Nat /\ r.of <= issued /\ r.of # s
    BY <1>1, MonitorsAssumption DEF VitalsInv, VitalsTypes, Started, Sessions
  <1>5. Started'
    <2>1. \A r \in asking' : r.of <= s
      BY <1>1, <1>2, <1>4, MonitorsAssumption DEF VitalsInv, VitalsTypes
    <2>2. \A t \in timers' : t <= s
      BY <1>1, <1>2, MonitorsAssumption DEF VitalsInv, VitalsTypes, Started, Sessions
    <2>3. s <= s /\ s # 0 BY <1>2, MonitorsAssumption DEF Sessions
    <2> HIDE DEF s
    <2> QED BY <1>1, <2>1, <2>2, <2>3 DEF Started
  <1>6. OfRun'
    <2>1. latest' # NoSample => Len(snapshots') > 0 /\ latest' = snapshots'[Len(snapshots')]
      BY <1>1 DEF VitalsInv, OfRun
    <2>2. ASSUME ~replaced' PROVE snapshots = <<>> /\ latest = NoSample
      BY <1>1, <2>2 DEF VitalsInv, OfRun
    <2>3. ASSUME ~replaced', NEW r \in asking', r.of = s PROVE r.prev = NoSample
      <3>1. r = [of |-> s, prev |-> latest] BY <1>1, <1>4, <2>3
      <3> QED BY <3>1, <2>2, <2>3
    <2>4. ASSUME ~replaced'
          PROVE  /\ snapshots' \in Seq(Shown(s))
                 /\ latest' \in Shown(s) \cup {NoSample}
                 /\ \A r \in asking' : r.of = s => r.prev \in Shown(s) \cup {NoSample}
      BY <1>1, <2>2, <2>3, <2>4
    <2> HIDE DEF s
    <2> QED BY <1>1, <2>1, <2>4 DEF OfRun
  <1> QED BY <1>3, <1>5, <1>6 DEF VitalsInv

\* An answer: of a run that is over it changes nothing; of the one that is on it
\* records a measurement of that run, or what the request was sent with.
LEMMA AnswerKeeps ==
  ASSUME VitalsInv, NEW s \in Sessions, VitalsAnswer(s)
  PROVE  VitalsInv'
  <1>1. PICK r \in asking :
          /\ r.of = s /\ asking' = asking \ {r}
          /\ \/ ~Live(s) /\ UNCHANGED <<snapshots, latest, vBackoff, timers>>
             \/ /\ Live(s)
                /\ timers' = timers \cup {s}
                /\ \/ Record(r.of) /\ vBackoff' = 1
                   \/ Record(Fallback(r)) /\ UNCHANGED vBackoff
                   \/ Record(Fallback(r)) /\ vBackoff' = Smaller(vBackoff * 2, POLL_BACKOFF_MAX)
    BY DEF VitalsAnswer
  <1>2. UNCHANGED <<sessionId, running, issued, replaced>> BY DEF VitalsAnswer, console
  <1>3. CASE ~Live(s)
    <2>1. UNCHANGED <<snapshots, latest, vBackoff, timers>> BY <1>1, <1>3
    <2>2. VitalsTypes' BY <1>1, <1>2, <2>1 DEF VitalsInv, VitalsTypes
    <2>3. Started' BY <1>1, <1>2, <2>1 DEF VitalsInv, Started
    <2>4. OfRun' BY <1>1, <1>2, <2>1 DEF VitalsInv, OfRun
    <2> QED BY <2>2, <2>3, <2>4 DEF VitalsInv
  <1>4. CASE Live(s)
    <2>1. running /\ sessionId = s /\ timers' = timers \cup {s} BY <1>1, <1>4 DEF Live
    <2>2. PICK sample \in {r.of, Fallback(r)} : Record(sample) BY <1>1, <1>4
    <2>3. sample \in Samples
      BY <2>2, MonitorsAssumption DEF VitalsInv, VitalsTypes, Fallback, Samples, Sessions
    <2>4. /\ snapshots \in Seq(Samples) /\ Len(snapshots) <= SPARKLINE_SAMPLES
      BY DEF VitalsInv, VitalsTypes
    <2>5. /\ snapshots' \in Seq(Samples) /\ latest' = sample
          /\ Len(snapshots') <= SPARKLINE_SAMPLES
          /\ Len(snapshots') > 0 /\ snapshots'[Len(snapshots')] = sample
      BY <2>2, <2>3, <2>4, RecordKeeps
    <2>6. vBackoff' \in 1..POLL_BACKOFF_MAX
      <3>1. vBackoff \in 1..POLL_BACKOFF_MAX BY DEF VitalsInv, VitalsTypes
      <3>2. Smaller(vBackoff * 2, POLL_BACKOFF_MAX) \in 1..POLL_BACKOFF_MAX
        BY <3>1, SmallerType, MonitorsAssumption
      <3>3. 1 \in 1..POLL_BACKOFF_MAX BY MonitorsAssumption
      <3> QED BY <1>1, <1>4, <3>1, <3>2, <3>3
    <2>7. VitalsTypes'
      BY <1>1, <1>2, <2>1, <2>3, <2>5, <2>6 DEF VitalsInv, VitalsTypes
    <2>8. Started'
      BY <1>1, <1>2, <2>1 DEF VitalsInv, Started
    <2>9. ASSUME ~replaced PROVE sample \in Shown(s)
      BY <1>1, <2>1, <2>2, <2>9 DEF VitalsInv, OfRun, Shown, Fallback
    <2>10. ASSUME ~replaced PROVE snapshots' \in Seq(Shown(s))
      <3>1. snapshots \in Seq(Shown(s)) BY <2>1, <2>10 DEF VitalsInv, OfRun
      <3>2. sample \in Shown(s) BY <2>9, <2>10
      <3> QED BY <2>2, <2>4, <3>1, <3>2, RecordKeeps
    <2>11. OfRun'
      BY <1>1, <1>2, <2>1, <2>5, <2>9, <2>10 DEF VitalsInv, OfRun
    <2> QED BY <2>7, <2>8, <2>11 DEF VitalsInv
  <1> QED BY <1>3, <1>4

LEMMA TimeoutKeeps ==
  ASSUME VitalsInv, NEW s \in Sessions, VitalsTimeout(s)
  PROVE  VitalsInv'
  <1>1. /\ s \in timers /\ timers' = timers \ {s}
        /\ asking' = asking \cup {[of |-> s, prev |-> latest]}
        /\ UNCHANGED <<sessionId, running, issued, replaced, snapshots, latest, vBackoff>>
    BY DEF VitalsTimeout, console
  <1>2. VitalsTypes' BY <1>1 DEF VitalsInv, VitalsTypes
  <1>3. Started' BY <1>1 DEF VitalsInv, Started
  <1>4. OfRun' BY <1>1 DEF VitalsInv, OfRun
  <1> QED BY <1>2, <1>3, <1>4 DEF VitalsInv

LEMMA NextVitals ==
  ASSUME VitalsInv, [Next]_vars
  PROVE  VitalsInv'
  <1>1. CASE UNCHANGED <<console, vitals>>
    BY <1>1 DEF console, vitals, VitalsInv, VitalsTypes, Started, OfRun
  <1>2. CASE handleRun BY <1>2, RunStarts
  <1>3. CASE RunEnds BY <1>3, EffectEnds DEF RunEnds
  <1>4. CASE handleReset BY <1>4, EffectEnds DEF handleReset
  <1>5. ASSUME NEW s \in Sessions, VitalsAnswer(s) PROVE VitalsInv' BY <1>5, AnswerKeeps
  <1>6. ASSUME NEW s \in Sessions, VitalsTimeout(s) PROVE VitalsInv' BY <1>6, TimeoutKeeps
  <1> QED
    BY <1>1, <1>2, <1>3, <1>4, <1>5, <1>6
       DEF Next, vars, ReachabilityChanges, Second, CountdownTick, PollTimeout, HealthAnswer

-----------------------------------------------------------------------------
LEMMA VitalsSuffice == VitalsInv => VitalsOfRun
  <1> SUFFICES ASSUME VitalsInv PROVE VitalsOfRun OBVIOUS
  <1>1. ~running => Panel.waiting BY DEF VitalsInv, OfRun, Panel
  <1>2. running /\ ~replaced => ToSet(Panel.series) \subseteq {0, sessionId}
    <2> SUFFICES ASSUME running, ~replaced PROVE ToSet(Panel.series) \subseteq {0, sessionId}
      OBVIOUS
    <2>1. snapshots \in Seq({0, sessionId}) BY DEF VitalsInv, OfRun, Shown
    <2>2. Panel.series \in {<<>>, snapshots} BY DEF Panel
    <2>3. Panel.series \in Seq({0, sessionId})
      <3>1. <<>> \in Seq({0, sessionId}) OBVIOUS
      <3> QED BY <2>1, <2>2, <3>1
    <2> QED BY <2>3 DEF ToSet
  <1>3. ~Panel.waiting => Panel.value = Last(Panel.series)
    BY DEF VitalsInv, OfRun, Panel, Last
  <1> QED BY <1>1, <1>2, <1>3 DEF VitalsOfRun

\* The page's monitors stay well typed: the interval of the dot between its bounds,
\* the sparkline within its limit, and the two never touch each other's state.
THEOREM TypeCorrect == Spec => []TypeOK
  <1>1. Init => UpOK BY DEF Init, UpOK
  <1>2. UpOK /\ [Next]_vars => UpOK'
    BY DEF UpOK, Next, vars, ReachabilityChanges, Second, CountdownTick, PollTimeout, HealthAnswer,
           handleRun, RunEnds, handleReset, VitalsAnswer, VitalsTimeout
  <1>3. UpOK /\ DotInv /\ VitalsInv => TypeOK
    BY DEF UpOK, DotInv, DotOK, VitalsInv, VitalsTypes, TypeOK
  <1>4. Spec => []UpOK BY <1>1, <1>2, PTL DEF Spec
  <1>5. Spec => []DotInv BY InitDot, NextDot, PTL DEF Spec
  <1>6. Spec => []VitalsInv BY InitVitals, NextVitals, PTL DEF Spec
  <1> QED BY <1>3, <1>4, <1>5, <1>6, PTL

\* The number in "retrying in N s" is the time to the next attempt, however the
\* interval, the timeout and the answer fall together, and is gone when online.
THEOREM CountdownHolds == Spec => []CountdownTracksRetry
  <1>1. DotInv => CountdownTracksRetry BY DEF DotInv, CountdownTracksRetry, tipText
  <1> QED BY <1>1, InitDot, NextDot, PTL DEF Spec

\* The vitals on display, their sparkline and the value that stands in for a
\* failed request are of the run that is on, unless it replaced another.
THEOREM VitalsOfRunHolds == Spec => []VitalsOfRun
  BY InitVitals, NextVitals, VitalsSuffice, PTL DEF Spec
=============================================================================
