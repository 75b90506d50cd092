----------------------------- MODULE Monitors -----------------------------
(***************************************************************************)
(* The two monitors of the page, which poll the orchestrator on their own: *)
(* the health dot (OrchestratorStatus.tsx), with the countdown to its next *)
(* attempt, and the vitals of the running session (AgentVitals.tsx), with  *)
(* the console that starts, stops and replaces runs.                       *)
(*                                                                         *)
(* Time counts for the countdown only.  It passes in seconds, and what is  *)
(* due runs before the next second does, in any order: the interval of the *)
(* countdown and the timeout of the poll are due together at the end.  The *)
(* timers of the vitals just fire.  A run has a session identifier of its  *)
(* own, so an effect of the vitals is named by its session.                *)
(***************************************************************************)
EXTENDS Integers, Sequences, FiniteSets, SequencesExt

CONSTANTS
  POLL_BASE, POLL_MAX,    \* POLL_BASE_MS and POLL_MAX_MS of the dot, in seconds
  POLL_BACKOFF_MAX,       \* POLL_BACKOFF_MAX_MS of the vitals, in POLL_INTERVAL_MS
  SPARKLINE_SAMPLES,
  MaxSessions             \* sessions the console starts (a bound of the model)

ASSUME MonitorsAssumption ==
  /\ POLL_BASE \in Nat \ {0} /\ POLL_MAX \in Nat /\ POLL_BASE <= POLL_MAX
  /\ POLL_BACKOFF_MAX \in Nat \ {0}
  /\ SPARKLINE_SAMPLES \in Nat \ {0}
  /\ MaxSessions \in Nat

VARIABLES
  up,           \* the orchestrator can be reached
  \* the dot
  status, backoff,
  retryIn,      \* the number on display (0: none); the interval runs while there is one
  due,          \* the interval has a callback to run
  left,         \* seconds until the timeout, or Asking while a request is out
  \* the console
  sessionId, running, issued,
  replaced,     \* history: a run was replaced by another without a stop
  \* the vitals
  snapshots,    \* a sample is the session it was measured in, 0 if made up
  latest,       \* latestRef, or NoSample
  vBackoff,
  asking,       \* sessions with a request out, and the latest each was sent with
  timers        \* sessions with an armed timer

dot     == <<status, backoff, retryIn, due, left>>
console == <<sessionId, running, issued, replaced>>
vitals  == <<snapshots, latest, vBackoff, asking, timers>>
vars    == <<up, dot, console, vitals>>

Asking   == -1
NoSample == -1
Sessions == 1..MaxSessions
Samples  == 0..MaxSessions

TypeOK ==
  /\ up \in BOOLEAN
  /\ status \in {"checking", "online", "offline"} /\ backoff \in POLL_BASE..POLL_MAX
  /\ retryIn \in 0..POLL_MAX /\ due \in BOOLEAN /\ left \in Asking..POLL_MAX
  /\ sessionId \in 0..MaxSessions /\ running \in BOOLEAN /\ issued \in 0..MaxSessions
  /\ replaced \in BOOLEAN
  /\ snapshots \in Seq(Samples) /\ Len(snapshots) <= SPARKLINE_SAMPLES
  /\ latest \in Samples \cup {NoSample}
  /\ vBackoff \in 1..POLL_BACKOFF_MAX
  /\ asking \subseteq [of : Sessions, prev : Samples \cup {NoSample}]
  /\ timers \subseteq Sessions

Init ==
  /\ up \in BOOLEAN
  /\ status = "checking" /\ backoff = POLL_BASE /\ retryIn = 0 /\ due = FALSE /\ left = Asking
  /\ sessionId = 0 /\ running = FALSE /\ issued = 0 /\ replaced = FALSE
  /\ snapshots = <<>> /\ latest = NoSample /\ vBackoff = 1 /\ asking = {} /\ timers = {}

\* The orchestrator, or the way to it, fails or comes back.
ReachabilityChanges == up' = ~up /\ UNCHANGED <<dot, console, vitals>>

Smaller(a, b) == IF a < b THEN a ELSE b

-----------------------------------------------------------------------------
(***************************************************************************)
(* The dot.                                                                *)
(***************************************************************************)
\* A second passes when nothing is due.
Second ==
  /\ left > 0 /\ ~due
  /\ left' = left - 1
  /\ due' = (retryIn > 0)
  /\ UNCHANGED <<up, status, backoff, retryIn, console, vitals>>

\* The callback of the interval; it stops itself at the end.
CountdownTick ==
  /\ due
  /\ due' = FALSE
  /\ retryIn' = retryIn - 1
  /\ UNCHANGED <<up, status, backoff, left, console, vitals>>

\* Mutant: once the orchestrator was reached, nobody asks again.
PollTimeoutOnce ==
  /\ left = 0 /\ status # "online"
  /\ left' = Asking
  /\ UNCHANGED <<up, status, backoff, retryIn, due, console, vitals>>

\* The timeout calls poll, which asks.
PollTimeout ==
  /\ left = 0
  /\ left' = Asking
  /\ UNCHANGED <<up, status, backoff, retryIn, due, console, vitals>>

\* Mutant: the countdown starts from the interval of the attempt before.
HealthAnswerCountsOld ==
  /\ left = Asking
  /\ due' = FALSE
  /\ \/ /\ up
        /\ status' = "online" /\ backoff' = POLL_BASE
        /\ retryIn' = 0 /\ left' = POLL_BASE
     \/ /\ ~up
        /\ status' = "offline" /\ backoff' = Smaller(backoff * 2, POLL_MAX)
        /\ retryIn' = backoff /\ left' = backoff'
  /\ UNCHANGED <<up, console, vitals>>

\* poll after its await: a countdown that still runs is cleared in both cases.
HealthAnswer ==
  /\ left = Asking
  /\ due' = FALSE
  /\ \/ /\ up
        /\ status' = "online" /\ backoff' = POLL_BASE
        /\ retryIn' = 0 /\ left' = POLL_BASE
     \/ /\ ~up
        /\ status' = "offline" /\ backoff' = Smaller(backoff * 2, POLL_MAX)
        /\ retryIn' = backoff' /\ left' = backoff'
  /\ UNCHANGED <<up, console, vitals>>

-----------------------------------------------------------------------------
(***************************************************************************)
(* The vitals.  Their effect depends on running and on the session.        *)
(***************************************************************************)
\* The cleanup cancels the old loop.  Without a run the samples are cleared; a
\* run starts a loop, with whatever samples there are.
VitalsEffect(s, r) ==
  /\ sessionId' = s /\ running' = r
  /\ timers' = timers \ {sessionId}
  /\ \/ /\ ~r \/ s = 0
        /\ snapshots' = <<>> /\ latest' = NoSample
        /\ UNCHANGED <<vBackoff, asking>>
     \/ /\ r /\ s # 0
        /\ vBackoff' = 1
        /\ asking' = asking \cup {[of |-> s, prev |-> latest]}
        /\ UNCHANGED <<snapshots, latest>>

\* handleRun, and handleCompiled, which does not wait for the end of a run.
handleRun ==
  /\ issued < MaxSessions
  /\ issued' = issued + 1
  /\ replaced' = running
  /\ VitalsEffect(issued + 1, TRUE)
  /\ UNCHANGED <<up, dot>>

\* handleStop, or onEnd.
RunEnds ==
  /\ running
  /\ VitalsEffect(sessionId, FALSE)
  /\ UNCHANGED <<up, dot, issued, replaced>>

\* handleReset and handleReconnect.
handleReset ==
  /\ sessionId # 0
  /\ VitalsEffect(0, FALSE)
  /\ UNCHANGED <<up, dot, issued, replaced>>

\* push, and shift beyond the limit.
Record(sample) ==
  /\ latest' = sample
  /\ snapshots' = LET all == Append(snapshots, sample)
                  IN  IF Len(all) > SPARKLINE_SAMPLES THEN Tail(all) ELSE all

\* The value shown for a failed request: the one before it was sent, or zeros.
Fallback(r) == IF r.prev = NoSample THEN 0 ELSE r.prev

Live(s) == running /\ sessionId = s

\* Mutant: an answer is recorded whether or not its run is still on.
VitalsAnswerLate(s) ==
  /\ \E r \in asking :
       /\ r.of = s
       /\ asking' = asking \ {r}
       /\ timers' = timers \cup {s}
       /\ \/ up /\ Record(r.of) /\ vBackoff' = 1
          \/ up /\ Record(Fallback(r)) /\ UNCHANGED vBackoff
          \/ ~up /\ Record(Fallback(r)) /\ vBackoff' = Smaller(vBackoff * 2, POLL_BACKOFF_MAX)
  /\ UNCHANGED <<up, dot, console>>

\* poll after its await: nothing if it was cancelled; else a measurement, an
\* error of the API, or none at all.
VitalsAnswer(s) ==
  /\ \E r \in asking :
       /\ r.of = s
       /\ asking' = asking \ {r}
       /\ \/ ~Live(s) /\ UNCHANGED <<snapshots, latest, vBackoff, timers>>
          \/ /\ Live(s)
             /\ timers' = timers \cup {s}
             /\ \/ up /\ Record(r.of) /\ vBackoff' = 1
                \/ up /\ Record(Fallback(r)) /\ UNCHANGED vBackoff
                \/ /\ ~up
                   /\ Record(Fallback(r)) /\ vBackoff' = Smaller(vBackoff * 2, POLL_BACKOFF_MAX)
  /\ UNCHANGED <<up, dot, console>>

VitalsTimeout(s) ==
  /\ s \in timers
  /\ timers' = timers \ {s}
  /\ asking' = asking \cup {[of |-> s, prev |-> latest]}
  /\ UNCHANGED <<up, dot, console, snapshots, latest, vBackoff>>

-----------------------------------------------------------------------------
\* What the two show.
tipText ==
  CASE status = "online"                -> "reachable"
    [] status = "offline"               -> IF retryIn > 0 THEN "retrying in" ELSE "retrying"
    [] OTHER                            -> "checking"

Panel ==
  IF latest = NoSample THEN [waiting |-> TRUE, series |-> <<>>]
  ELSE [waiting |-> FALSE, value |-> latest, series |-> snapshots]

Next ==
  \/ ReachabilityChanges
  \/ Second \/ CountdownTick \/ PollTimeout \/ HealthAnswer
  \/ handleRun \/ RunEnds \/ handleReset
  \/ \E s \in Sessions : VitalsAnswer(s) \/ VitalsTimeout(s)

Spec == Init /\ [][Next]_vars

\* Time passes, callbacks that are due run, and requests are answered.
FairSpec ==
  /\ Spec
  /\ WF_vars(Second) /\ WF_vars(CountdownTick) /\ WF_vars(PollTimeout) /\ WF_vars(HealthAnswer)

-----------------------------------------------------------------------------
\* "Retrying in N s" is true: there is an attempt in N seconds (a second that has
\* just passed is still on the display until its callback has run), and there is
\* no number once the orchestrator was reached.
CountdownTracksRetry ==
  /\ tipText = "retrying in" => retryIn = (IF left = Asking THEN 0 ELSE left) + (IF due THEN 1 ELSE 0)
  /\ status # "offline" => retryIn = 0

\* The dot gets there: it turns green for good if the orchestrator stays
\* reachable from some time on, and amber if it stays away.
DotSettles ==
  /\ <>[]up => <>[](tipText = "reachable")
  /\ <>[]~up => <>[](status = "offline")

\* The vitals on display are of the run that is on: without a run there are none,
\* and neither the samples, nor the value repeated after a failed request, nor an
\* answer that was under way are of a run before.  The one exception is a run
\* that replaced another.
VitalsOfRun ==
  /\ ~running => Panel.waiting
  /\ running /\ ~replaced => ToSet(Panel.series) \subseteq {0, sessionId}
  /\ ~Panel.waiting => Panel.value = Last(Panel.series)
=============================================================================
