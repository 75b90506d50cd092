----------------------------- MODULE WriteBehind -----------------------------
(***************************************************************************)
(* The VFS write-behind service (vfs/writebehind.go) and the shutdown that *)
(* main runs it through (cmd/server/main.go).  Three goroutines share the  *)
(* pending batch: ingest, the flush loop, and main inside Close.  A        *)
(* snapshot is one entry, numbered in the order the channel accepted it;   *)
(* all entries are of one session and path, the only ones reads compare.   *)
(***************************************************************************)
EXTENDS Naturals, Sequences, FiniteSets

CONSTANTS
  ChanCap,      \* capacity of vfsCh
  MaxSent,      \* bound: snapshots accepted
  MaxFailures,  \* bound: database calls that fail
  MaxClock      \* bound: the database's clock, in seconds

ASSUME WriteBehindAssumption ==
  /\ ChanCap \in Nat \ {0}
  /\ MaxSent \in Nat /\ MaxFailures \in Nat /\ MaxClock \in Nat

VARIABLES
  sent,       \* number of snapshots accepted by the channel
  ch,         \* s.ch
  pending,    \* s.pending, guarded by s.mu
  fpc,        \* how far each caller of Flush is
  batch,      \* the batch each caller took
  stamp,      \* created_at of the rows of an open transaction
  db,         \* vfs_snapshots: the committed rows in rowid order
  lost,       \* history: snapshots that can no longer be stored
  failures,   \* history: failed database calls
  clock,      \* datetime('now'), in whole seconds
  stage       \* how far main's shutdown is

flushVars == <<fpc, batch, stamp>>
vars == <<sent, ch, pending, fpc, batch, stamp, db, lost, failures, clock, stage>>

\* The callers of Flush: the flush loop and Close.
Flushers == {"loop", "close"}
FlushPCs == {"idle", "taking", "begin", "insert", "commit", "returned", "ended"}
Stages   == {"serving", "closing", "closed", "exited"}

Ids(s) == {s[i] : i \in 1 .. Len(s)}
Stored == {db[i].id : i \in 1 .. Len(db)}
Held   == Ids(ch) \cup Ids(pending) \cup Ids(batch["loop"]) \cup Ids(batch["close"])

TypeOK ==
  /\ sent \in Nat
  /\ ch \in Seq(Nat) /\ Len(ch) <= ChanCap
  /\ pending \in Seq(Nat)
  /\ fpc \in [Flushers -> FlushPCs]
  /\ batch \in [Flushers -> Seq(Nat)]
  /\ stamp \in [Flushers -> Nat]
  /\ db \in Seq([id : Nat, at : Nat])
  /\ lost \subseteq Nat
  /\ failures \in Nat
  /\ clock \in Nat
  /\ stage \in Stages

Init ==
  /\ sent = 0
  /\ ch = <<>>
  /\ pending = <<>>
  /\ fpc = [f \in Flushers |-> "idle"]
  /\ batch = [f \in Flushers |-> <<>>]
  /\ stamp = [f \in Flushers |-> 0]
  /\ db = <<>>
  /\ lost = {}
  /\ failures = 0
  /\ clock = 0
  /\ stage = "serving"

-----------------------------------------------------------------------------
(* The channel and the ingest goroutine. *)

\* Manager.Execute's non-blocking send.  A send to a full channel is dropped by
\* the manager and changes nothing here.  Handlers that outlive the server's
\* Shutdown (WebSockets, or its 20 s timeout) still send; a send after
\* close(vfsCh) panics, which ends the process as Exit does.
Send ==
  /\ stage \in {"serving", "closing"}
  /\ sent < MaxSent
  /\ Len(ch) < ChanCap
  /\ sent' = sent + 1
  /\ ch' = Append(ch, sent + 1)
  /\ UNCHANGED <<pending, flushVars, db, lost, failures, clock, stage>>

Ingest ==
  /\ stage # "exited"
  /\ ch # <<>>
  /\ ch' = Tail(ch)
  /\ pending' = Append(pending, Head(ch))
  /\ UNCHANGED <<sent, flushVars, db, lost, failures, clock, stage>>

-----------------------------------------------------------------------------
(* Flush. *)

\* A database call may fail at any time, at most MaxFailures times.
DBFails ==
  /\ failures < MaxFailures
  /\ failures' = failures + 1

\* The caller's continuation after Flush returns: the loop's select, or the
\* rest of Close.
Returned(f) == IF f = "loop" THEN "idle" ELSE "returned"

FlushReturns(f) ==
  /\ fpc' = [fpc EXCEPT ![f] = Returned(f)]
  /\ batch' = [batch EXCEPT ![f] = <<>>]
  /\ UNCHANGED stamp

Entering(f) ==
  /\ stage # "exited"
  /\ fpc[f] = IF f = "loop" THEN "idle" ELSE "taking"

\* The first critical section takes all that is pending.
FlushTake(f) ==
  /\ Entering(f)
  /\ pending # <<>>
  /\ batch' = [batch EXCEPT ![f] = pending]
  /\ pending' = <<>>
  /\ fpc' = [fpc EXCEPT ![f] = "begin"]
  /\ UNCHANGED <<stamp, sent, ch, db, lost, failures, clock, stage>>

\* Flush on an empty batch returns at once (in the loop: no step at all).
FlushEmpty ==
  /\ Entering("close")
  /\ pending = <<>>
  /\ fpc' = [fpc EXCEPT !["close"] = "returned"]
  /\ UNCHANGED <<sent, ch, pending, batch, stamp, db, lost, failures, clock, stage>>

\* Mutant: a failed BeginTx drops the batch.
FlushBeginDrops(f) ==
  /\ stage # "exited"
  /\ fpc[f] = "begin"
  /\ \/ /\ stage # "closed"
        /\ fpc' = [fpc EXCEPT ![f] = "insert"]
        /\ UNCHANGED <<batch, stamp, pending, failures>>
     \/ /\ IF stage = "closed" THEN UNCHANGED failures ELSE DBFails
        /\ UNCHANGED pending
        /\ FlushReturns(f)
  /\ UNCHANGED <<sent, ch, db, lost, clock, stage>>

\* BeginTx.  On failure, and always once the database is closed, the batch goes
\* back in front of what was ingested meanwhile.
FlushBegin(f) ==
  /\ stage # "exited"
  /\ fpc[f] = "begin"
  /\ \/ /\ stage # "closed"
        /\ fpc' = [fpc EXCEPT ![f] = "insert"]
        /\ UNCHANGED <<batch, stamp, pending, failures>>
     \/ /\ IF stage = "closed" THEN UNCHANGED failures ELSE DBFails
        /\ pending' = batch[f] \o pending
        /\ FlushReturns(f)
  /\ UNCHANGED <<sent, ch, db, lost, clock, stage>>

\* PrepareContext and the inserts.  A failure rolls the transaction back and
\* returns: nothing puts the batch back.
FlushInsert(f) ==
  /\ stage # "exited"
  /\ fpc[f] = "insert"
  /\ \/ /\ fpc' = [fpc EXCEPT ![f] = "commit"]
        /\ stamp' = [stamp EXCEPT ![f] = clock]
        /\ UNCHANGED <<batch, lost, failures>>
     \/ /\ DBFails
        /\ lost' = lost \cup Ids(batch[f])
        /\ FlushReturns(f)
  /\ UNCHANGED <<sent, ch, pending, db, clock, stage>>

Rows(f) == [i \in 1 .. Len(batch[f]) |-> [id |-> batch[f][i], at |-> stamp[f]]]

\* Mutant: a failed commit puts the batch back.
FlushCommitRetries(f) ==
  /\ stage # "exited"
  /\ fpc[f] = "commit"
  /\ \/ /\ db' = db \o Rows(f)
        /\ UNCHANGED <<pending, failures>>
     \/ /\ DBFails
        /\ db' \in {db, db \o Rows(f)}
        /\ pending' = batch[f] \o pending
  /\ FlushReturns(f)
  /\ UNCHANGED <<lost, sent, ch, clock, stage>>

\* Commit.  A failed commit may still have been applied by the server.
FlushCommit(f) ==
  /\ stage # "exited"
  /\ fpc[f] = "commit"
  /\ \/ /\ db' = db \o Rows(f)
        /\ UNCHANGED <<lost, failures>>
     \/ /\ DBFails
        /\ db' = db \o Rows(f)
        /\ UNCHANGED lost
     \/ /\ DBFails
        /\ lost' = lost \cup Ids(batch[f])
        /\ UNCHANGED db
  /\ FlushReturns(f)
  /\ UNCHANGED <<sent, ch, pending, clock, stage>>

Flush(f) ==
  FlushTake(f) \/ FlushBegin(f) \/ FlushInsert(f) \/ FlushCommit(f)

-----------------------------------------------------------------------------
(* Shutdown. *)

\* main has stopped the server; Close stops the loop and calls Flush itself,
\* whether or not the loop is inside Flush.
Close ==
  /\ stage = "serving"
  /\ stage' = "closing"
  /\ fpc' = [fpc EXCEPT !["close"] = "taking"]
  /\ UNCHANGED <<sent, ch, pending, batch, stamp, db, lost, failures, clock>>

\* The loop's select sees stopCh, though a tick that is ready may win.
LoopEnds ==
  /\ stage \in {"closing", "closed"}
  /\ fpc["loop"] = "idle"
  /\ fpc' = [fpc EXCEPT !["loop"] = "ended"]
  /\ UNCHANGED <<sent, ch, pending, batch, stamp, db, lost, failures, clock, stage>>

\* db.Close, which does not wait for an open transaction, then close(vfsCh).
CloseDB ==
  /\ stage = "closing"
  /\ fpc["close"] = "returned"
  /\ stage' = "closed"
  /\ UNCHANGED <<sent, ch, pending, flushVars, db, lost, failures, clock>>

\* main returns: whatever is still in memory is gone.
Exit ==
  /\ stage = "closed"
  /\ stage' = "exited"
  /\ lost' = lost \cup Held
  /\ ch' = <<>>
  /\ pending' = <<>>
  /\ batch' = [f \in Flushers |-> <<>>]
  /\ UNCHANGED <<sent, fpc, stamp, db, failures, clock>>

Tick ==
  /\ clock < MaxClock
  /\ clock' = clock + 1
  /\ UNCHANGED <<sent, ch, pending, flushVars, db, lost, failures, stage>>

Exited ==
  /\ stage = "exited"
  /\ UNCHANGED vars

-----------------------------------------------------------------------------
Next ==
  \/ Send \/ Ingest \/ FlushEmpty
  \/ \E f \in Flushers : Flush(f)
  \/ Close \/ LoopEnds \/ CloseDB \/ Exit \/ Tick \/ Exited

Spec == Init /\ [][Next]_vars

\* Goroutines that can run do run; the ticker keeps firing.  Nothing makes the
\* operator stop the server, a client produce a snapshot, or the database
\* answer: the loop calls Flush with context.Background(), which has no deadline.
FairSpec == Spec /\ WF_vars(Ingest) /\ WF_vars(FlushTake("loop"))

-----------------------------------------------------------------------------
(* The read path. *)

\* Mutant: ORDER BY created_at without DESC.
QueryFileAscending ==
  {db[i].id : i \in {j \in 1 .. Len(db) :
                       \A k \in 1 .. Len(db) : db[j].at <= db[k].at}}

\* QueryFile: ORDER BY created_at DESC LIMIT 1 may return any of the rows with
\* the largest stamp.
QueryFile ==
  {db[i].id : i \in {j \in 1 .. Len(db) :
                       \A k \in 1 .. Len(db) : db[k].at <= db[j].at}}

-----------------------------------------------------------------------------
(* Properties. *)

Disjoint(S, T) == S \cap T = {}
NoRepeat(s) == \A i, j \in 1 .. Len(s) : s[i] = s[j] => i = j

\* Nothing is stored twice, although batches are put back, commits fail after
\* they were applied, and Close flushes beside the loop.
StoredOnce == \A i, j \in 1 .. Len(db) : db[i].id = db[j].id => i = j

\* Nothing vanishes silently: an accepted snapshot is in memory, in the
\* database, or was in a batch the database refused (or the process ended).
NothingVanishes == 1 .. sent = Held \cup Stored \cup lost

\* Every snapshot is accounted for, whatever BeginTx, the inserts, the commit
\* and the two callers of Flush do: stored at most once, and never just gone.
SnapshotsAccounted == StoredOnce /\ NothingVanishes

\* A snapshot is in one place at a time, once, and only a flush in progress
\* holds a batch.
OnePlaceEach ==
  /\ NoRepeat(ch) /\ NoRepeat(pending) /\ \A f \in Flushers : NoRepeat(batch[f])
  /\ Disjoint(Ids(ch), Ids(pending)) /\ Disjoint(Ids(batch["loop"]), Ids(batch["close"]))
  /\ \A f \in Flushers : /\ Disjoint(Ids(batch[f]), Ids(ch) \cup Ids(pending))
                         /\ fpc[f] \notin {"begin", "insert", "commit"}
                              => batch[f] = <<>>
  /\ Disjoint(Stored, lost) /\ Disjoint(Held, Stored \cup lost)

\* While only the loop flushes, a read never goes back by more than the stamps'
\* granularity: what QueryFile may return was accepted after everything stored
\* in an earlier second.
ReadsMoveForward ==
  stage = "serving"
    => \A x \in QueryFile, i, j \in 1 .. Len(db) :
         db[i].at < db[j].at => db[i].id < x

\* The service settles every snapshot once, for good (DurableStore).
Durable == INSTANCE DurableStore
             WITH accepted <- sent, stored <- Stored, forsaken <- lost
RefinesDurableStore == Durable!Spec

\* No call of the loop to the database hangs for good.
CallsReturn == []<>(fpc["loop"] \notin {"begin", "insert", "commit"})

\* A snapshot the channel accepted is written within finitely many attempts,
\* or refused, while the server runs and the database answers the loop in the
\* end, with success or failure.
EventuallySettled ==
  CallsReturn =>
    \A x \in 1 .. MaxSent :
      x <= sent ~> (x \in Stored \cup lost \/ stage # "serving")

\* What the repository says and the code does not do; violated.

\* Flush: "the mutex ensures [that] ... no entries are lost".
FlushLosesNothing == stage # "exited" => lost = {}

=============================================================================
