---------------------------- MODULE TokenBucket -----------------------------
(***************************************************************************)
(* The Redis token bucket of one client key (ratelimit/tokenbucket.go).    *)
(* Allow reads the orchestrator's clock, then runs the Lua script with     *)
(* that reading as an argument: the script is atomic, the pair is not.     *)
(* Time is counted in ticks, Hz of them a second; Redis expires the key by *)
(* its own clock, which the model takes to agree with the orchestrator's.  *)
(***************************************************************************)
EXTENDS Integers

CONSTANTS
  Handlers,   \* request handlers of the orchestrator, each calling Allow again and again
  Rate,       \* tb.rate: tokens per second
  BucketCapacity, \* tb.capacity
  Hz,         \* ticks per second
  Slack,      \* the seconds Allow adds to the key's lifetime (10 in the code)
  MaxTime     \* bound on the clock

ASSUME BucketAssumption ==
  /\ Rate \in Nat \ {0} /\ BucketCapacity \in Nat \ {0} /\ Hz \in Nat \ {0}
  /\ Slack \in Nat \ {0}
  /\ MaxTime \in Nat

VARIABLES
  now,        \* the clock, in ticks
  reading,    \* the clock reading a handler is about to send, NoReading if none
  exists,     \* the key exists in Redis
  tokens, last, \* its fields
  expiry,     \* when Redis expires the key
  granted,    \* history: tokens handed out
  rewound     \* history: ticks by which late scripts set the key back

bucketVars == <<now, reading, exists, tokens, last, expiry, granted, rewound>>

NoReading == -1

BucketTypeOK ==
  /\ now \in Nat
  /\ reading \in [Handlers -> Nat \cup {NoReading}]
  /\ exists \in BOOLEAN
  /\ tokens \in 0 .. BucketCapacity
  /\ last \in Nat
  /\ expiry \in Nat
  /\ granted \in Nat
  /\ rewound \in Nat

BucketInit ==
  /\ now = 0
  /\ reading = [h \in Handlers |-> NoReading]
  /\ exists = FALSE
  /\ tokens = BucketCapacity
  /\ last = 0
  /\ expiry = 0
  /\ granted = 0
  /\ rewound = 0

\* ttlSec := capacity/rate*2 + 10, an integer division, in ticks.
TTL == ((BucketCapacity \div Rate) * 2 + Slack) * Hz

\* Mutant: the refill is rounded up.
RefillRoundedUp(t) == IF t > last THEN ((t - last) * Rate + Hz - 1) \div Hz ELSE 0

\* Mutant: only whole seconds count, and each is a tick too long.
RefillBySeconds(t) == IF t > last THEN ((t - last) \div (Hz + 1)) * Rate ELSE 0

\* math.floor(math.max(0, now - last) * rate)
Refill(t) == IF t > last THEN ((t - last) * Rate) \div Hz ELSE 0

\* tokens after the refill; a missing key is a full bucket.
Available(t) ==
  IF ~exists \/ tokens + Refill(t) > BucketCapacity
    THEN BucketCapacity
    ELSE tokens + Refill(t)

\* Allow takes its clock reading.
ReadClock(h) ==
  /\ reading[h] = NoReading
  /\ reading' = [reading EXCEPT ![h] = now]
  /\ UNCHANGED <<now, exists, tokens, last, expiry, granted, rewound>>

Grants(h) == Available(reading[h]) >= 1

\* The moment up to which the key has been credited: its last refill, or its
\* expiry, which makes it full.
CreditedUpTo == IF exists THEN last ELSE expiry

\* The script runs: refill, take a token if there is one, store, renew the TTL.
RunScript(h) ==
  /\ reading[h] # NoReading
  /\ exists' = TRUE
  /\ last' = reading[h]
  /\ expiry' = now + TTL
  /\ reading' = [reading EXCEPT ![h] = NoReading]
  /\ \/ /\ Grants(h)
        /\ tokens' = Available(reading[h]) - 1
        /\ granted' = granted + 1
     \/ /\ ~Grants(h)
        /\ tokens' = Available(reading[h])
        /\ UNCHANGED granted
  /\ rewound' = IF reading[h] < CreditedUpTo
                  THEN rewound + (CreditedUpTo - reading[h]) ELSE rewound
  /\ UNCHANGED now

\* Redis is unreachable: the script does not run and the request is let through.
FailOpen(h) ==
  /\ reading[h] # NoReading
  /\ reading' = [reading EXCEPT ![h] = NoReading]
  /\ UNCHANGED <<now, exists, tokens, last, expiry, granted, rewound>>

\* Redis drops the key.
Expire ==
  /\ exists
  /\ now >= expiry
  /\ exists' = FALSE
  /\ UNCHANGED <<now, reading, tokens, last, expiry, granted, rewound>>

Tick ==
  /\ now < MaxTime
  /\ now' = now + 1
  /\ UNCHANGED <<reading, exists, tokens, last, expiry, granted, rewound>>

BucketNext ==
  \/ \E h \in Handlers : ReadClock(h) \/ RunScript(h) \/ FailOpen(h)
  \/ Expire \/ Tick

BucketSpec == BucketInit /\ [][BucketNext]_bucketVars

-----------------------------------------------------------------------------
(* Properties. *)

\* "Tokens refill at `rate` tokens/second", in a bucket of `capacity`: up to
\* any moment the bucket has handed out at most its capacity and what the rate
\* allows, across expiries of the key and for any number of handlers.  A script
\* that runs with a reading older than the key's sets the key back, and costs
\* the rate for that time once more but nothing else.
GrantsBounded == granted * Hz <= BucketCapacity * Hz + (now + rewound) * Rate

\* A client that waits the "Retry-After: 1" the middleware sends gets a token:
\* a script that runs a second or more after the previous one grants.
RetryAfterSuffices ==
  [][\A h \in Handlers :
       reading[h] - last >= Hz /\ reading'[h] # reading[h] /\ last' # last
         => granted' = granted + 1]_bucketVars

=============================================================================
