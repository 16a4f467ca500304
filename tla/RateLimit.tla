------------------------------ MODULE RateLimit ------------------------------
(***************************************************************************)
(* server.RateLimiter: a map of token buckets behind one mutex, filled by  *)
(* the requests of registration and login and emptied of idle clients by a *)
(* janitor.  One run of the process; a restart begins anew.                *)
(*                                                                         *)
(* allow reads the clock twice while it holds the mutex, for lastSeen and  *)
(* inside rate.Limiter.Allow; the janitor reads it before it takes the     *)
(* mutex.  Time may pass between any two of these.                         *)
(***************************************************************************)
EXTENDS BucketData

CONSTANTS
  TTL,         \* visitorTTL, in ticks
  Period,      \* the janitor's ticker, in ticks
  MaxStall,    \* bound: ticks for which allow is suspended inside the mutex
  Absent,      \* no entry in the map
  Nobody,      \* the mutex is free
  NoTime       \* the janitor has no sweep to do

ASSUME SpansAreNat == TTL \in Nat /\ Period \in Nat \ {0} /\ MaxStall \in Nat

Visitor == [tokens: 0 .. Full, last: Times, lastSeen: Times]

ASSUME NullsAreNotValues ==
  /\ Absent \notin Visitor
  /\ Nobody \notin Clients
  /\ NoTime \notin Times

VARIABLES
  visitors,    \* rl.visitors
  inside,      \* the client whose allow holds rl.mu
  due,         \* clock ticks until the ticker sends next
  tick,        \* the ticker's channel holds a tick; it has room for one
  sweepAt,     \* the janitor waits for rl.mu to sweep as of this time
  clock,
  spent        \* requests let through, see Counted

vars == <<visitors, inside, due, tick, sweepAt, clock, spent>>

TypeOK ==
  /\ visitors \in [Clients -> Visitor \cup {Absent}]
  /\ inside \in Clients \cup {Nobody}
  /\ due \in 1 .. Period
  /\ tick \in BOOLEAN
  /\ sweepAt \in Times \cup {NoTime}
  /\ clock \in Times
  /\ spent \in [Clients -> [Times -> Nat]]

Init ==
  /\ visitors = [c \in Clients |-> Absent]
  /\ inside = Nobody
  /\ due = Period
  /\ tick = FALSE
  /\ sweepAt = NoTime
  /\ clock = 0
  /\ spent = [c \in Clients |-> [s \in Times |-> 0]]

-----------------------------------------------------------------------------

Known(c) == visitors[c] # Absent

\* rate.NewLimiter: a full bucket.
NewVisitor == [tokens |-> Full, last |-> clock, lastSeen |-> clock]

\* Mistakes: lastSeen is set only where the visitor is made, or a visitor is
\* made for every request.
LookupOnce(c) ==
  /\ inside = Nobody
  /\ inside' = c
  /\ visitors' = [visitors EXCEPT ![c] = IF Known(c) THEN @ ELSE NewVisitor]
  /\ UNCHANGED <<due, tick, sweepAt, clock, spent>>

LookupFresh(c) ==
  /\ inside = Nobody
  /\ inside' = c
  /\ visitors' = [visitors EXCEPT ![c] = NewVisitor]
  /\ UNCHANGED <<due, tick, sweepAt, clock, spent>>

\* allow, up to v.lastSeen = time.Now().
Lookup(c) ==
  /\ inside = Nobody
  /\ inside' = c
  /\ visitors' = [visitors EXCEPT ![c] = IF Known(c) THEN [@ EXCEPT !.lastSeen = clock]
                                                     ELSE NewVisitor]
  /\ UNCHANGED <<due, tick, sweepAt, clock, spent>>

Available(v) == Refilled(v.tokens, clock - v.last)

\* Mistake: the token is taken without looking.
AllowUnchecked(c) ==
  LET v == visitors[c] IN
  /\ inside = c
  /\ inside' = Nobody
  /\ visitors' = [visitors EXCEPT ![c].tokens = Available(v) - Grain,
                                  ![c].last = clock]
  /\ spent' = Counted(spent, c, clock)
  /\ UNCHANGED <<due, tick, sweepAt, clock>>

\* v.limiter.Allow(), then the mutex is released.  A refused request leaves
\* the bucket as it is.
Allow(c) ==
  LET v == visitors[c] IN
  /\ inside = c
  /\ inside' = Nobody
  /\ \/ /\ Available(v) >= Grain
        /\ visitors' = [visitors EXCEPT ![c].tokens = Available(v) - Grain,
                                        ![c].last = clock]
        /\ spent' = Counted(spent, c, clock)
     \/ /\ Available(v) < Grain
        /\ UNCHANGED <<visitors, spent>>
  /\ UNCHANGED <<due, tick, sweepAt, clock>>

\* The janitor takes a tick and evaluates time.Now(), then waits for rl.mu.
JanitorWakes ==
  /\ tick
  /\ sweepAt = NoTime
  /\ tick' = FALSE
  /\ sweepAt' = clock
  /\ UNCHANGED <<visitors, inside, due, clock, spent>>

Idle(c) == Known(c) /\ sweepAt - visitors[c].lastSeen > TTL

\* Mistake: the janitor gives up when the mutex is taken.
SweepIfFree ==
  /\ sweepAt # NoTime
  /\ visitors' = [c \in Clients |-> IF Idle(c) /\ inside = Nobody THEN Absent
                                                                  ELSE visitors[c]]
  /\ sweepAt' = NoTime
  /\ UNCHANGED <<inside, due, tick, clock, spent>>

Sweep ==
  /\ sweepAt # NoTime
  /\ inside = Nobody
  /\ visitors' = [c \in Clients |-> IF Idle(c) THEN Absent ELSE visitors[c]]
  /\ sweepAt' = NoTime
  /\ UNCHANGED <<inside, due, tick, clock, spent>>

\* Time passes; every Period clock ticks the ticker sends, or drops the tick when
\* its channel is full.
Tick ==
  /\ clock < MaxTime
  /\ inside # Nobody => clock - visitors[inside].lastSeen < MaxStall
  /\ clock' = clock + 1
  /\ due' = IF due = 1 THEN Period ELSE due - 1
  /\ tick' = (tick \/ due = 1)
  /\ UNCHANGED <<visitors, inside, sweepAt, spent>>

Next ==
  \/ \E c \in Clients : Lookup(c) \/ Allow(c)
  \/ JanitorWakes
  \/ Sweep
  \/ Tick

Spec == Init /\ [][Next]_vars

-----------------------------------------------------------------------------

\* What is in a client's bucket now; the bucket of a stranger is full.
Level == [c \in Clients |-> IF Known(c) THEN Available(visitors[c]) ELSE Full]

\* An idle client's bucket is full again before the janitor drops it.
Refills == Full <= Rps * (TTL - MaxStall)

Promise == INSTANCE TokenBuckets WITH level <- Level

\* Eviction, the map and the two readings of the clock cannot be noticed: a
\* request passes iff it would with a bucket that is never forgotten.
ImplementsTokenBuckets == Promise!BucketSpec

\* "rps sustained requests per second with the given burst per client IP":
\* in every stretch of time up to now.
Budget == WithinBudget(spent, clock)

\* The map holds only clients that came within the TTL and one period of the
\* janitor, unless a sweep is due that has not been done.
IdleAreForgotten ==
  \A c \in Clients :
    Known(c) /\ clock - visitors[c].lastSeen > TTL + Period =>
      tick \/ sweepAt # NoTime
=============================================================================
