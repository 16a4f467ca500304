----------------------------- MODULE BucketData -----------------------------
(***************************************************************************)
(* The arithmetic of a token bucket (golang.org/x/time/rate), shared by    *)
(* the limiter as built (RateLimit) and as promised (TokenBuckets).        *)
(*                                                                         *)
(* Time is a clock of ticks, Grain of them to a second.  Tokens are        *)
(* counted in parts, Grain of them to a token, so that a bucket gains Rps  *)
(* parts per tick and a request costs Grain.  The library's floating point *)
(* is exact arithmetic here.                                               *)
(***************************************************************************)
EXTENDS Integers

CONSTANTS
  Clients,     \* client IPs
  Rps,         \* RATE_LIMIT_RPS; 0 turns the limiter off
  Burst,       \* RATE_LIMIT_BURST
  Grain,       \* ticks per second
  MaxTime      \* bound: the last tick

ASSUME RatesArePositive ==
  /\ Rps \in Nat \ {0}
  /\ Burst \in Nat \ {0}
  /\ Grain \in Nat \ {0}
  /\ MaxTime \in Nat

Times == 0 .. MaxTime

Full == Burst * Grain

\* rate.Limiter.advance: what is in the bucket some ticks later.
Refilled(tokens, ticks) ==
  IF tokens + Rps * ticks > Full THEN Full ELSE tokens + Rps * ticks

\* counts[c][s] is the number of requests of c let through since tick s, for
\* every s up to now: one more.
Counted(counts, c, now) ==
  [counts EXCEPT ![c] = [s \in Times |-> IF s <= now THEN counts[c][s] + 1
                                                     ELSE counts[c][s]]]

\* Since any tick s, no more passed than the burst and what the rate gives.
WithinBudget(counts, now) ==
  \A c \in Clients, s \in 0 .. now :
    Grain * counts[c][s] <= Full + Rps * (now - s)
=============================================================================
