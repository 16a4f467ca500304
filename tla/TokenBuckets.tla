---------------------------- MODULE TokenBuckets ----------------------------
(***************************************************************************)
(* What the rate limiter promises: every client has a bucket of its own,   *)
(* from the beginning and for ever, and a request passes iff there is a    *)
(* whole token in it.  There is no map, no mutex, no janitor.              *)
(***************************************************************************)
EXTENDS BucketData

VARIABLES
  level,       \* parts of tokens in each client's bucket
  clock,
  spent        \* see Counted

bucketVars == <<level, clock, spent>>

BucketInit ==
  /\ level = [c \in Clients |-> Full]
  /\ clock = 0
  /\ spent = [c \in Clients |-> [s \in Times |-> 0]]

Pass(c) ==
  /\ level[c] >= Grain
  /\ level' = [level EXCEPT ![c] = @ - Grain]
  /\ spent' = Counted(spent, c, clock)
  /\ UNCHANGED clock

\* A refused request costs nothing.
Elapse ==
  /\ clock < MaxTime
  /\ clock' = clock + 1
  /\ level' = [c \in Clients |-> Refilled(level[c], 1)]
  /\ UNCHANGED spent

BucketNext == (\E c \in Clients : Pass(c)) \/ Elapse

BucketSpec == BucketInit /\ [][BucketNext]_bucketVars
=============================================================================
