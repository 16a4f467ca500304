--------------------------- MODULE RateLimitProofs ---------------------------
(***************************************************************************)
(* Proofs about RateLimit, for any number of clients, rate, burst, TTL and *)
(* period.  The ones that say what eviction does not do assume Refills.    *)
(***************************************************************************)
EXTENDS RateLimit, TLAPS

-----------------------------------------------------------------------------
(* Lemmas about a bucket.                                                  *)

\* Products with a constant rate, step by step.
LEMMA OneMore ==
  ASSUME NEW a \in Nat, NEW d \in Int
  PROVE  /\ a * d \in Int
         /\ a * (d + 1) = a * d + a
OBVIOUS

LEMMA LongerIsMore ==
  ASSUME NEW a \in Nat, NEW d \in Nat, NEW e \in Nat, d <= e
  PROVE  a * d \in Nat /\ a * d <= a * e
OBVIOUS

LEMMA FullIsNat == Full \in Nat /\ Grain <= Full /\ Rps \in Nat /\ Grain \in Nat
BY RatesArePositive DEF Full

\* A bucket never holds more than the burst and never leaks.
LEMMA RefilledRange ==
  ASSUME NEW t \in 0 .. Full, NEW d \in Nat
  PROVE  Refilled(t, d) \in 0 .. Full /\ t <= Refilled(t, d)
<1>1. Rps * d \in Nat  BY FullIsNat, LongerIsMore
<1> QED  BY <1>1, FullIsNat DEF Refilled

LEMMA RefilledNow ==
  ASSUME NEW t \in 0 .. Full
  PROVE  Refilled(t, 0) = t
<1>1. Rps * 0 = 0  BY FullIsNat
<1> QED  BY <1>1, FullIsNat DEF Refilled

\* Refilling tick by tick is refilling at once.
LEMMA RefilledStepwise ==
  ASSUME NEW t \in 0 .. Full, NEW d \in Nat
  PROVE  Refilled(t, d + 1) = Refilled(Refilled(t, d), 1)
<1>1. Rps * d \in Nat /\ Rps * (d + 1) = Rps * d + Rps /\ Rps * 1 = Rps
  BY FullIsNat, LongerIsMore, OneMore
<1> QED  BY <1>1, FullIsNat DEF Refilled

\* After n ticks that give the whole burst a bucket is full.
LEMMA RefilledLong ==
  ASSUME NEW t \in 0 .. Full, NEW n \in Nat, NEW d \in Nat, n <= d, Full <= Rps * n
  PROVE  Refilled(t, d) = Full
<1>1. Rps * n \in Nat /\ Rps * d \in Nat /\ Rps * n <= Rps * d
  BY FullIsNat, LongerIsMore
<1> QED  BY <1>1, FullIsNat DEF Refilled

-----------------------------------------------------------------------------
(* The inductive invariant.                                                *)

\* An entry's two times lie in the past, and the bucket was last touched at
\* most a stall after the client was seen: idleness, which is measured from
\* lastSeen, bounds the time the bucket had to refill.
EntriesOK ==
  \A c \in Clients : Known(c) =>
    /\ visitors[c].last <= clock
    /\ visitors[c].lastSeen <= clock
    /\ visitors[c].last <= visitors[c].lastSeen + MaxStall

\* Whoever holds the mutex has an entry, stamped at most a stall ago.
InsideOK ==
  inside # Nobody => /\ Known(inside)
                     /\ clock <= visitors[inside].lastSeen + MaxStall

SweepOK == sweepAt # NoTime => sweepAt <= clock

RInv == TypeOK /\ EntriesOK /\ InsideOK /\ SweepOK

LEMMA EntryTyped ==
  ASSUME TypeOK, NEW c \in Clients, Known(c)
  PROVE  visitors[c] \in Visitor
BY DEF TypeOK, Known

LEMMA RInvInit == Init => RInv
<1> SUFFICES ASSUME Init PROVE RInv
  OBVIOUS
<1>1. clock \in Times  BY RatesArePositive DEF Init, Times
<1>2. spent \in [Clients -> [Times -> Nat]]  BY DEF Init
<1>3. visitors \in [Clients -> Visitor \cup {Absent}] /\ \A c \in Clients : ~Known(c)
  BY DEF Init, Known
<1>4. due \in 1 .. Period  BY SpansAreNat DEF Init
<1> QED
  BY <1>1, <1>2, <1>3, <1>4 DEF Init, RInv, TypeOK, EntriesOK, InsideOK, SweepOK

LEMMA NewVisitorTyped == ASSUME TypeOK PROVE NewVisitor \in Visitor
BY FullIsNat DEF TypeOK, NewVisitor, Visitor

\* What Allow finds in a bucket.
LEMMA AvailableTyped ==
  ASSUME TypeOK, EntriesOK, NEW c \in Clients, Known(c)
  PROVE  Available(visitors[c]) \in 0 .. Full
<1>1. visitors[c] \in Visitor /\ visitors[c].last <= clock /\ clock \in Times
  BY EntryTyped DEF EntriesOK, TypeOK
<1>2. clock - visitors[c].last \in Nat /\ visitors[c].tokens \in 0 .. Full
  BY <1>1, RatesArePositive DEF Visitor, Times
<1> QED  BY <1>2, RefilledRange DEF Available

\* Counted keeps its type.
LEMMA CountedTyped ==
  ASSUME TypeOK, NEW c \in Clients
  PROVE  Counted(spent, c, clock) \in [Clients -> [Times -> Nat]]
<1> DEFINE row == [s \in Times |-> IF s <= clock THEN spent[c][s] + 1 ELSE spent[c][s]]
<1>1. spent \in [Clients -> [Times -> Nat]]  BY DEF TypeOK
<1>2. row \in [Times -> Nat]
  <2>1. \A s \in Times : spent[c][s] \in Nat  BY <1>1
  <2> QED  BY <2>1
<1> HIDE DEF row
<1>3. [spent EXCEPT ![c] = row] \in [Clients -> [Times -> Nat]]  BY <1>1, <1>2
<1> QED  BY <1>3 DEF Counted, row

LEMMA LookupKeeps ==
  ASSUME RInv, NEW c \in Clients, Lookup(c)
  PROVE  RInv'
<1> USE DEF RInv, Lookup
<1>1. visitors[c] \in Visitor \/ ~Known(c)  BY EntryTyped
<1>2. NewVisitor \in Visitor  BY NewVisitorTyped
<1>3. clock \in Times  BY DEF TypeOK
<1>4. /\ visitors'[c] \in Visitor
      /\ visitors'[c].lastSeen = clock
      /\ visitors'[c].last <= clock
      /\ \A d \in Clients \ {c} : visitors'[d] = visitors[d]
  <2>1. CASE Known(c)
    <3>1. visitors'[c] = [visitors[c] EXCEPT !.lastSeen = clock]
      BY <2>1 DEF TypeOK
    <3> QED  BY <3>1, <1>1, <1>3, <2>1 DEF Visitor, EntriesOK, TypeOK
  <2>2. CASE ~Known(c)
    <3>1. visitors'[c] = NewVisitor  BY <2>2 DEF TypeOK
    <3> QED  BY <3>1, <1>2, <1>3, <2>2 DEF NewVisitor, TypeOK, Times
  <2> QED  BY <2>1, <2>2
<1>5. TypeOK'
  BY <1>4 DEF TypeOK
<1>6. EntriesOK'
  <2> SUFFICES ASSUME NEW d \in Clients, Known(d)'
               PROVE  /\ visitors'[d].last <= clock
                      /\ visitors'[d].lastSeen <= clock
                      /\ visitors'[d].last <= visitors'[d].lastSeen + MaxStall
    BY DEF EntriesOK
  <2>1. CASE d = c
    BY <2>1, <1>3, <1>4, SpansAreNat DEF Visitor, Times
  <2>2. CASE d # c
    BY <2>2, <1>4 DEF EntriesOK, Known
  <2> QED  BY <2>1, <2>2
<1>7. InsideOK'
  <2>1. inside' = c  OBVIOUS
  <2>2. Known(c)'  BY <1>4, NullsAreNotValues DEF Known
  <2> QED  BY <2>1, <2>2, <1>3, <1>4, SpansAreNat DEF InsideOK, Times
<1> QED  BY <1>5, <1>6, <1>7 DEF SweepOK

LEMMA AllowKeeps ==
  ASSUME RInv, NEW c \in Clients, Allow(c)
  PROVE  RInv'
<1> USE DEF RInv, Allow
<1>1. Known(c) /\ visitors[c] \in Visitor /\ clock \in Times
  BY EntryTyped, NullsAreNotValues DEF InsideOK, TypeOK
<1>2. CASE UNCHANGED <<visitors, spent>>
  BY <1>2 DEF TypeOK, EntriesOK, InsideOK, SweepOK, Known
<1>3. CASE /\ Available(visitors[c]) >= Grain
           /\ visitors' = [visitors EXCEPT ![c].tokens = Available(visitors[c]) - Grain,
                                           ![c].last = clock]
           /\ spent' = Counted(spent, c, clock)
  <2>1. Available(visitors[c]) - Grain \in 0 .. Full
    BY <1>1, <1>3, AvailableTyped, FullIsNat
  <2>2. /\ visitors'[c] \in Visitor
        /\ visitors'[c].last = clock
        /\ visitors'[c].lastSeen = visitors[c].lastSeen
        /\ \A d \in Clients \ {c} : visitors'[d] = visitors[d]
    <3>1. visitors'[c] = [visitors[c] EXCEPT !.tokens = Available(visitors[c]) - Grain,
                                             !.last = clock]
      BY <1>3 DEF TypeOK
    <3>2. \A d \in Clients \ {c} : visitors'[d] = visitors[d]
      BY <1>3 DEF TypeOK
    <3> QED  BY <3>1, <3>2, <2>1, <1>1 DEF Visitor
  <2>3. TypeOK'
    <3>1. visitors' \in [Clients -> Visitor \cup {Absent}]
      BY <2>2, <1>3 DEF TypeOK
    <3> QED  BY <3>1, <1>3, CountedTyped DEF TypeOK
  <2>4. clock <= visitors[c].lastSeen + MaxStall
    BY NullsAreNotValues DEF InsideOK
  <2>5. EntriesOK'
    <3> SUFFICES ASSUME NEW d \in Clients, Known(d)'
                 PROVE  /\ visitors'[d].last <= clock
                        /\ visitors'[d].lastSeen <= clock
                        /\ visitors'[d].last <= visitors'[d].lastSeen + MaxStall
      BY DEF EntriesOK
    <3>1. CASE d = c
      BY <3>1, <1>1, <2>2, <2>4 DEF EntriesOK, Times
    <3>2. CASE d # c
      BY <3>2, <2>2 DEF EntriesOK, Known
    <3> QED  BY <3>1, <3>2
  <2> QED  BY <2>3, <2>5 DEF InsideOK, SweepOK
<1> QED  BY <1>2, <1>3

LEMMA SweepKeeps ==
  ASSUME RInv, Sweep
  PROVE  RInv'
<1> USE DEF RInv, Sweep
<1>1. \A c \in Clients : visitors'[c] = Absent \/ visitors'[c] = visitors[c]
  OBVIOUS
<1>2. TypeOK'  BY <1>1 DEF TypeOK
<1>3. EntriesOK'  BY <1>1 DEF EntriesOK, Known
<1> QED  BY <1>2, <1>3 DEF InsideOK, SweepOK

LEMMA JanitorWakesKeeps ==
  ASSUME RInv, JanitorWakes
  PROVE  RInv'
<1>1. TypeOK'  BY DEF RInv, JanitorWakes, TypeOK
<1>2. SweepOK'  BY RatesArePositive DEF RInv, JanitorWakes, SweepOK, TypeOK, Times
<1> QED  BY <1>1, <1>2 DEF RInv, JanitorWakes, EntriesOK, InsideOK, Known

LEMMA TickKeeps ==
  ASSUME RInv, Tick
  PROVE  RInv'
<1> USE DEF RInv, Tick
<1>1. clock \in Times /\ clock' \in Times /\ clock' = clock + 1
  BY RatesArePositive DEF TypeOK, Times
<1>2. TypeOK'
  <2>1. due' \in 1 .. Period  BY SpansAreNat DEF TypeOK
  <2>2. tick' \in BOOLEAN  BY DEF TypeOK
  <2> QED  BY <1>1, <2>1, <2>2 DEF TypeOK
<1>3. \A c \in Clients : Known(c) => visitors[c] \in Visitor  BY EntryTyped
<1>4. EntriesOK'
  BY <1>1, <1>3, RatesArePositive DEF EntriesOK, Known, Visitor, Times
<1>5. InsideOK'
  BY <1>1, <1>3, SpansAreNat DEF InsideOK, Known, TypeOK, Visitor, Times
<1>6. SweepOK'
  BY <1>1 DEF SweepOK, TypeOK, Times
<1> QED  BY <1>2, <1>4, <1>5, <1>6

LEMMA RInvNext == RInv /\ [Next]_vars => RInv'
<1> SUFFICES ASSUME RInv, [Next]_vars PROVE RInv'
  OBVIOUS
<1>1. CASE UNCHANGED vars
  BY <1>1 DEF vars, RInv, TypeOK, EntriesOK, InsideOK, SweepOK, Known
<1> QED  BY <1>1, LookupKeeps, AllowKeeps, SweepKeeps, JanitorWakesKeeps, TickKeeps DEF Next

\* Type correctness: no bucket is overdrawn or overflows.
THEOREM RateLimitTyped == Spec => []TypeOK
<1>1. RInv => TypeOK  BY DEF RInv
<1> QED  BY <1>1, RInvInit, RInvNext, PTL DEF Spec

-----------------------------------------------------------------------------
(* Eviction is invisible.  Each step of the limiter is one of the promised *)
(* steps on Level, or leaves Level as it is.                               *)

LEMMA LevelTyped == ASSUME RInv PROVE Level \in [Clients -> 0 .. Full]
BY AvailableTyped, FullIsNat DEF RInv, Level

\* What the promise sees of a step: the level of each bucket, the clock, the
\* count.
LEMMA SameLevel ==
  ASSUME \A c \in Clients : Level'[c] = Level[c]
  PROVE  Level' = Level
BY DEF Level

LEMMA LevelOf ==
  ASSUME NEW c \in Clients
  PROVE  Level[c] = IF Known(c) THEN Refilled(visitors[c].tokens, clock - visitors[c].last)
                                ELSE Full
BY DEF Level, Available

LEMMA LevelOfNext ==
  ASSUME NEW c \in Clients
  PROVE  Level'[c] = IF Known(c)' THEN Refilled(visitors'[c].tokens, clock' - visitors'[c].last)
                                  ELSE Full
BY DEF Level, Available

LEMMA LookupIsSilent ==
  ASSUME RInv, NEW c \in Clients, Lookup(c)
  PROVE  Level' = Level
<1> SUFFICES ASSUME NEW d \in Clients PROVE Level'[d] = Level[d]
  BY SameLevel
<1> USE DEF RInv
<1>0. clock' = clock /\ clock \in Times  BY DEF Lookup, TypeOK
<1>1. CASE d # c
  <2>1. visitors'[d] = visitors[d]  BY <1>1 DEF Lookup, TypeOK
  <2> QED  BY <2>1, <1>0, LevelOf, LevelOfNext DEF Known
<1>2. CASE d = c /\ Known(c)
  <2>1. visitors[c] \in Visitor  BY <1>2, EntryTyped
  <2>2. visitors'[c] = [visitors[c] EXCEPT !.lastSeen = clock]
    BY <1>2 DEF Lookup, TypeOK
  <2>3. /\ visitors'[c] \in Visitor
        /\ visitors'[c].tokens = visitors[c].tokens
        /\ visitors'[c].last = visitors[c].last
    BY <2>1, <2>2, <1>0 DEF Visitor
  <2>4. Known(c)'  BY <2>3, NullsAreNotValues DEF Known
  <2> QED  BY <2>3, <2>4, <1>0, <1>2, LevelOf, LevelOfNext
<1>3. CASE d = c /\ ~Known(c)
  <2>1. visitors'[c] = NewVisitor  BY <1>3 DEF Lookup, TypeOK
  <2>2. Known(c)'  BY <2>1, NewVisitorTyped, NullsAreNotValues DEF Known
  <2>3. Refilled(visitors'[c].tokens, clock' - visitors'[c].last) = Full
    <3>1. visitors'[c].tokens = Full /\ visitors'[c].last = clock
      BY <2>1 DEF NewVisitor
    <3>2. clock' - visitors'[c].last = 0  BY <3>1, <1>0 DEF Times
    <3>3. Full \in 0 .. Full  BY FullIsNat
    <3> QED  BY <3>1, <3>2, <3>3, RefilledNow
  <2> QED  BY <2>2, <2>3, <1>3, LevelOf, LevelOfNext
<1> QED  BY <1>1, <1>2, <1>3

LEMMA AllowPassesOrNot ==
  ASSUME RInv, NEW c \in Clients, Allow(c)
  PROVE  \/ Promise!Pass(c)
         \/ Level' = Level /\ UNCHANGED <<clock, spent>>
<1> USE DEF RInv
<1>1. /\ Known(c) /\ visitors[c] \in Visitor
      /\ clock' = clock /\ clock \in Times
  BY EntryTyped, NullsAreNotValues DEF Allow, InsideOK, TypeOK
<1>2. CASE UNCHANGED <<visitors, spent>>
  BY <1>1, <1>2 DEF Level, Known, Available
<1>3. CASE /\ Available(visitors[c]) >= Grain
           /\ visitors' = [visitors EXCEPT ![c].tokens = Available(visitors[c]) - Grain,
                                           ![c].last = clock]
           /\ spent' = Counted(spent, c, clock)
  <2>1. Level[c] = Available(visitors[c]) /\ Level[c] \in 0 .. Full
    BY <1>1, LevelTyped DEF Level
  <2>2. /\ Level[c] - Grain \in 0 .. Full
        /\ visitors'[c] \in Visitor
        /\ visitors'[c].tokens = Level[c] - Grain
        /\ visitors'[c].last = clock
        /\ \A d \in Clients \ {c} : visitors'[d] = visitors[d]
    <3>1. visitors'[c] = [visitors[c] EXCEPT !.tokens = Available(visitors[c]) - Grain,
                                             !.last = clock]
      BY <1>3 DEF TypeOK
    <3>2. \A d \in Clients \ {c} : visitors'[d] = visitors[d]
      BY <1>3 DEF TypeOK
    <3>3. Level[c] - Grain \in 0 .. Full  BY <2>1, <1>3, FullIsNat
    <3> QED  BY <3>1, <3>2, <3>3, <2>1, <1>1 DEF Visitor
  <2>3. Level'[c] = Level[c] - Grain
    <3>1. Known(c)'  BY <2>2, NullsAreNotValues DEF Known
    <3>2. clock' - visitors'[c].last = 0  BY <2>2, <1>1 DEF Times
    <3> QED  BY <3>1, <3>2, <2>2, LevelOfNext, RefilledNow
  <2>4. \A d \in Clients \ {c} : Level'[d] = Level[d]
    BY <2>2, <1>1, LevelOf, LevelOfNext DEF Known
  <2>5. Level' = [Level EXCEPT ![c] = @ - Grain]
    BY <2>3, <2>4 DEF Level
  <2>6. Promise!Counted(spent, c, clock) = Counted(spent, c, clock)
    BY DEF Promise!Counted, Counted, Promise!Times, Times
  <2> QED  BY <2>1, <2>5, <2>6, <1>1, <1>3 DEF Promise!Pass
<1> QED  BY <1>2, <1>3 DEF Allow

\* The one place where Refills matters: what is dropped is full.
LEMMA SweepIsSilent ==
  ASSUME RInv, Refills, Sweep
  PROVE  Level' = Level
<1> SUFFICES ASSUME NEW c \in Clients PROVE Level'[c] = Level[c]
  BY SameLevel
<1> USE DEF RInv
<1>0. clock' = clock /\ clock \in Times  BY DEF Sweep, TypeOK
<1>1. CASE ~Idle(c)
  <2>1. visitors'[c] = visitors[c]  BY <1>1 DEF Sweep, TypeOK
  <2> QED  BY <2>1, <1>0, LevelOf, LevelOfNext DEF Known
<1>2. CASE Idle(c)
  <2>1. Known(c) /\ visitors[c] \in Visitor  BY <1>2, EntryTyped DEF Idle
  <2>2. ~Known(c)'  BY <1>2 DEF Sweep, TypeOK, Known
  <2>3. Refilled(visitors[c].tokens, clock - visitors[c].last) = Full
    <3> DEFINE v == visitors[c]
    <3>1. /\ sweepAt \in Times /\ sweepAt <= clock /\ sweepAt - v.lastSeen > TTL
          /\ v.last <= v.lastSeen + MaxStall /\ v.last <= clock
      BY <1>2, <2>1 DEF Idle, Sweep, SweepOK, EntriesOK, TypeOK
    <3>2. v.tokens \in 0 .. Full /\ v.last \in Times /\ v.lastSeen \in Times
      BY <2>1 DEF Visitor
    <3> HIDE DEF v
    <3>3. /\ clock - v.last \in Nat
          /\ clock - v.last >= TTL - MaxStall
      BY <3>1, <3>2, <1>0, SpansAreNat, RatesArePositive DEF Times
    <3>4. TTL - MaxStall \in Nat
      <4>1. Full >= 1  BY FullIsNat, RatesArePositive
      <4>2. Full <= Rps * (TTL - MaxStall)  BY DEF Refills
      <4>3. ~(TTL - MaxStall < 0)
        <5>1. ASSUME TTL - MaxStall < 0 PROVE Rps * (TTL - MaxStall) <= 0
          BY <5>1, FullIsNat, SpansAreNat
        <5> QED  BY <5>1, <4>1, <4>2, FullIsNat, SpansAreNat
      <4> QED  BY <4>3, SpansAreNat
    <3> QED  BY <3>2, <3>3, <3>4, RefilledLong DEF Refills, v
  <2> QED  BY <2>1, <2>2, <2>3, LevelOf, LevelOfNext
<1> QED  BY <1>1, <1>2

LEMMA TickElapses ==
  ASSUME RInv, Tick
  PROVE  Promise!Elapse
<1> USE DEF RInv
<1>0. clock \in Times /\ clock' = clock + 1 /\ visitors' = visitors
  BY DEF Tick, TypeOK
<1>1. ASSUME NEW c \in Clients PROVE Level'[c] = Refilled(Level[c], 1)
  <2>1. CASE Known(c)
    <3> DEFINE d == clock - visitors[c].last
    <3>1. visitors[c] \in Visitor /\ visitors[c].last <= clock
      BY <2>1, EntryTyped DEF EntriesOK
    <3>2. visitors[c].tokens \in 0 .. Full /\ d \in Nat
          /\ clock' - visitors[c].last = d + 1
      BY <3>1, <1>0 DEF Visitor, Times
    <3>3. Level[c] = Refilled(visitors[c].tokens, d)  BY <2>1, LevelOf
    <3>4. Level'[c] = Refilled(visitors[c].tokens, d + 1)
      BY <2>1, <1>0, <3>2, LevelOfNext DEF Known
    <3> HIDE DEF d
    <3> QED  BY <3>2, <3>3, <3>4, RefilledStepwise
  <2>2. CASE ~Known(c)
    <3>1. Level'[c] = Full /\ Level[c] = Full
      BY <2>2, <1>0, LevelOf, LevelOfNext DEF Known
    <3>2. Refilled(Full, 1) = Full
      <4>1. Full \in 0 .. Full /\ 1 \in Nat  BY FullIsNat
      <4>2. Refilled(Full, 1) \in 0 .. Full /\ Full <= Refilled(Full, 1)
        BY <4>1, RefilledRange
      <4> QED  BY <4>2, FullIsNat
    <3> QED  BY <3>1, <3>2
  <2> QED  BY <2>1, <2>2
<1>2. Level' = [c \in Clients |-> Refilled(Level[c], 1)]
  BY <1>1 DEF Level
<1>3. \A c \in Clients : Promise!Refilled(Level[c], 1) = Refilled(Level[c], 1)
  BY DEF Promise!Refilled, Refilled, Promise!Full, Full
<1> QED  BY <1>2, <1>3 DEF Promise!Elapse, Tick

LEMMA StepIsPromised ==
  ASSUME RInv, Refills, [Next]_vars
  PROVE  [Promise!BucketNext]_(Promise!bucketVars)
<1> USE DEF Promise!bucketVars
<1>1. CASE UNCHANGED vars
  BY <1>1 DEF vars, Level, Known, Available
<1>2. ASSUME NEW c \in Clients, Lookup(c) PROVE UNCHANGED Promise!bucketVars
  BY <1>2, LookupIsSilent DEF Lookup
<1>3. ASSUME NEW c \in Clients, Allow(c)
      PROVE  Promise!Pass(c) \/ UNCHANGED Promise!bucketVars
  BY <1>3, AllowPassesOrNot
<1>4. CASE JanitorWakes
  BY <1>4 DEF JanitorWakes, Level, Known, Available
<1>5. CASE Sweep
  BY <1>5, SweepIsSilent DEF Sweep
<1>6. CASE Tick
  BY <1>6, TickElapses DEF Promise!BucketNext
<1> QED
  BY <1>1, <1>2, <1>3, <1>4, <1>5, <1>6 DEF Next, Promise!BucketNext

LEMMA InitIsPromised == Init => Promise!BucketInit
BY DEF Init, Promise!BucketInit, Level, Known, Promise!Full, Full, Promise!Times, Times

\* A limiter that forgets idle clients answers as one that never does, when
\* a bucket refills within the TTL.
THEOREM EvictionIsInvisible ==
  ASSUME Refills
  PROVE  Spec => ImplementsTokenBuckets
<1>1. RInv /\ [Next]_vars => [Promise!BucketNext]_(Promise!bucketVars)
  BY StepIsPromised
<1> QED
  BY <1>1, RInvInit, RInvNext, InitIsPromised, PTL
  DEF Spec, ImplementsTokenBuckets, Promise!BucketSpec

-----------------------------------------------------------------------------
(* The budget follows from the promise: what passed since tick s and what  *)
(* is left in the bucket never exceed the burst and the refill since s.    *)

AccountOK(c, s) ==
  /\ s <= clock => Grain * spent[c][s] + Level[c] <= Full + Rps * (clock - s)
  /\ s > clock => spent[c][s] = 0

BInv == RInv /\ \A c \in Clients, s \in Times : AccountOK(c, s)

LEMMA BInvInit == Init => BInv
<1> SUFFICES ASSUME Init, NEW c \in Clients, NEW s \in Times PROVE AccountOK(c, s)
  BY RInvInit DEF BInv
<1>1. Level[c] = Full /\ spent[c][s] = 0 /\ clock = 0
  BY DEF Init, Level, Known
<1>2. s \in Nat /\ (s <= 0 => s = 0)  BY RatesArePositive DEF Times
<1>3. Grain * 0 = 0 /\ Rps * (0 - 0) = 0  BY FullIsNat
<1> QED  BY <1>1, <1>2, <1>3, FullIsNat DEF AccountOK

LEMMA PassKeepsAccount ==
  ASSUME BInv, NEW c \in Clients, Promise!Pass(c)
  PROVE  \A d \in Clients, s \in Times : AccountOK(d, s)'
<1> SUFFICES ASSUME NEW d \in Clients, NEW s \in Times PROVE AccountOK(d, s)'
  OBVIOUS
<1>1. /\ clock \in Times /\ clock' = clock /\ Level \in [Clients -> 0 .. Full]
      /\ spent \in [Clients -> [Times -> Nat]]
  BY LevelTyped DEF BInv, RInv, TypeOK, Promise!Pass
<1>2. AccountOK(d, s)  BY DEF BInv
<1>3. Level' = [Level EXCEPT ![c] = @ - Grain] /\ spent' = Counted(spent, c, clock)
  BY DEF Promise!Pass, Promise!Counted, Counted, Promise!Times, Times
<1>4. CASE d # c
  <2>1. Level'[d] = Level[d]  BY <1>1, <1>3, <1>4
  <2>2. spent'[d] = spent[d]  BY <1>1, <1>3, <1>4 DEF Counted
  <2> QED  BY <2>1, <2>2, <1>1, <1>2 DEF AccountOK
<1>5. CASE d = c
  <2>1. Level'[c] = Level[c] - Grain  BY <1>1, <1>3
  <2>2. spent'[c][s] = IF s <= clock THEN spent[c][s] + 1 ELSE spent[c][s]
    BY <1>1, <1>3 DEF Counted
  <2>3. /\ spent[c][s] \in Nat
        /\ Grain * spent[c][s] \in Int
        /\ Grain * (spent[c][s] + 1) = Grain * spent[c][s] + Grain
    <3>1. spent[c][s] \in Nat  BY <1>1
    <3> QED  BY <3>1, FullIsNat, OneMore
  <2>4. Level[c] \in Int /\ Rps * (clock - s) \in Int
    <3>1. clock - s \in Int  BY <1>1, RatesArePositive DEF Times
    <3> QED  BY <3>1, <1>1, FullIsNat, OneMore
  <2>5. s \in Int /\ clock \in Int  BY <1>1, RatesArePositive DEF Times
  <2>6. CASE s <= clock
    <3>1. Grain * spent[c][s] + Level[c] <= Full + Rps * (clock - s)
      BY <2>6, <1>2, <1>5 DEF AccountOK
    <3>2. Grain * (spent[c][s] + 1) + (Level[c] - Grain) <= Full + Rps * (clock - s)
      BY <3>1, <2>3, <2>4, FullIsNat
    <3>3. Grain * spent'[c][s] + Level'[c] <= Full + Rps * (clock' - s)
      BY <3>2, <2>1, <2>2, <2>6, <1>1
    <3> QED  BY <3>3, <2>5, <2>6, <1>1, <1>5 DEF AccountOK
  <2>7. CASE s > clock
    BY <2>2, <2>5, <2>7, <1>1, <1>2, <1>5 DEF AccountOK
  <2> QED  BY <2>5, <2>6, <2>7
<1> QED  BY <1>4, <1>5

LEMMA ElapseKeepsAccount ==
  ASSUME BInv, Promise!Elapse
  PROVE  \A d \in Clients, s \in Times : AccountOK(d, s)'
<1> SUFFICES ASSUME NEW d \in Clients, NEW s \in Times PROVE AccountOK(d, s)'
  OBVIOUS
<1>1. /\ clock \in Times /\ clock' = clock + 1 /\ spent' = spent
      /\ Level \in [Clients -> 0 .. Full]
      /\ spent \in [Clients -> [Times -> Nat]]
  BY LevelTyped DEF BInv, RInv, TypeOK, Promise!Elapse
<1>2. AccountOK(d, s)  BY DEF BInv
<1>3. /\ Level[d] \in 0 .. Full /\ s \in Int /\ clock \in Int
      /\ spent[d][s] \in Nat /\ spent'[d][s] = spent[d][s]
  BY <1>1, RatesArePositive DEF Times
<1>4. /\ Level'[d] \in 0 .. Full
      /\ Level'[d] <= Level[d] + Rps
  <2>1. Level'[d] = Refilled(Level[d], 1)
    BY DEF Promise!Elapse, Promise!Refilled, Refilled, Promise!Full, Full
  <2>2. Refilled(Level[d], 1) \in 0 .. Full
    <3>1. 1 \in Nat  OBVIOUS
    <3> QED  BY <3>1, <1>3, RefilledRange
  <2>3. Rps * 1 = Rps  BY FullIsNat
  <2> QED  BY <2>1, <2>2, <2>3, <1>3, FullIsNat DEF Refilled
<1>5. CASE s <= clock
  <2>1. (clock + 1) - s = (clock - s) + 1 /\ clock - s \in Int  BY <1>3
  <2>2. Rps * (clock - s) \in Int /\ Rps * ((clock - s) + 1) = Rps * (clock - s) + Rps
    BY <2>1, FullIsNat, OneMore
  <2>3. Grain * spent[d][s] \in Int  BY <1>3, FullIsNat, OneMore
  <2>4. Grain * spent[d][s] + Level[d] <= Full + Rps * (clock - s)
    BY <1>2, <1>5 DEF AccountOK
  <2>5. Grain * spent[d][s] + Level'[d] <= Full + Rps * ((clock + 1) - s)
    BY <2>1, <2>2, <2>3, <2>4, <1>3, <1>4, FullIsNat
  <2> QED  BY <2>5, <1>1, <1>3, <1>5 DEF AccountOK
<1>6. CASE s > clock
  <2>1. spent'[d][s] = 0  BY <1>2, <1>3, <1>6 DEF AccountOK
  <2>2. s <= clock' => clock' - s = 0  BY <1>1, <1>3, <1>6
  <2>3. Grain * 0 = 0 /\ Rps * 0 = 0  BY FullIsNat
  <2> QED  BY <2>1, <2>2, <2>3, <1>4, FullIsNat DEF AccountOK
<1> QED  BY <1>5, <1>6, <1>3

LEMMA BInvNext ==
  ASSUME Refills, BInv, [Next]_vars
  PROVE  BInv'
<1>1. RInv'  BY RInvNext DEF BInv
<1>2. [Promise!BucketNext]_(Promise!bucketVars)  BY StepIsPromised DEF BInv
<1>3. CASE UNCHANGED Promise!bucketVars
  BY <1>1, <1>3 DEF BInv, Promise!bucketVars, AccountOK
<1> QED
  BY <1>1, <1>2, <1>3, PassKeepsAccount, ElapseKeepsAccount
  DEF BInv, Promise!BucketNext

LEMMA BInvBudget == BInv => Budget
<1> SUFFICES ASSUME BInv, NEW c \in Clients, NEW s \in 0 .. clock
             PROVE  Grain * spent[c][s] <= Full + Rps * (clock - s)
  BY DEF Budget, WithinBudget
<1>1. clock \in Times /\ s \in Times /\ s <= clock /\ spent[c][s] \in Nat
  BY RatesArePositive DEF BInv, RInv, TypeOK, Times
<1>2. Level[c] \in 0 .. Full  BY LevelTyped DEF BInv
<1>3. Grain * spent[c][s] + Level[c] <= Full + Rps * (clock - s)
  BY <1>1 DEF BInv, AccountOK
<1>4. Grain * spent[c][s] \in Int /\ Rps * (clock - s) \in Int
  <2>1. clock - s \in Int  BY <1>1, RatesArePositive DEF Times
  <2> QED  BY <2>1, <1>1, FullIsNat, OneMore
<1> QED  BY <1>2, <1>3, <1>4, FullIsNat

\* No client gets more through, in any stretch of time, than the burst and
\* the rate times its length, when a bucket refills within the TTL.
THEOREM BudgetIsKept ==
  ASSUME Refills
  PROVE  Spec => []Budget
<1>1. BInv /\ [Next]_vars => BInv'  BY BInvNext
<1> QED  BY <1>1, BInvInit, BInvBudget, PTL DEF Spec

-----------------------------------------------------------------------------
(* The map forgets.  Let the last round be when the ticker last sent: if  *)
(* nothing is due, the janitor has swept as of then or later.              *)

LastRound == clock - (Period - due)

SweptOK ==
  ~tick =>
    /\ sweepAt = NoTime =>
         \A c \in Clients : Known(c) => LastRound - visitors[c].lastSeen <= TTL
    /\ sweepAt # NoTime => sweepAt >= LastRound

JInv == RInv /\ SweptOK

\* The last round is not ahead of the clock, and less than a period behind.
LEMMA RoundTyped ==
  ASSUME RInv
  PROVE  /\ clock \in Nat /\ LastRound \in Int
         /\ LastRound <= clock /\ clock < LastRound + Period
BY RatesArePositive, SpansAreNat DEF RInv, TypeOK, Times, LastRound

LEMMA EntriesTyped ==
  ASSUME RInv, NEW c \in Clients, Known(c)
  PROVE  visitors[c].lastSeen \in Nat
BY EntryTyped, RatesArePositive DEF RInv, Visitor, Times

LEMMA JInvInit == Init => JInv
BY RInvInit DEF JInv, SweptOK, Init, Known

LEMMA JInvNext ==
  ASSUME JInv, [Next]_vars
  PROVE  JInv'
<1> USE DEF JInv
<1>1. RInv'  BY RInvNext
<1>2. SweptOK'
  <2>1. CASE UNCHANGED vars
    BY <2>1 DEF vars, SweptOK, LastRound, Known
  <2>2. ASSUME NEW c \in Clients, Lookup(c) PROVE SweptOK'
    <3> SUFFICES ASSUME ~tick, sweepAt = NoTime, NEW d \in Clients, Known(d)'
                 PROVE  LastRound - visitors'[d].lastSeen <= TTL
      BY <2>2 DEF SweptOK, Lookup, LastRound
    <3>1. CASE d # c
      BY <2>2, <3>1 DEF SweptOK, Lookup, Known, RInv, TypeOK
    <3>2. CASE d = c
      <4>1. visitors'[c].lastSeen = clock
        <5>1. CASE Known(c)
          <6>1. visitors'[c] = [visitors[c] EXCEPT !.lastSeen = clock]
            BY <2>2, <5>1 DEF Lookup, RInv, TypeOK
          <6>2. visitors[c] \in Visitor  BY <5>1, EntryTyped DEF RInv
          <6> QED  BY <6>1, <6>2 DEF Visitor
        <5>2. CASE ~Known(c)
          BY <2>2, <5>2 DEF Lookup, RInv, TypeOK, NewVisitor
        <5> QED  BY <5>1, <5>2
      <4> QED  BY <4>1, <3>2, RoundTyped, SpansAreNat
    <3> QED  BY <3>1, <3>2
  <2>3. ASSUME NEW c \in Clients, Allow(c) PROVE SweptOK'
    <3> SUFFICES ASSUME ~tick, sweepAt = NoTime, NEW d \in Clients, Known(d)'
                 PROVE  LastRound - visitors'[d].lastSeen <= TTL
      BY <2>3 DEF SweptOK, Allow, LastRound
    <3>1. Known(c) /\ visitors[c] \in Visitor
      BY <2>3, EntryTyped, NullsAreNotValues DEF Allow, RInv, InsideOK
    <3>2. Known(d) /\ visitors'[d].lastSeen = visitors[d].lastSeen
      <4>1. CASE UNCHANGED visitors  BY <4>1 DEF Known
      <4>2. CASE d # c /\ visitors'[d] = visitors[d]  BY <4>2 DEF Known
      <4>3. CASE d = c /\ visitors'[c] = [visitors[c] EXCEPT
                     !.tokens = Available(visitors[c]) - Grain, !.last = clock]
        BY <4>3, <3>1 DEF Visitor
      <4> QED  BY <4>1, <4>2, <4>3, <2>3 DEF Allow, RInv, TypeOK
    <3> QED  BY <3>2 DEF SweptOK
  <2>4. CASE JanitorWakes
    BY <2>4, RoundTyped, NullsAreNotValues DEF SweptOK, JanitorWakes, LastRound, RInv, TypeOK
  <2>5. CASE Sweep
    <3> SUFFICES ASSUME ~tick, NEW c \in Clients, Known(c)'
                 PROVE  LastRound - visitors'[c].lastSeen <= TTL
      BY <2>5 DEF SweptOK, Sweep, LastRound
    <3>1. visitors'[c] = visitors[c] /\ Known(c) /\ ~Idle(c)
      BY <2>5 DEF Sweep, Known
    <3>2. sweepAt \in Nat /\ sweepAt >= LastRound /\ sweepAt - visitors[c].lastSeen <= TTL
      BY <2>5, <3>1, EntriesTyped, RatesArePositive, SpansAreNat
      DEF SweptOK, Sweep, Idle, RInv, TypeOK, Times
    <3> QED  BY <3>1, <3>2, EntriesTyped, RoundTyped, SpansAreNat
  <2>6. CASE Tick
    <3>1. CASE tick'  BY <3>1 DEF SweptOK
    <3>2. CASE ~tick'
      <4>1. due # 1 /\ ~tick  BY <2>6, <3>2 DEF Tick
      <4>2. clock \in Nat /\ due \in 1 .. Period
        BY RoundTyped DEF RInv, TypeOK
      <4>3. LastRound' = LastRound
        BY <2>6, <4>1, <4>2, SpansAreNat DEF Tick, LastRound
      <4> QED  BY <2>6, <4>1, <4>3 DEF SweptOK, Tick, Known
    <3> QED  BY <3>1, <3>2
  <2> QED  BY <2>1, <2>2, <2>3, <2>4, <2>5, <2>6 DEF Next
<1> QED  BY <1>1, <1>2

LEMMA JInvForgets == JInv => IdleAreForgotten
<1> SUFFICES ASSUME JInv, NEW c \in Clients, Known(c), ~tick, sweepAt = NoTime
             PROVE  ~(clock - visitors[c].lastSeen > TTL + Period)
  BY DEF IdleAreForgotten
<1> QED  BY RoundTyped, EntriesTyped, SpansAreNat DEF JInv, SweptOK

\* The map cannot keep clients that stay away: unless a sweep is overdue,
\* all of them came within the TTL and one period.
THEOREM IdleIsForgotten == Spec => []IdleAreForgotten
<1>1. JInv /\ [Next]_vars => JInv'  BY JInvNext
<1> QED  BY <1>1, JInvInit, JInvForgets, PTL DEF Spec
=============================================================================
