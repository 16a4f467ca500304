----------------------------- MODULE BootProofs -----------------------------
(***************************************************************************)
(* Theorems about Boot, for any number of servers and seeds, any .env, any *)
(* number of faults and runs: no process works before the schema is whole, *)
(* the seed's plan is never applied twice nor reported half done, and one  *)
(* configuration error names all there is to repair.                       *)
(***************************************************************************)
EXTENDS Boot, TLAPS

LEMMA PlanSizes ==
  Len(Sets) = 3 /\ Len(Addresses) = 3 /\ Len(LotSpecs) = 4 /\ Len(BidSpecs) = 4
  BY DEF Sets, Addresses, LotSpecs, BidSpecs

ThreeItems == {"listing", "creating", "committing", "registering"}

Placed ==
  /\ pc \in [Procs -> Phases] /\ at \in [Procs -> 1 .. 4]
  /\ \A p \in Procs : pc[p] \in ThreeItems => at[p] \in 1 .. 3

LEMMA GotoPlaces ==
  ASSUME Placed, NEW p \in Procs, NEW phase \in Phases, NEW i \in 1 .. 4, Goto(p, phase, i),
         phase \in ThreeItems => i \in 1 .. 3
  PROVE  Placed'
  BY DEF Placed, Goto

\* A process is always at an item its phase has.
LEMMA StepPlaces ==
  ASSUME Placed, NEW p \in Procs, Load(p) \/ Proceed(p) \/ Die(p)
  PROVE  Placed'
<1>0. at[p] \in 1 .. 4 /\ (pc[p] \in ThreeItems => at[p] \in 1 .. 3)
  BY DEF Placed
<1>1. \E phase \in Phases, i \in 1 .. 4 :
        Goto(p, phase, i) /\ (phase \in ThreeItems => i \in 1 .. 3)
  <2>1. CASE Load(p)
    <3>1. CASE Problems(env) = {}
      <4>1. "connecting" \in Phases /\ Goto(p, "connecting", 1)
        BY <2>1, <3>1 DEF Load, Phases
      <4> QED
        BY <4>1
    <3>2. CASE Problems(env) # {}
      <4>1. "down" \in Phases /\ Goto(p, "down", 1)
        BY <2>1, <3>2 DEF Load, Phases
      <4> QED
        BY <4>1
    <3> QED
      BY <3>1, <3>2
  <2>2. CASE Connect(p) \/ TableExists(p) \/ Outbid(p) \/ Die(p)
    <3>1. "listing" \in Phases /\ "down" \in Phases
      BY DEF Phases
    <3>2. Goto(p, "listing", 1) \/ Goto(p, "down", 1)
      BY <2>2 DEF Connect, TableExists, Outbid, Die
    <3> QED
      BY <3>1, <3>2
  <2>3. CASE ListApplied(p) \/ CreateTable(p) \/ Commit(p)
    <3>1. {"listing", "creating", "committing", "serving", "registering"} \subseteq Phases
      BY DEF Phases
    <3>2. at[p] \in 1 .. 3
      BY <1>0, <2>3 DEF ListApplied, CreateTable, Commit, ThreeItems
    <3>3. AfterSet(p) => \E phase \in Phases, i \in 1 .. 3 : Goto(p, phase, i)
      BY <3>1, <3>2, PlanSizes DEF AfterSet
    <3> QED
      BY <2>3, <3>1, <3>2, <3>3 DEF ListApplied, CreateTable, Commit
  <2>4. CASE Register(p)
    <3>1. {"satisfied", "registering", "offering"} \subseteq Phases
      BY DEF Phases
    <3>2. at[p] \in 1 .. 3
      BY <1>0, <2>4 DEF Register, ThreeItems
    <3>3. \/ Goto(p, "satisfied", 1)
          \/ at[p] < 3 /\ Goto(p, "registering", at[p] + 1)
          \/ Goto(p, "offering", 1)
      BY <2>4, PlanSizes DEF Register
    <3>4. CASE at[p] < 3 /\ Goto(p, "registering", at[p] + 1)
      <4>1. at[p] + 1 \in 1 .. 3 /\ at[p] + 1 \in 1 .. 4
        BY <3>2, <3>4
      <4> QED
        BY <3>1, <3>4, <4>1
    <3>5. CASE Goto(p, "satisfied", 1)
      <4>1. "satisfied" \in Phases
        BY DEF Phases
      <4> QED
        BY <3>5, <4>1
    <3>6. CASE Goto(p, "offering", 1)
      <4>1. "offering" \in Phases
        BY DEF Phases
      <4> QED
        BY <3>6, <4>1
    <3> QED
      BY <3>3, <3>4, <3>5, <3>6
  <2>5. CASE Offer(p) \/ Place(p)
    <3>1. {"offering", "bidding", "complete"} \subseteq Phases \ ThreeItems
      BY DEF Phases, ThreeItems
    <3> QED
      BY <1>0, <2>5, <3>1, PlanSizes DEF Offer, Place
  <2> QED
    BY <2>1, <2>2, <2>3, <2>4, <2>5 DEF Proceed
<1> QED
  BY <1>1, GotoPlaces

LEMMA Typed == Spec => [](TypeOK /\ Placed)
<1>1. Init => TypeOK /\ Placed
  BY DEF Init, TypeOK, Phases, Features, Amounts, Placed
<1>2. TypeOK /\ Placed /\ [Next]_vars => TypeOK' /\ Placed'
  <2> SUFFICES ASSUME TypeOK, Placed, [Next]_vars PROVE TypeOK' /\ Placed'
    OBVIOUS
  <2> USE DEF TypeOK
  <2>1. ASSUME NEW p \in Procs, Load(p) PROVE TypeOK' /\ Placed'
    BY <2>1, StepPlaces DEF Placed, Load, schema, rows
  <2>2. ASSUME NEW p \in Procs, Proceed(p) PROVE TypeOK' /\ Placed'
    <3>0. /\ at[p] \in 1 .. 4 /\ Placed'
          /\ pc' \in [Procs -> Phases] /\ at' \in [Procs -> 1 .. 4]
      BY <2>2, StepPlaces DEF Placed
    <3>1. CASE Connect(p) \/ ListApplied(p) \/ TableExists(p) \/ Outbid(p)
      BY <3>0, <3>1 DEF Connect, ListApplied, TableExists, Outbid, schema, rows
    <3>2. CASE CreateTable(p)
      BY <3>0, <3>2 DEF CreateTable, rows
    <3>3. CASE Commit(p)
      <4>1. Sets[at[p]] \in Features
        BY <3>3 DEF Commit, Placed, ThreeItems, Sets, Features
      <4> QED
        BY <3>0, <3>3, <4>1 DEF Commit, rows
    <3>4. CASE Register(p)
      BY <3>0, <3>4 DEF Register, schema
    <3>5. CASE Offer(p)
      BY <3>0, <3>5 DEF Offer, schema
    <3>6. CASE Place(p)
      <4>1. BidSpecs[at[p]].lot \in 1 .. 4 /\ BidSpecs[at[p]].amount \in Amounts
        BY <3>0 DEF BidSpecs, Amounts
      <4>2. price' = [price EXCEPT ![BidSpecs[at[p]].lot] = BidSpecs[at[p]].amount]
        BY <3>6 DEF Place
      <4>3. price' \in [1 .. 4 -> Amounts \cup {0}]
        BY <4>1, <4>2
      <4>4. bids' = [bids EXCEPT ![at[p]] = @ + 1] /\ UNCHANGED <<schema, account, lots>>
        BY <3>6 DEF Place
      <4>5. \A n \in Nat : n + 1 \in Nat
        OBVIOUS
      <4>6. bids' \in [1 .. 4 -> Nat]
        BY <3>0, <4>4, <4>5
      <4> QED
        BY <3>0, <4>3, <4>4, <4>6 DEF schema
    <3> QED
      BY <2>2, <3>1, <3>2, <3>3, <3>4, <3>5, <3>6 DEF Proceed
  <2>3. ASSUME NEW p \in Procs, Die(p) PROVE TypeOK' /\ Placed'
    BY <2>3, StepPlaces DEF Placed, Die, rows
  <2>4. ASSUME NEW p \in Procs, Repair(p) PROVE TypeOK' /\ Placed'
    BY <2>4 DEF Placed, Repair, schema, rows
  <2>5. ASSUME NEW a \in 1 .. 3, VisitorRegisters(a) PROVE TypeOK' /\ Placed'
    BY <2>5 DEF Placed, VisitorRegisters, schema
  <2>6. ASSUME NEW l \in 1 .. 4, NEW amount \in VisitorBids, VisitorPlaces(l, amount)
        PROVE TypeOK' /\ Placed'
    BY <2>6 DEF Placed, VisitorPlaces, Amounts, schema
  <2>7. ASSUME NEW f \in Features, RollBack(f) PROVE TypeOK' /\ Placed'
    BY <2>7 DEF Placed, RollBack, rows
  <2>8. CASE UNCHANGED vars
    BY <2>8 DEF Placed, vars
  <2> QED
    BY <2>1, <2>2, <2>3, <2>4, <2>5, <2>6, <2>7, <2>8 DEF Next
<1> QED
  BY <1>1, <1>2, PTL DEF Spec

\* The schema's variables keep their types and a process keeps its place: the
\* model's bookkeeping of the boot sequence is sound.
THEOREM BootTyped == Spec => []TypeOK
  BY Typed, PTL

-----------------------------------------------------------------------------
\* The schema.

Migrating == {"listing", "creating", "committing"}

\* What the migrations behind a process have left in the database.
SchemaInv ==
  /\ recorded \subseteq tables
  /\ \A p \in Procs : pc[p] \in Migrating =>
       /\ at[p] \in 1 .. 3
       /\ \A i \in 1 .. 3 : i < at[p] => Sets[i] \in tables
  /\ WorksOnlyMigrated

LEMMA AfterSetKeepsSchema ==
  ASSUME TypeOK, SchemaInv, NEW p \in Procs, pc[p] \in Migrating,
         AfterSet(p), tables \subseteq tables', recorded' \subseteq tables',
         Sets[at[p]] \in tables'
  PROVE  SchemaInv'
<1>1. at[p] \in 1 .. 3 /\ Len(Sets) = 3 /\ Features = {Sets[i] : i \in 1 .. 3}
  BY DEF SchemaInv, Sets, Features
<1>2. \A i \in 1 .. 3 : i <= at[p] => Sets[i] \in tables'
  BY <1>1 DEF SchemaInv
<1>3. CASE at[p] < 3
  <2>1. pc' = [pc EXCEPT ![p] = "listing"] /\ at' = [at EXCEPT ![p] = at[p] + 1]
    BY <1>1, <1>3 DEF AfterSet, Goto
  <2> QED
    BY <1>1, <1>2, <1>3, <2>1 DEF SchemaInv, TypeOK, WorksOnlyMigrated, Working, Migrating
<1>4. CASE at[p] = 3
  <2>1. /\ pc'[p] \notin Migrating
        /\ \A q \in Procs : q # p => pc'[q] = pc[q] /\ at'[q] = at[q]
    BY <1>1, <1>4 DEF AfterSet, Goto, TypeOK, Migrating
  <2>2. Features \subseteq tables'
    BY <1>1, <1>2, <1>4
  <2> QED
    BY <2>1, <2>2 DEF SchemaInv, WorksOnlyMigrated
<1> QED
  BY <1>1, <1>3, <1>4

LEMMA SchemaHolds == Spec => []SchemaInv
<1>1. Init => SchemaInv
  BY DEF Init, SchemaInv, WorksOnlyMigrated, Working, Migrating
<1>2. TypeOK /\ SchemaInv /\ [Next]_vars => SchemaInv'
  <2> SUFFICES ASSUME TypeOK, SchemaInv, [Next]_vars PROVE SchemaInv'
    OBVIOUS
  <2>1. ASSUME NEW p \in Procs, Load(p) PROVE SchemaInv'
    BY <2>1 DEF Load, Goto, schema, SchemaInv, TypeOK, WorksOnlyMigrated, Working, Migrating
  <2>2. ASSUME NEW p \in Procs, Connect(p) PROVE SchemaInv'
    BY <2>2 DEF Connect, Goto, schema, SchemaInv, TypeOK, WorksOnlyMigrated, Working, Migrating
  <2>3. ASSUME NEW p \in Procs, ListApplied(p) PROVE SchemaInv'
    <3>1. CASE Sets[at[p]] \in recorded
      BY <2>3, <3>1, AfterSetKeepsSchema DEF ListApplied, schema, SchemaInv, Migrating
    <3>2. CASE Sets[at[p]] \notin recorded
      BY <2>3, <3>2 DEF ListApplied, Goto, schema, SchemaInv, TypeOK,
        WorksOnlyMigrated, Working, Migrating
    <3> QED
      BY <3>1, <3>2
  <2>4. ASSUME NEW p \in Procs, CreateTable(p) PROVE SchemaInv'
    BY <2>4 DEF CreateTable, Goto, SchemaInv, TypeOK, WorksOnlyMigrated, Working, Migrating
  <2>5. ASSUME NEW p \in Procs, Commit(p) PROVE SchemaInv'
    BY <2>5, AfterSetKeepsSchema DEF Commit, SchemaInv, Migrating
  <2>6. ASSUME NEW p \in Procs, TableExists(p) \/ Outbid(p) \/ Die(p) PROVE SchemaInv'
    <3>1. /\ tables' = tables /\ recorded' = recorded
          /\ pc' = [pc EXCEPT ![p] = "down"] /\ at' = [at EXCEPT ![p] = 1]
      BY <2>6 DEF TableExists, Outbid, Die, Goto, schema
    <3> QED
      BY <3>1 DEF SchemaInv, TypeOK, WorksOnlyMigrated, Working, Migrating
  <2>7. ASSUME NEW p \in Procs, Register(p) \/ Offer(p) \/ Place(p) PROVE SchemaInv'
    <3>1. /\ pc[p] \in Working /\ tables' = tables /\ recorded' = recorded
          /\ pc'[p] \notin Migrating
          /\ \A q \in Procs : q # p => pc'[q] = pc[q] /\ at'[q] = at[q]
      BY <2>7 DEF Register, Offer, Place, Goto, schema, TypeOK, Working, Migrating
    <3> QED
      BY <3>1 DEF SchemaInv, WorksOnlyMigrated
  <2>8. CASE UNCHANGED <<pc, at, tables, recorded>>
    BY <2>8 DEF SchemaInv, WorksOnlyMigrated
  <2>9. ASSUME \/ \E p \in Procs : Repair(p)
               \/ \E a \in 1 .. 3 : VisitorRegisters(a)
               \/ \E l \in 1 .. 4, amount \in VisitorBids : VisitorPlaces(l, amount)
               \/ \E f \in Features : RollBack(f)
               \/ UNCHANGED vars
        PROVE UNCHANGED <<pc, at, tables, recorded>>
    BY <2>9 DEF Repair, VisitorRegisters, VisitorPlaces, RollBack, schema, vars
  <2> QED
    BY <2>1, <2>2, <2>3, <2>4, <2>5, <2>6, <2>7, <2>8, <2>9 DEF Next, Proceed
<1> QED
  BY <1>1, <1>2, Typed, PTL DEF Spec

\* Processes that migrate side by side without a lock, and die at any statement,
\* never let one of them work on a schema that lacks a table.
THEOREM MigratedFirst == Spec => []WorksOnlyMigrated
  BY SchemaHolds, PTL DEF SchemaInv

-----------------------------------------------------------------------------
\* The seed.

Untouched == \A i \in 1 .. 4 : lots[i] = 0 /\ bids[i] = 0

\* A run that registered the first address, and so alone goes past it.
Past(p) ==
  \/ pc[p] \in {"offering", "bidding", "complete"}
  \/ pc[p] = "registering" /\ at[p] > 1

\* How much of the plan is in the database, by where the run is that put it there.
Progress(p) ==
  /\ pc[p] = "registering" => Untouched
  /\ pc[p] = "offering" => \A i \in 1 .. 4 :
       bids[i] = 0 /\ lots[i] = IF i < at[p] THEN 1 ELSE 0
  /\ pc[p] = "bidding" => \A i \in 1 .. 4 :
       lots[i] = 1 /\ bids[i] = IF i < at[p] THEN 1 ELSE 0
  /\ pc[p] = "complete" => \A i \in 1 .. 4 : lots[i] = 1 /\ bids[i] = 1

SeedInv ==
  /\ account[1] = Nobody => Untouched
  /\ \A p \in Procs : Past(p) => account[1] = p /\ Progress(p)
  /\ SeededAtMostOnce

LEMMA SeedHolds == Spec => []SeedInv
<1>1. Init => SeedInv
  BY DEF Init, SeedInv, Past, Progress, Untouched, SeededAtMostOnce
<1>2. TypeOK /\ SeedInv /\ [Next]_vars => SeedInv'
  <2> SUFFICES ASSUME TypeOK, SeedInv, [Next]_vars PROVE SeedInv'
    OBVIOUS
  <2>1. ASSUME UNCHANGED rows, NEW p \in Procs, ~Past(p)',
               \A q \in Procs : q # p => pc'[q] = pc[q] /\ at'[q] = at[q]
        PROVE  SeedInv'
    BY <2>1 DEF SeedInv, Past, Progress, Untouched, SeededAtMostOnce, rows
  <2>2. ASSUME UNCHANGED <<pc, at, account, lots, bids>> PROVE SeedInv'
    BY <2>2 DEF SeedInv, Past, Progress, Untouched, SeededAtMostOnce
  <2>3. ASSUME NEW p \in Procs,
               Load(p) \/ Connect(p) \/ ListApplied(p) \/ CreateTable(p) \/ TableExists(p)
                 \/ Commit(p) \/ Outbid(p) \/ Die(p)
        PROVE  SeedInv'
    <3>1. /\ UNCHANGED rows
          /\ \/ pc'[p] \notin {"registering", "offering", "bidding", "complete"}
             \/ pc'[p] = "registering" /\ at'[p] = 1
          /\ \A q \in Procs : q # p => pc'[q] = pc[q] /\ at'[q] = at[q]
      BY <2>3 DEF Load, Connect, ListApplied, CreateTable, TableExists, Commit, Outbid,
        Die, AfterSet, Goto, TypeOK, rows
    <3>2. ~Past(p)'
      BY <3>1 DEF Past
    <3> QED
      BY <2>1, <3>1, <3>2
  <2>4. ASSUME NEW p \in Procs, Register(p) PROVE SeedInv'
    <3>1. CASE account[at[p]] # Nobody
      <4>1. /\ UNCHANGED rows /\ pc'[p] = "satisfied"
            /\ \A q \in Procs : q # p => pc'[q] = pc[q] /\ at'[q] = at[q]
        BY <2>4, <3>1 DEF Register, Goto, TypeOK, rows
      <4>2. ~Past(p)'
        BY <4>1 DEF Past
      <4> QED
        BY <2>1, <4>1, <4>2
    <3>2. CASE account[at[p]] = Nobody
      <4>1. /\ at[p] \in 1 .. 4 /\ UNCHANGED <<lots, bids>>
            /\ account' = [account EXCEPT ![at[p]] = p]
            /\ \/ pc'[p] = "registering" /\ at[p] < 3
               \/ pc'[p] = "offering" /\ at'[p] = 1
            /\ \A q \in Procs : q # p => pc'[q] = pc[q] /\ at'[q] = at[q]
        BY <2>4, <3>2, PlanSizes DEF Register, Goto, TypeOK
      <4>2. Untouched /\ \A q \in Procs : q # p => ~Past(q)
        <5>1. CASE at[p] = 1
          BY <3>2, <5>1, Apart DEF SeedInv
        <5>2. CASE at[p] > 1
          BY <2>4, <5>2 DEF Register, SeedInv, Past, Progress
        <5> QED
          BY <4>1, <5>1, <5>2
      <4>3. account'[1] = p
        <5>1. CASE at[p] = 1
          BY <4>1, <5>1 DEF TypeOK
        <5>2. CASE at[p] > 1
          <6>1. account[1] = p
            BY <2>4, <5>2 DEF Register, SeedInv, Past
          <6> QED
            BY <4>1, <5>2, <6>1 DEF TypeOK
        <5> QED
          BY <4>1, <5>1, <5>2
      <4>4. Untouched' /\ \A q \in Procs : q # p => ~Past(q)'
        BY <4>1, <4>2 DEF Untouched, Past
      <4>5. Progress(p)' /\ SeededAtMostOnce'
        BY <4>1, <4>4 DEF Progress, Untouched, SeededAtMostOnce
      <4> QED
        BY <4>3, <4>4, <4>5 DEF SeedInv
    <3> QED
      BY <3>1, <3>2
  <2>5. ASSUME NEW p \in Procs, Offer(p) \/ Place(p) PROVE SeedInv'
    <3>1. /\ account[1] = p /\ account' = account
          /\ \A q \in Procs : q # p => ~Past(q)
          /\ at[p] \in 1 .. 4
      BY <2>5 DEF Offer, Place, SeedInv, Past, TypeOK
    <3>2. \A q \in Procs : q # p => ~Past(q)'
      BY <2>5, <3>1 DEF Offer, Place, Goto, Past, TypeOK
    <3>3. Progress(p)' /\ SeededAtMostOnce'
      <4>1. CASE Offer(p)
        <5>1. /\ \A i \in 1 .. 4 : bids'[i] = 0 /\ lots'[i] = IF i <= at[p] THEN 1 ELSE 0
              /\ \/ at[p] < 4 /\ pc'[p] = "offering" /\ at'[p] = at[p] + 1
                 \/ at[p] = 4 /\ pc'[p] = "bidding" /\ at'[p] = 1
          BY <3>1, <4>1, PlanSizes DEF Offer, Goto, SeedInv, Past, Progress, TypeOK
        <5> QED
          BY <3>1, <5>1 DEF Progress, SeededAtMostOnce
      <4>2. CASE Place(p)
        <5>1. /\ \A i \in 1 .. 4 : lots'[i] = 1 /\ bids'[i] = IF i <= at[p] THEN 1 ELSE 0
              /\ \/ at[p] < 4 /\ pc'[p] = "bidding" /\ at'[p] = at[p] + 1
                 \/ at[p] = 4 /\ pc'[p] = "complete" /\ at'[p] = 1
          BY <3>1, <4>2, PlanSizes DEF Place, Goto, SeedInv, Past, Progress, TypeOK
        <5> QED
          BY <3>1, <5>1 DEF Progress, SeededAtMostOnce
      <4> QED
        BY <2>5, <4>1, <4>2
    <3> QED
      BY <3>1, <3>2, <3>3, Apart DEF SeedInv
  <2>6. ASSUME NEW a \in 1 .. 3, VisitorRegisters(a) PROVE SeedInv'
    <3>1. /\ UNCHANGED <<pc, at, lots, bids>>
          /\ account' = [account EXCEPT ![a] = Other] /\ account[a] = Nobody
      BY <2>6 DEF VisitorRegisters
    <3>2. \A p \in Procs : Past(p)' => a # 1 /\ Past(p)
      BY <3>1, Apart DEF SeedInv, Past
    <3> QED
      BY <3>1, <3>2, Apart DEF SeedInv, Past, Progress, Untouched, SeededAtMostOnce, TypeOK
  <2>7. ASSUME \/ \E p \in Procs : Repair(p)
               \/ \E l \in 1 .. 4, amount \in VisitorBids : VisitorPlaces(l, amount)
               \/ \E f \in Features : RollBack(f)
               \/ UNCHANGED vars
        PROVE UNCHANGED <<pc, at, account, lots, bids>>
    BY <2>7 DEF Repair, VisitorPlaces, RollBack, rows, vars
  <2> QED
    BY <2>2, <2>3, <2>4, <2>5, <2>6, <2>7 DEF Next, Proceed
<1> QED
  BY <1>1, <1>2, Typed, PTL DEF Spec

\* No two runs of the seed, at once or one after the death of another, ever
\* insert the same lot or bid of the plan.
THEOREM PlanAppliedOnce == Spec => []SeededAtMostOnce
  BY SeedHolds, PTL DEF SeedInv

\* A seed that reports completion has put every lot and bid of its plan into
\* the database, and nothing the other processes do takes that back.
THEOREM CompletionIsTrue == Spec => []CompleteIsWhole
<1>1. SeedInv => CompleteIsWhole
  BY DEF SeedInv, Past, Progress, CompleteIsWhole, Procs
<1> QED
  BY <1>1, SeedHolds, PTL

-----------------------------------------------------------------------------
\* The configuration.

\* What Repair makes of an environment.
Repaired(e, named) ==
  [k \in DOMAIN e \cup named |-> IF k \in named THEN Valid[k] ELSE e[k]]

\* A Telegram variable is a problem only together with the other one.
LEMMA TelegramFailsWhole ==
  ASSUME NEW e, NEW k \in TelegramKeys, NEW other \in TelegramKeys
  PROVE  /\ Fails(e, k) => Fails(e, other)
         /\ ~Fails(e, k) => (Given(e, k) <=> Given(e, other))
<1>1. /\ k \notin RequiredKeys /\ k \notin DOMAIN Limits
      /\ k # "JWT_SECRET" /\ k # "LOG_FORMAT"
      /\ k \in {"TELEGRAM_BOT_TOKEN", "TELEGRAM_CHAT_ID"}
      /\ other \in {"TELEGRAM_BOT_TOKEN", "TELEGRAM_CHAT_ID"}
  BY DEF TelegramKeys, RequiredKeys, Limits
<1>2. Given(e, k) \in BOOLEAN /\ Given(e, other) \in BOOLEAN
  BY DEF Given
<1>3. Fails(e, k) <=> \E j \in TelegramKeys : Given(e, j) # Given(e, k)
  BY <1>1 DEF Fails
<1>4. (\E j \in TelegramKeys : Given(e, j) # Given(e, other)) => Fails(e, other)
  BY DEF Fails
<1> QED
  BY <1>1, <1>2, <1>3, <1>4

\* Setting what one report names leaves nothing to report: repairing a variable
\* breaks no other one.
LEMMA RepairedLoads ==
  ASSUME NEW e
  PROVE  Problems(Repaired(e, Problems(e))) = {}
<1> DEFINE fixed == Repaired(e, Problems(e))
<1>1. ASSUME NEW k \in Problems(e)
      PROVE  /\ k \in Keys /\ Given(fixed, k) /\ fixed[k] = Valid[k] /\ Given(Valid, k)
             /\ ~Fails(Valid, k)
  BY ValidIsRight DEF Repaired, Problems, Given
<1>2. ASSUME NEW k \in Keys, k \notin Problems(e)
      PROVE  /\ ~Fails(e, k) /\ (Given(fixed, k) <=> Given(e, k))
             /\ Given(e, k) => fixed[k] = e[k]
  BY <1>2 DEF Repaired, Problems, Given
<1> HIDE DEF fixed
<1>3. TelegramKeys \subseteq Keys
  BY DEF Keys
<1>4. \A k, other \in TelegramKeys : Given(fixed, k) <=> Given(fixed, other)
  <2> SUFFICES ASSUME NEW k \in TelegramKeys, NEW other \in TelegramKeys
               PROVE  Given(fixed, k) <=> Given(fixed, other)
    OBVIOUS
  <2>1. CASE k \in Problems(e)
    <3>1. other \in Problems(e)
      BY <2>1, <1>3, TelegramFailsWhole DEF Problems
    <3> QED
      BY <2>1, <3>1, <1>1
  <2>2. CASE k \notin Problems(e)
    <3>1. other \notin Problems(e)
      BY <2>2, <1>3, TelegramFailsWhole DEF Problems
    <3>2. Given(e, k) <=> Given(e, other)
      BY <2>2, <1>2, <1>3, TelegramFailsWhole
    <3> QED
      BY <2>2, <3>1, <3>2, <1>2, <1>3
  <2> QED
    BY <2>1, <2>2
<1>5. ASSUME NEW k \in Keys PROVE ~Fails(fixed, k)
  <2>1. ~(k \in TelegramKeys /\ \E j \in TelegramKeys : Given(fixed, j) # Given(fixed, k))
    <3>1. \A j : Given(fixed, j) \in BOOLEAN
      BY DEF Given
    <3> QED
      BY <1>4, <3>1
  <2>2. CASE k \in Problems(e)
    <3>1. fixed[k] = Valid[k] /\ Given(fixed, k) /\ Given(Valid, k) /\ ~Fails(Valid, k)
      BY <1>1, <2>2
    <3> QED
      BY <2>1, <3>1 DEF Fails
  <2>3. CASE k \notin Problems(e)
    <3>1. ~Fails(e, k) /\ (Given(fixed, k) <=> Given(e, k)) /\ (Given(e, k) => fixed[k] = e[k])
      BY <1>2, <2>3
    <3> QED
      BY <2>1, <3>1 DEF Fails
  <2> QED
    BY <2>2, <2>3
<1>6. Problems(fixed) = {}
  BY <1>5 DEF Problems
<1> QED
  BY <1>6 DEF fixed

\* A report that is out names all that is wrong, and nothing was repaired before.
RepairInv ==
  /\ report \in [Procs -> SUBSET Keys]
  /\ repairs \in {0, 1}
  /\ \A p \in Procs : report[p] # {} => report[p] = Problems(env) /\ repairs = 0
  /\ repairs = 1 => Problems(env) = {}

LEMMA RepairHolds == Spec => []RepairInv
<1>1. Init => RepairInv
  BY DEF Init, RepairInv
<1>2. RepairInv /\ [Next]_vars => RepairInv'
  <2> SUFFICES ASSUME RepairInv, [Next]_vars PROVE RepairInv'
    OBVIOUS
  <2>1. ASSUME NEW p \in Procs, Load(p) PROVE RepairInv'
    <3>1. /\ report' = [report EXCEPT ![p] = Problems(env)]
          /\ env' = env /\ repairs' = repairs
      BY <2>1 DEF Load
    <3>2. Problems(env) \in SUBSET Keys /\ Problems(env') = Problems(env)
      BY <3>1 DEF Problems
    <3> HIDE DEF Problems
    <3> QED
      BY <3>1, <3>2 DEF RepairInv
  <2>2. ASSUME NEW p \in Procs, Repair(p) PROVE RepairInv'
    <3>1. /\ report[p] = Problems(env) /\ repairs = 0
          /\ env' = Repaired(env, report[p])
          /\ repairs' = 1 /\ report' = [q \in Procs |-> {}]
      BY <2>2 DEF Repair, Repaired, RepairInv
    <3>2. Problems(env') = {}
      BY <3>1, RepairedLoads
    <3> QED
      BY <3>1, <3>2 DEF RepairInv
  <2>3. CASE UNCHANGED config
    BY <2>3 DEF RepairInv, config, Problems
  <2>4. ASSUME NEW p \in Procs, Proceed(p) \/ Die(p) PROVE UNCHANGED config
    BY <2>4 DEF Proceed, Connect, ListApplied, CreateTable, TableExists, Commit, Register,
      Offer, Place, Outbid, Die
  <2>5. ASSUME \/ \E a \in 1 .. 3 : VisitorRegisters(a)
               \/ \E l \in 1 .. 4, amount \in VisitorBids : VisitorPlaces(l, amount)
               \/ \E f \in Features : RollBack(f)
               \/ UNCHANGED vars
        PROVE UNCHANGED config
    BY <2>5 DEF VisitorRegisters, VisitorPlaces, RollBack, vars, config
  <2> QED
    BY <2>1, <2>2, <2>3, <2>4, <2>5 DEF Next
<1> QED
  BY <1>1, <1>2, PTL DEF Spec

\* Whatever .env holds, one error names everything that is wrong with it: who
\* mends that much never sees a second one.
THEOREM OneErrorNamesAll == Spec => []OneRepairIsEnough
<1>1. RepairInv => OneRepairIsEnough
  BY DEF RepairInv, OneRepairIsEnough
<1> QED
  BY <1>1, RepairHolds, PTL
=============================================================================
