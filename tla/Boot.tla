-------------------------------- MODULE Boot --------------------------------
(***************************************************************************)
(* How a process comes up: the runs of cmd/server and cmd/seed load the    *)
(* configuration, open the pool and apply the migrations of each feature   *)
(* in turn; then the server serves, and the seed fills the database        *)
(* through the functions of the features.  They do all this side by side   *)
(* on one database, and any of them may die at any step.  The server's     *)
(* container restarts it; a seed runs when somebody starts it.             *)
(*                                                                         *)
(* A feature's functions are one step each here: their inner steps, and    *)
(* what else may be done with a lot, are Accounts and Bidding.             *)
(***************************************************************************)
EXTENDS Config, Sequences, FiniteSets

CONSTANTS
  Servers, Seeds,  \* processes
  Environments,    \* what .env may hold before anybody repairs it
  Valid,           \* a right value for every variable
  VisitorBids,     \* amounts visitors bid
  Nobody, Other,   \* no process; a session whose process died, or a visitor
  MaxFaults,       \* failed statements and deaths of a process
  MaxRuns          \* runs of one seed

Procs == Servers \cup Seeds

ASSUME Apart == Servers \cap Seeds = {} /\ Nobody \notin Procs
                /\ Other \notin Procs /\ Other # Nobody

\* The values a repair sets are none that load refuses.
ASSUME ValidIsRight == \A k \in Keys : Given(Valid, k) /\ ~Fails(Valid, k)

Features == {"users", "lots", "bids"}
Sets == <<"users", "lots", "bids">>

\* The seed's plan.  Owners are indices of Addresses, lots of LotSpecs.
Addresses == <<"alice", "bob", "carol">>
LotSpecs == <<[owner |-> 1, start |-> 50], [owner |-> 1, start |-> 120],
              [owner |-> 2, start |-> 30], [owner |-> 3, start |-> 10]>>
BidSpecs == <<[lot |-> 1, amount |-> 55], [lot |-> 1, amount |-> 60],
              [lot |-> 1, amount |-> 70], [lot |-> 3, amount |-> 35]>>

VARIABLES
  env, repairs,    \* the environment, and how often an operator repaired it
  pc, at,          \* where each process is, and at which item of that phase
  report,          \* the variables its configuration error names
  held,            \* the process whose open transaction creates a feature's table
  tables,          \* the tables that exist
  recorded,        \* the features whose version table says 1
  account,         \* who registered an address
  lots, bids,      \* how many rows each spec of the seed has
  price,           \* the top bid of the seed's lots, 0 without one
  faults, runs     \* what MaxFaults and MaxRuns bound

vars == <<env, repairs, pc, at, report, held, tables, recorded, account, lots,
          bids, price, faults, runs>>

Phases == {"down", "connecting", "listing", "creating", "committing",
           "serving", "registering", "offering", "bidding",
           "complete", "satisfied"}   \* satisfied: "seed already applied; nothing to do"

Amounts == {BidSpecs[j].amount : j \in DOMAIN BidSpecs} \cup VisitorBids

TypeOK ==
  /\ pc \in [Procs -> Phases]
  /\ at \in [Procs -> 1 .. 4]
  /\ held \in [Features -> Procs \cup {Nobody, Other}]
  /\ tables \subseteq Features /\ recorded \subseteq Features
  /\ account \in [1 .. 3 -> Procs \cup {Nobody, Other}]
  /\ lots \in [1 .. 4 -> Nat] /\ bids \in [1 .. 4 -> Nat]
  /\ price \in [1 .. 4 -> Amounts \cup {0}]

Init ==
  /\ env \in Environments /\ repairs = 0
  /\ pc = [p \in Procs |-> "down"] /\ at = [p \in Procs |-> 1]
  /\ report = [p \in Procs |-> {}]
  /\ held = [f \in Features |-> Nobody]
  /\ tables = {} /\ recorded = {}
  /\ account = [a \in 1 .. 3 |-> Nobody]
  /\ lots = [l \in 1 .. 4 |-> 0] /\ bids = [b \in 1 .. 4 |-> 0]
  /\ price = [l \in 1 .. 4 |-> 0]
  /\ faults = 0 /\ runs = [p \in Procs |-> 0]

config == <<env, repairs, report>>
schema == <<held, tables, recorded>>
rows == <<account, lots, bids, price>>
bounds == <<faults, runs>>

Goto(p, phase, i) ==
  /\ pc' = [pc EXCEPT ![p] = phase]
  /\ at' = [at EXCEPT ![p] = i]

-----------------------------------------------------------------------------
\* Configuration and connection.

\* config.Load, of a server that its container restarts or of a seed somebody
\* runs: every problem is reported, and the process exits.
Load(p) ==
  /\ pc[p] \in {"down", "complete", "satisfied"}
  /\ p \in Seeds => runs[p] < MaxRuns
  /\ runs' = [runs EXCEPT ![p] = IF p \in Seeds THEN @ + 1 ELSE @]
  /\ report' = [report EXCEPT ![p] = Problems(env)]
  /\ Goto(p, IF Problems(env) = {} THEN "connecting" ELSE "down", 1)
  /\ UNCHANGED <<env, repairs, faults, schema, rows>>

\* An operator sets the variables an error names, each to a right value.
Repair(p) ==
  /\ report[p] # {}
  /\ env' = [k \in DOMAIN env \cup report[p] |->
               IF k \in report[p] THEN Valid[k] ELSE env[k]]
  /\ repairs' = repairs + 1
  /\ report' = [q \in Procs |-> {}]
  /\ UNCHANGED <<pc, at, schema, rows, bounds>>

\* postgres.New: the ping went through.
Connect(p) ==
  /\ pc[p] = "connecting"
  /\ Goto(p, "listing", 1)
  /\ UNCHANGED <<config, schema, rows, bounds>>

-----------------------------------------------------------------------------
\* RunMigrations: one feature after the other.

\* After the last set a server serves and a seed begins.
AfterSet(p) ==
  IF at[p] < Len(Sets) THEN Goto(p, "listing", at[p] + 1)
  ELSE Goto(p, IF p \in Servers THEN "serving" ELSE "registering", 1)

\* goose reads which versions the version table holds, without a lock.
ListApplied(p) ==
  /\ pc[p] = "listing"
  /\ IF Sets[at[p]] \in recorded THEN AfterSet(p) ELSE Goto(p, "creating", at[p])
  /\ UNCHANGED <<config, schema, rows, bounds>>

\* Mistake: a set is left to whoever is at it already.
CreateUnlessBusy(p) ==
  LET f == Sets[at[p]] IN
  /\ pc[p] = "creating"
  /\ f \notin tables
  /\ IF held[f] = Nobody
     THEN held' = [held EXCEPT ![f] = p] /\ Goto(p, "committing", at[p])
     ELSE UNCHANGED held /\ AfterSet(p)
  /\ UNCHANGED <<config, tables, recorded, rows, bounds>>

\* The migration's transaction begins and creates the table; it waits for
\* another transaction that creates it.
CreateTable(p) ==
  LET f == Sets[at[p]] IN
  /\ pc[p] = "creating"
  /\ held[f] = Nobody /\ f \notin tables
  /\ held' = [held EXCEPT ![f] = p]
  /\ Goto(p, "committing", at[p])
  /\ UNCHANGED <<config, tables, recorded, rows, bounds>>

\* The table is there by now: the statement fails, and with it the process.
TableExists(p) ==
  /\ pc[p] = "creating"
  /\ Sets[at[p]] \in tables
  /\ Goto(p, "down", 1)
  /\ UNCHANGED <<config, schema, rows, bounds>>

\* Mistake: the version row is a statement of its own, and is lost.
CommitUnrecorded(p) ==
  LET f == Sets[at[p]] IN
  /\ pc[p] = "committing"
  /\ tables' = tables \cup {f}
  /\ held' = [held EXCEPT ![f] = Nobody]
  /\ IF faults < MaxFaults THEN recorded' = recorded /\ Goto(p, "down", 1)
     ELSE recorded' = recorded \cup {f} /\ AfterSet(p)
  /\ UNCHANGED <<config, rows, bounds>>

\* The version row goes into the same transaction.
Commit(p) ==
  LET f == Sets[at[p]] IN
  /\ pc[p] = "committing"
  /\ tables' = tables \cup {f}
  /\ recorded' = recorded \cup {f}
  /\ held' = [held EXCEPT ![f] = Nobody]
  /\ AfterSet(p)
  /\ UNCHANGED <<config, rows, bounds>>

-----------------------------------------------------------------------------
\* The seed, one call of a feature's function at a time.

\* Mistake: the seed goes on with the account it finds.
RegisterOrLogin(p) ==
  LET a == at[p] IN
  /\ pc[p] = "registering"
  /\ account' = [account EXCEPT ![a] = IF @ = Nobody THEN p ELSE @]
  /\ IF a < Len(Addresses) THEN Goto(p, "registering", a + 1)
     ELSE Goto(p, "offering", 1)
  /\ UNCHANGED <<config, schema, lots, bids, price, bounds>>

\* Register.  The first address that is taken ends the run.
Register(p) ==
  LET a == at[p] IN
  /\ pc[p] = "registering"
  /\ IF account[a] # Nobody
     THEN /\ Goto(p, "satisfied", 1)
          /\ UNCHANGED account
     ELSE /\ account' = [account EXCEPT ![a] = p]
          /\ IF a < Len(Addresses) THEN Goto(p, "registering", a + 1)
             ELSE Goto(p, "offering", 1)
  /\ UNCHANGED <<config, schema, lots, bids, price, bounds>>

\* Mistake: one lot too many.
OfferPastTheEnd(p) ==
  LET l == at[p] IN
  /\ pc[p] = "offering"
  /\ lots' = [lots EXCEPT ![l] = @ + 1]
  /\ IF l <= Len(LotSpecs) THEN Goto(p, "offering", l + 1)
     ELSE Goto(p, "bidding", 1)
  /\ UNCHANGED <<config, schema, account, bids, price, bounds>>

\* Create, of a lot whose owner this run registered.
Offer(p) ==
  LET l == at[p] IN
  /\ pc[p] = "offering"
  /\ lots' = [lots EXCEPT ![l] = @ + 1]
  /\ IF l < Len(LotSpecs) THEN Goto(p, "offering", l + 1)
     ELSE Goto(p, "bidding", 1)
  /\ UNCHANGED <<config, schema, account, bids, price, bounds>>

\* The lot is open for 72 hours: its price is what refuses a bid.
Accepts(l, amount) ==
  IF price[l] = 0 THEN amount >= LotSpecs[l].start ELSE amount > price[l]

\* Place, after which the last bid completes the run.
Place(p) ==
  LET b == BidSpecs[at[p]] IN
  /\ pc[p] = "bidding"
  /\ Accepts(b.lot, b.amount)
  /\ price' = [price EXCEPT ![b.lot] = b.amount]
  /\ bids' = [bids EXCEPT ![at[p]] = @ + 1]
  /\ IF at[p] < Len(BidSpecs) THEN Goto(p, "bidding", at[p] + 1)
     ELSE Goto(p, "complete", 1)
  /\ UNCHANGED <<config, schema, account, lots, bounds>>

\* Mistake: a refused bid is only logged.
OutbidIgnored(p) ==
  LET b == BidSpecs[at[p]] IN
  /\ pc[p] = "bidding"
  /\ ~Accepts(b.lot, b.amount)
  /\ IF at[p] < Len(BidSpecs) THEN Goto(p, "bidding", at[p] + 1)
     ELSE Goto(p, "complete", 1)
  /\ UNCHANGED <<config, schema, rows, bounds>>

\* Somebody else's bid is as high: Place fails, and the run with it.
Outbid(p) ==
  LET b == BidSpecs[at[p]] IN
  /\ pc[p] = "bidding"
  /\ ~Accepts(b.lot, b.amount)
  /\ Goto(p, "down", 1)
  /\ UNCHANGED <<config, schema, rows, bounds>>

-----------------------------------------------------------------------------
\* Everybody else.

Served == \E s \in Servers : pc[s] = "serving"

\* A visitor registers an address the seed wants, or bids on one of its lots.
VisitorRegisters(a) ==
  /\ Served
  /\ account[a] = Nobody
  /\ account' = [account EXCEPT ![a] = Other]
  /\ UNCHANGED <<pc, at, config, schema, lots, bids, price, bounds>>

VisitorPlaces(l, amount) ==
  /\ Served
  /\ lots[l] > 0 /\ Accepts(l, amount)
  /\ price' = [price EXCEPT ![l] = amount]
  /\ UNCHANGED <<pc, at, config, schema, account, lots, bids, bounds>>

\* A statement fails and takes the process with it, or the process is killed:
\* in both cases its transaction is left to the database.
Die(p) ==
  /\ pc[p] \notin {"down", "complete", "satisfied"}
  /\ faults < MaxFaults
  /\ faults' = faults + 1
  /\ held' = [f \in Features |-> IF held[f] = p THEN Other ELSE held[f]]
  /\ Goto(p, "down", 1)
  /\ UNCHANGED <<config, tables, recorded, rows, runs>>

\* The database notices that a session is gone and rolls it back.
RollBack(f) ==
  /\ held[f] = Other
  /\ held' = [held EXCEPT ![f] = Nobody]
  /\ UNCHANGED <<pc, at, config, tables, recorded, rows, bounds>>

Proceed(p) ==
  \/ Connect(p) \/ ListApplied(p) \/ CreateTable(p) \/ TableExists(p) \/ Commit(p)
  \/ Register(p) \/ Offer(p) \/ Place(p) \/ Outbid(p)

Next ==
  \/ \E p \in Procs : Load(p) \/ Repair(p) \/ Proceed(p) \/ Die(p)
  \/ \E a \in 1 .. 3 : VisitorRegisters(a)
  \/ \E l \in 1 .. 4, amount \in VisitorBids : VisitorPlaces(l, amount)
  \/ \E f \in Features : RollBack(f)

Spec == Init /\ [][Next]_vars

\* A process that runs goes on, a container restarts its server, an operator
\* repairs a configuration the server refuses, and the database rolls back.
Fairness ==
  /\ \A p \in Procs : WF_vars(Proceed(p))
  /\ \A s \in Servers : WF_vars(Load(s)) /\ WF_vars(Repair(s))
  /\ \A f \in Features : WF_vars(RollBack(f))

FairSpec == Spec /\ Fairness

-----------------------------------------------------------------------------
\* Properties.

Working == {"serving", "registering", "offering", "bidding"}

\* Nobody serves a request and no row is seeded before every feature's table
\* is there, whoever created it and whatever failed on the way
\* (server/main.go:52-59, "before the server accepts traffic" of RunMigrations).
WorksOnlyMigrated == \A p \in Procs : pc[p] \in Working => Features \subseteq tables

\* Two processes that migrate at once, a death in the middle and a broken .env
\* cost restarts, never the service: in the end every server serves
\* (applyMigrations has no lock, postgres.go:113-127; restart: unless-stopped).
ServesInTheEnd == <>[](\A s \in Servers : pc[s] = "serving")

\* Whoever mends all that one error names has a configuration that loads
\* (config.go:2-3, "reported in a single error").
OneRepairIsEnough == repairs <= 1

\* However often the seed runs, beside itself or after a run that died, it
\* never inserts a lot or a bid of the plan twice (seed/main.go:6-8).
SeededAtMostOnce == \A i \in 1 .. 4 : lots[i] <= 1 /\ bids[i] <= 1

\* A run that says it completed left the whole plan in the database, whatever
\* visitors and other runs did meanwhile (seed/main.go:139-140).
CompleteIsWhole ==
  \A p \in Seeds : pc[p] = "complete" => \A i \in 1 .. 4 : lots[i] = 1 /\ bids[i] = 1

\* What the seed's doc concludes from an address that is taken: an earlier run
\* has seeded this database (seed/main.go:6-8).
AppliedMeansSeeded ==
  \A p \in Seeds :
    pc[p] = "satisfied" => \A i \in 1 .. 4 : lots[i] = 1 /\ bids[i] = 1

=============================================================================
