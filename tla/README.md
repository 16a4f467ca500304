# A TLA+ specification of Molot-lite

Molot-lite is an auction service in Go over one PostgreSQL database: users
register, put lots on offer and bid on them. This directory holds TLA+ models of
it, the TLC configurations that check them on small instances, and proofs of
their main properties for TLAPS. All paths below are relative to `src/`.

To check it, in this directory:

    tlc -workers 2 -config contest.cfg MCBidding  # any run of the table below
    tlapm BiddingProofs.tla                       # about three minutes; any *Proofs module

## The system

| Component | State | Operations | Talks to |
|---|---|---|---|
| bids (`internal/bids`) | table `bids` | Place, History | lots (`PlaceBidTx`), notify, postgres |
| lots (`internal/lots`) | table `lots` with the denormalized `current_price_minor` and `bid_count` | Create, Update, Delete, PlaceBidTx, Get, List | users (`UserExists`), postgres |
| users (`internal/users`), auth (`internal/platform/auth`) | table `users`; tokens carry a user id and an expiry, the server keeps none | Register, Login, Profile, UserExists; GenerateToken, Middleware | postgres |
| notify (`internal/notify`) | none | Outbid | a Telegram HTTP endpoint |
| postgres (`internal/platform/postgres`) | connection pool, goose version tables | RunInTx, RunMigrations | the database |
| server (`internal/platform/server`) | readiness flag, per-IP token buckets, the listener | routing, rate limiter, CORS, Run (graceful shutdown) | all handlers |
| errs, config, logs | none | slug errors to HTTP answers, settings, log records | |
| `cmd/server`, `cmd/seed` | none | boot, migrate, serve; fill an empty database through the features' service functions | |

A request runs in its own goroutine: the handler parses it, a service function
validates it and talks to the database through the pool. Features call each
other's service functions and never read each other's tables, and no foreign key
crosses a feature: what ties `bids`, `lots` and `users` together is code. What is
shared is the database (row locks, committed rows) and the pool (its
connections); there is no other lock or queue on the write path. The one mutex of
the service guards the rate limiter's map, in front of registration and login.

What is hard here:

- **Concurrency.** A bid is five statements. The `FOR UPDATE` lock on the lots
  row is the only thing between several bids, edits and deletes of one lot, at
  READ COMMITTED, where each statement has its own snapshot.
- **Denormalization.** `bid_count` and `current_price_minor` repeat what the
  bids table says, and Update and Delete trust the counter.
- **Failure.** A statement may fail, a connection may break before or after
  COMMIT was sent, the database may kill a session, the process may die: each
  between any two statements.
- **Time.** `now()` is the time the transaction began, not the time the lock was
  obtained.
- **Resources.** A transaction holds one pooled connection while it waits for a
  row lock.
- **Paging.** A page is two statements on two snapshots, the next page another
  request, and rows come, close and move in between.
- **Starting.** Server and seed migrate one empty database side by side without a
  lock, and the seed decides from one row whether it has run before.
- **Stopping.** A signal or a failing listener may come at any moment of requests,
  transactions and readiness probes.
- **Sessions.** A token is believed for its 24 hours, whatever becomes of the
  `users` row behind it.
- **Forgetting.** The rate limiter drops the buckets of idle clients, judging by
  three readings of the clock taken at different moments.

What makes each component correct:

- *lots and bids*: one winner per amount; the price is the top bid; the counter
  is the number of bids; no bid without its lot; terms frozen once there is a
  bid; both rows of a bid or neither; answers that tell the truth.
- *notify*: told only after the commit, and only the bidder who was displaced.
- *reading*: a client who walks through the pages sees every bid, and overlooks no
  more lots than went away meanwhile.
- *postgres*: every transaction ends, no lock and no connection is kept.
- *users, auth*: one row per e-mail; a 201 is a login that works; every lot's owner
  has a row; a session shows its own account or none, and ends when it should.
- *boot, config, seed*: nobody works before the tables are there, a server comes up
  in the end, one error names all that is wrong, nothing is seeded twice.
- *server*: a client is not let past its budget; in-flight requests finish
  before the process ends.

## Modules

| Module | Models | Depends on |
|---|---|---|
| `AuctionData` | rows of the two tables, row-level computations, constants and their assumptions | |
| `Auction` | the abstract specification: every request takes effect on both tables in one step; the invariants of the tables | `AuctionData` |
| `Bidding` | the write path, one SQL statement per action, with pool, sessions, failures and crashes; implements `Auction` | `Auction` |
| `Reading` | clients who walk through List and History while the auction goes on | `Auction` |
| `RunInTx` | the transaction helper around an arbitrary function that returns, fails or panics | |
| `Accounts` | Register, Login, Profile and the session tokens; a backup and a restore | |
| `Config` | what `load` finds wrong with an environment | |
| `Boot` | configuration, connection, migrations and the seed, by several processes on one database | `Config` |
| `Shutdown` | signal, listener, drain, requests in flight, pool, exit | |
| `BucketData` | the arithmetic of a token bucket, constants and their assumptions | |
| `TokenBuckets` | the abstract rate limiter: one bucket per client, for ever | `BucketData` |
| `RateLimit` | the rate limiter as built: map, mutex, janitor, ticker; implements `TokenBuckets` | `BucketData`, `TokenBuckets` |
| `AuctionProofs`, `BiddingProofs`, `ReadingProofs`, `RunInTxProofs`, `AccountsProofs`, `BootProofs`, `ShutdownProofs`, `RateLimitProofs` | theorems and proofs | |
| `MCBidding`, `MCReading`, `MCAccounts`, `MCBoot`, `MCShutdown`, `MCRateLimit` | the instances TLC checks: initial rows, sets of calls, symmetry | |

How they fit together: `Bidding` implements `Auction`, and `Reading` lets its
readers walk over any behaviour of `Auction`; so what a reader is promised holds
over the service. `Accounts` details what `Bidding` asks with `UserExists`, and
`RunInTx` the transactions of `Bidding` for functions that may panic. `Boot` ends
where the others begin, with tables and a server; in it each service function is
one step, since what happens inside them is checked in `Accounts` and `Bidding`.
`Shutdown` is the end of the same process.

`Bidding` extends `Auction` and shares its two variables, the committed tables,
so the refinement mapping is the identity and `ImplementsAuction` is simply
`AuctionSpec`. It is a plain `EXTENDS` and no `INSTANCE ... WITH` because the
proofs use the theorems of `AuctionProofs`, and tlapm does not carry theorems
through an instance.

Operators whose comment begins with *Mistake* are not part of the model and no
specification uses them. Each is a plausible error in a definition that follows
it (a plain `SELECT` for the `FOR UPDATE`, `<` for `<=`, an insert outside the
transaction, ...). Put in the place of that definition it makes the property
listed with it in `PROJECT.json` fail, which shows that the property depends on
the code and not on the shape of the model.

### How Bidding corresponds to the code

| In `Bidding` | In the code |
|---|---|
| `lots`, `bids` | the committed rows of the two tables |
| `lock`, `txn`, `began`, `lotWrite`, `bidWrite` | a database session: row locks, transaction state, `now()`, uncommitted rows |
| `pc`, `seen`, `outbid`, `outcome` | a handler goroutine: where it is, the `Lot` it read, the previous top bidder, its answer |
| `call` | path, body and token of the request |
| `minted` | the uuids ever stored; `uuid.New` does not repeat one |
| `notes` | messages that reached Telegram |
| `clock` | the one clock of service and database |

Actions, in the order of a bid: `Arrive` (the checks before the database),
`Begin` (takes a connection), `LockForBid` (`getLotForUpdate` and the guards of
`PlaceBidTx`), `ApplyBid`, `TopBidder`, `InsertBid`, `Commit` (COMMIT sent),
`ServerCommit` (the database commits), `CommitAnswered`, `Outbid`. Update and
Delete share `Begin`, `LockForOwner`, `Commit`; their own steps are `UpdateLot`
and `DeleteLot`. Create is `UserExists` and `InsertLot`, two transactions. After
an error comes `Rollback`. A session and its handler fail apart: `Fails`,
`CommitAnswerLost` and `RollbackLost` are a statement or a connection failing
under the handler, `Kill` and `SessionLost` a session ended by the database,
`Abandon` the database dropping the session of a handler that is gone, `Crash`
the process dying with all its handlers.

Facts about PostgreSQL that the model takes for granted: READ COMMITTED, the
default; `now()` is the transaction's start; a `FOR UPDATE` that waited returns
the row as last committed, or nothing if it was deleted; an open transaction is
invisible to others and vanishes with its session.

### How RateLimit corresponds to the code

The rate limiter shares no state with the write path, so it is a specification of
its own. One run of it is one life of the process: a restart begins with an
empty map, as its comment says.

| In `RateLimit` | In the code (`internal/platform/server/ratelimit.go`) |
|---|---|
| `visitors` | `rl.visitors`: per address the limiter's tokens and last update, and `lastSeen` |
| `inside` | who holds `rl.mu` in `allow` |
| `due`, `tick` | the ticker: time to its next tick, and its channel with room for one |
| `sweepAt` | the `now` with which the janitor waits for `rl.mu` |
| `clock`, `spent` | the time; the requests let through since each tick (a history variable) |

`allow` is two actions, `Lookup` and `Allow`, because it reads the clock twice,
once for `lastSeen` and once inside `rate.Limiter.Allow`; the janitor is two,
`JanitorWakes` and `Sweep`, because it reads the clock before it waits for the
mutex. `Sweep` itself has no step inside: it holds the mutex and reads no clock.
`MaxStall` bounds how long `allow` may be suspended between its two readings.

The refinement mapping is `Level`: what a client's bucket holds at this moment,
and a full bucket for a client the map does not know. `ImplementsTokenBuckets`
says that the steps of the limiter are, through this mapping, those of
`TokenBuckets`; `Sweep` must then be a stutter, which it is only if everything it
drops is full again.

### How Reading corresponds to the code

`walk` is a client: the page he asks for, the size, the total he was told, and
what he has seen. `Ask` is the handler up to `validPage`; `Count` and `Select` are
the two statements of List and of History, each on the tables as they are at that
moment. `Write` is any step of `Auction` that the validation of ends allows, and
`Tick` moves `now()`, by which lots leave the listing. Rows that ORDER BY leaves
equal come in any order, so `Pages` is the set of pages PostgreSQL may return.
`owed`, `lost` and `tied` are history variables for the two properties.

### How RunInTx corresponds to the code

`step` is where the call is, `err` its named result, `panicking` whether a panic
unwinds the stack. `FnPanics` leaves `err` as it was, nil, and the deferred
`finishTx` then takes the branch of `Commit`. A statement that failed dooms the
transaction, and COMMIT rolls it back; a connection may break at any time.

### How Accounts corresponds to the code

`users` is the table; `promised` remembers who was answered 201. A handler goes
through `Arrive`, then `InsertUser` or `EmailTaken` (Register), `LoginGranted` or
`LoginRefused` (Login), or `ArriveMe`, `Authenticate` and `Profile` (GET
/users/me). The insert may be stored and its answer lost. Of an address the model
keeps the spelling and what `normalizeEmail` makes of it, of a password its length
and its first 72 bytes. A tick is a part of a second, because `NewNumericDate`
drops fractions. `Backup` and `Restore` are an operator with `deploy/backup.sh`.

### How Boot corresponds to the code

`pc` and `at` say how far a run of `cmd/server` or `cmd/seed` has come: `Load`,
`Connect`, then per feature `ListApplied`, `CreateTable` and `Commit`, then
serving, or `Register`, `Offer` and `Place` item by item through the plan in the
seed's source. goose reads the version table without a lock; the migration and its
version row are one transaction, `held` is its lock on the table's name, and a
process that comes too late fails on `TableExists`, exits and is started again.
`Repair` is an operator who sets what the error names.

### How Shutdown corresponds to the code

`phase` is the main goroutine: serving, the shutdown hook, `srv.Shutdown`, the
return of `Run`, `pool.Close`, exit. `conn` holds what each client connection is
doing, a readiness probe that has read the flag and not yet answered among them.
A tick is about a second; the drain budget is `Drain`, and `Grace` after the
signal Docker kills the process.

### Abstractions

- Titles, descriptions, currencies, display names and a lot's creation time are
  left out. The refusals for them are those of a bad price or a bad address, which
  are there.
- An id that was never minted is left out; it is answered like a deleted lot.
- The search term of List is left out: a lot whose title stops matching leaves the
  listing as a deleted one does.
- The statement that waits for a lock is one step, taken when the lock is free.
  A handler that gives up while it waits leaves a session that has not the lock;
  in PostgreSQL such a session may get it for a moment before it ends, which no
  other transaction can tell from a slower one.
- A killed or rolled back transaction drops its lock and rows in one step.
- Tokens of the rate limiter are exact. They are counted in parts, `Grain` to a
  token; the library uses floating point.
- A session token that was not signed here is refused like an expired one, and
  left out.
- goose creates a version table that is missing before it reads it, outside the
  migration's transaction and without a lock. `ListApplied` only reads: a process
  that loses the race for the version table exits and is started again, like one
  that comes too late in `TableExists`.
- `Registered`, the users table as Create sees it, is constant: no code deletes a
  row of it, and a restore under a running Create is left out.
- In `Boot` service functions are atomic, and the price is the only thing about
  a lot of the seed that may refuse its bid: the lots are open for 72 hours.

## Runs

Each of the passing runs is exhaustive for its bounds and takes from seconds to two
minutes.

| Run | Bounds | Checks | Shows |
|---|---|---|---|
| `contest` | 3 requests, pool 3, clock 0..2 | `WritesAreUnderTheLock`, `NotesAreTrue`, `OneWinnerPerAmount`, `PriceIsTop`, `BidsFitTheTerms`, `ImplementsAuction`, `FrozenOnceBid` | bids with equal and different amounts, edits of price and end, and deletes, in every interleaving of their statements while time passes; all of it implements the abstract auction |
| `faults` | 3 requests, pool 2, 1 fault, 1 crash | `AnswersAreTrue`, `CommitsAreWhole`, `CountMatches` | a failure of any kind and a crash at any point |
| `live` | 2 requests, 3 ids, pool 1, 1 fault, 1 crash | `TypeOK`, `OwnersAreRegistered`, `NoOrphanBids`, `EveryRequestEnds`, `EveryLockIsReleased` | nothing waits for ever; lots are created, bid on and deleted, by a caller without a users row too |
| `reading` | 2 lots, prices 1..3, 3 bids, 3 writes, pages of 1 and 2, clock 0..3 | `TypeOK`, `HistoryWalkIsComplete`, `MissesAreAccounted` | one reader, every way the tables may change between his statements |
| `accounts` | 2 handlers, 1 address in 2 spellings and a bad one, 4 passwords, 2 tokens, 1 fault, 1 restore | `TypeOK`, `OneAccountPerAddress`, `ProfileIsOwn`, `LoginIsKept`, `SessionsLast` | registrations and logins race, answers get lost, the database goes back under tokens that live on |
| `boot` | 1 server, 2 seeds of 2 runs each, 1 fault, 4 environments, visitors bidding 60 | `TypeOK`, `WorksOnlyMigrated`, `OneRepairIsEnough`, `SeededAtMostOnce`, `CompleteIsWhole`, `ServesInTheEnd` | three processes boot on one empty database, with a death anywhere |
| `stop` | 3 connections, pool 1, budget 2, grace 3 | `TypeOK`, `CleanReturnServedAll`, `NoTransactionIsCut`, `ReadinessLeads`, `BudgetIsGiven`, `StopsByItself` | a signal or a failing listener at any moment |
| `limiter` | 2 clients, burst 2 at one token per tick, TTL 3, period 1, stall 1, clock 0..5 | `TypeOK`, `IdleAreForgotten`, `Budget`, `ImplementsTokenBuckets` | a bucket that needs all of the TTL less the stall to refill; forgetting it is not noticed |
| `late`, `history` | 2 requests, no faults | one documented claim each | the claim is violated, see *Findings* |
| `panic` | 2 rows | `CommitsOnlyOnNil` | the same |
| `seed` | 1 seed of 2 runs, 1 fault | `AppliedMeansSeeded` | the same |

In `Bidding` one lot `l1` of `owner`, price 1, closing at tick 2, is there from the
start, and bids go up to 4: enough for a tie, two raises, a bid dated before, at
and (the end may be brought forward to 1, and back) after the close. Three requests are two rivals and a third that
comes between them or before them: a first bid to be beaten, a lock to queue for,
an edit to slip in. All conditions of the code relate one request to one row, so a
fourth adds no new kind of conflict; the proofs below do not depend on the number
at all. One fault and one crash already meet every pair of steps, since each may
come anywhere. Pool sizes 1, 2 and 3 are a pool that serializes everything, one
that is exhausted by waiting requests, and one that never is.

In `Reading` three writes are a row that goes, one that comes and one that moves,
all between two pages. In `Accounts` two handlers race for one address; a second
address would be independent of it. In `Boot` a seed beside a seed and a server is
every pair of processes that can meet, and four environments have an empty
variable, a variable that is missing, a short secret, half a pair and values
out of range, alone and together. In `Shutdown` three connections are one in a
transaction, one waiting for the pool and a probe.

The rate limiter's clients do not affect each other but through the mutex, so two
are enough. The clock runs for a TTL and more, so that a client is seen, idle,
dropped, back, and idle again. The spans are chosen so that `Refills` holds with
equality, as near to the failure described below as can be.

Deadlock is checked in `contest`, `faults`, `late`, `history` and `limiter`:
`Quiet` lets a system with nothing left to do stutter, anything else without a
successor is an error. The others may really stop: a client need not call, a
reader is done, a process has exited, `RunInTx` has returned. `live`, `boot` and
`stop` state as liveness what must go on.

**Fairness** (`Fairness` in `Bidding`): a running handler takes its next step if
it can go on (goroutines are scheduled, a free connection or a released lock is
given to some waiter), and the database finishes a commit it was sent and drops
the session of a client that is gone. Weak fairness per request is enough,
because a connection or a lock, once free, is only taken by requests that will
end, and there are finitely many. Clients, the clock, faults and crashes are not
fair: nothing has to arrive, no time has to pass, nothing has to fail.

`Boot` is fair to the steps of a running process, to the container's restart of
the server (`restart: unless-stopped`), to the database's rollback of a dead
session and to an operator who mends a configuration the server refuses; not to
seeds, which somebody has to start, nor to visitors. `Shutdown` is fair to the
main goroutine, to handlers that hold what they need and to the clock; whether a
signal comes, and whether Docker kills, is left open.

### Findings

Four claims of the repository that the code does not keep; each is a run that
ends in a counterexample.

1. `late`: `internal/lots/storage.go:66` decides that a lot is closed with
   `now()`, the start of the transaction. A bid whose transaction began before the
   close is accepted after it, however long it takes to the locking SELECT: in
   TLC's trace nothing but time passes between the two, and a queue for the row
   lock makes it longer. Its `created_at` is before the end, so the tables stay
   consistent (`BidsFitTheTerms` holds).
2. `history`: for the same reason `created_at` does not order the bids the lock
   ordered. A bid can beat another and be listed below it.
3. `panic`: "commit when fn returns nil, rollback otherwise"
   (`internal/platform/postgres/postgres.go:40-41`). When fn panics, the deferred
   function finds the named error nil and commits. No fn of today's code panics by
   itself.
4. `seed`: an address that is taken is read as "a previous run already seeded this
   database" (`cmd/seed/main.go:6-8`). A run that died after its first account
   leaves a database that no later run completes, and each of them exits 0.

Smaller ones, found on the way and without a run:

- The bidder's row is never looked up, though the migration of `bids` says
  consistency is enforced in `PlaceBidTx`. It needs a token whose users row is
  gone, which a restored backup leaves behind.
- `sweep` drops a bucket after three idle minutes whether or not it is full again.
  With a burst larger than three minutes of the rate (RPS 1 and burst 200, within
  the bounds of the configuration) a client that pauses gets a second burst early.
  The default, 2 per second and a burst of 5, is far from it. This is why
  `EvictionIsInvisible` and `BudgetIsKept` assume `Refills`.
- "Run returns when the server has fully stopped"
  (`internal/platform/server/server.go:136-137`): when the budget is over it
  returns with handlers still at work; only `pool.Close` then waits for those in a
  transaction.
- "readyz turns 503, the load balancer drains the instance, then the listener
  closes" (`cmd/server/main.go:109-110`): nothing waits for the balancer.
- Passwords beyond 72 bytes "are rejected instead of being silently truncated"
  (`internal/users/service.go:29-30`). Register rejects them; Login compares their
  first 72 bytes.
- `(page-1)*pageSize` wraps around for huge pages, to a 500 or to page one.
- A client that stops paging when it has `total` rows may miss bids: the total is
  older than the page.
- For an empty `JWT_SECRET` the error says that it is not set, and not that 32
  bytes are needed; an operator who sets a short one is told so only next time.

## Proofs

`AuctionProofs`: `AuctionTypeOK /\ Consistent`, with the finiteness of the bids
table, is inductive for `AuctionSpec` (`AuctionConsistent`). `AuctionFreezes`
follows from it: bids of a lot are at most its price, and a new one is above.

`BiddingProofs`: type correctness alone is not inductive, and neither is any of
the properties, because a handler acts on what it read several steps before. The
inductive invariant `IInv` says for every request:

- `StageOK`: which transaction states and which answers go with each `pc`;
- `CleanOK`: a transaction that is not alive has no lock and no rows;
- `LockOK`: a lock is held by a live transaction for its own lot, so by one;
- `PassedOK`: behind the guards the verdict was "ok" *on the row as it still is*;
- `SeenOK`: the copy read under the lock is the committed row;
- `WrittenOK`: the uncommitted rows are those the operation makes of that row;
- `WholeOK`: at COMMIT all of them are there;
- `BidsOK`, `LotsOK`: bid ids are request ids that committed; a lot without bids
  costs its start price.

Only `ServerCommit` and `InsertLot` change the tables. For the first, `PassedOK`
gives the guard of `PlaceBid`, `EditLot` or `RemoveLot`, and `WrittenOK` and
`WholeOK` its effect; every other step leaves both tables as they are
(`Refinement`). With it the theorems about `Auction` hold of `Bidding`:
`BiddingConsistent`, with its parts `OneBidWins`, `PriceFollowsBids`,
`CounterFollowsBids`, `TermsStand` and `NoBidIsOrphaned`, and `BiddingFreezes`. All of it is for any users, lots,
requests, prices, calls, pool size and number of faults and crashes; the
assumptions used are those stated in `AuctionData` and `Bidding`: prices are
integers, times naturals, the null values are not rows, the initial lots have no
bids and owners with a users row, a caller sends a price where the JSON body has
one.

What is told to clients and bidders needs a second invariant, `TruthInv`, on top of
`IInv`, because an answer and a notification leave the database long after the
statement they are about:

- `AnswerOK`: an outcome is decided on the way out, success only after the commit,
  a refusal only by a transaction that cannot commit any more;
- `RecordedOK`: a committed bid has its row in the table;
- `OutbidOK`: whoever the handler holds as displaced was on top below this bid.
  As long as its transaction is open it has the lock (`WrittenOK`, `LockOK`), so
  nobody else's bid gets in, and afterwards every new bid is higher, so it is still true when Telegram hears of it, or in the next life of
  the process;
- `CallerOK`: `InsertLot` comes after `UserExists` answered yes.

`AnswersTellTheTruth`, `NotesTellTheTruth` and `OwnersStayRegistered` follow, with
`PriceIsTop` for the price a bidder is answered under. `OwnersStayRegistered`
rests on `InitOwnersAreRegistered`, which the code justifies: only Create stores
lots, and it asks first. `NoHoldAndWait`, by `LockOK` and `StageOK`, says why no
cycle of row locks and pooled connections is possible, however small the pool: one
lock per transaction, and whoever has it waits for no lock and no connection. That
the waiting then ends is the liveness that `live` checks.

`RateLimitProofs`: everything rests on `RInv`, which adds to the types that no
entry is dated in the future, that `last` is at most a stall ahead of `lastSeen`,
that whoever is inside has an entry, and that a sweep's time has passed. Two
theorems assume `Refills`, `Full <= Rps * (TTL - MaxStall)`, a condition on the
configuration (*Findings* says why; the default satisfies it for any stall
up to 177 seconds):

- `EvictionIsInvisible`: what `Sweep` drops was last updated at least
  `TTL - MaxStall` ago, so it is full, and `Level` does not change; refilling
  tick by tick is refilling at once.
- `BudgetIsKept`: for every tick `s`, what passed since `s` plus what is in the
  bucket is at most the burst plus what came in since (`AccountOK`). This is
  inductive over the steps of `TokenBuckets`, and so holds of `RateLimit`.

`IdleIsForgotten` has no such condition. Its invariant is that, when no tick is
waiting, the janitor has swept with a time not before the ticker's last tick, or
is about to. All of it, `RateLimitTyped` too, holds for any clients, rates, spans
and length of run.

`ReadingProofs`: every step of `Reading` is one of `Auction` or leaves its tables
alone (`ReadsAnAuction`), so the history's rows are totally ordered, by
`OneWinnerPerAmount`, and only ever come. `HistoryIsComplete` rests on a count: a
bid that was there and has not been seen has at least as many bids ahead of it as
the pages so far have rows, because a new bid can only push it further back. If
the next page does not show it either, that page was full. For any number of
bids, page size and writes.

The listing loses rows, so its count runs the other way (`ListInv`): `Overlooked`,
the owed lots that now sort within the pages behind the reader, are at most `lost`.
`SelectOverlooksNone` is `PageInOrder` once more, which both walks share. A write or
a tick that takes m lots from their places moves any other up by at most m
(`MovesUpByThose`), so the newly overlooked were among the m places after the
offset, and, no two lots closing at once, they are at most m (`PlacesDiffer`, by the
pigeonhole principle). The last page is not full, so whatever is unseen then is
overlooked (`ListingMissesAreAccounted`). TLC checked `ListInv` on the instance of
`reading` first.

`RunInTxProofs`: three facts about any fn, by one invariant that ties the
transaction to the step and what is stored to what is staged.

`AccountsProofs`: the invariant adds to the types that ids are unique and minted,
that addresses are unique, that every promise has its row with the matching hash,
that whatever the dump holds is consistent in the same way, and that a token's
subject, as long as a row has it, is the row it was issued for: ids are minted
once, so a restored and re-registered address gets another. `SessionsLastAsPromised`
is an action property: a token's expiry is the one its login computed
(`ExpiriesAreKept`), and rounding it down to a second costs less than that second
(`ExpiryBounds`).

`BootProofs`: `MigratedFirst` follows from what is recorded being there and a
process being past a set only when it is recorded. For the seed the invariant is
that only the process that registered the first address goes past it, that the
counts of lots and bids are those of its position in the plan, and that they are
zero as long as nobody has that address: so there is at most one such run ever.
`OneErrorNamesAll` holds because a report lists every problem of the environment it
was made from, and mending those leaves none: the two Telegram variables are
reported together or not at all (`TelegramFailsWhole`), so that setting one does
not turn the other into a new problem. It assumes `ValidIsRight`: what the operator sets is not refused for itself.

`ShutdownProofs`: the phases of the main goroutine imply what has been done
before them; no step of a handler takes that back. `OrderedShutdown` and
`BudgetIsGranted` are two of these. `TypeOK` holds the one the handlers depend on:
the pool is open until `Run` has returned, because `main` closes it and not the
shutdown hook.

Every invariant and every action property of the passing runs is now a theorem.
The liveness properties `EveryRequestEnds`, `EveryLockIsReleased`, `StopsByItself`
and `ServesInTheEnd` are out of the prover's reach and stay with TLC, and so do the
four runs whose claim is violated.

## Not modelled

- CORS, JSON decoding and the request log decorate one request and keep no state,
  and the mapping of error kinds to status codes is a table.
- Get is one SELECT of one row. The search term, and page numbers large enough to
  overflow, are left out of `Reading`.
- `CORS_ORIGINS` and the default values are left out of `Config`: neither can be a
  problem.
- The rotation of backup files is file handling.
- `internal/testutil` is test support.
- The timing of Login (`dummyHash`) is not a matter of states.

## Plan

1. What the findings leave true: under `late`, by how much a bid can be accepted
   after the close; under `panic`, that a fn that does not panic is never half
   stored.
2. `Refills` with different clock granularities for the limiter's floating point.
