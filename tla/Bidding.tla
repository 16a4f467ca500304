------------------------------- MODULE Bidding -------------------------------
(***************************************************************************)
(* The write path of the auction service, one SQL statement at a time:     *)
(* bids.Service.Place, lots.Service.Create, Update, Delete and PlaceBidTx, *)
(* postgres.RunInTx around them, and the database sessions they talk to.   *)
(*                                                                         *)
(* A request r is served by a handler (pc, seen, outbid, outcome) over a   *)
(* database session (txn, began, lotWrite, bidWrite).  The two fail apart: *)
(* a handler may die or lose its connection and leave the session behind,  *)
(* and a session may be killed under a live handler.  A transaction sees   *)
(* the committed tables (READ COMMITTED) and its own writes.  now() is the *)
(* time the transaction began.  All writers take the lot's row lock.       *)
(***************************************************************************)
EXTENDS Auction

CONSTANTS
  Registered,  \* the rows of the users table (no code removes one)
  Calls,       \* the calls clients may make, see Call
  Unwritten,   \* a transaction has not written its lot yet
  PoolSize,    \* pool_max_conns
  MaxFaults,   \* bound: failed statements, lost connections, killed sessions
  MaxCrashes   \* bound: crashes of the service process

\* A PATCH leaves out a field by giving Nil.  A create names no lot: its
\* lot field is ignored.
Call == [op: {"place", "create", "edit", "delete"}, caller: Users,
         lot: LotIds, price: Prices \cup {Nil}, endsAt: Times \cup {Nil}]

ASSUME RegisteredAreUsers == Registered \subseteq Users

\* Lots are stored by Create alone, which asks the users table first.
ASSUME InitOwnersAreRegistered ==
  \A l \in Stored(InitLots) : InitLots[l].owner \in Registered

ASSUME CallsAreCalls ==
  /\ Calls \subseteq Call
  /\ \A c \in Calls : c.op \in {"place", "create"} => c.price \in Prices
  /\ \A c \in Calls : c.op = "create" => c.endsAt \in Times

ASSUME UnwrittenIsNull == Unwritten \notin LotRow \cup {NoLot}

ASSUME BoundsAreNat == PoolSize \in Nat /\ MaxFaults \in Nat /\ MaxCrashes \in Nat

VARIABLES
  \* the database beside the committed tables lots and bids
  minted,      \* lot uuids ever stored: uuid.New never repeats one
  lock,        \* who holds the FOR UPDATE lock of a lot's row
  txn,         \* none, open, committing (COMMIT sent), committed, aborted
  began,       \* the transaction's now()
  lotWrite,    \* the uncommitted lots row: a row, NoLot (deleted) or Unwritten
  bidWrite,    \* the uncommitted bids rows
  \* the handlers
  call,        \* what each request asks, chosen by its client
  pc,
  seen,        \* the Lot read by getLotForUpdate
  outbid,      \* the previous top bidder
  outcome,     \* what the handler answers, or has decided to answer
  \* the world
  clock,
  notes,       \* outbid notifications that were delivered
  faults, crashes

tables  == <<lots, bids, minted>>
session == <<lock, txn, began, lotWrite, bidWrite>>
locals  == <<seen, outbid>>
world   == <<clock, notes, faults, crashes>>
vars    == <<tables, session, call, pc, locals, outcome, world>>

Refusals  == {"invalid", "unknown-user", "not-found", "forbidden",
              "lot-closed", "bid-too-low", "lot-has-bids"}
Outcomes  == Refusals \cup {"none", "ok", "internal"}

InStatement == {"lock", "write", "top", "insert"}
InTx        == InStatement \cup {"commit", "wait", "rollback"}
AtRest      == {"idle", "done", "dead"}
Steps       == AtRest \cup InTx \cup {"begin", "exists", "create", "notify"}

TypeOK ==
  /\ lots \in [LotIds -> LotRow \cup {NoLot}]
  /\ bids \in SUBSET BidRow
  /\ minted \in SUBSET LotIds
  /\ lock \in [LotIds -> Requests \cup {Nil}]
  /\ txn \in [Requests -> {"none", "open", "committing", "committed", "aborted"}]
  /\ began \in [Requests -> Times]
  /\ lotWrite \in [Requests -> LotRow \cup {NoLot, Unwritten}]
  /\ bidWrite \in [Requests -> SUBSET BidRow]
  /\ call \in [Requests -> Calls]
  /\ pc \in [Requests -> Steps]
  /\ seen \in [Requests -> LotRow \cup {NoLot}]
  /\ outbid \in [Requests -> Users \cup {Nil}]
  /\ outcome \in [Requests -> Outcomes]
  /\ clock \in Times
  /\ notes \in SUBSET [bid: Requests, to: Users]
  /\ faults \in 0 .. MaxFaults
  /\ crashes \in 0 .. MaxCrashes

Init ==
  /\ lots = InitLots
  /\ bids = {}
  /\ minted = Stored(InitLots)
  /\ lock = [l \in LotIds |-> Nil]
  /\ txn = [r \in Requests |-> "none"]
  /\ began = [r \in Requests |-> 0]
  /\ lotWrite = [r \in Requests |-> Unwritten]
  /\ bidWrite = [r \in Requests |-> {}]
  /\ call \in [Requests -> Calls]
  /\ pc = [r \in Requests |-> "idle"]
  /\ seen = [r \in Requests |-> NoLot]
  /\ outbid = [r \in Requests |-> Nil]
  /\ outcome = [r \in Requests |-> "none"]
  /\ clock = 0
  /\ notes = {}
  /\ faults = 0
  /\ crashes = 0

-----------------------------------------------------------------------------
(* Handlers and the pool.                                                  *)

Goto(r, step) == pc' = [pc EXCEPT ![r] = step]

\* The handler stops: its locals are gone.
Leave(r, step) ==
  /\ Goto(r, step)
  /\ seen' = [seen EXCEPT ![r] = NoLot]
  /\ outbid' = [outbid EXCEPT ![r] = Nil]

Decide(r, what) == outcome' = [outcome EXCEPT ![r] = what]

Answer(r, what) == Leave(r, "done") /\ Decide(r, what)

\* fn returns an error inside RunInTx: the rollback comes next.
Refuse(r, what) == Goto(r, "rollback") /\ Decide(r, what)

\* Connections checked out of the pool.  The single-statement queries of
\* Create hold one only within their step.
CheckedOut == {r \in Requests : pc[r] \in InTx}

ConnectionFree == Cardinality(CheckedOut) < PoolSize

Fault == faults < MaxFaults /\ faults' = faults + 1

\* Mistake: zero passes for a price.
NegativePrice(price) == price # Nil /\ price < 0

\* validPrice and validEndsAt, on a field that is there.
BadPrice(price)   == price # Nil /\ price \notin Amounts
BadEndsAt(endsAt) == endsAt # Nil /\ endsAt <= clock

\* What Place and Create refuse before they touch the database.  Update
\* validates inside its transaction, Delete has nothing to validate.
Malformed(c) ==
  \/ c.op \in {"place", "create"} /\ BadPrice(c.price)
  \/ c.op = "create" /\ BadEndsAt(c.endsAt)

\* A client addresses a lot that is or was there; an id never minted would
\* be not-found like a deleted one.
Arrive(r) ==
  /\ pc[r] = "idle"
  /\ call[r].op = "create" \/ call[r].lot \in minted
  /\ \/ Malformed(call[r]) /\ Answer(r, "invalid")
     \/ /\ ~Malformed(call[r])
        /\ Goto(r, IF call[r].op = "create" THEN "exists" ELSE "begin")
        /\ UNCHANGED <<locals, outcome>>
  /\ UNCHANGED <<tables, session, call, world>>

-----------------------------------------------------------------------------
(* lots.Create: two statements, each its own transaction.                  *)

\* Mistake: the owner is taken from the token without asking users.
UserTrusted(r) ==
  /\ pc[r] = "exists"
  /\ ConnectionFree
  /\ Goto(r, "create")
  /\ UNCHANGED <<tables, session, call, locals, outcome, world>>

UserExists(r) ==
  /\ pc[r] = "exists"
  /\ ConnectionFree
  /\ \/ /\ call[r].caller \in Registered
        /\ Goto(r, "create")
        /\ UNCHANGED <<locals, outcome>>
     \/ /\ call[r].caller \notin Registered
        /\ Answer(r, "unknown-user")
  /\ UNCHANGED <<tables, session, call, world>>

\* The row is stored; the answer of the database may be lost on the way.
InsertLot(r) ==
  /\ pc[r] = "create"
  /\ ConnectionFree
  /\ \E l \in LotIds \ minted :
       /\ lots' = [lots EXCEPT ![l] =
                     NewLot(call[r].caller, call[r].price, call[r].endsAt)]
       /\ minted' = minted \cup {l}
  /\ \/ Answer(r, "ok") /\ UNCHANGED faults
     \/ Answer(r, "internal") /\ Fault
  /\ UNCHANGED <<bids, session, call, clock, notes, crashes>>

-----------------------------------------------------------------------------
(* postgres.RunInTx and the statements inside it.                          *)

Begin(r) ==
  /\ pc[r] = "begin"
  /\ ConnectionFree
  /\ txn' = [txn EXCEPT ![r] = "open"]
  /\ began' = [began EXCEPT ![r] = clock]
  /\ Goto(r, "lock")
  /\ UNCHANGED <<tables, lock, lotWrite, bidWrite, call, locals, outcome, world>>

\* A statement of r's transaction reaches its session.
Statement(r, step) == pc[r] = step /\ txn[r] = "open"

\* Mistake: a plain SELECT, without FOR UPDATE.
GetLotUnlocked(r) ==
  /\ Statement(r, "lock")
  /\ seen' = [seen EXCEPT ![r] = lots[call[r].lot]]
  /\ UNCHANGED lock

\* SELECT ... FOR UPDATE waits for the row lock, then reads the row as last
\* committed.  A row that is gone is not locked.
GetLotForUpdate(r) ==
  LET l == call[r].lot IN
  /\ Statement(r, "lock")
  /\ lock[l] = Nil
  /\ lock' = IF lots[l] = NoLot THEN lock ELSE [lock EXCEPT ![l] = r]
  /\ seen' = [seen EXCEPT ![r] = lots[l]]

\* Mistakes in the guards of PlaceBidTx: a bid may equal the price, is
\* compared with the start price, or may be dated at the lot's last instant.
BidMayTie(c, row, now) ==
  IF row = NoLot THEN "not-found"
  ELSE IF row.endsAt <= now THEN "lot-closed"
  ELSE IF row.owner = c.caller THEN "forbidden"
  ELSE IF c.price < row.price THEN "bid-too-low"
  ELSE "ok"

BidBeatsStart(c, row, now) ==
  IF row = NoLot THEN "not-found"
  ELSE IF row.endsAt <= now THEN "lot-closed"
  ELSE IF row.owner = c.caller THEN "forbidden"
  ELSE IF c.price <= row.start THEN "bid-too-low"
  ELSE "ok"

BidAtTheEnd(c, row, now) ==
  IF row = NoLot THEN "not-found"
  ELSE IF row.endsAt < now THEN "lot-closed"
  ELSE IF row.owner = c.caller THEN "forbidden"
  ELSE IF c.price <= row.price THEN "bid-too-low"
  ELSE "ok"

\* The guards of PlaceBidTx in their order; closed is ends_at <= now().
BidVerdict(c, row, now) ==
  IF row = NoLot THEN "not-found"
  ELSE IF row.endsAt <= now THEN "lot-closed"
  ELSE IF row.owner = c.caller THEN "forbidden"
  ELSE IF c.price <= row.price THEN "bid-too-low"
  ELSE "ok"

\* Mistakes in the guard of Update and Delete: bids are not looked at, or
\* the first one is missed.
OwnerMayAlways(c, row) ==
  IF row = NoLot THEN "not-found"
  ELSE IF row.owner # c.caller THEN "forbidden"
  ELSE "ok"

OwnerMayAfterFirst(c, row) ==
  IF row = NoLot THEN "not-found"
  ELSE IF row.owner # c.caller THEN "forbidden"
  ELSE IF row.bidCount > 1 THEN "lot-has-bids"
  ELSE "ok"

\* The guards of lockOwnedLotWithoutBids in their order.
OwnerVerdict(c, row) ==
  IF row = NoLot THEN "not-found"
  ELSE IF row.owner # c.caller THEN "forbidden"
  ELSE IF row.bidCount > 0 THEN "lot-has-bids"
  ELSE "ok"

Proceed(r, verdict) ==
  \/ verdict = "ok" /\ Goto(r, "write") /\ UNCHANGED outcome
  \/ verdict # "ok" /\ Refuse(r, verdict)

LockForBid(r) ==
  /\ call[r].op = "place"
  /\ GetLotForUpdate(r)
  /\ Proceed(r, BidVerdict(call[r], lots[call[r].lot], began[r]))
  /\ UNCHANGED <<tables, txn, began, lotWrite, bidWrite, call, outbid, world>>

LockForOwner(r) ==
  /\ call[r].op \in {"edit", "delete"}
  /\ GetLotForUpdate(r)
  /\ Proceed(r, OwnerVerdict(call[r], lots[call[r].lot]))
  /\ UNCHANGED <<tables, txn, began, lotWrite, bidWrite, call, outbid, world>>

\* UPDATE ... SET current_price_minor = $2, bid_count = bid_count + 1
ApplyBid(r) ==
  /\ call[r].op = "place"
  /\ Statement(r, "write")
  /\ lotWrite' = [lotWrite EXCEPT ![r] = Raised(lots[call[r].lot], call[r].price)]
  /\ Goto(r, "top")
  /\ UNCHANGED <<tables, lock, txn, began, bidWrite, call, locals, outcome, world>>

\* Mistake: the current price does not track the start price.
PatchedStart(row, c) ==
  [row EXCEPT !.start  = IF c.price = Nil THEN @ ELSE c.price,
              !.endsAt = IF c.endsAt = Nil THEN @ ELSE c.endsAt]

\* The Lot held by Update after the PATCH fields are copied into it.
Patched(row, c) ==
  [row EXCEPT !.start  = IF c.price = Nil THEN @ ELSE c.price,
              !.price  = IF c.price = Nil THEN @ ELSE c.price,
              !.endsAt = IF c.endsAt = Nil THEN @ ELSE c.endsAt]

\* The row after UPDATE ... SET of the columns Update holds: the counter and
\* the owner are not among them.
Overwritten(row, held) ==
  [row EXCEPT !.start = held.start, !.price = held.price, !.endsAt = held.endsAt]

\* Update validates the fields, then writes the row.
UpdateLot(r) ==
  LET c == call[r] IN
  /\ c.op = "edit"
  /\ Statement(r, "write")
  /\ \/ /\ BadPrice(c.price) \/ BadEndsAt(c.endsAt)
        /\ Refuse(r, "invalid")
        /\ UNCHANGED lotWrite
     \/ /\ ~BadPrice(c.price) /\ ~BadEndsAt(c.endsAt)
        /\ lotWrite' = [lotWrite EXCEPT ![r] =
                          Overwritten(lots[c.lot], Patched(seen[r], c))]
        /\ Goto(r, "commit")
        /\ UNCHANGED outcome
  /\ UNCHANGED <<tables, lock, txn, began, bidWrite, call, locals, world>>

DeleteLot(r) ==
  /\ call[r].op = "delete"
  /\ Statement(r, "write")
  /\ lotWrite' = [lotWrite EXCEPT ![r] = NoLot]
  /\ Goto(r, "commit")
  /\ UNCHANGED <<tables, lock, txn, began, bidWrite, call, locals, outcome, world>>

\* Mistake: the order is ascending.
BottomBidders(rows, l) ==
  {b.bidder : b \in {h \in BidsOn(rows, l) :
                       \A o \in BidsOn(rows, l) : h.amount <= o.amount}}

\* ORDER BY amount_minor DESC LIMIT 1 over the lot's committed bids: any
\* of the highest.
TopBidders(rows, l) ==
  {b.bidder : b \in {h \in BidsOn(rows, l) :
                       \A o \in BidsOn(rows, l) : o.amount <= h.amount}}

\* Mistake: topBidder reads through the pool, on a second connection.
TopBidderOnPool(r) ==
  LET tops == TopBidders(bids, call[r].lot) IN
  /\ Statement(r, "top")
  /\ ConnectionFree
  /\ \E u \in IF tops = {} THEN {Nil} ELSE tops :
       outbid' = [outbid EXCEPT ![r] = u]
  /\ Goto(r, "insert")
  /\ UNCHANGED <<tables, session, call, seen, outcome, world>>

TopBidder(r) ==
  LET tops == TopBidders(bids, call[r].lot) IN
  /\ Statement(r, "top")
  /\ \E u \in IF tops = {} THEN {Nil} ELSE tops :
       outbid' = [outbid EXCEPT ![r] = u]
  /\ Goto(r, "insert")
  /\ UNCHANGED <<tables, session, call, seen, outcome, world>>

\* The row of the bids table; created_at defaults to now().
BidOf(r) ==
  [id |-> r, lot |-> call[r].lot, bidder |-> call[r].caller,
   amount |-> call[r].price, createdAt |-> began[r]]

\* Mistakes: the row is inserted outside the transaction, or through the
\* pool on a second connection.
InsertBidOutside(r) ==
  /\ Statement(r, "insert")
  /\ bids' = bids \cup {BidOf(r)}
  /\ Goto(r, "commit")
  /\ UNCHANGED <<lots, minted, session, call, locals, outcome, world>>

InsertBidOnPool(r) ==
  /\ Statement(r, "insert")
  /\ ConnectionFree
  /\ bids' = bids \cup {BidOf(r)}
  /\ Goto(r, "commit")
  /\ UNCHANGED <<lots, minted, session, call, locals, outcome, world>>

InsertBid(r) ==
  /\ Statement(r, "insert")
  /\ bidWrite' = [bidWrite EXCEPT ![r] = @ \cup {BidOf(r)}]
  /\ Goto(r, "commit")
  /\ UNCHANGED <<tables, lock, txn, began, lotWrite, call, locals, outcome, world>>

\* fn returned nil: finishTx sends COMMIT and waits for the answer.
Commit(r) ==
  /\ Statement(r, "commit")
  /\ txn' = [txn EXCEPT ![r] = "committing"]
  /\ Goto(r, "wait")
  /\ UNCHANGED <<tables, lock, began, lotWrite, bidWrite, call, locals, outcome, world>>

\* Place notifies the displaced bidder unless that is the bidder himself.
Committed(r) ==
  IF outbid[r] \notin {Nil, call[r].caller}
  THEN Goto(r, "notify") /\ Decide(r, "ok") /\ UNCHANGED locals
  ELSE Answer(r, "ok")

\* Mistake: the error of COMMIT is dropped.
CommitErrorDropped(r) ==
  /\ pc[r] = "wait"
  /\ txn[r] \in {"committed", "aborted"}
  /\ Committed(r)
  /\ UNCHANGED <<tables, session, call, world>>

CommitAnswered(r) ==
  /\ pc[r] = "wait"
  /\ \/ txn[r] = "committed" /\ Committed(r)
     \/ txn[r] = "aborted" /\ Answer(r, "internal")
  /\ UNCHANGED <<tables, session, call, world>>

\* The connection broke after COMMIT was sent: the handler answers 500
\* without knowing what the database does or did.
CommitAnswerLost(r) ==
  /\ pc[r] = "wait"
  /\ Answer(r, "internal")
  /\ Fault
  /\ UNCHANGED <<tables, session, call, clock, notes, crashes>>

\* The message arrives, or is lost within the client's time limit; either
\* way the answer stays 201.
Outbid(r) ==
  /\ pc[r] = "notify"
  /\ Leave(r, "done")
  /\ \/ notes' = notes \cup {[bid |-> r, to |-> outbid[r]]}
     \/ UNCHANGED notes
  /\ UNCHANGED <<tables, session, call, outcome, clock, faults, crashes>>

\* The session ends: locks released, uncommitted rows dropped.
EndSession(r, how) ==
  /\ txn' = [txn EXCEPT ![r] = how]
  /\ lock' = [l \in LotIds |-> IF lock[l] = r THEN Nil ELSE lock[l]]
  /\ began' = [began EXCEPT ![r] = 0]
  /\ lotWrite' = [lotWrite EXCEPT ![r] = Unwritten]
  /\ bidWrite' = [bidWrite EXCEPT ![r] = {}]

\* finishTx after an error: the error decided earlier is the answer, even
\* when the session is already gone.
Rollback(r) ==
  /\ pc[r] = "rollback"
  /\ EndSession(r, "aborted")
  /\ Leave(r, "done")
  /\ UNCHANGED <<tables, call, outcome, world>>

\* ROLLBACK does not get through; pgx closes the connection and the handler
\* answers, the session lingers.
RollbackLost(r) ==
  /\ pc[r] = "rollback"
  /\ Leave(r, "done")
  /\ Fault
  /\ UNCHANGED <<tables, session, call, outcome, clock, notes, crashes>>

\* The handler finds its session killed.
SessionLost(r) ==
  /\ txn[r] = "aborted"
  /\ \/ pc[r] \in InStatement /\ Refuse(r, "internal") /\ UNCHANGED locals
     \/ pc[r] = "commit" /\ Answer(r, "internal")
  /\ UNCHANGED <<tables, session, call, world>>

\* Mistake: a failed INSERT of the bid is swallowed, fn returns nil.
FailsQuietly(r) ==
  /\ \/ pc[r] = "insert" /\ Goto(r, "commit") /\ UNCHANGED <<outcome, locals>>
     \/ pc[r] \in InStatement \ {"insert"} /\ Refuse(r, "internal") /\ UNCHANGED locals
     \/ pc[r] \in {"begin", "exists", "create"} /\ Answer(r, "internal")
  /\ Fault
  /\ UNCHANGED <<tables, session, call, clock, notes, crashes>>

\* A statement fails or its answer is lost; the client of the request may
\* have gone away, which cancels the handler's context.
Fails(r) ==
  /\ \/ pc[r] \in InStatement /\ Refuse(r, "internal") /\ UNCHANGED locals
     \/ pc[r] \in {"begin", "exists", "create"} /\ Answer(r, "internal")
  /\ Fault
  /\ UNCHANGED <<tables, session, call, clock, notes, crashes>>

-----------------------------------------------------------------------------
(* The database on its own.                                                *)

ServerCommit(r) ==
  /\ txn[r] = "committing"
  /\ lots' = IF lotWrite[r] = Unwritten THEN lots
             ELSE [lots EXCEPT ![call[r].lot] = lotWrite[r]]
  /\ bids' = bids \cup bidWrite[r]
  /\ EndSession(r, "committed")
  /\ UNCHANGED <<minted, call, pc, locals, outcome, world>>

\* The database notices that the client of an open transaction is gone.
Abandon(r) ==
  /\ txn[r] = "open"
  /\ pc[r] \in {"done", "dead"}
  /\ EndSession(r, "aborted")
  /\ UNCHANGED <<tables, call, pc, locals, outcome, world>>

\* The database kills a session, or fails to commit it.
Kill(r) ==
  /\ txn[r] \in {"open", "committing"}
  /\ EndSession(r, "aborted")
  /\ Fault
  /\ UNCHANGED <<tables, call, pc, locals, outcome, clock, notes, crashes>>

-----------------------------------------------------------------------------

\* The service process dies with every handler in it and starts again.
Crash ==
  /\ crashes < MaxCrashes
  /\ \E r \in Requests : pc[r] \notin AtRest
  /\ pc' = [r \in Requests |-> IF pc[r] \in AtRest THEN pc[r] ELSE "dead"]
  /\ seen' = [r \in Requests |-> NoLot]
  /\ outbid' = [r \in Requests |-> Nil]
  /\ crashes' = crashes + 1
  /\ UNCHANGED <<tables, session, call, outcome, clock, notes, faults>>

Tick ==
  /\ clock < MaxTime
  /\ clock' = clock + 1
  /\ UNCHANGED <<tables, session, call, pc, locals, outcome, notes, faults, crashes>>

\* Nothing is left to do.
Quiet ==
  /\ \A r \in Requests :
       pc[r] \in AtRest /\ txn[r] \notin {"open", "committing"}
  /\ UNCHANGED vars

\* The steps a handler takes unless something fails.
Handler(r) ==
  \/ UserExists(r) \/ InsertLot(r)
  \/ Begin(r) \/ LockForBid(r) \/ LockForOwner(r)
  \/ ApplyBid(r) \/ UpdateLot(r) \/ DeleteLot(r)
  \/ TopBidder(r) \/ InsertBid(r)
  \/ Commit(r) \/ CommitAnswered(r) \/ Outbid(r)
  \/ Rollback(r) \/ SessionLost(r)

Database(r) == ServerCommit(r) \/ Abandon(r)

Breaks(r) == Fails(r) \/ CommitAnswerLost(r) \/ RollbackLost(r) \/ Kill(r)

Next ==
  \/ \E r \in Requests : Arrive(r) \/ Handler(r) \/ Database(r) \/ Breaks(r)
  \/ Crash
  \/ Tick
  \/ Quiet

Spec == Init /\ [][Next]_vars

\* Running handlers and the database make progress; clients, the clock,
\* faults and crashes need not.
Fairness == \A r \in Requests : WF_vars(Handler(r)) /\ WF_vars(Database(r))

FairSpec == Spec /\ Fairness

-----------------------------------------------------------------------------
(* Safety.                                                                 *)

Live(r) == txn[r] \in {"open", "committing"}

Holds(r) == lock[call[r].lot] = r

\* Whoever holds the row lock works on the row it read: applyBid's
\* "bid_count + 1", the price PlaceBidTx compared and the columns updateLot
\* writes back are those of the committed row, and what is about to be
\* committed was prepared under the lock.
WritesAreUnderTheLock ==
  \A r \in Requests : Live(r) =>
    /\ lotWrite[r] # Unwritten \/ pc[r] \in {"write", "top", "insert"} => Holds(r)
    /\ pc[r] \in {"write", "top", "insert", "commit", "wait"} =>
         seen[r] = lots[call[r].lot] /\ seen[r] # NoLot

\* The lots row and the bids row of one bid are committed together: a
\* transaction whose COMMIT was sent carries both or, for an edit or a delete,
\* only the first.
CommitsAreWhole ==
  \A r \in Requests : txn[r] = "committing" =>
    /\ lotWrite[r] # Unwritten
    /\ (bidWrite[r] # {}) <=> (call[r].op = "place")

\* An answer tells the truth: 201 on a bid means its row is stored and its
\* amount is at most the lot's price, a 2xx on an edit or a delete means it
\* committed, and any refusal means the request left nothing, now or later.
\* A 500 tells nothing, and the 201 of a create is InsertLot's own step.
AnswersAreTrue ==
  \A r \in Requests : pc[r] = "done" =>
    /\ outcome[r] = "ok" /\ call[r].op = "place" =>
         /\ \E b \in bids : /\ b.id = r
                            /\ b.bidder = call[r].caller
                            /\ b.amount = call[r].price
         /\ lots[call[r].lot].price >= call[r].price
    /\ outcome[r] = "ok" /\ call[r].op \in {"edit", "delete"} =>
         txn[r] = "committed"
    /\ outcome[r] \in Refusals =>
         txn[r] \notin {"committing", "committed"} /\ \A b \in bids : b.id # r

\* A notification never precedes or outlives a rolled-back bid, and goes to
\* the one who held the top when the bid was placed, never to the bidder.
NotesAreTrue ==
  \A n \in notes :
    \E b \in bids :
      /\ b.id = n.bid
      /\ b.bidder # n.to
      /\ \E d \in BidsOn(bids, b.lot) :
           /\ d.bidder = n.to
           /\ d.amount < b.amount
           /\ \A o \in BidsOn(bids, b.lot) :
                o.amount <= d.amount \/ o.amount >= b.amount

\* Ownership integrity without a foreign key: every stored lot belongs to a
\* row of the users table.
OwnersAreRegistered == \A l \in Stored(lots) : lots[l].owner \in Registered

\* The service implements the abstract auction: each transaction takes
\* effect in the one step in which the database commits it.
ImplementsAuction == AuctionSpec

-----------------------------------------------------------------------------
(* Liveness.                                                               *)

\* Every request that arrived is answered, or its handler died in a crash:
\* no cycle of handlers, pool and row locks waits on itself.
EveryRequestEnds ==
  \A r \in Requests : pc[r] # "idle" ~> pc[r] \in {"done", "dead"}

\* A row lock is always released, also when its holder died or lost its
\* connection; a lot never becomes impossible to bid on.
EveryLockIsReleased ==
  \A l \in LotIds : lock[l] # Nil ~> lock[l] = Nil

-----------------------------------------------------------------------------
(* What the documentation says and the code does not do; each is the       *)
(* property of a run that violates it.                                     *)

\* getLotForUpdate "reports whether the lot is already closed (by the
\* database clock)": a bid gets past the check only before the lot closes.
NoBidAcceptedAfterClose ==
  [][\A r \in Requests :
       pc[r] = "lock" /\ pc'[r] = "write" /\ call[r].op = "place" =>
         clock < lots[call[r].lot].endsAt]_vars

\* "History returns the lot's bids, newest first": the order created_at
\* DESC, amount_minor DESC never puts a bid above one that beat it.
HistoryIsNewestFirst ==
  \A b, c \in bids :
    b.lot = c.lot /\ b.amount > c.amount => b.createdAt >= c.createdAt
=============================================================================
