---------------------------- MODULE BiddingProofs ----------------------------
(***************************************************************************)
(* The bidding service implements the abstract auction, for every number   *)
(* of users, lots and concurrent requests, every pool size and every       *)
(* number of faults and crashes.                                           *)
(***************************************************************************)
EXTENDS Bidding, AuctionProofs

-----------------------------------------------------------------------------
(* The inductive invariant, in named parts.                                *)

Lot(r) == call[r].lot

\* Where a handler stands and what its session may be doing meanwhile.
StageOK(r) ==
  /\ pc[r] \in {"idle", "begin", "exists", "create"} => txn[r] = "none"
  /\ pc[r] \in InStatement \cup {"commit", "rollback"} => txn[r] \in {"open", "aborted"}
  /\ pc[r] = "wait" => txn[r] \in {"committing", "committed", "aborted"}
  /\ pc[r] = "notify" => txn[r] = "committed" /\ outbid[r] # Nil
  /\ pc[r] \in {"exists", "create"} =>
       call[r].op = "create" /\ call[r].price \in Amounts
  /\ pc[r] \in {"begin", "notify"} \cup InTx \/ txn[r] # "none" =>
       call[r].op # "create"
  /\ pc[r] \in {"top", "insert"} => call[r].op = "place"

\* A session that has not got past its lock, or has ended, wrote nothing.
NothingWritten(r) == lotWrite[r] = Unwritten /\ bidWrite[r] = {}

CleanOK(r) == ~Live(r) \/ pc[r] \in {"lock", "write"} => NothingWritten(r)

\* A row lock is held on a row that is there, by a live session past its
\* locking read.
LockOK(l) ==
  lock[l] # Nil =>
    /\ Live(lock[l])
    /\ Lot(lock[l]) = l
    /\ pc[lock[l]] # "lock"
    /\ lots[l] # NoLot

\* The guards that let r through still hold on the committed row.
Passed(r) ==
  IF call[r].op = "place"
  THEN BidVerdict(call[r], lots[Lot(r)], began[r]) = "ok"
  ELSE OwnerVerdict(call[r], lots[Lot(r)]) = "ok"

\* From the accepted check to the end of its session a transaction holds
\* the lock, and what it checked stays true.
PassedOK(r) ==
  Live(r) /\ (pc[r] = "write" \/ lotWrite[r] # Unwritten) => Holds(r) /\ Passed(r)

SeenOK(r) ==
  Live(r) /\ pc[r] \in {"write", "top", "insert", "commit", "wait"} =>
    seen[r] = lots[Lot(r)] /\ seen[r] # NoLot

\* The uncommitted row is the committed one changed as the call asks.
WrittenOK(r) ==
  Live(r) /\ lotWrite[r] # Unwritten =>
    \/ /\ call[r].op = "place"
       /\ lotWrite[r] = Raised(lots[Lot(r)], call[r].price)
    \/ /\ call[r].op = "edit"
       /\ \E p \in Amounts, t \in Times :
            lotWrite[r] = [lots[Lot(r)] EXCEPT !.start = p, !.price = p, !.endsAt = t]
    \/ /\ call[r].op = "delete"
       /\ lotWrite[r] = NoLot

\* What is about to be committed has both its parts.
WholeOK(r) ==
  /\ Live(r) /\ pc[r] \in {"top", "insert"} =>
       lotWrite[r] # Unwritten /\ bidWrite[r] = {}
  /\ (Live(r) /\ pc[r] = "commit") \/ txn[r] = "committing" =>
       /\ lotWrite[r] # Unwritten
       /\ bidWrite[r] = IF call[r].op = "place" THEN {BidOf(r)} ELSE {}

\* Only a committed request has a row in the bids table.
BidsOK == \A b \in bids : txn[b.id] = "committed"

\* Stored lots were minted, and one nobody has bid on costs its start price.
LotsOK ==
  \A l \in Stored(lots) :
    /\ l \in minted
    /\ lots[l].bidCount = 0 => lots[l].price = lots[l].start

IInv ==
  /\ TypeOK
  /\ \A r \in Requests :
       /\ StageOK(r) /\ CleanOK(r) /\ PassedOK(r)
       /\ SeenOK(r) /\ WrittenOK(r) /\ WholeOK(r)
  /\ \A l \in LotIds : LockOK(l)
  /\ BidsOK
  /\ LotsOK

\* The part of the invariant that is about one request.
RequestOK(r) ==
  /\ StageOK(r) /\ CleanOK(r) /\ PassedOK(r)
  /\ SeenOK(r) /\ WrittenOK(r) /\ WholeOK(r)

-----------------------------------------------------------------------------
(* Rows.                                                                   *)

LEMMA CallTyped ==
  ASSUME NEW c \in Calls
  PROVE  /\ c.op \in {"place", "create", "edit", "delete"}
         /\ c.caller \in Users
         /\ c.lot \in LotIds
         /\ c.price \in Prices \cup {Nil}
         /\ c.endsAt \in Times \cup {Nil}
         /\ c.op \in {"place", "create"} => c.price \in Prices
         /\ c.op = "create" => c.endsAt \in Times
BY CallsAreCalls DEF Call

LEMMA NullRow == NoLot \notin LotRow /\ Unwritten \notin LotRow /\ Unwritten # NoLot
BY NullsAreNotRows, UnwrittenIsNull

LEMMA EditedIsRow ==
  ASSUME NEW row \in LotRow, NEW p \in Amounts, NEW t \in Times
  PROVE  /\ [row EXCEPT !.start = p, !.price = p, !.endsAt = t] \in LotRow
         /\ [row EXCEPT !.start = p, !.price = p, !.endsAt = t].price =
            [row EXCEPT !.start = p, !.price = p, !.endsAt = t].start
BY DEF LotRow

\* A bid that passed the guards is an amount that beats the price.
LEMMA VerdictOfBid ==
  ASSUME NEW c \in Calls, c.op = "place", NEW row \in LotRow \cup {NoLot},
         NEW now \in Times, BidVerdict(c, row, now) = "ok"
  PROVE  /\ row # NoLot /\ row \in LotRow
         /\ now < row.endsAt
         /\ row.owner # c.caller
         /\ c.price \in Amounts
         /\ c.price > row.price
<1>1. row # NoLot /\ row \in LotRow /\ ~(row.endsAt <= now)
      /\ row.owner # c.caller /\ ~(c.price <= row.price)
  BY DEF BidVerdict
<1>2. row.endsAt \in Int /\ now \in Int  BY <1>1, MaxTimeIsNat DEF LotRow, Times
<1>3. row.price \in Int /\ row.price > 0 /\ c.price \in Int /\ c.price \in Prices
  BY <1>1, CallTyped, PricesAreInts DEF LotRow, Amounts
<1> QED  BY <1>1, <1>2, <1>3 DEF Amounts

LEMMA VerdictOfOwner ==
  ASSUME NEW c, NEW row \in LotRow \cup {NoLot}, OwnerVerdict(c, row) = "ok"
  PROVE  row # NoLot /\ row \in LotRow /\ row.bidCount = 0
<1>1. row # NoLot /\ row \in LotRow /\ ~(row.bidCount > 0)  BY DEF OwnerVerdict
<1>2. row.bidCount \in Nat  BY <1>1 DEF LotRow
<1> QED  BY <1>1, <1>2

-----------------------------------------------------------------------------
(* Steps of one request that leave the committed tables alone.             *)

\* Such a step disturbs no other request, as long as it takes only a free
\* lock and gives up only its own.
LEMMA Frame ==
  ASSUME IInv, TypeOK', NEW r \in Requests,
         UNCHANGED <<tables, call>>,
         \A q \in Requests : q # r =>
           /\ txn'[q] = txn[q] /\ pc'[q] = pc[q] /\ began'[q] = began[q]
           /\ seen'[q] = seen[q] /\ outbid'[q] = outbid[q]
           /\ lotWrite'[q] = lotWrite[q] /\ bidWrite'[q] = bidWrite[q],
         \A l \in LotIds :
           \/ lock'[l] = lock[l]
           \/ lock[l] = r /\ lock'[l] = Nil
           \/ lock[l] = Nil /\ lock'[l] = r,
         \A l \in LotIds : lock'[l] = r => LockOK(l)',
         txn[r] = "committed" => txn'[r] = "committed",
         RequestOK(r)'
  PROVE  IInv'
<1> USE DEF tables
<1>1. ASSUME NEW q \in Requests, q # r
      PROVE  RequestOK(q)'
  <2>1. /\ txn'[q] = txn[q] /\ pc'[q] = pc[q] /\ began'[q] = began[q]
        /\ seen'[q] = seen[q] /\ outbid'[q] = outbid[q]
        /\ lotWrite'[q] = lotWrite[q] /\ bidWrite'[q] = bidWrite[q]
        /\ call' = call /\ lots' = lots
    BY <1>1
  <2>2. call[q].lot \in LotIds  BY CallTyped DEF IInv, TypeOK
  <2>3. Holds(q) => Holds(q)'
    BY <1>1, <2>1, <2>2, NullsAreNotRows DEF Holds
  <2>4. RequestOK(q)  BY DEF IInv, RequestOK
  <2>5. StageOK(q)'  BY <2>1, <2>4 DEF RequestOK, StageOK
  <2>6. CleanOK(q)'  BY <2>1, <2>4 DEF RequestOK, CleanOK, Live, NothingWritten
  <2>7. PassedOK(q)'
    BY <2>1, <2>3, <2>4 DEF RequestOK, PassedOK, Live, Passed, Lot
  <2>8. SeenOK(q)'  BY <2>1, <2>4 DEF RequestOK, SeenOK, Live, Lot
  <2>9. WrittenOK(q)'  BY <2>1, <2>4 DEF RequestOK, WrittenOK, Live, Lot
  <2>10. WholeOK(q)'  BY <2>1, <2>4 DEF RequestOK, WholeOK, Live, BidOf
  <2> QED  BY <2>5, <2>6, <2>7, <2>8, <2>9, <2>10 DEF RequestOK
<1>2. ASSUME NEW l \in LotIds
      PROVE  LockOK(l)'
  <2>1. CASE lock'[l] = r  BY <2>1
  <2>2. CASE lock'[l] = Nil  BY <2>2 DEF LockOK
  <2>3. CASE lock'[l] # r /\ lock'[l] # Nil
    <3>1. lock'[l] = lock[l] /\ lock[l] \in Requests /\ lock[l] # r
      BY <2>3 DEF IInv, TypeOK
    <3>2. LockOK(l)  BY DEF IInv
    <3> QED  BY <3>1, <3>2 DEF LockOK, Live, Lot
  <2> QED  BY <2>1, <2>2, <2>3
<1>3. BidsOK'
  <2>1. \A b \in bids : b.id \in Requests  BY DEF IInv, TypeOK, BidRow
  <2> QED  BY <2>1 DEF IInv, BidsOK
<1>4. LotsOK'  BY DEF IInv, LotsOK, Stored
<1>5. \A q \in Requests : RequestOK(q)'  BY <1>1
<1> QED  BY <1>2, <1>3, <1>4, <1>5 DEF IInv, RequestOK

-----------------------------------------------------------------------------
(* Steps of a handler that leave the database alone.                       *)

\* A handler that moves to a point outside the transaction body, or gives
\* up, takes nothing from its session that matters.
LEMMA HandlerMoves ==
  ASSUME IInv, TypeOK', NEW r \in Requests,
         UNCHANGED <<tables, session, call>>,
         \A q \in Requests : q # r =>
           pc'[q] = pc[q] /\ seen'[q] = seen[q] /\ outbid'[q] = outbid[q],
         pc'[r] \in {"begin", "exists", "create", "rollback", "notify", "done", "dead"},
         StageOK(r)'
  PROVE  IInv'
<1> USE DEF tables, session
<1>1. RequestOK(r)  BY DEF IInv, RequestOK
<1>2. CleanOK(r)'  BY <1>1 DEF RequestOK, CleanOK, Live, NothingWritten
<1>3. PassedOK(r)'  BY <1>1 DEF RequestOK, PassedOK, Passed, Live, Holds, Lot
<1>4. SeenOK(r)'  BY DEF SeenOK
<1>5. WrittenOK(r)'  BY <1>1 DEF RequestOK, WrittenOK, Live, Lot
<1>6. WholeOK(r)'  BY <1>1 DEF RequestOK, WholeOK, Live, BidOf
<1>7. RequestOK(r)'  BY <1>2, <1>3, <1>4, <1>5, <1>6 DEF RequestOK
<1>8. \A l \in LotIds : lock'[l] = r => LockOK(l)'
  BY NullsAreNotRows DEF IInv, LockOK, Live, Lot
<1> QED  BY <1>7, <1>8, Frame

LEMMA ArriveKeeps ==
  ASSUME IInv, NEW r \in Requests, Arrive(r)
  PROVE  IInv'
<1> USE DEF Arrive, Goto, Leave, Decide, Answer, tables, session, locals, world
<1>1. TypeOK'  BY DEF IInv, TypeOK, Steps, Outcomes, Refusals, AtRest
<1>2. StageOK(r)'
  <2>1. StageOK(r) /\ call[r] \in Calls  BY DEF IInv, TypeOK
  <2>2. pc'[r] \in {"done", "begin", "exists"} /\ txn'[r] = "none" /\ call' = call
    BY <2>1 DEF IInv, TypeOK, StageOK
  <2>3. CASE pc'[r] = "done"  BY <2>2, <2>3 DEF StageOK, InTx, InStatement
  <2>4. CASE pc'[r] = "begin"
    <3>1. call[r].op # "create"  BY <2>4 DEF IInv, TypeOK
    <3> QED  BY <2>2, <2>4, <3>1 DEF StageOK, InTx, InStatement
  <2>5. CASE pc'[r] = "exists"
    <3>1. call[r].op = "create" /\ ~BadPrice(call[r].price)
      BY <2>5 DEF IInv, TypeOK, Malformed
    <3>2. call[r].price \in Prices /\ call[r].price # Nil
      BY <2>1, <3>1, CallTyped, NullsAreNotRows
    <3>3. call[r].price \in Amounts  BY <3>1, <3>2 DEF BadPrice
    <3> QED  BY <2>2, <2>5, <3>1, <3>3 DEF StageOK, InTx, InStatement
  <2> QED  BY <2>2, <2>3, <2>4, <2>5
<1> QED  BY <1>1, <1>2, HandlerMoves DEF IInv, TypeOK

LEMMA UserExistsKeeps ==
  ASSUME IInv, NEW r \in Requests, UserExists(r)
  PROVE  IInv'
<1> USE DEF UserExists, Goto, Leave, Decide, Answer, tables, session, locals, world
<1>1. TypeOK'  BY DEF IInv, TypeOK, Steps, Outcomes, Refusals, AtRest
<1>2. StageOK(r)'  BY DEF IInv, TypeOK, StageOK, InTx, InStatement
<1> QED  BY <1>1, <1>2, HandlerMoves DEF IInv, TypeOK

LEMMA CommitAnsweredKeeps ==
  ASSUME IInv, NEW r \in Requests, CommitAnswered(r)
  PROVE  IInv'
<1> USE DEF CommitAnswered, Committed, Goto, Leave, Decide, Answer,
            tables, session, locals, world
<1>1. TypeOK'  BY DEF IInv, TypeOK, Steps, Outcomes, Refusals, AtRest
<1>2. StageOK(r)'  BY DEF IInv, TypeOK, StageOK, InTx, InStatement
<1> QED  BY <1>1, <1>2, HandlerMoves DEF IInv, TypeOK

LEMMA CommitAnswerLostKeeps ==
  ASSUME IInv, NEW r \in Requests, CommitAnswerLost(r)
  PROVE  IInv'
<1> USE DEF CommitAnswerLost, Fault, Goto, Leave, Decide, Answer,
            tables, session, locals
<1>1. TypeOK'  BY BoundsAreNat DEF IInv, TypeOK, Steps, Outcomes, Refusals, AtRest
<1>2. StageOK(r)'  BY DEF IInv, TypeOK, StageOK, InTx, InStatement
<1> QED  BY <1>1, <1>2, HandlerMoves DEF IInv, TypeOK

LEMMA OutbidKeeps ==
  ASSUME IInv, NEW r \in Requests, Outbid(r)
  PROVE  IInv'
<1> USE DEF Outbid, Goto, Leave, tables, session
<1>1. TypeOK'
  <2>1. outbid[r] \in Users  BY DEF IInv, TypeOK, StageOK
  <2>2. [bid |-> r, to |-> outbid[r]] \in [bid: Requests, to: Users]  BY <2>1
  <2>3. notes' \in SUBSET [bid: Requests, to: Users]  BY <2>2 DEF IInv, TypeOK
  <2> QED  BY <2>3 DEF IInv, TypeOK, Steps, AtRest
<1>2. StageOK(r)'  BY DEF IInv, TypeOK, StageOK, InTx, InStatement
<1> QED  BY <1>1, <1>2, HandlerMoves DEF IInv, TypeOK

LEMMA RollbackLostKeeps ==
  ASSUME IInv, NEW r \in Requests, RollbackLost(r)
  PROVE  IInv'
<1> USE DEF RollbackLost, Fault, Goto, Leave, tables, session
<1>1. TypeOK'  BY BoundsAreNat DEF IInv, TypeOK, Steps, AtRest
<1>2. StageOK(r)'  BY DEF IInv, TypeOK, StageOK, InTx, InStatement
<1> QED  BY <1>1, <1>2, HandlerMoves DEF IInv, TypeOK

LEMMA SessionLostKeeps ==
  ASSUME IInv, NEW r \in Requests, SessionLost(r)
  PROVE  IInv'
<1> USE DEF SessionLost, Refuse, Goto, Leave, Decide, Answer,
            tables, session, locals, world
<1>1. TypeOK'
  BY DEF IInv, TypeOK, Steps, Outcomes, Refusals, AtRest, InTx, InStatement
<1>2. StageOK(r)'  BY DEF IInv, TypeOK, StageOK, InTx, InStatement
<1> QED  BY <1>1, <1>2, HandlerMoves DEF IInv, TypeOK

LEMMA FailsKeeps ==
  ASSUME IInv, NEW r \in Requests, Fails(r)
  PROVE  IInv'
<1> USE DEF Fails, Fault, Refuse, Goto, Leave, Decide, Answer, tables, session, locals
<1>1. TypeOK'
  BY BoundsAreNat
     DEF IInv, TypeOK, Steps, Outcomes, Refusals, AtRest, InTx, InStatement
<1>2. StageOK(r)'  BY DEF IInv, TypeOK, StageOK, InTx, InStatement
<1> QED  BY <1>1, <1>2, HandlerMoves DEF IInv, TypeOK


-----------------------------------------------------------------------------
(* The end of a session without a commit.                                  *)

LEMMA SessionEnds ==
  ASSUME IInv, NEW r \in Requests, EndSession(r, "aborted"),
         txn[r] # "committed",
         pc' \in [Requests -> Steps],
         seen' \in [Requests -> LotRow \cup {NoLot}],
         outbid' \in [Requests -> Users \cup {Nil}],
         faults' \in 0 .. MaxFaults,
         UNCHANGED <<tables, call, outcome, clock, notes, crashes>>,
         \A q \in Requests : q # r =>
           pc'[q] = pc[q] /\ seen'[q] = seen[q] /\ outbid'[q] = outbid[q],
         StageOK(r)'
  PROVE  IInv'
<1> USE DEF EndSession, tables
<1>1. TypeOK'
  <2>1. 0 \in Times  BY MaxTimeIsNat DEF Times
  <2>2. lock' \in [LotIds -> Requests \cup {Nil}]  BY DEF IInv, TypeOK
  <2> QED  BY <2>1, <2>2 DEF IInv, TypeOK
<1>2. txn'[r] = "aborted" /\ lotWrite'[r] = Unwritten /\ bidWrite'[r] = {}
  BY DEF IInv, TypeOK
<1>3. RequestOK(r)'
  BY <1>2 DEF RequestOK, CleanOK, PassedOK, SeenOK, WrittenOK, WholeOK, Live, NothingWritten
<1>4. \A l \in LotIds :
        lock'[l] # r /\ (lock'[l] = lock[l] \/ (lock[l] = r /\ lock'[l] = Nil))
  <2>1. Nil # r  BY NullsAreNotRows
  <2> QED  BY <2>1
<1>5. \A q \in Requests : q # r =>
        /\ txn'[q] = txn[q] /\ began'[q] = began[q]
        /\ lotWrite'[q] = lotWrite[q] /\ bidWrite'[q] = bidWrite[q]
  BY DEF IInv, TypeOK
<1> QED  BY <1>1, <1>3, <1>4, <1>5, Frame

LEMMA RollbackKeeps ==
  ASSUME IInv, NEW r \in Requests, Rollback(r)
  PROVE  IInv'
<1> USE DEF Rollback, Leave, Goto, tables, world
<1>1. StageOK(r)'
  BY DEF IInv, TypeOK, StageOK, EndSession, InTx, InStatement
<1>2. txn[r] # "committed"  BY DEF IInv, StageOK
<1> QED  BY <1>1, <1>2, SessionEnds DEF IInv, TypeOK, Steps, AtRest

LEMMA AbandonKeeps ==
  ASSUME IInv, NEW r \in Requests, Abandon(r)
  PROVE  IInv'
<1> USE DEF Abandon, tables, locals, world
<1>1. StageOK(r)'
  BY DEF IInv, TypeOK, StageOK, EndSession, InTx, InStatement
<1> QED  BY <1>1, SessionEnds DEF IInv, TypeOK

LEMMA KillKeeps ==
  ASSUME IInv, NEW r \in Requests, Kill(r)
  PROVE  IInv'
<1> USE DEF Kill, Fault, tables, locals
<1>1. StageOK(r)'
  BY DEF IInv, TypeOK, StageOK, EndSession, InTx, InStatement
<1>2. faults' \in 0 .. MaxFaults  BY BoundsAreNat DEF IInv, TypeOK
<1> QED  BY <1>1, <1>2, SessionEnds DEF IInv, TypeOK

-----------------------------------------------------------------------------
(* The statements of a transaction.                                        *)

LEMMA BeginKeeps ==
  ASSUME IInv, NEW r \in Requests, Begin(r)
  PROVE  IInv'
<1> USE DEF Begin, Goto, tables, locals, world
<1>1. TypeOK'  BY DEF IInv, TypeOK, Steps, InTx, InStatement
<1>2. NothingWritten(r) /\ StageOK(r)
  BY DEF IInv, StageOK, CleanOK, Live
<1>3. StageOK(r)'  BY <1>2 DEF IInv, TypeOK, StageOK, InTx, InStatement
<1>4. /\ pc'[r] = "lock" /\ lotWrite'[r] = Unwritten /\ bidWrite'[r] = {}
      /\ txn'[r] = "open"
  BY <1>2 DEF IInv, TypeOK, NothingWritten
<1>5. RequestOK(r)'
  BY <1>3, <1>4
     DEF RequestOK, CleanOK, PassedOK, SeenOK, WrittenOK, WholeOK, NothingWritten
<1>6. \A l \in LotIds : lock[l] # r
  BY <1>2, NullsAreNotRows DEF IInv, LockOK, Live, StageOK
<1>7. \A q \in Requests : q # r =>
        /\ txn'[q] = txn[q] /\ pc'[q] = pc[q] /\ began'[q] = began[q]
        /\ seen'[q] = seen[q] /\ outbid'[q] = outbid[q]
        /\ lotWrite'[q] = lotWrite[q] /\ bidWrite'[q] = bidWrite[q]
  BY DEF IInv, TypeOK
<1>8. txn[r] # "committed"  BY <1>2 DEF StageOK
<1> QED  BY <1>1, <1>5, <1>6, <1>7, <1>8, Frame

\* The locking read: a row that is there is locked and remembered, and the
\* verdict on it decides whether the write comes next.
LEMMA LockKeeps ==
  ASSUME IInv, NEW r \in Requests, NEW verdict \in {"ok"} \cup Refusals,
         GetLotForUpdate(r),
         Proceed(r, verdict),
         call[r].op # "create",
         verdict = "ok" => Passed(r) /\ lots[Lot(r)] # NoLot,
         UNCHANGED <<tables, txn, began, lotWrite, bidWrite, call, outbid, world>>
  PROVE  IInv'
<1> USE DEF GetLotForUpdate, Proceed, Statement, Goto, Refuse, Decide, tables, world, Lot
<1>0. call[r].lot \in LotIds  BY CallTyped DEF IInv, TypeOK
<1>1. TypeOK'
  <2>1. lots[call[r].lot] \in LotRow \cup {NoLot}  BY <1>0 DEF IInv, TypeOK
  <2>2. lock' \in [LotIds -> Requests \cup {Nil}]  BY <1>0 DEF IInv, TypeOK
  <2>3. seen' \in [Requests -> LotRow \cup {NoLot}]  BY <2>1 DEF IInv, TypeOK
  <2>4. pc' \in [Requests -> Steps]
    BY DEF IInv, TypeOK, Steps, InTx, InStatement
  <2>5. outcome' \in [Requests -> Outcomes]
    BY DEF IInv, TypeOK, Outcomes, Refusals
  <2> QED  BY <2>2, <2>3, <2>4, <2>5 DEF IInv, TypeOK
<1>2. /\ txn'[r] = "open" /\ call' = call /\ lots' = lots /\ began' = began
      /\ lotWrite'[r] = Unwritten /\ bidWrite'[r] = {}
      /\ seen'[r] = lots[call[r].lot]
      /\ pc'[r] = IF verdict = "ok" THEN "write" ELSE "rollback"
  <2>1. CleanOK(r)  BY DEF IInv
  <2> QED  BY <2>1 DEF IInv, TypeOK, CleanOK, NothingWritten
<1>3. StageOK(r)'
  BY <1>2 DEF StageOK, InTx, InStatement
<1>4. CleanOK(r)' /\ WrittenOK(r)' /\ WholeOK(r)'
  BY <1>2 DEF CleanOK, WrittenOK, WholeOK, NothingWritten
<1>5. PassedOK(r)' /\ SeenOK(r)'
  <2>1. CASE verdict = "ok"
    <3>1. lock'[call[r].lot] = r  BY <1>0, <2>1 DEF IInv, TypeOK
    <3>2. Passed(r)'  BY <1>2, <2>1 DEF Passed
    <3> QED  BY <1>2, <2>1, <3>1, <3>2 DEF PassedOK, SeenOK, Holds
  <2>2. CASE verdict # "ok"
    BY <1>2, <2>2 DEF PassedOK, SeenOK
  <2> QED  BY <2>1, <2>2
<1>6. RequestOK(r)'  BY <1>3, <1>4, <1>5 DEF RequestOK
<1>7. \A l \in LotIds : lock[l] # r
  BY NullsAreNotRows DEF IInv, LockOK
<1>8. \A l \in LotIds : lock'[l] = r => l = call[r].lot /\ lots[l] # NoLot
  BY <1>0, <1>7 DEF IInv, TypeOK
<1>9. \A l \in LotIds : lock'[l] = lock[l] \/ (lock[l] = Nil /\ lock'[l] = r)
  BY <1>0 DEF IInv, TypeOK
<1>10. \A l \in LotIds : lock'[l] = r => LockOK(l)'
  BY <1>2, <1>8 DEF LockOK, Live
<1> QED  BY <1>1, <1>6, <1>9, <1>10, Frame DEF IInv, TypeOK

LEMMA LockForBidKeeps ==
  ASSUME IInv, NEW r \in Requests, LockForBid(r)
  PROVE  IInv'
<1> DEFINE row == lots[call[r].lot]
           verdict == BidVerdict(call[r], row, began[r])
<1>1. verdict \in {"ok"} \cup Refusals  BY DEF BidVerdict, Refusals
<1>2. verdict = "ok" => Passed(r) /\ lots[Lot(r)] # NoLot
  BY DEF LockForBid, Passed, Lot, BidVerdict
<1>3. /\ GetLotForUpdate(r) /\ Proceed(r, verdict) /\ call[r].op # "create"
      /\ UNCHANGED <<tables, txn, began, lotWrite, bidWrite, call, outbid, world>>
  BY DEF LockForBid
<1> HIDE DEF verdict
<1> QED  BY <1>1, <1>2, <1>3, LockKeeps

LEMMA LockForOwnerKeeps ==
  ASSUME IInv, NEW r \in Requests, LockForOwner(r)
  PROVE  IInv'
<1> DEFINE row == lots[call[r].lot]
           verdict == OwnerVerdict(call[r], row)
<1>1. verdict \in {"ok"} \cup Refusals  BY DEF OwnerVerdict, Refusals
<1>2. verdict = "ok" => Passed(r) /\ lots[Lot(r)] # NoLot
  BY DEF LockForOwner, Passed, Lot, OwnerVerdict
<1>3. /\ GetLotForUpdate(r) /\ Proceed(r, verdict) /\ call[r].op # "create"
      /\ UNCHANGED <<tables, txn, began, lotWrite, bidWrite, call, outbid, world>>
  BY DEF LockForOwner
<1> HIDE DEF verdict
<1> QED  BY <1>1, <1>2, <1>3, LockKeeps


\* What a request about to write may rely on.
LEMMA AboutToWrite ==
  ASSUME IInv, NEW r \in Requests, Statement(r, "write")
  PROVE  /\ Lot(r) \in LotIds
         /\ Holds(r) /\ Passed(r)
         /\ seen[r] = lots[Lot(r)] /\ lots[Lot(r)] \in LotRow
         /\ lotWrite[r] = Unwritten /\ bidWrite[r] = {}
<1>1. Lot(r) \in LotIds  BY CallTyped DEF IInv, TypeOK, Lot
<1>2. Holds(r) /\ Passed(r)  BY DEF IInv, PassedOK, Statement, Live
<1>3. seen[r] = lots[Lot(r)] /\ seen[r] # NoLot  BY DEF IInv, SeenOK, Statement, Live
<1>4. lots[Lot(r)] \in LotRow  BY <1>1, <1>3 DEF IInv, TypeOK
<1>5. NothingWritten(r)  BY DEF IInv, CleanOK, Statement
<1> QED  BY <1>1, <1>2, <1>3, <1>4, <1>5 DEF NothingWritten

\* A statement that writes the lot's row, or decides not to, keeps the
\* invariant when what it writes is of the form WrittenOK gives.
LEMMA WriteKeeps ==
  ASSUME IInv, NEW r \in Requests, Statement(r, "write"),
         NEW row \in LotRow \cup {NoLot},
         NEW step \in {"top", "commit"},
         step = "top" <=> call[r].op = "place",
         lotWrite' = [lotWrite EXCEPT ![r] = row],
         \/ /\ call[r].op = "place"
            /\ row = Raised(lots[Lot(r)], call[r].price)
         \/ /\ call[r].op = "edit"
            /\ \E p \in Amounts, t \in Times :
                 row = [lots[Lot(r)] EXCEPT !.start = p, !.price = p, !.endsAt = t]
         \/ /\ call[r].op = "delete"
            /\ row = NoLot,
         Goto(r, step),
         UNCHANGED <<tables, lock, txn, began, bidWrite, call, locals, outcome, world>>
  PROVE  IInv'
<1> USE DEF Statement, Goto, tables, locals, world
<1>1. TypeOK'  BY DEF IInv, TypeOK, Steps, InTx, InStatement
<1>2. /\ lotWrite'[r] = row /\ row # Unwritten /\ pc'[r] = step
      /\ bidWrite'[r] = {}
  BY AboutToWrite, NullRow DEF IInv, TypeOK
<1>3. StageOK(r)'  BY <1>2 DEF IInv, StageOK, InTx, InStatement
<1>4. CleanOK(r)'  BY <1>2 DEF CleanOK, Live
<1>5. PassedOK(r)'
  BY AboutToWrite DEF PassedOK, Passed, Holds, Lot
<1>6. SeenOK(r)'  BY AboutToWrite, NullRow DEF SeenOK, Lot
<1>7. WrittenOK(r)'  BY <1>2 DEF WrittenOK, Lot
<1>8. WholeOK(r)'  BY <1>2 DEF WholeOK
<1>9. RequestOK(r)'  BY <1>3, <1>4, <1>5, <1>6, <1>7, <1>8 DEF RequestOK
<1>10. \A l \in LotIds : lock'[l] = r => LockOK(l)'
  BY <1>2, NullsAreNotRows DEF IInv, LockOK, Live, Lot
<1>11. \A q \in Requests : q # r =>
         /\ txn'[q] = txn[q] /\ pc'[q] = pc[q] /\ began'[q] = began[q]
         /\ seen'[q] = seen[q] /\ outbid'[q] = outbid[q]
         /\ lotWrite'[q] = lotWrite[q] /\ bidWrite'[q] = bidWrite[q]
  BY DEF IInv, TypeOK
<1> QED  BY <1>1, <1>9, <1>10, <1>11, Frame

LEMMA ApplyBidKeeps ==
  ASSUME IInv, NEW r \in Requests, ApplyBid(r)
  PROVE  IInv'
<1>1. /\ Statement(r, "write") /\ call[r].op = "place" /\ Goto(r, "top")
      /\ lotWrite' = [lotWrite EXCEPT ![r] = Raised(lots[Lot(r)], call[r].price)]
      /\ UNCHANGED <<tables, lock, txn, began, bidWrite, call, locals, outcome, world>>
  BY DEF ApplyBid, Lot
<1>2. /\ call[r] \in Calls /\ began[r] \in Times /\ lots[Lot(r)] \in LotRow
      /\ BidVerdict(call[r], lots[Lot(r)], began[r]) = "ok"
  BY <1>1, AboutToWrite DEF IInv, TypeOK, Passed
<1>3. call[r].price \in Amounts  BY <1>1, <1>2, VerdictOfBid
<1>4. Raised(lots[Lot(r)], call[r].price) \in LotRow  BY <1>2, <1>3, RaisedIsRow
<1> QED  BY <1>1, <1>4, WriteKeeps

\* A PATCH of a lot without bids writes equal start and current prices:
\* either both new, or both as they were.
LEMMA PatchedRow ==
  ASSUME IInv, NEW r \in Requests, Statement(r, "write"), call[r].op = "edit",
         ~BadPrice(call[r].price), ~BadEndsAt(call[r].endsAt)
  PROVE  \E p \in Amounts, t \in Times :
           Overwritten(lots[Lot(r)], Patched(seen[r], call[r]))
           = [lots[Lot(r)] EXCEPT !.start = p, !.price = p, !.endsAt = t]
<1> DEFINE row == lots[Lot(r)]
           c == call[r]
           p == IF c.price = Nil THEN row.price ELSE c.price
           t == IF c.endsAt = Nil THEN row.endsAt ELSE c.endsAt
<1>1. row \in LotRow /\ seen[r] = row /\ Lot(r) \in LotIds /\ Passed(r)
  BY AboutToWrite
<1>2. row.bidCount = 0
  BY <1>1, VerdictOfOwner DEF Passed
<1>3. row.price = row.start
  BY <1>1, <1>2, NullRow DEF IInv, LotsOK, Stored
<1>4. c.endsAt \in Times \cup {Nil} /\ c.price \in Prices \cup {Nil}
  BY CallTyped DEF IInv, TypeOK
<1>5. p \in Amounts  BY <1>1 DEF BadPrice, LotRow
<1>6. t \in Times  BY <1>1, <1>4 DEF LotRow
<1>7. /\ Patched(row, c).start = p
      /\ Patched(row, c).price = p
      /\ Patched(row, c).endsAt = t
  BY <1>1, <1>3 DEF Patched, LotRow
<1> HIDE DEF p, t, row
<1> QED  BY <1>1, <1>5, <1>6, <1>7 DEF row, Overwritten

LEMMA UpdateLotKeeps ==
  ASSUME IInv, NEW r \in Requests, UpdateLot(r)
  PROVE  IInv'
<1>1. /\ Statement(r, "write") /\ call[r].op = "edit"
      /\ UNCHANGED <<tables, lock, txn, began, bidWrite, call, locals, world>>
  BY DEF UpdateLot
<1>2. CASE BadPrice(call[r].price) \/ BadEndsAt(call[r].endsAt)
  <2> USE DEF Statement, Refuse, Goto, Decide, tables, locals, world
  <2>1. Refuse(r, "invalid") /\ UNCHANGED lotWrite  BY <1>2 DEF UpdateLot
  <2>2. TypeOK'
    BY <1>1, <2>1 DEF IInv, TypeOK, Steps, InTx, InStatement, Outcomes, Refusals
  <2>3. StageOK(r)'
    BY <1>1, <2>1 DEF IInv, TypeOK, StageOK, InTx, InStatement
  <2> QED  BY <1>1, <2>1, <2>2, <2>3, HandlerMoves DEF session, IInv, TypeOK
<1>3. CASE ~BadPrice(call[r].price) /\ ~BadEndsAt(call[r].endsAt)
  <2> DEFINE row == Overwritten(lots[Lot(r)], Patched(seen[r], call[r]))
  <2>1. lotWrite' = [lotWrite EXCEPT ![r] = row] /\ Goto(r, "commit") /\ UNCHANGED outcome
    BY <1>3 DEF UpdateLot, Lot
  <2>2. \E p \in Amounts, t \in Times :
          row = [lots[Lot(r)] EXCEPT !.start = p, !.price = p, !.endsAt = t]
    BY <1>1, <1>3, PatchedRow
  <2>3. row \in LotRow
    <3>1. PICK p \in Amounts, t \in Times :
            row = [lots[Lot(r)] EXCEPT !.start = p, !.price = p, !.endsAt = t]
      BY <2>2
    <3>2. lots[Lot(r)] \in LotRow  BY <1>1, AboutToWrite
    <3> HIDE DEF row
    <3> QED  BY <3>1, <3>2, EditedIsRow
  <2> HIDE DEF row
  <2> QED  BY <1>1, <2>1, <2>2, <2>3, WriteKeeps
<1> QED  BY <1>2, <1>3

LEMMA DeleteLotKeeps ==
  ASSUME IInv, NEW r \in Requests, DeleteLot(r)
  PROVE  IInv'
BY WriteKeeps DEF DeleteLot

LEMMA TopBidderKeeps ==
  ASSUME IInv, NEW r \in Requests, TopBidder(r)
  PROVE  IInv'
<1> USE DEF TopBidder, Statement, Goto, tables, session, world
<1>1. TopBidders(bids, call[r].lot) \subseteq Users
  BY DEF IInv, TypeOK, TopBidders, BidsOn, BidRow
<1>2. outbid' \in [Requests -> Users \cup {Nil}]
  BY <1>1 DEF IInv, TypeOK
<1>3. TypeOK'  BY <1>2 DEF IInv, TypeOK, Steps, InTx, InStatement
<1>4. RequestOK(r) /\ pc'[r] = "insert"  BY DEF IInv, TypeOK, RequestOK
<1>5. StageOK(r)'  BY <1>4 DEF RequestOK, StageOK, InTx, InStatement
<1>6. CleanOK(r)' /\ PassedOK(r)' /\ SeenOK(r)' /\ WrittenOK(r)' /\ WholeOK(r)'
  BY <1>4 DEF RequestOK, CleanOK, PassedOK, SeenOK, WrittenOK, WholeOK,
              Live, Passed, Holds, Lot
<1>7. RequestOK(r)'  BY <1>5, <1>6 DEF RequestOK
<1>8. \A l \in LotIds : lock'[l] = r => LockOK(l)'
  BY <1>4, NullsAreNotRows DEF IInv, LockOK, Live, Lot
<1>9. \A q \in Requests : q # r => pc'[q] = pc[q] /\ outbid'[q] = outbid[q]
  BY DEF IInv, TypeOK
<1> QED  BY <1>3, <1>7, <1>8, <1>9, Frame

LEMMA InsertBidKeeps ==
  ASSUME IInv, NEW r \in Requests, InsertBid(r)
  PROVE  IInv'
<1> USE DEF InsertBid, Statement, Goto, tables, locals, world
<1>1. /\ RequestOK(r) /\ pc'[r] = "commit" /\ call[r].op = "place"
      /\ lotWrite[r] # Unwritten /\ bidWrite'[r] = {BidOf(r)}
  <2>1. RequestOK(r) /\ pc'[r] = "commit"  BY DEF IInv, TypeOK, RequestOK
  <2>2. call[r].op = "place" /\ lotWrite[r] # Unwritten /\ bidWrite[r] = {}
    BY <2>1 DEF RequestOK, StageOK, WholeOK, Live
  <2> QED  BY <2>1, <2>2 DEF IInv, TypeOK
<1>2. BidOf(r) \in BidRow
  <2>1. /\ call[r] \in Calls /\ began[r] \in Times
        /\ call[r].lot \in LotIds /\ call[r].caller \in Users
        /\ lots[Lot(r)] \in LotRow \cup {NoLot}
    BY CallTyped DEF IInv, TypeOK, Lot
  <2>2. BidVerdict(call[r], lots[Lot(r)], began[r]) = "ok"
    BY <1>1 DEF RequestOK, PassedOK, Passed, Live
  <2>3. call[r].price \in Amounts  BY <1>1, <2>1, <2>2, VerdictOfBid
  <2> QED  BY <2>1, <2>3 DEF BidOf, BidRow
<1>3. TypeOK'
  <2>1. bidWrite[r] \cup {BidOf(r)} \in SUBSET BidRow  BY <1>2 DEF IInv, TypeOK
  <2>2. bidWrite' \in [Requests -> SUBSET BidRow]  BY <2>1 DEF IInv, TypeOK
  <2> QED  BY <2>2 DEF IInv, TypeOK, Steps, InTx, InStatement
<1>4. StageOK(r)'  BY <1>1 DEF RequestOK, StageOK, InTx, InStatement
<1>5. CleanOK(r)' /\ PassedOK(r)' /\ SeenOK(r)' /\ WrittenOK(r)'
  BY <1>1 DEF RequestOK, CleanOK, PassedOK, SeenOK, WrittenOK, Live, Passed, Holds, Lot
<1>6. WholeOK(r)'  BY <1>1 DEF WholeOK, BidOf
<1>7. RequestOK(r)'  BY <1>4, <1>5, <1>6 DEF RequestOK
<1>8. \A l \in LotIds : lock'[l] = r => LockOK(l)'
  BY <1>1, NullsAreNotRows DEF IInv, LockOK, Live, Lot
<1>9. \A q \in Requests : q # r => pc'[q] = pc[q] /\ bidWrite'[q] = bidWrite[q]
  BY DEF IInv, TypeOK
<1> QED  BY <1>3, <1>7, <1>8, <1>9, Frame

LEMMA CommitKeeps ==
  ASSUME IInv, NEW r \in Requests, Commit(r)
  PROVE  IInv'
<1> USE DEF Commit, Statement, Goto, tables, locals, world
<1>1. TypeOK'  BY DEF IInv, TypeOK, Steps, InTx, InStatement
<1>2. RequestOK(r) /\ pc'[r] = "wait" /\ txn'[r] = "committing"
  BY DEF IInv, TypeOK, RequestOK
<1>3. StageOK(r)'  BY <1>2 DEF RequestOK, StageOK, InTx, InStatement
<1>4. CleanOK(r)' /\ PassedOK(r)' /\ SeenOK(r)' /\ WrittenOK(r)'
  BY <1>2 DEF RequestOK, CleanOK, PassedOK, SeenOK, WrittenOK, Live, Passed, Holds, Lot
<1>5. WholeOK(r)'  BY <1>2 DEF RequestOK, WholeOK, BidOf, Live
<1>6. RequestOK(r)'  BY <1>3, <1>4, <1>5 DEF RequestOK
<1>7. \A l \in LotIds : lock'[l] = r => LockOK(l)'
  BY <1>2, NullsAreNotRows DEF IInv, LockOK, Live, Lot
<1>8. \A q \in Requests : q # r => pc'[q] = pc[q] /\ txn'[q] = txn[q]
  BY DEF IInv, TypeOK
<1> QED  BY <1>1, <1>6, <1>7, <1>8, Frame


-----------------------------------------------------------------------------
(* The two steps that change the committed tables.                         *)

\* A request that has read its lot holds the lot's lock.
LEMMA ReaderHolds ==
  ASSUME IInv, NEW q \in Requests, Live(q),
         \/ pc[q] \in {"write", "top", "insert", "commit", "wait"}
         \/ lotWrite[q] # Unwritten
  PROVE  Holds(q)
<1>1. pc[q] = "write" \/ lotWrite[q] # Unwritten
  BY DEF IInv, StageOK, WholeOK, Live
<1> QED  BY <1>1 DEF IInv, PassedOK

\* A change of one lot's row leaves alone every request that does not hold
\* that row's lock and whose own state stays.
LEMMA OthersKeep ==
  ASSUME IInv, NEW q \in Requests, NEW l \in LotIds,
         lock[l] # q,
         \A k \in LotIds : k # l => lots'[k] = lots[k],
         \A k \in LotIds : lock[k] = q => lock'[k] = q,
         call' = call,
         txn'[q] = txn[q], pc'[q] = pc[q], began'[q] = began[q],
         seen'[q] = seen[q], outbid'[q] = outbid[q],
         lotWrite'[q] = lotWrite[q], bidWrite'[q] = bidWrite[q]
  PROVE  RequestOK(q)'
<1>1. RequestOK(q) /\ Lot(q) \in LotIds
  BY CallTyped DEF IInv, TypeOK, RequestOK, Lot
<1>2. Holds(q) => Lot(q) # l /\ lots'[Lot(q)] = lots[Lot(q)] /\ Holds(q)'
  BY <1>1 DEF Holds, Lot
<1>3. StageOK(q)'  BY <1>1 DEF RequestOK, StageOK
<1>4. CleanOK(q)'  BY <1>1 DEF RequestOK, CleanOK, Live, NothingWritten
<1>5. PassedOK(q)'  BY <1>1, <1>2 DEF RequestOK, PassedOK, Live, Passed, Lot
<1>6. SeenOK(q)'
  BY <1>1, <1>2, ReaderHolds DEF RequestOK, SeenOK, Live, Lot
<1>7. WrittenOK(q)'
  BY <1>1, <1>2, ReaderHolds DEF RequestOK, WrittenOK, Live, Lot
<1>8. WholeOK(q)'  BY <1>1 DEF RequestOK, WholeOK, Live, BidOf
<1> QED  BY <1>3, <1>4, <1>5, <1>6, <1>7, <1>8 DEF RequestOK

\* What Create inserts: a fresh row under an id that names no lot.
LEMMA InsertedLot ==
  ASSUME IInv, NEW r \in Requests, InsertLot(r)
  PROVE  \E l \in LotIds \ minted :
           /\ lots[l] = NoLot /\ lock[l] = Nil
           /\ call[r].caller \in Users /\ call[r].price \in Amounts
           /\ call[r].endsAt \in Times
           /\ lots' = [lots EXCEPT ![l] =
                         NewLot(call[r].caller, call[r].price, call[r].endsAt)]
           /\ minted' = minted \cup {l}
<1>1. PICK l \in LotIds \ minted :
        /\ lots' = [lots EXCEPT ![l] =
                      NewLot(call[r].caller, call[r].price, call[r].endsAt)]
        /\ minted' = minted \cup {l}
  BY DEF InsertLot
<1>2. lots[l] = NoLot  BY DEF IInv, LotsOK, Stored
<1>3. lock[l] = Nil  BY <1>2 DEF IInv, LockOK
<1>4. /\ call[r].caller \in Users /\ call[r].price \in Amounts
      /\ call[r].endsAt \in Times
  BY CallTyped DEF IInv, TypeOK, StageOK, InsertLot
<1> QED  BY <1>1, <1>2, <1>3, <1>4

LEMMA InsertLotKeeps ==
  ASSUME IInv, NEW r \in Requests, InsertLot(r)
  PROVE  IInv'
<1> DEFINE row == NewLot(call[r].caller, call[r].price, call[r].endsAt)
<1> USE DEF session, locals
<1>1. PICK l \in LotIds \ minted :
        /\ lots[l] = NoLot /\ lock[l] = Nil
        /\ call[r].caller \in Users /\ call[r].price \in Amounts
        /\ call[r].endsAt \in Times
        /\ lots' = [lots EXCEPT ![l] = row]
        /\ minted' = minted \cup {l}
  BY InsertedLot
<1>2. row \in LotRow /\ row # NoLot /\ row.price = row.start
  <2>1. row \in LotRow /\ row.price = row.start  BY <1>1 DEF NewLot, LotRow
  <2> QED  BY <2>1, NullRow
<1> HIDE DEF row
<1>3. /\ UNCHANGED <<bids, session, call, clock, notes, crashes>>
      /\ pc' = [pc EXCEPT ![r] = "done"]
      /\ seen' = [seen EXCEPT ![r] = NoLot]
      /\ outbid' = [outbid EXCEPT ![r] = Nil]
      /\ pc[r] = "create"
  BY DEF InsertLot, Answer, Leave, Goto
<1>4. outcome' \in [Requests -> Outcomes]
  BY DEF InsertLot, Answer, Decide, IInv, TypeOK, Outcomes
<1>5. faults' \in 0 .. MaxFaults
  BY BoundsAreNat DEF InsertLot, Fault, IInv, TypeOK
<1>6. TypeOK'
  BY <1>1, <1>2, <1>3, <1>4, <1>5 DEF IInv, TypeOK, Steps, AtRest
<1>7. lots'[l] = row /\ \A k \in LotIds : k # l => lots'[k] = lots[k]
  BY <1>1 DEF IInv, TypeOK
<1>8. ASSUME NEW q \in Requests, q # r
      PROVE  RequestOK(q)'
  <2>1. lock[l] # q  BY <1>1, NullsAreNotRows
  <2>2. pc'[q] = pc[q] /\ seen'[q] = seen[q] /\ outbid'[q] = outbid[q]
    BY <1>3, <1>8 DEF IInv, TypeOK
  <2> QED  BY <1>3, <1>7, <2>1, <2>2, OthersKeep
<1>9. RequestOK(r)'
  <2>1. /\ txn'[r] = "none" /\ lotWrite'[r] = Unwritten /\ bidWrite'[r] = {}
        /\ pc'[r] = "done"
    BY <1>3 DEF IInv, TypeOK, StageOK, CleanOK, NothingWritten, Live
  <2> QED  BY <2>1 DEF RequestOK, StageOK, CleanOK, PassedOK, SeenOK, WrittenOK,
                       WholeOK, Live, NothingWritten, InTx, InStatement
<1>10. ASSUME NEW k \in LotIds PROVE LockOK(k)'
  <2>1. lock[k] # Nil => k # l /\ lots'[k] = lots[k]  BY <1>1, <1>7
  <2>2. lock[k] # Nil => pc[lock[k]] # "create" /\ lock[k] \in Requests
    BY DEF IInv, TypeOK, LockOK, Live, StageOK
  <2>3. lock[k] # Nil => pc'[lock[k]] = pc[lock[k]]  BY <1>3, <2>2 DEF IInv, TypeOK
  <2> QED  BY <1>3, <2>1, <2>3 DEF IInv, LockOK, Live, Lot
<1>11. BidsOK'  BY <1>3 DEF IInv, BidsOK
<1>12. LotsOK'  BY <1>1, <1>2, <1>7 DEF IInv, LotsOK, Stored
<1> QED  BY <1>6, <1>8, <1>9, <1>10, <1>11, <1>12 DEF IInv, RequestOK

\* What a committing transaction brings to the tables.
LEMMA CommittedRow ==
  ASSUME IInv, NEW r \in Requests, ServerCommit(r)
  PROVE  /\ Lot(r) \in LotIds /\ lock[Lot(r)] = r /\ Passed(r)
         /\ lots[Lot(r)] \in LotRow
         /\ lotWrite[r] \in LotRow \cup {NoLot}
         /\ WrittenOK(r) /\ Live(r) /\ lotWrite[r] # Unwritten
         /\ lots' = [lots EXCEPT ![Lot(r)] = lotWrite[r]]
         /\ bids' = bids \cup bidWrite[r]
         /\ bidWrite[r] = IF call[r].op = "place" THEN {BidOf(r)} ELSE {}
<1>1. Live(r) /\ lotWrite[r] # Unwritten
      /\ bidWrite[r] = IF call[r].op = "place" THEN {BidOf(r)} ELSE {}
  BY DEF ServerCommit, IInv, WholeOK, Live
<1>2. Holds(r) /\ Passed(r) /\ WrittenOK(r)  BY <1>1 DEF IInv, PassedOK
<1>3. Lot(r) \in LotIds  BY CallTyped DEF IInv, TypeOK, Lot
<1>4. lock[Lot(r)] = r /\ lock[Lot(r)] # Nil  BY <1>2, NullsAreNotRows DEF Holds, Lot
<1>5. lots[Lot(r)] \in LotRow  BY <1>3, <1>4 DEF IInv, LockOK, TypeOK
<1>6. lotWrite[r] \in LotRow \cup {NoLot}  BY <1>1 DEF IInv, TypeOK
<1> QED  BY <1>1, <1>2, <1>3, <1>4, <1>5, <1>6 DEF ServerCommit, Lot

LEMMA ServerCommitKeeps ==
  ASSUME IInv, NEW r \in Requests, ServerCommit(r)
  PROVE  IInv'
<1> USE DEF tables, locals, world
<1> DEFINE l == Lot(r)
<1>1. /\ l \in LotIds /\ lock[l] = r
      /\ lots' = [lots EXCEPT ![l] = lotWrite[r]]
      /\ lotWrite[r] \in LotRow \cup {NoLot}
      /\ bids' = bids \cup bidWrite[r]
  BY CommittedRow
<1>2. lots'[l] = lotWrite[r] /\ \A k \in LotIds : k # l => lots'[k] = lots[k]
  BY <1>1 DEF IInv, TypeOK
<1>3. /\ EndSession(r, "committed")
      /\ UNCHANGED <<minted, call, pc, seen, outbid, outcome, clock, notes, faults, crashes>>
  BY DEF ServerCommit
<1>4. Nil # r  BY NullsAreNotRows
<1>5. /\ txn'[r] = "committed" /\ lotWrite'[r] = Unwritten /\ bidWrite'[r] = {}
      /\ \A q \in Requests : q # r =>
           /\ txn'[q] = txn[q] /\ began'[q] = began[q]
           /\ lotWrite'[q] = lotWrite[q] /\ bidWrite'[q] = bidWrite[q]
      /\ \A k \in LotIds : lock'[k] = IF lock[k] = r THEN Nil ELSE lock[k]
  BY <1>3 DEF EndSession, IInv, TypeOK
<1>6. TypeOK'
  <2>1. 0 \in Times  BY MaxTimeIsNat DEF Times
  <2>2. lock' \in [LotIds -> Requests \cup {Nil}]
    BY <1>3 DEF EndSession, IInv, TypeOK
  <2>3. /\ txn' \in [Requests -> {"none", "open", "committing", "committed", "aborted"}]
        /\ began' \in [Requests -> Times]
        /\ lotWrite' \in [Requests -> LotRow \cup {NoLot, Unwritten}]
        /\ bidWrite' \in [Requests -> SUBSET BidRow]
    BY <1>3, <2>1 DEF EndSession, IInv, TypeOK
  <2>4. lots' \in [LotIds -> LotRow \cup {NoLot}]  BY <1>1 DEF IInv, TypeOK
  <2>5. bids' \in SUBSET BidRow  BY <1>1 DEF IInv, TypeOK
  <2> QED  BY <1>3, <2>2, <2>3, <2>4, <2>5 DEF IInv, TypeOK
<1> HIDE DEF l
<1>7. ASSUME NEW q \in Requests, q # r
      PROVE  RequestOK(q)'
  <2>1. lock[l] # q  BY <1>1, <1>7
  <2>2. \A k \in LotIds : lock[k] = q => lock'[k] = q  BY <1>5, <1>7
  <2> QED  BY <1>1, <1>2, <1>3, <1>5, <1>7, <2>1, <2>2, OthersKeep
<1>8. RequestOK(r)'
  <2>1. StageOK(r)'
    BY <1>3, <1>5 DEF ServerCommit, IInv, StageOK, InTx, InStatement
  <2> QED  BY <1>5, <2>1 DEF RequestOK, CleanOK, PassedOK, SeenOK, WrittenOK,
                             WholeOK, Live, NothingWritten
<1>9. ASSUME NEW k \in LotIds PROVE LockOK(k)'
  <2>1. CASE lock[k] = r  BY <2>1, <1>5 DEF LockOK
  <2>2. CASE lock[k] # r
    <3>1. k # l /\ lots'[k] = lots[k] /\ lock'[k] = lock[k]  BY <2>2, <1>1, <1>2, <1>5
    <3>2. lock[k] \in Requests \cup {Nil}  BY DEF IInv, TypeOK
    <3> QED  BY <2>2, <3>1, <3>2, <1>3, <1>5 DEF IInv, LockOK, Live, Lot
  <2> QED  BY <2>1, <2>2
<1>10. BidsOK'
  <2>1. \A b \in bidWrite[r] : b.id = r
    <3>1. bidWrite[r] \subseteq {BidOf(r)}  BY CommittedRow
    <3>2. BidOf(r).id = r  BY DEF BidOf
    <3> QED  BY <3>1, <3>2
  <2>2. \A b \in bids : b.id \in Requests /\ b.id # r /\ txn[b.id] = "committed"
    BY DEF ServerCommit, IInv, BidsOK, TypeOK, BidRow
  <2> QED  BY <1>1, <1>5, <2>1, <2>2 DEF BidsOK
<1>11. LotsOK'
  <2>1. lotWrite[r] # NoLot /\ lotWrite[r].bidCount = 0 =>
          lotWrite[r].price = lotWrite[r].start
    <3>1. lots[Lot(r)] \in LotRow /\ WrittenOK(r) /\ Live(r) /\ lotWrite[r] # Unwritten
          /\ Passed(r)
      BY CommittedRow
    <3>2. CASE call[r].op = "place" /\ lotWrite[r] = Raised(lots[Lot(r)], call[r].price)
      <4>1. call[r].price \in Amounts
        BY <3>1, <3>2, VerdictOfBid DEF Passed, IInv, TypeOK
      <4>2. lots[Lot(r)].bidCount \in Nat  BY <3>1 DEF LotRow
      <4>3. lotWrite[r].bidCount = lots[Lot(r)].bidCount + 1
        BY <3>1, <3>2, <4>1, RaisedIsRow
      <4> QED  BY <4>2, <4>3
    <3>3. ASSUME NEW p \in Amounts, NEW t \in Times,
                 lotWrite[r] = [lots[Lot(r)] EXCEPT !.start = p, !.price = p, !.endsAt = t]
          PROVE  lotWrite[r].price = lotWrite[r].start
      BY <3>1, <3>3, EditedIsRow
    <3> QED  BY <3>1, <3>2, <3>3 DEF WrittenOK
  <2>2. lots[l] # NoLot  BY <1>1, <1>4 DEF IInv, LockOK
  <2> QED  BY <1>1, <1>2, <1>3, <2>1, <2>2 DEF IInv, LotsOK, Stored
<1> QED  BY <1>6, <1>7, <1>8, <1>9, <1>10, <1>11 DEF IInv, RequestOK


-----------------------------------------------------------------------------
(* Crashes, time, and the invariant.                                       *)

LEMMA CrashKeeps ==
  ASSUME IInv, Crash
  PROVE  IInv'
<1> USE DEF Crash, tables, session, AtRest
<1>1. TypeOK'  BY BoundsAreNat DEF IInv, TypeOK, Steps, InTx, InStatement
<1>2. ASSUME NEW q \in Requests PROVE RequestOK(q)'
  <2>1. RequestOK(q)  BY DEF IInv, RequestOK
  <2>2. pc'[q] \in {"idle", "done", "dead"} /\ (pc'[q] = "dead" \/ pc'[q] = pc[q])
    BY DEF IInv, TypeOK
  <2>3. StageOK(q)'
    <3>1. txn[q] # "none" => call[q].op # "create"  BY <2>1 DEF RequestOK, StageOK
    <3>2. pc'[q] = "idle" => txn[q] = "none"  BY <2>1, <2>2 DEF RequestOK, StageOK
    <3> QED  BY <2>2, <3>1, <3>2 DEF StageOK, InTx, InStatement
  <2>4. CleanOK(q)'  BY <2>1, <2>2 DEF RequestOK, CleanOK, Live, NothingWritten
  <2>5. PassedOK(q)'
    BY <2>1, <2>2 DEF RequestOK, PassedOK, Live, Passed, Holds, Lot
  <2>6. SeenOK(q)'  BY <2>2 DEF SeenOK
  <2>7. WrittenOK(q)'  BY <2>1 DEF RequestOK, WrittenOK, Live, Lot
  <2>8. WholeOK(q)'  BY <2>1, <2>2 DEF RequestOK, WholeOK, Live, BidOf
  <2> QED  BY <2>3, <2>4, <2>5, <2>6, <2>7, <2>8 DEF RequestOK
<1>3. ASSUME NEW l \in LotIds PROVE LockOK(l)'
  <2>1. lock[l] # Nil => lock[l] \in Requests  BY DEF IInv, TypeOK
  <2>2. lock[l] # Nil => pc'[lock[l]] # "lock"  BY <2>1
  <2> QED  BY <2>2 DEF IInv, LockOK, Live, Lot
<1>4. BidsOK' /\ LotsOK'  BY DEF IInv, BidsOK, LotsOK, Stored
<1> QED  BY <1>1, <1>2, <1>3, <1>4 DEF IInv, RequestOK

\* Nothing the invariant speaks of changes.
LEMMA NothingMoves ==
  ASSUME IInv, TypeOK', UNCHANGED <<tables, session, call, pc, locals>>
  PROVE  IInv'
<1> USE DEF tables, session, locals
<1>1. ASSUME NEW q \in Requests PROVE RequestOK(q)'
  <2>1. RequestOK(q)  BY DEF IInv, RequestOK
  <2>2. StageOK(q)'  BY <2>1 DEF RequestOK, StageOK
  <2>3. CleanOK(q)'  BY <2>1 DEF RequestOK, CleanOK, Live, NothingWritten
  <2>4. PassedOK(q)'  BY <2>1 DEF RequestOK, PassedOK, Live, Passed, Holds, Lot
  <2>5. SeenOK(q)'  BY <2>1 DEF RequestOK, SeenOK, Live, Lot
  <2>6. WrittenOK(q)'  BY <2>1 DEF RequestOK, WrittenOK, Live, Lot
  <2>7. WholeOK(q)'  BY <2>1 DEF RequestOK, WholeOK, Live, BidOf
  <2> QED  BY <2>2, <2>3, <2>4, <2>5, <2>6, <2>7 DEF RequestOK
<1>2. \A l \in LotIds : LockOK(l)'  BY DEF IInv, LockOK, Live, Lot
<1>3. BidsOK' /\ LotsOK'  BY DEF IInv, BidsOK, LotsOK, Stored
<1> QED  BY <1>1, <1>2, <1>3 DEF IInv, RequestOK

LEMMA InitHolds == Init => IInv
<1> SUFFICES ASSUME Init PROVE IInv  OBVIOUS
<1> USE DEF Init
<1>1. TypeOK
  <2>1. 0 \in Times /\ 0 \in 0 .. MaxFaults /\ 0 \in 0 .. MaxCrashes
    BY MaxTimeIsNat, BoundsAreNat DEF Times
  <2>2. InitLots \in [LotIds -> LotRow \cup {NoLot}]  BY InitLotsAreFresh
  <2>3. Stored(InitLots) \in SUBSET LotIds  BY DEF Stored
  <2> QED  BY <2>1, <2>2, <2>3 DEF TypeOK, Steps, AtRest, Outcomes
<1>2. ASSUME NEW q \in Requests PROVE RequestOK(q)
  BY DEF RequestOK, StageOK, CleanOK, PassedOK, SeenOK, WrittenOK, WholeOK,
         Live, NothingWritten, InTx, InStatement
<1>3. \A l \in LotIds : LockOK(l)  BY DEF LockOK
<1>4. BidsOK  BY DEF BidsOK
<1>5. LotsOK  BY InitLotsAreFresh DEF LotsOK
<1> QED  BY <1>1, <1>2, <1>3, <1>4, <1>5 DEF IInv, RequestOK

LEMMA NextKeeps == IInv /\ [Next]_vars => IInv'
<1> SUFFICES ASSUME IInv, [Next]_vars PROVE IInv'  OBVIOUS
<1>1. ASSUME NEW r \in Requests, Arrive(r) PROVE IInv'  BY <1>1, ArriveKeeps
<1>2. ASSUME NEW r \in Requests, Handler(r) PROVE IInv'
  BY <1>2, UserExistsKeeps, InsertLotKeeps, BeginKeeps, LockForBidKeeps,
     LockForOwnerKeeps, ApplyBidKeeps, UpdateLotKeeps, DeleteLotKeeps,
     TopBidderKeeps, InsertBidKeeps, CommitKeeps, CommitAnsweredKeeps,
     OutbidKeeps, RollbackKeeps, SessionLostKeeps
     DEF Handler
<1>3. ASSUME NEW r \in Requests, Database(r) PROVE IInv'
  BY <1>3, ServerCommitKeeps, AbandonKeeps DEF Database
<1>4. ASSUME NEW r \in Requests, Breaks(r) PROVE IInv'
  BY <1>4, FailsKeeps, CommitAnswerLostKeeps, RollbackLostKeeps, KillKeeps DEF Breaks
<1>5. CASE Crash  BY <1>5, CrashKeeps
<1>6. CASE Tick
  <2>1. clock' \in Times
    BY <1>6, MaxTimeIsNat DEF Tick, IInv, TypeOK, Times
  <2>2. TypeOK'
    BY <1>6, <2>1 DEF Tick, IInv, TypeOK, tables, session, locals
  <2> QED  BY <1>6, <2>2, NothingMoves DEF Tick
<1>7. CASE UNCHANGED vars
  <2>1. TypeOK'
    BY <1>7 DEF vars, IInv, TypeOK, tables, session, locals, world
  <2> QED  BY <1>7, <2>1, NothingMoves DEF vars
<1> QED  BY <1>1, <1>2, <1>3, <1>4, <1>5, <1>6, <1>7 DEF Next, Quiet

LEMMA Inductive == Spec => []IInv
BY InitHolds, NextKeeps, PTL DEF Spec

-----------------------------------------------------------------------------
(* What follows from the invariant.                                        *)

\* Every reachable state is well typed.
THEOREM BiddingTyped == Spec => []TypeOK
<1>1. IInv => TypeOK  BY DEF IInv
<1> QED  BY <1>1, Inductive, PTL

\* A transaction works on the committed row it read, under its lock, for
\* every interleaving of any number of requests.
THEOREM LockProtectsWrites == Spec => []WritesAreUnderTheLock
<1>1. IInv => WritesAreUnderTheLock
  <2> SUFFICES ASSUME IInv, NEW r \in Requests, Live(r)
               PROVE  /\ lotWrite[r] # Unwritten \/ pc[r] \in {"write", "top", "insert"}
                           => Holds(r)
                      /\ pc[r] \in {"write", "top", "insert", "commit", "wait"} =>
                           seen[r] = lots[call[r].lot] /\ seen[r] # NoLot
    BY DEF WritesAreUnderTheLock
  <2> QED  BY ReaderHolds DEF IInv, SeenOK, Lot
<1> QED  BY <1>1, Inductive, PTL

\* A commit always carries the lot's row and, for a bid, the bid's row.
THEOREM CommitsCarryBothRows == Spec => []CommitsAreWhole
<1>1. IInv => CommitsAreWhole  BY DEF IInv, WholeOK, CommitsAreWhole
<1> QED  BY <1>1, Inductive, PTL


-----------------------------------------------------------------------------
(* Bidding implements Auction.                                             *)

\* Create's insert is the creation of a lot.
LEMMA InsertIsCreate ==
  ASSUME IInv, NEW r \in Requests, InsertLot(r)
  PROVE  AuctionNext
<1>1. PICK l \in LotIds \ minted :
        /\ lots[l] = NoLot
        /\ call[r].caller \in Users /\ call[r].price \in Amounts
        /\ call[r].endsAt \in Times
        /\ lots' = [lots EXCEPT ![l] =
                      NewLot(call[r].caller, call[r].price, call[r].endsAt)]
  BY InsertedLot
<1>2. CreateLot(l, call[r].caller, call[r].price, call[r].endsAt)
  BY <1>1 DEF InsertLot, CreateLot
<1> QED  BY <1>1, <1>2 DEF AuctionNext

\* The commit of a transaction is the bid, the edit or the delete.
LEMMA CommitIsStep ==
  ASSUME IInv, NEW r \in Requests, ServerCommit(r)
  PROVE  AuctionNext
<1> DEFINE l == Lot(r)
           row == lots[Lot(r)]
<1>1. /\ l \in LotIds /\ Passed(r) /\ row \in LotRow /\ row # NoLot
      /\ WrittenOK(r) /\ Live(r) /\ lotWrite[r] # Unwritten
      /\ lots' = [lots EXCEPT ![l] = lotWrite[r]]
      /\ bids' = bids \cup bidWrite[r]
      /\ bidWrite[r] = IF call[r].op = "place" THEN {BidOf(r)} ELSE {}
  BY CommittedRow, NullRow
<1>2. CASE call[r].op = "place" /\ lotWrite[r] = Raised(row, call[r].price)
  <2>1. /\ call[r] \in Calls /\ began[r] \in Times
        /\ call[r].caller \in Users
    BY CallTyped DEF IInv, TypeOK
  <2>2. BidVerdict(call[r], row, began[r]) = "ok"  BY <1>1, <1>2 DEF Passed
  <2>3. /\ began[r] < row.endsAt /\ row.owner # call[r].caller
        /\ call[r].price \in Amounts /\ call[r].price > row.price
    BY <1>1, <1>2, <2>1, <2>2, VerdictOfBid
  <2>4. \A b \in bids : b.id # r  BY DEF IInv, BidsOK, ServerCommit
  <2>5. /\ BidOf(r).id = r /\ BidOf(r).lot = l
        /\ BidOf(r).bidder = call[r].caller
        /\ BidOf(r).amount = call[r].price /\ BidOf(r).createdAt = began[r]
    BY DEF BidOf, Lot
  <2>6. PlaceBid(BidOf(r))
    BY <1>1, <1>2, <2>3, <2>4, <2>5 DEF PlaceBid
  <2> QED
    BY <1>1, <2>1, <2>3, <2>6
       DEF AuctionNext, BidOf, Lot
<1>3. ASSUME NEW p \in Amounts, NEW t \in Times, call[r].op = "edit",
             lotWrite[r] = [row EXCEPT !.start = p, !.price = p, !.endsAt = t]
      PROVE  AuctionNext
  <2>1. row.bidCount = 0  BY <1>1, <1>3, VerdictOfOwner DEF Passed
  <2>2. lots' = [lots EXCEPT ![l].start = p, ![l].price = p, ![l].endsAt = t]
    BY <1>1, <1>3 DEF IInv, TypeOK, LotRow
  <2>3. EditLot(l, p, t)  BY <1>1, <1>3, <2>1, <2>2 DEF EditLot
  <2> QED  BY <1>1, <1>3, <2>3 DEF AuctionNext
<1>4. CASE call[r].op = "delete" /\ lotWrite[r] = NoLot
  <2>1. row.bidCount = 0  BY <1>1, <1>4, VerdictOfOwner DEF Passed
  <2>2. RemoveLot(l)  BY <1>1, <1>4, <2>1 DEF RemoveLot
  <2> QED  BY <1>1, <2>2 DEF AuctionNext
<1> QED  BY <1>1, <1>2, <1>3, <1>4 DEF WrittenOK

\* Every other step leaves the committed tables alone.
LEMMA StepRefines == IInv /\ [Next]_vars => [AuctionNext]_(auctionVars)
<1> SUFFICES ASSUME IInv, [Next]_vars PROVE AuctionNext \/ UNCHANGED <<lots, bids>>
  BY DEF auctionVars
<1> USE DEF tables
<1>1. ASSUME NEW r \in Requests, Arrive(r) PROVE UNCHANGED <<lots, bids>>
  BY <1>1 DEF Arrive
<1>2. ASSUME NEW r \in Requests, Handler(r) PROVE AuctionNext \/ UNCHANGED <<lots, bids>>
  BY <1>2, InsertIsCreate
     DEF Handler, UserExists, Begin, LockForBid, LockForOwner, ApplyBid, UpdateLot,
         DeleteLot, TopBidder, InsertBid, Commit, CommitAnswered, Outbid, Rollback,
         SessionLost
<1>3. ASSUME NEW r \in Requests, Database(r) PROVE AuctionNext \/ UNCHANGED <<lots, bids>>
  BY <1>3, CommitIsStep DEF Database, Abandon
<1>4. ASSUME NEW r \in Requests, Breaks(r) PROVE UNCHANGED <<lots, bids>>
  BY <1>4 DEF Breaks, Fails, CommitAnswerLost, RollbackLost, Kill
<1>5. CASE Crash \/ Tick \/ UNCHANGED vars  BY <1>5 DEF Crash, Tick, vars
<1> QED  BY <1>1, <1>2, <1>3, <1>4, <1>5 DEF Next, Quiet

\* Whatever requests interleave, fail or crash, the committed tables change
\* only as the abstract auction allows.
THEOREM Refinement == Spec => ImplementsAuction
<1>1. Init => AuctionInit  BY DEF Init, AuctionInit
<1> QED  BY <1>1, StepRefines, Inductive, PTL DEF Spec, AuctionSpec, ImplementsAuction

\* So the counter always counts the bids, the price is always the top bid,
\* no bid is orphaned, equal bids have one winner and every bid fits the
\* lot's terms.
THEOREM BiddingConsistent == Spec => []Consistent
BY Refinement, AuctionConsistent, PTL DEF ImplementsAuction

\* Of several equal bids on a lot, racing or not, one wins.
THEOREM OneBidWins == Spec => []OneWinnerPerAmount
BY BiddingConsistent, PTL DEF Consistent

\* The denormalized price of a lot is the top row of the bids table.
THEOREM PriceFollowsBids == Spec => []PriceIsTop
BY BiddingConsistent, PTL DEF Consistent

\* The denormalized counter of a lot is the number of rows in the bids table.
THEOREM CounterFollowsBids == Spec => []CountMatches
BY BiddingConsistent, PTL DEF Consistent

\* Every bid stands under the terms its lot has now, whatever edits it raced.
THEOREM TermsStand == Spec => []BidsFitTheTerms
BY BiddingConsistent, PTL DEF Consistent

\* No delete of a lot leaves bids behind, though no foreign key forbids it.
THEOREM NoBidIsOrphaned == Spec => []NoOrphanBids
BY BiddingConsistent, PTL DEF Consistent

\* So a lot with bids is frozen, and the bids on it only grow, upwards.
THEOREM BiddingFreezes == Spec => FrozenOnceBid
BY Refinement, AuctionFreezes, PTL DEF ImplementsAuction

-----------------------------------------------------------------------------
(* What the service tells its clients and the displaced bidders.           *)

\* Somebody's bid was displaced by one of that amount: it is below, and no
\* bid of the lot lies between.
Displaced(rows, l, who, amount) ==
  \E d \in BidsOn(rows, l) :
    /\ d.bidder = who
    /\ d.amount < amount
    /\ \A o \in BidsOn(rows, l) : o.amount <= d.amount \/ o.amount >= amount

\* An outcome is decided only on the way out; success only after the commit,
\* and a refusal only by a transaction that cannot commit any more.
AnswerOK(r) ==
  /\ outcome[r] # "none" => pc[r] \in {"rollback", "notify", "done", "dead"}
  /\ outcome[r] = "ok" /\ call[r].op # "create" => txn[r] = "committed"
  /\ outcome[r] \in Refusals => txn[r] \notin {"committing", "committed"}

\* The row of a committed bid is in the table, and stays there.
RecordedOK(r) ==
  txn[r] = "committed" /\ call[r].op = "place" =>
    \E b \in bids :
      /\ b.id = r /\ b.lot = Lot(r)
      /\ b.bidder = call[r].caller /\ b.amount = call[r].price

\* Whoever the handler holds as displaced was on top of the lot when the
\* request had its lock: until the commit nobody else can bid, and after it
\* every other bid is higher.
OutbidOK(r) ==
  /\ outbid[r] # Nil =>
       /\ call[r].op = "place"
       /\ txn[r] # "none"
       /\ Live(r) => lotWrite[r] # Unwritten
       /\ Live(r) \/ txn[r] = "committed" =>
            Displaced(bids, Lot(r), outbid[r], call[r].price)
  /\ pc[r] = "notify" => outbid[r] # call[r].caller

\* A lot is inserted only for a caller the users table was asked about.
CallerOK(r) == pc[r] = "create" => call[r].caller \in Registered

TruthOK(r) == AnswerOK(r) /\ RecordedOK(r) /\ OutbidOK(r) /\ CallerOK(r)

TruthInv ==
  /\ \A r \in Requests : TruthOK(r)
  /\ NotesAreTrue
  /\ OwnersAreRegistered

\* What was displaced stays displaced when only higher bids are added.
LEMMA DisplacedStays ==
  ASSUME NEW rows, NEW more, NEW l, NEW who, NEW amount,
         Displaced(rows, l, who, amount),
         \A b \in more : b.lot = l => b.amount >= amount
  PROVE  Displaced(rows \cup more, l, who, amount)
<1>1. PICK d \in BidsOn(rows, l) :
        /\ d.bidder = who /\ d.amount < amount
        /\ \A o \in BidsOn(rows, l) : o.amount <= d.amount \/ o.amount >= amount
  BY DEF Displaced
<1>2. d \in BidsOn(rows \cup more, l)  BY DEF BidsOn
<1>3. \A o \in BidsOn(rows \cup more, l) : o.amount <= d.amount \/ o.amount >= amount
  BY <1>1 DEF BidsOn
<1> QED  BY <1>1, <1>2, <1>3 DEF Displaced

\* The highest bids of a lot are below what its next bidder offers, and are
\* what that offer displaces.
LEMMA TopIsDisplaced ==
  ASSUME IInv, Consistent, NEW r \in Requests, Live(r), lotWrite[r] # Unwritten,
         call[r].op = "place", NEW u \in TopBidders(bids, Lot(r))
  PROVE  Displaced(bids, Lot(r), u, call[r].price)
<1>1. PICK d \in BidsOn(bids, Lot(r)) :
        d.bidder = u /\ \A o \in BidsOn(bids, Lot(r)) : o.amount <= d.amount
  BY DEF TopBidders
<1>2. Passed(r) /\ Lot(r) \in LotIds  BY CallTyped DEF IInv, TypeOK, PassedOK, Lot
<1>3. /\ call[r] \in Calls /\ lots[Lot(r)] \in LotRow \cup {NoLot} /\ began[r] \in Times
  BY <1>2 DEF IInv, TypeOK
<1>4. /\ lots[Lot(r)] # NoLot /\ lots[Lot(r)] \in LotRow /\ call[r].price \in Amounts
      /\ call[r].price > lots[Lot(r)].price
  BY <1>2, <1>3, VerdictOfBid DEF Passed
<1>5. d.amount <= lots[Lot(r)].price
  BY <1>2, <1>4 DEF Consistent, PriceIsTop, Stored
<1>6. d.amount \in Int /\ lots[Lot(r)].price \in Int /\ call[r].price \in Int
  BY <1>4, PricesAreInts DEF IInv, TypeOK, BidsOn, BidRow, LotRow, Amounts
<1>7. d.amount < call[r].price  BY <1>4, <1>5, <1>6
<1>8. \A o \in BidsOn(bids, Lot(r)) : o.amount <= d.amount \/ o.amount >= call[r].price
  BY <1>1
<1> QED  BY <1>1, <1>7, <1>8 DEF Displaced

\* What a commit adds to the bids table is higher than all bids of its lot,
\* and is nothing unless the request is a bid.
LEMMA CommittedBidIsHigher ==
  ASSUME IInv, Consistent, NEW r \in Requests, ServerCommit(r), NEW b \in bidWrite[r]
  PROVE  /\ call[r].op = "place" /\ b = BidOf(r)
         /\ b.lot = Lot(r) /\ b.amount = call[r].price
         /\ call[r].price \in Int
         /\ lots[Lot(r)] \in LotRow
         /\ call[r].price > lots[Lot(r)].price
         /\ \A o \in BidsOn(bids, Lot(r)) : o.amount \in Int /\ b.amount > o.amount
<1>0. /\ Lot(r) \in LotIds /\ Passed(r) /\ lots[Lot(r)] \in LotRow
      /\ bidWrite[r] = IF call[r].op = "place" THEN {BidOf(r)} ELSE {}
  BY CommittedRow
<1>1. /\ Lot(r) \in LotIds /\ Passed(r) /\ lots[Lot(r)] \in LotRow
      /\ call[r].op = "place" /\ b = BidOf(r)
  BY <1>0
<1>2. b.lot = Lot(r) /\ b.amount = call[r].price  BY <1>1 DEF BidOf, Lot
<1>3. call[r] \in Calls /\ began[r] \in Times  BY DEF IInv, TypeOK
<1>4. /\ lots[Lot(r)] # NoLot /\ call[r].price \in Amounts
      /\ call[r].price > lots[Lot(r)].price
  BY <1>1, <1>3, VerdictOfBid DEF Passed
<1>5. lots[Lot(r)].price \in Int /\ call[r].price \in Int
  BY <1>1, <1>4, PricesAreInts DEF LotRow, Amounts
<1>6. ASSUME NEW o \in BidsOn(bids, Lot(r)) PROVE o.amount \in Int /\ b.amount > o.amount
  <2>1. o.amount \in Int  BY PricesAreInts DEF IInv, TypeOK, BidsOn, BidRow, Amounts
  <2>2. o.amount <= lots[Lot(r)].price
    BY <1>1, <1>4 DEF Consistent, PriceIsTop, Stored
  <2> QED  BY <1>2, <1>4, <1>5, <2>1, <2>2
<1> QED  BY <1>1, <1>2, <1>4, <1>5, <1>6

-----------------------------------------------------------------------------
(* Steps that leave the bids and the notifications alone.                  *)

LEMMA TruthFrame ==
  ASSUME IInv, TruthInv, NEW r \in Requests,
         UNCHANGED <<bids, call, notes>>,
         \A q \in Requests : q # r =>
           /\ txn'[q] = txn[q] /\ pc'[q] = pc[q] /\ outcome'[q] = outcome[q]
           /\ outbid'[q] = outbid[q] /\ lotWrite'[q] = lotWrite[q],
         lots' = lots \/ OwnersAreRegistered',
         TruthOK(r)'
  PROVE  TruthInv'
<1>1. ASSUME NEW q \in Requests, q # r PROVE TruthOK(q)'
  <2>1. TruthOK(q)  BY DEF TruthInv
  <2>2. AnswerOK(q)'  BY <1>1, <2>1 DEF TruthOK, AnswerOK
  <2>3. RecordedOK(q)'  BY <1>1, <2>1 DEF TruthOK, RecordedOK, Lot
  <2>4. OutbidOK(q)'  BY <1>1, <2>1 DEF TruthOK, OutbidOK, Live, Lot
  <2>5. CallerOK(q)'  BY <1>1, <2>1 DEF TruthOK, CallerOK
  <2> QED  BY <2>2, <2>3, <2>4, <2>5 DEF TruthOK
<1>2. NotesAreTrue'  BY DEF TruthInv, NotesAreTrue
<1>3. OwnersAreRegistered'
  BY DEF TruthInv, OwnersAreRegistered, Stored
<1> QED  BY <1>1, <1>2, <1>3 DEF TruthInv

\* A handler that keeps its session and the tables: what it has decided and
\* whom it displaced must be right.
LEMMA HandlerTruth ==
  ASSUME IInv, TruthInv, NEW r \in Requests,
         UNCHANGED <<lots, bids, call, notes, txn, lotWrite>>,
         \A q \in Requests : q # r =>
           pc'[q] = pc[q] /\ outcome'[q] = outcome[q] /\ outbid'[q] = outbid[q],
         AnswerOK(r)',
         outbid'[r] \in {outbid[r], Nil},
         pc'[r] = "notify" => outbid'[r] # call[r].caller,
         CallerOK(r)'
  PROVE  TruthInv'
<1>1. TruthOK(r)  BY DEF TruthInv
<1>2. RecordedOK(r)'  BY <1>1 DEF TruthOK, RecordedOK, Lot
<1>3. OutbidOK(r)'  BY <1>1 DEF TruthOK, OutbidOK, Live, Lot
<1> QED  BY <1>2, <1>3, TruthFrame DEF TruthOK

LEMMA ArriveTells ==
  ASSUME IInv, TruthInv, NEW r \in Requests, Arrive(r)
  PROVE  TruthInv'
<1> USE DEF Arrive, Goto, Leave, Decide, Answer, tables, session, locals, world
<1>1. TruthOK(r) /\ txn[r] = "none"  BY DEF TruthInv, IInv, StageOK
<1>2. \/ pc'[r] \in {"exists", "begin"} /\ outcome'[r] = outcome[r]
      \/ pc'[r] = "done" /\ outcome'[r] = "invalid"
  BY DEF IInv, TypeOK
<1>3. AnswerOK(r)'  BY <1>1, <1>2 DEF TruthOK, AnswerOK
<1>4. CallerOK(r)'  BY <1>2 DEF CallerOK
<1> QED  BY <1>2, <1>3, <1>4, HandlerTruth DEF IInv, TypeOK

LEMMA UserExistsTells ==
  ASSUME IInv, TruthInv, NEW r \in Requests, UserExists(r)
  PROVE  TruthInv'
<1> USE DEF UserExists, Goto, Leave, Decide, Answer, tables, session, locals, world
<1>1. TruthOK(r) /\ txn[r] = "none"  BY DEF TruthInv, IInv, StageOK
<1>2. \/ pc'[r] = "create" /\ outcome'[r] = outcome[r] /\ call[r].caller \in Registered
      \/ pc'[r] = "done" /\ outcome'[r] = "unknown-user"
  BY DEF IInv, TypeOK
<1>3. AnswerOK(r)'  BY <1>1, <1>2 DEF TruthOK, AnswerOK
<1>4. CallerOK(r)'  BY <1>2 DEF CallerOK
<1> QED  BY <1>2, <1>3, <1>4, HandlerTruth DEF IInv, TypeOK

LEMMA CommitAnsweredTells ==
  ASSUME IInv, TruthInv, NEW r \in Requests, CommitAnswered(r)
  PROVE  TruthInv'
<1> USE DEF CommitAnswered, Committed, Goto, Leave, Decide, Answer,
            tables, session, locals, world
<1>1. \/ /\ txn[r] = "committed" /\ outcome'[r] = "ok"
         /\ \/ pc'[r] = "done"
            \/ pc'[r] = "notify" /\ outbid[r] # call[r].caller
      \/ outcome'[r] = "internal" /\ pc'[r] = "done"
  BY DEF IInv, TypeOK
<1>2. AnswerOK(r)'  BY <1>1 DEF AnswerOK, Refusals
<1>3. CallerOK(r)'  BY <1>1 DEF CallerOK
<1>4. outbid'[r] \in {outbid[r], Nil} /\ (pc'[r] = "notify" => outbid'[r] = outbid[r])
  BY DEF IInv, TypeOK
<1> QED  BY <1>1, <1>2, <1>3, <1>4, HandlerTruth DEF IInv, TypeOK

LEMMA CommitAnswerLostTells ==
  ASSUME IInv, TruthInv, NEW r \in Requests, CommitAnswerLost(r)
  PROVE  TruthInv'
<1> USE DEF CommitAnswerLost, Goto, Leave, Decide, Answer, tables, session, locals
<1>1. outcome'[r] = "internal" /\ pc'[r] = "done"  BY DEF IInv, TypeOK
<1>2. AnswerOK(r)'  BY <1>1 DEF AnswerOK, Refusals
<1>3. CallerOK(r)'  BY <1>1 DEF CallerOK
<1> QED  BY <1>1, <1>2, <1>3, HandlerTruth DEF IInv, TypeOK

LEMMA SessionLostTells ==
  ASSUME IInv, TruthInv, NEW r \in Requests, SessionLost(r)
  PROVE  TruthInv'
<1> USE DEF SessionLost, Refuse, Goto, Leave, Decide, Answer,
            tables, session, locals, world
<1>1. outcome'[r] = "internal" /\ pc'[r] \in {"rollback", "done"}  BY DEF IInv, TypeOK
<1>2. AnswerOK(r)'  BY <1>1 DEF AnswerOK, Refusals
<1>3. CallerOK(r)'  BY <1>1 DEF CallerOK
<1> QED  BY <1>1, <1>2, <1>3, HandlerTruth DEF IInv, TypeOK

LEMMA FailsTells ==
  ASSUME IInv, TruthInv, NEW r \in Requests, Fails(r)
  PROVE  TruthInv'
<1> USE DEF Fails, Refuse, Goto, Leave, Decide, Answer, tables, session, locals
<1>1. outcome'[r] = "internal" /\ pc'[r] \in {"rollback", "done"}  BY DEF IInv, TypeOK
<1>2. AnswerOK(r)'  BY <1>1 DEF AnswerOK, Refusals
<1>3. CallerOK(r)'  BY <1>1 DEF CallerOK
<1> QED  BY <1>1, <1>2, <1>3, HandlerTruth DEF IInv, TypeOK

LEMMA RollbackLostTells ==
  ASSUME IInv, TruthInv, NEW r \in Requests, RollbackLost(r)
  PROVE  TruthInv'
<1> USE DEF RollbackLost, Leave, Goto, tables, session
<1>1. TruthOK(r)  BY DEF TruthInv
<1>2. outcome'[r] = outcome[r] /\ pc'[r] = "done"  BY DEF IInv, TypeOK
<1>3. AnswerOK(r)'  BY <1>1, <1>2 DEF TruthOK, AnswerOK
<1>4. CallerOK(r)'  BY <1>2 DEF CallerOK
<1> QED  BY <1>2, <1>3, <1>4, HandlerTruth DEF IInv, TypeOK

-----------------------------------------------------------------------------
(* Sessions that begin, commit or end.                                     *)

\* A session that ends without a commit takes its displaced bidder with it.
LEMMA EndTells ==
  ASSUME IInv, TruthInv, NEW r \in Requests, EndSession(r, "aborted"),
         txn[r] # "committed",
         \A q \in Requests : q # r => pc'[q] = pc[q] /\ outbid'[q] = outbid[q],
         pc'[r] \in {pc[r], "done"},
         outbid'[r] \in {outbid[r], Nil},
         UNCHANGED <<lots, bids, call, outcome, notes>>
  PROVE  TruthInv'
<1>1. TruthOK(r)  BY DEF TruthInv
<1>2. /\ txn'[r] = "aborted"
      /\ \A q \in Requests : q # r => txn'[q] = txn[q] /\ lotWrite'[q] = lotWrite[q]
  BY DEF EndSession, IInv, TypeOK
<1>3. AnswerOK(r)'  BY <1>1, <1>2 DEF TruthOK, AnswerOK
<1>4. RecordedOK(r)'  BY <1>2 DEF RecordedOK
<1>5. OutbidOK(r)'
  BY <1>1, <1>2 DEF TruthOK, OutbidOK, Live, IInv, StageOK
<1>6. CallerOK(r)'  BY <1>1 DEF TruthOK, CallerOK
<1> QED  BY <1>2, <1>3, <1>4, <1>5, <1>6, TruthFrame DEF TruthOK

LEMMA RollbackTells ==
  ASSUME IInv, TruthInv, NEW r \in Requests, Rollback(r)
  PROVE  TruthInv'
<1> USE DEF Rollback, Leave, Goto, tables, world
<1>1. txn[r] # "committed"  BY DEF IInv, StageOK
<1> QED  BY <1>1, EndTells DEF IInv, TypeOK

LEMMA AbandonTells ==
  ASSUME IInv, TruthInv, NEW r \in Requests, Abandon(r)
  PROVE  TruthInv'
BY EndTells DEF Abandon, tables, locals, world

LEMMA KillTells ==
  ASSUME IInv, TruthInv, NEW r \in Requests, Kill(r)
  PROVE  TruthInv'
BY EndTells DEF Kill, tables, locals

LEMMA BeginTells ==
  ASSUME IInv, TruthInv, NEW r \in Requests, Begin(r)
  PROVE  TruthInv'
<1> USE DEF Begin, Goto, tables, locals, world
<1>1. TruthOK(r) /\ txn[r] = "none"  BY DEF TruthInv, IInv, StageOK
<1>2. pc'[r] = "lock" /\ txn'[r] = "open" /\ outcome'[r] = "none" /\ outbid'[r] = Nil
  BY <1>1 DEF IInv, TypeOK, TruthOK, AnswerOK, OutbidOK
<1>3. TruthOK(r)'
  BY <1>2 DEF TruthOK, AnswerOK, Refusals, RecordedOK, OutbidOK, CallerOK
<1> QED  BY <1>3, TruthFrame DEF IInv, TypeOK

\* COMMIT is sent only with nothing decided yet.
LEMMA CommitTells ==
  ASSUME IInv, TruthInv, NEW r \in Requests, Commit(r)
  PROVE  TruthInv'
<1> USE DEF Commit, Statement, Goto, tables, locals, world
<1>1. TruthOK(r)  BY DEF TruthInv
<1>2. /\ pc'[r] = "wait" /\ txn'[r] = "committing" /\ txn[r] = "open"
      /\ outcome'[r] = "none"
  BY <1>1 DEF IInv, TypeOK, TruthOK, AnswerOK
<1>3. AnswerOK(r)' /\ RecordedOK(r)' /\ CallerOK(r)'
  BY <1>2 DEF AnswerOK, Refusals, RecordedOK, CallerOK
<1>4. OutbidOK(r)'  BY <1>1, <1>2 DEF TruthOK, OutbidOK, Live, Lot
<1> QED  BY <1>3, <1>4, TruthFrame DEF TruthOK, IInv, TypeOK

-----------------------------------------------------------------------------
(* The statements of a transaction.                                        *)

\* A statement that writes nothing but the lot's uncommitted row, and moves
\* on with nothing decided or refuses.
LEMMA StatementTells ==
  ASSUME IInv, TruthInv, NEW r \in Requests, pc[r] \in InStatement, txn[r] = "open",
         UNCHANGED <<lots, bids, call, notes, txn, outbid>>,
         \A q \in Requests : q # r =>
           /\ pc'[q] = pc[q] /\ outcome'[q] = outcome[q] /\ lotWrite'[q] = lotWrite[q],
         lotWrite'[r] = lotWrite[r] \/ lotWrite'[r] # Unwritten,
         \/ pc'[r] \in InTx \ {"rollback"} /\ outcome'[r] = outcome[r]
         \/ pc'[r] = "rollback" /\ outcome'[r] \in Refusals \cup {"internal"}
  PROVE  TruthInv'
<1>1. TruthOK(r)  BY DEF TruthInv
<1>2. outcome[r] = "none"  BY <1>1 DEF TruthOK, AnswerOK, InStatement
<1>3. AnswerOK(r)'  BY <1>2 DEF AnswerOK, Refusals
<1>4. RecordedOK(r)' /\ CallerOK(r)'  BY DEF RecordedOK, CallerOK, InTx, InStatement
<1>5. OutbidOK(r)'
  BY <1>1 DEF TruthOK, OutbidOK, Live, Lot, InTx, InStatement
<1> QED  BY <1>3, <1>4, <1>5, TruthFrame DEF TruthOK

LEMMA LockForBidTells ==
  ASSUME IInv, TruthInv, NEW r \in Requests, LockForBid(r)
  PROVE  TruthInv'
<1> DEFINE verdict == BidVerdict(call[r], lots[call[r].lot], began[r])
<1>1. verdict \in {"ok"} \cup Refusals  BY DEF BidVerdict, Refusals
<1>2. Proceed(r, verdict) /\ pc[r] \in InStatement
  BY DEF LockForBid, GetLotForUpdate, Statement, InStatement
<1> HIDE DEF verdict
<1>3. \/ pc'[r] \in InTx \ {"rollback"} /\ outcome'[r] = outcome[r]
      \/ pc'[r] = "rollback" /\ outcome'[r] \in Refusals \cup {"internal"}
  BY <1>1, <1>2 DEF Proceed, Goto, Refuse, Decide, IInv, TypeOK, InTx, InStatement
<1>4. \A q \in Requests : q # r => pc'[q] = pc[q] /\ outcome'[q] = outcome[q]
  BY <1>2 DEF Proceed, Goto, Refuse, Decide, IInv, TypeOK
<1> QED
  BY <1>2, <1>3, <1>4, StatementTells
     DEF LockForBid, GetLotForUpdate, Statement, tables, world

LEMMA LockForOwnerTells ==
  ASSUME IInv, TruthInv, NEW r \in Requests, LockForOwner(r)
  PROVE  TruthInv'
<1> DEFINE verdict == OwnerVerdict(call[r], lots[call[r].lot])
<1>1. verdict \in {"ok"} \cup Refusals  BY DEF OwnerVerdict, Refusals
<1>2. Proceed(r, verdict) /\ pc[r] \in InStatement
  BY DEF LockForOwner, GetLotForUpdate, Statement, InStatement
<1> HIDE DEF verdict
<1>3. \/ pc'[r] \in InTx \ {"rollback"} /\ outcome'[r] = outcome[r]
      \/ pc'[r] = "rollback" /\ outcome'[r] \in Refusals \cup {"internal"}
  BY <1>1, <1>2 DEF Proceed, Goto, Refuse, Decide, IInv, TypeOK, InTx, InStatement
<1>4. \A q \in Requests : q # r => pc'[q] = pc[q] /\ outcome'[q] = outcome[q]
  BY <1>2 DEF Proceed, Goto, Refuse, Decide, IInv, TypeOK
<1> QED
  BY <1>2, <1>3, <1>4, StatementTells
     DEF LockForOwner, GetLotForUpdate, Statement, tables, world

LEMMA ApplyBidTells ==
  ASSUME IInv, TruthInv, NEW r \in Requests, ApplyBid(r)
  PROVE  TruthInv'
<1>1. /\ call[r] \in Calls /\ began[r] \in Times /\ lots[Lot(r)] \in LotRow
      /\ BidVerdict(call[r], lots[Lot(r)], began[r]) = "ok"
  BY AboutToWrite DEF ApplyBid, IInv, TypeOK, Passed
<1>2. call[r].price \in Amounts  BY <1>1, VerdictOfBid DEF ApplyBid
<1>3. Raised(lots[Lot(r)], call[r].price) # Unwritten  BY <1>1, <1>2, RaisedIsRow, NullRow
<1>4. lotWrite'[r] # Unwritten  BY <1>3 DEF ApplyBid, Lot, IInv, TypeOK
<1>5. /\ pc[r] \in InStatement /\ txn[r] = "open"
      /\ pc'[r] = "top" /\ "top" \in InTx \ {"rollback"}
  BY DEF ApplyBid, Statement, Goto, IInv, TypeOK, InTx, InStatement
<1>6. \A q \in Requests : q # r => pc'[q] = pc[q] /\ lotWrite'[q] = lotWrite[q]
  BY DEF ApplyBid, Goto, IInv, TypeOK
<1> QED
  BY <1>4, <1>5, <1>6, StatementTells DEF ApplyBid, tables, locals, world

LEMMA UpdateLotTells ==
  ASSUME IInv, TruthInv, NEW r \in Requests, UpdateLot(r)
  PROVE  TruthInv'
<1> USE DEF Statement, Goto, Refuse, Decide, tables, locals, world
<1>1. pc[r] \in InStatement /\ txn[r] = "open"  BY DEF UpdateLot, InStatement
<1>2. CASE BadPrice(call[r].price) \/ BadEndsAt(call[r].endsAt)
  <2>1. pc'[r] = "rollback" /\ outcome'[r] = "invalid"
    BY <1>2 DEF UpdateLot, IInv, TypeOK
  <2>2. "invalid" \in Refusals  BY DEF Refusals
  <2> QED  BY <1>1, <1>2, <2>1, <2>2, StatementTells DEF UpdateLot, IInv, TypeOK
<1>3. CASE ~BadPrice(call[r].price) /\ ~BadEndsAt(call[r].endsAt)
  <2>1. PICK p \in Amounts, t \in Times :
          Overwritten(lots[Lot(r)], Patched(seen[r], call[r]))
          = [lots[Lot(r)] EXCEPT !.start = p, !.price = p, !.endsAt = t]
    BY <1>3, PatchedRow DEF UpdateLot
  <2>2. lots[Lot(r)] \in LotRow  BY AboutToWrite DEF UpdateLot
  <2>3. Overwritten(lots[Lot(r)], Patched(seen[r], call[r])) \in LotRow
    <3>1. [lots[Lot(r)] EXCEPT !.start = p, !.price = p, !.endsAt = t] \in LotRow
      BY <2>2, EditedIsRow
    <3> QED  BY <2>1, <3>1
  <2>4. /\ lotWrite' = [lotWrite EXCEPT ![r] =
                          Overwritten(lots[Lot(r)], Patched(seen[r], call[r]))]
        /\ pc' = [pc EXCEPT ![r] = "commit"] /\ outcome' = outcome
        /\ UNCHANGED <<lots, bids, call, notes, txn, outbid>>
    BY <1>3 DEF UpdateLot, Lot
  <2>5. lotWrite'[r] # Unwritten  BY <2>3, <2>4, NullRow DEF IInv, TypeOK
  <2>6. pc'[r] = "commit" /\ "commit" \in InTx \ {"rollback"}
    BY <2>4 DEF IInv, TypeOK, InTx, InStatement
  <2>7. \A q \in Requests : q # r => pc'[q] = pc[q] /\ lotWrite'[q] = lotWrite[q]
    BY <2>4 DEF IInv, TypeOK
  <2> QED  BY <1>1, <2>4, <2>5, <2>6, <2>7, StatementTells
<1> QED  BY <1>2, <1>3

LEMMA DeleteLotTells ==
  ASSUME IInv, TruthInv, NEW r \in Requests, DeleteLot(r)
  PROVE  TruthInv'
<1>1. lotWrite'[r] # Unwritten  BY NullRow DEF DeleteLot, IInv, TypeOK
<1>2. /\ pc[r] \in InStatement /\ txn[r] = "open"
      /\ pc'[r] = "commit" /\ "commit" \in InTx \ {"rollback"}
  BY DEF DeleteLot, Statement, Goto, IInv, TypeOK, InTx, InStatement
<1>3. \A q \in Requests : q # r => pc'[q] = pc[q] /\ lotWrite'[q] = lotWrite[q]
  BY DEF DeleteLot, Goto, IInv, TypeOK
<1> QED
  BY <1>1, <1>2, <1>3, StatementTells DEF DeleteLot, tables, locals, world

LEMMA InsertBidTells ==
  ASSUME IInv, TruthInv, NEW r \in Requests, InsertBid(r)
  PROVE  TruthInv'
<1>1. /\ pc[r] \in InStatement /\ txn[r] = "open"
      /\ pc'[r] = "commit" /\ "commit" \in InTx \ {"rollback"}
  BY DEF InsertBid, Statement, Goto, IInv, TypeOK, InTx, InStatement
<1>2. \A q \in Requests : q # r => pc'[q] = pc[q]
  BY DEF InsertBid, Goto, IInv, TypeOK
<1> QED
  BY <1>1, <1>2, StatementTells DEF InsertBid, tables, locals, world

\* topBidder reads under the lot's lock.
LEMMA TopBidderTells ==
  ASSUME IInv, Consistent, TruthInv, NEW r \in Requests, TopBidder(r)
  PROVE  TruthInv'
<1> USE DEF TopBidder, Statement, Goto, tables, session, world
<1>1. TruthOK(r)  BY DEF TruthInv
<1>2. /\ txn[r] = "open" /\ txn'[r] = "open" /\ Live(r) /\ Live(r)'
      /\ call[r].op = "place" /\ lotWrite[r] # Unwritten
      /\ pc'[r] = "insert" /\ outcome'[r] = "none"
  BY <1>1 DEF IInv, TypeOK, StageOK, WholeOK, Live, TruthOK, AnswerOK
<1>3. outbid'[r] = Nil \/ outbid'[r] \in TopBidders(bids, Lot(r))
  BY DEF IInv, TypeOK, Lot
<1>4. outbid'[r] # Nil => Displaced(bids, Lot(r), outbid'[r], call[r].price)
  BY <1>2, <1>3, TopIsDisplaced
<1>5. OutbidOK(r)'  BY <1>2, <1>4 DEF OutbidOK, Lot
<1>6. AnswerOK(r)' /\ RecordedOK(r)' /\ CallerOK(r)'
  BY <1>2 DEF AnswerOK, Refusals, RecordedOK, CallerOK
<1> QED  BY <1>5, <1>6, TruthFrame DEF TruthOK, IInv, TypeOK

-----------------------------------------------------------------------------
(* The two steps that change the committed tables, and the notification.   *)

LEMMA InsertLotTells ==
  ASSUME IInv, TruthInv, NEW r \in Requests, InsertLot(r)
  PROVE  TruthInv'
<1>1. PICK l \in LotIds \ minted :
        /\ call[r].caller \in Users /\ call[r].price \in Amounts
        /\ call[r].endsAt \in Times
        /\ lots' = [lots EXCEPT ![l] =
                      NewLot(call[r].caller, call[r].price, call[r].endsAt)]
  BY InsertedLot
<1>2. call[r].caller \in Registered /\ call[r].op = "create" /\ txn[r] = "none"
  BY DEF InsertLot, TruthInv, TruthOK, CallerOK, IInv, StageOK
<1>3. OwnersAreRegistered'
  <2> SUFFICES ASSUME NEW k \in LotIds, lots'[k] # NoLot
               PROVE  lots'[k].owner \in Registered
    BY DEF OwnersAreRegistered, Stored
  <2>1. CASE k = l
    <3>1. lots'[k] = NewLot(call[r].caller, call[r].price, call[r].endsAt)
      BY <1>1, <2>1 DEF IInv, TypeOK
    <3> QED  BY <1>2, <3>1 DEF NewLot
  <2>2. CASE k # l
    BY <1>1, <2>2 DEF IInv, TypeOK, TruthInv, OwnersAreRegistered, Stored
  <2> QED  BY <2>1, <2>2
<1>4. /\ pc' = [pc EXCEPT ![r] = "done"]
      /\ outbid' = [outbid EXCEPT ![r] = Nil]
      /\ \E what \in {"ok", "internal"} : outcome' = [outcome EXCEPT ![r] = what]
      /\ UNCHANGED <<bids, session, call, notes>>
  BY DEF InsertLot, Answer, Leave, Goto, Decide
<1>5. pc'[r] = "done" /\ outbid'[r] = Nil /\ outcome'[r] \in {"ok", "internal"}
  BY <1>4 DEF IInv, TypeOK
<1>6. TruthOK(r)'
  BY <1>2, <1>4, <1>5
     DEF TruthOK, AnswerOK, Refusals, RecordedOK, OutbidOK, CallerOK, session
<1> QED  BY <1>3, <1>4, <1>6, TruthFrame DEF session, IInv, TypeOK

\* A commit keeps the owner of its lot, or removes the lot.
LEMMA CommitKeepsOwner ==
  ASSUME IInv, NEW r \in Requests, ServerCommit(r)
  PROVE  lotWrite[r] = NoLot \/ lotWrite[r].owner = lots[Lot(r)].owner
<1>1. lots[Lot(r)] \in LotRow /\ WrittenOK(r) /\ Live(r) /\ lotWrite[r] # Unwritten
  BY CommittedRow
<1>2. CASE lotWrite[r] = Raised(lots[Lot(r)], call[r].price)
  BY <1>1, <1>2 DEF Raised, LotRow
<1>3. ASSUME NEW p \in Amounts, NEW t \in Times,
             lotWrite[r] = [lots[Lot(r)] EXCEPT !.start = p, !.price = p, !.endsAt = t]
      PROVE  lotWrite[r].owner = lots[Lot(r)].owner
  BY <1>1, <1>3 DEF LotRow
<1> QED  BY <1>1, <1>2, <1>3 DEF WrittenOK

\* The commit of one request leaves true what the others hold: a live one
\* has another lot's lock, a committed one already stands below the new bid.
LEMMA OthersStayTrue ==
  ASSUME IInv, Consistent, TruthInv, NEW r \in Requests, ServerCommit(r),
         NEW q \in Requests, q # r
  PROVE  TruthOK(q)'
<1>1. /\ TruthOK(q)
      /\ txn'[q] = txn[q] /\ lotWrite'[q] = lotWrite[q]
      /\ UNCHANGED <<call, pc, outbid, outcome>>
      /\ bids' = bids \cup bidWrite[r]
  BY DEF TruthInv, ServerCommit, EndSession, IInv, TypeOK, locals
<1>2. AnswerOK(q)' /\ RecordedOK(q)' /\ CallerOK(q)'
  BY <1>1 DEF TruthOK, AnswerOK, RecordedOK, CallerOK, Lot
<1>3. ASSUME outbid[q] # Nil, Live(q) \/ txn[q] = "committed"
      PROVE  Displaced(bids', Lot(q), outbid[q], call[q].price)
  <2>1. Displaced(bids, Lot(q), outbid[q], call[q].price) /\ call[q].op = "place"
    BY <1>1, <1>3 DEF TruthOK, OutbidOK
  <2>2. ASSUME NEW b \in bidWrite[r], b.lot = Lot(q)
        PROVE  b.amount >= call[q].price
    <3>1. /\ b.lot = Lot(r) /\ b.amount \in Int
          /\ \A o \in BidsOn(bids, Lot(r)) : o.amount \in Int /\ b.amount > o.amount
      BY CommittedBidIsHigher
    <3>2. CASE Live(q)
      <4>1. Holds(q)  BY <1>1, <1>3, <3>2, ReaderHolds DEF TruthOK, OutbidOK
      <4>2. lock[Lot(r)] = r  BY CommittedRow
      <4> QED  BY <2>2, <3>1, <4>1, <4>2 DEF Holds, Lot
    <3>3. CASE txn[q] = "committed"
      <4>1. PICK o \in bids : o.lot = Lot(q) /\ o.amount = call[q].price
        BY <1>1, <2>1, <3>3 DEF TruthOK, RecordedOK
      <4>2. o \in BidsOn(bids, Lot(r))  BY <2>2, <3>1, <4>1 DEF BidsOn
      <4>3. o.amount \in Int /\ b.amount > o.amount  BY <3>1, <4>2
      <4> QED  BY <3>1, <4>1, <4>3
    <3> QED  BY <1>3, <3>2, <3>3
  <2> QED  BY <1>1, <2>1, <2>2, DisplacedStays
<1>4. OutbidOK(q)'  BY <1>1, <1>3 DEF TruthOK, OutbidOK, Live, Lot
<1> QED  BY <1>2, <1>4 DEF TruthOK

LEMMA ServerCommitTells ==
  ASSUME IInv, Consistent, TruthInv, NEW r \in Requests, ServerCommit(r)
  PROVE  TruthInv'
<1>1. /\ TruthOK(r) /\ txn[r] = "committing" /\ txn'[r] = "committed"
      /\ UNCHANGED <<call, pc, outbid, outcome, notes>>
      /\ bids' = bids \cup bidWrite[r]
  BY DEF TruthInv, ServerCommit, EndSession, IInv, TypeOK, locals, world
<1>2. /\ Lot(r) \in LotIds /\ lots[Lot(r)] \in LotRow
      /\ lots' = [lots EXCEPT ![Lot(r)] = lotWrite[r]]
      /\ bidWrite[r] = IF call[r].op = "place" THEN {BidOf(r)} ELSE {}
  BY CommittedRow
<1>3. TruthOK(r)'
  <2>1. AnswerOK(r)' /\ CallerOK(r)'  BY <1>1 DEF TruthOK, AnswerOK, CallerOK
  <2>2. RecordedOK(r)'
    <3>1. /\ BidOf(r).id = r /\ BidOf(r).lot = Lot(r)
          /\ BidOf(r).bidder = call[r].caller /\ BidOf(r).amount = call[r].price
      BY DEF BidOf, Lot
    <3>2. call[r].op = "place" => BidOf(r) \in bids'  BY <1>1, <1>2
    <3> QED  BY <1>1, <3>1, <3>2 DEF RecordedOK, Lot
  <2>3. outbid[r] # Nil => Displaced(bids', Lot(r), outbid[r], call[r].price)
    <3>1. \A b \in bidWrite[r] : b.amount >= call[r].price
      BY CommittedBidIsHigher
    <3>2. outbid[r] # Nil => Displaced(bids, Lot(r), outbid[r], call[r].price)
      BY <1>1 DEF TruthOK, OutbidOK, Live
    <3> QED  BY <1>1, <3>1, <3>2, DisplacedStays
  <2>4. OutbidOK(r)'  BY <1>1, <2>3 DEF TruthOK, OutbidOK, Live, Lot
  <2> QED  BY <2>1, <2>2, <2>4 DEF TruthOK
<1>4. \A q \in Requests : TruthOK(q)'  BY <1>3, OthersStayTrue
<1>5. NotesAreTrue'
  <2> SUFFICES ASSUME NEW n \in notes
               PROVE  \E b \in bids' : /\ b.id = n.bid /\ b.bidder # n.to
                                       /\ Displaced(bids', b.lot, n.to, b.amount)
    BY <1>1 DEF NotesAreTrue, Displaced, BidsOn
  <2>1. PICK b \in bids : /\ b.id = n.bid /\ b.bidder # n.to
                          /\ Displaced(bids, b.lot, n.to, b.amount)
    BY DEF TruthInv, NotesAreTrue, Displaced
  <2>2. ASSUME NEW new \in bidWrite[r], new.lot = b.lot
        PROVE  new.amount >= b.amount
    <3>1. b \in BidsOn(bids, Lot(r))  BY <2>2, CommittedBidIsHigher DEF BidsOn
    <3>2. b.amount \in Int /\ new.amount > b.amount /\ new.amount \in Int
      BY <3>1, CommittedBidIsHigher
    <3> QED  BY <3>2
  <2>3. Displaced(bids', b.lot, n.to, b.amount)
    BY <1>1, <2>1, <2>2, DisplacedStays
  <2> QED  BY <1>1, <2>1, <2>3
<1>6. OwnersAreRegistered'
  <2> SUFFICES ASSUME NEW k \in LotIds, lots'[k] # NoLot
               PROVE  lots'[k].owner \in Registered
    BY DEF OwnersAreRegistered, Stored
  <2>1. CASE k = Lot(r)
    <3>1. lots'[k] = lotWrite[r]  BY <1>2, <2>1 DEF IInv, TypeOK
    <3>2. lots'[k].owner = lots[k].owner  BY <2>1, <3>1, CommitKeepsOwner
    <3>3. lots[k] # NoLot  BY <1>2, <2>1, NullRow
    <3> QED  BY <3>2, <3>3 DEF TruthInv, OwnersAreRegistered, Stored
  <2>2. CASE k # Lot(r)
    BY <1>2, <2>2 DEF IInv, TypeOK, TruthInv, OwnersAreRegistered, Stored
  <2> QED  BY <2>1, <2>2
<1> QED  BY <1>4, <1>5, <1>6 DEF TruthInv

LEMMA OutbidTells ==
  ASSUME IInv, TruthInv, NEW r \in Requests, Outbid(r)
  PROVE  TruthInv'
<1> USE DEF Outbid, Leave, Goto, tables, session
<1>1. TruthOK(r) /\ txn[r] = "committed" /\ outbid[r] # Nil /\ outbid[r] # call[r].caller
  BY DEF TruthInv, TruthOK, OutbidOK, IInv, StageOK
<1>2. /\ pc'[r] = "done" /\ outbid'[r] = Nil
      /\ \A q \in Requests : q # r => pc'[q] = pc[q] /\ outbid'[q] = outbid[q]
      /\ UNCHANGED <<lots, bids, call, txn, lotWrite, outcome>>
  BY DEF IInv, TypeOK
<1>3. ASSUME NEW q \in Requests PROVE TruthOK(q)'
  <2>1. TruthOK(q)  BY DEF TruthInv
  <2>2. CASE q = r
    BY <1>1, <1>2, <2>2
       DEF TruthOK, AnswerOK, RecordedOK, OutbidOK, CallerOK, Lot
  <2>3. CASE q # r
    BY <1>2, <2>1, <2>3
       DEF TruthOK, AnswerOK, RecordedOK, OutbidOK, CallerOK, Live, Lot
  <2> QED  BY <2>2, <2>3
<1>4. NotesAreTrue'
  <2> SUFFICES ASSUME NEW n \in notes'
               PROVE  \E b \in bids : /\ b.id = n.bid /\ b.bidder # n.to
                                      /\ Displaced(bids, b.lot, n.to, b.amount)
    BY <1>2 DEF NotesAreTrue, Displaced
  <2>1. CASE n \in notes  BY <2>1 DEF TruthInv, NotesAreTrue, Displaced
  <2>2. CASE n = [bid |-> r, to |-> outbid[r]]
    <3>1. n.bid = r /\ n.to = outbid[r]  BY <2>2
    <3>2. Displaced(bids, Lot(r), outbid[r], call[r].price) /\ call[r].op = "place"
      BY <1>1 DEF TruthOK, OutbidOK
    <3>3. PICK b \in bids : /\ b.id = r /\ b.lot = Lot(r)
                            /\ b.bidder = call[r].caller /\ b.amount = call[r].price
      BY <1>1, <3>2 DEF TruthOK, RecordedOK
    <3> QED  BY <1>1, <3>1, <3>2, <3>3
  <2> QED  BY <2>1, <2>2
<1>5. OwnersAreRegistered'  BY <1>2 DEF TruthInv, OwnersAreRegistered, Stored
<1> QED  BY <1>3, <1>4, <1>5 DEF TruthInv

-----------------------------------------------------------------------------
(* Crashes, time, and the invariant.                                       *)

\* A crash loses what the handlers held, not what was promised.
LEMMA CrashTells ==
  ASSUME IInv, TruthInv, Crash
  PROVE  TruthInv'
<1> USE DEF Crash, tables, session, AtRest
<1>1. ASSUME NEW q \in Requests PROVE TruthOK(q)'
  <2>1. /\ TruthOK(q) /\ outbid'[q] = Nil
        /\ pc'[q] \in {"idle", "done", "dead"}
        /\ pc'[q] = "dead" \/ pc'[q] = pc[q]
    BY DEF TruthInv, IInv, TypeOK
  <2>2. AnswerOK(q)'  BY <2>1 DEF TruthOK, AnswerOK
  <2>3. RecordedOK(q)'  BY <2>1 DEF TruthOK, RecordedOK, Lot
  <2>4. OutbidOK(q)' /\ CallerOK(q)'  BY <2>1 DEF OutbidOK, CallerOK
  <2> QED  BY <2>2, <2>3, <2>4 DEF TruthOK
<1> QED  BY <1>1 DEF TruthInv, NotesAreTrue, OwnersAreRegistered, Stored

LEMMA NothingToTell ==
  ASSUME TruthInv, UNCHANGED <<tables, session, call, pc, locals, outcome, notes>>
  PROVE  TruthInv'
<1> USE DEF tables, session, locals
<1>1. ASSUME NEW q \in Requests PROVE TruthOK(q)'
  BY DEF TruthInv, TruthOK, AnswerOK, RecordedOK, OutbidOK, CallerOK, Live, Lot
<1> QED  BY <1>1 DEF TruthInv, NotesAreTrue, OwnersAreRegistered, Stored

LEMMA TruthInit == Init => TruthInv
<1> SUFFICES ASSUME Init PROVE TruthInv  OBVIOUS
<1> USE DEF Init
<1>1. \A q \in Requests : TruthOK(q)
  BY DEF TruthOK, AnswerOK, Refusals, RecordedOK, OutbidOK, CallerOK
<1>2. NotesAreTrue  BY DEF NotesAreTrue
<1>3. OwnersAreRegistered  BY InitOwnersAreRegistered DEF OwnersAreRegistered
<1> QED  BY <1>1, <1>2, <1>3 DEF TruthInv

LEMMA TruthNext == IInv /\ Consistent /\ TruthInv /\ [Next]_vars => TruthInv'
<1> SUFFICES ASSUME IInv, Consistent, TruthInv, [Next]_vars PROVE TruthInv'  OBVIOUS
<1>1. ASSUME NEW r \in Requests, Arrive(r) PROVE TruthInv'  BY <1>1, ArriveTells
<1>2. ASSUME NEW r \in Requests, Handler(r) PROVE TruthInv'
  BY <1>2, UserExistsTells, InsertLotTells, BeginTells, LockForBidTells,
     LockForOwnerTells, ApplyBidTells, UpdateLotTells, DeleteLotTells,
     TopBidderTells, InsertBidTells, CommitTells, CommitAnsweredTells,
     OutbidTells, RollbackTells, SessionLostTells
     DEF Handler
<1>3. ASSUME NEW r \in Requests, Database(r) PROVE TruthInv'
  BY <1>3, ServerCommitTells, AbandonTells DEF Database
<1>4. ASSUME NEW r \in Requests, Breaks(r) PROVE TruthInv'
  BY <1>4, FailsTells, CommitAnswerLostTells, RollbackLostTells, KillTells DEF Breaks
<1>5. CASE Crash  BY <1>5, CrashTells
<1>6. CASE Tick  BY <1>6, NothingToTell DEF Tick
<1>7. CASE UNCHANGED vars  BY <1>7, NothingToTell DEF vars, world
<1> QED  BY <1>1, <1>2, <1>3, <1>4, <1>5, <1>6, <1>7 DEF Next, Quiet

LEMMA TruthInductive == Spec => []TruthInv
BY TruthInit, TruthNext, Inductive, BiddingConsistent, PTL DEF Spec

\* Every lot belongs to a registered user, though no foreign key says so and
\* the user is asked for in a statement of its own.
THEOREM OwnersStayRegistered == Spec => []OwnersAreRegistered
<1>1. TruthInv => OwnersAreRegistered  BY DEF TruthInv
<1> QED  BY <1>1, TruthInductive, PTL

\* An outbid notification names the bidder who was on top when the bid was
\* placed; whatever fails or crashes, none is sent for a bid that is not
\* in the table, or to the bidder himself.
THEOREM NotesTellTheTruth == Spec => []NotesAreTrue
<1>1. TruthInv => NotesAreTrue  BY DEF TruthInv
<1> QED  BY <1>1, TruthInductive, PTL

\* Whatever fails, an answer other than a 500 tells what the database did: a
\* success is stored, and a refused request has left nothing.
THEOREM AnswersTellTheTruth == Spec => []AnswersAreTrue
<1>1. IInv /\ Consistent /\ TruthInv => AnswersAreTrue
  <2> SUFFICES ASSUME IInv, Consistent, TruthInv, NEW r \in Requests
               PROVE  /\ outcome[r] = "ok" /\ call[r].op = "place" =>
                           /\ \E b \in bids : /\ b.id = r
                                              /\ b.bidder = call[r].caller
                                              /\ b.amount = call[r].price
                           /\ lots[call[r].lot].price >= call[r].price
                      /\ outcome[r] = "ok" /\ call[r].op \in {"edit", "delete"} =>
                           txn[r] = "committed"
                      /\ outcome[r] \in Refusals =>
                           /\ txn[r] \notin {"committing", "committed"}
                           /\ \A b \in bids : b.id # r
    BY DEF AnswersAreTrue
  <2>1. AnswerOK(r) /\ RecordedOK(r)  BY DEF TruthInv, TruthOK
  <2>2. ASSUME outcome[r] = "ok", call[r].op = "place"
        PROVE  /\ \E b \in bids : /\ b.id = r
                                  /\ b.bidder = call[r].caller
                                  /\ b.amount = call[r].price
               /\ lots[call[r].lot].price >= call[r].price
    <3>1. PICK b \in bids : /\ b.id = r /\ b.lot = Lot(r)
                            /\ b.bidder = call[r].caller /\ b.amount = call[r].price
      BY <2>1, <2>2 DEF AnswerOK, RecordedOK
    <3>2. Lot(r) \in LotIds /\ lots[Lot(r)] # NoLot
      BY <3>1, CallTyped DEF IInv, TypeOK, Lot, Consistent, NoOrphanBids
    <3>3. b \in BidsOn(bids, Lot(r))  BY <3>1 DEF BidsOn
    <3>4. b.amount <= lots[Lot(r)].price
      BY <3>2, <3>3 DEF Consistent, PriceIsTop, Stored
    <3>5. lots[Lot(r)] \in LotRow /\ b \in BidRow  BY <3>2 DEF IInv, TypeOK
    <3>6. b.amount \in Int /\ lots[Lot(r)].price \in Int
      BY <3>5, PricesAreInts DEF LotRow, BidRow, Amounts
    <3> QED  BY <3>1, <3>4, <3>6 DEF Lot
  <2>3. outcome[r] = "ok" /\ call[r].op \in {"edit", "delete"} => txn[r] = "committed"
    BY <2>1 DEF AnswerOK
  <2>4. ASSUME outcome[r] \in Refusals
        PROVE  txn[r] \notin {"committing", "committed"} /\ \A b \in bids : b.id # r
    BY <2>1, <2>4 DEF AnswerOK, IInv, BidsOK
  <2> QED  BY <2>2, <2>3, <2>4
<1> QED  BY <1>1, Inductive, BiddingConsistent, TruthInductive, PTL

\* Who holds a row lock waits neither for another nor for a connection of the
\* pool, and none ever holds two: no cycle of row locks and connections can
\* form, however requests interleave and small the pool is.
THEOREM NoHoldAndWait ==
  Spec => [](\A k, l \in LotIds :
               lock[k] # Nil /\ lock[k] = lock[l] =>
                 k = l /\ pc[lock[k]] \notin {"lock", "begin", "exists", "create"})
<1>1. IInv => \A k, l \in LotIds :
                lock[k] # Nil /\ lock[k] = lock[l] =>
                  k = l /\ pc[lock[k]] \notin {"lock", "begin", "exists", "create"}
  <2> SUFFICES ASSUME IInv, NEW k \in LotIds, NEW l \in LotIds, lock[k] # Nil, lock[k] = lock[l]
               PROVE  k = l /\ pc[lock[k]] \notin {"lock", "begin", "exists", "create"}
    OBVIOUS
  <2>1. lock[k] \in Requests /\ Live(lock[k])
    BY DEF IInv, LockOK, TypeOK
  <2>2. k = l /\ pc[lock[k]] # "lock"
    BY DEF IInv, LockOK
  <2>3. pc[lock[k]] \notin {"begin", "exists", "create"}
    BY <2>1 DEF IInv, StageOK, Live
  <2> QED  BY <2>2, <2>3
<1> QED  BY <1>1, Inductive, PTL
=============================================================================
