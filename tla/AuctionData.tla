----------------------------- MODULE AuctionData -----------------------------
(***************************************************************************)
(* The rows of the two auction tables and the row-level computations that  *)
(* both the abstract auction (Auction) and the service (Bidding) use.      *)
(*                                                                         *)
(* A row keeps the columns the rules read or write.  Titles, descriptions, *)
(* currencies and a lot's own creation time are left out: no rule reads    *)
(* them.  Times are ticks of one clock, prices are minor units.            *)
(***************************************************************************)
EXTENDS Integers, FiniteSets

CONSTANTS
  Users,       \* the ids a token can carry
  LotIds,      \* the uuids lots are minted from
  Requests,    \* HTTP requests; a bid's uuid is the request that placed it
  Prices,      \* the amounts clients send, valid or not
  MaxTime,     \* bound: the last tick of the clock
  InitLots,    \* the lots table the system starts with
  NoLot,       \* no row under this id
  Nil          \* uuid.Nil, an absent field, a lock nobody holds

Times   == 0 .. MaxTime
Amounts == {p \in Prices : p > 0}

LotRow == [owner: Users, start: Amounts, price: Amounts,
           bidCount: Nat, endsAt: Times]

BidRow == [id: Requests, lot: LotIds, bidder: Users,
           amount: Amounts, createdAt: Times]

\* A lot as Create stores it: the current price is the start price.
NewLot(owner, price, endsAt) ==
  [owner |-> owner, start |-> price, price |-> price,
   bidCount |-> 0, endsAt |-> endsAt]

\* Mistake: the price moves, the counter does not.
RaisedUncounted(row, amount) == [row EXCEPT !.price = amount]

\* A lot after one more bid.
Raised(row, amount) ==
  [row EXCEPT !.price = amount, !.bidCount = @ + 1]

BidsOn(bids, l) == {b \in bids : b.lot = l}

\* The lots that exist.
Stored(lots) == {l \in LotIds : lots[l] # NoLot}

ASSUME PricesAreInts == Prices \subseteq Int

ASSUME MaxTimeIsNat == MaxTime \in Nat

ASSUME NullsAreNotRows ==
  /\ NoLot \notin LotRow
  /\ Nil \notin Users \cup Requests \cup Prices \cup Times

\* The service starts on lots nobody has bid on yet: their price is the
\* start price and their counter is zero.
ASSUME InitLotsAreFresh ==
  /\ InitLots \in [LotIds -> LotRow \cup {NoLot}]
  /\ \A l \in Stored(InitLots) :
       /\ InitLots[l].bidCount = 0
       /\ InitLots[l].price = InitLots[l].start
=============================================================================
