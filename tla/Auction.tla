------------------------------- MODULE Auction -------------------------------
(***************************************************************************)
(* What the lots and bids features promise together: each request takes    *)
(* effect on both tables in one atomic step, or not at all.  There are no  *)
(* transactions, locks, handlers or failures here; Bidding extends this    *)
(* module, adds them around the same two tables, and implements            *)
(* AuctionSpec with those tables as they are.                              *)
(***************************************************************************)
EXTENDS AuctionData

VARIABLES
  lots,        \* the committed lots table: LotIds -> row or NoLot
  bids         \* the committed bids table: a set of rows

auctionVars == <<lots, bids>>

AuctionInit ==
  /\ lots = InitLots
  /\ bids = {}

CreateLot(l, owner, price, endsAt) ==
  /\ lots[l] = NoLot
  /\ lots' = [lots EXCEPT ![l] = NewLot(owner, price, endsAt)]
  /\ UNCHANGED bids

\* Mistake: the terms may still change after the first bid.
EditLotAnytime(l, price, endsAt) ==
  /\ lots[l] # NoLot
  /\ lots' = [lots EXCEPT ![l].start = price, ![l].price = price,
                          ![l].endsAt = endsAt]
  /\ UNCHANGED bids

\* The owner may rewrite the terms only while nobody has bid.
EditLot(l, price, endsAt) ==
  /\ lots[l] # NoLot
  /\ lots[l].bidCount = 0
  /\ lots' = [lots EXCEPT ![l].start = price, ![l].price = price,
                          ![l].endsAt = endsAt]
  /\ UNCHANGED bids

RemoveLot(l) ==
  /\ lots[l] # NoLot
  /\ lots[l].bidCount = 0
  /\ lots' = [lots EXCEPT ![l] = NoLot]
  /\ UNCHANGED bids

\* A bid beats the current price of an open lot of somebody else; the price
\* move and the bid row are one step.
PlaceBid(bid) ==
  LET l == bid.lot IN
  /\ \A b \in bids : b.id # bid.id
  /\ lots[l] # NoLot
  /\ bid.createdAt < lots[l].endsAt
  /\ bid.bidder # lots[l].owner
  /\ bid.amount > lots[l].price
  /\ lots' = [lots EXCEPT ![l] = Raised(lots[l], bid.amount)]
  /\ bids' = bids \cup {bid}

\* Mistake: a lot is created with the amount the client sent, unvalidated.
AuctionNextUnvalidated ==
  \E l \in LotIds, u \in Users, p \in Prices, t \in Times : CreateLot(l, u, p, t)

AuctionNext ==
  \/ \E l \in LotIds, u \in Users, p \in Amounts, t \in Times :
       CreateLot(l, u, p, t)
  \/ \E l \in LotIds, p \in Amounts, t \in Times : EditLot(l, p, t)
  \/ \E l \in LotIds : RemoveLot(l)
  \/ \E r \in Requests, l \in LotIds, u \in Users, p \in Amounts, t \in Times :
       PlaceBid([id |-> r, lot |-> l, bidder |-> u,
                 amount |-> p, createdAt |-> t])

AuctionSpec == AuctionInit /\ [][AuctionNext]_auctionVars

-----------------------------------------------------------------------------

AuctionTypeOK ==
  /\ lots \in [LotIds -> LotRow \cup {NoLot}]
  /\ bids \in SUBSET BidRow

\* Every bid belongs to a lot that still exists: lots.Delete can never
\* orphan rows of the bids table.
NoOrphanBids == \A b \in bids : lots[b.lot] # NoLot

\* The denormalized counter that Update and Delete trust instead of asking
\* the bids feature is the number of rows in the bids table.
CountMatches ==
  \A l \in Stored(lots) : lots[l].bidCount = Cardinality(BidsOn(bids, l))

\* The current price is the start price of a lot without bids, and
\* otherwise the highest bid; every bid beat the start price.
PriceIsTop ==
  \A l \in Stored(lots) :
    /\ \A b \in BidsOn(bids, l) : lots[l].start < b.amount /\ b.amount <= lots[l].price
    /\ \/ \E b \in BidsOn(bids, l) : b.amount = lots[l].price
       \/ BidsOn(bids, l) = {} /\ lots[l].price = lots[l].start

\* Of the bids of one lot no two have the same amount: of several equal
\* bids one wins.  No two bids have the same id.
OneWinnerPerAmount ==
  \A b, c \in bids :
    b # c => /\ b.id # c.id
             /\ b.lot = c.lot => b.amount # c.amount

\* Every bid stands under the lot's terms as they are now: it is not the
\* owner's, and it is dated before the lot closes.
BidsFitTheTerms ==
  \A b \in bids :
    /\ b.bidder # lots[b.lot].owner
    /\ b.createdAt < lots[b.lot].endsAt

Consistent ==
  /\ NoOrphanBids
  /\ CountMatches
  /\ PriceIsTop
  /\ OneWinnerPerAmount
  /\ BidsFitTheTerms

\* A step on a lot that has bids only adds bids to it, each above all that
\* were there: the terms are frozen, no bid is changed or lost.
FrozenOnceBid ==
  [][\A l \in Stored(lots) :
       BidsOn(bids, l) # {} =>
         /\ BidsOn(bids, l) \subseteq BidsOn(bids', l)
         /\ \A new \in BidsOn(bids', l) \ BidsOn(bids, l), old \in BidsOn(bids, l) :
              new.amount > old.amount
         /\ lots'[l] # NoLot
         /\ lots'[l].owner = lots[l].owner
         /\ lots'[l].start = lots[l].start
         /\ lots'[l].endsAt = lots[l].endsAt]_auctionVars
=============================================================================
