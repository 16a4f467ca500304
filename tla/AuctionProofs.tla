---------------------------- MODULE AuctionProofs ----------------------------
(***************************************************************************)
(* The abstract auction keeps the two tables consistent, for every set of  *)
(* users, lots, requests and prices and every starting table of lots.      *)
(***************************************************************************)
EXTENDS Auction, FiniteSetTheorems, TLAPS

\* CountMatches speaks of cardinalities, so the induction also carries that
\* the bids table is finite.
AuctionInv ==
  /\ AuctionTypeOK
  /\ IsFiniteSet(bids)
  /\ Consistent

\* What the constants' assumptions say of the lots at the start.
LEMMA InitLotsTyped ==
  /\ InitLots \in [LotIds -> LotRow \cup {NoLot}]
  /\ \A l \in LotIds : InitLots[l] # NoLot =>
       InitLots[l].bidCount = 0 /\ InitLots[l].price = InitLots[l].start
BY InitLotsAreFresh DEF Stored

\* A new lot is a row, and no row is the null value.
LEMMA NewLotIsRow ==
  ASSUME NEW u \in Users, NEW p \in Amounts, NEW t \in Times
  PROVE  /\ NewLot(u, p, t) \in LotRow
         /\ NewLot(u, p, t) # NoLot
<1>1. NewLot(u, p, t) \in LotRow  BY DEF NewLot, LotRow
<1> QED  BY <1>1, NullsAreNotRows

\* One more bid moves the price and the counter of a row and nothing else.
LEMMA RaisedIsRow ==
  ASSUME NEW row \in LotRow, NEW amount \in Amounts
  PROVE  /\ Raised(row, amount) \in LotRow
         /\ Raised(row, amount) # NoLot
         /\ Raised(row, amount).price = amount
         /\ Raised(row, amount).bidCount = row.bidCount + 1
         /\ Raised(row, amount).owner = row.owner
         /\ Raised(row, amount).start = row.start
         /\ Raised(row, amount).endsAt = row.endsAt
<1>1. row.bidCount + 1 \in Nat  BY DEF LotRow
<1>2. Raised(row, amount) \in LotRow  BY <1>1 DEF Raised, LotRow
<1>3. Raised(row, amount).price = amount  BY DEF Raised, LotRow
<1>4. Raised(row, amount).bidCount = row.bidCount + 1  BY DEF Raised, LotRow
<1>5. /\ Raised(row, amount).owner = row.owner
      /\ Raised(row, amount).start = row.start
      /\ Raised(row, amount).endsAt = row.endsAt
  BY DEF Raised, LotRow
<1> QED  BY <1>2, <1>3, <1>4, <1>5, NullsAreNotRows

\* The rows of one lot after a bid is added.
LEMMA BidsOnAdd ==
  ASSUME NEW S, NEW b, NEW l
  PROVE  BidsOn(S \cup {b}, l) =
           IF b.lot = l THEN BidsOn(S, l) \cup {b} ELSE BidsOn(S, l)
BY DEF BidsOn

\* The counter of a lot's rows goes up by one with a bid not yet there.
LEMMA CountAfterBid ==
  ASSUME NEW S, IsFiniteSet(S), NEW b, b \notin S
  PROVE  /\ IsFiniteSet(BidsOn(S, b.lot))
         /\ Cardinality(BidsOn(S, b.lot) \cup {b}) = Cardinality(BidsOn(S, b.lot)) + 1
<1>1. BidsOn(S, b.lot) \subseteq S /\ b \notin BidsOn(S, b.lot)  BY DEF BidsOn
<1>2. IsFiniteSet(BidsOn(S, b.lot))  BY <1>1, FS_Subset
<1> QED  BY <1>1, <1>2, FS_AddElement

LEMMA AuctionInitHolds == AuctionInit => AuctionInv
<1> SUFFICES ASSUME AuctionInit PROVE AuctionInv  OBVIOUS
<1>1. AuctionTypeOK  BY InitLotsTyped DEF AuctionInit, AuctionTypeOK
<1>2. IsFiniteSet(bids)  BY FS_EmptySet DEF AuctionInit
<1>3. \A l : BidsOn(bids, l) = {}  BY DEF AuctionInit, BidsOn
<1>4. CountMatches  BY <1>3, InitLotsTyped, FS_EmptySet DEF AuctionInit, CountMatches, Stored
<1>5. PriceIsTop  BY <1>3, InitLotsTyped DEF AuctionInit, PriceIsTop, Stored
<1>6. NoOrphanBids /\ OneWinnerPerAmount /\ BidsFitTheTerms
  BY DEF AuctionInit, NoOrphanBids, OneWinnerPerAmount, BidsFitTheTerms
<1> QED  BY <1>1, <1>2, <1>4, <1>5, <1>6 DEF AuctionInv, Consistent

\* A lot whose counter is zero has no bids.
LEMMA NoCountNoBids ==
  ASSUME AuctionInv, NEW l \in LotIds, lots[l] # NoLot, lots[l].bidCount = 0
  PROVE  BidsOn(bids, l) = {}
<1>1. Cardinality(BidsOn(bids, l)) = 0  BY DEF AuctionInv, Consistent, CountMatches, Stored
<1>2. IsFiniteSet(BidsOn(bids, l))  BY FS_Subset DEF AuctionInv, BidsOn
<1> QED  BY <1>1, <1>2, FS_EmptySet

\* Rewriting or removing a row nobody has bid on disturbs no bid.
LEMMA RowChangeKeeps ==
  ASSUME AuctionInv, NEW l \in LotIds, NEW row \in LotRow \cup {NoLot},
         BidsOn(bids, l) = {},
         row # NoLot => row.bidCount = 0 /\ row.price = row.start,
         lots' = [lots EXCEPT ![l] = row], bids' = bids
  PROVE  AuctionInv'
<1> USE DEF AuctionInv
<1>1. AuctionTypeOK'  BY DEF AuctionTypeOK
<1>2. \A k \in LotIds : k # l => lots'[k] = lots[k]  BY DEF AuctionTypeOK
<1>3. lots'[l] = row  BY DEF AuctionTypeOK
<1>4. \A b \in bids : b.lot \in LotIds /\ b.lot # l  BY DEF BidsOn, AuctionTypeOK, BidRow
<1>5. NoOrphanBids' /\ BidsFitTheTerms' /\ OneWinnerPerAmount'
  BY <1>2, <1>4 DEF Consistent, NoOrphanBids, BidsFitTheTerms, OneWinnerPerAmount
<1>6. CountMatches'
  <2> SUFFICES ASSUME NEW k \in LotIds, lots'[k] # NoLot
               PROVE  lots'[k].bidCount = Cardinality(BidsOn(bids', k))
    BY DEF CountMatches, Stored
  <2>1. CASE k = l  BY <2>1, <1>3, FS_EmptySet
  <2>2. CASE k # l  BY <2>2, <1>2 DEF Consistent, CountMatches, Stored
  <2> QED  BY <2>1, <2>2
<1>7. PriceIsTop'
  <2> SUFFICES ASSUME NEW k \in LotIds, lots'[k] # NoLot
               PROVE  /\ \A b \in BidsOn(bids', k) :
                           lots'[k].start < b.amount /\ b.amount <= lots'[k].price
                      /\ \/ \E b \in BidsOn(bids', k) : b.amount = lots'[k].price
                         \/ BidsOn(bids', k) = {} /\ lots'[k].price = lots'[k].start
    BY DEF PriceIsTop, Stored
  <2>1. CASE k = l  BY <2>1, <1>3
  <2>2. CASE k # l  BY <2>2, <1>2 DEF Consistent, PriceIsTop, Stored
  <2> QED  BY <2>1, <2>2
<1> QED  BY <1>1, <1>5, <1>6, <1>7 DEF Consistent

LEMMA PlaceBidKeeps ==
  ASSUME AuctionInv, NEW bid \in BidRow, PlaceBid(bid)
  PROVE  AuctionInv'
<1> DEFINE l == bid.lot
<1>1. /\ l \in LotIds /\ lots[l] # NoLot /\ lots[l] \in LotRow
      /\ bid \notin bids
      /\ bid.createdAt < lots[l].endsAt /\ bid.bidder # lots[l].owner
      /\ bid.amount > lots[l].price
      /\ bids' = bids \cup {bid}
      /\ lots' = [lots EXCEPT ![l] = Raised(lots[l], bid.amount)]
  BY DEF PlaceBid, AuctionInv, AuctionTypeOK, BidRow
<1>2. /\ bid.amount \in Amounts
      /\ Raised(lots[l], bid.amount) \in LotRow
      /\ Raised(lots[l], bid.amount) # NoLot
  BY <1>1, RaisedIsRow DEF BidRow
<1>3. /\ lots'[l] = Raised(lots[l], bid.amount)
      /\ \A k \in LotIds : k # l => lots'[k] = lots[k]
  BY <1>1 DEF AuctionInv, AuctionTypeOK
<1>4. /\ lots'[l].owner = lots[l].owner
      /\ lots'[l].start = lots[l].start
      /\ lots'[l].endsAt = lots[l].endsAt
      /\ lots'[l].price = bid.amount
      /\ lots'[l].bidCount = lots[l].bidCount + 1
  BY <1>1, <1>2, <1>3, RaisedIsRow
<1>5. AuctionTypeOK'  BY <1>1, <1>2 DEF AuctionInv, AuctionTypeOK
<1>6. IsFiniteSet(bids')  BY <1>1, FS_AddElement DEF AuctionInv
<1>7. \A b \in bids : b.lot \in LotIds  BY DEF AuctionInv, AuctionTypeOK, BidRow
<1>8. NoOrphanBids'
  BY <1>1, <1>2, <1>3, <1>7 DEF AuctionInv, Consistent, NoOrphanBids
<1>9. BidsFitTheTerms'
  BY <1>1, <1>3, <1>4, <1>7 DEF AuctionInv, Consistent, BidsFitTheTerms
<1>10. /\ BidsOn(bids', l) = BidsOn(bids, l) \cup {bid}
       /\ \A k \in LotIds : k # l => BidsOn(bids', k) = BidsOn(bids, k)
  BY <1>1, BidsOnAdd
<1>11. CountMatches'
  <2> SUFFICES ASSUME NEW k \in LotIds, lots'[k] # NoLot
               PROVE  lots'[k].bidCount = Cardinality(BidsOn(bids', k))
    BY DEF CountMatches, Stored
  <2>1. CASE k = l
    <3>1. lots[l].bidCount = Cardinality(BidsOn(bids, l))
      BY <1>1 DEF AuctionInv, Consistent, CountMatches, Stored
    <3>2. Cardinality(BidsOn(bids, l) \cup {bid}) = Cardinality(BidsOn(bids, l)) + 1
      BY <1>1, CountAfterBid DEF AuctionInv
    <3> QED  BY <2>1, <3>1, <3>2, <1>4, <1>10
  <2>2. CASE k # l
    BY <2>2, <1>3, <1>10 DEF AuctionInv, Consistent, CountMatches, Stored
  <2> QED  BY <2>1, <2>2
<1>12. /\ lots[l].start \in Int /\ lots[l].price \in Int /\ bid.amount \in Int
       /\ \A b \in bids : b.amount \in Int
  BY <1>1, PricesAreInts DEF AuctionInv, AuctionTypeOK, LotRow, BidRow, Amounts
<1>13. \A b \in BidsOn(bids, l) : lots[l].start < b.amount /\ b.amount <= lots[l].price
  BY <1>1 DEF AuctionInv, Consistent, PriceIsTop, Stored
<1>14. lots[l].start <= lots[l].price
  <2>1. \/ \E b \in BidsOn(bids, l) : b.amount = lots[l].price
        \/ lots[l].price = lots[l].start
    BY <1>1 DEF AuctionInv, Consistent, PriceIsTop, Stored
  <2> QED  BY <2>1, <1>12, <1>13
<1>15. PriceIsTop'
  <2> SUFFICES ASSUME NEW k \in LotIds, lots'[k] # NoLot
               PROVE  /\ \A b \in BidsOn(bids', k) :
                           lots'[k].start < b.amount /\ b.amount <= lots'[k].price
                      /\ \/ \E b \in BidsOn(bids', k) : b.amount = lots'[k].price
                         \/ BidsOn(bids', k) = {} /\ lots'[k].price = lots'[k].start
    BY DEF PriceIsTop, Stored
  <2>1. CASE k = l
    <3>1. \A b \in BidsOn(bids, l) : b.amount \in Int  BY <1>12 DEF BidsOn
    <3>2. lots[l].start < bid.amount  BY <1>1, <1>12, <1>14
    <3>3. ASSUME NEW b \in BidsOn(bids, l)
          PROVE  lots[l].start < b.amount /\ b.amount <= bid.amount
      BY <3>1, <1>1, <1>12, <1>13
    <3> HIDE DEF l
    <3>4. \A b \in BidsOn(bids', l) : lots'[l].start < b.amount /\ b.amount <= lots'[l].price
      BY <3>2, <3>3, <1>4, <1>10, <1>12
    <3>5. \E b \in BidsOn(bids', l) : b.amount = lots'[l].price  BY <1>4, <1>10
    <3> QED  BY <2>1, <3>4, <3>5
  <2>2. CASE k # l
    BY <2>2, <1>3, <1>10 DEF AuctionInv, Consistent, PriceIsTop, Stored
  <2> QED  BY <2>1, <2>2
<1>16. OneWinnerPerAmount'
  <2>1. \A b \in bids : b.lot = l => b.amount <= lots[l].price
    BY <1>13 DEF BidsOn
  <2>2. \A b \in bids : b.id # bid.id  BY DEF PlaceBid
  <2>3. \A b \in bids : b.lot = l => b.amount # bid.amount
    BY <2>1, <1>1, <1>12
  <2> QED  BY <1>1, <2>2, <2>3 DEF AuctionInv, Consistent, OneWinnerPerAmount
<1> QED
  BY <1>5, <1>6, <1>8, <1>9, <1>11, <1>15, <1>16 DEF AuctionInv, Consistent

LEMMA AuctionNextKeeps == AuctionInv /\ [AuctionNext]_auctionVars => AuctionInv'
<1> SUFFICES ASSUME AuctionInv, [AuctionNext]_auctionVars PROVE AuctionInv'  OBVIOUS
<1>1. ASSUME NEW l \in LotIds, NEW u \in Users, NEW p \in Amounts, NEW t \in Times,
             CreateLot(l, u, p, t)
      PROVE  AuctionInv'
  <2>1. BidsOn(bids, l) = {}
    BY <1>1 DEF CreateLot, AuctionInv, Consistent, NoOrphanBids, BidsOn
  <2>2. NewLot(u, p, t).bidCount = 0 /\ NewLot(u, p, t).price = NewLot(u, p, t).start
    BY DEF NewLot
  <2> QED  BY <1>1, <2>1, <2>2, NewLotIsRow, RowChangeKeeps DEF CreateLot
<1>2. ASSUME NEW l \in LotIds, NEW p \in Amounts, NEW t \in Times, EditLot(l, p, t)
      PROVE  AuctionInv'
  <2> DEFINE row == [lots[l] EXCEPT !.start = p, !.price = p, !.endsAt = t]
  <2>1. lots[l] \in LotRow /\ lots[l].bidCount = 0  BY <1>2 DEF EditLot, AuctionInv, AuctionTypeOK
  <2>2. row \in LotRow /\ row.bidCount = 0 /\ row.price = row.start
    BY <2>1 DEF LotRow
  <2>3. lots' = [lots EXCEPT ![l] = row] /\ bids' = bids
    BY <1>2, <2>1 DEF EditLot, AuctionInv, AuctionTypeOK, LotRow
  <2>4. BidsOn(bids, l) = {}  BY <1>2, NoCountNoBids DEF EditLot
  <2> HIDE DEF row
  <2> QED  BY <2>2, <2>3, <2>4, RowChangeKeeps
<1>3. ASSUME NEW l \in LotIds, RemoveLot(l)
      PROVE  AuctionInv'
  <2>1. BidsOn(bids, l) = {}  BY <1>3, NoCountNoBids DEF RemoveLot
  <2> QED  BY <1>3, <2>1, RowChangeKeeps DEF RemoveLot
<1>4. ASSUME NEW r \in Requests, NEW l \in LotIds, NEW u \in Users,
             NEW p \in Amounts, NEW t \in Times,
             PlaceBid([id |-> r, lot |-> l, bidder |-> u, amount |-> p, createdAt |-> t])
      PROVE  AuctionInv'
  <2>1. [id |-> r, lot |-> l, bidder |-> u, amount |-> p, createdAt |-> t] \in BidRow
    BY DEF BidRow
  <2> QED  BY <1>4, <2>1, PlaceBidKeeps
<1>5. CASE UNCHANGED auctionVars
  BY <1>5 DEF auctionVars, AuctionInv, AuctionTypeOK, Consistent, NoOrphanBids, CountMatches, PriceIsTop,
              OneWinnerPerAmount, BidsFitTheTerms, Stored
<1> QED  BY <1>1, <1>2, <1>3, <1>4, <1>5 DEF AuctionNext

\* Every reachable pair of tables is well typed and consistent: the counter
\* counts, the price is the top bid, no bid is orphaned, one winner per
\* amount, every bid within the terms.
THEOREM AuctionConsistent == AuctionSpec => [](AuctionTypeOK /\ Consistent)
<1>1. AuctionInv => AuctionTypeOK /\ Consistent  BY DEF AuctionInv
<1> QED  BY AuctionInitHolds, AuctionNextKeeps, <1>1, PTL DEF AuctionSpec

\* A lot with bids is frozen: every step keeps its terms and its bids, and
\* only adds higher ones.
THEOREM AuctionFreezes == AuctionSpec => FrozenOnceBid
<1> DEFINE Frozen ==
      \A l \in Stored(lots) :
        BidsOn(bids, l) # {} =>
          /\ BidsOn(bids, l) \subseteq BidsOn(bids', l)
          /\ \A new \in BidsOn(bids', l) \ BidsOn(bids, l), old \in BidsOn(bids, l) :
               new.amount > old.amount
          /\ lots'[l] # NoLot
          /\ lots'[l].owner = lots[l].owner
          /\ lots'[l].start = lots[l].start
          /\ lots'[l].endsAt = lots[l].endsAt
<1>1. AuctionInv /\ [AuctionNext]_auctionVars => [Frozen]_auctionVars
  <2> SUFFICES ASSUME AuctionInv, AuctionNext, NEW l \in LotIds, lots[l] # NoLot, BidsOn(bids, l) # {}
               PROVE  /\ BidsOn(bids, l) \subseteq BidsOn(bids', l)
                      /\ \A new \in BidsOn(bids', l) \ BidsOn(bids, l),
                            old \in BidsOn(bids, l) : new.amount > old.amount
                      /\ lots'[l] # NoLot
                      /\ lots'[l].owner = lots[l].owner
                      /\ lots'[l].start = lots[l].start
                      /\ lots'[l].endsAt = lots[l].endsAt
    BY DEF Stored
  <2>1. lots[l] \in LotRow  BY DEF AuctionInv, AuctionTypeOK
  <2>2. lots[l].bidCount # 0  BY NoCountNoBids
  <2>3. CASE lots'[l] = lots[l] /\ bids' = bids  BY <2>3
  <2>4. ASSUME NEW k \in LotIds, NEW u \in Users, NEW p \in Amounts, NEW t \in Times,
               CreateLot(k, u, p, t)
        PROVE  lots'[l] = lots[l] /\ bids' = bids
    BY <2>4 DEF CreateLot, AuctionInv, AuctionTypeOK
  <2>5. ASSUME NEW k \in LotIds, NEW p \in Amounts, NEW t \in Times, EditLot(k, p, t)
        PROVE  lots'[l] = lots[l] /\ bids' = bids
    BY <2>2, <2>5 DEF EditLot, AuctionInv, AuctionTypeOK
  <2>6. ASSUME NEW k \in LotIds, RemoveLot(k)
        PROVE  lots'[l] = lots[l] /\ bids' = bids
    BY <2>2, <2>6 DEF RemoveLot, AuctionInv, AuctionTypeOK
  <2>7. ASSUME NEW bid \in BidRow, PlaceBid(bid), bid.lot # l
        PROVE  lots'[l] = lots[l] /\ BidsOn(bids', l) = BidsOn(bids, l)
    BY <2>7, BidsOnAdd DEF PlaceBid, AuctionInv, AuctionTypeOK, BidRow
  <2>8. ASSUME NEW bid \in BidRow, PlaceBid(bid), bid.lot = l
        PROVE  /\ BidsOn(bids', l) = BidsOn(bids, l) \cup {bid}
               /\ lots'[l] \in LotRow
               /\ lots'[l].owner = lots[l].owner
               /\ lots'[l].start = lots[l].start
               /\ lots'[l].endsAt = lots[l].endsAt
               /\ \A old \in BidsOn(bids, l) : bid.amount > old.amount
    <3>1. BidsOn(bids', l) = BidsOn(bids, l) \cup {bid}
      BY <2>8, BidsOnAdd DEF PlaceBid
    <3>2. lots'[l] = Raised(lots[l], bid.amount)
      BY <2>8 DEF PlaceBid, AuctionInv, AuctionTypeOK
    <3>3. \A old \in BidsOn(bids, l) : old.amount <= lots[l].price
      BY DEF AuctionInv, Consistent, PriceIsTop, Stored
    <3>4. /\ bid.amount \in Int /\ lots[l].price \in Int
          /\ \A old \in BidsOn(bids, l) : old.amount \in Int
      BY <2>1, PricesAreInts DEF AuctionInv, AuctionTypeOK, LotRow, BidRow, BidsOn, Amounts
    <3>5. bid.amount > lots[l].price  BY <2>8 DEF PlaceBid
    <3>6. \A old \in BidsOn(bids, l) : bid.amount > old.amount  BY <3>3, <3>4, <3>5
    <3>7. bid.amount \in Amounts  BY DEF BidRow
    <3> QED  BY <2>1, <3>1, <3>2, <3>6, <3>7, RaisedIsRow
  <2>9. \A r \in Requests, k \in LotIds, u \in Users, p \in Amounts, t \in Times :
          [id |-> r, lot |-> k, bidder |-> u, amount |-> p, createdAt |-> t] \in BidRow
    BY DEF BidRow
  <2>10. CASE \E bid \in BidRow : PlaceBid(bid)
    <3> PICK bid \in BidRow : PlaceBid(bid)  BY <2>10
    <3>1. CASE bid.lot # l  BY <3>1, <2>7
    <3>2. CASE bid.lot = l  BY <3>2, <2>8, NullsAreNotRows
    <3> QED  BY <3>1, <3>2
  <2> QED  BY <2>3, <2>4, <2>5, <2>6, <2>9, <2>10 DEF AuctionNext
<1>2. AuctionSpec => [][Frozen]_auctionVars  BY AuctionInitHolds, AuctionNextKeeps, <1>1, PTL DEF AuctionSpec
<1> QED  BY <1>2 DEF FrozenOnceBid
=============================================================================
