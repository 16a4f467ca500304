---------------------------- MODULE ReadingProofs ----------------------------
(***************************************************************************)
(* Theorems about Reading, for any tables, page sizes and number of        *)
(* writes: the tables a reader sees are an auction's, a walk through a     *)
(* history overlooks no bid that was there when it began, and one through  *)
(* the listing no more lots than meanwhile left their places.              *)
(***************************************************************************)
EXTENDS Reading, AuctionProofs

\* A reader's module adds steps that leave the tables alone.
LEMMA StepsOfTheAuction == [Next]_vars => [AuctionNext]_auctionVars
  BY DEF Next, Ask, Count, Select, Write, Tick, vars, auctionVars

LEMMA TablesHold == Spec => []AuctionInv
<1>1. Init => AuctionInv
  BY AuctionInitHolds DEF Init
<1> QED
  BY <1>1, StepsOfTheAuction, AuctionNextKeeps, PTL DEF Spec

\* Reading is an auction somebody looks at: whatever Auction promises, and by
\* refinement the service, holds of the tables behind the pages.
THEOREM ReadsAnAuction == Spec => AuctionSpec
<1>1. Init => AuctionInit
  BY DEF Init
<1> QED
  BY <1>1, StepsOfTheAuction, PTL DEF Spec, AuctionSpec

-----------------------------------------------------------------------------
\* Types.

LEMMA SelectedIsFinite ==
  ASSUME AuctionInv, TypeOK
  PROVE  IsFiniteSet(Selected) /\ Selected \subseteq LotIds \cup BidRow
<1>1. Active(lots, now) \subseteq LotIds
  BY DEF Active, Stored
<1>2. BidsOn(bids, walk.of) \subseteq bids
  BY DEF BidsOn
<1>3. bids \subseteq BidRow /\ IsFiniteSet(bids)
  BY DEF AuctionInv, AuctionTypeOK
<1> QED
  BY <1>1, <1>2, <1>3, LotIdsAreFinite, FS_Subset DEF Selected

LEMMA ReadingTypes == Spec => []TypeOK
<1>1. Init => TypeOK
  BY AuctionInitHolds, MaxTimeIsNat, SizesFit DEF Init, TypeOK, AuctionInv, Walks, Times
<1>2. AuctionInv /\ TypeOK /\ [Next]_vars => TypeOK'
  <2> SUFFICES ASSUME AuctionInv, TypeOK, [Next]_vars PROVE TypeOK'
    OBVIOUS
  <2>0. AuctionTypeOK'
    BY StepsOfTheAuction, AuctionNextKeeps DEF AuctionInv
  <2>1. ASSUME NEW of \in LotIds \cup {Nil}, NEW page \in FirstPages, NEW size \in PageSizes,
               Ask(of, page, size)
        PROVE  TypeOK'
    <3>1. CASE ValidPage(page, size)
      <4> DEFINE first == IF page = 0 THEN 1 ELSE page
                 each == IF size = 0 THEN DefaultPageSize ELSE size
      <4>1. first \in Nat \ {0} /\ each \in 0 .. MaxPageSize /\ each > 0
        BY <3>1, WalksBeginInFront, SizesFit DEF ValidPage
      <4>2. walk' = [walk EXCEPT !.phase = "asked", !.of = of, !.page = first, !.size = each]
        BY <2>1, <3>1 DEF Ask
      <4> HIDE DEF first, each
      <4>3. walk' \in Walks
        BY <2>1, <4>1, <4>2 DEF TypeOK, Walks
      <4>4. walk'.page = first /\ walk'.size = each
        BY <4>2 DEF TypeOK, Walks
      <4> QED
        BY <2>0, <2>1, <4>1, <4>3, <4>4 DEF Ask, TypeOK
    <3>2. CASE ~ValidPage(page, size)
      BY <2>0, <2>1, <3>2 DEF Ask, TypeOK, Walks
    <3> QED
      BY <3>1, <3>2
  <2>2. CASE Count
    <3>1. Cardinality(Selected) \in Nat
      BY SelectedIsFinite, FS_CardinalityType
    <3> QED
      BY <2>0, <2>2, <3>1 DEF Count, TypeOK, Walks
  <2>3. CASE Select
    <3>1. PICK items \in Pages :
            walk' = [walk EXCEPT
                       !.seen = @ \cup items, !.page = @ + 1,
                       !.phase = IF Cardinality(items) < walk.size THEN "finished" ELSE "asked"]
      BY <2>3 DEF Select
    <3>2. items \subseteq LotIds \cup BidRow
      BY SelectedIsFinite DEF Pages
    <3>3. walk.page \in Nat /\ walk.page > 0 /\ walk.size > 0
      BY <2>3 DEF Select, TypeOK, Walks
    <3>4. walk' \in Walks
      <4> DEFINE next == IF Cardinality(items) < walk.size THEN "finished" ELSE "asked"
      <4>1. /\ walk.page + 1 \in Nat
            /\ walk.seen \cup items \in SUBSET (LotIds \cup BidRow)
            /\ next \in {"finished", "asked"}
        BY <3>2, <3>3 DEF TypeOK, Walks
      <4>2. walk' = [walk EXCEPT !.seen = walk.seen \cup items, !.page = walk.page + 1,
                                 !.phase = next]
        BY <3>1
      <4> HIDE DEF next
      <4> QED
        BY <4>1, <4>2 DEF TypeOK, Walks
    <3>5. walk'.page > 0 /\ walk'.size > 0
      BY <3>1, <3>3 DEF TypeOK, Walks
    <3> QED
      BY <2>0, <2>3, <3>4, <3>5 DEF Select, TypeOK
  <2>4. CASE Write \/ Tick
    BY <2>0, <2>4, MaxTimeIsNat DEF Write, Tick, TypeOK, Times
  <2>5. CASE UNCHANGED vars
    BY <2>0, <2>5 DEF vars, TypeOK
  <2> QED
    BY <2>1, <2>2, <2>3, <2>4, <2>5 DEF Next
<1> QED
  BY <1>1, <1>2, TablesHold, PTL DEF Spec

\* The reader's record keeps its type, and a request that got past validPage
\* asks for a page and a size that exist.
THEOREM ReadingTyped == Spec => []TypeOK
  BY ReadingTypes, PTL

-----------------------------------------------------------------------------
\* What a page is.

\* The selected rows that sort before x.
AheadOf(x) == {y \in Selected : Before(y, x)}

LEMMA NextPage ==
  ASSUME NEW page \in Nat, page > 0, NEW size \in Nat
  PROVE  /\ Offset(page, size) \in Nat
         /\ Offset(page + 1, size) = Offset(page, size) + size
<1>1. \A n \in Nat \ {0}, m \in Nat : (n - 1) * m \in Nat /\ ((n + 1) - 1) * m = (n - 1) * m + m
  OBVIOUS
<1> QED
  BY <1>1 DEF Offset

\* A row that sorts behind the pages before this one and is not on it sorts
\* behind this page too, and the page is full: if no two rows compare equal.
LEMMA PageInOrder ==
  ASSUME IsFiniteSet(Selected), walk.page \in Nat, walk.page > 0, walk.size \in Nat,
         \A a, b \in Selected : ~Before(a, a) /\ (a # b => Before(a, b) \/ Before(b, a)),
         NEW items \in Pages, NEW x \in Selected \ items,
         Cardinality(AheadOf(x)) >= Offset(walk.page, walk.size)
  PROVE  /\ Cardinality(items) = walk.size
         /\ Cardinality(AheadOf(x)) >= Offset(walk.page + 1, walk.size)
<1> DEFINE S == Selected
           k == Offset(walk.page, walk.size)
           s == walk.size
           ahead == AheadOf(x)
<1>1. k \in Nat /\ s \in Nat /\ Offset(walk.page + 1, walk.size) = k + s
  BY NextPage
<1>2. PICK p \in Prefixes(k), q \in Prefixes(k + s) : p \subseteq q /\ items = q \ p
  BY DEF Pages
<1> HIDE DEF k, s
<1>3. /\ p \subseteq S /\ q \subseteq S
      /\ Cardinality(p) = IF k < Cardinality(S) THEN k ELSE Cardinality(S)
      /\ Cardinality(q) = IF k + s < Cardinality(S) THEN k + s ELSE Cardinality(S)
      /\ \A a \in p, b \in S \ p : ~Before(b, a)
      /\ \A a \in q, b \in S \ q : ~Before(b, a)
  BY <1>2 DEF Prefixes
<1>4. ahead \subseteq S /\ x \notin ahead
  BY DEF AheadOf
<1>5. IsFiniteSet(p) /\ IsFiniteSet(q) /\ IsFiniteSet(ahead)
  BY <1>3, <1>4, FS_Subset
<1>6. /\ Cardinality(S) \in Nat /\ Cardinality(p) \in Nat /\ Cardinality(q) \in Nat
      /\ Cardinality(ahead) \in Nat
  BY <1>5, FS_CardinalityType
<1>7. x \notin p
  <2> SUFFICES ASSUME x \in p PROVE FALSE
    OBVIOUS
  <2>1. ahead \cup {x} \subseteq p
    BY <1>3 DEF AheadOf
  <2>2. Cardinality(ahead \cup {x}) = Cardinality(ahead) + 1
    BY <1>4, <1>5, FS_AddElement
  <2>3. Cardinality(ahead \cup {x}) <= Cardinality(p)
    BY <1>5, <2>1, FS_Subset
  <2> QED
    BY <1>1, <1>3, <1>6, <2>2, <2>3 DEF k
<1>8. x \notin q
  BY <1>2, <1>7
<1>9. q \subseteq ahead
  BY <1>3, <1>8 DEF AheadOf
<1>10. Cardinality(q) = k + s /\ Cardinality(p) = k
  <2>1. Cardinality(q) <= Cardinality(S) /\ Cardinality(q) # Cardinality(S)
    BY <1>3, <1>8, FS_Subset
  <2> QED
    BY <1>1, <1>3, <1>6, <2>1
<1>11. Cardinality(q \ p) = s
  <2>1. q \cap p = p
    BY <1>2
  <2>2. Cardinality(q \ p) = Cardinality(q) - Cardinality(q \cap p)
    BY <1>5, FS_Difference
  <2>3. Cardinality(q \cap p) = k
    BY <1>10, <2>1
  <2> HIDE DEF S
  <2> QED
    BY <1>1, <1>10, <2>2, <2>3
<1>12. Cardinality(q) <= Cardinality(ahead)
  BY <1>5, <1>9, FS_Subset
<1>13. Cardinality(items) = s /\ Cardinality(ahead) >= k + s
  BY <1>2, <1>10, <1>11, <1>12
<1> QED
  BY <1>1, <1>13 DEF s

\* What Select does to the walk.
LEMMA SelectTurnsThePage ==
  ASSUME TypeOK, Select
  PROVE  /\ walk.page \in Nat /\ walk.page > 0 /\ walk.size \in Nat /\ walk.size > 0
         /\ \E items \in Pages :
              /\ walk'.of = walk.of /\ walk'.page = walk.page + 1 /\ walk'.size = walk.size
              /\ walk'.seen = walk.seen \cup items
              /\ walk'.phase \in {"asked", "finished"}
              /\ walk'.phase = "finished" <=> Cardinality(items) < walk.size
<1>1. walk \in Walks
  BY DEF TypeOK
<1>2. walk.page \in Nat /\ walk.page > 0 /\ walk.size \in Nat /\ walk.size > 0
  BY <1>1, SizesFit DEF Select, TypeOK, Walks
<1>3. PICK items \in Pages :
        walk' = [walk EXCEPT
                   !.seen = @ \cup items, !.page = @ + 1,
                   !.phase = IF Cardinality(items) < walk.size THEN "finished" ELSE "asked"]
  BY DEF Select
<1>4. /\ walk'.of = walk.of /\ walk'.page = walk.page + 1 /\ walk'.size = walk.size
      /\ walk'.seen = walk.seen \cup items
      /\ walk'.phase = IF Cardinality(items) < walk.size THEN "finished" ELSE "asked"
  BY <1>1, <1>3 DEF Walks
<1> QED
  BY <1>2, <1>4

-----------------------------------------------------------------------------
\* The order of a history.

Newer(x, y) ==
  \/ x.createdAt > y.createdAt
  \/ x.createdAt = y.createdAt /\ x.amount > y.amount

Ahead(S, x) == {y \in S : Newer(y, x)}

\* The bids of a lot are totally ordered: no two have the same amount.
LEMMA HistoryOrder ==
  ASSUME AuctionInv, NEW l, NEW x \in BidsOn(bids, l), NEW y \in BidsOn(bids, l)
  PROVE  /\ ~Newer(x, x)
         /\ x # y => Newer(x, y) \/ Newer(y, x)
<1>1. x \in BidRow /\ y \in BidRow /\ x \in bids /\ y \in bids /\ x.lot = y.lot
  <2>1. bids \subseteq BidRow
    BY DEF AuctionInv, AuctionTypeOK
  <2> QED
    BY <2>1 DEF BidsOn
<1>2. /\ x.createdAt \in Int /\ y.createdAt \in Int
      /\ x.amount \in Int /\ y.amount \in Int
  <2>1. Amounts \subseteq Int
    BY PricesAreInts DEF Amounts
  <2>2. Times \subseteq Int
    BY DEF Times
  <2> QED
    BY <1>1, <2>1, <2>2 DEF BidRow
<1>3. x # y => x.amount # y.amount
  BY <1>1 DEF AuctionInv, Consistent, OneWinnerPerAmount
<1>4. ~Newer(x, x)
  BY <1>2 DEF Newer
<1>5. ASSUME x # y PROVE Newer(x, y) \/ Newer(y, x)
  BY <1>2, <1>3, <1>5 DEF Newer
<1> QED
  BY <1>4, <1>5

-----------------------------------------------------------------------------
\* The walk through a history.

\* What a walk still owes sorts behind all the pages it has fetched: later
\* bids only push it further back.
WalkInv ==
  walk.of # Nil =>
    /\ walk.phase \in {"asked", "counted", "finished"}
    /\ owed \subseteq BidsOn(bids, walk.of)
    /\ \A x \in owed \ walk.seen :
         /\ walk.phase # "finished"
         /\ Cardinality(Ahead(BidsOn(bids, walk.of), x)) >= Offset(walk.page, walk.size)

LEMMA BidsStay == ASSUME [AuctionNext]_auctionVars PROVE bids \subseteq bids'
<1>1. CASE AuctionNext
  <2>1. \/ bids' = bids
        \/ \E bid : PlaceBid(bid)
    BY <1>1 DEF AuctionNext, CreateLot, EditLot, RemoveLot
  <2> QED
    BY <2>1 DEF PlaceBid
<1> QED
  BY <1>1 DEF auctionVars

LEMMA WalkHolds == Spec => []WalkInv
<1>1. Init => WalkInv
  BY DEF Init, WalkInv
<1>2. AuctionInv /\ AuctionInv' /\ TypeOK /\ WalkInv /\ [Next]_vars => WalkInv'
  <2> SUFFICES ASSUME AuctionInv, AuctionInv', TypeOK, WalkInv, [Next]_vars PROVE WalkInv'
    OBVIOUS
  <2>0. walk \in Walks
    BY DEF TypeOK
  <2>1. ASSUME NEW of \in LotIds \cup {Nil}, NEW page \in FirstPages, NEW size \in PageSizes,
               Ask(of, page, size)
        PROVE  WalkInv'
    <3>1. walk.of = Nil
      BY <2>0, <2>1 DEF Ask, WalkInv
    <3>2. CASE ValidPage(page, size)
      <4> DEFINE first == IF page = 0 THEN 1 ELSE page
                 each == IF size = 0 THEN DefaultPageSize ELSE size
      <4>1. first = 1 /\ each \in Nat
        BY <3>2, WalksBeginInFront, SizesFit DEF ValidPage
      <4>2. walk' = [walk EXCEPT !.phase = "asked", !.of = of, !.page = first, !.size = each]
        BY <2>1, <3>2 DEF Ask
      <4>3. walk'.phase = "asked" /\ walk'.of = of /\ walk'.page = first /\ walk'.size = each
        BY <2>0, <4>2 DEF Walks
      <4>4. Offset(first, each) = 0
        BY <4>1 DEF Offset
      <4>5. bids' = bids /\ (of # Nil => owed' = BidsOn(bids, of))
        BY <2>1 DEF Ask
      <4>6. \A x : Cardinality(Ahead(BidsOn(bids, of), x)) >= 0
        <5> SUFFICES ASSUME NEW x PROVE Cardinality(Ahead(BidsOn(bids, of), x)) >= 0
          OBVIOUS
        <5>1. Ahead(BidsOn(bids, of), x) \subseteq bids
          BY DEF Ahead, BidsOn
        <5> QED
          BY <5>1, FS_Subset, FS_CardinalityType DEF AuctionInv
      <4> HIDE DEF first, each
      <4> QED
        BY <4>3, <4>4, <4>5, <4>6 DEF WalkInv
    <3>3. CASE ~ValidPage(page, size)
      BY <2>0, <2>1, <3>1, <3>3 DEF Ask, WalkInv, Walks
    <3> QED
      BY <3>2, <3>3
  <2>2. CASE Count
    <3>1. /\ walk'.of = walk.of /\ walk'.page = walk.page /\ walk'.size = walk.size
          /\ walk'.seen = walk.seen /\ walk'.phase = "counted" /\ walk.phase = "asked"
          /\ bids' = bids /\ owed' = owed
      BY <2>0, <2>2 DEF Count, Walks
    <3> QED
      BY <3>1 DEF WalkInv
  <2>3. CASE Select
    <3> SUFFICES ASSUME walk.of # Nil PROVE WalkInv'
      BY <2>0, <2>3 DEF Select, WalkInv, Walks
    <3> DEFINE S == BidsOn(bids, walk.of)
    <3>1. Selected = S /\ IsFiniteSet(Selected)
      BY SelectedIsFinite DEF Selected
    <3>2. walk.page \in Nat /\ walk.page > 0 /\ walk.size \in Nat
      BY <2>3, SelectTurnsThePage
    <3>3. PICK items \in Pages :
            /\ walk'.of = walk.of /\ walk'.page = walk.page + 1 /\ walk'.size = walk.size
            /\ walk'.seen = walk.seen \cup items
            /\ walk'.phase \in {"asked", "finished"}
            /\ walk'.phase = "finished" <=> Cardinality(items) < walk.size
      BY <2>3, SelectTurnsThePage
    <3>4. bids' = bids /\ owed' = owed
      BY <2>3 DEF Select
    <3>5. \A a, b : Before(a, b) <=> Newer(a, b)
      BY DEF Before, Newer
    <3>6. \A a, b \in Selected : ~Before(a, a) /\ (a # b => Before(a, b) \/ Before(b, a))
      BY <3>1, <3>5, HistoryOrder
    <3>7. ASSUME NEW x \in owed \ walk'.seen
          PROVE  /\ Cardinality(items) = walk.size
                 /\ Cardinality(Ahead(S, x)) >= Offset(walk.page + 1, walk.size)
      <4>1. AheadOf(x) = Ahead(S, x)
        BY <3>1, <3>5 DEF AheadOf, Ahead
      <4>2. x \in Selected \ items /\ Cardinality(AheadOf(x)) >= Offset(walk.page, walk.size)
        BY <3>1, <3>3, <3>7, <4>1 DEF WalkInv
      <4>3. /\ Cardinality(items) = walk.size
            /\ Cardinality(AheadOf(x)) >= Offset(walk.page + 1, walk.size)
        BY <3>1, <3>2, <3>6, <4>2, PageInOrder
      <4> QED
        BY <4>1, <4>3
    <3>8. Cardinality(items) = walk.size => walk'.phase # "finished"
      BY <3>2, <3>3
    <3> QED
      BY <3>3, <3>4, <3>7, <3>8 DEF WalkInv
  <2>4. CASE Write \/ Tick
    <3> SUFFICES ASSUME walk.of # Nil PROVE WalkInv'
      BY <2>4 DEF Write, Tick, WalkInv
    <3>1. walk' = walk /\ owed' = owed
      BY <2>4 DEF Write, Tick, Observe
    <3>2. BidsOn(bids, walk.of) \subseteq BidsOn(bids', walk.of)
      BY StepsOfTheAuction, BidsStay DEF BidsOn
    <3>3. ASSUME NEW x
          PROVE  Cardinality(Ahead(BidsOn(bids, walk.of), x))
                   <= Cardinality(Ahead(BidsOn(bids', walk.of), x))
      <4>1. Ahead(BidsOn(bids, walk.of), x) \subseteq Ahead(BidsOn(bids', walk.of), x)
        BY <3>2 DEF Ahead
      <4>2. IsFiniteSet(Ahead(BidsOn(bids', walk.of), x))
        <5>1. Ahead(BidsOn(bids', walk.of), x) \subseteq bids'
          BY DEF Ahead, BidsOn
        <5> QED
          BY <5>1, FS_Subset DEF AuctionInv
      <4> QED
        BY <4>1, <4>2, FS_Subset
    <3>4. ASSUME NEW x \in owed \ walk.seen
          PROVE  Cardinality(Ahead(BidsOn(bids', walk.of), x)) >= Offset(walk.page, walk.size)
      <4>1. /\ Cardinality(Ahead(BidsOn(bids, walk.of), x)) \in Nat
            /\ Cardinality(Ahead(BidsOn(bids', walk.of), x)) \in Nat
        <5>1. /\ Ahead(BidsOn(bids, walk.of), x) \subseteq bids
              /\ Ahead(BidsOn(bids', walk.of), x) \subseteq bids'
          BY DEF Ahead, BidsOn
        <5> QED
          BY <5>1, FS_Subset, FS_CardinalityType DEF AuctionInv
      <4>2. Offset(walk.page, walk.size) \in Int
        BY <2>0, SizesFit DEF Offset, Walks
      <4> QED
        BY <3>3, <3>4, <4>1, <4>2 DEF WalkInv
    <3> QED
      BY <3>1, <3>2, <3>4 DEF WalkInv
  <2>5. CASE UNCHANGED vars
    BY <2>5 DEF vars, WalkInv
  <2> QED
    BY <2>1, <2>2, <2>3, <2>4, <2>5 DEF Next
<1> QED
  BY <1>1, <1>2, TablesHold, ReadingTypes, PTL DEF Spec

\* No bid that was in a lot's history when a reader asked for the first page is
\* overlooked by his walk, whatever the page size and however many bids come
\* in between his requests or between the two statements of one.
THEOREM HistoryIsComplete == Spec => []HistoryWalkIsComplete
<1>1. WalkInv => HistoryWalkIsComplete
  BY DEF WalkInv, HistoryWalkIsComplete
<1> QED
  BY <1>1, WalkHolds, PTL

-----------------------------------------------------------------------------
\* What a page of the listing is.

\* The lots of S that close before x.
Sooner(S, table, x) == {y \in S : table[y].endsAt < table[x].endsAt}

\* No two lots close at the same time.
Untied(S, table) == \A x, y \in S : x # y => table[x].endsAt # table[y].endsAt

\* How far a lot sorts down its listing: no two lots sort as far, so no more
\* than m of them sort between the places k and k + m.
LEMMA PlacesDiffer ==
  ASSUME NEW S, IsFiniteSet(S), NEW table, \A x \in S : table[x].endsAt \in Int,
         Untied(S, table), NEW k \in Nat, NEW m \in Nat
  PROVE  Cardinality({x \in S : /\ Cardinality(Sooner(S, table, x)) >= k
                                /\ Cardinality(Sooner(S, table, x)) < k + m}) <= m
<1> DEFINE place(x) == Cardinality(Sooner(S, table, x))
           W == {x \in S : place(x) >= k /\ place(x) < k + m}
           T == k .. (k + m - 1)
           f == [x \in W |-> place(x)]
<1>1. \A x \in S : /\ IsFiniteSet(Sooner(S, table, x))
                   /\ place(x) \in Nat
  BY FS_Subset, FS_CardinalityType DEF Sooner
<1>2. ASSUME NEW x \in S, NEW y \in S, table[x].endsAt < table[y].endsAt
      PROVE  place(x) # place(y)
  <2>1. Sooner(S, table, x) \cup {x} \subseteq Sooner(S, table, y)
    BY <1>2 DEF Sooner
  <2>2. x \notin Sooner(S, table, x)
    BY DEF Sooner
  <2>3. Cardinality(Sooner(S, table, x) \cup {x}) = place(x) + 1
    BY <1>1, <2>2, FS_AddElement
  <2>4. place(x) + 1 <= place(y)
    BY <1>1, <2>1, <2>3, FS_Subset
  <2> QED
    BY <1>1, <2>4
<1>3. \A x, y \in S : x # y => place(x) # place(y)
  <2> SUFFICES ASSUME NEW x \in S, NEW y \in S, x # y PROVE place(x) # place(y)
    OBVIOUS
  <2>1. table[x].endsAt < table[y].endsAt \/ table[y].endsAt < table[x].endsAt
    BY DEF Untied
  <2> QED
    BY <1>2, <2>1
<1>4. IsFiniteSet(W) /\ IsFiniteSet(T) /\ Cardinality(W) \in Nat
  <2>1. IsFiniteSet(W)
    BY FS_Subset
  <2>2. IsFiniteSet(T)
    BY FS_Interval
  <2> QED
    BY <2>1, <2>2, FS_CardinalityType
<1>5. Cardinality(T) = m
  <2>1. k \in Int /\ k + m - 1 \in Int
    OBVIOUS
  <2>2. Cardinality(T) = IF k > k + m - 1 THEN 0 ELSE (k + m - 1) - k + 1
    BY <2>1, FS_Interval
  <2> QED
    BY <2>2
<1> HIDE DEF place
<1>6. f \in [W -> T]
  BY <1>1
<1>7. ~(Cardinality(T) < Cardinality(W))
  <2> SUFFICES ASSUME Cardinality(T) < Cardinality(W) PROVE FALSE
    OBVIOUS
  <2>1. \A g \in [W -> T] : \E x, y \in W : x # y /\ g[x] = g[y]
    BY <1>4, FS_PigeonHole
  <2>2. PICK x \in W, y \in W : x # y /\ f[x] = f[y]
    BY <1>6, <2>1
  <2> QED
    BY <1>3, <2>2
<1>8. Cardinality(W) <= m
  BY <1>4, <1>5, <1>7
<1> QED
  BY <1>8 DEF place

\* When the lots of M leave their places, another one moves up no further than
\* they are many, whatever comes into the listing.
LEMMA MovesUpByThose ==
  ASSUME NEW S, IsFiniteSet(S), NEW T, IsFiniteSet(T), NEW M \in SUBSET S,
         NEW table, NEW then,
         \A x \in S \ M : x \in T /\ then[x].endsAt = table[x].endsAt,
         NEW x \in S \ M
  PROVE  Cardinality(Sooner(S, table, x)) - Cardinality(M) <= Cardinality(Sooner(T, then, x))
<1> DEFINE ahead == Sooner(S, table, x)
           behind == Sooner(T, then, x)
<1>1. IsFiniteSet(ahead) /\ IsFiniteSet(behind) /\ IsFiniteSet(M) /\ IsFiniteSet(ahead \cap M)
  BY FS_Subset DEF Sooner
<1>2. ahead \ M \subseteq behind
  BY DEF Sooner
<1>3. Cardinality(ahead \ M) = Cardinality(ahead) - Cardinality(ahead \cap M)
  BY <1>1, FS_Difference
<1>4. Cardinality(ahead \cap M) <= Cardinality(M)
  BY <1>1, FS_Subset
<1>5. Cardinality(ahead \ M) <= Cardinality(behind)
  BY <1>1, <1>2, FS_Subset
<1>6. /\ Cardinality(ahead) \in Nat /\ Cardinality(behind) \in Nat /\ Cardinality(M) \in Nat
      /\ Cardinality(ahead \cap M) \in Nat
  BY <1>1, FS_CardinalityType
<1> QED
  BY <1>3, <1>4, <1>5, <1>6

-----------------------------------------------------------------------------
\* The walk through the listing.

\* What the walk owes and has behind it: no later page will show it.
Overlooked ==
  {x \in owed \ walk.seen :
     Cardinality(Sooner(Active(lots, now), lots, x)) < Offset(walk.page, walk.size)}

\* Every lot overlooked so far is paid for by one that went or moved.
ListInv ==
  /\ lost \in Nat
  /\ walk.of = Nil /\ walk.phase \in {"asked", "counted"} =>
       /\ owed \subseteq Active(lots, now)
       /\ ~tied => /\ Untied(Active(lots, now), lots)
                   /\ Cardinality(Overlooked) <= lost
  /\ MissesAreAccounted

LEMMA ActiveIsFinite ==
  ASSUME AuctionInv, NEW time \in Int
  PROVE  /\ IsFiniteSet(Active(lots, time))
         /\ \A x \in Active(lots, time) : x \in LotIds /\ lots[x].endsAt \in Int
<1>1. Active(lots, time) \subseteq LotIds
  BY DEF Active, Stored
<1>2. ASSUME NEW x \in Active(lots, time) PROVE lots[x].endsAt \in Int
  <2>1. lots[x] \in LotRow
    BY <1>2 DEF Active, Stored, AuctionInv, AuctionTypeOK
  <2> QED
    BY <2>1 DEF LotRow, Times
<1> QED
  BY <1>1, <1>2, LotIdsAreFinite, FS_Subset

\* A page fetched in order overlooks nothing new.
LEMMA SelectOverlooksNone ==
  ASSUME AuctionInv, TypeOK, ListInv, Select, walk.of = Nil
  PROVE  ListInv'
<1> DEFINE S == Active(lots, now)
<1>1. Selected = S /\ IsFiniteSet(Selected)
  BY SelectedIsFinite DEF Selected
<1>2. walk.page \in Nat /\ walk.page > 0 /\ walk.size \in Nat
  BY SelectTurnsThePage
<1>3. PICK items \in Pages :
        /\ walk'.of = walk.of /\ walk'.page = walk.page + 1 /\ walk'.size = walk.size
        /\ walk'.seen = walk.seen \cup items
        /\ walk'.phase \in {"asked", "finished"}
        /\ walk'.phase = "finished" <=> Cardinality(items) < walk.size
  BY SelectTurnsThePage
<1>4. lots' = lots /\ now' = now /\ owed' = owed /\ lost' = lost /\ tied' = tied
  BY DEF Select
<1>5. owed \subseteq S /\ lost \in Nat
  BY DEF ListInv, Select
<1> SUFFICES ASSUME ~tied
             PROVE  IF walk'.phase = "finished" THEN Cardinality(owed \ walk'.seen) <= lost
                    ELSE Cardinality(Overlooked') <= lost
  BY <1>3, <1>4, <1>5 DEF ListInv, MissesAreAccounted, Select
<1>6. Untied(S, lots) /\ Cardinality(Overlooked) <= lost
  BY DEF ListInv, Select
<1>7. \A a, b \in Selected : ~Before(a, a) /\ (a # b => Before(a, b) \/ Before(b, a))
  <2>1. \A a \in S : lots[a].endsAt \in Int
    BY ActiveIsFinite DEF TypeOK, Times
  <2> QED
    BY <1>1, <1>6, <2>1 DEF Before, Untied
<1>8. ASSUME NEW x \in owed \ walk'.seen,
             Cardinality(Sooner(S, lots, x)) >= Offset(walk.page, walk.size)
      PROVE  /\ Cardinality(items) = walk.size
             /\ Cardinality(Sooner(S, lots, x)) >= Offset(walk.page + 1, walk.size)
  <2>1. AheadOf(x) = Sooner(S, lots, x)
    BY <1>1 DEF AheadOf, Sooner, Before
  <2>2. x \in Selected \ items
    BY <1>1, <1>3, <1>5, <1>8
  <2>3. /\ Cardinality(items) = walk.size
        /\ Cardinality(AheadOf(x)) >= Offset(walk.page + 1, walk.size)
    BY <1>1, <1>2, <1>7, <1>8, <2>1, <2>2, PageInOrder
  <2> QED
    BY <2>1, <2>3
<1>9. Offset(walk.page, walk.size) \in Nat /\ Offset(walk.page + 1, walk.size) \in Nat
  <2>1. /\ Offset(walk.page, walk.size) \in Nat
        /\ Offset(walk.page + 1, walk.size) = Offset(walk.page, walk.size) + walk.size
    BY <1>2, NextPage
  <2> QED
    BY <1>2, <2>1
<1>10. \A x \in owed : Cardinality(Sooner(S, lots, x)) \in Nat
  BY <1>1, FS_Subset, FS_CardinalityType DEF Sooner
<1>11. IsFiniteSet(Overlooked)
  BY <1>1, <1>5, FS_Subset DEF Overlooked
<1>12. CASE walk'.phase = "finished"
  <2>1. Cardinality(items) # walk.size
    BY <1>2, <1>3, <1>12
  <2>2. owed \ walk'.seen \subseteq Overlooked
    BY <1>3, <1>8, <1>9, <1>10, <2>1 DEF Overlooked
  <2>3. Cardinality(owed \ walk'.seen) <= Cardinality(Overlooked)
    BY <1>11, <2>2, FS_Subset
  <2>4. Cardinality(owed \ walk'.seen) \in Nat /\ Cardinality(Overlooked) \in Nat
    BY <1>11, <2>2, FS_Subset, FS_CardinalityType
  <2> QED
    BY <1>5, <1>6, <1>12, <2>3, <2>4
<1>13. CASE walk'.phase = "asked"
  <2>1. Overlooked' \subseteq Overlooked
    BY <1>3, <1>4, <1>8, <1>9, <1>10 DEF Overlooked
  <2>2. Cardinality(Overlooked') <= Cardinality(Overlooked)
    BY <1>11, <2>1, FS_Subset
  <2>3. Cardinality(Overlooked') \in Nat /\ Cardinality(Overlooked) \in Nat
    BY <1>11, <2>1, FS_Subset, FS_CardinalityType
  <2> QED
    BY <1>5, <1>6, <1>13, <2>2, <2>3
<1> QED
  BY <1>3, <1>12, <1>13

\* A lot that leaves its place makes the walk overlook no more than one other.
LEMMA WritesArePaidFor ==
  ASSUME AuctionInv, AuctionInv', TypeOK, TypeOK', ListInv, Observe, walk' = walk, walk.of = Nil,
         walk.phase \in {"asked", "counted"}
  PROVE  ListInv'
<1> DEFINE S == Active(lots, now)
           T == Active(lots', now')
           moved == {l \in S : l \notin T \/ lots'[l].endsAt # lots[l].endsAt}
           k == Offset(walk.page, walk.size)
           m == Cardinality(moved)
<1>1. /\ owed' = owed \ moved
      /\ lost' = lost + m
      /\ tied' = (tied \/ \E i, j \in T : i # j /\ lots'[i].endsAt = lots'[j].endsAt)
  BY DEF Observe
<1>2. now \in Int /\ now' \in Int
  BY DEF TypeOK, Times
<1>3. IsFiniteSet(S) /\ \A x \in S : lots[x].endsAt \in Int
  BY <1>2, ActiveIsFinite
<1>4. IsFiniteSet(T)
  <2>1. T \subseteq LotIds
    BY DEF Active, Stored
  <2> QED
    BY <2>1, LotIdsAreFinite, FS_Subset
<1>5. IsFiniteSet(moved) /\ m \in Nat
  BY <1>3, FS_Subset, FS_CardinalityType
<1>6. owed \subseteq S /\ lost \in Nat
  BY DEF ListInv
<1>7. owed' \subseteq T
  BY <1>1, <1>6
<1>8. k \in Nat
  BY NextPage, SizesFit DEF TypeOK, Walks
<1> HIDE DEF k
<1>9. ASSUME ~tied'
      PROVE  Untied(T, lots') /\ Cardinality(Overlooked') <= lost'
  <2>1. Untied(T, lots') /\ ~tied
    BY <1>1, <1>9 DEF Untied
  <2>2. Untied(S, lots) /\ Cardinality(Overlooked) <= lost
    BY <2>1 DEF ListInv
  <2> DEFINE W == {x \in S : /\ Cardinality(Sooner(S, lots, x)) >= k
                             /\ Cardinality(Sooner(S, lots, x)) < k + m}
  <2>3. Cardinality(W) <= m
    BY <1>3, <1>5, <1>8, <2>2, PlacesDiffer
  <2>4. IsFiniteSet(W) /\ IsFiniteSet(Overlooked)
    BY <1>3, <1>6, FS_Subset DEF Overlooked
  <2>5. Overlooked' \subseteq Overlooked \cup W
    <3> SUFFICES ASSUME NEW x \in Overlooked', x \notin Overlooked PROVE x \in W
      OBVIOUS
    <3>1. /\ x \in S \ moved /\ x \in owed \ walk.seen
          /\ Cardinality(Sooner(T, lots', x)) < k
      BY <1>1, <1>6 DEF Overlooked, k
    <3>2. Cardinality(Sooner(S, lots, x)) - m <= Cardinality(Sooner(T, lots', x))
      <4>1. \A y \in S \ moved : y \in T /\ lots'[y].endsAt = lots[y].endsAt
        OBVIOUS
      <4>2. moved \in SUBSET S
        OBVIOUS
      <4> HIDE DEF S, T, moved
      <4> QED
        BY <1>3, <1>4, <3>1, <4>1, <4>2, MovesUpByThose
    <3>3. /\ Cardinality(Sooner(S, lots, x)) \in Nat
          /\ Cardinality(Sooner(T, lots', x)) \in Nat
      BY <1>3, <1>4, FS_Subset, FS_CardinalityType DEF Sooner
    <3>4. ~(Cardinality(Sooner(S, lots, x)) < k)
      BY <3>1 DEF Overlooked, k
    <3> HIDE DEF S, T, m
    <3>5. /\ Cardinality(Sooner(S, lots, x)) >= k
          /\ Cardinality(Sooner(S, lots, x)) < k + m
      BY <1>5, <1>8, <3>1, <3>2, <3>3, <3>4
    <3> QED
      BY <3>1, <3>5
  <2> HIDE DEF W
  <2>6. /\ IsFiniteSet(Overlooked \cup W)
        /\ Cardinality(Overlooked \cup W)
             = Cardinality(Overlooked) + Cardinality(W) - Cardinality(Overlooked \cap W)
    BY <2>4, FS_Union
  <2>7. Cardinality(Overlooked') <= Cardinality(Overlooked \cup W)
    BY <2>5, <2>6, FS_Subset
  <2>8. /\ IsFiniteSet(Overlooked') /\ IsFiniteSet(Overlooked \cap W)
    BY <2>4, <2>5, <2>6, FS_Subset
  <2>9. /\ Cardinality(Overlooked') \in Nat /\ Cardinality(Overlooked \cap W) \in Nat
        /\ Cardinality(Overlooked) \in Nat /\ Cardinality(W) \in Nat
        /\ Cardinality(Overlooked \cup W) \in Nat
    BY <2>4, <2>6, <2>8, FS_CardinalityType
  <2> HIDE DEF m
  <2>10. Cardinality(Overlooked') <= lost + m
    BY <1>5, <1>6, <2>2, <2>3, <2>6, <2>7, <2>9
  <2> QED
    BY <1>1, <2>1, <2>10
<1>10. lost' \in Nat
  BY <1>1, <1>5, <1>6
<1> QED
  BY <1>7, <1>9, <1>10 DEF ListInv, MissesAreAccounted

LEMMA ListHolds == Spec => []ListInv
<1>1. Init => ListInv
  BY DEF Init, ListInv, MissesAreAccounted
<1>2. AuctionInv /\ AuctionInv' /\ TypeOK /\ TypeOK' /\ ListInv /\ [Next]_vars => ListInv'
  <2> SUFFICES ASSUME AuctionInv, AuctionInv', TypeOK, TypeOK', ListInv, [Next]_vars
               PROVE  ListInv'
    OBVIOUS
  <2>0. walk \in Walks
    BY DEF TypeOK
  <2>1. ASSUME NEW of \in LotIds \cup {Nil}, NEW page \in FirstPages, NEW size \in PageSizes,
               Ask(of, page, size)
        PROVE  ListInv'
    <3>1. lost' = lost /\ lost \in Nat /\ lots' = lots /\ now' = now
      BY <2>1 DEF Ask, ListInv
    <3>2. CASE ValidPage(page, size)
      <4> DEFINE first == IF page = 0 THEN 1 ELSE page
                 each == IF size = 0 THEN DefaultPageSize ELSE size
      <4>1. first = 1 /\ each \in Nat
        BY <3>2, WalksBeginInFront, SizesFit DEF ValidPage
      <4>2. walk' = [walk EXCEPT !.phase = "asked", !.of = of, !.page = first, !.size = each]
        BY <2>1, <3>2 DEF Ask
      <4>3. walk'.phase = "asked" /\ walk'.of = of /\ walk'.page = first /\ walk'.size = each
        BY <2>0, <4>2 DEF Walks
      <4>4. Offset(first, each) = 0
        BY <4>1 DEF Offset
      <4> HIDE DEF first, each
      <4>5. ASSUME of = Nil PROVE owed' = Active(lots, now)
        BY <2>1, <4>5 DEF Ask
      <4>6. ~tied' => Untied(Active(lots, now), lots)
        BY <2>1 DEF Ask, Untied
      <4>7. ASSUME of = Nil PROVE Cardinality(Overlooked') = 0
        <5>1. \A x : Cardinality(Sooner(Active(lots, now), lots, x)) \in Nat
          <6>1. IsFiniteSet(Active(lots, now))
            BY ActiveIsFinite DEF TypeOK, Times
          <6> QED
            BY <6>1, FS_Subset, FS_CardinalityType DEF Sooner
        <5>2. Overlooked' = {}
          BY <3>1, <4>3, <4>4, <5>1 DEF Overlooked
        <5> QED
          BY <5>2, FS_EmptySet
      <4> QED
        BY <3>1, <4>3, <4>5, <4>6, <4>7 DEF ListInv, MissesAreAccounted
    <3>3. CASE ~ValidPage(page, size)
      <4>1. walk'.phase = "refused"
        BY <2>0, <2>1, <3>3 DEF Ask, Walks
      <4> QED
        BY <3>1, <4>1 DEF ListInv, MissesAreAccounted
    <3> QED
      BY <3>2, <3>3
  <2>2. CASE Count
    <3>1. /\ walk'.of = walk.of /\ walk'.page = walk.page /\ walk'.size = walk.size
          /\ walk'.seen = walk.seen /\ walk'.phase = "counted" /\ walk.phase = "asked"
      BY <2>0, <2>2 DEF Count, Walks
    <3>2. lots' = lots /\ now' = now /\ owed' = owed /\ lost' = lost /\ tied' = tied
      BY <2>2 DEF Count
    <3> QED
      BY <3>1, <3>2 DEF ListInv, MissesAreAccounted, Overlooked
  <2>3. CASE Select
    <3>1. CASE walk.of = Nil
      BY <2>3, <3>1, SelectOverlooksNone
    <3>2. CASE walk.of # Nil
      <4>1. walk'.of = walk.of
        BY <2>3, SelectTurnsThePage
      <4>2. lost' = lost
        BY <2>3 DEF Select
      <4> QED
        BY <3>2, <4>1, <4>2 DEF ListInv, MissesAreAccounted
    <3> QED
      BY <3>1, <3>2
  <2>4. CASE Write \/ Tick
    <3>1. Observe /\ walk' = walk
      BY <2>4 DEF Write, Tick
    <3>2. CASE walk.of = Nil /\ walk.phase \in {"asked", "counted"}
      BY <3>1, <3>2, WritesArePaidFor
    <3>3. CASE ~(walk.of = Nil /\ walk.phase \in {"asked", "counted"})
      <4>1. owed' = owed /\ lost' = lost /\ tied' = tied
        BY <3>1, <3>3 DEF Observe
      <4> QED
        BY <3>1, <3>3, <4>1 DEF ListInv, MissesAreAccounted
    <3> QED
      BY <3>2, <3>3
  <2>5. CASE UNCHANGED vars
    BY <2>5 DEF vars, ListInv, MissesAreAccounted, Overlooked
  <2> QED
    BY <2>1, <2>2, <2>3, <2>4, <2>5 DEF Next
<1> QED
  BY <1>1, <1>2, TablesHold, ReadingTypes, PTL DEF Spec

\* A walk through the listing overlooks no more lots that were on offer all
\* along than others closed, were deleted or were moved meanwhile, if no two
\* close at the same time: whatever the page size and the number of lots, and
\* however the changes fall between the requests and between the statements.
THEOREM ListingMissesAreAccounted == Spec => []MissesAreAccounted
<1>1. ListInv => MissesAreAccounted
  BY DEF ListInv
<1> QED
  BY <1>1, ListHolds, PTL
=============================================================================
