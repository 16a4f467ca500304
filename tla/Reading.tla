------------------------------- MODULE Reading -------------------------------
(***************************************************************************)
(* Clients that walk through the pages of GET /api/lots or of a lot's bid  *)
(* history, while the auction goes on: lots are offered, edited, deleted   *)
(* and closed by the clock, bids arrive.  The auction is the module        *)
(* Auction, which the service implements; the clock is the database's.     *)
(*                                                                         *)
(* A page is two statements, a count and a select, on two snapshots, and   *)
(* the next page is another request.  One reader is enough: readers change *)
(* nothing.  The search term is left out; a lot whose title stops matching *)
(* leaves the listing as a deleted one does.                               *)
(***************************************************************************)
EXTENDS Auction

CONSTANTS
  FirstPages, PageSizes,   \* what clients send to begin a walk, valid or not
  DefaultPageSize, MaxPageSize,
  MaxWrites                \* bound: changes of the tables

ASSUME WalksBeginInFront == \A p \in FirstPages : p \in Int /\ p <= 1
ASSUME SizesFit == /\ PageSizes \subseteq Int /\ MaxPageSize \in Nat
                   /\ DefaultPageSize \in 1 .. MaxPageSize
ASSUME LotIdsAreFinite == IsFiniteSet(LotIds) /\ Nil \notin LotIds

VARIABLES
  now,         \* the clock
  walk,        \* the reader: what he asks for and what he has got
  owed,        \* the rows that were there when he began, and stayed in place
  lost,        \* how many rows of the listing went or moved since he began
  tied,        \* whether two lots of the listing closed at once meanwhile
  writes

vars == <<lots, bids, now, walk, owed, lost, tied, writes>>

Walks == [phase: {"idle", "asked", "counted", "finished", "refused"},
          of: LotIds \cup {Nil},   \* the lot whose history it is, Nil for the listing
          page: Nat, size: 0 .. MaxPageSize, total: Nat, seen: SUBSET (LotIds \cup BidRow)]

TypeOK ==
  /\ AuctionTypeOK
  /\ now \in Times
  /\ walk \in Walks
  /\ walk.phase \in {"asked", "counted"} => walk.page > 0 /\ walk.size > 0

Init ==
  /\ AuctionInit
  /\ now = 0
  /\ walk = [phase |-> "idle", of |-> Nil, page |-> 0, size |-> 0, total |-> 0, seen |-> {}]
  /\ owed = {} /\ lost = 0 /\ tied = FALSE
  /\ writes = 0

-----------------------------------------------------------------------------
\* What the statements select.

\* WHERE ends_at > now(), at a given time.
Active(table, time) == {l \in Stored(table) : table[l].endsAt > time}

Selected == IF walk.of = Nil THEN Active(lots, now) ELSE BidsOn(bids, walk.of)

\* Mistake: ORDER BY created_at DESC alone.
BeforeByTime(x, y) ==
  IF walk.of = Nil THEN lots[x].endsAt < lots[y].endsAt
  ELSE x.createdAt > y.createdAt

\* ORDER BY ends_at, and ORDER BY created_at DESC, amount_minor DESC.
Before(x, y) ==
  IF walk.of = Nil THEN lots[x].endsAt < lots[y].endsAt
  ELSE \/ x.createdAt > y.createdAt
       \/ x.createdAt = y.createdAt /\ x.amount > y.amount

\* The first n rows, or all: rows that compare equal come in any order.
Prefixes(n) ==
  LET size == IF n < Cardinality(Selected) THEN n ELSE Cardinality(Selected) IN
  {p \in SUBSET Selected :
     /\ Cardinality(p) = size
     /\ \A x \in p, y \in Selected \ p : ~Before(y, x)}

\* Mistake: pages counted from zero.
OffsetFromZero(page, size) == page * size

Offset(page, size) == (page - 1) * size

\* LIMIT size OFFSET offset.
Pages ==
  {items \in SUBSET Selected :
     \E before \in Prefixes(Offset(walk.page, walk.size)),
        upTo \in Prefixes(Offset(walk.page, walk.size) + walk.size) :
          before \subseteq upTo /\ items = upTo \ before}

-----------------------------------------------------------------------------
\* The reader.

\* Mistake: no upper limit to pageSize.
ValidUnlimited(page, size) == page >= 0 /\ size >= 0

\* validPage; zero stands for an absent parameter.
ValidPage(page, size) == page >= 0 /\ size >= 0 /\ size <= MaxPageSize

\* A reader asks for his first page.
Ask(of, page, size) ==
  /\ walk.phase = "idle"
  /\ IF ValidPage(page, size)
     THEN walk' = [walk EXCEPT !.phase = "asked", !.of = of,
                               !.page = IF page = 0 THEN 1 ELSE page,
                               !.size = IF size = 0 THEN DefaultPageSize ELSE size]
     ELSE walk' = [walk EXCEPT !.phase = "refused"]
  /\ owed' = IF of = Nil THEN Active(lots, now) ELSE BidsOn(bids, of)
  /\ tied' = \E k, l \in Active(lots, now) : k # l /\ lots[k].endsAt = lots[l].endsAt
  /\ UNCHANGED <<lots, bids, now, lost, writes>>

\* countActiveLots or countBids.
Count ==
  /\ walk.phase = "asked"
  /\ walk' = [walk EXCEPT !.phase = "counted", !.total = Cardinality(Selected)]
  /\ UNCHANGED <<lots, bids, now, owed, lost, tied, writes>>

\* listActiveLots or listBids, and the answer.  The reader goes on to the next
\* page as long as pages come full.
Select ==
  /\ walk.phase = "counted"
  /\ \E items \in Pages :
       walk' = [walk EXCEPT
                  !.seen = @ \cup items,
                  !.page = @ + 1,
                  !.phase = IF Cardinality(items) < walk.size THEN "finished" ELSE "asked"]
  /\ UNCHANGED <<lots, bids, now, owed, lost, tied, writes>>

-----------------------------------------------------------------------------
\* The auction goes on.

\* What a step of the auction or of the clock does to the rows a walk through
\* the listing counts on.
Observe ==
  LET before == Active(lots, now)
      after == Active(lots', now')
      moved == {l \in before : l \notin after \/ lots'[l].endsAt # lots[l].endsAt}
  IN IF walk.phase \in {"asked", "counted"} /\ walk.of = Nil
     THEN /\ owed' = owed \ moved
          /\ lost' = lost + Cardinality(moved)
          /\ tied' = (tied \/ \E k, l \in after : k # l /\ lots'[k].endsAt = lots'[l].endsAt)
     ELSE UNCHANGED <<owed, lost, tied>>

\* A lot is created or edited with an end in the future; a bid is dated when its
\* transaction began, which may be a while ago.
Write ==
  /\ writes < MaxWrites
  /\ AuctionNext
  /\ \A l \in Stored(lots') :
       lots[l] = NoLot \/ lots'[l].endsAt # lots[l].endsAt => lots'[l].endsAt > now
  /\ \A b \in bids' \ bids : b.createdAt <= now
  /\ writes' = writes + 1
  /\ UNCHANGED <<now, walk>>
  /\ Observe

Tick ==
  /\ now < MaxTime
  /\ now' = now + 1
  /\ UNCHANGED <<lots, bids, walk, writes>>
  /\ Observe

Next ==
  \/ \E of \in LotIds \cup {Nil}, page \in FirstPages, size \in PageSizes : Ask(of, page, size)
  \/ Count
  \/ Select
  \/ Write
  \/ Tick

Spec == Init /\ [][Next]_vars

-----------------------------------------------------------------------------
\* Properties.

\* Whoever walks a history from its first page until a page is not full has
\* seen every bid that was there when he began, however many arrive meanwhile
\* and wherever they sort: bids are never removed, and amount_minor breaks the
\* ties of created_at (bids/storage.go:78-84).
HistoryWalkIsComplete ==
  walk.phase = "finished" /\ walk.of # Nil => owed \subseteq walk.seen

\* A walk through the listing overlooks a lot that was on offer all along only
\* because another one closed, was deleted or was moved meanwhile, and no more
\* lots than those; this takes that no two lots close at the same time, for
\* ends_at has no tie-breaker (lots/storage.go:130).
MissesAreAccounted ==
  walk.phase = "finished" /\ walk.of = Nil /\ ~tied
    => Cardinality(owed \ walk.seen) <= lost
=============================================================================
