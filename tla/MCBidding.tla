------------------------------ MODULE MCBidding ------------------------------
(***************************************************************************)
(* Small instances of Bidding for TLC.  One lot, l1, is on offer from the  *)
(* start: it belongs to owner, costs 1 and closes at tick 2.               *)
(***************************************************************************)
EXTENDS Bidding, TLC

CONSTANTS owner, ann, bob, cal, ghost, l1

MCInitLots ==
  [l \in LotIds |-> IF l = l1 THEN NewLot(owner, 1, 2) ELSE NoLot]

Place(caller, l, price) ==
  [op |-> "place", caller |-> caller, lot |-> l, price |-> price, endsAt |-> Nil]

Create(caller, price, endsAt) ==
  [op |-> "create", caller |-> caller, lot |-> l1, price |-> price, endsAt |-> endsAt]

Edit(caller, price, endsAt) ==
  [op |-> "edit", caller |-> caller, lot |-> l1, price |-> price, endsAt |-> endsAt]

Delete(caller, l) ==
  [op |-> "delete", caller |-> caller, lot |-> l, price |-> Nil, endsAt |-> Nil]

\* Bids race each other, with equal amounts too, and the edits and deletes of
\* their lot; the owner's bid is turned away.
ContestCalls ==
  {Place(ann, l1, 2), Place(bob, l1, 2), Place(bob, l1, 3), Place(cal, l1, 4),
   Place(owner, l1, 3), Edit(owner, 2, 2), Edit(owner, Nil, 1), Delete(owner, l1)}

\* One call of each kind, for the runs with faults and crashes.
FaultCalls ==
  {Place(ann, l1, 2), Place(bob, l1, 3), Edit(owner, 2, Nil), Delete(owner, l1)}

\* ghost holds a token but no row of the users table, as after a restore of an
\* older backup.
LiveCalls ==
  FaultCalls \cup {Create(ann, 1, 2), Create(ghost, 1, 2), Create(bob, 0, 2),
                   Edit(owner, 0, Nil), Delete(bob, l1)}

\* Requests are alike, and so are the ids no lot has at the start.
Symmetry == Permutations(Requests) \cup Permutations(LotIds \ {l1})
=============================================================================
