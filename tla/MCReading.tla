------------------------------ MODULE MCReading ------------------------------
(***************************************************************************)
(* Reading for TLC: two lots on offer, which close one tick apart, and     *)
(* up to three bids.                                                       *)
(***************************************************************************)
EXTENDS Reading, TLC

CONSTANTS owner, bob, l1, l2

MCInitLots ==
  [l \in LotIds |-> NewLot(owner, 1, IF l = l1 THEN 1 ELSE 2)]

MCFirstPages == {-1, 0}
MCPageSizes == {0, 2, 3}

Symmetry == Permutations(Requests)
=============================================================================
