SPECIFICATION Spec
CONSTANTS
  owner = owner
  bob = bob
  l1 = l1
  l2 = l2
  Users = {owner, bob}
  LotIds = {l1, l2}
  Requests = {r1, r2, r3}
  Prices = {1, 2, 3}
  MaxTime = 3
  InitLots <- MCInitLots
  NoLot = NoLot
  Nil = Nil
  FirstPages <- MCFirstPages
  PageSizes <- MCPageSizes
  DefaultPageSize = 1
  MaxPageSize = 2
  MaxWrites = 3
SYMMETRY Symmetry
INVARIANTS
  TypeOK
  HistoryWalkIsComplete
  MissesAreAccounted
CHECK_DEADLOCK FALSE
