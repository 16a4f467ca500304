SPECIFICATION Spec
CONSTANTS
  owner = owner
  ann = ann
  bob = bob
  cal = cal
  ghost = ghost
  l1 = l1
  NoLot = NoLot
  Nil = Nil
  Unwritten = Unwritten
  Users = {owner, ann, bob, cal}
  Registered = {owner, ann, bob, cal}
  LotIds = {l1}
  Requests = {r1, r2, r3}
  Prices = {0, 1, 2, 3, 4}
  MaxTime = 2
  InitLots <- MCInitLots
  Calls <- ContestCalls
  PoolSize = 3
  MaxFaults = 0
  MaxCrashes = 0
SYMMETRY Symmetry
INVARIANTS
  WritesAreUnderTheLock
  NotesAreTrue
  OneWinnerPerAmount
  PriceIsTop
  BidsFitTheTerms
PROPERTIES ImplementsAuction FrozenOnceBid
