SPECIFICATION FairSpec
CONSTANTS
  owner = owner
  ann = ann
  bob = bob
  cal = cal
  ghost = ghost
  l1 = l1
  NoLot = NoLot
  Nil = Nil
  Unwritten = Unwritten
  Users = {owner, ann, bob, cal, ghost}
  Registered = {owner, ann, bob, cal}
  LotIds = {l1, l2, l3}
  Requests = {r1, r2}
  Prices = {0, 1, 2, 3}
  MaxTime = 3
  InitLots <- MCInitLots
  Calls <- LiveCalls
  PoolSize = 1
  MaxFaults = 1
  MaxCrashes = 1
CHECK_DEADLOCK FALSE
INVARIANTS
  TypeOK
  OwnersAreRegistered
  NoOrphanBids
PROPERTIES EveryRequestEnds EveryLockIsReleased
