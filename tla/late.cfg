SPECIFICATION Spec
CONSTANTS
  owner = owner
  ann = ann
  bob = bob
  cal = cal
  ghost = ghost
  l1 = l1
  NoLot = NoLot
  Nil = Nil
  Unwritten = Unwritten
  Users = {owner, ann, bob, cal, ghost}
  Registered = {owner, ann, bob, cal}
  LotIds = {l1}
  Requests = {r1, r2}
  Prices = {0, 1, 2, 3, 4}
  MaxTime = 3
  InitLots <- MCInitLots
  Calls <- ContestCalls
  PoolSize = 2
  MaxFaults = 0
  MaxCrashes = 0
PROPERTY NoBidAcceptedAfterClose
