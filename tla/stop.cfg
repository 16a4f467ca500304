SPECIFICATION FairSpec
CONSTANTS
  c1 = c1
  c2 = c2
  c3 = c3
  Conns <- MCConns
  PoolSize = 1
  Drain = 2
  Grace = 3
INVARIANTS
  TypeOK
  CleanReturnServedAll
  NoTransactionIsCut
  ReadinessLeads
  BudgetIsGiven
PROPERTIES
  StopsByItself
CHECK_DEADLOCK FALSE
