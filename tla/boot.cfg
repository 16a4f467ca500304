SPECIFICATION FairSpec
CONSTANTS
  Servers = {app}
  Seeds = {seed1, seed2}
  Environments <- MCEnvironments
  Valid <- MCValid
  Atoi <- MCAtoi
  Bytes <- MCBytes
  VisitorBids = {60}
  Nobody = Nobody
  Other = Other
  MaxFaults = 1
  MaxRuns = 2
INVARIANTS
  TypeOK
  WorksOnlyMigrated
  OneRepairIsEnough
  SeededAtMostOnce
  CompleteIsWhole
PROPERTIES
  ServesInTheEnd
CHECK_DEADLOCK FALSE
