SPECIFICATION Spec
CONSTANTS
  Servers = {}
  Seeds = {seed1}
  Environments <- MCEnvironments
  Valid <- MCValid
  Atoi <- MCAtoi
  Bytes <- MCBytes
  VisitorBids = {60}
  Nobody = Nobody
  Other = Other
  MaxFaults = 1
  MaxRuns = 2
INVARIANT AppliedMeansSeeded
CHECK_DEADLOCK FALSE
