SPECIFICATION Spec
CONSTANTS
  Absent = Absent
  Nobody = Nobody
  NoTime = NoTime
  Clients = {c1, c2}
  Rps = 1
  Burst = 2
  Grain = 1
  TTL = 3
  Period = 1
  MaxStall = 1
  MaxTime = 5
SYMMETRY Symmetry
INVARIANTS
  TypeOK
  IdleAreForgotten
  Budget
PROPERTIES
  ImplementsTokenBuckets
