SPECIFICATION Spec
CONSTANTS
  Workers = {w1, w2}
  Ids = {u1, u2}
  Addresses = {"ann"}
  Spellings = {"plain", "shouted", "bad"}
  Normal <- MCNormal
  Passwords = {"short", "first", "second", "beyond"}
  Bytes <- MCBytes
  Digest <- MCDigest
  Calls <- MCCalls
  TokenTTL = 3
  Grain = 2
  Nothing = Nothing
  MaxTime = 4
  MaxTokens = 2
  MaxFaults = 1
  MaxRestores = 1
SYMMETRY Symmetry
INVARIANTS
  TypeOK
  OneAccountPerAddress
  ProfileIsOwn
PROPERTIES
  LoginIsKept
  SessionsLast
CHECK_DEADLOCK FALSE
