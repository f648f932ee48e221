SPECIFICATION AccessSpec
CONSTANTS
  None = None
  Users = {u1, u2}
  Registered = {u1}
  RoleSets <- MCRoleSets
  Slots = {s1, s2}
  Keys = {k1, k2}
  Configs <- MCConfigs
  SessionTtl = 1
  StateMaxAge = 1
  CacheTime = 2
  FetchTimeout = 1
  MaxTime = 2
  MaxAttempts = 2
  MaxFetches = 2
  MaxChanges = 1
SYMMETRY MCSymmetry
INVARIANTS OneLiveSession AccessIsBacked
CHECK_DEADLOCK FALSE
