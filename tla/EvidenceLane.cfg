SPECIFICATION EvidenceLaneFairSpec
CONSTANTS
  c1 = c1  c2 = c2  s1 = s1  s2 = s2
  more = more  fewer = fewer
  Candidates = {c1, c2}
  Seeds = {s1, s2}
  SeedLists = {more, fewer}
  RelationsOf <- MCRelationsOf
  Bounds = {p, q}
  Versions <- TwoVersions
  MaxDay = 2
  BatchSize = 2
  CrashPoints = {"between", "flush", "meta", "clear"}
  MaxCrashes = 1
  MaxErrors = 2
  MaxFailures = 1
  NoMeta = NoMeta
  NoBundle = NoBundle
  k1 = k1  k2 = k2  k3 = k3
  Callers = {k1, k2, k3}
  Identities <- MCIdentities
  CacheUsers = {k1, k2}
  Permits = 2
  MaxBurst = 2
  Refill = 2
  InitialTokens = 1
  CoolDown = 3
  MaxCoolDown = 5
  RetryHints = {0, 6}
  BusyBackoff = 2
  ErrorBackoff = 1
  Retries = 2
INVARIANTS
  AnalyzedWithinBounds
  AnalyzedPricesCurrent
  CheckpointComplete
  GrantsWithinRate
PROPERTIES
  CoolDownHonoured
  CallsEnd
