SPECIFICATION CommandSpec
CONSTANTS
  p = p  q = q  img = img  shared = shared
  Candidates = {q}
  Uris = {shared}
  UriOf <- MCUriOf
  ImageWorkers = {w1}
  QueueCapacity = 1
  ReadyCapacity = 1
  MaxAttempts = 1
  NoJob = NoJob
  Items <- MCItems
  MaxRuns = 3
  MaxCrashes = 1
  MaxRecoveryCrashes = 1
  MaxFileErrors = 0
  NoFile = NoFile
INVARIANTS
  PublishedWhole
CHECK_DEADLOCK FALSE
