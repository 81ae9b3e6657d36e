SPECIFICATION CommandFairSpec
CONSTANTS
  p = p  q = q  img = img  shared = shared
  Candidates = {p, q}
  Uris = {img, shared}
  UriOf <- MCUriOf
  ImageWorkers = {w1, w2}
  QueueCapacity = 1
  ReadyCapacity = 1
  MaxAttempts = 2
  NoJob = NoJob
  Items <- MCItems
  MaxRuns = 2
  MaxCrashes = 1
  MaxRecoveryCrashes = 0
  MaxFileErrors = 1
  NoFile = NoFile
INVARIANTS
  OneJobPerUri
  PublishedWhole
PROPERTIES
  SessionIsSink
  EveryPairAnswered
  ClosingEnds
CHECK_DEADLOCK FALSE
