SPECIFICATION SamplingFairSpec
CONSTANTS
  a1 = a1  a2 = a2  a3 = a3  b1 = b1  x1 = x1  x2 = x2
  A = A  B = B  X = X
  Candidates = {a1, b1, x1}
  Buckets = {A, B, X}
  PoolOf <- MCPoolOf
  BucketOf <- MCBucketOf
  Matches <- MCMatches
  Target = 2
  MaxOutstanding = 2
  MaxProbeRound = 1
  MaxStagnant = 1
  NoTask = NoTask
  l1 = l1  l2 = l2  l3 = l3  l4 = l4
  Lefts = {l1}
  PoolThreads = {t1}
  Batch = 1
  Partners <- MCPartners
  NoLeft = NoLeft
PROPERTIES
  SearchEnds
CHECK_DEADLOCK FALSE
