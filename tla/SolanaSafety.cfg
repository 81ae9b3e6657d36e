SPECIFICATION Spec
CONSTANTS
  m1 = m1  m2 = m2
  Mints = {m1, m2}
  LastPage = 2
  PageOf <- MCPageOf
  Workers = {w1, w2}
  NoWorker = NoWorker
  NoRow = NoRow
  SinceSettings = {0, 1}
  MaxSlot = 2
  MaxFaults = 1
  Usable = {m1, m2}
  ClaimBatch = 1
SYMMETRY WorkerSymmetry
INVARIANTS
  ChangesSeen
  AssetCoversSeen
