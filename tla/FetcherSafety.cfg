SPECIFICATION WorkersSpec
CONSTANTS
  a1 = a1  a2 = a2  c1 = c1  c2 = c2
  NFTs = {a1, a2}
  Contracts = {c1, c2}
  ContractOf <- MCContractOf
  KindOf <- MCKindOf
  Workers = {w1, w2}
  NoWorker = NoWorker
  NoRow = NoRow
  NoBlock = NoBlock
  StartBlacklist = {c2}
  ClaimBatch = 2
  MaxRaises = 1
  MaxSilences = 0
  MaxAborts = 1
  MaxKills = 1
  MaxFaults = 1
  StopAllowed = TRUE
  MaxDiscoveries = 2
  erc721 = erc721  erc1155 = erc1155
  Topics = {erc721, erc1155}
  Transfers <- MCTransfers
  TopBlock = 4
  StopBlock = 1
  BlockBatchSize = 2
  ScanWindow = 2
  MaxOutages = 0
  MaxCrashes = 0
SYMMETRY WorkerSymmetry
INVARIANTS
  NothingVanishes
  NoLeakedClaim
  EnvKeepsListed
  OnlyRacesEscapeBlacklist
PROPERTIES
  YoungClaimsAreExclusive
