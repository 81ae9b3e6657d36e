SPECIFICATION CollectorFairSpec
CONSTANTS
  a1 = a1  a2 = a2  c1 = c1  c2 = c2
  NFTs = {a1, a2}
  Contracts = {c1, c2}
  ContractOf <- MCContractOf
  KindOf <- MCKindOf
  Workers = {w1}
  NoWorker = NoWorker
  NoRow = NoRow
  NoBlock = NoBlock
  StartBlacklist = {c2}
  ClaimBatch = 2
  MaxRaises = 1
  MaxSilences = 1
  MaxAborts = 0
  MaxKills = 1
  MaxFaults = 2
  StopAllowed = TRUE
  MaxDiscoveries = 0
  erc721 = erc721  erc1155 = erc1155
  Topics = {erc721, erc1155}
  Transfers <- MCTransfers
  TopBlock = 4
  StopBlock = 1
  BlockBatchSize = 2
  ScanWindow = 2
  MaxOutages = 1
  MaxCrashes = 1
INVARIANTS
  CheckpointCoversScan
  EveryTransferAccounted
PROPERTIES
  CollectionFinishes
