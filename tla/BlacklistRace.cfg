SPECIFICATION WorkersSpec
CONSTANTS
  a1 = a1  a2 = a2  c1 = c1  c2 = c2
  NFTs = {a1, a2}
  Contracts = {c1, c2}
  ContractOf <- MCContractOf
  KindOf <- MCKindOf
  Workers = {w1, w2}
  NoWorker = NoWorker
  NoRow = NoRow
  NoBlock = NoBlock
  StartBlacklist = {}
  ClaimBatch = 2
  MaxRaises = 0
  MaxSilences = 0
  MaxAborts = 0
  MaxKills = 0
  MaxFaults = 0
  StopAllowed = FALSE
  MaxDiscoveries = 2
  erc721 = erc721  erc1155 = erc1155
  Topics = {erc721, erc1155}
  Transfers <- MCTransfers
  TopBlock = 4
  StopBlock = 1
  BlockBatchSize = 2
  ScanWindow = 2
  MaxOutages = 0
  MaxCrashes = 0
INVARIANT
  MainHonoursBlacklist
