INIT AnalysisInit
NEXT AnalysisNext
CONSTANTS
  n1 = n1  n2 = n2  n3 = n3  n4 = n4  n5 = n5  n6 = n6  n7 = n7  n8 = n8  n9 = n9
  c1 = c1  c2 = c2  c3 = c3  c4 = c4  c5 = c5
  ethereum = ethereum  solana = solana  polygon = polygon
  Nfts = {n1, n2, n3, n4, n5, n6, n7, n8, n9}
  ContractOf <- MCContractOf
  ChainOf <- MCChainOf
  TokenNumber <- MCTokenNumber
  EvmChains = {ethereum, polygon}
  DocumentTerms <- MCDocumentTerms
  Inputs <- MCInputs
  NoNft = NoNft
  Absent = Absent
  Unusable = Unusable
  NoNames = NoNames
  Offline = Offline
  TargetChunks = 2
  Lanes = {w1, w2}
  Generations = 2
  Workers = {w1, w2}
  EvmContracts = {1, 2, 3}
  ContractsPerBatch = 2
  Jobs = {1, 2, 5}
  NoJob = 0
  QueueCapacity = 1
  MinCycleSize = 2
  LayeredPathAddresses = 4
  FanOut = 3
  ReportChains = {"ethereum", "solana"}
  ContractChain <- MCContractChain
  ResidentNfts <- MCResidentNfts
  BoundaryBlocks = 5
  KindOrders <- MCKindOrders
  Now = 99
SYMMETRY ThreadSymmetry
INVARIANTS
  SeedHitsExact
  GateSkipsOnlyLegit
  BehaviorsExact
  EconomicsAddUp
  ProjectionExact
  SummaryCountsOnce
  WrittenBeforeReported
CHECK_DEADLOCK FALSE
