SPECIFICATION DedupSpec
CONSTANTS
  n1 = n1  n2 = n2  n3 = n3  n4 = n4  n5 = n5  n6 = n6
  c1 = c1  c2 = c2  c3 = c3  c4 = c4
  ethereum = ethereum  solana = solana  polygon = polygon
  Nfts = {n1, n2, n3, n4, n5, n6}
  ContractOf <- MCContractOf
  ChainOf <- MCChainOf
  TokenNumber <- MCTokenNumber
  SolanaChains = {solana}
  EvmChains = {ethereum}
  DocumentTerms <- MCDocumentTerms
  Inputs <- MCInputs
  NoNft = NoNft
  Absent = Absent
  Unusable = Unusable
  NoLimit = NoLimit
  NoChain = NoChain
  TargetChunks = 2
  UriTasks = 3
  Lanes = {w1, w2}
  Chunk = 2
  Generations = 2
SYMMETRY LaneSymmetry
INVARIANTS
  LoadedExactly
  DuplicatesExact
CHECK_DEADLOCK FALSE
