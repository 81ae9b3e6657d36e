SPECIFICATION FairSpec
CONSTANTS
  a = a  b = b  t1 = t1  t2 = t2
  eth = eth  deployer = deployer  seller = seller  token = token
  s = s  u = u  v = v  w = w  x = x  y = y
  gs = gs  gnone = gnone  gw = gw  gy = gy  gother = gother
  n1 = n1  n2 = n2  n3 = n3  alone = alone  lone = lone  long = long  coin = coin  other = other  moved = moved
  s1 = s1  s2 = s2  s3 = s3  sol = sol
  Candidates = {a, b, s, u, v, w, x, y}
  EvmCandidates = {a, b}
  Jobs <- MCJobs
  Receipts = {t1, t2, s1, s2, s3}
  Singles = {eth, deployer, seller, token, sol}
  Native = eth
  TransferTxs <- MCTransferTxs
  MintTxs <- MCMintTxs
  SaleTxs <- MCSaleTxs
  Undated = {t1}
  TokenQuotes <- MCTokenQuotes
  Controlled <- MCControlled
  Active <- MCActive
  FlowTxs <- MCFlowTxs
  MaxShortfalls = 2
  Nfts = {n1, n2, n3, alone, lone, long, coin, other, moved}
  NonNfts = {coin, other}
  Collections = {gs, gnone, gw, gy, gother}
  Address <- MCAddress
  Resident <- MCResident
  NoGroup = NoGroup
  GroupOf <- MCGroupOf
  Listed <- MCListed
  History <- MCHistory
  SoldIn = {s1}
  Bare = {s3}
  Feeless = {}
  SolanaNative = sol
  PageSize = 3
  MaxAssets = 4
  MaxHistory = 3
  MaxSignatures = 3
INVARIANTS
  RequestedOnce
  FailuresForgotten
  CompleteMeansWhole
  SolanaCompleteMeansWhole
PROPERTIES
  EnrichmentEnds
CHECK_DEADLOCK FALSE
