CONSTANTS
  p1 = p1
  p2 = p2
  p3 = p3
  alice = alice
  o1 = o1
  o2 = o2
  Proposals = {p1, p2, p3}
  SubSolvers = {alice}
  SubSolverOf <- MCSubSolverOf
  Orders = {o1, o2}
  OrderOf <- MCOrderOf
  Envelope <- MCEnvelope
  Balances = {1, 2}
  GasPrices = {1, 4}
  MaxPrice = 3
  DefaultPrice = 0
  EscrowGas = 1
  MinCollateral = 1
  Surpluses = {2}
  MinScore = 1
  CacheCapacity = 1
  MaxConcurrent = 2

SPECIFICATION FairSpec
INVARIANTS
  EscrowJudgedInTick
PROPERTIES
  FaultsOnlyDefer
  DropsHaveCauses
  SubmissionsJudged
