CONSTANTS
  p1 = p1
  p2 = p2
  Proposals = {p1, p2}
  OrderChoices <- MCOrderChoices
  Pools <- MCPools
  Amounts = {3, 5, 7}
  Gases = {0, 1}
  GasPrices = {1, 128}
  TokenPrices = {0, 2, 3}
  MaxWord = 255
  MaxGas = 3
  GasBuffer = 1
  Ether = 2
  MinScore = 0
  FeeNumerator = 3
  FeeDenominator = 4

SPECIFICATION Spec
INVARIANTS
  BiddingTypeOK
  LimitKept
  SimulatedIsSettled
  BidPaysItsGas
  QuoteStands
PROPERTIES
  BestBid
CHECK_DEADLOCK FALSE
