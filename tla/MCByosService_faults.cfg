CONSTANTS
  p1 = p1
  p2 = p2
  alice = alice
  o1 = o1
  o2 = o2
  Proposals = {p1, p2}
  Signers = {alice}
  Owner <- MCOwner
  Auctions = {a1}
  SolutionIds = {1, 2}
  Tx = {a1}
  NoTx = NoTx
  MaxTime = 2
  MaxLifetime = 1
  ExecutingTimeout = 0
  Retention = 0
  MaxCharges = 1
  Tracked = {}
  Orders = {o1, o2}
  OrderOf <- TwoOrders
  Duplicates = TRUE
  DbFaults = TRUE
  MaxCrashes = 1

SYMMETRY Symmetry
SPECIFICATION Spec
INVARIANTS
  AttributionExact
  ExecutingWasWon
  MoneyFollowsChain
