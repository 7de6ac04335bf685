CONSTANTS
  p1 = p1
  p2 = p2
  alice = alice
  o1 = o1
  o2 = o2
  Proposals = {p1}
  Signers = {alice}
  Owner <- MCOwner
  Auctions = {a1, a2}
  SolutionIds = {1}
  Tx = {a1, a2}
  NoTx = NoTx
  MaxTime = 3
  MaxLifetime = 2
  ExecutingTimeout = 1
  Retention = 0
  MaxCharges = 2
  Tracked = {"reverted"}
  Orders = {o1}
  OrderOf <- OneOrder
  Duplicates = FALSE
  DbFaults = FALSE
  MaxCrashes = 0

SPECIFICATION FairSpec
INVARIANTS
  OneChargePerLoss
  RevertAccounted
PROPERTIES
  PlayEnds
  DroppedSwept
