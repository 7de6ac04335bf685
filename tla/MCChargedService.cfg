CONSTANTS
  p1 = p1
  alice = alice
  o1 = o1
  Proposals = {p1}
  Signers = {alice}
  Owner <- MCOwner
  Auctions = {a1, a2}
  SolutionIds = {1}
  Tx = {a1, a2}
  NoTx = NoTx
  MaxTime = 2
  MaxLifetime = 1
  ExecutingTimeout = 0
  Retention = 0
  MaxCharges = 1
  Tracked = {}
  Orders = {o1}
  OrderOf <- MCOrderOf
  Duplicates = FALSE
  DbFaults = FALSE
  MaxCrashes = 1
  Cap = 1
  MaxMisses = 0

SYMMETRY Symmetry
SPECIFICATION ChargedSpec
INVARIANTS
  EscrowFollowsChain
PROPERTIES
  LoopImplemented
