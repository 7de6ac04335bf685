\* Two proposals of one sub-solver, one auction with one solution id.
CONSTANTS
  p1 = p1
  p2 = p2
  alice = alice
  bob = bob
  Proposals = {p1, p2}
  Signers = {alice, bob}
  Owner <- MCOwner
  Auctions = {1}
  SolutionIds = {1}
  Tx = {t1}
  NoTx = NoTx
  MaxTime = 1
  MaxLifetime = 1
  ExecutingTimeout = 0
  Retention = 0
  MaxCharges = 1
  DbFaults = FALSE
  Tracked = {"received", "submitted", "active", "rejected", "simFailed", "expired", "cancelled", "settled", "settleFailed", "penalized", "executing", "released", "nonSettlementDebited"}

SYMMETRY Symmetry
SPECIFICATION StoreSpec
INVARIANTS
  StoreTypeOK
  EvidenceColumns
  AttributionIntegrity
  TrailExplainsRow
PROPERTIES
  ImplementsLifecycle
