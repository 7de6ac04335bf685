CONSTANTS
  revert = revert
  abandonment = abandonment
  Debts = {revert, abandonment}
  Reverts = {revert}
  NoDebt = NoDebt
  Cap = 2
  MaxRestarts = 1
  MaxMisses = 1

SPECIFICATION FairSpec
INVARIANTS
  PenaltyTypeOK
  ChargesBounded
PROPERTIES
  DebtsResolved
