CONSTANTS
  revert = revert
  abandonment = abandonment
  Debts = {revert, abandonment}
  Reverts = {revert}
  NoDebt = NoDebt
  Cap = 2
  MaxRestarts = 0
  MaxMisses = 1

SPECIFICATION Spec
INVARIANTS
  ChargesWithinCap
