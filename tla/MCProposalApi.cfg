\* Two proposals, one account, one damaged row.
CONSTANTS
  o1 = o1
  r1 = r1
  r2 = r2
  b1 = b1
  b2 = b2
  Proposals = {1, 2}
  Accounts = {alice}
  Stranger = Stranger
  Bodies = {b1, b2}
  BodyOf <- MCBodyOf
  OrderOf <- MCOrderOf
  RouteOf <- MCRouteOf
  MaxDamage = 1

SPECIFICATION FairSpec
INVARIANTS
  ApiTypeOK
  ShownWhatWasSigned
  AnswersFinal
  EveryChangeTold
PROPERTIES
  DamageContained
