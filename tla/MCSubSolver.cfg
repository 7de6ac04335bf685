CONSTANTS
  p1 = p1
  p2 = p2
  p3 = p3
  o1 = o1
  Proposals = {p1, p2, p3}
  Orders = {o1}
  OrderOf <- MCOrderOf
  ProposalTtl = 2
  MaxLifetime = 2
  MaxRestarts = 1

SPECIFICATION FairSpec
INVARIANTS
  OneStanding
PROPERTIES
  OrdersServed
