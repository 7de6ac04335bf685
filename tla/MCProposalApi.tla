--------------------------- MODULE MCProposalApi ---------------------------
(* A small instance of ProposalApi: two proposals that fill one order by two
   routes. *)
EXTENDS ProposalApi, TLC

CONSTANTS o1, r1, r2, b1, b2

MCBodyOf  == [p \in Proposals |-> IF p = 1 THEN b1 ELSE b2]
MCOrderOf == [b \in Bodies |-> o1]
MCRouteOf == [b \in Bodies |-> IF b = b1 THEN r1 ELSE r2]
=============================================================================
