-------------------------- MODULE MCChargedService --------------------------
(* A small instance of ChargedService: one proposal in two auctions. *)
EXTENDS ChargedService, TLC

CONSTANTS p1, alice, o1

MCOwner   == [p \in Proposals |-> alice]
MCOrderOf == [p \in Proposals |-> o1]

\* Auctions differ by nothing but their names.
Symmetry == Permutations(Auctions)
=============================================================================
