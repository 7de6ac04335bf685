-------------------------- MODULE MCProposalStore --------------------------
(* A small instance of ProposalStore: the store under arbitrary callers. *)
EXTENDS ProposalStore, TLC

CONSTANTS p1, p2, alice, bob

\* bob signs requests for proposals that are not his.
MCOwner  == [p \in Proposals |-> alice]
Symmetry == Permutations(Proposals)
=============================================================================
