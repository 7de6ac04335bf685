--------------------------- MODULE MCByosService ---------------------------
(* Small instances of ByosService. *)
EXTENDS ByosService, TLC

CONSTANTS p1, p2, alice, o1, o2

\* One sub-solver; each proposal fills an order of its own, or both the same.
MCOwner    == [p \in Proposals |-> alice]
TwoOrders  == [p \in Proposals |-> IF p = p1 THEN o1 ELSE o2]
OneOrder   == [p \in Proposals |-> o1]

\* With one owner and orders all distinct or all equal, ids are interchangeable.
Symmetry == Permutations(Proposals)
=============================================================================
