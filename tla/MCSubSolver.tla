---------------------------- MODULE MCSubSolver ----------------------------
(* A small instance of SubSolver: three ids for one order. *)
EXTENDS SubSolver

CONSTANTS p1, p2, p3, o1

MCOrderOf == [p \in Proposals |-> o1]
=============================================================================
