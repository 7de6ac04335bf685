------------------------ MODULE MCValidatorPipeline ------------------------
(* A small instance of ValidatorPipeline: three proposals of one sub-solver   *)
(* for two orders that do not fit the cache together; two of them disagree    *)
(* with their order.                                                          *)
EXTENDS ValidatorPipeline

CONSTANTS p1, p2, p3, alice, o1, o2

MCSubSolverOf == [p \in Proposals |-> alice]
MCOrderOf     == [p \in Proposals |-> IF p = p2 THEN o2 ELSE o1]
MCEnvelope    == [p \in Proposals |-> IF p = p1 THEN "ok" ELSE "AmountMismatch"]
=============================================================================
