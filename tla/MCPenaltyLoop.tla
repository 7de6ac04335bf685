--------------------------- MODULE MCPenaltyLoop ---------------------------
(* A small instance of PenaltyLoop: one revert and one non-settlement. *)
EXTENDS PenaltyLoop

CONSTANTS revert, abandonment
=============================================================================
