--------------------------- MODULE MCAuditTrail ---------------------------
(* A small instance of AuditTrail: requests r1 and r2, loops l1 and l2. *)
EXTENDS AuditTrail

CONSTANTS r1, r2, l1, l2
=============================================================================
