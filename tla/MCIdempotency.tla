--------------------------- MODULE MCIdempotency ---------------------------
(* Small instances of the idempotency middleware for TLC. *)
EXTENDS Idempotency

CONSTANTS k1, k2, p1, p2
=============================================================================
