------------------------------ MODULE MCAudit ------------------------------
(* Small instances of the audit log for TLC. *)
EXTENDS AuditLog, TLC

CONSTANTS r1, r2

Recorders == Permutations({r1, r2})
=============================================================================
