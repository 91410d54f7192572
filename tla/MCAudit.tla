------------------------------ MODULE MCAudit ------------------------------
(* Small instances of audit shipping. *)
EXTENDS AuditIngest
=============================================================================
