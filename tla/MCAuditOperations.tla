-------------------------- MODULE MCAuditOperations --------------------------
(***************************************************************************)
(* Instances of AuditOperations for TLC, whose constants are sets of model *)
(* values that the configurations give.                                    *)
(***************************************************************************)
EXTENDS AuditOperations

=============================================================================
