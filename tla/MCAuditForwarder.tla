-------------------------- MODULE MCAuditForwarder --------------------------
(***************************************************************************)
(* Instances of AuditForwarder for TLC.                                    *)
(***************************************************************************)
EXTENDS AuditForwarder, TLC

\* The last event names no organisation.
CONSTANTS v1, v2, v3, v4, v5

=============================================================================
