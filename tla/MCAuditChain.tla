---------------------------- MODULE MCAuditChain ----------------------------
(***************************************************************************)
(* Instances of AuditChain.                                                *)
(***************************************************************************)
EXTENDS AuditChain

CONSTANTS c1, c2, s1, s2, a, b
=============================================================================
