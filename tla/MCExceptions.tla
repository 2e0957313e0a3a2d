--------------------------- MODULE MCExceptions -----------------------------
(***************************************************************************)
(* Instances of Exceptions.                                                *)
(***************************************************************************)
EXTENDS Exceptions

CONSTANTS k1, f1, s1, s2, p
=============================================================================
