--------------------------- MODULE MCMatchLedger ---------------------------
(***************************************************************************)
(* Instances of MatchLedger.                                               *)
(***************************************************************************)
EXTENDS MatchLedger

CONSTANTS i1, i2, e1, e2, r1, r2

\* A stage that records groups and one whose verdict may be REVIEW; FAST mode.
\* The other stages of FULL mode take steps of these two kinds.
MCStages == <<"group", "fuzzy">>
FastStages == <<"exact">>
MCTwo == 1 .. 2
MCResultIds == 1 .. 3
=============================================================================
