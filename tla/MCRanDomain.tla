---------------------------- MODULE MCRanDomain -----------------------------
(***************************************************************************)
(* The RAN-NSSMF for TLC: one intent in each slice. A throughput of 5 needs*)
(* three of the six PRBs, 7 needs four, 13 more than the cell has; the     *)
(* guardrail refuses what is above the maximum. Four PRBs and the two that *)
(* are left are 67 % and 34 % of the cell.                                 *)
(***************************************************************************)
EXTENDS RanDomainInv, TLC

CONSTANTS i1, i2
MCIntents == {i1, i2}
MCSliceOf == (i1 :> 1) @@ (i2 :> 2)
=============================================================================
