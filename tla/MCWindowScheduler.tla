------------------------- MODULE MCWindowScheduler --------------------------
(***************************************************************************)
(* The window scheduler for TLC, with the invariant its proofs rest on. No *)
(* symmetry: the run checks liveness and a refinement.                     *)
(***************************************************************************)
EXTENDS WindowSchedulerInv
=============================================================================
