---------------------------- MODULE MCCoreDomain ----------------------------
(***************************************************************************)
(* The CN-NSSMF for TLC. The rates 1 and 2 are valid, 3 is above the       *)
(* guardrail's maximum. The model may leave the GBR out, ask for another   *)
(* one than the directive's, for a larger MBR, for one below its GBR or for*)
(* more than a session can get; it may amend what it recorded, or what it  *)
(* did not.                                                                *)
(***************************************************************************)
EXTENDS CoreDomainInv, TLC

MCRecorded == [i \in Intents |-> 1]
MCTargets == {None, 2}
MCSettings ==
  {[gbr |-> None, mbr |-> None], [gbr |-> 1, mbr |-> None], [gbr |-> 1, mbr |-> 2],
   [gbr |-> 2, mbr |-> None], [gbr |-> 2, mbr |-> 1], [gbr |-> 2, mbr |-> 3],
   [gbr |-> Malformed, mbr |-> None]}
MCAmendments ==
  {[enforced |-> 1, gbr |-> None, mbr |-> 2], [enforced |-> None, gbr |-> None, mbr |-> None]}
=============================================================================
