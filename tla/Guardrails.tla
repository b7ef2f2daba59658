----------------------------- MODULE Guardrails -----------------------------
(***************************************************************************)
(* The validation of the domain agents' tool calls before a handler runs.  *)
(* An argument is a number, None (absent) or Malformed (not convertible to *)
(* a number).                                                              *)
(***************************************************************************)
EXTENDS Integers

CONSTANTS
  None,               \* an argument the call does not have
  Malformed,          \* an argument float() or int() refuses
  MaxRate,            \* GUARDRAIL_MAX_RATE_MBPS
  GuardrailsEnabled   \* the ablation switch

ASSUME ArgumentsAssumption == {None, Malformed} \cap Int = {}
ASSUME MaxRateAssumption == MaxRate \in Nat \ {0}
ASSUME SwitchAssumption == GuardrailsEnabled \in BOOLEAN

SliceTypes == {1, 2}
IsNumber(v) == v \notin {None, Malformed}

IsPositive(v) == IsNumber(v) /\ v > 0
IsRate(v) == IsPositive(v) /\ v <= MaxRate
IsOptionalRate(v) == v = None \/ IsRate(v)
NotBelow(mbr, gbr) == mbr = None \/ gbr = None \/ mbr >= gbr

\* An uplink MBR without its GBR is compared with nothing.
ValidConfigureQos(p) ==
  /\ p.sst \in SliceTypes
  /\ IsRate(p.gbr)
  /\ IsOptionalRate(p.mbr) /\ NotBelow(p.mbr, p.gbr)
  /\ IsOptionalRate(p.gbrUl)
  /\ IsOptionalRate(p.mbrUl) /\ NotBelow(p.mbrUl, p.gbrUl)
  /\ p.qi = None \/ (IsNumber(p.qi) /\ p.qi \in 1..86)

\* Only the enforced throughput is checked: the rates beside it are not.
ValidRecordPolicy(p) == p.sst \in SliceTypes /\ IsRate(p.enforced)

ValidAllocatePrb(p) == p.sst \in SliceTypes /\ IsRate(p.target)

\* check(): with the guardrails off a violation is only logged.
Refused(valid) == GuardrailsEnabled /\ ~valid
=============================================================================
