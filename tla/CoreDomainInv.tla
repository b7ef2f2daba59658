--------------------------- MODULE CoreDomainInv ---------------------------
(***************************************************************************)
(* The inductive invariant behind the safety of the CN-NSSMF: where each   *)
(* kind of directive may be, what its steps may rely on about the row of   *)
(* its intent, and what a remembered result says about it.                 *)
(***************************************************************************)
EXTENDS CoreDomain

\* Between two directives nothing is left of the last one.
AtRest == Idle => step = "idle" /\ call = Nothing /\ LoopInit

\* An apply may write the row and never takes it away; a revert releases it
\* with its last step; a read-only directive leaves it alone.
RowWhileServing ==
  ~Idle =>
    \/ /\ directive.tool = "apply" /\ step \in {"loop", "push", "persist"}
       /\ had => HasRow(Intent)
    \/ directive.tool = "report" /\ step = "loop" /\ HasRow(Intent) = had
    \/ /\ directive.tool = "revert" /\ step \in {"restore", "release"}
       /\ HasRow(Intent) = had
       /\ step = "release" => had

\* A call is under way exactly while its steps are.
CallUnderWay == step \in {"push", "persist"} => call \in Call

\* What the loop remembers as applied has its row, whatever came after it.
ResultsBacked ==
  /\ last = "applied" => ~Idle /\ directive.tool = "apply" /\ HasRow(Intent)
  /\ \A e \in seen : Deciding(e.call) =>
       /\ e.result # "ok"
       /\ e.result = "applied" => directive.tool = "apply" /\ HasRow(Intent)

\* The inductive invariant of the CN-NSSMF.
CoreInv == CoreTypeOK /\ AtRest /\ RowWhileServing /\ CallUnderWay /\ ResultsBacked

-----------------------------------------------------------------------------
\* With the shaper and the guardrails on, the rates too: a call carries rates
\* the UPF can take, the guarantee its directive asked for, and is recorded
\* only while the UPF holds its limit.

Covers(gbr, mbr) == gbr \in Int /\ mbr \in Int /\ gbr > 0 /\ mbr >= gbr
OnTarget(gbr) == directive.target # None => gbr = directive.target

CallRates ==
  step \in {"push", "persist"} => Covers(call.gbr, call.mbr) /\ OnTarget(call.gbr)
PersistHolds == step = "persist" => limit = call.mbr
ReleaseHolds == step = "release" => limit = RateInForce(Intents \ {Intent})
RowRates == \A i \in Intents : HasRow(i) => Covers(policies[i].gbr, policies[i].mbr)
ResultsOnTarget ==
  /\ last = "applied" => OnTarget(policies[Intent].gbr)
  /\ \A e \in seen : Deciding(e.call) /\ e.result = "applied" => OnTarget(policies[Intent].gbr)

\* Until a fault, the limit is a policy's except between a push and its record.
BackedUntilFault == faults = 0 /\ step \notin {"persist", "release"} => LimitBacked

EnforcingInv ==
  CallRates /\ PersistHolds /\ ReleaseHolds /\ RowRates /\ ResultsOnTarget
=============================================================================
