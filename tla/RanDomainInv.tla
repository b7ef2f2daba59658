---------------------------- MODULE RanDomainInv ----------------------------
(***************************************************************************)
(* The inductive invariants behind the safety of the RAN-NSSMF. RanInv is  *)
(* about the directive and the row of its intent; PushInv about what the   *)
(* gNB runs with; CapacityInv about the cell, and TableInForce about both, *)
(* when each slice has one intent.                                         *)
(***************************************************************************)
EXTENDS RanDomain

\* Between two directives nothing is left of the last one.
AtRest ==
  Idle => step = "idle" /\ call = Nothing /\ LoopInit /\ put = 0 /\ reply = "none"

\* An apply may write the row and never takes it away; a revert releases it
\* with its last step; a read-only directive leaves it alone.
RowWhileServing ==
  ~Idle =>
    \/ /\ directive.tool = "apply" /\ step \in {"loop", "push", "persist"}
       /\ had => HasRow(Intent)
    \/ directive.tool = "report" /\ step = "loop" /\ HasRow(Intent) = had
    \/ /\ directive.tool = "revert" /\ step \in {"restore", "release"}
       /\ HasRow(Intent) = had
       /\ step = "release" => had

\* A call is under way exactly while its steps are, and a request to the
\* slicer only where the agent pushes.
CallUnderWay ==
  /\ step \in {"push", "persist"} => call \in Call
  /\ Sent => step = "push" \/ (step = "restore" /\ HasRow(Intent))
  /\ Waiting => reply = "none"

\* What the loop remembers as granted has its row, whatever came after it.
Granted == {"applied", "degraded"}
ResultsBacked ==
  /\ last \in Granted => ~Idle /\ directive.tool = "apply" /\ HasRow(Intent)
  /\ \A e \in seen : e.result \in Granted => directive.tool = "apply" /\ HasRow(Intent)

\* The inductive invariant of the RAN-NSSMF.
RanInv ==
  /\ RanTypeOK /\ AtRest /\ RowWhileServing /\ CallUnderWay /\ ResultsBacked
  /\ SlicerKnowsTheGnb

-----------------------------------------------------------------------------
\* Unless a request was left behind, the slicer has the agent's request or
\* none; the gNB runs with what was pushed once the slicer has said so, and
\* until the agent has recorded it.

Wanted == IF step \in {"push", "persist"} THEN Pushed ELSE Remaining

OnlyOurs == (\A p \in PutIds : ~Free(p) => p = put) /\ lock \in {0, put}
PushInv ==
  IsReal /\ ~givenUp =>
    /\ OnlyOurs
    /\ Waiting => waiting[put] = Ratios(Wanted)
    /\ reply = "ok" \/ step \in {"persist", "release"} => gnb = Ratios(Wanted)

-----------------------------------------------------------------------------
\* With one intent in each slice a row is its slice's reservation. Admission
\* leaves room for every other row.

OnePerSlice == \A i, j \in Intents : SliceOf[i] = SliceOf[j] => i = j

RowsFit ==
  \A i \in Intents : HasRow(i) =>
    /\ rows[i].prb <= PrbTotal
    /\ \A j \in Intents \ {i} : HasRow(j) => rows[i].prb + rows[j].prb <= PrbTotal
GrantFits ==
  step \in {"push", "persist"} =>
    /\ call.prb <= PrbTotal
    /\ \A j \in Intents \ {Intent} : HasRow(j) => call.prb + rows[j].prb <= PrbTotal
CapacityInv == RowsFit /\ GrantFits

\* Until a fault, the gNB runs with the table except while a request is on its
\* way or on its way to the table.
TableInForce ==
  IsReal /\ faults = 0 =>
    /\ ~givenUp
    /\ step \notin {"persist", "release"} /\ ~Waiting /\ reply # "ok" =>
         gnb = Ratios(Reservations(Intents))
=============================================================================
