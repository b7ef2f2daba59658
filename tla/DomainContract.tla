--------------------------- MODULE DomainContract ---------------------------
(***************************************************************************)
(* What the orchestrator relies on when it calls a domain agent: an agent  *)
(* takes one directive at a time and ends it with one of the outcomes of   *)
(* module Directives, the row of its intent as that outcome says and every *)
(* other row as it was. DomainAgents builds the callers' view on the same  *)
(* outcomes; CoreDomain and RanDomain are shown to keep this contract.     *)
(***************************************************************************)
EXTENDS Directives

CONSTANTS Intents, Domain, Nothing

VARIABLES
  held,      \* intents with an active row
  serving,   \* the directive being carried out
  reported   \* what the last directive came back with

contractVars == <<held, serving, reported>>

\* A read-only directive reports and leaves every row alone.
PromisedOutcomes(tool, had) ==
  IF tool = "report" THEN [status : {"ok", "error"}, row : {had}]
                     ELSE Outcomes(Domain, tool, had)

Init == held = {} /\ serving = Nothing /\ reported = "none"

Take(tool, i) ==
  /\ serving = Nothing
  /\ serving' = [tool |-> tool, intent |-> i]
  /\ reported' = "none"
  /\ UNCHANGED held

\* One directive ends.
Finish ==
  /\ serving # Nothing
  /\ \E out \in PromisedOutcomes(serving.tool, serving.intent \in held) :
       /\ held' = IF out.row THEN held \cup {serving.intent} ELSE held \ {serving.intent}
       /\ reported' = out.status
  /\ serving' = Nothing

Next == Finish \/ \E tool \in Tools \cup {"report"}, i \in Intents : Take(tool, i)

Spec == Init /\ [][Next]_contractVars
=============================================================================
