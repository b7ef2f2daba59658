-------------------------- MODULE DirectiveServer --------------------------
(***************************************************************************)
(* The skeleton the two domain agents share: directives come in over MCP   *)
(* and are carried out one at a time; an apply and a read-only directive   *)
(* run the ReAct loop, a revert does not; the equipment is changed before  *)
(* the table. What the calls do is each agent's own (CoreDomain,           *)
(* RanDomain).                                                             *)
(***************************************************************************)
EXTENDS ReactLoop

CONSTANTS
  Intents, Nothing,
  MaxDirectives,   \* bound on directives
  MaxFaults        \* bound on lost answers, database errors and crashes

ASSUME BoundsAssumption == MaxDirectives \in Nat /\ MaxFaults \in Nat

VARIABLES
  directive,   \* the directive being carried out, or Nothing
  had,         \* history: its intent had an active row when it came in
  step,        \* where the agent is in it
  call,        \* the configuring call under way, or Nothing
  answered,    \* what the last directive came back with
  taken,       \* directives received so far; serves as the time of insertion
  faults       \* faults so far

serverVars == <<directive, had, step, call, answered, taken, faults>>

Steps == {"idle", "loop", "push", "persist", "restore", "release"}
AllTools == {"apply", "revert", "report"}
Statuses == {"none", "applied", "degraded", "failed", "reverted", "noop", "error", "ok"}

ServerInit ==
  /\ directive = Nothing /\ had = FALSE /\ step = "idle" /\ call = Nothing
  /\ answered = "none" /\ taken = 0 /\ faults = 0
  /\ LoopInit

Fault == faults < MaxFaults /\ faults' = faults + 1

Idle == directive = Nothing
InLoop == step = "loop"
Intent == directive.intent

\* Directive d comes in.
Take(d, hasRow) ==
  /\ Idle /\ taken < MaxDirectives
  /\ directive' = d /\ had' = hasRow
  /\ step' = IF d.tool = "revert" THEN "restore" ELSE "loop"
  /\ taken' = taken + 1
  /\ answered' = "none"
  /\ UNCHANGED <<call, faults, loopVars>>

\* The directive ends, and its loop with it.
End(status) ==
  /\ answered' = status
  /\ directive' = Nothing /\ had' = FALSE /\ step' = "idle" /\ call' = Nothing
  /\ LoopReset

\* A call that is answered from the cache, or refused before its handler.
AnswerCall(c, deciding, refused) ==
  /\ InLoop /\ MayCall
  /\ \/ TracedFromCache(c, deciding)
     \/ refused /\ ~Repeated(c) /\ Traced(c, "failed", deciding)
  /\ UNCHANGED serverVars

\* The configuring call k is carried out, beginning with the equipment.
BeginCall(k) ==
  /\ InLoop /\ MayCall /\ ~Repeated(k.asked)
  /\ call' = k /\ step' = "push"
  /\ UNCHANGED <<directive, had, answered, taken, faults, loopVars>>

\* It is over; the model reads its result.
BackToLoop(result) ==
  /\ Traced(call.asked, result, TRUE)
  /\ step' = "loop" /\ call' = Nothing
  /\ UNCHANGED <<directive, had, answered, taken>>

\* The equipment has taken what was pushed.
Advance(next) ==
  /\ step' = next
  /\ UNCHANGED <<directive, had, call, answered, taken, faults, loopVars>>

\* A final answer, or the step limit.
FinalAnswer ==
  /\ InLoop
  /\ End(IF directive.tool = "apply" THEN DirectiveStatus ELSE "ok")
  /\ UNCHANGED <<taken, faults>>

\* The model's endpoint fails, or a call raises outside the dispatcher.
LoopRaises == InLoop /\ End("error") /\ UNCHANGED <<taken, faults>>

\* The agent's process dies in the middle of a directive, or the database
\* refuses its queries; the caller gets no status.
AgentDies == ~Idle /\ Fault /\ End("error") /\ UNCHANGED taken

\* The directive as its callers know it.
Serving == IF Idle THEN Nothing ELSE [tool |-> directive.tool, intent |-> directive.intent]
Ends == ~Idle /\ directive' = Nothing
=============================================================================
