----------------------------- MODULE ReactLoop ------------------------------
(***************************************************************************)
(* The ReAct loop a domain agent runs for one directive: the model, which  *)
(* is external, asks for tool calls until it answers without one or the    *)
(* step limit is hit. What the loop keeps is the trace, of which only the  *)
(* last result of the directive's deciding tool is read afterwards, and the*)
(* cache of the calls already carried out, which answers an exact repeat.  *)
(***************************************************************************)
EXTENDS Naturals

CONSTANT MaxCalls   \* bound on calls: steps of the loop, and calls in a reply

ASSUME MaxCallsAssumption == MaxCalls \in Nat

VARIABLES
  seen,    \* results of the calls made so far, as pairs of call and result
  last,    \* result of the last deciding call of the trace, "none" without one
  calls    \* tool calls in the trace

loopVars == <<seen, last, calls>>

LoopInit == seen = {} /\ last = "none" /\ calls = 0
LoopReset == seen' = {} /\ last' = "none" /\ calls' = 0

MayCall == calls < MaxCalls
Repeated(c) == \E e \in seen : e.call = c
ResultOf(c) == (CHOOSE e \in seen : e.call = c).result

\* Call c came back with a result: it is remembered and goes into the trace.
Traced(c, result, deciding) ==
  /\ seen' = seen \cup {[call |-> c, result |-> result]}
  /\ calls' = calls + 1
  /\ last' = IF deciding THEN result ELSE last

\* Mutant: a repeat takes no step of the loop.
TracedFromCacheFree(c, deciding) ==
  /\ Repeated(c)
  /\ last' = IF deciding THEN ResultOf(c) ELSE last
  /\ UNCHANGED <<seen, calls>>

\* An exact repeat of a call is not carried out again.
TracedFromCache(c, deciding) == Repeated(c) /\ Traced(c, ResultOf(c), deciding)

\* Mutants: every tool is in scope; any deciding call counts as a success.
InScopeAlways(tool, allowed) == TRUE
DirectiveStatusOptimistic == IF last = "none" THEN "failed" ELSE "applied"

\* Least privilege: a call outside the directive's tools is refused.
InScope(tool, allowed) == tool \in allowed

\* The status of a directive, from what its deciding calls returned and not
\* from the model's words.
DirectiveStatus == IF last \in {"none", "failed"} THEN "failed" ELSE last
=============================================================================
