---------------------------- MODULE Orchestrator ----------------------------
(***************************************************************************)
(* The whole orchestrator: the threads of its HTTP server, one for each    *)
(* POST /intent or POST /event being handled, next to the window scheduler.*)
(* They share the intents table and call the same two domain agents.       *)
(*                                                                         *)
(* A request runs the orchestrator's LLM in a ReAct loop and then settles  *)
(* the intent from the trace. The LLM is external: it may make any         *)
(* sequence of tool calls its Habits allow, each of them carried out by    *)
(* the code as written. It is assumed to act on one intent only, the one   *)
(* record_intent gave it or the event names.                               *)
(***************************************************************************)
EXTENDS WindowScheduler

CONSTANTS
  Requests,    \* threads of the HTTP server, each handles one request
  Habits       \* what models and operators do beyond the straight path

\* "early"      the model writes a status before all its directives are back
\* "claims"     the model writes a status without having called any domain
\* "gives up"   the status it writes may be 'failed' or 'reverted'
\* "impatient"  it calls apply tools for an intent it was told is scheduled
\* "varies"     it calls an apply tool again with other arguments
\* "reverts"    it calls the revert tools, which it is offered
\* "slow"       the window of an intent opens or closes while a request is
\*              still working on it
\* "repeats"    the operator repeats a request within two minutes
\* "events"     the monitor reports predicted exhaustion of intents in force
\* "raises"     a request ends with an exception (the LLM endpoint is down)
\* "restarts"   the orchestrator's process is killed and started again
ASSUME HabitsAssumption ==
  Habits \subseteq {"early", "claims", "gives up", "impatient", "varies", "reverts",
             "slow", "repeats", "events", "raises", "restarts"}
ASSUME RequestsAssumption == Requests \subseteq Callers \ {Scheduler}

VARIABLES
  at,          \* where each request is
  mine,        \* the intent it works on
  ask,         \* the call it waits for: a tool of a domain
  called,      \* domains its trace has an apply call for
  worst,       \* the worst of the apply results in its trace
  updated      \* its trace has a call of update_intent_status

requestVars == <<at, mine, ask, called, worst, updated>>
allVars == <<vars, requestVars>>

Steps == {"idle", "intent", "event", "net", "settle", "revertCn", "revertRan", "done"}
NoAsk == [domain |-> "none", tool |-> "none"]
Asks == [domain : Domains, tool : Tools] \cup {NoAsk}

OrchestratorTypeOK ==
  /\ TypeOK
  /\ at \in [Requests -> Steps]
  /\ mine \in [Requests -> Intents \cup {NoIntent}]
  /\ \A r \in Requests : mine[r] = NoIntent => at[r] \in {"idle", "intent", "done"}
  /\ ask \in [Requests -> Asks]
  /\ called \in [Requests -> SUBSET Domains]
  /\ worst \in [Requests -> {"applied", "degraded", "failed"}]
  /\ updated \in [Requests -> BOOLEAN]

OrchestratorInit ==
  /\ AgentsInit /\ SchedulerInit
  /\ window = [i \in Intents |-> "none"]
  /\ status = [i \in Intents |-> "absent"]
  /\ active = [d \in Domains |-> [i \in Intents |-> FALSE]]
  /\ at = [r \in Requests |-> "idle"]
  /\ mine = [r \in Requests |-> NoIntent]
  /\ ask = [r \in Requests |-> NoAsk]
  /\ called = [r \in Requests |-> {}]
  /\ worst = [r \in Requests |-> "applied"]
  /\ updated = [r \in Requests |-> FALSE]

\* A request is still working on intent i.
BeingHandled(i) == \E r \in Requests : mine[r] = i

Goto(r, step) == at' = [at EXCEPT ![r] = step]

\* The thread is over and its trace with it.
End(T) ==
  /\ at' = [r \in Requests |-> IF r \in T THEN "done" ELSE at[r]]
  /\ mine' = [r \in Requests |-> IF r \in T THEN NoIntent ELSE mine[r]]
  /\ ask' = [r \in Requests |-> IF r \in T THEN NoAsk ELSE ask[r]]
  /\ called' = [r \in Requests |-> IF r \in T THEN {} ELSE called[r]]
  /\ worst' = [r \in Requests |-> IF r \in T THEN "applied" ELSE worst[r]]
  /\ updated' = [r \in Requests |-> IF r \in T THEN FALSE ELSE updated[r]]

\* Mutant: the write without its condition.
UpdateIntentStatusAlways(i, s) == status' = [status EXCEPT ![i] = s]

\* The write of update_intent_status: never on a scheduled intent. The code
\* reads the status and writes in two transactions; one step is the same,
\* since no row becomes 'scheduled' after its insertion and what the write does
\* depends on nothing else.
UpdateIntentStatus(i, s) ==
  status' = IF status[i] = "scheduled" THEN status ELSE [status EXCEPT ![i] = s]

-----------------------------------------------------------------------------
\* The ReAct loop of a request.

InLoop(r) == at[r] \in {"intent", "event"} /\ ask[r] = NoAsk

ReceiveIntent(r) ==
  /\ at[r] = "idle"
  /\ Goto(r, "intent")
  /\ UNCHANGED <<vars, mine, ask, called, worst, updated>>

\* The monitor reports on intents in force that have no window; the endpoint
\* answers at once and a thread runs the loop.
ReceiveEvent(r, i) ==
  /\ "events" \in Habits
  /\ at[r] = "idle" /\ status[i] \in InForce /\ window[i] = "none"
  /\ Goto(r, "event")
  /\ mine' = [mine EXCEPT ![r] = i]
  /\ UNCHANGED <<vars, ask, called, worst, updated>>

\* A new row, scheduled when its window starts after the activation grace.
RecordIntent(r, i, w) ==
  /\ InLoop(r) /\ at[r] = "intent" /\ mine[r] = NoIntent
  /\ status[i] = "absent" /\ w \in {"none", "before", "open"}
  /\ status' = [status EXCEPT ![i] = IF w = "before" THEN "scheduled" ELSE "received"]
  /\ window' = [window EXCEPT ![i] = w]
  /\ mine' = [mine EXCEPT ![r] = i]
  /\ UNCHANGED <<agentVars, schedulerVars, at, ask, called, worst, updated>>

\* The same request came in moments ago: its row is used again, unless the
\* intent has ended. A window that is over is refused by the guardrail.
ReuseIntent(r, i) ==
  /\ "repeats" \in Habits
  /\ InLoop(r) /\ at[r] = "intent" /\ mine[r] = NoIntent
  /\ status[i] \notin {"absent", "reverted", "failed"} /\ window[i] # "closed"
  /\ mine' = [mine EXCEPT ![r] = i]
  /\ UNCHANGED <<vars, at, ask, called, worst, updated>>

\* Mutant: the check before the apply tools is missing.
BlockedNever(r, tool) == FALSE

\* An apply tool of an intent that waits for its window.
Blocked(r, tool) == tool = "apply" /\ status[mine[r]] = "scheduled"

\* A domain tool. An apply is blocked while the intent is scheduled; the
\* blocked call is in the trace like any other and carries no failure. An
\* exact repeat of a call, failed or not, gets the cached result and does
\* nothing.
CallDomainTool(r, d, tool) ==
  /\ InLoop(r) /\ mine[r] # NoIntent
  /\ tool = "apply" /\ d \in called[r] => "varies" \in Habits
  /\ IF Blocked(r, tool)
       THEN /\ "impatient" \in Habits
            /\ called' = [called EXCEPT ![r] = @ \cup {d}]
            /\ UNCHANGED <<agentVars, ask>>
       ELSE /\ tool = "revert" => "reverts" \in Habits
            /\ CallRemoteTool(r, d, tool, mine[r])
            /\ ask' = [ask EXCEPT ![r] = [domain |-> d, tool |-> tool]]
            /\ UNCHANGED called
  /\ UNCHANGED <<tableVars, schedulerVars, at, mine, worst, updated>>

Worse(s, t) ==
  IF {s, t} \cap {"failed", "error"} # {} THEN "failed"
  ELSE IF "degraded" \in {s, t} THEN "degraded" ELSE "applied"

\* The result goes into the trace.
ToolAnswered(r) ==
  /\ at[r] \in {"intent", "event"} /\ ask[r] # NoAsk /\ answer[r] # "none"
  /\ IF ask[r].tool = "apply"
       THEN /\ called' = [called EXCEPT ![r] = @ \cup {ask[r].domain}]
            /\ worst' = [worst EXCEPT ![r] = Worse(@, answer[r])]
       ELSE UNCHANGED <<called, worst>>
  /\ ask' = [ask EXCEPT ![r] = NoAsk]
  /\ UNCHANGED <<vars, at, mine, updated>>

\* The statuses the guardrail lets the model write ('negotiating' is to the
\* code what 'decomposed' is).
ModelStatuses ==
  {"applied", "degraded", "decomposed"}
    \cup IF "gives up" \in Habits THEN {"failed", "reverted"} ELSE {}

\* The call counts as an update even when the guardrail refuses its status.
ModelUpdatesStatus(r) ==
  /\ InLoop(r) /\ mine[r] # NoIntent
  /\ CASE called[r] = {} -> "claims" \in Habits
       [] called[r] = Domains -> TRUE
       [] OTHER -> "early" \in Habits
  /\ updated' = [updated EXCEPT ![r] = TRUE]
  /\ \/ \E s \in ModelStatuses : UpdateIntentStatus(mine[r], s)
     \/ UNCHANGED status
  /\ UNCHANGED <<agentVars, window, schedulerVars, at, mine, ask, called, worst>>

\* A final answer, or the step limit.
LoopEnds(r) ==
  /\ InLoop(r) /\ at[r] = "intent"
  /\ IF mine[r] = NoIntent THEN End({r})
     ELSE Goto(r, "net") /\ UNCHANGED <<mine, ask, called, worst, updated>>
  /\ UNCHANGED vars

\* An exception leaves the loop or the settling, where every step reads the
\* status from the database: the endpoint answers 500 (an event thread just
\* ends) and nothing is undone.
RequestDies(r) ==
  /\ "raises" \in Habits
  /\ \/ InLoop(r)
     \/ at[r] \in {"net", "settle"}
     \/ at[r] = "revertRan" /\ answer[r] # "none"
  /\ Fault
  /\ End({r})
  /\ UNCHANGED <<active, inbox, answer, tableVars, schedulerVars>>

-----------------------------------------------------------------------------
\* After the loop.

\* From the apply calls of the trace: both domains or it failed.
InferStatus(r) == IF called[r] = Domains THEN worst[r] ELSE "failed"

\* The model never reported a status: the inferred one is written.
SafetyNet(r) ==
  /\ at[r] = "net"
  /\ IF updated[r] THEN UNCHANGED status
     ELSE UpdateIntentStatus(mine[r], InferStatus(r))
  /\ Goto(r, "settle")
  /\ UNCHANGED <<agentVars, window, schedulerVars, mine, ask, called, worst, updated>>

\* Mutant: a trace with a single domain is not settled.
NothingToSettleUnlessBoth(r) == called[r] # Domains \/ status[mine[r]] = "scheduled"

\* No directive was issued, or the scheduler owns the intent.
NothingToSettle(r) == called[r] = {} \/ status[mine[r]] = "scheduled"

SkipSettle(r) ==
  /\ at[r] = "settle" /\ NothingToSettle(r)
  /\ End({r})
  /\ UNCHANGED vars

\* The domains' outcome replaces what the model wrote.
Settle(r) ==
  /\ at[r] = "settle" /\ ~NothingToSettle(r) /\ InferStatus(r) # "failed"
  /\ UpdateIntentStatus(mine[r], InferStatus(r))
  /\ End({r})
  /\ UNCHANGED <<agentVars, window, schedulerVars>>

\* A failed outcome reverts both domains first ...
SettleFailed(r) ==
  /\ at[r] = "settle" /\ ~NothingToSettle(r) /\ InferStatus(r) = "failed"
  /\ CallRemoteTool(r, "cn", "revert", mine[r])
  /\ Goto(r, "revertCn")
  /\ UNCHANGED <<tableVars, schedulerVars, mine, ask, called, worst, updated>>

SettleCnReverted(r) ==
  /\ at[r] = "revertCn" /\ answer[r] # "none"
  /\ CallRemoteTool(r, "ran", "revert", mine[r])
  /\ Goto(r, "revertRan")
  /\ UNCHANGED <<tableVars, schedulerVars, mine, ask, called, worst, updated>>

\* ... and records it whatever they answered.
SettleRanReverted(r) ==
  /\ at[r] = "revertRan" /\ answer[r] # "none"
  /\ UpdateIntentStatus(mine[r], "failed")
  /\ End({r})
  /\ UNCHANGED <<agentVars, window, schedulerVars>>

\* Mutants: the outcome of an event is inferred without any apply call; what
\* the model wrote is not replaced.
EventEndsWithoutCalls(r) ==
  /\ InLoop(r) /\ at[r] = "event"
  /\ UpdateIntentStatus(mine[r], InferStatus(r))
  /\ End({r})
  /\ UNCHANGED <<agentVars, window, schedulerVars>>

EventEndsAsReported(r) ==
  /\ InLoop(r) /\ at[r] = "event"
  /\ IF called[r] = {} \/ updated[r] THEN UNCHANGED status
     ELSE UpdateIntentStatus(mine[r], InferStatus(r))
  /\ End({r})
  /\ UNCHANGED <<agentVars, window, schedulerVars>>

\* handle_event has no rollback: it records the inferred status, or leaves the
\* intent as it is when the model called no apply tool.
EventEnds(r) ==
  /\ InLoop(r) /\ at[r] = "event"
  /\ IF called[r] = {} THEN UNCHANGED status
     ELSE UpdateIntentStatus(mine[r], InferStatus(r))
  /\ End({r})
  /\ UNCHANGED <<agentVars, window, schedulerVars>>

-----------------------------------------------------------------------------
RequestNext ==
  \E r \in Requests :
    \/ ReceiveIntent(r)
    \/ \E i \in Intents : ReceiveEvent(r, i) \/ ReuseIntent(r, i)
    \/ \E i \in Intents, w \in Windows : RecordIntent(r, i, w)
    \/ \E d \in Domains, tool \in Tools : CallDomainTool(r, d, tool)
    \/ ToolAnswered(r)
    \/ ModelUpdatesStatus(r)
    \/ LoopEnds(r)
    \/ RequestDies(r)
    \/ SafetyNet(r)
    \/ SkipSettle(r) \/ Settle(r)
    \/ SettleFailed(r) \/ SettleCnReverted(r) \/ SettleRanReverted(r)
    \/ EventEnds(r)

\* The request threads die with the process.
ProcessRestart ==
  /\ "restarts" \in Habits
  /\ OrchestratorRestart
  /\ End({r \in Requests : at[r] # "idle"})

RequestClock ==
  \E i \in Intents :
    /\ WindowOpens(i) \/ WindowCloses(i)
    /\ BeingHandled(i) => "slow" \in Habits

SchedulerNext ==
  (Loop \/ Agents \/ RequestClock \/ PollError) /\ UNCHANGED requestVars

OrchestratorNext == RequestNext \/ SchedulerNext \/ ProcessRestart

OrchestratorSpec == OrchestratorInit /\ [][OrchestratorNext]_allVars

-----------------------------------------------------------------------------
(***************************************************************************)
(* Properties.                                                             *)
(***************************************************************************)

\* A scheduled intent belongs to the scheduler: whatever the models of the
\* requests do, and however they race with the window, only the scheduler's
\* decision on that intent changes its status, and not before the window
\* opens.
SchedulerOwnsScheduled ==
  [][\A i \in Intents : status[i] = "scheduled" /\ status'[i] # "scheduled" =>
       cur = i /\ pc = "ran" /\ window[i] # "before"]_allVars

\* The recorded outcome is the domains' (README, "Status final"): once no
\* request works on it, an intent recorded in force whose window is not over
\* is held by both domains.
OutcomeIsTrue ==
  \A i \in Intents :
    status[i] \in InForce /\ window[i] # "closed" /\ ~BeingHandled(i) =>
      \A d \in Domains : active[d][i]

\* Nothing is left in force that no job of the scheduler looks for: a row, or
\* an apply still under way, belongs to an intent being handled or to one in
\* a state from which the scheduler reverts it.
NothingUntracked ==
  \A i \in Intents, d \in Domains :
    (active[d][i] \/ Pending(d, "apply", i)) /\ ~BeingHandled(i) =>
      status[i] \in InForce \cup {"scheduled", "failed"}

\* Only directives fail a standing guarantee (README, "Status final"): an
\* intent in force in both domains is marked failed by a request that called
\* a domain for it, never by one that did nothing.
FailedOnlyByADirective ==
  [][\A i \in Intents :
       /\ status[i] \in InForce /\ \A d \in Domains : active[d][i]
       /\ status'[i] = "failed"
       => \E r \in Requests : mine[r] = i /\ called[r] # {}]_allVars

\* Both domains or neither (README, "Status final"): no intent that nobody
\* works on keeps one domain alone, except while the scheduler still has to
\* revert it.
BothOrNeither ==
  \A i \in Intents :
    ~BeingHandled(i) /\ status[i] \notin {"scheduled", "failed"} /\ window[i] # "closed" =>
      active["cn"][i] = active["ran"][i]

\* A reversion is correct when the intent is 'reverted' and nothing of it is
\* left active (run_window_probes.py, reversion_correct), once no request
\* works on it.
ReversionIsCorrect ==
  \A i \in Intents : status[i] = "reverted" /\ ~BeingHandled(i) => Unheld(i)
=============================================================================
