# MINAS in TLA+

MINAS assures network slices from natural-language intents. An orchestrator
agent decodes an intent with an LLM, records it in PostgreSQL and tells two
domain agents over MCP what to configure: the CN-NSSMF (policies in the Core,
enforced at the UPF) and the RAN-NSSMF (PRB reservations, enforced at the gNB).
A guarantee is worth something only when *both* domains hold it, for exactly the
time the operator asked for. Nothing in the system is a transaction: directives
are HTTP calls that take minutes, several kinds of thread write the same rows,
equipment is changed before the row that records it, and any of them may stop
half way. Two monitors, one of them over a forecast, watch the guarantees and
start new directives of their own.

This directory specifies that coordination, the two domain agents from the
inside and the monitors; it model-checks all of it with TLC, and proves with
TLAPS the safety of the window scheduler, of both domain agents and of the
monitors, what the orchestrator as a whole guarantees whatever its models do, and
under which conditions on them the outcome it records is the domains'.

Paths below are relative to the repository; `PROJECT.json` maps every definition
to the lines it translates.

## 1. Inventory

| Component | State it keeps | Operations | Talks to | Here |
|---|---|---|---|---|
| Window scheduler (`agents/orchestrator/scheduler.py`) | the job it is at, the rows its query returned, the row in hand; columns `status`, `window_start`, `window_end` of `intents` | poll, activate, revert, clean up | both agents (MCP), `intents` | `WindowScheduler` |
| Requests and events (`agents/orchestrator/main.py`, `tools.py`) | one thread per request: the trace of its tool calls, the ids it recorded | `POST /intent`, `POST /event`, record, update status, safety net, settle | LLM, both agents, `intents` | `Orchestrator`; the run on an event also in `Uc1Monitor` |
| Tool discovery (`orchestrator/tools.py`) | the tables of remote tools, `_discovered` | discover, route | both agents | `Discovery` |
| Domain agents as MCP servers (`agents/*-nssmf/main.py`, `mcp_common.py`) | directives received and not finished | apply, revert, read-only directives | their tools | `Directives`, `DomainAgents` (for callers), `DomainContract`, `DirectiveServer` |
| CN-NSSMF policies (`agents/cn-nssmf/tools.py`, `enforcement.py`, `enforcers/upf_shaper.py`) | `policies` rows, the limit at the UPF | configure, amend, revert | UPF, PostgreSQL | `CoreDomain` |
| RAN-NSSMF allocations (`agents/ran-nssmf/tools.py`) | `ran_allocations` rows | admit, allocate, revert | gNB slicer, PostgreSQL | `RanDomain` |
| gNB slicer (`agents/enforcers/gnb_slicer.py`) | a lock, the ratios it believes in force, the running gNB | push, restart | RAN-NSSMF | `GnbSlicer` |
| ReAct loop (`agents/react.py`) | trace, cache of exact repeats | one LLM turn, scope, status of a directive | LLM, tools | `ReactLoop` (agents); `Orchestrator` (what its settling reads) |
| Guardrails (`agents/guardrails.py`) | none | validate the arguments of a call | - | `Guardrails`; the statuses a model may write in `Orchestrator` |
| NWDAF (`agents/nwdaf`), collector (`agents/collector`) | telemetry rows | collect, build training windows, predict or answer a mock | PostgreSQL | `Nwdaf` |
| Use Case 1 monitor (`cn-nssmf/monitor.py`, `nwdaf_client.py`) | none of its own: cooldown read from `events` | compare forecast with guarantee, store and post an event | NWDAF, orchestrator | `Uc1Monitor` |
| SLA monitor (`orchestrator/sla_monitor.py`) | `sla_samples`, violation rows of `events` | sample, find a streak, raise a violation | PostgreSQL | `SlaMonitor`, composed in `Monitors` |
| Database and time (`db.py`, `timeutil.py`, `schema.sql`) | the tables | - | - | the tables are variables, `NOW()` is a position in a window or an age |
| Monolithic baseline, benchmark and probes, RAG, lab scripts | none the system depends on | measurements, text retrieval, deployment | - | not modelled (section 7) |

What makes each part correct, and what is hard about it:

* **Scheduler.** Nothing is configured before the window opens; an intent is
  recorded in force only when both domains hold it; after the window nothing of
  it is left. Hard: a client that times out leaves a directive queued at the
  agent, which is carried out later; the process may die between the two domains
  or between their answers and the status; rows are read once and handled for
  minutes; an error drops the rest of a job's rows.
* **Requests.** The status at the end is what the domains answered, whatever the
  model said; a scheduled intent is left to the scheduler; nothing is left that
  no job looks for. Hard: the request, another request given the same row by the
  deduplication, an event thread and three scheduler jobs interleave between any
  two database calls.
* **Domain tables and equipment.** The agent ends every directive with one of the
  outcomes its callers rely on; the table never claims more than the equipment
  enforces; reservations fit the cell; a reversion restores the right predecessor.
  Hard: equipment is changed before the row is written, an answer may be lost on
  the way back, a push takes a restart of the gNB that outlasts the client's
  patience, and the model may repeat a call, ask for another rate than the
  directive's, or call a tool that is not its business.
* **Discovery.** Both agents' tools end up callable. Hard: two first requests
  publish their own copies of the tables.
* **Monitors.** One event per intent and cooldown although nothing is kept in
  memory; a stored event is settled; a lasting exhaustion and a lasting breach are
  reported again and again; a forecast looks as far ahead as was asked for. Hard: an
  event accepted by an orchestrator whose answer is lost, runs that die or whose model
  asks for something else, polls that are dropped, telemetry with interruptions.

The hazards, each at its line, are in `PROJECT.json` with the properties that
cover them.

## 2. Modules

```
        ScheduledGuarantee   (what the operator is promised; abstract)
               ^ refined by
Directives <- DomainAgents <- WindowScheduler <- Orchestrator <- OrchestratorInv
    ^                               ^                               ^-- MCOrchestrator
    |                               |                               ^-- Orchestrator_proofs
    |                               |                                    |   ^-- Tracking_proofs
    |                               |                                    |        ^-- Outcome_proofs
    |                        WindowSchedulerInv <- MCWindowScheduler     |
    |                               ^-- WindowScheduler_proofs <---------'
DomainContract   (what callers rely on; abstract)
    ^ refined by
    |-- CoreDomain <- CoreDomainInv <- MCCoreDomain, CoreDomain_proofs
    |      EXTENDS Guardrails, DirectiveServer (EXTENDS ReactLoop)
    '-- RanDomain  <- RanDomainInv  <- MCRanDomain,  RanDomain_proofs
           EXTENDS Guardrails, DirectiveServer, GnbSlicer

Nwdaf <- Uc1Monitor <- SlaMonitor <- Monitors <- MonitorsInv <- MCMonitors, Monitors_proofs
Discovery <- MCDiscovery
```

The two halves meet in **Directives**, the outcomes a directive may have. The
scheduler and the requests are checked against a `DomainAgents` that may answer
with any of them; `CoreDomain` and `RanDomain`, which carry directives out step by
step, are shown to answer with nothing else and to touch no other intent's row
(`KeepsTheContract`). So what is proved of the scheduler holds with the real agents
behind it.

**DomainAgents** is the seam. `active[d][i]` is "intent i has a row with status
'active' in d's table"; `inbox[d]` the directives the agent has received and not
finished; `answer[t]` what the last call of thread t came back with. The MCP tools
are plain functions run on the server's event loop, so an agent serves one directive
at a time in the order of arrival, and goes on with one whose client has left.
`CallRemoteTool` delivers the directive or fails at once, `GiveUp` is the client's
timeout, `AgentRestart` loses the queue, `Serve` finishes the directive at the head.

**WindowScheduler** is the daemon thread of `scheduler.py`: `job` and `pc` say
where it is, `todo` holds the rows of the query not taken up yet, `cur` and `plan` the
intent in hand and what is done to it. `Poll` runs the job's query, `TakeUp` starts
on a row and calls the Core, `CoreAnswered` calls the RAN, and one action for each way
out of `_activate_one` and `_revert_one` follows. Rows are taken in any order, which
covers the query's `ORDER BY`. `PollError` is the database refusing the query or the
update, caught by the job's `except`; `OrchestratorRestart` kills the process at any
point, with its directives still queued at the agents. `window[i]` is where `NOW()`
is relative to the intent's bounds, the only thing the code compares; an intent
within the activation grace counts as open. **ScheduledGuarantee** is its promise
without threads, calls or faults.

**Orchestrator** adds the threads of the HTTP server. `at[r]` is where request r is
(in the loop, at the safety net, at the settling, between the two reverts of a failed
settling); `called` and `worst` are what `_infer_status_for_intent` reads from the
trace; `updated` whether `update_intent_status` is in it. The LLM is external:
`CallDomainTool` and `ModelUpdatesStatus` are whatever it asks for, carried out by the
code as written, including the block on applies for a scheduled intent
(`dispatch_tool`) and the condition of the `UPDATE` (`_update_intent_status`).
`Habits` names what models and operators may do beyond the straight path, so that a run
can say under which behaviour a property holds: every habit is something the code lets
happen, none is a change of the code.

**ReactLoop** keeps, for one directive, the cache that answers an exact repeat
(`seen`) and the last result of the deciding call (`last`), from which
`DirectiveStatus` follows. **DirectiveServer** is what the two agents share: `directive`
being carried out, `step` within it (`loop`, then `push` and `persist` of a call;
`restore` and `release` of a revert), the `call` under way, `answered`. **Guardrails**
validates arguments that are numbers, absent or not convertible.

**CoreDomain**: `policies[i]` is the active row of intent i with its rates and the order
of its `applied_at`, which an update keeps; `limit` is what the UPF enforces on the
slice. `ConfigureQos`, `Push`, `Persist` are the three parts of `_configure_qos`,
`Amend` is `_record_policy`, `Restore` and `Release` are `_revert_qos`; `Answered` is a
call that never reaches its handler (repeat, out of scope, refused by a guardrail, off
the pinned target); `PushFails` covers the answer lost after the UPF took the rate.

**RanDomain** over **GnbSlicer**: `AllocatePrb` is admission up to the push, `Send` the
PUT with the reservations of the whole cell, `PushAnswered`, `Persist`; `PushRemaining`,
`RestoreAnswered`, `Release` are the revert. At the slicer, requests wait for its lock in
any order; `BeginRestart` and `Restarted` bracket the time during which nobody knows what
the gNB runs with; `RenderFails`, `RestartFails`, `SlicerDies` are its failures and
`GiveUp` is the client that leaves while the slicer goes on.

**Nwdaf** keeps the history as the gaps between rows and computes the sampling interval
(median), the horizon in rows (Python's rounding), the windows a training pair may use,
and so whether an answer comes from a model. **Uc1Monitor** polls the newest standing
intent (`Watch`), stores an event and delivers it (`Report`, `Delivered`, `MarkUndelivered`).
The run on an event is a model's as much as a request's is: `ScaleCore` is an apply at the
Core for the event's target, for another one of `Asks`, or, where the model omits it, for the
one the intent was `recorded` with, as often as the model likes, and a directive that fails
may have stored its policy; `RevertCore` is a revert, `TellStatus` a status the model writes;
`LoopEnds` settles with any outcome of the RAN, `CloseEvent` closes the event. A poll and a
run may take any number of collection intervals. **SlaMonitor** samples each intent in force
and looks for a streak. **Monitors** composes them over shared tables with time, a collector
that misses rows, windows that close, restarts, lost answers, and what others write into the
tables (`OthersWrite`); `Deployments` says which monitors are enabled, whether the
orchestrator can be reached, and how many faults and interruptions there may be.
**Discovery** has one action per step of `_discover_remote`, whose tables are copied at the
start and published at the end.

The modules `*Inv` hold the inductive invariants, so that TLC checks what TLAPS uses.

Assumptions of the models, all about what lies outside the code: a model acts only on
the intent of its own request or directive, and on that intent's slice; it may otherwise
ask for anything in the sets a run gives. Faults are counted and bounded by `MaxFaults`, in
`Monitors` by the deployment. The status 'negotiating' is kept with 'decomposed', since no
query tells them apart.
`CoreDomain` has one slice (no query of the agent relates two), and keeps downlink
rates: uplink rates and the 5QI are validated, recorded and read by nothing.

In every module a definition named after another one with a suffix
(`DueIntentsAnyTime` next to `DueIntents`) is a mutant: the same code with a
plausible mistake, kept to show that the property that names it in `PROJECT.json`
would notice.

## 3. Runs

| Run | Instance | Checked | Distinct states |
|---|---|---|---|
| `scheduler` | 2 intents, 2 faults, fairness | `TypeOK`, `NotBeforeWindow`, `InForceInBothDomains`, `NoLateApply`, `RevertedMeansReleased`, `IInv`, refinement `KeepsTheGuarantee`; liveness `ActivationIsDecided`, `NothingLeftBehind` | 281 000 |
| `requests_windows` | 1 intent, 1 request with nearly every habit, 1 fault | `OrchestratorTypeOK`, `NotBeforeWindow`, `SchedulerOwnsScheduled` | 2 200 000 |
| `requests_shared` | 1 intent, 2 requests or events, repeated requests | `OwnershipInv`, `NothingUntracked` | 830 000 |
| `requests_settle` | 1 intent, 1 request reporting early, repeating applies and asking for those of a scheduled intent, 3 faults | `OutcomeIsTrue`, `OutcomeInv` | 161 000 |
| `core_domain` | 2 intents of a slice, 3 directives, 3 calls each, 1 fault, fairness | `CoreTypeOK`, `EnforcingInv`, `UpfHoldsAnActivePolicy`, refinement `KeepsTheContract`, `AppliedHoldsTarget`, `RestoredOnRevert`, `RecordedOnlyWhatIsInForce`, `ReportsChangeNothing`; liveness `DirectivesEnd` | 285 000 |
| `ran_domain` | a cell of 6 PRBs, an intent in each slice, 3 directives, 2 calls each, 2 requests at the slicer, 1 fault, fairness | `RanTypeOK`, `PushInv`, `ReservationsFit`, `AdmittedUpToRounding`, `SlicerKnowsTheGnb`, `GnbHoldsTheTable`, refinement `KeepsTheContract`, `RestoredOnRevert`; liveness `DirectivesEnd` | 298 000 |
| `monitors` | 1 intent, three deployments (Use Case 1 with the orchestrator out of reach and 2 interruptions, with it in reach, the SLA monitor), history of 4 rows, cooldown 2, streak 2, 2 events, 1 fault, fairness | `MonitorsTypeOK`, `OneEventPerCooldown`, `ReportsAreForecasts`; liveness `ExhaustionIsReported`, `EventsSettle`, `BreachIsReported` | 187 000 |
| `finding_*` | section 4 | one property each, violated | - |

Why the bounds are enough.

* `scheduler`: two intents are what it takes for a job to hold rows it has not taken up
  while it works on another, and for an error with one to drop the other; no action
  relates three. Two faults allow a lost call and a restart on top; the safety results are
  proved for any number of intents and faults.
* `requests_*`: requests interact only through the rows of an intent they share, hence
  one intent; two threads next to the scheduler are what the races of the settling take.
* `core_domain`: two intents are what a wrong predecessor takes; three directives give
  apply, apply, revert and apply, revert, apply in every order; three calls a repeat
  around a different call; rates 1, 2 and 3 a valid one, another, and one the guardrail
  refuses. The safety properties are proved without these bounds.
* `ran_domain`: in a cell of 6 PRBs the throughputs need 3, 4 and more PRBs than there
  are, so both slices fit, one is degraded, or nothing is left; 4 and the 2 that are left are
  67 % and 34 %, so that the slicer refuses some grants. Two requests at the slicer
  are one that its client abandoned and the next.
* `monitors`: the history is longer than the lags and one training window, so that
  interruptions can lie inside or before them, and two of its three intervals may be
  interruptions, so that the median is one. Two events are what an old and a new one take,
  with every event forgotten in time. The prediction exhausts the guarantee the intent starts
  with, and not the one the event asks for; a model may ask for the old one instead. A
  deployment has one monitor here, and the default has both: the two share only the statuses
  and the guarantees that the runs on events write. Where only the SLA monitor is,
  `OthersWrite` stands for these runs: at any time it writes any status, and any guarantee but
  the raised one, which to the SLA monitor is a guarantee that the observed level is below.

Fairness. `WF(Loop)`: the scheduler is a daemon thread that sleeps a fixed time and
catches every exception of a job. `WF(Serve(d))`: a directive ends; this is what
`DirectivesEnd` shows of the agents, from `WF(Carry)` (an agent goes on with its
directive: the loop has a step limit, every call a timeout) and `WF(SlicerStep)` (the
slicer goes on; its wait for the gNB is bounded, the restart command is assumed to
return). `WF(Uc1Poll)`, `WF(SlaTick)`: both monitors loop for ever and catch their
exceptions; `WF(RunEnds(s))` for each event: the run on it ends, as its loop has a limit of
steps and its calls have timeouts, and settles; what it calls before is the model's and not
fair. No fairness is assumed of clocks,
requests, models, the collector or faults, and the number of faults is finite: with a
domain that is unreachable for ever nothing could be promised. `NothingLeftBehind` and its
companions therefore say that retries converge once things work again.

Conditions a reader should know. `NotBeforeWindow` and `SchedulerOwnsScheduled` hold under
every habit, because they rest on two checks in code. `NothingUntracked` holds while no
window opens or closes under a request, no request raises or is killed and no model claims
an outcome without a call (`Undisturbed`); `OutcomeIsTrue` for the models that report too
early, repeat themselves or ask for applies of a scheduled intent (`Settling`).
`ReservationsFit`, `GnbHoldsTheTable` and `AdmittedUpToRounding` are about one intent in each
slice; the last allows the slicer to refuse what admission grants from the last percent of the
cell. All of these are proved under the conditions named. `ReportsAreForecasts` holds where
less than half of the intervals of the history are interruptions, and is model-checked.
`ExhaustionIsReported` supposes a series that stays live and predictions that all exceed the
guarantee; it asks for no particular behaviour of the runs. The rates of
the Core are covered with guardrails and shaper on and `ENFORCEMENT_MODE=real`.
Section 4 says what happens otherwise.

## 4. Where the code and its documentation part

Each of these is a run that must be violated, with the counterexample TLC prints.

* `finding_safety_net` (`main.py:165`): the safety net asks for the status at the
  end of the loop. If the window opens and the scheduler activates the intent before
  that, the request, which rightly called nothing, writes 'failed' over a
  guarantee in force, and the cleanup job tears it down.
* `finding_reverted` (`scheduler.py:120`): a request repeated within two minutes, just
  before its window closes, applies between the two confirmations of the reversion;
  the intent ends 'reverted' with a policy that no query looks for again.
* `finding_exception` (`main.py:214`): an exception of the loop between two tool calls
  is answered 500 and undoes nothing; half a guarantee stays under an intent that is
  'received'.
* `finding_discovery` (`orchestrator/tools.py:155`): two first requests each publish their
  own copy of the tables; one agent counts as discovered and has no routes.
* `finding_best_effort` (`gnb_slicer.py:141`): admission counts PRBs, the slicer
  percentages rounded up; in the default cell of 51 PRBs the best effort next to a full
  neighbour is refused.

TLC refutes further claims, each by one change to a run; they are notes of the hazards:

| Claim | Refuted by |
|---|---|
| "a retry or a lost response cannot drift the testbed" (`enforcement.py:22`; `NoDrift` of `CoreDomain`) | `core_domain`: the answer of a push is lost, no row is written, the revert answers 'noop' and leaves the limit |
| "A policy row always means in force" (`cn-nssmf/tools.py:226`; `EveryPolicyInForce`) | `core_domain` without a fault: a smaller policy of a newer intent caps the slice |
| the newest active policy "is also what the UPF holds" (`_current_qos`) | a resize keeps `applied_at`: an older intent resized last is in force. What holds is `UpfHoldsAnActivePolicy` |
| forecasts come from a live series (`ReportsFromLiveSeries` of `Monitors`) | only the age of the newest row is looked at |
| Use Case 1 scales up (`GuaranteeOnlyGrows` of `Monitors`) | the target of an event's directive is the model's (`orchestrator/tools.py:344`): another one, or none, where the Core takes the recorded one ("seen live", `cn-nssmf/main.py:142`), lowers what an earlier event raised; and no run has to end within the cooldown, so that an older event's target may come last |
| "The median is robust to those gaps" (`nwdaf/dataset.py:12`; `ReportsAreForecasts` without its condition) | as many interruptions as regular intervals in the history: after gaps of 2 and 1 intervals the median is 1.5 and the horizon one row instead of two |
| `ReservationsFit` with two intents in one slice | reverting the newest brings an older, larger reservation back |
| `OutcomeIsTrue` with the habits `impatient` and `slow`, `claims`, or `early` and `gives up` | blocked applies count as successes; a status with no directive stands; the cleanup job undoes what is recorded afterwards |
| "the intent keeps whatever was in force" (`main.py:282`; `OutcomeIsTrue` with two requests and the habits `events` and `reverts`) | an event whose model only calls a revert counts as no action: the status stays, the policy is gone |
| `FailedOnlyByADirective` with the habit `repeats` | a repeated request whose model sees the intent applied and stops |

## 5. Proofs

Everything below is proved for any set of intents, any sets of rates, targets and
throughputs, any cell size and any number of directives, calls and faults, from the
assumptions named in the modules; further assumptions of a theorem are in its statement.

**`WindowScheduler_proofs`**: `TypeCorrect`, `Invariance` (`Spec => []IInv`), and
`NothingBeforeTheWindow`, `BothDomainsHold`, `NoApplyIsLate`, `NothingOfTheReverted` for the
four safety properties. None of the four is inductive. The argument is about the agents'
queues. The scheduler is the only caller, and it waits for its call or gives up on it, so
the directive it waits for is the *last* of its queue (`CallsOK`). An agent serves in order,
so an answer with a status means that the queue is empty, the leftovers of earlier attempts
included, and it tells what the row is (`AnswersOK`). Only an answer with a status lets an
intent change its status; so when the status changes, no directive that the new status
would not allow is queued (`QueuesOK`), and the rows are what the status promises
(`RowsOK`). `CurrentOK` says that the rows a job read still fit its query when it comes to
them; `RollbackOK` is what a rollback adds: both queues were empty when it began.

`SchedulerKeepsTheGuarantee` is `Spec => KeepsTheGuarantee` from the same invariant: a
directive that ends gives or takes a domain only where the promise allows it (`QueuesOK`
says which directives are queued, `RowsOK` what they find, so that the others stutter), and
a status is written only for rows that are as `CurrentOK` and `AnswersOK` say.

**`Orchestrator_proofs`** is about everything at once: any number of requests and events
next to the scheduler, under all of `Habits`. `IInv` is lost here, because its premise is
that the scheduler is the only caller and that an answer tells of the whole queue. What
survives is `OwnershipInv`: a row that is too early (not recorded, or scheduled and before
its window) is held by no domain and has no apply queued, since every caller looks before it
applies (`Blocked`, the due query); the rows the scheduler has in hand are open, since
windows only move on; a request works on a recorded row. It gives
`NobodyActsBeforeTheWindow` and `ScheduledIsTheSchedulers`; `OrchestratorTypeCorrect` is the
type invariant.

**`Tracking_proofs`** asks whether anything of that is ever lost sight of. Its condition,
`Undisturbed`, leaves out four habits (`slow`, `raises`, `restarts`, `claims`) and allows the
rest: repeated requests, events, models that report early, revert, vary or give up, and any
number of lost calls, timeouts, database errors and restarts of agents. `TrackedInvariance`
(`Spec => []TrackedInv`) is one argument from two sides. `TrackedOrHandled`: whatever a
domain holds, or has an apply queued for, belongs to a row that a query looks for or that a
request has yet to settle; so a request leaves its row only with a status that some query
looks for (`RequestsInOrder`, `ClosedIsLeft`). `ConfirmedIsReleased`: an intent that leaves
the queries' sight for good, as 'reverted', was answered for by both domains, and no apply of
it is queued behind the answer, because its window is closed and the scheduler's own
directive is the last of the queue (`RowsInHand`, `SchedulerCalls`). `NothingGoesUntracked`
and `ReversionsAreCorrect` (`ReversionIsCorrect` under the same condition) follow; of the two
habits of `finding_reverted`, `slow` is therefore the one it takes.

**`Outcome_proofs`** proves that the recorded status is true, under `Settling` (`early`,
`varies`, `impatient`; one request per intent, no window moving under it). `OutcomeIsTrue`
says nothing of queues and is far from inductive: an intent in force that holds both rows
goes on doing so only if no directive for it is left behind the one that answered.
`OutcomeInv` follows a row through three hands. While a request handles it, its trace tells
the truth: a domain in `called` holds the row unless the settling is going to fail it
(`CalledIsHeld`), the request has one directive queued at most, where it waits for it
(`RequestsWait`), and what the model may have written before that fits the trace
(`StatusFitsTrace`). While the scheduler activates it, an answer that is no refusal comes from
a queue with nothing of the intent left (`ActivationIsHeld`). When nobody works on it, both
domains hold it and have nothing queued (`InForceIsHeld`). `OneHandler` keeps the hands apart.
From `OutcomeInvariance`: `OutcomesAreTrue`, and the counterparts of two findings,
`BothDomainsOrNeither` (`BothOrNeither`: `finding_exception` takes the exception) and
`OnlyDirectivesFail` (`FailedOnlyByADirective`: `finding_safety_net` takes a window that opens
under the request).

**`CoreDomain_proofs`**

* `CoreTypeCorrect`, `CoreInvariance` (`Spec => []CoreInv`), without any condition on the
  mode, the guardrails or what the model asks for.
* `CoreKeepsTheContract`: `Spec => KeepsTheContract`. Held rows, the directive and the answer
  map to `DomainContract`; a directive in progress is a stutter there, its end is `Finish`.
  For that, an end has to find the row where its status says: `RowWhileServing` (an apply
  may write its row and never takes it away, a revert releases it with its last step) and
  `ResultsBacked` (a result the loop remembers as applied has its row, even if it comes
  from the cache after other calls).
* `ReportsAreReadOnly` from the scope of tools and what a call under way belongs to.
* With `IsReal`, `UpfShaping` and `GuardrailsEnabled`: `RatesInvariance`
  (`Spec => []EnforcingInv`) and from it `AppliedIsOnTarget`, `RecordsTellTheTruth`,
  `RevertRestores` (whatever went wrong before) and, with `BackedUntilFault`, `UpfHoldsPolicies`.
  `EnforcingInv` says that a call carries rates the UPF can take and the directive's target,
  that `persist` is reached only with the limit pushed, and that every remembered success is
  on target: amending a row never changes its guarantee once it is pinned.

**`RanDomain_proofs`** (all with `GuardrailsEnabled`: without it a throughput that is no
number reaches the arithmetic)

* `RanTypeCorrect`, `RanInvariance` (`Spec => []RanInv`), `SlicerIsNotFooled`: `SlicerKnowsTheGnb`
  is a conjunct of the invariant.
* `RanKeepsTheContract`: the same refinement, the steps of the slicer being stutters.
* `PushInvariance` and `RevertRestores`: unless a client left a request behind (`givenUp`), the
  slicer holds no request but the agent's own, for the ratios the agent wants, so an "ok"
  means that the gNB runs with them until the table says so too.
* With one intent in each slice (`OnePerSlice`): `CellIsNotOversold` from `CapacityInv`
  (a grant leaves room for every other row from admission until it is a row itself), and
  `GnbRunsTheTable` from `TableInForce`. `GrantsAreNearlyEnforceable` is
  `AdmittedUpToRounding` in a cell of any size: two roundings add less than 2 % to reservations of
  100 % at most, so that the ratios, whole numbers, add up to 101 at most, and to 100 at most
  while a hundredth of the cell is left. `finding_best_effort` is therefore one of
  rounding alone. The arithmetic is in a lemma of its own (`RatiosAtMost`).

**`Monitors_proofs`**, for any intents, history, cooldown, streak and number of faults

* `MonitorsTypeCorrect`, `CooldownInvariance` (`Spec => []CooldownInv`) and from it
  `EventsAreSpaced`. Nothing remembers that an event was reported but the table: the proof
  needs that an event being delivered is still in the table, with nobody's run yet
  (`PostIsStored`), and that a row is stored only where no young one is (`OneYoung`).

The proofs have a lemma for each shape of step (a call answered before its handler, a
return to the loop, an end, a step of the slicer) and one named step per action of `Next`.
`NewestIsOne` (a finite set of active rows has one of the largest `applied_at`) is by
well-founded choice over the naturals.

## 6. Only model-checked

* Liveness and fairness (`ActivationIsDecided`, `NothingLeftBehind`, both `DirectivesEnd`,
  `EventsSettle`, `ExhaustionIsReported`, `BreachIsReported`): out of the prover's reach.
* `ReportsAreForecasts`, under the condition of section 3: it compares the time that training
  pairs look ahead with the median of a sorted history, and what a sort returns for every
  history is induction over data.
* `OutcomeIsTrue` and `NothingUntracked` outside `Settling` and `Undisturbed`: some of the
  habits left out refute them (section 4), of the others TLC checks the runs above.

## 7. Not modelled

* **Monolithic baseline**: the comparison system of the benchmark, the same tools in one
  loop with neither settling nor domain boundary; nothing of the system depends on it.
* **Benchmark, probes, plots**: drivers around the running system. What they assert of it is
  used as properties (`ReversionIsCorrect`).
* **RAG**: text for the prompt. **Lab scripts, compose files**: deployment.
* **Collector**: a tick stores a row or misses it; the numbers (Prometheus, synthetic
  profiles) are data. **NWDAF**: the regression is a library; of an answer only the predicted
  throughput and whether it is a mock matter to anyone.
* **Guardrails**: the validators of `record_intent` and of the read-only tools, on which
  nothing modelled depends. NaN, which passes every comparison of the validators, is a
  hazard without a property: rates are integers here.
* **Messages** to and from the LLM, wording, logging; the notification of a predicted
  violation, which nothing reads.
* Two requests looking for a duplicate before either inserts its row are kept apart (the
  check and the insert are one step); the hazard says what that leaves out.

## 8. What is left

`Settling` is narrower than the code may need: with one request per intent the deduplication
and the events are out of `OutcomesAreTrue`, while `requests_shared` runs them. What
`CalledIsHeld` becomes with two requests on one row is the next question for TLC and then for
a proof. Both monitors in
one deployment with their liveness, and a NaN in a rate, are the next things to model.
