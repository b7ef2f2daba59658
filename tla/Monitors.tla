------------------------------ MODULE Monitors ------------------------------
(***************************************************************************)
(* The two monitors over the tables they share - intents, telemetry and    *)
(* events - while time passes, the collector fails and processes restart.  *)
(***************************************************************************)
EXTENDS SlaMonitor

CONSTANTS
  Targets,       \* guarantees the intents may start with
  Deployments    \* which monitors are enabled (UC1_ENABLED, SLA_MONITOR_ENABLED),
                 \* whether events reach the orchestrator, and the bounds on its
                 \* faults and on interruptions of the collector in the history

ASSUME MonitorsAssumption ==
  /\ Targets \subseteq Nat \cup {None}
  /\ Deployments \subseteq
       [enabled : SUBSET {"uc1", "sla"}, reachable : BOOLEAN, faults : Nat, outages : Nat]

VARIABLES
  deployment,
  faults     \* restarts, exceptions and lost answers so far

vars == <<historyVars, uc1Vars, slaVars, deployment, faults>>

MonitorsTypeOK ==
  /\ HistoryTypeOK /\ Uc1TypeOK /\ SlaTypeOK
  /\ deployment \in Deployments /\ faults \in 0..deployment.faults

Init ==
  /\ deployment \in Deployments /\ faults = 0
  /\ status = [i \in Intents |-> "applied"]
  /\ recorded \in [Intents -> Targets] /\ guarantee \in [Intents -> Targets]
  /\ \A i \in Intents : recorded[i] # None => guarantee[i] # None
  /\ window \in [Intents -> {"none", "open"}]
  /\ events = [s \in Slots |-> Nothing]
  /\ watched = Nothing /\ post = Nothing
  /\ HistoryInit /\ SlaInit

Enabled(monitor) == monitor \in deployment.enabled
Fault == faults < deployment.faults /\ faults' = faults + 1
Quietly == UNCHANGED <<historyVars, deployment>>

-----------------------------------------------------------------------------
Uc1Poll ==
  /\ Enabled("uc1")
  /\ \/ Watch \/ (\E p \in Predictions : NothingToReport(p) \/ Report(p))
     \/ (deployment.reachable /\ Delivered) \/ NotDelivered \/ MarkUndelivered
  /\ Quietly /\ UNCHANGED <<slaVars, faults>>

\* The calls of the model, as many as it likes before the loop ends ...
RunCalls(s) ==
  /\ ScaleCore(s) \/ RevertCore(s) \/ TellStatus(s)
  /\ Quietly /\ UNCHANGED <<slaVars, faults>>

\* ... and the settling.
RunEnds(s) ==
  /\ LoopEnds(s) \/ CloseEvent(s)
  /\ Quietly /\ UNCHANGED <<slaVars, faults>>

SlaTick ==
  /\ Enabled("sla")
  /\ SlaPoll \/ MaybeViolation \/ \E r \in todo : SkipSample(r) \/ SampleOne(r)
  /\ Quietly /\ UNCHANGED <<uc1Vars, faults>>

\* Interruptions in the history, the one under way included.
Interruptions == Outages(gaps) + IF quiet > 0 THEN 1 ELSE 0

\* A collection interval passes, with a row of telemetry or without one. Nobody
\* but the SLA monitor reads what a row holds.
Tick ==
  /\ EventsAge /\ ViolationsAge
  /\ \/ RowCollected /\ IF Enabled("sla") THEN observed' \in Levels ELSE UNCHANGED observed
     \/ RowMissed /\ UNCHANGED observed
  /\ Interruptions' <= deployment.outages
  /\ UNCHANGED <<recorded, status, guarantee, window, watched, post, samples, todo, below,
                 deployment, faults>>

\* A window closes; the reversion of its intent is the scheduler's.
WindowCloses ==
  /\ \E i \in Intents : window[i] = "open" /\ window' = [window EXCEPT ![i] = "closed"]
  /\ UNCHANGED <<recorded, status, guarantee, events, watched, post, slaVars, faults>> /\ Quietly

\* Whoever else writes to the tables the monitors read: a request that was given
\* the same row, the scheduler when a window has closed, and the runs on events
\* where the monitor that reports them is not part of the deployment.
OthersWrite ==
  /\ \E i \in Intents :
       \/ /\ \E written \in Statuses : status' = [status EXCEPT ![i] = written]
          /\ UNCHANGED guarantee
       \/ /\ \E g \in Asks \cup {recorded[i]} : guarantee' = [guarantee EXCEPT ![i] = g]
          /\ UNCHANGED status
  /\ UNCHANGED <<recorded, window, events, watched, post, slaVars, faults>> /\ Quietly

Failure ==
  /\ \/ deployment.reachable /\ AcceptedUnheard /\ UNCHANGED slaVars
     \/ (MonitorStops \/ \E s \in Slots : RunDies(s)) /\ UNCHANGED slaVars
     \/ SlaPollDropped /\ UNCHANGED uc1Vars
     \/ /\ RunsLost
        /\ todo' = {} /\ below' = Nothing /\ UNCHANGED <<observed, samples, violations>>
  /\ Fault /\ Quietly

Next ==
  \/ Uc1Poll \/ SlaTick \/ Tick \/ WindowCloses \/ OthersWrite \/ Failure
  \/ \E s \in Slots : RunCalls(s) \/ RunEnds(s)

Spec == Init /\ [][Next]_vars

\* Both loops poll for ever, and every run, a thread of its own, ends: its calls
\* have timeouts and its loop a limit of steps. What it calls is the model's.
FairSpec ==
  /\ Spec
  /\ WF_vars(Uc1Poll) /\ WF_vars(SlaTick)
  /\ \A s \in Slots : WF_vars(RunEnds(s))

-----------------------------------------------------------------------------
(***************************************************************************)
(* Properties.                                                             *)
(***************************************************************************)

Young(i) == {s \in Slots : Used(s) /\ events[s].intent = i /\ events[s].age < Uc1Cooldown}

\* "At most one event per intent every cooldown", of either kind, although the
\* monitors keep nothing in memory, restart, and lose answers and runs.
OneEventPerCooldown ==
  \A i \in Intents : Cardinality(Young(i)) <= 1 /\ Len(violations[i]) <= 1

\* Demand beyond the guarantee, in every prediction of a series that stays live,
\* of the newest standing intent.
Exhausted(i) ==
  /\ Enabled("uc1") /\ i \in Standing /\ \A j \in Standing : j <= i
  /\ FromModel(gaps, quiet)
  /\ guarantee[i] # None /\ \A p \in Predictions : Exhausts(p, guarantee[i])

\* ... is reported again and again for as long as it lasts, although events are
\* not delivered, their runs die, do nothing, lower the guarantee or expand it
\* in part, and time spent in a cooldown counts for nothing afterwards.
ExhaustionIsReported ==
  \A i \in Intents : <>[]Exhausted(i) => []<>(Young(i) # {})

\* What "use case 1 only expands" would need: no apply of an event's run lowers a
\* guarantee. TLC refutes it, as the model asks for the target it likes, or none.
GuaranteeOnlyGrows ==
  [][\A s \in Slots, i \in Intents : ScaleCore(s) /\ guarantee[i] # None =>
       guarantee'[i] >= guarantee[i]]_vars

\* The time between the last lag of a training pair that ends at row j and its
\* target.
TimeAhead(j) ==
  FoldFunctionOnSet(+, 0, gaps, (j + 1)..(j + StepsAhead(TwiceSamplingInterval(gaps))))

\* An event is reported from pairs that look as far ahead as was asked for, and
\* no further than the tolerated gaps make it, if less than half of the intervals
\* of the history are interruptions.
ReportsAreForecasts ==
  [][\A s \in Slots : ~Used(s) /\ events'[s] # Nothing /\ 2 * Outages(gaps) < Len(gaps) - 1 =>
       \A j \in TrainingWindows(gaps) : TimeAhead(j) \in Horizon..(GapFactor * Horizon)]_vars

\* What "only meaningful over a live series" would need as well: no interruption
\* among the lags the forecast starts from. Only the newest row's age is looked
\* at, so TLC refutes it.
ReportsFromLiveSeries ==
  [][\A s \in Slots : ~Used(s) /\ events'[s] # Nothing =>
       \A k \in (Len(gaps) - NLags + 2)..Len(gaps) : gaps[k] <= GapFactor]_vars

\* Every stored event is closed with an outcome, or its run was lost to a fault.
Lost(s) == Open(s) /\ ~Running(s) /\ ~AtMonitor(s)
EventsSettle == \A s \in Slots : Open(s) ~> (~Open(s) \/ (Lost(s) /\ faults > 0))

\* A guarantee of at least t that stays broken under fresh telemetry is reported
\* again and again, through dropped polls and restarts.
BrokenFor(i, t) ==
  /\ Enabled("sla") /\ i \in Sampled
  /\ Fresh /\ observed < t /\ t <= guarantee[i]
BreachIsReported ==
  \A i \in Intents, t \in Targets \ {None} : <>[]BrokenFor(i, t) => []<>(violations[i] # <<>>)
=============================================================================
