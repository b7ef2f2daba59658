------------------------------- MODULE Nwdaf --------------------------------
(***************************************************************************)
(* The history of one slice's throughput and what the NWDAF makes of it:   *)
(* the windows it may train on, how many rows ahead the horizon is, and    *)
(* whether its answer comes from the model or is a mock. The regression is *)
(* external. Rows are kept as the time each one came after the one before. *)
(***************************************************************************)
EXTENDS Integers, FiniteSets, Sequences, SequencesExt

CONSTANTS
  NLags, MinTrainingRows, HistoryLimit,
  MaxStaleness,      \* NWDAF_MAX_STALENESS_S, in collection intervals
  Horizon,           \* horizon_seconds, in collection intervals
  DefaultInterval    \* COLLECT_INTERVAL in its own unit

ASSUME NwdafAssumption ==
  /\ {NLags, MinTrainingRows, HistoryLimit, Horizon, DefaultInterval} \subseteq Nat \ {0}
  /\ MaxStaleness \in Nat

VARIABLES
  gaps,    \* per row of the history, the time since the row before; 0 for the first
  quiet    \* age of the newest row

historyVars == <<gaps, quiet>>

\* Older than any limit: ages are not told apart beyond it.
MaxQuiet == MaxStaleness + 2

HistoryTypeOK ==
  /\ gaps \in Seq(0..MaxQuiet + 1) /\ Len(gaps) <= HistoryLimit
  /\ quiet \in 0..MaxQuiet

HistoryInit == gaps = <<>> /\ quiet = 0

GapFactor == 3

\* Mutant: the mean, which an interruption inflates.
TwiceMeanInterval(h) ==
  (2 * FoldFunction(LAMBDA a, b : a + b, 0, Tail(h))) \div (Len(h) - 1)

\* Twice the median of the times between rows, so that it stays an integer.
TwiceSamplingInterval(h) ==
  LET deltas == SortSeq(Tail(h), LAMBDA a, b : a < b)
      n == Len(deltas)
  IN IF n = 0 THEN 2 * DefaultInterval
     ELSE deltas[(n + 1) \div 2] + deltas[n \div 2 + 1]

\* Python's round(a / b): to the nearest integer, halves to the even one.
Round(a, b) ==
  LET q == a \div b
      up == 2 * (a % b) > b \/ (2 * (a % b) = b /\ q % 2 = 1)
  IN IF up THEN q + 1 ELSE q

\* The horizon in rows, from twice the interval between them; at least one.
StepsAhead(twiceInterval) ==
  LET steps == Round(2 * Horizon, twiceInterval) IN IF steps < 1 THEN 1 ELSE steps

\* The rows a training pair may end its lags at: no gap between its first lag
\* and its target.
TrainingWindows(h) ==
  LET twice == TwiceSamplingInterval(h)
      follows(k) == 2 * h[k] <= GapFactor * twice
  IN {j \in NLags..(Len(h) - StepsAhead(twice)) :
        \A k \in (j - NLags + 2)..(j + StepsAhead(twice)) : follows(k)}

\* Mutant: age is not looked at.
FromModelHoweverOld(h, age) ==
  /\ Len(h) >= NLags + MinTrainingRows
  /\ Cardinality(TrainingWindows(h)) >= MinTrainingRows

\* The answer to an analytics request is the model's, and not a mock.
FromModel(h, age) ==
  /\ Len(h) >= NLags + MinTrainingRows
  /\ age <= MaxStaleness
  /\ Cardinality(TrainingWindows(h)) >= MinTrainingRows

-----------------------------------------------------------------------------
\* The collector's rows, and the passing of time without one.

\* Interruptions of the collector.
Outages(h) == Cardinality({k \in 2..Len(h) : h[k] > 1})

\* Mutant: all rows are read.
RecentAll(h) == h

\* HISTORY_LIMIT: older rows are not read.
Recent(h) == IF Len(h) <= HistoryLimit THEN h ELSE [Tail(h) EXCEPT ![1] = 0]

RowCollected ==
  /\ gaps' = Recent(Append(gaps, IF gaps = <<>> THEN 0 ELSE quiet + 1))
  /\ quiet' = 0

RowMissed ==
  /\ quiet' = IF quiet < MaxQuiet THEN quiet + 1 ELSE quiet
  /\ UNCHANGED gaps
=============================================================================
