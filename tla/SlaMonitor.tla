----------------------------- MODULE SlaMonitor -----------------------------
(***************************************************************************)
(* Use Case 2: the orchestrator's SLA monitor samples the slice of each    *)
(* intent in force and records a violation after a streak of samples below *)
(* the guarantee, at most once per cooldown.                               *)
(***************************************************************************)
EXTENDS Uc1Monitor

CONSTANTS
  Streak,         \* SLA_VIOLATION_STREAK
  SlaCooldown,    \* SLA_VIOLATION_COOLDOWN_SECONDS, in collection intervals
  SlaMaxAge,      \* SLA_MAX_TELEMETRY_AGE_SECONDS, in collection intervals
  Levels          \* throughputs the collector may observe, in tenths of a Mbps

ASSUME SlaAssumption ==
  /\ {Streak, SlaCooldown} \subseteq Nat \ {0} /\ SlaMaxAge \in Nat
  /\ Levels \subseteq Nat /\ Levels # {}

VARIABLES
  observed,     \* throughput in the newest row of the slice
  samples,      \* the last Streak samples of each intent: was it compliant
  violations,   \* ages of the violation events within the cooldown
  todo,         \* rows of the poll still to be sampled
  below         \* the intent just found below its guarantee, or Nothing

slaVars == <<observed, samples, violations, todo, below>>

Row == [intent : Intents, target : Nat]

SlaTypeOK ==
  /\ observed \in Levels
  /\ samples \in [Intents -> Seq(BOOLEAN)]
  /\ violations \in [Intents -> Seq(0..SlaCooldown - 1)]
  /\ \A i \in Intents : Len(samples[i]) <= Streak
  /\ todo \subseteq Row
  /\ below \in Intents \cup {Nothing}

\* No row yet.
SlaInit ==
  /\ observed = CHOOSE level \in Levels : TRUE
  /\ samples = [i \in Intents |-> <<>>]
  /\ violations = [i \in Intents |-> <<>>]
  /\ todo = {} /\ below = Nothing

Fresh == gaps # <<>> /\ quiet <= SlaMaxAge
SlaIdle == todo = {} /\ below = Nothing

\* The poll reads the intents in force, within their window, with a target.
Sampled == {i \in Intents : InForce(i) /\ window[i] # "closed" /\ guarantee[i] # None}

SlaPoll ==
  /\ SlaIdle /\ Sampled # {}
  /\ todo' = {[intent |-> i, target |-> guarantee[i]] : i \in Sampled}
  /\ UNCHANGED <<observed, samples, violations, below>>

Newest(seq) == IF Len(seq) <= Streak THEN seq ELSE Tail(seq)

\* No fresh telemetry: no sample.
SkipSample(r) ==
  /\ r \in todo /\ below = Nothing /\ ~Fresh
  /\ todo' = todo \ {r}
  /\ UNCHANGED <<observed, samples, violations, below>>

SampleOne(r) ==
  /\ r \in todo /\ below = Nothing /\ Fresh
  /\ todo' = todo \ {r}
  /\ samples' = [samples EXCEPT ![r.intent] = Newest(Append(@, observed >= r.target))]
  /\ below' = IF observed >= r.target THEN Nothing ELSE r.intent
  /\ UNCHANGED <<observed, violations>>

\* Mutant: one sample more than the streak is asked for.
BrokenForLonger(i) == Len(samples[i]) > Streak /\ ~\E k \in DOMAIN samples[i] : samples[i][k]

Broken(i) == Len(samples[i]) = Streak /\ ~\E k \in DOMAIN samples[i] : samples[i][k]
Recently(i) == violations[i] # <<>>

MaybeViolation ==
  /\ below # Nothing
  /\ violations' = IF Broken(below) /\ ~Recently(below)
                   THEN [violations EXCEPT ![below] = Append(@, 0)] ELSE violations
  /\ below' = Nothing
  /\ UNCHANGED <<observed, samples, todo>>

\* A query fails and the rest of the poll is dropped, or the orchestrator
\* restarts.
SlaPollDropped ==
  /\ ~SlaIdle
  /\ todo' = {} /\ below' = Nothing
  /\ UNCHANGED <<observed, samples, violations>>

\* Time: violations beyond the cooldown, the first of them, are read no more.
ViolationsAge ==
  violations' = [i \in Intents |->
    LET older == [k \in DOMAIN violations[i] |-> violations[i][k] + 1]
        over == {k \in DOMAIN older : older[k] >= SlaCooldown}
    IN SubSeq(older, Cardinality(over) + 1, Len(older))]
=============================================================================
