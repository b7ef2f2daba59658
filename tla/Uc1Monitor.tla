----------------------------- MODULE Uc1Monitor -----------------------------
(***************************************************************************)
(* Use Case 1: the CN-NSSMF's monitor watches the newest standing intent of*)
(* its slice, asks the NWDAF for the demand to come, and reports what      *)
(* exceeds the guarantee to the orchestrator, which handles each event in a*)
(* thread of its own: the model, told to scale the slice up, calls the     *)
(* tools it is offered with the arguments it likes, on the event's intent, *)
(* and the outcome is settled from the domains' statuses.                  *)
(*                                                                         *)
(* External: the prediction, the model of the orchestrator and the domain  *)
(* agents it calls.                                                        *)
(***************************************************************************)
EXTENDS Nwdaf

CONSTANTS
  Intents,        \* numbered in the order they were received
  None,           \* no guarantee (NULL)
  Nothing,
  Predictions,    \* predicted_thp_mbps, in tenths
  Uc1Cooldown,    \* UC1_COOLDOWN_SECONDS, in collection intervals
  Asks,           \* targets the model may ask for instead of the event's
  MaxEvents       \* bound on events that somebody may still read

ASSUME Uc1Assumption ==
  /\ Intents \subseteq Nat /\ Predictions \subseteq Nat /\ Asks \subseteq Nat
  /\ Uc1Cooldown \in Nat \ {0} /\ MaxEvents \in Nat \ {0}

VARIABLES
  recorded,    \* target each intent was recorded with; never written again
  status,      \* of each intent
  guarantee,   \* GBR of its active policy, else its target
  window,      \* "none", "open" or "closed"
  events,      \* predicted_exhaustion events and the runs on them
  watched,     \* what the poll found to watch: the intent and its guarantee
  post         \* the event to deliver, or delivered in vain; "idle" otherwise

uc1Vars == <<recorded, status, guarantee, window, events, watched, post>>

Slots == 1..MaxEvents
Statuses == {"applied", "degraded", "failed"}
\* "acted": the status the run has given the intent.
Outcomes == {"open", "undelivered", "no_action", "acted"}
Event == [intent : Intents, age : 0..Uc1Cooldown, target : Nat, outcome : Outcomes,
          run : {"none", "loop", "close"}, core : {"none", "applied", "failed"},
          result : Outcomes]
Watched == [intent : Intents, guarantee : Nat \cup {None}]
Post == [slot : Slots, step : {"send", "mark"}]

ASSUME NothingAssumption == Nothing \notin Event \cup Watched \cup Post \cup Intents

Uc1TypeOK ==
  /\ recorded \in [Intents -> Nat \cup {None}]
  /\ status \in [Intents -> Statuses]
  /\ guarantee \in [Intents -> Nat \cup {None}]
  /\ window \in [Intents -> {"none", "open", "closed"}]
  /\ events \in [Slots -> Event \cup {Nothing}]
  /\ watched \in Watched \cup {Nothing}
  /\ post \in Post \cup {Nothing}

Used(s) == events[s] # Nothing
Open(s) == Used(s) /\ events[s].outcome = "open"
Running(s) == Used(s) /\ events[s].run # "none"
AtMonitor(s) == post # Nothing /\ post.slot = s

-----------------------------------------------------------------------------
\* The monitor.

InForce(i) == status[i] \in {"applied", "degraded"}
Standing == {i \in Intents : InForce(i) /\ window[i] = "none"}

ReadNewest(ids) ==
  /\ watched = Nothing /\ post = Nothing
  /\ \E i \in ids : /\ \A j \in ids : j <= i
                    /\ watched' = [intent |-> i, guarantee |-> guarantee[i]]
  /\ UNCHANGED <<recorded, status, guarantee, window, events, post>>

\* Mutant: an intent met in part is left alone.
WatchApplied == ReadNewest({i \in Standing : status[i] = "applied"})

\* The poll reads the newest standing intent and its guarantee.
Watch == ReadNewest(Standing)

\* UC1_MARGIN is 10 %.
Exhausts(predicted, g) == 10 * predicted > 11 * g

\* The new guarantee: the prediction and UC1_HEADROOM, rounded up to a Mbps.
NewTarget(predicted) == 10 * ((11 * predicted + 99) \div 100)

\* Mutant: events that are settled do not count.
InCooldownOpen(i) ==
  \E s \in Slots : Open(s) /\ events[s].intent = i /\ events[s].age < Uc1Cooldown

\* Asked of the table of events, so that a restart does not reset it.
InCooldown(i) ==
  \E s \in Slots : Used(s) /\ events[s].intent = i /\ events[s].age < Uc1Cooldown

\* A guarantee to compare with, a prediction of the model and beyond it, and no
\* report just before.
ToReport(predicted) ==
  /\ watched.guarantee # None /\ FromModel(gaps, quiet)
  /\ Exhausts(predicted, watched.guarantee) /\ ~InCooldown(watched.intent)

NothingToReport(predicted) ==
  /\ watched # Nothing /\ ~ToReport(predicted)
  /\ watched' = Nothing
  /\ UNCHANGED <<recorded, status, guarantee, window, events, post>>

\* Nobody reads the row again: there is none, or it is beyond the cooldown and
\* no one is at work on it.
Forgotten(s) ==
  Used(s) => events[s].age = Uc1Cooldown /\ ~Running(s) /\ ~AtMonitor(s)

\* The event is stored first and delivered afterwards.
Report(predicted) ==
  /\ watched # Nothing /\ ToReport(predicted)
  /\ \E s \in Slots :
       /\ Forgotten(s) /\ \A t \in Slots : Forgotten(t) => s <= t
       /\ events' = [events EXCEPT ![s] =
            [intent |-> watched.intent, age |-> 0, target |-> NewTarget(predicted),
             outcome |-> "open", run |-> "none", core |-> "none", result |-> "open"]]
       /\ post' = [slot |-> s, step |-> "send"]
  /\ watched' = Nothing
  /\ UNCHANGED <<recorded, status, guarantee, window>>

\* Accepted: the orchestrator starts a thread and says so.
Delivered ==
  /\ post # Nothing /\ post.step = "send"
  /\ events' = [events EXCEPT ![post.slot].run = "loop"]
  /\ post' = Nothing
  /\ UNCHANGED <<recorded, status, guarantee, window, watched>>

\* Not accepted.
NotDelivered ==
  /\ post # Nothing /\ post.step = "send"
  /\ post' = [post EXCEPT !.step = "mark"]
  /\ UNCHANGED <<recorded, status, guarantee, window, events, watched>>

\* Accepted, but the monitor does not hear of it.
AcceptedUnheard ==
  /\ post # Nothing /\ post.step = "send"
  /\ events' = [events EXCEPT ![post.slot].run = "loop"]
  /\ post' = [post EXCEPT !.step = "mark"]
  /\ UNCHANGED <<recorded, status, guarantee, window, watched>>

MarkUndelivered ==
  /\ post # Nothing /\ post.step = "mark"
  /\ events' = [events EXCEPT ![post.slot].outcome = "undelivered"]
  /\ post' = Nothing
  /\ UNCHANGED <<recorded, status, guarantee, window, watched>>

\* The poll fails, finds the NWDAF out of reach, or the agent restarts.
MonitorStops ==
  /\ watched # Nothing \/ post # Nothing
  /\ watched' = Nothing /\ post' = Nothing
  /\ UNCHANGED <<recorded, status, guarantee, window, events>>

-----------------------------------------------------------------------------
\* The run of the orchestrator on event s.

Calling(s) == Used(s) /\ events[s].run = "loop"

\* The target of a directive to the Core: the event's or another; the recorded
\* one if the model omits it, and any the Core's model likes if there is none.
Rates(e) == {e.target} \cup Asks \cup ({recorded[e.intent]} \ {None})

Guaranteed(s, rate) == guarantee' = [guarantee EXCEPT ![events[s].intent] = rate]

\* The model calls cn_nssmf_apply_qos, once more if it likes. A directive that
\* failed may have stored a policy all the same, and a failure is not forgotten.
ScaleCore(s) ==
  /\ Calling(s)
  /\ \/ /\ events' = [events EXCEPT ![s].core = IF @ = "failed" THEN @ ELSE "applied"]
        /\ \E rate \in Rates(events[s]) : Guaranteed(s, rate)
     \/ /\ events' = [events EXCEPT ![s].core = "failed"]
        /\ UNCHANGED guarantee \/ \E rate \in Rates(events[s]) : Guaranteed(s, rate)
  /\ UNCHANGED <<recorded, status, window, watched, post>>

\* The model calls cn_nssmf_revert_qos, which does not count as acting on the
\* event. It takes the policy away.
RevertCore(s) ==
  /\ Calling(s)
  /\ Guaranteed(s, recorded[events[s].intent])
  /\ UNCHANGED <<recorded, status, window, events, watched, post>>

\* The model calls update_intent_status; what is not in force is as if failed.
TellStatus(s) ==
  /\ Calling(s)
  /\ \E told \in Statuses : status' = [status EXCEPT ![events[s].intent] = told]
  /\ UNCHANGED <<recorded, guarantee, window, events, watched, post>>

\* Both domains or neither, and the worse of the two.
Inferred(core, ran) ==
  IF {core, ran} \cap {"none", "failed"} # {} THEN "failed"
  ELSE IF ran = "degraded" THEN "degraded" ELSE "applied"

\* The loop ends and the intent's status is written, unless the model did
\* nothing.
LoopEnds(s) ==
  /\ Calling(s)
  /\ \E ran \in {"none", "applied", "degraded", "failed"} :
       LET e == events[s]
           acted == {e.core, ran} # {"none"} IN
       /\ events' = [events EXCEPT ![s].run = "close", ![s].core = "none",
                                   ![s].result = IF acted THEN "acted" ELSE "no_action"]
       /\ status' = IF acted THEN [status EXCEPT ![e.intent] = Inferred(e.core, ran)] ELSE status
  /\ UNCHANGED <<recorded, guarantee, window, watched, post>>

\* The thread is over, and what it knew is gone with it.
Over(e) == [e EXCEPT !.run = "none", !.core = "none", !.result = "open"]

CloseWith(s, outcome) ==
  /\ Used(s) /\ events[s].run = "close"
  /\ events' = [events EXCEPT ![s] = [Over(@) EXCEPT !.outcome = outcome]]
  /\ UNCHANGED <<recorded, status, guarantee, window, watched, post>>

\* Mutant: an event without action is left as it is.
CloseEventActedOn(s) ==
  CloseWith(s, IF events[s].result = "no_action" THEN events[s].outcome ELSE events[s].result)

CloseEvent(s) == CloseWith(s, events[s].result)

\* The thread ends with an exception (the model's endpoint, the database).
RunDies(s) ==
  /\ Running(s)
  /\ events' = [events EXCEPT ![s] = Over(@)]
  /\ UNCHANGED <<recorded, status, guarantee, window, watched, post>>

\* The orchestrator restarts: every run is gone.
RunsLost ==
  /\ \E s \in Slots : Running(s)
  /\ events' = [s \in Slots |-> IF Used(s) THEN Over(events[s]) ELSE Nothing]
  /\ UNCHANGED <<recorded, status, guarantee, window, watched, post>>

-----------------------------------------------------------------------------
\* Time: an event beyond the cooldown that nobody works on is read no more.
Aged(s) ==
  IF Forgotten(s) THEN Nothing
  ELSE [events[s] EXCEPT !.age = IF @ < Uc1Cooldown THEN @ + 1 ELSE @]

\* Whatever the monitor and the runs are doing.
EventsAge == events' = [s \in Slots |-> Aged(s)]
=============================================================================
