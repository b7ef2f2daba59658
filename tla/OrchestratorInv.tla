---------------------------- MODULE OrchestratorInv -----------------------------
(***************************************************************************)
(* The inductive invariant behind what holds of the orchestrator whatever  *)
(* its requests do. IInv of the scheduler is lost here: its calls are not  *)
(* the only ones, and an answer says nothing of the queue any more. What   *)
(* remains is about rows that are still too early to touch, which every    *)
(* caller checks for itself before it applies anything.                    *)
(***************************************************************************)
EXTENDS Orchestrator, WindowSchedulerInv

\* No caller may apply anything for intent i: it is not recorded yet, or waits
\* for its window.
TooEarly(i) == status[i] = "absent" \/ (status[i] = "scheduled" /\ window[i] = "before")

NothingEarly ==
  \A i \in Intents, d \in Domains :
    TooEarly(i) => ~active[d][i] /\ ~Pending(d, "apply", i)

\* The rows the scheduler has before it: those of the query still to be taken
\* up, and the one in hand.
InHand == todo \cup IF pc \in {"cn", "ran"} THEN {cur} ELSE {}

\* Their windows have opened, but for leftovers, whose status is never written.
RowsAreOpen ==
  \A i \in InHand :
    /\ status[i] # "absent"
    /\ job # "cleanup" => window[i] \in {"open", "closed"}

PlanFitsJob == pc \in {"cn", "ran"} /\ plan # "cleanup" => job # "cleanup"

RequestsAreRecorded == \A r \in Requests : mine[r] # NoIntent => status[mine[r]] # "absent"

OwnershipInv ==
  OrchestratorTypeOK /\ NothingEarly /\ RowsAreOpen /\ PlanFitsJob /\ RequestsAreRecorded

-----------------------------------------------------------------------------
\* Nothing goes untracked, if no window moves under a request, no request dies
\* and no model reports what it has done nothing for.

Undisturbed == Habits \cap {"slow", "raises", "restarts", "claims"} = {}

\* The rows some job of the scheduler looks for, when their time has come.
Tracked(i) == status[i] \in InForce \cup {"scheduled", "failed"}

\* What a domain holds for an intent, or is still going to.
HeldOrAsked(d, i) == active[d][i] \/ Pending(d, "apply", i)

\* A request that has asked a domain for anything records how it went.
Responsible(r) == called[r] # {} \/ (ask[r] # NoAsk /\ ask[r].tool = "apply")

TrackedOrHandled ==
  \A i \in Intents, d \in Domains :
    HeldOrAsked(d, i) => Tracked(i) \/ \E r \in Requests : mine[r] = i /\ Responsible(r)

RequestsInOrder ==
  \A r \in Requests : /\ at[r] \notin {"intent", "event"} => ask[r] = NoAsk
                      /\ at[r] = "idle" => mine[r] = NoIntent

ClosedIsLeft == \A i \in Intents : window[i] = "closed" => ~BeingHandled(i)

\* What the scheduler has in hand is in the state its query asked for.
RowsInHand ==
  /\ pc \in {"cn", "ran"} => cur \notin todo /\ job = JobOf(plan)
  /\ \A i \in InHand : /\ job = "activation" => status[i] = "scheduled"
                       /\ job = "reversion" => window[i] = "closed"

\* It waits for one directive at most, and nothing is applied for an intent
\* behind its reversion.
SchedulerCalls ==
  \A d \in Domains : \A k \in 1..Len(inbox[d]) :
    inbox[d][k].from = Scheduler =>
      /\ pc = d /\ answer[Scheduler] = "none"
      /\ inbox[d][k].tool = Tool(plan) /\ inbox[d][k].intent = cur
      /\ \A m \in 1..Len(inbox[d]) : inbox[d][m].from = Scheduler => m = k
      /\ plan = "revert" => \A m \in 1..Len(inbox[d]) :
           inbox[d][m].tool = "apply" /\ inbox[d][m].intent = cur => m < k

\* A confirmed reversion has left nothing, nor is anything still to come.
Confirms(a) == a \in {"reverted", "noop"}

ConfirmedIsReleased ==
  pc \in {"cn", "ran"} /\ plan = "revert" =>
    /\ Confirms(answer[Scheduler]) => ~HeldOrAsked(pc, cur)
    /\ pc = "ran" /\ Confirms(cnAnswer) => ~HeldOrAsked("cn", cur)

TrackedInv ==
  /\ OwnershipInv /\ TrackedOrHandled /\ RequestsInOrder /\ ClosedIsLeft
  /\ RowsInHand /\ SchedulerCalls /\ ConfirmedIsReleased

-----------------------------------------------------------------------------
\* The outcome recorded is the domains', if one request works on an intent, its
\* model calls no revert tools and gives up on nothing, and requests run to
\* their end within the window.

Settling == Habits \subseteq {"early", "varies", "impatient"}

\* Agent d still has a directive for intent i.
Queued(d, i) == \E k \in 1..Len(inbox[d]) : inbox[d][k].intent = i

\* Whose is an intent: at most one request's, and once its window is open while
\* it waits, the scheduler's alone.
OneHandler ==
  /\ \A r, q \in Requests : mine[r] # NoIntent /\ mine[r] = mine[q] => r = q
  /\ \A i \in Intents : status[i] = "scheduled" /\ window[i] # "before" => ~BeingHandled(i)
  /\ \A i \in Intents : status[i] = "absent" => \A d \in Domains : ~Queued(d, i)

LeftoversFailed == job = "cleanup" => \A i \in InHand : status[i] = "failed"

\* A request has a trace from the moment it has an intent, and asks for applies
\* only.
TraceOK(r) ==
  /\ at[r] # "event"
  /\ ask[r] # NoAsk => ask[r].tool = "apply"
  /\ mine[r] = NoIntent => ask[r] = NoAsk /\ called[r] = {} /\ worst[r] = "applied"

\* It waits for one directive, at one domain, for its own intent.
WaitsAt(r, d) ==
  \/ ask[r] # NoAsk /\ ask[r].domain = d
  \/ at[r] = "revertCn" /\ d = "cn"
  \/ at[r] = "revertRan" /\ d = "ran"

RequestsWait ==
  \A r \in Requests, d \in Domains : \A k \in 1..Len(inbox[d]) :
    inbox[d][k].from = r =>
      /\ WaitsAt(r, d) /\ answer[r] = "none" /\ inbox[d][k].intent = mine[r]
      /\ ask[r] # NoAsk => inbox[d][k].tool = "apply"
      /\ \A m \in 1..Len(inbox[d]) : inbox[d][m].from = r => m = k

\* What the table may say of the intent before the settling has spoken.
StatusFitsTrace(r) ==
  mine[r] # NoIntent =>
    /\ called[r] = {} => status[mine[r]] \notin InForce
    /\ status[mine[r]] = "failed" =>
         at[r] \in {"settle", "revertCn", "revertRan"} /\ InferStatus(r) = "failed"

\* The settling of r will fail its intent, or what a domain answered it is so.
Refusal(a) == a \in {"failed", "error"}
Failing(r) == worst[r] = "failed" \/ (ask[r] # NoAsk /\ Refusal(answer[r]))

CalledIsHeld(r) ==
  /\ mine[r] # NoIntent /\ at[r] \in {"intent", "net", "settle"} /\ ~Failing(r)
  /\ status[mine[r]] \notin {"scheduled", "failed"}
  => \A d \in Domains :
       /\ d \in called[r] => active[d][mine[r]]
       /\ ask[r] # NoAsk /\ ask[r].domain = d /\ answer[r] # "none" => active[d][mine[r]]
       /\ \A k \in 1..Len(inbox[d]) :
            inbox[d][k].intent = mine[r] => inbox[d][k].from = r

\* The same of the scheduler's activation: an agent serves in order, so that
\* nothing of the intent is left behind the directive that is answered.
Tells(d, a) == Refusal(a) \/ (active[d][cur] /\ ~Queued(d, cur))

ActivationIsHeld ==
  pc \in {"cn", "ran"} /\ plan = "apply" =>
    /\ answer[Scheduler] # "none" => Tells(pc, answer[Scheduler])
    /\ pc = "ran" => Tells("cn", cnAnswer)
    /\ \A k, m \in 1..Len(inbox[pc]) :
         inbox[pc][k].from = Scheduler /\ inbox[pc][m].intent = cur => m <= k

\* What holds of an intent in force that nobody works on, and nothing changes.
InForceIsHeld ==
  \A i \in Intents : status[i] \in InForce /\ window[i] # "closed" /\ ~BeingHandled(i) =>
    \A d \in Domains : active[d][i] /\ ~Queued(d, i)

SettlingInv ==
  /\ OneHandler /\ LeftoversFailed /\ RequestsWait /\ ActivationIsHeld /\ InForceIsHeld
  /\ \A r \in Requests : TraceOK(r) /\ StatusFitsTrace(r) /\ CalledIsHeld(r)

OutcomeInv == TrackedInv /\ SettlingInv

-----------------------------------------------------------------------------
\* What a step may do, as the proofs use it. Rows are recorded once and windows
\* go one way ...
RowsMoveOn ==
  \A i \in Intents :
    /\ status[i] # "absent" => status'[i] # "absent"
    /\ TooEarly(i)' => TooEarly(i)
    /\ status[i] # "absent" /\ window[i] \in {"open", "closed"}
         => window'[i] \in {"open", "closed"}

\* ... nothing is applied for a row that is too early ...
NothingAppliedEarly ==
  \A i \in Intents, d \in Domains :
    TooEarly(i) => ~active'[d][i] /\ ~Pending(d, "apply", i)'

\* ... and a row that waits for its window is left to wait.
ScheduledKept == \A i \in Intents : status[i] = "scheduled" => status'[i] = "scheduled"

\* Thread t waits for one directive at most, at agent d.
Sole(t, d) ==
  \A e \in Domains : \A k \in 1..Len(inbox[e]) :
    inbox[e][k].from = t => e = d /\ \A m \in 1..Len(inbox[e]) : inbox[e][m].from = t => m = k

\* It is decided by the scheduler's step on that intent, its window open.
Decided ==
  \A i \in Intents : status[i] = "scheduled" /\ status'[i] # "scheduled" =>
    cur = i /\ pc = "ran" /\ window[i] # "before"
=================================================================================
