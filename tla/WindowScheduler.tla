-------------------------- MODULE WindowScheduler ---------------------------
(***************************************************************************)
(* The window scheduler of the orchestrator (Use Case 2): a daemon thread  *)
(* that polls the intents table and runs three jobs in turn.               *)
(*   activation  apply both domains of a scheduled intent whose window has *)
(*               opened, and record the outcome;                           *)
(*   reversion   revert both domains of an intent in force whose window    *)
(*               has closed;                                               *)
(*   cleanup     revert both domains of a failed intent that still has an  *)
(*               active row.                                               *)
(* Each job works on the rows its query returned when it started. The      *)
(* orchestrator may be killed and restarted at any step; the tables        *)
(* survive.                                                                *)
(***************************************************************************)
EXTENDS DomainAgents

CONSTANT
  Scheduler,   \* the scheduler's thread, one of the Callers
  NoIntent     \* no intent is being handled

ASSUME SchedulerAssumption == Scheduler \in Callers
ASSUME NoIntentAssumption == NoIntent \notin Intents

VARIABLES
  window,      \* window[i]: where NOW() is in the window of intent i
  status,      \* status[i]: column status of the intents table
  job,         \* the job the scheduler is at
  pc,          \* where it is inside the job
  todo,        \* rows of the job's query that it has not taken up yet
  cur,         \* the intent it is handling
  plan,        \* what it is doing to it
  cnAnswer     \* what the Core answered, while the RAN is being called

tableVars == <<window, status>>
schedulerVars == <<job, pc, todo, cur, plan, cnAnswer>>
vars == <<agentVars, tableVars, schedulerVars>>

\* "none": neither bound is set. An intent recorded less than the activation
\* grace before its window starts counts as "open".
Windows == {"none", "before", "open", "closed"}
\* "absent" is a row not inserted yet; 'negotiating', which no query tells from
\* 'decomposed', stands with it.
Statuses == {"absent", "received", "decomposed", "scheduled",
             "applied", "degraded", "reverted", "failed"}
InForce == {"applied", "degraded"}

Jobs == {"activation", "reversion", "cleanup"}
Points == {"poll", "pick", "cn", "ran"}
Plans == {"apply", "expire", "rollback", "revert", "cleanup"}

Unheld(i) == \A d \in Domains : ~active[d][i]

TypeOK ==
  /\ AgentsTypeOK
  /\ window \in [Intents -> Windows]
  /\ status \in [Intents -> Statuses]
  /\ job \in Jobs /\ pc \in Points /\ plan \in Plans
  /\ todo \subseteq Intents
  /\ cur \in Intents \cup {NoIntent}
  /\ pc \in {"cn", "ran"} => cur \in Intents
  /\ cnAnswer \in Answers \cup {"none"}

SchedulerInit ==
  /\ job = "activation" /\ pc = "poll" /\ todo = {}
  /\ cur = NoIntent /\ plan = "apply" /\ cnAnswer = "none"

\* The scheduler starts on a database that holds scheduled intents, intents
\* the orchestrator has put in force, and failed ones with leftovers.
Init ==
  /\ AgentsInit
  /\ SchedulerInit
  /\ window \in [Intents -> {"none", "before", "open"}]
  /\ status \in [Intents -> {"scheduled", "applied", "failed"}]
  /\ active \in [Domains -> [Intents -> BOOLEAN]]
  /\ \A i \in Intents :
       /\ (status[i] = "scheduled") <=> (window[i] = "before")
       /\ status[i] = "scheduled" => Unheld(i)
       /\ status[i] \in InForce => \A d \in Domains : active[d][i]

-----------------------------------------------------------------------------
\* The three queries. A definition named after another with a suffix, here and
\* below, is a mutant: the same code with a mistake some property must catch.

DueActivationsAnyTime == {i \in Intents : status[i] = "scheduled"}
DueActivationsInWindow == {i \in Intents : status[i] = "scheduled" /\ window[i] = "open"}

DueActivations ==
  {i \in Intents : status[i] = "scheduled" /\ window[i] \in {"open", "closed"}}

DueIntentsAnyTime == {i \in Intents : status[i] \in InForce}
DueIntentsApplied == {i \in Intents : status[i] = "applied" /\ window[i] = "closed"}

DueIntents == {i \in Intents : status[i] \in InForce /\ window[i] = "closed"}

FailedWithLeftoversInBoth ==
  {i \in Intents : status[i] = "failed" /\ \A d \in Domains : active[d][i]}

FailedWithLeftovers == {i \in Intents : status[i] = "failed" /\ ~Unheld(i)}

Due(j) == CASE j = "activation" -> DueActivations
            [] j = "reversion" -> DueIntents
            [] j = "cleanup" -> FailedWithLeftovers

-----------------------------------------------------------------------------
\* The thread.

\* The jobs run in order, for ever; after the last one the thread sleeps, which
\* here is only a wait before the next poll.
NextJob ==
  /\ job' = CASE job = "activation" -> "reversion"
              [] job = "reversion" -> "cleanup"
              [] job = "cleanup" -> "activation"
  /\ pc' = "poll" /\ todo' = {} /\ cur' = NoIntent /\ cnAnswer' = "none"
  /\ UNCHANGED plan

\* The query of the job; with no rows, its loop is over at once.
Poll ==
  /\ pc = "poll"
  /\ IF Due(job) = {} THEN NextJob
     ELSE todo' = Due(job) /\ pc' = "pick" /\ UNCHANGED <<job, cur, plan, cnAnswer>>
  /\ UNCHANGED <<agentVars, tableVars>>

Tool(p) == IF p = "apply" THEN "apply" ELSE "revert"

BeginWithoutIntent(p, i) ==
  /\ plan' = p /\ cur' = cur /\ pc' = "cn" /\ cnAnswer' = "none"
  /\ CallRemoteTool(Scheduler, "cn", Tool(p), i)

\* Starts carrying out p on intent i, in the Core first.
Begin(p, i) ==
  /\ plan' = p /\ cur' = i /\ pc' = "cn" /\ cnAnswer' = "none"
  /\ CallRemoteTool(Scheduler, "cn", Tool(p), i)

\* An activation whose window is over by now is rolled back instead.
TakeUp(i) ==
  /\ pc = "pick" /\ i \in todo
  /\ todo' = todo \ {i}
  /\ Begin(CASE job = "activation" -> IF window[i] = "closed" THEN "expire" ELSE "apply"
             [] job = "reversion" -> "revert"
             [] job = "cleanup" -> "cleanup", i)
  /\ UNCHANGED <<tableVars, job>>

\* Whatever the Core answered, the RAN is called next.
CoreAnswered ==
  /\ pc = "cn" /\ answer[Scheduler] # "none"
  /\ cnAnswer' = answer[Scheduler]
  /\ pc' = "ran"
  /\ CallRemoteTool(Scheduler, "ran", Tool(plan), cur)
  /\ UNCHANGED <<tableVars, job, todo, cur, plan>>

-----------------------------------------------------------------------------
\* Both domains have answered.

BothAnswered(p) == pc = "ran" /\ plan = p /\ answer[Scheduler] # "none"
DomainAnswersRanOnly == {answer[Scheduler]}
DomainAnswers == {cnAnswer, answer[Scheduler]}

ConfirmedByAnyAnswer == "error" \notin DomainAnswers

\* A revert counts only when the domain confirms it.
Confirmed == DomainAnswers \subseteq {"reverted", "noop"}

\* The current intent is done with; the last row ends the job.
Back ==
  /\ IF todo = {} THEN NextJob
     ELSE /\ pc' = "pick" /\ cur' = NoIntent /\ cnAnswer' = "none"
          /\ UNCHANGED <<job, todo, plan>>
  /\ UNCHANGED agentVars

MarkStatus(s) == status' = [status EXCEPT ![cur] = s] /\ UNCHANGED window

\* An activation with an answer missing stays 'scheduled' for the next poll.
ActivationIncomplete ==
  /\ BothAnswered("apply") /\ "error" \in DomainAnswers
  /\ Back
  /\ UNCHANGED tableVars

\* One domain refused: both are reverted before the intent fails.
ActivationRefused ==
  /\ BothAnswered("apply") /\ "error" \notin DomainAnswers
  /\ "failed" \in DomainAnswers
  /\ Begin("rollback", cur)
  /\ UNCHANGED <<tableVars, job, todo>>

Activated ==
  /\ BothAnswered("apply") /\ DomainAnswers \cap {"error", "failed"} = {}
  /\ MarkStatus(IF "degraded" \in DomainAnswers THEN "degraded" ELSE "applied")
  /\ Back

\* The answers of the rollback are not looked at.
RolledBack ==
  /\ BothAnswered("rollback")
  /\ MarkStatus("failed")
  /\ Back

Expired ==
  /\ BothAnswered("expire") /\ Confirmed
  /\ MarkStatus("failed")
  /\ Back

Reverted ==
  /\ BothAnswered("revert") /\ Confirmed
  /\ MarkStatus("reverted")
  /\ Back

\* Left as it is for the next poll. The cleanup job never marks anything.
LeftForNextPoll ==
  /\ \/ (BothAnswered("expire") \/ BothAnswered("revert")) /\ ~Confirmed
     \/ BothAnswered("cleanup")
  /\ Back
  /\ UNCHANGED tableVars

ActivateOne == ActivationIncomplete \/ ActivationRefused \/ Activated \/ RolledBack \/ Expired
RevertOne == Reverted \/ LeftForNextPoll

-----------------------------------------------------------------------------
\* Faults of the orchestrator.

\* A step that writes the status of the current intent.
Marks ==
  \/ BothAnswered("apply") /\ DomainAnswers \cap {"error", "failed"} = {}
  \/ BothAnswered("rollback")
  \/ (BothAnswered("expire") \/ BothAnswered("revert")) /\ Confirmed

\* The database refuses the query, or the update of a status: the job's
\* except clause drops the rest of its rows.
PollError ==
  /\ pc = "poll" \/ Marks
  /\ Fault
  /\ NextJob
  /\ UNCHANGED <<active, inbox, answer, tableVars>>

\* The process is killed and comes back; its calls in progress go on.
OrchestratorRestart ==
  /\ Fault
  /\ inbox' = [d \in Domains |-> Orphaned(inbox[d], Callers)]
  /\ answer' = [t \in Callers |-> "none"]
  /\ job' = "activation" /\ pc' = "poll" /\ todo' = {}
  /\ cur' = NoIntent /\ plan' = "apply" /\ cnAnswer' = "none"
  /\ UNCHANGED <<active, tableVars>>

\* The clock.
WindowOpens(i) ==
  /\ window[i] = "before"
  /\ window' = [window EXCEPT ![i] = "open"]
  /\ UNCHANGED <<agentVars, status, schedulerVars>>

WindowCloses(i) ==
  /\ window[i] = "open"
  /\ window' = [window EXCEPT ![i] = "closed"]
  /\ UNCHANGED <<agentVars, status, schedulerVars>>

-----------------------------------------------------------------------------
Loop ==
  \/ Poll
  \/ \E i \in Intents : TakeUp(i)
  \/ CoreAnswered
  \/ ActivateOne \/ RevertOne

Agents == AgentsNext /\ UNCHANGED <<tableVars, schedulerVars>>

Clock == \E i \in Intents : WindowOpens(i) \/ WindowCloses(i)

Next == Loop \/ Agents \/ Clock \/ PollError \/ OrchestratorRestart

Spec == Init /\ [][Next]_vars

\* The daemon thread keeps running, and an agent finishes what it is given:
\* its loop is bounded and so is every call it makes.
Fairness ==
  /\ WF_vars(Loop)
  /\ \A d \in Domains : WF_vars(Serve(d) /\ UNCHANGED <<tableVars, schedulerVars>>)

FairSpec == Spec /\ Fairness

-----------------------------------------------------------------------------
(***************************************************************************)
(* Safety.                                                                 *)
(***************************************************************************)

\* Agent d still has a directive for intent i to carry out.
Pending(d, tool, i) ==
  \E k \in 1..Len(inbox[d]) : inbox[d][k].tool = tool /\ inbox[d][k].intent = i

\* Until the window of a scheduled intent opens, no domain holds anything for
\* it and no directive to apply it is under way ("nothing touches the Core/RAN
\* yet").
NotBeforeWindow ==
  \A i \in Intents : status[i] = "scheduled" /\ window[i] = "before" =>
    \A d \in Domains : ~active[d][i] /\ ~Pending(d, "apply", i)

\* While the window lasts, an intent recorded applied or degraded is held by
\* both domains and no revert of it is queued: an activation is never half
\* done, whatever was lost, timed out or restarted on the way.
InForceInBothDomains ==
  \A i \in Intents : status[i] \in InForce /\ window[i] # "closed" =>
    \A d \in Domains : active[d][i] /\ ~Pending(d, "revert", i)

\* An apply that outlived its caller never lands after the outcome of the
\* intent is recorded: a directive to apply is queued only for a due intent
\* that is still scheduled.
NoLateApply ==
  \A i \in Intents, d \in Domains : Pending(d, "apply", i) =>
    status[i] = "scheduled" /\ window[i] # "before"

\* 'reverted' is recorded only when neither domain holds the intent any
\* more, and nothing brings it back (_revert_one marks it on two structured
\* confirmations).
RevertedMeansReleased == \A i \in Intents : status[i] = "reverted" => Unheld(i)

\* The scheduler keeps the promise of ScheduledGuarantee: step by step, its
\* calls, retries, rollbacks and restarts are steps of that specification or
\* leave it where it is.
Held == [i \in Intents |-> {d \in Domains : active[d][i]}]
Guarantee == INSTANCE ScheduledGuarantee WITH held <- Held
KeepsTheGuarantee == Guarantee!Spec

(***************************************************************************)
(* Liveness, under FairSpec and finitely many faults.                      *)
(***************************************************************************)

\* A window that opened is decided: the intent does not stay scheduled.
ActivationIsDecided ==
  \A i \in Intents :
    status[i] = "scheduled" /\ window[i] # "before" ~> status[i] # "scheduled"

\* After the window, or once an intent has failed, with or without a window,
\* nothing stays in force: not a guarantee that was applied, not half an
\* activation, not the leftovers of a rollback that failed.
NothingLeftBehind ==
  \A i \in Intents :
    window[i] = "closed" \/ status[i] = "failed"
      ~> status[i] \in {"reverted", "failed"} /\ Unheld(i)
=============================================================================
