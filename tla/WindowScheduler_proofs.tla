----------------------- MODULE WindowScheduler_proofs -----------------------
(***************************************************************************)
(* Safety of the window scheduler for any set of intents and any number of *)
(* faults: type correctness, then the inductive invariant IInv, then the   *)
(* properties that follow from it.                                         *)
(***************************************************************************)
EXTENDS WindowSchedulerInv, TLAPS

(***************************************************************************)
(* The operations on a queue of directives.                                *)
(***************************************************************************)

\* A new directive goes to the end of the queue.
LEMMA AppendQueue ==
  ASSUME NEW q \in Seq(Request), NEW r \in Request
  PROVE  /\ Append(q, r) \in Seq(Request)
         /\ Len(Append(q, r)) = Len(q) + 1
         /\ \A k \in 1..Len(q) : Append(q, r)[k] = q[k]
         /\ Append(q, r)[Len(q) + 1] = r
  OBVIOUS

\* Serving a directive takes the first one off.
LEMMA TailQueue ==
  ASSUME NEW q \in Seq(Request), q # <<>>
  PROVE  /\ Tail(q) \in Seq(Request)
         /\ Head(q) = q[1] /\ Head(q) \in Request
         /\ Len(q) \in Nat \ {0}
         /\ Len(Tail(q)) = Len(q) - 1
         /\ \A k \in 1..Len(q) - 1 : Tail(q)[k] = q[k + 1]
  OBVIOUS

\* Orphaning keeps every directive in its place and forgets callers only.
LEMMA OrphanedQueue ==
  ASSUME NEW q \in Seq(Request), NEW T
  PROVE  /\ Orphaned(q, T) \in Seq(Request)
         /\ Len(Orphaned(q, T)) = Len(q)
         /\ \A k \in 1..Len(q) :
              /\ Orphaned(q, T)[k].tool = q[k].tool
              /\ Orphaned(q, T)[k].intent = q[k].intent
              /\ Orphaned(q, T)[k].from = IF q[k].from \in T THEN NoCaller ELSE q[k].from
  <1>1. \A k \in 1..Len(q) : q[k] \in Request
    OBVIOUS
  <1> DEFINE e(k) == IF q[k].from \in T THEN [q[k] EXCEPT !.from = NoCaller] ELSE q[k]
  <1>2. \A k \in 1..Len(q) : e(k) \in Request
    BY <1>1 DEF Request
  <1>3. Orphaned(q, T) = [k \in 1..Len(q) |-> e(k)]
    BY DEF Orphaned
  <1>4. Len(q) \in Nat
    OBVIOUS
  <1> HIDE DEF e
  <1>5. [k \in 1..Len(q) |-> e(k)] \in Seq(Request)
    BY <1>2, <1>4
  <1>6. Len([k \in 1..Len(q) |-> e(k)]) = Len(q)
    BY <1>4, <1>5
  <1>7. \A k \in 1..Len(q) : Orphaned(q, T)[k] = e(k)
    BY <1>3
  <1>8. \A k \in 1..Len(q) :
          /\ e(k).tool = q[k].tool
          /\ e(k).intent = q[k].intent
          /\ e(k).from = IF q[k].from \in T THEN NoCaller ELSE q[k].from
    BY <1>1 DEF e, Request
  <1>9. QED
    BY <1>3, <1>5, <1>6, <1>7, <1>8

-----------------------------------------------------------------------------
(***************************************************************************)
(* Type correctness.                                                       *)
(***************************************************************************)

\* Every call of the scheduler keeps the types of the agents' state.
LEMMA CallType ==
  ASSUME AgentsTypeOK, NEW t \in Callers, NEW d \in Domains, NEW tool \in Tools, NEW i \in Intents,
         CallRemoteTool(t, d, tool, i)
  PROVE  AgentsTypeOK'
  <1> DEFINE r == [from |-> t, tool |-> tool, intent |-> i]
  <1>1. r \in Request
    BY DEF Request
  <1>2. inbox[d] \in Seq(Request)
    BY DEF AgentsTypeOK
  <1>3. Append(inbox[d], r) \in Seq(Request)
    BY <1>1, <1>2, AppendQueue
  <1>4. inbox' \in [Domains -> Seq(Request)]
    BY <1>3 DEF CallRemoteTool, AgentsTypeOK
  <1>5. answer' \in [Callers -> Answers \cup {"none"}]
    BY DEF CallRemoteTool, AgentsTypeOK, Answers
  <1>6. faults' \in 0..MaxFaults
    BY MaxFaultsAssumption DEF CallRemoteTool, Fault, AgentsTypeOK
  <1>7. QED
    BY <1>4, <1>5, <1>6 DEF CallRemoteTool, AgentsTypeOK

\* So does every step of an agent.
LEMMA AgentsType ==
  ASSUME AgentsTypeOK, AgentsNext
  PROVE  AgentsTypeOK'
  <1>1. ASSUME NEW d \in Domains, Serve(d)
        PROVE  AgentsTypeOK'
    <2>1. inbox[d] \in Seq(Request) /\ inbox[d] # <<>>
      BY <1>1 DEF AgentsTypeOK, Serve
    <2>2. Tail(inbox[d]) \in Seq(Request) /\ Head(inbox[d]) \in Request
      BY <2>1, TailQueue
    <2>3. inbox' \in [Domains -> Seq(Request)]
      BY <1>1, <2>2 DEF AgentsTypeOK, Serve
    <2> DEFINE r == Head(inbox[d])
    <2>4. r.intent \in Intents /\ r.tool \in Tools
      BY <2>2 DEF Request
    <2>5. PICK out \in Outcomes(d, r.tool, active[d][r.intent]) :
            /\ IF IsFault(r.tool, out.status) THEN Fault ELSE UNCHANGED faults
            /\ active' = [active EXCEPT ![d][r.intent] = out.row]
            /\ answer' = IF r.from \in Callers
                           THEN [answer EXCEPT ![r.from] = out.status] ELSE answer
      BY <1>1 DEF Serve
    <2>6. active[d][r.intent] \in BOOLEAN
      BY <2>4 DEF AgentsTypeOK
    <2>7. out.status \in Answers /\ out.row \in BOOLEAN
      BY <2>5, <2>6 DEF Outcomes, ApplyOutcomes, RevertOutcomes, Answers
    <2>8. faults' \in 0..MaxFaults
      BY <2>5, MaxFaultsAssumption DEF Fault, AgentsTypeOK
    <2> HIDE DEF r
    <2>9. active' \in [Domains -> [Intents -> BOOLEAN]]
      BY <2>4, <2>5, <2>7 DEF AgentsTypeOK
    <2>10. answer' \in [Callers -> Answers \cup {"none"}]
      BY <2>5, <2>7 DEF AgentsTypeOK
    <2>11. QED
      BY <2>3, <2>8, <2>9, <2>10 DEF AgentsTypeOK
  <1>2. ASSUME NEW d \in Domains, AgentRestart(d)
        PROVE  AgentsTypeOK'
    <2>1. answer' \in [Callers -> Answers \cup {"none"}]
      BY <1>2 DEF AgentRestart, AgentsTypeOK, Answers
    <2>2. QED
      BY <1>2, <2>1, MaxFaultsAssumption DEF AgentRestart, AgentsTypeOK, Fault
  <1>3. ASSUME NEW d \in Domains, NEW t \in Callers, GiveUp(t, d)
        PROVE  AgentsTypeOK'
    <2>1. inbox[d] \in Seq(Request)
      BY DEF AgentsTypeOK
    <2>2. Orphaned(inbox[d], {t}) \in Seq(Request)
      BY <2>1, OrphanedQueue
    <2>3. QED
      BY <1>3, <2>2, MaxFaultsAssumption DEF GiveUp, AgentsTypeOK, Fault, Answers
  <1>4. QED
    BY <1>1, <1>2, <1>3 DEF AgentsNext

\* Init and every step keep the types.
LEMMA TypeInit == Init => TypeOK
  <1> SUFFICES ASSUME Init
               PROVE  TypeOK
    OBVIOUS
  <1>1. AgentsTypeOK
    <2>1. inbox \in [Domains -> Seq(Request)]
      BY DEF Init, AgentsInit
    <2>2. answer \in [Callers -> Answers \cup {"none"}] /\ faults \in 0..MaxFaults
      BY MaxFaultsAssumption DEF Init, AgentsInit
    <2>3. QED
      BY <2>1, <2>2 DEF Init, AgentsTypeOK
  <1>2. window \in [Intents -> Windows] /\ status \in [Intents -> Statuses]
    BY DEF Init, Windows, Statuses
  <1>3. QED
    BY <1>1, <1>2 DEF Init, SchedulerInit, TypeOK, Jobs, Points, Plans

LEMMA TypeStep == TypeOK /\ [Next]_vars => TypeOK'
  <1> SUFFICES ASSUME TypeOK, [Next]_vars
               PROVE  TypeOK'
    OBVIOUS
  <1> USE DEF TypeOK
  <1>1. ASSUME NextJob
        PROVE  /\ job' \in Jobs /\ pc' \in Points /\ plan' \in Plans
               /\ todo' \subseteq Intents /\ cur' \in Intents \cup {NoIntent}
               /\ (pc' \in {"cn", "ran"} => cur' \in Intents)
               /\ cnAnswer' \in Answers \cup {"none"}
    BY <1>1 DEF NextJob, Jobs, Points
  <1>2. ASSUME Back
        PROVE  /\ AgentsTypeOK'
               /\ job' \in Jobs /\ pc' \in Points /\ plan' \in Plans
               /\ todo' \subseteq Intents /\ cur' \in Intents \cup {NoIntent}
               /\ (pc' \in {"cn", "ran"} => cur' \in Intents)
               /\ cnAnswer' \in Answers \cup {"none"}
    BY <1>1, <1>2 DEF Back, Points, agentVars, AgentsTypeOK
  <1>3. ASSUME NEW s \in Statuses, MarkStatus(s)
        PROVE  window' \in [Intents -> Windows] /\ status' \in [Intents -> Statuses]
    BY <1>3 DEF MarkStatus
  <1>4. CASE Poll
    <2>1. Due(job) \subseteq Intents
      BY DEF Due, DueActivations, DueIntents, FailedWithLeftovers, Jobs
    <2>2. CASE Due(job) = {}
      BY <1>1, <1>4, <2>2 DEF Poll, agentVars, tableVars, AgentsTypeOK
    <2>3. CASE Due(job) # {}
      BY <1>4, <2>1, <2>3 DEF Poll, agentVars, tableVars, AgentsTypeOK, Points
    <2>4. QED
      BY <2>2, <2>3
  <1>5. ASSUME NEW i \in Intents, TakeUp(i)
        PROVE  TypeOK'
    <2>1. plan' \in Plans /\ cur' = i /\ pc' = "cn" /\ cnAnswer' = "none"
      BY <1>5 DEF TakeUp, Begin, Plans, Jobs
    <2>2. CallRemoteTool(Scheduler, "cn", Tool(plan'), i)
      BY <1>5 DEF TakeUp, Begin
    <2>3. AgentsTypeOK'
      BY <2>2, CallType, SchedulerAssumption DEF Domains, Tools, Tool
    <2>4. QED
      BY <1>5, <2>1, <2>3 DEF TakeUp, tableVars, Points
  <1>6. CASE CoreAnswered
    <2>1. AgentsTypeOK'
      BY <1>6, CallType, SchedulerAssumption DEF CoreAnswered, Domains, Tools, Tool
    <2>2. cnAnswer' \in Answers \cup {"none"}
      BY <1>6, SchedulerAssumption DEF CoreAnswered, AgentsTypeOK
    <2>3. QED
      BY <1>6, <2>1, <2>2 DEF CoreAnswered, tableVars, Points
  <1>7. CASE ActivationRefused
    <2>1. AgentsTypeOK'
      BY <1>7, CallType, SchedulerAssumption DEF ActivationRefused, BothAnswered, Begin, Domains, Tools, Tool
    <2>2. QED
      BY <1>7, <2>1 DEF ActivationRefused, BothAnswered, Begin, tableVars, Points, Plans
  <1>8. CASE ActivationIncomplete \/ LeftForNextPoll
    BY <1>2, <1>8 DEF ActivationIncomplete, LeftForNextPoll, tableVars
  <1>9. CASE Activated \/ RolledBack \/ Expired \/ Reverted
    <2>1. PICK s \in Statuses : MarkStatus(s)
      BY <1>9 DEF Activated, RolledBack, Expired, Reverted, Statuses
    <2>2. Back
      BY <1>9 DEF Activated, RolledBack, Expired, Reverted
    <2>3. QED
      BY <1>2, <1>3, <2>1, <2>2
  <1>10. CASE Agents
    BY <1>10, AgentsType DEF Agents, tableVars, schedulerVars
  <1>11. CASE Clock
    BY <1>11 DEF Clock, WindowOpens, WindowCloses, Windows, agentVars, schedulerVars, AgentsTypeOK
  <1>12. CASE PollError
    <2>1. AgentsTypeOK'
      BY <1>12, MaxFaultsAssumption DEF PollError, Fault, AgentsTypeOK
    <2>2. QED
      BY <1>1, <1>12, <2>1 DEF PollError, tableVars
  <1>13. CASE OrchestratorRestart
    <2>1. \A d \in Domains : Orphaned(inbox[d], Callers) \in Seq(Request)
      BY OrphanedQueue DEF AgentsTypeOK
    <2>2. AgentsTypeOK'
      BY <1>13, <2>1, MaxFaultsAssumption DEF OrchestratorRestart, Fault, AgentsTypeOK
    <2>3. QED
      BY <1>13, <2>2 DEF OrchestratorRestart, tableVars, Jobs, Points, Plans
  <1>14. CASE UNCHANGED vars
    BY <1>14 DEF vars, agentVars, tableVars, schedulerVars, AgentsTypeOK
  <1>15. QED
    BY <1>4, <1>5, <1>6, <1>7, <1>8, <1>9, <1>10, <1>11, <1>12, <1>13, <1>14
       DEF Next, Loop, ActivateOne, RevertOne

\* The variables of the scheduler and of the agents keep their types.
THEOREM TypeCorrect == Spec => []TypeOK
  <1>1. QED
    BY TypeInit, TypeStep, PTL DEF Spec

-----------------------------------------------------------------------------
(***************************************************************************)
(* The inductive invariant: facts about one state.                         *)
(***************************************************************************)

\* The elements of the queues have their types.
LEMMA QueueTypes ==
  ASSUME TypeOK, NEW d \in Domains
  PROVE  /\ inbox[d] \in Seq(Request)
         /\ Len(inbox[d]) \in Nat
         /\ \A k \in 1..Len(inbox[d]) :
              /\ inbox[d][k] \in Request
              /\ inbox[d][k].from \in Callers \cup {NoCaller}
              /\ inbox[d][k].tool \in Tools
              /\ inbox[d][k].intent \in Intents
  <1>1. inbox[d] \in Seq(Request)
    BY DEF TypeOK, AgentsTypeOK
  <1>2. \A k \in 1..Len(inbox[d]) : inbox[d][k] \in Request
    BY <1>1
  <1>3. QED
    BY <1>1, <1>2 DEF Request

\* Nobody waits for a directive unless the scheduler is in the middle of a call.
NobodyWaits ==
  \A d \in Domains : \A k \in 1..Len(inbox[d]) : inbox[d][k].from \notin Callers

LEMMA BetweenCalls ==
  ASSUME CallsOK, pc \notin Domains \/ answer[Scheduler] # "none"
  PROVE  NobodyWaits
  BY DEF CallsOK, NobodyWaits

\* With both answers in and no error among them, both queues are empty and
\* the rows are what the answers say.
LEMMA BothSettled ==
  ASSUME AnswersOK, pc = "ran", answer[Scheduler] # "none", "error" \notin DomainAnswers,
         NEW d \in Domains
  PROVE  /\ inbox[d] = <<>>
         /\ DomainAnswers \subseteq {"applied", "degraded"} => active[d][cur]
         /\ DomainAnswers \subseteq {"reverted", "noop"} => ~active[d][cur]
  BY DEF AnswersOK, Settled, DomainAnswers, Domains

-----------------------------------------------------------------------------
(***************************************************************************)
(* The inductive invariant: the calls of the scheduler.                    *)
(***************************************************************************)

\* A call of the scheduler adds one allowed directive, with a live caller, to
\* the end of the queue of the domain it is now calling.
LEMMA CallKeeps ==
  ASSUME TypeOK, QueuesOK, RowsOK, NobodyWaits,
         NEW d \in Domains, NEW tool \in Tools, NEW i \in Intents,
         CallRemoteTool(Scheduler, d, tool, i),
         Allowed([from |-> Scheduler, tool |-> tool, intent |-> i]),
         UNCHANGED tableVars, pc' = d, Tool(plan') = tool, cur' = i
  PROVE  /\ QueuesOK' /\ RowsOK' /\ CallsOK'
         /\ answer'[Scheduler] \in {"none", "error"}
         /\ \A e \in Domains \ {d} : inbox'[e] = inbox[e]
         /\ active' = active
  <1> DEFINE r == [from |-> Scheduler, tool |-> tool, intent |-> i]
  <1>1. r \in Request /\ r.from = Scheduler /\ r.tool = tool /\ r.intent = i
    BY SchedulerAssumption DEF Request
  <1>2. active' = active /\ status' = status /\ window' = window
    BY DEF CallRemoteTool, tableVars
  <1>3. RowsOK'
    BY <1>2 DEF RowsOK
  <1>4. answer'[Scheduler] \in {"none", "error"}
    BY SchedulerAssumption DEF CallRemoteTool, TypeOK, AgentsTypeOK
  <1>5. \A e \in Domains \ {d} : inbox'[e] = inbox[e]
    BY DEF CallRemoteTool, TypeOK, AgentsTypeOK
  <1>6. Allowed(r)
    OBVIOUS
  <1> HIDE DEF r
  <1>7. \A e \in Domains : \A k \in 1..Len(inbox[e]) : inbox[e][k].from \notin Callers
    BY DEF NobodyWaits
  <1>8. CASE inbox' = inbox
    <2>1. QueuesOK'
      BY <1>2, <1>8 DEF QueuesOK, Allowed, CanApply, CanRevert
    <2>2. CallsOK'
      BY <1>7, <1>8 DEF CallsOK
    <2>3. QED
      BY <1>2, <1>3, <1>4, <1>5, <2>1, <2>2
  <1>9. CASE inbox' = [inbox EXCEPT ![d] = Append(@, r)] /\ answer'[Scheduler] = "none"
    <2>1. inbox[d] \in Seq(Request)
      BY QueueTypes
    <2>2. inbox'[d] = Append(inbox[d], r)
      BY <1>9 DEF TypeOK, AgentsTypeOK
    <2>3. /\ Len(inbox[d]) \in Nat
          /\ Len(inbox'[d]) = Len(inbox[d]) + 1
          /\ \A k \in 1..Len(inbox[d]) : inbox'[d][k] = inbox[d][k]
          /\ inbox'[d][Len(inbox[d]) + 1] = r
      BY <1>1, <2>1, <2>2, AppendQueue
    <2>4. \A e \in Domains : \A k \in 1..Len(inbox'[e]) :
            \/ k \in 1..Len(inbox[e]) /\ inbox'[e][k] = inbox[e][k]
            \/ e = d /\ k = Len(inbox'[e]) /\ inbox'[e][k] = r
      BY <1>5, <2>3
    <2>5. QueuesOK'
      BY <1>2, <1>6, <2>4 DEF QueuesOK, Allowed, CanApply, CanRevert
    <2>6. CallsOK'
      BY <1>1, <1>7, <1>9, <2>4 DEF CallsOK
    <2>7. QED
      BY <1>2, <1>3, <1>4, <1>5, <2>5, <2>6
  <1>10. QED
    BY <1>8, <1>9, SchedulerAssumption DEF CallRemoteTool, r, TypeOK, AgentsTypeOK

\* The tool of a plan that fits the intent is allowed.
LEMMA PlanAllowed ==
  ASSUME NEW p \in Plans, NEW i \in Intents, Fits(JobOf(p), i)
  PROVE  Allowed([from |-> Scheduler, tool |-> Tool(p), intent |-> i])
  BY DEF Plans, Fits, JobOf, Allowed, Tool, CanApply, CanRevert

LEMMA TakeUpKeeps ==
  ASSUME IInv, NEW i \in Intents, TakeUp(i)
  PROVE  IInv'
  <1> USE DEF IInv
  <1>1. /\ pc = "pick" /\ i \in todo /\ todo' = todo \ {i}
        /\ cur' = i /\ pc' = "cn" /\ job' = job
        /\ status' = status /\ window' = window
    BY DEF TakeUp, Begin, tableVars
  <1>2. plan' \in Plans /\ JobOf(plan') = job /\ plan' # "rollback"
    BY DEF TakeUp, Begin, TypeOK, Jobs, Plans, JobOf
  <1>3. Fits(job, i)
    BY <1>1 DEF CurrentOK
  <1>4. CallRemoteTool(Scheduler, "cn", Tool(plan'), i)
    BY DEF TakeUp, Begin
  <1>5. NobodyWaits
    BY <1>1, BetweenCalls DEF Domains
  <1>6. Allowed([from |-> Scheduler, tool |-> Tool(plan'), intent |-> i])
    BY <1>2, <1>3, PlanAllowed
  <1>7. /\ QueuesOK' /\ RowsOK' /\ CallsOK'
        /\ answer'[Scheduler] \in {"none", "error"}
    BY <1>1, <1>4, <1>5, <1>6, CallKeeps DEF Domains, Tools, Tool, tableVars
  <1>8. AnswersOK'
    BY <1>1, <1>7 DEF AnswersOK, Settled
  <1>9. CurrentOK'
    BY <1>1, <1>2, <1>3 DEF CurrentOK, Fits, CanApply
  <1>10. RollbackOK'
    BY <1>2 DEF RollbackOK
  <1>11. TypeOK'
    BY TypeStep DEF Next, Loop
  <1>12. QED
    BY <1>7, <1>8, <1>9, <1>10, <1>11

LEMMA CoreAnsweredKeeps ==
  ASSUME IInv, CoreAnswered
  PROVE  IInv'
  <1> USE DEF IInv
  <1>1. /\ pc = "cn" /\ answer[Scheduler] # "none" /\ cnAnswer' = answer[Scheduler]
        /\ todo' = todo /\ cur' = cur /\ pc' = "ran" /\ job' = job /\ plan' = plan
        /\ status' = status /\ window' = window
    BY DEF CoreAnswered, tableVars
  <1>2. plan \in Plans /\ JobOf(plan) = job /\ cur \in Intents
    BY <1>1 DEF CurrentOK, TypeOK
  <1>3. Fits(job, cur)
    BY <1>1 DEF CurrentOK
  <1>4. CallRemoteTool(Scheduler, "ran", Tool(plan), cur)
    BY DEF CoreAnswered
  <1>5. NobodyWaits
    BY <1>1, BetweenCalls DEF Domains
  <1>6. Allowed([from |-> Scheduler, tool |-> Tool(plan), intent |-> cur])
    BY <1>2, <1>3, PlanAllowed
  <1>7. /\ QueuesOK' /\ RowsOK' /\ CallsOK'
        /\ answer'[Scheduler] \in {"none", "error"}
        /\ inbox'["cn"] = inbox["cn"] /\ active' = active
    BY <1>1, <1>2, <1>4, <1>5, <1>6, CallKeeps DEF Domains, Tools, Tool, tableVars
  <1>8. Settled("cn", answer[Scheduler])
    BY <1>1 DEF AnswersOK
  <1>9. AnswersOK'
    BY <1>1, <1>7, <1>8 DEF AnswersOK, Settled
  <1>10. CurrentOK'
    BY <1>1, <1>2, <1>3 DEF CurrentOK, Fits, CanApply
  <1>11. RollbackOK'
    <2> SUFFICES ASSUME plan = "rollback",
                        NEW d \in Domains, NEW k \in 1..Len(inbox'[d])
                 PROVE  inbox'[d][k].tool = "revert"
      BY <1>1 DEF RollbackOK
    <2>1. CASE k \in 1..Len(inbox[d]) /\ inbox'[d][k] = inbox[d][k]
      BY <1>1, <2>1 DEF RollbackOK
    <2>2. CASE inbox'[d][k].from \in Callers
      BY <1>1, <1>7, <2>2 DEF CallsOK, Tool
    <2>3. QED
      <3>1. inbox[d] \in Seq(Request)
        BY QueueTypes
      <3>2. CASE inbox'[d] = inbox[d]
        BY <2>1, <3>2
      <3>3. CASE inbox'[d] = Append(inbox[d], [from |-> Scheduler, tool |-> Tool(plan), intent |-> cur])
        BY <1>2, <2>1, <2>2, <3>1, <3>3, AppendQueue, SchedulerAssumption DEF Request, Tool, Tools
      <3>4. QED
        BY <1>4, <3>2, <3>3 DEF CallRemoteTool, TypeOK, AgentsTypeOK
  <1>12. TypeOK'
    BY TypeStep DEF Next, Loop
  <1>13. QED
    BY <1>7, <1>9, <1>10, <1>11, <1>12

LEMMA RefusedKeeps ==
  ASSUME IInv, ActivationRefused
  PROVE  IInv'
  <1> USE DEF IInv
  <1>1. /\ pc = "ran" /\ answer[Scheduler] # "none" /\ plan = "apply"
        /\ "error" \notin DomainAnswers
        /\ plan' = "rollback" /\ cur' = cur /\ pc' = "cn" /\ todo' = todo /\ job' = job
        /\ status' = status /\ window' = window
    BY DEF ActivationRefused, BothAnswered, Begin, tableVars
  <1>2. cur \in Intents /\ job = "activation" /\ Fits("activation", cur)
    BY <1>1 DEF CurrentOK, TypeOK, JobOf
  <1>3. CallRemoteTool(Scheduler, "cn", "revert", cur)
    BY DEF ActivationRefused, Begin, Tool
  <1>4. NobodyWaits
    BY <1>1, BetweenCalls
  <1>5. Allowed([from |-> Scheduler, tool |-> "revert", intent |-> cur])
    BY <1>2 DEF Fits, Allowed, CanRevert
  <1>6. /\ QueuesOK' /\ RowsOK' /\ CallsOK'
        /\ answer'[Scheduler] \in {"none", "error"}
    BY <1>1, <1>2, <1>3, <1>4, <1>5, CallKeeps DEF Domains, Tools, Tool, tableVars
  <1>7. AnswersOK'
    BY <1>1, <1>6 DEF AnswersOK, Settled
  <1>8. CurrentOK'
    BY <1>1, <1>2 DEF CurrentOK, Fits, CanApply, JobOf
  <1>9. RollbackOK'
    <2>1. inbox["cn"] = <<>> /\ inbox["ran"] = <<>>
      BY <1>1, BothSettled DEF Domains
    <2> DEFINE r == [from |-> Scheduler, tool |-> "revert", intent |-> cur]
    <2>2. r \in Request /\ r.tool = "revert"
      BY <1>2, SchedulerAssumption DEF Request, Tools
    <2>3. inbox'["ran"] = <<>> /\ inbox'["cn"] \in {<<>>, Append(<<>>, r)}
      BY <1>3, <2>1 DEF CallRemoteTool, TypeOK, AgentsTypeOK, Domains
    <2> HIDE DEF r
    <2>4. Append(<<>>, r) = <<r>>
      OBVIOUS
    <2>5. QED
      BY <2>2, <2>3, <2>4 DEF RollbackOK, Domains
  <1>10. TypeOK'
    BY TypeStep DEF Next, Loop, ActivateOne
  <1>11. QED
    BY <1>6, <1>7, <1>8, <1>9, <1>10

-----------------------------------------------------------------------------
(***************************************************************************)
(* The inductive invariant: between two intents.                           *)
(***************************************************************************)

\* Going on to the next intent or the next job, with nobody waited for and
\* the rows still to be taken up left alone, keeps what is said of the thread.
LEMMA BackKeeps ==
  ASSUME TypeOK, CurrentOK, NobodyWaits,
         NextJob \/ (pc' = "pick" /\ job' = job /\ todo' = todo),
         inbox' = inbox, window' = window,
         \A i \in todo : status'[i] = status[i]
  PROVE  CallsOK' /\ AnswersOK' /\ CurrentOK' /\ RollbackOK'
  <1>1. pc' \in {"poll", "pick"} /\ todo' \subseteq todo
        /\ (pc' = "poll" => todo' = {}) /\ (todo' # {} => job' = job)
    BY DEF NextJob
  <1>2. CallsOK'
    BY DEF CallsOK, NobodyWaits
  <1>3. AnswersOK' /\ RollbackOK'
    BY <1>1 DEF AnswersOK, RollbackOK
  <1>4. CurrentOK'
    BY <1>1 DEF CurrentOK, Fits, CanApply
  <1>5. QED
    BY <1>2, <1>3, <1>4

LEMMA PollKeeps ==
  ASSUME IInv, Poll
  PROVE  IInv'
  <1> USE DEF IInv
  <1>1. pc = "poll" /\ inbox' = inbox /\ active' = active
        /\ status' = status /\ window' = window
    BY DEF Poll, agentVars, tableVars
  <1>2. QueuesOK' /\ RowsOK'
    BY <1>1 DEF QueuesOK, RowsOK, Allowed, CanApply, CanRevert
  <1>3. NobodyWaits
    BY <1>1, BetweenCalls DEF Domains
  <1>4. CASE Due(job) = {}
    BY <1>1, <1>2, <1>3, <1>4, BackKeeps, TypeStep DEF Poll, Next, Loop
  <1>5. CASE Due(job) # {}
    <2>1. pc' = "pick" /\ todo' = Due(job) /\ job' = job
      BY <1>5 DEF Poll
    <2>2. \A i \in Due(job) : Fits(job, i)
      BY DEF Due, DueActivations, DueIntents, FailedWithLeftovers, Fits, CanApply,
             TypeOK, Jobs
    <2>3. CurrentOK'
      BY <1>1, <2>1, <2>2 DEF CurrentOK, Fits, CanApply
    <2>4. CallsOK' /\ AnswersOK' /\ RollbackOK'
      BY <1>1, <1>3, <2>1 DEF CallsOK, NobodyWaits, AnswersOK, RollbackOK
    <2>5. QED
      BY <1>2, <2>3, <2>4, TypeStep DEF Next, Loop
  <1>6. QED
    BY <1>4, <1>5

\* An intent left for the next poll, and a poll or an update that failed.
LEMMA LeftKeeps ==
  ASSUME IInv, ActivationIncomplete \/ LeftForNextPoll \/ PollError
  PROVE  IInv'
  <1> USE DEF IInv
  <1>1. /\ pc \notin Domains \/ answer[Scheduler] # "none"
        /\ inbox' = inbox /\ active' = active /\ status' = status /\ window' = window
        /\ NextJob \/ (pc' = "pick" /\ job' = job /\ todo' = todo)
    BY DEF ActivationIncomplete, LeftForNextPoll, PollError, Marks, BothAnswered, Back,
           agentVars, tableVars, Domains
  <1>2. QueuesOK' /\ RowsOK'
    BY <1>1 DEF QueuesOK, RowsOK, Allowed, CanApply, CanRevert
  <1>3. NobodyWaits
    BY <1>1, BetweenCalls
  <1>4. QED
    BY <1>1, <1>2, <1>3, BackKeeps, TypeStep DEF Next, Loop, ActivateOne, RevertOne

\* Recording an outcome: what is still queued for the intent, and its rows,
\* must suit the new status.
LEMMA MarkKeeps ==
  ASSUME IInv, NEW s \in Statuses, MarkStatus(s), Back, TypeOK',
         pc = "ran", answer[Scheduler] # "none",
         \A d \in Domains : \A k \in 1..Len(inbox[d]) :
           inbox[d][k].intent = cur => inbox[d][k].tool = "revert" /\ s = "failed",
         s \in {"applied", "degraded", "reverted", "failed"},
         s \in InForce => \A d \in Domains : active[d][cur],
         s = "reverted" => \A d \in Domains : ~active[d][cur]
  PROVE  IInv'
  <1> USE DEF IInv
  <1>1. /\ window' = window /\ inbox' = inbox /\ active' = active
        /\ NextJob \/ (pc' = "pick" /\ job' = job /\ todo' = todo)
    BY DEF MarkStatus, Back, agentVars
  <1>2. cur \in Intents /\ cur \notin todo
    BY DEF TypeOK, CurrentOK
  <1>3. status'[cur] = s /\ \A i \in Intents \ {cur} : status'[i] = status[i]
    BY <1>2 DEF MarkStatus, TypeOK
  <1>4. \A i \in todo : status'[i] = status[i]
    BY <1>2, <1>3 DEF TypeOK
  <1>5. NobodyWaits
    BY BetweenCalls
  <1>6. QueuesOK'
    <2> SUFFICES ASSUME NEW d \in Domains, NEW k \in 1..Len(inbox[d])
                 PROVE  Allowed(inbox[d][k])'
      BY <1>1 DEF QueuesOK
    <2>1. inbox[d][k].intent \in Intents /\ Allowed(inbox[d][k])
      BY QueueTypes DEF QueuesOK
    <2>2. CASE inbox[d][k].intent = cur
      BY <1>1, <1>3, <2>2 DEF Allowed, CanRevert
    <2>3. CASE inbox[d][k].intent # cur
      BY <1>1, <1>3, <2>1, <2>3 DEF Allowed, CanApply, CanRevert
    <2>4. QED
      BY <2>2, <2>3
  <1>7. RowsOK'
    BY <1>1, <1>3 DEF RowsOK, InForce
  <1>8. QED
    BY <1>1, <1>4, <1>5, <1>6, <1>7, BackKeeps

LEMMA OutcomeKeeps ==
  ASSUME IInv, Activated \/ RolledBack \/ Expired \/ Reverted
  PROVE  IInv'
  <1> USE DEF IInv
  <1>1. pc = "ran" /\ answer[Scheduler] # "none" /\ Back
    BY DEF Activated, RolledBack, Expired, Reverted, BothAnswered
  <1>2. TypeOK'
    BY TypeStep DEF Next, Loop, ActivateOne, RevertOne
  <1>3. CASE Activated
    <2>1. plan = "apply" /\ DomainAnswers \cap {"error", "failed"} = {}
      BY <1>3 DEF Activated, BothAnswered
    <2>2. DomainAnswers \subseteq {"applied", "degraded"} /\ "error" \notin DomainAnswers
      BY <1>1, <2>1 DEF AnswersOK, Settled, DomainAnswers, Tool
    <2>3. \A d \in Domains : inbox[d] = <<>> /\ active[d][cur]
      BY <1>1, <2>2, BothSettled
    <2>4. PICK s \in InForce : MarkStatus(s)
      BY <1>3 DEF Activated, InForce
    <2>5. QED
      BY <1>1, <1>2, <2>3, <2>4, MarkKeeps DEF InForce, Statuses
  <1>4. CASE RolledBack
    <2>1. plan = "rollback" /\ MarkStatus("failed")
      BY <1>4 DEF RolledBack, BothAnswered
    <2>2. \A d \in Domains : \A k \in 1..Len(inbox[d]) : inbox[d][k].tool = "revert"
      BY <1>1, <2>1 DEF RollbackOK
    <2>3. QED
      BY <1>1, <1>2, <2>1, <2>2, MarkKeeps DEF InForce, Statuses
  <1>5. CASE Expired
    <2>1. Confirmed /\ MarkStatus("failed")
      BY <1>5 DEF Expired
    <2>2. \A d \in Domains : inbox[d] = <<>>
      BY <1>1, <2>1, BothSettled DEF Confirmed
    <2>3. QED
      BY <1>1, <1>2, <2>1, <2>2, MarkKeeps DEF InForce, Statuses
  <1>6. CASE Reverted
    <2>1. Confirmed /\ MarkStatus("reverted")
      BY <1>6 DEF Reverted
    <2>2. \A d \in Domains : inbox[d] = <<>> /\ ~active[d][cur]
      BY <1>1, <2>1, BothSettled DEF Confirmed
    <2>3. QED
      BY <1>1, <1>2, <2>1, <2>2, MarkKeeps DEF InForce, Statuses
  <1>7. QED
    BY <1>3, <1>4, <1>5, <1>6

-----------------------------------------------------------------------------
(***************************************************************************)
(* The inductive invariant: the agents, the restarts and the clock.        *)
(***************************************************************************)

\* What the queues of the agents may do without the scheduler: directives go,
\* keep their tool and their intent, and lose their caller.
LEMMA QueuesShrink ==
  ASSUME TypeOK, QueuesOK, RollbackOK,
         UNCHANGED tableVars, UNCHANGED schedulerVars,
         \A d \in Domains : \A k \in 1..Len(inbox'[d]) :
           \E n \in 1..Len(inbox[d]) :
             /\ inbox'[d][k].tool = inbox[d][n].tool
             /\ inbox'[d][k].intent = inbox[d][n].intent
  PROVE  QueuesOK' /\ RollbackOK'
  <1>1. QueuesOK'
    BY DEF QueuesOK, Allowed, CanApply, CanRevert, tableVars
  <1>2. RollbackOK'
    BY DEF RollbackOK, schedulerVars
  <1>3. QED
    BY <1>1, <1>2

LEMMA ServeKeeps ==
  ASSUME IInv, TypeOK', NEW d \in Domains, Serve(d),
         UNCHANGED tableVars, UNCHANGED schedulerVars
  PROVE  IInv'
  <1> USE DEF IInv
  <1> DEFINE r == inbox[d][1]
  <1>1. status' = status /\ window' = window /\ job' = job /\ pc' = pc
        /\ todo' = todo /\ cur' = cur /\ plan' = plan /\ cnAnswer' = cnAnswer
    BY DEF tableVars, schedulerVars
  <1>2. inbox[d] \in Seq(Request) /\ inbox[d] # <<>>
    BY QueueTypes DEF Serve
  <1>3. /\ Len(inbox[d]) \in Nat \ {0}
        /\ inbox'[d] = Tail(inbox[d]) /\ Len(inbox'[d]) = Len(inbox[d]) - 1
        /\ \A k \in 1..Len(inbox[d]) - 1 : inbox'[d][k] = inbox[d][k + 1]
        /\ Head(inbox[d]) = r
    BY <1>2, TailQueue DEF Serve, TypeOK, AgentsTypeOK
  <1>4. \A e \in Domains \ {d} : inbox'[e] = inbox[e] /\ active'[e] = active[e]
    BY DEF Serve, TypeOK, AgentsTypeOK
  <1>5. r.intent \in Intents /\ r.tool \in Tools /\ Allowed(r)
    BY <1>3, QueueTypes DEF QueuesOK
  <1>6. PICK out \in Outcomes(d, r.tool, active[d][r.intent]) :
          /\ active' = [active EXCEPT ![d][r.intent] = out.row]
          /\ answer' = IF r.from \in Callers
                         THEN [answer EXCEPT ![r.from] = out.status] ELSE answer
    BY <1>3 DEF Serve
  <1>7. /\ out.status \in {"error"} \cup IF r.tool = "apply"
                                           THEN {"applied", "degraded", "failed"}
                                           ELSE {"reverted", "noop", "failed"}
        /\ out.status \in {"applied", "degraded"} => out.row
        /\ out.status \in {"reverted", "noop"} => ~out.row
        /\ r.tool = "revert" /\ out.row => active[d][r.intent]
        /\ out.row \in BOOLEAN
    <2>1. active[d][r.intent] \in BOOLEAN
      BY <1>5 DEF TypeOK, AgentsTypeOK
    <2>2. CASE r.tool = "apply"
      BY <1>6, <2>1, <2>2 DEF Outcomes, ApplyOutcomes
    <2>3. CASE r.tool = "revert"
      BY <1>6, <2>1, <2>3 DEF Outcomes, RevertOutcomes
    <2>4. QED
      BY <1>5, <2>2, <2>3 DEF Tools
  <1>8. /\ active'[d][r.intent] = out.row
        /\ \A i \in Intents \ {r.intent} : active'[d][i] = active[d][i]
    BY <1>5, <1>6 DEF TypeOK, AgentsTypeOK
  <1>9. r.from \in Callers =>
          /\ r.from = Scheduler /\ Len(inbox[d]) = 1 /\ inbox'[d] = <<>> /\ pc = d
          /\ answer[Scheduler] = "none" /\ answer'[Scheduler] = out.status
          /\ r.tool = Tool(plan) /\ r.intent = cur
    BY <1>2, <1>3, <1>6, SchedulerAssumption DEF CallsOK, TypeOK, AgentsTypeOK
  <1>10. QueuesOK' /\ RollbackOK'
    <2> HIDE DEF r
    <2>1. ASSUME NEW k \in 1..Len(inbox'[d])
          PROVE  \E n \in 1..Len(inbox[d]) : inbox'[d][k] = inbox[d][n]
      <3>1. k + 1 \in 1..Len(inbox[d]) /\ inbox'[d][k] = inbox[d][k + 1]
        BY <1>3
      <3>2. QED
        BY <3>1
    <2>2. \A e \in Domains : \A k \in 1..Len(inbox'[e]) :
            \E n \in 1..Len(inbox[e]) : inbox'[e][k] = inbox[e][n]
      BY <1>4, <2>1
    <2>3. QED
      BY <2>2, QueuesShrink
  <1>11. RowsOK'
    <2> HIDE DEF r
    <2> SUFFICES ASSUME NEW i \in Intents, NEW e \in Domains
                 PROVE  /\ status[i] = "scheduled" /\ window[i] = "before" => ~active'[e][i]
                        /\ status[i] \in InForce /\ window[i] # "closed" => active'[e][i]
                        /\ status[i] = "reverted" => ~active'[e][i]
      BY <1>1 DEF RowsOK
    <2>1. CASE e # d \/ i # r.intent
      BY <1>4, <1>8, <2>1 DEF RowsOK
    <2>2. CASE e = d /\ i = r.intent
      BY <1>5, <1>7, <1>8, <2>2 DEF RowsOK, Allowed, CanApply, CanRevert, InForce, Tools
    <2>3. QED
      BY <2>1, <2>2
  <1>12. CallsOK'
    <2> HIDE DEF r
    <2> SUFFICES ASSUME NEW e \in Domains, NEW k \in 1..Len(inbox'[e]),
                        inbox'[e][k].from \in Callers
                 PROVE  /\ inbox'[e][k].from = Scheduler /\ k = Len(inbox'[e])
                        /\ pc = e /\ answer'[Scheduler] = "none"
                        /\ inbox'[e][k].tool = Tool(plan) /\ inbox'[e][k].intent = cur
      BY <1>1 DEF CallsOK, Tool
    <2>1. CASE e # d
      BY <1>4, <1>6, <1>9, <2>1 DEF CallsOK
    <2>2. CASE e = d
      <3> DEFINE n == Len(inbox[d])
      <3>0. n \in Nat /\ Len(inbox'[e]) = n - 1
        BY <1>3, <2>2
      <3> HIDE DEF n
      <3>1. k \in 1..n - 1
        BY <3>0
      <3>2. k + 1 \in 1..n /\ n # 1
        BY <3>0, <3>1
      <3>3. inbox'[e][k] = inbox[d][k + 1]
        BY <1>3, <2>2, <3>1 DEF n
      <3>4. r.from \notin Callers
        BY <1>9, <3>2 DEF n
      <3>5. /\ inbox[d][k + 1].from = Scheduler /\ k + 1 = n
            /\ pc = d /\ answer[Scheduler] = "none"
            /\ inbox[d][k + 1].tool = Tool(plan) /\ inbox[d][k + 1].intent = cur
        BY <3>2, <3>3 DEF CallsOK, n
      <3>6. k = Len(inbox'[e])
        BY <3>0, <3>1, <3>5
      <3>7. QED
        BY <1>6, <2>2, <3>3, <3>4, <3>5, <3>6
    <2>3. QED
      BY <2>1, <2>2
  <1>13. AnswersOK'
    <2>1. CASE r.from \in Callers
      <3>1. CASE d = "cn"
        BY <1>1, <1>7, <1>8, <1>9, <2>1, <3>1 DEF AnswersOK, Settled, Tool
      <3>2. CASE d = "ran"
        BY <1>1, <1>4, <1>7, <1>8, <1>9, <2>1, <3>2 DEF AnswersOK, Settled, Tool, Domains
      <3>3. QED
        BY <3>1, <3>2 DEF Domains
    <2>2. CASE r.from \notin Callers
      <3>1. answer' = answer
        BY <1>6, <2>2
      <3>2. QED
        BY <1>1, <1>2, <1>4, <3>1 DEF AnswersOK, Settled, Domains
    <2>3. QED
      BY <2>1, <2>2
  <1>14. CurrentOK'
    BY <1>1 DEF CurrentOK, Fits, CanApply
  <1>15. QED
    BY <1>10, <1>11, <1>12, <1>13, <1>14

LEMMA GiveUpKeeps ==
  ASSUME IInv, TypeOK', NEW d \in Domains, NEW t \in Callers, GiveUp(t, d),
         UNCHANGED tableVars, UNCHANGED schedulerVars
  PROVE  IInv'
  <1> USE DEF IInv
  <1>1. status' = status /\ window' = window /\ active' = active /\ job' = job /\ pc' = pc
        /\ todo' = todo /\ cur' = cur /\ plan' = plan /\ cnAnswer' = cnAnswer
    BY DEF tableVars, schedulerVars, GiveUp
  <1>2. t = Scheduler /\ pc = d
    BY DEF GiveUp, CallsOK
  <1>3. answer'[Scheduler] = "error"
    BY <1>2, SchedulerAssumption DEF GiveUp, TypeOK, AgentsTypeOK
  <1>4. \A e \in Domains \ {d} : inbox'[e] = inbox[e]
    BY DEF GiveUp, TypeOK, AgentsTypeOK
  <1>5. /\ Len(inbox'[d]) = Len(inbox[d])
        /\ \A k \in 1..Len(inbox[d]) :
             /\ inbox'[d][k].tool = inbox[d][k].tool
             /\ inbox'[d][k].intent = inbox[d][k].intent
             /\ inbox'[d][k].from =
                  IF inbox[d][k].from \in {t} THEN NoCaller ELSE inbox[d][k].from
    <2>1. inbox'[d] = Orphaned(inbox[d], {t})
      BY DEF GiveUp, TypeOK, AgentsTypeOK
    <2>2. inbox[d] \in Seq(Request)
      BY QueueTypes
    <2>3. QED
      BY <2>1, <2>2, OrphanedQueue
  <1>6. QueuesOK' /\ RollbackOK'
    BY <1>4, <1>5, QueuesShrink
  <1>7. RowsOK' /\ CurrentOK'
    BY <1>1 DEF RowsOK, CurrentOK, Fits, CanApply
  <1>8. CallsOK'
    BY <1>2, <1>4, <1>5, CallersAssumption DEF CallsOK
  <1>9. AnswersOK'
    BY <1>1, <1>2, <1>3, <1>4 DEF AnswersOK, Settled, Domains
  <1>10. QED
    BY <1>6, <1>7, <1>8, <1>9

LEMMA AgentRestartKeeps ==
  ASSUME IInv, TypeOK', NEW d \in Domains, AgentRestart(d),
         UNCHANGED tableVars, UNCHANGED schedulerVars
  PROVE  IInv'
  <1> USE DEF IInv
  <1>1. status' = status /\ window' = window /\ active' = active /\ job' = job /\ pc' = pc
        /\ todo' = todo /\ cur' = cur /\ plan' = plan /\ cnAnswer' = cnAnswer
    BY DEF tableVars, schedulerVars, AgentRestart
  <1>2. inbox'[d] = <<>> /\ \A e \in Domains \ {d} : inbox'[e] = inbox[e]
    BY DEF AgentRestart, TypeOK, AgentsTypeOK
  <1>3. \/ answer'[Scheduler] = answer[Scheduler]
        \/ answer'[Scheduler] = "error" /\ pc = d
    BY SchedulerAssumption DEF AgentRestart, CallsOK
  <1>4. QueuesOK' /\ RollbackOK'
    BY <1>2, QueuesShrink
  <1>5. RowsOK' /\ CurrentOK'
    BY <1>1 DEF RowsOK, CurrentOK, Fits, CanApply
  <1>6. CallsOK'
    BY <1>1, <1>2, <1>3 DEF CallsOK, Tool
  <1>7. AnswersOK'
    BY <1>1, <1>2, <1>3 DEF AnswersOK, Settled, Domains
  <1>8. QED
    BY <1>4, <1>5, <1>6, <1>7

LEMMA RestartKeeps ==
  ASSUME IInv, OrchestratorRestart
  PROVE  IInv'
  <1> USE DEF IInv
  <1>1. status' = status /\ window' = window /\ active' = active
        /\ pc' = "poll" /\ todo' = {} /\ plan' = "apply"
    BY DEF OrchestratorRestart, tableVars
  <1>2. \A d \in Domains :
          /\ Len(inbox'[d]) = Len(inbox[d])
          /\ \A k \in 1..Len(inbox[d]) :
               /\ inbox'[d][k].tool = inbox[d][k].tool
               /\ inbox'[d][k].intent = inbox[d][k].intent
               /\ inbox'[d][k].from \notin Callers
    <2> SUFFICES ASSUME NEW d \in Domains
                 PROVE  /\ Len(inbox'[d]) = Len(inbox[d])
                        /\ \A k \in 1..Len(inbox[d]) :
                             /\ inbox'[d][k].tool = inbox[d][k].tool
                             /\ inbox'[d][k].intent = inbox[d][k].intent
                             /\ inbox'[d][k].from \notin Callers
      OBVIOUS
    <2>1. inbox'[d] = Orphaned(inbox[d], Callers)
      BY DEF OrchestratorRestart
    <2>2. inbox[d] \in Seq(Request)
      BY QueueTypes
    <2>3. QED
      BY <2>1, <2>2, OrphanedQueue, CallersAssumption
  <1>3. QueuesOK'
    BY <1>1, <1>2 DEF QueuesOK, Allowed, CanApply, CanRevert
  <1>4. CallsOK'
    BY <1>2 DEF CallsOK
  <1>5. RowsOK' /\ AnswersOK' /\ CurrentOK' /\ RollbackOK'
    BY <1>1 DEF RowsOK, AnswersOK, CurrentOK, RollbackOK
  <1>6. TypeOK'
    BY TypeStep DEF Next
  <1>7. QED
    BY <1>3, <1>4, <1>5, <1>6

\* Time only makes more directives allowed.
LEMMA ClockKeeps ==
  ASSUME IInv, Clock
  PROVE  IInv'
  <1> USE DEF IInv
  <1>1. UNCHANGED agentVars /\ status' = status /\ UNCHANGED schedulerVars
    BY DEF Clock, WindowOpens, WindowCloses
  <1>2. \A i \in Intents :
          \/ window'[i] = window[i]
          \/ window[i] = "before" /\ window'[i] = "open"
          \/ window[i] = "open" /\ window'[i] = "closed"
    BY DEF Clock, WindowOpens, WindowCloses, TypeOK
  <1>3. QueuesOK'
    <2> SUFFICES ASSUME NEW d \in Domains, NEW k \in 1..Len(inbox[d])
                 PROVE  Allowed(inbox[d][k])'
      BY <1>1 DEF QueuesOK, agentVars
    <2>1. inbox[d][k].intent \in Intents /\ Allowed(inbox[d][k])
      BY QueueTypes DEF QueuesOK
    <2>2. inbox'[d][k] = inbox[d][k]
      BY <1>1 DEF agentVars
    <2>3. QED
      BY <1>1, <1>2, <2>1, <2>2 DEF Allowed, CanApply, CanRevert
  <1>4. RowsOK'
    BY <1>1, <1>2 DEF RowsOK, agentVars
  <1>5. CallsOK' /\ AnswersOK' /\ RollbackOK'
    BY <1>1 DEF CallsOK, AnswersOK, Settled, RollbackOK, Tool, agentVars, schedulerVars
  <1>6. CurrentOK'
    <2>1. \A j \in Jobs, i \in Intents : Fits(j, i) => Fits(j, i)'
      BY <1>1, <1>2 DEF Fits, CanApply, Jobs
    <2>2. QED
      BY <1>1, <2>1 DEF CurrentOK, TypeOK, JobOf, schedulerVars
  <1>7. TypeOK'
    BY TypeStep DEF Next
  <1>8. QED
    BY <1>3, <1>4, <1>5, <1>6, <1>7

-----------------------------------------------------------------------------
(***************************************************************************)
(* The theorems.                                                           *)
(***************************************************************************)

LEMMA InvInit == Init => IInv
  <1> SUFFICES ASSUME Init
               PROVE  IInv
    OBVIOUS
  <1>1. TypeOK
    BY TypeInit
  <1>2. QueuesOK /\ CallsOK
    BY DEF Init, AgentsInit, QueuesOK, CallsOK
  <1>3. RowsOK
    BY DEF Init, RowsOK, Unheld, InForce
  <1>4. AnswersOK /\ CurrentOK /\ RollbackOK
    BY DEF Init, SchedulerInit, AnswersOK, CurrentOK, RollbackOK
  <1>5. QED
    BY <1>1, <1>2, <1>3, <1>4 DEF IInv

LEMMA InvStep == IInv /\ [Next]_vars => IInv'
  <1> SUFFICES ASSUME IInv, [Next]_vars
               PROVE  IInv'
    OBVIOUS
  <1>1. CASE Loop
    BY <1>1, PollKeeps, TakeUpKeeps, CoreAnsweredKeeps, RefusedKeeps, LeftKeeps, OutcomeKeeps
       DEF Loop, ActivateOne, RevertOne
  <1>2. CASE Agents
    <2>1. TypeOK'
      BY <1>2, TypeStep DEF IInv, Next
    <2>2. QED
      BY <1>2, <2>1, ServeKeeps, AgentRestartKeeps, GiveUpKeeps DEF Agents, AgentsNext
  <1>3. CASE Clock
    BY <1>3, ClockKeeps
  <1>4. CASE PollError
    BY <1>4, LeftKeeps
  <1>5. CASE OrchestratorRestart
    BY <1>5, RestartKeeps
  <1>6. CASE UNCHANGED vars
    <2>1. UNCHANGED agentVars /\ UNCHANGED tableVars /\ UNCHANGED schedulerVars
      BY <1>6 DEF vars
    <2>2. TypeOK'
      BY <1>6, TypeStep DEF IInv
    <2>3. QueuesOK' /\ RowsOK' /\ CallsOK'
      BY <2>1 DEF IInv, QueuesOK, RowsOK, CallsOK, Allowed, CanApply, CanRevert, Tool,
                  agentVars, tableVars, schedulerVars
    <2>4. AnswersOK' /\ CurrentOK' /\ RollbackOK'
      BY <2>1 DEF IInv, AnswersOK, Settled, CurrentOK, RollbackOK, Fits, JobOf, CanApply,
                  Tool, agentVars, tableVars, schedulerVars
    <2>5. QED
      BY <2>2, <2>3, <2>4 DEF IInv
  <1>7. QED
    BY <1>1, <1>2, <1>3, <1>4, <1>5, <1>6 DEF Next

\* The inductive invariant holds in every reachable state.
THEOREM Invariance == Spec => []IInv
  <1>1. QED
    BY InvInit, InvStep, PTL DEF Spec

\* Before its window opens a scheduled intent has no row in either domain and
\* no directive to apply it under way (the due query of the activation job
\* and the queues of the agents).
THEOREM NothingBeforeTheWindow == Spec => []NotBeforeWindow
  <1>1. IInv => NotBeforeWindow
    BY DEF IInv, RowsOK, QueuesOK, Allowed, CanApply, NotBeforeWindow, Pending
  <1>2. QED
    BY <1>1, Invariance, PTL

\* An intent in force within its window is held by both domains, and no
\* directive to revert it is queued anywhere (activation and its rollback).
THEOREM BothDomainsHold == Spec => []InForceInBothDomains
  <1>1. IInv => InForceInBothDomains
    BY DEF IInv, RowsOK, QueuesOK, Allowed, CanApply, CanRevert, InForceInBothDomains,
           Pending, InForce
  <1>2. QED
    BY <1>1, Invariance, PTL

\* A directive to apply outlives its caller only while the outcome of the
\* intent is open (timeouts, restarts, retries).
THEOREM NoApplyIsLate == Spec => []NoLateApply
  <1>1. IInv => NoLateApply
    BY DEF IInv, QueuesOK, Allowed, CanApply, NoLateApply, Pending
  <1>2. QED
    BY <1>1, Invariance, PTL

\* A reverted intent has no row in either domain, for ever.
THEOREM NothingOfTheReverted == Spec => []RevertedMeansReleased
  <1>1. IInv => RevertedMeansReleased
    BY DEF IInv, RowsOK, RevertedMeansReleased, Unheld
  <1>2. QED
    BY <1>1, Invariance, PTL

-----------------------------------------------------------------------------
(***************************************************************************)
(* The promise of ScheduledGuarantee.                                      *)
(***************************************************************************)

LEMMA HeldType == Held \in [Intents -> SUBSET Domains]
  BY DEF Held

\* The row of one intent in one domain is all that changes.
LEMMA HeldAfter ==
  ASSUME AgentsTypeOK, NEW d \in Domains, NEW i \in Intents, NEW row \in BOOLEAN,
         active' = [active EXCEPT ![d][i] = row]
  PROVE  Held' = [Held EXCEPT ![i] = IF row THEN @ \cup {d} ELSE @ \ {d}]
  <1>1. \A e \in Domains, j \in Intents :
          active'[e][j] = IF e = d /\ j = i THEN row ELSE active[e][j]
    BY DEF AgentsTypeOK
  <1>2. \A j \in Intents : Held'[j] = {e \in Domains : active'[e][j]}
    BY DEF Held
  <1>3. \A j \in Intents : Held[j] = {e \in Domains : active[e][j]}
    BY DEF Held
  <1>4. \A j \in Intents \ {i} : Held'[j] = Held[j]
    <2>1. TAKE j \in Intents \ {i}
    <2>2. \A e \in Domains : active'[e][j] = active[e][j]
      BY <1>1
    <2>3. \A e \in Domains : e \in Held'[j] <=> e \in Held[j]
      BY <1>2, <1>3, <2>2
    <2>4. Held'[j] \subseteq Domains /\ Held[j] \subseteq Domains
      BY <1>2, <1>3
    <2>5. QED
      BY <2>3, <2>4
  <1>5. Held'[i] = IF row THEN Held[i] \cup {d} ELSE Held[i] \ {d}
    <2>1. \A e \in Domains : active'[e][i] = IF e = d THEN row ELSE active[e][i]
      BY <1>1
    <2>2. \A e \in Domains : e \in Held'[i] <=> active'[e][i]
      BY <1>2
    <2>3. \A e \in Domains : e \in Held[i] <=> active[e][i]
      BY <1>3
    <2>4. Held'[i] \subseteq Domains /\ Held[i] \subseteq Domains
      BY <1>2, <1>3
    <2>5. CASE row
      BY <2>1, <2>2, <2>3, <2>4, <2>5
    <2>6. CASE ~row
      BY <2>1, <2>2, <2>3, <2>4, <2>6
    <2>7. QED
      BY <2>5, <2>6
  <1>6. Held' \in [Intents -> SUBSET Domains]
    BY DEF Held
  <1>7. QED
    BY <1>4, <1>5, <1>6, HeldType

LEMMA GuaranteeInit == Init => Guarantee!Init
  <1> SUFFICES ASSUME Init
               PROVE  Guarantee!Init
    OBVIOUS
  <1>1. \A i \in Intents : Held[i] = {d \in Domains : active[d][i]}
    BY DEF Held
  <1>2. \A i \in Intents :
          /\ status[i] = "scheduled" => Held[i] = {}
          /\ status[i] \in InForce => Held[i] = Domains
    BY <1>1 DEF Init, Unheld
  <1>3. status \in [Intents -> {"scheduled", "applied", "degraded", "failed"}]
    BY DEF Init
  <1>4. QED
    BY <1>2, <1>3, HeldType DEF Init, Guarantee!Init, InForce, Guarantee!InForce

\* A directive carried out configures or releases one domain, or changes nothing.
LEMMA ServeIsPromised ==
  ASSUME IInv, NEW d \in Domains, Serve(d), UNCHANGED <<tableVars, schedulerVars>>
  PROVE  [Guarantee!Next]_(Guarantee!vars)
  <1> DEFINE r == Head(inbox[d])
             i == r.intent
             had == active[d][i]
  <1>1. AgentsTypeOK /\ UNCHANGED <<window, status>>
    BY DEF IInv, TypeOK, tableVars
  <1>2. /\ inbox[d] # <<>> /\ r \in Request /\ Allowed(r) /\ r.tool \in Tools
        /\ i \in Intents /\ had \in BOOLEAN
    <2>1. inbox[d] \in Seq(Request) /\ inbox[d] # <<>>
      BY <1>1 DEF AgentsTypeOK, Serve
    <2>2. r = inbox[d][1] /\ r \in Request /\ 1 \in 1..Len(inbox[d])
      BY <2>1, TailQueue
    <2>3. QED
      BY <1>1, <2>1, <2>2 DEF IInv, QueuesOK, Request, AgentsTypeOK
  <1>3. PICK out \in Outcomes(d, r.tool, had) : active' = [active EXCEPT ![d][i] = out.row]
    BY DEF Serve
  <1>4. /\ out.row \in BOOLEAN
        /\ r.tool = "revert" => (out.row => had)
    BY <1>2, <1>3 DEF Outcomes, ApplyOutcomes, RevertOutcomes
  <1>5. Held' = [Held EXCEPT ![i] = IF out.row THEN @ \cup {d} ELSE @ \ {d}]
    BY <1>1, <1>2, <1>3, <1>4, HeldAfter
  <1>6. Held[i] = {e \in Domains : active[e][i]}
    BY <1>2 DEF Held
  <1> HIDE DEF r, i, had
  <1>7. CASE out.row = had
    <2>1. Held' = Held
      <3>1. out.row => d \in Held[i]
        BY <1>6, <1>7 DEF had
      <3>2. ~out.row => d \notin Held[i]
        BY <1>6, <1>7 DEF had
      <3>3. (IF out.row THEN Held[i] \cup {d} ELSE Held[i] \ {d}) = Held[i]
        BY <3>1, <3>2
      <3>4. QED
        BY <1>2, <1>5, <3>3, HeldType
    <2>2. QED
      BY <1>1, <2>1 DEF Guarantee!vars
  <1>8. CASE out.row /\ ~had
    <2>1. r.tool = "apply"
      BY <1>2, <1>4, <1>8 DEF Tools
    <2>2. status[i] = "scheduled" /\ window[i] # "before"
      BY <1>2, <2>1 DEF Allowed, CanApply, i
    <2>3. Guarantee!Configure(i, d)
      BY <1>1, <1>5, <1>8, <2>2 DEF Guarantee!Configure
    <2>4. QED
      BY <1>2, <2>3 DEF Guarantee!Next
  <1>9. CASE ~out.row /\ had
    <2>1. CanApply(i) \/ CanRevert(i)
      BY <1>2 DEF Allowed, i
    <2>2. status[i] # "reverted"
      BY <1>2, <1>9 DEF IInv, RowsOK, had
    <2>3. Guarantee!Release(i, d)
      BY <1>1, <1>5, <1>9, <2>1, <2>2
         DEF Guarantee!Release, CanApply, CanRevert, InForce, Guarantee!InForce
    <2>4. QED
      BY <1>2, <2>3 DEF Guarantee!Next
  <1>10. QED
    BY <1>2, <1>4, <1>7, <1>8, <1>9

\* An outcome is recorded only when the promise allows it.
LEMMA OutcomeIsPromised ==
  ASSUME IInv, Activated \/ RolledBack \/ Expired \/ Reverted
  PROVE  Guarantee!Next
  <1>1. /\ pc = "ran" /\ answer[Scheduler] # "none" /\ cur \in Intents
        /\ TypeOK /\ Fits(job, cur) /\ job = JobOf(plan) /\ AnswersOK
    BY DEF Activated, RolledBack, Expired, Reverted, BothAnswered, IInv, TypeOK, CurrentOK
  <1>2. active' = active /\ window' = window
    BY DEF Activated, RolledBack, Expired, Reverted, Back, agentVars, MarkStatus
  <1>3. Held' = Held /\ Held[cur] = {d \in Domains : active[d][cur]}
    BY <1>1, <1>2 DEF Held
  <1>4. CASE Activated
    <2>1. PICK s \in InForce : MarkStatus(s)
      BY <1>4 DEF Activated, InForce
    <2>2. CanApply(cur)
      BY <1>1, <1>4 DEF Activated, BothAnswered, JobOf, Fits
    <2>3. Held[cur] = Domains
      <3>1. DomainAnswers \subseteq {"applied", "degraded"} /\ "error" \notin DomainAnswers
        BY <1>1, <1>4 DEF Activated, BothAnswered, DomainAnswers, AnswersOK, Settled, Tool
      <3>2. \A d \in Domains : active[d][cur]
        BY <1>1, <3>1, BothSettled
      <3>3. QED
        BY <1>3, <3>2
    <2>4. Guarantee!TakeEffect(cur, s)
      BY <1>2, <1>3, <2>1, <2>2, <2>3 DEF Guarantee!TakeEffect, CanApply, MarkStatus
    <2>5. QED
      BY <1>1, <2>1, <2>4 DEF Guarantee!Next, InForce, Guarantee!InForce
  <1>5. CASE RolledBack \/ Expired
    <2>1. CanApply(cur) /\ MarkStatus("failed")
      BY <1>1, <1>5 DEF RolledBack, Expired, BothAnswered, JobOf, Fits
    <2>2. Guarantee!Fail(cur)
      BY <1>2, <1>3, <2>1 DEF Guarantee!Fail, CanApply, MarkStatus
    <2>3. QED
      BY <1>1, <2>2 DEF Guarantee!Next
  <1>6. CASE Reverted
    <2>1. status[cur] \in InForce /\ window[cur] = "closed" /\ MarkStatus("reverted")
      BY <1>1, <1>6 DEF Reverted, BothAnswered, JobOf, Fits
    <2>2. Held[cur] = {}
      <3>1. DomainAnswers \subseteq {"reverted", "noop"} /\ "error" \notin DomainAnswers
        BY <1>6 DEF Reverted, Confirmed
      <3>2. \A d \in Domains : ~active[d][cur]
        BY <1>1, <3>1, BothSettled
      <3>3. QED
        BY <1>3, <3>2
    <2>3. Guarantee!Finish(cur)
      BY <1>2, <1>3, <2>1, <2>2 DEF Guarantee!Finish, MarkStatus, InForce, Guarantee!InForce
    <2>4. QED
      BY <1>1, <2>3 DEF Guarantee!Next
  <1>7. QED
    BY <1>4, <1>5, <1>6

\* Every step is a step of the promise, or none it sees.
LEMMA GuaranteeStep == IInv /\ [Next]_vars => [Guarantee!Next]_(Guarantee!vars)
  <1> DEFINE Goal == [Guarantee!Next]_(Guarantee!vars)
  <1>1. SUFFICES ASSUME IInv, [Next]_vars
                 PROVE  Goal
    OBVIOUS
  <1>2. UNCHANGED <<active, window, status>> => Goal
    BY DEF Held, Guarantee!vars
  <1>3. CASE Activated \/ RolledBack \/ Expired \/ Reverted
    BY <1>1, <1>3, OutcomeIsPromised
  <1>4. CASE \/ Poll \/ (\E i \in Intents : TakeUp(i)) \/ CoreAnswered
             \/ ActivationIncomplete \/ ActivationRefused \/ LeftForNextPoll
             \/ PollError \/ OrchestratorRestart
    <2>1. UNCHANGED <<active, window, status>>
      BY <1>4 DEF Poll, TakeUp, CoreAnswered, ActivationIncomplete, ActivationRefused,
                  LeftForNextPoll, PollError, OrchestratorRestart, Begin, Back, CallRemoteTool,
                  agentVars, tableVars
    <2>2. QED
      BY <1>2, <2>1
  <1>5. CASE Agents
    <2>1. PICK d \in Domains :
            Serve(d) \/ AgentRestart(d) \/ \E t \in Callers : GiveUp(t, d)
      BY <1>5 DEF Agents, AgentsNext
    <2>2. UNCHANGED <<tableVars, schedulerVars>>
      BY <1>5 DEF Agents
    <2>3. CASE Serve(d)
      BY <1>1, <2>2, <2>3, ServeIsPromised
    <2>4. CASE AgentRestart(d) \/ \E t \in Callers : GiveUp(t, d)
      BY <1>2, <2>2, <2>4 DEF AgentRestart, GiveUp, tableVars
    <2>5. QED
      BY <2>1, <2>3, <2>4
  <1>6. CASE Clock
    <2>1. UNCHANGED <<active, status>> /\ Held' = Held
      BY <1>6 DEF Clock, WindowOpens, WindowCloses, agentVars, Held
    <2>2. PICK i \in Intents : Guarantee!Open(i) \/ Guarantee!Close(i)
      BY <1>6, <2>1 DEF Clock, WindowOpens, WindowCloses, Guarantee!Open, Guarantee!Close
    <2>3. QED
      BY <2>2 DEF Guarantee!Next
  <1>7. CASE UNCHANGED vars
    BY <1>2, <1>7 DEF vars, agentVars, tableVars
  <1> HIDE DEF Goal
  <1>8. QED
    BY <1>1, <1>3, <1>4, <1>5, <1>6, <1>7 DEF Next, Loop, ActivateOne, RevertOne

\* The window scheduler keeps the promise: through lost calls, timeouts,
\* retries, rollbacks and restarts, every step is one of ScheduledGuarantee or
\* leaves it where it is.
THEOREM SchedulerKeepsTheGuarantee == Spec => KeepsTheGuarantee
  <1>1. QED
    BY GuaranteeInit, GuaranteeStep, Invariance, PTL
       DEF Spec, KeepsTheGuarantee, Guarantee!Spec
=============================================================================
