-------------------------- MODULE Orchestrator_proofs ---------------------------
(***************************************************************************)
(* What the orchestrator keeps for any set of intents, any number of       *)
(* requests and faults, and any Habits: whatever the models, operators and *)
(* monitors do. Type correctness, the inductive invariant OwnershipInv,    *)
(* and from it that nothing is configured before the window and that a     *)
(* scheduled intent is the scheduler's.                                    *)
(***************************************************************************)
EXTENDS OrchestratorInv, WindowScheduler_proofs

(***************************************************************************)
(* Type correctness.                                                       *)
(***************************************************************************)

LEMMA OrchestratorTypeInit == OrchestratorInit => OrchestratorTypeOK
  <1> SUFFICES ASSUME OrchestratorInit
               PROVE  OrchestratorTypeOK
    OBVIOUS
  <1>1. AgentsTypeOK
    BY MaxFaultsAssumption DEF OrchestratorInit, AgentsInit, AgentsTypeOK, Domains
  <1>2. TypeOK
    BY <1>1 DEF OrchestratorInit, SchedulerInit, TypeOK, Windows, Statuses, Jobs, Points, Plans
  <1>3. QED
    BY <1>2 DEF OrchestratorInit, OrchestratorTypeOK, Steps, Asks

\* A request that ends leaves nothing of itself.
LEMMA EndType ==
  ASSUME OrchestratorTypeOK, NEW T, End(T)
  PROVE  /\ at' \in [Requests -> Steps]
         /\ mine' \in [Requests -> Intents \cup {NoIntent}]
         /\ \A r \in Requests : mine'[r] = NoIntent => at'[r] \in {"idle", "intent", "done"}
         /\ ask' \in [Requests -> Asks]
         /\ called' \in [Requests -> SUBSET Domains]
         /\ worst' \in [Requests -> {"applied", "degraded", "failed"}]
         /\ updated' \in [Requests -> BOOLEAN]
         /\ \A r \in Requests : mine'[r] # NoIntent => mine'[r] = mine[r]
  BY DEF End, OrchestratorTypeOK, Steps, Asks

\* The status inferred from a trace.
LEMMA InferredStatus ==
  ASSUME OrchestratorTypeOK, NEW r \in Requests
  PROVE  InferStatus(r) \in {"applied", "degraded", "failed"}
  BY DEF InferStatus, OrchestratorTypeOK

\* The write of update_intent_status: to one of the statuses of a row, of an
\* intent that does not wait for its window.
LEMMA UpdateKeeps ==
  ASSUME TypeOK, NEW i, NEW s \in Statuses \ {"absent", "scheduled"},
         UpdateIntentStatus(i, s), UNCHANGED window
  PROVE  /\ status' \in [Intents -> Statuses]
         /\ RowsMoveOn /\ ScheduledKept
  BY DEF TypeOK, UpdateIntentStatus, RowsMoveOn, ScheduledKept, TooEarly

\* The steps of a request: what they leave of the agents and the scheduler.
LEMMA RequestTypes ==
  ASSUME OrchestratorTypeOK, RequestNext
  PROVE  OrchestratorTypeOK' /\ UNCHANGED schedulerVars
  <1> USE DEF OrchestratorTypeOK
  <1>1. PICK r \in Requests :
          \/ ReceiveIntent(r)
          \/ \E i \in Intents : ReceiveEvent(r, i) \/ ReuseIntent(r, i)
          \/ \E i \in Intents, w \in Windows : RecordIntent(r, i, w)
          \/ \E d \in Domains, tool \in Tools : CallDomainTool(r, d, tool)
          \/ ToolAnswered(r)
          \/ ModelUpdatesStatus(r)
          \/ LoopEnds(r)
          \/ RequestDies(r)
          \/ SafetyNet(r)
          \/ SkipSettle(r) \/ Settle(r)
          \/ SettleFailed(r) \/ SettleCnReverted(r) \/ SettleRanReverted(r)
          \/ EventEnds(r)
    BY DEF RequestNext
  <1>2. r \in Callers
    BY RequestsAssumption
  <1>3. ASSUME AgentsTypeOK', UNCHANGED <<window, schedulerVars>>,
               status' \in [Intents -> Statuses]
        PROVE  TypeOK'
    BY <1>3 DEF TypeOK, schedulerVars
  <1>4. ASSUME UNCHANGED agentVars
        PROVE  AgentsTypeOK'
    BY <1>4 DEF TypeOK, AgentsTypeOK, agentVars
  <1>5. ASSUME UNCHANGED vars
        PROVE  TypeOK' /\ UNCHANGED schedulerVars
    BY <1>4, <1>5 DEF TypeOK, vars, tableVars, schedulerVars, agentVars
  <1>6. CASE ReceiveIntent(r)
    BY <1>5, <1>6 DEF ReceiveIntent, Goto, Steps
  <1>7. CASE \E i \in Intents : ReceiveEvent(r, i) \/ ReuseIntent(r, i)
    BY <1>5, <1>7, NoIntentAssumption DEF ReceiveEvent, ReuseIntent, InLoop, Goto, Steps
  <1>8. ASSUME NEW i \in Intents, NEW w \in Windows, RecordIntent(r, i, w)
        PROVE  OrchestratorTypeOK' /\ UNCHANGED schedulerVars
    <2>1. status' \in [Intents -> Statuses] /\ window' \in [Intents -> Windows]
      BY <1>8 DEF RecordIntent, TypeOK, Statuses
    <2>2. TypeOK'
      BY <1>4, <1>8, <2>1 DEF RecordIntent, TypeOK, schedulerVars
    <2>3. QED
      BY <1>8, <2>2 DEF RecordIntent
  <1>9. ASSUME NEW d \in Domains, NEW tool \in Tools, CallDomainTool(r, d, tool)
        PROVE  OrchestratorTypeOK' /\ UNCHANGED schedulerVars
    <2>1. mine[r] \in Intents
      BY <1>9 DEF CallDomainTool
    <2>2. AgentsTypeOK'
      BY <1>2, <1>4, <1>9, <2>1, CallType DEF CallDomainTool, TypeOK
    <2>3. TypeOK'
      BY <1>3, <1>9, <2>2 DEF CallDomainTool, TypeOK, tableVars
    <2>4. QED
      BY <1>9, <2>3 DEF CallDomainTool, Asks
  <1>10. CASE ToolAnswered(r)
    <2>1. TypeOK' /\ UNCHANGED schedulerVars
      BY <1>5, <1>10 DEF ToolAnswered
    <2>2. called' \in [Requests -> SUBSET Domains]
      BY <1>10 DEF ToolAnswered, Asks, NoAsk
    <2>3. QED
      BY <1>10, <2>1, <2>2 DEF ToolAnswered, Asks, Worse
  <1>11. CASE ModelUpdatesStatus(r)
    <2>1. ModelStatuses \subseteq Statuses \ {"absent", "scheduled"}
      BY DEF ModelStatuses, Statuses
    <2>2. status' \in [Intents -> Statuses]
      BY <1>11, <2>1 DEF ModelUpdatesStatus, UpdateIntentStatus, TypeOK
    <2>3. QED
      BY <1>3, <1>4, <1>11, <2>2 DEF ModelUpdatesStatus
  <1>12. CASE LoopEnds(r)
    BY <1>5, <1>12, EndType DEF LoopEnds, Goto, Steps
  <1>13. CASE RequestDies(r)
    <2>1. AgentsTypeOK'
      BY <1>13, MaxFaultsAssumption DEF RequestDies, Fault, TypeOK, AgentsTypeOK
    <2>2. QED
      BY <1>3, <1>13, <2>1, EndType DEF RequestDies, TypeOK, tableVars
  <1>14. CASE SafetyNet(r)
    <2>1. status' \in [Intents -> Statuses]
      BY <1>14, InferredStatus DEF SafetyNet, UpdateIntentStatus, TypeOK, Statuses
    <2>2. QED
      BY <1>3, <1>4, <1>14, <2>1 DEF SafetyNet, Goto, Steps
  <1>15. CASE SkipSettle(r)
    BY <1>5, <1>15, EndType DEF SkipSettle
  <1>16. CASE Settle(r) \/ SettleRanReverted(r) \/ EventEnds(r)
    <2>1. status' \in [Intents -> Statuses]
      BY <1>16, InferredStatus
         DEF Settle, SettleRanReverted, EventEnds, UpdateIntentStatus, TypeOK, Statuses
    <2>2. UNCHANGED <<agentVars, window, schedulerVars>> /\ End({r})
      BY <1>16 DEF Settle, SettleRanReverted, EventEnds
    <2>3. TypeOK'
      BY <1>3, <1>4, <2>1, <2>2
    <2>4. QED
      BY <2>2, <2>3, EndType
  <1>17. CASE SettleFailed(r) \/ SettleCnReverted(r)
    <2>1. mine[r] \in Intents
      BY <1>17 DEF SettleFailed, SettleCnReverted
    <2>2. AgentsTypeOK'
      BY <1>2, <1>17, <2>1, CallType DEF SettleFailed, SettleCnReverted, TypeOK, Domains, Tools
    <2>3. TypeOK'
      BY <1>3, <1>17, <2>2 DEF SettleFailed, SettleCnReverted, TypeOK, tableVars
    <2>4. QED
      BY <1>17, <2>3 DEF SettleFailed, SettleCnReverted, Goto, Steps
  <1>18. QED
    BY <1>1, <1>6, <1>7, <1>8, <1>9, <1>10, <1>11, <1>12, <1>13, <1>14, <1>15, <1>16, <1>17

\* The scheduler takes its own steps, and so do the agents and the clock.
LEMMA SchedulerSteps == SchedulerNext => Next /\ UNCHANGED requestVars
  BY DEF SchedulerNext, RequestClock, Next, Clock

LEMMA OrchestratorTypeStep ==
  OrchestratorTypeOK /\ [OrchestratorNext]_allVars => OrchestratorTypeOK'
  <1> SUFFICES ASSUME OrchestratorTypeOK, [OrchestratorNext]_allVars
               PROVE  OrchestratorTypeOK'
    OBVIOUS
  <1>1. TypeOK
    BY DEF OrchestratorTypeOK
  <1>2. CASE RequestNext
    BY <1>2, RequestTypes
  <1>3. CASE SchedulerNext \/ UNCHANGED allVars
    <2>1. [Next]_vars /\ UNCHANGED requestVars
      BY <1>3, SchedulerSteps DEF allVars
    <2>2. TypeOK'
      BY <1>1, <2>1, TypeStep
    <2>3. QED
      BY <2>1, <2>2 DEF OrchestratorTypeOK, requestVars
  <1>4. CASE ProcessRestart
    <2>1. TypeOK'
      BY <1>1, <1>4, TypeStep DEF ProcessRestart, Next
    <2>2. QED
      BY <1>4, <2>1, EndType DEF ProcessRestart, OrchestratorTypeOK
  <1>5. QED
    BY <1>2, <1>3, <1>4 DEF OrchestratorNext

\* Whatever the requests do, the state of the orchestrator has its types.
THEOREM OrchestratorTypeCorrect == OrchestratorSpec => []OrchestratorTypeOK
  <1>1. QED
    BY OrchestratorTypeInit, OrchestratorTypeStep, PTL DEF OrchestratorSpec

-----------------------------------------------------------------------------
(***************************************************************************)
(* Rows that are too early to touch.                                       *)
(***************************************************************************)

\* A call whose apply is not too early leaves nothing early behind.
LEMMA CallIsNotEarly ==
  ASSUME AgentsTypeOK, NothingEarly,
         NEW t \in Callers, NEW d \in Domains, NEW tool \in Tools, NEW i \in Intents,
         CallRemoteTool(t, d, tool, i), tool = "apply" => ~TooEarly(i)
  PROVE  NothingAppliedEarly
  <1> SUFFICES ASSUME NEW j \in Intents, NEW e \in Domains, TooEarly(j)
               PROVE  ~active'[e][j] /\ ~Pending(e, "apply", j)'
    BY DEF NothingAppliedEarly
  <1>1. ~active[e][j] /\ ~Pending(e, "apply", j)
    BY DEF NothingEarly
  <1>2. CASE inbox' = inbox
    BY <1>1, <1>2 DEF CallRemoteTool, Pending
  <1>3. CASE inbox' # inbox
    <2> DEFINE r == [from |-> t, tool |-> tool, intent |-> i]
    <2>1. inbox' = [inbox EXCEPT ![d] = Append(@, r)] /\ active' = active
      BY <1>3 DEF CallRemoteTool
    <2>2. r \in Request /\ inbox[d] \in Seq(Request) /\ inbox \in [Domains -> Seq(Request)]
      BY DEF Request, AgentsTypeOK
    <2>3. Len(inbox[d]) \in Nat
      BY <2>2
    <2>4. ASSUME e = d, NEW k \in 1..Len(inbox'[e]),
                 inbox'[e][k].tool = "apply", inbox'[e][k].intent = j
          PROVE  FALSE
      <3>1. inbox'[e] = Append(inbox[d], r)
        BY <2>1, <2>2, <2>4
      <3>2. CASE k = Len(inbox[d]) + 1
        <4>1. inbox'[e][k] = r
          BY <2>2, <3>1, <3>2, AppendQueue
        <4>2. QED
          BY <2>4, <4>1
      <3>3. CASE k # Len(inbox[d]) + 1
        <4>1. k \in 1..Len(inbox[d])
          BY <2>2, <2>3, <3>1, <3>3, AppendQueue
        <4>2. inbox'[e][k] = inbox[e][k]
          BY <2>2, <2>4, <3>1, <4>1, AppendQueue
        <4>3. QED
          BY <1>1, <2>4, <4>1, <4>2 DEF Pending
      <3>4. QED
        BY <3>2, <3>3
    <2>5. e # d => inbox'[e] = inbox[e]
      BY <2>1, <2>2
    <2>6. QED
      BY <1>1, <2>1, <2>4, <2>5 DEF Pending
  <1>4. QED
    BY <1>2, <1>3

\* Nor does an agent: it carries out what it was given, in order.
LEMMA AgentsAreNotEarly ==
  ASSUME AgentsTypeOK, NothingEarly, AgentsNext
  PROVE  NothingAppliedEarly
  <1> SUFFICES ASSUME NEW j \in Intents, NEW e \in Domains, TooEarly(j)
               PROVE  ~active'[e][j] /\ ~Pending(e, "apply", j)'
    BY DEF NothingAppliedEarly
  <1>1. ~active[e][j] /\ ~Pending(e, "apply", j)
    BY DEF NothingEarly
  <1>2. \A d \in Domains : inbox[d] \in Seq(Request)
    BY DEF AgentsTypeOK
  <1>3. ASSUME NEW d \in Domains, Serve(d)
        PROVE  ~active'[e][j] /\ ~Pending(e, "apply", j)'
    <2> DEFINE r == Head(inbox[d])
    <2>1. /\ inbox[d] # <<>>
          /\ inbox' = [inbox EXCEPT ![d] = Tail(@)]
          /\ \E out \in Outcomes(d, r.tool, active[d][r.intent]) :
               active' = [active EXCEPT ![d][r.intent] = out.row]
      BY <1>3 DEF Serve
    <2>2. r \in Request /\ r = inbox[d][1] /\ Len(inbox[d]) \in Nat \ {0}
      BY <1>2, <2>1, TailQueue
    <2>3. r.tool \in Tools /\ r.intent \in Intents
      BY <2>2 DEF Request
    <2>4. ~active'[e][j]
      <3>1. CASE d = e /\ r.intent = j
        <4>1. r.tool # "apply"
          BY <1>1, <2>2, <3>1 DEF Pending
        <4>2. \A out \in Outcomes(d, r.tool, active[d][r.intent]) : out.row = FALSE
          BY <1>1, <3>1, <4>1 DEF Outcomes, RevertOutcomes
        <4>3. QED
          BY <2>1, <3>1, <4>2 DEF AgentsTypeOK
      <3>2. CASE ~(d = e /\ r.intent = j)
        BY <1>1, <2>1, <3>2 DEF AgentsTypeOK
      <3>3. QED
        BY <3>1, <3>2
    <2>5. ASSUME NEW k \in 1..Len(inbox'[e]),
                 inbox'[e][k].tool = "apply", inbox'[e][k].intent = j
          PROVE  FALSE
      <3>1. CASE d = e
        <4>1. inbox'[e] = Tail(inbox[e])
          BY <2>1, <3>1 DEF AgentsTypeOK
        <4>2. k + 1 \in 1..Len(inbox[e]) /\ inbox'[e][k] = inbox[e][k + 1]
          <5>1. Len(inbox'[e]) = Len(inbox[e]) - 1
            BY <1>2, <2>1, <3>1, <4>1, TailQueue
          <5>2. k \in 1..Len(inbox[e]) - 1 /\ k + 1 \in 1..Len(inbox[e])
            BY <2>2, <3>1, <5>1
          <5>3. inbox[e] \in Seq(Request) /\ inbox[e] # <<>>
            BY <1>2, <2>1, <3>1
          <5>4. Tail(inbox[e])[k] = inbox[e][k + 1]
            BY <5>2, <5>3, TailQueue
          <5>5. QED
            BY <4>1, <5>2, <5>4
        <4>3. QED
          BY <1>1, <2>5, <4>2 DEF Pending
      <3>2. CASE d # e
        BY <1>1, <2>1, <2>5, <3>2 DEF Pending, AgentsTypeOK
      <3>3. QED
        BY <3>1, <3>2
    <2>6. QED
      BY <2>4, <2>5 DEF Pending
  <1>4. ASSUME NEW d \in Domains, AgentRestart(d)
        PROVE  ~active'[e][j] /\ ~Pending(e, "apply", j)'
    BY <1>1, <1>4 DEF AgentRestart, Pending, AgentsTypeOK
  <1>5. ASSUME NEW d \in Domains, NEW t \in Callers, GiveUp(t, d)
        PROVE  ~active'[e][j] /\ ~Pending(e, "apply", j)'
    <2>1. active' = active /\ inbox' = [inbox EXCEPT ![d] = Orphaned(@, {t})]
      BY <1>5 DEF GiveUp
    <2>2. inbox'[e] = IF e = d THEN Orphaned(inbox[e], {t}) ELSE inbox[e]
      BY <2>1 DEF AgentsTypeOK
    <2>3. QED
      BY <1>1, <1>2, <2>1, <2>2, OrphanedQueue DEF Pending
  <1>6. QED
    BY <1>3, <1>4, <1>5 DEF AgentsNext

-----------------------------------------------------------------------------
(***************************************************************************)
(* The steps of the requests.                                              *)
(***************************************************************************)

\* A step that leaves the queues and the rows of the agents alone.
LEMMA QuietIsNotEarly ==
  ASSUME NothingEarly, UNCHANGED <<active, inbox>>
  PROVE  NothingAppliedEarly
  BY DEF NothingEarly, NothingAppliedEarly, Pending

\* A step that leaves the intents table alone.
LEMMA TableStays ==
  ASSUME UNCHANGED tableVars
  PROVE  RowsMoveOn /\ ScheduledKept
  BY DEF tableVars, RowsMoveOn, ScheduledKept, TooEarly

LEMMA RequestStep ==
  ASSUME OwnershipInv, RequestNext
  PROVE  RowsMoveOn /\ NothingAppliedEarly /\ ScheduledKept /\ RequestsAreRecorded'
  <1> USE DEF OwnershipInv
  <1>1. PICK r \in Requests :
          \/ ReceiveIntent(r)
          \/ \E i \in Intents : ReceiveEvent(r, i) \/ ReuseIntent(r, i)
          \/ \E i \in Intents, w \in Windows : RecordIntent(r, i, w)
          \/ \E d \in Domains, tool \in Tools : CallDomainTool(r, d, tool)
          \/ ToolAnswered(r)
          \/ ModelUpdatesStatus(r)
          \/ LoopEnds(r)
          \/ RequestDies(r)
          \/ SafetyNet(r)
          \/ SkipSettle(r) \/ Settle(r)
          \/ SettleFailed(r) \/ SettleCnReverted(r) \/ SettleRanReverted(r)
          \/ EventEnds(r)
    BY DEF RequestNext
  <1>2. r \in Callers
    BY RequestsAssumption
  <1>3. TypeOK /\ AgentsTypeOK /\ mine \in [Requests -> Intents \cup {NoIntent}]
    BY DEF OrchestratorTypeOK, TypeOK
  <1>4. ASSUME RowsMoveOn,
               \A q \in Requests :
                 mine'[q] # NoIntent => mine'[q] = mine[q] \/ status[mine'[q]] # "absent"
        PROVE  RequestsAreRecorded'
    <2>1. mine' \in [Requests -> Intents \cup {NoIntent}]
      BY RequestTypes DEF OrchestratorTypeOK
    <2>2. QED
      BY <1>4, <2>1 DEF RequestsAreRecorded, RowsMoveOn
  <1>5. CASE ReceiveIntent(r) \/ ToolAnswered(r) \/ LoopEnds(r) \/ SkipSettle(r)
    <2>1. UNCHANGED vars
      BY <1>5 DEF ReceiveIntent, ToolAnswered, LoopEnds, SkipSettle
    <2>2. RowsMoveOn /\ ScheduledKept /\ NothingAppliedEarly
      BY <2>1, TableStays, QuietIsNotEarly DEF vars, agentVars
    <2>3. \A q \in Requests : mine'[q] # NoIntent => mine'[q] = mine[q]
      BY <1>5, EndType DEF ReceiveIntent, ToolAnswered, LoopEnds, SkipSettle
    <2>4. QED
      BY <1>4, <2>2, <2>3
  <1>6. ASSUME NEW i \in Intents, ReceiveEvent(r, i) \/ ReuseIntent(r, i)
        PROVE  RowsMoveOn /\ NothingAppliedEarly /\ ScheduledKept /\ RequestsAreRecorded'
    <2>1. UNCHANGED vars /\ status[i] # "absent" /\ mine' = [mine EXCEPT ![r] = i]
      BY <1>6 DEF ReceiveEvent, ReuseIntent, InForce
    <2>2. RowsMoveOn /\ ScheduledKept /\ NothingAppliedEarly
      BY <2>1, TableStays, QuietIsNotEarly DEF vars, agentVars
    <2>3. QED
      BY <1>3, <1>4, <2>1, <2>2
  <1>7. ASSUME NEW i \in Intents, NEW w \in Windows, RecordIntent(r, i, w)
        PROVE  RowsMoveOn /\ NothingAppliedEarly /\ ScheduledKept /\ RequestsAreRecorded'
    <2>1. /\ status[i] = "absent" /\ mine' = [mine EXCEPT ![r] = i]
          /\ status' = [status EXCEPT ![i] = IF w = "before" THEN "scheduled" ELSE "received"]
          /\ window' = [window EXCEPT ![i] = w]
          /\ UNCHANGED <<active, inbox>>
      BY <1>7 DEF RecordIntent, agentVars
    <2>2. RowsMoveOn /\ ScheduledKept
      BY <1>3, <2>1 DEF TypeOK, RowsMoveOn, ScheduledKept, TooEarly
    <2>3. \A q \in Requests : mine'[q] # NoIntent => status'[mine'[q]] # "absent"
      <3>1. TAKE q \in Requests
      <3>2. status'[i] # "absent"
        BY <1>3, <2>1 DEF TypeOK
      <3>3. CASE q = r
        BY <1>3, <2>1, <3>2, <3>3
      <3>4. CASE q # r
        BY <1>3, <2>1, <2>2, <3>4 DEF RequestsAreRecorded, RowsMoveOn
      <3>5. QED
        BY <3>3, <3>4
    <2>4. QED
      BY <2>1, <2>2, <2>3, QuietIsNotEarly DEF RequestsAreRecorded
  <1>8. ASSUME NEW d \in Domains, NEW tool \in Tools, CallDomainTool(r, d, tool)
        PROVE  RowsMoveOn /\ NothingAppliedEarly /\ ScheduledKept /\ RequestsAreRecorded'
    <2>1. mine[r] \in Intents /\ status[mine[r]] # "absent"
      BY <1>3, <1>8 DEF CallDomainTool, RequestsAreRecorded
    <2>2. NothingAppliedEarly
      <3>1. CASE Blocked(r, tool)
        BY <1>8, <3>1, QuietIsNotEarly DEF CallDomainTool, agentVars
      <3>2. CASE ~Blocked(r, tool)
        <4>1. tool = "apply" => ~TooEarly(mine[r])
          BY <2>1, <3>2 DEF Blocked, TooEarly
        <4>2. CallRemoteTool(r, d, tool, mine[r])
          BY <1>8, <3>2 DEF CallDomainTool
        <4>3. QED
          BY <1>2, <1>3, <2>1, <4>1, <4>2, CallIsNotEarly
      <3>3. QED
        BY <3>1, <3>2
    <2>3. UNCHANGED tableVars /\ UNCHANGED mine
      BY <1>8 DEF CallDomainTool
    <2>4. QED
      BY <1>4, <2>2, <2>3, TableStays
  <1>9. CASE SettleFailed(r) \/ SettleCnReverted(r)
    <2>1. mine[r] \in Intents
      BY <1>3, <1>9 DEF SettleFailed, SettleCnReverted, OrchestratorTypeOK
    <2>2. PICK d \in Domains : CallRemoteTool(r, d, "revert", mine[r])
      BY <1>9 DEF SettleFailed, SettleCnReverted, Domains
    <2>3. NothingAppliedEarly
      BY <1>2, <1>3, <2>1, <2>2, CallIsNotEarly DEF Tools
    <2>4. UNCHANGED tableVars /\ UNCHANGED mine
      BY <1>9 DEF SettleFailed, SettleCnReverted
    <2>5. QED
      BY <1>4, <2>3, <2>4, TableStays
  <1>10. CASE \/ ModelUpdatesStatus(r) \/ SafetyNet(r)
              \/ Settle(r) \/ SettleRanReverted(r) \/ EventEnds(r)
    <2>1. UNCHANGED <<agentVars, window>>
      BY <1>10 DEF ModelUpdatesStatus, SafetyNet, Settle, SettleRanReverted, EventEnds
    <2>2. NothingAppliedEarly
      BY <2>1, QuietIsNotEarly DEF agentVars
    <2>3. \/ UNCHANGED status
          \/ \E s \in Statuses \ {"absent", "scheduled"} : UpdateIntentStatus(mine[r], s)
      <3>1. /\ ModelStatuses \subseteq Statuses \ {"absent", "scheduled"}
            /\ InferStatus(r) \in Statuses \ {"absent", "scheduled"}
            /\ "failed" \in Statuses \ {"absent", "scheduled"}
        BY InferredStatus DEF ModelStatuses, Statuses
      <3>2. QED
        BY <1>10, <3>1 DEF ModelUpdatesStatus, SafetyNet, Settle, SettleRanReverted, EventEnds
    <2>4. RowsMoveOn /\ ScheduledKept
      BY <1>3, <2>1, <2>3, TableStays, UpdateKeeps DEF tableVars
    <2>5. \A q \in Requests : mine'[q] # NoIntent => mine'[q] = mine[q]
      BY <1>10, EndType DEF ModelUpdatesStatus, SafetyNet, Settle, SettleRanReverted, EventEnds
    <2>6. QED
      BY <1>4, <2>2, <2>4, <2>5
  <1>11. CASE RequestDies(r)
    <2>1. UNCHANGED <<active, inbox, tableVars>>
      BY <1>11 DEF RequestDies
    <2>2. \A q \in Requests : mine'[q] # NoIntent => mine'[q] = mine[q]
      BY <1>11, EndType DEF RequestDies
    <2>3. QED
      BY <1>4, <2>1, <2>2, TableStays, QuietIsNotEarly
  <1>12. QED
    BY <1>1, <1>5, <1>6, <1>7, <1>8, <1>9, <1>10, <1>11

-----------------------------------------------------------------------------
(***************************************************************************)
(* The steps of the scheduler, its agents and the clock.                   *)
(***************************************************************************)

\* The end of a job, or of a row of it, takes up nothing new.
LEMMA BackIsOpen ==
  ASSUME RowsAreOpen, RowsMoveOn, Back \/ NextJob, todo \subseteq Intents
  PROVE  RowsAreOpen' /\ PlanFitsJob'
  <1>1. pc' \notin {"cn", "ran"} /\ todo' \subseteq todo /\ (todo' # {} => job' = job)
    BY DEF Back, NextJob
  <1>2. QED
    BY <1>1 DEF RowsAreOpen, RowsMoveOn, PlanFitsJob, InHand

\* While the scheduler is at the same rows, they stay open.
LEMMA OpenStaysOpen ==
  ASSUME TypeOK, RowsAreOpen, PlanFitsJob, RowsMoveOn,
         InHand' \subseteq InHand, job' = job, plan' # "cleanup" /\ pc' \in {"cn", "ran"} => job # "cleanup"
  PROVE  RowsAreOpen' /\ PlanFitsJob'
  <1>1. InHand \subseteq Intents
    BY DEF InHand, TypeOK
  <1>2. QED
    BY <1>1 DEF RowsAreOpen, RowsMoveOn, PlanFitsJob

LEMMA SchedulerStep ==
  ASSUME TypeOK, NothingEarly, RowsAreOpen, PlanFitsJob, Next
  PROVE  RowsMoveOn /\ NothingAppliedEarly /\ Decided /\ RowsAreOpen' /\ PlanFitsJob'
  <1>1. AgentsTypeOK /\ todo \subseteq Intents
    BY DEF TypeOK
  <1>2. ASSUME UNCHANGED status
        PROVE  Decided
    BY <1>2 DEF Decided
  <1>3. CASE Poll
    <2>1. RowsMoveOn /\ NothingAppliedEarly
      BY <1>3, TableStays, QuietIsNotEarly DEF Poll, agentVars
    <2>2. CASE Due(job) = {}
      BY <1>1, <1>2, <1>3, <2>1, <2>2, BackIsOpen DEF Poll, tableVars
    <2>3. CASE Due(job) # {}
      <3>1. todo' = Due(job) /\ pc' = "pick" /\ UNCHANGED <<tableVars, job>>
        BY <1>3, <2>3 DEF Poll
      <3>2. \A i \in Due(job) :
              status[i] # "absent" /\ (job # "cleanup" => window[i] \in {"open", "closed"})
        BY DEF TypeOK, Due, DueActivations, DueIntents, FailedWithLeftovers, InForce, Jobs
      <3>3. RowsAreOpen' /\ PlanFitsJob'
        BY <3>1, <3>2 DEF RowsAreOpen, PlanFitsJob, InHand, tableVars
      <3>4. QED
        BY <1>2, <2>1, <3>1, <3>3 DEF tableVars
    <2>4. QED
      BY <2>2, <2>3
  <1>4. ASSUME NEW i \in Intents, TakeUp(i)
        PROVE  RowsMoveOn /\ NothingAppliedEarly /\ Decided /\ RowsAreOpen' /\ PlanFitsJob'
    <2>1. /\ CallRemoteTool(Scheduler, "cn", Tool(plan'), i)
          /\ UNCHANGED <<tableVars, job>> /\ i \in todo
          /\ todo' = todo \ {i} /\ cur' = i /\ pc = "pick"
          /\ plan' = CASE job = "activation" -> IF window[i] = "closed" THEN "expire" ELSE "apply"
                       [] job = "reversion" -> "revert"
                       [] job = "cleanup" -> "cleanup"
      BY <1>4 DEF TakeUp, Begin
    <2>2. RowsMoveOn
      BY <2>1, TableStays
    <2>3. i \in InHand /\ InHand' \subseteq InHand
      BY <2>1 DEF InHand
    <2>4. Tool(plan') = "apply" => ~TooEarly(i)
      BY <2>1, <2>3 DEF TypeOK, Jobs, Tool, RowsAreOpen, TooEarly
    <2>5. NothingAppliedEarly
      BY <1>1, <2>1, <2>4, SchedulerAssumption, CallIsNotEarly DEF Tool, Tools, Domains
    <2>6. plan' # "cleanup" => job # "cleanup"
      BY <2>1
    <2>7. QED
      BY <1>2, <2>1, <2>2, <2>3, <2>5, <2>6, OpenStaysOpen DEF tableVars
  <1>5. CASE CoreAnswered \/ ActivationRefused
    <2>1. /\ UNCHANGED <<tableVars, job, todo, cur>>
          /\ pc \in {"cn", "ran"} /\ pc' \in {"cn", "ran"} /\ cur \in Intents
          /\ plan' = "cleanup" \/ plan # "cleanup"
          /\ \E d \in Domains : CallRemoteTool(Scheduler, d, Tool(plan'), cur)
      BY <1>5 DEF CoreAnswered, ActivationRefused, BothAnswered, Begin, Domains, TypeOK
    <2>2. RowsMoveOn
      BY <2>1, TableStays
    <2>3. cur \in InHand /\ InHand' \subseteq InHand
      BY <2>1 DEF InHand
    <2>4. plan' # "cleanup" => job # "cleanup"
      BY <2>1 DEF PlanFitsJob
    <2>5. Tool(plan') = "apply" => ~TooEarly(cur)
      BY <2>3, <2>4 DEF Tool, RowsAreOpen, TooEarly
    <2>6. NothingAppliedEarly
      BY <1>1, <2>1, <2>5, SchedulerAssumption, CallIsNotEarly DEF Tool, Tools
    <2>7. QED
      BY <1>2, <2>1, <2>2, <2>3, <2>4, <2>6, OpenStaysOpen DEF tableVars
  <1>6. CASE ActivationIncomplete \/ LeftForNextPoll
    <2>1. Back /\ UNCHANGED <<agentVars, tableVars>>
      BY <1>6 DEF ActivationIncomplete, LeftForNextPoll, Back
    <2>2. QED
      BY <1>1, <1>2, <2>1, BackIsOpen, TableStays, QuietIsNotEarly DEF agentVars, tableVars
  <1>7. CASE Activated \/ RolledBack \/ Expired \/ Reverted
    <2>1. /\ \E s \in Statuses \ {"absent", "scheduled"} : MarkStatus(s)
          /\ Back /\ UNCHANGED agentVars
          /\ pc = "ran" /\ plan # "cleanup" /\ cur \in Intents
      BY <1>7 DEF Activated, RolledBack, Expired, Reverted, BothAnswered, Statuses, Back, TypeOK
    <2>2. RowsMoveOn
      BY <2>1 DEF MarkStatus, TypeOK, RowsMoveOn, TooEarly
    <2>3. window[cur] # "before"
      BY <2>1 DEF RowsAreOpen, PlanFitsJob, InHand
    <2>4. Decided
      BY <2>1, <2>3 DEF Decided, MarkStatus, TypeOK
    <2>5. QED
      BY <1>1, <2>1, <2>2, <2>4, BackIsOpen, QuietIsNotEarly DEF agentVars
  <1>8. CASE Agents
    <2>1. AgentsNext /\ UNCHANGED <<tableVars, schedulerVars>>
      BY <1>8 DEF Agents
    <2>2. RowsMoveOn /\ NothingAppliedEarly
      BY <1>1, <2>1, TableStays, AgentsAreNotEarly
    <2>3. QED
      BY <1>2, <2>1, <2>2, OpenStaysOpen DEF PlanFitsJob, InHand, schedulerVars, tableVars
  <1>9. CASE Clock
    <2>1. UNCHANGED <<agentVars, status, schedulerVars>>
      BY <1>9 DEF Clock, WindowOpens, WindowCloses
    <2>2. RowsMoveOn
      BY <1>9 DEF Clock, WindowOpens, WindowCloses, RowsMoveOn, TypeOK, TooEarly
    <2>3. QED
      BY <1>2, <2>1, <2>2, OpenStaysOpen, QuietIsNotEarly
         DEF PlanFitsJob, InHand, schedulerVars, agentVars
  <1>10. CASE PollError \/ OrchestratorRestart
    <2>1. UNCHANGED <<active, tableVars>> /\ todo' = {} /\ pc' = "poll"
      BY <1>10 DEF PollError, OrchestratorRestart, NextJob
    <2>2. RowsMoveOn
      BY <2>1, TableStays
    <2>3. RowsAreOpen' /\ PlanFitsJob'
      BY <2>1 DEF RowsAreOpen, PlanFitsJob, InHand
    <2>4. NothingAppliedEarly
      <3>1. CASE PollError
        BY <3>1, QuietIsNotEarly DEF PollError
      <3>2. CASE OrchestratorRestart
        <4>1. \A d \in Domains : inbox[d] \in Seq(Request) /\ inbox'[d] = Orphaned(inbox[d], Callers)
          BY <1>1, <3>2 DEF OrchestratorRestart, AgentsTypeOK
        <4>2. QED
          BY <2>1, <4>1, OrphanedQueue DEF NothingEarly, NothingAppliedEarly, Pending
      <3>3. QED
        BY <1>10, <3>1, <3>2
    <2>5. QED
      BY <1>2, <2>1, <2>2, <2>3, <2>4 DEF tableVars
  <1>11. QED
    BY <1>3, <1>4, <1>5, <1>6, <1>7, <1>8, <1>9, <1>10 DEF Next, Loop, ActivateOne, RevertOne

-----------------------------------------------------------------------------
(***************************************************************************)
(* The inductive invariant and what follows from it.                       *)
(***************************************************************************)

LEMMA OwnershipInit == OrchestratorInit => OwnershipInv
  BY OrchestratorTypeInit
     DEF OrchestratorInit, AgentsInit, SchedulerInit, OwnershipInv, NothingEarly, Pending,
         RowsAreOpen, PlanFitsJob, InHand, RequestsAreRecorded

\* Every step keeps the invariant, and decides a scheduled intent in one way.
LEMMA OwnershipStep ==
  OwnershipInv /\ [OrchestratorNext]_allVars => OwnershipInv' /\ Decided
  <1> SUFFICES ASSUME OwnershipInv, [OrchestratorNext]_allVars
               PROVE  OwnershipInv' /\ Decided
    OBVIOUS
  <1>1. OrchestratorTypeOK /\ OrchestratorTypeOK'
    BY OrchestratorTypeStep DEF OwnershipInv
  <1>2. TypeOK /\ mine' \in [Requests -> Intents \cup {NoIntent}]
    BY <1>1 DEF OrchestratorTypeOK
  <1>3. ASSUME RowsMoveOn, NothingAppliedEarly
        PROVE  NothingEarly'
    BY <1>3 DEF RowsMoveOn, NothingAppliedEarly, NothingEarly
  <1>4. CASE RequestNext
    <2>1. RowsMoveOn /\ NothingAppliedEarly /\ ScheduledKept /\ RequestsAreRecorded'
      BY <1>4, RequestStep
    <2>2. UNCHANGED schedulerVars
      BY <1>1, <1>4, RequestTypes
    <2>3. RowsAreOpen' /\ PlanFitsJob'
      BY <1>2, <2>1, <2>2, OpenStaysOpen DEF OwnershipInv, PlanFitsJob, InHand, schedulerVars
    <2>4. QED
      BY <1>1, <1>3, <2>1, <2>3 DEF OwnershipInv, ScheduledKept, Decided
  <1>5. CASE SchedulerNext \/ ProcessRestart
    <2>1. Next
      BY <1>5, SchedulerSteps DEF ProcessRestart, Next
    <2>2. RowsMoveOn /\ NothingAppliedEarly /\ Decided /\ RowsAreOpen' /\ PlanFitsJob'
      BY <1>2, <2>1, SchedulerStep DEF OwnershipInv
    <2>3. \A q \in Requests : mine'[q] # NoIntent => mine'[q] = mine[q]
      BY <1>1, <1>5, EndType DEF SchedulerNext, ProcessRestart, requestVars
    <2>4. RequestsAreRecorded'
      BY <1>2, <2>2, <2>3 DEF OwnershipInv, RequestsAreRecorded, RowsMoveOn
    <2>5. QED
      BY <1>1, <1>3, <2>2, <2>4 DEF OwnershipInv
  <1>6. CASE UNCHANGED allVars
    BY <1>1, <1>6
       DEF allVars, vars, agentVars, tableVars, schedulerVars, requestVars, Decided,
           OwnershipInv, NothingEarly, TooEarly, Pending, RowsAreOpen, InHand, PlanFitsJob,
           RequestsAreRecorded
  <1>7. QED
    BY <1>4, <1>5, <1>6 DEF OrchestratorNext

\* The rows that are too early, and those the scheduler has in hand, as every
\* thread finds them.
THEOREM OwnershipInvariance == OrchestratorSpec => []OwnershipInv
  <1>1. QED
    BY OwnershipInit, OwnershipStep, PTL DEF OrchestratorSpec

\* Nothing is configured for a scheduled intent before its window opens, also
\* when requests, events and the scheduler call the agents at once and their
\* models ask for it (dispatch_tool's block, the due query).
THEOREM NobodyActsBeforeTheWindow == OrchestratorSpec => []NotBeforeWindow
  <1>1. OwnershipInv => NotBeforeWindow
    BY DEF OwnershipInv, NothingEarly, TooEarly, NotBeforeWindow
  <1>2. QED
    BY <1>1, OwnershipInvariance, PTL

\* A scheduled intent is the scheduler's: no request, no event and no model
\* changes its status, and the scheduler not before the window opens
\* (_update_intent_status, the safety net, the settling).
THEOREM ScheduledIsTheSchedulers == OrchestratorSpec => SchedulerOwnsScheduled
  <1>1. OwnershipInv /\ [OrchestratorNext]_allVars
          => [\A i \in Intents : status[i] = "scheduled" /\ status'[i] # "scheduled" =>
                cur = i /\ pc = "ran" /\ window[i] # "before"]_allVars
    BY OwnershipStep DEF Decided
  <1>2. QED
    BY <1>1, OwnershipInvariance, PTL DEF OrchestratorSpec, SchedulerOwnsScheduled
=================================================================================
