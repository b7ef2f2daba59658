--------------------------- MODULE Tracking_proofs ---------------------------
(***************************************************************************)
(* Nothing in a domain goes untracked, for any set of intents, any number  *)
(* of requests and faults and models that apply, repeat, revert, report    *)
(* too early or give up as they like. Every row, and every apply under way,*)
(* has a request that will record its outcome or a state from which the    *)
(* scheduler reverts it.                                                   *)
(***************************************************************************)
EXTENDS Orchestrator_proofs

(***************************************************************************)
(* What a call and an agent leave in the queues.                           *)
(***************************************************************************)

\* A call adds its own directive at most.
LEMMA CallQueue ==
  ASSUME AgentsTypeOK, NEW t \in Callers, NEW d \in Domains, NEW tool \in Tools,
         NEW i \in Intents, CallRemoteTool(t, d, tool, i)
  PROVE  /\ active' = active
         /\ \A u \in Callers \ {t} : answer'[u] = answer[u]
         /\ answer'[t] \in {"none", "error"}
         /\ \/ inbox' = inbox
            \/ /\ answer'[t] = "none"
               /\ \A e \in Domains \ {d} : inbox'[e] = inbox[e]
               /\ Len(inbox[d]) \in Nat /\ Len(inbox'[d]) = Len(inbox[d]) + 1
               /\ \A k \in 1..Len(inbox[d]) : inbox'[d][k] = inbox[d][k]
               /\ inbox'[d][Len(inbox[d]) + 1] = [from |-> t, tool |-> tool, intent |-> i]
  <1>1. /\ active' = active
        /\ \A u \in Callers \ {t} : answer'[u] = answer[u]
        /\ answer'[t] \in {"none", "error"}
    BY DEF CallRemoteTool, AgentsTypeOK
  <1> DEFINE r == [from |-> t, tool |-> tool, intent |-> i]
  <1>2. r \in Request
    BY DEF Request
  <1>3. CASE inbox' # inbox
    <2>1. inbox' = [inbox EXCEPT ![d] = Append(@, r)] /\ answer' = [answer EXCEPT ![t] = "none"]
      BY <1>3 DEF CallRemoteTool
    <2> HIDE DEF r
    <2>2. inbox \in [Domains -> Seq(Request)] /\ inbox[d] \in Seq(Request)
      BY DEF AgentsTypeOK
    <2>3. inbox'[d] = Append(inbox[d], r) /\ \A e \in Domains \ {d} : inbox'[e] = inbox[e]
      BY <2>1, <2>2
    <2>4. answer'[t] = "none"
      BY <2>1 DEF AgentsTypeOK
    <2>5. Len(inbox[d]) \in Nat
      BY <2>2
    <2>6. /\ Len(inbox'[d]) = Len(inbox[d]) + 1
          /\ \A k \in 1..Len(inbox[d]) : inbox'[d][k] = inbox[d][k]
          /\ inbox'[d][Len(inbox[d]) + 1] = r
      BY <1>2, <2>2, <2>3, AppendQueue
    <2>7. QED
      BY <1>1, <2>3, <2>4, <2>5, <2>6 DEF r
  <1>4. QED
    BY <1>1, <1>3

LEMMA CallAdds ==
  ASSUME AgentsTypeOK, NEW t \in Callers, NEW d \in Domains, NEW tool \in Tools,
         NEW i \in Intents, CallRemoteTool(t, d, tool, i),
         NEW e \in Domains, NEW j \in Intents, HeldOrAsked(e, j)'
  PROVE  HeldOrAsked(e, j) \/ (e = d /\ tool = "apply" /\ j = i)
  <1> DEFINE last == Len(inbox[d]) + 1
             Added == /\ \A c \in Domains \ {d} : inbox'[c] = inbox[c]
                      /\ Len(inbox[d]) \in Nat /\ Len(inbox'[d]) = last
                      /\ \A k \in 1..Len(inbox[d]) : inbox'[d][k] = inbox[d][k]
                      /\ inbox'[d][last] = [from |-> t, tool |-> tool, intent |-> i]
  <1>1. active' = active /\ (inbox' = inbox \/ Added)
    BY CallQueue
  <1> HIDE DEF Added
  <1>2. CASE active'[e][j] \/ inbox' = inbox
    BY <1>2, <1>1 DEF HeldOrAsked, Pending
  <1>3. CASE ~active'[e][j] /\ inbox' # inbox
    <2>1. PICK k \in 1..Len(inbox'[e]) :
            inbox'[e][k].tool = "apply" /\ inbox'[e][k].intent = j
      BY <1>3 DEF HeldOrAsked, Pending
    <2>2. Added
      BY <1>3, <1>1
    <2>3. CASE e = d /\ k = last
      <3>1. inbox'[e][k] = [from |-> t, tool |-> tool, intent |-> i]
        BY <2>3, <2>2 DEF Added
      <3>2. inbox'[e][k].tool = tool /\ inbox'[e][k].intent = i
        BY <3>1
      <3>3. QED
        BY <2>1, <2>3, <3>2
    <2>4. CASE ~(e = d /\ k = last)
      <3>1. k \in 1..Len(inbox[e]) /\ inbox'[e][k] = inbox[e][k]
        <4>1. CASE e = d
          <5>1. Len(inbox[d]) \in Nat /\ Len(inbox'[d]) = Len(inbox[d]) + 1
            BY <2>2 DEF Added
          <5>2. k \in 1..Len(inbox[d])
            BY <2>1, <2>4, <4>1, <5>1
          <5>3. inbox'[d][k] = inbox[d][k]
            BY <2>2, <5>2 DEF Added
          <5>4. QED
            BY <4>1, <5>2, <5>3
        <4>2. CASE e # d
          <5>1. inbox'[e] = inbox[e]
            BY <2>2, <4>2 DEF Added
          <5>2. QED
            BY <2>1, <5>1
        <4>3. QED
          BY <4>1, <4>2
      <3>2. QED
        BY <2>1, <3>1 DEF HeldOrAsked, Pending
    <2>5. QED
      BY <2>3, <2>4
  <1>4. QED
    BY <1>2, <1>3

\* What an agent finishes it takes off the queue, from the front.
LEMMA ServedQueue ==
  ASSUME AgentsTypeOK, NEW d \in Domains, Serve(d)
  PROVE  /\ inbox[d][1] \in Request /\ 1 \in 1..Len(inbox[d])
         /\ inbox[d][1].tool \in Tools /\ inbox[d][1].intent \in Intents
         /\ \A e \in Domains \ {d} : inbox'[e] = inbox[e]
         /\ \A k \in 1..Len(inbox'[d]) :
              k + 1 \in 1..Len(inbox[d]) /\ inbox'[d][k] = inbox[d][k + 1]
         /\ \A k, m \in 1..Len(inbox'[d]) : k < m <=> k + 1 < m + 1
         /\ \E out \in Outcomes(d, inbox[d][1].tool, active[d][inbox[d][1].intent]) :
              /\ active' = [active EXCEPT ![d][inbox[d][1].intent] = out.row]
              /\ answer' = IF inbox[d][1].from \in Callers
                             THEN [answer EXCEPT ![inbox[d][1].from] = out.status] ELSE answer
  <1>1. inbox \in [Domains -> Seq(Request)] /\ inbox[d] \in Seq(Request) /\ inbox[d] # <<>>
    BY DEF AgentsTypeOK, Serve
  <1>2. /\ Head(inbox[d]) = inbox[d][1] /\ inbox[d][1] \in Request
        /\ Len(inbox[d]) \in Nat \ {0} /\ Len(Tail(inbox[d])) = Len(inbox[d]) - 1
        /\ \A k \in 1..Len(inbox[d]) - 1 : Tail(inbox[d])[k] = inbox[d][k + 1]
    BY <1>1, TailQueue
  <1>3. inbox'[d] = Tail(inbox[d]) /\ \A e \in Domains \ {d} : inbox'[e] = inbox[e]
    BY <1>1 DEF Serve
  <1>4. ASSUME NEW k \in 1..Len(inbox'[d])
        PROVE  k + 1 \in 1..Len(inbox[d]) /\ inbox'[d][k] = inbox[d][k + 1]
    <2>1. k \in 1..Len(inbox[d]) - 1 /\ k + 1 \in 1..Len(inbox[d])
      BY <1>2, <1>3
    <2>2. QED
      BY <1>2, <1>3, <2>1
  <1>5. \A k, m \in 1..Len(inbox'[d]) : k < m <=> k + 1 < m + 1
    OBVIOUS
  <1>6. \E out \in Outcomes(d, inbox[d][1].tool, active[d][inbox[d][1].intent]) :
          /\ active' = [active EXCEPT ![d][inbox[d][1].intent] = out.row]
          /\ answer' = IF inbox[d][1].from \in Callers
                         THEN [answer EXCEPT ![inbox[d][1].from] = out.status] ELSE answer
    BY <1>2 DEF Serve
  <1>7. 1 \in 1..Len(inbox[d]) /\ inbox[d][1].tool \in Tools /\ inbox[d][1].intent \in Intents
    BY <1>2 DEF Request
  <1>8. QED
    BY <1>2, <1>3, <1>4, <1>5, <1>6, <1>7

\* Agents hold nothing that nobody asked for.
LEMMA AgentsAddNothing ==
  ASSUME AgentsTypeOK, AgentsNext,
         NEW e \in Domains, NEW j \in Intents, HeldOrAsked(e, j)'
  PROVE  HeldOrAsked(e, j)
  <1>1. ASSUME NEW d \in Domains, Serve(d)
        PROVE  HeldOrAsked(e, j)
    <2>1. CASE active'[e][j] /\ ~active[e][j]
      <3>1. PICK out \in Outcomes(d, inbox[d][1].tool, active[d][inbox[d][1].intent]) :
              active' = [active EXCEPT ![d][inbox[d][1].intent] = out.row]
        BY <1>1, ServedQueue
      <3>2. d = e /\ inbox[d][1].intent = j /\ out.row = TRUE
        BY <1>1, <2>1, <3>1, ServedQueue DEF AgentsTypeOK
      <3>3. inbox[d][1].tool = "apply"
        BY <2>1, <3>1, <3>2 DEF Outcomes, RevertOutcomes
      <3>4. QED
        BY <1>1, <3>2, <3>3, ServedQueue DEF HeldOrAsked, Pending
    <2>2. CASE active[e][j]
      BY <2>2 DEF HeldOrAsked
    <2>3. CASE ~active'[e][j]
      <3>1. PICK k \in 1..Len(inbox'[e]) :
              inbox'[e][k].tool = "apply" /\ inbox'[e][k].intent = j
        BY <2>3 DEF HeldOrAsked, Pending
      <3>2. \E m \in 1..Len(inbox[e]) : inbox'[e][k] = inbox[e][m]
        BY <1>1, <3>1, ServedQueue
      <3>3. QED
        BY <3>1, <3>2 DEF HeldOrAsked, Pending
    <2>4. QED
      BY <2>1, <2>2, <2>3
  <1>2. ASSUME NEW d \in Domains, AgentRestart(d)
        PROVE  HeldOrAsked(e, j)
    BY <1>2 DEF AgentRestart, HeldOrAsked, Pending, AgentsTypeOK
  <1>3. ASSUME NEW d \in Domains, NEW t \in Callers, GiveUp(t, d)
        PROVE  HeldOrAsked(e, j)
    <2>1. active' = active /\ inbox' = [inbox EXCEPT ![d] = Orphaned(@, {t})]
      BY <1>3 DEF GiveUp
    <2>2. inbox'[e] = IF e = d THEN Orphaned(inbox[e], {t}) ELSE inbox[e]
      BY <2>1 DEF AgentsTypeOK
    <2>3. inbox[e] \in Seq(Request)
      BY DEF AgentsTypeOK
    <2>4. QED
      BY <2>1, <2>2, <2>3, OrphanedQueue DEF HeldOrAsked, Pending
  <1>4. QED
    BY <1>1, <1>2, <1>3 DEF AgentsNext

-----------------------------------------------------------------------------
(***************************************************************************)
(* The scheduler's call, and what a confirmation says.                     *)
(***************************************************************************)

\* The intent whose reversion is under way is nobody else's.
LEMMA RevertedIsAlone ==
  ASSUME TypeOK, RowsInHand, ClosedIsLeft, pc \in {"cn", "ran"}, plan = "revert"
  PROVE  cur \in Intents /\ window[cur] = "closed" /\ ~BeingHandled(cur)
  BY DEF TypeOK, RowsInHand, InHand, JobOf, ClosedIsLeft

\* Calls of the requests.
LEMMA OthersCall ==
  ASSUME TypeOK, RowsInHand, ClosedIsLeft, SchedulerCalls, ConfirmedIsReleased,
         UNCHANGED schedulerVars,
         NEW r \in Requests, NEW d \in Domains, NEW tool \in Tools, mine[r] \in Intents,
         CallRemoteTool(r, d, tool, mine[r])
  PROVE  SchedulerCalls' /\ ConfirmedIsReleased'
  <1>1. r \in Callers /\ r # Scheduler /\ AgentsTypeOK
    BY RequestsAssumption DEF TypeOK
  <1>2. answer'[Scheduler] = answer[Scheduler]
    BY <1>1, CallQueue, SchedulerAssumption
  <1>3. pc \in {"cn", "ran"} /\ plan = "revert" => cur # mine[r] /\ cur \in Intents
    BY RevertedIsAlone DEF BeingHandled
  <1>4. SchedulerCalls'
    <2>1. CASE inbox' = inbox
      BY <1>2, <2>1 DEF SchedulerCalls, schedulerVars
    <2>2. CASE inbox' # inbox
      <3> DEFINE n == Len(inbox[d])
      <3>1. /\ n \in Nat /\ Len(inbox'[d]) = n + 1
            /\ \A k \in 1..n : inbox'[d][k] = inbox[d][k]
            /\ inbox'[d][n + 1] = [from |-> r, tool |-> tool, intent |-> mine[r]]
            /\ \A e \in Domains \ {d} : inbox'[e] = inbox[e]
        BY <1>1, <2>2, CallQueue
      <3>2. inbox'[d][n + 1].from # Scheduler /\ inbox'[d][n + 1].intent = mine[r]
        BY <1>1, <3>1
      <3>3. ASSUME NEW k \in 1..Len(inbox'[d]), inbox'[d][k].from = Scheduler
            PROVE  /\ pc = d /\ answer[Scheduler] = "none"
                   /\ inbox'[d][k].tool = Tool(plan) /\ inbox'[d][k].intent = cur
                   /\ \A m \in 1..Len(inbox'[d]) : inbox'[d][m].from = Scheduler => m = k
                   /\ plan = "revert" => \A m \in 1..Len(inbox'[d]) :
                        inbox'[d][m].tool = "apply" /\ inbox'[d][m].intent = cur => m < k
        <4>1. k \in 1..n /\ inbox[d][k].from = Scheduler /\ inbox'[d][k] = inbox[d][k]
          BY <3>1, <3>2, <3>3
        <4>2. /\ pc = d /\ answer[Scheduler] = "none"
              /\ inbox[d][k].tool = Tool(plan) /\ inbox[d][k].intent = cur
              /\ \A m \in 1..n : inbox[d][m].from = Scheduler => m = k
              /\ plan = "revert" => \A m \in 1..n :
                   inbox[d][m].tool = "apply" /\ inbox[d][m].intent = cur => m < k
          BY <4>1 DEF SchedulerCalls
        <4>3. plan = "revert" => inbox'[d][n + 1].intent # cur
          BY <1>3, <3>2, <4>2 DEF Domains
        <4>4. \A m \in 1..Len(inbox'[d]) : m = n + 1 \/ (m \in 1..n /\ inbox'[d][m] = inbox[d][m])
          BY <3>1
        <4> HIDE DEF n
        <4>5. QED
          BY <3>2, <4>1, <4>2, <4>3, <4>4
      <3>4. ASSUME NEW e \in Domains \ {d}, NEW k \in 1..Len(inbox'[e]),
                   inbox'[e][k].from = Scheduler
            PROVE  /\ pc = e /\ answer[Scheduler] = "none"
                   /\ inbox'[e][k].tool = Tool(plan) /\ inbox'[e][k].intent = cur
                   /\ \A m \in 1..Len(inbox'[e]) : inbox'[e][m].from = Scheduler => m = k
                   /\ plan = "revert" => \A m \in 1..Len(inbox'[e]) :
                        inbox'[e][m].tool = "apply" /\ inbox'[e][m].intent = cur => m < k
        BY <3>1, <3>4 DEF SchedulerCalls
      <3>5. UNCHANGED <<pc, plan, cur>>
        BY DEF schedulerVars
      <3>6. Tool(plan)' = Tool(plan)
        BY <3>5 DEF Tool
      <3>7. QED
        BY <1>2, <3>3, <3>4, <3>5, <3>6 DEF SchedulerCalls
    <2>3. QED
      BY <2>1, <2>2
  <1>5. ConfirmedIsReleased'
    <2>1. SUFFICES ASSUME pc \in {"cn", "ran"}, plan = "revert"
                   PROVE  /\ Confirms(answer[Scheduler]) => ~HeldOrAsked(pc, cur)'
                          /\ pc = "ran" /\ Confirms(cnAnswer) => ~HeldOrAsked("cn", cur)'
      BY <1>2 DEF ConfirmedIsReleased, Confirms, schedulerVars
    <2>2. \A e \in Domains : HeldOrAsked(e, cur)' => HeldOrAsked(e, cur)
      <3>1. ASSUME NEW e \in Domains, HeldOrAsked(e, cur)'
            PROVE  HeldOrAsked(e, cur)
        <4>1. active'[e][cur] = active[e][cur] /\ cur' = cur
          BY <1>1, CallQueue DEF schedulerVars
        <4>2. QED
          BY <1>1, <1>3, <2>1, <3>1, <4>1, CallAdds
      <3>2. QED
        BY <3>1
    <2>3. UNCHANGED <<pc, cur>> /\ pc \in Domains
      BY <2>1 DEF schedulerVars, Domains
    <2>4. QED
      BY <2>1, <2>2, <2>3 DEF ConfirmedIsReleased, HeldOrAsked, Pending, Domains
  <1>6. QED
    BY <1>4, <1>5

\* The scheduler waits for nothing when it makes a call.
LEMMA NothingWaitedFor ==
  ASSUME TypeOK, SchedulerCalls, pc \notin {"cn", "ran"} \/ answer[Scheduler] # "none",
         NEW d \in Domains, NEW k \in 1..Len(inbox[d])
  PROVE  inbox[d][k].from # Scheduler
  BY DEF SchedulerCalls, Domains

\* Calls of the scheduler.
LEMMA OwnCall ==
  ASSUME TypeOK, SchedulerCalls, pc \notin {"cn", "ran"} \/ answer[Scheduler] # "none",
         NEW d \in Domains, NEW tool \in Tools, NEW i \in Intents,
         CallRemoteTool(Scheduler, d, tool, i), pc' = d, tool = Tool(plan'), cur' = i
  PROVE  SchedulerCalls' /\ ~Confirms(answer[Scheduler])'
  <1>1. AgentsTypeOK
    BY DEF TypeOK
  <1>2. \A e \in Domains : \A k \in 1..Len(inbox[e]) : inbox[e][k].from # Scheduler
    BY NothingWaitedFor
  <1>3. answer'[Scheduler] \in {"none", "error"}
    BY <1>1, CallQueue, SchedulerAssumption
  <1>4. SchedulerCalls'
    <2>1. CASE inbox' = inbox
      BY <1>2, <2>1 DEF SchedulerCalls
    <2>2. CASE inbox' # inbox
      <3> DEFINE n == Len(inbox[d])
      <3>1. /\ n \in Nat /\ Len(inbox'[d]) = n + 1
            /\ \A k \in 1..n : inbox'[d][k] = inbox[d][k]
            /\ inbox'[d][n + 1] = [from |-> Scheduler, tool |-> tool, intent |-> i]
            /\ \A e \in Domains \ {d} : inbox'[e] = inbox[e]
            /\ answer'[Scheduler] = "none"
        BY <1>1, <2>2, CallQueue, SchedulerAssumption
      <3>2. inbox'[d][n + 1].tool = tool /\ inbox'[d][n + 1].intent = i
        BY <3>1
      <3>3. \A k \in 1..Len(inbox'[d]) : inbox'[d][k].from = Scheduler => k = n + 1
        <4>1. \A k \in 1..Len(inbox'[d]) : k = n + 1 \/ (k \in 1..n /\ inbox'[d][k] = inbox[d][k])
          BY <3>1
        <4>2. QED
          BY <1>2, <4>1
      <3>4. \A e \in Domains \ {d} : \A k \in 1..Len(inbox'[e]) : inbox'[e][k].from # Scheduler
        BY <1>2, <3>1
      <3>5. plan' = "revert" => tool # "apply"
        BY DEF Tool
      <3>6. \A m \in 1..Len(inbox'[d]) : m = n + 1 \/ m < n + 1
        BY <3>1
      <3>7. Tool(plan)' = tool
        BY DEF Tool
      <3> HIDE DEF n
      <3>8. QED
        BY <3>1, <3>2, <3>3, <3>4, <3>5, <3>6, <3>7 DEF SchedulerCalls
    <2>3. QED
      BY <2>1, <2>2
  <1>5. QED
    BY <1>3, <1>4 DEF Confirms

\* The agents' steps: a confirmation comes from the directive waited for, when
\* nothing is applied behind it any more.
LEMMA AgentsAnswer ==
  ASSUME TypeOK, SchedulerCalls, ConfirmedIsReleased, AgentsNext, UNCHANGED schedulerVars
  PROVE  SchedulerCalls' /\ ConfirmedIsReleased'
  <1>1. AgentsTypeOK /\ inbox \in [Domains -> Seq(Request)]
    BY DEF TypeOK, AgentsTypeOK
  <1>2. UNCHANGED <<pc, plan, cur, cnAnswer>>
    BY DEF schedulerVars
  <1>3. Tool(plan)' = Tool(plan)
    BY <1>2 DEF Tool
  <1>4. ASSUME NEW e \in Domains, pc \in {"cn", "ran"}, HeldOrAsked(e, cur)'
        PROVE  HeldOrAsked(e, cur)
    BY <1>1, <1>2, <1>4, AgentsAddNothing DEF TypeOK, HeldOrAsked, Pending
  \* It is enough that an answer of the scheduler is still the one it was, or
  \* tells the truth.
  <1>5. ASSUME pc \in {"cn", "ran"} /\ plan = "revert" /\ Confirms(answer'[Scheduler]) =>
                 Confirms(answer[Scheduler]) \/ (\A e \in Domains : e = pc => ~HeldOrAsked(e, cur)')
        PROVE  ConfirmedIsReleased'
    <2>1. SUFFICES ASSUME pc \in {"cn", "ran"}, plan = "revert"
                   PROVE  /\ Confirms(answer'[Scheduler]) =>
                               \A e \in Domains : e = pc => ~HeldOrAsked(e, cur)'
                          /\ pc = "ran" /\ Confirms(cnAnswer) => ~HeldOrAsked("cn", cur)'
      BY <1>2 DEF ConfirmedIsReleased, Confirms, HeldOrAsked, Pending, Domains
    <2>2. QED
      BY <1>4, <1>5, <2>1 DEF ConfirmedIsReleased, Domains
  <1>6. ASSUME NEW d \in Domains, Serve(d)
        PROVE  SchedulerCalls' /\ ConfirmedIsReleased'
    <2>1. /\ \A e \in Domains \ {d} : inbox'[e] = inbox[e]
          /\ \A k \in 1..Len(inbox'[d]) :
               k + 1 \in 1..Len(inbox[d]) /\ inbox'[d][k] = inbox[d][k + 1]
          /\ \A k, m \in 1..Len(inbox'[d]) : k < m <=> k + 1 < m + 1
          /\ 1 \in 1..Len(inbox[d])
      BY <1>1, <1>6, ServedQueue
    <2>2. PICK out \in Outcomes(d, inbox[d][1].tool, active[d][inbox[d][1].intent]) :
            /\ active' = [active EXCEPT ![d][inbox[d][1].intent] = out.row]
            /\ answer' = IF inbox[d][1].from \in Callers
                           THEN [answer EXCEPT ![inbox[d][1].from] = out.status] ELSE answer
      BY <1>1, <1>6, ServedQueue
    <2>3. CASE inbox[d][1].from = Scheduler
      <3>1. /\ pc = d /\ inbox[d][1].tool = Tool(plan) /\ inbox[d][1].intent = cur
            /\ \A m \in 1..Len(inbox[d]) : inbox[d][m].from = Scheduler => m = 1
            /\ plan = "revert" => \A m \in 1..Len(inbox[d]) :
                 inbox[d][m].tool = "apply" /\ inbox[d][m].intent = cur => m < 1
        BY <2>1, <2>3 DEF SchedulerCalls
      <3>2. \A e \in Domains : \A k \in 1..Len(inbox'[e]) : inbox'[e][k].from # Scheduler
        <4>1. ASSUME NEW k \in 1..Len(inbox'[d])
              PROVE  inbox'[d][k].from # Scheduler
          <5>1. k + 1 # 1
            OBVIOUS
          <5>2. QED
            BY <2>1, <3>1, <5>1
        <4>2. ASSUME NEW e \in Domains \ {d}, NEW k \in 1..Len(inbox'[e])
              PROVE  inbox'[e][k].from # Scheduler
          BY <2>1, <3>1 DEF SchedulerCalls
        <4>3. QED
          BY <4>1, <4>2
      <3>3. SchedulerCalls'
        BY <3>2 DEF SchedulerCalls
      <3>4. answer'[Scheduler] = out.status
        BY <1>1, <2>2, <2>3, SchedulerAssumption DEF AgentsTypeOK
      <3>5. ASSUME pc \in {"cn", "ran"}, plan = "revert", Confirms(answer'[Scheduler])
            PROVE  \A e \in Domains : e = pc => ~HeldOrAsked(e, cur)'
        <4>1. inbox[d][1].tool = "revert" /\ cur \in Intents
          BY <3>1, <3>5 DEF Tool, TypeOK
        <4>2. out.row = FALSE
          BY <2>2, <3>4, <3>5, <4>1 DEF Confirms, Outcomes, RevertOutcomes
        <4>3. ~active'[d][cur]
          BY <1>1, <2>2, <3>1, <4>1, <4>2 DEF AgentsTypeOK
        <4>4. ASSUME NEW k \in 1..Len(inbox'[d]),
                     inbox'[d][k].tool = "apply", inbox'[d][k].intent = cur
              PROVE  FALSE
          <5>1. k + 1 \in 1..Len(inbox[d]) /\ inbox'[d][k] = inbox[d][k + 1] /\ ~(k + 1 < 1)
            BY <2>1
          <5>2. QED
            BY <3>1, <3>5, <4>4, <5>1
        <4>5. QED
          BY <1>2, <3>1, <4>3, <4>4 DEF HeldOrAsked, Pending
      <3>6. ConfirmedIsReleased'
        BY <1>5, <3>5
      <3>7. QED
        BY <3>3, <3>6
    <2>4. CASE inbox[d][1].from # Scheduler
      <3>1. answer'[Scheduler] = answer[Scheduler]
        BY <1>1, <2>2, <2>4, SchedulerAssumption DEF AgentsTypeOK
      <3>2. ConfirmedIsReleased'
        BY <1>5, <3>1
      <3>3. ASSUME NEW k \in 1..Len(inbox'[d]), inbox'[d][k].from = Scheduler
            PROVE  /\ pc = d /\ answer[Scheduler] = "none"
                   /\ inbox'[d][k].tool = Tool(plan) /\ inbox'[d][k].intent = cur
                   /\ \A m \in 1..Len(inbox'[d]) : inbox'[d][m].from = Scheduler => m = k
                   /\ plan = "revert" => \A m \in 1..Len(inbox'[d]) :
                        inbox'[d][m].tool = "apply" /\ inbox'[d][m].intent = cur => m < k
        <4>1. k + 1 \in 1..Len(inbox[d]) /\ inbox[d][k + 1].from = Scheduler
          BY <2>1, <3>3
        <4>2. /\ pc = d /\ answer[Scheduler] = "none"
              /\ inbox[d][k + 1].tool = Tool(plan) /\ inbox[d][k + 1].intent = cur
              /\ \A m \in 1..Len(inbox[d]) : inbox[d][m].from = Scheduler => m = k + 1
              /\ plan = "revert" => \A m \in 1..Len(inbox[d]) :
                   inbox[d][m].tool = "apply" /\ inbox[d][m].intent = cur => m < k + 1
          BY <4>1 DEF SchedulerCalls
        <4>3. ASSUME NEW m \in 1..Len(inbox'[d]), inbox'[d][m].from = Scheduler
              PROVE  m = k
          <5>1. m + 1 = k + 1
            BY <2>1, <4>2, <4>3
          <5>2. QED
            BY <5>1
        <4>4. ASSUME plan = "revert", NEW m \in 1..Len(inbox'[d]),
                     inbox'[d][m].tool = "apply", inbox'[d][m].intent = cur
              PROVE  m < k
          <5>1. m + 1 < k + 1
            BY <2>1, <4>2, <4>4
          <5>2. QED
            BY <5>1
        <4>5. QED
          BY <2>1, <4>2, <4>3, <4>4
      <3>4. ASSUME NEW e \in Domains \ {d}, NEW k \in 1..Len(inbox'[e]),
                   inbox'[e][k].from = Scheduler
            PROVE  /\ pc = e /\ answer[Scheduler] = "none"
                   /\ inbox'[e][k].tool = Tool(plan) /\ inbox'[e][k].intent = cur
                   /\ \A m \in 1..Len(inbox'[e]) : inbox'[e][m].from = Scheduler => m = k
                   /\ plan = "revert" => \A m \in 1..Len(inbox'[e]) :
                        inbox'[e][m].tool = "apply" /\ inbox'[e][m].intent = cur => m < k
        BY <2>1, <3>4 DEF SchedulerCalls
      <3>5. QED
        BY <1>2, <1>3, <3>1, <3>2, <3>3, <3>4 DEF SchedulerCalls
    <2>5. QED
      BY <2>3, <2>4
  <1>7. ASSUME NEW d \in Domains, AgentRestart(d)
        PROVE  SchedulerCalls' /\ ConfirmedIsReleased'
    <2>1. /\ inbox'[d] = <<>> /\ \A e \in Domains \ {d} : inbox'[e] = inbox[e]
          /\ answer'[Scheduler] = IF \E k \in 1..Len(inbox[d]) : inbox[d][k].from = Scheduler
                                    THEN "error" ELSE answer[Scheduler]
      BY <1>1, <1>7, SchedulerAssumption DEF AgentRestart
    <2>2. ConfirmedIsReleased'
      BY <1>5, <2>1 DEF Confirms
    <2>3. CASE \E k \in 1..Len(inbox[d]) : inbox[d][k].from = Scheduler
      <3>1. pc = d
        BY <2>3 DEF SchedulerCalls
      <3>2. \A e \in Domains : \A k \in 1..Len(inbox'[e]) : inbox'[e][k].from # Scheduler
        BY <2>1, <3>1 DEF SchedulerCalls
      <3>3. QED
        BY <2>2, <3>2 DEF SchedulerCalls
    <2>4. CASE ~\E k \in 1..Len(inbox[d]) : inbox[d][k].from = Scheduler
      <3>1. answer'[Scheduler] = answer[Scheduler]
        BY <2>1, <2>4
      <3>2. \A e \in Domains : inbox'[e] = inbox[e] \/ Len(inbox'[e]) = 0
        BY <2>1
      <3>3. SchedulerCalls'
        <4>1. SUFFICES ASSUME NEW e \in Domains, NEW k \in 1..Len(inbox'[e]),
                              inbox'[e][k].from = Scheduler
                       PROVE  inbox'[e] = inbox[e]
          BY <1>2, <1>3, <3>1 DEF SchedulerCalls
        <4>2. QED
          BY <3>2
      <3>4. QED
        BY <2>2, <3>3
    <2>5. QED
      BY <2>3, <2>4
  <1>8. ASSUME NEW d \in Domains, NEW t \in Callers, GiveUp(t, d)
        PROVE  SchedulerCalls' /\ ConfirmedIsReleased'
    <2>1. /\ inbox'[d] = Orphaned(inbox[d], {t})
          /\ \A e \in Domains \ {d} : inbox'[e] = inbox[e]
          /\ answer'[Scheduler] = IF t = Scheduler THEN "error" ELSE answer[Scheduler]
      BY <1>1, <1>8, SchedulerAssumption DEF GiveUp, AgentsTypeOK
    <2>2. /\ Len(inbox'[d]) = Len(inbox[d])
          /\ \A k \in 1..Len(inbox[d]) :
               /\ inbox'[d][k].tool = inbox[d][k].tool
               /\ inbox'[d][k].intent = inbox[d][k].intent
               /\ inbox'[d][k].from = IF inbox[d][k].from = t THEN NoCaller ELSE inbox[d][k].from
      BY <1>1, <2>1, OrphanedQueue
    <2>3. ConfirmedIsReleased'
      BY <1>5, <2>1 DEF Confirms
    <2>4. CASE t = Scheduler
      <3>1. pc = d
        BY <1>8, <2>4 DEF GiveUp, SchedulerCalls
      <3>2. \A k \in 1..Len(inbox'[d]) : inbox'[d][k].from # Scheduler
        BY <2>2, <2>4, CallersAssumption, SchedulerAssumption
      <3>3. \A e \in Domains \ {d} : \A k \in 1..Len(inbox'[e]) : inbox'[e][k].from # Scheduler
        BY <2>1, <3>1 DEF SchedulerCalls
      <3>4. QED
        BY <2>3, <3>2, <3>3 DEF SchedulerCalls
    <2>5. CASE t # Scheduler
      <3>1. \A k \in 1..Len(inbox[d]) :
              inbox'[d][k].from = Scheduler => inbox[d][k].from = Scheduler
        BY <2>2, CallersAssumption, SchedulerAssumption
      <3>2. answer'[Scheduler] = answer[Scheduler]
        BY <2>1, <2>5
      <3>3. ASSUME NEW k \in 1..Len(inbox'[d]), inbox'[d][k].from = Scheduler
            PROVE  /\ pc = d /\ answer[Scheduler] = "none"
                   /\ inbox'[d][k].tool = Tool(plan) /\ inbox'[d][k].intent = cur
                   /\ \A m \in 1..Len(inbox'[d]) : inbox'[d][m].from = Scheduler => m = k
                   /\ plan = "revert" => \A m \in 1..Len(inbox'[d]) :
                        inbox'[d][m].tool = "apply" /\ inbox'[d][m].intent = cur => m < k
        <4>1. k \in 1..Len(inbox[d]) /\ inbox[d][k].from = Scheduler
          BY <2>2, <3>1, <3>3
        <4>2. /\ pc = d /\ answer[Scheduler] = "none"
              /\ inbox[d][k].tool = Tool(plan) /\ inbox[d][k].intent = cur
              /\ \A m \in 1..Len(inbox[d]) : inbox[d][m].from = Scheduler => m = k
              /\ plan = "revert" => \A m \in 1..Len(inbox[d]) :
                   inbox[d][m].tool = "apply" /\ inbox[d][m].intent = cur => m < k
          BY <4>1 DEF SchedulerCalls
        <4>3. QED
          BY <2>2, <3>1, <4>1, <4>2
      <3>4. ASSUME NEW e \in Domains \ {d}, NEW k \in 1..Len(inbox'[e]),
                   inbox'[e][k].from = Scheduler
            PROVE  /\ pc = e /\ answer[Scheduler] = "none"
                   /\ inbox'[e][k].tool = Tool(plan) /\ inbox'[e][k].intent = cur
                   /\ \A m \in 1..Len(inbox'[e]) : inbox'[e][m].from = Scheduler => m = k
                   /\ plan = "revert" => \A m \in 1..Len(inbox'[e]) :
                        inbox'[e][m].tool = "apply" /\ inbox'[e][m].intent = cur => m < k
        BY <2>1, <3>4 DEF SchedulerCalls
      <3>5. QED
        BY <1>2, <1>3, <2>3, <3>2, <3>3, <3>4 DEF SchedulerCalls
    <2>6. QED
      BY <2>4, <2>5
  <1>9. QED
    BY <1>6, <1>7, <1>8 DEF AgentsNext

-----------------------------------------------------------------------------
(***************************************************************************)
(* The steps of the requests.                                              *)
(***************************************************************************)

\* One request takes a step, and it tracks what it has a part in.
LEMMA TrackedAfter ==
  ASSUME TrackedOrHandled, NEW r \in Requests,
         \A q \in Requests \ {r} :
           mine'[q] = mine[q] /\ called'[q] = called[q] /\ ask'[q] = ask[q],
         \A d \in Domains, i \in Intents : HeldOrAsked(d, i)' =>
           /\ HeldOrAsked(d, i) \/ (mine'[r] = i /\ Responsible(r)')
           /\ Tracked(i) => Tracked(i)' \/ (mine'[r] = i /\ Responsible(r)')
           /\ mine[r] = i /\ Responsible(r) => Tracked(i)' \/ (mine'[r] = i /\ Responsible(r)')
  PROVE  TrackedOrHandled'
  <1>1. \A q \in Requests \ {r} : Responsible(q)' <=> Responsible(q)
    BY DEF Responsible
  <1>2. SUFFICES ASSUME NEW i \in Intents, NEW d \in Domains, HeldOrAsked(d, i)', ~Tracked(i)',
                        ~(mine'[r] = i /\ Responsible(r)')
                 PROVE  \E q \in Requests : mine'[q] = i /\ Responsible(q)'
    BY DEF TrackedOrHandled
  <1>3. HeldOrAsked(d, i) /\ ~Tracked(i) /\ ~(mine[r] = i /\ Responsible(r))
    BY <1>2
  <1>4. PICK q \in Requests : mine[q] = i /\ Responsible(q)
    BY <1>3 DEF TrackedOrHandled
  <1>5. QED
    BY <1>1, <1>3, <1>4

\* The thread that ends, and the others.
LEMMA EndOne ==
  ASSUME OrchestratorTypeOK, NEW r \in Requests, End({r})
  PROVE  /\ at'[r] = "done" /\ mine'[r] = NoIntent /\ ask'[r] = NoAsk /\ called'[r] = {}
         /\ \A q \in Requests \ {r} :
              /\ at'[q] = at[q] /\ mine'[q] = mine[q]
              /\ ask'[q] = ask[q] /\ called'[q] = called[q]
  BY DEF End, OrchestratorTypeOK

\* What a request does to the intents table: it records a row nobody has, or
\* writes the status of its own, and never that of a row that is scheduled.
LEMMA StatusAfter ==
  ASSUME TypeOK, NEW i \in Intents, NEW s \in Statuses, UpdateIntentStatus(i, s)
  PROVE  /\ \A j \in Intents \ {i} : status'[j] = status[j]
         /\ status'[i] = IF status[i] = "scheduled" THEN "scheduled" ELSE s
  BY DEF UpdateIntentStatus, TypeOK

LEMMA TrackedKept ==
  ASSUME UNCHANGED status, NEW i
  PROVE  Tracked(i)' <=> Tracked(i)
  BY DEF Tracked

\* Steps that do not call a domain.
LEMMA HeldKept ==
  ASSUME UNCHANGED <<active, inbox>>, NEW d, NEW i
  PROVE  HeldOrAsked(d, i)' <=> HeldOrAsked(d, i)
  BY DEF HeldOrAsked, Pending

\* No request takes up a row whose window is over, and windows do not close
\* by what requests do.
LEMMA RequestWindows ==
  ASSUME OwnershipInv, ClosedIsLeft, RequestNext
  PROVE  /\ ClosedIsLeft'
         /\ \A i \in Intents : status[i] # "absent" => window'[i] = window[i]
  <1> USE DEF OwnershipInv
  <1>1. OrchestratorTypeOK /\ TypeOK /\ mine \in [Requests -> Intents \cup {NoIntent}]
    BY DEF OrchestratorTypeOK
  <1>2. PICK r \in Requests :
          \/ ReceiveIntent(r)
          \/ \E i \in Intents : ReceiveEvent(r, i) \/ ReuseIntent(r, i)
          \/ \E i \in Intents, w \in Windows : RecordIntent(r, i, w)
          \/ \E d \in Domains, tool \in Tools : CallDomainTool(r, d, tool)
          \/ ToolAnswered(r)
          \/ ModelUpdatesStatus(r)
          \/ LoopEnds(r)
          \/ RequestDies(r)
          \/ SafetyNet(r)
          \/ SkipSettle(r) \/ Settle(r)
          \/ SettleFailed(r) \/ SettleCnReverted(r) \/ SettleRanReverted(r)
          \/ EventEnds(r)
    BY DEF RequestNext
  <1>3. CASE \E i \in Intents : ReceiveEvent(r, i) \/ ReuseIntent(r, i)
    <2>1. PICK i \in Intents : /\ window[i] # "closed" /\ UNCHANGED window
                               /\ mine' = [mine EXCEPT ![r] = i]
      BY <1>3 DEF ReceiveEvent, ReuseIntent, vars, tableVars
    <2>2. QED
      BY <1>1, <2>1 DEF ClosedIsLeft, BeingHandled
  <1>4. CASE \E i \in Intents, w \in Windows : RecordIntent(r, i, w)
    <2>1. PICK i \in Intents, w \in Windows :
             /\ w # "closed" /\ status[i] = "absent"
             /\ window' = [window EXCEPT ![i] = w] /\ mine' = [mine EXCEPT ![r] = i]
      BY <1>4 DEF RecordIntent
    <2>2. QED
      BY <1>1, <2>1 DEF ClosedIsLeft, BeingHandled, TypeOK
  <1>5. CASE /\ ~\E i \in Intents : ReceiveEvent(r, i) \/ ReuseIntent(r, i)
             /\ ~\E i \in Intents, w \in Windows : RecordIntent(r, i, w)
    <2>1. UNCHANGED window
      BY <1>2, <1>5
         DEF ReceiveIntent, CallDomainTool, ToolAnswered, ModelUpdatesStatus, LoopEnds,
             RequestDies, SafetyNet, SkipSettle, Settle, SettleFailed, SettleCnReverted,
             SettleRanReverted, EventEnds, vars, tableVars
    <2>2. UNCHANGED mine \/ End({r})
      BY <1>2, <1>5
         DEF ReceiveIntent, CallDomainTool, ToolAnswered, ModelUpdatesStatus, LoopEnds,
             RequestDies, SafetyNet, SkipSettle, Settle, SettleFailed, SettleCnReverted,
             SettleRanReverted, EventEnds
    <2>3. \A q \in Requests : mine'[q] # NoIntent => mine'[q] = mine[q]
      BY <1>1, <2>2, EndType
    <2>4. QED
      BY <2>1, <2>3, NoIntentAssumption DEF ClosedIsLeft, BeingHandled
  <1>6. QED
    BY <1>3, <1>4, <1>5

\* Requests keep to their order, and what they have a part in is tracked.
LEMMA RequestTracks ==
  ASSUME Undisturbed, OwnershipInv, TrackedOrHandled, RequestsInOrder, RequestNext
  PROVE  TrackedOrHandled' /\ RequestsInOrder'
  <1> USE DEF OwnershipInv
  <1>1. /\ OrchestratorTypeOK /\ TypeOK /\ AgentsTypeOK
        /\ mine \in [Requests -> Intents \cup {NoIntent}]
        /\ at \in [Requests -> Steps] /\ ask \in [Requests -> Asks]
        /\ called \in [Requests -> SUBSET Domains]
    BY DEF OrchestratorTypeOK, TypeOK
  <1>2. PICK r \in Requests :
          \/ ReceiveIntent(r)
          \/ \E i \in Intents : ReceiveEvent(r, i) \/ ReuseIntent(r, i)
          \/ \E i \in Intents, w \in Windows : RecordIntent(r, i, w)
          \/ \E d \in Domains, tool \in Tools : CallDomainTool(r, d, tool)
          \/ ToolAnswered(r)
          \/ ModelUpdatesStatus(r)
          \/ LoopEnds(r)
          \/ RequestDies(r)
          \/ SafetyNet(r)
          \/ SkipSettle(r) \/ Settle(r)
          \/ SettleFailed(r) \/ SettleCnReverted(r) \/ SettleRanReverted(r)
          \/ EventEnds(r)
    BY DEF RequestNext
  <1> DEFINE Kept == \A q \in Requests \ {r} :
                mine'[q] = mine[q] /\ called'[q] = called[q] /\ ask'[q] = ask[q]
             Keeper(i) == mine'[r] = i /\ Responsible(r)'
  \* A step that leaves rows and queues alone.
  <1>3. ASSUME UNCHANGED <<active, inbox>>, Kept,
               \A i \in Intents : Tracked(i) => Tracked(i)' \/ Keeper(i) \/ TooEarly(i),
               \A i \in Intents : mine[r] = i /\ Responsible(r) => Tracked(i)' \/ Keeper(i)
        PROVE  TrackedOrHandled'
    <2>1. \A d \in Domains, i \in Intents : HeldOrAsked(d, i)' =>
             HeldOrAsked(d, i) /\ ~TooEarly(i)
      BY <1>3, HeldKept DEF NothingEarly, HeldOrAsked
    <2> HIDE DEF OwnershipInv
    <2>2. QED
      BY <1>3, <2>1, TrackedAfter
  <1>4. CASE ReceiveIntent(r)
    <2>1. Kept /\ UNCHANGED <<active, inbox, status>> /\ UNCHANGED <<mine, called, ask>>
      BY <1>4 DEF ReceiveIntent, vars, agentVars, tableVars
    <2>2. TrackedOrHandled'
      BY <1>3, <2>1, TrackedKept DEF Responsible
    <2>3. RequestsInOrder'
      BY <1>1, <1>4 DEF ReceiveIntent, Goto, RequestsInOrder
    <2>4. QED
      BY <2>2, <2>3
  <1>5. ASSUME NEW i \in Intents, ReceiveEvent(r, i) \/ ReuseIntent(r, i)
        PROVE  TrackedOrHandled' /\ RequestsInOrder'
    <2>1. /\ UNCHANGED <<active, inbox, status>> /\ UNCHANGED <<called, ask>>
          /\ mine' = [mine EXCEPT ![r] = i]
      BY <1>5 DEF ReceiveEvent, ReuseIntent, vars, agentVars, tableVars
    <2>2. mine[r] = NoIntent
      BY <1>5 DEF ReceiveEvent, ReuseIntent, RequestsInOrder
    <2>3. Kept
      BY <1>1, <2>1
    <2>4. TrackedOrHandled'
      BY <1>3, <2>1, <2>2, <2>3, TrackedKept, NoIntentAssumption
    <2>5. RequestsInOrder'
      BY <1>1, <1>5, <2>1 DEF ReceiveEvent, ReuseIntent, InLoop, Goto, RequestsInOrder
    <2>6. QED
      BY <2>4, <2>5
  <1>6. ASSUME NEW i \in Intents, NEW w \in Windows, RecordIntent(r, i, w)
        PROVE  TrackedOrHandled' /\ RequestsInOrder'
    <2>1. /\ UNCHANGED <<active, inbox>> /\ UNCHANGED <<called, ask, at>>
          /\ mine[r] = NoIntent /\ mine' = [mine EXCEPT ![r] = i] /\ at[r] = "intent"
          /\ status[i] = "absent" /\ \A j \in Intents \ {i} : status'[j] = status[j]
      BY <1>1, <1>6 DEF RecordIntent, InLoop, agentVars, TypeOK
    <2>2. Kept
      BY <1>1, <2>1
    <2>3. \A j \in Intents : Tracked(j) => Tracked(j)' \/ TooEarly(j)
      BY <2>1 DEF Tracked, TooEarly
    <2>4. TrackedOrHandled'
      BY <1>3, <2>1, <2>2, <2>3, NoIntentAssumption
    <2>5. RequestsInOrder'
      BY <1>1, <2>1 DEF RequestsInOrder
    <2>6. QED
      BY <2>4, <2>5
  <1>7. ASSUME NEW d \in Domains, NEW tool \in Tools, CallDomainTool(r, d, tool)
        PROVE  TrackedOrHandled' /\ RequestsInOrder'
    <2>1. /\ mine[r] \in Intents /\ UNCHANGED <<status, mine, at>>
          /\ at[r] \in {"intent", "event"}
      BY <1>1, <1>7 DEF CallDomainTool, InLoop, tableVars
    <2>2. RequestsInOrder'
      BY <1>1, <1>7, <2>1 DEF CallDomainTool, RequestsInOrder
    <2>3. CASE Blocked(r, tool)
      <3>1. /\ UNCHANGED <<active, inbox, ask>>
            /\ called' = [called EXCEPT ![r] = @ \cup {d}]
        BY <1>7, <2>3 DEF CallDomainTool, agentVars
      <3>2. Kept /\ Responsible(r)'
        BY <1>1, <2>1, <3>1 DEF Responsible
      <3>3. TrackedOrHandled'
        BY <1>3, <2>1, <3>1, <3>2, TrackedKept
      <3>4. QED
        BY <2>2, <3>3
    <2>4. CASE ~Blocked(r, tool)
      <3>1. /\ CallRemoteTool(r, d, tool, mine[r]) /\ UNCHANGED called /\ r \in Callers
            /\ ask[r] = NoAsk /\ ask' = [ask EXCEPT ![r] = [domain |-> d, tool |-> tool]]
        BY <1>7, <2>4, RequestsAssumption DEF CallDomainTool, InLoop
      <3>2. Kept
        BY <1>1, <2>1, <3>1
      <3>3. ask'[r].tool = tool
        BY <1>1, <3>1
      <3>4. tool = "apply" => Responsible(r)'
        BY <3>3 DEF Responsible, NoAsk
      <3>5. Responsible(r) => Responsible(r)'
        BY <3>1 DEF Responsible
      <3>6. \A e \in Domains, j \in Intents : HeldOrAsked(e, j)' =>
               HeldOrAsked(e, j) \/ Keeper(j)
        BY <1>1, <2>1, <3>1, <3>4, CallAdds
      <3>7. TrackedOrHandled'
        BY <2>1, <3>2, <3>5, <3>6, TrackedAfter, TrackedKept
      <3>8. QED
        BY <2>2, <3>7
    <2>5. QED
      BY <2>3, <2>4
  <1>8. CASE SettleFailed(r) \/ SettleCnReverted(r)
    <2>1. /\ mine[r] \in Intents /\ UNCHANGED <<status, mine, called, ask>> /\ r \in Callers
          /\ \E d \in Domains : CallRemoteTool(r, d, "revert", mine[r])
      BY <1>1, <1>8, RequestsAssumption
         DEF SettleFailed, SettleCnReverted, OrchestratorTypeOK, tableVars, Domains
    <2>2. "revert" \in Tools
      BY DEF Tools
    <2>3. \A e \in Domains, j \in Intents : HeldOrAsked(e, j)' => HeldOrAsked(e, j)
      BY <1>1, <2>1, <2>2, CallAdds
    <2>4. TrackedOrHandled'
      BY <2>1, <2>3, TrackedAfter, TrackedKept DEF Responsible
    <2>5. RequestsInOrder'
      BY <1>1, <1>8, <2>1 DEF SettleFailed, SettleCnReverted, Goto, RequestsInOrder
    <2>6. QED
      BY <2>4, <2>5
  <1>9. CASE ToolAnswered(r)
    <2>1. /\ UNCHANGED <<active, inbox, status>> /\ UNCHANGED <<mine, at>>
          /\ ask' = [ask EXCEPT ![r] = NoAsk]
      BY <1>9 DEF ToolAnswered, vars, agentVars, tableVars
    <2>2. CASE ask[r].tool = "apply"
      <3>1. called' = [called EXCEPT ![r] = @ \cup {ask[r].domain}]
        BY <1>9, <2>2 DEF ToolAnswered
      <3>2. Kept /\ Responsible(r)'
        BY <1>1, <2>1, <3>1 DEF Responsible
      <3>3. TrackedOrHandled'
        BY <1>3, <2>1, <3>2, TrackedKept
      <3>4. QED
        BY <1>1, <2>1, <3>3 DEF RequestsInOrder
    <2>3. CASE ask[r].tool # "apply"
      <3>1. Kept /\ (Responsible(r) => Responsible(r)')
        BY <1>1, <1>9, <2>1, <2>3 DEF ToolAnswered, Responsible
      <3>2. TrackedOrHandled'
        BY <1>3, <2>1, <3>1, TrackedKept
      <3>3. QED
        BY <1>1, <2>1, <3>2 DEF RequestsInOrder
    <2>4. QED
      BY <2>2, <2>3
  <1>10. CASE ModelUpdatesStatus(r)
    <2>1. /\ UNCHANGED <<active, inbox>> /\ UNCHANGED <<mine, at, called, ask>>
          /\ mine[r] \in Intents /\ called[r] # {}
      <3>1. /\ UNCHANGED <<active, inbox>> /\ UNCHANGED <<mine, at, called, ask>>
            /\ mine[r] \in Intents
        BY <1>1, <1>10 DEF ModelUpdatesStatus, agentVars
      <3>2. called[r] = {} => "claims" \in Habits
        BY <1>10 DEF ModelUpdatesStatus, Domains
      <3>3. QED
        BY <3>1, <3>2 DEF Undisturbed
    <2>2. \A j \in Intents \ {mine[r]} : status'[j] = status[j]
      <3>1. ModelStatuses \subseteq Statuses
        BY DEF ModelStatuses, Statuses
      <3>2. QED
        BY <1>1, <1>10, <2>1, <3>1, StatusAfter DEF ModelUpdatesStatus
    <2>3. Responsible(r)' /\ Kept
      BY <2>1 DEF Responsible
    <2>4. \A j \in Intents : Tracked(j) => Tracked(j)' \/ Keeper(j)
      BY <2>1, <2>2, <2>3 DEF Tracked
    <2>5. TrackedOrHandled'
      BY <1>3, <2>1, <2>3, <2>4
    <2>6. QED
      BY <2>1, <2>5 DEF RequestsInOrder
  <1>11. CASE SafetyNet(r)
    <2>1. /\ UNCHANGED <<active, inbox>> /\ UNCHANGED <<mine, called, ask>>
          /\ mine[r] \in Intents /\ at[r] = "net" /\ at' = [at EXCEPT ![r] = "settle"]
      BY <1>1, <1>11 DEF SafetyNet, Goto, agentVars, OrchestratorTypeOK
    <2>2. \A j \in Intents : Tracked(j) => Tracked(j)'
      <3>1. InferStatus(r) \in {"applied", "degraded", "failed"}
        BY <1>1, InferredStatus
      <3>2. InferStatus(r) \in Statuses
        BY <3>1 DEF Statuses
      <3>3. CASE UNCHANGED status
        BY <3>3, TrackedKept
      <3>4. CASE UpdateIntentStatus(mine[r], InferStatus(r))
        BY <1>1, <2>1, <3>1, <3>2, <3>4, StatusAfter DEF Tracked, InForce
      <3>5. QED
        BY <1>11, <3>3, <3>4 DEF SafetyNet
    <2>3. TrackedOrHandled'
      BY <1>3, <2>1, <2>2 DEF Responsible
    <2>4. QED
      BY <1>1, <2>1, <2>3 DEF RequestsInOrder
  <1>12. CASE LoopEnds(r) /\ mine[r] # NoIntent
    <2>1. /\ UNCHANGED <<active, inbox, status>> /\ UNCHANGED <<mine, called, ask>>
          /\ ask[r] = NoAsk /\ at' = [at EXCEPT ![r] = "net"]
      BY <1>12 DEF LoopEnds, Goto, InLoop, vars, agentVars, tableVars
    <2>2. TrackedOrHandled'
      BY <1>3, <2>1, TrackedKept DEF Responsible
    <2>3. QED
      BY <1>1, <2>1, <2>2 DEF RequestsInOrder
  <1>13. CASE \/ LoopEnds(r) /\ mine[r] = NoIntent
              \/ SkipSettle(r) \/ Settle(r) \/ SettleRanReverted(r) \/ EventEnds(r)
    <2>1. End({r}) /\ UNCHANGED <<active, inbox>>
      BY <1>13 DEF LoopEnds, SkipSettle, Settle, SettleRanReverted, EventEnds, vars, agentVars
    <2>2. Kept /\ RequestsInOrder'
      BY <1>1, <2>1, EndOne DEF RequestsInOrder
    <2>3. /\ \A j \in Intents : Tracked(j) => Tracked(j)'
          /\ \A j \in Intents : mine[r] = j /\ Responsible(r) => Tracked(j)'
      <3>1. CASE mine[r] = NoIntent
        <4>1. UNCHANGED status
          BY <1>1, <1>13, <3>1
             DEF LoopEnds, SkipSettle, Settle, SettleRanReverted, EventEnds, InLoop,
                 OrchestratorTypeOK, vars, tableVars
        <4>2. QED
          BY <3>1, <4>1, TrackedKept, NoIntentAssumption
      <3>2. CASE mine[r] # NoIntent
        <4>1. mine[r] \in Intents
          BY <1>1, <3>2
        <4>2. ask[r] = NoAsk
          BY <1>13, <3>2
             DEF SkipSettle, Settle, SettleRanReverted, EventEnds, InLoop, RequestsInOrder
        <4>3. InferStatus(r) \in {"applied", "degraded", "failed"}
          BY <1>1, InferredStatus
        <4>4. \/ UNCHANGED status /\ (called[r] = {} \/ status[mine[r]] = "scheduled")
              \/ \E s \in {"applied", "degraded", "failed"} : UpdateIntentStatus(mine[r], s)
          BY <1>13, <3>2, <4>3
             DEF SkipSettle, NothingToSettle, Settle, SettleRanReverted, EventEnds,
                 vars, tableVars
        <4>5. CASE UNCHANGED status /\ (called[r] = {} \/ status[mine[r]] = "scheduled")
          BY <4>2, <4>5, TrackedKept DEF Responsible, Tracked
        <4>6. ASSUME NEW s \in {"applied", "degraded", "failed"},
                     UpdateIntentStatus(mine[r], s)
              PROVE  \A j \in Intents : /\ Tracked(j) => Tracked(j)'
                                        /\ mine[r] = j => Tracked(j)'
          <5>1. s \in Statuses
            BY DEF Statuses
          <5>2. QED
            BY <1>1, <4>1, <4>6, <5>1, StatusAfter DEF Tracked, InForce
        <4>7. QED
          BY <4>4, <4>5, <4>6
      <3>3. QED
        BY <3>1, <3>2
    <2>4. TrackedOrHandled'
      BY <1>3, <2>1, <2>2, <2>3
    <2>5. QED
      BY <2>2, <2>4
  <1>14. ~RequestDies(r)
    BY DEF RequestDies, Undisturbed
  <1>15. QED
    BY <1>2, <1>4, <1>5, <1>6, <1>7, <1>8, <1>9, <1>10, <1>11, <1>12, <1>13, <1>14

\* Rows that stay in hand, and stay as they were.
LEMMA RowsStay ==
  ASSUME RowsInHand, UNCHANGED schedulerVars, InHand' = InHand,
         \A i \in InHand : /\ status[i] = "scheduled" => status'[i] = "scheduled"
                           /\ window[i] = "closed" => window'[i] = "closed"
  PROVE  RowsInHand'
  <1>1. UNCHANGED <<pc, cur, todo, job, plan>> /\ JobOf(plan)' = JobOf(plan)
    BY DEF schedulerVars, JobOf
  <1>2. (pc \in {"cn", "ran"} => cur \notin todo /\ job = JobOf(plan))'
    BY <1>1 DEF RowsInHand
  <1>3. \A i \in InHand' : /\ job' = "activation" => status'[i] = "scheduled"
                           /\ job' = "reversion" => window'[i] = "closed"
    <2>1. TAKE i \in InHand'
    <2>2. i \in InHand
      OBVIOUS
    <2>3. (job = "activation" => status[i] = "scheduled") /\ (job = "reversion" => window[i] = "closed")
      BY <2>2 DEF RowsInHand
    <2>4. QED
      BY <1>1, <2>2, <2>3
  <1>4. QED
    BY <1>2, <1>3 DEF RowsInHand

\* The rows the scheduler has in hand stay as it found them, ...
LEMMA RequestHands ==
  ASSUME OwnershipInv, ClosedIsLeft, RowsInHand, RequestNext
  PROVE  RowsInHand'
  <1>1. UNCHANGED schedulerVars
    BY RequestTypes DEF OwnershipInv
  <1>2. ScheduledKept
    BY RequestStep
  <1>3. InHand \subseteq Intents /\ \A i \in InHand : status[i] # "absent"
    BY DEF OwnershipInv, OrchestratorTypeOK, TypeOK, RowsAreOpen, InHand
  <1>4. \A i \in InHand : /\ status[i] = "scheduled" => status'[i] = "scheduled"
                          /\ window[i] = "closed" => window'[i] = "closed"
    BY <1>2, <1>3, RequestWindows DEF ScheduledKept
  <1>5. InHand' = InHand
    BY <1>1 DEF InHand, schedulerVars
  <1>6. QED
    BY <1>1, <1>4, <1>5, RowsStay

\* A step that neither calls an agent nor is one.
LEMMA QuietCalls ==
  ASSUME SchedulerCalls, ConfirmedIsReleased, UNCHANGED <<active, inbox, answer, schedulerVars>>
  PROVE  SchedulerCalls' /\ ConfirmedIsReleased'
  BY DEF SchedulerCalls, ConfirmedIsReleased, schedulerVars, HeldOrAsked, Pending, Tool, Confirms

\* ... and so does what it waits for and what it was told.
LEMMA RequestCalls ==
  ASSUME OwnershipInv, ClosedIsLeft, RowsInHand, SchedulerCalls, ConfirmedIsReleased, RequestNext
  PROVE  SchedulerCalls' /\ ConfirmedIsReleased'
  <1>1. OrchestratorTypeOK /\ TypeOK /\ UNCHANGED schedulerVars
    BY RequestTypes DEF OwnershipInv, OrchestratorTypeOK
  <1>2. PICK r \in Requests :
          \/ ReceiveIntent(r)
          \/ \E i \in Intents : ReceiveEvent(r, i) \/ ReuseIntent(r, i)
          \/ \E i \in Intents, w \in Windows : RecordIntent(r, i, w)
          \/ \E d \in Domains, tool \in Tools : CallDomainTool(r, d, tool)
          \/ ToolAnswered(r)
          \/ ModelUpdatesStatus(r)
          \/ LoopEnds(r)
          \/ RequestDies(r)
          \/ SafetyNet(r)
          \/ SkipSettle(r) \/ Settle(r)
          \/ SettleFailed(r) \/ SettleCnReverted(r) \/ SettleRanReverted(r)
          \/ EventEnds(r)
    BY DEF RequestNext
  <1>3. CASE UNCHANGED <<active, inbox, answer>>
    BY <1>1, <1>3, QuietCalls
  <1>4. ASSUME NEW d \in Domains, NEW tool \in Tools, CallDomainTool(r, d, tool),
               ~UNCHANGED <<active, inbox, answer>>
        PROVE  SchedulerCalls' /\ ConfirmedIsReleased'
    <2>1. CallRemoteTool(r, d, tool, mine[r]) /\ mine[r] \in Intents
      BY <1>1, <1>4 DEF CallDomainTool, agentVars, OrchestratorTypeOK
    <2>2. QED
      BY <1>1, <2>1, OthersCall
  <1>5. CASE SettleFailed(r) \/ SettleCnReverted(r)
    <2>1. mine[r] \in Intents /\ "revert" \in Tools
      BY <1>1, <1>5 DEF SettleFailed, SettleCnReverted, OrchestratorTypeOK, Tools
    <2>2. PICK d \in Domains : CallRemoteTool(r, d, "revert", mine[r])
      BY <1>5 DEF SettleFailed, SettleCnReverted, Domains
    <2>3. QED
      BY <1>1, <2>1, <2>2, OthersCall
  <1>6. CASE \/ ReceiveIntent(r) \/ ToolAnswered(r) \/ ModelUpdatesStatus(r) \/ LoopEnds(r)
             \/ RequestDies(r) \/ SafetyNet(r) \/ SkipSettle(r) \/ Settle(r)
             \/ SettleRanReverted(r) \/ EventEnds(r)
             \/ \E i \in Intents : ReceiveEvent(r, i) \/ ReuseIntent(r, i)
             \/ \E i \in Intents, w \in Windows : RecordIntent(r, i, w)
    <2>1. UNCHANGED <<active, inbox, answer>>
      BY <1>6 DEF ReceiveIntent, ToolAnswered, ModelUpdatesStatus, LoopEnds, RequestDies,
                  SafetyNet, SkipSettle, Settle, SettleRanReverted, EventEnds, ReceiveEvent,
                  ReuseIntent, RecordIntent, vars, agentVars
    <2>2. QED
      BY <1>3, <2>1
  <1>7. QED
    BY <1>2, <1>3, <1>4, <1>5, <1>6

-----------------------------------------------------------------------------
(***************************************************************************)
(* The steps of the scheduler, its agents and the clock.                   *)
(***************************************************************************)

\* The scheduler puts nothing in force but for a row it tracks, and closes a
\* row only when both domains have let go of it.
LEMMA SchedulerTracks ==
  ASSUME OwnershipInv, TrackedOrHandled, RowsInHand, ConfirmedIsReleased, SchedulerNext
  PROVE  TrackedOrHandled'
  <1>1. TypeOK /\ AgentsTypeOK
    BY DEF OwnershipInv, OrchestratorTypeOK, TypeOK
  <1>2. UNCHANGED requestVars
    BY DEF SchedulerNext
  <1>3. ASSUME \A d \in Domains, i \in Intents :
                 HeldOrAsked(d, i)' => HeldOrAsked(d, i) \/ Tracked(i)',
               \A d \in Domains, i \in Intents :
                 HeldOrAsked(d, i)' /\ Tracked(i) => Tracked(i)'
        PROVE  TrackedOrHandled'
    <2>1. SUFFICES ASSUME NEW i \in Intents, NEW d \in Domains, HeldOrAsked(d, i)', ~Tracked(i)'
                   PROVE  \E r \in Requests : mine'[r] = i /\ Responsible(r)'
      BY DEF TrackedOrHandled
    <2>2. PICK r \in Requests : mine[r] = i /\ Responsible(r)
      BY <1>3, <2>1 DEF TrackedOrHandled
    <2>3. QED
      BY <1>2, <2>2 DEF requestVars, Responsible
  <1>4. CASE UNCHANGED <<active, inbox, status>>
    BY <1>3, <1>4, HeldKept, TrackedKept
  <1>5. CASE Agents
    <2>1. AgentsNext /\ UNCHANGED status
      BY <1>5 DEF Agents, tableVars
    <2>2. \A d \in Domains, i \in Intents : HeldOrAsked(d, i)' => HeldOrAsked(d, i)
      BY <1>1, <2>1, AgentsAddNothing
    <2>3. QED
      BY <1>3, <2>1, <2>2, TrackedKept
  <1>6. CASE (\E i \in Intents : TakeUp(i)) \/ CoreAnswered \/ ActivationRefused
    <2>1. /\ UNCHANGED status /\ cur' \in Intents /\ cur' \in InHand
          /\ plan' = "apply" => job = "activation"
          /\ \E d \in Domains : CallRemoteTool(Scheduler, d, Tool(plan'), cur')
      <3>1. ASSUME NEW i \in Intents, TakeUp(i)
            PROVE  /\ UNCHANGED status /\ cur' = i /\ i \in InHand
                   /\ plan' = "apply" => job = "activation"
                   /\ CallRemoteTool(Scheduler, "cn", Tool(plan'), cur')
        BY <1>1, <3>1 DEF TakeUp, Begin, InHand, tableVars, TypeOK, Jobs
      <3>2. CASE CoreAnswered
        BY <1>1, <3>2 DEF CoreAnswered, InHand, tableVars, TypeOK, RowsInHand, JobOf, Domains
      <3>3. CASE ActivationRefused
        BY <1>1, <3>3
           DEF ActivationRefused, BothAnswered, Begin, InHand, tableVars, TypeOK, Domains
      <3>4. QED
        BY <1>6, <3>1, <3>2, <3>3 DEF Domains
    <2>2. PICK d \in Domains : CallRemoteTool(Scheduler, d, Tool(plan'), cur')
      BY <2>1
    <2>3. Tool(plan') \in Tools /\ (Tool(plan') = "apply" => plan' = "apply")
      BY DEF Tool, Tools
    <2>4. ASSUME NEW i \in Intents, plan' = "apply", i = cur'
          PROVE  Tracked(i)'
      BY <2>1, <2>4 DEF RowsInHand, Tracked
    <2>5. ASSUME NEW e \in Domains, NEW i \in Intents, HeldOrAsked(e, i)'
          PROVE  HeldOrAsked(e, i) \/ Tracked(i)'
      <3>1. HeldOrAsked(e, i) \/ (Tool(plan') = "apply" /\ i = cur')
        BY <1>1, <2>1, <2>2, <2>3, <2>5, SchedulerAssumption, CallAdds
      <3>2. QED
        BY <2>3, <2>4, <3>1
    <2>6. QED
      BY <1>3, <2>1, <2>5, TrackedKept
  <1>7. CASE Activated \/ RolledBack \/ Expired
    <2>1. /\ UNCHANGED <<active, inbox>> /\ cur \in Intents
          /\ \E s \in {"applied", "degraded", "failed"} : status' = [status EXCEPT ![cur] = s]
      BY <1>1, <1>7
         DEF Activated, RolledBack, Expired, MarkStatus, Back, agentVars, BothAnswered, TypeOK
    <2>2. \A i \in Intents : Tracked(i) => Tracked(i)'
      BY <1>1, <2>1 DEF Tracked, InForce, TypeOK
    <2>3. QED
      BY <1>3, <2>1, <2>2, HeldKept
  <1>8. CASE Reverted
    <2>1. /\ UNCHANGED <<active, inbox>> /\ cur \in Intents
          /\ status' = [status EXCEPT ![cur] = "reverted"]
          /\ pc = "ran" /\ plan = "revert"
          /\ Confirms(answer[Scheduler]) /\ Confirms(cnAnswer)
      BY <1>1, <1>8 DEF Reverted, MarkStatus, Back, agentVars, BothAnswered, TypeOK,
                        Confirmed, DomainAnswers, Confirms
    <2>2. \A d \in Domains : ~HeldOrAsked(d, cur)
      BY <2>1 DEF ConfirmedIsReleased, Domains
    <2>3. \A i \in Intents \ {cur} : Tracked(i) => Tracked(i)'
      BY <1>1, <2>1 DEF Tracked, TypeOK
    <2>4. \A d \in Domains, i \in Intents : HeldOrAsked(d, i)' => HeldOrAsked(d, i)
      BY <2>1, HeldKept
    <2>5. QED
      BY <1>3, <2>2, <2>3, <2>4
  <1>9. CASE Poll \/ ActivationIncomplete \/ LeftForNextPoll \/ RequestClock \/ PollError
    BY <1>4, <1>9 DEF Poll, ActivationIncomplete, LeftForNextPoll, Back, RequestClock,
                      WindowOpens, WindowCloses, PollError, agentVars, tableVars
  <1>10. QED
    BY <1>5, <1>6, <1>7, <1>8, <1>9 DEF SchedulerNext, Loop, ActivateOne, RevertOne

\* A row it drops, and those it does not reach, are as it found them.
LEMMA SchedulerHands ==
  ASSUME TypeOK, RowsInHand, SchedulerNext
  PROVE  RowsInHand'
  <1> DEFINE AsAsked(i) == /\ job = "activation" => status[i] = "scheduled"
                           /\ job = "reversion" => window[i] = "closed"
  <1>1. todo \subseteq Intents /\ \A i \in InHand : AsAsked(i)
    BY DEF TypeOK, RowsInHand
  \* A row is dropped, or the job.
  <1>2. ASSUME NextJob \/ Back, UNCHANGED window,
               \A i \in todo : status'[i] = status[i]
        PROVE  RowsInHand'
    <2>1. pc' \notin {"cn", "ran"} /\ todo' \subseteq todo /\ (todo' # {} => job' = job)
      BY <1>2 DEF Back, NextJob
    <2>2. QED
      BY <1>1, <1>2, <2>1 DEF RowsInHand, InHand
  <1>3. CASE Poll
    <2>1. CASE Due(job) = {}
      BY <1>2, <1>3, <2>1 DEF Poll, tableVars
    <2>2. CASE Due(job) # {}
      <3>1. todo' = Due(job) /\ pc' = "pick" /\ UNCHANGED <<tableVars, job>>
        BY <1>3, <2>2 DEF Poll
      <3>2. \A i \in Due(job) : AsAsked(i)
        BY DEF Due, DueActivations, DueIntents, FailedWithLeftovers
      <3>3. QED
        BY <3>1, <3>2 DEF RowsInHand, InHand, tableVars
    <2>3. QED
      BY <2>1, <2>2
  <1>4. ASSUME NEW i \in Intents, TakeUp(i)
        PROVE  RowsInHand'
    <2>1. /\ todo' = todo \ {i} /\ cur' = i /\ pc' = "cn" /\ UNCHANGED <<tableVars, job>>
          /\ InHand' \subseteq InHand /\ job = JobOf(plan')
      BY <1>4 DEF TakeUp, Begin, InHand, TypeOK, Jobs, JobOf
    <2>2. JobOf(plan)' = JobOf(plan')
      BY DEF JobOf
    <2>3. QED
      BY <1>1, <2>1, <2>2 DEF RowsInHand, tableVars
  <1>5. CASE CoreAnswered \/ ActivationRefused
    <2>1. /\ UNCHANGED <<tableVars, job, todo, cur>> /\ pc \in {"cn", "ran"} /\ InHand' = InHand
          /\ JobOf(plan)' = JobOf(plan)
      BY <1>5 DEF CoreAnswered, ActivationRefused, BothAnswered, Begin, InHand, JobOf
    <2>2. QED
      BY <1>1, <2>1 DEF RowsInHand, tableVars
  <1>6. CASE ActivationIncomplete \/ LeftForNextPoll
    BY <1>2, <1>6 DEF ActivationIncomplete, LeftForNextPoll, tableVars
  <1>7. CASE Activated \/ RolledBack \/ Expired \/ Reverted
    <2>1. /\ Back /\ cur \notin todo /\ \E s \in Statuses : MarkStatus(s)
      BY <1>7 DEF Activated, RolledBack, Expired, Reverted, BothAnswered, RowsInHand, Statuses
    <2>2. \A i \in todo : status'[i] = status[i]
      BY <1>1, <2>1 DEF MarkStatus, TypeOK
    <2>3. QED
      BY <1>2, <2>1, <2>2 DEF MarkStatus
  <1>8. CASE Agents \/ RequestClock
    <2>1. UNCHANGED <<status, schedulerVars>>
      BY <1>8 DEF Agents, RequestClock, WindowOpens, WindowCloses, tableVars
    <2>2. \A i \in Intents : window[i] = "closed" => window'[i] = "closed"
      BY <1>8 DEF Agents, RequestClock, WindowOpens, WindowCloses, tableVars, TypeOK
    <2>3. InHand' = InHand /\ InHand \subseteq Intents /\ JobOf(plan)' = JobOf(plan)
      BY <2>1 DEF InHand, TypeOK, schedulerVars, JobOf
    <2>4. QED
      BY <1>1, <2>1, <2>2, <2>3 DEF RowsInHand, schedulerVars
  <1>9. CASE PollError
    BY <1>2, <1>9 DEF PollError, tableVars
  <1>10. QED
    BY <1>3, <1>4, <1>5, <1>6, <1>7, <1>8, <1>9
       DEF SchedulerNext, Loop, ActivateOne, RevertOne

\* It knows of the domain it asks next what the other one told it.
LEMMA SchedulerAsks ==
  ASSUME TypeOK, RowsInHand, SchedulerCalls, ConfirmedIsReleased, SchedulerNext
  PROVE  SchedulerCalls' /\ ConfirmedIsReleased'
  <1>1. AgentsTypeOK
    BY DEF TypeOK
  \* It drops what it has in hand.
  <1>2. ASSUME UNCHANGED inbox, pc' \notin {"cn", "ran"},
               pc \notin {"cn", "ran"} \/ answer[Scheduler] # "none"
        PROVE  SchedulerCalls' /\ ConfirmedIsReleased'
    <2>1. \A d \in Domains : \A k \in 1..Len(inbox[d]) : inbox[d][k].from # Scheduler
      BY <1>2, NothingWaitedFor
    <2>2. QED
      BY <1>2, <2>1 DEF SchedulerCalls, ConfirmedIsReleased
  <1>3. ASSUME NEW i \in Intents, TakeUp(i)
        PROVE  SchedulerCalls' /\ ConfirmedIsReleased'
    <2>1. /\ pc = "pick" /\ pc' = "cn" /\ cur' = i
          /\ CallRemoteTool(Scheduler, "cn", Tool(plan'), i)
      BY <1>3 DEF TakeUp, Begin
    <2>2. SchedulerCalls' /\ ~Confirms(answer[Scheduler])'
      BY <2>1, OwnCall DEF Tool, Tools, Domains
    <2>3. QED
      BY <2>1, <2>2 DEF ConfirmedIsReleased
  <1>4. CASE ActivationRefused
    <2>1. /\ answer[Scheduler] # "none" /\ pc' = "cn" /\ cur' = cur /\ cur \in Intents
          /\ CallRemoteTool(Scheduler, "cn", Tool(plan'), cur)
      BY <1>4 DEF ActivationRefused, BothAnswered, Begin, TypeOK
    <2>2. SchedulerCalls' /\ ~Confirms(answer[Scheduler])'
      BY <2>1, OwnCall DEF Tool, Tools, Domains
    <2>3. QED
      BY <2>1, <2>2 DEF ConfirmedIsReleased
  <1>5. CASE CoreAnswered
    <2>1. /\ pc = "cn" /\ answer[Scheduler] # "none" /\ pc' = "ran" /\ cur' = cur /\ plan' = plan
          /\ cur \in Intents /\ cnAnswer' = answer[Scheduler]
          /\ CallRemoteTool(Scheduler, "ran", Tool(plan'), cur)
      BY <1>5 DEF CoreAnswered, TypeOK
    <2>2. Tool(plan') \in Tools /\ (plan = "revert" => Tool(plan') # "apply")
      BY <2>1 DEF Tool, Tools
    <2>3. SchedulerCalls' /\ ~Confirms(answer[Scheduler])'
      BY <2>1, <2>2, OwnCall DEF Domains
    <2>4. ASSUME NEW i \in Intents, i = cur, plan = "revert", Confirms(answer[Scheduler])
          PROVE  ~HeldOrAsked("cn", i)'
      <3>1. ~HeldOrAsked("cn", i)
        BY <2>1, <2>4 DEF ConfirmedIsReleased
      <3>2. HeldOrAsked("cn", i)' => HeldOrAsked("cn", i) \/ Tool(plan') = "apply"
        BY <1>1, <2>1, <2>2, SchedulerAssumption, CallAdds DEF Domains
      <3>3. QED
        BY <2>2, <2>4, <3>1, <3>2
    <2>5. plan = "revert" /\ Confirms(answer[Scheduler]) => ~HeldOrAsked("cn", cur)'
      BY <2>1, <2>4 DEF HeldOrAsked, Pending
    <2>6. QED
      BY <2>1, <2>3, <2>5 DEF ConfirmedIsReleased, Confirms
  <1>6. CASE \/ Poll \/ ActivationIncomplete \/ LeftForNextPoll \/ PollError
             \/ Activated \/ RolledBack \/ Expired \/ Reverted
    <2>1. CASE Poll
      <3>1. CASE Due(job) = {}
        BY <1>2, <2>1, <3>1 DEF Poll, NextJob, agentVars
      <3>2. CASE Due(job) # {}
        BY <1>2, <2>1, <3>2 DEF Poll, agentVars
      <3>3. QED
        BY <3>1, <3>2
    <2>2. CASE PollError
      BY <1>2, <2>2 DEF PollError, Marks, BothAnswered, NextJob
    <2>3. CASE ~Poll /\ ~PollError
      <3>1. Back /\ answer[Scheduler] # "none"
        BY <1>6, <2>3 DEF ActivationIncomplete, LeftForNextPoll, Activated, RolledBack,
                          Expired, Reverted, BothAnswered
      <3>2. pc' \notin {"cn", "ran"} /\ UNCHANGED inbox
        BY <3>1 DEF Back, NextJob, agentVars
      <3>3. QED
        BY <1>2, <3>1, <3>2
    <2>4. QED
      BY <2>1, <2>2, <2>3
  <1>7. CASE Agents
    BY <1>7, AgentsAnswer DEF Agents
  <1>8. CASE RequestClock
    BY <1>8, QuietCalls DEF RequestClock, WindowOpens, WindowCloses, agentVars
  <1>9. QED
    BY <1>3, <1>4, <1>5, <1>6, <1>7, <1>8 DEF SchedulerNext, Loop, ActivateOne, RevertOne

\* No window closes under a request.
LEMMA WindowsWait ==
  ASSUME Undisturbed, TypeOK, ClosedIsLeft, SchedulerNext
  PROVE  ClosedIsLeft'
  <1>1. \A i \in Intents : BeingHandled(i)' <=> BeingHandled(i)
    BY DEF SchedulerNext, requestVars, BeingHandled
  <1>2. CASE RequestClock
    <2>1. PICK i \in Intents : /\ WindowOpens(i) \/ WindowCloses(i)
                               /\ BeingHandled(i) => "slow" \in Habits
      BY <1>2 DEF RequestClock
    <2>2. ~BeingHandled(i) /\ \A j \in Intents \ {i} : window'[j] = window[j]
      BY <2>1 DEF Undisturbed, WindowOpens, WindowCloses, TypeOK
    <2>3. QED
      BY <1>1, <2>2 DEF ClosedIsLeft
  <1>3. CASE ~RequestClock
    <2>1. UNCHANGED window
      BY <1>3 DEF SchedulerNext, Loop, Poll, TakeUp, CoreAnswered, ActivateOne, RevertOne,
                  ActivationIncomplete, ActivationRefused, Activated, RolledBack, Expired,
                  Reverted, LeftForNextPoll, MarkStatus, Agents, PollError, tableVars
    <2>2. QED
      BY <1>1, <2>1 DEF ClosedIsLeft
  <1>4. QED
    BY <1>2, <1>3

-----------------------------------------------------------------------------
(***************************************************************************)
(* The inductive invariant and what follows from it.                       *)
(***************************************************************************)

LEMMA TrackedInit == OrchestratorInit => TrackedInv
  <1> SUFFICES ASSUME OrchestratorInit
               PROVE  TrackedInv
    OBVIOUS
  <1>1. OwnershipInv
    BY OwnershipInit
  <1>2. \A d \in Domains : Len(inbox[d]) = 0 /\ \A i \in Intents : ~HeldOrAsked(d, i)
    <2>1. \A d \in Domains : Len(inbox[d]) = 0 /\ \A i \in Intents : ~active[d][i]
      BY DEF OrchestratorInit, AgentsInit
    <2>2. \A d \in Domains, i \in Intents : ~Pending(d, "apply", i)
      BY <2>1 DEF Pending
    <2>3. QED
      BY <2>1, <2>2 DEF HeldOrAsked
  <1>3. SchedulerCalls
    BY <1>2 DEF SchedulerCalls
  <1>4. TrackedOrHandled /\ RequestsInOrder /\ ClosedIsLeft /\ RowsInHand /\ ConfirmedIsReleased
    BY <1>2 DEF OrchestratorInit, SchedulerInit, TrackedOrHandled, RequestsInOrder, ClosedIsLeft,
                RowsInHand, InHand, ConfirmedIsReleased
  <1>5. QED
    BY <1>1, <1>3, <1>4 DEF TrackedInv

LEMMA TrackedStep ==
  ASSUME Undisturbed, TrackedInv, [OrchestratorNext]_allVars
  PROVE  TrackedInv'
  <1> USE DEF TrackedInv
  <1>1. OwnershipInv'
    BY OwnershipStep
  <1>2. TypeOK
    BY DEF OwnershipInv, OrchestratorTypeOK
  <1>3. CASE RequestNext
    BY <1>1, <1>3, RequestTracks, RequestWindows, RequestHands, RequestCalls
  <1>4. CASE SchedulerNext
    <2>1. RequestsInOrder'
      BY <1>4 DEF SchedulerNext, requestVars, RequestsInOrder
    <2>2. QED
      BY <1>1, <1>2, <1>4, <2>1, SchedulerTracks, SchedulerHands, SchedulerAsks, WindowsWait
  <1>5. ~ProcessRestart
    BY DEF ProcessRestart, Undisturbed
  <1>6. CASE UNCHANGED allVars
    <2>1. UNCHANGED <<active, inbox, answer, tableVars, schedulerVars, requestVars>>
      BY <1>6 DEF allVars, vars, agentVars
    <2>2. SchedulerCalls' /\ ConfirmedIsReleased'
      BY <2>1, QuietCalls
    <2>3. RequestsInOrder' /\ ClosedIsLeft' /\ RowsInHand'
      BY <2>1 DEF RequestsInOrder, ClosedIsLeft, BeingHandled, RowsInHand, InHand, JobOf,
                  tableVars, schedulerVars, requestVars
    <2>4. TrackedOrHandled'
      BY <2>1 DEF TrackedOrHandled, HeldOrAsked, Pending, Tracked, Responsible, tableVars,
                  requestVars
    <2>5. QED
      BY <1>1, <2>2, <2>3, <2>4
  <1>7. QED
    BY <1>3, <1>4, <1>5, <1>6 DEF OrchestratorNext

\* Whatever a domain holds or is about to, somebody will see to: a request, or
\* a job of the scheduler.
THEOREM TrackedInvariance ==
  ASSUME Undisturbed
  PROVE  OrchestratorSpec => []TrackedInv
  <1>1. TrackedInv /\ [OrchestratorNext]_allVars => TrackedInv'
    BY TrackedStep
  <1>2. QED
    BY <1>1, TrackedInit, PTL DEF OrchestratorSpec

\* Nothing is left in force that no job of the scheduler looks for, however the
\* models call, repeat, revert and report, and whatever the calls and the
\* agents lose, as long as requests run to their end within the window
\* (_settle, handle_event, the due queries).
THEOREM NothingGoesUntracked ==
  ASSUME Undisturbed
  PROVE  OrchestratorSpec => []NothingUntracked
  <1>1. TrackedInv => NothingUntracked
    BY DEF TrackedInv, TrackedOrHandled, HeldOrAsked, Tracked, NothingUntracked, BeingHandled
  <1>2. QED
    BY <1>1, TrackedInvariance, PTL

\* What is recorded as reverted has been released in both domains
\* (run_window_probes.py, reversion_correct): neither a model nor the
\* scheduler closes a row that a domain still holds or is about to.
THEOREM ReversionsAreCorrect ==
  ASSUME Undisturbed
  PROVE  OrchestratorSpec => []ReversionIsCorrect
  <1>1. TrackedInv => ReversionIsCorrect
    BY DEF TrackedInv, TrackedOrHandled, HeldOrAsked, Tracked, InForce, ReversionIsCorrect,
           Unheld, BeingHandled
  <1>2. QED
    BY <1>1, TrackedInvariance, PTL
=============================================================================
