---------------------------- MODULE Outcome_proofs ----------------------------
(***************************************************************************)
(* The outcome the intents table records is the domains', for any set of   *)
(* intents, any number of requests and faults, and models that report too  *)
(* early, repeat their applies with other arguments or try to apply what   *)
(* waits for its window. Each intent has one hand that works on it at a    *)
(* time, a request's or the scheduler's; an agent serves in order; so an   *)
(* answer tells whoever asked how things stand.                            *)
(***************************************************************************)
EXTENDS Tracking_proofs

LEMMA SettlingIsUndisturbed == Settling => Undisturbed
  BY DEF Settling, Undisturbed

(***************************************************************************)
(* What a call and an agent leave in the queues, directive by directive.   *)
(***************************************************************************)

\* A directive is one that was queued, or the one just called.
LEMMA CallEntries ==
  ASSUME AgentsTypeOK, NEW t \in Callers, NEW d \in Domains, NEW tool \in Tools,
         NEW i \in Intents, CallRemoteTool(t, d, tool, i),
         NEW e \in Domains, NEW k \in 1..Len(inbox'[e])
  PROVE  \/ k \in 1..Len(inbox[e]) /\ inbox'[e][k] = inbox[e][k]
         \/ /\ e = d /\ answer'[t] = "none" /\ k = Len(inbox'[d])
            /\ inbox'[e][k].from = t /\ inbox'[e][k].tool = tool /\ inbox'[e][k].intent = i
  <1>1. CASE inbox' = inbox
    BY <1>1
  <1>2. CASE inbox' # inbox
    <2>1. /\ answer'[t] = "none"
          /\ \A f \in Domains \ {d} : inbox'[f] = inbox[f]
          /\ Len(inbox[d]) \in Nat /\ Len(inbox'[d]) = Len(inbox[d]) + 1
          /\ \A m \in 1..Len(inbox[d]) : inbox'[d][m] = inbox[d][m]
          /\ inbox'[d][Len(inbox[d]) + 1] = [from |-> t, tool |-> tool, intent |-> i]
      BY <1>2, CallQueue
    <2>2. CASE e # d
      BY <2>1, <2>2
    <2>3. CASE e = d /\ k = Len(inbox[d]) + 1
      BY <2>1, <2>3
    <2>4. CASE e = d /\ k # Len(inbox[d]) + 1
      <3>1. k \in 1..Len(inbox[d])
        BY <2>1, <2>4
      <3>2. QED
        BY <2>1, <2>4, <3>1
    <2>5. QED
      BY <2>2, <2>3, <2>4
  <1>3. QED
    BY <1>1, <1>2

\* Whose intent has nothing queued gets nothing queued by a call for another.
LEMMA CallQueued ==
  ASSUME AgentsTypeOK, NEW t \in Callers, NEW d \in Domains, NEW tool \in Tools,
         NEW i \in Intents, CallRemoteTool(t, d, tool, i),
         NEW e \in Domains, NEW j \in Intents, Queued(e, j)'
  PROVE  Queued(e, j) \/ (e = d /\ j = i)
  <1>1. PICK k \in 1..Len(inbox'[e]) : inbox'[e][k].intent = j
    BY DEF Queued
  <1>2. QED
    BY <1>1, CallEntries DEF Queued

\* A directive an agent still has to carry out is one it had; only its caller
\* may have been forgotten, and knows.
LEMMA AgentsEntries ==
  ASSUME AgentsTypeOK, AgentsNext, NEW e \in Domains
  PROVE  \E s \in {0, 1} : \A k \in 1..Len(inbox'[e]) :
           /\ k + s \in 1..Len(inbox[e])
           /\ inbox'[e][k].tool = inbox[e][k + s].tool
           /\ inbox'[e][k].intent = inbox[e][k + s].intent
           /\ \/ inbox'[e][k].from = inbox[e][k + s].from
              \/ /\ inbox'[e][k].from = NoCaller /\ inbox[e][k + s].from \in Callers
                 /\ answer'[inbox[e][k + s].from] = "error"
  <1>1. inbox \in [Domains -> Seq(Request)] /\ answer \in [Callers -> Answers \cup {"none"}]
    BY DEF AgentsTypeOK
  <1> DEFINE P(s) == \A k \in 1..Len(inbox'[e]) :
           /\ k + s \in 1..Len(inbox[e])
           /\ inbox'[e][k].tool = inbox[e][k + s].tool
           /\ inbox'[e][k].intent = inbox[e][k + s].intent
           /\ \/ inbox'[e][k].from = inbox[e][k + s].from
              \/ /\ inbox'[e][k].from = NoCaller /\ inbox[e][k + s].from \in Callers
                 /\ answer'[inbox[e][k + s].from] = "error"
  <1>2. inbox'[e] = inbox[e] => P(0)
    <2>1. Len(inbox[e]) \in Nat
      BY <1>1
    <2>2. \A k \in 1..Len(inbox[e]) : k + 0 = k
      OBVIOUS
    <2>3. QED
      BY <2>1, <2>2
  <1>3. ASSUME NEW d \in Domains, Serve(d)
        PROVE  P(0) \/ P(1)
    <2>1. CASE e = d
      BY <1>3, <2>1, ServedQueue
    <2>2. CASE e # d
      BY <1>2, <1>3, <2>2, ServedQueue
    <2>3. QED
      BY <2>1, <2>2
  <1>4. ASSUME NEW d \in Domains, AgentRestart(d)
        PROVE  P(0)
    <2>1. CASE e = d
      <3>1. Len(inbox'[e]) = 0
        BY <1>1, <1>4, <2>1 DEF AgentRestart
      <3>2. QED
        BY <3>1
    <2>2. CASE e # d
      BY <1>1, <1>2, <1>4, <2>2 DEF AgentRestart
    <2>3. QED
      BY <2>1, <2>2
  <1>5. ASSUME NEW d \in Domains, NEW t \in Callers, GiveUp(t, d)
        PROVE  P(0)
    <2>1. CASE e = d
      <3>1. inbox'[e] = Orphaned(inbox[e], {t}) /\ answer'[t] = "error" /\ inbox[e] \in Seq(Request)
        BY <1>1, <1>5, <2>1 DEF GiveUp
      <3>2. /\ Len(inbox'[e]) = Len(inbox[e]) /\ Len(inbox[e]) \in Nat
            /\ \A k \in 1..Len(inbox[e]) :
               /\ inbox'[e][k].tool = inbox[e][k].tool
               /\ inbox'[e][k].intent = inbox[e][k].intent
               /\ inbox'[e][k].from = IF inbox[e][k].from = t THEN NoCaller ELSE inbox[e][k].from
        BY <3>1, OrphanedQueue
      <3>3. \A k \in 1..Len(inbox[e]) : k + 0 = k
        OBVIOUS
      <3>4. QED
        BY <3>1, <3>2, <3>3
    <2>2. CASE e # d
      BY <1>1, <1>2, <1>5, <2>2 DEF GiveUp
    <2>3. QED
      BY <2>1, <2>2
  <1>6. P(0) \/ P(1)
    BY <1>3, <1>4, <1>5 DEF AgentsNext
  <1> HIDE DEF P
  <1>7. \E s \in {0, 1} : P(s)
    BY <1>6
  <1>8. QED
    BY <1>7 DEF P

\* Agents queue nothing, and touch no row that nobody asked them to.
LEMMA AgentsQueued ==
  ASSUME AgentsTypeOK, AgentsNext, NEW e \in Domains, NEW j \in Intents
  PROVE  /\ Queued(e, j)' => Queued(e, j)
         /\ ~Queued(e, j) => active'[e][j] = active[e][j]
  <1>1. Queued(e, j)' => Queued(e, j)
    BY AgentsEntries DEF Queued
  <1>2. ASSUME ~Queued(e, j)
        PROVE  active'[e][j] = active[e][j]
    <2>1. ASSUME NEW d \in Domains, Serve(d)
          PROVE  active'[e][j] = active[e][j]
      <3>1. PICK row : active' = [active EXCEPT ![d][inbox[d][1].intent] = row]
        BY <2>1, ServedQueue
      <3>2. ~(e = d /\ inbox[d][1].intent = j)
        BY <1>2, <2>1, ServedQueue DEF Queued
      <3>3. QED
        BY <2>1, <3>1, <3>2, ServedQueue DEF AgentsTypeOK
    <2>2. QED
      BY <2>1 DEF AgentsNext, AgentRestart, GiveUp
  <1>3. QED
    BY <1>1, <1>2

\* An apply leaves a row that is there.
LEMMA AppliesKeep ==
  ASSUME AgentsTypeOK, AgentsNext, NEW e \in Domains, NEW j \in Intents, active[e][j],
         \A k \in 1..Len(inbox[e]) : inbox[e][k].intent = j => inbox[e][k].tool = "apply"
  PROVE  active'[e][j]
  <1>1. ASSUME NEW d \in Domains, Serve(d)
        PROVE  active'[e][j]
    <2>1. PICK out \in Outcomes(d, inbox[d][1].tool, active[d][inbox[d][1].intent]) :
            active' = [active EXCEPT ![d][inbox[d][1].intent] = out.row]
      BY <1>1, ServedQueue
    <2>2. CASE e = d /\ inbox[d][1].intent = j
      <3>1. out \in ApplyOutcomes(d, TRUE)
        BY <1>1, <2>1, <2>2, ServedQueue DEF Outcomes, AgentsTypeOK
      <3>2. out.row = TRUE
        BY <3>1 DEF ApplyOutcomes
      <3>3. QED
        BY <2>1, <2>2, <3>2 DEF AgentsTypeOK
    <2>3. CASE ~(e = d /\ inbox[d][1].intent = j)
      BY <1>1, <2>1, <2>3, ServedQueue DEF AgentsTypeOK
    <2>4. QED
      BY <2>2, <2>3
  <1>2. QED
    BY <1>1 DEF AgentsNext, AgentRestart, GiveUp

\* A thread is answered once, by the agent it waits for.
LEMMA AgentsRespond ==
  ASSUME AgentsTypeOK, AgentsNext, NEW t \in Callers, NEW d \in Domains, Sole(t, d)
  PROVE  \/ answer'[t] = answer[t]
         \/ /\ \A e \in Domains : \A k \in 1..Len(inbox'[e]) : inbox'[e][k].from # t
            /\ \E k \in 1..Len(inbox[d]) : inbox[d][k].from = t
            /\ \/ answer'[t] = "error"
               \/ /\ Serve(d) /\ inbox[d][1].from = t
                  /\ inbox[d][1].tool = "apply" /\ ~Refusal(answer'[t])
                       => active'[d][inbox[d][1].intent]
  <1>1. inbox \in [Domains -> Seq(Request)] /\ answer \in [Callers -> Answers \cup {"none"}]
    BY DEF AgentsTypeOK
  <1>2. ASSUME NEW c \in Domains, Serve(c), answer'[t] # answer[t]
        PROVE  /\ \A e \in Domains : \A k \in 1..Len(inbox'[e]) : inbox'[e][k].from # t
               /\ \E k \in 1..Len(inbox[d]) : inbox[d][k].from = t
               /\ Serve(d) /\ inbox[d][1].from = t
               /\ inbox[d][1].tool = "apply" /\ ~Refusal(answer'[t])
                    => active'[d][inbox[d][1].intent]
    <2>1. PICK out \in Outcomes(c, inbox[c][1].tool, active[c][inbox[c][1].intent]) :
            /\ active' = [active EXCEPT ![c][inbox[c][1].intent] = out.row]
            /\ answer' = IF inbox[c][1].from \in Callers
                           THEN [answer EXCEPT ![inbox[c][1].from] = out.status] ELSE answer
      BY <1>2, ServedQueue
    <2>2. inbox[c][1].from = t /\ answer'[t] = out.status
      BY <1>1, <1>2, <2>1
    <2>3. c = d /\ 1 \in 1..Len(inbox[d])
      BY <1>2, <2>2, ServedQueue DEF Sole
    <2>4. \A k \in 1..Len(inbox[d]) : inbox[d][k].from = t => k = 1
      BY <2>2, <2>3 DEF Sole
    <2>5. ASSUME NEW k \in 1..Len(inbox'[d])
          PROVE  inbox'[d][k].from # t
      <3>1. k + 1 \in 1..Len(inbox[d]) /\ inbox'[d][k] = inbox[d][k + 1] /\ k + 1 # 1
        BY <1>2, <2>3, ServedQueue
      <3>2. QED
        BY <2>4, <3>1
    <2>6. ASSUME NEW e \in Domains \ {d}, NEW k \in 1..Len(inbox'[e])
          PROVE  inbox'[e][k].from # t
      BY <1>2, <2>3, ServedQueue DEF Sole
    <2>7. ASSUME inbox[d][1].tool = "apply", ~Refusal(answer'[t])
          PROVE  active'[d][inbox[d][1].intent]
      <3>1. out.row = TRUE
        BY <2>1, <2>2, <2>3, <2>7 DEF Outcomes, ApplyOutcomes, Refusal
      <3>2. QED
        BY <1>2, <2>1, <2>3, <3>1, ServedQueue DEF AgentsTypeOK
    <2>8. QED
      BY <1>2, <2>2, <2>3, <2>5, <2>6, <2>7
  <1>3. ASSUME NEW c \in Domains, AgentRestart(c), answer'[t] # answer[t]
        PROVE  /\ \A e \in Domains : \A k \in 1..Len(inbox'[e]) : inbox'[e][k].from # t
               /\ \E k \in 1..Len(inbox[d]) : inbox[d][k].from = t
               /\ answer'[t] = "error"
    <2>1. /\ answer'[t] = "error" /\ \E k \in 1..Len(inbox[c]) : inbox[c][k].from = t
          /\ inbox'[c] = <<>> /\ \A e \in Domains \ {c} : inbox'[e] = inbox[e]
      BY <1>1, <1>3 DEF AgentRestart
    <2>2. c = d
      BY <2>1 DEF Sole
    <2>3. \A e \in Domains \ {d} : \A k \in 1..Len(inbox'[e]) : inbox'[e][k].from # t
      BY <2>1, <2>2 DEF Sole
    <2>4. Len(inbox'[d]) = 0
      BY <2>1, <2>2
    <2>5. \A k \in 1..Len(inbox'[d]) : inbox'[d][k].from # t
      BY <2>4
    <2>6. QED
      BY <2>1, <2>2, <2>3, <2>5
  <1>4. ASSUME NEW c \in Domains, NEW u \in Callers, GiveUp(u, c), answer'[t] # answer[t]
        PROVE  /\ \A e \in Domains : \A k \in 1..Len(inbox'[e]) : inbox'[e][k].from # t
               /\ \E k \in 1..Len(inbox[d]) : inbox[d][k].from = t
               /\ answer'[t] = "error"
    <2>1. /\ t = u /\ answer'[t] = "error" /\ \E k \in 1..Len(inbox[c]) : inbox[c][k].from = t
          /\ inbox'[c] = Orphaned(inbox[c], {t}) /\ \A e \in Domains \ {c} : inbox'[e] = inbox[e]
      BY <1>1, <1>4 DEF GiveUp
    <2>2. c = d
      BY <2>1 DEF Sole
    <2>3. \A e \in Domains \ {d} : \A k \in 1..Len(inbox'[e]) : inbox'[e][k].from # t
      BY <2>1, <2>2 DEF Sole
    <2>4. \A k \in 1..Len(inbox'[d]) : inbox'[d][k].from # t
      BY <1>1, <2>1, <2>2, OrphanedQueue, CallersAssumption
    <2>5. QED
      BY <2>1, <2>2, <2>3, <2>4
  <1>5. QED
    BY <1>2, <1>3, <1>4 DEF AgentsNext

-----------------------------------------------------------------------------
(***************************************************************************)
(* What the invariant says of the rows in hand and of who waits for what.  *)
(***************************************************************************)

LEMMA OutcomeTypes ==
  ASSUME OutcomeInv
  PROVE  /\ OwnershipInv /\ OrchestratorTypeOK /\ TypeOK /\ AgentsTypeOK /\ TrackedInv
         /\ mine \in [Requests -> Intents \cup {NoIntent}]
         /\ at \in [Requests -> Steps] /\ ask \in [Requests -> Asks]
         /\ called \in [Requests -> SUBSET Domains]
         /\ worst \in [Requests -> {"applied", "degraded", "failed"}]
         /\ \A r \in Requests : r \in Callers /\ r # Scheduler
  BY RequestsAssumption DEF OutcomeInv, TrackedInv, OwnershipInv, OrchestratorTypeOK, TypeOK

\* What the scheduler works on is not in force any more, or not yet, and no
\* request needs it.
LEMMA HandIsFree ==
  ASSUME OutcomeInv, NEW i \in InHand
  PROVE  /\ i \in Intents /\ status[i] # "absent"
         /\ status[i] \in InForce => window[i] = "closed"
         /\ BeingHandled(i) => status[i] = "failed"
         /\ job = "activation" => status[i] = "scheduled" /\ ~BeingHandled(i)
  <1>1. i \in Intents /\ job \in Jobs
    BY OutcomeTypes DEF TypeOK, InHand
  <1>2. status[i] # "absent" /\ (job # "cleanup" => window[i] \in {"open", "closed"})
    BY OutcomeTypes DEF OwnershipInv, RowsAreOpen
  <1>3. CASE job = "activation"
    BY <1>1, <1>2, <1>3 DEF OutcomeInv, TrackedInv, SettlingInv, RowsInHand, OneHandler, InForce
  <1>4. CASE job = "reversion"
    BY <1>1, <1>2, <1>4 DEF OutcomeInv, TrackedInv, RowsInHand, ClosedIsLeft
  <1>5. CASE job = "cleanup"
    BY <1>1, <1>2, <1>5 DEF OutcomeInv, SettlingInv, LeftoversFailed, InForce
  <1>6. QED
    BY <1>1, <1>3, <1>4, <1>5 DEF Jobs

\* An activation under way.
LEMMA ActivationIsAlone ==
  ASSUME OutcomeInv, pc \in {"cn", "ran"}, plan \in {"apply", "expire", "rollback"}
  PROVE  cur \in Intents /\ job = "activation" /\ status[cur] = "scheduled" /\ ~BeingHandled(cur)
  <1>1. job = "activation" /\ cur \in InHand
    BY DEF OutcomeInv, TrackedInv, RowsInHand, InHand, JobOf
  <1>2. QED
    BY <1>1, HandIsFree

LEMMA RequestSole ==
  ASSUME OutcomeInv, NEW r \in Requests
  PROVE  \E d \in Domains : Sole(r, d)
  <1>1. /\ RequestsWait /\ RequestsInOrder /\ ask[r] \in Asks
        /\ ask[r] # NoAsk => ask[r].domain \in Domains
    BY OutcomeTypes DEF OutcomeInv, TrackedInv, SettlingInv, Asks
  <1>2. CASE ask[r] # NoAsk
    <2>1. at[r] \notin {"revertCn", "revertRan"}
      BY <1>1, <1>2 DEF RequestsInOrder
    <2>2. Sole(r, ask[r].domain)
      BY <1>1, <1>2, <2>1 DEF Sole, RequestsWait, WaitsAt
    <2>3. QED
      BY <1>1, <1>2, <2>2
  <1>3. CASE ask[r] = NoAsk /\ at[r] = "revertRan"
    BY <1>1, <1>3 DEF Sole, RequestsWait, WaitsAt, Domains
  <1>4. CASE ask[r] = NoAsk /\ at[r] # "revertRan"
    BY <1>1, <1>4 DEF Sole, RequestsWait, WaitsAt, Domains
  <1>5. QED
    BY <1>2, <1>3, <1>4

\* A request that has been answered, or has not asked, waits for nothing.
LEMMA RequestWaitsNot ==
  ASSUME OutcomeInv, NEW r \in Requests,
         answer[r] # "none" \/ (ask[r] = NoAsk /\ at[r] \notin {"revertCn", "revertRan"}),
         NEW d \in Domains, NEW k \in 1..Len(inbox[d])
  PROVE  inbox[d][k].from # r
  BY DEF OutcomeInv, SettlingInv, RequestsWait, WaitsAt

-----------------------------------------------------------------------------
(***************************************************************************)
(* The agents.                                                             *)
(***************************************************************************)

LEMMA AgentsKeepCalls ==
  ASSUME OutcomeInv, AgentsNext, UNCHANGED requestVars
  PROVE  RequestsWait'
  <1>1. AgentsTypeOK /\ RequestsWait
    BY OutcomeTypes DEF OutcomeInv, SettlingInv
  <1>2. SUFFICES ASSUME NEW r \in Requests, NEW d \in Domains, NEW k \in 1..Len(inbox'[d]),
                        inbox'[d][k].from = r
                 PROVE  /\ WaitsAt(r, d) /\ answer'[r] = "none" /\ inbox'[d][k].intent = mine[r]
                        /\ ask[r] # NoAsk => inbox'[d][k].tool = "apply"
                        /\ \A m \in 1..Len(inbox'[d]) : inbox'[d][m].from = r => m = k
    BY DEF RequestsWait, requestVars, WaitsAt
  <1>3. r \in Callers /\ r # NoCaller
    BY OutcomeTypes, CallersAssumption
  <1>4. PICK s \in {0, 1} : \A n \in 1..Len(inbox'[d]) :
           /\ n + s \in 1..Len(inbox[d])
           /\ inbox'[d][n].tool = inbox[d][n + s].tool
           /\ inbox'[d][n].intent = inbox[d][n + s].intent
           /\ inbox'[d][n].from = r => inbox[d][n + s].from = r
    BY <1>1, <1>3, AgentsEntries
  <1>5. /\ WaitsAt(r, d) /\ answer[r] = "none" /\ inbox[d][k + s].intent = mine[r]
        /\ ask[r] # NoAsk => inbox[d][k + s].tool = "apply"
        /\ \A m \in 1..Len(inbox[d]) : inbox[d][m].from = r => m = k + s
    BY <1>1, <1>2, <1>4 DEF RequestsWait
  <1>6. answer'[r] = answer[r]
    BY <1>1, <1>2, <1>3, RequestSole, AgentsRespond
  <1>7. ASSUME NEW m \in 1..Len(inbox'[d]), inbox'[d][m].from = r
        PROVE  m = k
    <2>1. m + s = k + s
      BY <1>4, <1>5, <1>7
    <2>2. QED
      BY <2>1
  <1>8. QED
    BY <1>2, <1>4, <1>5, <1>6, <1>7

LEMMA AgentsKeepCalled ==
  ASSUME OutcomeInv, AgentsNext, UNCHANGED <<requestVars, tableVars>>
  PROVE  \A r \in Requests : CalledIsHeld(r)'
  <1>1. AgentsTypeOK /\ RequestsWait /\ \A r \in Requests : CalledIsHeld(r)
    BY OutcomeTypes DEF OutcomeInv, SettlingInv
  <1>2. SUFFICES ASSUME NEW r \in Requests, NEW d \in Domains,
                        mine[r] # NoIntent, at[r] \in {"intent", "net", "settle"},
                        worst[r] # "failed", ask[r] # NoAsk => ~Refusal(answer'[r]),
                        status[mine[r]] \notin {"scheduled", "failed"}
                 PROVE  /\ d \in called[r] => active'[d][mine[r]]
                        /\ ask[r] # NoAsk /\ ask[r].domain = d /\ answer'[r] # "none"
                             => active'[d][mine[r]]
                        /\ \A k \in 1..Len(inbox'[d]) :
                             inbox'[d][k].intent = mine[r] => inbox'[d][k].from = r
    BY DEF CalledIsHeld, Failing, requestVars, tableVars
  <1>3. mine[r] \in Intents /\ r \in Callers /\ r # NoCaller
    BY <1>2, OutcomeTypes, CallersAssumption
  <1>4. PICK c \in Domains : Sole(r, c)
    BY RequestSole
  <1>5. \/ answer'[r] = answer[r]
        \/ /\ answer[r] = "none" /\ \E k \in 1..Len(inbox[c]) : inbox[c][k].from = r
           /\ \/ answer'[r] = "error"
              \/ /\ inbox[c][1].from = r /\ 1 \in 1..Len(inbox[c])
                 /\ inbox[c][1].tool = "apply" /\ ~Refusal(answer'[r])
                      => active'[c][inbox[c][1].intent]
    BY <1>1, <1>3, <1>4, AgentsRespond, ServedQueue, RequestWaitsNot
  <1>6. ~Failing(r)
    BY <1>2, <1>5 DEF Failing, Refusal
  <1>7. /\ d \in called[r] => active[d][mine[r]]
        /\ ask[r] # NoAsk /\ ask[r].domain = d /\ answer[r] # "none" => active[d][mine[r]]
        /\ \A k \in 1..Len(inbox[d]) : inbox[d][k].intent = mine[r] => inbox[d][k].from = r
    BY <1>1, <1>2, <1>6 DEF CalledIsHeld
  <1>8. \A k \in 1..Len(inbox[d]) : inbox[d][k].from = r =>
           ask[r] # NoAsk /\ ask[r].domain = d /\ inbox[d][k].tool = "apply"
    BY <1>1, <1>2 DEF RequestsWait, WaitsAt
  <1>9. active[d][mine[r]] => active'[d][mine[r]]
    BY <1>1, <1>3, <1>7, <1>8, AppliesKeep
  <1>10. ASSUME ask[r] # NoAsk, ask[r].domain = d, answer'[r] # "none"
         PROVE  active'[d][mine[r]]
    <2>1. CASE answer'[r] = answer[r]
      BY <1>7, <1>9, <1>10, <2>1
    <2>2. CASE answer'[r] # answer[r]
      <3>1. inbox[c][1].from = r /\ 1 \in 1..Len(inbox[c])
        BY <1>2, <1>5, <1>10, <2>2 DEF Refusal
      <3>2. c = d /\ inbox[c][1].tool = "apply" /\ inbox[c][1].intent = mine[r]
        BY <1>1, <1>2, <1>10, <3>1 DEF RequestsWait, WaitsAt
      <3>3. QED
        BY <1>2, <1>5, <1>10, <2>2, <3>2 DEF Refusal
    <2>3. QED
      BY <2>1, <2>2
  <1>11. ASSUME NEW k \in 1..Len(inbox'[d]), inbox'[d][k].intent = mine[r]
         PROVE  inbox'[d][k].from = r
    <2>1. PICK m \in 1..Len(inbox[d]) :
             /\ inbox'[d][k].intent = inbox[d][m].intent
             /\ \/ inbox'[d][k].from = inbox[d][m].from
                \/ answer'[inbox[d][m].from] = "error"
      BY <1>1, AgentsEntries
    <2>2. inbox[d][m].from = r
      BY <1>7, <1>11, <2>1
    <2>3. answer'[r] # "error"
      BY <1>2, <1>8, <2>2 DEF Refusal
    <2>4. QED
      BY <2>1, <2>2, <2>3
  <1>12. QED
    BY <1>7, <1>9, <1>10, <1>11

LEMMA AgentsKeepActivation ==
  ASSUME OutcomeInv, AgentsNext, UNCHANGED schedulerVars
  PROVE  ActivationIsHeld'
  <1>1. AgentsTypeOK /\ ActivationIsHeld /\ SchedulerCalls
    BY OutcomeTypes DEF OutcomeInv, SettlingInv, TrackedInv
  <1>2. UNCHANGED <<pc, plan, cur, cnAnswer>>
    BY DEF schedulerVars
  <1>3. SUFFICES ASSUME pc \in {"cn", "ran"}, plan = "apply"
                 PROVE  /\ answer'[Scheduler] # "none" =>
                             Refusal(answer'[Scheduler]) \/ (active'[pc][cur] /\ ~Queued(pc, cur)')
                        /\ pc = "ran" =>
                             Refusal(cnAnswer) \/ (active'["cn"][cur] /\ ~Queued("cn", cur)')
                        /\ \A k, m \in 1..Len(inbox'[pc]) :
                             inbox'[pc][k].from = Scheduler /\ inbox'[pc][m].intent = cur => m <= k
    BY <1>2 DEF ActivationIsHeld, Tells, Queued
  <1>4. cur \in Intents /\ pc \in Domains /\ Scheduler \in Callers /\ Scheduler # NoCaller
    BY <1>3, ActivationIsAlone, SchedulerAssumption, CallersAssumption DEF Domains
  <1>5. \A e \in Domains : ~Queued(e, cur) => active'[e][cur] = active[e][cur] /\ ~Queued(e, cur)'
    <2>1. \A e \in Domains, j \in Intents :
             ~Queued(e, j) => active'[e][j] = active[e][j] /\ ~Queued(e, j)'
      BY <1>1, AgentsQueued
    <2>2. QED
      BY <1>2, <1>4, <2>1 DEF Queued
  <1>6. PICK s \in {0, 1} : \A n \in 1..Len(inbox'[pc]) :
           /\ n + s \in 1..Len(inbox[pc])
           /\ inbox'[pc][n].intent = inbox[pc][n + s].intent
           /\ inbox'[pc][n].from = Scheduler => inbox[pc][n + s].from = Scheduler
    BY <1>1, <1>4, AgentsEntries
  <1>7. ASSUME NEW k \in 1..Len(inbox'[pc]), NEW m \in 1..Len(inbox'[pc]),
               inbox'[pc][k].from = Scheduler, inbox'[pc][m].intent = cur
        PROVE  m <= k
    <2>1. m + s <= k + s
      BY <1>1, <1>3, <1>6, <1>7 DEF ActivationIsHeld
    <2>2. QED
      BY <2>1
  <1>8. Sole(Scheduler, pc)
    BY <1>1 DEF Sole, SchedulerCalls
  <1>9. ASSUME answer'[Scheduler] # "none", ~Refusal(answer'[Scheduler])
        PROVE  active'[pc][cur] /\ ~Queued(pc, cur)'
    <2>1. CASE answer'[Scheduler] = answer[Scheduler]
      <3>1. active[pc][cur] /\ ~Queued(pc, cur)
        BY <1>1, <1>3, <1>9, <2>1 DEF ActivationIsHeld, Tells
      <3>2. ~Queued(pc, cur)' /\ active'[pc][cur] = active[pc][cur]
        BY <1>2, <1>4, <1>5, <3>1 DEF Queued
      <3>3. QED
        BY <3>1, <3>2
    <2>2. CASE answer'[Scheduler] # answer[Scheduler]
      <3>1. /\ Serve(pc) /\ inbox[pc][1].from = Scheduler
            /\ inbox[pc][1].tool = "apply" => active'[pc][inbox[pc][1].intent]
        BY <1>1, <1>4, <1>8, <1>9, <2>2, AgentsRespond DEF Refusal
      <3>2. /\ 1 \in 1..Len(inbox[pc])
            /\ \A k \in 1..Len(inbox'[pc]) :
                 k + 1 \in 1..Len(inbox[pc]) /\ inbox'[pc][k] = inbox[pc][k + 1]
        BY <1>1, <1>4, <3>1, ServedQueue
      <3>3. inbox[pc][1].tool = "apply" /\ inbox[pc][1].intent = cur
        BY <1>1, <1>3, <1>4, <3>1, <3>2 DEF SchedulerCalls, Tool
      <3>4. \A m \in 1..Len(inbox[pc]) : inbox[pc][m].intent = cur => m <= 1
        BY <1>1, <1>3, <3>1, <3>2 DEF ActivationIsHeld
      <3>5. ASSUME NEW k \in 1..Len(inbox'[pc]), inbox'[pc][k].intent = cur
            PROVE  FALSE
        <4>1. k + 1 <= 1
          BY <3>2, <3>4, <3>5
        <4>2. QED
          BY <4>1
      <3>6. QED
        BY <1>2, <3>1, <3>3, <3>5 DEF Queued
    <2>3. QED
      BY <2>1, <2>2
  <1>10. pc = "ran" => Refusal(cnAnswer) \/ (active'["cn"][cur] /\ ~Queued("cn", cur)')
    BY <1>1, <1>3, <1>5 DEF ActivationIsHeld, Tells, Domains
  <1>11. QED
    BY <1>7, <1>9, <1>10

LEMMA AgentsSettle ==
  ASSUME OutcomeInv, Agents, UNCHANGED requestVars
  PROVE  SettlingInv'
  <1>1. AgentsNext /\ UNCHANGED tableVars /\ UNCHANGED schedulerVars /\ AgentsTypeOK
    BY OutcomeTypes DEF Agents
  <1>2. OneHandler' /\ InForceIsHeld'
    <2>1. \A e \in Domains, j \in Intents :
             ~Queued(e, j) => active'[e][j] = active[e][j] /\ ~Queued(e, j)'
      BY <1>1, AgentsQueued
    <2>2. OneHandler /\ InForceIsHeld
      BY DEF OutcomeInv, SettlingInv
    <2>3. QED
      BY <1>1, <2>1, <2>2 DEF OneHandler, InForceIsHeld, BeingHandled, requestVars, tableVars
  <1>3. LeftoversFailed' /\ \A r \in Requests : TraceOK(r)' /\ StatusFitsTrace(r)'
    BY <1>1 DEF OutcomeInv, SettlingInv, LeftoversFailed, TraceOK, StatusFitsTrace, InHand,
                InferStatus, requestVars, tableVars, schedulerVars
  <1>4. QED
    BY <1>1, <1>2, <1>3, AgentsKeepCalls, AgentsKeepCalled, AgentsKeepActivation DEF SettlingInv

-----------------------------------------------------------------------------
(***************************************************************************)
(* The steps of the requests.                                              *)
(***************************************************************************)

\* A step that neither calls an agent nor is one.
LEMMA QuietActivation ==
  ASSUME ActivationIsHeld, UNCHANGED <<active, inbox, answer, schedulerVars>>
  PROVE  ActivationIsHeld'
  BY DEF ActivationIsHeld, Tells, Queued, schedulerVars

\* The other requests, when only the row of i is written.
LEMMA OthersSettle ==
  ASSUME OutcomeInv, NEW q \in Requests, NEW i, mine[q] # NoIntent => mine[q] # i,
         UNCHANGED <<active, inbox, answer>>,
         \A j \in Intents : j # i => status'[j] = status[j],
         mine'[q] = mine[q], at'[q] = at[q], ask'[q] = ask[q],
         called'[q] = called[q], worst'[q] = worst[q]
  PROVE  TraceOK(q)' /\ StatusFitsTrace(q)' /\ CalledIsHeld(q)'
  <1>1. TraceOK(q) /\ StatusFitsTrace(q) /\ CalledIsHeld(q)
    BY DEF OutcomeInv, SettlingInv
  <1>2. mine[q] # NoIntent => mine[q] \in Intents /\ status'[mine[q]] = status[mine[q]]
    BY OutcomeTypes
  <1>3. InferStatus(q)' = InferStatus(q)
    BY DEF InferStatus
  <1>4. Failing(q)' <=> Failing(q)
    BY DEF Failing
  <1>5. QED
    BY <1>1, <1>2, <1>3, <1>4 DEF TraceOK, StatusFitsTrace, CalledIsHeld

\* A step of request r, which waits for nothing, that calls no agent and writes
\* the row of i at most, which is nobody else's: it is enough to look at r and i.
LEMMA OwnStep ==
  ASSUME OutcomeInv, NEW r \in Requests, NEW i,
         UNCHANGED <<active, inbox, answer, schedulerVars>>,
         \A q \in Requests \ {r} :
           /\ mine'[q] = mine[q] /\ at'[q] = at[q] /\ ask'[q] = ask[q]
           /\ called'[q] = called[q] /\ worst'[q] = worst[q]
           /\ mine[q] # NoIntent => mine[q] # i,
         \A j \in Intents : j # i => status'[j] = status[j] /\ window'[j] = window[j],
         mine[r] \in {i, NoIntent}, mine'[r] \in {i, NoIntent},
         \A d \in Domains : \A k \in 1..Len(inbox[d]) : inbox[d][k].from # r,
         TraceOK(r)', StatusFitsTrace(r)', CalledIsHeld(r)',
         i \in Intents =>
           /\ status'[i] # "absent" \/ status'[i] = status[i]
           /\ status'[i] = "scheduled" /\ window'[i] # "before" => mine'[r] # i
           /\ job = "cleanup" /\ i \in InHand => status'[i] = "failed"
           /\ status'[i] \in InForce /\ window'[i] # "closed" /\ mine'[r] # i =>
                \A d \in Domains : active[d][i] /\ ~Queued(d, i)
  PROVE  SettlingInv'
  <1>1. /\ OneHandler /\ LeftoversFailed /\ RequestsWait /\ ActivationIsHeld /\ InForceIsHeld
        /\ InHand \subseteq Intents
    BY OutcomeTypes DEF OutcomeInv, SettlingInv, InHand, TypeOK
  <1>2. \A q \in Requests : TraceOK(q)' /\ StatusFitsTrace(q)' /\ CalledIsHeld(q)'
    BY OthersSettle
  <1>3. ActivationIsHeld'
    BY <1>1, QuietActivation
  <1>4. \A d \in Domains, j \in Intents : Queued(d, j)' <=> Queued(d, j)
    BY DEF Queued
  <1>5. \A j \in Intents : j # i => (BeingHandled(j)' <=> BeingHandled(j))
    BY NoIntentAssumption DEF BeingHandled
  <1>6. BeingHandled(i)' /\ i \in Intents => mine'[r] = i
    BY NoIntentAssumption DEF BeingHandled
  <1>7. OneHandler'
    <2>1. ASSUME NEW q \in Requests, NEW p \in Requests, mine'[q] # NoIntent, mine'[q] = mine'[p]
          PROVE  q = p
      BY <1>1, <2>1 DEF OneHandler
    <2>2. ASSUME NEW j \in Intents, status'[j] = "scheduled", window'[j] # "before"
          PROVE  ~BeingHandled(j)'
      BY <1>1, <1>5, <1>6, <2>2 DEF OneHandler
    <2>3. ASSUME NEW j \in Intents, status'[j] = "absent", NEW d \in Domains
          PROVE  ~Queued(d, j)'
      BY <1>1, <1>4, <2>3 DEF OneHandler
    <2>4. QED
      BY <2>1, <2>2, <2>3 DEF OneHandler
  <1>8. InForceIsHeld'
    <2>1. ASSUME NEW j \in Intents, status'[j] \in InForce, window'[j] # "closed",
                 ~BeingHandled(j)', NEW d \in Domains
          PROVE  active'[d][j] /\ ~Queued(d, j)'
      <3>1. CASE j = i
        BY <1>4, <2>1, <3>1 DEF BeingHandled
      <3>2. CASE j # i
        BY <1>1, <1>4, <1>5, <2>1, <3>2 DEF InForceIsHeld
      <3>3. QED
        BY <3>1, <3>2
    <2>2. QED
      BY <2>1 DEF InForceIsHeld
  <1>9. LeftoversFailed'
    <2>1. InHand' = InHand /\ job' = job
      BY DEF InHand, schedulerVars
    <2>2. QED
      BY <1>1, <2>1 DEF LeftoversFailed
  <1>10. RequestsWait'
    <2>1. \A q \in Requests \ {r}, d \in Domains : WaitsAt(q, d)' <=> WaitsAt(q, d)
      BY DEF WaitsAt
    <2>2. QED
      BY <1>1, <2>1 DEF RequestsWait
  <1>11. QED
    BY <1>2, <1>3, <1>7, <1>8, <1>9, <1>10 DEF SettlingInv

\* Whose is the row a request works on, and what it may write there.
LEMMA OwnRow ==
  ASSUME OutcomeInv, NEW r \in Requests, mine[r] \in Intents, UNCHANGED window,
         \/ UNCHANGED status
         \/ \E s \in Statuses \ {"absent", "scheduled"} :
              UpdateIntentStatus(mine[r], s) /\ (status[mine[r]] = "failed" => s = "failed")
  PROVE  /\ \A q \in Requests \ {r} : mine[q] # NoIntent => mine[q] # mine[r]
         /\ \A j \in Intents : j # mine[r] => status'[j] = status[j]
         /\ status'[mine[r]] # "absent"
         /\ status[mine[r]] = "scheduled" <=> status'[mine[r]] = "scheduled"
         /\ status[mine[r]] = "scheduled" => window[mine[r]] = "before"
         /\ status[mine[r]] = "failed" => status'[mine[r]] = "failed"
         /\ job = "cleanup" /\ mine[r] \in InHand => status'[mine[r]] = "failed"
  <1>1. TypeOK /\ mine[r] # NoIntent /\ OneHandler /\ LeftoversFailed
    BY OutcomeTypes, NoIntentAssumption DEF OutcomeInv, SettlingInv
  <1>2. status[mine[r]] # "absent"
    BY <1>1, OutcomeTypes DEF OwnershipInv, RequestsAreRecorded
  <1>3. \/ UNCHANGED status
        \/ \E s \in Statuses \ {"absent", "scheduled"} :
             /\ \A j \in Intents \ {mine[r]} : status'[j] = status[j]
             /\ status'[mine[r]] = IF status[mine[r]] = "scheduled" THEN "scheduled" ELSE s
             /\ status[mine[r]] = "failed" => s = "failed"
    BY <1>1, StatusAfter
  <1>4. job = "cleanup" /\ mine[r] \in InHand => status[mine[r]] = "failed"
    BY <1>1 DEF LeftoversFailed
  <1>5. status[mine[r]] = "scheduled" => window[mine[r]] = "before"
    BY <1>1 DEF OneHandler, BeingHandled
  <1>6. \A q \in Requests \ {r} : mine[q] # NoIntent => mine[q] # mine[r]
    BY <1>1 DEF OneHandler
  <1>7. QED
    BY <1>2, <1>3, <1>4, <1>5, <1>6

\* A step of a request that goes on working on its intent.
LEMMA GoesOn ==
  ASSUME OutcomeInv, NEW r \in Requests, mine[r] \in Intents, UNCHANGED <<window, mine>>,
         \/ UNCHANGED status
         \/ \E s \in Statuses \ {"absent", "scheduled"} :
              UpdateIntentStatus(mine[r], s) /\ (status[mine[r]] = "failed" => s = "failed"),
         UNCHANGED <<active, inbox, answer, schedulerVars>>,
         \A q \in Requests \ {r} :
           at'[q] = at[q] /\ ask'[q] = ask[q] /\ called'[q] = called[q] /\ worst'[q] = worst[q],
         answer[r] # "none" \/ (ask[r] = NoAsk /\ at[r] \notin {"revertCn", "revertRan"}),
         TraceOK(r)', StatusFitsTrace(r)', CalledIsHeld(r)'
  PROVE  SettlingInv'
  <1> DEFINE i == mine[r]
  <1>1. /\ \A q \in Requests \ {r} : mine[q] # NoIntent => mine[q] # i
        /\ \A j \in Intents : j # i => status'[j] = status[j] /\ window'[j] = window[j]
        /\ status'[i] # "absent"
        /\ status'[i] = "scheduled" => window'[i] = "before"
        /\ job = "cleanup" /\ i \in InHand => status'[i] = "failed"
    BY OwnRow
  <1>2. \A d \in Domains : \A k \in 1..Len(inbox[d]) : inbox[d][k].from # r
    BY RequestWaitsNot
  <1>3. mine'[r] = i /\ \A q \in Requests : mine'[q] = mine[q]
    OBVIOUS
  <1> HIDE DEF i
  <1>4. mine[r] = i
    BY DEF i
  <1>5. QED
    BY <1>1, <1>2, <1>3, <1>4, OwnStep

\* The thread that ends leaves no trace.
LEMMA EndAll ==
  ASSUME OutcomeInv, NEW r \in Requests, End({r})
  PROVE  /\ at'[r] = "done" /\ mine'[r] = NoIntent /\ ask'[r] = NoAsk /\ called'[r] = {}
         /\ worst'[r] = "applied"
         /\ \A q \in Requests \ {r} :
              /\ at'[q] = at[q] /\ mine'[q] = mine[q] /\ ask'[q] = ask[q]
              /\ called'[q] = called[q] /\ worst'[q] = worst[q]
         /\ TraceOK(r)' /\ StatusFitsTrace(r)' /\ CalledIsHeld(r)'
  <1>1. /\ at'[r] = "done" /\ mine'[r] = NoIntent /\ ask'[r] = NoAsk /\ called'[r] = {}
        /\ worst'[r] = "applied"
        /\ \A q \in Requests \ {r} :
             /\ at'[q] = at[q] /\ mine'[q] = mine[q] /\ ask'[q] = ask[q]
             /\ called'[q] = called[q] /\ worst'[q] = worst[q]
    BY DEF End
  <1>2. QED
    BY <1>1 DEF TraceOK, StatusFitsTrace, CalledIsHeld

\* A request ends: what it leaves in force is held.
LEMMA EndSettles ==
  ASSUME OutcomeInv, NEW r \in Requests, mine[r] \in Intents, End({r}), UNCHANGED window,
         \/ UNCHANGED status
         \/ \E s \in Statuses \ {"absent", "scheduled"} :
              UpdateIntentStatus(mine[r], s) /\ (status[mine[r]] = "failed" => s = "failed"),
         UNCHANGED <<active, inbox, answer, schedulerVars>>,
         answer[r] # "none" \/ (ask[r] = NoAsk /\ at[r] \notin {"revertCn", "revertRan"}),
         status'[mine[r]] \in InForce =>
           \A d \in Domains : active[d][mine[r]] /\ ~Queued(d, mine[r])
  PROVE  SettlingInv'
  <1> DEFINE i == mine[r]
  <1>1. /\ \A q \in Requests \ {r} : mine[q] # NoIntent => mine[q] # i
        /\ \A j \in Intents : j # i => status'[j] = status[j] /\ window'[j] = window[j]
        /\ status'[i] # "absent"
        /\ status'[i] = "scheduled" => window'[i] = "before"
        /\ job = "cleanup" /\ i \in InHand => status'[i] = "failed"
        /\ status'[i] \in InForce => \A d \in Domains : active[d][i] /\ ~Queued(d, i)
    BY OwnRow
  <1>2. \A d \in Domains : \A k \in 1..Len(inbox[d]) : inbox[d][k].from # r
    BY RequestWaitsNot
  <1>3. /\ mine'[r] = NoIntent /\ TraceOK(r)' /\ StatusFitsTrace(r)' /\ CalledIsHeld(r)'
        /\ \A q \in Requests \ {r} :
             /\ at'[q] = at[q] /\ mine'[q] = mine[q] /\ ask'[q] = ask[q]
             /\ called'[q] = called[q] /\ worst'[q] = worst[q]
    BY EndAll
  <1> HIDE DEF i
  <1>4. mine[r] = i
    BY DEF i
  <1>5. QED
    BY <1>1, <1>2, <1>3, <1>4, OwnStep

\* A new request, and one that ends without an intent.
LEMMA IdleSettles ==
  ASSUME OutcomeInv, NEW r \in Requests,
         ReceiveIntent(r) \/ (LoopEnds(r) /\ mine[r] = NoIntent)
  PROVE  SettlingInv'
  <1>1. /\ mine[r] = NoIntent /\ TraceOK(r) /\ UNCHANGED <<active, inbox, answer, schedulerVars>>
        /\ UNCHANGED <<status, window>> /\ at[r] \in {"idle", "intent"}
    BY DEF ReceiveIntent, LoopEnds, InLoop, OutcomeInv, TrackedInv, RequestsInOrder, SettlingInv,
           vars, agentVars, tableVars
  <1>2. ask[r] = NoAsk
    BY <1>1 DEF TraceOK
  <1>3. \A d \in Domains : \A k \in 1..Len(inbox[d]) : inbox[d][k].from # r
    BY <1>1, <1>2, RequestWaitsNot
  <1>4. /\ mine'[r] = NoIntent /\ TraceOK(r)' /\ StatusFitsTrace(r)' /\ CalledIsHeld(r)'
        /\ \A q \in Requests \ {r} :
             /\ at'[q] = at[q] /\ mine'[q] = mine[q] /\ ask'[q] = ask[q]
             /\ called'[q] = called[q] /\ worst'[q] = worst[q]
    <2>1. CASE ReceiveIntent(r)
      <3>1. at' = [at EXCEPT ![r] = "intent"] /\ UNCHANGED <<mine, ask, called, worst>>
        BY <2>1 DEF ReceiveIntent, Goto
      <3>2. at'[r] = "intent" /\ \A q \in Requests \ {r} : at'[q] = at[q]
        BY <3>1, OutcomeTypes
      <3>3. QED
        BY <1>1, <3>1, <3>2 DEF TraceOK, StatusFitsTrace, CalledIsHeld
    <2>2. CASE LoopEnds(r)
      BY <1>1, <2>2, EndAll DEF LoopEnds
    <2>3. QED
      BY <2>1, <2>2
  <1>5. QED
    BY <1>1, <1>3, <1>4, OwnStep, NoIntentAssumption

LEMMA RecordSettles ==
  ASSUME OutcomeInv, NEW r \in Requests, NEW i \in Intents, NEW w \in Windows,
         RecordIntent(r, i, w)
  PROVE  SettlingInv'
  <1>1. /\ mine[r] = NoIntent /\ TraceOK(r) /\ UNCHANGED <<active, inbox, answer, schedulerVars>>
        /\ at[r] = "intent" /\ status[i] = "absent" /\ UNCHANGED <<at, ask, called, worst>>
        /\ OneHandler
    BY DEF RecordIntent, InLoop, OutcomeInv, SettlingInv, agentVars
  <1>2. /\ status'[i] \in {"scheduled", "received"}
        /\ status'[i] = "scheduled" => window'[i] = "before"
        /\ \A j \in Intents : j # i => status'[j] = status[j] /\ window'[j] = window[j]
        /\ mine'[r] = i /\ \A q \in Requests \ {r} : mine'[q] = mine[q]
    BY OutcomeTypes DEF RecordIntent, TypeOK
  <1>3. i \notin InHand /\ \A q \in Requests : mine[q] # i
    BY <1>1, HandIsFree, OutcomeTypes, NoIntentAssumption DEF OwnershipInv, RequestsAreRecorded
  <1>4. ask[r] = NoAsk /\ called[r] = {} /\ worst[r] = "applied" /\ i # NoIntent
    BY <1>1, NoIntentAssumption DEF TraceOK
  <1>5. \A d \in Domains : \A k \in 1..Len(inbox[d]) : inbox[d][k].from # r
    BY <1>1, <1>4, RequestWaitsNot
  <1>6. \A d \in Domains : \A k \in 1..Len(inbox[d]) : inbox[d][k].intent # i
    BY <1>1 DEF OneHandler, Queued
  <1>7. TraceOK(r)' /\ StatusFitsTrace(r)' /\ CalledIsHeld(r)'
    BY <1>1, <1>2, <1>4, <1>6 DEF TraceOK, StatusFitsTrace, CalledIsHeld, InForce
  <1>8. QED
    BY <1>1, <1>2, <1>3, <1>4, <1>5, <1>7, OwnStep DEF InForce

\* In the loop nobody has failed the intent.
LEMMA LoopFacts ==
  ASSUME OutcomeInv, NEW r \in Requests, mine[r] \in Intents
  PROVE  /\ mine[r] # NoIntent /\ TraceOK(r) /\ StatusFitsTrace(r) /\ CalledIsHeld(r)
         /\ at[r] \in {"intent", "net"} => status[mine[r]] # "failed"
         /\ at[r] \notin {"intent", "event"} => ask[r] = NoAsk
  BY NoIntentAssumption
     DEF OutcomeInv, SettlingInv, TrackedInv, RequestsInOrder, StatusFitsTrace

LEMMA BlockedSettles ==
  ASSUME OutcomeInv, NEW r \in Requests, NEW d \in Domains, NEW tool \in Tools,
         CallDomainTool(r, d, tool), Blocked(r, tool)
  PROVE  SettlingInv'
  <1>1. /\ mine[r] \in Intents /\ at[r] \in {"intent", "event"} /\ ask[r] = NoAsk
        /\ status[mine[r]] = "scheduled"
        /\ UNCHANGED <<window, status, mine, at, ask, worst>>
        /\ UNCHANGED <<active, inbox, answer, schedulerVars>>
        /\ called' = [called EXCEPT ![r] = @ \cup {d}]
    BY OutcomeTypes DEF CallDomainTool, Blocked, InLoop, tableVars, agentVars
  <1>2. called'[r] # {} /\ \A q \in Requests \ {r} : called'[q] = called[q]
    BY <1>1, OutcomeTypes
  <1>3. TraceOK(r)' /\ StatusFitsTrace(r)' /\ CalledIsHeld(r)'
    BY <1>1, <1>2, LoopFacts DEF TraceOK, StatusFitsTrace, CalledIsHeld
  <1>4. QED
    BY <1>1, <1>2, <1>3, GoesOn

LEMMA AnswerSettles ==
  ASSUME OutcomeInv, NEW r \in Requests, ToolAnswered(r)
  PROVE  SettlingInv'
  <1>1. /\ mine[r] \in Intents /\ ask[r] # NoAsk /\ answer[r] # "none"
        /\ ask[r].domain \in Domains /\ ask[r].tool = "apply" /\ at[r] = "intent"
    <2>1. ask[r] # NoAsk /\ answer[r] # "none" /\ at[r] \in {"intent", "event"} /\ TraceOK(r)
      BY DEF ToolAnswered, OutcomeInv, SettlingInv
    <2>2. QED
      BY <2>1, OutcomeTypes DEF TraceOK, Asks
  <1>2. /\ UNCHANGED <<window, status, mine, at>>
        /\ UNCHANGED <<active, inbox, answer, schedulerVars>>
        /\ called' = [called EXCEPT ![r] = @ \cup {ask[r].domain}]
        /\ worst' = [worst EXCEPT ![r] = Worse(@, answer[r])]
        /\ ask' = [ask EXCEPT ![r] = NoAsk]
    BY <1>1 DEF ToolAnswered, vars, tableVars, agentVars
  <1>3. /\ called'[r] = called[r] \cup {ask[r].domain} /\ ask'[r] = NoAsk
        /\ worst'[r] = Worse(worst[r], answer[r])
        /\ \A q \in Requests \ {r} :
             called'[q] = called[q] /\ worst'[q] = worst[q] /\ ask'[q] = ask[q]
    BY <1>2, OutcomeTypes
  <1>4. TraceOK(r)' /\ StatusFitsTrace(r)'
    BY <1>1, <1>2, <1>3, LoopFacts DEF TraceOK, StatusFitsTrace
  <1>5. CalledIsHeld(r)'
    <2>1. Failing(r) => Failing(r)'
      BY <1>3 DEF Failing, Refusal, Worse
    <2>2. CalledIsHeld(r)
      BY <1>1, LoopFacts
    <2>3. QED
      BY <1>1, <1>2, <1>3, <2>1, <2>2 DEF CalledIsHeld
  <1>6. QED
    BY <1>1, <1>2, <1>3, <1>4, <1>5, GoesOn

\* What a model may write without giving up is no end of the intent.
LEMMA ModelSettles ==
  ASSUME Settling, OutcomeInv, NEW r \in Requests, ModelUpdatesStatus(r)
  PROVE  SettlingInv'
  <1>1. /\ mine[r] \in Intents /\ at[r] = "intent" /\ ask[r] = NoAsk
        /\ UNCHANGED <<window, mine, at, ask, called, worst>>
        /\ UNCHANGED <<active, inbox, answer, schedulerVars>>
    BY OutcomeTypes
       DEF ModelUpdatesStatus, InLoop, agentVars, OutcomeInv, SettlingInv, TraceOK
  <1>2. called[r] # {}
    <2>1. called[r] = {} => "claims" \in Habits
      BY DEF ModelUpdatesStatus, Domains
    <2>2. QED
      BY <2>1 DEF Settling
  <1>3. \/ UNCHANGED status
        \/ \E s \in {"applied", "degraded", "decomposed"} : UpdateIntentStatus(mine[r], s)
    BY DEF ModelUpdatesStatus, ModelStatuses, Settling
  <1>4. status[mine[r]] # "failed"
    BY <1>1, LoopFacts
  <1>5. \/ UNCHANGED status
        \/ \E s \in Statuses \ {"absent", "scheduled"} :
             UpdateIntentStatus(mine[r], s) /\ (status[mine[r]] = "failed" => s = "failed")
    BY <1>3, <1>4 DEF Statuses
  <1>6. /\ status'[mine[r]] # "failed"
        /\ status[mine[r]] = "scheduled" => status'[mine[r]] = "scheduled"
    <2>1. {"applied", "degraded", "decomposed"} \subseteq Statuses
      BY DEF Statuses
    <2>2. QED
      BY <1>1, <1>3, <1>4, <2>1, StatusAfter, OutcomeTypes
  <1>7. TraceOK(r)' /\ StatusFitsTrace(r)' /\ CalledIsHeld(r)'
    <2>1. Failing(r)' <=> Failing(r)
      BY <1>1 DEF Failing
    <2>2. TraceOK(r) /\ CalledIsHeld(r)
      BY <1>1, LoopFacts
    <2>3. QED
      BY <1>1, <1>2, <1>4, <1>6, <2>1, <2>2 DEF TraceOK, StatusFitsTrace, CalledIsHeld
  <1>8. QED
    BY <1>1, <1>5, <1>7, GoesOn

LEMMA LoopSettles ==
  ASSUME OutcomeInv, NEW r \in Requests, LoopEnds(r), mine[r] # NoIntent
  PROVE  SettlingInv'
  <1>1. /\ mine[r] \in Intents /\ at[r] = "intent" /\ ask[r] = NoAsk /\ at' = [at EXCEPT ![r] = "net"]
        /\ UNCHANGED <<window, status, mine, ask, called, worst>>
        /\ UNCHANGED <<active, inbox, answer, schedulerVars>>
    BY OutcomeTypes DEF LoopEnds, InLoop, Goto, vars, agentVars, tableVars
  <1>2. at'[r] = "net" /\ \A q \in Requests \ {r} : at'[q] = at[q]
    BY <1>1, OutcomeTypes
  <1>3. TraceOK(r)' /\ StatusFitsTrace(r)' /\ CalledIsHeld(r)'
    BY <1>1, <1>2, LoopFacts DEF TraceOK, StatusFitsTrace, CalledIsHeld, Failing
  <1>4. QED
    BY <1>1, <1>2, <1>3, GoesOn

\* The safety net fails what has not been asked of both domains.
LEMMA NetSettles ==
  ASSUME OutcomeInv, NEW r \in Requests, SafetyNet(r)
  PROVE  SettlingInv'
  <1>1. /\ at[r] = "net" /\ at' = [at EXCEPT ![r] = "settle"]
        /\ UNCHANGED <<window, mine, ask, called, worst>>
        /\ UNCHANGED <<active, inbox, answer, schedulerVars>>
        /\ UNCHANGED status \/ UpdateIntentStatus(mine[r], InferStatus(r))
    BY DEF SafetyNet, Goto, agentVars
  <1>2. mine[r] \in Intents
    BY <1>1, OutcomeTypes DEF OrchestratorTypeOK
  <1>3. at'[r] = "settle" /\ \A q \in Requests \ {r} : at'[q] = at[q]
    BY <1>1, OutcomeTypes
  <1>4. InferStatus(r) \in {"applied", "degraded", "failed"} /\ InferStatus(r) \in Statuses
    BY OutcomeTypes, InferredStatus DEF Statuses
  <1>5. status[mine[r]] # "failed" /\ ask[r] = NoAsk
    BY <1>1, <1>2, LoopFacts
  <1>6. \/ status'[mine[r]] = status[mine[r]]
        \/ status[mine[r]] # "scheduled" /\ status'[mine[r]] = InferStatus(r)
    BY <1>1, <1>2, <1>4, StatusAfter, OutcomeTypes
  <1>7. called[r] = {} => InferStatus(r) = "failed"
    BY DEF InferStatus, Domains
  <1>8. InferStatus(r)' = InferStatus(r) /\ (Failing(r)' <=> Failing(r))
    BY <1>1 DEF InferStatus, Failing
  <1>9. TraceOK(r)' /\ StatusFitsTrace(r)' /\ CalledIsHeld(r)'
    <2>1. TraceOK(r) /\ StatusFitsTrace(r) /\ CalledIsHeld(r)
      BY <1>2, LoopFacts
    <2>2. TraceOK(r)'
      BY <1>1, <1>3, <2>1 DEF TraceOK
    <2>3. StatusFitsTrace(r)'
      BY <1>1, <1>3, <1>5, <1>6, <1>7, <1>8, <2>1 DEF StatusFitsTrace, InForce
    <2>4. CalledIsHeld(r)'
      BY <1>1, <1>3, <1>5, <1>6, <1>8, <2>1 DEF CalledIsHeld
    <2>5. QED
      BY <2>2, <2>3, <2>4
  <1>10. QED
    BY <1>1, <1>2, <1>3, <1>4, <1>5, <1>9, GoesOn

\* What settles without a revert tells what both domains answered.
LEMMA SettleSettles ==
  ASSUME OutcomeInv, NEW r \in Requests,
         SkipSettle(r) \/ Settle(r) \/ SettleRanReverted(r)
  PROVE  SettlingInv'
  <1>1. /\ at[r] \in {"settle", "revertRan"} /\ End({r})
        /\ UNCHANGED window /\ UNCHANGED <<active, inbox, answer, schedulerVars>>
        /\ at[r] = "settle" \/ answer[r] # "none"
    BY DEF SkipSettle, Settle, SettleRanReverted, vars, agentVars, tableVars
  <1>2. mine[r] \in Intents
    BY <1>1, OutcomeTypes DEF OrchestratorTypeOK
  <1>3. ask[r] = NoAsk /\ StatusFitsTrace(r) /\ CalledIsHeld(r) /\ mine[r] # NoIntent
    BY <1>1, <1>2, LoopFacts
  <1>4. InferStatus(r) \in {"applied", "degraded", "failed"} /\ InferStatus(r) \in Statuses
    BY OutcomeTypes, InferredStatus DEF Statuses
  <1>5. CASE SkipSettle(r)
    <2>1. UNCHANGED status /\ (called[r] = {} \/ status[mine[r]] = "scheduled")
      BY <1>5 DEF SkipSettle, NothingToSettle, vars, tableVars
    <2>2. status'[mine[r]] \notin InForce
      BY <1>3, <2>1 DEF StatusFitsTrace, InForce
    <2>3. QED
      BY <1>1, <1>2, <1>3, <2>1, <2>2, EndSettles
  <1>6. CASE Settle(r)
    <2>1. /\ UpdateIntentStatus(mine[r], InferStatus(r)) /\ InferStatus(r) # "failed"
          /\ status[mine[r]] # "scheduled" /\ at[r] = "settle"
      BY <1>6 DEF Settle, NothingToSettle
    <2>2. called[r] = Domains /\ ~Failing(r) /\ status[mine[r]] # "failed"
      BY <1>3, <2>1 DEF InferStatus, Failing, StatusFitsTrace
    <2>3. \A d \in Domains : active[d][mine[r]] /\ ~Queued(d, mine[r])
      <3>1. \A d \in Domains : /\ active[d][mine[r]]
                               /\ \A k \in 1..Len(inbox[d]) :
                                    inbox[d][k].intent = mine[r] => inbox[d][k].from = r
        BY <1>3, <2>1, <2>2 DEF CalledIsHeld
      <3>2. QED
        BY <1>3, <2>1, <3>1, RequestWaitsNot DEF Queued
    <2>4. QED
      BY <1>1, <1>2, <1>3, <1>4, <2>1, <2>2, <2>3, EndSettles
  <1>7. CASE SettleRanReverted(r)
    <2>1. UpdateIntentStatus(mine[r], "failed") /\ answer[r] # "none" /\ "failed" \in Statuses
      BY <1>7 DEF SettleRanReverted, Statuses
    <2>2. status'[mine[r]] \notin InForce
      BY <1>2, <2>1, StatusAfter, OutcomeTypes DEF InForce
    <2>3. QED
      BY <1>1, <1>2, <2>1, <2>2, EndSettles
  <1>8. QED
    BY <1>5, <1>6, <1>7

\* A request calls a domain for its own intent, which concerns nobody else.
LEMMA CallSettles ==
  ASSUME OutcomeInv, NEW r \in Requests, NEW d \in Domains, NEW tool \in Tools,
         mine[r] \in Intents, CallRemoteTool(r, d, tool, mine[r]),
         UNCHANGED <<tableVars, schedulerVars, mine, called, worst>>,
         \A q \in Requests \ {r} : at'[q] = at[q] /\ ask'[q] = ask[q],
         answer[r] # "none" \/ (ask[r] = NoAsk /\ at[r] \notin {"revertCn", "revertRan"}),
         WaitsAt(r, d)', ask'[r] # NoAsk => tool = "apply",
         TraceOK(r)', StatusFitsTrace(r)',
         at'[r] \in {"revertCn", "revertRan"} \/ (ask[r] = NoAsk /\ at'[r] = at[r] /\ ask'[r] # NoAsk)
  PROVE  SettlingInv'
  <1>1. /\ OneHandler /\ LeftoversFailed /\ RequestsWait /\ ActivationIsHeld /\ InForceIsHeld
        /\ \A q \in Requests : TraceOK(q) /\ StatusFitsTrace(q) /\ CalledIsHeld(q)
        /\ AgentsTypeOK /\ mine[r] # NoIntent /\ status[mine[r]] # "absent"
        /\ \A q \in Requests : q \in Callers /\ q # Scheduler
    BY OutcomeTypes, NoIntentAssumption
       DEF OutcomeInv, SettlingInv, OwnershipInv, RequestsAreRecorded
  <1>2. /\ active' = active /\ answer'[r] \in {"none", "error"}
        /\ \A u \in Callers \ {r} : answer'[u] = answer[u]
    BY <1>1, CallQueue
  <1>3. \A e \in Domains : \A k \in 1..Len(inbox'[e]) :
           \/ k \in 1..Len(inbox[e]) /\ inbox'[e][k] = inbox[e][k]
           \/ /\ e = d /\ answer'[r] = "none" /\ k = Len(inbox'[d])
              /\ inbox'[e][k].from = r /\ inbox'[e][k].tool = tool /\ inbox'[e][k].intent = mine[r]
    BY <1>1, CallEntries
  <1>4. \A e \in Domains : \A k \in 1..Len(inbox[e]) : inbox[e][k].from # r
    BY RequestWaitsNot
  <1>5. \A e \in Domains, j \in Intents : j # mine[r] /\ Queued(e, j)' => Queued(e, j)
    BY <1>1, CallQueued
  <1>6. \A q \in Requests \ {r} : mine[q] # mine[r]
    BY <1>1 DEF OneHandler
  <1>7. OneHandler' /\ InForceIsHeld' /\ LeftoversFailed'
    <2>1. UNCHANGED <<status, window, job, todo, pc, cur>>
      BY DEF tableVars, schedulerVars
    <2>2. \A j \in Intents : BeingHandled(j)' <=> BeingHandled(j)
      BY DEF BeingHandled
    <2>3. OneHandler'
      <3>1. \A j \in Intents : status[j] = "absent" => \A e \in Domains : ~Queued(e, j)'
        BY <1>1, <1>5 DEF OneHandler
      <3>2. QED
        BY <1>1, <2>1, <2>2, <3>1 DEF OneHandler
    <2>4. InForceIsHeld'
      <3>1. \A j \in Intents : ~BeingHandled(j) => j # mine[r]
        BY DEF BeingHandled
      <3>2. QED
        BY <1>1, <1>2, <1>5, <2>1, <2>2, <3>1 DEF InForceIsHeld
    <2>5. LeftoversFailed'
      BY <1>1, <2>1 DEF LeftoversFailed, InHand
    <2>6. QED
      BY <2>3, <2>4, <2>5
  <1>8. RequestsWait'
    <2>1. SUFFICES ASSUME NEW q \in Requests, NEW e \in Domains, NEW k \in 1..Len(inbox'[e]),
                          inbox'[e][k].from = q
                   PROVE  /\ WaitsAt(q, e)' /\ answer'[q] = "none" /\ inbox'[e][k].intent = mine[q]
                          /\ ask'[q] # NoAsk => inbox'[e][k].tool = "apply"
                          /\ \A m \in 1..Len(inbox'[e]) : inbox'[e][m].from = q => m = k
      BY DEF RequestsWait
    <2>2. CASE q = r
      <3>1. \A m \in 1..Len(inbox'[e]) : inbox'[e][m].from = r =>
               /\ e = d /\ answer'[r] = "none" /\ m = Len(inbox'[d])
               /\ inbox'[e][m].tool = tool /\ inbox'[e][m].intent = mine[r]
        BY <1>3, <1>4
      <3>2. QED
        BY <2>1, <2>2, <3>1
    <2>3. CASE q # r
      <3>1. \A m \in 1..Len(inbox'[e]) : inbox'[e][m].from = q =>
               m \in 1..Len(inbox[e]) /\ inbox'[e][m] = inbox[e][m]
        BY <1>3, <2>3
      <3>2. WaitsAt(q, e)' <=> WaitsAt(q, e)
        BY <2>3 DEF WaitsAt
      <3>3. QED
        BY <1>1, <1>2, <2>1, <2>3, <3>1, <3>2 DEF RequestsWait
    <2>4. QED
      BY <2>2, <2>3
  <1>9. ActivationIsHeld'
    <2>1. UNCHANGED <<pc, plan, cur, cnAnswer>> /\ answer'[Scheduler] = answer[Scheduler]
      BY <1>1, <1>2, SchedulerAssumption DEF schedulerVars
    <2>2. SUFFICES ASSUME pc \in {"cn", "ran"}, plan = "apply"
                   PROVE  /\ answer[Scheduler] # "none" =>
                               Refusal(answer[Scheduler]) \/ (active[pc][cur] /\ ~Queued(pc, cur)')
                          /\ pc = "ran" =>
                               Refusal(cnAnswer) \/ (active["cn"][cur] /\ ~Queued("cn", cur)')
                          /\ \A k, m \in 1..Len(inbox'[pc]) :
                               inbox'[pc][k].from = Scheduler /\ inbox'[pc][m].intent = cur => m <= k
      BY <1>2, <2>1 DEF ActivationIsHeld, Tells, Queued
    <2>3. cur \in Intents /\ cur # mine[r] /\ pc \in Domains /\ "cn" \in Domains
      BY <2>2, ActivationIsAlone DEF BeingHandled, Domains
    <2>4. \A e \in Domains : ~Queued(e, cur) => ~Queued(e, cur)'
      BY <1>5, <2>1, <2>3 DEF Queued
    <2>5. \A k, m \in 1..Len(inbox'[pc]) :
             inbox'[pc][k].from = Scheduler /\ inbox'[pc][m].intent = cur => m <= k
      BY <1>1, <1>3, <2>2, <2>3 DEF ActivationIsHeld
    <2>6. /\ ~Queued(pc, cur) => ~Queued(pc, cur)'
          /\ ~Queued("cn", cur) => ~Queued("cn", cur)'
      BY <2>1, <2>3, <2>4 DEF Queued
    <2>7. QED
      BY <1>1, <2>2, <2>5, <2>6 DEF ActivationIsHeld, Tells
  <1>10. \A q \in Requests : TraceOK(q)' /\ StatusFitsTrace(q)'
    <2>1. UNCHANGED <<status, mine, called, worst>>
      BY DEF tableVars
    <2>2. \A q \in Requests : InferStatus(q)' = InferStatus(q)
      BY <2>1 DEF InferStatus
    <2>3. QED
      BY <1>1, <2>1, <2>2 DEF TraceOK, StatusFitsTrace
  <1>11. \A q \in Requests : CalledIsHeld(q)'
    <2>1. UNCHANGED <<status, mine, called, worst>>
      BY DEF tableVars
    <2>2. SUFFICES ASSUME NEW q \in Requests, NEW e \in Domains,
                          mine[q] # NoIntent, at'[q] \in {"intent", "net", "settle"}, ~Failing(q)',
                          status[mine[q]] \notin {"scheduled", "failed"}
                   PROVE  /\ e \in called[q] => active[e][mine[q]]
                          /\ ask'[q] # NoAsk /\ ask'[q].domain = e /\ answer'[q] # "none" =>
                               active[e][mine[q]]
                          /\ \A k \in 1..Len(inbox'[e]) :
                               inbox'[e][k].intent = mine[q] => inbox'[e][k].from = q
      BY <1>2, <2>1 DEF CalledIsHeld
    <2>3. CASE q = r
      <3>1. ask[r] = NoAsk /\ at'[r] = at[r] /\ ask'[r] # NoAsk
        BY <2>2, <2>3
      <3>2. worst[r] # "failed" /\ answer'[r] = "none"
        BY <1>2, <2>1, <2>2, <2>3, <3>1 DEF Failing, Refusal
      <3>3. ~Failing(r)
        BY <3>1, <3>2 DEF Failing
      <3>4. QED
        BY <1>1, <1>3, <2>2, <2>3, <3>1, <3>2, <3>3 DEF CalledIsHeld
    <2>4. CASE q # r
      <3>1. ~Failing(q) /\ answer'[q] = answer[q] /\ ask'[q] = ask[q] /\ at'[q] = at[q]
        BY <1>1, <1>2, <2>1, <2>2, <2>4 DEF Failing
      <3>2. mine[q] # mine[r]
        BY <1>6, <2>4
      <3>3. QED
        BY <1>1, <1>3, <2>2, <3>1, <3>2 DEF CalledIsHeld
    <2>5. QED
      BY <2>3, <2>4
  <1>12. QED
    BY <1>7, <1>8, <1>9, <1>10, <1>11 DEF SettlingInv

LEMMA RequestsCallSettles ==
  ASSUME Settling, OutcomeInv, NEW r \in Requests,
         \/ \E d \in Domains, tool \in Tools : CallDomainTool(r, d, tool) /\ ~Blocked(r, tool)
         \/ SettleFailed(r) \/ SettleCnReverted(r)
  PROVE  SettlingInv'
  <1>1. TraceOK(r) /\ StatusFitsTrace(r)
    BY DEF OutcomeInv, SettlingInv
  <1>2. ASSUME NEW d \in Domains, NEW tool \in Tools, CallDomainTool(r, d, tool), ~Blocked(r, tool)
        PROVE  SettlingInv'
    <2>1. /\ mine[r] \in Intents /\ at[r] = "intent" /\ ask[r] = NoAsk
          /\ CallRemoteTool(r, d, tool, mine[r])
          /\ UNCHANGED <<tableVars, schedulerVars, mine, called, worst>> /\ UNCHANGED at
          /\ ask' = [ask EXCEPT ![r] = [domain |-> d, tool |-> tool]]
      BY <1>1, <1>2, OutcomeTypes DEF CallDomainTool, InLoop, TraceOK
    <2>2. tool = "apply"
      BY <1>2 DEF CallDomainTool, Settling, Tools
    <2>3. /\ ask'[r] = [domain |-> d, tool |-> tool]
          /\ \A q \in Requests \ {r} : ask'[q] = ask[q]
      BY <2>1, OutcomeTypes
    <2>4. ask'[r].domain = d /\ ask'[r].tool = "apply" /\ ask'[r] # NoAsk
      BY <2>2, <2>3 DEF NoAsk, Domains
    <2>5. TraceOK(r)' /\ WaitsAt(r, d)' /\ StatusFitsTrace(r)'
      <3>1. UNCHANGED status /\ InferStatus(r)' = InferStatus(r) /\ mine[r] # NoIntent
        BY <2>1, NoIntentAssumption DEF InferStatus, tableVars
      <3>2. QED
        BY <1>1, <2>1, <2>4, <3>1 DEF TraceOK, WaitsAt, StatusFitsTrace
    <2>6. QED
      BY <2>1, <2>2, <2>3, <2>4, <2>5, CallSettles
  <1>3. CASE SettleFailed(r) \/ SettleCnReverted(r)
    <2>1. PICK d \in Domains :
            /\ CallRemoteTool(r, d, "revert", mine[r])
            /\ at' = [at EXCEPT ![r] = IF d = "cn" THEN "revertCn" ELSE "revertRan"]
      BY <1>3 DEF SettleFailed, SettleCnReverted, Goto, Domains
    <2>2. /\ at[r] \in {"settle", "revertCn"} /\ (at[r] = "settle" \/ answer[r] # "none")
          /\ UNCHANGED <<tableVars, schedulerVars, mine, called, worst>> /\ UNCHANGED ask
      BY <1>3 DEF SettleFailed, SettleCnReverted
    <2>3. mine[r] \in Intents /\ ask[r] = NoAsk
      BY <2>2, OutcomeTypes, LoopFacts DEF OrchestratorTypeOK
    <2>4. /\ at'[r] = IF d = "cn" THEN "revertCn" ELSE "revertRan"
          /\ \A q \in Requests \ {r} : at'[q] = at[q]
      BY <2>1, OutcomeTypes
    <2>5. TraceOK(r)' /\ WaitsAt(r, d)' /\ StatusFitsTrace(r)'
      <3>1. UNCHANGED status /\ InferStatus(r)' = InferStatus(r)
        BY <2>2 DEF InferStatus, tableVars
      <3>2. QED
        BY <1>1, <2>2, <2>3, <2>4, <3>1 DEF TraceOK, WaitsAt, StatusFitsTrace, Domains
    <2>6. "revert" \in Tools
      BY DEF Tools
    <2>7. QED
      BY <2>1, <2>2, <2>3, <2>4, <2>5, <2>6, CallSettles
  <1>4. QED
    BY <1>2, <1>3

LEMMA RequestsSettle ==
  ASSUME Settling, OutcomeInv, RequestNext
  PROVE  SettlingInv'
  <1>1. PICK r \in Requests :
          \/ ReceiveIntent(r)
          \/ \E i \in Intents : ReceiveEvent(r, i) \/ ReuseIntent(r, i)
          \/ \E i \in Intents, w \in Windows : RecordIntent(r, i, w)
          \/ \E d \in Domains, tool \in Tools : CallDomainTool(r, d, tool)
          \/ ToolAnswered(r)
          \/ ModelUpdatesStatus(r)
          \/ LoopEnds(r)
          \/ RequestDies(r)
          \/ SafetyNet(r)
          \/ SkipSettle(r) \/ Settle(r)
          \/ SettleFailed(r) \/ SettleCnReverted(r) \/ SettleRanReverted(r)
          \/ EventEnds(r)
    BY DEF RequestNext
  <1>2. \A i \in Intents : ~ReceiveEvent(r, i) /\ ~ReuseIntent(r, i)
    BY DEF Settling, ReceiveEvent, ReuseIntent
  <1>3. ~RequestDies(r) /\ ~EventEnds(r)
    BY DEF Settling, RequestDies, EventEnds, OutcomeInv, SettlingInv, TraceOK
  <1>4. ASSUME NEW d \in Domains, NEW tool \in Tools, CallDomainTool(r, d, tool)
        PROVE  SettlingInv'
    BY <1>4, BlockedSettles, RequestsCallSettles
  <1>5. CASE LoopEnds(r)
    BY <1>5, IdleSettles, LoopSettles
  <1>6. CASE \E i \in Intents, w \in Windows : RecordIntent(r, i, w)
    BY <1>6, RecordSettles
  <1>7. QED
    BY <1>1, <1>2, <1>3, <1>4, <1>5, <1>6, IdleSettles, AnswerSettles, ModelSettles, NetSettles,
       SettleSettles, RequestsCallSettles

-----------------------------------------------------------------------------
(***************************************************************************)
(* The steps of the scheduler and of the clock.                            *)
(***************************************************************************)

\* It calls a domain for a row in hand, which no request needs.
LEMMA SchedulerCallSettles ==
  ASSUME OutcomeInv, NEW d \in Domains, NEW tool \in Tools, NEW i \in InHand,
         CallRemoteTool(Scheduler, d, tool, i),
         UNCHANGED <<tableVars, requestVars, job>>, InHand' \subseteq InHand,
         ActivationIsHeld'
  PROVE  SettlingInv'
  <1>1. /\ OneHandler /\ LeftoversFailed /\ RequestsWait /\ InForceIsHeld
        /\ \A q \in Requests : TraceOK(q) /\ StatusFitsTrace(q) /\ CalledIsHeld(q)
        /\ AgentsTypeOK /\ i \in Intents
        /\ \A q \in Requests : q \in Callers /\ q # Scheduler
    BY OutcomeTypes, HandIsFree DEF OutcomeInv, SettlingInv
  <1>2. /\ status[i] # "absent" /\ (status[i] \in InForce => window[i] = "closed")
        /\ BeingHandled(i) => status[i] = "failed"
    BY HandIsFree
  <1>3. active' = active /\ \A q \in Requests : answer'[q] = answer[q]
    BY <1>1, CallQueue, SchedulerAssumption
  <1>4. \A e \in Domains : \A k \in 1..Len(inbox'[e]) :
           \/ k \in 1..Len(inbox[e]) /\ inbox'[e][k] = inbox[e][k]
           \/ inbox'[e][k].from = Scheduler /\ inbox'[e][k].intent = i
    BY <1>1, CallEntries, SchedulerAssumption
  <1>5. \A e \in Domains, j \in Intents : j # i /\ Queued(e, j)' => Queued(e, j)
    BY <1>1, CallQueued, SchedulerAssumption
  <1>6. /\ UNCHANGED <<status, window, job>>
        /\ UNCHANGED <<at, mine, ask, called, worst>>
    BY DEF tableVars, requestVars
  <1>7. OneHandler' /\ InForceIsHeld' /\ LeftoversFailed'
    <2>1. \A j \in Intents : BeingHandled(j)' <=> BeingHandled(j)
      BY <1>6 DEF BeingHandled
    <2>2. OneHandler'
      <3>1. \A j \in Intents : status[j] = "absent" => \A e \in Domains : ~Queued(e, j)'
        BY <1>1, <1>2, <1>5 DEF OneHandler
      <3>2. QED
        BY <1>1, <1>6, <2>1, <3>1 DEF OneHandler
    <2>3. InForceIsHeld'
      BY <1>1, <1>2, <1>3, <1>5, <1>6, <2>1 DEF InForceIsHeld
    <2>4. LeftoversFailed'
      BY <1>1, <1>6 DEF LeftoversFailed
    <2>5. QED
      BY <2>2, <2>3, <2>4
  <1>8. RequestsWait'
    <2>1. SUFFICES ASSUME NEW q \in Requests, NEW e \in Domains, NEW k \in 1..Len(inbox'[e]),
                          inbox'[e][k].from = q
                   PROVE  /\ WaitsAt(q, e)' /\ answer'[q] = "none" /\ inbox'[e][k].intent = mine[q]
                          /\ ask[q] # NoAsk => inbox'[e][k].tool = "apply"
                          /\ \A m \in 1..Len(inbox'[e]) : inbox'[e][m].from = q => m = k
      BY <1>6 DEF RequestsWait
    <2>2. \A m \in 1..Len(inbox'[e]) : inbox'[e][m].from = q =>
             m \in 1..Len(inbox[e]) /\ inbox'[e][m] = inbox[e][m]
      BY <1>1, <1>4
    <2>3. WaitsAt(q, e)' <=> WaitsAt(q, e)
      BY <1>6 DEF WaitsAt
    <2>4. QED
      BY <1>1, <1>3, <2>1, <2>2, <2>3 DEF RequestsWait
  <1>9. \A q \in Requests : TraceOK(q)' /\ StatusFitsTrace(q)'
    BY <1>1, <1>6 DEF TraceOK, StatusFitsTrace, InferStatus
  <1>10. \A q \in Requests : CalledIsHeld(q)'
    <2>1. SUFFICES ASSUME NEW q \in Requests, NEW e \in Domains,
                          mine[q] # NoIntent, at[q] \in {"intent", "net", "settle"}, ~Failing(q)',
                          status[mine[q]] \notin {"scheduled", "failed"}
                   PROVE  /\ e \in called[q] => active[e][mine[q]]
                          /\ ask[q] # NoAsk /\ ask[q].domain = e /\ answer[q] # "none" =>
                               active[e][mine[q]]
                          /\ \A k \in 1..Len(inbox'[e]) :
                               inbox'[e][k].intent = mine[q] => inbox'[e][k].from = q
      BY <1>3, <1>6 DEF CalledIsHeld
    <2>2. ~Failing(q)
      BY <1>3, <1>6, <2>1 DEF Failing
    <2>3. mine[q] # i
      BY <1>2, <2>1 DEF BeingHandled
    <2>4. /\ e \in called[q] => active[e][mine[q]]
          /\ ask[q] # NoAsk /\ ask[q].domain = e /\ answer[q] # "none" => active[e][mine[q]]
          /\ \A k \in 1..Len(inbox[e]) : inbox[e][k].intent = mine[q] => inbox[e][k].from = q
      BY <1>1, <2>1, <2>2 DEF CalledIsHeld
    <2>5. QED
      BY <1>4, <2>3, <2>4
  <1>11. QED
    BY <1>7, <1>8, <1>9, <1>10 DEF SettlingInv

\* What it asks for is the last directive for the intent at that domain.
LEMMA AskedLast ==
  ASSUME OutcomeInv, NEW d \in Domains, NEW tool \in Tools, NEW i \in InHand,
         CallRemoteTool(Scheduler, d, tool, i),
         pc \notin {"cn", "ran"} \/ answer[Scheduler] # "none",
         pc' = d, cur' = i, d = "ran" => Tells("cn", cnAnswer)'
  PROVE  ActivationIsHeld'
  <1>1. AgentsTypeOK /\ TypeOK /\ SchedulerCalls /\ i \in Intents
    BY OutcomeTypes, HandIsFree DEF OutcomeInv, TrackedInv
  <1>2. answer'[Scheduler] \in {"none", "error"}
    BY <1>1, CallQueue, SchedulerAssumption
  <1>3. \A k \in 1..Len(inbox'[d]) : inbox'[d][k].from = Scheduler => k = Len(inbox'[d])
    BY <1>1, CallEntries, NothingWaitedFor, SchedulerAssumption
  <1>4. inbox' = inbox \/ Len(inbox'[d]) \in Nat
    BY <1>1, CallQueue, SchedulerAssumption
  <1>5. \A k, m \in 1..Len(inbox'[d]) : inbox'[d][k].from = Scheduler => m <= k
    <2>1. CASE inbox' = inbox
      BY <1>1, <2>1, NothingWaitedFor
    <2>2. CASE Len(inbox'[d]) \in Nat
      BY <1>3, <2>2
    <2>3. QED
      BY <1>4, <2>1, <2>2
  <1>6. QED
    BY <1>2, <1>5 DEF ActivationIsHeld, Tells, Refusal

LEMMA CallsSettle ==
  ASSUME OutcomeInv, UNCHANGED requestVars,
         (\E i \in Intents : TakeUp(i)) \/ CoreAnswered \/ ActivationRefused
  PROVE  SettlingInv'
  <1>1. TypeOK /\ ActivationIsHeld /\ RowsInHand
    BY OutcomeTypes DEF OutcomeInv, SettlingInv, TrackedInv
  <1>2. ASSUME NEW i \in Intents, TakeUp(i)
        PROVE  SettlingInv'
    <2>1. /\ pc = "pick" /\ pc' = "cn" /\ cur' = i /\ UNCHANGED <<tableVars, job>> /\ i \in InHand
          /\ CallRemoteTool(Scheduler, "cn", Tool(plan'), i) /\ InHand' \subseteq InHand
      BY <1>2 DEF TakeUp, Begin, InHand
    <2>2. Tool(plan') \in Tools /\ "cn" \in Domains /\ "cn" # "ran"
      BY DEF Tool, Tools, Domains
    <2>3. ActivationIsHeld'
      BY <2>1, <2>2, AskedLast
    <2>4. QED
      BY <2>1, <2>2, <2>3, SchedulerCallSettles
  <1>3. CASE CoreAnswered
    <2>1. /\ pc = "cn" /\ answer[Scheduler] # "none" /\ pc' = "ran" /\ cur \in InHand
          /\ CallRemoteTool(Scheduler, "ran", Tool(plan), cur)
          /\ UNCHANGED <<tableVars, job, todo, cur, plan>> /\ cnAnswer' = answer[Scheduler]
          /\ InHand' \subseteq InHand
      BY <1>3 DEF CoreAnswered, InHand
    <2>2. Tool(plan) \in Tools /\ "ran" \in Domains /\ "cn" \in Domains /\ cur \in Intents
      BY <2>1, HandIsFree DEF Tool, Tools, Domains
    <2>3. CASE plan = "apply"
      <3>1. Tells("cn", answer[Scheduler])
        BY <1>1, <2>1, <2>3 DEF ActivationIsHeld
      <3>2. Queued("cn", cur)' => Queued("cn", cur)
        <4>1. inbox'["cn"] = inbox["cn"]
          <5>1. AgentsTypeOK /\ "cn" \in Domains \ {"ran"}
            BY OutcomeTypes DEF Domains
          <5>2. QED
            BY <2>1, <2>2, <5>1, CallQueue, SchedulerAssumption
        <4>2. QED
          BY <2>1, <4>1 DEF Queued
      <3>3. active' = active
        BY <2>1 DEF CallRemoteTool
      <3>4. Tells("cn", cnAnswer)'
        BY <2>1, <3>1, <3>2, <3>3 DEF Tells, Refusal
      <3>5. ActivationIsHeld'
        BY <2>1, <2>2, <3>4, AskedLast
      <3>6. QED
        BY <2>1, <2>2, <3>5, SchedulerCallSettles
    <2>4. CASE plan # "apply"
      <3>1. ActivationIsHeld'
        BY <2>1, <2>4 DEF ActivationIsHeld
      <3>2. QED
        BY <2>1, <2>2, <3>1, SchedulerCallSettles
    <2>5. QED
      BY <2>3, <2>4
  <1>4. CASE ActivationRefused
    <2>1. /\ pc = "ran" /\ plan' = "rollback" /\ cur' = cur /\ cur \in InHand
          /\ CallRemoteTool(Scheduler, "cn", Tool("rollback"), cur)
          /\ UNCHANGED <<tableVars, job, todo>> /\ InHand' \subseteq InHand
      BY <1>4 DEF ActivationRefused, BothAnswered, Begin, InHand
    <2>2. Tool("rollback") \in Tools /\ "cn" \in Domains
      BY DEF Tool, Tools, Domains
    <2>3. ActivationIsHeld'
      BY <2>1 DEF ActivationIsHeld
    <2>4. QED
      BY <2>1, <2>2, <2>3, SchedulerCallSettles
  <1>5. QED
    BY <1>2, <1>3, <1>4

\* The scheduler writes the status of the row it is done with, which is held if
\* it is in force now, and keeps what it still has to take up.
LEMMA QuietSettles ==
  ASSUME OutcomeInv, UNCHANGED <<active, inbox, answer, window, requestVars>>,
         pc' \notin {"cn", "ran"}, LeftoversFailed',
         NEW i, ~BeingHandled(i),
         \A j \in Intents : j # i => status'[j] = status[j],
         i \in Intents /\ status'[i] # status[i] =>
           /\ status'[i] \notin {"absent", "scheduled"}
           /\ status'[i] \in InForce => \A d \in Domains : active[d][i] /\ ~Queued(d, i)
  PROVE  SettlingInv'
  <1>1. /\ OneHandler /\ RequestsWait /\ InForceIsHeld
        /\ \A q \in Requests : TraceOK(q) /\ StatusFitsTrace(q) /\ CalledIsHeld(q)
        /\ UNCHANGED <<at, mine, ask, called, worst>>
    BY DEF OutcomeInv, SettlingInv, requestVars
  <1>2. \A j \in Intents : BeingHandled(j)' <=> BeingHandled(j)
    BY <1>1 DEF BeingHandled
  <1>3. \A e \in Domains, j \in Intents : Queued(e, j)' <=> Queued(e, j)
    BY DEF Queued
  <1>4. OneHandler' /\ InForceIsHeld'
    <2>1. OneHandler'
      BY <1>1, <1>2, <1>3 DEF OneHandler
    <2>2. InForceIsHeld'
      BY <1>1, <1>2, <1>3 DEF InForceIsHeld
    <2>3. QED
      BY <2>1, <2>2
  <1>5. RequestsWait' /\ ActivationIsHeld'
    BY <1>1 DEF RequestsWait, WaitsAt, ActivationIsHeld
  <1>6. \A q \in Requests : mine[q] # NoIntent => status'[mine[q]] = status[mine[q]]
    BY OutcomeTypes DEF BeingHandled
  <1>7. \A q \in Requests : TraceOK(q)' /\ StatusFitsTrace(q)' /\ CalledIsHeld(q)'
    <2>1. TAKE q \in Requests
    <2>2. InferStatus(q)' = InferStatus(q) /\ (Failing(q)' <=> Failing(q))
      BY <1>1 DEF InferStatus, Failing
    <2>3. QED
      BY <1>1, <1>6, <2>2 DEF TraceOK, StatusFitsTrace, CalledIsHeld
  <1>8. QED
    BY <1>4, <1>5, <1>7 DEF SettlingInv

\* It is done with a row, or with the job.
LEMMA LeavesLeftovers ==
  ASSUME OutcomeInv, NextJob \/ Back, \A i \in todo : status'[i] = status[i]
  PROVE  LeftoversFailed' /\ pc' \notin {"cn", "ran"}
  <1>1. pc' \notin {"cn", "ran"} /\ todo' \subseteq todo /\ (todo' # {} => job' = job)
    BY DEF Back, NextJob
  <1>2. QED
    BY <1>1 DEF LeftoversFailed, InHand, OutcomeInv, SettlingInv

\* A step of the scheduler that writes no status.
LEMMA UnmarkedSettles ==
  ASSUME OutcomeInv, UNCHANGED <<active, inbox, answer, tableVars, requestVars>>,
         pc' \notin {"cn", "ran"}, LeftoversFailed'
  PROVE  SettlingInv'
  <1>1. UNCHANGED <<status, window>>
    BY DEF tableVars
  <1>2. PICK i : i \notin Intents \cup {NoIntent}
    BY NoSetContainsEverything
  <1>3. ~BeingHandled(i)
    BY <1>2, OutcomeTypes DEF BeingHandled
  <1>4. QED
    BY <1>1, <1>2, <1>3, QuietSettles

LEMMA MarkSettles ==
  ASSUME OutcomeInv, UNCHANGED requestVars,
         Activated \/ RolledBack \/ Expired \/ Reverted
  PROVE  SettlingInv'
  <1>1. TypeOK /\ RowsInHand /\ ClosedIsLeft /\ ActivationIsHeld
    BY OutcomeTypes DEF OutcomeInv, TrackedInv, SettlingInv
  <1>2. /\ Back /\ pc = "ran" /\ plan \in {"apply", "rollback", "expire", "revert"}
        /\ answer[Scheduler] # "none" /\ UNCHANGED <<active, inbox, answer, window>>
        /\ \E s \in {"applied", "degraded", "failed", "reverted"} : MarkStatus(s)
        /\ \A s \in {"applied", "degraded"} : MarkStatus(s) =>
             Activated \/ status'[cur] \in {"failed", "reverted"}
    BY <1>1 DEF Activated, RolledBack, Expired, Reverted, BothAnswered, Back, agentVars, MarkStatus,
                TypeOK
  <1>3. cur \in Intents /\ ~BeingHandled(cur) /\ cur \notin todo /\ cur # NoIntent
    BY <1>1, <1>2, ActivationIsAlone, RevertedIsAlone, NoIntentAssumption DEF RowsInHand
  <1>4. /\ \A j \in Intents : j # cur => status'[j] = status[j]
        /\ status'[cur] \in {"applied", "degraded", "failed", "reverted"}
    BY <1>1, <1>2, <1>3 DEF MarkStatus, TypeOK
  <1>5. ASSUME status'[cur] \in InForce
        PROVE  \A d \in Domains : active[d][cur] /\ ~Queued(d, cur)
    <2>1. Activated
      BY <1>2, <1>5 DEF InForce, MarkStatus
    <2>2. /\ plan = "apply" /\ ~Refusal(answer[Scheduler]) /\ ~Refusal(cnAnswer)
      BY <2>1 DEF Activated, BothAnswered, DomainAnswers, Refusal
    <2>3. QED
      BY <1>1, <1>2, <2>2 DEF ActivationIsHeld, Tells, Domains
  <1>6. LeftoversFailed' /\ pc' \notin {"cn", "ran"}
    <2>1. \A j \in todo : status'[j] = status[j]
      BY <1>1, <1>3, <1>4 DEF TypeOK
    <2>2. QED
      BY <1>2, <2>1, LeavesLeftovers
  <1>7. QED
    BY <1>2, <1>3, <1>4, <1>5, <1>6, QuietSettles

LEMMA ClockSettles ==
  ASSUME Settling, OutcomeInv, RequestClock, UNCHANGED requestVars
  PROVE  SettlingInv'
  <1>1. PICK i \in Intents : /\ WindowOpens(i) \/ WindowCloses(i)
                             /\ BeingHandled(i) => "slow" \in Habits
    BY DEF RequestClock
  <1>2. /\ ~BeingHandled(i) /\ \A j \in Intents \ {i} : window'[j] = window[j]
        /\ window[i] # "closed" /\ UNCHANGED <<active, inbox, answer, status, schedulerVars>>
    BY <1>1, OutcomeTypes DEF Settling, WindowOpens, WindowCloses, TypeOK, agentVars
  <1>3. /\ OneHandler /\ LeftoversFailed /\ RequestsWait /\ ActivationIsHeld /\ InForceIsHeld
        /\ \A q \in Requests : TraceOK(q) /\ StatusFitsTrace(q) /\ CalledIsHeld(q)
        /\ UNCHANGED <<at, mine, ask, called, worst>>
    BY DEF OutcomeInv, SettlingInv, requestVars
  <1>4. \A j \in Intents : BeingHandled(j)' <=> BeingHandled(j)
    BY <1>3 DEF BeingHandled
  <1>5. \A e \in Domains, j \in Intents : Queued(e, j)' <=> Queued(e, j)
    BY <1>2 DEF Queued
  <1>6. OneHandler' /\ InForceIsHeld'
    <2>1. OneHandler'
      BY <1>2, <1>3, <1>4, <1>5 DEF OneHandler
    <2>2. InForceIsHeld'
      BY <1>2, <1>3, <1>4, <1>5 DEF InForceIsHeld
    <2>3. QED
      BY <2>1, <2>2
  <1>7. LeftoversFailed' /\ RequestsWait' /\ ActivationIsHeld'
    BY <1>2, <1>3, QuietActivation
       DEF LeftoversFailed, InHand, schedulerVars, RequestsWait, WaitsAt
  <1>8. \A q \in Requests : TraceOK(q)' /\ StatusFitsTrace(q)' /\ CalledIsHeld(q)'
    BY <1>2, <1>3 DEF TraceOK, StatusFitsTrace, CalledIsHeld, InferStatus, Failing
  <1>9. QED
    BY <1>6, <1>7, <1>8 DEF SettlingInv

LEMMA SchedulerSettles ==
  ASSUME Settling, OutcomeInv, SchedulerNext
  PROVE  SettlingInv'
  <1>1. UNCHANGED requestVars
    BY DEF SchedulerNext
  <1>2. CASE Poll
    <2>1. LeftoversFailed' /\ pc' \notin {"cn", "ran"}
      <3>1. CASE Due(job) = {}
        BY <1>2, <3>1, LeavesLeftovers DEF Poll, tableVars
      <3>2. CASE Due(job) # {}
        <4>1. todo' = Due(job) /\ pc' = "pick" /\ UNCHANGED <<tableVars, job>>
          BY <1>2, <3>2 DEF Poll
        <4>2. job = "cleanup" => \A i \in Due(job) : status[i] = "failed"
          BY DEF Due, FailedWithLeftovers
        <4>3. QED
          BY <4>1, <4>2 DEF LeftoversFailed, InHand, tableVars
      <3>3. QED
        BY <3>1, <3>2
    <2>2. QED
      BY <1>1, <1>2, <2>1, UnmarkedSettles DEF Poll, agentVars
  <1>3. CASE ActivationIncomplete \/ LeftForNextPoll
    <2>1. Back /\ UNCHANGED tableVars /\ UNCHANGED <<active, inbox, answer>>
      BY <1>3 DEF ActivationIncomplete, LeftForNextPoll, Back, agentVars
    <2>2. LeftoversFailed' /\ pc' \notin {"cn", "ran"}
      BY <2>1, LeavesLeftovers DEF tableVars
    <2>3. QED
      BY <1>1, <2>1, <2>2, UnmarkedSettles
  <1>4. CASE PollError
    <2>1. NextJob /\ UNCHANGED tableVars /\ UNCHANGED <<active, inbox, answer>>
      BY <1>4 DEF PollError
    <2>2. LeftoversFailed' /\ pc' \notin {"cn", "ran"}
      BY <2>1, LeavesLeftovers DEF tableVars
    <2>3. QED
      BY <1>1, <2>1, <2>2, UnmarkedSettles
  <1>5. QED
    BY <1>1, <1>2, <1>3, <1>4, CallsSettle, MarkSettles, AgentsSettle, ClockSettles
       DEF SchedulerNext, Loop, ActivateOne, RevertOne

-----------------------------------------------------------------------------
(***************************************************************************)
(* The inductive invariant and what follows from it.                       *)
(***************************************************************************)

LEMMA OutcomeInit == OrchestratorInit => OutcomeInv
  <1> SUFFICES ASSUME OrchestratorInit
               PROVE  OutcomeInv
    OBVIOUS
  <1>1. TrackedInv
    BY TrackedInit
  <1>2. \A d \in Domains : Len(inbox[d]) = 0
    BY DEF OrchestratorInit, AgentsInit
  <1>3. \A d \in Domains, i \in Intents : ~Queued(d, i)
    BY <1>2 DEF Queued
  <1>4. /\ \A r \in Requests : mine[r] = NoIntent /\ ask[r] = NoAsk /\ at[r] = "idle"
                               /\ called[r] = {} /\ worst[r] = "applied"
        /\ \A i \in Intents : status[i] = "absent"
        /\ pc = "poll" /\ job = "activation"
    BY DEF OrchestratorInit, SchedulerInit
  <1>5. OneHandler /\ LeftoversFailed /\ RequestsWait /\ ActivationIsHeld /\ InForceIsHeld
    BY <1>2, <1>3, <1>4
       DEF OneHandler, LeftoversFailed, RequestsWait, ActivationIsHeld, InForceIsHeld, InForce
  <1>6. \A r \in Requests : TraceOK(r) /\ StatusFitsTrace(r) /\ CalledIsHeld(r)
    BY <1>4 DEF TraceOK, StatusFitsTrace, CalledIsHeld
  <1>7. QED
    BY <1>1, <1>5, <1>6 DEF OutcomeInv, SettlingInv

LEMMA OutcomeStep ==
  ASSUME Settling, OutcomeInv, [OrchestratorNext]_allVars
  PROVE  OutcomeInv'
  <1>1. TrackedInv'
    BY SettlingIsUndisturbed, TrackedStep DEF OutcomeInv
  <1>2. CASE RequestNext
    BY <1>1, <1>2, RequestsSettle DEF OutcomeInv
  <1>3. CASE SchedulerNext
    BY <1>1, <1>3, SchedulerSettles DEF OutcomeInv
  <1>4. ~ProcessRestart
    BY DEF ProcessRestart, Settling
  <1>5. CASE UNCHANGED allVars
    <2>1. /\ UNCHANGED <<active, inbox, answer, status, window, schedulerVars>>
          /\ UNCHANGED <<at, mine, ask, called, worst>>
      BY <1>5 DEF allVars, vars, agentVars, tableVars, requestVars
    <2>2. ActivationIsHeld'
      BY <2>1, QuietActivation DEF OutcomeInv, SettlingInv
    <2>3. OneHandler' /\ InForceIsHeld' /\ LeftoversFailed' /\ RequestsWait'
      BY <2>1 DEF OutcomeInv, SettlingInv, OneHandler, InForceIsHeld, BeingHandled, Queued,
                  LeftoversFailed, InHand, schedulerVars, RequestsWait, WaitsAt
    <2>4. \A r \in Requests : TraceOK(r)' /\ StatusFitsTrace(r)' /\ CalledIsHeld(r)'
      BY <2>1 DEF OutcomeInv, SettlingInv, TraceOK, StatusFitsTrace, CalledIsHeld, InferStatus,
                  Failing
    <2>5. QED
      BY <1>1, <2>2, <2>3, <2>4 DEF OutcomeInv, SettlingInv
  <1>6. QED
    BY <1>2, <1>3, <1>4, <1>5 DEF OrchestratorNext

\* One hand at a time works on an intent, and knows how things stand.
THEOREM OutcomeInvariance ==
  ASSUME Settling
  PROVE  OrchestratorSpec => []OutcomeInv
  <1>1. OutcomeInv /\ [OrchestratorNext]_allVars => OutcomeInv'
    BY OutcomeStep
  <1>2. QED
    BY <1>1, OutcomeInit, PTL DEF OrchestratorSpec

\* What is recorded in force is held by both domains once no request works on
\* it, whatever was lost, timed out or refused on the way, for models that
\* report early, repeat themselves or call for a scheduled intent (README,
\* "Status final"; _settle, _activate_one, _revert_one).
THEOREM OutcomesAreTrue ==
  ASSUME Settling
  PROVE  OrchestratorSpec => []OutcomeIsTrue
  <1>1. OutcomeInv => OutcomeIsTrue
    BY DEF OutcomeInv, SettlingInv, InForceIsHeld, OutcomeIsTrue
  <1>2. QED
    BY <1>1, OutcomeInvariance, PTL

\* No intent that nobody works on keeps one domain alone (README, "Status
\* final"): a failed settling reverts both, and a row the table says nothing
\* of is not there.
THEOREM BothDomainsOrNeither ==
  ASSUME Settling
  PROVE  OrchestratorSpec => []BothOrNeither
  <1>1. OutcomeInv => BothOrNeither
    <2> SUFFICES ASSUME OutcomeInv, NEW i \in Intents,
                        ~BeingHandled(i), status[i] \notin {"scheduled", "failed"},
                        window[i] # "closed"
                 PROVE  active["cn"][i] = active["ran"][i]
      BY DEF BothOrNeither
    <2>1. active["cn"][i] \in BOOLEAN /\ active["ran"][i] \in BOOLEAN
      BY OutcomeTypes DEF AgentsTypeOK, Domains
    <2>2. CASE status[i] \in InForce
      BY <2>1, <2>2 DEF OutcomeInv, SettlingInv, InForceIsHeld, Domains
    <2>3. CASE status[i] \notin InForce
      <3>1. \A d \in Domains : ~active[d][i]
        BY <2>3 DEF OutcomeInv, TrackedInv, TrackedOrHandled, HeldOrAsked, Tracked, BeingHandled
      <3>2. QED
        BY <2>1, <3>1 DEF Domains
    <2>4. QED
      BY <2>2, <2>3
  <1>2. QED
    BY <1>1, OutcomeInvariance, PTL

\* Only directives fail a standing guarantee (README, "Status final"): a
\* request that called no domain finds its intent not in force, and leaves the
\* scheduler's alone.
THEOREM OnlyDirectivesFail ==
  ASSUME Settling
  PROVE  OrchestratorSpec => FailedOnlyByADirective
  <1> DEFINE ByADirective ==
               \A i \in Intents :
                 /\ status[i] \in InForce /\ \A d \in Domains : active[d][i]
                 /\ status'[i] = "failed"
                 => \E r \in Requests : mine[r] = i /\ called[r] # {}
  <1>1. ASSUME OutcomeInv, [OrchestratorNext]_allVars
        PROVE  ByADirective
    <2> SUFFICES ASSUME NEW i \in Intents, status[i] \in InForce, status'[i] = "failed"
                 PROVE  \E r \in Requests : mine[r] = i /\ called[r] # {}
      OBVIOUS
    <2>1. status'[i] # status[i]
      BY DEF InForce
    <2>2. TypeOK /\ \A r \in Requests : StatusFitsTrace(r)
      BY <1>1, OutcomeTypes DEF OutcomeInv, SettlingInv
    <2>3. CASE RequestNext
      <3>1. PICK r \in Requests :
              \/ UNCHANGED status
              \/ \E s \in Statuses : mine[r] # NoIntent /\ UpdateIntentStatus(mine[r], s)
              \/ \E j \in Intents, w \in Windows : RecordIntent(r, j, w)
        <4>1. \A r \in Requests : InferStatus(r) \in Statuses
          BY <1>1, OutcomeTypes, InferredStatus DEF Statuses
        <4>2. ModelStatuses \cup {"failed"} \subseteq Statuses
          BY DEF ModelStatuses, Statuses
        <4>3. \A r \in Requests : at[r] \in {"net", "settle", "revertRan"} => mine[r] # NoIntent
          BY <1>1, OutcomeTypes DEF OrchestratorTypeOK
        <4>4. \A r \in Requests : ~EventEnds(r)
          BY <1>1 DEF EventEnds, OutcomeInv, SettlingInv, TraceOK
        <4>5. QED
          BY <2>3, <4>1, <4>2, <4>3, <4>4
             DEF RequestNext, ReceiveIntent, ReceiveEvent, ReuseIntent, CallDomainTool,
                 ToolAnswered, ModelUpdatesStatus, LoopEnds, RequestDies, SafetyNet, SkipSettle,
                 Settle, SettleFailed, SettleCnReverted, SettleRanReverted, vars, tableVars
      <3>2. ~\E j \in Intents, w \in Windows : RecordIntent(r, j, w)
        BY <2>1, <2>2 DEF RecordIntent, TypeOK, InForce
      <3>3. mine[r] # NoIntent /\ \E s \in Statuses : UpdateIntentStatus(mine[r], s)
        BY <2>1, <3>1, <3>2
      <3>4. mine[r] = i
        BY <1>1, <2>1, <3>3, OutcomeTypes, StatusAfter
      <3>5. QED
        BY <2>2, <3>3, <3>4 DEF StatusFitsTrace
    <2>4. CASE SchedulerNext
      <3>1. UNCHANGED status \/ Activated \/ RolledBack \/ Expired \/ Reverted
        BY <2>4 DEF SchedulerNext, Loop, ActivateOne, RevertOne, Poll, TakeUp, CoreAnswered,
                    ActivationIncomplete, ActivationRefused, LeftForNextPoll, Agents,
                    RequestClock, WindowOpens, WindowCloses, PollError, tableVars
      <3>2. ~UNCHANGED status /\ ~Activated /\ ~Reverted
        BY <2>1, <2>2 DEF Activated, Reverted, MarkStatus, TypeOK
      <3>3. pc \in {"cn", "ran"} /\ plan \in {"rollback", "expire"} /\ MarkStatus("failed")
        BY <3>1, <3>2 DEF RolledBack, Expired, BothAnswered
      <3>4. status[cur] = "scheduled" /\ cur \in Intents
        BY <1>1, <3>3, ActivationIsAlone
      <3>5. i = cur
        BY <2>1, <2>2, <3>3, <3>4 DEF MarkStatus, TypeOK
      <3>6. QED
        BY <3>4, <3>5 DEF InForce
    <2>5. ~ProcessRestart
      BY DEF ProcessRestart, Settling
    <2>6. CASE UNCHANGED allVars
      BY <2>1, <2>6 DEF allVars, vars, tableVars
    <2>7. QED
      BY <1>1, <2>3, <2>4, <2>5, <2>6 DEF OrchestratorNext
  <1>2. QED
    BY <1>1, OutcomeInvariance, PTL DEF OrchestratorSpec, FailedOnlyByADirective
=============================================================================
