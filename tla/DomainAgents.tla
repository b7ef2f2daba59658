---------------------------- MODULE DomainAgents ----------------------------
(***************************************************************************)
(* The two domain agents, CN-NSSMF and RAN-NSSMF, as their callers see     *)
(* them over MCP: a directive goes in, a structured status comes out, and  *)
(* the agent's table (policies, ran_allocations) may change in between.    *)
(*                                                                         *)
(* The MCP tools are plain (not async) Python functions, which FastMCP     *)
(* runs on the server's event loop: an agent serves one directive at a     *)
(* time, in the order they arrived, and a directive whose caller stopped   *)
(* waiting is still carried out when its turn comes.                       *)
(*                                                                         *)
(* What a domain agent's own LLM does inside a directive is abstracted to  *)
(* the outcomes the agent's code can report for it.                        *)
(***************************************************************************)
EXTENDS Directives

CONSTANTS
  Intents,     \* ids of the rows of the intents table
  Callers,     \* threads of the orchestrator that call the agents
  NoCaller,    \* the caller of a directive nobody waits for any more
  MaxFaults    \* bound on faults: lost calls, timeouts, restarts, errors

ASSUME CallersAssumption == NoCaller \notin Callers
ASSUME MaxFaultsAssumption == MaxFaults \in Nat

VARIABLES
  active,      \* active[d][i]: intent i has a row with status 'active' in d
  inbox,       \* inbox[d]: directives agent d has received and not finished
  answer,      \* answer[t]: what the last call of thread t came back with
  faults       \* faults so far

agentVars == <<active, inbox, answer, faults>>

Request == [from : Callers \cup {NoCaller}, tool : Tools, intent : Intents]

AgentsTypeOK ==
  /\ active \in [Domains -> [Intents -> BOOLEAN]]
  /\ inbox \in [Domains -> Seq(Request)]
  /\ answer \in [Callers -> Answers \cup {"none"}]
  /\ faults \in 0..MaxFaults

AgentsInit ==
  /\ inbox = [d \in Domains |-> <<>>]
  /\ answer = [t \in Callers |-> "none"]
  /\ faults = 0

Fault == faults < MaxFaults /\ faults' = faults + 1

-----------------------------------------------------------------------------
\* Agent d finishes the directive at the head of its inbox.
Serve(d) ==
  /\ inbox[d] # <<>>
  /\ LET r == Head(inbox[d]) IN
     \E out \in Outcomes(d, r.tool, active[d][r.intent]) :
       /\ IF IsFault(r.tool, out.status) THEN Fault ELSE UNCHANGED faults
       /\ active' = [active EXCEPT ![d][r.intent] = out.row]
       /\ answer' = IF r.from \in Callers
                      THEN [answer EXCEPT ![r.from] = out.status] ELSE answer
  /\ inbox' = [inbox EXCEPT ![d] = Tail(@)]

-----------------------------------------------------------------------------
\* The callers' side.

\* The directives of q that threads T wait for are left without a caller.
Orphaned(q, T) ==
  [k \in 1..Len(q) |-> IF q[k].from \in T THEN [q[k] EXCEPT !.from = NoCaller] ELSE q[k]]

\* Thread t calls a tool of agent d: the agent gets it, or is unreachable.
CallRemoteTool(t, d, tool, i) ==
  /\ \/ /\ inbox' = [inbox EXCEPT ![d] =
                       Append(@, [from |-> t, tool |-> tool, intent |-> i])]
        /\ answer' = [answer EXCEPT ![t] = "none"]
        /\ UNCHANGED faults
     \/ /\ Fault
        /\ answer' = [answer EXCEPT ![t] = "error"]
        /\ UNCHANGED inbox
  /\ UNCHANGED active

\* Thread t waits for agent d no longer (the client's read timeout, a broken
\* connection). The agent does not notice.
GiveUp(t, d) ==
  /\ \E k \in 1..Len(inbox[d]) : inbox[d][k].from = t
  /\ Fault
  /\ inbox' = [inbox EXCEPT ![d] = Orphaned(@, {t})]
  /\ answer' = [answer EXCEPT ![t] = "error"]
  /\ UNCHANGED active

\* Agent d restarts and loses what it had not started; its callers see the
\* connection break. The table is in PostgreSQL and survives.
AgentRestart(d) ==
  /\ inbox[d] # <<>>
  /\ Fault
  /\ answer' = [t \in Callers |->
                  IF \E k \in 1..Len(inbox[d]) : inbox[d][k].from = t
                    THEN "error" ELSE answer[t]]
  /\ inbox' = [inbox EXCEPT ![d] = <<>>]
  /\ UNCHANGED active

AgentsNext ==
  \E d \in Domains :
    \/ Serve(d)
    \/ AgentRestart(d)
    \/ \E t \in Callers : GiveUp(t, d)
=============================================================================
