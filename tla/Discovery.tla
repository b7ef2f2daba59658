----------------------------- MODULE Discovery ------------------------------
(***************************************************************************)
(* How the orchestrator learns the tools of the domain agents: lazily, in  *)
(* whichever threads (requests, events) ask for the schemas while an agent *)
(* is missing. Each thread works on a copy of the routing table and        *)
(* publishes it at the end; the record of the agents already asked is      *)
(* shared and written at once.                                             *)
(***************************************************************************)
EXTENDS Naturals, Sequences, SequencesExt

CONSTANTS
  Threads,   \* requests and events served at once
  Agents     \* the domain agents, in the order they are asked

VARIABLES
  routed,      \* _remote_routing: agents whose tools have a route
  discovered,  \* _discovered
  copy,        \* each thread's copy of the routes
  next,        \* each thread's place in Agents, 0 outside _discover_remote
  reachable    \* agents that are up

vars == <<routed, discovered, copy, next, reachable>>

Domains == ToSet(Agents)

DiscoveryTypeOK ==
  /\ routed \subseteq Domains
  /\ discovered \subseteq Domains
  /\ copy \in [Threads -> SUBSET Domains]
  /\ next \in [Threads -> 0..Len(Agents) + 1]
  /\ reachable \subseteq Domains

Init ==
  /\ routed = {} /\ discovered = {}
  /\ copy = [t \in Threads |-> {}]
  /\ next = [t \in Threads |-> 0]
  /\ reachable \in SUBSET Domains

Asking(t) == next[t] \in 1..Len(Agents)
Agent(t) == Agents[next[t]]
GoOn(t) == next' = [next EXCEPT ![t] = @ + 1]

\* The schemas are asked for, or a tool without a route is called, while some
\* agent has not answered yet.
BeginDiscovery(t) ==
  /\ next[t] = 0 /\ discovered # Domains
  /\ copy' = [copy EXCEPT ![t] = routed]
  /\ GoOn(t)
  /\ UNCHANGED <<routed, discovered, reachable>>

SkipKnown(t) ==
  /\ Asking(t) /\ Agent(t) \in discovered
  /\ GoOn(t)
  /\ UNCHANGED <<routed, discovered, copy, reachable>>

ListTools(t) ==
  /\ Asking(t) /\ Agent(t) \notin discovered /\ Agent(t) \in reachable
  /\ copy' = [copy EXCEPT ![t] = @ \cup {Agent(t)}]
  /\ discovered' = discovered \cup {Agent(t)}
  /\ GoOn(t)
  /\ UNCHANGED <<routed, reachable>>

\* The agent is still starting up: it is asked again another time.
Pending(t) ==
  /\ Asking(t) /\ Agent(t) \notin discovered /\ Agent(t) \notin reachable
  /\ GoOn(t)
  /\ UNCHANGED <<routed, discovered, copy, reachable>>

Publish(t) ==
  /\ next[t] = Len(Agents) + 1
  /\ routed' = copy[t]
  /\ next' = [next EXCEPT ![t] = 0]
  /\ UNCHANGED <<discovered, copy, reachable>>

AgentStarts(d) ==
  /\ d \notin reachable /\ reachable' = reachable \cup {d}
  /\ UNCHANGED <<routed, discovered, copy, next>>

Next ==
  \/ \E t \in Threads :
       BeginDiscovery(t) \/ SkipKnown(t) \/ ListTools(t) \/ Pending(t) \/ Publish(t)
  \/ \E d \in Domains : AgentStarts(d)

Spec == Init /\ [][Next]_vars

-----------------------------------------------------------------------------
\* Discovery may be repeated at will ("Safe to call repeatedly"): once nobody
\* is in the middle of it, an agent that need not be asked again has its routes.
DiscoveredHasRoutes == (\A t \in Threads : next[t] = 0) => discovered \subseteq routed
=============================================================================
