------------------------ MODULE ScheduledGuarantee --------------------------
(***************************************************************************)
(* What the operator is promised about an intent with a window: nothing is *)
(* configured before the window opens, the guarantee is reported in force  *)
(* only while both domains hold it, it is held until the window closes,    *)
(* and in the end nothing of it is left. No threads, calls or faults: the  *)
(* window scheduler is one way to keep this promise.                       *)
(***************************************************************************)
CONSTANTS
  Intents,
  Domains

VARIABLES
  window,      \* window[i]: "none", "before", "open" or "closed"
  status,      \* status[i]: the lifecycle state of the intent
  held         \* held[i]: the domains in which the guarantee is configured

vars == <<window, status, held>>

InForce == {"applied", "degraded"}

Init ==
  /\ window \in [Intents -> {"none", "before", "open"}]
  /\ status \in [Intents -> {"scheduled", "applied", "degraded", "failed"}]
  /\ held \in [Intents -> SUBSET Domains]
  /\ \A i \in Intents :
       /\ (status[i] = "scheduled") <=> (window[i] = "before")
       /\ status[i] = "scheduled" => held[i] = {}
       /\ status[i] \in InForce => held[i] = Domains

\* Time passes; a window without an end never closes.
Open(i) ==
  /\ window[i] = "before"
  /\ window' = [window EXCEPT ![i] = "open"]
  /\ UNCHANGED <<status, held>>

Close(i) ==
  /\ window[i] = "open"
  /\ window' = [window EXCEPT ![i] = "closed"]
  /\ UNCHANGED <<status, held>>

\* A domain is configured for a due intent whose outcome is still open.
Configure(i, d) ==
  /\ status[i] = "scheduled" /\ window[i] # "before"
  /\ held' = [held EXCEPT ![i] = @ \cup {d}]
  /\ UNCHANGED <<window, status>>

\* A domain lets go of the intent: rolling it back, cleaning up after a
\* failure, or because its window is over. Never of a guarantee in force.
Release(i, d) ==
  /\ \/ status[i] = "scheduled" /\ window[i] # "before"
     \/ status[i] \in InForce /\ window[i] = "closed"
     \/ status[i] = "failed"
  /\ held' = [held EXCEPT ![i] = @ \ {d}]
  /\ UNCHANGED <<window, status>>

\* The outcome of the activation, reported only with both domains held.
TakeEffect(i, outcome) ==
  /\ status[i] = "scheduled" /\ window[i] # "before"
  /\ held[i] = Domains
  /\ status' = [status EXCEPT ![i] = outcome]
  /\ UNCHANGED <<window, held>>

Fail(i) ==
  /\ status[i] = "scheduled" /\ window[i] # "before"
  /\ status' = [status EXCEPT ![i] = "failed"]
  /\ UNCHANGED <<window, held>>

Finish(i) ==
  /\ status[i] \in InForce /\ window[i] = "closed"
  /\ held[i] = {}
  /\ status' = [status EXCEPT ![i] = "reverted"]
  /\ UNCHANGED <<window, held>>

Next ==
  \E i \in Intents :
    \/ Open(i) \/ Close(i)
    \/ \E d \in Domains : Configure(i, d) \/ Release(i, d)
    \/ \E outcome \in InForce : TakeEffect(i, outcome)
    \/ Fail(i)
    \/ Finish(i)

Spec == Init /\ [][Next]_vars
=============================================================================
