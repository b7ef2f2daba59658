------------------------- MODULE WindowSchedulerInv -------------------------
(***************************************************************************)
(* The inductive invariant behind the safety of the window scheduler. The  *)
(* argument is about the agents' queues: the scheduler is the only caller, *)
(* so what it waits for is the last directive of its queue, and an answer  *)
(* with a status means that the queue is empty, the leftovers of earlier   *)
(* attempts included.                                                      *)
(***************************************************************************)
EXTENDS WindowScheduler

\* The intents an agent may still be told to apply, or to revert.
CanApply(i) == status[i] = "scheduled" /\ window[i] # "before"
CanRevert(i) ==
  \/ CanApply(i)
  \/ status[i] \in InForce /\ window[i] = "closed"
  \/ status[i] \in {"failed", "reverted"}

Allowed(r) == IF r.tool = "apply" THEN CanApply(r.intent) ELSE CanRevert(r.intent)

QueuesOK == \A d \in Domains : \A k \in 1..Len(inbox[d]) : Allowed(inbox[d][k])

\* What the tables hold for an intent in each state.
RowsOK ==
  \A i \in Intents, d \in Domains :
    /\ status[i] = "scheduled" /\ window[i] = "before" => ~active[d][i]
    /\ status[i] \in InForce /\ window[i] # "closed" => active[d][i]
    /\ status[i] = "reverted" => ~active[d][i]

\* The one directive somebody waits for is the scheduler's current call, at
\* the end of the queue of the domain it is calling.
CallsOK ==
  \A d \in Domains : \A k \in 1..Len(inbox[d]) :
    inbox[d][k].from \in Callers =>
      /\ inbox[d][k].from = Scheduler /\ k = Len(inbox[d])
      /\ pc = d /\ answer[Scheduler] = "none"
      /\ inbox[d][k].tool = Tool(plan) /\ inbox[d][k].intent = cur

\* An answer with a status empties the queue and tells what the row is.
Settled(d, a) ==
  /\ a \in {"error"} \cup IF Tool(plan) = "apply" THEN {"applied", "degraded", "failed"}
                          ELSE {"reverted", "noop", "failed"}
  /\ a # "error" => inbox[d] = <<>>
  /\ a \in {"applied", "degraded"} => active[d][cur]
  /\ a \in {"reverted", "noop"} => ~active[d][cur]

AnswersOK ==
  /\ pc \in {"cn", "ran"} /\ answer[Scheduler] # "none" => Settled(pc, answer[Scheduler])
  /\ pc = "ran" => Settled("cn", cnAnswer)

\* The row a job works on is still in the state the job's query asked for,
\* and so are those it has not taken up.
Fits(j, i) ==
  CASE j = "activation" -> CanApply(i)
    [] j = "reversion" -> status[i] \in InForce /\ window[i] = "closed"
    [] j = "cleanup" -> status[i] = "failed"

JobOf(p) == CASE p = "revert" -> "reversion" [] p = "cleanup" -> "cleanup"
              [] OTHER -> "activation"

CurrentOK ==
  /\ pc = "poll" => todo = {}
  /\ \A i \in todo : Fits(job, i)
  /\ pc \in {"cn", "ran"} => cur \notin todo /\ job = JobOf(plan) /\ Fits(job, cur)

\* A rollback starts with both queues empty and only adds reverts.
RollbackOK ==
  plan = "rollback" /\ pc \in {"cn", "ran"} =>
    \A d \in Domains : \A k \in 1..Len(inbox[d]) : inbox[d][k].tool = "revert"

IInv ==
  /\ TypeOK
  /\ QueuesOK
  /\ RowsOK
  /\ CallsOK
  /\ AnswersOK
  /\ CurrentOK
  /\ RollbackOK
=============================================================================
