----------------------------- MODULE Directives -----------------------------
(***************************************************************************)
(* The directives of the orchestrator to a domain agent and what each of   *)
(* them may report: the vocabulary shared by the callers (DomainAgents), by*)
(* the contract of an agent (DomainContract) and by the two agents.        *)
(***************************************************************************)
EXTENDS Naturals, Sequences

Domains == {"cn", "ran"}
Tools == {"apply", "revert"}

\* "none" while a call is in progress; "error" is a reply without a status:
\* a transport error, a timeout, or a tool that raised.
Answers == {"applied", "degraded", "failed", "reverted", "noop", "error"}

-----------------------------------------------------------------------------
\* What a directive may report, and the row of its intent afterwards.

\* The last configure_qos (allocate_prb) decides: a directive that reports
\* failure may have persisted an earlier call of the same loop, and keeps a
\* row that was there before. Only the RAN grants less than was asked.
ApplyOutcomes(d, had) ==
  [status : {"applied"} \cup (IF d = "ran" THEN {"degraded"} ELSE {}), row : {TRUE}]
    \cup [status : {"failed", "error"}, row : {had, TRUE}]

\* Reverting restores the enforcement point first and keeps the row when that
\* fails; an error may also come after the row was released.
RevertOutcomes(had) ==
  IF had
    THEN [status : {"reverted"}, row : {FALSE}]
           \cup [status : {"failed"}, row : {TRUE}]
           \cup [status : {"error"}, row : {TRUE, FALSE}]
    ELSE [status : {"noop", "error"}, row : {FALSE}]

Outcomes(d, tool, had) ==
  IF tool = "apply" THEN ApplyOutcomes(d, had) ELSE RevertOutcomes(had)

\* Outcomes that make the caller try again are counted as faults.
IsFault(tool, status) ==
  status = "error" \/ (tool = "revert" /\ status = "failed")
=============================================================================
