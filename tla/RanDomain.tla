----------------------------- MODULE RanDomain -----------------------------
(***************************************************************************)
(* The RAN-NSSMF from the inside, next to the gNB slicer: admission against*)
(* the cell's capacity, the push of the whole cell's reservations, which   *)
(* takes a restart of the gNB and may outlast the agent's patience, and the*)
(* table of allocations, written last.                                     *)
(*                                                                         *)
(* The model is external; it acts on the intent of its directive and on    *)
(* that intent's slice, and asks for a throughput of its own choice: this  *)
(* agent does not pin the directive's target. Telemetry is external too.   *)
(***************************************************************************)
EXTENDS Guardrails, DirectiveServer, GnbSlicer

CONSTANTS
  SliceOf,      \* the slice of each intent
  Throughputs,  \* target_thp_mbps the model may give allocate_prb
  MbpsPerPrb,   \* RAN_MBPS_PER_PRB, in the unit of the throughputs
  Usage,        \* PRBs the other slices may be seen to use
  IsReal        \* ENFORCEMENT_MODE=real

ASSUME SliceOfAssumption == SliceOf \in [Intents -> Slices]
ASSUME ThroughputsAssumption == Throughputs \subseteq Int \cup {None, Malformed}
ASSUME RadioAssumption == MbpsPerPrb \in Nat \ {0} /\ Usage \subseteq Nat
ASSUME ModeAssumption == IsReal \in BOOLEAN

VARIABLES
  rows,      \* the active allocation of each intent, or Nothing
  put,       \* the agent's request at the slicer, 0 if none
  reply,     \* what it came back with
  givenUp    \* history: a request was left at the slicer by an agent gone

pushVars == <<put, reply, givenUp>>
ranVars == <<rows, pushVars, slicerVars, serverVars, loopVars>>

AllocateCalls == {[tool |-> "allocate_prb", target |-> t] : t \in Throughputs}
Allocation == [prb : Nat, at : 0..MaxDirectives]
Directive == [tool : AllTools, intent : Intents]
Call == [asked : AllocateCalls, prb : Nat, status : {"applied", "degraded"}]

ASSUME NothingAssumption ==
  Nothing \notin Allocation \cup Directive \cup Call \cup [tool : AllTools, intent : Intents]

RanTypeOK ==
  /\ SlicerTypeOK
  /\ rows \in [Intents -> Allocation \cup {Nothing}]
  /\ put \in PutIds \cup {0}
  /\ reply \in {"none", "ok", "refused"}
  /\ givenUp \in BOOLEAN
  /\ directive \in Directive \cup {Nothing}
  /\ had \in BOOLEAN
  /\ step \in Steps
  /\ call \in Call \cup {Nothing}
  /\ answered \in Statuses
  /\ taken \in 0..MaxDirectives
  /\ faults \in 0..MaxFaults
  /\ seen \subseteq [call : AllocateCalls, result : {"applied", "degraded", "failed"}]
  /\ last \in {"none", "applied", "degraded", "failed"}
  /\ calls \in Nat

Init ==
  /\ rows = [i \in Intents |-> Nothing]
  /\ put = 0 /\ reply = "none" /\ givenUp = FALSE
  /\ SlicerInit /\ ServerInit

HasRow(i) == rows[i] # Nothing
Newest(S) == CHOOSE i \in S : \A j \in S : rows[j].at <= rows[i].at

\* The reservation of slice s if only the allocations of intents S counted:
\* the newest one, older ones of the slice being superseded.
ReservedFor(s, S) ==
  LET own == {i \in S : HasRow(i) /\ SliceOf[i] = s} IN
  IF own = {} THEN Unreserved ELSE rows[Newest(own)].prb

\* The state of the cell, as it is always pushed.
Reservations(S) == [s \in Slices |-> ReservedFor(s, S)]

OtherSlice(s) == 3 - s
ReservedByOthers(s) ==
  LET prb == ReservedFor(OtherSlice(s), Intents) IN IF prb = Unreserved THEN 0 ELSE prb

Receive(tool, i) ==
  /\ Take([tool |-> tool, intent |-> i], HasRow(i))
  /\ UNCHANGED <<rows, pushVars, slicerVars>>

-----------------------------------------------------------------------------
\* The push: a PUT to the slicer, and its answer.

Waiting == put # 0
Sent == Waiting \/ reply # "none"

\* Refused at once (the ratios exceed the cell, the slicer is unreachable),
\* or accepted for its turn. In mock mode nothing is sent.
Send(reservations) ==
  /\ ~Sent
  /\ \/ IsReal /\ reply' = "refused" /\ UNCHANGED <<put, slicerVars>>
     \/ ~IsReal /\ reply' = "ok" /\ UNCHANGED <<put, slicerVars>>
     \/ /\ IsReal /\ FitsCell(Ratios(reservations))
        /\ \E p \in PutIds : Arrive(p, Ratios(reservations)) /\ put' = p
        /\ UNCHANGED reply
  /\ UNCHANGED <<rows, givenUp, serverVars, loopVars>>

\* The agent reads the answer.
Read(r) == reply = r /\ reply' = "none" /\ UNCHANGED <<put, givenUp, slicerVars>>

\* The client's timeout: the request stays with the slicer.
GiveUp ==
  /\ Waiting /\ Fault
  /\ put' = 0 /\ reply' = "refused" /\ givenUp' = TRUE
  /\ UNCHANGED <<rows, slicerVars, directive, had, step, call, answered, taken, loopVars>>

\* The slicer answers request p; nobody may be waiting for it any more.
Reply(p, r) ==
  IF put = p THEN put' = 0 /\ reply' = r ELSE UNCHANGED <<put, reply>>

SlicerStep ==
  /\ \E p \in PutIds :
       \/ AnswerUnchanged(p) /\ Reply(p, "ok") /\ UNCHANGED faults
       \/ BeginRestart(p) /\ UNCHANGED <<put, reply, faults>>
       \/ Restarted(p) /\ Reply(p, "ok") /\ UNCHANGED faults
       \/ RenderFails(p) /\ Reply(p, "refused") /\ Fault
       \/ RestartFails(p) /\ Reply(p, "refused") /\ Fault
  /\ UNCHANGED <<rows, givenUp, directive, had, step, call, answered, taken, loopVars>>

SlicerDies ==
  /\ SlicerRestarts /\ Fault
  /\ IF Waiting THEN put' = 0 /\ reply' = "refused" ELSE UNCHANGED <<put, reply>>
  /\ UNCHANGED <<rows, givenUp, directive, had, step, call, answered, taken, loopVars>>

-----------------------------------------------------------------------------
\* The loop of an apply (or of a read-only directive).

Allowed == IF directive.tool = "apply" THEN {"allocate_prb"} ELSE {}
Rejected(c) ==
  \/ ~InScope(c.tool, Allowed)
  \/ Refused(ValidAllocatePrb([sst |-> SliceOf[Intent], target |-> c.target]))

Answered(c) ==
  /\ AnswerCall(c, TRUE, Rejected(c))
  /\ UNCHANGED <<rows, pushVars, slicerVars>>

\* Mutant: admission looks only at what the other slices use just now.
AvailableUnused(used) == PrbTotal - AtMost(used, PrbTotal)

\* What the other slices leave: they count with what they use or with what
\* they were promised, whichever is more.
Available(used) ==
  PrbTotal - AtMost(Max({used, ReservedByOthers(SliceOf[Intent])}), PrbTotal)

\* Admission: the whole need, or the best effort the cell still has.
AllocatePrb(c, used) ==
  /\ InLoop /\ ~Rejected(c)
  /\ LET needed == CeilDiv(c.target, MbpsPerPrb)
         feasible == needed <= Available(used)
     IN BeginCall([asked |-> c,
                   prb |-> IF feasible THEN needed ELSE Available(used),
                   status |-> IF feasible THEN "applied" ELSE "degraded"])
  /\ UNCHANGED <<rows, pushVars, slicerVars>>

\* Mutants: the push leaves out the other slice; a revert pushes its own
\* allocation as well.
PushedDelta == [s \in Slices |-> IF s = SliceOf[Intent] THEN call.prb ELSE Unreserved]
RemainingOwnToo == Reservations(Intents)

Remaining == Reservations(Intents \ {Intent})
Pushed == [Remaining EXCEPT ![SliceOf[Intent]] = call.prb]

PushAllocation == step = "push" /\ Send(Pushed)

PushAnswered ==
  /\ step = "push"
  /\ \/ Read("ok") /\ Advance("persist")
     \/ Read("refused") /\ BackToLoop("failed") /\ UNCHANGED faults
  /\ UNCHANGED rows

\* Mutants: the row is inserted without its time; it holds the need, and not
\* what was granted.
UpsertWithoutTime == rows' = [rows EXCEPT ![Intent] = [prb |-> call.prb]]
UpsertNeed ==
  rows' = [rows EXCEPT ![Intent] =
    [prb |-> CeilDiv(call.asked.target, MbpsPerPrb),
     at |-> IF @ = Nothing THEN taken ELSE @.at]]

\* One active row per intent: a resize keeps the place of the row.
Upsert ==
  rows' = [rows EXCEPT ![Intent] =
    [prb |-> call.prb, at |-> IF @ = Nothing THEN taken ELSE @.at]]

\* The database may also fail, before or after the row is committed.
Persist ==
  /\ step = "persist"
  /\ \/ Upsert /\ BackToLoop(call.status) /\ UNCHANGED faults
     \/ /\ Upsert \/ UNCHANGED rows
        /\ BackToLoop("failed") /\ Fault
  /\ UNCHANGED <<pushVars, slicerVars>>

-----------------------------------------------------------------------------
\* A revert: the cell without this intent is pushed, then the row is released.

NothingToRevert ==
  /\ step = "restore" /\ ~HasRow(Intent)
  /\ End("noop")
  /\ UNCHANGED <<rows, pushVars, slicerVars, taken, faults>>

PushRemaining == step = "restore" /\ HasRow(Intent) /\ Send(Remaining)

RestoreAnswered ==
  /\ step = "restore"
  /\ \/ Read("ok") /\ Advance("release")
     \/ Read("refused") /\ End("failed") /\ UNCHANGED <<taken, faults>>
  /\ UNCHANGED rows

\* The database may fail, before or after the row is released.
Release ==
  /\ step = "release"
  /\ \/ /\ rows' = [rows EXCEPT ![Intent] = Nothing]
        /\ End("reverted") /\ UNCHANGED faults
     \/ /\ rows' = [rows EXCEPT ![Intent] = Nothing] \/ UNCHANGED rows
        /\ End("error") /\ Fault
  /\ UNCHANGED <<pushVars, slicerVars, taken>>

-----------------------------------------------------------------------------
\* The agent dies with its request, if any, at the slicer.
RanAgentDies ==
  /\ AgentDies
  /\ put' = 0 /\ reply' = "none" /\ givenUp' = (givenUp \/ Waiting)
  /\ UNCHANGED <<rows, slicerVars>>

Carry ==
  \/ \E c \in AllocateCalls : Answered(c) \/ \E used \in Usage : AllocatePrb(c, used)
  \/ PushAllocation \/ PushAnswered \/ Persist
  \/ (FinalAnswer \/ LoopRaises) /\ UNCHANGED <<rows, pushVars, slicerVars>>
  \/ NothingToRevert \/ PushRemaining \/ RestoreAnswered \/ Release

Next ==
  \/ Carry \/ SlicerStep \/ SlicerDies \/ GiveUp \/ RanAgentDies
  \/ \E tool \in AllTools, i \in Intents : Receive(tool, i)

Spec == Init /\ [][Next]_ranVars

\* A directive goes on, and so does a restart: the calls of the agent and the
\* wait for the gNB have timeouts.
FairSpec == Spec /\ WF_ranVars(Carry) /\ WF_ranVars(SlicerStep)

-----------------------------------------------------------------------------
(***************************************************************************)
(* Properties.                                                             *)
(***************************************************************************)

\* To its callers the agent is the one DomainContract describes, whatever
\* happens between it and the slicer.
Held == {i \in Intents : IF ~Idle /\ Intent = i THEN had ELSE HasRow(i)}
Contract == INSTANCE DomainContract WITH
  Domain <- "ran", held <- Held, serving <- Serving, reported <- answered
KeepsTheContract == Contract!Spec

PrbsOf(reserved) == IF reserved = Unreserved THEN 0 ELSE reserved

\* Admission never promises more PRBs than the cell has, with one intent in
\* each slice: the rows add up to the cell at most, after resizes, failures
\* and reverts in any order.
ReservationsFit ==
  PrbsOf(ReservedFor(1, Intents)) + PrbsOf(ReservedFor(2, Intents)) <= PrbTotal

\* What admission grants can be enforced: the slicer does not refuse the
\* ratios of an allocation ("still applies best-effort", apply_resources).
AdmittedIsEnforceable == step = "push" => FitsCell(Ratios(Pushed))

\* What holds of it: the slicer refuses what admission has granted for one
\* percent at most, and never while a hundredth of the cell is left.
AdmittedUpToRounding ==
  step = "push" =>
    LET ratios == Ratios(Pushed) IN
    /\ ratios[1] + ratios[2] <= 101
    /\ 100 * (PrbsOf(Pushed[1]) + PrbsOf(Pushed[2])) <= 99 * PrbTotal => FitsCell(ratios)

\* The slicer skips a restart only when it knows what the gNB runs with.
SlicerKnowsTheGnb == lock = 0 /\ inForce # Unknown => gnb = inForce

\* While nothing goes wrong, the gNB runs between two directives with the
\* ratios of the table.
GnbHoldsTheTable == Idle /\ faults = 0 /\ IsReal => gnb = Ratios(Reservations(Intents))

\* Whatever went wrong before, short of a request left behind at the slicer, a
\* revert that reports success leaves the gNB with the ratios of the table.
RestoredOnRevert ==
  [][Ends /\ answered' = "reverted" /\ ~givenUp /\ IsReal =>
       gnb' = Ratios(Reservations(Intents))']_ranVars

\* A directive ends, however the slicer fails.
DirectivesEnd == ~Idle ~> Idle
=============================================================================
