----------------------------- MODULE CoreDomain -----------------------------
(***************************************************************************)
(* The CN-NSSMF from the inside: what a directive does, step by step, to   *)
(* the policies of a slice and to the limit in force at the UPF. Equipment *)
(* first, record afterwards; between the two the answer may be lost, the   *)
(* database may fail and the agent may die.                                *)
(*                                                                         *)
(* One slice is modelled: the UPF keeps one limit per slice and no query   *)
(* of the agent relates two. The model is external; it acts on the intent  *)
(* and the slice of its directive. Uplink rates and the 5QI are validated  *)
(* and recorded beside the rates kept here, and nothing else reads them.   *)
(***************************************************************************)
EXTENDS Guardrails, DirectiveServer

CONSTANTS
  Recorded,        \* recorded target of each intent (intents.target_thp_mbps)
  Targets,         \* targets a directive may carry, None among them
  Settings,        \* rates the model may ask configure_qos for
  Amendments,      \* values it may give record_policy
  IsReal,          \* ENFORCEMENT_MODE=real
  UpfShaping       \* UPF_SHAPING: the limit is pushed, not only "no limit"

Numbers == Int \cup {None, Malformed}

ASSUME RecordedAssumption == Recorded \in [Intents -> Int \cup {None}]
ASSUME TargetsAssumption == Targets \subseteq Int \cup {None}
ASSUME SettingsAssumption == Settings \subseteq [gbr : Numbers, mbr : Numbers]
ASSUME AmendmentsAssumption ==
  Amendments \subseteq [enforced : Numbers, gbr : Numbers, mbr : Numbers]
ASSUME ModesAssumption == IsReal \in BOOLEAN /\ UpfShaping \in BOOLEAN

VARIABLES
  policies,    \* the active policy of each intent, or Nothing
  limit        \* the slice's downlink limit at the UPF, None without one

coreVars == <<policies, limit, serverVars, loopVars>>

ConfigureCalls == {[tool |-> "configure_qos", args |-> a] : a \in Settings}
RecordCalls == {[tool |-> "record_policy", args |-> a] : a \in Amendments}
ToolCalls == ConfigureCalls \cup RecordCalls

Policy == [gbr : Numbers, mbr : Numbers, at : 0..MaxDirectives]
Directive == [tool : AllTools, intent : Intents, target : Int \cup {None}]
Call == [asked : ConfigureCalls, gbr : Numbers, mbr : Numbers]

ASSUME NothingAssumption ==
  Nothing \notin Policy \cup Directive \cup Call \cup [tool : AllTools, intent : Intents]

CoreTypeOK ==
  /\ policies \in [Intents -> Policy \cup {Nothing}]
  /\ limit \in Numbers
  /\ directive \in Directive \cup {Nothing}
  /\ had \in BOOLEAN
  /\ step \in Steps
  /\ call \in Call \cup {Nothing}
  /\ answered \in Statuses \ {"degraded"}
  /\ taken \in 0..MaxDirectives
  /\ faults \in 0..MaxFaults
  /\ seen \subseteq [call : ToolCalls, result : {"applied", "failed", "ok"}]
  /\ last \in {"none", "applied", "failed"}
  /\ calls \in Nat

Init ==
  /\ policies = [i \in Intents |-> Nothing]
  /\ limit = None
  /\ ServerInit

HasRow(i) == policies[i] # Nothing
Active(S) == {i \in S : HasRow(i)}
Newest(S) == CHOOSE i \in S : \A j \in S : policies[j].at <= policies[i].at

\* _current_qos: the rate of the newest active policy among intents S, or the
\* provisioned baseline, which has no limit.
RateInForce(S) == IF Active(S) = {} THEN None ELSE policies[Newest(Active(S))].mbr

\* Without a target of its own, an apply takes the one recorded with the intent.
Receive(tool, i, given) ==
  /\ Take([tool |-> tool, intent |-> i,
            target |-> IF given = None THEN Recorded[i] ELSE given], HasRow(i))
  /\ UNCHANGED <<policies, limit>>

-----------------------------------------------------------------------------
\* The equipment. In mock mode nothing leaves the agent.

Pushed(rate) == IF UpfShaping THEN rate ELSE None

\* The shaper takes a positive rate, or none.
PushAccepted(rate) ==
  IF IsReal THEN /\ Pushed(rate) = None \/ IsPositive(Pushed(rate))
                 /\ limit' = Pushed(rate)
            ELSE UNCHANGED limit

\* It refuses or cannot be reached; or it takes the rate and the answer is
\* lost, which the agent cannot tell from a refusal.
PushFails(rate) ==
  /\ IsReal
  /\ \/ UNCHANGED <<limit, faults>>
     \/ PushAccepted(rate) /\ Fault

-----------------------------------------------------------------------------
\* The loop of an apply (or of a read-only directive).

Allowed == IF directive.tool = "apply" THEN {"configure_qos", "record_policy"} ELSE {}
Deciding(c) == c.tool = "configure_qos"
Pinned == directive.tool = "apply" /\ directive.target # None

\* Mutant: the rate is not pinned.
OffTargetNever(c) == FALSE

\* A guaranteed rate other than the directive's is refused, a missing one is
\* filled in.
OffTarget(c) ==
  Pinned /\ Deciding(c) /\ c.args.gbr # None /\ c.args.gbr # directive.target
Filled(c) ==
  IF Pinned /\ c.args.gbr = None THEN [c.args EXCEPT !.gbr = directive.target] ELSE c.args

\* Comparing a rate that is not a number with the target raises outside the
\* dispatcher's try: the whole directive ends with an exception (LoopRaises).
PinRaises(c) == Pinned /\ Deciding(c) /\ c.args.gbr = Malformed

Valid(c) ==
  IF Deciding(c)
    THEN ValidConfigureQos([sst |-> 1, gbr |-> Filled(c).gbr, mbr |-> c.args.mbr,
                            gbrUl |-> None, mbrUl |-> None, qi |-> None])
    ELSE ValidRecordPolicy([sst |-> 1, enforced |-> c.args.enforced])

Rejected(c) ==
  \/ ~InScope(c.tool, Allowed)
  \/ GuardrailsEnabled /\ OffTarget(c)
  \/ Refused(Valid(c))

Answered(c) ==
  /\ AnswerCall(c, Deciding(c), Rejected(c) /\ ~PinRaises(c))
  /\ UNCHANGED <<policies, limit>>

\* The rate pushed is the MBR, or the GBR when the call has none.
ConfigureQos(c) ==
  /\ InLoop /\ ~PinRaises(c) /\ ~Rejected(c)
  /\ LET args == Filled(c) IN
     BeginCall([asked |-> c, gbr |-> args.gbr,
                mbr |-> IF args.mbr = None THEN args.gbr ELSE args.mbr])
  /\ UNCHANGED <<policies, limit>>

Push ==
  /\ step = "push"
  /\ \/ PushAccepted(call.mbr) /\ Advance("persist")
     \/ PushFails(call.mbr) /\ BackToLoop("failed")
  /\ UNCHANGED policies

Coalesce(new, old) == IF new = None THEN old ELSE new

\* Mutant: the row is inserted without its time.
UpsertWithoutTime(i, gbr, mbr) == policies' = [policies EXCEPT ![i] = [gbr |-> gbr, mbr |-> mbr]]

\* One active row per intent: an update keeps the place of the row.
Upsert(i, gbr, mbr) ==
  policies' = [policies EXCEPT ![i] =
    IF @ = Nothing THEN [gbr |-> gbr, mbr |-> mbr, at |-> taken]
    ELSE [gbr |-> Coalesce(gbr, @.gbr), mbr |-> Coalesce(mbr, @.mbr), at |-> @.at]]

\* The database may also fail, before or after the row is committed.
Persist ==
  /\ step = "persist"
  /\ \/ Upsert(Intent, call.gbr, call.mbr) /\ BackToLoop("applied") /\ UNCHANGED faults
     \/ /\ Upsert(Intent, call.gbr, call.mbr) \/ UNCHANGED policies
        /\ BackToLoop("failed") /\ Fault
  /\ UNCHANGED limit

\* Mutant: record_policy writes a row configure_qos has not written.
AmendAlways(c) ==
  /\ InLoop /\ MayCall /\ ~Repeated(c) /\ ~Rejected(c)
  /\ Upsert(Intent, c.args.enforced, c.args.mbr) /\ Traced(c, "ok", FALSE)
  /\ UNCHANGED <<limit, serverVars>>

\* record_policy amends what configure_qos recorded, and in real mode not the
\* rates, which are the ones the UPF accepted.
Amend(c) ==
  /\ InLoop /\ MayCall /\ ~Repeated(c) /\ ~Rejected(c)
  /\ IF HasRow(Intent)
       THEN /\ IF IsReal THEN UNCHANGED policies
                         ELSE Upsert(Intent, c.args.gbr, c.args.mbr)
            /\ Traced(c, "ok", FALSE)
       ELSE Traced(c, "failed", FALSE) /\ UNCHANGED policies
  /\ UNCHANGED <<limit, serverVars>>

-----------------------------------------------------------------------------
\* A revert has no loop: what remains is pushed, then the row is released.

NothingToRevert ==
  /\ step = "restore" /\ ~HasRow(Intent)
  /\ End("noop")
  /\ UNCHANGED <<policies, limit, taken, faults>>

\* Mutant: what is restored includes the policy about to go.
RemainingRateOwnToo == RateInForce(Intents)
RemainingRate == RateInForce(Intents \ {Intent})

Restore ==
  /\ step = "restore" /\ HasRow(Intent)
  /\ \/ PushAccepted(RemainingRate) /\ Advance("release")
     \/ PushFails(RemainingRate) /\ End("failed") /\ UNCHANGED taken
  /\ UNCHANGED policies

\* The database may fail, before or after the row is released.
Release ==
  /\ step = "release"
  /\ \/ /\ policies' = [policies EXCEPT ![Intent] = Nothing]
        /\ End("reverted") /\ UNCHANGED faults
     \/ /\ policies' = [policies EXCEPT ![Intent] = Nothing] \/ UNCHANGED policies
        /\ End("error") /\ Fault
  /\ UNCHANGED <<limit, taken>>

-----------------------------------------------------------------------------
Carry ==
  \/ \E c \in ToolCalls : Answered(c)
  \/ \E c \in ConfigureCalls : ConfigureQos(c)
  \/ \E c \in RecordCalls : Amend(c)
  \/ Push \/ Persist
  \/ (FinalAnswer \/ LoopRaises) /\ UNCHANGED <<policies, limit>>
  \/ NothingToRevert \/ Restore \/ Release

Next ==
  \/ Carry
  \/ AgentDies /\ UNCHANGED <<policies, limit>>
  \/ \E tool \in AllTools, i \in Intents, given \in Targets : Receive(tool, i, given)

Spec == Init /\ [][Next]_coreVars

\* A directive that came in goes on: calls of the model, of the shaper and of
\* the database have timeouts.
FairSpec == Spec /\ WF_coreVars(Carry)

-----------------------------------------------------------------------------
(***************************************************************************)
(* Properties.                                                             *)
(***************************************************************************)

\* To its callers the agent is the one DomainContract describes: a directive
\* changes the row of its intent when it ends, as its status says, and no
\* other. Until then the row counts as it was when the directive came in.
Held == {i \in Intents : IF ~Idle /\ Intent = i THEN had ELSE HasRow(i)}
Contract == INSTANCE DomainContract WITH
  Domain <- "cn", held <- Held, serving <- Serving, reported <- answered
KeepsTheContract == Contract!Spec

\* A guarantee reported as applied is the one that was asked for, whatever the
\* model made of the target, and the rate allowed to the slice covers it.
AppliedHoldsTarget ==
  [][Ends /\ answered' = "applied" =>
       LET p == policies'[Intent] IN
       /\ directive.target # None => p.gbr = directive.target
       /\ p.mbr >= p.gbr]_coreVars

\* While nothing goes wrong, the UPF limits the slice between two directives
\* if and only if a policy is active, and to the rate of an active policy.
LimitBacked ==
  IF Active(Intents) = {} THEN limit = None
  ELSE \E i \in Active(Intents) : limit = policies[i].mbr
UpfHoldsAnActivePolicy == Idle /\ faults = 0 => LimitBacked

\* Whatever went wrong before, a revert that reports success leaves the UPF with
\* the rate of the newest policy still active, or without a limit.
RestoredOnRevert ==
  [][answered' = "reverted" /\ answered # "reverted" => limit' = RateInForce(Intents)']_coreVars

\* Nothing is recorded as in force unless the UPF has accepted it
\* (enforcement.py, module docstring): a row that is written says what the
\* UPF enforces at that moment.
RecordedOnlyWhatIsInForce ==
  [][\A i \in Intents :
       policies'[i] \notin {policies[i], Nothing} => limit = policies'[i].mbr]_coreVars

\* A read-only directive changes neither a policy nor the UPF, whatever tools
\* its model calls (react.py, scoped_tools).
ReportsChangeNothing ==
  [][~Idle /\ directive.tool = "report" => UNCHANGED <<policies, limit>>]_coreVars

\* A directive ends, even if its model repeats itself for ever.
DirectivesEnd == ~Idle ~> Idle

\* "A retry or a lost response cannot drift the testbed" (enforcement.py,
\* module docstring): once a revert is confirmed, 'noop' included, the UPF
\* limits the slice only if some policy is active.
NoDrift ==
  answered \in {"reverted", "noop"} /\ Active(Intents) = {} => limit = None

\* "A policy row always means in force" (cn-nssmf/tools.py, _configure_qos): the
\* limit of the slice leaves room for every active guarantee.
EveryPolicyInForce ==
  Idle =>
    \A i \in Active(Intents) : limit = None \/ limit >= policies[i].gbr
=============================================================================
