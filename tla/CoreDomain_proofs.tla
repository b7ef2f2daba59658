------------------------- MODULE CoreDomain_proofs -------------------------
(***************************************************************************)
(* The CN-NSSMF for any intents, rates and bounds: type correctness, the   *)
(* inductive invariant, the refinement of DomainContract, and what its     *)
(* statuses mean at the UPF.                                               *)
(***************************************************************************)
EXTENDS CoreDomainInv, TLAPS, WellFoundedInduction

(***************************************************************************)
(* The operators.                                                          *)
(***************************************************************************)

\* The newest of some active policies is one of them.
LEMMA NewestIsOne ==
  ASSUME CoreTypeOK, NEW S \in SUBSET Intents, S # {}, \A i \in S : HasRow(i)
  PROVE  Newest(S) \in S
  <1> DEFINE age(i) == MaxDirectives - policies[i].at
             ages == {age(i) : i \in S}
  <1>1. \A i \in S : policies[i] \in Policy
    BY DEF CoreTypeOK, HasRow
  <1>2. \A i \in S : policies[i].at \in 0..MaxDirectives
    BY <1>1 DEF Policy
  <1>3. ages \subseteq Nat /\ ages # {}
    BY <1>2, BoundsAssumption
  <1>4. PICK m \in ages : \A n \in ages : <<n, m>> \notin OpToRel(<, Nat)
    <2> HIDE DEF ages
    <2>1. QED
      BY <1>3, NatLessThanWellFounded, WFMin, Zenon
  <1>5. \A n \in ages : ~(n < m)
    <2> HIDE DEF ages
    <2>1. QED
      BY <1>3, <1>4, Zenon DEF OpToRel
  <1>6. PICK i \in S : m = age(i)
    BY <1>4
  <1>7. \A j \in S : policies[j].at <= policies[i].at
    <2>1. TAKE j \in S
    <2>2. ~(age(j) < age(i))
      BY <1>5, <1>6
    <2>3. QED
      BY <1>2, <2>2, BoundsAssumption
  <1>8. QED
    BY <1>7 DEF Newest

\* The rate in force is a rate.
LEMMA RateInForceType ==
  ASSUME CoreTypeOK, NEW S \in SUBSET Intents
  PROVE  RateInForce(S) \in Numbers
  <1>1. CASE Active(S) = {}
    BY <1>1 DEF RateInForce, Numbers
  <1>2. CASE Active(S) # {}
    <2>1. Newest(Active(S)) \in Active(S)
      BY <1>2, NewestIsOne DEF Active
    <2>2. policies[Newest(Active(S))] \in Policy
      BY <2>1 DEF Active, HasRow, CoreTypeOK
    <2>3. QED
      BY <1>2, <2>2 DEF RateInForce, Policy
  <1>3. QED
    BY <1>1, <1>2

\* A repeated call finds the result that was remembered for it.
LEMMA CachedResult ==
  ASSUME NEW c, Repeated(c)
  PROVE  \E e \in seen : e.call = c /\ ResultOf(c) = e.result
  BY DEF Repeated, ResultOf

\* Pinning keeps the arguments well-typed.
LEMMA FilledType ==
  ASSUME NEW c \in ConfigureCalls, directive \in Directive
  PROVE  /\ Filled(c) \in [gbr : Numbers, mbr : Numbers]
         /\ Filled(c).mbr = c.args.mbr
  <1>1. c.args \in [gbr : Numbers, mbr : Numbers]
    BY SettingsAssumption DEF ConfigureCalls
  <1>2. directive.target \in Numbers
    BY DEF Directive, Numbers
  <1>3. QED
    BY <1>1, <1>2 DEF Filled

\* Updating a row keeps the types, and the row is there.
LEMMA UpsertType ==
  ASSUME CoreTypeOK, NEW i \in Intents, NEW gbr \in Numbers, NEW mbr \in Numbers,
         Upsert(i, gbr, mbr)
  PROVE  /\ policies' \in [Intents -> Policy \cup {Nothing}]
         /\ policies'[i] \in Policy
         /\ \A j \in Intents \ {i} : policies'[j] = policies[j]
  <1>1. taken \in 0..MaxDirectives
    BY DEF CoreTypeOK
  <1>2. CASE policies[i] = Nothing
    <2>1. [gbr |-> gbr, mbr |-> mbr, at |-> taken] \in Policy
      BY <1>1 DEF Policy
    <2>2. QED
      BY <1>2, <2>1 DEF Upsert, CoreTypeOK
  <1>3. CASE policies[i] # Nothing
    <2>1. policies[i] \in Policy
      BY <1>3 DEF CoreTypeOK
    <2>2. [gbr |-> Coalesce(gbr, policies[i].gbr), mbr |-> Coalesce(mbr, policies[i].mbr),
           at |-> policies[i].at] \in Policy
      BY <2>1 DEF Policy, Coalesce
    <2>3. QED
      BY <1>3, <2>2 DEF Upsert, CoreTypeOK
  <1>4. QED
    BY <1>2, <1>3

-----------------------------------------------------------------------------
(***************************************************************************)
(* The invariant, by kind of step.                                         *)
(***************************************************************************)

LEMMA InitInv == Init => CoreInv
  <1>1. SUFFICES ASSUME Init PROVE CoreInv
    OBVIOUS
  <1>2. CoreTypeOK
    <2>1. policies \in [Intents -> Policy \cup {Nothing}] /\ limit \in Numbers
      BY <1>1 DEF Init, Numbers
    <2>2. taken \in 0..MaxDirectives /\ faults \in 0..MaxFaults /\ calls \in Nat
      BY <1>1, BoundsAssumption DEF Init, ServerInit, LoopInit
    <2>3. QED
      BY <1>1, <2>1, <2>2 DEF Init, ServerInit, LoopInit, CoreTypeOK, Steps, Statuses
  <1>3. QED
    BY <1>1, <1>2 DEF Init, ServerInit, LoopInit, CoreInv, AtRest, RowWhileServing,
                      CallUnderWay, ResultsBacked, Idle

\* A directive that comes in.
LEMMA ReceiveInv ==
  ASSUME CoreInv, NEW tool \in AllTools, NEW i \in Intents, NEW given \in Targets,
         Receive(tool, i, given)
  PROVE  CoreInv'
  <1> DEFINE d == [tool |-> tool, intent |-> i,
                   target |-> IF given = None THEN Recorded[i] ELSE given]
  <1>1. d \in Directive
    BY RecordedAssumption, TargetsAssumption DEF Directive
  <1>2. d # Nothing
    BY <1>1, NothingAssumption
  <1>3. directive' = d /\ had' = HasRow(i) /\ taken < MaxDirectives /\ taken' = taken + 1
    BY DEF Receive, Take
  <1>4. /\ step' = IF tool = "revert" THEN "restore" ELSE "loop"
        /\ answered' = "none" /\ Idle
        /\ UNCHANGED <<call, faults, seen, last, calls, policies, limit>>
    BY DEF Receive, Take, loopVars
  <1>5. step = "idle" /\ call = Nothing /\ seen = {} /\ last = "none"
    BY <1>4 DEF CoreInv, AtRest, LoopInit
  <1>6. HasRow(i) \in BOOLEAN
    BY DEF HasRow
  <1>7. taken' \in 0..MaxDirectives
    BY <1>3, BoundsAssumption DEF CoreInv, CoreTypeOK
  <1>8. CoreTypeOK'
    BY <1>1, <1>3, <1>4, <1>6, <1>7 DEF CoreInv, CoreTypeOK, Steps, Statuses
  <1>9. RowWhileServing'
    <2>1. Intent' = i /\ directive'.tool = tool
      BY <1>3 DEF Intent
    <2>2. HasRow(i)' = HasRow(i)
      BY <1>4 DEF HasRow
    <2>3. QED
      BY <1>3, <1>4, <2>1, <2>2 DEF RowWhileServing, AllTools
  <1>10. AtRest' /\ CallUnderWay' /\ ResultsBacked'
    BY <1>2, <1>3, <1>4, <1>5 DEF AtRest, CallUnderWay, ResultsBacked, Idle
  <1>11. QED
    BY <1>8, <1>9, <1>10 DEF CoreInv

\* The end of a directive, however it ends.
LEMMA EndInv ==
  ASSUME CoreInv, NEW status \in Statuses \ {"degraded"}, End(status),
         policies' \in [Intents -> Policy \cup {Nothing}], limit' \in Numbers,
         UNCHANGED taken, faults' \in 0..MaxFaults
  PROVE  CoreInv'
  <1>1. /\ answered' = status /\ directive' = Nothing /\ had' = FALSE /\ step' = "idle"
        /\ call' = Nothing /\ seen' = {} /\ last' = "none" /\ calls' = 0
    BY DEF End, LoopReset
  <1>2. CoreTypeOK'
    BY <1>1 DEF CoreInv, CoreTypeOK, Steps
  <1>3. QED
    BY <1>1, <1>2 DEF CoreInv, AtRest, RowWhileServing, CallUnderWay, ResultsBacked,
                      Idle, LoopInit

\* A fault keeps the count within its bound.
LEMMA FaultType ==
  ASSUME CoreTypeOK, Fault \/ UNCHANGED faults
  PROVE  faults' \in 0..MaxFaults
  BY BoundsAssumption DEF CoreTypeOK, Fault

\* Outside "idle" a directive is being carried out.
LEMMA Busy ==
  ASSUME CoreInv, step # "idle"
  PROVE  ~Idle /\ directive \in Directive /\ Intent \in Intents /\ directive.tool \in AllTools
  BY DEF CoreInv, AtRest, CoreTypeOK, Idle, Intent, Directive

\* A result that goes into the trace keeps what the loop remembers backed by
\* the row, as long as the row stays and a new "applied" has one.
LEMMA TracedBacked ==
  ASSUME CoreInv, step # "idle", UNCHANGED directive,
         NEW c \in ToolCalls, NEW result \in {"applied", "failed", "ok"},
         Traced(c, result, Deciding(c)),
         HasRow(Intent) => HasRow(Intent)',
         Deciding(c) => result # "ok",
         Deciding(c) /\ result = "applied" => directive.tool = "apply" /\ HasRow(Intent)'
  PROVE  /\ seen' \subseteq [call : ToolCalls, result : {"applied", "failed", "ok"}]
         /\ last' \in {"none", "applied", "failed"}
         /\ calls' \in Nat
         /\ ResultsBacked'
  <1> DEFINE e0 == [call |-> c, result |-> result]
  <1>1. seen' = seen \cup {e0} /\ calls' = calls + 1
        /\ last' = IF Deciding(c) THEN result ELSE last
    BY DEF Traced
  <1>2. CoreTypeOK
    BY DEF CoreInv
  <1>3. seen' \subseteq [call : ToolCalls, result : {"applied", "failed", "ok"}]
    BY <1>1, <1>2 DEF CoreTypeOK
  <1>4. last' \in {"none", "applied", "failed"} /\ calls' \in Nat
    BY <1>1, <1>2 DEF CoreTypeOK
  <1>5. Intent' = Intent /\ ~Idle' /\ directive' = directive
    BY Busy DEF Intent, Idle
  <1>6. last' = "applied" => ~Idle' /\ directive'.tool = "apply" /\ HasRow(Intent)'
    BY <1>1, <1>5 DEF CoreInv, ResultsBacked
  <1>7. ASSUME NEW e \in seen', Deciding(e.call)
        PROVE  /\ e.result # "ok"
               /\ e.result = "applied" => directive'.tool = "apply" /\ HasRow(Intent)'
    <2>1. CASE e \in seen
      BY <1>5, <1>7, <2>1 DEF CoreInv, ResultsBacked
    <2>2. CASE e = e0
      BY <1>5, <1>7, <2>2
    <2>3. QED
      BY <1>1, <1>7, <2>1, <2>2
  <1>8. QED
    BY <1>3, <1>4, <1>6, <1>7 DEF ResultsBacked, Deciding

\* A call answered from the cache, or refused.
LEMMA AnsweredInv ==
  ASSUME CoreInv, NEW c \in ToolCalls, Answered(c)
  PROVE  CoreInv'
  <1>1. step = "loop" /\ UNCHANGED <<directive, had, step, call, answered, taken, faults,
                                     policies, limit>>
    BY DEF Answered, AnswerCall, InLoop, serverVars
  <1>2. HasRow(Intent)' = HasRow(Intent)
    BY <1>1 DEF HasRow, Intent
  <1>3. PICK result \in {"applied", "failed", "ok"} :
          /\ Traced(c, result, Deciding(c))
          /\ Deciding(c) => result # "ok"
          /\ Deciding(c) /\ result = "applied" => directive.tool = "apply" /\ HasRow(Intent)
    <2>1. CASE Traced(c, "failed", Deciding(c))
      BY <2>1
    <2>2. CASE TracedFromCache(c, Deciding(c))
      <3>1. Repeated(c) /\ Traced(c, ResultOf(c), Deciding(c))
        BY <2>2 DEF TracedFromCache
      <3>2. PICK e \in seen : e.call = c /\ ResultOf(c) = e.result
        BY <3>1, CachedResult
      <3>3. e.result \in {"applied", "failed", "ok"}
        BY DEF CoreInv, CoreTypeOK
      <3>4. Deciding(c) => /\ e.result # "ok"
                           /\ e.result = "applied" => directive.tool = "apply" /\ HasRow(Intent)
        BY <3>2 DEF CoreInv, ResultsBacked
      <3>5. QED
        BY <3>1, <3>2, <3>3, <3>4
    <2>3. QED
      BY <2>1, <2>2 DEF Answered, AnswerCall
  <1>4. /\ seen' \subseteq [call : ToolCalls, result : {"applied", "failed", "ok"}]
        /\ last' \in {"none", "applied", "failed"}
        /\ calls' \in Nat
        /\ ResultsBacked'
    BY <1>1, <1>2, <1>3, TracedBacked
  <1>5. CoreTypeOK'
    BY <1>1, <1>4 DEF CoreInv, CoreTypeOK
  <1>6. RowWhileServing'
    BY <1>1, <1>2 DEF CoreInv, RowWhileServing, Idle, Intent
  <1>7. AtRest' /\ CallUnderWay'
    BY <1>1 DEF CoreInv, AtRest, CallUnderWay, Idle
  <1>8. QED
    BY <1>4, <1>5, <1>6, <1>7 DEF CoreInv

\* In the loop only an apply has tools.
LEMMA OnlyAppliesAct ==
  ASSUME NEW c, ~Rejected(c)
  PROVE  directive.tool = "apply"
  BY DEF Rejected, InScope, Allowed

\* The model asks for a configuration that is not refused.
LEMMA ConfigureInv ==
  ASSUME CoreInv, NEW c \in ConfigureCalls, ConfigureQos(c)
  PROVE  CoreInv'
  <1> DEFINE args == Filled(c)
             k == [asked |-> c, gbr |-> args.gbr,
                   mbr |-> IF args.mbr = None THEN args.gbr ELSE args.mbr]
  <1>1. /\ step = "loop" /\ step' = "push" /\ ~Rejected(c)
        /\ UNCHANGED <<directive, had, answered, taken, faults, seen, last, calls,
                       policies, limit>>
        /\ call' = k
    BY DEF ConfigureQos, BeginCall, InLoop, loopVars
  <1>2. directive \in Directive
    BY <1>1, Busy
  <1>3. args \in [gbr : Numbers, mbr : Numbers]
    BY <1>2, FilledType
  <1>4. k \in Call
    BY <1>3 DEF Call
  <1>5. directive.tool = "apply"
    BY <1>1, OnlyAppliesAct
  <1> HIDE DEF k
  <1>6. CoreTypeOK'
    BY <1>1, <1>4 DEF CoreInv, CoreTypeOK, Steps
  <1>7. RowWhileServing'
    BY <1>1, <1>5 DEF CoreInv, RowWhileServing, Idle, Intent, HasRow
  <1>8. AtRest' /\ CallUnderWay'
    BY <1>1, <1>4, Busy DEF CoreInv, AtRest, CallUnderWay, Idle
  <1>9. ResultsBacked'
    BY <1>1 DEF CoreInv, ResultsBacked, Idle, Intent, HasRow, Deciding
  <1>10. QED
    BY <1>6, <1>7, <1>8, <1>9 DEF CoreInv

\* What the UPF holds after a push is a rate, and faults stay in bounds.
LEMMA PushType ==
  ASSUME CoreTypeOK, NEW rate \in Numbers,
         (PushAccepted(rate) /\ UNCHANGED faults) \/ PushFails(rate)
  PROVE  limit' \in Numbers /\ faults' \in 0..MaxFaults
  <1>1. faults' \in 0..MaxFaults
    BY FaultType DEF PushFails
  <1>2. limit' \in Numbers
    BY DEF PushFails, PushAccepted, Pushed, CoreTypeOK, Numbers
  <1>3. QED
    BY <1>1, <1>2

\* The agent is back in its loop with a result of the call under way.
LEMMA BackInv ==
  ASSUME CoreInv, step \in {"push", "persist"}, NEW result \in {"applied", "failed"},
         BackToLoop(result), limit' \in Numbers, faults' \in 0..MaxFaults,
         policies' \in [Intents -> Policy \cup {Nothing}],
         HasRow(Intent) => HasRow(Intent)',
         result = "applied" => HasRow(Intent)'
  PROVE  CoreInv'
  <1>1. /\ step' = "loop" /\ call' = Nothing
        /\ UNCHANGED <<directive, had, answered, taken>>
        /\ Traced(call.asked, result, TRUE)
    BY DEF BackToLoop
  <1>2. call \in Call /\ call.asked \in ToolCalls /\ Deciding(call.asked)
    BY DEF CoreInv, CallUnderWay, Call, ToolCalls, ConfigureCalls, Deciding
  <1>3. directive.tool = "apply" /\ ~Idle
    BY Busy DEF CoreInv, RowWhileServing
  <1>4. /\ seen' \subseteq [call : ToolCalls, result : {"applied", "failed", "ok"}]
        /\ last' \in {"none", "applied", "failed"}
        /\ calls' \in Nat
        /\ ResultsBacked'
    BY <1>1, <1>2, <1>3, TracedBacked
  <1>5. CoreTypeOK'
    BY <1>1, <1>4 DEF CoreInv, CoreTypeOK, Steps
  <1>6. RowWhileServing'
    BY <1>1, <1>3 DEF CoreInv, RowWhileServing, Idle, Intent
  <1>7. AtRest' /\ CallUnderWay'
    BY <1>1, <1>3 DEF AtRest, CallUnderWay, Idle
  <1>8. QED
    BY <1>4, <1>5, <1>6, <1>7 DEF CoreInv

LEMMA PushInv ==
  ASSUME CoreInv, Push
  PROVE  CoreInv'
  <1>1. step = "push" /\ UNCHANGED policies
    BY DEF Push
  <1>2. call \in Call /\ call.mbr \in Numbers
    BY <1>1 DEF CoreInv, CallUnderWay, Call
  <1>3. HasRow(Intent)' = HasRow(Intent) \/ directive' # directive
    BY <1>1 DEF HasRow, Intent
  <1>4. CASE PushAccepted(call.mbr) /\ Advance("persist")
    <2>1. /\ step' = "persist"
          /\ UNCHANGED <<directive, had, call, answered, taken, faults, seen, last, calls>>
      BY <1>4 DEF Advance, loopVars
    <2>2. limit' \in Numbers
      BY <1>2, <1>4, <2>1, PushType DEF CoreInv
    <2>3. CoreTypeOK'
      BY <1>1, <2>1, <2>2 DEF CoreInv, CoreTypeOK, Steps
    <2>4. RowWhileServing' /\ ResultsBacked'
      BY <1>1, <2>1 DEF CoreInv, RowWhileServing, ResultsBacked, Idle, Intent, HasRow, Deciding
    <2>5. AtRest' /\ CallUnderWay'
      BY <1>1, <1>2, <2>1, Busy DEF AtRest, CallUnderWay, Idle
    <2>6. QED
      BY <2>3, <2>4, <2>5 DEF CoreInv
  <1>5. CASE PushFails(call.mbr) /\ BackToLoop("failed")
    <2>1. limit' \in Numbers /\ faults' \in 0..MaxFaults
      BY <1>2, <1>5, PushType DEF CoreInv
    <2>2. policies' \in [Intents -> Policy \cup {Nothing}]
      BY <1>1 DEF CoreInv, CoreTypeOK
    <2>3. directive' = directive
      BY <1>5 DEF BackToLoop
    <2>4. QED
      BY <1>1, <1>3, <1>5, <2>1, <2>2, <2>3, BackInv
  <1>6. QED
    BY <1>4, <1>5 DEF Push

LEMMA PersistInv ==
  ASSUME CoreInv, Persist
  PROVE  CoreInv'
  <1>1. step = "persist" /\ UNCHANGED limit /\ Intent \in Intents /\ CoreTypeOK
    BY Busy DEF Persist, CoreInv
  <1>2. call.gbr \in Numbers /\ call.mbr \in Numbers
    BY <1>1 DEF CoreInv, CallUnderWay, Call
  <1>3. directive' = directive /\ Intent' = Intent
    BY DEF Persist, BackToLoop, Intent
  <1>4. limit' \in Numbers /\ faults' \in 0..MaxFaults
    BY <1>1, FaultType DEF Persist, CoreTypeOK
  <1>5. ASSUME Upsert(Intent, call.gbr, call.mbr)
        PROVE  policies' \in [Intents -> Policy \cup {Nothing}] /\ HasRow(Intent)'
    <2>1. policies' \in [Intents -> Policy \cup {Nothing}] /\ policies'[Intent] \in Policy
      BY <1>1, <1>2, <1>5, UpsertType
    <2>2. QED
      BY <1>3, <2>1, NothingAssumption DEF HasRow
  <1>6. CASE Upsert(Intent, call.gbr, call.mbr) /\ BackToLoop("applied")
    BY <1>1, <1>4, <1>5, <1>6, BackInv
  <1>7. CASE Upsert(Intent, call.gbr, call.mbr) /\ BackToLoop("failed")
    BY <1>1, <1>4, <1>5, <1>7, BackInv
  <1>8. CASE UNCHANGED policies /\ BackToLoop("failed")
    <2>1. HasRow(Intent)' = HasRow(Intent)
      BY <1>3, <1>8 DEF HasRow
    <2>2. policies' \in [Intents -> Policy \cup {Nothing}]
      BY <1>1, <1>8 DEF CoreTypeOK
    <2>3. QED
      BY <1>1, <1>4, <1>8, <2>1, <2>2, BackInv
  <1>9. QED
    BY <1>6, <1>7, <1>8 DEF Persist

LEMMA AmendInv ==
  ASSUME CoreInv, NEW c \in RecordCalls, Amend(c)
  PROVE  CoreInv'
  <1>1. /\ step = "loop" /\ ~Rejected(c) /\ CoreTypeOK
        /\ UNCHANGED <<limit, directive, had, step, call, answered, taken, faults>>
    BY DEF Amend, InLoop, serverVars, CoreInv
  <1>2. directive.tool = "apply" /\ ~Idle /\ Intent \in Intents
    BY <1>1, OnlyAppliesAct, Busy
  <1>3. c \in ToolCalls /\ ~Deciding(c)
    BY DEF ToolCalls, RecordCalls, Deciding
  <1>4. c.args.gbr \in Numbers /\ c.args.mbr \in Numbers
    BY AmendmentsAssumption DEF RecordCalls
  <1>5. /\ policies' \in [Intents -> Policy \cup {Nothing}]
        /\ HasRow(Intent) => HasRow(Intent)'
    <2>1. CASE UNCHANGED policies
      BY <1>1, <2>1 DEF CoreTypeOK, HasRow, Intent
    <2>2. CASE Upsert(Intent, c.args.gbr, c.args.mbr)
      <3>1. /\ policies' \in [Intents -> Policy \cup {Nothing}]
            /\ policies'[Intent] \in Policy
        BY <1>1, <1>2, <1>4, <2>2, UpsertType
      <3>2. Intent' = Intent
        BY <1>1 DEF Intent
      <3>3. QED
        BY <3>1, <3>2, NothingAssumption DEF HasRow
    <2>3. QED
      BY <2>1, <2>2 DEF Amend
  <1>6. PICK result \in {"failed", "ok"} : Traced(c, result, Deciding(c))
    BY <1>3 DEF Amend, Traced
  <1>7. /\ seen' \subseteq [call : ToolCalls, result : {"applied", "failed", "ok"}]
        /\ last' \in {"none", "applied", "failed"}
        /\ calls' \in Nat
        /\ ResultsBacked'
    BY <1>1, <1>3, <1>5, <1>6, TracedBacked
  <1>8. CoreTypeOK'
    BY <1>1, <1>5, <1>7 DEF CoreTypeOK
  <1>9. RowWhileServing'
    BY <1>1, <1>2, <1>5 DEF CoreInv, RowWhileServing, Idle, Intent
  <1>10. AtRest' /\ CallUnderWay'
    BY <1>1, <1>2 DEF AtRest, CallUnderWay, Idle
  <1>11. QED
    BY <1>7, <1>8, <1>9, <1>10 DEF CoreInv

LEMMA RestoreInv ==
  ASSUME CoreInv, Restore
  PROVE  CoreInv'
  <1>1. step = "restore" /\ HasRow(Intent) /\ UNCHANGED policies /\ CoreTypeOK
    BY DEF Restore, CoreInv
  <1>2. RemainingRate \in Numbers
    BY <1>1, RateInForceType DEF RemainingRate
  <1>3. policies' \in [Intents -> Policy \cup {Nothing}]
    BY <1>1 DEF CoreTypeOK
  <1>4. ~Idle /\ directive.tool = "revert" /\ HasRow(Intent) = had
    BY <1>1, Busy DEF CoreInv, RowWhileServing
  <1>5. CASE PushAccepted(RemainingRate) /\ Advance("release")
    <2>1. /\ step' = "release"
          /\ UNCHANGED <<directive, had, call, answered, taken, faults, seen, last, calls>>
      BY <1>5 DEF Advance, loopVars
    <2>2. limit' \in Numbers
      BY <1>1, <1>2, <1>5, <2>1, PushType
    <2>3. CoreTypeOK'
      BY <1>1, <2>1, <2>2 DEF CoreTypeOK, Steps
    <2>4. RowWhileServing'
      BY <1>1, <1>4, <2>1 DEF RowWhileServing, Idle, Intent, HasRow
    <2>5. ResultsBacked'
      BY <1>1, <2>1 DEF CoreInv, ResultsBacked, Idle, Intent, HasRow, Deciding
    <2>6. AtRest' /\ CallUnderWay'
      BY <1>4, <2>1 DEF AtRest, CallUnderWay, Idle
    <2>7. QED
      BY <2>3, <2>4, <2>5, <2>6 DEF CoreInv
  <1>6. CASE PushFails(RemainingRate) /\ End("failed") /\ UNCHANGED taken
    <2>1. limit' \in Numbers /\ faults' \in 0..MaxFaults
      BY <1>1, <1>2, <1>6, PushType
    <2>2. QED
      BY <1>3, <1>6, <2>1, EndInv DEF Statuses
  <1>7. QED
    BY <1>5, <1>6 DEF Restore

LEMMA ReleaseInv ==
  ASSUME CoreInv, Release
  PROVE  CoreInv'
  <1>1. CoreTypeOK /\ UNCHANGED <<limit, taken>>
    BY DEF CoreInv, Release
  <1>2. limit' \in Numbers
    BY <1>1 DEF CoreTypeOK
  <1>3. faults' \in 0..MaxFaults
    BY <1>1, FaultType DEF Release
  <1>4. policies' \in [Intents -> Policy \cup {Nothing}]
    BY <1>1 DEF Release, CoreTypeOK
  <1>5. CASE End("reverted")
    BY <1>1, <1>2, <1>3, <1>4, <1>5, EndInv DEF Statuses
  <1>6. CASE End("error")
    BY <1>1, <1>2, <1>3, <1>4, <1>6, EndInv DEF Statuses
  <1>7. QED
    BY <1>5, <1>6 DEF Release

\* The other ends of a directive: its row is as it was.
LEMMA OtherEndsInv ==
  ASSUME CoreInv, UNCHANGED <<policies, limit>>,
         FinalAnswer \/ LoopRaises \/ NothingToRevert \/ AgentDies
  PROVE  CoreInv'
  <1>1. PICK status \in Statuses \ {"degraded"} : End(status)
    <2>1. DirectiveStatus \in {"applied", "failed"}
      BY DEF CoreInv, CoreTypeOK, DirectiveStatus
    <2>2. QED
      BY <2>1 DEF FinalAnswer, LoopRaises, NothingToRevert, AgentDies, Statuses
  <1>2. UNCHANGED taken /\ (Fault \/ UNCHANGED faults)
    BY DEF FinalAnswer, LoopRaises, NothingToRevert, AgentDies
  <1>3. faults' \in 0..MaxFaults
    BY <1>2, FaultType DEF CoreInv
  <1>4. policies' \in [Intents -> Policy \cup {Nothing}] /\ limit' \in Numbers
    BY DEF CoreInv, CoreTypeOK
  <1>5. QED
    BY <1>1, <1>2, <1>3, <1>4, EndInv

\* Every step of the agent keeps the invariant.
LEMMA StepInv == CoreInv /\ [Next]_coreVars => CoreInv'
  <1>1. SUFFICES ASSUME CoreInv, [Next]_coreVars
                 PROVE  CoreInv'
    OBVIOUS
  <1>2. ASSUME NEW c \in ToolCalls, Answered(c)
        PROVE  CoreInv'
    BY <1>1, <1>2, AnsweredInv
  <1>3. ASSUME NEW c \in ConfigureCalls, ConfigureQos(c)
        PROVE  CoreInv'
    BY <1>1, <1>3, ConfigureInv
  <1>4. ASSUME NEW c \in RecordCalls, Amend(c)
        PROVE  CoreInv'
    BY <1>1, <1>4, AmendInv
  <1>5. CASE Push
    BY <1>1, <1>5, PushInv
  <1>6. CASE Persist
    BY <1>1, <1>6, PersistInv
  <1>7. CASE (FinalAnswer \/ LoopRaises \/ AgentDies) /\ UNCHANGED <<policies, limit>>
    BY <1>1, <1>7, OtherEndsInv
  <1>8. CASE NothingToRevert
    BY <1>1, <1>8, OtherEndsInv DEF NothingToRevert
  <1>9. CASE Restore
    BY <1>1, <1>9, RestoreInv
  <1>10. CASE Release
    BY <1>1, <1>10, ReleaseInv
  <1>11. ASSUME NEW tool \in AllTools, NEW i \in Intents, NEW given \in Targets,
                Receive(tool, i, given)
         PROVE  CoreInv'
    BY <1>1, <1>11, ReceiveInv
  <1>12. CASE UNCHANGED coreVars
    <2>1. UNCHANGED <<policies, limit, directive, had, step, call, answered, taken, faults,
                      seen, last, calls>>
      BY <1>12 DEF coreVars, serverVars, loopVars
    <2>2. QED
      BY <1>1, <2>1 DEF CoreInv, CoreTypeOK, AtRest, RowWhileServing, CallUnderWay,
                        ResultsBacked, Idle, Intent, HasRow, LoopInit, Deciding
  <1>13. QED
    BY <1>1, <1>2, <1>3, <1>4, <1>5, <1>6, <1>7, <1>8, <1>9, <1>10, <1>11, <1>12
       DEF Next, Carry

\* The inductive invariant of the CN-NSSMF holds in every reachable state.
THEOREM CoreInvariance == Spec => []CoreInv
  <1>1. QED
    BY InitInv, StepInv, PTL DEF Spec

\* Every variable of the CN-NSSMF keeps its type.
THEOREM CoreTypeCorrect == Spec => []CoreTypeOK
  <1>1. CoreInv => CoreTypeOK
    BY DEF CoreInv
  <1>2. QED
    BY <1>1, CoreInvariance, PTL

-----------------------------------------------------------------------------
(***************************************************************************)
(* The refinement of DomainContract.                                       *)
(***************************************************************************)

\* The row of every intent but the one served counts as it is, and that one
\* as it was; so a step that touches no other row changes nothing for callers.
LEMMA HeldKept ==
  ASSUME CoreInv, step # "idle", UNCHANGED <<directive, had>>,
         \A i \in Intents \ {Intent} : policies'[i] = policies[i]
  PROVE  Held' = Held
  <1>1. ~Idle /\ ~Idle' /\ Intent' = Intent
    BY Busy DEF Idle, Intent
  <1>2. \A i \in Intents \ {Intent} : HasRow(i)' = HasRow(i)
    BY DEF HasRow
  <1>3. QED
    BY <1>1, <1>2 DEF Held

\* The end of a directive with an outcome the contract promises.
LEMMA EndKeeps ==
  ASSUME CoreInv, step # "idle", NEW status, End(status),
         \A i \in Intents \ {Intent} : policies'[i] = policies[i],
         [status |-> status, row |-> policies'[Intent] # Nothing]
           \in Contract!PromisedOutcomes(directive.tool, had)
  PROVE  Contract!Finish
  <1> DEFINE out == [status |-> status, row |-> policies'[Intent] # Nothing]
  <1>1. ~Idle /\ Intent \in Intents /\ directive \in Directive
    BY Busy
  <1>2. Serving = [tool |-> directive.tool, intent |-> Intent]
    BY <1>1 DEF Serving, Intent
  <1>3. Serving # Nothing
    BY <1>1, <1>2, NothingAssumption, Busy
  <1>4. Idle' /\ answered' = status
    BY DEF End, Idle
  <1>5. Serving' = Nothing
    BY <1>4 DEF Serving
  <1>6. had \in BOOLEAN
    BY DEF CoreInv, CoreTypeOK
  <1>7. (Intent \in Held) = had
    BY <1>1, <1>6 DEF Held
  <1>8. Held' = {i \in Intents : policies'[i] # Nothing}
    BY <1>4 DEF Held, HasRow
  <1>9. Held \ {Intent} = {i \in Intents \ {Intent} : policies[i] # Nothing}
    BY <1>1 DEF Held, HasRow
  <1>10. Held' = IF out.row THEN Held \cup {Intent} ELSE Held \ {Intent}
    BY <1>1, <1>8, <1>9
  <1>11. out \in Contract!PromisedOutcomes(Serving.tool, Serving.intent \in Held)
    BY <1>2, <1>7
  <1>12. QED
    BY <1>2, <1>3, <1>4, <1>5, <1>10, <1>11 DEF Contract!Finish

\* A directive that comes in is taken by the contract as well.
LEMMA ReceiveKeeps ==
  ASSUME CoreInv, NEW tool \in AllTools, NEW i \in Intents, NEW given \in Targets,
         Receive(tool, i, given)
  PROVE  Contract!Take(tool, i)
  <1> DEFINE d == [tool |-> tool, intent |-> i,
                   target |-> IF given = None THEN Recorded[i] ELSE given]
  <1>1. d \in Directive
    BY RecordedAssumption, TargetsAssumption DEF Directive
  <1>2. directive' = d /\ Idle /\ ~Idle' /\ had' = HasRow(i) /\ answered' = "none"
        /\ UNCHANGED policies
    BY <1>1, NothingAssumption DEF Receive, Take, Idle
  <1>3. Intent' = i /\ Serving' = [tool |-> tool, intent |-> i] /\ Serving = Nothing
    BY <1>2 DEF Intent, Serving
  <1>4. Held' = Held
    BY <1>2, <1>3 DEF Held, HasRow
  <1>5. QED
    BY <1>2, <1>3, <1>4 DEF Contract!Take

\* What each tool may end with.
LEMMA Promises ==
  ASSUME NEW b \in BOOLEAN, NEW row \in BOOLEAN
  PROVE  /\ \A s \in {"failed", "error"} :
              (b => row) => [status |-> s, row |-> row] \in Contract!PromisedOutcomes("apply", b)
         /\ row => [status |-> "applied", row |-> row] \in Contract!PromisedOutcomes("apply", b)
         /\ \A s \in {"ok", "error"} :
              row = b => [status |-> s, row |-> row] \in Contract!PromisedOutcomes("report", b)
         /\ (row => b) => [status |-> "error", row |-> row] \in Contract!PromisedOutcomes("revert", b)
         /\ b /\ row => [status |-> "failed", row |-> row] \in Contract!PromisedOutcomes("revert", b)
         /\ b /\ ~row => [status |-> "reverted", row |-> row] \in Contract!PromisedOutcomes("revert", b)
         /\ ~b /\ ~row => [status |-> "noop", row |-> row] \in Contract!PromisedOutcomes("revert", b)
  BY DEF Contract!PromisedOutcomes, Contract!Outcomes, Contract!ApplyOutcomes,
         Contract!RevertOutcomes

\* The ends of a directive that find the row as the loop, or the revert, has
\* left it.
LEMMA OtherEndsKeep ==
  ASSUME CoreInv, FinalAnswer \/ LoopRaises \/ NothingToRevert \/ AgentDies,
         UNCHANGED <<policies, limit>>
  PROVE  Contract!Finish
  <1> DEFINE row == policies'[Intent] # Nothing
  <1>1. step # "idle"
    BY DEF CoreInv, RowWhileServing, FinalAnswer, LoopRaises, NothingToRevert, AgentDies, InLoop
  <1>2. /\ row = HasRow(Intent) /\ row \in BOOLEAN /\ had \in BOOLEAN
        /\ \A i \in Intents \ {Intent} : policies'[i] = policies[i]
    BY DEF HasRow, CoreInv, CoreTypeOK
  <1>3. ~Idle /\ directive.tool \in AllTools
    BY <1>1, Busy
  <1>4. PICK status :
          /\ End(status)
          /\ [status |-> status, row |-> row] \in Contract!PromisedOutcomes(directive.tool, had)
    <2>1. CASE FinalAnswer /\ directive.tool = "apply"
      <3>1. End(DirectiveStatus) /\ (had => row)
        BY <1>2, <1>3, <2>1 DEF FinalAnswer, CoreInv, RowWhileServing
      <3>2. CASE last = "applied"
        <4>1. DirectiveStatus = "applied" /\ row
          BY <1>2, <3>2 DEF DirectiveStatus, CoreInv, ResultsBacked
        <4>2. QED
          BY <1>2, <2>1, <3>1, <4>1, Promises
      <3>3. CASE last # "applied"
        <4>1. DirectiveStatus = "failed"
          BY <3>3 DEF DirectiveStatus, CoreInv, CoreTypeOK
        <4>2. QED
          BY <1>2, <2>1, <3>1, <4>1, Promises
      <3>4. QED
        BY <3>2, <3>3
    <2>2. CASE FinalAnswer /\ directive.tool # "apply"
      <3>1. End("ok") /\ directive.tool = "report" /\ row = had
        BY <1>2, <1>3, <2>2 DEF FinalAnswer, InLoop, CoreInv, RowWhileServing
      <3>2. QED
        BY <1>2, <3>1, Promises
    <2>3. CASE LoopRaises \/ AgentDies
      <3>1. End("error")
        BY <2>3 DEF LoopRaises, AgentDies
      <3>2. CASE directive.tool = "apply"
        BY <1>2, <1>3, <3>1, <3>2, Promises DEF CoreInv, RowWhileServing
      <3>3. CASE directive.tool = "report"
        BY <1>2, <1>3, <3>1, <3>3, Promises DEF CoreInv, RowWhileServing
      <3>4. CASE directive.tool = "revert"
        BY <1>2, <1>3, <3>1, <3>4, Promises DEF CoreInv, RowWhileServing
      <3>5. QED
        BY <1>3, <3>2, <3>3, <3>4 DEF AllTools
    <2>4. CASE NothingToRevert
      <3>1. End("noop") /\ directive.tool = "revert" /\ ~row /\ ~had
        BY <1>2, <1>3, <2>4 DEF NothingToRevert, CoreInv, RowWhileServing
      <3>2. QED
        BY <1>2, <3>1, Promises
    <2>5. QED
      BY <2>1, <2>2, <2>3, <2>4
  <1> HIDE DEF row
  <1>5. [status |-> status, row |-> policies'[Intent] # Nothing]
          \in Contract!PromisedOutcomes(directive.tool, had)
    BY <1>4 DEF row
  <1>6. QED
    BY <1>1, <1>2, <1>4, <1>5, EndKeeps

\* The ends of a revert that found a row.
LEMMA RevertEndsKeep ==
  ASSUME CoreInv, NEW status, End(status),
         \/ step = "restore" /\ HasRow(Intent) /\ status = "failed" /\ UNCHANGED policies
         \/ /\ step = "release"
            /\ \/ status \in {"reverted", "error"}
                  /\ policies' = [policies EXCEPT ![Intent] = Nothing]
               \/ status = "error" /\ UNCHANGED policies
  PROVE  Contract!Finish
  <1> DEFINE row == policies'[Intent] # Nothing
  <1>1. step # "idle" /\ Intent \in Intents
    BY Busy
  <1>2. directive.tool = "revert" /\ had /\ HasRow(Intent)
    BY <1>1, Busy DEF CoreInv, RowWhileServing, CoreTypeOK
  <1>3. policies \in [Intents -> Policy \cup {Nothing}] /\ had \in BOOLEAN /\ row \in BOOLEAN
    BY DEF CoreInv, CoreTypeOK
  <1>4. \A i \in Intents \ {Intent} : policies'[i] = policies[i]
    BY <1>3
  <1>5. CASE status = "failed"
    <2>1. row
      BY <1>2, <1>5 DEF HasRow
    <2>2. QED
      BY <1>1, <1>2, <1>3, <1>4, <1>5, <2>1, Promises, EndKeeps
  <1>6. CASE status = "reverted"
    <2>1. ~row
      BY <1>1, <1>3, <1>6
    <2>2. QED
      BY <1>1, <1>2, <1>3, <1>4, <1>6, <2>1, Promises, EndKeeps
  <1>7. CASE status = "error"
    <2>1. [status |-> "error", row |-> row] \in Contract!PromisedOutcomes("revert", had)
      BY <1>2, <1>3, Promises
    <2>2. QED
      BY <1>1, <1>2, <1>4, <1>7, <2>1, EndKeeps
  <1>8. QED
    BY <1>5, <1>6, <1>7

\* A step inside a directive, which callers do not see.
LEMMA InsideKeeps ==
  ASSUME CoreInv, step # "idle", UNCHANGED <<directive, had, answered>>,
         \/ UNCHANGED policies
         \/ \E gbr \in Numbers, mbr \in Numbers : Upsert(Intent, gbr, mbr)
  PROVE  UNCHANGED Contract!contractVars
  <1>1. \A i \in Intents \ {Intent} : policies'[i] = policies[i]
    BY Busy, UpsertType DEF CoreInv
  <1>2. Held' = Held
    BY <1>1, HeldKept
  <1>3. Serving' = Serving
    BY DEF Serving, Idle, Intent
  <1>4. QED
    BY <1>2, <1>3 DEF Contract!contractVars

LEMMA ContractInit == Init => Contract!Init
  BY DEF Init, ServerInit, Contract!Init, Held, Serving, Idle, HasRow

\* Every step of the agent is one of the contract's, or none its callers see.
LEMMA ContractStep ==
  CoreInv /\ [Next]_coreVars => [Contract!Next]_(Contract!contractVars)
  <1> DEFINE Goal == [Contract!Next]_(Contract!contractVars)
  <1>1. SUFFICES ASSUME CoreInv, [Next]_coreVars
                 PROVE  Goal
    OBVIOUS
  <1>2. Contract!Finish => Goal
    BY DEF Contract!Next
  <1>3. UNCHANGED Contract!contractVars => Goal
    OBVIOUS
  <1>4. CoreTypeOK
    BY <1>1 DEF CoreInv
  <1>5. CASE \E c \in ToolCalls : Answered(c)
    <2>1. step # "idle" /\ UNCHANGED <<directive, had, answered, policies>>
      BY <1>5 DEF Answered, AnswerCall, InLoop, serverVars
    <2>2. QED
      BY <1>1, <1>3, <2>1, InsideKeeps
  <1>6. CASE \E c \in ConfigureCalls : ConfigureQos(c)
    <2>1. step # "idle" /\ UNCHANGED <<directive, had, answered, policies>>
      BY <1>6 DEF ConfigureQos, BeginCall, InLoop
    <2>2. QED
      BY <1>1, <1>3, <2>1, InsideKeeps
  <1>7. ASSUME NEW c \in RecordCalls, Amend(c)
        PROVE  Goal
    <2>1. step # "idle" /\ UNCHANGED <<directive, had, answered>>
      BY <1>7 DEF Amend, InLoop, serverVars
    <2>2. c.args.gbr \in Numbers /\ c.args.mbr \in Numbers
      BY AmendmentsAssumption DEF RecordCalls
    <2>3. UNCHANGED policies \/ Upsert(Intent, c.args.gbr, c.args.mbr)
      BY <1>7 DEF Amend
    <2>4. QED
      BY <1>1, <1>3, <2>1, <2>2, <2>3, InsideKeeps
  <1>8. CASE Push
    <2>1. step # "idle" /\ UNCHANGED <<directive, had, answered, policies>>
      BY <1>8 DEF Push, Advance, BackToLoop
    <2>2. QED
      BY <1>1, <1>3, <2>1, InsideKeeps
  <1>9. CASE Persist
    <2>1. step # "idle" /\ UNCHANGED <<directive, had, answered>>
      BY <1>9 DEF Persist, BackToLoop
    <2>2. call.gbr \in Numbers /\ call.mbr \in Numbers
      BY <1>1, <1>9 DEF Persist, CoreInv, CallUnderWay, Call
    <2>3. UNCHANGED policies \/ Upsert(Intent, call.gbr, call.mbr)
      BY <1>9 DEF Persist
    <2>4. QED
      BY <1>1, <1>3, <2>1, <2>2, <2>3, InsideKeeps
  <1>10. CASE (FinalAnswer \/ LoopRaises \/ AgentDies) /\ UNCHANGED <<policies, limit>>
    BY <1>1, <1>2, <1>10, OtherEndsKeep
  <1>11. CASE NothingToRevert
    BY <1>1, <1>2, <1>11, OtherEndsKeep DEF NothingToRevert
  <1>12. CASE Restore
    <2>1. step = "restore" /\ HasRow(Intent) /\ UNCHANGED policies
      BY <1>12 DEF Restore
    <2>2. CASE Advance("release")
      <3>1. UNCHANGED <<directive, had, answered>>
        BY <2>2 DEF Advance
      <3>2. QED
        BY <1>1, <1>3, <2>1, <3>1, InsideKeeps
    <2>3. CASE End("failed")
      BY <1>1, <1>2, <2>1, <2>3, RevertEndsKeep
    <2>4. QED
      BY <1>12, <2>2, <2>3 DEF Restore
  <1>13. CASE Release
    BY <1>1, <1>2, <1>13, RevertEndsKeep DEF Release
  <1>14. ASSUME NEW tool \in AllTools, NEW i \in Intents, NEW given \in Targets,
                Receive(tool, i, given)
         PROVE  Goal
    <2>1. Contract!Take(tool, i)
      BY <1>1, <1>14, ReceiveKeeps
    <2>2. QED
      BY <2>1 DEF Contract!Next, Contract!Tools, AllTools
  <1>15. CASE UNCHANGED coreVars
    <2>1. UNCHANGED <<policies, directive, had, answered>>
      BY <1>15 DEF coreVars, serverVars
    <2>2. QED
      BY <2>1 DEF Contract!contractVars, Held, Serving, Idle, Intent, HasRow
  <1> HIDE DEF Goal
  <1>16. Goal
    BY <1>1, <1>5, <1>6, <1>7, <1>8, <1>9, <1>10, <1>11, <1>12, <1>13, <1>14, <1>15
       DEF Next, Carry
  <1>17. QED
    BY <1>16

\* To its callers the CN-NSSMF is the agent DomainContract describes.
THEOREM CoreKeepsTheContract == Spec => KeepsTheContract
  <1>1. QED
    BY ContractInit, ContractStep, CoreInvariance, PTL DEF Spec, KeepsTheContract, Contract!Spec

\* A read-only directive changes nothing, whatever its model asks for.
THEOREM ReportsAreReadOnly == Spec => ReportsChangeNothing
  <1>1. CoreInv /\ [Next]_coreVars =>
          [~Idle /\ directive.tool = "report" => UNCHANGED <<policies, limit>>]_coreVars
    <2>1. SUFFICES ASSUME CoreInv, Next, ~Idle, directive.tool = "report"
                   PROVE  UNCHANGED <<policies, limit>>
      OBVIOUS
    <2>2. step = "loop"
      BY <2>1 DEF CoreInv, RowWhileServing
    <2>3. \A c : Rejected(c)
      BY <2>1, OnlyAppliesAct
    <2>4. QED
      BY <2>1, <2>2, <2>3
         DEF Next, Carry, Answered, ConfigureQos, Amend, Push, Persist, NothingToRevert, Restore,
             Release, Receive, Take
  <1>2. QED
    BY <1>1, CoreInvariance, PTL DEF Spec, ReportsChangeNothing

-----------------------------------------------------------------------------
(***************************************************************************)
(* What the statuses mean at the UPF, with the shaper and the guardrails   *)
(* on.                                                                     *)
(***************************************************************************)

\* A call that passes the guardrails asks for rates the UPF can take, and for
\* the guarantee of its directive.
LEMMA PassedRates ==
  ASSUME GuardrailsEnabled, directive \in Directive, NEW c \in ConfigureCalls,
         ~Rejected(c), ~PinRaises(c)
  PROVE  LET args == Filled(c) IN
         /\ Covers(args.gbr, IF args.mbr = None THEN args.gbr ELSE args.mbr)
         /\ OnTarget(args.gbr)
  <1> DEFINE args == Filled(c)
  <1>1. args \in [gbr : Numbers, mbr : Numbers] /\ args.mbr = c.args.mbr
    BY FilledType
  <1>2. args.gbr \in Numbers /\ args.mbr \in Numbers
    BY <1>1
  <1>3. directive.tool = "apply" /\ Deciding(c)
    BY OnlyAppliesAct DEF Deciding, ConfigureCalls
  <1>4. IsRate(args.gbr) /\ IsOptionalRate(c.args.mbr) /\ NotBelow(c.args.mbr, args.gbr)
    BY <1>3 DEF Rejected, Refused, Valid, ValidConfigureQos
  <1>5. OnTarget(args.gbr)
    <2>1. CASE directive.target = None
      BY <2>1 DEF OnTarget
    <2>2. CASE directive.target # None /\ c.args.gbr = None
      <3>1. args = [c.args EXCEPT !.gbr = directive.target]
        BY <1>3, <2>2 DEF Filled, Pinned
      <3>2. c.args \in [gbr : Numbers, mbr : Numbers]
        BY SettingsAssumption DEF ConfigureCalls
      <3>3. QED
        BY <3>1, <3>2 DEF OnTarget
    <2>3. CASE directive.target # None /\ c.args.gbr # None
      <3>1. c.args.gbr = directive.target /\ args = c.args
        BY <1>3, <2>3 DEF Rejected, OffTarget, Pinned, Filled
      <3>2. QED
        BY <3>1 DEF OnTarget
    <2>4. QED
      BY <2>1, <2>2, <2>3
  <1> HIDE DEF args
  <1>6. args.gbr \in Int /\ args.gbr > 0
    BY <1>2, <1>4 DEF IsRate, IsPositive, IsNumber, Numbers
  <1>7. Covers(args.gbr, IF args.mbr = None THEN args.gbr ELSE args.mbr)
    <2>1. CASE args.mbr = None
      BY <1>6, <2>1 DEF Covers
    <2>2. CASE args.mbr # None
      <3>1. args.mbr \in Int
        BY <1>1, <1>2, <1>4, <2>2 DEF IsOptionalRate, IsRate, IsPositive, IsNumber, Numbers
      <3>2. args.mbr >= args.gbr
        BY <1>1, <1>4, <1>6, <2>2, ArgumentsAssumption DEF NotBelow
      <3>3. QED
        BY <1>6, <2>2, <3>1, <3>2 DEF Covers
    <2>3. QED
      BY <2>1, <2>2
  <1>8. QED
    BY <1>5, <1>7 DEF args

\* A row that is written from a call holds the rates of the call.
LEMMA UpsertRates ==
  ASSUME CoreTypeOK, NEW i \in Intents, NEW gbr \in Int, NEW mbr \in Int, Upsert(i, gbr, mbr)
  PROVE  /\ policies'[i].gbr = gbr /\ policies'[i].mbr = mbr
         /\ \A j \in Intents \ {i} : policies'[j] = policies[j]
  <1>1. gbr # None /\ mbr # None
    BY ArgumentsAssumption
  <1>2. policies \in [Intents -> Policy \cup {Nothing}]
    BY DEF CoreTypeOK
  <1>3. QED
    BY <1>1, <1>2 DEF Upsert, Coalesce

LEMMA EnforcingInit == Init => EnforcingInv
  BY DEF Init, ServerInit, LoopInit, EnforcingInv, CallRates, PersistHolds, ReleaseHolds,
         RowRates, ResultsOnTarget, HasRow

\* The steps that leave the rows and the limit alone.
LEMMA EnforcingLoop ==
  ASSUME CoreInv, EnforcingInv, IsReal, GuardrailsEnabled, UNCHANGED <<policies, limit>>,
         \/ \E c \in ToolCalls : Answered(c)
         \/ \E c \in ConfigureCalls : ConfigureQos(c)
         \/ \E c \in RecordCalls : Amend(c)
  PROVE  EnforcingInv'
  <1>1. step = "loop" /\ directive' = directive /\ Intent' = Intent
    BY DEF Answered, AnswerCall, ConfigureQos, BeginCall, Amend, InLoop, serverVars, Intent
  <1>2. RowRates'
    BY DEF EnforcingInv, RowRates, HasRow
  <1>3. CASE \E c \in ToolCalls : Answered(c)
    <2>1. PICK c \in ToolCalls : Answered(c)
      BY <1>3
    <2>2. step' = "loop" /\ (TracedFromCache(c, Deciding(c)) \/ Traced(c, "failed", Deciding(c)))
      BY <1>1, <2>1 DEF Answered, AnswerCall, serverVars
    <2>3. PICK result : /\ Traced(c, result, Deciding(c))
                        /\ Deciding(c) /\ result = "applied" => OnTarget(policies[Intent].gbr)
      <3>1. CASE Traced(c, "failed", Deciding(c))
        BY <3>1
      <3>2. CASE TracedFromCache(c, Deciding(c))
        <4>1. Repeated(c) /\ Traced(c, ResultOf(c), Deciding(c))
          BY <3>2 DEF TracedFromCache
        <4>2. PICK e \in seen : e.call = c /\ ResultOf(c) = e.result
          BY <4>1, CachedResult
        <4>3. Deciding(c) /\ ResultOf(c) = "applied" => OnTarget(policies[Intent].gbr)
          BY <4>2 DEF EnforcingInv, ResultsOnTarget
        <4>4. QED
          BY <4>1, <4>3
      <3>3. QED
        BY <2>2, <3>1, <3>2
    <2>4. ResultsOnTarget'
      BY <1>1, <2>3 DEF EnforcingInv, ResultsOnTarget, Traced, OnTarget, Deciding
    <2>5. QED
      BY <1>2, <2>2, <2>4 DEF EnforcingInv, CallRates, PersistHolds, ReleaseHolds
  <1>4. CASE \E c \in ConfigureCalls : ConfigureQos(c)
    <2>1. PICK c \in ConfigureCalls : ConfigureQos(c)
      BY <1>4
    <2>2. /\ step' = "push" /\ ~PinRaises(c) /\ ~Rejected(c)
          /\ UNCHANGED <<seen, last>>
          /\ call'.gbr = Filled(c).gbr
          /\ call'.mbr = IF Filled(c).mbr = None THEN Filled(c).gbr ELSE Filled(c).mbr
      BY <2>1 DEF ConfigureQos, BeginCall, loopVars
    <2>3. Covers(call'.gbr, call'.mbr) /\ OnTarget(call'.gbr)
      BY <1>1, <2>2, Busy, PassedRates
    <2>4. CallRates'
      BY <1>1, <2>2, <2>3 DEF CallRates, Covers, OnTarget
    <2>5. ResultsOnTarget'
      BY <1>1, <2>2 DEF EnforcingInv, ResultsOnTarget, OnTarget, Deciding
    <2>6. QED
      BY <1>2, <2>2, <2>4, <2>5 DEF EnforcingInv, PersistHolds, ReleaseHolds
  <1>5. CASE \E c \in RecordCalls : Amend(c)
    <2>1. PICK c \in RecordCalls : Amend(c)
      BY <1>5
    <2>2. step' = "loop" /\ ~Deciding(c)
      BY <1>1, <2>1 DEF Amend, serverVars, Deciding, RecordCalls
    <2>3. PICK result : Traced(c, result, FALSE)
      BY <2>1 DEF Amend
    <2>4. ResultsOnTarget'
      BY <1>1, <2>2, <2>3 DEF EnforcingInv, ResultsOnTarget, Traced, OnTarget, Deciding
    <2>5. QED
      BY <1>2, <2>2, <2>4 DEF EnforcingInv, CallRates, PersistHolds, ReleaseHolds
  <1>6. QED
    BY <1>3, <1>4, <1>5

\* The steps of a push.
LEMMA EnforcingPush ==
  ASSUME CoreInv, EnforcingInv, IsReal, UpfShaping, Push
  PROVE  EnforcingInv'
  <1>1. step = "push" /\ UNCHANGED policies /\ directive' = directive /\ Intent' = Intent
    BY DEF Push, Advance, BackToLoop, Intent
  <1>2. RowRates'
    BY <1>1 DEF EnforcingInv, RowRates, HasRow
  <1>3. CASE PushAccepted(call.mbr) /\ Advance("persist")
    <2>1. step' = "persist" /\ UNCHANGED <<call, seen, last>> /\ limit' = call.mbr
      BY <1>3 DEF Advance, loopVars, PushAccepted, Pushed
    <2>2. QED
      BY <1>1, <1>2, <2>1 DEF EnforcingInv, CallRates, PersistHolds, ReleaseHolds,
                              ResultsOnTarget, OnTarget, Deciding
  <1>4. CASE BackToLoop("failed")
    <2>1. step' = "loop" /\ Traced(call.asked, "failed", TRUE)
      BY <1>4 DEF BackToLoop
    <2>2. ResultsOnTarget'
      BY <1>1, <2>1 DEF EnforcingInv, ResultsOnTarget, Traced, OnTarget, Deciding
    <2>3. QED
      BY <1>2, <2>1, <2>2 DEF EnforcingInv, CallRates, PersistHolds, ReleaseHolds
  <1>5. QED
    BY <1>3, <1>4 DEF Push

\* The steps that write a row.
LEMMA EnforcingPersist ==
  ASSUME CoreInv, EnforcingInv, Persist
  PROVE  EnforcingInv'
  <1>1. /\ step = "persist" /\ step' = "loop" /\ UNCHANGED <<directive, limit>>
        /\ Intent' = Intent /\ Intent \in Intents /\ CoreTypeOK
    BY Busy DEF Persist, BackToLoop, Intent, CoreInv
  <1>2. Covers(call.gbr, call.mbr) /\ OnTarget(call.gbr)
    BY <1>1 DEF EnforcingInv, CallRates
  <1>3. CASE UNCHANGED policies /\ BackToLoop("failed")
    <2>1. RowRates'
      BY <1>3 DEF EnforcingInv, RowRates, HasRow
    <2>2. ResultsOnTarget'
      BY <1>1, <1>3 DEF EnforcingInv, ResultsOnTarget, Traced, BackToLoop, OnTarget, Deciding
    <2>3. QED
      BY <1>1, <2>1, <2>2 DEF EnforcingInv, CallRates, PersistHolds, ReleaseHolds
  <1>4. CASE Upsert(Intent, call.gbr, call.mbr)
    <2>1. /\ policies'[Intent].gbr = call.gbr /\ policies'[Intent].mbr = call.mbr
          /\ \A j \in Intents \ {Intent} : policies'[j] = policies[j]
      BY <1>1, <1>2, <1>4, UpsertRates DEF Covers
    <2>2. RowRates'
      BY <1>2, <2>1 DEF EnforcingInv, RowRates, HasRow
    <2>3. OnTarget(policies[Intent].gbr)'
      BY <1>1, <1>2, <2>1 DEF OnTarget
    <2>4. ResultsOnTarget'
      BY <2>3 DEF ResultsOnTarget
    <2>5. QED
      BY <1>1, <2>2, <2>4 DEF EnforcingInv, CallRates, PersistHolds, ReleaseHolds
  <1>5. QED
    BY <1>3, <1>4 DEF Persist

\* The end of a directive leaves no call and no results.
LEMMA EnforcingEnd ==
  ASSUME CoreInv, EnforcingInv, NEW status, End(status),
         \A i \in Intents : policies'[i] \in {policies[i], Nothing}
  PROVE  EnforcingInv'
  <1>1. step' = "idle" /\ seen' = {} /\ last' = "none"
    BY DEF End, LoopReset
  <1>2. RowRates'
    BY DEF EnforcingInv, RowRates, HasRow
  <1>3. QED
    BY <1>1, <1>2 DEF EnforcingInv, CallRates, PersistHolds, ReleaseHolds, ResultsOnTarget

\* A revert: what remains is in force before the row is released.
LEMMA EnforcingRestore ==
  ASSUME CoreInv, EnforcingInv, IsReal, UpfShaping, Restore
  PROVE  EnforcingInv'
  <1>1. step = "restore" /\ UNCHANGED policies
    BY DEF Restore
  <1>2. CASE PushAccepted(RemainingRate) /\ Advance("release")
    <2>1. step' = "release" /\ UNCHANGED <<directive, call, seen, last>> /\ limit' = RemainingRate
      BY <1>2 DEF Advance, loopVars, PushAccepted, Pushed
    <2>2. RateInForce(Intents \ {Intent})' = RemainingRate
      BY <1>1, <2>1 DEF RemainingRate, RateInForce, Active, Newest, HasRow, Intent
    <2>3. RowRates'
      BY <1>1 DEF EnforcingInv, RowRates, HasRow
    <2>4. ResultsOnTarget'
      BY <1>1, <2>1 DEF EnforcingInv, ResultsOnTarget, OnTarget, Intent, Deciding
    <2>5. QED
      BY <2>1, <2>2, <2>3, <2>4 DEF EnforcingInv, CallRates, PersistHolds, ReleaseHolds
  <1>3. CASE End("failed")
    BY <1>1, <1>3, EnforcingEnd
  <1>4. QED
    BY <1>2, <1>3 DEF Restore

\* Every step of the agent keeps the invariant of the rates.
LEMMA EnforcingStep ==
  ASSUME IsReal, UpfShaping, GuardrailsEnabled
  PROVE  CoreInv /\ EnforcingInv /\ [Next]_coreVars => EnforcingInv'
  <1>1. SUFFICES ASSUME CoreInv, EnforcingInv, [Next]_coreVars
                 PROVE  EnforcingInv'
    OBVIOUS
  <1>2. CASE \/ \E c \in ToolCalls : Answered(c)
             \/ \E c \in ConfigureCalls : ConfigureQos(c)
             \/ \E c \in RecordCalls : Amend(c)
    <2>1. UNCHANGED <<policies, limit>>
      BY <1>2 DEF Answered, ConfigureQos, Amend
    <2>2. QED
      BY <1>1, <1>2, <2>1, EnforcingLoop
  <1>3. CASE Push
    BY <1>1, <1>3, EnforcingPush
  <1>4. CASE Persist
    BY <1>1, <1>4, EnforcingPersist
  <1>5. CASE (FinalAnswer \/ LoopRaises \/ AgentDies) /\ UNCHANGED <<policies, limit>>
    BY <1>1, <1>5, EnforcingEnd DEF FinalAnswer, LoopRaises, AgentDies
  <1>6. CASE NothingToRevert
    BY <1>1, <1>6, EnforcingEnd DEF NothingToRevert
  <1>7. CASE Restore
    BY <1>1, <1>7, EnforcingRestore
  <1>8. CASE Release
    <2>1. \A i \in Intents : policies'[i] \in {policies[i], Nothing}
      BY <1>1, <1>8 DEF Release, CoreInv, CoreTypeOK
    <2>2. QED
      BY <1>1, <1>8, <2>1, EnforcingEnd DEF Release
  <1>9. CASE \E tool \in AllTools, i \in Intents, given \in Targets : Receive(tool, i, given)
    <2>1. /\ Idle /\ step' \in {"loop", "restore"}
          /\ UNCHANGED <<policies, seen, last>>
      BY <1>9 DEF Receive, Take, loopVars
    <2>2. seen = {} /\ last = "none"
      BY <1>1, <2>1 DEF CoreInv, AtRest, LoopInit
    <2>3. QED
      BY <1>1, <2>1, <2>2 DEF EnforcingInv, CallRates, PersistHolds, ReleaseHolds, RowRates,
                              ResultsOnTarget, HasRow
  <1>10. CASE UNCHANGED coreVars
    <2>1. UNCHANGED <<policies, limit, directive, step, call, seen, last>>
      BY <1>10 DEF coreVars, serverVars, loopVars
    <2>2. RateInForce(Intents \ {Intent})' = RateInForce(Intents \ {Intent})
      BY <2>1 DEF RateInForce, Active, Newest, HasRow, Intent
    <2>3. CallRates' /\ PersistHolds' /\ ReleaseHolds'
      BY <1>1, <2>1, <2>2 DEF EnforcingInv, CallRates, PersistHolds, ReleaseHolds, OnTarget
    <2>4. RowRates' /\ ResultsOnTarget'
      BY <1>1, <2>1 DEF EnforcingInv, RowRates, ResultsOnTarget, OnTarget, HasRow, Intent,
                        Deciding
    <2>5. QED
      BY <2>3, <2>4 DEF EnforcingInv
  <1>11. QED
    BY <1>1, <1>2, <1>3, <1>4, <1>5, <1>6, <1>7, <1>8, <1>9, <1>10 DEF Next, Carry

\* The rates in the tables and in the steps, in every reachable state.
THEOREM RatesInvariance ==
  ASSUME IsReal, UpfShaping, GuardrailsEnabled
  PROVE  Spec => []EnforcingInv
  <1>1. QED
    BY EnforcingInit, EnforcingStep, CoreInvariance, PTL DEF Spec

\* "applied" means the guarantee that was asked for, within the rate allowed.
THEOREM AppliedIsOnTarget ==
  ASSUME IsReal, UpfShaping, GuardrailsEnabled
  PROVE  Spec => AppliedHoldsTarget
  <1> DEFINE A == Ends /\ answered' = "applied" =>
                    LET p == policies'[Intent] IN
                    /\ directive.target # None => p.gbr = directive.target
                    /\ p.mbr >= p.gbr
  <1>1. CoreInv /\ EnforcingInv /\ [Next]_coreVars => [A]_coreVars
    <2>1. SUFFICES ASSUME CoreInv, EnforcingInv, Next, Ends, answered' = "applied"
                   PROVE  A
      BY DEF A
    <2>2. ~Idle /\ directive' = Nothing /\ directive # Nothing
      BY <2>1 DEF Ends, Idle
    <2>3. FinalAnswer /\ UNCHANGED policies
      <3>1. ASSUME NEW tool, NEW i, NEW given, Receive(tool, i, given)
            PROVE  FALSE
        BY <2>2, <3>1 DEF Receive, Take
      <3>2. ~(Push \/ Persist)
        BY <2>1, <2>2 DEF Push, Persist, Advance, BackToLoop, End
      <3>3. ~(Restore \/ Release \/ NothingToRevert \/ LoopRaises \/ AgentDies)
        BY <2>1, <2>2 DEF Restore, Release, NothingToRevert, LoopRaises, AgentDies, Advance, End
      <3>4. ASSUME NEW c, Answered(c) \/ ConfigureQos(c) \/ Amend(c)
            PROVE  FALSE
        BY <2>2, <3>4 DEF Answered, AnswerCall, ConfigureQos, BeginCall, Amend, serverVars
      <3>5. QED
        BY <2>1, <3>1, <3>2, <3>3, <3>4 DEF Next, Carry
    <2>4. last = "applied"
      BY <2>1, <2>3 DEF FinalAnswer, End, DirectiveStatus
    <2>5. HasRow(Intent) /\ Intent \in Intents
      BY <2>1, <2>2, <2>4 DEF CoreInv, ResultsBacked, CoreTypeOK, Intent, Directive
    <2>6. Covers(policies[Intent].gbr, policies[Intent].mbr) /\ OnTarget(policies[Intent].gbr)
      BY <2>1, <2>4, <2>5 DEF EnforcingInv, RowRates, ResultsOnTarget
    <2>7. QED
      BY <2>3, <2>6 DEF A, Covers, OnTarget
  <1>2. QED
    BY <1>1, CoreInvariance, RatesInvariance, PTL DEF Spec, AppliedHoldsTarget

\* A row that is written says what the UPF enforces at that moment.
THEOREM RecordsTellTheTruth ==
  ASSUME IsReal, UpfShaping, GuardrailsEnabled
  PROVE  Spec => RecordedOnlyWhatIsInForce
  <1> DEFINE A == \A i \in Intents :
                    policies'[i] \notin {policies[i], Nothing} => limit = policies'[i].mbr
  <1>1. CoreInv /\ EnforcingInv /\ [Next]_coreVars => [A]_coreVars
    <2>1. SUFFICES ASSUME CoreInv, EnforcingInv, Next
                   PROVE  A
      BY DEF A
    <2>2. CASE Persist
      <3>1. step = "persist" /\ Intent \in Intents /\ CoreTypeOK /\ limit = call.mbr
            /\ Covers(call.gbr, call.mbr)
        BY <2>1, <2>2, Busy DEF Persist, CoreInv, EnforcingInv, CallRates, PersistHolds
      <3>2. CASE UNCHANGED policies
        BY <3>2 DEF A
      <3>3. CASE Upsert(Intent, call.gbr, call.mbr)
        <4>1. /\ policies'[Intent].mbr = call.mbr
              /\ \A j \in Intents \ {Intent} : policies'[j] = policies[j]
          BY <3>1, <3>3, UpsertRates DEF Covers
        <4>2. QED
          BY <3>1, <4>1 DEF A
      <3>4. QED
        BY <2>2, <3>2, <3>3 DEF Persist
    <2>3. CASE Release
      BY <2>1, <2>3 DEF Release, CoreInv, CoreTypeOK, A
    <2>4. CASE ~Persist /\ ~Release
      <3>1. UNCHANGED policies
        BY <2>1, <2>4 DEF Next, Carry, Answered, ConfigureQos, Amend, Push, NothingToRevert,
                          Restore, Receive
      <3>2. QED
        BY <3>1 DEF A
    <2>5. QED
      BY <2>2, <2>3, <2>4
  <1>2. QED
    BY <1>1, CoreInvariance, RatesInvariance, PTL DEF Spec, RecordedOnlyWhatIsInForce

\* Once the row is released, the UPF has the rate of the newest policy left.
LEMMA ReleaseRestores ==
  ASSUME CoreInv, EnforcingInv, step = "release", UNCHANGED limit,
         policies' = [policies EXCEPT ![Intent] = Nothing]
  PROVE  limit' = RateInForce(Intents)' /\ LimitBacked'
  <1>1. Intent \in Intents /\ CoreTypeOK
    BY Busy DEF CoreInv
  <1>2. limit = RateInForce(Intents \ {Intent})
    BY DEF EnforcingInv, ReleaseHolds
  <1> DEFINE S == Active(Intents \ {Intent})
  <1>3. Active(Intents)' = S /\ S \in SUBSET Intents
    BY <1>1 DEF Active, HasRow, CoreTypeOK
  <1>4. \A i \in S : policies'[i] = policies[i]
    BY <1>1 DEF Active, CoreTypeOK
  <1>5. CASE S = {}
    BY <1>2, <1>3, <1>5 DEF RateInForce, LimitBacked
  <1>6. CASE S # {}
    <2>1. Newest(S) \in S
      BY <1>1, <1>3, <1>6, NewestIsOne DEF Active
    <2>2. Newest(Active(Intents))' = Newest(S)
      <3>1. \A i \in S : (\A j \in S : policies'[j].at <= policies'[i].at)
                           <=> (\A j \in S : policies[j].at <= policies[i].at)
        BY <1>4
      <3> HIDE DEF S
      <3>2. (CHOOSE i \in S : \A j \in S : policies'[j].at <= policies'[i].at)
              = CHOOSE i \in S : \A j \in S : policies[j].at <= policies[i].at
        BY <3>1, Zenon
      <3>3. Newest(Active(Intents))'
              = CHOOSE i \in S : \A j \in S : policies'[j].at <= policies'[i].at
        BY <1>3, Zenon DEF Newest
      <3>4. QED
        BY <3>2, <3>3, Zenon DEF Newest
    <2>3. RateInForce(Intents)' = policies'[Newest(S)].mbr
      BY <1>3, <1>6, <2>2 DEF RateInForce
    <2>4. RateInForce(Intents \ {Intent}) = policies[Newest(S)].mbr
      BY <1>6 DEF RateInForce
    <2>5. limit' = policies'[Newest(S)].mbr
      BY <1>2, <1>4, <2>1, <2>4
    <2>6. LimitBacked'
      BY <1>3, <1>6, <2>1, <2>5 DEF LimitBacked
    <2>7. QED
      BY <2>3, <2>5, <2>6
  <1>7. QED
    BY <1>5, <1>6

\* Every step of the agent keeps the limit backed by a policy.
LEMMA BackedStep ==
  ASSUME IsReal, UpfShaping, GuardrailsEnabled
  PROVE  CoreInv /\ EnforcingInv /\ BackedUntilFault /\ [Next]_coreVars => BackedUntilFault'
  <1>1. SUFFICES ASSUME CoreInv, EnforcingInv, BackedUntilFault, [Next]_coreVars,
                        faults' = 0, step' \notin {"persist", "release"}
                 PROVE  LimitBacked'
    BY DEF BackedUntilFault
  <1>2. CoreTypeOK
    BY <1>1 DEF CoreInv
  <1>3. ~Fault
    BY <1>1, <1>2, BoundsAssumption DEF Fault, CoreTypeOK
  <1>4. CASE step \in {"persist", "release"} /\ Persist
    <2>1. Upsert(Intent, call.gbr, call.mbr) /\ UNCHANGED limit /\ step = "persist"
      BY <1>3, <1>4 DEF Persist
    <2>2. Intent \in Intents /\ limit = call.mbr /\ Covers(call.gbr, call.mbr) /\ call \in Call
      BY <1>1, <2>1, Busy DEF EnforcingInv, PersistHolds, CallRates, CoreInv, CallUnderWay
    <2>3. policies'[Intent].mbr = call.mbr
      BY <1>2, <2>1, <2>2, UpsertRates DEF Covers
    <2>4. policies'[Intent] \in Policy
      BY <1>2, <2>1, <2>2, UpsertType DEF Call
    <2>5. Intent \in Active(Intents)'
      BY <2>2, <2>4, NothingAssumption DEF Active, HasRow
    <2>6. QED
      BY <2>1, <2>2, <2>3, <2>5 DEF LimitBacked
  <1>5. CASE Release
    BY <1>1, <1>3, <1>5, ReleaseRestores DEF Release
  <1>6. CASE UNCHANGED <<policies, limit>> /\ step \notin {"persist", "release"} /\ faults = 0
    BY <1>1, <1>6 DEF BackedUntilFault, LimitBacked, Active, HasRow
  <1>7. CASE ~Persist /\ ~Release
    <2>1. AgentDies \/ (step \notin {"persist", "release"} /\ faults = 0
                          /\ UNCHANGED <<policies, limit>>)
      <3>1. CASE \/ \E c \in ToolCalls : Answered(c)
                 \/ \E c \in ConfigureCalls : ConfigureQos(c)
                 \/ \E c \in RecordCalls : Amend(c)
        BY <1>1, <3>1 DEF Answered, AnswerCall, ConfigureQos, BeginCall, Amend, InLoop,
                          serverVars
      <3>2. CASE Push \/ Restore
        BY <1>1, <1>3, <3>2 DEF Push, Restore, PushFails, Advance
      <3>3. CASE (FinalAnswer \/ LoopRaises) /\ UNCHANGED <<policies, limit>>
        BY <1>1, <3>3 DEF FinalAnswer, LoopRaises, InLoop
      <3>4. CASE NothingToRevert
        BY <1>1, <3>4 DEF NothingToRevert
      <3>5. CASE \E tool \in AllTools, i \in Intents, given \in Targets : Receive(tool, i, given)
        BY <1>1, <3>5 DEF Receive, Take, CoreInv, AtRest
      <3>6. CASE UNCHANGED coreVars
        BY <1>1, <3>6 DEF coreVars, serverVars
      <3>7. QED
        BY <1>1, <1>7, <3>1, <3>2, <3>3, <3>4, <3>5, <3>6 DEF Next, Carry
    <2>2. ~AgentDies
      BY <1>3 DEF AgentDies
    <2>3. QED
      BY <1>6, <2>1, <2>2
  <1>8. Persist => step = "persist"
    BY DEF Persist
  <1>9. QED
    BY <1>4, <1>5, <1>7, <1>8

\* While nothing goes wrong, the limit at the UPF is that of an active policy.
THEOREM UpfHoldsPolicies ==
  ASSUME IsReal, UpfShaping, GuardrailsEnabled
  PROVE  Spec => []UpfHoldsAnActivePolicy
  <1>1. Init => BackedUntilFault
    BY DEF Init, BackedUntilFault, LimitBacked, Active, HasRow
  <1>2. CoreInv /\ BackedUntilFault => UpfHoldsAnActivePolicy
    BY DEF CoreInv, AtRest, BackedUntilFault, UpfHoldsAnActivePolicy
  <1>3. QED
    BY <1>1, <1>2, BackedStep, CoreInvariance, RatesInvariance, PTL DEF Spec

\* A revert that reports success leaves the UPF with the rate of the newest
\* policy still active, or without a limit.
THEOREM RevertRestores ==
  ASSUME IsReal, UpfShaping, GuardrailsEnabled
  PROVE  Spec => RestoredOnRevert
  <1> DEFINE A == answered' = "reverted" /\ answered # "reverted"
                    => limit' = RateInForce(Intents)'
  <1>1. CoreInv /\ EnforcingInv /\ [Next]_coreVars => [A]_coreVars
    <2>1. SUFFICES ASSUME CoreInv, EnforcingInv, Next,
                          answered' = "reverted", answered # "reverted"
                   PROVE  limit' = RateInForce(Intents)'
      BY DEF A
    <2>2. Release
      <3>1. ~(Push \/ Persist)
        BY <2>1 DEF Push, Persist, Advance, BackToLoop
      <3>2. ~(Restore \/ NothingToRevert \/ LoopRaises \/ AgentDies)
        BY <2>1 DEF Restore, NothingToRevert, LoopRaises, AgentDies, Advance, End
      <3>3. ~FinalAnswer
        BY <2>1 DEF FinalAnswer, End, DirectiveStatus, CoreInv, CoreTypeOK
      <3>4. ASSUME NEW c, Answered(c) \/ ConfigureQos(c) \/ Amend(c)
            PROVE  FALSE
        BY <2>1, <3>4 DEF Answered, AnswerCall, ConfigureQos, BeginCall, Amend, serverVars
      <3>5. ASSUME NEW tool, NEW i, NEW given, Receive(tool, i, given)
            PROVE  FALSE
        BY <2>1, <3>5 DEF Receive, Take
      <3>6. QED
        BY <2>1, <3>1, <3>2, <3>3, <3>4, <3>5 DEF Next, Carry
    <2>3. QED
      BY <2>1, <2>2, ReleaseRestores DEF Release, End
  <1>2. QED
    BY <1>1, CoreInvariance, RatesInvariance, PTL DEF Spec, RestoredOnRevert

=============================================================================
