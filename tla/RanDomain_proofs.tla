-------------------------- MODULE RanDomain_proofs --------------------------
(***************************************************************************)
(* The RAN-NSSMF and the gNB slicer for any cell, intents and bounds, with *)
(* the guardrails on: type correctness, the inductive invariants, the      *)
(* refinement of DomainContract, what a confirmed revert means at the gNB, *)
(* and, with one intent in each slice, that the cell is not oversold.      *)
(***************************************************************************)
EXTENDS RanDomainInv, TLAPS, WellFoundedInduction

(***************************************************************************)
(* The operators.                                                          *)
(***************************************************************************)

\* Rounding up divides by a positive number and stays a natural number.
LEMMA CeilDivNat ==
  ASSUME NEW a \in Nat, NEW b \in Nat \ {0}
  PROVE  CeilDiv(a, b) \in Nat
  <1>1. a + b - 1 \in Nat
    OBVIOUS
  <1>2. (a + b - 1) \div b \in Nat
    BY <1>1
  <1>3. QED
    BY <1>2 DEF CeilDiv

\* A share of the cell is a percentage.
LEMMA RatioOfType ==
  ASSUME NEW prb \in Nat \cup {Unreserved}
  PROVE  RatioOf(prb) \in 0..100
  <1>1. CASE prb \in {Unreserved, 0}
    BY <1>1 DEF RatioOf
  <1>2. CASE prb \notin {Unreserved, 0}
    <2>1. CeilDiv(100 * prb, PrbTotal) \in Nat
      BY <1>2, CeilDivNat, PrbTotalAssumption
    <2>2. QED
      BY <1>2, <2>1 DEF RatioOf, AtMost
  <1>3. QED
    BY <1>1, <1>2

LEMMA RatiosType ==
  ASSUME NEW r \in Reservation
  PROVE  Ratios(r) \in Ratio
  BY RatioOfType DEF Ratios, Ratio, Reservation

\* The newest of some allocations is one of them.
LEMMA NewestIsOne ==
  ASSUME RanTypeOK, NEW S \in SUBSET Intents, S # {}, \A i \in S : HasRow(i)
  PROVE  Newest(S) \in S
  <1> DEFINE age(i) == MaxDirectives - rows[i].at
             ages == {age(i) : i \in S}
  <1>1. \A i \in S : rows[i] \in Allocation
    BY DEF RanTypeOK, HasRow
  <1>2. \A i \in S : rows[i].at \in 0..MaxDirectives
    BY <1>1 DEF Allocation
  <1>3. ages \subseteq Nat /\ ages # {}
    BY <1>2, BoundsAssumption
  <1>4. PICK m \in ages : \A n \in ages : <<n, m>> \notin OpToRel(<, Nat)
    <2> HIDE DEF ages
    <2>1. QED
      BY <1>3, NatLessThanWellFounded, WFMin, Zenon
  <1>5. \A n \in ages : ~(n < m)
    <2> HIDE DEF ages
    <2>1. QED
      BY <1>3, <1>4, Zenon DEF OpToRel
  <1>6. PICK i \in S : m = age(i)
    BY <1>4
  <1>7. \A j \in S : rows[j].at <= rows[i].at
    <2>1. TAKE j \in S
    <2>2. ~(age(j) < age(i))
      BY <1>5, <1>6
    <2>3. QED
      BY <1>2, <2>2, BoundsAssumption
  <1>8. QED
    BY <1>7 DEF Newest

\* The reservation of a slice is that of one of its intents, if it has any.
LEMMA ReservedForOne ==
  ASSUME RanTypeOK, NEW s \in Slices, NEW S \in SUBSET Intents
  PROVE  LET own == {i \in S : HasRow(i) /\ SliceOf[i] = s} IN
         /\ own = {} => ReservedFor(s, S) = Unreserved
         /\ own # {} => \E i \in own : ReservedFor(s, S) = rows[i].prb /\ rows[i].prb \in Nat
  <1> DEFINE own == {i \in S : HasRow(i) /\ SliceOf[i] = s}
  <1>1. ASSUME own # {}
        PROVE  Newest(own) \in own /\ rows[Newest(own)].prb \in Nat
    <2>1. Newest(own) \in own
      BY <1>1, NewestIsOne
    <2>2. rows[Newest(own)] \in Allocation
      BY <2>1 DEF RanTypeOK, HasRow
    <2>3. QED
      BY <2>1, <2>2 DEF Allocation
  <1>2. ReservedFor(s, S) = IF own = {} THEN Unreserved ELSE rows[Newest(own)].prb
    BY DEF ReservedFor
  <1> HIDE DEF own
  <1>3. (own = {} => ReservedFor(s, S) = Unreserved)
        /\ (own # {} => \E i \in own : ReservedFor(s, S) = rows[i].prb /\ rows[i].prb \in Nat)
    BY <1>1, <1>2
  <1>4. QED
    BY <1>3 DEF own

LEMMA ReservationsType ==
  ASSUME RanTypeOK, NEW S \in SUBSET Intents
  PROVE  Reservations(S) \in Reservation
  <1>1. \A s \in Slices : ReservedFor(s, S) \in Nat \cup {Unreserved}
    BY ReservedForOne
  <1>2. QED
    BY <1>1 DEF Reservations, Reservation

\* What a push carries is the state of the cell.
LEMMA PushedType ==
  ASSUME RanTypeOK, step \in {"push", "persist"} => call \in Call, Intent \in Intents
  PROVE  /\ Remaining \in Reservation
         /\ step \in {"push", "persist"} => Pushed \in Reservation
         /\ Wanted \in Reservation
  <1>1. Remaining \in Reservation
    BY ReservationsType DEF Remaining
  <1>2. SliceOf[Intent] \in Slices
    BY SliceOfAssumption
  <1>3. ASSUME call \in Call
        PROVE  Pushed \in Reservation
    <2>1. call.prb \in Nat
      BY <1>3 DEF Call
    <2>2. QED
      BY <1>1, <1>2, <2>1 DEF Pushed, Reservation
  <1>4. QED
    BY <1>1, <1>3 DEF Wanted

\* What is left for a slice lies within the cell and leaves the other slice
\* what it was promised.
LEMMA AvailableFits ==
  ASSUME RanTypeOK, Intent \in Intents, NEW used \in Nat
  PROVE  /\ Available(used) \in 0..PrbTotal
         /\ ReservedByOthers(SliceOf[Intent]) \in Nat
         /\ ReservedByOthers(SliceOf[Intent]) <= PrbTotal =>
              Available(used) + ReservedByOthers(SliceOf[Intent]) <= PrbTotal
  <1> DEFINE r == ReservedByOthers(SliceOf[Intent])
             m == Max({used, r})
  <1>1. OtherSlice(SliceOf[Intent]) \in Slices
    BY SliceOfAssumption DEF OtherSlice, Slices
  <1>2. r \in Nat
    BY <1>1, ReservedForOne DEF ReservedByOthers
  <1> HIDE DEF r
  <1>3. m \in {used, r} /\ m >= r
    <2>1. \E x \in {used, r} : \A y \in {used, r} : x >= y
      BY <1>2
    <2>2. QED
      BY <2>1 DEF Max
  <1> HIDE DEF m
  <1>4. m \in Nat
    BY <1>2, <1>3
  <1>5. Available(used) = PrbTotal - AtMost(m, PrbTotal)
    BY DEF Available, m, r
  <1>6. QED
    BY <1>2, <1>3, <1>4, <1>5, PrbTotalAssumption DEF AtMost, r

-----------------------------------------------------------------------------
(***************************************************************************)
(* The slicer on its own.                                                  *)
(***************************************************************************)

SlicerOK == SlicerTypeOK /\ SlicerKnowsTheGnb

\* Every step of the slicer keeps its types and its knowledge of the gNB.
LEMMA SlicerStepOK ==
  ASSUME SlicerOK, NEW p \in PutIds,
         \/ AnswerUnchanged(p) \/ BeginRestart(p) \/ Restarted(p)
         \/ RenderFails(p) \/ RestartFails(p) \/ SlicerRestarts
         \/ \E ratios \in Ratio : Arrive(p, ratios)
         \/ UNCHANGED slicerVars
  PROVE  SlicerOK'
  <1>1. p # 0 /\ (~Free(p) => waiting[p] \in Ratio)
    BY MaxPutsAssumption DEF SlicerOK, SlicerTypeOK, Free, PutIds
  <1>2. CASE AnswerUnchanged(p) \/ RenderFails(p) \/ UNCHANGED slicerVars
             \/ \E ratios \in Ratio : Arrive(p, ratios)
    BY <1>2 DEF SlicerOK, SlicerTypeOK, SlicerKnowsTheGnb, AnswerUnchanged, RenderFails, Arrive,
                slicerVars
  <1>3. CASE BeginRestart(p)
    BY <1>1, <1>3 DEF SlicerOK, SlicerTypeOK, SlicerKnowsTheGnb, BeginRestart
  <1>4. CASE Restarted(p)
    BY <1>1, <1>4 DEF SlicerOK, SlicerTypeOK, SlicerKnowsTheGnb, Restarted
  <1>5. CASE RestartFails(p) \/ SlicerRestarts
    BY <1>5 DEF SlicerOK, SlicerTypeOK, SlicerKnowsTheGnb, RestartFails, SlicerRestarts
  <1>6. QED
    BY <1>2, <1>3, <1>4, <1>5

-----------------------------------------------------------------------------
(***************************************************************************)
(* The invariant, by kind of step.                                         *)
(***************************************************************************)

\* Outside "idle" a directive is being carried out.
LEMMA Busy ==
  ASSUME RanInv, step # "idle"
  PROVE  ~Idle /\ directive \in Directive /\ Intent \in Intents /\ directive.tool \in AllTools
  BY DEF RanInv, AtRest, RanTypeOK, Idle, Intent, Directive

\* A fault keeps the count within its bound.
LEMMA FaultType ==
  ASSUME RanTypeOK, Fault \/ UNCHANGED faults
  PROVE  faults' \in 0..MaxFaults
  BY BoundsAssumption DEF RanTypeOK, Fault

\* A repeated call finds the result that was remembered for it.
LEMMA CachedResult ==
  ASSUME NEW c, Repeated(c)
  PROVE  \E e \in seen : e.call = c /\ ResultOf(c) = e.result
  BY DEF Repeated, ResultOf

LEMMA InitInv == Init => RanInv
  <1>1. SUFFICES ASSUME Init PROVE RanInv
    OBVIOUS
  <1>2. NoShare \in Ratio
    BY DEF NoShare, Ratio
  <1>3. SlicerTypeOK /\ SlicerKnowsTheGnb
    BY <1>1, <1>2 DEF Init, SlicerInit, SlicerTypeOK, SlicerKnowsTheGnb
  <1>4. RanTypeOK
    <2>1. rows \in [Intents -> Allocation \cup {Nothing}]
      BY <1>1 DEF Init
    <2>2. taken \in 0..MaxDirectives /\ faults \in 0..MaxFaults /\ calls \in Nat
      BY <1>1, BoundsAssumption DEF Init, ServerInit, LoopInit
    <2>3. QED
      BY <1>1, <1>3, <2>1, <2>2 DEF Init, ServerInit, LoopInit, RanTypeOK, Steps, Statuses
  <1>5. QED
    BY <1>1, <1>3, <1>4 DEF Init, ServerInit, LoopInit, RanInv, AtRest, RowWhileServing,
                            CallUnderWay, ResultsBacked, Idle, Sent, Waiting, Granted

\* A directive that comes in.
LEMMA ReceiveInv ==
  ASSUME RanInv, NEW tool \in AllTools, NEW i \in Intents, Receive(tool, i)
  PROVE  RanInv'
  <1> DEFINE d == [tool |-> tool, intent |-> i]
  <1>1. d \in Directive /\ d # Nothing
    BY NothingAssumption DEF Directive
  <1>2. directive' = d /\ had' = HasRow(i) /\ taken < MaxDirectives /\ taken' = taken + 1
    BY DEF Receive, Take
  <1>3. /\ step' = IF tool = "revert" THEN "restore" ELSE "loop"
        /\ answered' = "none" /\ Idle
        /\ UNCHANGED <<call, faults, seen, last, calls, rows, put, reply, givenUp>>
        /\ UNCHANGED <<waiting, lock, inForce, gnb>>
    BY DEF Receive, Take, loopVars, pushVars, slicerVars
  <1>4. /\ step = "idle" /\ call = Nothing /\ seen = {} /\ last = "none"
        /\ put = 0 /\ reply = "none"
    BY <1>3 DEF RanInv, AtRest, LoopInit
  <1>5. HasRow(i) \in BOOLEAN
    BY DEF HasRow
  <1>6. taken' \in 0..MaxDirectives
    BY <1>2, BoundsAssumption DEF RanInv, RanTypeOK
  <1>7. SlicerTypeOK' /\ SlicerKnowsTheGnb'
    BY <1>3 DEF RanInv, RanTypeOK, SlicerTypeOK, SlicerKnowsTheGnb
  <1>8. RanTypeOK'
    BY <1>1, <1>2, <1>3, <1>5, <1>6, <1>7 DEF RanInv, RanTypeOK, Steps, Statuses
  <1>9. RowWhileServing'
    <2>1. Intent' = i /\ directive'.tool = tool
      BY <1>2 DEF Intent
    <2>2. HasRow(i)' = HasRow(i)
      BY <1>3 DEF HasRow
    <2>3. QED
      BY <1>2, <1>3, <2>1, <2>2 DEF RowWhileServing, AllTools
  <1>10. AtRest' /\ CallUnderWay' /\ ResultsBacked'
    BY <1>1, <1>2, <1>3, <1>4 DEF AtRest, CallUnderWay, ResultsBacked, Idle, Sent, Waiting,
                                  Granted
  <1>11. QED
    BY <1>7, <1>8, <1>9, <1>10 DEF RanInv

\* The end of a directive, however it ends: nothing of it is at the slicer
\* that the agent would wait for.
LEMMA EndInv ==
  ASSUME RanInv, NEW status \in Statuses, End(status), SlicerOK',
         rows' \in [Intents -> Allocation \cup {Nothing}], UNCHANGED taken,
         faults' \in 0..MaxFaults, put' = 0, reply' = "none", givenUp' \in BOOLEAN
  PROVE  RanInv'
  <1>1. /\ answered' = status /\ directive' = Nothing /\ had' = FALSE /\ step' = "idle"
        /\ call' = Nothing /\ seen' = {} /\ last' = "none" /\ calls' = 0
    BY DEF End, LoopReset
  <1>2. RanTypeOK'
    BY <1>1 DEF RanInv, RanTypeOK, Steps, SlicerOK
  <1>3. QED
    BY <1>1, <1>2 DEF RanInv, AtRest, RowWhileServing, CallUnderWay, ResultsBacked,
                      Idle, LoopInit, Sent, Waiting, Granted, SlicerOK

\* What happens between the agent and the slicer.
LEMMA SideInv ==
  ASSUME RanInv, SlicerOK',
         UNCHANGED <<rows, directive, had, step, call, answered, taken, loopVars>>,
         faults' \in 0..MaxFaults, put' \in PutIds \cup {0},
         reply' \in {"none", "ok", "refused"}, givenUp' \in BOOLEAN,
         Sent' => step = "push" \/ (step = "restore" /\ HasRow(Intent)),
         Waiting' => reply' = "none"
  PROVE  RanInv'
  <1>1. UNCHANGED <<seen, last, calls>>
    BY DEF loopVars
  <1>2. RanTypeOK'
    BY <1>1 DEF RanInv, RanTypeOK, SlicerOK
  <1>3. RowWhileServing' /\ ResultsBacked'
    BY <1>1 DEF RanInv, RowWhileServing, ResultsBacked, Idle, Intent, HasRow
  <1>4. CallUnderWay'
    BY DEF RanInv, CallUnderWay, Intent, HasRow
  <1>5. AtRest'
    BY <1>1 DEF RanInv, AtRest, Idle, LoopInit, Sent, Waiting
  <1>6. QED
    BY <1>2, <1>3, <1>4, <1>5 DEF RanInv, SlicerOK

\* The agent sends the reservations of the cell.
LEMMA SendInv ==
  ASSUME RanInv, PushAllocation \/ PushRemaining
  PROVE  RanInv'
  <1>1. PICK r : /\ Send(r)
                 /\ r = Wanted
                 /\ step = "push" \/ (step = "restore" /\ HasRow(Intent))
    BY DEF PushAllocation, PushRemaining, Wanted
  <1>2. r \in Reservation /\ Ratios(r) \in Ratio
    BY <1>1, Busy, PushedType, RatiosType DEF RanInv, CallUnderWay
  <1>3. /\ UNCHANGED <<rows, givenUp, directive, had, step, call, answered, taken, faults>>
        /\ UNCHANGED loopVars
    BY <1>1 DEF Send, serverVars
  <1>4. SlicerOK
    BY DEF RanInv, RanTypeOK, SlicerOK
  <1>5. \E p \in PutIds : UNCHANGED slicerVars \/ Arrive(p, Ratios(r))
    BY <1>1, MaxPutsAssumption DEF Send, PutIds
  <1>6. SlicerOK'
    BY <1>2, <1>4, <1>5, SlicerStepOK
  <1>7. /\ put' \in PutIds \cup {0} /\ reply' \in {"none", "ok", "refused"}
        /\ Waiting' => reply' = "none"
    BY <1>1 DEF Send, Sent, Waiting, RanInv, RanTypeOK
  <1>8. faults' \in 0..MaxFaults /\ givenUp' \in BOOLEAN
    BY <1>3 DEF RanInv, RanTypeOK
  <1>9. QED
    BY <1>1, <1>3, <1>6, <1>7, <1>8, SideInv

\* The client's timeout, and what the slicer does meanwhile.
LEMMA SlicerInv ==
  ASSUME RanInv, GiveUp \/ SlicerStep \/ SlicerDies
  PROVE  RanInv'
  <1>1. SlicerOK /\ RanTypeOK
    BY DEF RanInv, RanTypeOK, SlicerOK
  <1>2. UNCHANGED <<rows, directive, had, step, call, answered, taken, loopVars>>
    BY DEF GiveUp, SlicerStep, SlicerDies
  <1>3. faults' \in 0..MaxFaults
    BY <1>1, FaultType DEF GiveUp, SlicerStep, SlicerDies
  <1>4. SlicerOK'
    <2>1. \E p \in PutIds :
             \/ AnswerUnchanged(p) \/ BeginRestart(p) \/ Restarted(p)
             \/ RenderFails(p) \/ RestartFails(p) \/ SlicerRestarts
             \/ UNCHANGED slicerVars
      BY MaxPutsAssumption DEF GiveUp, SlicerStep, SlicerDies, PutIds
    <2>2. QED
      BY <1>1, <2>1, SlicerStepOK
  <1>5. \/ UNCHANGED <<put, reply>>
        \/ Waiting /\ put' = 0 /\ reply' \in {"ok", "refused"}
    <2>1. ASSUME NEW p \in PutIds, NEW r, Reply(p, r)
          PROVE  UNCHANGED <<put, reply>> \/ (Waiting /\ put' = 0 /\ reply' = r)
      BY <2>1, MaxPutsAssumption DEF Reply, Waiting, PutIds
    <2>2. QED
      BY <2>1 DEF GiveUp, SlicerStep, SlicerDies
  <1>6. givenUp' \in BOOLEAN
    BY <1>1 DEF GiveUp, SlicerStep, SlicerDies, RanTypeOK
  <1>7. Sent' => Sent
    BY <1>5 DEF Sent, Waiting
  <1>8. Waiting' => reply' = "none"
    BY <1>5 DEF Waiting, RanInv, CallUnderWay
  <1>9. put' \in PutIds \cup {0} /\ reply' \in {"none", "ok", "refused"}
    BY <1>1, <1>5 DEF RanTypeOK
  <1>10. Sent' => step = "push" \/ (step = "restore" /\ HasRow(Intent))
    BY <1>7 DEF RanInv, CallUnderWay
  <1>11. QED
    BY <1>2, <1>3, <1>4, <1>6, <1>8, <1>9, <1>10, SideInv

\* A result that goes into the trace keeps what the loop remembers backed by
\* the row, as long as the row stays and a new grant has one.
LEMMA TracedBacked ==
  ASSUME RanInv, step # "idle", UNCHANGED directive, NEW c \in AllocateCalls,
         NEW result \in Granted \cup {"failed"}, Traced(c, result, TRUE),
         HasRow(Intent) => HasRow(Intent)',
         result \in Granted => directive.tool = "apply" /\ HasRow(Intent)'
  PROVE  /\ seen' \subseteq [call : AllocateCalls, result : {"applied", "degraded", "failed"}]
         /\ last' \in {"none", "applied", "degraded", "failed"}
         /\ calls' \in Nat
         /\ ResultsBacked'
  <1> DEFINE e0 == [call |-> c, result |-> result]
  <1>1. seen' = seen \cup {e0} /\ calls' = calls + 1 /\ last' = result
    BY DEF Traced
  <1>2. RanTypeOK
    BY DEF RanInv
  <1>3. seen' \subseteq [call : AllocateCalls, result : {"applied", "degraded", "failed"}]
    BY <1>1, <1>2 DEF RanTypeOK, Granted
  <1>4. last' \in {"none", "applied", "degraded", "failed"} /\ calls' \in Nat
    BY <1>1, <1>2 DEF RanTypeOK, Granted
  <1>5. Intent' = Intent /\ ~Idle' /\ directive' = directive
    BY Busy DEF Intent, Idle
  <1>6. last' \in Granted => ~Idle' /\ directive'.tool = "apply" /\ HasRow(Intent)'
    BY <1>1, <1>5
  <1>7. ASSUME NEW e \in seen', e.result \in Granted
        PROVE  directive'.tool = "apply" /\ HasRow(Intent)'
    <2>1. CASE e \in seen
      BY <1>5, <1>7, <2>1 DEF RanInv, ResultsBacked
    <2>2. CASE e = e0
      BY <1>5, <1>7, <2>2
    <2>3. QED
      BY <1>1, <2>1, <2>2
  <1>8. QED
    BY <1>3, <1>4, <1>6, <1>7 DEF ResultsBacked, Granted

\* A call answered from the cache, or refused.
LEMMA AnsweredInv ==
  ASSUME RanInv, NEW c \in AllocateCalls, Answered(c)
  PROVE  RanInv'
  <1>1. step = "loop" /\ UNCHANGED <<directive, had, step, call, answered, taken, faults, rows,
                                     put, reply, givenUp, waiting, lock, inForce, gnb>>
    BY DEF Answered, AnswerCall, InLoop, serverVars, pushVars, slicerVars
  <1>2. HasRow(Intent)' = HasRow(Intent)
    BY <1>1 DEF HasRow, Intent
  <1>3. PICK result \in Granted \cup {"failed"} :
          /\ Traced(c, result, TRUE)
          /\ result \in Granted => directive.tool = "apply" /\ HasRow(Intent)
    <2>1. CASE Traced(c, "failed", TRUE)
      <3>1. "failed" \in Granted \cup {"failed"} /\ "failed" \notin Granted
        BY DEF Granted
      <3>2. QED
        BY <2>1, <3>1
    <2>2. CASE TracedFromCache(c, TRUE)
      <3>1. Repeated(c) /\ Traced(c, ResultOf(c), TRUE)
        BY <2>2 DEF TracedFromCache
      <3>2. PICK e \in seen : e.call = c /\ ResultOf(c) = e.result
        BY <3>1, CachedResult
      <3>3. e.result \in Granted \cup {"failed"}
        BY DEF RanInv, RanTypeOK, Granted
      <3>4. QED
        BY <3>1, <3>2, <3>3 DEF RanInv, ResultsBacked
    <2>3. QED
      BY <2>1, <2>2 DEF Answered, AnswerCall
  <1>4. /\ seen' \subseteq [call : AllocateCalls, result : {"applied", "degraded", "failed"}]
        /\ last' \in {"none", "applied", "degraded", "failed"}
        /\ calls' \in Nat
        /\ ResultsBacked'
    BY <1>1, <1>2, <1>3, TracedBacked
  <1>5. SlicerTypeOK' /\ SlicerKnowsTheGnb'
    BY <1>1 DEF RanInv, RanTypeOK, SlicerTypeOK, SlicerKnowsTheGnb
  <1>6. RanTypeOK'
    BY <1>1, <1>4, <1>5 DEF RanInv, RanTypeOK
  <1>7. RowWhileServing'
    BY <1>1, <1>2 DEF RanInv, RowWhileServing, Idle, Intent
  <1>8. AtRest' /\ CallUnderWay'
    BY <1>1, <1>2, Busy DEF RanInv, AtRest, CallUnderWay, Idle, Sent, Waiting
  <1>9. QED
    BY <1>4, <1>5, <1>6, <1>7, <1>8 DEF RanInv

\* In the loop only an apply has tools.
LEMMA OnlyAppliesAct ==
  ASSUME NEW c, ~Rejected(c)
  PROVE  directive.tool = "apply"
  BY DEF Rejected, InScope, Allowed

\* Admission grants whole PRBs, at most what is available.
LEMMA AdmissionGrants ==
  ASSUME RanInv, GuardrailsEnabled, NEW c \in AllocateCalls, NEW used \in Usage,
         AllocatePrb(c, used)
  PROVE  /\ call' \in Call
         /\ call'.prb <= Available(used)
         /\ Available(used) \in 0..PrbTotal
         /\ ReservedByOthers(SliceOf[Intent]) \in Nat
         /\ ReservedByOthers(SliceOf[Intent]) <= PrbTotal =>
              Available(used) + ReservedByOthers(SliceOf[Intent]) <= PrbTotal
  <1> DEFINE needed == CeilDiv(c.target, MbpsPerPrb)
             prb == IF needed <= Available(used) THEN needed ELSE Available(used)
             k == [asked |-> c, prb |-> prb,
                   status |-> IF needed <= Available(used) THEN "applied" ELSE "degraded"]
  <1>1. ~Rejected(c) /\ call' = k /\ step = "loop"
    BY DEF AllocatePrb, BeginCall, InLoop
  <1>2. IsRate(c.target)
    BY <1>1 DEF Rejected, Refused, ValidAllocatePrb
  <1>3. c.target \in Int \cup {None, Malformed}
    BY ThroughputsAssumption DEF AllocateCalls
  <1>4. c.target \in Nat
    BY <1>2, <1>3 DEF IsRate, IsPositive, IsNumber
  <1>5. needed \in Nat
    BY <1>4, CeilDivNat, RadioAssumption
  <1>6. /\ Available(used) \in 0..PrbTotal
        /\ ReservedByOthers(SliceOf[Intent]) \in Nat
        /\ ReservedByOthers(SliceOf[Intent]) <= PrbTotal =>
             Available(used) + ReservedByOthers(SliceOf[Intent]) <= PrbTotal
    BY <1>1, Busy, AvailableFits, RadioAssumption DEF RanInv
  <1> HIDE DEF needed
  <1>7. prb \in Nat /\ prb <= Available(used)
    BY <1>5, <1>6, PrbTotalAssumption
  <1>8. k \in Call /\ k.prb <= Available(used)
    BY <1>7 DEF Call
  <1>9. QED
    BY <1>1, <1>6, <1>8

\* The model asks for an allocation that is not refused.
LEMMA AllocateInv ==
  ASSUME RanInv, GuardrailsEnabled, NEW c \in AllocateCalls, NEW used \in Usage,
         AllocatePrb(c, used)
  PROVE  RanInv'
  <1>1. /\ step = "loop" /\ step' = "push" /\ ~Rejected(c)
        /\ UNCHANGED <<directive, had, answered, taken, faults, seen, last, calls, rows,
                       put, reply, givenUp, waiting, lock, inForce, gnb>>
    BY DEF AllocatePrb, BeginCall, InLoop, loopVars, pushVars, slicerVars
  <1>2. call' \in Call
    BY AdmissionGrants
  <1>3. directive.tool = "apply"
    BY <1>1, OnlyAppliesAct
  <1>4. SlicerTypeOK' /\ SlicerKnowsTheGnb'
    BY <1>1 DEF RanInv, RanTypeOK, SlicerTypeOK, SlicerKnowsTheGnb
  <1>5. RanTypeOK'
    BY <1>1, <1>2, <1>4 DEF RanInv, RanTypeOK, Steps
  <1>6. RowWhileServing'
    BY <1>1, <1>3 DEF RanInv, RowWhileServing, Idle, Intent, HasRow
  <1>7. AtRest' /\ CallUnderWay'
    BY <1>1, <1>2, Busy DEF RanInv, AtRest, CallUnderWay, Idle, Sent, Waiting
  <1>8. ResultsBacked'
    BY <1>1 DEF RanInv, ResultsBacked, Idle, Intent, HasRow
  <1>9. QED
    BY <1>4, <1>5, <1>6, <1>7, <1>8 DEF RanInv

\* The agent is back in its loop with a result of the call under way.
LEMMA BackInv ==
  ASSUME RanInv, step \in {"push", "persist"}, NEW result \in Granted \cup {"failed"},
         BackToLoop(result), faults' \in 0..MaxFaults,
         put' = 0, reply' = "none", UNCHANGED <<givenUp, slicerVars>>,
         rows' \in [Intents -> Allocation \cup {Nothing}],
         HasRow(Intent) => HasRow(Intent)',
         result \in Granted => HasRow(Intent)'
  PROVE  RanInv'
  <1>1. /\ step' = "loop" /\ call' = Nothing
        /\ UNCHANGED <<directive, had, answered, taken>>
        /\ Traced(call.asked, result, TRUE)
    BY DEF BackToLoop
  <1>2. call \in Call /\ call.asked \in AllocateCalls
    BY DEF RanInv, CallUnderWay, Call
  <1>3. directive.tool = "apply" /\ ~Idle
    BY Busy DEF RanInv, RowWhileServing
  <1>4. /\ seen' \subseteq [call : AllocateCalls, result : {"applied", "degraded", "failed"}]
        /\ last' \in {"none", "applied", "degraded", "failed"}
        /\ calls' \in Nat
        /\ ResultsBacked'
    BY <1>1, <1>2, <1>3, TracedBacked
  <1>5. SlicerTypeOK' /\ SlicerKnowsTheGnb'
    BY DEF RanInv, RanTypeOK, SlicerTypeOK, SlicerKnowsTheGnb, slicerVars
  <1>6. RanTypeOK'
    BY <1>1, <1>4, <1>5 DEF RanInv, RanTypeOK, Steps
  <1>7. RowWhileServing'
    BY <1>1, <1>3 DEF RanInv, RowWhileServing, Idle, Intent
  <1>8. AtRest' /\ CallUnderWay'
    BY <1>1, <1>3 DEF AtRest, CallUnderWay, Idle, Sent, Waiting
  <1>9. QED
    BY <1>4, <1>5, <1>6, <1>7, <1>8 DEF RanInv

\* Updating a row keeps the types, and the row is there.
LEMMA UpsertType ==
  ASSUME RanTypeOK, Intent \in Intents, call \in Call, Upsert
  PROVE  /\ rows' \in [Intents -> Allocation \cup {Nothing}]
         /\ rows'[Intent] \in Allocation
         /\ rows'[Intent].prb = call.prb
         /\ \A j \in Intents \ {Intent} : rows'[j] = rows[j]
  <1> DEFINE row == [prb |-> call.prb,
                     at |-> IF rows[Intent] = Nothing THEN taken ELSE rows[Intent].at]
  <1>1. row \in Allocation
    <2>1. call.prb \in Nat /\ taken \in 0..MaxDirectives
      BY DEF Call, RanTypeOK
    <2>2. CASE rows[Intent] = Nothing
      BY <2>1, <2>2 DEF Allocation
    <2>3. CASE rows[Intent] # Nothing
      <3>1. rows[Intent] \in Allocation
        BY <2>3 DEF RanTypeOK
      <3>2. QED
        BY <2>1, <2>3, <3>1 DEF Allocation
    <2>4. QED
      BY <2>2, <2>3
  <1>2. rows' = [rows EXCEPT ![Intent] = row]
    BY DEF Upsert
  <1>3. row.prb = call.prb
    OBVIOUS
  <1> HIDE DEF row
  <1>4. QED
    BY <1>1, <1>2, <1>3 DEF RanTypeOK

LEMMA PushAnsweredInv ==
  ASSUME RanInv, PushAnswered
  PROVE  RanInv'
  <1>1. /\ step = "push" /\ RanTypeOK /\ call \in Call /\ ~Idle
        /\ UNCHANGED <<rows, givenUp, slicerVars, put>> /\ reply' = "none" /\ reply # "none"
    BY Busy DEF PushAnswered, Read, RanInv, CallUnderWay
  <1>2. put' = 0
    BY <1>1 DEF RanInv, CallUnderWay, Waiting
  <1>3. rows' \in [Intents -> Allocation \cup {Nothing}]
    BY <1>1 DEF RanTypeOK
  <1>4. CASE Advance("persist")
    <2>1. /\ step' = "persist"
          /\ UNCHANGED <<directive, had, call, answered, taken, faults, seen, last, calls>>
      BY <1>4 DEF Advance, loopVars
    <2>2. SlicerTypeOK' /\ SlicerKnowsTheGnb'
      BY <1>1 DEF RanInv, RanTypeOK, SlicerTypeOK, SlicerKnowsTheGnb, slicerVars
    <2>3. RanTypeOK'
      BY <1>1, <2>1, <2>2 DEF RanTypeOK, Steps
    <2>4. RowWhileServing' /\ ResultsBacked'
      BY <1>1, <2>1 DEF RanInv, RowWhileServing, ResultsBacked, Idle, Intent, HasRow
    <2>5. AtRest' /\ CallUnderWay'
      BY <1>1, <1>2, <2>1 DEF AtRest, CallUnderWay, Idle, Sent, Waiting
    <2>6. QED
      BY <2>2, <2>3, <2>4, <2>5 DEF RanInv
  <1>5. CASE BackToLoop("failed") /\ UNCHANGED faults
    <2>1. HasRow(Intent) => HasRow(Intent)'
      BY <1>1, <1>5 DEF HasRow, Intent, BackToLoop
    <2>2. faults' \in 0..MaxFaults
      BY <1>1, <1>5 DEF RanTypeOK
    <2>3. QED
      BY <1>1, <1>2, <1>3, <1>5, <2>1, <2>2, BackInv DEF Granted
  <1>6. QED
    BY <1>4, <1>5 DEF PushAnswered

LEMMA PersistInv ==
  ASSUME RanInv, Persist
  PROVE  RanInv'
  <1>1. /\ step = "persist" /\ Intent \in Intents /\ RanTypeOK /\ call \in Call
        /\ UNCHANGED <<pushVars, slicerVars>> /\ ~Sent
    BY Busy DEF Persist, RanInv, CallUnderWay
  <1>2. put' = 0 /\ reply' = "none" /\ UNCHANGED givenUp
    BY <1>1 DEF pushVars, Sent, Waiting
  <1>3. Intent' = Intent
    BY DEF Persist, BackToLoop, Intent
  <1>4. faults' \in 0..MaxFaults
    BY <1>1, FaultType DEF Persist
  <1>5. ASSUME Upsert
        PROVE  rows' \in [Intents -> Allocation \cup {Nothing}] /\ HasRow(Intent)'
    BY <1>1, <1>3, <1>5, UpsertType, NothingAssumption DEF HasRow
  <1>6. ASSUME NEW result \in Granted \cup {"failed"}, Upsert, BackToLoop(result)
        PROVE  RanInv'
    BY <1>1, <1>2, <1>4, <1>5, <1>6, BackInv
  <1>7. CASE UNCHANGED rows /\ BackToLoop("failed")
    <2>1. HasRow(Intent)' = HasRow(Intent)
      BY <1>3, <1>7 DEF HasRow
    <2>2. rows' \in [Intents -> Allocation \cup {Nothing}]
      BY <1>1, <1>7 DEF RanTypeOK
    <2>3. QED
      BY <1>1, <1>2, <1>4, <1>7, <2>1, <2>2, BackInv DEF Granted
  <1>8. call.status \in Granted
    BY <1>1 DEF Call, Granted
  <1>9. QED
    BY <1>6, <1>7, <1>8 DEF Persist

\* After a push of what remains.
LEMMA RestoreAnsweredInv ==
  ASSUME RanInv, RestoreAnswered
  PROVE  RanInv'
  <1>1. /\ step = "restore" /\ RanTypeOK /\ ~Idle /\ Sent
        /\ UNCHANGED <<rows, givenUp, slicerVars, put>> /\ reply' = "none" /\ reply # "none"
    BY Busy DEF RestoreAnswered, Read, RanInv, Sent
  <1>2. put' = 0 /\ HasRow(Intent)
    BY <1>1 DEF RanInv, CallUnderWay, Waiting
  <1>3. SlicerTypeOK' /\ SlicerKnowsTheGnb'
    BY <1>1 DEF RanInv, RanTypeOK, SlicerTypeOK, SlicerKnowsTheGnb, slicerVars
  <1>4. CASE Advance("release")
    <2>1. /\ step' = "release"
          /\ UNCHANGED <<directive, had, call, answered, taken, faults, seen, last, calls>>
      BY <1>4 DEF Advance, loopVars
    <2>2. RanTypeOK'
      BY <1>1, <1>3, <2>1 DEF RanTypeOK, Steps
    <2>3. RowWhileServing' /\ ResultsBacked'
      BY <1>1, <1>2, <2>1 DEF RanInv, RowWhileServing, ResultsBacked, Idle, Intent, HasRow
    <2>4. AtRest' /\ CallUnderWay'
      BY <1>1, <1>2, <2>1 DEF AtRest, CallUnderWay, Idle, Sent, Waiting
    <2>5. QED
      BY <1>3, <2>2, <2>3, <2>4 DEF RanInv
  <1>5. CASE End("failed") /\ UNCHANGED <<taken, faults>>
    <2>1. SlicerOK' /\ rows' \in [Intents -> Allocation \cup {Nothing}]
          /\ faults' \in 0..MaxFaults /\ givenUp' \in BOOLEAN
      BY <1>1, <1>3, <1>5 DEF SlicerOK, RanTypeOK
    <2>2. QED
      BY <1>1, <1>2, <1>5, <2>1, EndInv DEF Statuses
  <1>6. QED
    BY <1>4, <1>5 DEF RestoreAnswered

\* The other ends of a directive.
LEMMA OtherEndsInv ==
  ASSUME RanInv,
         \/ (FinalAnswer \/ LoopRaises) /\ UNCHANGED <<rows, pushVars, slicerVars>>
         \/ NothingToRevert \/ Release \/ RanAgentDies
  PROVE  RanInv'
  <1>1. RanTypeOK /\ SlicerOK /\ UNCHANGED slicerVars
    BY DEF RanInv, RanTypeOK, SlicerOK, NothingToRevert, Release, RanAgentDies
  <1>2. PICK status \in Statuses : End(status)
    <2>1. DirectiveStatus \in {"applied", "degraded", "failed"}
      BY <1>1 DEF RanTypeOK, DirectiveStatus
    <2>2. QED
      BY <2>1 DEF FinalAnswer, LoopRaises, NothingToRevert, Release, RanAgentDies, AgentDies,
                  Statuses
  <1>3. SlicerOK'
    BY <1>1 DEF SlicerOK, SlicerTypeOK, SlicerKnowsTheGnb, slicerVars
  <1>4. rows' \in [Intents -> Allocation \cup {Nothing}] /\ UNCHANGED taken
    BY <1>1 DEF RanTypeOK, FinalAnswer, LoopRaises, NothingToRevert, Release, RanAgentDies,
                AgentDies
  <1>5. faults' \in 0..MaxFaults
    BY <1>1, FaultType DEF FinalAnswer, LoopRaises, NothingToRevert, Release, RanAgentDies,
                           AgentDies
  <1>6. put' = 0 /\ reply' = "none" /\ givenUp' \in BOOLEAN
    <2>1. CASE RanAgentDies
      BY <1>1, <2>1 DEF RanAgentDies, RanTypeOK, Waiting
    <2>2. CASE ~RanAgentDies
      <3>1. ~Sent /\ UNCHANGED pushVars
        BY <2>2 DEF FinalAnswer, LoopRaises, NothingToRevert, Release, InLoop, RanInv,
                    CallUnderWay
      <3>2. QED
        BY <1>1, <3>1 DEF Sent, Waiting, pushVars, RanTypeOK
    <2>3. QED
      BY <2>1, <2>2
  <1>7. QED
    BY <1>2, <1>3, <1>4, <1>5, <1>6, EndInv

\* Every step of the agent and of the slicer keeps the invariant.
LEMMA StepInv ==
  ASSUME GuardrailsEnabled
  PROVE  RanInv /\ [Next]_ranVars => RanInv'
  <1>1. SUFFICES ASSUME RanInv, [Next]_ranVars
                 PROVE  RanInv'
    OBVIOUS
  <1>2. ASSUME NEW c \in AllocateCalls, Answered(c) \/ \E used \in Usage : AllocatePrb(c, used)
        PROVE  RanInv'
    BY <1>1, <1>2, AnsweredInv, AllocateInv
  <1>3. CASE PushAllocation \/ PushRemaining
    BY <1>1, <1>3, SendInv
  <1>4. CASE PushAnswered
    BY <1>1, <1>4, PushAnsweredInv
  <1>5. CASE Persist
    BY <1>1, <1>5, PersistInv
  <1>6. CASE RestoreAnswered
    BY <1>1, <1>6, RestoreAnsweredInv
  <1>7. CASE \/ (FinalAnswer \/ LoopRaises) /\ UNCHANGED <<rows, pushVars, slicerVars>>
             \/ NothingToRevert \/ Release \/ RanAgentDies
    BY <1>1, <1>7, OtherEndsInv
  <1>8. CASE GiveUp \/ SlicerStep \/ SlicerDies
    BY <1>1, <1>8, SlicerInv
  <1>9. ASSUME NEW tool \in AllTools, NEW i \in Intents, Receive(tool, i)
        PROVE  RanInv'
    BY <1>1, <1>9, ReceiveInv
  <1>10. CASE UNCHANGED ranVars
    <2>1. UNCHANGED <<rows, put, reply, givenUp, waiting, lock, inForce, gnb, directive, had,
                      step, call, answered, taken, faults, seen, last, calls>>
      BY <1>10 DEF ranVars, pushVars, slicerVars, serverVars, loopVars
    <2>2. RanTypeOK' /\ SlicerKnowsTheGnb'
      BY <1>1, <2>1 DEF RanInv, RanTypeOK, SlicerTypeOK, SlicerKnowsTheGnb
    <2>3. AtRest' /\ CallUnderWay'
      BY <1>1, <2>1 DEF RanInv, AtRest, CallUnderWay, Idle, LoopInit, Sent, Waiting, HasRow, Intent
    <2>4. RowWhileServing' /\ ResultsBacked'
      BY <1>1, <2>1 DEF RanInv, RowWhileServing, ResultsBacked, Idle, Intent, HasRow
    <2>5. QED
      BY <2>2, <2>3, <2>4 DEF RanInv
  <1>11. QED
    BY <1>1, <1>2, <1>3, <1>4, <1>5, <1>6, <1>7, <1>8, <1>9, <1>10 DEF Next, Carry

\* The inductive invariant of the RAN-NSSMF holds in every reachable state.
THEOREM RanInvariance ==
  ASSUME GuardrailsEnabled
  PROVE  Spec => []RanInv
  <1>1. QED
    BY InitInv, StepInv, PTL DEF Spec

\* Every variable of the RAN-NSSMF and of the slicer keeps its type.
THEOREM RanTypeCorrect ==
  ASSUME GuardrailsEnabled
  PROVE  Spec => []RanTypeOK
  <1>1. RanInv => RanTypeOK
    BY DEF RanInv
  <1>2. QED
    BY <1>1, RanInvariance, PTL

\* The slicer skips a restart only when it knows what the gNB runs with.
THEOREM SlicerIsNotFooled ==
  ASSUME GuardrailsEnabled
  PROVE  Spec => []SlicerKnowsTheGnb
  <1>1. RanInv => SlicerKnowsTheGnb
    BY DEF RanInv
  <1>2. QED
    BY <1>1, RanInvariance, PTL

-----------------------------------------------------------------------------
(***************************************************************************)
(* The refinement of DomainContract.                                       *)
(***************************************************************************)

\* A step inside a directive, which callers do not see: it touches no row but
\* that of the directive's intent, which counts as it was.
LEMMA InsideKeeps ==
  ASSUME RanInv, step # "idle", UNCHANGED <<directive, had, answered>>,
         \A i \in Intents \ {Intent} : rows'[i] = rows[i]
  PROVE  UNCHANGED Contract!contractVars
  <1>1. ~Idle /\ ~Idle' /\ Intent' = Intent
    BY Busy DEF Idle, Intent
  <1>2. \A i \in Intents \ {Intent} : HasRow(i)' = HasRow(i)
    BY DEF HasRow
  <1>3. Held' = Held
    BY <1>1, <1>2 DEF Held
  <1>4. Serving' = Serving
    BY DEF Serving, Idle, Intent
  <1>5. QED
    BY <1>3, <1>4 DEF Contract!contractVars

\* The end of a directive with an outcome the contract promises.
LEMMA EndKeeps ==
  ASSUME RanInv, step # "idle", NEW status, End(status),
         \A i \in Intents \ {Intent} : rows'[i] = rows[i],
         [status |-> status, row |-> rows'[Intent] # Nothing]
           \in Contract!PromisedOutcomes(directive.tool, had)
  PROVE  Contract!Finish
  <1> DEFINE out == [status |-> status, row |-> rows'[Intent] # Nothing]
  <1>1. ~Idle /\ Intent \in Intents /\ directive \in Directive
    BY Busy
  <1>2. Serving = [tool |-> directive.tool, intent |-> Intent]
    BY <1>1 DEF Serving, Intent
  <1>3. Serving # Nothing
    BY <1>1, <1>2, NothingAssumption, Busy
  <1>4. Idle' /\ answered' = status
    BY DEF End, Idle
  <1>5. Serving' = Nothing
    BY <1>4 DEF Serving
  <1>6. had \in BOOLEAN
    BY DEF RanInv, RanTypeOK
  <1>7. (Intent \in Held) = had
    BY <1>1, <1>6 DEF Held
  <1>8. Held' = {i \in Intents : rows'[i] # Nothing}
    BY <1>4 DEF Held, HasRow
  <1>9. Held \ {Intent} = {i \in Intents \ {Intent} : rows[i] # Nothing}
    BY <1>1 DEF Held, HasRow
  <1>10. Held' = IF out.row THEN Held \cup {Intent} ELSE Held \ {Intent}
    BY <1>1, <1>8, <1>9
  <1>11. out \in Contract!PromisedOutcomes(Serving.tool, Serving.intent \in Held)
    BY <1>2, <1>7
  <1>12. QED
    BY <1>2, <1>3, <1>4, <1>5, <1>10, <1>11 DEF Contract!Finish

\* What each tool may end with.
LEMMA Promises ==
  ASSUME NEW b \in BOOLEAN, NEW row \in BOOLEAN
  PROVE  /\ \A s \in {"failed", "error"} :
              (b => row) => [status |-> s, row |-> row] \in Contract!PromisedOutcomes("apply", b)
         /\ \A s \in Granted :
              row => [status |-> s, row |-> row] \in Contract!PromisedOutcomes("apply", b)
         /\ \A s \in {"ok", "error"} :
              row = b => [status |-> s, row |-> row] \in Contract!PromisedOutcomes("report", b)
         /\ (row => b) => [status |-> "error", row |-> row] \in Contract!PromisedOutcomes("revert", b)
         /\ b /\ row => [status |-> "failed", row |-> row] \in Contract!PromisedOutcomes("revert", b)
         /\ b /\ ~row => [status |-> "reverted", row |-> row] \in Contract!PromisedOutcomes("revert", b)
         /\ ~b /\ ~row => [status |-> "noop", row |-> row] \in Contract!PromisedOutcomes("revert", b)
  BY DEF Contract!PromisedOutcomes, Contract!Outcomes, Contract!ApplyOutcomes,
         Contract!RevertOutcomes, Granted

\* The ends of a directive that find the row as the loop, or the revert, has
\* left it.
LEMMA OtherEndsKeep ==
  ASSUME RanInv, FinalAnswer \/ LoopRaises \/ NothingToRevert \/ AgentDies, UNCHANGED rows
  PROVE  Contract!Finish
  <1> DEFINE row == rows'[Intent] # Nothing
  <1>1. step # "idle"
    BY DEF RanInv, RowWhileServing, FinalAnswer, LoopRaises, NothingToRevert, AgentDies, InLoop
  <1>2. /\ row = HasRow(Intent) /\ row \in BOOLEAN /\ had \in BOOLEAN
        /\ \A i \in Intents \ {Intent} : rows'[i] = rows[i]
    BY DEF HasRow, RanInv, RanTypeOK
  <1>3. ~Idle /\ directive.tool \in AllTools
    BY <1>1, Busy
  <1>4. PICK status :
          /\ End(status)
          /\ [status |-> status, row |-> row] \in Contract!PromisedOutcomes(directive.tool, had)
    <2>1. CASE FinalAnswer /\ directive.tool = "apply"
      <3>1. End(DirectiveStatus) /\ (had => row)
        BY <1>2, <1>3, <2>1 DEF FinalAnswer, RanInv, RowWhileServing
      <3>2. CASE last \in Granted
        <4>1. DirectiveStatus \in Granted /\ row
          BY <1>2, <3>2 DEF DirectiveStatus, RanInv, ResultsBacked, Granted
        <4>2. QED
          BY <1>2, <2>1, <3>1, <4>1, Promises
      <3>3. CASE last \notin Granted
        <4>1. DirectiveStatus = "failed"
          BY <3>3 DEF DirectiveStatus, RanInv, RanTypeOK, Granted
        <4>2. QED
          BY <1>2, <2>1, <3>1, <4>1, Promises
      <3>4. QED
        BY <3>2, <3>3
    <2>2. CASE FinalAnswer /\ directive.tool # "apply"
      <3>1. End("ok") /\ directive.tool = "report" /\ row = had
        BY <1>2, <1>3, <2>2 DEF FinalAnswer, InLoop, RanInv, RowWhileServing
      <3>2. QED
        BY <1>2, <3>1, Promises
    <2>3. CASE LoopRaises \/ AgentDies
      <3>1. End("error")
        BY <2>3 DEF LoopRaises, AgentDies
      <3>2. CASE directive.tool = "apply"
        BY <1>2, <1>3, <3>1, <3>2, Promises DEF RanInv, RowWhileServing
      <3>3. CASE directive.tool = "report"
        BY <1>2, <1>3, <3>1, <3>3, Promises DEF RanInv, RowWhileServing
      <3>4. CASE directive.tool = "revert"
        BY <1>2, <1>3, <3>1, <3>4, Promises DEF RanInv, RowWhileServing
      <3>5. QED
        BY <1>3, <3>2, <3>3, <3>4 DEF AllTools
    <2>4. CASE NothingToRevert
      <3>1. End("noop") /\ directive.tool = "revert" /\ ~row /\ ~had
        BY <1>2, <1>3, <2>4 DEF NothingToRevert, RanInv, RowWhileServing
      <3>2. QED
        BY <1>2, <3>1, Promises
    <2>5. QED
      BY <2>1, <2>2, <2>3, <2>4
  <1> HIDE DEF row
  <1>5. [status |-> status, row |-> rows'[Intent] # Nothing]
          \in Contract!PromisedOutcomes(directive.tool, had)
    BY <1>4 DEF row
  <1>6. QED
    BY <1>1, <1>2, <1>4, <1>5, EndKeeps

\* The ends of a revert that found a row.
LEMMA RevertEndsKeep ==
  ASSUME RanInv, NEW status, End(status),
         \/ step = "restore" /\ HasRow(Intent) /\ status = "failed" /\ UNCHANGED rows
         \/ /\ step = "release"
            /\ \/ status \in {"reverted", "error"}
                  /\ rows' = [rows EXCEPT ![Intent] = Nothing]
               \/ status = "error" /\ UNCHANGED rows
  PROVE  Contract!Finish
  <1> DEFINE row == rows'[Intent] # Nothing
  <1>1. step # "idle" /\ Intent \in Intents
    BY Busy
  <1>2. directive.tool = "revert" /\ had /\ HasRow(Intent)
    BY <1>1, Busy DEF RanInv, RowWhileServing, RanTypeOK
  <1>3. rows \in [Intents -> Allocation \cup {Nothing}] /\ had \in BOOLEAN /\ row \in BOOLEAN
    BY DEF RanInv, RanTypeOK
  <1>4. \A i \in Intents \ {Intent} : rows'[i] = rows[i]
    BY <1>3
  <1>5. CASE status = "failed"
    <2>1. row
      BY <1>2, <1>5 DEF HasRow
    <2>2. QED
      BY <1>1, <1>2, <1>3, <1>4, <1>5, <2>1, Promises, EndKeeps
  <1>6. CASE status = "reverted"
    <2>1. ~row
      BY <1>1, <1>3, <1>6
    <2>2. QED
      BY <1>1, <1>2, <1>3, <1>4, <1>6, <2>1, Promises, EndKeeps
  <1>7. CASE status = "error"
    <2>1. [status |-> "error", row |-> row] \in Contract!PromisedOutcomes("revert", had)
      BY <1>2, <1>3, Promises
    <2>2. QED
      BY <1>1, <1>2, <1>4, <1>7, <2>1, EndKeeps
  <1>8. QED
    BY <1>5, <1>6, <1>7

LEMMA ContractInit == Init => Contract!Init
  BY DEF Init, ServerInit, Contract!Init, Held, Serving, Idle, HasRow

\* A directive that comes in is taken by the contract as well.
LEMMA ReceiveKeeps ==
  ASSUME RanInv, NEW tool \in AllTools, NEW i \in Intents, Receive(tool, i)
  PROVE  Contract!Take(tool, i)
  <1> DEFINE d == [tool |-> tool, intent |-> i]
  <1>1. directive' = d /\ Idle /\ ~Idle' /\ had' = HasRow(i) /\ answered' = "none"
        /\ UNCHANGED rows
    BY NothingAssumption DEF Receive, Take, Idle
  <1>2. Intent' = i /\ Serving' = d /\ Serving = Nothing
    BY <1>1 DEF Intent, Serving
  <1>3. Held' = Held
    BY <1>1, <1>2 DEF Held, HasRow
  <1>4. QED
    BY <1>1, <1>2, <1>3 DEF Contract!Take

\* Every step is one of the contract's, or none the callers see.
LEMMA ContractStep ==
  RanInv /\ [Next]_ranVars => [Contract!Next]_(Contract!contractVars)
  <1> DEFINE Goal == [Contract!Next]_(Contract!contractVars)
  <1>1. SUFFICES ASSUME RanInv, [Next]_ranVars
                 PROVE  Goal
    OBVIOUS
  <1>2. Contract!Finish => Goal
    BY DEF Contract!Next
  <1>3. UNCHANGED Contract!contractVars => Goal
    OBVIOUS
  <1>4. RanTypeOK
    BY <1>1 DEF RanInv
  <1>5. CASE /\ step # "idle" /\ UNCHANGED <<directive, had, answered, rows>>
    BY <1>1, <1>3, <1>5, InsideKeeps
  <1>6. CASE \E c \in AllocateCalls : Answered(c) \/ \E used \in Usage : AllocatePrb(c, used)
    <2>1. step # "idle" /\ UNCHANGED <<directive, had, answered, rows>>
      BY <1>6 DEF Answered, AnswerCall, AllocatePrb, BeginCall, InLoop, serverVars
    <2>2. QED
      BY <1>5, <2>1
  <1>7. CASE PushAllocation \/ PushRemaining \/ PushAnswered
    <2>1. step # "idle" /\ UNCHANGED <<directive, had, answered, rows>>
      BY <1>7 DEF PushAllocation, PushRemaining, PushAnswered, Send, serverVars, Advance,
                  BackToLoop
    <2>2. QED
      BY <1>5, <2>1
  <1>8. CASE GiveUp \/ SlicerStep \/ SlicerDies
    <2>1. UNCHANGED <<directive, had, answered, rows>>
      BY <1>8 DEF GiveUp, SlicerStep, SlicerDies
    <2>2. QED
      BY <1>3, <2>1 DEF Contract!contractVars, Held, Serving, Idle, Intent, HasRow
  <1>9. CASE Persist
    <2>1. step # "idle" /\ UNCHANGED <<directive, had, answered>> /\ Intent \in Intents
          /\ call \in Call
      BY <1>1, <1>9, Busy DEF Persist, BackToLoop, RanInv, CallUnderWay
    <2>2. \A j \in Intents \ {Intent} : rows'[j] = rows[j]
      BY <1>4, <1>9, <2>1, UpsertType DEF Persist
    <2>3. QED
      BY <1>1, <1>3, <2>1, <2>2, InsideKeeps
  <1>10. CASE (FinalAnswer \/ LoopRaises \/ AgentDies \/ NothingToRevert) /\ UNCHANGED rows
    BY <1>1, <1>2, <1>10, OtherEndsKeep
  <1>11. CASE RestoreAnswered
    <2>1. step = "restore" /\ UNCHANGED rows /\ Sent
      BY <1>11 DEF RestoreAnswered, Read, Sent
    <2>2. HasRow(Intent)
      BY <1>1, <2>1 DEF RanInv, CallUnderWay
    <2>3. CASE Advance("release")
      BY <1>5, <2>1, <2>3 DEF Advance
    <2>4. CASE End("failed")
      BY <1>1, <1>2, <2>1, <2>2, <2>4, RevertEndsKeep
    <2>5. QED
      BY <1>11, <2>3, <2>4 DEF RestoreAnswered
  <1>12. CASE Release
    BY <1>1, <1>2, <1>12, RevertEndsKeep DEF Release
  <1>13. ASSUME NEW tool \in AllTools, NEW i \in Intents, Receive(tool, i)
         PROVE  Goal
    <2>1. Contract!Take(tool, i)
      BY <1>1, <1>13, ReceiveKeeps
    <2>2. QED
      BY <2>1 DEF Contract!Next, Contract!Tools, AllTools
  <1>14. CASE UNCHANGED ranVars
    <2>1. UNCHANGED <<rows, directive, had, answered>>
      BY <1>14 DEF ranVars, serverVars
    <2>2. QED
      BY <2>1 DEF Contract!contractVars, Held, Serving, Idle, Intent, HasRow
  <1> HIDE DEF Goal
  <1>15. Goal
    BY <1>1, <1>6, <1>7, <1>8, <1>9, <1>10, <1>11, <1>12, <1>13, <1>14
       DEF Next, Carry, NothingToRevert, RanAgentDies
  <1>16. QED
    BY <1>15

\* To its callers the RAN-NSSMF is the agent DomainContract describes.
THEOREM RanKeepsTheContract ==
  ASSUME GuardrailsEnabled
  PROVE  Spec => KeepsTheContract
  <1>1. QED
    BY ContractInit, ContractStep, RanInvariance, PTL DEF Spec, KeepsTheContract, Contract!Spec

-----------------------------------------------------------------------------
(***************************************************************************)
(* What a confirmed push means at the gNB.                                 *)
(***************************************************************************)

LEMMA PushInit == Init => PushInv
  BY DEF Init, ServerInit, SlicerInit, PushInv, OnlyOurs, Free, Waiting

\* The agent's own request arrives at an empty slicer.
LEMMA PushSend ==
  ASSUME RanInv, PushInv, IsReal, ~givenUp, PushAllocation \/ PushRemaining
  PROVE  PushInv'
  <1>1. /\ Send(Wanted) /\ step \in {"push", "restore"} /\ step' = step
        /\ UNCHANGED <<rows, directive, call, givenUp>>
    BY DEF PushAllocation, PushRemaining, Wanted, Send, serverVars
  <1>2. Wanted' = Wanted
    BY <1>1 DEF Wanted, Pushed, Remaining, Reservations, ReservedFor, Newest, HasRow, Intent
  <1>3. put = 0 /\ reply = "none" /\ lock = 0 /\ \A p \in PutIds : Free(p)
    BY <1>1, MaxPutsAssumption DEF Send, Sent, Waiting, PushInv, OnlyOurs, PutIds
  <1>4. CASE reply' = "refused" /\ UNCHANGED <<put, slicerVars>>
    BY <1>1, <1>3, <1>4 DEF PushInv, OnlyOurs, Free, Waiting, slicerVars
  <1>5. CASE \E p \in PutIds : Arrive(p, Ratios(Wanted)) /\ put' = p /\ UNCHANGED reply
    <2>1. PICK p \in PutIds : Arrive(p, Ratios(Wanted)) /\ put' = p /\ UNCHANGED reply
      BY <1>5
    <2>2. waiting \in [PutIds -> Ratio \cup {Unknown}]
      BY DEF RanInv, RanTypeOK, SlicerTypeOK
    <2>3. waiting' = [waiting EXCEPT ![p] = Ratios(Wanted)] /\ UNCHANGED <<lock, inForce, gnb>>
      BY <2>1 DEF Arrive
    <2>4. waiting'[p] = Ratios(Wanted) /\ \A q \in PutIds \ {p} : waiting'[q] = Unknown
      BY <1>3, <2>2, <2>3 DEF Free
    <2>5. QED
      BY <1>1, <1>2, <1>3, <2>1, <2>3, <2>4 DEF PushInv, OnlyOurs, Free
  <1>6. QED
    BY <1>1, <1>4, <1>5 DEF Send

\* What the slicer does with it.
LEMMA PushSlicer ==
  ASSUME RanInv, PushInv, IsReal, ~givenUp, SlicerStep \/ SlicerDies
  PROVE  PushInv'
  <1>1. UNCHANGED <<rows, directive, call, step, givenUp>>
    BY DEF SlicerStep, SlicerDies
  <1>2. Wanted' = Wanted
    BY <1>1 DEF Wanted, Pushed, Remaining, Reservations, ReservedFor, Newest, HasRow, Intent
  <1>3. /\ waiting \in [PutIds -> Ratio \cup {Unknown}] /\ 0 \notin PutIds
        /\ OnlyOurs /\ SlicerKnowsTheGnb
    BY MaxPutsAssumption DEF RanInv, RanTypeOK, SlicerTypeOK, PutIds, PushInv
  <1>4. Waiting => reply = "none" /\ step \notin {"persist", "release"}
    BY DEF RanInv, CallUnderWay, Sent
  <1>5. CASE SlicerDies
    <2>1. \A p \in PutIds : waiting'[p] = Unknown
      BY <1>5 DEF SlicerDies, SlicerRestarts
    <2>2. /\ lock' = 0 /\ gnb' = gnb /\ ~Waiting'
          /\ reply' = "refused" \/ reply' = reply
      BY <1>5 DEF SlicerDies, SlicerRestarts, Waiting
    <2>3. reply' = "ok" \/ step \in {"persist", "release"} => gnb = Ratios(Wanted)
      BY <2>2 DEF PushInv
    <2>4. QED
      BY <1>1, <1>2, <2>1, <2>2, <2>3 DEF PushInv, OnlyOurs, Free
  <1>6. CASE SlicerStep
    <2>1. PICK p \in PutIds :
             \/ AnswerUnchanged(p) /\ Reply(p, "ok")
             \/ BeginRestart(p) /\ UNCHANGED <<put, reply>>
             \/ Restarted(p) /\ Reply(p, "ok")
             \/ RenderFails(p) /\ Reply(p, "refused")
             \/ RestartFails(p) /\ Reply(p, "refused")
      BY <1>6 DEF SlicerStep
    <2>2. ~Free(p)
      BY <2>1 DEF AnswerUnchanged, BeginRestart, Restarted, RenderFails, RestartFails
    <2>3. p = put /\ Waiting /\ waiting[p] = Ratios(Wanted) /\ waiting[p] # Unknown
      BY <1>3, <2>2 DEF OnlyOurs, Waiting, PushInv, Free
    <2>4. CASE BeginRestart(p) /\ UNCHANGED <<put, reply>>
      BY <1>1, <1>2, <1>3, <1>4, <2>3, <2>4 DEF BeginRestart, PushInv, OnlyOurs, Free, Waiting
    <2>5. CASE ~(BeginRestart(p) /\ UNCHANGED <<put, reply>>)
      <3>1. /\ put' = 0 /\ ~Waiting' /\ waiting' = [waiting EXCEPT ![p] = Unknown] /\ lock' = 0
            /\ reply' = "refused" \/ (reply' = "ok" /\ gnb' = waiting[p])
        BY <1>3, <2>1, <2>3, <2>5
           DEF AnswerUnchanged, Restarted, RenderFails, RestartFails, Reply, SlicerKnowsTheGnb,
               Waiting
      <3>2. \A q \in PutIds : waiting'[q] = Unknown
        BY <1>3, <2>3, <3>1 DEF OnlyOurs, Free
      <3>3. QED
        BY <1>1, <1>2, <1>4, <2>3, <3>1, <3>2 DEF PushInv, OnlyOurs, Free
    <2>6. QED
      BY <2>4, <2>5
  <1>7. QED
    BY <1>5, <1>6

\* Every step keeps what the agent knows of the gNB.
LEMMA PushStep == RanInv /\ PushInv /\ [Next]_ranVars => PushInv'
  <1>1. SUFFICES ASSUME RanInv, PushInv, [Next]_ranVars, IsReal, ~givenUp'
                 PROVE  PushInv'
    BY DEF PushInv
  <1>2. CASE PushAllocation \/ PushRemaining
    <2>1. ~givenUp
      BY <1>1, <1>2 DEF PushAllocation, PushRemaining, Send
    <2>2. QED
      BY <1>1, <1>2, <2>1, PushSend
  <1>3. CASE SlicerStep \/ SlicerDies
    <2>1. ~givenUp
      BY <1>1, <1>3 DEF SlicerStep, SlicerDies
    <2>2. QED
      BY <1>1, <1>3, <2>1, PushSlicer
  <1>4. ~GiveUp
    BY <1>1 DEF GiveUp
  <1>5. CASE PushAnswered \/ RestoreAnswered
    <2>1. /\ step \in {"push", "restore"} /\ UNCHANGED <<put, givenUp, waiting, lock, gnb, rows>>
          /\ reply' = "none" /\ reply # "none" /\ ~givenUp /\ ~Waiting
      BY <1>1, <1>5 DEF PushAnswered, RestoreAnswered, Read, slicerVars, RanInv, CallUnderWay
    <2>2. OnlyOurs' /\ ~Waiting'
      BY <1>1, <2>1 DEF PushInv, OnlyOurs, Free, Waiting
    <2>3. CASE /\ reply = "ok"
               /\ \/ Advance("persist") /\ step = "push"
                  \/ Advance("release") /\ step = "restore"
      <3>1. UNCHANGED <<call, directive>> /\ gnb' = Ratios(Wanted)
        BY <1>1, <2>1, <2>3 DEF Advance, PushInv
      <3>2. Wanted' = Wanted
        <4>1. Pushed' = Pushed /\ Remaining' = Remaining
          BY <2>1, <3>1 DEF Pushed, Remaining, Reservations, ReservedFor, Newest, HasRow, Intent
        <4>2. (step = "push" /\ step' = "persist") \/ (step = "restore" /\ step' = "release")
          BY <2>3 DEF Advance
        <4>3. QED
          BY <4>1, <4>2 DEF Wanted
      <3>3. QED
        BY <2>2, <3>1, <3>2 DEF PushInv
    <2>4. CASE step' \in {"loop", "idle"}
      BY <2>1, <2>2, <2>4 DEF PushInv
    <2>5. CASE PushAnswered
      <3>1. (Read("ok") /\ Advance("persist") /\ step = "push") \/ BackToLoop("failed")
        BY <2>5 DEF PushAnswered
      <3>2. CASE BackToLoop("failed")
        BY <2>4, <3>2 DEF BackToLoop
      <3>3. CASE Read("ok") /\ Advance("persist") /\ step = "push"
        BY <2>3, <3>3 DEF Read
      <3>4. QED
        BY <3>1, <3>2, <3>3
    <2>6. CASE RestoreAnswered
      <3>1. (Read("ok") /\ Advance("release") /\ step = "restore") \/ End("failed")
        BY <2>6 DEF RestoreAnswered
      <3>2. End("failed") => step' = "idle"
        BY DEF End
      <3>3. Read("ok") => reply = "ok"
        BY DEF Read
      <3>4. QED
        BY <2>3, <2>4, <3>1, <3>2, <3>3
    <2>7. QED
      BY <1>5, <2>5, <2>6
  <1>6. CASE /\ ~givenUp /\ UNCHANGED <<waiting, lock>> /\ put' = put /\ reply' = "none"
             /\ ~Waiting /\ step' \notin {"persist", "release"}
    BY <1>1, <1>6 DEF PushInv, OnlyOurs, Free, Waiting
  <1>7. CASE RanAgentDies
    <2>1. ~Waiting /\ ~givenUp /\ put' = put
      BY <1>1, <1>7 DEF RanAgentDies, Waiting
    <2>2. QED
      BY <1>6, <1>7, <2>1 DEF RanAgentDies, AgentDies, End, slicerVars
  <1>8. CASE \/ \E c \in AllocateCalls : Answered(c) \/ \E used \in Usage : AllocatePrb(c, used)
             \/ (FinalAnswer \/ LoopRaises) /\ UNCHANGED <<rows, pushVars, slicerVars>>
             \/ NothingToRevert \/ Persist \/ Release
    <2>1. ~Sent /\ UNCHANGED <<pushVars, slicerVars>>
      BY <1>1, <1>8 DEF Answered, AnswerCall, AllocatePrb, BeginCall, FinalAnswer, LoopRaises,
                        NothingToRevert, Persist, Release, InLoop, RanInv, CallUnderWay
    <2>2. step' \in {"loop", "push", "idle"}
      BY <1>1, <1>8 DEF Answered, AnswerCall, AllocatePrb, BeginCall, FinalAnswer, LoopRaises,
                        NothingToRevert, Persist, Release, InLoop, BackToLoop, End, serverVars
    <2>3. QED
      BY <1>1, <1>6, <2>1, <2>2 DEF pushVars, slicerVars, Sent
  <1>9. CASE \E tool \in AllTools, i \in Intents : Receive(tool, i)
    <2>1. /\ put = 0 /\ reply = "none" /\ UNCHANGED <<pushVars, slicerVars>>
          /\ step' \in {"loop", "restore"}
      BY <1>1, <1>9 DEF Receive, Take, RanInv, AtRest
    <2>2. QED
      BY <1>1, <1>6, <2>1 DEF pushVars, slicerVars, Waiting
  <1>10. CASE UNCHANGED ranVars
    <2>1. UNCHANGED <<rows, put, reply, givenUp, waiting, lock, gnb, directive, step, call>>
      BY <1>10 DEF ranVars, pushVars, slicerVars, serverVars
    <2>2. Wanted' = Wanted
      BY <2>1 DEF Wanted, Pushed, Remaining, Reservations, ReservedFor, Newest, HasRow, Intent
    <2>3. QED
      BY <1>1, <2>1, <2>2 DEF PushInv, OnlyOurs, Free, Waiting
  <1>11. QED
    BY <1>1, <1>2, <1>3, <1>4, <1>5, <1>7, <1>8, <1>9, <1>10 DEF Next, Carry

\* A slice that the row of the intent does not count in, or no more, keeps the
\* reservation the other rows give it.
LEMMA OthersReservation ==
  ASSUME RanTypeOK, Intent \in Intents, NEW s \in Slices,
         \A i \in Intents \ {Intent} : rows'[i] = rows[i],
         rows'[Intent] = Nothing \/ SliceOf[Intent] # s
  PROVE  ReservedFor(s, Intents)' = ReservedFor(s, Intents \ {Intent})
  <1> DEFINE own == {i \in Intents \ {Intent} : HasRow(i) /\ SliceOf[i] = s}
             own1 == {i \in Intents : HasRow(i)' /\ SliceOf[i] = s}
  <1>1. own1 = own /\ \A i \in own : rows'[i] = rows[i]
    BY DEF HasRow, RanTypeOK
  <1>2. CASE own = {}
    BY <1>1, <1>2 DEF ReservedFor
  <1>3. CASE own # {}
    <2>1. Newest(own) \in own
      <3>1. own \in SUBSET Intents /\ \A i \in own : HasRow(i)
        OBVIOUS
      <3> HIDE DEF own
      <3>2. QED
        BY <1>3, <3>1, NewestIsOne
    <2> DEFINE new == CHOOSE i \in own : \A j \in own : rows'[j].at <= rows'[i].at
    <2>2. new = Newest(own)
      <3>1. \A i \in own : (\A j \in own : rows'[j].at <= rows'[i].at)
                             <=> (\A j \in own : rows[j].at <= rows[i].at)
        BY <1>1
      <3> HIDE DEF own
      <3>2. (CHOOSE i \in own : \A j \in own : rows'[j].at <= rows'[i].at)
              = CHOOSE i \in own : \A j \in own : rows[j].at <= rows[i].at
        BY <3>1, Zenon
      <3>3. QED
        BY <3>2, Zenon DEF Newest
    <2>3. ReservedFor(s, Intents)' = rows'[CHOOSE i \in own1 : \A j \in own1 :
                                              rows'[j].at <= rows'[i].at].prb
      BY <1>1, <1>3 DEF ReservedFor, Newest
    <2> HIDE DEF own1
    <2>4. ReservedFor(s, Intents)' = rows'[new].prb
      BY <1>1, <2>3, Zenon DEF new
    <2>5. ReservedFor(s, Intents \ {Intent}) = rows[Newest(own)].prb
      BY <1>3 DEF ReservedFor
    <2>6. QED
      BY <1>1, <2>1, <2>2, <2>4, <2>5
  <1>4. QED
    BY <1>2, <1>3

\* Without the row that is released, the table is what a revert pushes.
LEMMA ReleasedTable ==
  ASSUME RanTypeOK, Intent \in Intents, rows' = [rows EXCEPT ![Intent] = Nothing]
  PROVE  Reservations(Intents)' = Remaining
  <1>1. rows'[Intent] = Nothing /\ \A i \in Intents \ {Intent} : rows'[i] = rows[i]
    BY DEF RanTypeOK
  <1>2. \A s \in Slices : ReservedFor(s, Intents)' = ReservedFor(s, Intents \ {Intent})
    BY <1>1, OthersReservation
  <1>3. QED
    BY <1>2 DEF Reservations, Remaining

\* What the gNB runs with in every reachable state.
THEOREM PushInvariance ==
  ASSUME GuardrailsEnabled
  PROVE  Spec => []PushInv
  <1>1. QED
    BY PushInit, PushStep, RanInvariance, PTL DEF Spec

\* A revert that reports success leaves the gNB with the ratios of the table.
THEOREM RevertRestores ==
  ASSUME GuardrailsEnabled
  PROVE  Spec => RestoredOnRevert
  <1> DEFINE A == Ends /\ answered' = "reverted" /\ ~givenUp /\ IsReal
                    => gnb' = Ratios(Reservations(Intents))'
  <1>1. RanInv /\ PushInv /\ [Next]_ranVars => [A]_ranVars
    <2>1. SUFFICES ASSUME RanInv, PushInv, Next, Ends, answered' = "reverted",
                          ~givenUp, IsReal
                   PROVE  gnb' = Ratios(Reservations(Intents))'
      BY DEF A
    <2>2. ~Idle /\ directive' # directive
      BY <2>1 DEF Ends, Idle
    <2>3. Release
      <3>1. ~(PushAllocation \/ PushRemaining \/ PushAnswered \/ Persist)
        BY <2>2 DEF PushAllocation, PushRemaining, PushAnswered, Persist, Send, Advance,
                    BackToLoop, serverVars
      <3>2. ~(NothingToRevert \/ LoopRaises \/ RanAgentDies)
        BY <2>1 DEF NothingToRevert, LoopRaises, RanAgentDies, AgentDies, End
      <3>3. ~RestoreAnswered
        BY <2>1, <2>2 DEF RestoreAnswered, Advance, End
      <3>4. ~FinalAnswer
        BY <2>1 DEF FinalAnswer, End, DirectiveStatus, RanInv, RanTypeOK
      <3>5. ASSUME NEW c, Answered(c) \/ \E used \in Usage : AllocatePrb(c, used)
            PROVE  FALSE
        BY <2>2, <3>5 DEF Answered, AnswerCall, AllocatePrb, BeginCall, serverVars
      <3>6. ~(GiveUp \/ SlicerStep \/ SlicerDies)
        BY <2>2 DEF GiveUp, SlicerStep, SlicerDies
      <3>7. ASSUME NEW tool, NEW i, Receive(tool, i)
            PROVE  FALSE
        BY <2>2, <3>7 DEF Receive, Take
      <3>8. QED
        BY <2>1, <3>1, <3>2, <3>3, <3>4, <3>5, <3>6, <3>7 DEF Next, Carry
    <2>4. /\ step = "release" /\ Intent \in Intents /\ RanTypeOK
          /\ rows' = [rows EXCEPT ![Intent] = Nothing] /\ gnb' = gnb
      BY <2>1, <2>3, Busy DEF Release, End, RanInv, slicerVars
    <2>5. gnb = Ratios(Remaining)
      BY <2>1, <2>4 DEF PushInv, Wanted
    <2>6. QED
      BY <2>4, <2>5, ReleasedTable DEF Ratios
  <1>2. QED
    BY <1>1, RanInvariance, PushInvariance, PTL DEF Spec, RestoredOnRevert

-----------------------------------------------------------------------------
(***************************************************************************)
(* One intent in each slice.                                               *)
(***************************************************************************)

\* Then a row is its slice's reservation, and a slice without one has none.
LEMMA OneReservation ==
  ASSUME OnePerSlice, RanTypeOK, NEW S \in SUBSET Intents
  PROVE  /\ \A i \in S : HasRow(i) => ReservedFor(SliceOf[i], S) = rows[i].prb
                                      /\ rows[i].prb \in Nat
         /\ \A s \in Slices : (\A i \in S : HasRow(i) => SliceOf[i] # s)
                                => ReservedFor(s, S) = Unreserved
  <1>1. ASSUME NEW i \in S, HasRow(i)
        PROVE  ReservedFor(SliceOf[i], S) = rows[i].prb /\ rows[i].prb \in Nat
    <2> DEFINE own == {j \in S : HasRow(j) /\ SliceOf[j] = SliceOf[i]}
    <2>1. SliceOf[i] \in Slices
      BY SliceOfAssumption
    <2>2. own = {i}
      BY <1>1 DEF OnePerSlice
    <2>3. \E j \in own : ReservedFor(SliceOf[i], S) = rows[j].prb /\ rows[j].prb \in Nat
      BY <2>1, <2>2, ReservedForOne
    <2>4. QED
      BY <2>2, <2>3
  <1>2. ASSUME NEW s \in Slices, \A i \in S : HasRow(i) => SliceOf[i] # s
        PROVE  ReservedFor(s, S) = Unreserved
    BY <1>2, ReservedForOne
  <1>3. QED
    BY <1>1, <1>2

\* What admission grants leaves room for every other row.
LEMMA AdmissionFits ==
  ASSUME RanInv, GuardrailsEnabled, OnePerSlice, RowsFit,
         NEW c \in AllocateCalls, NEW used \in Usage, AllocatePrb(c, used)
  PROVE  GrantFits'
  <1>1. /\ step = "loop" /\ RanTypeOK /\ Intent \in Intents /\ UNCHANGED <<rows, directive>>
    BY Busy DEF AllocatePrb, BeginCall, InLoop, RanInv
  <1> DEFINE r == ReservedByOthers(SliceOf[Intent])
             a == Available(used)
  <1>2. /\ call' \in Call /\ call'.prb <= a /\ a \in 0..PrbTotal /\ r \in Nat
        /\ r <= PrbTotal => a + r <= PrbTotal
    BY AdmissionGrants
  <1>3. ASSUME NEW j \in Intents \ {Intent}, HasRow(j)
        PROVE  rows[j].prb = r /\ r <= PrbTotal
    <2>1. SliceOf[j] # SliceOf[Intent]
      BY <1>1, <1>3 DEF OnePerSlice
    <2>2. SliceOf[j] = OtherSlice(SliceOf[Intent])
      BY <1>1, <2>1, SliceOfAssumption DEF OtherSlice, Slices
    <2>3. ReservedFor(SliceOf[j], Intents) = rows[j].prb /\ rows[j].prb \in Nat
      BY <1>1, <1>3, OneReservation
    <2>4. r = rows[j].prb
      BY <2>2, <2>3, UnreservedAssumption DEF ReservedByOthers
    <2>5. QED
      BY <1>3, <2>4 DEF RowsFit
  <1>4. call'.prb \in Nat
    BY <1>2 DEF Call
  <1>5. Intent' = Intent /\ \A j \in Intents : HasRow(j)' = HasRow(j)
    BY <1>1 DEF Intent, HasRow
  <1> HIDE DEF r, a
  <1>6. call'.prb <= PrbTotal /\ \A j \in Intents \ {Intent} :
                                   HasRow(j) => call'.prb + rows[j].prb <= PrbTotal
    BY <1>2, <1>3, <1>4, PrbTotalAssumption
  <1>7. QED
    BY <1>1, <1>5, <1>6 DEF GrantFits

\* Every step keeps the cell from being oversold.
LEMMA CapacityStep ==
  ASSUME GuardrailsEnabled, OnePerSlice
  PROVE  RanInv /\ CapacityInv /\ [Next]_ranVars => CapacityInv'
  <1>1. SUFFICES ASSUME RanInv, CapacityInv, [Next]_ranVars
                 PROVE  CapacityInv'
    OBVIOUS
  <1>2. CASE \E c \in AllocateCalls, used \in Usage : AllocatePrb(c, used)
    <2>1. GrantFits'
      BY <1>1, <1>2, AdmissionFits DEF CapacityInv
    <2>2. UNCHANGED rows
      BY <1>2 DEF AllocatePrb
    <2>3. QED
      BY <1>1, <2>1, <2>2 DEF CapacityInv, RowsFit, HasRow
  <1>3. CASE /\ \A i \in Intents : rows'[i] \in {rows[i], Nothing}
             /\ \/ step' \notin {"push", "persist"}
                \/ step \in {"push", "persist"} /\ UNCHANGED <<call, directive>>
    BY <1>1, <1>3 DEF CapacityInv, RowsFit, GrantFits, HasRow, Intent
  <1>4. CASE Persist
    <2>1. step = "persist" /\ step' = "loop" /\ Intent \in Intents /\ RanTypeOK /\ call \in Call
      BY <1>1, <1>4, Busy DEF Persist, BackToLoop, RanInv, CallUnderWay
    <2>2. CASE UNCHANGED rows
      BY <1>3, <2>1, <2>2
    <2>3. CASE Upsert
      <3>1. /\ rows'[Intent].prb = call.prb
            /\ \A j \in Intents \ {Intent} : rows'[j] = rows[j]
        BY <2>1, <2>3, UpsertType
      <3>2. /\ call.prb <= PrbTotal /\ call.prb \in Nat
            /\ \A j \in Intents \ {Intent} : HasRow(j) => call.prb + rows[j].prb <= PrbTotal
        BY <1>1, <2>1 DEF CapacityInv, GrantFits, Call
      <3>3. \A j \in Intents : HasRow(j) => rows[j].prb \in Nat
        BY <2>1 DEF RanTypeOK, HasRow, Allocation
      <3>4. RowsFit'
        <4>1. SUFFICES ASSUME NEW i \in Intents, rows'[i] # Nothing,
                              NEW j \in Intents \ {i}, rows'[j] # Nothing
                       PROVE  rows'[i].prb + rows'[j].prb <= PrbTotal
          BY <1>1, <3>1, <3>2 DEF CapacityInv, RowsFit, HasRow
        <4>2. CASE i = Intent
          BY <3>1, <3>2, <4>1, <4>2 DEF HasRow
        <4>3. CASE j = Intent
          <5>1. rows'[i] = rows[i] /\ HasRow(i) /\ rows[i].prb \in Nat
            BY <3>1, <3>3, <4>1, <4>3 DEF HasRow
          <5>2. call.prb + rows[i].prb <= PrbTotal
            BY <3>2, <4>1, <4>3, <5>1
          <5>3. QED
            BY <3>1, <3>2, <4>3, <5>1, <5>2
        <4>4. CASE i # Intent /\ j # Intent
          BY <1>1, <3>1, <4>1, <4>4 DEF CapacityInv, RowsFit, HasRow
        <4>5. QED
          BY <4>2, <4>3, <4>4
      <3>5. QED
        BY <2>1, <3>4 DEF CapacityInv, GrantFits
    <2>4. QED
      BY <1>4, <2>2, <2>3 DEF Persist
  <1>5. CASE Release
    <2>1. \A i \in Intents : rows'[i] \in {rows[i], Nothing}
      BY <1>1, <1>5 DEF Release, RanInv, RanTypeOK
    <2>2. QED
      BY <1>3, <1>5, <2>1 DEF Release, End
  <1>6. CASE PushAllocation \/ PushRemaining \/ PushAnswered \/ RestoreAnswered
    <2>1. UNCHANGED rows
      BY <1>6 DEF PushAllocation, PushRemaining, PushAnswered, RestoreAnswered, Send
    <2>2. \/ step' \notin {"push", "persist"}
          \/ step \in {"push", "persist"} /\ UNCHANGED <<call, directive>>
      BY <1>6 DEF PushAllocation, PushRemaining, PushAnswered, RestoreAnswered, Send, serverVars,
                  Advance, BackToLoop, End
    <2>3. QED
      BY <1>3, <2>1, <2>2
  <1>7. CASE \/ \E c \in AllocateCalls : Answered(c)
             \/ (FinalAnswer \/ LoopRaises) /\ UNCHANGED <<rows, pushVars, slicerVars>>
             \/ NothingToRevert \/ RanAgentDies
             \/ \E tool \in AllTools, i \in Intents : Receive(tool, i)
    <2>1. UNCHANGED rows /\ step' \in {"loop", "idle", "restore"}
      BY <1>7 DEF Answered, AnswerCall, InLoop, FinalAnswer, LoopRaises, NothingToRevert,
                  RanAgentDies, AgentDies, End, Receive, Take, serverVars
    <2>2. QED
      BY <1>3, <2>1
  <1>8. CASE GiveUp \/ SlicerStep \/ SlicerDies \/ UNCHANGED ranVars
    <2>1. UNCHANGED <<rows, step, call, directive>>
      BY <1>8 DEF GiveUp, SlicerStep, SlicerDies, ranVars, serverVars
    <2>2. QED
      BY <1>3, <2>1
  <1>9. QED
    BY <1>1, <1>2, <1>4, <1>5, <1>6, <1>7, <1>8 DEF Next, Carry

LEMMA CapacityInitially == Init => CapacityInv
  BY DEF Init, ServerInit, CapacityInv, RowsFit, GrantFits, HasRow

\* Admission never promises more PRBs than the cell has.
THEOREM CellIsNotOversold ==
  ASSUME GuardrailsEnabled, OnePerSlice
  PROVE  Spec => []ReservationsFit
  <1>1. Init => CapacityInv
    BY CapacityInitially
  <1>2. RanInv /\ CapacityInv => ReservationsFit
    <2>1. SUFFICES ASSUME RanInv, CapacityInv
                   PROVE  ReservationsFit
      OBVIOUS
    <2>2. RanTypeOK /\ RowsFit
      BY <2>1 DEF RanInv, CapacityInv
    <2> DEFINE prb(s) == PrbsOf(ReservedFor(s, Intents))
               own(s) == {i \in Intents : HasRow(i) /\ SliceOf[i] = s}
    <2>3. ASSUME NEW s \in Slices
          PROVE  prb(s) = 0 \/ \E i \in own(s) : prb(s) = rows[i].prb /\ prb(s) \in Nat
      <3>1. CASE own(s) = {}
        BY <2>2, <3>1, ReservedForOne DEF PrbsOf
      <3>2. CASE own(s) # {}
        <4>1. \E i \in own(s) : ReservedFor(s, Intents) = rows[i].prb /\ rows[i].prb \in Nat
          BY <2>2, <3>2, ReservedForOne
        <4>2. QED
          BY <4>1, UnreservedAssumption DEF PrbsOf
      <3>3. QED
        BY <3>1, <3>2
    <2>4. \A i \in own(1) : rows[i].prb <= PrbTotal /\ \A j \in own(2) : rows[i].prb + rows[j].prb <= PrbTotal
      BY <2>2 DEF RowsFit
    <2>5. \A j \in own(2) : rows[j].prb <= PrbTotal
      BY <2>2 DEF RowsFit
    <2> HIDE DEF prb, own
    <2>6. prb(1) + prb(2) <= PrbTotal
      BY <2>3, <2>4, <2>5, PrbTotalAssumption DEF Slices
    <2>7. QED
      BY <2>6 DEF ReservationsFit, prb
  <1>3. QED
    BY <1>1, <1>2, CapacityStep, RanInvariance, PTL DEF Spec

-----------------------------------------------------------------------------
(***************************************************************************)
(* Admission counts PRBs, the slicer percentages.                          *)
(***************************************************************************)

\* Rounding up, by the multiplication it undoes.
LEMMA CeilDivBounds ==
  ASSUME NEW a \in Nat, NEW b \in Nat \ {0}
  PROVE  b * CeilDiv(a, b) <= a + b - 1
  <1>1. a + b - 1 \in Nat /\ b > 0
    OBVIOUS
  <1>2. b * ((a + b - 1) \div b) <= a + b - 1
    BY <1>1
  <1>3. QED
    BY <1>2 DEF CeilDiv

\* Each share is rounded up by less than a percent, so two need n percent of the
\* cell at most if they are that far from n + 1.
LEMMA RatiosAtMost ==
  ASSUME NEW a \in Nat, NEW b \in Nat, NEW n \in Nat,
         100 * (a + b) + 2 * PrbTotal - 2 < (n + 1) * PrbTotal
  PROVE  RatioOf(a) + RatioOf(b) <= n
  <1> DEFINE q(x) == CeilDiv(100 * x, PrbTotal)
  <1>1. ASSUME NEW x \in Nat
        PROVE  q(x) \in Nat /\ RatioOf(x) \in Nat /\ RatioOf(x) <= q(x)
    <2>1. 100 * x \in Nat /\ q(x) \in Nat
      BY CeilDivNat, PrbTotalAssumption
    <2>2. QED
      BY <2>1, UnreservedAssumption DEF RatioOf, AtMost
  <1>2. ASSUME NEW x \in Nat
        PROVE  PrbTotal * q(x) <= 100 * x + PrbTotal - 1
    <2>1. 100 * x \in Nat
      OBVIOUS
    <2>2. QED
      BY <2>1, CeilDivBounds, PrbTotalAssumption
  <1>3. q(a) \in Nat /\ q(b) \in Nat
    BY <1>1
  <1>4. PrbTotal * q(a) <= 100 * a + PrbTotal - 1 /\ PrbTotal * q(b) <= 100 * b + PrbTotal - 1
    BY <1>2
  <1>5. RatioOf(a) + RatioOf(b) <= q(a) + q(b) /\ RatioOf(a) \in Nat /\ RatioOf(b) \in Nat
    BY <1>1, <1>3
  <1> HIDE DEF q
  <1>6. PrbTotal * q(a) + PrbTotal * q(b) <= 100 * (a + b) + 2 * PrbTotal - 2
    BY <1>3, <1>4, PrbTotalAssumption
  <1>7. PrbTotal * (q(a) + q(b)) < PrbTotal * (n + 1)
    BY <1>3, <1>6, PrbTotalAssumption
  <1>8. q(a) + q(b) < n + 1
    BY <1>3, <1>7, PrbTotalAssumption
  <1>9. QED
    BY <1>3, <1>5, <1>8

\* The reservations of a push, absent ones as nothing, fit the cell.
LEMMA PushedFits ==
  ASSUME RanInv, CapacityInv, OnePerSlice, step = "push"
  PROVE  /\ PrbsOf(Pushed[1]) \in Nat /\ PrbsOf(Pushed[2]) \in Nat
         /\ PrbsOf(Pushed[1]) + PrbsOf(Pushed[2]) <= PrbTotal
         /\ \A s \in Slices : RatioOf(Pushed[s]) = RatioOf(PrbsOf(Pushed[s]))
  <1>1. RanTypeOK /\ Intent \in Intents /\ call \in Call /\ GrantFits
    BY Busy DEF RanInv, CapacityInv, CallUnderWay
  <1> DEFINE s == SliceOf[Intent]
             o == OtherSlice(s)
             others == Intents \ {Intent}
  <1>2. s \in Slices /\ o \in Slices /\ {s, o} = {1, 2} /\ s # o
    BY <1>1, SliceOfAssumption DEF OtherSlice, Slices
  <1>3. call.prb \in Nat /\ call.prb <= PrbTotal
    BY <1>1 DEF GrantFits, Call
  <1>4. Pushed[s] = call.prb /\ Pushed[o] = ReservedFor(o, others)
    BY <1>2 DEF Pushed, Remaining, Reservations
  <1>5. PrbsOf(Pushed[s]) = call.prb
    BY <1>3, <1>4, UnreservedAssumption DEF PrbsOf
  <1>6. PrbsOf(Pushed[o]) \in Nat /\ call.prb + PrbsOf(Pushed[o]) <= PrbTotal
    <2>1. CASE \E j \in others : HasRow(j) /\ SliceOf[j] = o
      <3>1. PICK j \in others : HasRow(j) /\ SliceOf[j] = o
        BY <2>1
      <3>2. ReservedFor(o, others) = rows[j].prb /\ rows[j].prb \in Nat
        BY <1>1, <3>1, OneReservation
      <3>3. call.prb + rows[j].prb <= PrbTotal
        BY <1>1, <3>1 DEF GrantFits
      <3>4. QED
        BY <1>4, <3>2, <3>3, UnreservedAssumption DEF PrbsOf
    <2>2. CASE ~\E j \in others : HasRow(j) /\ SliceOf[j] = o
      <3>1. ReservedFor(o, others) = Unreserved
        BY <1>1, <1>2, <2>2, OneReservation
      <3>2. QED
        BY <1>3, <1>4, <3>1 DEF PrbsOf
    <2>3. QED
      BY <2>1, <2>2
  <1>7. \A t \in Slices : RatioOf(Pushed[t]) = RatioOf(PrbsOf(Pushed[t]))
    BY DEF RatioOf, PrbsOf
  <1> HIDE DEF s, o
  <1>8. CASE s = 1 /\ o = 2
    BY <1>3, <1>5, <1>6, <1>7, <1>8
  <1>9. CASE s = 2 /\ o = 1
    <2>1. PrbsOf(Pushed[o]) + call.prb <= PrbTotal
      BY <1>3, <1>6, PrbTotalAssumption
    <2>2. QED
      BY <1>3, <1>5, <1>6, <1>7, <1>9, <2>1
  <1>10. QED
    BY <1>2, <1>8, <1>9

\* In a cell of any size, with one intent in each slice, the slicer refuses what
\* admission has granted for one percent at most, and never while a hundredth of
\* the cell is left: rounding up each slice's share is all that separates the
\* two (allocate_prb, ratio_of).
THEOREM GrantsAreNearlyEnforceable ==
  ASSUME GuardrailsEnabled, OnePerSlice
  PROVE  Spec => []AdmittedUpToRounding
  <1>1. RanInv /\ CapacityInv => AdmittedUpToRounding
    <2> SUFFICES ASSUME RanInv, CapacityInv, step = "push"
                 PROVE  /\ Ratios(Pushed)[1] + Ratios(Pushed)[2] <= 101
                        /\ 100 * (PrbsOf(Pushed[1]) + PrbsOf(Pushed[2])) <= 99 * PrbTotal
                             => FitsCell(Ratios(Pushed))
      BY DEF AdmittedUpToRounding
    <2> DEFINE a == PrbsOf(Pushed[1])
               b == PrbsOf(Pushed[2])
    <2>1. /\ a \in Nat /\ b \in Nat /\ a + b <= PrbTotal
          /\ Ratios(Pushed)[1] = RatioOf(a) /\ Ratios(Pushed)[2] = RatioOf(b)
      BY PushedFits DEF Ratios, Slices
    <2> HIDE DEF a, b
    <2>2. RatioOf(a) + RatioOf(b) <= 101
      <3>1. 100 * (a + b) + 2 * PrbTotal - 2 < (101 + 1) * PrbTotal
        BY <2>1, PrbTotalAssumption
      <3>2. QED
        BY <2>1, <3>1, RatiosAtMost
    <2>3. ASSUME 100 * (a + b) <= 99 * PrbTotal
          PROVE  FitsCell(Ratios(Pushed))
      <3>1. 100 * (a + b) + 2 * PrbTotal - 2 < (100 + 1) * PrbTotal
        BY <2>1, <2>3, PrbTotalAssumption
      <3>2. QED
        BY <2>1, <3>1, RatiosAtMost DEF FitsCell
    <2>4. QED
      BY <2>1, <2>2, <2>3 DEF a, b
  <1>2. QED
    BY <1>1, CapacityInitially, CapacityStep, RanInvariance, PTL DEF Spec

-----------------------------------------------------------------------------
\* With the row that is written, the table is what the allocation has pushed.
LEMMA PersistedTable ==
  ASSUME OnePerSlice, RanTypeOK, Intent \in Intents, call \in Call, Upsert
  PROVE  Reservations(Intents)' = Pushed
  <1>1. /\ rows'[Intent] \in Allocation /\ rows'[Intent].prb = call.prb
        /\ \A i \in Intents \ {Intent} : rows'[i] = rows[i]
    BY UpsertType
  <1>2. ASSUME NEW s \in Slices, SliceOf[Intent] # s
        PROVE  ReservedFor(s, Intents)' = Remaining[s]
    BY <1>1, <1>2, OthersReservation DEF Remaining, Reservations
  <1>3. ASSUME NEW s \in Slices, s = SliceOf[Intent]
        PROVE  ReservedFor(s, Intents)' = call.prb
    <2> DEFINE own == {i \in Intents : HasRow(i)' /\ SliceOf[i] = s}
    <2>1. own = {Intent} /\ rows'[Intent].at \in Int
      BY <1>1, <1>3, NothingAssumption DEF OnePerSlice, Allocation, HasRow
    <2>2. (CHOOSE i \in own : \A j \in own : rows'[j].at <= rows'[i].at) = Intent
      BY <2>1
    <2>3. own # {}
      BY <2>1
    <2>4. ReservedFor(s, Intents)'
            = rows'[CHOOSE i \in own : \A j \in own : rows'[j].at <= rows'[i].at].prb
      BY <2>3 DEF ReservedFor, Newest
    <2> HIDE DEF own
    <2>5. QED
      BY <1>1, <2>2, <2>4, Zenon
  <1>4. ASSUME NEW s \in Slices
        PROVE  ReservedFor(s, Intents)' = Pushed[s]
    <2>1. Pushed[s] = IF s = SliceOf[Intent] THEN call.prb ELSE Remaining[s]
      BY DEF Pushed, Remaining, Reservations
    <2>2. QED
      BY <1>2, <1>3, <2>1
  <1>5. QED
    BY <1>4 DEF Pushed, Remaining, Reservations

\* Every step without a fault keeps the table and the gNB together.
LEMMA TableStep ==
  ASSUME OnePerSlice
  PROVE  RanInv /\ PushInv /\ TableInForce /\ [Next]_ranVars => TableInForce'
  <1> DEFINE Goal == /\ ~givenUp'
                     /\ step' \notin {"persist", "release"} /\ ~Waiting' /\ reply' # "ok" =>
                          gnb' = Ratios(Reservations(Intents)')
             Due == step \notin {"persist", "release"} /\ ~Waiting /\ reply # "ok"
  <1>1. SUFFICES ASSUME RanInv, PushInv, TableInForce, [Next]_ranVars, IsReal, faults' = 0
                 PROVE  Goal
    BY DEF TableInForce, Ratios
  <1>2. faults \in Nat /\ RanTypeOK /\ (Fault => faults' # 0)
    BY <1>1, BoundsAssumption DEF RanInv, RanTypeOK, Fault
  <1>3. ~(GiveUp \/ SlicerDies \/ RanAgentDies)
    BY <1>1, <1>2 DEF GiveUp, SlicerDies, RanAgentDies, AgentDies
  <1>4. ASSUME faults = 0
        PROVE  ~givenUp /\ (Due => gnb = Ratios(Reservations(Intents)))
    BY <1>1, <1>4 DEF TableInForce
  <1>5. ASSUME UNCHANGED <<rows, gnb, givenUp, faults>>,
               step' \notin {"persist", "release"} /\ ~Waiting' /\ reply' # "ok" => Due
        PROVE  Goal
    <2>1. Reservations(Intents)' = Reservations(Intents)
      BY <1>5 DEF Reservations, ReservedFor, Newest, HasRow
    <2>2. QED
      BY <1>1, <1>4, <1>5, <2>1
  <1>6. CASE PushAllocation \/ PushRemaining
    <2>1. /\ UNCHANGED <<rows, gnb, givenUp, faults>> /\ step \in {"push", "restore"} /\ ~Sent
          /\ reply' = "refused" \/ Waiting'
      BY <1>1, <1>6, MaxPutsAssumption
         DEF PushAllocation, PushRemaining, Send, serverVars, slicerVars, Arrive, Waiting, PutIds
    <2>2. QED
      BY <1>5, <2>1 DEF Sent
  <1>7. CASE PushAnswered \/ RestoreAnswered
    <2>1. /\ UNCHANGED <<rows, gnb, givenUp, faults, put>> /\ step \in {"push", "restore"}
          /\ reply = "refused" \/ step' \in {"persist", "release"}
      BY <1>7 DEF PushAnswered, RestoreAnswered, Read, slicerVars, BackToLoop, Advance, End
    <2>2. QED
      BY <1>5, <2>1 DEF Waiting
  <1>8. CASE \/ \E c \in AllocateCalls : Answered(c) \/ \E used \in Usage : AllocatePrb(c, used)
             \/ (FinalAnswer \/ LoopRaises) /\ UNCHANGED <<rows, pushVars, slicerVars>>
             \/ NothingToRevert
             \/ \E tool \in AllTools, i \in Intents : Receive(tool, i)
    <2>1. UNCHANGED <<rows, pushVars, slicerVars, faults>>
      BY <1>8 DEF Answered, AnswerCall, AllocatePrb, BeginCall, FinalAnswer, LoopRaises,
                  NothingToRevert, Receive, Take, serverVars
    <2>2. ~Sent /\ step \in {"loop", "restore", "idle"}
      BY <1>1, <1>8 DEF Answered, AnswerCall, AllocatePrb, BeginCall, FinalAnswer, LoopRaises,
                  NothingToRevert, Receive, Take, InLoop, RanInv, CallUnderWay, AtRest, Sent, Waiting
    <2>3. QED
      BY <1>5, <2>1, <2>2 DEF pushVars, slicerVars, Sent
  <1>9. CASE SlicerStep
    <2>1. PICK p \in PutIds :
            \/ (AnswerUnchanged(p) \/ Restarted(p)) /\ Reply(p, "ok") /\ UNCHANGED faults
            \/ BeginRestart(p) /\ UNCHANGED <<put, reply, faults>>
      BY <1>1, <1>2, <1>9 DEF SlicerStep
    <2>2. UNCHANGED <<givenUp, rows>> /\ faults = 0 /\ ~givenUp
      BY <1>1, <1>4, <1>9, <2>1 DEF SlicerStep
    <2>3. p = put /\ p # 0
      BY <1>1, <2>1, <2>2 DEF PushInv, OnlyOurs, AnswerUnchanged, Restarted, BeginRestart, PutIds
    <2>4. reply' = "ok" \/ Waiting'
      BY <2>1, <2>3 DEF Reply, Waiting
    <2>5. QED
      BY <2>2, <2>4
  <1>10. CASE Persist
    <2>1. /\ step = "persist" /\ Upsert /\ UNCHANGED <<givenUp, gnb, faults>>
          /\ Intent \in Intents /\ call \in Call
      BY <1>1, <1>2, <1>10, Busy DEF Persist, pushVars, slicerVars, RanInv, CallUnderWay
    <2>2. ~givenUp /\ gnb = Ratios(Pushed)
      BY <1>1, <1>4, <2>1 DEF PushInv, Wanted
    <2>3. QED
      BY <1>2, <2>1, <2>2, PersistedTable
  <1>11. CASE Release
    <2>1. /\ step = "release" /\ UNCHANGED <<givenUp, gnb, faults>> /\ Intent \in Intents
          /\ rows' = [rows EXCEPT ![Intent] = Nothing]
      BY <1>1, <1>2, <1>11, Busy DEF Release, pushVars, slicerVars
    <2>2. ~givenUp /\ gnb = Ratios(Remaining)
      BY <1>1, <1>4, <2>1 DEF PushInv, Wanted
    <2>3. QED
      BY <1>2, <2>1, <2>2, ReleasedTable
  <1>12. CASE UNCHANGED ranVars
    BY <1>5, <1>12 DEF ranVars, pushVars, slicerVars, serverVars, Waiting
  <1> HIDE DEF Goal
  <1>13. Goal
    BY <1>1, <1>3, <1>6, <1>7, <1>8, <1>9, <1>10, <1>11, <1>12 DEF Next, Carry
  <1>14. QED
    BY <1>13

\* While nothing goes wrong, the gNB runs between two directives with the ratios
\* of the table.
THEOREM GnbRunsTheTable ==
  ASSUME GuardrailsEnabled, OnePerSlice
  PROVE  Spec => []GnbHoldsTheTable
  <1>1. Init => TableInForce
    <2>1. SUFFICES ASSUME Init
                   PROVE  ~givenUp /\ gnb = Ratios(Reservations(Intents))
      BY DEF TableInForce
    <2>2. \A s \in Slices : RatioOf(ReservedFor(s, Intents)) = 0
      BY <2>1 DEF Init, ReservedFor, HasRow, RatioOf
    <2>3. QED
      BY <2>1, <2>2 DEF Init, SlicerInit, NoShare, Ratios, Reservations
  <1>2. RanInv /\ TableInForce => GnbHoldsTheTable
    BY DEF RanInv, AtRest, TableInForce, GnbHoldsTheTable, Waiting
  <1>3. QED
    BY <1>1, <1>2, TableStep, RanInvariance, PushInvariance, PTL DEF Spec

=============================================================================
