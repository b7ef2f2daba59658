--------------------------- MODULE Monitors_proofs ---------------------------
(***************************************************************************)
(* The monitors for any set of intents, predictions and deployments, any   *)
(* number of events and faults and any cooldowns: type correctness, and at *)
(* most one event per cooldown.                                            *)
(***************************************************************************)
EXTENDS MonitorsInv, TLAPS, FiniteSetTheorems, SequenceTheorems

(***************************************************************************)
(* The history of the slice.                                               *)
(***************************************************************************)

\* Reading the newest rows only keeps a history a history, and short enough.
LEMMA RecentType ==
  ASSUME NEW S, 0 \in S, NEW h \in Seq(S), Len(h) <= HistoryLimit + 1
  PROVE  Recent(h) \in Seq(S) /\ Len(Recent(h)) <= HistoryLimit
  <1>1. HistoryLimit \in Nat \ {0} /\ Len(h) \in Nat
    BY NwdafAssumption
  <1>2. CASE Len(h) <= HistoryLimit
    BY <1>2 DEF Recent
  <1>3. CASE ~(Len(h) <= HistoryLimit)
    <2>1. h # <<>> /\ Tail(h) \in Seq(S) /\ Len(Tail(h)) = HistoryLimit
      BY <1>1, <1>3
    <2>2. /\ [Tail(h) EXCEPT ![1] = 0] \in Seq(S)
          /\ Len([Tail(h) EXCEPT ![1] = 0]) = Len(Tail(h))
      <3>1. 1 \in 1..Len(Tail(h))
        BY <1>1, <2>1
      <3>2. QED
        BY <2>1, <3>1, ExceptSeq
    <2>3. QED
      BY <1>1, <1>3, <2>1, <2>2 DEF Recent
  <1>4. QED
    BY <1>2, <1>3

\* The collector's rows.
LEMMA HistoryStep ==
  ASSUME HistoryTypeOK, RowCollected \/ RowMissed
  PROVE  HistoryTypeOK'
  <1>1. MaxQuiet \in Nat /\ quiet \in 0..MaxQuiet /\ HistoryLimit \in Nat
    BY NwdafAssumption DEF HistoryTypeOK, MaxQuiet
  <1>2. CASE RowMissed
    BY <1>1, <1>2 DEF RowMissed, HistoryTypeOK
  <1>3. CASE RowCollected
    <2> DEFINE gap == IF gaps = <<>> THEN 0 ELSE quiet + 1
               h == Append(gaps, gap)
    <2>1. gap \in 0..MaxQuiet + 1 /\ 0 \in 0..MaxQuiet + 1
      BY <1>1
    <2>2. gaps \in Seq(0..MaxQuiet + 1) /\ Len(gaps) <= HistoryLimit
      BY DEF HistoryTypeOK
    <2>3. h \in Seq(0..MaxQuiet + 1) /\ Len(h) <= HistoryLimit + 1
      <3> HIDE DEF gap
      <3>1. QED
        BY <1>1, <2>1, <2>2
    <2>4. gaps' = Recent(h) /\ quiet' = 0
      BY <1>3 DEF RowCollected
    <2> HIDE DEF h
    <2>5. Recent(h) \in Seq(0..MaxQuiet + 1) /\ Len(Recent(h)) <= HistoryLimit
      BY <2>1, <2>3, RecentType
    <2>6. QED
      BY <1>1, <2>4, <2>5 DEF HistoryTypeOK
  <1>4. QED
    BY <1>2, <1>3

-----------------------------------------------------------------------------
(***************************************************************************)
(* The SLA monitor.                                                        *)
(***************************************************************************)

\* The violations that are read no more leave none or the one there was.
LEMMA ViolationsStep ==
  ASSUME SlaTypeOK, OneViolation, ViolationsAge
  PROVE  /\ violations' \in [Intents -> Seq(0..SlaCooldown - 1)]
         /\ OneViolation'
  <1>1. SlaCooldown \in Nat \ {0}
    BY SlaAssumption
  <1> DEFINE older(i) == [k \in DOMAIN violations[i] |-> violations[i][k] + 1]
             over(i) == {k \in DOMAIN older(i) : older(i)[k] >= SlaCooldown}
             left(i) == SubSeq(older(i), Cardinality(over(i)) + 1, Len(older(i)))
  <1>2. ASSUME NEW i \in Intents
        PROVE  left(i) \in Seq(0..SlaCooldown - 1) /\ Len(left(i)) <= 1
    <2>1. /\ violations[i] \in Seq(0..SlaCooldown - 1)
          /\ Len(violations[i]) \in Nat /\ Len(violations[i]) <= 1
      BY DEF SlaTypeOK, OneViolation
    <2>2. PICK v \in Seq(0..SlaCooldown - 1) : v = violations[i] /\ Len(v) \in {0, 1}
      <3>1. Len(violations[i]) \in {0, 1}
        <4>1. \A n \in Nat : n <= 1 => n \in {0, 1}
          OBVIOUS
        <4>2. QED
          BY <2>1, <4>1, Zenon
      <3>2. QED
        BY <2>1, <3>1, Zenon
    <2>3. DOMAIN older(i) = 1..Len(v) /\ \A k \in 1..Len(v) : older(i)[k] = v[k] + 1
      BY <2>2
    <2>4. older(i) \in Seq(Nat) /\ Len(older(i)) = Len(v)
      <3>1. \A k \in 1..Len(v) : v[k] + 1 \in Nat
        BY <1>1
      <3>2. older(i) = [k \in 1..Len(v) |-> v[k] + 1]
        BY <2>2
      <3> HIDE DEF older
      <3>3. QED
        BY <2>2, <3>1, <3>2
    <2>5. CASE Len(v) = 0
      <3>1. over(i) = {} /\ Len(older(i)) = 0
        BY <2>3, <2>4, <2>5
      <3>2. left(i) = SubSeq(older(i), 1, 0)
        <4> HIDE DEF older, over
        <4>1. QED
          BY <3>1, FS_EmptySet
      <3> HIDE DEF left, older, over
      <3>3. QED
        BY <3>2, SubSeqEmpty
    <2>6. CASE Len(v) = 1
      <3>1. v[1] \in 0..SlaCooldown - 1 /\ older(i)[1] = v[1] + 1
        BY <1>1, <2>3, <2>6
      <3>2. CASE v[1] + 1 >= SlaCooldown
        <4>1. over(i) = {1}
          BY <2>3, <2>6, <3>2
        <4>2. left(i) = SubSeq(older(i), 2, 1)
          <5>1. Cardinality({1}) = 1
            BY FS_Singleton
          <5> HIDE DEF older, over
          <5>2. QED
            BY <2>4, <2>6, <4>1, <5>1
        <4> HIDE DEF left, older, over
        <4>3. QED
          BY <4>2, SubSeqEmpty
      <3>3. CASE ~(v[1] + 1 >= SlaCooldown)
        <4>1. over(i) = {}
          BY <2>3, <2>6, <3>3
        <4>2. left(i) = SubSeq(older(i), 1, 1)
          <5> HIDE DEF older, over
          <5>1. QED
            BY <2>4, <2>6, <4>1, FS_EmptySet
        <4>3. \A k \in 1..1 : older(i)[k] \in 0..SlaCooldown - 1
          BY <1>1, <2>3, <2>6, <3>1, <3>3
        <4> HIDE DEF left, older, over
        <4>4. QED
          BY <4>2, <4>3, SubSeqProperties
      <3>4. QED
        BY <3>2, <3>3
    <2>7. QED
      BY <2>2, <2>5, <2>6
  <1>3. violations' = [i \in Intents |-> left(i)]
    BY DEF ViolationsAge
  <1> HIDE DEF left
  <1>4. QED
    BY <1>2, <1>3 DEF OneViolation

\* Keeping the newest samples.
LEMMA NewestType ==
  ASSUME NEW q \in Seq(BOOLEAN), Len(q) <= Streak + 1
  PROVE  Newest(q) \in Seq(BOOLEAN) /\ Len(Newest(q)) <= Streak
  <1>1. Streak \in Nat \ {0} /\ Len(q) \in Nat
    BY SlaAssumption
  <1>2. CASE Len(q) <= Streak
    BY <1>2 DEF Newest
  <1>3. CASE ~(Len(q) <= Streak)
    <2>1. q # <<>> /\ Tail(q) \in Seq(BOOLEAN) /\ Len(Tail(q)) = Len(q) - 1
      BY <1>1, <1>3
    <2>2. QED
      BY <1>1, <1>3, <2>1 DEF Newest
  <1>4. QED
    BY <1>2, <1>3

\* A poll, its samples and the violation that may come of one.
LEMMA SlaStep ==
  ASSUME SlaTypeOK, OneViolation, guarantee \in [Intents -> Nat \cup {None}],
         SlaPoll \/ MaybeViolation \/ SlaPollDropped
           \/ \E r \in todo : SkipSample(r) \/ SampleOne(r)
  PROVE  SlaTypeOK' /\ OneViolation'
  <1> USE DEF SlaTypeOK
  <1>1. CASE SlaPoll
    <2>1. todo' \subseteq Row
      BY <1>1 DEF SlaPoll, Sampled, Row
    <2>2. QED
      BY <1>1, <2>1 DEF SlaPoll, OneViolation
  <1>2. CASE MaybeViolation
    <2>1. below \in Intents /\ SlaCooldown \in Nat \ {0}
      BY <1>2, SlaAssumption DEF MaybeViolation
    <2>2. CASE violations' = violations
      BY <1>2, <2>2 DEF MaybeViolation, OneViolation
    <2>3. CASE violations' # violations
      <3>1. /\ violations[below] = <<>>
            /\ violations' = [violations EXCEPT ![below] = Append(@, 0)]
        BY <1>2, <2>3 DEF MaybeViolation, Recently
      <3>2. violations' = [violations EXCEPT ![below] = <<0>>]
        BY <2>1, <3>1
      <3>3. <<0>> \in Seq(0..SlaCooldown - 1) /\ Len(<<0>>) = 1
        BY <2>1
      <3>4. /\ violations' \in [Intents -> Seq(0..SlaCooldown - 1)]
            /\ OneViolation'
        BY <2>1, <3>2, <3>3 DEF OneViolation
      <3>5. QED
        BY <1>2, <3>4 DEF MaybeViolation
    <2>4. QED
      BY <2>2, <2>3
  <1>3. CASE SlaPollDropped
    BY <1>3 DEF SlaPollDropped, OneViolation
  <1>4. ASSUME NEW r \in todo, SkipSample(r)
        PROVE  SlaTypeOK' /\ OneViolation'
    BY <1>4 DEF SkipSample, OneViolation
  <1>5. ASSUME NEW r \in todo, SampleOne(r)
        PROVE  SlaTypeOK' /\ OneViolation'
    <2>1. r.intent \in Intents
      BY DEF Row
    <2> DEFINE sample == observed >= r.target
               q == Append(samples[r.intent], sample)
    <2>2. sample \in BOOLEAN
      OBVIOUS
    <2>3. samples[r.intent] \in Seq(BOOLEAN) /\ Len(samples[r.intent]) <= Streak
      BY <2>1
    <2>4. q \in Seq(BOOLEAN) /\ Len(q) <= Streak + 1
      <3> HIDE DEF sample
      <3>1. QED
        BY <2>2, <2>3, SlaAssumption
    <2>5. samples' = [samples EXCEPT ![r.intent] = Newest(q)]
      BY <1>5 DEF SampleOne
    <2> HIDE DEF q
    <2>6. Newest(q) \in Seq(BOOLEAN) /\ Len(Newest(q)) <= Streak
      BY <2>4, NewestType
    <2>7. /\ samples' \in [Intents -> Seq(BOOLEAN)]
          /\ \A i \in Intents : Len(samples'[i]) <= Streak
      BY <2>1, <2>5, <2>6
    <2>8. todo' \subseteq Row /\ below' \in Intents \cup {Nothing}
      BY <1>5, <2>1 DEF SampleOne
    <2>9. QED
      BY <1>5, <2>7, <2>8 DEF SampleOne, OneViolation
  <1>6. QED
    BY <1>1, <1>2, <1>3, <1>4, <1>5

-----------------------------------------------------------------------------
(***************************************************************************)
(* The table of events. Whoever works on an event leaves its intent and    *)
(* its age alone; only time adds to the age.                               *)
(***************************************************************************)

\* Nobody is in two minds about who is young if events only get older.
LEMMA OlderEvents ==
  ASSUME Uc1TypeOK, OneYoung, events' \in [Slots -> Event \cup {Nothing}],
         \A s \in Slots : Used(s)' =>
           /\ Used(s) /\ events'[s].intent = events[s].intent
           /\ events'[s].age >= events[s].age
  PROVE  OneYoung'
  <1>1. \A s \in Slots : Used(s) => events[s].age \in Nat
    BY Uc1Assumption DEF Uc1TypeOK, Used, Event
  <1>2. \A s \in Slots : Used(s)' => events'[s].age \in Nat
    BY Uc1Assumption DEF Used, Event
  <1>3. SUFFICES ASSUME NEW s \in Slots, NEW t \in Slots, Used(s)', Used(t)',
                        events'[s].intent = events'[t].intent,
                        events'[s].age < Uc1Cooldown, events'[t].age < Uc1Cooldown
                 PROVE  s = t
    BY DEF OneYoung
  <1>4. events[s].age < Uc1Cooldown /\ events[t].age < Uc1Cooldown
    BY <1>1, <1>2, <1>3, Uc1Assumption
  <1>5. QED
    BY <1>3, <1>4 DEF OneYoung

\* One event is rewritten.
LEMMA RewrittenEvent ==
  ASSUME Uc1TypeOK, OneYoung, NEW s \in Slots, Used(s), NEW e \in Event,
         e.intent = events[s].intent, e.age = events[s].age,
         events' = [events EXCEPT ![s] = e]
  PROVE  /\ events' \in [Slots -> Event \cup {Nothing}]
         /\ OneYoung'
         /\ \A t \in Slots : events'[t] = IF t = s THEN e ELSE events[t]
  <1>1. /\ events' \in [Slots -> Event \cup {Nothing}]
        /\ \A t \in Slots : events'[t] = IF t = s THEN e ELSE events[t]
    BY DEF Uc1TypeOK
  <1>2. \A t \in Slots : Used(t) => events[t].age \in Int
    BY Uc1Assumption DEF Uc1TypeOK, Used, Event
  <1>3. \A t \in Slots : Used(t)' =>
           /\ Used(t) /\ events'[t].intent = events[t].intent
           /\ events'[t].age >= events[t].age
    BY <1>1, <1>2 DEF Used
  <1>4. QED
    BY <1>1, <1>3, OlderEvents

\* The monitor's post, once it has found something to report.
LEMMA PostType ==
  ASSUME Uc1TypeOK, PostIsStored, post # Nothing
  PROVE  /\ post \in Post /\ post.slot \in Slots /\ Used(post.slot)
         /\ events[post.slot] \in Event
         /\ post.step = "send" => events[post.slot].run = "none"
  BY DEF Uc1TypeOK, PostIsStored, Post, Used

\* An event that is stored is an event, and not the absence of one.
LEMMA StoredEvent ==
  ASSUME Uc1TypeOK, NEW s \in Slots, Used(s)
  PROVE  /\ events[s] \in Event
         /\ events[s].intent \in Intents
         /\ events[s].age \in 0..Uc1Cooldown /\ events[s].target \in Nat
  BY DEF Uc1TypeOK, Used, Event

\* What the monitor does keeps at most one young event of each intent: it
\* reports only where there is none, and marks what it has reported.
LEMMA MonitorStep ==
  ASSUME Uc1TypeOK, OneYoung, PostIsStored,
         \/ Watch \/ (\E p \in Predictions : NothingToReport(p) \/ Report(p))
         \/ Delivered \/ NotDelivered \/ MarkUndelivered
         \/ AcceptedUnheard \/ MonitorStops
  PROVE  Uc1TypeOK' /\ OneYoung' /\ PostIsStored'
  <1>1. CASE Watch
    <2>1. watched' \in Watched
      BY <1>1 DEF Watch, ReadNewest, Standing, Watched, Uc1TypeOK
    <2>2. QED
      BY <1>1, <2>1 DEF Watch, ReadNewest, Uc1TypeOK, OneYoung, PostIsStored, Used
  <1>2. ASSUME NEW p \in Predictions, NothingToReport(p)
        PROVE  Uc1TypeOK' /\ OneYoung' /\ PostIsStored'
    BY <1>2 DEF NothingToReport, Uc1TypeOK, OneYoung, PostIsStored, Used
  <1>3. ASSUME NEW p \in Predictions, Report(p)
        PROVE  Uc1TypeOK' /\ OneYoung' /\ PostIsStored'
    <2>1. /\ watched \in Watched /\ watched.intent \in Intents
          /\ ~InCooldown(watched.intent)
      BY <1>3 DEF Report, ToReport, Uc1TypeOK, Watched
    <2>2. NewTarget(p) \in Nat
      BY Uc1Assumption DEF NewTarget
    <2> DEFINE e == [intent |-> watched.intent, age |-> 0, target |-> NewTarget(p),
                     outcome |-> "open", run |-> "none", core |-> "none", result |-> "open"]
    <2>3. e \in Event /\ e.intent = watched.intent /\ e.age = 0 /\ e.run = "none"
      BY <2>1, <2>2, Uc1Assumption DEF Event, Outcomes, Statuses
    <2>4. PICK s \in Slots : /\ events' = [events EXCEPT ![s] = e]
                             /\ post' = [slot |-> s, step |-> "send"]
      BY <1>3 DEF Report
    <2> HIDE DEF e
    <2>5. /\ events' \in [Slots -> Event \cup {Nothing}]
          /\ \A t \in Slots : events'[t] = IF t = s THEN e ELSE events[t]
      BY <2>3, <2>4 DEF Uc1TypeOK
    <2>6. OneYoung'
      <3>1. \A t \in Slots : t # s /\ Used(t) /\ events[t].age < Uc1Cooldown
                                 => events[t].intent # watched.intent
        BY <2>1 DEF InCooldown
      <3>2. QED
        BY <2>3, <2>5, <3>1 DEF OneYoung, Used
    <2>7. e # Nothing
      BY <2>3, NothingAssumption
    <2>8. post' \in Post /\ PostIsStored'
      BY <2>3, <2>4, <2>5, <2>7 DEF Post, PostIsStored, Used
    <2>9. QED
      BY <1>3, <2>5, <2>6, <2>8 DEF Report, Uc1TypeOK
  <1>4. ASSUME Delivered \/ AcceptedUnheard
        PROVE  Uc1TypeOK' /\ OneYoung' /\ PostIsStored'
    <2>1. post # Nothing
      BY <1>4 DEF Delivered, AcceptedUnheard
    <2> DEFINE e == [events[post.slot] EXCEPT !.run = "loop"]
    <2>2. /\ e \in Event /\ e.intent = events[post.slot].intent
          /\ e.age = events[post.slot].age
      BY <2>1, PostType DEF Event
    <2>3. events' = [events EXCEPT ![post.slot] = e]
      BY <1>4 DEF Delivered, AcceptedUnheard
    <2> HIDE DEF e
    <2>4. /\ events' \in [Slots -> Event \cup {Nothing}]
          /\ OneYoung'
          /\ \A t \in Slots : events'[t] = IF t = post.slot THEN e ELSE events[t]
      BY <2>1, <2>2, <2>3, PostType, RewrittenEvent
    <2>5. post' \in Post \cup {Nothing} /\ PostIsStored'
      <3>1. CASE Delivered
        BY <3>1 DEF Delivered, PostIsStored
      <3>2. CASE AcceptedUnheard
        <4>1. post' = [post EXCEPT !.step = "mark"]
          BY <3>2 DEF AcceptedUnheard
        <4>2. post' \in Post /\ post'.slot = post.slot /\ post'.step = "mark"
          BY <2>1, <4>1, PostType DEF Post
        <4>3. e # Nothing
          BY <2>2, NothingAssumption
        <4>4. QED
          BY <2>1, <2>4, <4>2, <4>3, PostType DEF PostIsStored, Used
      <3>3. QED
        BY <1>4, <3>1, <3>2
    <2>6. QED
      BY <1>4, <2>4, <2>5 DEF Delivered, AcceptedUnheard, Uc1TypeOK
  <1>5. CASE NotDelivered
    <2>1. post # Nothing /\ post' = [post EXCEPT !.step = "mark"]
      BY <1>5 DEF NotDelivered
    <2>2. post' \in Post /\ post'.slot = post.slot /\ post'.step = "mark"
      BY <2>1, PostType DEF Post
    <2>3. PostIsStored'
      BY <1>5, <2>1, <2>2, PostType DEF NotDelivered, PostIsStored, Used
    <2>4. QED
      BY <1>5, <2>2, <2>3 DEF NotDelivered, Uc1TypeOK, OneYoung, Used
  <1>6. CASE MarkUndelivered
    <2>1. post # Nothing
      BY <1>6 DEF MarkUndelivered
    <2> DEFINE e == [events[post.slot] EXCEPT !.outcome = "undelivered"]
    <2>2. /\ e \in Event /\ e.intent = events[post.slot].intent
          /\ e.age = events[post.slot].age
      BY <2>1, PostType DEF Event, Outcomes
    <2>3. events' = [events EXCEPT ![post.slot] = e]
      BY <1>6 DEF MarkUndelivered
    <2> HIDE DEF e
    <2>4. events' \in [Slots -> Event \cup {Nothing}] /\ OneYoung'
      BY <2>1, <2>2, <2>3, PostType, RewrittenEvent
    <2>5. QED
      BY <1>6, <2>4 DEF MarkUndelivered, Uc1TypeOK, PostIsStored
  <1>7. CASE MonitorStops
    BY <1>7 DEF MonitorStops, Uc1TypeOK, OneYoung, PostIsStored, Used
  <1>8. QED
    BY <1>1, <1>2, <1>3, <1>4, <1>5, <1>6, <1>7

\* Who works on an event leaves the row an event of the same intent and age.
LEMMA OverType ==
  ASSUME NEW e \in Event
  PROVE  /\ Over(e) \in Event /\ Over(e).intent = e.intent
         /\ Over(e).age = e.age /\ Over(e).run = "none"
  BY DEF Over, Event, Outcomes

\* What the model asks the Core for is a rate, and what a reversion leaves is the
\* guarantee of an intent.
LEMMA RateType ==
  ASSUME Uc1TypeOK, NEW s \in Slots, Used(s)
  PROVE  /\ recorded[events[s].intent] \in Nat \cup {None}
         /\ Rates(events[s]) \subseteq Nat \cup {None}
         /\ \A g \in Nat \cup {None} :
              Guaranteed(s, g) => guarantee' \in [Intents -> Nat \cup {None}]
  <1>1. /\ events[s].intent \in Intents /\ events[s].target \in Nat
        /\ Asks \subseteq Nat
    BY StoredEvent, Uc1Assumption
  <1>2. QED
    BY <1>1 DEF Rates, Guaranteed, Uc1TypeOK

\* A run on an event: the model calls its tools, the loop ends, and the event is
\* closed, or the run dies on the way.
LEMMA RunStep ==
  ASSUME Uc1TypeOK, OneYoung, PostIsStored, NEW s \in Slots,
         \/ ScaleCore(s) \/ RevertCore(s) \/ TellStatus(s)
         \/ LoopEnds(s) \/ CloseEvent(s) \/ RunDies(s)
  PROVE  Uc1TypeOK' /\ OneYoung' /\ PostIsStored'
  <1>1. Used(s) /\ Running(s)
    BY DEF ScaleCore, RevertCore, TellStatus, LoopEnds, CloseEvent, CloseWith, RunDies,
           Calling, Running, Used
  <1>2. events[s] \in Event /\ events[s].intent \in Intents
    BY <1>1, StoredEvent
  <1> DEFINE OnlyThis(e) == /\ e \in Event /\ e.intent = events[s].intent
                            /\ e.age = events[s].age
                            /\ events' = [events EXCEPT ![s] = e]
  <1>3. /\ \E e : OnlyThis(e)
        /\ guarantee' \in [Intents -> Nat \cup {None}]
        /\ status' \in [Intents -> Statuses]
    <2>1. CASE ScaleCore(s)
      <3>1. PICK core \in {"applied", "failed"} : events' = [events EXCEPT ![s].core = core]
        BY <2>1, <1>2 DEF ScaleCore, Uc1TypeOK
      <3>2. OnlyThis([events[s] EXCEPT !.core = core])
        BY <1>2, <3>1 DEF Event
      <3>3. UNCHANGED guarantee \/ \E rate \in Rates(events[s]) : Guaranteed(s, rate)
        BY <2>1 DEF ScaleCore
      <3>4. guarantee' \in [Intents -> Nat \cup {None}]
        BY <1>1, <3>3, RateType DEF Uc1TypeOK
      <3>5. QED
        BY <2>1, <3>2, <3>4 DEF ScaleCore, Uc1TypeOK
    <2>2. CASE RevertCore(s) \/ TellStatus(s)
      <3>1. OnlyThis(events[s])
        BY <1>2, <2>2 DEF RevertCore, TellStatus, Uc1TypeOK
      <3>2. guarantee' \in [Intents -> Nat \cup {None}]
        BY <1>1, <2>2, RateType DEF RevertCore, TellStatus, Uc1TypeOK
      <3>3. status' \in [Intents -> Statuses]
        BY <1>2, <2>2 DEF RevertCore, TellStatus, Uc1TypeOK
      <3>4. QED
        BY <3>1, <3>2, <3>3
    <2>3. CASE LoopEnds(s)
      <3>1. PICK result \in {"acted", "no_action"} :
              events' = [events EXCEPT ![s].run = "close", ![s].core = "none", ![s].result = result]
        BY <2>3 DEF LoopEnds
      <3>2. OnlyThis([events[s] EXCEPT !.run = "close", !.core = "none", !.result = result])
        BY <1>2, <3>1 DEF Event, Outcomes
      <3>3. \A core, ran : Inferred(core, ran) \in Statuses
        BY DEF Inferred, Statuses
      <3>4. status' \in [Intents -> Statuses]
        <4>1. \/ status' = status
              \/ \E ran : status' = [status EXCEPT ![events[s].intent] =
                                       Inferred(events[s].core, ran)]
          BY <2>3 DEF LoopEnds
        <4>2. CASE status' = status
          BY <4>2 DEF Uc1TypeOK
        <4>3. ASSUME NEW ran, status' = [status EXCEPT ![events[s].intent] =
                                           Inferred(events[s].core, ran)]
              PROVE  status' \in [Intents -> Statuses]
          <5>1. Inferred(events[s].core, ran) \in Statuses
            BY <3>3
          <5>2. QED
            BY <4>3, <5>1 DEF Uc1TypeOK
        <4>4. QED
          BY <4>1, <4>2, <4>3
      <3>5. QED
        BY <2>3, <3>2, <3>4 DEF LoopEnds, Uc1TypeOK
    <2>4. CASE CloseEvent(s)
      <3>1. events[s].result \in Outcomes
        BY <1>2 DEF Event
      <3>2. OnlyThis([Over(events[s]) EXCEPT !.outcome = events[s].result])
        <4>1. Over(events[s]) \in Event
          BY <1>2, OverType
        <4>2. QED
          BY <1>2, <2>4, <3>1, <4>1, OverType DEF CloseEvent, CloseWith, Event
      <3>3. QED
        BY <2>4, <3>2 DEF CloseEvent, CloseWith, Uc1TypeOK
    <2>5. CASE RunDies(s)
      <3>1. OnlyThis(Over(events[s]))
        BY <1>2, <2>5, OverType DEF RunDies
      <3>2. QED
        BY <2>5, <3>1 DEF RunDies, Uc1TypeOK
    <2>6. QED
      BY <2>1, <2>2, <2>3, <2>4, <2>5
  <1>4. PICK e : OnlyThis(e)
    BY <1>3
  <1>5. /\ events' \in [Slots -> Event \cup {Nothing}]
        /\ OneYoung'
        /\ \A t \in Slots : events'[t] = IF t = s THEN e ELSE events[t]
    BY <1>1, <1>4, RewrittenEvent
  <1>6. UNCHANGED <<recorded, window, watched, post>>
    BY DEF ScaleCore, RevertCore, TellStatus, LoopEnds, CloseEvent, CloseWith, RunDies
  <1>7. PostIsStored'
    <2>1. e # Nothing
      BY <1>4, NothingAssumption
    <2>2. post # Nothing /\ post.step = "send" => post.slot # s
      BY <1>1, PostType DEF Running
    <2>3. QED
      BY <1>5, <1>6, <2>1, <2>2, PostType DEF PostIsStored, Used
  <1>8. QED
    BY <1>3, <1>5, <1>6, <1>7 DEF Uc1TypeOK

\* All runs are lost.
LEMMA RunsLostStep ==
  ASSUME Uc1TypeOK, OneYoung, PostIsStored, RunsLost
  PROVE  Uc1TypeOK' /\ OneYoung' /\ PostIsStored'
  <1>1. ASSUME NEW s \in Slots
        PROVE  /\ events'[s] \in Event \cup {Nothing}
               /\ Used(s)' <=> Used(s)
               /\ Used(s) => /\ events'[s].intent = events[s].intent
                             /\ events'[s].age = events[s].age
                             /\ events'[s].run = "none"
    <2>1. CASE ~Used(s)
      BY <2>1 DEF RunsLost, Used
    <2>2. CASE Used(s)
      <3> DEFINE e == Over(events[s])
      <3>1. /\ e \in Event /\ e.intent = events[s].intent /\ e.age = events[s].age
            /\ e.run = "none"
        BY <2>2, StoredEvent, OverType
      <3>2. events'[s] = e
        BY <2>2 DEF RunsLost
      <3> HIDE DEF e
      <3>3. QED
        BY <2>2, <3>1, <3>2, NothingAssumption DEF Used
    <2>3. QED
      BY <2>1, <2>2
  <1>2. events' \in [Slots -> Event \cup {Nothing}]
    BY <1>1 DEF RunsLost
  <1>3. \A s \in Slots : Used(s) => events[s].age \in Int
    BY StoredEvent, Uc1Assumption
  <1>4. OneYoung'
    BY <1>1, <1>2, <1>3, OlderEvents
  <1>5. PostIsStored'
    BY <1>1, PostType DEF RunsLost, PostIsStored
  <1>6. QED
    BY <1>2, <1>4, <1>5 DEF RunsLost, Uc1TypeOK

\* Time.
LEMMA AgeStep ==
  ASSUME Uc1TypeOK, OneYoung, PostIsStored, EventsAge,
         UNCHANGED <<recorded, status, guarantee, window, watched, post>>
  PROVE  Uc1TypeOK' /\ OneYoung' /\ PostIsStored'
  <1>1. ASSUME NEW s \in Slots
        PROVE  /\ events'[s] \in Event \cup {Nothing}
               /\ Used(s)' => /\ Used(s)
                              /\ events'[s].intent = events[s].intent
                              /\ events'[s].age >= events[s].age
    <2>1. events'[s] = Aged(s)
      BY DEF EventsAge
    <2>2. CASE ~Used(s)
      BY <2>1, <2>2 DEF Aged, Forgotten, Used
    <2>3. CASE Used(s)
      <3> DEFINE a == IF events[s].age < Uc1Cooldown THEN events[s].age + 1 ELSE events[s].age
                 e == [events[s] EXCEPT !.age = a]
      <3>1. a \in 0..Uc1Cooldown /\ a >= events[s].age
        BY <2>3, StoredEvent, Uc1Assumption
      <3>2. e \in Event /\ e.intent = events[s].intent /\ e.age = a
        <4> HIDE DEF a
        <4>1. QED
          BY <2>3, <3>1, StoredEvent DEF Event
      <3>3. Aged(s) \in {e, Nothing}
        BY <2>3 DEF Aged
      <3> HIDE DEF e
      <3>4. QED
        BY <2>1, <2>3, <3>1, <3>2, <3>3 DEF Used
    <2>4. QED
      BY <2>2, <2>3
  <1>2. events' \in [Slots -> Event \cup {Nothing}]
    BY <1>1 DEF EventsAge
  <1>3. OneYoung'
    BY <1>1, <1>2, OlderEvents
  <1>4. PostIsStored'
    <2>1. SUFFICES ASSUME post # Nothing
                   PROVE  /\ events'[post.slot] # Nothing
                          /\ events'[post.slot].run = events[post.slot].run
      BY DEF PostIsStored, Used
    <2>2. post.slot \in Slots /\ Used(post.slot) /\ ~Forgotten(post.slot)
      BY <2>1, PostType DEF Forgotten, AtMonitor
    <2> DEFINE a == IF events[post.slot].age < Uc1Cooldown THEN events[post.slot].age + 1
                    ELSE events[post.slot].age
               e == [events[post.slot] EXCEPT !.age = a]
    <2>3. events'[post.slot] = e
      BY <2>2 DEF EventsAge, Aged
    <2>4. a \in 0..Uc1Cooldown
      BY <2>2, StoredEvent, Uc1Assumption
    <2>5. e \in Event /\ e.run = events[post.slot].run
      <3> HIDE DEF a
      <3>1. QED
        BY <2>2, <2>4, StoredEvent DEF Event
    <2> HIDE DEF e
    <2>6. QED
      BY <2>3, <2>5, NothingAssumption
  <1>5. QED
    BY <1>2, <1>3, <1>4 DEF Uc1TypeOK

-----------------------------------------------------------------------------
(***************************************************************************)
(* At most one event per cooldown.                                         *)
(***************************************************************************)

LEMMA CooldownInitially == Init => CooldownInv
  <1> SUFFICES ASSUME Init PROVE CooldownInv
    OBVIOUS
  <1>1. HistoryTypeOK
    BY NwdafAssumption DEF Init, HistoryInit, HistoryTypeOK, MaxQuiet
  <1>2. Uc1TypeOK
    BY MonitorsAssumption DEF Init, Uc1TypeOK, Statuses
  <1>3. SlaTypeOK /\ OneViolation
    <2>1. Streak \in Nat /\ (CHOOSE level \in Levels : TRUE) \in Levels
      BY SlaAssumption
    <2>2. QED
      BY <2>1 DEF Init, SlaInit, SlaTypeOK, OneViolation
  <1>4. OneYoung /\ PostIsStored
    BY DEF Init, OneYoung, PostIsStored, Used
  <1>5. QED
    BY <1>1, <1>2, <1>3, <1>4, MonitorsAssumption DEF Init, CooldownInv, MonitorsTypeOK

\* Nothing but the SLA monitor and time touches its variables.
LEMMA SlaUnchanged ==
  ASSUME SlaTypeOK, OneViolation, UNCHANGED slaVars
  PROVE  SlaTypeOK' /\ OneViolation'
  BY DEF SlaTypeOK, OneViolation, slaVars

LEMMA Uc1Unchanged ==
  ASSUME Uc1TypeOK, OneYoung, PostIsStored, UNCHANGED uc1Vars
  PROVE  Uc1TypeOK' /\ OneYoung' /\ PostIsStored'
  BY DEF Uc1TypeOK, OneYoung, PostIsStored, uc1Vars, Used

LEMMA HistoryUnchanged ==
  ASSUME HistoryTypeOK, UNCHANGED historyVars
  PROVE  HistoryTypeOK'
  BY DEF HistoryTypeOK, historyVars

LEMMA CooldownInductive ==
  ASSUME CooldownInv, [Next]_vars
  PROVE  CooldownInv'
  <1> USE DEF CooldownInv, MonitorsTypeOK
  <1>1. CASE Uc1Poll
    <2>1. UNCHANGED historyVars /\ UNCHANGED slaVars /\ UNCHANGED <<deployment, faults>>
      BY <1>1 DEF Uc1Poll, Quietly
    <2>2. QED
      BY <1>1, <2>1, MonitorStep, SlaUnchanged, HistoryUnchanged DEF Uc1Poll
  <1>2. ASSUME NEW s \in Slots, RunCalls(s) \/ RunEnds(s)
        PROVE  CooldownInv'
    <2>1. UNCHANGED historyVars /\ UNCHANGED slaVars /\ UNCHANGED <<deployment, faults>>
      BY <1>2 DEF RunCalls, RunEnds, Quietly
    <2>2. \/ ScaleCore(s) \/ RevertCore(s) \/ TellStatus(s)
          \/ LoopEnds(s) \/ CloseEvent(s)
      BY <1>2 DEF RunCalls, RunEnds
    <2>3. QED
      BY <2>1, <2>2, RunStep, SlaUnchanged, HistoryUnchanged
  <1>3. CASE SlaTick
    <2>1. UNCHANGED historyVars /\ UNCHANGED uc1Vars /\ UNCHANGED <<deployment, faults>>
      BY <1>3 DEF SlaTick, Quietly
    <2>2. SlaPoll \/ MaybeViolation \/ \E r \in todo : SkipSample(r) \/ SampleOne(r)
      BY <1>3 DEF SlaTick
    <2>3. guarantee \in [Intents -> Nat \cup {None}]
      BY DEF Uc1TypeOK
    <2>4. QED
      BY <2>1, <2>2, <2>3, SlaStep, Uc1Unchanged, HistoryUnchanged
  <1>4. CASE Tick
    <2>1. HistoryTypeOK'
      BY <1>4, HistoryStep DEF Tick
    <2>2. Uc1TypeOK' /\ OneYoung' /\ PostIsStored'
      BY <1>4, AgeStep DEF Tick
    <2>3. violations' \in [Intents -> Seq(0..SlaCooldown - 1)] /\ OneViolation'
      BY <1>4, ViolationsStep DEF Tick
    <2>4. SlaTypeOK'
      BY <1>4, <2>3 DEF Tick, SlaTypeOK
    <2>5. QED
      BY <1>4, <2>1, <2>2, <2>3, <2>4 DEF Tick
  <1>5. CASE WindowCloses
    <2>1. UNCHANGED historyVars /\ UNCHANGED slaVars /\ UNCHANGED <<deployment, faults>>
      BY <1>5 DEF WindowCloses, Quietly
    <2>2. window' \in [Intents -> {"none", "open", "closed"}]
      BY <1>5 DEF WindowCloses, Uc1TypeOK
    <2>3. Uc1TypeOK' /\ OneYoung' /\ PostIsStored'
      BY <1>5, <2>2 DEF WindowCloses, Uc1TypeOK, OneYoung, PostIsStored, Used
    <2>4. QED
      BY <2>1, <2>3, SlaUnchanged, HistoryUnchanged
  <1>6. CASE OthersWrite
    <2>1. UNCHANGED historyVars /\ UNCHANGED slaVars /\ UNCHANGED <<deployment, faults>>
      BY <1>6 DEF OthersWrite, Quietly
    <2>2. /\ status' \in [Intents -> Statuses]
          /\ guarantee' \in [Intents -> Nat \cup {None}]
      BY <1>6, Uc1Assumption DEF OthersWrite, Uc1TypeOK
    <2>3. Uc1TypeOK' /\ OneYoung' /\ PostIsStored'
      BY <1>6, <2>2 DEF OthersWrite, Uc1TypeOK, OneYoung, PostIsStored, Used
    <2>4. QED
      BY <2>1, <2>3, SlaUnchanged, HistoryUnchanged
  <1>7. CASE Failure
    <2>1. UNCHANGED historyVars /\ deployment' = deployment /\ faults' \in 0..deployment.faults
      BY <1>7, MonitorsAssumption DEF Failure, Fault, Quietly
    <2>2. CASE (AcceptedUnheard \/ MonitorStops) /\ UNCHANGED slaVars
      BY <2>1, <2>2, MonitorStep, SlaUnchanged, HistoryUnchanged
    <2>3. CASE (\E s \in Slots : RunDies(s)) /\ UNCHANGED slaVars
      BY <2>1, <2>3, RunStep, SlaUnchanged, HistoryUnchanged
    <2>4. CASE SlaPollDropped /\ UNCHANGED uc1Vars
      <3>1. SlaTypeOK' /\ OneViolation'
        BY <2>4, SlaStep DEF Uc1TypeOK
      <3>2. QED
        BY <2>1, <2>4, <3>1, Uc1Unchanged, HistoryUnchanged
    <2>5. CASE /\ RunsLost /\ todo' = {} /\ below' = Nothing
               /\ UNCHANGED <<observed, samples, violations>>
      <3>1. SlaTypeOK' /\ OneViolation'
        BY <2>5 DEF SlaTypeOK, OneViolation
      <3>2. QED
        BY <2>1, <2>5, <3>1, RunsLostStep, HistoryUnchanged
    <2>6. QED
      BY <1>7, <2>2, <2>3, <2>4, <2>5 DEF Failure
  <1>8. CASE UNCHANGED vars
    <2>1. /\ UNCHANGED historyVars /\ UNCHANGED uc1Vars /\ UNCHANGED slaVars
          /\ UNCHANGED <<deployment, faults>>
      BY <1>8 DEF vars
    <2>2. QED
      BY <2>1, SlaUnchanged, Uc1Unchanged, HistoryUnchanged
  <1>9. QED
    BY <1>1, <1>2, <1>3, <1>4, <1>5, <1>6, <1>7, <1>8 DEF Next

THEOREM CooldownInvariance == Spec => []CooldownInv
  <1>1. Init => CooldownInv
    BY CooldownInitially
  <1>2. CooldownInv /\ [Next]_vars => CooldownInv'
    BY CooldownInductive
  <1>3. QED
    BY <1>1, <1>2, PTL DEF Spec

\* Every variable of the monitors and of what they share keeps its type: no
\* more samples than the streak, no row beyond the history limit.
THEOREM MonitorsTypeCorrect == Spec => []MonitorsTypeOK
  <1>1. CooldownInv => MonitorsTypeOK
    BY DEF CooldownInv
  <1>2. QED
    BY <1>1, CooldownInvariance, PTL

LEMMA YoungIsOne ==
  ASSUME OneYoung, NEW i \in Intents
  PROVE  Cardinality(Young(i)) <= 1
  <1>1. CASE Young(i) = {}
    BY <1>1, FS_EmptySet
  <1>2. CASE Young(i) # {}
    <2>1. PICK s \in Slots : Young(i) = {s}
      <3>1. PICK s \in Slots : s \in Young(i)
        BY <1>2 DEF Young
      <3>2. Young(i) = {s}
        BY <3>1 DEF Young, OneYoung
      <3>3. QED
        BY <3>2
    <2>2. Cardinality({s}) = 1
      BY FS_Singleton
    <2>3. QED
      BY <2>1, <2>2
  <1>3. QED
    BY <1>1, <1>2

\* Neither monitor reports the same intent twice within its cooldown, although
\* each asks the table of events and not its memory, and whatever is lost:
\* runs, answers, polls, restarts of either process.
THEOREM EventsAreSpaced == Spec => []OneEventPerCooldown
  <1>1. CooldownInv => OneEventPerCooldown
    BY YoungIsOne DEF CooldownInv, OneViolation, OneEventPerCooldown
  <1>2. QED
    BY <1>1, CooldownInvariance, PTL

=============================================================================
