----------------------------- MODULE GnbSlicer ------------------------------
(***************************************************************************)
(* The slicer next to the gNB: each PUT carries the reservations of the    *)
(* whole cell, is turned into ratios, and restarts the gNB when they change*)
(* something. The server is threaded, so requests wait for its lock and are*)
(* taken in any order, the one whose client has left included.             *)
(***************************************************************************)
EXTENDS Integers, FiniteSetsExt

CONSTANTS
  PrbTotal,     \* RAN_PRB_TOTAL
  Unreserved,   \* a slice without a reservation (None in the body of a PUT)
  Unknown,      \* ratios nobody knows
  MaxPuts       \* bound on requests at the slicer at once

ASSUME PrbTotalAssumption == PrbTotal \in Nat \ {0}
ASSUME UnreservedAssumption == Unreserved \notin Int
ASSUME MaxPutsAssumption == MaxPuts \in Nat \ {0}

VARIABLES
  waiting,   \* ratios of each request that waits for the lock, Unknown if none
  lock,      \* the request that holds it, 0 if none: the gNB is restarting
  inForce,   \* _in_force, Unknown after a start or a failed restart
  gnb        \* the ratios the gNB runs with, Unknown while that is open

slicerVars == <<waiting, lock, inForce, gnb>>

Slices == {1, 2}
PutIds == 1..MaxPuts
Ratio == [Slices -> 0..100]
Reservation == [Slices -> Nat \cup {Unreserved}]

ASSUME UnknownAssumption == Unknown \notin Ratio

SlicerTypeOK ==
  /\ waiting \in [PutIds -> Ratio \cup {Unknown}]
  /\ lock \in PutIds \cup {0}
  /\ inForce \in Ratio \cup {Unknown}
  /\ gnb \in Ratio \cup {Unknown}

\* The operator's template gives no slice a share.
NoShare == [s \in Slices |-> 0]

SlicerInit ==
  /\ waiting = [p \in PutIds |-> Unknown]
  /\ lock = 0 /\ inForce = Unknown /\ gnb = NoShare

CeilDiv(a, b) == (a + b - 1) \div b
AtMost(x, bound) == IF x <= bound THEN x ELSE bound

\* The share of the cell a reservation needs, rounded up to a percentage.
RatioOf(prb) ==
  IF prb \in {Unreserved, 0} THEN 0 ELSE AtMost(CeilDiv(100 * prb, PrbTotal), 100)

Ratios(r) == [s \in Slices |-> RatioOf(r[s])]

\* More than the whole cell is refused before the lock.
FitsCell(ratios) == ratios[1] + ratios[2] <= 100

Free(p) == waiting[p] = Unknown

\* Request p for ratios arrives.
Arrive(p, ratios) ==
  /\ Free(p)
  /\ waiting' = [waiting EXCEPT ![p] = ratios]
  /\ UNCHANGED <<lock, inForce, gnb>>

\* What is in force already needs no restart.
AnswerUnchanged(p) ==
  /\ ~Free(p) /\ lock = 0 /\ waiting[p] = inForce
  /\ waiting' = [waiting EXCEPT ![p] = Unknown]
  /\ UNCHANGED <<lock, inForce, gnb>>

\* The rendered file replaces the old one, and the restart begins.
BeginRestart(p) ==
  /\ ~Free(p) /\ lock = 0 /\ waiting[p] # inForce
  /\ lock' = p /\ gnb' = Unknown
  /\ UNCHANGED <<waiting, inForce>>

\* The file cannot be rendered: nothing has changed.
RenderFails(p) ==
  /\ ~Free(p) /\ lock = 0 /\ waiting[p] # inForce
  /\ waiting' = [waiting EXCEPT ![p] = Unknown]
  /\ UNCHANGED <<lock, inForce, gnb>>

\* The gNB says it has started.
Restarted(p) ==
  /\ lock = p /\ ~Free(p)
  /\ inForce' = waiting[p] /\ gnb' = waiting[p]
  /\ waiting' = [waiting EXCEPT ![p] = Unknown]
  /\ lock' = 0

\* Mutants: what was in force is still believed to be; the lock is kept.
RestartFailsBelieving(p) ==
  /\ lock = p /\ ~Free(p)
  /\ waiting' = [waiting EXCEPT ![p] = Unknown]
  /\ lock' = 0 /\ UNCHANGED <<inForce, gnb>>

RestartFailsLocked(p) ==
  /\ lock = p /\ ~Free(p)
  /\ inForce' = Unknown
  /\ waiting' = [waiting EXCEPT ![p] = Unknown]
  /\ UNCHANGED <<lock, gnb>>

\* The command fails or the gNB is not ready in time; it may be down, or come
\* up later.
RestartFails(p) ==
  /\ lock = p /\ ~Free(p)
  /\ inForce' = Unknown
  /\ waiting' = [waiting EXCEPT ![p] = Unknown]
  /\ lock' = 0 /\ UNCHANGED gnb

\* The slicer itself is restarted: its requests are lost, the gNB is not.
SlicerRestarts ==
  /\ waiting' = [p \in PutIds |-> Unknown]
  /\ lock' = 0 /\ inForce' = Unknown
  /\ UNCHANGED gnb
=============================================================================
