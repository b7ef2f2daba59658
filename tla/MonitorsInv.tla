----------------------------- MODULE MonitorsInv -----------------------------
(***************************************************************************)
(* The inductive invariant behind what the monitors promise. It rests on   *)
(* the table of events alone: what the monitor has found is in it before   *)
(* anybody is told.                                                        *)
(***************************************************************************)
EXTENDS Monitors

\* At most one young event of each intent.
OneYoung ==
  \A s, t \in Slots : Used(s) /\ Used(t) /\ events[s].intent = events[t].intent
    /\ events[s].age < Uc1Cooldown /\ events[t].age < Uc1Cooldown => s = t

OneViolation == \A i \in Intents : Len(violations[i]) <= 1

\* The monitor delivers an event that is there, and has nobody's run yet.
PostIsStored ==
  post # Nothing =>
    /\ Used(post.slot)
    /\ post.step = "send" => events[post.slot].run = "none"

CooldownInv == MonitorsTypeOK /\ OneYoung /\ OneViolation /\ PostIsStored

=============================================================================
