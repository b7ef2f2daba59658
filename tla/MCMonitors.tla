----------------------------- MODULE MCMonitors -----------------------------
(***************************************************************************)
(* The monitors for TLC, each in a deployment of its own: what the runs on *)
(* events write, OthersWrite does where only the SLA monitor is. A         *)
(* prediction of 1.5 Mbps exhausts a guarantee of 1 Mbps and asks for      *)
(* 2 Mbps, with which it is content; the model may ask for 1 Mbps again.   *)
(***************************************************************************)
EXTENDS MonitorsInv

CONSTANTS MCNewestIntent

MCIntents == 1..MCNewestIntent
MCDeployments == {
  [enabled |-> {"uc1"}, reachable |-> FALSE, faults |-> 1, outages |-> 2],
  [enabled |-> {"uc1"}, reachable |-> TRUE, faults |-> 1, outages |-> 0],
  [enabled |-> {"sla"}, reachable |-> TRUE, faults |-> 1, outages |-> 1]}
=============================================================================
