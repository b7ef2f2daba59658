--------------------------- MODULE MCOrchestrator ---------------------------
(***************************************************************************)
(* The orchestrator for TLC: requests and intents are interchangeable.     *)
(***************************************************************************)
EXTENDS OrchestratorInv, TLC

RequestSymmetry == Permutations(Requests) \cup Permutations(Intents)
=============================================================================
