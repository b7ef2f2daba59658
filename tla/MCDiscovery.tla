---------------------------- MODULE MCDiscovery -----------------------------
(***************************************************************************)
(* Discovery for TLC: the two agents, asked in the order of _DOMAIN_AGENTS.*)
(***************************************************************************)
EXTENDS Discovery

MCAgents == <<"cn", "ran">>
=============================================================================
