------------------------------ MODULE MCAgentBus ------------------------------
(* AgentBus on small instances.                                             *)
EXTENDS AgentBus, TLC

\* The slots are alike.
Slots == Permutations(Sessions)
=============================================================================
