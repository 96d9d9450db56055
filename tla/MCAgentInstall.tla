---------------------------- MODULE MCAgentInstall ----------------------------
(* The namespaces of AgentInstall's runs.                                  *)
EXTENDS AgentInstall, TLC

CONSTANT ns

OneNamespace == [s \in Services |-> ns]

Symmetry == Permutations(Jobs) \cup Permutations(Services)
=============================================================================
