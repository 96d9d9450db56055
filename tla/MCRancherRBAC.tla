---------------------------- MODULE MCRancherRBAC ----------------------------
(* The bindings of RancherRBAC's runs: a user twice, in the project and in *)
(* the host cluster, and a group.                                          *)
EXTENDS RancherRBAC

CONSTANTS c, p, h, u1, inProject, inHost, group

OneProject == [x \in Clusters |-> p]
OneHost    == [x \in Clusters |-> h]
Scopes     == [b \in Bindings |-> IF b = inHost THEN h ELSE p]
UsersOf    == [b \in Bindings |-> IF b = group THEN NoUser ELSE u1]
=============================================================================
