----------------------------- MODULE MCHostPeers -----------------------------
(* A host cluster and a vCluster in it, whose own cluster is watched, too. *)
EXTENDS HostPeers

CONSTANTS h, v

MCHostOf == [c \in {h, v} |-> IF c = v THEN h ELSE None]
=============================================================================
