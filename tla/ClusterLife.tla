----------------------------- MODULE ClusterLife -----------------------------
(***************************************************************************)
(* What a vCluster service may expect of the operator, without the cache,  *)
(* the queue, the workers and the names: at most one Rancher cluster of    *)
(* its own, created only if the service is to be imported and was there,   *)
(* and deleted only when the service is going or gone.                     *)
(*                                                                         *)
(* ServiceHandler implements this with informers, workers and a check for  *)
(* stale clusters that read and write at different times.                  *)
(***************************************************************************)
CONSTANTS UIDs, Skipped

VARIABLES
  phase,    \* phase[u]: the service in the host cluster
  cluster   \* cluster[u]: its Rancher cluster

vars == <<phase, cluster>>

States == {"none", "created", "managed", "deleting"}

Init ==
  /\ phase = [u \in UIDs |-> "unborn"]
  /\ cluster = [u \in UIDs |-> "none"]

Become(u, state) ==
  /\ cluster' = [cluster EXCEPT ![u] = state]
  /\ UNCHANGED phase

Appear(u) ==
  /\ phase[u] = "unborn"
  /\ phase' = [phase EXCEPT ![u] = "live"]
  /\ UNCHANGED cluster

Leave(u) ==
  /\ phase[u] \in {"live", "terminating"}
  /\ \E p \in {"terminating", "gone"} \ {phase[u]} : phase' = [phase EXCEPT ![u] = p]
  /\ UNCHANGED cluster

\* A worker that has read the service may create the cluster after it went.
Create(u) == u \notin Skipped /\ phase[u] # "unborn" /\ cluster[u] = "none" /\ Become(u, "created")
Manage(u) == cluster[u] = "created" /\ Become(u, "managed")
Delete(u) ==
  /\ phase[u] \in {"terminating", "gone"}
  /\ cluster[u] \in {"created", "managed"}
  /\ Become(u, "deleting")
Remove(u) == cluster[u] = "deleting" /\ Become(u, "none")

Next ==
  \E u \in UIDs :
    Appear(u) \/ Leave(u) \/ Create(u) \/ Manage(u) \/ Delete(u) \/ Remove(u)

Spec == Init /\ [][Next]_vars
=============================================================================
