------------------------------ MODULE HostPeers ------------------------------
(***************************************************************************)
(* Reconcile of internal/controller/clusters/cluster_controller.go: which  *)
(* clusters the operator watches for vClusters (the peers), and which      *)
(* clusters of vClusters it removes because their service is gone.  Any    *)
(* ready cluster is watched, that of a vCluster too.  The reconciles of    *)
(* different clusters share the peers; the handler of a peer outlives its  *)
(* cancelling until its queue is empty.                                    *)
(***************************************************************************)
EXTENDS Naturals

CONSTANTS
  Clusters,   \* management clusters, with names that are not used twice
  None,
  HostOf,     \* HostOf[c]: where the vCluster of c runs; None of any other c
  MaxFaults   \* bound: failing calls and restarts

ASSUME HostAssumption == HostOf \in [Clusters -> Clusters \cup {None}] /\ None \notin Clusters
ASSUME FaultsAssumption == MaxFaults \in Nat

VARIABLES
  exists,    \* exists[c]: "no" (not yet), "yes" or "gone"
  ready,     \* the clusters with the condition Ready
  service,   \* service[c]: the vCluster's service in the host, likewise
  peers,     \* the clusters with an entry in the map
  informers, \* informers[c]: how many informers run uncancelled for c
  draining,  \* the clusters whose cancelled handler has not ended
  creating,  \* the clusters a handler is about to create
  pending,   \* the clusters a Reconcile is owed for
  call,      \* call[c]: the Reconcile of c
  faults

world == <<exists, ready, service>>
watch == <<peers, informers, draining>>
vars == <<exists, ready, service, peers, informers, draining, creating, pending, call, faults>>

vClusters == {c \in Clusters : HostOf[c] # None}
NoCall == [at |-> "idle", ready |-> FALSE, failed |-> FALSE]

TypeOK ==
  /\ exists \in [Clusters -> {"no", "yes", "gone"}]
  /\ ready \subseteq Clusters
  /\ service \in [Clusters -> {"no", "yes", "gone"}]
  /\ peers \subseteq Clusters /\ draining \subseteq Clusters
  /\ informers \in [Clusters -> Nat]
  /\ creating \subseteq vClusters /\ pending \subseteq Clusters
  /\ call \in [Clusters -> [at : {"idle", "stale", "list", "delete", "install"},
                            ready : BOOLEAN, failed : BOOLEAN]]
  /\ faults \in 0 .. MaxFaults

Init ==
  /\ exists = [c \in Clusters |-> "no"] /\ service = [c \in Clusters |-> "no"]
  /\ ready = {} /\ peers = {} /\ draining = {} /\ creating = {} /\ pending = {}
  /\ informers = [c \in Clusters |-> 0]
  /\ call = [c \in Clusters |-> NoCall]
  /\ faults = 0

Fault == faults < MaxFaults /\ faults' = faults + 1

Reachable(h) == exists[h] = "yes"

-----------------------------------------------------------------------------
(* Reconcile                                                               *)

\* Mutant of Cancelled: the entry goes and its informer stays.
CancelledNever(c) == UNCHANGED <<informers, draining>>

Cancelled(c) ==
  /\ informers' = [informers EXCEPT ![c] = @ - 1]
  /\ draining' = draining \cup {c}

Forgotten(c) ==
  \/ c \in peers /\ peers' = peers \ {c} /\ Cancelled(c)
  \/ c \notin peers /\ UNCHANGED watch

Begun(c) == [NoCall EXCEPT !.at = "stale", !.ready = c \in ready]

\* The cluster is read; when it is gone its peer is cancelled.
Begin(c) ==
  /\ call[c].at = "idle" /\ c \in pending
  /\ pending' = pending \ {c}
  /\ \/ /\ exists[c] = "yes"
        /\ call' = [call EXCEPT ![c] = Begun(c)]
        /\ UNCHANGED watch
     \/ exists[c] # "yes" /\ Forgotten(c) /\ UNCHANGED call
  /\ UNCHANGED <<world, creating, faults>>

Go(c, place) == call' = [call EXCEPT ![c].at = place]
Fails(c, place) == call' = [call EXCEPT ![c].at = place, ![c].failed = TRUE]

\* Mutant of HasInformer: the cluster's own peer is looked for.
HasInformerOfItsOwn(c) == c \in vClusters /\ c \in peers

HasInformer(c) == c \in vClusters /\ HostOf[c] \in peers

\* SyncStaleResources looks for the host's peer under the lock, ...
CheckPeer(c) ==
  /\ call[c].at = "stale"
  /\ Go(c, IF HasInformer(c) THEN "list" ELSE "install")
  /\ UNCHANGED <<world, watch, creating, pending, faults>>

\* Mutant of ListFails: what cannot be listed is empty.
ListFailsEmpty(c) == Go(c, "delete")

ListFails(c) == Fails(c, "install")

\* ... lists the host's services without it, ...
ListServices(c) ==
  /\ call[c].at = "list"
  /\ \/ /\ Reachable(HostOf[c])
        /\ Go(c, IF service[c] = "yes" THEN "install" ELSE "delete")
        /\ UNCHANGED faults
     \/ ~Reachable(HostOf[c]) /\ ListFails(c) /\ UNCHANGED faults
     \/ Fault /\ ListFails(c)
  /\ UNCHANGED <<world, watch, creating, pending>>

\* A cluster that goes is an event of its own.
Removed(c) ==
  /\ exists' = [exists EXCEPT ![c] = IF @ = "yes" THEN "gone" ELSE @]
  /\ pending' = IF exists[c] = "yes" THEN pending \cup {c} ELSE pending

\* ... and deletes the cluster; NotFound is fine.
DeleteStale(c) ==
  /\ call[c].at = "delete"
  /\ \/ Removed(c) /\ Go(c, "install") /\ UNCHANGED faults
     \/ Fault /\ Fails(c, "install") /\ UNCHANGED <<exists, pending>>
  /\ UNCHANGED <<ready, service, watch, creating>>

Known(c) == c \in peers

\* Mutant of NotInstalled: the entry is made before the calls that may fail.
NotInstalledKept(c) == peers' = peers \cup {c} /\ UNCHANGED <<informers, draining>>

NotInstalled(c) == UNCHANGED watch

\* Mutant of Return: an error is logged and not returned.
ReturnLogged(c, failed) == call' = [call EXCEPT ![c] = NoCall] /\ UNCHANGED pending

Return(c, failed) ==
  /\ call' = [call EXCEPT ![c] = NoCall]
  /\ pending' = IF failed THEN pending \cup {c} ELSE pending

\* SyncvClusterInstallHandler of a cluster that was ready when it was read, even
\* if it has been deleted since; the errors of all parts are joined.
Install(c) ==
  /\ call[c].at = "install"
  /\ \/ /\ call[c].ready /\ ~Known(c)
        /\ peers' = peers \cup {c}
        /\ informers' = [informers EXCEPT ![c] = @ + 1]
        /\ Return(c, call[c].failed)
        /\ UNCHANGED <<draining, faults>>
     \/ /\ call[c].ready => Known(c)
        /\ Return(c, call[c].failed)
        /\ UNCHANGED <<watch, faults>>
     \/ call[c].ready /\ ~Known(c) /\ Fault /\ Return(c, TRUE) /\ NotInstalled(c)
  /\ UNCHANGED <<world, creating>>

Step(c) == CheckPeer(c) \/ ListServices(c) \/ DeleteStale(c) \/ Install(c)

Restart ==
  /\ Fault
  /\ peers' = {} /\ draining' = {} /\ creating' = {}
  /\ informers' = [c \in Clusters |-> 0]
  /\ call' = [c \in Clusters |-> NoCall]
  /\ pending' = {c \in Clusters : exists[c] = "yes"}
  /\ UNCHANGED world

\* The manager lists what there is once in a while.
Resync(c) ==
  /\ exists[c] = "yes"
  /\ pending' = pending \cup {c}
  /\ UNCHANGED <<world, watch, creating, call, faults>>

-----------------------------------------------------------------------------
(* The handlers of the peers, as far as they make and remove clusters      *)

HandlerOf(h) == informers[h] > 0 \/ h \in draining

\* The service is in the cache, and its namespace is read from the host, ...
HandlerBegin(c) ==
  /\ c \in vClusters /\ HandlerOf(HostOf[c])
  /\ service[c] = "yes" /\ exists[c] = "no" /\ Reachable(HostOf[c])
  /\ creating' = creating \cup {c}
  /\ UNCHANGED <<world, watch, pending, call, faults>>

\* ... and a cluster is created for it, although its service, its host or the
\* handler's peer may be gone by now.
HandlerCreate(c) ==
  /\ c \in creating
  /\ creating' = creating \ {c}
  /\ exists' = [exists EXCEPT ![c] = "yes"]
  /\ pending' = pending \cup {c}
  /\ UNCHANGED <<ready, service, watch, call, faults>>

\* Not every removed service is noticed.
HandlerCleanup(c) ==
  /\ c \in vClusters /\ HandlerOf(HostOf[c])
  /\ service[c] = "gone" /\ exists[c] = "yes"
  /\ Removed(c)
  /\ UNCHANGED <<ready, service, watch, creating, call, faults>>

\* The queue of a cancelled handler is empty.
DrainEnds(c) ==
  /\ c \in draining
  /\ draining' = draining \ {c}
  /\ UNCHANGED <<world, peers, informers, creating, pending, call, faults>>

-----------------------------------------------------------------------------
(* Rancher and its users                                                   *)

Register(c) ==
  /\ c \notin vClusters /\ exists[c] = "no"
  /\ exists' = [exists EXCEPT ![c] = "yes"]
  /\ pending' = pending \cup {c}
  /\ UNCHANGED <<ready, service, watch, creating, call, faults>>

RemoveCluster(c) ==
  /\ exists[c] = "yes"
  /\ Removed(c)
  /\ UNCHANGED <<ready, service, watch, creating, call, faults>>

ReadyChanges(c) ==
  /\ exists[c] = "yes"
  /\ ready' = (ready \ {c}) \cup ({c} \ ready)
  /\ pending' = pending \cup {c}
  /\ UNCHANGED <<exists, service, watch, creating, call, faults>>

CreateService(c) ==
  /\ c \in vClusters /\ service[c] = "no" /\ Reachable(HostOf[c])
  /\ service' = [service EXCEPT ![c] = "yes"]
  /\ UNCHANGED <<exists, ready, watch, creating, pending, call, faults>>

DeleteService(c) ==
  /\ service[c] = "yes"
  /\ service' = [service EXCEPT ![c] = "gone"]
  /\ UNCHANGED <<exists, ready, watch, creating, pending, call, faults>>

Next ==
  \/ \E c \in Clusters :
       \/ Begin(c) \/ Step(c) \/ Resync(c)
       \/ HandlerBegin(c) \/ HandlerCreate(c) \/ HandlerCleanup(c) \/ DrainEnds(c)
       \/ Register(c) \/ RemoveCluster(c) \/ ReadyChanges(c)
       \/ CreateService(c) \/ DeleteService(c)
  \/ Restart

Spec == Init /\ [][Next]_vars

\* Workers run, calls return, the manager resyncs.
Fairness ==
  \A c \in Clusters : WF_vars(Begin(c)) /\ WF_vars(Step(c)) /\ WF_vars(Resync(c))

FairSpec == Spec /\ Fairness

-----------------------------------------------------------------------------
(* Properties                                                              *)

\* A cluster with a peer has one informer, any other has none.
OneInformer == \A c \in Clusters : informers[c] = IF c \in peers THEN 1 ELSE 0

\* Where the peers do not follow the clusters yet, a Reconcile of that cluster is
\* owed, or runs and has seen it ready: no change is forgotten, whichever call
\* failed, and whether the cluster went before, while or after its handler was
\* started.
WatchOwed ==
  \A c \in Clusters :
    /\ exists[c] = "gone" /\ c \in peers => c \in pending
    /\ exists[c] = "yes" /\ c \in ready \ peers
       => c \in pending \/ (call[c].at # "idle" /\ call[c].ready)

\* The stale check never takes the cluster of a service that is there, however
\* unreachable its host.
StaleOnly ==
  [][\A c \in Clusters :
       call[c].at = "delete" /\ exists[c] = "yes" /\ exists'[c] = "gone"
         /\ call'[c].at = "install"
       => service[c] = "gone"]_vars

\* A cluster that stays ready is watched for good, and one that is gone is not,
\* even when it goes while its handler starts.
WatchFollows ==
  \A c \in Clusters :
    /\ <>[](exists[c] = "yes" /\ c \in ready) => <>[](informers[c] = 1)
    /\ <>[](exists[c] = "gone") => <>[](informers[c] = 0)

\* A vCluster's cluster goes when its service does, without any event, if the
\* host stays ready.
StaleGoInTheEnd ==
  \A c \in vClusters :
    <>[](exists[HostOf[c]] = "yes" /\ HostOf[c] \in ready) =>
      ((service[c] = "gone" /\ exists[c] = "yes") ~> (exists[c] = "gone"))

\* Cancelling a peer ends what its handler does: no cluster is created by the
\* handler of a host that is not watched any more.
StoppedWithPeer ==
  [][\A c \in vClusters : exists[c] = "no" /\ exists'[c] = "yes" => HostOf[c] \in peers]_vars

\* A vCluster's cluster goes when its service does, also when the host goes.
OrphansGoInTheEnd ==
  \A c \in vClusters : (service[c] = "gone" /\ exists[c] = "yes") ~> (exists[c] = "gone")
=============================================================================
