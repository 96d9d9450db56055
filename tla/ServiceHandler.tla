---------------------------- MODULE ServiceHandler ----------------------------
(***************************************************************************)
(* pkg/services/handler.go and what drives it: the life of the Rancher     *)
(* cluster of each vCluster service of one host cluster.  The state lives  *)
(* in four places that only ever learn of each other late: the host        *)
(* cluster's API (phase), the informer's cache (seen), the queue and the   *)
(* workers of the operator, and Rancher's API (clusters).                  *)
(*                                                                         *)
(* The queue is what WorkContract promises and WorkQueue is shown to keep: *)
(* pending, Begin and Return are written as the contract's owed, Begin and *)
(* Finish.  An item is its UID, since a UID has one key; a notification on *)
(* its way from the informer to the queue counts as pending.               *)
(*                                                                         *)
(* There is one operator process.  Leader election is off unless a flag    *)
(* turns it on; where two processes overlap for a while, what one of them  *)
(* does to Rancher is excluded only by the other's token (see Token).      *)
(***************************************************************************)
EXTENDS Naturals

CONSTANTS
  UIDs,       \* the service instances: a re-created service has a new UID
  Earlier,    \* Earlier[u]: the former services with the namespace/name of u
  Names,      \* (namespace, name) pairs of provisioning clusters
  NamesOf,    \* NamesOf[u]: the names getProvisioningClusterName can lead to
  Generated,  \* the UIDs whose cluster is created with generateName
  Skipped,    \* headless services and services with the skip-import annotation
  Foreign,    \* UIDs that a second registration of the same host may import too
  Workers, None,
  Faults, MaxFaults   \* the kinds of fault that may happen, and how many

\* mine: labelled with this host cluster; managed: Rancher has created the
\* management cluster and the labels are on it.
Clusters == [uid : UIDs, mine : BOOLEAN, managed : BOOLEAN, deleting : BOOLEAN]

ASSUME NoneAssumption == None \notin UIDs \cup Names /\ None \notin Clusters
ASSUME EarlierAssumption ==
  /\ Earlier \in [UIDs -> SUBSET UIDs]
  /\ \A u \in UIDs : u \notin Earlier[u]
ASSUME NamesAssumption == NamesOf \in [UIDs -> (SUBSET Names) \ {{}}]
\* The handler of the other registration skips what this one skips.
ASSUME ForeignAssumption == Foreign \subseteq UIDs \ Skipped
ASSUME FaultsAssumption ==
  Faults \subseteq {"error", "relist", "restart"} /\ MaxFaults \in Nat

VARIABLES
  phase,      \* phase[u]: the service in the host cluster's API
  informer,   \* off, starting (first list not done) or synced
  seen,       \* seen[u]: the last phase the informer's cache was told
  pending,    \* the items a Reconcile call is owed for
  at, item, svc, name,  \* each worker: its place, its item, the service it acts
                        \* for and the name of the cluster it is about to delete
  clusters,   \* clusters[n]: the provisioning cluster of that name, or None
  faults      \* the number of faults so far

cache   == <<informer, seen>>
workers == <<at, item, svc, name>>
vars    == <<phase, cache, pending, workers, clusters, faults>>

Phases   == {"unborn", "live", "terminating", "gone"}
Places   == {"idle", "cleanup", "delete", "deploy", "create", "resources"}

TypeOK ==
  /\ phase \in [UIDs -> Phases]
  /\ informer \in {"off", "starting", "synced"}
  /\ seen \in [UIDs -> Phases]
  /\ pending \subseteq UIDs
  /\ at \in [Workers -> Places]
  /\ item \in [Workers -> UIDs \cup {None}]
  /\ svc \in [Workers -> UIDs \cup {None}]
  /\ name \in [Workers -> Names \cup {None}]
  /\ clusters \in [Names -> Clusters \cup {None}]
  /\ faults \in 0 .. MaxFaults

Init ==
  /\ phase = [u \in UIDs |-> "unborn"]
  /\ informer = "off"
  /\ seen = [u \in UIDs |-> "unborn"]
  /\ pending = {}
  /\ at = [w \in Workers |-> "idle"]
  /\ item = [w \in Workers |-> None]
  /\ svc = [w \in Workers |-> None]
  /\ name = [w \in Workers |-> None]
  /\ clusters = [n \in Names |-> None]
  /\ faults = 0

Exists(p)   == p \in {"live", "terminating"}
SameKey(u)  == {v \in UIDs : v = u \/ v \in Earlier[u] \/ u \in Earlier[v]}
\* Mutant of Labelled: the selector has the key of the label, not its value.
AnyCluster(u) == {n \in Names : clusters[n] # None}

\* GetFirstWithLabel and the label selectors see the clusters of a UID.
Labelled(u) == {n \in Names : clusters[n] # None /\ clusters[n].uid = u}

Fault(kind) ==
  /\ kind \in Faults /\ faults < MaxFaults
  /\ faults' = faults + 1

-----------------------------------------------------------------------------
(* The host cluster                                                        *)

CreateService(u) ==
  /\ phase[u] = "unborn"
  /\ \A v \in Earlier[u] : phase[v] = "gone"
  /\ phase' = [phase EXCEPT ![u] = "live"]
  /\ UNCHANGED <<cache, pending, workers, clusters, faults>>

\* With a finalizer the service stays for a while with a deletionTimestamp.
DeleteService(u) ==
  /\ Exists(phase[u])
  /\ \E p \in {"terminating", "gone"} \ {phase[u]} :
       phase' = [phase EXCEPT ![u] = p]
  /\ UNCHANGED <<cache, pending, workers, clusters, faults>>

-----------------------------------------------------------------------------
(* The informer: SyncvClusterInstallHandler and the shared informer        *)

StartInformer ==
  /\ informer = "off"
  /\ informer' = "starting"
  /\ UNCHANGED <<phase, seen, pending, workers, clusters, faults>>

\* Mutant of Vanished: tombstones are dropped.
NeverVanished(u) == FALSE

Vanished(u) == Exists(seen[u]) /\ \A v \in SameKey(u) : ~Exists(phase[v])

\* A list replaces the cache: OnAdd or OnUpdate for all that is listed, and
\* OnDelete with a tombstone for what is not.  A service that was deleted and
\* re-created since the last list shows up as one update with the new UID.
List ==
  /\ seen' = phase
  /\ pending' = pending
                \cup {u \in UIDs : Exists(phase[u]) \/ Vanished(u)}

FirstList ==
  /\ informer = "starting"
  /\ informer' = "synced"
  /\ List
  /\ UNCHANGED <<phase, workers, clusters, faults>>

\* The watch broke and its history is gone: the informer lists again.
Relist ==
  /\ informer = "synced"
  /\ Fault("relist")
  /\ List
  /\ UNCHANGED <<phase, informer, workers, clusters>>

\* The next watch event of a service; the events of one key keep their order.
NextSeen(u) ==
  CASE seen[u] = "unborn" ->
         IF phase[u] # "unborn" /\ \A v \in Earlier[u] : seen[v] = "gone"
         THEN {"live"} ELSE {}
    [] seen[u] = "live" /\ phase[u] = "gone" -> {"terminating", "gone"}
    [] OTHER -> {phase[u]} \ {seen[u]}

Watch(u) ==
  /\ informer = "synced"
  /\ \E p \in NextSeen(u) : seen' = [seen EXCEPT ![u] = p]
  /\ pending' = pending \cup {u}
  /\ UNCHANGED <<phase, informer, workers, clusters, faults>>

\* Mutant of Resync: the informer has no resync period.
NoResync(u) == FALSE /\ UNCHANGED vars

\* The informer's resync sends OnUpdate for all that is in the cache.
Resync(u) ==
  /\ informer = "synced" /\ Exists(seen[u])
  /\ pending' = pending \cup {u}
  /\ UNCHANGED <<phase, cache, workers, clusters, faults>>

-----------------------------------------------------------------------------
(* services.Handler                                                        *)

Goto(w, place) == at' = [at EXCEPT ![w] = place]

\* Reconcile returns; handleErr and Done of the queue follow.
Return(w, again) ==
  /\ Goto(w, "idle")
  /\ item' = [item EXCEPT ![w] = None]
  /\ svc' = [svc EXCEPT ![w] = None]
  /\ name' = [name EXCEPT ![w] = None]
  /\ pending' = IF again THEN pending \cup {item[w]} ELSE pending

Free(u) == \A v \in Workers : item[v] # u

\* Reconcile: what the cache holds under the item's key now decides, whatever
\* the event was.  Without an entry the item's own UID is cleaned up.
Begin(w, u) ==
  /\ at[w] = "idle" /\ u \in pending /\ Free(u)
  /\ pending' \in {pending, pending \ {u}}
  /\ item' = [item EXCEPT ![w] = u]
  /\ LET cached == {v \in SameKey(u) : Exists(seen[v])} IN
       \/ cached = {} /\ svc' = [svc EXCEPT ![w] = u] /\ Goto(w, "cleanup")
       \/ \E v \in cached :
            /\ svc' = [svc EXCEPT ![w] = v]
            /\ Goto(w, IF seen[v] = "terminating" THEN "cleanup" ELSE "deploy")
  /\ UNCHANGED <<phase, cache, name, clusters, faults>>

\* cleanupProvisioningCluster: look the cluster up by the label.
CleanupLookup(w) ==
  /\ at[w] = "cleanup"
  /\ \/ /\ Labelled(svc[w]) = {} \/ \E n \in Labelled(svc[w]) : ~clusters[n].mine
        /\ Return(w, FALSE)
     \/ \E n \in Labelled(svc[w]) :
          /\ clusters[n].mine
          /\ name' = [name EXCEPT ![w] = n]
          /\ Goto(w, "delete")
          /\ UNCHANGED <<pending, item, svc>>
  /\ UNCHANGED <<phase, cache, clusters, faults>>

\* The object stays, with a deletionTimestamp, until Rancher lets it go.
MarkDeleted(n) == clusters' = [clusters EXCEPT ![n].deleting = TRUE]

\* ... and delete it, by name and without a UID precondition.  That it is not
\* there any more is an error here, and retried.  The answer may get lost.
CleanupDelete(w) ==
  /\ at[w] = "delete"
  /\ \/ clusters[name[w]] = None /\ Return(w, TRUE) /\ UNCHANGED <<clusters, faults>>
     \/ /\ clusters[name[w]] # None
        /\ MarkDeleted(name[w])
        /\ \/ Return(w, FALSE) /\ UNCHANGED faults
           \/ Return(w, TRUE) /\ Fault("error")
  /\ UNCHANGED <<phase, cache>>

\* Mutant of DeployLookup: only a cluster that Rancher manages counts.
DeployLookupManaged(w) ==
  /\ at[w] = "deploy" /\ svc[w] \notin Skipped
  /\ Goto(w, IF \E n \in Labelled(svc[w]) : clusters[n].managed
             THEN "resources" ELSE "create")
  /\ UNCHANGED <<phase, cache, pending, item, svc, name, clusters, faults>>

\* deployvClusterRancherCluster: the early returns, then the lookup of
\* ensureProvisioningCluster.
DeployLookup(w) ==
  /\ at[w] = "deploy"
  /\ \/ svc[w] \in Skipped /\ Return(w, FALSE)
     \/ /\ svc[w] \notin Skipped
        /\ Goto(w, IF Labelled(svc[w]) = {} THEN "create" ELSE "resources")
        /\ UNCHANGED <<pending, item, svc, name>>
  /\ UNCHANGED <<phase, cache, clusters, faults>>

NewCluster(u, mine) == [uid |-> u, mine |-> mine, managed |-> FALSE, deleting |-> FALSE]

\* The create of ensureProvisioningCluster.  AlreadyExists is swallowed; the
\* API server makes up another name only for generateName.
DeployCreate(w) ==
  /\ at[w] = "create"
  /\ \E n \in NamesOf[svc[w]] :
       \/ /\ clusters[n] = None
          /\ clusters' = [clusters EXCEPT ![n] = NewCluster(svc[w], TRUE)]
       \/ /\ clusters[n] # None
          /\ svc[w] \in Generated => \A m \in NamesOf[svc[w]] : clusters[m] # None
          /\ UNCHANGED clusters
  /\ Goto(w, "resources")
  /\ UNCHANGED <<phase, cache, pending, item, svc, name, faults>>

\* Mutant of RancherPending: nothing is waited for.
NothingPending(u) == FALSE

RancherPending(u) == \A n \in Labelled(u) : ~clusters[n].managed

\* getRancherResources and ensureAgentDeployed: wait for the management
\* cluster; after it, for the token, the secret and the install job.
DeployResources(w) ==
  /\ at[w] = "resources"
  /\ \E again \in BOOLEAN :
       /\ RancherPending(svc[w]) => again
       /\ Return(w, again)
  /\ UNCHANGED <<phase, cache, clusters, faults>>

\* Any of the calls above fails; also, for a create, only its answer is lost.
ApiError(w) ==
  /\ at[w] # "idle"
  /\ Fault("error")
  /\ Return(w, TRUE)
  /\ UNCHANGED <<phase, cache, clusters>>

-----------------------------------------------------------------------------
(* Rancher, the cluster reconciler, and the operator's process             *)

RancherManage(n) ==
  /\ clusters[n] # None /\ ~clusters[n].managed /\ ~clusters[n].deleting
  /\ clusters' = [clusters EXCEPT ![n].managed = TRUE]
  /\ UNCHANGED <<phase, cache, pending, workers, faults>>

RancherRemove(n) ==
  /\ clusters[n] # None /\ clusters[n].deleting
  /\ clusters' = [clusters EXCEPT ![n] = None]
  /\ UNCHANGED <<phase, cache, pending, workers, faults>>

\* The handler of the other registration of this host imports the service, by a
\* cache and a lookup of its own that may be old; its names begin with another
\* host name.  Its clean-up and its stale check are not modelled.
ForeignImport(u, n) ==
  /\ u \in Foreign /\ phase[u] # "unborn"
  /\ clusters[n] = None
  /\ \A v \in UIDs : n \notin NamesOf[v]
  /\ clusters' = [clusters EXCEPT ![n] = NewCluster(u, FALSE)]
  /\ UNCHANGED <<phase, cache, pending, workers, faults>>

\* Mutant of Stale: a service that still exists counts as gone, a gone one not.
StaleWhileTerminating(u) == phase[u] = "terminating"

Stale(u) == phase[u] = "gone"

\* SyncStaleResources: no service of the host has the UID on the management
\* cluster.  That is for good, so the check and the delete are one step.
SyncStaleResources(n) ==
  /\ informer # "off"
  /\ clusters[n] # None /\ clusters[n].mine /\ clusters[n].managed
  /\ ~clusters[n].deleting
  /\ Stale(clusters[n].uid)
  /\ MarkDeleted(n)
  /\ UNCHANGED <<phase, cache, pending, workers, faults>>

\* The operator dies and starts again: cache, queue and workers are lost.
Restart ==
  /\ Fault("restart")
  /\ informer' = "off"
  /\ seen' = [u \in UIDs |-> "unborn"]
  /\ pending' = {}
  /\ at' = [w \in Workers |-> "idle"]
  /\ item' = [w \in Workers |-> None]
  /\ svc' = [w \in Workers |-> None]
  /\ name' = [w \in Workers |-> None]
  /\ UNCHANGED <<phase, clusters>>

Work(w) ==
  \/ CleanupLookup(w) \/ CleanupDelete(w)
  \/ DeployLookup(w) \/ DeployCreate(w) \/ DeployResources(w)

Next ==
  \/ \E u \in UIDs : CreateService(u) \/ DeleteService(u) \/ Watch(u) \/ Resync(u)
  \/ StartInformer \/ FirstList \/ Relist
  \/ \E w \in Workers : Work(w) \/ ApiError(w) \/ \E u \in UIDs : Begin(w, u)
  \/ \E n \in Names : RancherManage(n) \/ RancherRemove(n) \/ SyncStaleResources(n)
  \/ \E u \in Foreign, n \in Names : ForeignImport(u, n)
  \/ Restart

Spec == Init /\ [][Next]_vars

\* API calls return, the informer's goroutine runs and its resync period is an
\* hour; Rancher does its part; a cluster is reconciled at least once per
\* resync of the manager's cache.  A pending item is begun in the end although
\* other items compete for the workers: the queue is a FIFO (WorkServed of
\* WorkQueue).  Faults and services are under no fairness.
Fairness ==
  /\ WF_vars(StartInformer) /\ WF_vars(FirstList)
  /\ \A u \in UIDs : WF_vars(Watch(u)) /\ WF_vars(Resync(u))
  /\ \A u \in UIDs : SF_vars(\E w \in Workers : Begin(w, u))
  /\ \A w \in Workers : WF_vars(Work(w))
  /\ \A n \in Names : WF_vars(RancherManage(n)) /\ WF_vars(RancherRemove(n))
  /\ \A n \in Names : WF_vars(SyncStaleResources(n))

FairSpec == Spec /\ Fairness

-----------------------------------------------------------------------------
(* Properties                                                              *)

Owed(u)         == u \in pending \/ \E w \in Workers : item[w] = u
ClusterOf(n, u) == clusters[n] # None /\ clusters[n].uid = u /\ clusters[n].mine

\* The operator deletes a cluster only when its service is being deleted or
\* gone, and only if it is labelled with this host: the label lookup, the
\* delete by name and the stale check never take a live service's cluster.
SparedIfLive(n) ==
  clusters[n] # None /\ ~clusters[n].deleting /\ clusters'[n] # clusters[n]
    => \/ clusters'[n] = [clusters[n] EXCEPT !.managed = TRUE]
       \/ clusters[n].mine /\ phase[clusters[n].uid] \in {"terminating", "gone"}
SparesLive     == \A n \in Names : SparedIfLive(n)
DeleteOnlyGone == [][SparesLive]_vars

\* However creates, retries, relists and restarts interleave, a service never
\* has two clusters, even when its name is generated and so never collides.
AtMostOneCluster(u) == \A m, n \in Names : ClusterOf(m, u) /\ ClusterOf(n, u) => m = n
OneClusterEach      == \A u \in UIDs : AtMostOneCluster(u)

\* An import is not forgotten: while the informer has a live service in its
\* cache that Rancher has no managed cluster for, a Reconcile is owed for it.
Managed(n, u) == clusters[n] # None /\ clusters[n].uid = u /\ clusters[n].managed
ImportOwedFor(u) ==
  /\ seen[u] = "live" /\ phase[u] = "live"
  /\ ~ \E n \in Names : Managed(n, u)
  => Owed(u)
ImportOwed == \A u \in UIDs \ Skipped : ImportOwedFor(u)

\* A clean-up is not forgotten: when a service goes that the informer knew or a
\* Reconcile was owed for, its cluster is deleted or a Reconcile is owed after the
\* step.  Only a restart forgets, and the lookup of a service that another
\* registration has imported too: it may find that cluster and look no further.
KeepsCleanupOf(u) ==
  /\ Exists(seen[u]) \/ Owed(u)
  /\ informer' # "off" /\ seen'[u] = "gone"
  /\ \E n \in Names : ClusterOf(n, u)' /\ ~clusters'[n].deleting
  /\ \A n \in Labelled(u) : clusters[n].mine
  => Owed(u)'
KeepsCleanup == \A u \in UIDs : KeepsCleanupOf(u)
CleanupOwed  == [][KeepsCleanup]_vars

\* In the end no cluster is left of a service that is gone, whatever was lost
\* on the way: what the queue misses the stale check finds.
OrphansRemoved ==
  \A u \in UIDs : phase[u] = "gone" ~> [](\A n \in Names : ~ClusterOf(n, u))

\* A service that stays gets a cluster that Rancher manages, and keeps it.
ImportedInTheEnd ==
  \A u \in UIDs \ Skipped :
    <>[](phase[u] = "live")
      => <>[](\E n \in Names : Managed(n, u) /\ ~clusters[n].deleting)

\* What the handler, the stale check, Rancher and the faults together do to the
\* cluster of a service is what ClusterLife allows: created once and only for a
\* service that was there, deleted only when that is leaving, and never revived.
LifeOf(u) ==
  IF ~ \E n \in Names : ClusterOf(n, u) THEN "none"
  ELSE IF \E n \in Names : ClusterOf(n, u) /\ clusters[n].deleting THEN "deleting"
  ELSE IF \E n \in Names : ClusterOf(n, u) /\ clusters[n].managed THEN "managed"
  ELSE "created"
Life == INSTANCE ClusterLife WITH cluster <- [u \in UIDs |-> LifeOf(u)]
ImplementsLife == Life!Spec
=============================================================================
