------------------------------ MODULE AppCleanup ------------------------------
(***************************************************************************)
(* How the Helm app of a vCluster is uninstalled when its cluster is       *)
(* deleted in Rancher: the service handler's patch of finalizer and label  *)
(* (getRancherResources of pkg/services/handler.go) and SyncCleanup of     *)
(* internal/controller/clusters/cluster_controller.go, which race with     *)
(* each other and with Rancher for the finalizer list of one management    *)
(* cluster.  Merge patches without an optimistic lock overwrite the list.  *)
(***************************************************************************)
EXTENDS Naturals

CONSTANTS
  None,           \* no cluster
  MaxFinalizers,  \* bound: as many entries stand for any number of them
  Faults          \* what may happen once

ASSUME MaxAssumption == MaxFinalizers \in Nat \ {0}

\* The order of the finalizers does not matter: there are fin entries of the
\* app's and the one of Rancher.
Cluster == [deleting : BOOLEAN, label : BOOLEAN, own : BOOLEAN, fin : 0..MaxFinalizers]

ASSUME NoneAssumption == None \notin Cluster

VARIABLES
  app,        \* the Helm app, and with it the vCluster's service
  annotated,  \* the service's uninstall-on-cluster-delete
  ready,      \* the provisioning cluster's status.ready
  cluster,    \* the management cluster
  handler,    \* the running Reconcile of the service
  cleanup,    \* the running Reconcile of the cluster
  due,        \* a Reconcile of the cluster is owed
  happened    \* the faults so far

vars == <<app, annotated, ready, cluster, handler, cleanup, due, happened>>

NoHandler == [at |-> "idle", annotated |-> FALSE, ready |-> FALSE, copy |-> None]
NoCleanup == [at |-> "idle", copy |-> None]

TypeOK ==
  /\ app \in {"installed", "leaving", "failed", "gone"}
  /\ annotated \in BOOLEAN /\ ready \in BOOLEAN /\ due \in BOOLEAN
  /\ cluster \in Cluster \cup {None}
  /\ handler \in [at : {"idle", "begun", "read"}, annotated : BOOLEAN, ready : BOOLEAN,
                  copy : Cluster \cup {None}]
  /\ cleanup \in [at : {"idle", "uninstall", "patch"}, copy : Cluster \cup {None}]
  /\ happened \subseteq Faults

Init ==
  /\ app = "installed" /\ annotated \in BOOLEAN /\ ready = FALSE
  /\ cluster = [deleting |-> FALSE, label |-> FALSE, own |-> FALSE, fin |-> 0]
  /\ handler = NoHandler /\ cleanup = NoCleanup
  /\ due = TRUE /\ happened = {}

Fault(kind) == kind \in Faults \ happened /\ happened' = happened \cup {kind}

-----------------------------------------------------------------------------
(* The API server                                                          *)

\* A deleted object goes with its last finalizer.
Collected(c) == IF c.deleting /\ ~c.own /\ c.fin = 0 THEN None ELSE c

\* Every change is an event for the cluster reconciler.
Update(c) ==
  /\ cluster' = Collected(c)
  /\ due' = (due \/ Collected(c) # cluster)

Finalizers(c) == <<c.own, c.fin>>

\* A merge patch of what differs between copy and new: the finalizer list as a
\* whole, the label on its own.
Patched(copy, new) ==
  LET list == IF Finalizers(new) = Finalizers(copy) THEN cluster ELSE new
  IN  [cluster EXCEPT !.own = list.own, !.fin = list.fin, !.label = @ \/ new.label]

\* A deleted object takes no finalizer that it does not have.
Accepts(copy, new) ==
  /\ cluster # None
  /\ cluster.deleting =>
       /\ Patched(copy, new).own => cluster.own
       /\ Patched(copy, new).fin > 0 => cluster.fin > 0

-----------------------------------------------------------------------------
(* The service handler, one Reconcile of the service at a time             *)

\* The cached service and the provisioning cluster are read, ...
HandlerBegin ==
  /\ handler.at = "idle" /\ app # "gone" /\ cluster # None
  /\ handler' = [handler EXCEPT !.at = "begun", !.annotated = annotated, !.ready = ready]
  /\ UNCHANGED <<app, annotated, ready, cluster, cleanup, due, happened>>

\* ... then the management cluster, ...
HandlerRead ==
  /\ handler.at = "begun"
  /\ handler' = IF cluster = None THEN NoHandler
                ELSE [handler EXCEPT !.at = "read", !.copy = cluster]
  /\ UNCHANGED <<app, annotated, ready, cluster, cleanup, due, happened>>

Appended(fin) == IF fin < MaxFinalizers THEN fin + 1 ELSE fin

\* Mutant of Marked: the label is meant to come with a later patch.
MarkedBare(copy) == [copy EXCEPT !.fin = Appended(@), !.label = @ \/ copy.fin > 0]

\* One more entry on every pass, whether one is there or not.
Marked(copy) == [copy EXCEPT !.fin = Appended(@), !.label = TRUE]

\* Mutant of Unmarked: an entry that is there is left to SyncCleanup.
UnmarkedNever(copy) == copy

\* One entry less; the label stays.
Unmarked(copy) == IF copy.fin = 0 THEN copy ELSE [copy EXCEPT !.fin = @ - 1]

Intended ==
  IF handler.ready THEN handler.copy
  ELSE IF handler.annotated THEN Marked(handler.copy) ELSE Unmarked(handler.copy)

\* ... which is patched.  Whatever comes of it, this Reconcile is repeated while
\* the cluster is not ready, and at the next resync.
HandlerPatch ==
  /\ handler.at = "read"
  /\ handler' = NoHandler
  /\ \/ /\ Accepts(handler.copy, Intended)
        /\ Update(Patched(handler.copy, Intended))
        /\ UNCHANGED happened
     \/ /\ ~Accepts(handler.copy, Intended)
        /\ UNCHANGED <<cluster, due, happened>>
     \/ Fault("patch") /\ UNCHANGED <<cluster, due>>
  /\ UNCHANGED <<app, annotated, ready, cleanup>>

\* The service is gone: cleanupProvisioningCluster, and Rancher deletes the
\* management cluster of the provisioning cluster.
HandlerCleanup ==
  /\ handler.at = "idle" /\ app = "gone"
  /\ cluster # None /\ ~cluster.deleting
  /\ Update([cluster EXCEPT !.deleting = TRUE])
  /\ UNCHANGED <<app, annotated, ready, handler, cleanup, happened>>

-----------------------------------------------------------------------------
(* SyncCleanup of the cluster reconciler                                   *)

\* Reconcile gets the cluster; without a deletion or a target there is nothing
\* to do.
CleanupBegin ==
  /\ cleanup.at = "idle" /\ due
  /\ due' = FALSE
  /\ cleanup' = IF cluster # None /\ cluster.deleting /\ cluster.label
                THEN [at |-> "uninstall", copy |-> cluster] ELSE NoCleanup
  /\ UNCHANGED <<app, annotated, ready, cluster, handler, happened>>

\* Mutant of Fails: any answer of the uninstall action will do.
NeverFails == cleanup' = [cleanup EXCEPT !.at = "patch"] /\ UNCHANGED due

\* Mutant of Fails: the error ends the Reconcile for good.
FailsForGood == cleanup' = NoCleanup /\ UNCHANGED due

\* Errors are joined and Reconcile asks for a requeue.
Fails == cleanup' = NoCleanup /\ due' = TRUE

HelmStarted == IF app = "gone" THEN app ELSE "leaving"

\* Rancher's uninstall action starts a Helm operation, which nobody waits for;
\* an app that is gone answers NotFound, which is as good.
Uninstall ==
  /\ cleanup.at = "uninstall"
  /\ \/ /\ app' = HelmStarted
        /\ cleanup' = [cleanup EXCEPT !.at = "patch"]
        /\ UNCHANGED <<due, happened>>
     \/ Fault("post") /\ Fails /\ app' \in {app, HelmStarted}
  /\ UNCHANGED <<annotated, ready, cluster, handler>>

\* Mutant of Held: the finalizer is not looked for.
HeldUnseen(copy) == TRUE

Held(copy) == copy.fin > 0

\* The first entry goes; others stay for the Reconcile of this change.
Dropped(copy) == [copy EXCEPT !.fin = @ - 1]

\* The patch of a cluster that is gone is fine.
RemoveFinalizer ==
  /\ cleanup.at = "patch"
  /\ \/ /\ ~Held(cleanup.copy) \/ cluster = None
        /\ cleanup' = NoCleanup
        /\ UNCHANGED <<cluster, due, happened>>
     \/ /\ Held(cleanup.copy) /\ cluster # None
        /\ ~Accepts(cleanup.copy, Dropped(cleanup.copy))
        /\ Fails
        /\ UNCHANGED <<cluster, happened>>
     \/ /\ Held(cleanup.copy) /\ Accepts(cleanup.copy, Dropped(cleanup.copy))
        /\ Update(Patched(cleanup.copy, Dropped(cleanup.copy)))
        /\ cleanup' = NoCleanup
        /\ UNCHANGED happened
     \/ Held(cleanup.copy) /\ Fault("patch") /\ Fails /\ UNCHANGED cluster
  /\ UNCHANGED <<app, annotated, ready, handler>>

Restart ==
  /\ Fault("restart")
  /\ handler' = NoHandler /\ cleanup' = NoCleanup /\ due' = TRUE
  /\ UNCHANGED <<app, annotated, ready, cluster>>

-----------------------------------------------------------------------------
(* Users, Helm and Rancher                                                 *)

DeleteCluster ==
  /\ cluster # None /\ ~cluster.deleting
  /\ Update([cluster EXCEPT !.deleting = TRUE])
  /\ UNCHANGED <<app, annotated, ready, handler, cleanup, happened>>

\* The user puts the annotation on or takes it off.
Annotate ==
  /\ app # "gone" /\ Fault("annotate")
  /\ annotated' = ~annotated
  /\ UNCHANGED <<app, ready, cluster, handler, cleanup, due>>

\* A user uninstalls the app.
RemoveApp ==
  /\ app \in {"installed", "failed"} /\ Fault("remove")
  /\ app' = "leaving"
  /\ UNCHANGED <<annotated, ready, cluster, handler, cleanup, due>>

AppGoes ==
  /\ app = "leaving"
  /\ app' = "gone"
  /\ UNCHANGED <<annotated, ready, cluster, handler, cleanup, due, happened>>

\* The Helm operation fails: the app and its service stay, until somebody
\* uninstalls again.
HelmFails ==
  /\ app = "leaving" /\ Fault("helm")
  /\ app' = "failed"
  /\ UNCHANGED <<annotated, ready, cluster, handler, cleanup, due>>

ReadyChanges ==
  /\ ready' = ~ready
  /\ UNCHANGED <<app, annotated, cluster, handler, cleanup, due, happened>>

\* Rancher has a finalizer of its own, for as long as it needs it.
RancherHolds ==
  /\ cluster # None /\ ~cluster.deleting /\ ~cluster.own
  /\ Update([cluster EXCEPT !.own = TRUE])
  /\ UNCHANGED <<app, annotated, ready, handler, cleanup, happened>>

RancherReleases ==
  /\ cluster # None /\ cluster.deleting /\ cluster.own
  /\ Update([cluster EXCEPT !.own = FALSE])
  /\ UNCHANGED <<app, annotated, ready, handler, cleanup, happened>>

Next ==
  \/ HandlerBegin \/ HandlerRead \/ HandlerPatch \/ HandlerCleanup
  \/ CleanupBegin \/ Uninstall \/ RemoveFinalizer \/ Restart
  \/ DeleteCluster \/ Annotate \/ RemoveApp \/ AppGoes \/ HelmFails \/ ReadyChanges
  \/ RancherHolds \/ RancherReleases

Spec == Init /\ [][Next]_vars

\* Both workers run, API calls return, the queue repeats the handler's pass, the
\* Helm operation ends and Rancher lets go of what it is to delete.
Fairness ==
  /\ WF_vars(HandlerBegin) /\ WF_vars(HandlerRead) /\ WF_vars(HandlerPatch)
  /\ WF_vars(HandlerCleanup)
  /\ WF_vars(CleanupBegin) /\ WF_vars(Uninstall) /\ WF_vars(RemoveFinalizer)
  /\ WF_vars(AppGoes) /\ WF_vars(RancherReleases)

FairSpec == Spec /\ Fairness

-----------------------------------------------------------------------------
(* Properties                                                              *)

\* A cluster with the app's finalizer has the label by which SyncCleanup finds
\* what to uninstall; without it the finalizer would never go.
NeverStuck == cluster # None /\ cluster.fin > 0 => cluster.label

\* A deleted cluster with the app's finalizer is never forgotten, whoever wrote
\* which list from which copy: a Reconcile of it is owed or runs.
ReleaseOwed ==
  cluster # None /\ cluster.deleting /\ cluster.fin > 0 => due \/ cleanup.at # "idle"

\* The app's last finalizer leaves a deleted cluster only after Rancher has
\* accepted to uninstall the app, whatever the copies that are patched, unless
\* the annotation was changed meanwhile.  That the Helm operation ends well is
\* not waited for, and not promised.
HeldUntilUninstalled ==
  [][/\ cluster # None /\ cluster.deleting /\ cluster.fin > 0
     /\ cluster' = None \/ cluster'.fin = 0
     => app # "installed" \/ "annotate" \in happened]_vars

\* A deleted cluster goes, however many entries there are and whoever overwrites
\* whose list.
GoneInTheEnd == (cluster # None /\ cluster.deleting) ~> (cluster = None)

\* While a cluster is not ready, a service that has lost its annotation loses all
\* its finalizers.
UnmarkedInTheEnd ==
  <>[](~annotated /\ ~ready /\ app # "gone" /\ cluster # None /\ ~cluster.deleting)
    => <>[](cluster = None \/ cluster.fin = 0)

\* The finalizer is added if it is not present.
FinalizerOnce == cluster # None => cluster.fin <= 1

\* Without the finalizer and the annotation there is nothing to clean up: the
\* deletion of the cluster leaves the app alone.
AppKept ==
  [][/\ app = "installed" /\ app' = "leaving" /\ cleanup.at = "uninstall"
     => annotated \/ cleanup.copy.fin > 0]_vars
=============================================================================
