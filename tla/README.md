# A TLA+ model of the vCluster Rancher operator

The operator runs in Rancher's local cluster. For every vCluster service of every
downstream ("host") cluster it creates a Rancher provisioning cluster, waits for
Rancher, installs Rancher's agent in the vCluster, keeps labels, owners and limits
in step, and removes the Rancher cluster when the service is gone. This directory
holds TLA+ modules of that program, TLC configurations that check them on small
instances, and TLAPS proofs for all instances. Paths are relative to the
repository, `pkg/...` standing for `src/pkg/...`.

## Inventory

| Part | State | Operations | What makes it correct |
|---|---|---|---|
| Work queue (`pkg/queue/queue.go`, client-go workqueue) | FIFO, dirty and processing sets, timers, failure counters, workers | `OnAdd`/`OnUpdate`/`OnDelete`, `Start`, worker loop, `handleErr`, shutdown | no event or retry lost, one worker per item, backoff only for errors, ends when cancelled |
| Service informer (client-go, started in `cluster_controller.go`) | cache of services | first list, watch, relist, hourly resync | not ours; its delays and tombstones are what the handler must survive |
| Service handler (`pkg/services/handler.go`) | none of its own: it reads the cache and Rancher | `Reconcile`, clean-up, create, wait for Rancher, install agent | one cluster for each service, no live service's cluster deleted, no import or clean-up forgotten |
| Agent installation (`handler.go:169-338`) | pods, jobs, token, secret | label and finalizer patch, job look-up, retry of failed jobs, create | agent installed once per vCluster, failed jobs retried |
| Cluster reconciler (`cluster_controller.go`) | `peers`: one cancel function per host, under a lock | start/stop a host's informer, stale check, app clean-up, RBAC, limits | one informer per host, orphans found, finalizer removed once the app is gone |
| Rancher RBAC (`SyncRancherRBAC`) | role template bindings in Rancher | create and remove cluster-owner bindings, map functions that trigger it | owners = users with a qualifying binding |
| Rancher token (`pkg/token`) | the token object in Rancher | delete old tokens, create one | the running operator's token is valid |
| Naming, labels, fleet workspace, config | configuration | pure functions, one check-then-create | name limits, label rules, workspace exists |
| Start-up (`cmd/main.go`) | - | token, manager, controller | a restart starts from empty caches and queues |

How they interact: the cluster reconciler, called by controller-runtime with up to
ten workers, starts an informer and a queue for every ready host
(`SyncvClusterInstallHandler`). The informer's callbacks put items (namespace/name and
UID) into the queue; five workers call the service handler, which reads the
informer's cache, not the event. Everything the handler writes is in Rancher's API,
where Rancher itself, the cluster reconciler's stale check and a second registration
of the same host write as well.

What is hard: the five workers and the resyncs; a cache that lags; look-ups separated from
the writes they justify; deletes by name; calls whose answer is lost; a service that is
re-created under its old name while items of the old one are queued; deletions missed while
the watch or the operator was down; shutdown with timers armed; three writers of one finalizer
list; lists of bindings that are old when they are acted on; two pods that each replace the
other's token. `PROJECT.json` lists each of these hazards at its line, with the properties that
cover it or the reason why none does.

## Modules

| Module | Models |
|---|---|
| `WorkContract` | what a reconciler may rely on from its queue: requested items stay owed, a worker begins only owed items that nobody holds |
| `WorkQueue` | `queue.go` and the client-go queue under it; implements `WorkContract` |
| `WorkQueueProofs` | its theorems |
| `ServiceHandler` | the life of the Rancher clusters of one host: host API, informer, handler, stale check, Rancher, restarts; its queue is that of `WorkContract` |
| `ClusterLife` | the life of a service's cluster without caches, queue, workers and names; `ServiceHandler` implements it |
| `MCServiceHandler` | the small worlds of services and names its runs choose from |
| `ServiceHandlerProofs` | its theorems |
| `AgentInstall` | how Rancher's agent gets into the vCluster: `getRancherResources`, `ensureAgentDeployed`, install jobs, Rancher, the job controller |
| `MCAgentInstall` | the namespaces and the symmetry of its runs |
| `AgentInstallProofs` | its theorems |
| `HostPeers` | the cluster reconciler: which clusters are watched, the stale check, the handlers that outlive their peer |
| `MCHostPeers`, `HostPeersProofs` | a host with a vCluster that is a host itself; its theorems |
| `AppCleanup` | the uninstalling of the Helm app: finalizer and label, `SyncCleanup`, Rancher |
| `AppCleanupProofs` | its theorems |
| `RancherRBAC` | `SyncRancherRBAC` and the map functions that trigger it |
| `MCRancherRBAC`, `RancherRBACProofs` | the bindings of its run; its theorems |
| `Token` | `GetToken` in the pods of a Deployment |
| `TokenProofs` | its theorems |
| `ClusterAttributes` | name, Fleet workspace and labels of a service's cluster |
| `MCClusterAttributes`, `ClusterAttributesProofs` | names at their limits, labels of each kind; its theorems |

`ServiceHandler` has for its queue what `WorkContract` promises: `pending`, `Begin` and `Return` are written as the contract's
`owed`, `Begin` and `Finish`, so there is nothing to check there; what is checked and proved is that `WorkQueue` keeps the contract.
Each of the other modules takes one shared
piece of Rancher's state, with every actor that writes it, and keeps the rest abstract. What one
module takes for granted another checks: `AgentInstall`, `AppCleanup` and `ClusterAttributes` cut
the one `Reconcile` of `ServiceHandler` at the calls that matter to them, and may be read side by side,
because the parts they add write to different objects or fields.

**WorkQueue.** `queue`, `dirty`, `processing` are the three fields of the client-go
queue, `delayed` its waiting heap without the times, `failures` the rate limiter's
counters, capped at `MaxFailures` as the backoff they select is. A worker goes through
`starting`, `getting`, `reconciling`, `handling` (before `handleErr`), `finishing` (before
the deferred `Done`) and ends as `quit`, or as `skipped` when the context was done before its
goroutine ran. What `Reconcile` answers is `ok`, `wait` (one of the two errors given
to `NewHandler`) or `error`. `unseen` and `last` are history variables for the properties.
`Cancel` is the cluster reconciler cancelling the peer, `ShutDown` the deferred call of
`Start`. The client-go operations are external, modelled from their documented use here.

**ServiceHandler.** `phase` is the truth in the host cluster, `seen` what the informer's
cache holds (its events of one key keep their order), `pending` the items owed by the
queue, `at`/`item`/`svc`/`name` the workers between the calls of one `Reconcile`, and
`clusters` the provisioning clusters in Rancher; the management cluster is the field
`managed` of its provisioning cluster, since Rancher creates and removes them together. A
`Reconcile` is cut at every call to an API that another actor can come between: `Begin`
(cache read), `CleanupLookup`, `CleanupDelete`, `DeployLookup`, `DeployCreate`,
`DeployResources`. `ApiError` ends any of them with an error. An item is its UID, because a UID
has one key; `Earlier` says which UIDs are former services of the same key. Names
are abstract: `NamesOf[u]` is the set `getProvisioningClusterName` can lead to, several with
`generateName`. `ForeignImport` is the handler of a second registration of this host, whose
default names begin with another cluster name, and which skips the services that this one skips (`ForeignAssumption`).
Of the other registration only the imports are modelled, not its clean-ups and its stale check. Whether a
service is skipped, and its name, stay as they are for its UID. `SyncStaleResources` is one step, although
the code lists and then deletes, because a UID that is gone stays gone. `Restart` loses
everything but the two APIs. There is one operator process. Leader election is off unless a flag turns it on (`cmd/main.go:72`), and the chart
passes none, so during a rolling update two pods run. What keeps the older one from writing to Rancher is only that the new one has replaced the
token it authenticates with (`Token`); `OneClusterEach` in particular, a look-up and a create by one process, rests on that.

**AgentInstall.** `rancher[s]` is how far Rancher is with the cluster of `s` (management
cluster, `default-token`, the command in its status), `secret` and `ready` are the vCluster's
kubeconfig secret and the provisioning cluster's `status.ready`, `jobs` the install jobs of the host
cluster with what the handler's loop can tell apart of their status, `strays` the
pods of deleted jobs (a job deleted without a propagation policy orphans its pods), `agent` the
services with an agent pod. `call[s]` is the one `Reconcile` a service has at a time, cut at
every API call that reads or writes what is modelled here: `getRancherResources` is `GetManagementCluster`, `GetToken` and `GetSecret`, between which
Rancher and the vCluster go on. (Its patches of the management cluster are in `AppCleanup` and `ClusterAttributes`.) It keeps what it has read: the provisioning cluster's readiness, the command, and the
jobs it still has to delete. This is `DeployResources` of `ServiceHandler` in detail: that action's two
outcomes, done or asking for a retry, are those of `Return` here. A
job without a command fails, because its script ends in `&&`. `backoffLimit`
is cut from six to one.

**HostPeers.** One `Reconcile` per cluster (`call[c]`) goes through the stale check, in three steps
(`CheckPeer`, `ListServices`, `DeleteStale`), and then starts the informer if the cluster was ready when it was read
(`Install`); the calls of different clusters run at once and share `peers`. `informers[c]` counts what runs uncancelled, `draining` are the
handlers whose peer was cancelled while their queue was not empty: they got the reconciler's context, not the peer's, so they go on
creating and removing clusters. A vCluster's cluster is an ordinary management cluster, so it is watched too, and its own vClusters
go by the same rules. Names of management clusters are not used twice. The joined errors of all parts become one retry.

**AppCleanup.** One management cluster, with its deletion mark, label and finalizers: `fin` entries of the app's and `own` for Rancher's.
`HandlerRead`/`HandlerPatch` are the handler's read, change and merge patch, `CleanupBegin`, `Uninstall` and `RemoveFinalizer` those of
`SyncCleanup`. An uninstall that was accepted is run by Rancher's Helm operation, which may fail (`HelmFails`); the code does not wait for it.
`Patched` is what a merge patch does without an optimistic lock: a changed list replaces the whole list, a label is
set on its own. `Accepts` is the API server's rule that a deleted object takes no new finalizer.

**RancherRBAC.** `bindings` are the role template bindings of projects and hosts, `owners[c]` the operator's own
bindings in the cluster. `call[c]` is cut at every API call; it keeps the bindings still to grant, the users found, and those still to
revoke. The loop goes through the bindings in any order. `events` are watch events on their way to the map functions, which may drop them.
Looking a user's binding up and creating it is one step (`Grant`), because nobody else creates it: two calls of one
cluster never run at once.

**Token.** `tokens` is the set of pods whose secret is that of the token object in Rancher: the object has a fixed name, so there is at most one. `at[p]` is
the process of a pod, in one of the four calls of `GetToken`, waiting for its restart, or running. `alone` remembers whether another `GetToken`
ran during or after that of `p`. No leader is elected (see `ServiceHandler`), so a pod's controllers run as soon as it has its token.

**ClusterAttributes.** Names are their lengths, at the limits of `getProvisioningClusterName` and of the API server (63 characters, five of which it
adds to a prefix); labels are maps from keys to values, with keys included by name or prefix, excluded, or neither; `Merged` is the merge patch.
The provisioning and the management cluster are one here, so the create and the label patch are in successive calls.
What `LoadConfigFromEnv` reads are its constants.

The handler reads Rancher through the manager's client with unstructured objects, which
controller-runtime does not cache, so those reads are current.

## Runs

| Run | Instance | Shows |
|---|---|---|
| `work_queue` | 2 items, 2 workers, 1 failure, fair | exclusion, no event or retry lost, the backoff follows the last answer, the contract; every event and retry is served, cancelling ends the workers |
| `handler_safety` | 2 services, one with a generated name that another registration may import as well, one skipped; 2 workers, 3 faults of any kind | the handler implements `ClusterLife`; one cluster each, live and foreign clusters spared, imports and clean-ups owed |
| `handler_liveness` | a service and its re-creation with the same name, 1 fault, fair | orphans removed, services imported, in the end |
| `agent` | 1 vCluster, 2 jobs at a time, 1 API failure, 1 removal of the agent, fair | jobs made of complete data; the agent is installed, and again after its removal; the operator comes to rest |
| `agent_shared` | 2 vClusters in one namespace, 1 job name, no faults, fair | only failed jobs deleted, whoever deletes them; the two do not block each other: the namespace gets an agent |
| `rbac` | 1 cluster, a user with a binding in its project and one in its host, a group's binding, each fault once, fair | owners are who they should be once all is handled; what stays is granted, what is gone is revoked unless the sync is blocked |
| `app_cleanup` | 1 cluster, each fault once, fair | no finalizer without label, none released before an uninstall was accepted and no release forgotten, deleted clusters go |
| `token` | 3 pods, 2 at a time, fair | an undisturbed process has a valid token; the last pod comes up |
| `attributes` | 2 services, 1 workspace, 3 labels, 3 edits, fair | names fit; other labels kept, included ones follow; clusters get created |
| `peers` | 1 host, 1 vCluster in it that is watched too, 2 faults, fair | one informer per peer and none left behind, no change of a cluster forgotten; live services kept; orphans go |
| `rbac_revoked` | a user's binding and a group's, no faults, fair | **violated**: see below |
| `app_kept` | as `app_cleanup`, only the annotation changes | **violated**: see below |

Further configurations, for instances that answer a narrower question, or show what happens outside the conditions above:

| Configuration (module) | Instance | Result |
|---|---|---|
| `HandlerRecreated` (`MCServiceHandler`) | a service and its re-creation with different names | passes: `TypeOK`, `ImportOwed`, `DeleteOnlyGone` |
| `AgentSafety` (`MCAgentInstall`) | as `agent_shared`, with a failing call | passes: `TypeOK`, `WaitedForAll`, `SparesHealthyJobs` |
| `HandlerReusedName` (`MCServiceHandler`) | no faults, one name | `DeleteOnlyGone` violated |
| `HandlerTwoClusters` (`MCServiceHandler`) | re-creation with generated names | `OneClusterEach` violated |
| `HandlerCollision` (`MCServiceHandler`) | 2 services, one name, fair | `ImportedInTheEnd` violated |
| `AgentRedeploy` (`MCAgentInstall`) | the agent is removed once | `RedeployHasCommand` violated |
| `AgentTwoJobs` (`MCAgentInstall`) | no faults | `OneInstaller` violated |
| `AgentSameNamespace` (`MCAgentInstall`) | 2 vClusters, one namespace, fair | `InstalledInTheEnd` violated |
| `FinalizerOnce` (`AppCleanup`) | as `app_cleanup` | `FinalizerOnce` violated |
| `TokenOverlap` (`Token`) | as `token` | `LastPodAuthenticated` violated |
| `PeersCancelled` (`MCHostPeers`) | as `peers`, no faults | `StoppedWithPeer` violated |
| `PeersOrphans` (`MCHostPeers`) | as `peers`, no faults | `OrphansGoInTheEnd` violated |

The bounds. Two workers are enough for every race on one item, because the model's
conflicts are between pairs; with two items a worker can be busy while the other item waits.
The failure counter only selects the
backoff, which is abstract, so a ceiling of one failure tells all there is: cleared or not. One fault at a time suffices because
each fault is followed by every interleaving with the other actors; `handler_safety`
allows three. Two services are the least with a re-creation or a collision.
For the agent, two services in one namespace are what it takes to confuse their jobs (`agent_shared`), and `agent` has the second job that a missing
status leads to. Job names are generated, so a name is not given to a new job while a call holds it from an old list (`Unused`): this is why no
call deletes a job by the name of an older one, and `SparesHealthyJobs` is about whose jobs a call takes, and in which state, across list and delete. When all of `Jobs` exist the model's handler waits to create another.
`CHECK_DEADLOCK FALSE` is set for `ServiceHandler` because the system may really come to rest: all services
gone, nothing pending, the fault budget spent. The other runs set it as well where everything may come to rest, for good or until a resync.

`Faults` (`RancherRBAC`, `AppCleanup`) names what may happen once in a behaviour, at any moment: an error or lost answer, a dropped
trigger, a restart, a change of mind of a user. `MaxFinalizers` cuts the number of entries at two: one more tells the loops that remove one entry
nothing new. `MaxFaults` and `MaxEdits` count failures, restarts and edits together, so that any mixture of two, or three, of them occurs.
`Labelled` lets one of two services have its labels changed, because labels of different services never meet. Three pods are an update
and one more after it, or a roll-back. In `peers` the host and the vCluster are both watched; a third level adds nothing
to the pairs of a host and its vCluster, and the proofs cover any depth. `attributes` has `fleet.autoCreateWorkspace` on: without it the
`Missing` branch only returns an error, and a cluster waits for an administrator.

`CleanupOwed` excepts restarts, since a restart does forget clean-ups; that
orphans go all the same, by the stale check, is `OrphansRemoved`. `CleanupOwed` and `OneClusterEach` are
checked without re-creation: a relist that sees the re-created service in the old one's place reports no deletion,
and the old cluster is again left to the stale check. When both registrations import one service, the clean-up deletes the cluster it
finds first and may leave the other to the stale check; `CleanupOwed` therefore says nothing of a step that is taken while the service has a cluster of the other registration; in `handler_safety` its unskipped
service has one in some behaviours and none in others.
`DeleteOnlyGone` and `ClusterLife` are checked with names that a re-created service does not
share. Beyond these limits the code breaks `DeleteOnlyGone` and `OneClusterEach`, as `HandlerReusedName` and `HandlerTwoClusters` show.

`TypeOK` is an invariant of one run, `app_cleanup`, where it bounds the finalizer entries; the other types
are proved (`TypeCorrect`).

Definitions whose comment begins with "Mutant of" are faulty versions of the definition they precede;
`PROJECT.json` pairs each with the property that notices it. No specification uses them.

### Fairness

Nothing is assumed of events, services, cancellation or faults. `WorkQueue`: goroutines run,
`Reconcile` returns, timers fire, `Start` reaches its deferred call. `ServiceHandler`:
the informer starts, lists, watches and resyncs (its resync period is an hour), API calls
return, Rancher creates and removes what it was asked to, and every management cluster is
reconciled again by the manager's periodic resync (ten hours by default). A pending item is begun under strong
fairness: other items may occupy the workers again and again, but the queue is a FIFO, which
is what `WorkServed` checks of `WorkQueue`. `AgentInstall`: the same of the handler,
the hourly resync, Rancher, the job controller and the vCluster do their part, and the install command,
run in job after job, succeeds at some time (strong fairness of `PodSucceeds`); that is the one assumption
about the world rather than the scheduling, and nothing could be installed without it.
`RancherRBAC` and `HostPeers`: the controller's workers run, calls return, watch events are delivered or dropped, and the resync comes again
and again; nothing is assumed of hosts, readiness or bindings, so what depends on them is a premise of the property
(`<>[]` in `WatchFollows`, `StaleGoInTheEnd`, `GrantedInTheEnd`, `RevokedUnlessBlocked`). `AppCleanup`: the same, the Helm operation ends
and Rancher releases its own finalizer. `Token`: the kubelet restarts what exits and Helm creates the user. `ClusterAttributes`:
every service is reconciled again, by retry or resync.

### Where the code and its documentation differ

* `HandlerReusedName`: a worker looks a deleted service's cluster up and pauses. The stale
  check deletes that cluster, Rancher removes it, the service is re-created and its new
  cluster gets the same default name. The worker's delete, by name and without a UID
  precondition (`handler.go:103`), takes the live service's cluster. The next resync
  imports the service again.
* `rbac_revoked`: one binding without a user name (of a group, say), or a project that is gone, ends `SyncRancherRBAC` before it removes
  anybody, so users whose binding was deleted remain owners for as long as that lasts. Granting goes on meanwhile, except without the project.
* `app_kept`: taking the annotation off removes the finalizer, not the label, and `SyncCleanup` looks at the label
  first: the app is uninstalled although nothing asks for it.
* `HandlerTwoClusters`: after a re-creation the items (key, old UID) and (key, new UID) are
  different for the queue, but `Reconcile` acts for the service the cache has under the
  key. Two workers can create a cluster for it, and with a name prefix both succeed.
* `HandlerCollision`: `AlreadyExists` is treated as success (`handler.go:157`). Right after a
  lost answer, but when another service has the name this service waits for ever for a management
  cluster with its UID.
* `AgentRedeploy`: for a ready cluster `getRancherResources` returns an empty token, so the job meant to
  bring a lost agent back has no command. Only when Rancher takes `ready` back does the repair work, which is
  why `InstalledInTheEnd` still holds. (A token that exists but has no status yet leads to such a job as well.)
* `AgentTwoJobs`: a job without a status is passed over by the loop and a second one created; and a job that
  has retries left counts as failed while its next pod runs.
* `AgentSameNamespace`: pods are listed by namespace and label, so the second vCluster of a namespace never gets an agent.
  What holds there is `NamespaceServed`: one of them does.
* `FinalizerOnce`: every pass of the handler appends another entry (`handler.go:200`). It does no harm in the end: `GoneInTheEnd`.
* `TokenOverlap`: a new pod deletes the token of the old one, which is what ends the old one's work during an update. When the new pod is
  taken back, or dies before it has a token, the old one goes on with a token that is no longer there, and nothing makes it ask for
  another: hence the exception `~alone[p]` in `LastPodServes`.
* `PeersCancelled`: the handler of a host is given the reconciler's context, not the one that is cancelled with the peer (`cluster_controller.go:171`),
  so a `Reconcile` of a service that runs then creates its cluster after the host was given up.
* `PeersOrphans`: a vCluster's cluster stays for ever when its host was removed from Rancher first, since the stale check needs the host's
  peer; `PeersCancelled` is one way such a cluster comes about.

Small ones, found while reading: `cluster_controller.go:243` names the roles "cluster-member" and "cluster-project", the code asks for
`cluster-owner` (line 296); the README's line 89 names `helm.sh/chart` as never synced, which is not in the lists of `handler.go:32-35`; the README's lines 141-142 say a token is created
"if needed", while `GetToken` always makes a new one; a label that the service has with an empty value is deleted from the cluster, not set.
`GrantedInTheEnd` speaks of one binding that stays: a user who always has some binding, but not the same one, may miss both lists,
which are read one after the other.

## Proofs

The theorems hold for all values of the constants under the assumptions
stated as ASSUMEs in the modules.

**WorkQueue.** `IInv` is `TypeOK /\ QueueConsistent /\ ItemExclusive`. Exclusion is not inductive on its own: it needs
that the FIFO holds exactly the dirty items that nobody processes, without
duplicates, and that `processing` is what the workers hold. With it, `Get` takes an
item nobody has, and `Done` may push its item again. `TypeCorrect` and `Exclusive` follow, and `Drained` proves `DrainedOnQuit` from one
more fact (`QuitOK`): once a worker has quit the queue takes no more events, and a worker that is still running stands behind whatever is in the FIFO, since the one that pushes an item back comes to `Get` itself;
`EventsKept` and `RetriesKept` are induction on top of it, the second with
`RetryArmed`, which says that between `handleErr` and `Done` the retry is already dirty or on a
timer. `BackoffFollows` proves `BackoffForErrors`, that an item nobody holds has counted failures just when its last answer was an error: `BackoffOK`
carries it through the worker's places, and `RetryCounts` says what `handleErr` does with each answer. `KeepsContract` proves the refinement: owed is the dirty set, and the armed timers
until shutdown.

**ServiceHandler.** `IInv` adds to the types what the workers hold (`WorkersOK`), that the
cache never runs ahead of the host cluster (`CacheOK`), that a worker cleans up only
for a service that is leaving and by a name of that service (`CleanupOK`), and that every
cluster has a name of its service (`NamesOK`). From it follows `LiveClustersSpared`, the action property
`DeleteOnlyGone`.

What a worker knows needs more, since it reads the cache once and Rancher once and acts later. `KInv` adds, each checked by TLC before it was proved:

| Part | Says | Needed because |
|---|---|---|
| `KeyOK` | a re-created service comes, in the host and in the cache, after its former ones went | the worker acts for the service under its item's key |
| `HeldOK` | what has changed in the cache since the worker's `Begin` is queued again | a worker that saw too little may still drop its item |
| `BegunOK`, `SkippedOK` | it acts only for a service that was there and is to be imported | `ClusterLife` creates for no other |
| `DeletingOK` | a cluster being deleted under an unshared name is that of a leaving service | an import waits for a cluster that is about to go |
| `LookupStillTrue` | from a worker's look-up to its create or delete nobody else makes a cluster of that service | look-up and write are two calls |
| `OneIfAlone` | a service without namesakes has one cluster | the clean-up deletes one cluster only |

A service is `Alone` when no other one has its namespace and name, `Unmistaken` when it is alone or its cluster has a fixed name.
The theorems are stated for one service first, with what that service needs and nothing about the others, and then for all:

| Theorem | Proves | Assumes, and why it must |
|---|---|---|
| `OwnNameSpared`, `LiveClustersSpared` | `DeleteOnlyGone` | a name is not shared (`HandlerReusedName`) |
| `OneClusterIfUnmistaken`, `OneCluster` | `OneClusterEach` | no re-creation, or no generated name (`HandlerTwoClusters`) |
| `ImportOwedIfOwnNames`, `ImportsOwed` | `ImportOwed` | names are not shared: another service's cluster answers `AlreadyExists` (`HandlerCollision`) |
| `CleanupOwedIfAlone`, `CleanupsOwed` | `CleanupOwed` | no re-creation (see the bounds); a second registration may import the service |
| `KeepsLife` | `ImplementsLife`, the refinement of `ClusterLife` | those of `LiveClustersSpared` and `OneCluster` |

`KeepsLife` maps a service's cluster to the state of whichever name holds it. Each step is a step of one service in `ClusterLife` or none: a create by
`LookupStillTrue` and `SkippedOK`, a delete by `StepSpared`, and no step changes two services' clusters.

**AgentInstall.** `IInv` adds to the types and `WaitedForAll` what the calls carry from one API call to the next: what a call
is about to delete had a failed pod and its name was not used again (`DoomedTried`), a command that was read came
with everything else that was waited for (`CommandRead`), and a finished job that did not succeed has a failed pod
(`OverTried`). `WaitsForAll` follows, and `HealthySpared`, the action property `SparesHealthyJobs`, whose delete and
expiry cases need `DoomedTried` and `OverTried`.

**HostPeers.** `OneInformer` is inductive with the types: the entry and the informer come and go in one step under the lock. `StaleOnly` needs `Judged`: what a
call has found out about a service stays true, since a UID does not come back; and `ServedFirst`, that a cluster is made only after its service was there,
so that a service that is missing from the list is gone, not still to come. `WatchNotForgotten` proves `WatchOwed`, that every change of a cluster which its peer does not show yet has a
`Reconcile` coming; that of a cluster that goes during its own `Reconcile` needs `GoneOwed`, since that call may still start an informer for it.

**AppCleanup.** `NeverStuck` has to be kept by patches made from old copies, so `IInv` says that every copy with the finalizer has the label
and that the label never goes (`CopiesOK`). `AppHeld` proves `HeldUntilUninstalled` from `CallsOK`, that `SyncCleanup` patches only once the uninstall was
accepted, and `AnnotationOK`: as long as the annotation was not changed the handler has seen it as it is, and without it no copy and no cluster ever had an entry. `ReleaseNotForgotten` proves `ReleaseOwed` from `CopyFresh`: a running `SyncCleanup` has the cluster as it is, or the change since is an event that
brings it back. So it may end without a retry only when its own copy says that nothing is left to release.

**RancherRBAC.** `OwnersCorrect` proves `OwnersFollow`. Its invariant says, for every point of a call, that what the call has read is still right, or
an event or a retry that concerns its cluster is still to come; so once nothing is to come the last call had read the
final bindings. It needs that nothing was dropped, as the property says.

**Token.** `TokenStaysValid`: while a pod is `alone` no other pod is inside `GetToken` (`AloneOK`), so nobody deletes its token. `TypeCorrect` includes that there is never
more than one token.

**ClusterAttributes.** `NamesFit` follows from the lemma `RequestedFits` on `getProvisioningClusterName`, for names of any length. `OtherLabelsKept` rests on `PatchKeepsOthers`: the merge patch of what
`syncLabels` returns leaves every other label as it is in Rancher, whatever the copy; and on `CreatesMissing`, that a create never replaces a cluster. `PatchSettles` states what one undisturbed patch does to the labels it does sync, and that the next one is empty.

Only model-checked: the liveness properties, because temporal reasoning under fairness is out of
the prover's reach. Every invariant and every action property of the passing runs is a theorem.

## Not modelled

* `SyncResourceLimits`: it copies a quota's figures into a status field for display. Neither the operator nor the rest of
  the model reads them, and Rancher writes the same field, by rules that are not in this repository. Its hazard, a write to a nil
  map when the status has no capacity yet, is listed in `PROJECT.json`.
* `LoadConfigFromEnv` and `parseHalves`: string splitting; the kubeconfig template of `pkg/token` and the endpoint of `pkg/rancher`.
* The length and alphabet of label values (the target-app label may be refused by the API server), and a namespace that moves to another project: the project is
  recorded when the cluster is created and not read again.
* Flags, TLS, metrics and probes in `cmd/main.go`, the Helm chart, the deployment files and the end-to-end tests: no state of the program.

What a next step could add: an abstract installation of the agent (missing, being installed, there) that `AgentInstall`
implements when every vCluster has its own namespace and its jobs have a status at once.
