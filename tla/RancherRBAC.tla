----------------------------- MODULE RancherRBAC -----------------------------
(***************************************************************************)
(* SyncRancherRBAC of internal/controller/clusters/cluster_controller.go   *)
(* and the two map functions that trigger it: the users with a role in the *)
(* project or the host cluster of a vCluster become owners of its cluster  *)
(* in Rancher.  A binding is a (project or cluster) role template binding; *)
(* an owner is the operator's own binding, named after the user.           *)
(***************************************************************************)
EXTENDS FiniteSets

CONSTANTS
  Clusters,            \* the management clusters of vClusters, with all labels
  ProjectOf, HostOf,   \* the project and the host cluster of each
  Bindings, Users,
  ScopeOf,             \* ScopeOf[b]: the project or host b is for
  UserOf, NoUser,      \* UserOf[b]: NoUser if b names a group
  Qualifying,          \* bindings whose role makes an owner
  Faults               \* what may happen once

Projects == {ProjectOf[c] : c \in Clusters}
Hosts    == {HostOf[c] : c \in Clusters}

ASSUME NoUserAssumption == NoUser \notin Users
ASSUME BindingAssumption ==
  /\ UserOf \in [Bindings -> Users \cup {NoUser}]
  /\ ScopeOf \in [Bindings -> Projects \cup Hosts]
  /\ Qualifying \subseteq Bindings
ASSUME ScopeAssumption == Projects \cap Hosts = {}

VARIABLES
  bindings,  \* the role template bindings in Rancher
  projects,  \* the projects that exist with the UID in the clusters' labels
  owners,    \* owners[c]: the users with the operator's binding in c
  events,    \* the bindings with a watch event that is not delivered yet
  pending,   \* the clusters a Reconcile is owed for
  call,      \* call[c]: the running SyncRancherRBAC
  happened   \* the faults so far

vars == <<bindings, projects, owners, events, pending, call, happened>>

\* todo: what is still to be granted (bindings) or revoked (users).
Call == [at : {"idle", "project", "list", "listHost", "grant", "listOwners", "revoke"},
         todo : SUBSET Bindings, owners : SUBSET Users, doomed : SUBSET Users,
         failed : BOOLEAN]
NoCall == [at |-> "idle", todo |-> {}, owners |-> {}, doomed |-> {}, failed |-> FALSE]

TypeOK ==
  /\ bindings \subseteq Bindings /\ events \subseteq Bindings
  /\ projects \subseteq Projects
  /\ owners \in [Clusters -> SUBSET Users]
  /\ pending \subseteq Clusters
  /\ call \in [Clusters -> Call]
  /\ happened \subseteq Faults

Init ==
  /\ bindings = {} /\ events = {} /\ pending = {}
  /\ projects = Projects
  /\ owners = [c \in Clusters |-> {}]
  /\ call = [c \in Clusters |-> NoCall]
  /\ happened = {}

Fault(kind) == kind \in Faults \ happened /\ happened' = happened \cup {kind}

Matching(scope) == {b \in bindings \cap Qualifying : ScopeOf[b] = scope}
Wanted(c) ==
  {UserOf[b] : b \in Matching(ProjectOf[c]) \cup Matching(HostOf[c])} \ {NoUser}

-----------------------------------------------------------------------------
(* SyncRancherRBAC                                                         *)

World == <<bindings, projects, events>>

\* Reconcile joins the errors and asks for a requeue.
Return(c, failed) ==
  /\ call' = [call EXCEPT ![c] = NoCall]
  /\ pending' = IF failed THEN pending \cup {c} ELSE pending

Proceed(c, next) == call' = [call EXCEPT ![c] = next] /\ UNCHANGED pending

\* controller-runtime runs one Reconcile per cluster at a time.
Begin(c) ==
  /\ call[c].at = "idle" /\ c \in pending
  /\ pending' = pending \ {c}
  /\ call' = [call EXCEPT ![c].at = "project"]
  /\ UNCHANGED <<World, owners, happened>>

GetProject(c) ==
  /\ call[c].at = "project"
  /\ \/ ProjectOf[c] \notin projects /\ Return(c, TRUE)
     \/ ProjectOf[c] \in projects /\ Proceed(c, [call[c] EXCEPT !.at = "list"])
  /\ UNCHANGED <<World, owners, happened>>

ListProjectBindings(c) ==
  /\ call[c].at = "list"
  /\ Proceed(c, [call[c] EXCEPT !.at = "listHost", !.todo = Matching(ProjectOf[c])])
  /\ UNCHANGED <<World, owners, happened>>

ListHostBindings(c) ==
  /\ call[c].at = "listHost"
  /\ Proceed(c, [call[c] EXCEPT !.at = "grant", !.todo = @ \cup Matching(HostOf[c])])
  /\ UNCHANGED <<World, owners, happened>>

Named(b) == UserOf[b] # NoUser

\* Mutant of Unnamed: a binding without a user ends the loop.
UnnamedEnds(c, b) == [call[c] EXCEPT !.todo = {}, !.failed = TRUE]

\* A binding without a user is an error; the loop goes on.
Unnamed(c, b) == [call[c] EXCEPT !.todo = @ \ {b}, !.failed = TRUE]

\* The binding in c is looked up and created if it is not there; the user is
\* an owner to be kept whatever becomes of these calls.
Grant(c) ==
  /\ call[c].at = "grant"
  /\ \E b \in call[c].todo :
       \/ /\ ~Named(b)
          /\ Proceed(c, Unnamed(c, b))
          /\ UNCHANGED <<owners, happened>>
       \/ /\ Named(b)
          /\ owners' = [owners EXCEPT ![c] = @ \cup {UserOf[b]}]
          /\ Proceed(c, [call[c] EXCEPT !.todo = @ \ {b}, !.owners = @ \cup {UserOf[b]}])
          /\ UNCHANGED happened
       \/ /\ Named(b) /\ Fault("error")
          /\ owners' \in {owners, [owners EXCEPT ![c] = @ \cup {UserOf[b]}]}
          /\ Proceed(c, [call[c] EXCEPT
               !.todo = @ \ {b}, !.owners = @ \cup {UserOf[b]}, !.failed = TRUE])
  /\ UNCHANGED World

\* Any error above and nothing is revoked.
EndGrant(c) ==
  /\ call[c].at = "grant" /\ call[c].todo = {}
  /\ \/ call[c].failed /\ Return(c, TRUE)
     \/ ~call[c].failed /\ Proceed(c, [call[c] EXCEPT !.at = "listOwners"])
  /\ UNCHANGED <<World, owners, happened>>

\* Mutant of Doomed: nobody is removed who has ever been an owner.
DoomedNever(c) == {}

Doomed(c) == owners[c] \ call[c].owners

ListOwners(c) ==
  /\ call[c].at = "listOwners"
  /\ Proceed(c, [call[c] EXCEPT !.at = "revoke", !.doomed = Doomed(c)])
  /\ UNCHANGED <<World, owners, happened>>

\* A binding that is gone already is fine.
Revoke(c) ==
  /\ call[c].at = "revoke"
  /\ \E u \in call[c].doomed :
       \/ /\ owners' = [owners EXCEPT ![c] = @ \ {u}]
          /\ Proceed(c, [call[c] EXCEPT !.doomed = @ \ {u}])
          /\ UNCHANGED happened
       \/ /\ Fault("error")
          /\ owners' \in {owners, [owners EXCEPT ![c] = @ \ {u}]}
          /\ Proceed(c, [call[c] EXCEPT !.doomed = @ \ {u}, !.failed = TRUE])
  /\ UNCHANGED World

EndRevoke(c) ==
  /\ call[c].at = "revoke" /\ call[c].doomed = {}
  /\ Return(c, call[c].failed)
  /\ UNCHANGED <<World, owners, happened>>

\* One of the reads fails.
ReadFails(c) ==
  /\ call[c].at \in {"project", "list", "listHost", "listOwners"}
  /\ Fault("error")
  /\ Return(c, TRUE)
  /\ UNCHANGED <<World, owners>>

Step(c) ==
  \/ GetProject(c) \/ ListProjectBindings(c) \/ ListHostBindings(c) \/ Grant(c)
  \/ EndGrant(c) \/ ListOwners(c) \/ Revoke(c) \/ EndRevoke(c)

-----------------------------------------------------------------------------
(* Triggers, and Rancher                                                   *)

\* Mutant of Related: only the bindings of projects trigger.
RelatedByProject(b) == {c \in Clusters : ScopeOf[b] = ProjectOf[c]}

\* clustersRelatedToTargetProject and clustersHostedByClusterTarget, which
\* cannot find the clusters of a project that is gone.
Related(b) ==
  {c \in Clusters :
     \/ ScopeOf[b] = ProjectOf[c] /\ ProjectOf[c] \in projects
     \/ ScopeOf[b] = HostOf[c]}

\* A map function that meets an error returns nothing, and nobody asks again.
Deliver(b) ==
  /\ b \in events
  /\ events' = events \ {b}
  /\ \/ pending' = pending \cup Related(b) /\ UNCHANGED happened
     \/ Fault("dropped") /\ UNCHANGED pending
  /\ UNCHANGED <<bindings, projects, owners, call>>

\* Events of the management cluster itself, and the manager's resync.
Resync(c) ==
  /\ pending' = pending \cup {c}
  /\ UNCHANGED <<World, owners, call, happened>>

AddBinding(b) ==
  /\ b \notin bindings /\ (ScopeOf[b] \in Projects => ScopeOf[b] \in projects)
  /\ bindings' = bindings \cup {b}
  /\ events' = events \cup {b}
  /\ UNCHANGED <<projects, owners, pending, call, happened>>

RemoveBinding(b) ==
  /\ b \in bindings
  /\ bindings' = bindings \ {b}
  /\ events' = events \cup {b}
  /\ UNCHANGED <<projects, owners, pending, call, happened>>

\* Its bindings go with it, one RemoveBinding each.
DeleteProject(p) ==
  /\ p \in projects
  /\ Fault("project")
  /\ projects' = projects \ {p}
  /\ UNCHANGED <<bindings, events, owners, pending, call>>

\* Somebody removes an owner in Rancher: an event of c as a host, not for c.
RemoveOwner(c, u) ==
  /\ u \in owners[c]
  /\ Fault("removed")
  /\ owners' = [owners EXCEPT ![c] = @ \ {u}]
  /\ UNCHANGED <<World, pending, call>>

\* After a restart every cluster and every binding is new to the watches.
Restart ==
  /\ Fault("restart")
  /\ call' = [c \in Clusters |-> NoCall]
  /\ pending' = Clusters /\ events' = bindings
  /\ UNCHANGED <<bindings, projects, owners>>

Next ==
  \/ \E c \in Clusters :
       \/ Begin(c) \/ Step(c) \/ ReadFails(c) \/ Resync(c)
       \/ \E u \in Users : RemoveOwner(c, u)
  \/ \E b \in Bindings : Deliver(b) \/ AddBinding(b) \/ RemoveBinding(b)
  \/ \E p \in Projects : DeleteProject(p)
  \/ Restart

Spec == Init /\ [][Next]_vars

\* The controller serves its queue, API calls return, watches deliver, and the
\* manager's resync comes again and again.
Fairness ==
  /\ \A c \in Clusters : WF_vars(Begin(c)) /\ WF_vars(Step(c)) /\ WF_vars(Resync(c))
  /\ \A b \in Bindings : WF_vars(Deliver(b))

FairSpec == Spec /\ Fairness

-----------------------------------------------------------------------------
(* Properties                                                              *)

\* The watches have nothing to say about c and no Reconcile is owed for it.
Settled(c) ==
  /\ c \notin pending
  /\ \A b \in events : ScopeOf[b] \notin {ProjectOf[c], HostOf[c]}

\* Once everything is handled the owners of a cluster are the users with a
\* binding that qualifies, however bindings came and went while SyncRancherRBAC
\* read its lists and acted on them, unless a trigger was dropped, somebody
\* removed an owner, or the project is gone.
OwnersFollow ==
  \A c \in Clusters :
    /\ Settled(c) /\ call[c].at = "idle"
    /\ happened \cap {"dropped", "removed"} = {} /\ ProjectOf[c] \in projects
    => owners[c] = Wanted(c)

\* A binding that stays makes its user an owner in the end, and the user stays
\* one, whatever fails and however other bindings come and go.
GrantedInTheEnd ==
  \A c \in Clusters, b \in Qualifying :
    /\ ScopeOf[b] \in {ProjectOf[c], HostOf[c]} /\ UserOf[b] # NoUser
    /\ <>[](b \in bindings /\ ProjectOf[c] \in projects)
    => <>[](UserOf[b] \in owners[c])

Blocked(c) ==
  \/ ProjectOf[c] \notin projects
  \/ \E b \in Matching(ProjectOf[c]) \cup Matching(HostOf[c]) : UserOf[b] = NoUser

\* A user without a binding is no owner in the end, unless SyncRancherRBAC is
\* stopped by a binding without a user or by the loss of the project.
RevokedUnlessBlocked ==
  \A c \in Clusters, u \in Users :
    <>[](u \notin Wanted(c) /\ ~Blocked(c)) => <>[](u \notin owners[c])

\* When the bindings of a user are deleted, the user is removed as an owner.
RevokedInTheEnd ==
  \A c \in Clusters, u \in Users :
    <>[](u \notin Wanted(c)) => <>[](u \notin owners[c])
=============================================================================
