-------------------------- MODULE ClusterAttributes --------------------------
(***************************************************************************)
(* What the annotations, the namespace and the labels of a service make of *)
(* its cluster in Rancher: its name, its Fleet workspace and its labels    *)
(* (ensureProvisioningCluster, ensureFleetWorkspace,                       *)
(* getProvisioningClusterName and syncLabels of pkg/services/handler.go),  *)
(* with the handlers of several services, Rancher and its users in between. *)
(* The provisioning cluster and its management cluster are one here.       *)
(***************************************************************************)
EXTENDS Naturals

CONSTANTS
  Services,
  Namings,                 \* Namings[s]: what the names of s can be made of
  Labelled,                \* bound: the services whose labels change
  Workspaces, Default,     \* Fleet workspaces, fleet.defaultWorkspace
  NoWorkspace,             \* the empty name
  Mapped,                  \* Mapped[s]: that of the project, or NoWorkspace
  AutoCreate,              \* fleet.autoCreateWorkspace
  Keys, Values, Absent,    \* labels; an empty value is as good as none
  Included, IncludedPrefix, \* keys that syncLabels.includeKeys has, or has a prefix of
  Excluded,                \* keys excluded by their name or a prefix
  MaxEdits                 \* bound: what Rancher and its users do

Naming == [custom : Nat, prefix : Nat, hyphen : BOOLEAN, default : Nat, cut : BOOLEAN]

ASSUME NamingsAssumption == \A s \in Services : Namings[s] \subseteq Naming
ASSUME WorkspaceAssumption ==
  /\ Default \in Workspaces /\ NoWorkspace \notin Workspaces
  /\ Mapped \in [Services -> Workspaces \cup {NoWorkspace}]
  /\ AutoCreate \in BOOLEAN
ASSUME LabelAssumption ==
  /\ Absent \notin Values /\ MaxEdits \in Nat
  /\ Included \cup IncludedPrefix \cup Excluded \subseteq Keys

VARIABLES
  naming,      \* naming[s]
  workspaces,  \* the Fleet workspaces that exist
  labels,      \* labels[s]: of the service
  clusters,    \* clusters[s]: the cluster of s
  call,        \* call[s]: the Reconcile of s
  edits

vars == <<naming, workspaces, labels, clusters, call, edits>>

Labels == [Keys -> Values \cup {Absent}]
NoLabels == [k \in Keys |-> Absent]
NoCluster == [exists |-> FALSE, length |-> 0, generated |-> FALSE, labels |-> NoLabels]
NoCall == [at |-> "idle", labels |-> NoLabels, copy |-> NoLabels]

TypeOK ==
  /\ \A s \in Services : naming[s] \in Namings[s]
  /\ workspaces \subseteq Workspaces
  /\ labels \in [Services -> Labels]
  /\ clusters \in [Services -> [exists : BOOLEAN, length : Nat, generated : BOOLEAN,
                                labels : Labels]]
  /\ call \in [Services -> [at : {"idle", "lookup", "workspace", "make", "create", "patch"},
                            labels : Labels, copy : Labels]]
  /\ edits \in 0 .. MaxEdits

Init ==
  /\ naming \in {n \in [Services -> UNION {Namings[s] : s \in Services}] :
                  \A s \in Services : n[s] \in Namings[s]}
  /\ workspaces = {}
  /\ labels = [s \in Services |-> NoLabels]
  /\ clusters = [s \in Services |-> NoCluster]
  /\ call = [s \in Services |-> NoCall]
  /\ edits = 0

-----------------------------------------------------------------------------
(* Rules                                                                   *)

\* Mutant of PrefixLimit: the hyphen that is added is not counted.
PrefixLimitEqual(n) == 58

PrefixLimit(n) == IF n.hyphen THEN 58 ELSE 57

\* getProvisioningClusterName refuses any other name or prefix, ...
Valid(n) == n.custom <= 63 /\ (n.custom = 0 => n.prefix <= PrefixLimit(n))

\* ... and has this one made; a generated name is its prefix and five characters
\* of the API server, which cuts a prefix of more than 58.
Requested(n) ==
  CASE n.custom > 0 ->
         [length |-> n.custom, generated |-> FALSE]
    [] n.custom = 0 /\ n.prefix > 0 ->
         [length |-> IF n.hyphen THEN n.prefix ELSE n.prefix + 1, generated |-> TRUE]
    [] n.custom = 0 /\ n.prefix = 0 /\ n.default <= 63 ->
         [length |-> n.default, generated |-> FALSE]
    [] OTHER ->
         [length |-> IF n.cut THEN 57 ELSE 58, generated |-> TRUE]

Target(s) == IF Mapped[s] # NoWorkspace THEN Mapped[s] ELSE Default

\* Mutant of Synced: only what the service has is looked at.
SyncedPresent(from, to) ==
  {k \in Included \cup IncludedPrefix : from[k] # Absent} \ Excluded

\* The keys that syncLabels writes: included as they are, or with a prefix and
\* on one of both.
Synced(from, to) ==
  (Included \cup {k \in IncludedPrefix : from[k] # Absent \/ to[k] # Absent}) \ Excluded

syncLabels(from, to) == [k \in Keys |-> IF k \in Synced(from, to) THEN from[k] ELSE to[k]]

\* Mutant of Merged: an update instead of a patch.
MergedWhole(now, copy, new) == new

\* A merge patch writes what differs from the copy.
Merged(now, copy, new) == [k \in Keys |-> IF new[k] = copy[k] THEN now[k] ELSE new[k]]

-----------------------------------------------------------------------------
(* One Reconcile of a service at a time                                    *)

Go(s, place) == call' = [call EXCEPT ![s].at = place]
Return(s) == call' = [call EXCEPT ![s] = NoCall]

\* At an event, a retry or a resync; the service is the cache's.
Begin(s) ==
  /\ call[s].at = "idle"
  /\ call' = [call EXCEPT ![s] = [NoCall EXCEPT !.at = "lookup", !.labels = labels[s]]]
  /\ UNCHANGED <<naming, workspaces, labels, clusters, edits>>

Lookup(s) ==
  /\ call[s].at = "lookup"
  /\ call' = [call EXCEPT ![s] =
                IF clusters[s].exists THEN [@ EXCEPT !.at = "patch", !.copy = clusters[s].labels]
                ELSE [@ EXCEPT !.at = "workspace"]]
  /\ UNCHANGED <<naming, workspaces, labels, clusters, edits>>

\* Mutant of Missing: a missing workspace is always an error.
MissingFails(s) == Return(s)

Missing(s) == IF AutoCreate THEN Go(s, "make") ELSE Return(s)

CheckWorkspace(s) ==
  /\ call[s].at = "workspace"
  /\ IF Target(s) \in workspaces THEN Go(s, "create") ELSE Missing(s)
  /\ UNCHANGED <<naming, workspaces, labels, clusters, edits>>

\* AlreadyExists is fine.
MakeWorkspace(s) ==
  /\ call[s].at = "make"
  /\ workspaces' = workspaces \cup {Target(s)}
  /\ Go(s, "create")
  /\ UNCHANGED <<naming, labels, clusters, edits>>

\* The name is checked before the call; the workspace is the namespace of the
\* cluster and must still be there.  What comes next waits for Rancher.
Create(s) ==
  /\ call[s].at = "create"
  /\ clusters' = IF Valid(naming[s]) /\ Target(s) \in workspaces
                 THEN [clusters EXCEPT ![s] =
                         [NoCluster EXCEPT !.exists = TRUE,
                                           !.length = Requested(naming[s]).length,
                                           !.generated = Requested(naming[s]).generated]]
                 ELSE clusters
  /\ Return(s)
  /\ UNCHANGED <<naming, workspaces, labels, edits>>

PatchLabels(s) ==
  /\ call[s].at = "patch"
  /\ clusters' = [clusters EXCEPT ![s].labels =
                    Merged(@, call[s].copy, syncLabels(call[s].labels, call[s].copy))]
  /\ Return(s)
  /\ UNCHANGED <<naming, workspaces, labels, edits>>

Step(s) ==
  Lookup(s) \/ CheckWorkspace(s) \/ MakeWorkspace(s) \/ Create(s) \/ PatchLabels(s)

-----------------------------------------------------------------------------
(* Rancher and its users                                                   *)

Edit == edits < MaxEdits /\ edits' = edits + 1

\* Any call may fail; the queue repeats the Reconcile.
ApiError(s) ==
  /\ call[s].at # "idle" /\ Edit
  /\ Return(s)
  /\ UNCHANGED <<naming, workspaces, labels, clusters>>

LabelService(s) ==
  /\ s \in Labelled /\ Edit
  /\ \E k \in Keys, v \in Values \cup {Absent} : labels' = [labels EXCEPT ![s][k] = v]
  /\ UNCHANGED <<naming, workspaces, clusters, call>>

LabelCluster(s) ==
  /\ s \in Labelled /\ clusters[s].exists /\ Edit
  /\ \E k \in Keys, v \in Values \cup {Absent} : clusters' = [clusters EXCEPT ![s].labels[k] = v]
  /\ UNCHANGED <<naming, workspaces, labels, call>>

\* A workspace is removed while it has no cluster.
RemoveWorkspace(w) ==
  /\ w \in workspaces /\ \A s \in Services : clusters[s].exists => Target(s) # w
  /\ Edit
  /\ workspaces' = workspaces \ {w}
  /\ UNCHANGED <<naming, labels, clusters, call>>

Next ==
  \/ \E s \in Services :
       Begin(s) \/ Step(s) \/ ApiError(s) \/ LabelService(s) \/ LabelCluster(s)
  \/ \E w \in Workspaces : RemoveWorkspace(w)

Spec == Init /\ [][Next]_vars

\* The handler gets to every service again, by retry or resync, and calls return.
Fairness == \A s \in Services : WF_vars(Begin(s)) /\ WF_vars(Step(s))

FairSpec == Spec /\ Fairness

-----------------------------------------------------------------------------
(* Properties                                                              *)

\* A name, with what the API server adds, has no more than 63 characters, and
\* no prefix is cut, which would take its hyphen away.
NameFits ==
  \A s \in Services : clusters[s].exists =>
    clusters[s].length <= IF clusters[s].generated THEN 58 ELSE 63

\* What is not synced is never changed by the handler, also when it is changed
\* between the handler's read and its patch.
OthersKept ==
  [][edits' = edits =>
       \A s \in Services : clusters[s].exists =>
         \A k \in Excluded \cup (Keys \ (Included \cup IncludedPrefix)) :
           clusters'[s].labels[k] = clusters[s].labels[k]]_vars

\* In the end the included labels of a cluster are those of its service, also
\* those that the service has not or no longer.
LabelsFollow ==
  \A s \in Services :
    <>[](clusters[s].exists =>
           \A k \in (Included \cup IncludedPrefix) \ Excluded :
             clusters[s].labels[k] = labels[s][k])

\* With a valid name a service gets its cluster, whoever creates or removes its
\* workspace meanwhile, if workspaces are created on demand.
CreatedInTheEnd ==
  \A s \in Services : AutoCreate /\ Valid(naming[s]) => <>(clusters[s].exists)
=============================================================================
