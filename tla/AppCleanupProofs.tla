--------------------------- MODULE AppCleanupProofs ---------------------------
(* Theorems about AppCleanup, for any bound on the finalizers and any      *)
(* faults.                                                                 *)
EXTENDS AppCleanup, TLAPS

\* What a call keeps of the cluster: when it has entries it has the label, and a
\* label is never taken away.
CopyOK(copy) ==
  copy # None /\ cluster # None =>
    /\ copy.fin > 0 => copy.label
    /\ copy.label => cluster.label

CopiesOK == CopyOK(handler.copy) /\ CopyOK(cleanup.copy)

\* A call that patches has a copy, and SyncCleanup patches when the uninstall
\* action has been accepted.
CallsOK ==
  /\ handler.at = "read" => handler.copy # None
  /\ cleanup.at # "idle" => cleanup.copy # None
  /\ cleanup.at = "patch" => app # "installed"

\* As long as the annotation is not changed, the handler has seen it as it is,
\* and without it no cluster ever has an entry.
AnnotationOK ==
  "annotate" \notin happened =>
    /\ handler.at # "idle" => handler.annotated = annotated
    /\ ~annotated =>
         \A c \in {cluster, handler.copy, cleanup.copy} : c # None => c.fin = 0

IInv == TypeOK /\ NeverStuck /\ CopiesOK /\ CallsOK /\ AnnotationOK

\* The invariant holds in the initial states.
LEMMA InitInv == Init => IInv
<1> SUFFICES ASSUME Init PROVE IInv
    OBVIOUS
<1>1. TypeOK
  <2>1. cluster \in Cluster /\ app \in {"installed", "leaving", "failed", "gone"} /\ happened \subseteq Faults
        BY MaxAssumption DEF Init, Cluster
  <2>2. annotated \in BOOLEAN /\ ready \in BOOLEAN /\ due \in BOOLEAN
        BY DEF Init
  <2> QED
      BY <2>1, <2>2 DEF Init, TypeOK, NoHandler, NoCleanup
<1>2. NeverStuck /\ CopiesOK /\ CallsOK
      BY DEF Init, NeverStuck, CopiesOK, CopyOK, CallsOK, NoHandler, NoCleanup
<1>3. AnnotationOK
  <2>1. handler.at = "idle" /\ handler.copy = None /\ cleanup.copy = None /\ cluster.fin = 0
        BY DEF Init, NoHandler, NoCleanup
  <2> QED
      BY <2>1 DEF AnnotationOK
<1> QED
    BY <1>1, <1>2, <1>3 DEF IInv

\* A merge patch in terms of the list and the label.
LEMMA PatchedCluster ==
  ASSUME NEW copy \in Cluster, NEW new \in Cluster, cluster \in Cluster
  PROVE  /\ Patched(copy, new) \in Cluster
         /\ Patched(copy, new).fin \in {cluster.fin, new.fin}
         /\ new.fin # copy.fin => Patched(copy, new).fin = new.fin
         /\ Finalizers(new) = Finalizers(copy) => Patched(copy, new).fin = cluster.fin
         /\ Patched(copy, new).label = (cluster.label \/ new.label)
         /\ Patched(copy, new).deleting = cluster.deleting
<1>1. CASE Finalizers(new) = Finalizers(copy)
  <2>1. new.fin = copy.fin
        BY <1>1 DEF Finalizers
  <2> QED
      BY <1>1, <2>1 DEF Patched, Cluster
<1>2. CASE Finalizers(new) # Finalizers(copy)
      BY <1>2 DEF Patched, Cluster
<1> QED
    BY <1>1, <1>2

\* A change of the cluster that keeps what it is marked with.
LEMMA ClusterChanges ==
  ASSUME IInv, cluster # None, NEW c \in Cluster, Update(c),
         cluster.label => c.label,
         c.fin > 0 => c.label,
         "annotate" \notin happened /\ ~annotated => c.fin = 0
  PROVE  /\ cluster' \in Cluster \cup {None} /\ due' \in BOOLEAN
         /\ NeverStuck'
         /\ \A copy \in Cluster \cup {None} :
              CopyOK(copy) => (copy # None /\ cluster' # None =>
                                 (copy.fin > 0 => copy.label) /\ (copy.label => cluster'.label))
         /\ "annotate" \notin happened /\ ~annotated /\ cluster' # None => cluster'.fin = 0
<1>1. cluster' \in {c, None} /\ due' \in BOOLEAN
      BY DEF Update, Collected, IInv, TypeOK
<1> QED
    BY <1>1 DEF NeverStuck, CopyOK

\* What the handler writes.
LEMMA IntendedCluster ==
  ASSUME IInv, handler.at = "read", cluster # None
  PROVE  /\ handler.copy \in Cluster /\ Intended \in Cluster
         /\ Intended.fin = handler.copy.fin => Finalizers(Intended) = Finalizers(handler.copy)
         /\ Intended.fin > 0 => cluster.label \/ Intended.label
         /\ handler.annotated /\ Intended.fin # handler.copy.fin => Intended.fin > 0
         /\ "annotate" \notin happened /\ ~annotated => Intended.fin = 0
<1>1. handler.copy \in Cluster
      BY DEF IInv, TypeOK, CallsOK
<1>2. Appended(handler.copy.fin) \in 0..MaxFinalizers /\ Appended(handler.copy.fin) > 0
      BY <1>1, MaxAssumption DEF Appended, Cluster
<1>3. /\ Marked(handler.copy) \in Cluster 
      /\ Finalizers(Marked(handler.copy)) = <<handler.copy.own, Marked(handler.copy).fin>>
      /\ Marked(handler.copy).label
      /\ Marked(handler.copy).fin > 0
      BY <1>1, <1>2 DEF Marked, Cluster, Finalizers
<1>4. /\ Unmarked(handler.copy) \in Cluster 
      /\ Finalizers(Unmarked(handler.copy)) = <<handler.copy.own, Unmarked(handler.copy).fin>>
      /\ Unmarked(handler.copy).label = handler.copy.label
      /\ Unmarked(handler.copy).fin > 0 => handler.copy.fin > 0
      /\ handler.copy.fin = 0 => Unmarked(handler.copy).fin = 0
  <2>1. handler.copy.fin \in Nat /\ handler.copy.fin <= MaxFinalizers
        BY <1>1, MaxAssumption DEF Cluster
  <2>2. CASE handler.copy.fin = 0
        BY <1>1, <2>2 DEF Unmarked, Finalizers
  <2>3. CASE handler.copy.fin > 0
    <3>1. handler.copy.fin - 1 \in 0..MaxFinalizers
          BY <2>1, <2>3, MaxAssumption
    <3> QED
        BY <1>1, <2>3, <3>1 DEF Unmarked, Cluster, Finalizers
  <2> QED
      BY <2>1, <2>2, <2>3
<1>5. handler.copy.fin > 0 => handler.copy.label /\ cluster.label
      BY <1>1, NoneAssumption DEF IInv, CopiesOK, CopyOK
<1>6. "annotate" \notin happened /\ ~annotated => handler.copy.fin = 0 /\ ~handler.annotated
      BY <1>1, NoneAssumption DEF IInv, AnnotationOK
<1>7. CASE handler.ready
      BY <1>1, <1>5, <1>6, <1>7 DEF Intended
<1>8. CASE ~handler.ready /\ handler.annotated
      BY <1>1, <1>3, <1>6, <1>8 DEF Intended, Finalizers
<1>9. CASE ~handler.ready /\ ~handler.annotated
  <2>1. Intended = Unmarked(handler.copy)
        BY <1>9 DEF Intended
  <2>2. /\ Intended \in Cluster
        /\ Intended.fin = handler.copy.fin => Finalizers(Intended) = Finalizers(handler.copy)
        /\ Intended.fin > 0 => cluster.label
        BY <1>4, <1>5, <2>1 DEF Finalizers
  <2>3. "annotate" \notin happened /\ ~annotated => Intended.fin = 0
        BY <1>4, <1>6, <2>1
  <2> QED
      BY <1>1, <1>9, <2>2, <2>3
<1> QED
    BY <1>7, <1>8, <1>9

\* The handler reads: its copy is the cluster.
LEMMA HandlerReads ==
  ASSUME IInv, HandlerBegin \/ HandlerRead
  PROVE  IInv'
<1>1. UNCHANGED <<app, annotated, cluster, cleanup, happened>>
      BY DEF HandlerBegin, HandlerRead
<1>2. /\ handler' \in [at : {"idle", "begun", "read"}, annotated : BOOLEAN, ready : BOOLEAN,
                       copy : Cluster \cup {None}]
      /\ handler'.copy \in {None, handler.copy, cluster}
      /\ handler'.at = "read" => handler'.copy # None
      /\ handler'.at # "idle" => handler'.annotated \in {annotated, handler.annotated}
      /\ handler'.at # "idle" /\ handler.at = "idle" => handler'.annotated = annotated
  <2>1. CASE HandlerBegin
        BY <2>1 DEF HandlerBegin, IInv, TypeOK
  <2>2. CASE HandlerRead
        BY <2>2 DEF HandlerRead, NoHandler, IInv, TypeOK
  <2> QED
      BY <2>1, <2>2
<1>3. TypeOK' /\ NeverStuck'
      BY <1>1, <1>2 DEF HandlerBegin, HandlerRead, IInv, TypeOK, NeverStuck
<1>4. CopiesOK' /\ CallsOK'
      BY <1>1, <1>2 DEF IInv, CopiesOK, CopyOK, CallsOK, NeverStuck
<1>5. AnnotationOK'
      BY <1>1, <1>2 DEF IInv, AnnotationOK
<1> QED
    BY <1>3, <1>4, <1>5 DEF IInv

\* A call goes on as it is, or ends.
LEMMA CallTypes ==
  ASSUME TypeOK, handler' \in {handler, NoHandler}, cleanup' \in {cleanup, NoCleanup}
  PROVE  /\ handler' \in [at : {"idle", "begun", "read"}, annotated : BOOLEAN,
                          ready : BOOLEAN, copy : Cluster \cup {None}]
         /\ cleanup' \in [at : {"idle", "uninstall", "patch"}, copy : Cluster \cup {None}]
<1>1. NoHandler \in [at : {"idle", "begun", "read"}, annotated : BOOLEAN,
                     ready : BOOLEAN, copy : Cluster \cup {None}]
      BY DEF NoHandler
<1>2. NoCleanup \in [at : {"idle", "uninstall", "patch"}, copy : Cluster \cup {None}]
      BY DEF NoCleanup
<1> QED
    BY <1>1, <1>2, Zenon DEF TypeOK

\* The cluster changes to one that is marked as well; the calls go on with the
\* copies they have, or end.
LEMMA ChangeKeeps ==
  ASSUME IInv, cluster # None, NEW c \in Cluster, Update(c),
         cluster.label => c.label,
         c.fin > 0 => c.label,
         "annotate" \notin happened /\ ~annotated => c.fin = 0,
         UNCHANGED <<app, annotated, ready, happened>>,
         handler' \in {handler, NoHandler}, cleanup' \in {cleanup, NoCleanup}
  PROVE  IInv'
<1>1. /\ cluster' \in Cluster \cup {None} /\ due' \in BOOLEAN
      /\ NeverStuck'
      /\ \A copy \in Cluster \cup {None} :
           CopyOK(copy) => (copy # None /\ cluster' # None =>
                              (copy.fin > 0 => copy.label) /\ (copy.label => cluster'.label))
      /\ "annotate" \notin happened /\ ~annotated /\ cluster' # None => cluster'.fin = 0
      BY ClusterChanges
<1>2. /\ NoHandler.copy = None /\ NoHandler.at = "idle" /\ NoHandler.annotated = FALSE
      /\ NoHandler.ready = FALSE /\ NoCleanup.copy = None /\ NoCleanup.at = "idle"
      BY DEF NoHandler, NoCleanup
<1>3. TypeOK'
      BY <1>1, CallTypes DEF IInv, TypeOK
<1>4. CopiesOK'
      BY <1>1, <1>2 DEF IInv, TypeOK, CopiesOK, CopyOK
<1>5. CallsOK'
      BY <1>2 DEF IInv, CallsOK
<1>6. AnnotationOK'
      BY <1>1, <1>2 DEF IInv, AnnotationOK
<1> QED
    BY <1>1, <1>3, <1>4, <1>5, <1>6 DEF IInv

\* The cluster stays as it is, and the calls go on or end.
LEMMA NoChangeKeeps ==
  ASSUME IInv, UNCHANGED <<cluster, annotated>>, ready' \in BOOLEAN, due' \in BOOLEAN,
         happened \subseteq happened', happened' \subseteq Faults,
         handler' \in {handler, NoHandler}, cleanup' \in {cleanup, NoCleanup},
         app' \in {"installed", "leaving", "failed", "gone"}, app # "installed" => app' # "installed"
  PROVE  IInv'
<1>1. /\ NoHandler.copy = None /\ NoHandler.at = "idle" /\ NoHandler.annotated = FALSE
      /\ NoHandler.ready = FALSE /\ NoCleanup.copy = None /\ NoCleanup.at = "idle"
      BY DEF NoHandler, NoCleanup
<1>2. TypeOK' /\ NeverStuck'
      BY CallTypes DEF IInv, TypeOK, NeverStuck
<1>3. CopiesOK' /\ CallsOK'
      BY <1>1 DEF IInv, CopiesOK, CopyOK, CallsOK
<1>4. AnnotationOK'
      BY <1>1 DEF IInv, AnnotationOK
<1> QED
    BY <1>2, <1>3, <1>4 DEF IInv

\* The handler's patch: it marks, takes one entry off a marked list, or leaves
\* it as it is.
LEMMA HandlerPatches ==
  ASSUME IInv, HandlerPatch
  PROVE  IInv'
<1>1. CASE Accepts(handler.copy, Intended) /\ Update(Patched(handler.copy, Intended))
           /\ UNCHANGED happened
  <2> DEFINE c == Patched(handler.copy, Intended)
  <2>1. handler.at = "read" /\ cluster # None /\ cluster \in Cluster
        BY <1>1 DEF HandlerPatch, Accepts, IInv, TypeOK
  <2>2. /\ handler.copy \in Cluster /\ Intended \in Cluster
        /\ Intended.fin > 0 => cluster.label \/ Intended.label
        /\ "annotate" \notin happened /\ ~annotated => Intended.fin = 0 /\ cluster.fin = 0
        BY <2>1, IntendedCluster DEF IInv, AnnotationOK
  <2>3. /\ c \in Cluster /\ c.fin \in {cluster.fin, Intended.fin}
        /\ c.label = (cluster.label \/ Intended.label)
        BY <2>1, <2>2, PatchedCluster
  <2>4. c.fin > 0 => c.label
        BY <2>1, <2>2, <2>3 DEF IInv, NeverStuck
  <2> HIDE DEF c
  <2>5. Update(c) /\ handler' = NoHandler /\ UNCHANGED <<app, annotated, ready, happened, cleanup>>
        BY <1>1 DEF c, HandlerPatch
  <2> QED
      BY <2>1, <2>2, <2>3, <2>4, <2>5, ChangeKeeps
<1>2. CASE UNCHANGED <<cluster, due>>
      BY <1>2, NoChangeKeeps DEF HandlerPatch, IInv, TypeOK, Fault
<1> QED
    BY <1>1, <1>2 DEF HandlerPatch

\* SyncCleanup begins with a copy of the cluster and goes on to the patch when
\* the app is not installed any more.
LEMMA CleanupMoves ==
  ASSUME IInv, CleanupBegin \/ Uninstall
  PROVE  IInv'
<1>1. CASE CleanupBegin
  <2>1. CASE cluster # None /\ cluster.deleting /\ cluster.label
    <3>1. /\ cleanup' = [at |-> "uninstall", copy |-> cluster] /\ due' = FALSE
          /\ UNCHANGED <<app, annotated, ready, cluster, handler, happened>>
          BY <1>1, <2>1 DEF CleanupBegin
    <3>2. TypeOK'
          BY <2>1, <3>1 DEF IInv, TypeOK
    <3>3. NeverStuck' /\ CopiesOK' /\ CallsOK'
          BY <2>1, <3>1 DEF IInv, NeverStuck, CopiesOK, CopyOK, CallsOK
    <3>4. AnnotationOK'
          BY <2>1, <3>1 DEF IInv, AnnotationOK
    <3> QED
        BY <3>2, <3>3, <3>4 DEF IInv
  <2>2. CASE ~(cluster # None /\ cluster.deleting /\ cluster.label)
        BY <1>1, <2>2, NoChangeKeeps DEF CleanupBegin, IInv, TypeOK
  <2> QED
      BY <2>1, <2>2
<1>2. CASE Uninstall
  <2>1. app' \in {"leaving", "failed", "gone", app} /\ (app # "installed" => app' # "installed")
        BY <1>2 DEF Uninstall, HelmStarted, IInv, TypeOK
  <2>2. CASE Fails /\ Fault("post")
        BY <1>2, <2>1, <2>2, NoChangeKeeps DEF Uninstall, Fails, Fault, IInv, TypeOK
  <2>3. CASE /\ app' = HelmStarted
             /\ cleanup' = [cleanup EXCEPT !.at = "patch"]
             /\ UNCHANGED <<due, happened>>
    <3>1. /\ app' # "installed" /\ app' \in {"installed", "leaving", "failed", "gone"}
          /\ cleanup' \in [at : {"idle", "uninstall", "patch"}, copy : Cluster \cup {None}]
          /\ cleanup'.copy = cleanup.copy /\ cleanup'.at = "patch" /\ cleanup.at # "idle"
          BY <1>2, <2>3 DEF Uninstall, HelmStarted, IInv, TypeOK
    <3>2. UNCHANGED <<annotated, ready, cluster, handler, due, happened>>
          BY <1>2, <2>3 DEF Uninstall
    <3>3. TypeOK'
          BY <3>1, <3>2 DEF IInv, TypeOK
    <3>4. NeverStuck' /\ CopiesOK' /\ CallsOK'
          BY <3>1, <3>2 DEF IInv, NeverStuck, CopiesOK, CopyOK, CallsOK
    <3>5. AnnotationOK'
          BY <3>1, <3>2 DEF IInv, AnnotationOK
    <3> QED
        BY <3>3, <3>4, <3>5 DEF IInv
  <2> QED
      BY <1>2, <2>2, <2>3 DEF Uninstall
<1> QED
    BY <1>1, <1>2

\* SyncCleanup's patch takes an entry off a list of a marked cluster.
LEMMA RemovalKeeps ==
  ASSUME IInv, RemoveFinalizer
  PROVE  IInv'
<1>1. CASE /\ Held(cleanup.copy) /\ Accepts(cleanup.copy, Dropped(cleanup.copy))
           /\ Update(Patched(cleanup.copy, Dropped(cleanup.copy)))
           /\ cleanup' = NoCleanup /\ UNCHANGED happened
  <2> DEFINE new == Dropped(cleanup.copy)
             c == Patched(cleanup.copy, new)
  <2>1. cleanup.copy \in Cluster /\ cleanup.copy.fin > 0 /\ cluster # None /\ cluster \in Cluster
        BY <1>1 DEF RemoveFinalizer, Held, Accepts, IInv, TypeOK, CallsOK
  <2>2. cleanup.copy.label /\ cluster.label /\ ~("annotate" \notin happened /\ ~annotated)
        BY <2>1, NoneAssumption, MaxAssumption
        DEF IInv, CopiesOK, CopyOK, AnnotationOK, Cluster
  <2>3. new \in Cluster /\ new.label
    <3>1. cleanup.copy.fin - 1 \in 0..MaxFinalizers
          BY <2>1, MaxAssumption DEF Cluster
    <3> QED
        BY <2>1, <2>2, <3>1 DEF Dropped, Cluster
  <2> HIDE DEF new
  <2>4. c \in Cluster /\ c.label
        BY <2>1, <2>3, PatchedCluster
  <2>5. Update(c) /\ UNCHANGED <<app, annotated, ready, handler, happened>>
        BY <1>1 DEF new, RemoveFinalizer
  <2> HIDE DEF c
  <2> QED
      BY <1>1, <2>1, <2>2, <2>4, <2>5, ChangeKeeps
<1>2. CASE UNCHANGED cluster /\ cleanup' = NoCleanup /\ due' \in BOOLEAN
           /\ happened \subseteq happened' /\ happened' \subseteq Faults
      BY <1>2, NoChangeKeeps DEF RemoveFinalizer, IInv, TypeOK
<1> QED
    BY <1>1, <1>2 DEF RemoveFinalizer, Fails, Fault, IInv, TypeOK

\* Deletion and Rancher's own finalizer do not touch what the cluster is marked
\* with.
LEMMA ClusterMoves ==
  ASSUME IInv, HandlerCleanup \/ DeleteCluster \/ RancherHolds \/ RancherReleases
  PROVE  IInv'
<1>1. cluster # None /\ cluster \in Cluster
      /\ UNCHANGED <<app, annotated, ready, handler, cleanup, happened>>
      BY DEF HandlerCleanup, DeleteCluster, RancherHolds, RancherReleases, IInv, TypeOK
<1>2. PICK c \in Cluster : Update(c) /\ c.fin = cluster.fin /\ c.label = cluster.label
  <2>1. /\ [cluster EXCEPT !.deleting = TRUE] \in Cluster
        /\ [cluster EXCEPT !.own = TRUE] \in Cluster
        /\ [cluster EXCEPT !.own = FALSE] \in Cluster
        BY <1>1 DEF Cluster
  <2> QED
      BY <1>1, <2>1 DEF HandlerCleanup, DeleteCluster, RancherHolds, RancherReleases, Cluster
<1> QED
    BY <1>1, <1>2, ChangeKeeps DEF IInv, NeverStuck, AnnotationOK

\* Every step keeps the invariant.
LEMMA StepInv == IInv /\ [Next]_vars => IInv'
<1> SUFFICES ASSUME IInv, [Next]_vars PROVE IInv'
    OBVIOUS
<1>1. CASE Annotate
  <2>1. "annotate" \in happened'
        BY <1>1 DEF Annotate, Fault
  <2>2. TypeOK'
        BY <1>1 DEF Annotate, Fault, IInv, TypeOK
  <2>3. NeverStuck' /\ CopiesOK' /\ CallsOK'
        BY <1>1 DEF Annotate, IInv, NeverStuck, CopiesOK, CopyOK, CallsOK
  <2> QED
      BY <2>1, <2>2, <2>3 DEF IInv, AnnotationOK
<1>2. CASE Restart \/ RemoveApp \/ AppGoes \/ HelmFails \/ ReadyChanges \/ UNCHANGED vars
      BY <1>2, NoChangeKeeps
      DEF Restart, RemoveApp, AppGoes, HelmFails, ReadyChanges, vars, Fault, IInv, TypeOK
<1> QED
    BY <1>1, <1>2, HandlerReads, HandlerPatches, CleanupMoves, RemovalKeeps, ClusterMoves DEF Next

\* The invariant of every reachable state.
LEMMA Invariance == Spec => []IInv
<1> QED
    BY InitInv, StepInv, PTL DEF Spec

\* The variables keep their types: the number of finalizers never falls below
\* zero whoever overwrites whose list (cluster_controller.go, SyncCleanup).
THEOREM TypeCorrect == Spec => []TypeOK
<1>1. IInv => TypeOK
      BY DEF IInv
<1> QED
    BY <1>1, Invariance, PTL

\* A finalizer never comes without the label that SyncCleanup needs to remove it
\* (handler.go, getRancherResources; cluster_controller.go, SyncCleanup).
THEOREM NeverWithoutLabel == Spec => []NeverStuck
<1>1. IInv => NeverStuck
      BY DEF IInv
<1> QED
    BY <1>1, Invariance, PTL

\* Until Rancher has accepted the uninstall a deleted cluster keeps a finalizer
\* that it had: no stale copy takes the last one away, unless the annotation was
\* changed (handler.go, getRancherResources; cluster_controller.go, SyncCleanup).
THEOREM AppHeld == Spec => HeldUntilUninstalled
<1> DEFINE Holds == /\ cluster # None /\ cluster.deleting /\ cluster.fin > 0
                    /\ cluster' = None \/ cluster'.fin = 0
                    => app # "installed" \/ "annotate" \in happened
<1>1. IInv /\ [Next]_vars => [Holds]_vars
  <2> SUFFICES ASSUME IInv, Next, cluster # None, cluster.deleting, cluster.fin > 0,
                      cluster' = None \/ cluster'.fin = 0,
                      app = "installed", "annotate" \notin happened
               PROVE  FALSE
      OBVIOUS
  <2>1. cluster \in Cluster /\ cluster.fin \in Nat /\ annotated /\ cleanup.at # "patch"
        BY MaxAssumption DEF IInv, TypeOK, AnnotationOK, CallsOK, Cluster
  <2>2. cluster' # cluster
        BY <2>1
  <2>3. CASE HandlerPatch
    <3> DEFINE c == Patched(handler.copy, Intended)
    <3>1. handler.at = "read" /\ handler.annotated /\ Update(c)
          BY <2>1, <2>2, <2>3 DEF HandlerPatch, IInv, AnnotationOK
    <3>2. /\ handler.copy \in Cluster /\ Intended \in Cluster
          /\ Intended.fin = handler.copy.fin => Finalizers(Intended) = Finalizers(handler.copy)
          /\ Intended.fin # handler.copy.fin => Intended.fin > 0
          BY <3>1, IntendedCluster
    <3>3. c \in Cluster /\ c.fin > 0
      <4>1. CASE Intended.fin # handler.copy.fin
            BY <2>1, <3>2, <4>1, PatchedCluster
      <4>2. CASE Intended.fin = handler.copy.fin
        <5>1. Finalizers(Intended) = Finalizers(handler.copy)
              BY <3>2, <4>2
        <5>2. c \in Cluster /\ c.fin = cluster.fin
              BY <2>1, <3>2, <5>1, PatchedCluster
        <5> QED
            BY <2>1, <5>2
      <4> QED
          BY <4>1, <4>2
    <3> HIDE DEF c
    <3>4. cluster' = c
          BY <3>1, <3>3 DEF Update, Collected
    <3> QED
        BY <3>3, <3>4, NoneAssumption
  <2>4. CASE RancherReleases
    <3> DEFINE c == [cluster EXCEPT !.own = FALSE]
    <3>1. c.fin = cluster.fin /\ c \in Cluster /\ Update(c)
          BY <2>1, <2>4 DEF RancherReleases, Cluster
    <3> HIDE DEF c
    <3>2. cluster' = c
          BY <2>1, <3>1 DEF Update, Collected
    <3> QED
        BY <2>1, <3>1, <3>2, NoneAssumption
  <2> QED
      BY <2>1, <2>2, <2>3, <2>4
      DEF Next, HandlerBegin, HandlerRead, HandlerCleanup, CleanupBegin, Uninstall,
          RemoveFinalizer, Restart, DeleteCluster, Annotate, RemoveApp, AppGoes, HelmFails, ReadyChanges,
          RancherHolds
<1> QED
    BY <1>1, Invariance, PTL DEF Spec, HeldUntilUninstalled

\* While nothing is owed, SyncCleanup works on the cluster as it is.
CopyFresh == cleanup.at # "idle" => due \/ cleanup.copy = cluster

RInv == IInv /\ ReleaseOwed /\ CopyFresh

LEMMA InitOwed == Init => RInv
<1>1. Init => ReleaseOwed /\ CopyFresh
      BY DEF Init, ReleaseOwed, CopyFresh
<1> QED
    BY <1>1, InitInv DEF RInv

\* Whoever changes the cluster, the change is an event.
LEMMA UpdateOwed ==
  ASSUME RInv, NEW c, Update(c), UNCHANGED cleanup
  PROVE  ReleaseOwed' /\ CopyFresh'
<1>1. due' \/ (~due /\ cluster' = cluster)
      BY DEF Update
<1> QED
    BY <1>1 DEF RInv, ReleaseOwed, CopyFresh

LEMMA NoChangeOwed ==
  ASSUME RInv, UNCHANGED cluster, due => due', due' \/ UNCHANGED cleanup
  PROVE  ReleaseOwed' /\ CopyFresh'
BY DEF RInv, ReleaseOwed, CopyFresh

\* SyncCleanup looks at every deleted cluster with an entry: it has the label.
LEMMA BeginOwed ==
  ASSUME RInv, CleanupBegin
  PROVE  ReleaseOwed' /\ CopyFresh'
<1>1. CASE cluster # None /\ cluster.deleting /\ cluster.label
  <2>1. cleanup'.at = "uninstall" /\ cleanup'.copy = cluster /\ cluster' = cluster
        BY <1>1 DEF CleanupBegin
  <2> QED
      BY <2>1 DEF ReleaseOwed, CopyFresh
<1>2. CASE ~(cluster # None /\ cluster.deleting /\ cluster.label)
  <2>1. cleanup'.at = "idle" /\ cluster' = cluster
        BY <1>2 DEF CleanupBegin, NoCleanup
  <2> QED
      BY <1>2, <2>1 DEF RInv, IInv, NeverStuck, ReleaseOwed, CopyFresh
<1> QED
    BY <1>1, <1>2

\* An uninstall that fails is owed again.
LEMMA UninstallOwed ==
  ASSUME RInv, Uninstall
  PROVE  ReleaseOwed' /\ CopyFresh'
<1>1. CASE Fails
      BY <1>1, NoChangeOwed DEF Uninstall, Fails
<1>2. CASE cleanup' = [cleanup EXCEPT !.at = "patch"] /\ UNCHANGED due
  <2>1. cleanup'.at = "patch" /\ cleanup'.copy = cleanup.copy /\ cluster' = cluster
        BY <1>2 DEF Uninstall, RInv, IInv, TypeOK
  <2> QED
      BY <1>2, <2>1 DEF Uninstall, RInv, ReleaseOwed, CopyFresh
<1> QED
    BY <1>1, <1>2 DEF Uninstall

\* A removal that fails is owed again, and one that succeeds is a change unless
\* there has been another one.
LEMMA RemovalOwed ==
  ASSUME RInv, RemoveFinalizer
  PROVE  ReleaseOwed' /\ CopyFresh'
<1>1. cleanup.at = "patch" /\ cleanup.copy \in Cluster
      BY DEF RemoveFinalizer, RInv, IInv, TypeOK, CallsOK
<1>2. CASE /\ ~Held(cleanup.copy) \/ cluster = None
           /\ cleanup' = NoCleanup /\ UNCHANGED <<cluster, due, happened>>
  <2>1. cleanup'.at = "idle"
        BY <1>2 DEF NoCleanup
  <2> QED
      BY <1>1, <1>2, <2>1 DEF Held, RInv, ReleaseOwed, CopyFresh
<1>3. CASE Fails /\ UNCHANGED cluster
      BY <1>3, NoChangeOwed DEF Fails
<1>4. CASE /\ Held(cleanup.copy) /\ Accepts(cleanup.copy, Dropped(cleanup.copy))
           /\ Update(Patched(cleanup.copy, Dropped(cleanup.copy)))
           /\ cleanup' = NoCleanup
  <2> DEFINE new == Dropped(cleanup.copy)
             c == Patched(cleanup.copy, new)
  <2>1. cluster # None /\ cluster \in Cluster
        BY <1>4 DEF Accepts, RInv, IInv, TypeOK
  <2>2. new \in Cluster /\ new.fin # cleanup.copy.fin
    <3>1. /\ cleanup.copy.fin \in Nat /\ cleanup.copy.fin - 1 \in 0..MaxFinalizers
          /\ cleanup.copy.fin - 1 # cleanup.copy.fin
          BY <1>1, <1>4, MaxAssumption DEF Held, Cluster
    <3> QED
        BY <1>1, <3>1 DEF Dropped, Cluster
  <2> HIDE DEF new
  <2>3. c \in Cluster /\ c.fin = new.fin
        BY <1>1, <2>1, <2>2, PatchedCluster
  <2> HIDE DEF c
  <2>4. cluster' \in {c, None} /\ due' = (due \/ cluster' # cluster)
        BY <1>4 DEF Update, Collected, c, new
  <2>5. due'
        BY <1>1, <2>1, <2>2, <2>3, <2>4 DEF RInv, CopyFresh
  <2> QED
      BY <2>5 DEF ReleaseOwed, CopyFresh
<1> QED
    BY <1>2, <1>3, <1>4 DEF RemoveFinalizer

LEMMA StepOwed == RInv /\ [Next]_vars => RInv'
<1> SUFFICES ASSUME RInv, [Next]_vars PROVE ReleaseOwed' /\ CopyFresh'
    BY StepInv DEF RInv
<1>1. CASE /\ UNCHANGED cleanup
           /\ (\E c : Update(c)) \/ UNCHANGED <<cluster, due>>
      BY <1>1, UpdateOwed, NoChangeOwed
<1>2. CASE Restart
      BY <1>2, NoChangeOwed DEF Restart
<1> QED
    BY <1>1, <1>2, BeginOwed, UninstallOwed, RemovalOwed
    DEF Next, HandlerBegin, HandlerRead, HandlerPatch, HandlerCleanup, DeleteCluster, Annotate,
        RemoveApp, AppGoes, HelmFails, ReadyChanges, RancherHolds, RancherReleases, vars

\* A deleted cluster that holds the app's finalizer is not forgotten: whichever
\* call failed and whoever overwrote whose list, SyncCleanup runs or will run
\* (cluster_controller.go, SyncCleanup; handler.go, getRancherResources).
THEOREM ReleaseNotForgotten == Spec => []ReleaseOwed
<1>1. RInv => ReleaseOwed
      BY DEF RInv
<1> QED
    BY InitOwed, StepOwed, <1>1, PTL DEF Spec
=============================================================================
