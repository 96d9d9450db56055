--------------------------- MODULE HostPeersProofs ---------------------------
(* Theorems about HostPeers, for any clusters, vClusters in vClusters and  *)
(* faults.                                                                 *)
EXTENDS HostPeers, TLAPS

\* A vCluster has a cluster, or gets one, only once its service was there.
ServedFirst ==
  \A c \in vClusters : service[c] = "no" => exists[c] = "no" /\ c \notin creating

\* What a Reconcile has found out stays true: a service that is gone does not
\* come back.
Judged ==
  \A c \in Clusters :
    /\ call[c].at # "idle" => exists[c] # "no"
    /\ call[c].at \in {"list", "delete"} => c \in vClusters
    /\ call[c].at = "delete" => service[c] = "gone"

IInv == TypeOK /\ OneInformer /\ ServedFirst /\ Judged

LEMMA InitInv == Init => IInv
<1> SUFFICES ASSUME Init PROVE IInv
    OBVIOUS
<1>1. TypeOK
      BY FaultsAssumption DEF Init, TypeOK, NoCall
<1>2. OneInformer /\ ServedFirst /\ Judged
      BY DEF Init, OneInformer, ServedFirst, Judged, vClusters, NoCall
<1> QED
    BY <1>1, <1>2 DEF IInv

\* The count of faults stays within its bound.
LEMMA FaultsBounded ==
  ASSUME IInv, Fault \/ UNCHANGED faults
  PROVE  faults' \in 0 .. MaxFaults
BY FaultsAssumption DEF IInv, TypeOK, Fault

\* Reading the cluster, and cancelling the peer of one that is gone.
LEMMA BeginInv ==
  ASSUME IInv, NEW c \in Clusters, Begin(c)
  PROVE  IInv'
<1>1. /\ pending' = pending \ {c} /\ UNCHANGED <<world, creating, faults>>
      /\ call[c].at = "idle"
      BY DEF Begin
<1>2. CASE /\ exists[c] = "yes" /\ UNCHANGED watch
           /\ call' = [call EXCEPT ![c] = Begun(c)]
  <2>1. /\ Begun(c).at = "stale"
        /\ Begun(c) \in [at : {"idle", "stale", "list", "delete", "install"},
                     ready : BOOLEAN, failed : BOOLEAN]
    <3>1. \A b \in BOOLEAN :
            LET new == [NoCall EXCEPT !.at = "stale", !.ready = b]
            IN  /\ new.at = "stale"
                /\ new \in [at : {"idle", "stale", "list", "delete", "install"},
                            ready : BOOLEAN, failed : BOOLEAN]
          BY DEF NoCall
    <3>2. (c \in ready) \in BOOLEAN
          OBVIOUS
    <3> QED
        BY <3>1, <3>2, Zenon DEF Begun
  <2>2. TypeOK'
        BY <1>1, <1>2, <2>1 DEF IInv, TypeOK, world, watch
  <2>3. OneInformer' /\ ServedFirst'
        BY <1>1, <1>2 DEF IInv, OneInformer, ServedFirst, world, watch
  <2>4. Judged'
    <3>1. call'[c] = Begun(c) /\ \A d \in Clusters \ {c} : call'[d] = call[d]
          BY <1>2 DEF IInv, TypeOK
    <3> QED
        BY <1>1, <1>2, <2>1, <3>1 DEF IInv, Judged, vClusters, world
  <2> QED
      BY <2>2, <2>3, <2>4 DEF IInv
<1>3. CASE exists[c] # "yes" /\ Forgotten(c) /\ UNCHANGED call
  <2>1. TypeOK' /\ OneInformer'
    <3>1. CASE c \in peers
      <4>1. /\ peers' = peers \ {c} /\ draining' = draining \cup {c}
            /\ informers' = [informers EXCEPT ![c] = @ - 1]
            BY <1>3, <3>1 DEF Forgotten, Cancelled
      <4>2. informers[c] = 1
            BY <3>1 DEF IInv, OneInformer
      <4> QED
          BY <1>1, <1>3, <4>1, <4>2 DEF IInv, TypeOK, OneInformer, world
    <3>2. CASE c \notin peers
          BY <1>1, <1>3, <3>2 DEF Forgotten, IInv, TypeOK, OneInformer, world, watch
    <3> QED
        BY <3>1, <3>2
  <2>2. ServedFirst' /\ Judged'
        BY <1>1, <1>3 DEF IInv, ServedFirst, Judged, world
  <2> QED
      BY <2>1, <2>2 DEF IInv
<1> QED
    BY <1>2, <1>3 DEF Begin

\* The stale check and the start of the handler.
LEMMA StepInv ==
  ASSUME IInv, NEW c \in Clusters, Step(c)
  PROVE  IInv'
<1>1. faults' \in 0 .. MaxFaults
      BY FaultsBounded DEF Step, CheckPeer, ListServices, DeleteStale, Install
<1>2. CASE CheckPeer(c)
      BY <1>2 DEF CheckPeer, Go, HasInformer, IInv, TypeOK, OneInformer, ServedFirst,
                  Judged, world, watch
<1>3. CASE ListServices(c)
  <2>1. /\ UNCHANGED <<world, watch, creating, pending>> /\ call[c].at = "list"
        /\ \/ Go(c, "install") \/ Fails(c, "install")
           \/ Go(c, "delete") /\ service[c] # "yes"
        BY <1>3 DEF ListServices, ListFails
  <2>2. service[c] = "no" => FALSE
        BY <2>1 DEF IInv, ServedFirst, Judged
  <2>3. TypeOK'
        BY <1>1, <2>1 DEF Go, Fails, IInv, TypeOK, world, watch
  <2>4. OneInformer' /\ ServedFirst'
        BY <2>1 DEF IInv, OneInformer, ServedFirst, world, watch
  <2>5. Judged'
        BY <2>1, <2>2 DEF Go, Fails, IInv, TypeOK, Judged, world
  <2> QED
      BY <2>3, <2>4, <2>5 DEF IInv
<1>4. CASE DeleteStale(c)
  <2>1. /\ UNCHANGED <<ready, service, watch, creating>>
        /\ \/ Removed(c) \/ UNCHANGED <<exists, pending>>
        /\ Go(c, "install") \/ Fails(c, "install")
        BY <1>4 DEF DeleteStale
  <2>2. TypeOK'
        BY <1>1, <2>1 DEF Removed, Go, Fails, IInv, TypeOK, watch
  <2>3. OneInformer' /\ ServedFirst'
        BY <2>1 DEF Removed, IInv, TypeOK, OneInformer, ServedFirst, vClusters, watch
  <2>4. Judged'
    <3>1. \A d \in Clusters : exists[d] # "no" => exists'[d] # "no"
          BY <2>1 DEF Removed, IInv, TypeOK
    <3>2. call'[c].at = "install" /\ \A d \in Clusters \ {c} : call'[d] = call[d]
          BY <2>1 DEF Go, Fails, IInv, TypeOK
    <3>3. call[c].at = "delete"
          BY <1>4 DEF DeleteStale
    <3> QED
        BY <2>1, <3>1, <3>2, <3>3 DEF IInv, Judged, vClusters
  <2> QED
      BY <2>2, <2>3, <2>4 DEF IInv
<1>5. CASE Install(c)
  <2>1. /\ UNCHANGED <<world, creating>>
        /\ call' = [call EXCEPT ![c] = NoCall]
        /\ pending' \in {pending, pending \cup {c}}
        BY <1>5 DEF Install, Return
  <2>2. \/ UNCHANGED watch
        \/ /\ c \notin peers /\ peers' = peers \cup {c} /\ UNCHANGED draining
           /\ informers' = [informers EXCEPT ![c] = @ + 1]
        BY <1>5 DEF Install, Known, NotInstalled
  <2>3. TypeOK'
        BY <1>1, <2>1, <2>2 DEF IInv, TypeOK, NoCall, world, watch
  <2>4. OneInformer'
        BY <2>2 DEF IInv, TypeOK, OneInformer, watch
  <2>5. Judged'
    <3>1. call'[c] = NoCall /\ \A d \in Clusters \ {c} : call'[d] = call[d]
          BY <2>1 DEF IInv, TypeOK
    <3>2. call'[c].at = "idle"
          BY <3>1 DEF NoCall
    <3> QED
        BY <2>1, <3>1, <3>2 DEF IInv, Judged, vClusters, world
  <2>6. ServedFirst'
        BY <2>1 DEF IInv, ServedFirst, world
  <2> QED
      BY <2>3, <2>4, <2>5, <2>6 DEF IInv
<1> QED
    BY <1>2, <1>3, <1>4, <1>5 DEF Step

\* The handlers of the peers.
LEMMA HandlerInv ==
  ASSUME IInv, NEW c \in Clusters,
         HandlerBegin(c) \/ HandlerCreate(c) \/ HandlerCleanup(c) \/ DrainEnds(c)
  PROVE  IInv'
<1>1. CASE HandlerBegin(c)
      BY <1>1 DEF HandlerBegin, IInv, TypeOK, OneInformer, ServedFirst, Judged, world, watch
<1>2. CASE HandlerCreate(c)
      BY <1>2 DEF HandlerCreate, IInv, TypeOK, OneInformer, ServedFirst, Judged,
                  vClusters, watch
<1>3. CASE HandlerCleanup(c)
      BY <1>3 DEF HandlerCleanup, Removed, IInv, TypeOK, OneInformer, ServedFirst, Judged,
                  vClusters, watch
<1>4. CASE DrainEnds(c)
      BY <1>4 DEF DrainEnds, IInv, TypeOK, OneInformer, ServedFirst, Judged, world
<1> QED
    BY <1>1, <1>2, <1>3, <1>4

\* Rancher, its users, the manager's resync and restarts.
LEMMA RancherInv ==
  ASSUME IInv, NEW c \in Clusters,
         \/ Register(c) \/ RemoveCluster(c) \/ ReadyChanges(c) \/ Resync(c)
         \/ CreateService(c) \/ DeleteService(c)
  PROVE  IInv'
<1>1. CASE Register(c)
      BY <1>1 DEF Register, IInv, TypeOK, OneInformer, ServedFirst, Judged, vClusters, watch
<1>2. CASE RemoveCluster(c)
      BY <1>2 DEF RemoveCluster, Removed, IInv, TypeOK, OneInformer, ServedFirst, Judged,
                  vClusters, watch
<1>3. CASE ReadyChanges(c)
      BY <1>3 DEF ReadyChanges, IInv, TypeOK, OneInformer, ServedFirst, Judged, watch
<1>4. CASE Resync(c)
      BY <1>4 DEF Resync, IInv, TypeOK, OneInformer, ServedFirst, Judged, world, watch
<1>5. CASE CreateService(c)
      BY <1>5 DEF CreateService, IInv, TypeOK, OneInformer, ServedFirst, Judged, vClusters,
                  watch
<1>6. CASE DeleteService(c)
      BY <1>6 DEF DeleteService, IInv, TypeOK, OneInformer, ServedFirst, Judged, vClusters,
                  watch
<1> QED
    BY <1>1, <1>2, <1>3, <1>4, <1>5, <1>6

LEMMA RestartInv ==
  ASSUME IInv, Restart
  PROVE  IInv'
<1>1. faults' \in 0 .. MaxFaults
      BY FaultsBounded DEF Restart
<1>2. TypeOK'
      BY <1>1 DEF Restart, IInv, TypeOK, NoCall, world
<1>3. OneInformer' /\ ServedFirst' /\ Judged'
      BY DEF Restart, IInv, OneInformer, ServedFirst, Judged, NoCall, world
<1> QED
    BY <1>2, <1>3 DEF IInv

LEMMA NextInv == IInv /\ [Next]_vars => IInv'
<1> SUFFICES ASSUME IInv, [Next]_vars PROVE IInv'
    OBVIOUS
<1>1. CASE UNCHANGED vars
      BY <1>1 DEF vars, IInv, TypeOK, OneInformer, ServedFirst, Judged
<1>2. CASE Next
      BY <1>2, BeginInv, StepInv, HandlerInv, RancherInv, RestartInv DEF Next
<1> QED
    BY <1>1, <1>2

\* The invariant of every reachable state.
LEMMA Invariance == Spec => []IInv
BY InitInv, NextInv, PTL DEF Spec

\* The variables keep their types; no informer is cancelled twice
\* (cluster_controller.go, Reconcile).
THEOREM TypeCorrect == Spec => []TypeOK
<1>1. IInv => TypeOK
      BY DEF IInv
<1> QED
    BY <1>1, Invariance, PTL

\* A cluster with an entry in the peers map has one uncancelled informer and any
\* other has none (cluster_controller.go, Reconcile and
\* SyncvClusterInstallHandler).
THEOREM InformersMatchPeers == Spec => []OneInformer
<1>1. IInv => OneInformer
      BY DEF IInv
<1> QED
    BY <1>1, Invariance, PTL

\* The stale check only removes clusters whose service is gone
\* (cluster_controller.go, SyncStaleResources).
THEOREM LiveServicesKept == Spec => StaleOnly
<1>1. IInv /\ [Next]_vars =>
        [\A c \in Clusters :
           call[c].at = "delete" /\ exists[c] = "yes" /\ exists'[c] = "gone"
             /\ call'[c].at = "install"
           => service[c] = "gone"]_vars
      BY DEF IInv, Judged
<1> QED
    BY <1>1, Invariance, PTL DEF Spec, StaleOnly

\* A Reconcile of a cluster that went while it ran is owed again.
GoneOwed == \A c \in Clusters : exists[c] = "gone" /\ call[c].at # "idle" => c \in pending

WInv == IInv /\ WatchOwed /\ GoneOwed

LEMMA InitWatch == Init => WInv
<1>1. Init => WatchOwed /\ GoneOwed
      BY DEF Init, WatchOwed, GoneOwed
<1> QED
    BY <1>1, InitInv DEF WInv

\* An event, a retry or a resync only adds to what is owed.
LEMMA AddsToOwed ==
  ASSUME WInv, UNCHANGED <<exists, ready, peers, call>>, pending \subseteq pending'
  PROVE  WatchOwed' /\ GoneOwed'
BY DEF WInv, WatchOwed, GoneOwed

\* A cluster that changes is owed a Reconcile.
LEMMA ChangeOwed ==
  ASSUME WInv, NEW c \in Clusters, UNCHANGED <<peers, call>>,
         \A d \in Clusters \ {c} : exists'[d] = exists[d] /\ (d \in ready' <=> d \in ready),
         pending' = pending \cup {c}
  PROVE  WatchOwed' /\ GoneOwed'
<1>1. ASSUME NEW d \in Clusters, d # c
      PROVE  exists'[d] = exists[d] /\ (d \in ready' <=> d \in ready)
      BY <1>1
<1> QED
    BY <1>1 DEF WInv, WatchOwed, GoneOwed

\* A Reconcile begins: it has seen the cluster as it is.
LEMMA BeginWatch ==
  ASSUME WInv, NEW c \in Clusters, Begin(c)
  PROVE  WatchOwed' /\ GoneOwed'
<1> USE DEF WInv, IInv
<1>1. /\ pending' = pending \ {c} /\ UNCHANGED <<exists, ready>>
      /\ call[c].at = "idle"
      BY DEF Begin, world
<1>2. CASE /\ exists[c] = "yes" /\ UNCHANGED watch
           /\ call' = [call EXCEPT ![c] = Begun(c)]
  <2>1. Begun(c).at # "idle" /\ (c \in ready => Begun(c).ready)
    <3>1. \A b \in BOOLEAN : LET new == [NoCall EXCEPT !.at = "stale", !.ready = b]
                             IN  new.at # "idle" /\ (b => new.ready)
          BY DEF NoCall
    <3>2. (c \in ready) \in BOOLEAN
          OBVIOUS
    <3> QED
        BY <3>1, <3>2, Zenon DEF Begun
  <2>2. call'[c] = Begun(c) /\ \A d \in Clusters \ {c} : call'[d] = call[d]
        BY <1>2 DEF TypeOK
  <2>3. peers' = peers
        BY <1>2 DEF watch
  <2> QED
      BY <1>1, <1>2, <2>1, <2>2, <2>3 DEF WatchOwed, GoneOwed
<1>3. CASE exists[c] # "yes" /\ Forgotten(c) /\ UNCHANGED call
  <2>1. peers' = peers \ {c}
        BY <1>3 DEF Forgotten, watch
  <2> QED
      BY <1>1, <1>3, <2>1 DEF WatchOwed, GoneOwed
<1> QED
    BY <1>2, <1>3 DEF Begin

\* What a call has read stays while it moves on.
LEMMA MovedOn ==
  ASSUME TypeOK, NEW c \in Clusters, NEW place \in {"list", "install", "delete"},
         call[c].at # "idle", Go(c, place) \/ Fails(c, place), NEW d \in Clusters
  PROVE  /\ call'[d].ready <=> call[d].ready
         /\ call'[d].at # "idle" <=> call[d].at # "idle"
<1>1. CASE d = c
  <2>1. \/ call'[d] = [call[d] EXCEPT !.at = place]
        \/ call'[d] = [call[d] EXCEPT !.at = place, !.failed = TRUE]
        BY <1>1 DEF Go, Fails, TypeOK
  <2>2. call[d] \in [at : {"idle", "stale", "list", "delete", "install"},
                     ready : BOOLEAN, failed : BOOLEAN]
        BY DEF TypeOK
  <2>3. call'[d].ready = call[d].ready
        BY <2>1, <2>2
  <2>4. call'[d].at = place
        BY <2>1, <2>2
  <2> QED
      BY <1>1, <2>3, <2>4
<1>2. CASE d # c
  <2>1. call'[d] = call[d]
        BY <1>2 DEF Go, Fails, TypeOK
  <2> QED
      BY <2>1
<1> QED
    BY <1>1, <1>2

\* A running Reconcile ends with the peer of the cluster it has seen ready, or
\* asks for another one.
LEMMA StepWatch ==
  ASSUME WInv, NEW c \in Clusters, Step(c)
  PROVE  WatchOwed' /\ GoneOwed'
<1> USE DEF WInv, IInv
<1>1. CASE CheckPeer(c) \/ ListServices(c)
  <2>1. /\ UNCHANGED <<exists, ready, peers, pending>>
        /\ call[c].at # "idle"
        /\ \E place \in {"list", "install", "delete"} : Go(c, place) \/ Fails(c, place)
        BY <1>1 DEF CheckPeer, ListServices, ListFails, world, watch
  <2>2. \A d \in Clusters :
          /\ call'[d].ready <=> call[d].ready
          /\ call'[d].at # "idle" <=> call[d].at # "idle"
        BY <2>1, MovedOn
  <2> QED
      BY <2>1, <2>2 DEF WatchOwed, GoneOwed
<1>2. CASE DeleteStale(c)
  <2>1. /\ UNCHANGED <<ready, peers>> /\ call[c].at # "idle"
        /\ Go(c, "install") \/ Fails(c, "install")
        /\ Removed(c) \/ UNCHANGED <<exists, pending>>
        BY <1>2 DEF DeleteStale, watch
  <2>2. \A d \in Clusters :
          /\ call'[d].ready <=> call[d].ready
          /\ call'[d].at # "idle" <=> call[d].at # "idle"
        BY <2>1, MovedOn
  <2> QED
      BY <2>1, <2>2 DEF Removed, WatchOwed, GoneOwed, TypeOK
<1>3. CASE Install(c)
  <2>1. /\ UNCHANGED <<exists, ready>> /\ call[c].at # "idle"
        /\ call' = [call EXCEPT ![c] = NoCall]
        /\ pending \subseteq pending'
        BY <1>3 DEF Install, Return, world
  <2>2. peers \subseteq peers' /\ peers' \subseteq peers \cup {c}
        BY <1>3 DEF Install, NotInstalled, watch
  <2>3. call[c].ready => c \in peers' \/ c \in pending'
        BY <1>3 DEF Install, Return, Known, watch
  <2>4. call'[c].at = "idle" /\ \A d \in Clusters \ {c} : call'[d] = call[d]
        BY <2>1 DEF TypeOK, NoCall
  <2> QED
      BY <2>1, <2>2, <2>3, <2>4 DEF WatchOwed, GoneOwed
<1> QED
    BY <1>1, <1>2, <1>3 DEF Step

\* A restart loses the peers and the calls; every cluster is listed again.
LEMMA RestartWatch ==
  ASSUME WInv, Restart
  PROVE  WatchOwed' /\ GoneOwed'
BY DEF Restart, WatchOwed, GoneOwed, NoCall, world

LEMMA NextWatch == WInv /\ [Next]_vars => WInv'
<1> SUFFICES ASSUME WInv, [Next]_vars PROVE WatchOwed' /\ GoneOwed'
    BY NextInv DEF WInv
<1>1. CASE UNCHANGED vars
      BY <1>1, AddsToOwed DEF vars
<1>2. ASSUME NEW c \in Clusters,
             \/ Resync(c) \/ HandlerBegin(c) \/ DrainEnds(c)
             \/ CreateService(c) \/ DeleteService(c)
      PROVE  WatchOwed' /\ GoneOwed'
      BY <1>2, AddsToOwed
      DEF Resync, HandlerBegin, DrainEnds, CreateService, DeleteService, world, watch
<1>3. ASSUME NEW c \in Clusters,
             \/ HandlerCreate(c) \/ HandlerCleanup(c)
             \/ Register(c) \/ RemoveCluster(c) \/ ReadyChanges(c)
      PROVE  WatchOwed' /\ GoneOwed'
  <2>1. /\ UNCHANGED <<peers, call>> /\ pending' = pending \cup {c}
        /\ \A d \in Clusters \ {c} : exists'[d] = exists[d] /\ (d \in ready' <=> d \in ready)
        BY <1>3 DEF HandlerCreate, HandlerCleanup, Register, RemoveCluster, ReadyChanges,
                    Removed, watch, WInv, IInv, TypeOK
  <2> QED
      BY <2>1, ChangeOwed
<1> QED
    BY <1>1, <1>2, <1>3, BeginWatch, StepWatch, RestartWatch DEF Next

\* No change of a cluster is forgotten: until its informer runs, or is cancelled,
\* as the cluster's readiness and existence demand, a Reconcile is owed or has
\* read what it needs (cluster_controller.go, Reconcile and
\* SyncvClusterInstallHandler).
THEOREM WatchNotForgotten == Spec => []WatchOwed
<1>1. WInv => WatchOwed
      BY DEF WInv
<1> QED
    BY InitWatch, NextWatch, <1>1, PTL DEF Spec
=============================================================================
