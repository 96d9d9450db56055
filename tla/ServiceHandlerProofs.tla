------------------------- MODULE ServiceHandlerProofs -------------------------
(***************************************************************************)
(* What ServiceHandler promises for every set of services, names, workers  *)
(* and every number of faults.                                             *)
(***************************************************************************)
EXTENDS ServiceHandler, TLAPS

Leaving(u) == phase[u] \in {"terminating", "gone"}

-----------------------------------------------------------------------------
(* The inductive invariant                                                 *)

\* A worker has an item and a service exactly while it is busy, an item has
\* one worker, and a worker about to delete has the name of a cluster.
WorkersOK ==
  /\ \A w \in Workers : at[w] # "idle" => item[w] \in UIDs /\ svc[w] \in UIDs
  /\ \A w \in Workers : at[w] = "idle" => item[w] = None
  /\ \A w \in Workers : at[w] = "delete" => name[w] \in Names
  /\ \A v, w \in Workers : item[v] = item[w] /\ item[v] # None => v = w

\* The cache may lag behind the host cluster and never runs ahead of it; what
\* is queued or in work was in the cache once.
CacheOK ==
  /\ \A u \in UIDs : /\ seen[u] # "unborn" => phase[u] # "unborn"
                     /\ seen[u] = "terminating" => Leaving(u)
                     /\ seen[u] = "gone" => phase[u] = "gone"
  /\ \A u \in UIDs : Owed(u) => seen[u] # "unborn"

\* A worker cleans up only for a service that is leaving, and the name it
\* deletes by is one that this service can have.
CleanupOK ==
  \A w \in Workers :
    /\ at[w] \in {"cleanup", "delete"} => Leaving(svc[w])
    /\ at[w] = "delete" => name[w] \in NamesOf[svc[w]]

\* A cluster has a name its service can have, unless another host's handler
\* created it, under a name that none of this host's services can have.
NamesOK ==
  \A n \in Names : clusters[n] # None =>
    /\ clusters[n].mine => n \in NamesOf[clusters[n].uid]
    /\ ~clusters[n].mine => \A u \in UIDs : n \notin NamesOf[u]

IInv == TypeOK /\ WorkersOK /\ CacheOK /\ CleanupOK /\ NamesOK

LEMMA InitIInv == Init => IInv
<1> SUFFICES ASSUME Init PROVE IInv
  OBVIOUS
<1>1. TypeOK
  BY FaultsAssumption DEF Init, TypeOK, Phases, Places
<1>2. WorkersOK
  BY DEF Init, WorkersOK
<1>3. CacheOK
  BY NoneAssumption DEF Init, CacheOK, Owed
<1>4. CleanupOK /\ NamesOK
  BY DEF Init, CleanupOK, NamesOK
<1> QED BY <1>1, <1>2, <1>3, <1>4 DEF IInv

-----------------------------------------------------------------------------
(* Types                                                                   *)

\* What Return does to the worker that returns, and to nobody else.
LEMMA ReturnTypes ==
  ASSUME TypeOK, WorkersOK, NEW w \in Workers, NEW again, Return(w, again), at[w] # "idle"
  PROVE  /\ at' \in [Workers -> Places]
         /\ item' \in [Workers -> UIDs \cup {None}]
         /\ svc' \in [Workers -> UIDs \cup {None}]
         /\ name' \in [Workers -> Names \cup {None}]
         /\ pending' \subseteq UIDs
         /\ pending' \subseteq pending \cup {item[w]}
BY DEF Return, Goto, TypeOK, WorkersOK, Places

LEMMA FaultTypes ==
  ASSUME TypeOK, NEW kind, Fault(kind)
  PROVE  faults' \in 0 .. MaxFaults
BY FaultsAssumption DEF Fault, TypeOK

LEMMA StepTypeOK == TypeOK /\ WorkersOK /\ [Next]_vars => TypeOK'
<1> SUFFICES ASSUME TypeOK, WorkersOK, [Next]_vars PROVE TypeOK'
  OBVIOUS
<1>1. ASSUME NEW u \in UIDs, CreateService(u) \/ DeleteService(u) PROVE TypeOK'
  BY <1>1 DEF CreateService, DeleteService, TypeOK, Phases, cache, workers
<1>2. ASSUME NEW u \in UIDs, Watch(u) PROVE TypeOK'
  <2>1. \A p \in NextSeen(u) : p \in Phases
    BY DEF NextSeen, TypeOK, Phases
  <2> QED BY <1>2, <2>1 DEF Watch, TypeOK, workers
<1>3. ASSUME NEW u \in UIDs, Resync(u) PROVE TypeOK'
  BY <1>3 DEF Resync, TypeOK, cache, workers
<1>4. CASE StartInformer
  BY <1>4 DEF StartInformer, TypeOK, workers
<1>5. CASE FirstList \/ Relist
  BY <1>5, FaultTypes DEF FirstList, Relist, List, TypeOK, workers
<1>6. ASSUME NEW w \in Workers, NEW u \in UIDs, Begin(w, u) PROVE TypeOK'
  BY <1>6 DEF Begin, Goto, SameKey, TypeOK, Places, cache
<1>7. ASSUME NEW w \in Workers, CleanupLookup(w) PROVE TypeOK'
  <2>1. CASE Return(w, FALSE)
    BY <1>7, <2>1, ReturnTypes DEF CleanupLookup, TypeOK, cache
  <2>2. CASE \E n \in Labelled(svc[w]) : /\ name' = [name EXCEPT ![w] = n]
                                        /\ Goto(w, "delete")
                                        /\ UNCHANGED <<pending, item, svc>>
    BY <1>7, <2>2 DEF CleanupLookup, Labelled, Goto, TypeOK, Places, cache
  <2> QED BY <1>7, <2>1, <2>2 DEF CleanupLookup
<1>8. ASSUME NEW w \in Workers, CleanupDelete(w) PROVE TypeOK'
  <2>1. /\ at[w] = "delete" /\ UNCHANGED <<phase, informer, seen>>
        /\ Return(w, TRUE) \/ Return(w, FALSE)
        /\ UNCHANGED faults \/ Fault("error")
        /\ UNCHANGED clusters \/ (clusters[name[w]] # None /\ MarkDeleted(name[w]))
    BY <1>8 DEF CleanupDelete, cache
  <2>2. clusters' \in [Names -> Clusters \cup {None}]
    <3>1. name[w] \in Names
      BY <2>1 DEF WorkersOK
    <3> QED BY <2>1, <3>1 DEF MarkDeleted, Clusters, TypeOK
  <2>3. faults' \in 0 .. MaxFaults
    BY <2>1, FaultTypes DEF TypeOK
  <2> QED BY <2>1, <2>2, <2>3, ReturnTypes DEF TypeOK
<1>9. ASSUME NEW w \in Workers, DeployLookup(w) PROVE TypeOK'
  <2>1. CASE Return(w, FALSE)
    BY <1>9, <2>1, ReturnTypes DEF DeployLookup, TypeOK, cache
  <2>2. CASE /\ Goto(w, "create") \/ Goto(w, "resources")
             /\ UNCHANGED <<pending, item, svc, name>>
    BY <1>9, <2>2 DEF DeployLookup, Goto, TypeOK, Places, cache
  <2> QED BY <1>9, <2>1, <2>2 DEF DeployLookup
<1>10. ASSUME NEW w \in Workers, DeployCreate(w) PROVE TypeOK'
  <2>1. /\ svc[w] \in UIDs
        /\ NamesOf[svc[w]] \subseteq Names
    BY <1>10, NamesAssumption DEF DeployCreate, WorkersOK
  <2>2. NewCluster(svc[w], TRUE) \in Clusters
    BY <2>1 DEF NewCluster, Clusters
  <2> QED BY <1>10, <2>1, <2>2 DEF DeployCreate, Goto, TypeOK, Places, cache
<1>11. ASSUME NEW w \in Workers, DeployResources(w) PROVE TypeOK'
  BY <1>11, ReturnTypes DEF DeployResources, TypeOK, cache
<1>12. ASSUME NEW w \in Workers, ApiError(w) PROVE TypeOK'
  BY <1>12, ReturnTypes, FaultTypes DEF ApiError, TypeOK, cache
<1>13. ASSUME NEW n \in Names, RancherManage(n) \/ RancherRemove(n) \/ SyncStaleResources(n)
       PROVE  TypeOK'
  <2>1. UNCHANGED <<phase, cache, pending, workers, faults>>
    BY <1>13 DEF RancherManage, RancherRemove, SyncStaleResources
  <2>2. clusters' \in [Names -> Clusters \cup {None}]
    <3>1. CASE RancherManage(n)
      BY <3>1 DEF RancherManage, TypeOK, Clusters
    <3>2. CASE RancherRemove(n)
      BY <3>2 DEF RancherRemove, TypeOK
    <3>3. CASE SyncStaleResources(n)
      BY <3>3 DEF SyncStaleResources, MarkDeleted, TypeOK, Clusters
    <3> QED BY <1>13, <3>1, <3>2, <3>3
  <2> QED BY <2>1, <2>2 DEF TypeOK, cache, workers
<1>14. ASSUME NEW u \in Foreign, NEW n \in Names, ForeignImport(u, n) PROVE TypeOK'
  BY <1>14, ForeignAssumption DEF ForeignImport, NewCluster, Clusters, TypeOK, cache, workers
<1>15. CASE Restart
  BY <1>15, FaultTypes DEF Restart, TypeOK, Phases, Places
<1>16. CASE UNCHANGED vars
  BY <1>16 DEF vars, cache, workers, TypeOK
<1> QED
  BY <1>1, <1>2, <1>3, <1>4, <1>5, <1>6, <1>7, <1>8, <1>9, <1>10, <1>11, <1>12, <1>13,
     <1>14, <1>15, <1>16 DEF Next, Work

-----------------------------------------------------------------------------
(* The workers                                                             *)

\* The steps that leave every worker where it is.
Elsewhere ==
  \/ \E u \in UIDs : CreateService(u) \/ DeleteService(u) \/ Watch(u) \/ Resync(u)
  \/ StartInformer \/ FirstList \/ Relist
  \/ \E n \in Names : RancherManage(n) \/ RancherRemove(n) \/ SyncStaleResources(n)
  \/ \E u \in Foreign, n \in Names : ForeignImport(u, n)
  \/ UNCHANGED vars

LEMMA WorkersElsewhere == Elsewhere => UNCHANGED workers
BY DEF Elsewhere, CreateService, DeleteService, Watch, Resync, StartInformer, FirstList,
       Relist, RancherManage, RancherRemove, SyncStaleResources, ForeignImport, vars

LEMMA NextCases ==
  [Next]_vars => \/ Elsewhere
                 \/ \E w \in Workers : Work(w) \/ ApiError(w) \/ \E u \in UIDs : Begin(w, u)
                 \/ Restart
BY DEF Next, Elsewhere

\* Return lets a worker go and leaves the others alone.
LEMMA ReturnWorkers ==
  ASSUME TypeOK, WorkersOK, NEW w \in Workers, NEW again, Return(w, again)
  PROVE  WorkersOK'
BY DEF Return, Goto, TypeOK, WorkersOK

\* Moving on within Reconcile keeps the item.
LEMMA GotoWorkers ==
  ASSUME TypeOK, WorkersOK, NEW w \in Workers, NEW place, Goto(w, place),
         at[w] # "idle", place # "idle", UNCHANGED <<item, svc>>,
         \/ place # "delete" /\ name' = name
         \/ \E n \in Names : name' = [name EXCEPT ![w] = n]
  PROVE  WorkersOK'
BY DEF Goto, TypeOK, WorkersOK

LEMMA StepWorkersOK == TypeOK /\ WorkersOK /\ [Next]_vars => WorkersOK'
<1> SUFFICES ASSUME TypeOK, WorkersOK, [Next]_vars PROVE WorkersOK'
  OBVIOUS
<1>1. CASE Elsewhere
  BY <1>1, WorkersElsewhere DEF WorkersOK, workers
<1>2. ASSUME NEW w \in Workers, NEW u \in UIDs, Begin(w, u) PROVE WorkersOK'
  <2>1. /\ at[w] = "idle" /\ u \in UIDs
        /\ \A v \in Workers : item[v] # u
        /\ item' = [item EXCEPT ![w] = u]
        /\ name' = name
    BY <1>2 DEF Begin, Free
  <2>2. \E v \in UIDs : svc' = [svc EXCEPT ![w] = v]
    BY <1>2 DEF Begin, SameKey
  <2>3. at' = [at EXCEPT ![w] = "cleanup"] \/ at' = [at EXCEPT ![w] = "deploy"]
    BY <1>2 DEF Begin, Goto
  <2>4. u # None
    BY NoneAssumption
  <2> QED BY <2>1, <2>2, <2>3, <2>4 DEF TypeOK, WorkersOK
<1>3. ASSUME NEW w \in Workers, CleanupLookup(w) PROVE WorkersOK'
  <2>1. CASE Return(w, FALSE)
    BY <2>1, ReturnWorkers
  <2>2. CASE \E n \in Labelled(svc[w]) : /\ name' = [name EXCEPT ![w] = n]
                                        /\ Goto(w, "delete")
                                        /\ UNCHANGED <<pending, item, svc>>
    BY <1>3, <2>2, GotoWorkers DEF CleanupLookup, Labelled
  <2> QED BY <1>3, <2>1, <2>2 DEF CleanupLookup
<1>4. ASSUME NEW w \in Workers, CleanupDelete(w) \/ DeployResources(w) \/ ApiError(w)
      PROVE  WorkersOK'
  <2>1. \E again \in BOOLEAN : Return(w, again)
    BY <1>4 DEF CleanupDelete, DeployResources, ApiError
  <2> QED BY <2>1, ReturnWorkers
<1>5. ASSUME NEW w \in Workers, DeployLookup(w) PROVE WorkersOK'
  <2>1. CASE Return(w, FALSE)
    BY <2>1, ReturnWorkers
  <2>2. CASE /\ Goto(w, "create") \/ Goto(w, "resources")
             /\ UNCHANGED <<pending, item, svc, name>>
    BY <1>5, <2>2, GotoWorkers DEF DeployLookup
  <2> QED BY <1>5, <2>1, <2>2 DEF DeployLookup
<1>6. ASSUME NEW w \in Workers, DeployCreate(w) PROVE WorkersOK'
  BY <1>6, GotoWorkers DEF DeployCreate
<1>7. CASE Restart
  BY <1>7 DEF Restart, WorkersOK
<1> QED BY <1>1, <1>2, <1>3, <1>4, <1>5, <1>6, <1>7, NextCases DEF Work

-----------------------------------------------------------------------------
(* The cache                                                               *)

\* A Return can only put back the item that the worker had.
LEMMA OwedAfterReturn ==
  ASSUME TypeOK, WorkersOK, NEW w \in Workers, NEW again, Return(w, again), at[w] # "idle",
         NEW u \in UIDs, Owed(u)'
  PROVE  Owed(u)
BY NoneAssumption DEF Return, Owed, TypeOK, WorkersOK

LEMMA StepCacheOK == TypeOK /\ WorkersOK /\ CacheOK /\ [Next]_vars => CacheOK'
<1> SUFFICES ASSUME TypeOK, WorkersOK, CacheOK, [Next]_vars PROVE CacheOK'
  OBVIOUS
<1>1. ASSUME NEW u \in UIDs, CreateService(u) \/ DeleteService(u) PROVE CacheOK'
  BY <1>1 DEF CreateService, DeleteService, Exists, CacheOK, Leaving, Owed, TypeOK, cache,
              workers
<1>2. ASSUME NEW u \in UIDs, Watch(u) PROVE CacheOK'
  <2>1. PICK p \in NextSeen(u) : seen' = [seen EXCEPT ![u] = p]
    BY <1>2 DEF Watch
  <2>2. /\ p # "unborn" /\ phase[u] # "unborn"
        /\ p = "terminating" => Leaving(u)
        /\ p = "gone" => phase[u] = "gone"
    BY <2>1 DEF NextSeen, CacheOK, Leaving
  <2>3. /\ pending' = pending \cup {u}
        /\ UNCHANGED <<phase, item>>
    BY <1>2 DEF Watch, workers
  <2> QED BY <2>1, <2>2, <2>3 DEF CacheOK, Leaving, Owed, TypeOK
<1>3. ASSUME NEW u \in UIDs, Resync(u) PROVE CacheOK'
  BY <1>3 DEF Resync, Exists, CacheOK, Leaving, Owed, TypeOK, cache, workers
<1>4. CASE StartInformer
  BY <1>4 DEF StartInformer, CacheOK, Leaving, Owed, workers
<1>5. CASE FirstList \/ Relist
  <2>1. List /\ UNCHANGED <<phase, item>>
    BY <1>5 DEF FirstList, Relist, workers
  <2>2. ASSUME NEW u \in UIDs, Owed(u)' PROVE phase[u] # "unborn"
    <3>1. Owed(u) \/ Exists(phase[u]) \/ Exists(seen[u])
      BY <2>1, <2>2 DEF List, Vanished, Owed
    <3> QED BY <3>1 DEF CacheOK, Exists
  <2> QED BY <2>1, <2>2 DEF List, CacheOK, Leaving
<1>6. ASSUME NEW w \in Workers, NEW u \in UIDs, Begin(w, u) PROVE CacheOK'
  <2>1. /\ UNCHANGED <<phase, seen>>
        /\ pending' \subseteq pending /\ u \in pending
        /\ item' = [item EXCEPT ![w] = u]
    BY <1>6 DEF Begin, cache
  <2>2. \A v \in UIDs : Owed(v)' => Owed(v)
    BY <2>1 DEF Owed, TypeOK
  <2> QED BY <2>1, <2>2 DEF CacheOK, Leaving
<1>7. ASSUME NEW w \in Workers, Work(w) \/ ApiError(w) PROVE CacheOK'
  <2>1. UNCHANGED <<phase, seen>> /\ at[w] # "idle"
    BY <1>7 DEF Work, CleanupLookup, CleanupDelete, DeployLookup, DeployCreate,
                DeployResources, ApiError, cache
  <2>2. (\E again \in BOOLEAN : Return(w, again)) \/ UNCHANGED <<pending, item>>
    BY <1>7 DEF Work, CleanupLookup, CleanupDelete, DeployLookup, DeployCreate,
                DeployResources, ApiError
  <2>3. \A u \in UIDs : Owed(u)' => Owed(u)
    <3>1. CASE \E again \in BOOLEAN : Return(w, again)
      BY <2>1, <3>1, OwedAfterReturn
    <3>2. CASE UNCHANGED <<pending, item>>
      BY <3>2 DEF Owed
    <3> QED BY <2>2, <3>1, <3>2
  <2> QED BY <2>1, <2>3 DEF CacheOK, Leaving
<1>8. ASSUME NEW n \in Names, RancherManage(n) \/ RancherRemove(n) \/ SyncStaleResources(n)
      PROVE  CacheOK'
  BY <1>8 DEF RancherManage, RancherRemove, SyncStaleResources, CacheOK, Leaving, Owed,
              cache, workers
<1>9. ASSUME NEW u \in Foreign, NEW n \in Names, ForeignImport(u, n) PROVE CacheOK'
  BY <1>9 DEF ForeignImport, CacheOK, Leaving, Owed, cache, workers
<1>10. CASE Restart
  BY <1>10, NoneAssumption DEF Restart, CacheOK, Leaving, Owed
<1>11. CASE UNCHANGED vars
  BY <1>11 DEF vars, cache, workers, CacheOK, Leaving, Owed
<1> QED BY <1>1, <1>2, <1>3, <1>4, <1>5, <1>6, <1>7, <1>8, <1>9, <1>10, <1>11 DEF Next

-----------------------------------------------------------------------------
(* Cleaning up                                                             *)

\* A service that is leaving never comes back.
LEMMA LeavingForGood ==
  ASSUME TypeOK, [Next]_vars, NEW u \in UIDs, Leaving(u)
  PROVE  Leaving(u)'
<1>1. CASE phase' = phase
  BY <1>1 DEF Leaving
<1>2. ASSUME NEW v \in UIDs, CreateService(v) \/ DeleteService(v) PROVE Leaving(u)'
  BY <1>2 DEF CreateService, DeleteService, Exists, Leaving, TypeOK
<1>3. \/ phase' = phase
      \/ \E v \in UIDs : CreateService(v) \/ DeleteService(v)
  BY DEF Next, Work, Watch, Resync, StartInformer, FirstList, Relist, Begin, CleanupLookup,
         CleanupDelete, DeployLookup, DeployCreate, DeployResources, ApiError,
         RancherManage, RancherRemove, SyncStaleResources, ForeignImport, Restart, vars
<1> QED BY <1>1, <1>2, <1>3

LEMMA StepCleanupOK == IInv /\ [Next]_vars => CleanupOK'
<1> SUFFICES ASSUME IInv, [Next]_vars, NEW w \in Workers
             PROVE  /\ at'[w] \in {"cleanup", "delete"} => Leaving(svc[w])'
                    /\ at'[w] = "delete" => name'[w] \in NamesOf[svc'[w]]
  BY DEF CleanupOK
<1> USE DEF IInv
<1> DEFINE Goal == /\ at'[w] \in {"cleanup", "delete"} => Leaving(svc[w])'
                   /\ at'[w] = "delete" => name'[w] \in NamesOf[svc'[w]]
<1>1. ASSUME UNCHANGED <<at[w], svc[w], name[w]>> PROVE Goal
  <2>1. at[w] # "idle" => svc[w] \in UIDs
    BY DEF WorkersOK
  <2> QED BY <1>1, <2>1, LeavingForGood DEF CleanupOK
<1>2. CASE Elsewhere
  BY <1>1, <1>2, WorkersElsewhere DEF workers
<1>3. ASSUME NEW v \in Workers, v # w,
             Work(v) \/ ApiError(v) \/ \E u \in UIDs : Begin(v, u)
      PROVE  UNCHANGED <<at[w], svc[w], name[w]>>
  BY <1>3 DEF Work, CleanupLookup, CleanupDelete, DeployLookup, DeployCreate,
              DeployResources, ApiError, Begin, Goto, Return, TypeOK
<1>4. ASSUME NEW u \in UIDs, Begin(w, u) PROVE Goal
  <2>1. UNCHANGED <<phase, seen>> /\ u \in pending
    BY <1>4 DEF Begin, cache
  <2> DEFINE cached == {v \in SameKey(u) : Exists(seen[v])}
  <2>2. \/ /\ cached = {} /\ svc' = [svc EXCEPT ![w] = u]
           /\ at' = [at EXCEPT ![w] = "cleanup"]
        \/ \E v \in cached :
             /\ svc' = [svc EXCEPT ![w] = v]
             /\ at' = [at EXCEPT ![w] = IF seen[v] = "terminating" THEN "cleanup" ELSE "deploy"]
    BY <1>4 DEF Begin, Goto
  <2>3. CASE cached = {} /\ svc' = [svc EXCEPT ![w] = u] /\ at' = [at EXCEPT ![w] = "cleanup"]
    <3>1. u \in SameKey(u)
      BY DEF SameKey
    <3>2. ~Exists(seen[u]) /\ seen[u] # "unborn"
      BY <2>1, <2>3, <3>1 DEF CacheOK, Owed
    <3>3. Leaving(u)
      BY <3>2 DEF CacheOK, Exists, Leaving, TypeOK, Phases
    <3> QED BY <2>1, <2>3, <3>3 DEF Leaving, TypeOK
  <2>4. ASSUME NEW v \in cached, svc' = [svc EXCEPT ![w] = v],
               at' = [at EXCEPT ![w] = IF seen[v] = "terminating" THEN "cleanup" ELSE "deploy"]
        PROVE  Goal
    <3>1. v \in UIDs
      BY DEF SameKey
    <3>2. seen[v] = "terminating" => Leaving(v)
      BY <3>1 DEF CacheOK
    <3> QED BY <2>1, <2>4, <3>1, <3>2 DEF Leaving, TypeOK
  <2> QED BY <2>2, <2>3, <2>4
<1>5. CASE CleanupLookup(w)
  <2>1. CASE Return(w, FALSE)
    BY <2>1 DEF Return, Goto, TypeOK
  <2>2. ASSUME NEW n \in Labelled(svc[w]), clusters[n].mine,
               name' = [name EXCEPT ![w] = n], Goto(w, "delete"),
               UNCHANGED <<pending, item, svc>>
        PROVE  Goal
    <3>1. Leaving(svc[w]) /\ phase' = phase
      BY <1>5 DEF CleanupLookup, CleanupOK
    <3>2. n \in NamesOf[svc[w]] /\ n \in Names
      BY <2>2 DEF Labelled, NamesOK
    <3> QED BY <2>2, <3>1, <3>2 DEF Goto, Leaving, TypeOK
  <2> QED BY <1>5, <2>1, <2>2 DEF CleanupLookup
<1>6. CASE DeployLookup(w) \/ DeployCreate(w) \/ CleanupDelete(w) \/ DeployResources(w) \/ ApiError(w)
  <2>1. at'[w] \notin {"cleanup", "delete"}
    BY <1>6 DEF DeployLookup, DeployCreate, CleanupDelete, DeployResources, ApiError,
                Return, Goto, TypeOK
  <2> QED BY <2>1
<1>7. CASE Restart
  BY <1>7 DEF Restart
<1> QED BY <1>1, <1>2, <1>3, <1>4, <1>5, <1>6, <1>7, NextCases DEF Work

LEMMA StepNamesOK == IInv /\ [Next]_vars => NamesOK'
<1> SUFFICES ASSUME IInv, [Next]_vars PROVE NamesOK'
  OBVIOUS
<1> USE DEF IInv
<1>1. CASE clusters' = clusters
  BY <1>1 DEF NamesOK
<1>2. ASSUME NEW n \in Names, clusters[n] # None, MarkDeleted(n) PROVE NamesOK'
  <2>1. clusters[n] \in Clusters
    BY <1>2 DEF TypeOK
  <2> QED BY <1>2, <2>1 DEF MarkDeleted, NamesOK, TypeOK, Clusters
<1>3. ASSUME NEW n \in Names, RancherManage(n) PROVE NamesOK'
  <2>1. clusters[n] \in Clusters
    BY <1>3 DEF RancherManage, TypeOK
  <2> QED BY <1>3, <2>1 DEF RancherManage, NamesOK, TypeOK, Clusters
<1>4. ASSUME NEW n \in Names, RancherRemove(n) PROVE NamesOK'
  BY <1>4 DEF RancherRemove, NamesOK, TypeOK
<1>5. ASSUME NEW n \in Names, SyncStaleResources(n) PROVE NamesOK'
  BY <1>2, <1>5 DEF SyncStaleResources
<1>6. ASSUME NEW u \in Foreign, NEW n \in Names, ForeignImport(u, n) PROVE NamesOK'
  BY <1>6 DEF ForeignImport, NewCluster, NamesOK, TypeOK
<1>7. ASSUME NEW w \in Workers, CleanupDelete(w) PROVE NamesOK'
  <2>1. name[w] \in Names
    BY <1>7 DEF CleanupDelete, WorkersOK
  <2> QED BY <1>1, <1>2, <1>7, <2>1 DEF CleanupDelete
<1>8. ASSUME NEW w \in Workers, DeployCreate(w) PROVE NamesOK'
  <2>1. svc[w] \in UIDs
    BY <1>8 DEF DeployCreate, WorkersOK
  <2>2. \/ clusters' = clusters
        \/ \E n \in NamesOf[svc[w]] :
             clusters' = [clusters EXCEPT ![n] = NewCluster(svc[w], TRUE)]
    BY <1>8 DEF DeployCreate
  <2> QED BY <1>1, <2>1, <2>2, NamesAssumption DEF NewCluster, NamesOK, TypeOK
<1>9. \/ clusters' = clusters
      \/ \E n \in Names : RancherManage(n) \/ RancherRemove(n) \/ SyncStaleResources(n)
      \/ \E u \in Foreign, n \in Names : ForeignImport(u, n)
      \/ \E w \in Workers : CleanupDelete(w) \/ DeployCreate(w)
  BY DEF Next, Work, CreateService, DeleteService, Watch, Resync, StartInformer, FirstList,
         Relist, Begin, CleanupLookup, DeployLookup, DeployResources, ApiError, Restart, vars
<1> QED BY <1>1, <1>3, <1>4, <1>5, <1>6, <1>7, <1>8, <1>9

LEMMA StepIInv == IInv /\ [Next]_vars => IInv'
BY StepTypeOK, StepWorkersOK, StepCacheOK, StepCleanupOK, StepNamesOK DEF IInv

\* The invariant holds in every reachable state.
THEOREM Invariance == Spec => []IInv
BY InitIInv, StepIInv, PTL DEF Spec

\* Every state has its types; in particular no worker deletes by a name that
\* it does not have, and a cluster is always labelled with a service.
THEOREM TypeCorrect == Spec => []TypeOK
BY Invariance, PTL DEF IInv

-----------------------------------------------------------------------------
(* Theorems about steps                                                    *)

\* A name that no two services can have.
OwnName(n) == \A u, v \in UIDs : n \in NamesOf[u] /\ n \in NamesOf[v] => u = v

\* The name a worker deletes by, however old its lookup is, can only belong to
\* the service that is leaving, when no other service can have it.
LEMMA StepSpared ==
  ASSUME IInv, [Next]_vars, NEW n \in Names, OwnName(n)
  PROVE  SparedIfLive(n)
<1>1. SUFFICES ASSUME clusters[n] # None, ~clusters[n].deleting,
                      clusters'[n] # clusters[n]
               PROVE  \/ clusters'[n] = [clusters[n] EXCEPT !.managed = TRUE]
                      \/ clusters[n].mine /\ Leaving(clusters[n].uid)
  BY DEF SparedIfLive, Leaving
<1>2. QED
  <2> USE <1>1 DEF IInv
  <2>1. ASSUME NEW m \in Names, RancherManage(m)
        PROVE  clusters'[n] = [clusters[n] EXCEPT !.managed = TRUE]
    BY <2>1 DEF RancherManage, TypeOK
  <2>2. ASSUME NEW m \in Names, RancherRemove(m) PROVE FALSE
    BY <2>2 DEF RancherRemove, TypeOK
  <2>3. ASSUME NEW m \in Names, SyncStaleResources(m)
        PROVE  clusters[n].mine /\ Leaving(clusters[n].uid)
    BY <2>3 DEF SyncStaleResources, Stale, MarkDeleted, Leaving, TypeOK
  <2>4. ASSUME NEW u \in Foreign, NEW m \in Names, ForeignImport(u, m) PROVE FALSE
    BY <2>4 DEF ForeignImport, TypeOK
  <2>5. ASSUME NEW w \in Workers, CleanupDelete(w)
        PROVE  clusters[n].mine /\ Leaving(clusters[n].uid)
    <3>1. at[w] = "delete" /\ svc[w] \in UIDs /\ n = name[w]
      BY <2>5 DEF CleanupDelete, MarkDeleted, WorkersOK, TypeOK
    <3>2. Leaving(svc[w]) /\ n \in NamesOf[svc[w]]
      BY <3>1 DEF CleanupOK
    <3>3. clusters[n].uid \in UIDs /\ clusters[n].mine \in BOOLEAN
      BY DEF TypeOK, Clusters
    <3>4. clusters[n].mine /\ n \in NamesOf[clusters[n].uid]
      BY <3>1, <3>2, <3>3 DEF NamesOK
    <3>5. clusters[n].uid = svc[w]
      BY <3>1, <3>2, <3>3, <3>4 DEF OwnName
    <3> QED BY <3>2, <3>4, <3>5
  <2>6. ASSUME NEW w \in Workers, DeployCreate(w) PROVE FALSE
    BY <2>6 DEF DeployCreate, TypeOK
  <2>7. \/ \E m \in Names : RancherManage(m) \/ RancherRemove(m) \/ SyncStaleResources(m)
        \/ \E u \in Foreign, m \in Names : ForeignImport(u, m)
        \/ \E w \in Workers : CleanupDelete(w) \/ DeployCreate(w)
    BY DEF Next, Work, CreateService, DeleteService, Watch, Resync, StartInformer, FirstList,
           Relist, Begin, CleanupLookup, DeployLookup, DeployResources, ApiError, Restart, vars
  <2> QED BY <2>1, <2>2, <2>3, <2>4, <2>5, <2>6, <2>7

\* The operator never deletes the cluster of a service that stays, under any
\* name that no two services can have.
THEOREM OwnNameSpared ==
  ASSUME NEW n \in Names, OwnName(n)
  PROVE  Spec => [][SparedIfLive(n)]_vars
<1>1. IInv /\ [Next]_vars => [SparedIfLive(n)]_vars
  BY StepSpared
<1> QED BY <1>1, Invariance, PTL DEF Spec

\* If that is so of all names, no cluster of a service that stays is deleted.
THEOREM LiveClustersSpared ==
  ASSUME \A u, v \in UIDs : u # v => NamesOf[u] \cap NamesOf[v] = {}
  PROVE  Spec => DeleteOnlyGone
<1>1. \A n \in Names : OwnName(n)
  BY DEF OwnName
<1>2. IInv /\ [Next]_vars => [SparesLive]_vars
  BY <1>1, StepSpared DEF SparesLive
<1> QED BY <1>2, Invariance, PTL DEF Spec, DeleteOnlyGone

-----------------------------------------------------------------------------
(* What one step can do                                                    *)

\* A worker that is busy after a step stood still, began, or moved on within
\* the same Reconcile call.
MovesOn(w) == CleanupLookup(w) \/ DeployLookup(w) \/ DeployCreate(w)

LEMMA BusyAfter ==
  ASSUME IInv, [Next]_vars, NEW w \in Workers, at'[w] # "idle"
  PROVE  \/ UNCHANGED <<at[w], item[w], svc[w], name[w]>> /\ ~MovesOn(w)
         \/ \E u \in UIDs : Begin(w, u)
         \/ MovesOn(w) /\ at[w] # "idle" /\ UNCHANGED <<phase, cache, pending, item, svc>>
<1> USE DEF IInv
<1>1. CASE Elsewhere
  <2>1. UNCHANGED workers
    BY <1>1, WorkersElsewhere
  <2>2. ~MovesOn(w)
    BY <2>1 DEF MovesOn, CleanupLookup, DeployLookup, DeployCreate, Goto, Return, workers, TypeOK
  <2> QED BY <2>1, <2>2 DEF workers
<1>2. ASSUME NEW v \in Workers, v # w,
             Work(v) \/ ApiError(v) \/ \E u \in UIDs : Begin(v, u)
      PROVE  UNCHANGED <<at[w], item[w], svc[w], name[w]>> /\ ~MovesOn(w)
  <2>1. UNCHANGED <<at[w], item[w], svc[w], name[w]>>
    BY <1>2 DEF Work, CleanupLookup, CleanupDelete, DeployLookup, DeployCreate,
                DeployResources, ApiError, Begin, Goto, Return, TypeOK
  <2>2. ~MovesOn(w)
    BY <2>1 DEF MovesOn, CleanupLookup, DeployLookup, DeployCreate, Goto, Return, TypeOK
  <2> QED BY <2>1, <2>2
<1>3. ASSUME CleanupDelete(w) \/ DeployResources(w) \/ ApiError(w) PROVE FALSE
  BY <1>3 DEF CleanupDelete, DeployResources, ApiError, Return, Goto, TypeOK
<1>4. ASSUME MovesOn(w)
      PROVE  at[w] # "idle" /\ UNCHANGED <<phase, cache, pending, item, svc>>
  <2>1. at[w] # "idle" /\ ~Return(w, FALSE)
    BY <1>4 DEF MovesOn, CleanupLookup, DeployLookup, DeployCreate, Return, Goto, TypeOK
  <2> QED BY <1>4, <2>1 DEF MovesOn, CleanupLookup, DeployLookup, DeployCreate
<1>5. ~Restart
  BY DEF Restart
<1> QED BY <1>1, <1>2, <1>3, <1>4, <1>5, NextCases DEF Work, MovesOn

\* A service whose entry in the cache changes is queued, unless the cache never
\* had it as existing or another service now has its namespace and name.
LEMMA SeenChange ==
  ASSUME IInv, [Next]_vars, NEW u \in UIDs, seen'[u] # seen[u], ~Restart
  PROVE  \/ u \in pending'
         \/ seen'[u] = "gone" /\ (Exists(seen[u]) => SameKey(u) # {u})
<1> USE DEF IInv
<1>1. CASE List
  <2>1. seen'[u] = phase[u] /\ phase[u] \in Phases
    BY <1>1 DEF List, TypeOK
  <2>2. phase[u] # "unborn"
    BY <2>1 DEF CacheOK, TypeOK, Phases
  <2>3. CASE Exists(phase[u])
    BY <1>1, <2>3 DEF List
  <2>4. CASE phase[u] = "gone" /\ Exists(seen[u]) /\ SameKey(u) = {u}
    <3>1. Vanished(u)
      BY <2>4 DEF Vanished, Exists
    <3> QED BY <1>1, <3>1 DEF List
  <2> QED BY <2>1, <2>2, <2>3, <2>4 DEF Exists, Phases
<1>2. ASSUME NEW v \in UIDs, Watch(v) PROVE u \in pending'
  BY <1>2 DEF Watch, TypeOK
<1>3. seen' = seen \/ List \/ \E v \in UIDs : Watch(v)
  BY DEF Next, Work, CreateService, DeleteService, Resync, StartInformer, FirstList, Relist,
         Begin, CleanupLookup, CleanupDelete, DeployLookup, DeployCreate, DeployResources,
         ApiError, RancherManage, RancherRemove, SyncStaleResources, ForeignImport, vars, cache
<1> QED BY <1>1, <1>2, <1>3

\* An item leaves the queue only when a worker begins it.
LEMMA PendingKept ==
  ASSUME IInv, [Next]_vars, NEW u \in pending, ~Restart
  PROVE  u \in pending' \/ \E w \in Workers : Begin(w, u)
<1>1. CASE Elsewhere
  BY <1>1 DEF Elsewhere, CreateService, DeleteService, Watch, Resync, StartInformer,
              FirstList, Relist, List, RancherManage, RancherRemove, SyncStaleResources,
              ForeignImport, vars
<1>2. ASSUME NEW w \in Workers, Work(w) \/ ApiError(w) PROVE u \in pending'
  BY <1>2 DEF Work, CleanupLookup, CleanupDelete, DeployLookup, DeployCreate,
              DeployResources, ApiError, Return
<1>3. ASSUME NEW w \in Workers, NEW v \in UIDs, Begin(w, v), v # u PROVE u \in pending'
  BY <1>3 DEF Begin
<1> QED BY <1>1, <1>2, <1>3, NextCases

\* Nothing is owed any more for a service only when the worker that has its
\* item returns without asking again, after an event was taken out of the queue
\* and none has followed.
GivesUp(w) ==
  /\ CleanupLookup(w) \/ CleanupDelete(w) \/ DeployLookup(w) \/ DeployResources(w)
  /\ Return(w, FALSE)

LEMMA OwedKept ==
  ASSUME IInv, [Next]_vars, NEW u \in UIDs, Owed(u), ~Owed(u)', ~Restart
  PROVE  \E w \in Workers : item[w] = u /\ u \notin pending /\ GivesUp(w)
<1> USE DEF IInv
<1>1. u \notin pending' /\ \A w \in Workers : item'[w] # u
  BY DEF Owed
<1>2. ~ \E w \in Workers : Begin(w, u)
  BY <1>1 DEF Begin, TypeOK
<1>3. u \notin pending
  BY <1>1, <1>2, PendingKept
<1>4. PICK w \in Workers : item[w] = u
  BY <1>3 DEF Owed
<1>5. at[w] # "idle"
  BY <1>4, NoneAssumption DEF WorkersOK
<1>6. item'[w] # item[w]
  BY <1>1, <1>4
<1>7. ~Elsewhere
  BY <1>6, WorkersElsewhere DEF workers
<1>8. ASSUME NEW v \in Workers, Work(v) \/ ApiError(v) \/ \E x \in UIDs : Begin(v, x)
      PROVE  v = w /\ ~ \E x \in UIDs : Begin(v, x)
  BY <1>5, <1>6, <1>8 DEF Work, CleanupLookup, CleanupDelete, DeployLookup, DeployCreate,
                          DeployResources, ApiError, Begin, Return, TypeOK
<1>9. ASSUME Return(w, TRUE) PROVE FALSE
  BY <1>1, <1>4, <1>9 DEF Return
<1>10. Work(w)
  BY <1>7, <1>8, <1>9, NextCases DEF ApiError
<1>11. \/ Return(w, FALSE) \/ UNCHANGED item
  BY <1>9, <1>10 DEF Work, CleanupLookup, CleanupDelete, DeployLookup, DeployCreate,
                     DeployResources
<1>12. Return(w, FALSE) /\ ~DeployCreate(w)
  BY <1>6, <1>11 DEF DeployCreate
<1> QED BY <1>3, <1>4, <1>10, <1>12 DEF Work, GivesUp

\* Where the clusters after a step come from.
KeptCluster(n) ==
  /\ clusters[n] # None
  /\ clusters'[n].uid = clusters[n].uid
  /\ clusters'[n].mine = clusters[n].mine
  /\ clusters[n].managed => clusters'[n].managed
  /\ clusters'[n].deleting
       => \/ clusters[n].deleting
          \/ SyncStaleResources(n)
          \/ \E w \in Workers : CleanupDelete(w) /\ name[w] = n

LEMMA ClusterHistory ==
  ASSUME IInv, [Next]_vars, NEW n \in Names, clusters'[n] # None
  PROVE  \/ KeptCluster(n)
         \/ \E w \in Workers :
              /\ DeployCreate(w) /\ clusters[n] = None
              /\ clusters'[n] = NewCluster(svc[w], TRUE)
         \/ \E v \in Foreign :
              /\ ForeignImport(v, n)
              /\ clusters'[n] = NewCluster(v, FALSE)
<1> USE DEF IInv
<1>1. ASSUME clusters'[n] = clusters[n] PROVE KeptCluster(n)
  BY <1>1 DEF KeptCluster
<1>2. ASSUME clusters[n] # None, MarkDeleted(n),
             SyncStaleResources(n) \/ \E w \in Workers : CleanupDelete(w) /\ name[w] = n
      PROVE  KeptCluster(n)
  <2>1. clusters[n] \in Clusters
    BY <1>2 DEF TypeOK
  <2> QED BY <1>2, <2>1 DEF MarkDeleted, KeptCluster, TypeOK, Clusters
<1>3. ASSUME RancherManage(n) PROVE KeptCluster(n)
  <2>1. clusters[n] \in Clusters /\ clusters[n] # None
    BY <1>3 DEF RancherManage, TypeOK
  <2> QED BY <1>3, <2>1 DEF RancherManage, KeptCluster, TypeOK, Clusters
<1>4. ASSUME NEW m \in Names, m # n,
             RancherManage(m) \/ RancherRemove(m) \/ SyncStaleResources(m)
      PROVE  clusters'[n] = clusters[n]
  BY <1>4 DEF RancherManage, RancherRemove, SyncStaleResources, MarkDeleted, TypeOK
<1>5. ~RancherRemove(n)
  BY DEF RancherRemove, TypeOK
<1>6. ASSUME NEW v \in Foreign, NEW m \in Names, ForeignImport(v, m)
      PROVE  \/ clusters'[n] = clusters[n]
             \/ ForeignImport(v, n) /\ clusters'[n] = NewCluster(v, FALSE)
  BY <1>6 DEF ForeignImport, TypeOK
<1>7. ASSUME NEW w \in Workers, CleanupDelete(w) PROVE KeptCluster(n)
  <2>1. name[w] \in Names
    BY <1>7 DEF CleanupDelete, WorkersOK
  <2>2. clusters' = clusters \/ (clusters[name[w]] # None /\ MarkDeleted(name[w]))
    BY <1>7 DEF CleanupDelete
  <2>3. CASE name[w] = n /\ clusters[name[w]] # None /\ MarkDeleted(name[w])
    BY <1>2, <1>7, <2>3
  <2>4. CASE name[w] # n /\ MarkDeleted(name[w])
    BY <1>1, <2>1, <2>4 DEF MarkDeleted, TypeOK
  <2> QED BY <1>1, <2>2, <2>3, <2>4
<1>8. ASSUME NEW w \in Workers, DeployCreate(w)
      PROVE  \/ clusters'[n] = clusters[n]
             \/ clusters[n] = None /\ clusters'[n] = NewCluster(svc[w], TRUE)
  <2>1. svc[w] \in UIDs
    BY <1>8 DEF DeployCreate, WorkersOK
  <2> QED BY <1>8, <2>1, NamesAssumption DEF DeployCreate, TypeOK
<1>9. \/ clusters' = clusters
      \/ \E m \in Names : RancherManage(m) \/ RancherRemove(m) \/ SyncStaleResources(m)
      \/ \E v \in Foreign, m \in Names : ForeignImport(v, m)
      \/ \E w \in Workers : CleanupDelete(w) \/ DeployCreate(w)
  BY DEF Next, Work, CreateService, DeleteService, Watch, Resync, StartInformer, FirstList,
         Relist, Begin, CleanupLookup, DeployLookup, DeployResources, ApiError, Restart, vars
<1>10. SyncStaleResources(n) => clusters[n] # None /\ MarkDeleted(n)
  BY DEF SyncStaleResources
<1> QED BY <1>1, <1>2, <1>3, <1>4, <1>5, <1>6, <1>7, <1>8, <1>9, <1>10

-----------------------------------------------------------------------------
(* What the workers know                                                   *)

\* No other service has had the namespace and name of u.
Alone(u) == SameKey(u) = {u}

\* A service is created only after its former ones are gone, and the events of
\* one namespace and name keep their order on the way to the cache.
KeyOK ==
  \A u \in UIDs : \A v \in Earlier[u] :
    /\ phase[u] # "unborn" => phase[v] = "gone"
    /\ seen[u] # "unborn" => seen[v] = "gone"

\* A worker acts for a service with its item's namespace and name.  What it
\* may overlook, because it read the cache when it began, is queued already:
\* that its item's service has come, or that it is going.
HeldOK ==
  \A w \in Workers : at[w] # "idle" =>
    /\ svc[w] \in SameKey(item[w])
    /\ svc[w] # item[w] /\ seen[item[w]] = "live" => item[w] \in pending
    /\ at[w] \in {"deploy", "create", "resources"} /\ Alone(item[w]) /\ seen[item[w]] # "live"
         => item[w] \in pending

\* A worker acts only for a service that was there when it began.
BegunOK == \A w \in Workers : at[w] # "idle" => phase[svc[w]] # "unborn"

\* Nothing is created for a service that is skipped.
SkippedOK ==
  /\ \A w \in Workers : at[w] \in {"create", "resources"} => svc[w] \notin Skipped
  /\ \A n \in Names : clusters[n] # None =>
       /\ clusters[n].mine => clusters[n].uid \notin Skipped
       /\ ~clusters[n].mine => clusters[n].uid \in Foreign

\* A cluster that is being deleted belongs to a service that is leaving, if no
\* other service can have its name.
DeletingOK ==
  \A n \in Names :
    clusters[n] # None /\ clusters[n].deleting /\ OwnName(n) => Leaving(clusters[n].uid)

\* The service a worker acts for is its item, unless there was a former one,
\* and no other worker has that item.  So what its lookup found stays true: no
\* cluster until it has created one, or none but the one it is to delete.
LookupStillTrue ==
  \A w \in Workers, n \in Names :
    at[w] # "idle" /\ Alone(svc[w]) /\ ClusterOf(n, svc[w])
      => /\ at[w] # "create"
         /\ at[w] = "delete" => n = name[w]

OneIfAlone == \A u \in UIDs : Alone(u) => AtMostOneCluster(u)

KInv ==
  /\ IInv /\ KeyOK /\ HeldOK /\ BegunOK /\ SkippedOK /\ DeletingOK
  /\ LookupStillTrue /\ OneIfAlone

LEMMA InitKInv == Init => KInv
<1> SUFFICES ASSUME Init PROVE KInv
  OBVIOUS
<1>1. KeyOK
  BY EarlierAssumption DEF Init, KeyOK
<1>2. HeldOK /\ BegunOK /\ SkippedOK /\ DeletingOK /\ LookupStillTrue
  BY DEF Init, HeldOK, BegunOK, SkippedOK, DeletingOK, LookupStillTrue
<1>3. OneIfAlone
  BY DEF Init, OneIfAlone, AtMostOneCluster, ClusterOf
<1> QED BY <1>1, <1>2, <1>3, InitIInv DEF KInv

LEMMA StepKeyOK == KInv /\ [Next]_vars => KeyOK'
<1> SUFFICES ASSUME KInv, [Next]_vars, NEW u \in UIDs, NEW v \in Earlier[u]
             PROVE  /\ phase'[u] # "unborn" => phase'[v] = "gone"
                    /\ seen'[u] # "unborn" => seen'[v] = "gone"
  BY DEF KeyOK
<1> USE DEF KInv, IInv
<1>1. v \in UIDs
  BY EarlierAssumption
<1>2. ASSUME phase'[u] # "unborn" PROVE phase'[v] = "gone"
  <2>1. CASE phase' = phase
    BY <1>2, <2>1 DEF KeyOK
  <2>2. ASSUME NEW x \in UIDs, CreateService(x) PROVE phase'[v] = "gone"
    BY <1>1, <1>2, <2>2 DEF CreateService, KeyOK, TypeOK
  <2>3. ASSUME NEW x \in UIDs, DeleteService(x) PROVE phase'[v] = "gone"
    BY <1>1, <1>2, <2>3 DEF DeleteService, Exists, KeyOK, TypeOK
  <2>4. phase' = phase \/ \E x \in UIDs : CreateService(x) \/ DeleteService(x)
    BY DEF Next, Work, Watch, Resync, StartInformer, FirstList, Relist, Begin, CleanupLookup,
           CleanupDelete, DeployLookup, DeployCreate, DeployResources, ApiError,
           RancherManage, RancherRemove, SyncStaleResources, ForeignImport, Restart, vars
  <2> QED BY <2>1, <2>2, <2>3, <2>4
<1>3. ASSUME seen'[u] # "unborn" PROVE seen'[v] = "gone"
  <2>1. CASE seen' = seen
    BY <1>3, <2>1 DEF KeyOK
  <2>2. CASE List
    BY <1>1, <1>3, <2>2 DEF List, KeyOK
  <2>3. CASE Watch(u)
    <3>1. u # v
      BY EarlierAssumption
    <3>2. seen[v] = "gone"
      <4>1. PICK p \in NextSeen(u) : seen' = [seen EXCEPT ![u] = p]
        BY <2>3 DEF Watch
      <4>2. CASE seen[u] = "unborn"
        BY <4>1, <4>2 DEF NextSeen
      <4>3. CASE seen[u] # "unborn"
        BY <4>3 DEF KeyOK
      <4> QED BY <4>2, <4>3
    <3> QED BY <1>1, <2>3, <3>1, <3>2 DEF Watch, TypeOK
  <2>4. ASSUME NEW x \in UIDs, Watch(x), x # u PROVE seen'[v] = "gone"
    <3>1. seen[u] # "unborn"
      BY <1>3, <2>4 DEF Watch, TypeOK
    <3>2. seen[v] = "gone" /\ phase[v] = "gone"
      BY <1>1, <3>1 DEF KeyOK, CacheOK
    <3>3. x # v
      BY <2>4, <3>2 DEF Watch, NextSeen
    <3> QED BY <1>1, <2>4, <3>2, <3>3 DEF Watch, TypeOK
  <2>5. ~Restart
    BY <1>3 DEF Restart
  <2>6. seen' = seen \/ List \/ \E x \in UIDs : Watch(x)
    BY <2>5
    DEF Next, Work, CreateService, DeleteService, Resync, StartInformer, FirstList, Relist,
        Begin, CleanupLookup, CleanupDelete, DeployLookup, DeployCreate, DeployResources,
        ApiError, RancherManage, RancherRemove, SyncStaleResources, ForeignImport, vars, cache
  <2> QED BY <2>1, <2>2, <2>3, <2>4, <2>6
<1> QED BY <1>2, <1>3

LEMMA StepHeldOK == KInv /\ [Next]_vars => HeldOK'
<1> SUFFICES ASSUME KInv, [Next]_vars, NEW w \in Workers, at'[w] # "idle"
             PROVE  /\ svc'[w] \in SameKey(item'[w])
                    /\ svc'[w] # item'[w] /\ seen'[item'[w]] = "live" => item'[w] \in pending'
                    /\ /\ at'[w] \in {"deploy", "create", "resources"}
                       /\ Alone(item'[w]) /\ seen'[item'[w]] # "live"
                       => item'[w] \in pending'
  BY DEF HeldOK, Alone
<1> USE DEF KInv, IInv
<1>1. CASE UNCHANGED <<at[w], item[w], svc[w], name[w]>>
  <2>1. at[w] # "idle" /\ item[w] \in UIDs /\ ~Restart
    BY <1>1 DEF WorkersOK, Restart
  <2>2. ~ \E v \in Workers : Begin(v, item[w])
    BY DEF Begin, Free
  <2>3. item[w] \in pending => item[w] \in pending'
    BY <2>1, <2>2, PendingKept
  <2>4. CASE seen'[item[w]] = seen[item[w]]
    BY <1>1, <2>1, <2>3, <2>4 DEF HeldOK
  <2>5. CASE item[w] \in pending'
    BY <1>1, <2>1, <2>5 DEF HeldOK
  <2>6. CASE seen'[item[w]] = "gone" /\ (Exists(seen[item[w]]) => ~Alone(item[w]))
    BY <1>1, <2>1, <2>3, <2>6 DEF HeldOK, Exists
  <2> QED BY <2>1, <2>4, <2>5, <2>6, SeenChange DEF Alone
<1>2. ASSUME NEW u \in UIDs, Begin(w, u)
      PROVE  /\ svc'[w] \in SameKey(item'[w])
             /\ svc'[w] = item'[w] \/ seen'[item'[w]] # "live"
             /\ at'[w] = "cleanup" \/ (at'[w] = "deploy" /\ (Alone(u) => seen'[item'[w]] = "live"))
  <2>1. item'[w] = u /\ seen' = seen /\ u \in SameKey(u)
    BY <1>2 DEF Begin, cache, SameKey, TypeOK
  <2>2. \/ svc'[w] = u /\ at'[w] = "cleanup"
        \/ \E v \in SameKey(u) :
             /\ Exists(seen[v]) /\ svc'[w] = v
             /\ at'[w] = IF seen[v] = "terminating" THEN "cleanup" ELSE "deploy"
    BY <1>2 DEF Begin, Goto, TypeOK
  <2>3. ASSUME NEW v \in SameKey(u), Exists(seen[v]), v # u PROVE seen[u] # "live"
    <3>1. v \in UIDs /\ (v \in Earlier[u] \/ u \in Earlier[v])
      BY <2>3 DEF SameKey
    <3> QED BY <2>3, <3>1 DEF KeyOK, Exists
  <2> QED BY <2>1, <2>2, <2>3 DEF Alone, Exists
<1>3. CASE MovesOn(w) /\ at[w] # "idle" /\ UNCHANGED <<phase, cache, pending, item, svc>>
  <2>1. at'[w] \in {"create", "resources"} => at[w] \in {"deploy", "create"}
    BY <1>3 DEF MovesOn, CleanupLookup, DeployLookup, DeployCreate, Return, Goto, TypeOK
  <2>2. at'[w] # "deploy"
    BY <1>3 DEF MovesOn, CleanupLookup, DeployLookup, DeployCreate, Return, Goto, TypeOK
  <2> QED BY <1>3, <2>1, <2>2 DEF HeldOK, cache
<1> QED
  <2>1. CASE \E u \in UIDs : Begin(w, u)
    <3>1. PICK u \in UIDs : Begin(w, u)
      BY <2>1
    <3>2. item'[w] = u
      BY <3>1 DEF Begin, TypeOK
    <3> QED BY <1>2, <3>1, <3>2
  <2> QED BY <1>1, <1>3, <2>1, BusyAfter

LEMMA StepBegunOK == KInv /\ [Next]_vars => BegunOK'
<1> SUFFICES ASSUME KInv, [Next]_vars, NEW w \in Workers, at'[w] # "idle"
             PROVE  phase'[svc'[w]] # "unborn"
  BY DEF BegunOK
<1> USE DEF KInv, IInv
<1>1. ASSUME NEW u \in UIDs, phase[u] # "unborn" PROVE phase'[u] # "unborn"
  <2>1. CASE phase' = phase
    BY <1>1, <2>1
  <2>2. ASSUME NEW v \in UIDs, CreateService(v) \/ DeleteService(v) PROVE phase'[u] # "unborn"
    BY <1>1, <2>2 DEF CreateService, DeleteService, TypeOK
  <2>3. \/ phase' = phase
        \/ \E v \in UIDs : CreateService(v) \/ DeleteService(v)
    BY DEF Next, Work, Watch, Resync, StartInformer, FirstList, Relist, Begin, CleanupLookup,
           CleanupDelete, DeployLookup, DeployCreate, DeployResources, ApiError,
           RancherManage, RancherRemove, SyncStaleResources, ForeignImport, Restart, vars
  <2> QED BY <2>1, <2>2, <2>3
<1>2. CASE UNCHANGED <<at[w], item[w], svc[w], name[w]>>
  BY <1>1, <1>2 DEF BegunOK, WorkersOK
<1>3. ASSUME NEW u \in UIDs, Begin(w, u) PROVE phase'[svc'[w]] # "unborn"
  <2>1. phase[u] # "unborn"
    BY <1>3 DEF Begin, Owed, CacheOK
  <2>2. \A v \in UIDs : Exists(seen[v]) => phase[v] # "unborn"
    BY DEF Exists, CacheOK
  <2>3. svc'[w] = u \/ \E v \in SameKey(u) : Exists(seen[v]) /\ svc'[w] = v
    BY <1>3 DEF Begin, TypeOK
  <2> QED BY <1>3, <2>1, <2>2, <2>3 DEF Begin, SameKey
<1>4. CASE MovesOn(w) /\ at[w] # "idle" /\ UNCHANGED <<phase, cache, pending, item, svc>>
  BY <1>4 DEF BegunOK
<1> QED BY <1>2, <1>3, <1>4, BusyAfter

LEMMA StepSkippedOK == KInv /\ [Next]_vars => SkippedOK'
<1> SUFFICES ASSUME KInv, [Next]_vars PROVE SkippedOK'
  OBVIOUS
<1> USE DEF KInv, IInv
<1>1. ASSUME NEW w \in Workers, at'[w] \in {"create", "resources"} PROVE svc'[w] \notin Skipped
  <2>1. CASE UNCHANGED <<at[w], item[w], svc[w], name[w]>>
    BY <1>1, <2>1 DEF SkippedOK
  <2>2. ~ \E u \in UIDs : Begin(w, u)
    BY <1>1 DEF Begin, Goto, TypeOK
  <2>3. CASE MovesOn(w) /\ UNCHANGED <<phase, cache, pending, item, svc>>
    BY <1>1, <2>3 DEF MovesOn, CleanupLookup, DeployLookup, DeployCreate, Return, Goto,
                      SkippedOK, TypeOK
  <2> QED BY <1>1, <2>1, <2>2, <2>3, BusyAfter
<1>2. ASSUME NEW n \in Names, clusters'[n] # None
      PROVE  /\ clusters'[n].mine => clusters'[n].uid \notin Skipped
             /\ ~clusters'[n].mine => clusters'[n].uid \in Foreign
  <2>1. CASE KeptCluster(n)
    BY <2>1 DEF KeptCluster, SkippedOK
  <2>2. ASSUME NEW w \in Workers, DeployCreate(w), clusters'[n] = NewCluster(svc[w], TRUE)
        PROVE  clusters'[n].mine /\ clusters'[n].uid \notin Skipped
    BY <2>2 DEF DeployCreate, NewCluster, SkippedOK
  <2>3. ASSUME NEW v \in Foreign, clusters'[n] = NewCluster(v, FALSE)
        PROVE  ~clusters'[n].mine /\ clusters'[n].uid \in Foreign
    BY <2>3 DEF NewCluster
  <2> QED BY <1>2, <2>1, <2>2, <2>3, ClusterHistory
<1> QED BY <1>1, <1>2 DEF SkippedOK

LEMMA StepDeletingOK == KInv /\ [Next]_vars => DeletingOK'
<1> SUFFICES ASSUME KInv, [Next]_vars, NEW n \in Names, clusters'[n] # None,
                    clusters'[n].deleting, OwnName(n)
             PROVE  Leaving(clusters[n].uid)'
  BY DEF DeletingOK, OwnName
<1> USE DEF KInv, IInv
<1>1. KeptCluster(n)
  <2>1. ASSUME NEW u, NEW mine PROVE ~NewCluster(u, mine).deleting
    BY Zenon DEF NewCluster
  <2> QED BY <2>1, ClusterHistory
<1>2. clusters[n].uid \in UIDs /\ clusters[n].mine \in BOOLEAN
  BY <1>1 DEF KeptCluster, TypeOK, Clusters
<1>3. Leaving(clusters[n].uid)
  <2>1. CASE clusters[n].deleting
    BY <1>1, <2>1 DEF KeptCluster, DeletingOK
  <2>2. CASE SyncStaleResources(n)
    BY <2>2 DEF SyncStaleResources, Stale, Leaving
  <2>3. ASSUME NEW w \in Workers, CleanupDelete(w), name[w] = n
        PROVE  Leaving(clusters[n].uid)
    <3>1. Leaving(svc[w]) /\ n \in NamesOf[svc[w]] /\ svc[w] \in UIDs
      BY <2>3 DEF CleanupDelete, CleanupOK, WorkersOK
    <3>2. n \in NamesOf[clusters[n].uid]
      BY <1>1, <1>2, <3>1 DEF KeptCluster, NamesOK
    <3> QED BY <1>2, <3>1, <3>2 DEF OwnName
  <2> QED BY <1>1, <2>1, <2>2, <2>3 DEF KeptCluster
<1>4. Leaving(clusters[n].uid)' <=> phase'[clusters[n].uid] \in {"terminating", "gone"}
  BY <1>1 DEF KeptCluster, Leaving
<1> QED BY <1>2, <1>3, <1>4, LeavingForGood DEF Leaving

\* A cluster that a service did not have before was created by its worker.
LEMMA ClusterOfBefore ==
  ASSUME IInv, [Next]_vars, NEW n \in Names, NEW u \in UIDs, ClusterOf(n, u)'
  PROVE  \/ ClusterOf(n, u)
         \/ \E w \in Workers : DeployCreate(w) /\ clusters[n] = None /\ svc[w] = u
<1>1. clusters'[n] # None /\ clusters'[n].uid = u /\ clusters'[n].mine
  BY DEF ClusterOf
<1>2. CASE KeptCluster(n)
  BY <1>1, <1>2 DEF KeptCluster, ClusterOf
<1>3. ASSUME NEW v PROVE NewCluster(v, TRUE).uid = v /\ ~NewCluster(v, FALSE).mine
  BY Zenon DEF NewCluster
<1> QED BY <1>1, <1>2, <1>3, ClusterHistory

\* Workers that act for one service, without a former one, are the same worker.
LEMMA OneWorker ==
  ASSUME KInv, NEW v \in Workers, NEW w \in Workers, at[v] # "idle", at[w] # "idle",
         svc[v] = svc[w], Alone(svc[w])
  PROVE  v = w
<1> USE DEF KInv, IInv
<1>1. ASSUME NEW x \in Workers, at[x] # "idle", Alone(svc[x]) PROVE item[x] = svc[x]
  <2>1. svc[x] \in SameKey(item[x]) /\ item[x] \in UIDs /\ svc[x] \in UIDs
    BY <1>1 DEF HeldOK, WorkersOK
  <2>2. item[x] \in SameKey(svc[x])
    BY <2>1 DEF SameKey
  <2> QED BY <1>1, <2>2 DEF Alone
<1>2. item[v] = item[w] /\ item[w] # None
  BY <1>1, NoneAssumption DEF WorkersOK
<1> QED BY <1>2 DEF WorkersOK

LEMMA StepLookupStillTrue == KInv /\ [Next]_vars => LookupStillTrue'
<1> SUFFICES ASSUME KInv, [Next]_vars, NEW w \in Workers, NEW n \in Names,
                    at'[w] # "idle", Alone(svc'[w]), ClusterOf(n, svc[w])'
             PROVE  at'[w] # "create" /\ (at'[w] = "delete" => n = name'[w])
  BY DEF LookupStillTrue, Alone
<1> USE DEF KInv, IInv
<1>1. CASE UNCHANGED <<at[w], item[w], svc[w], name[w]>> /\ ~MovesOn(w)
  <2>1. at[w] # "idle" /\ svc[w] \in UIDs /\ Alone(svc[w])
    BY <1>1 DEF WorkersOK
  <2>2. ClusterOf(n, svc[w])
    <3>1. ClusterOf(n, svc[w])' <=>
            clusters'[n] # None /\ clusters'[n].uid = svc[w] /\ clusters'[n].mine
      BY <1>1 DEF ClusterOf
    <3>2. ASSUME NEW v \in Workers, DeployCreate(v), svc[v] = svc[w] PROVE FALSE
      <4>1. at[v] # "idle"
        BY <3>2 DEF DeployCreate
      <4>2. v = w
        BY <2>1, <3>2, <4>1, OneWorker
      <4> QED BY <1>1, <3>2, <4>2 DEF MovesOn
    <3>3. \A u \in UIDs : u = svc[w] => ClusterOf(n, u)'
      BY <3>1 DEF ClusterOf
    <3> QED BY <2>1, <3>2, <3>3, ClusterOfBefore
  <2> QED BY <1>1, <2>1, <2>2 DEF LookupStillTrue
<1>2. CASE \E u \in UIDs : Begin(w, u)
  BY <1>2 DEF Begin, Goto, TypeOK
<1>3. CASE MovesOn(w) /\ at[w] # "idle" /\ UNCHANGED <<phase, cache, pending, item, svc>>
  <2>1. CASE DeployCreate(w)
    BY <2>1 DEF DeployCreate, Goto, TypeOK
  <2>2. CASE DeployLookup(w)
    BY <1>3, <2>2 DEF DeployLookup, Return, Goto, Labelled, ClusterOf, TypeOK
  <2>3. CASE CleanupLookup(w)
    <3>1. PICK m \in Names : /\ ClusterOf(m, svc[w])
                             /\ name' = [name EXCEPT ![w] = m]
                             /\ at' = [at EXCEPT ![w] = "delete"]
                             /\ clusters' = clusters
      BY <2>3 DEF CleanupLookup, Return, Goto, Labelled, ClusterOf, TypeOK
    <3>2. svc[w] \in UIDs /\ Alone(svc[w]) /\ ClusterOf(n, svc[w])
      BY <1>3, <3>1 DEF WorkersOK, ClusterOf
    <3>3. n = m
      BY <3>1, <3>2 DEF OneIfAlone, AtMostOneCluster
    <3> QED BY <3>1, <3>3 DEF TypeOK
  <2> QED BY <1>3, <2>1, <2>2, <2>3 DEF MovesOn
<1> QED BY <1>1, <1>2, <1>3, BusyAfter

LEMMA StepOneIfAlone == KInv /\ [Next]_vars => OneIfAlone'
<1> SUFFICES ASSUME KInv, [Next]_vars, NEW u \in UIDs, Alone(u),
                    NEW m \in Names, NEW n \in Names, ClusterOf(m, u)', ClusterOf(n, u)'
             PROVE  m = n
  BY DEF OneIfAlone, AtMostOneCluster, Alone, ClusterOf
<1> USE DEF KInv, IInv
<1>1. CASE ClusterOf(m, u) /\ ClusterOf(n, u)
  BY <1>1 DEF OneIfAlone, AtMostOneCluster
<1>2. ASSUME NEW w \in Workers, DeployCreate(w), svc[w] = u PROVE m = n
  <2>1. ~ClusterOf(m, u) /\ ~ClusterOf(n, u)
    BY <1>2 DEF DeployCreate, LookupStillTrue
  <2>2. PICK k \in NamesOf[svc[w]] :
          \/ clusters' = clusters
          \/ clusters' = [clusters EXCEPT ![k] = NewCluster(svc[w], TRUE)]
    BY <1>2 DEF DeployCreate
  <2>3. k \in Names
    BY <1>2, <2>2, NamesAssumption
  <2> QED BY <2>1, <2>2, <2>3 DEF ClusterOf, TypeOK
<1> QED BY <1>1, <1>2, ClusterOfBefore

\* What the workers know holds in every reachable state.
THEOREM Knowledge == Spec => []KInv
<1>1. KInv /\ [Next]_vars => IInv'
  BY StepIInv DEF KInv
<1>2. KInv /\ [Next]_vars => KInv'
  BY <1>1, StepKeyOK, StepHeldOK, StepBegunOK, StepSkippedOK, StepDeletingOK,
     StepLookupStillTrue, StepOneIfAlone DEF KInv
<1> QED BY InitKInv, <1>2, PTL DEF Spec

-----------------------------------------------------------------------------
(* One cluster for each service                                            *)

\* Either there was no other service with its namespace and name, or the name
\* of its cluster is not generated.
Unmistaken(u) == Alone(u) \/ \A m, n \in NamesOf[u] : m = n

LEMMA OneClusterOf ==
  ASSUME KInv, NEW u \in UIDs, Unmistaken(u)
  PROVE  AtMostOneCluster(u)
<1>1. CASE Alone(u)
  BY <1>1 DEF KInv, OneIfAlone
<1>2. CASE \A m, n \in NamesOf[u] : m = n
  BY <1>2 DEF KInv, IInv, NamesOK, AtMostOneCluster, ClusterOf
<1> QED BY <1>1, <1>2 DEF Unmistaken

\* However long a worker waits between its lookup and its create, a service
\* never has two clusters: unless it is one of several that had the same
\* namespace and name, whose items two workers may hold at once, and the API
\* server makes up the name of its cluster.
THEOREM OneClusterIfUnmistaken ==
  ASSUME NEW u \in UIDs, Unmistaken(u)
  PROVE  Spec => []AtMostOneCluster(u)
<1>1. KInv => AtMostOneCluster(u)
  BY OneClusterOf
<1> QED BY <1>1, Knowledge, PTL

\* So no service ever has two clusters, when none is re-created or no name is
\* generated.
THEOREM OneCluster ==
  ASSUME \A u \in UIDs : Unmistaken(u)
  PROVE  Spec => []OneClusterEach
<1>1. KInv => OneClusterEach
  BY OneClusterOf DEF OneClusterEach
<1> QED BY <1>1, Knowledge, PTL

-----------------------------------------------------------------------------
(* Imports and clean-ups are not forgotten                                 *)

\* A worker that gives up its item while the item's service is live in the
\* cache and in the host cluster leaves a managed cluster behind, or a new event.
LEMMA GivesUpImported ==
  ASSUME KInv, [Next]_vars, NEW w \in Workers, GivesUp(w), item[w] \notin pending',
         item[w] \notin pending, item[w] \notin Skipped,
         seen[item[w]] = "live", phase[item[w]] = "live"
  PROVE  \E n \in Names : Managed(n, item[w])
<1> USE DEF KInv, IInv
<1>1. at[w] # "idle"
  BY DEF GivesUp, CleanupLookup, CleanupDelete, DeployLookup, DeployResources
<1>2. svc[w] = item[w]
  BY <1>1 DEF HeldOK
<1>3. at[w] \notin {"cleanup", "delete"}
  BY <1>2 DEF CleanupOK, Leaving
<1>4. at'[w] = "idle"
  BY DEF GivesUp, Return, Goto, TypeOK
<1>5. ~DeployLookup(w)
  BY <1>2, <1>4 DEF DeployLookup, Goto, TypeOK
<1>6. DeployResources(w)
  BY <1>3, <1>5 DEF GivesUp, CleanupLookup, CleanupDelete
<1>7. ASSUME Return(w, TRUE) PROVE FALSE
  BY <1>7 DEF Return
<1>8. ~RancherPending(svc[w])
  BY <1>6, <1>7 DEF DeployResources
<1> QED BY <1>2, <1>8 DEF RancherPending, Labelled, Managed

\* All the names a service can have are its own.
OwnNames(u) == \A n \in NamesOf[u] : OwnName(n)

\* The managed cluster of a service that stays does not go, under such names.
LEMMA ManagedKept ==
  ASSUME KInv, [Next]_vars, NEW u \in UIDs, OwnNames(u), phase[u] = "live",
         NEW n \in Names, Managed(n, u)
  PROVE  Managed(n, u)'
<1> USE DEF KInv, IInv
<1>1. clusters[n] # None /\ clusters[n].uid = u /\ clusters[n].managed
  BY DEF Managed
<1>2. CASE clusters'[n] # None
  <2>1. KeptCluster(n)
    BY <1>1, <1>2, ClusterHistory DEF ForeignImport
  <2> QED BY <1>1, <1>2, <2>1 DEF KeptCluster, Managed
<1>3. CASE clusters'[n] = None
  <2>1. RancherRemove(n)
    <3>1. ASSUME NEW m \in Names, RancherRemove(m) PROVE m = n
      BY <1>1, <1>3, <3>1 DEF RancherRemove, TypeOK
    <3>2. ASSUME NEW c \in Names, MarkDeleted(c) PROVE FALSE
      <4>1. clusters[n] \in Clusters
        BY <1>1 DEF TypeOK
      <4>2. clusters'[n] \in Clusters
        BY <3>2, <4>1 DEF MarkDeleted, TypeOK, Clusters
      <4> QED BY <1>3, <4>2, NoneAssumption
    <3>3. ASSUME NEW m \in Names, RancherManage(m) PROVE FALSE
      BY <1>1, <1>3, <3>3 DEF RancherManage, TypeOK, Clusters
    <3>4. ASSUME NEW m \in Names, NEW v \in Foreign, ForeignImport(v, m) PROVE FALSE
      BY <1>1, <1>3, <3>4 DEF ForeignImport, TypeOK
    <3>5. ASSUME NEW w \in Workers, DeployCreate(w) PROVE FALSE
      BY <1>1, <1>3, <3>5 DEF DeployCreate, TypeOK
    <3>6. ASSUME NEW w \in Workers, CleanupDelete(w) PROVE clusters' = clusters
      <4>1. name[w] \in Names
        BY <3>6 DEF CleanupDelete, WorkersOK
      <4> QED BY <3>2, <3>6, <4>1 DEF CleanupDelete
    <3>7. clusters' # clusters
      BY <1>1, <1>3
    <3>8. \/ clusters' = clusters
          \/ \E m \in Names : RancherManage(m) \/ RancherRemove(m) \/ SyncStaleResources(m)
          \/ \E v \in Foreign, m \in Names : ForeignImport(v, m)
          \/ \E w \in Workers : CleanupDelete(w) \/ DeployCreate(w)
      BY DEF Next, Work, CreateService, DeleteService, Watch, Resync, StartInformer,
             FirstList, Relist, Begin, CleanupLookup, DeployLookup, DeployResources,
             ApiError, Restart, vars
    <3> QED BY <3>1, <3>2, <3>3, <3>4, <3>5, <3>6, <3>7, <3>8 DEF SyncStaleResources
  <2>2. clusters[n].deleting /\ ~Leaving(u)
    BY <2>1 DEF RancherRemove, Leaving
  <2>3. OwnName(n)
    BY <1>1 DEF NamesOK, OwnNames, OwnName
  <2> QED BY <1>1, <2>2, <2>3 DEF DeletingOK
<1> QED BY <1>2, <1>3

LEMMA StepImportOwed ==
  ASSUME KInv, [Next]_vars, NEW u \in UIDs \ Skipped, OwnNames(u), ImportOwedFor(u)
  PROVE  ImportOwedFor(u)'
<1> SUFFICES ASSUME seen'[u] = "live", phase'[u] = "live",
                    ~ \E n \in Names : Managed(n, u)', ~Owed(u)'
             PROVE  FALSE
  BY DEF ImportOwedFor
<1> USE DEF KInv, IInv
<1>1. ~Restart /\ u \notin pending'
  BY DEF Restart, Owed
<1>2. seen[u] = "live"
  BY <1>1, SeenChange
<1>3. phase[u] = "live"
  <2>1. phase[u] # "unborn"
    BY <1>2 DEF CacheOK
  <2>2. ~Leaving(u)
    BY LeavingForGood DEF Leaving
  <2> QED BY <2>1, <2>2 DEF Leaving, TypeOK, Phases
<1>4. ~ \E n \in Names : Managed(n, u)
  BY <1>3, ManagedKept
<1>5. Owed(u)
  BY <1>2, <1>3, <1>4 DEF ImportOwedFor
<1>6. PICK w \in Workers : item[w] = u /\ u \notin pending /\ GivesUp(w)
  BY <1>1, <1>5, OwedKept
<1>7. \E n \in Names : Managed(n, u)
  BY <1>1, <1>2, <1>3, <1>6, GivesUpImported
<1> QED BY <1>4, <1>7

\* An import is not forgotten, however the service was re-created, what faults
\* there were and whatever a worker read before: as long as the service's names
\* are its own, so that nobody can take its cluster away.
THEOREM ImportOwedIfOwnNames ==
  ASSUME NEW u \in UIDs \ Skipped, OwnNames(u)
  PROVE  Spec => []ImportOwedFor(u)
<1>1. Init => ImportOwedFor(u)
  BY DEF Init, ImportOwedFor
<1>2. KInv /\ ImportOwedFor(u) /\ [Next]_vars => ImportOwedFor(u)'
  BY StepImportOwed
<1> QED BY <1>1, <1>2, Knowledge, PTL DEF Spec

\* So no import is forgotten, when no two services can have the same name.
THEOREM ImportsOwed ==
  ASSUME \A u, v \in UIDs : u # v => NamesOf[u] \cap NamesOf[v] = {}
  PROVE  Spec => []ImportOwed
<1>1. Init => ImportOwed
  BY DEF Init, ImportOwed, ImportOwedFor
<1>2. \A u \in UIDs : OwnNames(u)
  BY NamesAssumption DEF OwnNames, OwnName
<1>3. KInv /\ ImportOwed /\ [Next]_vars => ImportOwed'
  BY <1>2, StepImportOwed DEF ImportOwed
<1> QED BY <1>1, <1>3, Knowledge, PTL DEF Spec

\* Only a clean-up gives up the item of a service that has left the cache, and
\* a clean-up leaves no cluster of it that is not being deleted.
LEMMA StepKeepsCleanup ==
  ASSUME KInv, [Next]_vars, NEW u \in UIDs, Alone(u)
  PROVE  KeepsCleanupOf(u)
<1> SUFFICES ASSUME Exists(seen[u]) \/ Owed(u), informer' # "off", seen'[u] = "gone",
                    NEW n \in Names, ClusterOf(n, u)', ~clusters'[n].deleting, ~Owed(u)',
                    \A m \in Labelled(u) : clusters[m].mine
             PROVE  FALSE
  BY DEF KeepsCleanupOf
<1> USE DEF KInv, IInv
<1>1. ~Restart /\ u \notin pending'
  BY DEF Restart, Owed
<1>2. seen[u] = "gone"
  BY <1>1, SeenChange DEF Alone, CacheOK, Exists, TypeOK, Phases
<1>3. Owed(u)
  BY <1>2 DEF Exists
<1>4. PICK w \in Workers : item[w] = u /\ u \notin pending /\ GivesUp(w)
  BY <1>1, <1>3, OwedKept
<1>5. at[w] # "idle" /\ at'[w] = "idle" /\ ~Return(w, TRUE)
  BY <1>1, <1>4 DEF GivesUp, CleanupLookup, CleanupDelete, DeployLookup, DeployResources,
                    Return, Goto, TypeOK
<1>6. svc[w] = u /\ at[w] \notin {"deploy", "create", "resources"}
  BY <1>2, <1>4, <1>5 DEF HeldOK, Alone
<1>7. ClusterOf(n, u)
  <2>1. ASSUME NEW v \in Workers, DeployCreate(v), svc[v] = u PROVE FALSE
    <3>1. at[v] = "create"
      BY <2>1 DEF DeployCreate
    <3>2. v = w
      BY <1>5, <1>6, <2>1, <3>1, OneWorker
    <3> QED BY <1>6, <3>1, <3>2
  <2> QED BY <2>1, ClusterOfBefore
<1>8. CASE CleanupLookup(w)
  BY <1>5, <1>6, <1>7, <1>8 DEF CleanupLookup, Goto, Labelled, ClusterOf, TypeOK
<1>9. CASE CleanupDelete(w)
  <2>1. MarkDeleted(n)
    BY <1>5, <1>6, <1>7, <1>9 DEF CleanupDelete, LookupStillTrue
  <2>2. clusters[n] \in Clusters
    BY <1>7 DEF ClusterOf, TypeOK
  <2> QED BY <2>1, <2>2 DEF MarkDeleted, TypeOK, Clusters
<1> QED
  BY <1>4, <1>6, <1>8, <1>9 DEF GivesUp, DeployLookup, DeployResources

\* The clean-up of a service is not forgotten while the operator runs, whatever
\* was read before it went, whichever answers were lost and however late the
\* informer learnt of it; provided that the service does not re-create another
\* one.
THEOREM CleanupOwedIfAlone ==
  ASSUME NEW u \in UIDs, Alone(u)
  PROVE  Spec => [][KeepsCleanupOf(u)]_vars
<1>1. KInv /\ [Next]_vars => [KeepsCleanupOf(u)]_vars
  BY StepKeepsCleanup
<1> QED BY <1>1, Knowledge, PTL DEF Spec

\* So no clean-up is forgotten when that is so of all services.
THEOREM CleanupsOwed ==
  ASSUME \A u \in UIDs : Earlier[u] = {}
  PROVE  Spec => CleanupOwed
<1>1. \A u \in UIDs : Alone(u)
  BY DEF Alone, SameKey
<1>2. KInv /\ [Next]_vars => [KeepsCleanup]_vars
  BY <1>1, StepKeepsCleanup DEF KeepsCleanup
<1> QED BY <1>2, Knowledge, PTL DEF Spec, CleanupOwed

-----------------------------------------------------------------------------
(* The life of a cluster                                                   *)

StateOf(c) ==
  IF c.deleting THEN "deleting" ELSE IF c.managed THEN "managed" ELSE "created"

\* With one cluster, the life of a service is the state of that cluster.
LifeKnown ==
  \A u \in UIDs : Unmistaken(u) =>
    /\ \A n \in Names : ClusterOf(n, u) => LifeOf(u) = StateOf(clusters[n])
    /\ (\A n \in Names : ~ClusterOf(n, u)) => LifeOf(u) = "none"

LEMMA LifeIs == KInv => LifeKnown
<1> SUFFICES ASSUME KInv, NEW u \in UIDs, Unmistaken(u)
             PROVE  /\ \A n \in Names : ClusterOf(n, u) => LifeOf(u) = StateOf(clusters[n])
                    /\ (\A n \in Names : ~ClusterOf(n, u)) => LifeOf(u) = "none"
  BY DEF LifeKnown
<1>1. ASSUME NEW n \in Names, ClusterOf(n, u) PROVE LifeOf(u) = StateOf(clusters[n])
  <2>1. \A m \in Names : ClusterOf(m, u) => m = n
    BY <1>1, OneClusterOf DEF AtMostOneCluster
  <2>2. (\E m \in Names : ClusterOf(m, u) /\ clusters[m].deleting) <=> clusters[n].deleting
    BY <1>1, <2>1
  <2>3. (\E m \in Names : ClusterOf(m, u) /\ clusters[m].managed) <=> clusters[n].managed
    BY <1>1, <2>1
  <2>4. \E m \in Names : ClusterOf(m, u)
    BY <1>1
  <2> QED BY <2>2, <2>3, <2>4, Zenon DEF LifeOf, StateOf
<1>2. (\A n \in Names : ~ClusterOf(n, u)) => LifeOf(u) = "none"
  BY DEF LifeOf
<1> QED BY <1>1, <1>2

\* A step at one name touches the life of nobody but that cluster's service.
LEMMA OtherLives ==
  ASSUME NEW n \in Names, \A m \in Names \ {n} : clusters'[m] = clusters[m],
         NEW u \in UIDs, ~ClusterOf(n, u), ~ClusterOf(n, u)'
  PROVE  LifeOf(u)' = LifeOf(u)
<1>1. \A m \in Names : ClusterOf(m, u)' <=> ClusterOf(m, u)
  BY DEF ClusterOf
<1>2. \A m \in Names : ClusterOf(m, u) => clusters'[m] = clusters[m]
  OBVIOUS
<1>3. (\E m \in Names : ClusterOf(m, u)') <=> \E m \in Names : ClusterOf(m, u)
  BY <1>1
<1>4. /\ (\E m \in Names : ClusterOf(m, u)' /\ clusters'[m].deleting)
           <=> \E m \in Names : ClusterOf(m, u) /\ clusters[m].deleting
      /\ (\E m \in Names : ClusterOf(m, u)' /\ clusters'[m].managed)
           <=> \E m \in Names : ClusterOf(m, u) /\ clusters[m].managed
  BY <1>1, <1>2
<1> QED BY <1>3, <1>4, Zenon DEF LifeOf

LEMMA LifeIsAfter == KInv' => LifeKnown'
BY LifeIs, PTL

\* What a step does to the one cluster it touches is what ClusterLife allows.
LEMMA StepLife ==
  ASSUME \A u \in UIDs : Unmistaken(u), \A n \in Names : OwnName(n),
         KInv, KInv', [Next]_vars
  PROVE  [Life!Next]_(Life!vars)
<1>known. LifeKnown /\ LifeKnown'
  BY LifeIs, LifeIsAfter
<1>one. \A u \in UIDs : AtMostOneCluster(u)
  BY OneClusterOf
<1>spared. \A n \in Names : SparedIfLive(n)
  BY StepSpared DEF KInv
<1> USE DEF KInv, IInv
<1> DEFINE life == [u \in UIDs |-> LifeOf(u)]
<1>1. ASSUME clusters' = clusters PROVE life' = life
  BY <1>1 DEF LifeOf, ClusterOf
<1>2. ASSUME NEW u \in UIDs, CreateService(u) PROVE Life!Next
  <2>1. Life!Appear(u)
    BY <1>1, <1>2 DEF CreateService, Life!Appear
  <2> QED BY <2>1 DEF Life!Next
<1>3. ASSUME NEW u \in UIDs, DeleteService(u) PROVE Life!Next
  <2>1. Life!Leave(u)
    BY <1>1, <1>3 DEF DeleteService, Exists, Life!Leave
  <2> QED BY <2>1 DEF Life!Next
<1>4. ASSUME clusters' = clusters, phase' = phase PROVE UNCHANGED Life!vars
  BY <1>1, <1>4 DEF Life!vars
<1>5. ASSUME NEW n \in Names, NEW u \in UIDs, \A m \in Names \ {n} : clusters'[m] = clusters[m],
             \A v \in UIDs : v # u => ~ClusterOf(n, v) /\ ~ClusterOf(n, v)',
             phase' = phase
      PROVE  Life!Become(u, LifeOf(u)')
  <2>1. \A v \in UIDs : v # u => LifeOf(v)' = LifeOf(v)
    BY <1>5, OtherLives
  <2>2. life' = [life EXCEPT ![u] = LifeOf(u)']
    BY <2>1
  <2> QED BY <1>5, <2>2 DEF Life!Become
<1>6. ASSUME NEW n \in Names, clusters[n] # None, phase' = phase,
             RancherManage(n) \/ RancherRemove(n) \/ MarkDeleted(n)
      PROVE  /\ clusters[n] \in Clusters
             /\ \A m \in Names \ {n} : clusters'[m] = clusters[m]
             /\ RancherRemove(n) => clusters'[n] = None
             /\ RancherManage(n) => clusters'[n] = [clusters[n] EXCEPT !.managed = TRUE]
             /\ MarkDeleted(n) => clusters'[n] = [clusters[n] EXCEPT !.deleting = TRUE]
             /\ clusters'[n] # None => /\ clusters'[n].uid = clusters[n].uid
                                       /\ clusters'[n].mine = clusters[n].mine
  BY <1>6 DEF RancherManage, RancherRemove, MarkDeleted, TypeOK, Clusters
<1>7. ASSUME NEW n \in Names, clusters[n] # None, ~clusters[n].mine, phase' = phase,
             RancherManage(n) \/ RancherRemove(n) \/ MarkDeleted(n)
      PROVE  UNCHANGED Life!vars
  <2>1. \A u \in UIDs : ~ClusterOf(n, u) /\ ~ClusterOf(n, u)'
    BY <1>6, <1>7 DEF ClusterOf
  <2>2. \A u \in UIDs : LifeOf(u)' = LifeOf(u)
    BY <1>6, <1>7, <2>1, OtherLives
  <2> QED BY <1>7, <2>2 DEF Life!vars
<1>8. ASSUME NEW n \in Names, clusters[n] # None, clusters[n].mine, phase' = phase,
             RancherManage(n) \/ RancherRemove(n) \/ MarkDeleted(n),
             MarkDeleted(n) => clusters[n].deleting \/ Leaving(clusters[n].uid)
      PROVE  [Life!Next]_(Life!vars)
  <2>0. PICK u \in UIDs : u = clusters[n].uid
    BY <1>6, <1>8 DEF Clusters
  <2>1. ClusterOf(n, u) /\ clusters[n] \in Clusters
    BY <1>6, <1>8, <2>0 DEF ClusterOf
  <2>2. \A v \in UIDs : v # u => ~ClusterOf(n, v) /\ ~ClusterOf(n, v)'
    BY <1>6, <1>8, <2>0 DEF ClusterOf
  <2>3. Life!Become(u, LifeOf(u)')
    BY <1>5, <1>6, <1>8, <2>2
  <2>4. life[u] = LifeOf(u) /\ LifeOf(u) = StateOf(clusters[n])
    BY <2>1, <1>known DEF LifeKnown
  <2>5. CASE RancherManage(n)
    <3>0. clusters'[n] \in Clusters /\ clusters'[n].managed
      BY <1>6, <1>8, <2>1, <2>5 DEF Clusters
    <3>1. ClusterOf(n, u)'
      BY <1>6, <1>8, <2>0, <2>1, <3>0, NoneAssumption DEF ClusterOf
    <3>2. LifeOf(u)' = StateOf(clusters'[n])
      BY <2>1, <3>1, <1>known DEF LifeKnown
    <3>3. ~clusters[n].deleting /\ ~clusters[n].managed
      BY <2>5 DEF RancherManage
    <3>a. clusters'[n].deleting = clusters[n].deleting
      BY <1>6, <1>8, <2>1, <2>5 DEF Clusters
    <3>b. ~clusters'[n].deleting
      BY <3>3, <3>a
    <3>4. StateOf(clusters[n]) = "created" /\ StateOf(clusters'[n]) = "managed"
      BY <3>0, <3>3, <3>b, Zenon DEF StateOf
    <3>5. Life!Manage(u)
      BY <2>3, <2>4, <3>2, <3>4 DEF Life!Manage
    <3> QED BY <2>1, <3>5 DEF Life!Next
  <2>6. CASE RancherRemove(n)
    <3>1. \A m \in Names : ClusterOf(m, u) => m = n
      BY <1>one, <2>1 DEF AtMostOneCluster
    <3>2. \A m \in Names : ~ClusterOf(m, u)'
      BY <1>6, <1>8, <2>6, <3>1 DEF ClusterOf
    <3>3. LifeOf(u)' = "none"
      BY <2>1, <3>2, <1>known DEF LifeKnown
    <3>4. clusters[n].deleting
      BY <2>6 DEF RancherRemove
    <3>5. StateOf(clusters[n]) = "deleting"
      BY <3>4, Zenon DEF StateOf
    <3>6. Life!Remove(u)
      BY <2>3, <2>4, <3>3, <3>5 DEF Life!Remove
    <3> QED BY <2>1, <3>6 DEF Life!Next
  <2>7. CASE MarkDeleted(n)
    <3>1. clusters'[n] \in Clusters /\ clusters'[n].deleting
      BY <1>6, <1>8, <2>1, <2>7 DEF Clusters
    <3>2. ClusterOf(n, u)'
      BY <1>6, <1>8, <2>0, <2>1, <3>1, NoneAssumption DEF ClusterOf
    <3>3. LifeOf(u)' = StateOf(clusters'[n])
      BY <2>1, <3>2, <1>known DEF LifeKnown
    <3>4. StateOf(clusters'[n]) = "deleting"
      BY <3>1, Zenon DEF StateOf
    <3>5. CASE clusters[n].deleting
      <4>1. StateOf(clusters[n]) = "deleting"
        BY <3>5, Zenon DEF StateOf
      <4>2. life' = life
        BY <2>1, <2>3, <2>4, <3>3, <3>4, <4>1 DEF Life!Become
      <4> QED BY <1>8, <4>2 DEF Life!vars
    <3>6. CASE ~clusters[n].deleting
      <4>1. Leaving(u)
        BY <1>8, <2>0, <2>7, <3>6
      <4>2. StateOf(clusters[n]) \in {"created", "managed"}
        BY <3>6, Zenon DEF StateOf
      <4>3. Life!Delete(u)
        BY <2>3, <2>4, <3>3, <3>4, <4>1, <4>2 DEF Life!Delete, Leaving
      <4> QED BY <2>1, <4>3 DEF Life!Next
    <3> QED BY <3>5, <3>6
  <2> QED BY <1>8, <2>5, <2>6, <2>7
<1>9. ASSUME NEW u \in Foreign, NEW n \in Names, ForeignImport(u, n) PROVE UNCHANGED Life!vars
  <2>1. clusters[n] = None /\ phase' = phase /\ \A m \in Names \ {n} : clusters'[m] = clusters[m]
    BY <1>9 DEF ForeignImport, TypeOK
  <2>2. ~clusters'[n].mine
    <3>1. clusters'[n] = NewCluster(u, FALSE)
      BY <1>9 DEF ForeignImport, TypeOK
    <3>2. ~NewCluster(u, FALSE).mine
      BY Zenon DEF NewCluster
    <3> QED BY <3>1, <3>2
  <2>3. \A v \in UIDs : LifeOf(v)' = LifeOf(v)
    BY <2>1, <2>2, OtherLives DEF ClusterOf
  <2> QED BY <2>1, <2>3 DEF Life!vars
<1>10. ASSUME NEW w \in Workers, DeployCreate(w) PROVE [Life!Next]_(Life!vars)
  <2>0. PICK u \in UIDs : u = svc[w]
    BY <1>10 DEF DeployCreate, WorkersOK
  <2>1. /\ at[w] = "create" /\ phase' = phase
    BY <1>10, <2>0 DEF DeployCreate
  <2>2. u \notin Skipped /\ phase[u] # "unborn"
    BY <2>0, <2>1 DEF SkippedOK, BegunOK
  <2>3. CASE clusters' = clusters
    BY <1>4, <2>1, <2>3
  <2>4. ASSUME NEW n \in NamesOf[u], clusters[n] = None,
               clusters' = [clusters EXCEPT ![n] = NewCluster(u, TRUE)]
        PROVE  Life!Next
    <3>1. n \in Names
      BY <2>1, NamesAssumption
    <3>2. clusters'[n] = NewCluster(u, TRUE) /\ \A m \in Names \ {n} : clusters'[m] = clusters[m]
      BY <2>4, <3>1 DEF TypeOK
    <3>3. NewCluster(u, TRUE).mine /\ ~NewCluster(u, TRUE).managed /\ ~NewCluster(u, TRUE).deleting
      BY Zenon DEF NewCluster
    <3>4. NewCluster(u, TRUE).uid = u /\ NewCluster(u, TRUE) \in Clusters
      BY <2>1 DEF NewCluster, Clusters
    <3>5. ClusterOf(n, u)' /\ \A v \in UIDs : v # u => ~ClusterOf(n, v) /\ ~ClusterOf(n, v)'
      BY <2>4, <3>2, <3>3, <3>4, NoneAssumption DEF ClusterOf
    <3>6. LifeOf(u)' = "created"
      <4>1. LifeOf(u)' = StateOf(clusters'[n])
        BY <2>1, <3>1, <3>5, <1>known DEF LifeKnown
      <4>2. StateOf(NewCluster(u, TRUE)) = "created"
        BY <3>3, Zenon DEF StateOf
      <4> QED BY <3>2, <4>1, <4>2
    <3>7. life[u] = "none"
      <4>1. CASE Alone(u)
        BY <1>known, <2>0, <2>1, <4>1 DEF LifeKnown, LookupStillTrue
      <4>2. CASE \A k, m \in NamesOf[u] : k = m
        <5>1. \A m \in Names : ~ClusterOf(m, u)
          BY <2>4, <4>2 DEF NamesOK, ClusterOf
        <5> QED BY <1>known, <5>1 DEF LifeKnown
      <4> QED BY <4>1, <4>2 DEF Unmistaken
    <3>8. Life!Become(u, "created")
      BY <1>5, <2>1, <3>1, <3>2, <3>5, <3>6
    <3>9. Life!Create(u)
      BY <2>1, <2>2, <3>7, <3>8 DEF Life!Create
    <3> QED BY <2>1, <3>9 DEF Life!Next
  <2> QED BY <1>10, <2>0, <2>3, <2>4 DEF DeployCreate
<1>11. ASSUME NEW n \in Names, clusters[n] # None, MarkDeleted(n), clusters[n].mine
       PROVE  clusters[n].deleting \/ Leaving(clusters[n].uid)
  <2>1. SparedIfLive(n)
    BY <1>spared
  <2>2. clusters[n] \in Clusters
    BY <1>11 DEF TypeOK
  <2>3. clusters'[n] = [clusters[n] EXCEPT !.deleting = TRUE]
    BY <1>11 DEF MarkDeleted, TypeOK
  <2> QED BY <1>11, <2>1, <2>2, <2>3 DEF SparedIfLive, Leaving, Clusters
<1>12. ASSUME NEW n \in Names, RancherManage(n) \/ RancherRemove(n) \/ SyncStaleResources(n)
       PROVE  [Life!Next]_(Life!vars)
  <2>1. /\ clusters[n] # None /\ phase' = phase
        /\ RancherManage(n) \/ RancherRemove(n) \/ MarkDeleted(n)
    BY <1>12 DEF RancherManage, RancherRemove, SyncStaleResources
  <2> QED BY <1>7, <1>8, <1>11, <2>1
<1>13. ASSUME NEW w \in Workers, CleanupDelete(w) PROVE [Life!Next]_(Life!vars)
  <2>1. phase' = phase /\ name[w] \in Names
    BY <1>13 DEF CleanupDelete, WorkersOK
  <2>2. clusters' = clusters \/ (clusters[name[w]] # None /\ MarkDeleted(name[w]))
    BY <1>13 DEF CleanupDelete
  <2> QED BY <1>4, <1>7, <1>8, <1>11, <2>1, <2>2
<1>14. \/ clusters' = clusters /\ phase' = phase
       \/ \E u \in UIDs : CreateService(u) \/ DeleteService(u)
       \/ \E m \in Names : RancherManage(m) \/ RancherRemove(m) \/ SyncStaleResources(m)
       \/ \E v \in Foreign, m \in Names : ForeignImport(v, m)
       \/ \E w \in Workers : CleanupDelete(w) \/ DeployCreate(w)
  BY DEF Next, Work, Watch, Resync, StartInformer, FirstList, Relist, Begin, CleanupLookup,
         DeployLookup, DeployResources, ApiError, Restart, vars
<1> QED BY <1>2, <1>3, <1>4, <1>9, <1>10, <1>12, <1>13, <1>14

\* The operator implements ClusterLife: with its caches, queues and workers it
\* gives a service nothing but what the abstract specification allows.
THEOREM KeepsLife ==
  ASSUME \A u \in UIDs : Unmistaken(u),
         \A u, v \in UIDs : u # v => NamesOf[u] \cap NamesOf[v] = {}
  PROVE  Spec => ImplementsLife
<1>1. \A n \in Names : OwnName(n)
  BY DEF OwnName
<1>2. Init => Life!Init
  BY DEF Init, Life!Init, LifeOf, ClusterOf
<1>3. KInv /\ KInv' /\ [Next]_vars => [Life!Next]_(Life!vars)
  BY <1>1, StepLife
<1> QED BY <1>2, <1>3, Knowledge, PTL DEF Spec, ImplementsLife, Life!Spec
===============================================================================
