----------------------- MODULE ClusterAttributesProofs -----------------------
(* Theorems about ClusterAttributes, for names of any length and any       *)
(* configuration of workspaces and labels.                                 *)
EXTENDS ClusterAttributes, TLAPS

\* A cluster is created only by a call that has not found one, and nobody else
\* creates one for its service.
CreatesMissing ==
  \A s \in Services :
    call[s].at \in {"workspace", "make", "create"} => ~clusters[s].exists

IInv == TypeOK /\ CreatesMissing /\ NameFits

ClusterRecord == [exists : BOOLEAN, length : Nat, generated : BOOLEAN, labels : Labels]
CallRecord == [at : {"idle", "lookup", "workspace", "make", "create", "patch"},
               labels : Labels, copy : Labels]

\* What getProvisioningClusterName accepts fits the API server's limits: 63
\* characters, and 58 before it adds its own.
LEMMA RequestedFits ==
  ASSUME NEW n \in Naming, Valid(n)
  PROVE  /\ Requested(n).length \in Nat
         /\ Requested(n).generated \in BOOLEAN
         /\ Requested(n).length <= IF Requested(n).generated THEN 58 ELSE 63
<1>0. /\ n.custom \in Nat /\ n.prefix \in Nat /\ n.default \in Nat
      /\ n.hyphen \in BOOLEAN /\ n.cut \in BOOLEAN
      BY DEF Naming
<1>1. CASE n.custom > 0
      BY <1>0, <1>1 DEF Valid, Requested
<1>2. CASE n.custom = 0 /\ n.prefix > 0
      BY <1>0, <1>2 DEF Valid, PrefixLimit, Requested
<1>3. CASE n.custom = 0 /\ n.prefix = 0 /\ n.default <= 63
  <2>1. ~(n.custom > 0) /\ ~(n.prefix > 0)
        BY <1>0, <1>3
  <2>2. Requested(n) = [length |-> n.default, generated |-> FALSE]
        BY <1>3, <2>1 DEF Requested
  <2> QED
      BY <1>0, <1>3, <2>2
<1>4. CASE n.custom = 0 /\ n.prefix = 0 /\ n.default > 63
  <2>1. ~(n.custom > 0) /\ ~(n.prefix > 0) /\ ~(n.default <= 63)
        BY <1>0, <1>4
  <2>2. Requested(n) = [length |-> IF n.cut THEN 57 ELSE 58, generated |-> TRUE]
        BY <2>1 DEF Requested
  <2> QED
      BY <1>0, <2>2
<1> QED
    BY <1>0, <1>1, <1>2, <1>3, <1>4

\* syncLabels and the patch leave what is not included, or excluded, as it is
\* in Rancher now.
LEMMA PatchKeepsOthers ==
  ASSUME NEW now \in Labels, NEW copy \in Labels, NEW from \in Labels,
         NEW k \in Excluded \cup (Keys \ (Included \cup IncludedPrefix))
  PROVE  Merged(now, copy, syncLabels(from, copy))[k] = now[k]
<1>1. k \in Keys /\ k \notin Synced(from, copy)
      BY LabelAssumption DEF Synced
<1>2. syncLabels(from, copy)[k] = copy[k]
      BY <1>1 DEF syncLabels
<1> QED
    BY <1>1, <1>2 DEF Merged

\* The labels stay labels.
LEMMA PatchTypes ==
  ASSUME NEW now \in Labels, NEW copy \in Labels, NEW from \in Labels
  PROVE  Merged(now, copy, syncLabels(from, copy)) \in Labels
<1>1. syncLabels(from, copy) \in Labels
      BY DEF syncLabels, Labels
<1> QED
    BY <1>1 DEF Merged, Labels

LEMMA NoLabelsType == NoLabels \in Labels
BY DEF NoLabels, Labels

LEMMA InitInv == Init => IInv
<1> SUFFICES ASSUME Init PROVE IInv
    OBVIOUS
<1>1. NoCluster \in ClusterRecord /\ NoCall \in CallRecord
      BY NoLabelsType DEF NoCluster, NoCall, ClusterRecord, CallRecord
<1>2. TypeOK
      BY <1>1, NoLabelsType, LabelAssumption
         DEF Init, TypeOK, ClusterRecord, CallRecord
<1>3. CreatesMissing /\ NameFits
      BY DEF Init, CreatesMissing, NameFits, NoCluster, NoCall
<1> QED
    BY <1>2, <1>3 DEF IInv

\* A step that moves the call of one service and writes no cluster.
LEMMA CallInv ==
  ASSUME IInv, NEW s \in Services, NEW next \in CallRecord,
         call' = [call EXCEPT ![s] = next],
         next.at \in {"workspace", "make", "create"} => ~clusters[s].exists,
         workspaces' \subseteq Workspaces, edits' \in 0 .. MaxEdits,
         UNCHANGED <<naming, labels, clusters>>
  PROVE  IInv'
<1>1. TypeOK'
      BY DEF IInv, TypeOK, CallRecord
<1>2. CreatesMissing'
  <2>1. call'[s] = next /\ \A r \in Services \ {s} : call'[r] = call[r]
        BY DEF IInv, TypeOK
  <2> QED
      BY <2>1 DEF IInv, CreatesMissing
<1>3. NameFits'
      BY DEF IInv, NameFits
<1> QED
    BY <1>1, <1>2, <1>3 DEF IInv

LEMMA Records ==
  ASSUME IInv, NEW s \in Services
  PROVE  /\ NoCall \in CallRecord /\ NoCall.at = "idle"
         /\ \A at \in {"lookup", "workspace", "make", "create", "patch"},
               read \in Labels, copy \in Labels :
              LET next == [NoCall EXCEPT !.at = at, !.labels = read, !.copy = copy]
              IN  next \in CallRecord
         /\ call[s] \in CallRecord /\ clusters[s] \in ClusterRecord
<1>1. NoCall \in CallRecord /\ NoCall.at = "idle"
      BY NoLabelsType DEF NoCall, CallRecord
<1>2. call[s] \in CallRecord /\ clusters[s] \in ClusterRecord
      BY DEF IInv, TypeOK, CallRecord, ClusterRecord
<1> QED
    BY <1>1, <1>2 DEF CallRecord, NoCall

\* The steps of a Reconcile up to the create.
LEMMA ReadInv ==
  ASSUME IInv, NEW s \in Services,
         \/ Begin(s) \/ Lookup(s) \/ CheckWorkspace(s) \/ MakeWorkspace(s) \/ ApiError(s)
  PROVE  IInv'
<1>1. /\ call[s] \in CallRecord /\ labels[s] \in Labels /\ clusters[s] \in ClusterRecord
      /\ NoCall \in CallRecord /\ NoCall.at = "idle"
      BY Records DEF IInv, TypeOK
<1>2. workspaces \subseteq Workspaces /\ edits \in 0 .. MaxEdits
      BY DEF IInv, TypeOK
<1>3. CASE Begin(s)
  <2>1. /\ [NoCall EXCEPT !.at = "lookup", !.labels = labels[s]] \in CallRecord
        /\ [NoCall EXCEPT !.at = "lookup", !.labels = labels[s]].at = "lookup"
        BY <1>1 DEF CallRecord, NoCall
  <2> QED
      BY <1>2, <1>3, <2>1, CallInv DEF Begin
<1>4. CASE Lookup(s)
  <2>1. CASE clusters[s].exists
    <3>1. /\ [call[s] EXCEPT !.at = "patch", !.copy = clusters[s].labels] \in CallRecord
          /\ [call[s] EXCEPT !.at = "patch", !.copy = clusters[s].labels].at = "patch"
          BY <1>1 DEF CallRecord, ClusterRecord
    <3>2. call' = [call EXCEPT ![s] = [call[s] EXCEPT !.at = "patch",
                                                      !.copy = clusters[s].labels]]
          BY <1>4, <2>1 DEF Lookup
    <3> QED
        BY <1>2, <1>4, <3>1, <3>2, CallInv DEF Lookup
  <2>2. CASE ~clusters[s].exists
    <3>1. [call[s] EXCEPT !.at = "workspace"] \in CallRecord
          BY <1>1 DEF CallRecord
    <3>2. call' = [call EXCEPT ![s] = [call[s] EXCEPT !.at = "workspace"]]
          BY <1>4, <2>2 DEF Lookup
    <3> QED
        BY <1>2, <1>4, <2>2, <3>1, <3>2, CallInv DEF Lookup
  <2> QED
      BY <2>1, <2>2
<1>5. CASE CheckWorkspace(s) \/ MakeWorkspace(s)
  <2>1. ~clusters[s].exists
        BY <1>5 DEF CheckWorkspace, MakeWorkspace, IInv, CreatesMissing
  <2>2. Target(s) \in Workspaces
        BY WorkspaceAssumption DEF Target
  <2>3. \A place \in {"make", "create"} : [call[s] EXCEPT !.at = place] \in CallRecord
        BY <1>1 DEF CallRecord
  <2>4. \E next \in CallRecord : call' = [call EXCEPT ![s] = next]
        BY <1>1, <1>5, <2>3 DEF CheckWorkspace, MakeWorkspace, Missing, Go, Return
  <2>5. workspaces' \subseteq Workspaces /\ UNCHANGED <<naming, labels, clusters, edits>>
        BY <1>2, <1>5, <2>2 DEF CheckWorkspace, MakeWorkspace
  <2> QED
      BY <1>2, <2>1, <2>4, <2>5, CallInv
<1>6. CASE ApiError(s)
  <2>1. edits' \in 0 .. MaxEdits
        BY <1>2, <1>6, LabelAssumption DEF ApiError, Edit
  <2> QED
      BY <1>1, <1>2, <1>6, <2>1, CallInv DEF ApiError, Return
<1> QED
    BY <1>3, <1>4, <1>5, <1>6

\* A step that writes the cluster of one service.
LEMMA ClusterInv ==
  ASSUME IInv, NEW s \in Services, NEW next \in ClusterRecord,
         clusters' = [clusters EXCEPT ![s] = next],
         next.exists => next.length <= IF next.generated THEN 58 ELSE 63,
         \/ call' = [call EXCEPT ![s] = NoCall]
         \/ UNCHANGED call /\ next.exists = clusters[s].exists,
         edits' \in 0 .. MaxEdits, UNCHANGED <<naming, labels, workspaces>>
  PROVE  IInv'
<1>1. NoCall \in CallRecord /\ NoCall.at = "idle"
      BY Records
<1>2. TypeOK'
      BY <1>1 DEF IInv, TypeOK, ClusterRecord, CallRecord
<1>3. clusters'[s] = next /\ \A r \in Services \ {s} : clusters'[r] = clusters[r]
      BY DEF IInv, TypeOK
<1>4. /\ \A r \in Services \ {s} : call'[r] = call[r]
      /\ \/ call'[s] = NoCall
         \/ call'[s] = call[s] /\ next.exists = clusters[s].exists
      BY DEF IInv, TypeOK
<1>5. CreatesMissing'
      BY <1>1, <1>3, <1>4 DEF IInv, CreatesMissing
<1>6. NameFits'
      BY <1>3 DEF IInv, NameFits
<1> QED
    BY <1>2, <1>5, <1>6 DEF IInv

\* The create and the patch, and somebody who changes labels.
LEMMA WriteInv ==
  ASSUME IInv, NEW s \in Services, Create(s) \/ PatchLabels(s) \/ LabelCluster(s)
  PROVE  IInv'
<1>1. /\ call[s] \in CallRecord /\ clusters[s] \in ClusterRecord
      /\ NoCall \in CallRecord /\ NoCall.at = "idle"
      BY Records
<1>2. edits \in 0 .. MaxEdits /\ naming[s] \in Naming
      BY NamingsAssumption DEF IInv, TypeOK
<1>3. clusters[s].exists =>
        clusters[s].length <= IF clusters[s].generated THEN 58 ELSE 63
      BY DEF IInv, NameFits
<1>4. CASE Create(s)
  <2>1. CASE Valid(naming[s]) /\ Target(s) \in workspaces
    <3> DEFINE new == [NoCluster EXCEPT !.exists = TRUE,
                         !.length = Requested(naming[s]).length,
                         !.generated = Requested(naming[s]).generated]
    <3>1. /\ new \in ClusterRecord
          /\ new.length = Requested(naming[s]).length
          /\ new.generated = Requested(naming[s]).generated
          BY <1>2, <2>1, RequestedFits, NoLabelsType DEF NoCluster, ClusterRecord
    <3>2. new.length <= IF new.generated THEN 58 ELSE 63
          BY <1>2, <2>1, <3>1, RequestedFits
    <3>3. /\ clusters' = [clusters EXCEPT ![s] = new]
          /\ call' = [call EXCEPT ![s] = NoCall]
          /\ UNCHANGED <<naming, labels, workspaces, edits>>
          BY <1>4, <2>1 DEF Create, Return
    <3> HIDE DEF new
    <3> QED
        BY <1>2, <3>1, <3>2, <3>3, ClusterInv
  <2>2. CASE ~(Valid(naming[s]) /\ Target(s) \in workspaces)
        BY <1>1, <1>2, <1>4, <2>2, CallInv DEF Create, Return, IInv, TypeOK
  <2> QED
      BY <2>1, <2>2
<1>5. CASE PatchLabels(s)
  <2> DEFINE written == Merged(clusters[s].labels, call[s].copy,
                               syncLabels(call[s].labels, call[s].copy))
             new == [clusters[s] EXCEPT !.labels = written]
  <2>1. written \in Labels
        BY <1>1, PatchTypes DEF CallRecord, ClusterRecord
  <2>2. clusters' = [clusters EXCEPT ![s] = new]
        BY <1>5 DEF PatchLabels
  <2> HIDE DEF written
  <2>3. /\ new \in ClusterRecord
        /\ new.exists = clusters[s].exists /\ new.length = clusters[s].length
        /\ new.generated = clusters[s].generated
        BY <1>1, <2>1 DEF ClusterRecord
  <2> HIDE DEF new
  <2> QED
      BY <1>2, <1>3, <1>5, <2>2, <2>3, ClusterInv DEF PatchLabels, Return
<1>6. CASE LabelCluster(s)
  <2>1. PICK k \in Keys, v \in Values \cup {Absent} :
          clusters' = [clusters EXCEPT ![s].labels[k] = v]
        BY <1>6 DEF LabelCluster
  <2> DEFINE new == [clusters[s] EXCEPT !.labels[k] = v]
  <2>2. clusters' = [clusters EXCEPT ![s] = new]
        BY <2>1
  <2>3. /\ new \in ClusterRecord
        /\ new.exists = clusters[s].exists /\ new.length = clusters[s].length
        /\ new.generated = clusters[s].generated
        BY <1>1 DEF ClusterRecord, Labels
  <2>4. edits' \in 0 .. MaxEdits
        BY <1>2, <1>6, LabelAssumption DEF LabelCluster, Edit
  <2> HIDE DEF new
  <2> QED
      BY <1>3, <1>6, <2>2, <2>3, <2>4, ClusterInv DEF LabelCluster
<1> QED
    BY <1>4, <1>5, <1>6

LEMMA NextInv == IInv /\ [Next]_vars => IInv'
<1> SUFFICES ASSUME IInv, [Next]_vars PROVE IInv'
    OBVIOUS
<1>1. CASE UNCHANGED vars
      BY <1>1 DEF vars, IInv, TypeOK, CreatesMissing, NameFits
<1>2. ASSUME NEW s \in Services, LabelService(s) PROVE IInv'
  <2>1. edits' \in 0 .. MaxEdits
        BY <1>2, LabelAssumption DEF LabelService, Edit, IInv, TypeOK
  <2>2. labels' \in [Services -> Labels]
        BY <1>2 DEF LabelService, Labels, IInv, TypeOK
  <2> QED
      BY <1>2, <2>1, <2>2 DEF LabelService, IInv, TypeOK, CreatesMissing, NameFits
<1>3. ASSUME NEW w \in Workspaces, RemoveWorkspace(w) PROVE IInv'
  <2>1. edits' \in 0 .. MaxEdits
        BY <1>3, LabelAssumption DEF RemoveWorkspace, Edit, IInv, TypeOK
  <2> QED
      BY <1>3, <2>1 DEF RemoveWorkspace, IInv, TypeOK, CreatesMissing, NameFits
<1> QED
    BY <1>1, <1>2, <1>3, ReadInv, WriteInv DEF Next, Step

\* The invariant of every reachable state.
LEMMA Invariance == Spec => []IInv
BY InitInv, NextInv, PTL DEF Spec

\* The variables keep their types (handler.go, deployvClusterRancherCluster).
THEOREM TypeCorrect == Spec => []TypeOK
<1>1. IInv => TypeOK
      BY DEF IInv
<1> QED
    BY <1>1, Invariance, PTL

\* Whatever name, prefix or default a service asks for, its cluster's name has
\* no more characters than the API server takes, and no prefix is cut
\* (handler.go, getProvisioningClusterName).
THEOREM NamesFit == Spec => []NameFits
<1>1. IInv => NameFits
      BY DEF IInv
<1> QED
    BY <1>1, Invariance, PTL

\* No step of the handler changes a label that is excluded or not included,
\* however old the copy its patch was made from (handler.go, syncLabels and
\* getRancherResources).
THEOREM OtherLabelsKept == Spec => OthersKept
<1> DEFINE kept ==
      edits' = edits =>
        \A s \in Services : clusters[s].exists =>
          \A k \in Excluded \cup (Keys \ (Included \cup IncludedPrefix)) :
            clusters'[s].labels[k] = clusters[s].labels[k]
<1>1. IInv /\ [Next]_vars => [kept]_vars
  <2> SUFFICES ASSUME IInv, Next, edits' = edits,
                      NEW s \in Services, clusters[s].exists,
                      NEW k \in Excluded \cup (Keys \ (Included \cup IncludedPrefix))
               PROVE  clusters'[s].labels[k] = clusters[s].labels[k]
      OBVIOUS
  <2>1. CASE UNCHANGED clusters
        BY <2>1
  <2>2. edits \in Nat
        BY DEF IInv, TypeOK
  <2>3. ASSUME NEW r \in Services, Create(r) PROVE clusters'[s] = clusters[s]
    <3>1. ~clusters[r].exists
          BY <2>3 DEF Create, IInv, CreatesMissing
    <3> QED
        BY <2>3, <3>1 DEF Create, IInv, TypeOK
  <2>4. ASSUME NEW r \in Services, PatchLabels(r)
        PROVE  clusters'[s].labels[k] = clusters[s].labels[k]
    <3>1. CASE r # s
          BY <2>4, <3>1 DEF PatchLabels, IInv, TypeOK
    <3>2. CASE r = s
      <4>1. call[s] \in CallRecord /\ clusters[s] \in ClusterRecord
            BY Records
      <4>2. clusters'[s].labels = Merged(clusters[s].labels, call[s].copy,
                                         syncLabels(call[s].labels, call[s].copy))
            BY <2>4, <3>2, <4>1 DEF PatchLabels, IInv, TypeOK, ClusterRecord
      <4> QED
          BY <4>1, <4>2, PatchKeepsOthers DEF CallRecord, ClusterRecord
    <3> QED
        BY <3>1, <3>2
  <2>5. ASSUME NEW r \in Services,
               \/ Begin(r) \/ Lookup(r) \/ CheckWorkspace(r) \/ MakeWorkspace(r)
               \/ ApiError(r) \/ LabelService(r)
        PROVE  UNCHANGED clusters
        BY <2>5 DEF Begin, Lookup, CheckWorkspace, MakeWorkspace, ApiError, LabelService
  <2>6. ASSUME NEW r \in Services, LabelCluster(r) PROVE FALSE
        BY <2>2, <2>6 DEF LabelCluster, Edit
  <2>7. ASSUME NEW w \in Workspaces, RemoveWorkspace(w) PROVE UNCHANGED clusters
        BY <2>7 DEF RemoveWorkspace
  <2> QED
      BY <2>1, <2>3, <2>4, <2>5, <2>6, <2>7 DEF Next, Step
<1> QED
    BY <1>1, Invariance, PTL DEF Spec, OthersKept

\* One patch that nobody comes between makes the included labels those of the
\* service, also the ones it has not, and the next patch changes nothing: the
\* handler does not fight itself (handler.go, syncLabels).
THEOREM PatchSettles ==
  ASSUME NEW from \in Labels, NEW now \in Labels, NEW new,
         new = Merged(now, now, syncLabels(from, now))
  PROVE  /\ \A k \in (Included \cup IncludedPrefix) \ Excluded : new[k] = from[k]
         /\ Merged(new, new, syncLabels(from, new)) = new
<1>1. \A k \in Keys : new[k] = IF k \in Synced(from, now) THEN from[k] ELSE now[k]
      BY DEF Merged, syncLabels, Labels
<1>2. \A k \in (Included \cup IncludedPrefix) \ Excluded : k \in Keys /\ new[k] = from[k]
      BY <1>1, LabelAssumption DEF Synced
<1>3. \A k \in Keys : syncLabels(from, new)[k] = new[k]
      BY <1>2 DEF syncLabels, Synced
<1>4. new = [k \in Keys |-> new[k]]
      BY PatchTypes DEF Labels
<1> QED
    BY <1>2, <1>3, <1>4 DEF Merged
=============================================================================
