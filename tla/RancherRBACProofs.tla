-------------------------- MODULE RancherRBACProofs --------------------------
(* Theorems about RancherRBAC, for any clusters, bindings, users and       *)
(* faults.                                                                 *)
EXTENDS RancherRBAC, TLAPS

\* Nothing has been granted before the lists are read.
Fresh ==
  \A c \in Clusters :
    call[c].at \in {"idle", "project", "list", "listHost"} =>
      call[c].owners = {} /\ ~call[c].failed

\* What a call has read and done, when no trigger is on its way: then nothing
\* that it read has changed.
Progress(c) ==
  /\ call[c].at = "idle" => owners[c] = Wanted(c)
  /\ call[c].at = "listHost" => call[c].todo = Matching(ProjectOf[c])
  /\ call[c].at = "grant" =>
       /\ (call[c].owners \cup {UserOf[b] : b \in call[c].todo}) \ {NoUser} = Wanted(c)
       /\ call[c].failed \/ call[c].owners \subseteq owners[c]
  /\ call[c].at = "listOwners" =>
       /\ call[c].owners = Wanted(c)
       /\ Wanted(c) \subseteq owners[c]
  /\ call[c].at = "revoke" =>
       \/ call[c].failed
       \/ /\ Wanted(c) \subseteq owners[c]
          /\ call[c].doomed \cap Wanted(c) = {}
          /\ owners[c] \subseteq Wanted(c) \cup call[c].doomed

Undisturbed(c) ==
  /\ Settled(c)
  /\ happened \cap {"dropped", "removed"} = {}
  /\ ProjectOf[c] \in projects

InStep == \A c \in Clusters : Undisturbed(c) => Progress(c)

IInv == TypeOK /\ Fresh /\ InStep

\* The invariant holds in the initial state: no bindings, no owners.
LEMMA InitInv == Init => IInv
<1> SUFFICES ASSUME Init PROVE IInv
    OBVIOUS
<1>1. TypeOK
      BY DEF Init, TypeOK, Call, NoCall
<1>2. Fresh
      BY DEF Init, Fresh, NoCall
<1>3. InStep
      BY DEF Init, InStep, Progress, NoCall, Wanted, Matching
<1> QED
    BY <1>1, <1>2, <1>3 DEF IInv

\* One call moves on: it is enough to look at its own cluster.
LEMMA OneCallMoves ==
  ASSUME IInv, NEW c \in Clusters, NEW next \in Call, NEW own \in SUBSET Users,
         call' = [call EXCEPT ![c] = next], owners' = [owners EXCEPT ![c] = own],
         UNCHANGED World, pending' \subseteq Clusters, pending \subseteq pending' \cup {c},
         happened \subseteq happened', happened' \subseteq Faults,
         next.at \in {"idle", "project", "list", "listHost"} =>
           next.owners = {} /\ ~next.failed,
         Undisturbed(c)' => Progress(c)'
  PROVE  IInv'
<1>1. TypeOK'
      BY DEF IInv, TypeOK, World
<1>2. /\ call'[c] = next
      /\ \A d \in Clusters \ {c} : call'[d] = call[d] /\ owners'[d] = owners[d]
      BY DEF IInv, TypeOK
<1>3. Fresh'
      BY <1>2 DEF IInv, Fresh
<1>4. ASSUME NEW d \in Clusters \ {c}, Undisturbed(d)' PROVE Progress(d)'
  <2>1. Undisturbed(d)
        BY <1>4 DEF Undisturbed, Settled, World
  <2>2. Progress(d)
        BY <2>1 DEF IInv, InStep
  <2> QED
      BY <1>2, <2>2 DEF Progress, World, Wanted, Matching
<1>5. InStep'
      BY <1>4 DEF InStep
<1> QED
    BY <1>1, <1>3, <1>5 DEF IInv

\* A call that ends without an error ends in the right place; one that fails is
\* repeated, and until then its cluster is not settled.
LEMMA ReturnKeeps ==
  ASSUME IInv, NEW c \in Clusters, NEW failed \in BOOLEAN, Return(c, failed),
         NEW own \in SUBSET Users, owners' = [owners EXCEPT ![c] = own], UNCHANGED World,
         happened \subseteq happened', happened' \subseteq Faults,
         failed \/ (Undisturbed(c)' => own = Wanted(c))
  PROVE  IInv'
<1>1. NoCall \in Call /\ NoCall.at = "idle" /\ NoCall.owners = {} /\ ~NoCall.failed
      BY DEF NoCall, Call
<1>2. /\ call' = [call EXCEPT ![c] = NoCall]
      /\ pending' \subseteq Clusters /\ pending \subseteq pending' /\ (failed => c \in pending')
      BY DEF Return, IInv, TypeOK
<1>3. Undisturbed(c)' => Progress(c)'
  <2> SUFFICES ASSUME Undisturbed(c)' PROVE Progress(c)'
      OBVIOUS
  <2>1. ~failed
        BY <1>2 DEF Undisturbed, Settled
  <2>2. owners'[c] = Wanted(c)'
        BY <2>1 DEF IInv, TypeOK, World, Wanted, Matching
  <2>3. call'[c] = NoCall
        BY <1>2 DEF IInv, TypeOK
  <2> QED
      BY <1>1, <2>2, <2>3 DEF Progress
<1> QED
    BY <1>1, <1>2, <1>3, OneCallMoves

\* The steps that only read: what they read is what is there when no trigger is
\* on its way.
LEMMA ReadersKeep ==
  ASSUME IInv, NEW c \in Clusters,
         \/ Begin(c) \/ GetProject(c) \/ ListProjectBindings(c) \/ ListHostBindings(c)
         \/ ListOwners(c) \/ ReadFails(c)
  PROVE  IInv'
<1>1. /\ call[c] \in Call /\ owners[c] \in SUBSET Users
      /\ owners' = [owners EXCEPT ![c] = owners[c]] /\ UNCHANGED World
      /\ happened \subseteq happened' /\ happened' \subseteq Faults
      BY DEF IInv, TypeOK, Begin, GetProject, ListProjectBindings, ListHostBindings, ListOwners,
             ReadFails, Fault
<1>2. /\ Matching(ProjectOf[c]) \subseteq Bindings /\ Matching(HostOf[c]) \subseteq Bindings
      /\ Wanted(c)' = Wanted(c)
      BY <1>1 DEF IInv, TypeOK, Matching, Wanted, World
<1>3. Undisturbed(c)' /\ pending \subseteq pending' => Undisturbed(c) /\ Progress(c)
      BY <1>1 DEF Undisturbed, Settled, World, IInv, InStep
<1>4. CASE Begin(c)
  <2> DEFINE next == [call[c] EXCEPT !.at = "project"]
  <2>1. /\ next \in Call /\ call' = [call EXCEPT ![c] = next] /\ next.at = "project"
        /\ next.owners = {} /\ ~next.failed
        BY <1>1, <1>4 DEF Begin, IInv, TypeOK, Fresh, Call
  <2>2. pending' \subseteq Clusters /\ pending \subseteq pending' \cup {c}
        BY <1>4 DEF Begin, IInv, TypeOK
  <2>3. Progress(c)'
        BY <2>1 DEF Progress, IInv, TypeOK
  <2> QED
      BY <1>1, <2>1, <2>2, <2>3, OneCallMoves
<1>5. CASE GetProject(c)
  <2>1. CASE Return(c, TRUE)
        BY <1>1, <2>1, ReturnKeeps
  <2>2. CASE Proceed(c, [call[c] EXCEPT !.at = "list"])
    <3> DEFINE next == [call[c] EXCEPT !.at = "list"]
    <3>1. /\ next \in Call /\ call' = [call EXCEPT ![c] = next] /\ next.at = "list"
          /\ next.owners = {} /\ ~next.failed /\ pending' = pending
          BY <1>1, <1>5, <2>2 DEF GetProject, Proceed, IInv, Fresh, Call
    <3>2. Progress(c)'
          BY <3>1 DEF Progress, IInv, TypeOK
    <3> QED
        BY <1>1, <3>1, <3>2, OneCallMoves DEF IInv, TypeOK
  <2> QED
      BY <1>5, <2>1, <2>2 DEF GetProject
<1>6. CASE ListProjectBindings(c)
  <2> DEFINE next == [call[c] EXCEPT !.at = "listHost", !.todo = Matching(ProjectOf[c])]
  <2>1. /\ next \in Call /\ call' = [call EXCEPT ![c] = next] /\ next.at = "listHost"
        /\ next.owners = {} /\ ~next.failed /\ next.todo = Matching(ProjectOf[c])
        /\ pending' = pending
        BY <1>1, <1>2, <1>6 DEF ListProjectBindings, Proceed, IInv, Fresh, Call
  <2>2. Progress(c)'
        BY <1>1, <2>1 DEF Progress, IInv, TypeOK, Matching, World
  <2> QED
      BY <1>1, <2>1, <2>2, OneCallMoves DEF IInv, TypeOK
<1>7. CASE ListHostBindings(c)
  <2> DEFINE next == [call[c] EXCEPT !.at = "grant", !.todo = @ \cup Matching(HostOf[c])]
  <2>1. /\ next \in Call /\ call' = [call EXCEPT ![c] = next] /\ next.at = "grant"
        /\ next.owners = {} /\ next.todo = call[c].todo \cup Matching(HostOf[c])
        /\ pending' = pending
        BY <1>1, <1>2, <1>7 DEF ListHostBindings, Proceed, IInv, Fresh, Call
  <2>2. call'[c] = next
        BY <2>1 DEF IInv, TypeOK
  <2>3. ASSUME Undisturbed(c)' PROVE Progress(c)'
    <3>1. call[c].todo = Matching(ProjectOf[c])
          BY <1>3, <1>7, <2>1, <2>3 DEF Progress, ListHostBindings
    <3>2. {UserOf[b] : b \in next.todo} \ {NoUser} = Wanted(c)
          BY <2>1, <3>1 DEF Wanted
    <3> QED
        BY <1>2, <2>1, <2>2, <3>2 DEF Progress
  <2> QED
      BY <1>1, <2>1, <2>3, OneCallMoves DEF IInv, TypeOK
<1>8. CASE ListOwners(c)
  <2> DEFINE next == [call[c] EXCEPT !.at = "revoke", !.doomed = Doomed(c)]
  <2>1. /\ next \in Call /\ call' = [call EXCEPT ![c] = next] /\ next.at = "revoke"
        /\ next.doomed = owners[c] \ call[c].owners /\ pending' = pending
        BY <1>1, <1>8 DEF ListOwners, Proceed, Doomed, Call
  <2>2. call'[c] = next /\ owners'[c] = owners[c]
        BY <1>1, <2>1 DEF IInv, TypeOK
  <2>3. ASSUME Undisturbed(c)' PROVE Progress(c)'
    <3>1. call[c].owners = Wanted(c) /\ Wanted(c) \subseteq owners[c]
          BY <1>3, <1>8, <2>1, <2>3 DEF Progress, ListOwners
    <3> QED
        BY <1>2, <2>1, <2>2, <3>1 DEF Progress
  <2> QED
      BY <1>1, <2>1, <2>3, OneCallMoves DEF IInv, TypeOK
<1>9. CASE ReadFails(c)
      BY <1>1, <1>9, ReturnKeeps DEF ReadFails
<1> QED
    BY <1>4, <1>5, <1>6, <1>7, <1>8, <1>9

\* Granting: every binding of the lists is either done or still to do.
LEMMA GrantKeeps ==
  ASSUME IInv, NEW c \in Clusters, Grant(c)
  PROVE  IInv'
<1> PICK b \in call[c].todo :
      /\ UNCHANGED World
      /\ \/ /\ UserOf[b] = NoUser
            /\ Proceed(c, Unnamed(c, b)) /\ UNCHANGED <<owners, happened>>
         \/ /\ UserOf[b] # NoUser
            /\ \E failed \in BOOLEAN :
                 /\ Proceed(c, [call[c] EXCEPT !.todo = @ \ {b}, !.owners = @ \cup {UserOf[b]},
                                              !.failed = @ \/ failed])
                 /\ owners' \in {owners, [owners EXCEPT ![c] = @ \cup {UserOf[b]}]}
                 /\ ~failed => owners' = [owners EXCEPT ![c] = @ \cup {UserOf[b]}]
            /\ happened \subseteq happened' /\ happened' \subseteq Faults
  <2>1. PICK b \in call[c].todo :
          /\ UNCHANGED World
          /\ \/ /\ ~Named(b)
                /\ Proceed(c, Unnamed(c, b)) /\ UNCHANGED <<owners, happened>>
             \/ /\ Named(b)
                /\ owners' = [owners EXCEPT ![c] = @ \cup {UserOf[b]}]
                /\ Proceed(c, [call[c] EXCEPT !.todo = @ \ {b}, !.owners = @ \cup {UserOf[b]}])
                /\ UNCHANGED happened
             \/ /\ Named(b) /\ Fault("error")
                /\ owners' \in {owners, [owners EXCEPT ![c] = @ \cup {UserOf[b]}]}
                /\ Proceed(c, [call[c] EXCEPT !.todo = @ \ {b}, !.owners = @ \cup {UserOf[b]},
                                             !.failed = TRUE])
        BY DEF Grant
  <2>2. call[c] \in Call /\ happened \subseteq Faults
        BY DEF IInv, TypeOK
  <2>3. /\ [call[c] EXCEPT !.todo = @ \ {b}, !.owners = @ \cup {UserOf[b]}]
            = [call[c] EXCEPT !.todo = @ \ {b}, !.owners = @ \cup {UserOf[b]},
                              !.failed = @ \/ FALSE]
        /\ [call[c] EXCEPT !.todo = @ \ {b}, !.owners = @ \cup {UserOf[b]}, !.failed = TRUE]
            = [call[c] EXCEPT !.todo = @ \ {b}, !.owners = @ \cup {UserOf[b]},
                              !.failed = @ \/ TRUE]
        BY <2>2 DEF Call
  <2> QED
      BY <2>1, <2>2, <2>3 DEF Named, Fault
<1>1. /\ call[c] \in Call /\ b \in Bindings /\ owners[c] \in SUBSET Users
      /\ UserOf[b] \in Users \cup {NoUser} /\ call[c].at = "grant"
      BY BindingAssumption DEF IInv, TypeOK, Call, Grant
<1>2. ASSUME Undisturbed(c)', pending \subseteq pending', happened \subseteq happened'
      PROVE  Progress(c)
      BY <1>2 DEF Undisturbed, Settled, World, IInv, InStep
<1>3. Wanted(c)' = Wanted(c)
      BY DEF Wanted, Matching, World
<1>4. CASE UserOf[b] = NoUser
  <2> DEFINE next == Unnamed(c, b)
  <2>1. /\ next \in Call /\ next.at = "grant" /\ next.owners = call[c].owners /\ next.failed
        /\ next.todo = call[c].todo \ {b}
        BY <1>1 DEF Unnamed, Call
  <2>2. /\ call' = [call EXCEPT ![c] = next] /\ pending' = pending
        /\ owners' = [owners EXCEPT ![c] = owners[c]] /\ happened' = happened
        BY <1>4 DEF Proceed, IInv, TypeOK
  <2> HIDE DEF next
  <2>3. call'[c] = next
        BY <2>2 DEF IInv, TypeOK
  <2>4. ASSUME Undisturbed(c)' PROVE Progress(c)'
    <3>1. (call[c].owners \cup {UserOf[i] : i \in call[c].todo}) \ {NoUser} = Wanted(c)
          BY <1>1, <1>2, <2>2, <2>4 DEF Progress
    <3>2. (next.owners \cup {UserOf[i] : i \in next.todo}) \ {NoUser} = Wanted(c)
          BY <1>4, <2>1, <3>1
    <3> QED
        BY <1>3, <2>1, <2>3, <3>2 DEF Progress
  <2> QED
      BY <1>1, <2>1, <2>2, <2>4, OneCallMoves DEF IInv, TypeOK
<1>5. CASE UserOf[b] # NoUser
  <2>1. PICK failed \in BOOLEAN, own \in {owners[c], owners[c] \cup {UserOf[b]}} :
          /\ Proceed(c, [call[c] EXCEPT !.todo = @ \ {b}, !.owners = @ \cup {UserOf[b]},
                                       !.failed = @ \/ failed])
          /\ owners' = [owners EXCEPT ![c] = own]
          /\ ~failed => own = owners[c] \cup {UserOf[b]}
          /\ happened \subseteq happened' /\ happened' \subseteq Faults
        BY <1>5 DEF IInv, TypeOK
  <2> DEFINE next == [call[c] EXCEPT !.todo = @ \ {b}, !.owners = @ \cup {UserOf[b]},
                                     !.failed = @ \/ failed]
  <2>2. /\ next \in Call /\ next.at = "grant" /\ next.owners = call[c].owners \cup {UserOf[b]}
        /\ next.failed = (call[c].failed \/ failed) /\ next.todo = call[c].todo \ {b}
        BY <1>1, <1>5 DEF Call
  <2>3. call' = [call EXCEPT ![c] = next] /\ pending' = pending
        BY <2>1 DEF Proceed
  <2> HIDE DEF next
  <2>4. call'[c] = next /\ owners'[c] = own /\ own \in SUBSET Users
        BY <1>1, <1>5, <2>1, <2>3 DEF IInv, TypeOK
  <2>5. ASSUME Undisturbed(c)' PROVE Progress(c)'
    <3>1. /\ (call[c].owners \cup {UserOf[i] : i \in call[c].todo}) \ {NoUser} = Wanted(c)
          /\ call[c].failed \/ call[c].owners \subseteq owners[c]
          BY <1>1, <1>2, <2>1, <2>3, <2>5 DEF Progress
    <3>2. (next.owners \cup {UserOf[i] : i \in next.todo}) \ {NoUser} = Wanted(c)
          BY <2>2, <3>1
    <3>3. next.failed \/ next.owners \subseteq own
          BY <2>1, <2>2, <3>1
    <3> QED
        BY <1>3, <2>2, <2>4, <3>2, <3>3 DEF Progress
  <2> QED
      BY <2>1, <2>2, <2>3, <2>4, <2>5, OneCallMoves DEF IInv, TypeOK
<1> QED
    BY <1>4, <1>5

\* The loop of the grants ends: nobody is missing, or it is repeated.
LEMMA EndGrantKeeps ==
  ASSUME IInv, NEW c \in Clusters, EndGrant(c)
  PROVE  IInv'
<1>1. /\ call[c] \in Call /\ owners[c] \in SUBSET Users
      /\ owners' = [owners EXCEPT ![c] = owners[c]] /\ UNCHANGED World /\ happened' = happened
      /\ happened \subseteq Faults
      BY DEF IInv, TypeOK, EndGrant
<1>2. CASE Return(c, TRUE)
      BY <1>1, <1>2, ReturnKeeps
<1>3. CASE ~call[c].failed /\ Proceed(c, [call[c] EXCEPT !.at = "listOwners"])
  <2> DEFINE next == [call[c] EXCEPT !.at = "listOwners"]
  <2>1. /\ next \in Call /\ next.at = "listOwners" /\ next.owners = call[c].owners
        /\ call' = [call EXCEPT ![c] = next] /\ pending' = pending
        BY <1>1, <1>3 DEF Proceed, Call
  <2> HIDE DEF next
  <2>2. ASSUME Undisturbed(c)' PROVE Progress(c)'
    <3>1. Progress(c) /\ call'[c] = next /\ owners'[c] = owners[c] /\ Wanted(c)' = Wanted(c)
          BY <1>1, <2>1, <2>2
          DEF Undisturbed, Settled, World, IInv, InStep, TypeOK, Wanted, Matching
    <3>2. call[c].owners \ {NoUser} = Wanted(c) /\ call[c].owners \subseteq owners[c]
          BY <1>3, <3>1 DEF Progress, EndGrant
    <3>3. NoUser \notin call[c].owners
          BY <1>1, NoUserAssumption DEF Call
    <3> QED
        BY <2>1, <3>1, <3>2, <3>3 DEF Progress
  <2> QED
      BY <1>1, <2>1, <2>2, OneCallMoves DEF IInv, TypeOK
<1> QED
    BY <1>2, <1>3 DEF EndGrant

\* Revoking takes nobody who is wanted.
LEMMA RevokeKeeps ==
  ASSUME IInv, NEW c \in Clusters, Revoke(c)
  PROVE  IInv'
<1>1. PICK u \in call[c].doomed, failed \in BOOLEAN, own \in SUBSET owners[c] :
        /\ call' = [call EXCEPT ![c] = [call[c] EXCEPT !.doomed = @ \ {u}, !.failed = @ \/ failed]]
        /\ pending' = pending /\ UNCHANGED World
        /\ owners' = [owners EXCEPT ![c] = own]
        /\ own \in {owners[c], owners[c] \ {u}} /\ (~failed => own = owners[c] \ {u})
        /\ happened \subseteq happened' /\ happened' \subseteq Faults
  <2>1. call[c] \in Call /\ happened \subseteq Faults /\ owners[c] \in SUBSET Users
        /\ owners \in [Clusters -> SUBSET Users]
        BY DEF IInv, TypeOK
  <2>2. PICK u \in call[c].doomed :
          \/ /\ owners' = [owners EXCEPT ![c] = @ \ {u}]
             /\ Proceed(c, [call[c] EXCEPT !.doomed = @ \ {u}])
             /\ UNCHANGED happened
          \/ /\ Fault("error")
             /\ owners' \in {owners, [owners EXCEPT ![c] = @ \ {u}]}
             /\ Proceed(c, [call[c] EXCEPT !.doomed = @ \ {u}, !.failed = TRUE])
        BY DEF Revoke
  <2>3. /\ [call[c] EXCEPT !.doomed = @ \ {u}]
            = [call[c] EXCEPT !.doomed = @ \ {u}, !.failed = @ \/ FALSE]
        /\ [call[c] EXCEPT !.doomed = @ \ {u}, !.failed = TRUE]
            = [call[c] EXCEPT !.doomed = @ \ {u}, !.failed = @ \/ TRUE]
        BY <2>1 DEF Call
  <2>4. UNCHANGED World
        BY DEF Revoke
  <2>5. owners' \in {owners, [owners EXCEPT ![c] = owners[c] \ {u}]}
        /\ owners = [owners EXCEPT ![c] = owners[c]]
        BY <2>1, <2>2
  <2>6. CASE /\ owners' = [owners EXCEPT ![c] = @ \ {u}]
             /\ Proceed(c, [call[c] EXCEPT !.doomed = @ \ {u}])
             /\ UNCHANGED happened
        BY <2>1, <2>3, <2>4, <2>6 DEF Proceed
  <2>7. CASE /\ Fault("error")
             /\ owners' \in {owners, [owners EXCEPT ![c] = @ \ {u}]}
             /\ Proceed(c, [call[c] EXCEPT !.doomed = @ \ {u}, !.failed = TRUE])
    <3>1. PICK own \in SUBSET owners[c] :
            /\ own \in {owners[c], owners[c] \ {u}}
            /\ owners' = [owners EXCEPT ![c] = own]
          BY <2>5
    <3> QED
        BY <2>1, <2>3, <2>4, <2>7, <3>1 DEF Proceed, Fault
  <2> QED
      BY <2>2, <2>6, <2>7
<1> DEFINE next == [call[c] EXCEPT !.doomed = @ \ {u}, !.failed = @ \/ failed]
<1>2. /\ next \in Call /\ next.at = "revoke" /\ next.doomed = call[c].doomed \ {u}
      /\ next.failed = (call[c].failed \/ failed) /\ call[c].at = "revoke"
      BY DEF IInv, TypeOK, Call, Revoke
<1> HIDE DEF next
<1>3. /\ call' = [call EXCEPT ![c] = next] /\ call'[c] = next
      /\ owners'[c] = own /\ own \in SUBSET Users
      BY <1>1 DEF next, IInv, TypeOK
<1>4. ASSUME Undisturbed(c)' PROVE Progress(c)'
  <2>1. Progress(c) /\ Wanted(c)' = Wanted(c)
        BY <1>1, <1>4 DEF Undisturbed, Settled, World, IInv, InStep, Wanted, Matching
  <2>2. CASE next.failed
        BY <1>2, <1>3, <2>2 DEF Progress
  <2>3. CASE ~next.failed
    <3>1. /\ Wanted(c) \subseteq owners[c] /\ call[c].doomed \cap Wanted(c) = {}
          /\ owners[c] \subseteq Wanted(c) \cup call[c].doomed /\ own = owners[c] \ {u}
          BY <1>1, <1>2, <2>1, <2>3 DEF Progress
    <3>2. /\ Wanted(c) \subseteq own /\ next.doomed \cap Wanted(c) = {}
          /\ own \subseteq Wanted(c) \cup next.doomed
          BY <1>2, <3>1
    <3> QED
        BY <1>2, <1>3, <2>1, <3>2 DEF Progress
  <2> QED
      BY <2>2, <2>3
<1> QED
    BY <1>1, <1>2, <1>3, <1>4, OneCallMoves DEF IInv, TypeOK

\* After the last one is revoked without an error the owners are those wanted.
LEMMA EndRevokeKeeps ==
  ASSUME IInv, NEW c \in Clusters, EndRevoke(c)
  PROVE  IInv'
<1>1. /\ call[c] \in Call /\ call[c].failed \in BOOLEAN /\ owners[c] \in SUBSET Users
      /\ owners' = [owners EXCEPT ![c] = owners[c]] /\ UNCHANGED World /\ happened' = happened
      /\ happened \subseteq Faults
      BY DEF IInv, TypeOK, EndRevoke, Call
<1>2. ASSUME Undisturbed(c)', ~call[c].failed PROVE owners[c] = Wanted(c)
  <2>1. Undisturbed(c)
        BY <1>1, <1>2 DEF Undisturbed, Settled, World, EndRevoke, Return
  <2>2. Progress(c) /\ call[c].at = "revoke" /\ call[c].doomed = {}
        BY <2>1 DEF IInv, InStep, EndRevoke
  <2> QED
      BY <1>2, <2>2 DEF Progress
<1>3. Wanted(c)' = Wanted(c)
      BY <1>1 DEF World, Wanted, Matching
<1>4. Return(c, call[c].failed)
      BY DEF EndRevoke
<1> QED
    BY <1>1, <1>2, <1>3, <1>4, ReturnKeeps

\* Triggers and Rancher: a binding that matters to a cluster has an event that
\* unsettles it until the cluster is pending.
LEMMA EnvironmentKeeps ==
  ASSUME IInv,
         \/ \E b \in Bindings : Deliver(b) \/ AddBinding(b) \/ RemoveBinding(b)
         \/ \E c \in Clusters : Resync(c)
         \/ \E p \in Projects : DeleteProject(p)
  PROVE  IInv'
<1>1. UNCHANGED <<owners, call>>
      BY DEF Deliver, AddBinding, RemoveBinding, Resync, DeleteProject
<1>2. TypeOK'
  <2>1. bindings' \subseteq Bindings /\ events' \subseteq Bindings
        BY DEF IInv, TypeOK, Deliver, AddBinding, RemoveBinding, Resync, DeleteProject, World
  <2>2. projects' \subseteq Projects
        BY DEF IInv, TypeOK, Deliver, AddBinding, RemoveBinding, Resync, DeleteProject, World
  <2>3. pending' \subseteq Clusters
        BY DEF IInv, TypeOK, Deliver, AddBinding, RemoveBinding, Resync, DeleteProject, Related
  <2>4. happened' \subseteq Faults
        BY DEF IInv, TypeOK, Deliver, AddBinding, RemoveBinding, Resync, DeleteProject, Fault
  <2> QED
      BY <1>1, <2>1, <2>2, <2>3, <2>4 DEF IInv, TypeOK
<1>3. Fresh'
      BY <1>1 DEF IInv, Fresh
<1>4. ASSUME NEW c \in Clusters, Undisturbed(c)'
      PROVE  Undisturbed(c) /\ Wanted(c)' = Wanted(c)
             /\ Matching(ProjectOf[c])' = Matching(ProjectOf[c])
  <2>1. ASSUME NEW b \in Bindings, Deliver(b) PROVE Undisturbed(c) /\ UNCHANGED bindings
    <3>1. ProjectOf[c] \in projects /\ c \notin pending' /\ pending \subseteq pending'
          BY <1>4, <2>1 DEF Deliver, Undisturbed, Settled
    <3>2. pending' = pending \cup Related(b)
          BY <1>4, <2>1 DEF Deliver, Fault, Undisturbed
    <3>3. ScopeOf[b] \notin {ProjectOf[c], HostOf[c]}
          BY <3>1, <3>2 DEF Related
    <3> QED
        BY <1>4, <2>1, <3>1, <3>3 DEF Deliver, Undisturbed, Settled, Fault
  <2>2. ASSUME NEW b \in Bindings, AddBinding(b) \/ RemoveBinding(b)
        PROVE  /\ Undisturbed(c) /\ bindings \ {b} = bindings' \ {b}
               /\ ScopeOf[b] \notin {ProjectOf[c], HostOf[c]}
        BY <1>4, <2>2 DEF AddBinding, RemoveBinding, Undisturbed, Settled
  <2>3. ASSUME NEW d \in Clusters, Resync(d) PROVE Undisturbed(c) /\ UNCHANGED bindings
        BY <1>4, <2>3 DEF Resync, World, Undisturbed, Settled
  <2>4. ASSUME NEW p \in Projects, DeleteProject(p) PROVE Undisturbed(c) /\ UNCHANGED bindings
        BY <1>4, <2>4 DEF DeleteProject, Undisturbed, Settled, Fault
  <2>5. ASSUME UNCHANGED bindings
        PROVE  Matching(ProjectOf[c])' = Matching(ProjectOf[c]) /\ Wanted(c)' = Wanted(c)
        BY <2>5 DEF Matching, Wanted
  <2>6. ASSUME NEW b \in Bindings, bindings \ {b} = bindings' \ {b},
               ScopeOf[b] \notin {ProjectOf[c], HostOf[c]}
        PROVE  Matching(ProjectOf[c])' = Matching(ProjectOf[c]) /\ Wanted(c)' = Wanted(c)
    <3>1. /\ Matching(ProjectOf[c])' = Matching(ProjectOf[c])
          /\ Matching(HostOf[c])' = Matching(HostOf[c])
          BY <2>6 DEF Matching
    <3> QED
        BY <3>1 DEF Wanted
  <2> QED
      BY <2>1, <2>2, <2>3, <2>4, <2>5, <2>6
<1>5. InStep'
      BY <1>1, <1>4 DEF IInv, InStep, Progress
<1> QED
    BY <1>2, <1>3, <1>5 DEF IInv

\* Every step keeps the invariant.
LEMMA StepInv == IInv /\ [Next]_vars => IInv'
<1> SUFFICES ASSUME IInv, [Next]_vars PROVE IInv'
    OBVIOUS
<1>1. ASSUME NEW c \in Clusters, Begin(c) \/ Step(c) \/ ReadFails(c) PROVE IInv'
      BY <1>1, ReadersKeep, GrantKeeps, EndGrantKeeps, RevokeKeeps, EndRevokeKeeps DEF Step
<1>2. ASSUME NEW c \in Clusters, NEW u \in Users, RemoveOwner(c, u) PROVE IInv'
  <2>1. TypeOK' /\ Fresh'
        BY <1>2 DEF RemoveOwner, Fault, World, IInv, TypeOK, Fresh
  <2>2. InStep'
        BY <1>2 DEF RemoveOwner, Fault, InStep, Undisturbed
  <2> QED
      BY <2>1, <2>2 DEF IInv
<1>3. CASE Restart
  <2>1. TypeOK' /\ Fresh'
        BY <1>3 DEF Restart, Fault, IInv, TypeOK, Fresh, NoCall, Call
  <2>2. InStep'
        BY <1>3 DEF Restart, InStep, Undisturbed, Settled
  <2> QED
      BY <2>1, <2>2 DEF IInv
<1>4. CASE UNCHANGED vars
      BY <1>4 DEF vars, IInv, TypeOK, Fresh, InStep, Progress, Undisturbed, Settled, Wanted,
                  Matching
<1> QED
    BY <1>1, <1>2, <1>3, <1>4, EnvironmentKeeps DEF Next

\* The invariant of every reachable state.
LEMMA Invariance == Spec => []IInv
<1> QED
    BY InitInv, StepInv, PTL DEF Spec

\* The variables of the RBAC synchronisation keep their types; above all nobody
\* but a user is ever made an owner (cluster_controller.go, SyncRancherRBAC).
THEOREM TypeCorrect == Spec => []TypeOK
<1>1. IInv => TypeOK
      BY DEF IInv
<1> QED
    BY <1>1, Invariance, PTL

\* Whenever no Reconcile of a cluster is running, owed or about to be triggered,
\* its owners are exactly the users with a qualifying binding, whatever failed
\* and however the bindings changed under the calls (cluster_controller.go,
\* SyncRancherRBAC and the two map functions).
THEOREM OwnersCorrect == Spec => []OwnersFollow
<1>1. IInv => OwnersFollow
      BY DEF IInv, InStep, Undisturbed, Progress, OwnersFollow
<1> QED
    BY <1>1, Invariance, PTL
=============================================================================
