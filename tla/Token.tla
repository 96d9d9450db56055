-------------------------------- MODULE Token --------------------------------
(***************************************************************************)
(* The operator's token for Rancher: GetToken of pkg/token/token.go, called *)
(* once by every process that starts (cmd/main.go).  A rolling update has  *)
(* two pods for a while, and leader election is off unless a flag turns it *)
(* on, which the chart does not: what keeps two processes from working at  *)
(* once is that the token is replaced with which the older one             *)
(* authenticates.  The token has a fixed name; what each process keeps is  *)
(* its secret value.                                                       *)
(***************************************************************************)
EXTENDS FiniteSets, Naturals

CONSTANTS
  Pods,       \* the pods that the Deployment ever makes
  MaxFaults   \* bound: API errors and crashes

ASSUME FaultsAssumption == MaxFaults \in Nat

VARIABLES
  user,    \* the operator's user of the Helm chart exists
  tokens,  \* the pods whose value is that of a token object
  at,      \* where the process of each pod is
  alone,   \* history: no other GetToken ran when this pod's began, or since
  faults

vars == <<user, tokens, at, alone, faults>>

Starting == {"list", "delete", "user", "create"}

TypeOK ==
  /\ user \in BOOLEAN
  /\ tokens \subseteq Pods /\ Cardinality(tokens) <= 1
  /\ at \in [Pods -> Starting \cup {"none", "waiting", "running", "gone"}]
  /\ alone \in [Pods -> BOOLEAN]
  /\ faults \in 0 .. MaxFaults

Init ==
  /\ user = FALSE /\ tokens = {}
  /\ at = [p \in Pods |-> "none"]
  /\ alone = [p \in Pods |-> FALSE]
  /\ faults = 0

Live == {p \in Pods : at[p] \notin {"none", "gone"}}

Move(p, place) == at' = [at EXCEPT ![p] = place]

-----------------------------------------------------------------------------
(* GetToken                                                                *)

\* The kubelet starts the process, again and again if it exits.
Begin(p) ==
  /\ at[p] = "waiting"
  /\ Move(p, "list")
  /\ alone' = [q \in Pods |-> q = p /\ \A r \in Pods \ {p} : at[r] \notin Starting]
  /\ UNCHANGED <<user, tokens, faults>>

\* Mutant of Listed: the token of an earlier process is not looked for.
ListedNone == "user"

\* Mutant of Listed: a token that is there will do.
ListedServes == IF tokens # {} THEN "running" ELSE "user"

Listed == IF tokens # {} THEN "delete" ELSE "user"

List(p) ==
  /\ at[p] = "list"
  /\ Move(p, Listed)
  /\ UNCHANGED <<user, tokens, alone, faults>>

\* By name: it takes whatever token there is by now.  NotFound is an error, and
\* main exits for any error.
Delete(p) ==
  /\ at[p] = "delete"
  /\ tokens' = {}
  /\ Move(p, IF tokens = {} THEN "waiting" ELSE "user")
  /\ UNCHANGED <<user, alone, faults>>

LookUpUser(p) ==
  /\ at[p] = "user"
  /\ Move(p, IF user THEN "create" ELSE "waiting")
  /\ UNCHANGED <<user, tokens, alone, faults>>

Created(p) ==
  \/ tokens = {} /\ tokens' = {p} /\ Move(p, "running")
  \/ tokens # {} /\ UNCHANGED tokens /\ Move(p, "waiting")

Create(p) ==
  /\ at[p] = "create"
  /\ Created(p)
  /\ UNCHANGED <<user, alone, faults>>

Step(p) == List(p) \/ Delete(p) \/ LookUpUser(p) \/ Create(p)

-----------------------------------------------------------------------------
(* What happens to the process                                             *)

\* A call fails, or its answer is lost, or a running process ends.
Crash(p) ==
  /\ faults < MaxFaults /\ faults' = faults + 1
  /\ at[p] \in Starting \cup {"running"}
  /\ Move(p, "waiting")
  /\ \/ UNCHANGED tokens
     \/ at[p] = "delete" /\ tokens' = {}
     \/ at[p] = "create" /\ tokens = {} /\ tokens' = {p}
  /\ UNCHANGED <<user, alone>>

\* The Deployment has one replica, and one more pod during an update.
NewPod(p) ==
  /\ at[p] = "none" /\ Cardinality(Live) < 2
  /\ Move(p, "waiting")
  /\ UNCHANGED <<user, tokens, alone, faults>>

\* An update ends with the new pod, or is taken back.
RemovePod(p) ==
  /\ p \in Live /\ Live # {p}
  /\ Move(p, "gone")
  /\ UNCHANGED <<user, tokens, alone, faults>>

\* Helm creates the Deployment before the chart's user.
CreateUser ==
  /\ ~user
  /\ user' = TRUE
  /\ UNCHANGED <<tokens, at, alone, faults>>

Next ==
  \/ \E p \in Pods : Begin(p) \/ Step(p) \/ Crash(p) \/ NewPod(p) \/ RemovePod(p)
  \/ CreateUser

Spec == Init /\ [][Next]_vars

\* The kubelet restarts what exits, API calls return, the user is created.
Fairness ==
  /\ \A p \in Pods : WF_vars(Begin(p)) /\ WF_vars(Step(p))
  /\ WF_vars(CreateUser)

FairSpec == Spec /\ Fairness

-----------------------------------------------------------------------------
(* Properties                                                              *)

\* The token of a running process is valid as long as no other process calls
\* GetToken after or while it does.
UndisturbedValid == \A p \in Pods : at[p] = "running" /\ alone[p] => p \in tokens

\* The only pod that is left comes up, whatever token and half-done start the
\* others left behind, and serves with a valid token unless it was disturbed.
LastPodServes ==
  \A p \in Pods :
    <>[](Live = {p}) => <>[](at[p] = "running" /\ (p \in tokens \/ ~alone[p]))

\* The token of the only pod that is left is used to authenticate requests.
LastPodAuthenticated ==
  \A p \in Pods : Live = {p} /\ at[p] = "running" => p \in tokens
=============================================================================
