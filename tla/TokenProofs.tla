----------------------------- MODULE TokenProofs -----------------------------
(* Theorems about Token, for any number of pods and faults.                *)
EXTENDS Token, FiniteSetTheorems, TLAPS

\* As long as a pod is alone, no other pod is in GetToken.
AloneOK ==
  \A p, q \in Pods : alone[p] /\ q # p => at[q] \notin Starting

IInv == TypeOK /\ AloneOK /\ UndisturbedValid

\* There is never more than one token, since they would have one name.
LEMMA AtMostOne ==
  ASSUME TypeOK, NEW p \in Pods, tokens' \in {tokens, {}, {p}}
  PROVE  tokens' \subseteq Pods /\ Cardinality(tokens') <= 1
<1>1. Cardinality({}) = 0 /\ Cardinality({p}) = 1
      BY FS_EmptySet, FS_Singleton
<1> QED
    BY <1>1 DEF TypeOK

\* A step of GetToken: alone or not, the token of a pod that was alone stays,
\* or becomes that of the pod that moves.
LEMMA StepInv ==
  ASSUME IInv, NEW p \in Pods, Step(p)
  PROVE  IInv'
<1>1. /\ UNCHANGED <<user, alone, faults>>
      /\ tokens' \in {tokens, {}, {p}}
      /\ \E place \in Starting \cup {"waiting", "running"} :
           /\ at' = [at EXCEPT ![p] = place]
           /\ place = "running" => tokens' = {p}
      /\ at[p] \in Starting
      BY DEF Step, List, Listed, Delete, LookUpUser, Create, Created, Move, Starting
<1>2. PICK place \in Starting \cup {"waiting", "running"} :
        at' = [at EXCEPT ![p] = place] /\ (place = "running" => tokens' = {p})
      BY <1>1
<1>3. TypeOK'
  <2>1. tokens' \subseteq Pods /\ Cardinality(tokens') <= 1
        BY <1>1, AtMostOne DEF IInv
  <2> QED
      BY <1>1, <1>2, <2>1 DEF IInv, TypeOK
<1>4. AloneOK'
      BY <1>1, <1>2 DEF IInv, TypeOK, AloneOK, Starting
<1>5. UndisturbedValid'
  <2> SUFFICES ASSUME NEW q \in Pods, at'[q] = "running", alone'[q]
               PROVE  q \in tokens'
      BY DEF UndisturbedValid
  <2>1. q = p
        BY <1>1 DEF IInv, AloneOK
  <2> QED
      BY <1>2, <2>1 DEF IInv, TypeOK
<1> QED
    BY <1>3, <1>4, <1>5 DEF IInv

\* What happens to the processes.
LEMMA ProcessInv ==
  ASSUME IInv, NEW p \in Pods, Begin(p) \/ Crash(p) \/ NewPod(p) \/ RemovePod(p)
  PROVE  IInv'
<1>1. CASE Begin(p)
  <2>1. \A q \in Pods : alone'[q] => q = p /\ \A r \in Pods \ {p} : at[r] \notin Starting
        BY <1>1 DEF Begin
  <2>2. TypeOK'
        BY <1>1 DEF Begin, Move, IInv, TypeOK, Starting
  <2>3. AloneOK'
        BY <1>1, <2>1 DEF Begin, Move, IInv, TypeOK, AloneOK
  <2>4. UndisturbedValid'
        BY <1>1, <2>1 DEF Begin, Move, IInv, TypeOK, UndisturbedValid
  <2> QED
      BY <2>2, <2>3, <2>4 DEF IInv
<1>2. CASE Crash(p)
  <2>1. /\ at' = [at EXCEPT ![p] = "waiting"] /\ UNCHANGED <<user, alone>>
        /\ tokens' \in {tokens, {}, {p}}
        /\ tokens' # tokens => at[p] \in Starting
        BY <1>2 DEF Crash, Move, Starting
  <2>2. faults' \in 0 .. MaxFaults
        BY <1>2, FaultsAssumption DEF Crash, IInv, TypeOK
  <2>3. TypeOK'
    <3>1. tokens' \subseteq Pods /\ Cardinality(tokens') <= 1
          BY <2>1, AtMostOne DEF IInv
    <3> QED
        BY <2>1, <2>2, <3>1 DEF IInv, TypeOK
  <2>4. AloneOK'
        BY <2>1 DEF IInv, TypeOK, AloneOK, Starting
  <2>5. UndisturbedValid'
    <3> SUFFICES ASSUME NEW q \in Pods, at'[q] = "running", alone'[q]
                 PROVE  q \in tokens'
        BY DEF UndisturbedValid
    <3>1. q # p /\ at[q] = "running" /\ alone[q]
          BY <2>1 DEF IInv, TypeOK
    <3>2. tokens' = tokens
          BY <2>1, <3>1 DEF IInv, AloneOK
    <3> QED
        BY <3>1, <3>2 DEF IInv, UndisturbedValid
  <2> QED
      BY <2>3, <2>4, <2>5 DEF IInv
<1>3. CASE NewPod(p) \/ RemovePod(p)
  <2>1. /\ at' = [at EXCEPT ![p] = "waiting"] \/ at' = [at EXCEPT ![p] = "gone"]
        /\ UNCHANGED <<user, tokens, alone, faults>>
        BY <1>3 DEF NewPod, RemovePod, Move
  <2> QED
      BY <2>1 DEF IInv, TypeOK, AloneOK, UndisturbedValid, Starting
<1> QED
    BY <1>1, <1>2, <1>3

\* The invariant of every reachable state.
LEMMA Invariance == Spec => []IInv
<1>1. Init => IInv
  <2> SUFFICES ASSUME Init PROVE IInv
      OBVIOUS
  <2>1. Cardinality(tokens) <= 1 /\ tokens \subseteq Pods /\ user \in BOOLEAN
    <3>1. tokens = {} /\ user = FALSE
          BY DEF Init
    <3>2. Cardinality(tokens) = 0
          BY <3>1, FS_EmptySet
    <3>3. Cardinality(tokens) <= 1
          BY <3>2
    <3>4. tokens \subseteq Pods /\ user \in BOOLEAN
          BY <3>1
    <3> QED
        BY <3>3, <3>4
  <2>2. TypeOK
        BY <2>1, FaultsAssumption DEF Init, TypeOK
  <2> QED
      BY <2>2 DEF Init, IInv, AloneOK, UndisturbedValid
<1>2. IInv /\ [Next]_vars => IInv'
  <2> SUFFICES ASSUME IInv, [Next]_vars PROVE IInv'
      OBVIOUS
  <2>1. CASE CreateUser
        BY <2>1 DEF CreateUser, IInv, TypeOK, AloneOK, UndisturbedValid
  <2>2. CASE UNCHANGED vars
        BY <2>2 DEF vars, IInv, TypeOK, AloneOK, UndisturbedValid
  <2> QED
      BY <2>1, <2>2, StepInv, ProcessInv DEF Next
<1> QED
    BY <1>1, <1>2, PTL DEF Spec

\* The variables keep their types, and there is never more than one token of the
\* operator's (token.go, GetToken).
THEOREM TypeCorrect == Spec => []TypeOK
<1>1. IInv => TypeOK
      BY DEF IInv
<1> QED
    BY <1>1, Invariance, PTL

\* A process serves with a valid token until another one starts, whatever the
\* earlier ones left behind and wherever they failed (token.go, GetToken).
THEOREM TokenStaysValid == Spec => []UndisturbedValid
<1>1. IInv => UndisturbedValid
      BY DEF IInv
<1> QED
    BY <1>1, Invariance, PTL
=============================================================================
