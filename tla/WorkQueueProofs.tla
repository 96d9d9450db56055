--------------------------- MODULE WorkQueueProofs ---------------------------
(***************************************************************************)
(* What WorkQueue promises for every set of items and of workers.          *)
(***************************************************************************)
EXTENDS WorkQueue, SequenceTheorems, TLAPS

-----------------------------------------------------------------------------
(* Sequences without duplicates                                            *)

\* Adding an item that is not in the FIFO keeps it free of duplicates.
LEMMA AppendNew ==
  ASSUME NEW S, NEW q \in Seq(S), NEW i \in S
  PROVE  /\ Append(q, i) \in Seq(S)
         /\ Range(Append(q, i)) = Range(q) \cup {i}
         /\ IsInjective(q) /\ i \notin Range(q) => IsInjective(Append(q, i))
<1> DEFINE r == Append(q, i)
<1>1. /\ r \in Seq(S)
      /\ Len(q) \in Nat
      /\ DOMAIN q = 1 .. Len(q)
      /\ DOMAIN r = 1 .. (Len(q) + 1)
      /\ \A n \in 1 .. Len(q) : r[n] = q[n]
      /\ r[Len(q) + 1] = i
  BY AppendProperties, LenProperties
<1> HIDE DEF r
<1>2. DOMAIN r = DOMAIN q \cup {Len(q) + 1} /\ Len(q) + 1 \notin DOMAIN q
  BY <1>1
<1>3. Range(r) = Range(q) \cup {i}
  BY <1>1, <1>2 DEF Range
<1>4. ASSUME IsInjective(q), i \notin Range(q) PROVE IsInjective(r)
  BY <1>1, <1>2, <1>4 DEF IsInjective, Range
<1> QED BY <1>1, <1>3, <1>4 DEF r

\* Taking the head of a FIFO without duplicates takes that item out of it.
LEMMA TakeHead ==
  ASSUME NEW S, NEW q \in Seq(S), q # <<>>, IsInjective(q)
  PROVE  /\ Head(q) \in Range(q)
         /\ Tail(q) \in Seq(S)
         /\ Range(Tail(q)) = Range(q) \ {Head(q)}
         /\ IsInjective(Tail(q))
<1> DEFINE r == Tail(q)
<1>1. /\ r \in Seq(S)
      /\ Len(q) \in Nat /\ Len(q) > 0
      /\ DOMAIN q = 1 .. Len(q)
      /\ DOMAIN r = 1 .. (Len(q) - 1)
      /\ \A n \in 1 .. (Len(q) - 1) : r[n] = q[n + 1]
      /\ Head(q) = q[1]
  BY HeadTailProperties, LenProperties, EmptySeq
<1> HIDE DEF r
<1>2. Head(q) \in Range(q)
  BY <1>1 DEF Range
<1>3. IsInjective(r)
  <2> SUFFICES ASSUME NEW m \in DOMAIN r, NEW n \in DOMAIN r, r[m] = r[n]
               PROVE  m = n
    BY DEF IsInjective
  <2>1. /\ m + 1 \in DOMAIN q /\ r[m] = q[m + 1]
        /\ n + 1 \in DOMAIN q /\ r[n] = q[n + 1]
    BY <1>1
  <2>2. m + 1 = n + 1
    BY <2>1 DEF IsInjective
  <2> QED BY <1>1, <2>2
<1>4. Range(r) \subseteq Range(q) \ {Head(q)}
  <2> SUFFICES ASSUME NEW n \in DOMAIN r PROVE r[n] \in Range(q) /\ r[n] # q[1]
    BY <1>1 DEF Range
  <2>1. n + 1 \in DOMAIN q /\ 1 \in DOMAIN q /\ n + 1 # 1 /\ r[n] = q[n + 1]
    BY <1>1
  <2> QED BY <2>1 DEF IsInjective, Range
<1>5. Range(q) \ {Head(q)} \subseteq Range(r)
  <2> SUFFICES ASSUME NEW n \in DOMAIN q, q[n] # q[1] PROVE q[n] \in Range(r)
    BY <1>1 DEF Range
  <2>1. n - 1 \in DOMAIN r /\ r[n - 1] = q[n]
    BY <1>1
  <2> QED BY <2>1 DEF Range
<1> QED BY <1>1, <1>2, <1>3, <1>4, <1>5 DEF r

-----------------------------------------------------------------------------
(* The bookkeeping                                                         *)

\* TypeOK, the agreement of the FIFO with the two sets, and exclusion carry
\* each other: Get finds the item it takes free because only items that are
\* not in process are in the FIFO, and they are there once.
IInv == TypeOK /\ QueueConsistent /\ ItemExclusive

\* Add keeps the FIFO equal to the dirty items that are not in process.
LEMMA AddKeepsQueue ==
  ASSUME TypeOK, QueueConsistent, NEW i \in Items, Add(i), processing' = processing
  PROVE  /\ queue' \in Seq(Items)
         /\ dirty' \subseteq Items
         /\ IsInjective(queue')
         /\ Range(queue') = dirty' \ processing'
         /\ dirty' = dirty \/ (~shuttingDown /\ dirty' = dirty \cup {i})
<1>1. CASE Refuses(i) /\ UNCHANGED <<queue, dirty>>
  BY <1>1 DEF TypeOK, QueueConsistent
<1>2. CASE ~Refuses(i) /\ dirty' = dirty \cup {i} /\ Push(i)
  <2>1. i \notin dirty /\ ~shuttingDown
    BY <1>2 DEF Refuses
  <2>2. CASE i \in processing
    BY <1>2, <2>1, <2>2 DEF TypeOK, QueueConsistent, Push
  <2>3. CASE i \notin processing
    <3>1. queue' = Append(queue, i) /\ i \notin Range(queue)
      BY <1>2, <2>1, <2>3 DEF Push, QueueConsistent
    <3>2. /\ queue' \in Seq(Items)
          /\ Range(queue') = Range(queue) \cup {i}
          /\ IsInjective(queue')
      BY <3>1, AppendNew DEF TypeOK, QueueConsistent
    <3> QED BY <1>2, <2>1, <2>3, <3>2 DEF TypeOK, QueueConsistent
  <2> QED BY <2>2, <2>3
<1> QED BY <1>1, <1>2 DEF Add

LEMMA InitIInv == Init => IInv
<1> SUFFICES ASSUME Init PROVE IInv
  OBVIOUS
<1>1. TypeOK
  <2>1. queue \in Seq(Items)
    BY EmptySeq DEF Init
  <2>2. failures \in [Items -> 0 .. MaxFailures]
    BY MaxFailuresAssumption DEF Init
  <2>3. /\ pc \in [Workers -> Places]
        /\ holder \in [Workers -> Items \cup {NoItem}]
        /\ result \in [Workers -> Results]
        /\ last \in [Items -> Results]
    BY DEF Init, Results, Places
  <2>4. /\ dirty \subseteq Items /\ processing \subseteq Items /\ delayed \subseteq Items
        /\ cancelled \in BOOLEAN /\ shuttingDown \in BOOLEAN /\ unseen \subseteq Items
    BY DEF Init
  <2> QED BY <2>1, <2>2, <2>3, <2>4 DEF TypeOK
<1>2. QueueConsistent
  <2>1. DOMAIN queue = {}
    BY DEF Init
  <2>2. IsInjective(queue) /\ Range(queue) = {}
    BY <2>1 DEF IsInjective, Range
  <2> QED BY <2>2 DEF Init, QueueConsistent
<1>3. ItemExclusive
  BY DEF Init, ItemExclusive
<1> QED BY <1>1, <1>2, <1>3 DEF IInv

LEMMA StepIInv == IInv /\ [Next]_vars => IInv'
<1> SUFFICES ASSUME IInv, [Next]_vars PROVE IInv'
  OBVIOUS
<1> USE DEF IInv
<1>1. ASSUME NEW i \in Items, Event(i) PROVE IInv'
  <2>1. /\ Add(i)
        /\ UNCHANGED <<processing, delayed, failures, workers, cancelled, shuttingDown, last>>
        /\ unseen' = unseen \cup {i}
    BY <1>1 DEF Event
  <2>2. TypeOK'
    BY <2>1, AddKeepsQueue DEF TypeOK, workers
  <2>3. QueueConsistent'
    BY <2>1, AddKeepsQueue DEF QueueConsistent, workers
  <2>4. ItemExclusive'
    BY <2>1 DEF ItemExclusive, workers
  <2> QED BY <2>2, <2>3, <2>4
<1>2. ASSUME NEW i \in Items, TimerFires(i) PROVE IInv'
  <2>1. /\ Add(i)
        /\ UNCHANGED <<processing, failures, workers, cancelled, shuttingDown, history>>
        /\ delayed' = delayed \ {i}
    BY <1>2 DEF TimerFires
  <2>2. TypeOK'
    BY <2>1, AddKeepsQueue DEF TypeOK, workers, history
  <2>3. QueueConsistent'
    BY <2>1, AddKeepsQueue DEF QueueConsistent, workers
  <2>4. ItemExclusive'
    BY <2>1 DEF ItemExclusive, workers
  <2> QED BY <2>2, <2>3, <2>4
<1>3. ASSUME NEW w \in Workers, StartWorker(w) PROVE IInv'
  <2>1. TypeOK'
    BY <1>3 DEF StartWorker, TypeOK, inner, history, Places
  <2>2. QueueConsistent'
    BY <1>3 DEF StartWorker, TypeOK, QueueConsistent, inner, history, Places
  <2>3. ItemExclusive'
    BY <1>3 DEF StartWorker, ItemExclusive
  <2> QED BY <2>1, <2>2, <2>3
<1>4. ASSUME NEW w \in Workers, Get(w) PROVE IInv'
  <2> DEFINE i == Head(queue)
  <2>1. /\ i \in Range(queue)
        /\ queue' \in Seq(Items)
        /\ Range(queue') = Range(queue) \ {i}
        /\ IsInjective(queue')
    BY <1>4, TakeHead DEF Get, Claim, TypeOK, QueueConsistent
  <2>2. /\ processing' = processing \cup {i}
        /\ dirty' = dirty \ {i}
        /\ holder' = [holder EXCEPT ![w] = i]
        /\ unseen' = unseen \ {i}
        /\ pc' = [pc EXCEPT ![w] = "reconciling"]
        /\ pc[w] = "getting"
        /\ UNCHANGED <<delayed, failures, result, cancelled, shuttingDown, last>>
    BY <1>4 DEF Get, Claim
  <2> HIDE DEF i
  <2>3. i \in Items /\ i \in dirty /\ i \notin processing /\ i # NoItem
    BY <2>1, NoItemAssumption DEF QueueConsistent, TypeOK
  <2>4. \A v \in Workers : holder[v] # i
    BY <2>3 DEF QueueConsistent
  <2>5. holder[w] = NoItem
    BY <2>2 DEF QueueConsistent
  <2>6. TypeOK'
    BY <2>1, <2>2, <2>3 DEF TypeOK, Places
  <2>7. QueueConsistent'
    <3>1. Range(queue') = dirty' \ processing'
      BY <2>1, <2>2 DEF QueueConsistent
    <3>2. processing' = {holder'[v] : v \in Workers} \ {NoItem}
      BY <2>2, <2>3, <2>5 DEF QueueConsistent, TypeOK
    <3>3. \A v \in Workers : holder'[v] # NoItem
                            <=> pc'[v] \in {"reconciling", "handling", "finishing"}
      BY <2>2, <2>3 DEF QueueConsistent, TypeOK
    <3> QED BY <2>1, <3>1, <3>2, <3>3 DEF QueueConsistent
  <2>8. ItemExclusive'
    BY <2>2, <2>4 DEF ItemExclusive, TypeOK
  <2> QED BY <2>6, <2>7, <2>8
<1>5. ASSUME NEW w \in Workers, GetQuit(w) PROVE IInv'
  <2>1. TypeOK'
    BY <1>5 DEF GetQuit, TypeOK, inner, history, Places
  <2>2. QueueConsistent'
    BY <1>5 DEF GetQuit, TypeOK, QueueConsistent, inner, history
  <2>3. ItemExclusive'
    BY <1>5 DEF GetQuit, ItemExclusive
  <2> QED BY <2>1, <2>2, <2>3
<1>6. ASSUME NEW w \in Workers, NEW r \in Results, ReconcileReturns(w, r) PROVE IInv'
  <2>1. holder[w] # NoItem /\ holder[w] \in Items
    BY <1>6 DEF ReconcileReturns, QueueConsistent, TypeOK
  <2>2. TypeOK'
    BY <1>6, <2>1 DEF ReconcileReturns, TypeOK, inner, Places
  <2>3. QueueConsistent'
    BY <1>6 DEF ReconcileReturns, TypeOK, QueueConsistent, inner
  <2>4. ItemExclusive'
    BY <1>6 DEF ReconcileReturns, ItemExclusive
  <2> QED BY <2>2, <2>3, <2>4
<1>7. ASSUME NEW w \in Workers, HandleErr(w) PROVE IInv'
  <2>1. holder[w] # NoItem /\ holder[w] \in Items
    BY <1>7 DEF HandleErr, QueueConsistent, TypeOK
  <2>2. failures' \in [Items -> 0 .. MaxFailures] /\ delayed' \subseteq Items
    <3>1. Retry(holder[w], result[w])
      BY <1>7 DEF HandleErr
    <3>2. Forget(holder[w]) => failures' \in [Items -> 0 .. MaxFailures]
      BY <2>1, MaxFailuresAssumption DEF Forget, TypeOK
    <3>3. CountFailure(holder[w]) => failures' \in [Items -> 0 .. MaxFailures]
      <4>1. failures[holder[w]] \in 0 .. MaxFailures
        BY <2>1 DEF TypeOK
      <4> QED BY <2>1, <4>1, MaxFailuresAssumption DEF CountFailure, TypeOK
    <3>4. AddAfter(holder[w]) => delayed' \subseteq Items
      BY <2>1 DEF AddAfter, TypeOK
    <3> QED BY <3>1, <3>2, <3>3, <3>4 DEF Retry, WaitRetry, TypeOK
  <2>3. TypeOK'
    BY <1>7, <2>2 DEF HandleErr, TypeOK, history, Places
  <2>4. QueueConsistent'
    BY <1>7 DEF HandleErr, TypeOK, QueueConsistent
  <2>5. ItemExclusive'
    BY <1>7 DEF HandleErr, ItemExclusive
  <2> QED BY <2>3, <2>4, <2>5
<1>8. ASSUME NEW w \in Workers, Done(w) PROVE IInv'
  <2> DEFINE i == holder[w]
  <2>1. /\ pc[w] = "finishing"
        /\ processing' = processing \ {i}
        /\ queue' = IF i \in dirty THEN Append(queue, i) ELSE queue
        /\ holder' = [holder EXCEPT ![w] = NoItem]
        /\ pc' = [pc EXCEPT ![w] = "getting"]
        /\ UNCHANGED <<dirty, delayed, failures, result, cancelled, shuttingDown, history>>
    BY <1>8 DEF Done, Repush
  <2>2. i # NoItem /\ i \in Items /\ i \in processing /\ i \notin Range(queue)
    BY <2>1 DEF QueueConsistent, TypeOK
  <2>3. \A v \in Workers : v # w => holder[v] # i
    BY <2>2 DEF ItemExclusive
  <2>4. /\ queue' \in Seq(Items)
        /\ IsInjective(queue')
        /\ Range(queue') = dirty' \ processing'
    <3>1. CASE i \in dirty
      BY <2>1, <2>2, <3>1, AppendNew DEF TypeOK, QueueConsistent
    <3>2. CASE i \notin dirty
      BY <2>1, <2>2, <3>2 DEF TypeOK, QueueConsistent
    <3> QED BY <3>1, <3>2
  <2>5. TypeOK'
    BY <2>1, <2>4 DEF TypeOK, history, Places
  <2>6. QueueConsistent'
    <3>1. processing' = {holder'[v] : v \in Workers} \ {NoItem}
      BY <2>1, <2>3 DEF QueueConsistent, TypeOK
    <3>2. \A v \in Workers : holder'[v] # NoItem
                            <=> pc'[v] \in {"reconciling", "handling", "finishing"}
      BY <2>1 DEF QueueConsistent, TypeOK
    <3> QED BY <2>4, <3>1, <3>2 DEF QueueConsistent
  <2>7. ItemExclusive'
    BY <2>1 DEF ItemExclusive, TypeOK
  <2> QED BY <2>5, <2>6, <2>7
<1>9. CASE Cancel
  BY <1>9 DEF Cancel, TypeOK, QueueConsistent, ItemExclusive, inner, workers, history
<1>10. CASE ShutDown
  BY <1>10 DEF ShutDown, TypeOK, QueueConsistent, ItemExclusive, inner, workers, history
<1>11. CASE UNCHANGED vars
  BY <1>11 DEF vars, TypeOK, QueueConsistent, ItemExclusive, inner, workers, history
<1> QED
  BY <1>1, <1>2, <1>3, <1>4, <1>5, <1>6, <1>7, <1>8, <1>9, <1>10, <1>11
  DEF Next, WorkerStep

\* The inductive invariant holds in every reachable state.
THEOREM Bookkeeping == Spec => []IInv
BY InitIInv, StepIInv, PTL DEF Spec

\* Every state has its types: sets of items, one counter each, places.
THEOREM TypeCorrect == Spec => []TypeOK
BY Bookkeeping, PTL DEF IInv

\* No two workers reconcile the same item, with any number of each.
THEOREM Exclusive == Spec => []ItemExclusive
BY Bookkeeping, PTL DEF IInv

-----------------------------------------------------------------------------
(* Nothing is lost                                                         *)

\* Why no event is lost: unseen grows only with Add, which makes the item
\* dirty unless the queue refuses it because it is dirty already, and the
\* dirty mark goes only with the Get that also takes the item out of unseen.
THEOREM EventsKept == Spec => []NoLostEvent
<1>1. Init => NoLostEvent
  BY DEF Init, NoLostEvent
<1>2. IInv /\ NoLostEvent /\ [Next]_vars => NoLostEvent'
  <2> SUFFICES ASSUME IInv, NoLostEvent, [Next]_vars, ~shuttingDown'
               PROVE  unseen' \subseteq dirty'
    BY DEF NoLostEvent
  <2>1. ~shuttingDown /\ unseen \subseteq dirty
    BY DEF NoLostEvent, Next, WorkerStep, Event, TimerFires, StartWorker, Get, Claim, GetQuit,
           ReconcileReturns, HandleErr, Done, Cancel, ShutDown, vars
  <2>2. ASSUME NEW i \in Items, Event(i) PROVE unseen' \subseteq dirty'
    BY <2>1, <2>2 DEF Event, Add, Refuses
  <2>3. ASSUME NEW i \in Items, TimerFires(i) PROVE unseen' \subseteq dirty'
    BY <2>1, <2>3 DEF TimerFires, Add, Refuses, history
  <2>4. ASSUME NEW w \in Workers, WorkerStep(w) PROVE unseen' \subseteq dirty'
    BY <2>1, <2>4 DEF WorkerStep, StartWorker, Get, Claim, GetQuit, ReconcileReturns, HandleErr,
                      Done, inner, history
  <2>5. CASE Cancel \/ ShutDown \/ UNCHANGED vars
    BY <2>1, <2>5 DEF Cancel, ShutDown, vars, inner, history
  <2> QED BY <2>2, <2>3, <2>4, <2>5 DEF Next
<1> QED BY <1>1, <1>2, Bookkeeping, PTL DEF Spec

\* What is known of a failed item before Done: handleErr still has to see the
\* answer that was recorded, or the retry is already armed.
RetryArmed ==
  \A w \in Workers :
    /\ pc[w] = "handling" => last[holder[w]] = result[w]
    /\ pc[w] = "finishing" /\ last[holder[w]] # "ok" /\ ~shuttingDown
         => holder[w] \in dirty \cup delayed

\* A failed or waiting item always has another Reconcile coming.
THEOREM RetriesKept == Spec => []FailedIsRetried
<1> DEFINE R == RetryArmed /\ FailedIsRetried
<1>1. Init => R
  BY DEF Init, RetryArmed, FailedIsRetried
<1>2. IInv /\ R /\ [Next]_vars => R'
  <2> SUFFICES ASSUME IInv, RetryArmed, FailedIsRetried, [Next]_vars
               PROVE  RetryArmed' /\ FailedIsRetried'
    OBVIOUS
  <2> USE DEF IInv
  <2>1. ASSUME NEW i \in Items, Event(i) \/ TimerFires(i)
        PROVE  RetryArmed' /\ FailedIsRetried'
    <3>1. /\ UNCHANGED <<processing, workers, shuttingDown, last>>
          /\ Add(i)
          /\ delayed' \in {delayed, delayed \ {i}}
      BY <2>1 DEF Event, TimerFires, history
    <3>2. ~shuttingDown => dirty' = dirty \cup {i}
      BY <3>1 DEF Add, Refuses
    <3> QED BY <3>1, <3>2 DEF RetryArmed, FailedIsRetried, workers
  <2>2. ASSUME NEW w \in Workers, StartWorker(w) \/ GetQuit(w)
        PROVE  RetryArmed' /\ FailedIsRetried'
    BY <2>2 DEF StartWorker, GetQuit, RetryArmed, FailedIsRetried, TypeOK, inner, history
  <2>3. ASSUME NEW w \in Workers, Get(w) PROVE RetryArmed' /\ FailedIsRetried'
    <3> DEFINE i == Head(queue)
    <3>1. i \in Range(queue)
      BY <2>3, TakeHead DEF Get, Claim, TypeOK, QueueConsistent
    <3>2. /\ processing' = processing \cup {i}
          /\ dirty' = dirty \ {i}
          /\ holder' = [holder EXCEPT ![w] = i]
          /\ pc' = [pc EXCEPT ![w] = "reconciling"]
          /\ UNCHANGED <<delayed, result, shuttingDown, last>>
      BY <2>3 DEF Get, Claim
    <3> HIDE DEF i
    <3>3. i \notin processing
      BY <3>1 DEF QueueConsistent
    <3>4. \A v \in Workers : pc[v] = "finishing" => holder[v] # i
      BY <3>3 DEF QueueConsistent
    <3> QED BY <3>2, <3>4 DEF RetryArmed, FailedIsRetried, TypeOK
  <2>4. ASSUME NEW w \in Workers, NEW r \in Results, ReconcileReturns(w, r)
        PROVE  RetryArmed' /\ FailedIsRetried'
    <3>1. holder[w] \in Items /\ holder[w] \in processing
      BY <2>4 DEF ReconcileReturns, QueueConsistent, TypeOK
    <3>2. \A v \in Workers : v # w => holder[v] # holder[w]
      BY <3>1 DEF ItemExclusive, QueueConsistent
    <3> QED BY <2>4, <3>1, <3>2
            DEF ReconcileReturns, RetryArmed, FailedIsRetried, TypeOK, inner
  <2>5. ASSUME NEW w \in Workers, HandleErr(w) PROVE RetryArmed' /\ FailedIsRetried'
    <3>1. /\ pc[w] = "handling"
          /\ pc' = [pc EXCEPT ![w] = "finishing"]
          /\ Retry(holder[w], result[w])
          /\ UNCHANGED <<dirty, processing, holder, result, shuttingDown, last>>
      BY <2>5 DEF HandleErr, history
    <3>2. /\ delayed \subseteq delayed'
          /\ result[w] # "ok" /\ ~shuttingDown => holder[w] \in delayed'
      BY <3>1 DEF Retry, WaitRetry, AddAfter
    <3> QED BY <3>1, <3>2 DEF RetryArmed, FailedIsRetried, TypeOK
  <2>6. ASSUME NEW w \in Workers, Done(w) PROVE RetryArmed' /\ FailedIsRetried'
    BY <2>6 DEF Done, RetryArmed, FailedIsRetried, TypeOK, history
  <2>7. CASE Cancel \/ ShutDown \/ UNCHANGED vars
    BY <2>7 DEF Cancel, ShutDown, vars, inner, workers, history, RetryArmed, FailedIsRetried
  <2> QED BY <2>1, <2>2, <2>3, <2>4, <2>5, <2>6, <2>7 DEF Next, WorkerStep
<1> QED BY <1>1, <1>2, Bookkeeping, PTL DEF Spec

\* What is known of the backoff while a worker has the item: it tells of the
\* last answer but in the time between the answer and handleErr.
BackoffOK ==
  /\ \A i \in Items :
       \/ failures[i] > 0 <=> last[i] = "error"
       \/ \E w \in Workers : pc[w] = "handling" /\ holder[w] = i
  /\ \A w \in Workers : pc[w] = "handling" => last[holder[w]] = result[w]

\* What handleErr does to the backoff agrees with the answer it is given.
LEMMA RetryCounts ==
  ASSUME TypeOK, NEW i \in Items, NEW r \in Results, Retry(i, r)
  PROVE  /\ failures'[i] > 0 <=> r = "error"
         /\ \A j \in Items \ {i} : failures'[j] = failures[j]
<1>1. failures[i] \in Nat /\ DOMAIN failures = Items
  BY MaxFailuresAssumption DEF TypeOK
<1>2. CASE r = "error"
  <2>1. CountFailure(i)
    BY <1>2 DEF Retry
  <2> QED BY <1>1, <1>2, <2>1, MaxFailuresAssumption DEF CountFailure
<1>3. CASE r # "error"
  <2>1. Forget(i)
    BY <1>3 DEF Retry, WaitRetry
  <2> QED BY <1>1, <1>3, <2>1 DEF Forget
<1> QED BY <1>2, <1>3

\* The backoff of an item that nobody holds tells of its last answer, for any
\* items and workers: exclusion keeps a newer answer from coming in between.
THEOREM BackoffFollows == Spec => []BackoffForErrors
<1>1. Init => BackoffOK
  BY DEF Init, BackoffOK
<1>2. IInv /\ BackoffOK /\ [Next]_vars => BackoffOK'
  <2> SUFFICES ASSUME IInv, BackoffOK, [Next]_vars PROVE BackoffOK'
    OBVIOUS
  <2> USE DEF IInv
  <2>1. CASE UNCHANGED <<failures, last, result>> /\ UNCHANGED <<pc, holder>>
    BY <2>1 DEF BackoffOK
  <2>2. ASSUME NEW w \in Workers,
               StartWorker(w) \/ Get(w) \/ GetQuit(w) \/ Done(w)
        PROVE  BackoffOK'
    <3>1. /\ UNCHANGED <<failures, last, result>>
          /\ pc[w] # "handling" /\ pc'[w] # "handling"
          /\ \A v \in Workers \ {w} : pc'[v] = pc[v] /\ holder'[v] = holder[v]
      BY <2>2 DEF StartWorker, Get, GetQuit, Done, inner, history, TypeOK
    <3> QED BY <3>1 DEF BackoffOK
  <2>3. ASSUME NEW w \in Workers, NEW r \in Results, ReconcileReturns(w, r)
        PROVE  BackoffOK'
    <3>1. holder[w] \in Items /\ holder[w] # NoItem
      BY <2>3 DEF ReconcileReturns, QueueConsistent, TypeOK
    <3>2. \A v \in Workers : v # w => holder[v] # holder[w]
      BY <3>1 DEF ItemExclusive
    <3>3. /\ pc' = [pc EXCEPT ![w] = "handling"]
          /\ result' = [result EXCEPT ![w] = r]
          /\ last' = [last EXCEPT ![holder[w]] = r]
          /\ UNCHANGED <<failures, holder>>
          /\ pc[w] # "handling"
      BY <2>3 DEF ReconcileReturns, inner
    <3> QED BY <3>1, <3>2, <3>3 DEF BackoffOK, TypeOK
  <2>4. ASSUME NEW w \in Workers, HandleErr(w) PROVE BackoffOK'
    <3>1. holder[w] \in Items /\ result[w] \in Results
      BY <2>4 DEF HandleErr, QueueConsistent, TypeOK
    <3>2. /\ pc[w] = "handling" /\ pc' = [pc EXCEPT ![w] = "finishing"]
          /\ Retry(holder[w], result[w])
          /\ UNCHANGED <<holder, result, last>>
      BY <2>4 DEF HandleErr, history
    <3>3. /\ failures'[holder[w]] > 0 <=> last[holder[w]] = "error"
          /\ \A j \in Items \ {holder[w]} : failures'[j] = failures[j]
      BY <3>1, <3>2, RetryCounts DEF BackoffOK
    <3> QED BY <3>1, <3>2, <3>3 DEF BackoffOK, TypeOK
  <2>5. CASE (\E i \in Items : Event(i) \/ TimerFires(i)) \/ Cancel \/ ShutDown \/ UNCHANGED vars
    BY <2>1, <2>5 DEF Event, TimerFires, Cancel, ShutDown, vars, inner, workers, history
  <2> QED BY <2>2, <2>3, <2>4, <2>5 DEF Next, WorkerStep
<1>3. IInv /\ BackoffOK => BackoffForErrors
  BY DEF IInv, BackoffOK, BackoffForErrors, QueueConsistent, TypeOK
<1> QED BY <1>1, <1>2, <1>3, Bookkeeping, PTL DEF Spec

-----------------------------------------------------------------------------
(* Nothing is left behind                                                  *)

\* Once one worker has been told to quit, the queue takes no more events and a
\* worker that still runs stands behind whatever is in the FIFO: the one that
\* called Done comes back to Get before it can quit itself.
Running(w) == pc[w] \in {"getting", "reconciling", "handling", "finishing"}
QuitOK ==
  (\E w \in Workers : pc[w] = "quit")
    => shuttingDown /\ (queue # <<>> => \E w \in Workers : Running(w))

LEMMA StepQuitOK == IInv /\ QuitOK /\ [Next]_vars => QuitOK'
<1> SUFFICES ASSUME IInv, QuitOK, [Next]_vars PROVE QuitOK'
  OBVIOUS
<1> USE DEF IInv
<1>1. ASSUME NEW i \in Items, Event(i) \/ TimerFires(i) PROVE QuitOK'
  <2>1. Add(i) /\ UNCHANGED <<pc, shuttingDown>>
    BY <1>1 DEF Event, TimerFires, workers
  <2>2. shuttingDown => queue' = queue
    BY <2>1 DEF Add, Refuses
  <2> QED BY <2>1, <2>2 DEF QuitOK, Running
<1>2. ASSUME NEW w \in Workers, StartWorker(w) PROVE QuitOK'
  BY <1>2 DEF StartWorker, QuitOK, Running, TypeOK, inner
<1>3. ASSUME NEW w \in Workers, GetQuit(w) PROVE QuitOK'
  BY <1>3 DEF GetQuit, MayQuit, QuitOK, inner
<1>4. ASSUME NEW w \in Workers,
             Get(w) \/ (\E r \in Results : ReconcileReturns(w, r)) \/ HandleErr(w) \/ Done(w)
      PROVE  QuitOK'
  <2>1. /\ shuttingDown' = shuttingDown
        /\ \E p \in {"getting", "reconciling", "handling", "finishing"} :
             pc' = [pc EXCEPT ![w] = p]
    BY <1>4 DEF Get, ReconcileReturns, HandleErr, Done
  <2>2. Running(w)' /\ \A v \in Workers : pc'[v] = "quit" => pc[v] = "quit"
    BY <2>1 DEF Running, TypeOK
  <2> QED BY <2>1, <2>2 DEF QuitOK
<1>5. CASE Cancel \/ ShutDown \/ UNCHANGED vars
  BY <1>5 DEF Cancel, ShutDown, vars, inner, workers, QuitOK, Running
<1> QED BY <1>1, <1>2, <1>3, <1>4, <1>5 DEF Next, WorkerStep

\* A handler whose workers have all ended leaves no item that was ready, with
\* any number of workers: only the order of Done and Get makes this true, since
\* an item may become ready again after another worker has seen an empty queue.
THEOREM Drained == Spec => []DrainedOnQuit
<1>1. Init => QuitOK
  BY DEF Init, QuitOK
<1>2. IInv /\ QuitOK => DrainedOnQuit
  <2> SUFFICES ASSUME IInv, QuitOK, \A w \in Workers : Stopped(w),
                      \E w \in Workers : pc[w] = "quit"
               PROVE  dirty = {}
    BY DEF DrainedOnQuit
  <2>1. \A w \in Workers : ~Running(w) /\ holder[w] = NoItem
    BY DEF Stopped, Running, IInv, QueueConsistent
  <2>2. processing = {} /\ queue = <<>>
    BY <2>1 DEF QuitOK, IInv, QueueConsistent
  <2>3. Range(queue) = {}
    BY <2>2 DEF Range
  <2> QED BY <2>2, <2>3 DEF IInv, QueueConsistent
<1> QED BY <1>1, <1>2, StepQuitOK, Bookkeeping, PTL DEF Spec

-----------------------------------------------------------------------------
(* The contract                                                            *)

\* The queue implements WorkContract: adding is a request, arming a timer is
\* one too, a timer that fires changes nothing that is owed, Get begins an
\* owed item that nobody holds, and shutting down drops the armed timers.
THEOREM KeepsContract == Spec => ImplementsContract
<1> DEFINE owed == IF shuttingDown THEN dirty ELSE dirty \cup delayed
<1>1. Init => Contract!Init
  BY DEF Init, Contract!Init
<1>2. IInv /\ [Next]_vars => [Contract!Next]_(Contract!vars)
  <2> SUFFICES ASSUME IInv, [Next]_vars PROVE [Contract!Next]_(Contract!vars)
    OBVIOUS
  <2> USE DEF IInv
  <2>1. ASSUME NEW i \in Items, Event(i) PROVE [Contract!Next]_(Contract!vars)
    <3>1. UNCHANGED <<delayed, holder, shuttingDown>> /\ Add(i)
      BY <2>1 DEF Event, workers
    <3>2. CASE Refuses(i) /\ UNCHANGED <<queue, dirty>>
      BY <3>1, <3>2 DEF Contract!vars
    <3>3. CASE ~Refuses(i) /\ dirty' = dirty \cup {i}
      <4>1. Contract!Request({i})
        BY <3>1, <3>3 DEF Contract!Request, Refuses
      <4> QED BY <4>1 DEF Contract!Next
    <3> QED BY <3>1, <3>2, <3>3 DEF Add
  <2>2. ASSUME NEW i \in Items, TimerFires(i) PROVE UNCHANGED Contract!vars
    <3>1. /\ i \in delayed /\ delayed' = delayed \ {i}
          /\ ~shuttingDown /\ UNCHANGED <<holder, shuttingDown>>
      BY <2>2 DEF TimerFires, workers
    <3>2. dirty' = dirty \cup {i}
      BY <2>2, <3>1 DEF TimerFires, Add, Refuses
    <3>3. dirty' \cup delayed' = dirty \cup delayed
      BY <3>1, <3>2
    <3>4. shuttingDown' = FALSE /\ shuttingDown = FALSE /\ holder' = holder
      BY <3>1
    <3> QED BY <3>3, <3>4 DEF Contract!vars
  <2>3. ASSUME NEW w \in Workers, StartWorker(w) \/ GetQuit(w)
        PROVE  UNCHANGED Contract!vars
    <3>1. UNCHANGED <<dirty, delayed, holder, shuttingDown>>
      BY <2>3 DEF StartWorker, GetQuit, inner
    <3> QED BY <3>1 DEF Contract!vars
  <2>4. ASSUME NEW w \in Workers, Get(w) PROVE [Contract!Next]_(Contract!vars)
    <3> DEFINE i == Head(queue)
    <3>1. i \in Range(queue)
      BY <2>4, TakeHead DEF Get, Claim, TypeOK, QueueConsistent
    <3>2. /\ dirty' = dirty \ {i}
          /\ holder' = [holder EXCEPT ![w] = i]
          /\ pc[w] = "getting"
          /\ UNCHANGED <<delayed, shuttingDown>>
      BY <2>4 DEF Get, Claim
    <3> HIDE DEF i
    <3>3. i \in Items /\ i \in dirty /\ i \notin processing /\ i # NoItem
      BY <3>1, NoItemAssumption DEF QueueConsistent, TypeOK
    <3>4. holder[w] = NoItem /\ \A v \in Workers : holder[v] # i
      BY <3>2, <3>3 DEF QueueConsistent
    <3>5. owed' \in {owed, owed \ {i}} /\ i \in owed
      BY <3>2, <3>3
    <3>6. Contract!Begin(w, i)
      BY <3>2, <3>4, <3>5 DEF Contract!Begin
    <3> QED BY <3>3, <3>6 DEF Contract!Next
  <2>5. ASSUME NEW w \in Workers, NEW r \in Results, ReconcileReturns(w, r)
        PROVE  UNCHANGED Contract!vars
    BY <2>5 DEF ReconcileReturns, inner, Contract!vars
  <2>6. ASSUME NEW w \in Workers, HandleErr(w) PROVE [Contract!Next]_(Contract!vars)
    <3>1. /\ UNCHANGED <<dirty, holder, shuttingDown>>
          /\ delayed' = delayed \/ AddAfter(holder[w])
          /\ holder[w] \in Items
      BY <2>6 DEF HandleErr, Retry, WaitRetry, QueueConsistent, TypeOK
    <3>2. CASE delayed' = delayed \/ shuttingDown
      BY <3>1, <3>2 DEF AddAfter, Contract!vars
    <3>3. CASE AddAfter(holder[w]) /\ ~shuttingDown
      <4>1. Contract!Request({holder[w]})
        BY <3>1, <3>3 DEF AddAfter, Contract!Request
      <4> QED BY <3>1, <4>1 DEF Contract!Next
    <3> QED BY <3>1, <3>2, <3>3
  <2>7. ASSUME NEW w \in Workers, Done(w) PROVE [Contract!Next]_(Contract!vars)
    <3>1. Contract!Finish(w)
      BY <2>7 DEF Done, Contract!Finish, QueueConsistent
    <3> QED BY <3>1 DEF Contract!Next
  <2>8. CASE Cancel
    BY <2>8 DEF Cancel, inner, workers, Contract!vars
  <2>9. CASE ShutDown
    <3>1. Contract!Close
      BY <2>9 DEF ShutDown, inner, workers, Contract!Close
    <3> QED BY <3>1 DEF Contract!Next
  <2>10. CASE UNCHANGED vars
    BY <2>10 DEF vars, inner, workers, Contract!vars
  <2> QED
    BY <2>1, <2>2, <2>3, <2>4, <2>5, <2>6, <2>7, <2>8, <2>9, <2>10 DEF Next, WorkerStep
<1> QED BY <1>1, <1>2, Bookkeeping, PTL DEF Spec, ImplementsContract, Contract!Spec
=============================================================================
