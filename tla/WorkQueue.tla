------------------------------ MODULE WorkQueue ------------------------------
(***************************************************************************)
(* pkg/queue/queue.go: the work queue that stands between the service      *)
(* informer of one host cluster and its five reconcile workers.  The       *)
(* client-go rate limiting queue it is built on is external; it is         *)
(* modelled from how Handler uses it: a FIFO, the dirty and the processing *)
(* set, one timer per item, and a failure counter per item.                *)
(***************************************************************************)
EXTENDS Sequences, Naturals, Functions

CONSTANTS
  Items,        \* the values of queue.Item that the informer can produce
  Workers,      \* the goroutines started by Handler.Start
  NoItem,
  MaxFailures   \* the failure counter saturates here, as the backoff does

ASSUME NoItemAssumption == NoItem \notin Items
ASSUME MaxFailuresAssumption == MaxFailures \in Nat \ {0}

VARIABLES
  queue,        \* the FIFO of items ready to be reconciled
  dirty,        \* the items that need a Reconcile call
  processing,   \* the items between Get and Done
  delayed,      \* the items with an armed timer (AddAfter)
  failures,     \* failures[i]: the rate limiter's counter of i
  pc, holder, result,   \* each worker: its place, its item, Reconcile's answer
  cancelled,    \* clusterCtx is done
  shuttingDown, \* queue.ShutDown was called
  unseen,       \* history: items with an event since their last Get
  last          \* history: last[i], what the last Reconcile of i answered

inner   == <<queue, dirty, processing, delayed, failures>>
workers == <<pc, holder, result>>
history == <<unseen, last>>
vars    == <<inner, workers, cancelled, shuttingDown, history>>

Results == {"ok", "wait", "error"}
Places  == {"starting", "getting", "reconciling", "handling", "finishing",
            "quit", "skipped"}

TypeOK ==
  /\ queue \in Seq(Items)
  /\ dirty \subseteq Items
  /\ processing \subseteq Items
  /\ delayed \subseteq Items
  /\ failures \in [Items -> 0 .. MaxFailures]
  /\ pc \in [Workers -> Places]
  /\ holder \in [Workers -> Items \cup {NoItem}]
  /\ result \in [Workers -> Results]
  /\ cancelled \in BOOLEAN
  /\ shuttingDown \in BOOLEAN
  /\ unseen \subseteq Items
  /\ last \in [Items -> Results]

Init ==
  /\ queue = <<>>
  /\ dirty = {} /\ processing = {} /\ delayed = {}
  /\ failures = [i \in Items |-> 0]
  /\ pc = [w \in Workers |-> "starting"]
  /\ holder = [w \in Workers |-> NoItem]
  /\ result = [w \in Workers |-> "ok"]
  /\ cancelled = FALSE /\ shuttingDown = FALSE
  /\ unseen = {}
  /\ last = [i \in Items |-> "ok"]

-----------------------------------------------------------------------------
(* The client-go work queue                                                *)

Refuses(i) == shuttingDown \/ i \in dirty

Push(i) == queue' = IF i \in processing THEN queue ELSE Append(queue, i)

\* workqueue Add: a no-op once shutting down or while the item is dirty; an
\* item that is being processed is only marked, Done will push it.
Add(i) ==
  \/ Refuses(i) /\ UNCHANGED <<queue, dirty>>
  \/ ~Refuses(i) /\ dirty' = dirty \cup {i} /\ Push(i)

\* AddAfter with a positive delay: one timer per item, dropped at shutdown.
AddAfter(i) == delayed' = IF shuttingDown THEN delayed ELSE delayed \cup {i}

Forget(i) == failures' = [failures EXCEPT ![i] = 0]

\* The delay that the counter selects grows to a ceiling.
CountFailure(i) ==
  failures' = [failures EXCEPT ![i] = IF @ < MaxFailures THEN @ + 1 ELSE @]

\* A timer of the delaying queue fires; its goroutine stops at shutdown.
TimerFires(i) ==
  /\ i \in delayed /\ ~shuttingDown
  /\ delayed' = delayed \ {i}
  /\ Add(i)
  /\ UNCHANGED <<processing, failures, workers, cancelled, shuttingDown, history>>

-----------------------------------------------------------------------------
(* queue.Handler                                                           *)

\* Mutant of Event: an event for an item in process is left out.
EventIfIdle(i) ==
  /\ IF i \in processing THEN UNCHANGED <<queue, dirty>> ELSE Add(i)
  /\ unseen' = unseen \cup {i}
  /\ UNCHANGED <<processing, delayed, failures, workers, cancelled, shuttingDown, last>>

\* OnAdd, OnUpdate and OnDelete enqueue the item whatever happened to it.
Event(i) ==
  /\ Add(i)
  /\ unseen' = unseen \cup {i}
  /\ UNCHANGED <<processing, delayed, failures, workers, cancelled, shuttingDown, last>>

\* wait.UntilWithContext looks at the context before it runs the worker.
StartWorker(w) ==
  /\ pc[w] = "starting"
  /\ pc' = [pc EXCEPT ![w] = IF cancelled THEN "skipped" ELSE "getting"]
  /\ UNCHANGED <<inner, holder, result, cancelled, shuttingDown, history>>

\* Mutant of Claim: Done is called right after Get.
ClaimNothing(i) == UNCHANGED processing

\* Done is deferred: the item is the worker's until Reconcile has been handled.
Claim(i) == processing' = processing \cup {i}

Get(w) ==
  /\ pc[w] = "getting" /\ queue # <<>>
  /\ LET i == Head(queue) IN
       /\ queue' = Tail(queue)
       /\ Claim(i)
       /\ dirty' = dirty \ {i}
       /\ holder' = [holder EXCEPT ![w] = i]
       /\ unseen' = unseen \ {i}
  /\ pc' = [pc EXCEPT ![w] = "reconciling"]
  /\ UNCHANGED <<delayed, failures, result, cancelled, shuttingDown, last>>

\* Mutant of MayQuit: the workers leave when the context is done.
MayQuitCancelled == cancelled

\* The worker has no other way out than Get's answer, and Get says quit only
\* when nothing is left.
MayQuit == shuttingDown /\ queue = <<>>

GetQuit(w) ==
  /\ pc[w] = "getting" /\ MayQuit
  /\ pc' = [pc EXCEPT ![w] = "quit"]
  /\ UNCHANGED <<inner, holder, result, cancelled, shuttingDown, history>>

ReconcileReturns(w, r) ==
  /\ pc[w] = "reconciling"
  /\ pc' = [pc EXCEPT ![w] = "handling"]
  /\ result' = [result EXCEPT ![w] = r]
  /\ last' = [last EXCEPT ![holder[w]] = r]
  /\ UNCHANGED <<inner, holder, cancelled, shuttingDown, unseen>>

\* Mutant of WaitRetry: no timer is armed.
WaitDropped(i) == Forget(i) /\ UNCHANGED delayed

\* Mutant of WaitRetry: the wait is retried, the backoff stays.
WaitKeepsBackoff(i) == AddAfter(i) /\ UNCHANGED failures

WaitRetry(i) == Forget(i) /\ AddAfter(i)

\* handleErr: a wait error is retried after a fixed delay and clears the
\* backoff, any other error is retried after the backoff.
Retry(i, r) ==
  \/ r = "ok" /\ Forget(i) /\ UNCHANGED delayed
  \/ r = "wait" /\ WaitRetry(i)
  \/ r = "error" /\ CountFailure(i) /\ AddAfter(i)

HandleErr(w) ==
  /\ pc[w] = "handling"
  /\ Retry(holder[w], result[w])
  /\ pc' = [pc EXCEPT ![w] = "finishing"]
  /\ UNCHANGED <<queue, dirty, processing, holder, result, cancelled, shuttingDown, history>>

Repush(i) == queue' = IF i \in dirty THEN Append(queue, i) ELSE queue

\* Mutant of Done: the worker goes on without queue.Done.
DoneForgotten(w) ==
  /\ pc[w] = "finishing"
  /\ holder' = [holder EXCEPT ![w] = NoItem]
  /\ pc' = [pc EXCEPT ![w] = "getting"]
  /\ UNCHANGED <<inner, result, cancelled, shuttingDown, history>>

\* The deferred Done: an item that became dirty meanwhile is pushed again.
Done(w) ==
  /\ pc[w] = "finishing"
  /\ processing' = processing \ {holder[w]}
  /\ Repush(holder[w])
  /\ holder' = [holder EXCEPT ![w] = NoItem]
  /\ pc' = [pc EXCEPT ![w] = "getting"]
  /\ UNCHANGED <<dirty, delayed, failures, result, cancelled, shuttingDown, history>>

\* The cluster reconciler cancels the peer of a host cluster that is gone.
Cancel ==
  /\ ~cancelled
  /\ cancelled' = TRUE
  /\ UNCHANGED <<inner, workers, shuttingDown, history>>

\* Mutant of ShutDown: Start returns without it.
NoShutDown == FALSE /\ UNCHANGED vars

\* Start's deferred ShutDown, once the context is done.
ShutDown ==
  /\ cancelled /\ ~shuttingDown
  /\ shuttingDown' = TRUE
  /\ UNCHANGED <<inner, workers, cancelled, history>>

WorkerStep(w) ==
  \/ StartWorker(w) \/ Get(w) \/ GetQuit(w)
  \/ \E r \in Results : ReconcileReturns(w, r)
  \/ HandleErr(w) \/ Done(w)

Next ==
  \/ \E i \in Items : Event(i) \/ TimerFires(i)
  \/ \E w \in Workers : WorkerStep(w)
  \/ Cancel \/ ShutDown

Spec == Init /\ [][Next]_vars

\* Goroutines are scheduled, Reconcile calls return, timers fire and Start
\* reaches its deferred call.  Nothing is assumed of events or of Cancel.
Fairness ==
  /\ \A w \in Workers : WF_vars(WorkerStep(w))
  /\ \A i \in Items : WF_vars(TimerFires(i))
  /\ WF_vars(ShutDown)

FairSpec == Spec /\ Fairness

-----------------------------------------------------------------------------
(* Properties                                                              *)

\* The FIFO holds exactly the dirty items that nobody processes, once each,
\* and an item is processed exactly while one worker holds it: the
\* bookkeeping in Add, Get and Done on which everything below rests.
QueueConsistent ==
  /\ IsInjective(queue)
  /\ Range(queue) = dirty \ processing
  /\ processing = {holder[w] : w \in Workers} \ {NoItem}
  /\ \A w \in Workers : holder[w] # NoItem
                        <=> pc[w] \in {"reconciling", "handling", "finishing"}

\* Two workers never reconcile the same item at the same time, although an
\* event for an item may arrive while a worker reconciles it.
ItemExclusive ==
  \A v, w \in Workers : holder[v] = holder[w] /\ holder[v] # NoItem => v = w

\* An event is never lost: until a Get that follows it, its item is dirty,
\* even when it arrived while an older Reconcile of that item was running.
NoLostEvent == ~shuttingDown => unseen \subseteq dirty

\* A Reconcile that answered an error, or asked to wait, has another call
\* coming: its item is dirty, on a timer, or still with the worker.
FailedIsRetried ==
  \A i \in Items :
    last[i] # "ok" /\ i \notin processing /\ ~shuttingDown
      => i \in dirty \cup delayed

\* Once its worker has let an item go, its backoff tells of the last answer and
\* of no older one: a success or a wait has cleared what earlier errors built
\* up, an error has left some.  The answer is counted in a later step, and only
\* because the item is still its worker's does no newer answer come in between.
BackoffForErrors ==
  \A i \in Items \ processing : failures[i] > 0 <=> last[i] = "error"

\* When every worker has gone and at least one of them ran, no item that was
\* ready is left behind: a worker quits only a queue it has seen empty.
Stopped(w) == pc[w] \in {"quit", "skipped"}
DrainedOnQuit ==
  (\A w \in Workers : Stopped(w)) /\ (\E w \in Workers : pc[w] = "quit") => dirty = {}

\* An event is followed by a Reconcile call for its item, and so is a retry that
\* was asked for, or the handler of this host cluster is stopped.
Reconciling(i) == \E w \in Workers : pc[w] = "reconciling" /\ holder[w] = i
WorkServed ==
  \A i \in Items :
    /\ i \in unseen ~> (i \notin unseen \/ cancelled)
    /\ i \in delayed ~> (Reconciling(i) \/ cancelled)

\* Cancelling the handler ends all its workers: no retry keeps one alive.
StopsWhenCancelled == cancelled ~> \A w \in Workers : Stopped(w)

\* The queue keeps the contract that ServiceHandler relies on.
Contract == INSTANCE WorkContract WITH
  owed   <- IF shuttingDown THEN dirty ELSE dirty \cup delayed,
  holder <- holder,
  open   <- ~shuttingDown
ImplementsContract == Contract!Spec
=============================================================================
