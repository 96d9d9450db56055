---------------------------- MODULE WorkContract ----------------------------
(***************************************************************************)
(* What a reconciler may rely on from the queue that calls it, and all it  *)
(* may rely on:                                                            *)
(*   - an item that was requested stays owed until a worker begins it;     *)
(*   - a worker begins only owed items, and never one that another worker  *)
(*     still holds;                                                        *)
(*   - a worker may ask for its own item again, before or as it lets go;   *)
(*   - when the queue is closed, owed items may be dropped, and no later   *)
(*     request is taken.                                                   *)
(* WorkQueue implements this contract with a FIFO, a dirty set, a          *)
(* processing set and timers; ServiceHandler is written on top of it.      *)
(***************************************************************************)
CONSTANTS Items, Workers, NoItem

VARIABLES
  owed,    \* the items a Reconcile call is still owed for
  holder,  \* holder[w]: the item worker w is reconciling, or NoItem
  open     \* FALSE once the queue has been shut down

vars == <<owed, holder, open>>

TypeOK ==
  /\ owed \subseteq Items
  /\ holder \in [Workers -> Items \cup {NoItem}]
  /\ open \in BOOLEAN

Init ==
  /\ owed = {}
  /\ holder = [w \in Workers |-> NoItem]
  /\ open = TRUE

\* A single event asks for one item, a list of the informer for many.
Request(asked) ==
  /\ open
  /\ owed' = owed \cup asked
  /\ UNCHANGED <<holder, open>>

\* The item may stay owed: a timer armed by an earlier failure of it can
\* still be running when an event makes it begin.
Begin(w, i) ==
  /\ holder[w] = NoItem
  /\ i \in owed
  /\ \A v \in Workers : holder[v] # i
  /\ holder' = [holder EXCEPT ![w] = i]
  /\ owed' \in {owed, owed \ {i}}
  /\ UNCHANGED open

Finish(w) ==
  /\ holder[w] # NoItem
  /\ holder' = [holder EXCEPT ![w] = NoItem]
  /\ owed' = owed \/ (open /\ owed' = owed \cup {holder[w]})
  /\ UNCHANGED open

Close ==
  /\ open
  /\ open' = FALSE
  /\ owed' \subseteq owed
  /\ UNCHANGED holder

\* The process dies and starts again with an empty queue.
Reset ==
  /\ owed' = {}
  /\ holder' = [w \in Workers |-> NoItem]
  /\ open' = TRUE

Next ==
  \/ \E asked \in SUBSET Items : Request(asked)
  \/ \E w \in Workers, i \in Items : Begin(w, i)
  \/ \E w \in Workers : Finish(w)
  \/ Close
  \/ Reset

Spec == Init /\ [][Next]_vars
=============================================================================
