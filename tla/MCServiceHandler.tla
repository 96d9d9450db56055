--------------------------- MODULE MCServiceHandler ---------------------------
(***************************************************************************)
(* The instances of ServiceHandler that the configurations choose from.    *)
(***************************************************************************)
EXTENDS ServiceHandler, TLC

CONSTANTS u1, u2, n1, n2, n3

\* Two services with names of their own; that of u2 is generated.
NoEarlier == [u \in UIDs |-> {}]
OwnNames  == (u1 :> {n1}) @@ (u2 :> {n2, n3})

\* u2 re-creates u1: the same namespace and name, another UID.
Recreated     == (u1 :> {}) @@ (u2 :> {u1})
\* ... with a custom name of its own, with the default name again, or with
\* one prefix for both.
CustomNames   == (u1 :> {n1}) @@ (u2 :> {n2})
SameName      == [u \in UIDs |-> {n1}]
SamePrefix    == [u \in UIDs |-> {n1, n2}]

Symmetry == Permutations(Workers)
=============================================================================
