--------------------------- MODULE MCSelectLinear ---------------------------
(* A small cluster for SelectLinear: two nodes and two partitions,
   of which one is a part of the other. *)
EXTENDS SelectPlan, TLC

CONSTANTS j1, j2, j3, n1, n2, p, q

TwoParts == (j1 :> p) @@ (j2 :> p) @@ (j3 :> q)
Overlap == (p :> {n1, n2}) @@ (q :> {n2})
OneOrTwo == (p :> 1) @@ (q :> 2)
OneNode == (j1 :> 1) @@ (j2 :> 1) @@ (j3 :> 1)

\* j3 may share n2 with j1, but not while the exclusive j2 is suspended there.
JobMem == (j1 :> 2) @@ (j2 :> 1) @@ (j3 :> 3)
SmallMem == [j \in Jobs |-> [n \in Nodes |-> JobMem[j]]]
NodeMem == (n1 :> 5) @@ (n2 :> 5)

=============================================================================
