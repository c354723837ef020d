----------------------------- MODULE MCTeardown -----------------------------
(* The names of jobs for Teardown: of their own, or all the same; their nodes. *)
EXTENDS Teardown, TLC

CONSTANTS j1, j2, a, b

OwnLabel == (j1 :> a) @@ (j2 :> b)
OneLabel == j1 :> a
SameLabel == (j1 :> a) @@ (j2 :> a)

TwoAndOne == (j1 :> 2) @@ (j2 :> 1)
OneEach == (j1 :> 1) @@ (j2 :> 1)
One == j1 :> 1

=============================================================================
