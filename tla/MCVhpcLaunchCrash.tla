------------------------- MODULE MCVhpcLaunchCrash -------------------------
(* One job, several launches, a daemon that dies. *)
EXTENDS VhpcLaunchCrash, TLC

Distinct == {<<j, j>> : j \in Jobs}
Never == {}
RunSymmetry == Permutations(Runs)
=============================================================================
