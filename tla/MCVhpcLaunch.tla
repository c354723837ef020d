---------------------------- MODULE MCVhpcLaunch ----------------------------
(***************************************************************************)
(* Values for the constants of VhpcLaunch: which job ids and names occur   *)
(* in which, and the symmetries of a model.                                *)
(***************************************************************************)
EXTENDS VhpcLaunchInv, TLC

CONSTANTS j1, j2

\* No id and no name occurs in another.
Distinct == {<<j, j>> : j \in Jobs}
Never == {}

\* Ids 1 and 12, submitted at different times.
OneInTwelve == Distinct \cup {<<j1, j2>>}

\* The id of j1 occurs in the submission time that ends the name of j2.
InTheTime == {<<j1, j2>>}

RunSymmetry == Permutations(Runs)
Symmetry == Permutations(Jobs) \cup Permutations(Runs)
=============================================================================
