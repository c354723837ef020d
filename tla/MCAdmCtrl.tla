------------------------------ MODULE MCAdmCtrl ------------------------------
(* Small hosts and launch scripts for AdmCtrl: memory in GB, unequal hosts. *)
EXTENDS AdmCtrl, TLC

CONSTANTS s1, s2, s3, h1, h2

\* s1 and s2 launch the same job (two nodes).  It has room on h2 only, twice if
\* that is empty and not at all beside the job of s3 (one node), which fits h2
\* only as well: somebody may have to wait.  While initdb has not come to h2
\* yet, all are too large for what the table holds.
PairCpuAvail == (h1 :> 2) @@ (h2 :> 6)
PairMemAvail == (h1 :> 4) @@ (h2 :> 8)
PairJobOf == (s1 :> 1) @@ (s2 :> 1) @@ (s3 :> 3)
PairCpu == (s1 :> 2) @@ (s2 :> 2) @@ (s3 :> 1)
PairMem == (s1 :> 2) @@ (s2 :> 2) @@ (s3 :> 6)
PairNodes == (s1 :> 2) @@ (s2 :> 2) @@ (s3 :> 1)

=============================================================================
