------------------------------ MODULE CubeTest ------------------------------
(***************************************************************************)
(* _job_test_hypercube of select/linear.  The switches of a hypercube are  *)
(* laid out along several curves; _explore_hypercube looks for the best    *)
(* cluster of neighbours on any of them, and the job gets nodes from one   *)
(* switch to the next from there.                                          *)
(*                                                                         *)
(* Which cluster is the best is a matter of distances, and a free choice   *)
(* here among all that _explore_hypercube might test.                      *)
(***************************************************************************)
EXTENDS TopoTest

VARIABLE
    walk   \* min_curve, min_start_index, min_direction; switch_index and
           \* node_counter

cubeVars == <<topoVars, walk>>

Curve(c) == request.curves[c]

\* avail_bitmap, and avail_cnt of switch i.
Free == request.avail \ request.required
FreeOn(i) == Under(i) \cap Free

\* The required nodes whose CPUs are counted: those of switches that have free
\* nodes left.
Noticed == {n \in request.required : \E i \in Switches : n \in Under(i) /\ FreeOn(i) # {}}

\* "Give up now if there aren't enough hosts": as many as are wished for.  All
\* that are usable are left in bitmap, which will do if no CPUs are asked for.
CubeGiveUp ==
    /\ pc = "begin" /\ request.network = "hypercube" /\ Usable
    /\ Cardinality(request.avail) < request.reqNodes
    /\ bitmap' = request.avail
    /\ rc' = IF request.minCpus = 0 THEN "success" ELSE "EINVAL"
    /\ pc' = "done"
    /\ UNCHANGED <<request, table, left, remNodes, remCpus, maxNodes, leafVars, walk>>

CubeRequired ==
    /\ pc = "begin" /\ request.network = "hypercube" /\ Usable
    /\ Cardinality(request.avail) >= request.reqNodes
    /\ bitmap' = request.required
    /\ remNodes' = request.reqNodes - Cardinality(request.required)
    /\ remCpus' = request.minCpus - CpusOf(Noticed)
    /\ maxNodes' = request.maxNodes - Cardinality(request.required)
    /\ pc' = IF maxNodes' > 0 /\ (remNodes' > 0 \/ remCpus' > 0) THEN "explore" ELSE "walked"
    /\ UNCHANGED <<request, table, left, rc, leafVars, walk>>

-----------------------------------------------------------------------------
(* _explore_hypercube *)

\* k steps in direction d from the s-th switch of curve c, which is closed to a
\* ring.
At(c, s, d, k) ==
    LET i == IF d = 1 THEN s + k ELSE s - k
        last == Len(Curve(c))
    IN  IF i > last THEN i - last ELSE IF i < 1 THEN i + last ELSE i

FreeAt(c, i) == FreeOn(Curve(c)[i])

\* The first t nodes of S.
FirstOf(S, t) == {n \in S : Cardinality({k \in S : k < n}) < t}

\* The free nodes of k switches in a row, and the first t of the next one.
Cluster(c, s, d, k, t) ==
    (UNION {FreeAt(c, At(c, s, d, j)) : j \in 0 .. k - 1})
        \cup FirstOf(FreeAt(c, At(c, s, d, k)), t)

\* One of these has the nodes and CPUs, and no more nodes than the job may have.
FitsFrom(c, s, d) ==
    \E k \in 0 .. Len(Curve(c)) - 1 : \E t \in 0 .. Cardinality(FreeAt(c, At(c, s, d, k))) :
        LET S == Cluster(c, s, d, k, t)
        IN  /\ remNodes <= Cardinality(S) /\ Cardinality(S) <= maxNodes
            /\ CpusOf(S) >= remCpus

\* Where the search begins on curve c.
First(c) == Min({s \in DOMAIN Curve(c) : FreeAt(c, s) # {}})

\* The loop of line 1320 goes on for ever (or, when no node is free at all,
\* beyond the table): all nodes are in the cluster and the CPUs do not do.
Endless == pc = "explore" /\ CpusOf(Free) < remCpus /\ Cardinality(Free) <= maxNodes

\* A cluster that fits, starting to the right from any switch or to the left.
Explore ==
    /\ pc = "explore" /\ ~Endless
    /\ \E c \in DOMAIN request.curves, d \in {1, -1} : \E s \in DOMAIN Curve(c) :
          /\ FreeAt(c, s) # {} /\ FitsFrom(c, s, d)
          /\ walk' = [curve |-> c, start |-> s, dir |-> d, at |-> s, taken |-> 0]
    /\ pc' = "walk"
    /\ UNCHANGED <<request, bitmap, table, left, remNodes, remCpus, maxNodes, rc, leafVars>>

\* None is found: the first ones at least have been tested.
ExploreInVain ==
    /\ pc = "explore" /\ ~Endless
    /\ \A c \in DOMAIN request.curves : ~FitsFrom(c, First(c), 1)
    /\ pc' = "walked"
    /\ UNCHANGED <<request, bitmap, table, left, remNodes, remCpus, maxNodes, rc, leafVars, walk>>

-----------------------------------------------------------------------------
(* From switch to switch *)

Here == FreeAt(walk.curve, walk.at)
Walking == pc = "walk" /\ maxNodes > 0 /\ Wanting
UsedUp == walk.taken = Cardinality(Here)

TakeNext ==
    /\ Walking /\ ~UsedUp
    /\ \E n \in Here :
          /\ Cardinality({k \in Here : k < n}) = walk.taken
          /\ bitmap' = bitmap \cup {n}
          /\ remCpus' = remCpus - request.cpus[n]
    /\ remNodes' = remNodes - 1 /\ maxNodes' = maxNodes - 1
    /\ walk' = [walk EXCEPT !.taken = @ + 1]
    /\ UNCHANGED <<request, pc, table, left, rc, leafVars>>

\* The next switch.  Whether this is the first again is not asked at either end
\* of the curve.
MoveOn ==
    /\ Walking /\ UsedUp
    /\ LET last == Len(Curve(walk.curve))
           next == walk.at + walk.dir
       IN  /\ next \in 1 .. last => next # walk.start
           /\ walk' = [walk EXCEPT !.taken = 0,
                                   !.at = IF next > last THEN 1 ELSE IF next < 1 THEN last ELSE next]
    /\ UNCHANGED <<request, pc, bitmap, table, left, remNodes, remCpus, maxNodes, rc, leafVars>>

EndWalk ==
    /\ pc = "walk"
    /\ ~Walking \/ (UsedUp /\ walk.at + walk.dir = walk.start)
    /\ pc' = "walked"
    /\ UNCHANGED <<request, bitmap, table, left, remNodes, remCpus, maxNodes, rc, leafVars, walk>>

CubeFinish ==
    /\ pc = "walked"
    /\ rc' = IF remCpus <= 0 /\ Cardinality(bitmap) >= request.minNodes THEN "success" ELSE "EINVAL"
    /\ pc' = "done"
    /\ UNCHANGED <<request, bitmap, table, left, remNodes, remCpus, maxNodes, leafVars, walk>>

-----------------------------------------------------------------------------
CubeInit ==
    /\ TopoInit
    /\ walk = [curve |-> 1, start |-> 1, dir |-> 1, at |-> 1, taken |-> 0]

CubeNext ==
    \/ TopoNext /\ UNCHANGED walk
    \/ CubeGiveUp \/ CubeRequired
    \/ Explore \/ ExploreInVain
    \/ TakeNext \/ MoveOn \/ EndWalk \/ CubeFinish

CubeSpec == CubeInit /\ [][CubeNext]_cubeVars /\ WF_cubeVars(CubeNext)

-----------------------------------------------------------------------------
(* Properties *)

CubeTypeOK ==
    /\ TopoTypeOK
    /\ walk \in [curve : Nat, start : Nat, dir : {1, -1}, at : Nat, taken : 0 .. N]

\* Every call ends, but for those that two loops keep for ever, see Endless and
\* Stuck: each round of the others takes a node, spends a set of the table or a
\* leaf, or goes on to a switch that was not visited yet.
Answers == <>(pc = "done" \/ Endless \/ Stuck)

=============================================================================
