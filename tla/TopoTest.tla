------------------------------ MODULE TopoTest ------------------------------
(***************************************************************************)
(* _job_test of select/linear on a cluster whose nodes hang on switches:   *)
(* _job_test_topo for a tree, _job_test_dfly for a dragonfly.  The lowest  *)
(* switch that can hold the job is chosen, and nodes are taken from the    *)
(* leaf switches below it: on a tree leaf by leaf, on a dragonfly one node *)
(* of each leaf in turn.  Either goes on until it has taken one node more  *)
(* than the job may have.                                                  *)
(***************************************************************************)
EXTENDS JobTest

VARIABLES
    leaves,      \* of each switch: switches_bitmap, _node_cnt, _cpu_cnt and
                 \* switches_required or switches_node_use
    leafCount,   \* leaf_switch_count
    bestSwitch   \* job_ptr->best_switch

leafVars == <<leaves, leafCount, bestSwitch>>
topoVars == <<jobTestVars, leafVars>>

Switches == DOMAIN request.switches
Level(i) == request.switches[i].level
Leafy == request.network \in {"tree", "dragonfly"}
Tree == request.network = "tree"

\* The usable nodes under switch i.
Under(i) == request.switches[i].nodes \cap request.avail

\* Phases 1 to 3: the switch has the required nodes, the CPUs and the nodes.
Holds(i) ==
    /\ request.required \subseteq Under(i)
    /\ CpusOf(Under(i)) >= request.minCpus
    /\ Cardinality(Under(i)) >= request.minNodes

\* Switch i is to be preferred to switch j.
Lower(i, j) ==
    \/ Level(i) < Level(j)
    \/ Level(i) = Level(j) /\ Cardinality(Under(i)) < Cardinality(Under(j))

\* (mutant: the first switch that can hold the job)
BadBestSwitch == CHOOSE i \in Switches : Holds(i) /\ \A j \in Switches : Holds(j) => i <= j

BestSwitch ==
    CHOOSE i \in Switches :
        /\ Holds(i)
        /\ \A j \in Switches : Holds(j) => ~Lower(j, i) /\ (i <= j \/ Lower(i, j))

Usable == Cardinality(request.avail) >= request.minNodes /\ request.required \subseteq request.avail

TopoRefuse ==
    /\ pc = "begin" /\ Leafy /\ Usable
    /\ \A i \in Switches : ~Holds(i)
    /\ rc' = "EINVAL" /\ pc' = "done"
    /\ UNCHANGED <<request, bitmap, table, left, remNodes, remCpus, maxNodes, leafVars>>

\* Phase 4, first half: the leaves below the best switch, of which the
\* required nodes are taken.
TakeRequired ==
    /\ pc = "begin" /\ Leafy /\ Usable
    /\ \E i \in Switches : Holds(i)
    /\ LET below(i) == Level(i) = 0 /\ Under(i) \subseteq Under(BestSwitch)
           wanted(i) == IF below(i) THEN Under(i) \cap request.required ELSE {}
           earlier(i) == UNION {wanted(j) : j \in 1 .. i - 1}
           rest(i) == Under(i) \ wanted(i)
       IN  /\ leaves' = [i \in Switches |->
                 [nodes |-> rest(i),
                  count |-> IF below(i) THEN Cardinality(rest(i)) ELSE 0,
                  cpus  |-> CpusOf(rest(i)),
                  used  |-> Cardinality(wanted(i) \ earlier(i))]]
           /\ bitmap' = UNION {wanted(i) : i \in Switches}
    /\ remNodes' = request.reqNodes - Cardinality(bitmap')
    /\ remCpus' = request.minCpus - CpusOf(bitmap')
    /\ maxNodes' = request.maxNodes + 1 - Cardinality(bitmap')
    /\ pc' = IF Tree THEN "required" ELSE "leaves"
    /\ UNCHANGED <<request, table, left, rc, leafCount, bestSwitch>>

-----------------------------------------------------------------------------
(* Leaf by leaf *)

More == maxNodes > 0 /\ Wanting

\* The nodes that are taken from leaf b: on a tree as many as are wanted.
FromLeaf(b) ==
    LET free == leaves[b].nodes \ bitmap
    IN  IF Tree THEN Some(free, 1) ELSE {n \in free : \A k \in free : n <= k}

\* Leaf b of a tree is done with; one of a dragonfly has lost a node.
Take(b) ==
    LET S == FromLeaf(b)
    IN  /\ bitmap' = bitmap \cup S
        /\ remNodes' = remNodes - Cardinality(S)
        /\ remCpus' = remCpus - CpusOf(S)
        /\ maxNodes' = maxNodes - Cardinality(S)
        /\ leaves' = IF Tree THEN [leaves EXCEPT ![b].count = 0]
                     ELSE [leaves EXCEPT ![b].nodes = @ \ S, ![b].count = @ - Cardinality(S),
                                         ![b].cpus = @ - CpusOf(S), ![b].used = @ + Cardinality(S)]

\* Phase 4, second half: the rest of the leaves with required nodes.
WithRequired == {i \in Switches : leaves[i].used > 0 /\ leaves[i].count > 0}

AddRequiredLeaf ==
    /\ pc = "required" /\ More /\ WithRequired # {}
    /\ Take(Min(WithRequired))
    /\ UNCHANGED <<request, pc, table, left, rc, leafCount, bestSwitch>>

EndRequired ==
    /\ pc = "required" /\ ~(More /\ WithRequired # {})
    /\ pc' = "leaves"
    /\ UNCHANGED <<request, bitmap, table, left, remNodes, remCpus, maxNodes, rc, leafVars>>

\* Phase 5: the leaf with the fewest idle CPUs, on a dragonfly of those from
\* which the fewest nodes have been taken.  (No leaf of a tree that has
\* required nodes is left.)
Next5 ==
    LET open == {i \in Switches : leaves[i].count > 0}
        better(i, j) ==
            \/ ~Tree /\ leaves[i].used < leaves[j].used
            \/ (Tree \/ leaves[i].used = leaves[j].used) /\ leaves[i].cpus < leaves[j].cpus
    IN  {i \in open : \A j \in open : ~better(j, i) /\ (i <= j \/ better(i, j))}

\* A dragonfly takes no more than one leaf for a limit.
SwitchLimit == IF ~Tree /\ request.reqSwitch > 1 THEN 0 ELSE request.reqSwitch

\* (mutant: one leaf too many will do)
BadWithinLimit(count) == request.waited \/ count <= SwitchLimit + 1

WithinLimit(count) == request.waited \/ count <= SwitchLimit

\* The loop of lines 1843-1920 goes on for ever: the next leaf of a dragonfly
\* has only nodes that were taken from other leaves they hang on as well, loses
\* none of them (lines 1883-1887), and so stays the next.
Stuck ==
    /\ pc = "leaves" /\ ~Tree /\ More
    /\ \E b \in Next5 : leaves[b].nodes \subseteq bitmap

AddLeaf ==
    /\ pc = "leaves" /\ More /\ ~Stuck
    /\ \E b \in Next5 : Take(b)
    /\ leafCount' = leafCount + 1
    /\ bestSwitch' = IF SwitchLimit > 0 THEN WithinLimit(leafCount') ELSE bestSwitch
    /\ UNCHANGED <<request, pc, table, left, rc>>

TopoFinish ==
    /\ pc = "leaves" /\ ~(More /\ Next5 # {})
    /\ rc' = IF maxNodes > 0 /\ remCpus <= 0 /\ Enough(0, remNodes) THEN "success" ELSE "EINVAL"
    /\ pc' = "done"
    /\ UNCHANGED <<request, bitmap, table, left, remNodes, remCpus, maxNodes, leafVars>>

-----------------------------------------------------------------------------
\* best_switch may be left over from an earlier call.
TopoInit ==
    /\ Init
    /\ leaves = <<>> /\ leafCount = 0
    /\ bestSwitch \in BOOLEAN /\ (request.reqSwitch = 0 => bestSwitch)

TopoNext ==
    \/ Next /\ UNCHANGED leafVars
    \/ TopoRefuse \/ TakeRequired
    \/ AddRequiredLeaf \/ EndRequired
    \/ AddLeaf \/ TopoFinish

TopoSpec == TopoInit /\ [][TopoNext]_topoVars /\ WF_topoVars(TopoNext)

-----------------------------------------------------------------------------
(* Properties *)

TopoTypeOK ==
    /\ TypeOK
    /\ \A i \in DOMAIN leaves :
          leaves[i] \in [nodes : SUBSET Nodes, count : Nat, cpus : Nat, used : Nat]
    /\ leafCount \in Nat
    /\ bestSwitch \in BOOLEAN

\* A job gets its nodes under one of the lowest switches under which it would
\* fit, and of these under a smallest ("lowest level switch satisfying request
\* with best fit", lines 1732 and 2057), whichever leaves they are taken from.
LowestSwitch ==
    Success /\ Leafy =>
        \E i \in Switches :
            /\ bitmap \subseteq Under(i)
            /\ \A j \in Switches : (\E S \in SUBSET Under(j) : WouldDo(S)) => ~Lower(j, i)

\* A job that wants its nodes on few leaf switches is not started on more
\* unless it has waited long enough (select_p_job_test fails if best_switch is
\* false, lines 3727-3728 and 3737-3738).  Left out are jobs with required nodes:
\* the leaves these are on are not counted.
FewSwitches ==
    Success /\ bestSwitch /\ SwitchLimit > 0 /\ ~request.waited /\ Leafy
    /\ request.required = {} =>
        \E L \in SUBSET {i \in Switches : Level(i) = 0} :
            /\ Cardinality(L) <= SwitchLimit
            /\ bitmap \subseteq UNION {Under(i) : i \in L}

=============================================================================
