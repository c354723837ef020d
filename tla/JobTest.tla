------------------------------- MODULE JobTest -------------------------------
(***************************************************************************)
(* _job_test of select/linear: which of the usable nodes a job gets.  The  *)
(* nodes it requires are taken first; then sets of consecutive nodes, the  *)
(* best fit first, until there are nodes and CPUs enough.  On a cluster of *)
(* unlike nodes that is short of CPUs the largest nodes are taken instead. *)
(*                                                                         *)
(* One iteration of either loop is one action.  Nodes that hang on         *)
(* switches go elsewhere, see TopoTest and CubeTest.                       *)
(***************************************************************************)
EXTENDS Integers, FiniteSets, Sequences, FiniteSetsExt, Totals

CONSTANTS
    N,         \* select_node_cnt; nodes are numbered from 1
    Requests   \* the calls, see RequestType

NoNode == 0
Nodes == 1 .. N

RequestType == [
    avail      : SUBSET Nodes,        \* bitmap
    cpus       : [Nodes -> Nat],      \* _get_avail_cpus
    required   : SUBSET Nodes,        \* req_node_bitmap
    minNodes   : Nat, reqNodes : Nat, maxNodes : Nat,
    minCpus    : Nat,
    contiguous : BOOLEAN,
    network    : {"row", "tree", "dragonfly", "hypercube"},
    switches   : Seq([level : Nat, nodes : SUBSET Nodes]),  \* switch_record_table
    curves     : Seq(Seq(Nat)),       \* hypercube_switches
    reqSwitch  : Nat,                 \* 0: any number of switches will do
    waited     : BOOLEAN]             \* time_waiting >= wait4switch

\* The curves over the switches of a hypercube.  The nodes of a switch are
\* numbered in a row: avail_cnt counts from node_index[0] on (lines 1516-1522).
Laid(r) ==
    /\ r.curves # <<>>
    /\ \A c \in DOMAIN r.curves :
          /\ \A i \in DOMAIN r.curves[c] : r.curves[c][i] \in DOMAIN r.switches
          /\ \A i, j \in DOMAIN r.curves[c] : r.curves[c][i] = r.curves[c][j] => i = j
          /\ \A n \in Nodes : \E i \in DOMAIN r.curves[c] : n \in r.switches[r.curves[c][i]].nodes
    /\ \A i, j \in DOMAIN r.switches : r.switches[i].nodes \cap r.switches[j].nodes # {} => i = j
    /\ \A i \in DOMAIN r.switches : \A m, n \in r.switches[i].nodes : m .. n \subseteq r.switches[i].nodes

\* slurmctld (not in this repository) counts the required nodes in min_nodes,
\* and asks for no more than max_nodes.  The nodes of a switch are those of the
\* leaf switches below it.
ASSUME JobTestAssumption ==
    /\ N \in Nat
    /\ \A r \in Requests :
          /\ r \in RequestType
          /\ 1 <= r.minNodes /\ r.minNodes <= r.reqNodes /\ r.reqNodes <= r.maxNodes
          /\ Cardinality(r.required) <= r.minNodes
          /\ \A i \in DOMAIN r.switches : \A n \in r.switches[i].nodes :
                \E j \in DOMAIN r.switches :
                    /\ r.switches[j].level = 0 /\ n \in r.switches[j].nodes
                    /\ r.switches[j].nodes \subseteq r.switches[i].nodes
          /\ r.network = "hypercube" => Laid(r)

VARIABLES
    request,    \* the arguments
    pc,         \* "begin", "highest", "sets", "finish" or "done"
    bitmap,     \* the nodes taken so far
    table,      \* consec_nodes, _cpus and _req, by consec_start
    left,       \* avail_cpu_cnt
    remNodes, remCpus, maxNodes,
    rc          \* "none", "success" or "EINVAL"

jobTestVars == <<request, pc, bitmap, table, left, remNodes, remCpus, maxNodes, rc>>

CpusOf(S) == Total(request.cpus, S)

\* _enough_nodes: req_nodes are wished for, min_nodes will do.
Enough(nodes, rem) ==
    nodes >= rem + request.minNodes - request.reqNodes

-----------------------------------------------------------------------------
(* The table of consecutive sets *)

\* The required nodes, as many as max_nodes allows.
Taken ==
    {n \in request.required \cap request.avail :
        Cardinality({k \in request.required \cap request.avail : k < n}) < request.maxNodes}

\* The nodes in a row with node n that are all usable.
Block(n) == {k \in request.avail : (k .. n) \cup (n .. k) \subseteq request.avail}

Blocks == {Block(n) : n \in request.avail}

\* The first nodes of the blocks, of those that are not required.
Starts ==
    {n \in request.avail \ Taken : \A k \in Block(n) \ Taken : n <= k}

\* A record for each block that has nodes which are not required.
Record(n) ==
    LET free == Block(n) \ Taken
    IN  [nodes |-> Cardinality(free),
         cpus  |-> CpusOf(free),
         req   |-> IF Block(n) \cap Taken = {} THEN NoNode ELSE Min(Block(n) \cap Taken)]

Table == [n \in Starts |-> Record(n)]

Unlike == \E m, n \in request.avail : request.cpus[m] # request.cpus[n]

Lowest == Min({request.cpus[n] : n \in request.avail})

Refuse ==
    /\ pc = "begin"
    /\ \/ Cardinality(request.avail) < request.minNodes
       \/ ~(request.required \subseteq request.avail)
    /\ rc' = "EINVAL" /\ pc' = "done"
    /\ UNCHANGED <<request, bitmap, table, left, remNodes, remCpus, maxNodes>>

BuildTable ==
    /\ pc = "begin" /\ request.network = "row"
    /\ Cardinality(request.avail) >= request.minNodes
    /\ request.required \subseteq request.avail
    /\ bitmap' = Taken
    /\ table' = Table
    /\ left' = [n \in Nodes |-> IF n \in request.avail THEN request.cpus[n] ELSE 0]
    /\ remNodes' = request.reqNodes - Cardinality(Taken)
    /\ remCpus' = request.minCpus - CpusOf(Taken)
    /\ maxNodes' = request.maxNodes - Cardinality(Taken)
    /\ pc' = IF Unlike /\ remCpus' > Lowest * remNodes' THEN "highest" ELSE "sets"
    /\ UNCHANGED <<request, rc>>

-----------------------------------------------------------------------------
(* Unlike nodes *)

Wanting == remNodes > 0 \/ remCpus > 0

\* The last of the nodes with the most CPUs that is not taken yet.
Highest(n) ==
    /\ n \in Nodes \ bitmap
    /\ \A k \in Nodes \ bitmap : left[k] < left[n] \/ (left[k] = left[n] /\ k <= n)

TakeHighest ==
    /\ pc = "highest" /\ maxNodes > 0 /\ Wanting
    /\ \E n \in Nodes :
          /\ Highest(n)
          /\ bitmap' = bitmap \cup {n}
          /\ remCpus' = remCpus - left[n]
          /\ left' = [left EXCEPT ![n] = 0]
    /\ remNodes' = remNodes - 1 /\ maxNodes' = maxNodes - 1
    /\ UNCHANGED <<request, pc, table, rc>>

EndHighest ==
    /\ pc = "highest"
    /\ maxNodes <= 0 \/ ~Wanting \/ bitmap = Nodes
    /\ pc' = "finish"
    /\ UNCHANGED <<request, bitmap, table, left, remNodes, remCpus, maxNodes, rc>>

-----------------------------------------------------------------------------
(* Sets of consecutive nodes *)

Sufficient(i) == table[i].cpus >= remCpus /\ Enough(table[i].nodes, remNodes)

Pinned == request.contiguous /\ request.required # {}

Considered(i) ==
    /\ i \in DOMAIN table /\ table[i].nodes # 0
    /\ Pinned => table[i].req # NoNode

\* Set i replaces b, the best so far.
Better(i, b) ==
    \/ table[b].req = NoNode /\ table[i].req # NoNode
    \/ Sufficient(i) /\ ~Sufficient(b)
    \/ Sufficient(i) /\ table[i].cpus < table[b].cpus
    \/ ~Sufficient(i) /\ table[i].cpus > table[b].cpus

\* Required nodes in two sets are in no single one.
Scattered == Pinned /\ Cardinality({i \in DOMAIN table : table[i].req # NoNode}) > 1

\* (mutant: the first that is large enough, not the tightest)
BadBestFit ==
    LET best[i \in 0 .. N] ==
            IF i = 0 THEN NoNode
            ELSE LET b == best[i - 1]
                 IN  IF Considered(i) /\ (b = NoNode \/ (Sufficient(i) /\ ~Sufficient(b))) THEN i ELSE b
    IN  IF Scattered THEN NoNode ELSE best[N]

\* The best set of the table, NoNode if there is none.
BestFit ==
    LET best[i \in 0 .. N] ==
            IF i = 0 THEN NoNode
            ELSE LET b == best[i - 1]
                 IN  IF Considered(i) /\ (b = NoNode \/ Better(i, b)) THEN i ELSE b
    IN  IF Scattered THEN NoNode ELSE best[N]

\* Where node n comes in the order of a walk up from a node, then down from it.
Place(n, from) == IF n >= from THEN n ELSE N + from - n

Before(n, free, from) == {k \in free : Place(k, from) < Place(n, from)}

\* (mutant: max_nodes is not looked at)
BadSome(free, from) ==
    {n \in free : LET before == Before(n, free, from)
                  IN  Cardinality(before) < remNodes \/ CpusOf(before) < remCpus}

\* As many of the free nodes as are wanted, in this order.
Some(free, from) ==
    {n \in free : LET before == Before(n, free, from)
                  IN  /\ Cardinality(before) < maxNodes
                      /\ Cardinality(before) < remNodes \/ CpusOf(before) < remCpus}

\* Set b is taken up and then down from the node that is required, or else up
\* from its first.
FromSet(b) ==
    Some(Block(b) \ bitmap, IF table[b].req = NoNode THEN b ELSE table[b].req)

\* (mutant: the largest set will do)
BadFits(b) == b # NoNode

\* A contiguous job is content only with a set large enough.
Fits(b) == b # NoNode /\ (request.contiguous => Sufficient(b))

\* (mutant: what has been tried stays in the table)
BadSpend(b) == table' = table

\* A set that has been tried is not usable again.
Spend(b) == table' = [table EXCEPT ![b].nodes = 0, ![b].cpus = 0]

AddSet ==
    /\ pc = "sets" /\ maxNodes > 0
    /\ LET b == BestFit
           S == FromSet(b)
       IN  /\ Fits(b)
           /\ bitmap' = bitmap \cup S
           /\ remNodes' = remNodes - Cardinality(S)
           /\ remCpus' = remCpus - CpusOf(S)
           /\ maxNodes' = maxNodes - Cardinality(S)
           /\ IF request.contiguous \/ (remNodes' <= 0 /\ remCpus' <= 0)
              THEN pc' = "done" /\ rc' = "success" /\ UNCHANGED table
              ELSE Spend(b) /\ UNCHANGED <<pc, rc>>
    /\ UNCHANGED <<request, left>>

EndSets ==
    /\ pc = "sets"
    /\ maxNodes <= 0 \/ ~Fits(BestFit)
    /\ pc' = "finish"
    /\ UNCHANGED <<request, bitmap, table, left, remNodes, remCpus, maxNodes, rc>>

\* (mutant: nodes enough will do, whatever their CPUs)
BadFinishCpus ==
    /\ pc = "finish"
    /\ rc' = IF Enough(0, remNodes) THEN "success" ELSE "EINVAL"
    /\ pc' = "done"
    /\ UNCHANGED <<request, bitmap, table, left, remNodes, remCpus, maxNodes>>

\* (mutant: the wished number of nodes is insisted on)
BadFinish ==
    /\ pc = "finish"
    /\ rc' = IF remCpus <= 0 /\ remNodes <= 0 THEN "success" ELSE "EINVAL"
    /\ pc' = "done"
    /\ UNCHANGED <<request, bitmap, table, left, remNodes, remCpus, maxNodes>>

Finish ==
    /\ pc = "finish"
    /\ rc' = IF remCpus <= 0 /\ Enough(0, remNodes) THEN "success" ELSE "EINVAL"
    /\ pc' = "done"
    /\ UNCHANGED <<request, bitmap, table, left, remNodes, remCpus, maxNodes>>

-----------------------------------------------------------------------------
Init ==
    /\ request \in Requests
    /\ pc = "begin" /\ rc = "none"
    /\ bitmap = {} /\ table = [n \in {} |-> NoNode]
    /\ left = [n \in Nodes |-> 0]
    /\ remNodes = 0 /\ remCpus = 0 /\ maxNodes = 0

Next ==
    \/ Refuse \/ BuildTable
    \/ TakeHighest \/ EndHighest
    \/ AddSet \/ EndSets
    \/ Finish

Spec == Init /\ [][Next]_jobTestVars /\ WF_jobTestVars(Next)

-----------------------------------------------------------------------------
(* Properties *)

TypeOK ==
    /\ request \in RequestType
    /\ pc \in {"begin", "highest", "sets", "finish", "required", "leaves",
              "explore", "walk", "walked", "done"}
    /\ bitmap \subseteq Nodes
    /\ left \in [Nodes -> Nat]
    /\ DOMAIN table \subseteq Nodes
    /\ remNodes \in Int /\ remCpus \in Int /\ maxNodes \in Nat
    /\ rc \in {"none", "success", "EINVAL"}
    /\ pc = "done" <=> rc # "none"

Success == rc = "success"

\* The nodes that would do for the request: what the job asked for, and no
\* more nodes than it may have.
WouldDo(S) ==
    /\ request.required \subseteq S /\ S \subseteq request.avail
    /\ request.minNodes <= Cardinality(S) /\ Cardinality(S) <= request.maxNodes
    /\ CpusOf(S) >= request.minCpus

\* A job that is not contiguous gets what it asked for (lines 3652-3679).  Left
\* out is what the code does not promise: a contiguous job is not counted its
\* CPUs; and on unlike nodes without switches a job that wishes for more nodes
\* than have CPUs for it may get one that is not usable.
GetsWhatItAsked ==
    /\ Success /\ ~request.contiguous
    /\ request.network = "row" /\ Unlike =>
          request.reqNodes <= Cardinality({n \in request.avail : request.cpus[n] > 0})
    => WouldDo(bitmap)

\* Nodes under one switch of a tree or dragonfly.
Joined(S) ==
    request.network \in {"tree", "dragonfly"} =>
        \E i \in DOMAIN request.switches : S \subseteq request.switches[i].nodes

\* No job is turned away from a cluster on which it would fit, although sets,
\* leaves and switches are taken greedily and never given back.  (Nodes on
\* switches have to be like: they are taken in their order, which may use
\* max_nodes up before there are CPUs enough.  A hypercube wants as many usable
\* nodes as are wished for, and overlooks CPUs of required nodes.)
NeverTurnedAway ==
    /\ rc = "EINVAL" /\ ~request.contiguous
    /\ request.network # "row" => ~Unlike
    /\ request.network = "hypercube" =>
          request.required = {} /\ request.reqNodes <= Cardinality(request.avail)
    => \A S \in SUBSET request.avail : WouldDo(S) => ~Joined(S)

\* On like nodes with CPUs for it, a job that requires none and fits one set of
\* consecutive nodes gets nodes of one set, the smallest it fits ("best", lines
\* 3655-3658).
SmallestSet ==
    LET fits == {B \in Blocks : \E S \in SUBSET B : WouldDo(S)}
    IN  Success /\ ~Unlike /\ (\A n \in request.avail : request.cpus[n] > 0)
        /\ request.required = {} /\ request.reqNodes = request.minNodes /\ request.network = "row" /\ fits # {} =>
            \E B \in fits :
                /\ bitmap \subseteq B
                /\ \A C \in fits : Cardinality(B) <= Cardinality(C)

\* On like nodes without switches, a contiguous job that requires none gets
\* nodes in a row ("must be sequentially located", line 3678), as many as it
\* must have, and its CPUs unless max_nodes is in the way.  (On switches nobody
\* looks at contiguous.)
InARow ==
    Success /\ request.contiguous /\ request.required = {} /\ ~Unlike /\ request.network = "row" =>
        /\ bitmap = Min(bitmap) .. Max(bitmap)
        /\ Cardinality(bitmap) >= request.minNodes
        /\ Cardinality(bitmap) < request.maxNodes => CpusOf(bitmap) >= request.minCpus

=============================================================================
