---------------------------- MODULE SelectLinear ----------------------------
(***************************************************************************)
(* The books of the select/linear plugin: what each node has given away,   *)
(* kept up to date as slurmctld starts, shrinks, merges, suspends and ends *)
(* jobs, and written anew from the list of jobs after a reconfiguration.   *)
(*                                                                         *)
(* Every entry point holds cr_mutex from its first to its last line, so    *)
(* that each is one action.  Generic resources are left out; what _run_now *)
(* and _will_run_test try out on a copy of the books is in SelectPlan.     *)
(***************************************************************************)
EXTENDS Integers, FiniteSets, Totals

CONSTANTS
    Jobs,
    Nodes,
    Parts,
    Part,        \* part_ptr of each job
    PartNodes,   \* the nodes of each partition
    MaxShare,    \* max_share of each partition
    Exclusive,   \* the jobs whose share_res is 0
    MinNodes,    \* min_nodes of each job
    Mem,         \* Mem[j][n]: pn_min_memory of job j, per node or times the CPUs of n
    RealMemory,  \* of each node
    NoBooks,     \* cr_ptr before it is built
    MaxSuspends  \* bound: suspensions by a user

ASSUME SelectAssumption ==
    /\ IsFiniteSet(Jobs) /\ IsFiniteSet(Nodes) /\ IsFiniteSet(Parts)
    /\ Part \in [Jobs -> Parts]
    /\ PartNodes \in [Parts -> SUBSET Nodes]
    /\ MaxShare \in [Parts -> Nat \ {0}]
    /\ Exclusive \subseteq Jobs
    /\ MinNodes \in [Jobs -> Nat \ {0}]
    /\ Mem \in [Jobs -> [Nodes -> Nat]]
    /\ RealMemory \in [Nodes -> Nat]
    /\ MaxSuspends \in Nat

VARIABLES
    state,    \* job_state of each job, as slurmctld has it
    nodes,    \* job_resrcs->node_bitmap of each job, less the nodes released
    cr,       \* cr_ptr: the books, or NoBooks
    granted,  \* history: the nodes each job has from select_p_job_test
    drifted,  \* history: were the books kept through a suspension by a user
    suspends  \* history: how many there were

selectVars == <<state, nodes, cr, granted, drifted, suspends>>

JobStates == {
    "pending", "running",
    "gang",       \* suspended by the gang scheduler, priority # 0
    "suspended",  \* suspended by a user, priority = 0
    "done" }

Active(j) == state[j] \in {"running", "gang", "suspended"}

PerPart == [Nodes -> [Parts -> Nat]]

\* cr_record: alloc_memory, exclusive_cnt and the counts per partition of each
\* node, run_job_ids and tot_job_ids.
Books == [mem : [Nodes -> Nat], excl : [Nodes -> Nat], run : PerPart, tot : PerPart,
          runIds : SUBSET Jobs, totIds : SUBSET Jobs]

\* Counters stop at zero, with an error in the log.
Minus(a, b) == IF a >= b THEN a - b ELSE 0

\* The memory each job asks for on node n.
MemOn(n) == [j \in Jobs |-> Mem[j][n]]

\* MaxShare, 1 for a job that wants its nodes for itself.
Share(j) == IF j \in Exclusive THEN 1 ELSE MaxShare[Part[j]]

-----------------------------------------------------------------------------
(* The books *)

\* _init_node_cr: from the jobs that run or are suspended.
Rebuilt ==
    LET active  == {j \in Jobs : Active(j)}
        On(n)   == {j \in active : n \in nodes[j]}
        In(n, S, p) == {j \in S : p = Part[j] /\ n \in PartNodes[p]}
        counted == {j \in active : state[j] # "suspended"}
    IN  [mem  |-> [n \in Nodes |-> Total(MemOn(n), On(n))],
         excl |-> [n \in Nodes |-> Cardinality(On(n) \cap Exclusive)],
         run  |-> [n \in Nodes |-> [p \in Parts |-> Cardinality(In(n, On(n) \cap counted, p))]],
         tot  |-> [n \in Nodes |-> [p \in Parts |-> Cardinality(In(n, On(n), p))]],
         runIds |-> counted,
         totIds |-> active]

Current == IF cr = NoBooks THEN Rebuilt ELSE cr

\* Job j counts in the record of partition p on node n, if there is one.
Counted(j, n, p) == p = Part[j] /\ n \in PartNodes[p]

\* (mutant: alloc_memory is decremented, as in _rm_job_from_nodes)
BadAdded(c, j, S, all) ==
    [c EXCEPT !.totIds = @ \cup {j},
              !.mem = [n \in Nodes |-> @[n] - IF all /\ n \in S THEN Mem[j][n] ELSE 0]]

\* _add_job_to_nodes for job j on the nodes S; all: alloc_all.
Added(c, j, S, all) ==
    LET one(n) == IF n \in S THEN 1 ELSE 0
        at(n, p) == IF Counted(j, n, p) THEN one(n) ELSE 0
    IN  [mem  |-> [n \in Nodes |-> c.mem[n] + IF all THEN one(n) * Mem[j][n] ELSE 0],
         excl |-> [n \in Nodes |-> c.excl[n] + IF j \in Exclusive THEN one(n) ELSE 0],
         run  |-> [n \in Nodes |-> [p \in Parts |-> c.run[n][p] + IF all THEN at(n, p) ELSE 0]],
         tot  |-> [n \in Nodes |-> [p \in Parts |-> c.tot[n][p] + at(n, p)]],
         runIds |-> IF all THEN c.runIds \cup {j} ELSE c.runIds,
         totIds |-> c.totIds \cup {j}]

\* (mutant: _test_tot_job for _rem_tot_job, so that a suspended job is released twice)
BadRemoved(c, j, S, all) ==
    LET one(n) == IF n \in S THEN 1 ELSE 0
    IN  IF j \notin c.totIds THEN c
        ELSE [c EXCEPT
           !.mem  = [n \in Nodes |-> Minus(@[n], IF all THEN one(n) * Mem[j][n] ELSE 0)],
           !.excl = [n \in Nodes |-> Minus(@[n], IF j \in Exclusive THEN one(n) ELSE 0)]]

\* _rm_job_from_nodes; all: remove_all.  A job that is not in tot_job_ids has
\* "no resources allocated"; one that is not in run_job_ids is not running.
Removed(c, j, S, all) ==
    LET one(n)  == IF n \in S THEN 1 ELSE 0
        at(n, p) == IF Counted(j, n, p) THEN one(n) ELSE 0
        tot     == [n \in Nodes |-> [p \in Parts |->
                        Minus(c.tot[n][p], IF all THEN at(n, p) ELSE 0)]]
        outOfSync(n, p) == all /\ at(n, p) = 1 /\ tot[n][p] = 0
    IN  IF j \notin c.totIds THEN c
        ELSE [mem  |-> [n \in Nodes |-> Minus(c.mem[n], IF all THEN one(n) * Mem[j][n] ELSE 0)],
              excl |-> [n \in Nodes |-> Minus(c.excl[n], IF j \in Exclusive THEN one(n) ELSE 0)],
              run  |-> [n \in Nodes |-> [p \in Parts |->
                           IF outOfSync(n, p) THEN 0
                           ELSE Minus(c.run[n][p], IF j \in c.runIds THEN at(n, p) ELSE 0)]],
              tot  |-> tot,
              runIds |-> c.runIds \ {j},
              totIds |-> c.totIds \ {j}]

\* _rm_job_from_one_node and _decr_node_job_cnt: the ids stay.
\* (mutant: the exclusive count is left alone)
BadRemovedFromOne(c, j, n) ==
    IF j \notin c.totIds THEN c
    ELSE [Removed(c, j, {n}, TRUE) EXCEPT !.runIds = c.runIds, !.totIds = c.totIds, !.excl = c.excl]

RemovedFromOne(c, j, n) ==
    IF j \notin c.totIds THEN c
    ELSE [Removed(c, j, {n}, TRUE) EXCEPT !.runIds = c.runIds, !.totIds = c.totIds]

\* _job_count_bitmap: may job j have node n if at most r jobs run there?
\* (mutant: exclusive_cnt is not looked at)
BadUsable(c, j, n, r) ==
    /\ Mem[j][n] = 0 \/ c.mem[n] + Mem[j][n] <= RealMemory[n]
    /\ Total(c.run[n], Parts) <= r

\* (mutant: what is allocated already is not counted)
BadUsableMemory(c, j, n, r) ==
    /\ Mem[j][n] <= RealMemory[n]
    /\ c.excl[n] = 0
    /\ Total(c.run[n], Parts) <= r

Usable(c, j, n, r) ==
    /\ Mem[j][n] = 0 \/ c.mem[n] + Mem[j][n] <= RealMemory[n]
    /\ c.excl[n] = 0
    /\ Total(c.run[n], Parts) <= r

UsableNodes(c, j, r) == {n \in PartNodes[Part[j]] : Usable(c, j, n, r)}

\* _run_now with max_run_job = r: enough usable nodes, of which _find_job_mate
\* or _job_test takes some.  (The limit on suspended jobs only orders the
\* attempts: the last one has none.)
Selectable(c, j, r) ==
    {S \in SUBSET UsableNodes(c, j, r) : Cardinality(S) >= MinNodes[j]}

-----------------------------------------------------------------------------
(* What slurmctld calls *)

\* select_p_job_test, mode SELECT_MODE_RUN_NOW, and select_p_job_begin,
\* "called immediately after".
\* (mutant: the number of jobs that run may be max_share already)
BadStart(j) ==
    /\ state[j] = "pending"
    /\ \E r \in 0 .. Share(j) : \E S \in Selectable(Current, j, r) :
          /\ nodes' = [nodes EXCEPT ![j] = S]
          /\ granted' = [granted EXCEPT ![j] = S]
          /\ cr' = Added(Current, j, S, TRUE)
    /\ state' = [state EXCEPT ![j] = "running"]
    /\ UNCHANGED <<drifted, suspends>>

Start(j) ==
    /\ state[j] = "pending"
    /\ \E r \in 0 .. Share(j) - 1 : \E S \in Selectable(Current, j, r) :
          /\ nodes' = [nodes EXCEPT ![j] = S]
          /\ granted' = [granted EXCEPT ![j] = S]
          /\ cr' = Added(Current, j, S, TRUE)
    /\ state' = [state EXCEPT ![j] = "running"]
    /\ UNCHANGED <<drifted, suspends>>

\* select_p_job_fini; the job may be queued again.
Fini(j) ==
    /\ Active(j)
    /\ cr' = Removed(Current, j, nodes[j], TRUE)
    /\ \E s \in {"done", "pending"} : state' = [state EXCEPT ![j] = s]
    /\ nodes' = [nodes EXCEPT ![j] = {}]
    /\ granted' = [granted EXCEPT ![j] = {}]
    /\ UNCHANGED <<drifted, suspends>>

\* select_p_job_suspend and select_p_job_resume for the gang scheduler do
\* nothing.
Gang(j) ==
    /\ \/ state[j] = "running" /\ state' = [state EXCEPT ![j] = "gang"]
       \/ state[j] = "gang" /\ state' = [state EXCEPT ![j] = "running"]
    /\ UNCHANGED <<nodes, granted, cr, drifted, suspends>>

\* The same with indf_susp.
Suspend(j) ==
    /\ state[j] = "running" /\ suspends < MaxSuspends
    /\ cr' = Removed(Current, j, nodes[j], FALSE)
    /\ state' = [state EXCEPT ![j] = "suspended"]
    /\ drifted' = TRUE /\ suspends' = suspends + 1
    /\ UNCHANGED <<nodes, granted>>

Resume(j) ==
    /\ state[j] = "suspended"
    /\ cr' = Added(Current, j, nodes[j], FALSE)
    /\ state' = [state EXCEPT ![j] = "running"]
    /\ granted' = [granted EXCEPT ![j] = {}]
    /\ drifted' = TRUE
    /\ UNCHANGED <<nodes, suspends>>

\* select_p_job_resized: the job gives up node n, but not its last one.
Resized(j, n) ==
    /\ Active(j) /\ n \in nodes[j] /\ nodes[j] # {n}
    /\ cr' = RemovedFromOne(Current, j, n)
    /\ nodes' = [nodes EXCEPT ![j] = @ \ {n}]
    /\ granted' = [granted EXCEPT ![j] = @ \ {n}]
    /\ UNCHANGED <<state, drifted, suspends>>

\* select_p_job_expand: job k takes over all nodes of job j.  It asks nothing
\* of _job_count_bitmap.
JobExpand(j, k) ==
    /\ j # k /\ state[j] = "running" /\ state[k] = "running"
    /\ nodes[j] # {} /\ nodes[k] # {}
    /\ {j, k} \subseteq Current.totIds
    /\ cr' = LET c == Removed(Removed(Current, j, nodes[j], TRUE), k, nodes[k], TRUE)
             IN  Added(c, k, nodes[j] \cup nodes[k], TRUE)
    /\ nodes' = [nodes EXCEPT ![j] = {}, ![k] = nodes[j] \cup nodes[k]]
    /\ UNCHANGED <<state, granted, drifted, suspends>>

\* select_p_node_init throws the books away; they are rebuilt when needed.
NodeInit ==
    /\ cr' = NoBooks
    /\ drifted' = FALSE
    /\ UNCHANGED <<state, nodes, granted, suspends>>

Reconfigure ==
    /\ cr' = Rebuilt
    /\ drifted' = FALSE
    /\ UNCHANGED <<state, nodes, granted, suspends>>

-----------------------------------------------------------------------------
Init ==
    /\ state = [j \in Jobs |-> "pending"]
    /\ nodes = [j \in Jobs |-> {}]
    /\ granted = [j \in Jobs |-> {}]
    /\ cr = NoBooks
    /\ drifted = FALSE
    /\ suspends = 0

Next ==
    \/ \E j \in Jobs : Start(j) \/ Fini(j) \/ Gang(j) \/ Suspend(j) \/ Resume(j)
    \/ \E j \in Jobs, n \in Nodes : Resized(j, n)
    \/ \E j, k \in Jobs : JobExpand(j, k)
    \/ NodeInit \/ Reconfigure

Spec == Init /\ [][Next]_selectVars

-----------------------------------------------------------------------------
(* Properties *)

TypeOK ==
    /\ state \in [Jobs -> JobStates]
    /\ nodes \in [Jobs -> SUBSET Nodes]
    /\ granted \in [Jobs -> SUBSET Nodes]
    /\ cr \in Books \cup {NoBooks}
    /\ drifted \in BOOLEAN
    /\ suspends \in 0 .. MaxSuspends

\* The books kept call by call are those that _init_node_cr would write from
\* the list of jobs (lines 3013-3158): slurmctld may be reconfigured or
\* restarted at any time and finds nothing else.  (A job all of whose nodes
\* went to another one is in the list, but in no book.)
BooksAsRebuilt ==
    cr # NoBooks /\ ~drifted =>
        /\ \A f \in {"mem", "excl", "run", "tot"} : cr[f] = Rebuilt[f]
        /\ \A f \in {"runIds", "totIds"} :
              {j \in cr[f] : nodes[j] # {}} = {j \in Rebuilt[f] : nodes[j] # {}}

On(n) == {j \in Jobs : Active(j) /\ n \in nodes[j]}

\* Those that are not suspended by a user.
Running(n) == {j \in On(n) : state[j] # "suspended"}

\* Nobody in S has node n from another job, or back after a suspension.
Granted(n, S) == \A j \in S : n \in granted[j]

\* None of the errors "underflow" and "out of sync" (lines 2337-2416) is ever
\* logged, although the books drift: what a job would give back is there to
\* be taken off, after any suspensions, shrinkings and mergers.
NeverUnderflows ==
    cr # NoBooks =>
        \A j \in cr.totIds : \A n \in nodes[j] :
            /\ cr.mem[n] >= Mem[j][n]
            /\ j \in Exclusive => cr.excl[n] > 0
            /\ n \in PartNodes[Part[j]] =>
                  /\ cr.tot[n][Part[j]] >= cr.run[n][Part[j]]
                  /\ cr.tot[n][Part[j]] > 0
                  /\ j \in cr.runIds => cr.run[n][Part[j]] > 0

\* A job that wants its nodes for itself has them for itself, in whatever
\* partitions the others are (lines 664-669, 3718-3721).
ExclusiveAlone ==
    \A n \in Nodes : Granted(n, Running(n)) =>
        \A j \in Running(n) \cap Exclusive : Running(n) = {j}

\* The jobs on a node, suspended or not, ask for no more memory than it has
\* (lines 642-662): a suspension gives no memory back.
MemoryFits ==
    \A n \in Nodes : Granted(n, On(n)) =>
        Total(MemOn(n), On(n)) <= RealMemory[n]

\* However many jobs of however many partitions share a node, the last of
\* them to come tolerated all that were there (lines 670-683, 3239-3250).
ShareLimit ==
    \A n \in Nodes : Granted(n, Running(n)) =>
        \A S \in (SUBSET Running(n)) \ {{}} : \E j \in S : Cardinality(S) <= Share(j)

=============================================================================
