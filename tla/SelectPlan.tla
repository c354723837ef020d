----------------------------- MODULE SelectPlan -----------------------------
(***************************************************************************)
(* What select/linear tries out on a copy of its books (_dup_cr): which    *)
(* jobs to preempt so that a pending job can start (_run_now), and after   *)
(* whose end it could start (_will_run_test).  The books themselves do not *)
(* change, so that the answers are operators on a state of SelectLinear.   *)
(*                                                                         *)
(* A job is in want of nodes only: _job_test fails if the usable ones are  *)
(* too few, and takes any of them otherwise.                               *)
(***************************************************************************)
EXTENDS SelectLinear, Sequences, SequencesExt

CONSTANT Requeued   \* the jobs that are preempted by requeue, checkpoint or cancel
ASSUME PlanAssumption == Requeued \subseteq Jobs

\* The books when the jobs of sequence s are gone one after the other, those
\* of S with remove_all.
Without(c, s, S) ==
    LET gone[i \in 0 .. Len(s)] ==
            IF i = 0 THEN c
            ELSE Removed(gone[i - 1], s[i], nodes[s[i]], s[i] \in S)
    IN  gone

\* slurm_job_preempt_mode: a job to be suspended keeps its memory.
\* (mutant: every job keeps it)
BadByMode == {}

ByMode == Requeued

-----------------------------------------------------------------------------
(* Preemption *)

\* The nodes job k may have if it shares them as widely as it can.
Room(c, k) == UsableNodes(c, k, Share(k) - 1)

Startable(c, k) == Cardinality(Room(c, k)) >= MinNodes[k]

\* The first candidate of list s whose removal lets k start; 0 if none does.
Stop(gone, s, k) ==
    LET enough == {i \in DOMAIN s : Startable(gone[i], k)}
    IN  IF enough = {} THEN 0 ELSE Min(enough)

\* usable_nodes of the candidate in place i: those of its nodes that k may
\* have when it is gone.
\* (mutant: its nodes that k could have before)
BadFreed(gone, s, k, i) == Cardinality(Room(gone[i - 1], k) \cap nodes[s[i]])

Freed(gone, s, k, i) == Cardinality(Room(gone[i], k) \cap nodes[s[i]])

\* _sort_usable_nodes_dec with the last candidate that was needed in front,
\* those with most usable nodes next, the rest in any order.
Sorted(s, weight) ==
    {t \in SetToSeqs(ToSet(s)) :
        \A i, j \in DOMAIN t : i < j => weight[t[i]] >= weight[t[j]]}

\* usable_nodes after a pass over list s; candidates that it has not reached
\* keep what they had.
AfterPass(gone, s, k, weight) ==
    [x \in ToSet(s) |->
        LET i == CHOOSE i \in DOMAIN s : s[i] = x
        IN  IF i <= Stop(gone, s, k) THEN Freed(gone, s, k, i) ELSE weight[x]]

\* The second pass, or the only one: the nodes k is to have, and
\* preemptee_job_list.
Preempted(c, s, k, weight) ==
    LET gone   == Without(c, s, ByMode)
        usable == AfterPass(gone, s, k, weight)
    IN  {[nodes   |-> S,
          victims |-> {x \in ToSet(s) : nodes[x] \cap S # {} /\ usable[x] # 0}] :
            S \in {S \in SUBSET Room(gone[Stop(gone, s, k)], k) : Cardinality(S) >= MinNodes[k]}}

\* _run_now for k, which cannot start, with preemptee_candidates s: what it
\* may answer; nothing if it fails.
Preemption(c, s, k) ==
    LET gone   == Without(c, s, ByMode)
        stop   == Stop(gone, s, k)
        zero   == [x \in ToSet(s) |-> 0]
        weight == [AfterPass(gone, s, k, zero) EXCEPT ![s[stop]] = 9999]
    IN  IF s = <<>> \/ stop = 0 THEN {}
        ELSE IF Len(s) = 1 THEN Preempted(c, s, k, zero)
        ELSE UNION {Preempted(c, t, k, weight) : t \in Sorted(s, weight)}

-----------------------------------------------------------------------------
(* The future *)

\* max_run_jobs: one at least, also for a job that shares with none.
WillRunLimit(k) == Max({Share(k) - 1, 1})

\* (mutant: _job_count_bitmap is called with SELECT_MODE_TEST_ONLY)
BadWillRunNodes(c, k) == PartNodes[Part[k]]

WillRunNodes(c, k) == UsableNodes(c, k, WillRunLimit(k))

\* _test_only, and the count select_p_job_test begins with: memory and other
\* jobs do not count.
TestOnly(k) == Cardinality(PartNodes[Part[k]]) >= MinNodes[k]

\* _will_run_test for k if the jobs of s are preemptable and those of t are
\* not and end in this order; an active job without an end time or without
\* nodes is on neither list.  With TEST_NOW_ONLY nobody's end is waited for.
\* start holds those that are gone at the start_time that is set, none if that
\* is at once, and is empty if none is set; the return code does not say.
WillRun(c, s, t, k, nowOnly) ==
    LET enough(b)   == Cardinality(WillRunNodes(b, k)) >= MinNodes[k]
        preempted == Without(c, s, ByMode)[Len(s)]
        ended     == Without(preempted, t, Jobs)
        when      == {i \in 0 .. IF nowOnly THEN 0 ELSE Len(t) : enough(ended[i])}
    IN  [rc    |-> IF TestOnly(k) THEN "SLURM_SUCCESS" ELSE "EINVAL",
         start |-> IF enough(c) THEN {<<>>}
                   ELSE IF when = {} THEN {}
                   ELSE {s \o SubSeq(t, 1, Min(when))}]

-----------------------------------------------------------------------------
(* Properties *)

\* Every list of some of the active jobs.
Lists(S) == UNION {SetToSeqs(T) : T \in SUBSET S}

ActiveJobs == {j \in Jobs : Active(j)}
Pending == {j \in Jobs : state[j] = "pending"}

\* Preemption leads on.  The list of jobs to preempt (lines 3336-3349) need
\* not be enough, since usable_nodes is 0 for a job whose nodes others still
\* kept from k when it was removed.  But it is never empty, nobody but
\* candidates on the nodes of the answer is in the way, and when those of the
\* list have gone k can start, or is shown others to preempt, in whatever order
\* the candidates that are left come.
PreemptionLeadsOn ==
    \A k \in Pending : ~Startable(Current, k) =>
        \A s \in Lists(ActiveJobs \cap Requeued) : \A a \in Preemption(Current, s, k) :
            LET all(S) == SetToSeq({x \in S : nodes[x] \cap a.nodes # {}})
                after(t) == Without(Current, t, Jobs)[Len(t)]
            IN  /\ a.victims # {}
                /\ a.nodes \subseteq Room(after(all(ToSet(s))), k)
                /\ \/ Startable(after(all(a.victims)), k)
                   \/ \A u \in SetToSeqs(ToSet(s) \ a.victims) :
                         Preemption(after(all(a.victims)), u, k) # {}

\* A job that may share is told a time at which it can start: when those that
\* the copy let go have ended, in whatever order, select_p_job_test finds room
\* for it (lines 3489-3513), whichever active jobs the copy passed over.  The
\* candidates are those of requeue, checkpoint and cancel.  Left out are jobs
\* that share with none: line 3400 counts on one job more than line 3239 grants
\* them.
WillRunKept ==
    \A k \in Pending : Share(k) > 1 =>
        \A C \in SUBSET (ActiveJobs \cap Requeued) : \A t \in Lists(ActiveJobs \ C) :
            \A nowOnly \in BOOLEAN : \A gone \in WillRun(Current, SetToSeq(C), t, k, nowOnly).start :
                \A u \in SetToSeqs(ToSet(gone)) :
                    Startable(Without(Current, u, Jobs)[Len(u)], k)

\* A job that could run in an empty partition is given a time, whatever runs
\* now and whichever of it may be requeued, checkpointed or cancelled -- if
\* TEST_NOW_ONLY is not set, all active jobs have an end time and nodes, and no
\* books kept through a suspension hold memory that nobody gives back.  (A
\* candidate to be suspended keeps its memory, lines 3459-3467, and is not on
\* the list of those that end: with one there may be no time.)
WillRunFindsTime ==
    \A k \in Pending :
        ~drifted /\ TestOnly(k) /\ (\A n \in Nodes : Mem[k][n] <= RealMemory[n]) =>
            \A C \in SUBSET (ActiveJobs \cap Requeued) : \A t \in SetToSeqs(ActiveJobs \ C) :
                WillRun(Current, SetToSeq(C), t, k, FALSE).start # {}

=============================================================================
