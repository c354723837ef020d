------------------------- MODULE SelectLinearProofs -------------------------
(***************************************************************************)
(* The books of select/linear, for any cluster and any jobs: they never    *)
(* underflow, they are those that a restart would write as long as nobody  *)
(* suspends a job by hand, and no node is given to more than it can hold.  *)
(*                                                                         *)
(* The properties speak of jobs that hold what they were granted.  What is *)
(* inductive is that the books cover, on each node, at least the jobs that *)
(* are there (Covers): a suspension gives nothing back that is not taken   *)
(* off again, and a resumption may add what is there already.              *)
(*                                                                         *)
(* Then what is promised from a copy of the books: whom to preempt, and    *)
(* when a job can start.                                                   *)
(***************************************************************************)
EXTENDS SelectPlan, TotalsProofs, SequenceTheorems

Allocations == [Jobs -> SUBSET Nodes]

\* The jobs on node n if the nodes of each job are nd; those of I that want it
\* for themselves; those of I that the record of partition p counts there.
Has(nd, n) == {j \in Jobs : n \in nd[j]}
ExclIn(nd, I, n) == {j \in I : n \in nd[j] /\ j \in Exclusive}
In(nd, I, n, p) == {j \in I : n \in nd[j] /\ Counted(j, n, p)}

\* The books c have all that the jobs on nd may take off them.
Covers(c, nd) ==
    /\ c \in Books /\ c.runIds \subseteq c.totIds
    /\ \A n \in Nodes :
          /\ c.mem[n] >= Total(MemOn(n), Has(nd, n))
          /\ c.excl[n] >= Cardinality(ExclIn(nd, c.totIds, n))
          /\ \A p \in Parts :
                /\ c.run[n][p] = Cardinality(In(nd, c.runIds, n, p))
                /\ c.tot[n][p] >= Cardinality(In(nd, c.totIds, n, p))

\* They have no more than that.
Exact(c, nd) ==
    /\ \A j \in Jobs : nd[j] # {} => j \in c.totIds
    /\ \A n \in Nodes :
          /\ c.mem[n] = Total(MemOn(n), Has(nd, n))
          /\ c.excl[n] = Cardinality(ExclIn(nd, Jobs, n))
          /\ \A p \in Parts : c.tot[n][p] = Cardinality(In(nd, Jobs, n, p))

-----------------------------------------------------------------------------
(* Counting jobs *)

LEMMA ConstantTypes ==
    /\ IsFiniteSet(Jobs) /\ IsFiniteSet(Parts)
    /\ \A j \in Jobs : /\ Part[j] \in Parts /\ PartNodes[Part[j]] \subseteq Nodes
                       /\ Share(j) \in Nat /\ Share(j) > 0 /\ MinNodes[j] \in Nat \ {0}
    /\ \A j \in Jobs, n \in Nodes : Mem[j][n] \in Nat /\ MemOn(n)[j] = Mem[j][n]
    /\ \A n \in Nodes : RealMemory[n] \in Nat /\ Summable(MemOn(n), Jobs)
<1>1. IsFiniteSet(Jobs) /\ IsFiniteSet(Parts) BY SelectAssumption
<1>2. ASSUME NEW j \in Jobs
      PROVE  /\ Part[j] \in Parts /\ PartNodes[Part[j]] \subseteq Nodes
             /\ Share(j) \in Nat /\ Share(j) > 0 /\ MinNodes[j] \in Nat \ {0}
  <2>1. Part[j] \in Parts /\ MinNodes[j] \in Nat \ {0} BY SelectAssumption
  <2>2. PartNodes[Part[j]] \in SUBSET Nodes /\ MaxShare[Part[j]] \in Nat \ {0}
    BY <2>1, SelectAssumption
  <2> QED BY <2>1, <2>2 DEF Share
<1>3. \A j \in Jobs, n \in Nodes : Mem[j][n] \in Nat /\ MemOn(n)[j] = Mem[j][n]
  BY SelectAssumption DEF MemOn
<1>4. \A n \in Nodes : RealMemory[n] \in Nat BY SelectAssumption
<1> QED BY <1>1, <1>2, <1>3, <1>4 DEF Summable

LEMMA CountType ==
    ASSUME NEW S \in SUBSET Jobs
    PROVE  /\ IsFiniteSet(S) /\ Cardinality(S) \in Nat
           /\ \A n \in Nodes : Summable(MemOn(n), S) /\ Total(MemOn(n), S) \in Nat
<1>1. IsFiniteSet(S) BY ConstantTypes, FS_Subset
<1>2. \A n \in Nodes : Summable(MemOn(n), S) BY <1>1, ConstantTypes DEF Summable
<1> QED BY <1>1, <1>2, FS_CardinalityType, TotalType

LEMMA CountJoin ==
    ASSUME NEW S \in SUBSET Jobs, NEW j \in Jobs \ S
    PROVE  /\ Cardinality(S \cup {j}) = Cardinality(S) + 1
           /\ \A n \in Nodes : Total(MemOn(n), S \cup {j}) = Total(MemOn(n), S) + Mem[j][n]
<1>1. IsFiniteSet(S) /\ S \cup {j} \in SUBSET Jobs BY CountType
<1>2. Cardinality(S \cup {j}) = Cardinality(S) + 1 BY <1>1, FS_AddElement
<1>3. ASSUME NEW n \in Nodes
      PROVE  Total(MemOn(n), S \cup {j}) = Total(MemOn(n), S) + Mem[j][n]
  <2>1. Summable(MemOn(n), S \cup {j}) BY <1>1, CountType
  <2>2. Total(MemOn(n), S \cup {j}) = Total(MemOn(n), S) + MemOn(n)[j] BY <2>1, TotalJoin
  <2> QED BY <2>2, ConstantTypes
<1> QED BY <1>2, <1>3

LEMMA CountLeave ==
    ASSUME NEW S \in SUBSET Jobs, NEW j \in S
    PROVE  /\ Cardinality(S \ {j}) = Cardinality(S) - 1 /\ Cardinality(S) > 0
           /\ \A n \in Nodes : /\ Total(MemOn(n), S \ {j}) = Total(MemOn(n), S) - Mem[j][n]
                               /\ Mem[j][n] <= Total(MemOn(n), S)
<1> DEFINE rest == S \ {j}
<1>1. rest \in SUBSET Jobs /\ j \in Jobs \ rest /\ S = rest \cup {j} OBVIOUS
<1>2. /\ Cardinality(rest) \in Nat
      /\ \A n \in Nodes : Total(MemOn(n), rest) \in Nat /\ Mem[j][n] \in Nat
  BY <1>1, CountType, ConstantTypes
<1> HIDE DEF rest
<1>3. /\ Cardinality(rest \cup {j}) = Cardinality(rest) + 1
      /\ \A n \in Nodes : Total(MemOn(n), rest \cup {j}) = Total(MemOn(n), rest) + Mem[j][n]
  BY <1>1, CountJoin
<1>4. /\ Cardinality(rest) = Cardinality(rest \cup {j}) - 1
      /\ Cardinality(rest \cup {j}) > 0
  BY <1>2, <1>3
<1>5. ASSUME NEW n \in Nodes
      PROVE  /\ Total(MemOn(n), rest) = Total(MemOn(n), rest \cup {j}) - Mem[j][n]
             /\ Mem[j][n] <= Total(MemOn(n), rest \cup {j})
  <2>1. Total(MemOn(n), rest \cup {j}) = Total(MemOn(n), rest) + Mem[j][n] BY <1>3
  <2>2. Total(MemOn(n), rest) \in Nat /\ Mem[j][n] \in Nat BY <1>2
  <2> QED BY <2>1, <2>2
<1> QED BY <1>1, <1>4, <1>5 DEF rest

LEMMA CountLess ==
    ASSUME NEW T \in SUBSET Jobs, NEW S \in SUBSET T
    PROVE  /\ Cardinality(S) <= Cardinality(T)
           /\ \A n \in Nodes : Total(MemOn(n), S) <= Total(MemOn(n), T)
<1>1. IsFiniteSet(T) /\ S \in SUBSET Jobs BY CountType
<1>2. Cardinality(S) <= Cardinality(T) BY <1>1, FS_Subset
<1>3. ASSUME NEW n \in Nodes PROVE Total(MemOn(n), S) <= Total(MemOn(n), T)
  <2>1. Summable(MemOn(n), S) /\ Summable(MemOn(n), T) BY <1>1, CountType
  <2>2. \A x \in S : MemOn(n)[x] <= MemOn(n)[x] BY <2>1 DEF Summable
  <2> QED BY <2>1, <2>2, TotalMonotone
<1> QED BY <1>2, <1>3

-----------------------------------------------------------------------------
(* What _add_job_to_nodes and _rm_job_from_nodes do, node by node *)

\* What job j has on node n if it has the nodes S.
MemOf(j, S, n) == IF n \in S THEN Mem[j][n] ELSE 0
ExclOf(j, S, n) == IF j \in Exclusive /\ n \in S THEN 1 ELSE 0
CountOf(j, S, n, p) == IF Counted(j, n, p) /\ n \in S THEN 1 ELSE 0

LEMMA AmountTypes ==
    \A j \in Jobs, n \in Nodes, S \in SUBSET Nodes :
       /\ MemOf(j, S, n) \in Nat /\ ExclOf(j, S, n) \in Nat
       /\ \A p \in Parts : CountOf(j, S, n, p) \in Nat
BY ConstantTypes DEF MemOf, ExclOf, CountOf

LEMMA BookTypes ==
    ASSUME NEW c \in Books
    PROVE  /\ c.runIds \in SUBSET Jobs /\ c.totIds \in SUBSET Jobs
           /\ c.mem \in [Nodes -> Nat] /\ c.excl \in [Nodes -> Nat]
           /\ c.run \in PerPart /\ c.tot \in PerPart
           /\ \A n \in Nodes : /\ c.mem[n] \in Nat /\ c.excl[n] \in Nat
                               /\ \A p \in Parts : c.run[n][p] \in Nat /\ c.tot[n][p] \in Nat
BY DEF Books, PerPart

\* Books with other lists of ids are books.
LEMMA OtherIds ==
    ASSUME NEW Mems, NEW Excls, NEW Counts, NEW Ids,
           NEW r \in [mem : Mems, excl : Excls, run : Counts, tot : Counts,
                      runIds : Ids, totIds : Ids],
           NEW s \in Ids, NEW t \in Ids
    PROVE  LET a == [r EXCEPT !.runIds = s, !.totIds = t]
           IN  /\ a \in [mem : Mems, excl : Excls, run : Counts, tot : Counts,
                         runIds : Ids, totIds : Ids]
               /\ a.runIds = s /\ a.totIds = t
               /\ a.mem = r.mem /\ a.excl = r.excl /\ a.run = r.run /\ a.tot = r.tot
OBVIOUS

\* a is c and job j on the nodes S; all: alloc_all.
IsAdded(a, c, j, S, all) ==
    /\ a \in Books
    /\ a.runIds = (IF all THEN c.runIds \cup {j} ELSE c.runIds)
    /\ a.totIds = c.totIds \cup {j}
    /\ \A n \in Nodes :
          /\ a.mem[n] = c.mem[n] + (IF all THEN MemOf(j, S, n) ELSE 0)
          /\ a.excl[n] = c.excl[n] + ExclOf(j, S, n)
          /\ \A p \in Parts :
                /\ a.run[n][p] = c.run[n][p] + (IF all THEN CountOf(j, S, n, p) ELSE 0)
                /\ a.tot[n][p] = c.tot[n][p] + CountOf(j, S, n, p)

LEMMA AddedNode ==
    ASSUME NEW c \in Books, NEW j \in Jobs, NEW S \in SUBSET Nodes, NEW all \in BOOLEAN
    PROVE  IsAdded(Added(c, j, S, all), c, j, S, all)
<1> DEFINE one(n) == IF n \in S THEN 1 ELSE 0
           at(n, p) == IF Counted(j, n, p) THEN one(n) ELSE 0
           mem == [n \in Nodes |-> c.mem[n] + IF all THEN one(n) * Mem[j][n] ELSE 0]
           excl == [n \in Nodes |-> c.excl[n] + IF j \in Exclusive THEN one(n) ELSE 0]
           run == [n \in Nodes |-> [p \in Parts |-> c.run[n][p] + IF all THEN at(n, p) ELSE 0]]
           tot == [n \in Nodes |-> [p \in Parts |-> c.tot[n][p] + at(n, p)]]
           a == Added(c, j, S, all)
<1>1. /\ a.mem = mem /\ a.excl = excl /\ a.run = run /\ a.tot = tot
      /\ a.runIds = (IF all THEN c.runIds \cup {j} ELSE c.runIds)
      /\ a.totIds = c.totIds \cup {j}
      /\ a = [mem |-> mem, excl |-> excl, run |-> run, tot |-> tot,
              runIds |-> a.runIds, totIds |-> a.totIds]
  BY DEF Added
<1>2. \A n \in Nodes :
         /\ mem[n] = c.mem[n] + (IF all THEN MemOf(j, S, n) ELSE 0)
         /\ mem[n] \in Nat
  BY BookTypes, ConstantTypes DEF MemOf
<1>3. \A n \in Nodes : excl[n] = c.excl[n] + ExclOf(j, S, n) /\ excl[n] \in Nat
  BY BookTypes DEF ExclOf, CountOf
<1>4. \A n \in Nodes, p \in Parts :
         /\ run[n][p] = c.run[n][p] + (IF all THEN CountOf(j, S, n, p) ELSE 0)
         /\ tot[n][p] = c.tot[n][p] + CountOf(j, S, n, p)
         /\ run[n][p] \in Nat /\ tot[n][p] \in Nat
  BY BookTypes DEF ExclOf, CountOf
<1>5. mem \in [Nodes -> Nat] /\ excl \in [Nodes -> Nat] BY <1>2, <1>3
<1>6. run \in PerPart /\ tot \in PerPart BY <1>4 DEF PerPart
<1>7. a.runIds \in SUBSET Jobs /\ a.totIds \in SUBSET Jobs BY <1>1, BookTypes
<1> HIDE DEF mem, excl, run, tot, a
<1>8. a \in Books BY <1>1, <1>5, <1>6, <1>7 DEF Books
<1>9. /\ a.runIds = (IF all THEN c.runIds \cup {j} ELSE c.runIds)
      /\ a.totIds = c.totIds \cup {j}
  BY <1>1
<1>10. \A n \in Nodes :
         /\ a.mem[n] = c.mem[n] + (IF all THEN MemOf(j, S, n) ELSE 0)
         /\ a.excl[n] = c.excl[n] + ExclOf(j, S, n)
         /\ \A p \in Parts :
               /\ a.run[n][p] = c.run[n][p] + (IF all THEN CountOf(j, S, n, p) ELSE 0)
               /\ a.tot[n][p] = c.tot[n][p] + CountOf(j, S, n, p)
  BY <1>1, <1>2, <1>3, <1>4
<1> QED BY <1>8, <1>9, <1>10 DEF a, IsAdded

\* a is c less job j on the nodes S; all: remove_all.
IsRemoved(a, c, j, S, all) ==
    /\ a \in Books
    /\ a.runIds = c.runIds \ {j} /\ a.totIds = c.totIds \ {j}
    /\ \A n \in Nodes :
          /\ a.mem[n] = Minus(c.mem[n], IF all THEN MemOf(j, S, n) ELSE 0)
          /\ a.excl[n] = Minus(c.excl[n], ExclOf(j, S, n))
          /\ \A p \in Parts :
                /\ a.tot[n][p] = Minus(c.tot[n][p], IF all THEN CountOf(j, S, n, p) ELSE 0)
                /\ a.run[n][p] =
                     IF all /\ CountOf(j, S, n, p) = 1 /\ a.tot[n][p] = 0 THEN 0
                     ELSE Minus(c.run[n][p], IF j \in c.runIds THEN CountOf(j, S, n, p) ELSE 0)

LEMMA RemovedNode ==
    ASSUME NEW c \in Books, NEW j \in c.totIds, NEW S \in SUBSET Nodes, NEW all \in BOOLEAN
    PROVE  IsRemoved(Removed(c, j, S, all), c, j, S, all)
<1> DEFINE one(n) == IF n \in S THEN 1 ELSE 0
           at(n, p) == IF Counted(j, n, p) THEN one(n) ELSE 0
           tot == [n \in Nodes |-> [p \in Parts |->
                        Minus(c.tot[n][p], IF all THEN at(n, p) ELSE 0)]]
           outOfSync(n, p) == all /\ at(n, p) = 1 /\ tot[n][p] = 0
           mem == [n \in Nodes |-> Minus(c.mem[n], IF all THEN one(n) * Mem[j][n] ELSE 0)]
           excl == [n \in Nodes |-> Minus(c.excl[n], IF j \in Exclusive THEN one(n) ELSE 0)]
           run == [n \in Nodes |-> [p \in Parts |->
                      IF outOfSync(n, p) THEN 0
                      ELSE Minus(c.run[n][p], IF j \in c.runIds THEN at(n, p) ELSE 0)]]
           a == Removed(c, j, S, all)
<1>1. a = [mem |-> mem, excl |-> excl, run |-> run, tot |-> tot,
           runIds |-> c.runIds \ {j}, totIds |-> c.totIds \ {j}]
  BY DEF Removed
<1>2. /\ a.mem = mem /\ a.excl = excl /\ a.run = run /\ a.tot = tot
      /\ a.runIds = c.runIds \ {j} /\ a.totIds = c.totIds \ {j}
  BY <1>1
<1>3. j \in Jobs BY BookTypes
<1>4. \A n \in Nodes :
         /\ mem[n] = Minus(c.mem[n], IF all THEN MemOf(j, S, n) ELSE 0)
         /\ mem[n] \in Nat
  <2> SUFFICES ASSUME NEW n \in Nodes
               PROVE  /\ mem[n] = Minus(c.mem[n], IF all THEN MemOf(j, S, n) ELSE 0)
                      /\ mem[n] \in Nat
    OBVIOUS
  <2>1. c.mem[n] \in Nat /\ Mem[j][n] \in Nat BY <1>3, BookTypes, ConstantTypes
  <2>2. mem[n] = Minus(c.mem[n], IF all THEN one(n) * Mem[j][n] ELSE 0) OBVIOUS
  <2>3. (IF all THEN one(n) * Mem[j][n] ELSE 0) = (IF all THEN MemOf(j, S, n) ELSE 0)
    BY <2>1 DEF MemOf
  <2> QED BY <2>1, <2>2, <2>3 DEF Minus
<1>5. \A n \in Nodes :
         excl[n] = Minus(c.excl[n], ExclOf(j, S, n)) /\ excl[n] \in Nat
  BY BookTypes DEF ExclOf, CountOf, Minus
<1>6. \A n \in Nodes, p \in Parts :
         /\ tot[n][p] = Minus(c.tot[n][p], IF all THEN CountOf(j, S, n, p) ELSE 0)
         /\ tot[n][p] \in Nat
  BY BookTypes DEF ExclOf, CountOf, Minus
<1>7. \A n \in Nodes, p \in Parts :
         outOfSync(n, p) <=> all /\ CountOf(j, S, n, p) = 1 /\ tot[n][p] = 0
  BY DEF CountOf
<1> HIDE DEF tot, outOfSync
<1>8. \A n \in Nodes, p \in Parts :
         /\ run[n][p] = IF outOfSync(n, p) THEN 0
                        ELSE Minus(c.run[n][p], IF j \in c.runIds THEN CountOf(j, S, n, p) ELSE 0)
         /\ run[n][p] \in Nat
  BY BookTypes DEF ExclOf, CountOf, Minus
<1>9. mem \in [Nodes -> Nat] /\ excl \in [Nodes -> Nat] BY <1>4, <1>5
<1>10. tot \in PerPart BY <1>6 DEF PerPart, tot
<1>11. run \in PerPart BY <1>8 DEF PerPart
<1>12. a.runIds \in SUBSET Jobs /\ a.totIds \in SUBSET Jobs BY <1>2, BookTypes
<1> HIDE DEF mem, excl, run, a
<1>13. a \in Books BY <1>1, <1>2, <1>9, <1>10, <1>11, <1>12 DEF Books
<1>14. \A n \in Nodes :
         /\ a.mem[n] = Minus(c.mem[n], IF all THEN MemOf(j, S, n) ELSE 0)
         /\ a.excl[n] = Minus(c.excl[n], ExclOf(j, S, n))
  BY <1>2, <1>4, <1>5
<1>15. \A n \in Nodes, p \in Parts :
         /\ a.tot[n][p] = Minus(c.tot[n][p], IF all THEN CountOf(j, S, n, p) ELSE 0)
         /\ a.run[n][p] =
              IF all /\ CountOf(j, S, n, p) = 1 /\ a.tot[n][p] = 0 THEN 0
              ELSE Minus(c.run[n][p], IF j \in c.runIds THEN CountOf(j, S, n, p) ELSE 0)
  BY <1>2, <1>6, <1>7, <1>8
<1> QED BY <1>2, <1>13, <1>14, <1>15 DEF a, IsRemoved

-----------------------------------------------------------------------------
(* What the jobs on a node ask for, as one of them gets or loses nodes *)

LEMMA OnTypes ==
    ASSUME NEW nd, NEW n \in Nodes
    PROVE  /\ Has(nd, n) \in SUBSET Jobs /\ Total(MemOn(n), Has(nd, n)) \in Nat
           /\ \A I \in SUBSET Jobs :
                 /\ ExclIn(nd, I, n) \in SUBSET Jobs /\ Cardinality(ExclIn(nd, I, n)) \in Nat
                 /\ \A p \in Parts : /\ In(nd, I, n, p) \in SUBSET Jobs
                                     /\ Cardinality(In(nd, I, n, p)) \in Nat
<1>1. Has(nd, n) \in SUBSET Jobs BY DEF Has
<1>2. ASSUME NEW I \in SUBSET Jobs
      PROVE  ExclIn(nd, I, n) \in SUBSET Jobs /\ \A p \in Parts : In(nd, I, n, p) \in SUBSET Jobs
  BY DEF ExclIn, In
<1> QED BY <1>1, <1>2, CountType

\* big is small, and the nodes S for job j besides.
Differ(big, small, j, S) ==
    /\ big \in Allocations /\ small \in Allocations /\ j \in Jobs /\ S \in SUBSET Nodes
    /\ S \cap small[j] = {} /\ big[j] = small[j] \cup S
    /\ \A k \in Jobs \ {j} : big[k] = small[k]

LEMMA MemDiffers ==
    ASSUME NEW big, NEW small, NEW j, NEW S, Differ(big, small, j, S), NEW n \in Nodes
    PROVE  Total(MemOn(n), Has(big, n)) = Total(MemOn(n), Has(small, n)) + MemOf(j, S, n)
<1>1. Has(small, n) \in SUBSET Jobs /\ j \in Jobs BY OnTypes DEF Differ
<1>2. CASE n \in S
  <2>1. Has(big, n) = Has(small, n) \cup {j} /\ j \in Jobs \ Has(small, n)
    BY <1>2 DEF Differ, Has
  <2>2. Total(MemOn(n), Has(small, n) \cup {j}) = Total(MemOn(n), Has(small, n)) + Mem[j][n]
    BY <1>1, <2>1, CountJoin
  <2> QED BY <1>2, <2>1, <2>2 DEF MemOf
<1>3. CASE n \notin S
  <2>1. Has(big, n) = Has(small, n) BY <1>3 DEF Differ, Has
  <2>2. Total(MemOn(n), Has(small, n)) \in Nat BY OnTypes
  <2> QED BY <1>3, <2>1, <2>2 DEF MemOf
<1> QED BY <1>2, <1>3

LEMMA ExclDiffers ==
    ASSUME NEW big, NEW small, NEW j, NEW S, Differ(big, small, j, S), NEW n \in Nodes,
           NEW I \in SUBSET Jobs
    PROVE  /\ j \in I => Cardinality(ExclIn(big, I, n)) = Cardinality(ExclIn(small, I, n)) + ExclOf(j, S, n)
           /\ j \notin I => ExclIn(big, I, n) = ExclIn(small, I, n)
<1>1. ExclIn(small, I, n) \in SUBSET Jobs /\ j \in Jobs BY OnTypes DEF Differ
<1>2. CASE n \in S /\ j \in I /\ j \in Exclusive
  <2>1. ExclIn(big, I, n) = ExclIn(small, I, n) \cup {j} /\ j \in Jobs \ ExclIn(small, I, n)
    BY <1>2 DEF Differ, ExclIn
  <2>2. Cardinality(ExclIn(small, I, n) \cup {j}) = Cardinality(ExclIn(small, I, n)) + 1
    BY <1>1, <2>1, CountJoin
  <2> QED BY <1>2, <2>1, <2>2 DEF ExclOf
<1>3. CASE ~(n \in S /\ j \in I /\ j \in Exclusive)
  <2>1. ExclIn(big, I, n) = ExclIn(small, I, n) BY <1>3 DEF Differ, ExclIn
  <2>2. Cardinality(ExclIn(small, I, n)) \in Nat BY OnTypes
  <2> QED BY <1>3, <2>1, <2>2 DEF ExclOf
<1> QED BY <1>2, <1>3

LEMMA CountDiffers ==
    ASSUME NEW big, NEW small, NEW j, NEW S, Differ(big, small, j, S), NEW n \in Nodes,
           NEW I \in SUBSET Jobs, NEW p \in Parts
    PROVE  /\ j \in I => Cardinality(In(big, I, n, p)) = Cardinality(In(small, I, n, p)) + CountOf(j, S, n, p)
           /\ j \notin I => In(big, I, n, p) = In(small, I, n, p)
<1>1. In(small, I, n, p) \in SUBSET Jobs /\ j \in Jobs BY OnTypes DEF Differ
<1>2. CASE n \in S /\ j \in I /\ Counted(j, n, p)
  <2>1. In(big, I, n, p) = In(small, I, n, p) \cup {j} /\ j \in Jobs \ In(small, I, n, p)
    BY <1>2 DEF Differ, In
  <2>2. Cardinality(In(small, I, n, p) \cup {j}) = Cardinality(In(small, I, n, p)) + 1
    BY <1>1, <2>1, CountJoin
  <2> QED BY <1>2, <2>1, <2>2 DEF CountOf
<1>3. CASE ~(n \in S /\ j \in I /\ Counted(j, n, p))
  <2>1. In(big, I, n, p) = In(small, I, n, p) BY <1>3 DEF Differ, In
  <2>2. Cardinality(In(small, I, n, p)) \in Nat BY OnTypes
  <2> QED BY <1>3, <2>1, <2>2 DEF CountOf
<1> QED BY <1>2, <1>3

-----------------------------------------------------------------------------
(* What a call does to books that cover *)

\* A call gives a the amounts of c, and those of job j on the nodes S besides.
IsGiven(a, c, j, S) ==
    \A n \in Nodes :
       /\ a.mem[n] = c.mem[n] + MemOf(j, S, n)
       /\ a.excl[n] = c.excl[n] + ExclOf(j, S, n)
       /\ \A p \in Parts : /\ a.run[n][p] = c.run[n][p] + CountOf(j, S, n, p)
                           /\ a.tot[n][p] = c.tot[n][p] + CountOf(j, S, n, p)

Idle(nd, j) == nd[j] = {}

\* select_p_job_begin, and the job that grows in select_p_job_expand.
LEMMA BegunCovers ==
    ASSUME NEW nd \in Allocations, NEW j \in Jobs, Idle(nd, j), NEW S \in SUBSET Nodes,
           NEW c, Covers(c, nd)
    PROVE  LET a == Added(c, j, S, TRUE)
               to == [nd EXCEPT ![j] = S]
           IN  /\ Covers(a, to) /\ (Exact(c, nd) => Exact(a, to))
               /\ \A k \in Jobs : k \in a.runIds <=> k \in c.runIds \/ k = j
<1> DEFINE a == Added(c, j, S, TRUE)
           to == [nd EXCEPT ![j] = S]
<1>1. c \in Books /\ c.runIds \in SUBSET Jobs /\ c.totIds \in SUBSET Jobs
      /\ c.runIds \subseteq c.totIds
  BY BookTypes DEF Covers
<1>2. IsAdded(a, c, j, S, TRUE) BY <1>1, AddedNode
<1>3. Differ(to, nd, j, S) /\ nd[j] = {} BY DEF Differ, Allocations, Idle
<1> HIDE DEF a, to
<1>4. /\ a \in Books /\ a.runIds = c.runIds \cup {j} /\ a.totIds = c.totIds \cup {j}
      /\ IsGiven(a, c, j, S)
  BY <1>2 DEF IsAdded, IsGiven
<1>5. a.runIds \in SUBSET Jobs /\ a.totIds \in SUBSET Jobs /\ j \in a.runIds /\ j \in a.totIds
  BY <1>1, <1>4
<1>6. ASSUME NEW n \in Nodes
      PROVE  /\ a.mem[n] >= Total(MemOn(n), Has(to, n))
             /\ Exact(c, nd) => a.mem[n] = Total(MemOn(n), Has(to, n))
  <2>1. Total(MemOn(n), Has(to, n)) = Total(MemOn(n), Has(nd, n)) + MemOf(j, S, n)
    BY <1>3, MemDiffers
  <2>2. a.mem[n] = c.mem[n] + MemOf(j, S, n) BY <1>4 DEF IsGiven
  <2>3. /\ c.mem[n] >= Total(MemOn(n), Has(nd, n))
        /\ Exact(c, nd) => c.mem[n] = Total(MemOn(n), Has(nd, n))
    BY DEF Covers, Exact
  <2>4. c.mem[n] \in Nat /\ Total(MemOn(n), Has(nd, n)) \in Nat /\ MemOf(j, S, n) \in Nat
    BY <1>1, BookTypes, OnTypes, AmountTypes
  <2> QED BY <2>1, <2>2, <2>3, <2>4
<1>7. ASSUME NEW n \in Nodes
      PROVE  /\ a.excl[n] >= Cardinality(ExclIn(to, a.totIds, n))
             /\ Exact(c, nd) => a.excl[n] = Cardinality(ExclIn(to, Jobs, n))
  <2>1. /\ Cardinality(ExclIn(to, a.totIds, n)) = Cardinality(ExclIn(nd, a.totIds, n)) + ExclOf(j, S, n)
        /\ Cardinality(ExclIn(to, Jobs, n)) = Cardinality(ExclIn(nd, Jobs, n)) + ExclOf(j, S, n)
    BY <1>3, <1>5, ExclDiffers
  <2>2. ExclIn(nd, a.totIds, n) = ExclIn(nd, c.totIds, n) BY <1>3, <1>4 DEF ExclIn
  <2>3. a.excl[n] = c.excl[n] + ExclOf(j, S, n) BY <1>4 DEF IsGiven
  <2>4. /\ c.excl[n] >= Cardinality(ExclIn(nd, c.totIds, n))
        /\ Exact(c, nd) => c.excl[n] = Cardinality(ExclIn(nd, Jobs, n))
    BY DEF Covers, Exact
  <2>5. /\ c.excl[n] \in Nat /\ Cardinality(ExclIn(nd, c.totIds, n)) \in Nat
        /\ ExclOf(j, S, n) \in Nat
    BY <1>1, BookTypes, OnTypes, AmountTypes
  <2> QED BY <2>1, <2>2, <2>3, <2>4, <2>5
<1>8. ASSUME NEW n \in Nodes, NEW p \in Parts
      PROVE  /\ a.run[n][p] = Cardinality(In(to, a.runIds, n, p))
             /\ a.tot[n][p] >= Cardinality(In(to, a.totIds, n, p))
             /\ Exact(c, nd) => a.tot[n][p] = Cardinality(In(to, Jobs, n, p))
  <2>1. /\ Cardinality(In(to, a.runIds, n, p)) = Cardinality(In(nd, a.runIds, n, p)) + CountOf(j, S, n, p)
        /\ Cardinality(In(to, a.totIds, n, p)) = Cardinality(In(nd, a.totIds, n, p)) + CountOf(j, S, n, p)
        /\ Cardinality(In(to, Jobs, n, p)) = Cardinality(In(nd, Jobs, n, p)) + CountOf(j, S, n, p)
    BY <1>3, <1>5, CountDiffers
  <2>2. /\ In(nd, a.runIds, n, p) = In(nd, c.runIds, n, p)
        /\ In(nd, a.totIds, n, p) = In(nd, c.totIds, n, p)
    BY <1>3, <1>4 DEF In
  <2>3. /\ a.run[n][p] = c.run[n][p] + CountOf(j, S, n, p)
        /\ a.tot[n][p] = c.tot[n][p] + CountOf(j, S, n, p)
    BY <1>4 DEF IsGiven
  <2>4. /\ c.run[n][p] = Cardinality(In(nd, c.runIds, n, p))
        /\ c.tot[n][p] >= Cardinality(In(nd, c.totIds, n, p))
        /\ Exact(c, nd) => c.tot[n][p] = Cardinality(In(nd, Jobs, n, p))
    BY DEF Covers, Exact
  <2>5. /\ c.tot[n][p] \in Nat /\ Cardinality(In(nd, c.totIds, n, p)) \in Nat
        /\ CountOf(j, S, n, p) \in Nat
    BY <1>1, BookTypes, OnTypes, AmountTypes
  <2> QED BY <2>1, <2>2, <2>3, <2>4, <2>5
<1>9. Covers(a, to) BY <1>1, <1>4, <1>6, <1>7, <1>8 DEF Covers
<1>10. ASSUME Exact(c, nd) PROVE Exact(a, to)
  <2>1. \A k \in Jobs : to[k] # {} => k \in a.totIds BY <1>3, <1>4, <1>10 DEF Differ, Exact
  <2> QED BY <1>6, <1>7, <1>8, <1>10, <2>1 DEF Exact
<1> QED BY <1>4, <1>9, <1>10 DEF a, to

\* select_p_job_resume of a job that a user had suspended: it is counted, and
\* what it has was never given back.
LEMMA ResumedCovers ==
    ASSUME NEW nd \in Allocations, NEW j \in Jobs, NEW c, Covers(c, nd)
    PROVE  Covers(Added(c, j, nd[j], FALSE), nd) /\ Added(c, j, nd[j], FALSE).runIds = c.runIds
<1> DEFINE S == nd[j]
           a == Added(c, j, S, FALSE)
           less == [nd EXCEPT ![j] = {}]
<1>1. c \in Books /\ c.runIds \in SUBSET Jobs /\ c.totIds \in SUBSET Jobs
      /\ c.runIds \subseteq c.totIds
  BY BookTypes DEF Covers
<1>2. S \in SUBSET Nodes BY DEF Allocations
<1>3. IsAdded(a, c, j, S, FALSE) BY <1>1, <1>2, AddedNode
<1>4. Differ(nd, less, j, S) /\ less[j] = {} BY <1>2 DEF Differ, Allocations
<1> HIDE DEF a, less, S
<1>5. /\ a \in Books /\ a.runIds = c.runIds /\ a.totIds = c.totIds \cup {j}
      /\ \A n \in Nodes :
            /\ a.mem[n] = c.mem[n] + 0
            /\ a.excl[n] = c.excl[n] + ExclOf(j, S, n)
            /\ \A p \in Parts : /\ a.run[n][p] = c.run[n][p] + 0
                                /\ a.tot[n][p] = c.tot[n][p] + CountOf(j, S, n, p)
  BY <1>3 DEF IsAdded
<1>6. a.totIds \in SUBSET Jobs /\ j \in a.totIds BY <1>1, <1>5
<1>7. ASSUME NEW n \in Nodes
      PROVE  /\ a.mem[n] >= Total(MemOn(n), Has(nd, n))
             /\ a.excl[n] >= Cardinality(ExclIn(nd, a.totIds, n))
  <2>1. Cardinality(ExclIn(nd, a.totIds, n)) = Cardinality(ExclIn(less, a.totIds, n)) + ExclOf(j, S, n)
    BY <1>4, <1>6, ExclDiffers
  <2>2. ExclIn(less, a.totIds, n) = ExclIn(less, c.totIds, n) BY <1>4, <1>5 DEF ExclIn
  <2>3. ExclIn(less, c.totIds, n) \subseteq ExclIn(nd, c.totIds, n) BY <1>1, <1>4 DEF Differ, ExclIn
  <2>4. Cardinality(ExclIn(less, c.totIds, n)) <= Cardinality(ExclIn(nd, c.totIds, n))
    BY <1>1, <2>3, OnTypes, CountLess
  <2>5. /\ c.mem[n] >= Total(MemOn(n), Has(nd, n))
        /\ c.excl[n] >= Cardinality(ExclIn(nd, c.totIds, n))
    BY DEF Covers
  <2>6. /\ c.mem[n] \in Nat /\ c.excl[n] \in Nat /\ ExclOf(j, S, n) \in Nat
        /\ Cardinality(ExclIn(nd, c.totIds, n)) \in Nat
        /\ Cardinality(ExclIn(less, c.totIds, n)) \in Nat
    BY <1>1, <1>2, BookTypes, OnTypes, AmountTypes
  <2>7. a.excl[n] = c.excl[n] + ExclOf(j, S, n) /\ a.mem[n] = c.mem[n] BY <1>5, <2>6
  <2> QED BY <2>1, <2>2, <2>4, <2>5, <2>6, <2>7
<1>8. ASSUME NEW n \in Nodes, NEW p \in Parts
      PROVE  /\ a.run[n][p] = Cardinality(In(nd, a.runIds, n, p))
             /\ a.tot[n][p] >= Cardinality(In(nd, a.totIds, n, p))
  <2>1. Cardinality(In(nd, a.totIds, n, p)) = Cardinality(In(less, a.totIds, n, p)) + CountOf(j, S, n, p)
    BY <1>4, <1>6, CountDiffers
  <2>2. In(less, a.totIds, n, p) = In(less, c.totIds, n, p) BY <1>4, <1>5 DEF In
  <2>3. In(less, c.totIds, n, p) \subseteq In(nd, c.totIds, n, p) BY <1>1, <1>4 DEF Differ, In
  <2>4. Cardinality(In(less, c.totIds, n, p)) <= Cardinality(In(nd, c.totIds, n, p))
    BY <1>1, <2>3, OnTypes, CountLess
  <2>5. /\ c.run[n][p] = Cardinality(In(nd, c.runIds, n, p))
        /\ c.tot[n][p] >= Cardinality(In(nd, c.totIds, n, p))
    BY DEF Covers
  <2>6. /\ c.run[n][p] \in Nat /\ c.tot[n][p] \in Nat /\ CountOf(j, S, n, p) \in Nat
        /\ Cardinality(In(nd, c.totIds, n, p)) \in Nat
        /\ Cardinality(In(less, c.totIds, n, p)) \in Nat
    BY <1>1, <1>2, BookTypes, OnTypes, AmountTypes
  <2>7. a.tot[n][p] = c.tot[n][p] + CountOf(j, S, n, p) /\ a.run[n][p] = c.run[n][p]
    BY <1>5, <2>6
  <2> QED BY <1>5, <2>1, <2>2, <2>4, <2>5, <2>6, <2>7
<1>9. Covers(a, nd) BY <1>1, <1>5, <1>7, <1>8 DEF Covers
<1> QED BY <1>5, <1>9 DEF a, S

\* A call leaves a the amounts of c, less those of job j on the nodes S.
IsTaken(a, c, j, S) ==
    \A n \in Nodes :
       /\ a.mem[n] = Minus(c.mem[n], MemOf(j, S, n))
       /\ a.excl[n] = Minus(c.excl[n], ExclOf(j, S, n))
       /\ \A p \in Parts :
             /\ a.tot[n][p] = Minus(c.tot[n][p], CountOf(j, S, n, p))
             /\ a.run[n][p] = IF CountOf(j, S, n, p) = 1 /\ a.tot[n][p] = 0 THEN 0
                              ELSE Minus(c.run[n][p], IF j \in c.runIds THEN CountOf(j, S, n, p) ELSE 0)

\* What is taken off is there, and the jobs that stay are covered.
LEMMA TakenCovers ==
    ASSUME NEW nd, NEW to, NEW j, NEW S, Differ(nd, to, j, S),
           NEW c, Covers(c, nd), j \in c.totIds, NEW a, IsTaken(a, c, j, S), NEW n \in Nodes
    PROVE  /\ a.mem[n] >= Total(MemOn(n), Has(to, n))
           /\ a.excl[n] >= Cardinality(ExclIn(to, c.totIds, n))
           /\ Exact(c, nd) => /\ a.mem[n] = Total(MemOn(n), Has(to, n))
                              /\ a.excl[n] = Cardinality(ExclIn(to, Jobs, n))
           /\ \A p \in Parts :
                 /\ a.run[n][p] = Cardinality(In(to, c.runIds, n, p))
                 /\ a.tot[n][p] >= Cardinality(In(to, c.totIds, n, p))
                 /\ Exact(c, nd) => a.tot[n][p] = Cardinality(In(to, Jobs, n, p))
<1>1. c \in Books /\ c.runIds \in SUBSET Jobs /\ c.totIds \in SUBSET Jobs
      /\ c.runIds \subseteq c.totIds
  BY BookTypes DEF Covers
<1>2. j \in Jobs /\ S \in SUBSET Nodes BY DEF Differ
<1>3. /\ a.mem[n] >= Total(MemOn(n), Has(to, n))
      /\ Exact(c, nd) => a.mem[n] = Total(MemOn(n), Has(to, n))
  <2>1. Total(MemOn(n), Has(nd, n)) = Total(MemOn(n), Has(to, n)) + MemOf(j, S, n)
    BY MemDiffers
  <2>2. a.mem[n] = Minus(c.mem[n], MemOf(j, S, n)) BY DEF IsTaken
  <2>3. /\ c.mem[n] >= Total(MemOn(n), Has(nd, n))
        /\ Exact(c, nd) => c.mem[n] = Total(MemOn(n), Has(nd, n))
    BY DEF Covers, Exact
  <2>4. c.mem[n] \in Nat /\ Total(MemOn(n), Has(to, n)) \in Nat /\ MemOf(j, S, n) \in Nat
    BY <1>1, <1>2, BookTypes, OnTypes, AmountTypes
  <2> QED BY <2>1, <2>2, <2>3, <2>4 DEF Minus
<1>4. /\ a.excl[n] >= Cardinality(ExclIn(to, c.totIds, n))
      /\ Exact(c, nd) => a.excl[n] = Cardinality(ExclIn(to, Jobs, n))
  <2>1. /\ Cardinality(ExclIn(nd, c.totIds, n)) = Cardinality(ExclIn(to, c.totIds, n)) + ExclOf(j, S, n)
        /\ Cardinality(ExclIn(nd, Jobs, n)) = Cardinality(ExclIn(to, Jobs, n)) + ExclOf(j, S, n)
    BY <1>1, <1>2, ExclDiffers
  <2>2. a.excl[n] = Minus(c.excl[n], ExclOf(j, S, n)) BY DEF IsTaken
  <2>3. /\ c.excl[n] >= Cardinality(ExclIn(nd, c.totIds, n))
        /\ Exact(c, nd) => c.excl[n] = Cardinality(ExclIn(nd, Jobs, n))
    BY DEF Covers, Exact
  <2>4. /\ c.excl[n] \in Nat /\ ExclOf(j, S, n) \in Nat
        /\ Cardinality(ExclIn(to, c.totIds, n)) \in Nat
        /\ Cardinality(ExclIn(to, Jobs, n)) \in Nat
    BY <1>1, <1>2, BookTypes, OnTypes, AmountTypes
  <2> QED BY <2>1, <2>2, <2>3, <2>4 DEF Minus
<1>5. ASSUME NEW p \in Parts
      PROVE  /\ a.run[n][p] = Cardinality(In(to, c.runIds, n, p))
             /\ a.tot[n][p] >= Cardinality(In(to, c.totIds, n, p))
             /\ Exact(c, nd) => a.tot[n][p] = Cardinality(In(to, Jobs, n, p))
  <2> DEFINE amount == CountOf(j, S, n, p)
  <2>1. /\ Cardinality(In(nd, c.totIds, n, p)) = Cardinality(In(to, c.totIds, n, p)) + amount
        /\ Cardinality(In(nd, Jobs, n, p)) = Cardinality(In(to, Jobs, n, p)) + amount
    BY <1>1, <1>2, CountDiffers
  <2>2. /\ j \in c.runIds => Cardinality(In(nd, c.runIds, n, p)) = Cardinality(In(to, c.runIds, n, p)) + amount
        /\ j \notin c.runIds => In(nd, c.runIds, n, p) = In(to, c.runIds, n, p)
    BY <1>1, <1>2, CountDiffers
  <2>3. /\ a.tot[n][p] = Minus(c.tot[n][p], amount)
        /\ a.run[n][p] = IF amount = 1 /\ a.tot[n][p] = 0 THEN 0
                         ELSE Minus(c.run[n][p], IF j \in c.runIds THEN amount ELSE 0)
    BY DEF IsTaken
  <2>4. /\ c.run[n][p] = Cardinality(In(nd, c.runIds, n, p))
        /\ c.tot[n][p] >= Cardinality(In(nd, c.totIds, n, p))
        /\ Exact(c, nd) => c.tot[n][p] = Cardinality(In(nd, Jobs, n, p))
    BY DEF Covers, Exact
  <2>5. /\ c.tot[n][p] \in Nat /\ c.run[n][p] \in Nat /\ amount \in Nat
        /\ Cardinality(In(to, c.totIds, n, p)) \in Nat
        /\ Cardinality(In(to, c.runIds, n, p)) \in Nat
        /\ Cardinality(In(to, Jobs, n, p)) \in Nat
    BY <1>1, <1>2, BookTypes, OnTypes, AmountTypes
  <2>6. Cardinality(In(to, c.runIds, n, p)) <= Cardinality(In(to, c.totIds, n, p))
    <3>1. In(to, c.runIds, n, p) \subseteq In(to, c.totIds, n, p) BY <1>1 DEF In
    <3> QED BY <1>1, <3>1, OnTypes, CountLess
  <2> HIDE DEF amount
  <2>7. /\ a.tot[n][p] >= Cardinality(In(to, c.totIds, n, p))
        /\ Exact(c, nd) => a.tot[n][p] = Cardinality(In(to, Jobs, n, p))
    BY <2>1, <2>3, <2>4, <2>5 DEF Minus
  <2>8. CASE amount = 1 /\ a.tot[n][p] = 0 BY <2>3, <2>5, <2>6, <2>7, <2>8
  <2>9. CASE ~(amount = 1 /\ a.tot[n][p] = 0)
    <3>1. CASE j \in c.runIds BY <2>2, <2>3, <2>4, <2>5, <2>7, <2>9, <3>1 DEF Minus
    <3>2. CASE j \notin c.runIds BY <2>2, <2>3, <2>4, <2>5, <2>7, <2>9, <3>2 DEF Minus
    <3> QED BY <3>1, <3>2
  <2> QED BY <2>8, <2>9
<1> QED BY <1>3, <1>4, <1>5

\* select_p_job_fini of a job that is in the books.
LEMMA ReleasedCovers ==
    ASSUME NEW nd \in Allocations, NEW c, Covers(c, nd), NEW j \in c.totIds
    PROVE  LET a == Removed(c, j, nd[j], TRUE)
               to == [nd EXCEPT ![j] = {}]
           IN  /\ Covers(a, to) /\ (Exact(c, nd) => Exact(a, to))
               /\ \A k \in Jobs : /\ k \in a.runIds <=> k \in c.runIds /\ k # j
                                  /\ k \in a.totIds <=> k \in c.totIds /\ k # j
<1> DEFINE S == nd[j]
           a == Removed(c, j, S, TRUE)
           to == [nd EXCEPT ![j] = {}]
<1>1. c \in Books /\ c.runIds \in SUBSET Jobs /\ c.totIds \in SUBSET Jobs
      /\ c.runIds \subseteq c.totIds /\ j \in Jobs
  BY BookTypes DEF Covers
<1>2. S \in SUBSET Nodes BY <1>1 DEF Allocations
<1>3. IsRemoved(a, c, j, S, TRUE) BY <1>1, <1>2, RemovedNode
<1>4. Differ(nd, to, j, S) /\ to[j] = {} BY <1>1, <1>2 DEF Differ, Allocations
<1> HIDE DEF a, to, S
<1>5. /\ a \in Books /\ a.runIds = c.runIds \ {j} /\ a.totIds = c.totIds \ {j}
      /\ IsTaken(a, c, j, S)
  BY <1>3 DEF IsRemoved, IsTaken
<1>6. ASSUME NEW n \in Nodes
      PROVE  /\ a.mem[n] >= Total(MemOn(n), Has(to, n))
             /\ a.excl[n] >= Cardinality(ExclIn(to, a.totIds, n))
             /\ Exact(c, nd) => /\ a.mem[n] = Total(MemOn(n), Has(to, n))
                                /\ a.excl[n] = Cardinality(ExclIn(to, Jobs, n))
             /\ \A p \in Parts :
                   /\ a.run[n][p] = Cardinality(In(to, a.runIds, n, p))
                   /\ a.tot[n][p] >= Cardinality(In(to, a.totIds, n, p))
                   /\ Exact(c, nd) => a.tot[n][p] = Cardinality(In(to, Jobs, n, p))
  <2>1. ExclIn(to, a.totIds, n) = ExclIn(to, c.totIds, n) BY <1>4, <1>5 DEF ExclIn
  <2>2. \A p \in Parts : /\ In(to, a.runIds, n, p) = In(to, c.runIds, n, p)
                         /\ In(to, a.totIds, n, p) = In(to, c.totIds, n, p)
    BY <1>4, <1>5 DEF In
  <2>3. /\ a.mem[n] >= Total(MemOn(n), Has(to, n))
        /\ a.excl[n] >= Cardinality(ExclIn(to, c.totIds, n))
        /\ Exact(c, nd) => /\ a.mem[n] = Total(MemOn(n), Has(to, n))
                           /\ a.excl[n] = Cardinality(ExclIn(to, Jobs, n))
        /\ \A p \in Parts :
              /\ a.run[n][p] = Cardinality(In(to, c.runIds, n, p))
              /\ a.tot[n][p] >= Cardinality(In(to, c.totIds, n, p))
              /\ Exact(c, nd) => a.tot[n][p] = Cardinality(In(to, Jobs, n, p))
    BY <1>4, <1>5, TakenCovers
  <2> QED BY <2>1, <2>2, <2>3
<1>7. Covers(a, to) BY <1>1, <1>5, <1>6 DEF Covers
<1>8. ASSUME Exact(c, nd) PROVE Exact(a, to)
  <2>1. \A k \in Jobs : to[k] # {} => k \in a.totIds BY <1>4, <1>5, <1>8 DEF Differ, Exact
  <2> QED BY <1>6, <1>8, <2>1 DEF Exact
<1> QED BY <1>5, <1>7, <1>8 DEF a, to, S

\* A job that is in no book loses nodes.
LEMMA UnbookedCovers ==
    ASSUME NEW c, NEW nd, Covers(c, nd), NEW to, NEW S, NEW j \in Jobs \ c.totIds,
           Differ(nd, to, j, S)
    PROVE  Covers(c, to)
<1>1. c \in Books /\ c.runIds \in SUBSET Jobs /\ c.totIds \in SUBSET Jobs
      /\ c.runIds \subseteq c.totIds
  BY BookTypes DEF Covers
<1>2. ASSUME NEW n \in Nodes
      PROVE  /\ c.mem[n] >= Total(MemOn(n), Has(to, n))
             /\ c.excl[n] >= Cardinality(ExclIn(to, c.totIds, n))
             /\ \A p \in Parts : /\ c.run[n][p] = Cardinality(In(to, c.runIds, n, p))
                                 /\ c.tot[n][p] >= Cardinality(In(to, c.totIds, n, p))
  <2>1. Total(MemOn(n), Has(nd, n)) = Total(MemOn(n), Has(to, n)) + MemOf(j, S, n)
    BY MemDiffers
  <2>2. /\ Total(MemOn(n), Has(to, n)) \in Nat /\ MemOf(j, S, n) \in Nat /\ c.mem[n] \in Nat
    BY <1>1, BookTypes, OnTypes, AmountTypes DEF Differ
  <2>3. c.mem[n] >= Total(MemOn(n), Has(nd, n)) BY DEF Covers
  <2>4. ExclIn(nd, c.totIds, n) = ExclIn(to, c.totIds, n) BY <1>1, ExclDiffers
  <2>5. \A p \in Parts : /\ In(nd, c.runIds, n, p) = In(to, c.runIds, n, p)
                         /\ In(nd, c.totIds, n, p) = In(to, c.totIds, n, p)
    <3> TAKE p \in Parts
    <3>1. j \notin c.runIds /\ j \notin c.totIds BY <1>1
    <3> QED BY <1>1, <3>1, CountDiffers
  <2>6. c.mem[n] >= Total(MemOn(n), Has(to, n)) BY <2>1, <2>2, <2>3
  <2>7. c.excl[n] >= Cardinality(ExclIn(to, c.totIds, n)) BY <2>4 DEF Covers
  <2>8. \A p \in Parts : /\ c.run[n][p] = Cardinality(In(to, c.runIds, n, p))
                         /\ c.tot[n][p] >= Cardinality(In(to, c.totIds, n, p))
    BY <2>5 DEF Covers
  <2> QED BY <2>6, <2>7, <2>8
<1> QED BY <1>1, <1>2 DEF Covers

\* select_p_job_fini of one that is in no book, since a user suspended it.
LEMMA GoneCovers ==
    ASSUME NEW nd \in Allocations, NEW c, Covers(c, nd), NEW j \in Jobs \ c.totIds
    PROVE  LET to == [nd EXCEPT ![j] = {}]
           IN  Covers(c, to) /\ (Exact(c, nd) => Exact(c, to))
<1> DEFINE to == [nd EXCEPT ![j] = {}]
<1>1. Differ(nd, to, j, nd[j]) BY DEF Differ, Allocations
<1>2. Covers(c, to) BY <1>1, UnbookedCovers
<1>3. ASSUME Exact(c, nd) PROVE Exact(c, to)
  <2>1. nd[j] = {} BY <1>3 DEF Exact
  <2>2. to = nd BY <2>1 DEF Allocations
  <2> QED BY <1>3, <2>2
<1> QED BY <1>2, <1>3

\* select_p_job_resized: the ids stay.
LEMMA ShrunkCovers ==
    ASSUME NEW nd \in Allocations, NEW c, Covers(c, nd), NEW j \in Jobs, NEW m \in nd[j]
    PROVE  LET a == RemovedFromOne(c, j, m)
               to == [nd EXCEPT ![j] = @ \ {m}]
           IN  /\ Covers(a, to) /\ (Exact(c, nd) => Exact(a, to))
               /\ a.runIds = c.runIds
<1> DEFINE r == Removed(c, j, {m}, TRUE)
           a == RemovedFromOne(c, j, m)
           to == [nd EXCEPT ![j] = @ \ {m}]
<1>1. c \in Books /\ c.runIds \in SUBSET Jobs /\ c.totIds \in SUBSET Jobs
      /\ c.runIds \subseteq c.totIds
  BY BookTypes DEF Covers
<1>2. {m} \in SUBSET Nodes BY DEF Allocations
<1>3. Differ(nd, to, j, {m}) BY <1>2 DEF Differ, Allocations
<1>4. CASE j \in c.totIds
  <2>1. IsRemoved(r, c, j, {m}, TRUE) BY <1>1, <1>2, <1>4, RemovedNode
  <2>2. a = [r EXCEPT !.runIds = c.runIds, !.totIds = c.totIds] BY <1>4 DEF RemovedFromOne
  <2> HIDE DEF a, r, to
  <2>3. r \in Books /\ IsTaken(r, c, j, {m}) BY <2>1 DEF IsRemoved, IsTaken
  <2>4. /\ a \in Books /\ a.runIds = c.runIds /\ a.totIds = c.totIds
        /\ a.mem = r.mem /\ a.excl = r.excl /\ a.run = r.run /\ a.tot = r.tot
    BY <1>1, <2>2, <2>3, OtherIds DEF Books
  <2>5. IsTaken(a, c, j, {m}) BY <2>3, <2>4 DEF IsTaken
  <2>6. ASSUME NEW n \in Nodes
        PROVE  /\ a.mem[n] >= Total(MemOn(n), Has(to, n))
               /\ a.excl[n] >= Cardinality(ExclIn(to, c.totIds, n))
               /\ Exact(c, nd) => /\ a.mem[n] = Total(MemOn(n), Has(to, n))
                                  /\ a.excl[n] = Cardinality(ExclIn(to, Jobs, n))
               /\ \A p \in Parts :
                     /\ a.run[n][p] = Cardinality(In(to, c.runIds, n, p))
                     /\ a.tot[n][p] >= Cardinality(In(to, c.totIds, n, p))
                     /\ Exact(c, nd) => a.tot[n][p] = Cardinality(In(to, Jobs, n, p))
    BY <1>3, <1>4, <2>5, TakenCovers
  <2>7. Covers(a, to) BY <1>1, <2>4, <2>6 DEF Covers
  <2>8. ASSUME Exact(c, nd) PROVE Exact(a, to)
    <3>1. \A k \in Jobs : to[k] # {} => k \in a.totIds BY <1>3, <1>4, <2>4, <2>8 DEF Differ, Exact
    <3> QED BY <2>6, <2>8, <3>1 DEF Exact
  <2> QED BY <2>4, <2>7, <2>8 DEF a, to
<1>5. CASE j \notin c.totIds
  <2>1. a = c BY <1>5 DEF RemovedFromOne
  <2> HIDE DEF a, to
  <2>2. ~Exact(c, nd) BY <1>5 DEF Exact
  <2>3. Covers(c, to) BY <1>3, <1>5, UnbookedCovers
  <2> QED BY <2>1, <2>2, <2>3 DEF a, to
<1> QED BY <1>4, <1>5

\* select_p_job_suspend by a user: the counts of those that run and of those
\* that want their nodes for themselves, and the ids.
LEMMA SuspendedCovers ==
    ASSUME NEW nd \in Allocations, NEW c, Covers(c, nd), NEW j \in c.totIds
    PROVE  LET a == Removed(c, j, nd[j], FALSE)
           IN  Covers(a, nd) /\ a.runIds = c.runIds \ {j}
<1> DEFINE S == nd[j]
           a == Removed(c, j, S, FALSE)
           less == [nd EXCEPT ![j] = {}]
<1>1. c \in Books /\ c.runIds \in SUBSET Jobs /\ c.totIds \in SUBSET Jobs
      /\ c.runIds \subseteq c.totIds /\ j \in Jobs
  BY BookTypes DEF Covers
<1>2. S \in SUBSET Nodes BY <1>1 DEF Allocations
<1>3. IsRemoved(a, c, j, S, FALSE) BY <1>1, <1>2, RemovedNode
<1>4. Differ(nd, less, j, S) /\ less[j] = {} BY <1>1, <1>2 DEF Differ, Allocations
<1> HIDE DEF a, less, S
<1>5. /\ a \in Books /\ a.runIds = c.runIds \ {j} /\ a.totIds = c.totIds \ {j}
      /\ \A n \in Nodes :
            /\ a.mem[n] = Minus(c.mem[n], 0)
            /\ a.excl[n] = Minus(c.excl[n], ExclOf(j, S, n))
            /\ \A p \in Parts :
                  /\ a.tot[n][p] = Minus(c.tot[n][p], 0)
                  /\ a.run[n][p] = Minus(c.run[n][p], IF j \in c.runIds THEN CountOf(j, S, n, p) ELSE 0)
  BY <1>3 DEF IsRemoved
<1>6. a.totIds \in SUBSET Jobs /\ a.runIds \in SUBSET Jobs /\ j \notin a.totIds /\ j \notin a.runIds
      /\ a.runIds \subseteq a.totIds
  BY <1>1, <1>5
<1>7. ASSUME NEW n \in Nodes
      PROVE  /\ a.mem[n] >= Total(MemOn(n), Has(nd, n))
             /\ a.excl[n] >= Cardinality(ExclIn(nd, a.totIds, n))
  <2>1. Cardinality(ExclIn(nd, c.totIds, n)) = Cardinality(ExclIn(less, c.totIds, n)) + ExclOf(j, S, n)
    BY <1>1, <1>4, ExclDiffers
  <2>2. ExclIn(nd, a.totIds, n) = ExclIn(less, a.totIds, n) BY <1>4, <1>6, ExclDiffers
  <2>3. ExclIn(less, a.totIds, n) = ExclIn(less, c.totIds, n) BY <1>4, <1>5 DEF ExclIn
  <2>4. /\ c.mem[n] >= Total(MemOn(n), Has(nd, n))
        /\ c.excl[n] >= Cardinality(ExclIn(nd, c.totIds, n))
    BY DEF Covers
  <2>5. /\ c.mem[n] \in Nat /\ c.excl[n] \in Nat /\ ExclOf(j, S, n) \in Nat
        /\ Cardinality(ExclIn(less, c.totIds, n)) \in Nat
    BY <1>1, <1>2, BookTypes, OnTypes, AmountTypes
  <2>6. a.excl[n] = Minus(c.excl[n], ExclOf(j, S, n)) /\ a.mem[n] = c.mem[n]
    BY <1>5, <2>5 DEF Minus
  <2> QED BY <2>1, <2>2, <2>3, <2>4, <2>5, <2>6 DEF Minus
<1>8. ASSUME NEW n \in Nodes, NEW p \in Parts
      PROVE  /\ a.run[n][p] = Cardinality(In(nd, a.runIds, n, p))
             /\ a.tot[n][p] >= Cardinality(In(nd, a.totIds, n, p))
  <2>1. /\ j \in c.runIds => Cardinality(In(nd, c.runIds, n, p)) = Cardinality(In(less, c.runIds, n, p)) + CountOf(j, S, n, p)
        /\ j \notin c.runIds => In(nd, c.runIds, n, p) = In(less, c.runIds, n, p)
    BY <1>1, <1>4, CountDiffers
  <2>2. In(nd, a.runIds, n, p) = In(less, a.runIds, n, p) BY <1>4, <1>6, CountDiffers
  <2>3. In(less, a.runIds, n, p) = In(less, c.runIds, n, p) BY <1>4, <1>5 DEF In
  <2>4. Cardinality(In(nd, a.totIds, n, p)) <= Cardinality(In(nd, c.totIds, n, p))
    <3>1. In(nd, a.totIds, n, p) \subseteq In(nd, c.totIds, n, p) BY <1>5 DEF In
    <3> QED BY <1>1, <3>1, OnTypes, CountLess
  <2>5. /\ c.run[n][p] = Cardinality(In(nd, c.runIds, n, p))
        /\ c.tot[n][p] >= Cardinality(In(nd, c.totIds, n, p))
    BY DEF Covers
  <2>6. /\ c.run[n][p] \in Nat /\ c.tot[n][p] \in Nat /\ CountOf(j, S, n, p) \in Nat
        /\ Cardinality(In(less, c.runIds, n, p)) \in Nat
        /\ Cardinality(In(nd, c.totIds, n, p)) \in Nat
        /\ Cardinality(In(nd, a.totIds, n, p)) \in Nat
    BY <1>1, <1>2, <1>6, BookTypes, OnTypes, AmountTypes
  <2>7. a.run[n][p] = Minus(c.run[n][p], IF j \in c.runIds THEN CountOf(j, S, n, p) ELSE 0)
    BY <1>5
  <2>8. a.run[n][p] = Cardinality(In(less, c.runIds, n, p))
    BY <2>1, <2>5, <2>6, <2>7 DEF Minus
  <2>9. a.tot[n][p] = c.tot[n][p] BY <1>5, <2>6 DEF Minus
  <2> QED BY <2>2, <2>3, <2>4, <2>5, <2>6, <2>8, <2>9
<1>9. Covers(a, nd) BY <1>5, <1>6, <1>7, <1>8 DEF Covers
<1> QED BY <1>5, <1>9 DEF a, S

-----------------------------------------------------------------------------
(* The inductive invariant *)

Runs(j) == state[j] \in {"running", "gang"}

\* A job with nodes is active and has all that it was granted and did not give
\* up; what it was granted is in its partition.
JobsInv == \A j \in Jobs :
    /\ nodes[j] # {} => Active(j) /\ granted[j] \subseteq nodes[j]
    /\ granted[j] \subseteq PartNodes[Part[j]]

\* The books c know every job that runs on what it was granted; they know all
\* of them, and nothing else, until a user suspends one.
Knows(c) ==
    /\ Covers(c, nodes)
    /\ \A j \in Jobs : Runs(j) /\ nodes[j] \cap granted[j] # {} => j \in c.runIds
    /\ ~drifted => /\ Exact(c, nodes)
                   /\ \A j \in Jobs : nodes[j] # {} =>
                         (j \in c.runIds <=> state[j] # "suspended")

BooksInv == cr # NoBooks => Knows(cr)

\* The jobs that hold node n as select_p_job_test granted it, and those of them
\* that run.
Holders(n) == {j \in Jobs : n \in nodes[j] /\ n \in granted[j]}
RunningHolders(n) == {j \in Holders(n) : state[j] # "suspended"}

AloneInv == \A n \in Nodes : \A j, k \in RunningHolders(n) : j # k => j \notin Exclusive
FitsInv == \A n \in Nodes : Total(MemOn(n), Holders(n)) <= RealMemory[n]
ShareInv == \A n \in Nodes : \A S \in SUBSET RunningHolders(n) :
    S # {} => \E j \in S : Cardinality(S) <= Share(j)

SelectInv == TypeOK /\ JobsInv /\ BooksInv /\ AloneInv /\ FitsInv /\ ShareInv

\* _init_node_cr writes books that are exact.
LEMMA RebuiltKnows ==
    ASSUME TypeOK, JobsInv
    PROVE  /\ Knows(Rebuilt) /\ Exact(Rebuilt, nodes)
           /\ Rebuilt.runIds = {j \in Jobs : Runs(j)}
           /\ Rebuilt.totIds = {j \in Jobs : Active(j)}
<1> DEFINE active == {j \in Jobs : Active(j)}
           On1(n) == {j \in active : n \in nodes[j]}
           In1(n, S, p) == {j \in S : p = Part[j] /\ n \in PartNodes[p]}
           counted == {j \in active : state[j] # "suspended"}
           mem == [n \in Nodes |-> Total(MemOn(n), On1(n))]
           excl == [n \in Nodes |-> Cardinality(On1(n) \cap Exclusive)]
           run == [n \in Nodes |-> [p \in Parts |-> Cardinality(In1(n, On1(n) \cap counted, p))]]
           tot == [n \in Nodes |-> [p \in Parts |-> Cardinality(In1(n, On1(n), p))]]
           c == Rebuilt
<1>1. c = [mem |-> mem, excl |-> excl, run |-> run, tot |-> tot,
           runIds |-> counted, totIds |-> active]
  BY DEF Rebuilt
<1>2. /\ c.mem = mem /\ c.excl = excl /\ c.run = run /\ c.tot = tot
      /\ c.runIds = counted /\ c.totIds = active
  BY <1>1
<1>3. \A j \in Jobs : nodes[j] # {} => j \in active BY DEF JobsInv
<1>4. \A n \in Nodes :
         /\ On1(n) = Has(nodes, n)
         /\ On1(n) \cap Exclusive = ExclIn(nodes, active, n)
         /\ ExclIn(nodes, active, n) = ExclIn(nodes, Jobs, n)
  BY <1>3 DEF Has, ExclIn
<1>5. \A n \in Nodes, p \in Parts :
         /\ In1(n, On1(n) \cap counted, p) = In(nodes, counted, n, p)
         /\ In1(n, On1(n), p) = In(nodes, active, n, p)
         /\ In(nodes, active, n, p) = In(nodes, Jobs, n, p)
  BY <1>3 DEF In, Counted
<1>6. counted \in SUBSET Jobs /\ active \in SUBSET Jobs /\ counted \subseteq active OBVIOUS
<1>7. counted = {j \in Jobs : Runs(j)} BY DEF Runs, Active, TypeOK, JobStates
<1> HIDE DEF On1, In1, counted, active, c
<1>8. \A n \in Nodes : /\ mem[n] = Total(MemOn(n), Has(nodes, n))
                       /\ excl[n] = Cardinality(ExclIn(nodes, Jobs, n))
                       /\ excl[n] = Cardinality(ExclIn(nodes, active, n))
                       /\ mem[n] \in Nat /\ excl[n] \in Nat
  BY <1>4, <1>6, OnTypes
<1>9. \A n \in Nodes, p \in Parts :
         /\ run[n][p] = Cardinality(In(nodes, counted, n, p))
         /\ tot[n][p] = Cardinality(In(nodes, active, n, p))
         /\ tot[n][p] = Cardinality(In(nodes, Jobs, n, p))
         /\ run[n][p] \in Nat /\ tot[n][p] \in Nat
  BY <1>5, <1>6, OnTypes
<1>10. mem \in [Nodes -> Nat] /\ excl \in [Nodes -> Nat] BY <1>8
<1>11. run \in PerPart /\ tot \in PerPart BY <1>9 DEF PerPart
<1> HIDE DEF mem, excl, run, tot
<1>12. c \in Books BY <1>1, <1>6, <1>10, <1>11 DEF Books
<1>13. Covers(c, nodes)
  <2>1. c.runIds \subseteq c.totIds BY <1>2, <1>6
  <2>2. ASSUME NEW n \in Nodes
        PROVE  /\ c.mem[n] >= Total(MemOn(n), Has(nodes, n))
               /\ c.excl[n] >= Cardinality(ExclIn(nodes, c.totIds, n))
    BY <1>2, <1>8
  <2>3. ASSUME NEW n \in Nodes, NEW p \in Parts
        PROVE  /\ c.run[n][p] = Cardinality(In(nodes, c.runIds, n, p))
               /\ c.tot[n][p] >= Cardinality(In(nodes, c.totIds, n, p))
    BY <1>2, <1>9
  <2> QED BY <1>12, <2>1, <2>2, <2>3 DEF Covers
<1>14. Exact(c, nodes) BY <1>2, <1>3, <1>8, <1>9 DEF Exact
<1>15. \A j \in Jobs : nodes[j] # {} => (j \in c.runIds <=> state[j] # "suspended")
  BY <1>2, <1>3 DEF counted, active
<1>16. \A j \in Jobs : Runs(j) => j \in c.runIds BY <1>2, <1>7
<1>17. Knows(c) BY <1>13, <1>14, <1>15, <1>16 DEF Knows
<1> QED BY <1>2, <1>7, <1>14, <1>17 DEF c, active

LEMMA CurrentKnows == ASSUME SelectInv PROVE Knows(Current)
BY RebuiltKnows DEF SelectInv, BooksInv, Current

-----------------------------------------------------------------------------
(* Each call keeps the books *)

BooksKept == TypeOK' /\ JobsInv' /\ BooksInv'

LEMMA StartBooks == ASSUME SelectInv, NEW j \in Jobs, Start(j) PROVE BooksKept
<1>0. PICK r \in 0 .. Share(j) - 1 : \E S \in Selectable(Current, j, r) :
         /\ nodes' = [nodes EXCEPT ![j] = S]
         /\ granted' = [granted EXCEPT ![j] = S]
         /\ cr' = Added(Current, j, S, TRUE)
  BY DEF Start
<1>1. PICK S \in Selectable(Current, j, r) :
         /\ nodes' = [nodes EXCEPT ![j] = S]
         /\ granted' = [granted EXCEPT ![j] = S]
         /\ cr' = Added(Current, j, S, TRUE)
  BY <1>0
<1>2. S \in SUBSET Nodes /\ S \subseteq PartNodes[Part[j]]
  BY ConstantTypes DEF Selectable, UsableNodes
<1>3. /\ TypeOK /\ JobsInv /\ state[j] = "pending" /\ state' = [state EXCEPT ![j] = "running"]
      /\ drifted' = drifted /\ suspends' = suspends
  BY DEF SelectInv, Start
<1>4. nodes \in Allocations /\ Idle(nodes, j) BY <1>3 DEF TypeOK, JobsInv, Active, Allocations, Idle
<1>5. Knows(Current) BY CurrentKnows
<1>6. Covers(Current, nodes) BY <1>5 DEF Knows
<1> DEFINE c == Current
<1> HIDE DEF c
<1>7. /\ Covers(cr', nodes') /\ (Exact(c, nodes) => Exact(cr', nodes'))
      /\ \A k \in Jobs : k \in cr'.runIds <=> k \in c.runIds \/ k = j
  <2> DEFINE a == Added(c, j, S, TRUE)
             to == [nodes EXCEPT ![j] = S]
  <2>1. /\ Covers(a, to) /\ (Exact(c, nodes) => Exact(a, to))
        /\ \A k \in Jobs : k \in a.runIds <=> k \in c.runIds \/ k = j
    <3>1. S \in SUBSET Nodes /\ nodes \in Allocations /\ Idle(nodes, j) /\ Covers(c, nodes)
      BY <1>2, <1>4, <1>6 DEF c
    <3> QED BY <3>1, BegunCovers
  <2>2. cr' = a /\ nodes' = to BY <1>1 DEF c
  <2> HIDE DEF a, to
  <2> QED BY <2>1, <2>2
<1>8. TypeOK'
  <2>1. cr' \in Books BY <1>7 DEF Covers
  <2> QED BY <1>1, <1>2, <1>3, <2>1 DEF TypeOK, JobStates
<1>9. JobsInv' BY <1>1, <1>2, <1>3 DEF JobsInv, Active, TypeOK
<1>10. BooksInv'
  <2>1. \A k \in Jobs : Runs(k)' /\ nodes'[k] \cap granted'[k] # {} => k \in cr'.runIds
    BY <1>1, <1>3, <1>5, <1>7 DEF Knows, Runs, TypeOK, c
  <2>2. ~drifted' => /\ Exact(cr', nodes')
                     /\ \A k \in Jobs : nodes'[k] # {} =>
                           (k \in cr'.runIds <=> state'[k] # "suspended")
    BY <1>1, <1>3, <1>5, <1>7 DEF Knows, TypeOK, c
  <2> QED BY <1>7, <2>1, <2>2 DEF BooksInv, Knows
<1> QED BY <1>8, <1>9, <1>10 DEF BooksKept

LEMMA FiniBooks == ASSUME SelectInv, NEW j \in Jobs, Fini(j) PROVE BooksKept
<1>1. PICK s \in {"done", "pending"} : state' = [state EXCEPT ![j] = s] BY DEF Fini
<1>2. /\ TypeOK /\ JobsInv /\ drifted' = drifted /\ suspends' = suspends
      /\ cr' = Removed(Current, j, nodes[j], TRUE)
      /\ nodes' = [nodes EXCEPT ![j] = {}] /\ granted' = [granted EXCEPT ![j] = {}]
  BY DEF SelectInv, Fini
<1>3. nodes \in Allocations BY <1>2 DEF TypeOK, Allocations
<1>4. Knows(Current) BY CurrentKnows
<1>5. Covers(Current, nodes) BY <1>4 DEF Knows
<1> DEFINE c == Current
<1> HIDE DEF c
<1>6. /\ Covers(cr', nodes') /\ (Exact(c, nodes) => Exact(cr', nodes'))
      /\ \A k \in Jobs \ {j} : k \in cr'.runIds <=> k \in c.runIds
  <2>1. CASE j \in c.totIds
    <3> DEFINE a == Removed(c, j, nodes[j], TRUE)
               to == [nodes EXCEPT ![j] = {}]
    <3>1. /\ Covers(a, to) /\ (Exact(c, nodes) => Exact(a, to))
          /\ \A k \in Jobs : k \in a.runIds <=> k \in c.runIds /\ k # j
      BY <1>3, <1>5, <2>1, ReleasedCovers DEF c
    <3>2. cr' = a /\ nodes' = to BY <1>2 DEF c
    <3> HIDE DEF a, to
    <3> QED BY <3>1, <3>2
  <2>2. CASE j \notin c.totIds
    <3>1. cr' = c BY <1>2, <2>2 DEF Removed, c
    <3> QED BY <1>2, <1>3, <1>5, <2>2, <3>1, GoneCovers DEF c
  <2> QED BY <2>1, <2>2
<1>7. TypeOK'
  <2>1. cr' \in Books BY <1>6 DEF Covers
  <2> QED BY <1>1, <1>2, <2>1 DEF TypeOK, JobStates
<1>8. JobsInv' BY <1>1, <1>2 DEF JobsInv, Active, TypeOK
<1>9. BooksInv'
  <2>1. \A k \in Jobs : Runs(k)' /\ nodes'[k] \cap granted'[k] # {} => k \in cr'.runIds
    BY <1>1, <1>2, <1>4, <1>6 DEF Knows, Runs, TypeOK, c
  <2>2. ~drifted' => /\ Exact(cr', nodes')
                     /\ \A k \in Jobs : nodes'[k] # {} =>
                           (k \in cr'.runIds <=> state'[k] # "suspended")
    BY <1>1, <1>2, <1>4, <1>6 DEF Knows, TypeOK, c
  <2> QED BY <1>6, <2>1, <2>2 DEF BooksInv, Knows
<1> QED BY <1>7, <1>8, <1>9 DEF BooksKept

LEMMA GangBooks == ASSUME SelectInv, NEW j \in Jobs, Gang(j) PROVE BooksKept
<1>1. /\ TypeOK /\ JobsInv /\ BooksInv
      /\ nodes' = nodes /\ granted' = granted /\ cr' = cr /\ drifted' = drifted /\ suspends' = suspends
  BY DEF SelectInv, Gang
<1>2. PICK s \in {"running", "gang"} : Runs(j) /\ state' = [state EXCEPT ![j] = s]
  BY DEF Gang, Runs
<1>3. TypeOK' BY <1>1, <1>2 DEF TypeOK, JobStates
<1>4. /\ \A k \in Jobs : Runs(k)' <=> Runs(k)
      /\ \A k \in Jobs : Active(k)' <=> Active(k)
      /\ \A k \in Jobs : state'[k] = "suspended" <=> state[k] = "suspended"
  BY <1>1, <1>2 DEF Runs, Active, TypeOK
<1>5. JobsInv' BY <1>1, <1>4 DEF JobsInv
<1>6. BooksInv'
  <2> SUFFICES ASSUME cr # NoBooks PROVE Knows(cr)' BY <1>1 DEF BooksInv
  <2>1. Knows(cr) BY <1>1 DEF BooksInv
  <2> QED BY <1>1, <1>4, <2>1 DEF Knows
<1> QED BY <1>3, <1>5, <1>6 DEF BooksKept

LEMMA SuspendBooks == ASSUME SelectInv, NEW j \in Jobs, Suspend(j) PROVE BooksKept
<1>1. /\ TypeOK /\ JobsInv /\ state[j] = "running" /\ suspends < MaxSuspends
      /\ nodes' = nodes /\ granted' = granted /\ drifted' = TRUE /\ suspends' = suspends + 1
      /\ cr' = Removed(Current, j, nodes[j], FALSE)
      /\ state' = [state EXCEPT ![j] = "suspended"]
  BY DEF SelectInv, Suspend
<1>2. nodes \in Allocations BY <1>1 DEF TypeOK, Allocations
<1>3. Knows(Current) BY CurrentKnows
<1>4. Covers(Current, nodes) BY <1>3 DEF Knows
<1> DEFINE c == Current
<1> HIDE DEF c
<1>5. Covers(cr', nodes) /\ \A k \in Jobs \ {j} : k \in cr'.runIds <=> k \in c.runIds
  <2>1. CASE j \in c.totIds
    <3>1. /\ Covers(Removed(c, j, nodes[j], FALSE), nodes)
          /\ Removed(c, j, nodes[j], FALSE).runIds = c.runIds \ {j}
      BY <1>2, <1>4, <2>1, SuspendedCovers DEF c
    <3> QED BY <1>1, <3>1 DEF c
  <2>2. CASE j \notin c.totIds BY <1>1, <1>4, <2>2 DEF Removed, c
  <2> QED BY <2>1, <2>2
<1>6. TypeOK'
  <2>1. cr' \in Books BY <1>5 DEF Covers
  <2>2. suspends' \in 0 .. MaxSuspends BY <1>1, SelectAssumption DEF TypeOK
  <2> QED BY <1>1, <2>1, <2>2 DEF TypeOK, JobStates
<1>7. JobsInv' BY <1>1 DEF JobsInv, Active, TypeOK
<1>8. BooksInv'
  <2>1. \A k \in Jobs : Runs(k)' /\ nodes'[k] \cap granted'[k] # {} => k \in cr'.runIds
    BY <1>1, <1>3, <1>5 DEF Knows, Runs, TypeOK, c
  <2> QED BY <1>1, <1>5, <2>1 DEF BooksInv, Knows
<1> QED BY <1>6, <1>7, <1>8 DEF BooksKept

LEMMA ResumeBooks == ASSUME SelectInv, NEW j \in Jobs, Resume(j) PROVE BooksKept
<1>1. /\ TypeOK /\ JobsInv /\ state[j] = "suspended"
      /\ nodes' = nodes /\ granted' = [granted EXCEPT ![j] = {}]
      /\ drifted' = TRUE /\ suspends' = suspends
      /\ cr' = Added(Current, j, nodes[j], FALSE)
      /\ state' = [state EXCEPT ![j] = "running"]
  BY DEF SelectInv, Resume
<1>2. nodes \in Allocations BY <1>1 DEF TypeOK, Allocations
<1>3. Knows(Current) BY CurrentKnows
<1>4. Covers(Current, nodes) BY <1>3 DEF Knows
<1> DEFINE c == Current
<1> HIDE DEF c
<1>5. Covers(cr', nodes) /\ cr'.runIds = c.runIds BY <1>1, <1>2, <1>4, ResumedCovers DEF c
<1>6. TypeOK'
  <2>1. cr' \in Books BY <1>5 DEF Covers
  <2> QED BY <1>1, <2>1 DEF TypeOK, JobStates
<1>7. JobsInv' BY <1>1 DEF JobsInv, Active, TypeOK
<1>8. BooksInv'
  <2>1. \A k \in Jobs : Runs(k)' /\ nodes'[k] \cap granted'[k] # {} => k \in cr'.runIds
    BY <1>1, <1>3, <1>5 DEF Knows, Runs, TypeOK, c
  <2> QED BY <1>1, <1>5, <2>1 DEF BooksInv, Knows
<1> QED BY <1>6, <1>7, <1>8 DEF BooksKept

LEMMA ResizedBooks ==
    ASSUME SelectInv, NEW j \in Jobs, NEW n \in Nodes, Resized(j, n) PROVE BooksKept
<1>1. /\ TypeOK /\ JobsInv /\ Active(j) /\ n \in nodes[j] /\ nodes[j] # {n}
      /\ state' = state /\ drifted' = drifted /\ suspends' = suspends
      /\ nodes' = [nodes EXCEPT ![j] = @ \ {n}]
      /\ granted' = [granted EXCEPT ![j] = @ \ {n}]
      /\ cr' = RemovedFromOne(Current, j, n)
  BY DEF SelectInv, Resized
<1>2. nodes \in Allocations BY <1>1 DEF TypeOK, Allocations
<1>3. Knows(Current) BY CurrentKnows
<1>4. Covers(Current, nodes) BY <1>3 DEF Knows
<1> DEFINE c == Current
<1> HIDE DEF c
<1>5. /\ Covers(cr', nodes') /\ (Exact(c, nodes) => Exact(cr', nodes'))
      /\ cr'.runIds = c.runIds
  <2> DEFINE a == RemovedFromOne(c, j, n)
             to == [nodes EXCEPT ![j] = @ \ {n}]
  <2>1. Covers(a, to) /\ (Exact(c, nodes) => Exact(a, to)) /\ a.runIds = c.runIds
    <3>1. nodes \in Allocations /\ Covers(c, nodes) /\ n \in nodes[j] BY <1>1, <1>2, <1>4 DEF c
    <3> QED BY <3>1, ShrunkCovers
  <2>2. cr' = a /\ nodes' = to BY <1>1 DEF c
  <2> HIDE DEF a, to
  <2> QED BY <2>1, <2>2
<1>6. TypeOK'
  <2>1. cr' \in Books BY <1>5 DEF Covers
  <2> QED BY <1>1, <2>1 DEF TypeOK
<1>7. JobsInv' BY <1>1 DEF JobsInv, Active, TypeOK
<1>8. BooksInv'
  <2>1. \A k \in Jobs : Runs(k)' /\ nodes'[k] \cap granted'[k] # {} => k \in cr'.runIds
    BY <1>1, <1>3, <1>5 DEF Knows, Runs, TypeOK, c
  <2>2. ~drifted' => /\ Exact(cr', nodes')
                     /\ \A k \in Jobs : nodes'[k] # {} =>
                           (k \in cr'.runIds <=> state'[k] # "suspended")
    BY <1>1, <1>3, <1>5 DEF Knows, TypeOK, c
  <2> QED BY <1>5, <2>1, <2>2 DEF BooksInv, Knows
<1> QED BY <1>6, <1>7, <1>8 DEF BooksKept

LEMMA ExpandBooks ==
    ASSUME SelectInv, NEW j \in Jobs, NEW k \in Jobs, JobExpand(j, k) PROVE BooksKept
<1> DEFINE both == nodes[j] \cup nodes[k]
           c == Current
           c1 == Removed(c, j, nodes[j], TRUE)
           c2 == Removed(c1, k, nodes[k], TRUE)
           c3 == Added(c2, k, both, TRUE)
           nd1 == [nodes EXCEPT ![j] = {}]
           nd2 == [nd1 EXCEPT ![k] = {}]
           nd3 == [nd2 EXCEPT ![k] = both]
<1>1. /\ TypeOK /\ JobsInv /\ j # k /\ state[j] = "running" /\ state[k] = "running"
      /\ nodes[k] # {} /\ {j, k} \subseteq c.totIds
      /\ state' = state /\ granted' = granted /\ drifted' = drifted /\ suspends' = suspends
      /\ nodes' = [nodes EXCEPT ![j] = {}, ![k] = both]
      /\ cr' = c3
  BY DEF SelectInv, JobExpand
<1>2. nodes \in Allocations BY <1>1 DEF TypeOK, Allocations
<1>3. /\ nd1 \in Allocations /\ nd1[k] = nodes[k]
      /\ nd2 \in Allocations /\ Idle(nd2, k)
      /\ nodes' = nd3 /\ both \in SUBSET Nodes
  BY <1>1, <1>2 DEF Allocations, Idle
<1>4. Knows(Current) BY CurrentKnows
<1>5. Covers(c, nodes) BY <1>4 DEF Knows
<1> HIDE DEF c
<1>6. /\ Covers(c1, nd1) /\ (Exact(c, nodes) => Exact(c1, nd1))
      /\ \A i \in Jobs : /\ i \in c1.runIds <=> i \in c.runIds /\ i # j
                         /\ i \in c1.totIds <=> i \in c.totIds /\ i # j
  <2>1. j \in c.totIds BY <1>1
  <2> QED BY <1>2, <1>5, <2>1, ReleasedCovers
<1> HIDE DEF c1, nd1, both
<1>7. /\ Covers(c2, nd2) /\ (Exact(c1, nd1) => Exact(c2, nd2))
      /\ \A i \in Jobs : i \in c2.runIds <=> i \in c1.runIds /\ i # k
  <2>1. k \in c1.totIds BY <1>1, <1>6
  <2>2. c2 = Removed(c1, k, nd1[k], TRUE) BY <1>3
  <2> HIDE DEF c2
  <2>3. /\ Covers(Removed(c1, k, nd1[k], TRUE), nd2)
        /\ Exact(c1, nd1) => Exact(Removed(c1, k, nd1[k], TRUE), nd2)
        /\ \A i \in Jobs : i \in Removed(c1, k, nd1[k], TRUE).runIds <=> i \in c1.runIds /\ i # k
    <3>1. nd1 \in Allocations /\ Covers(c1, nd1) /\ k \in c1.totIds BY <1>3, <1>6, <2>1
    <3> QED BY <3>1, ReleasedCovers
  <2> QED BY <2>2, <2>3
<1> HIDE DEF c2, nd2
<1>8. /\ Covers(c3, nd3) /\ (Exact(c2, nd2) => Exact(c3, nd3))
      /\ \A i \in Jobs : i \in c3.runIds <=> i \in c2.runIds \/ i = k
  BY <1>3, <1>7, BegunCovers
<1> HIDE DEF c3, nd3
<1>9. TypeOK'
  <2>1. cr' \in Books BY <1>1, <1>8 DEF Covers
  <2> QED BY <1>1, <1>3, <2>1 DEF TypeOK
<1>10. JobsInv' BY <1>1 DEF JobsInv, Active, TypeOK, both
<1>11. BooksInv'
  <2>1. \A i \in Jobs : i \in cr'.runIds <=> (i \in c.runIds /\ i # j) \/ i = k
    BY <1>1, <1>6, <1>7, <1>8
  <2>2. \A i \in Jobs : Runs(i)' /\ nodes'[i] \cap granted'[i] # {} => i \in cr'.runIds
    BY <1>1, <1>4, <2>1 DEF Knows, Runs, TypeOK, c
  <2>3. \A i \in Jobs : ~drifted' /\ nodes'[i] # {} =>
           (i \in cr'.runIds <=> state'[i] # "suspended")
    BY <1>1, <1>4, <2>1 DEF Knows, TypeOK, c
  <2>4. ~drifted' => Exact(cr', nodes') BY <1>1, <1>3, <1>4, <1>6, <1>7, <1>8 DEF Knows, c
  <2> QED BY <1>1, <1>3, <1>8, <2>2, <2>3, <2>4 DEF BooksInv, Knows
<1> QED BY <1>9, <1>10, <1>11 DEF BooksKept

LEMMA RestartBooks == ASSUME SelectInv, NodeInit \/ Reconfigure PROVE BooksKept
<1>1. /\ TypeOK /\ JobsInv
      /\ state' = state /\ nodes' = nodes /\ granted' = granted /\ suspends' = suspends
      /\ drifted' = FALSE
      /\ cr' \in {NoBooks, Rebuilt}
  BY DEF SelectInv, NodeInit, Reconfigure
<1>2. /\ Covers(Rebuilt, nodes) /\ Exact(Rebuilt, nodes)
      /\ Rebuilt.runIds = {j \in Jobs : Runs(j)}
  BY <1>1, RebuiltKnows DEF Knows
<1>3. Rebuilt \in Books BY <1>2 DEF Covers
<1>4. TypeOK' BY <1>1, <1>3 DEF TypeOK
<1>5. JobsInv' BY <1>1 DEF JobsInv, Active
<1>6. BooksInv'
  <2> SUFFICES ASSUME cr' = Rebuilt PROVE Knows(cr)' BY <1>1 DEF BooksInv
  <2>1. \A j \in Jobs : Runs(j)' <=> j \in cr'.runIds BY <1>1, <1>2 DEF Runs
  <2>2. \A j \in Jobs : nodes'[j] # {} => (Runs(j)' <=> state'[j] # "suspended")
    BY <1>1 DEF JobsInv, Active, Runs
  <2> QED BY <1>1, <1>2, <2>1, <2>2 DEF Knows
<1> QED BY <1>4, <1>5, <1>6 DEF BooksKept

LEMMA IdleBooks == ASSUME SelectInv, UNCHANGED selectVars PROVE BooksKept
<1>1. TypeOK' BY DEF SelectInv, TypeOK, selectVars
<1>2. JobsInv' BY DEF SelectInv, JobsInv, Active, selectVars
<1>3. BooksInv' BY DEF SelectInv, BooksInv, Knows, Runs, selectVars
<1> QED BY <1>1, <1>2, <1>3 DEF BooksKept

-----------------------------------------------------------------------------
(* Who is let on a node *)

NobodyCrowded == AloneInv' /\ FitsInv' /\ ShareInv'

LEMMA HolderTypes ==
    \A n \in Nodes : /\ Holders(n) \in SUBSET Jobs /\ RunningHolders(n) \in SUBSET Holders(n)
                     /\ Holders(n)' \in SUBSET Jobs /\ RunningHolders(n)' \in SUBSET Holders(n)'
BY DEF Holders, RunningHolders

\* Fewer holders crowd nobody.
LEMMA FewerHolders ==
    ASSUME SelectInv,
           \A n \in Nodes : Holders(n)' \subseteq Holders(n) /\ RunningHolders(n)' \subseteq RunningHolders(n)
    PROVE  NobodyCrowded
<1>1. AloneInv' BY DEF SelectInv, AloneInv
<1>2. FitsInv'
  <2> SUFFICES ASSUME NEW n \in Nodes PROVE Total(MemOn(n), Holders(n)') <= RealMemory[n]
    BY DEF FitsInv
  <2>1. /\ Holders(n) \in SUBSET Jobs /\ Holders(n)' \in SUBSET Holders(n)
        /\ Holders(n)' \in SUBSET Jobs
    BY HolderTypes
  <2>2. Total(MemOn(n), Holders(n)') <= Total(MemOn(n), Holders(n)) BY <2>1, CountLess
  <2>3. Total(MemOn(n), Holders(n)) <= RealMemory[n] BY DEF SelectInv, FitsInv
  <2>4. /\ Total(MemOn(n), Holders(n)') \in Nat /\ Total(MemOn(n), Holders(n)) \in Nat
        /\ RealMemory[n] \in Nat
    BY <2>1, CountType, ConstantTypes
  <2> QED BY <2>2, <2>3, <2>4
<1>3. ShareInv' BY DEF SelectInv, ShareInv
<1> QED BY <1>1, <1>2, <1>3 DEF NobodyCrowded

\* The jobs that the books know to run on a node are as many as they count.
LEMMA RunningAtMost ==
    ASSUME NEW c, NEW nd, Covers(c, nd), NEW n \in Nodes, NEW T \in SUBSET c.runIds,
           \A k \in T : n \in nd[k] /\ n \in PartNodes[Part[k]]
    PROVE  Cardinality(T) <= Total(c.run[n], Parts) /\ Total(c.run[n], Parts) \in Nat
<1> DEFINE f == c.run[n]
<1>1. c \in Books /\ c.runIds \in SUBSET Jobs /\ T \in SUBSET Jobs BY BookTypes DEF Covers
<1>2. \A p \in Parts : f[p] \in Nat /\ f[p] = Cardinality(In(nd, c.runIds, n, p))
  BY <1>1, BookTypes DEF Covers
<1>3. Summable(f, Parts) BY <1>2, ConstantTypes DEF Summable
<1>4. IsFiniteSet(T) /\ \A k \in T : Part[k] \in Parts BY <1>1, CountType, ConstantTypes
<1>5. ASSUME NEW p \in Parts PROVE Cardinality({k \in T : Part[k] = p}) <= f[p]
  <2>1. {k \in T : Part[k] = p} \in SUBSET In(nd, c.runIds, n, p) BY DEF In, Counted
  <2>2. In(nd, c.runIds, n, p) \in SUBSET Jobs BY <1>1 DEF In
  <2>3. Cardinality({k \in T : Part[k] = p}) <= Cardinality(In(nd, c.runIds, n, p))
    BY <2>1, <2>2, CountLess
  <2> QED BY <1>2, <2>3
<1> HIDE DEF f
<1>6. Cardinality(T) <= Total(f, Parts) BY <1>3, <1>4, <1>5, TotalCovers
<1>7. Total(f, Parts) \in Nat BY <1>3, TotalType
<1> QED BY <1>6, <1>7 DEF f

\* What _job_count_bitmap has found of a node it lets a job have.
LEMMA UsableRoom ==
    ASSUME SelectInv, NEW j \in Jobs, NEW n \in Nodes, NEW r \in Nat, Usable(Current, j, n, r)
    PROVE  /\ Mem[j][n] = 0 \/ Total(MemOn(n), Holders(n)) + Mem[j][n] <= RealMemory[n]
           /\ \A k \in RunningHolders(n) : k \notin Exclusive
           /\ Cardinality(RunningHolders(n)) <= r
<1> DEFINE c == Current
<1>1. Knows(c) /\ TypeOK /\ JobsInv BY CurrentKnows DEF SelectInv
<1>2. /\ Mem[j][n] = 0 \/ c.mem[n] + Mem[j][n] <= RealMemory[n]
      /\ c.excl[n] = 0 /\ Total(c.run[n], Parts) <= r
  BY DEF Usable
<1> HIDE DEF c
<1>3. Covers(c, nodes) /\ c \in Books /\ c.runIds \in SUBSET Jobs /\ c.totIds \in SUBSET Jobs
  BY <1>1, BookTypes DEF Knows, Covers
<1>4. Holders(n) \in SUBSET Jobs /\ RunningHolders(n) \in SUBSET Jobs BY HolderTypes
<1>5. RunningHolders(n) \subseteq c.runIds
  <2> SUFFICES ASSUME NEW k \in RunningHolders(n) PROVE k \in c.runIds OBVIOUS
  <2>1. k \in Jobs /\ n \in nodes[k] \cap granted[k] /\ state[k] # "suspended"
    BY DEF RunningHolders, Holders
  <2>2. Runs(k) BY <1>1, <2>1 DEF JobsInv, Active, Runs
  <2> QED BY <1>1, <2>1, <2>2 DEF Knows
<1>6. Mem[j][n] = 0 \/ Total(MemOn(n), Holders(n)) + Mem[j][n] <= RealMemory[n]
  <2>1. Holders(n) \in SUBSET Has(nodes, n) /\ Has(nodes, n) \in SUBSET Jobs
    BY <1>4 DEF Holders, Has
  <2>2. Total(MemOn(n), Holders(n)) <= Total(MemOn(n), Has(nodes, n)) BY <2>1, CountLess
  <2>3. Total(MemOn(n), Has(nodes, n)) <= c.mem[n] BY <1>3 DEF Covers
  <2>4. /\ Total(MemOn(n), Holders(n)) \in Nat /\ Total(MemOn(n), Has(nodes, n)) \in Nat
        /\ c.mem[n] \in Nat /\ Mem[j][n] \in Nat /\ RealMemory[n] \in Nat
    BY <1>3, <1>4, <2>1, BookTypes, CountType, ConstantTypes
  <2> QED BY <1>2, <2>2, <2>3, <2>4
<1>7. ASSUME NEW k \in RunningHolders(n), k \in Exclusive PROVE FALSE
  <2>1. k \in ExclIn(nodes, c.totIds, n)
    BY <1>3, <1>5, <1>7 DEF ExclIn, Covers, RunningHolders, Holders
  <2>2. ExclIn(nodes, c.totIds, n) \in SUBSET Jobs BY <1>3, OnTypes
  <2>3. Cardinality(ExclIn(nodes, c.totIds, n)) > 0 BY <2>1, <2>2, CountLeave
  <2>4. c.excl[n] >= Cardinality(ExclIn(nodes, c.totIds, n)) BY <1>3 DEF Covers
  <2>5. c.excl[n] \in Nat /\ Cardinality(ExclIn(nodes, c.totIds, n)) \in Nat
    BY <1>3, BookTypes, OnTypes
  <2> QED BY <1>2, <2>3, <2>4, <2>5
<1>8. Cardinality(RunningHolders(n)) <= r
  <2>1. \A k \in RunningHolders(n) : n \in nodes[k] /\ n \in PartNodes[Part[k]]
    BY <1>1 DEF RunningHolders, Holders, JobsInv
  <2>2. /\ Cardinality(RunningHolders(n)) <= Total(c.run[n], Parts)
        /\ Total(c.run[n], Parts) \in Nat
    BY <1>3, <1>5, <2>1, RunningAtMost
  <2>3. Cardinality(RunningHolders(n)) \in Nat BY <1>4, CountType
  <2> QED BY <1>2, <2>2, <2>3
<1> QED BY <1>6, <1>7, <1>8

LEMMA StartHolders == ASSUME SelectInv, NEW j \in Jobs, Start(j) PROVE NobodyCrowded
<1>1. PICK r \in 0 .. Share(j) - 1 : \E S \in Selectable(Current, j, r) :
         /\ nodes' = [nodes EXCEPT ![j] = S]
         /\ granted' = [granted EXCEPT ![j] = S]
  BY DEF Start
<1>2. PICK S \in Selectable(Current, j, r) :
         /\ nodes' = [nodes EXCEPT ![j] = S]
         /\ granted' = [granted EXCEPT ![j] = S]
  BY <1>1
<1>3. /\ TypeOK /\ JobsInv /\ AloneInv /\ FitsInv /\ ShareInv
      /\ state[j] = "pending" /\ state' = [state EXCEPT ![j] = "running"]
  BY DEF SelectInv, Start
<1>4. r \in Nat /\ r + 1 <= Share(j) /\ (j \in Exclusive => r = 0) BY ConstantTypes DEF Share
<1>5. nodes[j] = {} BY <1>3 DEF JobsInv, Active
<1>6. ASSUME NEW n \in Nodes
      PROVE  /\ j \notin Holders(n)
             /\ n \in S => /\ Holders(n)' = Holders(n) \cup {j}
                           /\ RunningHolders(n)' = RunningHolders(n) \cup {j}
             /\ n \notin S => /\ Holders(n)' = Holders(n)
                              /\ RunningHolders(n)' = RunningHolders(n)
  BY <1>2, <1>3, <1>5 DEF Holders, RunningHolders, TypeOK
<1>7. ASSUME NEW n \in S
      PROVE  /\ n \in Nodes
             /\ Mem[j][n] = 0 \/ Total(MemOn(n), Holders(n)) + Mem[j][n] <= RealMemory[n]
             /\ \A k \in RunningHolders(n) : k \notin Exclusive
             /\ Cardinality(RunningHolders(n)) <= r
  <2>1. n \in PartNodes[Part[j]] /\ Usable(Current, j, n, r) BY DEF Selectable, UsableNodes
  <2>2. n \in Nodes BY <2>1, ConstantTypes
  <2> QED BY <1>4, <2>1, <2>2, UsableRoom
<1>8. AloneInv'
  <2> SUFFICES ASSUME NEW n \in Nodes, NEW i \in RunningHolders(n)', NEW k \in RunningHolders(n)',
                      i # k, i \in Exclusive
               PROVE  FALSE
    BY DEF AloneInv
  <2>1. CASE n \notin S
    <3>1. i \in RunningHolders(n) /\ k \in RunningHolders(n) BY <1>6, <2>1
    <3> QED BY <1>3, <3>1 DEF AloneInv
  <2>2. CASE n \in S
    <3>1. i \in RunningHolders(n) \cup {j} /\ k \in RunningHolders(n) \cup {j} BY <1>6, <2>2
    <3>2. i = j /\ k \in RunningHolders(n) BY <1>7, <2>2, <3>1
    <3>3. Cardinality(RunningHolders(n)) <= 0 BY <1>4, <1>7, <2>2, <3>2
    <3>4. RunningHolders(n) \in SUBSET Jobs BY HolderTypes
    <3>5. Cardinality(RunningHolders(n)) > 0 BY <3>2, <3>4, CountLeave
    <3> QED BY <3>3, <3>4, <3>5, CountType
  <2> QED BY <2>1, <2>2
<1>9. FitsInv'
  <2> SUFFICES ASSUME NEW n \in Nodes PROVE Total(MemOn(n), Holders(n)') <= RealMemory[n]
    BY DEF FitsInv
  <2>1. Total(MemOn(n), Holders(n)) <= RealMemory[n] BY <1>3 DEF FitsInv
  <2>2. CASE n \notin S
    <3>1. Holders(n)' = Holders(n) BY <1>6, <2>2
    <3> QED BY <2>1, <3>1
  <2>3. CASE n \in S
    <3>1. Holders(n)' = Holders(n) \cup {j} /\ j \in Jobs \ Holders(n) BY <1>6, <2>3
    <3>2. Holders(n) \in SUBSET Jobs BY HolderTypes
    <3>3. Total(MemOn(n), Holders(n) \cup {j}) = Total(MemOn(n), Holders(n)) + Mem[j][n]
      BY <3>1, <3>2, CountJoin
    <3>4. Total(MemOn(n), Holders(n)) \in Nat /\ Mem[j][n] \in Nat /\ RealMemory[n] \in Nat
      BY <3>2, CountType, ConstantTypes
    <3>5. Mem[j][n] = 0 \/ Total(MemOn(n), Holders(n)) + Mem[j][n] <= RealMemory[n]
      BY <1>7, <2>3
    <3>6. Total(MemOn(n), Holders(n)) + Mem[j][n] <= RealMemory[n] BY <2>1, <3>4, <3>5
    <3> QED BY <3>1, <3>3, <3>6
  <2> QED BY <2>2, <2>3
<1>10. ShareInv'
  <2> SUFFICES ASSUME NEW n \in Nodes, NEW T \in SUBSET (RunningHolders(n)'), T # {}
               PROVE  \E k \in T : Cardinality(T) <= Share(k)
    BY DEF ShareInv
  <2>1. RunningHolders(n) \in SUBSET Jobs BY HolderTypes
  <2>2. CASE j \notin T
    <3>1. T \in SUBSET RunningHolders(n) BY <1>6, <2>2
    <3> QED BY <1>3, <3>1 DEF ShareInv
  <2>3. CASE j \in T
    <3>1. n \in S /\ RunningHolders(n)' = RunningHolders(n) \cup {j}
      BY <1>6, <2>3 DEF RunningHolders, Holders
    <3>2. T \ {j} \in SUBSET RunningHolders(n) /\ T \in SUBSET Jobs BY <2>1, <3>1
    <3>3. Cardinality(T \ {j}) <= Cardinality(RunningHolders(n)) BY <2>1, <3>2, CountLess
    <3>4. Cardinality(T \ {j}) = Cardinality(T) - 1 BY <2>3, <3>2, CountLeave
    <3>5. Cardinality(RunningHolders(n)) <= r BY <1>7, <3>1
    <3>6. Cardinality(T) \in Nat /\ Cardinality(RunningHolders(n)) \in Nat
      BY <2>1, <3>2, CountType
    <3>7. Cardinality(T) <= Share(j) BY <1>4, <3>3, <3>4, <3>5, <3>6, ConstantTypes
    <3> QED BY <2>3, <3>7
  <2> QED BY <2>2, <2>3
<1> QED BY <1>8, <1>9, <1>10 DEF NobodyCrowded

\* No other call lets a job on a node.
LEMMA OtherHolders ==
    ASSUME SelectInv,
           \/ \E j \in Jobs : Fini(j) \/ Gang(j) \/ Suspend(j) \/ Resume(j)
           \/ \E j \in Jobs, n \in Nodes : Resized(j, n)
           \/ \E j, k \in Jobs : JobExpand(j, k)
           \/ NodeInit \/ Reconfigure \/ UNCHANGED selectVars
    PROVE  NobodyCrowded
<1>1. TypeOK /\ JobsInv BY DEF SelectInv
<1>2. SUFFICES ASSUME NEW n \in Nodes
               PROVE  /\ Holders(n)' \subseteq Holders(n)
                      /\ RunningHolders(n)' \subseteq RunningHolders(n)
  BY FewerHolders
<1>3. ASSUME NEW j \in Jobs, Fini(j) \/ Gang(j) \/ Suspend(j) \/ Resume(j)
      PROVE  /\ Holders(n)' \subseteq Holders(n)
             /\ RunningHolders(n)' \subseteq RunningHolders(n)
  <2>1. CASE Fini(j) BY <1>1, <2>1 DEF Fini, Holders, RunningHolders, TypeOK
  <2>2. CASE Gang(j) BY <1>1, <2>2 DEF Gang, Holders, RunningHolders, TypeOK
  <2>3. CASE Suspend(j) BY <1>1, <2>3 DEF Suspend, Holders, RunningHolders, TypeOK
  <2>4. CASE Resume(j) BY <1>1, <2>4 DEF Resume, Holders, RunningHolders, TypeOK
  <2> QED BY <1>3, <2>1, <2>2, <2>3, <2>4
<1>4. ASSUME NEW j \in Jobs, NEW m \in Nodes, Resized(j, m)
      PROVE  /\ Holders(n)' \subseteq Holders(n)
             /\ RunningHolders(n)' \subseteq RunningHolders(n)
  BY <1>1, <1>4 DEF Resized, Holders, RunningHolders, TypeOK
<1>5. ASSUME NEW j \in Jobs, NEW k \in Jobs, JobExpand(j, k)
      PROVE  /\ Holders(n)' \subseteq Holders(n)
             /\ RunningHolders(n)' \subseteq RunningHolders(n)
  <2>1. /\ state' = state /\ granted' = granted /\ nodes[k] # {} /\ j # k
        /\ nodes' = [nodes EXCEPT ![j] = {}, ![k] = nodes[j] \cup nodes[k]]
    BY <1>5 DEF JobExpand
  <2>2. granted[k] \subseteq nodes[k] BY <1>1, <2>1 DEF JobsInv
  <2>3. \A i \in Jobs : n \in nodes'[i] /\ n \in granted[i] => n \in nodes[i]
    BY <1>1, <2>1, <2>2 DEF TypeOK
  <2>4. Holders(n)' \subseteq Holders(n) BY <2>1, <2>3 DEF Holders
  <2>5. RunningHolders(n)' \subseteq RunningHolders(n)
    <3> SUFFICES ASSUME NEW i \in RunningHolders(n)' PROVE i \in RunningHolders(n) OBVIOUS
    <3>1. i \in Holders(n)' /\ state'[i] # "suspended" BY DEF RunningHolders
    <3> QED BY <2>1, <2>4, <3>1 DEF RunningHolders
  <2> QED BY <2>4, <2>5
<1>6. CASE NodeInit \/ Reconfigure \/ UNCHANGED selectVars
  BY <1>6 DEF NodeInit, Reconfigure, selectVars, Holders, RunningHolders
<1>7. CASE \E j \in Jobs : Fini(j) \/ Gang(j) \/ Suspend(j) \/ Resume(j) BY <1>3, <1>7
<1>8. CASE \E j \in Jobs, m \in Nodes : Resized(j, m) BY <1>4, <1>8
<1>9. CASE \E j, k \in Jobs : JobExpand(j, k) BY <1>5, <1>9
<1> QED BY <1>6, <1>7, <1>8, <1>9

-----------------------------------------------------------------------------
(* The theorems *)

LEMMA InitSelectInv == Init => SelectInv
<1> SUFFICES ASSUME Init PROVE SelectInv OBVIOUS
<1>1. TypeOK
  <2>1. MaxSuspends \in Nat BY SelectAssumption
  <2>2. suspends = 0 /\ drifted = FALSE /\ cr = NoBooks BY DEF Init
  <2>3. state \in [Jobs -> JobStates] BY DEF Init, JobStates
  <2>4. nodes \in [Jobs -> SUBSET Nodes] /\ granted \in [Jobs -> SUBSET Nodes] BY DEF Init
  <2>5. suspends \in 0 .. MaxSuspends BY <2>1, <2>2
  <2> QED BY <2>2, <2>3, <2>4, <2>5 DEF TypeOK
<1>2. JobsInv BY DEF Init, JobsInv
<1>3. BooksInv BY DEF Init, BooksInv
<1>4. \A n \in Nodes : Holders(n) = {} /\ RunningHolders(n) = {}
  BY DEF Init, Holders, RunningHolders
<1>5. AloneInv BY <1>4 DEF AloneInv
<1>6. FitsInv
  <2> SUFFICES ASSUME NEW n \in Nodes PROVE Total(MemOn(n), Holders(n)) <= RealMemory[n]
    BY DEF FitsInv
  <2>1. Total(MemOn(n), Holders(n)) = 0 BY <1>4, TotalEmpty
  <2> QED BY <2>1, ConstantTypes
<1>7. ShareInv BY <1>4 DEF ShareInv
<1> QED BY <1>1, <1>2, <1>3, <1>5, <1>6, <1>7 DEF SelectInv

LEMMA StepSelectInv == SelectInv /\ [Next]_selectVars => SelectInv'
<1> SUFFICES ASSUME SelectInv, [Next]_selectVars PROVE BooksKept /\ NobodyCrowded
  BY DEF SelectInv, BooksKept, NobodyCrowded
<1>1. ASSUME NEW j \in Jobs, Start(j) PROVE BooksKept /\ NobodyCrowded
  BY <1>1, StartBooks, StartHolders
<1>2. ASSUME NEW j \in Jobs, Fini(j) PROVE BooksKept /\ NobodyCrowded
  BY <1>2, FiniBooks, OtherHolders
<1>3. ASSUME NEW j \in Jobs, Gang(j) PROVE BooksKept /\ NobodyCrowded
  BY <1>3, GangBooks, OtherHolders
<1>4. ASSUME NEW j \in Jobs, Suspend(j) PROVE BooksKept /\ NobodyCrowded
  BY <1>4, SuspendBooks, OtherHolders
<1>5. ASSUME NEW j \in Jobs, Resume(j) PROVE BooksKept /\ NobodyCrowded
  BY <1>5, ResumeBooks, OtherHolders
<1>6. ASSUME NEW j \in Jobs, NEW n \in Nodes, Resized(j, n) PROVE BooksKept /\ NobodyCrowded
  BY <1>6, ResizedBooks, OtherHolders
<1>7. ASSUME NEW j \in Jobs, NEW k \in Jobs, JobExpand(j, k) PROVE BooksKept /\ NobodyCrowded
  BY <1>7, ExpandBooks, OtherHolders
<1>8. CASE NodeInit \/ Reconfigure BY <1>8, RestartBooks, OtherHolders
<1>9. CASE UNCHANGED selectVars BY <1>9, IdleBooks, OtherHolders
<1> QED BY <1>1, <1>2, <1>3, <1>4, <1>5, <1>6, <1>7, <1>8, <1>9 DEF Next

LEMMA SelectInvHolds == Spec => []SelectInv
BY InitSelectInv, StepSelectInv, PTL DEF Spec

\* TypeOK: the books are books, whatever slurmctld calls.
THEOREM SelectTypesHold == Spec => []TypeOK
<1>1. SelectInv => TypeOK BY DEF SelectInv
<1> QED BY <1>1, SelectInvHolds, PTL

\* The books kept from call to call are those that _init_node_cr would write
\* from the list of jobs, as long as no user suspends a job.
THEOREM BooksLikeRebuilt == Spec => []BooksAsRebuilt
<1>1. ASSUME SelectInv, cr # NoBooks, ~drifted
      PROVE  /\ \A f \in {"mem", "excl", "run", "tot"} : cr[f] = Rebuilt[f]
             /\ \A f \in {"runIds", "totIds"} :
                   {j \in cr[f] : nodes[j] # {}} = {j \in Rebuilt[f] : nodes[j] # {}}
  <2> DEFINE r == Rebuilt
  <2>1. /\ Covers(cr, nodes) /\ Exact(cr, nodes) /\ TypeOK /\ JobsInv
        /\ \A j \in Jobs : nodes[j] # {} => (j \in cr.runIds <=> state[j] # "suspended")
    BY <1>1 DEF SelectInv, BooksInv, Knows
  <2>2. /\ Covers(r, nodes) /\ Exact(r, nodes)
        /\ r.runIds = {j \in Jobs : Runs(j)} /\ r.totIds = {j \in Jobs : Active(j)}
    BY <2>1, RebuiltKnows DEF Knows
  <2> HIDE DEF r
  <2>3. /\ cr \in Books /\ r \in Books
        /\ cr.runIds \in SUBSET Jobs /\ cr.totIds \in SUBSET Jobs
        /\ r.runIds \in SUBSET Jobs /\ r.totIds \in SUBSET Jobs
    BY <2>1, <2>2, BookTypes DEF Covers
  <2>4. cr.mem = r.mem /\ cr.excl = r.excl
    <3>1. \A n \in Nodes : cr.mem[n] = r.mem[n] /\ cr.excl[n] = r.excl[n]
      BY <2>1, <2>2 DEF Exact
    <3>2. /\ cr.mem \in [Nodes -> Nat] /\ cr.excl \in [Nodes -> Nat]
          /\ r.mem \in [Nodes -> Nat] /\ r.excl \in [Nodes -> Nat]
      BY <2>3, BookTypes
    <3> QED BY <3>1, <3>2
  <2>5. \A j \in Jobs : nodes[j] # {} => /\ j \in cr.runIds <=> j \in r.runIds
                                         /\ j \in cr.totIds /\ j \in r.totIds
    BY <2>1, <2>2 DEF JobsInv, Active, Runs, Exact
  <2>6. \A n \in Nodes, p \in Parts : cr.run[n][p] = r.run[n][p] /\ cr.tot[n][p] = r.tot[n][p]
    <3> SUFFICES ASSUME NEW n \in Nodes, NEW p \in Parts
                 PROVE  cr.run[n][p] = r.run[n][p] /\ cr.tot[n][p] = r.tot[n][p]
      OBVIOUS
    <3>1. In(nodes, cr.runIds, n, p) = In(nodes, r.runIds, n, p) BY <2>3, <2>5 DEF In
    <3>2. /\ cr.run[n][p] = Cardinality(In(nodes, cr.runIds, n, p))
          /\ r.run[n][p] = Cardinality(In(nodes, r.runIds, n, p))
      BY <2>1, <2>2 DEF Covers
    <3>3. cr.tot[n][p] = r.tot[n][p] BY <2>1, <2>2 DEF Exact
    <3> QED BY <3>1, <3>2, <3>3
  <2>7. cr.run = r.run /\ cr.tot = r.tot
    <3>1. cr.run \in PerPart /\ cr.tot \in PerPart /\ r.run \in PerPart /\ r.tot \in PerPart
      BY <2>3, BookTypes
    <3> QED BY <2>6, <3>1 DEF PerPart
  <2>8. \A f \in {"mem", "excl", "run", "tot"} : cr[f] = r[f] BY <2>4, <2>7
  <2>9. /\ {j \in cr.runIds : nodes[j] # {}} = {j \in r.runIds : nodes[j] # {}}
        /\ {j \in cr.totIds : nodes[j] # {}} = {j \in r.totIds : nodes[j] # {}}
    BY <2>3, <2>5
  <2> QED BY <2>8, <2>9 DEF r
<1>2. SelectInv => BooksAsRebuilt BY <1>1 DEF BooksAsRebuilt
<1> QED BY <1>2, SelectInvHolds, PTL

\* Nothing is taken off the books that is not there: no "underflow" and no
\* "out of sync" in the log, however often jobs are suspended, shrunk and merged.
THEOREM BooksNeverUnderflow == Spec => []NeverUnderflows
<1>1. ASSUME SelectInv, cr # NoBooks, NEW j \in cr.totIds, NEW n \in nodes[j]
      PROVE  /\ cr.mem[n] >= Mem[j][n]
             /\ j \in Exclusive => cr.excl[n] > 0
             /\ n \in PartNodes[Part[j]] =>
                   /\ cr.tot[n][Part[j]] >= cr.run[n][Part[j]]
                   /\ cr.tot[n][Part[j]] > 0
                   /\ j \in cr.runIds => cr.run[n][Part[j]] > 0
  <2> DEFINE p == Part[j]
  <2>1. Covers(cr, nodes) /\ TypeOK BY <1>1 DEF SelectInv, BooksInv, Knows
  <2>2. /\ cr \in Books /\ cr.runIds \in SUBSET Jobs /\ cr.totIds \in SUBSET Jobs
        /\ cr.runIds \subseteq cr.totIds
    BY <2>1, BookTypes DEF Covers
  <2>3. j \in Jobs /\ n \in Nodes /\ p \in Parts BY <2>1, <2>2, ConstantTypes DEF TypeOK
  <2>4. cr.mem[n] >= Mem[j][n]
    <3>1. j \in Has(nodes, n) /\ Has(nodes, n) \in SUBSET Jobs BY <2>3 DEF Has
    <3>2. Mem[j][n] <= Total(MemOn(n), Has(nodes, n)) BY <2>3, <3>1, CountLeave
    <3>3. cr.mem[n] >= Total(MemOn(n), Has(nodes, n)) BY <2>1, <2>3 DEF Covers
    <3>4. /\ cr.mem[n] \in Nat /\ Mem[j][n] \in Nat /\ Total(MemOn(n), Has(nodes, n)) \in Nat
      BY <2>2, <2>3, BookTypes, ConstantTypes, OnTypes
    <3> QED BY <3>2, <3>3, <3>4
  <2>5. ASSUME j \in Exclusive PROVE cr.excl[n] > 0
    <3>1. /\ j \in ExclIn(nodes, cr.totIds, n) /\ ExclIn(nodes, cr.totIds, n) \in SUBSET Jobs
      BY <2>2, <2>5 DEF ExclIn
    <3>2. Cardinality(ExclIn(nodes, cr.totIds, n)) > 0 BY <3>1, CountLeave
    <3>3. cr.excl[n] >= Cardinality(ExclIn(nodes, cr.totIds, n)) BY <2>1, <2>3 DEF Covers
    <3>4. cr.excl[n] \in Nat /\ Cardinality(ExclIn(nodes, cr.totIds, n)) \in Nat
      BY <2>2, <2>3, <3>1, BookTypes, CountType
    <3> QED BY <3>2, <3>3, <3>4
  <2>6. ASSUME n \in PartNodes[p]
        PROVE  /\ cr.tot[n][p] >= cr.run[n][p] /\ cr.tot[n][p] > 0
               /\ j \in cr.runIds => cr.run[n][p] > 0
    <3> DEFINE R == In(nodes, cr.runIds, n, p)
               T == In(nodes, cr.totIds, n, p)
    <3>1. j \in T /\ (j \in cr.runIds => j \in R) /\ R \in SUBSET T /\ T \in SUBSET Jobs
      BY <2>2, <2>6 DEF In, Counted
    <3>2. cr.run[n][p] = Cardinality(R) /\ cr.tot[n][p] >= Cardinality(T)
      BY <2>1, <2>3 DEF Covers
    <3>3. cr.run[n][p] \in Nat /\ cr.tot[n][p] \in Nat BY <2>2, <2>3, BookTypes
    <3> HIDE DEF R, T, p
    <3>4. Cardinality(R) <= Cardinality(T) /\ Cardinality(T) > 0 BY <3>1, CountLess, CountLeave
    <3>5. j \in cr.runIds => Cardinality(R) > 0 BY <3>1, CountLeave
    <3>6. Cardinality(R) \in Nat /\ Cardinality(T) \in Nat BY <3>1, CountType
    <3> QED BY <3>2, <3>3, <3>4, <3>5, <3>6
  <2> QED BY <2>4, <2>5, <2>6
<1>2. SelectInv => NeverUnderflows BY <1>1 DEF NeverUnderflows
<1> QED BY <1>2, SelectInvHolds, PTL

\* On a node whose jobs all hold it from select_p_job_test, holders are all.
LEMMA GrantedHolders ==
    ASSUME SelectInv, NEW n \in Nodes
    PROVE  /\ Granted(n, On(n)) => On(n) = Holders(n)
           /\ Granted(n, Running(n)) => Running(n) = RunningHolders(n)
BY DEF SelectInv, JobsInv, Granted, On, Running, Holders, RunningHolders

\* A job that wants its nodes for itself runs alone on them.
THEOREM ExclusiveAlways == Spec => []ExclusiveAlone
<1>1. SelectInv => ExclusiveAlone
  <2> SUFFICES ASSUME SelectInv, NEW n \in Nodes, Granted(n, Running(n)),
                      NEW j \in Running(n) \cap Exclusive
               PROVE  Running(n) = {j}
    BY DEF ExclusiveAlone
  <2>1. Running(n) = RunningHolders(n) BY GrantedHolders
  <2>2. \A k \in Running(n) : k = j BY <2>1 DEF SelectInv, AloneInv
  <2> QED BY <2>2
<1> QED BY <1>1, SelectInvHolds, PTL

\* The jobs on a node, suspended or not, ask for no more memory than it has.
THEOREM MemoryAlwaysFits == Spec => []MemoryFits
<1>1. SelectInv => MemoryFits BY GrantedHolders DEF SelectInv, FitsInv, MemoryFits
<1> QED BY <1>1, SelectInvHolds, PTL

\* No node is shared by more jobs than the last of them to come tolerated.
THEOREM ShareNeverExceeded == Spec => []ShareLimit
<1>1. SelectInv => ShareLimit
  <2> SUFFICES ASSUME SelectInv, NEW n \in Nodes, Granted(n, Running(n)),
                      NEW S \in (SUBSET Running(n)) \ {{}}
               PROVE  \E j \in S : Cardinality(S) <= Share(j)
    BY DEF ShareLimit
  <2>1. Running(n) = RunningHolders(n) BY GrantedHolders
  <2>2. S \in SUBSET RunningHolders(n) /\ S # {} BY <2>1
  <2> QED BY <2>2 DEF SelectInv, ShareInv
<1> QED BY <1>1, SelectInvHolds, PTL

-----------------------------------------------------------------------------
(* What is promised from a copy of the books.  What is left of them when   *)
(* some jobs are gone does not depend on the order in which they went, and *)
(* on each node only on those that were there (IsLess); the more are gone, *)
(* the more nodes a job may have.                                          *)

\* The nodes of each job when the jobs X are gone.
Emptied(X) == [j \in Jobs |-> IF j \in X THEN {} ELSE nodes[j]]

\* Those of X that give something back on node n.
There(c, X, n) == {j \in X \cap c.totIds : n \in nodes[j]}

\* The books b are c without the jobs X.
IsLess(b, c, X) ==
    /\ Covers(b, Emptied(X)) /\ (Exact(c, nodes) => Exact(b, Emptied(X)))
    /\ b.runIds = c.runIds \ X /\ b.totIds = c.totIds \ X
    /\ \A n \in Nodes :
          /\ c.mem[n] = b.mem[n] + Total(MemOn(n), There(c, X, n))
          /\ c.excl[n] = b.excl[n] + Cardinality(There(c, X, n) \cap Exclusive)

-----------------------------------------------------------------------------
(* Jobs go one by one *)

\* Who gives something back, is a set of jobs.
LEMMA ThereTypes ==
    ASSUME NEW c, NEW X \in SUBSET Jobs, NEW n \in Nodes
    PROVE  /\ There(c, X, n) \in SUBSET Jobs /\ There(c, X, n) \cap Exclusive \in SUBSET Jobs
           /\ Total(MemOn(n), There(c, X, n)) \in Nat
           /\ Cardinality(There(c, X, n) \cap Exclusive) \in Nat
<1>1. There(c, X, n) \in SUBSET Jobs /\ There(c, X, n) \cap Exclusive \in SUBSET Jobs BY DEF There
<1> QED BY <1>1, CountType

\* Nobody is gone.
LEMMA LessNone ==
    ASSUME nodes \in Allocations, NEW c, Covers(c, nodes) PROVE IsLess(c, c, {})
<1>1. Emptied({}) = nodes BY DEF Emptied, Allocations
<1>2. \A n : There(c, {}, n) = {} BY DEF There
<1>3. \A n \in Nodes : c.mem[n] \in Nat /\ c.excl[n] \in Nat BY BookTypes DEF Covers
<1>4. \A n : Total(MemOn(n), {}) = 0 BY TotalEmpty
<1>5. \A n \in Nodes : /\ c.mem[n] = c.mem[n] + Total(MemOn(n), There(c, {}, n))
                       /\ c.excl[n] = c.excl[n] + Cardinality(There(c, {}, n) \cap Exclusive)
  <2> TAKE n \in Nodes
  <2>1. There(c, {}, n) \cap Exclusive = {} BY <1>2
  <2>2. Cardinality({}) = 0 BY FS_EmptySet
  <2> QED BY <1>2, <1>3, <1>4, <2>1, <2>2
<1> QED BY <1>1, <1>5 DEF IsLess

\* What is taken off the books is what joins those that are gone.
LEMMA MinusBack ==
    ASSUME NEW b \in Nat, NEW t \in Nat, NEW d \in Nat, d <= b
    PROVE  b + t = Minus(b, d) + (t + d)
BY DEF Minus

\* One more goes: _rm_job_from_nodes takes off what the job has on its nodes.
LEMMA LessOne ==
    ASSUME nodes \in Allocations, NEW c, NEW b, NEW X \in SUBSET Jobs, IsLess(b, c, X),
           NEW j \in Jobs \ X
    PROVE  IsLess(Removed(b, j, nodes[j], TRUE), c, X \cup {j})
<1> DEFINE nd == Emptied(X)
           to == [nd EXCEPT ![j] = {}]
           a == Removed(b, j, nodes[j], TRUE)
<1>1. nd \in Allocations /\ nd[j] = nodes[j] BY DEF Emptied, Allocations
<1>2. to = Emptied(X \cup {j}) BY DEF Emptied
<1>3. /\ Covers(b, nd) /\ (Exact(c, nodes) => Exact(b, nd))
      /\ b.runIds = c.runIds \ X /\ b.totIds = c.totIds \ X
      /\ \A n \in Nodes :
            /\ c.mem[n] = b.mem[n] + Total(MemOn(n), There(c, X, n))
            /\ c.excl[n] = b.excl[n] + Cardinality(There(c, X, n) \cap Exclusive)
  BY DEF IsLess
<1>4. /\ b \in Books /\ b.runIds \in SUBSET Jobs /\ b.totIds \in SUBSET Jobs
      /\ b.runIds \subseteq b.totIds
  BY <1>3, BookTypes DEF Covers
<1>5. nodes[j] \in SUBSET Nodes BY DEF Allocations
<1> HIDE DEF nd, to, a
<1>6. CASE j \in b.totIds
  <2>1. /\ Covers(a, to) /\ (Exact(b, nd) => Exact(a, to))
    BY <1>1, <1>3, <1>6, ReleasedCovers DEF a, to
  <2>2. IsRemoved(a, b, j, nodes[j], TRUE) BY <1>4, <1>5, <1>6, RemovedNode DEF a
  <2>3. /\ a.runIds = c.runIds \ (X \cup {j}) /\ a.totIds = c.totIds \ (X \cup {j})
    BY <1>3, <2>2 DEF IsRemoved
  <2>4. \A n \in Nodes : /\ a.mem[n] = Minus(b.mem[n], MemOf(j, nodes[j], n))
                         /\ a.excl[n] = Minus(b.excl[n], ExclOf(j, nodes[j], n))
    BY <2>2 DEF IsRemoved
  <2>5. ASSUME NEW n \in Nodes
        PROVE  /\ c.mem[n] = a.mem[n] + Total(MemOn(n), There(c, X \cup {j}, n))
               /\ c.excl[n] = a.excl[n] + Cardinality(There(c, X \cup {j}, n) \cap Exclusive)
    <3>1. /\ c.mem[n] = b.mem[n] + Total(MemOn(n), There(c, X, n))
          /\ c.excl[n] = b.excl[n] + Cardinality(There(c, X, n) \cap Exclusive)
          /\ b.mem[n] >= Total(MemOn(n), Has(nd, n))
          /\ b.excl[n] >= Cardinality(ExclIn(nd, b.totIds, n))
      BY <1>3 DEF Covers
    <3>2. /\ b.mem[n] \in Nat /\ b.excl[n] \in Nat /\ Mem[j][n] \in Nat
          /\ Total(MemOn(n), There(c, X, n)) \in Nat
          /\ Cardinality(There(c, X, n) \cap Exclusive) \in Nat
          /\ Total(MemOn(n), Has(nd, n)) \in Nat
          /\ Cardinality(ExclIn(nd, b.totIds, n)) \in Nat
      BY <1>4, BookTypes, ConstantTypes, ThereTypes, OnTypes
    <3>3. /\ a.mem[n] = Minus(b.mem[n], MemOf(j, nodes[j], n))
          /\ a.excl[n] = Minus(b.excl[n], ExclOf(j, nodes[j], n))
      BY <2>4
    <3>4. CASE n \in nodes[j]
      <4>1. There(c, X \cup {j}, n) = There(c, X, n) \cup {j} BY <1>3, <1>6, <3>4 DEF There
      <4>2. There(c, X, n) \in SUBSET Jobs /\ j \in Jobs \ There(c, X, n) BY ThereTypes DEF There
      <4>3. Total(MemOn(n), There(c, X, n) \cup {j}) = Total(MemOn(n), There(c, X, n)) + Mem[j][n]
        BY <4>2, CountJoin
      <4>4. Has(nd, n) \in SUBSET Jobs /\ j \in Has(nd, n) BY <1>1, <3>4 DEF Has
      <4>5. Mem[j][n] <= Total(MemOn(n), Has(nd, n)) BY <4>4, CountLeave
      <4>6. MemOf(j, nodes[j], n) = Mem[j][n] BY <3>4 DEF MemOf
      <4>7. c.mem[n] = a.mem[n] + Total(MemOn(n), There(c, X \cup {j}, n))
        <5>1. Mem[j][n] <= b.mem[n]
          <6>1. \A x, y, z \in Nat : x <= y /\ z >= y => x <= z OBVIOUS
          <6> QED BY <3>1, <3>2, <4>5, <6>1
        <5>2. b.mem[n] + Total(MemOn(n), There(c, X, n))
                 = Minus(b.mem[n], Mem[j][n]) + (Total(MemOn(n), There(c, X, n)) + Mem[j][n])
          BY <3>2, <5>1, MinusBack
        <5> QED BY <3>1, <3>3, <4>1, <4>3, <4>6, <5>2, Zenon
      <4>8. c.excl[n] = a.excl[n] + Cardinality(There(c, X \cup {j}, n) \cap Exclusive)
        <5>1. CASE j \in Exclusive
          <6>1. There(c, X \cup {j}, n) \cap Exclusive = (There(c, X, n) \cap Exclusive) \cup {j}
            BY <4>1, <5>1
          <6>2. There(c, X, n) \cap Exclusive \in SUBSET Jobs
                /\ j \in Jobs \ (There(c, X, n) \cap Exclusive)
            BY <4>2
          <6>3. Cardinality((There(c, X, n) \cap Exclusive) \cup {j})
                   = Cardinality(There(c, X, n) \cap Exclusive) + 1
            BY <6>2, CountJoin
          <6>4. ExclIn(nd, b.totIds, n) \in SUBSET Jobs /\ j \in ExclIn(nd, b.totIds, n)
            BY <1>1, <1>4, <1>6, <3>4, <5>1 DEF ExclIn
          <6>5. Cardinality(ExclIn(nd, b.totIds, n)) > 0 BY <6>4, CountLeave
          <6>6. ExclOf(j, nodes[j], n) = 1 BY <3>4, <5>1 DEF ExclOf
          <6>7. 1 <= b.excl[n]
            <7>1. \A y, z \in Nat : y > 0 /\ z >= y => 1 <= z OBVIOUS
            <7> QED BY <3>1, <3>2, <6>5, <7>1
          <6>8. b.excl[n] + Cardinality(There(c, X, n) \cap Exclusive)
                   = Minus(b.excl[n], 1) + (Cardinality(There(c, X, n) \cap Exclusive) + 1)
            BY <3>2, <6>7, MinusBack
          <6> QED BY <3>1, <3>3, <6>1, <6>3, <6>6, <6>8, Zenon
        <5>2. CASE j \notin Exclusive
          <6>1. There(c, X \cup {j}, n) \cap Exclusive = There(c, X, n) \cap Exclusive BY <4>1, <5>2
          <6>2. ExclOf(j, nodes[j], n) = 0 BY <5>2 DEF ExclOf
          <6>3. Minus(b.excl[n], 0) = b.excl[n] BY <3>2 DEF Minus
          <6> QED BY <3>1, <3>3, <6>1, <6>2, <6>3, Zenon
        <5> QED BY <5>1, <5>2
      <4> QED BY <4>7, <4>8
    <3>5. CASE n \notin nodes[j]
      <4>1. There(c, X \cup {j}, n) = There(c, X, n) BY <3>5 DEF There
      <4>2. MemOf(j, nodes[j], n) = 0 /\ ExclOf(j, nodes[j], n) = 0 BY <3>5 DEF MemOf, ExclOf
      <4>3. Minus(b.mem[n], 0) = b.mem[n] /\ Minus(b.excl[n], 0) = b.excl[n] BY <3>2 DEF Minus
      <4> QED BY <3>1, <3>3, <4>1, <4>2, <4>3, Zenon
    <3> QED BY <3>4, <3>5
  <2> QED BY <1>2, <1>3, <2>1, <2>3, <2>5 DEF IsLess, a
<1>7. CASE j \notin b.totIds
  <2>1. a = b BY <1>7 DEF Removed, a
  <2>2. Covers(b, to) /\ (Exact(b, nd) => Exact(b, to)) BY <1>1, <1>3, <1>7, GoneCovers DEF to
  <2>3. j \notin b.runIds BY <1>4, <1>7
  <2>4. \A n : There(c, X \cup {j}, n) = There(c, X, n) BY <1>3, <1>7 DEF There
  <2>5. b.runIds = c.runIds \ (X \cup {j}) /\ b.totIds = c.totIds \ (X \cup {j}) BY <1>3, <1>7, <2>3
  <2> QED BY <1>2, <1>3, <2>1, <2>2, <2>4, <2>5 DEF IsLess, a
<1> QED BY <1>6, <1>7

-----------------------------------------------------------------------------
(* Lists of jobs *)

\* A job is in one place of a list, which has as many places as it has jobs.
LEMMA ListFacts ==
    ASSUME NEW X \in SUBSET Jobs, NEW s \in SetToSeqs(X)
    PROVE  /\ s \in Seq(Jobs) /\ Len(s) \in Nat /\ Len(s) = Cardinality(X)
           /\ DOMAIN s = 1 .. Len(s) /\ ToSet(s) = X
           /\ \A i \in 1 .. Len(s) : s[i] \in X
           /\ \A i, j \in 1 .. Len(s) : s[i] = s[j] => i = j
           /\ \A x \in X : \E i \in 1 .. Len(s) : s[i] = x
<1> DEFINE n == Cardinality(X)
<1>1. IsFiniteSet(X) /\ n \in Nat BY CountType
<1>2. s \in [1 .. n -> X] /\ \A i, j \in 1 .. n : i # j => s[i] # s[j] BY DEF SetToSeqs
<1> HIDE DEF n
<1>3. s \in Seq(Jobs) /\ Len(s) = n /\ DOMAIN s = 1 .. n
  <2>1. s \in [1 .. n -> Jobs] BY <1>2
  <2> QED BY <1>1, <2>1
<1>4. s \in Injection(1 .. n, X) BY <1>2 DEF Injection, IsInjective
<1>5. IsFiniteSet(1 .. n) /\ Cardinality(1 .. n) = n BY <1>1, FS_Interval
<1>6. s \in Surjection(1 .. n, X) BY <1>1, <1>4, <1>5, FS_Injection DEF n
<1>7. \A x \in X : \E i \in 1 .. n : s[i] = x BY <1>6 DEF Surjection
<1>8. ToSet(s) = X BY <1>2, <1>3, <1>7 DEF ToSet
<1> QED BY <1>1, <1>2, <1>3, <1>7, <1>8 DEF n

\* Any jobs can be listed.
LEMMA SomeList ==
    ASSUME NEW X \in SUBSET Jobs
    PROVE  SetToSeq(X) \in SetToSeqs(X)
<1> DEFINE n == Cardinality(X)
<1>1. ExistsBijection(1 .. n, X) BY CountType, FS_CardinalityType
<1>2. PICK f \in [1 .. n -> X] : IsInjective(f)
  BY <1>1 DEF ExistsBijection, Bijection, Injection
<1>3. SetToSeq(X) = CHOOSE g \in [1 .. n -> X] : IsInjective(g) BY DEF SetToSeq
<1>4. SetToSeq(X) \in [1 .. n -> X] /\ IsInjective(SetToSeq(X)) BY <1>2, <1>3
<1> HIDE DEF n
<1>5. \A i, j \in 1 .. n : i # j => SetToSeq(X)[i] # SetToSeq(X)[j] BY <1>4 DEF IsInjective
<1> QED BY <1>4, <1>5 DEF SetToSeqs, n

\* A list of the same jobs is a list of them.
LEMMA SameList ==
    ASSUME NEW X \in SUBSET Jobs, NEW s \in SetToSeqs(X), NEW t \in SetToSeqs(ToSet(s))
    PROVE  t \in SetToSeqs(X)
BY ListFacts

\* What a pass over a list takes off a copy of the books.
LEMMA WithoutIs ==
    ASSUME nodes \in Allocations, NEW c \in Books, NEW s \in Seq(Jobs), NEW S
    PROVE  /\ Without(c, s, S)[0] = c
           /\ \A i \in 1 .. Len(s) :
                 Without(c, s, S)[i] = Removed(Without(c, s, S)[i - 1], s[i], nodes[s[i]], s[i] \in S)
<1> DEFINE n == Len(s)
           next(i, b) == Removed(b, s[i], nodes[s[i]], s[i] \in S)
           step == [p \in (1 .. n) \X Books |-> next(p[1], p[2])]
           pass == CHOOSE g : g = [i \in 0 .. n |-> IF i = 0 THEN c ELSE next(i, g[i - 1])]
<1>1. n \in Nat /\ \A i \in 1 .. n : s[i] \in Jobs /\ nodes[s[i]] \in SUBSET Nodes
  BY DEF Allocations
<1>2. \A i \in 1 .. n : \A b \in Books : next(i, b) \in Books
  <2> TAKE i \in 1 .. n
  <2> TAKE b \in Books
  <2>1. CASE s[i] \in b.totIds
    <3>1. (s[i] \in S) \in BOOLEAN OBVIOUS
    <3>2. IsRemoved(next(i, b), b, s[i], nodes[s[i]], s[i] \in S) BY <1>1, <2>1, <3>1, RemovedNode
    <3> QED BY <3>2 DEF IsRemoved
  <2>2. CASE s[i] \notin b.totIds BY <2>2 DEF Removed
  <2> QED BY <2>1, <2>2
<1>3. Without(c, s, S) = pass BY DEF Without
<1> HIDE DEF n, next
<1>4. step \in [(1 .. n) \X Books -> Books] BY <1>2
<1>5. \A i \in 1 .. n : \A b \in Books : step[<<i, b>>] = next(i, b) OBVIOUS
<1> HIDE DEF step, pass
<1>6. PICK f \in [0 .. n -> Books] : f[0] = c /\ \A i \in 1 .. n : f[i] = step[<<i, f[i - 1]>>]
  <2>1. Walks(n, Books, c, step) # {} BY <1>1, <1>4, StepByStep
  <2> QED BY <2>1 DEF Walks
<1>7. \A i \in 0 .. n : f[i] = IF i = 0 THEN c ELSE next(i, f[i - 1])
  <2>1. \A i \in 0 .. n : i = 0 \/ (i \in 1 .. n /\ i - 1 \in 0 .. n) BY <1>1
  <2> QED BY <1>5, <1>6, <2>1
<1>8. f = [i \in 0 .. n |-> IF i = 0 THEN c ELSE next(i, f[i - 1])] BY <1>7
<1>9. pass = [i \in 0 .. n |-> IF i = 0 THEN c ELSE next(i, pass[i - 1])] BY <1>8 DEF pass
<1>10. \A i \in 0 .. n : pass[i] = IF i = 0 THEN c ELSE next(i, pass[i - 1]) BY <1>9, Zenon
<1>11. 0 \in 0 .. n /\ \A i \in 1 .. n : i # 0 /\ i \in 0 .. n BY <1>1
<1>12. pass[0] = c /\ \A i \in 1 .. n : pass[i] = next(i, pass[i - 1]) BY <1>10, <1>11
<1> QED BY <1>3, <1>12 DEF n, next

\* The first i jobs of a list.
First(s, i) == {s[m] : m \in 1 .. i}

\* A list of jobs goes, one by one, from books that others have left already.
LEMMA Gone ==
    ASSUME nodes \in Allocations, NEW c, NEW b, NEW Y \in SUBSET Jobs, IsLess(b, c, Y),
           NEW X \in SUBSET Jobs, X \cap Y = {}, NEW s \in SetToSeqs(X), NEW S, X \subseteq S
    PROVE  /\ \A i \in 0 .. Len(s) : IsLess(Without(b, s, S)[i], c, Y \cup First(s, i))
           /\ IsLess(Without(b, s, S)[Len(s)], c, Y \cup X)
<1> DEFINE w == Without(b, s, S)
           n == Len(s)
           good == {i \in 0 .. n : IsLess(w[i], c, Y \cup First(s, i))}
<1>1. /\ s \in Seq(Jobs) /\ n \in Nat /\ \A i \in 1 .. n : s[i] \in X
      /\ \A i, j \in 1 .. n : s[i] = s[j] => i = j
      /\ \A x \in X : \E i \in 1 .. n : s[i] = x
  BY ListFacts
<1>2. b \in Books BY DEF IsLess, Covers
<1>3. w[0] = b /\ \A i \in 1 .. n : w[i] = Removed(w[i - 1], s[i], nodes[s[i]], s[i] \in S)
  BY <1>1, <1>2, WithoutIs
<1> HIDE DEF w, n
<1>4. 0 \in good
  <2>1. First(s, 0) = {} BY DEF First
  <2>2. Y \cup First(s, 0) = Y BY <2>1
  <2>3. 0 \in 0 .. n BY <1>1
  <2>4. IsLess(w[0], c, Y \cup First(s, 0)) BY <1>3, <2>2, Zenon
  <2> QED BY <2>3, <2>4
<1>5. ASSUME NEW i \in 1 .. n, i - 1 \in good PROVE i \in good
  <2>1. First(s, i - 1) \subseteq X BY <1>1 DEF First
  <2>2. s[i] \in Jobs \ (Y \cup First(s, i - 1)) BY <1>1 DEF First
  <2>3. IsLess(w[i - 1], c, Y \cup First(s, i - 1)) BY <1>5
  <2>4. s[i] \in S /\ (s[i] \in S) = TRUE BY <1>1
  <2>5. w[i] = Removed(w[i - 1], s[i], nodes[s[i]], TRUE) BY <1>3, <2>4
  <2>6. IsLess(w[i], c, (Y \cup First(s, i - 1)) \cup {s[i]})
    <3>1. PICK Z : Z = Y \cup First(s, i - 1) OBVIOUS
    <3>2. PICK j : j = s[i] OBVIOUS
    <3>3. PICK d : d = w[i - 1] OBVIOUS
    <3>4. Z \in SUBSET Jobs /\ j \in Jobs \ Z /\ IsLess(d, c, Z) BY <2>1, <2>2, <2>3, <3>1, <3>2, <3>3
    <3>5. IsLess(Removed(d, j, nodes[j], TRUE), c, Z \cup {j}) BY <3>4, LessOne
    <3> QED BY <2>5, <3>1, <3>2, <3>3, <3>5, Zenon
  <2>7. First(s, i) = First(s, i - 1) \cup {s[i]}
    <3>1. \A m \in 1 .. i : m = i \/ m \in 1 .. i - 1 BY <1>1
    <3>2. \A m \in 1 .. i - 1 : m \in 1 .. i BY <1>1
    <3>3. i \in 1 .. i BY <1>1
    <3> QED BY <3>1, <3>2, <3>3 DEF First
  <2>8. (Y \cup First(s, i - 1)) \cup {s[i]} = Y \cup First(s, i) BY <2>7
  <2>9. i \in 0 .. n BY <1>1
  <2> QED BY <2>6, <2>8, <2>9
<1> HIDE DEF good
<1>6. 0 .. n \subseteq good BY <1>1, <1>4, <1>5, OneByOne
<1>7. \A i \in 0 .. n : IsLess(w[i], c, Y \cup First(s, i)) BY <1>6 DEF good
<1>8. First(s, n) = X BY <1>1 DEF First
<1>9. n \in 0 .. n BY <1>1
<1>10. IsLess(w[n], c, Y \cup X) BY <1>7, <1>8, <1>9
<1> QED BY <1>7, <1>10 DEF w, n

-----------------------------------------------------------------------------
(* The more are gone, the more nodes a job may have *)

\* If the jobs of a node that are gone in a are gone in b, too, then b leaves
\* no less of it.
LEMMA LessUsable ==
    ASSUME NEW c, NEW a, NEW b, NEW X \in SUBSET Jobs, NEW Y \in SUBSET Jobs,
           IsLess(a, c, X), IsLess(b, c, Y),
           NEW n \in Nodes, \A j \in X : n \in nodes[j] => j \in Y,
           NEW k \in Jobs, NEW r \in Nat, Usable(a, k, n, r)
    PROVE  Usable(b, k, n, r)
<1>1. /\ a \in Books /\ b \in Books
      /\ a.runIds = c.runIds \ X /\ b.runIds = c.runIds \ Y
      /\ \A p \in Parts : /\ a.run[n][p] = Cardinality(In(Emptied(X), a.runIds, n, p))
                          /\ b.run[n][p] = Cardinality(In(Emptied(Y), b.runIds, n, p))
  BY DEF IsLess, Covers
<1>2. /\ a.runIds \in SUBSET Jobs /\ b.runIds \in SUBSET Jobs
      /\ a.mem[n] \in Nat /\ a.excl[n] \in Nat /\ b.mem[n] \in Nat /\ b.excl[n] \in Nat
      /\ \A p \in Parts : a.run[n][p] \in Nat /\ b.run[n][p] \in Nat
  BY <1>1, BookTypes
<1>3. There(c, X, n) \subseteq There(c, Y, n) BY DEF There
<1>4. b.mem[n] <= a.mem[n]
  <2>1. /\ c.mem[n] = a.mem[n] + Total(MemOn(n), There(c, X, n))
        /\ c.mem[n] = b.mem[n] + Total(MemOn(n), There(c, Y, n))
    BY DEF IsLess
  <2>2. There(c, Y, n) \in SUBSET Jobs BY ThereTypes
  <2>3. Total(MemOn(n), There(c, X, n)) <= Total(MemOn(n), There(c, Y, n)) BY <1>3, <2>2, CountLess
  <2>4. Total(MemOn(n), There(c, X, n)) \in Nat /\ Total(MemOn(n), There(c, Y, n)) \in Nat
    BY ThereTypes
  <2> QED BY <1>2, <2>1, <2>3, <2>4
<1>5. b.excl[n] <= a.excl[n]
  <2>1. /\ c.excl[n] = a.excl[n] + Cardinality(There(c, X, n) \cap Exclusive)
        /\ c.excl[n] = b.excl[n] + Cardinality(There(c, Y, n) \cap Exclusive)
    BY DEF IsLess
  <2>2. There(c, Y, n) \cap Exclusive \in SUBSET Jobs BY ThereTypes
  <2>3. There(c, X, n) \cap Exclusive \subseteq There(c, Y, n) \cap Exclusive BY <1>3
  <2>4. Cardinality(There(c, X, n) \cap Exclusive) <= Cardinality(There(c, Y, n) \cap Exclusive)
    BY <2>2, <2>3, CountLess
  <2>5. /\ Cardinality(There(c, X, n) \cap Exclusive) \in Nat
        /\ Cardinality(There(c, Y, n) \cap Exclusive) \in Nat
    BY ThereTypes
  <2> QED BY <1>2, <2>1, <2>4, <2>5
<1>6. Total(b.run[n], Parts) <= Total(a.run[n], Parts)
  <2>1. ASSUME NEW p \in Parts PROVE b.run[n][p] <= a.run[n][p]
    <3>1. In(Emptied(Y), b.runIds, n, p) \subseteq In(Emptied(X), a.runIds, n, p)
      BY <1>1, <1>2 DEF In, Emptied
    <3>2. In(Emptied(X), a.runIds, n, p) \in SUBSET Jobs BY <1>2, OnTypes
    <3>3. Cardinality(In(Emptied(Y), b.runIds, n, p)) <= Cardinality(In(Emptied(X), a.runIds, n, p))
      BY <3>1, <3>2, CountLess
    <3> QED BY <1>1, <3>3
  <2>2. Summable(a.run[n], Parts) /\ Summable(b.run[n], Parts)
    BY <1>2, ConstantTypes DEF Summable
  <2> QED BY <2>1, <2>2, TotalMonotone
<1>7. Total(a.run[n], Parts) \in Nat /\ Total(b.run[n], Parts) \in Nat
  <2>1. Summable(a.run[n], Parts) /\ Summable(b.run[n], Parts)
    BY <1>2, ConstantTypes DEF Summable
  <2> QED BY <2>1, TotalType
<1>8. Mem[k][n] \in Nat /\ RealMemory[n] \in Nat BY ConstantTypes
<1>9. /\ Mem[k][n] = 0 \/ a.mem[n] + Mem[k][n] <= RealMemory[n]
      /\ a.excl[n] = 0 /\ Total(a.run[n], Parts) <= r
  BY DEF Usable
<1>10. Mem[k][n] = 0 \/ b.mem[n] + Mem[k][n] <= RealMemory[n] BY <1>2, <1>4, <1>8, <1>9
<1>11. b.excl[n] = 0 BY <1>2, <1>5, <1>9
<1>12. Total(b.run[n], Parts) <= r BY <1>6, <1>7, <1>9
<1> QED BY <1>10, <1>11, <1>12 DEF Usable

\* The nodes a job may have are finitely many.
LEMMA RoomTypes ==
    ASSUME NEW k \in Jobs, NEW c
    PROVE  /\ Room(c, k) \in SUBSET Nodes /\ Room(c, k) \subseteq PartNodes[Part[k]]
           /\ IsFiniteSet(Room(c, k))
           /\ Cardinality(Room(c, k)) \in Nat /\ MinNodes[k] \in Nat \ {0}
           /\ Share(k) - 1 \in Nat
           /\ \A S \in SUBSET Room(c, k) : /\ Cardinality(S) \in Nat
                                           /\ Cardinality(S) <= Cardinality(Room(c, k))
<1>1. PartNodes[Part[k]] \subseteq Nodes /\ Share(k) \in Nat /\ Share(k) > 0 /\ MinNodes[k] \in Nat \ {0}
  BY ConstantTypes
<1>2. Room(c, k) \subseteq PartNodes[Part[k]] BY DEF Room, UsableNodes
<1>3. IsFiniteSet(Nodes) BY SelectAssumption
<1>4. IsFiniteSet(Room(c, k)) BY <1>1, <1>2, <1>3, FS_Subset
<1>5. \A S \in SUBSET Room(c, k) : IsFiniteSet(S) /\ Cardinality(S) <= Cardinality(Room(c, k))
  BY <1>4, FS_Subset
<1> QED BY <1>1, <1>2, <1>4, <1>5, FS_CardinalityType

\* What is usable with some jobs gone, still is with more of the node's gone.
LEMMA RoomAt ==
    ASSUME NEW c, NEW a, NEW b, NEW X \in SUBSET Jobs, NEW Y \in SUBSET Jobs,
           IsLess(a, c, X), IsLess(b, c, Y), NEW k \in Jobs,
           NEW n \in Room(a, k), \A j \in X : n \in nodes[j] => j \in Y
    PROVE  n \in Room(b, k)
<1>1. n \in PartNodes[Part[k]] /\ Usable(a, k, n, Share(k) - 1) BY DEF Room, UsableNodes
<1>2. n \in Nodes /\ Share(k) - 1 \in Nat BY RoomTypes
<1>3. Usable(b, k, n, Share(k) - 1) BY <1>1, <1>2, LessUsable
<1> QED BY <1>1, <1>3 DEF Room, UsableNodes

\* Who could start when some are gone, can when more are.
LEMMA RoomGrows ==
    ASSUME NEW c, NEW a, NEW b, NEW X \in SUBSET Jobs, NEW Y \in SUBSET Jobs, X \subseteq Y,
           IsLess(a, c, X), IsLess(b, c, Y), NEW k \in Jobs
    PROVE  Room(a, k) \subseteq Room(b, k) /\ (Startable(a, k) => Startable(b, k))
<1>1. Room(a, k) \subseteq Room(b, k) BY RoomAt
<1>2. Cardinality(Room(a, k)) <= Cardinality(Room(b, k)) BY <1>1, RoomTypes
<1>3. Cardinality(Room(a, k)) \in Nat /\ Cardinality(Room(b, k)) \in Nat /\ MinNodes[k] \in Nat
  BY RoomTypes
<1> QED BY <1>1, <1>2, <1>3 DEF Startable

-----------------------------------------------------------------------------
(* The future *)

\* A copy of the books is less by nobody.
LEMMA Copy ==
    ASSUME SelectInv
    PROVE  nodes \in Allocations /\ IsLess(Current, Current, {})
           /\ (~drifted => Exact(Current, nodes))
<1>1. nodes \in Allocations BY DEF SelectInv, TypeOK, Allocations
<1>2. Knows(Current) BY CurrentKnows
<1>3. Covers(Current, nodes) /\ (~drifted => Exact(Current, nodes)) BY <1>2 DEF Knows
<1> QED BY <1>1, <1>3, LessNone

\* Those that the copy lets go to begin with: all that may be preempted.
LEMMA PreemptedGone ==
    ASSUME SelectInv, NEW C \in SUBSET (ActiveJobs \cap Requeued)
    PROVE  LET d == Without(Current, SetToSeq(C), ByMode)[Len(SetToSeq(C))]
           IN  IsLess(d, Current, C)
<1>1. C \in SUBSET Jobs /\ C \subseteq ByMode /\ C \cap {} = {} BY DEF ActiveJobs, ByMode
<1>2. SetToSeq(C) \in SetToSeqs(C) BY <1>1, SomeList
<1>3. nodes \in Allocations /\ IsLess(Current, Current, {}) BY Copy
<1>4. IsLess(Without(Current, SetToSeq(C), ByMode)[Len(SetToSeq(C))], Current, {} \cup C)
  BY <1>1, <1>2, <1>3, Gone
<1>5. {} \cup C = C OBVIOUS
<1> QED BY <1>4, <1>5

\* Then those that end, one after the other.
LEMMA EndedGone ==
    ASSUME SelectInv, NEW C \in SUBSET (ActiveJobs \cap Requeued), NEW d, IsLess(d, Current, C),
           NEW E \in SUBSET (ActiveJobs \ C), NEW t \in SetToSeqs(E)
    PROVE  /\ \A i \in 0 .. Len(t) : IsLess(Without(d, t, Jobs)[i], Current, C \cup First(t, i))
           /\ IsLess(Without(d, t, Jobs)[Len(t)], Current, C \cup E)
<1>1. C \in SUBSET Jobs /\ E \in SUBSET Jobs /\ E \cap C = {} /\ E \subseteq Jobs
  BY DEF ActiveJobs
<1>2. nodes \in Allocations BY Copy
<1> QED BY <1>1, <1>2, Gone

\* A cluster without jobs is free, if the books were exact.
LEMMA AllGone ==
    ASSUME SelectInv, ~drifted, NEW d, IsLess(d, Current, ActiveJobs),
           NEW k \in Jobs, NEW n \in PartNodes[Part[k]], Mem[k][n] <= RealMemory[n], NEW r \in Nat
    PROVE  Usable(d, k, n, r)
<1>1. n \in Nodes BY ConstantTypes
<1>2. Exact(d, Emptied(ActiveJobs)) /\ Covers(d, Emptied(ActiveJobs)) BY Copy DEF IsLess
<1>3. \A j \in Jobs : Emptied(ActiveJobs)[j] = {}
  BY DEF Emptied, ActiveJobs, SelectInv, JobsInv
<1>4. Has(Emptied(ActiveJobs), n) = {} /\ ExclIn(Emptied(ActiveJobs), Jobs, n) = {}
  BY <1>3 DEF Has, ExclIn
<1>5. d.mem[n] = 0
  <2>1. d.mem[n] = Total(MemOn(n), Has(Emptied(ActiveJobs), n)) BY <1>1, <1>2 DEF Exact
  <2> QED BY <1>4, <2>1, TotalEmpty
<1>6. d.excl[n] = 0
  <2>1. d.excl[n] = Cardinality(ExclIn(Emptied(ActiveJobs), Jobs, n)) BY <1>1, <1>2 DEF Exact
  <2> QED BY <1>4, <2>1, FS_EmptySet
<1>7. \A p \in Parts : d.run[n][p] = 0
  <2> TAKE p \in Parts
  <2>1. d.runIds \in SUBSET Jobs BY <1>2, BookTypes DEF Covers
  <2>2. In(Emptied(ActiveJobs), d.runIds, n, p) = {} BY <1>3, <2>1 DEF In
  <2>3. d.run[n][p] = Cardinality(In(Emptied(ActiveJobs), d.runIds, n, p)) BY <1>1, <1>2 DEF Covers
  <2> QED BY <2>2, <2>3, FS_EmptySet
<1>8. Total(d.run[n], Parts) = 0 BY <1>7, TotalZero
<1>9. Mem[k][n] \in Nat /\ RealMemory[n] \in Nat BY <1>1, ConstantTypes
<1>10. d.mem[n] + Mem[k][n] <= RealMemory[n] BY <1>5, <1>9
<1> QED BY <1>6, <1>8, <1>10 DEF Usable

\* At the latest when all jobs have ended there is a time.
LEMMA FindsTime == SelectInv => WillRunFindsTime
<1> SUFFICES ASSUME SelectInv, NEW k \in Pending, ~drifted, TestOnly(k),
                    \A n \in Nodes : Mem[k][n] <= RealMemory[n],
                    NEW C \in SUBSET (ActiveJobs \cap Requeued),
                    NEW t \in SetToSeqs(ActiveJobs \ C)
             PROVE  WillRun(Current, SetToSeq(C), t, k, FALSE).start # {}
  BY DEF WillRunFindsTime
<1>1. k \in Jobs BY DEF Pending
<1>2. PICK d : d = Without(Current, SetToSeq(C), ByMode)[Len(SetToSeq(C))] OBVIOUS
<1>3. IsLess(d, Current, C) BY <1>2, PreemptedGone
<1>4. C \cup (ActiveJobs \ C) = ActiveJobs OBVIOUS
<1>5. IsLess(Without(d, t, Jobs)[Len(t)], Current, ActiveJobs)
  <2>1. PICK E \in SUBSET (ActiveJobs \ C) : E = ActiveJobs \ C OBVIOUS
  <2>2. IsLess(Without(d, t, Jobs)[Len(t)], Current, C \cup E) BY <1>3, <2>1, EndedGone
  <2> QED BY <1>4, <2>1, <2>2
<1>6. WillRunLimit(k) \in Nat
  <2>1. Share(k) - 1 \in Nat BY <1>1, RoomTypes
  <2>2. \E m \in {Share(k) - 1, 1} : \A x \in {Share(k) - 1, 1} : m >= x BY <2>1
  <2>3. Max({Share(k) - 1, 1}) \in {Share(k) - 1, 1} BY <2>2 DEF Max
  <2> QED BY <2>1, <2>3 DEF WillRunLimit
<1>7. \A n \in PartNodes[Part[k]] : Usable(Without(d, t, Jobs)[Len(t)], k, n, WillRunLimit(k))
  <2> TAKE n \in PartNodes[Part[k]]
  <2>1. Mem[k][n] <= RealMemory[n] BY <1>1, ConstantTypes
  <2> QED BY <1>1, <1>5, <1>6, <2>1, AllGone
<1>8. WillRunNodes(Without(d, t, Jobs)[Len(t)], k) = PartNodes[Part[k]]
  BY <1>7 DEF WillRunNodes, UsableNodes
<1>9. Cardinality(WillRunNodes(Without(d, t, Jobs)[Len(t)], k)) >= MinNodes[k]
  BY <1>8 DEF TestOnly
<1>10. Len(t) \in 0 .. Len(t)
  <2>1. ActiveJobs \ C \in SUBSET Jobs BY DEF ActiveJobs
  <2> QED BY <2>1, ListFacts
<1> QED BY <1>2, <1>9, <1>10 DEF WillRun

\* The nodes that a job which may share is promised are those it may have.
LEMMA PromisedRoom ==
    ASSUME NEW k \in Jobs, Share(k) > 1, NEW c
    PROVE  WillRunNodes(c, k) = Room(c, k)
<1>1. Share(k) \in Nat BY ConstantTypes
<1>2. PICK m \in Nat : m = Share(k) - 1 /\ m >= 1 BY <1>1
<1>3. Max({m, 1}) = m
  <2>1. \A x \in {m, 1} : m >= x BY <1>2
  <2>2. \A x \in {m, 1} : (\A y \in {m, 1} : x >= y) => x = m BY <1>2
  <2> QED BY <2>1, <2>2 DEF Max
<1>4. WillRunLimit(k) = Share(k) - 1 BY <1>2, <1>3 DEF WillRunLimit
<1> QED BY <1>4 DEF WillRunNodes, Room

\* Those that have to go are on the list that is told.
LEMMA ToldJobs ==
    ASSUME NEW C \in SUBSET Jobs, NEW X \in SUBSET Jobs,
           NEW s \in SetToSeqs(C), NEW t \in SetToSeqs(X), NEW m \in 0 .. Len(t)
    PROVE  ToSet(s \o SubSeq(t, 1, m)) = C \cup First(t, m)
<1>1. s \in Seq(Jobs) /\ Len(s) \in Nat /\ ToSet(s) = C /\ DOMAIN s = 1 .. Len(s) BY ListFacts
<1>2. t \in Seq(Jobs) /\ Len(t) \in Nat /\ \A i \in 1 .. Len(t) : t[i] \in X BY ListFacts
<1>3. \A i \in 1 .. m : t[i] \in Jobs BY <1>2
<1> DEFINE w == SubSeq(t, 1, m)
<1>4. w \in Seq(Jobs) /\ Len(w) = m /\ \A i \in 1 .. m : w[i] = t[i]
  <2>1. m \in Int /\ 1 \in Int /\ m >= 0 BY <1>2
  <2>2. /\ w \in Seq(Jobs) /\ Len(w) = IF 1 <= m THEN m - 1 + 1 ELSE 0
        /\ \A i \in 1 .. m - 1 + 1 : w[i] = t[1 + i - 1]
    BY <1>3, <2>1, SubSeqProperties
  <2>3. Len(w) = m BY <2>1, <2>2
  <2>4. m - 1 + 1 = m /\ \A i \in 1 .. m : 1 + i - 1 = i BY <2>1
  <2> QED BY <2>2, <2>3, <2>4
<1> HIDE DEF w
<1>5. /\ s \o w \in Seq(Jobs) /\ Len(s \o w) = Len(s) + m
      /\ \A i \in 1 .. Len(s) + m : (s \o w)[i] = IF i <= Len(s) THEN s[i] ELSE w[i - Len(s)]
  BY <1>1, <1>4, ConcatProperties
<1> DEFINE g == s \o w
           n == Len(s)
<1>6. DOMAIN g = 1 .. n + m BY <1>5, LenProperties
<1>7. m \in Nat BY <1>2
<1>8. \A i \in 1 .. n + m : g[i] = IF i <= n THEN s[i] ELSE w[i - n] BY <1>5
<1>9. n \in Nat /\ C = {s[i] : i \in 1 .. n} BY <1>1 DEF ToSet
<1> HIDE DEF g, n
<1>10. ASSUME NEW i \in 1 .. n + m PROVE g[i] \in C \cup First(t, m)
  <2>1. CASE i <= n
    <3>1. i \in 1 .. n BY <1>7, <1>9, <2>1
    <3> QED BY <1>8, <1>9, <2>1, <3>1
  <2>2. CASE ~(i <= n)
    <3>1. i - n \in 1 .. m BY <1>7, <1>9, <2>2
    <3>2. g[i] = t[i - n] BY <1>4, <1>8, <2>2, <3>1
    <3> QED BY <3>1, <3>2 DEF First
  <2> QED BY <2>1, <2>2
<1>11. ASSUME NEW x \in C PROVE \E i \in 1 .. n + m : g[i] = x
  <2>1. PICK i \in 1 .. n : x = s[i] BY <1>9
  <2>2. i \in 1 .. n + m /\ i <= n BY <1>7, <1>9
  <2> QED BY <1>8, <2>1, <2>2
<1>12. ASSUME NEW x \in First(t, m) PROVE \E i \in 1 .. n + m : g[i] = x
  <2>1. PICK i \in 1 .. m : x = t[i] BY DEF First
  <2>2. n + i \in 1 .. n + m /\ ~(n + i <= n) /\ (n + i) - n = i BY <1>7, <1>9
  <2>3. g[n + i] = w[i] BY <1>8, <2>2
  <2> QED BY <1>4, <2>1, <2>2, <2>3
<1>13. ToSet(g) = {g[i] : i \in 1 .. n + m} BY <1>6 DEF ToSet
<1>14. ToSet(g) = C \cup First(t, m) BY <1>10, <1>11, <1>12, <1>13
<1> QED BY <1>14 DEF g, w

\* A time that is told comes true.
LEMMA PromiseKept == SelectInv => WillRunKept
<1> SUFFICES ASSUME SelectInv, NEW k \in Pending, Share(k) > 1,
                    NEW C \in SUBSET (ActiveJobs \cap Requeued),
                    NEW t \in Lists(ActiveJobs \ C), NEW nowOnly \in BOOLEAN,
                    NEW gone \in WillRun(Current, SetToSeq(C), t, k, nowOnly).start,
                    NEW u \in SetToSeqs(ToSet(gone))
             PROVE  Startable(Without(Current, u, Jobs)[Len(u)], k)
  BY DEF WillRunKept
<1> PICK E \in SUBSET (ActiveJobs \ C) : t \in SetToSeqs(E) BY DEF Lists
<1>1. k \in Jobs /\ C \in SUBSET Jobs /\ E \in SUBSET Jobs
  BY DEF Pending, ActiveJobs
<1>2. nodes \in Allocations /\ IsLess(Current, Current, {}) BY Copy
<1>3. PICK d : d = Without(Current, SetToSeq(C), ByMode)[Len(SetToSeq(C))] OBVIOUS
<1>4. IsLess(d, Current, C) BY <1>3, PreemptedGone
<1>5. \A i \in 0 .. Len(t) : IsLess(Without(d, t, Jobs)[i], Current, C \cup First(t, i))
  BY <1>4, EndedGone
<1>6. PICK X, b : /\ X \in SUBSET Jobs /\ ToSet(gone) = X
                 /\ IsLess(b, Current, X) /\ Startable(b, k)
  <2>1. CASE Cardinality(WillRunNodes(Current, k)) >= MinNodes[k]
    <3>1. gone = <<>> BY <2>1 DEF WillRun
    <3>2. ToSet(gone) = {} BY <3>1 DEF ToSet
    <3>3. Startable(Current, k) BY <1>1, <2>1, PromisedRoom DEF Startable
    <3> QED BY <1>2, <3>2, <3>3
  <2>2. CASE ~(Cardinality(WillRunNodes(Current, k)) >= MinNodes[k])
    <3> DEFINE last == IF nowOnly THEN 0 ELSE Len(t)
               when == {i \in 0 .. last :
                           Cardinality(WillRunNodes(Without(d, t, Jobs)[i], k)) >= MinNodes[k]}
    <3>1. when # {} /\ gone = SetToSeq(C) \o SubSeq(t, 1, Min(when)) BY <1>3, <2>2 DEF WillRun
    <3>2. PICK m : m = Min(when) OBVIOUS
    <3>3. m \in when
      <4>1. when \in SUBSET Nat
        <5>1. Len(t) \in Nat BY <1>1, ListFacts
        <5> QED BY <5>1
      <4>2. \E x \in when : \A y \in when : x <= y BY <3>1, <4>1, LeastOne
      <4> QED BY <3>2, <4>2 DEF Min
    <3>4. /\ m \in 0 .. Len(t)
          /\ Cardinality(WillRunNodes(Without(d, t, Jobs)[m], k)) >= MinNodes[k]
      <4>1. Len(t) \in Nat BY <1>1, ListFacts
      <4> QED BY <3>3, <4>1
    <3>5. SetToSeq(C) \in SetToSeqs(C) BY <1>1, SomeList
    <3>6. ToSet(SetToSeq(C) \o SubSeq(t, 1, m)) = C \cup First(t, m) BY <1>1, <3>4, <3>5, ToldJobs
    <3>7. ToSet(gone) = C \cup First(t, m) BY <3>1, <3>2, <3>6
    <3>8. Startable(Without(d, t, Jobs)[m], k) BY <1>1, <3>4, PromisedRoom DEF Startable
    <3>9. First(t, m) \in SUBSET Jobs
      <4>1. Len(t) \in Nat /\ \A i \in 1 .. Len(t) : t[i] \in Jobs BY <1>1, ListFacts
      <4>2. \A i \in 1 .. m : i \in 1 .. Len(t) BY <3>4, <4>1
      <4> QED BY <4>1, <4>2 DEF First
    <3>10. IsLess(Without(d, t, Jobs)[m], Current, C \cup First(t, m)) BY <1>5, <3>4
    <3> QED BY <1>1, <3>7, <3>8, <3>9, <3>10
  <2> QED BY <2>1, <2>2
<1>7. u \in SetToSeqs(X) BY <1>6
<1>8. IsLess(Without(Current, u, Jobs)[Len(u)], Current, {} \cup X)
  <2>1. X \in SUBSET Jobs /\ X \cap {} = {} BY <1>6
  <2> QED BY <1>2, <1>7, <2>1, Gone
<1>9. {} \cup X = X OBVIOUS
<1>10. IsLess(Without(Current, u, Jobs)[Len(u)], Current, X) BY <1>8, <1>9
<1>11. PICK e : e = Without(Current, u, Jobs)[Len(u)] OBVIOUS
<1>12. IsLess(e, Current, X) /\ X \subseteq X BY <1>10, <1>11
<1>13. Startable(e, k) BY <1>1, <1>6, <1>12, RoomGrows
<1> QED BY <1>11, <1>13

-----------------------------------------------------------------------------
(* Preemption *)

\* Jobs can be sorted by a number they have, the largest first.
LEMMA SortedList ==
    ASSUME NEW X \in SUBSET Jobs, NEW weight \in [X -> Nat]
    PROVE  \E t \in SetToSeqs(X) :
              \A i, j \in DOMAIN t : i < j => weight[t[i]] >= weight[t[j]]
<1> DEFINE Ok(Y, f) == /\ f \in [1 .. Cardinality(Y) -> Y]
                       /\ \A i, j \in 1 .. Cardinality(Y) :
                             /\ i # j => f[i] # f[j]
                             /\ i < j => weight[f[i]] >= weight[f[j]]
           good == {n \in 0 .. Cardinality(X) : \A Y \in SUBSET X : Cardinality(Y) = n => \E f : Ok(Y, f)}
<1>1. Cardinality(X) \in Nat /\ \A Y \in SUBSET X : IsFiniteSet(Y) /\ Cardinality(Y) \in Nat
  BY CountType
<1>2. 0 \in good
  <2>1. ASSUME NEW Y \in SUBSET X, Cardinality(Y) = 0 PROVE \E f : Ok(Y, f)
    <3>1. 1 .. Cardinality(Y) = {} BY <2>1
    <3>2. Ok(Y, [i \in {} |-> i]) BY <3>1
    <3> HIDE DEF Ok
    <3> QED BY <3>2
  <2>2. 0 \in 0 .. Cardinality(X) BY <1>1
  <2> HIDE DEF Ok
  <2> QED BY <2>1, <2>2
<1>3. ASSUME NEW n \in 1 .. Cardinality(X), n - 1 \in good PROVE n \in good
  <2>1. ASSUME NEW Y \in SUBSET X, Cardinality(Y) = n PROVE \E f : Ok(Y, f)
    <3>1. Y # {} /\ n \in Nat /\ n >= 1
      <4>1. n \in Nat /\ n >= 1 BY <1>1
      <4> QED BY <2>1, <4>1, FS_EmptySet
    <3>2. PICK y \in Y : \A z \in Y : weight[y] <= weight[z]
      <4> DEFINE key == [z \in Y |-> weight[z]]
      <4>1. key \in [Y -> Nat] OBVIOUS
      <4>2. PICK y \in Y : \A z \in Y : key[y] <= key[z]
        <5> HIDE DEF key
        <5> QED BY <3>1, <4>1, LeastKey
      <4> QED BY <4>2
    <3>3. PICK Z : Z = Y \ {y} OBVIOUS
    <3>4. Z \in SUBSET X /\ Cardinality(Z) = n - 1
      <4>1. Cardinality(Y \ {y}) = Cardinality(Y) - 1
        <5>1. Y \in SUBSET Jobs OBVIOUS
        <5> QED BY <5>1, CountLeave
      <4> QED BY <2>1, <3>3, <4>1
    <3>5. PICK g : Ok(Z, g)
      <4> HIDE DEF Ok
      <4> QED BY <1>3, <3>4
    <3>6. /\ g \in [1 .. n - 1 -> Z]
          /\ \A i, j \in 1 .. n - 1 : /\ i # j => g[i] # g[j]
                                      /\ i < j => weight[g[i]] >= weight[g[j]]
      BY <3>4, <3>5
    <3> DEFINE h == [i \in 1 .. n |-> IF i = n THEN y ELSE g[i]]
    <3>7. \A i \in 1 .. n : i = n \/ i \in 1 .. n - 1 BY <3>1
    <3>8. /\ h[n] = y /\ \A i \in 1 .. n - 1 : h[i] = g[i] /\ g[i] \in Y /\ g[i] # y
      BY <3>1, <3>3, <3>6
    <3>9. h \in [1 .. n -> Y] BY <3>3, <3>6, <3>7
    <3> HIDE DEF h
    <3>10. \A z \in Y : weight[z] \in Nat OBVIOUS
    <3>11. ASSUME NEW i \in 1 .. n, NEW j \in 1 .. n
           PROVE  (i # j => h[i] # h[j]) /\ (i < j => weight[h[i]] >= weight[h[j]])
      <4>1. CASE i = n
        <5>1. ~(i < j) BY <3>1, <4>1
        <5> QED BY <3>7, <3>8, <4>1, <5>1
      <4>2. CASE i # n /\ j = n
        <5>1. i \in 1 .. n - 1 BY <3>7, <4>2
        <5>2. h[i] = g[i] /\ g[i] \in Y /\ g[i] # y /\ h[j] = y BY <3>8, <4>2, <5>1
        <5>3. weight[y] <= weight[g[i]] BY <3>2, <5>2
        <5>4. weight[g[i]] >= weight[y] BY <3>10, <5>2, <5>3
        <5> QED BY <5>2, <5>4
      <4>3. CASE i # n /\ j # n
        <5>1. i \in 1 .. n - 1 /\ j \in 1 .. n - 1 BY <3>7, <4>3
        <5> QED BY <3>6, <3>8, <5>1
      <4> QED BY <4>1, <4>2, <4>3
    <3>12. Ok(Y, h) BY <2>1, <3>9, <3>11
    <3> HIDE DEF Ok
    <3> QED BY <3>12
  <2>2. n \in 0 .. Cardinality(X) BY <1>1
  <2> HIDE DEF Ok
  <2> QED BY <2>1, <2>2
<1> HIDE DEF good
<1>4. Cardinality(X) \in good BY <1>1, <1>2, <1>3, OneByOne
<1>5. PICK f : Ok(X, f)
  <2> HIDE DEF Ok
  <2> QED BY <1>4 DEF good
<1>6. f \in SetToSeqs(X) /\ DOMAIN f = 1 .. Cardinality(X) BY <1>5 DEF SetToSeqs
<1> QED BY <1>5, <1>6

\* Where a pass over the candidates stops.
LEMMA StopFacts ==
    ASSUME NEW s \in Seq(Jobs), NEW gone, NEW k
    PROVE  /\ (\A i \in 1 .. Len(s) : ~Startable(gone[i], k)) => Stop(gone, s, k) = 0
           /\ (\E i \in 1 .. Len(s) : Startable(gone[i], k)) =>
                 /\ Stop(gone, s, k) \in 1 .. Len(s) /\ Startable(gone[Stop(gone, s, k)], k)
                 /\ \A i \in 1 .. Len(s) : Startable(gone[i], k) => Stop(gone, s, k) <= i
<1> DEFINE enough == {i \in DOMAIN s : Startable(gone[i], k)}
<1>1. DOMAIN s = 1 .. Len(s) /\ Len(s) \in Nat OBVIOUS
<1>2. Stop(gone, s, k) = IF enough = {} THEN 0 ELSE Min(enough) BY DEF Stop
<1>3. ASSUME enough # {} PROVE Min(enough) \in enough /\ \A i \in enough : Min(enough) <= i
  <2>1. enough \in SUBSET Nat BY <1>1
  <2> HIDE DEF enough
  <2>2. \E x \in enough : \A y \in enough : x <= y BY <1>3, <2>1, LeastOne
  <2> QED BY <2>2 DEF Min
<1> QED BY <1>1, <1>2, <1>3

\* Job k cannot start on d, the books c without V, but could if U were gone, too.
Helped(c, d, V, U, k) ==
    /\ nodes \in Allocations
    /\ V \in SUBSET Jobs /\ IsLess(d, c, V) /\ ~Startable(d, k)
    /\ U \in SUBSET Requeued /\ U \cap V = {}
    /\ \E e : IsLess(e, c, V \cup U) /\ Startable(e, k)

\* With the first p jobs of list u gone, too, k can start; with one less it cannot.
StopsAt(c, V, U, u, gone, k, p) ==
    /\ p \in 1 .. Len(u) /\ Startable(gone[p], k)
    /\ IsLess(gone[p], c, V \cup First(u, p)) /\ First(u, p) \subseteq U
    /\ \E q : /\ ~Startable(gone[q], k) /\ IsLess(gone[q], c, V \cup First(u, q))
              /\ First(u, p) = First(u, q) \cup {u[p]}

\* A pass over U comes to a stop, and not before the job can start.
LEMMA PassStops ==
    ASSUME NEW c, NEW d, NEW V, NEW U, NEW k \in Jobs, Helped(c, d, V, U, k),
           NEW u \in SetToSeqs(U), NEW gone, gone = Without(d, u, ByMode), NEW p, p = Stop(gone, u, k)
    PROVE  StopsAt(c, V, U, u, gone, k, p)
<1>0. /\ nodes \in Allocations /\ V \in SUBSET Jobs /\ IsLess(d, c, V) /\ ~Startable(d, k)
      /\ U \in SUBSET Requeued /\ U \cap V = {}
  BY DEF Helped
<1> PICK e : IsLess(e, c, V \cup U) /\ Startable(e, k) BY DEF Helped
<1>1. U \in SUBSET Jobs /\ V \cup U \in SUBSET Jobs /\ U \subseteq ByMode
  BY <1>0, PlanAssumption DEF ByMode
<1>2. /\ u \in Seq(Jobs) /\ Len(u) \in Nat /\ \A i \in 1 .. Len(u) : u[i] \in U
  BY <1>1, ListFacts
<1>3. /\ \A i \in 0 .. Len(u) : IsLess(gone[i], c, V \cup First(u, i))
      /\ IsLess(gone[Len(u)], c, V \cup U)
  BY <1>0, <1>1, Gone
<1>4. gone[0] = d
  <2>1. d \in Books BY <1>0 DEF IsLess, Covers
  <2> QED BY <1>0, <1>2, <2>1, WithoutIs
<1>5. Startable(gone[Len(u)], k)
  <2>1. PICK b : b = gone[Len(u)] OBVIOUS
  <2>2. IsLess(b, c, V \cup U) BY <1>3, <2>1
  <2>3. V \cup U \subseteq V \cup U OBVIOUS
  <2>4. Startable(b, k) BY <1>1, <2>2, <2>3, RoomGrows
  <2> QED BY <2>1, <2>4
<1>6. Len(u) # 0 BY <1>0, <1>4, <1>5
<1>7. Len(u) \in 1 .. Len(u) BY <1>2, <1>6
<1>8. /\ p \in 1 .. Len(u) /\ Startable(gone[p], k)
      /\ \A i \in 1 .. Len(u) : Startable(gone[i], k) => p <= i
  BY <1>2, <1>5, <1>7, StopFacts
<1>9. ~Startable(gone[p - 1], k)
  <2>1. CASE p = 1
    <3>1. p - 1 = 0 BY <2>1
    <3> QED BY <1>0, <1>4, <3>1
  <2>2. CASE p # 1
    <3>1. p - 1 \in 1 .. Len(u) /\ ~(p <= p - 1) BY <1>2, <1>8, <2>2
    <3> QED BY <1>8, <3>1
  <2> QED BY <2>1, <2>2
<1>10. p \in 0 .. Len(u) /\ p - 1 \in 0 .. Len(u) BY <1>2, <1>8
<1>11. First(u, p) \subseteq U BY <1>2, <1>8 DEF First
<1>12. First(u, p) = First(u, p - 1) \cup {u[p]}
  <2>1. p \in Nat /\ p >= 1 BY <1>2, <1>8
  <2>2. \A m \in 1 .. p : m = p \/ m \in 1 .. p - 1 BY <2>1
  <2>3. \A m \in 1 .. p - 1 : m \in 1 .. p BY <2>1
  <2>4. p \in 1 .. p BY <2>1
  <2> QED BY <2>2, <2>3, <2>4 DEF First
<1> QED BY <1>3, <1>8, <1>9, <1>10, <1>11, <1>12 DEF StopsAt

\* Such a pass has an answer: all nodes the job may have.
LEMMA PassAnswers ==
    ASSUME NEW c, NEW s, NEW k, NEW weight, NEW gone, gone = Without(c, s, ByMode),
           Startable(gone[Stop(gone, s, k)], k)
    PROVE  Preempted(c, s, k, weight) # {}
<1>1. Cardinality(Room(gone[Stop(gone, s, k)], k)) >= MinNodes[k] BY DEF Startable
<1> QED BY <1>1 DEF Preempted

\* Whoever can start when all candidates are gone, is shown some to preempt.
LEMMA PreemptionAnswers ==
    ASSUME NEW c, NEW d, NEW V, NEW U, NEW k \in Jobs, Helped(c, d, V, U, k),
           NEW u \in SetToSeqs(U)
    PROVE  Preemption(d, u, k) # {}
<1>1. PICK gone : gone = Without(d, u, ByMode) OBVIOUS
<1>2. PICK p : p = Stop(gone, u, k) OBVIOUS
<1>3. p \in 1 .. Len(u) /\ Startable(gone[p], k) BY <1>1, <1>2, PassStops DEF StopsAt
<1>4. U \in SUBSET Jobs BY PlanAssumption DEF Helped
<1>5. u \in Seq(Jobs) /\ Len(u) \in Nat /\ DOMAIN u = 1 .. Len(u) /\ ToSet(u) = U BY <1>4, ListFacts
<1>6. p # 0 /\ u # <<>>
  <2>1. p # 0 BY <1>3, <1>5
  <2>2. Len(u) # 0 BY <1>3, <1>5
  <2> QED BY <2>1, <2>2
<1> DEFINE zero == [x \in ToSet(u) |-> 0]
           weight == [AfterPass(gone, u, k, zero) EXCEPT ![u[p]] = 9999]
<1>7. CASE Len(u) = 1
  <2>1. Preemption(d, u, k) = Preempted(d, u, k, zero) BY <1>1, <1>2, <1>6, <1>7 DEF Preemption
  <2> HIDE DEF zero
  <2>2. Preempted(d, u, k, zero) # {} BY <1>1, <1>2, <1>3, PassAnswers
  <2> QED BY <2>1, <2>2
<1>8. CASE Len(u) # 1
  <2>1. Preemption(d, u, k) = UNION {Preempted(d, t, k, weight) : t \in Sorted(u, weight)}
    BY <1>1, <1>2, <1>6, <1>8 DEF Preemption
  <2>2. weight \in [U -> Nat]
    <3>1. ASSUME NEW x \in ToSet(u) PROVE AfterPass(gone, u, k, zero)[x] \in Nat
      <4>1. PICK i : i = CHOOSE n \in DOMAIN u : u[n] = x OBVIOUS
      <4>2. Freed(gone, u, k, i) \in Nat
        <5>1. Room(gone[i], k) \cap nodes[u[i]] \in SUBSET Room(gone[i], k) OBVIOUS
        <5> QED BY <5>1, RoomTypes DEF Freed
      <4>3. AfterPass(gone, u, k, zero)[x] = IF i <= Stop(gone, u, k) THEN Freed(gone, u, k, i) ELSE zero[x]
        BY <4>1 DEF AfterPass
      <4>4. zero[x] = 0 OBVIOUS
      <4> QED BY <4>2, <4>3, <4>4
    <3>2. AfterPass(gone, u, k, zero) = [x \in ToSet(u) |-> AfterPass(gone, u, k, zero)[x]]
      BY DEF AfterPass
    <3>3. AfterPass(gone, u, k, zero) \in [ToSet(u) -> Nat] BY <3>1, <3>2
    <3>4. PICK f : f = AfterPass(gone, u, k, zero) OBVIOUS
    <3>5. f \in [U -> Nat] BY <1>5, <3>3, <3>4
    <3>6. \A m \in Nat : [f EXCEPT ![u[p]] = m] \in [U -> Nat] BY <3>5
    <3>7. 9999 \in Nat OBVIOUS
    <3>8. [f EXCEPT ![u[p]] = 9999] \in [U -> Nat] BY <3>6, <3>7
    <3> QED BY <3>4, <3>8
  <2> HIDE DEF weight
  <2>3. PICK t \in SetToSeqs(U) : \A i, j \in DOMAIN t : i < j => weight[t[i]] >= weight[t[j]]
    BY <1>4, <2>2, SortedList
  <2>4. t \in Sorted(u, weight) BY <1>5, <2>3 DEF Sorted
  <2>5. PICK gone2 : gone2 = Without(d, t, ByMode) OBVIOUS
  <2>6. PICK q : q = Stop(gone2, t, k) OBVIOUS
  <2>7. Startable(gone2[q], k) BY <2>5, <2>6, PassStops DEF StopsAt
  <2>8. Preempted(d, t, k, weight) # {} BY <2>5, <2>6, <2>7, PassAnswers
  <2> QED BY <2>1, <2>4, <2>8
<1> QED BY <1>7, <1>8

\* What an answer comes from: a pass over all candidates that made it possible.
LEMMA AnswerFrom ==
    ASSUME NEW c, NEW T \in SUBSET Jobs, NEW s \in SetToSeqs(T), NEW k, NEW a \in Preemption(c, s, k)
    PROVE  /\ Stop(Without(c, s, ByMode), s, k) # 0
           /\ \E t \in SetToSeqs(T) : \E weight : a \in Preempted(c, t, k, weight)
<1>1. ToSet(s) = T BY ListFacts
<1>2. PICK gone : gone = Without(c, s, ByMode) OBVIOUS
<1>3. PICK stop : stop = Stop(gone, s, k) OBVIOUS
<1> DEFINE zero == [x \in ToSet(s) |-> 0]
           weight == [AfterPass(gone, s, k, zero) EXCEPT ![s[stop]] = 9999]
<1>4. /\ stop # 0
      /\ a \in IF Len(s) = 1 THEN Preempted(c, s, k, zero)
               ELSE UNION {Preempted(c, t, k, weight) : t \in Sorted(s, weight)}
  BY <1>2, <1>3 DEF Preemption
<1> HIDE DEF zero, weight
<1>5. CASE Len(s) = 1 BY <1>2, <1>3, <1>4, <1>5
<1>6. CASE Len(s) # 1
  <2>1. PICK t \in Sorted(s, weight) : a \in Preempted(c, t, k, weight) BY <1>4, <1>6
  <2>2. t \in SetToSeqs(T) BY <1>1, <2>1 DEF Sorted
  <2> QED BY <1>2, <1>3, <1>4, <2>1, <2>2
<1> QED BY <1>5, <1>6

\* The candidate at which the pass stops frees a node of the answer, so that it
\* is on the list of those to preempt.
LEMMA LastIsVictim ==
    ASSUME NEW c, NEW d, NEW V, NEW U, NEW k \in Jobs, Helped(c, d, V, U, k),
           NEW t \in SetToSeqs(U), NEW weight, NEW a \in Preempted(d, t, k, weight)
    PROVE  a.victims # {}
<1>1. PICK gone : gone = Without(d, t, ByMode) OBVIOUS
<1>2. PICK p : p = Stop(gone, t, k) OBVIOUS
<1>3. StopsAt(c, V, U, t, gone, k, p) BY <1>1, <1>2, PassStops
<1> PICK q : /\ ~Startable(gone[q], k) /\ IsLess(gone[q], c, V \cup First(t, q))
             /\ First(t, p) = First(t, q) \cup {t[p]}
  BY <1>3 DEF StopsAt
<1> /\ p \in 1 .. Len(t)
    /\ IsLess(gone[p], c, V \cup First(t, p)) /\ First(t, p) \subseteq U
  BY <1>3 DEF StopsAt
<1>4. V \in SUBSET Jobs /\ U \in SUBSET Jobs BY PlanAssumption DEF Helped
<1>5. /\ DOMAIN t = 1 .. Len(t) /\ ToSet(t) = U
      /\ \A i, j \in 1 .. Len(t) : t[i] = t[j] => i = j
  BY <1>4, ListFacts
<1> DEFINE usable == AfterPass(gone, t, k, weight)
<1>6. PICK S \in SUBSET Room(gone[p], k) :
         /\ Cardinality(S) >= MinNodes[k]
         /\ a.victims = {x \in U : nodes[x] \cap S # {} /\ usable[x] # 0}
  BY <1>1, <1>2, <1>5 DEF Preempted
<1>7. PICK x : x = t[p] /\ x \in U BY <1>3
<1>8. PICK n \in S : n \notin Room(gone[q], k)
  <2> SUFFICES ASSUME S \subseteq Room(gone[q], k) PROVE FALSE OBVIOUS
  <2>1. PICK b : b = gone[q] OBVIOUS
  <2>2. Cardinality(S) \in Nat /\ Cardinality(S) <= Cardinality(Room(b, k)) BY <2>1, RoomTypes
  <2>3. Cardinality(Room(b, k)) \in Nat /\ MinNodes[k] \in Nat BY RoomTypes
  <2>4. Startable(b, k) BY <1>6, <2>2, <2>3 DEF Startable
  <2> QED BY <1>3, <2>1, <2>4
<1>9. n \in nodes[x]
  <2> SUFFICES ASSUME n \notin nodes[x] PROVE FALSE OBVIOUS
  <2>1. PICK X, Y : X = V \cup First(t, p) /\ Y = V \cup First(t, q) OBVIOUS
  <2>2. X \in SUBSET Jobs /\ Y \in SUBSET Jobs BY <1>3, <1>4, <2>1
  <2>3. \A j \in X : n \in nodes[j] => j \in Y BY <1>3, <1>7, <2>1
  <2>4. PICK b, e : b = gone[p] /\ e = gone[q] OBVIOUS
  <2>5. IsLess(b, c, X) /\ IsLess(e, c, Y) /\ n \in Room(b, k) BY <1>3, <2>1, <2>4
  <2>6. n \in Room(e, k) BY <2>2, <2>3, <2>5, RoomAt
  <2> QED BY <1>8, <2>4, <2>6
<1>10. usable[x] # 0
  <2>1. p = CHOOSE i \in DOMAIN t : t[i] = x BY <1>3, <1>5, <1>7
  <2>2. p <= p
    <3>1. Len(t) \in Nat BY <1>4, ListFacts
    <3> QED BY <1>3, <3>1
  <2>3. usable[x] = Freed(gone, t, k, p) BY <1>2, <1>5, <1>7, <2>1, <2>2 DEF AfterPass
  <2>4. n \in Room(gone[p], k) \cap nodes[t[p]] BY <1>7, <1>9
  <2>5. IsFiniteSet(Room(gone[p], k) \cap nodes[t[p]]) BY RoomTypes, FS_Subset
  <2>6. Cardinality(Room(gone[p], k) \cap nodes[t[p]]) # 0 BY <2>4, <2>5, FS_EmptySet
  <2> QED BY <2>3, <2>6 DEF Freed
<1> QED BY <1>6, <1>7, <1>8, <1>9, <1>10

\* When those have gone that are on nodes of the answer, the job may have these.
LEMMA AnswerIsRoom ==
    ASSUME NEW c, NEW d, NEW V, NEW U, NEW k \in Jobs, Helped(c, d, V, U, k),
           NEW t \in SetToSeqs(U), NEW weight, NEW a \in Preempted(d, t, k, weight),
           NEW e, IsLess(e, c, V \cup {x \in U : nodes[x] \cap a.nodes # {}})
    PROVE  a.nodes \subseteq Room(e, k)
<1>1. PICK gone : gone = Without(d, t, ByMode) OBVIOUS
<1>2. PICK p : p = Stop(gone, t, k) OBVIOUS
<1>3. IsLess(gone[p], c, V \cup First(t, p)) /\ First(t, p) \subseteq U
  BY <1>1, <1>2, PassStops DEF StopsAt
<1>4. V \in SUBSET Jobs /\ U \in SUBSET Jobs BY PlanAssumption DEF Helped
<1>5. a.nodes \subseteq Room(gone[p], k) BY <1>1, <1>2 DEF Preempted
<1> SUFFICES ASSUME NEW n \in a.nodes PROVE n \in Room(e, k) OBVIOUS
<1>6. PICK X, Y : X = V \cup First(t, p) /\ Y = V \cup {x \in U : nodes[x] \cap a.nodes # {}} OBVIOUS
<1>7. X \in SUBSET Jobs /\ Y \in SUBSET Jobs BY <1>3, <1>4, <1>6
<1>8. \A j \in X : n \in nodes[j] => j \in Y BY <1>3, <1>6
<1>9. PICK b : b = gone[p] OBVIOUS
<1>10. IsLess(b, c, X) /\ IsLess(e, c, Y) /\ n \in Room(b, k) BY <1>3, <1>5, <1>6, <1>9
<1> QED BY <1>7, <1>8, <1>10, RoomAt

\* Preemption leads on.
LEMMA LeadsOn == SelectInv => PreemptionLeadsOn
<1> DEFINE after(t) == Without(Current, t, Jobs)[Len(t)]
<1> SUFFICES ASSUME SelectInv, NEW k \in Pending, ~Startable(Current, k),
                    NEW s \in Lists(ActiveJobs \cap Requeued), NEW a \in Preemption(Current, s, k)
             PROVE  /\ a.victims # {}
                    /\ a.nodes \subseteq Room(after(SetToSeq({x \in ToSet(s) : nodes[x] \cap a.nodes # {}})), k)
                    /\ LET d == after(SetToSeq({x \in a.victims : nodes[x] \cap a.nodes # {}}))
                       IN  \/ Startable(d, k)
                           \/ \A u \in SetToSeqs(ToSet(s) \ a.victims) : Preemption(d, u, k) # {}
  BY DEF PreemptionLeadsOn
<1>1. PICK T \in SUBSET (ActiveJobs \cap Requeued) : s \in SetToSeqs(T) BY DEF Lists
<1>2. k \in Jobs /\ T \in SUBSET Jobs /\ T \in SUBSET Requeued /\ T \subseteq ByMode
  BY DEF Pending, ActiveJobs, ByMode
<1>3. ToSet(s) = T /\ s \in Seq(Jobs) /\ Len(s) \in Nat BY <1>1, <1>2, ListFacts
<1>4. nodes \in Allocations /\ IsLess(Current, Current, {}) BY Copy
<1>5. ASSUME NEW Y \in SUBSET Jobs PROVE IsLess(after(SetToSeq(Y)), Current, Y)
  <2>1. SetToSeq(Y) \in SetToSeqs(Y) /\ Y \cap {} = {} /\ Y \subseteq Jobs BY SomeList
  <2>2. IsLess(after(SetToSeq(Y)), Current, {} \cup Y) BY <1>4, <2>1, Gone
  <2>3. {} \cup Y = Y OBVIOUS
  <2> QED BY <2>2, <2>3
<1>6. /\ Stop(Without(Current, s, ByMode), s, k) # 0
      /\ \E t \in SetToSeqs(T) : \E weight : a \in Preempted(Current, t, k, weight)
  BY <1>1, <1>2, AnswerFrom
<1>7. PICK e : IsLess(e, Current, T) /\ Startable(e, k)
  <2>1. PICK gone : gone = Without(Current, s, ByMode) OBVIOUS
  <2>2. PICK p : p = Stop(gone, s, k) OBVIOUS
  <2>3. p \in 1 .. Len(s) /\ Startable(gone[p], k) BY <1>3, <1>6, <2>1, <2>2, StopFacts
  <2>4. T \cap {} = {} OBVIOUS
  <2>5. \A i \in 0 .. Len(s) : IsLess(gone[i], Current, {} \cup First(s, i))
    BY <1>1, <1>2, <1>4, <2>1, <2>4, Gone
  <2>6. p \in 0 .. Len(s) BY <1>3, <2>3
  <2>7. {} \cup First(s, p) = First(s, p) OBVIOUS
  <2>8. IsLess(gone[p], Current, First(s, p)) BY <2>5, <2>6, <2>7
  <2>9. First(s, p) \subseteq T
    <3>1. \A i \in 1 .. Len(s) : s[i] \in T BY <1>1, <1>2, ListFacts
    <3>2. \A i \in 1 .. p : i \in 1 .. Len(s) BY <1>3, <2>3
    <3> QED BY <3>1, <3>2 DEF First
  <2>10. PICK b, X : b = gone[p] /\ X = First(s, p) OBVIOUS
  <2>11. IsLess(b, Current, X) /\ X \subseteq T /\ X \in SUBSET Jobs /\ Startable(b, k)
    BY <1>2, <2>3, <2>8, <2>9, <2>10
  <2>12. IsLess(after(SetToSeq(T)), Current, T) BY <1>2, <1>5
  <2> HIDE DEF after
  <2>13. Startable(after(SetToSeq(T)), k) BY <1>2, <2>11, <2>12, RoomGrows
  <2> QED BY <2>12, <2>13
<1>8. Helped(Current, Current, {}, T, k)
  <2>1. {} \cup T = T /\ T \cap {} = {} OBVIOUS
  <2> QED BY <1>2, <1>4, <1>7, <2>1 DEF Helped
<1>9. PICK t, weight : t \in SetToSeqs(T) /\ a \in Preempted(Current, t, k, weight)
  BY <1>6
<1>10. a.victims # {} BY <1>2, <1>8, <1>9, LastIsVictim
<1>11. a.victims \subseteq {x \in T : nodes[x] \cap a.nodes # {}}
  <2>1. ToSet(t) = T BY <1>2, <1>9, ListFacts
  <2> QED BY <1>9, <2>1 DEF Preempted
<1>12. a.nodes \subseteq Room(after(SetToSeq({x \in ToSet(s) : nodes[x] \cap a.nodes # {}})), k)
  <2>1. PICK Y : Y = {x \in T : nodes[x] \cap a.nodes # {}} OBVIOUS
  <2>2. Y \in SUBSET Jobs /\ {} \cup Y = Y BY <1>2, <2>1
  <2>3. IsLess(after(SetToSeq(Y)), Current, Y) BY <1>5, <2>2
  <2> HIDE DEF after
  <2>4. PICK b : b = after(SetToSeq(Y)) OBVIOUS
  <2>5. IsLess(b, Current, {} \cup {x \in T : nodes[x] \cap a.nodes # {}}) BY <2>1, <2>2, <2>3, <2>4
  <2>6. a.nodes \subseteq Room(b, k) BY <1>2, <1>8, <1>9, <2>5, AnswerIsRoom
  <2> QED BY <1>3, <2>1, <2>4, <2>6
<1>13. PICK V : V = a.victims OBVIOUS
<1>14. V \in SUBSET Jobs /\ V \subseteq T /\ {x \in V : nodes[x] \cap a.nodes # {}} = V
  BY <1>2, <1>11, <1>13
<1>15. PICK d : d = after(SetToSeq(V)) OBVIOUS
<1>16. IsLess(d, Current, V) BY <1>5, <1>14, <1>15
<1>17. Startable(d, k) \/ \A u \in SetToSeqs(ToSet(s) \ V) : Preemption(d, u, k) # {}
  <2> SUFFICES ASSUME ~Startable(d, k), NEW u \in SetToSeqs(ToSet(s) \ V)
               PROVE  Preemption(d, u, k) # {}
    OBVIOUS
  <2>1. PICK U : U = T \ V OBVIOUS
  <2>2. U \in SUBSET Requeued /\ U \cap V = {} /\ V \cup U = T /\ u \in SetToSeqs(U)
    BY <1>2, <1>3, <1>14, <2>1
  <2>3. Helped(Current, d, V, U, k) BY <1>4, <1>7, <1>14, <1>16, <2>2 DEF Helped
  <2> QED BY <1>2, <2>2, <2>3, PreemptionAnswers
<1> HIDE DEF after
<1> QED BY <1>10, <1>12, <1>13, <1>14, <1>15, <1>17

-----------------------------------------------------------------------------
(* The theorems *)

\* In every state the list of jobs to preempt leads on to a start
\* (_run_now, lines 3300-3349).
THEOREM PreemptionAlwaysLeadsOn == Spec => []PreemptionLeadsOn
BY SelectInvHolds, LeadsOn, PTL

\* A job is told a time at which it can start (_will_run_test, lines 3489-3513).
THEOREM WillRunAlwaysKept == Spec => []WillRunKept
BY SelectInvHolds, PromiseKept, PTL

\* A job that could run in an empty partition is told a time when all active
\* jobs count, TEST_NOW_ONLY is not set and candidates are not suspended, as
\* long as no books were kept through a suspension (lines 3489-3513).
THEOREM WillRunFindsTimeHolds == Spec => []WillRunFindsTime
BY SelectInvHolds, FindsTime, PTL

=============================================================================
