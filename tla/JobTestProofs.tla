---------------------------- MODULE JobTestProofs ----------------------------
(***************************************************************************)
(* _job_test on a row of nodes: what is known at each round of its loops   *)
(* (RowInv), and that what it answers is then true (Promises).  The        *)
(* theorems are in CubeTestProofs, together with the other networks.       *)
(***************************************************************************)
EXTENDS CubeTest, TotalsProofs

\* The best set is found by one pass over the table.
LEMMA BestFitPass ==
    ASSUME N \in Nat
    PROVE  \E best \in [0 .. N -> 0 .. N] :
              /\ best[0] = NoNode
              /\ \A i \in 1 .. N :
                    LET b == best[i - 1]
                    IN  best[i] = IF Considered(i) /\ (b = NoNode \/ Better(i, b)) THEN i ELSE b
              /\ BestFit = IF Scattered THEN NoNode ELSE best[N]
<1> DEFINE next(i, b) == IF Considered(i) /\ (b = NoNode \/ Better(i, b)) THEN i ELSE b
           step == [p \in (1 .. N) \X (0 .. N) |-> next(p[1], p[2])]
           pass == CHOOSE g : g = [i \in 0 .. N |-> IF i = 0 THEN NoNode ELSE next(i, g[i - 1])]
<1>1. step \in [(1 .. N) \X (0 .. N) -> 0 .. N] OBVIOUS
<1>2. \A i \in 1 .. N, b \in 0 .. N : step[<<i, b>>] = next(i, b) OBVIOUS
<1>3. NoNode \in 0 .. N /\ NoNode = 0 BY DEF NoNode
<1>6. BestFit = IF Scattered THEN NoNode ELSE pass[N] BY DEF BestFit
<1> HIDE DEF step, next, pass
<1>4. PICK f \in [0 .. N -> 0 .. N] : f[0] = NoNode /\ \A i \in 1 .. N : f[i] = step[<<i, f[i - 1]>>]
  <2>1. Walks(N, 0 .. N, NoNode, step) # {} BY <1>1, <1>3, StepByStep
  <2> QED BY <2>1 DEF Walks
<1>5. \A i \in 1 .. N : f[i] = next(i, f[i - 1])
  <2>1. \A i \in 1 .. N : f[i - 1] \in 0 .. N OBVIOUS
  <2> QED BY <1>2, <1>4, <2>1
<1>7. f = [i \in 0 .. N |-> IF i = 0 THEN NoNode ELSE next(i, f[i - 1])]
  <2>1. \A i \in 0 .. N : i = 0 \/ i \in 1 .. N OBVIOUS
  <2>2. \A i \in 0 .. N : f[i] = IF i = 0 THEN NoNode ELSE next(i, f[i - 1]) BY <1>4, <1>5, <2>1
  <2> QED BY <2>2
<1>8. pass = [i \in 0 .. N |-> IF i = 0 THEN NoNode ELSE next(i, pass[i - 1])] BY <1>7 DEF pass
<1>9. pass[0] = NoNode /\ \A i \in 1 .. N : pass[i] = next(i, pass[i - 1])
  <2>1. \A i \in 0 .. N : pass[i] = IF i = 0 THEN NoNode ELSE next(i, pass[i - 1]) BY <1>8, Zenon
  <2>2. \A i \in 1 .. N : i # 0 /\ i \in 0 .. N OBVIOUS
  <2> QED BY <2>1, <2>2, <1>3
<1>10. \A i \in 0 .. N : pass[i] = f[i]
  <2> DEFINE same == {i \in 0 .. N : pass[i] = f[i]}
  <2>1. 0 \in same BY <1>3, <1>4, <1>9
  <2>2. ASSUME NEW i \in 1 .. N, i - 1 \in same PROVE i \in same BY <1>5, <1>9, <2>2
  <2> HIDE DEF same
  <2>3. 0 .. N \subseteq same BY <2>1, <2>2, OneByOne
  <2> QED BY <2>3 DEF same
<1>11. pass[N] = f[N] BY <1>10
<1> QED BY <1>4, <1>5, <1>6, <1>11 DEF next

-----------------------------------------------------------------------------
(* Nodes and CPUs *)

\* What is known of a call.
LEMMA Call ==
    ASSUME request \in Requests
    PROVE  /\ N \in Nat /\ request \in RequestType
           /\ request.avail \in SUBSET Nodes /\ request.required \in SUBSET Nodes
           /\ request.cpus \in [Nodes -> Nat]
           /\ request.minNodes \in Nat /\ request.reqNodes \in Nat /\ request.maxNodes \in Nat
           /\ 1 <= request.minNodes /\ request.minNodes <= request.reqNodes
           /\ request.reqNodes <= request.maxNodes
           /\ Cardinality(request.required) <= request.minNodes
           /\ request.minCpus \in Nat /\ request.contiguous \in BOOLEAN
           /\ request.waited \in BOOLEAN /\ request.reqSwitch \in Nat
BY JobTestAssumption DEF RequestType

\* Sets of nodes are finite: the node table is.
LEMMA FiniteNodes ==
    ASSUME N \in Nat, NEW S \in SUBSET Nodes
    PROVE  IsFiniteSet(S) /\ Cardinality(S) \in Nat
<1>1. IsFiniteSet(Nodes) BY FS_Interval DEF Nodes
<1> QED BY <1>1, FS_Subset, FS_CardinalityType

\* The CPUs of a set can be added up.
LEMMA SomeCpus ==
    ASSUME request \in Requests, NEW S \in SUBSET Nodes
    PROVE  Summable(request.cpus, S) /\ CpusOf(S) \in Nat
<1>1. request.cpus \in [Nodes -> Nat] /\ N \in Nat BY Call
<1>2. Summable(request.cpus, S) BY <1>1, FiniteNodes DEF Summable
<1> QED BY <1>2, TotalType DEF CpusOf

\* Nothing has no CPUs.
LEMMA NoCpus == Cardinality({}) = 0 /\ CpusOf({}) = 0
BY FS_EmptySet, TotalEmpty DEF CpusOf

\* A larger set.
LEMMA MoreNodes ==
    ASSUME request \in Requests, NEW T \in SUBSET Nodes, NEW S \in SUBSET T
    PROVE  Cardinality(S) <= Cardinality(T) /\ CpusOf(S) <= CpusOf(T)
<1>1. N \in Nat BY Call
<1>2. S \in SUBSET Nodes OBVIOUS
<1>3. Summable(request.cpus, S) /\ Summable(request.cpus, T) BY <1>2, SomeCpus
<1>4. \A x \in S : request.cpus[x] <= request.cpus[x] BY <1>3 DEF Summable
<1>5. CpusOf(S) <= CpusOf(T) BY <1>3, <1>4, TotalMonotone DEF CpusOf
<1> QED BY <1>1, <1>5, FiniteNodes, FS_Subset

\* Nodes join others.
LEMMA NodesJoin ==
    ASSUME request \in Requests, NEW S \in SUBSET Nodes, NEW T \in SUBSET Nodes, S \cap T = {}
    PROVE  /\ Cardinality(S \cup T) = Cardinality(S) + Cardinality(T)
           /\ CpusOf(S \cup T) = CpusOf(S) + CpusOf(T)
<1>1. N \in Nat BY Call
<1>2. /\ IsFiniteSet(S) /\ IsFiniteSet(T)
      /\ Cardinality(S) \in Nat /\ Cardinality(T) \in Nat
  BY <1>1, FiniteNodes
<1>3. Cardinality(S \cap T) = 0 BY FS_EmptySet
<1>4. Cardinality(S \cup T) = Cardinality(S) + Cardinality(T) - Cardinality(S \cap T)
  BY <1>2, FS_Union
<1>5. S \cup T \in SUBSET Nodes OBVIOUS
<1>6. Summable(request.cpus, S \cup T) BY <1>5, SomeCpus
<1>7. CpusOf(S \cup T) = CpusOf(S) + CpusOf(T) BY <1>6, TotalUnion DEF CpusOf
<1> QED BY <1>2, <1>3, <1>4, <1>7

\* One more node counts once, with its CPUs.
LEMMA NodeJoins ==
    ASSUME request \in Requests, NEW S \in SUBSET Nodes, NEW n \in Nodes \ S
    PROVE  /\ Cardinality(S \cup {n}) = Cardinality(S) + 1
           /\ CpusOf(S \cup {n}) = CpusOf(S) + request.cpus[n]
<1>1. N \in Nat BY Call
<1>2. IsFiniteSet(S) BY <1>1, FiniteNodes
<1>3. S \cup {n} \in SUBSET Nodes OBVIOUS
<1>4. Summable(request.cpus, S \cup {n}) BY <1>3, SomeCpus
<1> QED BY <1>2, <1>4, FS_AddElement, TotalJoin DEF CpusOf

-----------------------------------------------------------------------------
(* As many as are wanted *)

\* No two nodes have the same place.
LEMMA Places ==
    ASSUME N \in Nat, NEW from \in 1 .. N + 1
    PROVE  /\ \A n \in Nodes : Place(n, from) \in Nat
           /\ \A m, n \in Nodes : Place(m, from) = Place(n, from) => m = n
BY DEF Place, Nodes

\* Those that are taken come before those that are not.
LEMMA SomeFirst ==
    ASSUME request \in Requests, NEW free \in SUBSET Nodes, NEW from \in 1 .. N + 1,
           maxNodes \in Int, remNodes \in Int, remCpus \in Int,
           NEW n \in Some(free, from), NEW m \in free, Place(m, from) < Place(n, from)
    PROVE  m \in Some(free, from)
<1> DEFINE P == Before(m, free, from)
           Q == Before(n, free, from)
<1>1. N \in Nat BY Call
<1>2. n \in free BY DEF Some
<1>3. P \in SUBSET Q /\ Q \in SUBSET Nodes BY <1>1, <1>2, Places DEF Before
<1>4. Cardinality(P) <= Cardinality(Q) /\ CpusOf(P) <= CpusOf(Q) BY <1>3, MoreNodes
<1>5. /\ Cardinality(P) \in Nat /\ Cardinality(Q) \in Nat
      /\ CpusOf(P) \in Nat /\ CpusOf(Q) \in Nat
  BY <1>1, <1>3, FiniteNodes, SomeCpus
<1>6. Cardinality(Q) < maxNodes /\ (Cardinality(Q) < remNodes \/ CpusOf(Q) < remCpus)
  BY DEF Some
<1>7. Cardinality(P) < maxNodes /\ (Cardinality(P) < remNodes \/ CpusOf(P) < remCpus)
  BY <1>4, <1>5, <1>6
<1> QED BY <1>7 DEF Some

\* All are taken, or one more would be too many or is not wanted.
LEMMA SomeEnough ==
    ASSUME request \in Requests, NEW free \in SUBSET Nodes, NEW from \in 1 .. N + 1,
           maxNodes \in Int, remNodes \in Int, remCpus \in Int
    PROVE  LET S == Some(free, from)
           IN  \/ S = free
               \/ Cardinality(S) >= maxNodes
               \/ Cardinality(S) >= remNodes /\ CpusOf(S) >= remCpus
<1> DEFINE S == Some(free, from)
           key == [n \in free \ S |-> Place(n, from)]
<1>0. N \in Nat BY Call
<1> SUFFICES ASSUME S # free
             PROVE  \/ Cardinality(S) >= maxNodes
                    \/ Cardinality(S) >= remNodes /\ CpusOf(S) >= remCpus
  OBVIOUS
<1>1. S \in SUBSET free /\ free \ S # {} BY DEF Some
<1>2. key \in [free \ S -> Nat] BY <1>0, Places
<1>3. PICK n \in free \ S : \A k \in free \ S : key[n] <= key[k] BY <1>1, <1>2, LeastKey
<1>4. Before(n, free, from) = S
  <2>1. ASSUME NEW m \in Before(n, free, from), m \notin S PROVE FALSE
    <3>1. m \in free \ S /\ Place(m, from) < Place(n, from) BY <2>1 DEF Before
    <3>2. Place(n, from) <= Place(m, from) BY <1>3, <3>1
    <3>3. Place(n, from) \in Nat /\ Place(m, from) \in Nat BY <1>0, <3>1, Places
    <3> QED BY <3>1, <3>2, <3>3
  <2>2. ASSUME NEW m \in S PROVE m \in Before(n, free, from)
    <3>1. m \in free /\ m # n BY <1>1
    <3>2. Place(n, from) \in Nat /\ Place(m, from) \in Nat /\ Place(m, from) # Place(n, from)
      BY <1>0, <3>1, Places
    <3>3. ~(Place(n, from) < Place(m, from)) BY <1>3, SomeFirst
    <3> QED BY <3>1, <3>2, <3>3 DEF Before
  <2> QED BY <2>1, <2>2
<1>5. ~(/\ Cardinality(S) < maxNodes
        /\ Cardinality(S) < remNodes \/ CpusOf(S) < remCpus)
  BY <1>3, <1>4 DEF Some
<1>6. S \in SUBSET Nodes BY <1>1
<1>7. Cardinality(S) \in Nat /\ CpusOf(S) \in Nat BY <1>0, <1>6, FiniteNodes, SomeCpus
<1> HIDE DEF S
<1> QED BY <1>5, <1>7

\* The last of those that are taken: without it too few were.
LEMMA SomeLast ==
    ASSUME request \in Requests, NEW free \in SUBSET Nodes, NEW from \in 1 .. N + 1,
           maxNodes \in Int, remNodes \in Int, remCpus \in Int, Some(free, from) # {}
    PROVE  \E n \in Some(free, from) :
              LET B == Some(free, from) \ {n}
              IN  /\ Cardinality(Some(free, from)) = Cardinality(B) + 1
                  /\ Cardinality(B) < maxNodes
                  /\ Cardinality(B) < remNodes \/ CpusOf(B) < remCpus
<1> DEFINE S == Some(free, from)
           key == [n \in S |-> 2 * N + 1 - Place(n, from)]
<1>0. N \in Nat BY Call
<1>1. S \in SUBSET free BY DEF Some
<1>2. \A n \in Nodes : 2 * N + 1 - Place(n, from) \in Nat BY <1>0 DEF Place, Nodes
<1>3. key \in [S -> Nat] BY <1>1, <1>2
<1>4. PICK n \in S : \A k \in S : key[n] <= key[k] BY <1>3, LeastKey
<1>5. Before(n, free, from) = S \ {n}
  <2>1. ASSUME NEW m \in Before(n, free, from) PROVE m \in S \ {n}
    <3>1. m \in free /\ Place(m, from) < Place(n, from) BY DEF Before
    <3>2. n \in free BY <1>1
    <3>3. m # n BY <1>0, <3>1, <3>2, Places
    <3> QED BY <1>4, <3>1, <3>3, SomeFirst
  <2>2. ASSUME NEW m \in S \ {n} PROVE m \in Before(n, free, from)
    <3>1. m \in free /\ n \in free /\ m # n BY <1>1
    <3>2. Place(n, from) \in Nat /\ Place(m, from) \in Nat /\ Place(m, from) # Place(n, from)
      BY <1>0, <3>1, Places
    <3>3. 2 * N + 1 - Place(n, from) <= 2 * N + 1 - Place(m, from) BY <1>4
    <3> QED BY <1>0, <3>1, <3>2, <3>3 DEF Before
  <2> QED BY <2>1, <2>2
<1>6. /\ Cardinality(S \ {n}) < maxNodes
      /\ Cardinality(S \ {n}) < remNodes \/ CpusOf(S \ {n}) < remCpus
  BY <1>4, <1>5 DEF Some
<1>7. Cardinality(S) = Cardinality(S \ {n}) + 1
  <2>1. S \in SUBSET Nodes /\ n \in Nodes BY <1>1, <1>4
  <2>2. IsFiniteSet(S) /\ Cardinality(S) \in Nat BY <1>0, <2>1, FiniteNodes
  <2>3. Cardinality(S \ {n}) = Cardinality(S) - 1 BY <1>4, <2>2, FS_RemoveElement
  <2> HIDE DEF S
  <2> QED BY <2>2, <2>3
<1> QED BY <1>4, <1>6, <1>7

\* No more than the job may have.
LEMMA SomeAllowed ==
    ASSUME request \in Requests, NEW free \in SUBSET Nodes, NEW from \in 1 .. N + 1,
           maxNodes \in Nat, remNodes \in Int, remCpus \in Int
    PROVE  /\ Some(free, from) \in SUBSET free
           /\ Cardinality(Some(free, from)) \in Nat /\ CpusOf(Some(free, from)) \in Nat
           /\ Cardinality(Some(free, from)) <= maxNodes
<1>0. N \in Nat BY Call
<1>1. Some(free, from) \in SUBSET free BY DEF Some
<1>2. Some(free, from) \in SUBSET Nodes BY <1>1
<1>3. Cardinality(Some(free, from)) \in Nat /\ CpusOf(Some(free, from)) \in Nat
  BY <1>0, <1>2, FiniteNodes, SomeCpus
<1>4. CASE Some(free, from) = {} BY <1>1, <1>3, <1>4, FS_EmptySet
<1>5. CASE Some(free, from) # {}
  <2>1. PICK n \in Some(free, from) :
            /\ Cardinality(Some(free, from)) = Cardinality(Some(free, from) \ {n}) + 1
            /\ Cardinality(Some(free, from) \ {n}) < maxNodes
    BY <1>5, SomeLast
  <2>2. Some(free, from) \ {n} \in SUBSET Nodes BY <1>2
  <2>3. Cardinality(Some(free, from) \ {n}) \in Nat BY <1>0, <2>2, FiniteNodes
  <2> QED BY <1>1, <1>3, <2>1, <2>3
<1> QED BY <1>4, <1>5

-----------------------------------------------------------------------------
(* Sets of consecutive nodes *)

\* A set of nodes has a first and a last one.
LEMMA LeastNode ==
    ASSUME N \in Nat, NEW S \in SUBSET Nodes, S # {}
    PROVE  /\ Min(S) \in S /\ \A k \in S : Min(S) <= k
           /\ Max(S) \in S /\ \A k \in S : k <= Max(S)
<1> DEFINE up == [n \in S |-> n]
           down == [n \in S |-> N - n]
<1>1. up \in [S -> Nat] /\ down \in [S -> Nat] BY DEF Nodes
<1>2. \E m \in S : \A k \in S : up[m] <= up[k] BY <1>1, LeastKey
<1>3. \E m \in S : \A k \in S : down[m] <= down[k] BY <1>1, LeastKey
<1>4. \E m \in S : \A k \in S : m <= k BY <1>2
<1>5. \E m \in S : \A k \in S : k <= m
  <2>1. PICK m \in S : \A k \in S : down[m] <= down[k] BY <1>3
  <2>2. \A k \in S : N - m <= N - k BY <2>1
  <2> QED BY <2>2 DEF Nodes
<1> QED BY <1>4, <1>5 DEF Min, Max

\* The nodes in a row with a node are in a row with each other.
LEMMA Rows ==
    ASSUME request \in Requests, NEW n \in request.avail
    PROVE  /\ n \in Block(n) /\ Block(n) \in SUBSET request.avail /\ Block(n) \in SUBSET Nodes
           /\ \A m \in Block(n) : Block(m) = Block(n) /\ m .. n \subseteq Block(n) /\ n .. m \subseteq Block(n)
<1>1. request.avail \in SUBSET Nodes BY Call
<1>2. request.avail \in SUBSET Int BY <1>1 DEF Nodes
<1>3. n \in Block(n) BY <1>2 DEF Block
<1>4. ASSUME NEW m \in Block(n) PROVE Block(m) = Block(n)
  <2>1. m \in request.avail /\ m .. n \subseteq request.avail /\ n .. m \subseteq request.avail
    BY DEF Block
  <2>2. ASSUME NEW k \in Block(n) PROVE k \in Block(m)
    <3>1. k \in request.avail /\ k .. n \subseteq request.avail /\ n .. k \subseteq request.avail
      BY DEF Block
    <3>2. k .. m \subseteq request.avail /\ m .. k \subseteq request.avail BY <1>2, <2>1, <3>1
    <3> QED BY <3>1, <3>2 DEF Block
  <2>3. ASSUME NEW k \in Block(m) PROVE k \in Block(n)
    <3>1. k \in request.avail /\ k .. m \subseteq request.avail /\ m .. k \subseteq request.avail
      BY DEF Block
    <3>2. k .. n \subseteq request.avail /\ n .. k \subseteq request.avail BY <1>2, <2>1, <3>1
    <3> QED BY <3>1, <3>2 DEF Block
  <2> QED BY <2>2, <2>3
<1>5. ASSUME NEW m \in Block(n) PROVE m .. n \subseteq Block(n) /\ n .. m \subseteq Block(n)
  <2>1. m \in request.avail /\ m .. n \subseteq request.avail /\ n .. m \subseteq request.avail
    BY DEF Block
  <2>2. ASSUME NEW k \in (m .. n) \cup (n .. m) PROVE k \in Block(n)
    <3>1. k \in request.avail BY <2>1
    <3>2. k .. n \subseteq request.avail /\ n .. k \subseteq request.avail BY <1>2, <2>1, <3>1
    <3> QED BY <3>1, <3>2 DEF Block
  <2> QED BY <2>2
<1> QED BY <1>1, <1>3, <1>4, <1>5 DEF Block

\* max_nodes leaves no required node out.
LEMMA TakenRequired ==
    ASSUME request \in Requests, request.required \subseteq request.avail
    PROVE  Taken = request.required
<1>1. /\ N \in Nat /\ request.required \in SUBSET Nodes
      /\ request.minNodes \in Nat /\ request.maxNodes \in Nat
      /\ Cardinality(request.required) <= request.minNodes /\ request.minNodes <= request.maxNodes
  BY Call
<1>2. ASSUME NEW n \in request.required
      PROVE  Cardinality({k \in request.required \cap request.avail : k < n}) < request.maxNodes
  <2> DEFINE before == {k \in request.required \cap request.avail : k < n}
  <2>1. before \in SUBSET (request.required \ {n}) BY <1>1 DEF Nodes
  <2>2. IsFiniteSet(request.required) /\ Cardinality(request.required) \in Nat BY <1>1, FiniteNodes
  <2>3. /\ IsFiniteSet(request.required \ {n})
        /\ Cardinality(request.required \ {n}) = Cardinality(request.required) - 1
    BY <2>2, FS_RemoveElement
  <2>4. Cardinality(before) <= Cardinality(request.required \ {n}) BY <2>1, <2>3, FS_Subset
  <2>5. before \in SUBSET Nodes BY <1>1
  <2>6. Cardinality(before) \in Nat BY <1>1, <2>5, FiniteNodes
  <2> HIDE DEF before
  <2>7. Cardinality(before) < request.maxNodes BY <1>1, <2>2, <2>3, <2>4, <2>6
  <2> QED BY <2>7 DEF before
<1> QED BY <1>2 DEF Taken

\* What the record of a set says.
LEMMA Records ==
    ASSUME request \in Requests, NEW i \in Starts
    PROVE  /\ i \in request.avail \ Taken /\ i \in 1 .. N
           /\ \A k \in Block(i) \ Taken : i <= k
           /\ Record(i).nodes = Cardinality(Block(i) \ Taken)
           /\ Record(i).cpus = CpusOf(Block(i) \ Taken)
           /\ Record(i).nodes \in Nat \ {0} /\ Record(i).cpus \in Nat
           /\ Record(i).req \in 0 .. N
           /\ Record(i).req = NoNode <=> Block(i) \cap Taken = {}
           /\ Record(i).req # NoNode => Record(i).req \in Block(i)
<1>1. N \in Nat /\ request.avail \in SUBSET Nodes BY Call
<1>2. i \in request.avail \ Taken /\ \A k \in Block(i) \ Taken : i <= k BY DEF Starts
<1>3. i \in 1 .. N BY <1>1, <1>2 DEF Nodes
<1>4. /\ Record(i).nodes = Cardinality(Block(i) \ Taken)
      /\ Record(i).cpus = CpusOf(Block(i) \ Taken)
      /\ Record(i).req = IF Block(i) \cap Taken = {} THEN NoNode ELSE Min(Block(i) \cap Taken)
  BY DEF Record
<1>5. i \in Block(i) /\ Block(i) \in SUBSET Nodes BY <1>2, Rows
<1>6. Block(i) \ Taken \in SUBSET Nodes /\ Block(i) \cap Taken \in SUBSET Nodes BY <1>5
<1>7. /\ IsFiniteSet(Block(i) \ Taken) /\ Cardinality(Block(i) \ Taken) \in Nat
      /\ CpusOf(Block(i) \ Taken) \in Nat
  BY <1>1, <1>6, FiniteNodes, SomeCpus
<1>8. Cardinality(Block(i) \ Taken) # 0 BY <1>2, <1>5, <1>7, FS_EmptySet
<1>9. Block(i) \cap Taken # {} => Min(Block(i) \cap Taken) \in Block(i) \cap Taken
  BY <1>1, <1>6, LeastNode
<1>10. Block(i) \cap Taken # {} => Record(i).req \in Block(i) /\ Record(i).req \in 1 .. N
  BY <1>4, <1>5, <1>9 DEF Nodes
<1> QED BY <1>1, <1>2, <1>3, <1>4, <1>7, <1>8, <1>10 DEF NoNode

\* Every node that may still be taken is in a set of the table.
LEMMA StartOf ==
    ASSUME request \in Requests, NEW n \in request.avail \ Taken
    PROVE  \E i \in Starts : n \in Block(i) /\ Block(i) = Block(n)
<1>1. N \in Nat BY Call
<1>2. n \in Block(n) /\ Block(n) \in SUBSET Nodes /\ Block(n) \in SUBSET request.avail BY Rows
<1> DEFINE free == Block(n) \ Taken
           i == Min(free)
<1>3. free \in SUBSET Nodes /\ free # {} BY <1>2
<1>4. i \in free /\ \A k \in free : i <= k BY <1>1, <1>3, LeastNode
<1> HIDE DEF i
<1>5. i \in Block(n) BY <1>4
<1>6. Block(i) = Block(n) BY <1>5, Rows
<1>7. i \in Starts BY <1>2, <1>4, <1>6 DEF Starts
<1> QED BY <1>2, <1>6, <1>7

\* The best set is one of those that are considered, if there are any.
LEMMA BestFitFound ==
    ASSUME N \in Nat
    PROVE  /\ BestFit \in 0 .. N
           /\ BestFit # NoNode => BestFit \in 1 .. N /\ Considered(BestFit)
           /\ ~Scattered /\ BestFit = NoNode => \A i \in 1 .. N : ~Considered(i)
<1>1. PICK best \in [0 .. N -> 0 .. N] :
         /\ best[0] = NoNode
         /\ \A i \in 1 .. N :
               LET b == best[i - 1]
               IN  best[i] = IF Considered(i) /\ (b = NoNode \/ Better(i, b)) THEN i ELSE b
         /\ BestFit = IF Scattered THEN NoNode ELSE best[N]
  BY BestFitPass
<1> DEFINE good == {i \in 0 .. N : /\ best[i] # NoNode => best[i] \in 1 .. N /\ Considered(best[i])
                                   /\ best[i] = NoNode => \A j \in 1 .. i : ~Considered(j)}
<1>2. 0 \in good BY <1>1
<1>3. ASSUME NEW i \in 1 .. N, i - 1 \in good PROVE i \in good
  <2>1. i - 1 \in 0 .. N /\ i \in 0 .. N /\ i # NoNode BY DEF NoNode
  <2>2. best[i] = IF Considered(i) /\ (best[i - 1] = NoNode \/ Better(i, best[i - 1]))
                  THEN i ELSE best[i - 1]
    BY <1>1
  <2>3. best[i - 1] # NoNode => best[i - 1] \in 1 .. N /\ Considered(best[i - 1]) BY <1>3
  <2>4. best[i - 1] = NoNode => \A j \in 1 .. i - 1 : ~Considered(j) BY <1>3
  <2>5. \A j \in 1 .. i : j = i \/ j \in 1 .. i - 1 OBVIOUS
  <2>6. best[i] # NoNode => best[i] \in 1 .. N /\ Considered(best[i]) BY <2>2, <2>3
  <2>7. best[i] = NoNode => \A j \in 1 .. i : ~Considered(j) BY <2>1, <2>2, <2>4, <2>5
  <2> QED BY <2>1, <2>6, <2>7
<1> HIDE DEF good
<1>4. 0 .. N \subseteq good BY <1>2, <1>3, OneByOne
<1>5. N \in good BY <1>4
<1>6. best[N] \in 0 .. N BY <1>1
<1>7. /\ best[N] # NoNode => best[N] \in 1 .. N /\ Considered(best[N])
      /\ best[N] = NoNode => \A j \in 1 .. N : ~Considered(j)
  BY <1>5 DEF good
<1>8. NoNode \in 0 .. N BY DEF NoNode
<1> QED BY <1>1, <1>6, <1>7, <1>8

\* Where no set has a required node, and more nodes never have fewer CPUs, the
\* best set is the tightest of the sufficient ones.
Even ==
    /\ \A i \in DOMAIN table : table[i].req = NoNode /\ table[i].nodes \in Int /\ table[i].cpus \in Int
    /\ \A i, j \in DOMAIN table : table[i].nodes <= table[j].nodes => table[i].cpus <= table[j].cpus

\* A set that would do is passed over only for a smaller one that does, too
\* (select_linear.c:915-935).
LEMMA BestFitTight ==
    ASSUME request \in Requests, remCpus \in Int, remNodes \in Int, ~Scattered, Even,
           NEW j \in 1 .. N, Considered(j), Sufficient(j)
    PROVE  /\ BestFit \in 1 .. N /\ Considered(BestFit) /\ Sufficient(BestFit)
           /\ table[BestFit].cpus <= table[j].cpus
<1>0. N \in Nat BY Call
<1>1. PICK best \in [0 .. N -> 0 .. N] :
         /\ best[0] = NoNode
         /\ \A i \in 1 .. N :
               LET b == best[i - 1]
               IN  best[i] = IF Considered(i) /\ (b = NoNode \/ Better(i, b)) THEN i ELSE b
         /\ BestFit = IF Scattered THEN NoNode ELSE best[N]
  BY <1>0, BestFitPass
<1> DEFINE Sound(b) == b \in 1 .. N /\ Considered(b)
           Tight(b) == Sound(b) /\ Sufficient(b) /\ table[b].cpus <= table[j].cpus
           good == {i \in 0 .. N : /\ best[i] # NoNode => Sound(best[i])
                                   /\ j <= i => Tight(best[i])}
<1>2. 0 \in good BY <1>0, <1>1
<1>3. ASSUME NEW i \in 1 .. N, i - 1 \in good PROVE i \in good
  <2>0. PICK b : b = best[i - 1] OBVIOUS
  <2>1. i - 1 \in 0 .. N /\ i \in 0 .. N /\ i # NoNode BY <1>0 DEF NoNode
  <2>2. best[i] = IF Considered(i) /\ (b = NoNode \/ Better(i, b)) THEN i ELSE b BY <1>1, <2>0
  <2>3. /\ b # NoNode => Sound(b)
        /\ j <= i - 1 => Tight(b)
    BY <1>3, <2>0
  <2>4. best[i] # NoNode => Sound(best[i]) BY <2>2, <2>3
  <2>5. \A k \in DOMAIN table :
           /\ table[k].req = NoNode /\ table[k].nodes \in Int /\ table[k].cpus \in Int
           /\ Sufficient(k) <=> table[k].cpus >= remCpus
                                /\ table[k].nodes >= remNodes + request.minNodes - request.reqNodes
    BY DEF Sufficient, Enough, Even
  <2>6. ASSUME Considered(i), b # NoNode, NEW k \in DOMAIN table, k = b
        PROVE  /\ Better(i, b) <=> \/ Sufficient(i) /\ ~Sufficient(b)
                                   \/ Sufficient(i) /\ table[i].cpus < table[b].cpus
                                   \/ ~Sufficient(i) /\ table[i].cpus > table[b].cpus
               /\ ~Sufficient(i) /\ table[i].cpus > table[b].cpus => ~Sufficient(b)
    <3>1. i \in DOMAIN table BY <2>6 DEF Considered
    <3>2. /\ table[i].nodes \in Int /\ table[b].nodes \in Int
          /\ table[i].cpus \in Int /\ table[b].cpus \in Int
      BY <2>5, <2>6, <3>1
    <3>3. table[i].nodes <= table[b].nodes => table[i].cpus <= table[b].cpus BY <2>6, <3>1 DEF Even
    <3>4. table[i].req = NoNode BY <2>5, <3>1
    <3>5. ~Sufficient(i) /\ table[i].cpus > table[b].cpus => ~Sufficient(b)
      <4>1. \A m, c, n, d, r, q \in Int :
               (m <= n => c <= d) /\ ~(c >= r /\ m >= q) /\ c > d => ~(d >= r /\ n >= q)
        OBVIOUS
      <4>2. remNodes + request.minNodes - request.reqNodes \in Int BY Call
      <4> DEFINE need == remNodes + request.minNodes - request.reqNodes
      <4>3. need \in Int BY <4>2
      <4>4. /\ Sufficient(i) <=> table[i].cpus >= remCpus /\ table[i].nodes >= need
            /\ Sufficient(b) <=> table[b].cpus >= remCpus /\ table[b].nodes >= need
        BY <2>5, <2>6, <3>1
      <4> HIDE DEF need
      <4> QED BY <3>2, <3>3, <4>1, <4>3, <4>4
    <3> QED BY <3>4, <3>5 DEF Better
  <2>7. ASSUME j = i PROVE Tight(best[i])
    <3>1. CASE b = NoNode \/ Better(i, b)
      <4>1. best[i] = i BY <2>2, <2>7, <3>1
      <4>2. table[j].cpus \in Int BY <2>5 DEF Considered
      <4> QED BY <4>1, <4>2, <2>7
    <3>2. CASE ~(b = NoNode \/ Better(i, b))
      <4>1. best[i] = b /\ Sound(b) BY <2>2, <2>3, <3>2
      <4>2. b \in DOMAIN table BY <4>1 DEF Considered
      <4>3. Considered(i) /\ Sufficient(i) BY <2>7
      <4>4. Sufficient(b) /\ ~(table[i].cpus < table[b].cpus) BY <2>6, <3>2, <4>2, <4>3
      <4>5. table[i].cpus \in Int /\ table[b].cpus \in Int BY <2>5, <4>2, <4>3 DEF Considered
      <4>6. \A x, y \in Int : ~(x < y) => y <= x OBVIOUS
      <4>7. table[b].cpus <= table[j].cpus BY <2>7, <4>4, <4>5, <4>6
      <4> QED BY <4>1, <4>4, <4>7
    <3> QED BY <3>1, <3>2
  <2>8. ASSUME j <= i - 1 PROVE Tight(best[i])
    <3>1. Tight(b) /\ b # NoNode BY <2>3, <2>8 DEF NoNode
    <3>2. CASE Considered(i) /\ Better(i, b)
      <4>1. best[i] = i BY <2>2, <3>2
      <4>2. b \in DOMAIN table /\ i \in DOMAIN table /\ j \in DOMAIN table BY <3>1, <3>2 DEF Considered
      <4>3. Sufficient(i) /\ table[i].cpus < table[b].cpus BY <2>6, <3>1, <3>2, <4>2
      <4>4. table[i].cpus \in Int /\ table[b].cpus \in Int /\ table[j].cpus \in Int BY <2>5, <4>2
      <4>5. table[b].cpus <= table[j].cpus BY <3>1
      <4>6. \A x, y, z \in Int : x < y /\ y <= z => x <= z OBVIOUS
      <4>7. table[i].cpus <= table[j].cpus BY <4>3, <4>4, <4>5, <4>6
      <4> QED BY <3>2, <4>1, <4>3, <4>7
    <3>3. CASE ~(Considered(i) /\ Better(i, b)) BY <2>2, <3>1, <3>3
    <3> QED BY <3>2, <3>3
  <2>9. j <= i => j = i \/ j <= i - 1 OBVIOUS
  <2> QED BY <2>1, <2>4, <2>7, <2>8, <2>9
<1> HIDE DEF good
<1>4. 0 .. N \subseteq good BY <1>0, <1>2, <1>3, OneByOne
<1>5. N \in good /\ j <= N BY <1>0, <1>4
<1>6. Tight(best[N]) BY <1>5 DEF good
<1> QED BY <1>1, <1>6

-----------------------------------------------------------------------------
(* The inductive invariant of a call on a row of nodes *)

\* The CPUs a node can give: none if it is not usable.
Have == [n \in Nodes |-> IF n \in request.avail THEN request.cpus[n] ELSE 0]

\* What is left to find.
RowCounts ==
    pc \in {"highest", "sets", "finish"} =>
        /\ request.required \subseteq bitmap
        /\ remNodes = request.reqNodes - Cardinality(bitmap)
        /\ remCpus = request.minCpus - Total(Have, bitmap)
        /\ maxNodes = request.maxNodes - Cardinality(bitmap)

\* The nodes taken for their CPUs have more than those that are left.
HighestInv ==
    pc = "highest" =>
        /\ Unlike
        /\ left = [n \in Nodes |-> IF n \in bitmap \ request.required THEN 0 ELSE Have[n]]
        /\ \A m \in bitmap \ request.required, n \in Nodes \ bitmap : Have[n] <= Have[m]

\* A node that is not usable comes after all that have CPUs, and these did not do.
Able == {n \in request.avail : request.cpus[n] > 0}

UsableInv ==
    /\ pc = "sets" => bitmap \subseteq request.avail
    /\ pc \in {"highest", "finish"} =>
          \/ bitmap \subseteq request.avail
          \/ /\ Unlike /\ Able \subseteq bitmap
             /\ request.reqNodes <= Cardinality(Able) => remCpus > 0

\* One set of like nodes has room for the job.
OneSet ==
    /\ ~Unlike /\ (\A n \in request.avail : request.cpus[n] > 0)
    /\ request.required = {} /\ request.reqNodes = request.minNodes
    /\ \E B \in Blocks : \E S \in SUBSET B : WouldDo(S)

\* A set is as it was, or its nodes are taken.  Any node that is left has the
\* CPUs that are to be found for it.
SetsInv ==
    pc = "sets" =>
        /\ DOMAIN table = Starts
        /\ \A i \in Starts :
              \/ table[i] = Record(i)
              \/ /\ table[i].nodes = 0 /\ table[i].req = Record(i).req
                 /\ maxNodes > 0 => Block(i) \subseteq bitmap
        /\ Unlike => remCpus <= Lowest * remNodes
        /\ request.contiguous \/ OneSet => bitmap = request.required /\ table = Table

\* Whoever can be helped has been.
FinishInv ==
    pc = "finish" =>
        /\ ~request.contiguous /\ (\E S \in SUBSET request.avail : WouldDo(S)) =>
              remCpus <= 0 /\ Enough(0, remNodes)
        /\ request.contiguous /\ request.required = {} /\ ~Unlike => bitmap = {}
        /\ ~OneSet

RowInv == RowCounts /\ HighestInv /\ UsableInv /\ SetsInv /\ FinishInv

\* Each loop on its kind of cluster, for a call that was not refused at once.
CallInv ==
    /\ request \in Requests
    /\ pc \in {"highest", "sets", "finish"} => request.network = "row"
    /\ pc \in {"required", "leaves"} => Leafy
    /\ pc \in {"explore", "walk", "walked"} => request.network = "hypercube"
    /\ pc \notin {"begin", "done"} => Usable

-----------------------------------------------------------------------------
(* Like and unlike nodes *)

\* The arguments do not change, nor what is reckoned from them.
LEMMA SameCall ==
    ASSUME request' = request
    PROVE  /\ Have' = Have /\ Unlike' = Unlike /\ Lowest' = Lowest /\ Able' = Able
           /\ Taken' = Taken /\ Starts' = Starts /\ Table' = Table /\ OneSet' = OneSet
           /\ \A i : Record(i)' = Record(i) /\ Block(i)' = Block(i)
           /\ \A S : WouldDo(S)' = WouldDo(S) /\ CpusOf(S)' = CpusOf(S)
<1>1. \A S : CpusOf(S)' = CpusOf(S) BY DEF CpusOf
<1>2. \A i : Block(i)' = Block(i) BY DEF Block
<1>3. Taken' = Taken BY DEF Taken
<1>4. Blocks' = Blocks BY <1>2 DEF Blocks
<1>5. \A i : Record(i)' = Record(i) BY <1>1, <1>2, <1>3 DEF Record
<1>6. Starts' = Starts BY <1>2, <1>3 DEF Starts
<1>7. Table' = Table BY <1>5, <1>6 DEF Table
<1>8. \A S : WouldDo(S)' = WouldDo(S) BY <1>1 DEF WouldDo
<1>9. Unlike' = Unlike /\ Have' = Have /\ Able' = Able /\ Lowest' = Lowest BY DEF Unlike, Have, Able, Lowest
<1>10. OneSet' = OneSet BY <1>4, <1>8, <1>9 DEF OneSet
<1> QED BY <1>1, <1>2, <1>3, <1>5, <1>6, <1>7, <1>8, <1>9, <1>10

\* What a set has in CPUs, if only usable nodes count.
LEMMA HaveSum ==
    ASSUME request \in Requests, NEW S \in SUBSET Nodes
    PROVE  /\ Summable(Have, S) /\ Total(Have, S) \in Nat /\ Total(Have, S) <= CpusOf(S)
           /\ S \subseteq request.avail => Total(Have, S) = CpusOf(S)
           /\ Total(Have, S) = CpusOf(S \cap request.avail)
           /\ Have \in [Nodes -> Nat]
<1>1. request.cpus \in [Nodes -> Nat] /\ N \in Nat /\ request.avail \in SUBSET Nodes BY Call
<1>2. Have \in [Nodes -> Nat] BY <1>1 DEF Have
<1>3. IsFiniteSet(S) /\ Summable(Have, S) BY <1>1, <1>2, FiniteNodes DEF Summable
<1>4. S \cap request.avail \in SUBSET Nodes /\ S \ request.avail \in SUBSET Nodes OBVIOUS
<1>5. Summable(Have, S \cap request.avail) /\ Summable(Have, S \ request.avail)
  BY <1>1, <1>2, <1>4, FiniteNodes DEF Summable
<1>6. \A n \in S : n \in request.avail => Have[n] = request.cpus[n] BY DEF Have
<1>7. \A n \in S : n \notin request.avail => Have[n] = 0 BY DEF Have
<1>8. Total(Have, S \cap request.avail) = CpusOf(S \cap request.avail)
  BY <1>6, TotalSame DEF CpusOf
<1>9. Total(Have, S \ request.avail) = 0 BY <1>7, TotalZero
<1>10. (S \cap request.avail) \cup (S \ request.avail) = S
       /\ (S \cap request.avail) \cap (S \ request.avail) = {} OBVIOUS
<1>11. Total(Have, S) = Total(Have, S \cap request.avail) + Total(Have, S \ request.avail)
  <2> DEFINE A == S \cap request.avail
             B == S \ request.avail
  <2>1. A \cup B = S /\ A \cap B = {} BY <1>10
  <2> HIDE DEF A, B
  <2>2. Total(Have, A \cup B) = Total(Have, A) + Total(Have, B) BY <1>3, <2>1, TotalUnion
  <2> QED BY <2>1, <2>2 DEF A, B
<1>12. CpusOf(S \cap request.avail) \in Nat BY <1>4, SomeCpus
<1>13. Total(Have, S) = CpusOf(S \cap request.avail) BY <1>8, <1>9, <1>11, <1>12
<1>14. CpusOf(S \cap request.avail) <= CpusOf(S) /\ CpusOf(S) \in Nat BY MoreNodes, SomeCpus
<1>15. S \subseteq request.avail => S \cap request.avail = S OBVIOUS
<1> QED BY <1>2, <1>3, <1>12, <1>13, <1>14, <1>15

\* What a node adds.
LEMMA HaveJoins ==
    ASSUME request \in Requests, NEW S \in SUBSET Nodes, NEW n \in Nodes \ S
    PROVE  Total(Have, S \cup {n}) = Total(Have, S) + Have[n]
<1>1. S \cup {n} \in SUBSET Nodes OBVIOUS
<1> QED BY <1>1, HaveSum, TotalJoin

\* The fewest CPUs of a usable node.
LEMMA LowestCpus ==
    ASSUME request \in Requests, request.avail # {}
    PROVE  Lowest \in Nat /\ \A n \in request.avail : Lowest <= request.cpus[n]
<1>1. request.cpus \in [Nodes -> Nat] /\ request.avail \in SUBSET Nodes BY Call
<1> DEFINE T == {request.cpus[n] : n \in request.avail}
<1>2. T \in SUBSET Nat /\ T # {} BY <1>1
<1>3. \E m \in T : \A k \in T : m <= k BY <1>2, LeastOne
<1>4. Min(T) \in T /\ \A k \in T : Min(T) <= k BY <1>3 DEF Min
<1>5. Lowest = Min(T) BY DEF Lowest
<1> HIDE DEF T
<1>6. Lowest \in Nat /\ \A k \in T : Lowest <= k BY <1>2, <1>4, <1>5
<1> QED BY <1>6 DEF T

\* Each usable node has at least the least.
LEMMA LowestEach ==
    ASSUME request \in Requests, NEW S \in SUBSET request.avail, request.avail # {}
    PROVE  Lowest * Cardinality(S) <= CpusOf(S)
<1>1. request.avail \in SUBSET Nodes BY Call
<1>2. S \in SUBSET Nodes BY <1>1
<1>3. Summable(request.cpus, S) BY <1>2, SomeCpus
<1>4. Lowest \in Nat /\ \A n \in S : Lowest <= request.cpus[n] BY LowestCpus
<1> QED BY <1>3, <1>4, TotalAtLeast DEF CpusOf

\* Of like nodes, more have no fewer CPUs.
LEMMA LikeNodes ==
    ASSUME request \in Requests, ~Unlike, NEW S \in SUBSET request.avail, NEW T \in SUBSET request.avail,
           Cardinality(S) <= Cardinality(T)
    PROVE  CpusOf(S) <= CpusOf(T)
<1>1. request.avail \in SUBSET Nodes /\ request.cpus \in [Nodes -> Nat] BY Call
<1>2. S \in SUBSET Nodes /\ T \in SUBSET Nodes BY <1>1
<1>3. Summable(request.cpus, S) /\ Summable(request.cpus, T) BY <1>2, SomeCpus
<1>4. \A x \in S, y \in T : request.cpus[x] = request.cpus[y] BY DEF Unlike
<1>5. \A x \in S, y \in T : request.cpus[x] <= request.cpus[y] BY <1>1, <1>2, <1>4
<1> QED BY <1>3, <1>5, TotalSmaller DEF CpusOf

\* The set sizes.
LEMMA Sizes ==
    ASSUME request \in Requests, NEW S \in SUBSET request.avail
    PROVE  /\ S \in SUBSET Nodes /\ IsFiniteSet(S) /\ Cardinality(S) \in Nat /\ CpusOf(S) \in Nat
           /\ Cardinality(S) <= Cardinality(request.avail) /\ CpusOf(S) <= CpusOf(request.avail)
           /\ Cardinality(request.avail) \in Nat /\ CpusOf(request.avail) \in Nat
<1>1. N \in Nat /\ request.avail \in SUBSET Nodes BY Call
<1>2. S \in SUBSET Nodes BY <1>1
<1> QED BY <1>1, <1>2, FiniteNodes, SomeCpus, MoreNodes

-----------------------------------------------------------------------------
(* The steps on a row *)

\* A row on which the call is under way.
OnRow == request \in Requests /\ TypeOK /\ RowInv /\ Usable

\* The start on a row of nodes (lines 782-855).
LEMMA BuildTableStep ==
    ASSUME request \in Requests, BuildTable PROVE RowInv'
<1>1. /\ bitmap' = request.required /\ request.required \subseteq request.avail
      /\ table' = Table /\ request' = request
      /\ remNodes' = request.reqNodes - Cardinality(request.required)
      /\ remCpus' = request.minCpus - CpusOf(request.required)
      /\ maxNodes' = request.maxNodes - Cardinality(request.required)
      /\ left' = [n \in Nodes |-> IF n \in request.avail THEN request.cpus[n] ELSE 0]
      /\ pc' = IF Unlike /\ remCpus' > Lowest * remNodes' THEN "highest" ELSE "sets"
      /\ Cardinality(request.avail) >= request.minNodes
  BY TakenRequired DEF BuildTable
<1>2. /\ Have' = Have /\ Unlike' = Unlike /\ Lowest' = Lowest /\ Starts' = Starts /\ Table' = Table
      /\ \A i : Record(i)' = Record(i)
  BY <1>1, SameCall
<1>3. request.required \in SUBSET Nodes /\ request.avail \in SUBSET Nodes /\ N \in Nat
      /\ request.minNodes \in Nat /\ 1 <= request.minNodes
      /\ request.reqNodes \in Nat /\ request.minCpus \in Nat
  BY Call
<1>4. Total(Have, request.required) = CpusOf(request.required) /\ CpusOf(request.required) \in Nat
      /\ Cardinality(request.required) \in Nat
  BY <1>1, <1>3, HaveSum, SomeCpus, FiniteNodes
<1>5. RowCounts' BY <1>1, <1>2, <1>4 DEF RowCounts
<1>6. HighestInv' BY <1>1, <1>2 DEF HighestInv, Have
<1>7. UsableInv' BY <1>1 DEF UsableInv
<1>8. request.avail # {}
  <2>1. Cardinality(request.avail) # 0
    <3>1. Cardinality(request.avail) \in Nat BY <1>3, FiniteNodes
    <3> QED BY <1>1, <1>3, <3>1
  <2> QED BY <2>1, NoCpus
<1>9. Lowest \in Nat BY <1>8, LowestCpus
<1>10. pc' = "sets" /\ Unlike => remCpus' <= Lowest * remNodes'
  <2>1. Lowest * remNodes' \in Int /\ remCpus' \in Int BY <1>1, <1>3, <1>4, <1>9
  <2>2. \A x, y \in Int : ~(x > y) => x <= y OBVIOUS
  <2>3. pc' = "sets" /\ Unlike => ~(remCpus' > Lowest * remNodes') BY <1>1, Zenon
  <2> QED BY <2>1, <2>2, <2>3, Zenon
<1>11. SetsInv' BY <1>1, <1>2, <1>10 DEF SetsInv, Table
<1>12. FinishInv' BY <1>1 DEF FinishInv
<1> QED BY <1>5, <1>6, <1>7, <1>11, <1>12 DEF RowInv

\* The numbers that are reckoned with.
LEMMA RowNumbers ==
    ASSUME OnRow
    PROVE  /\ N \in Nat /\ bitmap \in SUBSET Nodes
           /\ remNodes \in Int /\ remCpus \in Int /\ maxNodes \in Nat
           /\ Cardinality(bitmap) \in Nat /\ Total(Have, bitmap) \in Nat
           /\ request.minNodes \in Nat /\ request.reqNodes \in Nat /\ request.maxNodes \in Nat
           /\ request.minCpus \in Nat
           /\ 1 <= request.minNodes /\ request.minNodes <= request.reqNodes
           /\ request.reqNodes <= request.maxNodes
           /\ request.avail \in SUBSET Nodes /\ request.required \in SUBSET Nodes
           /\ request.avail # {}
<1>1. request \in Requests /\ bitmap \in SUBSET Nodes /\ N \in Nat BY Call DEF OnRow, TypeOK
<1>2. remNodes \in Int /\ remCpus \in Int /\ maxNodes \in Nat BY DEF OnRow, TypeOK
<1>3. Cardinality(bitmap) \in Nat /\ Total(Have, bitmap) \in Nat BY <1>1, FiniteNodes, HaveSum
<1>4. /\ request.minNodes \in Nat /\ request.reqNodes \in Nat /\ request.maxNodes \in Nat
      /\ request.minCpus \in Nat
      /\ 1 <= request.minNodes /\ request.minNodes <= request.reqNodes
      /\ request.reqNodes <= request.maxNodes
      /\ request.avail \in SUBSET Nodes /\ request.required \in SUBSET Nodes
  BY <1>1, Call
<1>5. request.avail # {} BY <1>4, FS_EmptySet DEF OnRow, Usable
<1> QED BY <1>1, <1>2, <1>3, <1>4, <1>5

\* A round of the loop for nodes that differ (lines 875-896).
LEMMA TakeHighestStep ==
    ASSUME OnRow, TakeHighest PROVE RowInv'
<1>0. /\ N \in Nat /\ bitmap \in SUBSET Nodes /\ request \in Requests
      /\ remNodes \in Int /\ remCpus \in Int /\ maxNodes \in Nat
      /\ Cardinality(bitmap) \in Nat /\ Total(Have, bitmap) \in Nat
      /\ request.reqNodes \in Nat /\ request.avail \in SUBSET Nodes /\ request.minCpus \in Nat
      /\ request.maxNodes \in Nat
  BY RowNumbers DEF OnRow
<1>1. /\ request' = request /\ pc = "highest" /\ pc' = "highest" /\ Wanting
      /\ remNodes' = remNodes - 1 /\ maxNodes' = maxNodes - 1
  BY DEF TakeHighest
<1>2. PICK n \in Nodes :
         /\ Highest(n)
         /\ bitmap' = bitmap \cup {n}
         /\ remCpus' = remCpus - left[n]
         /\ left' = [left EXCEPT ![n] = 0]
  BY DEF TakeHighest
<1>3. /\ request.required \subseteq bitmap
      /\ remNodes = request.reqNodes - Cardinality(bitmap)
      /\ remCpus = request.minCpus - Total(Have, bitmap)
      /\ maxNodes = request.maxNodes - Cardinality(bitmap)
  BY <1>1 DEF OnRow, RowInv, RowCounts
<1>4. /\ Unlike
      /\ left = [k \in Nodes |-> IF k \in bitmap \ request.required THEN 0 ELSE Have[k]]
      /\ \A m \in bitmap \ request.required, k \in Nodes \ bitmap : Have[k] <= Have[m]
  BY <1>1 DEF OnRow, RowInv, HighestInv
<1>5. Have' = Have /\ Unlike' = Unlike /\ Able' = Able BY <1>1, SameCall
<1>6. Have \in [Nodes -> Nat] BY <1>0, HaveSum
<1>7. n \in Nodes \ bitmap /\ \A k \in Nodes \ bitmap : Have[k] <= Have[n]
  <2>1. \A k \in Nodes \ bitmap : left[k] = Have[k] BY <1>4
  <2>2. n \in Nodes \ bitmap /\ \A k \in Nodes \ bitmap : left[k] < left[n] \/ left[k] = left[n]
    BY <1>2 DEF Highest
  <2>3. \A k \in Nodes \ bitmap : Have[k] < Have[n] \/ Have[k] = Have[n] BY <2>1, <2>2
  <2> QED BY <1>6, <2>2, <2>3
<1>8. left[n] = Have[n] BY <1>4, <1>7
<1>9. Cardinality(bitmap') = Cardinality(bitmap) + 1 /\ Total(Have, bitmap') = Total(Have, bitmap) + Have[n]
  BY <1>0, <1>2, <1>7, NodeJoins, HaveJoins
<1>10. Have[n] \in Nat BY <1>6
<1>11. RowCounts' BY <1>0, <1>1, <1>2, <1>3, <1>5, <1>8, <1>9, <1>10 DEF RowCounts
<1>12. HighestInv'
  <2>1. n \notin request.required BY <1>3, <1>7
  <2>2. left' = [k \in Nodes |-> IF k \in bitmap' \ request.required THEN 0 ELSE Have[k]]
    BY <1>2, <1>4, <2>1
  <2>3. ASSUME NEW m \in bitmap' \ request.required, NEW k \in Nodes \ bitmap'
        PROVE  Have[k] <= Have[m]
    BY <1>2, <1>4, <1>7, <2>3
  <2> QED BY <1>1, <1>4, <1>5, <2>2, <2>3 DEF HighestInv
<1>13. UsableInv'
  <2>1. \/ bitmap \subseteq request.avail
        \/ /\ Able \subseteq bitmap
           /\ request.reqNodes <= Cardinality(Able) => remCpus > 0
    BY <1>1 DEF OnRow, RowInv, UsableInv
  <2>2. CASE Have[n] = 0
    <3>1. Able \subseteq bitmap
      <4>1. \A k \in Nodes \ bitmap : Have[k] = 0 BY <1>6, <1>7, <2>2
      <4>2. \A k \in Able : k \in Nodes /\ Have[k] > 0 BY <1>0 DEF Able, Have
      <4> QED BY <4>1, <4>2
    <3>2. ASSUME request.reqNodes <= Cardinality(Able) PROVE remCpus > 0
      <4>1. Able \in SUBSET bitmap BY <3>1
      <4>2. Cardinality(Able) <= Cardinality(bitmap) /\ Cardinality(Able) \in Nat
        BY <1>0, <4>1, MoreNodes, FiniteNodes
      <4>3. remNodes <= 0 BY <1>0, <1>3, <3>2, <4>2
      <4> QED BY <1>0, <1>1, <4>3 DEF Wanting
    <3>3. remCpus' = remCpus BY <1>0, <1>2, <1>8, <2>2
    <3>4. Able \subseteq bitmap' BY <1>2, <3>1
    <3> QED BY <1>1, <1>4, <1>5, <3>2, <3>3, <3>4 DEF UsableInv
  <2>3. CASE Have[n] # 0
    <3>1. n \in request.avail /\ n \in Able BY <1>0, <1>6, <2>3, Call DEF Have, Able
    <3>2. bitmap' \subseteq request.avail BY <1>2, <1>7, <2>1, <3>1
    <3> QED BY <1>1, <3>2 DEF UsableInv
  <2> QED BY <2>2, <2>3
<1>14. SetsInv' /\ FinishInv' BY <1>1 DEF SetsInv, FinishInv
<1> QED BY <1>11, <1>12, <1>13, <1>14 DEF RowInv

\* As many of the highest nodes have as many CPUs as any others.
LEMMA HighestSum ==
    ASSUME OnRow, NEW S \in SUBSET request.avail, request.required \subseteq S,
           request.required \subseteq bitmap, Cardinality(S) <= Cardinality(bitmap),
           \A m \in bitmap \ request.required, n \in Nodes \ bitmap : Have[n] <= Have[m]
    PROVE  CpusOf(S) <= Total(Have, bitmap)
<1>0. /\ N \in Nat /\ bitmap \in SUBSET Nodes /\ request \in Requests
      /\ request.avail \in SUBSET Nodes
  BY RowNumbers DEF OnRow
<1> DEFINE A == S \cap bitmap
           P == S \ bitmap
           Q == bitmap \ S
<1>1. /\ A \cup P = S /\ A \cap P = {} /\ A \cup Q = bitmap /\ A \cap Q = {}
      /\ A \in SUBSET Nodes /\ P \in SUBSET Nodes /\ Q \in SUBSET Nodes /\ S \in SUBSET Nodes
  BY <1>0
<1>2. \A x \in P, y \in Q : Have[x] <= Have[y] BY <1>0
<1> HIDE DEF A, P, Q
<1>3. Cardinality(S) = Cardinality(A) + Cardinality(P) /\ Cardinality(bitmap) = Cardinality(A) + Cardinality(Q)
  BY <1>0, <1>1, NodesJoin
<1>4. Cardinality(A) \in Nat /\ Cardinality(P) \in Nat /\ Cardinality(Q) \in Nat BY <1>0, <1>1, FiniteNodes
<1>5. Cardinality(P) <= Cardinality(Q) BY <1>3, <1>4
<1>6. Summable(Have, P) /\ Summable(Have, Q) /\ Summable(Have, S) /\ Summable(Have, bitmap)
      /\ Total(Have, A) \in Nat /\ Total(Have, P) \in Nat /\ Total(Have, Q) \in Nat
      /\ Total(Have, S) = CpusOf(S)
  BY <1>0, <1>1, HaveSum
<1>7. Total(Have, P) <= Total(Have, Q) BY <1>2, <1>5, <1>6, TotalSmaller
<1>8. Total(Have, S) = Total(Have, A) + Total(Have, P) BY <1>1, <1>6, TotalUnion
<1>9. Total(Have, bitmap) = Total(Have, A) + Total(Have, Q) BY <1>1, <1>6, TotalUnion
<1> QED BY <1>6, <1>7, <1>8, <1>9

\* The end of that loop.
LEMMA EndHighestStep ==
    ASSUME OnRow, EndHighest PROVE RowInv'
<1>0. /\ N \in Nat /\ bitmap \in SUBSET Nodes /\ request \in Requests
      /\ remNodes \in Int /\ remCpus \in Int /\ maxNodes \in Nat
      /\ Cardinality(bitmap) \in Nat /\ Total(Have, bitmap) \in Nat
      /\ request.minNodes \in Nat /\ request.reqNodes \in Nat /\ request.maxNodes \in Nat
      /\ request.minCpus \in Nat /\ request.minNodes <= request.reqNodes
      /\ request.avail \in SUBSET Nodes
  BY RowNumbers DEF OnRow
<1>1. /\ request' = request /\ pc = "highest" /\ pc' = "finish" /\ bitmap' = bitmap
      /\ remNodes' = remNodes /\ remCpus' = remCpus /\ maxNodes' = maxNodes
      /\ maxNodes <= 0 \/ ~Wanting \/ bitmap = Nodes
  BY DEF EndHighest
<1>2. Have' = Have /\ Unlike' = Unlike /\ Able' = Able /\ OneSet' = OneSet
      /\ \A S : WouldDo(S)' = WouldDo(S)
  BY <1>1, SameCall
<1>3. /\ request.required \subseteq bitmap
      /\ remNodes = request.reqNodes - Cardinality(bitmap)
      /\ remCpus = request.minCpus - Total(Have, bitmap)
      /\ maxNodes = request.maxNodes - Cardinality(bitmap)
  BY <1>1 DEF OnRow, RowInv, RowCounts
<1>4. /\ Unlike
      /\ \A m \in bitmap \ request.required, k \in Nodes \ bitmap : Have[k] <= Have[m]
  BY <1>1 DEF OnRow, RowInv, HighestInv
<1>5. RowCounts' BY <1>1, <1>2, <1>3 DEF RowCounts
<1>6. HighestInv' /\ SetsInv' BY <1>1 DEF HighestInv, SetsInv
<1>7. UsableInv' BY <1>1, <1>2 DEF OnRow, RowInv, UsableInv
<1>8. ASSUME NEW S \in SUBSET request.avail, WouldDo(S)
      PROVE  remCpus <= 0 /\ Enough(0, remNodes)
  <2>1. /\ S \in SUBSET Nodes /\ Cardinality(S) \in Nat /\ CpusOf(S) \in Nat
        /\ request.required \subseteq S
        /\ request.minNodes <= Cardinality(S) /\ Cardinality(S) <= request.maxNodes
        /\ request.minCpus <= CpusOf(S)
    BY <1>0, <1>8, Sizes DEF WouldDo
  <2>2. CASE ~Wanting BY <1>0, <2>2 DEF Wanting, Enough
  <2>3. CASE Cardinality(S) <= Cardinality(bitmap)
    <3>1. CpusOf(S) <= Total(Have, bitmap) BY <1>3, <1>4, <2>1, <2>3, HighestSum
    <3> QED BY <1>0, <1>3, <2>1, <2>3, <3>1 DEF Enough
  <2>4. CASE maxNodes <= 0
    <3>1. Cardinality(S) <= Cardinality(bitmap) BY <1>0, <1>3, <2>1, <2>4
    <3> QED BY <2>3, <3>1
  <2>5. CASE bitmap = Nodes
    <3>1. Cardinality(S) <= Cardinality(bitmap) BY <1>0, <2>1, <2>5, MoreNodes
    <3> QED BY <2>3, <3>1
  <2> QED BY <1>1, <2>2, <2>4, <2>5
<1>9. FinishInv'
  <2>1. ~OneSet BY <1>4 DEF OneSet
  <2>2. Enough(0, remNodes)' = Enough(0, remNodes) BY <1>1 DEF Enough
  <2> QED BY <1>1, <1>2, <1>4, <1>8, <2>1, <2>2 DEF FinishInv
<1> QED BY <1>5, <1>6, <1>7, <1>9 DEF RowInv

\* The set that is taken next.
LEMMA NextSet ==
    ASSUME OnRow, pc = "sets", BestFit # NoNode
    PROVE  /\ BestFit \in Starts /\ table[BestFit] = Record(BestFit)
           /\ BestFit \in 1 .. N
           /\ (IF table[BestFit].req = NoNode THEN BestFit ELSE table[BestFit].req) \in 1 .. N + 1
           /\ Block(BestFit) \in SUBSET request.avail
           /\ FromSet(BestFit) \in SUBSET (Block(BestFit) \ bitmap)
           /\ FromSet(BestFit) \in SUBSET request.avail
           /\ FromSet(BestFit) \cap bitmap = {}
           /\ Cardinality(FromSet(BestFit)) \in Nat /\ CpusOf(FromSet(BestFit)) \in Nat
           /\ Cardinality(FromSet(BestFit)) <= maxNodes
           /\ \/ FromSet(BestFit) = Block(BestFit) \ bitmap
              \/ Cardinality(FromSet(BestFit)) >= maxNodes
              \/ Cardinality(FromSet(BestFit)) >= remNodes /\ CpusOf(FromSet(BestFit)) >= remCpus
<1>0. /\ N \in Nat /\ bitmap \in SUBSET Nodes /\ request \in Requests
      /\ remNodes \in Int /\ remCpus \in Int /\ maxNodes \in Nat
      /\ request.avail \in SUBSET Nodes
  BY RowNumbers DEF OnRow
<1>1. PICK b : b = BestFit OBVIOUS
<1>2. b \in 1 .. N /\ Considered(b) BY <1>0, <1>1, BestFitFound
<1>3. b \in Starts /\ table[b].nodes # 0 /\ table[b] = Record(b)
  <2>1. b \in DOMAIN table /\ table[b].nodes # 0 BY <1>2 DEF Considered
  <2>2. /\ DOMAIN table = Starts
        /\ \A i \in Starts : table[i] = Record(i) \/ table[i].nodes = 0
    BY DEF OnRow, RowInv, SetsInv
  <2> QED BY <2>1, <2>2
<1>4. /\ b \in request.avail /\ table[b].req \in 0 .. N BY <1>0, <1>3, Records
<1>5. PICK from : from = IF table[b].req = NoNode THEN b ELSE table[b].req OBVIOUS
<1>6. from \in 1 .. N + 1 BY <1>0, <1>2, <1>4, <1>5 DEF NoNode
<1>7. Block(b) \in SUBSET request.avail /\ Block(b) \in SUBSET Nodes BY <1>0, <1>4, Rows
<1>8. PICK free : free = Block(b) \ bitmap OBVIOUS
<1>9. free \in SUBSET Nodes BY <1>7, <1>8
<1>10. FromSet(b) = Some(free, from) BY <1>5, <1>8 DEF FromSet
<1>11. /\ Some(free, from) \in SUBSET free
       /\ Cardinality(Some(free, from)) \in Nat /\ CpusOf(Some(free, from)) \in Nat
       /\ Cardinality(Some(free, from)) <= maxNodes
  BY <1>0, <1>6, <1>9, SomeAllowed
<1>12. \/ Some(free, from) = free
       \/ Cardinality(Some(free, from)) >= maxNodes
       \/ Cardinality(Some(free, from)) >= remNodes /\ CpusOf(Some(free, from)) >= remCpus
  BY <1>0, <1>6, <1>9, SomeEnough
<1> QED BY <1>1, <1>2, <1>3, <1>5, <1>6, <1>7, <1>8, <1>10, <1>11, <1>12

\* On like nodes of which none is required the table is a plain one.
LEMMA PlainTable ==
    ASSUME OnRow, pc = "sets", ~Unlike, request.required = {}, table = Table
    PROVE  /\ Even /\ ~Scattered
           /\ \A i \in Starts : /\ i \in 1 .. N /\ i \in request.avail /\ i \in Block(i)
                                /\ Block(i) \in SUBSET request.avail
                                /\ table[i].nodes = Cardinality(Block(i)) /\ table[i].cpus = CpusOf(Block(i))
                                /\ table[i].req = NoNode /\ Considered(i)
                                /\ \A k \in Block(i) : i <= k
           /\ \A B \in Blocks : B # {} /\ \E i \in Starts : Block(i) = B
<1>0. request \in Requests /\ N \in Nat BY RowNumbers DEF OnRow
<1>1. Taken = {} BY DEF Taken
<1>2. ~Pinned /\ ~Scattered BY DEF Pinned, Scattered
<1>3. ASSUME NEW i \in Starts
      PROVE  /\ i \in 1 .. N /\ i \in request.avail /\ i \in Block(i)
             /\ Block(i) \in SUBSET request.avail
             /\ table[i].nodes = Cardinality(Block(i)) /\ table[i].cpus = CpusOf(Block(i))
             /\ table[i].nodes \in Nat \ {0} /\ table[i].cpus \in Nat
             /\ table[i].req = NoNode /\ i \in DOMAIN table /\ Considered(i)
             /\ \A k \in Block(i) : i <= k
  <2>1. table[i] = Record(i) /\ i \in DOMAIN table BY <1>3 DEF Table
  <2>2. i \in request.avail /\ i \in 1 .. N /\ \A k \in Block(i) : i <= k BY <1>0, <1>1, <1>3, Records
  <2>3. i \in Block(i) /\ Block(i) \in SUBSET request.avail BY <1>0, <2>2, Rows
  <2>4. Block(i) \ Taken = Block(i) /\ Block(i) \cap Taken = {} BY <1>1
  <2>5. /\ Record(i).nodes = Cardinality(Block(i)) /\ Record(i).cpus = CpusOf(Block(i))
        /\ Record(i).nodes \in Nat \ {0} /\ Record(i).cpus \in Nat
        /\ Record(i).req = NoNode
    BY <1>0, <1>3, <2>4, Records
  <2>6. Considered(i) BY <1>2, <2>1, <2>5 DEF Considered
  <2> QED BY <2>1, <2>2, <2>3, <2>5, <2>6
<1>4. DOMAIN table = Starts BY DEF Table
<1>5. ASSUME NEW i \in DOMAIN table, NEW j \in DOMAIN table, table[i].nodes <= table[j].nodes
      PROVE  table[i].cpus <= table[j].cpus
  <2>1. Block(i) \in SUBSET request.avail /\ Block(j) \in SUBSET request.avail BY <1>3, <1>4
  <2>2. Cardinality(Block(i)) <= Cardinality(Block(j)) BY <1>3, <1>4, <1>5
  <2>3. CpusOf(Block(i)) <= CpusOf(Block(j)) BY <1>0, <2>1, <2>2, LikeNodes
  <2> QED BY <1>3, <1>4, <2>3
<1>6. \A i \in DOMAIN table : table[i].req = NoNode /\ table[i].nodes \in Int /\ table[i].cpus \in Int
  BY <1>3, <1>4
<1>7. Even BY <1>5, <1>6 DEF Even
<1>8. ASSUME NEW B \in Blocks PROVE B # {} /\ \E i \in Starts : Block(i) = B
  <2>1. PICK n \in request.avail : B = Block(n) BY <1>8 DEF Blocks
  <2>2. n \in request.avail \ Taken BY <1>1, <2>1
  <2> QED BY <1>0, <2>1, <2>2, Rows, StartOf
<1> QED BY <1>2, <1>3, <1>7, <1>8

\* If the job fits one set, it gets its nodes at once, and from the smallest.
LEMMA OneSetFound ==
    ASSUME OnRow, pc = "sets", OneSet
    PROVE  /\ BestFit # NoNode /\ Sufficient(BestFit)
           /\ WouldDo(FromSet(BestFit))
           /\ Cardinality(FromSet(BestFit)) >= remNodes /\ CpusOf(FromSet(BestFit)) >= remCpus
           /\ Block(BestFit) \in Blocks /\ FromSet(BestFit) \subseteq Block(BestFit)
           /\ \A C \in Blocks : (\E S \in SUBSET C : WouldDo(S)) =>
                 Cardinality(Block(BestFit)) <= Cardinality(C)
<1>0. /\ N \in Nat /\ bitmap \in SUBSET Nodes /\ request \in Requests
      /\ remNodes \in Int /\ remCpus \in Int /\ maxNodes \in Nat
      /\ request.minNodes \in Nat /\ request.reqNodes \in Nat /\ request.maxNodes \in Nat
      /\ request.minCpus \in Nat /\ request.minNodes <= request.reqNodes
      /\ request.reqNodes <= request.maxNodes /\ 1 <= request.minNodes
      /\ request.avail \in SUBSET Nodes
  BY RowNumbers DEF OnRow
<1>1. /\ ~Unlike /\ (\A n \in request.avail : request.cpus[n] > 0)
      /\ request.required = {} /\ request.reqNodes = request.minNodes
  BY DEF OneSet
<1>18. PICK B \in Blocks : \E S \in SUBSET B : WouldDo(S) BY DEF OneSet
<1>2. PICK S \in SUBSET B : WouldDo(S) BY <1>18
<1>3. bitmap = {} /\ table = Table BY <1>1 DEF OnRow, RowInv, SetsInv
<1>4. remNodes = request.reqNodes /\ remCpus = request.minCpus /\ maxNodes = request.maxNodes
  <2>1. Total(Have, {}) = 0 BY TotalEmpty
  <2> QED BY <1>0, <1>3, <2>1, NoCpus DEF OnRow, RowInv, RowCounts
<1>5. /\ Even /\ ~Scattered
      /\ \A i \in Starts : /\ i \in 1 .. N /\ i \in request.avail /\ i \in Block(i)
                           /\ Block(i) \in SUBSET request.avail
                           /\ table[i].nodes = Cardinality(Block(i)) /\ table[i].cpus = CpusOf(Block(i))
                           /\ table[i].req = NoNode /\ Considered(i)
                           /\ \A k \in Block(i) : i <= k
      /\ \A C \in Blocks : C # {} /\ \E i \in Starts : Block(i) = C
  BY <1>1, <1>3, PlainTable
\* Whatever set has room is sufficient, and so no tighter than the best.
<1>6. ASSUME NEW C \in Blocks, NEW T \in SUBSET C, WouldDo(T)
      PROVE  /\ BestFit \in 1 .. N /\ Considered(BestFit) /\ Sufficient(BestFit)
             /\ table[BestFit].cpus <= CpusOf(C)
  <2>1. PICK j \in Starts : Block(j) = C BY <1>5, <1>6
  <2>2. /\ j \in 1 .. N /\ Considered(j) /\ table[j].nodes = Cardinality(C) /\ table[j].cpus = CpusOf(C)
        /\ C \in SUBSET request.avail
    BY <1>5, <2>1
  <2>3. C \in SUBSET Nodes /\ T \in SUBSET Nodes BY <1>0, <2>2
  <2>4. Cardinality(T) <= Cardinality(C) /\ CpusOf(T) <= CpusOf(C) BY <1>0, <2>3, MoreNodes
  <2>5. Cardinality(T) \in Nat /\ Cardinality(C) \in Nat /\ CpusOf(T) \in Nat /\ CpusOf(C) \in Nat
    BY <1>0, <2>3, FiniteNodes, SomeCpus
  <2>6. request.minNodes <= Cardinality(T) /\ CpusOf(T) >= request.minCpus BY <1>6 DEF WouldDo
  <2>7. Sufficient(j) BY <1>0, <1>1, <1>4, <2>2, <2>4, <2>5, <2>6 DEF Sufficient, Enough
  <2>8. /\ BestFit \in 1 .. N /\ Considered(BestFit) /\ Sufficient(BestFit)
        /\ table[BestFit].cpus <= table[j].cpus
    BY <1>0, <1>5, <2>2, <2>7, BestFitTight
  <2> QED BY <2>2, <2>8
<1>7. /\ BestFit \in 1 .. N /\ Considered(BestFit) /\ Sufficient(BestFit) BY <1>2, <1>6
<1>8. PICK b : b = BestFit OBVIOUS
<1>9. b # NoNode BY <1>0, <1>7, <1>8 DEF NoNode
<1>10. PICK F : F = FromSet(b) OBVIOUS
<1>11. /\ b \in Starts /\ F \in SUBSET (Block(b) \ bitmap) /\ F \in SUBSET request.avail
       /\ Cardinality(F) \in Nat /\ CpusOf(F) \in Nat /\ Cardinality(F) <= maxNodes
       /\ \/ F = Block(b) \ bitmap
          \/ Cardinality(F) >= maxNodes
          \/ Cardinality(F) >= remNodes /\ CpusOf(F) >= remCpus
  BY <1>8, <1>9, <1>10, NextSet
<1>12. /\ b \in request.avail /\ Block(b) \in SUBSET request.avail /\ b \in Block(b)
       /\ table[b].nodes = Cardinality(Block(b)) /\ table[b].cpus = CpusOf(Block(b))
  BY <1>5, <1>11
<1>13. Block(b) \ bitmap = Block(b) BY <1>3
<1>14. Cardinality(F) >= remNodes /\ CpusOf(F) >= remCpus
  <2>1. CASE F = Block(b)
    <3>1. table[b].cpus >= remCpus /\ table[b].nodes >= remNodes + request.minNodes - request.reqNodes
      BY <1>7, <1>8 DEF Sufficient, Enough
    <3> QED BY <1>0, <1>1, <1>11, <1>12, <2>1, <3>1
  <2>2. CASE Cardinality(F) >= maxNodes
    <3>1. /\ B \in SUBSET request.avail
      <4>1. PICK j \in Starts : Block(j) = B BY <1>5
      <4> QED BY <1>5, <4>1
    <3>2. S \in SUBSET request.avail BY <1>2, <3>1
    <3>3. Cardinality(S) \in Nat /\ CpusOf(S) \in Nat BY <1>0, <3>2, Sizes
    <3>4. Cardinality(S) <= request.maxNodes /\ CpusOf(S) >= request.minCpus BY <1>2 DEF WouldDo
    <3>5. Cardinality(S) <= Cardinality(F) BY <1>0, <1>4, <1>11, <2>2, <3>3, <3>4
    <3>6. CpusOf(S) <= CpusOf(F) BY <1>0, <1>1, <1>11, <3>2, <3>5, LikeNodes
    <3> QED BY <1>0, <1>4, <1>11, <2>2, <3>3, <3>4, <3>6
  <2> QED BY <1>11, <1>13, <2>1, <2>2
<1>15. WouldDo(F) BY <1>0, <1>1, <1>4, <1>11, <1>14 DEF WouldDo
<1>16. ASSUME NEW C \in Blocks, NEW T \in SUBSET C, WouldDo(T)
       PROVE  Cardinality(Block(b)) <= Cardinality(C)
  <2>1. CpusOf(Block(b)) <= CpusOf(C) BY <1>6, <1>8, <1>12, <1>16
  <2>2. C \in SUBSET request.avail
    <3>1. PICK j \in Starts : Block(j) = C BY <1>5, <1>16
    <3> QED BY <1>5, <3>1
  <2>3. PICK K : K = Block(b) \ {b} OBVIOUS
  <2>4. /\ K \in SUBSET request.avail /\ K \in SUBSET Nodes /\ b \in Nodes \ K /\ K \cup {b} = Block(b)
    BY <1>0, <1>12, <2>3
  <2>5. Cardinality(Block(b)) = Cardinality(K) + 1 /\ CpusOf(Block(b)) = CpusOf(K) + request.cpus[b]
    BY <1>0, <2>4, NodeJoins
  <2>6. /\ Cardinality(K) \in Nat /\ CpusOf(K) \in Nat /\ Cardinality(C) \in Nat /\ CpusOf(C) \in Nat
        /\ request.cpus[b] \in Nat /\ request.cpus[b] > 0
    BY <1>0, <1>1, <1>12, <2>2, <2>4, Sizes, Call
  <2>7. Cardinality(C) <= Cardinality(K) => CpusOf(C) <= CpusOf(K) BY <1>0, <1>1, <2>2, <2>4, LikeNodes
  <2> QED BY <2>1, <2>5, <2>6, <2>7
<1>17. Block(b) \in Blocks BY <1>12 DEF Blocks
<1> QED BY <1>7, <1>8, <1>9, <1>10, <1>11, <1>13, <1>14, <1>15, <1>16, <1>17

\* What a set that is taken leaves to find.
LEMMA AddSetCounts ==
    ASSUME OnRow, AddSet
    PROVE  LET F == FromSet(BestFit)
           IN  /\ pc = "sets" /\ request' = request /\ BestFit # NoNode
               /\ request.contiguous => Sufficient(BestFit)
               /\ bitmap' = bitmap \cup F /\ bitmap' \in SUBSET request.avail
               /\ request.required \subseteq bitmap'
               /\ Cardinality(bitmap') \in Nat /\ CpusOf(bitmap') \in Nat
               /\ Total(Have, bitmap') = CpusOf(bitmap')
               /\ remNodes' = remNodes - Cardinality(F) /\ remCpus' = remCpus - CpusOf(F)
               /\ maxNodes' = maxNodes - Cardinality(F) /\ maxNodes' \in Nat
               /\ remNodes' = request.reqNodes - Cardinality(bitmap')
               /\ remCpus' = request.minCpus - CpusOf(bitmap')
               /\ maxNodes' = request.maxNodes - Cardinality(bitmap')
<1>0. /\ N \in Nat /\ bitmap \in SUBSET Nodes /\ request \in Requests
      /\ remNodes \in Int /\ remCpus \in Int /\ maxNodes \in Nat
      /\ request.reqNodes \in Nat /\ request.maxNodes \in Nat /\ request.minCpus \in Nat
      /\ request.avail \in SUBSET Nodes
  BY RowNumbers DEF OnRow
<1>1. PICK F : F = FromSet(BestFit) OBVIOUS
<1>2. /\ pc = "sets" /\ request' = request /\ BestFit # NoNode
      /\ request.contiguous => Sufficient(BestFit)
      /\ bitmap' = bitmap \cup F
      /\ remNodes' = remNodes - Cardinality(F) /\ remCpus' = remCpus - CpusOf(F)
      /\ maxNodes' = maxNodes - Cardinality(F)
  BY <1>1 DEF AddSet, Fits
<1>3. /\ F \in SUBSET request.avail /\ F \cap bitmap = {}
      /\ Cardinality(F) \in Nat /\ CpusOf(F) \in Nat /\ Cardinality(F) <= maxNodes
  BY <1>1, <1>2, NextSet
<1>4. bitmap \in SUBSET request.avail BY <1>2 DEF OnRow, RowInv, UsableInv
<1>5. bitmap' \in SUBSET request.avail /\ F \in SUBSET Nodes BY <1>0, <1>2, <1>3, <1>4
<1>6. /\ Cardinality(bitmap \cup F) = Cardinality(bitmap) + Cardinality(F)
      /\ CpusOf(bitmap \cup F) = CpusOf(bitmap) + CpusOf(F)
  BY <1>0, <1>3, <1>5, NodesJoin
<1>7. /\ Cardinality(bitmap) \in Nat /\ CpusOf(bitmap) \in Nat
      /\ Cardinality(bitmap') \in Nat /\ CpusOf(bitmap') \in Nat
  BY <1>0, <1>4, <1>5, Sizes
<1>8. Total(Have, bitmap) = CpusOf(bitmap) /\ Total(Have, bitmap') = CpusOf(bitmap')
  BY <1>0, <1>4, <1>5, HaveSum
<1>9. /\ request.required \subseteq bitmap
      /\ remNodes = request.reqNodes - Cardinality(bitmap)
      /\ remCpus = request.minCpus - CpusOf(bitmap)
      /\ maxNodes = request.maxNodes - Cardinality(bitmap)
  BY <1>2, <1>8 DEF OnRow, RowInv, RowCounts
<1>10. /\ maxNodes' \in Nat
       /\ remNodes' = request.reqNodes - Cardinality(bitmap')
       /\ remCpus' = request.minCpus - CpusOf(bitmap')
       /\ maxNodes' = request.maxNodes - Cardinality(bitmap')
  BY <1>0, <1>2, <1>3, <1>6, <1>7, <1>9
<1> QED BY <1>1, <1>2, <1>5, <1>7, <1>8, <1>9, <1>10

\* A round of the loop over consecutive sets (lines 903-1017).
LEMMA AddSetStep ==
    ASSUME OnRow, AddSet PROVE RowInv'
<1> DEFINE b == BestFit
           F == FromSet(b)
<1>0. /\ N \in Nat /\ request \in Requests
      /\ remNodes \in Int /\ remCpus \in Int /\ maxNodes \in Nat
      /\ request.avail \in SUBSET Nodes /\ request.avail # {}
  BY RowNumbers DEF OnRow
<1>1. /\ pc = "sets" /\ request' = request /\ b # NoNode
      /\ bitmap' = bitmap \cup F /\ bitmap' \in SUBSET request.avail
      /\ request.required \subseteq bitmap'
      /\ Cardinality(bitmap') \in Nat /\ CpusOf(bitmap') \in Nat
      /\ Total(Have, bitmap') = CpusOf(bitmap')
      /\ remNodes' = remNodes - Cardinality(F) /\ remCpus' = remCpus - CpusOf(F)
      /\ maxNodes' = maxNodes - Cardinality(F) /\ maxNodes' \in Nat
      /\ remNodes' = request.reqNodes - Cardinality(bitmap')
      /\ remCpus' = request.minCpus - CpusOf(bitmap')
      /\ maxNodes' = request.maxNodes - Cardinality(bitmap')
  BY AddSetCounts
<1>2. \/ pc' = "done"
      \/ /\ ~request.contiguous /\ ~(remNodes' <= 0 /\ remCpus' <= 0)
         /\ pc' = "sets" /\ table' = [table EXCEPT ![b].nodes = 0, ![b].cpus = 0]
  BY <1>1 DEF AddSet, Spend
<1>3. CASE pc' = "done" BY <1>3 DEF RowInv, RowCounts, HighestInv, UsableInv, SetsInv, FinishInv
<1>4. CASE /\ ~request.contiguous /\ ~(remNodes' <= 0 /\ remCpus' <= 0)
           /\ pc' = "sets" /\ table' = [table EXCEPT ![b].nodes = 0, ![b].cpus = 0]
  <2>1. /\ Have' = Have /\ Unlike' = Unlike /\ Lowest' = Lowest /\ Starts' = Starts
        /\ Table' = Table /\ OneSet' = OneSet
        /\ \A i : Record(i)' = Record(i) /\ Block(i)' = Block(i)
    BY <1>1, SameCall
  <2>2. RowCounts' BY <1>1, <2>1 DEF RowCounts
  <2>3. HighestInv' /\ FinishInv' /\ UsableInv' BY <1>1, <1>4 DEF HighestInv, FinishInv, UsableInv
  <2>4. /\ b \in Starts /\ table[b] = Record(b) /\ F \in SUBSET request.avail
        /\ Cardinality(F) \in Nat /\ CpusOf(F) \in Nat
        /\ \/ F = Block(b) \ bitmap
           \/ Cardinality(F) >= maxNodes
           \/ Cardinality(F) >= remNodes /\ CpusOf(F) >= remCpus
    BY <1>1, NextSet
  <2>5. /\ DOMAIN table = Starts
        /\ \A i \in Starts :
              \/ table[i] = Record(i)
              \/ /\ table[i].nodes = 0 /\ table[i].req = Record(i).req
                 /\ maxNodes > 0 => Block(i) \subseteq bitmap
        /\ Unlike => remCpus <= Lowest * remNodes
    BY <1>1 DEF OnRow, RowInv, SetsInv
  <2>6. ~OneSet
    <3> SUFFICES ASSUME OneSet PROVE FALSE OBVIOUS
    <3>1. Cardinality(F) >= remNodes /\ CpusOf(F) >= remCpus BY <1>1, OneSetFound
    <3> HIDE DEF F, b
    <3>2. remNodes' <= 0 /\ remCpus' <= 0 BY <1>0, <1>1, <2>4, <3>1
    <3> QED BY <1>4, <3>2
  <2>7. Unlike => remCpus' <= Lowest * remNodes'
    <3> HIDE DEF F, b
    <3>1. Lowest * Cardinality(F) <= CpusOf(F) BY <1>0, <2>4, LowestEach
    <3>2. Lowest \in Nat BY <1>0, LowestCpus
    <3>3. Lowest * (remNodes - Cardinality(F)) = Lowest * remNodes - Lowest * Cardinality(F)
      BY <1>0, <2>4, <3>2
    <3>4. Lowest * remNodes \in Int /\ Lowest * Cardinality(F) \in Int BY <1>0, <2>4, <3>2
    <3>5. Unlike => remCpus - CpusOf(F) <= Lowest * remNodes - Lowest * Cardinality(F)
      BY <1>0, <2>4, <2>5, <3>1, <3>4
    <3> QED BY <1>1, <3>3, <3>5
  <2>8. ASSUME NEW i \in Starts
        PROVE  \/ table'[i] = Record(i)
               \/ /\ table'[i].nodes = 0 /\ table'[i].req = Record(i).req
                  /\ maxNodes' > 0 => Block(i) \subseteq bitmap'
    <3>1. CASE i = b
      <4>1. table'[i] = [table[i] EXCEPT !.nodes = 0, !.cpus = 0] BY <1>4, <2>4, <2>5, <3>1
      <4>2. table[i] = [nodes |-> Record(i).nodes, cpus |-> Record(i).cpus, req |-> Record(i).req]
        BY <2>4, <3>1 DEF Record
      <4>3. table'[i].nodes = 0 /\ table'[i].req = Record(i).req BY <4>1, <4>2
      <4>4. ASSUME maxNodes' > 0 PROVE Block(i) \subseteq bitmap'
        <5>1. F = Block(b) \ bitmap
          <6> HIDE DEF F, b
          <6> QED BY <1>0, <1>1, <1>4, <2>4, <4>4
        <5> QED BY <1>1, <3>1, <5>1
      <4> QED BY <4>3, <4>4
    <3>2. CASE i # b
      <4>1. table'[i] = table[i] BY <1>4, <2>5, <3>2
      <4>2. maxNodes' > 0 => maxNodes > 0
        <5> HIDE DEF F, b
        <5> QED BY <1>0, <1>1, <2>4
      <4>3. bitmap \subseteq bitmap' BY <1>1
      <4> QED BY <2>5, <4>1, <4>2, <4>3
    <3> QED BY <3>1, <3>2
  <2>9. DOMAIN table' = Starts BY <1>4, <2>5
  <2>10. SetsInv'
    <3> HIDE DEF F, b
    <3> QED BY <1>1, <1>4, <2>1, <2>6, <2>7, <2>8, <2>9 DEF SetsInv
  <2> QED BY <2>2, <2>3, <2>10 DEF RowInv
<1> QED BY <1>2, <1>3, <1>4

\* The end of the loop over consecutive sets.
LEMMA EndSetsStep ==
    ASSUME OnRow, EndSets PROVE RowInv'
<1>0. /\ N \in Nat /\ bitmap \in SUBSET Nodes /\ request \in Requests
      /\ remNodes \in Int /\ remCpus \in Int /\ maxNodes \in Nat
      /\ Cardinality(bitmap) \in Nat /\ Total(Have, bitmap) \in Nat
      /\ request.minNodes \in Nat /\ request.reqNodes \in Nat /\ request.maxNodes \in Nat
      /\ request.minCpus \in Nat /\ 1 <= request.minNodes /\ request.minNodes <= request.reqNodes
      /\ request.reqNodes <= request.maxNodes
      /\ request.avail \in SUBSET Nodes /\ request.avail # {}
  BY RowNumbers DEF OnRow
<1>1. /\ request' = request /\ pc = "sets" /\ pc' = "finish" /\ bitmap' = bitmap
      /\ remNodes' = remNodes /\ remCpus' = remCpus /\ maxNodes' = maxNodes
      /\ maxNodes <= 0 \/ ~Fits(BestFit)
  BY DEF EndSets
<1>2. Have' = Have /\ Unlike' = Unlike /\ Able' = Able /\ OneSet' = OneSet
      /\ \A S : WouldDo(S)' = WouldDo(S)
  BY <1>1, SameCall
<1>3. bitmap \in SUBSET request.avail BY <1>1 DEF OnRow, RowInv, UsableInv
<1>4. Total(Have, bitmap) = CpusOf(bitmap) BY <1>0, <1>3, HaveSum
<1>5. /\ request.required \subseteq bitmap
      /\ remNodes = request.reqNodes - Cardinality(bitmap)
      /\ remCpus = request.minCpus - Total(Have, bitmap)
      /\ maxNodes = request.maxNodes - Cardinality(bitmap)
  BY <1>1 DEF OnRow, RowInv, RowCounts
<1>6. /\ DOMAIN table = Starts
      /\ \A i \in Starts :
            \/ table[i] = Record(i)
            \/ /\ table[i].nodes = 0 /\ table[i].req = Record(i).req
               /\ maxNodes > 0 => Block(i) \subseteq bitmap
      /\ Unlike => remCpus <= Lowest * remNodes
      /\ request.contiguous \/ OneSet => bitmap = request.required /\ table = Table
  BY <1>1 DEF OnRow, RowInv, SetsInv
<1>7. RowCounts' BY <1>1, <1>2, <1>5 DEF RowCounts
<1>8. HighestInv' /\ SetsInv' /\ UsableInv' BY <1>1, <1>3 DEF HighestInv, SetsInv, UsableInv
<1>9. ASSUME ~request.contiguous, NEW S \in SUBSET request.avail, WouldDo(S)
      PROVE  remCpus <= 0 /\ Enough(0, remNodes)
  <2>1. /\ S \in SUBSET Nodes /\ Cardinality(S) \in Nat /\ CpusOf(S) \in Nat
        /\ request.required \subseteq S
        /\ request.minNodes <= Cardinality(S) /\ Cardinality(S) <= request.maxNodes
        /\ request.minCpus <= CpusOf(S)
    BY <1>0, <1>9, Sizes DEF WouldDo
  <2>2. CASE Cardinality(S) <= Cardinality(bitmap) /\ CpusOf(S) <= CpusOf(bitmap)
    BY <1>0, <1>4, <1>5, <2>1, <2>2 DEF Enough
  <2>3. CASE maxNodes <= 0
    <3>1. Cardinality(S) <= Cardinality(bitmap) /\ remNodes <= 0 BY <1>0, <1>5, <2>1, <2>3
    <3>2. CASE Unlike
      <4>1. Lowest \in Nat BY <1>0, LowestCpus
      <4>2. Lowest * remNodes <= 0 BY <1>0, <3>1, <4>1
      <4>3. remCpus <= 0
        <5>1. Lowest * remNodes \in Int BY <1>0, <4>1
        <5> QED BY <1>0, <1>6, <3>2, <4>2, <5>1
      <4> QED BY <1>0, <1>5, <2>1, <3>1, <4>3 DEF Enough
    <3>3. CASE ~Unlike
      <4>1. CpusOf(S) <= CpusOf(bitmap) BY <1>0, <1>3, <3>1, <3>3, LikeNodes
      <4> QED BY <2>2, <3>1, <4>1
    <3> QED BY <3>2, <3>3
  <2>4. CASE maxNodes > 0 /\ ~Fits(BestFit)
    <3>1. BestFit = NoNode /\ ~Scattered BY <1>9, <2>4 DEF Fits, Scattered, Pinned
    <3>2. \A i \in 1 .. N : ~Considered(i) BY <1>0, <3>1, BestFitFound
    <3>3. ASSUME NEW i \in Starts PROVE Block(i) \subseteq bitmap
      <4>1. i \in 1 .. N /\ Record(i).nodes # 0 BY <1>0, <3>3, Records
      <4>2. table[i].nodes = 0 BY <1>6, <1>9, <3>2, <4>1 DEF Considered, Pinned
      <4> QED BY <1>6, <2>4, <4>1, <4>2
    <3>4. ASSUME NEW n \in request.avail PROVE n \in bitmap
      <4>1. Taken = request.required BY <1>0, TakenRequired DEF OnRow, Usable
      <4>2. CASE n \in Taken BY <1>5, <4>1, <4>2
      <4>3. CASE n \notin Taken
        <5>1. PICK i \in Starts : n \in Block(i) BY <1>0, <4>3, StartOf
        <5> QED BY <3>3, <5>1
      <4> QED BY <4>2, <4>3
    <3>5. S \in SUBSET bitmap BY <3>4
    <3>6. Cardinality(S) <= Cardinality(bitmap) /\ CpusOf(S) <= CpusOf(bitmap) BY <1>0, <3>5, MoreNodes
    <3> QED BY <2>2, <3>6
  <2> QED BY <1>0, <1>1, <2>3, <2>4
<1>10. ~OneSet
  <2> SUFFICES ASSUME OneSet PROVE FALSE OBVIOUS
  <2>1. BestFit # NoNode /\ Sufficient(BestFit) BY <1>1, OneSetFound
  <2>2. bitmap = {} BY <1>6 DEF OneSet
  <2>3. maxNodes > 0 BY <1>0, <1>5, <2>2, NoCpus
  <2> QED BY <1>0, <1>1, <2>1, <2>3 DEF Fits
<1>11. FinishInv'
  <2>1. Enough(0, remNodes)' = Enough(0, remNodes) BY <1>1 DEF Enough
  <2> QED BY <1>1, <1>2, <1>6, <1>9, <1>10, <2>1 DEF FinishInv
<1> QED BY <1>7, <1>8, <1>11 DEF RowInv

-----------------------------------------------------------------------------
(* What a row of nodes gives *)

\* What a call that has ended promises.
Promises ==
    /\ GetsWhatItAsked /\ NeverTurnedAway
    /\ SmallestSet /\ InARow
    /\ LowestSwitch /\ FewSwitches

\* Before it ends it promises nothing.
LEMMA NoPromise ==
    ASSUME rc' = "none" PROVE Promises'
BY DEF Promises, GetsWhatItAsked, NeverTurnedAway, SmallestSet, InARow, LowestSwitch, FewSwitches, Success

\* A contiguous job's nodes, of which none is required, are the first of a set.
LEMMA RowOfNodes ==
    ASSUME OnRow, pc = "sets", request.contiguous, request.required = {}, ~Unlike,
           BestFit # NoNode, Sufficient(BestFit)
    PROVE  LET F == FromSet(BestFit)
           IN  /\ bitmap = {} /\ F = Min(F) .. Max(F)
               /\ Cardinality(F) >= request.minNodes
               /\ Cardinality(F) < request.maxNodes => CpusOf(F) >= request.minCpus
<1>0. /\ N \in Nat /\ request \in Requests
      /\ remNodes \in Int /\ remCpus \in Int /\ maxNodes \in Nat
      /\ request.minNodes \in Nat /\ request.reqNodes \in Nat /\ request.maxNodes \in Nat
      /\ request.minCpus \in Nat /\ 1 <= request.minNodes /\ request.minNodes <= request.reqNodes
      /\ request.reqNodes <= request.maxNodes
      /\ request.avail \in SUBSET Nodes /\ request.avail # {}
  BY RowNumbers DEF OnRow
<1>1. bitmap = {} /\ table = Table BY DEF OnRow, RowInv, SetsInv
<1>2. PICK b : b = BestFit OBVIOUS
<1>3. PICK F : F = FromSet(b) OBVIOUS
<1>4. /\ b \in Starts /\ b \in 1 .. N /\ F \in SUBSET (Block(b) \ bitmap) /\ F \in SUBSET request.avail
      /\ Cardinality(F) \in Nat /\ CpusOf(F) \in Nat
      /\ \/ F = Block(b) \ bitmap
         \/ Cardinality(F) >= maxNodes
         \/ Cardinality(F) >= remNodes /\ CpusOf(F) >= remCpus
  BY <1>2, <1>3, NextSet
<1>5. /\ b \in request.avail /\ b \in Block(b) /\ Block(b) \in SUBSET request.avail
      /\ table[b].nodes = Cardinality(Block(b)) /\ table[b].cpus = CpusOf(Block(b))
      /\ table[b].req = NoNode /\ \A k \in Block(b) : b <= k
  BY <1>1, <1>4, PlainTable
<1>6. remNodes = request.reqNodes /\ remCpus = request.minCpus /\ maxNodes = request.maxNodes
  <2>1. Total(Have, {}) = 0 BY TotalEmpty
  <2> QED BY <1>0, <1>1, <2>1, NoCpus DEF OnRow, RowInv, RowCounts
<1>7. table[b].cpus >= remCpus /\ table[b].nodes >= remNodes + request.minNodes - request.reqNodes
  BY <1>2 DEF Sufficient, Enough
<1>8. Block(b) \ bitmap = Block(b) BY <1>1
<1>9. Cardinality(F) >= request.minNodes BY <1>0, <1>4, <1>5, <1>6, <1>7, <1>8
<1>10. Cardinality(F) < request.maxNodes => CpusOf(F) >= request.minCpus
  <2>1. F = Block(b) => CpusOf(F) >= remCpus BY <1>5, <1>7
  <2> QED BY <1>0, <1>4, <1>6, <1>8, <2>1
<1>11. F = Some(Block(b), b) BY <1>3, <1>5, <1>8 DEF FromSet
<1>12. F # {} BY <1>0, <1>4, <1>9, NoCpus
<1>13. F \in SUBSET Nodes BY <1>0, <1>4
<1>14. /\ Min(F) \in F /\ \A k \in F : Min(F) <= k
       /\ Max(F) \in F /\ \A k \in F : k <= Max(F)
  BY <1>0, <1>12, <1>13, LeastNode
<1>15. PICK lo, hi : lo = Min(F) /\ hi = Max(F) OBVIOUS
<1>16. lo \in 1 .. N /\ hi \in 1 .. N /\ b <= lo /\ hi \in Block(b)
  BY <1>4, <1>5, <1>8, <1>13, <1>14, <1>15 DEF Nodes
<1>17. ASSUME NEW x \in lo .. hi PROVE x \in F
  <2>1. x \in b .. hi /\ x \in Nodes
    <3>1. b \in 1 .. N BY <1>4
    <3> QED BY <1>0, <1>16, <3>1 DEF Nodes
  <2>2. x \in Block(b) BY <1>0, <1>5, <1>16, <2>1, Rows
  <2>3. CASE x = hi BY <1>14, <1>15, <2>3
  <2>4. CASE x # hi
    <3>1. Place(x, b) < Place(hi, b) BY <1>4, <1>16, <2>1, <2>4 DEF Place
    <3>2. hi \in Some(Block(b), b) BY <1>11, <1>14, <1>15
    <3>3. Block(b) \in SUBSET Nodes /\ b \in 1 .. N + 1 BY <1>0, <1>4, <1>5
    <3> QED BY <1>0, <1>11, <2>2, <3>1, <3>2, <3>3, SomeFirst
  <2> QED BY <2>3, <2>4
<1>18. ASSUME NEW x \in F PROVE x \in lo .. hi
  <2>1. x \in Nodes /\ lo <= x /\ x <= hi BY <1>13, <1>14, <1>15
  <2> QED BY <1>16, <2>1 DEF Nodes
<1>19. F = Min(F) .. Max(F) BY <1>15, <1>17, <1>18
<1> QED BY <1>1, <1>2, <1>3, <1>9, <1>10, <1>19

\* A contiguous job is served by the one set it gets (lines 1010-1013).
LEMMA AddSetPromises ==
    ASSUME OnRow, request.network = "row", AddSet, pc' = "done" PROVE Promises'
<1> DEFINE F == FromSet(BestFit)
<1>0. /\ N \in Nat /\ request \in Requests /\ bitmap \in SUBSET Nodes
      /\ remNodes \in Int /\ remCpus \in Int /\ maxNodes \in Nat
      /\ request.minNodes \in Nat /\ request.reqNodes \in Nat /\ request.maxNodes \in Nat
      /\ request.minCpus \in Nat /\ request.minNodes <= request.reqNodes
      /\ request.avail \in SUBSET Nodes /\ request.avail # {}
  BY RowNumbers DEF OnRow
<1>1. /\ pc = "sets" /\ request' = request /\ BestFit # NoNode
      /\ request.contiguous => Sufficient(BestFit)
      /\ bitmap' = bitmap \cup F /\ bitmap' \in SUBSET request.avail
      /\ request.required \subseteq bitmap'
      /\ Cardinality(bitmap') \in Nat /\ CpusOf(bitmap') \in Nat
      /\ maxNodes' \in Nat
      /\ remNodes' = request.reqNodes - Cardinality(bitmap')
      /\ remCpus' = request.minCpus - CpusOf(bitmap')
      /\ maxNodes' = request.maxNodes - Cardinality(bitmap')
  BY AddSetCounts
<1>2. /\ rc' = "success"
      /\ request.contiguous \/ (remNodes' <= 0 /\ remCpus' <= 0)
  BY <1>1 DEF AddSet
<1>3. /\ Unlike' = Unlike /\ OneSet' = OneSet
      /\ \A S : WouldDo(S)' = WouldDo(S)
  BY <1>1, SameCall
<1> HIDE DEF F
<1>4. CpusOf(bitmap)' = CpusOf(bitmap') BY <1>1 DEF CpusOf
<1>5. GetsWhatItAsked'
  <2>1. ~request.contiguous => WouldDo(bitmap') BY <1>0, <1>1, <1>2 DEF WouldDo
  <2>2. WouldDo(bitmap)' <=> WouldDo(bitmap') BY <1>1, <1>4 DEF WouldDo
  <2> QED BY <1>1, <2>1, <2>2 DEF GetsWhatItAsked
<1>6. NeverTurnedAway' BY <1>2 DEF NeverTurnedAway
<1>7. SmallestSet'
  <2>1. Blocks' = Blocks
    <3>1. \A i : Block(i)' = Block(i) BY <1>1, SameCall
    <3> QED BY <1>1, <3>1 DEF Blocks
  <2>2. ASSUME OneSet
        PROVE  /\ Block(BestFit) \in Blocks /\ WouldDo(F) /\ F \subseteq Block(BestFit)
               /\ bitmap' \subseteq Block(BestFit)
               /\ \A C \in Blocks : (\E S \in SUBSET C : WouldDo(S)) =>
                     Cardinality(Block(BestFit)) <= Cardinality(C)
    <3>1. bitmap = {} BY <1>1, <2>2 DEF OnRow, RowInv, SetsInv, OneSet
    <3> QED BY <1>1, <2>2, <3>1, OneSetFound DEF F
  <2> DEFINE fits == {B \in Blocks : \E S \in SUBSET B : WouldDo(S)}
  <2>3. fits' = fits BY <1>3, <2>1
  <2>4. OneSet => \E B \in fits : bitmap' \subseteq B /\ \A C \in fits : Cardinality(B) <= Cardinality(C)
    BY <2>2
  <2>5. ~Unlike /\ (\A n \in request.avail : request.cpus[n] > 0)
        /\ request.required = {} /\ request.reqNodes = request.minNodes /\ fits # {} => OneSet
    BY DEF OneSet
  <2> HIDE DEF fits
  <2>6. ASSUME (Success /\ ~Unlike /\ (\A n \in request.avail : request.cpus[n] > 0)
               /\ request.required = {} /\ request.reqNodes = request.minNodes /\ request.network = "row")',
               fits' # {}
        PROVE  (\E B \in fits : bitmap \subseteq B /\ \A C \in fits : Cardinality(B) <= Cardinality(C))'
    BY <1>1, <1>3, <2>3, <2>4, <2>5, <2>6
  <2> QED BY <2>6 DEF SmallestSet, fits
<1>8. InARow'
  <2> SUFFICES ASSUME request.contiguous, request.required = {}, ~Unlike
               PROVE  /\ bitmap' = Min(bitmap') .. Max(bitmap')
                      /\ Cardinality(bitmap') >= request.minNodes
                      /\ Cardinality(bitmap') < request.maxNodes => CpusOf(bitmap') >= request.minCpus
    BY <1>1, <1>3, <1>4 DEF InARow
  <2>1. /\ bitmap = {} /\ F = Min(F) .. Max(F)
        /\ Cardinality(F) >= request.minNodes
        /\ Cardinality(F) < request.maxNodes => CpusOf(F) >= request.minCpus
    BY <1>1, RowOfNodes DEF F
  <2>2. bitmap' = F BY <1>1, <2>1
  <2> QED BY <2>1, <2>2
<1>9. LowestSwitch' /\ FewSwitches' BY <1>1 DEF LowestSwitch, FewSwitches, Leafy
<1> QED BY <1>5, <1>6, <1>7, <1>8, <1>9 DEF Promises

\* What the end of the function says is so (lines 1019-1026).
LEMMA FinishPromises ==
    ASSUME OnRow, request.network = "row", Finish PROVE Promises'
<1>0. /\ N \in Nat /\ request \in Requests /\ bitmap \in SUBSET Nodes
      /\ remNodes \in Int /\ remCpus \in Int /\ maxNodes \in Nat
      /\ Cardinality(bitmap) \in Nat /\ Total(Have, bitmap) \in Nat
      /\ request.minNodes \in Nat /\ request.reqNodes \in Nat /\ request.maxNodes \in Nat
      /\ request.minCpus \in Nat /\ 1 <= request.minNodes
      /\ request.avail \in SUBSET Nodes /\ request.avail # {}
  BY RowNumbers DEF OnRow
<1>1. /\ pc = "finish" /\ request' = request /\ bitmap' = bitmap
      /\ rc' = IF remCpus <= 0 /\ Enough(0, remNodes) THEN "success" ELSE "EINVAL"
  BY DEF Finish
<1>2. /\ Unlike' = Unlike /\ \A S : WouldDo(S)' = WouldDo(S) BY <1>1, SameCall
<1>3. /\ request.required \subseteq bitmap
      /\ remNodes = request.reqNodes - Cardinality(bitmap)
      /\ remCpus = request.minCpus - Total(Have, bitmap)
      /\ maxNodes = request.maxNodes - Cardinality(bitmap)
      /\ \/ bitmap \subseteq request.avail
         \/ /\ Unlike /\ Able \subseteq bitmap
            /\ request.reqNodes <= Cardinality(Able) => remCpus > 0
      /\ ~request.contiguous /\ (\E S \in SUBSET request.avail : WouldDo(S)) =>
            remCpus <= 0 /\ Enough(0, remNodes)
      /\ request.contiguous /\ request.required = {} /\ ~Unlike => bitmap = {}
      /\ ~OneSet
  BY <1>1 DEF OnRow, RowInv, RowCounts, UsableInv, FinishInv
<1>4. Enough(0, remNodes) <=> request.minNodes <= Cardinality(bitmap) BY <1>0, <1>3 DEF Enough
<1>5. CpusOf(bitmap)' = CpusOf(bitmap) BY <1>1 DEF CpusOf
<1>6. GetsWhatItAsked'
  <2> SUFFICES ASSUME rc' = "success", Unlike => request.reqNodes <= Cardinality(Able)
               PROVE  WouldDo(bitmap)
    BY <1>1, <1>2, <1>5 DEF GetsWhatItAsked, Success, Able
  <2>1. remCpus <= 0 /\ request.minNodes <= Cardinality(bitmap) BY <1>1, <1>4
  <2>2. bitmap \in SUBSET request.avail BY <1>0, <1>3, <2>1
  <2>3. Total(Have, bitmap) = CpusOf(bitmap) BY <1>0, <2>2, HaveSum
  <2> QED BY <1>0, <1>3, <2>1, <2>2, <2>3 DEF WouldDo
<1>7. NeverTurnedAway' BY <1>1, <1>2, <1>3 DEF NeverTurnedAway
<1>8. SmallestSet'
  <2>1. Blocks' = Blocks
    <3>1. \A i : Block(i)' = Block(i) BY <1>1, SameCall
    <3> QED BY <1>1, <3>1 DEF Blocks
  <2> DEFINE fits == {B \in Blocks : \E S \in SUBSET B : WouldDo(S)}
  <2>2. fits' = fits BY <1>2, <2>1
  <2>3. ~Unlike /\ (\A n \in request.avail : request.cpus[n] > 0)
        /\ request.required = {} /\ request.reqNodes = request.minNodes /\ fits # {} => OneSet
    BY DEF OneSet
  <2> HIDE DEF fits
  <2>4. ASSUME (Success /\ ~Unlike /\ (\A n \in request.avail : request.cpus[n] > 0)
               /\ request.required = {} /\ request.reqNodes = request.minNodes /\ request.network = "row")',
               fits' # {}
        PROVE  FALSE
    BY <1>1, <1>2, <1>3, <2>2, <2>3, <2>4
  <2> QED BY <2>4 DEF SmallestSet, fits
<1>9. InARow'
  <2> SUFFICES ASSUME rc' = "success", request.contiguous, request.required = {}, ~Unlike PROVE FALSE
    BY <1>1, <1>2 DEF InARow, Success
  <2>1. bitmap = {} /\ request.minNodes <= Cardinality(bitmap) BY <1>1, <1>3, <1>4
  <2> QED BY <1>0, <2>1, NoCpus
<1>10. LowestSwitch' /\ FewSwitches' BY <1>1 DEF LowestSwitch, FewSwitches, Leafy
<1> QED BY <1>6, <1>7, <1>8, <1>9, <1>10 DEF Promises

\* Who is refused at once would fit nowhere.
LEMMA RefusePromises ==
    ASSUME request \in Requests, Refuse PROVE Promises'
<1>1. /\ request' = request /\ rc' = "EINVAL"
      /\ Cardinality(request.avail) < request.minNodes \/ ~(request.required \subseteq request.avail)
  BY DEF Refuse
<1>2. \A S : WouldDo(S)' = WouldDo(S) BY <1>1, SameCall
<1>3. ASSUME NEW S \in SUBSET request.avail, WouldDo(S) PROVE FALSE
  <2>1. /\ Cardinality(S) \in Nat /\ Cardinality(request.avail) \in Nat
        /\ Cardinality(S) <= Cardinality(request.avail) /\ request.minNodes \in Nat
    BY Sizes, Call
  <2>2. request.required \subseteq S /\ request.minNodes <= Cardinality(S) BY <1>3 DEF WouldDo
  <2> QED BY <1>1, <2>1, <2>2
<1>4. NeverTurnedAway' BY <1>1, <1>2, <1>3 DEF NeverTurnedAway
<1> QED BY <1>1, <1>4
        DEF Promises, GetsWhatItAsked, SmallestSet, InARow, LowestSwitch, FewSwitches, Success


=============================================================================
