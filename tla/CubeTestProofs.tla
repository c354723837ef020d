---------------------------- MODULE CubeTestProofs ----------------------------
(***************************************************************************)
(* What _job_test promises on a cluster with switches, and the theorems    *)
(* for every kind of cluster.  The steps on a row are those of             *)
(* JobTestProofs.                                                          *)
(***************************************************************************)
EXTENDS JobTestProofs

\* The leaves from which nodes are taken.
Below(i) == Level(i) = 0 /\ Under(i) \subseteq Under(BestSwitch)

\* The job is under the best switch.
BestInv ==
    pc \in {"required", "leaves"} =>
        /\ BestSwitch \in Switches /\ Holds(BestSwitch)
        /\ \A j \in Switches : Holds(j) => ~Lower(j, BestSwitch)
        /\ request.required \subseteq bitmap /\ bitmap \subseteq Under(BestSwitch)
        /\ remNodes = request.reqNodes - Cardinality(bitmap)
        /\ remCpus = request.minCpus - CpusOf(bitmap)
        /\ maxNodes = request.maxNodes + 1 - Cardinality(bitmap)

\* What is not taken is still on its leaf.  One node too many was taken for its
\* CPUs only: without it there were too few.
LeavesInv ==
    pc \in {"required", "leaves"} =>
        /\ DOMAIN leaves = Switches
        /\ \A i \in Switches :
              /\ leaves[i].nodes \subseteq Under(i)
              /\ leaves[i].cpus = CpusOf(leaves[i].nodes)
              /\ leaves[i].count > 0 => Below(i)
              /\ ~Tree /\ Below(i) => leaves[i].count = Cardinality(leaves[i].nodes)
              /\ Below(i) /\ More =>
                    Under(i) \subseteq bitmap \cup (IF leaves[i].count > 0 THEN leaves[i].nodes ELSE {})
        /\ maxNodes = 0 =>
              \E B \in SUBSET bitmap : Cardinality(B) = request.maxNodes /\ CpusOf(B) < request.minCpus

\* If none is required, all nodes are from leaves that are counted.
FewInv ==
    /\ pc = "begin" => leafCount = 0
    /\ pc \in {"required", "leaves"} =>
          /\ pc = "required" => Tree
          /\ Tree /\ request.required = {} => \A i \in Switches : leaves[i].used = 0
          /\ leafCount > 0 /\ SwitchLimit > 0 => bestSwitch = WithinLimit(leafCount)
          /\ request.required = {} =>
                \E L \in SUBSET {i \in Switches : Level(i) = 0} :
                    /\ IsFiniteSet(L) /\ Cardinality(L) <= leafCount
                    /\ bitmap \subseteq UNION {Under(i) : i \in L}

LeafyInv == BestInv /\ LeavesInv /\ FewInv

\* A cluster of switches on which the call is under way.
OnLeaves == request \in Requests /\ TopoTypeOK /\ LeafyInv /\ Usable /\ Leafy

-----------------------------------------------------------------------------
(* Switches *)

\* The places and the elements of a sequence.
LEMMA InSequence ==
    ASSUME NEW T, NEW s \in Seq(T)
    PROVE  DOMAIN s = 1 .. Len(s) /\ Len(s) \in Nat /\ \A i \in DOMAIN s : s[i] \in T
OBVIOUS

\* What is known of the switches of a call.
LEMMA SwitchFacts ==
    ASSUME request \in Requests
    PROVE  /\ Switches \in SUBSET Nat
           /\ \A i \in Switches : /\ Level(i) \in Nat
                                  /\ Under(i) \in SUBSET request.avail
                                  /\ Under(i) \in SUBSET Nodes
                                  /\ Cardinality(Under(i)) \in Nat /\ CpusOf(Under(i)) \in Nat
                                  /\ \A n \in Under(i) : \E j \in Switches :
                                        Level(j) = 0 /\ n \in Under(j) /\ Under(j) \subseteq Under(i)
<1>1. request.switches \in Seq([level : Nat, nodes : SUBSET Nodes]) /\ request.avail \in SUBSET Nodes
      /\ \A i \in DOMAIN request.switches : \A n \in request.switches[i].nodes :
                \E j \in DOMAIN request.switches :
                    /\ request.switches[j].level = 0 /\ n \in request.switches[j].nodes
                    /\ request.switches[j].nodes \subseteq request.switches[i].nodes
  BY JobTestAssumption DEF RequestType
<1>2. Switches \in SUBSET Nat BY <1>1 DEF Switches
<1>3. ASSUME NEW i \in Switches
      PROVE  /\ Level(i) \in Nat /\ Under(i) \in SUBSET request.avail /\ Under(i) \in SUBSET Nodes
             /\ Cardinality(Under(i)) \in Nat /\ CpusOf(Under(i)) \in Nat
  <2>1. request.switches[i] \in [level : Nat, nodes : SUBSET Nodes]
    <3>1. request.switches \in Seq([level : Nat, nodes : SUBSET Nodes]) BY <1>1
    <3> QED BY <1>3, <3>1, InSequence DEF Switches
  <2>2. Level(i) \in Nat /\ Under(i) \in SUBSET request.avail BY <2>1 DEF Level, Under
  <2> QED BY <1>1, <2>2, Sizes
<1>4. ASSUME NEW i \in Switches, NEW n \in Under(i)
      PROVE  \E j \in Switches : Level(j) = 0 /\ n \in Under(j) /\ Under(j) \subseteq Under(i)
  <2>1. i \in DOMAIN request.switches /\ n \in request.switches[i].nodes /\ n \in request.avail
    BY DEF Switches, Under
  <2>2. PICK j \in DOMAIN request.switches :
           /\ request.switches[j].level = 0 /\ n \in request.switches[j].nodes
           /\ request.switches[j].nodes \subseteq request.switches[i].nodes
    BY <1>1, <2>1
  <2> QED BY <2>1, <2>2 DEF Switches, Level, Under
<1> QED BY <1>2, <1>3, <1>4

\* There is a best switch if any will do.
LEMMA BestSwitchFound ==
    ASSUME request \in Requests, \E i \in Switches : Holds(i)
    PROVE  /\ BestSwitch \in Switches /\ Holds(BestSwitch)
           /\ \A j \in Switches : Holds(j) => ~Lower(j, BestSwitch)
<1> DEFINE H == {i \in Switches : Holds(i)}
           level == [i \in H |-> Level(i)]
           size == [i \in H |-> Cardinality(Under(i))]
<1>1. H \in SUBSET Nat /\ H # {} /\ level \in [H -> Nat] /\ size \in [H -> Nat]
  BY SwitchFacts
<1>2. PICK i \in H : \A j \in H :
         \/ level[i] < level[j]
         \/ level[i] = level[j] /\ size[i] < size[j]
         \/ level[i] = level[j] /\ size[i] = size[j] /\ i <= j
  <2> HIDE DEF H, level, size
  <2> QED BY <1>1, FirstByKeys
<1>3. ASSUME NEW j \in Switches, Holds(j) PROVE ~Lower(j, i) /\ (i <= j \/ Lower(i, j))
  <2>1. j \in H BY <1>3
  <2>2. \/ Level(i) < Level(j)
        \/ Level(i) = Level(j) /\ Cardinality(Under(i)) < Cardinality(Under(j))
        \/ Level(i) = Level(j) /\ Cardinality(Under(i)) = Cardinality(Under(j)) /\ i <= j
    BY <1>2, <2>1
  <2>3. /\ Level(i) \in Nat /\ Level(j) \in Nat
        /\ Cardinality(Under(i)) \in Nat /\ Cardinality(Under(j)) \in Nat
    BY <1>2, <1>3, SwitchFacts
  <2> QED BY <2>2, <2>3 DEF Lower
<1>4. \E k \in Switches : Holds(k) /\ \A j \in Switches : Holds(j) => ~Lower(j, k) /\ (k <= j \/ Lower(k, j))
  BY <1>2, <1>3
<1> QED BY <1>4 DEF BestSwitch

\* The switches of a call do not change.
LEMMA SameSwitches ==
    ASSUME request' = request
    PROVE  /\ Switches' = Switches /\ Tree' = Tree /\ Leafy' = Leafy
           /\ BestSwitch' = BestSwitch /\ SwitchLimit' = SwitchLimit
           /\ \A i : Level(i)' = Level(i) /\ Under(i)' = Under(i) /\ Holds(i)' = Holds(i)
                     /\ Below(i)' = Below(i)
           /\ \A i, j : Lower(i, j)' = Lower(i, j)
           /\ \A c : WithinLimit(c)' = WithinLimit(c)
<1>1. \A S : CpusOf(S)' = CpusOf(S) BY DEF CpusOf
<1>2. Switches' = Switches /\ Tree' = Tree /\ Leafy' = Leafy BY DEF Switches, Tree, Leafy
<1>3. SwitchLimit' = SwitchLimit BY <1>2 DEF SwitchLimit
<1>4. \A i : Level(i)' = Level(i) /\ Under(i)' = Under(i) BY DEF Level, Under
<1>5. \A i : Holds(i)' = Holds(i) BY <1>1, <1>4 DEF Holds
<1>6. \A i, j : Lower(i, j)' = Lower(i, j) BY <1>4 DEF Lower
<1>7. BestSwitch' = BestSwitch BY <1>2, <1>5, <1>6 DEF BestSwitch
<1>8. \A i : Below(i)' = Below(i) BY <1>4, <1>7 DEF Below
<1>9. \A c : WithinLimit(c)' = WithinLimit(c) BY <1>3 DEF WithinLimit
<1> QED BY <1>2, <1>3, <1>4, <1>5, <1>6, <1>7, <1>8, <1>9

\* The required nodes are taken off their leaves first (lines 2076-2131).
LEMMA TakeRequiredStep ==
    ASSUME request \in Requests, TopoTypeOK, FewInv, TakeRequired
    PROVE  TopoTypeOK' /\ LeafyInv'
<1> DEFINE wanted(i) == IF Below(i) THEN Under(i) \cap request.required ELSE {}
           earlier(i) == UNION {wanted(j) : j \in 1 .. i - 1}
           rest(i) == Under(i) \ wanted(i)
<1>1. /\ request' = request /\ table' = table /\ left' = left /\ rc' = rc
      /\ leafCount' = leafCount /\ bestSwitch' = bestSwitch
      /\ pc = "begin" /\ Leafy /\ Usable /\ \E i \in Switches : Holds(i)
      /\ leaves' = [i \in Switches |->
                 [nodes |-> rest(i),
                  count |-> IF Below(i) THEN Cardinality(rest(i)) ELSE 0,
                  cpus  |-> CpusOf(rest(i)),
                  used  |-> Cardinality(wanted(i) \ earlier(i))]]
      /\ bitmap' = UNION {wanted(i) : i \in Switches}
      /\ remNodes' = request.reqNodes - Cardinality(bitmap')
      /\ remCpus' = request.minCpus - CpusOf(bitmap')
      /\ maxNodes' = request.maxNodes + 1 - Cardinality(bitmap')
      /\ pc' = IF Tree THEN "required" ELSE "leaves"
  BY DEF TakeRequired, Below
<1>2. /\ Switches' = Switches /\ Tree' = Tree /\ BestSwitch' = BestSwitch /\ SwitchLimit' = SwitchLimit
      /\ \A i : Level(i)' = Level(i) /\ Under(i)' = Under(i) /\ Holds(i)' = Holds(i) /\ Below(i)' = Below(i)
      /\ \A i, j : Lower(i, j)' = Lower(i, j)
  BY <1>1, SameSwitches
<1>3. \A S : CpusOf(S)' = CpusOf(S) BY <1>1 DEF CpusOf
<1>4. /\ BestSwitch \in Switches /\ Holds(BestSwitch)
      /\ \A j \in Switches : Holds(j) => ~Lower(j, BestSwitch)
  BY <1>1, BestSwitchFound
<1>5. request.required \subseteq Under(BestSwitch) BY <1>4 DEF Holds
<1>6. bitmap' = request.required
  <2>1. ASSUME NEW n \in request.required PROVE n \in bitmap'
    <3>1. PICK j \in Switches : Level(j) = 0 /\ n \in Under(j) /\ Under(j) \subseteq Under(BestSwitch)
      BY <1>4, <1>5, SwitchFacts
    <3>2. n \in wanted(j) BY <3>1 DEF Below
    <3> QED BY <1>1, <3>2
  <2>2. ASSUME NEW n \in bitmap' PROVE n \in request.required BY <1>1
  <2> QED BY <2>1, <2>2
<1>7. /\ N \in Nat /\ request.required \in SUBSET Nodes /\ Cardinality(request.required) \in Nat
      /\ CpusOf(request.required) \in Nat
      /\ request.minNodes \in Nat /\ request.reqNodes \in Nat /\ request.maxNodes \in Nat
      /\ request.minCpus \in Nat
      /\ Cardinality(request.required) <= request.minNodes /\ request.minNodes <= request.reqNodes
      /\ request.reqNodes <= request.maxNodes
  BY Call, FiniteNodes, SomeCpus
<1>8. maxNodes' \in Nat \ {0} /\ remNodes' \in Int /\ remCpus' \in Int BY <1>1, <1>6, <1>7
<1>9. ASSUME NEW i \in Switches
      PROVE  /\ Under(i) \in SUBSET Nodes /\ wanted(i) \in SUBSET Under(i)
             /\ rest(i) \in SUBSET Nodes /\ IsFiniteSet(rest(i))
             /\ Cardinality(rest(i)) \in Nat /\ CpusOf(rest(i)) \in Nat
             /\ Cardinality(wanted(i) \ earlier(i)) \in Nat
             /\ wanted(i) \subseteq request.required
  <2>1. Under(i) \in SUBSET Nodes BY SwitchFacts
  <2>2. wanted(i) \in SUBSET Under(i) /\ rest(i) \in SUBSET Nodes
        /\ (wanted(i) \ earlier(i)) \in SUBSET Nodes BY <2>1
  <2> HIDE DEF wanted, rest, earlier
  <2>3. /\ IsFiniteSet(rest(i)) /\ Cardinality(rest(i)) \in Nat /\ CpusOf(rest(i)) \in Nat
        /\ Cardinality(wanted(i) \ earlier(i)) \in Nat
    BY <1>7, <2>2, FiniteNodes, SomeCpus
  <2>4. wanted(i) \subseteq request.required BY DEF wanted
  <2> QED BY <2>1, <2>2, <2>3, <2>4
<1> HIDE DEF earlier
<1>10. TopoTypeOK'
  <2>1. \A i \in DOMAIN leaves' :
           leaves'[i] \in [nodes : SUBSET Nodes, count : Nat, cpus : Nat, used : Nat]
    <3> HIDE DEF wanted, rest
    <3> QED BY <1>1, <1>9
  <2>2. TypeOK' BY <1>1, <1>6, <1>7, <1>8 DEF TopoTypeOK, TypeOK
  <2> QED BY <1>1, <2>1, <2>2 DEF TopoTypeOK
<1>11. BestInv' BY <1>1, <1>2, <1>3, <1>4, <1>5, <1>6 DEF BestInv
<1>12. LeavesInv'
  <2>1. ASSUME NEW i \in Switches
        PROVE  /\ leaves'[i].nodes = rest(i) /\ rest(i) \subseteq Under(i)
               /\ leaves'[i].cpus = CpusOf(rest(i))
               /\ leaves'[i].count > 0 => Below(i)
               /\ Below(i) => leaves'[i].count = Cardinality(rest(i))
               /\ Below(i) => Under(i) \subseteq bitmap' \cup (IF leaves'[i].count > 0 THEN rest(i) ELSE {})
    <3>1. /\ leaves'[i].nodes = rest(i) /\ leaves'[i].cpus = CpusOf(rest(i))
          /\ leaves'[i].count = IF Below(i) THEN Cardinality(rest(i)) ELSE 0
      <4> HIDE DEF wanted, rest
      <4> QED BY <1>1
    <3>2. Under(i) \subseteq wanted(i) \cup rest(i) OBVIOUS
    <3>3. wanted(i) \subseteq bitmap' BY <1>1
    <3>4. Cardinality(rest(i)) = 0 => rest(i) = {}
      <4> HIDE DEF rest
      <4> QED BY <1>9, FS_EmptySet
    <3>5. rest(i) \subseteq Under(i) OBVIOUS
    <3> HIDE DEF wanted, rest
    <3>6. Cardinality(rest(i)) \in Nat BY <1>9
    <3> QED BY <3>1, <3>2, <3>3, <3>4, <3>5, <3>6
  <2>2. DOMAIN leaves' = Switches BY <1>1
  <2>3. maxNodes' # 0 BY <1>8
  <2> HIDE DEF wanted, rest
  <2> QED BY <1>1, <1>2, <1>3, <2>1, <2>2, <2>3 DEF LeavesInv
<1>13. FewInv'
  <2>1. leafCount' = 0 BY <1>1 DEF FewInv
  <2>2. ASSUME request.required = {}, NEW i \in Switches PROVE leaves'[i].used = 0
    <3>1. wanted(i) \ earlier(i) = {} BY <1>9, <2>2
    <3>2. leaves'[i].used = Cardinality(wanted(i) \ earlier(i))
      <4> HIDE DEF wanted, rest
      <4> QED BY <1>1
    <3> QED BY <3>1, <3>2, NoCpus
  <2>3. ASSUME request.required = {}
        PROVE  \E L \in SUBSET {i \in Switches : Level(i) = 0} :
                  /\ IsFiniteSet(L) /\ Cardinality(L) <= leafCount'
                  /\ bitmap' \subseteq UNION {Under(i) : i \in L}
    <3>1. IsFiniteSet({}) /\ Cardinality({}) = 0 BY FS_EmptySet
    <3>2. bitmap' = {} BY <1>6, <2>3
    <3> WITNESS {} \in SUBSET {i \in Switches : Level(i) = 0}
    <3> QED BY <2>1, <3>1, <3>2
  <2> HIDE DEF wanted, rest
  <2>4. pc' = "required" => Tree BY <1>1
  <2>5. pc' # "begin" BY <1>1
  <2>6. ~(leafCount' > 0) BY <2>1
  <2>7. (\A i \in Switches : leaves[i].used = 0)' <=> \A i \in Switches : leaves'[i].used = 0
    BY <1>2
  <2> QED BY <1>1, <1>2, <2>2, <2>3, <2>4, <2>5, <2>6, <2>7 DEF FewInv
<1> QED BY <1>10, <1>11, <1>12, <1>13 DEF LeafyInv

-----------------------------------------------------------------------------
(* Leaves *)

\* What is known while leaves are being taken.
LEMMA LeafNumbers ==
    ASSUME OnLeaves, pc \in {"required", "leaves"}
    PROVE  /\ N \in Nat /\ request \in Requests /\ bitmap \in SUBSET Nodes
           /\ bitmap \in SUBSET request.avail /\ request.avail \in SUBSET Nodes
           /\ remNodes \in Int /\ remCpus \in Int /\ maxNodes \in Nat
           /\ Cardinality(bitmap) \in Nat /\ CpusOf(bitmap) \in Nat
           /\ request.minNodes \in Nat /\ request.reqNodes \in Nat /\ request.maxNodes \in Nat
           /\ request.minCpus \in Nat /\ request.minNodes <= request.reqNodes
           /\ request.reqNodes <= request.maxNodes
           /\ remNodes = request.reqNodes - Cardinality(bitmap)
           /\ remCpus = request.minCpus - CpusOf(bitmap)
           /\ maxNodes = request.maxNodes + 1 - Cardinality(bitmap)
           /\ request.required \subseteq bitmap
           /\ BestSwitch \in Switches /\ Holds(BestSwitch) /\ bitmap \subseteq Under(BestSwitch)
           /\ \A j \in Switches : Holds(j) => ~Lower(j, BestSwitch)
<1>1. /\ request \in Requests /\ bitmap \in SUBSET Nodes
      /\ remNodes \in Int /\ remCpus \in Int /\ maxNodes \in Nat
  BY DEF OnLeaves, TopoTypeOK, TypeOK
<1>2. /\ BestSwitch \in Switches /\ Holds(BestSwitch)
      /\ \A j \in Switches : Holds(j) => ~Lower(j, BestSwitch)
      /\ request.required \subseteq bitmap /\ bitmap \subseteq Under(BestSwitch)
      /\ remNodes = request.reqNodes - Cardinality(bitmap)
      /\ remCpus = request.minCpus - CpusOf(bitmap)
      /\ maxNodes = request.maxNodes + 1 - Cardinality(bitmap)
  BY DEF OnLeaves, LeafyInv, BestInv
<1>3. Under(BestSwitch) \in SUBSET request.avail BY <1>1, <1>2, SwitchFacts
<1>4. N \in Nat BY <1>1, Call
<1>5. Cardinality(bitmap) \in Nat /\ CpusOf(bitmap) \in Nat BY <1>1, <1>4, FiniteNodes, SomeCpus
<1> QED BY <1>1, <1>2, <1>3, <1>4, <1>5, Call

\* An open leaf.
LEMMA LeafFacts ==
    ASSUME OnLeaves, pc \in {"required", "leaves"}, NEW b \in Switches
    PROVE  /\ DOMAIN leaves = Switches
           /\ leaves[b] \in [nodes : SUBSET Nodes, count : Nat, cpus : Nat, used : Nat]
           /\ leaves[b].nodes \in SUBSET Nodes /\ leaves[b].nodes \subseteq Under(b)
           /\ leaves[b].count \in Nat /\ leaves[b].cpus \in Nat /\ leaves[b].used \in Nat
           /\ leaves[b].cpus = CpusOf(leaves[b].nodes)
           /\ leaves[b].count > 0 => Below(b)
           /\ ~Tree /\ Below(b) => leaves[b].count = Cardinality(leaves[b].nodes)
           /\ Below(b) /\ More =>
                 Under(b) \subseteq bitmap \cup (IF leaves[b].count > 0 THEN leaves[b].nodes ELSE {})
<1>1. /\ DOMAIN leaves = Switches
      /\ \A i \in Switches :
              /\ leaves[i].nodes \subseteq Under(i)
              /\ leaves[i].cpus = CpusOf(leaves[i].nodes)
              /\ leaves[i].count > 0 => Below(i)
              /\ ~Tree /\ Below(i) => leaves[i].count = Cardinality(leaves[i].nodes)
              /\ Below(i) /\ More =>
                    Under(i) \subseteq bitmap \cup (IF leaves[i].count > 0 THEN leaves[i].nodes ELSE {})
  BY DEF OnLeaves, LeafyInv, LeavesInv
<1>2. leaves[b] \in [nodes : SUBSET Nodes, count : Nat, cpus : Nat, used : Nat]
  BY <1>1 DEF OnLeaves, TopoTypeOK
<1> QED BY <1>1, <1>2

\* The nodes that are taken from it.
LEMMA FromLeafFacts ==
    ASSUME OnLeaves, pc \in {"required", "leaves"}, More, NEW b \in Switches
    PROVE  LET S == FromLeaf(b)
           IN  /\ S \in SUBSET (leaves[b].nodes \ bitmap) /\ S \in SUBSET Nodes
               /\ Cardinality(S) \in Nat /\ CpusOf(S) \in Nat
               /\ Cardinality(S) <= maxNodes
               /\ Tree => \/ S = leaves[b].nodes \ bitmap
                          \/ Cardinality(S) >= maxNodes
                          \/ Cardinality(S) >= remNodes /\ CpusOf(S) >= remCpus
               /\ S # {} => \E n \in S : /\ Cardinality(S) = Cardinality(S \ {n}) + 1
                                         /\ Cardinality(S \ {n}) < remNodes \/ CpusOf(S \ {n}) < remCpus
<1>0. /\ N \in Nat /\ request \in Requests /\ remNodes \in Int /\ remCpus \in Int /\ maxNodes \in Nat
  BY LeafNumbers
<1>1. PICK free : free = leaves[b].nodes \ bitmap OBVIOUS
<1>2. free \in SUBSET Nodes BY <1>1, LeafFacts
<1>3. maxNodes > 0 /\ (remNodes > 0 \/ remCpus > 0) BY DEF More, Wanting
<1>4. PICK S : S = FromLeaf(b) OBVIOUS
<1>5. CASE Tree
  <2>1. S = Some(free, 1) BY <1>1, <1>4, <1>5 DEF FromLeaf
  <2>2. 1 \in 1 .. N + 1 BY <1>0
  <2>3. /\ Some(free, 1) \in SUBSET free
        /\ Cardinality(Some(free, 1)) \in Nat /\ CpusOf(Some(free, 1)) \in Nat
        /\ Cardinality(Some(free, 1)) <= maxNodes
    BY <1>0, <1>2, <2>2, SomeAllowed
  <2>4. \/ Some(free, 1) = free
        \/ Cardinality(Some(free, 1)) >= maxNodes
        \/ Cardinality(Some(free, 1)) >= remNodes /\ CpusOf(Some(free, 1)) >= remCpus
    BY <1>0, <1>2, <2>2, SomeEnough
  <2>5. Some(free, 1) # {} =>
          \E n \in Some(free, 1) :
              LET B == Some(free, 1) \ {n}
              IN  /\ Cardinality(Some(free, 1)) = Cardinality(B) + 1
                  /\ Cardinality(B) < maxNodes
                  /\ Cardinality(B) < remNodes \/ CpusOf(B) < remCpus
    BY <1>0, <1>2, <2>2, SomeLast
  <2> QED BY <1>1, <1>2, <1>4, <2>1, <2>3, <2>4, <2>5
<1>6. CASE ~Tree
  <2>1. S = {n \in free : \A k \in free : n <= k} BY <1>1, <1>4, <1>6 DEF FromLeaf
  <2>2. CASE S = {}
    <3>1. Cardinality(S) = 0 /\ CpusOf(S) = 0 BY <2>2, NoCpus
    <3> QED BY <1>0, <1>4, <1>6, <2>2, <3>1
  <2>3. CASE S # {}
    <3>1. PICK n \in S : TRUE BY <2>3
    <3>2. free \in SUBSET Int BY <1>2 DEF Nodes
    <3>3. S = {n}
      <4>1. ASSUME NEW m \in S PROVE m = n
        <5>1. m \in Int /\ n \in Int /\ m <= n /\ n <= m BY <2>1, <3>1, <3>2
        <5> QED BY <5>1
      <4> QED BY <3>1, <4>1
    <3>4. Cardinality({n}) = 1 BY FS_Singleton
    <3>5. S \ {n} = {} /\ Cardinality({}) = 0 /\ CpusOf({}) = 0 BY <3>3, NoCpus
    <3>6. S \in SUBSET free /\ S \in SUBSET Nodes BY <1>2, <2>1
    <3>7. CpusOf(S) \in Nat BY <1>0, <3>6, SomeCpus
    <3>8. Cardinality(S) = 1 BY <3>3, <3>4
    <3>9. /\ Cardinality(S) = Cardinality(S \ {n}) + 1
          /\ Cardinality(S \ {n}) < remNodes \/ CpusOf(S \ {n}) < remCpus
      BY <1>0, <1>3, <3>5, <3>8
    <3>10. Cardinality(S) <= maxNodes /\ Cardinality(S) \in Nat BY <1>0, <1>3, <3>8
    <3> QED BY <1>1, <1>4, <1>6, <3>1, <3>6, <3>7, <3>9, <3>10
  <2> QED BY <2>2, <2>3
<1> QED BY <1>5, <1>6

\* What is left of the leaf, and to find.
LEMMA TakeCounts ==
    ASSUME OnLeaves, pc \in {"required", "leaves"}, More, NEW b \in Switches, leaves[b].count > 0,
           Take(b), request' = request, table' = table, left' = left, rc' = rc, pc' = pc
    PROVE  /\ TypeOK' /\ BestInv'
           /\ \A i \in DOMAIN leaves' :
                 leaves'[i] \in [nodes : SUBSET Nodes, count : Nat, cpus : Nat, used : Nat]
<1> DEFINE S == FromLeaf(b)
<1>0. /\ N \in Nat /\ request \in Requests /\ bitmap \in SUBSET Nodes
      /\ remNodes \in Int /\ remCpus \in Int /\ maxNodes \in Nat
      /\ Cardinality(bitmap) \in Nat /\ CpusOf(bitmap) \in Nat
      /\ request.reqNodes \in Nat /\ request.maxNodes \in Nat /\ request.minCpus \in Nat
      /\ remNodes = request.reqNodes - Cardinality(bitmap)
      /\ remCpus = request.minCpus - CpusOf(bitmap)
      /\ maxNodes = request.maxNodes + 1 - Cardinality(bitmap)
      /\ request.required \subseteq bitmap
      /\ BestSwitch \in Switches /\ Holds(BestSwitch) /\ bitmap \subseteq Under(BestSwitch)
      /\ \A j \in Switches : Holds(j) => ~Lower(j, BestSwitch)
  BY LeafNumbers
<1>1. /\ S \in SUBSET (leaves[b].nodes \ bitmap) /\ S \in SUBSET Nodes
      /\ Cardinality(S) \in Nat /\ CpusOf(S) \in Nat /\ Cardinality(S) <= maxNodes
      /\ ~Tree => Cardinality(S) <= leaves[b].count
  <2>1. /\ S \in SUBSET (leaves[b].nodes \ bitmap) /\ S \in SUBSET Nodes
        /\ Cardinality(S) \in Nat /\ CpusOf(S) \in Nat /\ Cardinality(S) <= maxNodes
    BY FromLeafFacts
  <2>2. ~Tree => leaves[b].count = Cardinality(leaves[b].nodes) BY LeafFacts
  <2>3. leaves[b].nodes \in SUBSET Nodes BY LeafFacts
  <2> HIDE DEF S
  <2>4. S \in SUBSET leaves[b].nodes BY <2>1
  <2>5. Cardinality(S) <= Cardinality(leaves[b].nodes) BY <1>0, <2>3, <2>4, MoreNodes
  <2> QED BY <2>1, <2>2, <2>5
<1>2. /\ bitmap' = bitmap \cup S /\ remNodes' = remNodes - Cardinality(S)
      /\ remCpus' = remCpus - CpusOf(S) /\ maxNodes' = maxNodes - Cardinality(S)
      /\ leaves' = IF Tree THEN [leaves EXCEPT ![b].count = 0]
                   ELSE [leaves EXCEPT ![b].nodes = @ \ S, ![b].count = @ - Cardinality(S),
                                       ![b].cpus = @ - CpusOf(S), ![b].used = @ + Cardinality(S)]
  BY DEF Take
<1> HIDE DEF S
<1>3. /\ Cardinality(bitmap \cup S) = Cardinality(bitmap) + Cardinality(S)
      /\ CpusOf(bitmap \cup S) = CpusOf(bitmap) + CpusOf(S)
  <2>1. bitmap \cap S = {} BY <1>1
  <2> QED BY <1>0, <1>1, <2>1, NodesJoin
<1>4. bitmap' \in SUBSET Nodes /\ maxNodes' \in Nat /\ remNodes' \in Int /\ remCpus' \in Int
  BY <1>0, <1>1, <1>2
<1>5. TypeOK' BY <1>4 DEF OnLeaves, TopoTypeOK, TypeOK
<1>6. S \subseteq Under(BestSwitch)
  <2>1. leaves[b].nodes \subseteq Under(b) /\ Below(b) BY LeafFacts
  <2> QED BY <1>1, <2>1 DEF Below
<1>7. BestInv'
  <2>1. /\ Switches' = Switches /\ BestSwitch' = BestSwitch
        /\ \A i : Under(i)' = Under(i) /\ Holds(i)' = Holds(i)
        /\ \A i, j : Lower(i, j)' = Lower(i, j)
    BY SameSwitches
  <2>2. CpusOf(bitmap)' = CpusOf(bitmap') BY DEF CpusOf
  <2>3. request.required \subseteq bitmap' /\ bitmap' \subseteq Under(BestSwitch) BY <1>0, <1>2, <1>6
  <2>4. /\ remNodes' = request.reqNodes - Cardinality(bitmap')
        /\ remCpus' = request.minCpus - CpusOf(bitmap')
        /\ maxNodes' = request.maxNodes + 1 - Cardinality(bitmap')
    BY <1>0, <1>1, <1>2, <1>3
  <2> QED BY <1>0, <2>1, <2>2, <2>3, <2>4 DEF BestInv
<1>8. ASSUME NEW i \in DOMAIN leaves'
      PROVE  leaves'[i] \in [nodes : SUBSET Nodes, count : Nat, cpus : Nat, used : Nat]
  <2>1. i \in DOMAIN leaves BY <1>2
  <2>2. i \in Switches BY <2>1, LeafFacts
  <2>3. leaves[i] \in [nodes : SUBSET Nodes, count : Nat, cpus : Nat, used : Nat] BY <2>2, LeafFacts
  <2>4. CASE i # b BY <1>2, <2>1, <2>3, <2>4
  <2>5. CASE i = b /\ Tree
    <3>1. leaves'[i] = [leaves[i] EXCEPT !.count = 0] BY <1>2, <2>1, <2>5
    <3> QED BY <2>3, <3>1
  <2>6. CASE i = b /\ ~Tree
    <3>1. leaves'[i] = [leaves[i] EXCEPT !.nodes = @ \ S, !.count = @ - Cardinality(S),
                                         !.cpus = @ - CpusOf(S), !.used = @ + Cardinality(S)]
      BY <1>2, <2>1, <2>6
    <3>2. CpusOf(S) <= leaves[b].cpus /\ leaves[b].cpus \in Nat
      <4>1. leaves[b].cpus = CpusOf(leaves[b].nodes) /\ leaves[b].nodes \in SUBSET Nodes
            /\ leaves[b].cpus \in Nat
        BY LeafFacts
      <4>2. S \in SUBSET leaves[b].nodes BY <1>1
      <4> QED BY <1>0, <4>1, <4>2, MoreNodes
    <3>3. /\ leaves[b].nodes \ S \in SUBSET Nodes /\ leaves[b].count - Cardinality(S) \in Nat
          /\ leaves[b].cpus - CpusOf(S) \in Nat /\ leaves[b].used + Cardinality(S) \in Nat
      BY <1>1, <2>3, <2>6, <3>2
    <3>4. leaves'[i] = [nodes |-> leaves[b].nodes \ S, count |-> leaves[b].count - Cardinality(S),
                        cpus |-> leaves[b].cpus - CpusOf(S), used |-> leaves[b].used + Cardinality(S)]
      BY <2>3, <2>6, <3>1
    <3> QED BY <3>3, <3>4
  <2> QED BY <2>4, <2>5, <2>6
<1> QED BY <1>5, <1>7, <1>8

\* The leaf after it.
LEMMA TakenLeaf ==
    ASSUME OnLeaves, pc \in {"required", "leaves"}, NEW b \in Switches, Take(b)
    PROVE  LET S == FromLeaf(b)
           IN  /\ DOMAIN leaves' = DOMAIN leaves
               /\ \A i \in Switches \ {b} : leaves'[i] = leaves[i]
               /\ Tree => /\ leaves'[b].nodes = leaves[b].nodes /\ leaves'[b].count = 0
                          /\ leaves'[b].cpus = leaves[b].cpus /\ leaves'[b].used = leaves[b].used
               /\ ~Tree => /\ leaves'[b].nodes = leaves[b].nodes \ S
                           /\ leaves'[b].count = leaves[b].count - Cardinality(S)
                           /\ leaves'[b].cpus = leaves[b].cpus - CpusOf(S)
<1> DEFINE S == FromLeaf(b)
<1>1. leaves' = IF Tree THEN [leaves EXCEPT ![b].count = 0]
                ELSE [leaves EXCEPT ![b].nodes = @ \ S, ![b].count = @ - Cardinality(S),
                                    ![b].cpus = @ - CpusOf(S), ![b].used = @ + Cardinality(S)]
  BY DEF Take
<1> HIDE DEF S
<1>2. b \in DOMAIN leaves BY LeafFacts
<1>3. leaves[b] \in [nodes : SUBSET Nodes, count : Nat, cpus : Nat, used : Nat] BY LeafFacts
<1>4. DOMAIN leaves' = DOMAIN leaves BY <1>1
<1>5. \A i \in Switches \ {b} : leaves'[i] = leaves[i]
  <2>1. \A i \in Switches : i \in DOMAIN leaves BY LeafFacts
  <2> QED BY <1>1, <2>1
<1>6. CASE Tree
  <2>1. leaves'[b] = [leaves[b] EXCEPT !.count = 0] BY <1>1, <1>2, <1>6
  <2>2. leaves'[b] = [nodes |-> leaves[b].nodes, count |-> 0, cpus |-> leaves[b].cpus, used |-> leaves[b].used]
    BY <1>3, <2>1
  <2> QED BY <1>4, <1>5, <1>6, <2>2
<1>7. CASE ~Tree
  <2>1. leaves'[b] = [leaves[b] EXCEPT !.nodes = @ \ S, !.count = @ - Cardinality(S),
                                       !.cpus = @ - CpusOf(S), !.used = @ + Cardinality(S)]
    BY <1>1, <1>2, <1>7
  <2>2. leaves'[b] = [nodes |-> leaves[b].nodes \ S, count |-> leaves[b].count - Cardinality(S),
                      cpus |-> leaves[b].cpus - CpusOf(S), used |-> leaves[b].used + Cardinality(S)]
    BY <1>3, <2>1
  <2> QED BY <1>4, <1>5, <1>7, <2>2 DEF S
<1> QED BY <1>6, <1>7

\* What is taken from a leaf is no longer on it, and nothing else changes.
LEMMA TakeLeaves ==
    ASSUME OnLeaves, pc \in {"required", "leaves"}, More, NEW b \in Switches, leaves[b].count > 0,
           Take(b), request' = request, pc' = pc
    PROVE  LeavesInv'
<1> DEFINE S == FromLeaf(b)
<1>0. /\ N \in Nat /\ request \in Requests /\ bitmap \in SUBSET Nodes
      /\ remNodes \in Int /\ remCpus \in Int /\ maxNodes \in Nat /\ maxNodes > 0
      /\ Cardinality(bitmap) \in Nat /\ CpusOf(bitmap) \in Nat
      /\ request.reqNodes \in Nat /\ request.maxNodes \in Nat /\ request.minCpus \in Nat
      /\ request.reqNodes <= request.maxNodes
      /\ remNodes = request.reqNodes - Cardinality(bitmap)
      /\ remCpus = request.minCpus - CpusOf(bitmap)
      /\ maxNodes = request.maxNodes + 1 - Cardinality(bitmap)
  BY LeafNumbers DEF More
<1>1. /\ S \in SUBSET (leaves[b].nodes \ bitmap) /\ S \in SUBSET Nodes
      /\ Cardinality(S) \in Nat /\ CpusOf(S) \in Nat /\ Cardinality(S) <= maxNodes
      /\ Tree => \/ S = leaves[b].nodes \ bitmap
                 \/ Cardinality(S) >= maxNodes
                 \/ Cardinality(S) >= remNodes /\ CpusOf(S) >= remCpus
      /\ S # {} => \E n \in S : /\ Cardinality(S) = Cardinality(S \ {n}) + 1
                                /\ Cardinality(S \ {n}) < remNodes \/ CpusOf(S \ {n}) < remCpus
  BY FromLeafFacts
<1>2. /\ bitmap' = bitmap \cup S /\ remNodes' = remNodes - Cardinality(S)
      /\ remCpus' = remCpus - CpusOf(S) /\ maxNodes' = maxNodes - Cardinality(S)
  BY DEF Take
<1>3. /\ DOMAIN leaves' = Switches
      /\ \A i \in Switches \ {b} : leaves'[i] = leaves[i]
      /\ Tree => /\ leaves'[b].nodes = leaves[b].nodes /\ leaves'[b].count = 0
                 /\ leaves'[b].cpus = leaves[b].cpus
      /\ ~Tree => /\ leaves'[b].nodes = leaves[b].nodes \ S
                  /\ leaves'[b].count = leaves[b].count - Cardinality(S)
                  /\ leaves'[b].cpus = leaves[b].cpus - CpusOf(S)
  BY TakenLeaf, LeafFacts
<1> HIDE DEF S
<1>4. More' => remNodes' > 0 \/ remCpus' > 0 BY DEF More, Wanting
<1>5. More' => maxNodes' > 0 BY DEF More
<1>6. ASSUME NEW i \in Switches, i # b
      PROVE  /\ leaves'[i].nodes \subseteq Under(i)
             /\ leaves'[i].cpus = CpusOf(leaves'[i].nodes)
             /\ leaves'[i].count > 0 => Below(i)
             /\ ~Tree /\ Below(i) => leaves'[i].count = Cardinality(leaves'[i].nodes)
             /\ Below(i) => Under(i) \subseteq bitmap' \cup (IF leaves'[i].count > 0 THEN leaves'[i].nodes ELSE {})
  <2>1. leaves'[i] = leaves[i] BY <1>3, <1>6
  <2>2. /\ leaves[i].nodes \subseteq Under(i)
        /\ leaves[i].cpus = CpusOf(leaves[i].nodes)
        /\ leaves[i].count > 0 => Below(i)
        /\ ~Tree /\ Below(i) => leaves[i].count = Cardinality(leaves[i].nodes)
        /\ Below(i) => Under(i) \subseteq bitmap \cup (IF leaves[i].count > 0 THEN leaves[i].nodes ELSE {})
    BY LeafFacts
  <2>3. bitmap \subseteq bitmap' BY <1>2
  <2> QED BY <2>1, <2>2, <2>3
<1>7. /\ leaves'[b].nodes \subseteq Under(b)
      /\ leaves'[b].cpus = CpusOf(leaves'[b].nodes)
      /\ leaves'[b].count > 0 => Below(b)
      /\ ~Tree /\ Below(b) => leaves'[b].count = Cardinality(leaves'[b].nodes)
      /\ More' => Under(b) \subseteq bitmap' \cup (IF leaves'[b].count > 0 THEN leaves'[b].nodes ELSE {})
  <2>1. /\ leaves[b].nodes \in SUBSET Nodes /\ leaves[b].nodes \subseteq Under(b)
        /\ leaves[b].cpus = CpusOf(leaves[b].nodes) /\ leaves[b].count \in Nat /\ leaves[b].cpus \in Nat
        /\ Below(b)
        /\ ~Tree => leaves[b].count = Cardinality(leaves[b].nodes)
        /\ Under(b) \subseteq bitmap \cup leaves[b].nodes
    BY LeafFacts
  <2>2. CASE Tree
    <3>1. ASSUME More' PROVE Under(b) \subseteq bitmap'
      <4>1. ~(Cardinality(S) >= maxNodes) BY <1>0, <1>1, <1>2, <1>5, <3>1
      <4>2. ~(Cardinality(S) >= remNodes /\ CpusOf(S) >= remCpus) BY <1>0, <1>1, <1>2, <1>4, <3>1
      <4>3. S = leaves[b].nodes \ bitmap BY <1>1, <2>2, <4>1, <4>2
      <4> QED BY <1>2, <2>1, <4>3
    <3>2. leaves'[b].nodes = leaves[b].nodes /\ leaves'[b].count = 0 /\ leaves'[b].cpus = leaves[b].cpus
      BY <1>3, <2>2
    <3>3. ~(leaves'[b].count > 0) BY <3>2
    <3> QED BY <2>1, <2>2, <3>1, <3>2, <3>3
  <2>3. CASE ~Tree
    <3>1. PICK rest : rest = leaves[b].nodes \ S OBVIOUS
    <3>2. rest \in SUBSET Nodes /\ rest \cap S = {} /\ rest \cup S = leaves[b].nodes BY <1>1, <2>1, <3>1
    <3>3. /\ Cardinality(leaves[b].nodes) = Cardinality(rest) + Cardinality(S)
          /\ CpusOf(leaves[b].nodes) = CpusOf(rest) + CpusOf(S)
      BY <1>0, <1>1, <3>2, NodesJoin
    <3>4. IsFiniteSet(rest) /\ Cardinality(rest) \in Nat /\ CpusOf(rest) \in Nat
      BY <1>0, <3>2, FiniteNodes, SomeCpus
    <3>5. leaves'[b].nodes = rest /\ leaves'[b].count = Cardinality(rest) /\ leaves'[b].cpus = CpusOf(rest)
      BY <1>1, <1>3, <2>1, <2>3, <3>1, <3>3, <3>4
    <3>6. Cardinality(rest) > 0 \/ rest = {} BY <3>4, FS_EmptySet
    <3>7. Under(b) \subseteq bitmap' \cup rest BY <1>2, <2>1, <3>2
    <3>8. Under(b) \subseteq bitmap' \cup (IF leaves'[b].count > 0 THEN leaves'[b].nodes ELSE {})
      <4>1. CASE rest = {} BY <3>7, <4>1
      <4>2. CASE Cardinality(rest) > 0
        <5>1. leaves'[b].count > 0 /\ leaves'[b].nodes = rest BY <3>5, <4>2
        <5> QED BY <3>7, <5>1
      <4> QED BY <3>6, <4>1, <4>2
    <3>9. rest \subseteq Under(b) /\ Below(b) BY <2>1, <3>2
    <3>10. /\ leaves'[b].nodes \subseteq Under(b) /\ leaves'[b].cpus = CpusOf(leaves'[b].nodes)
           /\ leaves'[b].count = Cardinality(leaves'[b].nodes)
      BY <3>5, <3>9
    <3> QED BY <3>8, <3>9, <3>10
  <2> QED BY <2>2, <2>3
<1>8. ASSUME maxNodes' = 0
      PROVE  \E B \in SUBSET bitmap' : Cardinality(B) = request.maxNodes /\ CpusOf(B) < request.minCpus
  <2>1. S # {}
    <3>1. Cardinality(S) # 0 BY <1>0, <1>1, <1>2, <1>8
    <3> QED BY <3>1, NoCpus
  <2>2. PICK n \in S : /\ Cardinality(S) = Cardinality(S \ {n}) + 1
                       /\ Cardinality(S \ {n}) < remNodes \/ CpusOf(S \ {n}) < remCpus
    BY <1>1, <2>1
  <2>3. PICK R : R = S \ {n} OBVIOUS
  <2>4. R \in SUBSET Nodes /\ R \cap bitmap = {} BY <1>1, <2>3
  <2>5. Cardinality(R) \in Nat /\ CpusOf(R) \in Nat BY <1>0, <2>4, FiniteNodes, SomeCpus
  <2>6. /\ Cardinality(bitmap \cup R) = Cardinality(bitmap) + Cardinality(R)
        /\ CpusOf(bitmap \cup R) = CpusOf(bitmap) + CpusOf(R)
    BY <1>0, <2>4, NodesJoin
  <2>7. Cardinality(R) = maxNodes - 1 BY <1>0, <1>1, <1>2, <1>8, <2>2, <2>3, <2>5
  <2>8. Cardinality(bitmap \cup R) = request.maxNodes BY <1>0, <2>6, <2>7
  <2>9. ~(Cardinality(R) < remNodes) BY <1>0, <2>7
  <2>10. CpusOf(bitmap \cup R) < request.minCpus BY <1>0, <2>2, <2>3, <2>5, <2>6, <2>9
  <2>11. bitmap \cup R \in SUBSET bitmap' BY <1>2, <2>3
  <2> QED BY <2>8, <2>10, <2>11
<1>9. /\ Switches' = Switches /\ Tree' = Tree
      /\ \A i : Under(i)' = Under(i) /\ Below(i)' = Below(i)
  BY SameSwitches
<1>10. \A T : CpusOf(T)' = CpusOf(T) BY DEF CpusOf
<1>11. ASSUME NEW i \in Switches
       PROVE  /\ leaves'[i].nodes \subseteq Under(i)
              /\ leaves'[i].cpus = CpusOf(leaves'[i].nodes)
              /\ leaves'[i].count > 0 => Below(i)
              /\ ~Tree /\ Below(i) => leaves'[i].count = Cardinality(leaves'[i].nodes)
              /\ Below(i) /\ More' =>
                    Under(i) \subseteq bitmap' \cup (IF leaves'[i].count > 0 THEN leaves'[i].nodes ELSE {})
  BY <1>6, <1>7
<1> QED BY <1>3, <1>8, <1>9, <1>10, <1>11 DEF LeavesInv

-----------------------------------------------------------------------------
(* The steps on switches *)

\* A leaf whose nodes are among those of the leaves that are counted.
LEMMA TakeFew ==
    ASSUME OnLeaves, pc \in {"required", "leaves"}, More, NEW b \in Switches, leaves[b].count > 0,
           Take(b), request.required = {},
           NEW L \in SUBSET {i \in Switches : Level(i) = 0}, IsFiniteSet(L), Cardinality(L) <= leafCount,
           bitmap \subseteq UNION {Under(i) : i \in L}
    PROVE  \E M \in SUBSET {i \in Switches : Level(i) = 0} :
              /\ IsFiniteSet(M) /\ Cardinality(M) <= leafCount + 1
              /\ bitmap' \subseteq UNION {Under(i) : i \in M}
<1>1. Level(b) = 0 /\ leaves[b].nodes \subseteq Under(b) BY LeafFacts DEF Below
<1>2. bitmap' \subseteq bitmap \cup Under(b)
  <2>1. FromLeaf(b) \in SUBSET (leaves[b].nodes \ bitmap) BY FromLeafFacts
  <2> QED BY <1>1, <2>1 DEF Take
<1>3. PICK M : M = L \cup {b} OBVIOUS
<1>4. IsFiniteSet(M) /\ Cardinality(M) <= Cardinality(L) + 1
  <2>1. Cardinality(L) \in Nat BY FS_CardinalityType
  <2>2. CASE b \in L
    <3>1. M = L BY <1>3, <2>2
    <3> QED BY <2>1, <3>1
  <2>3. CASE b \notin L
    <3>1. IsFiniteSet(M) /\ Cardinality(M) = Cardinality(L) + 1 BY <1>3, <2>3, FS_AddElement
    <3> QED BY <2>1, <3>1
  <2> QED BY <2>2, <2>3
<1>5. Cardinality(M) \in Nat /\ Cardinality(L) \in Nat /\ leafCount \in Nat
  BY <1>4, FS_CardinalityType DEF OnLeaves, TopoTypeOK
<1>6. Cardinality(M) <= leafCount + 1 BY <1>4, <1>5
<1>7. M \in SUBSET {i \in Switches : Level(i) = 0} BY <1>1, <1>3
<1>8. bitmap' \subseteq UNION {Under(i) : i \in M} BY <1>2, <1>3
<1> QED BY <1>4, <1>6, <1>7, <1>8

\* A round of the loop over leaves of required nodes.
LEMMA AddRequiredLeafStep ==
    ASSUME OnLeaves, AddRequiredLeaf PROVE TopoTypeOK' /\ LeafyInv'
<1>0. /\ pc = "required" /\ More /\ WithRequired # {} /\ Take(Min(WithRequired))
      /\ request' = request /\ pc' = pc /\ table' = table /\ left' = left /\ rc' = rc
      /\ leafCount' = leafCount /\ bestSwitch' = bestSwitch
  BY DEF AddRequiredLeaf
<1>1. PICK b : b = Min(WithRequired) OBVIOUS
<1>2. b \in Switches /\ leaves[b].used > 0 /\ leaves[b].count > 0
  <2>1. WithRequired \in SUBSET Nat BY SwitchFacts DEF WithRequired, OnLeaves
  <2>2. \E m \in WithRequired : \A k \in WithRequired : m <= k BY <1>0, <2>1, LeastOne
  <2>3. b \in WithRequired BY <1>1, <2>2 DEF Min
  <2> QED BY <2>3 DEF WithRequired
<1>3. /\ TypeOK' /\ BestInv'
      /\ \A i \in DOMAIN leaves' :
            leaves'[i] \in [nodes : SUBSET Nodes, count : Nat, cpus : Nat, used : Nat]
  BY <1>0, <1>1, <1>2, TakeCounts
<1>4. LeavesInv' BY <1>0, <1>1, <1>2, TakeLeaves
<1>5. TopoTypeOK' BY <1>0, <1>3 DEF OnLeaves, TopoTypeOK
<1>6. FewInv'
  <2>1. /\ Tree
        /\ Tree /\ request.required = {} => \A i \in Switches : leaves[i].used = 0
        /\ leafCount > 0 /\ SwitchLimit > 0 => bestSwitch = WithinLimit(leafCount)
    BY <1>0 DEF OnLeaves, LeafyInv, FewInv
  <2>2. request.required # {} BY <1>2, <2>1
  <2>3. Tree' = Tree /\ SwitchLimit' = SwitchLimit /\ \A c : WithinLimit(c)' = WithinLimit(c)
    BY <1>0, SameSwitches
  <2>4. WithinLimit(leafCount)' = WithinLimit(leafCount) BY <1>0, <2>3 DEF WithinLimit
  <2> QED BY <1>0, <2>1, <2>2, <2>3, <2>4 DEF FewInv
<1> QED BY <1>3, <1>4, <1>5, <1>6 DEF LeafyInv

\* The end of that loop.
LEMMA EndRequiredStep ==
    ASSUME OnLeaves, EndRequired PROVE TopoTypeOK' /\ LeafyInv'
<1>0. /\ pc = "required" /\ pc' = "leaves" /\ request' = request /\ bitmap' = bitmap
      /\ table' = table /\ left' = left /\ rc' = rc
      /\ remNodes' = remNodes /\ remCpus' = remCpus /\ maxNodes' = maxNodes
      /\ leaves' = leaves /\ leafCount' = leafCount /\ bestSwitch' = bestSwitch
  BY DEF EndRequired, leafVars
<1>1. /\ Switches' = Switches /\ Tree' = Tree /\ BestSwitch' = BestSwitch /\ SwitchLimit' = SwitchLimit
      /\ \A i : Level(i)' = Level(i) /\ Under(i)' = Under(i) /\ Holds(i)' = Holds(i) /\ Below(i)' = Below(i)
      /\ \A i, j : Lower(i, j)' = Lower(i, j)
      /\ \A c : WithinLimit(c)' = WithinLimit(c)
  BY <1>0, SameSwitches
<1>2. \A S : CpusOf(S)' = CpusOf(S) BY <1>0 DEF CpusOf
<1>3. CpusOf(bitmap)' = CpusOf(bitmap) /\ WithinLimit(leafCount)' = WithinLimit(leafCount)
  BY <1>0, <1>1 DEF CpusOf, WithinLimit
<1>4. More' = More BY <1>0 DEF More, Wanting
<1>5. TopoTypeOK' BY <1>0 DEF OnLeaves, TopoTypeOK, TypeOK
<1>6. BestInv' BY <1>0, <1>1, <1>3 DEF OnLeaves, LeafyInv, BestInv
<1>7. LeavesInv'
  <2>1. \A i : CpusOf(leaves[i].nodes)' = CpusOf(leaves[i].nodes) BY <1>0 DEF CpusOf
  <2> QED BY <1>0, <1>1, <1>2, <1>4, <2>1 DEF OnLeaves, LeafyInv, LeavesInv
<1>8. FewInv' BY <1>0, <1>1, <1>3 DEF OnLeaves, LeafyInv, FewInv
<1> QED BY <1>5, <1>6, <1>7, <1>8 DEF LeafyInv

\* A round of the loop over leaves, the best one first.
LEMMA AddLeafStep ==
    ASSUME OnLeaves, AddLeaf PROVE TopoTypeOK' /\ LeafyInv'
<1>0. /\ pc = "leaves" /\ More
      /\ request' = request /\ pc' = pc /\ table' = table /\ left' = left /\ rc' = rc
      /\ leafCount' = leafCount + 1
      /\ bestSwitch' = IF SwitchLimit > 0 THEN WithinLimit(leafCount') ELSE bestSwitch
  BY DEF AddLeaf
<1>1. PICK b \in Next5 : Take(b) BY DEF AddLeaf
<1>2. b \in Switches /\ leaves[b].count > 0 BY <1>1 DEF Next5
<1>3. /\ TypeOK' /\ BestInv'
      /\ \A i \in DOMAIN leaves' :
            leaves'[i] \in [nodes : SUBSET Nodes, count : Nat, cpus : Nat, used : Nat]
  BY <1>0, <1>1, <1>2, TakeCounts
<1>4. LeavesInv' BY <1>0, <1>1, <1>2, TakeLeaves
<1>5. leafCount' \in Nat /\ bestSwitch' \in BOOLEAN
  <2>1. leafCount \in Nat /\ bestSwitch \in BOOLEAN BY DEF OnLeaves, TopoTypeOK
  <2>2. leafCount' \in Nat BY <1>0, <2>1
  <2>3. request.waited \in BOOLEAN BY Call DEF OnLeaves
  <2>4. WithinLimit(leafCount') \in BOOLEAN BY <2>3 DEF WithinLimit
  <2> QED BY <1>0, <2>1, <2>2, <2>4
<1>6. TopoTypeOK' BY <1>3, <1>5 DEF TopoTypeOK
<1>7. FewInv'
  <2>1. /\ Switches' = Switches /\ Tree' = Tree /\ SwitchLimit' = SwitchLimit
        /\ \A i : Level(i)' = Level(i) /\ Under(i)' = Under(i)
    BY <1>0, SameSwitches
  <2>2. WithinLimit(leafCount)' = WithinLimit(leafCount') BY <1>0, <2>1 DEF WithinLimit
  <2>3. /\ Tree /\ request.required = {} => \A i \in Switches : leaves[i].used = 0
        /\ request.required = {} =>
              \E L \in SUBSET {i \in Switches : Level(i) = 0} :
                  /\ IsFiniteSet(L) /\ Cardinality(L) <= leafCount
                  /\ bitmap \subseteq UNION {Under(i) : i \in L}
    BY <1>0 DEF OnLeaves, LeafyInv, FewInv
  <2>4. request.required = {} =>
           \E M \in SUBSET {i \in Switches : Level(i) = 0} :
              /\ IsFiniteSet(M) /\ Cardinality(M) <= leafCount'
              /\ bitmap' \subseteq UNION {Under(i) : i \in M}
    BY <1>0, <1>1, <1>2, <2>3, TakeFew
  <2>5. Tree /\ request.required = {} => \A i \in Switches : leaves'[i].used = 0
    <3>1. /\ \A i \in Switches \ {b} : leaves'[i] = leaves[i]
          /\ Tree => leaves'[b].used = leaves[b].used
      BY <1>0, <1>1, <1>2, TakenLeaf
    <3> QED BY <1>2, <2>3, <3>1
  <2>6. pc' = "leaves" BY <1>0
  <2>7. SwitchLimit > 0 => bestSwitch' = WithinLimit(leafCount') BY <1>0
  <2> QED BY <1>0, <2>1, <2>2, <2>4, <2>5, <2>6, <2>7 DEF FewInv
<1> QED BY <1>3, <1>4, <1>6, <1>7 DEF LeafyInv

\* There is a next leaf as long as there are open ones.
LEMMA NextLeaf ==
    ASSUME OnLeaves, pc = "leaves", Next5 = {}, NEW b \in Switches
    PROVE  ~(leaves[b].count > 0)
<1> SUFFICES ASSUME leaves[b].count > 0 PROVE FALSE OBVIOUS
<1> DEFINE open == {i \in Switches : leaves[i].count > 0}
           first == [i \in open |-> IF Tree THEN 0 ELSE leaves[i].used]
           second == [i \in open |-> leaves[i].cpus]
<1>1. \A i \in Switches : leaves[i].cpus \in Nat /\ leaves[i].used \in Nat BY LeafFacts
<1>2. Switches \in SUBSET Nat BY SwitchFacts DEF OnLeaves
<1>3. open \in SUBSET Nat /\ open # {} /\ first \in [open -> Nat] /\ second \in [open -> Nat]
  BY <1>1, <1>2
<1>4. PICK i \in open : \A j \in open :
         \/ first[i] < first[j]
         \/ first[i] = first[j] /\ second[i] < second[j]
         \/ first[i] = first[j] /\ second[i] = second[j] /\ i <= j
  <2> HIDE DEF open, first, second
  <2> QED BY <1>3, FirstByKeys
<1> DEFINE better(m, k) ==
              \/ ~Tree /\ leaves[m].used < leaves[k].used
              \/ (Tree \/ leaves[m].used = leaves[k].used) /\ leaves[m].cpus < leaves[k].cpus
<1>5. ASSUME NEW j \in open PROVE ~better(j, i) /\ (i <= j \/ better(i, j))
  <2>1. \/ first[i] < first[j]
        \/ first[i] = first[j] /\ leaves[i].cpus < leaves[j].cpus
        \/ first[i] = first[j] /\ leaves[i].cpus = leaves[j].cpus /\ i <= j
    BY <1>4
  <2>2. /\ leaves[i].cpus \in Nat /\ leaves[j].cpus \in Nat
        /\ leaves[i].used \in Nat /\ leaves[j].used \in Nat
    BY <1>1, <1>4
  <2>3. CASE Tree
    <3>1. first[i] = 0 /\ first[j] = 0 BY <1>4, <2>3
    <3> QED BY <2>1, <2>2, <2>3, <3>1
  <2>4. CASE ~Tree
    <3>1. first[i] = leaves[i].used /\ first[j] = leaves[j].used BY <1>4, <2>4
    <3> QED BY <2>1, <2>2, <2>4, <3>1
  <2> QED BY <2>3, <2>4
<1>6. i \in Next5 BY <1>4, <1>5 DEF Next5
<1> QED BY <1>6

\* What the end of the loop over leaves says is so.
LEMMA TopoFinishPromises ==
    ASSUME OnLeaves, TopoFinish PROVE Promises'
<1>0. /\ pc = "leaves" /\ request' = request /\ bitmap' = bitmap
      /\ ~(More /\ Next5 # {}) /\ bestSwitch' = bestSwitch
      /\ rc' = IF maxNodes > 0 /\ remCpus <= 0 /\ Enough(0, remNodes) THEN "success" ELSE "EINVAL"
  BY DEF TopoFinish, leafVars
<1>1. /\ N \in Nat /\ request \in Requests /\ bitmap \in SUBSET Nodes
      /\ bitmap \in SUBSET request.avail /\ request.avail \in SUBSET Nodes
      /\ remNodes \in Int /\ remCpus \in Int /\ maxNodes \in Nat
      /\ Cardinality(bitmap) \in Nat /\ CpusOf(bitmap) \in Nat
      /\ request.minNodes \in Nat /\ request.reqNodes \in Nat /\ request.maxNodes \in Nat
      /\ request.minCpus \in Nat /\ request.minNodes <= request.reqNodes
      /\ request.reqNodes <= request.maxNodes
      /\ remNodes = request.reqNodes - Cardinality(bitmap)
      /\ remCpus = request.minCpus - CpusOf(bitmap)
      /\ maxNodes = request.maxNodes + 1 - Cardinality(bitmap)
      /\ request.required \subseteq bitmap
      /\ BestSwitch \in Switches /\ Holds(BestSwitch) /\ bitmap \subseteq Under(BestSwitch)
      /\ \A j \in Switches : Holds(j) => ~Lower(j, BestSwitch)
  BY <1>0, LeafNumbers
<1>2. Enough(0, remNodes) <=> request.minNodes <= Cardinality(bitmap) BY <1>1 DEF Enough
<1>3. /\ Unlike' = Unlike /\ \A S : WouldDo(S)' = WouldDo(S) BY <1>0, SameCall
<1>4. /\ Switches' = Switches /\ Tree' = Tree /\ SwitchLimit' = SwitchLimit
      /\ \A i : Level(i)' = Level(i) /\ Under(i)' = Under(i)
      /\ \A i, j : Lower(i, j)' = Lower(i, j)
      /\ \A c : WithinLimit(c)' = WithinLimit(c)
  BY <1>0, SameSwitches
<1>5. rc' = "success" => /\ WouldDo(bitmap) BY <1>0, <1>1, <1>2 DEF WouldDo
<1>6. WouldDo(bitmap)' = WouldDo(bitmap) BY <1>0 DEF WouldDo, CpusOf
<1>7. GetsWhatItAsked' BY <1>0, <1>5, <1>6 DEF GetsWhatItAsked, Success
<1>8. ASSUME rc' = "EINVAL", ~Unlike, NEW S \in SUBSET request.avail, WouldDo(S) PROVE FALSE
  <2>1. /\ S \in SUBSET Nodes /\ Cardinality(S) \in Nat /\ CpusOf(S) \in Nat
        /\ Cardinality(S) <= request.maxNodes /\ request.minCpus <= CpusOf(S)
    BY <1>1, <1>8, Sizes DEF WouldDo
  <2>2. CASE maxNodes = 0
    <3>1. PICK B \in SUBSET bitmap : Cardinality(B) = request.maxNodes /\ CpusOf(B) < request.minCpus
      BY <1>0, <2>2 DEF OnLeaves, LeafyInv, LeavesInv
    <3>2. B \in SUBSET request.avail /\ CpusOf(B) \in Nat BY <1>1, Sizes
    <3>3. CpusOf(S) <= CpusOf(B) BY <1>1, <1>8, <2>1, <3>1, <3>2, LikeNodes
    <3> QED BY <1>1, <2>1, <3>1, <3>2, <3>3
  <2>3. CASE maxNodes > 0
    <3>1. ~(remCpus <= 0 /\ request.minNodes <= Cardinality(bitmap)) BY <1>0, <1>2, <1>8, <2>3
    <3>2. More BY <1>1, <2>3, <3>1 DEF More, Wanting
    <3>3. Next5 = {} BY <1>0, <3>2
    <3>4. ASSUME NEW n \in Under(BestSwitch) PROVE n \in bitmap
      <4>1. PICK j \in Switches : Level(j) = 0 /\ n \in Under(j) /\ Under(j) \subseteq Under(BestSwitch)
        BY <1>1, SwitchFacts
      <4>2. ~(leaves[j].count > 0) BY <1>0, <3>3, NextLeaf
      <4>3. Under(j) \subseteq bitmap BY <1>0, <3>2, <4>1, <4>2, LeafFacts DEF Below
      <4> QED BY <4>1, <4>3
    <3>5. Under(BestSwitch) \in SUBSET bitmap BY <3>4
    <3>6. /\ Cardinality(Under(BestSwitch)) <= Cardinality(bitmap)
          /\ CpusOf(Under(BestSwitch)) <= CpusOf(bitmap)
      BY <1>1, <3>5, MoreNodes
    <3>7. Cardinality(Under(BestSwitch)) \in Nat /\ CpusOf(Under(BestSwitch)) \in Nat
      BY <1>1, SwitchFacts
    <3>8. CpusOf(Under(BestSwitch)) >= request.minCpus /\ Cardinality(Under(BestSwitch)) >= request.minNodes
      BY <1>1 DEF Holds
    <3> QED BY <1>1, <3>1, <3>6, <3>7, <3>8
  <2> QED BY <1>1, <2>2, <2>3
<1>9. NeverTurnedAway'
  <2>1. request.network # "row" BY DEF OnLeaves, Leafy
  <2> QED BY <1>0, <1>3, <1>8, <2>1 DEF NeverTurnedAway
<1>10. SmallestSet' /\ InARow' BY <1>0 DEF SmallestSet, InARow, OnLeaves, Leafy
<1>11. LowestSwitch'
  <2>1. ASSUME NEW j \in Switches, NEW S \in SUBSET Under(j), WouldDo(S) PROVE Holds(j)
    <3>1. Under(j) \in SUBSET request.avail /\ Under(j) \in SUBSET Nodes
          /\ Cardinality(Under(j)) \in Nat /\ CpusOf(Under(j)) \in Nat
      BY <1>1, SwitchFacts
    <3>2. /\ Cardinality(S) <= Cardinality(Under(j)) /\ CpusOf(S) <= CpusOf(Under(j))
      BY <1>1, <3>1, MoreNodes
    <3>3. S \in SUBSET request.avail BY <3>1
    <3>4. Cardinality(S) \in Nat /\ CpusOf(S) \in Nat BY <1>1, <3>3, Sizes
    <3> QED BY <1>1, <2>1, <3>1, <3>2, <3>4 DEF Holds, WouldDo
  <2>2. /\ bitmap \subseteq Under(BestSwitch)
        /\ \A j \in Switches : (\E S \in SUBSET Under(j) : WouldDo(S)) => ~Lower(j, BestSwitch)
    BY <1>1, <2>1
  <2> QED BY <1>0, <1>1, <1>3, <1>4, <2>2 DEF LowestSwitch
<1>12. FewSwitches'
  <2> SUFFICES ASSUME bestSwitch, SwitchLimit > 0, ~request.waited, request.required = {}
               PROVE  \E L \in SUBSET {i \in Switches : Level(i) = 0} :
                         /\ Cardinality(L) <= SwitchLimit
                         /\ bitmap \subseteq UNION {Under(i) : i \in L}
    BY <1>0, <1>4 DEF FewSwitches
  <2>1. /\ leafCount > 0 /\ SwitchLimit > 0 => bestSwitch = WithinLimit(leafCount)
        /\ \E L \in SUBSET {i \in Switches : Level(i) = 0} :
                    /\ IsFiniteSet(L) /\ Cardinality(L) <= leafCount
                    /\ bitmap \subseteq UNION {Under(i) : i \in L}
    BY <1>0 DEF OnLeaves, LeafyInv, FewInv
  <2>2. PICK L \in SUBSET {i \in Switches : Level(i) = 0} :
                    /\ IsFiniteSet(L) /\ Cardinality(L) <= leafCount
                    /\ bitmap \subseteq UNION {Under(i) : i \in L}
    BY <2>1
  <2>3. leafCount \in Nat /\ Cardinality(L) \in Nat BY <2>2, FS_CardinalityType DEF OnLeaves, TopoTypeOK
  <2>4. SwitchLimit \in Nat BY <1>1, Call DEF SwitchLimit
  <2>5. leafCount <= SwitchLimit
    <3>1. CASE leafCount > 0
      <4>1. WithinLimit(leafCount) BY <2>1, <3>1
      <4> QED BY <4>1 DEF WithinLimit
    <3>2. CASE ~(leafCount > 0) BY <2>3, <2>4, <3>2
    <3> QED BY <3>1, <3>2
  <2>6. Cardinality(L) <= SwitchLimit BY <2>2, <2>3, <2>4, <2>5
  <2> QED BY <2>2, <2>6
<1> QED BY <1>7, <1>9, <1>10, <1>11, <1>12 DEF Promises

\* A job for which no switch is found has none that would do.
LEMMA TopoRefusePromises ==
    ASSUME request \in Requests, TopoRefuse PROVE Promises'
<1>0. request' = request /\ rc' = "EINVAL" /\ Leafy /\ \A i \in Switches : ~Holds(i)
  BY DEF TopoRefuse
<1>1. \A S : WouldDo(S)' = WouldDo(S) BY <1>0, SameCall
<1>2. ASSUME NEW S \in SUBSET request.avail, WouldDo(S), NEW i \in Switches,
             S \subseteq request.switches[i].nodes
      PROVE  FALSE
  <2>1. S \subseteq Under(i) BY <1>2 DEF Under
  <2>2. Under(i) \in SUBSET request.avail /\ Under(i) \in SUBSET Nodes
        /\ Cardinality(Under(i)) \in Nat /\ CpusOf(Under(i)) \in Nat
    BY SwitchFacts
  <2>3. Cardinality(S) <= Cardinality(Under(i)) /\ CpusOf(S) <= CpusOf(Under(i))
    BY <2>1, <2>2, MoreNodes
  <2>4. Cardinality(S) \in Nat /\ CpusOf(S) \in Nat BY Sizes
  <2>5. Holds(i) BY <1>2, <2>1, <2>2, <2>3, <2>4, Call DEF Holds, WouldDo
  <2> QED BY <1>0, <2>5
<1>3. NeverTurnedAway'
  <2>2. \A S \in SUBSET request.avail : WouldDo(S) =>
           ~\E i \in DOMAIN request.switches : S \subseteq request.switches[i].nodes
    BY <1>2 DEF Switches
  <2>3. request.network \in {"tree", "dragonfly"} BY <1>0 DEF Leafy
  <2> QED BY <1>0, <1>1, <2>2, <2>3 DEF NeverTurnedAway, Joined
<1> QED BY <1>0, <1>3
        DEF Promises, GetsWhatItAsked, SmallestSet, InARow, LowestSwitch, FewSwitches, Success

-----------------------------------------------------------------------------
(* The first nodes of a set *)

\* One node is before another: so are all before it.
LEMMA Ranks ==
    ASSUME request \in Requests, NEW S \in SUBSET Nodes, NEW n \in S
    PROVE  /\ Cardinality({k \in S : k < n}) \in Nat
           /\ Cardinality({k \in S : k < n}) < Cardinality(S) /\ Cardinality(S) \in Nat
           /\ \A m \in S : m < n => Cardinality({k \in S : k < m}) < Cardinality({k \in S : k < n})
<1>0. N \in Nat BY Call
<1>1. S \in SUBSET Int BY DEF Nodes
<1>2. PICK P : P = {k \in S : k < n} OBVIOUS
<1>3. P \in SUBSET Nodes /\ P \in SUBSET (S \ {n})
  <2>1. ASSUME NEW k \in P PROVE k \in S /\ k # n
    <3>1. k \in S /\ k < n /\ k \in Int /\ n \in Int BY <1>1, <1>2
    <3> QED BY <3>1
  <2> QED BY <2>1
<1>4. Cardinality(P) \in Nat /\ Cardinality(S) \in Nat /\ Cardinality(S \ {n}) \in Nat
  <2>1. S \ {n} \in SUBSET Nodes OBVIOUS
  <2> QED BY <1>0, <1>3, <2>1, FiniteNodes
<1>5. Cardinality(S) = Cardinality(S \ {n}) + 1
  <2>1. S = (S \ {n}) \cup {n} /\ S \ {n} \in SUBSET Nodes /\ n \in Nodes \ (S \ {n}) OBVIOUS
  <2>2. Cardinality((S \ {n}) \cup {n}) = Cardinality(S \ {n}) + 1 BY <2>1, NodeJoins
  <2> QED BY <2>1, <2>2
<1>6. Cardinality(P) <= Cardinality(S \ {n})
  <2>1. S \ {n} \in SUBSET Nodes OBVIOUS
  <2> QED BY <1>3, <2>1, MoreNodes
<1>7. ASSUME NEW m \in S, m < n PROVE Cardinality({k \in S : k < m}) < Cardinality(P)
  <2>1. PICK Q : Q = {k \in S : k < m} OBVIOUS
  <2>2. Q \cup {m} \in SUBSET P
    <3>1. m \in Int /\ n \in Int BY <1>1
    <3>2. ASSUME NEW k \in Q PROVE k \in P
      <4>1. k \in S /\ k \in Int /\ k < m BY <1>1, <2>1
      <4> QED BY <1>2, <1>7, <3>1, <4>1
    <3> QED BY <1>2, <1>7, <3>2
  <2>3. Q \in SUBSET Nodes /\ m \in Nodes \ Q
    <3>1. ASSUME m \in Q PROVE FALSE
      <4>1. m < m /\ m \in Int BY <1>1, <2>1, <3>1
      <4> QED BY <4>1
    <3> QED BY <2>1, <3>1
  <2>4. Cardinality(Q \cup {m}) = Cardinality(Q) + 1 BY <2>3, NodeJoins
  <2>5. Cardinality(Q \cup {m}) <= Cardinality(P) BY <1>3, <2>2, MoreNodes
  <2>6. Cardinality(Q) \in Nat BY <1>0, <2>3, FiniteNodes
  <2> QED BY <1>4, <2>1, <2>4, <2>5, <2>6
<1> QED BY <1>2, <1>4, <1>5, <1>6, <1>7

\* The next one joins them.
LEMMA FirstOfNext ==
    ASSUME request \in Requests, NEW S \in SUBSET Nodes, NEW t \in Nat,
           NEW n \in S, Cardinality({k \in S : k < n}) = t
    PROVE  n \notin FirstOf(S, t) /\ FirstOf(S, t + 1) = FirstOf(S, t) \cup {n}
<1>1. n \notin FirstOf(S, t) BY DEF FirstOf
<1>2. n \in FirstOf(S, t + 1) BY DEF FirstOf
<1>3. FirstOf(S, t) \subseteq FirstOf(S, t + 1)
  <2> SUFFICES ASSUME NEW m \in FirstOf(S, t) PROVE m \in FirstOf(S, t + 1) OBVIOUS
  <2>1. m \in S /\ Cardinality({k \in S : k < m}) < t BY DEF FirstOf
  <2>2. Cardinality({k \in S : k < m}) \in Nat BY <2>1, Ranks
  <2>3. Cardinality({k \in S : k < m}) < t + 1 BY <2>1, <2>2
  <2> QED BY <2>1, <2>3 DEF FirstOf
<1>4. ASSUME NEW m \in FirstOf(S, t + 1), m # n PROVE m \in FirstOf(S, t)
  <2>1. m \in S /\ Cardinality({k \in S : k < m}) < t + 1 BY DEF FirstOf
  <2>2. Cardinality({k \in S : k < m}) \in Nat BY <2>1, Ranks
  <2>3. m \in Int /\ n \in Int BY <2>1 DEF Nodes
  <2>4. ~(n < m)
    <3> SUFFICES ASSUME n < m PROVE FALSE OBVIOUS
    <3>1. Cardinality({k \in S : k < n}) < Cardinality({k \in S : k < m}) BY <2>1, Ranks
    <3> QED BY <2>1, <2>2, <3>1
  <2>5. m < n BY <1>4, <2>3, <2>4
  <2>6. Cardinality({k \in S : k < m}) < t BY <2>1, <2>5, Ranks
  <2> QED BY <2>1, <2>6 DEF FirstOf
<1> QED BY <1>1, <1>2, <1>3, <1>4

\* As many as are asked for, if there are; and these are all when there are no more.
LEMMA FirstOfSize ==
    ASSUME request \in Requests, NEW S \in SUBSET Nodes
    PROVE  /\ Cardinality(S) \in Nat
           /\ \A t \in 0 .. Cardinality(S) : Cardinality(FirstOf(S, t)) = t
           /\ FirstOf(S, Cardinality(S)) = S
           /\ FirstOf(S, 0) = {}
           /\ \A t : FirstOf(S, t) \subseteq S
           /\ \A t, u \in Nat : t <= u => FirstOf(S, t) \subseteq FirstOf(S, u)
<1>0. N \in Nat BY Call
<1>1. PICK size : size = Cardinality(S) OBVIOUS
<1>2. size \in Nat BY <1>0, <1>1, FiniteNodes
<1>3. \A t : FirstOf(S, t) \subseteq S BY DEF FirstOf
<1>4. FirstOf(S, 0) = {}
  <2> SUFFICES ASSUME NEW m \in FirstOf(S, 0) PROVE FALSE OBVIOUS
  <2>1. m \in S /\ Cardinality({k \in S : k < m}) < 0 BY DEF FirstOf
  <2>2. Cardinality({k \in S : k < m}) \in Nat BY <2>1, Ranks
  <2> QED BY <2>1, <2>2
<1>5. FirstOf(S, size) = S
  <2> SUFFICES ASSUME NEW m \in S PROVE m \in FirstOf(S, size) BY <1>3
  <2>1. Cardinality({k \in S : k < m}) < size BY <1>1, Ranks
  <2> QED BY <2>1 DEF FirstOf
<1>6. ASSUME NEW t \in Nat, NEW u \in Nat, t <= u PROVE FirstOf(S, t) \subseteq FirstOf(S, u)
  <2> SUFFICES ASSUME NEW m \in FirstOf(S, t) PROVE m \in FirstOf(S, u) OBVIOUS
  <2>1. m \in S /\ Cardinality({k \in S : k < m}) < t BY DEF FirstOf
  <2>2. Cardinality({k \in S : k < m}) \in Nat BY <2>1, Ranks
  <2>3. Cardinality({k \in S : k < m}) < u BY <1>6, <2>1, <2>2
  <2> QED BY <2>1, <2>3 DEF FirstOf
<1> DEFINE right == {t \in 0 .. size : Cardinality(FirstOf(S, t)) = t}
<1>7. 0 \in right BY <1>2, <1>4, NoCpus
<1>8. ASSUME NEW i \in 1 .. size, i - 1 \in right PROVE i \in right
  <2>1. PICK t : t = i - 1 OBVIOUS
  <2>2. PICK F : F = FirstOf(S, t) OBVIOUS
  <2>3. t \in Nat /\ t < size /\ i = t + 1 /\ Cardinality(F) = t BY <1>2, <1>8, <2>1, <2>2
  <2>4. F \in SUBSET S BY <1>3, <2>2
  <2>5. S \ F # {}
    <3> SUFFICES ASSUME S \ F = {} PROVE FALSE OBVIOUS
    <3>1. F = S BY <2>4
    <3> QED BY <1>1, <1>2, <2>3, <3>1
  <2>6. S \ F \in SUBSET Nat
    <3> SUFFICES ASSUME NEW x \in S PROVE x \in Nat OBVIOUS
    <3> QED BY DEF Nodes
  <2>7. PICK n \in S \ F : \A k \in S \ F : n <= k BY <2>5, <2>6, LeastOne
  <2>8. {k \in S : k < n} \in SUBSET F
    <3> SUFFICES ASSUME NEW k \in S, k < n, k \notin F PROVE FALSE OBVIOUS
    <3>1. n <= k /\ k \in Nat /\ n \in Nat BY <2>6, <2>7
    <3> QED BY <3>1
  <2>9. PICK r : r = Cardinality({k \in S : k < n}) OBVIOUS
  <2>10. r \in Nat BY <2>7, <2>9, Ranks
  <2>11. r <= t
    <3>1. F \in SUBSET Nodes BY <2>4
    <3> QED BY <2>3, <2>8, <2>9, <3>1, MoreNodes
  <2>12. ~(r < t) BY <2>2, <2>7, <2>9 DEF FirstOf
  <2>13. r = t BY <2>3, <2>10, <2>11, <2>12
  <2>14. n \notin F /\ FirstOf(S, t + 1) = F \cup {n} BY <2>2, <2>3, <2>7, <2>9, <2>13, FirstOfNext
  <2>15. Cardinality(F \cup {n}) = Cardinality(F) + 1
    <3>1. F \in SUBSET Nodes /\ n \in Nodes \ F BY <2>4, <2>7
    <3> QED BY <3>1, NodeJoins
  <2> QED BY <1>8, <2>3, <2>14, <2>15
<1> HIDE DEF right
<1>9. 0 .. size \subseteq right BY <1>2, <1>7, <1>8, OneByOne
<1>10. \A t \in 0 .. size : Cardinality(FirstOf(S, t)) = t BY <1>9 DEF right
<1> QED BY <1>1, <1>2, <1>3, <1>4, <1>5, <1>6, <1>10

-----------------------------------------------------------------------------
(* Sets of nodes in a row *)

\* n sets that have no node in common.
Separate(A, n) ==
    /\ n \in Nat /\ A \in [0 .. n - 1 -> SUBSET Nodes]
    /\ \A i, j \in 0 .. n - 1 : i # j => A[i] \cap A[j] = {}

\* k of them, and the first t nodes of the next one.
Gathered(A, k) == UNION {A[j] : j \in 0 .. k - 1}

Part(A, k, t) == Gathered(A, k) \cup FirstOf(A[k], t)

\* The next set has other nodes.
LEMMA GatheredNext ==
    ASSUME NEW n, NEW A, Separate(A, n), NEW k \in 0 .. n - 1
    PROVE  /\ Gathered(A, k + 1) = Gathered(A, k) \cup A[k]
           /\ Gathered(A, k) \cap A[k] = {}
           /\ A[k] \in SUBSET Nodes
           /\ Gathered(A, k) \in SUBSET Nodes /\ Gathered(A, k + 1) \in SUBSET Nodes
<1>0. n \in Nat /\ k \in Nat /\ 0 .. k \subseteq 0 .. n - 1 BY DEF Separate
<1>1. 0 .. (k + 1) - 1 = 0 .. k - 1 \cup {k} BY <1>0
<1>2. \A j \in 0 .. k - 1 : j \in 0 .. n - 1 /\ j # k BY <1>0
<1>3. A \in [0 .. n - 1 -> SUBSET Nodes] /\ \A i, j \in 0 .. n - 1 : i # j => A[i] \cap A[j] = {}
  BY DEF Separate
<1>4. Gathered(A, k + 1) = Gathered(A, k) \cup A[k]
  <2>1. ASSUME NEW x \in Gathered(A, k + 1) PROVE x \in Gathered(A, k) \cup A[k]
    <3>1. PICK j \in 0 .. (k + 1) - 1 : x \in A[j] BY DEF Gathered
    <3> QED BY <1>1, <3>1 DEF Gathered
  <2>2. ASSUME NEW x \in Gathered(A, k) PROVE x \in Gathered(A, k + 1)
    <3>1. PICK j \in 0 .. k - 1 : x \in A[j] BY DEF Gathered
    <3> QED BY <1>1, <3>1 DEF Gathered
  <2>3. A[k] \subseteq Gathered(A, k + 1) BY <1>1 DEF Gathered
  <2> QED BY <2>1, <2>2, <2>3
<1>5. ASSUME NEW x \in Gathered(A, k) PROVE x \notin A[k] /\ x \in Nodes
  <2>1. PICK j \in 0 .. k - 1 : x \in A[j] BY DEF Gathered
  <2> QED BY <1>2, <1>3, <2>1
<1>6. A[k] \in SUBSET Nodes BY <1>3
<1> QED BY <1>4, <1>5, <1>6

\* Nothing is gathered before the first switch.
LEMMA GatheredNone == ASSUME NEW A PROVE Gathered(A, 0) = {}
BY DEF Gathered

\* More of the same row.
LEMMA PartGrows ==
    ASSUME request \in Requests, NEW n, NEW A, Separate(A, n),
           NEW k \in 0 .. n - 1, NEW K \in k .. n - 1, NEW t \in Nat, NEW T \in Nat,
           k = K => t <= T
    PROVE  Part(A, k, t) \subseteq Part(A, K, T)
<1>0. n \in Nat /\ k \in Nat /\ K \in Nat /\ K \in 0 .. n - 1 BY DEF Separate
<1>1. A[k] \in SUBSET Nodes BY GatheredNext
<1>2. CASE k = K BY <1>1, <1>2, FirstOfSize DEF Part
<1>3. CASE k # K
  <2>1. \A j \in 0 .. k - 1 : j \in 0 .. K - 1 BY <1>0
  <2>2. k \in 0 .. K - 1 BY <1>0, <1>3
  <2>3. Gathered(A, k) \subseteq Gathered(A, K)
    <3> SUFFICES ASSUME NEW x \in Gathered(A, k) PROVE x \in Gathered(A, K) OBVIOUS
    <3>1. PICK j \in 0 .. k - 1 : x \in A[j] BY DEF Gathered
    <3> QED BY <2>1, <3>1 DEF Gathered
  <2>4. A[k] \subseteq Gathered(A, K) BY <2>2 DEF Gathered
  <2>5. FirstOf(A[k], t) \subseteq A[k] BY DEF FirstOf
  <2> QED BY <2>3, <2>4, <2>5 DEF Part
<1> QED BY <1>2, <1>3

\* A set that is used up, and the size of what is gathered.
LEMMA PartSize ==
    ASSUME request \in Requests, NEW n, NEW A, Separate(A, n), NEW k \in 0 .. n - 1
    PROVE  /\ Part(A, k, 0) = Gathered(A, k)
           /\ Part(A, k, Cardinality(A[k])) = Gathered(A, k + 1)
           /\ Cardinality(A[k]) \in Nat /\ Cardinality(Gathered(A, k)) \in Nat
           /\ Cardinality(Gathered(A, k + 1)) = Cardinality(Gathered(A, k)) + Cardinality(A[k])
           /\ \A t \in 0 .. Cardinality(A[k]) :
                 Cardinality(Part(A, k, t)) = Cardinality(Gathered(A, k)) + t
           /\ \A t : Part(A, k, t) \in SUBSET Gathered(A, k + 1)
<1>0. N \in Nat BY Call
<1>1. /\ Gathered(A, k + 1) = Gathered(A, k) \cup A[k] /\ Gathered(A, k) \cap A[k] = {}
      /\ A[k] \in SUBSET Nodes /\ Gathered(A, k) \in SUBSET Nodes
  BY GatheredNext
<1>2. PICK S : S = A[k] OBVIOUS
<1>3. /\ Cardinality(S) \in Nat
      /\ \A t \in 0 .. Cardinality(S) : Cardinality(FirstOf(S, t)) = t
      /\ FirstOf(S, Cardinality(S)) = S /\ FirstOf(S, 0) = {}
      /\ \A t : FirstOf(S, t) \subseteq S
  BY <1>1, <1>2, FirstOfSize
<1>4. Cardinality(Gathered(A, k)) \in Nat BY <1>0, <1>1, FiniteNodes
<1>5. Cardinality(Gathered(A, k + 1)) = Cardinality(Gathered(A, k)) + Cardinality(S)
  BY <1>1, <1>2, NodesJoin
<1>6. ASSUME NEW t \in 0 .. Cardinality(S)
      PROVE  Cardinality(Part(A, k, t)) = Cardinality(Gathered(A, k)) + t
  <2>1. FirstOf(S, t) \in SUBSET Nodes /\ Gathered(A, k) \cap FirstOf(S, t) = {} BY <1>1, <1>2, <1>3
  <2>2. Cardinality(Gathered(A, k) \cup FirstOf(S, t)) = Cardinality(Gathered(A, k)) + Cardinality(FirstOf(S, t))
    BY <1>1, <2>1, NodesJoin
  <2> QED BY <1>2, <1>3, <2>2 DEF Part
<1>7. /\ Part(A, k, 0) = Gathered(A, k)
      /\ Part(A, k, Cardinality(A[k])) = Gathered(A, k + 1)
      /\ \A t : Part(A, k, t) \in SUBSET Gathered(A, k + 1)
  BY <1>1, <1>2, <1>3 DEF Part
<1> QED BY <1>2, <1>3, <1>4, <1>5, <1>6, <1>7

\* Any number of nodes can be gathered that there is.
LEMMA EverySize ==
    ASSUME request \in Requests, NEW n, NEW A, Separate(A, n),
           NEW m \in Nat \ {0}, m <= Cardinality(Gathered(A, n))
    PROVE  \E k \in 0 .. n - 1 : \E t \in 0 .. Cardinality(A[k]) : Cardinality(Part(A, k, t)) = m
<1>0. n \in Nat BY DEF Separate
<1> DEFINE long == {k \in 0 .. n : m <= Cardinality(Gathered(A, k))}
<1>1. long \in SUBSET Nat /\ long # {} BY <1>0
<1>2. PICK j \in long : \A k \in long : j <= k BY <1>1, LeastOne
<1>3. j # 0
  <2> SUFFICES ASSUME j = 0 PROVE FALSE OBVIOUS
  <2>1. m <= 0 BY <1>2, GatheredNone, NoCpus
  <2> QED BY <2>1
<1>4. PICK k : k = j - 1 OBVIOUS
<1>5. k \in 0 .. n - 1 /\ j = k + 1 /\ k \in 0 .. n /\ ~(j <= k) BY <1>0, <1>2, <1>3, <1>4
<1>6. k \notin long BY <1>2, <1>5
<1>7. ~(m <= Cardinality(Gathered(A, k))) BY <1>5, <1>6
<1>8. /\ Cardinality(A[k]) \in Nat /\ Cardinality(Gathered(A, k)) \in Nat
      /\ Cardinality(Gathered(A, k + 1)) = Cardinality(Gathered(A, k)) + Cardinality(A[k])
      /\ \A t \in 0 .. Cardinality(A[k]) :
            Cardinality(Part(A, k, t)) = Cardinality(Gathered(A, k)) + t
  BY <1>5, PartSize
<1>9. m <= Cardinality(Gathered(A, k + 1)) BY <1>2, <1>5
<1>10. PICK t : t = m - Cardinality(Gathered(A, k)) OBVIOUS
<1>11. t \in 0 .. Cardinality(A[k]) /\ Cardinality(Gathered(A, k)) + t = m
  BY <1>7, <1>8, <1>9, <1>10
<1> QED BY <1>5, <1>8, <1>11

-----------------------------------------------------------------------------
(* The curves of a hypercube *)

\* The places of a curve of n switches, k steps from the s-th in direction d.
Place3(n, s, d, k) ==
    LET i == IF d = 1 THEN s + k ELSE s - k
    IN  IF i > n THEN i - n ELSE IF i < 1 THEN i + n ELSE i

\* Either way it is around one end only.
LEMMA Ahead ==
    ASSUME NEW n \in Nat, NEW s \in 1 .. n, NEW k \in 0 .. n
    PROVE  Place3(n, s, 1, k) = IF s + k > n THEN s + k - n ELSE s + k
<1>1. ~(s + k < 1) OBVIOUS
<1> QED BY <1>1 DEF Place3

\* Where a walk backwards stands after k switches.
LEMMA Back ==
    ASSUME NEW n \in Nat, NEW s \in 1 .. n, NEW k \in 0 .. n
    PROVE  Place3(n, s, -1, k) = IF s - k < 1 THEN s - k + n ELSE s - k
<1>1. -1 # 1 /\ ~(s - k > n) OBVIOUS
<1> QED BY <1>1 DEF Place3

\* A round of n steps comes by every place once.
ComesByAll(n, s, d) ==
    /\ \A k \in 0 .. n - 1 : Place3(n, s, d, k) \in 1 .. n
    /\ Place3(n, s, d, 0) = s
    /\ \A j, k \in 0 .. n - 1 : Place3(n, s, d, j) = Place3(n, s, d, k) => j = k
    /\ \A i \in 1 .. n : \E k \in 0 .. n - 1 : Place3(n, s, d, k) = i

\* A walk round a curve, either way, comes by all of it.
LEMMA Round ==
    ASSUME NEW n \in Nat, NEW s \in 1 .. n, NEW d \in {1, -1}
    PROVE  ComesByAll(n, s, d)
<1>1. ASSUME d = 1, NEW k \in 0 .. n
      PROVE  Place3(n, s, d, k) = IF s + k > n THEN s + k - n ELSE s + k
  BY <1>1, Ahead
<1>2. ASSUME d = -1, NEW k \in 0 .. n
      PROVE  Place3(n, s, d, k) = IF s - k < 1 THEN s - k + n ELSE s - k
  BY <1>2, Back
<1>3. d = 1 \/ d = -1 OBVIOUS
<1>4. ASSUME NEW k \in 0 .. n - 1 PROVE Place3(n, s, d, k) \in 1 .. n
  <2>1. k \in 0 .. n OBVIOUS
  <2>2. CASE d = 1
    <3>1. Place3(n, s, d, k) = IF s + k > n THEN s + k - n ELSE s + k BY <1>1, <2>1, <2>2
    <3> QED BY <3>1
  <2>3. CASE d = -1
    <3>1. Place3(n, s, d, k) = IF s - k < 1 THEN s - k + n ELSE s - k BY <1>2, <2>1, <2>3
    <3> QED BY <3>1
  <2> QED BY <1>3, <2>2, <2>3
<1>5. Place3(n, s, d, 0) = s
  <2>1. 0 \in 0 .. n OBVIOUS
  <2>2. CASE d = 1
    <3>1. Place3(n, s, d, 0) = IF s + 0 > n THEN s + 0 - n ELSE s + 0 BY <1>1, <2>1, <2>2
    <3> QED BY <3>1
  <2>3. CASE d = -1
    <3>1. Place3(n, s, d, 0) = IF s - 0 < 1 THEN s - 0 + n ELSE s - 0 BY <1>2, <2>1, <2>3
    <3> QED BY <3>1
  <2> QED BY <1>3, <2>2, <2>3
<1>6. ASSUME NEW j \in 0 .. n - 1, NEW k \in 0 .. n - 1, Place3(n, s, d, j) = Place3(n, s, d, k)
      PROVE  j = k
  <2>1. j \in 0 .. n /\ k \in 0 .. n /\ j - k < n /\ k - j < n OBVIOUS
  <2>2. PICK x \in 1 .. n : x = Place3(n, s, d, j) /\ x = Place3(n, s, d, k) BY <1>4, <1>6
  <2>3. CASE d = 1
    <3>1. x = IF s + j > n THEN s + j - n ELSE s + j BY <1>1, <2>1, <2>2, <2>3
    <3>2. x = IF s + k > n THEN s + k - n ELSE s + k BY <1>1, <2>1, <2>2, <2>3
    <3> QED BY <2>1, <3>1, <3>2
  <2>4. CASE d = -1
    <3>1. x = IF s - j < 1 THEN s - j + n ELSE s - j BY <1>2, <2>1, <2>2, <2>4
    <3>2. x = IF s - k < 1 THEN s - k + n ELSE s - k BY <1>2, <2>1, <2>2, <2>4
    <3> QED BY <2>1, <3>1, <3>2
  <2> QED BY <1>3, <2>3, <2>4
<1>7. ASSUME NEW i \in 1 .. n PROVE \E k \in 0 .. n - 1 : Place3(n, s, d, k) = i
  <2>1. CASE d = 1
    <3>1. PICK k \in 0 .. n - 1 : k = i - s \/ k = i - s + n
      <4>1. i - s \in 0 .. n - 1 \/ i - s + n \in 0 .. n - 1 OBVIOUS
      <4> QED BY <4>1
    <3>2. k \in 0 .. n OBVIOUS
    <3>3. Place3(n, s, d, k) = IF s + k > n THEN s + k - n ELSE s + k BY <1>1, <2>1, <3>2
    <3>4. Place3(n, s, d, k) = i BY <3>1, <3>3
    <3> QED BY <3>4
  <2>2. CASE d = -1
    <3>1. PICK k \in 0 .. n - 1 : k = s - i \/ k = s - i + n
      <4>1. s - i \in 0 .. n - 1 \/ s - i + n \in 0 .. n - 1 OBVIOUS
      <4> QED BY <4>1
    <3>2. k \in 0 .. n OBVIOUS
    <3>3. Place3(n, s, d, k) = IF s - k < 1 THEN s - k + n ELSE s - k BY <1>2, <2>2, <3>2
    <3>4. Place3(n, s, d, k) = i BY <3>1, <3>3
    <3> QED BY <3>4
  <2> QED BY <1>3, <2>1, <2>2
<1> QED BY <1>4, <1>5, <1>6, <1>7 DEF ComesByAll

\* And goes on from each of them to the next, around either end.
LEMMA RoundStep ==
    ASSUME NEW n \in Nat, NEW s \in 1 .. n, NEW d \in {1, -1}, NEW k \in 0 .. n - 2
    PROVE  LET next == Place3(n, s, d, k) + d
           IN  /\ Place3(n, s, d, k + 1) = IF next > n THEN 1 ELSE IF next < 1 THEN n ELSE next
               /\ next # s
<1>1. k \in 0 .. n /\ k + 1 \in 0 .. n OBVIOUS
<1>2. CASE d = 1
  <2>1. /\ Place3(n, s, d, k) = IF s + k > n THEN s + k - n ELSE s + k
        /\ Place3(n, s, d, k + 1) = IF s + (k + 1) > n THEN s + (k + 1) - n ELSE s + (k + 1)
    BY <1>1, <1>2, Ahead
  <2> QED BY <1>2, <2>1
<1>3. CASE d = -1
  <2>1. /\ Place3(n, s, d, k) = IF s - k < 1 THEN s - k + n ELSE s - k
        /\ Place3(n, s, d, k + 1) = IF s - (k + 1) < 1 THEN s - (k + 1) + n ELSE s - (k + 1)
    BY <1>1, <1>3, Back
  <2> QED BY <1>3, <2>1
<1> QED BY <1>2, <1>3

\* The switches of a curve, each one once, have all nodes between them.
LEMMA CurveFacts ==
    ASSUME request \in Requests, request.network = "hypercube", NEW c \in DOMAIN request.curves
    PROVE  /\ c \in Nat /\ Len(Curve(c)) \in Nat /\ DOMAIN Curve(c) = 1 .. Len(Curve(c))
           /\ \A i \in 1 .. Len(Curve(c)) : Curve(c)[i] \in Switches /\ FreeAt(c, i) \in SUBSET Free
           /\ \A i, j \in 1 .. Len(Curve(c)) : i # j => FreeAt(c, i) \cap FreeAt(c, j) = {}
           /\ \A n \in Free : \E i \in 1 .. Len(Curve(c)) : n \in FreeAt(c, i)
           /\ Free \in SUBSET request.avail /\ Free \in SUBSET Nodes
<1>1. request.curves \in Seq(Seq(Nat)) /\ Laid(request) /\ request.avail \in SUBSET Nodes
  BY JobTestAssumption DEF RequestType
<1>2. c \in Nat /\ Curve(c) \in Seq(Nat)
  <2>1. DOMAIN request.curves = 1 .. Len(request.curves) /\ Len(request.curves) \in Nat
        /\ request.curves[c] \in Seq(Nat)
    BY <1>1, InSequence
  <2> QED BY <2>1 DEF Curve
<1>3. DOMAIN Curve(c) = 1 .. Len(Curve(c)) /\ Len(Curve(c)) \in Nat BY <1>2, InSequence
<1>4. /\ \A i \in DOMAIN Curve(c) : Curve(c)[i] \in Switches
      /\ \A i, j \in DOMAIN Curve(c) : Curve(c)[i] = Curve(c)[j] => i = j
      /\ \A n \in Nodes : \E i \in DOMAIN Curve(c) : n \in request.switches[Curve(c)[i]].nodes
      /\ \A i, j \in Switches : request.switches[i].nodes \cap request.switches[j].nodes # {} => i = j
  BY <1>1 DEF Laid, Curve, Switches
<1>5. Free \in SUBSET request.avail /\ Free \in SUBSET Nodes BY <1>1 DEF Free
<1>6. \A i : FreeAt(c, i) = request.switches[Curve(c)[i]].nodes \cap Free
  BY DEF FreeAt, FreeOn, Under, Free
<1>7. \A i \in DOMAIN Curve(c) : Curve(c)[i] \in Switches /\ FreeAt(c, i) \in SUBSET Free BY <1>4, <1>6
<1>8. ASSUME NEW i \in DOMAIN Curve(c), NEW j \in DOMAIN Curve(c), i # j
      PROVE  FreeAt(c, i) \cap FreeAt(c, j) = {}
  <2>1. Curve(c)[i] # Curve(c)[j] /\ Curve(c)[i] \in Switches /\ Curve(c)[j] \in Switches BY <1>4, <1>8
  <2>2. request.switches[Curve(c)[i]].nodes \cap request.switches[Curve(c)[j]].nodes = {} BY <1>4, <2>1
  <2> QED BY <1>6, <2>2
<1>9. \A n \in Free : \E i \in DOMAIN Curve(c) : n \in FreeAt(c, i) BY <1>4, <1>5, <1>6
<1> QED BY <1>2, <1>3, <1>5, <1>7, <1>8, <1>9

\* The free nodes of the switches, as they come by.
Along(c, s, d) == [k \in 0 .. Len(Curve(c)) - 1 |-> FreeAt(c, At(c, s, d, k))]

\* The free nodes along a curve, from any switch and either way, are all the
\* free ones, each seen once.
LEMMA AlongFacts ==
    ASSUME request \in Requests, request.network = "hypercube", NEW c \in DOMAIN request.curves,
           NEW s \in DOMAIN Curve(c), NEW d \in {1, -1}
    PROVE  LET n == Len(Curve(c))
           IN  /\ n \in Nat /\ s \in 1 .. n
               /\ Separate(Along(c, s, d), n) /\ Gathered(Along(c, s, d), n) = Free
               /\ \A k : At(c, s, d, k) = Place3(n, s, d, k)
               /\ \A k \in 0 .. n - 1 :
                     /\ Along(c, s, d)[k] = FreeAt(c, At(c, s, d, k))
                     /\ At(c, s, d, k) \in 1 .. n
                     /\ \A t : Cluster(c, s, d, k, t) = Part(Along(c, s, d), k, t)
<1>1. PICK n : n = Len(Curve(c)) OBVIOUS
<1>2. /\ n \in Nat /\ s \in 1 .. n
      /\ \A i \in 1 .. n : FreeAt(c, i) \in SUBSET Free
      /\ \A i, j \in 1 .. n : i # j => FreeAt(c, i) \cap FreeAt(c, j) = {}
      /\ \A m \in Free : \E i \in 1 .. n : m \in FreeAt(c, i)
      /\ Free \in SUBSET Nodes
  BY <1>1, CurveFacts
<1>3. \A k : At(c, s, d, k) = Place3(n, s, d, k) BY <1>1, Zenon DEF At, Place3
<1>4. /\ \A k \in 0 .. n - 1 : At(c, s, d, k) \in 1 .. n
      /\ \A j, k \in 0 .. n - 1 : At(c, s, d, j) = At(c, s, d, k) => j = k
      /\ \A i \in 1 .. n : \E k \in 0 .. n - 1 : At(c, s, d, k) = i
  <2>1. /\ \A k \in 0 .. n - 1 : Place3(n, s, d, k) \in 1 .. n
        /\ \A j, k \in 0 .. n - 1 : Place3(n, s, d, j) = Place3(n, s, d, k) => j = k
        /\ \A i \in 1 .. n : \E k \in 0 .. n - 1 : Place3(n, s, d, k) = i
    <3>1. n \in Nat /\ s \in 1 .. n /\ d \in {1, -1} BY <1>2
    <3>2. ComesByAll(n, s, d) BY <3>1, Round
    <3> QED BY <3>2 DEF ComesByAll
  <2>2. ASSUME NEW k \in 0 .. n - 1 PROVE At(c, s, d, k) \in 1 .. n BY <1>3, <2>1
  <2>3. ASSUME NEW j \in 0 .. n - 1, NEW k \in 0 .. n - 1, At(c, s, d, j) = At(c, s, d, k) PROVE j = k
    <3>1. Place3(n, s, d, j) = Place3(n, s, d, k) BY <1>3, <2>3
    <3> QED BY <2>1, <3>1
  <2>4. ASSUME NEW i \in 1 .. n PROVE \E k \in 0 .. n - 1 : At(c, s, d, k) = i
    <3>1. PICK k \in 0 .. n - 1 : Place3(n, s, d, k) = i BY <2>1
    <3> QED BY <1>3, <3>1
  <2> QED BY <2>2, <2>3, <2>4
<1>5. PICK A : A = Along(c, s, d) OBVIOUS
<1>6. A = [k \in 0 .. n - 1 |-> FreeAt(c, At(c, s, d, k))] BY <1>1, <1>5 DEF Along
<1>7. \A k \in 0 .. n - 1 : A[k] = FreeAt(c, At(c, s, d, k)) BY <1>6
<1>8. Separate(A, n)
  <2>1. \A k \in 0 .. n - 1 : FreeAt(c, At(c, s, d, k)) \in SUBSET Nodes BY <1>2, <1>4
  <2>2. A \in [0 .. n - 1 -> SUBSET Nodes] BY <1>6, <2>1
  <2>3. ASSUME NEW i \in 0 .. n - 1, NEW j \in 0 .. n - 1, i # j PROVE A[i] \cap A[j] = {}
    <3>1. At(c, s, d, i) # At(c, s, d, j) BY <1>4, <2>3
    <3> QED BY <1>2, <1>4, <1>7, <3>1
  <2> QED BY <1>2, <2>2, <2>3 DEF Separate
<1>9. Gathered(A, n) = Free
  <2>1. ASSUME NEW x \in Gathered(A, n) PROVE x \in Free
    <3>1. PICK j \in 0 .. n - 1 : x \in A[j] BY DEF Gathered
    <3> QED BY <1>2, <1>4, <1>7, <3>1
  <2>2. ASSUME NEW x \in Free PROVE x \in Gathered(A, n)
    <3>1. PICK i \in 1 .. n : x \in FreeAt(c, i) BY <1>2
    <3>2. PICK k \in 0 .. n - 1 : At(c, s, d, k) = i BY <1>4
    <3>3. x \in A[k] BY <1>7, <3>1, <3>2
    <3> QED BY <3>3 DEF Gathered
  <2> QED BY <2>1, <2>2
<1>10. ASSUME NEW k \in 0 .. n - 1, NEW t PROVE Cluster(c, s, d, k, t) = Part(A, k, t)
  <2>1. \A j \in 0 .. k - 1 : A[j] = FreeAt(c, At(c, s, d, j))
    <3>1. \A j \in 0 .. k - 1 : j \in 0 .. n - 1 BY <1>2
    <3> QED BY <1>7, <3>1
  <2>2. UNION {FreeAt(c, At(c, s, d, j)) : j \in 0 .. k - 1} = Gathered(A, k) BY <2>1 DEF Gathered
  <2>3. FreeAt(c, At(c, s, d, k)) = A[k] BY <1>7
  <2> QED BY <2>2, <2>3 DEF Cluster, Part
<1> QED BY <1>1, <1>2, <1>3, <1>4, <1>5, <1>7, <1>8, <1>9, <1>10

-----------------------------------------------------------------------------
(* The inductive invariant of a call on a hypercube *)

\* What is left to find.  Of the required nodes only some have given their CPUs.
CubeCounts ==
    pc \in {"explore", "walk", "walked"} =>
        /\ request.required \subseteq bitmap /\ bitmap \subseteq request.avail
        /\ remNodes = request.reqNodes - Cardinality(bitmap)
        /\ remCpus = request.minCpus - CpusOf(Noticed) - CpusOf(bitmap \ request.required)
        /\ maxNodes = request.maxNodes - Cardinality(bitmap)
        /\ pc = "explore" => bitmap = request.required

\* Some part of the row that goes on from here has what is still to be found.
InReach(A, n, k, t) ==
    \E K \in k .. n - 1 : \E T \in 0 .. Cardinality(A[K]) :
        /\ k = K => t <= T
        /\ Cardinality(Part(A, K, T)) <= maxNodes + Cardinality(Part(A, k, t))
        /\ Cardinality(Part(A, K, T)) >= remNodes + Cardinality(Part(A, k, t))
        /\ CpusOf(Part(A, K, T)) >= remCpus + CpusOf(Part(A, k, t))

\* k steps from its start, on the way to a cluster that was found to fit.
Along3(A, n, k) ==
    /\ walk.at = At(walk.curve, walk.start, walk.dir, k)
    /\ walk.taken <= Cardinality(A[k])
    /\ bitmap = request.required \cup Part(A, k, walk.taken)
    /\ InReach(A, n, k, walk.taken)

WalkInv ==
    pc = "walk" =>
        /\ walk.curve \in DOMAIN request.curves /\ walk.start \in DOMAIN Curve(walk.curve)
        /\ \E k \in 0 .. Len(Curve(walk.curve)) - 1 :
              Along3(Along(walk.curve, walk.start, walk.dir), Len(Curve(walk.curve)), k)

\* Whoever can be helped has been.
WalkedInv ==
    pc = "walked" =>
        \/ remCpus <= 0 /\ Cardinality(bitmap) >= request.minNodes
        \/ Unlike \/ request.required # {}
        \/ request.reqNodes > Cardinality(request.avail)
        \/ \A S \in SUBSET request.avail : ~WouldDo(S)

CubeInv == CubeCounts /\ WalkInv /\ WalkedInv

\* A hypercube on which the call is under way.
OnCube == request \in Requests /\ CubeTypeOK /\ CubeInv /\ Usable /\ request.network = "hypercube"

\* The curves do not change.
LEMMA SameCurves ==
    ASSUME request' = request
    PROVE  /\ Free' = Free /\ Noticed' = Noticed
           /\ \A c : Curve(c)' = Curve(c)
           /\ \A c, s, d : Along(c, s, d)' = Along(c, s, d)
           /\ \A c, s, d, k : At(c, s, d, k)' = At(c, s, d, k)
<1>1. Free' = Free /\ Switches' = Switches BY DEF Free, Switches
<1>2. \A i : Under(i)' = Under(i) BY DEF Under
<1>3. \A i : FreeOn(i)' = FreeOn(i) BY <1>1, <1>2 DEF FreeOn
<1>4. Noticed' = Noticed BY <1>1, <1>2, <1>3 DEF Noticed
<1>5. \A c : Curve(c)' = Curve(c) BY DEF Curve
<1>6. \A c, i : FreeAt(c, i)' = FreeAt(c, i) BY <1>3, <1>5 DEF FreeAt
<1>7. \A c, s, d, k : At(c, s, d, k)' = At(c, s, d, k) BY <1>5 DEF At
<1>8. \A c, s, d : Along(c, s, d)' = Along(c, s, d) BY <1>5, <1>6, <1>7 DEF Along
<1> QED BY <1>1, <1>4, <1>5, <1>7, <1>8

\* What is known during a call on a hypercube.
LEMMA CubeNumbers ==
    ASSUME OnCube, pc \in {"explore", "walk", "walked"}
    PROVE  /\ N \in Nat /\ request \in Requests /\ request.avail \in SUBSET Nodes
           /\ request.required \in SUBSET request.avail /\ request.required \in SUBSET Nodes
           /\ bitmap \in SUBSET Nodes /\ bitmap \in SUBSET request.avail
           /\ request.required \subseteq bitmap
           /\ remNodes \in Int /\ remCpus \in Int /\ maxNodes \in Nat
           /\ Cardinality(bitmap) \in Nat /\ CpusOf(bitmap) \in Nat
           /\ CpusOf(Noticed) \in Nat /\ CpusOf(Noticed) <= CpusOf(request.required)
           /\ CpusOf(request.required) \in Nat /\ CpusOf(bitmap \ request.required) \in Nat
           /\ CpusOf(bitmap) = CpusOf(request.required) + CpusOf(bitmap \ request.required)
           /\ request.minNodes \in Nat /\ request.reqNodes \in Nat /\ request.maxNodes \in Nat
           /\ request.minCpus \in Nat /\ request.minNodes <= request.reqNodes
           /\ remNodes = request.reqNodes - Cardinality(bitmap)
           /\ remCpus = request.minCpus - CpusOf(Noticed) - CpusOf(bitmap \ request.required)
           /\ maxNodes = request.maxNodes - Cardinality(bitmap)
           /\ TopoTypeOK
<1>1. /\ request \in Requests /\ TopoTypeOK /\ bitmap \in SUBSET Nodes
      /\ remNodes \in Int /\ remCpus \in Int /\ maxNodes \in Nat
      /\ request.required \subseteq request.avail
  BY DEF OnCube, CubeTypeOK, TopoTypeOK, TypeOK, Usable
<1>2. /\ request.required \subseteq bitmap /\ bitmap \subseteq request.avail
      /\ remNodes = request.reqNodes - Cardinality(bitmap)
      /\ remCpus = request.minCpus - CpusOf(Noticed) - CpusOf(bitmap \ request.required)
      /\ maxNodes = request.maxNodes - Cardinality(bitmap)
  BY DEF OnCube, CubeInv, CubeCounts
<1>3. N \in Nat /\ request.avail \in SUBSET Nodes /\ request.required \in SUBSET Nodes BY <1>1, Call
<1>4. Cardinality(bitmap) \in Nat /\ CpusOf(bitmap) \in Nat BY <1>1, <1>3, FiniteNodes, SomeCpus
<1>5. Noticed \in SUBSET request.required BY DEF Noticed
<1>6. Noticed \in SUBSET Nodes /\ bitmap \ request.required \in SUBSET Nodes BY <1>1, <1>3, <1>5
<1>7. /\ CpusOf(Noticed) \in Nat /\ CpusOf(request.required) \in Nat
      /\ CpusOf(bitmap \ request.required) \in Nat
      /\ CpusOf(Noticed) <= CpusOf(request.required)
  BY <1>1, <1>3, <1>5, <1>6, SomeCpus, MoreNodes
<1>8. CpusOf(bitmap) = CpusOf(request.required) + CpusOf(bitmap \ request.required)
  <2>1. bitmap = request.required \cup (bitmap \ request.required) BY <1>2
  <2>2. request.required \cap (bitmap \ request.required) = {} OBVIOUS
  <2>3. CpusOf(request.required \cup (bitmap \ request.required))
           = CpusOf(request.required) + CpusOf(bitmap \ request.required)
    BY <1>1, <1>3, <1>6, <2>2, NodesJoin
  <2> QED BY <2>1, <2>3
<1> QED BY <1>1, <1>2, <1>3, <1>4, <1>7, <1>8, Call

-----------------------------------------------------------------------------
(* The search *)

\* The start on a hypercube.
LEMMA CubeRequiredStep ==
    ASSUME request \in Requests, CubeTypeOK, CubeRequired PROVE CubeTypeOK' /\ CubeInv'
<1>0. /\ pc = "begin" /\ request.network = "hypercube" /\ Usable
      /\ bitmap' = request.required
      /\ remNodes' = request.reqNodes - Cardinality(request.required)
      /\ remCpus' = request.minCpus - CpusOf(Noticed)
      /\ maxNodes' = request.maxNodes - Cardinality(request.required)
      /\ pc' = IF maxNodes' > 0 /\ (remNodes' > 0 \/ remCpus' > 0) THEN "explore" ELSE "walked"
      /\ request' = request /\ table' = table /\ left' = left /\ rc' = rc
      /\ leaves' = leaves /\ leafCount' = leafCount /\ bestSwitch' = bestSwitch /\ walk' = walk
  BY DEF CubeRequired, leafVars
<1>1. /\ N \in Nat /\ request.required \in SUBSET Nodes /\ request.minCpus \in Nat
      /\ request.minNodes \in Nat /\ request.reqNodes \in Nat /\ request.maxNodes \in Nat
      /\ 1 <= request.minNodes /\ request.minNodes <= request.reqNodes
      /\ request.reqNodes <= request.maxNodes
      /\ Cardinality(request.required) <= request.minNodes
  BY Call
<1>2. Cardinality(request.required) \in Nat BY <1>1, FiniteNodes
<1>3. Noticed \in SUBSET Nodes BY <1>1 DEF Noticed
<1>4. CpusOf(Noticed) \in Nat BY <1>3, SomeCpus
<1>5. remNodes' \in Int /\ remCpus' \in Int /\ maxNodes' \in Nat BY <1>0, <1>1, <1>2, <1>4
<1>6. CubeTypeOK' BY <1>0, <1>1, <1>5 DEF CubeTypeOK, TopoTypeOK, TypeOK
<1>7. Noticed' = Noticed BY <1>0, SameCurves
<1>8. CubeCounts'
  <2>1. bitmap' \ request.required = {} BY <1>0
  <2>2. CpusOf(bitmap \ request.required)' = CpusOf({}) BY <1>0, <2>1 DEF CpusOf
  <2>3. CpusOf(Noticed)' = CpusOf(Noticed) BY <1>0, <1>7 DEF CpusOf
  <2>4. remCpus' = request.minCpus - CpusOf(Noticed) - 0 BY <1>0, <1>1, <1>4
  <2>5. CpusOf({}) = 0 BY NoCpus
  <2>6. request.required \subseteq request.avail BY <1>0 DEF Usable
  <2> QED BY <1>0, <2>2, <2>3, <2>4, <2>5, <2>6 DEF CubeCounts
<1>9. WalkInv' BY <1>0 DEF WalkInv
<1>10. WalkedInv'
  <2> SUFFICES ASSUME pc' = "walked", request.required = {}
               PROVE  remCpus' <= 0 /\ Cardinality(bitmap') >= request.minNodes
    BY <1>0 DEF WalkedInv
  <2>1. Cardinality(request.required) = 0 BY NoCpus
  <2>2. maxNodes' > 0 BY <1>0, <1>1, <2>1
  <2>3. ~(remNodes' > 0) /\ ~(remCpus' > 0) BY <1>0, <2>2
  <2> QED BY <1>0, <1>1, <1>2, <1>5, <2>3
<1> QED BY <1>6, <1>8, <1>9, <1>10 DEF CubeInv

\* A cluster that has all the job wants is found.
LEMMA ExploreStep ==
    ASSUME OnCube, Explore PROVE CubeTypeOK' /\ CubeInv'
<1>0. /\ pc = "explore" /\ pc' = "walk" /\ request' = request /\ bitmap' = bitmap
      /\ table' = table /\ left' = left /\ rc' = rc
      /\ remNodes' = remNodes /\ remCpus' = remCpus /\ maxNodes' = maxNodes
      /\ leaves' = leaves /\ leafCount' = leafCount /\ bestSwitch' = bestSwitch
  BY DEF Explore, leafVars
<1>1. PICK c \in DOMAIN request.curves, d \in {1, -1} : \E s \in DOMAIN Curve(c) :
          /\ FitsFrom(c, s, d)
          /\ walk' = [curve |-> c, start |-> s, dir |-> d, at |-> s, taken |-> 0]
  BY DEF Explore
<1>2. PICK s \in DOMAIN Curve(c) :
          /\ FitsFrom(c, s, d)
          /\ walk' = [curve |-> c, start |-> s, dir |-> d, at |-> s, taken |-> 0]
  BY <1>1
<1>3. /\ N \in Nat /\ request \in Requests /\ request.network = "hypercube"
      /\ remNodes \in Int /\ remCpus \in Int /\ maxNodes \in Nat
      /\ bitmap = request.required /\ TopoTypeOK
  BY <1>0, CubeNumbers DEF OnCube, CubeInv, CubeCounts
<1>4. PICK n, A : n = Len(Curve(c)) /\ A = Along(c, s, d) OBVIOUS
<1>5. /\ n \in Nat /\ s \in 1 .. n /\ Separate(A, n)
      /\ \A k : At(c, s, d, k) = Place3(n, s, d, k)
      /\ \A k \in 0 .. n - 1 :
            /\ A[k] = FreeAt(c, At(c, s, d, k))
            /\ \A t : Cluster(c, s, d, k, t) = Part(A, k, t)
  BY <1>3, <1>4, AlongFacts
<1>6. c \in Nat BY <1>3, CurveFacts
<1>7. At(c, s, d, 0) = s
  <2>1. n \in Nat /\ s \in 1 .. n BY <1>5
  <2>2. ComesByAll(n, s, d) BY <2>1, Round
  <2> QED BY <1>5, <2>2 DEF ComesByAll
<1>8. CubeTypeOK'
  <2>1. TopoTypeOK' BY <1>0, <1>3 DEF TopoTypeOK, TypeOK
  <2>2. s \in Nat /\ 0 \in 0 .. N BY <1>3, <1>5
  <2> QED BY <1>2, <1>6, <2>1, <2>2 DEF CubeTypeOK
<1>9. CpusOf(Noticed)' = CpusOf(Noticed) BY <1>0, SameCurves DEF CpusOf
<1>10. CpusOf(bitmap \ request.required)' = CpusOf(bitmap \ request.required) BY <1>0 DEF CpusOf
<1>11. CubeCounts' BY <1>0, <1>9, <1>10 DEF OnCube, CubeInv, CubeCounts
<1>12. WalkInv'
  <2>1. 0 \in 0 .. n - 1 BY <1>5
  <2>2. Part(A, 0, 0) = {}
    <3>1. Part(A, 0, 0) = Gathered(A, 0) BY <1>3, <1>5, <2>1, PartSize
    <3> QED BY <3>1, GatheredNone
  <2>3. PICK K \in 0 .. n - 1 : \E T \in 0 .. Cardinality(FreeAt(c, At(c, s, d, K))) :
           /\ remNodes <= Cardinality(Cluster(c, s, d, K, T)) /\ Cardinality(Cluster(c, s, d, K, T)) <= maxNodes
           /\ CpusOf(Cluster(c, s, d, K, T)) >= remCpus
    BY <1>2, <1>4 DEF FitsFrom
  <2>4. PICK T \in 0 .. Cardinality(A[K]) :
           /\ remNodes <= Cardinality(Part(A, K, T)) /\ Cardinality(Part(A, K, T)) <= maxNodes
           /\ CpusOf(Part(A, K, T)) >= remCpus
    BY <1>5, <2>3
  <2>5. PICK S : S = Part(A, K, T) OBVIOUS
  <2>6. S \in SUBSET Nodes
    <3>1. K \in 0 .. n - 1 BY <2>3
    <3>2. Part(A, K, T) \in SUBSET Gathered(A, K + 1) BY <1>3, <1>5, <3>1, PartSize
    <3>3. Gathered(A, K + 1) \in SUBSET Nodes BY <1>5, <3>1, GatheredNext
    <3> QED BY <2>5, <3>2, <3>3
  <2>7. Cardinality(S) \in Nat /\ CpusOf(S) \in Nat BY <1>3, <2>6, FiniteNodes, SomeCpus
  <2>8. Cardinality({}) = 0 /\ CpusOf({}) = 0 BY NoCpus
  <2>9. /\ Cardinality(S) <= maxNodes + Cardinality({}) /\ Cardinality(S) >= remNodes + Cardinality({})
        /\ CpusOf(S) >= remCpus + CpusOf({})
    BY <1>3, <2>4, <2>5, <2>7, <2>8
  <2>10. T \in Nat /\ 0 <= T
    <3>1. A[K] \in SUBSET Nodes BY <1>5, GatheredNext
    <3>2. Cardinality(A[K]) \in Nat BY <1>3, <3>1, FiniteNodes
    <3> QED BY <3>2
  <2>11. InReach(A, n, 0, 0) BY <2>2, <2>4, <2>5, <2>9, <2>10 DEF InReach
  <2>12. InReach(A, n, 0, 0)' = InReach(A, n, 0, 0) BY <1>0 DEF InReach, CpusOf
  <2>13. Cardinality(A[0]) \in Nat
    <3>1. A[0] \in SUBSET Nodes BY <1>5, <2>1, GatheredNext
    <3> QED BY <1>3, <3>1, FiniteNodes
  <2>14. /\ walk'.curve = c /\ walk'.start = s /\ walk'.dir = d /\ walk'.at = s /\ walk'.taken = 0 BY <1>2
  <2>15. /\ Curve(c)' = Curve(c) /\ Along(c, s, d)' = A /\ At(c, s, d, 0)' = s
    BY <1>0, <1>4, <1>7, SameCurves
  <2>16. Along3(A, n, 0)'
    <3>1. At(walk.curve, walk.start, walk.dir, 0)' = s BY <2>14, <2>15 DEF At, Curve
    <3>2. bitmap' = request'.required \cup Part(A, 0, 0) BY <1>0, <1>3, <2>2
    <3> QED BY <2>11, <2>12, <2>13, <2>14, <3>1, <3>2 DEF Along3
  <2>17. Curve(walk.curve)' = Curve(c) BY <2>14, <2>15 DEF Curve
  <2>18. Along(walk.curve, walk.start, walk.dir)' = A BY <2>14, <2>15, <2>17 DEF Along, At, FreeAt, Curve
  <2> QED BY <1>0, <1>4, <2>1, <2>14, <2>16, <2>17, <2>18 DEF WalkInv
<1>13. WalkedInv' BY <1>0 DEF WalkedInv
<1> QED BY <1>8, <1>11, <1>12, <1>13 DEF CubeInv

\* On like nodes the first cluster on a curve fits a job that any nodes would do for.
LEMMA FirstFits ==
    ASSUME OnCube, pc = "explore", ~Unlike, request.required = {},
           request.reqNodes <= Cardinality(request.avail),
           NEW S \in SUBSET request.avail, WouldDo(S),
           NEW c \in DOMAIN request.curves
    PROVE  FitsFrom(c, First(c), 1)
<1>0. /\ N \in Nat /\ request \in Requests /\ request.network = "hypercube"
      /\ request.avail \in SUBSET Nodes /\ request.minCpus \in Nat
      /\ request.reqNodes \in Nat /\ request.maxNodes \in Nat /\ 1 <= request.reqNodes
      /\ request.reqNodes <= request.maxNodes
  <2>1. request \in Requests /\ request.network = "hypercube" BY DEF OnCube
  <2>2. 1 <= request.minNodes /\ request.minNodes <= request.reqNodes
        /\ request.minNodes \in Nat /\ request.reqNodes \in Nat
    BY <2>1, Call
  <2>3. 1 <= request.reqNodes BY <2>2
  <2> QED BY <2>1, <2>3, Call
<1>1. /\ remNodes = request.reqNodes /\ maxNodes = request.maxNodes /\ remCpus = request.minCpus
  <2>1. bitmap = {} /\ bitmap \ request.required = {} BY DEF OnCube, CubeInv, CubeCounts
  <2>2. Noticed = {} BY DEF Noticed
  <2>3. Cardinality({}) = 0 /\ CpusOf({}) = 0 BY NoCpus
  <2>4. /\ remNodes = request.reqNodes - Cardinality(bitmap)
        /\ remCpus = request.minCpus - CpusOf(Noticed) - CpusOf(bitmap \ request.required)
        /\ maxNodes = request.maxNodes - Cardinality(bitmap)
    BY CubeNumbers
  <2> QED BY <1>0, <2>1, <2>2, <2>3, <2>4
<1>2. Free = request.avail BY DEF Free
<1>3. PICK n : n = Len(Curve(c)) OBVIOUS
<1>4. /\ n \in Nat /\ DOMAIN Curve(c) = 1 .. n
      /\ \A m \in Free : \E i \in 1 .. n : m \in FreeAt(c, i)
  BY <1>0, <1>3, CurveFacts
<1>5. PICK s \in DOMAIN Curve(c) : s = First(c)
  <2> DEFINE starts == {i \in DOMAIN Curve(c) : FreeAt(c, i) # {}}
  <2>1. request.avail # {}
    <3> SUFFICES ASSUME request.avail = {} PROVE FALSE OBVIOUS
    <3>1. Cardinality(request.avail) = 0 BY NoCpus
    <3> QED BY <1>0, <3>1
  <2>2. PICK m \in Free : TRUE BY <1>2, <2>1
  <2>3. PICK i \in 1 .. n : m \in FreeAt(c, i) BY <1>4
  <2>4. i \in starts BY <1>4, <2>3
  <2>5. starts \in SUBSET Nat
    <3>1. \A x \in 1 .. n : x \in Nat OBVIOUS
    <3> QED BY <1>4, <3>1
  <2> HIDE DEF starts
  <2>6. \E m2 \in starts : \A k \in starts : m2 <= k BY <2>4, <2>5, LeastOne
  <2>7. Min(starts) \in starts BY <2>6 DEF Min
  <2>8. First(c) = Min(starts) BY DEF First, starts
  <2>9. First(c) \in starts BY <2>7, <2>8
  <2> QED BY <2>9 DEF starts
<1>6. PICK A : A = Along(c, s, 1) OBVIOUS
<1>7. /\ Separate(A, n) /\ Gathered(A, n) = Free
      /\ \A k \in 0 .. n - 1 :
            /\ A[k] = FreeAt(c, At(c, s, 1, k))
            /\ \A t : Cluster(c, s, 1, k, t) = Part(A, k, t)
  <2>1. 1 \in {1, -1} OBVIOUS
  <2> QED BY <1>0, <1>3, <1>6, <2>1, AlongFacts
<1>8. /\ Cardinality(S) \in Nat /\ CpusOf(S) \in Nat
      /\ Cardinality(S) <= Cardinality(request.avail) /\ Cardinality(request.avail) \in Nat
      /\ Cardinality(S) <= request.maxNodes /\ CpusOf(S) >= request.minCpus
  BY <1>0, Sizes DEF WouldDo
<1>9. PICK m \in Nat \ {0} : /\ request.reqNodes <= m /\ m <= request.maxNodes
                             /\ Cardinality(S) <= m /\ m <= Cardinality(request.avail)
  <2>1. CASE Cardinality(S) <= request.reqNodes BY <1>0, <1>8, <2>1
  <2>2. CASE ~(Cardinality(S) <= request.reqNodes) BY <1>0, <1>8, <2>2
  <2> QED BY <2>1, <2>2
<1>10. PICK k \in 0 .. n - 1 : \E t \in 0 .. Cardinality(A[k]) : Cardinality(Part(A, k, t)) = m
  BY <1>0, <1>2, <1>7, <1>9, EverySize
<1>11. PICK t \in 0 .. Cardinality(A[k]) : Cardinality(Part(A, k, t)) = m BY <1>10
<1>12. Part(A, k, t) \in SUBSET request.avail
  <2>1. Part(A, k, t) \in SUBSET Gathered(A, k + 1) BY <1>0, <1>7, PartSize
  <2>2. Gathered(A, k + 1) \subseteq Gathered(A, n)
    <3> SUFFICES ASSUME NEW x \in Gathered(A, k + 1) PROVE x \in Gathered(A, n) OBVIOUS
    <3>1. PICK j \in 0 .. (k + 1) - 1 : x \in A[j] BY DEF Gathered
    <3>2. j \in 0 .. n - 1 BY <1>4
    <3> QED BY <3>1, <3>2 DEF Gathered
  <2> QED BY <1>2, <1>7, <2>1, <2>2
<1>13. CpusOf(Part(A, k, t)) >= remCpus
  <2>1. CpusOf(S) <= CpusOf(Part(A, k, t)) BY <1>0, <1>9, <1>11, <1>12, LikeNodes
  <2>2. CpusOf(Part(A, k, t)) \in Nat BY <1>0, <1>12, Sizes
  <2> QED BY <1>0, <1>1, <1>8, <2>1, <2>2
<1>14. /\ k \in 0 .. Len(Curve(c)) - 1 /\ t \in 0 .. Cardinality(FreeAt(c, At(c, s, 1, k)))
       /\ Cluster(c, s, 1, k, t) = Part(A, k, t)
  BY <1>3, <1>7
<1>15. /\ remNodes <= Cardinality(Cluster(c, s, 1, k, t)) /\ Cardinality(Cluster(c, s, 1, k, t)) <= maxNodes
       /\ CpusOf(Cluster(c, s, 1, k, t)) >= remCpus
  BY <1>1, <1>9, <1>11, <1>13, <1>14
<1>16. FitsFrom(c, s, 1) BY <1>14, <1>15 DEF FitsFrom
<1> QED BY <1>5, <1>16

\* What is not empty has a first element.
LEMMA FirstElement ==
    ASSUME NEW T, NEW s \in Seq(T), s # <<>> PROVE 1 \in DOMAIN s
<1>1. DOMAIN s = 1 .. Len(s) /\ Len(s) \in Nat OBVIOUS
<1>2. Len(s) # 0 OBVIOUS
<1> QED BY <1>1, <1>2

\* No cluster is found: none has all the job wants.
LEMMA ExploreInVainStep ==
    ASSUME OnCube, ExploreInVain PROVE CubeTypeOK' /\ CubeInv'
<1>0. /\ pc = "explore" /\ pc' = "walked" /\ request' = request /\ bitmap' = bitmap
      /\ table' = table /\ left' = left /\ rc' = rc
      /\ remNodes' = remNodes /\ remCpus' = remCpus /\ maxNodes' = maxNodes
      /\ leaves' = leaves /\ leafCount' = leafCount /\ bestSwitch' = bestSwitch /\ walk' = walk
      /\ \A c \in DOMAIN request.curves : ~FitsFrom(c, First(c), 1)
  BY DEF ExploreInVain, leafVars
<1>1. CubeTypeOK' BY <1>0 DEF OnCube, CubeTypeOK, TopoTypeOK, TypeOK
<1>2. CpusOf(Noticed)' = CpusOf(Noticed) BY <1>0, SameCurves DEF CpusOf
<1>3. CpusOf(bitmap \ request.required)' = CpusOf(bitmap \ request.required) BY <1>0 DEF CpusOf
<1>4. CubeCounts' BY <1>0, <1>2, <1>3 DEF OnCube, CubeInv, CubeCounts
<1>5. WalkInv' BY <1>0 DEF WalkInv
<1>6. Unlike' = Unlike /\ \A S : WouldDo(S)' = WouldDo(S) BY <1>0, SameCall
<1>7. PICK c \in DOMAIN request.curves : TRUE
  <2>1. request.curves \in Seq(Seq(Nat)) /\ request.curves # <<>>
    BY JobTestAssumption DEF OnCube, RequestType, Laid
  <2>2. 1 \in DOMAIN request.curves BY <2>1, FirstElement
  <2> QED BY <2>2
<1>8. ASSUME ~Unlike, request.required = {}, ~(request.reqNodes > Cardinality(request.avail)),
             NEW S \in SUBSET request.avail, WouldDo(S)
      PROVE  FALSE
  <2>1. request.reqNodes \in Nat /\ request \in Requests BY Call DEF OnCube
  <2>2. Cardinality(request.avail) \in Nat BY <2>1, Sizes
  <2>3. request.reqNodes <= Cardinality(request.avail) BY <1>8, <2>1, <2>2
  <2>4. FitsFrom(c, First(c), 1) BY <1>0, <1>8, <2>3, FirstFits
  <2> QED BY <1>0, <2>4
<1>9. WalkedInv'
  <2>1. \/ Unlike \/ request.required # {}
        \/ request.reqNodes > Cardinality(request.avail)
        \/ \A S \in SUBSET request.avail : ~WouldDo(S)
    BY <1>8
  <2> QED BY <1>0, <1>6, <2>1 DEF WalkedInv
<1> QED BY <1>1, <1>4, <1>5, <1>9 DEF CubeInv

-----------------------------------------------------------------------------
(* The walk *)

\* As long as something is wanted, the end of the cluster is not reached.
LEMMA NotThere ==
    ASSUME request \in Requests, NEW n, NEW A, Separate(A, n), NEW k \in 0 .. n - 1,
           NEW t \in 0 .. Cardinality(A[k]),
           remNodes \in Int, remCpus \in Int, maxNodes \in Nat, InReach(A, n, k, t), Wanting
    PROVE  /\ maxNodes > 0
           /\ \E K \in k .. n - 1 : \E T \in 0 .. Cardinality(A[K]) :
                 /\ k = K => t < T
                 /\ Cardinality(Part(A, K, T)) <= maxNodes + Cardinality(Part(A, k, t))
                 /\ Cardinality(Part(A, K, T)) >= remNodes + Cardinality(Part(A, k, t))
                 /\ CpusOf(Part(A, K, T)) >= remCpus + CpusOf(Part(A, k, t))
<1>0. N \in Nat /\ n \in Nat BY Call DEF Separate
<1> DEFINE Good(K, T) ==
              /\ k = K => t <= T
              /\ Cardinality(Part(A, K, T)) <= maxNodes + Cardinality(Part(A, k, t))
              /\ Cardinality(Part(A, K, T)) >= remNodes + Cardinality(Part(A, k, t))
              /\ CpusOf(Part(A, K, T)) >= remCpus + CpusOf(Part(A, k, t))
<1>12. PICK K \in k .. n - 1 : \E T \in 0 .. Cardinality(A[K]) : Good(K, T) BY DEF InReach
<1>1. PICK T \in 0 .. Cardinality(A[K]) : Good(K, T) BY <1>12
<1>2. PICK S, D : S = Part(A, K, T) /\ D = Part(A, k, t) OBVIOUS
<1>3. K \in 0 .. n - 1 BY <1>0, <1>12
<1>4. /\ A[k] \in SUBSET Nodes /\ A[K] \in SUBSET Nodes
      /\ Gathered(A, k + 1) \in SUBSET Nodes /\ Gathered(A, K + 1) \in SUBSET Nodes
  BY <1>3, GatheredNext
<1>5. S \in SUBSET Nodes /\ D \in SUBSET Nodes
  <2>1. S \in SUBSET Gathered(A, K + 1) BY <1>2, <1>3, PartSize
  <2>2. D \in SUBSET Gathered(A, k + 1) BY <1>2, PartSize
  <2> QED BY <1>4, <2>1, <2>2
<1>6. /\ IsFiniteSet(S) /\ Cardinality(S) \in Nat /\ Cardinality(D) \in Nat
      /\ CpusOf(S) \in Nat /\ CpusOf(D) \in Nat
  BY <1>0, <1>5, FiniteNodes, SomeCpus
<1>7. t \in Nat /\ T \in Nat
  <2>1. Cardinality(A[k]) \in Nat /\ Cardinality(A[K]) \in Nat BY <1>0, <1>4, FiniteNodes
  <2> QED BY <2>1
<1>8. D \in SUBSET S BY <1>1, <1>2, <1>7, PartGrows
<1>9. S # D
  <2> SUFFICES ASSUME S = D PROVE FALSE OBVIOUS
  <2>1. Cardinality(D) >= remNodes + Cardinality(D) /\ CpusOf(D) >= remCpus + CpusOf(D) BY <1>1, <1>2
  <2> QED BY <1>6, <2>1 DEF Wanting
<1>10. maxNodes > 0
  <2> SUFFICES ASSUME maxNodes = 0 PROVE FALSE OBVIOUS
  <2>1. Cardinality(S) <= Cardinality(D) BY <1>1, <1>2, <1>6
  <2>2. Cardinality(D) <= Cardinality(S) BY <1>6, <1>8, FS_Subset
  <2>3. Cardinality(S) = Cardinality(D) BY <1>6, <2>1, <2>2
  <2> QED BY <1>6, <1>8, <1>9, <2>3, FS_Subset
<1>11. ASSUME k = K PROVE t < T
  <2>1. t # T BY <1>2, <1>9, <1>11
  <2> QED BY <1>1, <1>7, <1>11, <2>1
<1> QED BY <1>1, <1>10, <1>11

\* Where the walk is.
LEMMA Underway ==
    ASSUME OnCube, pc = "walk"
    PROVE  \E A, n, k :
              /\ A = Along(walk.curve, walk.start, walk.dir) /\ n = Len(Curve(walk.curve))
              /\ n \in Nat /\ k \in 0 .. n - 1 /\ Separate(A, n) /\ Along3(A, n, k)
              /\ walk.curve \in DOMAIN request.curves /\ walk.start \in DOMAIN Curve(walk.curve)
              /\ walk.start \in 1 .. n /\ walk.dir \in {1, -1}
              /\ walk \in [curve : Nat, start : Nat, dir : {1, -1}, at : Nat, taken : 0 .. N]
              /\ A[k] = Here /\ A[k] \in SUBSET Free
              /\ walk.taken \in 0 .. Cardinality(A[k]) /\ Cardinality(A[k]) \in 0 .. N
              /\ walk.at = Place3(n, walk.start, walk.dir, k)
              /\ \A j : At(walk.curve, walk.start, walk.dir, j) = Place3(n, walk.start, walk.dir, j)
<1>1. PICK A, n : A = Along(walk.curve, walk.start, walk.dir) /\ n = Len(Curve(walk.curve)) OBVIOUS
<1>2. /\ walk.curve \in DOMAIN request.curves /\ walk.start \in DOMAIN Curve(walk.curve)
      /\ \E k \in 0 .. n - 1 : Along3(A, n, k)
  BY <1>1 DEF OnCube, CubeInv, WalkInv
<1>3. PICK k \in 0 .. n - 1 : Along3(A, n, k) BY <1>2
<1>4. /\ request \in Requests /\ request.network = "hypercube"
      /\ walk \in [curve : Nat, start : Nat, dir : {1, -1}, at : Nat, taken : 0 .. N]
  BY DEF OnCube, CubeTypeOK
<1>5. walk.dir \in {1, -1} /\ walk.taken \in 0 .. N BY <1>4
<1>6. /\ n \in Nat /\ walk.start \in 1 .. n /\ Separate(A, n)
      /\ \A j : At(walk.curve, walk.start, walk.dir, j) = Place3(n, walk.start, walk.dir, j)
      /\ A[k] = FreeAt(walk.curve, At(walk.curve, walk.start, walk.dir, k))
      /\ At(walk.curve, walk.start, walk.dir, k) \in 1 .. n
  BY <1>1, <1>2, <1>3, <1>4, <1>5, AlongFacts
<1>7. walk.at = At(walk.curve, walk.start, walk.dir, k) /\ walk.taken <= Cardinality(A[k])
  BY <1>3 DEF Along3
<1>8. A[k] = Here BY <1>6, <1>7 DEF Here
<1>9. A[k] \in SUBSET Free /\ Free \in SUBSET Nodes
  BY <1>1, <1>2, <1>4, <1>6, CurveFacts
<1>10. N \in Nat BY <1>4, Call
<1>11. Cardinality(A[k]) \in 0 .. N
  <2>1. A[k] \in SUBSET (1 .. N) BY <1>9 DEF Nodes
  <2>2. IsFiniteSet(1 .. N) /\ Cardinality(1 .. N) = N BY <1>10, FS_Interval
  <2>3. Cardinality(A[k]) <= N BY <2>1, <2>2, FS_Subset
  <2>4. Cardinality(A[k]) \in Nat
    <3>1. A[k] \in SUBSET Nodes BY <1>9
    <3> QED BY <1>10, <3>1, FiniteNodes
  <2> QED BY <1>10, <2>3, <2>4
<1>12. walk.taken \in 0 .. Cardinality(A[k]) BY <1>5, <1>7, <1>10, <1>11
<1> QED BY <1>1, <1>2, <1>3, <1>4, <1>5, <1>6, <1>7, <1>8, <1>9, <1>11, <1>12

\* It goes on along the same curve.
LEMMA SameWalk ==
    ASSUME request' = request, walk.curve' = walk.curve, walk.start' = walk.start, walk.dir' = walk.dir
    PROVE  /\ Curve(walk.curve)' = Curve(walk.curve)
           /\ Along(walk.curve, walk.start, walk.dir)' = Along(walk.curve, walk.start, walk.dir)
           /\ \A k : At(walk.curve, walk.start, walk.dir, k)' = At(walk.curve, walk.start, walk.dir, k)
<1>1. Free' = Free BY SameCurves
<1>2. Curve(walk.curve)' = Curve(walk.curve) BY DEF Curve
<1>3. \A k : At(walk.curve, walk.start, walk.dir, k)' = At(walk.curve, walk.start, walk.dir, k)
  BY <1>2 DEF At
<1>4. \A i : FreeAt(walk.curve, i)' = FreeAt(walk.curve, i)
  BY <1>1, <1>2 DEF FreeAt, FreeOn, Under
<1>5. \A k : FreeAt(walk.curve, At(walk.curve, walk.start, walk.dir, k))'
                = FreeAt(walk.curve, At(walk.curve, walk.start, walk.dir, k))
  BY <1>3, <1>4 DEF FreeAt, FreeOn, Under, Free, Curve
<1> QED BY <1>2, <1>3, <1>5 DEF Along

\* A round of the walk that takes a node.
LEMMA TakeNextStep ==
    ASSUME OnCube, TakeNext PROVE CubeTypeOK' /\ CubeInv'
<1>0. /\ pc = "walk" /\ pc' = "walk" /\ maxNodes > 0 /\ Wanting /\ ~UsedUp
      /\ request' = request /\ table' = table /\ left' = left /\ rc' = rc
      /\ leaves' = leaves /\ leafCount' = leafCount /\ bestSwitch' = bestSwitch
      /\ remNodes' = remNodes - 1 /\ maxNodes' = maxNodes - 1
      /\ walk' = [walk EXCEPT !.taken = @ + 1]
  BY DEF TakeNext, Walking, leafVars
<1>1. PICK m \in Here :
          /\ Cardinality({k \in Here : k < m}) = walk.taken
          /\ bitmap' = bitmap \cup {m}
          /\ remCpus' = remCpus - request.cpus[m]
  BY DEF TakeNext
<1>2. PICK A, n, k :
              /\ A = Along(walk.curve, walk.start, walk.dir) /\ n = Len(Curve(walk.curve))
              /\ n \in Nat /\ k \in 0 .. n - 1 /\ Separate(A, n) /\ Along3(A, n, k)
              /\ walk.curve \in DOMAIN request.curves /\ walk.start \in DOMAIN Curve(walk.curve)
              /\ walk \in [curve : Nat, start : Nat, dir : {1, -1}, at : Nat, taken : 0 .. N]
              /\ A[k] = Here /\ A[k] \in SUBSET Free
              /\ walk.taken \in 0 .. Cardinality(A[k]) /\ Cardinality(A[k]) \in 0 .. N
  BY <1>0, Underway
<1>3. PICK t : t = walk.taken OBVIOUS
<1>4. /\ N \in Nat /\ request \in Requests /\ request.avail \in SUBSET Nodes
      /\ request.required \in SUBSET Nodes
      /\ bitmap \in SUBSET Nodes /\ bitmap \in SUBSET request.avail /\ request.required \subseteq bitmap
      /\ remNodes \in Int /\ remCpus \in Int /\ maxNodes \in Nat
      /\ Cardinality(bitmap) \in Nat
      /\ CpusOf(Noticed) \in Nat /\ CpusOf(bitmap \ request.required) \in Nat
      /\ request.reqNodes \in Nat /\ request.maxNodes \in Nat /\ request.minCpus \in Nat
      /\ remNodes = request.reqNodes - Cardinality(bitmap)
      /\ remCpus = request.minCpus - CpusOf(Noticed) - CpusOf(bitmap \ request.required)
      /\ maxNodes = request.maxNodes - Cardinality(bitmap)
      /\ TopoTypeOK
  BY <1>0, CubeNumbers
<1>5. /\ walk.at = At(walk.curve, walk.start, walk.dir, k)
      /\ bitmap = request.required \cup Part(A, k, t)
      /\ InReach(A, n, k, t)
  BY <1>2, <1>3 DEF Along3
<1>6. t \in 0 .. Cardinality(A[k]) /\ t \in Nat /\ t # Cardinality(A[k]) /\ t \in 0 .. N
      /\ Cardinality(A[k]) \in Nat
  BY <1>0, <1>2, <1>3 DEF UsedUp
<1>7. m \notin FirstOf(A[k], t) /\ FirstOf(A[k], t + 1) = FirstOf(A[k], t) \cup {m} /\ m \in A[k] /\ m \in Free
  <2>1. A[k] \in SUBSET Nodes BY <1>2, GatheredNext
  <2>2. m \in A[k] /\ Cardinality({j \in A[k] : j < m}) = t BY <1>1, <1>2, <1>3
  <2>3. PICK S : S = A[k] OBVIOUS
  <2>4. S \in SUBSET Nodes /\ m \in S /\ Cardinality({j \in S : j < m}) = t BY <2>1, <2>2, <2>3
  <2>5. request \in Requests /\ t \in Nat BY <1>4, <1>6
  <2>6. m \notin FirstOf(S, t) /\ FirstOf(S, t + 1) = FirstOf(S, t) \cup {m}
    BY <2>4, <2>5, FirstOfNext
  <2>7. m \in Free BY <1>2, <2>2
  <2> QED BY <2>2, <2>3, <2>6, <2>7
<1>8. Part(A, k, t + 1) = Part(A, k, t) \cup {m} BY <1>7 DEF Part
<1>9. m \notin Part(A, k, t)
  <2>1. Gathered(A, k) \cap A[k] = {} BY <1>2, GatheredNext
  <2> QED BY <1>7, <2>1 DEF Part
<1>10. m \in request.avail /\ m \notin request.required /\ m \in Nodes BY <1>4, <1>7 DEF Free
<1>11. m \in Nodes \ bitmap BY <1>5, <1>9, <1>10
<1>12. Part(A, k, t) \in SUBSET Nodes /\ Part(A, k, t) \cap request.required = {}
  <2>1. Part(A, k, t) \in SUBSET bitmap BY <1>5
  <2>2. Part(A, k, t) \in SUBSET Free
    <3>1. Gathered(A, k) \subseteq Free
      <4> SUFFICES ASSUME NEW x \in Gathered(A, k) PROVE x \in Free OBVIOUS
      <4>1. PICK j \in 0 .. k - 1 : x \in A[j] BY DEF Gathered
      <4>2. j \in 0 .. n - 1 BY <1>2
      <4>3. x \in Gathered(A, n) BY <4>1, <4>2 DEF Gathered
      <4>4. Gathered(A, n) = Free
        <5>1. walk.dir \in {1, -1} BY <1>2
        <5> QED BY <1>2, <5>1, AlongFacts DEF OnCube
      <4> QED BY <4>3, <4>4
    <3>2. FirstOf(A[k], t) \subseteq A[k] BY DEF FirstOf
    <3> QED BY <1>2, <3>1, <3>2 DEF Part
  <2> QED BY <1>4, <2>1, <2>2 DEF Free
<1>13. /\ Cardinality(bitmap \cup {m}) = Cardinality(bitmap) + 1
       /\ Cardinality(Part(A, k, t + 1)) = Cardinality(Part(A, k, t)) + 1
       /\ CpusOf(Part(A, k, t + 1)) = CpusOf(Part(A, k, t)) + request.cpus[m]
       /\ CpusOf((bitmap \ request.required) \cup {m}) = CpusOf(bitmap \ request.required) + request.cpus[m]
  <2>1. bitmap \ request.required \in SUBSET Nodes /\ m \in Nodes \ (bitmap \ request.required)
    BY <1>4, <1>11
  <2>2. m \in Nodes \ Part(A, k, t) BY <1>9, <1>10
  <2>3. request \in Requests /\ bitmap \in SUBSET Nodes BY <1>4
  <2>4. Cardinality(bitmap \cup {m}) = Cardinality(bitmap) + 1 BY <1>11, <2>3, NodeJoins
  <2>5. PICK P : P = Part(A, k, t) OBVIOUS
  <2>6. P \in SUBSET Nodes /\ m \in Nodes \ P BY <1>12, <2>2, <2>5
  <2>7. Cardinality(P \cup {m}) = Cardinality(P) + 1 BY <2>3, <2>6, NodeJoins
  <2>8. CpusOf(P \cup {m}) = CpusOf(P) + request.cpus[m] BY <2>3, <2>6, NodeJoins
  <2>9. PICK R : R = bitmap \ request.required OBVIOUS
  <2>10. R \in SUBSET Nodes /\ m \in Nodes \ R BY <2>1, <2>9
  <2>11. CpusOf(R \cup {m}) = CpusOf(R) + request.cpus[m] BY <2>3, <2>10, NodeJoins
  <2> QED BY <1>8, <2>4, <2>5, <2>7, <2>8, <2>9, <2>11
<1>14. request.cpus[m] \in Nat BY <1>4, <1>10, Call
<1>15. /\ Cardinality(Part(A, k, t)) \in Nat /\ CpusOf(Part(A, k, t)) \in Nat
  BY <1>4, <1>12, FiniteNodes, SomeCpus
<1>16. bitmap' \in SUBSET Nodes /\ remNodes' \in Int /\ remCpus' \in Int /\ maxNodes' \in Nat
  BY <1>0, <1>1, <1>4, <1>10, <1>14
<1>17. walk' = [curve |-> walk.curve, start |-> walk.start, dir |-> walk.dir, at |-> walk.at, taken |-> t + 1]
  BY <1>0, <1>2, <1>3
<1>18. CubeTypeOK'
  <2>1. TopoTypeOK' BY <1>0, <1>4, <1>16 DEF TopoTypeOK, TypeOK
  <2>2. t + 1 \in 0 .. N BY <1>2, <1>4, <1>6
  <2>3. walk.curve \in Nat /\ walk.start \in Nat /\ walk.dir \in {1, -1} /\ walk.at \in Nat BY <1>2
  <2> QED BY <1>17, <2>1, <2>2, <2>3 DEF CubeTypeOK
<1>19. CubeCounts'
  <2>1. CpusOf(Noticed)' = CpusOf(Noticed) BY <1>0, SameCurves DEF CpusOf
  <2>2. bitmap' \ request.required = (bitmap \ request.required) \cup {m} BY <1>1, <1>10
  <2>3. CpusOf(bitmap \ request.required)' = CpusOf(bitmap \ request.required) + request.cpus[m]
    BY <1>0, <1>13, <2>2 DEF CpusOf
  <2>4. remCpus' = request.minCpus - CpusOf(Noticed) - (CpusOf(bitmap \ request.required) + request.cpus[m])
    BY <1>1, <1>4, <1>14
  <2>5. /\ remNodes' = request.reqNodes - Cardinality(bitmap')
        /\ maxNodes' = request.maxNodes - Cardinality(bitmap')
    BY <1>0, <1>1, <1>4, <1>13
  <2>6. request.required \subseteq bitmap' /\ bitmap' \subseteq request.avail BY <1>1, <1>4, <1>10
  <2> QED BY <1>0, <2>1, <2>3, <2>4, <2>5, <2>6 DEF CubeCounts
<1>20. InReach(A, n, k, t + 1)'
  <2> DEFINE Good(K, T) ==
              /\ k = K => t < T
              /\ Cardinality(Part(A, K, T)) <= maxNodes + Cardinality(Part(A, k, t))
              /\ Cardinality(Part(A, K, T)) >= remNodes + Cardinality(Part(A, k, t))
              /\ CpusOf(Part(A, K, T)) >= remCpus + CpusOf(Part(A, k, t))
  <2>1. \E K \in k .. n - 1 : \E T \in 0 .. Cardinality(A[K]) : Good(K, T)
    BY <1>0, <1>2, <1>4, <1>5, <1>6, NotThere
  <2>2. PICK K \in k .. n - 1 : \E T \in 0 .. Cardinality(A[K]) : Good(K, T) BY <2>1
  <2>3. PICK T \in 0 .. Cardinality(A[K]) : Good(K, T) BY <2>2
  <2>4. T \in Nat
    <3>1. K \in 0 .. n - 1 BY <1>2
    <3>2. A[K] \in SUBSET Nodes BY <1>2, <3>1, GatheredNext
    <3>3. Cardinality(A[K]) \in Nat BY <1>4, <3>2, FiniteNodes
    <3> QED BY <3>3
  <2>5. k = K => t + 1 <= T BY <1>6, <2>3, <2>4
  <2>6. maxNodes' + Cardinality(Part(A, k, t + 1)) = maxNodes + Cardinality(Part(A, k, t))
    BY <1>0, <1>4, <1>13, <1>15
  <2>7. remNodes' + Cardinality(Part(A, k, t + 1)) = remNodes + Cardinality(Part(A, k, t))
    BY <1>0, <1>4, <1>13, <1>15
  <2>8. remCpus' + CpusOf(Part(A, k, t + 1)) = remCpus + CpusOf(Part(A, k, t))
    BY <1>1, <1>4, <1>13, <1>14, <1>15
  <2>9. \A S : CpusOf(S)' = CpusOf(S) BY <1>0 DEF CpusOf
  <2>10. /\ Cardinality(Part(A, K, T)) <= maxNodes' + Cardinality(Part(A, k, t + 1))
         /\ Cardinality(Part(A, K, T)) >= remNodes' + Cardinality(Part(A, k, t + 1))
         /\ CpusOf(Part(A, K, T)) >= remCpus' + CpusOf(Part(A, k, t + 1))
    BY <2>3, <2>6, <2>7, <2>8
  <2>11. /\ CpusOf(Part(A, K, T))' = CpusOf(Part(A, K, T))
         /\ CpusOf(Part(A, k, t + 1))' = CpusOf(Part(A, k, t + 1))
    BY <1>0 DEF CpusOf
  <2> HIDE DEF Good
  <2> QED BY <2>3, <2>5, <2>10, <2>11 DEF InReach
<1>21. WalkInv'
  <2>1. /\ walk'.curve = walk.curve /\ walk'.start = walk.start /\ walk'.dir = walk.dir
        /\ walk'.at = walk.at /\ walk'.taken = t + 1
    BY <1>17
  <2>2. /\ Curve(walk.curve)' = Curve(walk.curve)
        /\ Along(walk.curve, walk.start, walk.dir)' = Along(walk.curve, walk.start, walk.dir)
        /\ At(walk.curve, walk.start, walk.dir, k)' = At(walk.curve, walk.start, walk.dir, k)
    BY <1>0, <2>1, SameWalk
  <2>3. t + 1 <= Cardinality(A[k]) BY <1>6
  <2>4. bitmap' = request'.required \cup Part(A, k, t + 1) BY <1>0, <1>1, <1>5, <1>8
  <2>5. Along3(A, n, k)' BY <1>5, <1>20, <2>1, <2>2, <2>3, <2>4 DEF Along3
  <2> QED BY <1>0, <1>2, <2>1, <2>2, <2>5 DEF WalkInv
<1>22. WalkedInv' BY <1>0 DEF WalkedInv
<1> QED BY <1>18, <1>19, <1>21, <1>22 DEF CubeInv

\* At the end of a switch the walk is a whole part of the row further.
LEMMA SwitchDone ==
    ASSUME OnCube, pc = "walk", Wanting, UsedUp
    PROVE  /\ maxNodes > 0
           /\ \E A, n, k :
              /\ A = Along(walk.curve, walk.start, walk.dir) /\ n = Len(Curve(walk.curve))
              /\ n \in Nat /\ k \in 0 .. n - 2 /\ k + 1 \in 0 .. n - 1 /\ Separate(A, n)
              /\ walk.curve \in DOMAIN request.curves /\ walk.start \in DOMAIN Curve(walk.curve)
              /\ walk.start \in 1 .. n /\ walk.dir \in {1, -1}
              /\ walk.at = Place3(n, walk.start, walk.dir, k)
              /\ Place3(n, walk.start, walk.dir, k + 1) \in 1 .. n
              /\ At(walk.curve, walk.start, walk.dir, k + 1) = Place3(n, walk.start, walk.dir, k + 1)
              /\ Part(A, k + 1, 0) = Part(A, k, walk.taken)
              /\ bitmap = request.required \cup Part(A, k + 1, 0)
              /\ InReach(A, n, k + 1, 0)
<1>1. PICK A, n, k :
              /\ A = Along(walk.curve, walk.start, walk.dir) /\ n = Len(Curve(walk.curve))
              /\ n \in Nat /\ k \in 0 .. n - 1 /\ Separate(A, n) /\ Along3(A, n, k)
              /\ walk.curve \in DOMAIN request.curves /\ walk.start \in DOMAIN Curve(walk.curve)
              /\ walk.start \in 1 .. n /\ walk.dir \in {1, -1}
              /\ A[k] = Here
              /\ walk.taken \in 0 .. Cardinality(A[k])
              /\ walk.at = Place3(n, walk.start, walk.dir, k)
              /\ \A j : At(walk.curve, walk.start, walk.dir, j) = Place3(n, walk.start, walk.dir, j)
  BY Underway
<1>2. PICK t : t = walk.taken OBVIOUS
<1>3. t = Cardinality(A[k]) /\ t \in 0 .. Cardinality(A[k]) BY <1>1, <1>2 DEF UsedUp
<1>4. /\ request \in Requests /\ N \in Nat
      /\ remNodes \in Int /\ remCpus \in Int /\ maxNodes \in Nat
  BY CubeNumbers
<1>5. InReach(A, n, k, t) /\ bitmap = request.required \cup Part(A, k, t)
  BY <1>1, <1>2 DEF Along3
<1> DEFINE Good(K, T) ==
                 /\ k = K => t < T
                 /\ Cardinality(Part(A, K, T)) <= maxNodes + Cardinality(Part(A, k, t))
                 /\ Cardinality(Part(A, K, T)) >= remNodes + Cardinality(Part(A, k, t))
                 /\ CpusOf(Part(A, K, T)) >= remCpus + CpusOf(Part(A, k, t))
<1>6. maxNodes > 0 /\ \E K \in k .. n - 1 : \E T \in 0 .. Cardinality(A[K]) : Good(K, T)
  BY <1>1, <1>3, <1>4, <1>5, NotThere
<1>7. PICK K \in k .. n - 1 : \E T \in 0 .. Cardinality(A[K]) : Good(K, T) BY <1>6
<1>8. PICK T \in 0 .. Cardinality(A[K]) : Good(K, T) BY <1>7
<1>9. Cardinality(A[k]) \in Nat BY <1>1, <1>4, PartSize
<1>10. k # K
  <2> SUFFICES ASSUME k = K PROVE FALSE OBVIOUS
  <2>1. T \in 0 .. t BY <1>3
  <2>2. t < T BY <1>8
  <2> QED BY <1>3, <1>9, <2>1, <2>2
<1>11. k \in 0 .. n - 2 /\ k + 1 \in 0 .. n - 1 /\ K \in k + 1 .. n - 1 BY <1>1, <1>10
<1>12. Part(A, k + 1, 0) = Part(A, k, t)
  <2>1. Part(A, k, t) = Gathered(A, k + 1)
    <3>1. Part(A, k, Cardinality(A[k])) = Gathered(A, k + 1) BY <1>1, <1>4, PartSize
    <3> QED BY <1>3, <3>1
  <2>2. Part(A, k + 1, 0) = Gathered(A, k + 1) BY <1>1, <1>4, <1>11, PartSize
  <2> QED BY <2>1, <2>2
<1>13. InReach(A, n, k + 1, 0)
  <2>1. k + 1 = K => 0 <= T
    <3>1. K \in 0 .. n - 1 BY <1>1
    <3>2. Cardinality(A[K]) \in Nat BY <1>1, <1>4, <3>1, PartSize
    <3> QED BY <3>2
  <2>2. /\ Cardinality(Part(A, K, T)) <= maxNodes + Cardinality(Part(A, k + 1, 0))
        /\ Cardinality(Part(A, K, T)) >= remNodes + Cardinality(Part(A, k + 1, 0))
        /\ CpusOf(Part(A, K, T)) >= remCpus + CpusOf(Part(A, k + 1, 0))
    BY <1>8, <1>12
  <2> HIDE DEF Good
  <2> QED BY <1>11, <2>1, <2>2 DEF InReach
<1>14. Place3(n, walk.start, walk.dir, k + 1) \in 1 .. n
  <2>1. ComesByAll(n, walk.start, walk.dir) BY <1>1, Round
  <2> QED BY <1>11, <2>1 DEF ComesByAll
<1> HIDE DEF Good
<1> QED BY <1>1, <1>2, <1>5, <1>6, <1>11, <1>12, <1>13, <1>14

\* A round of the walk that goes on to the next switch.
LEMMA MoveOnStep ==
    ASSUME OnCube, MoveOn PROVE CubeTypeOK' /\ CubeInv'
<1>0. /\ pc = "walk" /\ pc' = "walk" /\ Wanting /\ UsedUp
      /\ request' = request /\ bitmap' = bitmap /\ table' = table /\ left' = left /\ rc' = rc
      /\ remNodes' = remNodes /\ remCpus' = remCpus /\ maxNodes' = maxNodes
      /\ leaves' = leaves /\ leafCount' = leafCount /\ bestSwitch' = bestSwitch
  BY DEF MoveOn, Walking, leafVars
<1>1. PICK A, n, k :
              /\ A = Along(walk.curve, walk.start, walk.dir) /\ n = Len(Curve(walk.curve))
              /\ n \in Nat /\ k \in 0 .. n - 2 /\ k + 1 \in 0 .. n - 1 /\ Separate(A, n)
              /\ walk.curve \in DOMAIN request.curves /\ walk.start \in DOMAIN Curve(walk.curve)
              /\ walk.start \in 1 .. n /\ walk.dir \in {1, -1}
              /\ walk.at = Place3(n, walk.start, walk.dir, k)
              /\ Place3(n, walk.start, walk.dir, k + 1) \in 1 .. n
              /\ At(walk.curve, walk.start, walk.dir, k + 1) = Place3(n, walk.start, walk.dir, k + 1)
              /\ bitmap = request.required \cup Part(A, k + 1, 0)
              /\ InReach(A, n, k + 1, 0)
  BY <1>0, SwitchDone
<1>2. /\ N \in Nat /\ request \in Requests /\ TopoTypeOK
  BY <1>0, CubeNumbers
<1>3. walk \in [curve : Nat, start : Nat, dir : {1, -1}, at : Nat, taken : 0 .. N]
  BY DEF OnCube, CubeTypeOK
<1>4. PICK next : next = walk.at + walk.dir OBVIOUS
<1>5. PICK a : a = IF next > n THEN 1 ELSE IF next < 1 THEN n ELSE next OBVIOUS
<1>6. walk' = [walk EXCEPT !.taken = 0, !.at = a] BY <1>1, <1>4, <1>5 DEF MoveOn
<1>7. walk' = [curve |-> walk.curve, start |-> walk.start, dir |-> walk.dir, at |-> a, taken |-> 0]
  BY <1>3, <1>6
<1>8. a = Place3(n, walk.start, walk.dir, k + 1) BY <1>1, <1>4, <1>5, RoundStep
<1>9. CubeTypeOK'
  <2>1. TopoTypeOK' BY <1>0, <1>2 DEF TopoTypeOK, TypeOK
  <2>2. walk.curve \in Nat /\ walk.start \in Nat /\ walk.dir \in {1, -1} BY <1>3
  <2>3. a \in Nat /\ 0 \in 0 .. N BY <1>1, <1>2, <1>8
  <2> QED BY <1>7, <2>1, <2>2, <2>3 DEF CubeTypeOK
<1>10. CubeCounts'
  <2>1. CpusOf(Noticed)' = CpusOf(Noticed) BY <1>0, SameCurves DEF CpusOf
  <2>2. CpusOf(bitmap \ request.required)' = CpusOf(bitmap \ request.required) BY <1>0 DEF CpusOf
  <2> QED BY <1>0, <2>1, <2>2 DEF OnCube, CubeInv, CubeCounts
<1>11. WalkInv'
  <2>1. /\ walk'.curve = walk.curve /\ walk'.start = walk.start /\ walk'.dir = walk.dir
        /\ walk'.at = a /\ walk'.taken = 0
    BY <1>7
  <2>2. /\ Curve(walk.curve)' = Curve(walk.curve)
        /\ Along(walk.curve, walk.start, walk.dir)' = Along(walk.curve, walk.start, walk.dir)
        /\ At(walk.curve, walk.start, walk.dir, k + 1)' = At(walk.curve, walk.start, walk.dir, k + 1)
    BY <1>0, <2>1, SameWalk
  <2>3. 0 <= Cardinality(A[k + 1])
    <3>1. Cardinality(A[k + 1]) \in Nat BY <1>1, <1>2, PartSize
    <3> QED BY <3>1
  <2>4. InReach(A, n, k + 1, 0)'
    <3>1. \A S : CpusOf(S)' = CpusOf(S) BY <1>0 DEF CpusOf
    <3> QED BY <1>0, <1>1, <3>1 DEF InReach
  <2>5. Along3(A, n, k + 1)' BY <1>0, <1>1, <1>8, <2>1, <2>2, <2>3, <2>4 DEF Along3
  <2> QED BY <1>0, <1>1, <2>1, <2>2, <2>5 DEF WalkInv
<1>12. WalkedInv' BY <1>0 DEF WalkedInv
<1> QED BY <1>9, <1>10, <1>11, <1>12 DEF CubeInv

\* A walk ends when nothing is wanted any more.
LEMMA EndWalkStep ==
    ASSUME OnCube, EndWalk PROVE CubeTypeOK' /\ CubeInv'
<1>0. /\ pc = "walk" /\ pc' = "walked" /\ (~Walking \/ (UsedUp /\ walk.at + walk.dir = walk.start))
      /\ request' = request /\ bitmap' = bitmap /\ table' = table /\ left' = left /\ rc' = rc
      /\ remNodes' = remNodes /\ remCpus' = remCpus /\ maxNodes' = maxNodes
      /\ leaves' = leaves /\ leafCount' = leafCount /\ bestSwitch' = bestSwitch /\ walk' = walk
  BY DEF EndWalk, leafVars
<1>1. CubeTypeOK' BY <1>0 DEF OnCube, CubeTypeOK, TopoTypeOK, TypeOK
<1>2. CubeCounts'
  <2>1. CpusOf(Noticed)' = CpusOf(Noticed) BY <1>0, SameCurves DEF CpusOf
  <2>2. CpusOf(bitmap \ request.required)' = CpusOf(bitmap \ request.required) BY <1>0 DEF CpusOf
  <2> QED BY <1>0, <2>1, <2>2 DEF OnCube, CubeInv, CubeCounts
<1>3. WalkInv' BY <1>0 DEF WalkInv
<1>4. ~Wanting
  <2> SUFFICES ASSUME Wanting PROVE FALSE OBVIOUS
  <2>1. maxNodes > 0
    <3>1. PICK A, n, k :
              /\ n \in Nat /\ k \in 0 .. n - 1 /\ Separate(A, n) /\ Along3(A, n, k)
              /\ walk.taken \in 0 .. Cardinality(A[k])
      BY <1>0, Underway
    <3>2. InReach(A, n, k, walk.taken) BY <3>1 DEF Along3
    <3>3. /\ request \in Requests /\ remNodes \in Int /\ remCpus \in Int /\ maxNodes \in Nat
      BY <1>0, CubeNumbers
    <3> QED BY <3>1, <3>2, <3>3, NotThere
  <2>2. UsedUp /\ walk.at + walk.dir = walk.start BY <1>0, <2>1 DEF Walking
  <2>3. PICK n, k :
              /\ n \in Nat /\ k \in 0 .. n - 2
              /\ walk.start \in 1 .. n /\ walk.dir \in {1, -1}
              /\ walk.at = Place3(n, walk.start, walk.dir, k)
    BY <1>0, <2>2, SwitchDone
  <2>4. Place3(n, walk.start, walk.dir, k) + walk.dir # walk.start BY <2>3, RoundStep
  <2> QED BY <2>2, <2>3, <2>4
<1>5. remCpus <= 0 /\ Cardinality(bitmap) >= request.minNodes
  <2>1. /\ remNodes \in Int /\ remCpus \in Int /\ request.minNodes \in Nat /\ request.reqNodes \in Nat
        /\ request.minNodes <= request.reqNodes /\ Cardinality(bitmap) \in Nat
        /\ remNodes = request.reqNodes - Cardinality(bitmap)
    BY <1>0, CubeNumbers
  <2> QED BY <1>4, <2>1 DEF Wanting
<1>6. WalkedInv' BY <1>0, <1>5 DEF WalkedInv
<1> QED BY <1>1, <1>2, <1>3, <1>6 DEF CubeInv

\* A job gets what it asked for; who is turned away would not have fitted.
LEMMA CubeFinishPromises ==
    ASSUME OnCube, CubeFinish PROVE Promises'
<1>0. /\ pc = "walked" /\ request' = request /\ bitmap' = bitmap
      /\ rc' = IF remCpus <= 0 /\ Cardinality(bitmap) >= request.minNodes THEN "success" ELSE "EINVAL"
  BY DEF CubeFinish
<1>1. request.network = "hypercube" BY DEF OnCube
<1>2. /\ N \in Nat /\ request \in Requests /\ request.avail \in SUBSET Nodes
      /\ bitmap \in SUBSET Nodes /\ bitmap \in SUBSET request.avail
      /\ request.required \subseteq bitmap
      /\ remCpus \in Int /\ maxNodes \in Nat
      /\ Cardinality(bitmap) \in Nat /\ CpusOf(bitmap) \in Nat
      /\ CpusOf(Noticed) \in Nat /\ CpusOf(Noticed) <= CpusOf(request.required)
      /\ CpusOf(request.required) \in Nat /\ CpusOf(bitmap \ request.required) \in Nat
      /\ CpusOf(bitmap) = CpusOf(request.required) + CpusOf(bitmap \ request.required)
      /\ request.minNodes \in Nat /\ request.reqNodes \in Nat /\ request.maxNodes \in Nat
      /\ request.minCpus \in Nat
      /\ remCpus = request.minCpus - CpusOf(Noticed) - CpusOf(bitmap \ request.required)
      /\ maxNodes = request.maxNodes - Cardinality(bitmap)
  BY <1>0, CubeNumbers
<1>3. Unlike' = Unlike /\ \A S : WouldDo(S)' = WouldDo(S) BY <1>0, SameCall
<1>4. CpusOf(bitmap)' = CpusOf(bitmap) BY <1>0 DEF CpusOf
<1>5. GetsWhatItAsked'
  <2> SUFFICES ASSUME rc' = "success" PROVE WouldDo(bitmap)'
    BY DEF GetsWhatItAsked, Success
  <2>1. remCpus <= 0 /\ request.minNodes <= Cardinality(bitmap) BY <1>0, <1>2
  <2>2. CpusOf(bitmap) >= request.minCpus /\ Cardinality(bitmap) <= request.maxNodes BY <1>2, <2>1
  <2> QED BY <1>0, <1>2, <1>4, <2>1, <2>2 DEF WouldDo
<1>6. NeverTurnedAway'
  <2> SUFFICES ASSUME rc' = "EINVAL", ~Unlike, request.required = {},
                      request.reqNodes <= Cardinality(request.avail),
                      NEW S \in SUBSET request.avail, WouldDo(S)
               PROVE  FALSE
    BY <1>0, <1>1, <1>3 DEF NeverTurnedAway
  <2>1. ~(remCpus <= 0 /\ Cardinality(bitmap) >= request.minNodes) BY <1>0
  <2>2. Cardinality(request.avail) \in Nat BY <1>2, FiniteNodes
  <2>3. \/ remCpus <= 0 /\ Cardinality(bitmap) >= request.minNodes
        \/ Unlike \/ request.required # {}
        \/ request.reqNodes > Cardinality(request.avail)
        \/ \A P \in SUBSET request.avail : ~WouldDo(P)
    BY <1>0 DEF OnCube, CubeInv, WalkedInv
  <2>4. ~(request.reqNodes > Cardinality(request.avail)) BY <1>2, <2>2
  <2> QED BY <2>1, <2>3, <2>4
<1> QED BY <1>0, <1>1, <1>5, <1>6
        DEF Promises, SmallestSet, InARow, LowestSwitch, FewSwitches, Leafy

\* All usable nodes are what a job that asks for no CPUs may have; no other is
\* promised anything if it wishes for more.
LEMMA CubeGiveUpPromises ==
    ASSUME request \in Requests, CubeGiveUp PROVE Promises'
<1>0. /\ request' = request /\ bitmap' = request.avail /\ request.network = "hypercube"
      /\ Cardinality(request.avail) < request.reqNodes /\ Usable
      /\ rc' = IF request.minCpus = 0 THEN "success" ELSE "EINVAL"
  BY DEF CubeGiveUp
<1>1. /\ Cardinality(request.avail) \in Nat /\ CpusOf(request.avail) \in Nat
      /\ request.reqNodes \in Nat /\ request.maxNodes \in Nat /\ request.reqNodes <= request.maxNodes
  BY Call, FiniteNodes, SomeCpus
<1>2. ~(request.reqNodes <= Cardinality(request.avail)) BY <1>0, <1>1
<1>3. NeverTurnedAway' BY <1>0, <1>2 DEF NeverTurnedAway
<1>4. GetsWhatItAsked'
  <2>1. CASE request.minCpus = 0
    <3>1. Cardinality(request.avail) <= request.maxNodes /\ CpusOf(request.avail) >= 0
      BY <1>0, <1>1
    <3>2. WouldDo(bitmap)' BY <1>0, <2>1, <3>1 DEF WouldDo, CpusOf, Usable
    <3> QED BY <3>2 DEF GetsWhatItAsked
  <2>2. CASE request.minCpus # 0 BY <1>0, <2>2 DEF GetsWhatItAsked, Success
  <2> QED BY <2>1, <2>2
<1> QED BY <1>0, <1>3, <1>4
        DEF Promises, SmallestSet, InARow, LowestSwitch, FewSwitches, Success, Leafy

-----------------------------------------------------------------------------
(* Every call *)

\* Each loop keeps its own part of the invariant, the others say nothing there.
IInv ==
    /\ CubeTypeOK /\ CallInv
    /\ RowInv /\ LeafyInv /\ CubeInv
    /\ Promises

\* Each part of the invariant speaks of the loops of its own kind of network.
LEMMA Elsewhere ==
    /\ pc' \notin {"highest", "sets", "finish"} => RowInv'
    /\ pc' \notin {"begin", "required", "leaves"} => LeafyInv'
    /\ pc' \notin {"explore", "walk", "walked"} => CubeInv'
<1>1. ASSUME pc' \notin {"highest", "sets", "finish"} PROVE RowInv'
  BY <1>1 DEF RowInv, RowCounts, HighestInv, UsableInv, SetsInv, FinishInv
<1>2. ASSUME pc' \notin {"begin", "required", "leaves"} PROVE LeafyInv'
  BY <1>2 DEF LeafyInv, BestInv, LeavesInv, FewInv
<1>3. ASSUME pc' \notin {"explore", "walk", "walked"} PROVE CubeInv'
  BY <1>3 DEF CubeInv, CubeCounts, WalkInv, WalkedInv
<1> QED BY <1>1, <1>2, <1>3

\* The call stays the same.
LEMMA CallKept ==
    ASSUME CallInv, request' = request,
           pc' \in {"highest", "sets", "finish"} => request.network = "row",
           pc' \in {"required", "leaves"} => Leafy,
           pc' \in {"explore", "walk", "walked"} => request.network = "hypercube",
           pc' \notin {"begin", "done"} => Usable
    PROVE  CallInv'
BY DEF CallInv, Leafy, Usable

\* The types on a row.
LEMMA RowTypes ==
    ASSUME request \in Requests, CubeTypeOK, Next, UNCHANGED <<leafVars, walk>>,
           pc \in {"highest", "sets", "finish"} => RowInv /\ Usable
    PROVE  CubeTypeOK'
<1>0. /\ TopoTypeOK /\ TypeOK /\ leaves' = leaves /\ leafCount' = leafCount
      /\ bestSwitch' = bestSwitch /\ walk' = walk
  BY DEF CubeTypeOK, TopoTypeOK, leafVars
<1>1. SUFFICES TypeOK' BY <1>0 DEF CubeTypeOK, TopoTypeOK
<1>2. CASE Refuse BY <1>0, <1>2 DEF Refuse, TypeOK
<1>3. CASE BuildTable
  <2>1. /\ request.required \in SUBSET Nodes /\ request.avail \in SUBSET Nodes /\ N \in Nat
        /\ request.cpus \in [Nodes -> Nat] /\ request.minCpus \in Nat
        /\ request.reqNodes \in Nat /\ request.maxNodes \in Nat /\ request.minNodes \in Nat
        /\ Cardinality(request.required) <= request.minNodes
        /\ request.minNodes <= request.reqNodes /\ request.reqNodes <= request.maxNodes
    BY Call
  <2>2. /\ bitmap' = request.required /\ table' = Table /\ request' = request /\ rc' = rc
        /\ remNodes' = request.reqNodes - Cardinality(request.required)
        /\ remCpus' = request.minCpus - CpusOf(request.required)
        /\ maxNodes' = request.maxNodes - Cardinality(request.required)
        /\ left' = [n \in Nodes |-> IF n \in request.avail THEN request.cpus[n] ELSE 0]
        /\ pc' \in {"highest", "sets"} /\ pc = "begin"
    BY <1>3, TakenRequired DEF BuildTable
  <2>3. CpusOf(request.required) \in Nat /\ Cardinality(request.required) \in Nat
    BY <2>1, SomeCpus, FiniteNodes
  <2>4. remNodes' \in Int /\ remCpus' \in Int /\ maxNodes' \in Nat BY <2>1, <2>2, <2>3
  <2>5. left' \in [Nodes -> Nat] BY <2>1, <2>2
  <2>6. DOMAIN table' \subseteq Nodes BY <2>1, <2>2 DEF Table, Starts
  <2> QED BY <1>0, <2>1, <2>2, <2>4, <2>5, <2>6 DEF TypeOK
<1>4. CASE TakeHighest
  <2>1. PICK n \in Nodes :
           /\ bitmap' = bitmap \cup {n}
           /\ remCpus' = remCpus - left[n]
           /\ left' = [left EXCEPT ![n] = 0]
    BY <1>4 DEF TakeHighest
  <2>2. /\ pc = "highest" /\ maxNodes > 0 /\ request' = request /\ pc' = pc /\ table' = table /\ rc' = rc
        /\ remNodes' = remNodes - 1 /\ maxNodes' = maxNodes - 1
    BY <1>4 DEF TakeHighest
  <2>3. left[n] \in Nat /\ remNodes \in Int /\ remCpus \in Int /\ maxNodes \in Nat BY <1>0 DEF TypeOK
  <2>4. remNodes' \in Int /\ remCpus' \in Int /\ maxNodes' \in Nat BY <2>1, <2>2, <2>3
  <2>5. left' \in [Nodes -> Nat] BY <1>0, <2>1 DEF TypeOK
  <2> QED BY <1>0, <2>1, <2>2, <2>4, <2>5 DEF TypeOK
<1>5. CASE EndHighest BY <1>0, <1>5 DEF EndHighest, TypeOK
<1>6. CASE AddSet
  <2>1. pc = "sets" BY <1>6 DEF AddSet
  <2>2. OnRow BY <1>0, <2>1 DEF OnRow
  <2>3. PICK F : F = FromSet(BestFit) OBVIOUS
  <2>4. /\ request' = request /\ bitmap' \in SUBSET request.avail
        /\ Cardinality(bitmap') \in Nat /\ CpusOf(bitmap') \in Nat /\ maxNodes' \in Nat
        /\ remNodes' = request.reqNodes - Cardinality(bitmap')
        /\ remCpus' = request.minCpus - CpusOf(bitmap')
    BY <2>2, <1>6, AddSetCounts
  <2>5. request.reqNodes \in Nat /\ request.minCpus \in Nat /\ request.avail \in SUBSET Nodes BY Call
  <2>6. remNodes' \in Int /\ remCpus' \in Int BY <2>4, <2>5
  <2>7. /\ left' = left
        /\ \/ pc' = "done" /\ rc' = "success" /\ table' = table
           \/ pc' = pc /\ rc' = rc /\ table' = [table EXCEPT ![BestFit].nodes = 0, ![BestFit].cpus = 0]
    BY <1>6 DEF AddSet, Spend
  <2>8. DOMAIN table' = DOMAIN table BY <2>7
  <2> QED BY <1>0, <2>1, <2>4, <2>5, <2>6, <2>7, <2>8 DEF TypeOK
<1>7. CASE EndSets BY <1>0, <1>7 DEF EndSets, TypeOK
<1>8. CASE Finish BY <1>0, <1>8 DEF Finish, TypeOK
<1> QED BY <1>2, <1>3, <1>4, <1>5, <1>6, <1>7, <1>8 DEF Next

\* Every call starts in the invariant.
LEMMA CubeInitInv == CubeInit => IInv
<1> SUFFICES ASSUME CubeInit PROVE IInv OBVIOUS
<1>1. /\ request \in Requests /\ pc = "begin" /\ rc = "none"
      /\ bitmap = {} /\ table = [n \in {} |-> NoNode] /\ left = [n \in Nodes |-> 0]
      /\ remNodes = 0 /\ remCpus = 0 /\ maxNodes = 0
      /\ leaves = <<>> /\ leafCount = 0 /\ bestSwitch \in BOOLEAN
      /\ walk = [curve |-> 1, start |-> 1, dir |-> 1, at |-> 1, taken |-> 0]
  BY DEF CubeInit, TopoInit, Init
<1>2. N \in Nat /\ request \in RequestType BY <1>1, JobTestAssumption
<1>3. TypeOK BY <1>1, <1>2 DEF TypeOK
<1>4. DOMAIN leaves = {} BY <1>1
<1>5. TopoTypeOK BY <1>1, <1>3, <1>4 DEF TopoTypeOK
<1>6. CubeTypeOK BY <1>1, <1>2, <1>5 DEF CubeTypeOK
<1>7. CallInv BY <1>1 DEF CallInv
<1>8. RowInv BY <1>1 DEF RowInv, RowCounts, HighestInv, UsableInv, SetsInv, FinishInv
<1>9. LeafyInv BY <1>1 DEF LeafyInv, BestInv, LeavesInv, FewInv
<1>10. CubeInv BY <1>1 DEF CubeInv, CubeCounts, WalkInv, WalkedInv
<1>11. Promises
  BY <1>1 DEF Promises, GetsWhatItAsked, NeverTurnedAway, SmallestSet, InARow, LowestSwitch, FewSwitches, Success
<1> QED BY <1>6, <1>7, <1>8, <1>9, <1>10, <1>11 DEF IInv

\* Nor is anything lost when nothing happens.
LEMMA SameState ==
    ASSUME CubeTypeOK, CallInv, RowInv, LeafyInv, CubeInv, Promises,
           request' = request, pc' = pc, bitmap' = bitmap, table' = table, left' = left,
           remNodes' = remNodes, remCpus' = remCpus, maxNodes' = maxNodes, rc' = rc,
           leaves' = leaves, leafCount' = leafCount, bestSwitch' = bestSwitch, walk' = walk
    PROVE  IInv'
<1>1. /\ Have' = Have /\ Unlike' = Unlike /\ Lowest' = Lowest /\ Able' = Able
      /\ Starts' = Starts /\ Table' = Table /\ OneSet' = OneSet
      /\ \A i : Record(i)' = Record(i) /\ Block(i)' = Block(i)
      /\ \A S : WouldDo(S)' = WouldDo(S) /\ CpusOf(S)' = CpusOf(S)
  BY SameCall
<1>2. CubeTypeOK' BY DEF CubeTypeOK, TopoTypeOK, TypeOK
<1>3. CallInv' BY CallKept DEF CallInv
<1>4. RowInv'
  <2>1. RowCounts' BY <1>1 DEF RowInv, RowCounts
  <2>2. HighestInv' BY <1>1 DEF RowInv, HighestInv
  <2>3. UsableInv' BY <1>1 DEF RowInv, UsableInv
  <2>4. SetsInv' BY <1>1 DEF RowInv, SetsInv
  <2>5. FinishInv'
    <3>1. Enough(0, remNodes)' = Enough(0, remNodes) BY DEF Enough
    <3> QED BY <1>1, <3>1 DEF RowInv, FinishInv
  <2> QED BY <2>1, <2>2, <2>3, <2>4, <2>5 DEF RowInv
<1>5. LeafyInv'
  <2>1. /\ Switches' = Switches /\ Tree' = Tree /\ Leafy' = Leafy
        /\ BestSwitch' = BestSwitch /\ SwitchLimit' = SwitchLimit
        /\ \A i : Level(i)' = Level(i) /\ Under(i)' = Under(i) /\ Holds(i)' = Holds(i)
                  /\ Below(i)' = Below(i)
        /\ \A i, j : Lower(i, j)' = Lower(i, j)
        /\ \A c : WithinLimit(c)' = WithinLimit(c)
    BY SameSwitches
  <2>2. BestInv' BY <1>1, <2>1 DEF LeafyInv, BestInv
  <2>3. LeavesInv'
    <3>1. More' = More BY DEF More, Wanting
    <3> QED BY <1>1, <2>1, <3>1 DEF LeafyInv, LeavesInv
  <2>4. FewInv' BY <2>1 DEF LeafyInv, FewInv
  <2> QED BY <2>2, <2>3, <2>4 DEF LeafyInv
<1>6. CubeInv'
  <2>1. CubeCounts'
    <3>1. CpusOf(Noticed)' = CpusOf(Noticed) BY SameCurves DEF CpusOf
    <3>2. CpusOf(bitmap \ request.required)' = CpusOf(bitmap \ request.required) BY DEF CpusOf
    <3> QED BY <3>1, <3>2 DEF CubeInv, CubeCounts
  <2>2. WalkInv'
    <3> SUFFICES ASSUME pc = "walk" PROVE WalkInv' BY DEF WalkInv
    <3>1. walk.curve \in DOMAIN request.curves /\ walk.start \in DOMAIN Curve(walk.curve)
      BY DEF CubeInv, WalkInv
    <3>2. PICK k \in 0 .. Len(Curve(walk.curve)) - 1 :
             Along3(Along(walk.curve, walk.start, walk.dir), Len(Curve(walk.curve)), k)
      BY DEF CubeInv, WalkInv
    <3>3. PICK A, n : A = Along(walk.curve, walk.start, walk.dir) /\ n = Len(Curve(walk.curve)) OBVIOUS
    <3>4. /\ Curve(walk.curve)' = Curve(walk.curve)
          /\ Along(walk.curve, walk.start, walk.dir)' = Along(walk.curve, walk.start, walk.dir)
          /\ At(walk.curve, walk.start, walk.dir, k)' = At(walk.curve, walk.start, walk.dir, k)
      BY SameWalk
    <3>5. InReach(A, n, k, walk.taken)' <=> InReach(A, n, k, walk.taken) BY <1>1 DEF InReach
    <3>6. Along3(A, n, k)' BY <3>2, <3>3, <3>4, <3>5 DEF Along3
    <3> QED BY <3>1, <3>2, <3>3, <3>4, <3>6 DEF WalkInv
  <2>3. WalkedInv' BY <1>1 DEF CubeInv, WalkedInv
  <2> QED BY <2>1, <2>2, <2>3 DEF CubeInv
<1>7. Promises'
  <2>1. /\ Success' = Success /\ Blocks' = Blocks /\ \A S : Joined(S)' = Joined(S)
    BY <1>1 DEF Success, Blocks, Joined
  <2>2. /\ Switches' = Switches /\ Leafy' = Leafy /\ SwitchLimit' = SwitchLimit
        /\ \A i : Level(i)' = Level(i) /\ Under(i)' = Under(i)
        /\ \A i, j : Lower(i, j)' = Lower(i, j)
    BY SameSwitches
  <2>3. GetsWhatItAsked' BY <1>1, <2>1 DEF Promises, GetsWhatItAsked
  <2>4. NeverTurnedAway' BY <1>1, <2>1 DEF Promises, NeverTurnedAway
  <2>5. SmallestSet' BY <1>1, <2>1 DEF Promises, SmallestSet
  <2>6. InARow' BY <1>1, <2>1 DEF Promises, InARow
  <2>7. LowestSwitch' BY <1>1, <2>1, <2>2 DEF Promises, LowestSwitch
  <2>8. FewSwitches' BY <2>1, <2>2 DEF Promises, FewSwitches
  <2> QED BY <2>3, <2>4, <2>5, <2>6, <2>7, <2>8 DEF Promises
<1> QED BY <1>2, <1>3, <1>4, <1>5, <1>6, <1>7 DEF IInv

\* Each step keeps its part of the invariant, and the last one the promises.
LEMMA NextInv == IInv /\ [CubeNext]_cubeVars => IInv'
<1> SUFFICES ASSUME IInv, [CubeNext]_cubeVars PROVE IInv' OBVIOUS
<1>1. /\ CubeTypeOK /\ CallInv /\ RowInv /\ LeafyInv /\ CubeInv /\ Promises
      /\ TopoTypeOK /\ TypeOK /\ FewInv /\ request \in Requests
  BY DEF IInv, CubeTypeOK, TopoTypeOK, LeafyInv, CallInv
<1>2. pc \in {"highest", "sets", "finish"} => request.network = "row" /\ Usable /\ OnRow
  BY <1>1 DEF CallInv, OnRow
<1>3. pc \in {"required", "leaves"} => Leafy /\ Usable /\ OnLeaves
  BY <1>1 DEF CallInv, OnLeaves
<1>4. pc \in {"explore", "walk", "walked"} => request.network = "hypercube" /\ Usable /\ OnCube
  BY <1>1 DEF CallInv, OnCube
<1>5. ASSUME CubeTypeOK', request' = request, CallInv', RowInv', LeafyInv', CubeInv',
             pc' # "done" \/ Promises'
      PROVE  IInv'
  <2>1. CASE Promises' BY <1>5, <2>1 DEF IInv
  <2>2. CASE pc' # "done"
    <3>1. rc' = "none" BY <1>5, <2>2 DEF CubeTypeOK, TopoTypeOK, TypeOK
    <3>2. Promises' BY <3>1, NoPromise
    <3> QED BY <1>5, <3>2 DEF IInv
  <2> QED BY <1>5, <2>1, <2>2
<1>6. CASE Next /\ UNCHANGED <<leafVars, walk>>
  <2>0. CubeTypeOK' BY <1>1, <1>2, <1>6, RowTypes
  <2>1. CASE Refuse
    <3>1. request' = request /\ pc' = "done" BY <2>1 DEF Refuse
    <3>2. CallInv' BY <1>1, <3>1, CallKept
    <3>3. Promises' BY <1>1, <2>1, RefusePromises
    <3> QED BY <1>5, <2>0, <3>1, <3>2, <3>3, Elsewhere
  <2>2. CASE BuildTable
    <3>1. request' = request /\ pc' \in {"highest", "sets"} /\ request.network = "row" /\ Usable
      BY <2>2 DEF BuildTable, Usable
    <3>2. CallInv' BY <1>1, <3>1, CallKept
    <3>3. RowInv' BY <1>1, <2>2, BuildTableStep
    <3> QED BY <1>5, <2>0, <3>1, <3>2, <3>3, Elsewhere
  <2>3. CASE TakeHighest
    <3>1. request' = request /\ pc = "highest" /\ pc' = "highest" BY <2>3 DEF TakeHighest
    <3>2. CallInv' BY <1>1, <1>2, <3>1, CallKept
    <3>3. RowInv' BY <1>2, <2>3, <3>1, TakeHighestStep
    <3> QED BY <1>5, <2>0, <3>1, <3>2, <3>3, Elsewhere
  <2>4. CASE EndHighest
    <3>1. request' = request /\ pc = "highest" /\ pc' = "finish" BY <2>4 DEF EndHighest
    <3>2. CallInv' BY <1>1, <1>2, <3>1, CallKept
    <3>3. RowInv' BY <1>2, <2>4, <3>1, EndHighestStep
    <3> QED BY <1>5, <2>0, <3>1, <3>2, <3>3, Elsewhere
  <2>5. CASE AddSet
    <3>1. request' = request /\ pc = "sets" /\ pc' \in {"sets", "done"} BY <2>5 DEF AddSet
    <3>2. CallInv' BY <1>1, <1>2, <3>1, CallKept
    <3>3. RowInv' BY <1>2, <2>5, <3>1, AddSetStep
    <3>4. pc' = "done" => Promises' BY <1>2, <2>5, <3>1, AddSetPromises
    <3> QED BY <1>5, <2>0, <3>1, <3>2, <3>3, <3>4, Elsewhere
  <2>6. CASE EndSets
    <3>1. request' = request /\ pc = "sets" /\ pc' = "finish" BY <2>6 DEF EndSets
    <3>2. CallInv' BY <1>1, <1>2, <3>1, CallKept
    <3>3. RowInv' BY <1>2, <2>6, <3>1, EndSetsStep
    <3> QED BY <1>5, <2>0, <3>1, <3>2, <3>3, Elsewhere
  <2>7. CASE Finish
    <3>1. request' = request /\ pc = "finish" /\ pc' = "done" BY <2>7 DEF Finish
    <3>2. CallInv' BY <1>1, <3>1, CallKept
    <3>3. Promises' BY <1>2, <2>7, <3>1, FinishPromises
    <3> QED BY <1>5, <2>0, <3>1, <3>2, <3>3, Elsewhere
  <2> QED BY <1>6, <2>1, <2>2, <2>3, <2>4, <2>5, <2>6, <2>7 DEF Next
<1>7. ASSUME UNCHANGED walk, TopoTypeOK' PROVE CubeTypeOK' BY <1>1, <1>7 DEF CubeTypeOK
<1>8. CASE TopoRefuse /\ UNCHANGED walk
  <2>1. request' = request /\ pc' = "done" BY <1>8 DEF TopoRefuse
  <2>2. TopoTypeOK' BY <1>1, <1>8 DEF TopoRefuse, TopoTypeOK, TypeOK, leafVars
  <2>3. CallInv' BY <1>1, <2>1, CallKept
  <2>4. Promises' BY <1>1, <1>8, TopoRefusePromises
  <2> QED BY <1>5, <1>7, <1>8, <2>1, <2>2, <2>3, <2>4, Elsewhere
<1>9. CASE TakeRequired /\ UNCHANGED walk
  <2>1. request' = request /\ pc' \in {"required", "leaves"} /\ Leafy /\ Usable
    BY <1>9 DEF TakeRequired
  <2>2. TopoTypeOK' /\ LeafyInv' BY <1>1, <1>9, TakeRequiredStep
  <2>3. CallInv' BY <1>1, <2>1, CallKept
  <2> QED BY <1>5, <1>7, <1>9, <2>1, <2>2, <2>3, Elsewhere
<1>10. CASE AddRequiredLeaf /\ UNCHANGED walk
  <2>1. request' = request /\ pc = "required" /\ pc' = "required" BY <1>10 DEF AddRequiredLeaf
  <2>2. TopoTypeOK' /\ LeafyInv' BY <1>3, <1>10, <2>1, AddRequiredLeafStep
  <2>3. CallInv' BY <1>1, <1>3, <2>1, CallKept
  <2> QED BY <1>5, <1>7, <1>10, <2>1, <2>2, <2>3, Elsewhere
<1>11. CASE EndRequired /\ UNCHANGED walk
  <2>1. request' = request /\ pc = "required" /\ pc' = "leaves" BY <1>11 DEF EndRequired
  <2>2. TopoTypeOK' /\ LeafyInv' BY <1>3, <1>11, <2>1, EndRequiredStep
  <2>3. CallInv' BY <1>1, <1>3, <2>1, CallKept
  <2> QED BY <1>5, <1>7, <1>11, <2>1, <2>2, <2>3, Elsewhere
<1>12. CASE AddLeaf /\ UNCHANGED walk
  <2>1. request' = request /\ pc = "leaves" /\ pc' = "leaves" BY <1>12 DEF AddLeaf
  <2>2. TopoTypeOK' /\ LeafyInv' BY <1>3, <1>12, <2>1, AddLeafStep
  <2>3. CallInv' BY <1>1, <1>3, <2>1, CallKept
  <2> QED BY <1>5, <1>7, <1>12, <2>1, <2>2, <2>3, Elsewhere
<1>13. CASE TopoFinish /\ UNCHANGED walk
  <2>1. request' = request /\ pc = "leaves" /\ pc' = "done" BY <1>13 DEF TopoFinish
  <2>2. TopoTypeOK' BY <1>1, <1>13 DEF TopoFinish, TopoTypeOK, TypeOK, leafVars
  <2>3. CallInv' BY <1>1, <2>1, CallKept
  <2>4. Promises' BY <1>3, <1>13, <2>1, TopoFinishPromises
  <2> QED BY <1>5, <1>7, <1>13, <2>1, <2>2, <2>3, <2>4, Elsewhere
<1>14. CASE CubeGiveUp
  <2>1. request' = request /\ pc' = "done" BY <1>14 DEF CubeGiveUp
  <2>2. CubeTypeOK'
    <3>1. request.avail \subseteq Nodes BY <1>1, Call DEF CallInv
    <3> QED BY <1>1, <1>14, <3>1 DEF CubeGiveUp, CubeTypeOK, TopoTypeOK, TypeOK, leafVars
  <2>3. CallInv' BY <1>1, <2>1, CallKept
  <2>4. Promises' BY <1>1, <1>14, CubeGiveUpPromises
  <2> QED BY <1>5, <2>1, <2>2, <2>3, <2>4, Elsewhere
<1>15. CASE CubeRequired
  <2>1. /\ request' = request /\ pc' \in {"explore", "walked"}
        /\ request.network = "hypercube" /\ Usable
    BY <1>15 DEF CubeRequired
  <2>2. CubeTypeOK' /\ CubeInv' BY <1>1, <1>15, CubeRequiredStep
  <2>3. CallInv' BY <1>1, <2>1, CallKept
  <2> QED BY <1>5, <2>1, <2>2, <2>3, Elsewhere
<1>16. CASE Explore
  <2>1. request' = request /\ pc = "explore" /\ pc' = "walk" BY <1>16 DEF Explore
  <2>2. CubeTypeOK' /\ CubeInv' BY <1>4, <1>16, <2>1, ExploreStep
  <2>3. CallInv' BY <1>1, <1>4, <2>1, CallKept
  <2> QED BY <1>5, <2>1, <2>2, <2>3, Elsewhere
<1>17. CASE ExploreInVain
  <2>1. request' = request /\ pc = "explore" /\ pc' = "walked" BY <1>17 DEF ExploreInVain
  <2>2. CubeTypeOK' /\ CubeInv' BY <1>4, <1>17, <2>1, ExploreInVainStep
  <2>3. CallInv' BY <1>1, <1>4, <2>1, CallKept
  <2> QED BY <1>5, <2>1, <2>2, <2>3, Elsewhere
<1>18. CASE TakeNext
  <2>1. request' = request /\ pc = "walk" /\ pc' = "walk" BY <1>18 DEF TakeNext, Walking
  <2>2. CubeTypeOK' /\ CubeInv' BY <1>4, <1>18, <2>1, TakeNextStep
  <2>3. CallInv' BY <1>1, <1>4, <2>1, CallKept
  <2> QED BY <1>5, <2>1, <2>2, <2>3, Elsewhere
<1>19. CASE MoveOn
  <2>1. request' = request /\ pc = "walk" /\ pc' = "walk" BY <1>19 DEF MoveOn, Walking
  <2>2. CubeTypeOK' /\ CubeInv' BY <1>4, <1>19, <2>1, MoveOnStep
  <2>3. CallInv' BY <1>1, <1>4, <2>1, CallKept
  <2> QED BY <1>5, <2>1, <2>2, <2>3, Elsewhere
<1>20. CASE EndWalk
  <2>1. request' = request /\ pc = "walk" /\ pc' = "walked" BY <1>20 DEF EndWalk
  <2>2. CubeTypeOK' /\ CubeInv' BY <1>4, <1>20, <2>1, EndWalkStep
  <2>3. CallInv' BY <1>1, <1>4, <2>1, CallKept
  <2> QED BY <1>5, <2>1, <2>2, <2>3, Elsewhere
<1>21. CASE CubeFinish
  <2>1. request' = request /\ pc = "walked" /\ pc' = "done" BY <1>21 DEF CubeFinish
  <2>2. CubeTypeOK' BY <1>1, <1>21 DEF CubeFinish, CubeTypeOK, TopoTypeOK, TypeOK, leafVars
  <2>3. CallInv' BY <1>1, <2>1, CallKept
  <2>4. Promises' BY <1>4, <1>21, <2>1, CubeFinishPromises
  <2> QED BY <1>5, <2>1, <2>2, <2>3, <2>4, Elsewhere
<1>22. CASE UNCHANGED cubeVars
  <2>1. /\ request' = request /\ pc' = pc /\ bitmap' = bitmap /\ table' = table /\ left' = left
        /\ remNodes' = remNodes /\ remCpus' = remCpus /\ maxNodes' = maxNodes /\ rc' = rc
        /\ leaves' = leaves /\ leafCount' = leafCount /\ bestSwitch' = bestSwitch /\ walk' = walk
    BY <1>22 DEF cubeVars, topoVars, jobTestVars, leafVars
  <2> QED BY <1>1, <2>1, SameState
<1>23. CASE TopoNext /\ UNCHANGED walk
  BY <1>6, <1>8, <1>9, <1>10, <1>11, <1>12, <1>13, <1>23 DEF TopoNext
<1> QED BY <1>14, <1>15, <1>16, <1>17, <1>18, <1>19, <1>20, <1>21, <1>22, <1>23 DEF CubeNext

\* The invariant holds throughout.
LEMMA CubeInvariant == CubeSpec => []IInv
<1>1. CubeInit => IInv BY CubeInitInv
<1>2. IInv /\ [CubeNext]_cubeVars => IInv' BY NextInv
<1> QED BY <1>1, <1>2, PTL DEF CubeSpec

\* The state of a call on any cluster has its type: numbers of nodes do not go
\* below zero, and whoever has ended has an answer.
THEOREM CubeTypeCorrect == CubeSpec => []CubeTypeOK
<1>1. IInv => CubeTypeOK BY DEF IInv
<1> QED BY <1>1, CubeInvariant, PTL

\* On rows, trees, dragonflies and hypercubes of any size: a job that is not
\* contiguous and is given nodes is given usable ones, with those it requires,
\* as many as it must and may have, and its CPUs.  On unlike nodes in rows the
\* job must not wish for more nodes than have CPUs for it.
THEOREM GetsWhatItAskedHolds == CubeSpec => []GetsWhatItAsked
<1>1. IInv => GetsWhatItAsked BY DEF IInv, Promises
<1> QED BY <1>1, CubeInvariant, PTL

\* Taking nodes greedily turns no job away that would fit, if it is not
\* contiguous; nodes on switches are like ones, and on a hypercube the job
\* requires none and as many are usable as it wishes for.
THEOREM NeverTurnedAwayHolds == CubeSpec => []NeverTurnedAway
<1>1. IInv => NeverTurnedAway BY DEF IInv, Promises
<1> QED BY <1>1, CubeInvariant, PTL

\* On like nodes without switches, a job that requires none, wishes for no more
\* than it must have and fits one set of consecutive nodes gets nodes of a
\* smallest one.
THEOREM SmallestSetHolds == CubeSpec => []SmallestSet
<1>1. IInv => SmallestSet BY DEF IInv, Promises
<1> QED BY <1>1, CubeInvariant, PTL

\* Without switches and on like nodes, a contiguous job that requires none gets
\* nodes in a row (_job_test, lines 3655-3658).
THEOREM InARowHolds == CubeSpec => []InARow
<1>1. IInv => InARow BY DEF IInv, Promises
<1> QED BY <1>1, CubeInvariant, PTL

\* On a tree or dragonfly a job stays under one of the lowest switches that can
\* hold it.
THEOREM LowestSwitchHolds == CubeSpec => []LowestSwitch
<1>1. IInv => LowestSwitch BY DEF IInv, Promises
<1> QED BY <1>1, CubeInvariant, PTL

\* On a tree or dragonfly a job that wants few leaf switches, requires no nodes
\* and has not waited is on no more of them.
THEOREM FewSwitchesHolds == CubeSpec => []FewSwitches
<1>1. IInv => FewSwitches BY DEF IInv, Promises
<1> QED BY <1>1, CubeInvariant, PTL
====
