------------------------------ MODULE MCJobTest ------------------------------
(* Calls of _job_test on five nodes of one or three CPUs, or none, with and
   without switches. *)
EXTENDS CubeTest

\* <<min_nodes, req_nodes, max_nodes>>
Counts == {<<1, 1, 2>>, <<2, 2, 2>>, <<2, 2, 4>>, <<1, 3, 4>>}

\* None is required, one, or two: next to each other, in one row or in two.
Requirements == {{}, {4}, {2, 3}, {1, 4}, {2, 5}}

\* Every node, rows of several lengths, and too few nodes.
Usables == {1 .. 5, {1, 3, 5}, {1, 2, 3, 5}, {1, 2, 4, 5}, {2, 4, 5}, {3}}

Switch(level, nodes) == [level |-> level, nodes |-> nodes]

\* Three levels; two leaves that share a node; two trees.
Deep == <<Switch(0, {1, 2}), Switch(0, {3}), Switch(0, {4, 5}), Switch(1, {3, 4, 5}), Switch(2, 1 .. 5)>>
Shared == <<Switch(1, 1 .. 5), Switch(0, {1, 2}), Switch(0, 2 .. 5)>>
Apart == <<Switch(0, {1, 2}), Switch(0, {3, 4}), Switch(0, {5}), Switch(1, {3, 4, 5})>>

Cube == <<Switch(0, {1, 2}), Switch(0, {3}), Switch(0, {4, 5})>>
Corners == <<Switch(0, {1}), Switch(0, {2, 3}), Switch(0, {4}), Switch(0, {5})>>

\* <<network, switches, curves, req_switch, waited>>
NoNetwork == <<"row", <<>>, <<>>, 0, FALSE>>
Networks ==
    {<<k, t, <<>>, s, w>> : k \in {"tree", "dragonfly"}, t \in {Deep, Shared, Apart}, s \in {0, 1, 2}, w \in BOOLEAN}
Cubes ==
    {<<"hypercube", Cube, << <<1, 2, 3>>, <<2, 1, 3>> >>, 0, FALSE>>,
     <<"hypercube", Corners, << <<1, 2, 3, 4>> >>, 0, FALSE>>}

\* On a network all nodes, or all but the third, are usable.
Arguments ==
    {<<a, big, r, m, k, b, t, low>> \in Usables \X (SUBSET (1 .. 5)) \X Requirements \X Counts \X {0, 1, 4, 6}
                                     \X BOOLEAN \X ({NoNetwork} \cup Networks \cup Cubes) \X {0, 1} :
        /\ big \subseteq a
        /\ Cardinality(r) <= m[1]
        /\ low = 0 => t = NoNetwork /\ big # {} /\ ~b
        /\ t # NoNetwork => big \in {{}, {1, 3}} /\ ~b
        /\ k = 0 => t \in Cubes
        /\ t[5] => t[4] = 1
        /\ t \in Networks => {1, 2, 4, 5} \subseteq a /\ k # 6}

Calls ==
    {[avail      |-> c[1],
      cpus       |-> [n \in 1 .. N |-> IF n \in c[2] THEN 3 ELSE c[8]],
      required   |-> c[3],
      minNodes   |-> c[4][1], reqNodes |-> c[4][2], maxNodes |-> c[4][3],
      minCpus    |-> c[5],
      contiguous |-> c[6],
      network    |-> c[7][1], switches |-> c[7][2], curves |-> c[7][3],
      reqSwitch  |-> c[7][4], waited |-> c[7][5]] :
        c \in Arguments}

=============================================================================
