----------------------------- MODULE MCHNSWBuild -----------------------------
(* Instances of HNSWBuild: points on a line, whose distances all differ.    *)
EXTENDS HNSWBuild

Position == [v \in 0..5 |-> <<0, 1, 3, 7, 12, 20>>[v + 1]]

MCDistance ==
  [vw \in Nodes \X Nodes |->
     LET x == Position[vw[1]]  y == Position[vw[2]] IN IF x < y THEN y - x ELSE x - y]

\* Lists that cannot overflow at level 0, short ones above.
MCNbNeighbors ==
  [l \in 0..Max({Level[v] : v \in Nodes}) |-> IF l = 0 THEN Cardinality(Nodes) ELSE 2]

\* Two parallel buckets, then a call that adds one node above all others.
BuildLevel == [v \in Nodes |-> CASE v = 5 -> 2 [] v = 0 -> 0 [] OTHER -> 1]
BuildCalls == <<Nodes \ {5}, {5}>>

\* A call that adds two nodes above all others, in parallel.
RaceLevel == [v \in Nodes |-> IF v = 0 THEN 0 ELSE 1]
RaceCalls == <<{0}, Nodes \ {0}>>
=============================================================================
