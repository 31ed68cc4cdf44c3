---------------------------- MODULE MCHNSWSearch -----------------------------
(* Instances of HNSWSearch: five points on a line, two of them on level 1.  *)
EXTENDS HNSWSearch

Position == [v \in 0..4 |-> <<0, 1, 3, 7, 12>>[v + 1]]

MCDistance ==
  [vw \in Nodes \X Nodes |->
     LET x == Position[vw[1]]  y == Position[vw[2]] IN IF x < y THEN y - x ELSE x - y]

MCLevel == [v \in Nodes |-> IF v \in {1, 4} THEN 1 ELSE 0]
MCNbNeighbors == [l \in 0..1 |-> IF l = 0 THEN 3 ELSE 1]

\* A node has one, two or three neighbors at level 0, in a ring; a node of
\* level 1 may have lost its link there.
Ring(v, i) == (v + i) % Cardinality(Nodes)
List(v, n) ==
  CASE n = 1 -> <<Ring(v, 2), None, None>>
    [] n = 2 -> <<Ring(v, 1), Ring(v, 4), None>>
    [] n = 3 -> <<Ring(v, 3), Ring(v, 1), Ring(v, 2)>>

MCTables ==
  {[vl \in Nodes \X Levels |->
      IF vl[2] = 0 THEN List(vl[1], length[vl[1]])
      ELSE IF vl[1] = 1 THEN <<4>> ELSE IF vl[1] = 4 THEN <<link>> ELSE <<None>>] :
    length \in [Nodes -> 1..3], link \in {None, 1}}

MCSelections == {{}, {0}, {0, 2}, {1, 3, 4}, Nodes}
=============================================================================
