------------------------------ MODULE MCUpsert ------------------------------
(* Bodies of the requests in the runs of Upsert: two nodes, either way round. *)
EXTENDS Upsert, TLC

CONSTANTS n1, n2

Depth(x, y, pop) ==
  [left |-> x, right |-> y, mode |-> "depth", rel |-> 1, popular |-> pop]
Relation(x, y, r, pop) ==
  [left |-> x, right |-> y, mode |-> "relation", rel |-> r, popular |-> pop]

DepthBodies == {Depth(n1, n2, FALSE), Depth(n2, n1, FALSE), Depth(n1, n2, TRUE)}
MixedBodies == {Depth(n1, n2, FALSE), Relation(n2, n1, 1, TRUE)}
OneBody == {Relation(n1, n2, 1, FALSE)}

Symmetry == Permutations(Requests)
=============================================================================
