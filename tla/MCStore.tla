------------------------------ MODULE MCStore -------------------------------
(* Store on a small instance, up to the names of the nodes and requests.   *)
EXTENDS Store, TLC

Symmetry == Permutations(Nodes) \cup Permutations(Requests)
=============================================================================
