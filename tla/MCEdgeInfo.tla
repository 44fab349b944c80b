----------------------------- MODULE MCEdgeInfo -----------------------------
(* Two nodes that are each other's right node, a request and a job. *)
EXTENDS EdgeInfo, TLC

CONSTANTS k1, k2, info, other

Pair == (k1 :> k2) @@ (k2 :> k1)
Resolving == (info :> "info") @@ (other :> "resolve")
Bumping == (info :> "info") @@ (other :> "bump")

Symmetry == Permutations({k1, k2})
=============================================================================
