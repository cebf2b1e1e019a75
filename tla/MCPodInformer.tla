--------------------------- MODULE MCPodInformer ----------------------------
(* Instances of PodInformer for TLC.                                       *)
EXTENDS PodInformer, TLC

CONSTANTS p1, p2, a1

Interchangeable == Permutations({p1, p2})

=============================================================================
