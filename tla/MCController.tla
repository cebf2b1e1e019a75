---------------------------- MODULE MCController ----------------------------
(* Instances of Controller for TLC.                                        *)
EXTENDS Controller, TLC

CONSTANTS p1, p2, n1, n2, sriov, bridge

Interchangeable == Permutations({p1, p2})

=============================================================================
