---------------------------- MODULE MCPolicies ----------------------------
(* Two requests about one policy.                                         *)
EXTENDS Policies, TLC
CONSTANTS p1, p2
Symmetry == Permutations({p1, p2})
=============================================================================
