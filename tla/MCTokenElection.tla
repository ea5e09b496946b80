-------------------------- MODULE MCTokenElection --------------------------
(* Instances of TokenElection for TLC: two searches in two pods, with or   *)
(* without a background refresh that shares the pod of the first search.   *)
EXTENDS TokenElection, TLC
CONSTANTS s1, s2, b1, d1, d2

MCPodOf == [p \in Proc |-> IF p = s2 THEN d2 ELSE d1]
=============================================================================
