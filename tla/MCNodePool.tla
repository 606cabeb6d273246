---------------------------- MODULE MCNodePool ------------------------------
(* Instances of NodePool for TLC. *)
EXTENDS NodePool, TLC

Symmetry == Permutations(PoolIds) \cup Permutations(TaskIds) \cup Permutations(Threads)
=============================================================================
