----------------------------- MODULE MCPodGroup -----------------------------
(* Small instances of PodGroup.  The pods of a group are interchangeable.  *)
EXTENDS PodGroup, TLC

Symmetry == Permutations(Pods)
=============================================================================
