----------------------------- MODULE MCFlexGPU -----------------------------
(* Small clusters for model-checking FlexGPU.                              *)
EXTENDS FlexGPU, TLC

CONSTANTS g1, m1, m2, m3, z, n1, n2

Device(gpu, mem) == [keys |-> {"gpu", "mem"}, gpu |-> gpu, mem |-> mem]
NoDevice == [keys |-> {}, gpu |-> 0, mem |-> 0]

GpuLimits == [p \in Pods |-> IF p \in GpuPods THEN 1 ELSE 0]

UnitMemLimits == [p \in Pods |-> IF p \in MemPods THEN 1 ELSE 0]
MixedMemLimits ==
  [p \in Pods |-> IF p \notin MemPods THEN 0 ELSE IF p = m1 THEN 1 ELSE 2]

OneOfTwoHasAGPU == [n \in Nodes |-> IF n = n1 THEN {Device(1, 2)} ELSE {NoDevice}]

(* One GPU fails and comes back.  With two GPUs each has the memory 2, for *)
(* 5 \div 2, so that m1, m2 and m3 fit in total and not one by one; a      *)
(* single GPU has the memory 3, for m1 and one of the others.              *)
ShrinkingNode == [n \in Nodes |-> {Device(2, 5), Device(1, 3)}]

(* m2 and m3 are alike.                                                    *)
MemSymmetry == Permutations({m2, m3})

NoOtherScores == {[n \in Nodes |-> 0]}
FavourFirst == NoOtherScores \cup {[n \in Nodes |-> IF n = n1 THEN MaxNodeScore ELSE 0]}
=============================================================================
