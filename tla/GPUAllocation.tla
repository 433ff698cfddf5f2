--------------------------- MODULE GPUAllocation ---------------------------
(***************************************************************************)
(* What the FlexGPU scheduler promises: a pod is granted a GPU of a node   *)
(* at once and for good, only a GPU on which there is room for it, and it  *)
(* keeps that GPU until it is released.                                    *)
(***************************************************************************)
EXTENDS GPUNode

CONSTANTS Nodes, Allocs

VARIABLE grant    \* grant[p]: the node and the GPU index p holds

NoGrant == [node |-> "NoNode", index |-> NoIndex]

Holders(n, i) == {q \in GpuPods \cup MemPods : grant[q] = [node |-> n, index |-> i]}

(* p may join the pods on GPU i of node n, which has a.gpu GPUs.           *)
Room(p, n, i, a) ==
  /\ i \in 0 .. (a.gpu - 1)
  /\ p \in GpuPods =>
       \A q \in Holders(n, i) : q \notin GpuPods /\ memLimit[q] = 0
  /\ p \in MemPods =>
       /\ Holders(n, i) \cap GpuPods = {}
       /\ SumOver(memLimit, Holders(n, i)) + memLimit[p] <= a.mem \div a.gpu

Init == grant = [p \in GpuPods \cup MemPods |-> NoGrant]

Grant(p) ==
  /\ grant[p] = NoGrant
  /\ \E n \in Nodes : \E a \in Allocs[n] : \E i \in 0 .. (a.gpu - 1) :
       /\ Room(p, n, i, a)
       /\ grant' = [grant EXCEPT ![p] = [node |-> n, index |-> i]]

Release(S) == grant' = [p \in GpuPods \cup MemPods |-> IF p \in S THEN NoGrant ELSE grant[p]]

Next ==
  \/ \E p \in GpuPods \cup MemPods : Grant(p)
  \/ \E S \in SUBSET (GpuPods \cup MemPods) : Release(S)

Spec == Init /\ [][Next]_grant
=============================================================================
