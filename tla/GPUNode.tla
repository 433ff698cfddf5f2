------------------------------ MODULE GPUNode ------------------------------
(***************************************************************************)
(* The decisions of the FlexGPU plugin as functions of one node snapshot:  *)
(* the per-GPU picture that pkg/flexgpu/gpu_node.go builds from a          *)
(* framework.NodeInfo, and what Filter and Score of                        *)
(* pkg/flexgpu/flex_gpu.go return for it.                                  *)
(*                                                                         *)
(* A snapshot ni is a record                                               *)
(*   ni.alloc : the node's Status.Allocatable, see Allocatable below;      *)
(*   ni.pods  : a function from the pods in nodeInfo.Pods to the value of  *)
(*              their nvidia.flex.com/index annotation (NoIndex if the     *)
(*              annotation is missing).                                    *)
(*                                                                         *)
(* Quantities are natural numbers, added up with SumOver of module Sums.   *)
(***************************************************************************)
EXTENDS Sums

CONSTANTS
  Pods,       \* every pod that may be created
  GpuPods,    \* the pods some container of which has an nvidia.flex.com/gpu limit
  MemPods,    \* the pods some container of which has an nvidia.flex.com/memory limit
  gpuLimit,   \* per pod, the sum of its containers' gpu limits
  memLimit    \* per pod, the sum of its containers' memory limits

(* podResourceLimit returns the sum over the containers and whether any of *)
(* them names the resource; the sum is zero when none does.                *)
ASSUME PodsAssumption ==
  /\ IsFiniteSet(Pods)
  /\ GpuPods \subseteq Pods
  /\ MemPods \subseteq Pods
  /\ gpuLimit \in [Pods -> Nat]
  /\ memLimit \in [Pods -> Nat]
  /\ \A p \in Pods \ GpuPods : gpuLimit[p] = 0
  /\ \A p \in Pods \ MemPods : memLimit[p] = 0

NoIndex == -1            \* the annotation is missing: strconv.Atoi("") fails
MaxNodeScore == 100      \* framework.MaxNodeScore
StableSortMax == 12      \* sort.Slice is an insertion sort up to this length

(* keys: which of the two resources Status.Allocatable names.  Reading a   *)
(* missing one yields the zero Quantity.                                   *)
Allocatable ==
  {a \in [keys : SUBSET {"gpu", "mem"}, gpu : Nat, mem : Nat] :
      /\ "gpu" \notin a.keys => a.gpu = 0
      /\ "mem" \notin a.keys => a.mem = 0}

----------------------------------------------------------------------------
(* Sums of limits.                                                         *)

(* nodeResourceLimitSum: every pod of the node counts, annotated or not.   *)
nodeResourceLimitSum(limit, ni) == SumOver(limit, DOMAIN ni.pods)

----------------------------------------------------------------------------
(* constructGPUs: a pod with a gpu limit makes the GPU its annotation      *)
(* names a monopoly (whatever the value of the limit), a pod with a memory *)
(* limit adds to that GPU's used memory; a pod without limits or without   *)
(* an annotation is skipped.                                               *)

PodsOn(ni, i) == {q \in DOMAIN ni.pods : ni.pods[q] = i}

gpuIndexes(ni) == 0 .. (ni.alloc.gpu - 1)

memEachGPU(ni) == ni.alloc.mem \div ni.alloc.gpu

monopoly(ni, i) == PodsOn(ni, i) \cap GpuPods # {}

usedMemory(ni, i) == SumOver(memLimit, PodsOn(ni, i) \cap MemPods)

(* NewGPUNode panics when it divides by a zero GPU count, and              *)
(* constructGPUs when an annotation names a GPU the node no longer has.    *)
NewGPUNodePanics(ni) ==
  \/ ni.alloc.gpu = 0
  \/ \E q \in DOMAIN ni.pods \cap (GpuPods \cup MemPods) :
        ni.pods[q] # NoIndex /\ ni.pods[q] >= ni.alloc.gpu

(* Mutants of the two below: the monopoly flag is ignored, the memory in   *)
(* use is compared without the limit, the memory in use is not looked at.  *)
MemAssumeFitIndexes_IgnoresMonopoly(ni, limit) ==
  {i \in gpuIndexes(ni) : usedMemory(ni, i) + limit <= memEachGPU(ni)}
MemAssumeFitIndexes_WithoutLimit(ni, limit) ==
  {i \in gpuIndexes(ni) : ~monopoly(ni, i) /\ usedMemory(ni, i) <= memEachGPU(ni)}
GPUAssumeFitIndexes_IgnoresMemory(ni) ==
  {i \in gpuIndexes(ni) : ~monopoly(ni, i)}

(* MemAssumeFitIndexes and GPUAssumeFitIndexes, as sets.  The list that    *)
(* the code builds for memory is shorter than this set because its         *)
(* Quantity pointers alias, but it is empty only when this set is, and it  *)
(* starts with the least element (module GPUFit checks both).              *)
MemAssumeFitIndexes(ni, limit) ==
  {i \in gpuIndexes(ni) :
      ~monopoly(ni, i) /\ usedMemory(ni, i) + limit <= memEachGPU(ni)}

GPUAssumeFitIndexes(ni) ==
  {i \in gpuIndexes(ni) : ~monopoly(ni, i) /\ usedMemory(ni, i) = 0}

(* indexes[0] of the list.  Its order is the order of the indexes while    *)
(* sort.Slice is stable; beyond that any fit may come first.               *)
FirstIndex(fits, i) ==
  i \in fits /\ (Cardinality(fits) <= StableSortMax => \A j \in fits : i <= j)

----------------------------------------------------------------------------
(* Filter.                                                                 *)

(* Mutant: the pod's own gpu limit is left out of the sum.                 *)
QuantitiesFit_WithoutPod(ni, p) ==
  /\ ~(p \in GpuPods /\ p \in MemPods)
  /\ {"gpu", "mem"} \subseteq ni.alloc.keys
  /\ nodeResourceLimitSum(gpuLimit, ni) <= ni.alloc.gpu
  /\ nodeResourceLimitSum(memLimit, ni) + memLimit[p] <= ni.alloc.mem

(* The checks before NewGPUNode is called.                                 *)
QuantitiesFit(ni, p) ==
  /\ ~(p \in GpuPods /\ p \in MemPods)
  /\ {"gpu", "mem"} \subseteq ni.alloc.keys
  /\ nodeResourceLimitSum(gpuLimit, ni) + gpuLimit[p] <= ni.alloc.gpu
  /\ nodeResourceLimitSum(memLimit, ni) + memLimit[p] <= ni.alloc.mem

(* Mutant: only the totals are compared.                                   *)
Filter_TotalsOnly(ni, p) == p \notin GpuPods \cup MemPods \/ QuantitiesFit(ni, p)

(* Only memory pods are checked against the single GPUs.                   *)
Filter(ni, p) ==
  \/ p \notin GpuPods \cup MemPods
  \/ /\ QuantitiesFit(ni, p)
     /\ p \in MemPods => MemAssumeFitIndexes(ni, memLimit[p]) # {}

FilterPanics(ni, p) ==
  /\ p \in GpuPods \cup MemPods
  /\ QuantitiesFit(ni, p)
  /\ NewGPUNodePanics(ni)

----------------------------------------------------------------------------
(* Score and NormalizeScore.                                               *)

GPUScore(ni) == Cardinality(GPUAssumeFitIndexes(ni))

(* The memory of monopolised GPUs counts as remaining.                     *)
MemScore(ni) ==
  ni.alloc.gpu * memEachGPU(ni)
    - SumOver(memLimit, {q \in DOMAIN ni.pods \cap MemPods : ni.pods[q] # NoIndex})

Score(ni, p) ==
  CASE p \in GpuPods -> GPUScore(ni)
    [] p \in MemPods \ GpuPods -> MemScore(ni)
    [] OTHER -> 0

(* Go's integer division rounds towards zero.                              *)
GoDiv(a, b) == IF a >= 0 THEN a \div b ELSE -((-a) \div b)

(* helper.DefaultNormalizeScore(MaxNodeScore, reverse = true): the node    *)
(* with the largest score gets 0, a node with score 0 gets MaxNodeScore.   *)
NormalizeScore(scores) ==
  LET maxCount == CHOOSE m \in {0} \cup {scores[n] : n \in DOMAIN scores} :
                    \A n \in DOMAIN scores : m >= 0 /\ m >= scores[n]
  IN  [n \in DOMAIN scores |->
         IF maxCount = 0 THEN MaxNodeScore
                         ELSE MaxNodeScore - GoDiv(MaxNodeScore * scores[n], maxCount)]

=============================================================================
