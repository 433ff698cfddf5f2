--------------------------- MODULE FlexGPUProofs ---------------------------
(* Proofs about FlexGPU, for every cluster, every set of pods and every    *)
(* bound on the faults.                                                    *)
EXTENDS FlexGPU, SumProofs

(* NoCycle, the cache and the snapshots are well typed.                    *)
LEMMA NoCycleType ==
  /\ NoCycle.pod = NoPod /\ NoCycle.host = NoNode
  /\ NoCycle.objs \in [Pods -> {"none", "own", "api"}]
  /\ \A p \in Pods : NoCycle.objs[p] = "none"
BY DEF NoCycle

(* A cycle under way has a pod, a host, an allocatable record and, for     *)
(* every pod, the object its snapshot refers to.                           *)
LEMMA CycleType ==
  ASSUME TypeOK, cycle # NoCycle
  PROVE  /\ cycle \in Cycle
         /\ cycle.pod \in Pods
         /\ cycle.host \in Nodes
         /\ cycle.alloc \in Allocatable
         /\ cycle.alloc.gpu \in Nat
         /\ cycle.objs \in [Pods -> {"none", "own", "api"}]
BY DEF TypeOK, Cycle, Allocatable

(* Also without a cycle the snapshot's references are well typed.          *)
LEMMA ObjsType ==
  ASSUME TypeOK
  PROVE  cycle.objs \in [Pods -> {"none", "own", "api"}]
BY CycleType, NoCycleType

(* Schedule chooses a host that passed Filter.                             *)
LEMMA BestNodesFeasible ==
  ASSUME NEW p, NEW other
  PROVE  BestNodes(p, other) \subseteq FeasibleNodes(p)
BY DEF BestNodes

(* A feasible node passed Filter on its snapshot.                          *)
LEMMA FeasibleNodesFiltered ==
  ASSUME NEW p, NEW n \in FeasibleNodes(p)
  PROVE  n \in Nodes /\ Filter(SnapshotOf(n), p)
BY DEF FeasibleNodes

(* Every handler keeps the types.                                          *)
LEMMA TypeStep ==
  ASSUME TypeOK, [Next]_vars
  PROVE  TypeOK'
<1>0. CASE UNCHANGED vars
  BY <1>0 DEF vars, TypeOK
<1>1. ASSUME NEW p \in Pods, CreatePod(p) PROVE TypeOK'
  BY <1>1 DEF CreatePod, TypeOK, Phases
<1>2. ASSUME NEW p \in Pods, DeletePod(p) PROVE TypeOK'
  BY <1>2 DEF DeletePod, TypeOK, Phases
<1>3. ASSUME NEW n \in Nodes, NodeUpdate(n) PROVE TypeOK'
  <2>1. PICK a \in Allocs[n] : alloc' = [alloc EXCEPT ![n] = a]
    BY <1>3 DEF NodeUpdate
  <2>2. a \in Allocatable
    BY <2>1, ClusterAssumption
  <2> QED
    BY <1>3, <2>1, <2>2 DEF NodeUpdate, TypeOK
<1>4. ASSUME NEW p \in Pods, InformerAddPending(p) PROVE TypeOK'
  BY <1>4 DEF InformerAddPending, TypeOK, Phases
<1>5. ASSUME NEW p \in Pods, InformerAddBound(p) PROVE TypeOK'
  BY <1>5 DEF InformerAddBound, TypeOK, Phases
<1>6. ASSUME NEW p \in Pods, InformerUpdateBound(p) PROVE TypeOK'
  BY <1>6 DEF InformerUpdateBound, TypeOK
<1>7. ASSUME NEW p \in Pods, InformerDelete(p) PROVE TypeOK'
  BY <1>7 DEF InformerDelete, TypeOK, Phases
<1>8. ASSUME NEW p \in Pods, Schedule(p) PROVE TypeOK'
  <2>1. PICK other \in OtherScores : \E host \in BestNodes(p, other) :
          cycle' = [pod |-> p, host |-> host, alloc |-> alloc[host],
                    objs |-> [q \in Pods |-> IF q \in CachedOn(host) THEN info[q] ELSE "none"]]
    BY <1>8 DEF Schedule
  <2>2. PICK host \in BestNodes(p, other) :
          cycle' = [pod |-> p, host |-> host, alloc |-> alloc[host],
                    objs |-> [q \in Pods |-> IF q \in CachedOn(host) THEN info[q] ELSE "none"]]
    BY <2>1
  <2>3. host \in Nodes
    BY <2>2, BestNodesFeasible, FeasibleNodesFiltered
  <2>4. cycle' \in Cycle
    BY <2>2, <2>3 DEF Cycle, TypeOK
  <2> QED
    BY <1>8, <2>4 DEF Schedule, TypeOK
<1>9. ASSUME Die, faults' \in 0 .. MaxFaults PROVE TypeOK'
  BY <1>9 DEF Die, TypeOK, Phases
<1>10. ASSUME NEW p \in Pods, FilterPanic(p) PROVE TypeOK'
  BY <1>10, <1>9 DEF FilterPanic, TypeOK
<1>11. ASSUME NEW p \in Pods, ScorePanic(p) PROVE TypeOK'
  BY <1>11, <1>9 DEF ScorePanic, TypeOK
<1>12. CASE Reserve
  <2>1. cycle.pod \in Pods /\ cycle.host \in Nodes /\ cycle.alloc.gpu \in Nat
    BY <1>12, CycleType DEF Reserve
  <2>2. PICK i \in gpuIndexes(HostSnapshot) \cup {NoIndex} :
          own' = [own EXCEPT ![cycle.pod] = [node |-> cycle.host, index |-> i]]
    BY <1>12 DEF Reserve
  <2>3. i \in Nat \cup {NoIndex}
    BY <2>1, <2>2 DEF gpuIndexes, HostSnapshot
  <2>4. own' \in [Pods -> Place]
    BY <2>1, <2>2, <2>3 DEF TypeOK, Place
  <2> QED
    BY <1>12, <2>1, <2>4 DEF Reserve, TypeOK
<1>13. CASE ReserveFails
  <2>1. cycle.pod \in Pods /\ cycle.host \in Nodes
    BY <1>13, CycleType DEF ReserveFails
  <2> QED
    BY <1>13, <2>1 DEF ReserveFails, Requeue, TypeOK, Place
<1>14. CASE AssumeFails
  <2>1. cycle.pod \in Pods
    BY <1>14, CycleType DEF AssumeFails
  <2> QED
    BY <1>14, <2>1 DEF AssumeFails, Requeue, TypeOK
<1>15. ASSUME NEW p \in Pods, Bind(p) PROVE TypeOK'
  BY <1>15 DEF Bind, Store, TypeOK, Phases, Place
<1>16. ASSUME NEW p \in Pods, BindRefused(p) PROVE TypeOK'
  BY <1>16 DEF BindRefused, TypeOK
<1>17. ASSUME NEW p \in Pods, BindReplyLost(p) PROVE TypeOK'
  BY <1>17, ClusterAssumption DEF BindReplyLost, Store, TypeOK, Phases, Place
<1>18. ASSUME NEW p \in Pods, BindTimeout(p) PROVE TypeOK'
  BY <1>18, ClusterAssumption DEF BindTimeout, RequestOf, TypeOK, Request, Place
<1>19. ASSUME NEW r \in stale, ApplyStale(r) PROVE TypeOK'
  BY <1>19 DEF ApplyStale, Store, TypeOK, Phases, Request
<1>20. ASSUME NEW p \in Pods, Unreserve(p) PROVE TypeOK'
  BY <1>20 DEF Unreserve, TypeOK, Place
<1>21. ASSUME NEW p \in Pods, Forget(p) PROVE TypeOK'
  BY <1>21 DEF Forget, Requeue, TypeOK
<1>22. ASSUME NEW p \in Pods, ExpireAssumed(p) PROVE TypeOK'
  BY <1>22, ClusterAssumption DEF ExpireAssumed, TypeOK
<1>23. CASE Crash
  BY <1>23, <1>9, ClusterAssumption DEF Crash, TypeOK
<1>24. CASE Restart
  BY <1>24 DEF Restart, RequestOf, TypeOK, Phases, Place, Nowhere, Request
<1> QED
  BY <1>0, <1>1, <1>2, <1>3, <1>4, <1>5, <1>6, <1>7, <1>8, <1>10, <1>11, <1>12, <1>13,
     <1>14, <1>15, <1>16, <1>17, <1>18, <1>19, <1>20, <1>21, <1>22, <1>23, <1>24
     DEF Next, Environment, Informer, SchedulingLoop, BindingCycle, Failure

(* The initial state has the types.                                        *)
LEMMA TypeInit ==
  ASSUME Init
  PROVE  TypeOK
<1>1. alloc \in [Nodes -> Allocatable] /\ \A n \in Nodes : alloc[n] \in Allocs[n]
  BY ClusterAssumption DEF Init
<1> QED
  BY <1>1, ClusterAssumption DEF Init, TypeOK, Phases, Place, Nowhere

(* The state of the scheduler, its cache and the API server keeps its      *)
(* type under every handler.                                               *)
THEOREM TypeCorrect == Spec => []TypeOK
<1>1. Init => TypeOK
  BY TypeInit
<1>2. TypeOK /\ [Next]_vars => TypeOK'
  BY TypeStep
<1> QED
  BY <1>1, <1>2, PTL DEF Spec
----------------------------------------------------------------------------
(* The inductive invariant.                                                *)

(* What a node carries is what it can carry.                               *)
ClaimsFit == GPUExclusive /\ MemoryFits /\ WithinAllocatable

IInv ==
  /\ TypeOK
  /\ ObjectsAgree
  /\ CycleSound
  /\ CacheTracksClaims
  /\ SnapshotTracksClaims
  /\ HostStaysUsable
  /\ ClaimsFit

(* A step that makes no claim and moves none.                              *)
NoNewClaim ==
  \A p \in Pods : Claims(p)' =>
    /\ Claims(p)
    /\ ClaimNode(p)' = ClaimNode(p)
    /\ ClaimIndex(p)' = ClaimIndex(p)

(* The values of Allocatable are numbers.                                  *)
LEMMA AllocsType ==
  ASSUME NEW n \in Nodes, NEW a \in Allocs[n]
  PROVE  a \in Allocatable /\ a.gpu \in Nat /\ a.mem \in Nat
<1>1. a \in Allocatable
  BY ClusterAssumption
<1> QED
  BY <1>1 DEF Allocatable

(* A claim is on a node.                                                   *)
LEMMA ClaimNodeType ==
  ASSUME ObjectsAgree, NEW p \in Pods, Claims(p)
  PROVE  ClaimNode(p) \in Nodes
BY DEF ObjectsAgree, Claims, ClaimNode

(* The sums over claims are natural numbers.                               *)
LEMMA ClaimSumsType ==
  ASSUME NEW p
  PROVE  /\ Sharing(p) \subseteq Pods
         /\ ClaimsOn(ClaimNode(p)) \subseteq Pods
         /\ SumOver(memLimit, Sharing(p)) \in Nat
         /\ SumOver(gpuLimit, ClaimsOn(ClaimNode(p))) \in Nat
         /\ SumOver(memLimit, ClaimsOn(ClaimNode(p))) \in Nat
<1>1. Sharing(p) \subseteq Pods /\ ClaimsOn(ClaimNode(p)) \subseteq Pods
  BY DEF Sharing, ClaimsOn
<1> QED
  BY <1>1, UnitsFinite, PodsAssumption

(* Giving claims up keeps the rest fitting.                                *)
LEMMA NoNewClaimFits ==
  ASSUME ObjectsAgree, ClaimsFit, NoNewClaim
  PROVE  ClaimsFit'
<1>1. GPUExclusive'
  BY DEF ClaimsFit, NoNewClaim, GPUExclusive, Sharing, ClaimsOn, Clash
<1>2. ASSUME NEW p \in Pods, Claims(p)'
      PROVE  /\ Claims(p)
             /\ ClaimNode(p)' = ClaimNode(p)
             /\ ClaimNode(p) \in Nodes
             /\ Sharing(p)' \subseteq Sharing(p)
             /\ ClaimsOn(ClaimNode(p))' \subseteq ClaimsOn(ClaimNode(p))
  BY <1>2, ClaimNodeType DEF NoNewClaim, Sharing, ClaimsOn
<1>3. MemoryFits'
  <2> SUFFICES ASSUME NEW p \in MemPods, Claims(p)'
               PROVE  \E a \in Allocs[ClaimNode(p)'] :
                        a.gpu > 0 /\ SumOver(memLimit, Sharing(p)') <= a.mem \div a.gpu
    BY DEF MemoryFits
  <2>1. /\ Claims(p)
        /\ ClaimNode(p)' = ClaimNode(p)
        /\ ClaimNode(p) \in Nodes
        /\ Sharing(p)' \subseteq Sharing(p)
    BY <1>2, PodsAssumption
  <2>2. PICK a \in Allocs[ClaimNode(p)] :
          a.gpu > 0 /\ SumOver(memLimit, Sharing(p)) <= a.mem \div a.gpu
    BY <2>1 DEF ClaimsFit, MemoryFits
  <2>3. SumOver(memLimit, Sharing(p)') <= SumOver(memLimit, Sharing(p))
    BY <2>1, ClaimSumsType, SumOverMonotone, PodsAssumption
  <2>4. SumOver(memLimit, Sharing(p)) \in Nat /\ SumOver(memLimit, Sharing(p)') \in Nat
    BY <2>1, ClaimSumsType, UnitsFinite, PodsAssumption
  <2>5. a.mem \in Nat /\ a.gpu \in Nat
    BY <2>1, AllocsType
  <2>6. SumOver(memLimit, Sharing(p)') <= a.mem \div a.gpu
    BY <2>2, <2>3, <2>4, <2>5
  <2> QED
    BY <2>1, <2>2, <2>6
<1>4. WithinAllocatable'
  <2> SUFFICES ASSUME NEW p \in GpuPods \cup MemPods, Claims(p)'
               PROVE  \E a \in Allocs[ClaimNode(p)'] :
                        /\ SumOver(gpuLimit, ClaimsOn(ClaimNode(p))') <= a.gpu
                        /\ SumOver(memLimit, ClaimsOn(ClaimNode(p))') <= a.mem
    BY DEF WithinAllocatable
  <2>1. /\ Claims(p)
        /\ ClaimNode(p)' = ClaimNode(p)
        /\ ClaimNode(p) \in Nodes
        /\ ClaimsOn(ClaimNode(p))' \subseteq ClaimsOn(ClaimNode(p))
    BY <1>2, PodsAssumption
  <2>2. PICK a \in Allocs[ClaimNode(p)] :
          /\ SumOver(gpuLimit, ClaimsOn(ClaimNode(p))) <= a.gpu
          /\ SumOver(memLimit, ClaimsOn(ClaimNode(p))) <= a.mem
    BY <2>1 DEF ClaimsFit, WithinAllocatable
  <2>3. /\ SumOver(gpuLimit, ClaimsOn(ClaimNode(p))') <= SumOver(gpuLimit, ClaimsOn(ClaimNode(p)))
        /\ SumOver(memLimit, ClaimsOn(ClaimNode(p))') <= SumOver(memLimit, ClaimsOn(ClaimNode(p)))
    BY <2>1, ClaimSumsType, SumOverMonotone, PodsAssumption
  <2>4. /\ SumOver(gpuLimit, ClaimsOn(ClaimNode(p))) \in Nat
        /\ SumOver(memLimit, ClaimsOn(ClaimNode(p))) \in Nat
        /\ SumOver(gpuLimit, ClaimsOn(ClaimNode(p))') \in Nat
        /\ SumOver(memLimit, ClaimsOn(ClaimNode(p))') \in Nat
    BY <2>1, ClaimSumsType, UnitsFinite, PodsAssumption
  <2>5. a.mem \in Nat /\ a.gpu \in Nat
    BY <2>1, AllocsType
  <2> QED
    BY <2>1, <2>2, <2>3, <2>4, <2>5
<1> QED
  BY <1>1, <1>3, <1>4 DEF ClaimsFit
----------------------------------------------------------------------------
(* The scheduling cycle under way goes on: its snapshot refers to the same *)
(* objects, an annotation it reads may only disappear, and not from a      *)
(* claim.                                                                  *)
KeepsCycle ==
  /\ cycle' = cycle
  /\ up' = up
  /\ \A q \in Pods : cycle.objs[q] # "none" =>
       /\ IndexOf(q, cycle.objs[q])' \in {IndexOf(q, cycle.objs[q]), NoIndex}
       /\ Claims(q)' => IndexOf(q, cycle.objs[q])' = IndexOf(q, cycle.objs[q])

(* What the snapshot of the cycle's host holds.                            *)
LEMMA HostSnapshotFields ==
  /\ HostSnapshot.alloc = cycle.alloc
  /\ DOMAIN HostSnapshot.pods = {r \in Pods : cycle.objs[r] # "none"}
  /\ \A q \in Pods : cycle.objs[q] # "none" =>
       HostSnapshot.pods[q] = IndexOf(q, cycle.objs[q])
BY DEF HostSnapshot

(* A memory pod fits wherever it fitted if pods only leave the GPUs.       *)
LEMMA FewerPodsMoreFits ==
  ASSUME NEW ni, NEW nj, NEW limit \in Nat,
         ni.alloc.gpu \in Nat, ni.alloc.mem \in Nat,
         ni.alloc = nj.alloc,
         DOMAIN ni.pods \subseteq Pods, DOMAIN nj.pods = DOMAIN ni.pods,
         \A q \in DOMAIN ni.pods : nj.pods[q] \in {ni.pods[q], NoIndex}
  PROVE  MemAssumeFitIndexes(ni, limit) \subseteq MemAssumeFitIndexes(nj, limit)
<1> SUFFICES ASSUME NEW i \in MemAssumeFitIndexes(ni, limit)
             PROVE  i \in MemAssumeFitIndexes(nj, limit)
  OBVIOUS
<1>1. /\ i \in gpuIndexes(ni) /\ i \in Nat
      /\ ni.alloc.gpu > 0
      /\ ~monopoly(ni, i)
      /\ usedMemory(ni, i) + limit <= memEachGPU(ni)
  BY DEF MemAssumeFitIndexes, gpuIndexes
<1>2. PodsOn(nj, i) \subseteq PodsOn(ni, i) /\ PodsOn(ni, i) \subseteq Pods
  BY <1>1 DEF PodsOn, NoIndex
<1>3. ~monopoly(nj, i)
  BY <1>1, <1>2 DEF monopoly
<1>4. /\ usedMemory(nj, i) <= usedMemory(ni, i)
      /\ usedMemory(nj, i) \in Nat
      /\ usedMemory(ni, i) \in Nat
  <2>1. PodsOn(nj, i) \cap MemPods \in SUBSET (PodsOn(ni, i) \cap MemPods)
    BY <1>2
  <2>2. PodsOn(ni, i) \cap MemPods \in SUBSET Pods /\ PodsOn(nj, i) \cap MemPods \in SUBSET Pods
    BY <1>2
  <2> QED
    BY <2>1, <2>2, SumOverMonotone, UnitsFinite, PodsAssumption DEF usedMemory
<1>5. memEachGPU(nj) = memEachGPU(ni) /\ memEachGPU(ni) \in Int
  BY <1>1 DEF memEachGPU
<1>6. usedMemory(nj, i) + limit <= memEachGPU(nj)
  BY <1>1, <1>4, <1>5
<1> QED
  BY <1>1, <1>3, <1>6 DEF MemAssumeFitIndexes, gpuIndexes

(* While a cycle goes on, what its Filter and its snapshot established     *)
(* stays true.                                                             *)
LEMMA CycleKept ==
  ASSUME IInv, NoNewClaim, KeepsCycle
  PROVE  CycleSound' /\ SnapshotTracksClaims' /\ HostStaysUsable' /\ ClaimsFit'
<1>1. ClaimsFit'
  BY NoNewClaimFits DEF IInv
<1>2. /\ HostSnapshot'.alloc = HostSnapshot.alloc
      /\ DOMAIN HostSnapshot'.pods = DOMAIN HostSnapshot.pods
      /\ \A q \in DOMAIN HostSnapshot.pods :
           HostSnapshot'.pods[q] \in {HostSnapshot.pods[q], NoIndex}
  BY DEF HostSnapshot, KeepsCycle, IndexOf
<1>3. CycleSound'
  <2>1. QuantitiesFit(HostSnapshot, cycle.pod)' <=> QuantitiesFit(HostSnapshot, cycle.pod)
    BY <1>2 DEF QuantitiesFit, nodeResourceLimitSum, KeepsCycle
  <2> QED
    BY <2>1 DEF CycleSound, KeepsCycle, IInv
<1>4. SnapshotTracksClaims'
  <2> SUFFICES ASSUME NEW p \in Pods, cycle' # NoCycle, Claims(p)', ClaimNode(p)' = cycle'.host
               PROVE  /\ cycle'.objs[p] # "none"
                      /\ IndexOf(p, cycle.objs[p])' = ClaimIndex(p)'
    BY DEF SnapshotTracksClaims
  <2>1. /\ cycle # NoCycle
        /\ Claims(p) /\ ClaimNode(p) = cycle.host
        /\ ClaimIndex(p)' = ClaimIndex(p)
    BY DEF NoNewClaim, KeepsCycle
  <2>2. cycle.objs[p] # "none" /\ IndexOf(p, cycle.objs[p]) = ClaimIndex(p)
    BY <2>1 DEF IInv, SnapshotTracksClaims
  <2> QED
    BY <2>1, <2>2 DEF KeepsCycle
<1>5. HostStaysUsable'
  <2> SUFFICES ASSUME cycle # NoCycle, cycle.pod \in GpuPods \cup MemPods
               PROVE  /\ ~NewGPUNodePanics(HostSnapshot')
                      /\ cycle.pod \in MemPods =>
                           MemAssumeFitIndexes(HostSnapshot', memLimit[cycle.pod]) # {}
    BY DEF HostStaysUsable, KeepsCycle
  <2>1. /\ ~NewGPUNodePanics(HostSnapshot)
        /\ cycle.pod \in MemPods =>
             MemAssumeFitIndexes(HostSnapshot, memLimit[cycle.pod]) # {}
    BY DEF IInv, HostStaysUsable
  <2>2. ~NewGPUNodePanics(HostSnapshot')
    BY <1>2, <2>1 DEF NewGPUNodePanics
  <2>3. /\ HostSnapshot.alloc.gpu \in Nat /\ HostSnapshot.alloc.mem \in Nat
        /\ DOMAIN HostSnapshot.pods \subseteq Pods
        /\ memLimit[cycle.pod] \in Nat
    BY CycleType, HostSnapshotFields, PodsAssumption DEF IInv, Allocatable
  <2>4. MemAssumeFitIndexes(HostSnapshot, memLimit[cycle.pod])
          \subseteq MemAssumeFitIndexes(HostSnapshot', memLimit[cycle.pod])
    BY <1>2, <2>3, FewerPodsMoreFits
  <2> QED
    BY <2>1, <2>2, <2>4
<1> QED
  BY <1>1, <1>3, <1>4, <1>5

(* With no cycle there is nothing to keep but the claims.                  *)
LEMMA CycleEnded ==
  ASSUME IInv, NoNewClaim, cycle' = NoCycle
  PROVE  CycleSound' /\ SnapshotTracksClaims' /\ HostStaysUsable' /\ ClaimsFit'
<1>1. ClaimsFit'
  BY NoNewClaimFits DEF IInv
<1> QED
  BY <1>1 DEF CycleSound, SnapshotTracksClaims, HostStaysUsable
----------------------------------------------------------------------------
(* The steps outside the scheduling loop make no claim, leave the cycle    *)
(* under way as it is and keep the objects of every pod in agreement.      *)

(* Creating a pod.                                                         *)
LEMMA CreatePodStep ==
  ASSUME IInv, NEW p \in Pods, CreatePod(p)
  PROVE  NoNewClaim /\ KeepsCycle /\ ObjectsAgree' /\ CacheTracksClaims'
<1> USE DEF CreatePod
<1>1. NoNewClaim
  BY DEF NoNewClaim, Claims, ClaimNode, ClaimIndex, IInv, ObjectsAgree, TypeOK, Place
<1>2. KeepsCycle
  BY ObjsType DEF KeepsCycle, Claims, IndexOf, IInv, ObjectsAgree, TypeOK, Place
<1>3. ObjectsAgree'
  BY DEF IInv, ObjectsAgree, TypeOK, Place, Phases
<1>4. CacheTracksClaims'
  BY <1>1 DEF IInv, CacheTracksClaims, NoNewClaim, ObjectsAgree, NodeOf, IndexOf, Claims, ClaimNode, ClaimIndex, TypeOK, Place
<1> QED
  BY <1>1, <1>2, <1>3, <1>4

(* Deleting a pod only ends its claim.                                     *)
LEMMA DeletePodStep ==
  ASSUME IInv, NEW p \in Pods, DeletePod(p)
  PROVE  NoNewClaim /\ KeepsCycle /\ ObjectsAgree' /\ CacheTracksClaims'
<1> USE DEF DeletePod
<1>1. NoNewClaim
  BY DEF NoNewClaim, Claims, ClaimNode, ClaimIndex, IInv, ObjectsAgree, TypeOK, Place
<1>2. KeepsCycle
  BY ObjsType DEF KeepsCycle, Claims, IndexOf, IInv, ObjectsAgree, TypeOK, Place
<1>3. ObjectsAgree'
  BY DEF IInv, ObjectsAgree, TypeOK, Place, Phases
<1>4. CacheTracksClaims'
  BY <1>1 DEF IInv, CacheTracksClaims, NoNewClaim, ObjectsAgree, NodeOf, IndexOf, Claims, ClaimNode, ClaimIndex, TypeOK, Place
<1> QED
  BY <1>1, <1>2, <1>3, <1>4

(* The cycle keeps the allocatable devices it started with.                *)
LEMMA NodeUpdateStep ==
  ASSUME IInv, NEW n \in Nodes, NodeUpdate(n)
  PROVE  NoNewClaim /\ KeepsCycle /\ ObjectsAgree' /\ CacheTracksClaims'
<1> USE DEF NodeUpdate
<1>1. NoNewClaim
  BY DEF NoNewClaim, Claims, ClaimNode, ClaimIndex, IInv, ObjectsAgree, TypeOK, Place
<1>2. KeepsCycle
  BY ObjsType DEF KeepsCycle, Claims, IndexOf, IInv, ObjectsAgree, TypeOK, Place
<1>3. ObjectsAgree'
  BY DEF IInv, ObjectsAgree, TypeOK, Place, Phases
<1>4. CacheTracksClaims'
  BY <1>1 DEF IInv, CacheTracksClaims, NoNewClaim, ObjectsAgree, NodeOf, IndexOf, Claims, ClaimNode, ClaimIndex, TypeOK, Place
<1> QED
  BY <1>1, <1>2, <1>3, <1>4

(* Queueing a pod.                                                         *)
LEMMA InformerAddPendingStep ==
  ASSUME IInv, NEW p \in Pods, InformerAddPending(p)
  PROVE  NoNewClaim /\ KeepsCycle /\ ObjectsAgree' /\ CacheTracksClaims'
<1> USE DEF InformerAddPending
<1>1. NoNewClaim
  BY DEF NoNewClaim, Claims, ClaimNode, ClaimIndex, IInv, ObjectsAgree, TypeOK, Place
<1>2. KeepsCycle
  BY ObjsType DEF KeepsCycle, Claims, IndexOf, IInv, ObjectsAgree, TypeOK, Place
<1>3. ObjectsAgree'
  BY DEF IInv, ObjectsAgree, TypeOK, Place, Phases
<1>4. CacheTracksClaims'
  BY <1>1 DEF IInv, CacheTracksClaims, NoNewClaim, ObjectsAgree, NodeOf, IndexOf, Claims, ClaimNode, ClaimIndex, TypeOK, Place
<1> QED
  BY <1>1, <1>2, <1>3, <1>4

(* The event of a binding confirms the object that is in the cache.        *)
LEMMA InformerAddBoundStep ==
  ASSUME IInv, NEW p \in Pods, InformerAddBound(p)
  PROVE  NoNewClaim /\ KeepsCycle /\ ObjectsAgree' /\ CacheTracksClaims'
<1> USE DEF InformerAddBound
<1>1. NoNewClaim
  BY DEF NoNewClaim, Claims, ClaimNode, ClaimIndex, IInv, ObjectsAgree, TypeOK, Place
<1>2. KeepsCycle
  BY ObjsType DEF KeepsCycle, Claims, IndexOf, IInv, ObjectsAgree, TypeOK, Place
<1>3. ObjectsAgree'
  BY DEF IInv, ObjectsAgree, TypeOK, Place, Phases
<1>4. CacheTracksClaims'
  BY <1>1 DEF IInv, CacheTracksClaims, NoNewClaim, ObjectsAgree, NodeOf, IndexOf, Claims, ClaimNode, ClaimIndex, TypeOK, Place
<1> QED
  BY <1>1, <1>2, <1>3, <1>4

(* The stored object that replaces the copy has the same index.            *)
LEMMA InformerUpdateBoundStep ==
  ASSUME IInv, NEW p \in Pods, InformerUpdateBound(p)
  PROVE  NoNewClaim /\ KeepsCycle /\ ObjectsAgree' /\ CacheTracksClaims'
<1> USE DEF InformerUpdateBound
<1>1. NoNewClaim
  BY DEF NoNewClaim, Claims, ClaimNode, ClaimIndex, IInv, ObjectsAgree, TypeOK, Place
<1>2. KeepsCycle
  BY ObjsType DEF KeepsCycle, Claims, IndexOf, IInv, ObjectsAgree, TypeOK, Place
<1>3. ObjectsAgree'
  BY DEF IInv, ObjectsAgree, TypeOK, Place, Phases
<1>4. CacheTracksClaims'
  BY <1>1 DEF IInv, CacheTracksClaims, NoNewClaim, ObjectsAgree, NodeOf, IndexOf, Claims, ClaimNode, ClaimIndex, TypeOK, Place
<1> QED
  BY <1>1, <1>2, <1>3, <1>4

(* A pod leaves the cache only after its claim ended.                      *)
LEMMA InformerDeleteStep ==
  ASSUME IInv, NEW p \in Pods, InformerDelete(p)
  PROVE  NoNewClaim /\ KeepsCycle /\ ObjectsAgree' /\ CacheTracksClaims'
<1> USE DEF InformerDelete
<1>1. NoNewClaim
  BY DEF NoNewClaim, Claims, ClaimNode, ClaimIndex, IInv, ObjectsAgree, TypeOK, Place
<1>2. KeepsCycle
  BY ObjsType DEF KeepsCycle, Claims, IndexOf, IInv, ObjectsAgree, TypeOK, Place
<1>3. ObjectsAgree'
  BY DEF IInv, ObjectsAgree, TypeOK, Place, Phases
<1>4. CacheTracksClaims'
  BY <1>1 DEF IInv, CacheTracksClaims, NoNewClaim, ObjectsAgree, NodeOf, IndexOf, Claims, ClaimNode, ClaimIndex, TypeOK, Place
<1> QED
  BY <1>1, <1>2, <1>3, <1>4

(* The claim moves from the copy to the stored pod and stays the same.     *)
LEMMA BindStep ==
  ASSUME IInv, NEW p \in Pods, Bind(p)
  PROVE  NoNewClaim /\ KeepsCycle /\ ObjectsAgree' /\ CacheTracksClaims'
<1> USE DEF Bind, Store
<1>1. NoNewClaim
  BY DEF NoNewClaim, Claims, ClaimNode, ClaimIndex, IInv, ObjectsAgree, TypeOK, Place
<1>2. KeepsCycle
  BY ObjsType DEF KeepsCycle, Claims, IndexOf, IInv, ObjectsAgree, TypeOK, Place
<1>3. ObjectsAgree'
  BY DEF IInv, ObjectsAgree, TypeOK, Place, Phases
<1>4. CacheTracksClaims'
  BY <1>1 DEF IInv, CacheTracksClaims, NoNewClaim, ObjectsAgree, NodeOf, IndexOf, Claims, ClaimNode, ClaimIndex, TypeOK, Place
<1> QED
  BY <1>1, <1>2, <1>3, <1>4

(* A refused binding was no claim.                                         *)
LEMMA BindRefusedStep ==
  ASSUME IInv, NEW p \in Pods, BindRefused(p)
  PROVE  NoNewClaim /\ KeepsCycle /\ ObjectsAgree' /\ CacheTracksClaims'
<1> USE DEF BindRefused
<1>1. NoNewClaim
  BY DEF NoNewClaim, Claims, ClaimNode, ClaimIndex, IInv, ObjectsAgree, TypeOK, Place
<1>2. KeepsCycle
  BY ObjsType DEF KeepsCycle, Claims, IndexOf, IInv, ObjectsAgree, TypeOK, Place
<1>3. ObjectsAgree'
  BY DEF IInv, ObjectsAgree, TypeOK, Place, Phases
<1>4. CacheTracksClaims'
  BY <1>1 DEF IInv, CacheTracksClaims, NoNewClaim, ObjectsAgree, NodeOf, IndexOf, Claims, ClaimNode, ClaimIndex, TypeOK, Place
<1> QED
  BY <1>1, <1>2, <1>3, <1>4

(* A pod whose reply is lost is not a claim any more.                      *)
LEMMA BindReplyLostStep ==
  ASSUME IInv, NEW p \in Pods, BindReplyLost(p)
  PROVE  NoNewClaim /\ KeepsCycle /\ ObjectsAgree' /\ CacheTracksClaims'
<1> USE DEF BindReplyLost, Store
<1>1. NoNewClaim
  BY DEF NoNewClaim, Claims, ClaimNode, ClaimIndex, IInv, ObjectsAgree, TypeOK, Place
<1>2. KeepsCycle
  BY ObjsType DEF KeepsCycle, Claims, IndexOf, IInv, ObjectsAgree, TypeOK, Place
<1>3. ObjectsAgree'
  BY DEF IInv, ObjectsAgree, TypeOK, Place, Phases
<1>4. CacheTracksClaims'
  BY <1>1 DEF IInv, CacheTracksClaims, NoNewClaim, ObjectsAgree, NodeOf, IndexOf, Claims, ClaimNode, ClaimIndex, TypeOK, Place
<1> QED
  BY <1>1, <1>2, <1>3, <1>4

(* A binding given up is not a claim any more.                             *)
LEMMA BindTimeoutStep ==
  ASSUME IInv, NEW p \in Pods, BindTimeout(p)
  PROVE  NoNewClaim /\ KeepsCycle /\ ObjectsAgree' /\ CacheTracksClaims'
<1> USE DEF BindTimeout, RequestOf
<1>1. NoNewClaim
  BY DEF NoNewClaim, Claims, ClaimNode, ClaimIndex, IInv, ObjectsAgree, TypeOK, Place
<1>2. KeepsCycle
  BY ObjsType DEF KeepsCycle, Claims, IndexOf, IInv, ObjectsAgree, TypeOK, Place
<1>3. ObjectsAgree'
  BY DEF IInv, ObjectsAgree, TypeOK, Place, Phases
<1>4. CacheTracksClaims'
  BY <1>1 DEF IInv, CacheTracksClaims, NoNewClaim, ObjectsAgree, NodeOf, IndexOf, Claims, ClaimNode, ClaimIndex, TypeOK, Place
<1> QED
  BY <1>1, <1>2, <1>3, <1>4

(* A late binding makes a lost pod, not a claim.                           *)
LEMMA ApplyStaleStep ==
  ASSUME IInv, NEW r \in stale, ApplyStale(r)
  PROVE  NoNewClaim /\ KeepsCycle /\ ObjectsAgree' /\ CacheTracksClaims'
<1> USE DEF ApplyStale, Store, Request
<1>1. NoNewClaim
  BY DEF NoNewClaim, Claims, ClaimNode, ClaimIndex, IInv, ObjectsAgree, TypeOK, Place
<1>2. KeepsCycle
  BY ObjsType DEF KeepsCycle, Claims, IndexOf, IInv, ObjectsAgree, TypeOK, Place
<1>3. ObjectsAgree'
  BY DEF IInv, ObjectsAgree, TypeOK, Place, Phases
<1>4. CacheTracksClaims'
  BY <1>1 DEF IInv, CacheTracksClaims, NoNewClaim, ObjectsAgree, NodeOf, IndexOf, Claims, ClaimNode, ClaimIndex, TypeOK, Place
<1> QED
  BY <1>1, <1>2, <1>3, <1>4

(* Unreserve deletes the annotation of a pod without a claim.              *)
LEMMA UnreserveStep ==
  ASSUME IInv, NEW p \in Pods, Unreserve(p)
  PROVE  NoNewClaim /\ KeepsCycle /\ ObjectsAgree' /\ CacheTracksClaims'
<1> USE DEF Unreserve
<1>1. NoNewClaim
  BY DEF NoNewClaim, Claims, ClaimNode, ClaimIndex, IInv, ObjectsAgree, TypeOK, Place
<1>2. KeepsCycle
  BY ObjsType DEF KeepsCycle, Claims, IndexOf, IInv, ObjectsAgree, TypeOK, Place
<1>3. ObjectsAgree'
  BY DEF IInv, ObjectsAgree, TypeOK, Place, Phases
<1>4. CacheTracksClaims'
  BY <1>1 DEF IInv, CacheTracksClaims, NoNewClaim, ObjectsAgree, NodeOf, IndexOf, Claims, ClaimNode, ClaimIndex, TypeOK, Place
<1> QED
  BY <1>1, <1>2, <1>3, <1>4

(* ForgetPod removes a pod without a claim.                                *)
LEMMA ForgetStep ==
  ASSUME IInv, NEW p \in Pods, Forget(p)
  PROVE  NoNewClaim /\ KeepsCycle /\ ObjectsAgree' /\ CacheTracksClaims'
<1> USE DEF Forget, Requeue
<1>1. NoNewClaim
  BY DEF NoNewClaim, Claims, ClaimNode, ClaimIndex, IInv, ObjectsAgree, TypeOK, Place
<1>2. KeepsCycle
  BY ObjsType DEF KeepsCycle, Claims, IndexOf, IInv, ObjectsAgree, TypeOK, Place
<1>3. ObjectsAgree'
  BY DEF IInv, ObjectsAgree, TypeOK, Place, Phases
<1>4. CacheTracksClaims'
  BY <1>1 DEF IInv, CacheTracksClaims, NoNewClaim, ObjectsAgree, NodeOf, IndexOf, Claims, ClaimNode, ClaimIndex, TypeOK, Place
<1> QED
  BY <1>1, <1>2, <1>3, <1>4

(* An expired pod is lost.                                                 *)
LEMMA ExpireAssumedStep ==
  ASSUME IInv, NEW p \in Pods, ExpireAssumed(p)
  PROVE  NoNewClaim /\ KeepsCycle /\ ObjectsAgree' /\ CacheTracksClaims'
<1> USE DEF ExpireAssumed
<1>1. NoNewClaim
  BY DEF NoNewClaim, Claims, ClaimNode, ClaimIndex, IInv, ObjectsAgree, TypeOK, Place
<1>2. KeepsCycle
  BY ObjsType DEF KeepsCycle, Claims, IndexOf, IInv, ObjectsAgree, TypeOK, Place
<1>3. ObjectsAgree'
  BY DEF IInv, ObjectsAgree, TypeOK, Place, Phases
<1>4. CacheTracksClaims'
  BY <1>1 DEF IInv, CacheTracksClaims, NoNewClaim, ObjectsAgree, NodeOf, IndexOf, Claims, ClaimNode, ClaimIndex, TypeOK, Place
<1> QED
  BY <1>1, <1>2, <1>3, <1>4
----------------------------------------------------------------------------
(* The steps of the scheduling loop, and those that end it.                *)

(* A panic, a crash: what is on the wire stays claimed.                    *)
LEMMA DieStep ==
  ASSUME IInv, Die
  PROVE  NoNewClaim /\ cycle' = NoCycle /\ ObjectsAgree' /\ CacheTracksClaims'
<1> USE DEF Die
<1>1. NoNewClaim
  BY DEF NoNewClaim, Claims, ClaimNode, ClaimIndex, IInv, ObjectsAgree, TypeOK, Place
<1>2. ObjectsAgree'
  BY NoCycleType, NoneAssumption DEF IInv, ObjectsAgree, TypeOK, Place, Phases
<1> QED
  BY <1>1, <1>2 DEF CacheTracksClaims

(* The new scheduler finds every claim in the list of stored pods.         *)
LEMMA RestartStep ==
  ASSUME IInv, Restart
  PROVE  NoNewClaim /\ cycle' = NoCycle /\ ObjectsAgree' /\ CacheTracksClaims'
<1> USE DEF Restart
<1>0. cycle = NoCycle
  BY DEF IInv, CycleSound, TypeOK
<1>1. NoNewClaim
  BY DEF NoNewClaim, Claims, ClaimNode, ClaimIndex, IInv, ObjectsAgree, TypeOK, Place
<1>2. ObjectsAgree'
  <2>1. \A r \in stale' : r.node \in Nodes
    BY DEF IInv, ObjectsAgree, RequestOf
  <2> QED
    BY <1>0, <2>1, NoCycleType, NoneAssumption
       DEF IInv, ObjectsAgree, TypeOK, Place, Phases, Nowhere
<1>3. CacheTracksClaims'
  BY DEF CacheTracksClaims, Claims, ClaimNode, ClaimIndex, NodeOf, IndexOf
<1> QED
  BY <1>0, <1>1, <1>2, <1>3

(* A pod that is in the cache is not assumed again.                        *)
LEMMA AssumeFailsStep ==
  ASSUME IInv, AssumeFails
  PROVE  NoNewClaim /\ cycle' = NoCycle /\ ObjectsAgree' /\ CacheTracksClaims'
<1> USE DEF AssumeFails, Requeue
<1>0. cycle.pod \in Pods
  BY CycleType DEF IInv
<1>1. NoNewClaim
  BY DEF NoNewClaim, Claims, ClaimNode, ClaimIndex
<1>2. ObjectsAgree'
  BY <1>0, NoCycleType, NoneAssumption DEF IInv, ObjectsAgree, TypeOK, Place, Phases
<1>3. CacheTracksClaims'
  BY DEF IInv, CacheTracksClaims, Claims, ClaimNode, ClaimIndex, NodeOf, IndexOf
<1> QED
  BY <1>1, <1>2, <1>3

(* The pod of a cycle that finds it outside the cache has no claim.        *)
LEMMA NewcomerHasNoClaim ==
  ASSUME IInv, cycle # NoCycle, info[cycle.pod] = "none"
  PROVE  cycle.pod \in Pods /\ cycle.host \in Nodes /\ ~Claims(cycle.pod)
BY CycleType DEF IInv, CycleSound, CacheTracksClaims

(* A failed Reserve leaves no claim.                                       *)
LEMMA ReserveFailsStep ==
  ASSUME IInv, ReserveFails
  PROVE  NoNewClaim /\ cycle' = NoCycle /\ ObjectsAgree' /\ CacheTracksClaims'
<1> USE DEF ReserveFails, Requeue
<1>0. cycle.pod \in Pods /\ cycle.host \in Nodes /\ ~Claims(cycle.pod)
  BY NewcomerHasNoClaim
<1>1. NoNewClaim
  BY <1>0 DEF NoNewClaim, Claims, ClaimNode, ClaimIndex, IInv, TypeOK
<1>2. ObjectsAgree'
  BY <1>0, NoCycleType, NoneAssumption DEF IInv, ObjectsAgree, TypeOK, Place, Phases
<1>3. CacheTracksClaims'
  BY <1>0 DEF IInv, CacheTracksClaims, Claims, ClaimNode, ClaimIndex, NodeOf, IndexOf, TypeOK
<1> QED
  BY <1>1, <1>2, <1>3

(* A new cycle starts from a snapshot of all claims on its host and from   *)
(* what Filter found there.                                                *)
LEMMA ScheduleStep ==
  ASSUME IInv, NEW p \in Pods, Schedule(p)
  PROVE  /\ NoNewClaim /\ ObjectsAgree' /\ CacheTracksClaims'
         /\ CycleSound' /\ SnapshotTracksClaims' /\ HostStaysUsable'
<1>1. PICK other \in OtherScores : \E host \in BestNodes(p, other) :
        cycle' = [pod |-> p, host |-> host, alloc |-> alloc[host],
                  objs |-> [q \in Pods |-> IF q \in CachedOn(host) THEN info[q] ELSE "none"]]
  BY DEF Schedule
<1>2. PICK host \in BestNodes(p, other) :
        cycle' = [pod |-> p, host |-> host, alloc |-> alloc[host],
                  objs |-> [q \in Pods |-> IF q \in CachedOn(host) THEN info[q] ELSE "none"]]
  BY <1>1
<1>3. host \in Nodes /\ Filter(SnapshotOf(host), p) /\ ~FilterPanics(SnapshotOf(host), p)
  BY <1>2, BestNodesFeasible, FeasibleNodesFiltered DEF Schedule
<1>4. /\ UNCHANGED <<api, alloc, seen, info, assumed, own, pc, stale, up, faults, lost>>
      /\ up /\ p \in queue /\ queue' \subseteq queue
  BY DEF Schedule, CanPop
<1>5. NoNewClaim
  BY <1>4 DEF NoNewClaim, Claims, ClaimNode, ClaimIndex
<1>6. ObjectsAgree'
  BY <1>2, <1>4 DEF IInv, ObjectsAgree, TypeOK
<1>7. CacheTracksClaims'
  BY <1>4 DEF IInv, CacheTracksClaims, Claims, ClaimNode, ClaimIndex, NodeOf, IndexOf
<1>8. HostSnapshot' = SnapshotOf(host)
  <2>1. {r \in Pods : cycle'.objs[r] # "none"} = CachedOn(host)
    BY <1>2 DEF CachedOn
  <2>2. \A q \in CachedOn(host) : q \in Pods /\ cycle'.objs[q] = info[q]
    BY <1>2 DEF CachedOn
  <2>3. cycle'.alloc = alloc[host]
    BY <1>2
  <2> QED
    BY <1>4, <2>1, <2>2, <2>3 DEF HostSnapshot, SnapshotOf, IndexOf
<1>9. CycleSound'
  <2>1. cycle'.alloc \in Allocs[cycle'.host] /\ cycle'.pod = p
    BY <1>2, <1>3 DEF IInv, TypeOK
  <2>2. p \in GpuPods \cup MemPods => QuantitiesFit(SnapshotOf(host), p)
    BY <1>3 DEF Filter
  <2> QED
    BY <1>4, <1>8, <2>1, <2>2 DEF CycleSound
<1>10. SnapshotTracksClaims'
  <2> SUFFICES ASSUME NEW q \in Pods, Claims(q)', ClaimNode(q)' = cycle'.host
               PROVE  /\ cycle'.objs[q] # "none"
                      /\ IndexOf(q, cycle.objs[q])' = ClaimIndex(q)'
    BY DEF SnapshotTracksClaims
  <2>1. Claims(q) /\ ClaimNode(q) = host /\ ClaimIndex(q)' = ClaimIndex(q)
    BY <1>2, <1>5 DEF NoNewClaim
  <2>2. /\ info[q] # "none"
        /\ NodeOf(q, info[q]) = host
        /\ IndexOf(q, info[q]) = ClaimIndex(q)
    BY <1>4, <2>1 DEF IInv, CacheTracksClaims
  <2>3. cycle'.objs[q] = info[q]
    BY <1>2, <2>2 DEF CachedOn
  <2> QED
    BY <1>4, <2>1, <2>2, <2>3 DEF IndexOf
<1>11. HostStaysUsable'
  <2>1. cycle'.pod = p
    BY <1>2
  <2>2. p \in GpuPods \cup MemPods => ~NewGPUNodePanics(SnapshotOf(host))
    BY <1>3 DEF Filter, FilterPanics
  <2>3. p \in MemPods => MemAssumeFitIndexes(SnapshotOf(host), memLimit[p]) # {}
    BY <1>3 DEF Filter
  <2> QED
    BY <1>8, <2>1, <2>2, <2>3 DEF HostStaysUsable
<1> QED
  BY <1>5, <1>6, <1>7, <1>9, <1>10, <1>11
----------------------------------------------------------------------------
(* Reserve makes the claim of the cycle's pod.                             *)

(* Nothing else changes: the other claims stay where they are, and the     *)
(* snapshot has all of them that are on the host.                          *)
LEMMA ReserveClaims ==
  ASSUME IInv, Reserve, NEW p, p = cycle.pod
  PROVE  /\ p \in Pods /\ cycle.host \in Nodes /\ ~Claims(p)
         /\ Claims(p)' =>
              /\ ClaimNode(p)' = cycle.host
              /\ ClaimIndex(p)' = own'[p].index
         /\ \A q \in Pods \ {p} :
              /\ Claims(q)' <=> Claims(q)
              /\ ClaimNode(q)' = ClaimNode(q)
              /\ ClaimIndex(q)' = ClaimIndex(q)
         /\ \A q \in Pods : Claims(q) /\ ClaimNode(q) = cycle.host =>
              q \in DOMAIN HostSnapshot.pods /\ HostSnapshot.pods[q] = ClaimIndex(q)
<1>1. p \in Pods /\ cycle.host \in Nodes /\ ~Claims(p)
  BY NewcomerHasNoClaim DEF Reserve
<1>2. Claims(p)' =>
              /\ ClaimNode(p)' = cycle.host
              /\ ClaimIndex(p)' = own'[p].index
  BY <1>1 DEF Reserve, Claims, ClaimNode, ClaimIndex, IInv, TypeOK
<1>3. ASSUME NEW q \in Pods \ {p}
      PROVE  /\ Claims(q)' <=> Claims(q)
             /\ ClaimNode(q)' = ClaimNode(q)
             /\ ClaimIndex(q)' = ClaimIndex(q)
  BY <1>1 DEF Reserve, Claims, ClaimNode, ClaimIndex, IInv, TypeOK
<1>4. ASSUME NEW q \in Pods, Claims(q), ClaimNode(q) = cycle.host
      PROVE  q \in DOMAIN HostSnapshot.pods /\ HostSnapshot.pods[q] = ClaimIndex(q)
  <2>1. cycle.objs[q] # "none" /\ IndexOf(q, cycle.objs[q]) = ClaimIndex(q)
    BY <1>4 DEF Reserve, IInv, SnapshotTracksClaims
  <2> QED
    BY <2>1, HostSnapshotFields
<1> QED
  BY <1>1, <1>2, <1>3, <1>4

(* The index it writes: a GPU without a monopoly pod, empty for a pod with *)
(* a gpu limit, with room for a pod with a memory limit.                   *)
LEMMA ReserveIndex ==
  ASSUME IInv, Reserve, cycle.pod \in GpuPods \cup MemPods
  PROVE  LET i == own'[cycle.pod].index IN
         /\ i \in Nat /\ i < cycle.alloc.gpu
         /\ \A q \in PodsOn(HostSnapshot, i) : q \notin GpuPods
         /\ cycle.pod \in GpuPods => cycle.pod \notin MemPods /\ usedMemory(HostSnapshot, i) = 0
         /\ cycle.pod \notin GpuPods =>
              usedMemory(HostSnapshot, i) + memLimit[cycle.pod]
                <= cycle.alloc.mem \div cycle.alloc.gpu
<1>1. PICK i \in gpuIndexes(HostSnapshot) \cup {NoIndex} :
        /\ FirstIndex(ReserveFits(HostSnapshot, cycle.pod), i)
        /\ own' = [own EXCEPT ![cycle.pod] = [node |-> cycle.host, index |-> i]]
  BY DEF Reserve
<1>2. cycle.pod \in Pods /\ cycle.alloc.gpu \in Nat
  BY CycleType DEF Reserve, IInv
<1>3. own'[cycle.pod].index = i
  BY <1>1, <1>2 DEF IInv, TypeOK
<1>4. i \in ReserveFits(HostSnapshot, cycle.pod)
  BY <1>1 DEF FirstIndex
<1>5. HostSnapshot.alloc = cycle.alloc
  BY HostSnapshotFields
<1>6. CASE cycle.pod \in GpuPods
  <2>1. cycle.pod \notin MemPods /\ i \in GPUAssumeFitIndexes(HostSnapshot)
    BY <1>4, <1>6 DEF ReserveFits
  <2> QED
    BY <1>2, <1>3, <1>5, <1>6, <2>1 DEF GPUAssumeFitIndexes, gpuIndexes, monopoly
<1>7. CASE cycle.pod \notin GpuPods
  <2>1. i \in MemAssumeFitIndexes(HostSnapshot, memLimit[cycle.pod])
    BY <1>4, <1>7 DEF ReserveFits
  <2> QED
    BY <1>2, <1>3, <1>5, <1>7, <2>1 DEF MemAssumeFitIndexes, gpuIndexes, monopoly, memEachGPU
<1> QED
  BY <1>6, <1>7

(* What is on that GPU in the snapshot, p included, fits its memory.       *)
LEMMA ReserveMemory ==
  ASSUME IInv, Reserve, cycle.pod \in MemPods,
         NEW S \in SUBSET (PodsOn(HostSnapshot, own'[cycle.pod].index) \cup {cycle.pod})
  PROVE  /\ cycle.alloc \in Allocs[cycle.host]
         /\ cycle.alloc.gpu > 0
         /\ SumOver(memLimit, S) <= cycle.alloc.mem \div cycle.alloc.gpu
<1> DEFINE p == cycle.pod
           on == PodsOn(HostSnapshot, own'[cycle.pod].index)
<1>1. /\ p \in Pods /\ p \notin GpuPods
      /\ cycle.alloc \in Allocs[cycle.host] /\ cycle.alloc.gpu \in Nat /\ cycle.alloc.mem \in Nat
      /\ cycle.alloc.gpu > 0
      /\ usedMemory(HostSnapshot, own'[p].index) + memLimit[p]
           <= cycle.alloc.mem \div cycle.alloc.gpu
  <2>1. p \in Pods /\ cycle.alloc \in Allocs[cycle.host] /\ cycle.alloc \in Allocatable
    BY CycleType DEF Reserve, IInv, CycleSound
  <2>2. cycle.alloc.gpu \in Nat /\ cycle.alloc.mem \in Nat
    BY <2>1 DEF Allocatable
  <2> QED
    BY <2>1, <2>2, ReserveIndex
<1>2. on \subseteq Pods
  BY HostSnapshotFields DEF PodsOn
<1>3. SumOver(memLimit, on) = usedMemory(HostSnapshot, own'[p].index)
  BY <1>2, SumOverRestrict, PodsAssumption DEF usedMemory
<1>4. SumOver(memLimit, on \cup {p}) <= SumOver(memLimit, on) + memLimit[p]
  BY <1>1, <1>2, SumOverAdd, PodsAssumption
<1>5. SumOver(memLimit, S) <= SumOver(memLimit, on \cup {p})
  BY <1>1, <1>2, SumOverMonotone, PodsAssumption
<1>6. /\ SumOver(memLimit, S) \in Nat
      /\ SumOver(memLimit, on) \in Nat
      /\ SumOver(memLimit, on \cup {p}) \in Nat
      /\ memLimit[p] \in Nat
      /\ cycle.alloc.mem \div cycle.alloc.gpu \in Int
  BY <1>1, <1>2, UnitsFinite, PodsAssumption
<1> QED
  BY <1>1, <1>3, <1>4, <1>5, <1>6

(* Reserve keeps the GPUs exclusive.                                       *)
LEMMA ReserveExclusive ==
  ASSUME IInv, Reserve
  PROVE  GPUExclusive'
<1> PICK p : p = cycle.pod
  OBVIOUS
<1> DEFINE i == own'[p].index
<1> SUFFICES ASSUME NEW a \in Pods, Claims(a)', NEW b \in Sharing(a)'
             PROVE  ~Clash(a, b)
  BY DEF GPUExclusive, Clash
<1>1. b \in Pods /\ Claims(b)' /\ ClaimNode(b)' = ClaimNode(a)' /\ ClaimIndex(b)' = ClaimIndex(a)'
  BY DEF Sharing, ClaimsOn
<1>2. CASE a # p /\ b # p
  <2>1. Claims(a) /\ b \in Sharing(a)
    BY <1>1, <1>2, ReserveClaims DEF Sharing, ClaimsOn
  <2> QED
    BY <2>1 DEF IInv, ClaimsFit, GPUExclusive
<1>3. CASE a = p /\ b # p
  <2> SUFFICES ASSUME p \in GpuPods PROVE b \notin GpuPods /\ ~(memLimit[b] > 0)
    BY <1>3 DEF Clash
  <2>1. b \in PodsOn(HostSnapshot, i)
    BY <1>1, <1>3, ReserveClaims DEF PodsOn
  <2>2. b \notin GpuPods /\ usedMemory(HostSnapshot, i) = 0
    BY <2>1, ReserveIndex
  <2>3. memLimit[b] = 0
    <3>1. CASE b \in MemPods
      <4>1. PodsOn(HostSnapshot, i) \cap MemPods \in SUBSET Pods
        BY PodsAssumption
      <4>2. memLimit[b] <= SumOver(memLimit, PodsOn(HostSnapshot, i) \cap MemPods)
        BY <2>1, <3>1, <4>1, SumOverMember, PodsAssumption
      <4>3. memLimit[b] \in Nat
        BY <1>1, PodsAssumption
      <4> QED
        BY <2>2, <4>2, <4>3 DEF usedMemory
    <3>2. CASE b \notin MemPods
      BY <1>1, <3>2, PodsAssumption
    <3> QED
      BY <3>1, <3>2
  <2> QED
    BY <2>2, <2>3
<1>4. CASE a # p /\ b = p
  <2>1. CASE p \in GpuPods \cup MemPods
    <3>1. a \in PodsOn(HostSnapshot, i)
      BY <1>1, <1>4, ReserveClaims DEF PodsOn
    <3> QED
      BY <2>1, <3>1, ReserveIndex DEF Clash
  <2>2. CASE p \notin GpuPods \cup MemPods
    BY <1>1, <1>4, <2>2, PodsAssumption DEF Clash
  <2> QED
    BY <2>1, <2>2
<1>5. CASE a = p /\ b = p
  BY <1>5 DEF Clash
<1> QED
  BY <1>2, <1>3, <1>4, <1>5

(* Reserve keeps the memory of every GPU within its size.                  *)
LEMMA ReserveMemoryFits ==
  ASSUME IInv, Reserve
  PROVE  MemoryFits'
<1> PICK p : p = cycle.pod
  OBVIOUS
<1> DEFINE i == own'[p].index
<1> SUFFICES ASSUME NEW a \in MemPods, Claims(a)'
             PROVE  \E c \in Allocs[ClaimNode(a)'] :
                      c.gpu > 0 /\ SumOver(memLimit, Sharing(a)') <= c.mem \div c.gpu
  BY DEF MemoryFits
<1>0. a \in Pods /\ p \in Pods /\ cycle.host \in Nodes
  BY ReserveClaims, PodsAssumption
<1>1. CASE p \in MemPods /\ p \in Sharing(a)'
  <2>1. Claims(p)' /\ ClaimNode(a)' = ClaimNode(p)' /\ ClaimIndex(a)' = ClaimIndex(p)'
    BY <1>1 DEF Sharing, ClaimsOn
  <2>2. ClaimNode(p)' = cycle.host /\ ClaimIndex(p)' = i
    BY <2>1, ReserveClaims
  <2>3. ASSUME NEW q \in Sharing(a)', q # p
        PROVE  q \in PodsOn(HostSnapshot, i)
    <3>1. q \in Pods /\ Claims(q)' /\ ClaimNode(q)' = cycle.host /\ ClaimIndex(q)' = i
      BY <2>1, <2>2, <2>3 DEF Sharing, ClaimsOn
    <3> QED
      BY <2>3, <3>1, ReserveClaims DEF PodsOn
  <2>4. Sharing(a)' \in SUBSET (PodsOn(HostSnapshot, i) \cup {p})
    BY <2>3
  <2>5. /\ cycle.alloc \in Allocs[cycle.host]
        /\ cycle.alloc.gpu > 0
        /\ SumOver(memLimit, Sharing(a)') <= cycle.alloc.mem \div cycle.alloc.gpu
    BY <1>1, <2>4, ReserveMemory
  <2> QED
    BY <2>1, <2>2, <2>5
<1>2. CASE ~(p \in MemPods /\ p \in Sharing(a)')
  <2>1. a # p /\ Claims(a) /\ ClaimNode(a)' = ClaimNode(a) /\ ClaimIndex(a)' = ClaimIndex(a)
    <3>1. a \in Sharing(a)'
      BY <1>0 DEF Sharing, ClaimsOn
    <3> QED
      BY <1>0, <1>2, <3>1, ReserveClaims
  <2>2. PICK c \in Allocs[ClaimNode(a)] :
          c.gpu > 0 /\ SumOver(memLimit, Sharing(a)) <= c.mem \div c.gpu
    BY <2>1 DEF IInv, ClaimsFit, MemoryFits
  <2>3. Sharing(a)' \subseteq Sharing(a) \cup {p} /\ Sharing(a) \subseteq Pods
    BY <2>1, ReserveClaims DEF Sharing, ClaimsOn
  <2>4. SumOver(memLimit, Sharing(a)') <= SumOver(memLimit, Sharing(a))
    <3>1. CASE p \in Sharing(a)'
      <4>1. memLimit[p] = 0
        BY <1>0, <1>2, <3>1, PodsAssumption
      <4>2. SumOver(memLimit, Sharing(a) \cup {p}) <= SumOver(memLimit, Sharing(a)) + memLimit[p]
        BY <1>0, <2>3, SumOverAdd, PodsAssumption
      <4>3. SumOver(memLimit, Sharing(a)') <= SumOver(memLimit, Sharing(a) \cup {p})
        BY <1>0, <2>3, SumOverMonotone, PodsAssumption
      <4>4. /\ SumOver(memLimit, Sharing(a)') \in Nat
            /\ SumOver(memLimit, Sharing(a)) \in Nat
            /\ SumOver(memLimit, Sharing(a) \cup {p}) \in Nat
        BY <1>0, <2>3, UnitsFinite, PodsAssumption
      <4> QED
        BY <4>1, <4>2, <4>3, <4>4
    <3>2. CASE p \notin Sharing(a)'
      <4>1. Sharing(a)' \in SUBSET Sharing(a)
        BY <2>3, <3>2
      <4> QED
        BY <2>3, <4>1, SumOverMonotone, PodsAssumption
    <3> QED
      BY <3>1, <3>2
  <2>5. /\ SumOver(memLimit, Sharing(a)') \in Nat
        /\ SumOver(memLimit, Sharing(a)) \in Nat
    BY <1>0, <2>3, UnitsFinite, PodsAssumption
  <2>6. c.mem \in Nat /\ c.gpu \in Nat
    BY <1>0, <2>1, <2>2, ClaimNodeType, AllocsType DEF IInv
  <2>7. SumOver(memLimit, Sharing(a)') <= c.mem \div c.gpu
    BY <2>2, <2>4, <2>5, <2>6
  <2> QED
    BY <2>1, <2>2, <2>7
<1> QED
  BY <1>1, <1>2

(* Reserve keeps the totals of the host within its allocatable devices.    *)
LEMMA ReserveWithinAllocatable ==
  ASSUME IInv, Reserve
  PROVE  WithinAllocatable'
<1> PICK p : p = cycle.pod
  OBVIOUS
<1> SUFFICES ASSUME NEW a \in GpuPods \cup MemPods, Claims(a)'
             PROVE  \E c \in Allocs[ClaimNode(a)'] :
                      /\ SumOver(gpuLimit, ClaimsOn(ClaimNode(a))') <= c.gpu
                      /\ SumOver(memLimit, ClaimsOn(ClaimNode(a))') <= c.mem
  BY DEF WithinAllocatable
<1> DEFINE T == ClaimsOn(ClaimNode(a))'
<1>0. a \in Pods /\ p \in Pods /\ cycle.host \in Nodes
  BY ReserveClaims, PodsAssumption
<1>1. CASE p \in T /\ p \in GpuPods \cup MemPods
  <2> DEFINE D == DOMAIN HostSnapshot.pods
  <2>1. ClaimNode(a)' = cycle.host
    BY <1>1, ReserveClaims DEF ClaimsOn
  <2>2. T \subseteq D \cup {p} /\ D \subseteq Pods
    BY <2>1, ReserveClaims, HostSnapshotFields DEF ClaimsOn
  <2>3. /\ cycle.alloc \in Allocs[cycle.host]
        /\ SumOver(gpuLimit, D) + gpuLimit[p] <= cycle.alloc.gpu
        /\ SumOver(memLimit, D) + memLimit[p] <= cycle.alloc.mem
    BY <1>1, HostSnapshotFields
       DEF Reserve, IInv, CycleSound, QuantitiesFit, nodeResourceLimitSum
  <2>4. /\ SumOver(gpuLimit, D \cup {p}) <= SumOver(gpuLimit, D) + gpuLimit[p]
        /\ SumOver(memLimit, D \cup {p}) <= SumOver(memLimit, D) + memLimit[p]
    BY <1>0, <2>2, SumOverAdd, PodsAssumption
  <2>5. /\ SumOver(gpuLimit, T) <= SumOver(gpuLimit, D \cup {p})
        /\ SumOver(memLimit, T) <= SumOver(memLimit, D \cup {p})
    BY <1>0, <2>2, SumOverMonotone, PodsAssumption
  <2>6. /\ SumOver(gpuLimit, T) \in Nat /\ SumOver(memLimit, T) \in Nat
        /\ SumOver(gpuLimit, D) \in Nat /\ SumOver(memLimit, D) \in Nat
        /\ SumOver(gpuLimit, D \cup {p}) \in Nat /\ SumOver(memLimit, D \cup {p}) \in Nat
        /\ gpuLimit[p] \in Nat /\ memLimit[p] \in Nat
    BY <1>0, <2>2, UnitsFinite, PodsAssumption
  <2>7. cycle.alloc.gpu \in Nat /\ cycle.alloc.mem \in Nat
    BY <1>0, <2>3, AllocsType
  <2> QED
    BY <2>1, <2>3, <2>4, <2>5, <2>6, <2>7
<1>2. CASE ~(p \in T /\ p \in GpuPods \cup MemPods)
  <2>1. a # p /\ Claims(a) /\ ClaimNode(a)' = ClaimNode(a)
    <3>1. a \in T
      BY <1>0 DEF ClaimsOn
    <3> QED
      BY <1>0, <1>2, <3>1, ReserveClaims
  <2> DEFINE S == ClaimsOn(ClaimNode(a))
  <2>2. PICK c \in Allocs[ClaimNode(a)] :
          SumOver(gpuLimit, S) <= c.gpu /\ SumOver(memLimit, S) <= c.mem
    BY <2>1 DEF IInv, ClaimsFit, WithinAllocatable
  <2>3. T \subseteq S \cup {p} /\ S \subseteq Pods
    BY <2>1, ReserveClaims DEF ClaimsOn
  <2>4. /\ T \in SUBSET Pods
        /\ \A q \in T \ S : gpuLimit[q] = 0
        /\ \A q \in T \ S : memLimit[q] = 0
    BY <1>0, <1>2, <2>3, PodsAssumption
  <2>5. /\ SumOver(gpuLimit, T) = SumOver(gpuLimit, T \cap S)
        /\ SumOver(memLimit, T) = SumOver(memLimit, T \cap S)
    <3>1. gpuLimit \in [Pods -> Nat] /\ memLimit \in [Pods -> Nat]
      BY PodsAssumption
    <3> HIDE DEF S, T
    <3>2. SumOver(gpuLimit, T) = SumOver(gpuLimit, T \cap S)
      BY <2>4, <3>1, SumOverRestrict
    <3>3. SumOver(memLimit, T) = SumOver(memLimit, T \cap S)
      BY <2>4, <3>1, SumOverRestrict
    <3> QED
      BY <3>2, <3>3
  <2>6. SumOver(gpuLimit, T \cap S) <= SumOver(gpuLimit, S) /\ SumOver(memLimit, T \cap S) <= SumOver(memLimit, S)
    BY <2>3, SumOverMonotone, PodsAssumption
  <2>7. /\ SumOver(gpuLimit, T) \in Nat /\ SumOver(memLimit, T) \in Nat
        /\ SumOver(gpuLimit, S) \in Nat /\ SumOver(memLimit, S) \in Nat
    BY <1>0, <2>3, UnitsFinite, PodsAssumption
  <2>8. c.gpu \in Nat /\ c.mem \in Nat
    BY <1>0, <2>1, <2>2, ClaimNodeType, AllocsType DEF IInv
  <2> QED
    BY <2>1, <2>2, <2>5, <2>6, <2>7, <2>8
<1> QED
  BY <1>1, <1>2

(* Reserve keeps the invariant.                                            *)
LEMMA ReserveStep ==
  ASSUME IInv, Reserve
  PROVE  /\ ObjectsAgree' /\ CacheTracksClaims' /\ CycleSound'
         /\ SnapshotTracksClaims' /\ HostStaysUsable' /\ ClaimsFit'
<1> PICK p : p = cycle.pod
  OBVIOUS
<1>1. cycle' = NoCycle
  BY DEF Reserve
<1>2. ObjectsAgree'
  <2>1. p \in Pods /\ cycle.host \in Nodes /\ ~Claims(p)
    BY ReserveClaims
  <2> QED
    BY <1>1, <2>1, NoCycleType, NoneAssumption
       DEF Reserve, IInv, ObjectsAgree, Claims, TypeOK, Place, Phases
<1>3. CacheTracksClaims'
  <2> SUFFICES ASSUME NEW q \in Pods, up', Claims(q)'
               PROVE  /\ info'[q] # "none"
                      /\ NodeOf(q, info[q])' = ClaimNode(q)'
                      /\ IndexOf(q, info[q])' = ClaimIndex(q)'
    BY DEF CacheTracksClaims
  <2>1. CASE q = p
    <3>1. PICK i : own' = [own EXCEPT ![p] = [node |-> cycle.host, index |-> i]]
      BY DEF Reserve
    <3>2. info'[q] = "own" /\ own'[q].node = cycle.host
      BY <2>1, <3>1 DEF Reserve, IInv, TypeOK
    <3>3. ClaimNode(q)' = cycle.host /\ ClaimIndex(q)' = own'[q].index
      BY <2>1, ReserveClaims
    <3>4. NodeOf(q, info[q])' = own'[q].node /\ IndexOf(q, info[q])' = own'[q].index
      BY <3>2 DEF NodeOf, IndexOf
    <3> QED
      BY <3>2, <3>3, <3>4
  <2>2. CASE q # p
    <3>1. Claims(q) /\ ClaimNode(q)' = ClaimNode(q) /\ ClaimIndex(q)' = ClaimIndex(q) /\ p \in Pods
      BY <2>2, ReserveClaims
    <3> QED
      BY <2>2, <3>1 DEF Reserve, IInv, CacheTracksClaims, TypeOK, NodeOf, IndexOf
  <2> QED
    BY <2>1, <2>2
<1> QED
  BY <1>1, <1>2, <1>3, ReserveExclusive, ReserveMemoryFits, ReserveWithinAllocatable
     DEF ClaimsFit, CycleSound, SnapshotTracksClaims, HostStaysUsable
----------------------------------------------------------------------------
(* Every step of every actor keeps the invariant.                          *)
LEMMA InvariantStep ==
  ASSUME IInv, [Next]_vars
  PROVE  IInv'
<1>1. TypeOK'
  BY TypeStep DEF IInv
<1>2. ASSUME NoNewClaim, KeepsCycle \/ cycle' = NoCycle, ObjectsAgree', CacheTracksClaims'
      PROVE  IInv'
  <2>1. CycleSound' /\ SnapshotTracksClaims' /\ HostStaysUsable' /\ ClaimsFit'
    BY <1>2, CycleKept, CycleEnded
  <2> QED
    BY <1>1, <1>2, <2>1 DEF IInv
<1>3. CASE UNCHANGED vars
  <2> USE <1>3 DEF vars
  <2>1. NoNewClaim
    BY DEF NoNewClaim, Claims, ClaimNode, ClaimIndex
  <2>2. KeepsCycle
    BY DEF KeepsCycle, IndexOf
  <2>3. ObjectsAgree'
    BY DEF IInv, ObjectsAgree
  <2>4. CacheTracksClaims'
    BY <2>1 DEF IInv, CacheTracksClaims, NoNewClaim, NodeOf, IndexOf
  <2> QED
    BY <1>2, <2>1, <2>2, <2>3, <2>4
<1>4. CASE Environment
  BY <1>2, <1>4, CreatePodStep, DeletePodStep, NodeUpdateStep DEF Environment
<1>5. CASE Informer
  BY <1>2, <1>5, InformerAddPendingStep, InformerAddBoundStep, InformerUpdateBoundStep,
     InformerDeleteStep DEF Informer
<1>6. CASE SchedulingLoop
  <2>1. ASSUME NEW p \in Pods, Schedule(p) PROVE IInv'
    <3>1. ClaimsFit'
      BY <2>1, ScheduleStep, NoNewClaimFits DEF IInv
    <3> QED
      BY <1>1, <2>1, <3>1, ScheduleStep DEF IInv
  <2>2. ASSUME NEW p \in Pods, FilterPanic(p) \/ ScorePanic(p) PROVE IInv'
    BY <1>2, <2>2, DieStep DEF FilterPanic, ScorePanic
  <2>3. CASE Reserve
    BY <1>1, <2>3, ReserveStep DEF IInv
  <2>4. CASE ReserveFails \/ AssumeFails
    BY <1>2, <2>4, ReserveFailsStep, AssumeFailsStep
  <2> QED
    BY <1>6, <2>1, <2>2, <2>3, <2>4 DEF SchedulingLoop
<1>7. CASE BindingCycle
  BY <1>2, <1>7, BindStep, BindRefusedStep, BindReplyLostStep, BindTimeoutStep,
     UnreserveStep, ForgetStep DEF BindingCycle
<1>8. CASE Failure
  BY <1>2, <1>8, ApplyStaleStep, ExpireAssumedStep, DieStep, RestartStep DEF Failure, Crash
<1> QED
  BY <1>3, <1>4, <1>5, <1>6, <1>7, <1>8 DEF Next

(* A cluster without pods satisfies the invariant.                         *)
LEMMA InvariantInit ==
  ASSUME Init
  PROVE  IInv
<1>1. TypeOK
  BY TypeInit
<1>2. \A p \in Pods : ~Claims(p)
  BY DEF Init, Claims
<1>3. ObjectsAgree
  BY NoCycleType, NoneAssumption DEF Init, ObjectsAgree
<1> QED
  BY <1>1, <1>2, <1>3, PodsAssumption DEF Init, IInv, CycleSound, CacheTracksClaims, SnapshotTracksClaims,
     HostStaysUsable, ClaimsFit, GPUExclusive, MemoryFits, WithinAllocatable

(* The invariant that the properties of the plugin follow from holds in    *)
(* every reachable state.                                                  *)
THEOREM Invariant == Spec => []IInv
<1>1. Init => IInv
  BY InvariantInit
<1>2. IInv /\ [Next]_vars => IInv'
  BY InvariantStep
<1> QED
  BY <1>1, <1>2, PTL DEF Spec

(* No GPU is given to two pods that exclude each other, for any number of  *)
(* pods and nodes and any sequence of faults.                              *)
THEOREM Exclusive == Spec => []GPUExclusive
<1>1. IInv => GPUExclusive
  BY DEF IInv, ClaimsFit
<1> QED
  BY <1>1, Invariant, PTL

(* Neither the memory of one GPU nor the devices of a node are             *)
(* overcommitted.                                                          *)
THEOREM NoOvercommit == Spec => [](MemoryFits /\ WithinAllocatable)
<1>1. IInv => MemoryFits /\ WithinAllocatable
  BY DEF IInv, ClaimsFit
<1> QED
  BY <1>1, Invariant, PTL

(* The cache and the snapshot of the cycle under way have every claim, so  *)
(* Reserve decides on what is true although both are older than its step.  *)
THEOREM ClaimsTracked == Spec => [](CacheTracksClaims /\ SnapshotTracksClaims)
<1>1. IInv => CacheTracksClaims /\ SnapshotTracksClaims
  BY DEF IInv
<1> QED
  BY <1>1, Invariant, PTL

(* The snapshot taken when a cycle starts has every claim of the node that *)
(* the cycle will choose, however many Binds, events and timeouts come     *)
(* between the snapshot and Reserve.                                       *)
THEOREM SnapshotCurrent == Spec => []SnapshotTracksClaims
<1> QED
  BY ClaimsTracked, PTL

(* The object of a pod that the plugin, the cache, the snapshot and the    *)
(* API server have is written in different steps; whoever refers to the    *)
(* stored object finds a bound one, and only a pod whose Bind was reported *)
(* as failed is bound while its goroutine still runs.                      *)
THEOREM CopiesAgree == Spec => []ObjectsAgree
<1>1. IInv => ObjectsAgree
  BY DEF IInv
<1> QED
  BY <1>1, Invariant, PTL

(* What Filter found in total for the host of the cycle is still true of   *)
(* the snapshot that Reserve uses, which was taken on a scheduler that is  *)
(* still up.                                                               *)
THEOREM FilterStillHolds == Spec => []CycleSound
<1>1. IInv => CycleSound
  BY DEF IInv
<1> QED
  BY <1>1, Invariant, PTL

(* Reserve never panics and always finds a GPU for a memory pod.           *)
THEOREM ReserveSafe == Spec => []HostStaysUsable
<1>1. IInv => HostStaysUsable
  BY DEF IInv
<1> QED
  BY <1>1, Invariant, PTL
----------------------------------------------------------------------------
(* The refinement of GPUAllocation.                                        *)

(* Only Reserve makes claims.                                              *)
LEMMA OnlyReserveClaims ==
  ASSUME IInv, [Next]_vars
  PROVE  NoNewClaim \/ Reserve
<1>1. CASE UNCHANGED vars
  BY <1>1 DEF vars, NoNewClaim, Claims, ClaimNode, ClaimIndex
<1>2. CASE Environment
  BY <1>2, CreatePodStep, DeletePodStep, NodeUpdateStep DEF Environment
<1>3. CASE Informer
  BY <1>3, InformerAddPendingStep, InformerAddBoundStep, InformerUpdateBoundStep,
     InformerDeleteStep DEF Informer
<1>4. CASE SchedulingLoop
  BY <1>4, ScheduleStep, DieStep, ReserveFailsStep, AssumeFailsStep
     DEF SchedulingLoop, FilterPanic, ScorePanic
<1>5. CASE BindingCycle
  BY <1>5, BindStep, BindRefusedStep, BindReplyLostStep, BindTimeoutStep,
     UnreserveStep, ForgetStep DEF BindingCycle
<1>6. CASE Failure
  BY <1>6, ApplyStaleStep, ExpireAssumedStep, DieStep, RestartStep DEF Failure, Crash
<1> QED
  BY <1>1, <1>2, <1>3, <1>4, <1>5, <1>6 DEF Next

(* GPUAllocation speaks of the same sums and the same missing index.       *)
LEMMA AllocationOperators ==
  /\ Allocation!NoGrant = Nowhere
  /\ \A limit, S : Allocation!SumOver(limit, S) = SumOver(limit, S)
<1>1. Allocation!NoGrant = Nowhere
  BY DEF Allocation!NoGrant, Allocation!NoIndex, Nowhere, NoIndex, NoNode
<1>2. \A limit, S : Allocation!SumOver(limit, S) = SumOver(limit, S)
  BY DEF Allocation!SumOver, Allocation!Units, Allocation!Cardinality, SumOver, Units, Cardinality
<1> QED
  BY <1>1, <1>2

(* A step that makes no claim releases those that end.                     *)
LEMMA NoNewClaimReleases ==
  ASSUME NoNewClaim
  PROVE  Allocation!Next
<1> DEFINE S == {p \in GpuPods \cup MemPods : ~Claims(p)'}
<1>1. ASSUME NEW p \in GpuPods \cup MemPods
      PROVE  grantOf'[p] = IF p \in S THEN Allocation!NoGrant ELSE grantOf[p]
  BY <1>1, AllocationOperators, PodsAssumption DEF NoNewClaim, grantOf
<1>2. grantOf' = [p \in GpuPods \cup MemPods |->
                    IF p \in S THEN Allocation!NoGrant ELSE grantOf[p]]
  BY <1>1 DEF grantOf
<1>3. Allocation!Release(S)
  BY <1>2 DEF Allocation!Release
<1> QED
  BY <1>3 DEF Allocation!Next

(* Reserve is a grant of a GPU with room among all claims.                 *)
LEMMA ReserveGrants ==
  ASSUME IInv, Reserve
  PROVE  NoNewClaim \/ Allocation!Next
<1> PICK p : p = cycle.pod
  OBVIOUS
<1>0. /\ p \in Pods /\ cycle.host \in Nodes /\ ~Claims(p)
      /\ cycle.alloc \in Allocs[cycle.host] /\ cycle.alloc.gpu \in Nat
  BY ReserveClaims, CycleType DEF Reserve, IInv, CycleSound
<1>1. CASE ~Claims(p)'
  BY <1>1, ReserveClaims DEF NoNewClaim
<1>2. CASE Claims(p)' /\ p \notin GpuPods \cup MemPods
  <2>1. ASSUME NEW q \in GpuPods \cup MemPods PROVE grantOf'[q] = grantOf[q]
    BY <1>2, <2>1, ReserveClaims, PodsAssumption DEF grantOf
  <2>2. grantOf' = [q \in GpuPods \cup MemPods |->
                      IF q \in {} THEN Allocation!NoGrant ELSE grantOf[q]]
    BY <2>1 DEF grantOf
  <2>3. Allocation!Release({})
    BY <2>2 DEF Allocation!Release
  <2> QED
    BY <2>3 DEF Allocation!Next
<1>3. CASE Claims(p)' /\ p \in GpuPods \cup MemPods
  <2> DEFINE i == own'[p].index
             H == Allocation!Holders(cycle.host, i)
  <2>1. /\ i \in Nat /\ i < cycle.alloc.gpu
        /\ \A q \in PodsOn(HostSnapshot, i) : q \notin GpuPods
        /\ p \in GpuPods => p \notin MemPods /\ usedMemory(HostSnapshot, i) = 0
    BY <1>3, ReserveIndex
  <2>2. i \in 0 .. (cycle.alloc.gpu - 1)
    BY <1>0, <2>1
  <2>3. ASSUME NEW q \in H PROVE q \in PodsOn(HostSnapshot, i) /\ q \in Pods
    <3>1. q \in Pods /\ grantOf[q] = [node |-> cycle.host, index |-> i]
      BY PodsAssumption DEF Allocation!Holders
    <3>2. Claims(q) /\ ClaimNode(q) = cycle.host /\ ClaimIndex(q) = i
      BY <1>0, <3>1, NoneAssumption DEF Allocation!Holders, grantOf, Nowhere
    <3> QED
      BY <3>1, <3>2, ReserveClaims DEF PodsOn
  <2>4. ASSUME p \in GpuPods, NEW q \in H PROVE q \notin GpuPods /\ memLimit[q] = 0
    <3>1. q \in PodsOn(HostSnapshot, i) /\ q \in Pods /\ q \notin GpuPods
      BY <2>1, <2>3
    <3>2. CASE q \in MemPods
      <4>1. PodsOn(HostSnapshot, i) \cap MemPods \in SUBSET Pods
        BY PodsAssumption
      <4>2. memLimit[q] <= SumOver(memLimit, PodsOn(HostSnapshot, i) \cap MemPods)
        BY <3>1, <3>2, <4>1, SumOverMember, PodsAssumption
      <4>3. memLimit[q] \in Nat
        BY <3>1, PodsAssumption
      <4> QED
        BY <2>1, <2>4, <3>1, <4>2, <4>3 DEF usedMemory
    <3> QED
      BY <3>1, <3>2, PodsAssumption
  <2>5. ASSUME p \in MemPods
        PROVE  /\ H \cap GpuPods = {}
               /\ SumOver(memLimit, H) + memLimit[p] <= cycle.alloc.mem \div cycle.alloc.gpu
    <3>1. H \cap GpuPods = {}
      BY <2>1, <2>3
    <3>2. p \notin GpuPods
      BY <2>1, <2>5
    <3>3. usedMemory(HostSnapshot, i) + memLimit[p] <= cycle.alloc.mem \div cycle.alloc.gpu
      BY <1>3, <3>2, ReserveIndex
    <3>4. PodsOn(HostSnapshot, i) \in SUBSET Pods /\ H \in SUBSET PodsOn(HostSnapshot, i)
      BY <2>3, HostSnapshotFields DEF PodsOn
    <3>5. SumOver(memLimit, PodsOn(HostSnapshot, i)) = usedMemory(HostSnapshot, i)
      BY <3>4, SumOverRestrict, PodsAssumption DEF usedMemory
    <3> HIDE DEF H
    <3>6. SumOver(memLimit, H) <= SumOver(memLimit, PodsOn(HostSnapshot, i))
      BY <3>4, SumOverMonotone, PodsAssumption
    <3>7. /\ SumOver(memLimit, H) \in Nat
          /\ SumOver(memLimit, PodsOn(HostSnapshot, i)) \in Nat
          /\ memLimit[p] \in Nat
      BY <1>0, <3>4, UnitsFinite, PodsAssumption
    <3>8. cycle.alloc.mem \div cycle.alloc.gpu \in Int
      BY <1>0, <2>1, AllocsType
    <3> QED
      BY <3>1, <3>3, <3>5, <3>6, <3>7, <3>8
  <2>6. Allocation!Room(p, cycle.host, i, cycle.alloc)
    BY <2>2, <2>4, <2>5, AllocationOperators DEF Allocation!Room
  <2>7. grantOf[p] = Allocation!NoGrant
    BY <1>0, <1>3, AllocationOperators DEF grantOf
  <2>8. grantOf' = [grantOf EXCEPT ![p] = [node |-> cycle.host, index |-> i]]
    <3>1. grantOf'[p] = [node |-> cycle.host, index |-> i]
      BY <1>3, ReserveClaims DEF grantOf
    <3>2. ASSUME NEW q \in GpuPods \cup MemPods, q # p PROVE grantOf'[q] = grantOf[q]
      BY <3>2, ReserveClaims, PodsAssumption DEF grantOf
    <3> QED
      BY <3>1, <3>2 DEF grantOf
  <2>9. Allocation!Grant(p)
    BY <1>0, <2>2, <2>6, <2>7, <2>8 DEF Allocation!Grant
  <2> QED
    BY <1>3, <2>9 DEF Allocation!Next
<1> QED
  BY <1>1, <1>2, <1>3

(* The scheduler with its caches, callbacks, faults and restarts           *)
(* implements the abstract allocation of GPUs.                             *)
THEOREM Refinement == Spec => ImplementsAllocation
<1>1. Init => Allocation!Init
  BY AllocationOperators, PodsAssumption DEF Init, Allocation!Init, grantOf, Claims
<1>2. IInv /\ [Next]_vars => [Allocation!Next]_grantOf
  BY OnlyReserveClaims, NoNewClaimReleases, ReserveGrants
<1> QED
  BY <1>1, <1>2, Invariant, PTL DEF Spec, ImplementsAllocation, Allocation!Spec
=============================================================================
