------------------------------ MODULE FlexGPU ------------------------------
(***************************************************************************)
(* The FlexGPU scheduler plugin (pkg/flexgpu) inside the kube-scheduler    *)
(* framework it is compiled into (cmd/scheduler/main.go).                  *)
(*                                                                         *)
(* The plugin keeps no state of its own.  Which GPU a pod holds is an      *)
(* annotation on a pod object, and there are several objects of one pod:   *)
(* the stored one (api), and the copy that the scheduler assumes and       *)
(* Reserve annotates (own).  The scheduler cache refers to one of the two  *)
(* (info).  The actors are                                                 *)
(*   - the scheduling loop: one pod at a time, Schedule then Reserve;      *)
(*   - one binding goroutine per pod: Bind, and after an error Unreserve   *)
(*     and Forget;                                                         *)
(*   - the informer, which applies the API server's events to the cache    *)
(*     and to the queue;                                                   *)
(*   - users and nodes, who create and delete pods and change a node's     *)
(*     allocatable devices.                                                *)
(* Filter, Score, Reserve, Unreserve and Bind are the plugin's.  The       *)
(* queue, the cache, the informer and the API server are external: they    *)
(* are modelled by what the plugin relies on.                              *)
(***************************************************************************)
EXTENDS GPUNode

CONSTANTS
  Nodes,        \* the nodes of the cluster
  Allocs,       \* per node, the values its Status.Allocatable may take
  OtherScores,  \* the sums the other score plugins may give: functions on Nodes
  MaxFaults     \* bound on lost replies, timeouts, expiries and crashes

ASSUME ClusterAssumption ==
  /\ IsFiniteSet(Nodes) /\ Nodes # {}
  /\ Allocs \in [Nodes -> SUBSET Allocatable]
  /\ \A n \in Nodes : Allocs[n] # {}
  /\ OtherScores \subseteq [Nodes -> Nat]
  /\ MaxFaults \in Nat

NoNode == "NoNode"
NoPod == "NoPod"

ASSUME NoneAssumption == NoNode \notin Nodes /\ NoPod \notin Pods

VARIABLES
  api,      \* api[p]: the stored pod: its phase, node and index annotation
  alloc,    \* alloc[n]: the allocatable devices of node n
  seen,     \* seen[p]: the last phase of p that the informer has handled
  queue,    \* the pods in the scheduling queue
  info,     \* info[p]: the object of p in the cache's NodeInfo
  assumed,  \* the cached pods that no informer event has confirmed yet
  own,      \* own[p]: the assumed copy of p, node and index annotation
  pc,       \* pc[p]: where the binding goroutine of p is
  cycle,    \* the scheduling cycle under way
  stale,    \* bind requests the scheduler gave up on that may still be applied
  up,       \* is the scheduler running
  faults,   \* how many faults happened
  lost      \* history: pods bound although the scheduler was told, or assumed,
            \* that they were not

vars == <<api, alloc, seen, queue, info, assumed, own, pc, cycle, stale, up,
          faults, lost>>

Phases == {"absent", "pending", "bound", "deleted"}
Place == [node : Nodes \cup {NoNode}, index : Nat \cup {NoIndex}]
Nowhere == [node |-> NoNode, index |-> NoIndex]
Request == [pod : Pods, node : Nodes \cup {NoNode}, index : Nat \cup {NoIndex}]

NoCycle == [pod |-> NoPod, host |-> NoNode,
            alloc |-> [keys |-> {}, gpu |-> 0, mem |-> 0],
            objs |-> [q \in Pods |-> "none"]]
Cycle == [pod : Pods, host : Nodes, alloc : Allocatable,
          objs : [Pods -> {"none", "own", "api"}]]

----------------------------------------------------------------------------
(* The node and the index of an object of q.                               *)
NodeOf(q, obj) == IF obj = "own" THEN own[q].node ELSE api[q].node
IndexOf(q, obj) == IF obj = "own" THEN own[q].index ELSE api[q].index

(* The pods the cache has on node n.                                       *)
CachedOn(n) == {q \in Pods : info[q] # "none" /\ NodeOf(q, info[q]) = n}

(* The NodeInfo of node n in a snapshot taken now.                         *)
SnapshotOf(n) ==
  [alloc |-> alloc[n], pods |-> [q \in CachedOn(n) |-> IndexOf(q, info[q])]]

(* Mutant: Reserve looks at the node of now.                               *)
HostSnapshot_Live == SnapshotOf(cycle.host)

(* The cycle's snapshot of its host.  It holds pointers to pod objects, so *)
(* an annotation is read as it is now and not as it was.                   *)
HostSnapshot ==
  [alloc |-> cycle.alloc,
   pods  |-> [q \in {r \in Pods : cycle.objs[r] # "none"} |-> IndexOf(q, cycle.objs[q])]]

RequestOf(p) == [pod |-> p, node |-> own[p].node, index |-> own[p].index]

(* The scheduler process dies: what it keeps in memory is gone, requests   *)
(* on the wire are not.                                                    *)
Die ==
  /\ up' = FALSE
  /\ seen' = [p \in Pods |-> "absent"]
  /\ queue' = {}
  /\ info' = [p \in Pods |-> "none"]
  /\ assumed' = {}
  /\ pc' = [p \in Pods |-> IF pc[p] = "sent" THEN "sent" ELSE "idle"]
  /\ cycle' = NoCycle
  /\ UNCHANGED <<api, alloc, own, stale, lost>>

----------------------------------------------------------------------------
Init ==
  /\ api = [p \in Pods |-> [phase |-> "absent", node |-> NoNode, index |-> NoIndex]]
  /\ alloc \in [Nodes -> UNION {Allocs[n] : n \in Nodes}]
  /\ \A n \in Nodes : alloc[n] \in Allocs[n]
  /\ seen = [p \in Pods |-> "absent"]
  /\ queue = {}
  /\ info = [p \in Pods |-> "none"]
  /\ assumed = {}
  /\ own = [p \in Pods |-> Nowhere]
  /\ pc = [p \in Pods |-> "idle"]
  /\ cycle = NoCycle
  /\ stale = {}
  /\ up = TRUE
  /\ faults = 0
  /\ lost = {}

----------------------------------------------------------------------------
(* Users, nodes and the kubelet.                                           *)

CreatePod(p) ==
  /\ api[p].phase = "absent"
  /\ api' = [api EXCEPT ![p].phase = "pending"]
  /\ UNCHANGED <<alloc, seen, queue, info, assumed, own, pc, cycle, stale, up, faults, lost>>

(* Also what becomes of a pod that finished: the scheduler's informer only *)
(* lists pods that have not.                                               *)
DeletePod(p) ==
  /\ api[p].phase \in {"pending", "bound"}
  /\ api' = [api EXCEPT ![p].phase = "deleted"]
  /\ UNCHANGED <<alloc, seen, queue, info, assumed, own, pc, cycle, stale, up, faults, lost>>

(* The device plugin reports another number of devices.                    *)
NodeUpdate(n) ==
  /\ alloc' \in {[alloc EXCEPT ![n] = a] : a \in Allocs[n] \ {alloc[n]}}
  /\ UNCHANGED <<api, seen, queue, info, assumed, own, pc, cycle, stale, up, faults, lost>>

----------------------------------------------------------------------------
(* The informer's event handlers.                                          *)

(* addPodToSchedulingQueue *)
InformerAddPending(p) ==
  /\ up
  /\ seen[p] = "absent" /\ api[p].phase = "pending"
  /\ seen' = [seen EXCEPT ![p] = "pending"]
  /\ queue' = queue \cup {p}
  /\ UNCHANGED <<api, alloc, info, assumed, own, pc, cycle, stale, up, faults, lost>>

(* Mutant: a confirmed pod stays assumed.                                  *)
InformerAddBound_StaysAssumed(p) ==
  /\ up
  /\ seen[p] \in {"absent", "pending"} /\ api[p].node # NoNode
  /\ seen' = [seen EXCEPT ![p] = "bound"]
  /\ queue' = queue \ {p}
  /\ info' = [info EXCEPT ![p] =
                 IF p \in assumed /\ own[p].node = api[p].node THEN "own" ELSE "api"]
  /\ UNCHANGED <<api, alloc, assumed, own, pc, cycle, stale, up, faults, lost>>

(* addPodToCache, and deletePodFromSchedulingQueue because p has left the  *)
(* queue's filter.  An assumed pod that was bound where it was assumed     *)
(* keeps the assumed object in its NodeInfo.  The event of a binding may   *)
(* be delivered after the pod was deleted.                                 *)
InformerAddBound(p) ==
  /\ up
  /\ seen[p] \in {"absent", "pending"} /\ api[p].node # NoNode
  /\ seen' = [seen EXCEPT ![p] = "bound"]
  /\ queue' = queue \ {p}
  /\ info' = [info EXCEPT ![p] =
                 IF p \in assumed /\ own[p].node = api[p].node THEN "own" ELSE "api"]
  /\ assumed' = assumed \ {p}
  /\ UNCHANGED <<api, alloc, own, pc, cycle, stale, up, faults, lost>>

(* updatePodInCache after a status update by the kubelet: the stored       *)
(* object replaces the assumed one.                                        *)
InformerUpdateBound(p) ==
  /\ up
  /\ seen[p] = "bound" /\ info[p] = "own"
  /\ info' = [info EXCEPT ![p] = "api"]
  /\ UNCHANGED <<api, alloc, seen, queue, assumed, own, pc, cycle, stale, up, faults, lost>>

(* deletePodFromCache and deletePodFromSchedulingQueue.  After a relist    *)
(* the events in between may be missing; the tombstone then removes p from *)
(* the cache even if it was only assumed.                                  *)
InformerDelete(p) ==
  /\ up
  /\ seen[p] \in {"pending", "bound"} /\ api[p].phase = "deleted"
  /\ seen' = [seen EXCEPT ![p] = "deleted"]
  /\ queue' = queue \ {p}
  /\ \/ /\ info' = [info EXCEPT ![p] = "none"]
        /\ assumed' = assumed \ {p}
     \/ /\ seen[p] = "pending"
        /\ api[p].node = NoNode
        /\ UNCHANGED <<info, assumed>>
  /\ UNCHANGED <<api, alloc, own, pc, cycle, stale, up, faults, lost>>

----------------------------------------------------------------------------
(* The scheduling loop.                                                    *)

FeasibleNodes(p) == {n \in Nodes : Filter(SnapshotOf(n), p)}

(* What the scheduling loop needs to take p from the queue.                *)
CanPop(p) == up /\ cycle = NoCycle /\ p \in queue /\ p \notin assumed

(* The nodes with the best total.  A single feasible node is not scored.   *)
BestNodes(p, other) ==
  LET F == FeasibleNodes(p)
      norm == NormalizeScore([n \in F |-> Score(SnapshotOf(n), p)])
  IN  IF Cardinality(F) = 1 THEN F
      ELSE {n \in F : /\ \A m \in F : norm[m] \in 0 .. MaxNodeScore
                      /\ \A m \in F : norm[n] + other[n] >= norm[m] + other[m]}

(* scheduleOne up to selectHost: take a snapshot, run Filter on every node *)
(* and, with two or more feasible nodes, Score and NormalizeScore.  A pod  *)
(* that fits nowhere, and one some score of which is out of range, goes    *)
(* back to the queue, which changes nothing here.                          *)
Schedule(p) ==
  /\ CanPop(p)
  /\ \A n \in Nodes : ~FilterPanics(SnapshotOf(n), p)
  /\ \/ Cardinality(FeasibleNodes(p)) = 1
     \/ \A n \in FeasibleNodes(p) : ~NewGPUNodePanics(SnapshotOf(n))
  /\ \E other \in OtherScores : \E host \in BestNodes(p, other) :
       cycle' = [pod |-> p, host |-> host, alloc |-> alloc[host],
                 objs |-> [q \in Pods |-> IF q \in CachedOn(host) THEN info[q] ELSE "none"]]
  /\ queue' = queue \ {p}
  /\ UNCHANGED <<api, alloc, seen, info, assumed, own, pc, stale, up, faults, lost>>

(* NewGPUNode panics in Filter.                                            *)
FilterPanic(p) ==
  /\ CanPop(p)
  /\ \E n \in Nodes : FilterPanics(SnapshotOf(n), p)
  /\ Die
  /\ UNCHANGED faults

(* NewGPUNode panics in Score, which calls it before it looks at p.        *)
ScorePanic(p) ==
  /\ CanPop(p)
  /\ \A n \in Nodes : ~FilterPanics(SnapshotOf(n), p)
  /\ Cardinality(FeasibleNodes(p)) > 1
  /\ \E n \in FeasibleNodes(p) : NewGPUNodePanics(SnapshotOf(n))
  /\ Die
  /\ UNCHANGED faults

(* Mutant: a failed pod is dropped.                                        *)
Requeue_Drops(p) == UNCHANGED queue

(* MakeDefaultErrorFunc: a pod goes back to the queue if the informer      *)
(* still has it and has it unassigned.                                     *)
Requeue(p) == queue' = IF seen[p] = "pending" THEN queue \cup {p} ELSE queue

(* The indexes Reserve chooses from for p.  A pod with both limits is an   *)
(* error.                                                                  *)
ReserveFits(ni, p) ==
  IF p \in GpuPods \cap MemPods THEN {}
  ELSE IF p \in GpuPods THEN GPUAssumeFitIndexes(ni)
  ELSE MemAssumeFitIndexes(ni, memLimit[p])

(* assume, then Reserve (which never panics, see HostStaysUsable): the copy of p enters the cache and gets its       *)
(* index; the binding goroutine sends the Binding with its annotations.    *)
Reserve ==
  /\ cycle # NoCycle
  /\ LET p == cycle.pod IN
     /\ info[p] = "none"
     /\ \E i \in gpuIndexes(HostSnapshot) \cup {NoIndex} :
          /\ IF p \in GpuPods \cup MemPods
                THEN FirstIndex(ReserveFits(HostSnapshot, p), i)
                ELSE i = NoIndex
          /\ own' = [own EXCEPT ![p] = [node |-> cycle.host, index |-> i]]
     /\ info' = [info EXCEPT ![p] = "own"]
     /\ assumed' = assumed \cup {p}
     /\ pc' = [pc EXCEPT ![p] = "sent"]
  /\ cycle' = NoCycle
  /\ UNCHANGED <<api, alloc, seen, queue, stale, up, faults, lost>>

(* Reserve finds no index: Unreserve, ForgetPod and the error function run *)
(* in the same cycle, so the cache is as before.                           *)
ReserveFails ==
  /\ cycle # NoCycle
  /\ LET p == cycle.pod IN
     /\ info[p] = "none"
     /\ p \in GpuPods \cup MemPods
     /\ ReserveFits(HostSnapshot, p) = {}
     /\ own' = [own EXCEPT ![p] = [node |-> cycle.host, index |-> NoIndex]]
     /\ Requeue(p)
  /\ cycle' = NoCycle
  /\ UNCHANGED <<api, alloc, seen, info, assumed, pc, stale, up, faults, lost>>

(* Mutant: the snapshot of the cycle that failed is kept.                  *)
AssumeFails_KeepsSnapshot ==
  /\ cycle # NoCycle
  /\ info[cycle.pod] # "none"
  /\ Requeue(cycle.pod)
  /\ cycle' = [cycle EXCEPT !.pod = NoPod]
  /\ UNCHANGED <<api, alloc, seen, info, assumed, own, pc, stale, up, faults, lost>>

(* AssumePod refuses a pod that is in the cache: the informer has seen it  *)
(* bound since the cycle began.                                            *)
AssumeFails ==
  /\ cycle # NoCycle
  /\ info[cycle.pod] # "none"
  /\ Requeue(cycle.pod)
  /\ cycle' = NoCycle
  /\ UNCHANGED <<api, alloc, seen, info, assumed, own, pc, stale, up, faults, lost>>

----------------------------------------------------------------------------
(* The binding goroutine of p.                                             *)

Store(p, node, index) ==
  api' = [api EXCEPT ![p] = [phase |-> "bound", node |-> node, index |-> index]]

(* Mutant: the Binding is sent without the annotations.                    *)
Bind_WithoutAnnotations(p) ==
  /\ pc[p] = "sent"
  /\ api[p].phase = "pending"
  /\ Store(p, own[p].node, NoIndex)
  /\ pc' = [pc EXCEPT ![p] = "idle"]
  /\ UNCHANGED <<alloc, seen, queue, info, assumed, own, cycle, stale, up, faults, lost>>

(* The API server stores the binding.  If the scheduler is alive it gets   *)
(* the reply and is done with p.                                           *)
Bind(p) ==
  /\ pc[p] = "sent"
  /\ api[p].phase = "pending"
  /\ Store(p, own[p].node, own[p].index)
  /\ pc' = [pc EXCEPT ![p] = "idle"]
  /\ UNCHANGED <<alloc, seen, queue, info, assumed, own, cycle, stale, up, faults, lost>>

(* The pod is gone or bound: the API server answers with an error.         *)
BindRefused(p) ==
  /\ up
  /\ pc[p] = "sent"
  /\ api[p].phase # "pending"
  /\ pc' = [pc EXCEPT ![p] = "failed"]
  /\ UNCHANGED <<api, alloc, seen, queue, info, assumed, own, cycle, stale, up, faults, lost>>

(* The binding is stored but the call returns an error.                    *)
BindReplyLost(p) ==
  /\ up /\ faults < MaxFaults
  /\ pc[p] = "sent"
  /\ api[p].phase = "pending"
  /\ Store(p, own[p].node, own[p].index)
  /\ pc' = [pc EXCEPT ![p] = "failed"]
  /\ faults' = faults + 1
  /\ lost' = lost \cup {p}
  /\ UNCHANGED <<alloc, seen, queue, info, assumed, own, cycle, stale, up>>

(* The call returns an error and the request is lost or still on its way.  *)
BindTimeout(p) ==
  /\ up /\ faults < MaxFaults
  /\ pc[p] = "sent"
  /\ pc' = [pc EXCEPT ![p] = "failed"]
  /\ stale' \in {stale, stale \cup {RequestOf(p)}}
  /\ faults' = faults + 1
  /\ UNCHANGED <<api, alloc, seen, queue, info, assumed, own, cycle, up, lost>>

(* A request the scheduler gave up on is applied after all.                *)
ApplyStale(r) ==
  /\ api[r.pod].phase = "pending"
  /\ Store(r.pod, r.node, r.index)
  /\ stale' = stale \ {r}
  /\ lost' = lost \cup {r.pod}
  /\ UNCHANGED <<alloc, seen, queue, info, assumed, own, pc, cycle, up, faults>>

(* Unreserve deletes the annotation from the copy, wherever it is used.    *)
Unreserve(p) ==
  /\ pc[p] = "failed"
  /\ own' = [own EXCEPT ![p].index = NoIndex]
  /\ pc' = [pc EXCEPT ![p] = "unreserved"]
  /\ UNCHANGED <<api, alloc, seen, queue, info, assumed, cycle, stale, up, faults, lost>>

(* ForgetPod removes p if it is still only assumed; then the error         *)
(* function.                                                               *)
Forget(p) ==
  /\ pc[p] = "unreserved"
  /\ info' = [info EXCEPT ![p] = IF p \in assumed THEN "none" ELSE @]
  /\ assumed' = assumed \ {p}
  /\ Requeue(p)
  /\ pc' = [pc EXCEPT ![p] = "idle"]
  /\ UNCHANGED <<api, alloc, seen, own, cycle, stale, up, faults, lost>>

----------------------------------------------------------------------------
(* Expiry of assumed pods, crash and restart.                              *)

(* No event confirmed p within the cache's TTL after its binding finished. *)
ExpireAssumed(p) ==
  /\ up /\ faults < MaxFaults
  /\ p \in assumed /\ pc[p] = "idle"
  /\ info' = [info EXCEPT ![p] = "none"]
  /\ assumed' = assumed \ {p}
  /\ faults' = faults + 1
  /\ lost' = lost \cup {p}
  /\ UNCHANGED <<api, alloc, seen, queue, own, pc, cycle, stale, up>>

Crash ==
  /\ up /\ faults < MaxFaults
  /\ Die
  /\ faults' = faults + 1

(* Mutant: scheduling starts before the pods are listed.                   *)
Restart_Unsynced ==
  /\ ~up
  /\ up' = TRUE
  /\ stale' \in {stale \cup {RequestOf(p) : p \in S} : S \in SUBSET {p \in Pods : pc[p] = "sent"}}
  /\ pc' = [p \in Pods |-> "idle"]
  /\ own' = [p \in Pods |-> Nowhere]
  /\ UNCHANGED <<api, alloc, seen, queue, info, assumed, cycle, faults, lost>>

(* A new scheduler lists the stored pods before it schedules.  A request   *)
(* of the old one may be applied later.                                    *)
Restart ==
  /\ ~up
  /\ up' = TRUE
  /\ seen' = [p \in Pods |-> api[p].phase]
  /\ queue' = {p \in Pods : api[p].phase = "pending"}
  /\ info' = [p \in Pods |-> IF api[p].phase = "bound" THEN "api" ELSE "none"]
  /\ \E S \in SUBSET {p \in Pods : pc[p] = "sent"} :
       stale' = stale \cup {RequestOf(p) : p \in S}
  /\ pc' = [p \in Pods |-> "idle"]
  /\ own' = [p \in Pods |-> Nowhere]
  /\ assumed' = {}
  /\ UNCHANGED <<api, alloc, cycle, faults, lost>>

----------------------------------------------------------------------------
Environment ==
  \/ \E p \in Pods : CreatePod(p) \/ DeletePod(p)
  \/ \E n \in Nodes : NodeUpdate(n)

Informer ==
  \E p \in Pods :
    InformerAddPending(p) \/ InformerAddBound(p) \/ InformerUpdateBound(p) \/ InformerDelete(p)

SchedulingLoop ==
  \/ \E p \in Pods : Schedule(p) \/ FilterPanic(p) \/ ScorePanic(p)
  \/ Reserve \/ ReserveFails \/ AssumeFails

BindingCycle ==
  \E p \in Pods :
    Bind(p) \/ BindRefused(p) \/ BindReplyLost(p) \/ BindTimeout(p) \/ Unreserve(p) \/ Forget(p)

Failure ==
  \/ \E r \in stale : ApplyStale(r)
  \/ \E p \in Pods : ExpireAssumed(p)
  \/ Crash
  \/ Restart

Next == Environment \/ Informer \/ SchedulingLoop \/ BindingCycle \/ Failure

Spec == Init /\ [][Next]_vars

(* The informer, the binding goroutines and the scheduling loop keep       *)
(* running.  The queue retries every pod (backoff, and the flush of        *)
(* unschedulable pods), so a pod that can be scheduled again and again is. *)
(* Users, nodes and failures are not fair.                                 *)
Fairness ==
  /\ \A p \in Pods :
       /\ WF_vars(InformerAddPending(p))
       /\ WF_vars(InformerAddBound(p))
       /\ WF_vars(InformerDelete(p))
       /\ SF_vars(Schedule(p))
       /\ WF_vars(Bind(p) \/ BindRefused(p))
       /\ WF_vars(Unreserve(p))
       /\ WF_vars(Forget(p))
  /\ WF_vars(Reserve \/ ReserveFails \/ AssumeFails)
  /\ WF_vars(Restart)

FairSpec == Spec /\ Fairness
----------------------------------------------------------------------------
(* Properties.                                                             *)

(* Type correctness of the model's state.                                  *)
TypeOK ==
  /\ api \in [Pods -> [phase : Phases, node : Nodes \cup {NoNode},
                       index : Nat \cup {NoIndex}]]
  /\ alloc \in [Nodes -> Allocatable]
  /\ \A n \in Nodes : alloc[n] \in Allocs[n]
  /\ seen \in [Pods -> Phases]
  /\ queue \subseteq Pods
  /\ info \in [Pods -> {"none", "own", "api"}]
  /\ assumed \subseteq Pods
  /\ own \in [Pods -> Place]
  /\ pc \in [Pods -> {"idle", "sent", "failed", "unreserved"}]
  /\ cycle \in Cycle \cup {NoCycle}
  /\ stale \subseteq Request
  /\ up \in BOOLEAN
  /\ faults \in 0 .. MaxFaults
  /\ lost \subseteq Pods

(* p holds a place: it is bound, or its Binding is on the way.  Pods the   *)
(* scheduler lost sight of are left out.                                   *)
Claims(p) ==
  /\ p \notin lost
  /\ \/ api[p].phase = "bound"
     \/ api[p].phase = "pending" /\ pc[p] = "sent"

ClaimNode(p) == IF api[p].phase = "bound" THEN api[p].node ELSE own[p].node
ClaimIndex(p) == IF api[p].phase = "bound" THEN api[p].index ELSE own[p].index

ClaimsOn(n) == {p \in Pods : Claims(p) /\ ClaimNode(p) = n}

(* The claims on the GPU that p claims.                                    *)
Sharing(p) == {q \in ClaimsOn(ClaimNode(p)) : ClaimIndex(q) = ClaimIndex(p)}

(* p has a GPU to itself and q uses the memory of one: they do not mix.    *)
Clash(p, q) == p # q /\ p \in GpuPods /\ (q \in GpuPods \/ memLimit[q] > 0)

(* Reserve never gives one GPU to two pods with a gpu limit, nor to one of *)
(* them and to a pod with memory, whatever the informer, the binding       *)
(* goroutines, crashes and node updates do in between: it decides on the   *)
(* snapshot of an earlier step.                                            *)
GPUExclusive ==
  \A p \in Pods : Claims(p) => \A q \in Sharing(p) : ~Clash(p, q)

(* The memory pods that Reserve packs on one GPU fit the memory of one GPU *)
(* of some size the node had (a node update may shrink it afterwards).     *)
MemoryFits ==
  \A p \in MemPods : Claims(p) =>
    \E a \in Allocs[ClaimNode(p)] :
      a.gpu > 0 /\ SumOver(memLimit, Sharing(p)) <= a.mem \div a.gpu

(* The claims on a node never exceed, in total, what Filter compares them  *)
(* with, although Filter and Reserve of one pod are interleaved with the   *)
(* bindings of others.                                                     *)
WithinAllocatable ==
  \A p \in GpuPods \cup MemPods : Claims(p) =>
    \E a \in Allocs[ClaimNode(p)] :
      /\ SumOver(gpuLimit, ClaimsOn(ClaimNode(p))) <= a.gpu
      /\ SumOver(memLimit, ClaimsOn(ClaimNode(p))) <= a.mem

(* The cache has every claim where it is and on the GPU it has: an         *)
(* annotation removed by Unreserve, an object replaced by an event or a    *)
(* restart never hides one.                                                *)
CacheTracksClaims ==
  \A p \in Pods : up /\ Claims(p) =>
    /\ info[p] # "none"
    /\ NodeOf(p, info[p]) = ClaimNode(p)
    /\ IndexOf(p, info[p]) = ClaimIndex(p)

(* No claim appears behind the back of a scheduling cycle: the snapshot    *)
(* that Reserve will use has all of them.                                  *)
SnapshotTracksClaims ==
  \A p \in Pods : cycle # NoCycle /\ Claims(p) /\ ClaimNode(p) = cycle.host =>
    /\ cycle.objs[p] # "none"
    /\ IndexOf(p, cycle.objs[p]) = ClaimIndex(p)

(* What Filter found for the host holds until Reserve looks again: Reserve *)
(* never panics in NewGPUNode, and it finds a GPU for a memory pod, so it  *)
(* fails for pods with a gpu limit only.                                   *)
HostStaysUsable ==
  cycle # NoCycle /\ cycle.pod \in GpuPods \cup MemPods =>
    /\ ~NewGPUNodePanics(HostSnapshot)
    /\ cycle.pod \in MemPods =>
         MemAssumeFitIndexes(HostSnapshot, memLimit[cycle.pod]) # {}

(* How the objects of a pod are related, which the properties above rest   *)
(* on.  Only a lost pod is bound while its binding goroutine still runs;   *)
(* the cache calls a pod assumed only while it holds the copy and no event *)
(* has confirmed it; whatever refers to the stored object finds a bound    *)
(* one; the scheduler works on pods that exist.                            *)
ObjectsAgree ==
  /\ \A p \in Pods :
       /\ (seen[p] # "absent" \/ p \in queue \/ p = cycle.pod \/ pc[p] # "idle")
            => api[p].phase # "absent"
       /\ api[p].phase \in {"absent", "pending"} => api[p].node = NoNode
       /\ api[p].phase = "bound" => api[p].node \in Nodes
       /\ pc[p] = "sent" => own[p].node \in Nodes
       /\ pc[p] # "idle" /\ api[p].phase = "bound" => p \in lost
       /\ p \in assumed => info[p] = "own" /\ seen[p] # "bound"
       /\ seen[p] = "bound" => info[p] # "none" /\ api[p].phase \in {"bound", "deleted"}
       /\ info[p] = "api" => api[p].phase \in {"bound", "deleted"}
       /\ cycle.objs[p] = "api" => api[p].phase \in {"bound", "deleted"}
  /\ \A r \in stale : r.node \in Nodes

(* What Filter found in total for the cycle's host is still true of the    *)
(* snapshot that Reserve uses.                                             *)
CycleSound ==
  cycle # NoCycle =>
    /\ up
    /\ cycle.alloc \in Allocs[cycle.host]
    /\ cycle.pod \in GpuPods \cup MemPods => QuantitiesFit(HostSnapshot, cycle.pod)

(* The claims of the pods with limits, as GPUAllocation's grants.          *)
grantOf ==
  [p \in GpuPods \cup MemPods |->
     IF Claims(p) THEN [node |-> ClaimNode(p), index |-> ClaimIndex(p)] ELSE Nowhere]

Allocation == INSTANCE GPUAllocation WITH grant <- grantOf

(* The scheduler implements GPUAllocation: a claim is made in one step and *)
(* only where there is room among all other claims, it never moves to      *)
(* another GPU between Reserve, Bind, the informer's events and a restart, *)
(* and it ends only by a release.                                          *)
ImplementsAllocation == Allocation!Spec

(* What the pods of node n really use, those the scheduler lost sight of   *)
(* included.                                                               *)
UsersOf(n) ==
  {q \in Pods : api[q].phase \in {"pending", "bound"}
                 /\ (api[q].phase = "bound" \/ pc[q] = "sent") /\ ClaimNode(q) = n}

(* GPU i of node n has room for p.                                         *)
Room(p, n, i) ==
  LET users == {q \in UsersOf(n) : ClaimIndex(q) = i}
      devices == alloc[n]
  IN  IF p \in GpuPods
        THEN \A q \in users : q \notin GpuPods /\ memLimit[q] = 0
        ELSE /\ \A q \in users : q \notin GpuPods
             /\ SumOver(memLimit, users) + memLimit[p] <= devices.mem \div devices.gpu

(* Some GPU has room for p, and its node in total too.                     *)
HasRoom(p) ==
  \E n \in Nodes : \E i \in 0 .. alloc[n].gpu - 1 :
    /\ Room(p, n, i)
    /\ SumOver(gpuLimit, UsersOf(n)) + gpuLimit[p] <= alloc[n].gpu
    /\ SumOver(memLimit, UsersOf(n)) + memLimit[p] <= alloc[n].mem

(* While the scheduler runs, no pod stays pending for ever although there  *)
(* is room for it: a failed Reserve, failed Bind, lost reply, crash or     *)
(* restart does not drop it from the queue for good, and a pod that is     *)
(* gone does not keep its place.  (A pod that makes the scheduler panic    *)
(* again and again keeps it from running.)                                 *)
PodsGetBound ==
  \A p \in GpuPods \cup MemPods :
    ~<>[](up /\ api[p].phase = "pending" /\ HasRoom(p))
=============================================================================
