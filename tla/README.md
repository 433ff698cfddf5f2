# TLA+ models of flex-gpu-scheduler

The repository is a Kubernetes scheduler built from the scheduler-plugins code
base (Kubernetes 1.23). Its command, `cmd/scheduler/main.go`, registers one
plugin, **FlexGPU**, which lets pods share the GPUs of a node: a pod has either
an `nvidia.flex.com/gpu` limit (it gets a GPU to itself) or an
`nvidia.flex.com/memory` limit (it gets part of a GPU's memory), and the plugin
records the index of the GPU as an annotation of the pod. The other plugins
and the controllers are in the tree and built by their tests; of them only the
controllers have a command (`cmd/controller`).

## Inventory

| component | state | operations | hard behaviour |
|---|---|---|---|
| FlexGPU (`pkg/flexgpu`) | none of its own: annotations on pod objects shared with the scheduler cache | Filter, Score, NormalizeScore, Reserve, Unreserve, Bind | decides on a snapshot; binding goroutines change objects the cache shares; lost replies; restart; nodes that lose GPUs |
| Coscheduling (`pkg/coscheduling`) | PodGroup status in the API server, TTL caches of denied and permitted groups, waiting pods of the framework | Less, PreFilter, PostFilter, Permit, Reserve, Unreserve, PostBind | all-or-nothing over many cycles; timeouts; stale lister; concurrent patches |
| PodGroup controller (`pkg/controller/podgroup.go`) | work queue, listers | pgAdded, podAdded, syncHandler | merge patches that race PostBind |
| CapacityScheduling (`pkg/capacityscheduling`) | ElasticQuotaInfos: limits, usage and counted pods per namespace | PreFilter, AddPod, RemovePod, PostFilter, Reserve, Unreserve, the handlers of two informers | accounting by four actors that must count each pod once; limits checked on a snapshot; victims chosen while usage changes |
| ElasticQuota controller (`pkg/controller/elasticquota.go`) | work queue, listers | handlers, syncHandler | status computed from stale lists, merge patches, errors that are not retried |
| Trimaran (`pkg/trimaran`) | metrics and a cache of recently bound pods, guarded by a lock | OnAdd, OnUpdate, OnDelete, cleanupCache, updateMetrics, two Scores | what a pod uses is in the cache, in the metrics, or briefly in neither |
| PreemptionToleration | none | eligibility, exemption, SelectVictimsOnNode | time and priority limits; a loop over an array that it reorders |
| NodeResourceTopology | none (a lister) | Filter, Score | NUMA arithmetic |
| NodeResourcesAllocatable, PodState, QoS | none | Score, NormalizeScore, Less | rounding, ordering |
| APIs (`apis/config`) | none | defaults and conversions of the plugin arguments | pointers, zero values, two versions |
| CrossNodePreemption | none | the code is commented out | – |
| commands, generated code | – | flags, wiring, clients | – |

What makes each correct: FlexGPU never gives a GPU to pods that exclude each
other nor more memory than a GPU has, keeps sight of what it gave away, and
forgets no pod; Coscheduling lets a group through together or not at all and
ends every wait; the PodGroup controller's phase follows the pods; the quota
accounting equals the pods that count, and a quota that is left alone keeps its
limits; the quota's status is its usage once nothing is left to do; preemption
removes only pods it may and must remove; Trimaran gives no score to a node that
the pod would overload; scores are node scores and rank the nodes.

## Modules

| module | role |
|---|---|
| `GPUNode` | the decisions of FlexGPU as functions of one node snapshot (`gpu_node.go`, and Filter and Score of `flex_gpu.go`) |
| `FlexGPU` | the plugin inside the scheduler: state machine, properties, fairness |
| `GPUAllocation` | the abstract specification: GPUs are granted where there is room and released |
| `GPUFit` | the loop of `MemAssumeFitIndexes` with its aliased `*Quantity` pointers |
| `MCFlexGPU` | small clusters for TLC |
| `Sums` | sums over finite sets (pods, containers, resources), shared by `GPUNode`, `Victims`, `ElasticQuotaController`, `Trimaran`, `NodeScores` and `NumaTopology` |
| `SumProofs` | facts about those sums |
| `FlexGPUProofs` | the inductive invariant, the safety theorems and the refinement |
| `CapacityProofs`, `ElasticQuotaProofs`, `CoschedulingProofs`, `PodGroupProofs`, `TrimaranProofs` | the inductive invariants and the safety theorems of those components |
| `DecisionsProofs` | what the loops of the plugins without state compute, and the theorems about their results |
| `Victims` | what the preemption plugins share: requests, importance, disruption budgets, the filters |
| `QuotaInfo`, `CapacityPreemption` | `elasticquota.go`, and PreFilter and the preemptor of `capacity_scheduling.go`, as operators |
| `CapacityScheduling` | the quota plugin at work: loop, binding goroutines and the handlers of both informers |
| `ElasticQuotaController` | the writer of a quota's status |
| `Trimaran` | the cache of bound pods, the metrics and the score of TargetLoadPacking |
| `Toleration`, `NodeScores`, `NumaTopology`, `QueueOrder`, `ConfigArgs` | the plugins without state, as operators: PreemptionToleration; PodState, NodeResourcesAllocatable and the risk score of LoadVariationRiskBalancing; NodeResourceTopology; Less of QoS and of Coscheduling; the plugin arguments |
| `Decisions` | one action per entry point of those plugins, and the properties of what they return |
| `Coscheduling` | the plugin with its TTL caches, the waiting pods, the scheduling loop and the binding goroutines |
| `PodGroup` | the status of one PodGroup and its two writers: PostBind of the plugin and the controller |
| `MCCoscheduling`, `MCPodGroup`, `MCCapacityScheduling`, `MCElasticQuotaController`, `MCTrimaran`, `MCDecisions` | small instances for TLC |

`Sums` represents a sum as the number of `<<pod, unit>>` pairs, because the
proofs need facts about cardinalities and not about recursion.

### State of `FlexGPU` and the code

| variable | code |
|---|---|
| `api` | the stored pods: phase, node, annotation |
| `alloc` | `Status.Allocatable` of the nodes, as the scheduler cache has it |
| `seen` | the last event of each pod the informer delivered |
| `queue` | the scheduling queue, all its parts together |
| `info`, `assumed` | the scheduler cache: which object of a pod its NodeInfo holds, and whether it is only assumed |
| `own` | the copy that `assume` and `Reserve` write to |
| `pc` | the binding goroutine of a pod: `sent`, `failed` (the call returned an error), `unreserved` |
| `cycle` | the scheduling cycle between host selection and Reserve, with the snapshot of its host; it has references to objects, so an annotation deleted later is seen deleted |
| `stale` | bind requests the scheduler gave up on, which the API server may still apply |
| `up`, `faults`, `lost` | process state, the number of faults, and the pods that are bound although the scheduler was told (or assumed) that they are not |

The actions are those of the scheduling loop (`Schedule`, `FilterPanic`,
`ScorePanic`, `Reserve`, `ReserveFails`, `AssumeFails`), of the binding
goroutines (`Bind`, `BindRefused`, `BindReplyLost`, `BindTimeout`,
`Unreserve`, `Forget`), of the informer, of users and nodes, and of failures.
`Reserve` includes `assume`; `ReserveFails` includes the Unreserve, ForgetPod
and error function that run in the same cycle. The framework parts are
translated from the vendored Kubernetes code, as far as the plugin can see
them. Simplifications: the two handlers of one informer event are one step and
the pod lister is not ahead of them; the queue has no order and no backoff; a
pod is created once; preemption is left out (the plugin does not take part in
it); an annotation that a user writes is left out.

### State of `Coscheduling` and the code

| variable | code |
|---|---|
| `stored`, `known` | the pods in the API server, and the groups the PodGroup lister finds |
| `queue` | `active`, or `parked`: the backoff and the unschedulable queue together |
| `cache` | the pods of the scheduler cache, assumed or bound |
| `waiting` | the framework's waiting pods, with what is in the channel of each: a channel has room for one status, so the first decision counts |
| `pc` | the binding goroutine: at Permit, at Bind, before Unreserve, before ForgetPod |
| `cycle` | the cycle under way with its snapshot, at Permit or before PostFilter |
| `denied`, `permitted` | `lastDeniedPG` and `permittedPG` |
| `through`, `cut` | histories for the properties: pods that passed Permit, and groups deleted or with a wait that was cut short |

A timer puts a rejection into the channel (`Timeout`) long before the goroutine
takes it out (`WaitOnPermit`), undoes (`Unreserve`) and forgets the pod
(`Forget`): between these steps the scheduling loop goes on, and the cache
still has the pod. `PreFilterFails` includes the PostFilter of the same cycle,
`CycleFails` the Unreserve, ForgetPod and error function. Nodes and resources
are one number, `Capacity`. Any active pod may be next (the order,
`Less`, is in `QueueOrder`); a preemption plugin that runs before PostFilter is
left out. Time is abstract, with two
assumptions that the durations justify: a denial (seconds) outlasts the
goroutines of the pods rejected with it (`ExpireDenied`), and a timer fires
while a sibling of a group that still exists is active or in its cycle only as
often as `MaxFaults` allows (`NoSiblingActive`).

### State of `PodGroup` and the code

`status` is the stored status; `schedView` and `ctrlView` are the copies in the
listers of the scheduler and of the controller, which stay old as long as the
informer is in `unseen`. PostBind is two steps, because it reads the lister
twice: `PostBind` computes the copy, `PostBindPatch` the difference to what the
lister has then. The controller is `Sync` (read and compute) and `SyncPatch`
or `SyncFails`; `queued` is the work queue, which holds a key once. The pod
lister of the controller is immediate. Left out: OccupiedBy, ScheduleStartTime,
and the rule that drops groups which took 48 hours to be scheduled.

### State of `CapacityScheduling` and the code

| variable | code |
|---|---|
| `phase`, `nominated` | the pods in the API server; those with a nominated node, as the scheduler knows them |
| `seen` | what the handlers of the pod informer have been told of each pod |
| `lister`, `notes` | the store of the ElasticQuota informer, which `addPod` reads, and the events of each namespace that its handlers have still to handle |
| `adding` | `addElasticQuota` between its check and its lock |
| `infos` | the field `elasticQuotaInfos` |
| `cycle` | the scheduling cycle with the `CycleState`: snapshot of the infos and `PreFilterState` |
| `binding` | the binding goroutine of each pod |
| `steady`, `dropped` | histories for the properties: namespaces whose quota, binds and plugin were left alone, and pods whose usage was discarded |

`StartCycle` is PreFilter, `Reserve` and `PostFilter` end the cycle, and
everything else may happen in between. `addElasticQuota` is two steps, because
it reads without the lock. The informer has only pods that have not ended (its
field selector says so), so a pod that ends is a deletion. There is one node;
its filters are the fit of resources; the evaluator of kube-scheduler
(candidates, eviction, nomination) is modelled from how the plugin uses it.

### State of `ElasticQuotaController` and the code

`pods` and `eq` are the objects of the API server, `podLister` and `eqLister`
the copies in the listers, which follow one event at a time (`podEvent`,
`eqEvent`). `eqQueue` is the work queue with its one key. `syncHandler` reads
and computes; `Patch` applies the difference to what the API server has by
then; `PatchFails` drops it, since `processNextWorkItem` does not put the key
back. `missed` remembers that, for the property. A quota that is deleted and made
anew has another `uid`, so that the informer reports it even if it looks like
the old one. One quota and its namespace;
events of a pod that does not change are left out, and so is the recorder.

### State of `Trimaran` and the code

`bound` is what is bound in the API server, `seen` what the handler has been
told, `cache` is `ScheduledPodsCache`, `metrics` the last answer of the load
watcher, `now` and `cleaned` the clock and the last cleanup in ticks. The
comment in Score (`targetloadpacking.go:237`) gives the delay of a pod's metrics
as up to twice the reporting interval: the metrics with a window that ends at
`e` include every pod bound at least `2 * Interval` before `e` and any of the
younger ones. Score leaves out cache entries of one `Interval`, so that a pod
may be in neither sum for a while. `unseen` are the pods that came or went
during a gap in the watch. `Targets` are the target utilizations that Score is
evaluated for: any positive number, because `getArgs` sets no upper bound.
Scores are computed with exact fractions instead of floating point.

### Inputs of `Decisions`

Every action takes some input, calls one entry point and keeps the result;
`Return` makes room for the next call. `MCDecisions` has the inputs: nodes
with three pods of seven or eight kinds, with and without a budget, three pairs of
quotas; up to three GPUs of memory up to three; up to three nodes to score; lists
of up to three metrics; one or two containers on two NUMA zones, among them
zones with a wrong name, another type or a gap in the ids; three pods in the
queue; and for the arguments every combination of values that defaults,
conversions and plugins tell apart. Tolerations are shorter, as long as and
longer than `DurationLimit`, which stands for the range of `time.Duration`. The
quantities of NUMA zones are in parts of a unit (`Parts`), because the scores use
`Quantity.Value`, which rounds up to whole units.

## Runs

All bounds are in the `.cfg` files; `MaxFaults` bounds faults, `MaxOps` changes
of quotas.

| run | instance | shows |
|---|---|---|
| `faults` | a gpu pod and a memory pod for one GPU, a pod without limits, a second node without devices; one fault | exclusiveness, cache and snapshot know every claim, objects agree, refinement of `GPUAllocation`; scoring, the panic in Score and the restart; no pod stays pending for ever although a GPU has room for it, after Reserve has failed for the gpu pod as well |
| `packing` | three memory pods (1, 2, 2) on a node that changes between two GPUs of memory 2 (5 `\div` 2) and one of memory 3 | memory per GPU, no panic and no failure in Reserve for memory pods, totals still true in Reserve |
| `gang` | a group of two with minMember 2 and a pod without a group, room for two, two faults | the group passes Permit together, no lost wake-up, no pod forgotten; every wait ends, also when the other member or the group is deleted; with room for all a complete group is bound in the end |
| `gang_timeout` | a group of three, one early timer | violation: a pod that has timed out still counts towards the quorum |
| `status` | two pods, minMember 2, one fault | no pod is counted twice, no phase is ahead of the pods, pods that have all succeeded make the group Finished once all is settled |
| `quota` | namespaces `a` (two pods of different priority, may borrow) and `b` (one pod that needs the whole node), one change of a quota, one fault | usage is the sum over the counted pods; when all events are handled the bound pods are counted, but for usage lost in two ways; limits hold for quotas that are left alone |
| `counted` | the same without faults | violation: pods bound before their quota is seen are never counted |
| `quota_status` | two pods with three resources, three changes of the quota, one fault | the status settles at the usage, the controller comes to rest, a late patch revives nothing |
| `trimaran` | two pods, a node for one and a node for both, five ticks, targets 40, 100 and 120, one fault | the cache is ordered and has no pod twice; metrics and cache together miss no pod that either must have; how far scores go |
| `decisions` | the inputs above | victims are needed and may be taken, no GPU with room is overlooked, scores rank the nodes, alignment exists, orders are orders, arguments survive |
| `toleration` | the inputs of PreemptionToleration | violation: a toleration beyond the range of `time.Duration` is not honoured |
| `binpack` | the inputs of FlexGPU | violation: Reserve does not take the fullest GPU that fits |

The bounds are enough for the cases that matter. FlexGPU: two pods that compete
for one GPU while a third is in its scheduling cycle or makes the scheduler
panic, one fault at every point (a second one gives nothing new for pods that
are not lost), totals and single GPUs at their limit in either order, and a GPU that vanishes between any two
steps. Coscheduling: a pod without a group that takes the room of a member, and two
faults (a deletion, an early timer, a failed call or a restart, in any order), so
that a group is let through, loses a member and is tried again; spare members
beyond minMember are left to the proofs of the safety properties.
PodGroup: two binding goroutines whose PostBinds overlap with each other and
with the controller, and both listers late. CapacityScheduling: a quota that
borrows and must give back, preemption within and between quotas, a nominated
pod beside another cycle, and a quota that is created, changed or deleted at
every point of all that. ElasticQuotaController: limits that lose a name while
a patch is under way. Trimaran: a pod that is deleted and made anew, on the
same node or another, and cleanups before and after the metrics are fetched;
`Interval` and `Cleanup` are two ticks, so that an age is below, at and above
them, and the last tick is two intervals after the first. Deadlock is checked in `decisions` only: a cluster in which all pods are
done stops.

Fairness (`FairSpec`): the informer, the binding goroutines and the scheduling
loop keep running and a dead scheduler is restarted, which is what goroutines
and the Deployment provide; `Schedule(p)` is strongly fair because the queue
retries every pod (backoff, and the flush of unschedulable pods). Users, nodes
and faults are not fair. `PodsGetBound` is about schedulers that stay up: a pod
for which Score divides by zero makes every new process panic, and nothing gets
bound. In `Coscheduling` the goroutines, the loop and the
timers are weakly fair, `Schedule` and `Timeout` strongly: the queue offers a
pod again after every failure, and a timer runs from the moment the wait
starts. `GroupsGetThrough` asks that there is room for all pods, since members
that wait at Permit keep others from their room. In `ElasticQuotaController` the informers and the worker are weakly
fair and the world is not. The others have no fairness: `SettledFinished`,
`Accounted` and `ScheduledIsCounted` are about the states in which nothing is
left to do, and `CapacityScheduling` promises no pod that it is scheduled.

A claim is a bound pod, or a pod whose Binding is under way. The safety
properties of FlexGPU speak of claims that are not in `lost`. For a lost pod
they would be false: Unreserve deletes the annotation of a pod whose binding was
stored, the reply being lost, and its GPU looks free from then on. Nor do they
promise that Reserve succeeds for a pod with a gpu limit: Filter compares such a
limit with the node's total only, so `ReserveFails` happens when memory pods use
every GPU that is left. In the same way `WithinMax` and `WithinMin` are about
`steady` quotas: a smaller max is not enforced on pods that run, a restart lets
pods in before the handlers have counted the old ones, and Unreserve after a
lost reply takes off a pod that is bound. `NeverOverloads` counts the
pods that are `Covered`: those so old that the metrics must have them, and those
so young that neither Score nor a cleanup may have left their entries out. For
the pods in between, whose metrics come late, the code promises nothing.

What the histories and premises leave out are damages that the code really can
do. The properties then say how far a damage goes, and not that it is ruled out:

| left out | what happens to it | what is shown |
|---|---|---|
| `lost` (FlexGPU) | a pod that was bound behind the scheduler's back, by a lost reply or by a late request of a process that is gone; its GPU may be given away again | there is no other way to a double use, and no other pod is concerned |
| `cut`, and `through` as a history (Coscheduling) | a group with a timer that cut a wait short (`gang_timeout`); a member that passed Permit and then failed to bind | all other groups pass Permit together; that the members also stay is not claimed |
| `dropped` (CapacityScheduling) | usage of pods bound before their quota was seen (`counted`), or discounted by Unreserve after a lost reply | usage is lost in no other way |
| `missed` (ElasticQuota controller) | a patch that failed and is not retried until the next event | at rest the status is wrong in this case only |
| `unseen`, `Covered` (Trimaran) | pods of a gap in the watch; pods that left the cache before the metrics have them | no other pod is overlooked |
| `TooLong` (PreemptionToleration) | tolerations beyond `time.Duration` (`toleration`) | all shorter ones are honoured |
| results that are errors (CapacityScheduling) | the second removal of a pod in the selection of victims makes it fail on that node | no selection that succeeds rests on it |
| ids with a gap (NodeResourceTopology) | Score panics | Filter and Score are sound for ids without a gap |
| pods that agree in priority and class (QoS) | each is less than the other | all others are ordered |

## Proofs

Each theorem is `Spec => []P` (or a refinement) for every value of the
constants; the bounds that TLC needs (`MaxFaults`, `MaxOps`, `MaxTime`) are
arbitrary natural numbers in the proofs. The named assumptions of the modules
ask for finitely many pods (and namespaces), requests and limits in `Nat`, and
values that stand for "nothing" outside the sets they stand beside. Every
inductive invariant was model-checked on the instance of its component before
it was proved.

| module | theorems | of the properties |
|---|---|---|
| `FlexGPUProofs` | `TypeCorrect`, `Exclusive`, `NoOvercommit`, `ClaimsTracked`, `SnapshotCurrent`, `CopiesAgree`, `FilterStillHolds`, `ReserveSafe`, `Refinement` | `TypeOK`, `GPUExclusive`, `MemoryFits` (and `WithinAllocatable`), `CacheTracksClaims`, `SnapshotTracksClaims`, `ObjectsAgree`, `CycleSound`, `HostStaysUsable`, `ImplementsAllocation` |
| `CapacityProofs` | `TypeCorrect`, `UsageIsSum`, `UsageSettles`, `NeverOverMax`, `NeverOverMin` | `TypeOK`, `UsedIsSum`, `Accounted`, `WithinMax`, `WithinMin` |
| `ElasticQuotaProofs` | `TypeCorrect`, `StatusIsUsage` | `TypeOK`, `StatusSettles` |
| `CoschedulingProofs` | `TypeCorrect`, `GangsTogether`, `WakeupsKept`, `OnePlaceOnly` | `TypeOK`, `GangTogether`, `NoLostWakeup`, `OnePlace` |
| `PodGroupProofs` | `TypeCorrect`, `CountsHonest`, `PhasesTrue`, `FinishedAtRest` | `TypeOK`, `CountHonest`, `PhaseHonest`, `SettledFinished` |
| `TrimaranProofs` | `TypeCorrect`, `CacheIsHonest`, `NoOverloadedNodeScores`, `CacheIsComplete` | `TypeOK`, `CacheHonest`, `NeverOverloads`, and `CacheComplete` of the proof module |
| `DecisionsProofs` | `VictimsAreNeeded`, `GuaranteeIsKept`, `TolerationIsHonoured`, `RoomIsFound`, `ScoresRankNodes`, `RiskIsSound`, `NumaIsSound`, `QueueIsOrdered`, `ArgumentsSurvive` | `VictimsNeeded`, `GuaranteeKept`, `TolerationHonoured`, `RoomFound`, `ScoresRank`, `RiskSound`, `NumaSound`, `QueueOrdered`, `ArgsSurvive` |

**FlexGPU.** Exclusiveness is not inductive: Reserve decides on a snapshot.
`IInv` adds that the cache has every claim (`CacheTracksClaims`), that the
snapshot of the cycle under way has every claim on its host
(`SnapshotTracksClaims`), that what Filter found is still true of it
(`CycleSound`, `HostStaysUsable`), and how the objects of a pod are related
(`ObjectsAgree`). The argument has two halves. Every step but Reserve makes no
claim and moves none (`NoNewClaim`) and leaves the cycle's snapshot alone, up to
annotations that disappear from pods without a claim (`KeepsCycle`); both keep
everything else. Reserve makes one claim, and the snapshot having all the
others, its choice fits (`ReserveExclusive`, `ReserveMemoryFits`,
`ReserveWithinAllocatable`). The same two halves are the `Release` and `Grant`
steps of the refinement.

**CapacityScheduling.** `UsedIsSum` is kept by each of the operations that
count or discount a pod, since each looks first whether the pod is counted. The
limits need more: PreFilter checks a snapshot, and Reserve counts later.
`CycleCovers` says that since the snapshot was taken a steady namespace has got
no new pod and no other limits, `CyclePassed` that the check was made on it with
at least the pod's request; the bound then carries over to what Reserve counts
(a smaller set of pods has a smaller sum). A steady namespace has no event on
its way (`SteadyQuiet`), and counts every pod that holds quota
(`SteadyCounted`), so that no handler adds a pod behind PreFilter's back.
`Accounted` needs that only pods that hold quota are counted (`CountedHold`) and
that what the handlers saw is counted or recorded as dropped (`SeenCounted`).

**ElasticQuota controller.** A status in the lister that is wrong, with nothing
queued or under way, cannot be the one in the API server (`WrongIsStale`): an
event is still to come. To keep that over `Patch`, the patch must be the
difference between the status the lister has and the usage computed now
(`PatchCurrent`), and a quota made anew must differ from the old one
(`UidsFresh`; without uids an identical quota would come without an event).
`StatusIsUsage` assumes that no pod has overhead, which the controller leaves
out of the usage (see below); `TypeCorrect` and the invariant do not.

**Coscheduling.** Permit counts the cache as it was at the start of the cycle,
which may have pods that are being turned down. `RejectedDenied` is the key: as
long as no pod of the group has passed and no wait was cut short, a group with
a pod that is rejected and still assigned is denied, so that PreFilter starts
no cycle for it. Hence all the pods that a cycle counts are waiting, and stay so
until it ends (`CycleOpen`), and the pod that completes the quorum lets all of
them through. `NoLostWakeup` rests on `SnapshotCovers`: during a cycle the cache
only loses pods. `Placement` says where a pod may be, and gives `OnePlace`.

**PodGroup.** The count: no status that is stored, in a lister or about to be
sent counts more pods than have finished PostBind, and one that PostBind is
about to send counts at most one more (`CountBehind`); the controller's patch
never has the field (`PatchOK`). No assumption is needed. The phases: every
phase that is stored, in a lister, in a copy or in a patch was true of the pods
when it was computed, and pods that were bound, succeeded or failed once did so
for ever (`PhasesHonest`, `HistoryOK`). As long as the pods have all succeeded
and the group is not Finished, something is under way that makes the controller
look again (`NotAtRest`, `ViewLate`). The two theorems about phases assume
`Foreign = {}`: the controller counts the pods of all namespaces (see below),
and pods elsewhere that carry the same label make both false.

**Trimaran.** `CacheHonest` needs that a uid belongs to one pod in API server
and informer (`UidsUnique`), that uids and times are those of the past (`Past`)
and that a pod that came up in a gap has been reported (`GapReported`): then the
uid that OnAdd appends is in no cache, and the entry that OnDelete takes out is
the only one. `CacheComplete` is the half of `NeverOverloads` that is about the
handler: a pod it was told of is in the cache until a cleanup that comes at
least one reporting interval after its binding. The lemmas say what `Dropped`
and `Cleaned` leave of a sequence. The other half is about the metrics
(`MetricsCover`): they have at least the usage of the pods bound two intervals
before their end. Together they miss no covered pod (`ExpectedCovered`), so that
the usage Score predicts is at least what is expected, and above the capacity
the score is 0. How large the score is (`ScoreBound`) is arithmetic of the two
branches of `TargetScore` around the target, and needs neither half: a node
score for a target of at most 100, and for a greater one 0 or between 100 and
the target (`RoundBetween`).
`NeverOverloads` leaves out nodes without capacity, which the code scores as
idle ones.

**Decisions.** A state of `Decisions` is one call, so each theorem is a fact
about one operator, for every input that the assumptions of the module allow
(`QuotaAssumption`, `TolerationAssumption`, `GPUAssumption`, `ScoreAssumption`,
`RiskAssumption`, `TopologyAssumption`, `QueueAssumption`, `ArgsAssumption`,
`NodeCountAssumption`): quantities are not negative, the pods of a node have
different uids, its zones different names, at least one node is scored, a
guaranteed pod requests cpu and memory in every container, and arguments have
the external types. The loops of the code are recursive functions whose value
at `k` is the state after `k` iterations (`VictimLoop`, `RemoveLoop`,
`ReprieveLoop`, `BudgetLoop`, `AlignLoop`, `MetricLoop`, ...). `LoopExists` says
that such a function exists, `LoopInvariant` and `LoopKeeps` that an invariant
of the body holds at every index: the set of the indexes where it fails would
have a least element (`LeastElement`). `LoopRuns` is both at once, for a body
that is defined only where the invariant holds, and `SetInduction` is the same
for finite sets. An invariant is passed to them as a set or a function and not
as an operator, which is why the provers can use them.

*Preemption.* Removing victims keeps that the infos count exactly the pods still
on the node (`Counted`, for which sums of requests must split and be monotone),
and a pod is a potential victim by the infos of that moment, which is
`GuaranteeKept`. Both reprieve loops keep that the pod fits with what is on the
node, that a victim did not fit when it was tried, and that every candidate is
one or the other; since later iterations only add pods, a victim does not fit at
the end either, which is `VictimsNeeded`. `TolerationHonoured` needs the
invariant of the loop over the array that `RemovePod` changes
(`SearchedSoFar`): the places the loop has still to visit are as they were, and
the first `n` places have the pods that are left, each once. Of the sort only that it is a
permutation is used: Go's `sort.Slice` is not stable, and the order of equals
does not matter to these theorems.

*Scores.* `ScoresRank` compares the scores with what the nodes are worth by
definitions of its own (`Worth`, `WeightedSum`), not with the code's raw scores.
Those are the worth divided by the sum of the weights, rounded towards zero for
positive and negative sums alike (`Quotients`, `QuotientNegative`), so that they
differ from it by less than that sum (`Divided`, `ScorerDivides`): a difference
of less than `Blur` may vanish. `BlurredRanks` carries the ranking from the raw
scores to the normalised ones. Nodes that differ by more than the blur make the
scores use the whole range, so that no constant score passes, and nodes that
differ by a hundredth of the range get different scores. `RiskSound` orders
fractions by cross products; each operation of `computeScore` keeps that order,
and after `k` metrics the loop has the value of the average if there was one
and of the latest value otherwise, whatever their order.

*NUMA.* The list of NUMA nodes has each id once (`NodesListed`), so that the id
that Filter chooses names one of them. The loop over the containers keeps that
there is an `f` for the containers so far such that every NUMA node has left
what it had less what `f` puts on it, and nothing was put on one that lacks a
native resource; at the end that is the alignment. Score is a minimum of
weighted means, which are node scores because their parts are, or a hundred
times one less a variance, and the variance of fractions is at most one
(`VarianceBounds`).

*The others.* `RoomFound`: as long as no GPU has fitted the aliased quantity is
still the memory of a GPU, and the first fit is a real one. `QueueOrdered` and
`ArgsSurvive` are case distinctions over the classes of pods and the kinds of
arguments.

Only model-checked: liveness (`PodsGetBound`, `WaitsEnd`, `GroupsGetThrough`,
`ComesToRest`), which is out of the prover's reach. Every safety property that
a passing run checks is a theorem.

Only proved: `WithinAllocatable`, the totals of a node in `NoOvercommit`, and
`CacheComplete`.

## What the violations show

- `gang_timeout`: Permit counts the snapshot, which has pods whose wait is over,
  so that fewer than minMember pods of a group may go through.
- `counted`: `addElasticQuota` starts with no usage, and the pods of the
  namespace that are bound by then have had their only `addPod`. The same
  happens when an info that `addPod` has made is overwritten because
  `addElasticQuota` looked before taking the lock.
- `toleration`: `preemption_toleration.go:172` multiplies the seconds in a
  `time.Duration`, which wraps around: a very long toleration becomes a short one
  or none, where `preemption_toleration_policy.go:47` says that a positive value
  "will be honored".
- `binpack`: in `gpu_node.go:139` all entries share one `*Quantity`, so that the
  sort "to perform bin-pack affinity" (`gpu_node.go:150`) has nothing to tell the
  entries apart by and changes nothing. Reserve takes the first GPU with room,
  while `flex_gpu.go:216` says "indexes is sorted by bin-pack affinity".

## Other disagreements

Seen while modelling, and without a run of their own:

- `flex_gpu.go:142`: Score builds a `gpuNode` without the checks of Filter, and
  divides by zero on a node without GPUs (`ScorePanic`).
- `core.go:236`: PostBind sends no patch while the phase stays Scheduling, and
  the count is lost: with minMember 3 a group whose pods all run is never
  Running.
- `podgroup.go:210`: the controller counts pods of all namespaces, so that a
  group of the same name elsewhere moves the phase (`Foreign` in `PodGroup`).
- `capacity_scheduling.go:619`: a pod that does not fit is removed a second time
  if the quotas are too small as well; the second call fails, and with it the
  selection on that node.
- `defaults.go:106` and `getArgs` of TargetLoadPacking refuse only targets that
  are not positive; with one above 100 the scores exceed `MaxNodeScore`, and the
  framework fails the cycle.
- `filter.go:229`: "we do not expect a negative value here" — a resource
  without NUMA affinity, or a burstable pod, makes it negative, and a later
  container that requests the resource is turned away.
- `score.go:101`: an array with one entry per NUMA node is indexed by the NUMA
  id; a gap in the ids is out of range.
- `handler.go:113`: the cleanup "deletes podInfo entries that are older", but
  when all entries of a node are old it keeps them.
- `handler.go:83`: a deletion after a gap in the watch arrives as
  `DeletedFinalStateUnknown`, passes the filter and fails the type assertion.
- `elasticquota.go:327` (controller): the result of adding the overhead is
  thrown away, so that the status leaves it out. The run has no overhead.
- `queue_sort.go:49`: of two guaranteed pods, and of two of any other class,
  each is less than the other.

## Not modelled

CrossNodePreemption is commented out. The commands are flags and wiring; what
leader election does to a controller is `Restart`. Generated clients, informers,
listers and deep copies, and the registration of types, are calls to a library.
The HTTP client of the load watcher and the errors of its constructor are left
out. Of the resource helpers `ResourceList` is left out.

## Plan

Done: all plugins and both controllers, model-checked, and every safety property
of the runs proved. Left: an abstract all-or-nothing specification of a gang
that Coscheduling implements, and one of the quotas in which every pod that
counts is counted once.
