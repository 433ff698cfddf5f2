----------------------------- MODULE Decisions -----------------------------
(***************************************************************************)
(* The decisions that plugins make from their inputs alone, one call at a  *)
(* time: each action calls the entry point of a plugin with some input,    *)
(* and the properties compare what it returns with a definition that does  *)
(* not follow the code.                                                    *)
(***************************************************************************)
EXTENDS CapacityPreemption, Toleration, GPUFit, NodeScores, NumaTopology, QueueOrder, ConfigArgs

CONSTANTS QuotaInputs, TolerationInputs, GPUInputs, PodStateInputs, AllocatableInputs,
          RiskInputs, TopologyInputs, QueueInputs, ArgsInputs,
          NodeCounts  \* the numbers of nodes for which the candidates are counted

(* Pods that preempt or are preempted: their requests are not negative,    *)
(* those on a node are distinct, and priorities, times and allowed         *)
(* disruptions are numbers.                                                *)
PreemptionInput(in) ==
  /\ in.pods \in Seq(ToSet(in.pods)) /\ IsFiniteSet(in.nominated)
  /\ \A p \in ToSet(in.pods) \cup in.nominated \cup {in.pod} :
       computePodResourceRequest(p) \in [Res -> Nat] /\ p.prio \in Int /\ p.start \in Int
  /\ \A j, k \in DOMAIN in.pods : in.pods[j].uid = in.pods[k].uid => j = k
  /\ \A i \in DOMAIN in.pdbs : in.pdbs[i].allowed \in Int
  /\ in.capacity \in [Res -> Nat]

ASSUME QuotaAssumption ==
  \A in \in QuotaInputs :
    /\ PreemptionInput(in)
    /\ IsFiniteSet(DOMAIN in.quotas)
    /\ \A ns \in DOMAIN in.quotas :
         in.quotas[ns].min \in [Res -> Nat] /\ in.quotas[ns].max \in [Res -> Nat]

(* Pods were scheduled before the cycle; None and Bad are no numbers, and  *)
(* a class has a name.                                                     *)
ASSUME TolerationAssumption ==
  /\ None \notin Int /\ Bad \notin Int /\ Bad # None /\ DurationLimit \in Nat \ {0}
  /\ \A in \in TolerationInputs :
       /\ PreemptionInput(in)
       /\ in.now \in Int /\ in.pod.never \in BOOLEAN /\ None \notin DOMAIN in.classes
       /\ \A p \in ToSet(in.pods) : p.scheduled = None \/ (p.scheduled \in Int /\ p.scheduled <= in.now)
       /\ \A c \in DOMAIN in.classes :
            /\ in.classes[c].value \in Int
            /\ {in.classes[c].minimum, in.classes[c].seconds} \subseteq Int \cup {None, Bad}

ASSUME GPUAssumption ==
  \A in \in GPUInputs :
    in.gpus \in Seq([monopoly : BOOLEAN, used : Nat]) /\ in.each \in Nat /\ in.limit \in Nat

(* Pods have different names; names and times are numbers in their order.  *)
ASSUME QueueAssumption ==
  \A in \in QueueInputs :
    /\ \A k \in DOMAIN in.pods :
         /\ in.pods[k].name \in Int /\ in.pods[k].prio \in Int /\ in.pods[k].attempt \in Int
         /\ in.pods[k].qos \in {"Guaranteed", "Burstable", "BestEffort"}
    /\ \A j, k \in DOMAIN in.pods : in.pods[j].name = in.pods[k].name => j = k
    /\ \A g \in DOMAIN in.created : in.created[g] \in Int

(* At least one node is scored; New has accepted the weights.              *)
ASSUME ScoreAssumption ==
  /\ \A in \in PodStateInputs :
       in.nodes \in Seq([terminating : Nat, nominated : Nat]) /\ in.nodes # << >>
  /\ \A in \in AllocatableInputs :
       LET args == AllocatableArgs(in.mode, in.weights, in.default)
       IN  /\ Len(in.nodes) \in Nat \ {0} /\ DOMAIN in.nodes = 1 .. Len(in.nodes)
           /\ \A k \in DOMAIN in.nodes, r \in DOMAIN args.weights : AllocatableOf(in.nodes[k], r) \in Nat
           /\ args.ok /\ IsFiniteSet(DOMAIN args.weights) /\ DOMAIN args.weights # {}
           /\ args.weights \in [DOMAIN args.weights -> Nat \ {0}]

(* What is requested is not negative; a metric may have any value.         *)
ASSUME RiskAssumption ==
  LET Requests == [{"cpu", "memory"} -> Nat]
  IN  \A in \in RiskInputs :
        /\ in.metrics \in Seq([type : STRING, operator : STRING, value : Int])
        /\ in.pod \in [containers : Seq(Requests), inits : Seq(Requests), overhead : Requests]
        /\ in.allocatable \in [{"cpu", "memory"} -> Int] /\ in.margin \in Int

(* A pod has containers, and every container of a guaranteed pod requests  *)
(* cpu and memory, which are native; the zones of a node have different    *)
(* names.                                                                  *)
ASSUME TopologyAssumption ==
  /\ MaxNUMA \in Nat /\ Parts \in Nat \ {0}
  /\ \A in \in TopologyInputs :
       LET cs == in.pod.inits \o in.pod.containers
           zones == in.topology.zones
       IN  /\ in.pod.inits \in Seq(ToSet(in.pod.inits)) /\ zones \in Seq(ToSet(zones))
           /\ in.pod.containers \in Seq(ToSet(in.pod.containers)) /\ in.pod.containers # << >>
           /\ \A k \in DOMAIN cs : IsFiniteSet(DOMAIN cs[k]) /\ cs[k] \in [DOMAIN cs[k] -> Nat]
           /\ in.pod.qos = "Guaranteed" =>
                \A k \in DOMAIN cs : \E q, r \in DOMAIN cs[k] \cap Native : q # r /\ cs[k][q] > 0 /\ cs[k][r] > 0
           /\ \A k \in DOMAIN zones : zones[k].res \in [DOMAIN zones[k].res -> Nat]
           /\ \A j, k \in {k \in DOMAIN zones : IsNUMANode(zones[k])} : zones[j].id = zones[k].id => j = k
           /\ in.weights \in [DOMAIN in.weights -> Int]

(* The configuration file has the external types.                          *)
ASSUME ArgsAssumption ==
  \A in \in ArgsInputs :
    \/ in \in CoschedulingArgs \/ in \in NodeResourcesAllocatableArgs
    \/ in \in TargetLoadPackingArgs \/ in \in LoadVariationRiskBalancingArgs
    \/ in \in NodeResourceTopologyMatchArgs \/ in \in PreemptionTolerationArgs

MaxInt32 == 2147483647

(* The product of a number of nodes and a percentage fits an int32.        *)
ASSUME NodeCountAssumption == \A n \in NodeCounts : n \in Nat /\ n * 100 <= MaxInt32

VARIABLE call  \* the call that has returned: op, in and out

NoCall == [op |-> "none"]

Init == call = NoCall

Idle == call = NoCall

Called(op, in, out) == call' = [op |-> op, in |-> in, out |-> out]

(* The quota infos in which the pods are counted.                          *)
Counted(quotas, pods) ==
  [ns \in DOMAIN quotas |->
     LET mine == {p \in pods : p.ns = ns}
     IN  [min |-> quotas[ns].min, max |-> quotas[ns].max,
          used |-> Requested(mine), pods |-> {p.uid : p \in mine}]]

SnapshotOf(in) == Counted(in.quotas, ToSet(in.pods))

StateOf(in) == PreFilterState(SnapshotOf(in), SnapshotOf(in), in.pod, in.nominated)

PreemptByQuota ==
  /\ Idle
  /\ \E in \in QuotaInputs :
       Called("quota", in, SelectVictimsOnNode(SnapshotOf(in), StateOf(in), in.pod, in.pods,
                                               in.pdbs, in.nominated, in.capacity))

PreemptTolerant ==
  /\ Idle
  /\ \E in \in TolerationInputs :
       Called("toleration", in,
              IF ~Eligible(in.pod, in.isNominated, ToSet(in.pods)) THEN NoVictims("NotEligible")
              ELSE TolerantVictims(in.classes, in.pod, in.now, in.pods, in.pdbs,
                                   in.nominated, in.capacity))

FitGPU ==
  /\ Idle
  /\ \E in \in GPUInputs : Called("gpu", in, MemAssumeFitIndexes(in.gpus, in.each, in.limit))

ScorePodState ==
  /\ Idle
  /\ \E in \in PodStateInputs : Called("podstate", in, PodStateScores(in.nodes))

ScoreAllocatable ==
  /\ Idle
  /\ \E in \in AllocatableInputs :
       Called("allocatable", in, AllocatableScores(AllocatableArgs(in.mode, in.weights, in.default), in.nodes))

ScoreRisk ==
  /\ Idle
  /\ \E in \in RiskInputs :
       Called("risk", in, RiskScore(in.metrics, in.pod, in.allocatable, in.margin, in.sensitivity))

MatchTopology ==
  /\ Idle
  /\ \E in \in TopologyInputs :
       Called("topology", in,
              [filter |-> TopologyFilter(in.pod, in.topology, in.allocatable),
               score |-> TopologyScore(in.pod, in.topology, in.strategy, in.weights)])

OrderPods ==
  /\ Idle
  /\ \E in \in QueueInputs :
       Called("queue", in,
              [qos |-> [j \in DOMAIN in.pods |-> [k \in DOMAIN in.pods |->
                         QosLess(in.pods[j], in.pods[k])]],
               gang |-> [j \in DOMAIN in.pods |-> [k \in DOMAIN in.pods |->
                          CoschedulingLess(in.created, in.pods[j], in.pods[k])]]])

DecodeArgs ==
  /\ Idle
  /\ \E in \in ArgsInputs, version \in {"v1beta2", "v1beta3"} :
       Called("args", in, Decode(version, in))

Return == ~Idle /\ call' = NoCall

Next ==
  \/ PreemptByQuota \/ PreemptTolerant
  \/ FitGPU
  \/ ScorePodState \/ ScoreAllocatable \/ ScoreRisk
  \/ MatchTopology
  \/ OrderPods
  \/ DecodeArgs
  \/ Return

Spec == Init /\ [][Next]_call

----------------------------------------------------------------------------
(* Preemption.                                                             *)

(* The quota infos when the victims are gone.                              *)
Without(in, victims) == Counted(in.quotas, ToSet(in.pods) \ victims)

QuotasHold(in, victims, inEQ, total) ==
  ~OverQuota(Without(in, victims), in.pod, inEQ, total)

Fits(in, victims) ==
  RunFilterPlugins(in.pod, ToSet(in.pods) \ victims, in.nominated, in.capacity)

(* The victims that SelectVictimsOnNode names make room for the pod, on    *)
(* the node and in the quotas, and none of them could have stayed: with it *)
(* the pod or the pods nominated beside it would not fit.                  *)
VictimsNeeded ==
  call.op \in {"quota", "toleration"} /\ call.out.code = "Success" =>
    LET in == call.in
        victims == call.out.victims
        quota == call.op = "quota"
    IN  /\ Fits(in, victims)
        /\ quota => QuotasHold(in, victims, StateOf(in).podReq, StateOf(in).podReq)
        /\ \A v \in victims :
             \/ ~Fits(in, victims \ {v})
             \/ quota /\ ~QuotasHold(in, victims \ {v}, StateOf(in).inEQ, StateOf(in).total)

(* Another quota only gives back what it has borrowed: the pod stays in    *)
(* the min of its own quota, and until the last of its victims is gone the *)
(* other one is over its min.                                              *)
GuaranteeKept ==
  call.op = "quota" =>
    LET in == call.in
        infos == SnapshotOf(in)
    IN  \A ns \in DOMAIN infos \ {in.pod.ns} :
          LET mine == {v \in call.out.victims : v.ns = ns}
          IN  mine # {} =>
                /\ ~usedOverMinWith(infos[in.pod.ns], StateOf(in).inEQ)
                /\ \E last \in mine : usedOverMin(Without(in, mine \ {last})[ns])

(* The policy that the annotations of a class state.                       *)
Protected(in, p) ==
  p.class \in DOMAIN in.classes /\
    LET class == in.classes[p.class]
    IN  /\ Bad \notin {class.minimum, class.seconds}
        /\ IF class.minimum = None THEN in.pod.prio <= class.value ELSE in.pod.prio < class.minimum
        /\ class.seconds # None
        /\ \/ class.seconds < 0 \/ p.scheduled = None
           \/ in.now - p.scheduled < class.seconds

(* More seconds than a time.Duration can hold.                             *)
TooLong(in, p) == in.classes[p.class].seconds >= DurationLimit

(* Only pods of a lower priority are taken, and none while its class has   *)
(* it tolerate the preemption, unless for longer than a time.Duration can  *)
(* say; the plugin gives up only if without all the other pods the pod     *)
(* does not fit, if an earlier victim of it is still terminating, or if    *)
(* the pod never preempts.  It holds although RemovePod reorders the pods  *)
(* that the loop ranges over.                                              *)
TolerationHonoured ==
  call.op = "toleration" /\ call.out.code # "Error" =>
    LET in == call.in
        lower == {p \in ToSet(in.pods) : p.prio < in.pod.prio}
        open == {p \in lower : ~Protected(in, p) /\ p.scheduled # None}
    IN  /\ \A v \in call.out.victims : v \in lower /\ (Protected(in, v) => TooLong(in, v))
        /\ call.out.code # "Success" =>
             \/ open = {} \/ ~Fits(in, open) \/ in.pod.never
             \/ in.isNominated /\ \E p \in lower : p.deleting

(* What the comment on Policy.TolerationSeconds says: "If it's set to a    *)
(* positive value, the duration will be honored."                          *)
AnyTolerationHonoured ==
  call.op = "toleration" => \A v \in call.out.victims : ~Protected(call.in, v)

----------------------------------------------------------------------------
(* FlexGPU.                                                                *)

(* In spite of the aliasing the list names GPUs with room only, and it is  *)
(* empty, which makes Filter and Reserve refuse the pod, only if there is  *)
(* none: memory that an earlier GPU has used up hides no GPU from a pod.   *)
RoomFound ==
  call.op = "gpu" =>
    LET real == RealFits(call.in.gpus, call.in.each, call.in.limit)
    IN  ToSet(call.out) \subseteq real /\ (call.out = << >> <=> real = {})

(* What Reserve says of its indexes: "indexes is sorted by bin-pack        *)
(* affinity".  The first one, which it takes, is that of a GPU with room   *)
(* that has the least left.                                                *)
BinPacked ==
  call.op = "gpu" /\ call.out # << >> =>
    \A f \in RealFits(call.in.gpus, call.in.each, call.in.limit) :
      call.in.gpus[f + 1].used <= call.in.gpus[Head(call.out) + 1].used

----------------------------------------------------------------------------
(* Scores.                                                                 *)

(* What a node is worth: its terminating less its nominated pods, or the   *)
(* weighted sum of its resources, counted down unless the mode is Most.    *)
Weights(in) == IF DOMAIN in.weights = {} THEN in.default ELSE in.weights

WeightedSum(in, n) ==
  LET ws == Weights(in)
  IN  SumOver([r \in DOMAIN ws |-> ws[r] * IF r \in DOMAIN n THEN n[r] ELSE 0], DOMAIN ws)

Worth(op, in, n) ==
  IF op = "podstate" THEN n.terminating - n.nominated
  ELSE IF in.mode = "Most" THEN WeightedSum(in, n) ELSE -WeightedSum(in, n)

(* What the division by the sum of the weights can take from a difference. *)
Blur(op, in) ==
  IF op = "podstate" THEN 0 ELSE SumOver(Weights(in), DOMAIN Weights(in)) - 1

(* Scores of the nodes that rank them by their values: all are in 0 ..     *)
(* MaxNodeScore, a node that is worth no more gets no better score, nodes  *)
(* that are all alike get 0, nodes that differ by more than the blur make  *)
(* the scores use the whole range, and two that differ by a hundredth of   *)
(* it get different scores.                                                *)
Ranks(values, blur, out) ==
  LET ks == DOMAIN values
  IN  /\ \A k \in ks : out[k] \in 0 .. MaxNodeScore
      /\ \A j, k \in ks : values[j] <= values[k] => out[j] <= out[k]
      /\ (\A j, k \in ks : values[j] = values[k]) => \A k \in ks : out[k] = 0
      /\ \A j, k \in ks : values[k] - values[j] > blur =>
           /\ (\E i \in ks : out[i] = 0) /\ (\E i \in ks : out[i] = MaxNodeScore)
           /\ (\A h, i \in ks : values[i] - values[h] + blur <= 100 * (values[k] - values[j] - blur))
                => out[j] < out[k]

(* The scores of PodState and NodeResourcesAllocatable rank the nodes by   *)
(* what they are worth, also when the values are negative (the default     *)
(* mode Least) and when the mean of the weighted resources is rounded.     *)
ScoresRank ==
  call.op \in {"podstate", "allocatable"} =>
    Ranks([k \in DOMAIN call.in.nodes |-> Worth(call.op, call.in, call.in.nodes[k])],
          Blur(call.op, call.in), call.out)

(* The values of a metric that compete with each other.                    *)
Role(m) == <<m.type, IF m.operator = "Latest" THEN "" ELSE m.operator>>

(* The risk score is a node score, without its containers (it may still    *)
(* have init containers and an overhead) the pod gets no worse one, and    *)
(* metrics that are listed in the reverse order give the same one unless   *)
(* one of them is listed twice.                                            *)
RiskSound ==
  call.op = "risk" =>
    LET in == call.in
        Score(metrics, pod) == RiskScore(metrics, pod, in.allocatable, in.margin, in.sensitivity)
        small == [in.pod EXCEPT !.containers = << >>]
    IN  /\ call.out \in 0 .. MaxNodeScore
        /\ call.out <= Score(in.metrics, small)
        /\ (\A j, k \in DOMAIN in.metrics : j # k => Role(in.metrics[j]) # Role(in.metrics[k]))
             => call.out = Score(Reverse(in.metrics), in.pod)

(* Whether NUMA node n has what the containers that f puts there request.  *)
Holds(nodes, containers, f, n) ==
  /\ \A r \in DOMAIN nodes[n].res :
       SumOver([c \in DOMAIN containers |-> IF f[c] = n THEN Quantity(containers[c], r) ELSE 0],
               DOMAIN containers) <= nodes[n].res[r]
  /\ \A c \in DOMAIN containers, r \in Native :
       f[c] = n /\ Quantity(containers[c], r) > 0 => r \in DOMAIN nodes[n].res

(* A guaranteed pod that Filter lets through can be aligned: there is a    *)
(* NUMA node for every container so that all of them hold what was put on  *)
(* them.  The score is a node score as long as the NUMA ids have no gap.   *)
NumaSound ==
  call.op = "topology" /\ call.in.topology.found /\ call.in.pod.qos = "Guaranteed" =>
    LET in == call.in
        nodes == createNUMANodeList(in.topology.zones)
        cs == in.pod.containers
        policies == ToSet(in.topology.policies)
    IN  /\ call.out.filter /\ policies \cap {"pod", "container"} # {} =>
             \E f \in [DOMAIN cs -> DOMAIN nodes] : \A n \in DOMAIN nodes : Holds(nodes, cs, f, n)
        /\ IdsInRange(nodes) => call.out.score \in 0 .. 100

----------------------------------------------------------------------------
(* The queue.                                                              *)

SameGang(in, j, k) ==
  /\ in.pods[j].prio = in.pods[k].prio
  /\ in.pods[j].group = in.pods[k].group /\ in.pods[j].group \in DOMAIN in.created

(* Both orders of the queue are transitive and compare all pods.  Of two   *)
(* pods that differ in priority or class the QoS order puts only one       *)
(* first, the order of the gangs does so for any two pods; and it puts no  *)
(* pod between two of a gang unless its time, the one of its group if it   *)
(* has one, is that of the gang.                                           *)
QueueOrdered ==
  call.op = "queue" =>
    LET ps == call.in.pods
        q == call.out.qos
        g == call.out.gang
    IN  \A j, k, l \in DOMAIN ps :
          /\ q[j][k] \/ q[k][j]
          /\ q[j][k] /\ q[k][l] => q[j][l]
          /\ q[j][k] /\ q[k][j] => ps[j].prio = ps[k].prio /\ ps[j].qos = ps[k].qos
          /\ g[j][k] /\ g[k][l] => g[j][l]
          /\ j # k => (g[j][k] <=> ~g[k][j])
          /\ g[j][k] /\ g[k][l] /\ SameGang(call.in, j, l) =>
               GetCreationTimestamp(call.in.created, ps[k]) = call.in.created[ps[j].group]

----------------------------------------------------------------------------
(* Arguments.                                                              *)

(* A choice that makes the plugin refuse to start: without the address of  *)
(* a load watcher a metric provider that is not supported, or none next to *)
(* an address that is empty.                                               *)
RefusedProvider(provider, watcher) ==
  \/ watcher = Nil /\ provider.type \notin {"", "KubernetesMetricsServer", "Prometheus", "SignalFx"}
  \/ watcher # Nil /\ watcher[1] = ""
       /\ provider.type \notin {"KubernetesMetricsServer", "Prometheus", "SignalFx"}

Refused(in) ==
  CASE in.kind = "Coscheduling" -> FALSE
    [] in.kind = "Allocatable" ->
         \/ in.mode \notin {"", "Least", "Most"}
         \/ \E k \in DOMAIN in.resources : in.resources[k].weight <= 0
    [] in.kind = "TargetLoadPacking" ->
         \/ in.multiplier # Nil /\ in.multiplier[1] = "x"
         \/ RefusedProvider(in.provider, in.watcher)
    [] in.kind = "LoadVariation" -> RefusedProvider(in.provider, in.watcher)
    [] in.kind = "Topology" ->
         /\ in.strategy # Nil
         /\ in.strategy[1].type \notin {"MostAllocated", "LeastAllocated", "BalancedAllocation"}
    [] OTHER ->
         \/ in.percentage # Nil /\ (in.percentage[1] < 0 \/ in.percentage[1] > 100)
         \/ in.absolute # Nil /\ in.absolute[1] < 0
         \/ /\ in.percentage # Nil /\ in.percentage[1] = 0
            /\ in.absolute # Nil /\ in.absolute[1] = 0

(* Values for which the defaults stand in: negative ones, and a target of  *)
(* zero.                                                                   *)
Replaced(f, v) ==
  /\ f \in {"target", "margin", "sensitivity"}
  /\ v < 0 \/ (f = "target" /\ v = 0)

(* What the user gives as a pointer to another value is the value that the *)
(* plugin gets.                                                            *)
Kept(in, args) ==
  \A f \in DOMAIN in \cap {"permit", "denied", "multiplier", "target", "watcher", "margin",
                           "sensitivity", "percentage", "absolute"} :
    in[f] = Nil \/ Replaced(f, in[f][1]) \/ args[f] = in[f][1]

(* A plugin refuses its arguments only for what the user has chosen, not   *)
(* for a default; it gets what the user has given; arguments that are      *)
(* written out in either version and read again are the same; and with     *)
(* arguments that are accepted preemption looks at no negative number of   *)
(* nodes and at no more than there are.                                    *)
ArgsSurvive ==
  call.op = "args" =>
    /\ NewPlugin(call.out) <=> ~Refused(call.in)
    /\ Kept(call.in, call.out)
    /\ \A version \in {"v1beta2", "v1beta3"} : Decode(version, Encode(version, call.out)) = call.out
    /\ call.in.kind = "Toleration" /\ NewPlugin(call.out) =>
         \A n \in NodeCounts : calculateNumCandidates(call.out, n) \in 0 .. n
=============================================================================
