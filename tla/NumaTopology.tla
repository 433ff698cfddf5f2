---------------------------- MODULE NumaTopology ----------------------------
(***************************************************************************)
(* pkg/noderesourcetopology: Filter and Score of NodeResourceTopologyMatch *)
(* for a pod and a node with NUMA zones.                                   *)
(*                                                                         *)
(* A pod has its qos class and the requests of its containers and inits, a *)
(* request being a function from some of the resources.  A zone has a type *)
(* and an id (BadName if its name has no number) and the available res, a  *)
(* function from some of the resources.                                    *)
(***************************************************************************)
EXTENDS Sums, Sequences, FiniteSetsExt, SequencesExt, TLC

CONSTANTS
  BadName,
  MaxNUMA,   \* the largest NUMA id, 63
  Native,    \* cpu, memory, hugepages: resources of Kubernetes itself
  Measured,  \* those of them that a pod that is not guaranteed may always have
  Parts      \* quantities are numbers of such parts of a unit (a core has 1000)

NoNUMA == -1
Panics == -1

Quantity(request, r) == IF r \in DOMAIN request THEN request[r] ELSE 0

(* The zones that are NUMA nodes.                                          *)
IsNUMANode(z) == z.type = "Node" /\ z.id # BadName /\ z.id \in 0 .. MaxNUMA

(* The list after k of the zones.                                          *)
ZoneLoop(zones) ==
  LET acc[k \in 0 .. Len(zones)] ==
        IF k = 0 THEN << >>
        ELSE IF IsNUMANode(zones[k])
          THEN Append(acc[k - 1], [id |-> zones[k].id, res |-> zones[k].res])
          ELSE acc[k - 1]
  IN  acc

createNUMANodeList(zones) == ZoneLoop(zones)[Len(zones)]

isNUMANodeSuitable(qos, r, quantity, available) ==
  (qos # "Guaranteed" /\ r \in Measured) \/ available >= quantity

(* The ids whose NUMA node has r, and enough of it.                        *)
Suitable(nodes, r, quantity, qos) ==
  {nodes[k].id : k \in {k \in DOMAIN nodes :
     r \in DOMAIN nodes[k].res /\ isNUMANodeSuitable(qos, r, quantity, nodes[k].res[r])}}

HasAffinity(nodes, r) == \E k \in DOMAIN nodes : r \in DOMAIN nodes[k].res

(* The bitmask: all ids, less those that some requested resource excludes. *)
Mask(nodes, request, qos) ==
  {id \in 0 .. MaxNUMA : \A r \in DOMAIN request :
     request[r] = 0 \/ (~HasAffinity(nodes, r) /\ r \notin Native)
       \/ id \in Suitable(nodes, r, request[r], qos)}

(* The lowest NUMA node with room for the request, if the node has all of  *)
(* its resources at all.                                                   *)
resourcesAvailableInAnyNUMANodes(nodes, request, qos, allocatable) ==
  LET mask == Mask(nodes, request, qos)
  IN  IF (\A r \in DOMAIN request : request[r] = 0 \/ r \in allocatable) /\ mask # {}
        THEN Min(mask) ELSE NoNUMA

(* Mutant: what the containers before have taken is not subtracted.        *)
subtractFromNUMA_Not(nodes, id, request) == nodes

(* A resource that the NUMA node does not have starts from zero.           *)
Subtract(res, request) ==
  [r \in DOMAIN res \cup DOMAIN request |-> Quantity(res, r) - Quantity(request, r)]

subtractFromNUMA(nodes, id, request) ==
  [k \in DOMAIN nodes |-> IF nodes[k].id # id THEN nodes[k]
                          ELSE [id |-> id, res |-> Subtract(nodes[k].res, request)]]

AlignContainer(acc, c, qos, allocatable) ==
  LET id == resourcesAvailableInAnyNUMANodes(acc.nodes, c, qos, allocatable)
  IN  IF ~acc.ok \/ id = NoNUMA THEN [nodes |-> acc.nodes, ok |-> FALSE]
      ELSE [nodes |-> subtractFromNUMA(acc.nodes, id, c), ok |-> TRUE]

(* What is left of the NUMA nodes after k of the containers.               *)
AlignLoop(nodes, containers, qos, allocatable) ==
  LET acc[k \in 0 .. Len(containers)] ==
        IF k = 0 THEN [nodes |-> nodes, ok |-> TRUE]
        ELSE AlignContainer(acc[k - 1], containers[k], qos, allocatable)
  IN  acc

(* The init containers run one after the other and before the containers.  *)
singleNUMAContainerLevelHandler(pod, zones, allocatable) ==
  LET nodes == createNUMANodeList(zones)
  IN  /\ \A k \in DOMAIN pod.inits :
           resourcesAvailableInAnyNUMANodes(nodes, pod.inits[k], pod.qos, allocatable) # NoNUMA
      /\ AlignLoop(nodes, pod.containers, pod.qos, allocatable)[Len(pod.containers)].ok

----------------------------------------------------------------------------
(* util.GetPodEffectiveRequest.                                            *)

Named(requests) == UNION {DOMAIN requests[k] : k \in DOMAIN requests}

(* What each of the containers requests of r.                              *)
Quantities(requests, r) == [k \in DOMAIN requests |-> Quantity(requests[k], r)]

GetPodEffectiveRequest(pod) ==
  [r \in Named(pod.containers) \cup Named(pod.inits) |->
     Max({SumOver(Quantities(pod.containers, r), DOMAIN pod.containers)}
           \cup ToSet(Quantities(pod.inits, r)))]

singleNUMAPodLevelHandler(pod, zones, allocatable) ==
  resourcesAvailableInAnyNUMANodes(createNUMANodeList(zones), GetPodEffectiveRequest(pod),
                                   pod.qos, allocatable) # NoNUMA

(* topology: found, the policies and the zones.                            *)
TopologyFilter(pod, topology, allocatable) ==
  pod.qos # "BestEffort" /\ topology.found =>
    \A k \in DOMAIN topology.policies :
      /\ topology.policies[k] = "pod" => singleNUMAPodLevelHandler(pod, topology.zones, allocatable)
      /\ topology.policies[k] = "container" => singleNUMAContainerLevelHandler(pod, topology.zones, allocatable)

----------------------------------------------------------------------------
(* Scores, for a request and what a NUMA node has.                         *)

Weight(weights, r) == IF r \in DOMAIN weights /\ weights[r] >= 1 THEN weights[r] ELSE 1

(* Quantity.Value rounds up to units; Cmp compares what there is.          *)
Value(quantity) == (quantity + Parts - 1) \div Parts

leastAllocatedScore(requested, capacity) ==
  IF capacity = 0 \/ requested > capacity THEN 0
  ELSE ((Value(capacity) - Value(requested)) * 100) \div Value(capacity)

mostAllocatedScore(requested, capacity) ==
  IF capacity = 0 \/ requested > capacity THEN 0
  ELSE (Value(requested) * 100) \div Value(capacity)

(* The mean of the scores of the requested resources.                      *)
Weighted(scores, weights) ==
  LET rs == DOMAIN scores
  IN  SumOver([r \in rs |-> Weight(weights, r) * scores[r]], rs)
        \div SumOver([r \in rs |-> Weight(weights, r)], rs)

leastAllocatedScoreStrategy(request, res, weights) ==
  Weighted([r \in DOMAIN request |-> leastAllocatedScore(request[r], Quantity(res, r))], weights)

mostAllocatedScoreStrategy(request, res, weights) ==
  Weighted([r \in DOMAIN request |-> mostAllocatedScore(request[r], Quantity(res, r))], weights)

(* The product of the numbers f[x] over k elements x of a sequence.        *)
ProductLoop(f, s) ==
  LET acc[k \in 0 .. Len(s)] == IF k = 0 THEN 1 ELSE acc[k - 1] * f[s[k]]
  IN  acc

Product(f, s) == ProductLoop(f, s)[Len(s)]

(* One less the variance of fractions x[r] / d.                            *)
Balance(x, d) ==
  LET rs == DOMAIN x
      n == Cardinality(rs)
      sum == SumOver(x, rs)
      squares == SumOver([r \in rs |-> x[r] * x[r]], rs)
      all == n * (n - 1) * d * d
  IN  (100 * (all - (n * squares - sum * sum))) \div all

(* The fractions of the capacities have the product of the capacities as   *)
(* their denominator; a capacity of zero counts as used up.                *)
balancedAllocationScoreStrategy(request, res, weights) ==
  LET rs == DOMAIN request
      Whole(r) == Value(Quantity(res, r))
      cap == [r \in rs |-> IF Whole(r) = 0 THEN 1 ELSE Whole(r)]
      d == Product(cap, SetToSeq(rs))
      fraction == [r \in rs |-> (IF Whole(r) = 0 THEN 1 ELSE Value(request[r])) * (d \div cap[r])]
  IN  IF \E r \in rs : fraction[r] > d THEN 0 ELSE Balance(fraction, d)

Strategy(name, request, res, weights) ==
  CASE name = "Least" -> leastAllocatedScoreStrategy(request, res, weights)
    [] name = "Most" -> mostAllocatedScoreStrategy(request, res, weights)
    [] OTHER -> balancedAllocationScoreStrategy(request, res, weights)

Lower(least, s) == IF least = 0 \/ (s # 0 /\ s < least) THEN s ELSE least

(* The scores go into an array of as many entries as there are NUMA nodes. *)
IdsInRange(nodes) == \A k \in DOMAIN nodes : nodes[k].id < Len(nodes)

(* The least score after k of the NUMA nodes, 0 if the request fits none.  *)
LeastLoop(request, nodes, strategy, weights) ==
  LET acc[k \in 0 .. Len(nodes)] ==
        IF k = 0 THEN 0
        ELSE Lower(acc[k - 1], Strategy(strategy, request, nodes[k].res, weights))
  IN  acc

scoreForEachNUMANode(request, nodes, strategy, weights) ==
  LeastLoop(request, nodes, strategy, weights)[Len(nodes)]

podScopeScore(pod, zones, strategy, weights) ==
  scoreForEachNUMANode(GetPodEffectiveRequest(pod), createNUMANodeList(zones), strategy, weights)

containerScopeScore(pod, zones, strategy, weights) ==
  LET containers == pod.inits \o pod.containers
      nodes == createNUMANodeList(zones)
      scores == [k \in DOMAIN containers |->
                   scoreForEachNUMANode(containers[k], nodes, strategy, weights)]
  IN  SumOver(scores, DOMAIN containers) \div Len(containers)

(* The first policy that has a handler decides.                            *)
TopologyScore(pod, topology, strategy, weights) ==
  LET known == SelectSeq(topology.policies, LAMBDA policy : policy \in {"pod", "container"})
  IN  IF pod.qos # "Guaranteed" THEN 100
      ELSE IF ~topology.found \/ known = << >> THEN 0
      ELSE IF ~IdsInRange(createNUMANodeList(topology.zones)) THEN Panics
      ELSE IF Head(known) = "pod" THEN podScopeScore(pod, topology.zones, strategy, weights)
      ELSE containerScopeScore(pod, topology.zones, strategy, weights)
=============================================================================
