----------------------------- MODULE NodeScores -----------------------------
(***************************************************************************)
(* Scores that need no state of their own: PodState (pkg/podstate),        *)
(* NodeResourcesAllocatable (pkg/noderesources) and the risk score of      *)
(* LoadVariationRiskBalancing (pkg/trimaran/loadvariationriskbalancing).   *)
(***************************************************************************)
EXTENDS Sums, Sequences, FiniteSetsExt, SequencesExt, TLC

MaxNodeScore == 100

Least2(x, y) == IF x <= y THEN x ELSE y
Most2(x, y) == IF x >= y THEN x ELSE y
Clamp(x, low, high) == Most2(Least2(x, high), low)

(* Go's division of integers, which cuts towards zero.                     *)
Quotient(a, b) == IF a >= 0 THEN a \div b ELSE -((-a) \div b)

(* Mutant: the range is not moved to start at zero.                        *)
NormalizeScore_Unshifted(scores) ==
  LET lowest == Min(ToSet(scores))
      oldRange == Max(ToSet(scores)) - lowest
  IN  [k \in DOMAIN scores |-> IF oldRange = 0 THEN 0
                               ELSE Quotient(scores[k] * MaxNodeScore, oldRange)]

(* Stretches the scores of all nodes to 0 .. MaxNodeScore.                 *)
NormalizeScore(scores) ==
  LET lowest == Min(ToSet(scores))
      oldRange == Max(ToSet(scores)) - lowest
  IN  [k \in DOMAIN scores |-> IF oldRange = 0 THEN 0
                               ELSE Quotient((scores[k] - lowest) * MaxNodeScore, oldRange)]

----------------------------------------------------------------------------
(* PodState: a node has terminating and nominated pods.                    *)

PodStateScore(node) == node.terminating - node.nominated

PodStateNormalize(scores) == NormalizeScore(scores)

PodStateScores(nodes) == PodStateNormalize([k \in DOMAIN nodes |-> PodStateScore(nodes[k])])

----------------------------------------------------------------------------
(* NodeResourcesAllocatable: weights is a function from the resources that *)
(* the arguments name; a node is a function of what it has.                *)

validateResources(weights) == \A r \in DOMAIN weights : weights[r] > 0

(* NewAllocatable: without resources in the arguments the default ones.    *)
AllocatableArgs(mode, weights, default) ==
  [ok |-> mode \in {"", "Least", "Most"} /\ validateResources(weights),
   mode |-> IF mode = "" THEN "Least" ELSE mode,
   weights |-> IF DOMAIN weights = {} THEN default ELSE weights]

AllocatableOf(node, r) == IF r \in DOMAIN node THEN node[r] ELSE 0

resourceScore(capacity, mode) == IF mode = "Least" THEN -capacity ELSE capacity

(* The mean of the weighted scores; all of them have the sign of the mode. *)
resourceScorer(args, node) ==
  LET rs == DOMAIN args.weights
      weighted == [r \in rs |-> args.weights[r] * AllocatableOf(node, r)]
  IN  Quotient(resourceScore(SumOver(weighted, rs), args.mode), SumOver(args.weights, rs))

AllocatableScores(args, nodes) ==
  NormalizeScore([k \in DOMAIN nodes |-> resourceScorer(args, nodes[k])])

----------------------------------------------------------------------------
(* The risk score.  Utilisations are tenths of the capacity; a score is a  *)
(* fraction num/den.                                                       *)

(* The operator of a metric that stands in for the average.                *)
LatestValue == {"", "Latest"}

(* Mutant: the latest value replaces an average found before it.           *)
Measure_Latest(acc, m) ==
  [valid |-> TRUE, found |-> acc.found,
   avg |-> IF m.operator = "Average" \/ m.operator \in LatestValue THEN m.value ELSE acc.avg,
   std |-> IF m.operator = "Std" THEN m.value ELSE acc.std]

Measure(acc, m) ==
  [valid |-> TRUE, found |-> acc.found \/ m.operator = "Average",
   avg |-> IF m.operator = "Average" \/ (m.operator \in LatestValue /\ ~acc.found)
             THEN m.value ELSE acc.avg,
   std |-> IF m.operator = "Std" THEN m.value ELSE acc.std]

NoData == [valid |-> FALSE, found |-> FALSE, avg |-> 0, std |-> 0]

(* What the loop knows after k of the metrics.                             *)
MetricLoop(metrics, type) ==
  LET acc[k \in 0 .. Len(metrics)] ==
        IF k = 0 THEN NoData
        ELSE IF metrics[k].type = type THEN Measure(acc[k - 1], metrics[k])
        ELSE acc[k - 1]
  IN  acc

getResourceData(metrics, type) == MetricLoop(metrics, type)[Len(metrics)]

(* cpu and memory; the sum of the containers or the largest init container.*)
getResourceRequested(pod, r) ==
  LET Of(cs) == [k \in DOMAIN cs |-> cs[k][r]]
  IN  Max({SumOver(Of(pod.containers), DOMAIN pod.containers)} \cup ToSet(Of(pod.inits)))
        + pod.overhead[r]

createResourceStats(metrics, pod, allocatable, r) ==
  LET data == getResourceData(metrics, r)
  IN  [avg |-> data.avg, std |-> data.std,
       req |-> getResourceRequested(pod, r), capacity |-> allocatable[r]]

(* sigma^(1/sensitivity) in hundredths, for sensitivities whose root is    *)
(* exact: negative ones are not applied, and that of zero (OTHER) is       *)
(* infinite.                                                               *)
Root(sigma, sensitivity) ==
  CASE sensitivity \in {"one", "negative"} -> 10 * sigma
    [] sensitivity = "half" -> sigma * sigma
    [] OTHER -> IF sigma = 10 THEN 100 ELSE 0

(* mu is in units of a tenth of the capacity, sigma in hundredths.         *)
computeScore(rs, margin, sensitivity) ==
  IF rs.capacity <= 0 THEN [num |-> 0, den |-> 1]
  ELSE LET mu == Clamp(Clamp(rs.avg, 0, 10) * rs.capacity + 10 * Most2(rs.req, 0),
                       0, 10 * rs.capacity)
           sigma == Clamp(Root(Clamp(rs.std, 0, 10), sensitivity) * margin, 0, 100)
       IN  [num |-> 1000 * rs.capacity - 50 * mu - 5 * sigma * rs.capacity,
            den |-> 10 * rs.capacity]

AtMostFraction(x, y) == x.num * y.den <= y.num * x.den

RoundFraction(x) == (2 * x.num + x.den) \div (2 * x.den)

(* The lesser score if both are valid, else the greater one.               *)
totalScore(both, cpu, memory) == IF both <=> AtMostFraction(cpu, memory) THEN cpu ELSE memory

(* Without metrics for the node (none) the least score.                    *)
RiskScore(metrics, pod, allocatable, margin, sensitivity) ==
  LET Valid(r) == getResourceData(metrics, r).valid
      Score(r) == IF Valid(r)
                    THEN computeScore(createResourceStats(metrics, pod, allocatable, r), margin, sensitivity)
                    ELSE [num |-> 0, den |-> 1]
  IN  IF metrics = << >> THEN 0
      ELSE RoundFraction(totalScore(Valid("cpu") /\ Valid("memory"), Score("cpu"), Score("memory")))
=============================================================================
