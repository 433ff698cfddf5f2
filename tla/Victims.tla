------------------------------ MODULE Victims ------------------------------
(***************************************************************************)
(* What the preemption plugins share: the pods they look at, the resources *)
(* a pod asks for, the order of importance, the disruption budgets and the *)
(* filters they run again on a node from which pods were taken.            *)
(*                                                                         *)
(* A pod is a record with its uid, namespace ns, priority prio, start time *)
(* start, preemption policy never (PreemptNever), deletion mark deleting   *)
(* and its spec: the requests of its containers and inits (sequences of    *)
(* resource vectors) and its overhead.  A budget has a namespace, the uids *)
(* its selector matches, those already in DisruptedPods, and the number of *)
(* disruptions it still allows.                                            *)
(***************************************************************************)
EXTENDS Sums, Sequences, FiniteSetsExt, SequencesExt, TLC

CONSTANTS
  Res,     \* the resources
  Scalars  \* those of them that are scalar resources: cpu and memory are not

ASSUME ResAssumption == Scalars \subseteq Res /\ IsFiniteSet(Res)

Zero == [r \in Res |-> 0]
Plus(x, y) == [r \in Res |-> x[r] + y[r]]
Minus(x, y) == [r \in Res |-> x[r] - y[r]]
AtMost(x, y) == \A r \in Res : x[r] <= y[r]

(* The containers run together, the init containers one by one before.     *)
computePodResourceRequest(pod) ==
  LET Of(cs, r) == [k \in DOMAIN cs |-> cs[k][r]]
      together == [r \in Res |-> SumOver(Of(pod.containers, r), DOMAIN pod.containers)]
      largest == [r \in Res |-> Max({together[r]} \cup ToSet(Of(pod.inits, r)))]
  IN  Plus(largest, pod.overhead)

Requested(pods) ==
  [r \in Res |-> SumOver([p \in pods |-> computePodResourceRequest(p)[r]], pods)]

(* schedutil.MoreImportantPod.                                             *)
MoreImportantPod(p, q) ==
  \/ p.prio > q.prio
  \/ p.prio = q.prio /\ p.start < q.start

(* The sort by importance; pods that are equally important keep their      *)
(* order.                                                                  *)
Before(pods, i, j) ==
  \/ MoreImportantPod(pods[i], pods[j])
  \/ i < j /\ ~MoreImportantPod(pods[j], pods[i])

Place(pods, i) == Cardinality({j \in DOMAIN pods : Before(pods, j, i)}) + 1

Ranked(pods, k) == pods[CHOOSE i \in DOMAIN pods : Place(pods, i) = k]

MostImportantFirst(pods) == [k \in DOMAIN pods |-> Ranked(pods, k)]

LeastImportantFirst(pods) == [k \in DOMAIN pods |-> Ranked(pods, (Len(pods) - k) + 1)]

----------------------------------------------------------------------------
(* Budgets.                                                                *)

Matches(pdb, pod) ==
  pdb.ns = pod.ns /\ pod.uid \in pdb.selects /\ pod.uid \notin pdb.disrupted

ChargeBudgets(pdbs, acc, pod) ==
  LET allowed == [i \in DOMAIN pdbs |->
                    acc.allowed[i] - IF Matches(pdbs[i], pod) THEN 1 ELSE 0]
      violated == \E i \in DOMAIN pdbs : Matches(pdbs[i], pod) /\ allowed[i] < 0
  IN  [allowed |-> allowed,
       violating |-> IF violated THEN Append(acc.violating, pod) ELSE acc.violating,
       nonViolating |-> IF violated THEN acc.nonViolating ELSE Append(acc.nonViolating, pod)]

(* The loop over the pods, with what there is after each of them.          *)
BudgetLoop(pods, pdbs) ==
  LET acc[k \in 0 .. Len(pods)] ==
        IF k = 0 THEN [allowed |-> [i \in DOMAIN pdbs |-> pdbs[i].allowed],
                       violating |-> << >>, nonViolating |-> << >>]
        ELSE ChargeBudgets(pdbs, acc[k - 1], pods[k])
  IN  acc

(* Groups the pods by whether their removal goes over a budget, taking the *)
(* pods before them into account; both groups keep the order.              *)
filterPodsWithPDBViolation(pods, pdbs) == BudgetLoop(pods, pdbs)[Len(pods)]

----------------------------------------------------------------------------
(* RunFilterPluginsWithNominatedPods, with the fit of the resources as the *)
(* only filter: the pod fits beside the pods on the node and beside the    *)
(* pods nominated to it that are at least as important.                    *)
RunFilterPlugins(pod, on, nominated, capacity) ==
  LET beside == {p \in nominated : p.uid # pod.uid /\ p.prio >= pod.prio}
  IN  AtMost(Requested(on \cup beside \cup {pod}), capacity)
=============================================================================
