----------------------------- MODULE Toleration -----------------------------
(***************************************************************************)
(* pkg/preemptiontoleration: preemption as the scheduler's default plugin  *)
(* does it, except that the priority class of a pod can exempt the pod.    *)
(*                                                                         *)
(* A pod has, besides the fields that Victims names, the name of its       *)
(* priority class (None if it has none) and the time of its PodScheduled   *)
(* condition (None if it is not true).  A class has its value and the two  *)
(* annotations: None if it is not set, Bad if it does not parse.           *)
(***************************************************************************)
EXTENDS Victims

CONSTANTS
  None, Bad,
  DurationLimit  \* a time.Duration holds less than this many seconds

(* Default values for the annotations that are not set.                    *)
parsePreemptionTolerationPolicy(class) ==
  [minimum |-> IF class.minimum = None THEN class.value + 1 ELSE class.minimum,
   seconds |-> IF class.seconds = None THEN 0 ELSE class.seconds]

(* Seconds as a time.Duration, which is a signed 64 bit number.            *)
Duration(seconds) == ((seconds + DurationLimit) % (2 * DurationLimit)) - DurationLimit

(* Mutant: a pod that is not scheduled yet has no toleration.              *)
Tolerates_Strict(policy, victim, preemptor, now) ==
  /\ preemptor.prio < policy.minimum
  /\ \/ policy.seconds < 0
     \/ victim.scheduled # None /\ victim.scheduled + Duration(policy.seconds) > now

Tolerates(policy, victim, preemptor, now) ==
  /\ preemptor.prio < policy.minimum
  /\ \/ policy.seconds < 0
     \/ victim.scheduled = None
     \/ victim.scheduled + Duration(policy.seconds) > now

(* Whether the lookup of the victim's class fails.                         *)
ClassMissing(classes, victim) == victim.class # None /\ victim.class \notin DOMAIN classes

(* An annotation that does not parse exempts from nothing.                 *)
ExemptedFromPreemption(classes, victim, preemptor, now) ==
  /\ victim.class # None
  /\ \/ preemptor.never
     \/ /\ Bad \notin {classes[victim.class].minimum, classes[victim.class].seconds}
        /\ Tolerates(parsePreemptionTolerationPolicy(classes[victim.class]), victim, preemptor, now)

----------------------------------------------------------------------------
(* NodeInfo.RemovePod puts the last pod in the place of the removed one,   *)
(* in the array that the loop of SelectVictimsOnNode still ranges over.    *)
RemovePod(array, n, pod) ==
  LET at == CHOOSE i \in 1 .. n : array[i].uid = pod.uid
  IN  [array EXCEPT ![at] = array[n]]

(* One iteration of the loop; n is the number of pods left on the node.    *)
Consider(classes, preemptor, now, acc, k) ==
  LET pod == acc.array[k]
  IN  IF acc.failed \/ pod.prio >= preemptor.prio THEN acc
      ELSE IF ClassMissing(classes, pod) THEN [acc EXCEPT !.failed = TRUE]
      ELSE IF ExemptedFromPreemption(classes, pod, preemptor, now) THEN acc
      ELSE [array |-> RemovePod(acc.array, acc.n, pod), n |-> acc.n - 1,
            found |-> Append(acc.found, pod), failed |-> FALSE]

VictimLoop(classes, preemptor, now, pods) ==
  LET acc[k \in 0 .. Len(pods)] ==
        IF k = 0 THEN [array |-> pods, n |-> Len(pods), found |-> << >>, failed |-> FALSE]
        ELSE Consider(classes, preemptor, now, acc[k - 1], k)
  IN  acc

PotentialVictims(classes, preemptor, now, pods) ==
  VictimLoop(classes, preemptor, now, pods)[Len(pods)]

TryReprieve(preemptor, nominated, capacity, acc, p) ==
  IF RunFilterPlugins(preemptor, acc.on \cup {p}, nominated, capacity)
    THEN [acc EXCEPT !.on = @ \cup {p}]
    ELSE [acc EXCEPT !.victims = @ \cup {p}]

TryReprieveLoop(preemptor, nominated, capacity, left, pods) ==
  LET acc[k \in 0 .. Len(pods)] ==
        IF k = 0 THEN [on |-> left, victims |-> {}]
        ELSE TryReprieve(preemptor, nominated, capacity, acc[k - 1], pods[k])
  IN  acc

NoVictims(code) == [code |-> code, victims |-> {}, violating |-> 0]

(* SelectVictimsOnNode.                                                    *)
TolerantVictims(classes, preemptor, now, pods, pdbs, nominated, capacity) ==
  LET loop == PotentialVictims(classes, preemptor, now, pods)
      left == {loop.array[k] : k \in 1 .. loop.n}
      groups == filterPodsWithPDBViolation(MostImportantFirst(loop.found), pdbs)
      candidates == groups.violating \o groups.nonViolating
      end == TryReprieveLoop(preemptor, nominated, capacity, left, candidates)[Len(candidates)]
  IN  IF loop.failed THEN NoVictims("Error")
      ELSE IF loop.found = << >> THEN NoVictims("UnschedulableAndUnresolvable")
      ELSE IF ~RunFilterPlugins(preemptor, left, nominated, capacity)
        THEN NoVictims("Unschedulable")
      ELSE [code |-> "Success", victims |-> end.victims,
            violating |-> Cardinality(end.victims \cap ToSet(groups.violating))]

(* PodEligibleToPreemptOthers.  The pod is nominated or not to the node,   *)
(* and the filters do not call the node unresolvable.                      *)
Eligible(preemptor, isNominated, on) ==
  /\ ~preemptor.never
  /\ isNominated => ~\E p \in on : p.deleting /\ p.prio < preemptor.prio

calculateNumCandidates(args, numNodes) ==
  LET n == (numNodes * args.percentage) \div 100
      atLeast == IF n < args.absolute THEN args.absolute ELSE n
  IN  IF atLeast > numNodes THEN numNodes ELSE atLeast
=============================================================================
