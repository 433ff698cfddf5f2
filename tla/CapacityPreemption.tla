------------------------- MODULE CapacityPreemption -------------------------
(***************************************************************************)
(* The decisions of pkg/capacityscheduling/capacity_scheduling.go about    *)
(* one pod: PreFilter, and the preemptor that PostFilter hands to the      *)
(* scheduler's preemption evaluator.  They work on the snapshot of the     *)
(* infos that PreFilter has put into the state of the cycle.               *)
(***************************************************************************)
EXTENDS QuotaInfo

(* PreFilterState.  A nominated pod of the same quota counts if it is at   *)
(* least as important as the pod, one of another quota if that quota is    *)
(* not over its min (which is read from the live infos).                   *)
Nominated(live, pod, nominated) ==
  LET others == {p \in nominated : p.uid # pod.uid /\ p.ns \in DOMAIN live}
      inEQ == {p \in others : p.ns = pod.ns /\ p.prio >= pod.prio}
      outside == {p \in others : p.ns # pod.ns /\ ~usedOverMin(live[p.ns])}
  IN  [podReq |-> computePodResourceRequest(pod),
       inEQ |-> Requested(inEQ \cup {pod}),
       total |-> Requested(inEQ \cup outside \cup {pod})]

WithoutQuota(pod) ==
  [podReq |-> computePodResourceRequest(pod), inEQ |-> Zero, total |-> Zero]

PreFilterState(infos, live, pod, nominated) ==
  IF pod.ns \in DOMAIN infos THEN Nominated(live, pod, nominated) ELSE WithoutQuota(pod)

(* Mutants: the quota's max is not checked, or the sum of the mins is not. *)
PreFilter_NoMax(infos, pfs, pod) ==
  pod.ns \in DOMAIN infos => ~aggregatedUsedOverMinWith(infos, pfs.total)
PreFilter_NoMin(infos, pfs, pod) ==
  pod.ns \in DOMAIN infos => ~usedOverMaxWith(infos[pod.ns], pfs.inEQ)

PreFilter(infos, pfs, pod) ==
  pod.ns \in DOMAIN infos =>
    /\ ~usedOverMaxWith(infos[pod.ns], pfs.inEQ)
    /\ ~aggregatedUsedOverMinWith(infos, pfs.total)

----------------------------------------------------------------------------
(* The preemptor.                                                          *)

(* May the pod preempt again?  Not while a pod that made room for it is    *)
(* still terminating on its nominated node.  (An unresolvable node or one  *)
(* that is gone is not modelled: there is one node and it stays.)          *)
MadeRoom(infos, pfs, pod, p) ==
  /\ p.deleting
  /\ IF pod.ns \in DOMAIN infos
       THEN /\ p.ns \in DOMAIN infos
            /\ \/ p.ns = pod.ns /\ p.prio < pod.prio
               \/ /\ p.ns # pod.ns
                  /\ ~usedOverMinWith(infos[pod.ns], pfs.inEQ)
                  /\ usedOverMin(infos[p.ns])
       ELSE p.ns \notin DOMAIN infos /\ p.prio < pod.prio

PodEligibleToPreemptOthers(infos, pfs, pod, isNominated, on) ==
  /\ ~pod.never
  /\ isNominated => ~\E p \in on : MadeRoom(infos, pfs, pod, p)

(* Mutant: the overuse of a quota is looked up before pods are removed.    *)
IsPotentialVictim_Stale(before, infos, pfs, pod, p) ==
  IF pod.ns \notin DOMAIN before THEN p.ns \notin DOMAIN before /\ p.prio < pod.prio
  ELSE /\ p.ns \in DOMAIN before
       /\ IF usedOverMinWith(before[pod.ns], pfs.inEQ)
            THEN p.ns = pod.ns /\ p.prio < pod.prio
            ELSE p.ns # pod.ns /\ usedOverMin(before[p.ns])

(* before: the infos at the start; infos: without the victims so far.      *)
IsPotentialVictim(before, infos, pfs, pod, p) ==
  IF pod.ns \notin DOMAIN before THEN p.ns \notin DOMAIN before /\ p.prio < pod.prio
  ELSE /\ p.ns \in DOMAIN before
       /\ IF usedOverMinWith(before[pod.ns], pfs.inEQ)
            THEN p.ns = pod.ns /\ p.prio < pod.prio
            ELSE p.ns # pod.ns /\ usedOverMin(infos[p.ns])

(* Takes the victims off the node and off the infos, least important first.*)
(* RemovePod moves the last pod into the gap, in the array that the loop   *)
(* ranges over; every pod is still visited in its place (module Toleration *)
(* has that loop with the array).                                          *)
RemoveVictim(before, pfs, pod, acc, p) ==
  IF IsPotentialVictim(before, acc.infos, pfs, pod, p)
    THEN [infos |-> UncountPod(acc.infos, p), found |-> Append(acc.found, p)]
    ELSE acc

RemoveLoop(before, pfs, pod, pods) ==
  LET acc[k \in 0 .. Len(pods)] ==
        IF k = 0 THEN [infos |-> before, found |-> << >>]
        ELSE RemoveVictim(before, pfs, pod, acc[k - 1], pods[k])
  IN  acc

RemoveVictims(before, pfs, pod, pods) ==
  RemoveLoop(before, pfs, pod, LeastImportantFirst(pods))[Len(pods)]

OverQuota(infos, pod, inEQ, total) ==
  /\ pod.ns \in DOMAIN infos
  /\ \/ usedOverMaxWith(infos[pod.ns], inEQ)
     \/ aggregatedUsedOverMinWith(infos, total)

(* Mutant: a reprieved pod is not checked against the quotas.              *)
Reprieve_NoQuota(pfs, pod, nominated, capacity, acc, p) ==
  IF RunFilterPlugins(pod, acc.on \cup {p}, nominated, capacity)
    THEN [acc EXCEPT !.infos = CountPod(@, p), !.on = @ \cup {p}]
    ELSE [acc EXCEPT !.victims = @ \cup {p}, !.misfits = @ \cup {p}]

(* reprievePod: p is put back; it stays if the pod still fits beside it    *)
(* and the quotas allow both.  A p that does not fit is taken off again,   *)
(* and if the quotas are then still too small it is taken off once more,   *)
(* which fails because it is no longer on the node.                        *)
Reprieve(pfs, pod, nominated, capacity, acc, p) ==
  LET infos == CountPod(acc.infos, p)
      fits == RunFilterPlugins(pod, acc.on \cup {p}, nominated, capacity)
      over == OverQuota(IF fits THEN infos ELSE acc.infos, pod, pfs.inEQ, pfs.total)
  IN  IF fits /\ ~over THEN [acc EXCEPT !.infos = infos, !.on = @ \cup {p}]
      ELSE [acc EXCEPT !.victims = @ \cup {p},
                       !.misfits = IF fits THEN @ ELSE @ \cup {p},
                       !.failed = @ \/ (~fits /\ over)]

(* The loops over the candidates; they end with the first failure.         *)
ReprieveLoop(pfs, pod, nominated, capacity, infos, left, pods) ==
  LET acc[k \in 0 .. Len(pods)] ==
        IF k = 0 THEN [infos |-> infos, on |-> left, victims |-> {}, misfits |-> {},
                       failed |-> FALSE]
        ELSE LET last == acc[k - 1]
             IN  IF last.failed THEN last
                 ELSE Reprieve(pfs, pod, nominated, capacity, last, pods[k])
  IN  acc

Rejected(code) == [code |-> code, victims |-> {}, violating |-> 0]

(* The victims on a node with the pods on, a sequence of pods, and the     *)
(* number of them whose budget is violated: those that do not fit are      *)
(* counted, those that the quotas do not allow are not.                    *)
SelectVictimsOnNode(infos, pfs, pod, pods, pdbs, nominated, capacity) ==
  LET removed == RemoveVictims(infos, pfs, pod, pods)
      left == ToSet(pods) \ ToSet(removed.found)
      groups == filterPodsWithPDBViolation(MostImportantFirst(removed.found), pdbs)
      candidates == groups.violating \o groups.nonViolating
      end == ReprieveLoop(pfs, pod, nominated, capacity, removed.infos, left,
                          candidates)[Len(candidates)]
  IN  IF removed.found = << >> THEN Rejected("UnschedulableAndUnresolvable")
      ELSE IF ~RunFilterPlugins(pod, left, nominated, capacity) THEN Rejected("Unschedulable")
      ELSE IF OverQuota(removed.infos, pod, pfs.podReq, pfs.podReq) THEN Rejected("Unschedulable")
      ELSE IF end.failed THEN Rejected("Error")
      ELSE [code |-> "Success", victims |-> end.victims,
            violating |-> Cardinality(end.misfits \cap ToSet(groups.violating))]
=============================================================================
