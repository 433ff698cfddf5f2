------------------------- MODULE CapacityScheduling -------------------------
(***************************************************************************)
(* The CapacityScheduling plugin at work: pkg/capacityscheduling.          *)
(*                                                                         *)
(* Four actors share the infos of the quotas: the scheduling loop          *)
(* (PreFilter, PostFilter, Reserve), the binding goroutines (Unreserve),   *)
(* the handlers of the pod informer and those of the ElasticQuota          *)
(* informer.  Each informer calls its handlers one after the other, in the *)
(* order of the events, and any time after the event.  There is one node;  *)
(* the scheduler's own cache is taken to be up to date.                    *)
(*                                                                         *)
(* The pods of the scheduler's informer are those that have not ended (the *)
(* informer has a field selector), so that the end of a pod is a deletion  *)
(* for the handlers.                                                       *)
(***************************************************************************)
EXTENDS CapacityPreemption

CONSTANTS
  Pods,        \* the uids of the pods
  Obj,         \* Obj[p]: the pod, see Victims
  Namespaces,
  Specs,       \* Specs[ns]: the limits a quota of ns may have
  Initial,     \* the quotas that may be there at the start, by namespace
  Capacity,    \* of the node
  MaxOps,      \* bound on the changes of quotas
  MaxFaults    \* bound on failures and restarts

ASSUME QuotaAssumption ==
  /\ IsFiniteSet(Pods) /\ IsFiniteSet(Namespaces)
  /\ \A p \in Pods : /\ Obj[p].uid = p /\ Obj[p].ns \in Namespaces
                      /\ computePodResourceRequest(Obj[p]) \in [Res -> Nat]
  /\ \A ns \in Namespaces : \A spec \in Specs[ns] :
       spec \in [min : [Res -> Nat], max : [Res -> Nat]]
  /\ \A given \in Initial :
       /\ given = [ns \in DOMAIN given |-> given[ns]] /\ DOMAIN given \subseteq Namespaces
       /\ \A ns \in DOMAIN given : given[ns] \in Specs[ns]
  /\ MaxOps \in Nat /\ MaxFaults \in Nat

VARIABLES
  phase,      \* phase[p]: of the pod in the API server
  nominated,  \* the pods that are nominated to the node
  seen,       \* seen[p]: what the plugin's handlers have been told of the pod
  lister,     \* the quotas in the store of the ElasticQuota informer
  notes,      \* notes[ns]: the events of ns its handlers have not yet handled
  adding,     \* addElasticQuota between its check and its lock
  infos,      \* the field elasticQuotaInfos
  cycle,      \* the scheduling cycle: the pod and the CycleState
  binding,    \* binding[p]: the binding goroutine of the pod
  steady,     \* namespaces whose quota and plugin were left alone so far
  dropped,    \* pods whose usage was discarded with an info or by Unreserve
  ops, faults

pods_  == <<phase, nominated, seen>>
quotas == <<lister, notes, adding>>
sched  == <<cycle, binding>>
ghosts == <<steady, dropped, ops, faults>>
vars   == <<pods_, quotas, infos, sched, ghosts>>

None == [none |-> TRUE]

Of(ns) == {p \in Pods : Obj[p].ns = ns}
Current(p) == [Obj[p] EXCEPT !.deleting = phase[p] = "terminating"]
Assigned(p) == phase[p] \in {"bound", "terminating"}

(* The pods on the node: those assumed by the scheduler and those bound.   *)
OnNode == {p \in Pods : binding[p] # "no" \/ Assigned(p)}

Note(type, spec) == [type |-> type, spec |-> spec]

(* The map with one more entry, or another one, for ns.                    *)
Put(map, ns, value) ==
  [n \in DOMAIN map \cup {ns} |-> IF n = ns THEN value ELSE map[n]]

(* Quotas that are there at the start have been read by New.               *)
Init ==
  /\ phase = [p \in Pods |-> "pending"]
  /\ nominated = {}
  /\ seen = [p \in Pods |-> "no"]
  /\ lister \in Initial
  /\ notes = [ns \in Namespaces |-> << >>]
  /\ adding = None
  /\ infos = [ns \in DOMAIN lister |-> newElasticQuotaInfo(lister[ns])]
  /\ cycle = None
  /\ binding = [p \in Pods |-> "no"]
  /\ steady = DOMAIN lister
  /\ dropped = {}
  /\ ops = 0 /\ faults = 0

----------------------------------------------------------------------------
(* The world: pods are deleted and end, quotas are created, changed and    *)
(* deleted.  All pods are pending from the start; one that comes later is  *)
(* one that is not popped for a while.                                     *)

Delete(p) ==
  /\ phase[p] = "pending"
  /\ phase' = [phase EXCEPT ![p] = "deleted"]
  /\ nominated' = nominated \ {p}
  /\ UNCHANGED <<seen, quotas, infos, sched, ghosts>>

(* A bound pod whose user deletes it is one that ends.                     *)
End(p) ==
  /\ Assigned(p)
  /\ phase' = [phase EXCEPT ![p] = "gone"]
  /\ UNCHANGED <<nominated, seen, quotas, infos, sched, ghosts>>

ChangeQuota(ns, store, note) ==
  /\ ops < MaxOps
  /\ ops' = ops + 1
  /\ lister' = store
  /\ notes' = [notes EXCEPT ![ns] = Append(@, note)]
  /\ steady' = steady \ {ns}
  /\ UNCHANGED <<pods_, adding, infos, sched, dropped, faults>>

CreateQuota(ns, spec) ==
  /\ ns \notin DOMAIN lister
  /\ ChangeQuota(ns, Put(lister, ns, spec), Note("add", spec))

UpdateQuota(ns, spec) ==
  /\ ns \in DOMAIN lister /\ lister[ns] # spec
  /\ ChangeQuota(ns, [lister EXCEPT ![ns] = spec], Note("update", spec))

DeleteQuota(ns) ==
  /\ ns \in DOMAIN lister
  /\ ChangeQuota(ns, [n \in DOMAIN lister \ {ns} |-> lister[n]], Note("delete", lister[ns]))

----------------------------------------------------------------------------
(* The handlers of the ElasticQuota informer.                              *)

Handles(ns, type) ==
  /\ adding = None
  /\ notes[ns] # << >> /\ Head(notes[ns]).type = type
  /\ notes' = [notes EXCEPT ![ns] = Tail(@)]

(* Ghost: the pods of ns whose event addPod is over, and which nobody will *)
(* count again.                                                            *)
Forgotten(ns) == {p \in Of(ns) : seen[p] \in {"assigned", "deleting"}}

(* The infos are read without the lock ...                                 *)
addElasticQuota(ns) ==
  /\ Handles(ns, "add")
  /\ adding' = IF ns \in DOMAIN infos THEN None
               ELSE [ns |-> ns, spec |-> Head(notes[ns]).spec]
  /\ UNCHANGED <<pods_, lister, infos, sched, ghosts>>

(* ... and the new info is stored under it, whatever is there by then.     *)
storeElasticQuota ==
  /\ adding # None
  /\ infos' = Put(infos, adding.ns, newElasticQuotaInfo(adding.spec))
  /\ adding' = None
  /\ dropped' = dropped \cup Forgotten(adding.ns)
  /\ UNCHANGED <<pods_, lister, notes, sched, steady, ops, faults>>

Renewed(ns, spec) ==
  IF ns \notin DOMAIN infos THEN newElasticQuotaInfo(spec)
  ELSE [newElasticQuotaInfo(spec) EXCEPT !.used = infos[ns].used, !.pods = infos[ns].pods]

updateElasticQuota(ns) ==
  /\ Handles(ns, "update")
  /\ infos' = Put(infos, ns, Renewed(ns, Head(notes[ns]).spec))
  /\ dropped' = IF ns \in DOMAIN infos THEN dropped ELSE dropped \cup Forgotten(ns)
  /\ UNCHANGED <<pods_, lister, adding, sched, steady, ops, faults>>

deleteElasticQuota(ns) ==
  /\ Handles(ns, "delete")
  /\ infos' = [n \in DOMAIN infos \ {ns} |-> infos[n]]
  /\ UNCHANGED <<pods_, lister, adding, sched, ghosts>>

----------------------------------------------------------------------------
(* The handlers of the pod informer, for pods that are assigned.           *)

(* A pod that is bound, or was, and whose binding is not yet handled.  The *)
(* info is created if the quota is already in the lister.                  *)
addPod(p) ==
  LET ns == Obj[p].ns IN
  /\ phase[p] \in {"bound", "terminating", "gone"} /\ seen[p] = "no"
  /\ seen' = [seen EXCEPT ![p] = "assigned"]
  /\ IF ns \notin DOMAIN infos /\ ns \in DOMAIN lister
       THEN /\ infos' = CountPod(Put(infos, ns, newElasticQuotaInfo(lister[ns])), Obj[p])
            /\ dropped' = dropped \cup Forgotten(ns)
       ELSE /\ infos' = CountPod(infos, Obj[p])
            /\ UNCHANGED dropped
  /\ UNCHANGED <<phase, nominated, quotas, sched, steady, ops, faults>>

(* updatePod takes a pod off when it has ended.  The informer reports that *)
(* as a deletion, and the updates it delivers are of pods that run.        *)
UpdatedInfos(p, old, new) ==
  IF old \notin {"Succeeded", "Failed"} /\ new \notin {"Running", "Pending"}
    THEN UncountPod(infos, Obj[p])
    ELSE infos

updatePod(p) ==
  /\ phase[p] = "terminating" /\ seen[p] = "assigned"
  /\ seen' = [seen EXCEPT ![p] = "deleting"]
  /\ infos' = UpdatedInfos(p, "Running", "Running")
  /\ UNCHANGED <<phase, nominated, quotas, sched, ghosts>>

deletePod(p) ==
  /\ phase[p] = "gone" /\ seen[p] \in {"assigned", "deleting"}
  /\ seen' = [seen EXCEPT ![p] = "gone"]
  /\ infos' = UncountPod(infos, Obj[p])
  /\ UNCHANGED <<phase, nominated, quotas, sched, ghosts>>

----------------------------------------------------------------------------
(* The scheduling loop.                                                    *)

(* PreFilter of the pod that is popped: takes the snapshot of the infos    *)
(* that the rest of the cycle uses.                                        *)
StartCycle(p) ==
  LET pfs == PreFilterState(infos, infos, Obj[p], {Obj[q] : q \in nominated}) IN
  /\ cycle = None /\ phase[p] = "pending" /\ binding[p] = "no"
  /\ cycle' = [pod |-> p, infos |-> infos, pfs |-> pfs, on |-> OnNode,
               passed |-> PreFilter(infos, pfs, Obj[p])]
  /\ UNCHANGED <<pods_, quotas, infos, binding, ghosts>>

Feasible ==
  /\ cycle.passed
  /\ RunFilterPlugins(Obj[cycle.pod], {Current(p) : p \in cycle.on},
                      {Obj[q] : q \in nominated}, Capacity)

(* The pod is assumed, its nomination ends, and the live infos count it.   *)
Reserve ==
  /\ cycle # None /\ Feasible
  /\ infos' = CountPod(infos, Obj[cycle.pod])
  /\ binding' = [binding EXCEPT ![cycle.pod] = "binding"]
  /\ nominated' = nominated \ {cycle.pod}
  /\ cycle' = None
  /\ UNCHANGED <<phase, seen, quotas, ghosts>>

(* The pods of the node in some order; the preemptor sorts them.           *)
Listed == [on \in SUBSET Pods |-> SetToSeq(on)]

(* PostFilter: the evaluator asks the preemptor for the victims on the     *)
(* node, deletes them, ends the nominations of less important pods and     *)
(* nominates the pod.  Without a candidate the nomination ends; it stays   *)
(* when the pod is not eligible or the selection fails.                    *)
Selection ==
  LET pod == Obj[cycle.pod]
      listed == Listed[cycle.on]
      pods == [k \in DOMAIN listed |-> Current(listed[k])]
  IN  IF ~PodEligibleToPreemptOthers(cycle.infos, cycle.pfs, pod, pod.uid \in nominated, ToSet(pods))
        THEN Rejected("NotEligible")
        ELSE SelectVictimsOnNode(cycle.infos, cycle.pfs, pod, pods, << >>,
                                 {Obj[q] : q \in nominated}, Capacity)

(* A pod that is not bound goes at once, one that is bound terminates.     *)
Evicted(p) == CASE phase[p] = "pending" -> "deleted"
                [] phase[p] = "bound"   -> "terminating"
                [] OTHER                -> phase[p]

LessImportant(pod) == {q \in nominated : Obj[q].prio < pod.prio}

PostFilter ==
  LET pod == Obj[cycle.pod]
      chosen == Selection
      victims == {v.uid : v \in chosen.victims}
  IN
  /\ cycle # None /\ phase[cycle.pod] = "pending" /\ ~Feasible
  /\ phase' = [q \in Pods |-> IF q \in victims THEN Evicted(q) ELSE phase[q]]
  /\ nominated' = CASE chosen.code = "Success" ->
                         (nominated \ (LessImportant(pod) \cup victims)) \cup {pod.uid}
                    [] chosen.code \in {"NotEligible", "Error"} -> nominated
                    [] OTHER -> nominated \ {pod.uid}
  /\ cycle' = None
  /\ UNCHANGED <<seen, quotas, infos, binding, ghosts>>

(* The deletion of a victim fails: the pod is not nominated, but the       *)
(* victims before it are gone.                                             *)
PostFilterFails ==
  /\ faults < MaxFaults /\ faults' = faults + 1
  /\ cycle # None /\ phase[cycle.pod] = "pending" /\ ~Feasible
  /\ LET victims == {v.uid : v \in Selection.victims} IN
     /\ victims # {}
     /\ \E done \in SUBSET victims \ {victims} :
          /\ phase' = [q \in Pods |-> IF q \in done THEN Evicted(q) ELSE phase[q]]
          /\ nominated' = nominated \ done
  /\ cycle' = None
  /\ UNCHANGED <<seen, quotas, infos, binding, steady, dropped, ops>>

(* The pod was deleted during its cycle: the lister has it no more.        *)
PostFilterGone ==
  /\ cycle # None /\ phase[cycle.pod] # "pending" /\ ~Feasible
  /\ cycle' = None
  /\ UNCHANGED <<pods_, quotas, infos, binding, ghosts>>

----------------------------------------------------------------------------
(* The binding goroutines.                                                 *)

Bind(p) ==
  /\ binding[p] = "binding" /\ phase[p] = "pending"
  /\ phase' = [phase EXCEPT ![p] = "bound"]
  /\ binding' = [binding EXCEPT ![p] = "no"]
  /\ UNCHANGED <<nominated, seen, quotas, infos, cycle, ghosts>>

(* A pod that was deleted cannot be bound, and any call may fail.          *)
BindFails(p) ==
  /\ binding[p] = "binding"
  /\ \/ phase[p] # "pending" /\ UNCHANGED faults
     \/ phase[p] = "pending" /\ faults < MaxFaults /\ faults' = faults + 1
  /\ binding' = [binding EXCEPT ![p] = "failed"]
  /\ UNCHANGED <<pods_, quotas, infos, cycle, steady, dropped, ops>>

(* The pod is bound but the answer is lost.                                *)
BindLost(p) ==
  /\ binding[p] = "binding" /\ phase[p] = "pending"
  /\ faults < MaxFaults /\ faults' = faults + 1
  /\ phase' = [phase EXCEPT ![p] = "bound"]
  /\ binding' = [binding EXCEPT ![p] = "failed"]
  /\ steady' = steady \ {Obj[p].ns}
  /\ UNCHANGED <<nominated, seen, quotas, infos, cycle, dropped, ops>>

(* Mutant: the usage of a pod that could not be bound is kept.             *)
Unreserved_Kept(p) == infos

Unreserved(p) == UncountPod(infos, Obj[p])

Unreserve(p) ==
  /\ binding[p] = "failed"
  /\ infos' = Unreserved(p)
  /\ dropped' = IF seen[p] \in {"assigned", "deleting"} THEN dropped \cup {p} ELSE dropped
  /\ binding' = [binding EXCEPT ![p] = "no"]
  /\ UNCHANGED <<pods_, quotas, cycle, steady, ops, faults>>

(* The scheduler is restarted: New starts with no infos, and the informers *)
(* report every quota and every pod that has not ended as new.             *)
Restart ==
  /\ faults < MaxFaults /\ faults' = faults + 1
  /\ infos' = [ns \in {} |-> None]
  /\ adding' = None
  /\ notes' = [ns \in Namespaces |->
                 IF ns \in DOMAIN lister THEN <<Note("add", lister[ns])>> ELSE << >>]
  /\ seen' = [p \in Pods |-> IF phase[p] = "gone" THEN "gone" ELSE "no"]
  /\ cycle' = None
  /\ binding' = [p \in Pods |-> "no"]
  /\ steady' = {} /\ dropped' = {}
  /\ UNCHANGED <<phase, nominated, lister, ops>>

Next ==
  \/ \E p \in Pods :
       \/ Delete(p) \/ End(p)
       \/ addPod(p) \/ updatePod(p) \/ deletePod(p)
       \/ StartCycle(p)
       \/ Bind(p) \/ BindFails(p) \/ BindLost(p) \/ Unreserve(p)
  \/ \E ns \in Namespaces :
       \/ \E spec \in Specs[ns] : CreateQuota(ns, spec) \/ UpdateQuota(ns, spec)
       \/ DeleteQuota(ns)
       \/ addElasticQuota(ns) \/ updateElasticQuota(ns) \/ deleteElasticQuota(ns)
  \/ storeElasticQuota
  \/ Reserve \/ PostFilter \/ PostFilterFails \/ PostFilterGone
  \/ Restart

Spec == Init /\ [][Next]_vars

----------------------------------------------------------------------------
Limits == [min : [Res -> Nat], max : [Res -> Nat]]
Notes == [type : {"add", "update", "delete"}, spec : Limits]
InfosOf(ns) == [min : [Res -> Nat], max : [Res -> Nat],
                used : [Res -> Nat], pods : SUBSET Of(ns)]

(* No usage is ever negative, and a pod is counted for its own namespace:  *)
(* all callers of addPodIfNotPresent and deletePodIfPresent together.      *)
TypeOK ==
  /\ phase \in [Pods -> {"pending", "bound", "terminating", "gone", "deleted"}]
  /\ seen \in [Pods -> {"no", "assigned", "deleting", "gone"}]
  /\ nominated \subseteq Pods
  /\ binding \in [Pods -> {"no", "binding", "failed"}]
  /\ lister \in [DOMAIN lister -> Limits] /\ DOMAIN lister \subseteq Namespaces
  /\ notes \in [Namespaces -> Seq(Notes)]
  /\ adding \in {None} \cup [ns : Namespaces, spec : Limits]
  /\ DOMAIN infos \subseteq Namespaces
  /\ \A ns \in DOMAIN infos : infos[ns] \in InfosOf(ns)
  /\ cycle = None \/ cycle.pod \in Pods
  /\ steady \subseteq Namespaces /\ dropped \subseteq Pods
  /\ ops \in 0 .. MaxOps /\ faults \in 0 .. MaxFaults

(* Reserve, Unreserve and the handlers count a pod once, in whatever order *)
(* they come: the usage of a quota is the sum of the requests of the pods  *)
(* in its set (addPodIfNotPresent, deletePodIfPresent, updateElasticQuota).*)
UsedIsSum ==
  \A ns \in DOMAIN infos : infos[ns].used = Requested({Obj[p] : p \in infos[ns].pods})

(* The handlers have nothing left to do for the namespace.                 *)
Settled(ns) ==
  /\ adding = None /\ notes[ns] = << >>
  /\ \A p \in Of(ns) :
       /\ binding[p] = "no"
       /\ phase[p] = "bound" => seen[p] = "assigned"
       /\ phase[p] = "terminating" => seen[p] = "deleting"
       /\ phase[p] = "gone" => seen[p] = "gone"

(* When all events are handled a quota counts the pods that are bound and  *)
(* no others: no failed binding, deletion, eviction, change of the quota   *)
(* or restart leaves usage behind, and usage is lost in two ways only, by  *)
(* an info that is created after its pods were seen and by Unreserve of a  *)
(* pod that was bound after all.                                           *)
Accounted ==
  \A ns \in DOMAIN infos :
    Settled(ns) => infos[ns].pods = {p \in Of(ns) : Assigned(p)} \ dropped

(* As long as a quota is not changed and no answer or process is lost, its *)
(* namespace never uses more than max (PreFilter, point 1), although the   *)
(* check is made on a snapshot and the pod is counted later.               *)
WithinMax ==
  \A ns \in steady : AtMost(infos[ns].used, infos[ns].max)

(* And when that holds of all quotas they never use more than the sum of   *)
(* their mins (PreFilter, point 2): what one borrows another does not use. *)
WithinMin ==
  steady = Namespaces => AtMost(Total(infos, "used"), Total(infos, "min"))

(* "The usage of max is based on the resource configurations of            *)
(* successfully scheduled pods" (apis/scheduling/v1alpha1/types.go): once  *)
(* all events are handled every pod that is scheduled is counted.          *)
ScheduledIsCounted ==
  \A ns \in DOMAIN infos :
    Settled(ns) => {p \in Of(ns) : Assigned(p)} \subseteq infos[ns].pods
=============================================================================
