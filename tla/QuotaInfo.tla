----------------------------- MODULE QuotaInfo -----------------------------
(***************************************************************************)
(* pkg/capacityscheduling/elasticquota.go: the quota of a namespace as the *)
(* plugin keeps it.  ElasticQuotaInfos is a function from the namespaces   *)
(* that have a quota; an info has the limits min and max, the resources in *)
(* use and the uids of the pods that are counted in them.                  *)
(***************************************************************************)
EXTENDS Victims

newElasticQuotaInfo(spec) ==
  [min |-> spec.min, max |-> spec.max, used |-> Zero, pods |-> {}]

(* Only the scalar resources that x1 has are compared; one that it does    *)
(* not request counts as one that it does not have.                        *)
cmp2(x1, x2, y) ==
  \E r \in Res : (r \in Scalars => x1[r] # 0) /\ x1[r] + x2[r] > y[r]

cmp(x, y) == cmp2(x, Zero, y)

usedOverMinWith(info, request) == cmp2(request, info.used, info.min)
usedOverMaxWith(info, request) == cmp2(request, info.used, info.max)
usedOverMin(info) == cmp(info.used, info.min)

Total(infos, field) ==
  [r \in Res |-> SumOver([ns \in DOMAIN infos |-> infos[ns][field][r]], DOMAIN infos)]

aggregatedUsedOverMinWith(infos, request) ==
  cmp(Plus(Total(infos, "used"), request), Total(infos, "min"))

(* Mutant: a pod is counted at every call.                                 *)
addPodIfNotPresent_Always(info, pod) ==
  [info EXCEPT !.pods = @ \cup {pod.uid},
               !.used = Plus(@, computePodResourceRequest(pod))]

addPodIfNotPresent(info, pod) ==
  IF pod.uid \in info.pods THEN info
  ELSE [info EXCEPT !.pods = @ \cup {pod.uid},
                    !.used = Plus(@, computePodResourceRequest(pod))]

(* Mutant: a pod that is not counted is taken off too.                     *)
deletePodIfPresent_Always(info, pod) ==
  [info EXCEPT !.pods = @ \ {pod.uid},
               !.used = Minus(@, computePodResourceRequest(pod))]

deletePodIfPresent(info, pod) ==
  IF pod.uid \notin info.pods THEN info
  ELSE [info EXCEPT !.pods = @ \ {pod.uid},
                    !.used = Minus(@, computePodResourceRequest(pod))]

(* The same on the infos of all namespaces: AddPod and RemovePod on the    *)
(* snapshot of a cycle, Reserve and Unreserve on the live infos.           *)
CountPod(infos, pod) ==
  IF pod.ns \notin DOMAIN infos THEN infos
  ELSE [infos EXCEPT ![pod.ns] = addPodIfNotPresent(@, pod)]

UncountPod(infos, pod) ==
  IF pod.ns \notin DOMAIN infos THEN infos
  ELSE [infos EXCEPT ![pod.ns] = deletePodIfPresent(@, pod)]
=============================================================================
