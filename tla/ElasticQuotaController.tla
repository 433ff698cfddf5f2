----------------------- MODULE ElasticQuotaController -----------------------
(***************************************************************************)
(* pkg/controller/elasticquota.go: the controller that writes the usage of *)
(* a namespace into the status of its ElasticQuota.                        *)
(*                                                                         *)
(* Its listers follow the API server with a delay, its handlers put the    *)
(* key of the quota into a work queue, and a worker computes the usage and *)
(* sends a merge patch of what it differs in from the quota that it read.  *)
(* An error is logged and the key is not put back.                         *)
(*                                                                         *)
(* A resource list is a function from the names of the resources it has.   *)
(***************************************************************************)
EXTENDS Sums, FiniteSetsExt, Sequences, SequencesExt

CONSTANTS
  Pods,
  Containers,  \* Containers[p]: the requests of the containers
  Inits,       \* Inits[p]: the requests of the init containers
  Overhead,    \* Overhead[p]: a resource list
  Names,       \* sets of resource names a quota may limit, by min or max
  MaxOps,      \* bound on the changes of the quota
  MaxFaults    \* bound on failing patches and restarts

ASSUME ControllerAssumption ==
  IsFiniteSet(Pods) /\ MaxOps \in Nat /\ MaxFaults \in Nat

VARIABLES
  pods,      \* pods[p]: the phase of the pod in the API server
  podLister, \* podLister[p]: the phase in the controller's lister
  eq,        \* the quota in the API server: its uid, the names it limits, its status
  eqLister,  \* the quota in the controller's lister
  eqQueue,   \* is the key of the quota in the queue?
  patch,     \* the patch the worker is sending, or NoPatch
  missed,    \* a patch failed, and no event has come since
  ops, faults

vars == <<pods, podLister, eq, eqLister, eqQueue, patch, missed, ops, faults>>

Empty == [r \in {} |-> 0]
NoQuota == [uid |-> 0, names |-> {}, used |-> Empty, exists |-> FALSE]
NoPatch == [none |-> TRUE]

At(list, r) == IF r \in DOMAIN list THEN list[r] ELSE 0
Add(x, y) == [r \in DOMAIN x \cup DOMAIN y |-> At(x, r) + At(y, r)]
Larger(x, y) == [r \in DOMAIN x \cup DOMAIN y |-> Max({At(x, r), At(y, r)})]

(* quota.Add(result, pod.Spec.Overhead) returns a new list that is thrown  *)
(* away: the overhead has no effect.                                       *)
computePodResourceRequest(p) ==
  Larger(FoldLeft(Add, Empty, Containers[p]), FoldLeft(Larger, Empty, Inits[p]))

Requests == [p \in Pods |-> computePodResourceRequest(p)]

(* The API server admits no negative request.                              *)
ASSUME RequestsAssumption ==
  \A p \in Pods : \A r \in DOMAIN Requests[p] : Requests[p][r] \in Nat

newZeroUsed(quota) == [r \in quota.names |-> 0]

UsedOf(quota, running, requests) ==
  [r \in quota.names \cup UNION {DOMAIN requests[p] : p \in running} |->
     At(newZeroUsed(quota), r) + SumOver([p \in running |-> At(requests[p], r)], running)]

(* Only pods that run are counted.                                         *)
computeElasticQuotaUsed(quota) ==
  UsedOf(quota, {p \in Pods : podLister[p] = "Running"}, Requests)

(* util.CreateMergePatch of two statuses: null removes a name.             *)
MergePatch(old, new) ==
  [set |-> [r \in {n \in DOMAIN new : n \notin DOMAIN old \/ new[n] # old[n]} |-> new[r]],
   null |-> DOMAIN old \ DOMAIN new]

Apply(used, p) ==
  [r \in (DOMAIN used \cup DOMAIN p.set) \ p.null |->
     IF r \in DOMAIN p.set THEN p.set[r] ELSE used[r]]

----------------------------------------------------------------------------
Init ==
  /\ pods = [p \in Pods |-> "Pending"]
  /\ podLister = [p \in Pods |-> "none"]
  /\ eq = NoQuota /\ eqLister = NoQuota
  /\ eqQueue = FALSE
  /\ patch = NoPatch
  /\ missed = FALSE
  /\ ops = 0 /\ faults = 0

(* The world: a pod starts; it ends, or it is deleted.                     *)
Start(p) ==
  /\ pods[p] = "Pending"
  /\ pods' = [pods EXCEPT ![p] = "Running"]
  /\ UNCHANGED <<podLister, eq, eqLister, eqQueue, patch, missed, ops, faults>>

End(p) ==
  /\ pods[p] = "Running"
  /\ pods' = [pods EXCEPT ![p] = "Succeeded"]
  /\ UNCHANGED <<podLister, eq, eqLister, eqQueue, patch, missed, ops, faults>>

DeletePod(p) ==
  /\ pods[p] # "none"
  /\ pods' = [pods EXCEPT ![p] = "none"]
  /\ UNCHANGED <<podLister, eq, eqLister, eqQueue, patch, missed, ops, faults>>

(* The quota is created, its limits change (the status stays), or it is    *)
(* deleted.  One that is created again has another uid, so the informer    *)
(* does not take it for the old one.                                       *)
ChangeQuota(quota) ==
  /\ ops < MaxOps /\ ops' = ops + 1
  /\ eq' = quota
  /\ UNCHANGED <<pods, podLister, eqLister, eqQueue, patch, missed, faults>>

SetQuota(names) ==
  /\ names # eq.names
  /\ ChangeQuota([eq EXCEPT !.names = names, !.exists = TRUE,
                            !.uid = IF eq.exists THEN @ ELSE ops + 1])

DeleteQuota == eq.exists /\ ChangeQuota(NoQuota)

----------------------------------------------------------------------------
(* The informers.                                                          *)

(* Mutant: an update of the quota itself is not looked at.                 *)
Enqueued_Created == ~eqLister.exists

(* eqAdded, eqUpdated and eqDeleted all put the key into the queue.        *)
Enqueued == TRUE

eqEvent ==
  /\ eqLister # eq
  /\ eqLister' = eq
  /\ eqQueue' = (eqQueue \/ Enqueued)
  /\ UNCHANGED <<pods, podLister, eq, patch, missed, ops, faults>>

(* podAdded, podUpdated and podDeleted: the quota of the namespace, if the *)
(* lister has one.                                                         *)
podEvent(p) ==
  /\ podLister[p] # pods[p]
  /\ podLister' = [podLister EXCEPT ![p] = pods[p]]
  /\ eqQueue' = (eqQueue \/ eqLister.exists)
  /\ UNCHANGED <<pods, eq, eqLister, patch, missed, ops, faults>>

----------------------------------------------------------------------------
(* The worker.                                                             *)

(* Mutant: the key is put back after every sync.                           *)
syncHandler_PutsBack ==
  LET used == computeElasticQuotaUsed(eqLister) IN
  /\ eqQueue /\ patch = NoPatch
  /\ missed' = FALSE
  /\ patch' = IF ~eqLister.exists \/ used = eqLister.used THEN NoPatch
              ELSE MergePatch(eqLister.used, used)
  /\ UNCHANGED <<pods, podLister, eq, eqLister, eqQueue, ops, faults>>

(* syncHandler up to the patch: nothing to do for a quota that is gone or  *)
(* whose status, as the lister has it, is right.                           *)
syncHandler ==
  LET used == computeElasticQuotaUsed(eqLister) IN
  /\ eqQueue /\ patch = NoPatch
  /\ eqQueue' = FALSE
  /\ missed' = FALSE
  /\ patch' = IF ~eqLister.exists \/ used = eqLister.used THEN NoPatch
              ELSE MergePatch(eqLister.used, used)
  /\ UNCHANGED <<pods, podLister, eq, eqLister, ops, faults>>

(* Mutant: a patch brings the status of a deleted quota back.              *)
Patch_Deleted ==
  /\ patch # NoPatch
  /\ eq' = [eq EXCEPT !.used = Apply(@, patch)]
  /\ patch' = NoPatch
  /\ UNCHANGED <<pods, podLister, eqLister, eqQueue, missed, ops, faults>>

(* The API server applies the patch to the quota it has by now.            *)
Patch ==
  /\ patch # NoPatch /\ eq.exists
  /\ eq' = [eq EXCEPT !.used = Apply(@, patch)]
  /\ patch' = NoPatch
  /\ UNCHANGED <<pods, podLister, eqLister, eqQueue, missed, ops, faults>>

(* The quota is gone, or the call fails: processNextWorkItem logs it and   *)
(* goes on.                                                                *)
PatchFails ==
  /\ patch # NoPatch
  /\ IF eq.exists THEN faults < MaxFaults /\ faults' = faults + 1 ELSE UNCHANGED faults
  /\ patch' = NoPatch
  /\ missed' = TRUE
  /\ UNCHANGED <<pods, podLister, eq, eqLister, eqQueue, ops>>

(* The controller stops, or another one takes over the lease: the informers*)
(* report everything again.                                                *)
Restart ==
  /\ faults < MaxFaults /\ faults' = faults + 1
  /\ podLister' = [p \in Pods |-> "none"]
  /\ eqLister' = NoQuota
  /\ eqQueue' = FALSE /\ patch' = NoPatch /\ missed' = FALSE
  /\ UNCHANGED <<pods, eq, ops>>

Next ==
  \/ \E p \in Pods : Start(p) \/ End(p) \/ DeletePod(p) \/ podEvent(p)
  \/ \E names \in Names : SetQuota(names)
  \/ DeleteQuota
  \/ eqEvent \/ syncHandler \/ Patch \/ PatchFails \/ Restart

(* The informers and the worker go on; nothing is assumed of the world.    *)
Fairness ==
  /\ \A p \in Pods : WF_vars(podEvent(p))
  /\ WF_vars(eqEvent) /\ WF_vars(syncHandler) /\ WF_vars(Patch \/ PatchFails)

Spec == Init /\ [][Next]_vars /\ Fairness

----------------------------------------------------------------------------
(* The requests as the comment of computePodResourceRequest has them, with *)
(* the overhead, and their sum over the pods that run.                     *)
Due ==
  [p \in Pods |-> Add(Larger(FoldLeft(Add, Empty, Containers[p]),
                             FoldLeft(Larger, Empty, Inits[p])), Overhead[p])]

Usage == UsedOf(eq, {p \in Pods : pods[p] = "Running"}, Due)

Current == podLister = pods /\ eqLister = eq

(* Once the listers are up to date and the queue is empty the status of    *)
(* the quota is its usage, whatever the order of events, syncs on a stale  *)
(* lister and patches against an old status, unless a patch failed.        *)
StatusSettles ==
  Current /\ ~eqQueue /\ patch = NoPatch /\ ~missed /\ eq.exists => eq.used = Usage

(* The controller comes to rest: its own patches cause events that cause   *)
(* syncs, but it does not write for ever when pods and quota stay as they  *)
(* are.                                                                    *)
ComesToRest == <>[](~eqQueue /\ patch = NoPatch)

ResourceNames == (UNION Names) \cup (UNION {DOMAIN Requests[p] : p \in Pods})

IsList(list) == DOMAIN list \subseteq ResourceNames /\ list \in [DOMAIN list -> Nat]

IsQuota(quota) ==
  /\ IsList(quota.used)
  /\ quota \in [uid : 0 .. MaxOps, names : SUBSET ResourceNames,
                used : {quota.used}, exists : BOOLEAN]

IsPatch(p) ==
  IsList(p.set) /\ p \in [set : {p.set}, null : SUBSET ResourceNames]

(* The types; no usage is negative, and a patch that comes too late does   *)
(* not bring a deleted quota back (syncHandler).                           *)
TypeOK ==
  /\ pods \in [Pods -> {"none", "Pending", "Running", "Succeeded"}]
  /\ podLister \in [Pods -> {"none", "Pending", "Running", "Succeeded"}]
  /\ IsQuota(eq) /\ IsQuota(eqLister)
  /\ eq.exists \/ eq = NoQuota
  /\ patch = NoPatch \/ IsPatch(patch)
  /\ eqQueue \in BOOLEAN /\ missed \in BOOLEAN
  /\ ops \in 0 .. MaxOps /\ faults \in 0 .. MaxFaults
=============================================================================
