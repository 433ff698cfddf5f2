------------------------------ MODULE PodGroup ------------------------------
(***************************************************************************)
(* The status of one PodGroup and its two writers: PostBind of the         *)
(* Coscheduling plugin (pkg/coscheduling/core) in the binding goroutine of *)
(* each pod, and the PodGroup controller (pkg/controller/podgroup.go).     *)
(*                                                                         *)
(* Both read the PodGroup from the lister of an informer that may be late, *)
(* and send a merge patch, which has only the fields that differ from what *)
(* was read.  The controller counts the pods that carry the group's label, *)
(* in all namespaces.  ScheduleStartTime and OccupiedBy are left out.      *)
(***************************************************************************)
EXTENDS Integers, FiniteSets

CONSTANTS
  Pods,       \* the pods of the group
  Foreign,    \* pods of other namespaces that carry the same label
  MinMember,  \* spec.minMember
  MaxFaults   \* bound on patches that fail and pods that are deleted

ASSUME PodGroupAssumption ==
  /\ IsFiniteSet(Pods) /\ IsFiniteSet(Foreign) /\ Pods \cap Foreign = {}
  /\ MinMember \in Nat \ {0}
  /\ MaxFaults \in Nat

VARIABLES
  pod,       \* pod[p]: the stored pod and how far the kubelet is with it
  status,    \* the stored status of the PodGroup
  schedView, \* the status in the lister of the scheduler
  ctrlView,  \* the status in the lister of the controller
  unseen,    \* the informers that have not delivered the last update
  post,      \* post[p]: PostBind of p: none, todo, patch or done
  copy,      \* copy[p]: the pgCopy of PostBind while its patch is to be sent
  queued,    \* is the group in the controller's work queue
  patch,     \* the patch the controller has computed, or NoPatch
  faults,    \* how many faults happened
  ended      \* history: the pods that succeeded and those that failed

vars == <<pod, status, schedView, ctrlView, unseen, post, copy, queued, patch, faults, ended>>

PodPhases == {"absent", "pending", "bound", "running", "succeeded", "failed", "deleted"}
GroupPhases == {"", "Pending", "PreScheduling", "Scheduling", "Scheduled",
                "Running", "Finished", "Failed"}
Final == {"Finished", "Failed"}
Counts == {"scheduled", "running", "succeeded", "failed"}
Fields == {"phase"} \cup Counts

Status == [phase : GroupPhases, scheduled : Nat, running : Nat, succeeded : Nat, failed : Nat]
NewStatus == [phase |-> "", scheduled |-> 0, running |-> 0, succeeded |-> 0, failed |-> 0]
NoPatch == [none |-> TRUE]

All == Pods \cup Foreign

----------------------------------------------------------------------------
(* CreateMergePatch: the fields of new that differ from old.               *)
MergePatch(old, new) == [f \in {x \in Fields : old[x] # new[x]} |-> new[f]]

(* The API server applies a merge patch.                                   *)
Apply(st, p) ==
  LET field(f) == IF f \in DOMAIN p THEN p[f] ELSE st[f]
  IN  [phase |-> field("phase"), scheduled |-> field("scheduled"), running |-> field("running"),
       succeeded |-> field("succeeded"), failed |-> field("failed")]

(* The API server stores a patched status; an update is an event for both  *)
(* informers.                                                              *)
Store(p) ==
  /\ status' = Apply(status, p)
  /\ unseen' = IF Apply(status, p) = status THEN unseen ELSE {"scheduler", "controller"}

(* Mutant: the age of the group is not asked for.                          *)
Enqueue_AnyAge(st) ==
  queued' = (queued \/ ~(st.phase \in Final \/ (st.scheduled = MinMember /\ st.running = 0)))

(* pgAdded: a group that is finished or failed is not queued.  (Nor is one *)
(* that took two days to be scheduled; groups are younger here.)           *)
Enqueue(st) == queued' = (queued \/ st.phase \notin Final)

(* podAdded and podUpdated: the group is looked up in the pod's namespace. *)
PodEvent(p) == IF p \in Pods THEN Enqueue(ctrlView) ELSE UNCHANGED queued

----------------------------------------------------------------------------
Init ==
  /\ pod = [p \in All |-> "absent"]
  /\ status = NewStatus
  /\ schedView = NewStatus
  /\ ctrlView = NewStatus
  /\ unseen = {}
  /\ post = [p \in Pods |-> "none"]
  /\ copy = [p \in Pods |-> NewStatus]
  /\ queued = TRUE
  /\ patch = NoPatch
  /\ faults = 0
  /\ ended = [succeeded |-> {}, failed |-> {}]

----------------------------------------------------------------------------
(* Users, the scheduler and the kubelet.                                   *)

CreatePod(p) ==
  /\ pod[p] = "absent"
  /\ pod' = [pod EXCEPT ![p] = "pending"]
  /\ PodEvent(p)
  /\ UNCHANGED <<status, schedView, ctrlView, unseen, post, copy, patch, faults, ended>>

(* The binding of p is stored; its goroutine goes on with PostBind.        *)
Bind(p) ==
  /\ pod[p] = "pending"
  /\ pod' = [pod EXCEPT ![p] = "bound"]
  /\ post' = IF p \in Pods THEN [post EXCEPT ![p] = "todo"] ELSE post
  /\ PodEvent(p)
  /\ UNCHANGED <<status, schedView, ctrlView, unseen, copy, patch, faults, ended>>

Start(p) ==
  /\ pod[p] = "bound"
  /\ pod' = [pod EXCEPT ![p] = "running"]
  /\ PodEvent(p)
  /\ UNCHANGED <<status, schedView, ctrlView, unseen, post, copy, patch, faults, ended>>

Finish(p, result) ==
  /\ pod[p] = "running"
  /\ pod' = [pod EXCEPT ![p] = result]
  /\ ended' = [ended EXCEPT ![result] = @ \cup {p}]
  /\ PodEvent(p)
  /\ UNCHANGED <<status, schedView, ctrlView, unseen, post, copy, patch, faults>>

(* Mutant: a deleted pod is taken off the count of scheduled ones.         *)
DeletePod_CountsDown(p) ==
  /\ faults < MaxFaults
  /\ faults' = faults + 1
  /\ pod[p] \notin {"absent", "deleted"}
  /\ pod' = [pod EXCEPT ![p] = "deleted"]
  /\ status' = [status EXCEPT !.scheduled = @ - 1]
  /\ UNCHANGED <<schedView, ctrlView, unseen, post, copy, queued, patch, ended>>

(* The controller has no handler for deletions.                            *)
DeletePod(p) ==
  /\ faults < MaxFaults
  /\ faults' = faults + 1
  /\ pod[p] \notin {"absent", "deleted"}
  /\ pod' = [pod EXCEPT ![p] = "deleted"]
  /\ UNCHANGED <<status, schedView, ctrlView, unseen, post, copy, queued, patch, ended>>

----------------------------------------------------------------------------
(* The informers.                                                          *)

SchedulerSees ==
  /\ "scheduler" \in unseen
  /\ schedView' = status
  /\ unseen' = unseen \ {"scheduler"}
  /\ UNCHANGED <<pod, status, ctrlView, post, copy, queued, patch, faults, ended>>

(* pgUpdated *)
ControllerSees ==
  /\ "controller" \in unseen
  /\ ctrlView' = status
  /\ unseen' = unseen \ {"controller"}
  /\ Enqueue(status)
  /\ UNCHANGED <<pod, status, schedView, post, copy, patch, faults, ended>>

----------------------------------------------------------------------------
(* PostBind.                                                               *)

(* Mutant: the pod is counted although the lister may have it counted.     *)
Counted_Twice(st) ==
  LET n == st.scheduled + 2
  IN  [st EXCEPT !.scheduled = n,
                 !.phase = IF n >= MinMember THEN "Scheduled" ELSE "Scheduling"]

(* One more pod is scheduled, and the phase that follows.                  *)
Counted(st) ==
  LET n == st.scheduled + 1
  IN  [st EXCEPT !.scheduled = n,
                 !.phase = IF n >= MinMember THEN "Scheduled" ELSE "Scheduling"]

(* GetPodGroup; a patch is sent only if the phase changes.                 *)
PostBind(p) ==
  /\ post[p] = "todo"
  /\ IF Counted(schedView).phase # schedView.phase
       THEN /\ copy' = [copy EXCEPT ![p] = Counted(schedView)]
            /\ post' = [post EXCEPT ![p] = "patch"]
       ELSE /\ post' = [post EXCEPT ![p] = "done"]
            /\ UNCHANGED copy
  /\ UNCHANGED <<pod, status, schedView, ctrlView, unseen, queued, patch, faults, ended>>

(* The patch is made against the lister's PodGroup of now.                 *)
PostBindPatch(p) ==
  /\ post[p] = "patch"
  /\ Store(MergePatch(schedView, copy[p]))
  /\ post' = [post EXCEPT ![p] = "done"]
  /\ copy' = [copy EXCEPT ![p] = NewStatus]
  /\ UNCHANGED <<pod, schedView, ctrlView, queued, patch, faults, ended>>

(* An error is logged and the count is lost.                               *)
PostBindFails(p) ==
  /\ faults < MaxFaults
  /\ faults' = faults + 1
  /\ post[p] = "patch"
  /\ post' = [post EXCEPT ![p] = "done"]
  /\ copy' = [copy EXCEPT ![p] = NewStatus]
  /\ UNCHANGED <<pod, status, schedView, ctrlView, unseen, queued, patch, ended>>

----------------------------------------------------------------------------
(* The controller.                                                         *)

(* The pods of the lister in one phase, over all namespaces.               *)
In(ph) == Cardinality({p \in All : pod[p] = ph})
Listed == {p \in All : pod[p] \notin {"absent", "deleted"}}

(* Mutant: a running pod counts as one that will succeed.                  *)
PhaseOf_Optimistic(st) ==
  IF st.succeeded + st.running >= MinMember THEN "Finished"
  ELSE IF st.failed # 0 THEN "Failed" ELSE st.phase

(* What follows from the counts for a group that is past PreScheduling, in *)
(* the order of the code.                                                  *)
PhaseOf(st) ==
  LET ph1 == IF st.scheduled >= MinMember /\ st.phase = "Scheduling"
               THEN "Scheduled" ELSE st.phase
      ph2 == IF st.succeeded + st.running >= MinMember /\ ph1 = "Scheduled"
               THEN "Running" ELSE ph1
      ph3 == IF st.failed # 0 /\ st.failed + st.running + st.succeeded >= MinMember
               THEN "Failed" ELSE ph2
  IN  IF st.succeeded >= MinMember THEN "Finished" ELSE ph3

WithCounts(st) ==
  [st EXCEPT !.running = In("running"), !.succeeded = In("succeeded"), !.failed = In("failed")]

(* syncHandler *)
Synced(st) ==
  CASE st.phase = "" -> [st EXCEPT !.phase = "Pending"]
    [] st.phase = "Pending" ->
         [st EXCEPT !.phase = IF Cardinality(Listed) >= MinMember THEN "PreScheduling" ELSE @]
    [] OTHER ->
         [WithCounts(st) EXCEPT
            !.phase = IF Listed = {} THEN "Pending" ELSE PhaseOf(WithCounts(st))]

(* A worker takes the group from the queue and computes the patch.         *)
Sync ==
  /\ queued /\ patch = NoPatch
  /\ queued' = FALSE
  /\ patch' = MergePatch(ctrlView, Synced(ctrlView))
  /\ UNCHANGED <<pod, status, schedView, ctrlView, unseen, post, copy, faults, ended>>

SyncPatch ==
  /\ patch # NoPatch
  /\ Store(patch)
  /\ patch' = NoPatch
  /\ UNCHANGED <<pod, schedView, ctrlView, post, copy, queued, faults, ended>>

(* The patch fails: AddRateLimited.                                        *)
SyncFails ==
  /\ faults < MaxFaults
  /\ faults' = faults + 1
  /\ patch # NoPatch
  /\ patch' = NoPatch
  /\ queued' = TRUE
  /\ UNCHANGED <<pod, status, schedView, ctrlView, unseen, post, copy, ended>>

----------------------------------------------------------------------------
Next ==
  \/ \E p \in All :
       \/ CreatePod(p) \/ Bind(p) \/ Start(p) \/ DeletePod(p)
       \/ Finish(p, "succeeded") \/ Finish(p, "failed")
  \/ SchedulerSees \/ ControllerSees
  \/ \E p \in Pods : PostBind(p) \/ PostBindPatch(p) \/ PostBindFails(p)
  \/ Sync \/ SyncPatch \/ SyncFails

Spec == Init /\ [][Next]_vars

----------------------------------------------------------------------------
(* Properties.                                                             *)

(* Type correctness of the model's state.                                  *)
TypeOK ==
  /\ pod \in [All -> PodPhases]
  /\ unseen \subseteq {"scheduler", "controller"}
  /\ status \in Status /\ schedView \in Status /\ ctrlView \in Status
  /\ post \in [Pods -> {"none", "todo", "patch", "done"}]
  /\ copy \in [Pods -> Status]
  /\ queued \in BOOLEAN
  /\ patch = NoPatch \/ DOMAIN patch \subseteq Fields
  /\ faults \in 0 .. MaxFaults
  /\ ended \in [succeeded : SUBSET All, failed : SUBSET All]

(* The pods of the group that were bound at some time.                     *)
EverBound == {p \in Pods : post[p] # "none"}

(* PostBind never counts a pod twice, in spite of late listers, patches    *)
(* that overtake each other and the controller's own patches: the number   *)
(* in the status is at most the number of pods that were bound.            *)
CountHonest == status.scheduled <= Cardinality(EverBound)

(* A phase is never ahead of the pods: Scheduled and Running need          *)
(* minMember bound pods, Finished as many that succeeded, Failed one that  *)
(* failed, whoever wrote the phase and from whatever old state.            *)
PhaseHonest ==
  /\ status.phase \in {"Scheduled", "Running"} => Cardinality(EverBound) >= MinMember
  /\ status.phase = "Finished" => Cardinality(ended.succeeded \cap Pods) >= MinMember
  /\ status.phase = "Failed" => ended.failed \cap Pods # {}

(* Nothing is under way: both listers are current, every PostBind is done  *)
(* and the controller has nothing to do.                                   *)
Settled ==
  /\ unseen = {} /\ ~queued /\ patch = NoPatch
  /\ \A p \in Pods : post[p] \in {"none", "done"}

(* Once all pods have succeeded and nothing is under way, the group is     *)
(* Finished: no late patch of PostBind, failed patch or event that found   *)
(* the group already queued keeps it from it.                              *)
SettledFinished ==
  Settled /\ (\A p \in Pods : pod[p] = "succeeded") =>
    (Cardinality(Pods) >= MinMember => status.phase = "Finished")
=============================================================================
