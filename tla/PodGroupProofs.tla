--------------------------- MODULE PodGroupProofs ---------------------------
(***************************************************************************)
(* Proofs about the status of a PodGroup: the number of scheduled pods and *)
(* the phase are never ahead of the pods, and when all pods have succeeded *)
(* the group does not rest before it is Finished.                          *)
(*                                                                         *)
(* The count needs no assumption.  The phase does: the controller counts   *)
(* the pods of all namespaces that carry the label, so that what it writes *)
(* is true of the group only if no other namespace has such pods.          *)
(***************************************************************************)
EXTENDS PodGroup, FiniteSetTheorems, TLAPS

----------------------------------------------------------------------------
(* Merge patches.                                                          *)

IsPatch(q) ==
  /\ DOMAIN q \subseteq Fields
  /\ "phase" \in DOMAIN q => q["phase"] \in GroupPhases
  /\ \A f \in Counts \cap DOMAIN q : q[f] \in Nat

(* A merge patch is no NoPatch, and has the fields that differ.            *)
LEMMA MergePatchType ==
  ASSUME NEW old \in Status, NEW new \in Status, NEW q, q = MergePatch(old, new)
  PROVE  /\ IsPatch(q) /\ q # NoPatch
         /\ DOMAIN q = {f \in Fields : old[f] # new[f]}
<1>1. /\ DOMAIN q = {f \in Fields : old[f] # new[f]}
      /\ \A f \in DOMAIN q : q[f] = new[f]
  BY DEF MergePatch
<1>2. new["phase"] \in GroupPhases /\ \A f \in Counts : new[f] \in Nat
  BY DEF Status, Counts
<1>3. IsPatch(q)
  BY <1>1, <1>2 DEF IsPatch
<1>4. "none" \notin DOMAIN q
  BY <1>1 DEF Fields, Counts
<1> QED
  BY <1>1, <1>3, <1>4 DEF NoPatch

(* What the API server makes of a patch.                                   *)
LEMMA ApplyType ==
  ASSUME NEW st \in Status, NEW q, IsPatch(q), NEW new, new = Apply(st, q)
  PROVE  /\ new \in Status
         /\ new.phase = IF "phase" \in DOMAIN q THEN q["phase"] ELSE st.phase
         /\ new.scheduled = IF "scheduled" \in DOMAIN q THEN q["scheduled"] ELSE st.scheduled
<1> DEFINE field(f) == IF f \in DOMAIN q THEN q[f] ELSE st[f]
<1>1. new = [phase |-> field("phase"), scheduled |-> field("scheduled"),
             running |-> field("running"), succeeded |-> field("succeeded"),
             failed |-> field("failed")]
  BY DEF Apply
<1>2. st["phase"] \in GroupPhases /\ \A f \in Counts : st[f] \in Nat
  BY DEF Status, Counts
<1>3. field("phase") \in GroupPhases /\ \A f \in Counts : field(f) \in Nat
  BY <1>2 DEF IsPatch
<1>4. /\ field("scheduled") \in Nat /\ field("running") \in Nat
      /\ field("succeeded") \in Nat /\ field("failed") \in Nat
  BY <1>3 DEF Counts
<1>5. new \in Status
  BY <1>1, <1>3, <1>4 DEF Status
<1> QED
  BY <1>1, <1>5

(* PostBind counts one pod.                                                *)
LEMMA CountedType ==
  ASSUME NEW st \in Status, NEW new, new = Counted(st)
  PROVE  /\ new \in Status /\ new.scheduled = st.scheduled + 1
         /\ new.phase = IF new.scheduled >= MinMember THEN "Scheduled" ELSE "Scheduling"
<1>1. new = [phase |-> IF st.scheduled + 1 >= MinMember THEN "Scheduled" ELSE "Scheduling",
             scheduled |-> st.scheduled + 1, running |-> st.running,
             succeeded |-> st.succeeded, failed |-> st.failed]
  BY DEF Counted, Status
<1>2. /\ st.scheduled + 1 \in Nat
      /\ st.running \in Nat /\ st.succeeded \in Nat /\ st.failed \in Nat
  BY DEF Status
<1>3. (IF st.scheduled + 1 >= MinMember THEN "Scheduled" ELSE "Scheduling") \in GroupPhases
  BY DEF GroupPhases
<1>4. new \in Status
  BY <1>1, <1>2, <1>3 DEF Status
<1> QED
  BY <1>1, <1>4

(* The controller counts pods.                                             *)
LEMMA InType ==
  ASSUME NEW ph
  PROVE  In(ph) \in Nat
<1>1. IsFiniteSet(All)
  BY PodGroupAssumption, FS_Union DEF All
<1>2. IsFiniteSet({p \in All : pod[p] = ph})
  BY <1>1, FS_Subset
<1> QED
  BY <1>2, FS_CardinalityType DEF In

(* The phase that follows from the counts is a phase.                      *)
LEMMA PhaseOfType ==
  ASSUME NEW st, st.phase \in GroupPhases
  PROVE  PhaseOf(st) \in GroupPhases
<1> DEFINE ph1 == IF st.scheduled >= MinMember /\ st.phase = "Scheduling"
                    THEN "Scheduled" ELSE st.phase
           ph2 == IF st.succeeded + st.running >= MinMember /\ ph1 = "Scheduled"
                    THEN "Running" ELSE ph1
           ph3 == IF st.failed # 0 /\ st.failed + st.running + st.succeeded >= MinMember
                    THEN "Failed" ELSE ph2
<1>1. ph1 \in GroupPhases
  BY DEF GroupPhases
<1>2. PhaseOf(st) = IF st.succeeded >= MinMember THEN "Finished" ELSE ph3
  BY DEF PhaseOf
<1> HIDE DEF ph1
<1>3. ph2 \in GroupPhases
  BY <1>1 DEF GroupPhases
<1> HIDE DEF ph2
<1>4. ph3 \in GroupPhases
  BY <1>3 DEF GroupPhases
<1> HIDE DEF ph3
<1> QED
  BY <1>2, <1>4 DEF GroupPhases

(* The controller leaves the count of PostBind alone.                      *)
LEMMA SyncedType ==
  ASSUME NEW st \in Status
  PROVE  /\ Synced(st) \in Status /\ Synced(st).scheduled = st.scheduled
<1> DEFINE r == In("running")
           s == In("succeeded")
           f == In("failed")
<1>1. r \in Nat /\ s \in Nat /\ f \in Nat
  BY InType
<1>2. /\ st.scheduled \in Nat /\ st.running \in Nat /\ st.succeeded \in Nat /\ st.failed \in Nat
      /\ st.phase \in GroupPhases
      /\ st = [phase |-> st.phase, scheduled |-> st.scheduled, running |-> st.running,
               succeeded |-> st.succeeded, failed |-> st.failed]
  BY DEF Status
<1>3. CASE st.phase = ""
  BY <1>2, <1>3 DEF Synced, Status, GroupPhases
<1>4. CASE st.phase = "Pending"
  BY <1>2, <1>4 DEF Synced, Status, GroupPhases
<1>5. CASE st.phase \notin {"", "Pending"}
  <2> HIDE DEF r, s, f
  <2> DEFINE wc == WithCounts(st)
  <2>1. wc = [phase |-> st.phase, scheduled |-> st.scheduled, running |-> r,
              succeeded |-> s, failed |-> f]
    <3>1. wc = [st EXCEPT !.running = r, !.succeeded = s, !.failed = f]
      BY DEF WithCounts, r, s, f
    <3> HIDE DEF wc
    <3> QED
      BY <1>2, <3>1
  <2>2. PhaseOf(wc) \in GroupPhases
    <3>1. wc.phase \in GroupPhases
      BY <1>2, <2>1
    <3> QED
      BY <3>1, PhaseOfType
  <2>3. Synced(st) = [wc EXCEPT !.phase = IF Listed = {} THEN "Pending" ELSE PhaseOf(wc)]
    BY <1>5 DEF Synced
  <2> HIDE DEF wc
  <2>4. Synced(st) = [phase |-> IF Listed = {} THEN "Pending" ELSE PhaseOf(wc),
                      scheduled |-> st.scheduled, running |-> r, succeeded |-> s, failed |-> f]
    BY <2>1, <2>3
  <2>5. (IF Listed = {} THEN "Pending" ELSE PhaseOf(wc)) \in GroupPhases
    BY <2>2 DEF GroupPhases
  <2> QED
    BY <1>1, <1>2, <2>4, <2>5 DEF Status
<1> QED
  BY <1>3, <1>4, <1>5

----------------------------------------------------------------------------
(* The inductive invariants.                                               *)

Done == {p \in Pods : post[p] = "done"}

(* The patch of the controller is one, and has no count of PostBind.       *)
PatchOK == patch # NoPatch => IsPatch(patch) /\ "scheduled" \notin DOMAIN patch

(* No status, stored, seen or about to be stored, counts more pods than    *)
(* have been through PostBind: a pod counts itself once, on top of a count *)
(* that does not have it.                                                  *)
CountBehind ==
  /\ status.scheduled <= Cardinality(Done)
  /\ schedView.scheduled <= Cardinality(Done)
  /\ ctrlView.scheduled <= Cardinality(Done)
  /\ \A p \in Pods : post[p] = "patch" => copy[p].scheduled <= Cardinality(Done) + 1

(* PostBind of a pod comes after its binding.                              *)
BoundFirst == \A p \in Pods : pod[p] \in {"absent", "pending"} => post[p] = "none"

CInv == TypeOK /\ PatchOK /\ BoundFirst /\ CountBehind

(* A phase is true of the pods that were bound, succeeded and failed.      *)
Honest(ph, bound, succeeded, failed) ==
  /\ ph \in {"Scheduled", "Running"} => Cardinality(bound) >= MinMember
  /\ ph = "Finished" => Cardinality(succeeded) >= MinMember
  /\ ph = "Failed" => failed # {}

HonestNow(ph) == Honest(ph, EverBound, ended.succeeded \cap Pods, ended.failed \cap Pods)

(* So are all phases, stored, seen or about to be stored.                  *)
PhasesHonest ==
  /\ HonestNow(status.phase) /\ HonestNow(schedView.phase) /\ HonestNow(ctrlView.phase)
  /\ \A p \in Pods : post[p] = "patch" => HonestNow(copy[p].phase)
  /\ patch # NoPatch /\ "phase" \in DOMAIN patch => HonestNow(patch["phase"])

(* The history is that of the pods.                                        *)
HistoryOK ==
  \A p \in Pods :
    /\ pod[p] = "succeeded" => p \in ended.succeeded
    /\ pod[p] = "failed" => p \in ended.failed
    /\ p \in ended.failed => pod[p] \in {"failed", "deleted"}

(* The lister of the controller is late only while an event is on its way. *)
ViewLate == ctrlView = status \/ "controller" \in unseen

(* All pods have succeeded, and they are enough.                           *)
AllDone == (\A p \in Pods : pod[p] = "succeeded") /\ Cardinality(Pods) >= MinMember

(* Then the group is Finished, or something is under way that will look at *)
(* it again: an event, an entry of the queue, or a patch that changes the  *)
(* phase and so causes an event.                                           *)
NotAtRest ==
  AllDone =>
    \/ status.phase = "Finished"
    \/ "controller" \in unseen
    \/ queued
    \/ patch # NoPatch /\ "phase" \in DOMAIN patch /\ patch["phase"] # status.phase

HInv == CInv /\ PhasesHonest /\ HistoryOK /\ ViewLate /\ NotAtRest

----------------------------------------------------------------------------
(* The count.                                                              *)

(* The pods that are done are a finite set.                                *)
LEMMA DoneFinite == IsFiniteSet(Done) /\ Cardinality(Done) \in Nat
<1>1. IsFiniteSet(Done)
  BY PodGroupAssumption, FS_Subset DEF Done
<1> QED
  BY <1>1, FS_CardinalityType

(* One more pod is done with PostBind.                                     *)
LEMMA OneMoreDone ==
  ASSUME TypeOK, NEW p \in Pods, post[p] # "done", post' = [post EXCEPT ![p] = "done"]
  PROVE  Cardinality(Done') = Cardinality(Done) + 1
<1>1. Done' = Done \cup {p} /\ p \notin Done
  BY DEF TypeOK, Done
<1> QED
  BY <1>1, DoneFinite, FS_AddElement

(* No pod is done with it by a step that says so of none.                  *)
LEMMA SameDone ==
  ASSUME TypeOK, \A p \in Pods : post'[p] = "done" <=> post[p] = "done"
  PROVE  Done' = Done
BY DEF Done

(* What users, scheduler and kubelet do.                                   *)
LEMMA PodsCount ==
  ASSUME CInv, NEW p \in All,
         \/ CreatePod(p) \/ Bind(p) \/ Start(p) \/ DeletePod(p)
         \/ Finish(p, "succeeded") \/ Finish(p, "failed")
  PROVE  CInv'
<1>1. /\ UNCHANGED <<status, schedView, ctrlView, unseen, copy, patch>>
      /\ post' = post \/ (p \in Pods /\ post' = [post EXCEPT ![p] = "todo"])
  BY DEF CreatePod, Bind, Start, DeletePod, Finish
<1>2. pod' \in [All -> PodPhases] /\ faults' \in 0 .. MaxFaults
  BY PodGroupAssumption
  DEF CInv, TypeOK, CreatePod, Bind, Start, DeletePod, Finish, PodPhases
<1>3. queued' \in BOOLEAN
  <2>1. queued \in BOOLEAN
    BY DEF CInv, TypeOK
  <2>2. queued' = queued \/ PodEvent(p)
    BY DEF CreatePod, Bind, Start, DeletePod, Finish
  <2> QED
    BY <2>1, <2>2, Zenon DEF PodEvent, Enqueue
<1>4. ended' \in [succeeded : SUBSET All, failed : SUBSET All]
  BY DEF CInv, TypeOK, CreatePod, Bind, Start, DeletePod, Finish
<1>5. TypeOK'
  BY <1>1, <1>2, <1>3, <1>4 DEF CInv, TypeOK
<1>6. PatchOK'
  BY <1>1 DEF CInv, PatchOK
<1>7. CountBehind'
  <2>1. Done' = Done
    <3>1. \A q \in Pods : post'[q] = "done" <=> post[q] = "done"
      <4>1. CASE Bind(p)
        BY <1>1, <4>1 DEF CInv, BoundFirst, TypeOK, Bind
      <4>2. CASE ~Bind(p)
        BY <4>2 DEF CreatePod, Start, DeletePod, Finish
      <4> QED
        BY <4>1, <4>2
    <3> QED
      BY <3>1, SameDone DEF CInv
  <2>2. \A q \in Pods : post'[q] = "patch" => post[q] = "patch"
    BY <1>1 DEF CInv, TypeOK
  <2> QED
    BY <1>1, <2>1, <2>2 DEF CInv, CountBehind
<1>8. BoundFirst'
  BY DEF CInv, TypeOK, BoundFirst, CreatePod, Bind, Start, DeletePod, Finish, All
<1> QED
  BY <1>5, <1>6, <1>7, <1>8 DEF CInv

(* The informers deliver.                                                  *)
LEMMA SeesCount ==
  ASSUME CInv, SchedulerSees \/ ControllerSees
  PROVE  CInv'
<1>1. /\ UNCHANGED <<pod, status, post, copy, patch, faults, ended>>
      /\ schedView' \in {schedView, status} /\ ctrlView' \in {ctrlView, status}
      /\ unseen' \subseteq unseen
  BY DEF SchedulerSees, ControllerSees
<1>2. queued' \in BOOLEAN
  <2>1. queued \in BOOLEAN
    BY DEF CInv, TypeOK
  <2> QED
    BY <2>1, Zenon DEF SchedulerSees, ControllerSees, Enqueue
<1>3. TypeOK'
  BY <1>1, <1>2 DEF CInv, TypeOK
<1>4. PatchOK' /\ BoundFirst'
  BY <1>1 DEF CInv, PatchOK, BoundFirst
<1>5. CountBehind'
  BY <1>1 DEF CInv, CountBehind, Done
<1> QED
  BY <1>3, <1>4, <1>5 DEF CInv

(* A patch that is stored.                                                 *)
LEMMA StoreType ==
  ASSUME TypeOK, NEW q, IsPatch(q), Store(q)
  PROVE  /\ status' \in Status /\ unseen' \subseteq {"scheduler", "controller"}
         /\ unseen \subseteq unseen'
         /\ status' # status => "controller" \in unseen'
         /\ status'.phase = IF "phase" \in DOMAIN q THEN q["phase"] ELSE status.phase
         /\ status'.scheduled = IF "scheduled" \in DOMAIN q THEN q["scheduled"]
                                                           ELSE status.scheduled
<1>1. status \in Status /\ status' = Apply(status, q)
  BY DEF TypeOK, Store
<1>2. /\ status' \in Status
      /\ status'.phase = IF "phase" \in DOMAIN q THEN q["phase"] ELSE status.phase
      /\ status'.scheduled = IF "scheduled" \in DOMAIN q THEN q["scheduled"]
                                                        ELSE status.scheduled
  BY <1>1, ApplyType
<1>3. unseen' = IF status' = status THEN unseen ELSE {"scheduler", "controller"}
  BY <1>1 DEF Store
<1> QED
  BY <1>2, <1>3 DEF TypeOK

(* PostBind.                                                               *)
LEMMA PostBindCount ==
  ASSUME CInv, NEW p \in Pods, PostBind(p) \/ PostBindPatch(p) \/ PostBindFails(p)
  PROVE  CInv'
<1>1. post \in [Pods -> {"none", "todo", "patch", "done"}] /\ copy \in [Pods -> Status]
  BY DEF CInv, TypeOK
<1>2. Cardinality(Done) \in Nat
  BY DoneFinite
<1>3. NewStatus \in Status
  BY DEF NewStatus, Status, GroupPhases
<1>4. CASE PostBind(p) /\ Counted(schedView).phase # schedView.phase
  <2>1. /\ post[p] = "todo" /\ post' = [post EXCEPT ![p] = "patch"]
        /\ copy' = [copy EXCEPT ![p] = Counted(schedView)]
        /\ UNCHANGED <<pod, status, schedView, ctrlView, unseen, queued, patch, faults, ended>>
    BY <1>4 DEF PostBind
  <2>2. Counted(schedView) \in Status /\ Counted(schedView).scheduled = schedView.scheduled + 1
    BY CountedType DEF CInv, TypeOK
  <2>3. TypeOK' /\ PatchOK' /\ BoundFirst'
    BY <1>1, <2>1, <2>2 DEF CInv, TypeOK, PatchOK, BoundFirst
  <2>4. Done' = Done
    BY <1>1, <2>1 DEF Done
  <2>5. \A q \in Pods : post'[q] = "patch" => copy'[q].scheduled <= Cardinality(Done) + 1
    <3> TAKE q \in Pods
    <3>1. CASE q = p
      <4>1. copy'[q].scheduled = schedView.scheduled + 1 /\ schedView.scheduled \in Nat
        BY <1>1, <2>1, <2>2, <3>1 DEF CInv, TypeOK, Status
      <4>2. schedView.scheduled <= Cardinality(Done)
        BY DEF CInv, CountBehind
      <4> QED
        BY <1>2, <4>1, <4>2
    <3>2. CASE q # p
      BY <1>1, <2>1, <3>2 DEF CInv, CountBehind
    <3> QED
      BY <3>1, <3>2
  <2>6. CountBehind'
    BY <2>1, <2>4, <2>5 DEF CInv, CountBehind
  <2> QED
    BY <2>3, <2>6 DEF CInv
<1>5. CASE (PostBind(p) /\ Counted(schedView).phase = schedView.phase) \/ PostBindFails(p)
  <2>1. /\ post[p] \in {"todo", "patch"} /\ post' = [post EXCEPT ![p] = "done"]
        /\ copy' = copy \/ copy' = [copy EXCEPT ![p] = NewStatus]
        /\ faults' \in 0 .. MaxFaults
        /\ UNCHANGED <<pod, status, schedView, ctrlView, unseen, queued, patch, ended>>
    BY <1>5, PodGroupAssumption DEF PostBind, PostBindFails, CInv, TypeOK
  <2>2. TypeOK' /\ PatchOK' /\ BoundFirst'
    BY <1>1, <1>3, <2>1 DEF CInv, TypeOK, PatchOK, BoundFirst
  <2>3. Cardinality(Done') = Cardinality(Done) + 1
    BY <2>1, OneMoreDone DEF CInv
  <2>4. \A q \in Pods : post'[q] = "patch" => post[q] = "patch" /\ copy'[q] = copy[q]
    BY <1>1, <2>1
  <2>5. /\ status.scheduled \in Nat /\ schedView.scheduled \in Nat /\ ctrlView.scheduled \in Nat
        /\ \A q \in Pods : copy[q].scheduled \in Nat
    BY DEF CInv, TypeOK, Status
  <2>6. CountBehind'
    BY <1>2, <2>1, <2>3, <2>4, <2>5 DEF CInv, CountBehind
  <2> QED
    BY <2>2, <2>6 DEF CInv
<1>6. CASE PostBindPatch(p)
  <2>0. PICK q, new : new = copy[p] /\ q = MergePatch(schedView, new)
    OBVIOUS
  <2>1. /\ post[p] = "patch" /\ post' = [post EXCEPT ![p] = "done"]
        /\ copy' = [copy EXCEPT ![p] = NewStatus] /\ Store(q)
        /\ UNCHANGED <<pod, schedView, ctrlView, queued, patch, faults, ended>>
    BY <1>6, <2>0 DEF PostBindPatch
  <2>2. /\ IsPatch(q)
        /\ "scheduled" \in DOMAIN q => q["scheduled"] = copy[p].scheduled
    <3>1. schedView \in Status /\ new \in Status
      BY <1>1, <2>0 DEF CInv, TypeOK
    <3>2. IsPatch(q)
      BY <2>0, <3>1, MergePatchType
    <3>3. \A f \in DOMAIN q : q[f] = new[f]
      BY <2>0 DEF MergePatch
    <3> QED
      BY <2>0, <3>2, <3>3
  <2>3. /\ status' \in Status /\ unseen' \subseteq {"scheduler", "controller"}
        /\ status'.scheduled = IF "scheduled" \in DOMAIN q THEN q["scheduled"]
                                                          ELSE status.scheduled
    BY <2>1, <2>2, StoreType DEF CInv
  <2>4. TypeOK' /\ PatchOK' /\ BoundFirst'
    BY <1>1, <1>3, <2>1, <2>3 DEF CInv, TypeOK, PatchOK, BoundFirst
  <2>5. Cardinality(Done') = Cardinality(Done) + 1
    BY <2>1, OneMoreDone DEF CInv
  <2>6. \A r \in Pods : post'[r] = "patch" => post[r] = "patch" /\ copy'[r] = copy[r]
    BY <1>1, <2>1
  <2>7. /\ status.scheduled \in Nat /\ schedView.scheduled \in Nat /\ ctrlView.scheduled \in Nat
        /\ \A r \in Pods : copy[r].scheduled \in Nat
    BY DEF CInv, TypeOK, Status
  <2>8. status'.scheduled <= Cardinality(Done) + 1
    BY <1>2, <2>1, <2>2, <2>3, <2>7 DEF CInv, CountBehind
  <2>9. CountBehind'
    BY <1>2, <2>1, <2>5, <2>6, <2>7, <2>8 DEF CInv, CountBehind
  <2> QED
    BY <2>4, <2>9 DEF CInv
<1> QED
  BY <1>4, <1>5, <1>6 DEF PostBind

(* The controller.                                                         *)
LEMMA SyncCount ==
  ASSUME CInv, Sync \/ SyncPatch \/ SyncFails
  PROVE  CInv'
<1>1. CASE Sync
  <2>1. /\ patch' = MergePatch(ctrlView, Synced(ctrlView)) /\ queued' = FALSE
        /\ UNCHANGED <<pod, status, schedView, ctrlView, unseen, post, copy, faults, ended>>
    BY <1>1 DEF Sync
  <2>2. ctrlView \in Status /\ Synced(ctrlView) \in Status
        /\ Synced(ctrlView).scheduled = ctrlView.scheduled
    BY SyncedType DEF CInv, TypeOK
  <2>3. IsPatch(patch') /\ "scheduled" \notin DOMAIN patch'
    <3> DEFINE new == Synced(ctrlView)
    <3>1. ctrlView \in Status /\ new \in Status /\ new["scheduled"] = ctrlView["scheduled"]
          /\ patch' = MergePatch(ctrlView, new)
      BY <2>1, <2>2
    <3> HIDE DEF new
    <3>2. IsPatch(patch') /\ DOMAIN patch' = {f \in Fields : ctrlView[f] # new[f]}
      BY <3>1, MergePatchType
    <3> QED
      BY <3>1, <3>2
  <2>4. TypeOK' /\ PatchOK' /\ BoundFirst'
    BY <2>1, <2>3 DEF CInv, TypeOK, PatchOK, BoundFirst, IsPatch
  <2>5. CountBehind'
    BY <2>1 DEF CInv, CountBehind, Done
  <2> QED
    BY <2>4, <2>5 DEF CInv
<1>2. CASE SyncPatch
  <2>1. /\ patch # NoPatch /\ Store(patch) /\ patch' = NoPatch
        /\ UNCHANGED <<pod, schedView, ctrlView, post, copy, queued, faults, ended>>
    BY <1>2 DEF SyncPatch
  <2>2. IsPatch(patch) /\ "scheduled" \notin DOMAIN patch
    BY <2>1 DEF CInv, PatchOK
  <2>3. /\ status' \in Status /\ unseen' \subseteq {"scheduler", "controller"}
        /\ status'.scheduled = status.scheduled
    BY <2>1, <2>2, StoreType DEF CInv
  <2>4. TypeOK' /\ PatchOK' /\ BoundFirst'
    BY <2>1, <2>3 DEF CInv, TypeOK, PatchOK, BoundFirst
  <2>5. CountBehind'
    BY <2>1, <2>3 DEF CInv, CountBehind, Done
  <2> QED
    BY <2>4, <2>5 DEF CInv
<1>3. CASE SyncFails
  <2>1. /\ patch' = NoPatch /\ queued' = TRUE /\ faults' \in 0 .. MaxFaults
        /\ UNCHANGED <<pod, status, schedView, ctrlView, unseen, post, copy, ended>>
    BY <1>3, PodGroupAssumption DEF SyncFails, CInv, TypeOK
  <2>2. TypeOK' /\ PatchOK' /\ BoundFirst'
    BY <2>1 DEF CInv, TypeOK, PatchOK, BoundFirst
  <2>3. CountBehind'
    BY <2>1 DEF CInv, CountBehind, Done
  <2> QED
    BY <2>2, <2>3 DEF CInv
<1> QED
  BY <1>1, <1>2, <1>3

(* The invariant of the count, for any group and any pods elsewhere.       *)
THEOREM CountInvariant == Spec => []CInv
<1>1. Init => CInv
  <2> SUFFICES ASSUME Init PROVE CInv
    OBVIOUS
  <2>1. NewStatus \in Status
    BY DEF NewStatus, Status, GroupPhases
  <2>2. TypeOK
    BY <2>1, PodGroupAssumption DEF Init, TypeOK, PodPhases
  <2>3. PatchOK /\ BoundFirst
    BY DEF Init, PatchOK, BoundFirst
  <2>4. CountBehind
    <3>1. /\ status.scheduled = 0 /\ schedView.scheduled = 0 /\ ctrlView.scheduled = 0
          /\ \A p \in Pods : post[p] # "patch"
      BY DEF Init, NewStatus
    <3> QED
      BY <3>1, DoneFinite DEF CountBehind
  <2> QED
    BY <2>2, <2>3, <2>4 DEF CInv
<1>2. CInv /\ [Next]_vars => CInv'
  <2> SUFFICES ASSUME CInv, [Next]_vars PROVE CInv'
    OBVIOUS
  <2>1. CASE UNCHANGED vars
    BY <2>1 DEF vars, CInv, TypeOK, PatchOK, BoundFirst, CountBehind, Done
  <2> QED
    BY <2>1, PodsCount, SeesCount, PostBindCount, SyncCount DEF Next
<1> QED
  BY <1>1, <1>2, PTL DEF Spec

(* The types of the state.                                                 *)
THEOREM TypeCorrect == Spec => []TypeOK
<1>1. CInv => TypeOK
  BY DEF CInv
<1> QED
  BY <1>1, CountInvariant, PTL

(* The status never counts more pods as scheduled than were bound, in any  *)
(* order of the patches of PostBind and of the controller and with any     *)
(* delay of the listers.                                                   *)
THEOREM CountsHonest == Spec => []CountHonest
<1>1. CInv => CountHonest
  <2> SUFFICES ASSUME CInv PROVE CountHonest
    OBVIOUS
  <2>1. Done \subseteq EverBound /\ IsFiniteSet(EverBound)
    BY PodGroupAssumption, FS_Subset DEF Done, EverBound
  <2>2. Cardinality(Done) <= Cardinality(EverBound) /\ Cardinality(EverBound) \in Nat
    BY <2>1, FS_Subset, FS_CardinalityType
  <2>3. status.scheduled \in Nat /\ status.scheduled <= Cardinality(Done)
    BY DEF CInv, CountBehind, TypeOK, Status
  <2> QED
    BY <2>2, <2>3, DoneFinite DEF CountHonest
<1> QED
  BY <1>1, CountInvariant, PTL

----------------------------------------------------------------------------
(* The phase, of a group whose label no other namespace uses.              *)

(* What is true of some pods is true of more.                              *)
LEMMA HonestMore ==
  ASSUME NEW ph, NEW b2 \in SUBSET Pods, NEW b1 \in SUBSET b2,
         NEW s2 \in SUBSET Pods, NEW s1 \in SUBSET s2, NEW f2, NEW f1 \in SUBSET f2,
         Honest(ph, b1, s1, f1)
  PROVE  Honest(ph, b2, s2, f2)
<1>1. IsFiniteSet(b2) /\ IsFiniteSet(s2)
  BY PodGroupAssumption, FS_Subset
<1>2. Cardinality(b1) <= Cardinality(b2) /\ Cardinality(s1) <= Cardinality(s2)
  BY <1>1, FS_Subset
<1>3. /\ Cardinality(b1) \in Nat /\ Cardinality(b2) \in Nat
      /\ Cardinality(s1) \in Nat /\ Cardinality(s2) \in Nat
  BY <1>1, FS_Subset, FS_CardinalityType
<1> QED
  BY <1>2, <1>3, PodGroupAssumption DEF Honest

(* A step keeps the phases true if it forgets no pod.                      *)
LEMMA HonestStays ==
  ASSUME EverBound \subseteq EverBound',
         ended.succeeded \subseteq ended'.succeeded, ended.failed \subseteq ended'.failed
  PROVE  \A ph \in GroupPhases :
           HonestNow(ph) =>
             Honest(ph, EverBound', ended'.succeeded \cap Pods, ended'.failed \cap Pods)
<1> DEFINE b1 == EverBound
           b2 == EverBound'
           s1 == ended.succeeded \cap Pods
           s2 == ended'.succeeded \cap Pods
           f1 == ended.failed \cap Pods
           f2 == ended'.failed \cap Pods
<1>1. /\ b2 \in SUBSET Pods /\ b1 \in SUBSET b2 /\ s2 \in SUBSET Pods /\ s1 \in SUBSET s2
      /\ f1 \in SUBSET f2
  BY DEF EverBound
<1>2. ASSUME NEW ph \in GroupPhases, HonestNow(ph)
      PROVE  Honest(ph, b2, s2, f2)
  <2>1. Honest(ph, b1, s1, f1)
    BY <1>2 DEF HonestNow
  <2> HIDE DEF b1, b2, s1, s2, f1, f2
  <2> QED
    BY <1>1, <2>1, HonestMore
<1> QED
  BY <1>2

(* When all pods have succeeded no phase is Failed.                        *)
LEMMA NoneFailed ==
  ASSUME HInv, AllDone
  PROVE  status.phase # "Failed" /\ ctrlView.phase # "Failed"
<1>1. ended.failed \cap Pods = {}
  BY DEF HInv, HistoryOK, AllDone
<1> QED
  BY <1>1 DEF HInv, PhasesHonest, HonestNow, Honest

(* A pod that is not done with PostBind is bound and not yet counted.      *)
LEMMA BoundCounts ==
  ASSUME CInv
  PROVE  /\ IsFiniteSet(EverBound) /\ Cardinality(EverBound) \in Nat
         /\ Cardinality(Done) <= Cardinality(EverBound)
         /\ \A p \in EverBound \ Done : Cardinality(Done) + 1 <= Cardinality(EverBound)
<1>1. Done \subseteq EverBound /\ IsFiniteSet(EverBound)
  BY PodGroupAssumption, FS_Subset DEF Done, EverBound
<1>2. Cardinality(Done) <= Cardinality(EverBound) /\ Cardinality(EverBound) \in Nat
  BY <1>1, FS_Subset, FS_CardinalityType
<1>3. ASSUME NEW p \in EverBound \ Done
      PROVE  Cardinality(Done) + 1 <= Cardinality(EverBound)
  <2>1. Done \cup {p} \subseteq EverBound /\ p \notin Done
    BY <1>1, <1>3
  <2>2. Cardinality(Done \cup {p}) = Cardinality(Done) + 1
    BY <2>1, DoneFinite, FS_AddElement
  <2>3. Cardinality(Done \cup {p}) <= Cardinality(EverBound)
    BY <1>1, <2>1, FS_Subset
  <2> QED
    BY <2>2, <2>3
<1> QED
  BY <1>1, <1>2, <1>3

(* What the controller counts is what happened, if it counts the group.    *)
LEMMA CountsTrue ==
  ASSUME HInv, Foreign = {}
  PROVE  /\ In("succeeded") <= Cardinality(ended.succeeded \cap Pods)
         /\ In("failed") # 0 => ended.failed \cap Pods # {}
<1>1. All = Pods
  BY DEF All
<1>2. {p \in All : pod[p] = "succeeded"} \subseteq ended.succeeded \cap Pods
  BY <1>1 DEF HInv, HistoryOK
<1>3. IsFiniteSet(ended.succeeded \cap Pods)
  BY PodGroupAssumption, FS_Subset
<1>4. In("succeeded") <= Cardinality(ended.succeeded \cap Pods)
  BY <1>2, <1>3, FS_Subset DEF In
<1>5. CASE In("failed") # 0
  <2>1. {p \in All : pod[p] = "failed"} # {}
    BY <1>5, FS_EmptySet DEF In
  <2>2. PICK p \in All : pod[p] = "failed"
    BY <2>1
  <2> QED
    BY <1>1, <1>4, <2>2 DEF HInv, HistoryOK
<1> QED
  BY <1>4, <1>5

(* So is the phase that follows.                                           *)
LEMMA SyncedHonest ==
  ASSUME HInv, Foreign = {}, NEW st \in Status, HonestNow(st.phase),
         st.scheduled <= Cardinality(Done)
  PROVE  HonestNow(Synced(st).phase)
<1> DEFINE b == Cardinality(EverBound)
           s == Cardinality(ended.succeeded \cap Pods)
           f == ended.failed \cap Pods
           wc == WithCounts(st)
<1>1. b \in Nat /\ st.scheduled \in Nat /\ st.scheduled <= b
  BY BoundCounts, DoneFinite DEF HInv, Status
<1>2. In("succeeded") <= s /\ (In("failed") # 0 => f # {})
  BY CountsTrue
<1>3. s \in Nat /\ In("succeeded") \in Nat
  BY InType, PodGroupAssumption, FS_Subset, FS_CardinalityType
<1>4. /\ wc.phase = st.phase /\ wc.scheduled = st.scheduled
      /\ wc.succeeded = In("succeeded") /\ wc.failed = In("failed")
  BY DEF WithCounts, Status
<1>5. Synced(st).phase \in {"Pending", "PreScheduling"} \/ Synced(st).phase = PhaseOf(wc)
  BY DEF Synced, Status, WithCounts
<1>6. /\ PhaseOf(wc) \in {"Scheduled", "Running"} =>
           st.phase \in {"Scheduled", "Running"} \/ st.scheduled >= MinMember
      /\ PhaseOf(wc) = "Finished" => st.phase = "Finished" \/ In("succeeded") >= MinMember
      /\ PhaseOf(wc) = "Failed" => st.phase = "Failed" \/ In("failed") # 0
  <2> HIDE DEF wc
  <2> QED
    BY <1>4 DEF PhaseOf
<1>7. /\ st.phase \in {"Scheduled", "Running"} => b >= MinMember
      /\ st.phase = "Finished" => s >= MinMember
      /\ st.phase = "Failed" => f # {}
  BY DEF HonestNow, Honest
<1> HIDE DEF b, s, f, wc
<1>8. /\ PhaseOf(wc) \in {"Scheduled", "Running"} => b >= MinMember
      /\ PhaseOf(wc) = "Finished" => s >= MinMember
      /\ PhaseOf(wc) = "Failed" => f # {}
  BY <1>1, <1>2, <1>3, <1>6, <1>7, PodGroupAssumption
<1>9. /\ Synced(st).phase \in {"Scheduled", "Running"} => b >= MinMember
      /\ Synced(st).phase = "Finished" => s >= MinMember
      /\ Synced(st).phase = "Failed" => f # {}
  BY <1>5, <1>8
<1> QED
  BY <1>9 DEF HonestNow, Honest, b, s, f

(* When all pods have succeeded a look at the group changes its phase,     *)
(* until it is Finished.                                                   *)
LEMMA SyncedMoves ==
  ASSUME HInv, Foreign = {}, AllDone, NEW st \in Status, Synced(st).phase = st.phase
  PROVE  st.phase = "Finished"
<1>1. All = Pods /\ \A p \in Pods : pod[p] = "succeeded"
  BY DEF All, AllDone
<1>2. Listed = Pods /\ {p \in All : pod[p] = "succeeded"} = Pods
  BY <1>1 DEF Listed
<1>3. Cardinality(Listed) >= MinMember /\ In("succeeded") >= MinMember
  BY <1>2 DEF AllDone, In
<1>4. Listed # {}
  BY <1>2, PodGroupAssumption, FS_EmptySet DEF AllDone
<1>5. st.phase # ""
  BY DEF Synced, Status
<1>6. st.phase # "Pending"
  BY <1>3 DEF Synced, Status
<1> DEFINE wc == WithCounts(st)
<1>7. wc.succeeded = In("succeeded")
  BY DEF WithCounts, Status
<1>8. Synced(st).phase = PhaseOf(wc)
  BY <1>4, <1>5, <1>6 DEF Synced, WithCounts, Status
<1> HIDE DEF wc
<1>9. PhaseOf(wc) = "Finished"
  BY <1>3, <1>7 DEF PhaseOf
<1> QED
  BY <1>8, <1>9

(* What users, scheduler and kubelet do.  The end of the last pod queues   *)
(* the group, unless the controller already sees it Finished.              *)
LEMMA PodsHonest ==
  ASSUME HInv, Foreign = {}, NEW p \in All,
         \/ CreatePod(p) \/ Bind(p) \/ Start(p) \/ DeletePod(p)
         \/ Finish(p, "succeeded") \/ Finish(p, "failed")
  PROVE  HInv'
<1>1. p \in Pods
  BY DEF All
<1>2. CInv /\ CInv'
  BY PodsCount DEF HInv
<1>3. /\ UNCHANGED <<status, schedView, ctrlView, unseen, copy, patch>>
      /\ post' = post \/ post' = [post EXCEPT ![p] = "todo"]
  BY DEF CreatePod, Bind, Start, DeletePod, Finish
<1>4. EverBound \subseteq EverBound'
  BY <1>2, <1>3 DEF CInv, TypeOK, EverBound
<1>5. ended.succeeded \subseteq ended'.succeeded /\ ended.failed \subseteq ended'.failed
  BY <1>2 DEF CInv, TypeOK, CreatePod, Bind, Start, DeletePod, Finish
<1>6. \A ph \in GroupPhases :
        HonestNow(ph) =>
          Honest(ph, EverBound', ended'.succeeded \cap Pods, ended'.failed \cap Pods)
  BY <1>4, <1>5, HonestStays
<1>7. /\ status.phase \in GroupPhases /\ schedView.phase \in GroupPhases
      /\ ctrlView.phase \in GroupPhases /\ \A q \in Pods : copy[q].phase \in GroupPhases
      /\ patch # NoPatch /\ "phase" \in DOMAIN patch => patch["phase"] \in GroupPhases
  BY <1>2 DEF CInv, TypeOK, Status, PatchOK, IsPatch
<1>8. \A q \in Pods : post'[q] = "patch" => post[q] = "patch"
  BY <1>2, <1>3 DEF CInv, TypeOK
<1>9. PhasesHonest'
  BY <1>3, <1>6, <1>7, <1>8 DEF HInv, PhasesHonest, HonestNow
<1>10. HistoryOK'
  BY <1>1, <1>2 DEF HInv, HistoryOK, CInv, TypeOK, CreatePod, Bind, Start, DeletePod, Finish, All
<1>11. ViewLate'
  BY <1>3 DEF HInv, ViewLate
<1>12. NotAtRest'
  <2> SUFFICES ASSUME AllDone'
               PROVE  status'.phase = "Finished" \/ "controller" \in unseen' \/ queued'
    BY DEF NotAtRest
  <2>1. pod'[p] = "succeeded" /\ \A q \in Pods : pod'[q] = "succeeded"
    BY <1>1 DEF AllDone
  <2>2. Finish(p, "succeeded")
    BY <1>1, <1>2, <2>1 DEF CInv, TypeOK, CreatePod, Bind, Start, DeletePod, Finish, All
  <2>3. ended'.failed \cap Pods = {}
    BY <1>10, <2>1 DEF HistoryOK
  <2>4. ctrlView.phase # "Failed"
    BY <1>3, <1>9, <2>3 DEF PhasesHonest, HonestNow, Honest
  <2>5. queued' \/ ctrlView.phase \in Final
    BY <1>1, <2>2 DEF Finish, PodEvent, Enqueue
  <2>6. CASE ctrlView.phase = "Finished"
    BY <1>3, <2>6 DEF HInv, ViewLate
  <2> QED
    BY <2>4, <2>5, <2>6 DEF Final
<1> QED
  BY <1>2, <1>9, <1>10, <1>11, <1>12 DEF HInv

(* The informers deliver, and the controller queues what is not final.     *)
LEMMA SeesHonest ==
  ASSUME HInv, SchedulerSees \/ ControllerSees
  PROVE  HInv'
<1>1. CInv'
  BY SeesCount DEF HInv
<1>2. /\ UNCHANGED <<pod, status, post, copy, patch, ended>>
      /\ schedView' \in {schedView, status} /\ ctrlView' \in {ctrlView, status}
  BY DEF SchedulerSees, ControllerSees
<1>3. PhasesHonest'
  BY <1>2 DEF HInv, PhasesHonest, HonestNow, EverBound
<1>4. HistoryOK'
  BY <1>2 DEF HInv, HistoryOK
<1>5. ViewLate'
  BY DEF HInv, ViewLate, SchedulerSees, ControllerSees
<1>6. NotAtRest'
  <2>1. CASE SchedulerSees
    BY <2>1 DEF SchedulerSees, HInv, NotAtRest, AllDone
  <2>2. CASE ControllerSees
    <3>1. AllDone' <=> AllDone
      BY <1>2 DEF AllDone
    <3>2. queued' \/ status.phase \in Final
      BY <2>2 DEF ControllerSees, Enqueue
    <3> QED
      BY <1>2, <3>1, <3>2, NoneFailed DEF NotAtRest, Final
  <2> QED
    BY <2>1, <2>2
<1> QED
  BY <1>1, <1>3, <1>4, <1>5, <1>6 DEF HInv

(* PostBind: the phase it writes follows from a count that is not ahead.   *)
LEMMA PostBindHonest ==
  ASSUME HInv, NEW p \in Pods, PostBind(p) \/ PostBindPatch(p) \/ PostBindFails(p)
  PROVE  HInv'
<1>1. CInv /\ CInv'
  BY PostBindCount DEF HInv
<1>2. /\ UNCHANGED <<pod, schedView, ctrlView, queued, patch, ended>>
      /\ post[p] \in {"todo", "patch"}
      /\ post' = [post EXCEPT ![p] = "done"] \/ post' = [post EXCEPT ![p] = "patch"]
  BY DEF PostBind, PostBindPatch, PostBindFails
<1>3. EverBound' = EverBound
  BY <1>1, <1>2 DEF CInv, TypeOK, EverBound
<1>4. /\ HonestNow(status'.phase)
      /\ unseen \subseteq unseen' /\ (status' # status => "controller" \in unseen')
  <2>1. CASE PostBindPatch(p)
    <3>0. PICK q, new : new = copy[p] /\ q = MergePatch(schedView, new)
      OBVIOUS
    <3>1. post[p] = "patch" /\ Store(q)
      BY <2>1, <3>0 DEF PostBindPatch
    <3>2. schedView \in Status /\ new \in Status
      BY <1>1, <3>0 DEF CInv, TypeOK
    <3>3. IsPatch(q)
      BY <3>0, <3>2, MergePatchType
    <3>4. \A f \in DOMAIN q : q[f] = new[f]
      BY <3>0 DEF MergePatch
    <3>5. /\ unseen \subseteq unseen' /\ (status' # status => "controller" \in unseen')
          /\ status'.phase = IF "phase" \in DOMAIN q THEN q["phase"] ELSE status.phase
      BY <1>1, <3>1, <3>3, StoreType DEF CInv
    <3>6. HonestNow(new.phase) /\ HonestNow(status.phase)
      BY <3>0, <3>1 DEF HInv, PhasesHonest
    <3>7. status'.phase \in {new.phase, status.phase}
      BY <3>4, <3>5
    <3> QED
      BY <3>5, <3>6, <3>7
  <2>2. CASE ~PostBindPatch(p)
    BY <2>2 DEF PostBind, PostBindFails, HInv, PhasesHonest
  <2> QED
    BY <2>1, <2>2
<1>5. \A q \in Pods : post'[q] = "patch" => HonestNow(copy'[q].phase)
  <2>1. CASE PostBind(p) /\ post' = [post EXCEPT ![p] = "patch"]
    <3> DEFINE new == Counted(schedView)
    <3>1. post[p] = "todo" /\ copy' = [copy EXCEPT ![p] = new]
      BY <1>1, <2>1 DEF PostBind, CInv, TypeOK
    <3>2. /\ new.scheduled = schedView.scheduled + 1
          /\ new.phase = IF new.scheduled >= MinMember THEN "Scheduled" ELSE "Scheduling"
      BY <1>1, CountedType DEF CInv, TypeOK
    <3>3. schedView.scheduled \in Nat /\ schedView.scheduled <= Cardinality(Done)
      BY <1>1 DEF CInv, CountBehind, TypeOK, Status
    <3>4. Cardinality(Done) + 1 <= Cardinality(EverBound) /\ Cardinality(EverBound) \in Nat
      <4>1. p \in EverBound \ Done
        BY <3>1 DEF EverBound, Done
      <4> QED
        BY <1>1, <4>1, BoundCounts
    <3> HIDE DEF new
    <3>5. new.phase \in {"Scheduled", "Running"} => Cardinality(EverBound) >= MinMember
      BY <3>2, <3>3, <3>4, DoneFinite, PodGroupAssumption
    <3>6. HonestNow(new.phase)
      BY <3>2, <3>5 DEF HonestNow, Honest
    <3> QED
      BY <1>1, <2>1, <3>1, <3>6 DEF HInv, PhasesHonest, CInv, TypeOK
  <2>2. CASE post' = [post EXCEPT ![p] = "done"]
    <3>1. copy' = copy \/ copy' = [copy EXCEPT ![p] = NewStatus]
      BY <1>1, <2>2 DEF PostBind, PostBindPatch, PostBindFails, CInv, TypeOK
    <3> QED
      BY <1>1, <2>2, <3>1 DEF HInv, PhasesHonest, CInv, TypeOK
  <2> QED
    BY <2>1, <2>2 DEF PostBind, PostBindPatch, PostBindFails
<1>6. PhasesHonest'
  BY <1>2, <1>3, <1>4, <1>5 DEF HInv, PhasesHonest, HonestNow
<1>7. HistoryOK'
  BY <1>2 DEF HInv, HistoryOK
<1>8. ViewLate'
  BY <1>2, <1>4 DEF HInv, ViewLate
<1>9. NotAtRest'
  BY <1>2, <1>4 DEF HInv, NotAtRest, AllDone
<1> QED
  BY <1>1, <1>6, <1>7, <1>8, <1>9 DEF HInv

(* The controller computes a patch: one that changes the phase, or the     *)
(* group is Finished, or another event is on its way.                      *)
LEMMA SyncHonest ==
  ASSUME HInv, Foreign = {}, Sync
  PROVE  HInv'
<1>1. CInv /\ CInv'
  BY SyncCount DEF HInv
<1>2. PICK new : new = Synced(ctrlView)
  OBVIOUS
<1>3. /\ patch' = MergePatch(ctrlView, new)
      /\ UNCHANGED <<pod, status, schedView, ctrlView, unseen, post, copy, faults, ended>>
  BY <1>2 DEF Sync
<1>4. ctrlView \in Status /\ new \in Status
  BY <1>1, <1>2, SyncedType DEF CInv, TypeOK
<1>5. DOMAIN patch' = {f \in Fields : ctrlView[f] # new[f]} /\ patch' # NoPatch
  BY <1>3, <1>4, MergePatchType
<1>6. \A f \in DOMAIN patch' : patch'[f] = new[f]
  BY <1>3 DEF MergePatch
<1>7. HonestNow(new.phase)
  BY <1>1, <1>2, <1>4, SyncedHonest DEF HInv, PhasesHonest, CInv, CountBehind
<1>8. "phase" \in DOMAIN patch' => patch'["phase"] = new.phase
  BY <1>6
<1>9. PhasesHonest'
  BY <1>3, <1>7, <1>8 DEF HInv, PhasesHonest, HonestNow, EverBound
<1>10. HistoryOK' /\ ViewLate'
  BY <1>3 DEF HInv, HistoryOK, ViewLate
<1>11. NotAtRest'
  <2> SUFFICES ASSUME AllDone, ctrlView = status, status.phase # "Finished"
               PROVE  "phase" \in DOMAIN patch' /\ patch'["phase"] # status.phase
    BY <1>3, <1>5 DEF NotAtRest, AllDone, HInv, ViewLate
  <2>1. new.phase # status.phase
    BY <1>2, <1>4, SyncedMoves
  <2> QED
    BY <1>5, <1>8, <2>1 DEF Fields
<1> QED
  BY <1>1, <1>9, <1>10, <1>11 DEF HInv

(* The patch is stored, or fails and the group is queued again.            *)
LEMMA SyncPatchHonest ==
  ASSUME HInv, SyncPatch \/ SyncFails
  PROVE  HInv'
<1>1. CInv /\ CInv'
  BY SyncCount DEF HInv
<1>2. CASE SyncPatch
  <2>1. /\ patch # NoPatch /\ Store(patch) /\ patch' = NoPatch
        /\ UNCHANGED <<pod, schedView, ctrlView, post, copy, queued, faults, ended>>
    BY <1>2 DEF SyncPatch
  <2>2. IsPatch(patch)
    BY <1>1, <2>1 DEF CInv, PatchOK
  <2>3. /\ unseen \subseteq unseen' /\ (status' # status => "controller" \in unseen')
        /\ status'.phase = IF "phase" \in DOMAIN patch THEN patch["phase"] ELSE status.phase
    BY <1>1, <2>1, <2>2, StoreType DEF CInv
  <2>4. HonestNow(status'.phase)
    BY <2>1, <2>3 DEF HInv, PhasesHonest
  <2>5. PhasesHonest'
    BY <2>1, <2>4 DEF HInv, PhasesHonest, HonestNow, EverBound
  <2>6. HistoryOK' /\ ViewLate'
    BY <2>1, <2>3 DEF HInv, HistoryOK, ViewLate
  <2>7. NotAtRest'
    BY <2>1, <2>3 DEF HInv, NotAtRest, AllDone
  <2> QED
    BY <1>1, <2>5, <2>6, <2>7 DEF HInv
<1>3. CASE SyncFails
  <2>1. /\ patch' = NoPatch /\ queued' = TRUE
        /\ UNCHANGED <<pod, status, schedView, ctrlView, unseen, post, copy, ended>>
    BY <1>3 DEF SyncFails
  <2>2. PhasesHonest' /\ HistoryOK' /\ ViewLate' /\ NotAtRest'
    BY <2>1 DEF HInv, PhasesHonest, HonestNow, EverBound, HistoryOK, ViewLate, NotAtRest
  <2> QED
    BY <1>1, <2>2 DEF HInv
<1> QED
  BY <1>2, <1>3

(* The invariant of the phase.                                             *)
THEOREM PhaseInvariant ==
  ASSUME Foreign = {}
  PROVE  Spec => []HInv
<1>1. Init /\ CInv => HInv
  <2> SUFFICES ASSUME Init, CInv PROVE HInv
    OBVIOUS
  <2>1. PhasesHonest
    BY DEF Init, PhasesHonest, HonestNow, Honest, NewStatus
  <2>2. HistoryOK /\ ViewLate /\ NotAtRest
    BY DEF Init, HistoryOK, ViewLate, NotAtRest, All
  <2> QED
    BY <2>1, <2>2 DEF HInv
<1>2. HInv /\ [Next]_vars => HInv'
  <2> SUFFICES ASSUME HInv, [Next]_vars PROVE HInv'
    OBVIOUS
  <2>1. CASE UNCHANGED vars
    BY <2>1 DEF vars, HInv, CInv, TypeOK, PatchOK, BoundFirst, CountBehind, Done, PhasesHonest,
       HonestNow, EverBound, HistoryOK, ViewLate, NotAtRest, AllDone
  <2> QED
    BY <2>1, PodsHonest, SeesHonest, PostBindHonest, SyncHonest, SyncPatchHonest DEF Next
<1> QED
  BY <1>1, <1>2, CountInvariant, PTL DEF Spec

(* The phase is never ahead of the pods, whoever wrote it and from         *)
(* whatever old state, if no other namespace has pods with the label.      *)
THEOREM PhasesTrue ==
  ASSUME Foreign = {}
  PROVE  Spec => []PhaseHonest
<1>1. HInv => PhaseHonest
  BY DEF HInv, PhasesHonest, HonestNow, Honest, PhaseHonest
<1> QED
  BY <1>1, PhaseInvariant, PTL

(* When all pods have succeeded and nothing is under way the group is      *)
(* Finished: no late patch, failed call or event that comes while the      *)
(* group is queued is lost.                                                *)
THEOREM FinishedAtRest ==
  ASSUME Foreign = {}
  PROVE  Spec => []SettledFinished
<1>1. HInv => SettledFinished
  BY DEF HInv, NotAtRest, AllDone, SettledFinished, Settled
<1> QED
  BY <1>1, PhaseInvariant, PTL
=============================================================================
