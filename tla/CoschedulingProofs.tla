------------------------- MODULE CoschedulingProofs -------------------------
(***************************************************************************)
(* Proofs about the Coscheduling plugin, for any pods, groups, capacity    *)
(* and number of faults: a pod is always in one place, no wake-up is lost, *)
(* and a group whose waits nobody cut short goes through Permit together.  *)
(***************************************************************************)
EXTENDS Coscheduling, FiniteSetTheorems, TLAPS

----------------------------------------------------------------------------
(* The inductive invariant.                                                *)

(* A pod is queued only while it is pending and nobody works for it, the   *)
(* loop and the goroutines work for pods that are not bound, and the cache *)
(* has the pods with a goroutine and those that are bound.  A pod waits    *)
(* only in its goroutine and for its group.                                *)
Placed(p) ==
  /\ queue[p] # "none" => stored[p] = "pending" /\ pc[p] = "idle" /\ cycle.pod # p
  /\ cycle.pod = p => stored[p] \in {"pending", "gone"} /\ pc[p] = "idle"
  /\ pc[p] # "idle" => stored[p] \in {"pending", "gone"}
  /\ stored[p] = "pending" => queue[p] # "none" \/ cycle.pod = p \/ pc[p] # "idle"
  /\ (pc[p] # "idle" \/ stored[p] = "bound") <=> p \in cache
  /\ pc[p] = "permit" <=> waiting[p] # "none"
  /\ waiting[p] # "none" => group[p] \in Groups

Placement == \A p \in Pods : Placed(p)

(* During a cycle pods leave the cache and none is added, and the pod of   *)
(* the cycle is not in the snapshot.                                       *)
SnapshotCovers ==
  cycle # NoCycle => cache \subseteq cycle.snapshot /\ cycle.pod \notin cycle.snapshot

(* Pods that are bound, about to be, or allowed to, passed Permit.         *)
Passed ==
  \A p \in Pods :
    pc[p] = "bind" \/ stored[p] = "bound" \/ waiting[p] = "allowed" => p \in through

(* Only a group that has a PodGroup is denied.                             *)
KnownOrCut == denied \subseteq known \cup cut

(* A group no wait of which was cut short and of which no pod passed.      *)
Undecided(g) == g \in Groups \ cut /\ through \cap Members(g) = {}

(* The wait of p ended badly, and the goroutine is not done with it.       *)
TurnedDown(p) == waiting[p] = "rejected" \/ pc[p] \in {"undo", "forget"}

(* It keeps all its pods out as long as a rejected one is still assigned.  *)
RejectedDenied ==
  \A g \in Groups : Undecided(g) /\ (\E p \in Members(g) : TurnedDown(p)) => g \in denied

(* So the pods that the cycle of one of its pods counts are all waiting,   *)
(* and they stay so until the cycle ends.                                  *)
CycleOpen ==
  cycle # NoCycle /\ Undecided(group[cycle.pod]) =>
    /\ \A q \in cycle.snapshot \cap Members(group[cycle.pod]) : waiting[q] = "open"
    /\ \A q \in Members(group[cycle.pod]) : ~TurnedDown(q)

IInv ==
  /\ TypeOK /\ Placement
  /\ SnapshotCovers /\ NoLostWakeup
  /\ Passed /\ KnownOrCut /\ RejectedDenied /\ CycleOpen
  /\ GangTogether

----------------------------------------------------------------------------
(* Groups and the pods that are assigned.                                  *)

(* The assigned pods of a group are finitely many, and fewer in less.      *)
LEMMA AssignedType ==
  ASSUME NEW S \in SUBSET Pods, NEW g
  PROVE  /\ IsFiniteSet(S \cap Members(g)) /\ Cardinality(S \cap Members(g)) \in Nat
         /\ \A T \in SUBSET S : Cardinality(T \cap Members(g)) <= Cardinality(S \cap Members(g))
<1>1. IsFiniteSet(S \cap Members(g))
  BY CoschedulingAssumption, FS_Subset DEF Members
<1>2. \A T \in SUBSET S : Cardinality(T \cap Members(g)) <= Cardinality(S \cap Members(g))
  <2> TAKE T \in SUBSET S
  <2>1. T \cap Members(g) \subseteq S \cap Members(g)
    OBVIOUS
  <2> QED
    BY <1>1, <2>1, FS_Subset
<1> QED
  BY <1>1, <1>2, FS_CardinalityType

(* A step that adds no pod to the cache and lets none through.             *)
LEMMA Quiet ==
  ASSUME IInv, cache' \subseteq cache, cycle' = cycle \/ cycle' = NoCycle,
         through' = through, cut \subseteq cut',
         \A q \in Pods : waiting'[q] = "open" => waiting[q] = "open"
  PROVE  /\ SnapshotCovers' /\ NoLostWakeup' /\ GangTogether'
         /\ \A g \in Groups : Undecided(g)' => Undecided(g)
<1>1. SnapshotCovers'
  BY DEF IInv, SnapshotCovers
<1>2. NoLostWakeup'
  <2> SUFFICES ASSUME NEW p \in Pods, waiting'[p] = "open"
               PROVE  Cardinality(cache' \cap Members(group[p])) < minMember[group[p]]
    BY DEF NoLostWakeup
  <2>1. waiting[p] = "open" /\ Cardinality(cache \cap Members(group[p])) < minMember[group[p]]
    BY DEF IInv, NoLostWakeup
  <2>2. group[p] \in Groups /\ minMember[group[p]] \in Nat
    BY <2>1, CoschedulingAssumption DEF IInv, Placement, Placed
  <2>3. cache \in SUBSET Pods /\ cache' \in SUBSET cache /\ cache' \in SUBSET Pods
    BY DEF IInv, TypeOK
  <2>4. /\ Cardinality(cache' \cap Members(group[p])) <= Cardinality(cache \cap Members(group[p]))
        /\ Cardinality(cache' \cap Members(group[p])) \in Nat
        /\ Cardinality(cache \cap Members(group[p])) \in Nat
    BY <2>3, AssignedType
  <2> QED
    BY <2>1, <2>2, <2>4
<1>3. GangTogether'
  BY DEF IInv, GangTogether
<1>4. \A g \in Groups : Undecided(g)' => Undecided(g)
  BY DEF Undecided
<1> QED
  BY <1>1, <1>2, <1>3, <1>4

(* RejectGroup turns the waiting pods of g down and denies g.              *)
LEMMA Rejects ==
  ASSUME IInv, NEW g \in known, RejectGroup(g)
  PROVE  /\ waiting' \in [Pods -> {"none", "open", "allowed", "rejected"}]
         /\ denied' = denied \cup {g} /\ g \in Groups /\ permitted' \subseteq Groups
         /\ \A q \in Pods : waiting'[q] = IF group[q] = g /\ waiting[q] = "open"
                                            THEN "rejected" ELSE waiting[q]
BY DEF IInv, TypeOK, RejectGroup, Decide, Members

----------------------------------------------------------------------------
(* The steps.                                                              *)

(* A pod or a group is created, a pod becomes active again, a permission   *)
(* expires: nothing but the queue gets the pod.                            *)
LEMMA QueueStep ==
  ASSUME IInv, \/ \E p \in Pods : CreatePod(p) \/ Retry(p)
               \/ \E g \in Groups : CreateGroup(g) \/ DeleteGroup(g) \/ ExpirePermitted(g)
  PROVE  IInv'
<1>1. /\ UNCHANGED <<cache, waiting, pc, cycle, denied, through>>
      /\ cut \subseteq cut' /\ known \subseteq known' \cup cut'
      /\ \A p \in Pods : stored'[p] = "bound" <=> stored[p] = "bound"
  BY DEF IInv, TypeOK, CreatePod, Retry, CreateGroup, DeleteGroup, ExpirePermitted
<1>2. /\ SnapshotCovers' /\ NoLostWakeup' /\ GangTogether'
      /\ \A g \in Groups : Undecided(g)' => Undecided(g)
  BY <1>1, Quiet
<1>3. TypeOK'
  BY CoschedulingAssumption
  DEF IInv, TypeOK, CreatePod, Retry, CreateGroup, DeleteGroup, ExpirePermitted
<1>4. Placement'
  BY DEF IInv, TypeOK, Placement, Placed, CreatePod, Retry, CreateGroup, DeleteGroup, ExpirePermitted
<1>5. Passed' /\ KnownOrCut'
  BY <1>1 DEF IInv, Passed, KnownOrCut
<1>6. RejectedDenied'
  BY <1>1, <1>2 DEF IInv, RejectedDenied, TurnedDown
<1>7. CycleOpen'
  BY <1>1, <1>2 DEF IInv, CycleOpen, TurnedDown, Undecided
<1> QED
  BY <1>2, <1>3, <1>4, <1>5, <1>6, <1>7 DEF IInv

(* A denial expires when no pod of the group is being turned down.         *)
LEMMA ExpireDeniedStep ==
  ASSUME IInv, NEW g \in Groups, ExpireDenied(g)
  PROVE  IInv'
<1>1. /\ denied' = denied \ {g} /\ \A p \in Members(g) : ~TurnedDown(p)
      /\ UNCHANGED <<stored, known, queue, cache, waiting, pc, cycle, permitted, faults, through, cut>>
  BY DEF ExpireDenied, TurnedDown
<1>2. /\ SnapshotCovers' /\ NoLostWakeup' /\ GangTogether'
      /\ \A h \in Groups : Undecided(h)' => Undecided(h)
  BY <1>1, Quiet
<1>3. TypeOK' /\ Placement'
  BY <1>1 DEF IInv, TypeOK, Placement, Placed
<1>4. Passed' /\ KnownOrCut'
  BY <1>1 DEF IInv, Passed, KnownOrCut
<1>5. RejectedDenied'
  BY <1>1, <1>2 DEF IInv, RejectedDenied, TurnedDown
<1>6. CycleOpen'
  BY <1>1, <1>2 DEF IInv, CycleOpen, TurnedDown, Undecided
<1> QED
  BY <1>2, <1>3, <1>4, <1>5, <1>6 DEF IInv

(* A pod is deleted: its wait, if it waits, is cut short.                  *)
LEMMA DeletePodStep ==
  ASSUME IInv, NEW p \in Pods, DeletePod(p)
  PROVE  IInv'
<1>1. /\ stored[p] \in {"pending", "bound"}
      /\ stored' = [stored EXCEPT ![p] = "gone"] /\ queue' = [queue EXCEPT ![p] = "none"]
      /\ cache' = IF stored[p] = "bound" THEN cache \ {p} ELSE cache
      /\ waiting' = [waiting EXCEPT ![p] = IF waiting[p] = "open" THEN "rejected" ELSE waiting[p]]
      /\ cut' = IF waiting[p] = "open" THEN cut \cup {group[p]} ELSE cut
      /\ faults' \in 0 .. MaxFaults
      /\ UNCHANGED <<known, pc, cycle, denied, permitted, through>>
  BY CoschedulingAssumption DEF DeletePod, IInv, TypeOK
<1>2. /\ waiting' \in [Pods -> {"none", "open", "allowed", "rejected"}]
      /\ \A q \in Pods : waiting'[q] = IF q = p /\ waiting[q] = "open" THEN "rejected" ELSE waiting[q]
  BY <1>1 DEF IInv, TypeOK
<1>3. /\ SnapshotCovers' /\ NoLostWakeup' /\ GangTogether'
      /\ \A g \in Groups : Undecided(g)' => Undecided(g)
  BY <1>1, <1>2, Quiet
<1>4. waiting[p] = "open" => group[p] \in Groups
  BY DEF IInv, Placement, Placed
<1>5. TypeOK'
  BY <1>1, <1>2, <1>4 DEF IInv, TypeOK
<1>6. Placement'
  BY <1>1, <1>2 DEF IInv, TypeOK, Placement, Placed
<1>7. Passed' /\ KnownOrCut'
  BY <1>1, <1>2 DEF IInv, TypeOK, Passed, KnownOrCut
<1>8. \A g \in Groups : Undecided(g)' => \A q \in Members(g) : waiting'[q] = waiting[q]
  BY <1>1, <1>2 DEF Undecided, Members
<1>9. RejectedDenied'
  BY <1>1, <1>3, <1>8 DEF IInv, RejectedDenied, TurnedDown
<1>10. CycleOpen'
  BY <1>1, <1>3, <1>8 DEF IInv, CycleOpen, TurnedDown, Undecided
<1> QED
  BY <1>3, <1>5, <1>6, <1>7, <1>9, <1>10 DEF IInv

(* What the loop does to the group of a pod that it gives up: nothing, a   *)
(* denial, or a rejection of the waiting pods with a denial.               *)
Declines ==
  /\ waiting' \in [Pods -> {"none", "open", "allowed", "rejected"}]
  /\ \A q \in Pods :
       \/ waiting'[q] = waiting[q]
       \/ waiting[q] = "open" /\ waiting'[q] = "rejected" /\ group[q] \in denied'
  /\ denied \subseteq denied' /\ denied' \subseteq denied \cup known
  /\ permitted' \subseteq Groups

(* A rejection is of this kind.                                            *)
LEMMA RejectionDeclines ==
  ASSUME IInv, NEW g \in known, RejectGroup(g)
  PROVE  Declines
BY Rejects DEF Declines

(* The loop gives up on a pod: it is queued again, and its group may be    *)
(* rejected and denied.                                                    *)
LEMMA GivesUp ==
  ASSUME IInv, NEW p \in Pods, queue[p] # "none" \/ cycle.pod = p,
         \A q \in Pods \ {p} : cycle.pod # q,
         Park(p), cycle' = NoCycle, faults' \in 0 .. MaxFaults, Declines,
         UNCHANGED <<stored, known, cache, pc, through, cut>>
  PROVE  IInv'
<1>1. /\ SnapshotCovers' /\ NoLostWakeup' /\ GangTogether'
      /\ \A g \in Groups : Undecided(g)' => Undecided(g)
  BY Quiet DEF Declines
<1>2. queue' = [queue EXCEPT ![p] = IF stored[p] = "pending" THEN "parked" ELSE "none"]
  BY DEF Park
<1>3. TypeOK'
  BY <1>2 DEF IInv, TypeOK, Declines
<1>4. cycle'.pod = NoPod /\ \A q \in Pods : cycle'.pod # q
  BY CoschedulingAssumption DEF NoCycle
<1>5. Placement'
  BY <1>2, <1>4 DEF IInv, TypeOK, Placement, Placed, Declines
<1>6. Passed' /\ KnownOrCut'
  BY DEF IInv, Passed, KnownOrCut, Declines
<1>7. RejectedDenied'
  <2> SUFFICES ASSUME NEW g \in Groups, Undecided(g)', NEW q \in Members(g), TurnedDown(q)'
               PROVE  g \in denied'
    BY DEF RejectedDenied
  <2>1. q \in Pods /\ group[q] = g
    BY DEF Members
  <2> QED
    BY <1>1, <2>1 DEF IInv, RejectedDenied, TurnedDown, Declines
<1>8. CycleOpen'
  BY DEF CycleOpen
<1> QED
  BY <1>1, <1>3, <1>5, <1>6, <1>7, <1>8 DEF IInv

(* PreFilter refuses the pod.                                              *)
LEMMA PreFilterFailsStep ==
  ASSUME IInv, NEW p \in Pods, PreFilterFails(p)
  PROVE  IInv'
<1>1. /\ cycle = NoCycle /\ queue[p] = "active" /\ Park(p)
      /\ UNCHANGED <<stored, known, cache, pc, cycle, faults, through, cut>>
  BY DEF PreFilterFails, CanPop
<1>2. \A q \in Pods : cycle.pod # q
  BY <1>1, CoschedulingAssumption DEF NoCycle
<1>3. group[p] \in known /\ known \subseteq Groups
  BY DEF PreFilterFails, Refused, LacksResources, NeedsResourceCheck, HasPodGroup, IInv, TypeOK
<1>4. faults' \in 0 .. MaxFaults
  BY <1>1 DEF IInv, TypeOK
<1>5. CASE RejectGroup(group[p])
  BY <1>1, <1>2, <1>3, <1>4, <1>5, RejectionDeclines, GivesUp
<1>6. CASE ~RejectGroup(group[p])
  <2>1. /\ UNCHANGED <<waiting, permitted>>
        /\ denied' = denied \/ denied' = denied \cup {group[p]}
    BY <1>6 DEF PreFilterFails
  <2>2. Declines
    BY <1>3, <2>1 DEF IInv, TypeOK, Declines
  <2> QED
    BY <1>1, <1>2, <1>4, <2>2, GivesUp
<1> QED
  BY <1>5, <1>6

(* Filter fails, and PostFilter may reject the group; or the cycle fails   *)
(* after the assumption of the pod, and Unreserve rejects it.              *)
LEMMA CycleFailsStep ==
  ASSUME IInv, FilterFails \/ CycleFails
  PROVE  IInv'
<1>0. PICK p : p = cycle.pod
  OBVIOUS
<1>1. /\ cycle # NoCycle /\ Park(p) /\ cycle' = NoCycle
      /\ UNCHANGED <<stored, known, cache, pc, through, cut>>
      /\ faults' \in 0 .. MaxFaults
      /\ \/ group[p] \in known /\ RejectGroup(group[p])
         \/ UNCHANGED <<waiting, denied, permitted>>
  BY <1>0, CoschedulingAssumption
  DEF FilterFails, CycleFails, PostFilter, UnreserveEffect, HasPodGroup, IInv, TypeOK
<1>2. p \in Pods /\ \A q \in Pods \ {p} : cycle.pod # q
  BY <1>0, <1>1 DEF IInv, TypeOK
<1>3. CASE group[p] \in known /\ RejectGroup(group[p])
  BY <1>0, <1>1, <1>2, <1>3, RejectionDeclines, GivesUp
<1>4. CASE UNCHANGED <<waiting, denied, permitted>>
  <2>1. Declines
    BY <1>4 DEF IInv, TypeOK, Declines
  <2> QED
    BY <1>0, <1>1, <1>2, <2>1, GivesUp
<1> QED
  BY <1>1, <1>3, <1>4

(* A cycle starts with a snapshot.  The group of the pod is not denied, so *)
(* none of its pods is being turned down and those that are assigned wait. *)
LEMMA ScheduleStep ==
  ASSUME IInv, NEW p \in Pods, Schedule(p)
  PROVE  IInv'
<1>1. /\ cycle = NoCycle /\ queue[p] = "active" /\ p \notin cache /\ ~Refused(p)
      /\ permitted' = IF NeedsResourceCheck(p) THEN permitted \cup {group[p]} ELSE permitted
      /\ cycle' = [pod |-> p, snapshot |-> cache,
                   at |-> IF Cardinality(cache) < Capacity THEN "permit" ELSE "postfilter"]
      /\ queue' = [queue EXCEPT ![p] = "none"]
      /\ UNCHANGED <<stored, known, cache, waiting, pc, denied, faults, through, cut>>
  BY DEF Schedule, CanPop
<1>2. cycle'.pod = p /\ cycle'.snapshot = cache /\ cycle'.at \in {"permit", "postfilter"}
  BY <1>1
<1>3. \A q \in Pods : cycle.pod # q
  BY <1>1, CoschedulingAssumption DEF NoCycle
<1>4. permitted' \subseteq Groups
  BY <1>1 DEF IInv, TypeOK, NeedsResourceCheck, HasPodGroup
<1>5. cycle' \in [pod : Pods, snapshot : SUBSET Pods, at : {"permit", "postfilter"}]
  <2>1. cache \in SUBSET Pods
    BY DEF IInv, TypeOK
  <2>2. (IF Cardinality(cache) < Capacity THEN "permit" ELSE "postfilter") \in {"permit", "postfilter"}
    OBVIOUS
  <2> QED
    BY <1>1, <2>1, <2>2
<1>6. TypeOK'
  BY <1>1, <1>4, <1>5 DEF IInv, TypeOK
<1>7. Placement'
  BY <1>1, <1>2, <1>3 DEF IInv, TypeOK, Placement, Placed
<1>8. SnapshotCovers'
  BY <1>1, <1>2 DEF SnapshotCovers
<1>9. NoLostWakeup' /\ Passed' /\ KnownOrCut' /\ GangTogether'
  BY <1>1 DEF IInv, NoLostWakeup, Passed, KnownOrCut, GangTogether
<1>10. RejectedDenied'
  BY <1>1 DEF IInv, RejectedDenied, Undecided, TurnedDown
<1>11. CycleOpen'
  <2> SUFFICES ASSUME Undecided(group[p])
               PROVE  /\ \A q \in cache \cap Members(group[p]) : waiting[q] = "open"
                      /\ \A q \in Members(group[p]) : ~TurnedDown(q)
    BY <1>1, <1>2 DEF CycleOpen, Undecided, TurnedDown
  <2>1. group[p] \notin denied
    BY <1>1 DEF Refused, HasPodGroup, IInv, KnownOrCut, Undecided
  <2>2. \A q \in Members(group[p]) : ~TurnedDown(q)
    BY <2>1 DEF IInv, RejectedDenied, Undecided
  <2>3. ASSUME NEW q \in cache \cap Members(group[p])
        PROVE  waiting[q] = "open"
    <3>1. q \in Pods /\ q \notin through
      BY DEF Members, Undecided
    <3>2. pc[q] = "permit"
      BY <2>2, <3>1 DEF IInv, Passed, Placement, Placed, TypeOK, TurnedDown
    <3> QED
      BY <2>2, <3>1, <3>2 DEF IInv, Passed, Placement, Placed, TypeOK, TurnedDown
  <2> QED
    BY <2>2, <2>3
<1> QED
  BY <1>6, <1>7, <1>8, <1>9, <1>10, <1>11 DEF IInv

(* The pod of a cycle that reached Permit is assumed: other groups do not  *)
(* notice, and its own has at most one more than the snapshot has.         *)
LEMMA Assumes ==
  ASSUME IInv, cycle # NoCycle, cache' = cache \cup {cycle.pod}
  PROVE  /\ cycle.pod \in Pods /\ cycle.pod \notin cycle.snapshot /\ cycle.snapshot \in SUBSET Pods
         /\ \A g : g # group[cycle.pod] => cache' \cap Members(g) = cache \cap Members(g)
         /\ LET g == group[cycle.pod]
            IN  /\ Cardinality(cache' \cap Members(g)) <= Assigned(cycle.snapshot, g) + 1
                /\ Cardinality(cache' \cap Members(g)) \in Nat
                /\ Assigned(cycle.snapshot, g) \in Nat
                /\ Cardinality((cycle.snapshot \cap Members(g)) \cup {cycle.pod})
                     = Assigned(cycle.snapshot, g) + 1
<1> DEFINE p == cycle.pod
           s == cycle.snapshot
           g == group[p]
<1>1. p \in Pods /\ s \in SUBSET Pods /\ cache \in SUBSET s /\ p \notin s /\ cache' \in SUBSET Pods
  BY DEF IInv, TypeOK, SnapshotCovers
<1> HIDE DEF p, s
<1>2. IsFiniteSet(s \cap Members(g)) /\ Cardinality(s \cap Members(g)) \in Nat
  BY <1>1, AssignedType
<1>3. Cardinality((s \cap Members(g)) \cup {p}) = Cardinality(s \cap Members(g)) + 1
  BY <1>1, <1>2, FS_AddElement
<1>4. IsFiniteSet((s \cap Members(g)) \cup {p})
  BY <1>2, FS_AddElement
<1>5. cache' \cap Members(g) \subseteq (s \cap Members(g)) \cup {p}
  BY <1>1 DEF p
<1>6. Cardinality(cache' \cap Members(g)) <= Cardinality((s \cap Members(g)) \cup {p})
  BY <1>4, <1>5, FS_Subset
<1>7. Cardinality(cache' \cap Members(g)) \in Nat
  BY <1>1, AssignedType
<1>8. \A h : h # g => cache' \cap Members(h) = cache \cap Members(h)
  BY DEF Members, p
<1> QED
  BY <1>1, <1>2, <1>3, <1>6, <1>7, <1>8 DEF Assigned, p, s

(* Too few pods: the pod waits with the others of its group.               *)
LEMMA PermitWaitStep ==
  ASSUME IInv, PermitWait
  PROVE  IInv'
<1>0. PICK p, g : p = cycle.pod /\ g = group[p]
  OBVIOUS
<1>1. /\ cycle # NoCycle /\ g \in known
      /\ ~(Assigned(cycle.snapshot, g) + 1 >= minMember[g])
      /\ cache' = cache \cup {p}
      /\ waiting' = [waiting EXCEPT ![p] = "open"]
      /\ pc' = [pc EXCEPT ![p] = "permit"]
      /\ queue' = [q \in Pods |-> IF q \in Listed(g) \ {p} /\ queue[q] = "parked"
                                    THEN "active" ELSE queue[q]]
      /\ cycle' = NoCycle
      /\ UNCHANGED <<stored, known, denied, permitted, faults, through, cut>>
  BY <1>0 DEF PermitWait, HasPodGroup, Quorum
<1>2. /\ p \in Pods /\ cycle.pod = p /\ g \in Groups /\ minMember[g] \in Nat
  BY <1>0, <1>1, CoschedulingAssumption DEF IInv, TypeOK
<1>3. /\ \A h : h # g => cache' \cap Members(h) = cache \cap Members(h)
      /\ Cardinality(cache' \cap Members(g)) <= Assigned(cycle.snapshot, g) + 1
      /\ Cardinality(cache' \cap Members(g)) \in Nat
      /\ Assigned(cycle.snapshot, g) \in Nat
  BY <1>0, <1>1, Assumes
<1>4. cycle'.pod = NoPod /\ \A q \in Pods : cycle'.pod # q
  BY <1>1, CoschedulingAssumption DEF NoCycle
<1>5. TypeOK'
  BY <1>1, <1>2 DEF IInv, TypeOK
<1>6. Placement'
  BY <1>0, <1>1, <1>2, <1>4 DEF IInv, TypeOK, Placement, Placed
<1>7. NoLostWakeup'
  <2> SUFFICES ASSUME NEW q \in Pods, waiting'[q] = "open"
               PROVE  Cardinality(cache' \cap Members(group[q])) < minMember[group[q]]
    BY DEF NoLostWakeup
  <2>1. CASE group[q] = g
    BY <1>1, <1>2, <1>3, <2>1
  <2>2. CASE group[q] # g
    BY <1>0, <1>1, <1>2, <1>3, <2>2 DEF IInv, TypeOK, NoLostWakeup
  <2> QED
    BY <2>1, <2>2
<1>8. SnapshotCovers' /\ CycleOpen'
  BY <1>1 DEF SnapshotCovers, CycleOpen
<1>9. Passed' /\ KnownOrCut' /\ GangTogether'
  BY <1>1, <1>2 DEF IInv, TypeOK, Passed, KnownOrCut, GangTogether
<1>10. RejectedDenied'
  BY <1>1, <1>2 DEF IInv, TypeOK, RejectedDenied, Undecided, TurnedDown, Members
<1> QED
  BY <1>5, <1>6, <1>7, <1>8, <1>9, <1>10 DEF IInv

(* The pod that completes its group, or has none, passes with all pods of  *)
(* the group that wait.  These are all the snapshot counts, if the group   *)
(* is undecided.                                                           *)
LEMMA PermitSuccessStep ==
  ASSUME IInv, PermitSuccess
  PROVE  IInv'
<1>0. PICK p, g, released :
        p = cycle.pod /\ g = group[p] /\ released = {q \in Members(g) : waiting[q] = "open"}
  OBVIOUS
<1>1. /\ cycle # NoCycle
      /\ (g \in known /\ Assigned(cycle.snapshot, g) + 1 >= minMember[g]) \/ g = NoGroup
      /\ cache' = cache \cup {p} /\ pc' = [pc EXCEPT ![p] = "bind"]
      /\ cycle' = NoCycle
      /\ UNCHANGED <<stored, known, queue, denied, permitted, faults, cut>>
  BY <1>0 DEF PermitSuccess, HasPodGroup, Quorum
<1>2. /\ p \in Pods /\ cycle.pod = p /\ g \in Groups \cup {NoGroup}
      /\ waiting \in [Pods -> {"none", "open", "allowed", "rejected"}]
      /\ \A q \in Pods : waiting[q] = "open" => group[q] \in Groups
  BY <1>0, <1>1, CoschedulingAssumption DEF IInv, TypeOK, Placement, Placed
<1>3. /\ waiting' \in [Pods -> {"none", "open", "allowed", "rejected"}]
      /\ \A q \in Pods : waiting'[q] = IF q \in released THEN "allowed" ELSE waiting[q]
      /\ through' = through \cup {p} \cup released
  <2>1. CASE g = NoGroup
    <3>1. through' = through \cup {p} /\ waiting' = waiting
      BY <1>0, <2>1 DEF PermitSuccess
    <3>2. released = {}
      BY <1>0, <1>2, <2>1, CoschedulingAssumption DEF Members
    <3> QED
      BY <1>2, <3>1, <3>2
  <2>2. CASE g # NoGroup
    <3>1. through' = through \cup {p} \cup released /\ Decide(g, "allowed")
      BY <1>0, <2>2 DEF PermitSuccess
    <3> QED
      BY <1>0, <1>2, <3>1 DEF Decide
  <2> QED
    BY <2>1, <2>2
<1>4. released \subseteq Pods /\ \A q \in released : group[q] = g /\ waiting[q] = "open"
  BY <1>0 DEF Members
<1>5. cycle'.pod = NoPod /\ \A q \in Pods : cycle'.pod # q
  BY <1>1, CoschedulingAssumption DEF NoCycle
<1>6. /\ p \notin cycle.snapshot /\ cycle.snapshot \in SUBSET Pods
      /\ \A h : h # g => cache' \cap Members(h) = cache \cap Members(h)
      /\ Assigned(cycle.snapshot, g) \in Nat
      /\ Cardinality((cycle.snapshot \cap Members(g)) \cup {p}) = Assigned(cycle.snapshot, g) + 1
  BY <1>0, <1>1, Assumes
<1>7. TypeOK'
  BY <1>1, <1>2, <1>3, <1>4 DEF IInv, TypeOK
<1>8. Placement'
  BY <1>0, <1>1, <1>2, <1>3, <1>4, <1>5 DEF IInv, TypeOK, Placement, Placed
<1>9. NoLostWakeup'
  <2> SUFFICES ASSUME NEW q \in Pods, waiting'[q] = "open"
               PROVE  Cardinality(cache' \cap Members(group[q])) < minMember[group[q]]
    BY DEF NoLostWakeup
  <2>1. waiting[q] = "open" /\ group[q] # g
    BY <1>0, <1>3 DEF Members
  <2> QED
    BY <1>6, <2>1 DEF IInv, NoLostWakeup
<1>10. SnapshotCovers' /\ CycleOpen'
  BY <1>1 DEF SnapshotCovers, CycleOpen
<1>11. Passed' /\ KnownOrCut'
  BY <1>1, <1>2, <1>3 DEF IInv, TypeOK, Passed, KnownOrCut
<1>12. RejectedDenied'
  <2> SUFFICES ASSUME NEW h \in Groups, Undecided(h)', NEW q \in Members(h), TurnedDown(q)'
               PROVE  h \in denied
    BY <1>1 DEF RejectedDenied
  <2>1. Undecided(h)
    BY <1>1, <1>3 DEF Undecided
  <2>2. TurnedDown(q)
    BY <1>1, <1>2, <1>3 DEF TurnedDown, Members, IInv, TypeOK
  <2> QED
    BY <2>1, <2>2 DEF IInv, RejectedDenied
<1>13. GangTogether'
  <2> SUFFICES ASSUME NEW h \in Groups \ cut, through' \cap Members(h) # {}
               PROVE  Cardinality(through' \cap Members(h)) >= minMember[h]
    BY <1>1 DEF GangTogether
  <2>1. through' \in SUBSET Pods /\ through \in SUBSET through' /\ minMember[h] \in Nat
    BY <1>3, <1>7, CoschedulingAssumption DEF TypeOK
  <2>2. /\ IsFiniteSet(through' \cap Members(h)) /\ Cardinality(through' \cap Members(h)) \in Nat
        /\ Cardinality(through \cap Members(h)) <= Cardinality(through' \cap Members(h))
        /\ Cardinality(through \cap Members(h)) \in Nat
    BY <2>1, AssignedType
  <2>3. CASE through \cap Members(h) # {}
    <3>1. Cardinality(through \cap Members(h)) >= minMember[h]
      BY <2>3 DEF IInv, GangTogether
    <3> QED
      BY <2>1, <2>2, <3>1
  <2>4. CASE through \cap Members(h) = {}
    <3>1. h = g
      BY <1>0, <1>2, <1>3, <1>4, <2>4 DEF Members
    <3>2. Undecided(g)
      BY <2>4, <3>1 DEF Undecided
    <3>3. \A q \in cycle.snapshot \cap Members(g) : q \in released
      BY <1>0, <1>1, <3>2 DEF IInv, CycleOpen
    <3>4. (cycle.snapshot \cap Members(g)) \cup {p} \subseteq through' \cap Members(g)
      BY <1>0, <1>2, <1>3, <3>3 DEF Members
    <3>5. Cardinality((cycle.snapshot \cap Members(g)) \cup {p})
            <= Cardinality(through' \cap Members(g))
      BY <2>2, <3>1, <3>4, FS_Subset
    <3>6. Assigned(cycle.snapshot, g) + 1 >= minMember[g]
      BY <1>1, <3>1, CoschedulingAssumption
    <3> QED
      BY <1>6, <2>1, <2>2, <3>1, <3>5, <3>6
  <2> QED
    BY <2>3, <2>4
<1> QED
  BY <1>7, <1>8, <1>9, <1>10, <1>11, <1>12, <1>13 DEF IInv

----------------------------------------------------------------------------
(* The binding goroutines, the timers and the restart.                     *)

(* A wait runs out of time: it is cut short.                               *)
LEMMA TimeoutStep ==
  ASSUME IInv, NEW p \in Pods, Timeout(p)
  PROVE  IInv'
<1>1. /\ waiting[p] = "open" /\ waiting' = [waiting EXCEPT ![p] = "rejected"]
      /\ cut' = cut \cup {group[p]} /\ faults' \in 0 .. MaxFaults
      /\ UNCHANGED <<stored, known, queue, cache, pc, cycle, denied, permitted, through>>
  BY CoschedulingAssumption DEF Timeout, IInv, TypeOK
<1>2. /\ waiting' \in [Pods -> {"none", "open", "allowed", "rejected"}]
      /\ \A q \in Pods \ {p} : waiting'[q] = waiting[q]
      /\ waiting'[p] = "rejected" /\ group[p] \in Groups
  BY <1>1 DEF IInv, TypeOK, Placement, Placed
<1>3. /\ SnapshotCovers' /\ NoLostWakeup' /\ GangTogether'
      /\ \A g \in Groups : Undecided(g)' => Undecided(g)
  BY <1>1, <1>2, Quiet
<1>4. TypeOK' /\ Placement'
  BY <1>1, <1>2 DEF IInv, TypeOK, Placement, Placed
<1>5. Passed' /\ KnownOrCut'
  BY <1>1, <1>2 DEF IInv, Passed, KnownOrCut
<1>6. \A g \in Groups : Undecided(g)' => \A q \in Members(g) : waiting'[q] = waiting[q]
  BY <1>1, <1>2 DEF Undecided, Members
<1>7. RejectedDenied'
  BY <1>1, <1>3, <1>6 DEF IInv, RejectedDenied, TurnedDown
<1>8. CycleOpen'
  BY <1>1, <1>3, <1>6 DEF IInv, CycleOpen, TurnedDown, Undecided
<1> QED
  BY <1>3, <1>4, <1>5, <1>7, <1>8 DEF IInv

(* The goroutine receives its status, binds, fails to, or forgets the pod. *)
(* None of that happens to a pod that an undecided cycle counts.           *)
LEMMA GoroutineStep ==
  ASSUME IInv, NEW p \in Pods, WaitOnPermit(p) \/ Bind(p) \/ BindFails(p) \/ Forget(p)
  PROVE  IInv'
<1>1. /\ UNCHANGED <<known, cycle, denied, permitted, through, cut>>
      /\ cache' \subseteq cache /\ faults' \in 0 .. MaxFaults
      /\ \A q \in Pods \ {p} : /\ waiting'[q] = waiting[q] /\ pc'[q] = pc[q]
                               /\ stored'[q] = stored[q] /\ queue'[q] = queue[q]
  BY CoschedulingAssumption DEF WaitOnPermit, Bind, BindFails, Forget, Park, IInv, TypeOK
<1>2. TypeOK'
  BY CoschedulingAssumption DEF WaitOnPermit, Bind, BindFails, Forget, Park, IInv, TypeOK
<1>3. Placement'
  BY DEF WaitOnPermit, Bind, BindFails, Forget, Park, IInv, TypeOK, Placement, Placed
<1>4. waiting'[p] = "none"
  BY <1>2, <1>3 DEF WaitOnPermit, Bind, BindFails, Forget, IInv, TypeOK, Placement, Placed
<1>5. /\ SnapshotCovers' /\ NoLostWakeup' /\ GangTogether'
      /\ \A g \in Groups : Undecided(g)' => Undecided(g)
  BY <1>1, <1>4, Quiet
<1>6. Passed' /\ KnownOrCut'
  BY <1>1 DEF WaitOnPermit, Bind, BindFails, Forget, IInv, TypeOK, Passed, KnownOrCut
<1>7. TurnedDown(p) \/ p \in through
  BY DEF WaitOnPermit, Bind, BindFails, Forget, IInv, Passed, TurnedDown
<1>8. ASSUME NEW g \in Groups, Undecided(g)', NEW q \in Members(g)
      PROVE  q \in Pods /\ (TurnedDown(q)' => TurnedDown(q))
    <2>1. q \in Pods /\ q \notin through
      BY <1>1, <1>8 DEF Members, Undecided
    <2> QED
      BY <1>1, <1>7, <2>1 DEF TurnedDown
<1>9. RejectedDenied'
  BY <1>1, <1>5, <1>8 DEF IInv, RejectedDenied
<1>10. CycleOpen'
  <2> SUFFICES ASSUME cycle # NoCycle, Undecided(group[cycle.pod])'
               PROVE  /\ \A q \in cycle.snapshot \cap Members(group[cycle.pod]) : waiting'[q] = "open"
                      /\ \A q \in Members(group[cycle.pod]) : ~TurnedDown(q)'
    BY <1>1 DEF CycleOpen
  <2>1. group[cycle.pod] \in Groups /\ Undecided(group[cycle.pod])
    BY <1>1 DEF Undecided
  <2>2. /\ \A q \in cycle.snapshot \cap Members(group[cycle.pod]) : waiting[q] = "open"
        /\ \A q \in Members(group[cycle.pod]) : ~TurnedDown(q)
    BY <2>1 DEF IInv, CycleOpen
  <2>3. p \notin Members(group[cycle.pod])
    BY <1>7, <2>1, <2>2 DEF Undecided
  <2> QED
    BY <1>1, <2>2, <2>3 DEF Members, TurnedDown
<1> QED
  BY <1>2, <1>3, <1>5, <1>6, <1>9, <1>10 DEF IInv

(* Unreserve rejects the group of a pod that was turned down or could not  *)
(* be bound: a group that is undecided is denied already, and no cycle of  *)
(* one of its pods is under way.                                           *)
LEMMA UnreserveStep ==
  ASSUME IInv, NEW p \in Pods, Unreserve(p)
  PROVE  IInv'
<1>1. /\ pc[p] = "undo" /\ pc' = [pc EXCEPT ![p] = "forget"]
      /\ UNCHANGED <<stored, known, queue, cache, cycle, faults, through, cut>>
      /\ \/ group[p] \in known /\ RejectGroup(group[p])
         \/ UNCHANGED <<waiting, denied, permitted>>
  BY DEF Unreserve, UnreserveEffect, HasPodGroup
<1>2. /\ waiting' \in [Pods -> {"none", "open", "allowed", "rejected"}]
      /\ denied \subseteq denied' /\ denied' \subseteq denied \cup known /\ permitted' \subseteq Groups
      /\ \A q \in Pods : \/ waiting'[q] = waiting[q]
                         \/ /\ waiting[q] = "open" /\ waiting'[q] = "rejected"
                            /\ group[q] = group[p] /\ group[p] \in denied'
  <2>1. CASE group[p] \in known /\ RejectGroup(group[p])
    <3>1. /\ waiting' \in [Pods -> {"none", "open", "allowed", "rejected"}]
          /\ denied' = denied \cup {group[p]} /\ permitted' \subseteq Groups
          /\ \A q \in Pods : waiting'[q] = IF group[q] = group[p] /\ waiting[q] = "open"
                                             THEN "rejected" ELSE waiting[q]
      BY <2>1, Rejects
    <3> QED
      BY <2>1, <3>1
  <2>2. CASE UNCHANGED <<waiting, denied, permitted>>
    BY <2>2 DEF IInv, TypeOK
  <2> QED
    BY <1>1, <2>1, <2>2
<1>3. /\ SnapshotCovers' /\ NoLostWakeup' /\ GangTogether'
      /\ \A g \in Groups : Undecided(g)' => Undecided(g)
  BY <1>1, <1>2, Quiet
<1>4. TypeOK'
  BY <1>1, <1>2 DEF IInv, TypeOK
<1>5. Placement'
  BY <1>1, <1>2 DEF IInv, TypeOK, Placement, Placed
<1>6. Passed' /\ KnownOrCut'
  BY <1>1, <1>2 DEF IInv, TypeOK, Passed, KnownOrCut
<1>7. RejectedDenied'
  <2> SUFFICES ASSUME NEW g \in Groups, Undecided(g)', NEW q \in Members(g), TurnedDown(q)'
               PROVE  g \in denied'
    BY DEF RejectedDenied
  <2>1. q \in Pods /\ group[q] = g
    BY DEF Members
  <2>2. TurnedDown(q) \/ g \in denied'
    BY <1>1, <1>2, <2>1 DEF TurnedDown, IInv, TypeOK
  <2> QED
    BY <1>2, <1>3, <2>2 DEF IInv, RejectedDenied
<1>8. CycleOpen'
  <2> SUFFICES ASSUME cycle # NoCycle, Undecided(group[cycle.pod])'
               PROVE  /\ \A q \in cycle.snapshot \cap Members(group[cycle.pod]) : waiting'[q] = "open"
                      /\ \A q \in Members(group[cycle.pod]) : ~TurnedDown(q)'
    BY <1>1 DEF CycleOpen
  <2>1. Undecided(group[cycle.pod])
    BY <1>1 DEF Undecided
  <2>2. /\ \A q \in cycle.snapshot \cap Members(group[cycle.pod]) : waiting[q] = "open"
        /\ \A q \in Members(group[cycle.pod]) : ~TurnedDown(q)
    BY <2>1 DEF IInv, CycleOpen
  <2>3. group[p] # group[cycle.pod]
    BY <1>1, <2>2 DEF Members, TurnedDown
  <2> QED
    BY <1>1, <1>2, <2>2, <2>3 DEF Members, TurnedDown, IInv, TypeOK
<1> QED
  BY <1>3, <1>4, <1>5, <1>6, <1>7, <1>8 DEF IInv

(* A restart empties everything but the store.                             *)
LEMMA RestartStep ==
  ASSUME IInv, Restart
  PROVE  IInv'
<1>1. PICK sent \in SUBSET {p \in Pods : pc[p] = "bind" /\ stored[p] = "pending"} :
        /\ stored' = [p \in Pods |-> IF p \in sent THEN "bound" ELSE stored[p]]
        /\ queue' = [p \in Pods |-> IF stored'[p] = "pending" THEN "active" ELSE "none"]
        /\ cache' = {p \in Pods : stored'[p] = "bound"}
  BY DEF Restart
<1>2. /\ waiting' = [p \in Pods |-> "none"] /\ pc' = [p \in Pods |-> "idle"]
      /\ cycle' = NoCycle /\ denied' = {} /\ permitted' = {}
      /\ faults' \in 0 .. MaxFaults
      /\ UNCHANGED <<known, through, cut>>
  BY CoschedulingAssumption DEF Restart, IInv, TypeOK
<1>3. cycle'.pod = NoPod /\ \A q \in Pods : cycle'.pod # q
  BY <1>2, CoschedulingAssumption DEF NoCycle
<1>4. TypeOK'
  BY <1>1, <1>2 DEF IInv, TypeOK
<1>5. Placement'
  BY <1>1, <1>2, <1>3 DEF Placement, Placed
<1>6. SnapshotCovers' /\ CycleOpen' /\ NoLostWakeup'
  BY <1>2 DEF SnapshotCovers, CycleOpen, NoLostWakeup
<1>7. Passed' /\ KnownOrCut' /\ GangTogether'
  BY <1>1, <1>2 DEF IInv, Passed, KnownOrCut, GangTogether
<1>8. RejectedDenied'
  BY <1>2 DEF RejectedDenied, TurnedDown, Members
<1> QED
  BY <1>4, <1>5, <1>6, <1>7, <1>8 DEF IInv

----------------------------------------------------------------------------
(* The theorems.                                                           *)

(* The inductive invariant, for any pods, groups, capacity and faults.     *)
THEOREM Invariant == Spec => []IInv
<1>1. Init => IInv
  <2> SUFFICES ASSUME Init PROVE IInv
    OBVIOUS
  <2>1. cycle.pod = NoPod /\ \A q \in Pods : cycle.pod # q
    BY CoschedulingAssumption DEF Init, NoCycle
  <2>2. TypeOK /\ Placement
    BY <2>1, CoschedulingAssumption DEF Init, TypeOK, Placement, Placed
  <2>3. SnapshotCovers /\ NoLostWakeup /\ Passed /\ KnownOrCut /\ CycleOpen
    BY DEF Init, SnapshotCovers, NoLostWakeup, Passed, KnownOrCut, CycleOpen
  <2>4. RejectedDenied /\ GangTogether
    BY DEF Init, RejectedDenied, GangTogether, TurnedDown, Members
  <2> QED
    BY <2>2, <2>3, <2>4 DEF IInv
<1>2. IInv /\ [Next]_vars => IInv'
  <2> SUFFICES ASSUME IInv, [Next]_vars PROVE IInv'
    OBVIOUS
  <2>1. CASE SchedulingLoop
    BY <2>1, PreFilterFailsStep, ScheduleStep, CycleFailsStep, PermitWaitStep, PermitSuccessStep
    DEF SchedulingLoop
  <2>2. CASE \E p \in Pods : BindingGoroutine(p)
    BY <2>2, GoroutineStep, UnreserveStep DEF BindingGoroutine
  <2>3. CASE Timers
    BY <2>3, TimeoutStep, QueueStep, ExpireDeniedStep DEF Timers
  <2>4. CASE Environment
    BY <2>4, QueueStep, DeletePodStep, RestartStep DEF Environment
  <2>5. CASE UNCHANGED vars
    BY <2>5 DEF vars, IInv, TypeOK, Placement, Placed, SnapshotCovers, NoLostWakeup, Passed,
       KnownOrCut, RejectedDenied, CycleOpen, GangTogether, Undecided, TurnedDown
  <2> QED
    BY <2>1, <2>2, <2>3, <2>4, <2>5 DEF Next
<1> QED
  BY <1>1, <1>2, PTL DEF Spec

(* The types of the state.                                                 *)
THEOREM TypeCorrect == Spec => []TypeOK
<1>1. IInv => TypeOK
  BY DEF IInv
<1> QED
  BY <1>1, Invariant, PTL

(* A group whose waits were not cut short goes through Permit together,    *)
(* whatever the other groups, goroutines and restarts do.                  *)
THEOREM GangsTogether == Spec => []GangTogether
<1>1. IInv => GangTogether
  BY DEF IInv
<1> QED
  BY <1>1, Invariant, PTL

(* A pod that waits undecided waits for pods that are not assigned yet.    *)
THEOREM WakeupsKept == Spec => []NoLostWakeup
<1>1. IInv => NoLostWakeup
  BY DEF IInv
<1> QED
  BY <1>1, Invariant, PTL

(* Every pod is in one place, and no pending pod is in none.               *)
THEOREM OnePlaceOnly == Spec => []OnePlace
<1>1. IInv => OnePlace
  <2> SUFFICES ASSUME IInv, NEW p \in Pods
               PROVE  LET places == {x \in {"queue", "cycle", "goroutine"} :
                                       \/ x = "queue" /\ queue[p] # "none"
                                       \/ x = "cycle" /\ cycle.pod = p
                                       \/ x = "goroutine" /\ pc[p] # "idle"}
                      IN  /\ Cardinality(places) <= 1
                          /\ stored[p] = "pending" => places # {}
                          /\ (pc[p] # "idle" \/ stored[p] = "bound") <=> p \in cache
                          /\ pc[p] = "permit" <=> waiting[p] # "none"
    BY DEF OnePlace
  <2> DEFINE places == {x \in {"queue", "cycle", "goroutine"} :
                          \/ x = "queue" /\ queue[p] # "none"
                          \/ x = "cycle" /\ cycle.pod = p
                          \/ x = "goroutine" /\ pc[p] # "idle"}
  <2>1. Placed(p)
    BY DEF IInv, Placement
  <2>2. places = {} \/ \E x : places = {x}
    <3>1. \A x, y \in places : x = y
      BY <2>1 DEF Placed
    <3> QED
      BY <3>1
  <2>3. Cardinality(places) <= 1
    <3> HIDE DEF places
    <3>1. CASE places = {}
      BY <3>1, FS_EmptySet
    <3>2. ASSUME NEW x, places = {x} PROVE Cardinality(places) = 1
      BY <3>2, FS_Singleton
    <3> QED
      BY <2>2, <3>1, <3>2
  <2>4. stored[p] = "pending" => places # {}
    BY <2>1 DEF Placed
  <2> QED
    BY <2>1, <2>3, <2>4 DEF Placed
<1> QED
  BY <1>1, Invariant, PTL
=============================================================================
