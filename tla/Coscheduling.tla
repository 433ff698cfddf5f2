---------------------------- MODULE Coscheduling ----------------------------
(***************************************************************************)
(* The Coscheduling plugin (pkg/coscheduling) and its PodGroupManager      *)
(* (pkg/coscheduling/core) in the kube-scheduler framework.                *)
(*                                                                         *)
(* Pods of a PodGroup are held at Permit until minMember of them are       *)
(* assigned to nodes; then all are let through.  The scheduling loop runs  *)
(* PreFilter, PostFilter and Permit for one pod at a time and counts the   *)
(* assigned pods on the snapshot of its cycle, while the binding goroutine *)
(* of each pod waits, binds, or undoes the assignment.  Time is abstract:  *)
(* an entry of a TTL cache may expire and a wait may time out in any step. *)
(*                                                                         *)
(* Nodes and resources are one number, the pods that fit the cluster.  The *)
(* status that PostBind writes is the subject of module PodGroup.          *)
(***************************************************************************)
EXTENDS Integers, FiniteSets

CONSTANTS
  Pods,
  Groups,        \* the names of the pod groups
  group,         \* group[p]: the label of p, or NoGroup
  minMember,     \* minMember[g]: spec.minMember
  MinResources,  \* the groups that have spec.minResources
  Capacity,      \* how many pods fit the cluster
  MaxFaults      \* bound on deletions, early timeouts, failed calls and restarts

NoGroup == "NoGroup"
NoPod == "NoPod"

ASSUME CoschedulingAssumption ==
  /\ IsFiniteSet(Pods) /\ NoPod \notin Pods
  /\ NoGroup \notin Groups
  /\ group \in [Pods -> Groups \cup {NoGroup}]
  /\ minMember \in [Groups -> Nat \ {0}]
  /\ MinResources \subseteq Groups
  /\ Capacity \in Nat
  /\ MaxFaults \in Nat

VARIABLES
  stored,     \* stored[p]: the pod object: absent, pending, bound or gone
  known,      \* the groups whose PodGroup the lister finds
  queue,      \* queue[p]: none, active, or parked (backoff and unschedulable)
  cache,      \* the pods in the scheduler cache: assumed or bound
  waiting,    \* waiting[p]: the entry of p in the framework's waiting pods,
              \* with the status that is in its channel
  pc,         \* pc[p]: where the binding goroutine of p is
  cycle,      \* the scheduling cycle under way
  denied,     \* lastDeniedPG
  permitted,  \* permittedPG
  faults,     \* how many faults happened
  through,    \* history: the pods that passed Permit
  cut         \* history: the groups that were deleted, or of which a wait was
              \* cut short by its timer or by the deletion of the pod

vars == <<stored, known, queue, cache, waiting, pc, cycle, denied, permitted,
          faults, through, cut>>

NoCycle == [pod |-> NoPod, snapshot |-> {}, at |-> "permit"]

----------------------------------------------------------------------------
Members(g) == {p \in Pods : group[p] = g}

(* GetPodGroup finds the group of p.                                       *)
HasPodGroup(p) == group[p] \in known

(* The pods the lister returns for a group.                                *)
Listed(g) == {p \in Members(g) : stored[p] \in {"pending", "bound"}}

(* CalculateAssignedPods: the pods of g in the snapshot of a cycle.        *)
Assigned(snapshot, g) == Cardinality(snapshot \cap Members(g))

(* CheckClusterResource: what the pods of other groups leave is enough.    *)
CheckClusterResource(snapshot, g) ==
  Capacity - Cardinality(snapshot \ Members(g)) >= minMember[g]

(* The waiting pods of g that have no status in their channel yet get one. *)
Decide(g, status) ==
  waiting' = [p \in Pods |->
                IF p \in Members(g) /\ waiting[p] = "open" THEN status ELSE waiting[p]]

(* Mutant: a failed pod is queued again only if it was never let through.  *)
Park_DropsPassed(p) ==
  queue' = [queue EXCEPT ![p] =
              IF stored[p] = "pending" /\ p \notin through THEN "parked" ELSE "none"]

(* MakeDefaultErrorFunc: a failed pod is queued again if it still exists   *)
(* and is not bound.                                                       *)
Park(p) == queue' = [queue EXCEPT ![p] = IF stored[p] = "pending" THEN "parked" ELSE "none"]

(* Mutant: the siblings are rejected but their group is not denied.        *)
RejectGroup_NotDenied(g) ==
  /\ Decide(g, "rejected")
  /\ permitted' = permitted \ {g}
  /\ UNCHANGED denied

(* Reject all waiting siblings, AddDeniedPodGroup, DeletePermittedPodGroup *)
RejectGroup(g) ==
  /\ Decide(g, "rejected")
  /\ denied' = denied \cup {g}
  /\ permitted' = permitted \ {g}

----------------------------------------------------------------------------
Init ==
  /\ stored = [p \in Pods |-> "absent"]
  /\ known = {}
  /\ queue = [p \in Pods |-> "none"]
  /\ cache = {}
  /\ waiting = [p \in Pods |-> "none"]
  /\ pc = [p \in Pods |-> "idle"]
  /\ cycle = NoCycle
  /\ denied = {}
  /\ permitted = {}
  /\ faults = 0
  /\ through = {}
  /\ cut = {}

----------------------------------------------------------------------------
(* Users and the informer.                                                 *)

CreatePod(p) ==
  /\ stored[p] = "absent"
  /\ stored' = [stored EXCEPT ![p] = "pending"]
  /\ queue' = [queue EXCEPT ![p] = "active"]
  /\ UNCHANGED <<known, cache, waiting, pc, cycle, denied, permitted, faults, through, cut>>

(* deletePodFromSchedulingQueue, with RejectWaitingPod, and                *)
(* deletePodFromCache.                                                     *)
DeletePod(p) ==
  /\ faults < MaxFaults
  /\ faults' = faults + 1
  /\ stored[p] \in {"pending", "bound"}
  /\ stored' = [stored EXCEPT ![p] = "gone"]
  /\ queue' = [queue EXCEPT ![p] = "none"]
  /\ cache' = IF stored[p] = "bound" THEN cache \ {p} ELSE cache
  /\ waiting' = [waiting EXCEPT ![p] = IF @ = "open" THEN "rejected" ELSE @]
  /\ cut' = IF waiting[p] = "open" THEN cut \cup {group[p]} ELSE cut
  /\ UNCHANGED <<known, pc, cycle, denied, permitted, through>>

CreateGroup(g) ==
  /\ g \notin known
  /\ known' = known \cup {g}
  /\ UNCHANGED <<stored, queue, cache, waiting, pc, cycle, denied, permitted, faults, through, cut>>

DeleteGroup(g) ==
  /\ faults < MaxFaults
  /\ g \in known
  /\ known' = known \ {g}
  /\ faults' = faults + 1
  /\ cut' = cut \cup {g}
  /\ UNCHANGED <<stored, queue, cache, waiting, pc, cycle, denied, permitted, through>>

(* A cluster event or the periodic flush makes p active again.             *)
Retry(p) ==
  /\ queue[p] = "parked"
  /\ queue' = [queue EXCEPT ![p] = "active"]
  /\ UNCHANGED <<stored, known, cache, waiting, pc, cycle, denied, permitted, faults, through, cut>>

----------------------------------------------------------------------------
(* The scheduling loop.                                                    *)

CanPop(p) == cycle = NoCycle /\ queue[p] = "active" /\ p \notin cache

(* PreFilter refuses a pod of a denied group, and one whose group has too  *)
(* few pods ...                                                            *)
Refused(p) ==
  /\ HasPodGroup(p)
  /\ \/ group[p] \in denied
     \/ Cardinality(Listed(group[p])) < minMember[group[p]]

(* ... and checks the resources of a group that was not permitted lately.  *)
NeedsResourceCheck(p) ==
  /\ HasPodGroup(p)
  /\ group[p] \in MinResources \ permitted

LacksResources(p) ==
  NeedsResourceCheck(p) /\ ~CheckClusterResource(cache, group[p])

(* PostFilter leaves a group alone that has enough pods assigned, or lacks *)
(* at most a tenth of them.                                                *)
PostFilterRejects(snapshot, g) ==
  LET gap == minMember[g] - Assigned(snapshot, g)
  IN  gap > 0 /\ 10 * gap > minMember[g]

PostFilter(p, snapshot) ==
  IF HasPodGroup(p) /\ PostFilterRejects(snapshot, group[p])
    THEN RejectGroup(group[p])
    ELSE UNCHANGED <<waiting, denied, permitted>>

(* PreFilter fails and PostFilter runs, both in the loop.  A group without *)
(* enough resources is denied by PreFilter itself.                         *)
PreFilterFails(p) ==
  /\ CanPop(p)
  /\ Refused(p) \/ LacksResources(p)
  /\ Park(p)
  /\ IF PostFilterRejects(cache, group[p])
       THEN RejectGroup(group[p])
       ELSE /\ denied' = IF Refused(p) THEN denied ELSE denied \cup {group[p]}
            /\ UNCHANGED <<waiting, permitted>>
  /\ UNCHANGED <<stored, known, cache, pc, cycle, faults, through, cut>>

(* A snapshot, PreFilter, and Filter on all nodes.                         *)
Schedule(p) ==
  /\ CanPop(p)
  /\ ~Refused(p) /\ ~LacksResources(p)
  /\ permitted' = IF NeedsResourceCheck(p) THEN permitted \cup {group[p]} ELSE permitted
  /\ cycle' = [pod |-> p, snapshot |-> cache,
               at |-> IF Cardinality(cache) < Capacity THEN "permit" ELSE "postfilter"]
  /\ queue' = [queue EXCEPT ![p] = "none"]
  /\ UNCHANGED <<stored, known, cache, waiting, pc, denied, faults, through, cut>>

(* No node fits.                                                           *)
FilterFails ==
  /\ cycle # NoCycle /\ cycle.at = "postfilter"
  /\ Park(cycle.pod)
  /\ PostFilter(cycle.pod, cycle.snapshot)
  /\ cycle' = NoCycle
  /\ UNCHANGED <<stored, known, cache, pc, faults, through, cut>>

(* Mutant: Unreserve does not ask whether there is a PodGroup.             *)
UnreserveEffect_Unchecked(p) == RejectGroup(group[p])

(* Unreserve of this plugin.                                               *)
UnreserveEffect(p) ==
  IF HasPodGroup(p) THEN RejectGroup(group[p]) ELSE UNCHANGED <<waiting, denied, permitted>>

(* Reserve of another plugin fails, or Permit finds no PodGroup: Unreserve *)
(* and ForgetPod in the same cycle.                                        *)
CycleFails ==
  /\ cycle # NoCycle /\ cycle.at = "permit"
  /\ LET p == cycle.pod IN
     /\ \/ faults < MaxFaults /\ faults' = faults + 1
        \/ group[p] # NoGroup /\ ~HasPodGroup(p) /\ UNCHANGED faults
     /\ UnreserveEffect(p)
     /\ Park(p)
  /\ cycle' = NoCycle
  /\ UNCHANGED <<stored, known, cache, pc, through, cut>>

(* Mutant: the pod of the cycle is taken to be in the snapshot.            *)
Quorum_InSnapshot(p) == Assigned(cycle.snapshot, group[p]) >= minMember[group[p]]

(* Permit: the snapshot does not have the pod of the cycle itself.         *)
Quorum(p) == Assigned(cycle.snapshot, group[p]) + 1 >= minMember[group[p]]

(* Too few pods: the pod waits, and ActivateSiblings.                      *)
PermitWait ==
  /\ cycle # NoCycle /\ cycle.at = "permit"
  /\ LET p == cycle.pod IN
     /\ HasPodGroup(p)
     /\ ~Quorum(p)
     /\ cache' = cache \cup {p}
     /\ waiting' = [waiting EXCEPT ![p] = "open"]
     /\ pc' = [pc EXCEPT ![p] = "permit"]
     /\ queue' = [q \in Pods |->
                    IF q \in Listed(group[p]) \ {p} /\ queue[q] = "parked"
                      THEN "active" ELSE queue[q]]
  /\ cycle' = NoCycle
  /\ UNCHANGED <<stored, known, denied, permitted, faults, through, cut>>

(* Enough pods, or none needed: the pod and all waiting siblings go on.    *)
PermitSuccess ==
  /\ cycle # NoCycle /\ cycle.at = "permit"
  /\ LET p == cycle.pod
         released == {q \in Members(group[p]) : waiting[q] = "open"}
     IN
     /\ group[p] = NoGroup \/ (HasPodGroup(p) /\ Quorum(p))
     /\ cache' = cache \cup {p}
     /\ pc' = [pc EXCEPT ![p] = "bind"]
     /\ IF group[p] = NoGroup
          THEN through' = through \cup {p} /\ UNCHANGED waiting
          ELSE through' = through \cup {p} \cup released /\ Decide(group[p], "allowed")
  /\ cycle' = NoCycle
  /\ UNCHANGED <<stored, known, queue, denied, permitted, faults, cut>>

----------------------------------------------------------------------------
(* The binding goroutine of p, and the timer of its wait.                  *)

(* WaitOnPermit receives the status and removes p from the waiting pods.   *)
WaitOnPermit(p) ==
  /\ pc[p] = "permit" /\ waiting[p] \in {"allowed", "rejected"}
  /\ pc' = [pc EXCEPT ![p] = IF waiting[p] = "allowed" THEN "bind" ELSE "undo"]
  /\ waiting' = [waiting EXCEPT ![p] = "none"]
  /\ UNCHANGED <<stored, known, queue, cache, cycle, denied, permitted, faults, through, cut>>

(* No sibling of p is about to pass Permit.                                *)
NoSiblingActive(p) ==
  \/ ~HasPodGroup(p)
  \/ /\ cycle.pod \notin Members(group[p])
     /\ \A q \in Members(group[p]) : queue[q] # "active"

(* Mutant: a wait time that is not set starts no timer.                    *)
Timeout_NotSet(p) == waiting[p] = "open" /\ FALSE /\ UNCHANGED vars

(* The wait time is over.  A wait time is much longer than a scheduling    *)
(* cycle: only a bounded number of timers fire while a sibling is active.  *)
Timeout(p) ==
  /\ waiting[p] = "open"
  /\ \/ NoSiblingActive(p) /\ UNCHANGED faults
     \/ ~NoSiblingActive(p) /\ faults < MaxFaults /\ faults' = faults + 1
  /\ waiting' = [waiting EXCEPT ![p] = "rejected"]
  /\ cut' = cut \cup {group[p]}
  /\ UNCHANGED <<stored, known, queue, cache, pc, cycle, denied, permitted, through>>

Bind(p) ==
  /\ pc[p] = "bind" /\ stored[p] = "pending"
  /\ stored' = [stored EXCEPT ![p] = "bound"]
  /\ pc' = [pc EXCEPT ![p] = "idle"]
  /\ UNCHANGED <<known, queue, cache, waiting, cycle, denied, permitted, faults, through, cut>>

(* The pod is gone, or PreBind or the call fails.                          *)
BindFails(p) ==
  /\ pc[p] = "bind"
  /\ \/ stored[p] # "pending" /\ UNCHANGED faults
     \/ stored[p] = "pending" /\ faults < MaxFaults /\ faults' = faults + 1
  /\ pc' = [pc EXCEPT ![p] = "undo"]
  /\ UNCHANGED <<stored, known, queue, cache, waiting, cycle, denied, permitted, through, cut>>

Unreserve(p) ==
  /\ pc[p] = "undo"
  /\ UnreserveEffect(p)
  /\ pc' = [pc EXCEPT ![p] = "forget"]
  /\ UNCHANGED <<stored, known, queue, cache, cycle, faults, through, cut>>

Forget(p) ==
  /\ pc[p] = "forget"
  /\ cache' = cache \ {p}
  /\ Park(p)
  /\ pc' = [pc EXCEPT ![p] = "idle"]
  /\ UNCHANGED <<stored, known, waiting, cycle, denied, permitted, faults, through, cut>>

----------------------------------------------------------------------------
(* The TTL caches, crash and restart.                                      *)

(* Mutant: only a permitted group loses its denial.                        *)
ExpireDenied_WhenPermitted(g) ==
  /\ g \in denied /\ g \in permitted
  /\ denied' = denied \ {g}
  /\ UNCHANGED <<stored, known, queue, cache, waiting, pc, cycle, permitted, faults, through, cut>>

(* A denial lasts for seconds: the goroutines of the rejected pods are     *)
(* done by then.                                                           *)
ExpireDenied(g) ==
  /\ g \in denied
  /\ \A p \in Members(g) : waiting[p] # "rejected" /\ pc[p] \notin {"undo", "forget"}
  /\ denied' = denied \ {g}
  /\ UNCHANGED <<stored, known, queue, cache, waiting, pc, cycle, permitted, faults, through, cut>>

ExpirePermitted(g) ==
  /\ g \in permitted
  /\ permitted' = permitted \ {g}
  /\ UNCHANGED <<stored, known, queue, cache, waiting, pc, cycle, denied, faults, through, cut>>

(* The scheduler dies and a new one starts.  Binding requests on the way   *)
(* are stored or not.                                                      *)
Restart ==
  /\ faults < MaxFaults
  /\ faults' = faults + 1
  /\ \E sent \in SUBSET {p \in Pods : pc[p] = "bind" /\ stored[p] = "pending"} :
       LET now == [p \in Pods |-> IF p \in sent THEN "bound" ELSE stored[p]] IN
       /\ stored' = now
       /\ queue' = [p \in Pods |-> IF now[p] = "pending" THEN "active" ELSE "none"]
       /\ cache' = {p \in Pods : now[p] = "bound"}
  /\ waiting' = [p \in Pods |-> "none"]
  /\ pc' = [p \in Pods |-> "idle"]
  /\ cycle' = NoCycle
  /\ denied' = {}
  /\ permitted' = {}
  /\ UNCHANGED <<known, through, cut>>

----------------------------------------------------------------------------
SchedulingLoop ==
  \/ \E p \in Pods : PreFilterFails(p) \/ Schedule(p)
  \/ FilterFails \/ CycleFails \/ PermitWait \/ PermitSuccess

BindingGoroutine(p) ==
  WaitOnPermit(p) \/ Bind(p) \/ BindFails(p) \/ Unreserve(p) \/ Forget(p)

Timers ==
  \/ \E p \in Pods : Timeout(p) \/ Retry(p)
  \/ \E g \in Groups : ExpireDenied(g) \/ ExpirePermitted(g)

Environment ==
  \/ \E p \in Pods : CreatePod(p) \/ DeletePod(p)
  \/ \E g \in Groups : CreateGroup(g) \/ DeleteGroup(g)
  \/ Restart

Next ==
  \/ SchedulingLoop
  \/ \E p \in Pods : BindingGoroutine(p)
  \/ Timers
  \/ Environment

Spec == Init /\ [][Next]_vars

(* The loop, the goroutines and the timers keep running.  The queue serves *)
(* every pod that is active again and again, and a timer that may fire     *)
(* again and again does.                                                   *)
Fairness ==
  /\ \A p \in Pods :
       /\ WF_vars(BindingGoroutine(p))
       /\ WF_vars(Retry(p))
       /\ SF_vars(Timeout(p))
       /\ SF_vars(Schedule(p) \/ PreFilterFails(p))
  /\ WF_vars(FilterFails \/ CycleFails \/ PermitWait \/ PermitSuccess)
  /\ \A g \in Groups : WF_vars(ExpireDenied(g)) /\ WF_vars(ExpirePermitted(g))

FairSpec == Spec /\ Fairness
----------------------------------------------------------------------------
(* Properties.                                                             *)

(* Type correctness of the model's state.                                  *)
TypeOK ==
  /\ stored \in [Pods -> {"absent", "pending", "bound", "gone"}]
  /\ known \subseteq Groups
  /\ queue \in [Pods -> {"none", "active", "parked"}]
  /\ cache \subseteq Pods
  /\ waiting \in [Pods -> {"none", "open", "allowed", "rejected"}]
  /\ pc \in [Pods -> {"idle", "permit", "bind", "undo", "forget"}]
  /\ cycle \in [pod : Pods, snapshot : SUBSET Pods, at : {"permit", "postfilter"}] \cup {NoCycle}
  /\ denied \subseteq Groups
  /\ permitted \subseteq Groups
  /\ faults \in 0 .. MaxFaults
  /\ through \subseteq Pods
  /\ cut \subseteq Groups

(* A group goes through Permit together: as long as no wait of the group   *)
(* was cut short by a timer or a deletion, and the PodGroup was not        *)
(* deleted, either no pod or at least minMember pods have passed, although *)
(* Permit counts on a snapshot and PostFilter and Unreserve reject waiting *)
(* pods it may have counted.                                               *)
GangTogether ==
  \A g \in Groups \ cut :
    \/ through \cap Members(g) = {}
    \/ Cardinality(through \cap Members(g)) >= minMember[g]

(* What "will not start anyone" promises: GangTogether for every group.    *)
GangAlways ==
  \A g \in Groups :
    \/ through \cap Members(g) = {}
    \/ Cardinality(through \cap Members(g)) >= minMember[g]

(* No lost wake-up: while a pod of a group waits undecided, the group has  *)
(* fewer than minMember pods assigned.  The pod that completes the group   *)
(* always releases the ones that wait.                                     *)
NoLostWakeup ==
  \A p \in Pods : waiting[p] = "open" =>
    Cardinality(cache \cap Members(group[p])) < minMember[group[p]]

(* Every pod is in exactly one place: queued, in a cycle, or with its      *)
(* binding goroutine; a pending pod is never in none of them, so no        *)
(* rejection, timeout, failure or restart forgets it.                      *)
OnePlace ==
  \A p \in Pods :
    LET places == {x \in {"queue", "cycle", "goroutine"} :
                     \/ x = "queue" /\ queue[p] # "none"
                     \/ x = "cycle" /\ cycle.pod = p
                     \/ x = "goroutine" /\ pc[p] # "idle"}
    IN  /\ Cardinality(places) <= 1
        /\ stored[p] = "pending" => places # {}
        /\ (pc[p] # "idle" \/ stored[p] = "bound") <=> p \in cache
        /\ pc[p] = "permit" <=> waiting[p] # "none"

(* Every wait ends.                                                        *)
WaitsEnd == \A p \in Pods : []<>(waiting[p] # "open")

(* A group that has its PodGroup and minMember pods or more.               *)
Formed(p) ==
  \/ group[p] = NoGroup
  \/ HasPodGroup(p) /\ Cardinality(Listed(group[p])) >= minMember[group[p]]

(* There is room for every pod that there is.                              *)
RoomForAll == Cardinality({q \in Pods : stored[q] \in {"pending", "bound"}}) <= Capacity

(* While there is room for all pods, no pod whose group is formed stays    *)
(* pending for ever: rejections and denials do not go on without end, also *)
(* after times when there was no room, and no pod that is gone keeps its   *)
(* place.                                                                  *)
GroupsGetThrough ==
  \A p \in Pods : ~<>[](stored[p] = "pending" /\ Formed(p) /\ RoomForAll)
=============================================================================
