------------------------- MODULE ElasticQuotaProofs -------------------------
(***************************************************************************)
(* The status that the ElasticQuota controller writes, for any pods,       *)
(* requests, limits and any number of changes and faults.                  *)
(***************************************************************************)
EXTENDS ElasticQuotaController, SumProofs

(* The sum of one resource over running pods is a natural number.          *)
LEMMA UsedSumNat ==
  ASSUME NEW running \in SUBSET Pods, NEW r
  PROVE  SumOver([p \in running |-> At(Requests[p], r)], running) \in Nat
<1>1. [p \in running |-> At(Requests[p], r)] \in [running -> Nat]
  BY RequestsAssumption DEF At
<1>2. IsFiniteSet(running)
  BY ControllerAssumption, FS_Subset
<1>3. running \in SUBSET running
  OBVIOUS
<1> QED
  BY <1>1, <1>2, <1>3, UnitsFinite

(* The usage that the controller computes is a resource list.              *)
LEMMA UsedIsList ==
  ASSUME NEW quota, quota.names \in SUBSET ResourceNames
  PROVE  IsList(computeElasticQuotaUsed(quota))
<1> DEFINE running == {p \in Pods : podLister[p] = "Running"}
           D == quota.names \cup UNION {DOMAIN Requests[p] : p \in running}
           u == computeElasticQuotaUsed(quota)
<1>1. running \in SUBSET Pods
  OBVIOUS
<1>2. u = [r \in D |-> At(newZeroUsed(quota), r)
                         + SumOver([p \in running |-> At(Requests[p], r)], running)]
  BY DEF computeElasticQuotaUsed, UsedOf
<1>3. D \subseteq ResourceNames
  <2>1. UNION {DOMAIN Requests[p] : p \in running} \subseteq ResourceNames
    BY <1>1, Zenon DEF ResourceNames
  <2> QED
    BY <2>1
<1> HIDE DEF running, D, u
<1>4. ASSUME NEW r \in D PROVE u[r] \in Nat
  <2>1. SumOver([p \in running |-> At(Requests[p], r)], running) \in Nat
    BY <1>1, UsedSumNat
  <2>2. At(newZeroUsed(quota), r) \in Nat
    BY DEF At, newZeroUsed
  <2>3. u[r] = At(newZeroUsed(quota), r)
                 + SumOver([p \in running |-> At(Requests[p], r)], running)
    BY <1>2, <1>4
  <2> QED
    BY <2>1, <2>2, <2>3
<1>5. DOMAIN u = D /\ u \in [D -> Nat]
  BY <1>2, <1>4
<1> QED
  BY <1>3, <1>5 DEF IsList, u

(* The patch between two lists is a patch, and it is not the absence of    *)
(* one.                                                                    *)
LEMMA MergePatchType ==
  ASSUME NEW old, NEW new, IsList(old), IsList(new)
  PROVE  IsPatch(MergePatch(old, new)) /\ MergePatch(old, new) # NoPatch
<1> DEFINE p == MergePatch(old, new)
           D == {n \in DOMAIN new : n \notin DOMAIN old \/ new[n] # old[n]}
<1>1. p = [set |-> [r \in D |-> new[r]], null |-> DOMAIN old \ DOMAIN new]
  BY DEF MergePatch
<1>2. DOMAIN p.set = D /\ p.set \in [D -> Nat] /\ D \subseteq ResourceNames
  BY <1>1 DEF IsList
<1>3. p.null \subseteq ResourceNames
  BY <1>1 DEF IsList
<1>4. p \in [set : {p.set}, null : SUBSET ResourceNames]
  BY <1>1, <1>3
<1>5. p # NoPatch
  <2>1. DOMAIN NoPatch = {"none"} /\ DOMAIN p = {"set", "null"}
    BY <1>1 DEF NoPatch
  <2> QED
    BY <2>1
<1> QED
  BY <1>2, <1>4, <1>5 DEF IsPatch, IsList

(* Applying a patch to a list yields a list.                               *)
LEMMA ApplyType ==
  ASSUME NEW used, NEW p, IsList(used), IsPatch(p)
  PROVE  IsList(Apply(used, p))
<1> DEFINE D == (DOMAIN used \cup DOMAIN p.set) \ p.null
           a == Apply(used, p)
<1>1. a = [r \in D |-> IF r \in DOMAIN p.set THEN p.set[r] ELSE used[r]]
  BY DEF Apply
<1>2. D \subseteq ResourceNames
  BY DEF IsList, IsPatch
<1>3. \A r \in D : a[r] \in Nat
  BY <1>1 DEF IsList, IsPatch
<1> HIDE DEF a, D
<1> QED
  BY <1>1, <1>2, <1>3 DEF IsList, a

(* A patch between two different lists changes the first one, whatever     *)
(* list it is applied to: the informer has something to report.            *)
LEMMA PatchShows ==
  ASSUME NEW old, NEW new, NEW used, IsList(old), IsList(new), old # new
  PROVE  Apply(used, MergePatch(old, new)) # old
<1> DEFINE D == {n \in DOMAIN new : n \notin DOMAIN old \/ new[n] # old[n]}
           null == DOMAIN old \ DOMAIN new
           set == [r \in D |-> new[r]]
           E == (DOMAIN used \cup D) \ null
           a == Apply(used, MergePatch(old, new))
<1>1. a = [r \in E |-> IF r \in D THEN set[r] ELSE used[r]]
  BY DEF Apply, MergePatch
<1>2. CASE \E r \in DOMAIN new : r \notin DOMAIN old \/ new[r] # old[r]
  <2> PICK r \in DOMAIN new : r \notin DOMAIN old \/ new[r] # old[r]
    BY <1>2
  <2>1. r \in DOMAIN a /\ a[r] = new[r]
    BY <1>1
  <2> QED
    BY <2>1
<1>3. CASE \A r \in DOMAIN new : r \in DOMAIN old /\ new[r] = old[r]
  <2>1. PICK r \in DOMAIN old : r \notin DOMAIN new
    BY <1>3 DEF IsList
  <2>2. r \notin DOMAIN a
    BY <1>1, <2>1
  <2> QED
    BY <2>1, <2>2
<1> QED
  BY <1>2, <1>3

----------------------------------------------------------------------------
(* The inductive invariant.                                                *)

(* A uid is that of an operation that has happened, and only a quota that  *)
(* exists has one.                                                         *)
UidsFresh ==
  /\ eq.uid <= ops /\ eqLister.uid <= ops
  /\ eq.exists <=> eq.uid > 0
  /\ eqLister.exists <=> eqLister.uid > 0

(* A patch under way without a key in the queue was computed from what the *)
(* listers have now.                                                       *)
PatchCurrent ==
  ~eqQueue /\ patch # NoPatch =>
    /\ eqLister.exists
    /\ computeElasticQuotaUsed(eqLister) # eqLister.used
    /\ patch = MergePatch(eqLister.used, computeElasticQuotaUsed(eqLister))

(* A status in the lister that is wrong, with nothing under way, is not    *)
(* the one in the API server: an event of the quota is still to come.      *)
WrongIsStale ==
  /\ ~eqQueue /\ patch = NoPatch /\ ~missed /\ eqLister.exists
  /\ computeElasticQuotaUsed(eqLister) # eqLister.used
  => eq.uid # eqLister.uid \/ eq.used # eqLister.used

IInv == TypeOK /\ UidsFresh /\ PatchCurrent /\ WrongIsStale

----------------------------------------------------------------------------
(* The empty list and the quota that is not there have their types.        *)
LEMMA InitialTypes == IsList(Empty) /\ IsQuota(NoQuota)
<1>1. DOMAIN Empty = {} /\ Empty \in [{} -> Nat]
  BY DEF Empty
<1>2. IsList(Empty)
  BY <1>1 DEF IsList
<1> QED
  BY <1>2, ControllerAssumption DEF IsQuota, NoQuota

(* Init establishes the invariant.                                         *)
LEMMA InvariantInit == Init => IInv
<1> SUFFICES ASSUME Init PROVE IInv
  OBVIOUS
<1>1. TypeOK
  <2>1. IsQuota(eq) /\ IsQuota(eqLister)
    BY InitialTypes, Zenon DEF Init
  <2>2. ops \in 0 .. MaxOps /\ faults \in 0 .. MaxFaults
    BY ControllerAssumption DEF Init
  <2>3. /\ pods \in [Pods -> {"none", "Pending", "Running", "Succeeded"}]
        /\ podLister \in [Pods -> {"none", "Pending", "Running", "Succeeded"}]
    BY DEF Init
  <2> QED
    BY <2>1, <2>2, <2>3, Zenon DEF Init, TypeOK
<1>2. UidsFresh
  BY DEF Init, UidsFresh, NoQuota
<1>3. PatchCurrent /\ WrongIsStale
  BY DEF Init, PatchCurrent, WrongIsStale, NoQuota
<1> QED
  BY <1>1, <1>2, <1>3 DEF IInv

(* The world changes pods only: nothing the controller has depends on it.  *)
LEMMA WorldStep ==
  ASSUME IInv, NEW p \in Pods, Start(p) \/ End(p) \/ DeletePod(p)
  PROVE  IInv'
<1>1. UNCHANGED <<podLister, eq, eqLister, eqQueue, patch, missed, ops, faults>>
  BY DEF Start, End, DeletePod
<1>2. pods' \in [Pods -> {"none", "Pending", "Running", "Succeeded"}]
  BY DEF Start, End, DeletePod, IInv, TypeOK
<1>3. TypeOK'
  BY <1>1, <1>2 DEF IInv, TypeOK
<1>4. UidsFresh'
  BY <1>1 DEF IInv, UidsFresh
<1>5. PatchCurrent' /\ WrongIsStale'
  BY <1>1 DEF IInv, PatchCurrent, WrongIsStale, computeElasticQuotaUsed
<1> QED
  BY <1>3, <1>4, <1>5 DEF IInv

(* A quota that is changed keeps its uid and its status, one that is       *)
(* created or deleted gets a uid that the lister has not seen.             *)
LEMMA QuotaStep ==
  ASSUME IInv, (\E names \in Names : SetQuota(names)) \/ DeleteQuota
  PROVE  IInv'
<1>1. /\ UNCHANGED <<pods, podLister, eqLister, eqQueue, patch, missed, faults>>
      /\ ops < MaxOps /\ ops' = ops + 1
  BY DEF SetQuota, DeleteQuota, ChangeQuota
<1>2. ops \in 0 .. MaxOps /\ IsQuota(eq) /\ IsQuota(eqLister)
  BY DEF IInv, TypeOK
<1>3. ASSUME NEW names \in Names, SetQuota(names)
      PROVE  /\ IsQuota(eq') /\ eq'.exists /\ eq'.used = eq.used
             /\ eq'.uid = IF eq.exists THEN eq.uid ELSE ops + 1
  <2>1. eq' = [eq EXCEPT !.names = names, !.exists = TRUE,
                         !.uid = IF eq.exists THEN @ ELSE ops + 1]
    BY <1>3 DEF SetQuota, ChangeQuota
  <2>2. names \in SUBSET ResourceNames
    BY DEF ResourceNames
  <2>3. IsList(eq.used) /\ eq.uid \in 0 .. MaxOps
    BY <1>2 DEF IsQuota
  <2>4. (IF eq.exists THEN eq.uid ELSE ops + 1) \in 0 .. MaxOps
    BY <1>1, <1>2, <2>3, ControllerAssumption
  <2>5. eq' = [uid |-> IF eq.exists THEN eq.uid ELSE ops + 1, names |-> names,
               used |-> eq.used, exists |-> TRUE]
    BY <1>2, <2>1 DEF IsQuota
  <2> QED
    BY <2>2, <2>3, <2>4, <2>5 DEF IsQuota
<1>4. ASSUME DeleteQuota
      PROVE  eq' = NoQuota
  BY <1>4 DEF DeleteQuota, ChangeQuota
<1>5. TypeOK'
  <2>1. IsQuota(eq') /\ (eq'.exists \/ eq' = NoQuota)
    BY <1>3, <1>4, InitialTypes
  <2>2. ops' \in 0 .. MaxOps
    BY <1>1, <1>2, ControllerAssumption
  <2> QED
    BY <1>1, <2>1, <2>2 DEF IInv, TypeOK
<1>6. eqLister.uid \in Nat /\ eq.uid \in Nat /\ ops \in Nat
  BY <1>2, ControllerAssumption DEF IsQuota
<1>7. UidsFresh'
  <2>1. CASE \E names \in Names : SetQuota(names)
    BY <1>1, <1>3, <1>6, <2>1 DEF IInv, UidsFresh
  <2>2. CASE DeleteQuota
    BY <1>1, <1>4, <1>6, <2>2 DEF IInv, UidsFresh, NoQuota
  <2> QED
    BY <2>1, <2>2
<1>8. PatchCurrent'
  BY <1>1 DEF IInv, PatchCurrent, computeElasticQuotaUsed
<1>9. ASSUME eqLister.exists, eq.uid # eqLister.uid \/ eq.used # eqLister.used
      PROVE  eq'.uid # eqLister.uid \/ eq'.used # eqLister.used
  <2>1. CASE \E names \in Names : SetQuota(names)
    BY <1>3, <1>6, <1>9, <2>1 DEF IInv, UidsFresh
  <2>2. CASE DeleteQuota
    BY <1>4, <1>6, <1>9, <2>2 DEF IInv, UidsFresh, NoQuota
  <2> QED
    BY <2>1, <2>2
<1>10. WrongIsStale'
  BY <1>1, <1>9 DEF IInv, WrongIsStale, computeElasticQuotaUsed
<1> QED
  BY <1>5, <1>7, <1>8, <1>10 DEF IInv

(* An event of the quota leaves its key in the queue.                      *)
LEMMA QuotaEventStep ==
  ASSUME IInv, eqEvent
  PROVE  IInv'
<1>1. TypeOK'
  BY DEF eqEvent, Enqueued, IInv, TypeOK
<1>2. UidsFresh'
  BY DEF eqEvent, IInv, UidsFresh
<1>3. PatchCurrent' /\ WrongIsStale'
  BY DEF eqEvent, Enqueued, PatchCurrent, WrongIsStale
<1> QED
  BY <1>1, <1>2, <1>3 DEF IInv

(* An event of a pod leaves the key in the queue, unless there is no quota *)
(* to compute a usage for.                                                 *)
LEMMA PodEventStep ==
  ASSUME IInv, NEW p \in Pods, podEvent(p)
  PROVE  IInv'
<1>1. TypeOK'
  BY DEF podEvent, IInv, TypeOK, IsQuota
<1>2. UidsFresh'
  BY DEF podEvent, IInv, UidsFresh
<1>3. PatchCurrent' /\ WrongIsStale'
  <2>1. CASE eqLister.exists
    BY <2>1 DEF podEvent, PatchCurrent, WrongIsStale
  <2>2. CASE ~eqLister.exists
    BY <2>2 DEF podEvent, IInv, PatchCurrent, WrongIsStale
  <2> QED
    BY <2>1, <2>2
<1> QED
  BY <1>1, <1>2, <1>3 DEF IInv

(* The worker leaves no key behind, but a patch when one is due.           *)
LEMMA SyncStep ==
  ASSUME IInv, syncHandler
  PROVE  IInv'
<1> DEFINE used == computeElasticQuotaUsed(eqLister)
<1>1. IsList(used) /\ IsList(eqLister.used)
  BY UsedIsList DEF IInv, TypeOK, IsQuota
<1>2. IsPatch(MergePatch(eqLister.used, used)) /\ MergePatch(eqLister.used, used) # NoPatch
  BY <1>1, MergePatchType
<1>3. /\ patch' = IF ~eqLister.exists \/ used = eqLister.used THEN NoPatch
                  ELSE MergePatch(eqLister.used, used)
      /\ eqQueue' = FALSE /\ missed' = FALSE
      /\ UNCHANGED <<pods, podLister, eq, eqLister, ops, faults>>
  BY DEF syncHandler
<1>4. computeElasticQuotaUsed(eqLister)' = used
  BY <1>3 DEF computeElasticQuotaUsed
<1> HIDE DEF used
<1>5. TypeOK'
  BY <1>2, <1>3 DEF IInv, TypeOK
<1>6. UidsFresh'
  BY <1>3 DEF IInv, UidsFresh
<1>7. PatchCurrent' /\ WrongIsStale'
  BY <1>2, <1>3, <1>4 DEF PatchCurrent, WrongIsStale
<1> QED
  BY <1>5, <1>6, <1>7 DEF IInv

(* The patch that the API server takes changes the status from the one     *)
(* that the worker read, whatever the quota is by now.                     *)
LEMMA PatchStep ==
  ASSUME IInv, Patch
  PROVE  IInv'
<1>1. /\ patch # NoPatch /\ eq.exists /\ eq' = [eq EXCEPT !.used = Apply(eq.used, patch)]
      /\ patch' = NoPatch
      /\ UNCHANGED <<pods, podLister, eqLister, eqQueue, missed, ops, faults>>
  BY DEF Patch
<1>2. IsQuota(eq) /\ IsPatch(patch) /\ IsList(eq.used)
  BY <1>1 DEF IInv, TypeOK, IsQuota
<1>3. IsList(Apply(eq.used, patch))
  BY <1>2, ApplyType
<1>4. /\ eq'.used = Apply(eq.used, patch) /\ eq'.uid = eq.uid
      /\ eq'.names = eq.names /\ eq'.exists = eq.exists
      /\ IsQuota(eq')
  BY <1>1, <1>2, <1>3 DEF IsQuota
<1>5. TypeOK'
  BY <1>1, <1>4 DEF IInv, TypeOK
<1>6. UidsFresh'
  BY <1>1, <1>4 DEF IInv, UidsFresh
<1>7. PatchCurrent'
  BY <1>1 DEF PatchCurrent
<1>8. ASSUME ~eqQueue PROVE eq'.used # eqLister.used
  <2>1. /\ computeElasticQuotaUsed(eqLister) # eqLister.used
        /\ patch = MergePatch(eqLister.used, computeElasticQuotaUsed(eqLister))
    BY <1>1, <1>8 DEF IInv, PatchCurrent
  <2>2. IsList(computeElasticQuotaUsed(eqLister)) /\ IsList(eqLister.used)
    BY UsedIsList DEF IInv, TypeOK, IsQuota
  <2>3. Apply(eq.used, MergePatch(eqLister.used, computeElasticQuotaUsed(eqLister)))
          # eqLister.used
    BY <2>1, <2>2, PatchShows
  <2> QED
    BY <1>4, <2>1, <2>3
<1>9. WrongIsStale'
  BY <1>1, <1>8 DEF WrongIsStale
<1> QED
  BY <1>5, <1>6, <1>7, <1>9 DEF IInv

(* A patch that fails is remembered as missed; a restart forgets the       *)
(* quota.                                                                  *)
LEMMA FaultStep ==
  ASSUME IInv, PatchFails \/ Restart
  PROVE  IInv'
<1>1. CASE PatchFails
  <2>1. TypeOK'
    BY <1>1, ControllerAssumption DEF PatchFails, IInv, TypeOK
  <2>2. UidsFresh' /\ PatchCurrent' /\ WrongIsStale'
    BY <1>1 DEF PatchFails, IInv, UidsFresh, PatchCurrent, WrongIsStale
  <2> QED
    BY <2>1, <2>2 DEF IInv
<1>2. CASE Restart
  <2>1. TypeOK'
    <3>1. IsQuota(eqLister)'
      BY <1>2, InitialTypes, Zenon DEF Restart, IsQuota
    <3>2. faults' \in 0 .. MaxFaults
      BY <1>2, ControllerAssumption DEF Restart, IInv, TypeOK
    <3>3. podLister' \in [Pods -> {"none", "Pending", "Running", "Succeeded"}]
      BY <1>2 DEF Restart
    <3>4. /\ UNCHANGED <<pods, eq, ops>>
          /\ eqQueue' = FALSE /\ patch' = NoPatch /\ missed' = FALSE
      BY <1>2 DEF Restart
    <3> QED
      BY <3>1, <3>2, <3>3, <3>4 DEF IInv, TypeOK
  <2>2. UidsFresh'
    BY <1>2, ControllerAssumption DEF Restart, IInv, TypeOK, UidsFresh, NoQuota
  <2>3. PatchCurrent' /\ WrongIsStale'
    BY <1>2 DEF Restart, PatchCurrent, WrongIsStale, NoQuota
  <2> QED
    BY <2>1, <2>2, <2>3 DEF IInv
<1> QED
  BY <1>1, <1>2

(* The state of the quota, its listers, the queue and the patch under way  *)
(* are related as the invariant says in every reachable state.             *)
THEOREM Invariant == Spec => []IInv
<1>1. Init => IInv
  BY InvariantInit
<1>2. IInv /\ [Next]_vars => IInv'
  <2> SUFFICES ASSUME IInv, [Next]_vars PROVE IInv'
    OBVIOUS
  <2>1. CASE UNCHANGED vars
    <3>1. TypeOK' /\ UidsFresh'
      BY <2>1 DEF vars, IInv, TypeOK, UidsFresh
    <3>2. PatchCurrent' /\ WrongIsStale'
      BY <2>1 DEF vars, IInv, PatchCurrent, WrongIsStale, computeElasticQuotaUsed
    <3> QED
      BY <3>1, <3>2 DEF IInv
  <2>2. CASE Next
    BY <2>2, WorldStep, QuotaStep, QuotaEventStep, PodEventStep, SyncStep, PatchStep, FaultStep
    DEF Next
  <2> QED
    BY <2>1, <2>2
<1> QED
  BY <1>1, <1>2, PTL DEF Spec

(* The quota, its copy in the lister and the patch keep their types, no    *)
(* usage is negative, and no patch brings a deleted quota back.            *)
THEOREM TypeCorrect == Spec => []TypeOK
<1>1. IInv => TypeOK
  BY DEF IInv
<1> QED
  BY <1>1, Invariant, PTL

(* The overhead of a pod, which the controller leaves out, changes nothing *)
(* when it is empty.                                                       *)
LEMMA NoOverheadDue ==
  ASSUME \A p \in Pods : Overhead[p] = Empty
  PROVE  Due = Requests
<1>1. ASSUME NEW p \in Pods
      PROVE  Due[p] = Requests[p]
  <2> DEFINE x == computePodResourceRequest(p)
  <2>1. Due[p] = Add(x, Empty) /\ Requests[p] = x
    BY DEF Due, Requests, computePodResourceRequest
  <2>2. \A r \in DOMAIN x : x[r] \in Nat
    BY <2>1, RequestsAssumption
  <2>3. x = [r \in DOMAIN x |-> x[r]]
    BY DEF computePodResourceRequest, Larger
  <2> HIDE DEF x
  <2>4. Add(x, Empty) = [r \in DOMAIN x |-> x[r] + 0]
    BY DEF Add, At, Empty
  <2>5. Add(x, Empty) = x
    BY <2>2, <2>3, <2>4
  <2> QED
    BY <2>1, <2>5
<1> QED
  BY <1>1 DEF Due, Requests

(* For pods without overhead the status is the usage whenever the          *)
(* controller has nothing left to do and has seen everything, unless a     *)
(* patch failed: no order of events, syncs on stale listers and patches    *)
(* against a newer quota leaves a wrong status behind.                     *)
THEOREM StatusIsUsage ==
  ASSUME \A p \in Pods : Overhead[p] = Empty
  PROVE  Spec => []StatusSettles
<1>1. Due = Requests
  BY NoOverheadDue
<1>2. IInv => StatusSettles
  <2> SUFFICES ASSUME IInv, Current, ~eqQueue, patch = NoPatch, ~missed, eq.exists
               PROVE  eq.used = Usage
    BY DEF StatusSettles
  <2>1. computeElasticQuotaUsed(eqLister) = eqLister.used
    BY DEF IInv, WrongIsStale, Current
  <2>2. computeElasticQuotaUsed(eqLister) = Usage
    BY <1>1 DEF computeElasticQuotaUsed, Usage, Current
  <2> QED
    BY <2>1, <2>2 DEF Current
<1> QED
  BY <1>2, Invariant, PTL
=============================================================================
