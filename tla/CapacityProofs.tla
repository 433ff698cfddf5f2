--------------------------- MODULE CapacityProofs ---------------------------
(***************************************************************************)
(* The accounts of the CapacityScheduling plugin, for any pods, quotas and *)
(* number of changes and faults.                                           *)
(***************************************************************************)
EXTENDS CapacityScheduling, SumProofs

----------------------------------------------------------------------------
(* Sums of requests.                                                       *)

Objs(S) == {Obj[p] : p \in S}
Request(p) == computePodResourceRequest(Obj[p])

(* The part of one resource that each pod requests.                        *)
Part(r) == [o \in Objs(Pods) |-> computePodResourceRequest(o)[r]]

(* Pods are different objects.                                             *)
LEMMA ObjsDiffer ==
  ASSUME NEW p \in Pods, NEW S \in SUBSET Pods
  PROVE  Obj[p] \in Objs(S) <=> p \in S
BY QuotaAssumption DEF Objs

(* There are finitely many pods, and what they request is natural.         *)
LEMMA PartType ==
  ASSUME NEW r \in Res
  PROVE  IsFiniteSet(Objs(Pods)) /\ Part(r) \in [Objs(Pods) -> Nat]
<1>1. [p \in Pods |-> Obj[p]] \in Surjection(Pods, Objs(Pods))
  BY DEF Surjection, Objs
<1>2. IsFiniteSet(Objs(Pods))
  BY <1>1, QuotaAssumption, FS_Surjection
<1>3. \A o \in Objs(Pods) : computePodResourceRequest(o)[r] \in Nat
  BY QuotaAssumption DEF Objs
<1> QED
  BY <1>2, <1>3 DEF Part

(* Requested is a sum of parts.                                            *)
LEMMA RequestedSum ==
  ASSUME NEW S \in SUBSET Pods, NEW r \in Res
  PROVE  /\ Objs(S) \in SUBSET Objs(Pods)
         /\ Requested(Objs(S))[r] = SumOver(Part(r), Objs(S))
         /\ Requested(Objs(S))[r] \in Nat
<1>1. Objs(S) \in SUBSET Objs(Pods)
  BY DEF Objs
<1> DEFINE f == [o \in Objs(S) |-> computePodResourceRequest(o)[r]]
<1>2. \A o \in Objs(S) : f[o] = Part(r)[o]
  BY <1>1 DEF Part
<1>3. Requested(Objs(S))[r] = SumOver(f, Objs(S))
  BY DEF Requested
<1> HIDE DEF f
<1>4. SumOver(f, Objs(S)) = SumOver(Part(r), Objs(S))
  BY <1>2, SumOverSame
<1>5. SumOver(Part(r), Objs(S)) \in Nat
  BY <1>1, PartType, UnitsFinite
<1> QED
  BY <1>1, <1>3, <1>4, <1>5

(* What pods request together is a vector of natural numbers.              *)
LEMMA RequestedType ==
  ASSUME NEW S \in SUBSET Pods
  PROVE  Requested(Objs(S)) \in [Res -> Nat]
<1>1. \A r \in Res : Requested(Objs(S))[r] \in Nat
  BY RequestedSum
<1>2. Requested(Objs(S)) = [r \in Res |-> Requested(Objs(S))[r]]
  BY DEF Requested
<1> QED
  BY <1>1, <1>2

(* No pods request nothing.                                                *)
LEMMA RequestedNone == Requested(Objs({})) = Zero
<1>1. Objs({}) = {}
  BY DEF Objs
<1>2. \A r \in Res : SumOver([p \in {} |-> computePodResourceRequest(p)[r]], {}) = 0
  BY SumOverEmpty
<1>3. Requested({}) = Zero
  BY <1>2 DEF Requested, Zero
<1> QED
  BY <1>1, <1>3

(* addPodIfNotPresent adds what the pod requests.                          *)
LEMMA RequestedNew ==
  ASSUME NEW S \in SUBSET Pods, NEW p \in Pods, p \notin S
  PROVE  Requested(Objs(S \cup {p})) = Plus(Requested(Objs(S)), Request(p))
<1>1. S \cup {p} \in SUBSET Pods
  OBVIOUS
<1>2. Objs(S \cup {p}) = Objs(S) \cup {Obj[p]}
  BY DEF Objs
<1>3. Obj[p] \notin Objs(S) /\ Obj[p] \in Objs(Pods)
  BY ObjsDiffer DEF Objs
<1>4. ASSUME NEW r \in Res
      PROVE  Requested(Objs(S \cup {p}))[r] = Requested(Objs(S))[r] + Request(p)[r]
  <2>1. SumOver(Part(r), Objs(S) \cup {Obj[p]}) = SumOver(Part(r), Objs(S)) + Part(r)[Obj[p]]
    BY <1>3, RequestedSum, PartType, SumOverNew
  <2>2. Part(r)[Obj[p]] = Request(p)[r]
    BY <1>3 DEF Part, Request
  <2>3. Requested(Objs(S \cup {p}))[r] = SumOver(Part(r), Objs(S) \cup {Obj[p]})
    BY <1>1, <1>2, RequestedSum, Zenon
  <2> QED
    BY <2>1, <2>2, <2>3, RequestedSum
<1>5. Requested(Objs(S \cup {p})) = [r \in Res |-> Requested(Objs(S \cup {p}))[r]]
  BY DEF Requested
<1> QED
  BY <1>4, <1>5 DEF Plus

(* Taking off what was added leaves what was there.                        *)
LEMMA MinusPlus ==
  ASSUME NEW x \in [Res -> Nat], NEW y \in [Res -> Nat]
  PROVE  Minus(Plus(x, y), y) = x
BY DEF Plus, Minus

(* deletePodIfPresent takes off what the pod requests.                     *)
LEMMA RequestedRemove ==
  ASSUME NEW S \in SUBSET Pods, NEW p \in S
  PROVE  Requested(Objs(S \ {p})) = Minus(Requested(Objs(S)), Request(p))
<1>1. S \ {p} \in SUBSET Pods /\ p \notin S \ {p} /\ (S \ {p}) \cup {p} = S /\ p \in Pods
  OBVIOUS
<1>2. Requested(Objs(S)) = Plus(Requested(Objs(S \ {p})), Request(p))
  <2>1. Requested(Objs((S \ {p}) \cup {p})) = Plus(Requested(Objs(S \ {p})), Request(p))
    BY <1>1, RequestedNew
  <2> QED
    BY <1>1, <2>1, Zenon
<1>3. Requested(Objs(S \ {p})) \in [Res -> Nat]
  BY <1>1, RequestedType
<1>4. Request(p) \in [Res -> Nat]
  BY <1>1, QuotaAssumption DEF Request
<1>5. Minus(Plus(Requested(Objs(S \ {p})), Request(p)), Request(p)) = Requested(Objs(S \ {p}))
  BY <1>3, <1>4, MinusPlus
<1> QED
  BY <1>2, <1>5, Zenon

(* Fewer pods request less.                                                *)
LEMMA RequestedMonotone ==
  ASSUME NEW S \in SUBSET Pods, NEW T \in SUBSET S
  PROVE  AtMost(Requested(Objs(T)), Requested(Objs(S)))
<1>1. T \in SUBSET Pods /\ Objs(T) \in SUBSET Objs(S)
  BY DEF Objs
<1>2. ASSUME NEW r \in Res PROVE Requested(Objs(T))[r] <= Requested(Objs(S))[r]
  <2>1. SumOver(Part(r), Objs(T)) <= SumOver(Part(r), Objs(S))
    BY <1>1, RequestedSum, PartType, SumOverMonotone
  <2> QED
    BY <1>1, <2>1, RequestedSum
<1> QED
  BY <1>2 DEF AtMost

(* A pod requests no more than it and others together.                     *)
LEMMA RequestedMember ==
  ASSUME NEW S \in SUBSET Pods, NEW p \in S
  PROVE  AtMost(Request(p), Requested(Objs(S)))
<1>1. ASSUME NEW r \in Res PROVE Request(p)[r] <= Requested(Objs(S))[r]
  <2>1. Obj[p] \in Objs(S)
    BY DEF Objs
  <2>2. Part(r)[Obj[p]] <= SumOver(Part(r), Objs(S))
    BY <2>1, RequestedSum, PartType, SumOverMember
  <2>3. Part(r)[Obj[p]] = Request(p)[r]
    BY <2>1, RequestedSum DEF Part, Request
  <2> QED
    BY <2>2, <2>3, RequestedSum
<1> QED
  BY <1>1 DEF AtMost

----------------------------------------------------------------------------
(* The infos: every one has its type and counts what its pods request.     *)

GoodInfo(ns, info) == info \in InfosOf(ns) /\ info.used = Requested(Objs(info.pods))

GoodInfos(map) ==
  /\ DOMAIN map \subseteq Namespaces
  /\ \A ns \in DOMAIN map : GoodInfo(ns, map[ns])

(* A new info counts no pods.                                              *)
LEMMA NewInfo ==
  ASSUME NEW ns, NEW spec \in Limits
  PROVE  /\ GoodInfo(ns, newElasticQuotaInfo(spec))
         /\ newElasticQuotaInfo(spec).pods = {}
<1>1. newElasticQuotaInfo(spec).used = Zero /\ newElasticQuotaInfo(spec).pods = {}
  BY DEF newElasticQuotaInfo
<1>2. Zero \in [Res -> Nat]
  BY DEF Zero
<1>3. newElasticQuotaInfo(spec) \in InfosOf(ns)
  BY <1>2 DEF newElasticQuotaInfo, InfosOf, Limits
<1> QED
  BY <1>1, <1>3, RequestedNone, Zenon DEF GoodInfo

(* Storing a good info keeps the others.                                   *)
LEMMA PutInfo ==
  ASSUME NEW map, GoodInfos(map), NEW ns \in Namespaces, NEW info, GoodInfo(ns, info),
         NEW new, new = Put(map, ns, info)
  PROVE  /\ GoodInfos(new)
         /\ DOMAIN new = DOMAIN map \cup {ns} /\ new[ns] = info
         /\ \A n \in DOMAIN map \ {ns} : new[n] = map[n]
BY DEF GoodInfos, Put

(* A pod is counted in the info of its namespace, once.                    *)
LEMMA AddedInfo ==
  ASSUME NEW p \in Pods, NEW info, GoodInfo(Obj[p].ns, info),
         NEW new, new = addPodIfNotPresent(info, Obj[p])
  PROVE  /\ GoodInfo(Obj[p].ns, new)
         /\ new.pods = info.pods \cup {p}
         /\ new.min = info.min /\ new.max = info.max
<1>1. info \in InfosOf(Obj[p].ns) /\ info.used = Requested(Objs(info.pods))
  BY DEF GoodInfo
<1>2. Obj[p].uid = p /\ p \in Of(Obj[p].ns) /\ Of(Obj[p].ns) \subseteq Pods
  BY QuotaAssumption DEF Of
<1>3. CASE p \in info.pods
  <2>1. new = info
    BY <1>2, <1>3 DEF addPodIfNotPresent
  <2> QED
    BY <1>1, <1>3, <2>1 DEF GoodInfo
<1>4. CASE p \notin info.pods
  <2>1. new = [info EXCEPT !.pods = info.pods \cup {p}, !.used = Plus(info.used, Request(p))]
    BY <1>2, <1>4 DEF addPodIfNotPresent, Request
  <2>2. info.pods \in SUBSET Pods /\ info.pods \cup {p} \in SUBSET Pods
    BY <1>1, <1>2 DEF InfosOf
  <2>3. Requested(Objs(info.pods \cup {p})) = Plus(info.used, Request(p))
    BY <1>1, <1>4, <2>2, RequestedNew
  <2>4. Requested(Objs(info.pods \cup {p})) \in [Res -> Nat]
    BY <2>2, RequestedType
  <2>5. new = [min |-> info.min, max |-> info.max, used |-> Plus(info.used, Request(p)),
               pods |-> info.pods \cup {p}]
    BY <1>1, <2>1 DEF InfosOf
  <2>6. Plus(info.used, Request(p)) \in [Res -> Nat]
    BY <2>3, <2>4, Zenon
  <2>7. info.pods \cup {p} \in SUBSET Of(Obj[p].ns)
    BY <1>1, <1>2 DEF InfosOf
  <2>8. new \in InfosOf(Obj[p].ns)
    BY <1>1, <2>5, <2>6, <2>7 DEF InfosOf
  <2> QED
    BY <2>3, <2>5, <2>8 DEF GoodInfo
<1> QED
  BY <1>3, <1>4

(* And taken off, if it is there.                                          *)
LEMMA RemovedInfo ==
  ASSUME NEW p \in Pods, NEW info, GoodInfo(Obj[p].ns, info),
         NEW new, new = deletePodIfPresent(info, Obj[p])
  PROVE  /\ GoodInfo(Obj[p].ns, new)
         /\ new.pods = info.pods \ {p}
         /\ new.min = info.min /\ new.max = info.max
<1>1. info \in InfosOf(Obj[p].ns) /\ info.used = Requested(Objs(info.pods))
  BY DEF GoodInfo
<1>2. Obj[p].uid = p /\ p \in Of(Obj[p].ns) /\ Of(Obj[p].ns) \subseteq Pods
  BY QuotaAssumption DEF Of
<1>3. CASE p \notin info.pods
  <2>1. new = info
    BY <1>2, <1>3 DEF deletePodIfPresent
  <2> QED
    BY <1>1, <1>3, <2>1 DEF GoodInfo
<1>4. CASE p \in info.pods
  <2>1. new = [info EXCEPT !.pods = info.pods \ {p}, !.used = Minus(info.used, Request(p))]
    BY <1>2, <1>4 DEF deletePodIfPresent, Request
  <2>2. info.pods \in SUBSET Pods /\ info.pods \ {p} \in SUBSET Pods
    BY <1>1, <1>2 DEF InfosOf
  <2>3. Requested(Objs(info.pods \ {p})) = Minus(info.used, Request(p))
    BY <1>1, <1>4, <2>2, RequestedRemove
  <2>4. Requested(Objs(info.pods \ {p})) \in [Res -> Nat]
    BY <2>2, RequestedType
  <2>5. new = [min |-> info.min, max |-> info.max, used |-> Minus(info.used, Request(p)),
               pods |-> info.pods \ {p}]
    BY <1>1, <2>1 DEF InfosOf
  <2>6. Minus(info.used, Request(p)) \in [Res -> Nat]
    BY <2>3, <2>4, Zenon
  <2>7. info.pods \ {p} \in SUBSET Of(Obj[p].ns)
    BY <1>1, <1>2 DEF InfosOf
  <2>8. new \in InfosOf(Obj[p].ns)
    BY <1>1, <2>5, <2>6, <2>7 DEF InfosOf
  <2> QED
    BY <2>3, <2>5, <2>8 DEF GoodInfo
<1> QED
  BY <1>3, <1>4

(* Two maps of infos for the same namespaces and with the same limits.     *)
SameLimits(old, new) ==
  /\ DOMAIN new = DOMAIN old
  /\ \A ns \in DOMAIN old : new[ns].min = old[ns].min /\ new[ns].max = old[ns].max

(* CountPod, for Reserve and addPod.                                       *)
LEMMA Counted ==
  ASSUME NEW map, GoodInfos(map), NEW p \in Pods
  PROVE  LET new == CountPod(map, Obj[p])
         IN  /\ GoodInfos(new) /\ SameLimits(map, new)
             /\ \A ns \in DOMAIN map :
                  new[ns].pods = IF ns = Obj[p].ns THEN map[ns].pods \cup {p} ELSE map[ns].pods
<1> DEFINE new == CountPod(map, Obj[p])
<1>1. CASE Obj[p].ns \notin DOMAIN map
  <2>1. new = map
    BY <1>1 DEF CountPod
  <2> QED
    BY <1>1, <2>1 DEF SameLimits
<1>2. CASE Obj[p].ns \in DOMAIN map
  <2>1. new = [map EXCEPT ![Obj[p].ns] = addPodIfNotPresent(map[Obj[p].ns], Obj[p])]
    BY <1>2 DEF CountPod
  <2>2. DOMAIN new = DOMAIN map /\ \A ns \in DOMAIN map \ {Obj[p].ns} : new[ns] = map[ns]
    BY <2>1
  <2>3. new[Obj[p].ns] = addPodIfNotPresent(map[Obj[p].ns], Obj[p])
    BY <1>2, <2>1
  <2>4. GoodInfo(Obj[p].ns, map[Obj[p].ns])
    BY <1>2 DEF GoodInfos
  <2> HIDE DEF new
  <2>5. /\ GoodInfo(Obj[p].ns, new[Obj[p].ns])
        /\ new[Obj[p].ns].pods = map[Obj[p].ns].pods \cup {p}
        /\ new[Obj[p].ns].min = map[Obj[p].ns].min
        /\ new[Obj[p].ns].max = map[Obj[p].ns].max
    <3> DEFINE a == map[Obj[p].ns]
               b == new[Obj[p].ns]
    <3>1. GoodInfo(Obj[p].ns, a) /\ b = addPodIfNotPresent(a, Obj[p])
      BY <2>3, <2>4
    <3> HIDE DEF a, b
    <3>2. GoodInfo(Obj[p].ns, b) /\ b.pods = a.pods \cup {p} /\ b.min = a.min /\ b.max = a.max
      BY <3>1, AddedInfo
    <3> QED
      BY <3>2 DEF a, b
  <2>6. GoodInfos(new)
    BY <2>2, <2>5 DEF GoodInfos
  <2>7. SameLimits(map, new)
    BY <2>2, <2>5 DEF SameLimits
  <2>8. \A ns \in DOMAIN map :
          new[ns].pods = IF ns = Obj[p].ns THEN map[ns].pods \cup {p} ELSE map[ns].pods
    BY <2>2, <2>5
  <2> QED
    BY <2>6, <2>7, <2>8 DEF new
<1> QED
  BY <1>1, <1>2

(* UncountPod, for Unreserve and deletePod.                                *)
LEMMA Uncounted ==
  ASSUME NEW map, GoodInfos(map), NEW p \in Pods
  PROVE  LET new == UncountPod(map, Obj[p])
         IN  /\ GoodInfos(new) /\ SameLimits(map, new)
             /\ \A ns \in DOMAIN map :
                  new[ns].pods = IF ns = Obj[p].ns THEN map[ns].pods \ {p} ELSE map[ns].pods
<1> DEFINE new == UncountPod(map, Obj[p])
<1>1. CASE Obj[p].ns \notin DOMAIN map
  <2>1. new = map
    BY <1>1 DEF UncountPod
  <2> QED
    BY <1>1, <2>1 DEF SameLimits
<1>2. CASE Obj[p].ns \in DOMAIN map
  <2>1. new = [map EXCEPT ![Obj[p].ns] = deletePodIfPresent(map[Obj[p].ns], Obj[p])]
    BY <1>2 DEF UncountPod
  <2>2. DOMAIN new = DOMAIN map /\ \A ns \in DOMAIN map \ {Obj[p].ns} : new[ns] = map[ns]
    BY <2>1
  <2>3. new[Obj[p].ns] = deletePodIfPresent(map[Obj[p].ns], Obj[p])
    BY <1>2, <2>1
  <2>4. GoodInfo(Obj[p].ns, map[Obj[p].ns])
    BY <1>2 DEF GoodInfos
  <2> HIDE DEF new
  <2>5. /\ GoodInfo(Obj[p].ns, new[Obj[p].ns])
        /\ new[Obj[p].ns].pods = map[Obj[p].ns].pods \ {p}
        /\ new[Obj[p].ns].min = map[Obj[p].ns].min
        /\ new[Obj[p].ns].max = map[Obj[p].ns].max
    <3> DEFINE a == map[Obj[p].ns]
               b == new[Obj[p].ns]
    <3>1. GoodInfo(Obj[p].ns, a) /\ b = deletePodIfPresent(a, Obj[p])
      BY <2>3, <2>4
    <3> HIDE DEF a, b
    <3>2. GoodInfo(Obj[p].ns, b) /\ b.pods = a.pods \ {p} /\ b.min = a.min /\ b.max = a.max
      BY <3>1, RemovedInfo
    <3> QED
      BY <3>2 DEF a, b
  <2>6. GoodInfos(new)
    BY <2>2, <2>5 DEF GoodInfos
  <2>7. SameLimits(map, new)
    BY <2>2, <2>5 DEF SameLimits
  <2>8. \A ns \in DOMAIN map :
          new[ns].pods = IF ns = Obj[p].ns THEN map[ns].pods \ {p} ELSE map[ns].pods
    BY <2>2, <2>5
  <2> QED
    BY <2>6, <2>7, <2>8 DEF new
<1> QED
  BY <1>1, <1>2

----------------------------------------------------------------------------
(* The inductive invariant.                                                *)

Placed == {"bound", "terminating", "gone"}
Unplaced == {"pending", "deleted"}

(* How the phase of a pod, what the handlers know of it and the goroutines *)
(* that work for it are related.  Only a pod of a namespace that is not    *)
(* steady is bound while its binding is taken to have failed.              *)
PhasesAgree ==
  /\ \A p \in Pods :
       /\ seen[p] # "no" => phase[p] \in Placed
       /\ binding[p] = "binding" => phase[p] \in Unplaced
       /\ binding[p] = "failed" => phase[p] \in Unplaced \/ Obj[p].ns \notin steady
       /\ p \in dropped => seen[p] # "no"
  /\ cycle # None => phase[cycle.pod] \in Unplaced /\ binding[cycle.pod] = "no"

(* A pod holds quota while its binding is under way and, once it is bound, *)
(* until the handlers have been told that it is gone.                      *)
Holds(p) == binding[p] # "no" \/ (phase[p] \in Placed /\ seen[p] # "gone")

(* Nothing else is counted.                                                *)
CountedHold ==
  \A ns \in DOMAIN infos : \A p \in infos[ns].pods : Holds(p) /\ p \notin dropped

(* What the handlers have seen is counted or dropped.                      *)
SeenCounted ==
  \A p \in Pods :
    Obj[p].ns \in DOMAIN infos /\ seen[p] \in {"assigned", "deleting"} /\ p \notin dropped
      => p \in infos[Obj[p].ns].pods

(* A steady namespace has an info and no event of its quota is on its way. *)
SteadyQuiet ==
  \A ns \in steady :
    ns \in DOMAIN infos /\ notes[ns] = << >> /\ (adding # None => adding.ns # ns)

(* In a steady namespace every pod that holds quota is counted.            *)
SteadyCounted ==
  \A p \in Pods : Obj[p].ns \in steady /\ Holds(p) => p \in infos[Obj[p].ns].pods

(* Since the snapshot of the cycle a steady namespace has got no new pods  *)
(* and no other limits.                                                    *)
CycleCovers ==
  cycle # None =>
    \A ns \in steady :
      /\ ns \in DOMAIN cycle.infos
      /\ infos[ns].pods \subseteq cycle.infos[ns].pods
      /\ infos[ns].min = cycle.infos[ns].min /\ infos[ns].max = cycle.infos[ns].max

(* The snapshot is one of good infos, and the check of PreFilter was made  *)
(* on it with at least the request of the pod.                             *)
CyclePassed ==
  cycle # None =>
    /\ GoodInfos(cycle.infos)
    /\ cycle.passed => PreFilter(cycle.infos, cycle.pfs, Obj[cycle.pod])
    /\ Obj[cycle.pod].ns \in DOMAIN cycle.infos =>
         /\ cycle.pfs.inEQ \in [Res -> Nat] /\ cycle.pfs.total \in [Res -> Nat]
         /\ AtMost(Request(cycle.pod), cycle.pfs.inEQ)
         /\ AtMost(Request(cycle.pod), cycle.pfs.total)

IInv ==
  /\ TypeOK /\ UsedIsSum
  /\ PhasesAgree /\ CountedHold /\ SeenCounted
  /\ SteadyQuiet /\ SteadyCounted
  /\ CycleCovers /\ CyclePassed
  /\ WithinMax /\ WithinMin

----------------------------------------------------------------------------
(* Steps that count no new pod in a steady namespace.                      *)

(* The types of everything but the infos.                                  *)
Types ==
  /\ phase \in [Pods -> {"pending", "bound", "terminating", "gone", "deleted"}]
  /\ seen \in [Pods -> {"no", "assigned", "deleting", "gone"}]
  /\ nominated \subseteq Pods
  /\ binding \in [Pods -> {"no", "binding", "failed"}]
  /\ lister \in [DOMAIN lister -> Limits] /\ DOMAIN lister \subseteq Namespaces
  /\ notes \in [Namespaces -> Seq(Notes)]
  /\ adding \in {None} \cup [ns : Namespaces, spec : Limits]
  /\ cycle = None \/ cycle.pod \in Pods
  /\ steady \subseteq Namespaces /\ dropped \subseteq Pods
  /\ ops \in 0 .. MaxOps /\ faults \in 0 .. MaxFaults

(* The types and the sums, taken apart ...                                 *)
LEMMA Split ==
  ASSUME TypeOK, UsedIsSum
  PROVE  Types /\ GoodInfos(infos)
BY DEF TypeOK, UsedIsSum, Types, GoodInfos, GoodInfo, Objs

(* ... and put together again after a step.                                *)
LEMMA Join ==
  ASSUME Types', GoodInfos(infos')
  PROVE  TypeOK' /\ UsedIsSum'
BY DEF TypeOK, UsedIsSum, Types, GoodInfos, GoodInfo, Objs

(* A step that takes nothing but pods from the infos of the namespaces     *)
(* that stay steady.                                                       *)
Shrinks ==
  /\ steady' \subseteq steady
  /\ \A ns \in steady' :
       /\ ns \in DOMAIN infos'
       /\ infos'[ns].pods \subseteq infos[ns].pods
       /\ infos'[ns].min = infos[ns].min /\ infos'[ns].max = infos[ns].max

(* Fewer pods use less.                                                    *)
LEMMA FewerUseLess ==
  ASSUME NEW n1, NEW n2, NEW old, NEW new, GoodInfo(n1, old), GoodInfo(n2, new),
         new.pods \subseteq old.pods
  PROVE  AtMost(new.used, old.used)
<1>1. old.pods \in SUBSET Pods /\ new.pods \in SUBSET old.pods
  BY DEF GoodInfo, InfosOf, Of
<1>2. AtMost(Requested(Objs(new.pods)), Requested(Objs(old.pods)))
  BY <1>1, RequestedMonotone
<1> QED
  BY <1>2 DEF GoodInfo

(* At most is transitive on vectors of natural numbers.                    *)
LEMMA AtMostTransitive ==
  ASSUME NEW x \in [Res -> Nat], NEW y \in [Res -> Nat], NEW z \in [Res -> Nat],
         AtMost(x, y), AtMost(y, z)
  PROVE  AtMost(x, z)
BY DEF AtMost

(* The total of a field of the infos is a vector of natural numbers.       *)
LEMMA TotalType ==
  ASSUME NEW map, GoodInfos(map), NEW field \in {"min", "max", "used"}
  PROVE  Total(map, field) \in [Res -> Nat]
<1>1. ASSUME NEW r \in Res
      PROVE  SumOver([ns \in DOMAIN map |-> map[ns][field][r]], DOMAIN map) \in Nat
  <2>1. [ns \in DOMAIN map |-> map[ns][field][r]] \in [DOMAIN map -> Nat]
    BY DEF GoodInfos, GoodInfo, InfosOf
  <2>2. IsFiniteSet(DOMAIN map)
    BY QuotaAssumption, FS_Subset DEF GoodInfos
  <2>3. DOMAIN map \in SUBSET DOMAIN map
    OBVIOUS
  <2> QED
    BY <2>1, <2>2, <2>3, UnitsFinite
<1> QED
  BY <1>1 DEF Total

(* What the namespaces use is a function to sum up.                        *)
LEMMA FieldType ==
  ASSUME NEW map, GoodInfos(map), NEW field \in {"min", "max", "used"}, NEW r \in Res
  PROVE  /\ [ns \in DOMAIN map |-> map[ns][field][r]] \in [DOMAIN map -> Nat]
         /\ IsFiniteSet(DOMAIN map)
         /\ Total(map, field)[r]
              = SumOver([ns \in DOMAIN map |-> map[ns][field][r]], DOMAIN map)
<1>1. [ns \in DOMAIN map |-> map[ns][field][r]] \in [DOMAIN map -> Nat]
  BY DEF GoodInfos, GoodInfo, InfosOf
<1>2. IsFiniteSet(DOMAIN map)
  BY QuotaAssumption, FS_Subset DEF GoodInfos
<1> QED
  BY <1>1, <1>2 DEF Total

(* Infos with smaller usage and the same mins have smaller totals.         *)
LEMMA TotalLess ==
  ASSUME NEW old, NEW new, GoodInfos(old), GoodInfos(new), DOMAIN new = DOMAIN old,
         \A ns \in DOMAIN old : AtMost(new[ns].used, old[ns].used) /\ new[ns].min = old[ns].min
  PROVE  AtMost(Total(new, "used"), Total(old, "used")) /\ Total(new, "min") = Total(old, "min")
<1>1. ASSUME NEW r \in Res PROVE Total(new, "used")[r] <= Total(old, "used")[r]
  <2> DEFINE X == DOMAIN old
             f == [ns \in DOMAIN new |-> new[ns]["used"][r]]
             g == [ns \in DOMAIN old |-> old[ns]["used"][r]]
  <2>1. /\ f \in [X -> Nat] /\ g \in [X -> Nat] /\ IsFiniteSet(X)
        /\ Total(new, "used")[r] = SumOver(f, X)
        /\ Total(old, "used")[r] = SumOver(g, X)
    BY FieldType
  <2>2. \A ns \in X : f[ns] <= g[ns]
    BY DEF AtMost
  <2> HIDE DEF f, g, X
  <2>3. SumOver(f, X) <= SumOver(g, X)
    BY <2>1, <2>2, SumOverLess
  <2> QED
    BY <2>1, <2>3
<1>2. ASSUME NEW r \in Res
      PROVE  SumOver([ns \in DOMAIN new |-> new[ns]["min"][r]], DOMAIN new)
               = SumOver([ns \in DOMAIN old |-> old[ns]["min"][r]], DOMAIN old)
  <2> DEFINE f == [ns \in DOMAIN new |-> new[ns]["min"][r]]
             g == [ns \in DOMAIN old |-> old[ns]["min"][r]]
  <2>1. f = g
    OBVIOUS
  <2> QED
    BY <2>1, Zenon
<1> QED
  BY <1>1, <1>2 DEF AtMost, Total

(* A step that shrinks the infos keeps the limits.                         *)
LEMMA LimitsKept ==
  ASSUME IInv, GoodInfos(infos'), Types', Shrinks
  PROVE  WithinMax' /\ WithinMin'
<1>1. GoodInfos(infos)
  BY Split DEF IInv
<1>2. steady' \subseteq DOMAIN infos /\ steady' \subseteq DOMAIN infos'
  BY DEF Shrinks, IInv, SteadyQuiet
<1>3. ASSUME NEW ns \in steady'
      PROVE  AtMost(infos'[ns].used, infos[ns].used)
  <2>1. GoodInfo(ns, infos[ns]) /\ GoodInfo(ns, infos'[ns])
    BY <1>1, <1>2 DEF GoodInfos
  <2>2. infos'[ns].pods \subseteq infos[ns].pods
    BY DEF Shrinks
  <2> QED
    BY <2>1, <2>2, FewerUseLess
<1>4. WithinMax'
  <2> SUFFICES ASSUME NEW ns \in steady'
               PROVE  AtMost(infos'[ns].used, infos'[ns].max)
    BY DEF WithinMax, AtMost
  <2>1. infos[ns] \in InfosOf(ns) /\ infos'[ns] \in InfosOf(ns)
    BY <1>1, <1>2 DEF GoodInfos, GoodInfo
  <2>2. AtMost(infos[ns].used, infos[ns].max)
    BY DEF IInv, WithinMax, Shrinks
  <2>3. infos'[ns].max = infos[ns].max
    BY DEF Shrinks
  <2>4. /\ infos[ns].used \in [Res -> Nat] /\ infos'[ns].used \in [Res -> Nat]
        /\ infos[ns].max \in [Res -> Nat]
    BY <2>1 DEF InfosOf
  <2> QED
    BY <1>3, <2>2, <2>3, <2>4, AtMostTransitive
<1>5. WithinMin'
  <2> SUFFICES ASSUME steady' = Namespaces
               PROVE  AtMost(Total(infos', "used"), Total(infos', "min"))
    BY DEF WithinMin, AtMost, Total
  <2>1. steady = Namespaces /\ DOMAIN infos = Namespaces /\ DOMAIN infos' = Namespaces
    BY <1>1, <1>2 DEF Shrinks, GoodInfos, IInv, TypeOK
  <2>2. AtMost(Total(infos, "used"), Total(infos, "min"))
    BY <2>1 DEF IInv, WithinMin
  <2>3. /\ AtMost(Total(infos', "used"), Total(infos, "used"))
        /\ Total(infos', "min") = Total(infos, "min")
    BY <1>1, <1>3, <2>1, TotalLess DEF Shrinks
  <2>4. /\ Total(infos, "used") \in [Res -> Nat] /\ Total(infos', "used") \in [Res -> Nat]
        /\ Total(infos, "min") \in [Res -> Nat]
    BY <1>1, TotalType
  <2> QED
    BY <2>2, <2>3, <2>4, AtMostTransitive
<1> QED
  BY <1>4, <1>5

(* And it keeps the snapshot of the cycle an upper bound.                  *)
LEMMA CycleKept ==
  ASSUME IInv, Shrinks, cycle' = cycle \/ cycle' = None
  PROVE  CycleCovers' /\ CyclePassed'
<1>1. CycleCovers'
  BY DEF IInv, Shrinks, CycleCovers
<1>2. CyclePassed'
  BY DEF IInv, CyclePassed
<1> QED
  BY <1>1, <1>2

(* What is left to show of such a step.                                    *)
LEMMA Assemble ==
  ASSUME IInv, Types', GoodInfos(infos'), Shrinks, cycle' = cycle \/ cycle' = None,
         PhasesAgree', CountedHold', SeenCounted', SteadyQuiet', SteadyCounted'
  PROVE  IInv'
BY Join, LimitsKept, CycleKept DEF IInv

(* A step that leaves the infos alone.                                     *)
LEMMA InfosAlone ==
  ASSUME IInv, infos' = infos, steady' \subseteq steady
  PROVE  Shrinks /\ GoodInfos(infos')
<1>1. GoodInfos(infos)
  BY Split DEF IInv
<1>2. Shrinks
  BY DEF Shrinks, IInv, SteadyQuiet
<1> QED
  BY <1>1, <1>2

----------------------------------------------------------------------------
(* The world.                                                              *)

(* A pending pod is deleted.                                               *)
LEMMA DeleteStep ==
  ASSUME IInv, NEW p \in Pods, Delete(p)
  PROVE  IInv'
<1>0. Types /\ GoodInfos(infos)
  BY Split DEF IInv
<1>1. /\ phase[p] = "pending" /\ phase' = [phase EXCEPT ![p] = "deleted"]
      /\ nominated' = nominated \ {p}
      /\ UNCHANGED <<seen, lister, notes, adding, infos, cycle, binding, steady, dropped, ops, faults>>
  BY DEF Delete, quotas, sched, ghosts
<1>2. Types'
  BY <1>0, <1>1 DEF Types
<1>3. PhasesAgree'
  BY <1>0, <1>1 DEF IInv, PhasesAgree, Types, Placed, Unplaced
<1>4. \A q \in Pods : Holds(q)' <=> Holds(q)
  BY <1>0, <1>1 DEF Holds, Types, Placed
<1>5. CountedHold' /\ SeenCounted' /\ SteadyQuiet' /\ SteadyCounted'
  BY <1>0, <1>1, <1>4 DEF IInv, CountedHold, SeenCounted, SteadyQuiet, SteadyCounted, GoodInfos,
     GoodInfo, InfosOf, Of
<1> QED
  BY <1>1, <1>2, <1>3, <1>5, InfosAlone, Assemble

(* A bound pod ends.                                                       *)
LEMMA EndStep ==
  ASSUME IInv, NEW p \in Pods, End(p)
  PROVE  IInv'
<1>0. Types /\ GoodInfos(infos)
  BY Split DEF IInv
<1>1. /\ phase[p] \in {"bound", "terminating"} /\ phase' = [phase EXCEPT ![p] = "gone"]
      /\ UNCHANGED <<nominated, seen, lister, notes, adding, infos, cycle, binding,
                     steady, dropped, ops, faults>>
  BY DEF End, Assigned, quotas, sched, ghosts
<1>2. Types'
  BY <1>0, <1>1 DEF Types
<1>3. PhasesAgree'
  BY <1>0, <1>1 DEF IInv, PhasesAgree, Types, Placed, Unplaced
<1>4. \A q \in Pods : Holds(q)' <=> Holds(q)
  BY <1>0, <1>1 DEF Holds, Types, Placed
<1>5. CountedHold' /\ SeenCounted' /\ SteadyQuiet' /\ SteadyCounted'
  BY <1>0, <1>1, <1>4 DEF IInv, CountedHold, SeenCounted, SteadyQuiet, SteadyCounted, GoodInfos,
     GoodInfo, InfosOf, Of
<1> QED
  BY <1>1, <1>2, <1>3, <1>5, InfosAlone, Assemble

(* A quota is created, changed or deleted: its namespace is steady no more *)
(* and its handlers have one more event.                                   *)
LEMMA QuotaStep ==
  ASSUME IInv, NEW ns \in Namespaces,
         (\E spec \in Specs[ns] : CreateQuota(ns, spec) \/ UpdateQuota(ns, spec)) \/ DeleteQuota(ns)
  PROVE  IInv'
<1>0. Types /\ GoodInfos(infos)
  BY Split DEF IInv
<1>1. PICK store, note : ChangeQuota(ns, store, note) /\ note \in Notes
                         /\ store \in [DOMAIN store -> Limits] /\ DOMAIN store \subseteq Namespaces
  <2>1. ASSUME NEW spec \in Specs[ns], CreateQuota(ns, spec) \/ UpdateQuota(ns, spec)
        PROVE  \E store, note : ChangeQuota(ns, store, note) /\ note \in Notes
                 /\ store \in [DOMAIN store -> Limits] /\ DOMAIN store \subseteq Namespaces
    <3>1. spec \in Limits
      BY QuotaAssumption DEF Limits
    <3>2. CASE CreateQuota(ns, spec)
      <4>1. Note("add", spec) \in Notes
        BY <3>1 DEF Note, Notes
      <4>2. /\ Put(lister, ns, spec) \in [DOMAIN Put(lister, ns, spec) -> Limits]
            /\ DOMAIN Put(lister, ns, spec) \subseteq Namespaces
        BY <1>0, <3>1 DEF Put, Types
      <4> QED
        BY <3>2, <4>1, <4>2 DEF CreateQuota
    <3>3. CASE UpdateQuota(ns, spec)
      <4>1. Note("update", spec) \in Notes
        BY <3>1 DEF Note, Notes
      <4> DEFINE store == [lister EXCEPT ![ns] = spec]
      <4>2. store \in [DOMAIN store -> Limits] /\ DOMAIN store \subseteq Namespaces
        BY <1>0, <3>1 DEF Types
      <4> QED
        BY <3>3, <4>1, <4>2 DEF UpdateQuota
    <3> QED
      BY <2>1, <3>2, <3>3
  <2>2. ASSUME DeleteQuota(ns)
        PROVE  \E store, note : ChangeQuota(ns, store, note) /\ note \in Notes
                 /\ store \in [DOMAIN store -> Limits] /\ DOMAIN store \subseteq Namespaces
    <3> DEFINE store == [n \in DOMAIN lister \ {ns} |-> lister[n]]
    <3>1. Note("delete", lister[ns]) \in Notes
      BY <1>0, <2>2 DEF Note, Notes, Types, DeleteQuota
    <3>2. store \in [DOMAIN store -> Limits] /\ DOMAIN store \subseteq Namespaces
      BY <1>0 DEF Types
    <3> QED
      BY <2>2, <3>1, <3>2 DEF DeleteQuota
  <2> QED
    BY <2>1, <2>2
<1>2. /\ ops < MaxOps /\ ops' = ops + 1 /\ lister' = store
      /\ notes' = [notes EXCEPT ![ns] = Append(notes[ns], note)]
      /\ steady' = steady \ {ns}
      /\ UNCHANGED <<phase, nominated, seen, adding, infos, cycle, binding, dropped, faults>>
  BY <1>1 DEF ChangeQuota, pods_, sched
<1>3. Types'
  <2>1. notes' \in [Namespaces -> Seq(Notes)]
    BY <1>0, <1>1, <1>2 DEF Types
  <2>2. ops' \in 0 .. MaxOps
    BY <1>0, <1>2, QuotaAssumption DEF Types
  <2> QED
    BY <1>0, <1>1, <1>2, <2>1, <2>2 DEF Types
<1>4. PhasesAgree'
  BY <1>2 DEF IInv, PhasesAgree
<1>5. CountedHold' /\ SeenCounted' /\ SteadyCounted'
  BY <1>2 DEF IInv, CountedHold, SeenCounted, SteadyCounted, Holds
<1>6. SteadyQuiet'
  BY <1>0, <1>2 DEF IInv, SteadyQuiet, Types
<1> QED
  BY <1>2, <1>3, <1>4, <1>5, <1>6, InfosAlone, Assemble

----------------------------------------------------------------------------
(* The handlers of the ElasticQuota informer.                              *)

(* What a handler finds at the head of the events of its namespace.        *)
LEMMA HandlesNote ==
  ASSUME IInv, NEW ns \in Namespaces, NEW type, Handles(ns, type)
  PROVE  /\ adding = None /\ ns \notin steady
         /\ Head(notes[ns]).spec \in Limits
         /\ notes' \in [Namespaces -> Seq(Notes)]
         /\ \A n \in Namespaces \ {ns} : notes'[n] = notes[n]
<1>0. Types
  BY Split DEF IInv
<1>1. adding = None /\ notes[ns] # << >> /\ notes' = [notes EXCEPT ![ns] = Tail(notes[ns])]
  BY DEF Handles
<1>2. notes[ns] \in Seq(Notes) /\ notes \in [Namespaces -> Seq(Notes)]
  BY <1>0 DEF Types
<1>3. Head(notes[ns]) \in Notes /\ Tail(notes[ns]) \in Seq(Notes)
  BY <1>1, <1>2
<1> QED
  BY <1>1, <1>2, <1>3 DEF Notes, IInv, SteadyQuiet

(* addElasticQuota looks whether there is an info.                         *)
LEMMA AddQuotaStep ==
  ASSUME IInv, NEW ns \in Namespaces, addElasticQuota(ns)
  PROVE  IInv'
<1>0. Types /\ GoodInfos(infos)
  BY Split DEF IInv
<1>1. /\ Handles(ns, "add")
      /\ adding' = IF ns \in DOMAIN infos THEN None ELSE [ns |-> ns, spec |-> Head(notes[ns]).spec]
      /\ UNCHANGED <<phase, nominated, seen, lister, infos, cycle, binding, steady, dropped, ops, faults>>
  BY DEF addElasticQuota, pods_, sched, ghosts
<1>2. /\ ns \notin steady /\ Head(notes[ns]).spec \in Limits
      /\ notes' \in [Namespaces -> Seq(Notes)]
      /\ \A n \in Namespaces \ {ns} : notes'[n] = notes[n]
  BY <1>1, HandlesNote
<1>3. Types'
  BY <1>0, <1>1, <1>2 DEF Types
<1>4. PhasesAgree' /\ CountedHold' /\ SeenCounted' /\ SteadyCounted'
  BY <1>1 DEF IInv, PhasesAgree, CountedHold, SeenCounted, SteadyCounted, Holds
<1>5. SteadyQuiet'
  BY <1>0, <1>1, <1>2 DEF IInv, SteadyQuiet, Types
<1> QED
  BY <1>1, <1>3, <1>4, <1>5, InfosAlone, Assemble

(* An info that is stored anew for a namespace that is not steady.         *)
LEMMA FreshInfo ==
  ASSUME IInv, NEW ns \in Namespaces \ steady, NEW info, GoodInfo(ns, info), info.pods = {},
         infos' = Put(infos, ns, info), dropped' = dropped \cup Forgotten(ns),
         UNCHANGED <<phase, seen, cycle, binding, steady>>
  PROVE  GoodInfos(infos') /\ Shrinks /\ PhasesAgree' /\ CountedHold' /\ SeenCounted' /\ SteadyCounted'
<1>0. Types /\ GoodInfos(infos)
  BY Split DEF IInv
<1>1. /\ GoodInfos(infos') /\ DOMAIN infos' = DOMAIN infos \cup {ns} /\ infos'[ns] = info
      /\ \A n \in DOMAIN infos \ {ns} : infos'[n] = infos[n]
  BY <1>0, PutInfo
<1>2. Shrinks
  BY <1>1 DEF Shrinks, IInv, SteadyQuiet
<1>3. PhasesAgree'
  BY DEF IInv, PhasesAgree, Forgotten
<1>4. CountedHold'
  <2> SUFFICES ASSUME NEW n \in DOMAIN infos', NEW p \in infos'[n].pods
               PROVE  Holds(p)' /\ p \notin dropped'
    BY DEF CountedHold
  <2>1. n # ns /\ n \in DOMAIN infos /\ p \in infos[n].pods
    BY <1>1
  <2>2. Obj[p].ns = n
    BY <1>0, <2>1 DEF GoodInfos, GoodInfo, InfosOf, Of
  <2>3. Holds(p) /\ p \notin dropped
    BY <2>1 DEF IInv, CountedHold
  <2> QED
    BY <2>1, <2>2, <2>3 DEF Holds, Forgotten, Of
<1>5. SeenCounted'
  BY <1>1 DEF IInv, SeenCounted, Forgotten, Of
<1>6. SteadyCounted'
  BY <1>1 DEF IInv, SteadyCounted, SteadyQuiet, Holds
<1> QED
  BY <1>1, <1>2, <1>3, <1>4, <1>5, <1>6

(* addElasticQuota stores a new info, even over one that was stored since. *)
LEMMA StoreQuotaStep ==
  ASSUME IInv, storeElasticQuota
  PROVE  IInv'
<1>0. Types /\ GoodInfos(infos)
  BY Split DEF IInv
<1> DEFINE ns == adding.ns
           info == newElasticQuotaInfo(adding.spec)
<1>1. /\ adding # None /\ adding' = None
      /\ infos' = Put(infos, ns, info)
      /\ dropped' = dropped \cup Forgotten(ns)
      /\ UNCHANGED <<phase, nominated, seen, lister, notes, cycle, binding, steady, ops, faults>>
  BY DEF storeElasticQuota, pods_, sched
<1>2. ns \in Namespaces \ steady /\ adding.spec \in Limits
  BY <1>0, <1>1 DEF Types, IInv, SteadyQuiet
<1>3. GoodInfo(ns, info) /\ info.pods = {}
  BY <1>2, NewInfo
<1> HIDE DEF ns, info
<1>4. GoodInfos(infos') /\ Shrinks /\ PhasesAgree' /\ CountedHold' /\ SeenCounted' /\ SteadyCounted'
  BY <1>1, <1>2, <1>3, FreshInfo
<1>5. Types'
  BY <1>0, <1>1 DEF Types, Forgotten, Of
<1>6. SteadyQuiet'
  BY <1>1, <1>4 DEF IInv, SteadyQuiet, Shrinks
<1> QED
  BY <1>1, <1>4, <1>5, <1>6, Assemble

(* updateElasticQuota keeps the pods of an info, or stores a new one.      *)
LEMMA UpdateQuotaStep ==
  ASSUME IInv, NEW ns \in Namespaces, updateElasticQuota(ns)
  PROVE  IInv'
<1>0. Types /\ GoodInfos(infos)
  BY Split DEF IInv
<1> DEFINE spec == Head(notes[ns]).spec
           info == Renewed(ns, spec)
<1>1. /\ Handles(ns, "update")
      /\ infos' = Put(infos, ns, info)
      /\ dropped' = IF ns \in DOMAIN infos THEN dropped ELSE dropped \cup Forgotten(ns)
      /\ UNCHANGED <<phase, nominated, seen, lister, adding, cycle, binding, steady, ops, faults>>
  BY DEF updateElasticQuota, pods_, sched
<1>2. /\ ns \notin steady /\ spec \in Limits
      /\ notes' \in [Namespaces -> Seq(Notes)]
      /\ \A n \in Namespaces \ {ns} : notes'[n] = notes[n]
  BY <1>1, HandlesNote
<1> HIDE DEF spec
<1>3. GoodInfo(ns, newElasticQuotaInfo(spec)) /\ newElasticQuotaInfo(spec).pods = {}
  BY <1>2, NewInfo
<1>4. Types'
  BY <1>0, <1>1, <1>2 DEF Types, Forgotten, Of
<1>5. CASE ns \notin DOMAIN infos
  <2>1. info = newElasticQuotaInfo(spec)
    BY <1>5 DEF Renewed
  <2> HIDE DEF info
  <2>2. GoodInfos(infos') /\ Shrinks /\ PhasesAgree' /\ CountedHold' /\ SeenCounted' /\ SteadyCounted'
    BY <1>1, <1>2, <1>3, <1>5, <2>1, FreshInfo
  <2>3. SteadyQuiet'
    BY <1>0, <1>1, <1>2, <2>2 DEF IInv, SteadyQuiet, Shrinks, Types
  <2> QED
    BY <1>1, <1>4, <2>2, <2>3, Assemble
<1>6. CASE ns \in DOMAIN infos
  <2>1. GoodInfo(ns, infos[ns])
    BY <1>0, <1>6 DEF GoodInfos
  <2>2. info = [min |-> spec.min, max |-> spec.max, used |-> infos[ns].used, pods |-> infos[ns].pods]
    BY <1>6 DEF Renewed, newElasticQuotaInfo
  <2>3. GoodInfo(ns, info) /\ info.pods = infos[ns].pods
    BY <1>2, <2>1, <2>2 DEF GoodInfo, InfosOf, Limits
  <2> HIDE DEF info
  <2>4. /\ GoodInfos(infos') /\ DOMAIN infos' = DOMAIN infos
        /\ \A n \in DOMAIN infos : infos'[n].pods = infos[n].pods
        /\ \A n \in DOMAIN infos \ {ns} : infos'[n] = infos[n]
    <3>1. /\ GoodInfos(infos') /\ DOMAIN infos' = DOMAIN infos \cup {ns} /\ infos'[ns] = info
          /\ \A n \in DOMAIN infos \ {ns} : infos'[n] = infos[n]
      BY <1>0, <1>1, <2>3, PutInfo
    <3> QED
      BY <1>6, <2>3, <3>1
  <2>5. Shrinks
    BY <1>1, <1>2, <2>4 DEF Shrinks, IInv, SteadyQuiet
  <2>6. PhasesAgree' /\ CountedHold' /\ SeenCounted' /\ SteadyCounted'
    BY <1>1, <1>6, <2>4
    DEF IInv, PhasesAgree, CountedHold, SeenCounted, SteadyCounted, SteadyQuiet, Holds
  <2>7. SteadyQuiet'
    BY <1>0, <1>1, <1>2, <2>4 DEF IInv, SteadyQuiet, Types
  <2> QED
    BY <1>1, <1>4, <2>4, <2>5, <2>6, <2>7, Assemble
<1> QED
  BY <1>5, <1>6

(* deleteElasticQuota forgets the info.                                    *)
LEMMA DeleteQuotaStep ==
  ASSUME IInv, NEW ns \in Namespaces, deleteElasticQuota(ns)
  PROVE  IInv'
<1>0. Types /\ GoodInfos(infos)
  BY Split DEF IInv
<1>1. /\ Handles(ns, "delete")
      /\ infos' = [n \in DOMAIN infos \ {ns} |-> infos[n]]
      /\ UNCHANGED <<phase, nominated, seen, lister, adding, cycle, binding, steady, dropped, ops, faults>>
  BY DEF deleteElasticQuota, pods_, sched, ghosts
<1>2. /\ ns \notin steady
      /\ notes' \in [Namespaces -> Seq(Notes)]
      /\ \A n \in Namespaces \ {ns} : notes'[n] = notes[n]
  BY <1>1, HandlesNote
<1>3. DOMAIN infos' = DOMAIN infos \ {ns} /\ \A n \in DOMAIN infos' : infos'[n] = infos[n]
  BY <1>1
<1>4. GoodInfos(infos')
  BY <1>0, <1>3 DEF GoodInfos
<1>5. Shrinks
  BY <1>1, <1>2, <1>3 DEF Shrinks, IInv, SteadyQuiet
<1>6. Types'
  BY <1>0, <1>1, <1>2 DEF Types
<1>7. PhasesAgree' /\ CountedHold' /\ SeenCounted' /\ SteadyCounted'
  BY <1>1, <1>2, <1>3
  DEF IInv, PhasesAgree, CountedHold, SeenCounted, SteadyCounted, SteadyQuiet, Holds
<1>8. SteadyQuiet'
  BY <1>0, <1>1, <1>2, <1>3 DEF IInv, SteadyQuiet, Types
<1> QED
  BY <1>1, <1>4, <1>5, <1>6, <1>7, <1>8, Assemble

----------------------------------------------------------------------------
(* The handlers of the pod informer.                                       *)

(* addPod counts a pod that is bound.  In a steady namespace it has been   *)
(* counted by Reserve.                                                     *)
LEMMA AddPodStep ==
  ASSUME IInv, NEW p \in Pods, addPod(p)
  PROVE  IInv'
<1>0. Types /\ GoodInfos(infos)
  BY Split DEF IInv
<1> DEFINE ns == Obj[p].ns
           fresh == ns \notin DOMAIN infos /\ ns \in DOMAIN lister
           base == IF fresh THEN Put(infos, ns, newElasticQuotaInfo(lister[ns])) ELSE infos
<1>1. /\ phase[p] \in Placed /\ seen[p] = "no"
      /\ seen' = [seen EXCEPT ![p] = "assigned"]
      /\ infos' = CountPod(base, Obj[p])
      /\ dropped' = IF fresh THEN dropped \cup Forgotten(ns) ELSE dropped
      /\ UNCHANGED <<phase, nominated, lister, notes, adding, cycle, binding, steady, ops, faults>>
  BY DEF addPod, Placed, quotas, sched
<1>2. ns \in Namespaces
  BY QuotaAssumption
<1>3. /\ GoodInfos(base)
      /\ DOMAIN base = IF fresh THEN DOMAIN infos \cup {ns} ELSE DOMAIN infos
      /\ \A n \in DOMAIN infos : base[n] = infos[n]
      /\ fresh => base[ns].pods = {}
  <2>1. CASE fresh
    <3>1. lister[ns] \in Limits
      BY <1>0, <2>1 DEF Types
    <3> DEFINE info == newElasticQuotaInfo(lister[ns])
    <3>2. GoodInfo(ns, info) /\ info.pods = {}
      BY <3>1, NewInfo
    <3>3. base = Put(infos, ns, info)
      BY <2>1
    <3> HIDE DEF base, info, ns
    <3>4. /\ GoodInfos(base) /\ DOMAIN base = DOMAIN infos \cup {ns} /\ base[ns] = info
          /\ \A n \in DOMAIN infos \ {ns} : base[n] = infos[n]
      BY <1>0, <1>2, <3>2, <3>3, PutInfo
    <3> QED
      BY <2>1, <3>2, <3>4
  <2>2. CASE ~fresh
    BY <1>0, <2>2
  <2> QED
    BY <2>1, <2>2
<1> HIDE DEF base
<1>4. /\ GoodInfos(infos') /\ SameLimits(base, infos')
      /\ \A n \in DOMAIN base :
           infos'[n].pods = IF n = ns THEN base[n].pods \cup {p} ELSE base[n].pods
  BY <1>1, <1>3, Counted
<1>5. Types'
  BY <1>0, <1>1 DEF Types, Forgotten, Of
<1>6. \A q \in Pods : Holds(q)' <=> Holds(q)
  BY <1>0, <1>1 DEF Holds, Types
<1>7. Shrinks
  <2>1. ASSUME NEW n \in steady
        PROVE  /\ n \in DOMAIN infos' /\ infos'[n].pods \subseteq infos[n].pods
               /\ infos'[n].min = infos[n].min /\ infos'[n].max = infos[n].max
    <3>1. n \in DOMAIN infos /\ n \in DOMAIN base /\ base[n] = infos[n]
      BY <1>3 DEF IInv, SteadyQuiet
    <3>2. n = ns => p \in infos[n].pods
      BY <1>1 DEF IInv, SteadyCounted, Holds
    <3> QED
      BY <1>4, <3>1, <3>2 DEF SameLimits
  <2> QED
    BY <1>1, <2>1 DEF Shrinks
<1>8. PhasesAgree'
  BY <1>0, <1>1 DEF IInv, PhasesAgree, Types, Forgotten
<1>9. CountedHold'
  <2> SUFFICES ASSUME NEW n \in DOMAIN infos', NEW q \in infos'[n].pods
               PROVE  Holds(q)' /\ q \notin dropped'
    BY DEF CountedHold
  <2>1. n \in DOMAIN base /\ q \in Pods /\ Obj[q].ns = n
    BY <1>4 DEF SameLimits, GoodInfos, GoodInfo, InfosOf, Of
  <2>2. CASE q = p
    <3>1. Holds(p) /\ p \notin dropped
      BY <1>1 DEF Holds, IInv, PhasesAgree
    <3> QED
      BY <1>1, <1>6, <2>2, <3>1 DEF Forgotten
  <2>3. CASE q # p
    <3>1. q \in base[n].pods
      BY <1>4, <2>1, <2>3
    <3>2. n \in DOMAIN infos /\ q \in infos[n].pods
      BY <1>3, <2>1, <3>1
    <3>3. Holds(q) /\ q \notin dropped
      BY <3>2 DEF IInv, CountedHold
    <3>4. q \notin dropped'
      BY <1>1, <2>1, <3>2, <3>3 DEF Forgotten, Of
    <3> QED
      BY <1>6, <2>1, <3>3, <3>4
  <2> QED
    BY <2>2, <2>3
<1>10. SeenCounted'
  <2> SUFFICES ASSUME NEW q \in Pods, Obj[q].ns \in DOMAIN infos',
                      seen'[q] \in {"assigned", "deleting"}, q \notin dropped'
               PROVE  q \in infos'[Obj[q].ns].pods
    BY DEF SeenCounted
  <2>1. Obj[q].ns \in DOMAIN base
    BY <1>4 DEF SameLimits
  <2>2. CASE q = p
    BY <1>4, <2>1, <2>2
  <2>3. CASE q # p
    <3>1. seen[q] \in {"assigned", "deleting"} /\ q \notin dropped
      BY <1>0, <1>1, <2>3 DEF Types
    <3>2. Obj[q].ns \in DOMAIN infos
      BY <1>1, <1>3, <2>1, <3>1 DEF Forgotten, Of
    <3>3. q \in infos[Obj[q].ns].pods
      BY <3>1, <3>2 DEF IInv, SeenCounted
    <3> QED
      BY <1>3, <1>4, <2>1, <3>2, <3>3
  <2> QED
    BY <2>2, <2>3
<1>11. SteadyQuiet'
  BY <1>1, <1>7 DEF IInv, SteadyQuiet, Shrinks
<1>12. SteadyCounted'
  <2> SUFFICES ASSUME NEW q \in Pods, Obj[q].ns \in steady, Holds(q)
               PROVE  q \in infos'[Obj[q].ns].pods
    BY <1>1, <1>6 DEF SteadyCounted
  <2>1. q \in infos[Obj[q].ns].pods /\ Obj[q].ns \in DOMAIN infos
    BY DEF IInv, SteadyCounted, SteadyQuiet
  <2> QED
    BY <1>3, <1>4, <2>1
<1> QED
  BY <1>1, <1>4, <1>5, <1>7, <1>8, <1>9, <1>10, <1>11, <1>12, Assemble

(* An update of a pod that runs changes nothing of the infos.              *)
LEMMA UpdatePodStep ==
  ASSUME IInv, NEW p \in Pods, updatePod(p)
  PROVE  IInv'
<1>0. Types /\ GoodInfos(infos)
  BY Split DEF IInv
<1>1. /\ seen[p] = "assigned" /\ seen' = [seen EXCEPT ![p] = "deleting"]
      /\ infos' = infos
      /\ UNCHANGED <<phase, nominated, lister, notes, adding, cycle, binding,
                     steady, dropped, ops, faults>>
  BY DEF updatePod, UpdatedInfos, quotas, sched, ghosts
<1>2. Types'
  BY <1>0, <1>1 DEF Types
<1>3. PhasesAgree'
  BY <1>0, <1>1 DEF IInv, PhasesAgree, Types
<1>4. \A q \in Pods : Holds(q)' <=> Holds(q)
  BY <1>0, <1>1 DEF Holds, Types
<1>5. CountedHold' /\ SeenCounted' /\ SteadyQuiet' /\ SteadyCounted'
  BY <1>0, <1>1, <1>4 DEF IInv, CountedHold, SeenCounted, SteadyQuiet, SteadyCounted, GoodInfos,
     GoodInfo, InfosOf, Of, Types
<1> QED
  BY <1>1, <1>2, <1>3, <1>5, InfosAlone, Assemble

(* One pod is taken off the infos.                                         *)
LEMMA PodTaken ==
  ASSUME IInv, NEW p \in Pods, infos' = UncountPod(infos, Obj[p]), steady' = steady
  PROVE  /\ GoodInfos(infos') /\ Shrinks /\ DOMAIN infos' = DOMAIN infos
         /\ \A n \in DOMAIN infos : infos'[n].pods = infos[n].pods \ {p}
<1>0. Types /\ GoodInfos(infos)
  BY Split DEF IInv
<1>1. /\ GoodInfos(infos') /\ SameLimits(infos, infos')
      /\ \A n \in DOMAIN infos :
           infos'[n].pods = IF n = Obj[p].ns THEN infos[n].pods \ {p} ELSE infos[n].pods
  BY <1>0, Uncounted
<1>2. \A n \in DOMAIN infos : n # Obj[p].ns => p \notin infos[n].pods
  BY <1>0 DEF GoodInfos, GoodInfo, InfosOf, Of
<1>3. \A n \in DOMAIN infos : infos'[n].pods = infos[n].pods \ {p}
  BY <1>1, <1>2
<1>4. Shrinks
  BY <1>1, <1>3 DEF Shrinks, SameLimits, IInv, SteadyQuiet
<1> QED
  BY <1>1, <1>3, <1>4 DEF SameLimits

(* deletePod takes a pod off that is gone.                                 *)
LEMMA DeletePodStep ==
  ASSUME IInv, NEW p \in Pods, deletePod(p)
  PROVE  IInv'
<1>0. Types /\ GoodInfos(infos)
  BY Split DEF IInv
<1>1. /\ phase[p] = "gone" /\ seen[p] \in {"assigned", "deleting"}
      /\ seen' = [seen EXCEPT ![p] = "gone"]
      /\ infos' = UncountPod(infos, Obj[p])
      /\ UNCHANGED <<phase, nominated, lister, notes, adding, cycle, binding,
                     steady, dropped, ops, faults>>
  BY DEF deletePod, quotas, sched, ghosts
<1>2. /\ GoodInfos(infos') /\ Shrinks /\ DOMAIN infos' = DOMAIN infos
      /\ \A n \in DOMAIN infos : infos'[n].pods = infos[n].pods \ {p}
  BY <1>1, PodTaken
<1>3. Types'
  BY <1>0, <1>1 DEF Types
<1>4. PhasesAgree'
  BY <1>0, <1>1 DEF IInv, PhasesAgree, Types
<1>5. \A q \in Pods \ {p} : Holds(q)' <=> Holds(q)
  BY <1>0, <1>1 DEF Holds, Types
<1>6. CountedHold'
  BY <1>0, <1>1, <1>2, <1>5 DEF IInv, CountedHold, GoodInfos, GoodInfo, InfosOf, Of
<1>7. SeenCounted'
  BY <1>0, <1>1, <1>2 DEF IInv, SeenCounted, Types
<1>8. SteadyQuiet'
  BY <1>1, <1>2 DEF IInv, SteadyQuiet
<1>9. SteadyCounted'
  <2>1. Obj[p].ns \in steady => ~Holds(p)'
    BY <1>0, <1>1 DEF Holds, IInv, PhasesAgree, Types, Unplaced
  <2> QED
    BY <1>1, <1>2, <1>5, <2>1 DEF IInv, SteadyCounted, SteadyQuiet
<1> QED
  BY <1>1, <1>2, <1>3, <1>4, <1>6, <1>7, <1>8, <1>9, Assemble

----------------------------------------------------------------------------
(* The scheduling loop and the binding goroutines.                         *)

(* The pods that are nominated and counted together with the pod that is   *)
(* popped request at least what it requests.                               *)
LEMMA NominatedType ==
  ASSUME NEW p \in Pods, NEW N \in SUBSET Pods, NEW map, NEW pfs,
         pfs = PreFilterState(map, map, Obj[p], Objs(N)), Obj[p].ns \in DOMAIN map
  PROVE  /\ pfs.inEQ \in [Res -> Nat] /\ pfs.total \in [Res -> Nat]
         /\ AtMost(Request(p), pfs.inEQ) /\ AtMost(Request(p), pfs.total)
<1> DEFINE Other(q) == Obj[q].uid # Obj[p].uid /\ Obj[q].ns \in DOMAIN map
           In == {q \in N : Other(q) /\ Obj[q].ns = Obj[p].ns /\ Obj[q].prio >= Obj[p].prio}
           Out == {q \in N : Other(q) /\ Obj[q].ns # Obj[p].ns /\ ~usedOverMin(map[Obj[q].ns])}
           others == {o \in Objs(N) : o.uid # Obj[p].uid /\ o.ns \in DOMAIN map}
           inEQ == {o \in others : o.ns = Obj[p].ns /\ o.prio >= Obj[p].prio}
           outside == {o \in others : o.ns # Obj[p].ns /\ ~usedOverMin(map[o.ns])}
<1>1. inEQ \cup {Obj[p]} = Objs(In \cup {p})
  BY DEF Objs
<1>2. inEQ \cup outside \cup {Obj[p]} = Objs(In \cup Out \cup {p})
  BY DEF Objs
<1>3. /\ In \cup {p} \in SUBSET Pods /\ p \in In \cup {p}
      /\ In \cup Out \cup {p} \in SUBSET Pods /\ p \in In \cup Out \cup {p}
  OBVIOUS
<1>4. /\ pfs.inEQ = Requested(inEQ \cup {Obj[p]})
      /\ pfs.total = Requested(inEQ \cup outside \cup {Obj[p]})
  BY DEF PreFilterState, Nominated
<1> HIDE DEF In, Out, inEQ, outside
<1> DEFINE A == In \cup {p}
           B == In \cup Out \cup {p}
<1>5. pfs.inEQ = Requested(Objs(A)) /\ pfs.total = Requested(Objs(B))
  BY <1>1, <1>2, <1>4, Zenon
<1>6. A \in SUBSET Pods /\ p \in A /\ B \in SUBSET Pods /\ p \in B
  BY <1>3
<1> HIDE DEF A, B
<1> QED
  BY <1>5, <1>6, RequestedType, RequestedMember

(* A cycle starts with a snapshot of the infos and the check of PreFilter. *)
LEMMA StartCycleStep ==
  ASSUME IInv, NEW p \in Pods, StartCycle(p)
  PROVE  IInv'
<1>0. Types /\ GoodInfos(infos)
  BY Split DEF IInv
<1> DEFINE pfs == PreFilterState(infos, infos, Obj[p], Objs(nominated))
<1>1. /\ cycle = None /\ phase[p] = "pending" /\ binding[p] = "no"
      /\ cycle' = [pod |-> p, infos |-> infos, pfs |-> pfs, on |-> OnNode,
                   passed |-> PreFilter(infos, pfs, Obj[p])]
      /\ UNCHANGED <<phase, nominated, seen, lister, notes, adding, infos, binding,
                     steady, dropped, ops, faults>>
  BY DEF StartCycle, Objs, pods_, quotas, ghosts
<1> HIDE DEF pfs
<1>2. /\ cycle'.pod = p /\ cycle'.infos = infos /\ cycle'.pfs = pfs
      /\ cycle'.passed = PreFilter(infos, pfs, Obj[p])
  BY <1>1
<1>3. Types'
  BY <1>0, <1>1, <1>2 DEF Types
<1>4. PhasesAgree'
  BY <1>1, <1>2 DEF IInv, PhasesAgree, Unplaced
<1>5. CountedHold' /\ SeenCounted' /\ SteadyQuiet' /\ SteadyCounted'
  BY <1>1 DEF IInv, CountedHold, SeenCounted, SteadyQuiet, SteadyCounted, Holds
<1>6. Shrinks /\ GoodInfos(infos')
  BY <1>1, InfosAlone
<1>7. WithinMax' /\ WithinMin'
  BY <1>3, <1>6, LimitsKept
<1>8. CycleCovers'
  BY <1>1, <1>2 DEF CycleCovers, IInv, SteadyQuiet
<1>9. CyclePassed'
  <2>1. nominated \in SUBSET Pods
    BY <1>0 DEF Types
  <2>2. Obj[p].ns \in DOMAIN infos =>
          /\ pfs.inEQ \in [Res -> Nat] /\ pfs.total \in [Res -> Nat]
          /\ AtMost(Request(p), pfs.inEQ) /\ AtMost(Request(p), pfs.total)
    BY <2>1, NominatedType DEF pfs
  <2> QED
    BY <1>0, <1>2, <2>2 DEF CyclePassed
<1> QED
  BY <1>3, <1>4, <1>5, <1>6, <1>7, <1>8, <1>9, Join DEF IInv

(* The cycle ends without a host: pods may be evicted and nominations end. *)
LEMMA CycleEnds ==
  ASSUME IInv, NEW gone \in SUBSET Pods,
         phase' = [q \in Pods |-> IF q \in gone THEN Evicted(q) ELSE phase[q]],
         nominated' \subseteq Pods, cycle' = None, faults' \in 0 .. MaxFaults,
         UNCHANGED <<seen, lister, notes, adding, infos, binding, steady, dropped, ops>>
  PROVE  IInv'
<1>0. Types /\ GoodInfos(infos)
  BY Split DEF IInv
<1>1. \A q \in Pods : /\ phase'[q] \in {"pending", "bound", "terminating", "gone", "deleted"}
                      /\ phase'[q] \in Placed <=> phase[q] \in Placed
                      /\ phase'[q] \in Unplaced <=> phase[q] \in Unplaced
  BY <1>0 DEF Types, Evicted, Placed, Unplaced
<1>2. Types'
  BY <1>0, <1>1 DEF Types
<1>3. PhasesAgree'
  BY <1>1 DEF IInv, PhasesAgree
<1>4. \A q \in Pods : Holds(q)' <=> Holds(q)
  BY <1>1 DEF Holds, Placed
<1>5. CountedHold' /\ SeenCounted' /\ SteadyQuiet' /\ SteadyCounted'
  BY <1>0, <1>4 DEF IInv, CountedHold, SeenCounted, SteadyQuiet, SteadyCounted, GoodInfos,
     GoodInfo, InfosOf, Of
<1> QED
  BY <1>2, <1>3, <1>5, InfosAlone, Assemble

(* PostFilter in its three outcomes.                                       *)
LEMMA PostFilterStep ==
  ASSUME IInv, PostFilter \/ PostFilterFails \/ PostFilterGone
  PROVE  IInv'
<1>0. Types /\ GoodInfos(infos)
  BY Split DEF IInv
<1>1. CASE PostFilter
  <2> DEFINE victims == {v.uid : v \in Selection.victims}
             gone == victims \cap Pods
  <2>1. /\ cycle # None /\ cycle' = None
        /\ phase' = [q \in Pods |-> IF q \in gone THEN Evicted(q) ELSE phase[q]]
        /\ UNCHANGED <<seen, lister, notes, adding, infos, binding, steady, dropped, ops, faults>>
    BY <1>1 DEF PostFilter, quotas, ghosts
  <2>2. Obj[cycle.pod].uid \in Pods
    BY <1>0, <2>1, QuotaAssumption DEF Types
  <2>3. nominated' \subseteq Pods
    BY <1>0, <1>1, <2>2 DEF PostFilter, Types
  <2> HIDE DEF victims
  <2>4. gone \in SUBSET Pods /\ faults' \in 0 .. MaxFaults
    BY <1>0, <2>1 DEF Types
  <2> HIDE DEF gone
  <2> QED
    BY <2>1, <2>3, <2>4, CycleEnds
<1>2. CASE PostFilterFails
  <2>1. PICK done : /\ phase' = [q \in Pods |-> IF q \in done THEN Evicted(q) ELSE phase[q]]
                    /\ nominated' = nominated \ done
    BY <1>2 DEF PostFilterFails
  <2> DEFINE gone == done \cap Pods
  <2>2. phase' = [q \in Pods |-> IF q \in gone THEN Evicted(q) ELSE phase[q]]
    BY <2>1
  <2>3. /\ cycle' = None /\ faults' \in 0 .. MaxFaults
        /\ UNCHANGED <<seen, lister, notes, adding, infos, binding, steady, dropped, ops>>
    BY <1>0, <1>2, QuotaAssumption DEF PostFilterFails, quotas, Types
  <2>4. gone \in SUBSET Pods /\ nominated' \subseteq Pods
    BY <1>0, <2>1 DEF Types
  <2> HIDE DEF gone
  <2> QED
    BY <2>2, <2>3, <2>4, CycleEnds
<1>3. CASE PostFilterGone
  <2>1. /\ cycle' = None
        /\ UNCHANGED <<phase, nominated, seen, lister, notes, adding, infos, binding,
                       steady, dropped, ops, faults>>
    BY <1>3 DEF PostFilterGone, pods_, quotas, ghosts
  <2>2. phase' = [q \in Pods |-> IF q \in {} THEN Evicted(q) ELSE phase[q]]
    BY <1>0, <2>1 DEF Types
  <2>3. {} \in SUBSET Pods /\ nominated' \subseteq Pods /\ faults' \in 0 .. MaxFaults
    BY <1>0, <2>1 DEF Types
  <2> QED
    BY <2>1, <2>2, <2>3, CycleEnds
<1> QED
  BY <1>1, <1>2, <1>3

(* One more pod requests at most what it requests.                         *)
LEMMA RequestedAdd ==
  ASSUME NEW S \in SUBSET Pods, NEW p \in Pods
  PROVE  AtMost(Requested(Objs(S \cup {p})), Plus(Requested(Objs(S)), Request(p)))
<1>1. Requested(Objs(S)) \in [Res -> Nat]
  BY RequestedType
<1>2. Request(p) \in [Res -> Nat]
  BY QuotaAssumption DEF Request
<1>3. CASE p \in S
  <2>1. S \cup {p} = S
    BY <1>3
  <2>2. Requested(Objs(S \cup {p})) = Requested(Objs(S))
    BY <2>1, Zenon
  <2> QED
    BY <1>1, <1>2, <2>2 DEF AtMost, Plus
<1>4. CASE p \notin S
  <2>1. Requested(Objs(S \cup {p})) = Plus(Requested(Objs(S)), Request(p))
    BY <1>4, RequestedNew
  <2> QED
    BY <1>1, <1>2, <2>1 DEF AtMost, Plus
<1> QED
  BY <1>3, <1>4

(* What Reserve does to the infos, compared with the snapshot: a steady    *)
(* namespace uses at most what it used then, and the pod.                  *)
LEMMA ReserveInfos ==
  ASSUME IInv, cycle # None, infos' = CountPod(infos, Obj[cycle.pod]), steady' = steady
  PROVE  /\ GoodInfos(infos') /\ DOMAIN infos' = DOMAIN infos
         /\ \A n \in DOMAIN infos :
              /\ infos'[n].pods = IF n = Obj[cycle.pod].ns THEN infos[n].pods \cup {cycle.pod}
                                                           ELSE infos[n].pods
              /\ infos'[n].min = infos[n].min /\ infos'[n].max = infos[n].max
         /\ \A n \in steady :
              /\ AtMost(infos'[n].used, Plus(infos[n].used, Request(cycle.pod)))
              /\ AtMost(infos[n].used, cycle.infos[n].used)
              /\ n # Obj[cycle.pod].ns => infos'[n].used = infos[n].used
<1> DEFINE p == cycle.pod
<1>0. Types /\ GoodInfos(infos) /\ p \in Pods
  BY Split DEF IInv, Types
<1>1. /\ GoodInfos(infos') /\ SameLimits(infos, infos')
      /\ \A n \in DOMAIN infos :
           infos'[n].pods = IF n = Obj[p].ns THEN infos[n].pods \cup {p} ELSE infos[n].pods
  BY <1>0, Counted
<1> HIDE DEF p
<1>2. ASSUME NEW n \in steady
      PROVE  /\ AtMost(infos'[n].used, Plus(infos[n].used, Request(p)))
             /\ AtMost(infos[n].used, cycle.infos[n].used)
             /\ n # Obj[p].ns => infos'[n].used = infos[n].used
  <2>1. n \in DOMAIN infos /\ n \in DOMAIN infos' /\ n \in DOMAIN cycle.infos
    BY <1>1 DEF IInv, SteadyQuiet, CycleCovers, SameLimits
  <2>2. /\ GoodInfo(n, infos[n]) /\ GoodInfo(n, infos'[n]) /\ GoodInfo(n, cycle.infos[n])
    BY <1>0, <1>1, <2>1 DEF GoodInfos, IInv, CyclePassed
  <2>3. infos[n].pods \subseteq cycle.infos[n].pods
    BY DEF IInv, CycleCovers
  <2>4. AtMost(infos[n].used, cycle.infos[n].used)
    BY <2>2, <2>3, FewerUseLess
  <2> DEFINE S == infos[n].pods
  <2>5. S \in SUBSET Pods /\ infos[n].used = Requested(Objs(S))
    BY <2>2 DEF GoodInfo, InfosOf, Of
  <2>6. /\ Requested(Objs(S)) \in [Res -> Nat] /\ Request(p) \in [Res -> Nat]
    BY <1>0, <2>5, RequestedType, QuotaAssumption DEF Request
  <2>7. CASE n = Obj[p].ns
    <3>1. infos'[n].used = Requested(Objs(S \cup {p}))
      BY <1>1, <2>1, <2>2, <2>7 DEF GoodInfo
    <3> HIDE DEF S
    <3>2. AtMost(Requested(Objs(S \cup {p})), Plus(Requested(Objs(S)), Request(p)))
      BY <1>0, <2>5, RequestedAdd
    <3> QED
      BY <2>4, <2>5, <2>7, <3>1, <3>2
  <2>8. CASE n # Obj[p].ns
    <3>1. infos'[n].used = Requested(Objs(S))
      BY <1>1, <2>1, <2>2, <2>8 DEF GoodInfo
    <3> HIDE DEF S
    <3>2. AtMost(Requested(Objs(S)), Plus(Requested(Objs(S)), Request(p)))
      BY <2>6 DEF AtMost, Plus
    <3> QED
      BY <2>4, <2>5, <2>8, <3>1, <3>2
  <2> QED
    BY <2>7, <2>8
<1> QED
  BY <1>1, <1>2 DEF SameLimits, p

(* What PreFilter allowed on the snapshot is within the max when the pod   *)
(* is counted later.                                                       *)
LEMMA ReserveWithinMax ==
  ASSUME IInv, cycle # None, cycle.passed, infos' = CountPod(infos, Obj[cycle.pod]),
         steady' = steady
  PROVE  WithinMax'
<1> DEFINE p == cycle.pod
           ns == Obj[p].ns
<1>0. Types /\ GoodInfos(infos) /\ p \in Pods
  BY Split DEF IInv, Types
<1>1. /\ GoodInfos(infos') /\ DOMAIN infos' = DOMAIN infos
      /\ \A n \in DOMAIN infos : infos'[n].max = infos[n].max
      /\ \A n \in steady :
           /\ AtMost(infos'[n].used, Plus(infos[n].used, Request(p)))
           /\ AtMost(infos[n].used, cycle.infos[n].used)
           /\ n # ns => infos'[n].used = infos[n].used
  BY ReserveInfos
<1>2. SUFFICES ASSUME NEW n \in steady, NEW r \in Res
               PROVE  infos'[n].used[r] <= infos'[n].max[r]
  BY DEF WithinMax, AtMost
<1>3. n \in DOMAIN infos /\ n \in DOMAIN cycle.infos /\ infos[n].max = cycle.infos[n].max
  BY DEF IInv, SteadyQuiet, CycleCovers
<1>4. infos[n].used[r] <= infos[n].max[r]
  BY DEF IInv, WithinMax, AtMost
<1>5. CASE n # ns
  BY <1>1, <1>3, <1>4, <1>5
<1>6. CASE n = ns
  <2>1. /\ PreFilter(cycle.infos, cycle.pfs, Obj[p])
        /\ cycle.pfs.inEQ \in [Res -> Nat] /\ AtMost(Request(p), cycle.pfs.inEQ)
        /\ GoodInfos(cycle.infos)
    BY <1>3, <1>6 DEF IInv, CyclePassed
  <2>2. /\ infos[n].used[r] \in Nat /\ infos'[n].used[r] \in Nat
        /\ infos[n].max[r] \in Nat /\ cycle.infos[n].used[r] \in Nat
    BY <1>0, <1>1, <1>3, <2>1 DEF GoodInfos, GoodInfo, InfosOf
  <2>3. Request(p)[r] \in Nat
    BY <1>0, QuotaAssumption DEF Request
  <2>4. /\ infos'[n].used[r] <= infos[n].used[r] + Request(p)[r]
        /\ infos[n].used[r] <= cycle.infos[n].used[r]
    BY <1>1 DEF AtMost, Plus
  <2>5. CASE Request(p)[r] = 0
    BY <1>1, <1>3, <1>4, <2>2, <2>4, <2>5
  <2>6. CASE Request(p)[r] # 0
    <3>1. cycle.pfs.inEQ[r] \in Nat /\ Request(p)[r] <= cycle.pfs.inEQ[r]
      BY <2>1 DEF AtMost
    <3>2. cycle.pfs.inEQ[r] # 0
      BY <2>3, <2>6, <3>1
    <3>3. ~usedOverMaxWith(cycle.infos[n], cycle.pfs.inEQ)
      BY <1>3, <1>6, <2>1 DEF PreFilter
    <3>4. ~(cycle.pfs.inEQ[r] + cycle.infos[n].used[r] > cycle.infos[n].max[r])
      BY <3>2, <3>3 DEF usedOverMaxWith, cmp2
    <3> HIDE DEF p, ns
    <3> QED
      BY <1>1, <1>3, <2>2, <2>3, <2>4, <3>1, <3>4
  <2> QED
    BY <2>5, <2>6
<1> QED
  BY <1>5, <1>6

(* And the quotas together are within the sum of their mins.               *)
LEMMA ReserveWithinMin ==
  ASSUME IInv, cycle # None, cycle.passed, infos' = CountPod(infos, Obj[cycle.pod]),
         steady' = steady
  PROVE  WithinMin'
<1> DEFINE p == cycle.pod
           ns == Obj[p].ns
           before == cycle.infos
<1>0. Types /\ GoodInfos(infos) /\ p \in Pods /\ ns \in Namespaces
  BY Split, QuotaAssumption DEF IInv, Types
<1>1. /\ GoodInfos(infos') /\ DOMAIN infos' = DOMAIN infos
      /\ \A n \in DOMAIN infos : infos'[n].min = infos[n].min
      /\ \A n \in steady :
           /\ AtMost(infos'[n].used, Plus(infos[n].used, Request(p)))
           /\ AtMost(infos[n].used, before[n].used)
           /\ n # ns => infos'[n].used = infos[n].used
  BY ReserveInfos
<1>2. SUFFICES ASSUME steady = Namespaces, NEW r \in Res
               PROVE  Total(infos', "used")[r] <= Total(infos', "min")[r]
  BY DEF WithinMin, AtMost, Total
<1>3. DOMAIN infos = Namespaces /\ DOMAIN before = Namespaces /\ GoodInfos(before)
  BY <1>0, <1>2 DEF IInv, SteadyQuiet, CycleCovers, CyclePassed, GoodInfos
<1>4. /\ PreFilter(before, cycle.pfs, Obj[p])
      /\ cycle.pfs.total \in [Res -> Nat] /\ AtMost(Request(p), cycle.pfs.total)
  BY <1>0, <1>3 DEF IInv, CyclePassed
<1>5. Request(p)[r] \in Nat /\ cycle.pfs.total[r] \in Nat /\ Request(p)[r] <= cycle.pfs.total[r]
  BY <1>0, <1>4, QuotaAssumption DEF Request, AtMost
<1> DEFINE N == Namespaces
           f == [n \in N |-> infos'[n]["used"][r]]
           b == [n \in N |-> before[n]["used"][r]]
           g == [n \in N |-> IF n = ns THEN b[n] + Request(p)[r] ELSE b[n]]
<1>6. /\ f \in [N -> Nat] /\ b \in [N -> Nat] /\ IsFiniteSet(N)
      /\ Total(infos', "used")[r] = SumOver(f, N)
      /\ Total(before, "used")[r] = SumOver(b, N)
  BY <1>1, <1>3, FieldType
<1>7. \A n \in N : f[n] <= g[n]
  <2> TAKE n \in N
  <2>1. /\ infos'[n].used[r] <= infos[n].used[r] + Request(p)[r]
        /\ infos[n].used[r] <= before[n].used[r]
        /\ n # ns => infos'[n].used = infos[n].used
    BY <1>1, <1>2 DEF AtMost, Plus
  <2>2. /\ infos'[n].used[r] \in Nat /\ infos[n].used[r] \in Nat /\ before[n].used[r] \in Nat
    BY <1>0, <1>1, <1>3 DEF GoodInfos, GoodInfo, InfosOf
  <2> QED
    BY <1>5, <2>1, <2>2
<1>8. /\ g \in [N -> Nat] /\ g[ns] = b[ns] + Request(p)[r]
      /\ \A n \in N \ {ns} : g[n] = b[n]
  <2>1. \A n \in N : b[n] \in Nat
    BY <1>6
  <2> HIDE DEF b
  <2>2. \A n \in N : (IF n = ns THEN b[n] + Request(p)[r] ELSE b[n]) \in Nat
    BY <1>5, <2>1
  <2> QED
    BY <1>0, <2>2
<1>9. Total(infos', "min") = Total(before, "min")
  <2>1. \A n \in N : infos'[n].min = before[n].min
    BY <1>1, <1>2, <1>3 DEF IInv, CycleCovers
  <2>2. ASSUME NEW s \in Res
        PROVE  [n \in DOMAIN infos' |-> infos'[n]["min"][s]]
                 = [n \in DOMAIN before |-> before[n]["min"][s]]
    BY <1>1, <1>3, <2>1
  <2> QED
    BY <1>1, <1>3, <2>2 DEF Total
<1> HIDE DEF f, g, b, N, before
<1>10. SumOver(f, N) <= SumOver(g, N)
  BY <1>6, <1>7, <1>8, SumOverLess
<1>11. SumOver(g, N) = SumOver(b, N) + Request(p)[r]
  <2>1. ns \in N
    BY <1>0 DEF N
  <2> HIDE DEF ns
  <2>2. \A d \in Nat : g[ns] = b[ns] + d => SumOver(g, N) = SumOver(b, N) + d
    BY <1>6, <1>8, <2>1, SumOverGrow
  <2> QED
    BY <1>5, <1>8, <2>2
<1>12. /\ Total(infos', "used")[r] \in Nat /\ Total(before, "used")[r] \in Nat
       /\ Total(before, "min")[r] \in Nat
  BY <1>1, <1>3, TotalType
<1>13. Total(infos', "used")[r] <= Total(before, "used")[r] + Request(p)[r]
  BY <1>5, <1>6, <1>10, <1>11, <1>12
<1> DEFINE x == Plus(Total(before, "used"), cycle.pfs.total)
<1>14. ~cmp(x, Total(before, "min"))
  BY <1>0, <1>3, <1>4 DEF PreFilter, aggregatedUsedOverMinWith
<1>15. x[r] = Total(before, "used")[r] + cycle.pfs.total[r] /\ Zero[r] = 0
  BY DEF Plus, Zero
<1>16. (r \in Scalars => x[r] # 0) => ~(x[r] + Zero[r] > Total(before, "min")[r])
  BY <1>14 DEF cmp, cmp2
<1> HIDE DEF x, p
<1>17. Total(before, "used")[r] + Request(p)[r] <= Total(before, "min")[r]
  BY <1>5, <1>12, <1>15, <1>16
<1> QED
  BY <1>5, <1>9, <1>12, <1>13, <1>17

(* Reserve counts the pod of the cycle.                                    *)
LEMMA ReserveStep ==
  ASSUME IInv, Reserve
  PROVE  IInv'
<1>0. PICK p : p = cycle.pod
  OBVIOUS
<1>1. /\ cycle # None /\ cycle.passed
      /\ infos' = CountPod(infos, Obj[cycle.pod])
      /\ binding' = [binding EXCEPT ![p] = "binding"]
      /\ nominated' = nominated \ {p}
      /\ cycle' = None
      /\ UNCHANGED <<phase, seen, lister, notes, adding, steady, dropped, ops, faults>>
  BY <1>0 DEF Reserve, Feasible, quotas, ghosts
<1>2. /\ GoodInfos(infos') /\ DOMAIN infos' = DOMAIN infos
      /\ \A n \in DOMAIN infos :
           infos'[n].pods = IF n = Obj[p].ns THEN infos[n].pods \cup {p} ELSE infos[n].pods
  BY <1>0, <1>1, ReserveInfos
<1>3. WithinMax' /\ WithinMin'
  BY <1>1, ReserveWithinMax, ReserveWithinMin
<1>4. Types /\ GoodInfos(infos) /\ p \in Pods
  BY <1>0, <1>1, Split DEF IInv, Types
<1>5. phase[p] \in Unplaced /\ binding[p] = "no" /\ seen[p] = "no" /\ p \notin dropped
  BY <1>0, <1>1, <1>4 DEF IInv, PhasesAgree, Placed, Unplaced, Types
<1>6. Types'
  BY <1>1, <1>4 DEF Types
<1>7. PhasesAgree'
  BY <1>1, <1>4, <1>5 DEF IInv, PhasesAgree, Types
<1>8. Holds(p)' /\ \A q \in Pods \ {p} : Holds(q)' <=> Holds(q)
  BY <1>1, <1>4 DEF Holds, Types
<1>9. CountedHold'
  <2> SUFFICES ASSUME NEW n \in DOMAIN infos', NEW q \in infos'[n].pods
               PROVE  Holds(q)' /\ q \notin dropped'
    BY DEF CountedHold
  <2>1. q \in Pods
    BY <1>2 DEF GoodInfos, GoodInfo, InfosOf, Of
  <2>2. CASE q = p
    BY <1>1, <1>5, <1>8, <2>2
  <2>3. CASE q # p
    <3>1. n \in DOMAIN infos /\ q \in infos[n].pods
      BY <1>2, <2>3
    <3>2. Holds(q) /\ q \notin dropped
      BY <3>1 DEF IInv, CountedHold
    <3> QED
      BY <1>1, <1>8, <2>1, <2>3, <3>2
  <2> QED
    BY <2>2, <2>3
<1>10. SeenCounted'
  BY <1>1, <1>2, <1>5 DEF IInv, SeenCounted
<1>11. SteadyQuiet'
  BY <1>1, <1>2 DEF IInv, SteadyQuiet
<1>12. SteadyCounted'
  BY <1>1, <1>2, <1>8 DEF IInv, SteadyCounted, SteadyQuiet
<1>13. CycleCovers' /\ CyclePassed'
  BY <1>1 DEF CycleCovers, CyclePassed
<1> QED
  BY <1>2, <1>3, <1>6, <1>7, <1>9, <1>10, <1>11, <1>12, <1>13, Join DEF IInv

(* The answers to a binding: it succeeds, fails, or succeeds unnoticed.    *)
LEMMA BindStep ==
  ASSUME IInv, NEW p \in Pods, Bind(p) \/ BindFails(p) \/ BindLost(p)
  PROVE  IInv'
<1>0. Types /\ GoodInfos(infos)
  BY Split DEF IInv
<1>1. /\ binding[p] = "binding"
      /\ UNCHANGED <<nominated, seen, lister, notes, adding, infos, cycle, dropped, ops>>
      /\ faults' \in 0 .. MaxFaults
      /\ \/ /\ phase[p] = "pending" /\ phase' = [phase EXCEPT ![p] = "bound"]
            /\ binding' = [binding EXCEPT ![p] = "no"] /\ steady' = steady
         \/ /\ phase' = phase
            /\ binding' = [binding EXCEPT ![p] = "failed"] /\ steady' = steady
         \/ /\ phase[p] = "pending" /\ phase' = [phase EXCEPT ![p] = "bound"]
            /\ binding' = [binding EXCEPT ![p] = "failed"] /\ steady' = steady \ {Obj[p].ns}
  BY <1>0, QuotaAssumption DEF Bind, BindFails, BindLost, pods_, quotas, ghosts, Types
<1>2. phase[p] \in Unplaced /\ seen[p] = "no" /\ (cycle # None => cycle.pod # p)
  BY <1>0, <1>1 DEF IInv, PhasesAgree, Placed, Unplaced, Types
<1>3. Types'
  BY <1>0, <1>1 DEF Types
<1>4. steady' \subseteq steady
  BY <1>1
<1>5. PhasesAgree'
  BY <1>0, <1>1, <1>2 DEF IInv, PhasesAgree, Types, Placed, Unplaced
<1>6. \A q \in Pods : Holds(q)' <=> Holds(q)
  BY <1>0, <1>1, <1>2 DEF Holds, Types, Placed
<1>7. CountedHold'
  BY <1>0, <1>1, <1>6 DEF IInv, CountedHold, GoodInfos, GoodInfo, InfosOf, Of
<1>8. SeenCounted' /\ SteadyQuiet' /\ SteadyCounted'
  BY <1>1, <1>4, <1>6 DEF IInv, SeenCounted, SteadyQuiet, SteadyCounted
<1> QED
  BY <1>1, <1>3, <1>4, <1>5, <1>7, <1>8, InfosAlone, Assemble

(* Unreserve takes the pod off whose binding failed.                       *)
LEMMA UnreserveStep ==
  ASSUME IInv, NEW p \in Pods, Unreserve(p)
  PROVE  IInv'
<1>0. Types /\ GoodInfos(infos)
  BY Split DEF IInv
<1>1. /\ binding[p] = "failed"
      /\ infos' = UncountPod(infos, Obj[p])
      /\ dropped' = IF seen[p] \in {"assigned", "deleting"} THEN dropped \cup {p} ELSE dropped
      /\ binding' = [binding EXCEPT ![p] = "no"]
      /\ UNCHANGED <<phase, nominated, seen, lister, notes, adding, cycle, steady, ops, faults>>
  BY DEF Unreserve, Unreserved, pods_, quotas
<1>2. /\ GoodInfos(infos') /\ Shrinks /\ DOMAIN infos' = DOMAIN infos
      /\ \A n \in DOMAIN infos : infos'[n].pods = infos[n].pods \ {p}
  BY <1>1, PodTaken
<1>3. Types'
  BY <1>0, <1>1 DEF Types
<1>4. PhasesAgree'
  BY <1>0, <1>1 DEF IInv, PhasesAgree, Types
<1>5. \A q \in Pods \ {p} : Holds(q)' <=> Holds(q)
  BY <1>0, <1>1 DEF Holds, Types
<1>6. CountedHold'
  BY <1>0, <1>1, <1>2, <1>5 DEF IInv, CountedHold, GoodInfos, GoodInfo, InfosOf, Of
<1>7. SeenCounted'
  BY <1>0, <1>1, <1>2 DEF IInv, SeenCounted, Types
<1>8. SteadyQuiet'
  BY <1>1, <1>2 DEF IInv, SteadyQuiet
<1>9. SteadyCounted'
  <2>1. Obj[p].ns \in steady => ~Holds(p)'
    BY <1>0, <1>1 DEF Holds, IInv, PhasesAgree, Types, Placed, Unplaced
  <2> QED
    BY <1>1, <1>2, <1>5, <2>1 DEF IInv, SteadyCounted, SteadyQuiet
<1> QED
  BY <1>1, <1>2, <1>3, <1>4, <1>6, <1>7, <1>8, <1>9, Assemble

----------------------------------------------------------------------------
(* The start and the restart.                                              *)

(* Quotas without pods use no more than their mins.                        *)
LEMMA NothingUsed ==
  ASSUME NEW map, GoodInfos(map), \A ns \in DOMAIN map : map[ns].used = Zero
  PROVE  /\ \A ns \in DOMAIN map : AtMost(map[ns].used, map[ns].max)
         /\ AtMost(Total(map, "used"), Total(map, "min"))
<1>1. \A ns \in DOMAIN map : AtMost(map[ns].used, map[ns].max)
  BY DEF GoodInfos, GoodInfo, InfosOf, AtMost, Zero
<1>2. ASSUME NEW r \in Res PROVE Total(map, "used")[r] <= Total(map, "min")[r]
  <2> DEFINE X == DOMAIN map
             f == [ns \in X |-> map[ns]["used"][r]]
             g == [ns \in X |-> map[ns]["min"][r]]
  <2>1. /\ f \in [X -> Nat] /\ g \in [X -> Nat] /\ IsFiniteSet(X)
        /\ Total(map, "used")[r] = SumOver(f, X) /\ Total(map, "min")[r] = SumOver(g, X)
    BY FieldType
  <2>2. \A ns \in X : f[ns] <= g[ns]
    BY DEF GoodInfos, GoodInfo, InfosOf, Zero
  <2> HIDE DEF X, f, g
  <2> QED
    BY <2>1, <2>2, SumOverLess
<1> QED
  BY <1>1, <1>2 DEF AtMost

(* At the start New has read the quotas and no pod is placed.              *)
LEMMA InvariantInit ==
  ASSUME Init
  PROVE  IInv
<1>1. lister = [ns \in DOMAIN lister |-> lister[ns]]
  BY QuotaAssumption DEF Init
<1>2. DOMAIN lister \subseteq Namespaces
  BY QuotaAssumption DEF Init
<1>3. \A ns \in DOMAIN lister : lister[ns] \in Limits
  BY <1>2, QuotaAssumption DEF Init, Limits
<1>4. /\ DOMAIN infos = DOMAIN lister
      /\ \A ns \in DOMAIN infos : infos[ns] = newElasticQuotaInfo(lister[ns])
  BY DEF Init
<1>5. \A ns \in DOMAIN infos :
        GoodInfo(ns, infos[ns]) /\ infos[ns].pods = {} /\ infos[ns].used = Zero
  <2> TAKE ns \in DOMAIN infos
  <2>1. lister[ns] \in Limits
    BY <1>3, <1>4
  <2>2. newElasticQuotaInfo(lister[ns]).used = Zero
    BY DEF newElasticQuotaInfo
  <2> QED
    BY <1>4, <2>1, <2>2, NewInfo
<1>6. GoodInfos(infos)
  BY <1>2, <1>4, <1>5 DEF GoodInfos
<1>7. Types
  <2>1. lister \in [DOMAIN lister -> Limits] /\ DOMAIN lister \subseteq Namespaces
    BY <1>1, <1>2, <1>3
  <2>2. notes \in [Namespaces -> Seq(Notes)]
    BY DEF Init
  <2> QED
    BY <2>1, <2>2, QuotaAssumption DEF Init, Types
<1>8. TypeOK /\ UsedIsSum
  BY <1>6, <1>7 DEF TypeOK, UsedIsSum, Types, GoodInfos, GoodInfo, Objs
<1>9. PhasesAgree /\ CountedHold /\ SeenCounted
  BY <1>5 DEF Init, PhasesAgree, CountedHold, SeenCounted
<1>10. SteadyQuiet /\ SteadyCounted
  BY <1>2, <1>4 DEF Init, SteadyQuiet, SteadyCounted, Holds, Placed
<1>11. CycleCovers /\ CyclePassed
  BY DEF Init, CycleCovers, CyclePassed
<1>12. WithinMax /\ WithinMin
  BY <1>4, <1>5, <1>6, NothingUsed DEF Init, WithinMax, WithinMin
<1> QED
  BY <1>8, <1>9, <1>10, <1>11, <1>12 DEF IInv

(* A restart begins with no infos, and no namespace is steady any more.    *)
LEMMA RestartStep ==
  ASSUME IInv, Restart
  PROVE  IInv'
<1>0. Types /\ GoodInfos(infos)
  BY Split DEF IInv
<1>1. /\ DOMAIN infos' = {} /\ adding' = None
      /\ notes' = [ns \in Namespaces |->
                     IF ns \in DOMAIN lister THEN <<Note("add", lister[ns])>> ELSE << >>]
      /\ seen' = [p \in Pods |-> IF phase[p] = "gone" THEN "gone" ELSE "no"]
      /\ cycle' = None /\ binding' = [p \in Pods |-> "no"]
      /\ steady' = {} /\ dropped' = {}
      /\ faults' \in 0 .. MaxFaults
      /\ UNCHANGED <<phase, nominated, lister, ops>>
  BY <1>0, QuotaAssumption DEF Restart, Types
<1>2. notes' \in [Namespaces -> Seq(Notes)]
  <2>1. ASSUME NEW ns \in DOMAIN lister
        PROVE  Note("add", lister[ns]) \in Notes
    BY <1>0 DEF Types, Note, Notes
  <2> QED
    BY <1>1, <2>1
<1>3. Types'
  BY <1>0, <1>1, <1>2 DEF Types
<1>4. GoodInfos(infos')
  BY <1>1 DEF GoodInfos
<1>5. PhasesAgree'
  BY <1>1 DEF PhasesAgree, Placed
<1>6. CountedHold' /\ SeenCounted' /\ SteadyQuiet' /\ SteadyCounted'
  BY <1>1 DEF CountedHold, SeenCounted, SteadyQuiet, SteadyCounted
<1>7. CycleCovers' /\ CyclePassed'
  BY <1>1 DEF CycleCovers, CyclePassed
<1>8. AtMost(Total(infos', "used"), Total(infos', "min"))
  BY <1>1, <1>4, NothingUsed
<1>9. WithinMax' /\ WithinMin'
  BY <1>1, <1>8 DEF WithinMax, WithinMin
<1> QED
  BY <1>3, <1>4, <1>5, <1>6, <1>7, <1>9, Join DEF IInv

----------------------------------------------------------------------------
(* The theorems.                                                           *)

(* The inductive invariant holds in every state, for any pods, quotas and  *)
(* node and any number of changes of quotas, failures and restarts.        *)
THEOREM Invariant == Spec => []IInv
<1>1. Init => IInv
  BY InvariantInit
<1>2. IInv /\ [Next]_vars => IInv'
  <2> SUFFICES ASSUME IInv, [Next]_vars PROVE IInv'
    OBVIOUS
  <2>1. ASSUME NEW p \in Pods,
               \/ Delete(p) \/ End(p)
               \/ addPod(p) \/ updatePod(p) \/ deletePod(p)
               \/ StartCycle(p)
               \/ Bind(p) \/ BindFails(p) \/ BindLost(p) \/ Unreserve(p)
        PROVE  IInv'
    BY <2>1, DeleteStep, EndStep, AddPodStep, UpdatePodStep, DeletePodStep, StartCycleStep,
       BindStep, UnreserveStep
  <2>2. ASSUME NEW ns \in Namespaces,
               \/ \E spec \in Specs[ns] : CreateQuota(ns, spec) \/ UpdateQuota(ns, spec)
               \/ DeleteQuota(ns)
        PROVE  IInv'
    BY <2>2, QuotaStep
  <2>3. ASSUME NEW ns \in Namespaces,
               addElasticQuota(ns) \/ updateElasticQuota(ns) \/ deleteElasticQuota(ns)
        PROVE  IInv'
    BY <2>3, AddQuotaStep, UpdateQuotaStep, DeleteQuotaStep
  <2>4. CASE storeElasticQuota
    BY <2>4, StoreQuotaStep
  <2>5. CASE Reserve
    BY <2>5, ReserveStep
  <2>6. CASE PostFilter \/ PostFilterFails \/ PostFilterGone
    BY <2>6, PostFilterStep
  <2>7. CASE Restart
    BY <2>7, RestartStep
  <2>8. CASE UNCHANGED vars
    <3>1. UNCHANGED <<phase, nominated, seen, lister, notes, adding, infos, cycle, binding,
                      steady, dropped, ops, faults>>
      BY <2>8 DEF vars, pods_, quotas, sched, ghosts
    <3>2. Types' /\ PhasesAgree' /\ CountedHold' /\ SeenCounted' /\ SteadyQuiet' /\ SteadyCounted'
      BY <3>1, Split DEF IInv, Types, PhasesAgree, CountedHold, SeenCounted, SteadyQuiet,
         SteadyCounted, Holds
    <3> QED
      BY <3>1, <3>2, InfosAlone, Assemble
  <2> QED
    BY <2>1, <2>2, <2>3, <2>4, <2>5, <2>6, <2>7, <2>8 DEF Next
<1> QED
  BY <1>1, <1>2, PTL DEF Spec

(* The types of the state; no usage is ever negative, and a pod is counted *)
(* for its own namespace only.                                             *)
THEOREM TypeCorrect == Spec => []TypeOK
<1>1. IInv => TypeOK
  BY DEF IInv
<1> QED
  BY <1>1, Invariant, PTL

(* The usage of a quota is the sum of the requests of its pods, in every   *)
(* order of Reserve, Unreserve and the handlers.                           *)
THEOREM UsageIsSum == Spec => []UsedIsSum
<1>1. IInv => UsedIsSum
  BY DEF IInv
<1> QED
  BY <1>1, Invariant, PTL

(* A quota that is left alone is never used beyond its max: the check of   *)
(* PreFilter on the snapshot covers what Reserve counts later.             *)
THEOREM NeverOverMax == Spec => []WithinMax
<1>1. IInv => WithinMax
  BY DEF IInv
<1> QED
  BY <1>1, Invariant, PTL

(* And all quotas together never beyond the sum of their mins.             *)
THEOREM NeverOverMin == Spec => []WithinMin
<1>1. IInv => WithinMin
  BY DEF IInv
<1> QED
  BY <1>1, Invariant, PTL

(* When all events of a namespace are handled its quota counts exactly the *)
(* pods that are bound, but for those that were dropped with an info or by *)
(* Unreserve.                                                              *)
THEOREM UsageSettles == Spec => []Accounted
<1>1. IInv => Accounted
  <2> SUFFICES ASSUME IInv, NEW ns \in DOMAIN infos, Settled(ns)
               PROVE  infos[ns].pods = {p \in Of(ns) : Assigned(p)} \ dropped
    BY DEF Accounted
  <2>0. Types /\ GoodInfos(infos)
    BY Split DEF IInv
  <2>1. ASSUME NEW p \in infos[ns].pods
        PROVE  p \in Of(ns) /\ Assigned(p) /\ p \notin dropped
    <3>1. p \in Of(ns) /\ p \in Pods
      BY <2>0 DEF GoodInfos, GoodInfo, InfosOf, Of
    <3>2. Holds(p) /\ p \notin dropped
      BY DEF IInv, CountedHold
    <3> QED
      BY <3>1, <3>2 DEF Settled, Holds, Placed, Assigned
  <2>2. ASSUME NEW p \in Of(ns), Assigned(p), p \notin dropped
        PROVE  p \in infos[ns].pods
    <3>1. p \in Pods /\ Obj[p].ns = ns
      BY DEF Of
    <3>2. seen[p] \in {"assigned", "deleting"}
      BY <2>2 DEF Settled, Assigned
    <3> QED
      BY <2>2, <3>1, <3>2 DEF IInv, SeenCounted
  <2> QED
    BY <2>1, <2>2
<1> QED
  BY <1>1, Invariant, PTL
=============================================================================
