--------------------------- MODULE TrimaranProofs ---------------------------
(***************************************************************************)
(* Proofs about the handler of the Trimaran plugins, for any pods, nodes,  *)
(* intervals, targets and number of gaps and restarts: the cache is in the *)
(* order of the timestamps, has no pod twice and none that is gone, and it *)
(* keeps a pod until a cleanup an interval later; so the score stays in    *)
(* its range and is 0 for a node that the pod would overload.              *)
(***************************************************************************)
EXTENDS Trimaran, SumProofs, SequenceTheorems, WellFoundedInduction, TLAPS

Entry == [pod : Pods, uid : Nat, at : Nat]
Binding == [node : Nodes, at : Nat, uid : Nat]

----------------------------------------------------------------------------
(* The inductive invariant.                                                *)

Typed ==
  /\ now \in Nat /\ cleaned \in Nat /\ cleaned <= now /\ uids \in Nat
  /\ bound \in [Pods -> Binding \cup {None}]
  /\ seen \in [Pods -> Binding \cup {None}]
  /\ cache \in [Nodes -> Seq(Entry)]
  /\ \A u \in unseen : u \in Nat /\ u <= uids

(* Uids and times are those of the past.                                   *)
Past ==
  /\ \A p \in Pods : bound[p] # None => bound[p].uid <= uids /\ bound[p].at <= now
  /\ \A p \in Pods : seen[p] # None => seen[p].uid <= uids /\ seen[p].at <= now
  /\ \A n \in Nodes : \A k \in DOMAIN cache[n] : cache[n][k].uid <= uids /\ cache[n][k].at <= now

(* A uid is that of one pod, in the API server and in the informer.        *)
UidsUnique ==
  \A p, q \in Pods :
    /\ bound[p] # None /\ bound[q] # None /\ bound[p].uid = bound[q].uid => p = q
    /\ seen[p] # None /\ seen[q] # None /\ seen[p].uid = seen[q].uid => p = q
    /\ seen[p] # None /\ bound[q] # None /\ seen[p].uid = bound[q].uid => p = q /\ seen[p] = bound[p]

(* A pod that came up in a gap has been reported since.                    *)
GapReported ==
  \A p \in Pods : bound[p] # None /\ bound[p].uid \in unseen => seen[p] = bound[p]

(* The entry k of node n is that of the pod p as the informer has it.      *)
IsEntryOf(k, n, p) ==
  cache[n][k].pod = p /\ cache[n][k].uid = seen[p].uid /\ cache[n][k].at >= seen[p].at

(* A pod that the handler was told of is in the cache of its node until a  *)
(* cleanup that comes at least Interval after its binding.  OnAdd appends  *)
(* it, OnDelete of another pod and cleanupCache must not take it out.      *)
(* (Pods that came up on their old node in a gap of the watch are never    *)
(* added.)                                                                 *)
CacheComplete ==
  \A p \in Pods :
    seen[p] # None /\ seen[p].uid \notin unseen =>
      \/ seen[p].at + Interval <= cleaned
      \/ \E k \in DOMAIN cache[seen[p].node] : IsEntryOf(k, seen[p].node, p)

IInv ==
  Typed /\ Past /\ UidsUnique /\ GapReported /\ CacheHonest /\ CacheComplete

----------------------------------------------------------------------------
(* Sequences of entries.                                                   *)

(* A set of positions that is not empty has a least element.               *)
LEMMA MinPosition ==
  ASSUME NEW I \in SUBSET Nat, I # {}
  PROVE  Min(I) \in I /\ \A j \in I : Min(I) <= j
<1>1. PICK i \in I : \A j \in I : ~(<<j, i>> \in OpToRel(<, Nat))
  BY NatLessThanWellFounded, WFMin
<1>2. \A j \in I : i <= j
  <2> SUFFICES ASSUME NEW j \in I, j < i PROVE FALSE
    OBVIOUS
  <2>1. <<j, i>> \in Nat \X Nat /\ <<j, i>>[1] = j /\ <<j, i>>[2] = i
    OBVIOUS
  <2>2. <<j, i>> \in OpToRel(<, Nat)
    BY <2>1 DEF OpToRel
  <2> QED
    BY <1>1, <2>2
<1> QED
  BY <1>2 DEF Min

(* The cleanup cuts off entries from the front, none of which is young.    *)
LEMMA CleanedSuffix ==
  ASSUME NEW s \in Seq(Entry)
  PROVE  \E d \in Nat : /\ d <= Len(s)
                        /\ Cleaned(s) \in Seq(Entry) /\ Len(Cleaned(s)) = Len(s) - d
                        /\ \A k \in 1 .. Len(s) - d : Cleaned(s)[k] = s[k + d]
                        /\ \A k \in 1 .. d : ~Young(s[k])
<1> DEFINE I == {i \in 1 .. Len(s) : Young(s[i])}
<1>1. Cleaned(s) = IF (IF I # {} THEN Min(I) ELSE 0) = 0 THEN s
                   ELSE SubSeq(s, IF I # {} THEN Min(I) ELSE 0, Len(s))
  BY DEF Cleaned, SelectInSeq
<1>2. CASE I = {}
  <2>1. Cleaned(s) = s
    BY <1>1, <1>2
  <2> QED
    BY <2>1
<1>3. CASE I # {}
  <2>1. PICK m : m = Min(I)
    OBVIOUS
  <2>2. m \in I /\ \A j \in I : m <= j
    <3>1. I \in SUBSET Nat
      OBVIOUS
    <3> HIDE DEF I
    <3> QED
      BY <1>3, <2>1, <3>1, MinPosition
  <2>3. m \in 1 .. Len(s) /\ Len(s) \in Nat /\ \A k \in 1 .. m - 1 : ~Young(s[k])
    BY <2>2
  <2> HIDE DEF I
  <2>4. Cleaned(s) = SubSeq(s, m, Len(s))
    BY <1>1, <1>3, <2>1, <2>3
  <2>5. \A i \in m .. Len(s) : s[i] \in Entry
    BY <2>3, ElementOfSeq
  <2>6. /\ Cleaned(s) \in Seq(Entry) /\ Len(Cleaned(s)) = Len(s) - m + 1
        /\ \A k \in 1 .. Len(s) - m + 1 : Cleaned(s)[k] = s[m + k - 1]
    BY <2>3, <2>4, <2>5, SubSeqProperties
  <2>7. m - 1 \in Nat /\ m - 1 <= Len(s) /\ Len(s) - (m - 1) = Len(s) - m + 1
    BY <2>3
  <2>8. \A k \in 1 .. Len(s) - (m - 1) : Cleaned(s)[k] = s[k + (m - 1)]
    <3> TAKE k \in 1 .. Len(s) - (m - 1)
    <3>1. k \in 1 .. Len(s) - m + 1 /\ k + (m - 1) = m + k - 1
      BY <2>3
    <3> QED
      BY <3>1, <2>6
  <2> QED
    BY <2>3, <2>6, <2>7, <2>8
<1> QED
  BY <1>2, <1>3

(* OnDelete takes out one entry with the uid, if there is one.             *)
LEMMA DroppedOne ==
  ASSUME NEW s \in Seq(Entry), NEW u
  PROVE  \/ Dropped(s, u) = s /\ \A k \in DOMAIN s : s[k].uid # u
         \/ \E i \in DOMAIN s :
              /\ s[i].uid = u
              /\ Dropped(s, u) \in Seq(Entry) /\ Len(Dropped(s, u)) = Len(s) - 1
              /\ \A k \in 1 .. Len(s) - 1 : Dropped(s, u)[k] = s[IF k < i THEN k ELSE k + 1]
<1> DEFINE I == {i \in 1 .. Len(s) : s[i].uid = u}
<1>1. Len(s) \in Nat /\ DOMAIN s = 1 .. Len(s)
  BY LenProperties
<1>2. CASE I = {}
  BY <1>1, <1>2 DEF Dropped
<1>3. CASE I # {}
  <2>1. PICK m : m = Min(I)
    OBVIOUS
  <2>2. m \in I
    <3>1. I \in SUBSET Nat
      OBVIOUS
    <3> HIDE DEF I
    <3> QED
      BY <1>3, <2>1, <3>1, MinPosition
  <2>3. Dropped(s, u) = RemoveAt(s, IF I # {} THEN Min(I) ELSE 0)
    BY <1>1, <2>2 DEF Dropped, SelectInSeq
  <2>4. m \in 1 .. Len(s) /\ s[m].uid = u
    BY <2>2
  <2> HIDE DEF I
  <2>5. Dropped(s, u) = SubSeq(s, 1, m - 1) \o SubSeq(s, m + 1, Len(s))
    BY <1>3, <2>1, <2>3 DEF RemoveAt
  <2>6. PICK a : a = SubSeq(s, 1, m - 1)
    OBVIOUS
  <2>7. PICK b : b = SubSeq(s, m + 1, Len(s))
    OBVIOUS
  <2>8. \A i \in 1 .. Len(s) : s[i] \in Entry
    BY ElementOfSeq
  <2>9. a \in Seq(Entry) /\ Len(a) = m - 1 /\ \A i \in 1 .. m - 1 : a[i] = s[i]
    <3>1. m - 1 \in Int /\ 1 \in Int /\ \A i \in 1 .. m - 1 : s[i] \in Entry
      BY <1>1, <2>4, <2>8
    <3>2. /\ a \in Seq(Entry) /\ Len(a) = IF 1 <= m - 1 THEN m - 1 - 1 + 1 ELSE 0
          /\ \A i \in 1 .. m - 1 - 1 + 1 : a[i] = s[1 + i - 1]
      BY <2>6, <3>1, SubSeqProperties
    <3> QED
      BY <2>4, <3>2
  <2>10. /\ b \in Seq(Entry) /\ Len(b) = Len(s) - m
         /\ \A i \in 1 .. Len(s) - m : b[i] = s[m + i]
    <3>1. m + 1 \in Int /\ Len(s) \in Int /\ \A i \in m + 1 .. Len(s) : s[i] \in Entry
      BY <1>1, <2>4, <2>8
    <3>2. /\ b \in Seq(Entry) /\ Len(b) = IF m + 1 <= Len(s) THEN Len(s) - (m + 1) + 1 ELSE 0
          /\ \A i \in 1 .. Len(s) - (m + 1) + 1 : b[i] = s[m + 1 + i - 1]
      BY <2>7, <3>1, SubSeqProperties
    <3> DEFINE l == Len(s)
    <3>5. l \in Nat /\ m \in 1 .. l
      BY <1>1, <2>4
    <3> HIDE DEF l
    <3>6. l - (m + 1) + 1 = l - m
      BY <3>5
    <3>7. m + 1 <= l \/ l - m = 0
      BY <3>5
    <3>3. Len(s) - (m + 1) + 1 = Len(s) - m /\ (m + 1 <= Len(s) \/ Len(s) - m = 0)
      BY <3>6, <3>7 DEF l
    <3>4. \A i \in 1 .. Len(s) - m : m + 1 + i - 1 = m + i
      BY <1>1, <2>4
    <3> QED
      BY <3>2, <3>3, <3>4
  <2>11. /\ Dropped(s, u) \in Seq(Entry) /\ Len(Dropped(s, u)) = Len(a) + Len(b)
         /\ \A k \in 1 .. Len(a) + Len(b) :
              Dropped(s, u)[k] = IF k <= Len(a) THEN a[k] ELSE b[k - Len(a)]
    <3>1. Dropped(s, u) = a \o b
      BY <2>5, <2>6, <2>7, Zenon
    <3>2. a \in Seq(Entry) /\ b \in Seq(Entry)
      BY <2>9, <2>10, Zenon
    <3> QED
      BY <3>1, <3>2, ConcatProperties
  <2>12. \A k \in 1 .. Len(s) - 1 : Dropped(s, u)[k] = s[IF k < m THEN k ELSE k + 1]
    <3> TAKE k \in 1 .. Len(s) - 1
    <3>1. CASE k < m
      <4>1. k \in 1 .. m - 1 /\ k <= Len(a) /\ k \in 1 .. Len(a) + Len(b)
        BY <1>1, <2>4, <2>9, <2>10, <3>1
      <4> QED
        BY <2>9, <2>11, <3>1, <4>1
    <3>2. CASE k >= m
      <4>1. k - (m - 1) \in 1 .. Len(s) - m /\ m + (k - (m - 1)) = k + 1 /\ ~(k <= Len(a)) /\ ~(k < m)
        BY <1>1, <2>4, <2>9, <3>2
      <4>2. Dropped(s, u)[k] = b[k - (m - 1)]
        <5>1. k \in 1 .. Len(a) + Len(b)
          BY <1>1, <2>4, <2>9, <2>10
        <5> QED
          BY <2>9, <2>11, <4>1, <5>1, Zenon
      <4> QED
        BY <2>10, <4>1, <4>2
    <3> QED
      BY <1>1, <2>4, <3>1, <3>2
  <2>13. Len(Dropped(s, u)) = Len(s) - 1
    BY <1>1, <2>4, <2>9, <2>10, <2>11
  <2> QED
    BY <1>1, <2>4, <2>11, <2>12, <2>13, Zenon
<1> QED
  BY <1>2, <1>3

(* t has the entries of s in their order, without those that have uid u: f *)
(* says where they come from.                                              *)
KeepsOthers(t, s, f, u) ==
  /\ t \in Seq(Entry) /\ f \in [DOMAIN t -> DOMAIN s]
  /\ \A k \in DOMAIN t : k \in Nat /\ f[k] \in Nat /\ t[k] = s[f[k]] /\ s[f[k]].uid # u
  /\ \A k \in DOMAIN t : \A j \in 1 .. (k - 1) : j \in DOMAIN t /\ f[j] \in 1 .. (f[k] - 1)
  /\ \A k \in DOMAIN s : s[k].uid # u => \E j \in DOMAIN t : f[j] = k

(* Where uids are unique OnDelete takes out the pod and keeps the others.  *)
LEMMA DroppedKeeps ==
  ASSUME NEW s \in Seq(Entry), NEW u,
         \A i, j \in DOMAIN s : s[i].uid = s[j].uid => i = j
  PROVE  \E f : KeepsOthers(Dropped(s, u), s, f, u)
<1>1. PICK t : t = Dropped(s, u)
  OBVIOUS
<1>2. PICK l \in Nat : l = Len(s) /\ DOMAIN s = 1 .. l
  BY LenProperties
<1>3. CASE t = s /\ \A k \in DOMAIN s : s[k].uid # u
  <2> DEFINE f == [k \in 1 .. l |-> k]
  <2>1. f \in [1 .. l -> 1 .. l] /\ \A k \in 1 .. l : f[k] = k
    OBVIOUS
  <2>2. \A k \in 1 .. l : k \in Nat /\ \A j \in 1 .. (k - 1) : j \in 1 .. l
    BY <1>2
  <2> HIDE DEF f
  <2>3. KeepsOthers(t, s, f, u)
    BY <1>2, <1>3, <2>1, <2>2 DEF KeepsOthers
  <2> QED
    BY <1>1, <2>3
<1>4. ASSUME NEW i \in DOMAIN s, s[i].uid = u, t \in Seq(Entry), Len(t) = Len(s) - 1,
             \A k \in 1 .. Len(s) - 1 : t[k] = s[IF k < i THEN k ELSE k + 1]
      PROVE  \E f : KeepsOthers(t, s, f, u)
  <2>1. i \in 1 .. l /\ DOMAIN t = 1 .. l - 1
    BY <1>2, <1>4, LenProperties
  <2> DEFINE f == [k \in 1 .. l - 1 |-> IF k < i THEN k ELSE k + 1]
  <2>2. /\ f \in [1 .. l - 1 -> 1 .. l]
        /\ \A k \in 1 .. l - 1 : k \in Nat /\ f[k] \in Nat /\ f[k] # i /\ f[k] = IF k < i THEN k ELSE k + 1
        /\ \A k \in 1 .. l - 1 : \A j \in 1 .. (k - 1) : j \in 1 .. l - 1 /\ f[j] \in 1 .. (f[k] - 1)
    BY <2>1
  <2>3. \A k \in 1 .. l : k # i => \E j \in 1 .. l - 1 : f[j] = k
    <3> SUFFICES ASSUME NEW k \in 1 .. l, k # i PROVE \E j \in 1 .. l - 1 : f[j] = k
      OBVIOUS
    <3>1. CASE k < i
      <4>1. k \in 1 .. l - 1 /\ f[k] = k
        BY <2>1, <3>1
      <4> QED
        BY <4>1
    <3>2. CASE k > i
      <4>1. k - 1 \in 1 .. l - 1 /\ f[k - 1] = k
        BY <2>1, <3>2
      <4> QED
        BY <4>1
    <3> QED
      BY <2>1, <3>1, <3>2
  <2> HIDE DEF f
  <2>4. \A k \in 1 .. l : k # i <=> s[k].uid # u
    BY <1>2, <1>4, <2>1
  <2>5. \A k \in 1 .. l - 1 : t[k] = s[f[k]] /\ s[f[k]].uid # u
    BY <1>2, <1>4, <2>2, <2>4
  <2>6. KeepsOthers(t, s, f, u)
    BY <1>2, <1>4, <2>1, <2>2, <2>3, <2>4, <2>5 DEF KeepsOthers
  <2> QED
    BY <2>6
<1> QED
  BY <1>1, <1>3, <1>4, DroppedOne

----------------------------------------------------------------------------
(* The steps.                                                              *)

(* A pod that is bound by the step has a new uid and is the only one.      *)
AtMostOneBound ==
  /\ bound' \in [Pods -> Binding \cup {None}]
  /\ \A q \in Pods : bound'[q] # None =>
       \/ bound'[q] = bound[q]
       \/ /\ bound'[q].uid = uids + 1 /\ uids' = uids + 1 /\ bound'[q].at = now'
          /\ \A r \in Pods \ {q} : bound'[r] = bound[r]

(* The clock, the API server and the metrics leave the handler alone.      *)
LEMMA WorldStep ==
  ASSUME IInv, Tick \/ updateMetrics \/ \E p \in Pods : Delete(p) \/ \E n \in Nodes : Bind(p, n)
  PROVE  IInv'
<1>1. /\ now' \in Nat /\ now <= now' /\ uids' \in Nat /\ uids <= uids'
      /\ UNCHANGED <<seen, cache, cleaned, unseen>>
  BY DEF IInv, Typed, Tick, updateMetrics, Delete, Bind
<1>2. AtMostOneBound
  <2>1. CASE Tick \/ updateMetrics
    BY <2>1 DEF IInv, Typed, Tick, updateMetrics, AtMostOneBound
  <2>2. CASE \E p \in Pods : Delete(p)
    BY <2>2 DEF IInv, Typed, Delete, AtMostOneBound
  <2>3. ASSUME NEW p \in Pods, NEW n \in Nodes, Bind(p, n)
        PROVE  AtMostOneBound
    <3>1. PICK b : b = [node |-> n, at |-> now, uid |-> uids + 1]
      OBVIOUS
    <3>2. b \in Binding /\ b.uid = uids + 1 /\ b.at = now
      BY <3>1 DEF IInv, Typed, Binding
    <3>3. bound' = [bound EXCEPT ![p] = b] /\ uids' = uids + 1 /\ now' = now
      BY <2>3, <3>1 DEF Bind
    <3> QED
      BY <3>2, <3>3 DEF IInv, Typed, AtMostOneBound
  <2> QED
    BY <2>1, <2>2, <2>3
<1>3. Typed'
  BY <1>1, <1>2 DEF IInv, Typed, AtMostOneBound
<1>4. Past'
  <2>1. \A q \in Pods : bound'[q] # None => bound'[q].uid <= uids' /\ bound'[q].at <= now'
    BY <1>1, <1>2 DEF IInv, Typed, Past, Binding, AtMostOneBound
  <2>2. \A q \in Pods : seen'[q] # None => seen'[q].uid <= uids' /\ seen'[q].at <= now'
    BY <1>1 DEF IInv, Typed, Past, Binding
  <2>3. \A n \in Nodes : \A k \in DOMAIN cache'[n] :
          cache'[n][k].uid <= uids' /\ cache'[n][k].at <= now'
    <3> SUFFICES ASSUME NEW n \in Nodes, NEW k \in DOMAIN cache[n]
                 PROVE  cache[n][k].uid <= uids' /\ cache[n][k].at <= now'
      BY <1>1
    <3>1. cache[n][k] \in Entry
      BY DEF IInv, Typed
    <3>2. cache[n][k].uid <= uids /\ cache[n][k].at <= now
      BY DEF IInv, Past
    <3>3. cache[n][k].uid \in Nat /\ cache[n][k].at \in Nat /\ uids \in Nat /\ now \in Nat
      BY <3>1 DEF IInv, Typed, Entry
    <3> QED
      BY <1>1, <3>2, <3>3
  <2> QED
    BY <2>1, <2>2, <2>3 DEF Past
<1>5. UidsUnique'
  <2> SUFFICES ASSUME NEW q \in Pods, NEW r \in Pods
               PROVE  /\ bound'[q] # None /\ bound'[r] # None /\ bound'[q].uid = bound'[r].uid => q = r
                      /\ seen[q] # None /\ bound'[r] # None /\ seen[q].uid = bound'[r].uid
                           => q = r /\ seen[q] = bound'[q]
    BY <1>1 DEF IInv, UidsUnique
  <2>1. /\ bound[q] # None => bound[q].uid \in Nat /\ bound[q].uid <= uids
        /\ bound[r] # None => bound[r].uid \in Nat /\ bound[r].uid <= uids
        /\ seen[q] # None => seen[q].uid \in Nat /\ seen[q].uid <= uids
        /\ uids \in Nat
    BY DEF IInv, Typed, Past, Binding
  <2> QED
    BY <1>2, <2>1 DEF IInv, UidsUnique, AtMostOneBound
<1>6. GapReported'
  BY <1>1, <1>2 DEF IInv, Typed, GapReported, AtMostOneBound
<1>7. CacheHonest'
  BY <1>1 DEF IInv, CacheHonest
<1>8. CacheComplete'
  BY <1>1 DEF IInv, CacheComplete, IsEntryOf
<1> QED
  BY <1>3, <1>4, <1>5, <1>6, <1>7, <1>8 DEF IInv

(* The cache has no entry of a pod that the handler was not told of.       *)
LEMMA NoEntryYet ==
  ASSUME IInv, NEW p \in Pods, bound[p] # None, seen[p] # bound[p]
  PROVE  /\ bound[p].uid \notin unseen
         /\ \A n \in Nodes : \A k \in DOMAIN cache[n] : cache[n][k].uid # bound[p].uid
<1>1. bound[p].uid \notin unseen
  BY DEF IInv, GapReported
<1>2. ASSUME NEW n \in Nodes, NEW k \in DOMAIN cache[n], cache[n][k].uid = bound[p].uid
      PROVE  FALSE
  <2>1. cache[n][k] \in Entry
    BY DEF IInv, Typed
  <2>2. PICK q \in Pods : q = cache[n][k].pod
    BY <2>1 DEF Entry
  <2>3. seen[q] # None /\ seen[q].uid = bound[p].uid
    BY <1>1, <1>2, <2>2 DEF IInv, CacheHonest
  <2> QED
    BY <2>3 DEF IInv, UidsUnique
<1> QED
  BY <1>1, <1>2

(* The handler is told of a pod and appends it to the cache of its node.   *)
LEMMA AppendStep ==
  ASSUME IInv, NEW p \in Pods, bound[p] # None, seen[p] # bound[p],
         seen' = [seen EXCEPT ![p] = bound[p]], cache' = updateCache(p, bound[p]),
         unseen \subseteq unseen', seen[p] # None => seen[p].uid \in unseen',
         \A u \in unseen' : u \in unseen \/ (seen[p] # None /\ u = seen[p].uid),
         UNCHANGED <<now, bound, uids, cleaned>>
  PROVE  IInv'
<1>1. PICK b \in Binding : b = bound[p]
  BY DEF IInv, Typed
<1>2. PICK n \in Nodes : n = b.node
  BY DEF Binding
<1>3. PICK e \in Entry : e = [pod |-> p, uid |-> b.uid, at |-> now]
  BY DEF IInv, Typed, Entry, Binding
<1>4. PICK l \in Nat : l = Len(cache[n])
  BY DEF IInv, Typed
<1>5. /\ cache' \in [Nodes -> Seq(Entry)] /\ DOMAIN cache[n] = 1 .. l /\ DOMAIN cache'[n] = 1 .. (l + 1)
      /\ \A m \in Nodes \ {n} : cache'[m] = cache[m]
      /\ \A k \in 1 .. l : cache'[n][k] = cache[n][k]
      /\ cache'[n][l + 1] = e
  <2>1. cache \in [Nodes -> Seq(Entry)] /\ cache' = [cache EXCEPT ![n] = Append(cache[n], e)]
    BY <1>1, <1>2, <1>3 DEF IInv, Typed, updateCache
  <2>2. /\ Append(cache[n], e) \in Seq(Entry) /\ Len(Append(cache[n], e)) = l + 1
        /\ \A k \in 1 .. l : Append(cache[n], e)[k] = cache[n][k]
        /\ Append(cache[n], e)[l + 1] = e
    BY <1>4, <2>1, AppendProperties
  <2>3. DOMAIN cache[n] = 1 .. l /\ DOMAIN Append(cache[n], e) = 1 .. (l + 1)
    BY <1>4, <2>1, <2>2, LenProperties
  <2> QED
    BY <2>1, <2>2, <2>3
<1>6. /\ b.uid \notin unseen /\ (seen[p] # None => seen[p].uid # b.uid)
      /\ \A m \in Nodes : \A k \in DOMAIN cache[m] : cache[m][k].uid # b.uid
  BY <1>1, NoEntryYet DEF IInv, UidsUnique
<1>7. seen' \in [Pods -> Binding \cup {None}] /\ seen'[p] = b /\ \A q \in Pods \ {p} : seen'[q] = seen[q]
  BY <1>1 DEF IInv, Typed
<1>8. /\ \A q \in Pods : seen[q] # None => seen[q] \in Binding /\ seen[q].uid <= uids /\ seen[q].at <= now
      /\ b.uid \in Nat /\ b.uid <= uids /\ b.at \in Nat /\ b.at <= now /\ uids \in Nat /\ now \in Nat
  BY <1>1 DEF IInv, Typed, Past, Binding
<1>9. /\ e.pod = p /\ e.uid = b.uid /\ e.at = now
      /\ \A m \in Nodes : \A k \in DOMAIN cache[m] : cache[m][k].uid <= uids /\ cache[m][k].at <= now
  BY <1>3 DEF IInv, Past
<1>10. Typed'
  <2>1. \A u \in unseen' : u \in Nat /\ u <= uids
    <3>1. \A u \in unseen : u \in Nat /\ u <= uids
      BY DEF IInv, Typed
    <3>2. seen[p] # None => seen[p].uid \in Nat /\ seen[p].uid <= uids
      BY <1>8 DEF Binding
    <3> QED
      BY <3>1, <3>2
  <2> QED
    BY <1>5, <1>7, <2>1 DEF IInv, Typed
<1>11. Past'
  <2>1. \A m \in Nodes : \A k \in DOMAIN cache'[m] : cache'[m][k].uid <= uids /\ cache'[m][k].at <= now
    <3> SUFFICES ASSUME NEW k \in 1 .. (l + 1)
                 PROVE  cache'[n][k].uid <= uids /\ cache'[n][k].at <= now
      BY <1>5, <1>9
    <3>1. k \in 1 .. l \/ k = l + 1
      OBVIOUS
    <3> QED
      BY <1>5, <1>8, <1>9, <3>1
  <2> QED
    BY <1>7, <1>8, <2>1 DEF IInv, Past
<1>12. UidsUnique'
  BY <1>1, <1>7 DEF IInv, UidsUnique
<1>13. GapReported'
  <2> SUFFICES ASSUME NEW q \in Pods, bound[q] # None, bound[q].uid \in unseen'
               PROVE  seen'[q] = bound[q]
    BY DEF GapReported
  <2> QED
    BY <1>1, <1>7 DEF IInv, GapReported, UidsUnique
<1>14. CacheHonest'
  <2> SUFFICES ASSUME NEW m \in Nodes, NEW k \in DOMAIN cache'[m]
               PROVE  /\ \A j \in 1 .. (k - 1) :
                           cache'[m][j].at <= cache'[m][k].at /\ cache'[m][j].uid # cache'[m][k].uid
                      /\ \/ cache'[m][k].uid \in unseen'
                         \/ /\ seen'[cache'[m][k].pod] # None
                            /\ seen'[cache'[m][k].pod].uid = cache'[m][k].uid
                            /\ seen'[cache'[m][k].pod].node = m
    BY DEF CacheHonest
  <2>1. CASE k \in DOMAIN cache[m] /\ cache'[m][k] = cache[m][k]
             /\ \A j \in 1 .. (k - 1) : cache'[m][j] = cache[m][j]
    <3>1. cache[m][k].pod \in Pods
      <4>1. cache[m][k] \in Entry
        BY <2>1 DEF IInv, Typed
      <4> QED
        BY <4>1 DEF Entry
    <3>2. /\ \A j \in 1 .. (k - 1) : cache[m][j].at <= cache[m][k].at /\ cache[m][j].uid # cache[m][k].uid
          /\ \/ cache[m][k].uid \in unseen
             \/ /\ seen[cache[m][k].pod] # None
                /\ seen[cache[m][k].pod].uid = cache[m][k].uid
                /\ seen[cache[m][k].pod].node = m
      BY <2>1 DEF IInv, CacheHonest
    <3> QED
      BY <1>7, <2>1, <3>1, <3>2
  <2>2. CASE m = n /\ k = l + 1
    <3>1. \A j \in 1 .. (k - 1) : j \in DOMAIN cache[n] /\ cache'[n][j] = cache[n][j]
      BY <1>5, <2>2
    <3>2. cache'[m][k] = e
      BY <1>5, <2>2
    <3>3. \A j \in 1 .. (k - 1) : cache'[m][j].at <= e.at /\ cache'[m][j].uid # e.uid
      BY <1>6, <1>9, <2>2, <3>1
    <3>4. seen'[e.pod] # None /\ seen'[e.pod].uid = e.uid /\ seen'[e.pod].node = m
      BY <1>1, <1>2, <1>7, <1>9, <2>2
    <3> QED
      BY <3>2, <3>3, <3>4
  <2>3. CASE m # n
    <3>1. cache'[m] = cache[m]
      BY <1>5, <2>3
    <3> QED
      BY <2>1, <3>1
  <2>4. CASE m = n /\ k \in 1 .. l
    <3>1. k \in DOMAIN cache[m] /\ cache'[m][k] = cache[m][k]
      BY <1>5, <2>4
    <3>2. \A j \in 1 .. (k - 1) : j \in 1 .. l
      BY <2>4
    <3>3. \A j \in 1 .. (k - 1) : cache'[m][j] = cache[m][j]
      BY <1>5, <2>4, <3>2
    <3> QED
      BY <2>1, <3>1, <3>3
  <2>5. m = n => k \in 1 .. l \/ k = l + 1
    BY <1>5
  <2> QED
    BY <2>2, <2>3, <2>4, <2>5
<1>15. CacheComplete'
  <2> SUFFICES ASSUME NEW q \in Pods, seen'[q] # None, seen'[q].uid \notin unseen',
                      ~(seen'[q].at + Interval <= cleaned)
               PROVE  \E k \in DOMAIN cache'[seen'[q].node] :
                        /\ cache'[seen'[q].node][k].pod = q
                        /\ cache'[seen'[q].node][k].uid = seen'[q].uid
                        /\ cache'[seen'[q].node][k].at >= seen'[q].at
    BY DEF CacheComplete, IsEntryOf
  <2>1. CASE q = p
    <3>1. seen'[q] = b /\ seen'[q].node = n
      BY <1>2, <1>7, <2>1
    <3>2. l + 1 \in DOMAIN cache'[n] /\ cache'[n][l + 1] = e
      BY <1>5
    <3> QED
      BY <1>8, <1>9, <2>1, <3>1, <3>2
  <2>2. CASE q # p
    <3>1. seen'[q] = seen[q] /\ seen[q].node \in Nodes
      BY <1>7, <1>8, <2>2 DEF Binding
    <3>2. PICK k \in DOMAIN cache[seen[q].node] : IsEntryOf(k, seen[q].node, q)
      BY <3>1 DEF IInv, CacheComplete
    <3>3. k \in DOMAIN cache'[seen[q].node] /\ cache'[seen[q].node][k] = cache[seen[q].node][k]
      <4>1. CASE seen[q].node = n
        <5>1. k \in 1 .. l /\ k \in 1 .. (l + 1)
          BY <1>5, <3>2, <4>1
        <5> QED
          BY <1>5, <4>1, <5>1
      <4>2. CASE seen[q].node # n
        BY <1>5, <3>1, <3>2, <4>2
      <4> QED
        BY <4>1, <4>2
    <3> QED
      BY <3>1, <3>2, <3>3 DEF IsEntryOf
  <2> QED
    BY <2>1, <2>2
<1> QED
  BY <1>10, <1>11, <1>12, <1>13, <1>14, <1>15 DEF IInv

(* An entry is one of a pod.                                               *)
LEMMA EntryType ==
  ASSUME Typed, NEW n \in Nodes, NEW k \in DOMAIN cache[n]
  PROVE  cache[n][k].pod \in Pods /\ cache[n][k].uid \in Nat /\ cache[n][k].at \in Nat
<1>1. cache[n][k] \in Entry
  BY DEF Typed
<1> QED
  BY <1>1 DEF Entry

(* A pod is reported.                                                      *)
LEMMA OnAddStep ==
  ASSUME IInv, NEW p \in Pods, OnAdd(p)
  PROVE  IInv'
BY AppendStep DEF OnAdd

(* A status update does not touch the cache.                               *)
LEMMA OnUpdateStep ==
  ASSUME IInv, NEW p \in Pods, OnUpdate(p)
  PROVE  IInv'
<1>1. UNCHANGED <<now, bound, seen, cache, cleaned, unseen, uids>>
  BY DEF OnUpdate, OnUpdated
<1> QED
  BY <1>1 DEF IInv, Typed, Past, UidsUnique, GapReported, CacheHonest, CacheComplete, IsEntryOf

(* A pod that was deleted and made anew in a gap: the old entry stays, and *)
(* there is a new one if the node is another.                              *)
LEMMA OnUpdateAfterGapStep ==
  ASSUME IInv, NEW p \in Pods, OnUpdateAfterGap(p)
  PROVE  IInv'
<1>1. /\ seen[p] # None /\ bound[p] # None /\ seen[p] # bound[p]
      /\ seen' = [seen EXCEPT ![p] = bound[p]]
      /\ cache' = OnUpdated(p, seen[p], bound[p])
      /\ unseen' = unseen \cup {seen[p].uid}
                         \cup {u \in {bound[p].uid} : seen[p].node = bound[p].node}
      /\ UNCHANGED <<now, bound, uids, cleaned>>
  BY DEF OnUpdateAfterGap
<1>2. CASE seen[p].node # bound[p].node
  <2>1. cache' = updateCache(p, bound[p]) /\ unseen' = unseen \cup {seen[p].uid}
    BY <1>1, <1>2 DEF OnUpdated
  <2> QED
    BY <1>1, <2>1, AppendStep
<1>3. CASE seen[p].node = bound[p].node
  <2>1. cache' = cache /\ unseen' = unseen \cup {seen[p].uid, bound[p].uid}
    BY <1>1, <1>3 DEF OnUpdated
  <2>2. /\ seen' \in [Pods -> Binding \cup {None}] /\ seen'[p] = bound[p]
        /\ \A q \in Pods \ {p} : seen'[q] = seen[q]
    BY <1>1 DEF IInv, Typed
  <2>3. /\ bound[p] \in Binding /\ bound[p].uid <= uids /\ bound[p].at <= now
        /\ seen[p] \in Binding /\ seen[p].uid <= uids
    BY <1>1 DEF IInv, Typed, Past
  <2>4. Typed'
    BY <1>1, <2>1, <2>2, <2>3 DEF IInv, Typed, Binding
  <2>5. Past' /\ UidsUnique'
    BY <1>1, <2>1, <2>2, <2>3 DEF IInv, Past, UidsUnique
  <2>6. GapReported'
    BY <1>1, <2>1, <2>2 DEF IInv, GapReported, UidsUnique
  <2>7. CacheHonest'
    <3> SUFFICES ASSUME NEW n \in Nodes, NEW k \in DOMAIN cache[n], cache[n][k].uid \notin unseen'
                 PROVE  /\ seen'[cache[n][k].pod] # None
                        /\ seen'[cache[n][k].pod].uid = cache[n][k].uid
                        /\ seen'[cache[n][k].pod].node = n
      BY <2>1 DEF IInv, CacheHonest
    <3>1. cache[n][k].pod \in Pods
      BY EntryType DEF IInv
    <3>2. /\ seen[cache[n][k].pod] # None
          /\ seen[cache[n][k].pod].uid = cache[n][k].uid
          /\ seen[cache[n][k].pod].node = n
      BY <2>1 DEF IInv, CacheHonest
    <3> QED
      BY <2>1, <2>2, <3>1, <3>2
  <2>8. CacheComplete'
    BY <1>1, <2>1, <2>2 DEF IInv, CacheComplete, IsEntryOf
  <2> QED
    BY <2>4, <2>5, <2>6, <2>7, <2>8 DEF IInv
<1> QED
  BY <1>2, <1>3

(* A process that starts has an empty cache and knows of no pod.           *)
LEMMA RestartStep ==
  ASSUME IInv, Restart
  PROVE  IInv'
<1>1. /\ seen' = [p \in Pods |-> None] /\ cache' = [n \in Nodes |-> << >>] /\ unseen' = {}
      /\ cleaned' = now /\ UNCHANGED <<now, bound, uids>>
  BY DEF Restart
<1>2. \A n \in Nodes : DOMAIN cache'[n] = {}
  BY <1>1
<1> QED
  BY <1>1, <1>2
  DEF IInv, Typed, Past, UidsUnique, GapReported, CacheHonest, CacheComplete, IsEntryOf

(* The cleanup keeps the order, and what it drops the metrics have.        *)
LEMMA CleanupStep ==
  ASSUME IInv, cleanupCache
  PROVE  IInv'
<1>1. /\ cache' = [n \in Nodes |-> Cleaned(cache[n])] /\ cleaned' = now
      /\ UNCHANGED <<now, bound, seen, unseen, uids>>
  BY DEF cleanupCache
<1>2. ASSUME NEW n \in Nodes
      PROVE  \E d \in Nat :
               /\ cache'[n] \in Seq(Entry)
               /\ \A k \in DOMAIN cache'[n] : k \in Nat /\ k + d \in DOMAIN cache[n] /\ cache'[n][k] = cache[n][k + d]
               /\ \A k \in DOMAIN cache[n] :
                    k \in Nat /\ (~Young(cache[n][k]) \/ (k > d /\ k - d \in DOMAIN cache'[n]))
  <2>1. cache[n] \in Seq(Entry) /\ cache'[n] = Cleaned(cache[n])
    BY <1>1 DEF IInv, Typed
  <2>2. PICK l \in Nat : l = Len(cache[n])
    BY <2>1
  <2>3. PICK d \in Nat : /\ d <= l
                         /\ cache'[n] \in Seq(Entry) /\ Len(cache'[n]) = l - d
                         /\ \A k \in 1 .. l - d : cache'[n][k] = cache[n][k + d]
                         /\ \A k \in 1 .. d : ~Young(cache[n][k])
    <3>1. PICK s \in Seq(Entry) : s = cache[n]
      BY <2>1
    <3>2. PICK d \in Nat : /\ d <= Len(s)
                           /\ Cleaned(s) \in Seq(Entry) /\ Len(Cleaned(s)) = Len(s) - d
                           /\ \A k \in 1 .. Len(s) - d : Cleaned(s)[k] = s[k + d]
                           /\ \A k \in 1 .. d : ~Young(s[k])
      BY CleanedSuffix
    <3>3. cache'[n] = Cleaned(s) /\ l = Len(s)
      BY <2>1, <2>2, <3>1
    <3>4. d <= l /\ cache'[n] \in Seq(Entry) /\ Len(cache'[n]) = l - d
      BY <3>2, <3>3
    <3>5. \A k \in 1 .. l - d : cache'[n][k] = cache[n][k + d]
      BY <3>1, <3>2, <3>3
    <3>6. \A k \in 1 .. d : ~Young(cache[n][k])
      BY <3>1, <3>2
    <3> QED
      BY <3>4, <3>5, <3>6
  <2>4. DOMAIN cache[n] = 1 .. l /\ DOMAIN cache'[n] = 1 .. l - d
    BY <2>1, <2>2, <2>3, LenProperties
  <2>5. \A k \in 1 .. l - d : k \in Nat /\ k + d \in 1 .. l
    BY <2>3
  <2>6. \A k \in 1 .. l : k \in Nat /\ (k \in 1 .. d \/ (k > d /\ k - d \in 1 .. l - d))
    BY <2>3
  <2>7. /\ cache'[n] \in Seq(Entry)
        /\ \A k \in DOMAIN cache'[n] : k \in Nat /\ k + d \in DOMAIN cache[n] /\ cache'[n][k] = cache[n][k + d]
    BY <2>3, <2>4, <2>5, Zenon
  <2>8. \A k \in DOMAIN cache[n] :
          k \in Nat /\ (~Young(cache[n][k]) \/ (k > d /\ k - d \in DOMAIN cache'[n]))
    BY <2>3, <2>4, <2>6, Zenon
  <2> QED
    BY <2>7, <2>8, Zenon
<1>3. Typed'
  BY <1>1, <1>2 DEF IInv, Typed
<1>4. Past'
  <2>1. ASSUME NEW n \in Nodes, NEW k \in DOMAIN cache'[n]
        PROVE  cache'[n][k].uid <= uids /\ cache'[n][k].at <= now
    <3>1. PICK i \in DOMAIN cache[n] : cache'[n][k] = cache[n][i]
      BY <1>2
    <3> QED
      BY <3>1 DEF IInv, Past
  <2> QED
    BY <1>1, <2>1 DEF IInv, Past
<1>5. UidsUnique' /\ GapReported'
  BY <1>1 DEF IInv, UidsUnique, GapReported
<1>6. CacheHonest'
  <2> SUFFICES ASSUME NEW n \in Nodes, NEW k \in DOMAIN cache'[n]
               PROVE  /\ \A j \in 1 .. (k - 1) :
                           cache'[n][j].at <= cache'[n][k].at /\ cache'[n][j].uid # cache'[n][k].uid
                      /\ \/ cache'[n][k].uid \in unseen
                         \/ /\ seen[cache'[n][k].pod] # None
                            /\ seen[cache'[n][k].pod].uid = cache'[n][k].uid
                            /\ seen[cache'[n][k].pod].node = n
    BY <1>1 DEF CacheHonest
  <2>1. PICK d \in Nat :
          \A i \in DOMAIN cache'[n] : i \in Nat /\ i + d \in DOMAIN cache[n] /\ cache'[n][i] = cache[n][i + d]
    BY <1>2
  <2>2. k \in Nat /\ k + d \in DOMAIN cache[n] /\ cache'[n][k] = cache[n][k + d]
    BY <2>1
  <2>3. /\ \A j \in 1 .. (k + d - 1) :
             cache[n][j].at <= cache[n][k + d].at /\ cache[n][j].uid # cache[n][k + d].uid
        /\ \/ cache[n][k + d].uid \in unseen
           \/ /\ seen[cache[n][k + d].pod] # None
              /\ seen[cache[n][k + d].pod].uid = cache[n][k + d].uid
              /\ seen[cache[n][k + d].pod].node = n
    BY <2>2 DEF IInv, CacheHonest
  <2>4. \A j \in 1 .. (k - 1) : j + d \in 1 .. (k + d - 1) /\ cache'[n][j] = cache[n][j + d]
    <3> TAKE j \in 1 .. (k - 1)
    <3>1. cache'[n] \in Seq(Entry)
      BY <1>2
    <3>2. j \in DOMAIN cache'[n]
      BY <2>2, <3>1
    <3> QED
      BY <2>1, <2>2, <3>2
  <2> QED
    BY <2>2, <2>3, <2>4
<1>7. CacheComplete'
  <2> SUFFICES ASSUME NEW q \in Pods, seen[q] # None, seen[q].uid \notin unseen,
                      ~(seen[q].at + Interval <= now)
               PROVE  \E k \in DOMAIN cache'[seen[q].node] :
                        /\ cache'[seen[q].node][k].pod = q
                        /\ cache'[seen[q].node][k].uid = seen[q].uid
                        /\ cache'[seen[q].node][k].at >= seen[q].at
    BY <1>1 DEF CacheComplete, IsEntryOf
  <2>1. PICK n \in Nodes : n = seen[q].node
    BY DEF IInv, Typed, Binding
  <2>2. seen[q].at \in Nat /\ cleaned \in Nat /\ cleaned <= now /\ now \in Nat /\ Interval \in Nat
    BY TrimaranAssumption DEF IInv, Typed, Binding
  <2>3. PICK k \in DOMAIN cache[n] : IsEntryOf(k, n, q)
    BY <2>1, <2>2 DEF IInv, CacheComplete
  <2>4. PICK d \in Nat :
          /\ \A i \in DOMAIN cache'[n] : cache'[n][i] = cache[n][i + d]
          /\ \A i \in DOMAIN cache[n] :
               i \in Nat /\ (~Young(cache[n][i]) \/ (i > d /\ i - d \in DOMAIN cache'[n]))
    BY <1>2
  <2>5. Young(cache[n][k])
    BY <2>2, <2>3, EntryType DEF IInv, IsEntryOf, Young
  <2>6. k \in Nat /\ k - d \in DOMAIN cache'[n] /\ (k - d) + d = k
    BY <2>4, <2>5
  <2>7. cache'[n][k - d] = cache[n][k]
    BY <2>4, <2>6
  <2> QED
    BY <2>1, <2>3, <2>6, <2>7 DEF IsEntryOf
<1> QED
  BY <1>3, <1>4, <1>5, <1>6, <1>7 DEF IInv

(* A pod is deleted: its entry, the only one with its uid, is taken out.   *)
LEMMA OnDeleteStep ==
  ASSUME IInv, NEW p \in Pods, OnDelete(p)
  PROVE  IInv'
<1>1. /\ seen[p] # None /\ seen[p] # bound[p] /\ seen' = [seen EXCEPT ![p] = None]
      /\ cache' = [cache EXCEPT ![seen[p].node] = Dropped(@, seen[p].uid)]
      /\ UNCHANGED <<now, bound, cleaned, unseen, uids>>
  BY DEF OnDelete
<1>2. PICK n \in Nodes : n = seen[p].node
  BY <1>1 DEF IInv, Typed, Binding
<1>3. PICK u : u = seen[p].uid
  OBVIOUS
<1>4. /\ seen' \in [Pods -> Binding \cup {None}] /\ seen'[p] = None
      /\ \A q \in Pods \ {p} : seen'[q] = seen[q]
  BY <1>1 DEF IInv, Typed
<1>5. cache[n] \in Seq(Entry) /\ \A m \in Nodes \ {n} : cache'[m] = cache[m]
  BY <1>1, <1>2 DEF IInv, Typed
<1>6. cache'[n] = Dropped(cache[n], u)
  BY <1>1, <1>2, <1>3 DEF IInv, Typed
<1>7. PICK f : KeepsOthers(cache'[n], cache[n], f, u)
  <2>1. \A i, j \in DOMAIN cache[n] : cache[n][i].uid = cache[n][j].uid => i = j
    <3> SUFFICES ASSUME NEW i \in DOMAIN cache[n], NEW j \in DOMAIN cache[n], i < j
                 PROVE  cache[n][i].uid # cache[n][j].uid
      BY <1>5
    <3>1. i \in 1 .. (j - 1)
      BY <1>5
    <3> QED
      BY <3>1 DEF IInv, CacheHonest
  <2> QED
    BY <1>5, <1>6, <2>1, DroppedKeeps
<1>8. /\ f \in [DOMAIN cache'[n] -> DOMAIN cache[n]] /\ cache'[n] \in Seq(Entry)
      /\ \A k \in DOMAIN cache'[n] : k \in Nat /\ f[k] \in Nat /\ cache'[n][k] = cache[n][f[k]]
      /\ \A k \in DOMAIN cache'[n] : \A j \in 1 .. (k - 1) :
           j \in DOMAIN cache'[n] /\ f[j] \in 1 .. (f[k] - 1)
      /\ \A k \in DOMAIN cache[n] : cache[n][k].uid # u => \E j \in DOMAIN cache'[n] : f[j] = k
      /\ \A k \in DOMAIN cache'[n] : cache[n][f[k]].uid # u
  BY <1>7 DEF KeepsOthers
<1>9. Typed'
  <2>1. cache' \in [Nodes -> Seq(Entry)]
    BY <1>1, <1>5, <1>8 DEF IInv, Typed
  <2> QED
    BY <1>1, <1>4, <2>1 DEF IInv, Typed
<1>10. Past'
  <2>1. \A m \in Nodes : \A k \in DOMAIN cache'[m] : cache'[m][k].uid <= uids /\ cache'[m][k].at <= now
    <3> TAKE m \in Nodes
    <3> TAKE k \in DOMAIN cache'[m]
    <3>1. \E j \in DOMAIN cache[m] : cache'[m][k] = cache[m][j]
      BY <1>5, <1>8
    <3> QED
      BY <3>1 DEF IInv, Past
  <2> QED
    BY <1>1, <1>4, <2>1 DEF IInv, Past
<1>11. UidsUnique' /\ GapReported'
  BY <1>1, <1>4 DEF IInv, UidsUnique, GapReported
<1>12. CacheHonest'
  <2> SUFFICES ASSUME NEW m \in Nodes, NEW k \in DOMAIN cache'[m]
               PROVE  /\ \A j \in 1 .. (k - 1) :
                           cache'[m][j].at <= cache'[m][k].at /\ cache'[m][j].uid # cache'[m][k].uid
                      /\ \/ cache'[m][k].uid \in unseen
                         \/ /\ seen'[cache'[m][k].pod] # None
                            /\ seen'[cache'[m][k].pod].uid = cache'[m][k].uid
                            /\ seen'[cache'[m][k].pod].node = m
    <3>1. unseen' = unseen
      BY <1>1
    <3> QED
      BY <3>1 DEF CacheHonest
  <2>1. CASE m # n
    <3>1. cache'[m] = cache[m] /\ k \in DOMAIN cache[m]
      BY <1>5, <2>1
    <3>2. cache[m][k].pod \in Pods
      BY <3>1, EntryType DEF IInv
    <3>3. /\ \A j \in 1 .. (k - 1) : cache[m][j].at <= cache[m][k].at /\ cache[m][j].uid # cache[m][k].uid
          /\ \/ cache[m][k].uid \in unseen
             \/ /\ seen[cache[m][k].pod] # None
                /\ seen[cache[m][k].pod].uid = cache[m][k].uid
                /\ seen[cache[m][k].pod].node = m
      BY <3>1 DEF IInv, CacheHonest
    <3> QED
      BY <1>2, <1>4, <2>1, <3>1, <3>2, <3>3
  <2>2. CASE m = n
    <3>1. f[k] \in DOMAIN cache[n] /\ cache'[n][k] = cache[n][f[k]] /\ cache[n][f[k]].uid # u
      BY <1>8, <2>2
    <3>2. cache[n][f[k]].pod \in Pods
      BY <3>1, EntryType DEF IInv
    <3>3. /\ \A j \in 1 .. (f[k] - 1) :
               cache[n][j].at <= cache[n][f[k]].at /\ cache[n][j].uid # cache[n][f[k]].uid
          /\ \/ cache[n][f[k]].uid \in unseen
             \/ /\ seen[cache[n][f[k]].pod] # None
                /\ seen[cache[n][f[k]].pod].uid = cache[n][f[k]].uid
                /\ seen[cache[n][f[k]].pod].node = n
      BY <3>1 DEF IInv, CacheHonest
    <3>4. \A j \in 1 .. (k - 1) : cache'[n][j] = cache[n][f[j]] /\ f[j] \in 1 .. (f[k] - 1)
      BY <1>8, <2>2
    <3>5. \A j \in 1 .. (k - 1) :
            cache'[n][j].at <= cache'[n][k].at /\ cache'[n][j].uid # cache'[n][k].uid
      BY <3>1, <3>3, <3>4, Zenon
    <3>6. seen[cache[n][f[k]].pod] # None /\ seen[cache[n][f[k]].pod].uid = cache[n][f[k]].uid
            => seen'[cache[n][f[k]].pod] = seen[cache[n][f[k]].pod]
      BY <1>3, <1>4, <3>1, <3>2
    <3> QED
      BY <2>2, <3>1, <3>3, <3>5, <3>6, Zenon
  <2> QED
    BY <2>1, <2>2
<1>13. CacheComplete'
  <2> SUFFICES ASSUME NEW q \in Pods, seen'[q] # None, seen'[q].uid \notin unseen,
                      ~(seen'[q].at + Interval <= cleaned)
               PROVE  \E k \in DOMAIN cache'[seen'[q].node] :
                        /\ cache'[seen'[q].node][k].pod = q
                        /\ cache'[seen'[q].node][k].uid = seen'[q].uid
                        /\ cache'[seen'[q].node][k].at >= seen'[q].at
    <3>1. unseen' = unseen /\ cleaned' = cleaned
      BY <1>1, Zenon
    <3> QED
      BY <3>1 DEF CacheComplete, IsEntryOf
  <2>1. q # p /\ seen'[q] = seen[q]
    BY <1>4
  <2>2. PICK m \in Nodes : m = seen[q].node
    BY <2>1 DEF IInv, Typed, Binding
  <2>3. PICK k \in DOMAIN cache[m] : IsEntryOf(k, m, q)
    BY <2>1, <2>2 DEF IInv, CacheComplete
  <2>4. cache[m][k].uid # u
    BY <1>1, <1>3, <2>1, <2>3 DEF IInv, UidsUnique, IsEntryOf
  <2>5. \E j \in DOMAIN cache'[m] : cache'[m][j] = cache[m][k]
    BY <1>5, <1>8, <2>3, <2>4
  <2> QED
    BY <2>1, <2>2, <2>3, <2>5 DEF IsEntryOf
<1> QED
  BY <1>9, <1>10, <1>11, <1>12, <1>13 DEF IInv

----------------------------------------------------------------------------
(* The theorems.                                                           *)

(* The invariant holds at the start and under every step of the handler,   *)
(* the ticker and the world.                                               *)
THEOREM Invariant == Spec => []IInv
<1>1. Init => IInv
  <2> SUFFICES ASSUME Init PROVE IInv
    OBVIOUS
  <2>1. \A n \in Nodes : DOMAIN cache[n] = {}
    BY DEF Init
  <2> QED
    BY <2>1
    DEF Init, IInv, Typed, Past, UidsUnique, GapReported, CacheHonest, CacheComplete
<1>2. IInv /\ [Next]_vars => IInv'
  <2> SUFFICES ASSUME IInv, [Next]_vars PROVE IInv'
    OBVIOUS
  <2>1. CASE UNCHANGED vars
    BY <2>1
    DEF vars, IInv, Typed, Past, UidsUnique, GapReported, CacheHonest, CacheComplete, IsEntryOf
  <2>2. CASE Next
    BY <2>2, WorldStep, OnAddStep, OnUpdateStep, OnUpdateAfterGapStep, OnDeleteStep, RestartStep, CleanupStep
    DEF Next
  <2> QED
    BY <2>1, <2>2
<1> QED
  BY <1>1, <1>2, PTL DEF Spec

(* The cache of every node is in the order that the binary search of       *)
(* cleanupCache needs, has no pod twice, and none that the informer does   *)
(* not have on that node, except for the pods of a gap in the watch.       *)
THEOREM CacheIsHonest == Spec => []CacheHonest
<1>1. IInv => CacheHonest
  BY DEF IInv
<1> QED
  BY <1>1, Invariant, PTL

(* Every pod the handler was told of is in the cache of its node, or was   *)
(* bound at least Interval before the last cleanup: only entries that the  *)
(* score would leave out of metrics from after the cleanup are dropped.    *)
THEOREM CacheIsComplete == Spec => []CacheComplete
<1>1. IInv => CacheComplete
  BY DEF IInv
<1> QED
  BY <1>1, Invariant, PTL

----------------------------------------------------------------------------
(* The score.                                                              *)

(* The metrics have every pod of a node that was bound early enough and is *)
(* still there: pods that are bound later are too young for them.          *)
MetricsCover ==
  metrics # None =>
    /\ metrics.end \in Nat /\ metrics.end <= now
    /\ \A n \in DOMAIN metrics.used :
         /\ n \in Nodes /\ metrics.used[n] \in Nat
         /\ Usage(n, {b \in Bound : b.at <= metrics.end - 2 * Interval}) <= metrics.used[n]

ScoreInv == now <= MaxTime /\ MetricsCover

(* What a pod is expected to use is a number.                              *)
LEMMA PredictedType == Predicted \in [Pods -> Nat]
<1> SUFFICES ASSUME NEW p \in Pods PROVE Predicted[p] \in Nat
  BY DEF Predicted
<1> DEFINE cs == Containers[p]
           usage == [k \in DOMAIN cs |-> PredictUtilisation(cs[k])]
<1>1. cs \in Seq([limit : Nat \cup {None}, request : Nat \cup {None}]) /\ Overhead[p] \in Nat
  BY TrimaranAssumption
<1> HIDE DEF cs
<1>2. PICK l \in Nat : DOMAIN cs = 1 .. l
  BY <1>1, LenProperties
<1>3. IsFiniteSet(DOMAIN cs)
  BY <1>2, FS_Interval
<1>4. \A k \in DOMAIN cs : PredictUtilisation(cs[k]) \in Nat
  <2> TAKE k \in DOMAIN cs
  <2>1. cs[k].limit \in Nat \cup {None} /\ cs[k].request \in Nat \cup {None}
    <3>1. cs[k] \in [limit : Nat \cup {None}, request : Nat \cup {None}]
      BY <1>1, LenProperties, ElementOfSeq
    <3> QED
      BY <3>1
  <2>2. Multiplier \in Nat /\ Default \in Nat
    BY TrimaranAssumption
  <2>3. \A r \in Nat : Round(r * Multiplier, 100) \in Nat
    BY <2>2 DEF Round
  <2> QED
    BY <2>1, <2>2, <2>3 DEF PredictUtilisation
<1>5. usage \in [DOMAIN cs -> Nat] /\ DOMAIN usage \in SUBSET DOMAIN cs
  BY <1>4
<1> HIDE DEF usage
<1>6. SumOver(usage, DOMAIN usage) \in Nat
  BY <1>3, <1>5, UnitsFinite
<1>7. Predicted[p] = SumOver(usage, DOMAIN usage) + Overhead[p]
  BY DEF Predicted, usage, cs
<1> QED
  BY <1>1, <1>6, <1>7

(* The rounded quotient of two numbers is at most 100 if the quotient is.  *)
LEMMA RoundBound ==
  ASSUME NEW a \in Nat, NEW b \in Nat \ {0}, a <= 100 * b
  PROVE  Round(a, b) \in 0 .. 100
<1>1. PICK x \in Nat : x = 2 * a + b
  OBVIOUS
<1>2. PICK y \in Nat \ {0} : y = 2 * b
  OBVIOUS
<1>3. x < 101 * y
  BY <1>1, <1>2
<1>4. x \div y \in 0 .. 100
  BY <1>3
<1> QED
  BY <1>1, <1>2, <1>4 DEF Round

(* Rounding keeps a fraction between 100 and a greater number there.       *)
LEMMA RoundBetween ==
  ASSUME NEW a \in Nat, NEW b \in Nat \ {0}, NEW h \in Nat, 100 * b <= a, a <= h * b
  PROVE  Round(a, b) \in 100 .. h
<1>1. PICK x \in Nat : x = 2 * a + b
  OBVIOUS
<1>2. PICK y \in Nat \ {0} : y = 2 * b
  OBVIOUS
<1>3. 100 * y <= x
  BY <1>1, <1>2
<1>4. x < (h + 1) * y
  <2>1. PICK z \in Nat : z = h * b
    OBVIOUS
  <2>2. (h + 1) * y = 2 * z + 2 * b
    <3>1. (h + 1) * y = h * y + y
      OBVIOUS
    <3>2. h * y = 2 * (h * b)
      BY <1>2
    <3> QED
      BY <1>2, <2>1, <3>1, <3>2
  <2> QED
    BY <1>1, <2>1, <2>2
<1>5. PICK q \in Nat : q = x \div y
  OBVIOUS
<1>6. y * q <= x /\ x < y * q + y
  BY <1>5
<1>7. q >= 100
  BY <1>3, <1>6
<1>8. q < h + 1
  <2>1. y * q < (h + 1) * y
    BY <1>4, <1>6
  <2> QED
    BY <2>1
<1> QED
  BY <1>1, <1>2, <1>5, <1>7, <1>8 DEF Round

(* The score of a usage is in the range of the target.                     *)
LEMMA TargetScoreBound ==
  ASSUME NEW target \in Nat \ {0}, NEW used \in Nat, NEW cap \in Nat \ {0}
  PROVE  TargetScore(target, used, cap) \in ScoreRange(target)
<1>1. PICK m \in Nat \ {0} : m = target * cap
  <2>1. target * cap \in Nat \ {0}
    OBVIOUS
  <2> QED
    BY <2>1
<1>2. PICK v \in Nat : v = 100 * used
  OBVIOUS
<1>3. PICK w \in Nat : w = 100 * cap
  OBVIOUS
<1>4. CASE v > m /\ used > cap
  BY <1>1, <1>2, <1>4 DEF TargetScore, ScoreRange
<1>5. CASE v > m /\ used <= cap
  <2>1. v <= w
    BY <1>2, <1>3, <1>5
  <2>2. target < 100
    <3>1. CASE target >= 100
      <4>1. m >= w
        BY <1>1, <1>3, <3>1
      <4> QED
        BY <1>5, <2>1, <4>1
    <3> QED
      BY <3>1
  <2>3. PICK e \in Nat : e = w - v
    BY <2>1
  <2>4. PICK c \in Nat \ {0} : c = w - m
    BY <1>5, <2>1
  <2>5. (100 - target) * cap = c
    <3>1. (100 - target) * cap = 100 * cap - target * cap
      OBVIOUS
    <3> QED
      BY <1>1, <1>3, <2>4, <3>1
  <2>6. e < c
    BY <1>5, <2>3, <2>4
  <2>7. target * e \in Nat /\ target * e <= 100 * e
    BY <2>2
  <2>8. target * e <= 100 * c
    BY <2>6, <2>7
  <2>9. Round(target * e, c) \in 0 .. 100
    BY <2>7, <2>8, RoundBound
  <2> QED
    BY <1>1, <1>2, <1>3, <1>5, <2>2, <2>3, <2>5, <2>9 DEF TargetScore, ScoreRange
<1>6. CASE v <= m
  <2>1. (100 - target) * 100 * used = (100 - target) * v
    BY <1>2
  <2>2. target * target * cap = target * m
    <3>1. target * target * cap = target * (target * cap)
      OBVIOUS
    <3> QED
      BY <1>1, <3>1
  <2>3. TargetScore(target, used, cap) = Round((100 - target) * v + target * m, m)
    BY <1>1, <1>2, <1>6, <2>1, <2>2 DEF TargetScore
  <2>4. CASE target <= 100
    <3>1. PICK d \in Nat : d = 100 - target
      BY <2>4
    <3>2. d * v <= d * m /\ d * v \in Nat /\ d * m \in Nat /\ target * m \in Nat
      BY <1>6
    <3>3. d * m + target * m = 100 * m
      <4>1. d * m = 100 * m - target * m
        BY <3>1
      <4> QED
        BY <4>1
    <3>4. d * v + target * m \in Nat /\ d * v + target * m <= 100 * m
      BY <3>2, <3>3
    <3>5. Round(d * v + target * m, m) \in 0 .. 100
      BY <3>4, RoundBound
    <3> QED
      BY <2>3, <2>4, <3>1, <3>5 DEF ScoreRange
  <2>5. CASE target > 100
    <3>1. PICK d \in Nat : d = target - 100
      BY <2>5
    <3>2. (100 - target) * v = 0 - d * v
      BY <3>1
    <3>3. d * v <= d * m /\ d * v \in Nat /\ d * m \in Nat /\ target * m \in Nat
      BY <1>6
    <3>4. d * m = target * m - 100 * m
      BY <3>1
    <3>5. PICK a \in Nat : a = (100 - target) * v + target * m /\ 100 * m <= a /\ a <= target * m
      <4>1. (100 - target) * v + target * m = target * m - d * v
        BY <3>2, <3>3
      <4>2. PICK x \in Nat, y \in Nat, z \in Nat : x = target * m /\ y = d * v /\ z = d * m
        BY <3>3
      <4>3. y <= z /\ z = x - 100 * m
        BY <3>3, <3>4, <4>2
      <4> QED
        BY <4>1, <4>2, <4>3
    <3>6. Round(a, m) \in 100 .. target
      BY <2>5, <3>5, RoundBetween
    <3> QED
      BY <2>3, <2>5, <3>5, <3>6 DEF ScoreRange
  <2> QED
    BY <2>4, <2>5
<1> QED
  BY <1>1, <1>2, <1>4, <1>5, <1>6

(* The cached pods of a node are expected to use a number of cores.        *)
LEMMA CachedUsageType ==
  ASSUME IInv, NEW n \in Nodes
  PROVE  /\ IsFiniteSet(DOMAIN cache[n])
         /\ [k \in DOMAIN cache[n] |-> Predicted[cache[n][k].pod]] \in [DOMAIN cache[n] -> Nat]
         /\ CachedUsage(n) \in Nat
<1>1. cache[n] \in Seq(Entry)
  BY DEF IInv, Typed
<1>2. PICK l \in Nat : DOMAIN cache[n] = 1 .. l
  BY <1>1, LenProperties
<1>3. IsFiniteSet(DOMAIN cache[n])
  BY <1>2, FS_Interval
<1>4. [k \in DOMAIN cache[n] |-> Predicted[cache[n][k].pod]] \in [DOMAIN cache[n] -> Nat]
  <2>1. \A k \in DOMAIN cache[n] : cache[n][k].pod \in Pods
    BY EntryType DEF IInv
  <2>2. \A k \in DOMAIN cache[n] : Predicted[cache[n][k].pod] \in Nat
    BY <2>1, PredictedType
  <2> QED
    BY <2>2
<1>5. CachedUsage(n) \in Nat
  BY <1>3, <1>4, UnitsFinite DEF CachedUsage
<1> QED
  BY <1>3, <1>4, <1>5

(* The score is in its range whatever the cache and the metrics are.       *)
LEMMA ScoreBound ==
  ASSUME IInv, ScoreInv, NEW target \in Targets, NEW p \in Pods, NEW n \in Nodes
  PROVE  Score(target, p, n) \in ScoreRange(target)
<1>1. Capacity[n] \in Nat /\ Predicted[p] \in Nat /\ CachedUsage(n) \in Nat
  BY TrimaranAssumption, PredictedType, CachedUsageType
<1>5. target \in Nat \ {0}
  BY TrimaranAssumption
<1>2. CASE metrics = None \/ n \notin DOMAIN metrics.used
  BY <1>2, <1>5 DEF Score, ScoreRange
<1>3. CASE metrics # None /\ n \in DOMAIN metrics.used /\ Capacity[n] = 0
  <2>1. TargetScore(target, 0, 1) \in ScoreRange(target)
    <3>1. 0 \in Nat /\ 1 \in Nat \ {0}
      OBVIOUS
    <3> QED
      BY <1>5, <3>1, TargetScoreBound, Zenon
  <2> QED
    BY <1>3, <2>1 DEF Score
<1>4. CASE metrics # None /\ n \in DOMAIN metrics.used /\ Capacity[n] # 0
  <2>1. metrics.used[n] \in Nat
    BY <1>4 DEF ScoreInv, MetricsCover
  <2>2. PICK u \in Nat : u = metrics.used[n] + Predicted[p] + CachedUsage(n)
    BY <1>1, <2>1
  <2>3. TargetScore(target, u, Capacity[n]) \in ScoreRange(target)
    BY <1>1, <1>4, <1>5, TargetScoreBound
  <2> QED
    BY <1>4, <2>2, <2>3 DEF Score
<1> QED
  BY <1>2, <1>3, <1>4

(* The pods of a node that were bound at time t or before.                 *)
OldOn(n, t) == {p \in Pods : bound[p] # None /\ bound[p].node = n /\ bound[p].at <= t}

LEMMA UsageOfOld ==
  ASSUME NEW n, NEW t
  PROVE  /\ OldOn(n, t) \in SUBSET Pods
         /\ Usage(n, {b \in Bound : b.at <= t}) = SumOver(Predicted, OldOn(n, t))
<1>1. {p \in Pods : bound[p] \in {b \in Bound : b.at <= t} /\ bound[p].node = n} = OldOn(n, t)
  BY DEF Bound, OldOn
<1> QED
  BY <1>1 DEF Usage, OldOn

(* The pods of a node that are old enough for the metrics only get fewer.  *)
LEMMA MeasuredKept ==
  ASSUME ScoreInv, UNCHANGED metrics, now \in Nat, now' \in Nat, now <= now',
         \A n \in Nodes : metrics # None =>
           OldOn(n, metrics.end - 2 * Interval)' \subseteq OldOn(n, metrics.end - 2 * Interval)
  PROVE  MetricsCover'
<1> SUFFICES ASSUME metrics # None
             PROVE  /\ metrics.end \in Nat /\ metrics.end <= now'
                    /\ \A n \in DOMAIN metrics.used :
                         /\ n \in Nodes /\ metrics.used[n] \in Nat
                         /\ Usage(n, {b \in Bound : b.at <= metrics.end - 2 * Interval})' <= metrics.used[n]
  BY DEF MetricsCover
<1>1. metrics.end \in Nat /\ metrics.end <= now'
  BY DEF ScoreInv, MetricsCover
<1>2. ASSUME NEW n \in DOMAIN metrics.used
      PROVE  Usage(n, {b \in Bound : b.at <= metrics.end - 2 * Interval})' <= metrics.used[n]
  <2>1. PICK t : t = metrics.end - 2 * Interval
    OBVIOUS
  <2>2. n \in Nodes /\ metrics.used[n] \in Nat /\ SumOver(Predicted, OldOn(n, t)) <= metrics.used[n]
    BY <1>2, <2>1, UsageOfOld DEF ScoreInv, MetricsCover
  <2>3. OldOn(n, t)' \subseteq OldOn(n, t)
    BY <2>1, <2>2
  <2>4. PICK A \in SUBSET Pods : A = OldOn(n, t)
    BY UsageOfOld
  <2>5. PICK B \in SUBSET A : B = OldOn(n, t)'
    BY <2>3, <2>4
  <2>6. SumOver(Predicted, B) <= SumOver(Predicted, A)
    BY PredictedType, SumOverMonotone, TrimaranAssumption
  <2>7. SumOver(Predicted, A) \in Nat /\ SumOver(Predicted, B) \in Nat
    BY PredictedType, UnitsFinite, TrimaranAssumption
  <2>8. Usage(n, {b \in Bound : b.at <= t})' = SumOver(Predicted, B)
    <3>1. {p \in Pods : bound'[p] \in {b \in Bound' : b.at <= t} /\ bound'[p].node = n} = B
      BY <2>5 DEF Bound, OldOn
    <3> QED
      BY <3>1 DEF Usage
  <2>9. Usage(n, {b \in Bound : b.at <= metrics.end - 2 * Interval})' = SumOver(Predicted, B)
    BY <2>1, <2>8
  <2> QED
    BY <2>2, <2>4, <2>6, <2>7, <2>9
<1>3. \A n \in DOMAIN metrics.used : n \in Nodes /\ metrics.used[n] \in Nat
  BY DEF ScoreInv, MetricsCover
<1> QED
  BY <1>1, <1>2, <1>3

(* Every step keeps what the metrics cover.                                *)
LEMMA ScoreStep ==
  ASSUME IInv, ScoreInv, [Next]_vars
  PROVE  ScoreInv'
<1>1. now \in Nat /\ MaxTime \in Nat /\ now <= MaxTime /\ Interval \in Nat \ {0}
  BY TrimaranAssumption DEF IInv, Typed, ScoreInv
<1>2. CASE Tick
  <2>1. now' = now + 1 /\ now < MaxTime /\ bound' = bound /\ metrics' = metrics
    BY <1>2 DEF Tick
  <2>2. \A n, t : OldOn(n, t)' = OldOn(n, t)
    BY <2>1 DEF OldOn
  <2>3. MetricsCover'
    BY <1>1, <2>1, <2>2, MeasuredKept
  <2> QED
    BY <1>1, <2>1, <2>3 DEF ScoreInv
<1>3. ASSUME NEW p \in Pods, NEW n \in Nodes, Bind(p, n)
      PROVE  ScoreInv'
  <2>1. /\ now' = now /\ metrics' = metrics /\ bound[p] = None
        /\ bound' = [bound EXCEPT ![p] = [node |-> n, at |-> now, uid |-> uids + 1]]
    BY <1>3 DEF Bind
  <2>2. /\ bound'[p].at = now
        /\ \A q \in Pods \ {p} : bound'[q] = bound[q]
    BY <2>1 DEF IInv, Typed
  <2>3. \A m \in Nodes : metrics # None =>
          OldOn(m, metrics.end - 2 * Interval)' \subseteq OldOn(m, metrics.end - 2 * Interval)
    <3> SUFFICES ASSUME metrics # None, NEW m \in Nodes, NEW q \in OldOn(m, metrics.end - 2 * Interval)'
                 PROVE  q \in OldOn(m, metrics.end - 2 * Interval)
      OBVIOUS
    <3>1. metrics.end \in Nat /\ metrics.end <= now
      BY DEF ScoreInv, MetricsCover
    <3>2. q \in Pods /\ bound'[q] # None /\ bound'[q].node = m /\ bound'[q].at <= metrics.end - 2 * Interval
      BY <2>1 DEF OldOn
    <3>3. q # p
      BY <1>1, <2>2, <3>1, <3>2
    <3> QED
      BY <2>2, <3>2, <3>3 DEF OldOn
  <2>4. MetricsCover'
    BY <1>1, <2>1, <2>3, MeasuredKept
  <2> QED
    BY <1>1, <2>1, <2>4 DEF ScoreInv
<1>4. ASSUME NEW p \in Pods, Delete(p)
      PROVE  ScoreInv'
  <2>1. now' = now /\ metrics' = metrics /\ bound' = [bound EXCEPT ![p] = None]
    BY <1>4 DEF Delete
  <2>2. \A m, t : OldOn(m, t)' \subseteq OldOn(m, t)
    BY <2>1 DEF IInv, Typed, OldOn
  <2>3. MetricsCover'
    BY <1>1, <2>1, <2>2, MeasuredKept
  <2> QED
    BY <1>1, <2>1, <2>3 DEF ScoreInv
<1>5. CASE /\ now' = now /\ metrics' = metrics /\ bound' = bound
  <2>1. \A m, t : OldOn(m, t)' = OldOn(m, t)
    BY <1>5 DEF OldOn
  <2>2. MetricsCover'
    BY <1>1, <1>5, <2>1, MeasuredKept
  <2> QED
    BY <1>1, <1>5, <2>2 DEF ScoreInv
<1>6. CASE Restart
  BY <1>1, <1>6 DEF Restart, ScoreInv, MetricsCover
<1>7. CASE updateMetrics
  <2>1. PICK end \in (IF metrics = None THEN 0 ELSE metrics.end) .. now,
             nodes \in {Nodes, {}}, young \in SUBSET Bound :
          /\ metrics' = [end |-> end, used |-> [n \in nodes |->
                          Usage(n, {b \in Bound : b.at <= end - 2 * Interval} \cup young)]]
          /\ now' = now /\ bound' = bound
    BY <1>7 DEF updateMetrics
  <2>2. end \in Nat /\ end <= now
    BY <1>1, <2>1 DEF ScoreInv, MetricsCover
  <2>3. metrics'.end = end /\ DOMAIN metrics'.used = nodes
    BY <2>1
  <2>4. ASSUME NEW n \in nodes
        PROVE  /\ n \in Nodes /\ metrics'.used[n] \in Nat
               /\ Usage(n, {b \in Bound : b.at <= end - 2 * Interval})' <= metrics'.used[n]
    <3>1. n \in Nodes
      BY <2>1, <2>4
    <3> DEFINE all == {b \in Bound : b.at <= end - 2 * Interval} \cup young
               A == {p \in Pods : bound[p] \in all /\ bound[p].node = n}
    <3>2. metrics'.used[n] = SumOver(Predicted, A)
      BY <2>1, <2>4 DEF Usage
    <3>3. A \in SUBSET Pods /\ OldOn(n, end - 2 * Interval) \in SUBSET A
      BY DEF OldOn, Bound
    <3> HIDE DEF A
    <3>4. SumOver(Predicted, A) \in Nat
      BY <3>3, PredictedType, UnitsFinite, TrimaranAssumption
    <3>5. SumOver(Predicted, OldOn(n, end - 2 * Interval)) <= SumOver(Predicted, A)
      BY <3>3, PredictedType, SumOverMonotone, TrimaranAssumption
    <3>6. Usage(n, {b \in Bound : b.at <= end - 2 * Interval})' = SumOver(Predicted, OldOn(n, end - 2 * Interval))
      <4>1. Usage(n, {b \in Bound : b.at <= end - 2 * Interval})' = Usage(n, {b \in Bound : b.at <= end - 2 * Interval})
        BY <2>1 DEF Usage, Bound
      <4> QED
        BY <4>1, UsageOfOld
    <3> QED
      BY <3>1, <3>2, <3>4, <3>5, <3>6
  <2>5. MetricsCover'
    BY <2>1, <2>2, <2>3, <2>4 DEF MetricsCover
  <2> QED
    BY <1>1, <2>1, <2>5 DEF ScoreInv
<1>8. ASSUME NEW p \in Pods, OnAdd(p) \/ OnUpdate(p) \/ OnUpdateAfterGap(p) \/ OnDelete(p)
      PROVE  ScoreInv'
  BY <1>5, <1>8 DEF OnAdd, OnUpdate, OnUpdateAfterGap, OnDelete
<1>9. CASE cleanupCache
  BY <1>5, <1>9 DEF cleanupCache
<1>10. CASE UNCHANGED vars
  BY <1>5, <1>10 DEF vars
<1> QED
  BY <1>2, <1>3, <1>4, <1>6, <1>7, <1>8, <1>9, <1>10 DEF Next

(* A covered pod that the metrics may not have has an entry in the cache,  *)
(* and the score adds it.                                                  *)
LEMMA MissingCached ==
  ASSUME IInv, ScoreInv, metrics # None, NEW q \in Pods, Covered(q),
         ~(seen[q].at <= metrics.end - 2 * Interval)
  PROVE  \E k \in DOMAIN cache[seen[q].node] :
           cache[seen[q].node][k].pod = q /\ Missing(cache[seen[q].node][k])
<1>1. seen[q].at \in Nat /\ metrics.end \in Nat /\ cleaned \in Nat /\ Interval \in Nat
  BY TrimaranAssumption DEF IInv, Typed, Binding, ScoreInv, MetricsCover, Covered
<1>2. seen[q].at + Interval > metrics.end /\ seen[q].at + Interval > cleaned
  BY <1>1 DEF Covered
<1>7. ~(seen[q].at + Interval <= cleaned) /\ seen[q] # None /\ seen[q].uid \notin unseen
  BY <1>1, <1>2 DEF Covered
<1>3. PICK n \in Nodes : n = seen[q].node
  BY <1>7 DEF IInv, Typed, Binding
<1>4. PICK k \in DOMAIN cache[n] : IsEntryOf(k, n, q)
  BY <1>7, <1>3 DEF IInv, CacheComplete
<1>5. cache[n][k].at \in Nat /\ cache[n][k].at >= seen[q].at /\ cache[n][k].pod = q
  BY <1>4, EntryType DEF IInv, IsEntryOf
<1>6. Missing(cache[n][k])
  BY <1>1, <1>2, <1>5 DEF Missing
<1> QED
  BY <1>3, <1>5, <1>6

(* Between them the metrics and the cache miss no covered pod.             *)
LEMMA ExpectedCovered ==
  ASSUME IInv, ScoreInv, metrics # None,
         NEW p \in Pods, NEW n \in Nodes, n \in DOMAIN metrics.used
  PROVE  /\ Expected(p, n) \in Nat
         /\ Expected(p, n) <= metrics.used[n] + Predicted[p] + CachedUsage(n)
<1> DEFINE known == {q \in Pods \ {p} : Covered(q)}
           K == {q \in Pods : bound[q] \in {bound[r] : r \in known} /\ bound[q].node = n}
           t == metrics.end - 2 * Interval
           O == OldOn(n, t)
           S == K \cap O
           T == K \ O
           M == {k \in DOMAIN cache[n] : Missing(cache[n][k])}
           g == [k \in DOMAIN cache[n] |-> Predicted[cache[n][k].pod]]
           h == [q \in T |-> CHOOSE k \in M : cache[n][k].pod = q]
<1>1. Expected(p, n) = Predicted[p] + SumOver(Predicted, K)
  BY DEF Expected, Usage
<1>2. \A q \in K : q \in Pods /\ Covered(q) /\ bound[q] # None /\ seen[q] = bound[q] /\ seen[q].node = n
  <2> SUFFICES ASSUME NEW q \in K
               PROVE  q \in known
    BY DEF Covered
  <2>1. PICK r \in known : bound[q] = bound[r]
    OBVIOUS
  <2>2. q = r
    BY <2>1 DEF IInv, UidsUnique, Covered
  <2> QED
    BY <2>1, <2>2
<1>3. /\ IsFiniteSet(Pods) /\ Predicted \in [Pods -> Nat] /\ Predicted[p] \in Nat
      /\ K \in SUBSET Pods /\ S \in SUBSET Pods /\ T \in SUBSET Pods /\ K = S \cup T
  BY TrimaranAssumption, PredictedType
<1>4. O \in SUBSET Pods /\ S \in SUBSET O
  BY UsageOfOld
<1>5. metrics.used[n] \in Nat /\ SumOver(Predicted, O) <= metrics.used[n]
  BY UsageOfOld DEF ScoreInv, MetricsCover
<1>6. SumOver(Predicted, T) <= CachedUsage(n)
  <2>1. \A q \in T : \E k \in M : cache[n][k].pod = q
    <3> SUFFICES ASSUME NEW q \in T PROVE \E k \in M : cache[n][k].pod = q
      OBVIOUS
    <3>1. q \in Pods /\ Covered(q) /\ bound[q] # None /\ seen[q] = bound[q] /\ seen[q].node = n
      BY <1>2
    <3>2. ~(seen[q].at <= metrics.end - 2 * Interval)
      BY <3>1 DEF OldOn
    <3>3. \E k \in DOMAIN cache[n] : cache[n][k].pod = q /\ Missing(cache[n][k])
      BY <3>1, <3>2, MissingCached
    <3> QED
      BY <3>3
  <2>2. \A q \in T : h[q] \in M /\ cache[n][h[q]].pod = q
    BY <2>1
  <2>3. IsFiniteSet(DOMAIN cache[n]) /\ g \in [DOMAIN cache[n] -> Nat] /\ M \in SUBSET DOMAIN cache[n]
    BY CachedUsageType
  <2>4. \A k \in M : g[k] = Predicted[cache[n][k].pod]
    OBVIOUS
  <2>5. h \in [T -> M] /\ \A x, y \in T : h[x] = h[y] => x = y
    BY <2>2
  <2>6. CachedUsage(n) = SumOver(g, M)
    BY DEF CachedUsage
  <2> HIDE DEF g, h, M, T
  <2>7. \A q \in T : Predicted[q] \in Nat /\ g[h[q]] = Predicted[q]
    BY <1>3, <2>2, <2>4
  <2>8. \A q \in T : Predicted[q] <= g[h[q]]
    BY <2>7
  <2> QED
    BY <1>3, <2>3, <2>5, <2>6, <2>8, SumOverInject
<1> HIDE DEF K, O, S, T
<1>7. /\ SumOver(Predicted, K) <= SumOver(Predicted, S) + SumOver(Predicted, T)
      /\ SumOver(Predicted, S) <= SumOver(Predicted, O)
  BY <1>3, <1>4, SumOverUnion, SumOverMonotone
<1>8. /\ SumOver(Predicted, K) \in Nat /\ SumOver(Predicted, S) \in Nat
      /\ SumOver(Predicted, T) \in Nat /\ SumOver(Predicted, O) \in Nat
  BY <1>3, <1>4, UnitsFinite
<1>9. CachedUsage(n) \in Nat
  BY CachedUsageType
<1> QED
  BY <1>1, <1>3, <1>5, <1>6, <1>7, <1>8, <1>9

(* A pod that would overload a node with metrics gives it the score 0.     *)
LEMMA OverloadScoresZero ==
  ASSUME IInv, ScoreInv
  PROVE  NeverOverloads
<1> SUFFICES ASSUME NEW target \in Targets, NEW p \in Pods, NEW n \in Nodes, metrics # None,
                    target <= 100, Expected(p, n) > Capacity[n], Capacity[n] > 0
             PROVE  Score(target, p, n) = 0
  BY DEF NeverOverloads
<1>1. CASE n \notin DOMAIN metrics.used
  BY <1>1 DEF Score
<1>2. CASE n \in DOMAIN metrics.used
  <2>1. /\ Expected(p, n) \in Nat
        /\ Expected(p, n) <= metrics.used[n] + Predicted[p] + CachedUsage(n)
    BY <1>2, ExpectedCovered
  <2>2. metrics.used[n] \in Nat /\ Predicted[p] \in Nat /\ CachedUsage(n) \in Nat
    BY <1>2, PredictedType, CachedUsageType DEF ScoreInv, MetricsCover
  <2>3. PICK u \in Nat : u = metrics.used[n] + Predicted[p] + CachedUsage(n)
    BY <2>2
  <2>4. PICK c \in Nat \ {0} : c = Capacity[n]
    BY TrimaranAssumption
  <2>5. u > c
    BY <2>1, <2>3, <2>4
  <2>6. 100 * u > target * c
    <3>1. target \in 1 .. 100
      BY TrimaranAssumption
    <3>2. target * c <= 100 * c /\ target * c \in Nat
      BY <3>1
    <3> QED
      BY <2>5, <3>2
  <2>7. TargetScore(target, u, c) = 0
    BY <2>5, <2>6 DEF TargetScore
  <2>8. Score(target, p, n) = TargetScore(target, u, c)
    BY <1>2, <2>3, <2>4 DEF Score
  <2> QED
    BY <2>7, <2>8
<1> QED
  BY <1>1, <1>2

(* What the score rests on holds from the start and under every step.  It  *)
(* is a step of the two proofs below.                                      *)
THEOREM ScoreInvariant == Spec => [](IInv /\ ScoreInv)
<1>1. Init => ScoreInv
  BY TrimaranAssumption DEF Init, ScoreInv, MetricsCover
<1>2. IInv /\ ScoreInv /\ [Next]_vars => ScoreInv'
  BY ScoreStep
<1> QED
  BY <1>1, <1>2, Invariant, PTL DEF Spec

(* The types; for every target that getArgs accepts, Score of              *)
(* TargetLoadPacking stays in the range of the target whatever the cache   *)
(* and the metrics are, and that is the range of a node score exactly when *)
(* the target is at most 100: a score outside of it fails the cycle.       *)
THEOREM TypeCorrect == Spec => []TypeOK
<1>1. IInv /\ ScoreInv => TypeOK
  <2> SUFFICES ASSUME IInv, ScoreInv PROVE TypeOK
    OBVIOUS
  <2>1. now \in 0 .. MaxTime /\ cleaned \in 0 .. now
    BY TrimaranAssumption DEF IInv, Typed, ScoreInv
  <2>2. \A n \in Nodes : \A k \in DOMAIN cache[n] : cache[n][k].pod \in Pods
    BY EntryType DEF IInv
  <2>3. \A target \in Targets, p \in Pods, n \in Nodes : Score(target, p, n) \in ScoreRange(target)
    BY ScoreBound
  <2> QED
    BY <2>1, <2>2, <2>3 DEF TypeOK
<1> QED
  BY <1>1, ScoreInvariant, PTL

(* A node that the pod would overload together with the covered pods, the  *)
(* ones that the metrics must have or that neither Score nor a cleanup may *)
(* leave out of the cache, scores 0 for every target of at most 100.       *)
THEOREM NoOverloadedNodeScores == Spec => []NeverOverloads
<1>1. IInv /\ ScoreInv => NeverOverloads
  BY OverloadScoresZero
<1> QED
  BY <1>1, ScoreInvariant, PTL
=============================================================================
