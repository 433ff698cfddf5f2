-------------------------- MODULE DecisionsProofs --------------------------
(***************************************************************************)
(* Proofs about the decisions of the plugins, for all inputs of the types  *)
(* that module Decisions assumes.  First come facts about loops, which are *)
(* recursive functions here, and about finite sums; then the queue, the    *)
(* scores, the fit of a GPU, the arguments, the victims of both preemption *)
(* plugins, the risk score and the alignment on NUMA nodes.                *)
(***************************************************************************)
EXTENDS Decisions, SumProofs, SequenceTheorems, WellFoundedInduction, TLAPS

(* A step that does not return from an entry point leaves no call of it.   *)
OnlyBy(op, action) == call' = call \/ call'.op # op \/ action

LEMMA Returns ==
  ASSUME [Next]_call
  PROVE  /\ OnlyBy("quota", PreemptByQuota) /\ OnlyBy("toleration", PreemptTolerant)
         /\ OnlyBy("gpu", FitGPU)
         /\ OnlyBy("podstate", ScorePodState) /\ OnlyBy("allocatable", ScoreAllocatable)
         /\ OnlyBy("risk", ScoreRisk) /\ OnlyBy("topology", MatchTopology)
         /\ OnlyBy("queue", OrderPods) /\ OnlyBy("args", DecodeArgs)
<1>1. CASE UNCHANGED call
  BY <1>1 DEF OnlyBy
<1>2. CASE Next
  BY <1>2
  DEF OnlyBy, Next, Called, NoCall, PreemptByQuota, PreemptTolerant, FitGPU, ScorePodState,
      ScoreAllocatable, ScoreRisk, MatchTopology, OrderPods, DecodeArgs, Return
<1> QED
  BY <1>1, <1>2

----------------------------------------------------------------------------
(* Loops.                                                                  *)

(* A set of natural numbers that is not empty has a least element.         *)
LEMMA LeastElement ==
  ASSUME NEW I \in SUBSET Nat, I # {}
  PROVE  \E i \in I : \A j \in I : i <= j
<1>1. PICK i \in I : \A j \in I : ~(<<j, i>> \in OpToRel(<, Nat))
  BY NatLessThanWellFounded, WFMin
<1>2. \A j \in I : i <= j
  <2> SUFFICES ASSUME NEW j \in I, j < i PROVE FALSE
    OBVIOUS
  <2>1. <<j, i>> \in Nat \X Nat /\ <<j, i>>[1] = j /\ <<j, i>>[2] = i
    OBVIOUS
  <2>2. <<j, i>> \in OpToRel(<, Nat)
    BY <2>1 DEF OpToRel
  <2> QED
    BY <1>1, <2>2
<1> QED
  BY <1>2

(* What holds before a loop and is kept by each of its iterations holds    *)
(* after all of them.                                                      *)
LEMMA LoopInvariant ==
  ASSUME NEW n \in Nat, NEW P \in [0 .. n -> BOOLEAN], P[0],
         \A k \in 1 .. n : P[k - 1] => P[k]
  PROVE  \A k \in 0 .. n : P[k]
<1> DEFINE I == {k \in 0 .. n : ~P[k]}
<1> SUFFICES ASSUME I # {} PROVE FALSE
  OBVIOUS
<1>1. I \in SUBSET Nat
  OBVIOUS
<1>2. PICK i \in I : \A j \in I : i <= j
  BY <1>1, LeastElement
<1>3. i \in 1 .. n /\ i - 1 \in 0 .. n /\ i - 1 \notin I
  BY <1>2
<1> QED
  BY <1>2, <1>3

(* A loop keeps what each of its iterations keeps: Inv[k] is the set of    *)
(* the values that there may be after k of them.                           *)
LEMMA LoopKeeps ==
  ASSUME NEW n \in Nat, NEW Inv, NEW acc, acc[0] \in Inv[0],
         \A k \in 1 .. n : acc[k - 1] \in Inv[k - 1] => acc[k] \in Inv[k]
  PROVE  \A k \in 0 .. n : acc[k] \in Inv[k]
<1> DEFINE P == [k \in 0 .. n |-> acc[k] \in Inv[k]]
<1>1. P \in [0 .. n -> BOOLEAN]
  OBVIOUS
<1>2. P[0]
  <2>1. 0 \in 0 .. n
    OBVIOUS
  <2> QED
    BY <2>1
<1>3. ASSUME NEW k \in 1 .. n, P[k - 1] PROVE P[k]
  <2>1. k - 1 \in 0 .. n /\ k \in 0 .. n
    OBVIOUS
  <2>2. acc[k - 1] \in Inv[k - 1]
    BY <1>3, <2>1
  <2> QED
    BY <2>1, <2>2
<1> HIDE DEF P
<1>4. \A k \in 0 .. n : P[k]
  BY <1>1, <1>2, <1>3, LoopInvariant
<1> QED
  BY <1>4 DEF P

(* f lists what the loop that starts with a has after each iteration.      *)
IsLoop(n, S, a, step, f) ==
  f \in [0 .. n -> S] /\ f[0] = a /\ \A k \in 1 .. n : f[k] = step[k][f[k - 1]]

(* A loop of n iterations has a result after each of them: the recursive   *)
(* function that a model of it defines exists.                             *)
LEMMA LoopExists ==
  ASSUME NEW n \in Nat, NEW S, NEW a \in S, NEW step \in [1 .. n -> [S -> S]]
  PROVE  \E f : IsLoop(n, S, a, step, f)
<1> DEFINE Upto(m, f) == f[0] = a /\ \A k \in 1 .. m : f[k] = step[k][f[k - 1]]
           P == [m \in 0 .. n |-> \E f \in [0 .. m -> S] : Upto(m, f)]
<1>1. P \in [0 .. n -> BOOLEAN]
  OBVIOUS
<1>2. P[0]
  <2> DEFINE f == [k \in 0 .. 0 |-> a]
  <2>1. f \in [0 .. 0 -> S] /\ Upto(0, f)
    OBVIOUS
  <2> HIDE DEF f
  <2> QED
    BY <2>1
<1>3. ASSUME NEW m \in 1 .. n, P[m - 1]
      PROVE  P[m]
  <2>1. PICK g \in [0 .. m - 1 -> S] : Upto(m - 1, g)
    BY <1>3
  <2> DEFINE f == [k \in 0 .. m |-> IF k = m THEN step[m][g[m - 1]] ELSE g[k]]
  <2>2. m \in Nat /\ m - 1 \in 0 .. m - 1 /\ step[m] \in [S -> S]
    OBVIOUS
  <2>3. f \in [0 .. m -> S]
    BY <2>2
  <2>4. f[0] = a
    BY <2>1
  <2>5. ASSUME NEW k \in 1 .. m PROVE f[k] = step[k][f[k - 1]]
    <3>1. CASE k = m
      BY <3>1
    <3>2. CASE k # m
      <4>1. k \in 1 .. m - 1 /\ k - 1 # m /\ k - 1 \in 0 .. m
        BY <3>2
      <4> QED
        BY <2>1, <3>2, <4>1
    <3> QED
      BY <3>1, <3>2
  <2>6. Upto(m, f)
    BY <2>4, <2>5
  <2> HIDE DEF f
  <2> QED
    BY <2>3, <2>6
<1>4. P[n]
  <2> HIDE DEF P
  <2>1. \A k \in 0 .. n : P[k]
    BY <1>1, <1>2, <1>3, LoopInvariant
  <2> QED
    BY <2>1
<1>5. PICK f \in [0 .. n -> S] : Upto(n, f)
  BY <1>4
<1>6. IsLoop(n, S, a, step, f)
  BY <1>5 DEF IsLoop
<1> QED
  BY <1>6

----------------------------------------------------------------------------
(* The queue.                                                              *)

(* The order of the classes is total and transitive, and only equal ones   *)
(* come before each other.                                                 *)
LEMMA QosOrder ==
  ASSUME NEW x \in {"Guaranteed", "Burstable", "BestEffort"},
         NEW y \in {"Guaranteed", "Burstable", "BestEffort"},
         NEW z \in {"Guaranteed", "Burstable", "BestEffort"}
  PROVE  /\ compQOS(x, y) \in BOOLEAN
         /\ compQOS(x, y) \/ compQOS(y, x)
         /\ compQOS(x, y) /\ compQOS(y, z) => compQOS(x, z)
         /\ compQOS(x, y) /\ compQOS(y, x) => x = y
  BY DEF compQOS

(* What the two Less functions say of any three pods.                      *)
LEMMA LessOrders ==
  ASSUME NEW in \in QueueInputs, NEW j \in DOMAIN in.pods, NEW k \in DOMAIN in.pods,
         NEW l \in DOMAIN in.pods
  PROVE  LET ps == in.pods
             Q(a, b) == QosLess(ps[a], ps[b])
             G(a, b) == CoschedulingLess(in.created, ps[a], ps[b])
         IN  /\ Q(j, k) \/ Q(k, j)
             /\ Q(j, k) /\ Q(k, l) => Q(j, l)
             /\ Q(j, k) /\ Q(k, j) => ps[j].prio = ps[k].prio /\ ps[j].qos = ps[k].qos
             /\ G(j, k) /\ G(k, l) => G(j, l)
             /\ j # k => (G(j, k) <=> ~G(k, j))
             /\ G(j, k) /\ G(k, l) /\ SameGang(in, j, l) =>
                  GetCreationTimestamp(in.created, ps[k]) = in.created[ps[j].group]
<1> DEFINE ps == in.pods
           Q(a, b) == QosLess(ps[a], ps[b])
           G(a, b) == CoschedulingLess(in.created, ps[a], ps[b])
           T(a) == GetCreationTimestamp(in.created, ps[a])
<1>1. /\ ps[j].prio \in Int /\ ps[k].prio \in Int /\ ps[l].prio \in Int
      /\ ps[j].name \in Int /\ ps[k].name \in Int /\ ps[l].name \in Int
      /\ T(j) \in Int /\ T(k) \in Int /\ T(l) \in Int
      /\ j # k => ps[j].name # ps[k].name
  BY QueueAssumption DEF GetCreationTimestamp
<1>2. /\ ps[j].qos \in {"Guaranteed", "Burstable", "BestEffort"}
      /\ ps[k].qos \in {"Guaranteed", "Burstable", "BestEffort"}
      /\ ps[l].qos \in {"Guaranteed", "Burstable", "BestEffort"}
  BY QueueAssumption
<1>3. /\ Q(j, k) \/ Q(k, j)
      /\ Q(j, k) /\ Q(k, l) => Q(j, l)
      /\ Q(j, k) /\ Q(k, j) => ps[j].prio = ps[k].prio /\ ps[j].qos = ps[k].qos
  BY <1>1, <1>2, QosOrder DEF QosLess
<1>4. \A a, b \in {j, k, l} :
        G(a, b) <=> \/ ps[a].prio > ps[b].prio
                    \/ ps[a].prio = ps[b].prio /\ T(a) < T(b)
                    \/ ps[a].prio = ps[b].prio /\ T(a) = T(b) /\ ps[a].name < ps[b].name
  BY <1>1 DEF CoschedulingLess
<1>5. /\ G(j, k) /\ G(k, l) => G(j, l)
      /\ j # k => (G(j, k) <=> ~G(k, j))
  <2> HIDE DEF G, T
  <2> QED
    BY <1>1, <1>4
<1>6. G(j, k) /\ G(k, l) /\ SameGang(in, j, l) =>
        GetCreationTimestamp(in.created, ps[k]) = in.created[ps[j].group]
  <2> SUFFICES ASSUME G(j, k), G(k, l), SameGang(in, j, l)
               PROVE  GetCreationTimestamp(in.created, ps[k]) = in.created[ps[j].group]
    OBVIOUS
  <2>1. ps[j].prio = ps[l].prio /\ T(j) = T(l)
    BY DEF SameGang, GetCreationTimestamp
  <2>2. ps[k].prio = ps[j].prio /\ T(k) = T(j)
    <3> HIDE DEF G, T
    <3> QED
      BY <1>1, <1>4, <2>1
  <2> QED
    BY <2>2 DEF SameGang, GetCreationTimestamp
<1> QED
  BY <1>3, <1>5, <1>6

(* Both orders of the scheduling queue are sound for any number of pods:   *)
(* transitive, total, and the one of the gangs strict and without a pod    *)
(* between two of a gang, unless the times are the same.                   *)
THEOREM QueueIsOrdered == Spec => []QueueOrdered
<1>1. Init => QueueOrdered
  BY DEF Init, NoCall, QueueOrdered
<1>2. QueueOrdered /\ [Next]_call => QueueOrdered'
  <2> SUFFICES ASSUME QueueOrdered, OrderPods, call'.op = "queue"
               PROVE  QueueOrdered'
    <3>1. [Next]_call => OnlyBy("queue", OrderPods)
      BY Returns, Zenon
    <3> SUFFICES ASSUME QueueOrdered, call' = call \/ call'.op # "queue" PROVE QueueOrdered'
      BY <3>1 DEF OnlyBy
    <3>2. CASE call' = call
      BY <3>2 DEF QueueOrdered
    <3>3. CASE call'.op # "queue"
      BY <3>3, Zenon DEF QueueOrdered
    <3> QED
      BY <3>2, <3>3
  <2>1. PICK in \in QueueInputs :
          call' = [op |-> "queue", in |-> in, out |->
            [qos |-> [j \in DOMAIN in.pods |-> [k \in DOMAIN in.pods |->
                       QosLess(in.pods[j], in.pods[k])]],
             gang |-> [j \in DOMAIN in.pods |-> [k \in DOMAIN in.pods |->
                        CoschedulingLess(in.created, in.pods[j], in.pods[k])]]]]
    BY DEF OrderPods, Called
  <2>2. /\ call'.in = in
        /\ \A j, k \in DOMAIN in.pods :
             /\ call'.out.qos[j][k] = QosLess(in.pods[j], in.pods[k])
             /\ call'.out.gang[j][k] = CoschedulingLess(in.created, in.pods[j], in.pods[k])
    BY <2>1
  <2> QED
    BY <2>2, LessOrders DEF QueueOrdered
<1> QED
  BY <1>1, <1>2, PTL DEF Spec

----------------------------------------------------------------------------
(* Scores.                                                                 *)

(* Finitely many integers have a least and a greatest one: the sum of what *)
(* they are without their signs bounds them all.                           *)
LEMMA Extremes ==
  ASSUME NEW n \in Nat \ {0}, NEW s \in [1 .. n -> Int]
  PROVE  /\ Min(ToSet(s)) \in Int /\ Max(ToSet(s)) \in Int
         /\ \A k \in 1 .. n : Min(ToSet(s)) <= s[k] /\ s[k] <= Max(ToSet(s))
         /\ \E k \in 1 .. n : s[k] = Min(ToSet(s))
         /\ \E k \in 1 .. n : s[k] = Max(ToSet(s))
<1> DEFINE S == ToSet(s)
           abs == [k \in 1 .. n |-> IF s[k] < 0 THEN -s[k] ELSE s[k]]
<1>1. S = {s[k] : k \in 1 .. n}
  BY DEF ToSet
<1>2. abs \in [1 .. n -> Nat] /\ IsFiniteSet(1 .. n) /\ 1 .. n \in SUBSET (1 .. n)
  <2>1. \A k \in 1 .. n : s[k] \in Int
    OBVIOUS
  <2>2. \A k \in 1 .. n : (IF s[k] < 0 THEN -s[k] ELSE s[k]) \in Nat
    BY <2>1
  <2> QED
    BY <2>2, FS_Interval
<1>3. PICK b \in Nat : \A k \in 1 .. n : abs[k] <= b
  <2> HIDE DEF abs
  <2>1. SumOver(abs, 1 .. n) \in Nat
    BY <1>2, UnitsFinite
  <2>2. \A k \in 1 .. n : abs[k] <= SumOver(abs, 1 .. n)
    BY <1>2, SumOverMember
  <2> QED
    BY <2>1, <2>2
<1>4. \A x \in S : x \in Int /\ b - x \in Nat /\ b + x \in Nat
  <2> SUFFICES ASSUME NEW k \in 1 .. n PROVE s[k] \in Int /\ b - s[k] \in Nat /\ b + s[k] \in Nat
    BY <1>1
  <2>1. abs[k] = IF s[k] < 0 THEN -s[k] ELSE s[k]
    OBVIOUS
  <2>2. s[k] \in Int /\ abs[k] <= b
    BY <1>3
  <2> HIDE DEF abs
  <2> QED
    BY <2>1, <2>2
<1>5. s[1] \in S
  BY <1>1
<1> HIDE DEF S
<1>6. \E x \in S : \A y \in S : x >= y
  <2> DEFINE I == {b - x : x \in S}
  <2>1. I \in SUBSET Nat /\ I # {}
    BY <1>4, <1>5
  <2>2. PICK i \in I : \A j \in I : i <= j
    BY <2>1, LeastElement
  <2>3. PICK x \in S : i = b - x
    BY <2>2
  <2>4. \A y \in S : b - x <= b - y
    BY <2>2, <2>3
  <2>5. ASSUME NEW y \in S PROVE x >= y
    <3>1. x \in Int /\ y \in Int
      BY <1>4
    <3>2. b - x <= b - y
      BY <2>4
    <3> QED
      BY <3>1, <3>2
  <2> QED
    BY <2>5
<1>7. \E x \in S : \A y \in S : x <= y
  <2> DEFINE I == {b + x : x \in S}
  <2>1. I \in SUBSET Nat /\ I # {}
    BY <1>4, <1>5
  <2>2. PICK i \in I : \A j \in I : i <= j
    BY <2>1, LeastElement
  <2>3. PICK x \in S : i = b + x
    BY <2>2
  <2>4. \A y \in S : b + x <= b + y
    BY <2>2, <2>3
  <2>5. ASSUME NEW y \in S PROVE x <= y
    <3>1. x \in Int /\ y \in Int
      BY <1>4
    <3>2. b + x <= b + y
      BY <2>4
    <3> QED
      BY <3>1, <3>2
  <2> QED
    BY <2>5
<1>8. Max(S) \in S /\ \A y \in S : Max(S) >= y
  BY <1>6 DEF Max
<1>9. Min(S) \in S /\ \A y \in S : Min(S) <= y
  BY <1>7 DEF Min
<1>10. \A k \in 1 .. n : s[k] \in S
  BY <1>1
<1>11. \A k \in 1 .. n : Min(S) <= s[k] /\ s[k] <= Max(S)
  BY <1>4, <1>8, <1>9, <1>10
<1>12. (\E k \in 1 .. n : s[k] = Min(S)) /\ (\E k \in 1 .. n : s[k] = Max(S))
  BY <1>1, <1>8, <1>9
<1> QED
  BY <1>4, <1>8, <1>9, <1>11, <1>12 DEF S

(* Division of a part by the whole, in percent.                            *)
LEMMA Percentage ==
  ASSUME NEW d \in Nat \ {0}, NEW x \in 0 .. d, NEW y \in 0 .. d, x <= y
  PROVE  /\ (x * 100) \div d \in 0 .. 100
         /\ (x * 100) \div d <= (y * 100) \div d
         /\ (d * 100) \div d = 100 /\ (0 * 100) \div d = 0
<1>1. \A a \in Nat : a \div d \in Nat /\ (a \div d) * d <= a /\ a < (a \div d) * d + d
  OBVIOUS
<1>2. PICK p \in Nat : p = (x * 100) \div d
  BY <1>1
<1>3. PICK q \in Nat : q = (y * 100) \div d
  BY <1>1
<1>4. /\ p * d <= x * 100 /\ x * 100 < p * d + d
      /\ q * d <= y * 100 /\ y * 100 < q * d + d
  BY <1>1, <1>2, <1>3
<1>5. p <= q
  <2> SUFFICES ASSUME q + 1 <= p PROVE FALSE
    OBVIOUS
  <2>1. (q + 1) * d <= p * d
    OBVIOUS
  <2>2. (q + 1) * d = q * d + d
    OBVIOUS
  <2>3. q * d \in Nat /\ p * d \in Nat
    OBVIOUS
  <2> QED
    BY <1>4, <2>1, <2>2, <2>3
<1>6. p <= 100
  <2> SUFFICES ASSUME 101 <= p PROVE FALSE
    OBVIOUS
  <2>1. 101 * d <= p * d
    OBVIOUS
  <2>2. p * d \in Nat
    OBVIOUS
  <2> QED
    BY <1>4, <2>1, <2>2
<1>7. (d * 100) \div d = 100 /\ (0 * 100) \div d = 0
  OBVIOUS
<1> QED
  BY <1>2, <1>3, <1>5, <1>6, <1>7

(* Parts of the whole that differ by a hundredth of it or more get         *)
(* different percentages.                                                  *)
LEMMA PercentageStrict ==
  ASSUME NEW d \in Nat \ {0}, NEW x \in 0 .. d, NEW y \in 0 .. d, d <= 100 * (y - x)
  PROVE  (x * 100) \div d < (y * 100) \div d
<1>1. PICK p \in Nat : p = (x * 100) \div d
  OBVIOUS
<1>2. PICK q \in Nat : q = (y * 100) \div d
  OBVIOUS
<1>3. p * d <= x * 100 /\ y * 100 < q * d + d
  BY <1>1, <1>2
<1>4. p * d \in Nat /\ q * d \in Nat
  OBVIOUS
<1>5. p * d + d < q * d + d
  BY <1>3, <1>4
<1>6. p < q
  <2> SUFFICES ASSUME q <= p PROVE FALSE
    OBVIOUS
  <2>1. q * d <= p * d
    OBVIOUS
  <2> QED
    BY <1>4, <1>5, <2>1
<1> QED
  BY <1>1, <1>2, <1>6

(* NormalizeScore ranks any scores.                                        *)
LEMMA Normalized ==
  ASSUME NEW n \in Nat \ {0}, NEW s \in [1 .. n -> Int], NEW out, out = NormalizeScore(s)
  PROVE  Ranks(s, 0, out)
<1>1. PICK low : low = Min(ToSet(s))
  OBVIOUS
<1>2. PICK high : high = Max(ToSet(s))
  OBVIOUS
<1>3. /\ low \in Int /\ high \in Int /\ \A k \in 1 .. n : low <= s[k] /\ s[k] <= high
      /\ \E k \in 1 .. n : s[k] = low
      /\ \E k \in 1 .. n : s[k] = high
  BY <1>1, <1>2, Extremes
<1>4. PICK d \in Nat : d = high - low
  <2>1. high - low \in Nat
    BY <1>3
  <2> QED
    BY <2>1
<1>5. DOMAIN s = 1 .. n /\ \A k \in 1 .. n : s[k] \in Int
  OBVIOUS
<1>6. \A k \in 1 .. n : out[k] = IF d = 0 THEN 0 ELSE Quotient((s[k] - low) * 100, d)
  BY <1>1, <1>2, <1>4 DEF NormalizeScore, MaxNodeScore
<1>7. CASE d = 0
  <2>1. \A k \in 1 .. n : out[k] = 0
    BY <1>6, <1>7
  <2>2. \A j, k \in 1 .. n : ~(s[k] - s[j] > 0)
    <3> TAKE j, k \in 1 .. n
    <3>1. s[j] \in Int /\ s[k] \in Int /\ low <= s[j] /\ s[k] <= high
      BY <1>3, <1>5
    <3> QED
      BY <1>3, <1>4, <1>7, <3>1
  <2> QED
    BY <1>5, <2>1, <2>2 DEF Ranks, MaxNodeScore
<1>8. CASE d # 0
  <2>1. \A k \in 1 .. n : s[k] - low \in 0 .. d
    BY <1>3, <1>4
  <2>2. \A x \in 0 .. d : Quotient(x * 100, d) = (x * 100) \div d
    BY DEF Quotient
  <2>3. \A k \in 1 .. n : out[k] = ((s[k] - low) * 100) \div d
    BY <1>6, <1>8, <2>1, <2>2
  <2>4. \A k \in 1 .. n : out[k] \in 0 .. 100
    <3> TAKE k \in 1 .. n
    <3>1. PICK x \in 0 .. d : x = s[k] - low
      BY <2>1
    <3>2. x <= x
      OBVIOUS
    <3>3. (x * 100) \div d \in 0 .. 100
      BY <1>8, <3>2, Percentage
    <3> QED
      BY <2>3, <3>1, <3>3
  <2>5. \A j, k \in 1 .. n : s[j] <= s[k] => out[j] <= out[k]
    <3> SUFFICES ASSUME NEW j \in 1 .. n, NEW k \in 1 .. n, s[j] <= s[k]
                 PROVE  out[j] <= out[k]
      OBVIOUS
    <3>1. PICK x \in 0 .. d : x = s[j] - low
      BY <2>1
    <3>2. PICK y \in 0 .. d : y = s[k] - low
      BY <2>1
    <3>3. x <= y
      <4>1. PICK a \in Int, b \in Int : a = s[j] /\ b = s[k]
        BY <1>5
      <4>2. a <= b /\ low \in Int /\ x = a - low /\ y = b - low
        BY <1>3, <3>1, <3>2, <4>1
      <4> QED
        BY <4>2
    <3>4. (x * 100) \div d <= (y * 100) \div d
      BY <1>8, <3>3, Percentage
    <3>5. out[j] = (x * 100) \div d
      BY <2>3, <3>1, Zenon
    <3>6. out[k] = (y * 100) \div d
      BY <2>3, <3>2, Zenon
    <3> QED
      BY <3>4, <3>5, <3>6, Zenon
  <2>6. PICK j \in 1 .. n : s[j] = low
    BY <1>3
  <2>7. PICK k \in 1 .. n : s[k] = high
    BY <1>3
  <2>8. (d * 100) \div d = 100 /\ (0 * 100) \div d = 0
    <3>1. 0 \in 0 .. d /\ 0 <= 0
      OBVIOUS
    <3> QED
      BY <1>8, <3>1, Percentage
  <2>9. out[j] = 0 /\ out[k] = 100
    <3>1. s[j] - low = 0 /\ s[k] - low = d
      BY <1>3, <1>4, <2>6, <2>7
    <3> QED
      BY <2>3, <2>8, <3>1
  <2>10. ~\A h, i \in 1 .. n : s[h] = s[i]
    <3>1. s[j] # s[k]
      BY <1>3, <1>4, <1>8, <2>6, <2>7
    <3> QED
      BY <3>1
  <2>11. ASSUME NEW g \in 1 .. n, NEW h \in 1 .. n,
                \A i, m \in 1 .. n : s[m] - s[i] + 0 <= 100 * (s[h] - s[g] - 0)
         PROVE  out[g] < out[h]
    <3>1. PICK x \in 0 .. d : x = s[g] - low
      BY <2>1
    <3>2. PICK y \in 0 .. d : y = s[h] - low
      BY <2>1
    <3>3. s[k] - s[j] + 0 <= 100 * (s[h] - s[g] - 0)
      BY <2>11
    <3>4. y - x = s[h] - s[g]
      <4>1. PICK a \in Int, b \in Int : a = s[g] /\ b = s[h]
        BY <1>5
      <4>2. low \in Int /\ x = a - low /\ y = b - low
        BY <1>3, <3>1, <3>2, <4>1
      <4>3. y - x = b - a
        BY <4>2
      <4> QED
        BY <4>1, <4>3
    <3>5. PICK z \in Int : z = s[h] - s[g]
      BY <1>5
    <3>6. d <= 100 * z
      <4>1. PICK e \in Int : e = s[k] - s[j] /\ e = d
        BY <1>3, <1>4, <1>5, <2>6, <2>7
      <4>2. e + 0 <= 100 * (z - 0)
        BY <3>3, <3>5, <4>1
      <4> QED
        BY <4>1, <4>2
    <3>7. d <= 100 * (y - x)
      BY <3>4, <3>5, <3>6
    <3>8. (x * 100) \div d < (y * 100) \div d
      BY <1>8, <3>7, PercentageStrict
    <3>9. out[g] = (x * 100) \div d
      BY <2>3, <3>1, Zenon
    <3>10. out[h] = (y * 100) \div d
      BY <2>3, <3>2, Zenon
    <3> QED
      BY <3>8, <3>9, <3>10, Zenon
  <2>12. (\E i \in 1 .. n : out[i] = 0) /\ (\E i \in 1 .. n : out[i] = 100)
    BY <2>9, Zenon
  <2>13. ASSUME NEW g \in 1 .. n, NEW h \in 1 .. n, s[h] - s[g] > 0
         PROVE  /\ (\E i \in 1 .. n : out[i] = 0) /\ (\E i \in 1 .. n : out[i] = MaxNodeScore)
                /\ (\A i, m \in 1 .. n : s[m] - s[i] + 0 <= 100 * (s[h] - s[g] - 0)) => out[g] < out[h]
    BY <2>11, <2>12, Zenon DEF MaxNodeScore
  <2>14. /\ \A i \in 1 .. n : out[i] \in 0 .. MaxNodeScore
         /\ (\A h, i \in 1 .. n : s[h] = s[i]) => \A i \in 1 .. n : out[i] = 0
    BY <2>4, <2>10, Zenon DEF MaxNodeScore
  <2> QED
    BY <1>5, <2>5, <2>13, <2>14, Zenon DEF Ranks
<1> QED
  BY <1>7, <1>8

(* s is the division of the values by b + 1: it keeps their order, and     *)
(* takes less than b + 1 from a difference.                                *)
DividedBy(n, values, b, s) ==
  \A j, k \in 1 .. n :
    /\ values[j] <= values[k] => s[j] <= s[k]
    /\ values[k] - values[j] - b <= (b + 1) * (s[k] - s[j])

(* What ranks the quotients ranks the values, up to the blur.              *)
LEMMA BlurredRanks ==
  ASSUME NEW n \in Nat \ {0}, NEW b \in Nat, NEW s \in [1 .. n -> Int],
         NEW values \in [1 .. n -> Int], DividedBy(n, values, b, s),
         NEW out, Ranks(s, 0, out)
  PROVE  Ranks(values, b, out)
<1>1. DOMAIN s = 1 .. n /\ DOMAIN values = 1 .. n /\ \A k \in 1 .. n : s[k] \in Int /\ values[k] \in Int
  OBVIOUS
<1>2. \A k \in 1 .. n : out[k] \in 0 .. MaxNodeScore
  BY <1>1 DEF Ranks
<1>3. \A j, k \in 1 .. n : values[j] <= values[k] => out[j] <= out[k]
  BY <1>1 DEF Ranks, DividedBy
<1>4. ASSUME \A j, k \in 1 .. n : values[j] = values[k]
      PROVE  \A k \in 1 .. n : out[k] = 0
  <2>1. \A j, k \in 1 .. n : values[j] <= values[k]
    BY <1>1, <1>4
  <2>2. \A j, k \in 1 .. n : s[j] <= s[k]
    BY <2>1 DEF DividedBy
  <2>3. \A j, k \in 1 .. n : s[j] = s[k]
    BY <1>1, <2>2
  <2> QED
    BY <1>1, <2>3 DEF Ranks
<1>5. ASSUME NEW j \in 1 .. n, NEW k \in 1 .. n, values[k] - values[j] > b
      PROVE  /\ (\E i \in 1 .. n : out[i] = 0) /\ (\E i \in 1 .. n : out[i] = MaxNodeScore)
             /\ (\A h, i \in 1 .. n : values[i] - values[h] + b <= 100 * (values[k] - values[j] - b))
                  => out[j] < out[k]
  <2>1. PICK u \in Nat \ {0} : u = b + 1
    OBVIOUS
  <2>2. PICK z \in Int : z = s[k] - s[j]
    BY <1>1
  <2>3. PICK v \in Int : v = values[k] - values[j] - b
    BY <1>1
  <2>4. v <= u * z
    BY <2>1, <2>2, <2>3 DEF DividedBy
  <2>5. v > 0
    BY <1>1, <1>5, <2>3
  <2>6. z > 0
    <3> SUFFICES ASSUME z <= 0 PROVE FALSE
      OBVIOUS
    <3>1. u * z <= 0 /\ u * z \in Int
      OBVIOUS
    <3> QED
      BY <2>4, <2>5, <3>1
  <2>7. s[k] - s[j] > 0
    BY <2>2, <2>6
  <2>8. (\E i \in 1 .. n : out[i] = 0) /\ (\E i \in 1 .. n : out[i] = MaxNodeScore)
    BY <1>1, <2>7 DEF Ranks
  <2>9. ASSUME \A h, i \in 1 .. n : values[i] - values[h] + b <= 100 * (values[k] - values[j] - b)
        PROVE  out[j] < out[k]
    <3>1. ASSUME NEW h \in 1 .. n, NEW i \in 1 .. n
          PROVE  s[i] - s[h] + 0 <= 100 * (s[k] - s[j] - 0)
      <4>1. PICK x \in Int : x = s[i] - s[h]
        BY <1>1
      <4>2. PICK y \in Int : y = values[i] - values[h]
        BY <1>1
      <4>3. y + b <= 100 * v
        BY <2>3, <2>9, <4>2
      <4>4. values[h] - values[i] - b <= u * (s[h] - s[i])
        BY <2>1 DEF DividedBy
      <4>5. -y - b <= u * (-x)
        <5>1. values[h] - values[i] = -y /\ s[h] - s[i] = -x
          BY <1>1, <4>1, <4>2
        <5> QED
          BY <4>4, <5>1
      <4>6. u * (-x) = -(u * x) /\ u * x \in Int /\ u * z \in Int
        OBVIOUS
      <4>7. u * x <= 100 * (u * z)
        BY <2>4, <4>3, <4>5, <4>6
      <4>8. x <= 100 * z
        <5> SUFFICES ASSUME x >= 100 * z + 1 PROVE FALSE
          OBVIOUS
        <5>1. u * x >= u * (100 * z + 1)
          OBVIOUS
        <5>2. u * (100 * z + 1) = 100 * (u * z) + u
          OBVIOUS
        <5> QED
          BY <4>6, <4>7, <5>1, <5>2
      <4>9. x + 0 <= 100 * (z - 0)
        BY <4>8
      <4> QED
        BY <2>2, <4>1, <4>9
    <3> QED
      BY <1>1, <2>7, <3>1 DEF Ranks
  <2> QED
    BY <2>8, <2>9
<1> QED
  BY <1>1, <1>2, <1>3, <1>4, <1>5 DEF Ranks

(* Division keeps the order of numbers and takes little of a difference.   *)
LEMMA Divided ==
  ASSUME NEW w \in Nat \ {0}, NEW x \in Nat, NEW y \in Nat
  PROVE  /\ x \div w \in Nat /\ y \div w \in Nat
         /\ x <= y => x \div w <= y \div w
         /\ y - x - (w - 1) <= w * ((y \div w) - (x \div w))
<1>1. PICK p \in Nat : p = x \div w
  OBVIOUS
<1>2. PICK q \in Nat : q = y \div w
  OBVIOUS
<1>3. p * w <= x /\ x < p * w + w /\ q * w <= y /\ y < q * w + w
  BY <1>1, <1>2
<1>4. p * w \in Nat /\ q * w \in Nat
  OBVIOUS
<1>5. ASSUME x <= y PROVE p <= q
  <2> SUFFICES ASSUME q + 1 <= p PROVE FALSE
    OBVIOUS
  <2>1. (q + 1) * w <= p * w
    OBVIOUS
  <2>2. (q + 1) * w = q * w + w
    OBVIOUS
  <2> QED
    BY <1>3, <1>4, <1>5, <2>1, <2>2
<1>6. w * (q - p) = q * w - p * w
  OBVIOUS
<1>7. y - x - (w - 1) <= w * (q - p)
  BY <1>3, <1>4, <1>6
<1> QED
  BY <1>1, <1>2, <1>5, <1>7

(* Go divides towards zero.                                                *)
LEMMA QuotientNegative ==
  ASSUME NEW w \in Nat \ {0}, NEW x \in Nat
  PROVE  Quotient(-x, w) = -(x \div w)
<1>1. PICK p \in Nat : p = x \div w
  BY Divided
<1>2. CASE x <= 0
  <2>1. PICK y \in Int : y = -x
    OBVIOUS
  <2>2. y = x /\ y >= 0
    BY <1>2, <2>1
  <2>3. p <= 0
    <3>1. p * w <= x
      BY <1>1
    <3>2. ASSUME p >= 1 PROVE FALSE
      <4>1. p * w >= w
        BY <3>2
      <4> QED
        BY <1>2, <3>1, <4>1
    <3> QED
      BY <3>2
  <2>4. p = -p
    BY <2>3
  <2>5. Quotient(y, w) = x \div w
    BY <2>2 DEF Quotient
  <2> QED
    BY <1>1, <2>1, <2>4, <2>5
<1>3. CASE x > 0
  <2>1. ~(-x >= 0) /\ -(-x) = x
    BY <1>3
  <2> QED
    BY <2>1 DEF Quotient
<1> QED
  BY <1>2, <1>3

(* values are the numbers of sums, or all their negatives.                 *)
PlusOrMinus(n, values, sums) ==
  \/ \A k \in 1 .. n : values[k] = sums[k]
  \/ \A k \in 1 .. n : values[k] = -sums[k]

Quotients(n, values, w) == [k \in 1 .. n |-> Quotient(values[k], w)]

(* So does Quotient, for numbers that are all positive or all negative.    *)
LEMMA QuotientDivides ==
  ASSUME NEW n \in Nat \ {0}, NEW w \in Nat \ {0}, NEW sums \in [1 .. n -> Nat],
         NEW values \in [1 .. n -> Int], PlusOrMinus(n, values, sums),
         NEW s, s = Quotients(n, values, w)
  PROVE  s \in [1 .. n -> Int] /\ DividedBy(n, values, w - 1, s)
<1>1. \A k \in 1 .. n : sums[k] \div w \in Nat
  <2> TAKE k \in 1 .. n
  <2>1. PICK x \in Nat : x = sums[k]
    OBVIOUS
  <2>2. x \div w \in Nat
    BY Divided
  <2> QED
    BY <2>1, <2>2
<1> s = [k \in 1 .. n |-> Quotient(values[k], w)]
  BY DEF Quotients
<1>2. CASE \A k \in 1 .. n : values[k] = sums[k]
  <2>1. \A k \in 1 .. n : s[k] = sums[k] \div w
    BY <1>2 DEF Quotient
  <2>2. s \in [1 .. n -> Int]
    BY <1>1, <2>1
  <2>3. ASSUME NEW j \in 1 .. n, NEW k \in 1 .. n
        PROVE  /\ values[j] <= values[k] => s[j] <= s[k]
               /\ values[k] - values[j] - (w - 1) <= (w - 1 + 1) * (s[k] - s[j])
    <3>1. PICK x \in Nat, y \in Nat : x = sums[j] /\ y = sums[k]
      OBVIOUS
    <3>2. /\ x <= y => x \div w <= y \div w
          /\ y - x - (w - 1) <= w * ((y \div w) - (x \div w))
      BY Divided
    <3>3. values[j] = x /\ values[k] = y /\ s[j] = x \div w /\ s[k] = y \div w /\ w - 1 + 1 = w
      BY <1>2, <2>1, <3>1
    <3> QED
      BY <3>2, <3>3
  <2> QED
    BY <2>2, <2>3 DEF DividedBy
<1>3. CASE \A k \in 1 .. n : values[k] = -sums[k]
  <2>1. \A k \in 1 .. n : s[k] = -(sums[k] \div w)
    <3> TAKE k \in 1 .. n
    <3>1. PICK x \in Nat : x = sums[k]
      OBVIOUS
    <3>2. Quotient(-x, w) = -(x \div w)
      BY QuotientNegative
    <3> QED
      BY <1>3, <3>1, <3>2
  <2>2. s \in [1 .. n -> Int]
    BY <1>1, <2>1
  <2>3. ASSUME NEW j \in 1 .. n, NEW k \in 1 .. n
        PROVE  /\ values[j] <= values[k] => s[j] <= s[k]
               /\ values[k] - values[j] - (w - 1) <= (w - 1 + 1) * (s[k] - s[j])
    <3>1. PICK x \in Nat, y \in Nat : x = sums[k] /\ y = sums[j]
      OBVIOUS
    <3>2. /\ x \div w \in Nat /\ y \div w \in Nat
          /\ x <= y => x \div w <= y \div w
          /\ y - x - (w - 1) <= w * ((y \div w) - (x \div w))
      BY Divided
    <3>3. PICK p \in Nat, q \in Nat : p = x \div w /\ q = y \div w
      BY <3>2
    <3>4. values[j] = -y /\ values[k] = -x /\ s[j] = -q /\ s[k] = -p /\ w - 1 + 1 = w
      BY <1>3, <2>1, <3>1, <3>3
    <3>5. (x <= y => p <= q) /\ y - x - (w - 1) <= w * (q - p)
      BY <3>2, <3>3
    <3>6. -x - (-y) = y - x /\ -p - (-q) = q - p
      OBVIOUS
    <3>7. (-y <= -x => -q <= -p)
      BY <3>5
    <3>8. -x - (-y) - (w - 1) <= w * (-p - (-q))
      BY <3>5, <3>6
    <3>9. values[j] <= values[k] => s[j] <= s[k]
      BY <3>4, <3>7, Zenon
    <3>10. values[k] - values[j] - (w - 1) <= (w - 1 + 1) * (s[k] - s[j])
      BY <3>4, <3>8, Zenon
    <3> QED
      BY <3>9, <3>10, Zenon
  <2> QED
    BY <2>2, <2>3 DEF DividedBy
<1> QED
  BY <1>2, <1>3 DEF PlusOrMinus

(* The weights of the arguments are numbers, and so is what they make of a *)
(* node.                                                                   *)
LEMMA WeightsSummed ==
  ASSUME NEW in \in AllocatableInputs
  PROVE  /\ AllocatableArgs(in.mode, in.weights, in.default).weights = Weights(in)
         /\ SumOver(Weights(in), DOMAIN Weights(in)) \in Nat \ {0}
         /\ \A k \in DOMAIN in.nodes : WeightedSum(in, in.nodes[k]) \in Nat
<1>1. PICK ws : ws = Weights(in)
  OBVIOUS
<1>2. AllocatableArgs(in.mode, in.weights, in.default).weights = ws
  BY <1>1 DEF AllocatableArgs, Weights
<1>3. PICK rs : rs = DOMAIN ws
  OBVIOUS
<1>4. /\ IsFiniteSet(rs) /\ rs # {} /\ ws \in [rs -> Nat \ {0}] /\ rs \in SUBSET rs
      /\ \A k \in DOMAIN in.nodes, r \in rs : AllocatableOf(in.nodes[k], r) \in Nat
  BY <1>2, <1>3, ScoreAssumption
<1>5. ws \in [rs -> Nat]
  BY <1>4
<1>6. SumOver(ws, rs) \in Nat \ {0}
  <2>1. SumOver(ws, rs) \in Nat
    BY <1>4, <1>5, UnitsFinite
  <2>2. PICK r \in rs : ws[r] \in Nat \ {0}
    BY <1>4
  <2>3. ws[r] <= SumOver(ws, rs)
    BY <1>4, <1>5, SumOverMember
  <2> QED
    BY <2>1, <2>2, <2>3
<1>7. ASSUME NEW k \in DOMAIN in.nodes PROVE WeightedSum(in, in.nodes[k]) \in Nat
  <2>1. PICK n : n = in.nodes[k]
    OBVIOUS
  <2> DEFINE f == [r \in rs |-> ws[r] * IF r \in DOMAIN n THEN n[r] ELSE 0]
  <2>2. \A r \in rs : ws[r] * (IF r \in DOMAIN n THEN n[r] ELSE 0) \in Nat
    <3> TAKE r \in rs
    <3>1. PICK a \in Nat : a = IF r \in DOMAIN n THEN n[r] ELSE 0
      BY <1>4, <2>1 DEF AllocatableOf
    <3>2. PICK b \in Nat : b = ws[r]
      BY <1>5
    <3>3. b * a \in Nat
      OBVIOUS
    <3> QED
      BY <3>1, <3>2, <3>3
  <2>3. f \in [rs -> Nat]
    BY <2>2
  <2>4. WeightedSum(in, n) = SumOver(f, rs)
    BY <1>1, <1>3, Zenon DEF WeightedSum
  <2> HIDE DEF f
  <2>5. SumOver(f, rs) \in Nat
    BY <1>4, <2>3, UnitsFinite
  <2> QED
    BY <2>1, <2>4, <2>5
<1> QED
  BY <1>1, <1>2, <1>3, <1>6, <1>7

(* The raw score of a node is its worth, divided by the sum of the weights.*)
LEMMA ScorerDivides ==
  ASSUME NEW in \in AllocatableInputs, NEW node
  PROVE  resourceScorer(AllocatableArgs(in.mode, in.weights, in.default), node)
           = Quotient(Worth("allocatable", in, node), SumOver(Weights(in), DOMAIN Weights(in)))
<1>1. PICK args : args = AllocatableArgs(in.mode, in.weights, in.default)
  OBVIOUS
<1>2. args.weights = Weights(in)
  BY <1>1, WeightsSummed
<1>3. args.mode = (IF in.mode = "" THEN "Least" ELSE in.mode) /\ in.mode \in {"", "Least", "Most"}
  <2>1. args.ok /\ (args.ok => in.mode \in {"", "Least", "Most"})
    BY <1>1, ScoreAssumption DEF AllocatableArgs
  <2> QED
    BY <1>1, <2>1 DEF AllocatableArgs
<1>4. PICK t : t = WeightedSum(in, node)
  OBVIOUS
<1>5. PICK w : w = SumOver(Weights(in), DOMAIN Weights(in))
  OBVIOUS
<1>6. resourceScorer(args, node) = Quotient(resourceScore(t, args.mode), w)
  BY <1>2, <1>4, <1>5, Zenon DEF resourceScorer, WeightedSum, AllocatableOf
<1>7. resourceScore(t, args.mode) = Worth("allocatable", in, node)
  BY <1>3, <1>4 DEF resourceScore, Worth
<1> QED
  BY <1>1, <1>5, <1>6, <1>7

(* PodState and NodeResourcesAllocatable rank the nodes by what they are   *)
(* worth, for any number of nodes, resources and weights: node scores in   *)
(* the order of the worths, 0 for nodes that are all alike, the whole      *)
(* range and different scores for nodes that differ by enough.             *)
THEOREM ScoresRankNodes == Spec => []ScoresRank
<1>1. Init => ScoresRank
  BY DEF Init, NoCall, ScoresRank
<1>2. ScoresRank /\ [Next]_call => ScoresRank'
  <2> SUFFICES ASSUME \/ ScorePodState /\ call'.op = "podstate"
                      \/ ScoreAllocatable /\ call'.op = "allocatable"
               PROVE  ScoresRank'
    <3>1. [Next]_call => OnlyBy("podstate", ScorePodState) /\ OnlyBy("allocatable", ScoreAllocatable)
      BY Returns, Zenon
    <3> QED
      BY <3>1 DEF ScoresRank, OnlyBy
  <2>1. CASE ScorePodState /\ call'.op = "podstate"
    <3>1. PICK in \in PodStateInputs : call' = [op |-> "podstate", in |-> in, out |-> PodStateScores(in.nodes)]
      BY <2>1 DEF ScorePodState, Called
    <3>2. in.nodes \in Seq([terminating : Nat, nominated : Nat]) /\ in.nodes # << >>
      BY ScoreAssumption
    <3>3. PICK n \in Nat \ {0} : DOMAIN in.nodes = 1 .. n
      BY <3>2, EmptySeq, LenProperties
    <3>4. \A k \in 1 .. n : in.nodes[k].terminating - in.nodes[k].nominated \in Int
      <4> TAKE k \in 1 .. n
      <4>1. in.nodes[k] \in [terminating : Nat, nominated : Nat]
        BY <3>2, <3>3, LenProperties, ElementOfSeq
      <4> QED
        BY <4>1
    <3>5. PICK raw : raw = [k \in 1 .. n |-> in.nodes[k].terminating - in.nodes[k].nominated]
      OBVIOUS
    <3>6. raw \in [1 .. n -> Int]
      BY <3>4, <3>5
    <3>7. PICK out : out = call'.out /\ out = NormalizeScore(raw)
      BY <3>1, <3>3, <3>5 DEF PodStateScores, PodStateNormalize, PodStateScore
    <3>8. call'.op = "podstate" /\ call'.in = in
      BY <3>1
    <3>9. Ranks(raw, 0, out)
      BY <3>6, <3>7, Normalized
    <3>10. raw = [k \in DOMAIN call'.in.nodes |-> Worth(call'.op, call'.in, call'.in.nodes[k])]
      BY <3>3, <3>5, <3>8 DEF Worth
    <3>11. Blur(call'.op, call'.in) = 0
      BY <3>8 DEF Blur
    <3> QED
      BY <3>7, <3>9, <3>10, <3>11, Zenon DEF ScoresRank
  <2>2. CASE ScoreAllocatable /\ call'.op = "allocatable"
    <3>1. PICK in \in AllocatableInputs :
            call' = [op |-> "allocatable", in |-> in, out |->
                       AllocatableScores(AllocatableArgs(in.mode, in.weights, in.default), in.nodes)]
      BY <2>2 DEF ScoreAllocatable, Called
    <3>2. PICK args : args = AllocatableArgs(in.mode, in.weights, in.default)
      OBVIOUS
    <3>3. PICK n \in Nat \ {0} : DOMAIN in.nodes = 1 .. n
      BY ScoreAssumption
    <3>4. PICK w \in Nat \ {0} : w = SumOver(Weights(in), DOMAIN Weights(in))
      BY WeightsSummed
    <3>5. PICK sums \in [1 .. n -> Nat] : sums = [k \in 1 .. n |-> WeightedSum(in, in.nodes[k])]
      BY <3>3, WeightsSummed
    <3>6. PICK values : values = [k \in 1 .. n |-> Worth("allocatable", in, in.nodes[k])]
      OBVIOUS
    <3>7. PlusOrMinus(n, values, sums)
      BY <3>5, <3>6 DEF Worth, PlusOrMinus
    <3>8. values \in [1 .. n -> Int]
      <4>1. \A k \in 1 .. n : sums[k] \in Nat
        OBVIOUS
      <4>2. \A k \in 1 .. n : values[k] \in Int
        BY <3>7, <4>1 DEF PlusOrMinus
      <4> QED
        BY <3>6, <4>2
    <3>9. PICK s : s = Quotients(n, values, w)
      OBVIOUS
    <3>10. s \in [1 .. n -> Int] /\ DividedBy(n, values, w - 1, s)
      BY <3>7, <3>8, <3>9, QuotientDivides, Zenon
    <3>11. s = [k \in DOMAIN in.nodes |-> resourceScorer(args, in.nodes[k])]
      <4>1. \A k \in 1 .. n : Quotient(values[k], w) = resourceScorer(args, in.nodes[k])
        BY <3>2, <3>4, <3>6, ScorerDivides
      <4> QED
        BY <3>3, <3>9, <4>1 DEF Quotients
    <3>12. PICK out : out = call'.out /\ out = NormalizeScore(s)
      BY <3>1, <3>2, <3>11 DEF AllocatableScores
    <3>13. call'.op = "allocatable" /\ call'.in = in
      BY <3>1
    <3>14. Ranks(s, 0, out)
      BY <3>10, <3>12, Normalized
    <3>15. PICK b \in Nat : b = w - 1
      BY <3>4
    <3>16. Ranks(values, b, out)
      BY <3>8, <3>10, <3>14, <3>15, BlurredRanks
    <3>17. values = [k \in DOMAIN call'.in.nodes |-> Worth(call'.op, call'.in, call'.in.nodes[k])]
      BY <3>3, <3>6, <3>13
    <3>18. Blur(call'.op, call'.in) = b
      BY <3>4, <3>13, <3>15 DEF Blur
    <3> QED
      BY <3>12, <3>16, <3>17, <3>18, Zenon DEF ScoresRank
  <2> QED
    BY <2>1, <2>2
<1> QED
  BY <1>1, <1>2, PTL DEF Spec

----------------------------------------------------------------------------
(* FlexGPU.                                                                *)

(* What one iteration keeps: the shared memory only shrinks, and as long   *)
(* as no GPU has been taken it is whole and no GPU so far has had room.    *)
FitSoFar(gpus, each, limit, k, acc) ==
  LET real == RealFits(gpus, each, limit)
  IN  /\ acc.memory <= each
      /\ \A i \in 1 .. Len(acc.fits) : acc.fits[i] \in real
      /\ acc.fits = << >> => acc.memory = each /\ \A f \in real : k <= f

LEMMA NatLeft ==
  ASSUME NEW a \in Nat, NEW b \in Nat, b <= a
  PROVE  a - b \in Nat /\ a - b <= a
OBVIOUS

LEMMA FitStep ==
  ASSUME NEW gpus \in Seq([monopoly : BOOLEAN, used : Nat]), NEW each \in Nat, NEW limit \in Nat,
         NEW k \in 1 .. Len(gpus), NEW acc \in [memory : Nat, fits : Seq(Nat)]
  PROVE  LET next == Visit(gpus, limit, acc, k)
         IN  /\ next \in [memory : Nat, fits : Seq(Nat)]
             /\ FitSoFar(gpus, each, limit, k - 1, acc) => FitSoFar(gpus, each, limit, k, next)
<1> DEFINE next == Visit(gpus, limit, acc, k)
           real == RealFits(gpus, each, limit)
<1>1. /\ gpus[k] \in [monopoly : BOOLEAN, used : Nat] /\ k - 1 \in 0 .. Len(gpus) - 1
      /\ k \in Nat /\ k - 1 \in Nat /\ real \subseteq 0 .. Len(gpus) - 1
  <2>1. Len(gpus) \in Nat /\ k \in Nat /\ k - 1 \in Nat /\ k - 1 \in 0 .. Len(gpus) - 1
    OBVIOUS
  <2>2. gpus[k] \in [monopoly : BOOLEAN, used : Nat]
    BY ElementOfSeq
  <2>3. real \subseteq 0 .. Len(gpus) - 1
    BY DEF RealFits
  <2> QED
    BY <2>1, <2>2, <2>3
<1>2. CASE PossibleFit(gpus[k], acc.memory, limit)
  <2>1. next = [memory |-> acc.memory - (gpus[k].used + limit), fits |-> Append(acc.fits, k - 1)]
    BY <1>2 DEF Visit
  <2>2. gpus[k].used \in Nat /\ gpus[k].used + limit <= acc.memory /\ ~gpus[k].monopoly
    BY <1>1, <1>2 DEF PossibleFit
  <2>3. next.memory \in Nat /\ next.memory <= acc.memory
    <3>1. next.memory = acc.memory - (gpus[k].used + limit)
      BY <2>1
    <3>2. PICK a \in Nat : a = acc.memory
      OBVIOUS
    <3>3. PICK b \in Nat : b = gpus[k].used + limit /\ b <= a
      BY <2>2, <3>2
    <3>4. a - b \in Nat /\ a - b <= a
      BY <3>3, NatLeft, Zenon
    <3> QED
      BY <3>1, <3>2, <3>3, <3>4, Zenon
  <2>4. /\ next.fits \in Seq(Nat) /\ next.fits # << >>
        /\ Len(next.fits) = Len(acc.fits) + 1 /\ Len(acc.fits) \in Nat
        /\ next.fits[Len(acc.fits) + 1] = k - 1
        /\ \A i \in 1 .. Len(acc.fits) : next.fits[i] = acc.fits[i]
    <3>1. acc.fits \in Seq(Nat) /\ next.fits = Append(acc.fits, k - 1)
      BY <2>1
    <3> HIDE DEF next
    <3>2. /\ next.fits \in Seq(Nat) /\ Len(acc.fits) \in Nat
          /\ Len(next.fits) = Len(acc.fits) + 1
          /\ next.fits[Len(acc.fits) + 1] = k - 1
          /\ \A i \in 1 .. Len(acc.fits) : next.fits[i] = acc.fits[i]
      BY <1>1, <3>1, AppendProperties, LenProperties
    <3>3. next.fits # << >>
      <4>1. Len(next.fits) # 0
        BY <3>2
      <4> QED
        BY <4>1, EmptySeq
    <3> QED
      BY <3>2, <3>3, Zenon
  <2>5. next \in [memory : Nat, fits : Seq(Nat)]
    BY <2>1, <2>3, <2>4
  <2>6. ASSUME FitSoFar(gpus, each, limit, k - 1, acc)
        PROVE  FitSoFar(gpus, each, limit, k, next)
    <3>1. acc.memory <= each /\ next.memory <= each
      BY <2>3, <2>6 DEF FitSoFar
    <3>2. k - 1 \in real
      BY <1>1, <2>2, <3>1 DEF RealFits
    <3>3. ASSUME NEW i \in 1 .. Len(next.fits) PROVE next.fits[i] \in real
      <4>1. \A j \in 1 .. Len(acc.fits) : acc.fits[j] \in real
        BY <2>6 DEF FitSoFar
      <4>2. i \in 1 .. Len(acc.fits) \/ i = Len(acc.fits) + 1
        BY <2>4
      <4> HIDE DEF next, real
      <4> QED
        BY <2>4, <3>2, <4>1, <4>2
    <3> QED
      BY <2>4, <3>1, <3>3 DEF FitSoFar
  <2> QED
    BY <2>5, <2>6
<1>3. CASE ~PossibleFit(gpus[k], acc.memory, limit)
  <2>1. next = acc
    BY <1>3 DEF Visit
  <2>2. ASSUME FitSoFar(gpus, each, limit, k - 1, acc)
        PROVE  FitSoFar(gpus, each, limit, k, acc)
    <3>1. CASE acc.fits = << >>
      <4>1. acc.memory = each /\ \A f \in real : k - 1 <= f
        BY <2>2, <3>1 DEF FitSoFar
      <4>2. k - 1 \notin real
        BY <1>1, <1>3, <4>1 DEF RealFits, PossibleFit
      <4>3. \A f \in real : k <= f
        BY <1>1, <4>1, <4>2
      <4> QED
        BY <2>2, <3>1, <4>1, <4>3 DEF FitSoFar
    <3>2. CASE acc.fits # << >>
      BY <2>2, <3>2 DEF FitSoFar
    <3> QED
      BY <3>1, <3>2
  <2> QED
    BY <2>1, <2>2
<1> QED
  BY <1>2, <1>3

LEMMA FitLoop ==
  ASSUME NEW gpus \in Seq([monopoly : BOOLEAN, used : Nat]), NEW each \in Nat, NEW limit \in Nat
  PROVE  LET last == Loop(gpus, each, limit)[Len(gpus)]
         IN  /\ last \in [memory : Nat, fits : Seq(Nat)]
             /\ FitSoFar(gpus, each, limit, Len(gpus), last)
<1> DEFINE n == Len(gpus)
           S == [memory : Nat, fits : Seq(Nat)]
           a == [memory |-> each, fits |-> << >>]
           step == [k \in 1 .. n |-> [x \in S |-> Visit(gpus, limit, x, k)]]
           acc == Loop(gpus, each, limit)
           Inv == [k \in 0 .. n |-> {x \in S : FitSoFar(gpus, each, limit, k, x)}]
<1>1. n \in Nat /\ a \in S
  OBVIOUS
<1>2. \A k \in 1 .. n : \A x \in S : Visit(gpus, limit, x, k) \in S
  BY FitStep
<1>3. step \in [1 .. n -> [S -> S]]
  BY <1>2
<1>4. PICK f : IsLoop(n, S, a, step, f)
  <2> HIDE DEF n, S, a, step
  <2> QED
    BY <1>1, <1>3, LoopExists
<1>5. f = [k \in 0 .. n |-> IF k = 0 THEN a ELSE Visit(gpus, limit, f[k - 1], k)]
  <2>1. f \in [0 .. n -> S] /\ f[0] = a
    BY <1>4 DEF IsLoop
  <2>2. ASSUME NEW k \in 1 .. n PROVE f[k] = Visit(gpus, limit, f[k - 1], k)
    <3>1. k - 1 \in 0 .. n
      BY <1>1
    <3>2. f[k - 1] \in S
      BY <2>1, <3>1
    <3>3. f[k] = step[k][f[k - 1]]
      BY <1>4 DEF IsLoop
    <3> QED
      BY <3>2, <3>3
  <2> HIDE DEF n, S, a
  <2>3. \A k \in 0 .. n : k = 0 \/ k \in 1 .. n
    BY <1>1
  <2> QED
    BY <2>1, <2>2, <2>3
<1>6. acc[0] = a /\ \A k \in 1 .. n : acc[k] = Visit(gpus, limit, acc[k - 1], k)
  <2>1. acc = [k \in 0 .. n |-> IF k = 0 THEN a ELSE Visit(gpus, limit, acc[k - 1], k)]
    BY <1>5 DEF Loop
  <2> HIDE DEF a, acc
  <2>2. \A k \in 0 .. n : acc[k] = IF k = 0 THEN a ELSE Visit(gpus, limit, acc[k - 1], k)
    BY <2>1
  <2> HIDE DEF n
  <2> QED
    BY <1>1, <2>2
<1> HIDE DEF acc
<1>7. \A k \in 0 .. n : acc[k] \in Inv[k]
  <2>1. acc[0] \in Inv[0]
    <3>1. FitSoFar(gpus, each, limit, 0, a)
      BY DEF FitSoFar, RealFits
    <3>2. 0 \in 0 .. n
      BY <1>1
    <3> QED
      BY <1>1, <1>6, <3>1, <3>2
  <2>2. ASSUME NEW k \in 1 .. n, acc[k - 1] \in Inv[k - 1] PROVE acc[k] \in Inv[k]
    <3>1. k - 1 \in 0 .. n /\ k \in 0 .. n
      BY <1>1
    <3>2. acc[k - 1] \in S /\ FitSoFar(gpus, each, limit, k - 1, acc[k - 1])
      BY <2>2, <3>1
    <3>3. acc[k] \in S /\ FitSoFar(gpus, each, limit, k, acc[k])
      BY <1>6, <3>2, FitStep
    <3> QED
      BY <3>1, <3>3
  <2> HIDE DEF n, Inv
  <2> QED
    BY <1>1, <2>1, <2>2, LoopKeeps
<1>8. n \in 0 .. n
  BY <1>1
<1> QED
  BY <1>7, <1>8 DEF acc

(* FitGPU: whatever the GPUs hold, the list that MemAssumeFitIndexes       *)
(* computes with the shared memory names GPUs with room only, and is empty *)
(* only if there is none.                                                  *)
THEOREM RoomIsFound == Spec => []RoomFound
<1>1. Init => RoomFound
  BY DEF Init, NoCall, RoomFound
<1>2. RoomFound /\ [Next]_call => RoomFound'
  <2> SUFFICES ASSUME RoomFound, [Next]_call, call'.op = "gpu" PROVE RoomFound'
    BY DEF RoomFound
  <2>1. CASE UNCHANGED call
    BY <2>1 DEF RoomFound
  <2>2. CASE FitGPU
    <3>1. PICK in \in GPUInputs :
            call' = [op |-> "gpu", in |-> in, out |-> MemAssumeFitIndexes(in.gpus, in.each, in.limit)]
      BY <2>2 DEF FitGPU, Called
    <3>2. PICK last : last = Loop(in.gpus, in.each, in.limit)[Len(in.gpus)]
      OBVIOUS
    <3>3. /\ last \in [memory : Nat, fits : Seq(Nat)]
          /\ FitSoFar(in.gpus, in.each, in.limit, Len(in.gpus), last)
      BY <3>2, FitLoop, GPUAssumption
    <3>4. call'.in = in /\ call'.out = last.fits
      BY <3>1, <3>2 DEF MemAssumeFitIndexes
    <3>5. PICK real : real = RealFits(in.gpus, in.each, in.limit)
      OBVIOUS
    <3>6. /\ ToSet(last.fits) \subseteq real
          /\ last.fits = << >> => real = {}
          /\ last.fits # << >> => real # {}
      <4>1. \A i \in 1 .. Len(last.fits) : last.fits[i] \in real
        BY <3>3, <3>5 DEF FitSoFar
      <4>2. ToSet(last.fits) \subseteq real
        BY <3>3, <4>1 DEF ToSet
      <4>3. ASSUME last.fits = << >> PROVE real = {}
        <5>1. \A f \in real : f \in 0 .. Len(in.gpus) - 1 /\ Len(in.gpus) <= f
          BY <3>3, <3>5, <4>3 DEF FitSoFar, RealFits
        <5>2. Len(in.gpus) \in Nat
          BY GPUAssumption
        <5> QED
          BY <5>1, <5>2
      <4>4. last.fits # << >> => 1 \in 1 .. Len(last.fits)
        BY <3>3
      <4> QED
        BY <4>1, <4>2, <4>3, <4>4
    <3> QED
      BY <3>4, <3>5, <3>6 DEF RoomFound
  <2> QED
    BY <2>1, <2>2, Returns DEF OnlyBy
<1> QED
  BY <1>1, <1>2, PTL DEF Spec

----------------------------------------------------------------------------
(* Arguments.                                                              *)

(* What ArgsSurvive says of one decoded configuration.                     *)
Survives(in, args) ==
  /\ NewPlugin(args) <=> ~Refused(in)
  /\ Kept(in, args)
  /\ To_config(RegisterDefaults(config_To(args))) = args
  /\ in.kind = "Toleration" /\ NewPlugin(args) =>
       \A n \in NodeCounts : calculateNumCandidates(args, n) \in 0 .. n

(* The functions of each kind of arguments.                                *)
LEMMA CoschedulingKind ==
  ASSUME NEW x, x.kind = "Coscheduling"
  PROVE  /\ RegisterDefaults(x) = SetDefaults_CoschedulingArgs(x)
         /\ To_config(x) = Coscheduling_To_config(x)
         /\ config_To(x) = config_To_Coscheduling(x)
         /\ NewPlugin(x) <=> TRUE
         /\ Refused(x) <=> FALSE
  BY Zenon DEF RegisterDefaults, To_config, config_To, NewPlugin, Refused

LEMMA CoschedulingDefaults ==
  ASSUME NEW p, NEW d, NEW x,
         x = [kind |-> "Coscheduling", permit |-> p, denied |-> d]
  PROVE  RegisterDefaults(x) =
           [kind |-> "Coscheduling", permit |-> IfNil(p, 60), denied |-> IfNil(d, 20)]
<1> DEFINE R == [kind |-> "Coscheduling", permit |-> p, denied |-> d]
           D == SetDefaults_CoschedulingArgs(R)
<1>1. RegisterDefaults(R) = D
  BY CoschedulingKind
<1>2. D = [f \in {"kind", "permit", "denied"} |-> D[f]]
  BY DEF SetDefaults_CoschedulingArgs
<1>3. /\ D.kind = "Coscheduling" /\ D.permit = IfNil(p, 60) /\ D.denied = IfNil(d, 20)
  BY DEF SetDefaults_CoschedulingArgs
<1> HIDE DEF D
<1> QED
  BY <1>1, <1>2, <1>3

LEMMA AllocatableKind ==
  ASSUME NEW x, x.kind = "Allocatable"
  PROVE  /\ RegisterDefaults(x) = SetDefaults_NodeResourcesAllocatableArgs(x)
         /\ To_config(x) = x
         /\ config_To(x) = x
         /\ NewPlugin(x) <=> NewAllocatable(x)
         /\ Refused(x) <=>
              \/ x.mode \notin {"", "Least", "Most"}
              \/ \E k \in DOMAIN x.resources : x.resources[k].weight <= 0
  BY Zenon DEF RegisterDefaults, To_config, config_To, NewPlugin, Refused

LEMMA AllocatableDefaults ==
  ASSUME NEW r, NEW m, NEW x,
         x = [kind |-> "Allocatable", resources |-> r, mode |-> m]
  PROVE  RegisterDefaults(x) =
           [kind |-> "Allocatable",
            resources |-> IfEmpty(r, defaultNodeResourcesAllocatableResourcesToWeightMap),
            mode |-> IfBlank(m, "Least")]
<1> DEFINE R == [kind |-> "Allocatable", resources |-> r, mode |-> m]
           D == SetDefaults_NodeResourcesAllocatableArgs(R)
<1>1. RegisterDefaults(R) = D
  BY AllocatableKind
<1>2. D = [f \in {"kind", "resources", "mode"} |-> D[f]]
  BY DEF SetDefaults_NodeResourcesAllocatableArgs
<1>3. /\ D.kind = "Allocatable"
      /\ D.resources = IfEmpty(r, defaultNodeResourcesAllocatableResourcesToWeightMap)
      /\ D.mode = IfBlank(m, "Least")
  BY DEF SetDefaults_NodeResourcesAllocatableArgs
<1> HIDE DEF D
<1> QED
  BY <1>1, <1>2, <1>3

LEMMA TargetLoadPackingKind ==
  ASSUME NEW x, x.kind = "TargetLoadPacking"
  PROVE  /\ RegisterDefaults(x) = SetDefaults_TargetLoadPackingArgs(x)
         /\ To_config(x) = TargetLoadPacking_To_config(x)
         /\ config_To(x) = config_To_TargetLoadPacking(x)
         /\ NewPlugin(x) <=> TargetLoadPacking_getArgs(x)
         /\ Refused(x) <=>
              \/ x.multiplier # Nil /\ x.multiplier[1] = "x"
              \/ RefusedProvider(x.provider, x.watcher)
  BY Zenon DEF RegisterDefaults, To_config, config_To, NewPlugin, Refused

LEMMA TargetLoadPackingDefaults ==
  ASSUME NEW r, NEW m, NEW t, NEW p, NEW w, NEW x,
         x = [kind |-> "TargetLoadPacking", requests |-> r, multiplier |-> m,
              target |-> t, provider |-> p, watcher |-> w]
  PROVE  RegisterDefaults(x) =
           [kind |-> "TargetLoadPacking", requests |-> IfNil(r, "1000m"),
            multiplier |-> IfNil(m, "1.5"), target |-> IfNotPositive(t, 40),
            provider |-> DefaultProvider(p, w), watcher |-> w]
<1> DEFINE R == [kind |-> "TargetLoadPacking", requests |-> r, multiplier |-> m,
                 target |-> t, provider |-> p, watcher |-> w]
           D == SetDefaults_TargetLoadPackingArgs(R)
<1>1. RegisterDefaults(R) = D
  BY TargetLoadPackingKind
<1>2. D = [f \in {"kind", "requests", "multiplier", "target", "provider", "watcher"} |-> D[f]]
  BY DEF SetDefaults_TargetLoadPackingArgs
<1>3. /\ D.kind = "TargetLoadPacking" /\ D.requests = IfNil(r, "1000m")
      /\ D.multiplier = IfNil(m, "1.5") /\ D.target = IfNotPositive(t, 40)
      /\ D.provider = DefaultProvider(p, w) /\ D.watcher = w
  BY DEF SetDefaults_TargetLoadPackingArgs
<1> HIDE DEF D
<1> QED
  BY <1>1, <1>2, <1>3

LEMMA LoadVariationKind ==
  ASSUME NEW x, x.kind = "LoadVariation"
  PROVE  /\ RegisterDefaults(x) = SetDefaults_LoadVariationRiskBalancingArgs(x)
         /\ To_config(x) = LoadVariation_To_config(x)
         /\ config_To(x) = config_To_LoadVariation(x)
         /\ NewPlugin(x) <=> LoadVariation_getArgs(x)
         /\ Refused(x) <=> RefusedProvider(x.provider, x.watcher)
  BY Zenon DEF RegisterDefaults, To_config, config_To, NewPlugin, Refused

LEMMA LoadVariationDefaults ==
  ASSUME NEW p, NEW w, NEW m, NEW s, NEW x,
         x = [kind |-> "LoadVariation", provider |-> p, watcher |-> w, margin |-> m,
              sensitivity |-> s]
  PROVE  RegisterDefaults(x) =
           [kind |-> "LoadVariation", provider |-> DefaultProvider(p, w),
            watcher |-> w, margin |-> IfNegative(m, 1), sensitivity |-> IfNegative(s, 1)]
<1> DEFINE R == [kind |-> "LoadVariation", provider |-> p, watcher |-> w, margin |-> m,
                 sensitivity |-> s]
           D == SetDefaults_LoadVariationRiskBalancingArgs(R)
<1>1. RegisterDefaults(R) = D
  BY LoadVariationKind
<1>2. D = [f \in {"kind", "provider", "watcher", "margin", "sensitivity"} |-> D[f]]
  BY DEF SetDefaults_LoadVariationRiskBalancingArgs
<1>3. /\ D.kind = "LoadVariation" /\ D.provider = DefaultProvider(p, w)
      /\ D.watcher = w /\ D.margin = IfNegative(m, 1)
      /\ D.sensitivity = IfNegative(s, 1)
  BY DEF SetDefaults_LoadVariationRiskBalancingArgs
<1> HIDE DEF D
<1> QED
  BY <1>1, <1>2, <1>3

LEMMA TopologyKind ==
  ASSUME NEW x, x.kind = "Topology"
  PROVE  /\ RegisterDefaults(x) = SetDefaults_NodeResourceTopologyMatchArgs(x)
         /\ To_config(x) = Topology_To_config(x)
         /\ config_To(x) = config_To_Topology(x)
         /\ NewPlugin(x) <=> getScoringStrategyFunction(x.strategy.type)
         /\ Refused(x) <=>
              /\ x.strategy # Nil
              /\ x.strategy[1].type
                   \notin {"MostAllocated", "LeastAllocated", "BalancedAllocation"}
  BY Zenon DEF RegisterDefaults, To_config, config_To, NewPlugin, Refused

LEMMA TolerationKind ==
  ASSUME NEW x, x.kind = "Toleration"
  PROVE  /\ RegisterDefaults(x) = SetDefaults_PreemptionTolerationArgs(x)
         /\ To_config(x) = Toleration_To_config(x)
         /\ config_To(x) = config_To_Toleration(x)
         /\ NewPlugin(x) <=> ValidateDefaultPreemptionArgs(x)
         /\ Refused(x) <=>
              \/ x.percentage # Nil /\ (x.percentage[1] < 0 \/ x.percentage[1] > 100)
              \/ x.absolute # Nil /\ x.absolute[1] < 0
              \/ /\ x.percentage # Nil /\ x.percentage[1] = 0
                 /\ x.absolute # Nil /\ x.absolute[1] = 0
  BY Zenon DEF RegisterDefaults, To_config, config_To, NewPlugin, Refused

LEMMA TolerationDefaults ==
  ASSUME NEW p, NEW a, NEW x,
         x = [kind |-> "Toleration", percentage |-> p, absolute |-> a]
  PROVE  RegisterDefaults(x) =
           [kind |-> "Toleration", percentage |-> IfNil(p, 10),
            absolute |-> IfNil(a, 100)]
<1> DEFINE R == [kind |-> "Toleration", percentage |-> p, absolute |-> a]
           D == SetDefaults_PreemptionTolerationArgs(R)
<1>1. RegisterDefaults(R) = D
  BY TolerationKind
<1>2. D = [f \in {"kind", "percentage", "absolute"} |-> D[f]]
  BY DEF SetDefaults_PreemptionTolerationArgs
<1>3. /\ D.kind = "Toleration" /\ D.percentage = IfNil(p, 10)
      /\ D.absolute = IfNil(a, 100)
  BY DEF SetDefaults_PreemptionTolerationArgs
<1> HIDE DEF D
<1> QED
  BY <1>1, <1>2, <1>3

LEMMA CandidatesBound ==
  ASSUME NEW args, args.percentage \in 0 .. 100, args.absolute \in Nat, NEW n \in Nat
  PROVE  calculateNumCandidates(args, n) \in 0 .. n
<1>1. n * args.percentage \in Nat
  OBVIOUS
<1>2. (n * args.percentage) \div 100 \in Nat
  BY <1>1
<1> QED
  BY <1>2 DEF calculateNumCandidates

LEMMA NodeCountsNatural ==
  ASSUME NEW n \in NodeCounts PROVE n \in Nat
  BY NodeCountAssumption

LEMMA CandidatesCounted ==
  ASSUME NEW args, args.percentage \in 0 .. 100, args.absolute \in Nat, NEW n \in NodeCounts
  PROVE  calculateNumCandidates(args, n) \in 0 .. n
<1>1. n \in Nat
  BY NodeCountsNatural
<1> QED
  BY <1>1, CandidatesBound

(* Pointers: what is given is kept, and what is not is the default.        *)
LEMMA PointerCases ==
  ASSUME NEW T, NEW p \in Pointers(T), p # Nil
  PROVE  p[1] \in T
  BY DEF Pointers, Nil

LEMMA PointerDefaults ==
  ASSUME NEW p, NEW d, NEW zero
  PROVE  /\ Deref(IfNil(p, d), zero) = (IF p = Nil THEN d ELSE p[1])
         /\ Deref(IfNegative(p, d), zero) = (IF p = Nil \/ p[1] < 0 THEN d ELSE p[1])
         /\ Deref(IfNotPositive(p, d), zero) = (IF p = Nil \/ p[1] <= 0 THEN d ELSE p[1])
  BY DEF Deref, IfNil, IfNegative, IfNotPositive, Ref, Nil

LEMMA RefGiven ==
  ASSUME NEW v, NEW d, NEW zero
  PROVE  /\ Ref(v) # Nil /\ Ref(v)[1] = v
         /\ Deref(Ref(v), zero) = v
         /\ Deref(IfNil(Ref(v), d), zero) = v
         /\ v \in Nat => Deref(IfNegative(Ref(v), d), zero) = v
         /\ v \in Nat \ {0} => Deref(IfNotPositive(Ref(v), d), zero) = v
  BY DEF Deref, IfNil, IfNegative, IfNotPositive, Ref, Nil

LEMMA CoschedulingDecoded ==
  ASSUME NEW p, NEW d, NEW x,
         x = [kind |-> "Coscheduling", permit |-> p, denied |-> d]
  PROVE  /\ To_config(RegisterDefaults(x)) =
              [kind |-> "Coscheduling", permit |-> Deref(IfNil(p, 60), 0),
               denied |-> Deref(IfNil(d, 20), 0)]
         /\ config_To(x) =
              [kind |-> "Coscheduling", permit |-> Ref(p), denied |-> Ref(d)]
<1>1. PICK y : y = RegisterDefaults(x)
  OBVIOUS
<1>2. y = [kind |-> "Coscheduling", permit |-> IfNil(p, 60), denied |-> IfNil(d, 20)]
  BY <1>1, CoschedulingDefaults
<1>3. y.kind = "Coscheduling" /\ x.kind = "Coscheduling"
  BY <1>2
<1>4. To_config(y) = Coscheduling_To_config(y) /\ config_To(x) = config_To_Coscheduling(x)
  BY <1>3, CoschedulingKind
<1> QED
  BY <1>1, <1>2, <1>4 DEF Coscheduling_To_config, config_To_Coscheduling

(* Records of the larger kinds, by their fields.                           *)
PackingRecord(r, m, t, p, w) ==
  [kind |-> "TargetLoadPacking", requests |-> r, multiplier |-> m, target |-> t, provider |-> p,
   watcher |-> w]

VariationRecord(p, w, m, s) ==
  [kind |-> "LoadVariation", provider |-> p, watcher |-> w, margin |-> m, sensitivity |-> s]

(* What the defaults and the conversions make of them.                     *)
PackingDecoded(r, m, t, p, w) ==
  /\ To_config(RegisterDefaults(PackingRecord(r, m, t, p, w))) =
       PackingRecord(IfNil(r, "1000m"), Deref(IfNil(m, "1.5"), ""), Deref(IfNotPositive(t, 40), 0),
                     MetricProviderSpec_To_config(DefaultProvider(p, w)), Deref(w, ""))
  /\ config_To(PackingRecord(r, m, t, p, w)) =
       PackingRecord(r, Ref(m), Ref(t), config_To_MetricProviderSpec(p), Ref(w))

VariationDecoded(p, w, m, s) ==
  /\ To_config(RegisterDefaults(VariationRecord(p, w, m, s))) =
       VariationRecord(MetricProviderSpec_To_config(DefaultProvider(p, w)), Deref(w, ""),
                       Deref(IfNegative(m, 1), 0), Deref(IfNegative(s, 1), 0))
  /\ config_To(VariationRecord(p, w, m, s)) =
       VariationRecord(config_To_MetricProviderSpec(p), Ref(w), Ref(m), Ref(s))

LEMMA TargetLoadPackingDecoded ==
  ASSUME NEW r, NEW m, NEW t, NEW p, NEW w
  PROVE  PackingDecoded(r, m, t, p, w)
<1>1. PICK x : x = PackingRecord(r, m, t, p, w)
  OBVIOUS
<1>2. PICK y : y = RegisterDefaults(x)
  OBVIOUS
<1>3. y = [kind |-> "TargetLoadPacking", requests |-> IfNil(r, "1000m"),
           multiplier |-> IfNil(m, "1.5"), target |-> IfNotPositive(t, 40),
           provider |-> DefaultProvider(p, w), watcher |-> w]
  BY <1>1, <1>2, TargetLoadPackingDefaults DEF PackingRecord
<1>4. /\ y.kind = "TargetLoadPacking"
      /\ y.requests = IfNil(r, "1000m")
      /\ y.multiplier = IfNil(m, "1.5")
      /\ y.target = IfNotPositive(t, 40)
      /\ y.provider = DefaultProvider(p, w)
      /\ y.watcher = w
  BY <1>3
<1>5. /\ x.kind = "TargetLoadPacking" /\ x.requests = r /\ x.multiplier = m /\ x.target = t
      /\ x.provider = p /\ x.watcher = w
  BY <1>1 DEF PackingRecord
<1>6. To_config(y) = TargetLoadPacking_To_config(y) /\ config_To(x) = config_To_TargetLoadPacking(x)
  BY <1>4, <1>5, TargetLoadPackingKind
<1>7. TargetLoadPacking_To_config(y) =
        PackingRecord(IfNil(r, "1000m"), Deref(IfNil(m, "1.5"), ""), Deref(IfNotPositive(t, 40), 0),
                      MetricProviderSpec_To_config(DefaultProvider(p, w)), Deref(w, ""))
  BY <1>4 DEF TargetLoadPacking_To_config, PackingRecord
<1>8. config_To_TargetLoadPacking(x) =
        PackingRecord(r, Ref(m), Ref(t), config_To_MetricProviderSpec(p), Ref(w))
  BY <1>5 DEF config_To_TargetLoadPacking, PackingRecord
<1> QED
  BY <1>1, <1>2, <1>6, <1>7, <1>8 DEF PackingDecoded

LEMMA LoadVariationDecoded ==
  ASSUME NEW p, NEW w, NEW m, NEW s
  PROVE  VariationDecoded(p, w, m, s)
<1>1. PICK x : x = VariationRecord(p, w, m, s)
  OBVIOUS
<1>2. PICK y : y = RegisterDefaults(x)
  OBVIOUS
<1>3. y = [kind |-> "LoadVariation", provider |-> DefaultProvider(p, w), watcher |-> w,
           margin |-> IfNegative(m, 1), sensitivity |-> IfNegative(s, 1)]
  BY <1>1, <1>2, LoadVariationDefaults DEF VariationRecord
<1>4. /\ y.kind = "LoadVariation"
      /\ y.provider = DefaultProvider(p, w)
      /\ y.watcher = w
      /\ y.margin = IfNegative(m, 1)
      /\ y.sensitivity = IfNegative(s, 1)
  BY <1>3
<1>5. /\ x.kind = "LoadVariation" /\ x.provider = p /\ x.watcher = w /\ x.margin = m
      /\ x.sensitivity = s
  BY <1>1 DEF VariationRecord
<1>6. To_config(y) = LoadVariation_To_config(y) /\ config_To(x) = config_To_LoadVariation(x)
  BY <1>4, <1>5, LoadVariationKind
<1>7. LoadVariation_To_config(y) =
        VariationRecord(MetricProviderSpec_To_config(DefaultProvider(p, w)), Deref(w, ""),
                        Deref(IfNegative(m, 1), 0), Deref(IfNegative(s, 1), 0))
  BY <1>4 DEF LoadVariation_To_config, VariationRecord
<1>8. config_To_LoadVariation(x) =
        VariationRecord(config_To_MetricProviderSpec(p), Ref(w), Ref(m), Ref(s))
  BY <1>5 DEF config_To_LoadVariation, VariationRecord
<1> QED
  BY <1>1, <1>2, <1>6, <1>7, <1>8 DEF VariationDecoded

LEMMA TolerationDecoded ==
  ASSUME NEW p, NEW a, NEW x,
         x = [kind |-> "Toleration", percentage |-> p, absolute |-> a]
  PROVE  /\ To_config(RegisterDefaults(x)) =
              [kind |-> "Toleration", percentage |-> Deref(IfNil(p, 10), 0),
               absolute |-> Deref(IfNil(a, 100), 0)]
         /\ config_To(x) =
              [kind |-> "Toleration", percentage |-> Ref(p), absolute |-> Ref(a)]
<1>1. PICK y : y = RegisterDefaults(x)
  OBVIOUS
<1>2. y = [kind |-> "Toleration", percentage |-> IfNil(p, 10), absolute |-> IfNil(a, 100)]
  BY <1>1, TolerationDefaults
<1>3. y.kind = "Toleration" /\ x.kind = "Toleration"
  BY <1>2
<1>4. To_config(y) = Toleration_To_config(y) /\ config_To(x) = config_To_Toleration(x)
  BY <1>3, TolerationKind
<1> QED
  BY <1>1, <1>2, <1>4 DEF Toleration_To_config, config_To_Toleration

LEMMA CoschedulingArgsSurvive ==
  ASSUME NEW in \in CoschedulingArgs
  PROVE  Survives(in, To_config(RegisterDefaults(in)))
<1>1. in = [kind |-> "Coscheduling", permit |-> in.permit, denied |-> in.denied]
  BY DEF CoschedulingArgs
<1>2. PICK p, d : /\ p = Deref(IfNil(in.permit, 60), 0) /\ d = Deref(IfNil(in.denied, 20), 0)
  OBVIOUS
<1>3. PICK args : args = [kind |-> "Coscheduling", permit |-> p, denied |-> d]
  OBVIOUS
<1>4. To_config(RegisterDefaults(in)) = args
  BY <1>1, <1>2, <1>3, CoschedulingDecoded
<1>5. To_config(RegisterDefaults(config_To(args))) = args
  <2>1. PICK x : x = [kind |-> "Coscheduling", permit |-> Ref(p), denied |-> Ref(d)]
    OBVIOUS
  <2>2. config_To(args) = x
    BY <1>3, <2>1, CoschedulingDecoded
  <2>3. To_config(RegisterDefaults(x)) =
          [kind |-> "Coscheduling", permit |-> Deref(IfNil(Ref(p), 60), 0),
           denied |-> Deref(IfNil(Ref(d), 20), 0)]
    BY <2>1, CoschedulingDecoded
  <2> QED
    BY <1>3, <2>2, <2>3, RefGiven
<1>6. NewPlugin(args) /\ ~Refused(in) /\ in.kind # "Toleration"
  <2>1. args.kind = "Coscheduling" /\ in.kind = "Coscheduling"
    BY <1>1, <1>3
  <2> QED
    BY <2>1, CoschedulingKind
<1>7. Kept(in, args)
  <2>1. DOMAIN in = {"kind", "permit", "denied"}
    BY <1>1
  <2>2. in.permit = Nil \/ args.permit = in.permit[1]
    BY <1>2, <1>3, PointerDefaults
  <2>3. in.denied = Nil \/ args.denied = in.denied[1]
    BY <1>2, <1>3, PointerDefaults
  <2> QED
    BY <2>1, <2>2, <2>3 DEF Kept
<1> QED
  BY <1>4, <1>5, <1>6, <1>7 DEF Survives

LEMMA AllocatableArgsSurvive ==
  ASSUME NEW in \in NodeResourcesAllocatableArgs
  PROVE  Survives(in, To_config(RegisterDefaults(in)))
<1>1. /\ in = [kind |-> "Allocatable", resources |-> in.resources, mode |-> in.mode]
      /\ in.resources \in Seq([name : STRING, weight : Int])
  BY DEF NodeResourcesAllocatableArgs, Resources
<1>2. PICK default : default = defaultNodeResourcesAllocatableResourcesToWeightMap
  OBVIOUS
<1>3. /\ Len(default) = 2 /\ DOMAIN default = 1 .. 2
      /\ default[1].weight > 0 /\ default[2].weight > 0
  BY <1>2 DEF defaultNodeResourcesAllocatableResourcesToWeightMap
<1>4. PICK rs, mode : rs = IfEmpty(in.resources, default) /\ mode = IfBlank(in.mode, "Least")
  OBVIOUS
<1>5. PICK args : args = [kind |-> "Allocatable", resources |-> rs, mode |-> mode]
  OBVIOUS
<1>6. Len(rs) # 0 /\ mode # ""
  <2>1. Len(rs) # 0
    BY <1>3, <1>4 DEF IfEmpty
  <2>2. mode # ""
    BY <1>4 DEF IfBlank
  <2> QED
    BY <2>1, <2>2
<1>7. To_config(RegisterDefaults(in)) = args
  <2>1. RegisterDefaults(in) = args
    BY <1>1, <1>2, <1>4, <1>5, AllocatableDefaults
  <2>2. args.kind = "Allocatable"
    BY <1>5
  <2> QED
    BY <2>1, <2>2, AllocatableKind
<1>8. To_config(RegisterDefaults(config_To(args))) = args
  <2>1. args.kind = "Allocatable"
    BY <1>5
  <2>2. config_To(args) = args /\ To_config(args) = args
    BY <2>1, AllocatableKind
  <2>3. IfEmpty(rs, default) = rs /\ IfBlank(mode, "Least") = mode
    BY <1>6 DEF IfEmpty, IfBlank
  <2>4. RegisterDefaults(args) = args
    BY <1>2, <1>5, <2>3, AllocatableDefaults
  <2> QED
    BY <2>2, <2>4
<1>9. NewPlugin(args) <=> ~Refused(in)
  <2>1. NewPlugin(args) <=> mode \in {"", "Least", "Most"} /\ \A k \in DOMAIN rs : rs[k].weight > 0
    <3>1. args.kind = "Allocatable" /\ args.mode = mode /\ args.resources = rs
      BY <1>5
    <3>2. NewPlugin(args) <=> NewAllocatable(args)
      BY <3>1, AllocatableKind
    <3> QED
      BY <3>1, <3>2 DEF NewAllocatable
  <2>2. Refused(in) <=> \/ in.mode \notin {"", "Least", "Most"}
                        \/ \E k \in DOMAIN in.resources : in.resources[k].weight <= 0
    <3>1. in.kind = "Allocatable"
      BY <1>1
    <3> QED
      BY <3>1, AllocatableKind
  <2>3. mode \in {"", "Least", "Most"} <=> in.mode \in {"", "Least", "Most"}
    BY <1>4 DEF IfBlank
  <2>4. (\A k \in DOMAIN rs : rs[k].weight > 0)
          <=> ~\E k \in DOMAIN in.resources : in.resources[k].weight <= 0
    <3>1. CASE Len(in.resources) = 0
      <4>1. rs = default
        BY <1>4, <3>1 DEF IfEmpty
      <4>2. DOMAIN in.resources = {}
        BY <1>1, <3>1
      <4> QED
        BY <1>3, <4>1, <4>2
    <3>2. CASE Len(in.resources) # 0
      <4>1. rs = in.resources
        BY <1>4, <3>2 DEF IfEmpty
      <4>2. \A k \in DOMAIN in.resources : in.resources[k].weight \in Int
        <5>1. DOMAIN in.resources = 1 .. Len(in.resources)
          BY <1>1
        <5>2. \A k \in 1 .. Len(in.resources) : in.resources[k] \in [name : STRING, weight : Int]
          BY <1>1, ElementOfSeq
        <5> QED
          BY <5>1, <5>2
      <4> QED
        BY <4>1, <4>2
    <3> QED
      BY <3>1, <3>2
  <2> QED
    BY <2>1, <2>2, <2>3, <2>4
<1>10. Kept(in, args) /\ in.kind # "Toleration"
  <2>1. DOMAIN in = {"kind", "resources", "mode"} /\ in.kind = "Allocatable"
    BY <1>1
  <2> QED
    BY <2>1 DEF Kept
<1> QED
  BY <1>7, <1>8, <1>9, <1>10 DEF Survives

LEMMA ProviderSurvives ==
  ASSUME NEW provider \in MetricProviderSpec, NEW watcher
  PROVE  LET w == Deref(watcher, "")
             conf == MetricProviderSpec_To_config(DefaultProvider(provider, watcher))
         IN  /\ MetricProviderSpec_To_config(
                  DefaultProvider(config_To_MetricProviderSpec(conf), Ref(w))) = conf
             /\ (w = "" => conf.type \in {"KubernetesMetricsServer", "Prometheus", "SignalFx"})
                  <=> ~RefusedProvider(provider, watcher)
<1>w. PICK w : w = Deref(watcher, "")
  OBVIOUS
<1>c. PICK conf : conf = MetricProviderSpec_To_config(DefaultProvider(provider, watcher))
  OBVIOUS
<1>1. PICK ty : ty = IF watcher = Nil /\ provider.type = "" THEN "KubernetesMetricsServer"
                       ELSE provider.type
  OBVIOUS
<1>2. PICK i : i = Deref(DefaultProvider(provider, watcher).insecure, FALSE)
  OBVIOUS
<1>3. PICK a, t : a = Deref(provider.address, "") /\ t = Deref(provider.token, "")
  OBVIOUS
<1>4. /\ DefaultProvider(provider, watcher).type = ty
      /\ DefaultProvider(provider, watcher).address = provider.address
      /\ DefaultProvider(provider, watcher).token = provider.token
  BY <1>1 DEF DefaultProvider, MetricProviderSpec
<1>5. conf = [type |-> ty, address |-> a, token |-> t, insecure |-> i]
  BY <1>c, <1>2, <1>3, <1>4 DEF MetricProviderSpec_To_config
<1>6. PICK x : x = [type |-> ty, address |-> Ref(a), token |-> Ref(t), insecure |-> Ref(i)]
  OBVIOUS
<1>7. config_To_MetricProviderSpec(conf) = x
  <2>1. conf.type = ty /\ conf.address = a /\ conf.token = t /\ conf.insecure = i
    BY <1>5
  <2> QED
    BY <1>6, <2>1 DEF config_To_MetricProviderSpec
<1>8. PICK y : y = DefaultProvider(x, Ref(w))
  OBVIOUS
<1>9. y.type = ty /\ y.address = Ref(a) /\ y.token = Ref(t) /\ y.insecure = Ref(i)
  <2>1. Ref(w) # Nil /\ Ref(i) # Nil
    BY DEF Ref, Nil
  <2>2. IfNil(Ref(i), TRUE) = Ref(i)
    BY <2>1 DEF IfNil
  <2>3. y = [x EXCEPT !.type = ty, !.insecure = Ref(i)]
    BY <1>6, <1>8, <2>1, <2>2 DEF DefaultProvider
  <2> QED
    BY <1>6, <2>3
<1>10. MetricProviderSpec_To_config(y) = conf
  <2>1. Deref(Ref(a), "") = a /\ Deref(Ref(t), "") = t /\ Deref(Ref(i), FALSE) = i
    BY RefGiven
  <2> QED
    BY <1>5, <1>9, <2>1 DEF MetricProviderSpec_To_config
<1>11. (w = "" => conf.type \in {"KubernetesMetricsServer", "Prometheus", "SignalFx"})
         <=> ~RefusedProvider(provider, watcher)
  <2>1. conf.type = ty
    BY <1>5
  <2> QED
    BY <1>w, <1>1, <2>1 DEF RefusedProvider, Deref
<1> QED
  BY <1>w, <1>c, <1>7, <1>8, <1>10, <1>11

LEMMA TargetLoadPackingArgsSurvive ==
  ASSUME NEW in \in TargetLoadPackingArgs
  PROVE  Survives(in, To_config(RegisterDefaults(in)))
<1>1. /\ in = [kind |-> "TargetLoadPacking", requests |-> in.requests, multiplier |-> in.multiplier,
               target |-> in.target, provider |-> in.provider, watcher |-> in.watcher]
      /\ in.provider \in MetricProviderSpec /\ in.target \in Pointers(Int)
  BY DEF TargetLoadPackingArgs
<1>2. PICK r, m, t : /\ r = IfNil(in.requests, "1000m")
                     /\ m = Deref(IfNil(in.multiplier, "1.5"), "")
                     /\ t = Deref(IfNotPositive(in.target, 40), 0)
  OBVIOUS
<1>3. PICK w, p : /\ w = Deref(in.watcher, "")
                  /\ p = MetricProviderSpec_To_config(DefaultProvider(in.provider, in.watcher))
  OBVIOUS
<1>a. PICK args : args = PackingRecord(r, m, t, p, w)
  OBVIOUS
<1>4. /\ args.kind = "TargetLoadPacking" /\ args.multiplier = m /\ args.target = t
      /\ args.provider = p /\ args.watcher = w
  BY <1>a DEF PackingRecord
<1>5. To_config(RegisterDefaults(in)) = args
  <2>1. in = PackingRecord(in.requests, in.multiplier, in.target, in.provider, in.watcher)
    BY <1>1 DEF PackingRecord
  <2>2. PackingDecoded(in.requests, in.multiplier, in.target, in.provider, in.watcher)
    BY TargetLoadPackingDecoded
  <2>3. To_config(RegisterDefaults(in)) = PackingRecord(r, m, t, p, w)
    BY <1>2, <1>3, <2>1, <2>2 DEF PackingDecoded
  <2> QED
    BY <1>a, <2>3
<1>6. /\ m = (IF in.multiplier = Nil THEN "1.5" ELSE in.multiplier[1])
      /\ t = (IF in.target = Nil \/ in.target[1] <= 0 THEN 40 ELSE in.target[1])
  <2>1. Deref(IfNil(in.multiplier, "1.5"), "") = (IF in.multiplier = Nil THEN "1.5" ELSE in.multiplier[1])
    BY PointerDefaults, Zenon
  <2>2. Deref(IfNotPositive(in.target, 40), 0)
          = (IF in.target = Nil \/ in.target[1] <= 0 THEN 40 ELSE in.target[1])
    BY PointerDefaults
  <2> QED
    BY <1>2, <2>1, <2>2, Zenon
<1>7. t \in Nat \ {0}
  <2>1. in.target # Nil => in.target[1] \in Int
    BY <1>1, PointerCases
  <2> QED
    BY <1>6, <2>1
<1>8. /\ MetricProviderSpec_To_config(DefaultProvider(config_To_MetricProviderSpec(p), Ref(w))) = p
      /\ (w = "" => p.type \in {"KubernetesMetricsServer", "Prometheus", "SignalFx"})
           <=> ~RefusedProvider(in.provider, in.watcher)
  BY <1>1, <1>3, ProviderSurvives
<1>9. To_config(RegisterDefaults(config_To(args))) = args
  <2>1. PICK q : q = config_To_MetricProviderSpec(p)
    OBVIOUS
  <2>2. config_To(args) = PackingRecord(r, Ref(m), Ref(t), q, Ref(w))
    <3>1. PackingDecoded(r, m, t, p, w)
      BY TargetLoadPackingDecoded
    <3> QED
      BY <1>a, <2>1, <3>1 DEF PackingDecoded
  <2>3. To_config(RegisterDefaults(PackingRecord(r, Ref(m), Ref(t), q, Ref(w)))) =
          PackingRecord(IfNil(r, "1000m"), Deref(IfNil(Ref(m), "1.5"), ""),
                        Deref(IfNotPositive(Ref(t), 40), 0),
                        MetricProviderSpec_To_config(DefaultProvider(q, Ref(w))), Deref(Ref(w), ""))
    <3>1. PackingDecoded(r, Ref(m), Ref(t), q, Ref(w))
      BY TargetLoadPackingDecoded
    <3> QED
      BY <3>1 DEF PackingDecoded
  <2>4. IfNil(r, "1000m") = r
    BY <1>2 DEF IfNil, Ref, Nil
  <2>5. /\ Deref(IfNil(Ref(m), "1.5"), "") = m /\ Deref(Ref(w), "") = w
        /\ Deref(IfNotPositive(Ref(t), 40), 0) = t
    <3>1. Deref(IfNil(Ref(m), "1.5"), "") = m
      BY RefGiven, Zenon
    <3>2. Deref(Ref(w), "") = w
      BY RefGiven, Zenon
    <3>3. Deref(IfNotPositive(Ref(t), 40), 0) = t
      BY <1>7, RefGiven
    <3> QED
      BY <3>1, <3>2, <3>3, Zenon
  <2> QED
    BY <1>a, <1>8, <2>1, <2>2, <2>3, <2>4, <2>5
<1>10. NewPlugin(args) <=> ~Refused(in)
  <2>1. args.kind = "TargetLoadPacking" /\ in.kind = "TargetLoadPacking"
    BY <1>1, <1>4
  <2>2. NewPlugin(args) <=> TargetLoadPacking_getArgs(args)
    BY <2>1, TargetLoadPackingKind
  <2>3. Refused(in) <=> \/ in.multiplier # Nil /\ in.multiplier[1] = "x"
                        \/ RefusedProvider(in.provider, in.watcher)
    BY <2>1, TargetLoadPackingKind
  <2>4. TargetLoadPacking_getArgs(args)
          <=> /\ w = "" => p.type \in {"KubernetesMetricsServer", "Prometheus", "SignalFx"}
              /\ m # "x"
    BY <1>4 DEF TargetLoadPacking_getArgs, ValidProvider
  <2>5. m # "x" <=> ~(in.multiplier # Nil /\ in.multiplier[1] = "x")
    BY <1>6
  <2> QED
    BY <1>8, <2>2, <2>3, <2>4, <2>5
<1>11. Kept(in, args) /\ in.kind # "Toleration"
  <2>1. DOMAIN in = {"kind", "requests", "multiplier", "target", "provider", "watcher"}
          /\ in.kind = "TargetLoadPacking"
    BY <1>1
  <2>2. in.multiplier = Nil \/ args.multiplier = in.multiplier[1]
    BY <1>4, <1>6
  <2>3. in.watcher = Nil \/ args.watcher = in.watcher[1]
    BY <1>3, <1>4 DEF Deref
  <2>4. in.target = Nil \/ Replaced("target", in.target[1]) \/ args.target = in.target[1]
    <3>1. in.target # Nil => in.target[1] \in Int
      BY <1>1, PointerCases
    <3> QED
      BY <1>4, <1>6, <3>1 DEF Replaced
  <2> QED
    BY <2>1, <2>2, <2>3, <2>4 DEF Kept
<1> QED
  BY <1>5, <1>9, <1>10, <1>11 DEF Survives

LEMMA LoadVariationArgsSurvive ==
  ASSUME NEW in \in LoadVariationRiskBalancingArgs
  PROVE  Survives(in, To_config(RegisterDefaults(in)))
<1>1. /\ in = [kind |-> "LoadVariation", provider |-> in.provider, watcher |-> in.watcher,
               margin |-> in.margin, sensitivity |-> in.sensitivity]
      /\ in.provider \in MetricProviderSpec
      /\ in.margin \in Pointers(Int) /\ in.sensitivity \in Pointers(Int)
  BY DEF LoadVariationRiskBalancingArgs
<1>2. PICK m, s : /\ m = Deref(IfNegative(in.margin, 1), 0)
                  /\ s = Deref(IfNegative(in.sensitivity, 1), 0)
  OBVIOUS
<1>3. PICK w, p : /\ w = Deref(in.watcher, "")
                  /\ p = MetricProviderSpec_To_config(DefaultProvider(in.provider, in.watcher))
  OBVIOUS
<1>a. PICK args : args = VariationRecord(p, w, m, s)
  OBVIOUS
<1>4. /\ args.kind = "LoadVariation" /\ args.provider = p /\ args.watcher = w
      /\ args.margin = m /\ args.sensitivity = s
  BY <1>a DEF VariationRecord
<1>5. To_config(RegisterDefaults(in)) = args
  <2>1. in = VariationRecord(in.provider, in.watcher, in.margin, in.sensitivity)
    BY <1>1 DEF VariationRecord
  <2>2. VariationDecoded(in.provider, in.watcher, in.margin, in.sensitivity)
    BY LoadVariationDecoded
  <2>3. To_config(RegisterDefaults(in)) = VariationRecord(p, w, m, s)
    BY <1>2, <1>3, <2>1, <2>2 DEF VariationDecoded
  <2> QED
    BY <1>a, <2>3
<1>6. /\ m = (IF in.margin = Nil \/ in.margin[1] < 0 THEN 1 ELSE in.margin[1])
      /\ s = (IF in.sensitivity = Nil \/ in.sensitivity[1] < 0 THEN 1 ELSE in.sensitivity[1])
  BY <1>2, PointerDefaults
<1>7. /\ in.margin # Nil => in.margin[1] \in Int
      /\ in.sensitivity # Nil => in.sensitivity[1] \in Int
  BY <1>1, PointerCases
<1>8. m \in Nat /\ s \in Nat
  BY <1>6, <1>7
<1>9. /\ MetricProviderSpec_To_config(DefaultProvider(config_To_MetricProviderSpec(p), Ref(w))) = p
      /\ (w = "" => p.type \in {"KubernetesMetricsServer", "Prometheus", "SignalFx"})
           <=> ~RefusedProvider(in.provider, in.watcher)
  BY <1>1, <1>3, ProviderSurvives
<1>10. To_config(RegisterDefaults(config_To(args))) = args
  <2>1. PICK q : q = config_To_MetricProviderSpec(p)
    OBVIOUS
  <2>2. config_To(args) = VariationRecord(q, Ref(w), Ref(m), Ref(s))
    <3>1. VariationDecoded(p, w, m, s)
      BY LoadVariationDecoded
    <3> QED
      BY <1>a, <2>1, <3>1 DEF VariationDecoded
  <2>3. To_config(RegisterDefaults(VariationRecord(q, Ref(w), Ref(m), Ref(s)))) =
          VariationRecord(MetricProviderSpec_To_config(DefaultProvider(q, Ref(w))),
                          Deref(Ref(w), ""), Deref(IfNegative(Ref(m), 1), 0),
                          Deref(IfNegative(Ref(s), 1), 0))
    <3>1. VariationDecoded(q, Ref(w), Ref(m), Ref(s))
      BY LoadVariationDecoded
    <3> QED
      BY <3>1 DEF VariationDecoded
  <2>4. /\ Deref(Ref(w), "") = w /\ Deref(IfNegative(Ref(m), 1), 0) = m
        /\ Deref(IfNegative(Ref(s), 1), 0) = s
    <3>1. Deref(Ref(w), "") = w
      BY RefGiven, Zenon
    <3>2. Deref(IfNegative(Ref(m), 1), 0) = m
      BY <1>8, RefGiven
    <3>3. Deref(IfNegative(Ref(s), 1), 0) = s
      BY <1>8, RefGiven
    <3> QED
      BY <3>1, <3>2, <3>3, Zenon
  <2> QED
    BY <1>a, <1>9, <2>1, <2>2, <2>3, <2>4
<1>11. NewPlugin(args) <=> ~Refused(in)
  <2>1. args.kind = "LoadVariation" /\ in.kind = "LoadVariation"
    BY <1>1, <1>4
  <2>2. NewPlugin(args) <=> LoadVariation_getArgs(args)
    BY <2>1, LoadVariationKind
  <2>3. Refused(in) <=> RefusedProvider(in.provider, in.watcher)
    BY <2>1, LoadVariationKind
  <2>4. LoadVariation_getArgs(args)
          <=> (w = "" => p.type \in {"KubernetesMetricsServer", "Prometheus", "SignalFx"})
    BY <1>4 DEF LoadVariation_getArgs, ValidProvider
  <2> QED
    BY <1>9, <2>2, <2>3, <2>4
<1>12. Kept(in, args) /\ in.kind # "Toleration"
  <2>1. DOMAIN in = {"kind", "provider", "watcher", "margin", "sensitivity"}
          /\ in.kind = "LoadVariation"
    BY <1>1
  <2>2. in.watcher = Nil \/ args.watcher = in.watcher[1]
    BY <1>3, <1>4 DEF Deref
  <2>3. in.margin = Nil \/ Replaced("margin", in.margin[1]) \/ args.margin = in.margin[1]
    BY <1>4, <1>6, <1>7 DEF Replaced
  <2>4. in.sensitivity = Nil \/ Replaced("sensitivity", in.sensitivity[1])
          \/ args.sensitivity = in.sensitivity[1]
    BY <1>4, <1>6, <1>7 DEF Replaced
  <2> QED
    BY <2>1, <2>2, <2>3, <2>4 DEF Kept
<1> QED
  BY <1>5, <1>10, <1>11, <1>12 DEF Survives

(* The provers do not know that the literals are strings.                  *)
Names == STRING \cup {"cpu", "memory"}

LEMMA DefaultResources ==
  DefaultResourceSpec \in Seq([name : Names, weight : Int]) /\ Len(DefaultResourceSpec) = 2
<1>1. "cpu" \in Names /\ "memory" \in Names
  BY DEF Names
<1>2. /\ [name |-> "cpu", weight |-> 1] \in [name : Names, weight : Int]
      /\ [name |-> "memory", weight |-> 1] \in [name : Names, weight : Int]
  BY <1>1
<1> QED
  BY <1>2 DEF DefaultResourceSpec

LEMMA ResourcesNamed ==
  ASSUME NEW rs \in Resources
  PROVE  rs \in Seq([name : Names, weight : Int])
<1>1. rs \in Seq([name : STRING, weight : Int])
  BY DEF Resources
<1>2. \A k \in 1 .. Len(rs) : rs[k] \in [name : Names, weight : Int]
  <2>1. \A k \in 1 .. Len(rs) : rs[k] \in [name : STRING, weight : Int]
    BY <1>1, ElementOfSeq
  <2>2. [name : STRING, weight : Int] \subseteq [name : Names, weight : Int]
    BY DEF Names
  <2> QED
    BY <2>1, <2>2
<1>3. PICK n \in Nat : n = Len(rs)
  BY <1>1
<1>4. rs = [k \in 1 .. n |-> rs[k]]
  BY <1>1, <1>3
<1>5. rs \in [1 .. n -> [name : Names, weight : Int]]
  BY <1>2, <1>3, <1>4, Zenon
<1>6. \A R : rs \in [1 .. n -> R] => rs \in Seq(R)
  OBVIOUS
<1> QED
  BY <1>5, <1>6, Zenon

(* Weights that are not given.                                             *)
Weighed(rs) == [k \in DOMAIN rs |-> [rs[k] EXCEPT !.weight = IF @ = 0 THEN 1 ELSE @]]

LEMMA WeighedTwice ==
  ASSUME NEW rs \in Seq([name : Names, weight : Int])
  PROVE  Weighed(Weighed(rs)) = Weighed(rs) /\ Len(Weighed(rs)) = Len(rs)
<1>1. DOMAIN rs = 1 .. Len(rs) /\ Len(rs) \in Nat
  OBVIOUS
<1>2. PICK ws : ws = Weighed(rs)
  OBVIOUS
<1>3. DOMAIN ws = 1 .. Len(rs) /\ ws = [k \in 1 .. Len(rs) |-> ws[k]]
  BY <1>1, <1>2 DEF Weighed
<1>4. ASSUME NEW k \in 1 .. Len(rs)
      PROVE  /\ ws[k] \in [name : Names, weight : Int]
             /\ [ws[k] EXCEPT !.weight = IF @ = 0 THEN 1 ELSE @] = ws[k]
  <2>1. PICK r : r = rs[k]
    OBVIOUS
  <2>2. r \in [name : Names, weight : Int]
    BY <2>1, ElementOfSeq
  <2>3. ws[k] = [r EXCEPT !.weight = IF @ = 0 THEN 1 ELSE @]
    BY <1>1, <1>2, <2>1 DEF Weighed
  <2>4. PICK v : v = IF r.weight = 0 THEN 1 ELSE r.weight
    OBVIOUS
  <2>5. v \in Int /\ v # 0 /\ r.name \in Names
    BY <2>2, <2>4
  <2>6. ws[k] = [name |-> r.name, weight |-> v]
    BY <2>2, <2>3, <2>4
  <2> QED
    BY <2>5, <2>6
<1>5. ws \in [1 .. Len(rs) -> [name : Names, weight : Int]]
  BY <1>3, <1>4
<1>6. Len(ws) = Len(rs)
  BY <1>1, <1>5
<1>7. Weighed(ws) = ws
  BY <1>3, <1>4 DEF Weighed
<1> QED
  BY <1>2, <1>6, <1>7

(* A strategy as the defaults leave it.                                    *)
StrategyDefaulted(s) ==
  [type |-> s.type, resources |-> Weighed(IfEmpty(s.resources, DefaultResourceSpec))]

LEMMA TopologyDefaults ==
  ASSUME NEW p, NEW s, s = [type |-> s.type, resources |-> s.resources],
         s = Deref(p, [type |-> "LeastAllocated", resources |-> DefaultResourceSpec])
  PROVE  RegisterDefaults([kind |-> "Topology", strategy |-> p]) =
           [kind |-> "Topology", strategy |-> Ref(StrategyDefaulted(s))]
<1>1. PICK x : x = [kind |-> "Topology", strategy |-> p]
  OBVIOUS
<1>2. x.kind = "Topology" /\ x.strategy = p
  BY <1>1
<1>3. RegisterDefaults(x) = SetDefaults_NodeResourceTopologyMatchArgs(x)
  BY <1>2, TopologyKind
<1>4. PICK rs : rs = IfEmpty(s.resources, DefaultResourceSpec)
  OBVIOUS
<1>5. SetDefaults_NodeResourceTopologyMatchArgs(x) =
        [x EXCEPT !.strategy = Ref([s EXCEPT !.resources = Weighed(rs)])]
  BY <1>2, <1>4 DEF SetDefaults_NodeResourceTopologyMatchArgs, Weighed
<1>6. [s EXCEPT !.resources = Weighed(rs)] = StrategyDefaulted(s)
  BY <1>4 DEF StrategyDefaulted
<1>7. PICK d : d = Ref(StrategyDefaulted(s))
  OBVIOUS
<1>8. RegisterDefaults(x) = [x EXCEPT !.strategy = d]
  BY <1>3, <1>5, <1>6, <1>7
<1>9. [x EXCEPT !.strategy = d] = [kind |-> "Topology", strategy |-> d]
  BY <1>1
<1> QED
  BY <1>1, <1>7, <1>8, <1>9

LEMMA TopologyConverted ==
  ASSUME NEW s
  PROVE  /\ To_config([kind |-> "Topology", strategy |-> Ref(s)]) =
              [kind |-> "Topology", strategy |-> s]
         /\ config_To([kind |-> "Topology", strategy |-> s]) =
              [kind |-> "Topology", strategy |-> Ref(s)]
<1>1. PICK x : x = [kind |-> "Topology", strategy |-> Ref(s)]
  OBVIOUS
<1>2. PICK y : y = [kind |-> "Topology", strategy |-> s]
  OBVIOUS
<1>3. x.kind = "Topology" /\ x.strategy = Ref(s) /\ y.kind = "Topology" /\ y.strategy = s
  BY <1>1, <1>2
<1>4. To_config(x) = Topology_To_config(x) /\ config_To(y) = config_To_Topology(y)
  BY <1>3, TopologyKind
<1>5. Topology_To_config(x) = y
  BY <1>2, <1>3, RefGiven DEF Topology_To_config
<1>6. config_To_Topology(y) = x
  BY <1>1, <1>3 DEF config_To_Topology
<1> QED
  BY <1>1, <1>2, <1>4, <1>5, <1>6

LEMMA TopologyArgsSurvive ==
  ASSUME NEW in \in NodeResourceTopologyMatchArgs
  PROVE  Survives(in, To_config(RegisterDefaults(in)))
<1>1. /\ in = [kind |-> "Topology", strategy |-> in.strategy]
      /\ in.strategy \in Pointers(ScoringStrategy)
  BY DEF NodeResourceTopologyMatchArgs
<1>2. PICK default : default = DefaultResourceSpec
  OBVIOUS
<1>3. default \in Seq([name : Names, weight : Int]) /\ Len(default) = 2
  BY <1>2, DefaultResources
<1>4. PICK s : s = Deref(in.strategy, [type |-> "LeastAllocated", resources |-> default])
  OBVIOUS
<1>5. /\ in.strategy = Nil => s = [type |-> "LeastAllocated", resources |-> default]
      /\ in.strategy # Nil => s = in.strategy[1]
  BY <1>4 DEF Deref
<1>6. s = [type |-> s.type, resources |-> s.resources]
        /\ s.resources \in Seq([name : Names, weight : Int])
  <2>1. CASE in.strategy = Nil
    BY <1>3, <1>5, <2>1
  <2>2. CASE in.strategy # Nil
    <3>1. s \in ScoringStrategy
      BY <1>1, <1>5, <2>2, PointerCases
    <3> QED
      BY <3>1, ResourcesNamed DEF ScoringStrategy
  <2> QED
    BY <2>1, <2>2
<1>7. PICK rs, ws : rs = IfEmpty(s.resources, default) /\ ws = Weighed(rs)
  OBVIOUS
<1>8. rs \in Seq([name : Names, weight : Int]) /\ Len(rs) # 0
  <2>1. rs = IF Len(s.resources) = 0 THEN default ELSE s.resources
    BY <1>7 DEF IfEmpty
  <2> QED
    BY <1>3, <1>6, <2>1
<1>9. PICK d : d = StrategyDefaulted(s)
  OBVIOUS
<1>10. d = [type |-> s.type, resources |-> ws]
  BY <1>2, <1>7, <1>9 DEF StrategyDefaulted
<1>11. d.type = s.type /\ d.resources = ws /\ d = [type |-> d.type, resources |-> d.resources]
  BY <1>10
<1>12. StrategyDefaulted(d) = d
  <2>1. Len(ws) # 0 /\ Weighed(ws) = ws
    BY <1>7, <1>8, WeighedTwice
  <2>2. IfEmpty(d.resources, DefaultResourceSpec) = ws
    BY <1>11, <2>1 DEF IfEmpty
  <2>3. StrategyDefaulted(d) = [type |-> s.type, resources |-> ws]
    BY <1>11, <2>1, <2>2 DEF StrategyDefaulted
  <2> QED
    BY <1>10, <2>3
<1>13. PICK args : args = [kind |-> "Topology", strategy |-> d]
  OBVIOUS
<1>14. To_config(RegisterDefaults(in)) = args
  <2>1. RegisterDefaults(in) = [kind |-> "Topology", strategy |-> Ref(d)]
    <3>1. RegisterDefaults([kind |-> "Topology", strategy |-> in.strategy]) =
            [kind |-> "Topology", strategy |-> Ref(d)]
      BY <1>2, <1>4, <1>6, <1>9, TopologyDefaults
    <3> QED
      BY <1>1, <3>1
  <2> QED
    BY <1>13, <2>1, TopologyConverted
<1>15. To_config(RegisterDefaults(config_To(args))) = args
  <2>1. config_To(args) = [kind |-> "Topology", strategy |-> Ref(d)]
    BY <1>13, TopologyConverted
  <2>2. d = Deref(Ref(d), [type |-> "LeastAllocated", resources |-> DefaultResourceSpec])
    BY RefGiven
  <2>3. RegisterDefaults([kind |-> "Topology", strategy |-> Ref(d)]) =
          [kind |-> "Topology", strategy |-> Ref(StrategyDefaulted(d))]
    BY <1>11, <2>2, TopologyDefaults
  <2> QED
    BY <1>12, <1>13, <2>1, <2>3, TopologyConverted
<1>16. NewPlugin(args) <=> ~Refused(in)
  <2>1. in.kind = "Topology" /\ args.kind = "Topology" /\ args.strategy = d
    BY <1>1, <1>13
  <2>2. NewPlugin(args) <=> s.type \in {"MostAllocated", "LeastAllocated", "BalancedAllocation"}
    BY <1>11, <2>1, TopologyKind DEF getScoringStrategyFunction
  <2>3. Refused(in) <=>
          /\ in.strategy # Nil
          /\ in.strategy[1].type \notin {"MostAllocated", "LeastAllocated", "BalancedAllocation"}
    BY <2>1, TopologyKind
  <2>4. in.strategy = Nil => s.type = "LeastAllocated"
    BY <1>5
  <2> QED
    BY <1>5, <2>2, <2>3, <2>4
<1>17. Kept(in, args) /\ in.kind # "Toleration"
  <2>1. DOMAIN in = {"kind", "strategy"} /\ in.kind = "Topology"
    BY <1>1
  <2> QED
    BY <2>1 DEF Kept
<1> QED
  BY <1>14, <1>15, <1>16, <1>17 DEF Survives

LEMMA TolerationArgsSurvive ==
  ASSUME NEW in \in PreemptionTolerationArgs
  PROVE  Survives(in, To_config(RegisterDefaults(in)))
<1>1. /\ in = [kind |-> "Toleration", percentage |-> in.percentage, absolute |-> in.absolute]
      /\ in.percentage \in Pointers(Int) /\ in.absolute \in Pointers(Int)
  BY DEF PreemptionTolerationArgs
<1>2. PICK p, a : p = Deref(IfNil(in.percentage, 10), 0) /\ a = Deref(IfNil(in.absolute, 100), 0)
  OBVIOUS
<1>3. PICK args : args = [kind |-> "Toleration", percentage |-> p, absolute |-> a]
  OBVIOUS
<1>4. To_config(RegisterDefaults(in)) = args
  BY <1>1, <1>2, <1>3, TolerationDecoded
<1>5. /\ p = (IF in.percentage = Nil THEN 10 ELSE in.percentage[1])
      /\ a = (IF in.absolute = Nil THEN 100 ELSE in.absolute[1])
  BY <1>2, PointerDefaults
<1>6. p \in Int /\ a \in Int
  <2>1. /\ in.percentage # Nil => in.percentage[1] \in Int
        /\ in.absolute # Nil => in.absolute[1] \in Int
    BY <1>1, PointerCases
  <2> QED
    BY <1>5, <2>1
<1>7. To_config(RegisterDefaults(config_To(args))) = args
  <2>1. PICK x : x = [kind |-> "Toleration", percentage |-> Ref(p), absolute |-> Ref(a)]
    OBVIOUS
  <2>2. config_To(args) = x
    BY <1>3, <2>1, TolerationDecoded
  <2>3. To_config(RegisterDefaults(x)) =
          [kind |-> "Toleration", percentage |-> Deref(IfNil(Ref(p), 10), 0),
           absolute |-> Deref(IfNil(Ref(a), 100), 0)]
    BY <2>1, TolerationDecoded
  <2> QED
    BY <1>3, <2>2, <2>3, RefGiven
<1>8. in.kind = "Toleration" /\ args.kind = "Toleration" /\ args.percentage = p /\ args.absolute = a
  BY <1>1, <1>3
<1>9. NewPlugin(args) <=> p \in 0 .. 100 /\ a >= 0 /\ (p # 0 \/ a # 0)
  <2>1. NewPlugin(args) <=> ValidateDefaultPreemptionArgs(args)
    BY <1>8, TolerationKind
  <2> QED
    BY <1>8, <2>1 DEF ValidateDefaultPreemptionArgs
<1>10. NewPlugin(args) <=> ~Refused(in)
  <2>1. Refused(in) <=>
          \/ in.percentage # Nil /\ (in.percentage[1] < 0 \/ in.percentage[1] > 100)
          \/ in.absolute # Nil /\ in.absolute[1] < 0
          \/ /\ in.percentage # Nil /\ in.percentage[1] = 0
             /\ in.absolute # Nil /\ in.absolute[1] = 0
    BY <1>8, TolerationKind
  <2> QED
    BY <1>5, <1>6, <1>9, <2>1
<1>11. Kept(in, args)
  <2>1. DOMAIN in = {"kind", "percentage", "absolute"}
    BY <1>1
  <2> QED
    BY <1>5, <1>8, <2>1 DEF Kept
<1>12. NewPlugin(args) => \A n \in NodeCounts : calculateNumCandidates(args, n) \in 0 .. n
  <2>1. p \in 0 .. 100 /\ a >= 0 => args.percentage \in 0 .. 100 /\ args.absolute \in Nat
    BY <1>6, <1>8
  <2>2. args.percentage \in 0 .. 100 /\ args.absolute \in Nat =>
          \A n \in NodeCounts : calculateNumCandidates(args, n) \in 0 .. n
    BY CandidatesCounted
  <2> QED
    BY <1>9, <2>1, <2>2
<1> QED
  BY <1>4, <1>7, <1>10, <1>11, <1>12 DEF Survives

(* DecodeArgs: for every configuration of the external types, a plugin     *)
(* refuses its arguments only for a choice of the user, gets what the user *)
(* has given, and finds the same arguments when they are written out and   *)
(* read again.                                                             *)
THEOREM ArgumentsSurvive == Spec => []ArgsSurvive
<1>1. Init => ArgsSurvive
  BY DEF Init, NoCall, ArgsSurvive
<1>2. ArgsSurvive /\ [Next]_call => ArgsSurvive'
  <2> SUFFICES ASSUME ArgsSurvive, [Next]_call, call'.op = "args" PROVE ArgsSurvive'
    BY DEF ArgsSurvive
  <2>1. CASE UNCHANGED call
    BY <2>1 DEF ArgsSurvive
  <2>2. CASE DecodeArgs
    <3>1. PICK in \in ArgsInputs, version \in {"v1beta2", "v1beta3"} :
            call' = [op |-> "args", in |-> in, out |-> Decode(version, in)]
      BY <2>2 DEF DecodeArgs, Called
    <3>2. PICK args : args = To_config(RegisterDefaults(in))
      OBVIOUS
    <3>3. call'.in = in /\ call'.out = args
      BY <3>1, <3>2 DEF Decode, To_config_v1beta3, RegisterDefaults_v1beta3
    <3>4. Survives(in, args)
      <4>1. in \in CoschedulingArgs => Survives(in, args)
        BY <3>2, CoschedulingArgsSurvive
      <4>2. in \in NodeResourcesAllocatableArgs => Survives(in, args)
        BY <3>2, AllocatableArgsSurvive
      <4>3. in \in TargetLoadPackingArgs => Survives(in, args)
        BY <3>2, TargetLoadPackingArgsSurvive
      <4>4. in \in LoadVariationRiskBalancingArgs => Survives(in, args)
        BY <3>2, LoadVariationArgsSurvive
      <4>5. in \in NodeResourceTopologyMatchArgs => Survives(in, args)
        BY <3>2, TopologyArgsSurvive
      <4>6. in \in PreemptionTolerationArgs => Survives(in, args)
        BY <3>2, TolerationArgsSurvive
      <4> QED
        BY <4>1, <4>2, <4>3, <4>4, <4>5, <4>6, ArgsAssumption
    <3>5. \A v \in {"v1beta2", "v1beta3"} : Decode(v, Encode(v, args)) = args
      BY <3>4 DEF Survives, Decode, Encode, To_config_v1beta3, RegisterDefaults_v1beta3,
                  config_To_v1beta3
    <3> QED
      BY <3>3, <3>4, <3>5 DEF ArgsSurvive, Survives
  <2> QED
    BY <2>1, <2>2, Returns DEF OnlyBy
<1> QED
  BY <1>1, <1>2, PTL DEF Spec

----------------------------------------------------------------------------
(* Preemption: sequences of pods.                                          *)

LEMMA AppendedSet ==
  ASSUME NEW S, NEW s \in Seq(S), NEW x \in S
  PROVE  Append(s, x) \in Seq(S) /\ ToSet(Append(s, x)) = ToSet(s) \cup {x}
<1>1. PICK t : t = Append(s, x)
  OBVIOUS
<1>2. /\ t \in Seq(S) /\ Len(t) = Len(s) + 1 /\ Len(s) \in Nat
      /\ \A i \in 1 .. Len(s) : t[i] = s[i]
      /\ t[Len(s) + 1] = x
  BY <1>1, AppendProperties, LenProperties
<1>3. DOMAIN t = 1 .. Len(s) + 1 /\ DOMAIN s = 1 .. Len(s)
  BY <1>2, LenProperties
<1>4. ToSet(t) = {t[i] : i \in 1 .. Len(s) + 1} /\ ToSet(s) = {s[i] : i \in 1 .. Len(s)}
  BY <1>3 DEF ToSet
<1>5. ASSUME NEW e \in ToSet(t) PROVE e \in ToSet(s) \cup {x}
  <2>1. PICK i \in 1 .. Len(s) + 1 : e = t[i]
    BY <1>4, <1>5
  <2>2. i \in 1 .. Len(s) \/ i = Len(s) + 1
    BY <1>2
  <2> QED
    BY <1>2, <1>4, <2>1, <2>2
<1>6. ASSUME NEW e \in ToSet(s) PROVE e \in ToSet(t)
  <2>1. PICK i \in 1 .. Len(s) : e = s[i]
    BY <1>4, <1>6
  <2>2. i \in 1 .. Len(s) + 1 /\ e = t[i]
    BY <1>2, <2>1
  <2> QED
    BY <1>4, <2>2
<1>7. x \in ToSet(t)
  <2>1. Len(s) + 1 \in 1 .. Len(s) + 1
    BY <1>2
  <2> QED
    BY <1>2, <1>4, <2>1
<1> QED
  BY <1>1, <1>2, <1>5, <1>6, <1>7

LEMMA ConcatenatedSet ==
  ASSUME NEW S, NEW s \in Seq(S), NEW t \in Seq(S)
  PROVE  s \o t \in Seq(S) /\ ToSet(s \o t) = ToSet(s) \cup ToSet(t)
<1>1. PICK u : u = s \o t
  OBVIOUS
<1>2. PICK l \in Nat, m \in Nat : l = Len(s) /\ m = Len(t)
  BY LenProperties
<1>3. /\ u \in Seq(S) /\ Len(u) = l + m
      /\ \A i \in 1 .. l + m : u[i] = IF i <= l THEN s[i] ELSE t[i - l]
  BY <1>1, <1>2, ConcatProperties
<1>4. DOMAIN u = 1 .. l + m /\ DOMAIN s = 1 .. l /\ DOMAIN t = 1 .. m
  BY <1>2, <1>3, LenProperties
<1>5. /\ ToSet(u) = {u[i] : i \in 1 .. l + m}
      /\ ToSet(s) = {s[i] : i \in 1 .. l} /\ ToSet(t) = {t[i] : i \in 1 .. m}
  BY <1>4 DEF ToSet
<1>6. ASSUME NEW e \in ToSet(u) PROVE e \in ToSet(s) \cup ToSet(t)
  <2>1. PICK i \in 1 .. l + m : e = u[i]
    BY <1>5, <1>6
  <2>2. CASE i <= l
    <3>1. i \in 1 .. l /\ e = s[i]
      BY <1>3, <2>1, <2>2
    <3> QED
      BY <1>5, <3>1
  <2>3. CASE ~(i <= l)
    <3>1. i - l \in 1 .. m
      BY <2>1, <2>3
    <3>2. e = t[i - l]
      BY <1>3, <2>1, <2>3, Zenon
    <3> QED
      BY <1>5, <3>1, <3>2
  <2> QED
    BY <2>2, <2>3
<1>7. ASSUME NEW e \in ToSet(s) PROVE e \in ToSet(u)
  <2>1. PICK i \in 1 .. l : e = s[i]
    BY <1>5, <1>7
  <2>2. i \in 1 .. l + m /\ e = u[i]
    BY <1>3, <2>1
  <2> QED
    BY <1>5, <2>2
<1>8. ASSUME NEW e \in ToSet(t) PROVE e \in ToSet(u)
  <2>1. PICK i \in 1 .. m : e = t[i]
    BY <1>5, <1>8
  <2>2. i + l \in 1 .. l + m /\ ~(i + l <= l) /\ (i + l) - l = i
    BY <2>1
  <2>3. e = u[i + l]
    BY <1>3, <2>1, <2>2
  <2> QED
    BY <1>5, <2>2, <2>3
<1> QED
  BY <1>1, <1>3, <1>6, <1>7, <1>8

LEMMA SequenceFinite ==
  ASSUME NEW S, NEW s \in Seq(S)
  PROVE  IsFiniteSet(ToSet(s)) /\ ToSet(s) \subseteq S
<1>1. Len(s) \in Nat /\ DOMAIN s = 1 .. Len(s) /\ s \in [1 .. Len(s) -> S]
  BY LenProperties
<1>2. IsFiniteSet(1 .. Len(s))
  BY <1>1, FS_Interval
<1>3. s \in [1 .. Len(s) -> ToSet(s)] /\ \A e \in ToSet(s) : \E i \in 1 .. Len(s) : s[i] = e
  BY <1>1 DEF ToSet
<1>4. s \in Surjection(1 .. Len(s), ToSet(s))
  BY <1>3 DEF Surjection
<1> QED
  BY <1>1, <1>2, <1>4, FS_Surjection DEF ToSet

(* The place of a pod in the sorted sequence is a permutation.             *)
LEMMA PlacesDiffer ==
  ASSUME NEW S, NEW s \in Seq(S), \A p \in S : p.prio \in Int /\ p.start \in Int
  PROVE  /\ \A i \in DOMAIN s : Place(s, i) \in DOMAIN s
         /\ \A i, j \in DOMAIN s : Place(s, i) = Place(s, j) => i = j
         /\ \A k \in DOMAIN s : \E i \in DOMAIN s : Place(s, i) = k
<1>1. PICK n \in Nat : n = Len(s)
  BY LenProperties
<1>2. DOMAIN s = 1 .. n /\ IsFiniteSet(1 .. n) /\ Cardinality(1 .. n) = n
  <2>1. DOMAIN s = 1 .. n
    BY <1>1, LenProperties
  <2> QED
    BY <2>1, FS_Interval
<1>3. \A i \in 1 .. n : s[i].prio \in Int /\ s[i].start \in Int
  BY <1>1, ElementOfSeq
<1> DEFINE Pred(i) == {j \in 1 .. n : Before(s, j, i)}
<1>4. ASSUME NEW i \in 1 .. n
      PROVE  /\ IsFiniteSet(Pred(i)) /\ i \notin Pred(i)
             /\ Place(s, i) = Cardinality(Pred(i)) + 1 /\ Cardinality(Pred(i)) \in Nat
  <2>1. IsFiniteSet(Pred(i)) /\ Cardinality(Pred(i)) \in Nat
    <3>1. Pred(i) \in SUBSET (1 .. n)
      OBVIOUS
    <3> QED
      BY <1>2, <3>1, FS_Subset, FS_CardinalityType
  <2>2. i \notin Pred(i)
    BY <1>3 DEF Before, MoreImportantPod
  <2>3. Place(s, i) = Cardinality(Pred(i)) + 1
    BY <1>2 DEF Place
  <2> QED
    BY <2>1, <2>2, <2>3
<1>5. ASSUME NEW i \in 1 .. n, NEW j \in 1 .. n, Before(s, i, j)
      PROVE  Cardinality(Pred(i)) < Cardinality(Pred(j))
  <2>1. ASSUME NEW k \in Pred(i) PROVE k \in Pred(j)
    BY <1>3, <1>5, <2>1 DEF Before, MoreImportantPod
  <2>2. Pred(i) \cup {i} \in SUBSET Pred(j)
    BY <1>5, <2>1
  <2>3. Cardinality(Pred(i) \cup {i}) = Cardinality(Pred(i)) + 1
    BY <1>4, FS_AddElement
  <2>4. Cardinality(Pred(i) \cup {i}) <= Cardinality(Pred(j))
    BY <1>4, <2>2, FS_Subset
  <2>5. Cardinality(Pred(i)) \in Nat /\ Cardinality(Pred(j)) \in Nat
    BY <1>4
  <2> HIDE DEF Pred
  <2> QED
    BY <2>3, <2>4, <2>5
<1>6. ASSUME NEW i \in 1 .. n, NEW j \in 1 .. n, Place(s, i) = Place(s, j)
      PROVE  i = j
  <2>1. i # j => Before(s, i, j) \/ Before(s, j, i)
    BY <1>3 DEF Before, MoreImportantPod
  <2>2. /\ Place(s, i) = Cardinality(Pred(i)) + 1 /\ Cardinality(Pred(i)) \in Nat
        /\ Place(s, j) = Cardinality(Pred(j)) + 1 /\ Cardinality(Pred(j)) \in Nat
    BY <1>4
  <2> HIDE DEF Pred
  <2>3. Cardinality(Pred(i)) = Cardinality(Pred(j))
    <3>1. PICK c, d : c = Cardinality(Pred(i)) /\ d = Cardinality(Pred(j))
      OBVIOUS
    <3>2. c \in Nat /\ d \in Nat /\ c + 1 = d + 1
      BY <1>6, <2>2, <3>1, Zenon
    <3> QED
      BY <3>1, <3>2
  <2>4. /\ Before(s, i, j) => Cardinality(Pred(i)) < Cardinality(Pred(j))
        /\ Before(s, j, i) => Cardinality(Pred(j)) < Cardinality(Pred(i))
    BY <1>5
  <2> QED
    BY <2>1, <2>2, <2>3, <2>4
<1>7. ASSUME NEW i \in 1 .. n PROVE Place(s, i) \in 1 .. n
  <2>1. Pred(i) \in SUBSET ((1 .. n) \ {i})
    BY <1>4
  <2>2. IsFiniteSet((1 .. n) \ {i}) /\ Cardinality((1 .. n) \ {i}) = n - 1
    BY <1>2, FS_RemoveElement
  <2>3. Cardinality(Pred(i)) <= n - 1
    BY <2>1, <2>2, FS_Subset
  <2> HIDE DEF Pred
  <2> QED
    BY <1>4, <2>3
<1> DEFINE f == [i \in 1 .. n |-> Place(s, i)]
<1>8. f \in [1 .. n -> 1 .. n] /\ \A i, j \in 1 .. n : f[i] = f[j] => i = j
  BY <1>6, <1>7
<1> HIDE DEF f
<1>9. f \in Injection(1 .. n, 1 .. n)
  BY <1>8 DEF Injection, IsInjective
<1>10. f \in Surjection(1 .. n, 1 .. n)
  BY <1>2, <1>9, FS_Injection
<1>11. \A k \in 1 .. n : \E i \in 1 .. n : f[i] = k
  BY <1>10 DEF Surjection
<1> QED
  BY <1>2, <1>6, <1>7, <1>11 DEF f

LEMMA SortedSet ==
  ASSUME NEW S, NEW s \in Seq(S), \A p \in S : p.prio \in Int /\ p.start \in Int
  PROVE  /\ MostImportantFirst(s) \in Seq(S) /\ ToSet(MostImportantFirst(s)) = ToSet(s)
         /\ LeastImportantFirst(s) \in Seq(S) /\ ToSet(LeastImportantFirst(s)) = ToSet(s)
         /\ Len(LeastImportantFirst(s)) = Len(s)
<1>1. PICK n \in Nat : n = Len(s) /\ DOMAIN s = 1 .. n /\ s \in [1 .. n -> S]
  BY LenProperties
<1> DEFINE At(k) == CHOOSE i \in 1 .. n : Place(s, i) = k
<1>2. PICK t : t = MostImportantFirst(s)
  OBVIOUS
<1>3. t = [k \in 1 .. n |-> s[At(k)]]
  BY <1>1, <1>2 DEF MostImportantFirst, Ranked
<1>4. ASSUME NEW k \in 1 .. n PROVE At(k) \in 1 .. n /\ Place(s, At(k)) = k
  BY <1>1, PlacesDiffer
<1>5. ASSUME NEW i \in 1 .. n PROVE Place(s, i) \in 1 .. n /\ At(Place(s, i)) = i
  <2>1. Place(s, i) \in 1 .. n
    BY <1>1, PlacesDiffer
  <2>2. At(Place(s, i)) \in 1 .. n /\ Place(s, At(Place(s, i))) = Place(s, i)
    BY <1>4, <2>1
  <2> HIDE DEF At
  <2> QED
    BY <1>1, <2>1, <2>2, PlacesDiffer
<1> HIDE DEF At
<1>6. t \in [1 .. n -> S] /\ t \in Seq(S) /\ Len(t) = n /\ DOMAIN t = 1 .. n
  <2>1. t \in [1 .. n -> S]
    BY <1>1, <1>3, <1>4
  <2> QED
    BY <2>1
<1>7. ToSet(t) = {t[k] : k \in 1 .. n} /\ ToSet(s) = {s[k] : k \in 1 .. n}
  BY <1>1, <1>6 DEF ToSet
<1>8. ToSet(t) = ToSet(s)
  <2>1. ASSUME NEW k \in 1 .. n PROVE t[k] \in ToSet(s)
    BY <1>3, <1>4, <1>7
  <2>2. ASSUME NEW i \in 1 .. n PROVE s[i] \in ToSet(t)
    <3>1. t[Place(s, i)] = s[i]
      BY <1>3, <1>5
    <3> QED
      BY <1>5, <1>7, <3>1
  <2> QED
    BY <1>7, <2>1, <2>2
<1>9. PICK u : u = LeastImportantFirst(s)
  OBVIOUS
<1>10. \A k \in 1 .. n : (n - k) + 1 \in 1 .. n /\ n - ((n - k) + 1) + 1 = k
  BY <1>1
<1>11. u = [k \in 1 .. n |-> t[(n - k) + 1]]
  <2>1. u = [k \in 1 .. n |-> s[At((n - k) + 1)]]
    BY <1>1, <1>9 DEF LeastImportantFirst, Ranked, At
  <2>2. \A k \in 1 .. n : t[(n - k) + 1] = s[At((n - k) + 1)]
    BY <1>3, <1>10
  <2> QED
    BY <2>1, <2>2
<1>12. u \in [1 .. n -> S] /\ u \in Seq(S) /\ Len(u) = n /\ DOMAIN u = 1 .. n
  <2>1. u \in [1 .. n -> S]
    BY <1>6, <1>10, <1>11
  <2> QED
    BY <2>1
<1>13. ToSet(u) = {u[k] : k \in 1 .. n}
  BY <1>12 DEF ToSet
<1>14. ToSet(u) = ToSet(t)
  <2>1. ASSUME NEW k \in 1 .. n PROVE u[k] \in ToSet(t)
    BY <1>7, <1>10, <1>11
  <2>2. ASSUME NEW k \in 1 .. n PROVE t[k] \in ToSet(u)
    <3>1. u[(n - k) + 1] = t[k]
      BY <1>10, <1>11
    <3> QED
      BY <1>11, <1>13, <3>1
  <2> QED
    BY <1>7, <1>13, <2>1, <2>2
<1> QED
  BY <1>1, <1>2, <1>6, <1>8, <1>9, <1>12, <1>14

----------------------------------------------------------------------------
(* Preemption: requests, the filters and the quotas.                       *)

(* Pods whose requests are not negative.                                   *)
Requesting(U) == IsFiniteSet(U) /\ \A p \in U : computePodResourceRequest(p) \in [Res -> Nat]

Part(U, r) == [p \in U |-> computePodResourceRequest(p)[r]]

LEMMA RequestedSum ==
  ASSUME NEW U, Requesting(U), NEW T \in SUBSET U, NEW r \in Res
  PROVE  /\ Part(U, r) \in [U -> Nat]
         /\ Requested(T)[r] = SumOver(Part(U, r), T)
         /\ Requested(T)[r] \in Nat
<1>1. Part(U, r) \in [U -> Nat]
  BY DEF Requesting, Part
<1>2. Requested(T)[r] = SumOver([p \in T |-> computePodResourceRequest(p)[r]], T)
  BY DEF Requested
<1>3. PICK f, g : f = [p \in T |-> computePodResourceRequest(p)[r]] /\ g = Part(U, r)
  OBVIOUS
<1>4. \A p \in T : f[p] = g[p]
  BY <1>3 DEF Part
<1>5. SumOver(f, T) = SumOver(g, T)
  BY <1>4, SumOverSame
<1>6. SumOver(Part(U, r), T) \in Nat
  BY <1>1, UnitsFinite DEF Requesting
<1> QED
  BY <1>1, <1>2, <1>3, <1>5, <1>6

LEMMA RequestedType ==
  ASSUME NEW U, Requesting(U), NEW T \in SUBSET U
  PROVE  Requested(T) \in [Res -> Nat]
<1>1. \A r \in Res : Requested(T)[r] \in Nat
  BY RequestedSum
<1>2. Requested(T) = [r \in Res |-> Requested(T)[r]]
  BY DEF Requested
<1> QED
  BY <1>1, <1>2

LEMMA RequestedGrows ==
  ASSUME NEW U, Requesting(U), NEW T \in SUBSET U, NEW V \in SUBSET T, NEW r \in Res
  PROVE  Requested(V)[r] <= Requested(T)[r]
<1>1. V \in SUBSET U
  OBVIOUS
<1>2. SumOver(Part(U, r), V) <= SumOver(Part(U, r), T)
  BY RequestedSum, SumOverMonotone DEF Requesting
<1> QED
  BY <1>1, <1>2, RequestedSum

LEMMA RequestedNew ==
  ASSUME NEW U, Requesting(U), NEW T \in SUBSET U, NEW p \in U \ T
  PROVE  Requested(T \cup {p}) = Plus(Requested(T), computePodResourceRequest(p))
<1>1. T \cup {p} \in SUBSET U
  OBVIOUS
<1>2. ASSUME NEW r \in Res
      PROVE  Requested(T \cup {p})[r] = Requested(T)[r] + computePodResourceRequest(p)[r]
  <2>1. SumOver(Part(U, r), T \cup {p}) = SumOver(Part(U, r), T) + Part(U, r)[p]
    <3>1. Part(U, r) \in [U -> Nat] /\ IsFiniteSet(U) /\ p \in U /\ p \notin T
      BY RequestedSum DEF Requesting
    <3> QED
      BY <3>1, SumOverNew
  <2>2. Part(U, r)[p] = computePodResourceRequest(p)[r]
    BY DEF Part
  <2> QED
    BY <1>1, <2>1, <2>2, RequestedSum
<1>3. Requested(T \cup {p}) = [r \in Res |-> Requested(T \cup {p})[r]]
  BY DEF Requested
<1> QED
  BY <1>2, <1>3 DEF Plus

LEMMA RequestedLess ==
  ASSUME NEW U, Requesting(U), NEW T \in SUBSET U, NEW p \in T
  PROVE  Requested(T \ {p}) = Minus(Requested(T), computePodResourceRequest(p))
<1>1. PICK V : V = T \ {p}
  OBVIOUS
<1>2. V \in SUBSET U /\ p \in U \ V /\ V \cup {p} = T
  BY <1>1
<1>3. Requested(T) = Plus(Requested(V), computePodResourceRequest(p))
  BY <1>2, RequestedNew
<1>4. Requested(V) \in [Res -> Nat] /\ computePodResourceRequest(p) \in [Res -> Nat]
  BY <1>2, RequestedType DEF Requesting
<1>5. PICK x, y : x = Requested(V) /\ y = computePodResourceRequest(p)
  OBVIOUS
<1>6. Minus(Plus(x, y), y) = x
  BY <1>4, <1>5 DEF Plus, Minus
<1> QED
  BY <1>1, <1>3, <1>5, <1>6

(* With more pods on the node a pod does not fit any better.               *)
LEMMA FiltersMonotone ==
  ASSUME NEW U, Requesting(U), NEW pod \in U, NEW nominated \in SUBSET U,
         NEW T \in SUBSET U, NEW V \in SUBSET T, NEW capacity \in [Res -> Nat],
         RunFilterPlugins(pod, T, nominated, capacity)
  PROVE  RunFilterPlugins(pod, V, nominated, capacity)
<1>1. PICK beside : beside = {p \in nominated : p.uid # pod.uid /\ p.prio >= pod.prio}
  OBVIOUS
<1>2. PICK A, B : A = V \cup beside \cup {pod} /\ B = T \cup beside \cup {pod}
  OBVIOUS
<1>3. B \in SUBSET U /\ A \in SUBSET B /\ A \in SUBSET U
  BY <1>1, <1>2
<1>4. AtMost(Requested(B), capacity)
  BY <1>1, <1>2 DEF RunFilterPlugins
<1>5. ASSUME NEW r \in Res PROVE Requested(A)[r] <= capacity[r]
  <2>1. Requested(B)[r] <= capacity[r]
    BY <1>4 DEF AtMost
  <2>2. Requested(A)[r] <= Requested(B)[r]
    BY <1>3, RequestedGrows
  <2>3. Requested(A)[r] \in Nat /\ Requested(B)[r] \in Nat /\ capacity[r] \in Nat
    BY <1>3, RequestedSum
  <2> QED
    BY <2>1, <2>2, <2>3
<1>6. AtMost(Requested(A), capacity)
  BY <1>5 DEF AtMost
<1> QED
  BY <1>1, <1>2, <1>6 DEF RunFilterPlugins

(* More is over a limit whenever less is.                                  *)
LEMMA OverMonotone ==
  ASSUME NEW x1 \in [Res -> Nat], NEW x2 \in [Res -> Nat], NEW z1 \in [Res -> Nat],
         NEW z2 \in [Res -> Nat], NEW y \in [Res -> Nat],
         \A r \in Res : x1[r] <= z1[r] /\ x2[r] <= z2[r], cmp2(x1, x2, y)
  PROVE  cmp2(z1, z2, y)
<1>1. PICK r \in Res : (r \in Scalars => x1[r] # 0) /\ x1[r] + x2[r] > y[r]
  BY DEF cmp2
<1>2. x1[r] \in Nat /\ x2[r] \in Nat /\ z1[r] \in Nat /\ z2[r] \in Nat /\ y[r] \in Nat
  OBVIOUS
<1>3. x1[r] <= z1[r] /\ x2[r] <= z2[r]
  OBVIOUS
<1>4. (r \in Scalars => z1[r] # 0) /\ z1[r] + z2[r] > y[r]
  BY <1>1, <1>2, <1>3
<1> QED
  BY <1>4 DEF cmp2

(* The pods of a namespace among others.                                   *)
In(ns, T) == {p \in T : p.ns = ns}

(* The info of a quota in which the pods A are counted.                    *)
InfoOf(quota, A) ==
  [min |-> quota.min, max |-> quota.max, used |-> Requested(A), pods |-> {p.uid : p \in A}]

LEMMA CountedInfo ==
  ASSUME NEW quotas, NEW T
  PROVE  /\ Counted(quotas, T) = [ns \in DOMAIN quotas |-> InfoOf(quotas[ns], In(ns, T))]
         /\ DOMAIN Counted(quotas, T) = DOMAIN quotas
         /\ \A ns \in DOMAIN quotas : Counted(quotas, T)[ns] = InfoOf(quotas[ns], In(ns, T))
  BY DEF Counted, In, InfoOf

LEMMA CountedFields ==
  ASSUME NEW quotas, NEW T, NEW ns \in DOMAIN quotas
  PROVE  /\ Counted(quotas, T)[ns].min = quotas[ns].min
         /\ Counted(quotas, T)[ns].max = quotas[ns].max
         /\ Counted(quotas, T)[ns].used = Requested(In(ns, T))
         /\ Counted(quotas, T)[ns].pods = {p.uid : p \in In(ns, T)}
<1>1. PICK i : i = Counted(quotas, T)[ns]
  OBVIOUS
<1>2. i = [min |-> quotas[ns].min, max |-> quotas[ns].max, used |-> Requested(In(ns, T)),
           pods |-> {p.uid : p \in In(ns, T)}]
  BY <1>1, CountedInfo DEF InfoOf
<1> QED
  BY <1>1, <1>2

(* The two counts differ in one namespace at most.                         *)
SameElsewhere(quotas, T, V, n) == \A ns \in DOMAIN quotas \ {n} : In(ns, T) = In(ns, V)

Put(infos, n, info) == [infos EXCEPT ![n] = info]

LEMMA CountedElsewhere ==
  ASSUME NEW quotas, NEW T, NEW V, NEW n, SameElsewhere(quotas, T, V, n)
  PROVE  /\ n \in DOMAIN quotas =>
              Put(Counted(quotas, T), n, InfoOf(quotas[n], In(n, V))) = Counted(quotas, V)
         /\ n \notin DOMAIN quotas => Counted(quotas, T) = Counted(quotas, V)
<1>1. PICK c, d : c = Counted(quotas, T) /\ d = Counted(quotas, V)
  OBVIOUS
<1>2. /\ c = [ns \in DOMAIN quotas |-> InfoOf(quotas[ns], In(ns, T))]
      /\ d = [ns \in DOMAIN quotas |-> InfoOf(quotas[ns], In(ns, V))]
  BY <1>1, CountedInfo
<1>3. \A ns \in DOMAIN quotas \ {n} : c[ns] = d[ns]
  BY <1>2 DEF SameElsewhere
<1>4. /\ DOMAIN c = DOMAIN quotas /\ DOMAIN d = DOMAIN quotas
      /\ c = [ns \in DOMAIN quotas |-> c[ns]] /\ d = [ns \in DOMAIN quotas |-> d[ns]]
      /\ n \in DOMAIN quotas => d[n] = InfoOf(quotas[n], In(n, V))
  BY <1>2
<1>5. PICK info : info = InfoOf(quotas[n], In(n, V))
  OBVIOUS
<1>6. n \in DOMAIN quotas => [c EXCEPT ![n] = info] = d
  BY <1>3, <1>4, <1>5
<1>7. n \notin DOMAIN quotas => c = d
  BY <1>3, <1>4
<1> QED
  BY <1>1, <1>5, <1>6, <1>7 DEF Put

(* An info with another use.                                               *)
InUse(info, uids, used) == [info EXCEPT !.pods = uids, !.used = used]

Uids(A) == {p.uid : p \in A}

LEMMA InfoUpdated ==
  ASSUME NEW quota, NEW A, NEW B
  PROVE  InUse(InfoOf(quota, A), Uids(B), Requested(B)) = InfoOf(quota, B)
<1>1. PICK i, x, y : i = InfoOf(quota, A) /\ x = {p.uid : p \in B} /\ y = Requested(B)
  OBVIOUS
<1>2. PICK j : j = [i EXCEPT !.pods = x, !.used = y]
  OBVIOUS
<1>3. i = [f \in {"min", "max", "used", "pods"} |-> i[f]] /\ i.min = quota.min /\ i.max = quota.max
  BY <1>1 DEF InfoOf
<1>4. j = [f \in {"min", "max", "used", "pods"} |-> j[f]]
  BY <1>2, <1>3
<1>5. j.min = quota.min /\ j.max = quota.max /\ j.used = y /\ j.pods = x
  BY <1>2, <1>3
<1>6. j = [min |-> quota.min, max |-> quota.max, used |-> y, pods |-> x]
  BY <1>4, <1>5
<1> QED
  BY <1>1, <1>2, <1>6 DEF InfoOf, InUse, Uids

(* Pods with different uids.                                               *)
Distinct(U) == \A p, q \in U : p.uid = q.uid => p = q

LEMMA InfoAdds ==
  ASSUME NEW quota, NEW U, Requesting(U), Distinct(U), NEW A \in SUBSET U, NEW p \in U
  PROVE  addPodIfNotPresent(InfoOf(quota, A), p) = InfoOf(quota, A \cup {p})
<1>1. PICK i, B : i = InfoOf(quota, A) /\ B = A \cup {p}
  OBVIOUS
<1>2. i.pods = Uids(A) /\ i.used = Requested(A)
  BY <1>1 DEF InfoOf, Uids
<1>3. CASE p \in A
  <2>1. p.uid \in i.pods /\ B = A
    BY <1>1, <1>2, <1>3 DEF Uids
  <2> QED
    BY <1>1, <2>1 DEF addPodIfNotPresent
<1>4. CASE p \notin A
  <2>1. p.uid \notin i.pods
    BY <1>2, <1>4 DEF Uids, Distinct
  <2>2. i.pods \cup {p.uid} = Uids(B)
    BY <1>1, <1>2 DEF Uids
  <2>3. Plus(i.used, computePodResourceRequest(p)) = Requested(B)
    BY <1>1, <1>2, <1>4, RequestedNew
  <2>4. addPodIfNotPresent(i, p) = InUse(i, Uids(B), Requested(B))
    BY <2>1, <2>2, <2>3 DEF addPodIfNotPresent, InUse
  <2>5. InUse(i, Uids(B), Requested(B)) = InfoOf(quota, B)
    BY <1>1, InfoUpdated
  <2> QED
    BY <1>1, <2>4, <2>5
<1> QED
  BY <1>3, <1>4

LEMMA InfoLoses ==
  ASSUME NEW quota, NEW U, Requesting(U), Distinct(U), NEW A \in SUBSET U, NEW p \in U
  PROVE  deletePodIfPresent(InfoOf(quota, A), p) = InfoOf(quota, A \ {p})
<1>1. PICK i, B : i = InfoOf(quota, A) /\ B = A \ {p}
  OBVIOUS
<1>2. i.pods = Uids(A) /\ i.used = Requested(A)
  BY <1>1 DEF InfoOf, Uids
<1>3. CASE p \notin A
  <2>1. p.uid \notin i.pods /\ B = A
    BY <1>1, <1>2, <1>3 DEF Uids, Distinct
  <2> QED
    BY <1>1, <2>1 DEF deletePodIfPresent
<1>4. CASE p \in A
  <2>1. p.uid \in i.pods
    BY <1>2, <1>4 DEF Uids
  <2>2. i.pods \ {p.uid} = Uids(B)
    BY <1>1, <1>2 DEF Uids, Distinct
  <2>3. Minus(i.used, computePodResourceRequest(p)) = Requested(B)
    BY <1>1, <1>2, <1>4, RequestedLess
  <2>4. deletePodIfPresent(i, p) = InUse(i, Uids(B), Requested(B))
    BY <2>1, <2>2, <2>3 DEF deletePodIfPresent, InUse
  <2>5. InUse(i, Uids(B), Requested(B)) = InfoOf(quota, B)
    BY <1>1, InfoUpdated
  <2> QED
    BY <1>1, <2>4, <2>5
<1> QED
  BY <1>3, <1>4

LEMMA CountingAdds ==
  ASSUME NEW quotas, NEW U, Requesting(U), Distinct(U), NEW T \in SUBSET U, NEW p \in U
  PROVE  CountPod(Counted(quotas, T), p) = Counted(quotas, T \cup {p})
<1>1. PICK n, V, A, c : n = p.ns /\ V = T \cup {p} /\ A = In(n, T) /\ c = Counted(quotas, T)
  OBVIOUS
<1>2. DOMAIN c = DOMAIN quotas
  BY <1>1, CountedInfo
<1>3. SameElsewhere(quotas, T, V, n)
  BY <1>1 DEF In, SameElsewhere
<1>4. CASE n \notin DOMAIN quotas
  <2>1. CountPod(c, p) = c
    BY <1>1, <1>2, <1>4 DEF CountPod
  <2>2. Counted(quotas, T) = Counted(quotas, V)
    BY <1>3, <1>4, CountedElsewhere
  <2> QED
    BY <1>1, <2>1, <2>2
<1>5. CASE n \in DOMAIN quotas
  <2>1. In(n, V) = A \cup {p} /\ A \in SUBSET U
    BY <1>1 DEF In
  <2>2. c[n] = InfoOf(quotas[n], A)
    BY <1>1, <1>5, CountedInfo
  <2>3. addPodIfNotPresent(InfoOf(quotas[n], A), p) = InfoOf(quotas[n], A \cup {p})
    BY <2>1, InfoAdds
  <2>4. CountPod(c, p) = Put(c, n, InfoOf(quotas[n], In(n, V)))
    BY <1>1, <1>2, <1>5, <2>1, <2>2, <2>3 DEF CountPod, Put
  <2>5. Put(Counted(quotas, T), n, InfoOf(quotas[n], In(n, V))) = Counted(quotas, V)
    BY <1>3, <1>5, CountedElsewhere
  <2> QED
    BY <1>1, <2>4, <2>5
<1> QED
  BY <1>4, <1>5

LEMMA UncountingRemoves ==
  ASSUME NEW quotas, NEW U, Requesting(U), Distinct(U), NEW T \in SUBSET U, NEW p \in U
  PROVE  UncountPod(Counted(quotas, T), p) = Counted(quotas, T \ {p})
<1>1. PICK n, V, A, c : n = p.ns /\ V = T \ {p} /\ A = In(n, T) /\ c = Counted(quotas, T)
  OBVIOUS
<1>2. DOMAIN c = DOMAIN quotas
  BY <1>1, CountedInfo
<1>3. SameElsewhere(quotas, T, V, n)
  BY <1>1 DEF In, SameElsewhere
<1>4. CASE n \notin DOMAIN quotas
  <2>1. UncountPod(c, p) = c
    BY <1>1, <1>2, <1>4 DEF UncountPod
  <2>2. Counted(quotas, T) = Counted(quotas, V)
    BY <1>3, <1>4, CountedElsewhere
  <2> QED
    BY <1>1, <2>1, <2>2
<1>5. CASE n \in DOMAIN quotas
  <2>1. In(n, V) = A \ {p} /\ A \in SUBSET U
    BY <1>1 DEF In
  <2>2. c[n] = InfoOf(quotas[n], A)
    BY <1>1, <1>5, CountedInfo
  <2>3. deletePodIfPresent(InfoOf(quotas[n], A), p) = InfoOf(quotas[n], A \ {p})
    BY <2>1, InfoLoses
  <2>4. UncountPod(c, p) = Put(c, n, InfoOf(quotas[n], In(n, V)))
    BY <1>1, <1>2, <1>5, <2>1, <2>2, <2>3 DEF UncountPod, Put
  <2>5. Put(Counted(quotas, T), n, InfoOf(quotas[n], In(n, V))) = Counted(quotas, V)
    BY <1>3, <1>5, CountedElsewhere
  <2> QED
    BY <1>1, <2>4, <2>5
<1> QED
  BY <1>4, <1>5

----------------------------------------------------------------------------
(* Preemption: the loops.                                                  *)

(* f lists what there is after each iteration, and Inv[k] holds after k.   *)
RunsThrough(n, Inv, a, step, f) ==
  /\ f = [k \in 0 .. n |-> f[k]] /\ f[0] = a
  /\ \A k \in 0 .. n : f[k] \in Inv[k]
  /\ \A k \in 1 .. n : f[k] = step[k][f[k - 1]]

(* A loop has a result if its iterations keep an invariant: they need to   *)
(* be defined only where it holds.                                         *)
LEMMA LoopRuns ==
  ASSUME NEW n \in Nat, NEW Inv, NEW a \in Inv[0], NEW step,
         \A k \in 1 .. n : \A x \in Inv[k - 1] : step[k][x] \in Inv[k]
  PROVE  \E f : RunsThrough(n, Inv, a, step, f)
<1> DEFINE S == UNION {Inv[k] : k \in 0 .. n}
           total == [k \in 1 .. n |-> [x \in S |-> IF x \in Inv[k - 1] THEN step[k][x] ELSE a]]
<1>1. \A k \in 0 .. n : Inv[k] \subseteq S
  OBVIOUS
<1>2. 0 \in 0 .. n
  OBVIOUS
<1>3. a \in S
  BY <1>1, <1>2
<1>4. ASSUME NEW k \in 1 .. n, NEW x \in S
      PROVE  (IF x \in Inv[k - 1] THEN step[k][x] ELSE a) \in S
  <2>1. k \in 0 .. n
    OBVIOUS
  <2> HIDE DEF S
  <2> QED
    BY <1>1, <1>3, <2>1
<1> HIDE DEF S
<1>5. total \in [1 .. n -> [S -> S]]
  BY <1>4
<1>6. PICK f : IsLoop(n, S, a, total, f)
  <2> HIDE DEF total
  <2> QED
    BY <1>3, <1>5, LoopExists
<1>7. f \in [0 .. n -> S] /\ f[0] = a /\ \A k \in 1 .. n : f[k] = total[k][f[k - 1]]
  BY <1>6 DEF IsLoop
<1>8. ASSUME NEW k \in 1 .. n, f[k - 1] \in Inv[k - 1]
      PROVE  f[k] \in Inv[k] /\ f[k] = step[k][f[k - 1]]
  <2>1. k - 1 \in 0 .. n
    OBVIOUS
  <2>2. f[k - 1] \in S
    BY <1>7, <2>1
  <2>3. f[k] = step[k][f[k - 1]]
    BY <1>7, <1>8, <2>2
  <2> QED
    BY <1>8, <2>3
<1>9. \A k \in 0 .. n : f[k] \in Inv[k]
  BY <1>7, <1>8, LoopKeeps
<1>10. \A k \in 1 .. n : f[k] = step[k][f[k - 1]]
  <2> SUFFICES ASSUME NEW k \in 1 .. n PROVE f[k] = step[k][f[k - 1]]
    OBVIOUS
  <2>1. k - 1 \in 0 .. n
    OBVIOUS
  <2> QED
    BY <1>8, <1>9, <2>1
<1>11. f = [k \in 0 .. n |-> f[k]]
  BY <1>7
<1>12. RunsThrough(n, Inv, a, step, f)
  BY <1>7, <1>9, <1>10, <1>11 DEF RunsThrough
<1> QED
  BY <1>12

(* The pods before the k-th.                                               *)
First(pods, k) == {pods[j] : j \in 1 .. k}

LEMMA FirstPods ==
  ASSUME NEW S, NEW pods \in Seq(S)
  PROVE  /\ First(pods, 0) = {} /\ First(pods, Len(pods)) = ToSet(pods)
         /\ \A k \in 1 .. Len(pods) : First(pods, k) = First(pods, k - 1) \cup {pods[k]}
         /\ \A k \in 0 .. Len(pods) : First(pods, k) \subseteq S
<1>1. PICK n \in Nat : n = Len(pods) /\ DOMAIN pods = 1 .. n /\ pods \in [1 .. n -> S]
  BY LenProperties
<1>2. First(pods, 0) = {} /\ First(pods, n) = ToSet(pods)
  BY <1>1 DEF First, ToSet
<1>3. ASSUME NEW k \in 1 .. n PROVE First(pods, k) = First(pods, k - 1) \cup {pods[k]}
  <2>1. \A j \in 1 .. k : j \in 1 .. k - 1 \/ j = k
    OBVIOUS
  <2>2. k \in 1 .. k /\ \A j \in 1 .. k - 1 : j \in 1 .. k
    OBVIOUS
  <2> QED
    BY <2>1, <2>2 DEF First
<1>4. ASSUME NEW k \in 0 .. n PROVE First(pods, k) \subseteq S
  <2>1. \A j \in 1 .. k : j \in 1 .. n
    OBVIOUS
  <2> QED
    BY <1>1, <2>1 DEF First
<1> QED
  BY <1>1, <1>2, <1>3, <1>4

BudgetState(pdbs, S) ==
  [allowed : [DOMAIN pdbs -> Int], violating : Seq(S), nonViolating : Seq(S)]

Grouped(x) == ToSet(x.violating) \cup ToSet(x.nonViolating)

LEMMA BudgetStep ==
  ASSUME NEW S, NEW pdbs, NEW x \in BudgetState(pdbs, S), NEW pod \in S
  PROVE  /\ ChargeBudgets(pdbs, x, pod) \in BudgetState(pdbs, S)
         /\ Grouped(ChargeBudgets(pdbs, x, pod)) = Grouped(x) \cup {pod}
<1> DEFINE allowed == [i \in DOMAIN pdbs |->
                         x.allowed[i] - IF Matches(pdbs[i], pod) THEN 1 ELSE 0]
           violated == \E i \in DOMAIN pdbs : Matches(pdbs[i], pod) /\ allowed[i] < 0
<1>1. x.allowed \in [DOMAIN pdbs -> Int] /\ x.violating \in Seq(S) /\ x.nonViolating \in Seq(S)
  BY DEF BudgetState
<1>2. allowed \in [DOMAIN pdbs -> Int]
  BY <1>1
<1>3. /\ Append(x.violating, pod) \in Seq(S)
      /\ ToSet(Append(x.violating, pod)) = ToSet(x.violating) \cup {pod}
      /\ Append(x.nonViolating, pod) \in Seq(S)
      /\ ToSet(Append(x.nonViolating, pod)) = ToSet(x.nonViolating) \cup {pod}
  BY <1>1, AppendedSet
<1>4. PICK y : y = ChargeBudgets(pdbs, x, pod)
  OBVIOUS
<1>5. y = [allowed |-> allowed,
           violating |-> IF violated THEN Append(x.violating, pod) ELSE x.violating,
           nonViolating |-> IF violated THEN x.nonViolating ELSE Append(x.nonViolating, pod)]
  BY <1>4 DEF ChargeBudgets
<1> HIDE DEF allowed, violated
<1>6. y \in BudgetState(pdbs, S)
  BY <1>1, <1>2, <1>3, <1>5 DEF BudgetState
<1>7. Grouped(y) = Grouped(x) \cup {pod}
  BY <1>3, <1>5 DEF Grouped
<1> QED
  BY <1>4, <1>6, <1>7

(* Every pod gets into one of the two groups.                              *)
LEMMA BudgetGroups ==
  ASSUME NEW S, NEW pods \in Seq(S), NEW pdbs, \A i \in DOMAIN pdbs : pdbs[i].allowed \in Int
  PROVE  LET groups == filterPodsWithPDBViolation(pods, pdbs)
         IN  /\ groups.violating \in Seq(S) /\ groups.nonViolating \in Seq(S)
             /\ ToSet(groups.violating) \cup ToSet(groups.nonViolating) = ToSet(pods)
<1> DEFINE n == Len(pods)
           a == [allowed |-> [i \in DOMAIN pdbs |-> pdbs[i].allowed],
                 violating |-> << >>, nonViolating |-> << >>]
           acc == BudgetLoop(pods, pdbs)
           Inv == [k \in 0 .. n |-> {x \in BudgetState(pdbs, S) : Grouped(x) = First(pods, k)}]
           step == [k \in 1 .. n |-> [x \in Inv[k - 1] |-> ChargeBudgets(pdbs, x, pods[k])]]
<1>1. n \in Nat /\ \A k \in 1 .. n : pods[k] \in S
  BY LenProperties, ElementOfSeq
<1>2. a \in Inv[0]
  <2>1. a \in BudgetState(pdbs, S)
    BY DEF BudgetState
  <2>2. Grouped(a) = First(pods, 0)
    BY DEF Grouped, First, ToSet
  <2>3. 0 \in 0 .. n
    BY <1>1
  <2> QED
    BY <2>1, <2>2, <2>3
<1>3. ASSUME NEW k \in 1 .. n, NEW x \in Inv[k - 1] PROVE ChargeBudgets(pdbs, x, pods[k]) \in Inv[k]
  <2>1. k \in 0 .. n /\ k - 1 \in 0 .. n
    BY <1>1
  <2>2. x \in BudgetState(pdbs, S) /\ Grouped(x) = First(pods, k - 1)
    BY <1>3, <2>1
  <2>3. PICK y : y = ChargeBudgets(pdbs, x, pods[k])
    OBVIOUS
  <2>4. y \in BudgetState(pdbs, S) /\ Grouped(y) = Grouped(x) \cup {pods[k]}
    BY <1>1, <2>2, <2>3, BudgetStep
  <2>5. Grouped(y) = First(pods, k)
    BY <2>2, <2>4, FirstPods
  <2> QED
    BY <2>1, <2>3, <2>4, <2>5
<1>4. PICK f : RunsThrough(n, Inv, a, step, f)
  <2>1. \A k \in 1 .. n : \A x \in Inv[k - 1] : step[k][x] \in Inv[k]
    <3> HIDE DEF Inv
    <3> QED
      BY <1>3
  <2> HIDE DEF n, Inv, a, step
  <2> QED
    BY <1>1, <1>2, <2>1, LoopRuns
<1>5. f = [k \in 0 .. n |-> IF k = 0 THEN a ELSE ChargeBudgets(pdbs, f[k - 1], pods[k])]
  <2> HIDE DEF Inv, a
  <2>1. ASSUME NEW k \in 1 .. n PROVE f[k] = ChargeBudgets(pdbs, f[k - 1], pods[k])
    <3>1. k - 1 \in 0 .. n
      BY <1>1
    <3>2. f[k - 1] \in Inv[k - 1] /\ f[k] = step[k][f[k - 1]]
      BY <1>4, <3>1 DEF RunsThrough
    <3> QED
      BY <3>2
  <2>2. f = [k \in 0 .. n |-> f[k]] /\ f[0] = a
    BY <1>4 DEF RunsThrough
  <2> HIDE DEF n
  <2>3. \A k \in 0 .. n : k = 0 \/ k \in 1 .. n
    BY <1>1
  <2> QED
    BY <2>1, <2>2, <2>3
<1>6. acc = [k \in 0 .. n |-> IF k = 0 THEN a ELSE ChargeBudgets(pdbs, acc[k - 1], pods[k])]
  BY <1>5 DEF BudgetLoop
<1> HIDE DEF acc, a
<1>7. acc[0] = a /\ \A k \in 1 .. n : acc[k] = ChargeBudgets(pdbs, acc[k - 1], pods[k])
  <2>1. \A k \in 0 .. n : acc[k] = IF k = 0 THEN a ELSE ChargeBudgets(pdbs, acc[k - 1], pods[k])
    BY <1>6
  <2> HIDE DEF n
  <2> QED
    BY <1>1, <2>1
<1>8. acc[n] \in Inv[n]
  <2> HIDE DEF Inv, n
  <2>1. \A k \in 1 .. n : acc[k - 1] \in Inv[k - 1] => acc[k] \in Inv[k]
    BY <1>3, <1>7
  <2>2. \A k \in 0 .. n : acc[k] \in Inv[k]
    BY <1>1, <1>2, <1>7, <2>1, LoopKeeps
  <2> QED
    BY <1>1, <2>2
<1>9. acc[n] \in BudgetState(pdbs, S) /\ Grouped(acc[n]) = ToSet(pods)
  <2>1. n \in 0 .. n
    BY <1>1
  <2> QED
    BY <1>8, <2>1, FirstPods
<1>10. PICK g : g = filterPodsWithPDBViolation(pods, pdbs)
  OBVIOUS
<1>11. g \in BudgetState(pdbs, S) /\ Grouped(g) = ToSet(pods)
  BY <1>9, <1>10 DEF filterPodsWithPDBViolation, acc
<1>12. g.violating \in Seq(S) /\ g.nonViolating \in Seq(S)
  BY <1>11 DEF BudgetState
<1> QED
  BY <1>10, <1>11, <1>12 DEF Grouped

(* What the reprieves of PreemptionToleration have reached after k pods.   *)
TriedState(U) == [on : SUBSET U, victims : SUBSET U]

TriedSoFar(pod, nominated, capacity, left, pods, k, x) ==
  /\ x.on \cup x.victims = left \cup First(pods, k)
  /\ x.victims \subseteq First(pods, k)
  /\ RunFilterPlugins(pod, x.on, nominated, capacity)
  /\ \A v \in x.victims : ~RunFilterPlugins(pod, x.on \cup {v}, nominated, capacity)

LEMMA TriedStep ==
  ASSUME NEW U, Requesting(U), NEW pod \in U, NEW nominated \in SUBSET U,
         NEW capacity \in [Res -> Nat], NEW left \in SUBSET U, NEW pods \in Seq(U),
         NEW k \in 1 .. Len(pods), NEW x \in TriedState(U),
         TriedSoFar(pod, nominated, capacity, left, pods, k - 1, x)
  PROVE  /\ TryReprieve(pod, nominated, capacity, x, pods[k]) \in TriedState(U)
         /\ TriedSoFar(pod, nominated, capacity, left, pods, k,
                       TryReprieve(pod, nominated, capacity, x, pods[k]))
<1>1. PICK p \in U : p = pods[k]
  BY ElementOfSeq
<1>2. PICK A, B : A = First(pods, k - 1) /\ B = First(pods, k)
  OBVIOUS
<1>3. B = A \cup {p}
  BY <1>1, <1>2, FirstPods
<1>4. PICK on \in SUBSET U, victims \in SUBSET U : on = x.on /\ victims = x.victims
  BY DEF TriedState
<1>5. /\ on \cup victims = left \cup A /\ victims \subseteq A
      /\ RunFilterPlugins(pod, on, nominated, capacity)
      /\ \A v \in victims : ~RunFilterPlugins(pod, on \cup {v}, nominated, capacity)
  BY <1>2, <1>4 DEF TriedSoFar
<1>6. PICK y : y = TryReprieve(pod, nominated, capacity, x, p)
  OBVIOUS
<1>7. x = [on |-> on, victims |-> victims]
  BY <1>4 DEF TriedState
<1>8. CASE RunFilterPlugins(pod, on \cup {p}, nominated, capacity)
  <2>1. y = [on |-> on \cup {p}, victims |-> victims]
    BY <1>6, <1>7, <1>8 DEF TryReprieve
  <2>2. y.on = on \cup {p} /\ y.victims = victims /\ y \in TriedState(U)
    BY <2>1 DEF TriedState
  <2>3. ASSUME NEW v \in victims
        PROVE  ~RunFilterPlugins(pod, (on \cup {p}) \cup {v}, nominated, capacity)
    <3>1. PICK T, V : T = (on \cup {p}) \cup {v} /\ V = on \cup {v}
      OBVIOUS
    <3>2. T \in SUBSET U /\ V \in SUBSET T
      BY <3>1
    <3>3. ~RunFilterPlugins(pod, V, nominated, capacity)
      BY <1>5, <3>1
    <3>4. ~RunFilterPlugins(pod, T, nominated, capacity)
      BY <3>2, <3>3, FiltersMonotone
    <3> QED
      BY <3>1, <3>4
  <2>4. TriedSoFar(pod, nominated, capacity, left, pods, k, y)
    BY <1>2, <1>3, <1>5, <1>8, <2>2, <2>3 DEF TriedSoFar
  <2> QED
    BY <1>1, <1>6, <2>2, <2>4
<1>9. CASE ~RunFilterPlugins(pod, on \cup {p}, nominated, capacity)
  <2>1. y = [on |-> on, victims |-> victims \cup {p}]
    BY <1>6, <1>7, <1>9 DEF TryReprieve
  <2>2. y.on = on /\ y.victims = victims \cup {p} /\ y \in TriedState(U)
    BY <2>1 DEF TriedState
  <2>3. TriedSoFar(pod, nominated, capacity, left, pods, k, y)
    BY <1>2, <1>3, <1>5, <1>9, <2>2 DEF TriedSoFar
  <2> QED
    BY <1>1, <1>6, <2>2, <2>3
<1> QED
  BY <1>8, <1>9

LEMMA TriedAll ==
  ASSUME NEW U, Requesting(U), NEW pod \in U, NEW nominated \in SUBSET U,
         NEW capacity \in [Res -> Nat], NEW left \in SUBSET U, NEW pods \in Seq(U),
         RunFilterPlugins(pod, left, nominated, capacity)
  PROVE  LET end == TryReprieveLoop(pod, nominated, capacity, left, pods)[Len(pods)]
         IN  end \in TriedState(U) /\ TriedSoFar(pod, nominated, capacity, left, pods, Len(pods), end)
<1> DEFINE n == Len(pods)
           Step(x, k) == TryReprieve(pod, nominated, capacity, x, pods[k])
           a == [on |-> left, victims |-> {}]
           acc == TryReprieveLoop(pod, nominated, capacity, left, pods)
           Inv == [k \in 0 .. n |->
                     {x \in TriedState(U) : TriedSoFar(pod, nominated, capacity, left, pods, k, x)}]
           step == [k \in 1 .. n |-> [x \in Inv[k - 1] |-> Step(x, k)]]
<1>1. n \in Nat
  BY LenProperties
<1>2. a \in Inv[0]
  <2>1. a \in TriedState(U)
    BY DEF TriedState
  <2>2. TriedSoFar(pod, nominated, capacity, left, pods, 0, a)
    BY FirstPods DEF TriedSoFar
  <2>3. 0 \in 0 .. n
    BY <1>1
  <2> QED
    BY <2>1, <2>2, <2>3
<1>3. ASSUME NEW k \in 1 .. n, NEW x \in Inv[k - 1] PROVE Step(x, k) \in Inv[k]
  <2>1. k \in 0 .. n /\ k - 1 \in 0 .. n
    BY <1>1
  <2>2. x \in TriedState(U) /\ TriedSoFar(pod, nominated, capacity, left, pods, k - 1, x)
    BY <1>3, <2>1
  <2>3. Step(x, k) \in TriedState(U) /\ TriedSoFar(pod, nominated, capacity, left, pods, k, Step(x, k))
    BY <2>2, TriedStep
  <2> QED
    BY <2>1, <2>3
<1>4. PICK f : RunsThrough(n, Inv, a, step, f)
  <2>1. \A k \in 1 .. n : \A x \in Inv[k - 1] : step[k][x] \in Inv[k]
    <3> HIDE DEF Inv, Step
    <3> QED
      BY <1>3
  <2> HIDE DEF n, Inv, a, step
  <2> QED
    BY <1>1, <1>2, <2>1, LoopRuns
<1>5. f = [k \in 0 .. n |-> IF k = 0 THEN a ELSE Step(f[k - 1], k)]
  <2> HIDE DEF Inv, a, Step
  <2>1. ASSUME NEW k \in 1 .. n PROVE f[k] = Step(f[k - 1], k)
    <3>1. k - 1 \in 0 .. n
      BY <1>1
    <3>2. f[k - 1] \in Inv[k - 1] /\ f[k] = step[k][f[k - 1]]
      BY <1>4, <3>1 DEF RunsThrough
    <3> QED
      BY <3>2
  <2>2. f = [k \in 0 .. n |-> f[k]] /\ f[0] = a
    BY <1>4 DEF RunsThrough
  <2> HIDE DEF n
  <2>3. \A k \in 0 .. n : k = 0 \/ k \in 1 .. n
    BY <1>1
  <2> QED
    BY <2>1, <2>2, <2>3
<1>6. acc = [k \in 0 .. n |-> IF k = 0 THEN a ELSE Step(acc[k - 1], k)]
  BY <1>5 DEF TryReprieveLoop
<1> HIDE DEF acc, a, Step
<1>7. acc[0] = a /\ \A k \in 1 .. n : acc[k] = Step(acc[k - 1], k)
  <2>1. \A k \in 0 .. n : acc[k] = IF k = 0 THEN a ELSE Step(acc[k - 1], k)
    BY <1>6
  <2> HIDE DEF n
  <2> QED
    BY <1>1, <2>1
<1>8. acc[n] \in Inv[n]
  <2> HIDE DEF Inv, n
  <2>1. \A k \in 1 .. n : acc[k - 1] \in Inv[k - 1] => acc[k] \in Inv[k]
    BY <1>3, <1>7
  <2>2. \A k \in 0 .. n : acc[k] \in Inv[k]
    BY <1>1, <1>2, <1>7, <2>1, LoopKeeps
  <2> QED
    BY <1>1, <2>2
<1>9. n \in 0 .. n
  BY <1>1
<1> QED
  BY <1>8, <1>9 DEF acc

(* The pods that the array of a node has, which it has once.               *)
OnNode(array, n) == {array[i] : i \in 1 .. n}
NoneTwice(array, n) == \A i, j \in 1 .. n : array[i] = array[j] => i = j

(* The pod was taken off, and the array has changed in its place only.     *)
Taken(U, m, array, n, pod, shorter) ==
  /\ shorter \in [1 .. m -> U] /\ n - 1 \in 0 .. m
  /\ NoneTwice(shorter, n - 1) /\ OnNode(shorter, n - 1) = OnNode(array, n) \ {pod}
  /\ \E at \in 1 .. n : /\ array[at] = pod
                        /\ \A i \in 1 .. m : i # at => shorter[i] = array[i]

LEMMA PodRemoved ==
  ASSUME NEW U, Distinct(U), NEW m \in Nat, NEW array \in [1 .. m -> U], NEW n \in 0 .. m,
         NoneTwice(array, n), NEW pod \in OnNode(array, n)
  PROVE  Taken(U, m, array, n, pod, RemovePod(array, n, pod))
<1>1. \A i \in 1 .. n : i \in 1 .. m /\ array[i] \in U
  OBVIOUS
<1>2. PICK here \in 1 .. n : array[here] = pod
  BY DEF OnNode
<1>3. pod \in U
  BY <1>1, <1>2
<1>4. PICK at : at = CHOOSE i \in 1 .. n : array[i].uid = pod.uid
  OBVIOUS
<1>5. at \in 1 .. n /\ array[at].uid = pod.uid
  BY <1>2, <1>4
<1>6. array[at] = pod
  BY <1>1, <1>3, <1>5 DEF Distinct
<1>7. PICK s : s = RemovePod(array, n, pod)
  OBVIOUS
<1>8. s = [array EXCEPT ![at] = array[n]]
  BY <1>4, <1>7 DEF RemovePod
<1>9. n \in 1 .. n /\ n \in 1 .. m /\ n - 1 \in 0 .. m /\ at \in 1 .. m
  BY <1>5
<1>10. s \in [1 .. m -> U] /\ s[at] = array[n] /\ \A i \in 1 .. m : i # at => s[i] = array[i]
  BY <1>8, <1>9
<1>11. \A i \in 1 .. n - 1 : i \in 1 .. n /\ i # n
  BY <1>9
<1>12. \A i \in 1 .. n : i = n \/ i \in 1 .. n - 1
  BY <1>9
<1>13. \A i, j \in 1 .. n : array[i] = array[j] => i = j
  BY DEF NoneTwice
<1>14. NoneTwice(s, n - 1)
  <2> SUFFICES ASSUME NEW i \in 1 .. n - 1, NEW j \in 1 .. n - 1, s[i] = s[j] PROVE i = j
    BY DEF NoneTwice
  <2>1. i \in 1 .. n /\ j \in 1 .. n /\ i # n /\ j # n /\ i \in 1 .. m /\ j \in 1 .. m
    BY <1>1, <1>11
  <2>2. CASE i = at /\ j # at
    BY <1>9, <1>10, <1>13, <2>1, <2>2
  <2>3. CASE j = at /\ i # at
    BY <1>9, <1>10, <1>13, <2>1, <2>3
  <2>4. CASE i # at /\ j # at
    BY <1>10, <1>13, <2>1, <2>4
  <2> QED
    BY <2>2, <2>3, <2>4
<1>15. ASSUME NEW i \in 1 .. n - 1 PROVE s[i] \in OnNode(array, n) \ {pod}
  <2>1. i \in 1 .. n /\ i # n /\ i \in 1 .. m
    BY <1>1, <1>11
  <2>2. CASE i = at
    <3>1. array[n] # pod
      BY <1>6, <1>9, <1>13, <2>1, <2>2
    <3> QED
      BY <1>9, <1>10, <2>2, <3>1 DEF OnNode
  <2>3. CASE i # at
    <3>1. array[i] # pod
      BY <1>5, <1>6, <1>13, <2>1, <2>3
    <3> QED
      BY <1>10, <2>1, <2>3, <3>1 DEF OnNode
  <2> QED
    BY <2>2, <2>3
<1>16. ASSUME NEW i \in 1 .. n, array[i] # pod PROVE array[i] \in OnNode(s, n - 1)
  <2>1. i # at /\ i \in 1 .. m
    BY <1>1, <1>6, <1>16
  <2>2. CASE i = n
    <3>1. at \in 1 .. n - 1
      BY <1>5, <1>12, <2>1, <2>2
    <3> QED
      BY <1>10, <2>2, <3>1 DEF OnNode
  <2>3. CASE i # n
    <3>1. i \in 1 .. n - 1
      BY <1>12, <2>3
    <3> QED
      BY <1>10, <2>1, <3>1 DEF OnNode
  <2> QED
    BY <2>2, <2>3
<1>17. OnNode(s, n - 1) = OnNode(array, n) \ {pod}
  BY <1>15, <1>16 DEF OnNode
<1> QED
  BY <1>5, <1>6, <1>7, <1>9, <1>10, <1>14, <1>17 DEF Taken

(* What the loop over the potential victims has reached after k pods.      *)
SearchState(pods) ==
  [array : [1 .. Len(pods) -> ToSet(pods)], n : 0 .. Len(pods), found : Seq(ToSet(pods)),
   failed : BOOLEAN]

Victim(classes, pod, now, p) ==
  p.prio < pod.prio /\ ~ExemptedFromPreemption(classes, p, pod, now)

SearchedSoFar(classes, pod, now, pods, k, x) ==
  ~x.failed =>
    /\ \A j \in (k + 1) .. Len(pods) : x.array[j] = pods[j]
    /\ NoneTwice(x.array, x.n) /\ OnNode(x.array, x.n) = ToSet(pods) \ ToSet(x.found)
    /\ ToSet(x.found) = {p \in First(pods, k) : Victim(classes, pod, now, p)}
    /\ \A p \in First(pods, k) : p.prio < pod.prio => ~ClassMissing(classes, p)

LEMMA SearchStep ==
  ASSUME NEW classes, NEW pod, NEW now, NEW S, NEW pods \in Seq(S), Distinct(ToSet(pods)),
         \A i, j \in 1 .. Len(pods) : pods[i] = pods[j] => i = j,
         pod.prio \in Int, \A p \in ToSet(pods) : p.prio \in Int,
         NEW k \in 1 .. Len(pods), NEW x \in SearchState(pods),
         SearchedSoFar(classes, pod, now, pods, k - 1, x)
  PROVE  /\ Consider(classes, pod, now, x, k) \in SearchState(pods)
         /\ SearchedSoFar(classes, pod, now, pods, k, Consider(classes, pod, now, x, k))
<1>1. PICK m \in Nat : m = Len(pods) /\ DOMAIN pods = 1 .. m
  BY LenProperties
<1>2. PICK P : P = ToSet(pods)
  OBVIOUS
<1>3. P = {pods[i] : i \in 1 .. m}
  BY <1>1, <1>2 DEF ToSet
<1>4. PICK array \in [1 .. m -> P], n \in 0 .. m, found \in Seq(P), failed \in BOOLEAN :
        x = [array |-> array, n |-> n, found |-> found, failed |-> failed]
  BY <1>1, <1>2 DEF SearchState
<1>5. PICK y : y = Consider(classes, pod, now, x, k)
  OBVIOUS
<1>6. CASE failed
  <2>1. y = x /\ x.failed
    BY <1>4, <1>5, <1>6 DEF Consider
  <2> QED
    BY <1>5, <2>1 DEF SearchedSoFar
<1>7. CASE ~failed
  <2>1. x.array = array /\ x.n = n /\ x.found = found /\ ~x.failed
    BY <1>4, <1>7
  <2>2. PICK A, B : A = First(pods, k - 1) /\ B = First(pods, k)
    OBVIOUS
  <2>3. PICK p : p = pods[k]
    OBVIOUS
  <2>4. B = A \cup {p} /\ p \in P /\ p.prio \in Int /\ pod.prio \in Int
    BY <1>1, <1>2, <1>3, <2>2, <2>3, FirstPods
  <2>5. /\ \A j \in k .. m : array[j] = pods[j]
        /\ NoneTwice(array, n) /\ OnNode(array, n) = P \ ToSet(found)
        /\ ToSet(found) = {q \in A : Victim(classes, pod, now, q)}
        /\ \A q \in A : q.prio < pod.prio => ~ClassMissing(classes, q)
    <3>1. (k - 1) + 1 = k
      BY <1>1
    <3> QED
      BY <1>1, <1>2, <2>1, <2>2, <3>1 DEF SearchedSoFar
  <2>6. array[k] = p /\ \A j \in (k + 1) .. m : array[j] = pods[j] /\ j \in 1 .. m /\ j # k
    <3>1. k \in k .. m /\ \A j \in (k + 1) .. m : j \in k .. m /\ j \in 1 .. m /\ j # k
      BY <1>1
    <3> QED
      BY <2>3, <2>5, <3>1
  <2>7. p \notin A
    <3>1. \A j \in 1 .. k - 1 : j \in 1 .. m /\ j # k
      BY <1>1
    <3> QED
      BY <1>1, <2>2, <2>3, <3>1 DEF First
  <2>8. CASE ~(p.prio < pod.prio)
    <3>1. y = x
      <4>1. p.prio >= pod.prio
        BY <2>4, <2>8
      <4> QED
        BY <1>5, <2>1, <2>6, <4>1 DEF Consider
    <3>2. ~Victim(classes, pod, now, p)
      BY <2>8 DEF Victim
    <3>3. ToSet(found) = {q \in B : Victim(classes, pod, now, q)}
      BY <2>4, <2>5, <3>2
    <3>4. SearchedSoFar(classes, pod, now, pods, k, x)
      BY <1>1, <1>2, <2>1, <2>2, <2>4, <2>5, <2>6, <2>8, <3>3 DEF SearchedSoFar
    <3> QED
      BY <1>5, <3>1, <3>4
  <2>9. CASE p.prio < pod.prio
    <3>1. ~(p.prio >= pod.prio)
      BY <2>4, <2>9
    <3>2. CASE ClassMissing(classes, p)
      <4>1. y = [array |-> array, n |-> n, found |-> found, failed |-> TRUE]
        <5>1. y = [x EXCEPT !.failed = TRUE]
          BY <1>5, <2>1, <2>6, <3>1, <3>2 DEF Consider
        <5> QED
          BY <1>4, <5>1
      <4>2. y \in SearchState(pods)
        BY <1>1, <1>2, <4>1 DEF SearchState
      <4>3. SearchedSoFar(classes, pod, now, pods, k, y)
        BY <4>1 DEF SearchedSoFar
      <4> QED
        BY <1>5, <4>2, <4>3
    <3>3. CASE ~ClassMissing(classes, p) /\ ExemptedFromPreemption(classes, p, pod, now)
      <4>1. y = x
        BY <1>5, <2>1, <2>6, <3>1, <3>3 DEF Consider
      <4>2. ~Victim(classes, pod, now, p)
        BY <3>3 DEF Victim
      <4>3. ToSet(found) = {q \in B : Victim(classes, pod, now, q)}
        BY <2>4, <2>5, <4>2
      <4>4. SearchedSoFar(classes, pod, now, pods, k, x)
        BY <1>1, <1>2, <2>1, <2>2, <2>4, <2>5, <2>6, <3>3, <4>3 DEF SearchedSoFar
      <4> QED
        BY <1>5, <4>1, <4>4
    <3>4. CASE ~ClassMissing(classes, p) /\ ~ExemptedFromPreemption(classes, p, pod, now)
      <4>1. PICK shorter, more : shorter = RemovePod(array, n, p) /\ more = Append(found, p)
        OBVIOUS
      <4>2. y = [array |-> shorter, n |-> n - 1, found |-> more, failed |-> FALSE]
        BY <1>5, <2>1, <2>6, <3>1, <3>4, <4>1 DEF Consider
      <4>3. p \in OnNode(array, n)
        BY <2>4, <2>5, <2>7
      <4>4. /\ shorter \in [1 .. m -> P] /\ n - 1 \in 0 .. m
            /\ NoneTwice(shorter, n - 1) /\ OnNode(shorter, n - 1) = OnNode(array, n) \ {p}
            /\ \E at \in 1 .. n : /\ array[at] = p
                                  /\ \A i \in 1 .. m : i # at => shorter[i] = array[i]
        <5>1. Taken(P, m, array, n, p, RemovePod(array, n, p))
          BY <1>2, <2>5, <4>3, PodRemoved
        <5> QED
          BY <4>1, <5>1 DEF Taken
      <4>5. more \in Seq(P) /\ ToSet(more) = ToSet(found) \cup {p}
        BY <2>4, <4>1, AppendedSet
      <4>6. \A j \in (k + 1) .. m : shorter[j] = pods[j]
        <5> SUFFICES ASSUME NEW j \in (k + 1) .. m PROVE shorter[j] = pods[j]
          OBVIOUS
        <5>1. PICK at \in 1 .. n : /\ array[at] = p
                                   /\ \A i \in 1 .. m : i # at => shorter[i] = array[i]
          BY <4>4
        <5>2. array[j] = pods[j] /\ j \in 1 .. m /\ j # k
          BY <2>6
        <5>3. pods[j] # p
          BY <1>1, <2>3, <5>2
        <5> QED
          BY <5>1, <5>2, <5>3
      <4>7. Victim(classes, pod, now, p)
        BY <2>9, <3>4 DEF Victim
      <4>8. ToSet(more) = {q \in B : Victim(classes, pod, now, q)}
        BY <2>4, <2>5, <4>5, <4>7
      <4>9. OnNode(shorter, n - 1) = P \ ToSet(more)
        BY <2>5, <4>4, <4>5
      <4>10. y \in SearchState(pods)
        BY <1>1, <1>2, <4>2, <4>4, <4>5 DEF SearchState
      <4>11. y.array = shorter /\ y.n = n - 1 /\ y.found = more
        BY <4>2
      <4>12. \A q \in B : q.prio < pod.prio => ~ClassMissing(classes, q)
        BY <2>4, <2>5, <3>4
      <4>13. SearchedSoFar(classes, pod, now, pods, k, y)
        BY <1>1, <1>2, <2>2, <4>4, <4>6, <4>8, <4>9, <4>11, <4>12 DEF SearchedSoFar
      <4> QED
        BY <1>5, <4>10, <4>13
    <3> QED
      BY <3>2, <3>3, <3>4
  <2> QED
    BY <2>8, <2>9
<1> QED
  BY <1>6, <1>7

LEMMA SearchAll ==
  ASSUME NEW classes, NEW pod, NEW now, NEW S, NEW pods \in Seq(S), Distinct(ToSet(pods)),
         \A i, j \in 1 .. Len(pods) : pods[i] = pods[j] => i = j,
         pod.prio \in Int, \A p \in ToSet(pods) : p.prio \in Int
  PROVE  LET end == PotentialVictims(classes, pod, now, pods)
         IN  end \in SearchState(pods) /\ SearchedSoFar(classes, pod, now, pods, Len(pods), end)
<1> DEFINE n == Len(pods)
           Step(x, k) == Consider(classes, pod, now, x, k)
           a == [array |-> pods, n |-> Len(pods), found |-> << >>, failed |-> FALSE]
           acc == VictimLoop(classes, pod, now, pods)
           Inv == [k \in 0 .. n |-> {x \in SearchState(pods) : SearchedSoFar(classes, pod, now, pods, k, x)}]
           step == [k \in 1 .. n |-> [x \in Inv[k - 1] |-> Step(x, k)]]
<1>1. n \in Nat
  BY LenProperties
<1>2. a \in Inv[0]
  <2>1. DOMAIN pods = 1 .. n /\ pods \in [1 .. n -> ToSet(pods)]
    BY LenProperties DEF ToSet
  <2>2. a \in SearchState(pods)
    BY <1>1, <2>1 DEF SearchState
  <2>3. First(pods, 0) = {} /\ ToSet(<< >>) = {} /\ OnNode(pods, n) = ToSet(pods)
    BY <2>1, FirstPods DEF OnNode, ToSet
  <2>4. a.array = pods /\ a.n = n /\ a.found = << >>
    OBVIOUS
  <2>5. SearchedSoFar(classes, pod, now, pods, 0, a)
    <3> HIDE DEF a
    <3> QED
      BY <1>1, <2>3, <2>4 DEF SearchedSoFar, NoneTwice
  <2>6. 0 \in 0 .. n
    BY <1>1
  <2> QED
    BY <2>2, <2>5, <2>6
<1>3. ASSUME NEW k \in 1 .. n, NEW x \in Inv[k - 1] PROVE Step(x, k) \in Inv[k]
  <2>1. k \in 0 .. n /\ k - 1 \in 0 .. n
    BY <1>1
  <2>2. x \in SearchState(pods) /\ SearchedSoFar(classes, pod, now, pods, k - 1, x)
    BY <1>3, <2>1
  <2>3. Step(x, k) \in SearchState(pods) /\ SearchedSoFar(classes, pod, now, pods, k, Step(x, k))
    BY <2>2, SearchStep
  <2> QED
    BY <2>1, <2>3
<1>4. PICK f : RunsThrough(n, Inv, a, step, f)
  <2>1. \A k \in 1 .. n : \A x \in Inv[k - 1] : step[k][x] \in Inv[k]
    <3> HIDE DEF Inv, Step
    <3> QED
      BY <1>3
  <2> HIDE DEF n, Inv, a, step
  <2> QED
    BY <1>1, <1>2, <2>1, LoopRuns
<1>5. f = [k \in 0 .. n |-> IF k = 0 THEN a ELSE Step(f[k - 1], k)]
  <2> HIDE DEF Inv, a, Step
  <2>1. ASSUME NEW k \in 1 .. n PROVE f[k] = Step(f[k - 1], k)
    <3>1. k - 1 \in 0 .. n
      BY <1>1
    <3>2. f[k - 1] \in Inv[k - 1] /\ f[k] = step[k][f[k - 1]]
      BY <1>4, <3>1 DEF RunsThrough
    <3> QED
      BY <3>2
  <2>2. f = [k \in 0 .. n |-> f[k]] /\ f[0] = a
    BY <1>4 DEF RunsThrough
  <2> HIDE DEF n
  <2>3. \A k \in 0 .. n : k = 0 \/ k \in 1 .. n
    BY <1>1
  <2> QED
    BY <2>1, <2>2, <2>3
<1>6. acc = [k \in 0 .. n |-> IF k = 0 THEN a ELSE Step(acc[k - 1], k)]
  BY <1>5 DEF VictimLoop
<1> HIDE DEF acc, a, Step
<1>7. acc[0] = a /\ \A k \in 1 .. n : acc[k] = Step(acc[k - 1], k)
  <2>1. \A k \in 0 .. n : acc[k] = IF k = 0 THEN a ELSE Step(acc[k - 1], k)
    BY <1>6
  <2> HIDE DEF n
  <2> QED
    BY <1>1, <2>1
<1>8. acc[n] \in Inv[n]
  <2> HIDE DEF Inv, n
  <2>1. \A k \in 1 .. n : acc[k - 1] \in Inv[k - 1] => acc[k] \in Inv[k]
    BY <1>3, <1>7
  <2>2. \A k \in 0 .. n : acc[k] \in Inv[k]
    BY <1>1, <1>2, <1>7, <2>1, LoopKeeps
  <2> QED
    BY <1>1, <2>2
<1>9. n \in 0 .. n
  BY <1>1
<1> QED
  BY <1>8, <1>9 DEF acc, PotentialVictims

----------------------------------------------------------------------------
(* Preemption: what the plugins promise.                                   *)

(* All pods of an input.                                                   *)
PodsOf(in) == ToSet(in.pods) \cup in.nominated \cup {in.pod}

LEMMA InputPods ==
  ASSUME NEW in, PreemptionInput(in)
  PROVE  /\ Requesting(PodsOf(in)) /\ in.pod \in PodsOf(in) /\ in.nominated \in SUBSET PodsOf(in)
         /\ ToSet(in.pods) \in SUBSET PodsOf(in) /\ in.capacity \in [Res -> Nat]
         /\ in.pods \in Seq(ToSet(in.pods)) /\ Distinct(ToSet(in.pods)) /\ in.pod.prio \in Int
         /\ \A p \in ToSet(in.pods) : p.prio \in Int /\ p.start \in Int
         /\ \A i, j \in 1 .. Len(in.pods) : in.pods[i] = in.pods[j] => i = j
<1>1. PICK pods, N, pod : pods = in.pods /\ N = in.nominated /\ pod = in.pod
  OBVIOUS
<1>2. PICK P : P = ToSet(pods)
  OBVIOUS
<1>3. pods \in Seq(P) /\ DOMAIN pods = 1 .. Len(pods) /\ IsFiniteSet(P) /\ IsFiniteSet(N)
  BY <1>1, <1>2, SequenceFinite, LenProperties DEF PreemptionInput
<1>4. P = {pods[i] : i \in DOMAIN pods}
  BY <1>2 DEF ToSet
<1>5. \A i, j \in DOMAIN pods : pods[i].uid = pods[j].uid => i = j
  BY <1>1 DEF PreemptionInput
<1>6. Distinct(P)
  BY <1>4, <1>5 DEF Distinct
<1>7. \A i, j \in 1 .. Len(pods) : pods[i] = pods[j] => i = j
  BY <1>3, <1>5
<1>8. IsFiniteSet(P \cup N \cup {pod})
  <2>1. IsFiniteSet(P \cup N)
    BY <1>3, FS_Union
  <2>2. IsFiniteSet({pod})
    BY FS_Singleton
  <2> QED
    BY <2>1, <2>2, FS_Union
<1>9. Requesting(PodsOf(in))
  BY <1>1, <1>2, <1>8 DEF Requesting, PodsOf, PreemptionInput
<1>10. \A p \in P \cup {pod} : p.prio \in Int /\ p.start \in Int
  BY <1>1, <1>2 DEF PreemptionInput
<1> QED
  BY <1>1, <1>2, <1>3, <1>6, <1>7, <1>9, <1>10 DEF PodsOf, PreemptionInput

(* The candidates of a reprieve are the pods that were found.              *)
LEMMA CandidatesFound ==
  ASSUME NEW S, NEW found \in Seq(S), \A p \in S : p.prio \in Int /\ p.start \in Int,
         NEW pdbs, \A i \in DOMAIN pdbs : pdbs[i].allowed \in Int,
         NEW groups, groups = filterPodsWithPDBViolation(MostImportantFirst(found), pdbs)
  PROVE  /\ groups.violating \o groups.nonViolating \in Seq(S)
         /\ ToSet(groups.violating \o groups.nonViolating) = ToSet(found)
<1>1. PICK s : s = MostImportantFirst(found)
  OBVIOUS
<1>2. s \in Seq(S) /\ ToSet(s) = ToSet(found)
  BY <1>1, SortedSet
<1>3. /\ groups.violating \in Seq(S) /\ groups.nonViolating \in Seq(S)
      /\ ToSet(groups.violating) \cup ToSet(groups.nonViolating) = ToSet(s)
  BY <1>1, <1>2, BudgetGroups
<1>4. PICK v, w : v = groups.violating /\ w = groups.nonViolating
  OBVIOUS
<1>5. v \o w \in Seq(S) /\ ToSet(v \o w) = ToSet(v) \cup ToSet(w)
  BY <1>3, <1>4, ConcatenatedSet
<1> QED
  BY <1>2, <1>3, <1>4, <1>5

LEMMA SeqWidened ==
  ASSUME NEW S, NEW T, S \subseteq T, NEW s \in Seq(S)
  PROVE  s \in Seq(T)
<1>1. Len(s) \in Nat /\ s \in [1 .. Len(s) -> S]
  BY LenProperties
<1>2. s \in [1 .. Len(s) -> T]
  BY <1>1
<1> QED
  BY <1>1, <1>2

(* What PreemptionToleration decides: the potential victims are the pods   *)
(* of a lower priority that are not exempted, a choice among them makes    *)
(* room and none of it could stay, and without a choice all of them do not *)
(* make room.                                                              *)
Chosen(in) == {p \in ToSet(in.pods) : Victim(in.classes, in.pod, in.now, p)}

TolerantOutcome(in, out) ==
  /\ \A p \in ToSet(in.pods) : p.prio < in.pod.prio => ~ClassMissing(in.classes, p)
  /\ out.victims \subseteq Chosen(in)
  /\ out.code # "Success" => out.victims = {} /\ (Chosen(in) = {} \/ ~Fits(in, Chosen(in)))
  /\ out.code = "Success" =>
       Fits(in, out.victims) /\ \A v \in out.victims : ~Fits(in, out.victims \ {v})

LEMMA TolerantDecision ==
  ASSUME NEW in, PreemptionInput(in), NEW out,
         out = TolerantVictims(in.classes, in.pod, in.now, in.pods, in.pdbs, in.nominated, in.capacity),
         out.code # "Error"
  PROVE  TolerantOutcome(in, out)
<1>1. PICK pods, pod, P, U, chosen : /\ pods = in.pods /\ pod = in.pod /\ P = ToSet(pods)
                                     /\ U = PodsOf(in) /\ chosen = Chosen(in)
  OBVIOUS
<1>2. PICK loop : loop = PotentialVictims(in.classes, in.pod, in.now, in.pods)
  OBVIOUS
<1>3. PICK left : left = {loop.array[k] : k \in 1 .. loop.n}
  OBVIOUS
<1>4. PICK groups : groups = filterPodsWithPDBViolation(MostImportantFirst(loop.found), in.pdbs)
  OBVIOUS
<1>5. PICK q : q = groups.violating \o groups.nonViolating
  OBVIOUS
<1>6. PICK end : end = TryReprieveLoop(in.pod, in.nominated, in.capacity, left, q)[Len(q)]
  OBVIOUS
<1>7. out = IF loop.failed THEN NoVictims("Error")
            ELSE IF loop.found = << >> THEN NoVictims("UnschedulableAndUnresolvable")
            ELSE IF ~RunFilterPlugins(in.pod, left, in.nominated, in.capacity)
              THEN NoVictims("Unschedulable")
            ELSE [code |-> "Success", victims |-> end.victims,
                  violating |-> Cardinality(end.victims \cap ToSet(groups.violating))]
  BY <1>2, <1>3, <1>4, <1>5, <1>6, ZenonT(60) DEF TolerantVictims
<1>8. /\ Requesting(U) /\ pod \in U /\ in.nominated \in SUBSET U /\ P \in SUBSET U
      /\ in.capacity \in [Res -> Nat] /\ pods \in Seq(P) /\ Distinct(P) /\ pod.prio \in Int
      /\ \A p \in P : p.prio \in Int /\ p.start \in Int
      /\ \A i, j \in 1 .. Len(pods) : pods[i] = pods[j] => i = j
  BY <1>1, InputPods
<1>9. loop \in SearchState(pods) /\ SearchedSoFar(in.classes, pod, in.now, pods, Len(pods), loop)
  BY <1>1, <1>2, <1>8, SearchAll
<1>10. ~loop.failed
  BY <1>7 DEF NoVictims
<1>11. loop.found \in Seq(P)
  BY <1>1, <1>9 DEF SearchState
<1>12. First(pods, Len(pods)) = P
  BY <1>1, <1>8, FirstPods
<1>13. /\ left = P \ ToSet(loop.found)
       /\ ToSet(loop.found) = {p \in P : Victim(in.classes, pod, in.now, p)}
       /\ \A p \in P : p.prio < pod.prio => ~ClassMissing(in.classes, p)
  BY <1>1, <1>3, <1>9, <1>10, <1>12 DEF SearchedSoFar, OnNode
<1>14. ToSet(loop.found) = chosen /\ chosen \subseteq P
  BY <1>1, <1>13 DEF Chosen
<1>15. q \in Seq(P) /\ ToSet(q) = chosen
  <2>1. \A i \in DOMAIN in.pdbs : in.pdbs[i].allowed \in Int
    BY DEF PreemptionInput
  <2> QED
    BY <1>4, <1>5, <1>8, <1>11, <1>14, <2>1, CandidatesFound
<1>16. q \in Seq(U)
  BY <1>8, <1>15, SeqWidened
<1>17. CASE loop.found = << >>
  <2>1. out.code # "Success" /\ out.victims = {}
    BY <1>7, <1>10, <1>17 DEF NoVictims
  <2>2. chosen = {}
    BY <1>14, <1>17 DEF ToSet
  <2> QED
    BY <1>1, <1>13, <2>1, <2>2 DEF TolerantOutcome
<1>18. CASE loop.found # << >> /\ ~RunFilterPlugins(in.pod, left, in.nominated, in.capacity)
  <2>1. out.code # "Success" /\ out.victims = {}
    BY <1>7, <1>10, <1>18 DEF NoVictims
  <2>2. ~Fits(in, chosen)
    BY <1>1, <1>13, <1>14, <1>18 DEF Fits
  <2> QED
    BY <1>1, <1>13, <2>1, <2>2 DEF TolerantOutcome
<1>19. CASE loop.found # << >> /\ RunFilterPlugins(in.pod, left, in.nominated, in.capacity)
  <2>1. out.code = "Success" /\ out.victims = end.victims
    BY <1>7, <1>10, <1>19
  <2>2. left \in SUBSET U
    BY <1>8, <1>13
  <2>3. end \in TriedState(U) /\ TriedSoFar(pod, in.nominated, in.capacity, left, q, Len(q), end)
    BY <1>1, <1>6, <1>8, <1>16, <1>19, <2>2, TriedAll
  <2>4. First(q, Len(q)) = chosen
    BY <1>15, FirstPods
  <2>5. PICK on, victims : on = end.on /\ victims = end.victims
    OBVIOUS
  <2>6. /\ on \cup victims = P /\ victims \subseteq chosen
        /\ RunFilterPlugins(pod, on, in.nominated, in.capacity)
        /\ \A v \in victims : ~RunFilterPlugins(pod, on \cup {v}, in.nominated, in.capacity)
    BY <1>13, <1>14, <2>3, <2>4, <2>5 DEF TriedSoFar
  <2>7. ASSUME NEW v \in victims PROVE v \notin on
    <3>1. v \in on => on \cup {v} = on
      OBVIOUS
    <3> QED
      BY <2>6, <3>1
  <2>8. on = P \ victims
    BY <2>6, <2>7
  <2>9. Fits(in, victims)
    BY <1>1, <2>6, <2>8 DEF Fits
  <2>10. ASSUME NEW v \in victims PROVE ~Fits(in, victims \ {v})
    <3>1. P \ (victims \ {v}) = on \cup {v}
      BY <2>6, <2>8
    <3> QED
      BY <1>1, <2>6, <3>1 DEF Fits
  <2> QED
    BY <1>1, <1>13, <2>1, <2>5, <2>6, <2>9, <2>10 DEF TolerantOutcome
<1> QED
  BY <1>17, <1>18, <1>19

(* A toleration of no seconds is over at once.                             *)
LEMMA NoDuration == Duration(0) = 0
<1>1. PICK d \in Nat \ {0} : d = DurationLimit
  BY TolerationAssumption
<1>2. (0 + d) % (2 * d) = d
  BY <1>1
<1> QED
  BY <1>1, <1>2 DEF Duration

(* No duration is longer than it is meant to be, and one that fits is as   *)
(* long as that.                                                           *)
LEMMA DurationIs ==
  ASSUME NEW s \in Int
  PROVE  /\ Duration(s) \in Int
         /\ s >= 0 => Duration(s) <= s
         /\ s >= 0 /\ s < DurationLimit => Duration(s) = s
<1>1. PICK d \in Nat \ {0} : d = DurationLimit
  BY TolerationAssumption
<1>2. PICK m \in Nat \ {0} : m = 2 * d
  <2>1. 2 * d \in Nat \ {0}
    BY <1>1
  <2> QED
    BY <2>1
<1>3. PICK x \in Int : x = s + d
  OBVIOUS
<1>4. Duration(s) = (x % m) - d
  BY <1>1, <1>2, <1>3 DEF Duration
<1>5. x % m \in Int
  OBVIOUS
<1>6. x >= 0 => x % m <= x
  <2> SUFFICES ASSUME x >= 0 PROVE x % m <= x
    OBVIOUS
  <2>1. PICK q \in Nat : q = x \div m
    OBVIOUS
  <2>2. x = m * q + (x % m)
    BY <2>1
  <2>3. m * q \in Nat
    OBVIOUS
  <2> QED
    BY <1>5, <2>2, <2>3
<1>7. x >= 0 /\ x < m => x % m = x
  OBVIOUS
<1>8. s >= 0 => x >= 0
  BY <1>1, <1>3
<1>9. s >= 0 /\ s < DurationLimit => x < m
  BY <1>1, <1>2, <1>3
<1> QED
  BY <1>1, <1>3, <1>4, <1>5, <1>6, <1>7, <1>8, <1>9

(* What a class states exempts, unless it is too long, and nothing else    *)
(* does.                                                                   *)
LEMMA ProtectedExempted ==
  ASSUME NEW in \in TolerationInputs, NEW p \in ToSet(in.pods), p.prio \in Int, in.pod.prio \in Int,
         ~ClassMissing(in.classes, p)
  PROVE  /\ Protected(in, p) /\ ~TooLong(in, p)
              => ExemptedFromPreemption(in.classes, p, in.pod, in.now)
         /\ ~in.pod.never /\ p.scheduled # None
              /\ ExemptedFromPreemption(in.classes, p, in.pod, in.now) => Protected(in, p)
<1>1. PICK class, minimum, seconds, value :
        /\ class = in.classes[p.class] /\ minimum = class.minimum
        /\ seconds = class.seconds /\ value = class.value
  OBVIOUS
<1>2. None \notin Int /\ Bad \notin Int /\ Bad # None /\ None \notin DOMAIN in.classes
  BY TolerationAssumption
<1>3. in.now \in Int /\ (p.scheduled = None \/ (p.scheduled \in Int /\ p.scheduled <= in.now))
  BY TolerationAssumption
<1>4. p.class \in DOMAIN in.classes =>
        value \in Int /\ minimum \in Int \cup {None, Bad} /\ seconds \in Int \cup {None, Bad}
  BY <1>1, TolerationAssumption
<1>5. PICK policy : policy = parsePreemptionTolerationPolicy(class)
  OBVIOUS
<1>6. /\ policy.minimum = IF minimum = None THEN value + 1 ELSE minimum
      /\ policy.seconds = IF seconds = None THEN 0 ELSE seconds
  BY <1>1, <1>5 DEF parsePreemptionTolerationPolicy
<1>7. p.class # None <=> p.class \in DOMAIN in.classes
  BY <1>2 DEF ClassMissing
<1>8. ASSUME p.class \in DOMAIN in.classes, minimum # Bad
      PROVE  in.pod.prio < policy.minimum <=>
               IF minimum = None THEN in.pod.prio <= value ELSE in.pod.prio < minimum
  <2>1. value \in Int /\ (minimum = None \/ minimum \in Int)
    BY <1>4, <1>8
  <2> QED
    BY <1>6, <2>1
<1>9. PICK d : d = Duration(seconds)
  OBVIOUS
<1>10. /\ seconds \in Int => d \in Int
       /\ seconds \in Int /\ seconds >= 0 => d <= seconds
       /\ seconds \in Int /\ seconds >= 0 /\ seconds < DurationLimit => d = seconds
  BY <1>9, DurationIs
<1>11. ASSUME Protected(in, p), ~TooLong(in, p)
       PROVE  ExemptedFromPreemption(in.classes, p, in.pod, in.now)
  <2>1. /\ p.class \in DOMAIN in.classes /\ Bad \notin {minimum, seconds}
        /\ IF minimum = None THEN in.pod.prio <= value ELSE in.pod.prio < minimum
        /\ seconds # None
        /\ seconds < 0 \/ p.scheduled = None \/ in.now - p.scheduled < seconds
        /\ ~(seconds >= DurationLimit)
    BY <1>1, <1>11 DEF Protected, TooLong
  <2>2. seconds \in Int /\ d \in Int /\ policy.seconds = seconds
    BY <1>4, <1>6, <1>10, <2>1
  <2>3. in.pod.prio < policy.minimum
    BY <1>8, <2>1
  <2>6. seconds < 0 \/ d = seconds
    BY <1>10, <2>1, <2>2, TolerationAssumption
  <2>4. seconds < 0 \/ p.scheduled = None \/ p.scheduled + d > in.now
    BY <1>3, <2>1, <2>2, <2>6
  <2>5. Tolerates(policy, p, in.pod, in.now)
    BY <1>9, <2>2, <2>3, <2>4 DEF Tolerates
  <2> QED
    BY <1>1, <1>5, <1>7, <2>1, <2>5 DEF ExemptedFromPreemption
<1>12. ASSUME ~in.pod.never, p.scheduled # None,
              ExemptedFromPreemption(in.classes, p, in.pod, in.now)
       PROVE  Protected(in, p)
  <2>1. p.class \in DOMAIN in.classes /\ Bad \notin {minimum, seconds}
    BY <1>1, <1>7, <1>12 DEF ExemptedFromPreemption
  <2>2. Tolerates(policy, p, in.pod, in.now)
    BY <1>1, <1>5, <1>12 DEF ExemptedFromPreemption
  <2>3. /\ in.pod.prio < policy.minimum
        /\ policy.seconds < 0 \/ p.scheduled + Duration(policy.seconds) > in.now
    BY <1>12, <2>2 DEF Tolerates
  <2>4. p.scheduled \in Int /\ p.scheduled <= in.now
    BY <1>3, <1>12
  <2>5. seconds # None
    <3> SUFFICES ASSUME seconds = None PROVE FALSE
      OBVIOUS
    <3>1. policy.seconds = 0
      BY <1>6
    <3>2. p.scheduled + 0 > in.now
      BY <2>3, <3>1, NoDuration
    <3> QED
      BY <1>3, <2>4, <3>2
  <2>6. seconds \in Int /\ d \in Int /\ policy.seconds = seconds
    BY <1>4, <1>6, <1>10, <2>1, <2>5
  <2>7. seconds < 0 \/ in.now - p.scheduled < seconds
    <3>1. seconds < 0 \/ p.scheduled + d > in.now
      BY <1>9, <2>3, <2>6
    <3>2. seconds < 0 \/ d <= seconds
      BY <1>10, <2>6
    <3> QED
      BY <1>3, <2>4, <2>6, <3>1, <3>2
  <2>8. IF minimum = None THEN in.pod.prio <= value ELSE in.pod.prio < minimum
    BY <1>8, <2>1, <2>3
  <2> QED
    BY <1>1, <2>1, <2>5, <2>7, <2>8 DEF Protected
<1> QED
  BY <1>11, <1>12

(* The pods without those that could be taken are no less than those       *)
(* without a part of them.                                                 *)
LEMMA FitsMonotone ==
  ASSUME NEW in, PreemptionInput(in), NEW A, NEW B, A \subseteq B, Fits(in, A)
  PROVE  Fits(in, B)
<1>1. PICK U, T, V : /\ U = PodsOf(in) /\ T = ToSet(in.pods) \ A /\ V = ToSet(in.pods) \ B
  OBVIOUS
<1>2. T \in SUBSET U /\ V \in SUBSET T
  BY <1>1, InputPods
<1>3. RunFilterPlugins(in.pod, T, in.nominated, in.capacity)
  BY <1>1 DEF Fits
<1>4. RunFilterPlugins(in.pod, V, in.nominated, in.capacity)
  BY <1>1, <1>2, <1>3, InputPods, FiltersMonotone
<1> QED
  BY <1>1, <1>4 DEF Fits

LEMMA TolerationKept ==
  ASSUME NEW in \in TolerationInputs, NEW out, TolerantOutcome(in, out)
  PROVE  LET lower == {p \in ToSet(in.pods) : p.prio < in.pod.prio}
             open == {p \in lower : ~Protected(in, p) /\ p.scheduled # None}
         IN  /\ \A v \in out.victims : v \in lower /\ (Protected(in, v) => TooLong(in, v))
             /\ out.code # "Success" => open = {} \/ ~Fits(in, open) \/ in.pod.never
<1>1. PICK lower : lower = {p \in ToSet(in.pods) : p.prio < in.pod.prio}
  OBVIOUS
<1>2. PICK open : open = {p \in lower : ~Protected(in, p) /\ p.scheduled # None}
  OBVIOUS
<1>3. PreemptionInput(in)
  BY TolerationAssumption
<1>4. in.pod.prio \in Int /\ \A p \in ToSet(in.pods) : p.prio \in Int
  BY <1>3, InputPods
<1>5. PICK chosen : chosen = Chosen(in)
  OBVIOUS
<1>6. \A p \in lower : ~ClassMissing(in.classes, p) /\ p \in ToSet(in.pods) /\ p.prio < in.pod.prio
  BY <1>1 DEF TolerantOutcome
<1>7. ASSUME NEW v \in chosen PROVE v \in lower /\ (Protected(in, v) => TooLong(in, v))
  <2>1. v \in ToSet(in.pods) /\ v.prio < in.pod.prio
        /\ ~ExemptedFromPreemption(in.classes, v, in.pod, in.now)
    BY <1>5, <1>7 DEF Chosen, Victim
  <2>2. v \in lower
    BY <1>1, <2>1
  <2> QED
    BY <1>4, <1>6, <2>1, <2>2, ProtectedExempted
<1>8. ASSUME ~in.pod.never PROVE open \subseteq chosen
  <2> SUFFICES ASSUME NEW p \in open PROVE p \in chosen
    OBVIOUS
  <2>1. p \in lower /\ ~Protected(in, p) /\ p.scheduled # None
    BY <1>2
  <2>2. ~ExemptedFromPreemption(in.classes, p, in.pod, in.now)
    BY <1>4, <1>6, <1>8, <2>1, ProtectedExempted
  <2> QED
    BY <1>5, <1>6, <2>1, <2>2 DEF Chosen, Victim
<1>9. out.victims \subseteq chosen
  BY <1>5 DEF TolerantOutcome
<1>10. ASSUME out.code # "Success", ~in.pod.never PROVE open = {} \/ ~Fits(in, open)
  <2>1. chosen = {} \/ ~Fits(in, chosen)
    BY <1>5, <1>10 DEF TolerantOutcome
  <2>2. CASE chosen = {}
    BY <1>8, <1>10, <2>2
  <2>3. CASE ~Fits(in, chosen)
    BY <1>3, <1>8, <1>10, <2>3, FitsMonotone
  <2> QED
    BY <2>1, <2>2, <2>3
<1> QED
  BY <1>1, <1>2, <1>7, <1>9, <1>10

LEMMA TolerationCalled ==
  ASSUME PreemptTolerant
  PROVE  \E in, out :
           /\ in \in TolerationInputs /\ call' = [op |-> "toleration", in |-> in, out |-> out]
           /\ IF ~Eligible(in.pod, in.isNominated, ToSet(in.pods)) THEN out = NoVictims("NotEligible")
              ELSE out = TolerantVictims(in.classes, in.pod, in.now, in.pods, in.pdbs,
                                         in.nominated, in.capacity)
<1>1. PICK in \in TolerationInputs :
        call' = [op |-> "toleration", in |-> in, out |->
                   IF ~Eligible(in.pod, in.isNominated, ToSet(in.pods)) THEN NoVictims("NotEligible")
                   ELSE TolerantVictims(in.classes, in.pod, in.now, in.pods, in.pdbs,
                                        in.nominated, in.capacity)]
  BY Zenon DEF PreemptTolerant, Called
<1>2. PICK x : x = TolerantVictims(in.classes, in.pod, in.now, in.pods, in.pdbs,
                                   in.nominated, in.capacity)
  OBVIOUS
<1>3. PICK out : out = IF ~Eligible(in.pod, in.isNominated, ToSet(in.pods))
                         THEN NoVictims("NotEligible") ELSE x
  OBVIOUS
<1>4. call' = [op |-> "toleration", in |-> in, out |-> out]
  BY <1>1, <1>2, <1>3
<1> QED
  BY <1>2, <1>3, <1>4

(* PreemptTolerant: whatever pods, classes and budgets there are, the      *)
(* victims have a lower priority and no class that has them tolerate the   *)
(* preemption for a time that a time.Duration can say, and the plugin      *)
(* gives up only where it must; the pods that RemovePod moves in the array *)
(* are neither skipped nor visited twice.                                  *)
THEOREM TolerationIsHonoured == Spec => []TolerationHonoured
<1>1. Init => TolerationHonoured
  BY DEF Init, NoCall, TolerationHonoured
<1>2. TolerationHonoured /\ [Next]_call => TolerationHonoured'
  <2>1. ASSUME TolerationHonoured, call' = call PROVE TolerationHonoured'
    BY <2>1, Zenon DEF TolerationHonoured
  <2>2. call'.op # "toleration" => TolerationHonoured'
    BY DEF TolerationHonoured
  <2> SUFFICES ASSUME TolerationHonoured, PreemptTolerant, call'.op = "toleration"
               PROVE  TolerationHonoured'
    BY <2>1, <2>2, Returns DEF OnlyBy
  <2>3. PICK in, out :
          /\ in \in TolerationInputs /\ call' = [op |-> "toleration", in |-> in, out |-> out]
          /\ IF ~Eligible(in.pod, in.isNominated, ToSet(in.pods)) THEN out = NoVictims("NotEligible")
             ELSE out = TolerantVictims(in.classes, in.pod, in.now, in.pods, in.pdbs,
                                        in.nominated, in.capacity)
    BY TolerationCalled
  <2>4. call'.in = in /\ call'.out = out
    BY <2>3
  <2>5. PICK lower : lower = {p \in ToSet(in.pods) : p.prio < in.pod.prio}
    OBVIOUS
  <2>6. PICK open : open = {p \in lower : ~Protected(in, p) /\ p.scheduled # None}
    OBVIOUS
  <2>7. ASSUME out.code # "Error"
        PROVE  /\ \A v \in out.victims : v \in lower /\ (Protected(in, v) => TooLong(in, v))
               /\ out.code # "Success" =>
                    \/ open = {} \/ ~Fits(in, open) \/ in.pod.never
                    \/ in.isNominated /\ \E p \in lower : p.deleting
    <3>1. CASE ~Eligible(in.pod, in.isNominated, ToSet(in.pods))
      <4>1. out.victims = {}
        BY <2>3, <3>1 DEF NoVictims
      <4>2. in.pod.never \/ (in.isNominated /\ \E p \in lower : p.deleting)
        BY <2>5, <3>1 DEF Eligible
      <4> QED
        BY <4>1, <4>2
    <3>2. CASE Eligible(in.pod, in.isNominated, ToSet(in.pods))
      <4>1. PreemptionInput(in)
        BY <2>3, TolerationAssumption
      <4>2. TolerantOutcome(in, out)
        BY <2>3, <2>7, <3>2, <4>1, TolerantDecision
      <4> QED
        BY <2>3, <2>5, <2>6, <4>2, TolerationKept
    <3> QED
      BY <3>1, <3>2
  <2> QED
    BY <2>4, <2>5, <2>6, <2>7 DEF TolerationHonoured
<1> QED
  BY <1>1, <1>2, PTL DEF Spec

----------------------------------------------------------------------------
(* Preemption by quota.                                                    *)

(* Quotas whose limits are not negative.                                   *)
Limited(quotas) ==
  /\ IsFiniteSet(DOMAIN quotas)
  /\ \A ns \in DOMAIN quotas : quotas[ns].min \in [Res -> Nat] /\ quotas[ns].max \in [Res -> Nat]

LEMMA UseGrows ==
  ASSUME NEW U, Requesting(U), NEW V \in SUBSET U, NEW T \in SUBSET V, NEW quotas,
         NEW ns \in DOMAIN quotas, NEW r \in Res
  PROVE  /\ Counted(quotas, T)[ns].used \in [Res -> Nat] /\ Counted(quotas, V)[ns].used \in [Res -> Nat]
         /\ Counted(quotas, T)[ns].used[r] <= Counted(quotas, V)[ns].used[r]
<1>1. PICK A, B : A = In(ns, T) /\ B = In(ns, V)
  OBVIOUS
<1>2. B \in SUBSET U /\ A \in SUBSET B /\ A \in SUBSET U
  BY <1>1 DEF In
<1>3. Requested(A) \in [Res -> Nat] /\ Requested(B) \in [Res -> Nat]
  BY <1>2, RequestedType
<1>4. Requested(A)[r] <= Requested(B)[r]
  BY <1>2, RequestedGrows
<1> QED
  BY <1>1, <1>3, <1>4, CountedFields

(* With more pods a quota is over its min if it is with less.              *)
LEMMA OverMinGrows ==
  ASSUME NEW U, Requesting(U), NEW V \in SUBSET U, NEW T \in SUBSET V, NEW quotas, Limited(quotas),
         NEW ns \in DOMAIN quotas, usedOverMin(Counted(quotas, T)[ns])
  PROVE  usedOverMin(Counted(quotas, V)[ns])
<1>1. PICK x, z, y : /\ x = Counted(quotas, T)[ns].used /\ z = Counted(quotas, V)[ns].used
                     /\ y = quotas[ns].min
  OBVIOUS
<1>2. x \in [Res -> Nat] /\ z \in [Res -> Nat] /\ \A r \in Res : x[r] <= z[r]
  <2>1. \A r \in Res : x \in [Res -> Nat] /\ z \in [Res -> Nat] /\ x[r] <= z[r]
    BY <1>1, UseGrows
  <2>2. x \in [Res -> Nat] /\ z \in [Res -> Nat]
    <3>1. x = Requested(In(ns, T)) /\ z = Requested(In(ns, V))
      BY <1>1, CountedFields
    <3>2. In(ns, T) \in SUBSET U /\ In(ns, V) \in SUBSET U
      BY DEF In
    <3> QED
      BY <3>1, <3>2, RequestedType
  <2> QED
    BY <2>1, <2>2
<1>3. y \in [Res -> Nat] /\ Zero \in [Res -> Nat]
  BY <1>1 DEF Limited, Zero
<1>4. cmp2(x, Zero, y)
  BY <1>1, CountedFields DEF usedOverMin, cmp
<1>5. \A r \in Res : Zero[r] <= Zero[r]
  BY <1>3
<1>6. PICK zero : zero = Zero
  OBVIOUS
<1>7. cmp2(z, zero, y)
  BY <1>2, <1>3, <1>4, <1>5, <1>6, OverMonotone
<1> QED
  BY <1>1, <1>6, <1>7, CountedFields DEF usedOverMin, cmp

(* Another quota gives back what it has borrowed: the pod stays in the min *)
(* of its own, and of those found in the other the last is taken while the *)
(* other is over its min.                                                  *)
GivesBack(quotas, pods, before, pfs, pod, found) ==
  \A ns \in DOMAIN quotas \ {pod.ns} : \A M \in SUBSET In(ns, found) :
    M # {} => /\ ~usedOverMinWith(before[pod.ns], pfs.inEQ)
              /\ \E last \in M : usedOverMin(Counted(quotas, pods \ (M \ {last}))[ns])

RemovedState(quotas, P) == [infos : {Counted(quotas, T) : T \in SUBSET P}, found : Seq(P)]

RemovedSoFar(quotas, P, before, pfs, pod, x) ==
  /\ x.infos = Counted(quotas, P \ ToSet(x.found))
  /\ GivesBack(quotas, P, before, pfs, pod, ToSet(x.found))

LEMMA RemovedStep ==
  ASSUME NEW P, Requesting(P), Distinct(P), NEW quotas, Limited(quotas), NEW before,
         before = Counted(quotas, P), NEW pfs, NEW pod, NEW p \in P,
         NEW x \in RemovedState(quotas, P), RemovedSoFar(quotas, P, before, pfs, pod, x)
  PROVE  /\ RemoveVictim(before, pfs, pod, x, p) \in RemovedState(quotas, P)
         /\ RemovedSoFar(quotas, P, before, pfs, pod, RemoveVictim(before, pfs, pod, x, p))
<1>1. PICK y : y = RemoveVictim(before, pfs, pod, x, p)
  OBVIOUS
<1>2. PICK infos \in {Counted(quotas, T) : T \in SUBSET P}, found \in Seq(P) :
        x = [infos |-> infos, found |-> found]
  BY DEF RemovedState
<1>3. x.infos = infos /\ x.found = found
  BY <1>2
<1>4. PICK F : F = ToSet(found)
  OBVIOUS
<1>5. infos = Counted(quotas, P \ F) /\ GivesBack(quotas, P, before, pfs, pod, F)
  BY <1>3, <1>4 DEF RemovedSoFar
<1>6. CASE ~IsPotentialVictim(before, infos, pfs, pod, p)
  <2>1. y = x
    BY <1>1, <1>3, <1>6 DEF RemoveVictim
  <2> QED
    BY <1>1, <2>1
<1>7. CASE IsPotentialVictim(before, infos, pfs, pod, p)
  <2>1. y = [infos |-> UncountPod(infos, p), found |-> Append(found, p)]
    BY <1>1, <1>3, <1>7 DEF RemoveVictim
  <2>2. PICK G : G = F \cup {p}
    OBVIOUS
  <2>3. Append(found, p) \in Seq(P) /\ ToSet(Append(found, p)) = G
    BY <1>4, <2>2, AppendedSet
  <2>4. UncountPod(infos, p) = Counted(quotas, P \ G)
    <3>1. PICK T : T = P \ F
      OBVIOUS
    <3>2. T \in SUBSET P /\ T \ {p} = P \ G
      BY <2>2, <3>1
    <3>3. UncountPod(Counted(quotas, T), p) = Counted(quotas, T \ {p})
      BY <3>2, UncountingRemoves
    <3> QED
      BY <1>5, <3>1, <3>2, <3>3
  <2>5. P \ G \in SUBSET P
    OBVIOUS
  <2>6. y \in RemovedState(quotas, P) /\ y.infos = Counted(quotas, P \ G) /\ ToSet(y.found) = G
    BY <2>1, <2>3, <2>4, <2>5 DEF RemovedState
  <2>7. GivesBack(quotas, P, before, pfs, pod, G)
    <3> SUFFICES ASSUME NEW ns \in DOMAIN quotas \ {pod.ns}, NEW M \in SUBSET In(ns, G), M # {}
                 PROVE  /\ ~usedOverMinWith(before[pod.ns], pfs.inEQ)
                        /\ \E last \in M : usedOverMin(Counted(quotas, P \ (M \ {last}))[ns])
      BY DEF GivesBack
    <3>1. CASE p \notin M
      <4>1. M \in SUBSET In(ns, F)
        BY <2>2, <3>1 DEF In
      <4> QED
        BY <1>5, <4>1 DEF GivesBack
    <3>2. CASE p \in M
      <4>1. p.ns = ns
        BY <3>2 DEF In
      <4>2. DOMAIN before = DOMAIN quotas
        BY CountedInfo
      <4>3. ~usedOverMinWith(before[pod.ns], pfs.inEQ) /\ usedOverMin(infos[ns])
        BY <1>7, <4>1, <4>2 DEF IsPotentialVictim
      <4>4. PICK T, V : T = P \ F /\ V = P \ (M \ {p})
        OBVIOUS
      <4>5. M \ {p} \subseteq F
        BY <2>2 DEF In
      <4>6. V \in SUBSET P /\ T \in SUBSET V
        BY <4>4, <4>5
      <4>7. usedOverMin(Counted(quotas, T)[ns])
        BY <1>5, <4>3, <4>4
      <4>8. usedOverMin(Counted(quotas, V)[ns])
        BY <4>6, <4>7, OverMinGrows
      <4> QED
        BY <3>2, <4>3, <4>4, <4>8
    <3> QED
      BY <3>1, <3>2
  <2>8. RemovedSoFar(quotas, P, before, pfs, pod, y)
    BY <2>6, <2>7 DEF RemovedSoFar
  <2> QED
    BY <1>1, <2>6, <2>8
<1> QED
  BY <1>6, <1>7

LEMMA RemovedAll ==
  ASSUME NEW P, Requesting(P), Distinct(P), NEW quotas, Limited(quotas), NEW before,
         before = Counted(quotas, P), NEW pfs, NEW pod, NEW pods \in Seq(P)
  PROVE  LET end == RemoveLoop(before, pfs, pod, pods)[Len(pods)]
         IN  end \in RemovedState(quotas, P) /\ RemovedSoFar(quotas, P, before, pfs, pod, end)
<1> DEFINE n == Len(pods)
           Step(x, k) == RemoveVictim(before, pfs, pod, x, pods[k])
           a == [infos |-> before, found |-> << >>]
           acc == RemoveLoop(before, pfs, pod, pods)
           Inv == [k \in 0 .. n |-> {x \in RemovedState(quotas, P) : RemovedSoFar(quotas, P, before, pfs, pod, x)}]
           step == [k \in 1 .. n |-> [x \in Inv[k - 1] |-> Step(x, k)]]
<1>1. n \in Nat
  BY LenProperties
<1>2. a \in Inv[0]
  <2>1. P \in SUBSET P /\ << >> \in Seq(P)
    OBVIOUS
  <2>2. a \in RemovedState(quotas, P)
    BY <2>1 DEF RemovedState
  <2>3. ToSet(<< >>) = {} /\ P \ {} = P
    BY DEF ToSet
  <2>4. GivesBack(quotas, P, before, pfs, pod, {})
    BY DEF GivesBack, In
  <2>5. a.infos = before /\ a.found = << >>
    OBVIOUS
  <2>6. RemovedSoFar(quotas, P, before, pfs, pod, a)
    <3> HIDE DEF a
    <3> QED
      BY <2>3, <2>4, <2>5 DEF RemovedSoFar
  <2>7. 0 \in 0 .. n
    BY <1>1
  <2> QED
    BY <2>2, <2>6, <2>7
<1>3. ASSUME NEW k \in 1 .. n, NEW x \in Inv[k - 1] PROVE Step(x, k) \in Inv[k]
  <2>1. k \in 0 .. n /\ k - 1 \in 0 .. n /\ pods[k] \in P
    BY <1>1, ElementOfSeq
  <2>2. x \in RemovedState(quotas, P) /\ RemovedSoFar(quotas, P, before, pfs, pod, x)
    BY <1>3, <2>1
  <2>3. Step(x, k) \in RemovedState(quotas, P) /\ RemovedSoFar(quotas, P, before, pfs, pod, Step(x, k))
    BY <2>1, <2>2, RemovedStep
  <2> QED
    BY <2>1, <2>3
<1>4. PICK f : RunsThrough(n, Inv, a, step, f)
  <2>1. \A k \in 1 .. n : \A x \in Inv[k - 1] : step[k][x] \in Inv[k]
    <3> HIDE DEF Inv, Step
    <3> QED
      BY <1>3
  <2> HIDE DEF n, Inv, a, step
  <2> QED
    BY <1>1, <1>2, <2>1, LoopRuns
<1>5. f = [k \in 0 .. n |-> IF k = 0 THEN a ELSE Step(f[k - 1], k)]
  <2> HIDE DEF Inv, a, Step
  <2>1. ASSUME NEW k \in 1 .. n PROVE f[k] = Step(f[k - 1], k)
    <3>1. k - 1 \in 0 .. n
      BY <1>1
    <3>2. f[k - 1] \in Inv[k - 1] /\ f[k] = step[k][f[k - 1]]
      BY <1>4, <3>1 DEF RunsThrough
    <3> QED
      BY <3>2
  <2>2. f = [k \in 0 .. n |-> f[k]] /\ f[0] = a
    BY <1>4 DEF RunsThrough
  <2> HIDE DEF n
  <2>3. \A k \in 0 .. n : k = 0 \/ k \in 1 .. n
    BY <1>1
  <2> QED
    BY <2>1, <2>2, <2>3
<1>6. acc = [k \in 0 .. n |-> IF k = 0 THEN a ELSE Step(acc[k - 1], k)]
  BY <1>5 DEF RemoveLoop
<1> HIDE DEF acc, a, Step
<1>7. acc[0] = a /\ \A k \in 1 .. n : acc[k] = Step(acc[k - 1], k)
  <2>1. \A k \in 0 .. n : acc[k] = IF k = 0 THEN a ELSE Step(acc[k - 1], k)
    BY <1>6
  <2> HIDE DEF n
  <2> QED
    BY <1>1, <2>1
<1>8. acc[n] \in Inv[n]
  <2> HIDE DEF Inv, n
  <2>1. \A k \in 1 .. n : acc[k - 1] \in Inv[k - 1] => acc[k] \in Inv[k]
    BY <1>3, <1>7
  <2>2. \A k \in 0 .. n : acc[k] \in Inv[k]
    BY <1>1, <1>2, <1>7, <2>1, LoopKeeps
  <2> QED
    BY <1>1, <2>2
<1>9. n \in 0 .. n
  BY <1>1
<1> QED
  BY <1>8, <1>9 DEF acc


(* What a quota has borrowed grows with the pods and with what is asked.   *)
LEMMA TotalType ==
  ASSUME NEW D, IsFiniteSet(D), NEW infos, DOMAIN infos = D, NEW field,
         \A ns \in D : infos[ns][field] \in [Res -> Nat]
  PROVE  Total(infos, field) \in [Res -> Nat]
<1>1. ASSUME NEW r \in Res
      PROVE  SumOver([ns \in D |-> infos[ns][field][r]], D) \in Nat
  <2>1. PICK f : f = [ns \in D |-> infos[ns][field][r]]
    OBVIOUS
  <2>2. f \in [D -> Nat] /\ D \in SUBSET D
    BY <2>1
  <2>3. SumOver(f, D) \in Nat
    BY <2>2, UnitsFinite
  <2> QED
    BY <2>1, <2>3
<1> QED
  BY <1>1 DEF Total

LEMMA TotalGrows ==
  ASSUME NEW D, IsFiniteSet(D), NEW infos, NEW others, DOMAIN infos = D, DOMAIN others = D, NEW field,
         \A ns \in D : infos[ns][field] \in [Res -> Nat] /\ others[ns][field] \in [Res -> Nat],
         NEW r \in Res, \A ns \in D : infos[ns][field][r] <= others[ns][field][r]
  PROVE  Total(infos, field)[r] <= Total(others, field)[r]
<1>1. PICK f, g : /\ f = [ns \in D |-> infos[ns][field][r]]
                  /\ g = [ns \in D |-> others[ns][field][r]]
  OBVIOUS
<1>2. f \in [D -> Nat] /\ g \in [D -> Nat] /\ \A ns \in D : f[ns] <= g[ns]
  BY <1>1
<1>3. SumOver(f, D) <= SumOver(g, D)
  BY <1>2, SumOverLess
<1>4. Total(infos, field)[r] = SumOver(f, D) /\ Total(others, field)[r] = SumOver(g, D)
  BY <1>1 DEF Total
<1> QED
  BY <1>3, <1>4

LEMMA TotalMin ==
  ASSUME NEW quotas, NEW T, NEW V
  PROVE  Total(Counted(quotas, T), "min") = Total(Counted(quotas, V), "min")
<1>1. PICK c, d : c = Counted(quotas, T) /\ d = Counted(quotas, V)
  OBVIOUS
<1>2. /\ DOMAIN c = DOMAIN quotas /\ DOMAIN d = DOMAIN quotas
      /\ \A ns \in DOMAIN quotas : c[ns]["min"] = d[ns]["min"]
  BY <1>1, CountedInfo, CountedFields
<1>3. ASSUME NEW r \in Res
      PROVE  SumOver([ns \in DOMAIN quotas |-> c[ns]["min"][r]], DOMAIN quotas)
               = SumOver([ns \in DOMAIN quotas |-> d[ns]["min"][r]], DOMAIN quotas)
  BY <1>2
<1>4. Total(c, "min") = Total(d, "min")
  BY <1>2, <1>3 DEF Total
<1> QED
  BY <1>1, <1>4

LEMMA AggregateGrows ==
  ASSUME NEW U, Requesting(U), NEW V \in SUBSET U, NEW T \in SUBSET V, NEW quotas, Limited(quotas),
         NEW b \in [Res -> Nat], NEW d \in [Res -> Nat], AtMost(b, d),
         aggregatedUsedOverMinWith(Counted(quotas, T), b)
  PROVE  aggregatedUsedOverMinWith(Counted(quotas, V), d)
<1>1. PICK D, s, t : D = DOMAIN quotas /\ s = Counted(quotas, T) /\ t = Counted(quotas, V)
  OBVIOUS
<1>2. DOMAIN s = D /\ DOMAIN t = D /\ IsFiniteSet(D)
  BY <1>1, CountedInfo DEF Limited
<1>3. ASSUME NEW ns \in D
      PROVE  /\ s[ns]["used"] \in [Res -> Nat] /\ t[ns]["used"] \in [Res -> Nat]
             /\ t[ns]["min"] \in [Res -> Nat]
             /\ \A r \in Res : s[ns]["used"][r] <= t[ns]["used"][r]
  <2>1. \A r \in Res : s[ns].used[r] <= t[ns].used[r]
    BY <1>1, UseGrows
  <2>2. s[ns].used = Requested(In(ns, T)) /\ t[ns].used = Requested(In(ns, V))
    BY <1>1, CountedFields
  <2>3. In(ns, T) \in SUBSET U /\ In(ns, V) \in SUBSET U
    BY DEF In
  <2>4. s[ns].used \in [Res -> Nat] /\ t[ns].used \in [Res -> Nat]
    BY <2>2, <2>3, RequestedType
  <2>5. t[ns].min \in [Res -> Nat]
    BY <1>1, CountedFields DEF Limited
  <2> QED
    BY <2>1, <2>4, <2>5
<1>4. PICK x, z, y : /\ x = Total(s, "used") /\ z = Total(t, "used") /\ y = Total(t, "min")
  OBVIOUS
<1>5. x \in [Res -> Nat] /\ z \in [Res -> Nat] /\ y \in [Res -> Nat]
  BY <1>2, <1>3, <1>4, TotalType
<1>6. \A r \in Res : x[r] <= z[r]
  BY <1>2, <1>3, <1>4, TotalGrows
<1>7. cmp2(Plus(x, b), Zero, y)
  BY <1>1, <1>4, TotalMin DEF aggregatedUsedOverMinWith, cmp
<1>8. PICK m, n, zero : m = Plus(x, b) /\ n = Plus(z, d) /\ zero = Zero
  OBVIOUS
<1>9. m \in [Res -> Nat] /\ n \in [Res -> Nat] /\ zero \in [Res -> Nat]
  BY <1>5, <1>8 DEF Plus, Zero
<1>10. \A r \in Res : m[r] <= n[r] /\ zero[r] <= zero[r]
  <2> SUFFICES ASSUME NEW r \in Res PROVE m[r] <= n[r] /\ zero[r] <= zero[r]
    OBVIOUS
  <2>1. x[r] \in Nat /\ z[r] \in Nat /\ b[r] \in Nat /\ d[r] \in Nat /\ zero[r] \in Nat
    BY <1>5, <1>9
  <2>2. x[r] <= z[r] /\ b[r] <= d[r]
    BY <1>6 DEF AtMost
  <2>3. m[r] = x[r] + b[r] /\ n[r] = z[r] + d[r]
    BY <1>8 DEF Plus
  <2> QED
    BY <2>1, <2>2, <2>3
<1>11. cmp2(n, zero, y)
  BY <1>5, <1>7, <1>8, <1>9, <1>10, OverMonotone
<1> QED
  BY <1>1, <1>4, <1>8, <1>11 DEF aggregatedUsedOverMinWith, cmp

LEMMA OverQuotaGrows ==
  ASSUME NEW U, Requesting(U), NEW V \in SUBSET U, NEW T \in SUBSET V, NEW quotas, Limited(quotas),
         NEW a \in [Res -> Nat], NEW b \in [Res -> Nat], NEW c \in [Res -> Nat],
         NEW d \in [Res -> Nat], AtMost(a, c), AtMost(b, d),
         NEW pod, OverQuota(Counted(quotas, T), pod, a, b)
  PROVE  OverQuota(Counted(quotas, V), pod, c, d)
<1>1. PICK ns, s, t : ns = pod.ns /\ s = Counted(quotas, T) /\ t = Counted(quotas, V)
  OBVIOUS
<1>2. DOMAIN s = DOMAIN quotas /\ DOMAIN t = DOMAIN quotas
  BY <1>1, CountedInfo
<1>3. ns \in DOMAIN quotas /\ (usedOverMaxWith(s[ns], a) \/ aggregatedUsedOverMinWith(s, b))
  BY <1>1, <1>2 DEF OverQuota
<1>4. CASE usedOverMaxWith(s[ns], a)
  <2>1. PICK x, z, y : x = s[ns].used /\ z = t[ns].used /\ y = quotas[ns].max
    OBVIOUS
  <2>2. x = Requested(In(ns, T)) /\ z = Requested(In(ns, V)) /\ s[ns].max = y /\ t[ns].max = y
    BY <1>1, <1>3, <2>1, CountedFields
  <2>3. In(ns, T) \in SUBSET U /\ In(ns, V) \in SUBSET U
    BY DEF In
  <2>4. x \in [Res -> Nat] /\ z \in [Res -> Nat] /\ y \in [Res -> Nat]
    BY <1>3, <2>1, <2>2, <2>3, RequestedType DEF Limited
  <2>5. \A r \in Res : a[r] <= c[r] /\ x[r] <= z[r]
    BY <1>1, <1>3, <2>1, UseGrows DEF AtMost
  <2>6. cmp2(a, x, y)
    BY <1>4, <2>1, <2>2 DEF usedOverMaxWith
  <2>7. cmp2(c, z, y)
    BY <2>4, <2>5, <2>6, OverMonotone
  <2>8. usedOverMaxWith(t[ns], c)
    BY <2>1, <2>2, <2>7 DEF usedOverMaxWith
  <2> QED
    BY <1>1, <1>2, <1>3, <2>8 DEF OverQuota
<1>5. CASE aggregatedUsedOverMinWith(s, b)
  <2>1. aggregatedUsedOverMinWith(t, d)
    BY <1>1, <1>5, AggregateGrows
  <2> QED
    BY <1>1, <1>2, <1>3, <2>1 DEF OverQuota
<1> QED
  BY <1>3, <1>4, <1>5

(* The record of the loop over the reprieves.                              *)
Offer(infos, on, victims, misfits, failed) ==
  [infos |-> infos, on |-> on, victims |-> victims, misfits |-> misfits, failed |-> failed]

OfferFields == {"infos", "on", "victims", "misfits", "failed"}

LEMMA OfferIs ==
  ASSUME NEW infos, NEW on, NEW victims, NEW misfits, NEW failed, NEW x,
         x = [f \in OfferFields |-> x[f]], x.infos = infos, x.on = on, x.victims = victims,
         x.misfits = misfits, x.failed = failed
  PROVE  x = Offer(infos, on, victims, misfits, failed)
  BY DEF Offer, OfferFields

LEMMA OfferHas ==
  ASSUME NEW infos, NEW on, NEW victims, NEW misfits, NEW failed, NEW x,
         x = Offer(infos, on, victims, misfits, failed)
  PROVE  /\ x = [f \in OfferFields |-> x[f]] /\ x.infos = infos /\ x.on = on /\ x.victims = victims
         /\ x.misfits = misfits /\ x.failed = failed
  BY DEF Offer, OfferFields

(* The pod stays, or it becomes a victim.                                  *)
Staying(x, i, o) == [x EXCEPT !.infos = i, !.on = o]
Going(x, v, m, b) == [x EXCEPT !.victims = v, !.misfits = m, !.failed = b]

LEMMA OfferKept ==
  ASSUME NEW infos, NEW on, NEW victims, NEW misfits, NEW failed, NEW x, NEW i, NEW o,
         x = Offer(infos, on, victims, misfits, failed)
  PROVE  Staying(x, i, o) = Offer(i, o, victims, misfits, failed)
<1>1. PICK y : y = [x EXCEPT !.infos = i, !.on = o]
  OBVIOUS
<1>2. x = [f \in OfferFields |-> x[f]]
  BY OfferHas
<1>3. y = [f \in OfferFields |-> y[f]]
  BY <1>1, <1>2 DEF OfferFields
<1>4. y.infos = i /\ y.on = o /\ y.victims = x.victims /\ y.misfits = x.misfits /\ y.failed = x.failed
  BY <1>1, <1>2 DEF OfferFields
<1>5. x.victims = victims /\ x.misfits = misfits /\ x.failed = failed
  BY OfferHas
<1>6. y = Offer(i, o, victims, misfits, failed)
  BY <1>3, <1>4, <1>5, OfferIs
<1> QED
  BY <1>1, <1>6 DEF Staying, Going

LEMMA OfferTaken ==
  ASSUME NEW infos, NEW on, NEW victims, NEW misfits, NEW failed, NEW x, NEW v, NEW m, NEW b,
         x = Offer(infos, on, victims, misfits, failed)
  PROVE  Going(x, v, m, b) = Offer(infos, on, v, m, b)
<1>1. PICK y : y = [x EXCEPT !.victims = v, !.misfits = m, !.failed = b]
  OBVIOUS
<1>2. x = [f \in OfferFields |-> x[f]]
  BY OfferHas
<1>3. y = [f \in OfferFields |-> y[f]]
  BY <1>1, <1>2 DEF OfferFields
<1>4. y.infos = x.infos /\ y.on = x.on /\ y.victims = v /\ y.misfits = m /\ y.failed = b
  BY <1>1, <1>2 DEF OfferFields
<1>5. x.infos = infos /\ x.on = on
  BY OfferHas
<1>6. y = Offer(infos, on, v, m, b)
  BY <1>3, <1>4, <1>5, OfferIs
<1> QED
  BY <1>1, <1>6 DEF Staying, Going

(* y is x with one more victim, whether or not it failed for it.           *)
WithVictim(y, infos, on, victims, misfits) ==
  \E b \in BOOLEAN : y = Offer(infos, on, victims, misfits, b)

(* The pod p is put back, and stays or does not.                           *)
ReprieveOutcome(pfs, pod, nominated, capacity, infos, on, victims, misfits, failed, p) ==
  LET y == Reprieve(pfs, pod, nominated, capacity, Offer(infos, on, victims, misfits, failed), p)
      fits == RunFilterPlugins(pod, on \cup {p}, nominated, capacity)
      over == OverQuota(CountPod(infos, p), pod, pfs.inEQ, pfs.total)
  IN  /\ fits /\ ~over => y = Offer(CountPod(infos, p), on \cup {p}, victims, misfits, failed)
      /\ ~fits \/ over => \/ WithVictim(y, infos, on, victims \cup {p}, misfits)
                          \/ WithVictim(y, infos, on, victims \cup {p}, misfits \cup {p})

LEMMA ReprieveCases ==
  ASSUME NEW infos, NEW on, NEW victims, NEW misfits, NEW failed, NEW p, NEW pfs, NEW pod,
         NEW nominated, NEW capacity, failed = FALSE
  PROVE  ReprieveOutcome(pfs, pod, nominated, capacity, infos, on, victims, misfits, failed, p)
<1>1. PICK x, new, gone, missed, more :
        /\ x = Offer(infos, on, victims, misfits, failed) /\ new = on \cup {p}
        /\ gone = victims \cup {p} /\ missed = misfits \cup {p} /\ more = CountPod(infos, p)
  OBVIOUS
<1>2. PICK y : y = Reprieve(pfs, pod, nominated, capacity, x, p)
  OBVIOUS
<1>3. x.infos = infos /\ x.on = on /\ x.victims = victims /\ x.misfits = misfits /\ x.failed = FALSE
  BY <1>1, OfferHas
<1> DEFINE fits == RunFilterPlugins(pod, new, nominated, capacity)
           over == OverQuota(IF fits THEN more ELSE infos, pod, pfs.inEQ, pfs.total)
           m == IF fits THEN misfits ELSE missed
           b == FALSE \/ (~fits /\ over)
<1>4. y = IF fits /\ ~over THEN Staying(x, more, new) ELSE Going(x, gone, m, b)
  BY <1>1, <1>2, <1>3 DEF Reprieve, Staying, Going
<1>5. Staying(x, more, new) = Offer(more, new, victims, misfits, failed)
  BY <1>1, OfferKept
<1>6. Going(x, gone, m, b) = Offer(infos, on, gone, m, b)
  <2> HIDE DEF m, b
  <2> QED
    BY <1>1, OfferTaken
<1>7. m \in {misfits, missed} /\ b \in BOOLEAN
  OBVIOUS
<1>8. CASE fits /\ ~OverQuota(more, pod, pfs.inEQ, pfs.total)
  <2>1. ~over
    BY <1>8
  <2>2. y = Offer(more, new, victims, misfits, failed)
    BY <1>4, <1>5, <1>8, <2>1
  <2> QED
    BY <1>1, <1>2, <1>8, <2>2 DEF ReprieveOutcome
<1>9. CASE ~fits \/ OverQuota(more, pod, pfs.inEQ, pfs.total)
  <2>1. ~(fits /\ ~over)
    BY <1>9
  <2>2. y = Offer(infos, on, gone, m, b)
    BY <1>4, <1>6, <2>1
  <2> HIDE DEF m, b
  <2>3. WithVictim(y, infos, on, gone, misfits) \/ WithVictim(y, infos, on, gone, missed)
    BY <1>7, <2>2 DEF WithVictim
  <2> QED
    BY <1>1, <1>2, <1>9, <2>3 DEF ReprieveOutcome
<1> QED
  BY <1>8, <1>9

LEMMA RequestingPart ==
  ASSUME NEW U, Requesting(U), NEW P \in SUBSET U
  PROVE  Requesting(P)
  BY FS_Subset DEF Requesting

(* What is asked for the pod, alone and with the pods nominated beside it. *)
Asks(in, pfs) ==
  /\ pfs.podReq \in [Res -> Nat] /\ pfs.inEQ \in [Res -> Nat] /\ pfs.total \in [Res -> Nat]
  /\ in.pod.ns \in DOMAIN in.quotas => AtMost(pfs.podReq, pfs.inEQ) /\ AtMost(pfs.podReq, pfs.total)

(* What the reprieves have reached after k pods: there is room for the pod *)
(* alone, and none of the victims could be back.                           *)
OfferState(quotas, P) ==
  {Offer(Counted(quotas, T), T, V, M, b) : T \in SUBSET P, V \in SUBSET P, M \in SUBSET P, b \in BOOLEAN}

Room(in, on) == RunFilterPlugins(in.pod, on, in.nominated, in.capacity)
Over(in, on, inEQ, total) == OverQuota(Counted(in.quotas, on), in.pod, inEQ, total)

OfferedSoFar(in, pfs, left, pods, k, on, victims) ==
  /\ on \cup victims = left \cup First(pods, k)
  /\ victims \subseteq First(pods, k)
  /\ Room(in, on) /\ ~Over(in, on, pfs.podReq, pfs.podReq)
  /\ on = left \/ ~Over(in, on, pfs.inEQ, pfs.total)
  /\ \A v \in victims : ~Room(in, on \cup {v}) \/ Over(in, on \cup {v}, pfs.inEQ, pfs.total)

LEMMA RoomGrows ==
  ASSUME NEW in, PreemptionInput(in), NEW V \in SUBSET ToSet(in.pods), NEW T \in SUBSET V, Room(in, V)
  PROVE  Room(in, T)
<1>1. PICK U, N, c, pod : U = PodsOf(in) /\ N = in.nominated /\ c = in.capacity /\ pod = in.pod
  OBVIOUS
<1>2. /\ Requesting(U) /\ pod \in U /\ N \in SUBSET U /\ c \in [Res -> Nat] /\ V \in SUBSET U
  BY <1>1, InputPods
<1>3. RunFilterPlugins(pod, V, N, c)
  BY <1>1 DEF Room
<1>4. RunFilterPlugins(pod, T, N, c)
  BY <1>2, <1>3, FiltersMonotone
<1> QED
  BY <1>1, <1>4 DEF Room

LEMMA OverGrows ==
  ASSUME NEW in, PreemptionInput(in), Limited(in.quotas), NEW V \in SUBSET ToSet(in.pods),
         NEW T \in SUBSET V, NEW a \in [Res -> Nat], NEW b \in [Res -> Nat],
         NEW c \in [Res -> Nat], NEW d \in [Res -> Nat],
         in.pod.ns \in DOMAIN in.quotas => AtMost(a, c) /\ AtMost(b, d), Over(in, T, a, b)
  PROVE  Over(in, V, c, d)
<1>1. PICK P, quotas, pod : P = ToSet(in.pods) /\ quotas = in.quotas /\ pod = in.pod
  OBVIOUS
<1>2. Requesting(P)
  BY <1>1, InputPods, RequestingPart
<1>3. OverQuota(Counted(quotas, T), pod, a, b)
  BY <1>1 DEF Over
<1>4. pod.ns \in DOMAIN quotas
  BY <1>3, CountedInfo DEF OverQuota
<1>5. AtMost(a, c) /\ AtMost(b, d)
  BY <1>1, <1>4
<1>6. OverQuota(Counted(quotas, V), pod, c, d)
  BY <1>1, <1>2, <1>3, <1>5, OverQuotaGrows
<1> QED
  BY <1>1, <1>6 DEF Over

LEMMA AtMostItself ==
  ASSUME NEW a \in [Res -> Nat]
  PROVE  AtMost(a, a)
  BY DEF AtMost

(* The pod p stays.                                                        *)
LEMMA OfferStays ==
  ASSUME NEW in, PreemptionInput(in), Limited(in.quotas), NEW pfs, Asks(in, pfs),
         NEW P, P = ToSet(in.pods), NEW left \in SUBSET P, NEW pods \in Seq(P),
         NEW k \in 1 .. Len(pods), NEW on \in SUBSET P, NEW victims \in SUBSET P,
         OfferedSoFar(in, pfs, left, pods, k - 1, on, victims),
         NEW new, new = on \cup {pods[k]},
         Room(in, new), ~Over(in, new, pfs.inEQ, pfs.total)
  PROVE  new \in SUBSET P /\ OfferedSoFar(in, pfs, left, pods, k, new, victims)
<1>1. PICK p \in P : p = pods[k]
  BY ElementOfSeq
<1>2. PICK A, B : A = First(pods, k - 1) /\ B = First(pods, k)
  OBVIOUS
<1>3. B = A \cup {p} /\ new = on \cup {p}
  BY <1>1, <1>2, FirstPods
<1>4. PICK podReq \in [Res -> Nat], inEQ \in [Res -> Nat], total \in [Res -> Nat] :
        podReq = pfs.podReq /\ inEQ = pfs.inEQ /\ total = pfs.total
  BY DEF Asks
<1>5. in.pod.ns \in DOMAIN in.quotas => AtMost(podReq, inEQ) /\ AtMost(podReq, total)
  BY <1>4 DEF Asks
<1>6. /\ on \cup victims = left \cup A /\ victims \subseteq A
      /\ \A v \in victims : ~Room(in, on \cup {v}) \/ Over(in, on \cup {v}, inEQ, total)
  BY <1>2, <1>4 DEF OfferedSoFar
<1>7. new \in SUBSET P
  BY <1>3
<1>8. ~Over(in, new, podReq, podReq)
  <2> SUFFICES ASSUME Over(in, new, podReq, podReq) PROVE FALSE
    OBVIOUS
  <2>1. new \in SUBSET new
    OBVIOUS
  <2>2. Over(in, new, inEQ, total)
    BY <1>5, <1>7, <2>1, OverGrows
  <2> QED
    BY <1>4, <2>2
<1>9. ASSUME NEW v \in victims PROVE ~Room(in, new \cup {v}) \/ Over(in, new \cup {v}, inEQ, total)
  <2>1. PICK T, V : T = on \cup {v} /\ V = new \cup {v}
    OBVIOUS
  <2>2. V \in SUBSET P /\ T \in SUBSET V
    BY <1>3, <1>7, <2>1
  <2>3. ~Room(in, T) \/ Over(in, T, inEQ, total)
    BY <1>6, <2>1
  <2>4. ~Room(in, T) => ~Room(in, V)
    BY <2>2, RoomGrows
  <2>5. Over(in, T, inEQ, total) => Over(in, V, inEQ, total)
    <3>1. AtMost(inEQ, inEQ) /\ AtMost(total, total)
      BY AtMostItself
    <3> QED
      BY <2>2, <3>1, OverGrows
  <2> QED
    BY <2>1, <2>3, <2>4, <2>5
<1>10. new \cup victims = left \cup B /\ victims \subseteq B
  BY <1>3, <1>6
<1> QED
  BY <1>2, <1>4, <1>7, <1>8, <1>9, <1>10 DEF OfferedSoFar

(* The pod p becomes a victim.                                             *)
LEMMA OfferGoes ==
  ASSUME NEW in, NEW pfs, NEW P, NEW left \in SUBSET P, NEW pods \in Seq(P),
         NEW k \in 1 .. Len(pods), NEW on \in SUBSET P, NEW victims \in SUBSET P,
         OfferedSoFar(in, pfs, left, pods, k - 1, on, victims),
         NEW more, more = victims \cup {pods[k]}, NEW new, new = on \cup {pods[k]},
         ~Room(in, new) \/ Over(in, new, pfs.inEQ, pfs.total)
  PROVE  more \in SUBSET P /\ OfferedSoFar(in, pfs, left, pods, k, on, more)
<1>1. PICK p \in P : p = pods[k]
  BY ElementOfSeq
<1>2. PICK A, B : A = First(pods, k - 1) /\ B = First(pods, k)
  OBVIOUS
<1>3. B = A \cup {p} /\ more = victims \cup {p}
  BY <1>1, <1>2, FirstPods
<1>4. /\ on \cup victims = left \cup A /\ victims \subseteq A
      /\ Room(in, on) /\ ~Over(in, on, pfs.podReq, pfs.podReq)
      /\ on = left \/ ~Over(in, on, pfs.inEQ, pfs.total)
      /\ \A v \in victims : ~Room(in, on \cup {v}) \/ Over(in, on \cup {v}, pfs.inEQ, pfs.total)
  BY <1>2 DEF OfferedSoFar
<1>5. on \cup more = left \cup B /\ more \subseteq B /\ more \in SUBSET P
  BY <1>3, <1>4
<1>6. \A v \in more : ~Room(in, on \cup {v}) \/ Over(in, on \cup {v}, pfs.inEQ, pfs.total)
  BY <1>1, <1>3, <1>4
<1> QED
  BY <1>2, <1>4, <1>5, <1>6 DEF OfferedSoFar

Offered(in, pfs, left, pods, k, x) ==
  ~x.failed => OfferedSoFar(in, pfs, left, pods, k, x.on, x.victims)

LEMMA OfferStep ==
  ASSUME NEW in, PreemptionInput(in), Limited(in.quotas), NEW pfs, Asks(in, pfs),
         NEW P, P = ToSet(in.pods), NEW left \in SUBSET P, NEW pods \in Seq(P),
         NEW k \in 1 .. Len(pods), NEW x \in OfferState(in.quotas, P), ~x.failed,
         Offered(in, pfs, left, pods, k - 1, x),
         NEW y, y = Reprieve(pfs, in.pod, in.nominated, in.capacity, x, pods[k])
  PROVE  y \in OfferState(in.quotas, P) /\ Offered(in, pfs, left, pods, k, y)
<1>1. PICK on \in SUBSET P, victims \in SUBSET P, misfits \in SUBSET P, failed \in BOOLEAN :
        x = Offer(Counted(in.quotas, on), on, victims, misfits, failed)
  BY DEF OfferState
<1>2. x.on = on /\ x.victims = victims /\ failed = FALSE
  BY <1>1, OfferHas
<1>3. OfferedSoFar(in, pfs, left, pods, k - 1, on, victims)
  BY <1>2 DEF Offered
<1>4. PICK p \in P : p = pods[k]
  BY ElementOfSeq
<1>5. PICK infos, more, new, gone, missed :
        /\ infos = Counted(in.quotas, on) /\ more = CountPod(infos, p)
        /\ new = on \cup {p} /\ gone = victims \cup {p} /\ missed = misfits \cup {p}
  OBVIOUS
<1>6. new \in SUBSET P /\ gone \in SUBSET P /\ missed \in SUBSET P
  BY <1>5
<1>7. more = Counted(in.quotas, new)
  <2>1. Requesting(P) /\ Distinct(P)
    BY InputPods, RequestingPart
  <2> QED
    BY <1>5, <2>1, CountingAdds
<1>8. /\ Room(in, new) <=> RunFilterPlugins(in.pod, new, in.nominated, in.capacity)
      /\ Over(in, new, pfs.inEQ, pfs.total) <=> OverQuota(more, in.pod, pfs.inEQ, pfs.total)
  BY <1>7 DEF Room, Over
<1>9. x = Offer(infos, on, victims, misfits, failed)
  BY <1>1, <1>5
<1>10. y = Reprieve(pfs, in.pod, in.nominated, in.capacity, x, p)
  BY <1>4
<1>11. ReprieveOutcome(pfs, in.pod, in.nominated, in.capacity, infos, on, victims, misfits, failed, p)
  BY <1>2, ReprieveCases
<1>12. CASE Room(in, new) /\ ~Over(in, new, pfs.inEQ, pfs.total)
  <2>1. y = Offer(more, new, victims, misfits, failed)
    BY <1>5, <1>8, <1>9, <1>10, <1>11, <1>12 DEF ReprieveOutcome
  <2>2. y \in OfferState(in.quotas, P)
    BY <1>6, <1>7, <2>1 DEF OfferState
  <2>3. y.on = new /\ y.victims = victims
    BY <2>1, OfferHas
  <2>4. OfferedSoFar(in, pfs, left, pods, k, new, victims)
    <3>1. new = on \cup {pods[k]}
      BY <1>4, <1>5, Zenon
    <3> QED
      BY <1>3, <1>6, <1>12, <3>1, OfferStays, SMTT(20)
  <2> QED
    BY <2>2, <2>3, <2>4 DEF Offered
<1>13. CASE ~Room(in, new) \/ Over(in, new, pfs.inEQ, pfs.total)
  <2>1. WithVictim(y, infos, on, gone, misfits) \/ WithVictim(y, infos, on, gone, missed)
    BY <1>5, <1>8, <1>9, <1>10, <1>11, <1>13 DEF ReprieveOutcome
  <2>2. PICK m \in {misfits, missed}, b \in BOOLEAN : y = Offer(infos, on, gone, m, b)
    BY <2>1 DEF WithVictim
  <2>3. m \in SUBSET P
    BY <1>6
  <2>4. y \in OfferState(in.quotas, P)
    BY <1>5, <1>6, <2>2, <2>3 DEF OfferState
  <2>5. y.on = on /\ y.victims = gone
    BY <2>2, OfferHas
  <2>6. OfferedSoFar(in, pfs, left, pods, k, on, gone)
    BY <1>3, <1>4, <1>5, <1>13, OfferGoes
  <2> QED
    BY <2>4, <2>5, <2>6 DEF Offered
<1> QED
  BY <1>12, <1>13

LEMMA OfferedAll ==
  ASSUME NEW in, PreemptionInput(in), Limited(in.quotas), NEW pfs, Asks(in, pfs),
         NEW P, P = ToSet(in.pods), NEW left \in SUBSET P, NEW pods \in Seq(P),
         Room(in, left), ~Over(in, left, pfs.podReq, pfs.podReq)
  PROVE  LET end == ReprieveLoop(pfs, in.pod, in.nominated, in.capacity, Counted(in.quotas, left),
                                 left, pods)[Len(pods)]
         IN  end \in OfferState(in.quotas, P) /\ Offered(in, pfs, left, pods, Len(pods), end)
<1> DEFINE n == Len(pods)
           Step(x, k) == IF x.failed THEN x
                         ELSE Reprieve(pfs, in.pod, in.nominated, in.capacity, x, pods[k])
           a == Offer(Counted(in.quotas, left), left, {}, {}, FALSE)
           acc == ReprieveLoop(pfs, in.pod, in.nominated, in.capacity, Counted(in.quotas, left), left, pods)
           Inv == [k \in 0 .. n |-> {x \in OfferState(in.quotas, P) : Offered(in, pfs, left, pods, k, x)}]
           step == [k \in 1 .. n |-> [x \in Inv[k - 1] |-> Step(x, k)]]
<1>1. n \in Nat
  BY LenProperties
<1>2. a \in Inv[0]
  <2>1. PICK x, none, no : x = a /\ none = {} /\ no = FALSE
    OBVIOUS
  <2>2. none \in SUBSET P /\ no \in BOOLEAN
    BY <2>1
  <2>3. x = Offer(Counted(in.quotas, left), left, none, none, no)
    BY <2>1
  <2>4. x \in OfferState(in.quotas, P)
    BY <2>2, <2>3 DEF OfferState
  <2>5. x.on = left /\ x.victims = none
    BY <2>3, OfferHas
  <2>6. OfferedSoFar(in, pfs, left, pods, 0, left, none)
    BY <2>1, FirstPods DEF OfferedSoFar
  <2>7. Offered(in, pfs, left, pods, 0, x)
    BY <2>5, <2>6 DEF Offered
  <2>8. 0 \in 0 .. n
    BY <1>1
  <2> QED
    BY <2>1, <2>4, <2>7, <2>8
<1>3. ASSUME NEW k \in 1 .. n, NEW x \in Inv[k - 1] PROVE Step(x, k) \in Inv[k]
  <2>1. k \in 0 .. n /\ k - 1 \in 0 .. n
    BY <1>1
  <2>2. x \in OfferState(in.quotas, P) /\ Offered(in, pfs, left, pods, k - 1, x)
    BY <1>3, <2>1
  <2>3. PICK y : y = Reprieve(pfs, in.pod, in.nominated, in.capacity, x, pods[k])
    OBVIOUS
  <2>4. CASE x.failed
    <3>1. Offered(in, pfs, left, pods, k, x)
      BY <2>4 DEF Offered
    <3> QED
      BY <2>1, <2>2, <2>4, <3>1
  <2>5. CASE ~x.failed
    <3>1. y \in OfferState(in.quotas, P) /\ Offered(in, pfs, left, pods, k, y)
      BY <2>2, <2>3, <2>5, OfferStep
    <3> QED
      BY <2>1, <2>3, <2>5, <3>1
  <2> QED
    BY <2>4, <2>5
<1>4. PICK f : RunsThrough(n, Inv, a, step, f)
  <2>1. \A k \in 1 .. n : \A x \in Inv[k - 1] : step[k][x] \in Inv[k]
    <3> HIDE DEF Inv, Step
    <3> QED
      BY <1>3
  <2> HIDE DEF n, Inv, a, step
  <2> QED
    BY <1>1, <1>2, <2>1, LoopRuns
<1>5. f = [k \in 0 .. n |-> IF k = 0 THEN a ELSE Step(f[k - 1], k)]
  <2> HIDE DEF Inv, a, Step
  <2>1. ASSUME NEW k \in 1 .. n PROVE f[k] = Step(f[k - 1], k)
    <3>1. k - 1 \in 0 .. n
      BY <1>1
    <3>2. f[k - 1] \in Inv[k - 1] /\ f[k] = step[k][f[k - 1]]
      BY <1>4, <3>1 DEF RunsThrough
    <3> QED
      BY <3>2
  <2>2. f = [k \in 0 .. n |-> f[k]] /\ f[0] = a
    BY <1>4 DEF RunsThrough
  <2> HIDE DEF n
  <2>3. \A k \in 0 .. n : k = 0 \/ k \in 1 .. n
    BY <1>1
  <2> QED
    BY <2>1, <2>2, <2>3
<1>6. acc = [k \in 0 .. n |-> IF k = 0 THEN a ELSE Step(acc[k - 1], k)]
  BY <1>5 DEF ReprieveLoop, Offer
<1> HIDE DEF acc, a, Step
<1>7. acc[0] = a /\ \A k \in 1 .. n : acc[k] = Step(acc[k - 1], k)
  <2>1. \A k \in 0 .. n : acc[k] = IF k = 0 THEN a ELSE Step(acc[k - 1], k)
    BY <1>6
  <2> HIDE DEF n
  <2> QED
    BY <1>1, <2>1
<1>8. acc[n] \in Inv[n]
  <2> HIDE DEF Inv, n
  <2>1. \A k \in 1 .. n : acc[k - 1] \in Inv[k - 1] => acc[k] \in Inv[k]
    BY <1>3, <1>7
  <2>2. \A k \in 0 .. n : acc[k] \in Inv[k]
    BY <1>1, <1>2, <1>7, <2>1, LoopKeeps
  <2> QED
    BY <1>1, <2>2
<1>9. n \in 0 .. n
  BY <1>1
<1> QED
  BY <1>8, <1>9 DEF acc

LEMMA AskedAlone ==
  ASSUME NEW U, Requesting(U), NEW A \in SUBSET U, NEW pod \in A
  PROVE  AtMost(computePodResourceRequest(pod), Requested(A))
<1> SUFFICES ASSUME NEW r \in Res PROVE computePodResourceRequest(pod)[r] <= Requested(A)[r]
  BY DEF AtMost
<1>1. PICK V : V = {pod}
  OBVIOUS
<1>2. V \in SUBSET U /\ V \in SUBSET A /\ pod \in U
  BY <1>1
<1>3. Requested(V)[r] <= Requested(A)[r]
  BY <1>2, RequestedGrows
<1>4. Part(U, r) \in [U -> Nat] /\ Requested(V)[r] = SumOver(Part(U, r), V)
  BY <1>2, RequestedSum
<1>5. SumOver(Part(U, r), V) = Part(U, r)[pod]
  BY <1>1, <1>2, <1>4, SumOverSingle
<1>6. Part(U, r)[pod] = computePodResourceRequest(pod)[r]
  BY <1>2 DEF Part
<1> QED
  BY <1>3, <1>4, <1>5, <1>6

LEMMA StateAsks ==
  ASSUME NEW in, PreemptionInput(in)
  PROVE  Asks(in, StateOf(in))
<1>1. PICK U, pod, nominated, live, pfs :
        /\ U = PodsOf(in) /\ pod = in.pod /\ nominated = in.nominated
        /\ live = SnapshotOf(in) /\ pfs = StateOf(in)
  OBVIOUS
<1>2. Requesting(U) /\ pod \in U /\ nominated \in SUBSET U
  BY <1>1, InputPods
<1>3. computePodResourceRequest(pod) \in [Res -> Nat]
  BY <1>2 DEF Requesting
<1>4. DOMAIN live = DOMAIN in.quotas
  BY <1>1, CountedInfo DEF SnapshotOf
<1>5. pfs = IF pod.ns \in DOMAIN live THEN Nominated(live, pod, nominated) ELSE WithoutQuota(pod)
  BY <1>1 DEF StateOf, PreFilterState
<1>6. CASE pod.ns \notin DOMAIN live
  <2>1. pfs.podReq = computePodResourceRequest(pod) /\ pfs.inEQ = Zero /\ pfs.total = Zero
    BY <1>5, <1>6 DEF WithoutQuota
  <2>2. Zero \in [Res -> Nat]
    BY DEF Zero
  <2> QED
    BY <1>1, <1>3, <1>4, <1>6, <2>1, <2>2 DEF Asks
<1>7. CASE pod.ns \in DOMAIN live
  <2>1. PICK others : others = {p \in nominated : p.uid # pod.uid /\ p.ns \in DOMAIN live}
    OBVIOUS
  <2>2. PICK inEQ, outside :
          /\ inEQ = {p \in others : p.ns = pod.ns /\ p.prio >= pod.prio}
          /\ outside = {p \in others : p.ns # pod.ns /\ ~usedOverMin(live[p.ns])}
    OBVIOUS
  <2>3. PICK A, B : A = inEQ \cup {pod} /\ B = inEQ \cup outside \cup {pod}
    OBVIOUS
  <2>4. pfs = [podReq |-> computePodResourceRequest(pod), inEQ |-> Requested(A), total |-> Requested(B)]
    BY <1>5, <1>7, <2>1, <2>2, <2>3 DEF Nominated
  <2>5. A \in SUBSET U /\ B \in SUBSET U /\ pod \in A /\ pod \in B
    BY <1>2, <2>1, <2>2, <2>3
  <2>6. Requested(A) \in [Res -> Nat] /\ Requested(B) \in [Res -> Nat]
    BY <1>2, <2>5, RequestedType
  <2>7. /\ AtMost(computePodResourceRequest(pod), Requested(A))
        /\ AtMost(computePodResourceRequest(pod), Requested(B))
    BY <1>2, <2>5, AskedAlone
  <2>8. /\ pfs.podReq = computePodResourceRequest(pod)
        /\ pfs.inEQ = Requested(A) /\ pfs.total = Requested(B)
    BY <2>4
  <2> QED
    BY <1>1, <1>3, <2>6, <2>7, <2>8 DEF Asks
<1> QED
  BY <1>6, <1>7

(* What CapacityScheduling decides.                                        *)
QuotaOutcome(in, out) ==
  /\ out.victims \subseteq ToSet(in.pods)
  /\ GivesBack(in.quotas, ToSet(in.pods), SnapshotOf(in), StateOf(in), in.pod, out.victims)
  /\ out.code = "Success" =>
       /\ Room(in, ToSet(in.pods) \ out.victims)
       /\ ~Over(in, ToSet(in.pods) \ out.victims, StateOf(in).podReq, StateOf(in).podReq)
       /\ \A v \in out.victims :
            \/ ~Room(in, ToSet(in.pods) \ (out.victims \ {v}))
            \/ Over(in, ToSet(in.pods) \ (out.victims \ {v}), StateOf(in).inEQ, StateOf(in).total)

(* Fewer victims give back no more than all that were found.               *)
LEMMA GivesBackLess ==
  ASSUME NEW quotas, NEW P, NEW before, NEW pfs, NEW pod, NEW F, NEW V, V \subseteq F,
         GivesBack(quotas, P, before, pfs, pod, F)
  PROVE  GivesBack(quotas, P, before, pfs, pod, V)
<1>1. \A ns \in DOMAIN quotas : SUBSET In(ns, V) \subseteq SUBSET In(ns, F)
  BY DEF In
<1> QED
  BY <1>1 DEF GivesBack

LEMMA NobodyGivesBack ==
  ASSUME NEW quotas, NEW P, NEW before, NEW pfs, NEW pod
  PROVE  GivesBack(quotas, P, before, pfs, pod, {})
  BY DEF GivesBack, In

(* The end of the reprieves.                                               *)
LEMMA OfferedEnd ==
  ASSUME NEW in, NEW pfs, NEW P, NEW F \in SUBSET P, NEW left, left = P \ F, NEW pods \in Seq(P),
         ToSet(pods) = F, NEW on \in SUBSET P, NEW victims \in SUBSET P,
         OfferedSoFar(in, pfs, left, pods, Len(pods), on, victims)
  PROVE  /\ victims \subseteq F /\ Room(in, P \ victims) /\ ~Over(in, P \ victims, pfs.podReq, pfs.podReq)
         /\ \A v \in victims : \/ ~Room(in, P \ (victims \ {v}))
                               \/ Over(in, P \ (victims \ {v}), pfs.inEQ, pfs.total)
<1>1. First(pods, Len(pods)) = F
  BY FirstPods
<1>2. /\ on \cup victims = P /\ victims \subseteq F
      /\ Room(in, on) /\ ~Over(in, on, pfs.podReq, pfs.podReq)
      /\ on = left \/ ~Over(in, on, pfs.inEQ, pfs.total)
      /\ \A v \in victims : ~Room(in, on \cup {v}) \/ Over(in, on \cup {v}, pfs.inEQ, pfs.total)
  <2>1. left \cup F = P
    OBVIOUS
  <2> QED
    BY <1>1, <2>1 DEF OfferedSoFar
<1>3. ASSUME NEW v \in victims PROVE v \notin on
  <2> SUFFICES ASSUME v \in on PROVE FALSE
    OBVIOUS
  <2>1. on \cup {v} = on
    OBVIOUS
  <2>2. Over(in, on, pfs.inEQ, pfs.total)
    BY <1>2, <2>1
  <2>3. on = left
    BY <1>2, <2>2
  <2> QED
    BY <1>2, <2>3
<1>4. on = P \ victims
  BY <1>2, <1>3
<1>5. ASSUME NEW v \in victims PROVE P \ (victims \ {v}) = on \cup {v}
  BY <1>4
<1> QED
  BY <1>2, <1>4, <1>5

LEMMA QuotaDecision ==
  ASSUME NEW in, PreemptionInput(in), Limited(in.quotas), NEW out,
         out = SelectVictimsOnNode(SnapshotOf(in), StateOf(in), in.pod, in.pods, in.pdbs,
                                   in.nominated, in.capacity)
  PROVE  QuotaOutcome(in, out)
<1>1. PICK P, quotas, before, pfs : /\ P = ToSet(in.pods) /\ quotas = in.quotas
                                    /\ before = SnapshotOf(in) /\ pfs = StateOf(in)
  OBVIOUS
<1>2. /\ P \in SUBSET PodsOf(in) /\ in.pods \in Seq(P) /\ Distinct(P)
      /\ \A p \in P : p.prio \in Int /\ p.start \in Int
  BY <1>1, InputPods
<1>3. Requesting(P)
  BY <1>2, InputPods, RequestingPart
<1>4. before = Counted(quotas, P) /\ Limited(quotas) /\ Asks(in, pfs)
  BY <1>1, StateAsks DEF SnapshotOf
<1>5. PICK removed : removed = RemoveVictims(before, pfs, in.pod, in.pods)
  OBVIOUS
<1>6. PICK left, groups : /\ left = P \ ToSet(removed.found)
                          /\ groups = filterPodsWithPDBViolation(MostImportantFirst(removed.found), in.pdbs)
  OBVIOUS
<1>7. PICK q : q = groups.violating \o groups.nonViolating
  OBVIOUS
<1>8. PICK end : end = ReprieveLoop(pfs, in.pod, in.nominated, in.capacity, removed.infos, left,
                                    q)[Len(q)]
  OBVIOUS
<1>9. out = IF removed.found = << >> THEN Rejected("UnschedulableAndUnresolvable")
            ELSE IF ~RunFilterPlugins(in.pod, left, in.nominated, in.capacity)
              THEN Rejected("Unschedulable")
            ELSE IF OverQuota(removed.infos, in.pod, pfs.podReq, pfs.podReq)
              THEN Rejected("Unschedulable")
            ELSE IF end.failed THEN Rejected("Error")
            ELSE [code |-> "Success", victims |-> end.victims,
                  violating |-> Cardinality(end.misfits \cap ToSet(groups.violating))]
  BY <1>1, <1>5, <1>6, <1>7, <1>8, Zenon DEF SelectVictimsOnNode
<1>10. removed \in RemovedState(quotas, P) /\ RemovedSoFar(quotas, P, before, pfs, in.pod, removed)
  <2>1. PICK s : s = LeastImportantFirst(in.pods)
    OBVIOUS
  <2>2. s \in Seq(P) /\ Len(s) = Len(in.pods)
    BY <1>2, <2>1, SortedSet
  <2>3. removed = RemoveLoop(before, pfs, in.pod, s)[Len(s)]
    BY <1>5, <2>1, <2>2 DEF RemoveVictims
  <2> QED
    BY <1>3, <1>2, <1>4, <2>2, <2>3, RemovedAll
<1>11. PICK F : F = ToSet(removed.found)
  OBVIOUS
<1>12. removed.found \in Seq(P)
  BY <1>10 DEF RemovedState
<1>13. F \in SUBSET P
  BY <1>11, <1>12, SequenceFinite
<1>14. removed.infos = Counted(quotas, left) /\ GivesBack(quotas, P, before, pfs, in.pod, F)
  BY <1>6, <1>10, <1>11 DEF RemovedSoFar
<1>15. q \in Seq(P) /\ ToSet(q) = F
  <2>1. \A i \in DOMAIN in.pdbs : in.pdbs[i].allowed \in Int
    BY DEF PreemptionInput
  <2> QED
    BY <1>2, <1>6, <1>7, <1>11, <1>12, <2>1, CandidatesFound
<1>16. left \in SUBSET P /\ left = P \ F
  BY <1>6, <1>11
<1>17. CASE out.code = "Success"
  <2>1. /\ ~end.failed /\ out.victims = end.victims
        /\ RunFilterPlugins(in.pod, left, in.nominated, in.capacity)
        /\ ~OverQuota(removed.infos, in.pod, pfs.podReq, pfs.podReq)
    BY <1>9, <1>17 DEF Rejected
  <2>2. Room(in, left) /\ ~Over(in, left, pfs.podReq, pfs.podReq)
    BY <1>1, <1>14, <2>1 DEF Room, Over
  <2>3. end = ReprieveLoop(pfs, in.pod, in.nominated, in.capacity, Counted(in.quotas, left), left,
                           q)[Len(q)]
    BY <1>1, <1>8, <1>14
  <2>4. end \in OfferState(in.quotas, P) /\ Offered(in, pfs, left, q, Len(q), end)
    BY <1>1, <1>4, <1>15, <1>16, <2>2, <2>3, OfferedAll
  <2>5. PICK on \in SUBSET P, victims \in SUBSET P, misfits \in SUBSET P, failed \in BOOLEAN :
          end = Offer(Counted(in.quotas, on), on, victims, misfits, failed)
    BY <2>4 DEF OfferState
  <2>6. end.on = on /\ end.victims = victims
    BY <2>5, OfferHas
  <2>7. OfferedSoFar(in, pfs, left, q, Len(q), on, victims)
    BY <2>1, <2>4, <2>6 DEF Offered
  <2>8. /\ victims \subseteq F /\ Room(in, P \ victims) /\ ~Over(in, P \ victims, pfs.podReq, pfs.podReq)
        /\ \A v \in victims : \/ ~Room(in, P \ (victims \ {v}))
                              \/ Over(in, P \ (victims \ {v}), pfs.inEQ, pfs.total)
    BY <1>13, <1>15, <1>16, <2>7, OfferedEnd
  <2>9. GivesBack(quotas, P, before, pfs, in.pod, victims)
    BY <1>14, <2>8, GivesBackLess
  <2> QED
    BY <1>1, <2>1, <2>6, <2>8, <2>9 DEF QuotaOutcome
<1>18. CASE out.code # "Success"
  <2>1. out.victims = {}
    BY <1>9, <1>18 DEF Rejected
  <2>2. GivesBack(quotas, P, before, pfs, in.pod, {})
    BY NobodyGivesBack
  <2> QED
    BY <1>1, <1>18, <2>1, <2>2 DEF QuotaOutcome
<1> QED
  BY <1>17, <1>18

LEMMA QuotaCalled ==
  ASSUME PreemptByQuota
  PROVE  \E in, out :
           /\ in \in QuotaInputs /\ call' = [op |-> "quota", in |-> in, out |-> out]
           /\ PreemptionInput(in) /\ QuotaOutcome(in, out)
<1>1. PICK in \in QuotaInputs :
        call' = [op |-> "quota", in |-> in, out |->
                   SelectVictimsOnNode(SnapshotOf(in), StateOf(in), in.pod, in.pods, in.pdbs,
                                       in.nominated, in.capacity)]
  BY Zenon DEF PreemptByQuota, Called
<1>2. PICK out : out = SelectVictimsOnNode(SnapshotOf(in), StateOf(in), in.pod, in.pods, in.pdbs,
                                           in.nominated, in.capacity)
  OBVIOUS
<1>3. PreemptionInput(in) /\ Limited(in.quotas)
  BY QuotaAssumption DEF Limited
<1>4. QuotaOutcome(in, out)
  BY <1>2, <1>3, QuotaDecision
<1> QED
  BY <1>1, <1>2, <1>3, <1>4

(* PreemptByQuota and PreemptTolerant: whatever pods, quotas and budgets   *)
(* there are, the victims make room for the pod, on the node and in the    *)
(* quotas, and none of them could have stayed.                             *)
THEOREM VictimsAreNeeded == Spec => []VictimsNeeded
<1>1. Init => VictimsNeeded
  BY DEF Init, NoCall, VictimsNeeded
<1>2. VictimsNeeded /\ [Next]_call => VictimsNeeded'
  <2>1. ASSUME VictimsNeeded, call' = call PROVE VictimsNeeded'
    BY <2>1, Zenon DEF VictimsNeeded
  <2>2. call'.op \notin {"quota", "toleration"} => VictimsNeeded'
    BY DEF VictimsNeeded
  <2>3. ASSUME PreemptByQuota PROVE VictimsNeeded'
    <3>1. PICK in, out :
            /\ in \in QuotaInputs /\ call' = [op |-> "quota", in |-> in, out |-> out]
            /\ PreemptionInput(in) /\ QuotaOutcome(in, out)
      BY <2>3, QuotaCalled
    <3>2. call'.in = in /\ call'.out = out /\ call'.op = "quota"
      BY <3>1
    <3>3. PICK victims, pfs : victims = out.victims /\ pfs = StateOf(in)
      OBVIOUS
    <3>4. ASSUME out.code = "Success"
          PROVE  /\ Fits(in, victims) /\ QuotasHold(in, victims, pfs.podReq, pfs.podReq)
                 /\ \A v \in victims : \/ ~Fits(in, victims \ {v})
                                       \/ ~QuotasHold(in, victims \ {v}, pfs.inEQ, pfs.total)
      BY <3>1, <3>3, <3>4 DEF QuotaOutcome, Fits, Room, QuotasHold, Over, Without
    <3> QED
      BY <3>2, <3>3, <3>4 DEF VictimsNeeded
  <2>4. ASSUME PreemptTolerant PROVE VictimsNeeded'
    <3>1. PICK in, out :
            /\ in \in TolerationInputs /\ call' = [op |-> "toleration", in |-> in, out |-> out]
            /\ IF ~Eligible(in.pod, in.isNominated, ToSet(in.pods)) THEN out = NoVictims("NotEligible")
               ELSE out = TolerantVictims(in.classes, in.pod, in.now, in.pods, in.pdbs,
                                          in.nominated, in.capacity)
      BY <2>4, TolerationCalled
    <3>2. call'.in = in /\ call'.out = out /\ call'.op = "toleration"
      BY <3>1
    <3>3. PICK victims : victims = out.victims
      OBVIOUS
    <3>4. ASSUME out.code = "Success"
          PROVE  Fits(in, victims) /\ \A v \in victims : ~Fits(in, victims \ {v})
      <4>1. PreemptionInput(in)
        BY <3>1, TolerationAssumption
      <4>2. Eligible(in.pod, in.isNominated, ToSet(in.pods))
        BY <3>1, <3>4 DEF NoVictims
      <4>3. TolerantOutcome(in, out)
        BY <3>1, <3>4, <4>1, <4>2, TolerantDecision
      <4> QED
        BY <3>3, <3>4, <4>3 DEF TolerantOutcome
    <3> QED
      BY <3>2, <3>3, <3>4 DEF VictimsNeeded
  <2> QED
    BY <2>1, <2>2, <2>3, <2>4, Returns DEF OnlyBy
<1> QED
  BY <1>1, <1>2, PTL DEF Spec

(* PreemptByQuota: whatever pods and quotas there are, another quota gives *)
(* back only what it has borrowed, and only to a pod within the min of its *)
(* own quota.                                                              *)
THEOREM GuaranteeIsKept == Spec => []GuaranteeKept
<1>1. Init => GuaranteeKept
  BY DEF Init, NoCall, GuaranteeKept
<1>2. GuaranteeKept /\ [Next]_call => GuaranteeKept'
  <2>1. ASSUME GuaranteeKept, call' = call PROVE GuaranteeKept'
    BY <2>1, Zenon DEF GuaranteeKept
  <2>2. call'.op # "quota" => GuaranteeKept'
    BY DEF GuaranteeKept
  <2>3. ASSUME PreemptByQuota PROVE GuaranteeKept'
    <3>1. PICK in, out :
            /\ in \in QuotaInputs /\ call' = [op |-> "quota", in |-> in, out |-> out]
            /\ PreemptionInput(in) /\ QuotaOutcome(in, out)
      BY <2>3, QuotaCalled
    <3>2. call'.in = in /\ call'.out = out
      BY <3>1
    <3>3. PICK victims, pfs, infos : victims = out.victims /\ pfs = StateOf(in) /\ infos = SnapshotOf(in)
      OBVIOUS
    <3>4. DOMAIN infos = DOMAIN in.quotas
      BY <3>3, CountedInfo DEF SnapshotOf
    <3>5. ASSUME NEW ns \in DOMAIN infos \ {in.pod.ns}, NEW mine, mine = {v \in victims : v.ns = ns},
                 mine # {}
          PROVE  /\ ~usedOverMinWith(infos[in.pod.ns], pfs.inEQ)
                 /\ \E last \in mine : usedOverMin(Without(in, mine \ {last})[ns])
      <4>1. GivesBack(in.quotas, ToSet(in.pods), infos, pfs, in.pod, victims)
        BY <3>1, <3>3 DEF QuotaOutcome
      <4>2. mine \in SUBSET In(ns, victims)
        BY <3>5 DEF In
      <4> QED
        BY <3>4, <3>5, <4>1, <4>2 DEF GivesBack, Without
    <3> QED
      BY <3>2, <3>3, <3>5 DEF GuaranteeKept
  <2> QED
    BY <2>1, <2>2, <2>3, Returns DEF OnlyBy
<1> QED
  BY <1>1, <1>2, PTL DEF Spec

----------------------------------------------------------------------------
(* The risk score.                                                         *)

(* The greatest of finitely many integers and one more.                    *)
IsGreatest(n, s, x, top) ==
  /\ top \in Int /\ x <= top /\ \A k \in 1 .. n : s[k] <= top
  /\ top = x \/ \E k \in 1 .. n : top = s[k]

LEMMA Greatest ==
  ASSUME NEW n \in Nat, NEW s \in [1 .. n -> Int], NEW x \in Int,
         NEW top, top = Max({x} \cup ToSet(s))
  PROVE  IsGreatest(n, s, x, top)
<1> DEFINE t == [k \in 1 .. n + 1 |-> IF k <= n THEN s[k] ELSE x]
<1>1. t \in [1 .. n + 1 -> Int] /\ n + 1 \in Nat \ {0}
  <2>1. \A k \in 1 .. n + 1 : k <= n => k \in 1 .. n
    OBVIOUS
  <2> QED
    BY <2>1
<1>2. t[n + 1] = x
  OBVIOUS
<1>3. \A k \in 1 .. n : t[k] = s[k] /\ k \in 1 .. n + 1
  OBVIOUS
<1>4. \A k \in 1 .. n + 1 : k = n + 1 \/ k \in 1 .. n
  OBVIOUS
<1> HIDE DEF t
<1>5. ToSet(t) = {x} \cup ToSet(s)
  <2>1. ToSet(t) = {t[k] : k \in 1 .. n + 1} /\ ToSet(s) = {s[k] : k \in 1 .. n}
    BY <1>1 DEF ToSet
  <2>2. n + 1 \in 1 .. n + 1
    BY <1>1
  <2>3. \A v \in ToSet(t) : v \in {x} \cup ToSet(s)
    BY <1>2, <1>3, <1>4, <2>1
  <2>4. \A v \in {x} \cup ToSet(s) : v \in ToSet(t)
    BY <1>2, <1>3, <2>1, <2>2
  <2> QED
    BY <2>3, <2>4
<1>6. PICK m \in Nat \ {0} : m = n + 1
  BY <1>1
<1>7. /\ Max(ToSet(t)) \in Int /\ \A k \in 1 .. m : t[k] <= Max(ToSet(t))
      /\ \E k \in 1 .. m : t[k] = Max(ToSet(t))
  BY <1>1, <1>6, Extremes
<1>8. top \in Int /\ (\A k \in 1 .. m : t[k] <= top) /\ \E k \in 1 .. m : t[k] = top
  BY <1>5, <1>7
<1>9. m \in 1 .. m
  OBVIOUS
<1> QED
  BY <1>2, <1>3, <1>4, <1>6, <1>8, <1>9 DEF IsGreatest

(* A pod with the types that are assumed.                                  *)
RiskRequests == [{"cpu", "memory"} -> Nat]
RiskPod == [containers : Seq(RiskRequests), inits : Seq(RiskRequests), overhead : RiskRequests]

(* What the containers or the init containers request of r.                *)
Requests(cs, r) == [k \in DOMAIN cs |-> cs[k][r]]

LEMMA RequestsType ==
  ASSUME NEW cs \in Seq(RiskRequests), NEW r \in {"cpu", "memory"}
  PROVE  /\ Len(cs) \in Nat /\ DOMAIN cs = 1 .. Len(cs)
         /\ Requests(cs, r) \in [1 .. Len(cs) -> Nat]
         /\ SumOver(Requests(cs, r), DOMAIN cs) \in Nat
<1>1. Len(cs) \in Nat /\ DOMAIN cs = 1 .. Len(cs) /\ \A k \in 1 .. Len(cs) : cs[k] \in RiskRequests
  BY LenProperties, ElementOfSeq
<1>2. \A k \in 1 .. Len(cs) : cs[k][r] \in Nat
  BY <1>1 DEF RiskRequests
<1>3. Requests(cs, r) \in [1 .. Len(cs) -> Nat]
  BY <1>1, <1>2 DEF Requests
<1>4. IsFiniteSet(1 .. Len(cs)) /\ 1 .. Len(cs) \in SUBSET (1 .. Len(cs))
  BY <1>1, FS_Interval
<1> QED
  BY <1>1, <1>3, <1>4, UnitsFinite

(* A pod never requests less than it would without its containers.         *)
LEMMA RequestsLess ==
  ASSUME NEW pod \in RiskPod, NEW small, small = [pod EXCEPT !.containers = << >>],
         NEW r \in {"cpu", "memory"}
  PROVE  /\ getResourceRequested(pod, r) \in Nat /\ getResourceRequested(small, r) \in Nat
         /\ getResourceRequested(small, r) <= getResourceRequested(pod, r)
<1>1. /\ pod.containers \in Seq(RiskRequests) /\ pod.inits \in Seq(RiskRequests)
      /\ pod.overhead[r] \in Nat
      /\ small.containers = << >> /\ small.inits = pod.inits /\ small.overhead = pod.overhead
  BY DEF RiskPod, RiskRequests
<1>2. PICK s : s = Requests(pod.inits, r)
  OBVIOUS
<1>3. PICK n \in Nat : n = Len(pod.inits) /\ s \in [1 .. n -> Nat]
  BY <1>1, <1>2, RequestsType
<1>4. s \in [1 .. n -> Int]
  BY <1>3
<1>5. PICK x \in Nat : x = SumOver(Requests(pod.containers, r), DOMAIN pod.containers)
  BY <1>1, RequestsType
<1>6. PICK zero \in Nat : zero = 0
  OBVIOUS
<1>7. SumOver(Requests(small.containers, r), DOMAIN small.containers) = zero
  <2>1. DOMAIN small.containers = {}
    BY <1>1
  <2> QED
    BY <1>6, <2>1, SumOverEmpty
<1>8. PICK top : top = Max({x} \cup ToSet(s))
  OBVIOUS
<1>9. PICK low : low = Max({zero} \cup ToSet(s))
  OBVIOUS
<1>10. getResourceRequested(pod, r) = top + pod.overhead[r]
  BY <1>2, <1>5, <1>8 DEF getResourceRequested, Requests
<1>11. getResourceRequested(small, r) = low + pod.overhead[r]
  <2>1. getResourceRequested(small, r)
          = Max({SumOver(Requests(small.containers, r), DOMAIN small.containers)}
                  \cup ToSet(Requests(small.inits, r))) + small.overhead[r]
    BY Zenon DEF getResourceRequested, Requests
  <2> QED
    BY <1>1, <1>2, <1>7, <1>9, <2>1, Zenon
<1>12. IsGreatest(n, s, x, top)
  <2>1. x \in Int
    OBVIOUS
  <2> QED
    BY <1>4, <1>8, <2>1, Greatest
<1>13. IsGreatest(n, s, zero, low)
  <2>1. zero \in Int
    OBVIOUS
  <2> QED
    BY <1>4, <1>9, <2>1, Greatest
<1>14. low <= top
  BY <1>6, <1>12, <1>13 DEF IsGreatest
<1> QED
  BY <1>1, <1>6, <1>10, <1>11, <1>12, <1>13, <1>14 DEF IsGreatest

(* The fractions that a score of 0 .. 100 may be.                          *)
IsScore(x) == x.num \in Int /\ x.den \in Int /\ 0 < x.den /\ 0 <= x.num /\ x.num <= 100 * x.den

LEMMA ProductLess ==
  ASSUME NEW a \in Int, NEW b \in Int, NEW c \in Int, a <= b, 0 <= c
  PROVE  a * c <= b * c
OBVIOUS

LEMMA ProductLessBy ==
  ASSUME NEW a \in Int, NEW b \in Int, NEW c \in Int, a * c <= b * c, 0 < c
  PROVE  a <= b
<1> SUFFICES ASSUME b + 1 <= a PROVE FALSE
  OBVIOUS
<1>1. (b + 1) * c <= a * c
  BY ProductLess
<1>2. (b + 1) * c = b * c + c
  OBVIOUS
<1>3. b * c \in Int /\ a * c \in Int
  OBVIOUS
<1> QED
  BY <1>1, <1>2, <1>3

LEMMA RootType ==
  ASSUME NEW sigma \in Int, NEW sensitivity
  PROVE  Root(sigma, sensitivity) \in Int
<1>1. \/ Root(sigma, sensitivity) = 10 * sigma \/ Root(sigma, sensitivity) = sigma * sigma
      \/ Root(sigma, sensitivity) = IF sigma = 10 THEN 100 ELSE 0
  BY Zenon DEF Root
<1> QED
  BY <1>1

(* The mean of the load and the deviation of a resource, as computeScore   *)
(* bounds them.                                                            *)
Load(rs) == Clamp(Clamp(rs.avg, 0, 10) * rs.capacity + 10 * Most2(rs.req, 0), 0, 10 * rs.capacity)
Deviation(rs, margin, sensitivity) == Clamp(Root(Clamp(rs.std, 0, 10), sensitivity) * margin, 0, 100)

(* Either resource has a score of 0 .. 100, and a smaller request has a    *)
(* score that is not lower, of the same denominator.                       *)
LEMMA ResourceScored ==
  ASSUME NEW rs \in [avg : Int, std : Int, req : Nat, capacity : Int],
         NEW less \in [avg : Int, std : Int, req : Nat, capacity : Int],
         less.avg = rs.avg, less.std = rs.std, less.capacity = rs.capacity, less.req <= rs.req,
         NEW margin \in Int, NEW sensitivity,
         NEW x, x = computeScore(rs, margin, sensitivity),
         NEW y, y = computeScore(less, margin, sensitivity)
  PROVE  IsScore(x) /\ IsScore(y) /\ x.den = y.den /\ x.num <= y.num
<1>1. CASE rs.capacity <= 0
  <2>1. x = [num |-> 0, den |-> 1] /\ y = [num |-> 0, den |-> 1]
    BY <1>1 DEF computeScore
  <2> QED
    BY <2>1 DEF IsScore
<1>2. CASE rs.capacity > 0
  <2>1. PICK c \in Nat : c = rs.capacity /\ 0 < c
    BY <1>2
  <2>2. PICK a \in Int : a = Clamp(rs.avg, 0, 10)
    BY DEF Clamp, Most2, Least2
  <2>3. PICK d \in Int : d = Clamp(rs.std, 0, 10)
    BY DEF Clamp, Most2, Least2
  <2>4. PICK sigma \in Int : sigma = Deviation(rs, margin, sensitivity) /\ 0 <= sigma /\ sigma <= 100
    <3>1. PICK e \in Int : e = Root(d, sensitivity) * margin
      BY RootType
    <3>2. Deviation(rs, margin, sensitivity) = Clamp(e, 0, 100)
      BY <2>3, <3>1 DEF Deviation
    <3> QED
      BY <3>2 DEF Clamp, Most2, Least2
  <2>5. Deviation(less, margin, sensitivity) = sigma
    BY <2>4 DEF Deviation
  <2>6. /\ a * c + 10 * Most2(rs.req, 0) \in Int /\ a * c + 10 * Most2(less.req, 0) \in Int
        /\ a * c + 10 * Most2(less.req, 0) <= a * c + 10 * Most2(rs.req, 0)
    BY DEF Most2
  <2>7. PICK more \in Int : more = a * c + 10 * Most2(rs.req, 0)
    BY <2>6
  <2>8. PICK fewer \in Int : fewer = a * c + 10 * Most2(less.req, 0)
    BY <2>6
  <2>9. PICK mu \in Int : mu = Load(rs) /\ 0 <= mu /\ mu <= 10 * c
    <3>1. Load(rs) = Clamp(more, 0, 10 * c)
      BY <2>1, <2>2, <2>7 DEF Load
    <3> QED
      BY <3>1 DEF Clamp, Most2, Least2
  <2>10. PICK nu \in Int : nu = Load(less) /\ 0 <= nu /\ nu <= mu
    <3>1. Load(rs) = Clamp(more, 0, 10 * c) /\ Load(less) = Clamp(fewer, 0, 10 * c)
      BY <2>1, <2>2, <2>7, <2>8 DEF Load
    <3>2. fewer <= more
      BY <2>6, <2>7, <2>8
    <3> QED
      BY <2>9, <3>1, <3>2 DEF Clamp, Most2, Least2
  <2>11. /\ x = [num |-> 1000 * c - 50 * mu - 5 * sigma * c, den |-> 10 * c]
         /\ y = [num |-> 1000 * c - 50 * nu - 5 * sigma * c, den |-> 10 * c]
    BY <1>2, <2>1, <2>4, <2>5, <2>9, <2>10 DEF computeScore, Load, Deviation
  <2>12. PICK p \in Int : p = sigma * c /\ 0 <= p /\ p <= 100 * c
    <3>1. sigma * c \in Int /\ 0 * c <= sigma * c /\ sigma * c <= 100 * c
      BY <2>4, ProductLess
    <3> QED
      BY <3>1
  <2>13. 5 * sigma * c = 5 * p
    BY <2>12
  <2>14. x.num = 1000 * c - 50 * mu - 5 * p /\ y.num = 1000 * c - 50 * nu - 5 * p
         /\ x.den = 10 * c /\ y.den = 10 * c
    BY <2>11, <2>13
  <2> QED
    BY <2>1, <2>9, <2>10, <2>12, <2>14 DEF IsScore
<1> QED
  BY <1>1, <1>2

(* Fractions are ordered.                                                  *)
LEMMA FractionsTransitive ==
  ASSUME NEW x, IsScore(x), NEW y, IsScore(y), NEW z, IsScore(z),
         AtMostFraction(x, y), AtMostFraction(y, z)
  PROVE  AtMostFraction(x, z)
<1>1. PICK a \in Int, b \in Int : a = x.num /\ b = x.den /\ 0 < b
  BY DEF IsScore
<1>2. PICK c \in Int, d \in Int : c = y.num /\ d = y.den /\ 0 < d
  BY DEF IsScore
<1>3. PICK e \in Int, f \in Int : e = z.num /\ f = z.den /\ 0 < f
  BY DEF IsScore
<1>4. a * d <= c * b /\ c * f <= e * d
  BY <1>1, <1>2, <1>3 DEF AtMostFraction
<1>5. PICK ad \in Int, cb \in Int, cf \in Int, ed \in Int, af \in Int, eb \in Int :
        ad = a * d /\ cb = c * b /\ cf = c * f /\ ed = e * d /\ af = a * f /\ eb = e * b
  OBVIOUS
<1>6. ad * f <= cb * f
  <2>1. ad <= cb /\ 0 <= f
    BY <1>3, <1>4, <1>5
  <2> QED
    BY <2>1, ProductLess, Zenon
<1>7. cf * b <= ed * b
  <2>1. cf <= ed /\ 0 <= b
    BY <1>1, <1>4, <1>5
  <2> QED
    BY <2>1, ProductLess, Zenon
<1>8. cb * f = cf * b /\ ad * f = af * d /\ ed * b = eb * d
  <2>1. (c * b) * f = (c * f) * b
    OBVIOUS
  <2>2. (a * d) * f = (a * f) * d
    OBVIOUS
  <2>3. (e * d) * b = (e * b) * d
    OBVIOUS
  <2> QED
    BY <1>5, <2>1, <2>2, <2>3, Zenon
<1>9. af * d <= eb * d
  <2>1. ad * f \in Int /\ cb * f \in Int /\ ed * b \in Int
    OBVIOUS
  <2> QED
    BY <1>6, <1>7, <1>8, <2>1
<1>10. a * f <= e * b
  BY <1>2, <1>5, <1>9, ProductLessBy, Zenon
<1> QED
  BY <1>1, <1>3, <1>10 DEF AtMostFraction

LEMMA FractionsTotal ==
  ASSUME NEW x, IsScore(x), NEW y, IsScore(y)
  PROVE  AtMostFraction(x, y) \/ AtMostFraction(y, x)
<1>1. x.num * y.den \in Int /\ y.num * x.den \in Int
  BY DEF IsScore
<1> QED
  BY <1>1 DEF AtMostFraction

(* The lesser or the greater of two scores grows with either of them.      *)
LEMMA EitherGrows ==
  ASSUME NEW x, IsScore(x), NEW y, IsScore(y), NEW v, IsScore(v), NEW w, IsScore(w),
         AtMostFraction(x, v), AtMostFraction(y, w), NEW both \in BOOLEAN
  PROVE  /\ IsScore(totalScore(both, x, y)) /\ IsScore(totalScore(both, v, w))
         /\ AtMostFraction(totalScore(both, x, y), totalScore(both, v, w))
<1>1. CASE both
  <2>1. /\ totalScore(both, x, y) = IF AtMostFraction(x, y) THEN x ELSE y
        /\ totalScore(both, v, w) = IF AtMostFraction(v, w) THEN v ELSE w
    BY <1>1, Zenon DEF totalScore
  <2> QED
    BY <2>1, FractionsTransitive, FractionsTotal
<1>2. CASE ~both
  <2>1. /\ totalScore(both, x, y) = IF AtMostFraction(x, y) THEN y ELSE x
        /\ totalScore(both, v, w) = IF AtMostFraction(v, w) THEN w ELSE v
    BY <1>2, Zenon DEF totalScore
  <2> QED
    BY <2>1, FractionsTransitive, FractionsTotal
<1> QED
  BY <1>1, <1>2

(* What a rounded division gives.                                          *)
LEMMA Rounded ==
  ASSUME NEW a \in Int, NEW b \in Int, 0 <= a, 0 < b
  PROVE  LET q == (2 * a + b) \div (2 * b)
         IN  /\ q \in Nat /\ (2 * q - 1) * b <= 2 * a
             /\ 2 * a < (2 * q + 1) * b
<1>1. PICK d \in Nat \ {0} : d = 2 * b
  OBVIOUS
<1>2. PICK n \in Nat : n = 2 * a + b
  OBVIOUS
<1>3. PICK q \in Nat : q = n \div d /\ q * d <= n /\ n < q * d + d
  OBVIOUS
<1>4. q * d = 2 * (q * b)
  BY <1>1
<1>5. (2 * q - 1) * b = 2 * (q * b) - b /\ (2 * q + 1) * b = 2 * (q * b) + b
  OBVIOUS
<1>6. q * b \in Int
  OBVIOUS
<1> QED
  BY <1>1, <1>2, <1>3, <1>4, <1>5, <1>6

LEMMA RoundGrows ==
  ASSUME NEW x, IsScore(x), NEW y, IsScore(y), AtMostFraction(x, y)
  PROVE  /\ RoundFraction(x) \in 0 .. 100
         /\ RoundFraction(x) <= RoundFraction(y)
<1>1. PICK a \in Int, b \in Int : a = x.num /\ b = x.den /\ 0 <= a /\ 0 < b /\ a <= 100 * b
  BY DEF IsScore
<1>2. PICK c \in Int, d \in Int : c = y.num /\ d = y.den /\ 0 <= c /\ 0 < d
  BY DEF IsScore
<1>3. PICK p \in Nat : p = RoundFraction(x) /\ (2 * p - 1) * b <= 2 * a
  BY <1>1, Rounded DEF RoundFraction
<1>4. PICK q \in Nat : q = RoundFraction(y) /\ 2 * c < (2 * q + 1) * d
  BY <1>2, Rounded DEF RoundFraction
<1>5. p <= 100
  <2> SUFFICES ASSUME 201 <= 2 * p - 1 PROVE FALSE
    OBVIOUS
  <2>1. 201 * b <= (2 * p - 1) * b
    BY <1>1, ProductLess
  <2>2. (2 * p - 1) * b \in Int
    OBVIOUS
  <2> QED
    BY <1>1, <1>3, <2>1, <2>2
<1>6. p <= q
  <2> SUFFICES ASSUME 2 * q + 1 <= 2 * p - 1 PROVE FALSE
    OBVIOUS
  <2>1. a * d <= c * b
    BY <1>1, <1>2 DEF AtMostFraction
  <2>2. PICK u \in Int : u = 2 * q + 1
    OBVIOUS
  <2>3. u * b <= (2 * p - 1) * b
    BY <1>1, <2>2, ProductLess
  <2>4. u * b <= 2 * a
    <3>1. u * b \in Int /\ (2 * p - 1) * b \in Int
      OBVIOUS
    <3> QED
      BY <1>3, <2>3, <3>1
  <2>5. (u * b) * d <= (2 * a) * d
    <3>1. u * b \in Int
      OBVIOUS
    <3> QED
      BY <1>2, <2>4, <3>1, ProductLess
  <2>6. (2 * c) * b < (u * d) * b
    <3>1. 2 * c + 1 <= u * d /\ u * d \in Int
      BY <1>4, <2>2
    <3>2. (2 * c + 1) * b <= (u * d) * b
      BY <1>1, <3>1, ProductLess
    <3>3. (2 * c + 1) * b = (2 * c) * b + b /\ (2 * c) * b \in Int /\ (u * d) * b \in Int
      OBVIOUS
    <3> QED
      BY <1>1, <3>2, <3>3
  <2>7. (2 * a) * d = 2 * (a * d) /\ (2 * c) * b = 2 * (c * b) /\ (u * d) * b = (u * b) * d
    OBVIOUS
  <2>8. a * d \in Int /\ c * b \in Int /\ (u * b) * d \in Int
    OBVIOUS
  <2> QED
    BY <2>1, <2>5, <2>6, <2>7, <2>8
<1>7. p = RoundFraction(x) /\ q = RoundFraction(y)
  BY <1>3, <1>4
<1>8. p \in 0 .. 100
  BY <1>5
<1> QED
  BY <1>6, <1>7, <1>8, Zenon

(* A metric of a type with one of some operators, among the first k; and   *)
(* one that has the value v.                                               *)
Has(metrics, type, ops, k) ==
  \E j \in 1 .. k : metrics[j].type = type /\ metrics[j].operator \in ops
HasValue(metrics, type, ops, k, v) ==
  \E j \in 1 .. k : metrics[j].type = type /\ metrics[j].operator \in ops /\ metrics[j].value = v

(* What getResourceData knows after k metrics: the average is that of the  *)
(* load watcher if it has listed one, or else the latest value.            *)
KnownAfter(metrics, type, k, acc) ==
  /\ acc \in [valid : BOOLEAN, found : BOOLEAN, avg : Int, std : Int]
  /\ acc.valid <=> \E j \in 1 .. k : metrics[j].type = type
  /\ acc.found <=> Has(metrics, type, {"Average"}, k)
  /\ acc.found => HasValue(metrics, type, {"Average"}, k, acc.avg)
  /\ ~acc.found /\ Has(metrics, type, LatestValue, k)
       => HasValue(metrics, type, LatestValue, k, acc.avg)
  /\ ~acc.found /\ ~Has(metrics, type, LatestValue, k) => acc.avg = 0
  /\ IF Has(metrics, type, {"Std"}, k) THEN HasValue(metrics, type, {"Std"}, k, acc.std)
     ELSE acc.std = 0

RiskMetrics == Seq([type : STRING, operator : STRING, value : Int])

LEMMA MeasureStep ==
  ASSUME NEW metrics \in RiskMetrics, NEW type, NEW k \in 1 .. Len(metrics),
         NEW acc, KnownAfter(metrics, type, k - 1, acc),
         NEW next, next = IF metrics[k].type = type THEN Measure(acc, metrics[k]) ELSE acc
  PROVE  KnownAfter(metrics, type, k, next)
<1>1. PICK m \in [type : STRING, operator : STRING, value : Int] : m = metrics[k]
  BY ElementOfSeq, LenProperties DEF RiskMetrics
<1>2. k \in Nat \ {0} /\ \A j : j \in 1 .. k <=> j \in 1 .. k - 1 \/ j = k
  BY LenProperties DEF RiskMetrics
<1>3. ASSUME NEW ops
      PROVE  /\ Has(metrics, type, ops, k)
                   <=> Has(metrics, type, ops, k - 1) \/ (m.type = type /\ m.operator \in ops)
             /\ \A v : HasValue(metrics, type, ops, k, v)
                   <=> \/ HasValue(metrics, type, ops, k - 1, v)
                       \/ (m.type = type /\ m.operator \in ops /\ m.value = v)
  BY <1>1, <1>2 DEF Has, HasValue
<1>4. (\E j \in 1 .. k : metrics[j].type = type)
        <=> (\E j \in 1 .. k - 1 : metrics[j].type = type) \/ m.type = type
  BY <1>1, <1>2
<1>5. CASE m.type # type
  <2>1. next = acc
    BY <1>1, <1>5
  <2> QED
    BY <1>3, <1>4, <1>5, <2>1 DEF KnownAfter
<1>6. CASE m.type = type
  <2>1. next = Measure(acc, m)
    BY <1>1, <1>6
  <2>0. "Average" \notin LatestValue /\ "Std" \notin LatestValue
    BY Zenon DEF LatestValue
  <2>2. acc \in [valid : BOOLEAN, found : BOOLEAN, avg : Int, std : Int]
    BY DEF KnownAfter
  <2>3. /\ next \in [valid : BOOLEAN, found : BOOLEAN, avg : Int, std : Int]
        /\ next.valid /\ (next.found <=> acc.found \/ m.operator = "Average")
        /\ next.avg = IF m.operator = "Average" \/ (m.operator \in LatestValue /\ ~acc.found)
                        THEN m.value ELSE acc.avg
        /\ next.std = IF m.operator = "Std" THEN m.value ELSE acc.std
    <3>1. PICK found \in BOOLEAN : found = (acc.found \/ m.operator = "Average")
      OBVIOUS
    <3>2. PICK avg \in Int : avg = IF m.operator = "Average" \/ (m.operator \in LatestValue /\ ~acc.found)
                                    THEN m.value ELSE acc.avg
      BY <2>2
    <3>3. PICK std \in Int : std = IF m.operator = "Std" THEN m.value ELSE acc.std
      BY <2>2
    <3>4. PICK yes \in BOOLEAN : yes = TRUE
      OBVIOUS
    <3>5. next = [valid |-> yes, found |-> found, avg |-> avg, std |-> std]
      BY <2>1, <3>1, <3>2, <3>3, <3>4, Zenon DEF Measure
    <3>6. next.valid = yes /\ next.found = found /\ next.avg = avg /\ next.std = std
      BY <3>5
    <3>7. next \in [valid : BOOLEAN, found : BOOLEAN, avg : Int, std : Int]
      BY <3>5
    <3> QED
      BY <3>1, <3>2, <3>3, <3>4, <3>6, <3>7, Zenon
  <2>4. next.found <=> Has(metrics, type, {"Average"}, k)
    BY <1>3, <1>6, <2>0, <2>3 DEF KnownAfter
  <2>5. next.found => HasValue(metrics, type, {"Average"}, k, next.avg)
    BY <1>3, <1>6, <2>0, <2>3 DEF KnownAfter
  <2>6. ~next.found /\ Has(metrics, type, LatestValue, k)
          => HasValue(metrics, type, LatestValue, k, next.avg)
    BY <1>3, <1>6, <2>0, <2>3 DEF KnownAfter
  <2>7. ~next.found /\ ~Has(metrics, type, LatestValue, k) => next.avg = 0
    BY <1>3, <1>6, <2>0, <2>3 DEF KnownAfter
  <2>8. IF Has(metrics, type, {"Std"}, k) THEN HasValue(metrics, type, {"Std"}, k, next.std)
        ELSE next.std = 0
    BY <1>3, <1>6, <2>0, <2>3 DEF KnownAfter
  <2> QED
    BY <1>4, <1>6, <2>3, <2>4, <2>5, <2>6, <2>7, <2>8 DEF KnownAfter
<1> QED
  BY <1>5, <1>6

LEMMA MetricsRead ==
  ASSUME NEW metrics \in RiskMetrics, NEW type
  PROVE  KnownAfter(metrics, type, Len(metrics), getResourceData(metrics, type))
<1> DEFINE n == Len(metrics)
           Step(x, k) == IF metrics[k].type = type THEN Measure(x, metrics[k]) ELSE x
           a == NoData
           acc == MetricLoop(metrics, type)
           Inv == [k \in 0 .. n |-> {x \in [valid : BOOLEAN, found : BOOLEAN, avg : Int, std : Int] :
                                   KnownAfter(metrics, type, k, x)}]
           step == [k \in 1 .. n |-> [x \in Inv[k - 1] |-> Step(x, k)]]
<1>1. n \in Nat
  BY LenProperties DEF RiskMetrics
<1>2. a \in Inv[0]
  <2>1. KnownAfter(metrics, type, 0, a)
    BY DEF KnownAfter, Has, HasValue, NoData
  <2>2. 0 \in 0 .. n
    BY <1>1
  <2> QED
    BY <2>1, <2>2 DEF KnownAfter
<1>3. ASSUME NEW k \in 1 .. n, NEW x \in Inv[k - 1] PROVE Step(x, k) \in Inv[k]
  <2>1. k - 1 \in 0 .. n /\ k \in 0 .. n
    BY <1>1
  <2>2. KnownAfter(metrics, type, k - 1, x)
    BY <2>1
  <2>3. KnownAfter(metrics, type, k, Step(x, k))
    <3> HIDE DEF Inv
    <3> QED
      BY <2>2, MeasureStep
  <2> HIDE DEF Step
  <2> QED
    BY <2>1, <2>3 DEF KnownAfter
<1>4. PICK f : RunsThrough(n, Inv, a, step, f)
  <2>1. \A k \in 1 .. n : \A x \in Inv[k - 1] : step[k][x] \in Inv[k]
    <3> HIDE DEF Inv, Step
    <3> QED
      BY <1>3
  <2> HIDE DEF n, Inv, a, step
  <2> QED
    BY <1>1, <1>2, <2>1, LoopRuns
<1>5. f = [k \in 0 .. n |-> IF k = 0 THEN a ELSE Step(f[k - 1], k)]
  <2> HIDE DEF Inv, a, Step
  <2>1. ASSUME NEW k \in 1 .. n PROVE f[k] = Step(f[k - 1], k)
    <3>1. k - 1 \in 0 .. n
      BY <1>1
    <3>2. f[k - 1] \in Inv[k - 1] /\ f[k] = step[k][f[k - 1]]
      BY <1>4, <3>1 DEF RunsThrough
    <3> QED
      BY <3>2
  <2>2. f = [k \in 0 .. n |-> f[k]] /\ f[0] = a
    BY <1>4 DEF RunsThrough
  <2> HIDE DEF n
  <2>3. \A k \in 0 .. n : k = 0 \/ k \in 1 .. n
    BY <1>1
  <2> QED
    BY <2>1, <2>2, <2>3
<1>6. acc = [k \in 0 .. n |-> IF k = 0 THEN a ELSE Step(acc[k - 1], k)]
  BY <1>5 DEF MetricLoop
<1> HIDE DEF acc, a, Step
<1>7. acc[0] = a /\ \A k \in 1 .. n : acc[k] = Step(acc[k - 1], k)
  <2>1. \A k \in 0 .. n : acc[k] = IF k = 0 THEN a ELSE Step(acc[k - 1], k)
    BY <1>6
  <2> HIDE DEF n
  <2> QED
    BY <1>1, <2>1
<1>8. acc[n] \in Inv[n]
  <2> HIDE DEF Inv, n
  <2>1. \A k \in 1 .. n : acc[k - 1] \in Inv[k - 1] => acc[k] \in Inv[k]
    BY <1>3, <1>7
  <2>2. \A k \in 0 .. n : acc[k] \in Inv[k]
    BY <1>1, <1>2, <1>7, <2>1, LoopKeeps
  <2> QED
    BY <1>1, <2>2
<1>9. n \in 0 .. n
  BY <1>1
<1> QED
  BY <1>8, <1>9 DEF acc, getResourceData

(* Two metrics of a list never play the same role.                         *)
RolesDiffer(metrics) ==
  \A j, k \in DOMAIN metrics : j # k => Role(metrics[j]) # Role(metrics[k])

(* Hence the order of the metrics does not matter.                         *)
LEMMA ReverseRead ==
  ASSUME NEW metrics \in RiskMetrics, RolesDiffer(metrics), NEW type
  PROVE  LET x == getResourceData(metrics, type)
             y == getResourceData(Reverse(metrics), type)
         IN  x.valid = y.valid /\ x.avg = y.avg /\ x.std = y.std
<1>1. PICK n \in Nat : n = Len(metrics) /\ DOMAIN metrics = 1 .. n
  BY LenProperties DEF RiskMetrics
<1>2. PICK back : back = Reverse(metrics)
  OBVIOUS
<1>3. back \in RiskMetrics /\ Len(back) = n /\ \A j \in 1 .. n : back[j] = metrics[n - j + 1]
  <2> DEFINE M == [type : STRING, operator : STRING, value : Int]
  <2>1. back = [j \in 1 .. n |-> metrics[n - j + 1]]
    BY <1>1, <1>2 DEF Reverse
  <2>2. \A j \in 1 .. n : metrics[n - j + 1] \in M
    <3>1. \A j \in 1 .. n : n - j + 1 \in 1 .. n
      OBVIOUS
    <3>2. metrics \in Seq(M)
      BY DEF RiskMetrics
    <3> HIDE DEF M
    <3>3. \A j \in 1 .. n : metrics[j] \in M
      BY <1>1, <3>2, ElementOfSeq
    <3> QED
      BY <3>1, <3>3
  <2> HIDE DEF M
  <2>3. back \in [1 .. n -> M]
    BY <2>1, <2>2
  <2>4. back \in Seq(M) /\ Len(back) = n
    BY <2>3
  <2> QED
    BY <2>1, <2>4 DEF M, RiskMetrics
<1>4. \A j \in 1 .. n : n - j + 1 \in 1 .. n /\ n - (n - j + 1) + 1 = j
  OBVIOUS
<1>5. ASSUME NEW ops
      PROVE  /\ Has(back, type, ops, n) <=> Has(metrics, type, ops, n)
             /\ \A v : HasValue(back, type, ops, n, v) <=> HasValue(metrics, type, ops, n, v)
  BY <1>3, <1>4 DEF Has, HasValue
<1>6. (\E j \in 1 .. n : back[j].type = type) <=> (\E j \in 1 .. n : metrics[j].type = type)
  BY <1>3, <1>4
<1>7. ASSUME NEW ops \in {{"Average"}, {"Std"}, LatestValue}, NEW v, NEW w,
             HasValue(metrics, type, ops, n, v), HasValue(metrics, type, ops, n, w)
      PROVE  v = w
  <2>1. PICK j \in 1 .. n : metrics[j].type = type /\ metrics[j].operator \in ops /\ metrics[j].value = v
    BY <1>7 DEF HasValue
  <2>2. PICK k \in 1 .. n : metrics[k].type = type /\ metrics[k].operator \in ops /\ metrics[k].value = w
    BY <1>7 DEF HasValue
  <2>3. Role(metrics[j]) = Role(metrics[k])
    <3> DEFINE R(o) == IF o = "Latest" THEN "" ELSE o
    <3>1. CASE ops \in {{"Average"}, {"Std"}}
      <4>1. metrics[j].operator = metrics[k].operator
        BY <2>1, <2>2, <3>1
      <4> QED
        BY <2>1, <2>2, <4>1, Zenon DEF Role
    <3>2. CASE ops = LatestValue
      <4>1. R(metrics[j].operator) = "" /\ R(metrics[k].operator) = ""
        BY <2>1, <2>2, <3>2, Zenon DEF LatestValue
      <4> QED
        BY <2>1, <2>2, <4>1, Zenon DEF Role
    <3> QED
      BY <3>1, <3>2, Zenon
  <2>4. j = k
    BY <1>1, <2>3 DEF RolesDiffer
  <2> QED
    BY <2>1, <2>2, <2>4
<1>8. PICK x : x = getResourceData(metrics, type)
  OBVIOUS
<1>9. PICK y : y = getResourceData(back, type)
  OBVIOUS
<1>10. KnownAfter(metrics, type, n, x) /\ KnownAfter(back, type, n, y)
  BY <1>1, <1>3, <1>8, <1>9, MetricsRead
<1>11. x.valid = y.valid
  BY <1>6, <1>10, Zenon DEF KnownAfter
<1>12. x.found <=> y.found
  BY <1>5, <1>10 DEF KnownAfter
<1>13. x.avg = y.avg
  BY <1>5, <1>7, <1>10, <1>12 DEF KnownAfter
<1>14. x.std = y.std
  BY <1>5, <1>7, <1>10 DEF KnownAfter
<1> QED
  BY <1>2, <1>8, <1>9, <1>11, <1>13, <1>14

(* The score of one resource as RiskScore has it.                          *)
ResourceScore(metrics, pod, allocatable, margin, sensitivity, r) ==
  IF getResourceData(metrics, r).valid
    THEN computeScore(createResourceStats(metrics, pod, allocatable, r), margin, sensitivity)
    ELSE [num |-> 0, den |-> 1]

BothValid(metrics) ==
  getResourceData(metrics, "cpu").valid /\ getResourceData(metrics, "memory").valid

LEMMA RiskScoreIs ==
  ASSUME NEW metrics, metrics # << >>, NEW pod, NEW allocatable, NEW margin, NEW sensitivity
  PROVE  RiskScore(metrics, pod, allocatable, margin, sensitivity)
           = RoundFraction(totalScore(BothValid(metrics),
               ResourceScore(metrics, pod, allocatable, margin, sensitivity, "cpu"),
               ResourceScore(metrics, pod, allocatable, margin, sensitivity, "memory")))
BY Zenon DEF RiskScore, BothValid, ResourceScore

(* Without its containers a pod has no lower score for either resource.    *)
LEMMA ResourceScoreGrows ==
  ASSUME NEW metrics \in RiskMetrics, NEW pod \in RiskPod,
         NEW small, small = [pod EXCEPT !.containers = << >>],
         NEW allocatable \in [{"cpu", "memory"} -> Int], NEW margin \in Int, NEW sensitivity,
         NEW r \in {"cpu", "memory"},
         NEW x, x = ResourceScore(metrics, pod, allocatable, margin, sensitivity, r),
         NEW y, y = ResourceScore(metrics, small, allocatable, margin, sensitivity, r)
  PROVE  IsScore(x) /\ IsScore(y) /\ AtMostFraction(x, y)
<1>1. PICK data \in [valid : BOOLEAN, found : BOOLEAN, avg : Int, std : Int] :
        data = getResourceData(metrics, r)
  BY MetricsRead DEF KnownAfter
<1>2. CASE data.valid
  <2>1. PICK rs : rs = createResourceStats(metrics, pod, allocatable, r)
    OBVIOUS
  <2>2. PICK less : less = createResourceStats(metrics, small, allocatable, r)
    OBVIOUS
  <2>3. PICK c \in Int : c = allocatable[r]
    OBVIOUS
  <2>4. PICK p \in Nat : p = getResourceRequested(pod, r)
    BY RequestsLess
  <2>5. PICK q \in Nat : q = getResourceRequested(small, r)
    BY RequestsLess
  <2>6. q <= p
    BY <2>4, <2>5, RequestsLess
  <2>7. /\ rs = [avg |-> data.avg, std |-> data.std, req |-> p, capacity |-> c]
        /\ less = [avg |-> data.avg, std |-> data.std, req |-> q, capacity |-> c]
    BY <1>1, <2>1, <2>2, <2>3, <2>4, <2>5 DEF createResourceStats
  <2>8. /\ rs \in [avg : Int, std : Int, req : Nat, capacity : Int]
        /\ less \in [avg : Int, std : Int, req : Nat, capacity : Int]
        /\ less.avg = rs.avg /\ less.std = rs.std /\ less.capacity = rs.capacity
        /\ less.req <= rs.req
    BY <2>6, <2>7
  <2>9. x = computeScore(rs, margin, sensitivity) /\ y = computeScore(less, margin, sensitivity)
    BY <1>1, <1>2, <2>1, <2>2 DEF ResourceScore
  <2>10. IsScore(x) /\ IsScore(y) /\ x.den = y.den /\ x.num <= y.num
    BY <2>8, <2>9, ResourceScored
  <2>11. x.num * y.den <= y.num * x.den
    <3>1. x.num \in Int /\ y.num \in Int /\ x.den \in Int /\ 0 <= x.den
      BY <2>10 DEF IsScore
    <3> QED
      BY <2>10, <3>1, ProductLess
  <2> QED
    BY <2>10, <2>11 DEF AtMostFraction
<1>3. CASE ~data.valid
  <2>1. x = [num |-> 0, den |-> 1] /\ y = [num |-> 0, den |-> 1]
    BY <1>1, <1>3 DEF ResourceScore
  <2> QED
    BY <2>1 DEF IsScore, AtMostFraction
<1> QED
  BY <1>2, <1>3

(* ScoreRisk: for every list of metrics and every pod the score is a node  *)
(* score, it does not grow with the requests of the containers, and the    *)
(* order of the metrics plays no part unless one is listed twice.          *)
THEOREM RiskIsSound == Spec => []RiskSound
<1>1. Init => RiskSound
  BY DEF Init, NoCall, RiskSound
<1>2. RiskSound /\ [Next]_call => RiskSound'
  <2> SUFFICES ASSUME RiskSound, [Next]_call, call'.op = "risk" PROVE RiskSound'
    BY DEF RiskSound
  <2>1. CASE UNCHANGED call
    BY <2>1, Zenon DEF RiskSound
  <2>2. CASE ScoreRisk
    <3>1. PICK in \in RiskInputs :
            call' = [op |-> "risk", in |-> in,
                     out |-> RiskScore(in.metrics, in.pod, in.allocatable, in.margin, in.sensitivity)]
      BY <2>2 DEF ScoreRisk, Called
    <3>2. PICK metrics \in RiskMetrics : metrics = in.metrics
      BY RiskAssumption DEF RiskMetrics
    <3>3. PICK pod \in RiskPod : pod = in.pod
      BY RiskAssumption DEF RiskPod, RiskRequests
    <3>4. PICK allocatable \in [{"cpu", "memory"} -> Int] : allocatable = in.allocatable
      BY RiskAssumption
    <3>5. PICK margin \in Int : margin = in.margin
      BY RiskAssumption
    <3>6. PICK sensitivity : sensitivity = in.sensitivity
      OBVIOUS
    <3>7. PICK small : small = [pod EXCEPT !.containers = << >>]
      OBVIOUS
    <3>8. PICK out : out = RiskScore(metrics, pod, allocatable, margin, sensitivity)
      OBVIOUS
    <3>9. call'.in = in /\ call'.out = out
      BY <3>1, <3>2, <3>3, <3>4, <3>5, <3>6, <3>8
    <3>10. /\ out \in 0 .. 100
           /\ out <= RiskScore(metrics, small, allocatable, margin, sensitivity)
      <4>1. CASE metrics = << >>
        <5>1. out = 0 /\ RiskScore(metrics, small, allocatable, margin, sensitivity) = 0
          BY <3>8, <4>1, Zenon DEF RiskScore
        <5> QED
          BY <5>1
      <4>2. CASE metrics # << >>
        <5>1. PICK x : x = ResourceScore(metrics, pod, allocatable, margin, sensitivity, "cpu")
          OBVIOUS
        <5>2. PICK y : y = ResourceScore(metrics, pod, allocatable, margin, sensitivity, "memory")
          OBVIOUS
        <5>3. PICK v : v = ResourceScore(metrics, small, allocatable, margin, sensitivity, "cpu")
          OBVIOUS
        <5>4. PICK w : w = ResourceScore(metrics, small, allocatable, margin, sensitivity, "memory")
          OBVIOUS
        <5>5. IsScore(x) /\ IsScore(v) /\ AtMostFraction(x, v)
          BY <3>7, <5>1, <5>3, ResourceScoreGrows
        <5>6. IsScore(y) /\ IsScore(w) /\ AtMostFraction(y, w)
          BY <3>7, <5>2, <5>4, ResourceScoreGrows
        <5>7. PICK both \in BOOLEAN : both = BothValid(metrics)
          BY Zenon DEF BothValid
        <5>8. PICK s : s = totalScore(both, x, y)
          OBVIOUS
        <5>9. PICK t : t = totalScore(both, v, w)
          OBVIOUS
        <5>10. IsScore(s) /\ IsScore(t) /\ AtMostFraction(s, t)
          BY <5>5, <5>6, <5>8, <5>9, EitherGrows
        <5>11. RoundFraction(s) \in 0 .. 100 /\ RoundFraction(s) <= RoundFraction(t)
          BY <5>10, RoundGrows
        <5>12. /\ out = RoundFraction(s)
               /\ RiskScore(metrics, small, allocatable, margin, sensitivity) = RoundFraction(t)
          BY <3>8, <4>2, <5>1, <5>2, <5>3, <5>4, <5>7, <5>8, <5>9, RiskScoreIs, Zenon
        <5> QED
          BY <5>11, <5>12
      <4> QED
        BY <4>1, <4>2
    <3>11. ASSUME RolesDiffer(metrics)
           PROVE  out = RiskScore(Reverse(metrics), pod, allocatable, margin, sensitivity)
      <4>1. PICK back : back = Reverse(metrics)
        OBVIOUS
      <4>2. back = << >> <=> metrics = << >>
        BY <4>1, LenProperties DEF Reverse, RiskMetrics
      <4>3. CASE metrics = << >>
        BY <3>8, <4>1, <4>2, <4>3, Zenon DEF RiskScore
      <4>4. CASE metrics # << >>
        <5>1. ASSUME NEW r
              PROVE  /\ getResourceData(metrics, r).valid = getResourceData(back, r).valid
                     /\ getResourceData(metrics, r).avg = getResourceData(back, r).avg
                     /\ getResourceData(metrics, r).std = getResourceData(back, r).std
          BY <3>11, <4>1, ReverseRead
        <5>2. ASSUME NEW r
              PROVE  ResourceScore(metrics, pod, allocatable, margin, sensitivity, r)
                       = ResourceScore(back, pod, allocatable, margin, sensitivity, r)
          BY <5>1, Zenon DEF ResourceScore, createResourceStats
        <5>3. BothValid(metrics) = BothValid(back)
          BY <5>1, Zenon DEF BothValid
        <5>4. out = RoundFraction(totalScore(BothValid(metrics),
                      ResourceScore(metrics, pod, allocatable, margin, sensitivity, "cpu"),
                      ResourceScore(metrics, pod, allocatable, margin, sensitivity, "memory")))
          BY <3>8, <4>4, RiskScoreIs, Zenon
        <5>5. RiskScore(back, pod, allocatable, margin, sensitivity)
                = RoundFraction(totalScore(BothValid(back),
                    ResourceScore(back, pod, allocatable, margin, sensitivity, "cpu"),
                    ResourceScore(back, pod, allocatable, margin, sensitivity, "memory")))
          BY <4>2, <4>4, RiskScoreIs, Zenon
        <5> QED
          BY <4>1, <5>2, <5>3, <5>4, <5>5, Zenon
      <4> QED
        BY <4>3, <4>4
    <3> QED
      BY <3>2, <3>3, <3>4, <3>5, <3>6, <3>7, <3>9, <3>10, <3>11, Zenon
      DEF RiskSound, RolesDiffer, MaxNodeScore
  <2> QED
    BY <2>1, <2>2, Returns DEF OnlyBy
<1> QED
  BY <1>1, <1>2, PTL DEF Spec

----------------------------------------------------------------------------
(* NUMA alignment.                                                         *)

(* What holds of no elements and is kept by one more holds of all.         *)
LEMMA SetInduction ==
  ASSUME NEW X, IsFiniteSet(X), NEW G \in SUBSET SUBSET X, {} \in G,
         \A T \in G : \A x \in X \ T : T \cup {x} \in G
  PROVE  X \in G
<1> DEFINE I == {Cardinality(X \ T) : T \in G}
<1>1. \A T \in G : IsFiniteSet(X \ T) /\ Cardinality(X \ T) \in Nat
  BY FS_Difference, FS_CardinalityType
<1>2. I \in SUBSET Nat /\ I # {}
  BY <1>1
<1>3. PICK i \in I : \A j \in I : i <= j
  BY <1>2, LeastElement
<1>4. PICK T \in G : i = Cardinality(X \ T)
  BY <1>3
<1>5. CASE T = X
  BY <1>4, <1>5
<1>6. CASE T # X
  <2>1. PICK x \in X : x \notin T
    BY <1>6
  <2>2. T \cup {x} \in G /\ X \ (T \cup {x}) = (X \ T) \ {x} /\ x \in X \ T
    BY <1>4, <2>1
  <2>3. Cardinality(X \ (T \cup {x})) \in I
    BY <2>2
  <2>4. Cardinality((X \ T) \ {x}) = Cardinality(X \ T) - 1
    BY <1>1, <2>2, FS_RemoveElement
  <2>5. i \in Nat /\ i - 1 \in I
    BY <1>2, <1>3, <1>4, <2>2, <2>3, <2>4
  <2> HIDE DEF I
  <2>6. i <= i - 1
    BY <1>3, <2>5
  <2> QED
    BY <2>5, <2>6
<1> QED
  BY <1>5, <1>6

(* One more element of a finite set, and one more term of a sum.           *)
LEMMA OneMore ==
  ASSUME NEW X, IsFiniteSet(X), NEW f \in [X -> Nat], NEW T \in SUBSET X, NEW x \in X \ T
  PROVE  /\ SumOver(f, T) \in Nat /\ SumOver(f, T \cup {x}) = SumOver(f, T) + f[x]
         /\ Cardinality(T) \in Nat /\ Cardinality(T \cup {x}) = Cardinality(T) + 1
<1>1. IsFiniteSet(T)
  BY FS_Subset
<1>2. x \in X /\ x \notin T
  OBVIOUS
<1> QED
  <2>1. SumOver(f, T) \in Nat
    BY UnitsFinite
  <2>2. SumOver(f, T \cup {x}) = SumOver(f, T) + f[x]
    BY <1>2, SumOverNew
  <2>3. Cardinality(T) \in Nat
    BY <1>1, FS_CardinalityType
  <2>4. Cardinality(T \cup {x}) = Cardinality(T) + 1
    BY <1>1, <1>2, FS_AddElement
  <2> QED
    BY <2>1, <2>2, <2>3, <2>4

LEMMA NoneYet ==
  ASSUME NEW f, NEW T, T = {}
  PROVE  SumOver(f, T) = 0 /\ Cardinality(T) = 0
BY SumOverEmpty, FS_EmptySet

(* A sum of numbers of at most b.                                          *)
LEMMA SumOverBounded ==
  ASSUME NEW X, IsFiniteSet(X), NEW f \in [X -> Nat], NEW b \in Nat, \A x \in X : f[x] <= b
  PROVE  SumOver(f, X) <= Cardinality(X) * b
<1> DEFINE G == {T \in SUBSET X : SumOver(f, T) <= Cardinality(T) * b}
<1>1. {} \in G
  BY NoneYet
<1>2. ASSUME NEW T \in G, NEW x \in X \ T PROVE T \cup {x} \in G
  <2>1. PICK s \in Nat : s = SumOver(f, T)
    BY OneMore
  <2>2. PICK n \in Nat : n = Cardinality(T)
    BY OneMore
  <2>3. T \in SUBSET X
    OBVIOUS
  <2>4. s <= n * b /\ n * b \in Nat
    BY <2>1, <2>2
  <2> HIDE DEF G
  <2>5. SumOver(f, T \cup {x}) = s + f[x] /\ Cardinality(T \cup {x}) = n + 1
    BY <2>1, <2>2, <2>3, OneMore
  <2>6. (n + 1) * b = n * b + b
    OBVIOUS
  <2>7. f[x] \in Nat /\ f[x] <= b
    OBVIOUS
  <2>8. s + f[x] <= (n + 1) * b
    BY <2>4, <2>6, <2>7
  <2>9. T \cup {x} \in SUBSET X /\ SumOver(f, T \cup {x}) <= Cardinality(T \cup {x}) * b
    BY <2>3, <2>5, <2>8
  <2> QED
    BY <2>9 DEF G
<1>3. X \in G
  <2>1. G \in SUBSET SUBSET X
    OBVIOUS
  <2> HIDE DEF G
  <2> QED
    BY <1>1, <1>2, <2>1, SetInduction
<1> QED
  BY <1>3

(* A mean of scores is a score: f[x] is at most b times the weight of x.   *)
ScaledBy(X, f, w, b) == \A x \in X : f[x] <= b * w[x]

LEMMA SumOverScaled ==
  ASSUME NEW X, IsFiniteSet(X), NEW f \in [X -> Nat], NEW w \in [X -> Nat], NEW b \in Nat,
         ScaledBy(X, f, w, b)
  PROVE  SumOver(f, X) <= b * SumOver(w, X)
<1> DEFINE G == {T \in SUBSET X : SumOver(f, T) <= b * SumOver(w, T)}
<1>1. {} \in G
  BY NoneYet
<1>2. ASSUME NEW T \in G, NEW x \in X \ T PROVE T \cup {x} \in G
  <2>1. PICK s \in Nat : s = SumOver(f, T)
    BY OneMore
  <2>2. PICK n \in Nat : n = SumOver(w, T)
    BY OneMore
  <2>3. T \in SUBSET X
    OBVIOUS
  <2>4. s <= b * n /\ b * n \in Nat
    BY <2>1, <2>2
  <2> HIDE DEF G
  <2>5. SumOver(f, T \cup {x}) = s + f[x] /\ SumOver(w, T \cup {x}) = n + w[x]
    BY <2>1, <2>2, <2>3, OneMore
  <2>6. PICK v \in Nat : v = w[x]
    OBVIOUS
  <2>7. b * (n + v) = b * n + b * v /\ b * v \in Nat
    OBVIOUS
  <2>8. f[x] \in Nat /\ f[x] <= b * v
    BY <2>6 DEF ScaledBy
  <2>9. s + f[x] <= b * (n + v)
    BY <2>4, <2>7, <2>8
  <2>10. T \cup {x} \in SUBSET X /\ SumOver(f, T \cup {x}) <= b * SumOver(w, T \cup {x})
    BY <2>3, <2>5, <2>6, <2>9
  <2> QED
    BY <2>10 DEF G
<1>3. X \in G
  <2>1. G \in SUBSET SUBSET X
    OBVIOUS
  <2> HIDE DEF G
  <2> QED
    BY <1>1, <1>2, <2>1, SetInduction
<1> QED
  BY <1>3

(* The numbers, their sum, the sum of their squares and how many they are. *)
SquaresOf(X, f, q) == q \in [X -> Nat] /\ \A x \in X : q[x] = f[x] * f[x]

LEMMA TwiceTheProduct ==
  ASSUME NEW x \in Int, NEW y \in Int
  PROVE  2 * (x * y) <= x * x + y * y
<1>1. PICK e \in Int : e = x - y
  OBVIOUS
<1>2. 0 <= e * e
  OBVIOUS
<1>3. e * e = x * x - 2 * (x * y) + y * y
  BY <1>1
<1> QED
  BY <1>2, <1>3

LEMMA SquaresAround ==
  ASSUME NEW X, IsFiniteSet(X), NEW f \in [X -> Nat], NEW q, SquaresOf(X, f, q), NEW y \in Nat
  PROVE  2 * (y * SumOver(f, X)) <= SumOver(q, X) + Cardinality(X) * (y * y)
<1> DEFINE G == {T \in SUBSET X : 2 * (y * SumOver(f, T)) <= SumOver(q, T) + Cardinality(T) * (y * y)}
<1>0. q \in [X -> Nat]
  BY DEF SquaresOf
<1>1. {} \in G
  <2>1. PICK none \in SUBSET X : none = {}
    OBVIOUS
  <2>2. SumOver(f, none) = 0 /\ SumOver(q, none) = 0 /\ Cardinality(none) = 0
    BY <2>1, NoneYet
  <2>3. none \in G
    BY <2>2
  <2> QED
    BY <2>1, <2>3
<1>2. ASSUME NEW T \in G, NEW x \in X \ T PROVE T \cup {x} \in G
  <2>1. T \in SUBSET X
    OBVIOUS
  <2>2. PICK s \in Nat : s = SumOver(f, T)
    BY <2>1, OneMore
  <2>3. PICK m \in Nat : m = Cardinality(T)
    BY <2>1, OneMore
  <2>4. PICK t \in Nat : t = SumOver(q, T)
    BY <1>0, <2>1, OneMore
  <2>5. 2 * (y * s) <= t + m * (y * y)
    BY <2>2, <2>3, <2>4
  <2> HIDE DEF G
  <2>6. PICK v \in Nat : v = f[x] /\ q[x] = v * v
    BY DEF SquaresOf
  <2>7. SumOver(f, T \cup {x}) = s + v /\ Cardinality(T \cup {x}) = m + 1
    BY <2>1, <2>2, <2>3, <2>6, OneMore
  <2>8. SumOver(q, T \cup {x}) = t + v * v
    <3>1. SumOver(q, T \cup {x}) = SumOver(q, T) + q[x]
      BY <1>0, <2>1, OneMore
    <3> QED
      BY <2>4, <2>6, <3>1
  <2>9. 2 * (y * v) <= y * y + v * v
    BY TwiceTheProduct
  <2>10. y * (s + v) = y * s + y * v /\ (m + 1) * (y * y) = m * (y * y) + y * y
    OBVIOUS
  <2>11. y * s \in Int /\ y * v \in Int /\ y * y \in Int /\ v * v \in Int /\ m * (y * y) \in Int
    OBVIOUS
  <2>12. 2 * (y * (s + v)) <= (t + v * v) + (m + 1) * (y * y)
    BY <2>5, <2>9, <2>10, <2>11
  <2>13. T \cup {x} \in SUBSET X
    BY <2>1
  <2> QED
    BY <2>7, <2>8, <2>12, <2>13 DEF G
<1>3. X \in G
  <2>1. G \in SUBSET SUBSET X
    OBVIOUS
  <2> HIDE DEF G
  <2> QED
    BY <1>1, <1>2, <2>1, SetInduction
<1> QED
  BY <1>3

(* The square of a sum is at most the sum of the squares times their       *)
(* number, and not further below it than the numbers differ.               *)
LEMMA VarianceBounds ==
  ASSUME NEW X, IsFiniteSet(X), NEW f \in [X -> Nat], NEW q, SquaresOf(X, f, q),
         NEW d \in Nat, \A x \in X : f[x] <= d
  PROVE  LET n == Cardinality(X)
             s == SumOver(f, X)
             t == SumOver(q, X)
         IN  s * s <= n * t /\ n * t <= s * s + n * (n - 1) * (d * d)
<1> DEFINE Between(n, s, t) == s * s <= n * t /\ n * t <= s * s + n * (n - 1) * (d * d)
           G == {T \in SUBSET X : Between(Cardinality(T), SumOver(f, T), SumOver(q, T))}
<1>0. q \in [X -> Nat]
  BY DEF SquaresOf
<1>1. {} \in G
  <2>1. PICK none \in SUBSET X : none = {}
    OBVIOUS
  <2>2. SumOver(f, none) = 0 /\ SumOver(q, none) = 0 /\ Cardinality(none) = 0
    BY <2>1, NoneYet
  <2>3. none \in G
    BY <2>2
  <2> QED
    BY <2>1, <2>3
<1>2. ASSUME NEW T \in G, NEW x \in X \ T PROVE T \cup {x} \in G
  <2>1. T \in SUBSET X /\ IsFiniteSet(T)
    BY FS_Subset
  <2>2. PICK s \in Nat : s = SumOver(f, T)
    BY <2>1, OneMore
  <2>3. PICK m \in Nat : m = Cardinality(T)
    BY <2>1, OneMore
  <2>4. PICK t \in Nat : t = SumOver(q, T)
    BY <1>0, <2>1, OneMore
  <2>5. Between(m, s, t)
    BY <2>2, <2>3, <2>4
  <2> HIDE DEF G, Between
  <2>6. PICK v \in Nat : v = f[x] /\ q[x] = v * v /\ v <= d
    BY DEF SquaresOf
  <2>7. SumOver(f, T \cup {x}) = s + v /\ Cardinality(T \cup {x}) = m + 1
    BY <2>1, <2>2, <2>3, <2>6, OneMore
  <2>8. SumOver(q, T \cup {x}) = t + v * v
    <3>1. SumOver(q, T \cup {x}) = SumOver(q, T) + q[x]
      <4>1. x \in X /\ x \notin T
        OBVIOUS
      <4> QED
        BY <1>0, <2>1, <4>1, SumOverNew
    <3> QED
      BY <2>4, <2>6, <3>1
  <2>9. 2 * (v * s) <= t + m * (v * v)
    <3> DEFINE g == [z \in T |-> f[z]]
               r == [z \in T |-> q[z]]
    <3>1. g \in [T -> Nat] /\ SquaresOf(T, g, r)
      BY <1>0, <2>1 DEF SquaresOf
    <3>2. SumOver(g, T) = SumOver(f, T) /\ SumOver(r, T) = SumOver(q, T)
      BY SumOverSame
    <3> HIDE DEF g, r
    <3>3. 2 * (v * SumOver(g, T)) <= SumOver(r, T) + Cardinality(T) * (v * v)
      BY <2>1, <3>1, SquaresAround
    <3> QED
      BY <2>2, <2>3, <2>4, <3>2, <3>3
  <2>10. v * v <= d * d /\ v * v \in Nat /\ d * d \in Nat
    BY <2>6
  <2>11. t <= m * (d * d)
    <3> DEFINE r == [z \in T |-> q[z]]
    <3>1. r \in [T -> Nat] /\ \A z \in T : r[z] <= d * d
      <4>1. \A z \in T : q[z] = f[z] * f[z] /\ f[z] \in Nat /\ f[z] <= d
        BY <2>1 DEF SquaresOf
      <4>2. \A a \in Nat : a <= d => a * a <= d * d
        OBVIOUS
      <4> QED
        BY <1>0, <2>1, <4>1, <4>2
    <3>2. SumOver(r, T) = SumOver(q, T)
      BY SumOverSame
    <3> HIDE DEF r
    <3>3. PICK b \in Nat : b = d * d
      BY <2>10
    <3>4. SumOver(r, T) <= Cardinality(T) * b
      BY <2>1, <3>1, <3>3, SumOverBounded
    <3> QED
      BY <2>3, <2>4, <3>2, <3>3, <3>4
  <2>12. Between(m + 1, s + v, t + v * v)
    <3>1. PICK w \in Nat : w = v * v
      BY <2>10
    <3>2. PICK c \in Nat : c = d * d /\ w <= c
      BY <2>10, <3>1
    <3>3. PICK p \in Nat : p = v * s
      OBVIOUS
    <3>4. PICK a \in Nat : a = s * s
      OBVIOUS
    <3>5. (s + v) * (s + v) = a + 2 * p + w
      BY <3>1, <3>3, <3>4
    <3>6. PICK e \in Nat : e = m * t
      OBVIOUS
    <3>7. PICK g \in Nat : g = m * w
      OBVIOUS
    <3>8. (m + 1) * (t + w) = e + t + g + w
      BY <3>6, <3>7
    <3>9. PICK h \in Nat : h = m * c
      OBVIOUS
    <3>10. PICK j \in Int : j = m * (m - 1) * c
      OBVIOUS
    <3>11. (m + 1) * ((m + 1) - 1) * c = j + 2 * h
      BY <3>9, <3>10
    <3>12. a <= e /\ e <= a + j
      BY <2>5, <3>2, <3>4, <3>6, <3>10 DEF Between
    <3>13. g <= h
      BY <3>2, <3>7, <3>9, ProductLess
    <3>14. 2 * p <= t + g /\ t <= h
      BY <2>9, <2>11, <3>1, <3>2, <3>3, <3>7, <3>9
    <3>15. a + 2 * p + w <= e + t + g + w /\ e + t + g + w <= (a + 2 * p + w) + (j + 2 * h)
      BY <3>12, <3>13, <3>14
    <3> QED
      BY <3>1, <3>2, <3>5, <3>8, <3>11, <3>15 DEF Between
  <2>13. T \cup {x} \in SUBSET X
    BY <2>1
  <2> QED
    BY <2>7, <2>8, <2>12, <2>13 DEF G
<1>3. X \in G
  <2>1. G \in SUBSET SUBSET X
    OBVIOUS
  <2> HIDE DEF G
  <2> QED
    BY <1>1, <1>2, <2>1, SetInduction
<1> QED
  BY <1>3

LEMMA PairHasTwo ==
  ASSUME NEW p, NEW q, p # q
  PROVE  Cardinality({p, q}) = 2
<1>1. IsFiniteSet({p}) /\ Cardinality({p}) = 1
  BY FS_Singleton
<1>2. Cardinality({p} \cup {q}) = Cardinality({p}) + 1
  <2>1. q \notin {p}
    OBVIOUS
  <2> QED
    BY <1>1, <2>1, FS_AddElement
<1>3. {p, q} = {p} \cup {q}
  OBVIOUS
<1> QED
  BY <1>1, <1>2, <1>3

(* One less the variance of fractions of d is a percentage.                *)
LEMMA BalanceRange ==
  ASSUME NEW X, IsFiniteSet(X), NEW p \in X, NEW q \in X, p # q,
         NEW d \in Nat \ {0}, NEW x \in [X -> Nat], \A r \in X : x[r] <= d
  PROVE  Balance(x, d) \in 0 .. 100
<1> DEFINE sq == [r \in X |-> x[r] * x[r]]
<1>1. sq \in [X -> Nat] /\ SquaresOf(X, x, sq)
  BY DEF SquaresOf
<1>2. PICK n \in Nat : n = Cardinality(X)
  BY FS_CardinalityType
<1>3. n >= 2
  <2>1. {p, q} \in SUBSET X
    OBVIOUS
  <2>2. Cardinality({p, q}) = 2
    BY PairHasTwo
  <2> QED
    BY <1>2, <2>1, <2>2, FS_Subset
<1>4. X \in SUBSET X
  OBVIOUS
<1>5. PICK s \in Nat : s = SumOver(x, X)
  BY <1>4, UnitsFinite
<1>6. PICK t \in Nat : t = SumOver(sq, X)
  BY <1>1, <1>4, UnitsFinite
<1>7. s * s <= n * t /\ n * t <= s * s + n * (n - 1) * (d * d)
  <2> HIDE DEF sq
  <2> QED
    BY <1>1, <1>2, <1>5, <1>6, VarianceBounds
<1>8. Balance(x, d) = (100 * (n * (n - 1) * d * d - (n * t - s * s))) \div (n * (n - 1) * d * d)
  <2>1. DOMAIN x = X
    OBVIOUS
  <2> QED
    BY <1>2, <1>5, <1>6, <2>1, Zenon DEF Balance
<1>9. PICK all \in Nat \ {0} : all = n * (n - 1) * d * d /\ all = n * (n - 1) * (d * d)
  <2>1. PICK a \in Nat \ {0} : a = n * (n - 1)
    <3>1. n - 1 \in Nat \ {0} /\ n \in Nat \ {0}
      BY <1>3
    <3>2. \A i, j \in Nat \ {0} : i * j \in Nat \ {0}
      OBVIOUS
    <3> QED
      BY <3>1, <3>2
  <2>2. PICK c \in Nat \ {0} : c = d * d
    OBVIOUS
  <2>3. a * c \in Nat \ {0} /\ a * d * d = a * c
    BY <2>2
  <2> QED
    BY <2>1, <2>2, <2>3
<1>10. PICK v \in Int : v = n * t - s * s
  OBVIOUS
<1>11. 0 <= v /\ v <= all
  <2>1. PICK i \in Int : i = n * t
    OBVIOUS
  <2>2. PICK j \in Int : j = s * s
    OBVIOUS
  <2> QED
    BY <1>7, <1>9, <1>10, <2>1, <2>2
<1>12. PICK w \in 0 .. all : w = all - v
  BY <1>11
<1>13. Balance(x, d) = (w * 100) \div all
  <2>1. Balance(x, d) = (100 * w) \div all
    BY <1>8, <1>9, <1>10, <1>12
  <2>2. 100 * w = w * 100
    OBVIOUS
  <2> QED
    BY <2>1, <2>2
<1> QED
  BY <1>13, Percentage

(* A product of positive numbers is positive.                              *)
LEMMA ProductPositive ==
  ASSUME NEW S, NEW s \in Seq(S), NEW f \in [S -> Nat \ {0}]
  PROVE  Product(f, s) \in Nat \ {0}
<1> DEFINE n == Len(s)
           Step(x, k) == x * f[s[k]]
           a == 1
           acc == ProductLoop(f, s)
           Inv == [k \in 0 .. n |-> Nat \ {0}]
           step == [k \in 1 .. n |-> [x \in Inv[k - 1] |-> Step(x, k)]]
<1>1. n \in Nat
  BY LenProperties
<1>2. a \in Inv[0]
  BY <1>1
<1>3. ASSUME NEW k \in 1 .. n, NEW x \in Inv[k - 1] PROVE Step(x, k) \in Inv[k]
  <2>1. k - 1 \in 0 .. n /\ k \in 0 .. n
    BY <1>1
  <2>2. PICK y \in Nat \ {0} : y = f[s[k]]
    BY ElementOfSeq
  <2>3. x \in Nat \ {0} /\ x * y \in Nat \ {0}
    BY <2>1
  <2>4. Inv[k] = Nat \ {0}
    BY <2>1
  <2> QED
    BY <2>2, <2>3, <2>4
<1>4. PICK g : RunsThrough(n, Inv, a, step, g)
  <2>1. \A k \in 1 .. n : \A x \in Inv[k - 1] : step[k][x] \in Inv[k]
    <3> HIDE DEF Inv, Step
    <3> QED
      BY <1>3
  <2> HIDE DEF n, Inv, a, step
  <2> QED
    BY <1>1, <1>2, <2>1, LoopRuns
<1>5. g = [k \in 0 .. n |-> IF k = 0 THEN a ELSE Step(g[k - 1], k)]
  <2> HIDE DEF Inv, a, Step
  <2>1. ASSUME NEW k \in 1 .. n PROVE g[k] = Step(g[k - 1], k)
    <3>1. k - 1 \in 0 .. n
      BY <1>1
    <3>2. g[k - 1] \in Inv[k - 1] /\ g[k] = step[k][g[k - 1]]
      BY <1>4, <3>1 DEF RunsThrough
    <3> QED
      BY <3>2
  <2>2. g = [k \in 0 .. n |-> g[k]] /\ g[0] = a
    BY <1>4 DEF RunsThrough
  <2> HIDE DEF n
  <2>3. \A k \in 0 .. n : k = 0 \/ k \in 1 .. n
    BY <1>1
  <2> QED
    BY <2>1, <2>2, <2>3
<1>6. acc = [k \in 0 .. n |-> IF k = 0 THEN a ELSE Step(acc[k - 1], k)]
  BY <1>5 DEF ProductLoop
<1> HIDE DEF acc, a, Step
<1>7. acc[0] = a /\ \A k \in 1 .. n : acc[k] = Step(acc[k - 1], k)
  <2>1. \A k \in 0 .. n : acc[k] = IF k = 0 THEN a ELSE Step(acc[k - 1], k)
    BY <1>6
  <2> HIDE DEF n
  <2> QED
    BY <1>1, <2>1
<1>8. acc[n] \in Inv[n]
  <2> HIDE DEF Inv, n
  <2>1. \A k \in 1 .. n : acc[k - 1] \in Inv[k - 1] => acc[k] \in Inv[k]
    BY <1>3, <1>7
  <2>2. \A k \in 0 .. n : acc[k] \in Inv[k]
    BY <1>1, <1>2, <1>7, <2>1, LoopKeeps
  <2> QED
    BY <1>1, <2>2
<1>9. n \in 0 .. n
  BY <1>1
<1> QED
  BY <1>8, <1>9 DEF acc, Product

LEMMA SetToSeqType ==
  ASSUME NEW S, IsFiniteSet(S)
  PROVE  SetToSeq(S) \in Seq(S)
<1>1. Cardinality(S) \in Nat /\ ExistsBijection(1 .. Cardinality(S), S)
  BY FS_CardinalityType
<1>2. PICK f \in [1 .. Cardinality(S) -> S] : \A a, b \in 1 .. Cardinality(S) : f[a] = f[b] => a = b
  BY <1>1 DEF ExistsBijection, Bijection, Injection, IsInjective
<1>3. SetToSeq(S) \in [1 .. Cardinality(S) -> S]
  BY <1>2 DEF SetToSeq, IsInjective
<1> QED
  BY <1>1, <1>3

(* A request for at least two resources, and what a NUMA node has.         *)
IsRequest(request) ==
  /\ IsFiniteSet(DOMAIN request) /\ request \in [DOMAIN request -> Nat]
  /\ \E q, r \in DOMAIN request : q # r
IsRoom(res) == res \in [DOMAIN res -> Nat]

LEMMA QuantityType ==
  ASSUME NEW request, request \in [DOMAIN request -> Nat], NEW r
  PROVE  Quantity(request, r) \in Nat
BY DEF Quantity

LEMMA PartOfWhole ==
  ASSUME NEW a \in Nat, NEW b \in Nat \ {0}, a <= 100 * b
  PROVE  a \div b \in 0 .. 100
<1>1. PICK q \in Nat : q = a \div b
  OBVIOUS
<1>2. q * b <= a
  BY <1>1
<1>3. PICK c \in Int : c = 100
  OBVIOUS
<1>4. q * b <= c * b
  BY <1>2, <1>3
<1>5. q <= c
  BY <1>3, <1>4, ProductLessBy
<1> QED
  BY <1>1, <1>3, <1>5

(* Rounding up keeps the order, and only nothing becomes nothing.          *)
LEMMA ValueUp ==
  ASSUME NEW a \in Nat, NEW b \in Nat, a <= b
  PROVE  Value(a) \in Nat /\ Value(b) \in Nat /\ Value(a) <= Value(b) /\ (b # 0 => Value(b) # 0)
<1>1. PICK p \in Nat \ {0} : p = Parts
  BY TopologyAssumption
<1>2. PICK x \in Nat : x = a + p - 1
  <2>1. a + p - 1 \in Nat
    OBVIOUS
  <2> QED
    BY <2>1
<1>3. PICK y \in Nat : y = b + p - 1
  <2>1. b + p - 1 \in Nat
    OBVIOUS
  <2> QED
    BY <2>1
<1>4. PICK i \in Nat : i = x \div p
  OBVIOUS
<1>5. PICK j \in Nat : j = y \div p
  OBVIOUS
<1>6. i * p <= x /\ y < j * p + p
  BY <1>4, <1>5
<1>7. i <= j
  <2> SUFFICES ASSUME j + 1 <= i PROVE FALSE
    OBVIOUS
  <2>1. (j + 1) * p <= i * p
    OBVIOUS
  <2>2. (j + 1) * p = j * p + p
    OBVIOUS
  <2>3. i * p \in Nat /\ j * p \in Nat
    OBVIOUS
  <2> QED
    BY <1>2, <1>3, <1>6, <2>1, <2>2, <2>3
<1>8. b # 0 => j # 0
  BY <1>3, <1>6
<1>9. Value(a) = i /\ Value(b) = j
  BY <1>1, <1>2, <1>3, <1>4, <1>5 DEF Value
<1> QED
  BY <1>7, <1>8, <1>9

LEMMA ValueType ==
  ASSUME NEW a \in Nat
  PROVE  Value(a) \in Nat
<1>1. a <= a
  OBVIOUS
<1> QED
  BY <1>1, ValueUp

LEMMA PartScored ==
  ASSUME NEW requested \in Nat, NEW capacity \in Nat
  PROVE  /\ leastAllocatedScore(requested, capacity) \in 0 .. 100
         /\ mostAllocatedScore(requested, capacity) \in 0 .. 100
<1>1. CASE capacity = 0 \/ requested > capacity
  BY <1>1 DEF leastAllocatedScore, mostAllocatedScore
<1>2. CASE ~(capacity = 0 \/ requested > capacity)
  <2>1. requested <= capacity /\ capacity # 0
    BY <1>2
  <2>2. PICK c \in Nat \ {0} : c = Value(capacity) /\ Value(requested) \in 0 .. c
    BY <2>1, ValueUp
  <2>6. PICK y \in 0 .. c : y = Value(requested)
    BY <2>2
  <2>7. PICK x \in 0 .. c : x = c - y
    OBVIOUS
  <2>3. (x * 100) \div c \in 0 .. 100 /\ (y * 100) \div c \in 0 .. 100
    BY Percentage
  <2>4. leastAllocatedScore(requested, capacity) = (x * 100) \div c
    BY <1>2, <2>2, <2>6, <2>7, Zenon DEF leastAllocatedScore
  <2>5. mostAllocatedScore(requested, capacity) = (y * 100) \div c
    BY <1>2, <2>2, <2>6, Zenon DEF mostAllocatedScore
  <2> QED
    BY <2>3, <2>4, <2>5
<1> QED
  BY <1>1, <1>2

LEMMA WeightedRange ==
  ASSUME NEW X, IsFiniteSet(X), NEW p \in X, NEW scores \in [X -> 0 .. 100],
         NEW weights, weights \in [DOMAIN weights -> Int]
  PROVE  Weighted(scores, weights) \in 0 .. 100
<1> DEFINE w == [r \in X |-> Weight(weights, r)]
           f == [r \in X |-> Weight(weights, r) * scores[r]]
<1>1. \A r \in X : Weight(weights, r) \in Nat \ {0}
  BY DEF Weight
<1>2. w \in [X -> Nat] /\ w[p] >= 1
  BY <1>1
<1>3. PICK c \in Nat : c = 100
  OBVIOUS
<1>4. \A r \in X : f[r] \in Nat /\ f[r] <= c * w[r]
  <2> TAKE r \in X
  <2>1. PICK v \in Nat : v = Weight(weights, r)
    BY <1>1
  <2>2. PICK s \in 0 .. 100 : s = scores[r]
    OBVIOUS
  <2>3. v * s \in Nat /\ v * s <= c * v
    <3>1. s * v <= c * v
      BY <1>3, <2>2, ProductLess
    <3>2. v * s = s * v /\ v * s \in Nat
      OBVIOUS
    <3> QED
      BY <3>1, <3>2
  <2>4. f[r] = v * s /\ w[r] = v
    BY <2>1, <2>2
  <2> QED
    BY <2>3, <2>4
<1>5. f \in [X -> Nat] /\ ScaledBy(X, f, w, c)
  BY <1>4 DEF ScaledBy
<1>6. X \in SUBSET X
  OBVIOUS
<1>7. DOMAIN scores = X
  OBVIOUS
<1>8. Weighted(scores, weights) = SumOver(f, X) \div SumOver(w, X)
  BY <1>7, Zenon DEF Weighted
<1> HIDE DEF f, w
<1>9. PICK a \in Nat : a = SumOver(f, X)
  BY <1>5, <1>6, UnitsFinite
<1>10. PICK b \in Nat : b = SumOver(w, X)
  BY <1>2, <1>6, UnitsFinite
<1>11. b >= 1
  BY <1>2, <1>6, <1>10, SumOverMember
<1>12. a <= c * b
  BY <1>2, <1>5, <1>9, <1>10, SumOverScaled
<1>13. a \div b \in 0 .. 100
  BY <1>3, <1>11, <1>12, PartOfWhole
<1> QED
  BY <1>8, <1>9, <1>10, <1>13

LEMMA BalancedRange ==
  ASSUME NEW request, IsRequest(request), NEW res, IsRoom(res), NEW weights
  PROVE  balancedAllocationScoreStrategy(request, res, weights) \in 0 .. 100
<1> DEFINE rs == DOMAIN request
           Whole(r) == Value(Quantity(res, r))
           cap == [r \in rs |-> IF Whole(r) = 0 THEN 1 ELSE Whole(r)]
           d == Product(cap, SetToSeq(rs))
           fraction == [r \in rs |-> (IF Whole(r) = 0 THEN 1 ELSE Value(request[r])) * (d \div cap[r])]
<1>1. IsFiniteSet(rs) /\ request \in [rs -> Nat]
  BY DEF IsRequest
<1>2. \A r \in rs : Whole(r) \in Nat
  BY QuantityType, ValueType DEF IsRoom
<1>3. cap \in [rs -> Nat \ {0}]
  BY <1>2
<1>4. SetToSeq(rs) \in Seq(rs)
  BY <1>1, SetToSeqType
<1>5. PICK p \in rs, q \in rs : p # q
  BY DEF IsRequest
<1>6. balancedAllocationScoreStrategy(request, res, weights)
        = IF \E r \in rs : fraction[r] > d THEN 0 ELSE Balance(fraction, d)
  BY Zenon DEF balancedAllocationScoreStrategy
<1>7. d \in Nat \ {0}
  <2> HIDE DEF rs, cap
  <2> QED
    BY <1>3, <1>4, ProductPositive
<1>8. fraction \in [rs -> Nat]
  <2>1. ASSUME NEW r \in rs PROVE fraction[r] \in Nat
    <3>1. PICK c \in Nat \ {0} : c = cap[r]
      BY <1>3
    <3>2. PICK v \in Nat : v = IF Whole(r) = 0 THEN 1 ELSE Value(request[r])
      BY <1>1, ValueType
    <3>3. PICK u \in Nat : u = d \div c
      <4> HIDE DEF d
      <4> QED
        BY <1>7
    <3>4. fraction[r] = v * u
      BY <3>1, <3>2, <3>3
    <3> QED
      BY <3>4
  <2> HIDE DEF d, cap
  <2> QED
    BY <2>1
<1> HIDE DEF rs, cap, d, fraction
<1>9. CASE \E r \in rs : fraction[r] > d
  BY <1>6, <1>9
<1>10. CASE ~\E r \in rs : fraction[r] > d
  <2>1. \A r \in rs : fraction[r] <= d
    BY <1>7, <1>8, <1>10
  <2>2. Balance(fraction, d) \in 0 .. 100
    BY <1>1, <1>5, <1>7, <1>8, <2>1, BalanceRange
  <2> QED
    BY <1>6, <1>10, <2>2
<1> QED
  BY <1>9, <1>10

(* Every strategy gives a NUMA node a node score.                          *)
LEMMA StrategyRange ==
  ASSUME NEW request, IsRequest(request), NEW res, IsRoom(res), NEW name,
         NEW weights, weights \in [DOMAIN weights -> Int]
  PROVE  Strategy(name, request, res, weights) \in 0 .. 100
<1> DEFINE least == [r \in DOMAIN request |-> leastAllocatedScore(request[r], Quantity(res, r))]
           most == [r \in DOMAIN request |-> mostAllocatedScore(request[r], Quantity(res, r))]
<1>1. PICK X : X = DOMAIN request
  OBVIOUS
<1>2. IsFiniteSet(X) /\ request \in [X -> Nat]
  BY <1>1 DEF IsRequest
<1>3. PICK p \in X : TRUE
  BY <1>1 DEF IsRequest
<1>4. \A r \in X : request[r] \in Nat /\ Quantity(res, r) \in Nat
  BY <1>2, QuantityType DEF IsRoom
<1>5. least \in [X -> 0 .. 100] /\ most \in [X -> 0 .. 100]
  BY <1>1, <1>4, PartScored
<1>6. /\ leastAllocatedScoreStrategy(request, res, weights) = Weighted(least, weights)
      /\ mostAllocatedScoreStrategy(request, res, weights) = Weighted(most, weights)
  BY Zenon DEF leastAllocatedScoreStrategy, mostAllocatedScoreStrategy
<1> HIDE DEF least, most
<1>7. Weighted(least, weights) \in 0 .. 100 /\ Weighted(most, weights) \in 0 .. 100
  BY <1>2, <1>5, WeightedRange
<1>8. balancedAllocationScoreStrategy(request, res, weights) \in 0 .. 100
  BY BalancedRange
<1>9. PICK Scores : Scores = 0 .. 100
  OBVIOUS
<1>10. /\ leastAllocatedScoreStrategy(request, res, weights) \in Scores
       /\ mostAllocatedScoreStrategy(request, res, weights) \in Scores
       /\ balancedAllocationScoreStrategy(request, res, weights) \in Scores
  BY <1>6, <1>7, <1>8, <1>9
<1>11. Strategy(name, request, res, weights) \in Scores
  BY <1>10, Zenon DEF Strategy
<1> QED
  BY <1>9, <1>11

(* The NUMA nodes of a node: different ids, and what each of them has.     *)
IsNodeList(nodes) ==
  /\ nodes \in Seq([id : Nat, res : {nodes[k].res : k \in DOMAIN nodes}])
  /\ \A k \in DOMAIN nodes : IsRoom(nodes[k].res)
  /\ \A j, k \in DOMAIN nodes : nodes[j].id = nodes[k].id => j = k

LEMMA NodesScored ==
  ASSUME NEW request, IsRequest(request), NEW nodes, IsNodeList(nodes), NEW name,
         NEW weights, weights \in [DOMAIN weights -> Int]
  PROVE  scoreForEachNUMANode(request, nodes, name, weights) \in 0 .. 100
<1> DEFINE n == Len(nodes)
           Step(x, k) == Lower(x, Strategy(name, request, nodes[k].res, weights))
           a == 0
           acc == LeastLoop(request, nodes, name, weights)
           Inv == [k \in 0 .. n |-> 0 .. 100]
           step == [k \in 1 .. n |-> [x \in Inv[k - 1] |-> Step(x, k)]]
<1>1. n \in Nat
  BY LenProperties DEF IsNodeList
<1>2. a \in Inv[0]
  BY <1>1
<1>3. ASSUME NEW k \in 1 .. n, NEW x \in Inv[k - 1] PROVE Step(x, k) \in Inv[k]
  <2>1. k - 1 \in 0 .. n /\ k \in 0 .. n
    BY <1>1
  <2>2. x \in 0 .. 100 /\ Inv[k] = 0 .. 100
    BY <2>1
  <2>3. IsRoom(nodes[k].res)
    <3>1. DOMAIN nodes = 1 .. n
      BY LenProperties DEF IsNodeList
    <3> QED
      BY <3>1 DEF IsNodeList
  <2>4. PICK s \in 0 .. 100 : s = Strategy(name, request, nodes[k].res, weights)
    BY <2>3, StrategyRange
  <2>5. Step(x, k) = x \/ Step(x, k) = s
    BY <2>4 DEF Lower
  <2> QED
    BY <2>2, <2>5
<1>4. PICK f : RunsThrough(n, Inv, a, step, f)
  <2>1. \A k \in 1 .. n : \A x \in Inv[k - 1] : step[k][x] \in Inv[k]
    <3> HIDE DEF Inv, Step
    <3> QED
      BY <1>3
  <2> HIDE DEF n, Inv, a, step
  <2> QED
    BY <1>1, <1>2, <2>1, LoopRuns
<1>5. f = [k \in 0 .. n |-> IF k = 0 THEN a ELSE Step(f[k - 1], k)]
  <2> HIDE DEF Inv, a, Step
  <2>1. ASSUME NEW k \in 1 .. n PROVE f[k] = Step(f[k - 1], k)
    <3>1. k - 1 \in 0 .. n
      BY <1>1
    <3>2. f[k - 1] \in Inv[k - 1] /\ f[k] = step[k][f[k - 1]]
      BY <1>4, <3>1 DEF RunsThrough
    <3> QED
      BY <3>2
  <2>2. f = [k \in 0 .. n |-> f[k]] /\ f[0] = a
    BY <1>4 DEF RunsThrough
  <2> HIDE DEF n
  <2>3. \A k \in 0 .. n : k = 0 \/ k \in 1 .. n
    BY <1>1
  <2> QED
    BY <2>1, <2>2, <2>3
<1>6. acc = [k \in 0 .. n |-> IF k = 0 THEN a ELSE Step(acc[k - 1], k)]
  BY <1>5 DEF LeastLoop
<1> HIDE DEF acc, a, Step
<1>7. acc[0] = a /\ \A k \in 1 .. n : acc[k] = Step(acc[k - 1], k)
  <2>1. \A k \in 0 .. n : acc[k] = IF k = 0 THEN a ELSE Step(acc[k - 1], k)
    BY <1>6
  <2> HIDE DEF n
  <2> QED
    BY <1>1, <2>1
<1>8. acc[n] \in Inv[n]
  <2> HIDE DEF Inv, n
  <2>1. \A k \in 1 .. n : acc[k - 1] \in Inv[k - 1] => acc[k] \in Inv[k]
    BY <1>3, <1>7
  <2>2. \A k \in 0 .. n : acc[k] \in Inv[k]
    BY <1>1, <1>2, <1>7, <2>1, LoopKeeps
  <2> QED
    BY <1>1, <2>2
<1>9. n \in 0 .. n
  BY <1>1
<1> QED
  BY <1>8, <1>9 DEF acc, scoreForEachNUMANode

(* The zones of a node, as TopologyAssumption has them.                    *)
AreZones(zones) ==
  /\ zones \in Seq(ToSet(zones)) /\ \A k \in DOMAIN zones : IsRoom(zones[k].res)
  /\ \A j, k \in {k \in DOMAIN zones : IsNUMANode(zones[k])} : zones[j].id = zones[k].id => j = k

(* The list after k zones: NUMA nodes among these, each of them once.      *)
ListedAfter(zones, k, x) ==
  /\ \A i \in DOMAIN x : \E j \in 1 .. k :
       IsNUMANode(zones[j]) /\ x[i].id = zones[j].id /\ x[i].res = zones[j].res
  /\ \A i, j \in DOMAIN x : x[i].id = x[j].id => i = j

LEMMA ListedStep ==
  ASSUME NEW zones, AreZones(zones), MaxNUMA \in Nat, NEW k \in 1 .. Len(zones),
         NEW R, R = {zones[j].res : j \in DOMAIN zones},
         NEW x \in Seq([id : Nat, res : R]), ListedAfter(zones, k - 1, x),
         NEW y, y = IF IsNUMANode(zones[k]) THEN Append(x, [id |-> zones[k].id, res |-> zones[k].res])
                    ELSE x
  PROVE  y \in Seq([id : Nat, res : R]) /\ ListedAfter(zones, k, y)
<1>1. Len(zones) \in Nat /\ DOMAIN zones = 1 .. Len(zones)
  BY LenProperties DEF AreZones
<1>2. k \in Nat \ {0} /\ \A j : j \in 1 .. k <=> j \in 1 .. k - 1 \/ j = k
  BY <1>1
<1>3. CASE ~IsNUMANode(zones[k])
  BY <1>2, <1>3 DEF ListedAfter
<1>4. CASE IsNUMANode(zones[k])
  <2>1. PICK e : e = [id |-> zones[k].id, res |-> zones[k].res]
    OBVIOUS
  <2>2. e \in [id : Nat, res : R] /\ e.id = zones[k].id /\ e.res = zones[k].res
    BY <1>1, <1>4, <2>1 DEF IsNUMANode
  <2>3. y = Append(x, e)
    BY <1>4, <2>1
  <2>4. PICK m \in Nat : m = Len(x) /\ DOMAIN x = 1 .. m
    BY LenProperties
  <2>5. /\ y \in Seq([id : Nat, res : R]) /\ DOMAIN y = 1 .. m + 1
        /\ y[m + 1] = e /\ \A i \in 1 .. m : y[i] = x[i]
    <3>1. PICK E : E = [id : Nat, res : R]
      OBVIOUS
    <3>2. x \in Seq(E) /\ e \in E
      BY <2>2, <3>1
    <3>3. /\ y \in Seq(E) /\ Len(y) = Len(x) + 1
          /\ y[Len(x) + 1] = e /\ \A i \in 1 .. Len(x) : y[i] = x[i]
      BY <2>3, <3>2, AppendProperties
    <3>4. DOMAIN y = 1 .. Len(y)
      BY <3>3, LenProperties
    <3> QED
      BY <2>4, <3>1, <3>3, <3>4
  <2>6. \A i \in 1 .. m + 1 : i = m + 1 \/ i \in DOMAIN x
    BY <2>4
  <2>7. ASSUME NEW i \in DOMAIN y
        PROVE  \E j \in 1 .. k : IsNUMANode(zones[j]) /\ y[i].id = zones[j].id /\ y[i].res = zones[j].res
    <3>1. CASE i = m + 1
      BY <1>2, <1>4, <2>2, <2>5, <3>1
    <3>2. CASE i # m + 1
      <4>1. i \in DOMAIN x /\ y[i] = x[i]
        BY <2>4, <2>5, <2>6, <3>2
      <4>2. PICK j \in 1 .. k - 1 : IsNUMANode(zones[j]) /\ x[i].id = zones[j].id /\ x[i].res = zones[j].res
        BY <4>1 DEF ListedAfter
      <4>3. j \in 1 .. k
        BY <1>2
      <4> QED
        BY <4>1, <4>2, <4>3
    <3> QED
      BY <3>1, <3>2
  <2>8. ASSUME NEW i \in DOMAIN x PROVE x[i].id # e.id
    <3>1. PICK j \in 1 .. k - 1 : IsNUMANode(zones[j]) /\ x[i].id = zones[j].id
      BY DEF ListedAfter
    <3>2. j # k /\ j \in DOMAIN zones /\ k \in DOMAIN zones
      BY <1>1, <3>1
    <3> QED
      BY <1>4, <2>2, <3>1, <3>2 DEF AreZones
  <2>9. ASSUME NEW i \in DOMAIN y, NEW j \in DOMAIN y, y[i].id = y[j].id PROVE i = j
    <3>1. CASE i = m + 1
      BY <2>4, <2>5, <2>6, <2>8, <2>9, <3>1
    <3>2. CASE j = m + 1
      BY <2>4, <2>5, <2>6, <2>8, <2>9, <3>2
    <3>3. CASE i # m + 1 /\ j # m + 1
      BY <2>4, <2>5, <2>6, <2>9, <3>3 DEF ListedAfter
    <3> QED
      BY <3>1, <3>2, <3>3
  <2> QED
    BY <2>5, <2>7, <2>9 DEF ListedAfter
<1> QED
  BY <1>3, <1>4

LEMMA NodesListed ==
  ASSUME NEW zones, AreZones(zones), MaxNUMA \in Nat
  PROVE  IsNodeList(createNUMANodeList(zones))
<1>0. PICK R : R = {zones[j].res : j \in DOMAIN zones}
  OBVIOUS
<1> DEFINE n == Len(zones)
           Step(x, k) == IF IsNUMANode(zones[k]) THEN Append(x, [id |-> zones[k].id, res |-> zones[k].res])
                         ELSE x
           a == << >>
           acc == ZoneLoop(zones)
           Inv == [k \in 0 .. n |-> {x \in Seq([id : Nat, res : R]) : ListedAfter(zones, k, x)}]
           step == [k \in 1 .. n |-> [x \in Inv[k - 1] |-> Step(x, k)]]
<1>1. n \in Nat
  BY LenProperties DEF AreZones
<1>2. a \in Inv[0]
  <2>1. << >> \in Seq([id : Nat, res : R]) /\ DOMAIN << >> = {}
    BY EmptySeq
  <2>2. ListedAfter(zones, 0, << >>)
    BY <2>1 DEF ListedAfter
  <2>3. 0 \in 0 .. n
    BY <1>1
  <2> QED
    BY <2>1, <2>2, <2>3
<1>3. ASSUME NEW k \in 1 .. n, NEW x \in Inv[k - 1] PROVE Step(x, k) \in Inv[k]
  <2>1. k - 1 \in 0 .. n /\ k \in 0 .. n
    BY <1>1
  <2>2. x \in Seq([id : Nat, res : R]) /\ ListedAfter(zones, k - 1, x)
    BY <2>1
  <2>3. PICK y : y = Step(x, k)
    OBVIOUS
  <2>4. y \in Seq([id : Nat, res : R]) /\ ListedAfter(zones, k, y)
    <3> HIDE DEF Inv
    <3> QED
      BY <1>0, <2>2, <2>3, ListedStep
  <2> HIDE DEF Step
  <2> QED
    BY <2>1, <2>3, <2>4
<1>4. PICK f : RunsThrough(n, Inv, a, step, f)
  <2>1. \A k \in 1 .. n : \A x \in Inv[k - 1] : step[k][x] \in Inv[k]
    <3> HIDE DEF Inv, Step
    <3> QED
      BY <1>3
  <2> HIDE DEF n, Inv, a, step
  <2> QED
    BY <1>1, <1>2, <2>1, LoopRuns
<1>5. f = [k \in 0 .. n |-> IF k = 0 THEN a ELSE Step(f[k - 1], k)]
  <2> HIDE DEF Inv, a, Step
  <2>1. ASSUME NEW k \in 1 .. n PROVE f[k] = Step(f[k - 1], k)
    <3>1. k - 1 \in 0 .. n
      BY <1>1
    <3>2. f[k - 1] \in Inv[k - 1] /\ f[k] = step[k][f[k - 1]]
      BY <1>4, <3>1 DEF RunsThrough
    <3> QED
      BY <3>2
  <2>2. f = [k \in 0 .. n |-> f[k]] /\ f[0] = a
    BY <1>4 DEF RunsThrough
  <2> HIDE DEF n
  <2>3. \A k \in 0 .. n : k = 0 \/ k \in 1 .. n
    BY <1>1
  <2> QED
    BY <2>1, <2>2, <2>3
<1>6. acc = [k \in 0 .. n |-> IF k = 0 THEN a ELSE Step(acc[k - 1], k)]
  BY <1>5 DEF ZoneLoop
<1> HIDE DEF acc, a, Step
<1>7. acc[0] = a /\ \A k \in 1 .. n : acc[k] = Step(acc[k - 1], k)
  <2>1. \A k \in 0 .. n : acc[k] = IF k = 0 THEN a ELSE Step(acc[k - 1], k)
    BY <1>6
  <2> HIDE DEF n
  <2> QED
    BY <1>1, <2>1
<1>8. acc[n] \in Inv[n]
  <2> HIDE DEF Inv, n
  <2>1. \A k \in 1 .. n : acc[k - 1] \in Inv[k - 1] => acc[k] \in Inv[k]
    BY <1>3, <1>7
  <2>2. \A k \in 0 .. n : acc[k] \in Inv[k]
    BY <1>1, <1>2, <1>7, <2>1, LoopKeeps
  <2> QED
    BY <1>1, <2>2
<1>9. n \in 0 .. n
  BY <1>1
<1>10. PICK x \in Seq([id : Nat, res : R]) : x = createNUMANodeList(zones) /\ ListedAfter(zones, n, x)
  <2> HIDE DEF n
  <2>1. createNUMANodeList(zones) = acc[Len(zones)]
    BY DEF acc, createNUMANodeList
  <2>2. acc[n] \in {x \in Seq([id : Nat, res : R]) : ListedAfter(zones, n, x)}
    BY <1>8, <1>9
  <2> QED
    BY <2>1, <2>2 DEF n
<1> HIDE DEF Inv, step, n
<1>11. DOMAIN x = 1 .. Len(x) /\ \A i \in DOMAIN x : x[i] \in [id : Nat, res : R]
  BY LenProperties, ElementOfSeq
<1>12. x \in Seq([id : Nat, res : {x[k].res : k \in DOMAIN x}])
  <2>1. \A i \in DOMAIN x : x[i] \in [id : Nat, res : {x[k].res : k \in DOMAIN x}]
    BY <1>11
  <2>2. PICK T : T = [id : Nat, res : {x[k].res : k \in DOMAIN x}]
    OBVIOUS
  <2>3. Len(x) \in Nat /\ x \in [1 .. Len(x) -> T]
    BY <1>11, <2>1, <2>2, LenProperties
  <2>4. x \in Seq(T)
    BY <2>3
  <2> QED
    BY <2>2, <2>4
<1>13. \A i \in DOMAIN x : IsRoom(x[i].res)
  <2>1. DOMAIN zones = 1 .. n
    BY LenProperties DEF AreZones, n
  <2> QED
    BY <1>10, <2>1 DEF AreZones, ListedAfter
<1> QED
  BY <1>10, <1>12, <1>13 DEF IsNodeList, ListedAfter

(* Whether entry k has room for a request of a guaranteed pod.             *)
RoomAt(nodes, request, k) ==
  \A r \in DOMAIN request :
    \/ request[r] = 0 \/ (~HasAffinity(nodes, r) /\ r \notin Native)
    \/ r \in DOMAIN nodes[k].res /\ nodes[k].res[r] >= request[r]

(* A request for something native is aligned with an entry that has room.  *)
LEMMA AlignedAt ==
  ASSUME MaxNUMA \in Nat, NEW nodes, \A j, k \in DOMAIN nodes : nodes[j].id = nodes[k].id => j = k,
         NEW request, NEW q \in DOMAIN request \cap Native, request[q] # 0,
         NEW allocatable, NEW id,
         id = resourcesAvailableInAnyNUMANodes(nodes, request, "Guaranteed", allocatable),
         id # NoNUMA
  PROVE  \E k \in DOMAIN nodes : nodes[k].id = id /\ RoomAt(nodes, request, k)
<1>1. PICK mask : mask = Mask(nodes, request, "Guaranteed")
  OBVIOUS
<1>2. mask \in SUBSET Nat
  BY <1>1 DEF Mask
<1>3. mask # {} /\ id = Min(mask)
  BY <1>1 DEF resourcesAvailableInAnyNUMANodes
<1>4. id \in mask
  <2>1. \E i \in mask : \A j \in mask : i <= j
    BY <1>2, <1>3, LeastElement
  <2> QED
    BY <1>3, <2>1 DEF Min
<1>5. ASSUME NEW r \in DOMAIN request,
             request[r] # 0, HasAffinity(nodes, r) \/ r \in Native
      PROVE  \E k \in DOMAIN nodes :
               nodes[k].id = id /\ r \in DOMAIN nodes[k].res /\ nodes[k].res[r] >= request[r]
  <2>1. id \in Suitable(nodes, r, request[r], "Guaranteed")
    BY <1>1, <1>4, <1>5 DEF Mask
  <2> QED
    BY <2>1 DEF Suitable, isNUMANodeSuitable
<1>6. PICK k \in DOMAIN nodes : nodes[k].id = id
  BY <1>5
<1>7. RoomAt(nodes, request, k)
  BY <1>5, <1>6 DEF RoomAt
<1> QED
  BY <1>6, <1>7

(* What a container of a guaranteed pod requests.                          *)
IsAsked(c) ==
  /\ IsFiniteSet(DOMAIN c) /\ c \in [DOMAIN c -> Nat]
  /\ \E q, r \in DOMAIN c \cap Native : q # r /\ c[q] > 0 /\ c[r] > 0
AreAsked(cs) == cs \in Seq(ToSet(cs)) /\ \A k \in DOMAIN cs : IsAsked(cs[k])

LEMMA AskedIsRequest ==
  ASSUME NEW c, IsAsked(c)
  PROVE  IsRequest(c) /\ \E q \in DOMAIN c \cap Native : c[q] # 0
BY DEF IsAsked, IsRequest

LEMMA AskedQuantities ==
  ASSUME NEW cs, AreAsked(cs), NEW r
  PROVE  /\ Len(cs) \in Nat /\ DOMAIN cs = 1 .. Len(cs)
         /\ Quantities(cs, r) \in [1 .. Len(cs) -> Nat]
         /\ \A k \in 1 .. Len(cs) : Quantities(cs, r)[k] = Quantity(cs[k], r)
         /\ SumOver(Quantities(cs, r), DOMAIN cs) \in Nat
         /\ \A k \in 1 .. Len(cs) : Quantity(cs[k], r) <= SumOver(Quantities(cs, r), DOMAIN cs)
<1>1. Len(cs) \in Nat /\ DOMAIN cs = 1 .. Len(cs)
  BY LenProperties DEF AreAsked
<1>2. \A k \in 1 .. Len(cs) : Quantity(cs[k], r) \in Nat
  <2>1. \A k \in 1 .. Len(cs) : cs[k] \in [DOMAIN cs[k] -> Nat]
    BY <1>1 DEF AreAsked, IsAsked
  <2> QED
    BY <2>1, QuantityType
<1>3. /\ Quantities(cs, r) \in [1 .. Len(cs) -> Nat]
      /\ \A k \in 1 .. Len(cs) : Quantities(cs, r)[k] = Quantity(cs[k], r)
  BY <1>1, <1>2 DEF Quantities
<1>4. IsFiniteSet(1 .. Len(cs)) /\ 1 .. Len(cs) \in SUBSET (1 .. Len(cs))
  BY <1>1, FS_Interval
<1>5. SumOver(Quantities(cs, r), DOMAIN cs) \in Nat
  BY <1>1, <1>3, <1>4, UnitsFinite
<1>6. \A k \in 1 .. Len(cs) : Quantities(cs, r)[k] <= SumOver(Quantities(cs, r), DOMAIN cs)
  BY <1>1, <1>3, <1>4, SumOverMember
<1> QED
  BY <1>1, <1>3, <1>5, <1>6

LEMMA AskedNamed ==
  ASSUME NEW cs, AreAsked(cs)
  PROVE  IsFiniteSet(Named(cs))
<1> DEFINE T == {DOMAIN cs[k] : k \in DOMAIN cs}
           g == [k \in DOMAIN cs |-> DOMAIN cs[k]]
<1>1. IsFiniteSet(DOMAIN cs)
  <2>1. Len(cs) \in Nat /\ DOMAIN cs = 1 .. Len(cs)
    BY LenProperties DEF AreAsked
  <2> QED
    BY <2>1, FS_Interval
<1>2. g \in Surjection(DOMAIN cs, T)
  BY DEF Surjection
<1>3. IsFiniteSet(T)
  BY <1>1, <1>2, FS_Surjection
<1>4. \A S \in T : IsFiniteSet(S)
  BY DEF AreAsked, IsAsked
<1> QED
  BY <1>3, <1>4, FS_UNION DEF Named

(* The effective request of a pod covers its containers together.          *)
LEMMA EffectiveRequest ==
  ASSUME NEW pod, AreAsked(pod.containers), AreAsked(pod.inits), pod.containers # << >>,
         NEW eff, eff = GetPodEffectiveRequest(pod)
  PROVE  /\ IsRequest(eff) /\ \E q \in DOMAIN eff \cap Native : eff[q] # 0
         /\ DOMAIN eff = Named(pod.containers) \cup Named(pod.inits)
         /\ \A r \in DOMAIN eff :
              SumOver(Quantities(pod.containers, r), DOMAIN pod.containers) <= eff[r]
<1>1. PICK E : E = Named(pod.containers) \cup Named(pod.inits)
  OBVIOUS
<1>2. DOMAIN eff = E
  BY <1>1, Zenon DEF GetPodEffectiveRequest
<1>3. ASSUME NEW r \in E
      PROVE  /\ eff[r] \in Nat
             /\ SumOver(Quantities(pod.containers, r), DOMAIN pod.containers) <= eff[r]
  <2>1. PICK x \in Int : x = SumOver(Quantities(pod.containers, r), DOMAIN pod.containers) /\ 0 <= x
    BY AskedQuantities
  <2>2. PICK s : s = Quantities(pod.inits, r)
    OBVIOUS
  <2>3. PICK n \in Nat : s \in [1 .. n -> Nat]
    BY <2>2, AskedQuantities
  <2>4. s \in [1 .. n -> Int]
    BY <2>3
  <2>5. eff[r] = Max({SumOver(Quantities(pod.containers, r), DOMAIN pod.containers)}
                       \cup ToSet(Quantities(pod.inits, r)))
    BY <1>1, Zenon DEF GetPodEffectiveRequest
  <2>6. eff[r] = Max({x} \cup ToSet(s))
    BY <2>1, <2>2, <2>5, Zenon
  <2>7. PICK top : top = eff[r]
    OBVIOUS
  <2>8. IsGreatest(n, s, x, top)
    BY <2>4, <2>6, <2>7, Greatest
  <2> QED
    BY <2>1, <2>7, <2>8 DEF IsGreatest
<1>4. IsFiniteSet(Named(pod.containers)) /\ IsFiniteSet(Named(pod.inits))
  BY AskedNamed
<1>5. IsFiniteSet(E)
  BY <1>1, <1>4, FS_Union
<1>6. eff \in [E -> Nat]
  <2>1. eff = [r \in E |-> eff[r]]
    BY <1>1, Zenon DEF GetPodEffectiveRequest
  <2> QED
    BY <1>3, <2>1
<1>7. 1 \in DOMAIN pod.containers
  BY LenProperties, EmptySeq DEF AreAsked
<1>8. PICK q \in DOMAIN pod.containers[1] \cap Native, r \in DOMAIN pod.containers[1] \cap Native :
        q # r /\ pod.containers[1][q] > 0
  BY <1>7 DEF AreAsked, IsAsked
<1>9. q \in E /\ r \in E
  BY <1>1, <1>7, <1>8 DEF Named
<1>10. eff[q] # 0
  <2>1. PICK x \in Nat : x = Quantity(pod.containers[1], q) /\ x > 0
    <3>1. pod.containers[1] \in [DOMAIN pod.containers[1] -> Nat]
      BY <1>7 DEF AreAsked, IsAsked
    <3> QED
      BY <1>8, <3>1 DEF Quantity
  <2>2. DOMAIN pod.containers = 1 .. Len(pod.containers)
    BY AskedQuantities
  <2>3. PICK y \in Nat : y = SumOver(Quantities(pod.containers, q), DOMAIN pod.containers) /\ x <= y
    BY <1>7, <2>1, <2>2, AskedQuantities
  <2>4. y <= eff[q] /\ eff[q] \in Nat
    BY <1>3, <1>9, <2>3
  <2> QED
    BY <2>1, <2>3, <2>4
<1> QED
  BY <1>1, <1>2, <1>3, <1>5, <1>6, <1>8, <1>9, <1>10 DEF IsRequest

(* A sum of zeros.                                                         *)
LEMMA SumOverZeros ==
  ASSUME NEW X, IsFiniteSet(X), NEW f, f = [x \in X |-> f[x]], \A x \in X : f[x] = 0
  PROVE  SumOver(f, X) = 0
<1>1. f \in [X -> Nat]
  OBVIOUS
<1>2. PICK zero \in Nat : zero = 0
  OBVIOUS
<1>3. \A x \in X : f[x] <= zero
  BY <1>2
<1>4. SumOver(f, X) <= Cardinality(X) * zero
  BY <1>1, <1>3, SumOverBounded
<1>5. Cardinality(X) \in Nat
  BY FS_CardinalityType
<1>6. Cardinality(X) * zero = 0
  BY <1>2, <1>5
<1>7. X \in SUBSET X
  OBVIOUS
<1>8. SumOver(f, X) \in Nat
  BY <1>1, <1>7, UnitsFinite
<1> QED
  BY <1>4, <1>6, <1>8

(* At pod level all containers go to the NUMA node with room for them.     *)
LEMMA PodAligned ==
  ASSUME MaxNUMA \in Nat, NEW nodes, IsNodeList(nodes),
         NEW pod, AreAsked(pod.containers), AreAsked(pod.inits), pod.containers # << >>,
         NEW allocatable,
         resourcesAvailableInAnyNUMANodes(nodes, GetPodEffectiveRequest(pod), "Guaranteed", allocatable)
           # NoNUMA
  PROVE  \E f \in [DOMAIN pod.containers -> DOMAIN nodes] :
           \A n \in DOMAIN nodes : Holds(nodes, pod.containers, f, n)
<1>1. PICK eff : eff = GetPodEffectiveRequest(pod)
  OBVIOUS
<1>2. PICK id : id = resourcesAvailableInAnyNUMANodes(nodes, eff, "Guaranteed", allocatable)
  OBVIOUS
<1>3. PICK cs : cs = pod.containers /\ AreAsked(cs)
  OBVIOUS
<1>4. /\ IsRequest(eff) /\ \E q \in DOMAIN eff \cap Native : eff[q] # 0
      /\ DOMAIN eff = Named(cs) \cup Named(pod.inits)
      /\ \A r \in DOMAIN eff : SumOver(Quantities(cs, r), DOMAIN cs) <= eff[r]
  BY <1>1, <1>3, EffectiveRequest
<1>5. PICK k \in DOMAIN nodes : RoomAt(nodes, eff, k)
  <2>1. \A i, j \in DOMAIN nodes : nodes[i].id = nodes[j].id => i = j
    BY DEF IsNodeList
  <2>2. id # NoNUMA
    BY <1>1, <1>2
  <2>3. PICK q \in DOMAIN eff \cap Native : eff[q] # 0
    BY <1>4
  <2> QED
    BY <1>2, <2>1, <2>2, <2>3, AlignedAt
<1> DEFINE f == [c \in DOMAIN cs |-> k]
           There(n, r) == [c \in DOMAIN cs |-> IF f[c] = n THEN Quantity(cs[c], r) ELSE 0]
<1>6. f \in [DOMAIN cs -> DOMAIN nodes] /\ \A c \in DOMAIN cs : f[c] = k
  OBVIOUS
<1> HIDE DEF f
<1>7. DOMAIN cs = 1 .. Len(cs) /\ IsFiniteSet(DOMAIN cs)
  <2>1. Len(cs) \in Nat /\ DOMAIN cs = 1 .. Len(cs)
    BY <1>3, LenProperties DEF AreAsked
  <2> QED
    BY <2>1, FS_Interval
<1>8. ASSUME NEW n \in DOMAIN nodes, n # k PROVE Holds(nodes, cs, f, n)
  <2>1. ASSUME NEW r \in DOMAIN nodes[n].res PROVE SumOver(There(n, r), DOMAIN cs) <= nodes[n].res[r]
    <3>1. There(n, r) = [c \in DOMAIN cs |-> There(n, r)[c]] /\ \A c \in DOMAIN cs : There(n, r)[c] = 0
      BY <1>6, <1>8
    <3>2. nodes[n].res[r] \in Nat
      BY DEF IsNodeList, IsRoom
    <3> HIDE DEF There
    <3>3. SumOver(There(n, r), DOMAIN cs) = 0
      BY <1>7, <3>1, SumOverZeros
    <3> QED
      BY <3>2, <3>3
  <2> QED
    BY <1>6, <1>8, <2>1 DEF Holds
<1>9. Holds(nodes, cs, f, k)
  <2>1. ASSUME NEW r \in DOMAIN nodes[k].res PROVE SumOver(There(k, r), DOMAIN cs) <= nodes[k].res[r]
    <3>1. There(k, r) = Quantities(cs, r)
      BY <1>6 DEF Quantities
    <3> HIDE DEF There
    <3>2. PICK sum \in Nat : sum = SumOver(Quantities(cs, r), DOMAIN cs)
      BY <1>3, AskedQuantities
    <3>3. PICK room \in Nat : room = nodes[k].res[r]
      BY DEF IsNodeList, IsRoom
    <3>4. CASE r \in DOMAIN eff
      <4>1. HasAffinity(nodes, r)
        BY <1>5 DEF HasAffinity
      <4>2. eff[r] = 0 \/ room >= eff[r]
        BY <1>5, <3>3, <3>4, <4>1 DEF RoomAt
      <4>3. sum <= eff[r] /\ eff[r] \in Nat
        BY <1>4, <3>2, <3>4 DEF IsRequest
      <4>4. sum <= room
        BY <4>2, <4>3
      <4> QED
        BY <3>1, <3>2, <3>3, <4>4
    <3>5. CASE r \notin DOMAIN eff
      <4>1. PICK s : s = Quantities(cs, r)
        OBVIOUS
      <4>2. s = [c \in DOMAIN cs |-> s[c]] /\ \A c \in DOMAIN cs : s[c] = 0
        BY <1>4, <3>5, <4>1 DEF Quantities, Quantity, Named
      <4>3. SumOver(s, DOMAIN cs) = 0
        BY <1>7, <4>2, SumOverZeros
      <4> QED
        BY <3>1, <3>3, <4>1, <4>3
    <3> QED
      BY <3>4, <3>5
  <2>2. ASSUME NEW c \in DOMAIN cs, NEW r \in Native, Quantity(cs[c], r) > 0
        PROVE  r \in DOMAIN nodes[k].res
    <3>1. r \in DOMAIN eff
      BY <1>4, <2>2 DEF Quantity, Named
    <3>2. PICK x \in Nat : x = Quantity(cs[c], r) /\ x > 0
      <4>1. cs[c] \in [DOMAIN cs[c] -> Nat]
        BY <1>3 DEF AreAsked, IsAsked
      <4> QED
        BY <2>2, <4>1, QuantityType
    <3>3. PICK sum \in Nat : sum = SumOver(Quantities(cs, r), DOMAIN cs) /\ x <= sum
      BY <1>3, <1>7, <3>2, AskedQuantities
    <3>4. sum <= eff[r] /\ eff[r] \in Nat
      BY <1>4, <3>1, <3>3 DEF IsRequest
    <3>5. eff[r] # 0
      BY <3>2, <3>3, <3>4
    <3> QED
      BY <1>5, <3>1, <3>5 DEF RoomAt
  <2> QED
    BY <2>1, <2>2 DEF Holds
<1> QED
  BY <1>3, <1>6, <1>8, <1>9

(* What the first k containers that f puts on n request of r.              *)
PutOn(cs, f, n, r, k) == [c \in 1 .. k |-> IF f[c] = n THEN Quantity(cs[c], r) ELSE 0]

LEMMA LastTerm ==
  ASSUME NEW k \in Nat \ {0}, NEW p \in [1 .. k -> Nat]
  PROVE  /\ SumOver(p, 1 .. k - 1) \in Nat
         /\ SumOver(p, 1 .. k) = SumOver(p, 1 .. k - 1) + p[k]
<1>1. PICK X : X = 1 .. k
  OBVIOUS
<1>2. PICK T : T = 1 .. k - 1
  OBVIOUS
<1>3. T \in SUBSET X /\ k \in X /\ k \notin T /\ X = T \cup {k} /\ p \in [X -> Nat]
  BY <1>1, <1>2
<1>4. IsFiniteSet(X)
  BY <1>1, FS_Interval
<1>5. SumOver(p, T) \in Nat
  BY <1>3, <1>4, UnitsFinite
<1>6. SumOver(p, T \cup {k}) = SumOver(p, T) + p[k]
  BY <1>3, <1>4, SumOverNew
<1> QED
  BY <1>1, <1>2, <1>3, <1>5, <1>6

LEMMA PutOneMore ==
  ASSUME NEW k \in Nat \ {0}, NEW cs, NEW r, \A c \in 1 .. k : Quantity(cs[c], r) \in Nat,
         NEW f, NEW g, \A c \in 1 .. k - 1 : g[c] = f[c], NEW n,
         NEW x, x = IF g[k] = n THEN Quantity(cs[k], r) ELSE 0
  PROVE  /\ SumOver(PutOn(cs, f, n, r, k - 1), 1 .. k - 1) \in Nat
         /\ SumOver(PutOn(cs, g, n, r, k), 1 .. k) = SumOver(PutOn(cs, f, n, r, k - 1), 1 .. k - 1) + x
<1>1. PICK p : p = PutOn(cs, g, n, r, k)
  OBVIOUS
<1>2. PICK q : q = PutOn(cs, f, n, r, k - 1)
  OBVIOUS
<1>3. p \in [1 .. k -> Nat] /\ p[k] = x
  BY <1>1 DEF PutOn
<1>4. \A c \in 1 .. k - 1 : p[c] = q[c]
  BY <1>1, <1>2 DEF PutOn
<1>5. SumOver(p, 1 .. k - 1) \in Nat /\ SumOver(p, 1 .. k) = SumOver(p, 1 .. k - 1) + p[k]
  BY <1>3, LastTerm
<1>6. SumOver(p, 1 .. k - 1) = SumOver(q, 1 .. k - 1)
  <2>1. PICK T : T = 1 .. k - 1
    OBVIOUS
  <2>2. SumOver(p, T) = SumOver(q, T)
    BY <1>4, <2>1, SumOverSame
  <2> QED
    BY <2>1, <2>2
<1> QED
  BY <1>1, <1>2, <1>3, <1>5, <1>6, Zenon

(* What is left of the NUMA nodes when f has put k containers on them: of  *)
(* a resource that a NUMA node does not have there is nothing left.        *)
LeftBy(list, cs, k, f, nodes, n) ==
  /\ nodes[n].id = list[n].id /\ DOMAIN list[n].res \subseteq DOMAIN nodes[n].res
  /\ \A r \in DOMAIN nodes[n].res : r \in DOMAIN list[n].res =>
       /\ nodes[n].res[r] = list[n].res[r] - SumOver(PutOn(cs, f, n, r, k), 1 .. k)
       /\ nodes[n].res[r] >= 0
  /\ \A r \in DOMAIN nodes[n].res : r \notin DOMAIN list[n].res => nodes[n].res[r] <= 0
  /\ \A c \in 1 .. k, r \in Native :
       f[c] = n /\ Quantity(cs[c], r) > 0 => r \in DOMAIN list[n].res

AlignedAfter(list, cs, k, acc) ==
  acc.ok => \E f \in [1 .. k -> DOMAIN list] : \A n \in DOMAIN list : LeftBy(list, cs, k, f, acc.nodes, n)

(* The NUMA nodes d with some of the resources U, whatever is left.        *)
Rooms(U) == UNION {[E -> Int] : E \in SUBSET U}
Remaining(U, d) == [d -> [id : Nat, res : Rooms(U)]]

IsSubtracted(res, c) ==
  /\ DOMAIN Subtract(res, c) = DOMAIN res \cup DOMAIN c
  /\ \A r \in DOMAIN res \cup DOMAIN c : Subtract(res, c)[r] = Quantity(res, r) - Quantity(c, r)

LEMMA SubtractType ==
  ASSUME NEW U, NEW res \in Rooms(U), NEW c, c \in [DOMAIN c -> Nat], DOMAIN c \subseteq U
  PROVE  Subtract(res, c) \in Rooms(U) /\ IsSubtracted(res, c)
<1>1. res \in [DOMAIN res -> Int] /\ DOMAIN res \subseteq U
  BY DEF Rooms
<1>2. PICK E \in SUBSET U : E = DOMAIN res \cup DOMAIN c
  BY <1>1
<1>3. \A r \in E : Quantity(res, r) \in Int /\ Quantity(c, r) \in Int
  BY <1>1 DEF Quantity
<1>4. Subtract(res, c) = [r \in E |-> Quantity(res, r) - Quantity(c, r)]
  BY <1>2 DEF Subtract
<1>5. Subtract(res, c) \in [E -> Int]
  BY <1>3, <1>4
<1> QED
  BY <1>2, <1>4, <1>5 DEF Rooms, IsSubtracted

(* g puts container k on d, and the containers before where f has them.    *)
PutAlso(k, f, g, d) == g[k] = d /\ \A j \in 1 .. k - 1 : g[j] = f[j]
PutAdds(cs, k, f, g, d, n, r) ==
  /\ SumOver(PutOn(cs, f, n, r, k - 1), 1 .. k - 1) \in Nat
  /\ Quantity(cs[k], r) \in Nat
  /\ SumOver(PutOn(cs, g, n, r, k), 1 .. k)
       = SumOver(PutOn(cs, f, n, r, k - 1), 1 .. k - 1) + (IF d = n THEN Quantity(cs[k], r) ELSE 0)

LEMMA PutStep ==
  ASSUME NEW cs, AreAsked(cs), NEW k \in 1 .. Len(cs), NEW f, NEW g, NEW d,
         PutAlso(k, f, g, d), NEW n, NEW r
  PROVE  PutAdds(cs, k, f, g, d, n, r)
<1>1. Len(cs) \in Nat /\ DOMAIN cs = 1 .. Len(cs)
  BY LenProperties DEF AreAsked
<1>2. k \in Nat \ {0} /\ k \in 1 .. k /\ 1 .. k \subseteq DOMAIN cs
  BY <1>1
<1>3. \A j \in 1 .. k : Quantity(cs[j], r) \in Nat
  <2>1. \A j \in 1 .. k : cs[j] \in [DOMAIN cs[j] -> Nat]
    BY <1>2 DEF AreAsked, IsAsked
  <2> QED
    BY <2>1, QuantityType
<1>4. PICK x : x = IF g[k] = n THEN Quantity(cs[k], r) ELSE 0
  OBVIOUS
<1> USE DEF PutAlso
<1>5. /\ SumOver(PutOn(cs, f, n, r, k - 1), 1 .. k - 1) \in Nat
      /\ SumOver(PutOn(cs, g, n, r, k), 1 .. k) = SumOver(PutOn(cs, f, n, r, k - 1), 1 .. k - 1) + x
  BY <1>2, <1>3, <1>4, PutOneMore
<1> QED
  BY <1>2, <1>3, <1>4, <1>5 DEF PutAdds

(* One more container is put on a NUMA node that has room for it.          *)
LEMMA LeftStep ==
  ASSUME NEW list, IsNodeList(list), NEW cs, AreAsked(cs), NEW k \in 1 .. Len(cs),
         NEW U, DOMAIN cs[k] \subseteq U, NEW nodes \in Remaining(U, DOMAIN list),
         NEW f, \A n \in DOMAIN list : LeftBy(list, cs, k - 1, f, nodes, n),
         NEW d \in DOMAIN list, RoomAt(nodes, cs[k], d), NEW id, id = nodes[d].id,
         NEW g, g = [c \in 1 .. k |-> IF c = k THEN d ELSE f[c]],
         NEW left, left = subtractFromNUMA(nodes, id, cs[k]), NEW n \in DOMAIN list
  PROVE  LeftBy(list, cs, k, g, left, n)
<1>1. Len(cs) \in Nat /\ DOMAIN cs = 1 .. Len(cs)
  BY LenProperties DEF AreAsked
<1>2. k \in Nat \ {0} /\ k \in DOMAIN cs /\ 1 .. k \subseteq DOMAIN cs
  BY <1>1
<1>3. PICK c : c = cs[k] /\ c \in [DOMAIN c -> Nat] /\ DOMAIN c \subseteq U
  BY <1>2 DEF AreAsked, IsAsked
<1>4. g[k] = d /\ \A j \in 1 .. k - 1 : g[j] = f[j]
  BY <1>2
<1>5. ASSUME NEW r
      PROVE  /\ SumOver(PutOn(cs, f, n, r, k - 1), 1 .. k - 1) \in Nat
             /\ Quantity(c, r) \in Nat
             /\ SumOver(PutOn(cs, g, n, r, k), 1 .. k)
                  = SumOver(PutOn(cs, f, n, r, k - 1), 1 .. k - 1) + (IF d = n THEN Quantity(c, r) ELSE 0)
  <2>1. PutAlso(k, f, g, d)
    BY <1>4 DEF PutAlso
  <2>2. PutAdds(cs, k, f, g, d, n, r)
    BY <2>1, PutStep
  <2> QED
    BY <1>3, <2>2, Zenon DEF PutAdds
<1>6. DOMAIN nodes = DOMAIN list /\ nodes[n].res \in Rooms(U)
  BY DEF Remaining
<1>7. nodes[n].res \in [DOMAIN nodes[n].res -> Int]
  BY <1>6 DEF Rooms
<1>8. LeftBy(list, cs, k - 1, f, nodes, n) /\ LeftBy(list, cs, k - 1, f, nodes, d)
  OBVIOUS
<1>9. \A r \in DOMAIN list[n].res : list[n].res[r] \in Nat
  BY DEF IsNodeList, IsRoom
<1>10. CASE n # d
  <2>1. nodes[n].id # id
    BY <1>8, <1>10 DEF LeftBy, IsNodeList
  <2>2. left[n] = nodes[n]
    BY <1>6, <2>1 DEF subtractFromNUMA
  <2>3. \A r : SumOver(PutOn(cs, g, n, r, k), 1 .. k) = SumOver(PutOn(cs, f, n, r, k - 1), 1 .. k - 1)
    BY <1>5, <1>10
  <2>4. ASSUME NEW j \in 1 .. k, NEW r \in Native, g[j] = n, Quantity(cs[j], r) > 0
        PROVE  r \in DOMAIN list[n].res
    <3>1. j \in 1 .. k - 1 /\ f[j] = n
      BY <1>2, <1>4, <1>10, <2>4
    <3> QED
      BY <1>8, <2>4, <3>1 DEF LeftBy
  <2>5. /\ left[n].id = list[n].id /\ DOMAIN list[n].res \subseteq DOMAIN left[n].res
        /\ \A r \in DOMAIN left[n].res : r \notin DOMAIN list[n].res => left[n].res[r] <= 0
    BY <1>8, <2>2 DEF LeftBy
  <2>6. \A r \in DOMAIN left[n].res : r \in DOMAIN list[n].res =>
          /\ left[n].res[r] = list[n].res[r] - SumOver(PutOn(cs, g, n, r, k), 1 .. k)
          /\ left[n].res[r] >= 0
    BY <1>8, <2>2, <2>3 DEF LeftBy
  <2> QED
    BY <2>4, <2>5, <2>6 DEF LeftBy
<1>11. CASE n = d
  <2>1. left[n] = [id |-> id, res |-> Subtract(nodes[n].res, c)]
    BY <1>3, <1>6, <1>11 DEF subtractFromNUMA
  <2>2. /\ left[n].id = id /\ DOMAIN left[n].res = DOMAIN nodes[n].res \cup DOMAIN c
        /\ \A r \in DOMAIN left[n].res : left[n].res[r] = Quantity(nodes[n].res, r) - Quantity(c, r)
    <3>1. PICK res \in Rooms(U) : res = nodes[n].res
      BY <1>6
    <3>2. IsSubtracted(res, c)
      BY <1>3, SubtractType
    <3>3. left[n].id = id /\ left[n].res = Subtract(res, c)
      BY <2>1, <3>1
    <3> QED
      BY <3>1, <3>2, <3>3, Zenon DEF IsSubtracted
  <2>3. left[n].id = list[n].id /\ DOMAIN list[n].res \subseteq DOMAIN left[n].res
    BY <1>8, <1>11, <2>2 DEF LeftBy
  <2>4. ASSUME NEW r \in DOMAIN list[n].res
        PROVE  /\ left[n].res[r] = list[n].res[r] - SumOver(PutOn(cs, g, n, r, k), 1 .. k)
               /\ left[n].res[r] >= 0
    <3>1. r \in DOMAIN nodes[n].res /\ r \in DOMAIN left[n].res
      BY <1>8, <2>2 DEF LeftBy
    <3>2. PICK sum \in Nat : sum = SumOver(PutOn(cs, f, n, r, k - 1), 1 .. k - 1)
      BY <1>5
    <3>3. PICK x \in Nat : x = Quantity(c, r)
      BY <1>5
    <3>4. SumOver(PutOn(cs, g, n, r, k), 1 .. k) = sum + x
      BY <1>5, <1>11, <3>2, <3>3
    <3>5. PICK had \in Int : had = nodes[n].res[r]
      BY <1>7, <3>1
    <3>6. had = list[n].res[r] - sum /\ had >= 0
      BY <1>8, <3>1, <3>2, <3>5 DEF LeftBy
    <3>7. left[n].res[r] = had - x
      BY <2>2, <3>1, <3>3, <3>5 DEF Quantity
    <3>8. x <= had
      <4>1. CASE r \notin DOMAIN c
        BY <3>3, <3>6, <4>1 DEF Quantity
      <4>2. CASE r \in DOMAIN c
        <5>1. HasAffinity(nodes, r)
          BY <1>6, <3>1 DEF HasAffinity
        <5>2. x = c[r]
          BY <3>3, <4>2 DEF Quantity
        <5>3. c[r] = 0 \/ nodes[d].res[r] >= c[r]
          BY <1>3, <4>2, <5>1 DEF RoomAt
        <5> QED
          BY <1>11, <3>5, <3>6, <5>2, <5>3
      <4> QED
        BY <4>1, <4>2
    <3>9. list[n].res[r] \in Nat
      BY <1>9
    <3> QED
      BY <3>4, <3>6, <3>7, <3>8, <3>9
  <2>5. ASSUME NEW r \in DOMAIN left[n].res, r \notin DOMAIN list[n].res
        PROVE  left[n].res[r] <= 0
    <3>1. Quantity(nodes[n].res, r) \in Int /\ Quantity(nodes[n].res, r) <= 0
      BY <1>7, <1>8, <2>5 DEF Quantity, LeftBy
    <3> QED
      <4>1. PICK x \in Nat : x = Quantity(c, r)
        BY <1>3, QuantityType
      <4>2. left[n].res[r] = Quantity(nodes[n].res, r) - x
        BY <2>2, <2>5, <4>1
      <4> QED
        BY <3>1, <4>2
  <2>6. ASSUME NEW j \in 1 .. k, NEW r \in Native, g[j] = n, Quantity(cs[j], r) > 0
        PROVE  r \in DOMAIN list[n].res
    <3>1. CASE j = k
      <4>1. r \in DOMAIN c /\ c[r] > 0 /\ c[r] \in Nat
        BY <1>3, <2>6, <3>1 DEF Quantity
      <4>2. r \in DOMAIN nodes[n].res /\ nodes[n].res[r] >= c[r]
        BY <1>3, <1>11, <4>1 DEF RoomAt
      <4>3. nodes[n].res[r] \in Int
        BY <1>7, <4>2
      <4>4. ~(nodes[n].res[r] <= 0)
        BY <4>1, <4>2, <4>3
      <4> QED
        BY <1>8, <4>2, <4>4 DEF LeftBy
    <3>2. CASE j # k
      <4>1. j \in 1 .. k - 1 /\ f[j] = n
        BY <1>2, <1>4, <2>6, <3>2
      <4> QED
        BY <1>8, <2>6, <4>1 DEF LeftBy
    <3> QED
      BY <3>1, <3>2
  <2> QED
    BY <2>3, <2>4, <2>5, <2>6 DEF LeftBy
<1> QED
  BY <1>10, <1>11

LEMMA AlignStep ==
  ASSUME MaxNUMA \in Nat, NEW list, IsNodeList(list), NEW cs, AreAsked(cs), NEW k \in 1 .. Len(cs),
         NEW U, DOMAIN cs[k] \subseteq U, NEW allocatable,
         NEW x \in [nodes : Remaining(U, DOMAIN list), ok : BOOLEAN], AlignedAfter(list, cs, k - 1, x),
         NEW y, y = AlignContainer(x, cs[k], "Guaranteed", allocatable)
  PROVE  y \in [nodes : Remaining(U, DOMAIN list), ok : BOOLEAN] /\ AlignedAfter(list, cs, k, y)
<1>1. Len(cs) \in Nat /\ DOMAIN cs = 1 .. Len(cs)
  BY LenProperties DEF AreAsked
<1>2. k \in Nat \ {0} /\ k \in DOMAIN cs
  BY <1>1
<1>3. PICK c : c = cs[k] /\ IsAsked(c)
  BY <1>2 DEF AreAsked
<1>4. PICK nodes : nodes = x.nodes /\ nodes \in Remaining(U, DOMAIN list)
  OBVIOUS
<1>5. PICK id : id = resourcesAvailableInAnyNUMANodes(nodes, c, "Guaranteed", allocatable)
  OBVIOUS
<1>6. y = IF ~x.ok \/ id = NoNUMA THEN [nodes |-> nodes, ok |-> FALSE]
          ELSE [nodes |-> subtractFromNUMA(nodes, id, c), ok |-> TRUE]
  BY <1>3, <1>4, <1>5 DEF AlignContainer
<1>7. CASE ~x.ok \/ id = NoNUMA
  <2>1. y = [nodes |-> nodes, ok |-> FALSE]
    BY <1>6, <1>7
  <2>2. ~y.ok
    BY <2>1
  <2> QED
    <3>1. AlignedAfter(list, cs, k, y)
      BY <2>2 DEF AlignedAfter
    <3>2. y \in [nodes : Remaining(U, DOMAIN list), ok : BOOLEAN]
      <4>1. PICK R : R = Remaining(U, DOMAIN list)
        OBVIOUS
      <4>2. nodes \in R
        BY <1>4, <4>1
      <4>3. PICK no \in BOOLEAN : no = FALSE
        OBVIOUS
      <4>4. [nodes |-> nodes, ok |-> no] \in [nodes : R, ok : BOOLEAN]
        BY <4>2
      <4> QED
        BY <2>1, <4>1, <4>3, <4>4
    <3> QED
      BY <3>1, <3>2
<1>8. CASE ~(~x.ok \/ id = NoNUMA)
  <2>1. PICK left : left = subtractFromNUMA(nodes, id, c)
    OBVIOUS
  <2>2. y = [nodes |-> left, ok |-> TRUE]
    BY <1>6, <1>8, <2>1
  <2>3. PICK f \in [1 .. k - 1 -> DOMAIN list] : \A n \in DOMAIN list : LeftBy(list, cs, k - 1, f, nodes, n)
    BY <1>4, <1>8 DEF AlignedAfter
  <2>4. DOMAIN nodes = DOMAIN list
    BY <1>4 DEF Remaining
  <2>5. \A i, j \in DOMAIN nodes : nodes[i].id = nodes[j].id => i = j
    BY <2>3, <2>4 DEF LeftBy, IsNodeList
  <2>6. PICK q \in DOMAIN c \cap Native : c[q] # 0
    BY <1>3, AskedIsRequest
  <2>7. PICK d \in DOMAIN nodes : nodes[d].id = id /\ RoomAt(nodes, c, d)
    <3>1. id # NoNUMA
      BY <1>8
    <3> QED
      BY <1>5, <2>5, <2>6, <3>1, AlignedAt
  <2>8. PICK g : g = [j \in 1 .. k |-> IF j = k THEN d ELSE f[j]]
    OBVIOUS
  <2>9. g \in [1 .. k -> DOMAIN list]
    <3>1. \A j \in 1 .. k : j = k \/ j \in 1 .. k - 1
      BY <1>2
    <3> QED
      BY <2>3, <2>4, <2>7, <2>8, <3>1
  <2>10. \A n \in DOMAIN list : LeftBy(list, cs, k, g, left, n)
    BY <1>3, <1>4, <2>1, <2>3, <2>4, <2>7, <2>8, LeftStep
  <2>11. left \in Remaining(U, DOMAIN list)
    <3>1. ASSUME NEW n \in DOMAIN list
          PROVE  nodes[n] \in [id : Nat, res : Rooms(U)]
                   /\ [id |-> id, res |-> Subtract(nodes[n].res, c)] \in [id : Nat, res : Rooms(U)]
      <4>1. nodes[n] \in [id : Nat, res : Rooms(U)] /\ nodes[d] \in [id : Nat, res : Rooms(U)]
        BY <1>4, <2>4, <2>7 DEF Remaining
      <4>2. id \in Nat /\ nodes[n].res \in Rooms(U)
        BY <2>7, <4>1
      <4>3. Subtract(nodes[n].res, c) \in Rooms(U)
        BY <1>3, <4>2, SubtractType DEF IsAsked
      <4> QED
        BY <4>1, <4>2, <4>3
    <3>2. left = [n \in DOMAIN list |-> IF nodes[n].id # id THEN nodes[n]
                                       ELSE [id |-> id, res |-> Subtract(nodes[n].res, c)]]
      BY <2>1, <2>4 DEF subtractFromNUMA
    <3> QED
      BY <3>1, <3>2 DEF Remaining
  <2>12. y.ok /\ y.nodes = left
    BY <2>2
  <2> QED
    BY <2>2, <2>9, <2>10, <2>11, <2>12 DEF AlignedAfter
<1> QED
  BY <1>7, <1>8

LEMMA NothingPut ==
  ASSUME NEW list, IsNodeList(list), NEW cs
  PROVE  \E f \in [1 .. 0 -> DOMAIN list] : \A n \in DOMAIN list : LeftBy(list, cs, 0, f, list, n)
<1>0. 1 .. 0 = {}
  OBVIOUS
<1>1. PICK none : none = 1 .. 0 /\ none = {}
  BY <1>0
<1>2. PICK f : f = [c \in none |-> c]
  OBVIOUS
<1>3. f \in [none -> DOMAIN list]
  BY <1>1, <1>2
<1>4. ASSUME NEW n \in DOMAIN list PROVE LeftBy(list, cs, 0, f, list, n)
  <2>1. \A r \in DOMAIN list[n].res : list[n].res[r] \in Nat
    BY DEF IsNodeList, IsRoom
  <2>2. \A r : SumOver(PutOn(cs, f, n, r, 0), 1 .. 0) = 0
    BY <1>1, SumOverEmpty
  <2>3. \A r \in DOMAIN list[n].res :
          /\ list[n].res[r] = list[n].res[r] - SumOver(PutOn(cs, f, n, r, 0), 1 .. 0)
          /\ list[n].res[r] >= 0
    BY <2>1, <2>2
  <2>4. \A c \in 1 .. 0 : FALSE
    BY <1>1
  <2> QED
    BY <2>3, <2>4 DEF LeftBy
<1> QED
  BY <1>1, <1>3, <1>4

LEMMA StartsRemaining ==
  ASSUME NEW list, IsNodeList(list), NEW cs,
         NEW U, U = (UNION {DOMAIN list[d].res : d \in DOMAIN list}) \cup Named(cs)
  PROVE  [nodes |-> list, ok |-> TRUE] \in [nodes : Remaining(U, DOMAIN list), ok : BOOLEAN]
<1>1. ASSUME NEW d \in DOMAIN list PROVE list[d] \in [id : Nat, res : Rooms(U)]
  <2>1. list[d] \in [id : Nat, res : {list[k].res : k \in DOMAIN list}]
    <3>1. PICK E : E = [id : Nat, res : {list[k].res : k \in DOMAIN list}]
      OBVIOUS
    <3>2. list \in Seq(E)
      BY <3>1 DEF IsNodeList
    <3> QED
      BY <3>1, <3>2, LenProperties, ElementOfSeq
  <2>2. list[d].res \in [DOMAIN list[d].res -> Int] /\ DOMAIN list[d].res \in SUBSET U
    BY DEF IsNodeList, IsRoom
  <2>3. list[d].res \in Rooms(U)
    BY <2>2 DEF Rooms
  <2> QED
    BY <2>1, <2>3
<1>2. list = [d \in DOMAIN list |-> list[d]]
  BY LenProperties DEF IsNodeList
<1>3. list \in Remaining(U, DOMAIN list)
  BY <1>1, <1>2 DEF Remaining
<1> QED
  BY <1>3

(* At container level every container goes to a NUMA node that has room    *)
(* for it beside the containers before.                                    *)
LEMMA ContainersAligned ==
  ASSUME MaxNUMA \in Nat, NEW list, IsNodeList(list), NEW cs, AreAsked(cs), NEW allocatable,
         AlignLoop(list, cs, "Guaranteed", allocatable)[Len(cs)].ok
  PROVE  \E f \in [DOMAIN cs -> DOMAIN list] : \A d \in DOMAIN list : Holds(list, cs, f, d)
<1>0. PICK U : U = (UNION {DOMAIN list[d].res : d \in DOMAIN list}) \cup Named(cs)
  OBVIOUS
<1> DEFINE n == Len(cs)
           Step(x, k) == AlignContainer(x, cs[k], "Guaranteed", allocatable)
           a == [nodes |-> list, ok |-> TRUE]
           acc == AlignLoop(list, cs, "Guaranteed", allocatable)
           Inv == [k \in 0 .. n |-> {x \in [nodes : Remaining(U, DOMAIN list), ok : BOOLEAN] :
                                   AlignedAfter(list, cs, k, x)}]
           step == [k \in 1 .. n |-> [x \in Inv[k - 1] |-> Step(x, k)]]
<1>1. n \in Nat
  BY LenProperties DEF AreAsked
<1>2. a \in Inv[0]
  <2>1. a \in [nodes : Remaining(U, DOMAIN list), ok : BOOLEAN]
    BY <1>0, StartsRemaining
  <2>2. AlignedAfter(list, cs, 0, a)
    BY NothingPut DEF AlignedAfter
  <2>3. 0 \in 0 .. n
    BY <1>1
  <2> HIDE DEF a
  <2> QED
    BY <2>1, <2>2, <2>3
<1>3. ASSUME NEW k \in 1 .. n, NEW x \in Inv[k - 1] PROVE Step(x, k) \in Inv[k]
  <2>1. k - 1 \in 0 .. n /\ k \in 0 .. n
    BY <1>1
  <2>2. x \in [nodes : Remaining(U, DOMAIN list), ok : BOOLEAN] /\ AlignedAfter(list, cs, k - 1, x)
    BY <2>1
  <2>3. PICK y : y = Step(x, k)
    OBVIOUS
  <2>4. y \in [nodes : Remaining(U, DOMAIN list), ok : BOOLEAN] /\ AlignedAfter(list, cs, k, y)
    <3>1. DOMAIN cs[k] \subseteq U
      <4>1. DOMAIN cs = 1 .. n
        BY LenProperties DEF AreAsked
      <4>2. DOMAIN cs[k] \in {DOMAIN cs[j] : j \in DOMAIN cs}
        BY <4>1
      <4>3. DOMAIN cs[k] \subseteq Named(cs)
        BY <4>2 DEF Named
      <4> QED
        BY <1>0, <4>3
    <3> HIDE DEF Inv
    <3> QED
      BY <2>2, <2>3, <3>1, AlignStep
  <2> HIDE DEF Step
  <2> QED
    BY <2>1, <2>3, <2>4
<1>4. PICK f : RunsThrough(n, Inv, a, step, f)
  <2>1. \A k \in 1 .. n : \A x \in Inv[k - 1] : step[k][x] \in Inv[k]
    <3> HIDE DEF Inv, Step
    <3> QED
      BY <1>3
  <2> HIDE DEF n, Inv, a, step
  <2> QED
    BY <1>1, <1>2, <2>1, LoopRuns
<1>5. f = [k \in 0 .. n |-> IF k = 0 THEN a ELSE Step(f[k - 1], k)]
  <2> HIDE DEF Inv, a, Step
  <2>1. ASSUME NEW k \in 1 .. n PROVE f[k] = Step(f[k - 1], k)
    <3>1. k - 1 \in 0 .. n
      BY <1>1
    <3>2. f[k - 1] \in Inv[k - 1] /\ f[k] = step[k][f[k - 1]]
      BY <1>4, <3>1 DEF RunsThrough
    <3> QED
      BY <3>2
  <2>2. f = [k \in 0 .. n |-> f[k]] /\ f[0] = a
    BY <1>4 DEF RunsThrough
  <2> HIDE DEF n
  <2>3. \A k \in 0 .. n : k = 0 \/ k \in 1 .. n
    BY <1>1
  <2> QED
    BY <2>1, <2>2, <2>3
<1>6. acc = [k \in 0 .. n |-> IF k = 0 THEN a ELSE Step(acc[k - 1], k)]
  BY <1>5 DEF AlignLoop
<1> HIDE DEF acc, a, Step
<1>7. acc[0] = a /\ \A k \in 1 .. n : acc[k] = Step(acc[k - 1], k)
  <2>1. \A k \in 0 .. n : acc[k] = IF k = 0 THEN a ELSE Step(acc[k - 1], k)
    BY <1>6
  <2> HIDE DEF n
  <2> QED
    BY <1>1, <2>1
<1>8. acc[n] \in Inv[n]
  <2> HIDE DEF Inv, n
  <2>1. \A k \in 1 .. n : acc[k - 1] \in Inv[k - 1] => acc[k] \in Inv[k]
    BY <1>3, <1>7
  <2>2. \A k \in 0 .. n : acc[k] \in Inv[k]
    BY <1>1, <1>2, <1>7, <2>1, LoopKeeps
  <2> QED
    BY <1>1, <2>2
<1>9. n \in 0 .. n
  BY <1>1
<1>10. AlignedAfter(list, cs, n, acc[n]) /\ acc[n].ok
  <2>1. acc[n] \in {x \in [nodes : Remaining(U, DOMAIN list), ok : BOOLEAN] : AlignedAfter(list, cs, n, x)}
    BY <1>8, <1>9
  <2>2. acc[Len(cs)].ok
    BY DEF acc
  <2> QED
    BY <2>1, <2>2
<1>11. DOMAIN cs = 1 .. n
  BY LenProperties DEF AreAsked
<1>12. PICK nodes : nodes = acc[n].nodes
  OBVIOUS
<1> HIDE DEF Inv, step, n
<1>13. PICK h \in [1 .. n -> DOMAIN list] : \A d \in DOMAIN list : LeftBy(list, cs, n, h, nodes, d)
  BY <1>10, <1>12 DEF AlignedAfter
<1>14. ASSUME NEW d \in DOMAIN list PROVE Holds(list, cs, h, d)
  <2>1. LeftBy(list, cs, n, h, nodes, d)
    BY <1>13
  <2>2. ASSUME NEW r \in DOMAIN list[d].res
        PROVE  SumOver([c \in DOMAIN cs |-> IF h[c] = d THEN Quantity(cs[c], r) ELSE 0], DOMAIN cs)
                 <= list[d].res[r]
    <3>1. PICK p : p = PutOn(cs, h, d, r, n)
      OBVIOUS
    <3>2. p = [c \in DOMAIN cs |-> IF h[c] = d THEN Quantity(cs[c], r) ELSE 0]
      BY <1>11, <3>1 DEF PutOn
    <3>3. p \in [1 .. n -> Nat]
      <4>1. \A c \in DOMAIN cs : Quantity(cs[c], r) \in Nat
        <5>1. \A c \in DOMAIN cs : cs[c] \in [DOMAIN cs[c] -> Nat]
          BY DEF AreAsked, IsAsked
        <5> QED
          BY <5>1, QuantityType
      <4> QED
        BY <1>11, <3>2, <4>1
    <3>4. SumOver(p, 1 .. n) \in Nat
      <4>1. IsFiniteSet(1 .. n) /\ 1 .. n \in SUBSET (1 .. n)
        BY <1>1, FS_Interval
      <4> QED
        BY <3>3, <4>1, UnitsFinite
    <3>5. PICK room \in Nat : room = list[d].res[r]
      BY DEF IsNodeList, IsRoom
    <3>6. nodes[d].res[r] = room - SumOver(p, 1 .. n) /\ nodes[d].res[r] >= 0
      BY <2>1, <3>1, <3>5 DEF LeftBy
    <3>7. SumOver(p, 1 .. n) <= room
      BY <3>4, <3>6
    <3> QED
      BY <1>11, <3>2, <3>5, <3>7
  <2>3. \A c \in DOMAIN cs, r \in Native :
          h[c] = d /\ Quantity(cs[c], r) > 0 => r \in DOMAIN list[d].res
    BY <1>11, <2>1 DEF LeftBy
  <2> QED
    BY <2>2, <2>3 DEF Holds
<1> QED
  BY <1>11, <1>13, <1>14

LEMMA BothAsked ==
  ASSUME NEW a, a \in Seq(ToSet(a)), NEW b, b \in Seq(ToSet(b)),
         \A k \in DOMAIN (a \o b) : IsAsked((a \o b)[k])
  PROVE  /\ AreAsked(a) /\ AreAsked(b)
         /\ Len(a \o b) \in Nat /\ DOMAIN (a \o b) = 1 .. Len(a \o b) /\ Len(a \o b) >= Len(b)
<1>1. PICK S : S = ToSet(a) \cup ToSet(b)
  OBVIOUS
<1>2. a \in Seq(S) /\ b \in Seq(S)
  <2>1. ToSet(a) \subseteq S /\ ToSet(b) \subseteq S
    BY <1>1
  <2> QED
    BY <2>1, SeqWidened
<1>3. PICK m \in Nat : m = Len(a) /\ DOMAIN a = 1 .. m
  BY LenProperties
<1>4. PICK n \in Nat : n = Len(b) /\ DOMAIN b = 1 .. n
  BY LenProperties
<1>5. PICK s : s = a \o b
  OBVIOUS
<1>6. /\ s \in Seq(S) /\ Len(s) = m + n
      /\ \A k \in 1 .. m + n : s[k] = IF k <= m THEN a[k] ELSE b[k - m]
  BY <1>2, <1>3, <1>4, <1>5, ConcatProperties
<1>7. DOMAIN s = 1 .. m + n
  BY <1>6, LenProperties
<1>8. \A k \in 1 .. m + n : IsAsked(s[k])
  BY <1>5, <1>7
<1>9. \A k \in 1 .. m : k \in 1 .. m + n /\ s[k] = a[k]
  BY <1>6
<1>10. \A k \in 1 .. n : k + m \in 1 .. m + n /\ s[k + m] = b[k]
  <2> TAKE k \in 1 .. n
  <2>1. k + m \in 1 .. m + n /\ ~(k + m <= m) /\ (k + m) - m = k
    OBVIOUS
  <2> QED
    BY <1>6, <2>1
<1>11. AreAsked(a)
  BY <1>3, <1>8, <1>9 DEF AreAsked
<1>12. AreAsked(b)
  BY <1>4, <1>8, <1>10 DEF AreAsked
<1> QED
  BY <1>3, <1>4, <1>5, <1>6, <1>7, <1>11, <1>12

(* A guaranteed pod, as TopologyAssumption has it.                         *)
IsGuaranteedPod(pod) ==
  /\ pod.inits \in Seq(ToSet(pod.inits)) /\ pod.containers \in Seq(ToSet(pod.containers))
  /\ pod.containers # << >> /\ pod.qos = "Guaranteed"
  /\ \A k \in DOMAIN (pod.inits \o pod.containers) : IsAsked((pod.inits \o pod.containers)[k])

LEMMA PodAsked ==
  ASSUME NEW pod, IsGuaranteedPod(pod)
  PROVE  AreAsked(pod.inits) /\ AreAsked(pod.containers)
<1>1. PICK a : a = pod.inits
  OBVIOUS
<1>2. PICK b : b = pod.containers
  OBVIOUS
<1>3. a \in Seq(ToSet(a)) /\ b \in Seq(ToSet(b)) /\ \A k \in DOMAIN (a \o b) : IsAsked((a \o b)[k])
  BY <1>1, <1>2 DEF IsGuaranteedPod
<1> QED
  BY <1>1, <1>2, <1>3, BothAsked

(* A pod that Filter lets through can be aligned.                          *)
LEMMA FilterAligns ==
  ASSUME MaxNUMA \in Nat, NEW pod, IsGuaranteedPod(pod), NEW topology, topology.found,
         AreZones(topology.zones), NEW allocatable,
         TopologyFilter(pod, topology, allocatable),
         ToSet(topology.policies) \cap {"pod", "container"} # {},
         NEW nodes, nodes = createNUMANodeList(topology.zones)
  PROVE  \E f \in [DOMAIN pod.containers -> DOMAIN nodes] :
           \A n \in DOMAIN nodes : Holds(nodes, pod.containers, f, n)
<1>1. IsNodeList(nodes)
  BY NodesListed
<1>2. AreAsked(pod.inits) /\ AreAsked(pod.containers)
  BY PodAsked
<1>3. pod.containers # << >> /\ pod.qos = "Guaranteed" /\ pod.qos # "BestEffort"
  BY DEF IsGuaranteedPod
<1>4. PICK k \in DOMAIN topology.policies : topology.policies[k] \in {"pod", "container"}
  BY DEF ToSet
<1>5. /\ topology.policies[k] = "pod" => singleNUMAPodLevelHandler(pod, topology.zones, allocatable)
      /\ topology.policies[k] = "container" => singleNUMAContainerLevelHandler(pod, topology.zones, allocatable)
  BY <1>3 DEF TopologyFilter
<1>6. CASE topology.policies[k] = "pod"
  <2>1. singleNUMAPodLevelHandler(pod, topology.zones, allocatable)
    BY <1>5, <1>6
  <2>2. resourcesAvailableInAnyNUMANodes(nodes, GetPodEffectiveRequest(pod), "Guaranteed", allocatable)
          # NoNUMA
    BY <1>3, <2>1, Zenon DEF singleNUMAPodLevelHandler
  <2> QED
    BY <1>1, <1>2, <1>3, <2>2, PodAligned
<1>7. CASE topology.policies[k] = "container"
  <2>1. singleNUMAContainerLevelHandler(pod, topology.zones, allocatable)
    BY <1>5, <1>7
  <2>2. PICK cs : cs = pod.containers
    OBVIOUS
  <2>3. AlignLoop(nodes, cs, "Guaranteed", allocatable)[Len(cs)].ok
    BY <1>3, <2>1, <2>2, Zenon DEF singleNUMAContainerLevelHandler
  <2>4. AreAsked(cs)
    BY <1>2, <2>2
  <2>5. \E f \in [DOMAIN cs -> DOMAIN nodes] : \A n \in DOMAIN nodes : Holds(nodes, cs, f, n)
    BY <1>1, <2>3, <2>4, ContainersAligned
  <2> QED
    BY <2>2, <2>5
<1> QED
  BY <1>4, <1>6, <1>7

LEMMA ContainersScored ==
  ASSUME MaxNUMA \in Nat, NEW pod, IsGuaranteedPod(pod), NEW zones, AreZones(zones), NEW name,
         NEW weights, weights \in [DOMAIN weights -> Int]
  PROVE  containerScopeScore(pod, zones, name, weights) \in 0 .. 100
<1>1. PICK nodes : nodes = createNUMANodeList(zones) /\ IsNodeList(nodes)
  BY NodesListed
<1>2. PICK a : a = pod.inits
  OBVIOUS
<1>3. PICK b : b = pod.containers
  OBVIOUS
<1>4. PICK cs : cs = a \o b
  OBVIOUS
<1>5. /\ a \in Seq(ToSet(a)) /\ b \in Seq(ToSet(b)) /\ b # << >>
      /\ \A k \in DOMAIN (a \o b) : IsAsked((a \o b)[k])
  BY <1>2, <1>3 DEF IsGuaranteedPod
<1>6. Len(cs) \in Nat /\ DOMAIN cs = 1 .. Len(cs) /\ Len(cs) >= Len(b)
  BY <1>4, <1>5, BothAsked
<1>7. PICK m \in Nat \ {0} : m = Len(cs) /\ DOMAIN cs = 1 .. m
  <2>1. Len(b) \in Nat \ {0}
    BY <1>5, LenProperties, EmptySeq
  <2> QED
    BY <1>6, <2>1
<1>8. \A k \in 1 .. m : IsRequest(cs[k])
  BY <1>4, <1>5, <1>7, AskedIsRequest
<1> DEFINE scores == [k \in DOMAIN cs |-> scoreForEachNUMANode(cs[k], nodes, name, weights)]
<1>9. \A k \in 1 .. m : scores[k] \in 0 .. 100
  BY <1>1, <1>7, <1>8, NodesScored
<1>10. containerScopeScore(pod, zones, name, weights) = SumOver(scores, DOMAIN cs) \div Len(cs)
  BY <1>1, <1>2, <1>3, <1>4, Zenon DEF containerScopeScore
<1>11. scores \in [1 .. m -> Nat] /\ \A k \in 1 .. m : scores[k] <= 100
  <2>1. scores = [k \in 1 .. m |-> scores[k]]
    BY <1>7
  <2>2. \A v \in 0 .. 100 : v \in Nat /\ v <= 100
    OBVIOUS
  <2> HIDE DEF scores
  <2>3. \A k \in 1 .. m : scores[k] \in Nat /\ scores[k] <= 100
    BY <1>9, <2>2
  <2> QED
    BY <2>1, <2>3
<1> HIDE DEF scores
<1>12. PICK X : X = 1 .. m /\ IsFiniteSet(X) /\ Cardinality(X) = m /\ X \in SUBSET X
  BY FS_Interval
<1>13. PICK c \in Nat : c = 100
  OBVIOUS
<1>14. scores \in [X -> Nat] /\ \A k \in X : scores[k] <= c
  BY <1>11, <1>12, <1>13
<1>15. PICK sum \in Nat : sum = SumOver(scores, X)
  BY <1>12, <1>14, UnitsFinite
<1>16. sum <= Cardinality(X) * c
  BY <1>12, <1>14, <1>15, SumOverBounded
<1>17. sum <= 100 * m
  BY <1>12, <1>13, <1>16
<1>18. sum \div m \in 0 .. 100
  BY <1>17, PartOfWhole
<1> QED
  BY <1>7, <1>10, <1>12, <1>15, <1>18

(* The score of a node for a guaranteed pod.                               *)
LEMMA TopologyScored ==
  ASSUME MaxNUMA \in Nat, NEW pod, IsGuaranteedPod(pod), NEW topology, topology.found,
         AreZones(topology.zones), NEW name,
         NEW weights, weights \in [DOMAIN weights -> Int],
         IdsInRange(createNUMANodeList(topology.zones))
  PROVE  TopologyScore(pod, topology, name, weights) \in 0 .. 100
<1>1. PICK zones : zones = topology.zones /\ AreZones(zones)
  OBVIOUS
<1>2. containerScopeScore(pod, zones, name, weights) \in 0 .. 100
  BY <1>1, ContainersScored
<1>3. podScopeScore(pod, zones, name, weights) \in 0 .. 100
  <2>1. PICK nodes : nodes = createNUMANodeList(zones) /\ IsNodeList(nodes)
    BY <1>1, NodesListed
  <2>2. PICK eff : eff = GetPodEffectiveRequest(pod)
    OBVIOUS
  <2>3. IsRequest(eff)
    <3>1. AreAsked(pod.inits) /\ AreAsked(pod.containers) /\ pod.containers # << >>
      BY PodAsked DEF IsGuaranteedPod
    <3> QED
      BY <2>2, <3>1, EffectiveRequest
  <2>4. scoreForEachNUMANode(eff, nodes, name, weights) \in 0 .. 100
    BY <2>1, <2>3, NodesScored
  <2> QED
    BY <2>1, <2>2, <2>4 DEF podScopeScore
<1>4. PICK Scores : Scores = 0 .. 100
  OBVIOUS
<1>5. PICK zero \in Scores : zero = 0
  BY <1>4
<1>6. /\ containerScopeScore(pod, zones, name, weights) \in Scores
      /\ podScopeScore(pod, zones, name, weights) \in Scores
      /\ 0 \in Scores
  BY <1>2, <1>3, <1>4, <1>5
<1>7. pod.qos = "Guaranteed"
  BY DEF IsGuaranteedPod
<1>8. TopologyScore(pod, topology, name, weights) \in Scores
  BY <1>1, <1>6, <1>7, Zenon DEF TopologyScore
<1> QED
  BY <1>4, <1>8

(* MatchTopology: if Filter lets a guaranteed pod through under one of the *)
(* two policies, every container can have a NUMA node of its own choice so *)
(* that no NUMA node is asked for more than it has; and the score is a     *)
(* node score, unless the NUMA ids have a gap.                             *)
THEOREM NumaIsSound == Spec => []NumaSound
<1>1. Init => NumaSound
  BY DEF Init, NoCall, NumaSound
<1>2. NumaSound /\ [Next]_call => NumaSound'
  <2> SUFFICES ASSUME NumaSound, [Next]_call, call'.op = "topology",
                      call'.in.topology.found, call'.in.pod.qos = "Guaranteed"
               PROVE  NumaSound'
    BY DEF NumaSound
  <2>1. CASE UNCHANGED call
    BY <2>1, Zenon DEF NumaSound
  <2>2. CASE MatchTopology
    <3>1. PICK in \in TopologyInputs :
            call' = [op |-> "topology", in |-> in,
                     out |-> [filter |-> TopologyFilter(in.pod, in.topology, in.allocatable),
                              score |-> TopologyScore(in.pod, in.topology, in.strategy, in.weights)]]
      BY <2>2 DEF MatchTopology, Called
    <3>2. /\ call'.in = in
          /\ call'.out.filter = TopologyFilter(in.pod, in.topology, in.allocatable)
          /\ call'.out.score = TopologyScore(in.pod, in.topology, in.strategy, in.weights)
      BY <3>1
    <3>3. PICK pod : pod = in.pod
      OBVIOUS
    <3>4. PICK topology : topology = in.topology
      OBVIOUS
    <3>5. IsGuaranteedPod(pod)
      <4>1. pod.qos = "Guaranteed"
        BY <3>2, <3>3
      <4>2. PICK cs : cs = pod.inits \o pod.containers
        OBVIOUS
      <4>3. /\ \A k \in DOMAIN cs : IsFiniteSet(DOMAIN cs[k]) /\ cs[k] \in [DOMAIN cs[k] -> Nat]
            /\ \A k \in DOMAIN cs : \E q, r \in DOMAIN cs[k] \cap Native : q # r /\ cs[k][q] > 0 /\ cs[k][r] > 0
        BY <3>3, <4>1, <4>2, TopologyAssumption
      <4>4. \A k \in DOMAIN cs : IsAsked(cs[k])
        BY <4>3 DEF IsAsked
      <4>5. /\ pod.inits \in Seq(ToSet(pod.inits)) /\ pod.containers \in Seq(ToSet(pod.containers))
            /\ pod.containers # << >>
        BY <3>3, TopologyAssumption
      <4> QED
        BY <4>1, <4>2, <4>4, <4>5 DEF IsGuaranteedPod
    <3>6. AreZones(topology.zones)
      <4>1. in.topology.zones \in Seq(ToSet(in.topology.zones))
        BY TopologyAssumption
      <4>2. \A k \in DOMAIN in.topology.zones :
              in.topology.zones[k].res \in [DOMAIN in.topology.zones[k].res -> Nat]
        BY TopologyAssumption
      <4>3. \A j, k \in {k \in DOMAIN in.topology.zones : IsNUMANode(in.topology.zones[k])} :
              in.topology.zones[j].id = in.topology.zones[k].id => j = k
        BY TopologyAssumption, Zenon
      <4> QED
        BY <3>4, <4>1, <4>2, <4>3, Zenon DEF AreZones, IsRoom
    <3>7. PICK weights : weights = in.weights /\ weights \in [DOMAIN weights -> Int]
      BY TopologyAssumption
    <3>8. MaxNUMA \in Nat
      BY TopologyAssumption
    <3>9. topology.found
      BY <3>2, <3>4
    <3>10. PICK nodes : nodes = createNUMANodeList(topology.zones)
      OBVIOUS
    <3>11. ASSUME TopologyFilter(pod, topology, in.allocatable),
                  ToSet(topology.policies) \cap {"pod", "container"} # {}
           PROVE  \E f \in [DOMAIN pod.containers -> DOMAIN nodes] :
                    \A n \in DOMAIN nodes : Holds(nodes, pod.containers, f, n)
      BY <3>5, <3>6, <3>8, <3>9, <3>10, <3>11, FilterAligns
    <3>12. IdsInRange(nodes) => TopologyScore(pod, topology, in.strategy, weights) \in 0 .. 100
      BY <3>5, <3>6, <3>7, <3>8, <3>9, <3>10, TopologyScored
    <3> QED
      BY <3>2, <3>3, <3>4, <3>7, <3>10, <3>11, <3>12, Zenon DEF NumaSound
  <2> QED
    BY <2>1, <2>2, Returns DEF OnlyBy
<1> QED
  BY <1>1, <1>2, PTL DEF Spec

=============================================================================
