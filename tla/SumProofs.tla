----------------------------- MODULE SumProofs -----------------------------
(* Facts about the sums of module Sums.                                    *)
EXTENDS Sums, FiniteSetTheorems, TLAPS

(* A sum is a natural number: the units of finitely many elements are      *)
(* finitely many.                                                          *)
LEMMA UnitsFinite ==
  ASSUME NEW X, IsFiniteSet(X), NEW f \in [X -> Nat], NEW S \in SUBSET X
  PROVE  /\ IsFiniteSet(Units(f, S))
         /\ SumOver(f, S) \in Nat
<1> DEFINE T == {{x} \X (1 .. f[x]) : x \in S}
           g == [x \in S |-> {x} \X (1 .. f[x])]
<1>1. IsFiniteSet(S)
  BY FS_Subset
<1>2. g \in Surjection(S, T)
  BY DEF Surjection
<1>3. IsFiniteSet(T)
  BY <1>1, <1>2, FS_Surjection
<1>4. \A x \in S : IsFiniteSet({x} \X (1 .. f[x]))
  <2> TAKE x \in S
  <2>1. f[x] \in Int
    OBVIOUS
  <2>2. IsFiniteSet(1 .. f[x])
    BY <2>1, FS_Interval
  <2> QED
    BY <2>2, FS_Singleton, FS_Product
<1>5. IsFiniteSet(UNION T)
  BY <1>3, <1>4, FS_UNION
<1> QED
  BY <1>5, FS_CardinalityType DEF Units, SumOver

(* Nothing adds up to zero.                                                *)
LEMMA SumOverEmpty ==
  ASSUME NEW f
  PROVE  SumOver(f, {}) = 0
<1>1. Units(f, {}) = {}
  BY DEF Units
<1> QED
  BY <1>1, FS_EmptySet DEF SumOver

(* Fewer elements have a smaller sum.                                      *)
LEMMA SumOverMonotone ==
  ASSUME NEW X, IsFiniteSet(X), NEW f \in [X -> Nat],
         NEW S \in SUBSET X, NEW T \in SUBSET S
  PROVE  SumOver(f, T) <= SumOver(f, S)
<1>1. Units(f, T) \subseteq Units(f, S)
  BY DEF Units
<1> QED
  BY <1>1, UnitsFinite, FS_Subset DEF SumOver

(* The sum over a single element is its number.                            *)
LEMMA SumOverSingle ==
  ASSUME NEW X, NEW f \in [X -> Nat], NEW x \in X
  PROVE  SumOver(f, {x}) = f[x]
<1>1. Units(f, {x}) = {x} \X (1 .. f[x])
  BY DEF Units
<1>2. f[x] \in Nat
  OBVIOUS
<1>3. IsFiniteSet(1 .. f[x]) /\ Cardinality(1 .. f[x]) = f[x]
  BY <1>2, FS_Interval
<1>4. IsFiniteSet({x}) /\ Cardinality({x}) = 1
  BY FS_Singleton
<1>5. Cardinality({x} \X (1 .. f[x])) = 1 * f[x]
  BY <1>3, <1>4, FS_Product
<1>6. 1 * f[x] = f[x]
  BY <1>2
<1> QED
  BY <1>1, <1>5, <1>6, Zenon DEF SumOver

(* One more element adds its number.                                       *)
LEMMA SumOverNew ==
  ASSUME NEW X, IsFiniteSet(X), NEW f \in [X -> Nat],
         NEW S \in SUBSET X, NEW x \in X, x \notin S
  PROVE  SumOver(f, S \cup {x}) = SumOver(f, S) + f[x]
<1> DEFINE A == Units(f, S)
           B == Units(f, {x})
<1>1. Units(f, S \cup {x}) = A \cup B
  BY DEF Units
<1>2. A \cap B = {}
  BY DEF Units
<1>3. {x} \in SUBSET X
  OBVIOUS
<1>4. IsFiniteSet(A) /\ IsFiniteSet(B)
  BY <1>3, UnitsFinite
<1>5. Cardinality(A) \in Nat /\ Cardinality(B) = f[x] /\ f[x] \in Nat
  BY <1>4, SumOverSingle, FS_CardinalityType DEF SumOver
<1> HIDE DEF A, B
<1>6. Cardinality(A \cup B) = Cardinality(A) + Cardinality(B) - Cardinality({})
  BY <1>2, <1>4, FS_Union
<1>7. Cardinality(A \cup B) = Cardinality(A) + f[x]
  BY <1>5, <1>6, FS_EmptySet
<1> QED
  BY <1>1, <1>7 DEF SumOver, A

(* One more element adds at most its number.                               *)
LEMMA SumOverAdd ==
  ASSUME NEW X, IsFiniteSet(X), NEW f \in [X -> Nat],
         NEW S \in SUBSET X, NEW x \in X
  PROVE  SumOver(f, S \cup {x}) <= SumOver(f, S) + f[x]
<1>1. SumOver(f, S) \in Nat /\ f[x] \in Nat
  BY UnitsFinite
<1>2. CASE x \in S
  <2>1. S \cup {x} = S
    BY <1>2
  <2>2. SumOver(f, S \cup {x}) = SumOver(f, S)
    BY <2>1, Zenon
  <2> QED
    BY <1>1, <2>2
<1>3. CASE x \notin S
  BY <1>1, <1>3, SumOverNew
<1> QED
  BY <1>2, <1>3

(* Without one of its elements a sum is smaller by its number.             *)
LEMMA SumOverRemove ==
  ASSUME NEW X, IsFiniteSet(X), NEW f \in [X -> Nat],
         NEW S \in SUBSET X, NEW x \in S
  PROVE  SumOver(f, S \ {x}) = SumOver(f, S) - f[x]
<1>1. (S \ {x}) \cup {x} = S /\ S \ {x} \in SUBSET X /\ x \notin S \ {x} /\ x \in X
  OBVIOUS
<1>2. SumOver(f, (S \ {x}) \cup {x}) = SumOver(f, S \ {x}) + f[x]
  BY <1>1, SumOverNew
<1>3. SumOver(f, S \ {x}) \in Nat /\ f[x] \in Nat
  BY <1>1, UnitsFinite
<1>4. SumOver(f, S) = SumOver(f, S \ {x}) + f[x]
  BY <1>1, <1>2, Zenon
<1> QED
  BY <1>3, <1>4

(* Every element of a set counts with at least its number.                 *)
LEMMA SumOverMember ==
  ASSUME NEW X, IsFiniteSet(X), NEW f \in [X -> Nat],
         NEW S \in SUBSET X, NEW x \in S
  PROVE  f[x] <= SumOver(f, S)
<1>1. {x} \in SUBSET S /\ x \in X
  OBVIOUS
<1>2. SumOver(f, {x}) <= SumOver(f, S)
  BY <1>1, SumOverMonotone
<1>3. SumOver(f, {x}) = f[x]
  BY <1>1, SumOverSingle
<1> QED
  BY <1>2, <1>3

(* Elements with the number zero do not count.                             *)
LEMMA SumOverRestrict ==
  ASSUME NEW X, NEW f \in [X -> Nat], NEW S \in SUBSET X, NEW T,
         \A x \in S \ T : f[x] = 0
  PROVE  SumOver(f, S) = SumOver(f, S \cap T)
<1>1. \A x \in S \ T : {x} \X (1 .. f[x]) = {}
  OBVIOUS
<1>2. Units(f, S) = Units(f, S \cap T)
  BY <1>1 DEF Units
<1> QED
  BY <1>2 DEF SumOver

(* A sum depends only on the numbers of its elements.                      *)
LEMMA SumOverSame ==
  ASSUME NEW S, NEW f, NEW g, \A x \in S : f[x] = g[x]
  PROVE  SumOver(f, S) = SumOver(g, S)
<1>1. Units(f, S) = Units(g, S)
  BY DEF Units
<1> QED
  BY <1>1 DEF SumOver

(* Smaller numbers have a smaller sum.                                     *)
LEMMA SumOverLess ==
  ASSUME NEW X, IsFiniteSet(X), NEW f \in [X -> Nat], NEW g \in [X -> Nat],
         \A x \in X : f[x] <= g[x]
  PROVE  SumOver(f, X) <= SumOver(g, X)
<1>1. \A x \in X : 1 .. f[x] \subseteq 1 .. g[x]
  OBVIOUS
<1>2. Units(f, X) \subseteq Units(g, X)
  BY <1>1 DEF Units
<1>3. X \in SUBSET X
  OBVIOUS
<1>4. IsFiniteSet(Units(g, X))
  BY <1>3, UnitsFinite
<1> QED
  BY <1>2, <1>4, FS_Subset DEF SumOver

(* A number that grows by d makes the sum grow by d.                       *)
LEMMA SumOverGrow ==
  ASSUME NEW X, IsFiniteSet(X), NEW f \in [X -> Nat], NEW g \in [X -> Nat],
         NEW x \in X, NEW d \in Nat, g[x] = f[x] + d,
         \A y \in X \ {x} : g[y] = f[y]
  PROVE  SumOver(g, X) = SumOver(f, X) + d
<1>1. X \in SUBSET X /\ X \ {x} \in SUBSET X
  OBVIOUS
<1>2. SumOver(g, X \ {x}) = SumOver(f, X \ {x})
  BY SumOverSame
<1>3. /\ SumOver(g, X \ {x}) = SumOver(g, X) - g[x]
      /\ SumOver(f, X \ {x}) = SumOver(f, X) - f[x]
  BY <1>1, SumOverRemove
<1>4. /\ SumOver(g, X) \in Nat /\ SumOver(f, X) \in Nat
      /\ f[x] \in Nat /\ g[x] \in Nat
  BY <1>1, UnitsFinite
<1>5. SumOver(g, X) - g[x] = SumOver(f, X) - f[x]
  BY <1>2, <1>3, Zenon
<1> QED
  BY <1>4, <1>5

(* The sum over two sets together is at most the two sums.                 *)
LEMMA SumOverUnion ==
  ASSUME NEW X, IsFiniteSet(X), NEW f \in [X -> Nat],
         NEW S \in SUBSET X, NEW T \in SUBSET X
  PROVE  SumOver(f, S \cup T) <= SumOver(f, S) + SumOver(f, T)
<1> DEFINE A == Units(f, S)
           B == Units(f, T)
<1>1. Units(f, S \cup T) = A \cup B
  BY DEF Units
<1>2. IsFiniteSet(A) /\ IsFiniteSet(B)
  BY UnitsFinite
<1> HIDE DEF A, B
<1>3. Cardinality(A \cup B) = Cardinality(A) + Cardinality(B) - Cardinality(A \cap B)
  BY <1>2, FS_Union
<1>4. A \cap B \in SUBSET A
  OBVIOUS
<1>5. IsFiniteSet(A \cap B)
  BY <1>2, <1>4, FS_Subset
<1>6. Cardinality(A) \in Nat /\ Cardinality(B) \in Nat /\ Cardinality(A \cap B) \in Nat
  BY <1>2, <1>5, FS_CardinalityType
<1>7. Cardinality(A \cup B) <= Cardinality(A) + Cardinality(B)
  BY <1>3, <1>6
<1> QED
  BY <1>1, <1>7 DEF SumOver, A, B

(* A sum is at most another one in which every element has a place of its  *)
(* own with a number that is no smaller.                                   *)
LEMMA SumOverInject ==
  ASSUME NEW X, NEW f \in [X -> Nat], NEW S \in SUBSET X,
         NEW Y, IsFiniteSet(Y), NEW g \in [Y -> Nat], NEW T \in SUBSET Y,
         NEW h \in [S -> T], \A x, y \in S : h[x] = h[y] => x = y,
         \A x \in S : f[x] <= g[h[x]]
  PROVE  SumOver(f, S) <= SumOver(g, T)
<1> DEFINE A == Units(f, S)
           B == Units(g, T)
           j == [u \in A |-> <<h[u[1]], u[2]>>]
<1>1. \A u \in A : u[1] \in S /\ u[2] \in 1 .. f[u[1]] /\ u = <<u[1], u[2]>>
  BY DEF Units
<1>2. \A u \in A : j[u] \in B
  <2> TAKE u \in A
  <2>1. h[u[1]] \in T /\ u[2] \in 1 .. g[h[u[1]]]
    <3>1. u[1] \in S /\ u[2] \in 1 .. f[u[1]]
      BY <1>1
    <3>2. h[u[1]] \in T /\ f[u[1]] \in Nat /\ g[h[u[1]]] \in Nat /\ f[u[1]] <= g[h[u[1]]]
      BY <3>1
    <3> QED
      BY <3>1, <3>2
  <2>2. <<h[u[1]], u[2]>> \in {h[u[1]]} \X (1 .. g[h[u[1]]])
    BY <2>1
  <2>3. <<h[u[1]], u[2]>> \in B
    BY <2>1, <2>2 DEF Units
  <2> QED
    BY <2>3
<1>3. \A u, v \in A : j[u] = j[v] => u = v
  <2> SUFFICES ASSUME NEW u \in A, NEW v \in A, j[u] = j[v]
               PROVE  u = v
    OBVIOUS
  <2>1. h[u[1]] = h[v[1]] /\ u[2] = v[2]
    OBVIOUS
  <2>2. u[1] = v[1]
    BY <1>1, <2>1
  <2> QED
    BY <1>1, <2>1, <2>2
<1>4. IsFiniteSet(B)
  BY UnitsFinite
<1>5. j \in Injection(A, B)
  <2>1. j \in [A -> B]
    BY <1>2
  <2> HIDE DEF j, A, B
  <2> QED
    BY <1>3, <2>1 DEF Injection, IsInjective
<1> HIDE DEF j, A, B
<1>6. Cardinality(A) <= Cardinality(B)
  BY <1>4, <1>5, FS_Injection
<1> QED
  BY <1>6 DEF SumOver, A, B
=============================================================================
