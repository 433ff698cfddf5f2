-------------------------------- MODULE Sums --------------------------------
(***************************************************************************)
(* The sum of the natural numbers f[x] over the elements x of a finite     *)
(* set, as the number of <<element, unit>> pairs: the same number, in a    *)
(* form about which the cardinality facts of FiniteSetTheorems say enough  *)
(* to prove what the sums of limits and of requests are needed for.        *)
(***************************************************************************)
EXTENDS Integers, FiniteSets

Units(f, S) == UNION {{x} \X (1 .. f[x]) : x \in S}

SumOver(f, S) == Cardinality(Units(f, S))
=============================================================================
