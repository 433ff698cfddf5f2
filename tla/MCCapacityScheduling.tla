------------------------ MODULE MCCapacityScheduling ------------------------
(* Two namespaces with one and two pods, for model-checking.               *)
EXTENDS CapacityScheduling

CONSTANTS a1, a2, b1

Vec(n) == [r \in Res |-> n]

(* A pod of a uses one unit, b1 both units of the node: a1 has an init     *)
(* container that needs more than its containers, b1 an overhead.          *)
Pod(p, ns, prio, containers, inits, overhead) ==
  [uid |-> p, ns |-> ns, prio |-> prio, start |-> 0, never |-> FALSE, deleting |-> FALSE,
   containers |-> containers, inits |-> inits, overhead |-> overhead]

MCObj == [p \in Pods |->
  CASE p = a1 -> Pod(a1, "a", 0, <<Vec(0), Vec(0)>>, <<Vec(1)>>, Vec(0))
    [] p = a2 -> Pod(a2, "a", 1, <<Vec(1)>>, << >>, Vec(0))
    [] p = b1 -> Pod(b1, "b", 0, <<Vec(1)>>, << >>, Vec(1))]

LimitsOf(min, max) == [min |-> Vec(min), max |-> Vec(max)]

(* One pod of a may run with what b does not use, or both and one of them  *)
(* in the min of a.                                                        *)
MCSpecs == [ns \in Namespaces |-> IF ns = "a" THEN {LimitsOf(0, 1), LimitsOf(1, 2)}
                                  ELSE {LimitsOf(2, 2)}]

(* At the start a has no quota or one that only lets it borrow.            *)
MCInitial == {[ns \in {"b"} |-> LimitsOf(2, 2)],
              [ns \in Namespaces |-> IF ns = "a" THEN LimitsOf(0, 1) ELSE LimitsOf(2, 2)]}
MCCapacity == Vec(2)
=============================================================================
