--------------------------- MODULE MCCoscheduling ---------------------------
(* Small instances of Coscheduling.                                        *)
EXTENDS Coscheduling

(* Pods named by their group: a1, a2, ... are of group a.                  *)
GroupOf ==
  [p \in Pods |-> CASE p \in {"a1", "a2", "a3"} -> "a"
                    [] p \in {"b1", "b2"} -> "b"
                    [] OTHER -> NoGroup]

PairOf == [g \in Groups |-> 2]
TripleOf == [g \in Groups |-> 3]
=============================================================================
