---------------------------- MODULE MCTrimaran ----------------------------
EXTENDS Trimaran

CONSTANTS p1, p2, n1, n2

(* p1 has a limit beside an overhead, p2 a request and a container without *)
(* either; n1 has room for one of them and n2 for both.                    *)
MCContainers ==
  (p1 :> <<[limit |-> 3, request |-> 1]>>) @@
  (p2 :> <<[limit |-> None, request |-> 2], [limit |-> None, request |-> None]>>)
MCOverhead == (p1 :> 1) @@ (p2 :> 0)
MCCapacity == (n1 :> 6) @@ (n2 :> 10)
=============================================================================
