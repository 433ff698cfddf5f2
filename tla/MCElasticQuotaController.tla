---------------------- MODULE MCElasticQuotaController ----------------------
(* Two pods with different requests, for model-checking.                   *)
EXTENDS ElasticQuotaController, TLC

CONSTANTS p1, p2

MCContainers == (p1 :> <<[cpu |-> 1], [cpu |-> 1, gpu |-> 1]>>) @@ (p2 :> <<[mem |-> 1]>>)
MCInits == (p1 :> <<[cpu |-> 1], [gpu |-> 2]>>) @@ (p2 :> << >>)
NoOverhead == [p \in Pods |-> Empty]
=============================================================================
