---------------------------- MODULE MCDecisions ----------------------------
(***************************************************************************)
(* Inputs for the decisions: nodes with up to three pods, GPUs or zones,   *)
(* and values on both sides of every comparison that the code makes.       *)
(***************************************************************************)
EXTENDS Decisions

Vec(cpu, gpu) == [r \in Res |-> IF r = "cpu" THEN cpu ELSE gpu]

(* A pod; one that was scheduled at time 1 is being deleted.               *)
Pod(uid, ns, prio, size, class, scheduled) ==
  [uid |-> uid, ns |-> ns, prio |-> prio, start |-> uid, never |-> FALSE, deleting |-> scheduled = 1,
   containers |-> <<size>>, inits |-> << >>, overhead |-> Zero,
   class |-> class, scheduled |-> scheduled]

(* Three pods on the node, of the kinds that a set of tuples lists.        *)
Triples(kinds) ==
  {[k \in 1 .. 3 |-> Pod(k, f[k][1], f[k][2], f[k][3], f[k][4], f[k][5])] : f \in [1 .. 3 -> kinds]}

Budget(allowed) == [ns |-> "b", selects |-> {1, 2}, disrupted |-> {}, allowed |-> allowed]

Small == Vec(1, 0)
Big == Vec(2, 1)

QuotaKinds ==
  {<<"a", 0, Small, None, None>>, <<"a", 0, Big, None, None>>, <<"a", 2, Small, None, None>>,
   <<"b", 0, Small, None, None>>, <<"b", 2, Big, None, None>>, <<"b", 0, Big, None, None>>,
   <<"c", 0, Small, None, None>>}

Limits(minCpu, minGpu, maxCpu, maxGpu) ==
  [min |-> Vec(minCpu, minGpu), max |-> Vec(maxCpu, maxGpu)]

MCQuotaInputs ==
  [pods : Triples(QuotaKinds),
   pod : {Pod(9, ns, 1, size, None, None) : ns \in {"a", "c"}, size \in {Small, Big}},
   quotas : {[a |-> Limits(2, 1, 4, 2), b |-> Limits(2, 1, 4, 2)],
             [a |-> Limits(3, 2, 3, 2), b |-> Limits(1, 0, 3, 1)],
             [a |-> Limits(1, 0, 2, 2), b |-> Limits(3, 1, 4, 2)]},
   pdbs : {<< >>, <<Budget(1)>>},
   nominated : {{}, {Pod(8, "a", 1, Small, None, None)}},
   capacity : {Vec(4, 2)}]

TolerationKinds ==
  {<<"b", 0, Small, None, 0>>, <<"b", 1, Small, None, 0>>, <<"b", 0, Small, "k", 0>>,
   <<"b", 0, Big, "k", 3>>, <<"b", 1, Big, "k", 0>>, <<"b", 0, Small, "k", None>>,
   <<"b", 0, Small, "gone", 0>>, <<"b", 0, Big, None, 1>>}

MCTolerationInputs ==
  [pods : Triples(TolerationKinds),
   pod : {Pod(9, "a", prio, Big, None, None) : prio \in 1 .. 2}
           \cup {[Pod(9, "a", 1, Small, None, None) EXCEPT !.never = TRUE]},
   classes : {[k |-> class] : class \in
                [value : {0}, minimum : {None, 1, 2, Bad}, seconds : {None, -1, 3, 9, 19, Bad}]},
   now : {4},
   isNominated : BOOLEAN,
   pdbs : {<<Budget(0)>>},
   nominated : {{}},
   capacity : {Vec(3, 1), Vec(4, 2)}]

UpTo(n, S) == UNION {[1 .. k -> S] : k \in 1 .. n}

MCGPUInputs ==
  {in \in [gpus : UpTo(3, [monopoly : BOOLEAN, used : 0 .. 3]), each : 1 .. 3, limit : 1 .. 3] :
     \A k \in DOMAIN in.gpus : in.gpus[k].used <= in.each}

MCPodStateInputs == [nodes : UpTo(3, [terminating : 0 .. 2, nominated : 0 .. 2]),
                     mode : {""}, weights : {<< >>}, default : {<< >>}]

MCAllocatableInputs ==
  [nodes : UpTo(3, [{"cpu", "memory"} -> 0 .. 2] \cup {[cpu |-> 5]}),
   mode : {"", "Least", "Most"},
   weights : {<< >>, [cpu |-> 1], [cpu |-> 1, memory |-> 3]},
   default : {[cpu |-> 4, memory |-> 1]}]

Metrics == [type : {"cpu", "memory"}, operator : {"Average", "Std", "Latest", ""}, value : {3, 10}]

MCRiskInputs ==
  [metrics : {<< >>} \cup UpTo(2, Metrics) \cup [1 .. 3 -> {m \in Metrics : m.type = "cpu"}],
   pod : [containers : {<<[cpu |-> 2, memory |-> 1]>>},
          inits : {<< >>, <<[cpu |-> 3, memory |-> 1]>>},
          overhead : {[cpu |-> 0, memory |-> 1]}],
   allocatable : {[cpu |-> 4, memory |-> 4], [cpu |-> 0, memory |-> 4]},
   margin : {1, 3},
   sensitivity : {"one", "half", "zero", "negative"}]

Zone(type, id, res) == [type |-> type, id |-> id, res |-> res]

ZoneRes ==
  {[cpu |-> 1, mem |-> 1], [cpu |-> 2, mem |-> 1], [cpu |-> 2, mem |-> 2, dev |-> 1],
   [cpu |-> 1, mem |-> 2, dev |-> 1]}

Full == [cpu |-> 2, mem |-> 2, dev |-> 1]

MCZones ==
  {<<Zone("Node", 0, x), Zone("Node", 1, y)>> : x, y \in ZoneRes}
    \cup {<<Zone("Core", 0, Full), Zone("Node", 0, [cpu |-> 1, mem |-> 2])>>,
          <<Zone("Node", BadName, Full), Zone("Node", 0, [cpu |-> 2, mem |-> 2])>>,
          <<Zone("Node", 0, Full), Zone("Node", 2, Full)>>}

MCContainers(qos) ==
  UpTo(2, {[cpu |-> 1, mem |-> 1], [cpu |-> 2, mem |-> 1], [cpu |-> 1, mem |-> 1, dev |-> 1]}
            \cup IF qos = "Burstable" THEN {[cpu |-> 0, mem |-> 3]} ELSE {})

MCTopologyInputs ==
  [pod : UNION {[qos : {qos}, containers : MCContainers(qos),
                 inits : {<< >>, <<[cpu |-> 2, mem |-> 1]>>}] : qos \in {"Guaranteed", "Burstable"}},
   topology : [found : {TRUE}, zones : MCZones,
               policies : {<<"container">>, <<"pod">>, <<"other", "container">>}]
                \cup [found : {FALSE}, zones : {<< >>}, policies : {<< >>}],
   allocatable : {{"cpu", "mem"}, {"cpu", "mem", "dev"}},
   strategy : {"Least", "Most", "Balanced"},
   weights : {[cpu |-> 2, mem |-> 0]}]

(* Pods that differ in the class, and pods that differ in group and time.  *)
MCQueueInputs ==
  [pods : {[k \in 1 .. 3 |-> [name |-> k, prio |-> f[k][1], qos |-> f[k][2],
                              group |-> f[k][3], attempt |-> f[k][4]]] :
             f \in [1 .. 3 ->
                     (0 .. 1) \X {"Burstable", "BestEffort"} \X {"none"} \X {1}
                     \cup (0 .. 1) \X {"Guaranteed"} \X {"g", "h", "none"} \X (1 .. 2)]},
   created : {[g |-> 1], [g |-> 2], [g |-> 1, h |-> 1], [g |-> 2, h |-> 1]}]

(* Arguments, with the values that the functions tell apart.               *)
Some(values) == {Nil} \cup {Ref(v) : v \in values}

SomeResources == {<< >>, <<[name |-> "gpu", weight |-> 0]>>, <<[name |-> "gpu", weight |-> 2]>>}

SomeProviders ==
  [type : {"", "KubernetesMetricsServer", "Prometheus", "Other"}, address : Some({"a"}),
   token : Some({"t"}), insecure : Some(BOOLEAN)]

MCArgsInputs ==
  [kind : {"Coscheduling"}, permit : Some({0, 5}), denied : Some({0, 5})]
    \cup [kind : {"Allocatable"}, resources : SomeResources, mode : {"", "Least", "Most", "Other"}]
    \cup [kind : {"TargetLoadPacking"}, requests : Some({"r"}), multiplier : Some({"2", "x"}),
          target : Some({-1, 0, 70, 120}), provider : SomeProviders, watcher : Some({"", "w"})]
    \cup [kind : {"LoadVariation"}, provider : SomeProviders, watcher : Some({"", "w"}),
          margin : Some({-1, 0, 3}), sensitivity : Some({-1, 0, 3})]
    \cup [kind : {"Topology"},
          strategy : Some([type : {"", "MostAllocated", "LeastAllocated", "BalancedAllocation"},
                           resources : SomeResources])]
    \cup [kind : {"Toleration"}, percentage : Some({-1, 0, 50, 101}), absolute : Some({-1, 0, 5})]

MCNodeCounts == {1, 3, 30}
=============================================================================
