----------------------------- MODULE ConfigArgs -----------------------------
(***************************************************************************)
(* The arguments of the plugins (apis/config): the external types of       *)
(* v1beta2 and v1beta3 with their defaults, the conversions to and from    *)
(* the internal types, and what the plugins accept.                        *)
(*                                                                         *)
(* A pointer is << >> (nil) or <<v>>.  Resources are sequences of records  *)
(* with a name and a weight.  The kind that a CASE leaves to OTHER is the  *)
(* one of PreemptionToleration.                                            *)
(***************************************************************************)
EXTENDS Integers, Sequences

Nil == << >>
Ref(v) == <<v>>

(* Convert_Pointer_T_To_T: nil becomes the zero value of T.                *)
Deref(p, zero) == IF p = Nil THEN zero ELSE p[1]

IfNil(p, v) == IF p = Nil THEN Ref(v) ELSE p
IfNegative(p, v) == IF p = Nil \/ p[1] < 0 THEN Ref(v) ELSE p
IfNotPositive(p, v) == IF p = Nil \/ p[1] <= 0 THEN Ref(v) ELSE p
IfBlank(s, v) == IF s = "" THEN v ELSE s
IfEmpty(s, v) == IF Len(s) = 0 THEN v ELSE s

----------------------------------------------------------------------------
(* The external types.  The requests of a pod are taken as one value; of   *)
(* the multipliers "x" is the one that is not a number.                    *)

Resources == Seq([name : STRING, weight : Int])
Pointers(values) == {Nil} \cup [1 .. 1 -> values]

CoschedulingArgs ==
  [kind : {"Coscheduling"}, permit : Pointers(Int), denied : Pointers(Int)]

NodeResourcesAllocatableArgs ==
  [kind : {"Allocatable"}, resources : Resources, mode : STRING]

MetricProviderSpec ==
  [type : STRING, address : Pointers(STRING), token : Pointers(STRING), insecure : Pointers(BOOLEAN)]

TargetLoadPackingArgs ==
  [kind : {"TargetLoadPacking"}, requests : Pointers(STRING),
   multiplier : Pointers({"1.5", "2", "x"}), target : Pointers(Int),
   provider : MetricProviderSpec, watcher : Pointers(STRING)]

LoadVariationRiskBalancingArgs ==
  [kind : {"LoadVariation"}, provider : MetricProviderSpec, watcher : Pointers(STRING),
   margin : Pointers(Int), sensitivity : Pointers(Int)]

ScoringStrategy == [type : STRING, resources : Resources]

NodeResourceTopologyMatchArgs == [kind : {"Topology"}, strategy : Pointers(ScoringStrategy)]

PreemptionTolerationArgs ==
  [kind : {"Toleration"}, percentage : Pointers(Int), absolute : Pointers(Int)]

----------------------------------------------------------------------------
(* Defaults.                                                               *)

SetDefaults_CoschedulingArgs(in) ==
  [in EXCEPT !.permit = IfNil(@, 60), !.denied = IfNil(@, 20)]

defaultNodeResourcesAllocatableResourcesToWeightMap ==
  <<[name |-> "cpu", weight |-> 1048576], [name |-> "memory", weight |-> 1]>>

SetDefaults_NodeResourcesAllocatableArgs(in) ==
  [in EXCEPT !.resources = IfEmpty(@, defaultNodeResourcesAllocatableResourcesToWeightMap),
             !.mode = IfBlank(@, "Least")]

(* Mutant: the provider is not set.                                        *)
DefaultProvider_Never(provider, watcher) ==
  [provider EXCEPT !.insecure = IF provider.type = "Prometheus" THEN IfNil(@, TRUE) ELSE @]

DefaultProvider(provider, watcher) ==
  LET type == IF watcher = Nil /\ provider.type = "" THEN "KubernetesMetricsServer"
              ELSE provider.type
  IN  [provider EXCEPT !.type = type,
                       !.insecure = IF type = "Prometheus" THEN IfNil(@, TRUE) ELSE @]

SetDefaults_TargetLoadPackingArgs(in) ==
  [in EXCEPT !.requests = IfNil(@, "1000m"),
             !.multiplier = IfNil(@, "1.5"),
             !.target = IfNotPositive(@, 40),
             !.provider = DefaultProvider(@, in.watcher)]

SetDefaults_LoadVariationRiskBalancingArgs(in) ==
  [in EXCEPT !.provider = DefaultProvider(@, in.watcher),
             !.margin = IfNegative(@, 1),
             !.sensitivity = IfNegative(@, 1)]

DefaultResourceSpec == <<[name |-> "cpu", weight |-> 1], [name |-> "memory", weight |-> 1]>>

(* Resources that are given without a weight have the weight 1.            *)
SetDefaults_NodeResourceTopologyMatchArgs(in) ==
  LET strategy == Deref(in.strategy, [type |-> "LeastAllocated", resources |-> DefaultResourceSpec])
      rs == IfEmpty(strategy.resources, DefaultResourceSpec)
  IN  [in EXCEPT !.strategy =
         Ref([strategy EXCEPT !.resources =
                [k \in DOMAIN rs |-> [rs[k] EXCEPT !.weight = IF @ = 0 THEN 1 ELSE @]]])]

(* The defaults of the scheduler's own DefaultPreemptionArgs.              *)
SetDefaults_PreemptionTolerationArgs(in) ==
  [in EXCEPT !.percentage = IfNil(@, 10), !.absolute = IfNil(@, 100)]

RegisterDefaults(in) ==
  CASE in.kind = "Coscheduling" -> SetDefaults_CoschedulingArgs(in)
    [] in.kind = "Allocatable" -> SetDefaults_NodeResourcesAllocatableArgs(in)
    [] in.kind = "TargetLoadPacking" -> SetDefaults_TargetLoadPackingArgs(in)
    [] in.kind = "LoadVariation" -> SetDefaults_LoadVariationRiskBalancingArgs(in)
    [] in.kind = "Topology" -> SetDefaults_NodeResourceTopologyMatchArgs(in)
    [] OTHER -> SetDefaults_PreemptionTolerationArgs(in)

----------------------------------------------------------------------------
(* Conversions to the internal types, which have values for pointers.      *)

Coscheduling_To_config(in) ==
  [kind |-> in.kind, permit |-> Deref(in.permit, 0), denied |-> Deref(in.denied, 0)]

MetricProviderSpec_To_config(in) ==
  [type |-> in.type, address |-> Deref(in.address, ""), token |-> Deref(in.token, ""),
   insecure |-> Deref(in.insecure, FALSE)]

(* A nil map of default requests stays nil.                                *)
TargetLoadPacking_To_config(in) ==
  [kind |-> in.kind, requests |-> in.requests, multiplier |-> Deref(in.multiplier, ""),
   target |-> Deref(in.target, 0), provider |-> MetricProviderSpec_To_config(in.provider),
   watcher |-> Deref(in.watcher, "")]

LoadVariation_To_config(in) ==
  [kind |-> in.kind, provider |-> MetricProviderSpec_To_config(in.provider),
   watcher |-> Deref(in.watcher, ""), margin |-> Deref(in.margin, 0),
   sensitivity |-> Deref(in.sensitivity, 0)]

(* Follows the pointer to the strategy whether or not it is nil.           *)
Topology_To_config(in) == [kind |-> in.kind, strategy |-> in.strategy[1]]

Toleration_To_config(in) ==
  [kind |-> in.kind, percentage |-> Deref(in.percentage, 0), absolute |-> Deref(in.absolute, 0)]

To_config(in) ==
  CASE in.kind = "Coscheduling" -> Coscheduling_To_config(in)
    [] in.kind = "Allocatable" -> in
    [] in.kind = "TargetLoadPacking" -> TargetLoadPacking_To_config(in)
    [] in.kind = "LoadVariation" -> LoadVariation_To_config(in)
    [] in.kind = "Topology" -> Topology_To_config(in)
    [] OTHER -> Toleration_To_config(in)

----------------------------------------------------------------------------
(* Conversions from the internal types.                                    *)

config_To_Coscheduling(in) ==
  [kind |-> in.kind, permit |-> Ref(in.permit), denied |-> Ref(in.denied)]

config_To_MetricProviderSpec(in) ==
  [type |-> in.type, address |-> Ref(in.address), token |-> Ref(in.token),
   insecure |-> Ref(in.insecure)]

config_To_TargetLoadPacking(in) ==
  [kind |-> in.kind, requests |-> in.requests, multiplier |-> Ref(in.multiplier),
   target |-> Ref(in.target), provider |-> config_To_MetricProviderSpec(in.provider),
   watcher |-> Ref(in.watcher)]

config_To_LoadVariation(in) ==
  [kind |-> in.kind, provider |-> config_To_MetricProviderSpec(in.provider),
   watcher |-> Ref(in.watcher), margin |-> Ref(in.margin), sensitivity |-> Ref(in.sensitivity)]

config_To_Topology(in) == [kind |-> in.kind, strategy |-> Ref(in.strategy)]

config_To_Toleration(in) ==
  [kind |-> in.kind, percentage |-> Ref(in.percentage), absolute |-> Ref(in.absolute)]

config_To(in) ==
  CASE in.kind = "Coscheduling" -> config_To_Coscheduling(in)
    [] in.kind = "Allocatable" -> in
    [] in.kind = "TargetLoadPacking" -> config_To_TargetLoadPacking(in)
    [] in.kind = "LoadVariation" -> config_To_LoadVariation(in)
    [] in.kind = "Topology" -> config_To_Topology(in)
    [] OTHER -> config_To_Toleration(in)

----------------------------------------------------------------------------
(* v1beta3 has the functions of v1beta2 under its own types.               *)

RegisterDefaults_v1beta3(in) == RegisterDefaults(in)
To_config_v1beta3(in) == To_config(in)
config_To_v1beta3(in) == config_To(in)

(* The scheme decodes a configuration file and sets the defaults, then it  *)
(* converts; it encodes by converting back.                                *)
Decode(version, in) ==
  IF version = "v1beta2" THEN To_config(RegisterDefaults(in))
  ELSE To_config_v1beta3(RegisterDefaults_v1beta3(in))

Encode(version, args) ==
  IF version = "v1beta2" THEN config_To(args) ELSE config_To_v1beta3(args)

----------------------------------------------------------------------------
(* What the plugins' New accept.                                           *)

ValidProvider(args) ==
  args.watcher = "" => args.provider.type \in {"KubernetesMetricsServer", "Prometheus", "SignalFx"}

(* getArgs of TargetLoadPacking; the multiplier must be a number.          *)
TargetLoadPacking_getArgs(args) == ValidProvider(args) /\ args.multiplier # "x"

LoadVariation_getArgs(args) == ValidProvider(args)

getScoringStrategyFunction(type) ==
  type \in {"MostAllocated", "LeastAllocated", "BalancedAllocation"}

ValidateDefaultPreemptionArgs(args) ==
  /\ args.percentage \in 0 .. 100 /\ args.absolute >= 0
  /\ args.percentage # 0 \/ args.absolute # 0

NewAllocatable(args) ==
  /\ args.mode \in {"", "Least", "Most"}
  /\ \A k \in DOMAIN args.resources : args.resources[k].weight > 0

NewPlugin(args) ==
  CASE args.kind = "Coscheduling" -> TRUE
    [] args.kind = "Allocatable" -> NewAllocatable(args)
    [] args.kind = "TargetLoadPacking" -> TargetLoadPacking_getArgs(args)
    [] args.kind = "LoadVariation" -> LoadVariation_getArgs(args)
    [] args.kind = "Topology" -> getScoringStrategyFunction(args.strategy.type)
    [] OTHER -> ValidateDefaultPreemptionArgs(args)
=============================================================================
