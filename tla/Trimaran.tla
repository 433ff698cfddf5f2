------------------------------ MODULE Trimaran ------------------------------
(***************************************************************************)
(* The Trimaran plugins (pkg/trimaran): the handler that remembers the     *)
(* pods bound a short time ago, the metrics that a ticker fetches from the *)
(* load watcher, and the score of TargetLoadPacking, which adds both up.   *)
(*                                                                         *)
(* The load watcher, the informer and the API server are external.  The    *)
(* comment in Score gives the delay of a pod's metrics as up to twice the  *)
(* reporting interval: metrics whose window ends at e measure every pod    *)
(* bound at least 2 * Interval before e and any of the younger ones.       *)
(***************************************************************************)
EXTENDS Integers, Sequences, FiniteSets, FiniteSetsExt, SequencesExt, Sums, TLC

CONSTANTS
  Pods, Nodes,
  Containers,   \* Containers[p]: sequence of [limit, request]
  Overhead,     \* Overhead[p]
  Capacity,     \* Capacity[n]: CPU capacity of the node
  Targets,      \* values of hostTargetUtilizationPercent, which getArgs does not bound
  Multiplier,   \* requestsMultiplier in percent
  Default,      \* requestsMilliCores, for a container without limit and request
  Interval,     \* metricsAgentReportingIntervalSeconds, in ticks
  Cleanup,      \* cacheCleanupIntervalMinutes, in ticks
  MaxTime,      \* bound on the clock
  MaxUids,      \* bound on the pods that are ever bound
  MaxFaults,    \* bound on watch gaps and restarts
  None

ASSUME TrimaranAssumption ==
  /\ Interval \in Nat \ {0} /\ Cleanup \in Nat \ {0} /\ MaxTime \in Nat
  /\ Targets \subseteq Nat \ {0}
  /\ \A n \in Nodes : Capacity[n] \in Nat
  /\ IsFiniteSet(Pods) /\ Multiplier \in Nat /\ Default \in Nat
  /\ \A p \in Pods :
       Overhead[p] \in Nat /\ Containers[p] \in Seq([limit : Nat \cup {None}, request : Nat \cup {None}])

VARIABLES
  now,
  bound,    \* API server: None, or the node, time and uid of the bound pod
  seen,     \* informer: what the handler was last told of the pod
  cache,    \* ScheduledPodsCache[n]: entries with the pod, its uid and at, the Timestamp
  metrics,  \* None, or the end of the window and, for the nodes that have metrics, used
  cleaned,  \* when cleanupCache last ran
  unseen,   \* uids that were deleted, or that came up on a node, during a gap in the watch
  uids, faults

vars == <<now, bound, seen, cache, metrics, cleaned, unseen, uids, faults>>

(* math.Round of a / b for a, b >= 0.                                      *)
Round(a, b) == (2 * a + b) \div (2 * b)

(* The usage that a container, and a pod, are expected to have.            *)
PredictUtilisation(c) ==
  IF c.limit # None THEN c.limit
  ELSE IF c.request # None THEN Round(c.request * Multiplier, 100)
  ELSE Default

Predicted ==
  [p \in Pods |->
    LET usage == [k \in DOMAIN Containers[p] |-> PredictUtilisation(Containers[p][k])]
    IN  SumOver(usage, DOMAIN usage) + Overhead[p]]

Init ==
  /\ now = 0 /\ cleaned = 0 /\ uids = 0 /\ faults = 0
  /\ bound = [p \in Pods |-> None]
  /\ seen = [p \in Pods |-> None]
  /\ cache = [n \in Nodes |-> << >>]
  /\ metrics = None
  /\ unseen = {}

Tick ==
  /\ now < MaxTime
  /\ now' = now + 1
  /\ UNCHANGED <<bound, seen, cache, metrics, cleaned, unseen, uids, faults>>

(* A name may be used again: a controller makes a deleted pod anew.        *)
Bind(p, n) ==
  /\ bound[p] = None
  /\ uids < MaxUids
  /\ bound' = [bound EXCEPT ![p] = [node |-> n, at |-> now, uid |-> uids + 1]]
  /\ uids' = uids + 1
  /\ UNCHANGED <<now, seen, cache, metrics, cleaned, unseen, faults>>

Delete(p) ==
  /\ bound[p] # None
  /\ bound' = [bound EXCEPT ![p] = None]
  /\ UNCHANGED <<now, seen, cache, metrics, cleaned, unseen, uids, faults>>

----------------------------------------------------------------------------
(* The handler.  Its informer passes on assigned pods only.                *)

updateCache(p, new) ==
  [cache EXCEPT ![new.node] = Append(@, [pod |-> p, uid |-> new.uid, at |-> now])]

OnAdd(p) ==
  /\ seen[p] = None /\ bound[p] # None
  /\ seen' = [seen EXCEPT ![p] = bound[p]]
  /\ cache' = updateCache(p, bound[p])
  /\ UNCHANGED <<now, bound, metrics, cleaned, unseen, uids, faults>>

(* Mutant: every update puts the pod into the cache again.                 *)
OnUpdated_Always(p, old, new) == updateCache(p, new)

OnUpdated(p, old, new) ==
  IF old.node # new.node THEN updateCache(p, new) ELSE cache

(* A status update of the pod, which leaves its node alone.                *)
OnUpdate(p) ==
  /\ seen[p] # None /\ seen[p] = bound[p]
  /\ cache' = OnUpdated(p, seen[p], bound[p])
  /\ UNCHANGED <<now, bound, seen, metrics, cleaned, unseen, uids, faults>>

(* After a gap in the watch a deleted and recreated pod is an update.      *)
OnUpdateAfterGap(p) ==
  /\ faults < MaxFaults
  /\ faults' = faults + 1
  /\ seen[p] # None /\ bound[p] # None /\ seen[p] # bound[p]
  /\ seen' = [seen EXCEPT ![p] = bound[p]]
  /\ cache' = OnUpdated(p, seen[p], bound[p])
  /\ unseen' = unseen \cup {seen[p].uid}
                     \cup {u \in {bound[p].uid} : seen[p].node = bound[p].node}
  /\ UNCHANGED <<now, bound, metrics, cleaned, uids>>

(* The first entry with the uid is taken out.                              *)
Dropped(entries, uid) ==
  IF \E k \in DOMAIN entries : entries[k].uid = uid
    THEN RemoveAt(entries, SelectInSeq(entries, LAMBDA e : e.uid = uid))
    ELSE entries

OnDelete(p) ==
  /\ seen[p] # None /\ seen[p] # bound[p]
  /\ seen' = [seen EXCEPT ![p] = None]
  /\ cache' = [cache EXCEPT ![seen[p].node] = Dropped(@, seen[p].uid)]
  /\ UNCHANGED <<now, bound, metrics, cleaned, unseen, uids, faults>>

(* After a gap a deletion is a DeletedFinalStateUnknown: the filter lets   *)
(* it through, OnDelete's type assertion fails and the scheduler panics.   *)
(* The new process starts with nothing and is told of every pod again.     *)
Restart ==
  /\ faults < MaxFaults
  /\ faults' = faults + 1
  /\ seen' = [p \in Pods |-> None]
  /\ cache' = [n \in Nodes |-> << >>]
  /\ metrics' = None
  /\ cleaned' = now
  /\ unseen' = {}
  /\ UNCHANGED <<now, bound, uids>>

(* Mutant: entries are also dropped when they are a tick too young.        *)
Young_Late(e) == e.at + Interval > now + 1

Young(e) == e.at + Interval > now

(* The entries from the first young one on; if there is none, all of them. *)
Cleaned(entries) ==
  LET first == SelectInSeq(entries, Young)
  IN  IF first = 0 THEN entries ELSE SubSeq(entries, first, Len(entries))

cleanupCache ==
  /\ now >= cleaned + Cleanup
  /\ cache' = [n \in Nodes |-> Cleaned(cache[n])]
  /\ cleaned' = now
  /\ UNCHANGED <<now, bound, seen, metrics, unseen, uids, faults>>

----------------------------------------------------------------------------
(* Metrics, of all nodes or, if the watcher has none, of no node.  When    *)
(* the load watcher does not answer the old ones stay.                     *)

Bound == {bound[p] : p \in Pods} \ {None}

Usage(n, bs) ==
  SumOver(Predicted, {p \in Pods : bound[p] \in bs /\ bound[p].node = n})

updateMetrics ==
  \E end \in (IF metrics = None THEN 0 ELSE metrics.end) .. now,
     nodes \in {Nodes, {}}, young \in SUBSET Bound :
    LET measured == {b \in Bound : b.at <= end - 2 * Interval} \cup young
    IN  /\ metrics' = [end |-> end, used |-> [n \in nodes |-> Usage(n, measured)]]
        /\ UNCHANGED <<now, bound, seen, cache, cleaned, unseen, uids, faults>>

Next ==
  \/ Tick
  \/ \E p \in Pods, n \in Nodes : Bind(p, n)
  \/ \E p \in Pods : Delete(p) \/ OnAdd(p) \/ OnUpdate(p) \/ OnUpdateAfterGap(p) \/ OnDelete(p)
  \/ Restart
  \/ cleanupCache
  \/ updateMetrics

Spec == Init /\ [][Next]_vars

----------------------------------------------------------------------------
(* The score of TargetLoadPacking, in exact arithmetic.                    *)

(* The metrics may not have the pod of the entry yet.                      *)
Missing(e) ==
  e.at > metrics.end \/ (e.at <= metrics.end /\ metrics.end - e.at < Interval)

CachedUsage(n) ==
  SumOver([k \in DOMAIN cache[n] |-> Predicted[cache[n][k].pod]],
          {k \in DOMAIN cache[n] : Missing(cache[n][k])})

(* Mutant: the usage over the capacity is not handled on its own.          *)
TargetScore_NoCap(target, used, cap) ==
  IF 100 * used > target * cap /\ target < 100
    THEN Round(target * (100 * cap - 100 * used), (100 - target) * cap)
    ELSE Round((100 - target) * 100 * used + target * target * cap, target * cap)

(* The score for a predicted usage of used out of cap, in percent.         *)
TargetScore(target, used, cap) ==
  IF 100 * used > target * cap
    THEN IF used > cap THEN 0
         ELSE Round(target * (100 * cap - 100 * used), (100 - target) * cap)
    ELSE Round((100 - target) * 100 * used + target * target * cap, target * cap)

Score(target, p, n) ==
  IF metrics = None \/ n \notin DOMAIN metrics.used THEN 0
  ELSE IF Capacity[n] = 0 THEN TargetScore(target, 0, 1)
  ELSE TargetScore(target, metrics.used[n] + Predicted[p] + CachedUsage(n), Capacity[n])

----------------------------------------------------------------------------
(* What Score can return: a node score for a target of at most 100.  With  *)
(* a greater one, which no check refuses, the score of a node that is not  *)
(* above its target is over 100.                                           *)
ScoreRange(target) ==
  IF target <= 100 THEN 0 .. 100 ELSE {0} \cup 100 .. target

(* The types; in particular the range of Score, whatever the cache and the *)
(* metrics are (the scheduler fails the cycle for a score that is none).   *)
TypeOK ==
  /\ now \in 0 .. MaxTime /\ cleaned \in 0 .. now
  /\ \A n \in Nodes : \A k \in DOMAIN cache[n] : cache[n][k].pod \in Pods
  /\ \A target \in Targets, p \in Pods, n \in Nodes : Score(target, p, n) \in ScoreRange(target)

(* The cache of a node is in the order of the timestamps, which the binary *)
(* search of the cleanup needs, and holds each pod once and only while the *)
(* informer has it on that node, except for the pods of a gap.             *)
CacheHonest ==
  \A n \in Nodes : \A k \in DOMAIN cache[n] :
    LET e == cache[n][k]
    IN  /\ \A j \in 1 .. (k - 1) : cache[n][j].at <= e.at /\ cache[n][j].uid # e.uid
        /\ \/ e.uid \in unseen
           \/ seen[e.pod] # None /\ seen[e.pod].uid = e.uid /\ seen[e.pod].node = n

(* The handler knows of q, and either the window ends so late that the     *)
(* metrics have q, or neither the window's end nor the last cleanup is so  *)
(* late that Score or the cleanup may leave its entry out.  Of pods in     *)
(* between, whose metrics come late, neither need know.                    *)
Covered(q) ==
  /\ bound[q] # None /\ bound[q] = seen[q] /\ bound[q].uid \notin unseen
  /\ \/ bound[q].at + 2 * Interval <= metrics.end
     \/ bound[q].at + Interval > metrics.end /\ bound[q].at + Interval > cleaned

(* What the pod and the covered pods of the node are expected to use.      *)
Expected(p, n) ==
  Predicted[p] + Usage(n, {bound[q] : q \in {q \in Pods \ {p} : Covered(q)}})

(* The metrics and the cache, each changed by a ticker of its own, miss no *)
(* covered pod between them: with a target that is a percentage, a node    *)
(* that the pod would overload scores 0.  (A node without capacity scores  *)
(* as an idle one.)                                                        *)
NeverOverloads ==
  \A target \in Targets, p \in Pods, n \in Nodes :
    metrics # None /\ target <= 100 /\ Expected(p, n) > Capacity[n] /\ Capacity[n] > 0
      => Score(target, p, n) = 0
=============================================================================
