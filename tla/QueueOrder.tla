----------------------------- MODULE QueueOrder -----------------------------
(***************************************************************************)
(* The orders in which the scheduling queue hands out pods: Less of the    *)
(* QoS plugin (pkg/qos) and of the Coscheduling plugin.                    *)
(***************************************************************************)
EXTENDS Integers, Sequences

(* Mutant: burstable pods come before guaranteed ones too.                 *)
compQOS_Loose(q1, q2) == q1 # "BestEffort" \/ q2 = "BestEffort"

compQOS(q1, q2) ==
  CASE q1 = "Guaranteed" -> TRUE
    [] q1 = "Burstable" -> q2 # "Guaranteed"
    [] OTHER -> q2 = "BestEffort"

QosLess(p1, p2) ==
  p1.prio > p2.prio \/ (p1.prio = p2.prio /\ compQOS(p1.qos, p2.qos))

(* created has the creation times of the groups that the lister finds.     *)
GetCreationTimestamp(created, p) ==
  IF p.group \in DOMAIN created THEN created[p.group] ELSE p.attempt

CoschedulingLess(created, p1, p2) ==
  LET t1 == GetCreationTimestamp(created, p1)
      t2 == GetCreationTimestamp(created, p2)
  IN  IF p1.prio # p2.prio THEN p1.prio > p2.prio
      ELSE IF t1 = t2 THEN p1.name < p2.name
      ELSE t1 < t2
=============================================================================
