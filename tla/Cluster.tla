------------------------------ MODULE Cluster ------------------------------
(***************************************************************************)
(* The cluster around the controller, as the code in src/ relies on it:    *)
(* the pods, nodes and profiles the API server holds, and what users, the  *)
(* webhook, the scheduler, the autoscaler and the kubelets do to them.     *)
(*                                                                         *)
(* A pod is "absent", then "gated" (it has kompakt gates), "released" (it  *)
(* has none and waits for the scheduler), "bound" and "gone" (deleted or   *)
(* finished).  A node is "absent", "starting" (registered, never Ready),   *)
(* "ready" or "notready" (no longer, or for too long not yet, Ready).      *)
(***************************************************************************)
EXTENDS Rules, Sequences

CONSTANTS
  Pod, Node,
  Group,        \* node groups of the cluster autoscaler
  MaxPending,   \* bound: the most nodes a group is short of its target
  Task,         \* provision tasks of GOATScaler
  Profile,
  NoProfile, NoRule,
  PodSpec,      \* Pod -> profile, requests, annotations, high, tolerations,
                \*        nodeSelector
  NodeSpec,     \* Node -> capacity, late (device resources), labels, taints,
                \*         tasks (its provision-task-id label, if any)
  ProfileSpec,  \* Profile -> rules, source, templates
  InitialNodes, \* the nodes that are Ready when the manager starts
  Faults        \* the faults and outside interventions of this instance

\* The rules a profile may name; the last stands for those not registered.
Rule == Registry \cup {"WaitForImagePrePull"}

ASSUME SetsAssumption ==
  /\ IsFiniteSet(Pod) /\ IsFiniteSet(Node)
  /\ IsFiniteSet(Group) /\ IsFiniteSet(Task) /\ IsFiniteSet(Profile)
  /\ MaxPending \in Nat
  /\ InitialNodes \subseteq Node
  /\ NoNode \notin Node /\ NoProfile \notin Profile

\* Quantities are never negative: Kubernetes validates resource quantities, and
\* an annotation is taken to hold a natural number.
ASSUME PodSpecAssumption ==
  \A p \in Pod : /\ PodSpec[p].profile \in Profile \cup {NoProfile}
                 /\ IsQuantities(PodSpec[p].requests)
                 /\ IsQuantities(PodSpec[p].annotations)

ASSUME NodeSpecAssumption == \A n \in Node : IsQuantities(NodeSpec[n].capacity)

ASSUME ProfileSpecAssumption ==
  \A pr \in Profile :
     /\ ProfileSpec[pr].rules \in Seq(Rule)
     /\ \A i \in DOMAIN ProfileSpec[pr].templates :
           IsQuantities(ProfileSpec[pr].templates[i].allocatable)

VARIABLES
  pods, nodes, profiles,  \* the objects at the API server
  pending,                \* target - ready, per group of the autoscaler's status
  events,                 \* the tasks with a ProvisionNode event of the last 15 min
  expired                 \* the pods older than their reservation timeout

signals     == <<pending, events>>
clusterVars == <<pods, nodes, profiles, signals, expired>>

-----------------------------------------------------------------------------
(* Cluster objects.                                                        *)

Reason == {"none", "capacity", "priority", "timeout", "profile_not_found"}

PodType ==
  [phase : {"absent", "gated", "released", "bound", "gone"},
   target : Node \cup {NoNode}, node : Node \cup {NoNode},
   reason : Reason, heldBy : Rule \cup {NoRule}]

NodeType ==
  [phase : {"absent", "starting", "ready", "notready"},
   deleting : BOOLEAN, devices : BOOLEAN]

AbsentPod ==
  [phase |-> "absent", target |-> NoNode, node |-> NoNode,
   reason |-> "none", heldBy |-> NoRule]

\* Nothing is remembered of a pod that has ended.
GonePod == [AbsentPod EXCEPT !.phase = "gone"]

AbsentNode == [phase |-> "absent", deleting |-> FALSE, devices |-> FALSE]

\* Kubernetes taints a node for as long as it is not Ready.
NotReadyTaint == [key |-> "not-ready", value |-> "", effect |-> "NoSchedule"]

\* Device resources are allocatable once their plugin has registered.
Allocatable(n, node) ==
  OnlyResources(NodeSpec[n].capacity,
                IF node.devices THEN Resource ELSE Resource \ NodeSpec[n].late)

Taints(n, node) ==
  NodeSpec[n].taints \cup (IF node.phase = "ready" THEN {} ELSE {NotReadyTaint})

ProfileOf(p) == PodSpec[p].profile

Demand(p) ==
  IF ProfileOf(p) = NoProfile THEN NoQuantities
  ELSE ExtractDemand(PodSpec[p], ProfileSpec[ProfileOf(p)].source)

RulesOf(p) == ProfileSpec[ProfileOf(p)].rules

\* Pods that count against a node: bound to it and neither finished nor gone.
BoundTo(n, view) == {p \in Pod : view[p].phase = "bound" /\ view[p].node = n}

Usage(n, view) ==
  [r \in Resource |->
     Tally(BoundTo(n, view), [p \in Pod |-> At(PodSpec[p].requests, r)])]

-----------------------------------------------------------------------------
(* Pods: users, the webhook, the scheduler, the clock (external).          *)

\* The webhook gates a pod whose profile resolves.  A pod that names none, or
\* that is admitted while the webhook is down, starts without gates.
CreatePod(p) ==
  /\ pods[p].phase = "absent"
  /\ \/ /\ ProfileOf(p) \in profiles
        /\ pods' = [pods EXCEPT ![p].phase = "gated"]
     \/ /\ ProfileOf(p) = NoProfile \/ "webhook" \in Faults
        /\ pods' = [pods EXCEPT ![p].phase = "released"]
  /\ UNCHANGED <<nodes, profiles, signals, expired>>

\* The reservation timeout of a gated pod elapses.
Expire(p) ==
  /\ "timeout" \in Faults
  /\ pods[p].phase = "gated" /\ p \notin expired
  /\ expired' = expired \cup {p}
  /\ UNCHANGED <<pods, nodes, profiles, signals>>

\* The scheduler binds a pod to a Ready node that suits it and has room.
Bind(p, n) ==
  LET entry == [NewEntry(Allocatable(n, nodes[n]), NodeSpec[n].labels, Taints(n, nodes[n]))
                  EXCEPT !.used = Usage(n, pods)]
  IN  /\ pods[p].phase = "released" /\ pods[p].target \in {NoNode, n}
      /\ nodes[n].phase = "ready" /\ ~ nodes[n].deleting
      /\ NodeMatchesConstraints(entry, ExtractConstraints(PodSpec[p]))
      /\ Fits(entry, PodSpec[p].requests)
      /\ pods' = [pods EXCEPT ![p].phase = "bound", ![p].node = n]
      /\ UNCHANGED <<nodes, profiles, signals, expired>>

\* The pod is deleted, or runs to completion.
EndPod(p) ==
  /\ "end" \in Faults
  /\ pods[p].phase \in {"gated", "released", "bound"}
  /\ pods' = [pods EXCEPT ![p] = GonePod]
  /\ UNCHANGED <<nodes, profiles, signals, expired>>

-----------------------------------------------------------------------------
(* Nodes and profiles: the autoscaler, kubelets, users (external).         *)

SetNode(n, node) ==
  /\ nodes' = [nodes EXCEPT ![n] = node]
  /\ UNCHANGED <<profiles, signals, expired>>

RegisterNode(n) ==
  /\ nodes[n].phase = "absent"
  /\ SetNode(n, [phase |-> "starting", deleting |-> FALSE,
                 devices |-> NodeSpec[n].late = {}])
  /\ UNCHANGED pods

NodeReady(n) ==
  /\ nodes[n].phase \in {"starting", "notready"}
  /\ SetNode(n, [nodes[n] EXCEPT !.phase = "ready"])
  /\ UNCHANGED pods

\* A Ready node fails, or one that never was Ready exceeds the detector's age.
NodeNotReady(n) ==
  /\ "notready" \in Faults
  /\ nodes[n].phase \in {"starting", "ready"}
  /\ SetNode(n, [nodes[n] EXCEPT !.phase = "notready"])
  /\ UNCHANGED pods

RegisterDevices(n) ==
  /\ nodes[n].phase # "absent" /\ ~ nodes[n].devices
  /\ SetNode(n, [nodes[n] EXCEPT !.devices = TRUE])
  /\ UNCHANGED pods

DrainNode(n) ==
  /\ "drain" \in Faults
  /\ nodes[n].phase # "absent" /\ ~ nodes[n].deleting
  /\ SetNode(n, [nodes[n] EXCEPT !.deleting = TRUE])
  /\ UNCHANGED pods

\* The pods bound to a removed node go with it.
RemoveNode(n) ==
  /\ nodes[n].deleting
  /\ SetNode(n, AbsentNode)
  /\ pods' = [p \in Pod |-> IF p \in BoundTo(n, pods) THEN GonePod ELSE pods[p]]

\* The cluster autoscaler rewrites the line of a group in its status.
SetPending(g) ==
  /\ \E k \in 0 .. MaxPending : k # pending[g] /\ pending' = [pending EXCEPT ![g] = k]
  /\ UNCHANGED <<pods, nodes, profiles, events, expired>>

\* GOATScaler reports that it provisions a node, or the report has aged out.
ReportTask(t) ==
  /\ events' = IF t \in events THEN events \ {t} ELSE events \cup {t}
  /\ UNCHANGED <<pods, nodes, profiles, pending, expired>>

DeleteProfile(pr) ==
  /\ "profile" \in Faults
  /\ pr \in profiles
  /\ profiles' = profiles \ {pr}
  /\ UNCHANGED <<pods, nodes, signals, expired>>

CreateProfile(pr) ==
  /\ "recreate" \in Faults
  /\ pr \notin profiles
  /\ profiles' = profiles \cup {pr}
  /\ UNCHANGED <<pods, nodes, signals, expired>>

-----------------------------------------------------------------------------

ClusterInit ==
  /\ pods = [p \in Pod |-> AbsentPod]
  /\ nodes = [n \in Node |->
                IF n \in InitialNodes
                THEN [phase |-> "ready", deleting |-> FALSE, devices |-> TRUE]
                ELSE AbsentNode]
  /\ profiles = Profile
  /\ pending = [g \in Group |-> 0]
  /\ events = {}
  /\ expired = {}

ClusterNext ==
  \/ \E p \in Pod : \/ CreatePod(p) \/ Expire(p) \/ EndPod(p)
                    \/ \E n \in Node : Bind(p, n)
  \/ \E n \in Node : \/ RegisterNode(n) \/ NodeReady(n) \/ NodeNotReady(n)
                     \/ RegisterDevices(n) \/ DrainNode(n) \/ RemoveNode(n)
  \/ \E g \in Group : SetPending(g)
  \/ \E t \in Task : ReportTask(t)
  \/ \E pr \in Profile : DeleteProfile(pr) \/ CreateProfile(pr)
=============================================================================
