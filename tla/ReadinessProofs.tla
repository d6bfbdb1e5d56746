--------------------------- MODULE ReadinessProofs ---------------------------
(***************************************************************************)
(* Proofs about Reconciler that concern which nodes a pod is pinned to and *)
(* held for: under the condition each property needs, for every set of     *)
(* pods, nodes and profiles and every other fault.                         *)
(***************************************************************************)
EXTENDS ReconcilerProofs

-----------------------------------------------------------------------------
(* The not-ready taint, from the cache to the ledger.                      *)

\* A rebuilt entry has the taints the cache shows for its node.
LEMMA RebuiltTaints ==
  ASSUME NEW pr, NEW old
  PROVE  LET rebuilt == RestoreReservations(WithUsage(AddedNodes(pr)), old)
         IN  /\ DOMAIN rebuilt = ListedNodes(pr)
             /\ \A n \in ListedNodes(pr) : rebuilt[n].taints = Taints(n, nodeCache[n])
<1> DEFINE added == AddedNodes(pr)
           used  == WithUsage(added)
<1>1. /\ DOMAIN added = ListedNodes(pr)
      /\ \A n \in ListedNodes(pr) :
           added[n] = [allocatable |-> Allocatable(n, nodeCache[n]), used |-> Zero,
                       reserved |-> Zero, labels |-> NodeSpec[n].labels,
                       taints |-> Taints(n, nodeCache[n])]
  BY DEF AddedNodes, NewEntry
<1> HIDE DEF added
<1>2. /\ DOMAIN used = ListedNodes(pr)
      /\ \A n \in ListedNodes(pr) :
           used[n] = [allocatable |-> Allocatable(n, nodeCache[n]), used |-> Usage(n, podCache),
                      reserved |-> Zero, labels |-> NodeSpec[n].labels,
                      taints |-> Taints(n, nodeCache[n])]
  BY <1>1 DEF WithUsage
<1> HIDE DEF used
<1> QED
  BY <1>2 DEF RestoreReservations, used, added

\* Reserve changes no taint.
LEMMA ReserveTaints ==
  ASSUME NEW entries, \A m \in DOMAIN entries : IsEntry(entries[m]),
         NEW n \in DOMAIN entries, NEW demand
  PROVE  /\ DOMAIN Reserve(entries, n, demand) = DOMAIN entries
         /\ \A m \in DOMAIN entries : Reserve(entries, n, demand)[m].taints = entries[m].taints
BY DEF Reserve, IsEntry

\* A node that the cache shows as not Ready carries the taint, and a pod that
\* the taint keeps away tolerates it or does not match.
LEMMA TaintKeepsAway ==
  ASSUME NEW e, NotReadyTaint \in e.taints, NEW p,
         NodeMatchesConstraints(e, ExtractConstraints(PodSpec[p]))
  PROVE  TolerateTaint(PodSpec[p].tolerations, NotReadyTaint)
<1>1. NotReadyTaint.effect = "NoSchedule"
  BY DEF NotReadyTaint
<1>2. ExtractConstraints(PodSpec[p]).tolerations = PodSpec[p].tolerations
  BY DEF ExtractConstraints
<1>3. TolerateTaint(ExtractConstraints(PodSpec[p]).tolerations, NotReadyTaint)
  BY <1>1 DEF NodeMatchesConstraints
<1> QED
  BY <1>2, <1>3

\* While nodes only come up, the cluster's own steps make no Ready node unready
\* and give no pod a target.
LEMMA ClusterReadiness ==
  ASSUME NodesOnlyComeUp, TypeOK, ReadyInv, ClusterNext
  PROVE  /\ \A n \in Node : /\ ~ nodes'[n].deleting
                            /\ nodes[n].phase = "ready" => nodes'[n].phase = "ready"
         /\ \A p \in Pod : pods'[p].target \in {pods[p].target, NoNode}
<1> pods \in [Pod -> PodType] /\ nodes \in [Node -> NodeType]
  BY DEF TypeOK
<1> \A n \in Node : ~ nodes[n].deleting
  BY DEF ReadyInv
<1>1. "notready" \notin Faults /\ "drain" \notin Faults
  BY DEF NodesOnlyComeUp
<1>2. ASSUME UNCHANGED nodes PROVE \A n \in Node : ~ nodes'[n].deleting
                                   /\ (nodes[n].phase = "ready" => nodes'[n].phase = "ready")
  BY <1>2
<1>3. ASSUME NEW p \in Pod, CreatePod(p)
      PROVE  UNCHANGED nodes /\ \A q \in Pod : pods'[q].target \in {pods[q].target, NoNode}
  BY <1>3 DEF CreatePod, PodType
<1>4. ASSUME NEW p \in Pod, EndPod(p)
      PROVE  UNCHANGED nodes /\ \A q \in Pod : pods'[q].target \in {pods[q].target, NoNode}
  BY <1>4 DEF EndPod, GonePod, AbsentPod, PodType
<1>5. ASSUME NEW p \in Pod, NEW n \in Node, Bind(p, n)
      PROVE  UNCHANGED nodes /\ \A q \in Pod : pods'[q].target \in {pods[q].target, NoNode}
  BY <1>5 DEF Bind, PodType
<1>6. ASSUME NEW n \in Node, \/ RegisterNode(n) \/ NodeReady(n) \/ NodeNotReady(n)
                             \/ RegisterDevices(n) \/ DrainNode(n) \/ RemoveNode(n)
      PROVE  /\ UNCHANGED pods
             /\ \A m \in Node : /\ ~ nodes'[m].deleting
                                /\ nodes[m].phase = "ready" => nodes'[m].phase = "ready"
  <2>1. CASE RegisterNode(n)
    BY <2>1 DEF RegisterNode, SetNode
  <2>2. CASE NodeReady(n)
    BY <2>2 DEF NodeReady, SetNode, NodeType
  <2>3. CASE RegisterDevices(n)
    BY <2>3 DEF RegisterDevices, SetNode, NodeType
  <2>4. ~ NodeNotReady(n) /\ ~ DrainNode(n) /\ ~ RemoveNode(n)
    BY <1>1 DEF NodeNotReady, DrainNode, RemoveNode
  <2> QED
    BY <1>6, <2>1, <2>2, <2>3, <2>4
<1>7. CASE UNCHANGED <<pods, nodes>>
  BY <1>7
<1> QED
  BY <1>2, <1>3, <1>4, <1>5, <1>6, <1>7
  DEF ClusterNext, Expire, SetPending, ReportTask, DeleteProfile, CreateProfile

\* A patch, applied or not, retargets only its own pod, and only to the node it
\* names.
LEMMA ReleaseTargets ==
  ASSUME TypeOK, NEW p \in Pod, NEW target, NEW reason, NEW seenHeldBy, NEW waiting,
         ReleaseGates(p, target, reason, seenHeldBy, waiting)
  PROVE  \A q \in Pod : \/ pods'[q].target = pods[q].target
                         \/ /\ q = p /\ target # NoNode
                            /\ pods'[q].target = target
<1> pods \in [Pod -> PodType]
  BY DEF TypeOK
<1>1. CASE UNCHANGED pods
  BY <1>1
<1>2. CASE pods' = [pods EXCEPT ![p] = Patched(p, target, reason, seenHeldBy)]
  <2>1. /\ pods'[p].target = IF target = NoNode THEN pods[p].target ELSE target
        /\ \A q \in Pod \ {p} : pods'[q] = pods[q]
    BY <1>2 DEF Patched, PodType
  <2> QED
    BY <2>1
<1> QED
  BY <1>1, <1>2 DEF ReleaseGates

\* What a step must respect for the invariant to carry over.
LEMMA ReadinessCarriesOver ==
  ASSUME TypeOK, TypeOK', ReadyInv,
         \A n \in Node : /\ ~ nodes'[n].deleting
                         /\ nodes[n].phase = "ready" => nodes'[n].phase = "ready"
                         /\ nodeCache'[n] \in {nodeCache[n], nodes[n]},
         \A n \in DOMAIN ledgerNodes' :
            nodes[n].phase = "ready" \/ NotReadyTaint \in ledgerNodes'[n].taints,
         worker'.target # NoNode => SafeTarget(worker'.pod, worker'.target),
         \A p \in Pod : pods'[p].target # NoNode => SafeTarget(p, pods'[p].target)
  PROVE  ReadyInv'
<1>1. \A n \in Node : nodeCache'[n].phase = "ready" => nodes'[n].phase = "ready"
  BY DEF ReadyInv
<1>2. \A n \in DOMAIN ledgerNodes' :
         nodes'[n].phase = "ready" \/ NotReadyTaint \in ledgerNodes'[n].taints
  BY DEF TypeOK
<1>3. worker'.target # NoNode => SafeTarget(worker.pod, worker.target)'
  BY DEF TypeOK, WorkerType, SafeTarget
<1>4. TargetsReady'
  BY DEF TypeOK, PodType, SafeTarget, TargetsReady
<1> QED
  BY <1>1, <1>2, <1>3, <1>4 DEF ReadyInv

(***************************************************************************)
(* The inductive invariant behind TargetsReady: while nodes only come up,  *)
(* the not-ready taint or the node's readiness reaches from the cache,     *)
(* through syncLedger and nodeMatchesConstraints, to the target of the     *)
(* worker and of the released pod, whatever else fails.                    *)
(***************************************************************************)
THEOREM ReadyInvariant ==
  ASSUME NodesOnlyComeUp
  PROVE  Spec => []ReadyInv
<1>1. Init => ReadyInv
  BY DEF Init, ClusterInit, AbsentPod, AbsentNode, Idle, NoEntries, ReadyInv, TargetsReady
<1>2. TypeOK /\ TypeOK' /\ ReadyInv /\ [Next]_vars => ReadyInv'
  <2> SUFFICES ASSUME TypeOK, TypeOK', ReadyInv, [Next]_vars PROVE ReadyInv'
    OBVIOUS
  <2> USE DEF clusterVars, signals, controllerVars, caches, ledger
  <2>1. /\ \A n \in Node : ~ nodes[n].deleting
        /\ \A n \in DOMAIN ledgerNodes :
              nodes[n].phase = "ready" \/ NotReadyTaint \in ledgerNodes[n].taints
        /\ worker.target # NoNode => SafeTarget(worker.pod, worker.target)
        /\ \A p \in Pod : pods[p].target # NoNode => SafeTarget(p, pods[p].target)
    BY DEF ReadyInv, TargetsReady
  <2>2. ASSUME UNCHANGED <<ledgerNodes, nodeCache>>,
               \A n \in Node : /\ ~ nodes'[n].deleting
                               /\ nodes[n].phase = "ready" => nodes'[n].phase = "ready",
               worker'.target # NoNode =>
                  worker'.pod = worker.pod /\ worker'.target = worker.target,
               \A p \in Pod : pods'[p].target \in {pods[p].target, NoNode}
        PROVE  ReadyInv'
    BY <2>1, <2>2, ReadinessCarriesOver
  <2>3. CASE ClusterNext /\ UNCHANGED controllerVars
    BY <2>2, <2>3, ClusterReadiness
  <2>4. ASSUME NEW p \in Pod, ReconcileProfileNotFound(p) PROVE ReadyInv'
    <3>1. \A q \in Pod : pods'[q].target \in {pods[q].target, NoNode}
      BY <2>4, ReleaseTargets DEF ReconcileProfileNotFound
    <3> QED
      BY <2>1, <2>2, <2>4, <3>1 DEF ReconcileProfileNotFound
  <2>5. ASSUME UNCHANGED <<pods, nodes, nodeCache>>, worker'.target = NoNode,
               \A n \in DOMAIN ledgerNodes' :
                  n \in Node /\ ledgerNodes'[n].taints = Taints(n, nodeCache[n])
        PROVE  ReadyInv'
    <3>1. \A n \in DOMAIN ledgerNodes' :
             nodes[n].phase = "ready" \/ NotReadyTaint \in ledgerNodes'[n].taints
      BY <2>5 DEF Taints, ReadyInv
    <3> QED
      BY <2>1, <2>5, <3>1, ReadinessCarriesOver
  <2>6. ASSUME NEW p \in Pod, SyncLedgerFails(p) PROVE ReadyInv'
    <3>1. ledgerNodes' = NoEntries \/ ledgerNodes' = AddedNodes(ProfileOf(p))
      BY <2>6 DEF SyncLedgerFails
    <3>2. \A n \in DOMAIN ledgerNodes' :
             n \in Node /\ ledgerNodes'[n].taints = Taints(n, nodeCache[n])
      BY <3>1 DEF NoEntries, AddedNodes, ListedNodes, NewEntry
    <3> QED
      BY <2>5, <2>6, <3>2 DEF SyncLedgerFails, Reconcilable, Idle
  <2>7. ASSUME NEW p \in Pod, SyncLedger(p) PROVE ReadyInv'
    <3>1. ledgerNodes' = RestoreReservations(WithUsage(AddedNodes(ProfileOf(p))), ledgerNodes)
      BY <2>7 DEF SyncLedger
    <3>2. \A n \in DOMAIN ledgerNodes' :
             n \in Node /\ ledgerNodes'[n].taints = Taints(n, nodeCache[n])
      BY <3>1, RebuiltTaints DEF ListedNodes
    <3>3. worker'.target = NoNode
      BY <2>7 DEF SyncLedger, AfterSync
    <3> QED
      BY <2>5, <2>7, <3>2, <3>3 DEF SyncLedger
  <2>8. CASE SkipUnknownRule
    <3>1. worker'.pod = worker.pod /\ worker'.target = worker.target
      BY <2>8 DEF SkipUnknownRule, WorkerType, TypeOK
    <3> QED
      BY <2>1, <2>2, <2>8, <3>1 DEF SkipUnknownRule
  <2>9. CASE EvaluateRule
    <3> DEFINE p    == worker.pod
               rule == RulesOf(p)[worker.next]
               c    == ExtractConstraints(PodSpec[p])
    <3>1. /\ worker \in WorkerType /\ pods \in [Pod -> PodType]
          /\ UNCHANGED <<nodes, nodeCache>>
      BY <2>9 DEF EvaluateRule, TypeOK
    <3>2. PICK o \in Evaluate(rule, ledgerNodes, ledgerInflight, Demand(p), c, ProfileOf(p)) :
            /\ ledgerNodes' = o.nodes
            /\ \/ /\ worker' = [worker EXCEPT !.next = @ + 1,
                                   !.target = IF o.node = NoNode THEN @ ELSE o.node]
                  /\ UNCHANGED pods
               \/ /\ worker' = Idle
                  /\ AnnotatePod(p, rule, worker.heldBy)
      BY <2>9 DEF EvaluateRule
    <3> HIDE DEF rule, c
    <3>3. \A q \in Pod : pods'[q].target = pods[q].target
      BY <3>1, <3>2 DEF AnnotatePod, PodType
    <3>4. \/ o.node = NoNode
          \/ /\ o.node \in DOMAIN ledgerNodes
             /\ NodeMatchesConstraints(ledgerNodes[o.node], c)
      BY EvaluateNames, SMTT(90)
    <3>5. \A n \in DOMAIN ledgerNodes' :
             nodes[n].phase = "ready" \/ NotReadyTaint \in ledgerNodes'[n].taints
      <4>1. \/ o.nodes = ledgerNodes
            \/ \E n \in DOMAIN ledgerNodes : o.nodes = Reserve(ledgerNodes, n, Demand(p))
        BY EvaluateOutcomes, SMTT(90)
      <4>2. \A m \in DOMAIN ledgerNodes : IsEntry(ledgerNodes[m])
        BY DEF TypeOK
      <4> QED
        BY <2>1, <3>2, <4>1, <4>2, ReserveTaints
    <3>6. o.node # NoNode => SafeTarget(p, o.node)
      <4> SUFFICES ASSUME o.node # NoNode, nodes[o.node].phase # "ready"
                   PROVE  TolerateTaint(PodSpec[p].tolerations, NotReadyTaint)
        BY DEF SafeTarget
      <4>1. NotReadyTaint \in ledgerNodes[o.node].taints
        BY <2>1, <3>4
      <4> QED
        BY <3>4, <4>1, TaintKeepsAway DEF c
    <3>7. worker'.target # NoNode => SafeTarget(worker'.pod, worker'.target)
      <4>1. CASE worker' = Idle
        BY <4>1 DEF Idle
      <4>2. CASE worker' = [worker EXCEPT !.next = @ + 1,
                              !.target = IF o.node = NoNode THEN @ ELSE o.node]
        <5>1. /\ worker'.pod = worker.pod
              /\ worker'.target = IF o.node = NoNode THEN worker.target ELSE o.node
          BY <3>1, <4>2 DEF WorkerType
        <5> QED
          BY <2>1, <3>6, <5>1
      <4> QED
        BY <3>2, <4>1, <4>2
    <3> QED
      BY <2>1, <3>1, <3>3, <3>5, <3>7, ReadinessCarriesOver
  <2>10. CASE Release
    <3>1. worker.pod \in Pod
      BY <2>10 DEF Release, RulesDone, WorkerType, TypeOK
    <3>2. \A q \in Pod :
             \/ pods'[q].target = pods[q].target
             \/ /\ q = worker.pod /\ worker.target # NoNode
                /\ pods'[q].target = worker.target
      BY <2>10, <3>1, ReleaseTargets DEF Release
    <3>3. \A q \in Pod : pods'[q].target # NoNode => SafeTarget(q, pods'[q].target)
      BY <2>1, <3>2
    <3> QED
      BY <2>1, <2>10, <3>3, ReadinessCarriesOver DEF Release, Idle
  <2>11. CASE Restart
    BY <2>1, <2>11, ReadinessCarriesOver DEF Restart, Idle, NoEntries, TypeOK
  <2>12. CASE UNCHANGED vars
    BY <2>1, <2>2, <2>12 DEF vars
  <2>13. ASSUME NEW p \in Pod, DeliverPod(p) \/ QueuePod(p) \/ ReconcileUngated(p)
         PROVE  ReadyInv'
    BY <2>1, <2>2, <2>13 DEF DeliverPod, QueuePod, ReconcileUngated
  <2>14. ASSUME NEW n \in Node, DeliverNode(n) PROVE ReadyInv'
    <3>1. nodeCache \in [Node -> NodeType]
      BY DEF TypeOK
    <3>2. \A m \in Node : nodeCache'[m] \in {nodeCache[m], nodes[m]}
      BY <2>14, <3>1 DEF DeliverNode
    <3> QED
      BY <2>1, <2>14, <3>2, ReadinessCarriesOver DEF DeliverNode
  <2>15. ASSUME NEW pr \in Profile, DeliverProfile(pr) PROVE ReadyInv'
    BY <2>1, <2>2, <2>15 DEF DeliverProfile
  <2> QED
    BY <2>3, <2>4, <2>6, <2>7, <2>8, <2>9, <2>10, <2>11, <2>12, <2>13, <2>14, <2>15
    DEF Next
<1> QED
  BY <1>1, <1>2, TypeCorrect, PTL DEF Spec

(***************************************************************************)
(* While nodes only come up, Reconcile pins no pod to a node that is not   *)
(* Ready and whose taint the pod does not tolerate, although AddNode lets  *)
(* such nodes into the ledger and the cache may be stale.                  *)
(***************************************************************************)
THEOREM TargetsAreReady ==
  ASSUME NodesOnlyComeUp
  PROVE  Spec => []TargetsReady
<1>1. ReadyInv => TargetsReady
  BY DEF ReadyInv
<1> QED
  BY <1>1, ReadyInvariant, PTL

-----------------------------------------------------------------------------
(* What a pod is held for.                                                 *)

(***************************************************************************)
(* A profile that lists WaitForNodeReady, and not WaitForWorkloadPacking,  *)
(* holds a pod only for an in-flight node worth waiting for, in every      *)
(* state of the ledger and the caches and whatever fails.                  *)
(***************************************************************************)
THEOREM HeldOnlyForInflight ==
  ASSUME ScaleUpAlone
  PROVE  Spec => HoldsOnlyForInflight
<1>1. ASSUME TypeOK, WorkerProfile, Holds,
             \E i \in DOMAIN RulesOf(worker.pod) : RulesOf(worker.pod)[i] = "WaitForNodeReady"
      PROVE  \E key \in DOMAIN ledgerInflight : WorthWaiting(worker.pod, key)
  <2> DEFINE p    == worker.pod
             rule == RulesOf(p)[worker.next]
             c    == ExtractConstraints(PodSpec[p])
  <2>1. /\ p # NoPod /\ p \in Pod /\ worker \in WorkerType /\ ~ RulesDone
        /\ rule \in Registry /\ worker' = Idle
    BY <1>1 DEF Holds, EvaluateRule, TypeOK, WorkerType
  <2>2. rule = "WaitForNodeReady"
    <3>1. ProfileOf(p) \in Profile
      BY <1>1, <2>1 DEF WorkerProfile
    <3>2. RulesOf(p) \in Seq(Rule)
      BY <3>1, ProfileSpecAssumption DEF RulesOf
    <3>3. worker.next \in DOMAIN RulesOf(p)
      BY <2>1, <3>2 DEF RulesDone, WorkerType
    <3>4. rule # "WaitForWorkloadPacking"
      BY <1>1, <3>1, <3>3 DEF ScaleUpAlone, RulesOf
    <3> QED
      BY <2>1, <3>4 DEF Registry
  <2>3. PICK o \in Evaluate(rule, ledgerNodes, ledgerInflight, Demand(p), c, ProfileOf(p)) :
          \/ worker' = [worker EXCEPT !.next = @ + 1,
                           !.target = IF o.node = NoNode THEN @ ELSE o.node]
          \/ ~ o.release
    BY <1>1 DEF Holds, EvaluateRule
  <2> HIDE DEF rule, c
  <2>4. o \in WaitForNodeReady(ledgerNodes, ledgerInflight, Demand(p), c, ProfileOf(p))
    BY <2>2, <2>3 DEF Evaluate
  <2>5. ~ o.release
    <3>1. worker' # [worker EXCEPT !.next = @ + 1,
                       !.target = IF o.node = NoNode THEN @ ELSE o.node]
      BY <2>1 DEF Idle, WorkerType
    <3> QED
      BY <2>3, <3>1, Zenon
  <2>6. \E key \in DOMAIN ledgerInflight :
           \/ NodeMatchesConstraints(ledgerInflight[key], c) /\ Fits(ledgerInflight[key], Demand(p))
           \/ key[1] = ProfileOf(p) /\ DOMAIN ledgerInflight[key].allocatable = {}
    BY <2>4, <2>5, HoldsForInflight
  <2> QED
    BY <2>6 DEF WorthWaiting, c
<1>2. TypeOK /\ WorkerProfile =>
        LET p == worker.pod
        IN  Holds /\ (\E i \in DOMAIN RulesOf(p) : RulesOf(p)[i] = "WaitForNodeReady")
              => \E key \in DOMAIN ledgerInflight : WorthWaiting(p, key)
  BY <1>1
<1> QED
  BY <1>2, TypeCorrect, WorkerHasProfile, PTL DEF HoldsOnlyForInflight
=============================================================================
