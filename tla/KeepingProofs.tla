--------------------------- MODULE KeepingProofs ----------------------------
(***************************************************************************)
(* Proofs about Reconciler that concern what the ledger keeps: when no     *)
(* reservation is ever lost, so that no node is overbooked.                *)
(***************************************************************************)
EXTENDS ReconcilerProofs

\* A node that has come further is not skipped where it was not before.
LEMMA AllocatableGrows ==
  ASSUME NEW n, NEW node, NEW later, node.devices => later.devices, NEW source,
         MissingResource(Allocatable(n, later), source)
  PROVE  MissingResource(Allocatable(n, node), source)
<1>1. DOMAIN Allocatable(n, node) \subseteq DOMAIN Allocatable(n, later)
  BY DEF Allocatable, OnlyResources
<1> QED
  BY <1>1 DEF MissingResource

\* When the cache only comes further, every node listed before is listed still.
LEMMA ListedGrows ==
  ASSUME NEW pr,
         \A n \in Node : /\ nodeCache[n].phase # "absent" => nodeCache'[n].phase # "absent"
                         /\ ~ nodeCache'[n].deleting
                         /\ nodeCache[n].devices => nodeCache'[n].devices
  PROVE  ListedNodes(pr) \subseteq ListedNodes(pr)'
<1> SUFFICES ASSUME NEW n \in ListedNodes(pr) PROVE n \in ListedNodes(pr)'
  OBVIOUS
<1>1. /\ n \in Node /\ nodeCache[n].phase # "absent"
      /\ ~ MissingResource(Allocatable(n, nodeCache[n]), ProfileSpec[pr].source)
  BY DEF ListedNodes
<1>2. ~ MissingResource(Allocatable(n, nodeCache'[n]), ProfileSpec[pr].source)
  BY <1>1, AllocatableGrows
<1> QED
  BY <1>1, <1>2 DEF ListedNodes

\* While nodes stay, the cluster's own steps only bring a node further.
LEMMA ClusterKeepsNodes ==
  ASSUME NodesStay, TypeOK, \A n \in Node : CacheBehind(n), ClusterNext, UNCHANGED nodeCache
  PROVE  \A n \in Node : CacheBehind(n)'
<1> nodes \in [Node -> NodeType]
  BY DEF TypeOK
<1>1. "drain" \notin Faults
  BY DEF NodesStay
<1>2. CASE UNCHANGED nodes
  BY <1>2 DEF CacheBehind
<1>3. ASSUME NEW n \in Node, \/ RegisterNode(n) \/ NodeReady(n) \/ NodeNotReady(n)
                             \/ RegisterDevices(n) \/ DrainNode(n) \/ RemoveNode(n)
      PROVE  \A m \in Node : CacheBehind(m)'
  <2>1. ~ DrainNode(n) /\ ~ RemoveNode(n)
    BY <1>1 DEF DrainNode, RemoveNode, CacheBehind
  <2>2. CASE RegisterNode(n)
    <3>1. nodes[n].phase = "absent" /\ ~ nodes[n].devices
      BY <2>2 DEF RegisterNode, CacheBehind
    <3>2. nodes'[n].phase = "starting" /\ ~ nodes'[n].deleting
      BY <2>2 DEF RegisterNode, SetNode
    <3>3. \A m \in Node \ {n} : nodes'[m] = nodes[m]
      BY <2>2 DEF RegisterNode, SetNode
    <3> QED
      BY <3>1, <3>2, <3>3 DEF CacheBehind
  <2>3. CASE NodeReady(n)
    BY <2>3 DEF NodeReady, SetNode, NodeType, CacheBehind
  <2>4. CASE NodeNotReady(n)
    BY <2>4 DEF NodeNotReady, SetNode, NodeType, CacheBehind
  <2>5. CASE RegisterDevices(n)
    BY <2>5 DEF RegisterDevices, SetNode, NodeType, CacheBehind
  <2> QED
    BY <1>3, <2>1, <2>2, <2>3, <2>4, <2>5
<1> QED
  BY <1>2, <1>3
  DEF ClusterNext, CreatePod, Expire, EndPod, Bind, SetPending, ReportTask,
      DeleteProfile, CreateProfile

(***************************************************************************)
(* When nodes stay and all profiles skip the same nodes, every node that   *)
(* has an entry is listed again by the next syncLedger, whichever pod it   *)
(* is for, so RestoreReservations loses nothing.  Patches, events, pods    *)
(* that end and profiles that come and go may still fail or race.          *)
(***************************************************************************)
THEOREM KeptInvariant ==
  ASSUME NodesStay, SkipSameNodes
  PROVE  Spec => []KeptInv
<1>1. Init => KeptInv
  BY DEF Init, ClusterInit, AbsentNode, NoEntries, KeptInv, CacheBehind
<1>2. TypeOK /\ KeptInv /\ [Next]_vars => KeptInv'
  <2> SUFFICES ASSUME TypeOK, KeptInv, [Next]_vars PROVE KeptInv'
    OBVIOUS
  <2> USE DEF clusterVars, signals, controllerVars, caches, ledger
  <2>1. /\ \A n \in Node : CacheBehind(n)
        /\ \A pr \in Profile : DOMAIN ledgerNodes \subseteq ListedNodes(pr)
        /\ lost = {}
    BY DEF KeptInv
  <2>2. "list" \notin Faults /\ "restart" \notin Faults
    BY DEF NodesStay
  <2>3. ASSUME UNCHANGED <<nodes, nodeCache, lost>>, DOMAIN ledgerNodes' = DOMAIN ledgerNodes
        PROVE  KeptInv'
    BY <2>1, <2>3 DEF KeptInv, CacheBehind, ListedNodes
  <2>4. CASE ClusterNext /\ UNCHANGED controllerVars
    <3>1. \A n \in Node : CacheBehind(n)'
      BY <2>1, <2>4, ClusterKeepsNodes
    <3> QED
      BY <2>1, <2>4, <3>1 DEF KeptInv, ListedNodes
  <2>5. ASSUME NEW p \in Pod, SyncLedger(p) PROVE KeptInv'
    <3> DEFINE pr == ProfileOf(p)
    <3>1. pr \in Profile
      BY <2>5 DEF SyncLedger, Reconcilable, TypeOK
    <3>2. /\ ledgerNodes' = RestoreReservations(WithUsage(AddedNodes(pr)), ledgerNodes)
          /\ lost' = LostBy(AddedNodes(pr))
          /\ UNCHANGED <<nodes, nodeCache>>
      BY <2>5 DEF SyncLedger
    <3>3. DOMAIN ledgerNodes' = ListedNodes(pr) /\ DOMAIN AddedNodes(pr) = ListedNodes(pr)
      BY <3>2 DEF RestoreReservations, WithUsage, AddedNodes
    <3>4. ASSUME NEW other \in Profile PROVE ListedNodes(pr) = ListedNodes(other)
      <4>1. \A n \in Node : nodeCache[n] \in NodeType
        BY DEF TypeOK
      <4>2. \A n \in Node : MissingResource(Allocatable(n, nodeCache[n]), ProfileSpec[pr].source)
                              = MissingResource(Allocatable(n, nodeCache[n]),
                                                ProfileSpec[other].source)
        BY <3>1, <4>1 DEF SkipSameNodes
      <4> QED
        BY <4>2 DEF ListedNodes
    <3>5. lost' = {}
      BY <2>1, <3>1, <3>2, <3>3 DEF LostBy
    <3>6. \A other \in Profile : ListedNodes(other)' = ListedNodes(other)
      BY <3>2 DEF ListedNodes
    <3>7. \A n \in Node : CacheBehind(n)'
      BY <2>1, <3>2 DEF CacheBehind
    <3> QED
      BY <3>3, <3>4, <3>5, <3>6, <3>7 DEF KeptInv
  <2>6. CASE EvaluateRule
    <3> DEFINE p    == worker.pod
               rule == RulesOf(p)[worker.next]
    <3>1. PICK o \in Evaluate(rule, ledgerNodes, ledgerInflight, Demand(p),
                              ExtractConstraints(PodSpec[p]), ProfileOf(p)) :
            ledgerNodes' = o.nodes
      BY <2>6 DEF EvaluateRule
    <3> HIDE DEF p, rule
    <3>2. \/ o.nodes = ledgerNodes
          \/ \E n \in DOMAIN ledgerNodes : o.nodes = Reserve(ledgerNodes, n, Demand(p))
      BY EvaluateOutcomes, SMTT(90)
    <3>3. DOMAIN ledgerNodes' = DOMAIN ledgerNodes
      BY <3>1, <3>2 DEF Reserve
    <3> QED
      BY <2>3, <2>6, <3>3 DEF EvaluateRule
  <2>7. ASSUME NEW n \in Node, DeliverNode(n) PROVE KeptInv'
    <3>1. nodeCache \in [Node -> NodeType]
      BY DEF TypeOK
    <3>2. /\ \A m \in Node : nodeCache'[m] \in {nodeCache[m], nodes[m]}
          /\ nodeCache'[n] = nodes[n] /\ \A m \in Node \ {n} : nodeCache'[m] = nodeCache[m]
          /\ UNCHANGED <<nodes, ledgerNodes, lost>>
      BY <2>7, <3>1 DEF DeliverNode
    <3>3. \A m \in Node : CacheBehind(m)'
      BY <2>1, <3>2 DEF CacheBehind
    <3>4. ASSUME NEW pr \in Profile PROVE ListedNodes(pr) \subseteq ListedNodes(pr)'
      <4>1. \A m \in Node :
               /\ nodeCache[m].phase # "absent" => nodeCache'[m].phase # "absent"
               /\ ~ nodeCache'[m].deleting
               /\ nodeCache[m].devices => nodeCache'[m].devices
        BY <2>1, <3>2 DEF CacheBehind
      <4> QED
        BY <4>1, ListedGrows
    <3> QED
      BY <2>1, <3>2, <3>3, <3>4 DEF KeptInv
  <2>8. CASE SkipUnknownRule \/ Release \/ UNCHANGED vars
    BY <2>3, <2>8 DEF SkipUnknownRule, Release, vars
  <2>9. ASSUME NEW p \in Pod, \/ DeliverPod(p) \/ QueuePod(p) \/ ReconcileUngated(p)
                              \/ ReconcileProfileNotFound(p)
        PROVE  KeptInv'
    BY <2>3, <2>9 DEF DeliverPod, QueuePod, ReconcileUngated, ReconcileProfileNotFound
  <2>10. ASSUME NEW pr \in Profile, DeliverProfile(pr) PROVE KeptInv'
    BY <2>3, <2>10 DEF DeliverProfile
  <2>11. ~ Restart /\ \A p \in Pod : ~ SyncLedgerFails(p)
    BY <2>2 DEF Restart, SyncLedgerFails
  <2> QED
    BY <2>4, <2>5, <2>6, <2>7, <2>8, <2>9, <2>10, <2>11 DEF Next
<1> QED
  BY <1>1, <1>2, TypeCorrect, PTL DEF Spec

(***************************************************************************)
(* No node is ever overbooked when nodes stay and all profiles skip the    *)
(* same nodes: no exception for dropped reservations is needed, whatever   *)
(* patches, replies or deliveries are lost or repeated.                    *)
(***************************************************************************)
THEOREM NothingOverbooked ==
  ASSUME NodesStay, SkipSameNodes
  PROVE  Spec => []NeverOverbooked
<1>1. KeptInv /\ NoDoubleBooking => NeverOverbooked
  BY DEF KeptInv, NoDoubleBooking, NeverOverbooked
<1> QED
  BY <1>1, KeptInvariant, NeverDoubleBooked, PTL
=============================================================================
