-------------------------- MODULE ReconcilerProofs --------------------------
(***************************************************************************)
(* Proofs about Reconciler, for every set of pods, nodes, profiles and     *)
(* faults: the type invariant, and that no node is double booked.          *)
(***************************************************************************)
EXTENDS Reconciler, LedgerProofs

-----------------------------------------------------------------------------
(* What the constants and the operators yield.                             *)

\* Demand: a map of quantities, whatever the source of the profile.
LEMMA DemandType ==
  ASSUME NEW p \in Pod
  PROVE  /\ IsQuantities(Demand(p))
         /\ \A r \in Resource : At(Demand(p), r) \in 0 .. MaxQuantity
<1>1. ASSUME NEW m, NEW S, IsQuantities(m) PROVE IsQuantities(OnlyResources(m, S))
  BY <1>1 DEF IsQuantities, OnlyResources
<1>2. IsQuantities(NoQuantities)
  BY DEF IsQuantities, NoQuantities
<1>3. IsQuantities(PodSpec[p].requests) /\ IsQuantities(PodSpec[p].annotations)
  BY PodSpecAssumption
<1>4. ASSUME NEW source PROVE IsQuantities(ExtractDemand(PodSpec[p], source))
  <2>1. CASE source.type = "ResourceRequest" /\ source.resources # {}
    BY <1>1, <1>3, <2>1 DEF ExtractDemand
  <2>2. CASE source.type = "ResourceRequest" /\ source.resources = {}
    BY <1>1, <1>3, <2>2 DEF ExtractDemand
  <2>3. CASE source.type = "Annotation"
    BY <1>1, <1>3, <2>3 DEF ExtractDemand
  <2>4. CASE source.type \notin {"ResourceRequest", "Annotation"}
    BY <1>2, <2>4 DEF ExtractDemand
  <2> QED
    BY <2>1, <2>2, <2>3, <2>4
<1>5. IsQuantities(Demand(p))
  BY <1>2, <1>4 DEF Demand
<1> QED
  BY <1>5, MaxQuantityAssumption DEF IsQuantities, At

\* Allocatable: quantities, and for no resource more than the capacity.
LEMMA AllocatableType ==
  ASSUME NEW n \in Node, NEW node
  PROVE  /\ IsQuantities(Allocatable(n, node))
         /\ \A r \in Resource :
              /\ At(Allocatable(n, node), r) \in Nat
              /\ At(NodeSpec[n].capacity, r) \in Nat
              /\ At(Allocatable(n, node), r) <= At(NodeSpec[n].capacity, r)
<1>1. IsQuantities(NodeSpec[n].capacity)
  BY NodeSpecAssumption
<1>2. ASSUME NEW S PROVE IsQuantities(OnlyResources(NodeSpec[n].capacity, S))
  BY <1>1 DEF IsQuantities, OnlyResources
<1>3. ASSUME NEW S, NEW r \in Resource
      PROVE  /\ At(OnlyResources(NodeSpec[n].capacity, S), r) \in Nat
             /\ At(NodeSpec[n].capacity, r) \in Nat
             /\ At(OnlyResources(NodeSpec[n].capacity, S), r) <= At(NodeSpec[n].capacity, r)
  <2> DEFINE m == NodeSpec[n].capacity
  <2>1. IsQuantities(m)
    BY <1>1
  <2> HIDE DEF m
  <2>2. \A x \in DOMAIN m : m[x] \in Nat
    BY <2>1, MaxQuantityAssumption DEF IsQuantities
  <2>3. /\ At(OnlyResources(m, S), r) \in Nat /\ At(m, r) \in Nat
        /\ At(OnlyResources(m, S), r) <= At(m, r)
    BY <2>2 DEF OnlyResources, At
  <2> QED
    BY <2>3 DEF m
<1> QED
  BY <1>2, <1>3 DEF Allocatable

\* A new entry is an entry.
LEMMA NewEntryType ==
  ASSUME NEW alloc, IsQuantities(alloc), NEW labels, NEW taints
  PROVE  IsEntry(NewEntry(alloc, labels, taints))
BY DEF IsEntry, NewEntry, Zero

\* Reserving on a map of entries keeps its domain and its entries.
LEMMA ReserveType ==
  ASSUME NEW entries, \A n \in DOMAIN entries : IsEntry(entries[n]),
         NEW name \in DOMAIN entries, NEW demand,
         \A r \in Resource : At(demand, r) \in Nat
  PROVE  /\ DOMAIN Reserve(entries, name, demand) = DOMAIN entries
         /\ \A n \in DOMAIN entries : IsEntry(Reserve(entries, name, demand)[n])
BY DEF Reserve, IsEntry

\* Usage is a vector of natural numbers.
LEMMA UsageType ==
  ASSUME NEW n, NEW view
  PROVE  Usage(n, view) \in [Resource -> Nat]
<1>1. IsFiniteSet(BoundTo(n, view))
  BY SetsAssumption, FS_Subset DEF BoundTo
<1>2. ASSUME NEW r \in Resource
      PROVE  Tally(BoundTo(n, view), [p \in Pod |-> At(PodSpec[p].requests, r)]) \in Nat
  BY <1>1, TallyType
<1> QED
  BY <1>2 DEF Usage

\* Restoring reservations keeps domain and entries.
LEMMA RestoreType ==
  ASSUME NEW rebuilt, \A n \in DOMAIN rebuilt : IsEntry(rebuilt[n]),
         NEW old, \A n \in DOMAIN old : IsEntry(old[n])
  PROVE  /\ DOMAIN RestoreReservations(rebuilt, old) = DOMAIN rebuilt
         /\ \A n \in DOMAIN rebuilt : IsEntry(RestoreReservations(rebuilt, old)[n])
<1>1. ASSUME NEW n PROVE ReservedOn(old, n) \in [Resource -> Nat]
  BY DEF ReservedOn, IsEntry, Zero
<1> QED
  BY <1>1 DEF RestoreReservations, IsEntry

\* The nodes put in the ledger.
LEMMA AddedNodesType ==
  ASSUME NEW pr
  PROVE  /\ DOMAIN AddedNodes(pr) \subseteq Node
         /\ \A n \in DOMAIN AddedNodes(pr) : IsEntry(AddedNodes(pr)[n])
         /\ DOMAIN WithUsage(AddedNodes(pr)) = DOMAIN AddedNodes(pr)
         /\ \A n \in DOMAIN AddedNodes(pr) : IsEntry(WithUsage(AddedNodes(pr))[n])
<1>1. ASSUME NEW n \in Node
      PROVE  IsEntry(NewEntry(Allocatable(n, nodeCache[n]), NodeSpec[n].labels,
                              Taints(n, nodeCache[n])))
  BY AllocatableType, NewEntryType
<1>2. /\ DOMAIN AddedNodes(pr) \subseteq Node
      /\ \A n \in DOMAIN AddedNodes(pr) : IsEntry(AddedNodes(pr)[n])
  BY <1>1 DEF AddedNodes, ListedNodes
<1> QED
  BY <1>2, UsageType DEF WithUsage, IsEntry

\* What the detectors can find.
LEMMA DetectionsType ==
  ASSUME TypeOK, NEW detected \in PossibleDetections, NEW d \in detected
  PROVE  d.name \in InflightName /\ IsQuantities(d.allocatable)
<1>1. ASSUME NEW name \in InflightName
      PROVE  Unknown(name).name \in InflightName /\ IsQuantities(Unknown(name).allocatable)
  BY DEF Unknown, Detected, IsQuantities, NoQuantities
<1>2. ASSUME NEW e \in ClusterAutoscalerDetect
      PROVE  e.name \in InflightName /\ IsQuantities(e.allocatable)
  BY <1>1 DEF ClusterAutoscalerDetect, InflightName
<1>3. ASSUME NEW e \in GOATScalerDetect
      PROVE  e.name \in InflightName /\ IsQuantities(e.allocatable)
  BY <1>1 DEF GOATScalerDetect, InflightName, TypeOK
<1>4. ASSUME NEW e \in NotReadyDetect
      PROVE  e.name \in InflightName /\ IsQuantities(e.allocatable)
  BY AllocatableType DEF NotReadyDetect, Detected, InflightName
<1>5. detected \in {ClusterAutoscalerDetect, GOATScalerDetect, NotReadyDetect, {}}
  BY DEF PossibleDetections, DetectorChain
<1> QED
  BY <1>2, <1>3, <1>4, <1>5

\* Clearing in-flight entries keeps those that stay.
LEMMA ClearedType ==
  ASSUME TypeOK, NEW pr
  PROVE  /\ DOMAIN ClearInflightByPrefix(ledgerInflight, pr) \subseteq Profile \X InflightName
         /\ \A key \in DOMAIN ClearInflightByPrefix(ledgerInflight, pr) :
              IsEntry(ClearInflightByPrefix(ledgerInflight, pr)[key])
         /\ DOMAIN ClearedInflight(pr) \subseteq Profile \X InflightName
         /\ \A key \in DOMAIN ClearedInflight(pr) : IsEntry(ClearedInflight(pr)[key])
<1> DEFINE kept == ClearInflightByPrefix(ledgerInflight, pr)
           tasks == {<<pr, t>> : t \in UNION {NodeSpec[n].tasks : n \in ListedNodes(pr)}}
<1>1. /\ DOMAIN kept \subseteq Profile \X InflightName
      /\ \A key \in DOMAIN kept : IsEntry(kept[key])
  BY DEF ClearInflightByPrefix, TypeOK
<1>2. ClearedInflight(pr) = RemoveInflightNodes(kept, tasks)
  BY DEF ClearedInflight
<1> HIDE DEF kept, tasks
<1>3. /\ DOMAIN ClearedInflight(pr) \subseteq Profile \X InflightName
      /\ \A key \in DOMAIN ClearedInflight(pr) : IsEntry(ClearedInflight(pr)[key])
  BY <1>1, <1>2 DEF RemoveInflightNodes
<1> QED
  BY <1>1, <1>3 DEF kept

\* The in-flight entries of a profile, with their templates.
LEMMA AddedInflightType ==
  ASSUME TypeOK, NEW p \in Pod, ProfileOf(p) \in Profile,
         NEW detected \in PossibleDetections
  PROVE  /\ DOMAIN AddedInflight(p, detected) \subseteq Profile \X InflightName
         /\ \A key \in DOMAIN AddedInflight(p, detected) :
              IsEntry(AddedInflight(p, detected)[key])
<1> DEFINE pr    == ProfileOf(p)
           kept  == ClearedInflight(pr)
           found == [key \in {<<pr, d.name>> : d \in detected} |->
                       InflightEntry(CHOOSE d \in detected : d.name = key[2], p)]
<1>1. /\ DOMAIN kept \subseteq Profile \X InflightName
      /\ \A key \in DOMAIN kept : IsEntry(kept[key])
  BY ClearedType
<1>2. ASSUME NEW d \in detected PROVE IsEntry(InflightEntry(d, p))
  <2> DEFINE templates == ProfileSpec[ProfileOf(p)].templates
             i == FindTemplate(d.name, p, templates)
  <2>1. IsQuantities(d.allocatable)
    BY DetectionsType
  <2>2. i \in DOMAIN templates => IsQuantities(templates[i].allocatable)
    BY ProfileSpecAssumption
  <2> HIDE DEF i, templates
  <2>3. i \in DOMAIN templates =>
          IsQuantities(IF DOMAIN d.allocatable = {} THEN templates[i].allocatable
                       ELSE d.allocatable)
    BY <2>1, <2>2
  <2> QED
    BY <2>1, <2>3, NewEntryType DEF InflightEntry, i, templates
<1>3. DOMAIN found \subseteq Profile \X InflightName
  BY DetectionsType
<1>4. ASSUME NEW key \in DOMAIN found PROVE IsEntry(found[key])
  <2>1. PICK e \in detected : key = <<pr, e.name>>
    OBVIOUS
  <2>2. (CHOOSE d \in detected : d.name = key[2]) \in detected
    BY <2>1
  <2> QED
    BY <1>2, <2>2
<1>5. AddedInflight(p, detected) = Entries(found, kept)
  BY DEF AddedInflight
<1> HIDE DEF found, kept
<1> QED
  BY <1>1, <1>3, <1>4, <1>5 DEF Entries

-----------------------------------------------------------------------------
(* Type correctness.                                                       *)

\* A status is written with natural numbers.
LEMMA StatusType ==
  ASSUME TypeOK, NEW pr, NEW inflight, NEW synced \in BOOLEAN,
         DOMAIN inflight \subseteq Profile \X InflightName,
         UpdateProfileStatus(pr, inflight, synced)
  PROVE  status' \in [Profile -> [activeGates : Nat, inflightNodes : Nat,
                                  ledgerReady : BOOLEAN]]
<1>1. IsFiniteSet(Profile \X InflightName)
  <2>1. IsFiniteSet(0 .. MaxPending - 1)
    BY SetsAssumption, FS_Interval
  <2>2. IsFiniteSet(Pending)
    BY <2>1, SetsAssumption, FS_Product DEF Pending
  <2>3. IsFiniteSet(InflightName)
    BY <2>2, SetsAssumption, FS_Union DEF InflightName
  <2> QED
    BY <2>3, SetsAssumption, FS_Product
<1>2. Cardinality(DOMAIN inflight) \in Nat
  BY <1>1, FS_Subset, FS_CardinalityType
<1>3. Cardinality({p \in Pod : ProfileOf(p) = pr /\ podCache[p].phase = "gated"}) \in Nat
  BY SetsAssumption, FS_Subset, FS_CardinalityType
<1>4. StatusNow(pr, inflight, synced) \in
        [activeGates : Nat, inflightNodes : Nat, ledgerReady : BOOLEAN]
  BY <1>2, <1>3 DEF StatusNow
<1> QED
  BY <1>4 DEF UpdateProfileStatus, TypeOK

\* A patch leaves a well-typed pod.
LEMMA ReleaseGatesType ==
  ASSUME TypeOK, NEW p \in Pod, NEW target \in Node \cup {NoNode},
         NEW reason \in Reason, NEW seenHeldBy, NEW waiting \in SUBSET Pod,
         ReleaseGates(p, target, reason, seenHeldBy, waiting)
  PROVE  pods' \in [Pod -> PodType] /\ queue' \subseteq Pod
<1>1. pods[p] \in PodType
  BY DEF TypeOK
<1>2. Patched(p, target, reason, seenHeldBy) \in PodType
  BY <1>1 DEF Patched, PodType
<1> QED
  BY <1>2 DEF ReleaseGates, TypeOK

\* The cluster's own steps.
LEMMA ClusterType ==
  ASSUME TypeOK, ClusterNext
  PROVE  /\ pods' \in [Pod -> PodType] /\ nodes' \in [Node -> NodeType]
         /\ profiles' \subseteq Profile
         /\ pending' \in [Group -> 0 .. MaxPending] /\ events' \subseteq Task
         /\ expired' \subseteq Pod
<1> pods \in [Pod -> PodType] /\ nodes \in [Node -> NodeType]
  BY DEF TypeOK
<1>1. GonePod \in PodType
  BY DEF GonePod, AbsentPod, PodType, Reason
<1>2. ASSUME NEW p \in Pod, CreatePod(p) \/ EndPod(p) PROVE pods' \in [Pod -> PodType]
  <2>1. CASE CreatePod(p)
    <3>1. PICK ph \in {"gated", "released"} :
            pods' = [pods EXCEPT ![p] = [pods[p] EXCEPT !.phase = ph]]
      BY <2>1 DEF CreatePod
    <3>2. [pods[p] EXCEPT !.phase = ph] \in PodType
      BY DEF PodType
    <3> QED
      BY <3>1, <3>2
  <2>2. CASE EndPod(p)
    BY <1>1, <2>2 DEF EndPod
  <2> QED
    BY <1>2, <2>1, <2>2
<1>3. ASSUME NEW p \in Pod, NEW n \in Node, Bind(p, n)
      PROVE  pods' \in [Pod -> PodType]
  <2>1. [pods[p] EXCEPT !.phase = "bound", !.node = n] \in PodType
    BY DEF PodType
  <2>2. pods' = [pods EXCEPT ![p] = [pods[p] EXCEPT !.phase = "bound", !.node = n]]
    BY <1>3 DEF Bind
  <2> QED
    BY <2>1, <2>2
<1>4. ASSUME NEW n \in Node, RemoveNode(n) PROVE pods' \in [Pod -> PodType]
  BY <1>1, <1>4 DEF RemoveNode
<1>5. ASSUME NEW n \in Node, NEW node \in NodeType, SetNode(n, node)
      PROVE  nodes' \in [Node -> NodeType]
  BY <1>5 DEF SetNode
<1>6. ASSUME NEW n \in Node,
             \/ RegisterNode(n) \/ NodeReady(n) \/ NodeNotReady(n)
             \/ RegisterDevices(n) \/ DrainNode(n) \/ RemoveNode(n)
      PROVE  nodes' \in [Node -> NodeType]
  <2>1. nodes[n] \in NodeType
    OBVIOUS
  <2>2. /\ [nodes[n] EXCEPT !.phase = "ready"] \in NodeType
        /\ [nodes[n] EXCEPT !.phase = "notready"] \in NodeType
        /\ [nodes[n] EXCEPT !.devices = TRUE] \in NodeType
        /\ [nodes[n] EXCEPT !.deleting = TRUE] \in NodeType
        /\ AbsentNode \in NodeType
        /\ [phase |-> "starting", deleting |-> FALSE,
            devices |-> NodeSpec[n].late = {}] \in NodeType
    BY <2>1 DEF NodeType, AbsentNode
  <2> QED
    BY <1>5, <1>6, <2>2
    DEF RegisterNode, NodeReady, NodeNotReady, RegisterDevices, DrainNode, RemoveNode
<1> QED
  BY <1>2, <1>3, <1>4, <1>6
  DEF ClusterNext, CreatePod, Expire, EndPod, Bind, RegisterNode, NodeReady,
      NodeNotReady, RegisterDevices, DrainNode, RemoveNode, SetNode,
      SetPending, ReportTask, DeleteProfile, CreateProfile, signals, TypeOK

\* Type correctness of Reconciler: whatever the interleaving of the worker, the
\* caches and the cluster, quantities stay natural numbers and the two maps of
\* the ledger keep their keys apart.
THEOREM TypeCorrect == Spec => []TypeOK
<1>1. Init => TypeOK
  <2> SUFFICES ASSUME Init PROVE TypeOK
    OBVIOUS
  <2>1. pods \in [Pod -> PodType] /\ nodes \in [Node -> NodeType]
    BY DEF Init, ClusterInit, AbsentPod, AbsentNode, PodType, NodeType, Reason
  <2>2. worker \in WorkerType
    BY DEF Init, Idle, WorkerType, Reason
  <2>3. pending \in [Group -> 0 .. MaxPending]
    BY SetsAssumption DEF Init, ClusterInit
  <2>4. status \in [Profile -> [activeGates : Nat, inflightNodes : Nat, ledgerReady : BOOLEAN]]
    BY DEF Init
  <2>5. DOMAIN ledgerNodes = {} /\ DOMAIN ledgerInflight = {}
    BY DEF Init, NoEntries
  <2> QED
    BY <2>1, <2>2, <2>3, <2>4, <2>5 DEF Init, ClusterInit, TypeOK
<1>2. TypeOK /\ [Next]_vars => TypeOK'
  <2> SUFFICES ASSUME TypeOK, [Next]_vars PROVE TypeOK'
    OBVIOUS
  <2> USE DEF clusterVars, signals, controllerVars, caches, ledger
  <2>1. CASE UNCHANGED vars
    BY <2>1 DEF vars, TypeOK
  <2>2. CASE ClusterNext /\ UNCHANGED controllerVars
    BY <2>2, ClusterType DEF TypeOK
  <2>3. ASSUME NEW p \in Pod, DeliverPod(p) PROVE TypeOK'
    BY <2>3 DEF DeliverPod, TypeOK
  <2>4. ASSUME NEW p \in Pod, QueuePod(p) PROVE TypeOK'
    BY <2>4 DEF QueuePod, TypeOK
  <2>5. ASSUME NEW p \in Pod, ReconcileUngated(p) PROVE TypeOK'
    BY <2>5 DEF ReconcileUngated, TypeOK
  <2>6. ASSUME NEW p \in Pod, ReconcileProfileNotFound(p) PROVE TypeOK'
    <3>1. "profile_not_found" \in Reason
      BY DEF Reason
    <3>2. queue \ {p} \in SUBSET Pod
      BY DEF TypeOK
    <3>3. pods' \in [Pod -> PodType] /\ queue' \subseteq Pod
      BY <2>6, <3>1, <3>2, ReleaseGatesType DEF ReconcileProfileNotFound
    <3> QED
      BY <2>6, <3>3 DEF ReconcileProfileNotFound, TypeOK
  <2>7. ASSUME NEW p \in Pod, SyncLedgerFails(p) PROVE TypeOK'
    <3>1. ProfileOf(p) \in Profile
      BY <2>7 DEF SyncLedgerFails, Reconcilable, TypeOK
    <3>2. /\ DOMAIN ledgerNodes' \subseteq Node
          /\ \A n \in DOMAIN ledgerNodes' : IsEntry(ledgerNodes'[n])
      BY <2>7, AddedNodesType DEF SyncLedgerFails, NoEntries
    <3>3. /\ DOMAIN ledgerInflight' \subseteq Profile \X InflightName
          /\ \A key \in DOMAIN ledgerInflight' : IsEntry(ledgerInflight'[key])
      BY <2>7, ClearedType DEF SyncLedgerFails
    <3>4. status' \in [Profile -> [activeGates : Nat, inflightNodes : Nat,
                                   ledgerReady : BOOLEAN]]
      BY <2>7, <3>1, <3>3, StatusType DEF SyncLedgerFails
    <3>5. lost' \subseteq Node
      BY <2>7 DEF SyncLedgerFails, LostBy, TypeOK
    <3> QED
      BY <2>7, <3>2, <3>3, <3>4, <3>5 DEF SyncLedgerFails, TypeOK
  <2>8. ASSUME NEW p \in Pod, SyncLedger(p) PROVE TypeOK'
    <3>1. ProfileOf(p) \in Profile
      BY <2>8 DEF SyncLedger, Reconcilable, TypeOK
    <3>2. /\ DOMAIN ledgerNodes' \subseteq Node
          /\ \A n \in DOMAIN ledgerNodes' : IsEntry(ledgerNodes'[n])
      <4> DEFINE rebuilt == WithUsage(AddedNodes(ProfileOf(p)))
      <4>1. DOMAIN rebuilt \subseteq Node /\ \A n \in DOMAIN rebuilt : IsEntry(rebuilt[n])
        BY AddedNodesType
      <4>2. ledgerNodes' = RestoreReservations(rebuilt, ledgerNodes)
        BY <2>8 DEF SyncLedger
      <4>3. \A n \in DOMAIN ledgerNodes : IsEntry(ledgerNodes[n])
        BY DEF TypeOK
      <4> HIDE DEF rebuilt
      <4> QED
        BY <4>1, <4>2, <4>3, RestoreType
    <3>3. /\ DOMAIN ledgerInflight' \subseteq Profile \X InflightName
          /\ \A key \in DOMAIN ledgerInflight' : IsEntry(ledgerInflight'[key])
      <4>1. PICK detected \in PossibleDetections :
              ledgerInflight' = RestoreReservations(AddedInflight(p, detected), ledgerInflight)
        BY <2>8 DEF SyncLedger
      <4> DEFINE rebuilt == AddedInflight(p, detected)
      <4>2. /\ DOMAIN rebuilt \subseteq Profile \X InflightName
            /\ \A key \in DOMAIN rebuilt : IsEntry(rebuilt[key])
        BY <3>1, AddedInflightType
      <4>3. \A key \in DOMAIN ledgerInflight : IsEntry(ledgerInflight[key])
        BY DEF TypeOK
      <4>4. ledgerInflight' = RestoreReservations(rebuilt, ledgerInflight)
        BY <4>1
      <4> HIDE DEF rebuilt
      <4> QED
        BY <4>2, <4>3, <4>4, RestoreType
    <3>4. worker' \in WorkerType
      <4>1. Len(RulesOf(p)) \in Nat
        BY <3>1, ProfileSpecAssumption DEF RulesOf
      <4>2. podCache[p].heldBy \in Rule \cup {NoRule}
        BY DEF TypeOK, PodType
      <4> QED
        BY <2>8, <4>1, <4>2 DEF SyncLedger, AfterSync, WorkerType, Reason
    <3>5. lost' \subseteq Node
      BY <2>8 DEF SyncLedger, LostBy, TypeOK
    <3> QED
      BY <2>8, <3>2, <3>3, <3>4, <3>5 DEF SyncLedger, TypeOK
  <2>9. ASSUME NEW n \in Node, DeliverNode(n) PROVE TypeOK'
    BY <2>9 DEF DeliverNode, TypeOK
  <2>14. ASSUME NEW pr \in Profile, DeliverProfile(pr) PROVE TypeOK'
    BY <2>14 DEF DeliverProfile, TypeOK
  <2>10. CASE SkipUnknownRule
    BY <2>10 DEF SkipUnknownRule, WorkerType, TypeOK
  <2>11. CASE EvaluateRule
    <3> DEFINE p    == worker.pod
               rule == RulesOf(p)[worker.next]
    <3>1. p \in Pod /\ worker \in WorkerType /\ rule \in Rule
      <4>1. worker \in WorkerType /\ p # NoPod /\ rule \in Registry
        BY <2>11 DEF EvaluateRule, TypeOK
      <4> QED
        BY <4>1 DEF WorkerType, Rule
    <3>2. \A r \in Resource : At(Demand(p), r) \in Nat
      BY <3>1, DemandType
    <3>3. PICK o \in Evaluate(rule, ledgerNodes, ledgerInflight, Demand(p),
                              ExtractConstraints(PodSpec[p]), ProfileOf(p)) :
            /\ ledgerNodes' = o.nodes
            /\ ledgerInflight' = o.inflight
            /\ \/ /\ o.release
                  /\ worker' = [worker EXCEPT !.next = @ + 1,
                                   !.target = IF o.node = NoNode THEN @ ELSE o.node]
                  /\ UNCHANGED <<pods, status>>
               \/ /\ ~ o.release
                  /\ worker' = Idle
                  /\ AnnotatePod(p, rule, worker.heldBy)
                  /\ UpdateProfileStatus(ProfileOf(p), o.inflight, TRUE)
      BY <2>11 DEF EvaluateRule
    <3>4. queue' \subseteq Pod
      BY <2>11, <3>1 DEF EvaluateRule, TypeOK
    <3> HIDE DEF p, rule
    <3>5. \/ /\ o.node = NoNode /\ o.nodes = ledgerNodes
             /\ \/ o.inflight = ledgerInflight
                \/ \E key \in DOMAIN ledgerInflight :
                     o.inflight = Reserve(ledgerInflight, key, Demand(p))
          \/ \E n \in DOMAIN ledgerNodes :
                /\ o.node = n /\ o.nodes = Reserve(ledgerNodes, n, Demand(p))
                /\ o.inflight = ledgerInflight
      BY EvaluateOutcomes, SMTT(90)
    <3>6. /\ DOMAIN ledgerNodes' \subseteq Node
          /\ \A n \in DOMAIN ledgerNodes' : IsEntry(ledgerNodes'[n])
          /\ DOMAIN ledgerInflight' \subseteq Profile \X InflightName
          /\ \A key \in DOMAIN ledgerInflight' : IsEntry(ledgerInflight'[key])
          /\ o.node \in Node \cup {NoNode}
      BY <3>2, <3>3, <3>5, ReserveType DEF TypeOK
    <3>7. worker' \in WorkerType
      <4>1. Idle \in WorkerType
        BY DEF Idle, WorkerType, Reason
      <4>2. [worker EXCEPT !.next = @ + 1,
                           !.target = IF o.node = NoNode THEN @ ELSE o.node] \in WorkerType
        <5>1. ASSUME NEW w \in WorkerType, NEW i \in Nat \ {0},
                     NEW t \in Node \cup {NoNode}
              PROVE  [w EXCEPT !.next = i, !.target = t] \in WorkerType
          BY DEF WorkerType
        <5>2. worker.next + 1 \in Nat \ {0} /\ worker.target \in Node \cup {NoNode}
          BY <3>1 DEF WorkerType
        <5> QED
          BY <3>1, <3>6, <5>1, <5>2
      <4> QED
        BY <3>3, <4>1, <4>2
    <3>8. pods' \in [Pod -> PodType]
      <4>1. pods \in [Pod -> PodType]
        BY DEF TypeOK
      <4>2. [pods[p] EXCEPT !.heldBy = rule] \in PodType
        BY <3>1, <4>1 DEF PodType
      <4>3. \/ pods' = pods
            \/ pods' = [pods EXCEPT ![p] = [pods[p] EXCEPT !.heldBy = rule]]
        BY <3>3 DEF AnnotatePod
      <4> QED
        BY <3>1, <4>1, <4>2, <4>3
    <3>9. status' \in [Profile -> [activeGates : Nat, inflightNodes : Nat,
                                   ledgerReady : BOOLEAN]]
      BY <3>3, <3>6, StatusType DEF TypeOK
    <3> QED
      BY <2>11, <3>4, <3>6, <3>7, <3>8, <3>9 DEF EvaluateRule, TypeOK
  <2>12. CASE Release
    <3>1. /\ worker.pod \in Pod /\ worker.target \in Node \cup {NoNode}
          /\ worker.reason \in Reason /\ queue \in SUBSET Pod
      BY <2>12 DEF Release, RulesDone, WorkerType, TypeOK
    <3>2. pods' \in [Pod -> PodType] /\ queue' \subseteq Pod
      BY <2>12, <3>1, ReleaseGatesType DEF Release
    <3>3. status' \in [Profile -> [activeGates : Nat, inflightNodes : Nat,
                                   ledgerReady : BOOLEAN]]
      BY <2>12, StatusType DEF Release, TypeOK
    <3>4. worker' \in WorkerType
      BY <2>12 DEF Release, Idle, WorkerType, Reason
    <3> QED
      BY <2>12, <3>2, <3>3, <3>4 DEF Release, TypeOK
  <2>13. CASE Restart
    <3>1. worker' \in WorkerType
      BY <2>13 DEF Restart, Idle, WorkerType, Reason
    <3>2. lost' \subseteq Node
      BY <2>13 DEF Restart, LostBy, TypeOK
    <3>3. /\ podCache' \in [Pod -> PodType] /\ nodeCache' \in [Node -> NodeType]
          /\ profileCache' \subseteq Profile
      BY <2>13 DEF Restart, TypeOK
    <3>4. DOMAIN ledgerNodes' = {} /\ DOMAIN ledgerInflight' = {}
      BY <2>13 DEF Restart, NoEntries
    <3>5. queue' \subseteq Pod /\ UNCHANGED <<clusterVars, status>>
      BY <2>13 DEF Restart
    <3> QED
      BY <3>1, <3>2, <3>3, <3>4, <3>5 DEF TypeOK
  <2> QED
    BY <2>1, <2>2, <2>3, <2>4, <2>5, <2>6, <2>7, <2>8, <2>9, <2>10, <2>11, <2>12,
       <2>13, <2>14
    DEF Next
<1> QED
  BY <1>1, <1>2, PTL DEF Spec

-----------------------------------------------------------------------------
(* No double booking.                                                      *)

\* What is reserved under a name, entry or not, is a natural number.
LEMMA ReservedOnType ==
  ASSUME TypeOK, NEW n, NEW r \in Resource
  PROVE  ReservedOn(ledgerNodes, n)[r] \in Nat
<1>1. CASE n \in DOMAIN ledgerNodes
  <2>1. ledgerNodes[n].reserved \in [Resource -> Nat]
    BY <1>1 DEF TypeOK, IsEntry
  <2>2. ReservedOn(ledgerNodes, n) = ledgerNodes[n].reserved
    BY <1>1 DEF ReservedOn
  <2> QED
    BY <2>1, <2>2
<1>2. CASE n \notin DOMAIN ledgerNodes
  BY <1>2 DEF ReservedOn, Zero
<1> QED
  BY <1>1, <1>2

\* The pods with a claim on a node are finitely many, so they have a tally.
LEMMA ClaimsTally ==
  ASSUME NEW n, NEW w
  PROVE  /\ IsFiniteSet(Claims(n)) /\ IsFiniteSet(PinnedTo(n))
         /\ Tally(Claims(n), w) \in Nat
<1>1. IsFiniteSet(Claims(n)) /\ IsFiniteSet(PinnedTo(n))
  BY SetsAssumption, FS_Subset DEF Claims, PinnedTo
<1> QED
  BY <1>1, TallyType

\* A step that keeps the reservations of the nodes it does not mark as lost,
\* and adds no claim, keeps the claims covered.
LEMMA ClaimsCarryOver ==
  ASSUME TypeOK, ClaimsReserved, lost \subseteq lost',
         \A n \in Node \ lost' : /\ ReservedOn(ledgerNodes', n) = ReservedOn(ledgerNodes, n)
                                 /\ Claims(n)' \subseteq Claims(n)
  PROVE  ClaimsReserved'
<1> SUFFICES ASSUME NEW n \in Node \ lost', NEW r \in Resource
             PROVE  Tally(Claims(n)', DemandFor(r)) <= ReservedOn(ledgerNodes', n)[r]
  BY DEF ClaimsReserved
<1> DEFINE before == Tally(Claims(n), DemandFor(r))
           after  == Tally(Claims(n)', DemandFor(r))
           held   == ReservedOn(ledgerNodes, n)[r]
<1>1. before \in Nat /\ IsFiniteSet(Claims(n))
  BY ClaimsTally
<1>2. after <= before
  BY <1>1, TallyMonotone
<1>3. before <= held
  BY DEF ClaimsReserved
<1>4. held \in Nat
  BY ReservedOnType
<1>5. after \in Nat
  <2>1. IsFiniteSet(Claims(n)')
    BY <1>1, FS_Subset
  <2> QED
    BY <2>1, TallyType
<1>6. ReservedOn(ledgerNodes', n)[r] = held
  OBVIOUS
<1> HIDE DEF before, after, held
<1>7. after <= held
  BY <1>1, <1>2, <1>3, <1>4, <1>5
<1> QED
  BY <1>6, <1>7 DEF after

\* Reserving what fits on an entry keeps its reservations within capacity.
LEMMA ReserveWithinCapacity ==
  ASSUME TypeOK, WithinCapacity, NEW n \in DOMAIN ledgerNodes, NEW demand,
         IsQuantities(demand), Fits(ledgerNodes[n], demand), NEW r \in Resource
  PROVE  ledgerNodes[n].reserved[r] + At(demand, r) <= At(NodeSpec[n].capacity, r)
<1> DEFINE e == ledgerNodes[n]
<1>1. n \in Node /\ IsEntry(e)
  BY DEF TypeOK
<1>2. /\ e.reserved[r] \in Nat /\ e.used[r] \in Nat
      /\ At(e.allocatable, r) \in Nat
  <2>1. /\ IsQuantities(e.allocatable)
        /\ e.used \in [Resource -> Nat] /\ e.reserved \in [Resource -> Nat]
    BY <1>1 DEF IsEntry
  <2> HIDE DEF e
  <2>2. At(e.allocatable, r) \in Nat
    BY <2>1, MaxQuantityAssumption DEF IsQuantities, At
  <2> QED
    BY <2>1, <2>2
<1>3. At(NodeSpec[n].capacity, r) \in Nat
  BY <1>1, AllocatableType
<1>4. /\ At(e.allocatable, r) <= At(NodeSpec[n].capacity, r)
      /\ e.reserved[r] <= At(NodeSpec[n].capacity, r)
  BY DEF WithinCapacity
<1>5. CASE r \in DOMAIN demand
  <2>1. At(demand, r) \in Nat
    BY <1>5, MaxQuantityAssumption DEF IsQuantities, At
  <2>2. At(e.allocatable, r) - e.used[r] - e.reserved[r] >= At(demand, r)
    BY <1>5 DEF Fits, Available, At
  <2> DEFINE a == At(e.allocatable, r)
             u == e.used[r]
             v == e.reserved[r]
             d == At(demand, r)
             k == At(NodeSpec[n].capacity, r)
  <2>3. /\ a \in Nat /\ u \in Nat /\ v \in Nat /\ d \in Nat /\ k \in Nat
        /\ a - u - v >= d /\ a <= k
    BY <1>2, <1>3, <1>4, <2>1, <2>2
  <2> HIDE DEF a, u, v, d, k, e
  <2>4. v + d <= k
    BY <2>3
  <2> QED
    BY <2>4 DEF v, d, k, e
<1>6. CASE r \notin DOMAIN demand
  <2>1. At(demand, r) = 0
    BY <1>6 DEF At
  <2> DEFINE v == e.reserved[r]
             k == At(NodeSpec[n].capacity, r)
  <2>2. v \in Nat /\ v <= k
    BY <1>2, <1>4
  <2> HIDE DEF v, k
  <2>3. v + 0 <= k
    BY <2>2
  <2> QED
    BY <2>1, <2>3 DEF v, k
<1> QED
  BY <1>5, <1>6

\* The cluster's own steps add no claim: a pod gets no target from them, and a
\* pod that ends gives its claim up.
LEMMA ClusterClaims ==
  ASSUME TypeOK, Untargeted, ClusterNext, UNCHANGED worker
  PROVE  /\ Untargeted'
         /\ \A n \in Node : Claims(n)' \subseteq Claims(n)
<1> DEFINE NoNewTarget(p) ==
             /\ pods'[p].target \in {pods[p].target, NoNode}
             /\ pods'[p].phase \in {"released", "bound"} =>
                   pods[p].phase \in {"released", "bound"} \/ pods[p].target = NoNode
             /\ pods'[p].phase \in {"absent", "gated"} => pods[p].target = NoNode
<1>1. \A q \in Pod : NoNewTarget(q)
  <2> pods \in [Pod -> PodType]
    BY DEF TypeOK
  <2>1. ASSUME NEW p \in Pod, CreatePod(p) PROVE \A q \in Pod : NoNewTarget(q)
    BY <2>1 DEF CreatePod, Untargeted, PodType
  <2>2. ASSUME NEW p \in Pod, EndPod(p) PROVE \A q \in Pod : NoNewTarget(q)
    BY <2>2 DEF EndPod, GonePod, AbsentPod, Untargeted, PodType
  <2>3. ASSUME NEW p \in Pod, NEW n \in Node, Bind(p, n) PROVE \A q \in Pod : NoNewTarget(q)
    BY <2>3 DEF Bind, Untargeted, PodType
  <2>4. ASSUME NEW n \in Node, RemoveNode(n) PROVE \A q \in Pod : NoNewTarget(q)
    BY <2>4 DEF RemoveNode, GonePod, AbsentPod, Untargeted, PodType
  <2>5. CASE UNCHANGED pods
    BY <2>5 DEF Untargeted
  <2> QED
    BY <2>1, <2>2, <2>3, <2>4, <2>5
    DEF ClusterNext, Expire, RegisterNode, NodeReady, NodeNotReady,
        RegisterDevices, DrainNode, SetPending, ReportTask, DeleteProfile, CreateProfile
<1>2. Untargeted'
  BY <1>1 DEF Untargeted
<1>3. ASSUME NEW n \in Node PROVE Claims(n)' \subseteq Claims(n)
  BY <1>1, SetsAssumption DEF Claims, PinnedTo
<1> QED
  BY <1>2, <1>3

\* A release pins the pod to the target it names, and no other pod.
LEMMA ReleaseClaims ==
  ASSUME TypeOK, Untargeted, NEW p \in Pod, NEW target \in Node \cup {NoNode},
         NEW reason, NEW seenHeldBy, NEW waiting,
         ReleaseGates(p, target, reason, seenHeldBy, waiting)
  PROVE  /\ \A q \in Pod : pods'[q].phase \in {"absent", "gated"} => pods'[q].target = NoNode
         /\ \A n \in Node : PinnedTo(n)' \subseteq
                              PinnedTo(n) \cup (IF target = n THEN {p} ELSE {})
<1> pods \in [Pod -> PodType]
  BY DEF TypeOK
<1>1. CASE UNCHANGED pods
  BY <1>1 DEF Untargeted, PinnedTo
<1>2. CASE /\ PatchAccepted(p, target)
           /\ pods' = [pods EXCEPT ![p] = Patched(p, target, reason, seenHeldBy)]
  <2>1. /\ pods'[p].phase = IF pods[p].phase = "gated" THEN "released" ELSE pods[p].phase
        /\ pods'[p].target = IF target = NoNode THEN pods[p].target ELSE target
        /\ \A q \in Pod \ {p} : pods'[q] = pods[q]
    BY <1>2 DEF Patched, PodType
  <2>2. pods[p].phase \in {"gated", "released", "bound"}
    BY <1>2 DEF PatchAccepted
  <2>3. \A q \in Pod : pods'[q].phase \in {"absent", "gated"} => pods'[q].target = NoNode
    BY <2>1, <2>2 DEF Untargeted
  <2>4. ASSUME NEW n \in Node
        PROVE  PinnedTo(n)' \subseteq PinnedTo(n) \cup (IF target = n THEN {p} ELSE {})
    <3>1. ASSUME NEW q \in PinnedTo(n)', q # p PROVE q \in PinnedTo(n)
      BY <2>1, <3>1 DEF PinnedTo
    <3>2. ASSUME p \in PinnedTo(n)', target # n PROVE p \in PinnedTo(n)
      BY <2>1, <2>2, <3>2, SetsAssumption DEF PinnedTo, Untargeted
    <3> QED
      BY <3>1, <3>2 DEF PinnedTo
  <2> QED
    BY <2>3, <2>4
<1> QED
  BY <1>1, <1>2 DEF ReleaseGates

\* Rebuilding the ledger: the entries stay within capacity, and a node that
\* is not marked as lost has the reservations it had.
LEMMA RebuiltLedger ==
  ASSUME TypeOK, WithinCapacity, NEW pr
  PROVE  /\ ledgerNodes' = RestoreReservations(WithUsage(AddedNodes(pr)), ledgerNodes)
            /\ lost' = LostBy(AddedNodes(pr))
              => /\ WithinCapacity'
                 /\ lost \subseteq lost'
                 /\ \A n \in Node \ lost' :
                      ReservedOn(ledgerNodes', n) = ReservedOn(ledgerNodes, n)
         /\ ledgerNodes' \in {NoEntries, AddedNodes(pr)} /\ lost' = LostBy(NoEntries)
              => /\ WithinCapacity'
                 /\ lost \subseteq lost'
                 /\ \A n \in Node \ lost' :
                      ReservedOn(ledgerNodes', n) = ReservedOn(ledgerNodes, n)
<1>1. ASSUME NEW n \in Node, NEW r \in Resource
      PROVE  /\ At(Allocatable(n, nodeCache[n]), r) <= At(NodeSpec[n].capacity, r)
             /\ 0 <= At(NodeSpec[n].capacity, r)
             /\ ReservedOn(ledgerNodes, n)[r] <= At(NodeSpec[n].capacity, r)
  <2>1. /\ At(NodeSpec[n].capacity, r) \in Nat
        /\ At(Allocatable(n, nodeCache[n]), r) <= At(NodeSpec[n].capacity, r)
    BY AllocatableType
  <2>2. CASE n \in DOMAIN ledgerNodes
    <3>1. ledgerNodes[n].reserved[r] <= At(NodeSpec[n].capacity, r)
      BY <2>2 DEF WithinCapacity
    <3> QED
      BY <2>1, <2>2, <3>1 DEF ReservedOn
  <2>3. CASE n \notin DOMAIN ledgerNodes
    <3>1. ReservedOn(ledgerNodes, n)[r] = 0
      BY <2>3 DEF ReservedOn, Zero
    <3> QED
      BY <2>1, <3>1
  <2> QED
    BY <2>2, <2>3
<1>2. /\ DOMAIN AddedNodes(pr) \subseteq Node
      /\ \A n \in DOMAIN AddedNodes(pr) :
           /\ AddedNodes(pr)[n].allocatable = Allocatable(n, nodeCache[n])
           /\ AddedNodes(pr)[n].reserved = Zero
           /\ IsEntry(AddedNodes(pr)[n])
  BY AddedNodesType DEF AddedNodes, NewEntry
<1>3. ASSUME ledgerNodes' = RestoreReservations(WithUsage(AddedNodes(pr)), ledgerNodes),
             lost' = LostBy(AddedNodes(pr))
      PROVE  /\ WithinCapacity'
             /\ lost \subseteq lost'
             /\ \A n \in Node \ lost' :
                  ReservedOn(ledgerNodes', n) = ReservedOn(ledgerNodes, n)
  <2>1. /\ DOMAIN ledgerNodes' = DOMAIN AddedNodes(pr)
        /\ \A n \in DOMAIN AddedNodes(pr) :
             /\ ledgerNodes'[n].allocatable = Allocatable(n, nodeCache[n])
             /\ ledgerNodes'[n].reserved = ReservedOn(ledgerNodes, n)
    <3> DEFINE used == WithUsage(AddedNodes(pr))
    <3>1. /\ DOMAIN used = DOMAIN AddedNodes(pr)
          /\ \A n \in DOMAIN used :
               /\ used[n].allocatable = Allocatable(n, nodeCache[n])
               /\ IsEntry(used[n])
      <4>1. /\ DOMAIN used = DOMAIN AddedNodes(pr)
            /\ \A n \in DOMAIN used : IsEntry(used[n])
        BY AddedNodesType
      <4>2. ASSUME NEW n \in DOMAIN used
            PROVE  used[n].allocatable = AddedNodes(pr)[n].allocatable
        <5>1. used[n] = [AddedNodes(pr)[n] EXCEPT !.used = Usage(n, podCache)]
          BY <4>1 DEF WithUsage
        <5>2. IsEntry(AddedNodes(pr)[n])
          BY <1>2, <4>1
        <5> QED
          BY <5>1, <5>2 DEF IsEntry
      <4> QED
        BY <1>2, <4>1, <4>2
    <3> HIDE DEF used
    <3>2. ledgerNodes' = RestoreReservations(used, ledgerNodes)
      BY <1>3 DEF used
    <3> QED
      BY <3>1, <3>2 DEF RestoreReservations, IsEntry
  <2>2. WithinCapacity'
    BY <1>1, <1>2, <2>1 DEF WithinCapacity
  <2>3. ASSUME NEW n \in Node \ lost'
        PROVE  ReservedOn(ledgerNodes', n) = ReservedOn(ledgerNodes, n)
    BY <1>3, <2>1 DEF ReservedOn, LostBy
  <2> QED
    BY <1>3, <2>2, <2>3 DEF LostBy
<1>4. ASSUME ledgerNodes' \in {NoEntries, AddedNodes(pr)}, lost' = LostBy(NoEntries)
      PROVE  /\ WithinCapacity'
             /\ lost \subseteq lost'
             /\ \A n \in Node \ lost' :
                  ReservedOn(ledgerNodes', n) = ReservedOn(ledgerNodes, n)
  <2>1. WithinCapacity'
    BY <1>1, <1>2, <1>4 DEF WithinCapacity, NoEntries, Zero
  <2>2. ASSUME NEW n \in Node \ lost'
        PROVE  ReservedOn(ledgerNodes', n) = ReservedOn(ledgerNodes, n)
    BY <1>2, <1>4 DEF ReservedOn, LostBy, NoEntries
  <2> QED
    BY <1>4, <2>1, <2>2 DEF LostBy
<1> QED
  BY <1>3, <1>4

\* One rule: what it reserves on an existing node covers the claim it adds.
LEMMA EvaluateClaims ==
  ASSUME TypeOK, TypeOK', BookingInv, EvaluateRule
  PROVE  BookingInv'
<1> DEFINE p    == worker.pod
           rule == RulesOf(p)[worker.next]
<1> USE DEF BookingInv
<1>1. p \in Pod /\ p # NoPod /\ worker \in WorkerType /\ pods \in [Pod -> PodType]
  BY DEF EvaluateRule, WorkerType, TypeOK
<1>2. /\ IsQuantities(Demand(p))
      /\ \A r \in Resource : At(Demand(p), r) \in 0 .. MaxQuantity
  BY <1>1, DemandType
<1>3. PICK o \in Evaluate(rule, ledgerNodes, ledgerInflight, Demand(p),
                          ExtractConstraints(PodSpec[p]), ProfileOf(p)) :
        /\ ledgerNodes' = o.nodes
        /\ \/ /\ worker' = [worker EXCEPT !.next = @ + 1,
                               !.target = IF o.node = NoNode THEN @ ELSE o.node]
              /\ UNCHANGED pods
           \/ /\ worker' = Idle
              /\ AnnotatePod(p, rule, worker.heldBy)
  BY DEF EvaluateRule
<1>4. lost' = lost
  BY DEF EvaluateRule
<1> HIDE DEF p, rule
<1>5. \/ o.node = NoNode /\ o.nodes = ledgerNodes
      \/ \E n \in DOMAIN ledgerNodes :
            /\ o.node = n /\ Fits(ledgerNodes[n], Demand(p))
            /\ o.nodes = Reserve(ledgerNodes, n, Demand(p))
  BY EvaluateOutcomes, SMTT(90)
<1>6. \A q \in Pod : pods'[q].phase = pods[q].phase /\ pods'[q].target = pods[q].target
  BY <1>1, <1>3 DEF AnnotatePod, PodType
<1>7. /\ Untargeted'
      /\ \A n \in Node : /\ PinnedTo(n)' = PinnedTo(n)
                         /\ Claims(n)' \subseteq
                              Claims(n) \cup (IF o.node = n THEN {p} ELSE {})
  <2>1. \/ worker'.pod = NoPod /\ worker'.target = NoNode
        \/ /\ worker'.pod = p
           /\ worker'.target \in {worker.target, o.node}
    <3>1. CASE worker' = Idle
      BY <3>1 DEF Idle
    <3>2. CASE worker' = [worker EXCEPT !.next = @ + 1,
                            !.target = IF o.node = NoNode THEN @ ELSE o.node]
      <4>1. worker'.pod = worker.pod
        BY <1>1, <3>2 DEF WorkerType
      <4>2. worker'.target = IF o.node = NoNode THEN worker.target ELSE o.node
        BY <1>1, <3>2 DEF WorkerType
      <4> QED
        BY <4>1, <4>2 DEF p
    <3> QED
      BY <1>3, <3>1, <3>2
  <2>2. \A n \in Node : PinnedTo(n)' = PinnedTo(n)
    BY <1>6 DEF PinnedTo
  <2>3. Untargeted'
    BY <1>1, <1>6, <2>1 DEF Untargeted
  <2>4. ASSUME NEW n \in Node, NEW q \in Pod, worker'.pod = q, worker'.target = n
        PROVE  q \in Claims(n) \cup (IF o.node = n THEN {p} ELSE {})
    <3>1. q = p /\ n \in {worker.target, o.node}
      BY <1>1, <2>1, <2>4, SetsAssumption, NoPodAssumption
    <3> QED
      BY <3>1 DEF Claims, p
  <2> QED
    BY <2>2, <2>3, <2>4 DEF Claims
<1>8. CASE o.node = NoNode /\ o.nodes = ledgerNodes
  <2>1. ledgerNodes' = ledgerNodes
    BY <1>3, <1>8
  <2>2. \A n \in Node : Claims(n)' \subseteq Claims(n)
    BY <1>7, <1>8, SetsAssumption
  <2>3. ClaimsReserved'
    BY <1>4, <2>1, <2>2, ClaimsCarryOver
  <2>4. WithinCapacity'
    BY <2>1 DEF WithinCapacity
  <2> QED
    BY <1>7, <2>3, <2>4
<1>9. ASSUME NEW n \in DOMAIN ledgerNodes, o.node = n,
             Fits(ledgerNodes[n], Demand(p)),
             o.nodes = Reserve(ledgerNodes, n, Demand(p))
      PROVE  WithinCapacity' /\ ClaimsReserved'
  <2>1. /\ n \in Node /\ DOMAIN ledgerNodes' = DOMAIN ledgerNodes
        /\ \A m \in DOMAIN ledgerNodes :
             /\ ledgerNodes'[m].allocatable = ledgerNodes[m].allocatable
             /\ m # n => ledgerNodes'[m].reserved = ledgerNodes[m].reserved
        /\ \A r \in Resource :
             ledgerNodes'[n].reserved[r] = ledgerNodes[n].reserved[r] + At(Demand(p), r)
    <3>1. n \in Node /\ \A m \in DOMAIN ledgerNodes : IsEntry(ledgerNodes[m])
      BY <1>9 DEF TypeOK
    <3>2. ledgerNodes' = Reserve(ledgerNodes, n, Demand(p))
      BY <1>3, <1>9
    <3> QED
      BY <1>9, <3>1, <3>2, SMTT(30) DEF Reserve, IsEntry
  <2>2. WithinCapacity'
    <3>1. ASSUME NEW m \in DOMAIN ledgerNodes, NEW r \in Resource
          PROVE  /\ At(ledgerNodes'[m].allocatable, r) <= At(NodeSpec[m].capacity, r)
                 /\ ledgerNodes'[m].reserved[r] <= At(NodeSpec[m].capacity, r)
      <4>1. CASE m = n
        <5>1. WithinCapacity
          OBVIOUS
        <5>2. ledgerNodes[n].reserved[r] + At(Demand(p), r) <= At(NodeSpec[n].capacity, r)
          BY <1>2, <1>9, <5>1, ReserveWithinCapacity
        <5>3. ledgerNodes'[n].reserved[r] <= At(NodeSpec[n].capacity, r)
          BY <2>1, <5>2
        <5>4. At(ledgerNodes'[n].allocatable, r) <= At(NodeSpec[n].capacity, r)
          BY <2>1, <5>1 DEF WithinCapacity
        <5> QED
          BY <4>1, <5>3, <5>4
      <4>2. CASE m # n
        BY <2>1, <4>2 DEF WithinCapacity
      <4> QED
        BY <4>1, <4>2
    <3> QED
      BY <2>1, <3>1 DEF WithinCapacity
  <2>3. ASSUME NEW m \in Node \ lost, NEW r \in Resource
        PROVE  Tally(Claims(m)', DemandFor(r)) <= ReservedOn(ledgerNodes', m)[r]
    <3> DEFINE before == Tally(Claims(m), DemandFor(r))
               after  == Tally(Claims(m)', DemandFor(r))
               held   == ReservedOn(ledgerNodes, m)[r]
    <3>1. before \in Nat /\ IsFiniteSet(Claims(m)) /\ before <= held
      BY ClaimsTally DEF ClaimsReserved
    <3>2. held \in Nat
      BY ReservedOnType
    <3>3. CASE m # n
      <4>1. Claims(m)' \subseteq Claims(m)
        BY <1>7, <1>9, <3>3
      <4>2. after <= before
        BY <3>1, <4>1, TallyMonotone
      <4>3. after \in Nat
        BY <3>1, <4>1, FS_Subset, TallyType
      <4>4. ReservedOn(ledgerNodes', m)[r] = held
        BY <2>1, <3>3 DEF ReservedOn
      <4> HIDE DEF before, after, held
      <4>5. after <= held
        BY <3>1, <3>2, <4>2, <4>3
      <4> QED
        BY <4>4, <4>5 DEF after
    <3>4. CASE m = n
      <4> DEFINE more == Tally(Claims(m) \cup {p}, DemandFor(r))
                 d    == At(Demand(p), r)
      <4>1. d \in Nat /\ DemandFor(r)[p] = d /\ DemandFor(r)[p] \in 0 .. MaxQuantity
        BY <1>1, <1>2 DEF DemandFor
      <4>2. more <= before + d
        BY <3>1, <4>1, TallyAdd
      <4>3. IsFiniteSet(Claims(m) \cup {p})
        BY <3>1, FS_AddElement
      <4>4. Claims(m)' \subseteq Claims(m) \cup {p}
        BY <1>7, <1>9, <3>4
      <4>5. after <= more
        BY <4>3, <4>4, TallyMonotone
      <4>6. after \in Nat /\ more \in Nat
        BY <4>3, <4>4, FS_Subset, TallyType
      <4>7. ReservedOn(ledgerNodes', m)[r] = held + d
        BY <2>1, <3>4 DEF ReservedOn
      <4> HIDE DEF before, after, held, more, d
      <4>8. /\ before \in Nat /\ held \in Nat /\ d \in Nat
            /\ before <= held
        BY <3>1, <3>2, <4>1
      <4>9. more <= held + d
        BY <4>2, <4>6, <4>8
      <4>10. after <= held + d
        BY <4>5, <4>6, <4>8, <4>9
      <4> QED
        BY <4>7, <4>10 DEF after
    <3> QED
      BY <3>3, <3>4
  <2> QED
    BY <1>4, <2>2, <2>3 DEF ClaimsReserved
<1> QED
  BY <1>5, <1>7, <1>8, <1>9

(***************************************************************************)
(* The inductive invariant of the booking argument holds of every          *)
(* behaviour: what Reserve records covers every pod that is pinned to a    *)
(* node or about to be, through rebuilds, failures and restarts, on every  *)
(* node whose reservations were not dropped.                               *)
(***************************************************************************)
THEOREM BookingInvariant == Spec => []BookingInv
<1>1. Init => BookingInv
  <2> SUFFICES ASSUME Init PROVE BookingInv
    OBVIOUS
  <2>1. Untargeted /\ WithinCapacity
    BY DEF Init, ClusterInit, AbsentPod, Idle, NoEntries, Untargeted, WithinCapacity
  <2>2. ASSUME NEW n \in Node, NEW r \in Resource
        PROVE  Tally(Claims(n), DemandFor(r)) <= ReservedOn(ledgerNodes, n)[r]
    <3>1. Claims(n) = {}
      BY NoPodAssumption DEF Init, ClusterInit, AbsentPod, Idle, Claims, PinnedTo
    <3>2. Units(Claims(n), DemandFor(r)) = {}
      BY <3>1 DEF Units
    <3>3. Tally(Claims(n), DemandFor(r)) = 0
      BY <3>2, FS_EmptySet, Zenon DEF Tally
    <3>4. ReservedOn(ledgerNodes, n)[r] = 0
      BY DEF Init, NoEntries, ReservedOn, Zero
    <3> QED
      BY <3>3, <3>4
  <2> QED
    BY <2>1, <2>2 DEF BookingInv, ClaimsReserved
<1>2. TypeOK /\ TypeOK' /\ BookingInv /\ [Next]_vars => BookingInv'
  <2> SUFFICES ASSUME TypeOK, TypeOK', BookingInv, [Next]_vars PROVE BookingInv'
    OBVIOUS
  <2> USE DEF clusterVars, signals, controllerVars, caches, ledger
  <2> Untargeted /\ WithinCapacity /\ ClaimsReserved
    BY DEF BookingInv
  <2>1. ASSUME UNCHANGED <<pods, worker, ledgerNodes, lost>> PROVE BookingInv'
    BY <2>1 DEF BookingInv, Untargeted, WithinCapacity, ClaimsReserved, Claims, PinnedTo
  <2>2. ASSUME UNCHANGED <<ledgerNodes, lost>>, Untargeted',
               \A n \in Node : Claims(n)' \subseteq Claims(n)
        PROVE  BookingInv'
    <3>1. WithinCapacity'
      BY <2>2 DEF WithinCapacity
    <3>2. ClaimsReserved'
      BY <2>2, ClaimsCarryOver
    <3> QED
      BY <2>2, <3>1, <3>2 DEF BookingInv
  <2>3. CASE ClusterNext /\ UNCHANGED controllerVars
    BY <2>2, <2>3, ClusterClaims
  <2>4. ASSUME NEW p \in Pod, ReconcileProfileNotFound(p) PROVE BookingInv'
    <3>1. /\ \A q \in Pod : pods'[q].phase \in {"absent", "gated"} => pods'[q].target = NoNode
          /\ \A n \in Node : PinnedTo(n)' \subseteq PinnedTo(n)
      BY <2>4, ReleaseClaims, SetsAssumption DEF ReconcileProfileNotFound
    <3>2. UNCHANGED <<worker, ledgerNodes, lost>>
      BY <2>4 DEF ReconcileProfileNotFound
    <3>3. Untargeted'
      BY <3>1, <3>2 DEF Untargeted
    <3>4. \A n \in Node : Claims(n)' \subseteq Claims(n)
      BY <3>1, <3>2 DEF Claims
    <3> QED
      BY <2>2, <3>2, <3>3, <3>4
  <2>5. ASSUME lost \subseteq lost', WithinCapacity', UNCHANGED pods,
               worker'.target = NoNode,
               \A n \in Node \ lost' :
                  ReservedOn(ledgerNodes', n) = ReservedOn(ledgerNodes, n)
        PROVE  BookingInv'
    <3>1. Untargeted'
      BY <2>5 DEF Untargeted
    <3>2. \A n \in Node : Claims(n)' \subseteq Claims(n)
      BY <2>5, SetsAssumption DEF Claims, PinnedTo
    <3>3. ClaimsReserved'
      BY <2>5, <3>2, ClaimsCarryOver
    <3> QED
      BY <2>5, <3>1, <3>3 DEF BookingInv
  <2>6. ASSUME NEW p \in Pod, SyncLedgerFails(p) PROVE BookingInv'
    <3>1. worker'.target = NoNode /\ UNCHANGED pods
      BY <2>6 DEF SyncLedgerFails, Reconcilable, Idle
    <3> QED
      BY <2>5, <2>6, <3>1, RebuiltLedger DEF SyncLedgerFails
  <2>7. ASSUME NEW p \in Pod, SyncLedger(p) PROVE BookingInv'
    <3>1. worker'.target = NoNode /\ UNCHANGED pods
      BY <2>7 DEF SyncLedger, AfterSync
    <3> QED
      BY <2>5, <2>7, <3>1, RebuiltLedger DEF SyncLedger
  <2>8. CASE SkipUnknownRule
    <3>1. worker'.pod = worker.pod /\ worker'.target = worker.target
      BY <2>8 DEF SkipUnknownRule, WorkerType, TypeOK
    <3>2. UNCHANGED <<pods, ledgerNodes, lost>>
      BY <2>8 DEF SkipUnknownRule
    <3> QED
      BY <2>2, <3>1, <3>2 DEF Untargeted, Claims, PinnedTo
  <2>9. CASE EvaluateRule
    BY <2>9, EvaluateClaims
  <2>10. CASE Release
    <3>1. worker.pod \in Pod /\ worker.target \in Node \cup {NoNode}
      BY <2>10 DEF Release, RulesDone, WorkerType, TypeOK
    <3>2. /\ \A q \in Pod : pods'[q].phase \in {"absent", "gated"} => pods'[q].target = NoNode
          /\ \A n \in Node :
               PinnedTo(n)' \subseteq
                 PinnedTo(n) \cup (IF worker.target = n THEN {worker.pod} ELSE {})
      BY <2>10, <3>1, ReleaseClaims DEF Release
    <3>3. worker' = Idle /\ UNCHANGED <<ledgerNodes, lost>>
      BY <2>10 DEF Release
    <3>4. Untargeted'
      BY <3>2, <3>3 DEF Untargeted, Idle
    <3>5. \A n \in Node : Claims(n)' \subseteq Claims(n)
      BY <3>1, <3>2, <3>3, NoPodAssumption DEF Claims, Idle
    <3> QED
      BY <2>2, <3>3, <3>4, <3>5
  <2>11. CASE Restart
    <3>1. WithinCapacity'
      BY <2>11 DEF Restart, NoEntries, WithinCapacity
    <3>2. worker'.target = NoNode /\ UNCHANGED pods /\ lost \subseteq lost'
      BY <2>11 DEF Restart, Idle, LostBy
    <3>3. \A n \in Node \ lost' :
             ReservedOn(ledgerNodes', n) = ReservedOn(ledgerNodes, n)
      BY <2>11 DEF Restart, LostBy, NoEntries, ReservedOn
    <3> QED
      BY <2>5, <3>1, <3>2, <3>3
  <2>12. CASE UNCHANGED vars
    BY <2>1, <2>12 DEF vars
  <2>13. ASSUME NEW p \in Pod, DeliverPod(p) \/ QueuePod(p) \/ ReconcileUngated(p)
         PROVE  BookingInv'
    BY <2>1, <2>13 DEF DeliverPod, QueuePod, ReconcileUngated
  <2>14. ASSUME NEW n \in Node, DeliverNode(n) PROVE BookingInv'
    BY <2>1, <2>14 DEF DeliverNode
  <2>15. ASSUME NEW pr \in Profile, DeliverProfile(pr) PROVE BookingInv'
    BY <2>1, <2>15 DEF DeliverProfile
  <2> QED
    BY <2>3, <2>4, <2>6, <2>7, <2>8, <2>9, <2>10, <2>11, <2>12, <2>13, <2>14, <2>15
    DEF Next
<1> QED
  BY <1>1, <1>2, TypeCorrect, PTL DEF Spec

(***************************************************************************)
(* No double booking: syncLedger, FindFit, Reserve and the release that    *)
(* follows never pin more demand to a node than its capacity, unless a     *)
(* rebuild or a restart has dropped the reservations of that node.         *)
(***************************************************************************)
THEOREM NeverDoubleBooked == Spec => []NoDoubleBooking
<1>1. TypeOK /\ BookingInv => NoDoubleBooking
  <2> SUFFICES ASSUME TypeOK, BookingInv, NEW n \in Node \ lost, NEW r \in Resource
               PROVE  Tally(PinnedTo(n), DemandFor(r)) <= At(NodeSpec[n].capacity, r)
    BY DEF NoDoubleBooking
  <2> DEFINE pinned   == Tally(PinnedTo(n), DemandFor(r))
             claimed  == Tally(Claims(n), DemandFor(r))
             held     == ReservedOn(ledgerNodes, n)[r]
             capacity == At(NodeSpec[n].capacity, r)
  <2>1. IsFiniteSet(Claims(n)) /\ IsFiniteSet(PinnedTo(n))
    BY ClaimsTally
  <2>2. pinned \in Nat /\ claimed \in Nat
    BY <2>1, TallyType
  <2>3. pinned <= claimed
    BY <2>1, TallyMonotone DEF Claims
  <2>4. claimed <= held
    BY DEF BookingInv, ClaimsReserved
  <2>5. capacity \in Nat
    BY AllocatableType
  <2>6. held \in Nat
    BY ReservedOnType
  <2>7. held <= capacity
    BY <2>5 DEF ReservedOn, Zero, BookingInv, WithinCapacity
  <2> HIDE DEF pinned, claimed, held, capacity
  <2>8. pinned <= capacity
    BY <2>2, <2>3, <2>4, <2>5, <2>6, <2>7
  <2> QED
    BY <2>8 DEF pinned, capacity
<1> QED
  BY <1>1, TypeCorrect, BookingInvariant, PTL

-----------------------------------------------------------------------------
(* No lost wake-up.                                                        *)

(***************************************************************************)
(* The inductive invariant of the work queue holds of every behaviour: no  *)
(* gated pod is forgotten, and a pod that is not created is not cached.    *)
(***************************************************************************)
THEOREM WakeupInvariant == Spec => []WakeupInv
<1>1. Init => WakeupInv
  <2> SUFFICES ASSUME Init PROVE WakeupInv
    OBVIOUS
  <2>1. \A p \in Pod : pods[p].phase = "absent" /\ podCache[p].phase = "absent"
    BY DEF Init, ClusterInit, AbsentPod
  <2>2. worker.pod = NoPod
    BY DEF Init, Idle
  <2> QED
    BY <2>1, <2>2 DEF WakeupInv, NoLostWakeup
<1>2. TypeOK /\ WakeupInv /\ [Next]_vars => WakeupInv'
  <2> SUFFICES ASSUME TypeOK, WakeupInv, [Next]_vars PROVE WakeupInv'
    OBVIOUS
  <2> USE DEF clusterVars, signals, controllerVars, caches, ledger
  <2> pods \in [Pod -> PodType] /\ podCache \in [Pod -> PodType]
    BY DEF TypeOK
  <2>1. CASE UNCHANGED vars
    BY <2>1 DEF vars, WakeupInv, NoLostWakeup
  <2>2. CASE ClusterNext /\ UNCHANGED controllerVars
    <3> DEFINE Moved(p) ==
                 \/ pods'[p] = pods[p]
                 \/ pods[p].phase = "absent" /\ pods'[p].phase \in {"gated", "released"}
                 \/ pods'[p].phase \in {"bound", "gone"}
    <3>1. ASSUME NEW q \in Pod, CreatePod(q) \/ EndPod(q) \/ \E n \in Node : Bind(q, n)
          PROVE  \A p \in Pod : Moved(p)
      <4>1. CASE CreatePod(q)
        BY <4>1 DEF CreatePod, PodType
      <4>2. CASE EndPod(q)
        BY <4>2 DEF EndPod, GonePod, AbsentPod, PodType
      <4>3. CASE \E n \in Node : Bind(q, n)
        BY <4>3 DEF Bind, PodType
      <4> QED
        BY <3>1, <4>1, <4>2, <4>3
    <3>2. ASSUME NEW n \in Node, RemoveNode(n) PROVE \A p \in Pod : Moved(p)
      BY <3>2 DEF RemoveNode, GonePod, AbsentPod, PodType
    <3>3. CASE UNCHANGED pods
      BY <2>2, <3>3 DEF WakeupInv, NoLostWakeup
    <3>4. CASE \A p \in Pod : Moved(p)
      BY <2>2, <3>4 DEF WakeupInv, NoLostWakeup
    <3> HIDE DEF Moved
    <3> QED
      BY <2>2, <3>1, <3>2, <3>3, <3>4
      DEF ClusterNext, Expire, RegisterNode, NodeReady, NodeNotReady,
          RegisterDevices, DrainNode, SetPending, ReportTask, DeleteProfile, CreateProfile
  <2>3. ASSUME NEW p \in Pod, DeliverPod(p) PROVE WakeupInv'
    BY <2>3 DEF DeliverPod, WakeupInv, NoLostWakeup
  <2>4. ASSUME NEW p \in Pod, QueuePod(p) PROVE WakeupInv'
    BY <2>4 DEF QueuePod, WakeupInv, NoLostWakeup
  <2>5. ASSUME NEW p \in Pod, ReconcileUngated(p) PROVE WakeupInv'
    BY <2>5 DEF ReconcileUngated, Idle, WakeupInv, NoLostWakeup
  <2>6. ASSUME NEW p \in Pod, NEW target, NEW reason, NEW seenHeldBy, NEW waiting,
               ReleaseGates(p, target, reason, seenHeldBy, waiting),
               queue \ {p} \subseteq waiting, worker.pod \in {p, NoPod}, UNCHANGED podCache
        PROVE  WakeupInv'
    <3>1. queue \ {p} \subseteq queue'
      BY <2>6 DEF ReleaseGates
    <3>2. CASE pods' = pods /\ p \in queue'
      BY <2>6, <3>1, <3>2, NoPodAssumption DEF WakeupInv, NoLostWakeup
    <3>3. CASE /\ PatchAccepted(p, target)
               /\ pods' = [pods EXCEPT ![p] = Patched(p, target, reason, seenHeldBy)]
      <4>1. pods'[p].phase \in {"released", "bound"}
        BY <3>3 DEF PatchAccepted, Patched, PodType
      <4>2. \A q \in Pod \ {p} : pods'[q] = pods[q]
        BY <3>3
      <4> QED
        BY <2>6, <3>1, <4>1, <4>2, NoPodAssumption DEF WakeupInv, NoLostWakeup
    <3> QED
      BY <2>6, <3>2, <3>3 DEF ReleaseGates
  <2>7. ASSUME NEW p \in Pod, ReconcileProfileNotFound(p) PROVE WakeupInv'
    <3>1. worker.pod = NoPod
      BY <2>7 DEF ReconcileProfileNotFound, Idle
    <3> QED
      BY <2>6, <2>7, <3>1 DEF ReconcileProfileNotFound
  <2>8. ASSUME NEW p \in Pod, SyncLedgerFails(p) PROVE WakeupInv'
    BY <2>8 DEF SyncLedgerFails, WakeupInv, NoLostWakeup
  <2>9. ASSUME NEW p \in Pod, SyncLedger(p) PROVE WakeupInv'
    <3>1. /\ worker.pod = NoPod /\ worker'.pod = p /\ queue' = queue \ {p}
          /\ UNCHANGED <<pods, podCache>>
      BY <2>9 DEF SyncLedger, AfterSync, Reconcilable, Idle
    <3> QED
      BY <3>1, NoPodAssumption DEF WakeupInv, NoLostWakeup
  <2>10. ASSUME NEW n \in Node, DeliverNode(n) PROVE WakeupInv'
    BY <2>10 DEF DeliverNode, WakeupInv, NoLostWakeup
  <2>15. ASSUME NEW pr \in Profile, DeliverProfile(pr) PROVE WakeupInv'
    BY <2>15 DEF DeliverProfile, WakeupInv, NoLostWakeup
  <2>11. CASE SkipUnknownRule
    BY <2>11 DEF SkipUnknownRule, WorkerType, TypeOK, WakeupInv, NoLostWakeup
  <2>12. CASE EvaluateRule
    <3>1. worker.pod \in Pod /\ podCache' = podCache
      BY <2>12 DEF EvaluateRule, WorkerType, TypeOK
    <3>2. \/ worker'.pod = worker.pod /\ queue' = queue
          \/ queue' = queue \cup {worker.pod}
      BY <2>12 DEF EvaluateRule, WorkerType, TypeOK
    <3>3. \A q \in Pod : /\ pods'[q].phase = pods[q].phase
                         /\ q # worker.pod => pods'[q] = pods[q]
      <4>1. \/ pods' = pods
            \/ \E rule : pods' = [pods EXCEPT ![worker.pod].heldBy = rule]
        BY <2>12 DEF EvaluateRule, AnnotatePod
      <4>2. ASSUME NEW rule, pods' = [pods EXCEPT ![worker.pod].heldBy = rule],
                   NEW q \in Pod
            PROVE  pods'[q].phase = pods[q].phase /\ (q # worker.pod => pods'[q] = pods[q])
        <5>1. q # worker.pod => pods'[q] = pods[q]
          BY <4>2
        <5>2. q = worker.pod => pods'[q] = [pods[q] EXCEPT !.heldBy = rule]
          BY <3>1, <4>2
        <5>3. [pods[q] EXCEPT !.heldBy = rule].phase = pods[q].phase
          BY DEF PodType
        <5> QED
          BY <5>1, <5>2, <5>3
      <4> QED
        BY <4>1, <4>2
    <3>4. NoLostWakeup'
      BY <3>1, <3>2, <3>3 DEF WakeupInv, NoLostWakeup
    <3>5. \A p \in Pod : pods'[p].phase = "absent" => podCache'[p].phase = "absent"
      BY <3>1, <3>3 DEF WakeupInv
    <3> QED
      BY <3>4, <3>5 DEF WakeupInv
  <2>13. CASE Release
    <3>1. worker.pod \in Pod
      BY <2>13 DEF Release, RulesDone, WorkerType, TypeOK
    <3> QED
      BY <2>6, <2>13, <3>1 DEF Release
  <2>14. CASE Restart
    BY <2>14 DEF Restart, Idle, WakeupInv, NoLostWakeup
  <2> QED
    BY <2>1, <2>2, <2>3, <2>4, <2>5, <2>7, <2>8, <2>9, <2>10, <2>11, <2>12, <2>13,
       <2>14, <2>15
    DEF Next
<1> QED
  BY <1>1, <1>2, TypeCorrect, PTL DEF Spec

(***************************************************************************)
(* A gated pod is queued, being reconciled or has an event coming: no      *)
(* early return, failed patch, failed list or restart makes the controller *)
(* forget it.                                                              *)
(***************************************************************************)
THEOREM NeverForgotten == Spec => []NoLostWakeup
<1>1. WakeupInv => NoLostWakeup
  BY DEF WakeupInv
<1> QED
  BY <1>1, WakeupInvariant, PTL

-----------------------------------------------------------------------------
(* The worker's pod has a profile.                                         *)

WorkerProfile == worker.pod # NoPod => ProfileOf(worker.pod) \in Profile

\* Reconcile starts the rules only of a pod whose profile it has found.
LEMMA WorkerHasProfile == Spec => []WorkerProfile
<1>1. Init => WorkerProfile
  BY DEF Init, Idle, WorkerProfile
<1>2. TypeOK /\ WorkerProfile /\ [Next]_vars => WorkerProfile'
  <2> SUFFICES ASSUME TypeOK, WorkerProfile, [Next]_vars PROVE WorkerProfile'
    OBVIOUS
  <2> USE DEF clusterVars, signals, controllerVars, caches, ledger
  <2>1. ASSUME worker'.pod = worker.pod \/ worker' = Idle PROVE WorkerProfile'
    BY <2>1 DEF WorkerProfile, Idle
  <2>2. ASSUME NEW p \in Pod, SyncLedger(p) PROVE WorkerProfile'
    <3>1. worker'.pod = p /\ ProfileOf(p) \in profileCache
      BY <2>2 DEF SyncLedger, AfterSync, Reconcilable
    <3> QED
      BY <3>1 DEF WorkerProfile, TypeOK
  <2>3. CASE SkipUnknownRule
    BY <2>1, <2>3 DEF SkipUnknownRule, WorkerType, TypeOK
  <2>4. CASE EvaluateRule
    BY <2>1, <2>4 DEF EvaluateRule, WorkerType, TypeOK
  <2>5. CASE Release \/ Restart
    BY <2>1, <2>5 DEF Release, Restart
  <2>6. CASE UNCHANGED worker
    BY <2>1, <2>6
  <2>7. ASSUME NEW p \in Pod,
               \/ DeliverPod(p) \/ QueuePod(p) \/ ReconcileUngated(p)
               \/ ReconcileProfileNotFound(p) \/ SyncLedgerFails(p)
        PROVE  UNCHANGED worker
    BY <2>7 DEF DeliverPod, QueuePod, ReconcileUngated, ReconcileProfileNotFound,
                SyncLedgerFails
  <2>8. ASSUME NEW n \in Node, DeliverNode(n) PROVE UNCHANGED worker
    BY <2>8 DEF DeliverNode
  <2>9. ASSUME NEW pr \in Profile, DeliverProfile(pr) PROVE UNCHANGED worker
    BY <2>9 DEF DeliverProfile
  <2>10. CASE ClusterNext /\ UNCHANGED controllerVars
    BY <2>6, <2>10
  <2>11. CASE UNCHANGED vars
    BY <2>6, <2>11 DEF vars
  <2> QED
    BY <2>2, <2>3, <2>4, <2>5, <2>6, <2>7, <2>8, <2>9, <2>10, <2>11 DEF Next
<1> QED
  BY <1>1, <1>2, TypeCorrect, PTL DEF Spec
=============================================================================
