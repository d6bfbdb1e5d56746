----------------------------- MODULE Reconciler -----------------------------
(***************************************************************************)
(* The reconciler (internal/controller/packingprofile_controller.go) with  *)
(* its ledger and rules, and the cluster it works in.                      *)
(*                                                                         *)
(* One worker (MaxConcurrentReconciles is 1) takes a pod from the work     *)
(* queue, rebuilds the ledger, evaluates the rules of the pod's profile    *)
(* one after the other and either patches the gates away or holds the pod  *)
(* for another second.  It reads pods, nodes and profiles from informer    *)
(* caches, which lag the API server, and writes to the API server.         *)
(* Everything else, the API server, scheduler, autoscaler, kubelet and     *)
(* users, acts between any two steps of the worker.                        *)
(***************************************************************************)
EXTENDS Cluster

CONSTANT NoPod

ASSUME NoPodAssumption == NoPod \notin Pod

VARIABLES
  status,                 \* the profiles' status, at the API server
  podCache, nodeCache, profileCache,    \* the informer caches
  queue,                  \* the pods to reconcile, at once or after a delay
  worker,                 \* the one worker and what it has read and decided
  ledgerNodes, ledgerInflight,  \* the two maps of the ledger
  lost                    \* history: nodes whose reservations were dropped

caches == <<podCache, nodeCache, profileCache>>
ledger == <<ledgerNodes, ledgerInflight>>
controllerVars == <<status, caches, queue, worker, ledger, lost>>
vars   == <<clusterVars, controllerVars>>

-----------------------------------------------------------------------------
(* syncLedger.                                                             *)

\* A node without a device resource the profile lists is skipped.
MissingResource(alloc, source) ==
  /\ source.type = "ResourceRequest"
  /\ ~ (source.resources \ {"cpu", "memory"} \subseteq DOMAIN alloc)

\* Mutation: a node that is not Ready is skipped too.
ListedNodesReady(pr) ==
  {n \in Node :
     /\ nodeCache[n].phase = "ready"
     /\ ~ nodeCache[n].deleting
     /\ ~ MissingResource(Allocatable(n, nodeCache[n]), ProfileSpec[pr].source)}

ListedNodes(pr) ==
  {n \in Node :
     /\ nodeCache[n].phase # "absent"
     /\ ~ nodeCache[n].deleting
     /\ ~ MissingResource(Allocatable(n, nodeCache[n]), ProfileSpec[pr].source)}

AddedNodes(pr) ==
  [n \in ListedNodes(pr) |->
     NewEntry(Allocatable(n, nodeCache[n]), NodeSpec[n].labels, Taints(n, nodeCache[n]))]

WithUsage(entries) ==
  [n \in DOMAIN entries |-> [entries[n] EXCEPT !.used = Usage(n, podCache)]]

Detected(name, alloc, labels) ==
  [name |-> name, allocatable |-> alloc, labels |-> labels]

Unknown(name) == Detected(name, NoQuantities, [k \in {} |-> ""])

\* Layer 1, the cluster autoscaler: as many numbered names as a group is short of.
Pending == Group \X (0 .. MaxPending - 1)

ClusterAutoscalerDetect == {Unknown(s) : s \in {x \in Pending : x[2] < pending[x[1]]}}

\* Layer 1, GOATScaler: one name for each task with a recent event.
GOATScalerDetect == {Unknown(t) : t \in events}

\* Layer 2: nodes that were never Ready, read uncached, deleting or not.
NotReadyDetect ==
  {Detected(n, Allocatable(n, nodes[n]), NodeSpec[n].labels) :
     n \in {m \in Node : nodes[m].phase = "starting"}}

Detector == {"cluster-autoscaler", "goatscaler", "not-ready-nodes"}

\* The first detector that finds something wins; one that fails finds nothing.
DetectorChain(failing) ==
  LET found(d, detected) == IF d \in failing THEN {} ELSE detected
      byCA   == found("cluster-autoscaler", ClusterAutoscalerDetect)
      byGOAT == found("goatscaler", GOATScalerDetect)
  IN  IF byCA # {} THEN byCA
      ELSE IF byGOAT # {} THEN byGOAT
      ELSE found("not-ready-nodes", NotReadyDetect)

PossibleDetections ==
  {DetectorChain(failing) :
     failing \in IF "detector" \in Faults THEN SUBSET Detector ELSE {{}}}

\* The first template by instance type, else by name prefix, else the first
\* whose labels and taints suit the pod; 0 when there is none.
FindTemplate(name, p, templates) ==
  LET first(S)   == CHOOSE i \in S : \A j \in S : i <= j
      byInstance == {i \in DOMAIN templates : name \in templates[i].instances}
      byPrefix   == {i \in DOMAIN templates : name \in templates[i].prefixed}
      byPod      == {i \in DOMAIN templates :
                       NodeMatchesConstraints(templates[i],
                                              ExtractConstraints(PodSpec[p]))}
  IN  IF byInstance # {} THEN first(byInstance)
      ELSE IF byPrefix # {} THEN first(byPrefix)
      ELSE IF byPod # {} THEN first(byPod)
      ELSE 0

\* The template fills what the detector left empty.
InflightEntry(d, p) ==
  LET templates == ProfileSpec[ProfileOf(p)].templates
      i == FindTemplate(d.name, p, templates)
  IN  IF i \notin DOMAIN templates THEN NewEntry(d.allocatable, d.labels, {})
      ELSE NewEntry(
             IF DOMAIN d.allocatable = {} THEN templates[i].allocatable ELSE d.allocatable,
             IF DOMAIN d.labels = {} THEN templates[i].labels ELSE d.labels,
             templates[i].taints)

(***************************************************************************)
(* The profile's in-flight entries are cleared first, and the task behind  *)
(* each listed node is removed while the nodes are added.                  *)
(***************************************************************************)
ClearedInflight(pr) ==
  RemoveInflightNodes(ClearInflightByPrefix(ledgerInflight, pr),
                      {<<pr, t>> : t \in UNION {NodeSpec[n].tasks : n \in ListedNodes(pr)}})

AddedInflight(p, detected) ==
  LET pr    == ProfileOf(p)
      kept  == ClearedInflight(pr)
      found == [key \in {<<pr, d.name>> : d \in detected} |->
                  InflightEntry(CHOOSE d \in detected : d.name = key[2], p)]
  IN  Entries(found, kept)

NoEntries == [n \in {} |-> 0]

\* History: what is reserved under a name no longer in the rebuilt map is lost.
LostBy(rebuilt) ==
  lost \cup {n \in DOMAIN ledgerNodes \ DOMAIN rebuilt : ledgerNodes[n].reserved # Zero}

-----------------------------------------------------------------------------
(* Writes to the API server.                                               *)

(***************************************************************************)
(* releaseGatesWithAffinity patches the pod as the API server has it.  A   *)
(* pod that is gone is not found.  Once the gates are off the affinity is  *)
(* immutable, so a patch that names another node is rejected; one that     *)
(* names the same node or none only rewrites annotations.                  *)
(***************************************************************************)
PatchAccepted(p, target) ==
  \/ pods[p].phase = "gated"
  \/ pods[p].phase \in {"released", "bound"} /\ target \in {NoNode, pods[p].target}

\* A merge patch carries what differs from the copy the worker read: held-by is
\* deleted only when that copy has it.
Patched(p, target, reason, seenHeldBy) ==
  [pods[p] EXCEPT
     !.phase  = IF @ = "gated" THEN "released" ELSE @,
     !.target = IF target = NoNode THEN @ ELSE target,
     !.reason = reason,
     !.heldBy = IF seenHeldBy = NoRule THEN @ ELSE NoRule]

\* Mutation: the error of a failed patch is not returned, so there is no retry.
ReleaseGatesOnce(p, target, reason, seenHeldBy, waiting) ==
  /\ \/ /\ PatchAccepted(p, target)
        /\ pods' = [pods EXCEPT ![p] = Patched(p, target, reason, seenHeldBy)]
     \/ /\ ~ PatchAccepted(p, target) \/ "patch" \in Faults
        /\ UNCHANGED pods
  /\ queue' = waiting

(***************************************************************************)
(* The patch succeeds, or fails and the pod is requeued with backoff.  A   *)
(* patch whose reply is lost is applied and looks failed.  A success takes *)
(* nothing from the queue: when a requeue is pending, or an event came in  *)
(* the meantime, the pod is reconciled again.                              *)
(***************************************************************************)
ReleaseGates(p, target, reason, seenHeldBy, waiting) ==
  \/ /\ PatchAccepted(p, target)
     /\ pods' = [pods EXCEPT ![p] = Patched(p, target, reason, seenHeldBy)]
     /\ \/ queue' = waiting
        \/ "reply" \in Faults /\ queue' = waiting \cup {p}
  \/ /\ ~ PatchAccepted(p, target) \/ "patch" \in Faults
     /\ UNCHANGED pods
     /\ queue' = waiting \cup {p}

\* annotatePod: skipped when the copy read has the value; its failure is ignored.
AnnotatePod(p, rule, seenHeldBy) ==
  \/ /\ rule # seenHeldBy /\ pods[p].phase \in {"gated", "released", "bound"}
     /\ pods' = [pods EXCEPT ![p].heldBy = rule]
  \/ /\ \/ rule = seenHeldBy
        \/ pods[p].phase \notin {"gated", "released", "bound"}
        \/ "patch" \in Faults
     /\ UNCHANGED pods

\* What updateProfileStatus computes at the end of a reconcile.
StatusNow(pr, inflight, synced) ==
  [activeGates   |-> Cardinality({p \in Pod : ProfileOf(p) = pr
                                              /\ podCache[p].phase = "gated"}),
   inflightNodes |-> Cardinality(DOMAIN inflight),
   ledgerReady   |-> synced]

\* A failed list or update, on a conflict for one, is only logged.
UpdateProfileStatus(pr, inflight, synced) ==
  \/ /\ pr \in profiles
     /\ status' = [status EXCEPT ![pr] = StatusNow(pr, inflight, synced)]
  \/ /\ pr \notin profiles \/ {"status", "list"} \cap Faults # {}
     /\ UNCHANGED status

-----------------------------------------------------------------------------
(* Reconcile, one worker.                                                  *)

(***************************************************************************)
(* The worker between two steps of a reconcile: the pod, the held-by value *)
(* of the copy it read, the index of the next rule, and the node and       *)
(* reason a release would carry.                                           *)
(***************************************************************************)
Idle ==
  [pod |-> NoPod, heldBy |-> NoRule, next |-> 1, target |-> NoNode, reason |-> "none"]

RulesDone == worker.pod # NoPod /\ worker.next > Len(RulesOf(worker.pod))

\* A queued pod that is gone, or whose gates are off, is dropped.
ReconcileUngated(p) ==
  /\ worker = Idle /\ p \in queue
  /\ podCache[p].phase # "gated"
  /\ queue' = queue \ {p}
  /\ UNCHANGED <<clusterVars, status, caches, worker, ledger, lost>>

\* The cache does not have the profile: the gates come off without a look at the ledger.
ReconcileProfileNotFound(p) ==
  /\ worker = Idle /\ p \in queue
  /\ podCache[p].phase = "gated"
  /\ ProfileOf(p) \notin profileCache
  /\ ReleaseGates(p, NoNode, "profile_not_found", podCache[p].heldBy, queue \ {p})
  /\ UNCHANGED <<nodes, profiles, signals, expired, status, caches, worker, ledger, lost>>

Reconcilable(p) ==
  /\ worker = Idle /\ p \in queue
  /\ podCache[p].phase = "gated"
  /\ ProfileOf(p) \in profileCache

(***************************************************************************)
(* A List fails after the ledger has been cleared.  When it is the pod     *)
(* list the nodes are back without usage; in both cases the snapshot of    *)
(* the reservations is dropped.  The pod is retried after a second.        *)
(***************************************************************************)
SyncLedgerFails(p) ==
  LET pr == ProfileOf(p)
  IN  /\ "list" \in Faults
      /\ Reconcilable(p)
      /\ \/ /\ ledgerNodes' = NoEntries
            /\ ledgerInflight' = ClearInflightByPrefix(ledgerInflight, pr)
         \/ /\ ledgerNodes' = AddedNodes(pr)
            /\ ledgerInflight' = ClearedInflight(pr)
      /\ lost' = LostBy(NoEntries)
      /\ UpdateProfileStatus(pr, ledgerInflight', FALSE)
      /\ UNCHANGED <<clusterVars, caches, queue, worker>>

\* Mutation: the reservation timeout is not looked at.
AfterSyncWithoutTimeout(p) ==
  [pod |-> p, heldBy |-> podCache[p].heldBy,
   next |-> IF PodSpec[p].high THEN Len(RulesOf(p)) + 1 ELSE 1, target |-> NoNode,
   reason |-> IF PodSpec[p].high THEN "priority" ELSE "capacity"]

\* Priority, then timeout, skip the rules; otherwise the rules start.
AfterSync(p) ==
  LET skip(reason) == [pod |-> p, heldBy |-> podCache[p].heldBy,
                       next |-> Len(RulesOf(p)) + 1, target |-> NoNode,
                       reason |-> reason]
  IN  IF PodSpec[p].high THEN skip("priority")
      ELSE IF p \in expired THEN skip("timeout")
      ELSE [skip("capacity") EXCEPT !.next = 1]

SyncLedger(p) ==
  LET pr == ProfileOf(p)
  IN  /\ Reconcilable(p)
      /\ ledgerNodes' = RestoreReservations(WithUsage(AddedNodes(pr)), ledgerNodes)
      /\ \E detected \in PossibleDetections :
           ledgerInflight' = RestoreReservations(AddedInflight(p, detected), ledgerInflight)
      /\ lost' = LostBy(AddedNodes(pr))
      /\ worker' = AfterSync(p)
      /\ queue' = queue \ {p}
      /\ UNCHANGED <<clusterVars, status, caches>>

\* A rule that is not registered is skipped.
SkipUnknownRule ==
  /\ worker.pod # NoPod /\ ~ RulesDone
  /\ RulesOf(worker.pod)[worker.next] \notin Registry
  /\ worker' = [worker EXCEPT !.next = @ + 1]
  /\ UNCHANGED <<clusterVars, status, caches, queue, ledger, lost>>

(***************************************************************************)
(* One rule.  A release goes on to the next rule and the last node named   *)
(* is the target; a hold ends the reconcile and the pod is requeued.       *)
(***************************************************************************)
EvaluateRule ==
  LET p    == worker.pod
      rule == RulesOf(p)[worker.next]
  IN  /\ p # NoPod /\ ~ RulesDone
      /\ rule \in Registry
      /\ \E o \in Evaluate(rule, ledgerNodes, ledgerInflight, Demand(p),
                           ExtractConstraints(PodSpec[p]), ProfileOf(p)) :
           /\ ledgerNodes' = o.nodes
           /\ ledgerInflight' = o.inflight
           /\ \/ /\ o.release
                 /\ worker' = [worker EXCEPT !.next = @ + 1,
                                  !.target = IF o.node = NoNode THEN @ ELSE o.node]
                 /\ UNCHANGED <<pods, status, queue>>
              \/ /\ ~ o.release
                 /\ worker' = Idle /\ queue' = queue \cup {p}
                 /\ AnnotatePod(p, rule, worker.heldBy)
                 /\ UpdateProfileStatus(ProfileOf(p), o.inflight, TRUE)
      /\ UNCHANGED <<nodes, profiles, signals, expired, caches, lost>>

\* All rules released, or were skipped: patch, then the deferred status update.
Release ==
  LET p == worker.pod
  IN  /\ RulesDone
      /\ ReleaseGates(p, worker.target, worker.reason, worker.heldBy, queue)
      /\ UpdateProfileStatus(ProfileOf(p), ledgerInflight, TRUE)
      /\ worker' = Idle
      /\ UNCHANGED <<nodes, profiles, signals, expired, caches, ledger, lost>>

(***************************************************************************)
(* The manager restarts, or another replica becomes leader: memory is      *)
(* empty, the caches are listed afresh and every gated pod is queued.      *)
(***************************************************************************)
Restart ==
  /\ "restart" \in Faults
  /\ podCache' = pods /\ nodeCache' = nodes /\ profileCache' = profiles
  /\ queue' = {p \in Pod : pods[p].phase = "gated"}
  /\ worker' = Idle
  /\ ledgerNodes' = NoEntries /\ ledgerInflight' = NoEntries
  /\ lost' = LostBy(NoEntries)
  /\ UNCHANGED <<clusterVars, status>>

-----------------------------------------------------------------------------
(* The informer caches and their events (external).                        *)

\* Mutation: the event filter lets no creation pass.
DeliverPodUnlessNew(p) ==
  /\ podCache[p] # pods[p]
  /\ podCache' = [podCache EXCEPT ![p] = pods[p]]
  /\ queue' = IF podCache[p].phase = "gated" THEN queue \cup {p} ELSE queue
  /\ UNCHANGED <<clusterVars, status, nodeCache, profileCache, worker, ledger, lost>>

(***************************************************************************)
(* The cache moves to the pod as it is now.  An update of a gated pod, or  *)
(* the deletion of one, passes the event filter.  The versions in between  *)
(* are passed over; they differ in held-by alone and QueuePod has their    *)
(* events.                                                                 *)
(***************************************************************************)
DeliverPod(p) ==
  /\ podCache[p] # pods[p]
  /\ podCache' = [podCache EXCEPT ![p] = pods[p]]
  /\ queue' = IF \/ pods[p].phase = "gated"
                 \/ pods[p].phase = "gone" /\ podCache[p].phase = "gated"
              THEN queue \cup {p} ELSE queue
  /\ UNCHANGED <<clusterVars, status, nodeCache, profileCache, worker, ledger, lost>>

(***************************************************************************)
(* Any other event of a pod cached with its gates queues it: a resync, an  *)
(* update of no interest here, a version DeliverPod passed over, such as   *)
(* the held-by annotation seen after the release, or a requeue that was    *)
(* pending beside the entry the worker took.  The worker looks at the      *)
(* queue only when it is idle, so an event during a reconcile does what    *)
(* one after it does.                                                      *)
(***************************************************************************)
QueuePod(p) ==
  /\ worker = Idle /\ p \notin queue /\ podCache[p].phase = "gated"
  /\ queue' = queue \cup {p}
  /\ UNCHANGED <<clusterVars, status, caches, worker, ledger, lost>>

DeliverNode(n) ==
  /\ nodeCache[n] # nodes[n]
  /\ nodeCache' = [nodeCache EXCEPT ![n] = nodes[n]]
  /\ UNCHANGED <<clusterVars, status, podCache, profileCache, queue, worker, ledger, lost>>

\* No event of a profile queues a pod.
DeliverProfile(pr) ==
  /\ (pr \in profileCache) # (pr \in profiles)
  /\ profileCache' = IF pr \in profiles THEN profileCache \cup {pr} ELSE profileCache \ {pr}
  /\ UNCHANGED <<clusterVars, status, podCache, nodeCache, queue, worker, ledger, lost>>

-----------------------------------------------------------------------------
(* The specification.                                                      *)

Init ==
  /\ ClusterInit
  /\ status = [pr \in Profile |->
                 [activeGates |-> 0, inflightNodes |-> 0, ledgerReady |-> FALSE]]
  /\ podCache = pods /\ nodeCache = nodes /\ profileCache = profiles
  /\ queue = {} /\ worker = Idle
  /\ ledgerNodes = NoEntries /\ ledgerInflight = NoEntries
  /\ lost = {}

Next ==
  \/ ClusterNext /\ UNCHANGED controllerVars
  \/ \E p \in Pod : \/ DeliverPod(p) \/ QueuePod(p)
                    \/ ReconcileUngated(p) \/ ReconcileProfileNotFound(p)
                    \/ SyncLedgerFails(p) \/ SyncLedger(p)
  \/ \E n \in Node : DeliverNode(n)
  \/ \E pr \in Profile : DeliverProfile(pr)
  \/ SkipUnknownRule \/ EvaluateRule \/ Release
  \/ Restart

Spec == Init /\ [][Next]_vars

-----------------------------------------------------------------------------
(* Properties.                                                             *)

WorkerType ==
  [pod : Pod \cup {NoPod}, heldBy : Rule \cup {NoRule}, next : Nat \ {0},
   target : Node \cup {NoNode}, reason : Reason]

InflightName == Pending \cup Task \cup Node

IsEntry(e) ==
  /\ e = [allocatable |-> e.allocatable, used |-> e.used, reserved |-> e.reserved,
          labels |-> e.labels, taints |-> e.taints]
  /\ IsQuantities(e.allocatable)
  /\ e.used \in [Resource -> Nat]
  /\ e.reserved \in [Resource -> Nat]

\* Every variable has its type.  Quantities never go negative, and the ledger
\* keeps existing nodes and in-flight keys apart.
TypeOK ==
  /\ pods \in [Pod -> PodType]
  /\ nodes \in [Node -> NodeType]
  /\ profiles \subseteq Profile
  /\ pending \in [Group -> 0 .. MaxPending]
  /\ events \subseteq Task
  /\ expired \subseteq Pod
  /\ status \in [Profile -> [activeGates : Nat, inflightNodes : Nat, ledgerReady : BOOLEAN]]
  /\ podCache \in [Pod -> PodType]
  /\ nodeCache \in [Node -> NodeType]
  /\ profileCache \subseteq Profile
  /\ queue \subseteq Pod
  /\ worker \in WorkerType
  /\ DOMAIN ledgerNodes \subseteq Node
  /\ \A n \in DOMAIN ledgerNodes : IsEntry(ledgerNodes[n])
  /\ DOMAIN ledgerInflight \subseteq Profile \X InflightName
  /\ \A key \in DOMAIN ledgerInflight : IsEntry(ledgerInflight[key])
  /\ lost \subseteq Node

\* The live pods whose release named node n.
PinnedTo(n) ==
  {p \in Pod : pods[p].phase \in {"released", "bound"} /\ pods[p].target = n}

DemandFor(r) == [p \in Pod |-> At(Demand(p), r)]

(***************************************************************************)
(* The pods pinned to a node never demand more than the node has, as long  *)
(* as no rebuild and no restart has dropped the node's reservations: "it   *)
(* first reserves capacity in the ledger to prevent double-booking".       *)
(***************************************************************************)
NoDoubleBooking ==
  \A n \in Node \ lost : \A r \in Resource :
     Tally(PinnedTo(n), DemandFor(r)) <= At(NodeSpec[n].capacity, r)

HasRoom(n, placed) ==
  \A r \in Resource : Tally(placed, DemandFor(r)) <= At(NodeSpec[n].capacity, r)

Stage(phase) ==
  CASE phase \in {"absent", "gated"} -> "waiting"
    [] phase \in {"released", "bound"} -> "placed"
    [] OTHER -> "ended"

B == INSTANCE Booking
       WITH stage   <- [p \in Pod |-> Stage(pods[p].phase)],
            place   <- [p \in Pod |-> pods[p].target],
            dropped <- lost

(***************************************************************************)
(* The reconciler implements Booking: whatever it reads stale, reserves    *)
(* twice or patches again, each release is one placement, made only while  *)
(* the node has room for it next to the pods already placed there, and no  *)
(* later patch moves a pod.                                                *)
(***************************************************************************)
ImplementsBooking == B!Spec

\* The pods with a claim on node n: pinned to it, or about to be.
Claims(n) == PinnedTo(n) \cup {p \in Pod : worker.pod = p /\ worker.target = n}

\* A pod gets a target only by its release, and a worker only with a pod.
Untargeted ==
  /\ \A p \in Pod : pods[p].phase \in {"absent", "gated"} => pods[p].target = NoNode
  /\ worker.pod = NoPod => worker.target = NoNode

\* Reserve keeps the reservations within what the node has.
WithinCapacity ==
  \A n \in DOMAIN ledgerNodes : \A r \in Resource :
     /\ At(ledgerNodes[n].allocatable, r) <= At(NodeSpec[n].capacity, r)
     /\ ledgerNodes[n].reserved[r] <= At(NodeSpec[n].capacity, r)

\* The reservations on a node cover the pods with a claim on it.
ClaimsReserved ==
  \A n \in Node \ lost : \A r \in Resource :
     Tally(Claims(n), DemandFor(r)) <= ReservedOn(ledgerNodes, n)[r]

(***************************************************************************)
(* Why there is no double booking, as an inductive invariant: every pod a  *)
(* reconcile pins, or is about to, is covered by what Reserve has recorded *)
(* on the node, and rebuilding the ledger carries that over.               *)
(***************************************************************************)
BookingInv == Untargeted /\ WithinCapacity /\ ClaimsReserved

(***************************************************************************)
(* No wake-up is lost: a gated pod is queued, or in the worker's hands, or *)
(* the cache has yet to deliver an event about it.                         *)
(***************************************************************************)
NoLostWakeup ==
  \A p \in Pod : pods[p].phase = "gated" =>
     p \in queue \/ worker.pod = p \/ podCache[p] # pods[p]

SafeTarget(p, n) ==
  nodes[n].phase = "ready" \/ TolerateTaint(PodSpec[p].tolerations, NotReadyTaint)

(***************************************************************************)
(* While nodes only come up (none fails or is drained), a pod is pinned to *)
(* a node that is Ready at the API server, or tolerates one that is not.   *)
(* AddNode makes no check that the node is Ready and the cache may be      *)
(* stale: this rests on nodeMatchesConstraints and the not-ready taint.    *)
(***************************************************************************)
TargetsReady == \A p \in Pod : pods[p].target # NoNode => SafeTarget(p, pods[p].target)

NodesOnlyComeUp == Faults \cap {"notready", "drain"} = {}

(***************************************************************************)
(* Why, as an inductive invariant: what the cache shows as Ready is Ready, *)
(* and every other node carries the not-ready taint in the ledger, from    *)
(* its rebuild to the patch.                                               *)
(***************************************************************************)
ReadyInv ==
  /\ \A n \in Node : /\ ~ nodes[n].deleting
                     /\ nodeCache[n].phase = "ready" => nodes[n].phase = "ready"
  /\ \A n \in DOMAIN ledgerNodes :
        nodes[n].phase = "ready" \/ NotReadyTaint \in ledgerNodes[n].taints
  /\ worker.target # NoNode => SafeTarget(worker.pod, worker.target)
  /\ TargetsReady

(***************************************************************************)
(* The conditions under which the ledger keeps every reservation: it is    *)
(* never emptied and no node leaves it, and all profiles skip the same     *)
(* nodes for want of a device.                                             *)
(***************************************************************************)
NodesStay == Faults \cap {"list", "restart", "drain"} = {}

SkipSameNodes ==
  \A n \in Node : \A node \in NodeType : \A pr, other \in Profile :
     MissingResource(Allocatable(n, node), ProfileSpec[pr].source)
        = MissingResource(Allocatable(n, node), ProfileSpec[other].source)

\* A node has been seen to have what the cache has seen it to have.
CacheBehind(n) ==
  /\ ~ nodes[n].deleting /\ ~ nodeCache[n].deleting
  /\ nodeCache[n].phase # "absent" => nodes[n].phase # "absent"
  /\ nodeCache[n].devices => nodes[n].devices
  /\ nodes[n].devices => nodes[n].phase # "absent"

\* Why they suffice, as an inductive invariant: a node that has an entry is
\* listed by the next rebuild, whichever profile that is for.
KeptInv ==
  /\ \A n \in Node : CacheBehind(n)
  /\ \A pr \in Profile : DOMAIN ledgerNodes \subseteq ListedNodes(pr)
  /\ lost = {}

\* The reconcile of the worker's pod ends with a hold.
Holds == worker.pod # NoPod /\ worker' = Idle /\ EvaluateRule

WorthWaiting(p, key) ==
  \/ /\ NodeMatchesConstraints(ledgerInflight[key], ExtractConstraints(PodSpec[p]))
     /\ Fits(ledgerInflight[key], Demand(p))
  \/ /\ key[1] = ProfileOf(p)
     /\ DOMAIN ledgerInflight[key].allocatable = {}

(***************************************************************************)
(* With WaitForNodeReady in its profile a pod is held only for a node that *)
(* is coming, one that suits it and has room for it or one of its profile  *)
(* whose capacity is not known: otherwise it passes through, or the        *)
(* autoscaler would never learn of it.                                     *)
(***************************************************************************)
HoldsOnlyForInflight ==
  [][LET p == worker.pod
     IN  Holds /\ (\E i \in DOMAIN RulesOf(p) : RulesOf(p)[i] = "WaitForNodeReady")
           => \E key \in DOMAIN ledgerInflight : WorthWaiting(p, key)]_vars

\* The condition for it: no other rule that holds stands beside WaitForNodeReady.
ScaleUpAlone ==
  \A pr \in Profile : \A i, j \in DOMAIN ProfileSpec[pr].rules :
     ProfileSpec[pr].rules[i] = "WaitForNodeReady"
        => ProfileSpec[pr].rules[j] # "WaitForWorkloadPacking"

(***************************************************************************)
(* A pod that could wait for an in-flight node is not passed through to    *)
(* the autoscaler: none is while one in-flight entry has, reservations     *)
(* aside, room for every pod that is still gated.                          *)
(***************************************************************************)
InflightSuffices(p) ==
  \E key \in DOMAIN ledgerInflight :
     /\ NodeMatchesConstraints(ledgerInflight[key], ExtractConstraints(PodSpec[p]))
     /\ \A r \in Resource :
          Tally({q \in Pod : pods[q].phase = "gated"}, DemandFor(r))
             <= At(ledgerInflight[key].allocatable, r)

NoRedundantScaleUp ==
  [][Release /\ worker.reason = "capacity" /\ worker.target = NoNode
       => ~ InflightSuffices(worker.pod)]_vars

(***************************************************************************)
(* What Reserve is for, without the exception for dropped reservations:    *)
(* the pods pinned to a node never demand more than it has, however many   *)
(* rebuilds of the ledger came between the releases.                       *)
(***************************************************************************)
NeverOverbooked ==
  \A n \in Node : \A r \in Resource :
     Tally(PinnedTo(n), DemandFor(r)) <= At(NodeSpec[n].capacity, r)

(***************************************************************************)
(* A reservation ends when its pod is bound: once the ledger is rebuilt,   *)
(* no node has more reserved than the pods pinned to it and not yet seen   *)
(* as bound demand.                                                        *)
(***************************************************************************)
FulfilledReservationsRemoved ==
  [][\A p \in Pod : SyncLedger(p) =>
       \A n \in DOMAIN ledgerNodes' : \A r \in Resource :
          ledgerNodes'[n].reserved[r] <=
             Tally({q \in Pod : pods[q].target = n /\ podCache[q].phase # "bound"},
                   DemandFor(r))]_vars

(***************************************************************************)
(* Why no wake-up is lost, as an inductive invariant: the event that is to *)
(* come is never one the filter drops, since a pod that was never created  *)
(* is not in the cache.                                                    *)
(***************************************************************************)
WakeupInv ==
  /\ NoLostWakeup
  /\ \A p \in Pod : pods[p].phase = "absent" => podCache[p].phase = "absent"

-----------------------------------------------------------------------------
(* Liveness.                                                               *)

(***************************************************************************)
(* The informers deliver, the clock reaches the reservation timeout and    *)
(* the end of a delay, the worker takes its steps, the work queue is fair  *)
(* to every pod in it, and a list, or a patch, that is retried for ever    *)
(* succeeds in the end.  No event of QueuePod need ever come.              *)
(***************************************************************************)
Fairness ==
  /\ \A p \in Pod : /\ WF_vars(DeliverPod(p))
                    /\ WF_vars(Expire(p) /\ UNCHANGED controllerVars)
                    /\ SF_vars(SyncLedger(p))
                    /\ SF_vars(ReconcileProfileNotFound(p) /\ pods'[p].phase # "gated")
  /\ WF_vars(SkipUnknownRule \/ EvaluateRule)
  /\ SF_vars(Release /\ pods'[worker.pod].phase # "gated")
  /\ WF_vars(Release)

FairSpec == Spec /\ Fairness

(***************************************************************************)
(* Every gated pod loses its gates in the end (or ends): a rule may hold   *)
(* it for ever, but the reservation timeout, or the deletion of its        *)
(* profile, releases it.                                                   *)
(***************************************************************************)
EveryGatedPodReleased ==
  \A p \in Pod : pods[p].phase = "gated" ~> pods[p].phase # "gated"
=============================================================================
