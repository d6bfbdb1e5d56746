---------------------------- MODULE BookingProofs ----------------------------
(***************************************************************************)
(* Reconciler implements Booking, for every set of pods, nodes, profiles   *)
(* and faults: each of its steps is a placement, an end, a drop or, seen   *)
(* through the mapping, no step at all.                                    *)
(***************************************************************************)
EXTENDS ReconcilerProofs

\* The abstract state of a pod that a step of Reconciler does not touch.
Same(p) ==
  /\ Stage(pods'[p].phase) = Stage(pods[p].phase)
  /\ pods'[p].target = pods[p].target

\* A step that leaves the stage and the target of every pod alone is a drop.
LEMMA DropStep ==
  ASSUME \A p \in Pod : Same(p), lost \subseteq lost', lost' \subseteq Node
  PROVE  B!Drop
BY DEF B!Drop, Same

\* A step that ends some pods and leaves the others alone.
LEMMA EndStep ==
  ASSUME NEW ending \in SUBSET Pod, UNCHANGED lost,
         \A p \in ending : Stage(pods'[p].phase) = "ended" /\ pods'[p].target = NoNode,
         \A p \in Pod \ ending : Same(p)
  PROVE  B!Next
<1>1. B!End(ending)
  BY DEF B!End, Same
<1> QED
  BY <1>1 DEF B!Next

\* A step that releases one waiting pod is a placement, if the node has room.
LEMMA PlaceStep ==
  ASSUME NEW p \in Pod, NEW n \in Node \cup {NoNode}, UNCHANGED lost,
         Stage(pods[p].phase) = "waiting", Stage(pods'[p].phase) = "placed",
         pods'[p].target = n, \A q \in Pod \ {p} : Same(q),
         n \in Node \ lost => HasRoom(n, PinnedTo(n) \cup {p})
  PROVE  B!Next
<1>1. B!PlacedOn(n) = PinnedTo(n)
  BY DEF B!PlacedOn, PinnedTo, Stage
<1>2. B!Place(p, n)
  BY <1>1 DEF B!Place, Same
<1> QED
  BY <1>2 DEF B!Next

-----------------------------------------------------------------------------

\* What is reserved for the worker's pod leaves room for it on its target.
LEMMA TargetHasRoom ==
  ASSUME TypeOK, BookingInv, NEW n \in Node \ lost, worker.pod \in Pod, worker.target = n
  PROVE  HasRoom(n, PinnedTo(n) \cup {worker.pod})
<1> SUFFICES ASSUME NEW r \in Resource
             PROVE  Tally(PinnedTo(n) \cup {worker.pod}, DemandFor(r))
                       <= At(NodeSpec[n].capacity, r)
  BY DEF HasRoom
<1> DEFINE claimed  == Tally(Claims(n), DemandFor(r))
           held     == ReservedOn(ledgerNodes, n)[r]
           capacity == At(NodeSpec[n].capacity, r)
<1>1. Claims(n) = PinnedTo(n) \cup {worker.pod}
  BY DEF Claims
<1>2. claimed <= held
  BY DEF BookingInv, ClaimsReserved
<1>3. claimed \in Nat
  BY ClaimsTally
<1>4. capacity \in Nat
  BY AllocatableType
<1>5. held \in Nat
  BY ReservedOnType
<1>6. held <= capacity
  BY <1>4 DEF ReservedOn, Zero, BookingInv, WithinCapacity
<1> HIDE DEF held, capacity, claimed
<1>7. claimed <= capacity
  BY <1>2, <1>3, <1>4, <1>5, <1>6
<1> QED
  BY <1>1, <1>7 DEF claimed, capacity

\* A patch places the pod it releases, and moves no pod that is placed.
LEMMA ReleaseStep ==
  ASSUME TypeOK, Untargeted, NEW p \in Pod, NEW target \in Node \cup {NoNode},
         NEW reason, NEW seenHeldBy, NEW waiting,
         ReleaseGates(p, target, reason, seenHeldBy, waiting),
         UNCHANGED lost,
         target \in Node \ lost => HasRoom(target, PinnedTo(target) \cup {p})
  PROVE  B!Next
<1>1. pods \in [Pod -> PodType] /\ lost \subseteq Node
  BY DEF TypeOK
<1>2. CASE UNCHANGED pods
  BY <1>1, <1>2, DropStep DEF Same, B!Next
<1>3. CASE /\ PatchAccepted(p, target)
           /\ pods' = [pods EXCEPT ![p] = Patched(p, target, reason, seenHeldBy)]
  <2>1. /\ pods'[p].phase = IF pods[p].phase = "gated" THEN "released" ELSE pods[p].phase
        /\ pods'[p].target = IF target = NoNode THEN pods[p].target ELSE target
        /\ \A q \in Pod \ {p} : pods'[q] = pods[q]
    BY <1>1, <1>3 DEF Patched, PodType
  <2>2. CASE pods[p].phase = "gated"
    <3>1. pods[p].target = NoNode
      BY <2>2 DEF Untargeted
    <3>2. pods'[p].target = target
      BY <2>1, <3>1
    <3>3. Stage(pods[p].phase) = "waiting" /\ Stage(pods'[p].phase) = "placed"
      BY <2>1, <2>2 DEF Stage
    <3> QED
      BY <2>1, <3>2, <3>3, PlaceStep DEF Same
  <2>3. CASE pods[p].phase # "gated"
    <3>1. target \in {NoNode, pods[p].target}
      BY <1>3, <2>3 DEF PatchAccepted
    <3>2. \A q \in Pod : Same(q)
      BY <2>1, <2>3, <3>1 DEF Same
    <3> QED
      BY <1>1, <3>2, DropStep DEF B!Next
  <2> QED
    BY <2>2, <2>3
<1> QED
  BY <1>2, <1>3 DEF ReleaseGates

\* The cluster's own steps: a pod is created without gates and so placed on no
\* node in particular, or some pods end.
LEMMA ClusterStep ==
  ASSUME TypeOK, Untargeted, ClusterNext, UNCHANGED lost
  PROVE  B!Next
<1>1. pods \in [Pod -> PodType] /\ lost \subseteq Node
  BY DEF TypeOK
<1>2. CASE \A p \in Pod : Same(p)
  BY <1>1, <1>2, DropStep DEF B!Next
<1>3. ASSUME NEW p \in Pod, CreatePod(p) PROVE B!Next
  <2>1. /\ pods[p].phase = "absent" /\ pods[p].target = NoNode
        /\ pods'[p].phase \in {"gated", "released"}
        /\ pods'[p].target = NoNode
        /\ \A q \in Pod \ {p} : pods'[q] = pods[q]
    BY <1>1, <1>3 DEF CreatePod, PodType, Untargeted
  <2>2. CASE pods'[p].phase = "gated"
    BY <1>2, <2>1, <2>2 DEF Same, Stage
  <2>3. CASE pods'[p].phase = "released"
    <3>1. Stage(pods[p].phase) = "waiting" /\ Stage(pods'[p].phase) = "placed"
      BY <2>1, <2>3 DEF Stage
    <3> QED
      BY <2>1, <3>1, PlaceStep, SetsAssumption DEF Same
  <2> QED
    BY <2>1, <2>2, <2>3
<1>4. ASSUME NEW p \in Pod, EndPod(p) PROVE B!Next
  <2>1. /\ pods'[p].phase = "gone" /\ pods'[p].target = NoNode
        /\ \A q \in Pod \ {p} : pods'[q] = pods[q]
    BY <1>1, <1>4 DEF EndPod, GonePod, AbsentPod
  <2>2. Stage(pods'[p].phase) = "ended"
    BY <2>1 DEF Stage
  <2>3. {p} \in SUBSET Pod
    OBVIOUS
  <2> QED
    BY <2>1, <2>2, <2>3, EndStep DEF Same
<1>5. ASSUME NEW p \in Pod, NEW n \in Node, Bind(p, n) PROVE B!Next
  <2>1. /\ pods[p].phase = "released" /\ pods'[p].phase = "bound"
        /\ pods'[p].target = pods[p].target
        /\ \A q \in Pod \ {p} : pods'[q] = pods[q]
    BY <1>1, <1>5 DEF Bind, PodType
  <2> QED
    BY <1>2, <2>1 DEF Same, Stage
<1>6. ASSUME NEW n \in Node, RemoveNode(n) PROVE B!Next
  <2>1. /\ \A p \in BoundTo(n, pods) : /\ pods'[p].phase = "gone"
                                       /\ pods'[p].target = NoNode
        /\ \A q \in Pod \ BoundTo(n, pods) : pods'[q] = pods[q]
    BY <1>1, <1>6 DEF RemoveNode, BoundTo, GonePod, AbsentPod
  <2>2. \A p \in BoundTo(n, pods) : Stage(pods'[p].phase) = "ended"
    BY <2>1 DEF Stage
  <2>3. BoundTo(n, pods) \in SUBSET Pod
    BY DEF BoundTo
  <2> QED
    BY <2>1, <2>2, <2>3, EndStep DEF Same
<1>7. CASE UNCHANGED pods
  BY <1>2, <1>7 DEF Same
<1> QED
  BY <1>3, <1>4, <1>5, <1>6, <1>7
  DEF ClusterNext, Expire, RegisterNode, NodeReady, NodeNotReady, RegisterDevices,
      DrainNode, SetPending, ReportTask, DeleteProfile, CreateProfile, signals

-----------------------------------------------------------------------------

(***************************************************************************)
(* The reconciler implements Booking.  Every release that                  *)
(* releaseGatesWithAffinity gets through is one placement with room for    *)
(* the pod on its node, whatever was read stale, reserved twice, retried   *)
(* or lost; every other step moves no pod.                                 *)
(***************************************************************************)
THEOREM ReconcilerImplementsBooking == Spec => ImplementsBooking
<1>1. Init => B!Init
  <2> SUFFICES ASSUME Init PROVE B!Init
    OBVIOUS
  <2>1. \A p \in Pod : Stage(pods[p].phase) = "waiting" /\ pods[p].target = NoNode
    BY DEF Init, ClusterInit, AbsentPod, Stage
  <2> QED
    BY <2>1 DEF Init, B!Init
<1>2. TypeOK /\ TypeOK' /\ BookingInv /\ [Next]_vars => [B!Next]_(B!vars)
  <2> SUFFICES ASSUME TypeOK, TypeOK', BookingInv, [Next]_vars PROVE B!Next
    OBVIOUS
  <2> USE DEF clusterVars, signals, controllerVars, caches, ledger
  <2>1. Untargeted /\ pods \in [Pod -> PodType] /\ lost' \subseteq Node
    BY DEF BookingInv, TypeOK
  <2>2. ASSUME UNCHANGED pods, lost \subseteq lost' PROVE B!Next
    BY <2>1, <2>2, DropStep DEF Same, B!Next
  <2>3. CASE UNCHANGED vars
    BY <2>2, <2>3 DEF vars
  <2>4. CASE ClusterNext /\ UNCHANGED controllerVars
    BY <2>1, <2>4, ClusterStep
  <2>5. ASSUME NEW p \in Pod,
               DeliverPod(p) \/ QueuePod(p) \/ ReconcileUngated(p)
        PROVE  B!Next
    BY <2>2, <2>5 DEF DeliverPod, QueuePod, ReconcileUngated
  <2>6. ASSUME NEW p \in Pod, SyncLedgerFails(p) \/ SyncLedger(p) PROVE B!Next
    BY <2>2, <2>6 DEF SyncLedgerFails, SyncLedger, LostBy
  <2>7. ASSUME NEW p \in Pod, ReconcileProfileNotFound(p) PROVE B!Next
    BY <2>1, <2>7, ReleaseStep, SetsAssumption DEF ReconcileProfileNotFound
  <2>8. ASSUME NEW n \in Node, DeliverNode(n) PROVE B!Next
    BY <2>2, <2>8 DEF DeliverNode
  <2>9. ASSUME NEW pr \in Profile, DeliverProfile(pr) PROVE B!Next
    BY <2>2, <2>9 DEF DeliverProfile
  <2>10. CASE SkipUnknownRule
    BY <2>2, <2>10 DEF SkipUnknownRule
  <2>11. CASE EvaluateRule
    <3>1. \A q \in Pod : pods'[q].phase = pods[q].phase /\ pods'[q].target = pods[q].target
      <4>1. \/ pods' = pods
            \/ \E rule : pods' = [pods EXCEPT ![worker.pod].heldBy = rule]
        BY <2>11 DEF EvaluateRule, AnnotatePod
      <4>2. ASSUME NEW rule, pods' = [pods EXCEPT ![worker.pod].heldBy = rule],
                   NEW q \in Pod
            PROVE  pods'[q].phase = pods[q].phase /\ pods'[q].target = pods[q].target
        <5>1. pods'[q] = pods[q] \/ pods'[q] = [pods[q] EXCEPT !.heldBy = rule]
          BY <2>1, <4>2
        <5>2. /\ [pods[q] EXCEPT !.heldBy = rule].phase = pods[q].phase
              /\ [pods[q] EXCEPT !.heldBy = rule].target = pods[q].target
          BY <2>1 DEF PodType
        <5> QED
          BY <5>1, <5>2
      <4> QED
        BY <4>1, <4>2
    <3>2. lost' = lost
      BY <2>11 DEF EvaluateRule
    <3> QED
      BY <2>1, <3>1, <3>2, DropStep DEF Same, B!Next
  <2>12. CASE Release
    <3>1. worker.pod \in Pod /\ worker.target \in Node \cup {NoNode}
      BY <2>12 DEF Release, RulesDone, WorkerType, TypeOK
    <3>2. worker.target \in Node \ lost =>
            HasRoom(worker.target, PinnedTo(worker.target) \cup {worker.pod})
      BY <3>1, TargetHasRoom
    <3> QED
      BY <2>1, <2>12, <3>1, <3>2, ReleaseStep DEF Release
  <2>13. CASE Restart
    BY <2>2, <2>13 DEF Restart, LostBy
  <2> QED
    BY <2>3, <2>4, <2>5, <2>6, <2>7, <2>8, <2>9, <2>10, <2>11, <2>12, <2>13 DEF Next
<1> QED
  BY <1>1, <1>2, TypeCorrect, BookingInvariant, PTL DEF Spec, ImplementsBooking, B!Spec
=============================================================================
