----------------------------- MODULE GatesProofs -----------------------------
(***************************************************************************)
(* Proofs about Gates, for every set of gates, terms, nodes, rule lists    *)
(* and submissions and any number of lives and faults: the types, the      *)
(* inductive invariant, and what the release patch does to the gates and   *)
(* the affinity it writes back.                                            *)
(***************************************************************************)
EXTENDS Gates, TLAPS

-----------------------------------------------------------------------------
(* Type correctness.                                                       *)

\* Affinities with no hostname, and what Pin makes of an affinity.
LEMMA AffinityTypes ==
  /\ \A T \in SUBSET Term : [t \in T |-> {}] \in Affinity
  /\ [t \in {} |-> {}] \in Affinity
  /\ \A a \in Affinity, n \in Node : Pin(a, n) \in Affinity
<1> DEFINE All == Term \cup {NewTerm}
<1>1. ASSUME NEW T \in SUBSET All, NEW f \in [T -> SUBSET Node] PROVE f \in Affinity
  BY <1>1 DEF Affinity
<1>2. \A T \in SUBSET Term : T \in SUBSET All /\ [t \in T |-> {}] \in [T -> SUBSET Node]
  OBVIOUS
<1>3. {} \in SUBSET All /\ [t \in {} |-> {}] \in [{} -> SUBSET Node]
  OBVIOUS
<1>4. ASSUME NEW a \in Affinity, NEW n \in Node PROVE Pin(a, n) \in Affinity
  <2>1. PICK T \in SUBSET All : a \in [T -> SUBSET Node]
    BY DEF Affinity
  <2>2. CASE DOMAIN a = {}
    <3>1. {NewTerm} \in SUBSET All /\ [t \in {NewTerm} |-> {n}] \in [{NewTerm} -> SUBSET Node]
      OBVIOUS
    <3> QED
      BY <1>1, <2>2, <3>1 DEF Pin
  <2>3. CASE DOMAIN a # {}
    <3>1. [t \in DOMAIN a |-> a[t] \cup {n}] \in [T -> SUBSET Node]
      BY <2>1
    <3> QED
      BY <1>1, <2>3, <3>1 DEF Pin
  <2> QED
    BY <2>2, <2>3
<1> HIDE DEF All
<1> QED
  BY <1>1, <1>2, <1>3, <1>4

\* The pods that are made from nothing.
LEMMA PodTypes ==
  /\ Absent \in PodType
  /\ \A uid \in Nat, s \in Submission : Submitted(uid, s) \in PodType
  /\ pod \in PodType => \A phase \in {"gone", "refused"} : Ended(phase) \in PodType
<1>1. Absent \in PodType
  BY AffinityTypes DEF Absent, PodType
<1>2. ASSUME NEW uid \in Nat, NEW s \in Submission PROVE Submitted(uid, s) \in PodType
  <2>1. /\ s.labelled \in BOOLEAN /\ s.excluded \in BOOLEAN
        /\ s.gates \in SUBSET AnyGate /\ s.terms \in SUBSET Term
    BY SubmissionAssumption DEF AnyGate
  <2>2. [t \in s.terms |-> {}] \in Affinity
    BY <2>1, AffinityTypes
  <2> QED
    BY <2>1, <2>2 DEF Submitted, PodType
<1>3. ASSUME pod \in PodType, NEW phase \in {"gone", "refused"} PROVE Ended(phase) \in PodType
  BY <1>1, <1>3 DEF Ended, PodType
<1> QED
  BY <1>1, <1>2, <1>3

\* The gates the webhook adds are kompakt's.
LEMMA InjectedType == \A rules : Injected(rules) \subseteq Gate
BY DEF Injected, Gate

\* Every step that changes the pod keeps its type, and uids only grow.
PodMoves == pod' \in PodType /\ pod.uid <= pod'.uid

LEMMA PatchedType ==
  ASSUME pod \in PodType, copy \in PodType, NEW n \in Node \cup {NoNode}
  PROVE  Patched(n) \in PodType /\ Patched(n).uid = pod.uid
<1>1. (IF n = NoNode THEN pod.affinity ELSE Pin(copy.affinity, n)) \in Affinity
  BY AffinityTypes, NodesAssumption DEF PodType
<1>2. copy.gates \ Gate \in SUBSET AnyGate
  BY DEF PodType
<1>3. (IF n = NoNode THEN pod.node ELSE n) \in Node \cup {NoNode}
  BY DEF PodType
<1>4. (pod.crossed \/ copy.uid # pod.uid) \in BOOLEAN
  OBVIOUS
<1> QED
  BY <1>1, <1>2, <1>3, <1>4 DEF Patched, PodType

LEMMA PodStep ==
  ASSUME TypeOK, Next
  PROVE  PodMoves
<1> USE DEF PodMoves
<1>0. pod \in PodType /\ pod.uid \in Nat
  BY DEF TypeOK, PodType
<1>1. CASE UNCHANGED pod
  BY <1>0, <1>1
<1>2. \A phase \in {"gone", "refused"} : Ended(phase) \in PodType /\ Ended(phase).uid = pod.uid
  BY <1>0, PodTypes DEF Ended, Absent
<1>3. CASE Delete \/ Denied
  BY <1>0, <1>2, <1>3 DEF Delete, Denied
<1>4. CASE Submit
  <2>1. PICK s \in Submission : pod' = Submitted(pod.uid + 1, s)
    BY <1>4 DEF Submit
  <2>2. Submitted(pod.uid + 1, s) \in PodType
    BY <1>0, PodTypes
  <2> QED
    BY <1>0, <2>1, <2>2 DEF Submitted
<1>5. CASE Create
  <2>1. CASE review.doubled
    BY <1>0, <1>2, <1>5, <2>1 DEF Create
  <2>2. CASE ~ review.doubled
    <3>1. pod' = [pod EXCEPT !.phase = "live", !.given = pod.gates]
      BY <1>5, <2>2 DEF Create
    <3>2. \A g \in SUBSET AnyGate :
             LET p == [pod EXCEPT !.phase = "live", !.given = g]
             IN  p \in PodType /\ p.uid = pod.uid
      BY <1>0 DEF PodType
    <3>3. pod.gates \in SUBSET AnyGate
      BY <1>0 DEF PodType
    <3>4. pod' \in PodType /\ pod'.uid = pod.uid
      BY <3>1, <3>2, <3>3, Zenon
    <3> QED
      BY <1>0, <3>4
  <2> QED
    BY <2>1, <2>2
<1>6. CASE PatchResponse
  <2>1. pod' = [pod EXCEPT !.gates = @ \cup Injected(profile)]
    BY <1>6 DEF PatchResponse
  <2> QED
    BY <1>0, <2>1, InjectedType DEF PodType, AnyGate
<1>7. ASSUME pod' = [pod EXCEPT !.labelled = ~ @] PROVE PodMoves
  <2>1. \A b \in BOOLEAN :
           LET p == [pod EXCEPT !.labelled = b] IN p \in PodType /\ p.uid = pod.uid
    BY <1>0 DEF PodType
  <2>2. (~ pod.labelled) \in BOOLEAN
    OBVIOUS
  <2>3. [pod EXCEPT !.labelled = ~ @] = [pod EXCEPT !.labelled = ~ pod.labelled]
    OBVIOUS
  <2>4. pod' \in PodType /\ pod'.uid = pod.uid
    BY <1>7, <2>1, <2>2, <2>3, Zenon
  <2> QED
    BY <1>0, <2>4
<1>8. CASE OtherWebhook
  <2>1. ASSUME NEW g \in OtherGate, pod' = [pod EXCEPT !.gates = @ \cup {g}] PROVE PodMoves
    BY <1>0, <2>1 DEF PodType, AnyGate
  <2> QED
    BY <1>7, <1>8, <2>1 DEF OtherWebhook
<1>9. CASE RemoveOtherGate
  BY <1>0, <1>9 DEF RemoveOtherGate, PodType
<1>10. CASE Relabel
  BY <1>7, <1>10 DEF Relabel
<1>11. CASE Release
  <2>1. PICK n \in Node \cup {NoNode} : ReleaseGates(n)
    BY <1>11 DEF Release
  <2>2. copy \in PodType
    BY <1>11 DEF Release, TypeOK
  <2>3. Patched(n) \in PodType /\ Patched(n).uid = pod.uid
    BY <1>0, <2>2, PatchedType
  <2> QED
    BY <1>0, <2>1, <2>3 DEF ReleaseGates
<1>12. CASE Handle
  BY <1>1, <1>3, <1>6, <1>12 DEF Handle, Allowed
<1> QED
  BY <1>1, <1>3, <1>4, <1>5, <1>8, <1>9, <1>10, <1>11, <1>12
     DEF Next, Cluster, Controller, CallIgnored, SetProfile, Expire, DeliverPod, QueuePod, Get, Hold,
         Retry, Restart

\* What a step does to the copies of the pod: they are kept or dropped, or, when
\* the pod stays as it is, passed on or taken from the API server.
ViewsMove ==
  \/ cache' = cache /\ copy' \in {copy, Absent}
  \/ UNCHANGED pod /\ cache' \in {cache, Listed} /\ copy' \in {copy, cache, Absent}

LEMMA ViewsStep ==
  ASSUME Next
  PROVE  ViewsMove
<1>1. CASE Cluster
  BY <1>1 DEF Cluster, ViewsMove, CallIgnored, OtherWebhook, Create, Submit, SetProfile,
              RemoveOtherGate, Relabel, Delete, Expire
<1>2. CASE Handle \/ DeliverPod \/ QueuePod \/ Restart
  BY <1>2 DEF ViewsMove, Handle, DeliverPod, QueuePod, Restart
<1>3. CASE Get
  BY <1>3 DEF ViewsMove, Get
<1>4. CASE Hold \/ Retry \/ Release
  BY <1>4 DEF ViewsMove, Hold, Retry, Release, ReleaseGates, Requeue
<1> QED
  BY <1>1, <1>2, <1>3, <1>4 DEF Next, Controller

\* Each call of the webhook, and each change by another one, keeps the review's
\* type: the webhook is called twice at most.
ReviewType ==
  [made : 0 .. 2, changed : BOOLEAN, doubled : BOOLEAN, missed : BOOLEAN,
   seen : RuleList \cup {NoProfile}]

LEMMA ReviewStep ==
  ASSUME TypeOK, Next
  PROVE  review' \in ReviewType
<1>0. review \in ReviewType /\ profile \in RuleList \cup {NoProfile}
  BY DEF TypeOK, ReviewType
<1>1. CASE UNCHANGED review
  BY <1>0, <1>1
<1>2. NoReview \in ReviewType
  BY DEF NoReview, ReviewType
<1>3. NeedsCall => Called \in ReviewType
  <2>1. NeedsCall => review.made \in {0, 1}
    BY Zenon DEF NeedsCall
  <2>2. ASSUME review.made \in {0, 1} PROVE Called \in ReviewType
    <3>1. \A m \in 0 .. 2 : [review EXCEPT !.made = m, !.changed = FALSE] \in ReviewType
      BY <1>0 DEF ReviewType
    <3>2. review.made + 1 \in 0 .. 2
      BY <2>2
    <3> QED
      BY <3>1, <3>2 DEF Called
  <2> QED
    BY <2>1, <2>2
<1>4. \A r \in ReviewType, b \in BOOLEAN :
         /\ [r EXCEPT !.missed = TRUE] \in ReviewType
         /\ [r EXCEPT !.changed = b] \in ReviewType
         /\ [r EXCEPT !.seen = profile, !.doubled = b] \in ReviewType
  BY <1>0 DEF ReviewType
<1>5. CASE Handle
  <2>1. CASE PatchResponse
    <3> DEFINE b == Called.doubled \/ Repeats(profile) \/ pod.gates \cap Injected(profile) # {}
    <3>1. b \in BOOLEAN
      OBVIOUS
    <3>2. review' = [Called EXCEPT !.seen = profile, !.doubled = b]
      BY <2>1 DEF PatchResponse
    <3> QED
      BY <1>3, <1>4, <1>5, <3>1, <3>2, Zenon DEF Handle
  <2> QED
    BY <1>3, <1>5, <2>1 DEF Handle, Allowed, Denied
<1>6. CASE CallIgnored
  BY <1>3, <1>4, <1>6 DEF CallIgnored
<1>7. CASE OtherWebhook
  <2>1. review' = [review EXCEPT !.changed = review.made > 0] /\ (review.made > 0) \in BOOLEAN
    BY <1>7 DEF OtherWebhook
  <2> QED
    BY <1>0, <1>4, <2>1, Zenon
<1>8. CASE Create \/ Submit
  BY <1>2, <1>8 DEF Create, Submit
<1> QED
  BY <1>1, <1>5, <1>6, <1>7, <1>8
     DEF Next, Cluster, Controller, SetProfile, RemoveOtherGate, Relabel, Delete, Expire,
         DeliverPod, QueuePod, Get, Hold, Retry, Release, ReleaseGates, Restart, Requeue

\* Type correctness of Gates: among others, the controller only works on pods
\* that were created, and its copies are never newer than the pod.
THEOREM GatesTypeCorrect == Spec => []TypeOK
<1>1. Init => TypeOK
  <2> SUFFICES ASSUME Init PROVE TypeOK
    OBVIOUS
  <2>1. pod \in PodType
    BY PodTypes DEF Init
  <2>2. review \in ReviewType
    BY DEF Init, NoReview, ReviewType
  <2>3. faults \in 0 .. MaxFaults
    BY GatesBoundsAssumption DEF Init
  <2> QED
    BY <2>1, <2>2, <2>3 DEF Init, TypeOK, ReviewType
<1>2. TypeOK /\ [Next]_vars => TypeOK'
  <2> SUFFICES ASSUME TypeOK, [Next]_vars PROVE TypeOK'
    OBVIOUS
  <2>1. CASE UNCHANGED vars
    BY <2>1 DEF vars, TypeOK
  <2>2. CASE Next
    <3>1. PodMoves /\ review' \in ReviewType /\ ViewsMove
      BY <2>2, PodStep, ReviewStep, ViewsStep
    <3>2. profile' \in RuleList \cup {NoProfile}
      BY <2>2 DEF Next, Cluster, Controller, TypeOK, SetProfile, CallIgnored, OtherWebhook,
                  Create, Submit, RemoveOtherGate, Relabel, Delete, Expire, Handle,
                  DeliverPod, QueuePod, Get, Hold, Retry, Release, ReleaseGates, Restart, Requeue
    <3>3. {expired', queued'} \subseteq BOOLEAN
      <4>1. expired' \in {expired, TRUE, FALSE}
        BY <2>2 DEF Next, Cluster, Controller, SetProfile, CallIgnored, OtherWebhook,
                    Create, Submit, RemoveOtherGate, Relabel, Delete, Expire, Handle,
                    DeliverPod, QueuePod, Get, Hold, Retry, Release, ReleaseGates, Restart, Requeue
      <4>2. queued' \in BOOLEAN
        <5>1. CASE UNCHANGED queued
          BY <5>1 DEF TypeOK
        <5>2. CASE Get \/ QueuePod \/ Requeue
          BY <5>2 DEF Get, QueuePod, Requeue
        <5>3. CASE DeliverPod
          BY <5>3, Zenon DEF DeliverPod
        <5>4. CASE Restart
          BY <5>4, Zenon DEF Restart, HasKompaktGates
        <5> QED
          BY <2>2, <5>1, <5>2, <5>3, <5>4
             DEF Next, Cluster, Controller, SetProfile, CallIgnored, OtherWebhook, Create,
                 Submit, RemoveOtherGate, Relabel, Delete, Expire, Handle, Hold, Retry,
                 Release, ReleaseGates
      <4> QED
        BY <4>1, <4>2 DEF TypeOK
    <3>4. faults' \in 0 .. MaxFaults
      <4>1. Fault => faults' \in 0 .. MaxFaults
        BY GatesBoundsAssumption DEF Fault, TypeOK
      <4>2. Fault \/ UNCHANGED faults
        BY <2>2 DEF Next, Cluster, Controller, SetProfile, CallIgnored, OtherWebhook,
                    Create, Submit, RemoveOtherGate, Relabel, Delete, Expire, Handle,
                    Allowed, Denied, PatchResponse,
                    DeliverPod, QueuePod, Get, Hold, Retry, Release, ReleaseGates, Restart
      <4> QED
        BY <4>1, <4>2 DEF TypeOK
    <3>5. ASSUME NEW p \in {cache', copy'}, p # Absent
          PROVE  p \in PodType /\ p.phase = "live" /\ p.uid <= pod'.uid
      <4>1. pod.uid \in Nat /\ pod'.uid \in Nat /\ pod.uid <= pod'.uid
        BY <3>1 DEF TypeOK, PodMoves, PodType
      <4>2. CASE p \in {cache, copy}
        <5>1. p \in PodType /\ p.phase = "live" /\ p.uid <= pod.uid
          BY <3>5, <4>2 DEF TypeOK
        <5>2. p.uid \in Nat
          BY <5>1 DEF PodType
        <5> QED
          BY <4>1, <5>1, <5>2
      <4>3. CASE p \notin {cache, copy}
        <5>1. p = Listed
          BY <3>1, <3>5, <4>3 DEF ViewsMove
        <5>2. p = pod /\ pod.phase = "live"
          BY <3>5, <5>1 DEF Listed
        <5> QED
          BY <4>1, <5>2 DEF TypeOK
      <4> QED
        BY <4>2, <4>3
    <3> QED
      BY <3>1, <3>2, <3>3, <3>4, <3>5 DEF TypeOK, PodMoves, ReviewType
  <2> QED
    BY <2>1, <2>2
<1> QED
  BY <1>1, <1>2, PTL DEF Spec

-----------------------------------------------------------------------------
(* The inductive invariant, in two parts: what is known of the pod, and of *)
(* the copies of it.                                                       *)

PodInv ==
  /\ pod.phase = "admission" => Reviewed
  /\ pod.phase = "live" => pod.gates \subseteq pod.given
  /\ GatesAllOrNothing /\ PinnedAsAnnotated /\ OneNode
  /\ pod.uid > 0 /\ \A t \in DOMAIN pod.asked : pod.asked[t] = {}
  /\ Gated(pod) => pod.affinity = pod.asked

ViewsInv ==
  /\ \A p \in {cache, copy} : p # Absent => Behind(p)
  /\ copy # Absent => HasKompaktGates(copy)

\* How a step may change a pod without overtaking the copies of it.
Onward ==
  \/ pod'.uid > pod.uid
  \/ pod'.uid = pod.uid /\ (pod.phase = "admission" \/ pod'.phase = "gone")
  \/ /\ pod'.uid = pod.uid /\ pod.phase = "live" /\ pod'.phase = "live"
     /\ pod'.given = pod.given /\ pod'.asked = pod.asked /\ pod'.gates \subseteq pod.gates

\* The copies stay behind the pod while it moves on.
LEMMA StayBehind ==
  ASSUME TypeOK, ViewsInv, Onward, cache' = cache, copy' \in {copy, Absent}
  PROVE  ViewsInv'
<1>1. ASSUME NEW p \in {cache, copy}, p # Absent
      PROVE  /\ p.uid > 0 /\ \A t \in DOMAIN p.asked : p.asked[t] = {}
             /\ p.uid = pod'.uid =>
                   \/ pod'.phase = "gone"
                   \/ /\ pod'.phase = "live" /\ pod'.gates \subseteq p.gates
                      /\ p.given = pod'.given /\ p.asked = pod'.asked
             /\ p.gates \subseteq p.given
             /\ Gated(p) => p.gates \cap Gate = p.given \cap Gate /\ p.affinity = p.asked
  <2>1. Behind(p) /\ p.uid \in Nat /\ pod.uid \in Nat /\ p.uid <= pod.uid
    BY <1>1 DEF ViewsInv, TypeOK, PodType
  <2>2. CASE pod'.uid > pod.uid
    BY <2>1, <2>2 DEF Behind
  <2>3. CASE pod'.uid = pod.uid /\ (pod.phase = "admission" \/ pod'.phase = "gone")
    BY <2>1, <2>3 DEF Behind
  <2>4. CASE /\ pod'.uid = pod.uid /\ pod.phase = "live" /\ pod'.phase = "live"
             /\ pod'.given = pod.given /\ pod'.asked = pod.asked
             /\ pod'.gates \subseteq pod.gates
    BY <2>1, <2>4 DEF Behind
  <2> QED
    BY <2>2, <2>3, <2>4 DEF Onward
<1> QED
  BY <1>1 DEF ViewsInv, Behind

\* A live pod is behind itself, so its copies may be taken and passed on.
LEMMA TakenBehind ==
  ASSUME TypeOK, PodInv, ViewsInv, UNCHANGED pod,
         cache' \in {cache, Listed}, copy' \in {copy, cache, Absent},
         copy' \in {copy, Absent} \/ HasKompaktGates(copy')
  PROVE  ViewsInv'
<1>1. pod.phase = "live" => Behind(pod)
  BY DEF PodInv, Behind, GatesAllOrNothing, Gated, HasKompaktGates
<1>2. \A p : Behind(p)' <=> Behind(p)
  BY DEF Behind
<1>3. \A p \in {cache', copy'} : p # Absent => Behind(p)
  BY <1>1 DEF ViewsInv, Listed
<1> QED
  BY <1>2, <1>3 DEF ViewsInv, HasKompaktGates

\* Once pinned, every term names the node and no other.
LEMMA PinFresh ==
  ASSUME NEW a \in Affinity, NEW n, \A t \in DOMAIN a : a[t] = {}
  PROVE  Pin(a, n) = [t \in IF DOMAIN a = {} THEN {NewTerm} ELSE DOMAIN a |-> {n}]
BY DEF Pin

\* A pod that is gone, and one that is submitted anew.
LEMMA EndedInv ==
  ASSUME TypeOK, PodInv, NEW phase \in {"gone", "refused"}, pod' = Ended(phase)
  PROVE  PodInv' /\ pod'.uid = pod.uid /\ pod'.phase = phase
<1>1. /\ pod'.uid = pod.uid /\ pod'.phase = phase /\ DOMAIN pod'.asked = {}
      /\ pod'.node = NoNode /\ pod'.affinity = pod'.asked
  BY DEF Ended, Absent
<1> QED
  BY <1>1 DEF PodInv, OneNode, GatesAllOrNothing, PinnedAsAnnotated, Gated

LEMMA SubmittedInv ==
  ASSUME TypeOK, PodInv, Submit
  PROVE  PodInv' /\ Onward
<1>1. PICK s \in Submission : pod' = Submitted(pod.uid + 1, s)
  BY DEF Submit
<1>2. pod.uid \in Nat /\ review'.made = 0
  BY DEF TypeOK, PodType, Submit, NoReview
<1>3. /\ pod'.uid = pod.uid + 1 /\ pod'.phase = "admission" /\ pod'.node = NoNode
      /\ pod'.affinity = pod'.asked /\ ~ pod'.crossed
      /\ \A t \in DOMAIN pod'.asked : pod'.asked[t] = {}
  BY <1>1 DEF Submitted
<1>4. Reviewed'
  BY <1>2, <1>3 DEF Reviewed
<1> QED
  BY <1>2, <1>3, <1>4
  DEF PodInv, GatesAllOrNothing, PinnedAsAnnotated, OneNode, Gated, Onward

\* In admission: only the gates, the label and the review change.
LEMMA AdmissionInv ==
  ASSUME TypeOK, PodInv, pod.phase = "admission",
         NEW g, NEW l, pod' = [pod EXCEPT !.gates = g, !.labelled = l],
         review'.made > 0 /\ ~ review'.changed /\ ~ review'.missed /\ ~ Ungated'
           => review'.seen # NoProfile /\ Injected(review'.seen) \subseteq g
  PROVE  PodInv' /\ Onward
<1>1. /\ pod'.uid = pod.uid /\ pod'.phase = "admission" /\ pod'.node = pod.node
      /\ pod'.affinity = pod.affinity /\ pod'.asked = pod.asked /\ pod'.crossed = pod.crossed
      /\ pod'.gates = g
  BY DEF TypeOK, PodType
<1>2. Reviewed'
  BY <1>1, Zenon DEF PodInv, Reviewed
<1>3. \A t \in DOMAIN pod'.asked : pod'.asked[t] = {}
  BY <1>1 DEF PodInv
<1> QED
  BY <1>1, <1>2, <1>3
  DEF PodInv, GatesAllOrNothing, PinnedAsAnnotated, OneNode, Gated, Onward

LEMMA HandleInv ==
  ASSUME TypeOK, PodInv, Handle
  PROVE  PodInv' /\ Onward
<1>1. pod.phase = "admission" /\ review' \in ReviewType
  BY ReviewStep DEF Handle, Next, Controller
<1>2. /\ Called.made = review.made + 1 /\ Called.changed = FALSE
      /\ Called.missed = review.missed
  BY DEF Called, TypeOK
<1>3. CASE Denied
  BY <1>1, <1>3, EndedInv DEF Denied, Onward
<1>4. CASE Allowed
  <2>1. pod' = [pod EXCEPT !.gates = pod.gates, !.labelled = pod.labelled]
    BY <1>4 DEF Allowed, TypeOK, PodType
  <2>2. Ungated' /\ ~ review'.changed
    BY <1>2, <1>4, Zenon DEF Allowed, Ungated
  <2> QED
    BY <1>1, <2>1, <2>2, AdmissionInv
<1>5. CASE PatchResponse
  <2>1. pod' = [pod EXCEPT !.gates = pod.gates \cup Injected(profile), !.labelled = pod.labelled]
    BY <1>5 DEF PatchResponse, TypeOK, PodType
  <2>2. review'.seen = profile /\ profile # NoProfile /\ review'.changed = FALSE
    BY <1>2, <1>5 DEF PatchResponse, Called, TypeOK
  <2>3. Injected(review'.seen) \subseteq pod.gates \cup Injected(profile)
    BY <2>2
  <2> QED
    BY <1>1, <2>1, <2>2, <2>3, AdmissionInv
<1> QED
  BY <1>3, <1>4, <1>5 DEF Handle

LEMMA OthersInv ==
  ASSUME TypeOK, PodInv, CallIgnored \/ OtherWebhook
  PROVE  PodInv' /\ Onward
<1>1. CASE CallIgnored
  <2>1. pod' = [pod EXCEPT !.gates = pod.gates, !.labelled = pod.labelled]
    BY <1>1 DEF CallIgnored, TypeOK, PodType
  <2>2. review'.missed = TRUE /\ review'.changed = FALSE
    BY <1>1 DEF CallIgnored, Called, TypeOK
  <2> QED
    BY <1>1, <2>1, <2>2, AdmissionInv DEF CallIgnored
<1>2. CASE OtherWebhook
  <2>1. review'.made = review.made /\ review'.changed = (review.made > 0)
    BY <1>2 DEF OtherWebhook, TypeOK
  <2>2. review'.made > 0 => review'.changed
    BY <2>1, Zenon
  <2>3. PICK g, l : pod' = [pod EXCEPT !.gates = g, !.labelled = l]
    <3>1. ASSUME NEW g \in OtherGate, pod' = [pod EXCEPT !.gates = @ \cup {g}]
          PROVE  pod' = [pod EXCEPT !.gates = pod.gates \cup {g}, !.labelled = pod.labelled]
      BY <3>1 DEF TypeOK, PodType
    <3>2. ASSUME pod' = [pod EXCEPT !.labelled = ~ @]
          PROVE  pod' = [pod EXCEPT !.gates = pod.gates, !.labelled = ~ pod.labelled]
      BY <3>2 DEF TypeOK, PodType
    <3> QED
      BY <1>2, <3>1, <3>2 DEF OtherWebhook
  <2> QED
    BY <1>2, <2>2, <2>3, AdmissionInv DEF OtherWebhook
<1> QED
  BY <1>1, <1>2

LEMMA CreateInv ==
  ASSUME TypeOK, PodInv, Create
  PROVE  PodInv' /\ Onward
<1>1. CASE review.doubled
  BY <1>1, EndedInv DEF Create, Onward
<1>2. CASE ~ review.doubled
  <2>1. pod' = [pod EXCEPT !.phase = "live", !.given = pod.gates] /\ pod.phase = "admission"
    BY <1>2 DEF Create
  <2>2. /\ pod'.uid = pod.uid /\ pod'.phase = "live" /\ pod'.gates = pod.gates
        /\ pod'.given = pod.gates /\ pod'.node = pod.node
        /\ pod'.affinity = pod.affinity /\ pod'.asked = pod.asked
    BY <2>1 DEF TypeOK, PodType
  <2>3. pod.node = NoNode /\ pod.affinity = pod.asked
    BY <2>1 DEF PodInv, Reviewed
  <2> QED
    BY <2>1, <2>2, <2>3 DEF PodInv, GatesAllOrNothing, PinnedAsAnnotated, OneNode, Onward
<1> QED
  BY <1>1, <1>2

\* A live pod loses a gate of another system, or its label, or gets it back.
LEMMA LiveInv ==
  ASSUME TypeOK, PodInv, RemoveOtherGate \/ Relabel
  PROVE  PodInv' /\ Onward
<1>1. /\ pod.phase = "live" /\ pod'.phase = "live" /\ pod'.uid = pod.uid
      /\ pod'.given = pod.given /\ pod'.asked = pod.asked /\ pod'.affinity = pod.affinity
      /\ pod'.node = pod.node /\ pod'.crossed = pod.crossed
      /\ pod'.gates \subseteq pod.gates /\ pod'.gates \cap Gate = pod.gates \cap Gate
  <2>1. CASE RemoveOtherGate
    <3>1. PICK g \in OtherGate : pod' = [pod EXCEPT !.gates = @ \ {g}]
      BY <2>1 DEF RemoveOtherGate
    <3> QED
      BY <2>1, <3>1, GatesAssumption DEF RemoveOtherGate, TypeOK, PodType
  <2>2. CASE Relabel
    BY <2>2 DEF Relabel, TypeOK, PodType
  <2> QED
    BY <2>1, <2>2
<1>2. PinnedAsAnnotated'
  BY <1>1, Zenon DEF PodInv, PinnedAsAnnotated
<1> QED
  BY <1>1, <1>2 DEF PodInv, GatesAllOrNothing, OneNode, Gated, HasKompaktGates, Onward

\* The release patch, when the API server accepts it.
LEMMA PatchInv ==
  ASSUME TypeOK, PodInv, ViewsInv, copy # Absent,
         NEW n \in Node \cup {NoNode}, Accepts(Patched(n)), pod' = Patched(n)
  PROVE  /\ PodInv' /\ Onward
         /\ copy.uid = pod.uid => pod'.gates \ Gate = pod.gates \ Gate
         /\ pod'.node # pod.node => pod.node = NoNode /\ pod.gates # {}
<1>0. pod \in PodType /\ copy \in PodType /\ Gated(copy) /\ Behind(copy)
  BY DEF TypeOK, ViewsInv, Gated
<1>1. /\ pod.phase = "live" /\ pod'.phase = "live" /\ pod'.uid = pod.uid
      /\ pod'.given = pod.given /\ pod'.asked = pod.asked
      /\ pod'.gates = copy.gates \ Gate /\ pod'.gates \subseteq pod.gates
  BY <1>0 DEF Accepts, Patched, PodType
<1>2. /\ pod'.affinity = IF n = NoNode THEN pod.affinity ELSE Pin(copy.affinity, n)
      /\ pod'.node = IF n = NoNode THEN pod.node ELSE n
      /\ pod'.crossed = (pod.crossed \/ copy.uid # pod.uid)
  BY <1>0 DEF Patched, PodType
<1>3. copy.uid = pod.uid => /\ pod.gates \subseteq copy.gates
                            /\ copy.affinity = pod.asked
  BY <1>0, <1>1 DEF Behind
<1>4. PinnedAsAnnotated'
  <2> SUFFICES ASSUME ~ pod'.crossed
               PROVE  pod'.affinity =
                        IF pod'.node = NoNode THEN pod'.asked
                        ELSE [t \in IF DOMAIN pod'.asked = {} THEN {NewTerm}
                                    ELSE DOMAIN pod'.asked |-> {pod'.node}]
    BY DEF PinnedAsAnnotated
  <2>1. ~ pod.crossed /\ copy.uid = pod.uid
    BY <1>2, Zenon
  <2>2. CASE n = NoNode
    <3>1. pod'.affinity = pod.affinity /\ pod'.node = pod.node
      BY <1>2, <2>2
    <3> QED
      BY <1>1, <2>1, <3>1, ZenonT(60) DEF PodInv, PinnedAsAnnotated
  <2>3. CASE n # NoNode
    <3>1. pod'.affinity = Pin(pod.asked, n) /\ pod'.node = n
      BY <1>2, <1>3, <2>1, <2>3
    <3>2. pod.asked \in Affinity /\ \A t \in DOMAIN pod.asked : pod.asked[t] = {}
      BY <1>0 DEF PodInv, PodType
    <3>3. Pin(pod.asked, n) =
            [t \in IF DOMAIN pod.asked = {} THEN {NewTerm} ELSE DOMAIN pod.asked |-> {n}]
      BY <3>2, PinFresh
    <3> QED
      BY <1>1, <2>3, <3>1, <3>3
  <2> QED
    BY <2>2, <2>3
<1>5. pod'.gates \cap Gate = {} /\ ~ Gated(pod')
  BY <1>1 DEF Gated, HasKompaktGates
<1>6. n # NoNode => /\ DOMAIN pod'.affinity # {}
                    /\ \A t \in DOMAIN pod'.affinity : pod'.affinity[t] = {n}
  <2>1. /\ copy.affinity = copy.asked /\ copy.asked \in Affinity
        /\ \A t \in DOMAIN copy.asked : copy.asked[t] = {}
    BY <1>0 DEF Behind, PodType
  <2>2. Pin(copy.asked, n) =
          [t \in IF DOMAIN copy.asked = {} THEN {NewTerm} ELSE DOMAIN copy.asked |-> {n}]
    BY <2>1, PinFresh
  <2> QED
    BY <1>2, <2>1, <2>2
<1>7. OneNode'
  BY <1>1, <1>2, <1>6 DEF PodInv, OneNode
<1>8. ASSUME pod'.node # pod.node
      PROVE  pod.node = NoNode /\ pod.gates # {}
  <2>1. n # NoNode /\ n # pod.node
    BY <1>2, <1>8
  <2>2. pod'.affinity # pod.affinity
    <3>1. CASE pod.node = NoNode
      BY <1>6, <2>1, <3>1 DEF PodInv, OneNode
    <3>2. CASE pod.node # NoNode
      BY <1>6, <2>1, <3>2 DEF PodInv, OneNode
    <3> QED
      BY <3>1, <3>2
  <2>3. pod.gates # {} /\ Narrows(pod'.affinity, pod.affinity)
    BY <2>2 DEF Accepts
  <2>4. pod.node = NoNode
    BY <1>6, <2>1, <2>3 DEF Narrows, PodInv, OneNode
  <2> QED
    BY <2>3, <2>4
<1>9. PodInv'
  BY <1>1, <1>4, <1>5, <1>7 DEF PodInv, GatesAllOrNothing, Gated, HasKompaktGates
<1> QED
  BY <1>1, <1>3, <1>8, <1>9 DEF Onward

\* Steps that leave the pod and its review alone.
LEMMA IdleInv ==
  ASSUME PodInv, UNCHANGED <<pod, review>>
  PROVE  PodInv'
<1>1. Reviewed' <=> Reviewed
  BY DEF Reviewed, Ungated
<1> QED
  BY <1>1 DEF PodInv, GatesAllOrNothing, PinnedAsAnnotated, OneNode

\* Every step keeps both parts.
LEMMA InvStep ==
  ASSUME TypeOK, PodInv, ViewsInv, Next
  PROVE  PodInv' /\ ViewsInv'
<1>1. ASSUME PodInv', Onward, cache' = cache, copy' \in {copy, Absent}
      PROVE  PodInv' /\ ViewsInv'
  BY <1>1, StayBehind
<1>2. ASSUME UNCHANGED <<pod, review>>, cache' \in {cache, Listed},
             copy' \in {copy, cache, Absent},
             copy' \in {copy, Absent} \/ HasKompaktGates(copy')
      PROVE  PodInv' /\ ViewsInv'
  BY <1>2, IdleInv, TakenBehind
<1>3. CASE Handle
  BY <1>1, <1>3, HandleInv DEF Handle
<1>4. CASE CallIgnored \/ OtherWebhook
  BY <1>1, <1>4, OthersInv DEF CallIgnored, OtherWebhook
<1>5. CASE Create \/ Submit
  BY <1>1, <1>5, CreateInv, SubmittedInv DEF Create, Submit
<1>6. CASE RemoveOtherGate \/ Relabel
  BY <1>1, <1>6, LiveInv DEF RemoveOtherGate, Relabel
<1>7. CASE Delete
  BY <1>1, <1>7, EndedInv DEF Delete, Onward
<1>8. CASE SetProfile \/ Expire \/ DeliverPod \/ QueuePod \/ Hold \/ Retry \/ Restart
  BY <1>2, <1>8 DEF SetProfile, Expire, DeliverPod, QueuePod, Hold, Retry, Restart, Requeue
<1>9. CASE Get
  BY <1>2, <1>9 DEF Get, Gated
<1>10. CASE Release
  <2>1. PICK n \in Node \cup {NoNode} : ReleaseGates(n)
    BY <1>10 DEF Release
  <2>2. CASE UNCHANGED pod
    BY <1>2, <2>1, <2>2 DEF ReleaseGates, Requeue
  <2>3. CASE Accepts(Patched(n)) /\ pod' = Patched(n)
    <3>1. PodInv' /\ Onward
      BY <1>10, <2>3, PatchInv DEF Release
    <3>2. cache' = cache /\ copy' = Absent
      BY <2>1 DEF ReleaseGates, Requeue
    <3> QED
      BY <1>1, <3>1, <3>2
  <2> QED
    BY <2>1, <2>2, <2>3 DEF ReleaseGates
<1> QED
  BY <1>3, <1>4, <1>5, <1>6, <1>7, <1>8, <1>9, <1>10 DEF Next, Cluster, Controller

\* The inductive invariant of Gates holds: the copies Reconcile works on are
\* behind the pod only in gates that came off.
THEOREM GatesInvariant == Spec => []GatesInv
<1>1. Init => PodInv /\ ViewsInv
  <2> SUFFICES ASSUME Init PROVE PodInv /\ ViewsInv
    OBVIOUS
  <2>1. PICK s \in Submission : pod = Submitted(1, s)
    BY DEF Init
  <2>2. /\ pod.phase = "admission" /\ pod.uid = 1 /\ pod.node = NoNode
        /\ pod.affinity = pod.asked /\ ~ pod.crossed
        /\ \A t \in DOMAIN pod.asked : pod.asked[t] = {}
    BY <2>1 DEF Submitted
  <2>3. Reviewed
    BY <2>2 DEF Reviewed, Init, NoReview
  <2> QED
    BY <2>2, <2>3
    DEF Init, PodInv, ViewsInv, GatesAllOrNothing, PinnedAsAnnotated, OneNode, Gated
<1>2. TypeOK /\ PodInv /\ ViewsInv /\ [Next]_vars => (PodInv /\ ViewsInv)'
  <2> SUFFICES ASSUME TypeOK, PodInv, ViewsInv, [Next]_vars PROVE (PodInv /\ ViewsInv)'
    OBVIOUS
  <2>1. CASE UNCHANGED vars
    <3>1. PodInv'
      BY <2>1, IdleInv DEF vars
    <3>2. ViewsInv'
      BY <2>1, TakenBehind DEF vars
    <3> QED
      BY <3>1, <3>2
  <2>2. CASE Next
    BY <2>2, InvStep
  <2> QED
    BY <2>1, <2>2
<1>3. TypeOK /\ PodInv /\ ViewsInv => GatesInv
  BY DEF GatesInv, PodInv, ViewsInv
<1> QED
  BY <1>1, <1>2, <1>3, GatesTypeCorrect, PTL DEF Spec

\* The gates of a pod come off together, whatever its profile's rules became.
THEOREM ReleasedTogether == Spec => []GatesAllOrNothing
<1>1. GatesInv => GatesAllOrNothing
  BY DEF GatesInv
<1> QED
  BY <1>1, GatesInvariant, PTL

\* The affinity a release writes pins every term the pod asked for to the node
\* of the annotation, and to that node only.
THEOREM PinFollowsAnnotation == Spec => []PinnedAsAnnotated
<1>1. GatesInv => PinnedAsAnnotated
  BY DEF GatesInv
<1> QED
  BY <1>1, GatesInvariant, PTL

\* A release neither removes nor brings back a gate of another system.
THEOREM ReleaseKeepsForeignGates == Spec => ForeignGatesKept
<1> DEFINE A == copy # Absent /\ copy' = Absent /\ pod'.gates \ Gate # pod.gates \ Gate
                  => copy.uid # pod.uid
<1>1. GatesInv /\ [Next]_vars => [A]_vars
  <2> SUFFICES ASSUME GatesInv, Next, copy # Absent, copy' = Absent, pod' # pod,
                      copy.uid = pod.uid
               PROVE  pod'.gates \ Gate = pod.gates \ Gate
    OBVIOUS
  <2>1. TypeOK /\ PodInv /\ ViewsInv
    BY DEF GatesInv, PodInv, ViewsInv
  <2>2. Release
    BY DEF Next, Cluster, Controller, Handle, CallIgnored, OtherWebhook, Create, Submit,
           SetProfile, RemoveOtherGate, Relabel, Delete, Expire, DeliverPod, QueuePod, Get, Hold,
           Retry, Restart
  <2>3. PICK n \in Node \cup {NoNode} : Accepts(Patched(n)) /\ pod' = Patched(n)
    BY <2>2 DEF Release, ReleaseGates
  <2> QED
    BY <2>1, <2>3, PatchInv
<1> QED
  BY <1>1, GatesInvariant, PTL DEF Spec, ForeignGatesKept

\* No labelled pod leaves admission without its profile's gates, whatever the
\* other webhooks did before the last call of ours that Kubernetes makes.
THEOREM WebhookMissesNone == Spec => NoneSlipThrough
<1> DEFINE A == pod.phase = "admission" /\ pod'.phase = "live"
                  /\ pod.labelled /\ ~ pod.excluded /\ ~ review.missed
                  /\ ~ (review.made = 2 /\ review.changed)
                  => review.seen # NoProfile /\ Injected(review.seen) \subseteq pod'.gates
<1>1. GatesInv /\ [Next]_vars => [A]_vars
  <2> SUFFICES ASSUME GatesInv, Next, pod.phase = "admission", pod'.phase = "live",
                      pod.labelled, ~ pod.excluded, ~ review.missed,
                      ~ (review.made = 2 /\ review.changed)
               PROVE  review.seen # NoProfile /\ Injected(review.seen) \subseteq pod'.gates
    OBVIOUS
  <2>1. pod \in PodType /\ review \in ReviewType /\ Reviewed
    BY DEF GatesInv, TypeOK, ReviewType
  <2>2. Create
    <3>1. ~ Handle
      <4>1. Handle => pod'.phase \in {"admission", "refused"}
        BY <2>1 DEF Handle, Allowed, Denied, PatchResponse, Ended, Absent, PodType
      <4> QED
        BY <4>1
    <3>2. ~ OtherWebhook
      BY <2>1 DEF OtherWebhook, PodType
    <3>3. ~ (Submit \/ RemoveOtherGate \/ Relabel \/ Delete \/ Release)
      BY DEF Submit, RemoveOtherGate, Relabel, Delete, Release, ReleaseGates, Accepts
    <3> QED
      BY <3>1, <3>2, <3>3
         DEF Next, Cluster, Controller, CallIgnored, SetProfile, Expire, DeliverPod, QueuePod, Get,
             Hold, Retry, Restart
  <2>3. review.made > 0 /\ ~ review.changed
    <3>1. review.made \in {1, 2}
      BY <2>1, <2>2 DEF Create, ReviewType
    <3>2. review.made = 1 => ~ review.changed
      BY <2>2, Zenon DEF Create, NeedsCall
    <3> QED
      BY <3>1, <3>2
  <2>4. review.seen # NoProfile /\ Injected(review.seen) \subseteq pod.gates
    BY <2>1, <2>3, Zenon DEF Reviewed, Ungated
  <2>5. pod'.gates = pod.gates
    <3>1. pod' = [pod EXCEPT !.phase = "live", !.given = pod.gates]
      BY <2>2 DEF Create, Ended, Absent
    <3> QED
      BY <2>1, <3>1 DEF PodType
  <2> QED
    BY <2>4, <2>5
<1> QED
  BY <1>1, GatesInvariant, PTL DEF Spec, NoneSlipThrough
=============================================================================
