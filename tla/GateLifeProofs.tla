--------------------------- MODULE GateLifeProofs ----------------------------
(***************************************************************************)
(* Gates implements GateLife, for all rule lists, submissions, nodes and   *)
(* gates of other systems, any number of lives and of faults.              *)
(***************************************************************************)
EXTENDS GatesProofs

\* A step that GateLife does not see.
LEMMA HiddenStep ==
  ASSUME pod'.uid = pod.uid, pod'.phase = pod.phase, pod'.node = pod.node,
         pod'.gates \ Gate = pod.gates \ Gate,
         pod.phase = "admission" \/ pod'.gates \cap Gate = pod.gates \cap Gate
  PROVE  UNCHANGED L!vars
<1>1. Stage' = Stage
  BY DEF Stage, HasKompaktGates
<1> QED
  BY <1>1 DEF L!vars

\* A pod that is refused or deleted.
LEMMA LeaveStep ==
  ASSUME NEW phase \in {"gone", "refused"}, pod.phase \in {"admission", "live"},
         pod' = Ended(phase)
  PROVE  L!Next
<1>1. /\ pod'.uid = pod.uid /\ pod'.phase = phase /\ pod'.gates = {} /\ pod'.node = NoNode
  BY DEF Ended, Absent
<1>2. Stage # "away" /\ Stage' = "away"
  BY <1>1 DEF Stage
<1>3. L!Leave
  BY <1>1, <1>2 DEF L!Leave
<1> QED
  BY <1>3 DEF L!Next

\* Admission: the gates of other systems may grow, and the pod comes in or not.
LEMMA AdmissionStep ==
  ASSUME TypeOK, Handle \/ CallIgnored \/ OtherWebhook \/ Create \/ Submit
  PROVE  L!Next \/ UNCHANGED L!vars
<1> pod \in PodType
  BY DEF TypeOK
<1>1. CASE CallIgnored
  BY <1>1, HiddenStep DEF CallIgnored
<1>2. CASE Handle
  <2>1. CASE Allowed
    BY <2>1, HiddenStep DEF Allowed
  <2>2. CASE Denied
    BY <1>2, <2>2, LeaveStep DEF Handle, Denied
  <2>3. CASE PatchResponse
    <3>1. /\ pod'.uid = pod.uid /\ pod'.phase = pod.phase /\ pod'.node = pod.node
          /\ pod'.gates = pod.gates \cup Injected(profile)
      BY <2>3 DEF PatchResponse, PodType
    <3>2. pod'.gates \ Gate = pod.gates \ Gate
      BY <3>1, InjectedType
    <3> QED
      BY <1>2, <3>1, <3>2, HiddenStep DEF Handle
  <2> QED
    BY <1>2, <2>1, <2>2, <2>3 DEF Handle
<1>3. CASE OtherWebhook
  <2>1. ASSUME NEW g \in OtherGate, pod' = [pod EXCEPT !.gates = @ \cup {g}] PROVE L!Next
    <3>1. /\ pod'.uid = pod.uid /\ pod'.phase = "admission" /\ pod.phase = "admission"
          /\ pod'.node = pod.node /\ pod'.gates = pod.gates \cup {g}
      BY <1>3, <2>1 DEF OtherWebhook, PodType
    <3>2. pod'.gates \ Gate = (pod.gates \ Gate) \cup {g}
      BY <3>1, GatesAssumption
    <3>3. Stage = "coming" /\ Stage' = "coming"
      BY <3>1 DEF Stage
    <3>4. L!AddForeign
      BY <3>1, <3>2, <3>3 DEF L!AddForeign
    <3> QED
      BY <3>4 DEF L!Next
  <2>2. ASSUME pod' = [pod EXCEPT !.labelled = ~ @] PROVE UNCHANGED L!vars
    BY <2>2, HiddenStep DEF PodType
  <2> QED
    BY <1>3, <2>1, <2>2 DEF OtherWebhook
<1>4. CASE Create
  <2>1. CASE review.doubled
    BY <1>4, <2>1, LeaveStep DEF Create
  <2>2. CASE ~ review.doubled
    <3>1. pod' = [pod EXCEPT !.phase = "live", !.given = pod.gates]
      BY <1>4, <2>2 DEF Create
    <3>2. /\ pod'.uid = pod.uid /\ pod'.phase = "live" /\ pod.phase = "admission"
          /\ pod'.node = pod.node /\ pod'.gates = pod.gates
      BY <1>4, <3>1 DEF Create, PodType
    <3>3. Stage = "coming" /\ Stage' \in {"held", "free"}
      BY <3>2 DEF Stage
    <3>4. L!Admit
      BY <3>2, <3>3 DEF L!Admit
    <3> QED
      BY <3>4 DEF L!Next
  <2> QED
    BY <2>1, <2>2
<1>5. CASE Submit
  <2>1. PICK s \in Submission : pod' = Submitted(pod.uid + 1, s)
    BY <1>5 DEF Submit
  <2>2. /\ pod'.uid = pod.uid + 1 /\ pod'.phase = "admission" /\ pod'.node = NoNode
        /\ pod'.gates = s.gates /\ s.gates \subseteq OtherGate
    BY <2>1, SubmissionAssumption DEF Submitted
  <2>3. Stage = "away" /\ Stage' = "coming"
    BY <1>5, <2>2 DEF Submit, Stage
  <2>4. L!Arrive
    BY <2>2, <2>3 DEF L!Arrive
  <2> QED
    BY <2>4 DEF L!Next
<1> QED
  BY <1>1, <1>2, <1>3, <1>4, <1>5

\* A live pod in the hands of other controllers and users.
LEMMA LiveStep ==
  ASSUME TypeOK, RemoveOtherGate \/ Relabel \/ Delete
  PROVE  L!Next \/ UNCHANGED L!vars
<1> pod \in PodType
  BY DEF TypeOK
<1>1. CASE RemoveOtherGate
  <2>1. PICK g \in pod.gates \cap OtherGate : pod' = [pod EXCEPT !.gates = @ \ {g}]
    BY <1>1 DEF RemoveOtherGate
  <2>2. /\ pod'.uid = pod.uid /\ pod'.phase = "live" /\ pod.phase = "live"
        /\ pod'.node = pod.node /\ pod'.gates = pod.gates \ {g}
    BY <1>1, <2>1 DEF RemoveOtherGate, PodType
  <2>3. /\ g \in pod.gates \ Gate
        /\ pod'.gates \ Gate = (pod.gates \ Gate) \ {g}
        /\ pod'.gates \cap Gate = pod.gates \cap Gate
    BY <2>2, GatesAssumption
  <2>4. Stage \in {"held", "free"} /\ Stage' = Stage
    BY <2>2, <2>3 DEF Stage, HasKompaktGates
  <2>5. L!RemoveForeign
    BY <2>2, <2>3, <2>4 DEF L!RemoveForeign
  <2> QED
    BY <2>5 DEF L!Next
<1>2. CASE Relabel
  BY <1>2, HiddenStep DEF Relabel, PodType
<1>3. CASE Delete
  BY <1>3, LeaveStep DEF Delete
<1> QED
  BY <1>1, <1>2, <1>3

\* The release patch: made from any copy, it lets the pod go in the one way
\* GateLife allows.
LEMMA LetGoStep ==
  ASSUME TypeOK, PodInv, ViewsInv, copy # Absent,
         NEW n \in Node \cup {NoNode}, Accepts(Patched(n)), pod' = Patched(n)
  PROVE  L!Next
<1>1. pod \in PodType /\ copy \in PodType /\ Behind(copy) /\ copy.uid <= pod.uid
  BY DEF TypeOK, ViewsInv
<1>2. /\ pod.phase = "live" /\ pod'.phase = "live" /\ pod'.uid = pod.uid
      /\ pod'.gates = copy.gates \ Gate /\ pod'.gates \subseteq pod.gates
      /\ pod'.node = IF n = NoNode THEN pod.node ELSE n
  BY <1>1 DEF Accepts, Patched, PodType
<1>3. /\ copy.uid = pod.uid => pod'.gates \ Gate = pod.gates \ Gate
      /\ pod'.node # pod.node => pod.node = NoNode /\ pod.gates # {}
  BY PatchInv
<1>4. /\ Stage \in {"held", "free"} /\ Stage' = "free"
      /\ pod.gates # {} => Stage = "held" \/ pod.gates \ Gate # {}
  BY <1>2 DEF Stage, HasKompaktGates
<1>5. pod'.gates \ Gate = pod.gates \ Gate
        \/ (pod.uid > 1 /\ pod'.gates \ Gate \in SUBSET (pod.gates \ Gate))
  <2>1. copy.uid # pod.uid => pod.uid > 1
    BY <1>1 DEF Behind, PodType
  <2> QED
    BY <1>2, <1>3, <2>1
<1>6. \/ n \in {NoNode, pod.node}
      \/ pod.node = NoNode /\ (Stage = "held" \/ pod.gates \ Gate # {})
  BY <1>2, <1>3, <1>4
<1>7. L!LetGo(n)
  BY <1>2, <1>4, <1>5, <1>6 DEF L!LetGo
<1> QED
  BY <1>7 DEF L!Next

(***************************************************************************)
(* Gates implements GateLife: Handle, the event filter and                 *)
(* releaseGatesWithAffinity let every pod go once, never move its pin and  *)
(* never pin it after its last gate, although the patch is made from a     *)
(* copy of unknown age, carries no resource version and is retried.        *)
(***************************************************************************)
THEOREM GatesImplementsGateLife == Spec => ImplementsGateLife
<1>1. Init => L!Init
  <2> SUFFICES ASSUME Init PROVE L!Init
    OBVIOUS
  <2>1. PICK s \in Submission : pod = Submitted(1, s)
    BY DEF Init
  <2>2. /\ pod.uid = 1 /\ pod.phase = "admission" /\ pod.node = NoNode
        /\ pod.gates \subseteq OtherGate
    BY <2>1, SubmissionAssumption DEF Submitted
  <2>3. Stage = "coming"
    BY <2>2 DEF Stage
  <2> QED
    BY <2>2, <2>3 DEF L!Init
<1>2. GatesInv /\ [Next]_vars => [L!Next]_(L!vars)
  <2> SUFFICES ASSUME GatesInv, [Next]_vars PROVE L!Next \/ UNCHANGED L!vars
    OBVIOUS
  <2>1. TypeOK /\ PodInv /\ ViewsInv
    BY DEF GatesInv, PodInv, ViewsInv
  <2>2. CASE UNCHANGED pod
    BY <2>2, HiddenStep
  <2>3. CASE Handle \/ CallIgnored \/ OtherWebhook \/ Create \/ Submit
    BY <2>1, <2>3, AdmissionStep
  <2>4. CASE RemoveOtherGate \/ Relabel \/ Delete
    BY <2>1, <2>4, LiveStep
  <2>5. CASE Release
    <3>1. PICK n \in Node \cup {NoNode} : ReleaseGates(n)
      BY <2>5 DEF Release
    <3>2. CASE Accepts(Patched(n)) /\ pod' = Patched(n)
      BY <2>1, <2>5, <3>2, LetGoStep DEF Release
    <3> QED
      BY <2>2, <3>1, <3>2 DEF ReleaseGates
  <2>6. CASE SetProfile \/ Expire \/ DeliverPod \/ QueuePod \/ Get \/ Hold \/ Retry \/ Restart
    BY <2>2, <2>6 DEF SetProfile, Expire, DeliverPod, QueuePod, Get, Hold, Retry, Restart
  <2> QED
    BY <2>2, <2>3, <2>4, <2>5, <2>6 DEF Next, Cluster, Controller, vars
<1> QED
  BY <1>1, <1>2, GatesInvariant, PTL DEF Spec, ImplementsGateLife, L!Spec
=============================================================================
