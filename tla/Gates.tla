-------------------------------- MODULE Gates --------------------------------
(***************************************************************************)
(* The life of one pod's scheduling gates and node affinity: the webhook   *)
(* that puts kompakt's gates on (internal/webhook/mutating.go) among the   *)
(* other webhooks of the cluster, and the controller's release patch       *)
(* (releaseGatesWithAffinity), made from a copy of the pod that may be     *)
(* stale, among the other controllers that remove gates of their own.      *)
(*                                                                         *)
(* What the rules decide is left open here (modules Rules and Reconciler): *)
(* a reconcile holds the pod or releases it, to any node or to none, and   *)
(* does not hold it past its timeout.  A pod name may be used again, as a  *)
(* StatefulSet does, by a pod with another uid.                            *)
(***************************************************************************)
EXTENDS Naturals

CONSTANTS
  OtherGate,          \* gates of other systems
  Term, NewTerm,      \* node selector terms; the one the controller creates
  Node, NoNode,
  RuleList,           \* the rule lists the profile may have
  NoProfile,
  Submission,         \* pods as they are sent to the API server
  MaxLives,           \* bound: how often the pod's name is used
  MaxFaults           \* bound: failed calls and restarts

VARIABLES
  profile,            \* the profile's rules at the API server, or NoProfile
  pod, review,        \* the pod at the API server, and its admission review
  expired,            \* the gate timeout of the pod has passed
  cache, queued,      \* the informer's copy of the pod, the work queue
  copy,               \* the copy a reconcile works on
  faults

vars == <<profile, pod, review, expired, cache, queued, copy, faults>>

-----------------------------------------------------------------------------
(* Pods.                                                                   *)

GateNames ==
  [WaitForWorkloadPacking |-> "kompakt.io/wait-for-workload-packing",
   WaitForNodeReady       |-> "kompakt.io/wait-for-node-ready",
   WaitForImagePrePull    |-> "kompakt.io/awaiting-image-prepull",
   WaitForMIGProfile      |-> "kompakt.io/awaiting-mig-reconfig",
   WaitForCoLocation      |-> "kompakt.io/awaiting-colocation"]

\* The gates with kompakt's prefix.
Gate == {GateNames[rule] : rule \in DOMAIN GateNames}

ASSUME GatesAssumption == OtherGate \cap Gate = {}
ASSUME TermsAssumption == NewTerm \notin Term
ASSUME NodesAssumption == NoNode \notin Node
ASSUME SubmissionAssumption ==
  Submission \subseteq [labelled : BOOLEAN, excluded : BOOLEAN,
                        gates : SUBSET OtherGate, terms : SUBSET Term]
ASSUME GatesBoundsAssumption == MaxLives \in Nat /\ MaxFaults \in Nat
ASSUME ProfileAssumption == NoProfile \notin RuleList

(***************************************************************************)
(* A pod: its gates, and for each term of its node affinity the hostnames  *)
(* that kompakt added to it.  "node" is the annotation with the target.    *)
(* History: the gates and affinity it was created with (given, asked) and  *)
(* whether a patch made for an earlier uid reached it (crossed).           *)
(***************************************************************************)
Submitted(uid, s) ==
  [uid |-> uid, phase |-> "admission", labelled |-> s.labelled, excluded |-> s.excluded,
   gates |-> s.gates, affinity |-> [t \in s.terms |-> {}], node |-> NoNode,
   given |-> {}, asked |-> [t \in s.terms |-> {}], crossed |-> FALSE]

Absent ==
  [uid |-> 0, phase |-> "gone", labelled |-> FALSE, excluded |-> FALSE,
   gates |-> {}, affinity |-> [t \in {} |-> {}], node |-> NoNode,
   given |-> {}, asked |-> [t \in {} |-> {}], crossed |-> FALSE]

\* Only the uid of a pod that is gone is remembered.
Ended(phase) == [Absent EXCEPT !.uid = pod.uid, !.phase = phase]

HasKompaktGates(p) == p.gates \cap Gate # {}

Gated(p) == p.phase = "live" /\ HasKompaktGates(p)

Fault == faults < MaxFaults /\ faults' = faults + 1

-----------------------------------------------------------------------------
(* Admission.                                                              *)

(***************************************************************************)
(* "made": calls of our webhook; "changed": another webhook changed the    *)
(* pod since; "doubled": some gate is listed twice.  History: a call that  *)
(* failed (missed) and the rules of the last profile found (seen).         *)
(***************************************************************************)
NoReview ==
  [made |-> 0, changed |-> FALSE, doubled |-> FALSE,
   missed |-> FALSE, seen |-> NoProfile]

Injected(rules) == {GateNames[rules[i]] : i \in {j \in DOMAIN rules : rules[j] \in DOMAIN GateNames}}

Repeats(rules) ==
  \E i, j \in DOMAIN rules : i # j /\ rules[i] = rules[j] /\ rules[i] \in DOMAIN GateNames

\* Mutation: the webhook is never called again.
CalledOnce == review.made = 0

\* reinvocationPolicy IfNeeded: once more when another webhook changed the pod.
NeedsCall == review.made = 0 \/ (review.made = 1 /\ review.changed)

Called == [review EXCEPT !.made = @ + 1, !.changed = FALSE]

Ungated == pod.excluded \/ ~ pod.labelled

Allowed ==
  /\ Ungated
  /\ review' = Called
  /\ UNCHANGED <<pod, faults>>

\* Whatever error the lookup returns, the pod is denied.
Denied ==
  /\ ~ Ungated
  /\ (profile = NoProfile /\ UNCHANGED faults) \/ Fault
  /\ pod' = Ended("refused")
  /\ review' = Called

\* The gates of the known rules are appended; none may be known.
PatchResponse ==
  /\ ~ Ungated /\ profile # NoProfile
  /\ pod' = [pod EXCEPT !.gates = @ \cup Injected(profile)]
  /\ review' = [Called EXCEPT
                  !.seen = profile,
                  !.doubled = @ \/ Repeats(profile) \/ pod.gates \cap Injected(profile) # {}]
  /\ UNCHANGED faults

Handle ==
  /\ pod.phase = "admission" /\ NeedsCall
  /\ Allowed \/ Denied \/ PatchResponse
  /\ UNCHANGED <<profile, expired, cache, queued, copy>>

\* failurePolicy Ignore: a call that fails lets the pod through as it is.
CallIgnored ==
  /\ pod.phase = "admission" /\ NeedsCall
  /\ Fault
  /\ review' = [Called EXCEPT !.missed = TRUE]
  /\ UNCHANGED <<profile, pod, expired, cache, queued, copy>>

\* Another webhook adds a gate of its own, or sets or removes our label.  One that
\* is called again itself may do so after the last call of ours.
OtherWebhook ==
  /\ pod.phase = "admission"
  /\ \/ \E g \in OtherGate \ pod.gates : pod' = [pod EXCEPT !.gates = @ \cup {g}]
     \/ pod' = [pod EXCEPT !.labelled = ~ @]
  /\ review' = [review EXCEPT !.changed = review.made > 0]
  /\ UNCHANGED <<profile, expired, cache, queued, copy, faults>>

\* Validation refuses a pod that lists a gate twice.
Create ==
  /\ pod.phase = "admission" /\ review.made > 0 /\ ~ NeedsCall
  /\ pod' = IF review.doubled THEN Ended("refused")
            ELSE [pod EXCEPT !.phase = "live", !.given = pod.gates]
  /\ review' = NoReview
  /\ UNCHANGED <<profile, expired, cache, queued, copy, faults>>

\* The name is used again.
Submit ==
  /\ pod.phase \in {"gone", "refused"} /\ pod.uid < MaxLives
  /\ \E s \in Submission : pod' = Submitted(pod.uid + 1, s)
  /\ review' = NoReview /\ expired' = FALSE
  /\ UNCHANGED <<profile, cache, queued, copy, faults>>

-----------------------------------------------------------------------------
(* The rest of the cluster.                                                *)

SetProfile ==
  /\ \E p \in (RuleList \cup {NoProfile}) \ {profile} : profile' = p
  /\ UNCHANGED <<pod, review, expired, cache, queued, copy, faults>>

\* Another controller removes a gate of its own.
RemoveOtherGate ==
  /\ pod.phase = "live"
  /\ \E g \in pod.gates \cap OtherGate : pod' = [pod EXCEPT !.gates = @ \ {g}]
  /\ UNCHANGED <<profile, review, expired, cache, queued, copy, faults>>

Relabel ==
  /\ pod.phase = "live"
  /\ pod' = [pod EXCEPT !.labelled = ~ @]
  /\ UNCHANGED <<profile, review, expired, cache, queued, copy, faults>>

Delete ==
  /\ pod.phase = "live"
  /\ pod' = Ended("gone")
  /\ UNCHANGED <<profile, review, expired, cache, queued, copy, faults>>

Expire ==
  /\ pod.phase = "live" /\ ~ expired
  /\ expired' = TRUE
  /\ UNCHANGED <<profile, pod, review, cache, queued, copy, faults>>

-----------------------------------------------------------------------------
(* The controller.                                                         *)

\* The pod as a list or a watch shows it.
Listed == IF pod.phase = "live" THEN pod ELSE Absent

\* Mutation: only the creation of a pod passes the event filter.
DeliverPodOnce ==
  /\ cache # Listed
  /\ cache' = Listed
  /\ queued' = (queued \/ (cache = Absent /\ HasKompaktGates(Listed)))
  /\ UNCHANGED <<profile, pod, review, expired, copy, faults>>

\* An event passes the filter when the pod it shows, or last showed, has gates.
DeliverPod ==
  /\ cache # Listed
  /\ cache' = Listed
  /\ queued' = (queued \/ HasKompaktGates(IF Listed = Absent THEN cache ELSE Listed))
  /\ UNCHANGED <<profile, pod, review, expired, copy, faults>>

\* Any other event of a pod cached with its gates: a resync, an update of no
\* interest here, or a version that DeliverPod passed over.
QueuePod ==
  /\ copy = Absent /\ ~ queued /\ Gated(cache)
  /\ queued' = TRUE
  /\ UNCHANGED <<profile, pod, review, expired, cache, copy, faults>>

\* Mutation: the gates are not looked at.
GetAnyPod ==
  /\ copy = Absent /\ queued
  /\ queued' = FALSE
  /\ copy' = IF cache.labelled THEN cache ELSE Absent
  /\ UNCHANGED <<profile, pod, review, expired, cache, faults>>

\* Reconcile reads the pod; a pod that is gone, has no gates or no label is dropped.
Get ==
  /\ copy = Absent /\ queued
  /\ queued' = FALSE
  /\ copy' = IF Gated(cache) /\ cache.labelled THEN cache ELSE Absent
  /\ UNCHANGED <<profile, pod, review, expired, cache, faults>>

\* The rest of Reconcile ends with the pod requeued.
Requeue ==
  /\ copy' = Absent /\ queued' = TRUE
  /\ UNCHANGED <<profile, review, expired, cache>>

TimedOut == expired /\ copy.uid = pod.uid

Hold ==
  /\ copy # Absent /\ ~ TimedOut
  /\ Requeue
  /\ UNCHANGED <<pod, faults>>

\* A read or a list fails.
Retry == copy # Absent /\ Fault /\ Requeue /\ UNCHANGED pod

\* Mutation: the hostname is added to one of the terms only.
PinOneTerm(affinity, n) ==
  IF DOMAIN affinity = {} THEN [t \in {NewTerm} |-> {n}]
  ELSE [affinity EXCEPT ![CHOOSE t \in DOMAIN affinity : TRUE] = @ \cup {n}]

\* The hostname is added to every term, or is the only one.
Pin(affinity, n) ==
  IF DOMAIN affinity = {} THEN [t \in {NewTerm} |-> {n}]
  ELSE [t \in DOMAIN affinity |-> affinity[t] \cup {n}]

Narrows(affinity, old) ==
  \/ DOMAIN old = {}
  \/ DOMAIN affinity = DOMAIN old /\ \A t \in DOMAIN old : old[t] \subseteq affinity[t]

\* Mutations: every gate is removed, only the gates of the profile's rules are,
\* the affinity is set without a node too, or the annotation is cleared without.
PatchedUngated(n) ==
  [pod EXCEPT !.gates = {}]

PatchedByRules(n) ==
  [pod EXCEPT !.gates = copy.gates \ Injected(IF profile = NoProfile THEN << >> ELSE profile)]

PatchedAlwaysPinned(n) ==
  [pod EXCEPT !.gates = copy.gates \ Gate, !.affinity = Pin(copy.affinity, n), !.node = n]

PatchedUnannotated(n) ==
  [pod EXCEPT !.gates = copy.gates \ Gate,
              !.affinity = IF n = NoNode THEN @ ELSE Pin(copy.affinity, n), !.node = n]

\* The merge patch replaces the lists by those made from the copy.
Patched(n) ==
  [pod EXCEPT !.gates = copy.gates \ Gate,
              !.affinity = IF n = NoNode THEN @ ELSE Pin(copy.affinity, n),
              !.node = IF n = NoNode THEN @ ELSE n,
              !.crossed = @ \/ copy.uid # pod.uid]

\* The API server: gates are only removed, and affinity is only narrowed and
\* only while there are gates.
Accepts(new) ==
  /\ pod.phase = "live"
  /\ new.gates \subseteq pod.gates
  /\ new.affinity # pod.affinity => pod.gates # {} /\ Narrows(new.affinity, pod.affinity)

\* A patch that is refused, that fails, or whose reply is lost is tried again.
ReleaseGates(n) ==
  \/ /\ Accepts(Patched(n))
     /\ pod' = Patched(n)
     /\ \/ /\ copy' = Absent
           /\ UNCHANGED <<profile, review, expired, cache, queued, faults>>
        \/ Fault /\ Requeue
  \/ /\ (~ Accepts(Patched(n)) /\ UNCHANGED faults) \/ Fault
     /\ UNCHANGED pod
     /\ Requeue

\* No profile, priority and timeout release without a node, capacity to any or none.
Release ==
  /\ copy # Absent
  /\ \E n \in Node \cup {NoNode} :
        /\ n # NoNode => ~ TimedOut
        /\ ReleaseGates(n)

\* A restart lists the pods anew.
Restart ==
  /\ Fault
  /\ copy' = Absent /\ cache' = Listed /\ queued' = HasKompaktGates(Listed)
  /\ UNCHANGED <<profile, pod, review, expired>>

-----------------------------------------------------------------------------
Init ==
  /\ profile \in RuleList \cup {NoProfile}
  /\ \E s \in Submission : pod = Submitted(1, s)
  /\ review = NoReview /\ expired = FALSE
  /\ cache = Absent /\ queued = FALSE /\ copy = Absent
  /\ faults = 0

Cluster ==
  \/ CallIgnored \/ OtherWebhook \/ Create \/ Submit
  \/ SetProfile \/ RemoveOtherGate \/ Relabel \/ Delete \/ Expire

Controller ==
  \/ Handle \/ DeliverPod \/ QueuePod \/ Get \/ Hold \/ Retry \/ Release \/ Restart

Next == Cluster \/ Controller

Spec == Init /\ [][Next]_vars

-----------------------------------------------------------------------------
(* Properties.                                                             *)

AnyGate == Gate \cup OtherGate

Affinity == UNION {[T -> SUBSET Node] : T \in SUBSET (Term \cup {NewTerm})}

PodType ==
  [uid : Nat, phase : {"admission", "live", "gone", "refused"},
   labelled : BOOLEAN, excluded : BOOLEAN,
   gates : SUBSET AnyGate, affinity : Affinity, node : Node \cup {NoNode},
   given : SUBSET AnyGate, asked : Affinity, crossed : BOOLEAN]

(***************************************************************************)
(* The types; the cache and the worker only ever hold pods that were       *)
(* created, and never one newer than the API server's.                     *)
(***************************************************************************)
TypeOK ==
  /\ profile \in RuleList \cup {NoProfile}
  /\ pod \in PodType
  /\ review \in [made : 0 .. 2, changed : BOOLEAN, doubled : BOOLEAN, missed : BOOLEAN,
                 seen : RuleList \cup {NoProfile}]
  /\ {expired, queued} \subseteq BOOLEAN
  /\ faults \in 0 .. MaxFaults
  /\ \A p \in {cache, copy} :
        p # Absent => p \in PodType /\ p.phase = "live" /\ p.uid <= pod.uid

(***************************************************************************)
(* The gates Handle put on a pod come off together: a pod that was created *)
(* has all of kompakt's gates it was given or none, whatever the profile's *)
(* rules became since and however often the release was tried.             *)
(***************************************************************************)
GatesAllOrNothing ==
  pod.phase = "live" => pod.gates \cap Gate \in {pod.given \cap Gate, {}}

(***************************************************************************)
(* The target annotation and the affinity agree: every term the pod asked  *)
(* for is still there, pinned to the annotated node and to no other, also  *)
(* after a release whose reply was lost was tried again with another node. *)
(* A pod that a patch made for an earlier pod of its name reached is the   *)
(* exception: the patch names no uid.                                      *)
(***************************************************************************)
PinnedAsAnnotated ==
  pod.phase = "live" /\ ~ pod.crossed =>
    pod.affinity =
      IF pod.node = NoNode THEN pod.asked
      ELSE [t \in IF DOMAIN pod.asked = {} THEN {NewTerm} ELSE DOMAIN pod.asked |-> {pod.node}]

(***************************************************************************)
(* No pod slips past the webhook: one that leaves admission with the label *)
(* and without the exclude label has every gate of the profile that was    *)
(* found for it, in whatever order the other webhooks ran, unless a call   *)
(* of the webhook failed or another changed the pod after the second call, *)
(* the last that Kubernetes makes.                                         *)
(***************************************************************************)
NoneSlipThrough ==
  [][pod.phase = "admission" /\ pod'.phase = "live"
       /\ pod.labelled /\ ~ pod.excluded /\ ~ review.missed
       /\ ~ (review.made = 2 /\ review.changed)
        => review.seen # NoProfile /\ Injected(review.seen) \subseteq pod'.gates]_vars

(***************************************************************************)
(* The release leaves the gates of other systems alone: they were read     *)
(* from a copy that may be stale and are written back, so a gate that its  *)
(* owner removed meanwhile would come back, and one the copy does not show *)
(* would go.  Only a patch made for an earlier pod of the same name can do *)
(* that.                                                                   *)
(***************************************************************************)
ForeignGatesKept ==
  [][copy # Absent /\ copy' = Absent /\ pod'.gates \ Gate # pod.gates \ Gate
        => copy.uid # pod.uid]_vars

\* A cached pod shows every gate its pod still has, and if kompakt's are among
\* them then the affinity is still the one asked for.
Behind(p) ==
  /\ p.uid > 0 /\ \A t \in DOMAIN p.asked : p.asked[t] = {}
  /\ p.uid = pod.uid =>
        \/ pod.phase = "gone"
        \/ /\ pod.phase = "live" /\ pod.gates \subseteq p.gates
           /\ p.given = pod.given /\ p.asked = pod.asked
  /\ p.gates \subseteq p.given
  /\ Gated(p) => p.gates \cap Gate = p.given \cap Gate /\ p.affinity = p.asked

\* Whichever pod a patch was made for, the node of the annotation is the only one
\* that the affinity names.
OneNode ==
  IF pod.node = NoNode THEN pod.affinity = pod.asked
  ELSE /\ DOMAIN pod.affinity # {}
       /\ \A t \in DOMAIN pod.affinity : pod.affinity[t] = {pod.node}

\* Nothing has been done to a pod in admission but by webhooks, and once ours was
\* called and no other changed the pod since, its answer stands.
Reviewed ==
  /\ pod.node = NoNode /\ pod.affinity = pod.asked /\ ~ pod.crossed
  /\ review.made > 0 /\ ~ review.changed /\ ~ review.missed /\ ~ Ungated
       => review.seen # NoProfile /\ Injected(review.seen) \subseteq pod.gates

(***************************************************************************)
(* What a release from a stale copy relies on: the copies the controller   *)
(* holds are behind the pod in the one way its gates can change.           *)
(***************************************************************************)
GatesInv ==
  /\ TypeOK
  /\ pod.phase = "admission" => Reviewed
  /\ pod.phase = "live" => pod.gates \subseteq pod.given
  /\ GatesAllOrNothing /\ PinnedAsAnnotated /\ OneNode
  /\ pod.uid > 0 /\ \A t \in DOMAIN pod.asked : pod.asked[t] = {}
  /\ Gated(pod) => pod.affinity = pod.asked
  /\ \A p \in {cache, copy} : p # Absent => Behind(p)
  /\ copy # Absent => HasKompaktGates(copy)

Stage ==
  CASE pod.phase = "admission" -> "coming"
    [] pod.phase = "live" -> IF HasKompaktGates(pod) THEN "held" ELSE "free"
    [] OTHER -> "away"

L == INSTANCE GateLife
       WITH life <- pod.uid, stage <- Stage, foreign <- pod.gates \ Gate, pin <- pod.node

(***************************************************************************)
(* Webhook, event filter and release patch implement GateLife: however     *)
(* stale the copy a patch is made from, and however often it is retried    *)
(* with another node, the pod is let go once, its pin never moves, and it  *)
(* gets none after its last gate has gone.                                 *)
(***************************************************************************)
ImplementsGateLife == L!Spec

-----------------------------------------------------------------------------
(***************************************************************************)
(* Time passes, watches deliver and the worker runs.  Nothing is assumed   *)
(* of users, other controllers and other webhooks.                         *)
(***************************************************************************)
Fairness ==
  /\ WF_vars(Expire) /\ WF_vars(DeliverPod)
  /\ WF_vars(Get) /\ WF_vars(Hold \/ Retry \/ Release)

FairSpec == Spec /\ Fairness

(***************************************************************************)
(* A labelled pod does not stay gated: its gates come off, also when the   *)
(* label was missing for a while and Reconcile had dropped the pod, when a *)
(* patch was refused because another system's gate had gone meanwhile, and *)
(* when the profile is deleted and created again.                          *)
(***************************************************************************)
GatedPodReleased ==
  Gated(pod) /\ pod.labelled ~> ~ (Gated(pod) /\ pod.labelled)
=============================================================================
