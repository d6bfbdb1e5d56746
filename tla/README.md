# Kompakt: a TLA+ model of gates, bookings and certificates

Kompakt gates pods at admission and releases them one by one when its ledger
says a node has, or will have, room. This directory models that loop, the gates
themselves and the certificates the webhook needs, checks the models with TLC on
small instances and proves the safety properties that hold with TLAPS.

## The system and its parts

| Part | Source | Modules | State |
|---|---|---|---|
| Node ledger | `internal/ledger` | `Ledger`, `FitSearch` | all that is called outside tests, as operators |
| Rule plugins, demand | `internal/rules` | `Rules` | modelled, as operators |
| Tolerations | `internal/scheduling` | `Ledger` | modelled |
| Reconciler | `internal/controller` | `Reconciler`, `Gates` | modelled, the status in part |
| In-flight detectors | `internal/inflight` | `Reconciler` | all three and their chain; not the parsing |
| Webhook, profile resolver | `internal/webhook`, `internal/matcher` | `Gates`; its outcomes in `Cluster` | modelled |
| Certificate provisioner | `internal/certgen` | `Certs` | modelled |
| Manager | `cmd/manager` | `Reconciler`, `Gates`, `Certs` | start-up of the certificates, restart, leader change |
| API server, scheduler, autoscalers, kubelets, other webhooks and controllers, users | external | `Cluster`, `Gates`, `Certs` | as the code relies on them |
| Metrics, API types, generated code | `internal/metrics`, `api` | none | read by no decision, or constants of `Cluster` |

The webhook puts gates on a pod that names a profile; the API server calls it
only if it trusts the certificate it presents. The informer cache later delivers
the pod to the reconciler, whose only worker rebuilds the ledger, evaluates the
profile's rules and patches the gates away, naming the node it reserved. The
scheduler then binds the pod, and its usage appears in the cache. Between a
release and that moment only the reservation says that the capacity is taken.

The three questions are modelled apart, each with the data it needs:

* who gets which capacity (`Reconciler` with `Ledger`, `Rules`, `Cluster`): many
  pods, a gate is one bit;
* what happens to one pod's gates and affinity (`Gates`): one pod name, gates by
  name with those of other systems, what the rules decide is left open;
* whether the webhook can be called (`Certs`): replicas, no pods.

## Modules

`Rules` extends `Ledger`, `Cluster` extends `Rules`, `Reconciler` extends
`Cluster` and composes the two sides: `Next` is a step of the cluster with the
controller unchanged, or a step of the controller or its caches.

* `Ledger`: an entry has allocatable, used, reserved, labels and taints. The map
  iteration order of Go is a choice among the equally tight entries. Sums are
  `Tally`, the cardinality of a set of units, because the library's theorems
  about finite sets apply to it; `TallyIsSum` in `MCReconciler` compares it with
  a fold on every run. Slack is a sum over naturals; the 64-bit overflow of the
  code is out of the model.
* `FitSearch`: the loops of `FindFit` and `FindFitExisting` as they run, entry by
  entry. `SearchesAreFindFit` in `MCReconciler` evaluates every order on small
  ledgers; `SearchFindsFit` proves the loop for every order.
* `Rules`: a rule is a set of outcomes. The branches for a failed `Reserve` are
  left out since `FindFitReservable` shows they are unreachable with one worker.
* `Cluster`: pods go absent, gated, released, bound, gone; nodes absent, starting,
  ready, notready. `pending` is what the cluster autoscaler's status says each
  group is short of, `events` the recent provision tasks of GOATScaler. `Faults`
  selects the interventions of an instance.
* `Reconciler`: `SyncLedger` is `syncLedger` with the priority and timeout checks
  that follow it, `EvaluateRule` one turn of the rule loop, `Release` the patch
  and the deferred status update. `SyncLedgerFails` is a failed list, and
  `ReconcileUngated`, `ReconcileProfileNotFound`, `SkipUnknownRule` are the early
  exits. The rest of the cluster may act between any two of these. `syncLedger`
  itself is one step: its lists come from caches and only the worker touches the
  ledger. Pods, nodes and profiles each have a cache that lags. `lost` is a
  history variable: the nodes whose reservations a rebuild, a failed list or a
  restart has dropped. `queue` holds the pods to reconcile, at once or after a
  delay: a reconcile takes its pod from it, and what arrives meanwhile stays,
  whatever the reconcile returns. `DeliverPod` brings the cache up to the newest
  state and passes over versions that differ in `held-by` alone; their events, and
  any other of a pod cached with its gates, are `QueuePod`. One during a reconcile
  does what one after it does, so `QueuePod` waits for the worker to be idle.
* `Booking`: what the reconciler promises, without ledger, caches and reconciles:
  a waiting pod is placed once, into remaining room unless the node's bookings
  were dropped, and is never moved. `Reconciler` maps to it: a pod's phase is its
  stage, its pin its place, `lost` the dropped nodes.
* `Gates`: admission is a sequence of calls: `Handle` (allowed, denied or
  patched), `OtherWebhook` in between, a second call as `reinvocationPolicy:
  IfNeeded` has it, `CallIgnored` as `failurePolicy: Ignore` has it, then `Create`.
  Another webhook may change the pod after the second call, which nothing follows:
  `NoneSlipThrough` excepts a pod changed there.
  A reconcile is `Get`, which takes a copy from the cache, and later `Hold`,
  `Retry` or `Release`, which patches from that copy; the cluster acts in between.
  `Accepts` is the API server's validation: gates only go, affinity is only
  narrowed and only while there are gates. The name is used again by a pod with
  another uid, which a patch does not name.
* `GateLife`: what is promised about one pod's gates, without reviews, caches and
  copies: held or free at admission, let go in one step, pinned to one node at
  most and not anew once no gate is left, the gates of others left to them. `Gates`
  maps to it: the pod's uid is its life, its phase and gates its stage, its
  annotation its pin. Where the name was used before, letting go may cost a gate
  of another system: that is what a patch without a uid can do.
* `Certs`: one action per call that `ensureCerts` makes, on every replica, since
  nothing elects one. An update is refused when the object changed since it was
  read. A call fails without effect, or is applied and its reply lost; a file may
  be left truncated; a process may crash anywhere, with or without its files.
  `interrupted` is a history variable: a provision stopped short, or two
  overlapped, between the Secret and the caBundle.

## Runs

| Run | Instance | Shows |
|---|---|---|
| `booking` | 3 equal pods, a node with room for 2; not-ready nodes, skipped webhook | `TypeOK`, `NeverOverbooked`, `KeptInv`, `ImplementsBooking` |
| `faults` | 2 pods of size 1 and 2, a node of size 2; restart, timeouts, failed lists, patches and status updates, lost replies, pods that end | `NoDoubleBooking`, `BookingInv`, `NoLostWakeup` |
| `churn` | 2 equal pods under `WaitForWorkloadPacking`, a node with room for 1 that is drained, removed and comes back | `BookingInv`, `WakeupInv` |
| `scaleup` | 2 pods (one of high priority), a node that registers behind the signals of both autoscalers, devices late, failing detectors | `TargetsReady`, `ReadyInv`, `HoldsOnlyForInflight` |
| `release` | 2 pods a rule holds for ever; timeouts, failing lists and patches, a profile deleted and created again | `EveryGatedPodReleased` |
| `gates` | 1 name used twice, 3 kinds of pod, 2 rule lists, another system's gate, 2 affinity terms, 2 nodes, one fault | `TypeOK`, `GatesAllOrNothing`, `PinnedAsAnnotated`, `GatesInv`, `ImplementsGateLife`, `NoneSlipThrough`, `ForeignGatesKept`, `GatedPodReleased` |
| `certs` | 2 replicas, one fault, up to 3 certificates before the last rotation | `TypeOK`, `Provenance`, `CABundleCurrent`, `CertsInv`, `FreshInv`, `SecretNeverGoesBack`, `RotatedWhenDue`, `EveryReplicaServes` |

Bounds. Quantities are at most 2. More pods than room is where double booking
would show; two pods and one node are enough for a stale cache, a lost
reservation or a missed event to matter. In `faults` the small pod fits twice, so
a second reservation for the same pod happens, and the two pods together never
fit, so a missed one shows. `MaxPending` is 1: with the task of `scaleup` that
gives two signals of different detectors. In `gates`, `MaxLives` 2 is what a
patch needs to reach a later pod of the name, and two terms and two nodes are
what a pin on some terms, or a second pin, needs to differ. In `certs`, `MaxMade`
3 leaves room for a first provision, for the certificate that loses a race and
for a rotation; two replicas race on every write. `MaxFaults` is 1 in both,
at any step: more exceed what TLC explores in minutes. The theorems hold for any
number of faults; the liveness properties are checked for one.

Faults are spread over the runs because together they exceed what TLC explores in
minutes; the theorems cover all of them at once. Pods are interchangeable in
`booking` and `churn`, which use symmetry and check safety only. Deadlock is
checked in `certs` and `gates`; in the runs of `MCReconciler` it is not, since
nothing is left to do once all pods are bound and the caches are up to date.

Five runs state what the documentation says, and TLC refutes each:

* `fulfilled`: a reservation is not removed when its pod runs
  (`docs/concepts/node-ledger.md:37`); nothing calls `ReleaseReservation`.
* `inflight_refill`: one held pod reserves on the in-flight node in every cycle
  until it looks full, then triggers the scale-up that holding was to prevent
  (`docs/concepts/rule-plugins.md:51`).
* `two_rules`: a hold by the first rule ends the loop, so the second is not asked
  (`docs/concepts/rule-plugins.md:69`).
* `two_profiles`: reconciling a pod whose profile lists a device drops what other
  profiles reserved on nodes without it (`docs/concepts/node-ledger.md:21`).
* `untrusted`: a provision that ends after storing the Secret and before patching
  the caBundle is never completed, because every later check finds a valid Secret.
  The replica is ready, the API server does not trust it, and pods pass ungated
  until the next rotation, not for the seconds that
  `docs/guides/troubleshooting.md:146` speaks of. One fault and one replica do.

## Fairness

Each module's `FairSpec` assumes only what a running cluster gives.

* `Reconciler`: informers deliver pods, time reaches the reservation timeout, the
  worker finishes its steps, the work queue reaches every pod in it and a list or
  patch that is retried succeeds in the end. The last two need strong fairness,
  since the worker is busy with others, and calls fail, in between; success is
  stated as the pod losing its gates in the step. Without it a sync that fails for
  ever returns before the timeout is looked at, and the pod stays gated. Nothing
  is assumed of profiles or their cache.
* `Gates`: time passes, watches deliver, the worker takes and finishes a pod.
  Failures are bounded, so weak fairness is enough. Nothing is assumed of users,
  other webhooks and other controllers.
* `Certs`: a container is restarted, the ticker ticks, a call returns or fails,
  the TLS server notices changed files. Rotation comes months after a provision,
  so `ComeDue` waits for the replicas that run to be between ticks and up to date.

## Proofs

Eight modules hold the proofs: `LedgerProofs` (tallies, rules, the fit search),
`ReconcilerProofs` and `BookingProofs` (bookings and wake-ups), `ReadinessProofs`
and `KeepingProofs` (what holds of particular profiles and faults),
`GatesProofs` and `GateLifeProofs`, `CertsProofs`. They hold for all constants
that satisfy the named assumptions: finite sets, quantities between 0 and
`MaxQuantity`, rules from the CRD's enumeration, gates of other systems without
kompakt's prefix.

For every profile and every fault:

* `TypeCorrect`: `Spec => []TypeOK`.
* `BookingInvariant`: `Spec => []BookingInv`. `NoDoubleBooking` is not inductive:
  a step that pins a pod needs to know that its demand is already reserved, and
  that everything reserved is within capacity. `BookingInv` says both, for the
  pods pinned and the one the worker is about to pin. The rebuild carries the
  reservations over, or puts the node into `lost`; `EvaluateOutcomes` gives the
  step that reserves; every other step only removes claims.
* `NeverDoubleBooked`: `Spec => []NoDoubleBooking`, from `BookingInv`.
* `ReconcilerImplementsBooking`: `Spec => B!Spec`. Each step maps to a placement,
  to pods ending, to dropped bookings or to a stutter. `BookingInv` gives the room
  for a placement, and the API server's refusal to change the affinity of a pod
  without gates is why a later patch does not move one.
* `NeverForgotten`: `Spec => []NoLostWakeup`, from `WakeupInv`, which adds that
  an uncreated pod is not cached: a gated pod is queued, or in the worker's hands,
  or the cache has yet to deliver it. A hold puts its pod back with the requeue.
* `SearchFindsFit`: if the limit the loop starts with (`math.MaxInt64`) is more than
  all resources together can amount to (`TallyBounded`), the loop invariant of the search holds at the start, is kept
  by every visit, and at the end makes the result one of `FindFit`'s.
* `GatesInvariant`: `Spec => []GatesInv`. A release writes back lists made from a
  stale copy, so what it may do to the pod depends on how a copy can be behind:
  it shows every gate the pod still has, and while it shows kompakt's the
  affinity is the one asked for. `OneNode` adds, also for a patch made for an
  earlier pod of the name, that the annotated node is the only one the affinity
  names, which is why a second patch cannot pin the pod elsewhere: the API server
  only narrows. From it: `ReleasedTogether`,
  `PinFollowsAnnotation` and, for steps, `ReleaseKeepsForeignGates` and
  `WebhookMissesNone`.
* `GatesImplementsGateLife`: `Spec => L!Spec`. Admission maps to one step at
  `Create`; a patch from a copy of this pod or of an earlier one to `LetGo`; what
  the worker, the caches and the profile do is hidden. `GatesInv` says which gates
  a patch may take and that the node it names is the one the pod has, if any.
* `CertsInvariant`: `Spec => []CertsInv`. It adds to `Provenance` and
  `CABundleCurrent` that a replica that writes or publishes does so with a stored
  certificate, and, unless something was interrupted, with the one in the Secret.
  From it: `OnlyStoredCertsUsed` and `CABundleFollowsSecret`.
* `SecretMovesOn`: `Spec => SecretNeverGoesBack`, from `FreshInv`: what replicas
  are about to store was never stored, and no two are about to store the same.
  The second half is needed since storing one certificate makes it an old one.

Under conditions on the constants, which are hypotheses of the theorem and not
assumptions of the module, so that the other results do not depend on them:

| Theorem | Condition | Without it |
|---|---|---|
| `TargetsAreReady`: `[]TargetsReady` | `NodesOnlyComeUp`: no node fails or is drained | a pin outlives the readiness of its node |
| `HeldOnlyForInflight`: `HoldsOnlyForInflight` | `ScaleUpAlone`: no profile has both rules | `two_rules` |
| `NothingOverbooked`: `[]NeverOverbooked` | `NodesStay`: no failed list, restart or drain; `SkipSameNodes`: all profiles skip the same nodes for want of a device | `two_profiles`; a failed list empties the ledger |

The runs `scaleup` and `booking` satisfy the conditions of what they check. Node
readiness, the webhook, status updates, detectors, timeouts and lagging caches
are free in all three but for what the condition names. The arguments:

* `ReadyInv`: a cache may be behind a node, never ahead of it, so an entry of a
  node that is not Ready was made with its taint, and `nodeMatchesConstraints`
  refuses every pod that does not tolerate it. The taint stays from the rebuild
  until the patch because nothing but a rebuild writes it.
* `HeldOnlyForInflight` needs of the worker only that its pod has a profile;
  `HoldsForInflight` says what a hold of `WaitForNodeReady` has found in the ledger.
* `KeptInv`: a cache never shows a node, or a device, that the cluster does not
  have, and what it shows it goes on to show. So a node that has an entry is listed
  by the next rebuild, for whichever profile, and `lost` stays empty. With
  `NoDoubleBooking` that is `NeverOverbooked`.

No proof expands `FindTemplate`. That a first matching template exists needs an
induction the provers cannot do, and tlapm 1.4.5 with SMT accepts membership
claims about a `CHOOSE` under an `IF` that do not hold for every set, so a leaf
that leans on one is not evidence. `InflightEntry` asks whether the index is one
of the list instead.

Only model-checked, since liveness is out of the prover's reach:
`EveryGatedPodReleased`, `GatedPodReleased`, `RotatedWhenDue` and
`EveryReplicaServes`. That the search loop, run to its end, visits every entry is
an induction and is evaluated by TLC on small ledgers, as is `TallyIsSum`. The
properties that TLC refutes have no theorem, but for the two that hold under the
conditions above.

## Not modelled

* Metrics, logging, Kubernetes events and the trace id: no decision reads them.
* Of the profile's status, the conditions but for `LedgerReady`, and
  `activeDetectors`. The counts that are modelled can stay stale after the last
  release; no property is stated about them. The same holds of the `held-by`
  annotation, which a release from a stale copy can leave behind.
* Parsing: the autoscaler's status, event messages, durations, quantities, X.509.
  Ages (of events, of nodes that never became Ready, of certificates) are steps of
  the environment that may come at any time the code allows.
* Integer overflow and negative annotation values: quantities are naturals.
* The Secret deleted, or the caBundle reset, by hand or by an upgrade of the chart.
* In `Reconciler`, a pod name that is used again and the gates of other systems;
  in `Gates`, the ledger. The two are not composed: `Gates` leaves every decision
  of the rules open, so what it shows holds for the decisions of `Reconciler`.
* Which template an in-flight node gets: modelled, but a heuristic with no stated
  promise.
* A second worker: the code forbids it, and the ledger's mutex is left out.
* `ReleaseReservation`, `RemoveNode` and `ClearInflight`: no caller outside tests.
