---------------------------- MODULE MCReconciler ----------------------------
(***************************************************************************)
(* Small instances of Reconciler for TLC: the pods, nodes and profiles of  *)
(* each configuration.                                                     *)
(***************************************************************************)
EXTENDS Reconciler, FitSearch, TLC, SequencesExt

CONSTANTS p1, p2, p3, n1, n2, g1, t1, A, C

NoLabels == [k \in {} |-> ""]

Cpu(q) == [r \in {"cpu"} |-> q]

CpuGpu(q, g) == [r \in {"cpu", "gpu"} |-> IF r = "cpu" THEN q ELSE g]

PlainPod(profile, requests) ==
  [profile |-> profile, requests |-> requests, annotations |-> NoQuantities,
   high |-> FALSE, tolerations |-> {}, nodeSelector |-> NoLabels]

PlainNode(capacity) ==
  [capacity |-> capacity, late |-> {}, labels |-> NoLabels, taints |-> {}, tasks |-> {}]

Requests(resources) ==
  [type |-> "ResourceRequest", resources |-> resources, additionalResources |-> {}]

Template(names, allocatable) ==
  [instances |-> {}, prefixed |-> names, allocatable |-> allocatable,
   labels |-> NoLabels, taints |-> {}]

PlainProfile(rules, resources, templates) ==
  [rules |-> rules, source |-> Requests(resources), templates |-> templates]

\* Tally is the sum it stands for.
ASSUME TallyIsSum ==
  \A w \in [1 .. 3 -> 0 .. MaxQuantity] : \A S \in SUBSET (1 .. 3) :
     Tally(S, w) = SumFunctionOnSet(w, S)

\* FindFit's loop over the existing nodes and then over those in flight, in some
\* order of each map.
Searches(known, coming, demand, c) ==
  {FoldLeft(LAMBDA best, n : Check(best, n, known, coming, demand, c),
            NothingFound(2 * MaxQuantity + 1), existing \o incoming).name :
     existing \in SetToSeqs(DOMAIN known), incoming \in SetToSeqs(DOMAIN coming)}

\* The orders together return exactly what FindFit says they may, and those
\* without in-flight nodes what FindFitExisting says.
ASSUME SearchesAreFindFit ==
  \A room \in [{n1, n2} -> 0 .. 2], supply \in [{g1, t1} -> 0 .. 2] :
     LET entry(q) == NewEntry(Cpu(q), NoLabels, {})
         c        == [tolerations |-> {}, nodeSelector |-> NoLabels]
         known    == [n \in {n1, n2} |-> entry(room[n])]
         coming   == [n \in {g1, t1} |-> entry(supply[n])]
         orNone(S) == IF S = {} THEN {NoNode} ELSE S
     IN  /\ Searches(known, coming, Cpu(1), c) = orNone(FindFit(known, coming, Cpu(1), c))
         /\ Searches(known, NoEntries, Cpu(1), c) = orNone(FindFitExisting(known, Cpu(1), c))

-----------------------------------------------------------------------------
(* booking, faults, churn, release: pods compete for one node.             *)

BookingPods == [p \in Pod |-> PlainPod(A, Cpu(1))]

BookingNodes == [n \in Node |-> PlainNode(Cpu(IF n = n1 THEN 2 ELSE 1))]

BookingProfiles ==
  [pr \in Profile |-> PlainProfile(<<"WaitForNodeReady">>, {"cpu"}, <<>>)]

\* churn: only existing nodes are looked at.
PackingProfiles ==
  [pr \in Profile |-> PlainProfile(<<"WaitForWorkloadPacking">>, {"cpu"}, <<>>)]

\* Pods with the same specification are interchangeable.
Symmetry == Permutations(Pod)

\* faults: the first pod fits twice, so it can reserve twice; both never fit.
UnequalPods == [p \in Pod |-> PlainPod(A, Cpu(IF p = p1 THEN 1 ELSE 2))]

\* The rule holds the pods that do not fit on an existing node; the first rule
\* has a gate but is not registered.
HoldingProfiles ==
  [pr \in Profile |->
     PlainProfile(<<"WaitForImagePrePull", "WaitForWorkloadPacking">>, {"cpu"}, <<>>)]

-----------------------------------------------------------------------------
(* scaleup: a node with late devices comes up behind the signals of both   *)
(* autoscalers, one a task that the node is labelled with.                 *)

\* The second pod is of high priority.
ScaleUpPods ==
  [p \in Pod |-> [PlainPod(A, CpuGpu(1, 1)) EXCEPT !.high = p = p2]]

ScaleUpNodes ==
  [n \in Node |-> [PlainNode(CpuGpu(2, 2)) EXCEPT !.late = {"gpu"}, !.tasks = Task]]

ScaleUpProfiles ==
  [pr \in Profile |->
     PlainProfile(<<"WaitForImagePrePull", "WaitForNodeReady">>, {"cpu", "gpu"},
                  <<Template({n1}, CpuGpu(2, 2))>>)]

-----------------------------------------------------------------------------
(* The configurations that disagree with the documentation.                *)

\* inflight_refill: one pod waits for an in-flight node twice its size.
RefillProfiles ==
  [pr \in Profile |-> PlainProfile(<<"WaitForNodeReady">>, {"cpu"},
                                   <<Template({<<g1, 0>>}, Cpu(2))>>)]

\* two_rules: the example of rule-plugins.md.
TwoRuleProfiles ==
  [pr \in Profile |->
     PlainProfile(<<"WaitForWorkloadPacking", "WaitForNodeReady">>, {"cpu"}, <<>>)]

\* two_profiles: the second pod's profile lists a device the node lacks.
TwoProfilePods ==
  [p \in Pod |-> IF p = p2 THEN PlainPod(C, CpuGpu(1, 1)) ELSE PlainPod(A, Cpu(1))]

TwoProfileProfiles ==
  [pr \in Profile |->
     PlainProfile(<<"WaitForNodeReady">>, IF pr = C THEN {"cpu", "gpu"} ELSE {"cpu"}, <<>>)]
=============================================================================
