-------------------------------- MODULE Rules --------------------------------
(***************************************************************************)
(* The rule plugins (internal/rules): how the demand of a pod is read, and *)
(* what each registered rule decides about a gated pod.                    *)
(*                                                                         *)
(* A rule maps the ledger to the set of its possible outcomes: whether it  *)
(* releases, the node it names (NoNode for the empty string), and the      *)
(* ledger it leaves.  Several outcomes differ only in which of the equally *)
(* tight entries the map iteration meets first.                            *)
(*                                                                         *)
(* FindFit and Reserve run one after the other on the single worker, so    *)
(* the entry found always admits the reservation (FindFitReservable in     *)
(* LedgerProofs) and the branches for a failed Reserve are unreachable.    *)
(***************************************************************************)
EXTENDS Ledger

CONSTANT NoNode

\* rules.Registry: the rules that exist.  A profile may name others.
Registry == {"WaitForWorkloadPacking", "WaitForNodeReady"}

-----------------------------------------------------------------------------

OnlyResources(m, resources) == [r \in DOMAIN m \cap resources |-> m[r]]

(***************************************************************************)
(* ExtractDemand.  pod.requests is already summed over the containers;     *)
(* pod.annotations holds the annotations that parse as an integer, so one  *)
(* that is missing or malformed yields no demand.                          *)
(***************************************************************************)
ExtractDemand(pod, source) ==
  CASE source.type = "ResourceRequest" /\ source.resources # {} ->
         OnlyResources(pod.requests, source.resources)
    [] source.type = "ResourceRequest" /\ source.resources = {} ->
         OnlyResources(pod.requests,
                       {"cpu", "memory"} \cup source.additionalResources)
    [] source.type = "Annotation" ->
         OnlyResources(pod.annotations, {source.annotation})
    [] OTHER -> NoQuantities

ExtractConstraints(pod) ==
  [tolerations |-> pod.tolerations, nodeSelector |-> pod.nodeSelector]

-----------------------------------------------------------------------------

Outcome(release, node, nodes, inflight) ==
  [release |-> release, node |-> node, nodes |-> nodes, inflight |-> inflight]

\* WaitForWorkloadPacking.Evaluate: an existing node, or hold.
WaitForWorkloadPacking(nodes, inflight, demand, c) ==
  LET fit == FindFitExisting(nodes, demand, c)
  IN  IF DOMAIN demand = {} THEN {Outcome(TRUE, NoNode, nodes, inflight)}
      ELSE IF fit = {} THEN {Outcome(FALSE, NoNode, nodes, inflight)}
      ELSE {Outcome(TRUE, n, Reserve(nodes, n, demand), inflight) : n \in fit}

\* Mutation: the pod is held when nothing is coming.
HoldsWhenNoFit(nodes, inflight, demand, c, profile) ==
  IF FindFit(nodes, inflight, demand, c) = {}
  THEN {Outcome(FALSE, NoNode, nodes, inflight)}
  ELSE WaitForWorkloadPacking(nodes, inflight, demand, c)

(***************************************************************************)
(* WaitForNodeReady.Evaluate: an existing node releases, an in-flight node *)
(* holds and is reserved on, an in-flight node of unknown capacity holds,  *)
(* and otherwise the pod passes through to wake the autoscaler.            *)
(***************************************************************************)
WaitForNodeReady(nodes, inflight, demand, c, profile) ==
  LET fit == FindFit(nodes, inflight, demand, c)
  IN  IF DOMAIN demand = {} THEN {Outcome(TRUE, NoNode, nodes, inflight)}
      ELSE IF fit = {}
      THEN {Outcome(~HasInflightSignal(inflight, profile), NoNode, nodes, inflight)}
      ELSE {IF n \in DOMAIN nodes
            THEN Outcome(TRUE, n, Reserve(nodes, n, demand), inflight)
            ELSE Outcome(FALSE, NoNode, nodes, Reserve(inflight, n, demand))
            : n \in fit}

Evaluate(rule, nodes, inflight, demand, c, profile) ==
  IF rule = "WaitForWorkloadPacking"
  THEN WaitForWorkloadPacking(nodes, inflight, demand, c)
  ELSE WaitForNodeReady(nodes, inflight, demand, c, profile)
=============================================================================
