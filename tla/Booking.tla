------------------------------- MODULE Booking -------------------------------
(***************************************************************************)
(* What the controller promises about placing pods, without its ledger,    *)
(* its caches and its reconciles: a waiting pod is placed once, on a node  *)
(* or on none (the scheduler then chooses), keeps its place until it ends, *)
(* and a node is given no more pods than it has room for, unless it is one *)
(* of those whose bookings were dropped.                                   *)
(***************************************************************************)
CONSTANTS
  Pod, Node, NoNode,
  HasRoom(_, _)   \* whether a node has room for a set of pods at once

VARIABLES
  stage,     \* "waiting", "placed" or "ended", per pod
  place,     \* the node a pod is placed on, or NoNode
  dropped    \* nodes whose bookings were dropped

vars == <<stage, place, dropped>>

PlacedOn(n) == {p \in Pod : stage[p] = "placed" /\ place[p] = n}

Init ==
  /\ stage = [p \in Pod |-> "waiting"]
  /\ place = [p \in Pod |-> NoNode]
  /\ dropped = {}

Place(p, n) ==
  /\ stage[p] = "waiting"
  /\ n \in Node \ dropped => HasRoom(n, PlacedOn(n) \cup {p})
  /\ stage' = [stage EXCEPT ![p] = "placed"]
  /\ place' = [place EXCEPT ![p] = n]
  /\ UNCHANGED dropped

\* Pods end together when their node is removed, and give up their places.
End(ending) ==
  /\ stage' = [p \in Pod |-> IF p \in ending THEN "ended" ELSE stage[p]]
  /\ place' = [p \in Pod |-> IF p \in ending THEN NoNode ELSE place[p]]
  /\ UNCHANGED dropped

Drop ==
  /\ dropped \subseteq dropped' /\ dropped' \subseteq Node
  /\ UNCHANGED <<stage, place>>

Next ==
  \/ \E p \in Pod : \E n \in Node \cup {NoNode} : Place(p, n)
  \/ \E ending \in SUBSET Pod : End(ending)
  \/ Drop

Spec == Init /\ [][Next]_vars
=============================================================================
