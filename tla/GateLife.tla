------------------------------ MODULE GateLife -------------------------------
(***************************************************************************)
(* What is promised about one pod's gates, without admission reviews,      *)
(* caches, copies and retries: a pod that is held is let go once, with all *)
(* of kompakt's gates in one step; it is pinned to one node at most, and   *)
(* not anew once no gate keeps it from the scheduler any more; and the     *)
(* gates of other systems are left to them.  Only where the pod's name was *)
(* used before may letting it go cost it a gate of another system.         *)
(***************************************************************************)
EXTENDS Naturals

CONSTANTS OtherGate, Node, NoNode

VARIABLES
  life,      \* how often the name has been used
  stage,     \* "coming", "held" by kompakt, "free" of it, or "away"
  foreign,   \* the gates of other systems that are on the pod
  pin        \* the node the pod is pinned to, or NoNode

vars == <<life, stage, foreign, pin>>

Init ==
  /\ life = 1 /\ stage = "coming"
  /\ foreign \in SUBSET OtherGate /\ pin = NoNode

Arrive ==
  /\ stage = "away"
  /\ life' = life + 1 /\ stage' = "coming"
  /\ foreign' \in SUBSET OtherGate /\ pin' = NoNode

AddForeign ==
  /\ stage = "coming"
  /\ \E g \in OtherGate : foreign' = foreign \cup {g}
  /\ UNCHANGED <<life, stage, pin>>

Admit ==
  /\ stage = "coming" /\ stage' \in {"held", "free"}
  /\ UNCHANGED <<life, foreign, pin>>

RemoveForeign ==
  /\ stage \in {"held", "free"}
  /\ \E g \in foreign : foreign' = foreign \ {g}
  /\ UNCHANGED <<life, stage, pin>>

LetGo(n) ==
  /\ stage \in {"held", "free"}
  /\ \/ n \in {NoNode, pin}
     \/ pin = NoNode /\ (stage = "held" \/ foreign # {})
  /\ stage' = "free"
  /\ pin' = IF n = NoNode THEN pin ELSE n
  /\ foreign' = foreign \/ (life > 1 /\ foreign' \in SUBSET foreign)
  /\ UNCHANGED life

\* Refused, or deleted.
Leave ==
  /\ stage # "away" /\ stage' = "away"
  /\ foreign' = {} /\ pin' = NoNode
  /\ UNCHANGED life

Next ==
  \/ Arrive \/ AddForeign \/ Admit \/ RemoveForeign \/ Leave
  \/ \E n \in Node \cup {NoNode} : LetGo(n)

Spec == Init /\ [][Next]_vars
=============================================================================
