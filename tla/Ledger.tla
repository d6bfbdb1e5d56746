------------------------------- MODULE Ledger -------------------------------
(***************************************************************************)
(* The node ledger (internal/ledger/ledger.go) and the helpers it calls.   *)
(*                                                                         *)
(* A ledger is two maps from names to entries: the existing nodes and the  *)
(* in-flight nodes.  Both are plain functions here, and an operation is an *)
(* operator from entries to entries; the state lives in the modules that   *)
(* use this one.  The mutex of the code is not modelled: every caller runs *)
(* on the one reconcile worker, so each operation is one step.             *)
(*                                                                         *)
(* A Go map of quantities is a function whose domain is the set of keys    *)
(* present.  Where the code tells "absent" from "zero" (allocatable and    *)
(* demand) the domain may be any set of resources; where it does not (used *)
(* and reserved) the function is total and an absent key is 0.             *)
(***************************************************************************)
EXTENDS Integers, FiniteSets

CONSTANTS
  Resource,     \* resource names
  MaxQuantity   \* the largest quantity: 2^63 - 1 in the code, small for TLC

ASSUME ResourceAssumption == IsFiniteSet(Resource)
ASSUME MaxQuantityAssumption == MaxQuantity \in Nat

-----------------------------------------------------------------------------
(* Quantities.                                                             *)

\* Reading a Go map: an absent key is the zero value.
At(m, r) == IF r \in DOMAIN m THEN m[r] ELSE 0

NoQuantities == [r \in {} |-> 0]

Zero == [r \in Resource |-> 0]

\* A map from some of the resources to quantities.
IsQuantities(m) ==
  /\ DOMAIN m \subseteq Resource
  /\ m = [r \in DOMAIN m |-> m[r]]
  /\ \A r \in DOMAIN m : m[r] \in 0 .. MaxQuantity

(***************************************************************************)
(* The sum of w[x] over the x in S, for weights between 0 and MaxQuantity: *)
(* one unit <<x, i>> is counted for each i in 1 .. w[x].  Written with     *)
(* Cardinality rather than a fold so that the theorems on finite sets      *)
(* apply to it.                                                            *)
(***************************************************************************)
Units(S, w) == {u \in S \X (1 .. MaxQuantity) : u[2] <= w[u[1]]}

Tally(S, w) == Cardinality(Units(S, w))

-----------------------------------------------------------------------------
(* Entries.                                                                *)

\* What AddNode and AddInflightNode store under a name.
NewEntry(allocatable, labels, taints) ==
  [allocatable |-> allocatable, used |-> Zero, reserved |-> Zero,
   labels |-> labels, taints |-> taints]

\* Mutation: reservations are not subtracted.
AvailableIgnoringReserved(e, r) == At(e.allocatable, r) - e.used[r]

Available(e, r) == At(e.allocatable, r) - e.used[r] - e.reserved[r]

\* Every demanded resource is available in the demanded quantity.
Fits(e, demand) == \A r \in DOMAIN demand : Available(e, r) >= demand[r]

\* What is left over on an entry that fits, summed over the demand.
Slack(e, demand) ==
  Tally(DOMAIN demand, [r \in DOMAIN demand |-> Available(e, r) - demand[r]])

\* A taint is tolerated by one of the tolerations.
TolerateTaint(tolerations, taint) ==
  \E t \in tolerations :
     /\ t.effect \in {"", taint.effect}
     /\ \/ t.operator = "Exists" /\ t.key \in {"", taint.key}
        \/ t.key = taint.key /\ t.value = taint.value

\* Mutation: taints are not checked.
MatchesSelectorOnly(e, c) ==
  \A key \in DOMAIN c.nodeSelector :
     c.nodeSelector[key] = (IF key \in DOMAIN e.labels THEN e.labels[key] ELSE "")

\* Taints and nodeSelector; an absent label reads as the empty string.
NodeMatchesConstraints(e, c) ==
  /\ \A taint \in e.taints :
        taint.effect \in {"NoSchedule", "NoExecute"}
           => TolerateTaint(c.tolerations, taint)
  /\ \A key \in DOMAIN c.nodeSelector :
        c.nodeSelector[key] =
           (IF key \in DOMAIN e.labels THEN e.labels[key] ELSE "")

-----------------------------------------------------------------------------
(* Lookup.  Go iterates a map in an arbitrary order, so a search returns   *)
(* any one of the names below; the empty set is errNoFit.                  *)

\* findEntry: an existing node shadows an in-flight one of the same name.
Entries(nodes, inflight) ==
  [n \in DOMAIN nodes \cup DOMAIN inflight |->
     IF n \in DOMAIN nodes THEN nodes[n] ELSE inflight[n]]

Candidates(entries, demand, c) ==
  {n \in DOMAIN entries : NodeMatchesConstraints(entries[n], c)
                          /\ Fits(entries[n], demand)}

TightestFit(entries, demand, c) ==
  LET fit == Candidates(entries, demand, c)
  IN  {n \in fit : \A m \in fit :
                      Slack(entries[n], demand) <= Slack(entries[m], demand)}

FindFitExisting(nodes, demand, c) == TightestFit(nodes, demand, c)

\* An existing node is preferred to an in-flight one of equal slack.
FindFit(nodes, inflight, demand, c) ==
  LET best == TightestFit(Entries(nodes, inflight), demand, c)
  IN  IF best \cap DOMAIN nodes # {} THEN best \cap DOMAIN nodes ELSE best

\* Keys of in-flight entries are <<profile, name>>: the prefix is the profile.
HasInflightSignal(inflight, profile) ==
  \E key \in DOMAIN inflight :
     key[1] = profile /\ DOMAIN inflight[key].allocatable = {}

-----------------------------------------------------------------------------
(* Updates.                                                                *)

\* Mutations: the reservation is not recorded, or with the wrong sign.
ReserveNothing(entries, name, demand) == entries

ReserveNegative(entries, name, demand) ==
  [entries EXCEPT ![name].reserved =
     [r \in Resource |-> entries[name].reserved[r] - At(demand, r)]]

\* Reserve, after its check that the demand fits.
Reserve(entries, name, demand) ==
  [entries EXCEPT ![name].reserved =
     [r \in Resource |-> entries[name].reserved[r] + At(demand, r)]]

ClearInflightByPrefix(inflight, profile) ==
  [key \in {k \in DOMAIN inflight : k[1] # profile} |-> inflight[key]]

\* RemoveInflightNode, for each of the keys.
RemoveInflightNodes(inflight, keys) ==
  [key \in DOMAIN inflight \ keys |-> inflight[key]]

\* The reservations held under a name, none when it has no entry.
ReservedOn(entries, name) ==
  IF name \in DOMAIN entries THEN entries[name].reserved ELSE Zero

\* Mutation: the snapshot is not put back.
RestoreNothing(rebuilt, old) == rebuilt

\* SnapshotReservations of the old entries put back on the rebuilt ones:
\* a name that was not rebuilt loses what was reserved on it.
RestoreReservations(rebuilt, old) ==
  [name \in DOMAIN rebuilt |->
     [rebuilt[name] EXCEPT !.reserved = ReservedOn(old, name)]]
=============================================================================
