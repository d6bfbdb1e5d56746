---------------------------- MODULE LedgerProofs ----------------------------
(***************************************************************************)
(* Facts about the operators of Ledger that the proofs about the           *)
(* reconciler rest on, proved for every set of resources and every bound   *)
(* on quantities.                                                          *)
(***************************************************************************)
EXTENDS FitSearch, FiniteSetTheorems, TLAPS

\* The units of a finite set are finite, so a tally is a natural number: the
\* usage of a node is never negative.
LEMMA TallyType ==
  ASSUME NEW S, IsFiniteSet(S), NEW w
  PROVE  IsFiniteSet(Units(S, w)) /\ Tally(S, w) \in Nat
<1>1. IsFiniteSet(1 .. MaxQuantity)
  BY FS_Interval, MaxQuantityAssumption
<1>2. IsFiniteSet(S \X (1 .. MaxQuantity))
  BY <1>1, FS_Product
<1>3. Units(S, w) \in SUBSET (S \X (1 .. MaxQuantity))
  BY DEF Units
<1>4. IsFiniteSet(Units(S, w))
  BY <1>2, <1>3, FS_Subset
<1> QED
  BY <1>4, FS_CardinalityType DEF Tally

\* Fewer members weigh no more: a pod that ends frees capacity.
LEMMA TallyMonotone ==
  ASSUME NEW T, IsFiniteSet(T), NEW S, S \subseteq T, NEW w
  PROVE  Tally(S, w) <= Tally(T, w)
<1>1. IsFiniteSet(Units(T, w))
  BY TallyType
<1>2. Units(S, w) \in SUBSET Units(T, w)
  BY DEF Units
<1> QED
  BY <1>1, <1>2, FS_Subset DEF Tally

\* A singleton weighs what its member weighs.
LEMMA TallySingleton ==
  ASSUME NEW x, NEW w, w[x] \in 0 .. MaxQuantity
  PROVE  IsFiniteSet(Units({x}, w)) /\ Cardinality(Units({x}, w)) = w[x]
<1> DEFINE k == w[x]
<1>1. k \in Nat /\ k <= MaxQuantity /\ MaxQuantity \in Nat
  BY MaxQuantityAssumption
<1>2. Units({x}, w) = {x} \X (1 .. k)
  BY <1>1 DEF Units
<1> HIDE DEF k
<1>3. /\ IsFiniteSet(1 .. k)
      /\ Cardinality(1 .. k) = IF 1 > k THEN 0 ELSE k - 1 + 1
  <2>1. 1 \in Int /\ k \in Int
    BY <1>1
  <2> QED
    BY <2>1, FS_Interval
<1>4. IsFiniteSet({x}) /\ Cardinality({x}) = 1
  BY FS_Singleton
<1>5. /\ IsFiniteSet({x} \X (1 .. k))
      /\ Cardinality({x} \X (1 .. k)) = Cardinality({x}) * Cardinality(1 .. k)
  BY <1>3, <1>4, FS_Product
<1>6. Cardinality(1 .. k) = k
  BY <1>1, <1>3
<1>7. Cardinality({x} \X (1 .. k)) = k
  BY <1>1, <1>4, <1>5, <1>6
<1> QED
  BY <1>2, <1>5, <1>7 DEF k

\* One more member adds at most its own weight (nothing if already present):
\* what Reserve adds covers the pod it is made for.
LEMMA TallyAdd ==
  ASSUME NEW S, IsFiniteSet(S), NEW x, NEW w, w[x] \in 0 .. MaxQuantity
  PROVE  Tally(S \cup {x}, w) <= Tally(S, w) + w[x]
<1>1. Units(S \cup {x}, w) = Units(S, w) \cup Units({x}, w)
  BY DEF Units
<1>2. IsFiniteSet(Units(S, w)) /\ Tally(S, w) \in Nat
  BY TallyType
<1>3. IsFiniteSet(Units({x}, w)) /\ Cardinality(Units({x}, w)) = w[x]
  BY TallySingleton
<1>4. Cardinality(Units(S, w) \cup Units({x}, w))
        = Cardinality(Units(S, w)) + Cardinality(Units({x}, w))
            - Cardinality(Units(S, w) \cap Units({x}, w))
  BY <1>2, <1>3, FS_Union
<1>5. Cardinality(Units(S, w) \cap Units({x}, w)) \in Nat
  BY <1>2, FS_Intersection, FS_CardinalityType
<1>6. Cardinality(Units(S, w)) \in Nat /\ w[x] \in Nat
  BY <1>2, MaxQuantityAssumption DEF Tally
<1>7. Cardinality(Units(S, w) \cup Units({x}, w)) <= Cardinality(Units(S, w)) + w[x]
  BY <1>3, <1>4, <1>5, <1>6
<1>8. Cardinality(Units(S \cup {x}, w)) = Cardinality(Units(S, w) \cup Units({x}, w))
  BY <1>1, Zenon
<1> QED
  BY <1>7, <1>8 DEF Tally

\* Nothing weighs nothing.
LEMMA TallyEmpty ==
  ASSUME NEW w
  PROVE  Tally({}, w) = 0
<1>1. Units({}, w) = {}
  BY DEF Units
<1> QED
  BY <1>1, FS_EmptySet, Zenon DEF Tally

\* One more member adds exactly its own weight.  With TallyEmpty this is what
\* defines the sum over a finite set, so Tally is the sum that the code
\* accumulates with += in its loops over pods and resources.
THEOREM TallyAddNew ==
  ASSUME NEW S, IsFiniteSet(S), NEW x, x \notin S, NEW w, w[x] \in 0 .. MaxQuantity
  PROVE  Tally(S \cup {x}, w) = Tally(S, w) + w[x]
<1>1. /\ Units(S \cup {x}, w) = Units(S, w) \cup Units({x}, w)
      /\ Units(S, w) \cap Units({x}, w) = {}
  BY DEF Units
<1>2. IsFiniteSet(Units(S, w)) /\ Cardinality(Units(S, w)) \in Nat
  BY TallyType, FS_CardinalityType
<1>3. IsFiniteSet(Units({x}, w)) /\ Cardinality(Units({x}, w)) = w[x]
  BY TallySingleton
<1>4. Cardinality(Units(S, w) \cup Units({x}, w))
        = Cardinality(Units(S, w)) + Cardinality(Units({x}, w))
            - Cardinality(Units(S, w) \cap Units({x}, w))
  BY <1>2, <1>3, FS_Union
<1>5. Cardinality(Units(S, w) \cap Units({x}, w)) = 0
  BY <1>1, FS_EmptySet, Zenon
<1>6. w[x] \in Nat
  BY MaxQuantityAssumption
<1>7. Cardinality(Units(S, w) \cup Units({x}, w)) = Cardinality(Units(S, w)) + w[x]
  BY <1>2, <1>3, <1>4, <1>5, <1>6
<1>8. Cardinality(Units(S \cup {x}, w)) = Cardinality(Units(S, w) \cup Units({x}, w))
  BY <1>1, Zenon
<1> QED
  BY <1>7, <1>8 DEF Tally

\* A tally is at most the number of members times the largest quantity.
LEMMA TallyBounded ==
  ASSUME NEW S, IsFiniteSet(S), NEW w
  PROVE  /\ Cardinality(S) * MaxQuantity \in Nat
         /\ Tally(S, w) <= Cardinality(S) * MaxQuantity
<1>1. IsFiniteSet(1 .. MaxQuantity) /\ Cardinality(1 .. MaxQuantity) = MaxQuantity
  BY FS_Interval, MaxQuantityAssumption
<1>2. /\ IsFiniteSet(S \X (1 .. MaxQuantity))
      /\ Cardinality(S \X (1 .. MaxQuantity)) = Cardinality(S) * MaxQuantity
  BY <1>1, FS_Product
<1>3. Units(S, w) \in SUBSET (S \X (1 .. MaxQuantity))
  BY DEF Units
<1>4. Cardinality(Units(S, w)) <= Cardinality(S \X (1 .. MaxQuantity))
  BY <1>2, <1>3, FS_Subset
<1>5. Cardinality(S \X (1 .. MaxQuantity)) \in Nat
  BY <1>2, FS_CardinalityType
<1> QED
  BY <1>2, <1>4, <1>5 DEF Tally

\* FindFit only returns entries on which the Reserve that follows succeeds: the
\* branches of the rules for a failed Reserve are never taken.
LEMMA FindFitReservable ==
  ASSUME NEW nodes, NEW inflight, NEW demand, NEW c,
         NEW n \in FindFit(nodes, inflight, demand, c)
  PROVE  /\ n \in DOMAIN Entries(nodes, inflight)
         /\ Fits(Entries(nodes, inflight)[n], demand)
BY DEF FindFit, TightestFit, Candidates

\* The same for FindFitExisting, which WaitForWorkloadPacking reserves after.
LEMMA FindFitExistingReservable ==
  ASSUME NEW nodes, NEW demand, NEW c, NEW n \in FindFitExisting(nodes, demand, c)
  PROVE  n \in DOMAIN nodes /\ Fits(nodes[n], demand)
BY DEF FindFitExisting, TightestFit, Candidates

\* What a rule can do: release without a node, hold (perhaps with a reservation
\* on an in-flight node), or release to an existing node on which the demand
\* fits and is now reserved.
LEMMA EvaluateOutcomes ==
  ASSUME NEW rule, NEW nodes, NEW inflight, NEW demand, NEW c, NEW profile,
         NEW o \in Evaluate(rule, nodes, inflight, demand, c, profile)
  PROVE  \/ /\ o.node = NoNode /\ o.nodes = nodes
            /\ \/ o.inflight = inflight
               \/ \E key \in DOMAIN inflight : o.inflight = Reserve(inflight, key, demand)
         \/ \E n \in DOMAIN nodes :
               /\ o.node = n /\ Fits(nodes[n], demand)
               /\ o.nodes = Reserve(nodes, n, demand)
               /\ o.inflight = inflight
<1>1. CASE o \in WaitForWorkloadPacking(nodes, inflight, demand, c)
  BY <1>1, FindFitExistingReservable DEF WaitForWorkloadPacking, Outcome
<1>2. CASE o \in WaitForNodeReady(nodes, inflight, demand, c, profile)
  <2>1. CASE DOMAIN demand = {} \/ FindFit(nodes, inflight, demand, c) = {}
    BY <1>2, <2>1 DEF WaitForNodeReady, Outcome
  <2>2. CASE DOMAIN demand # {} /\ FindFit(nodes, inflight, demand, c) # {}
    <3>1. PICK n \in FindFit(nodes, inflight, demand, c) :
            o = IF n \in DOMAIN nodes
                THEN Outcome(TRUE, n, Reserve(nodes, n, demand), inflight)
                ELSE Outcome(FALSE, NoNode, nodes, Reserve(inflight, n, demand))
      BY <1>2, <2>2 DEF WaitForNodeReady
    <3>2. n \in DOMAIN Entries(nodes, inflight) /\ Fits(Entries(nodes, inflight)[n], demand)
      BY FindFitReservable
    <3> QED
      BY <3>1, <3>2 DEF Outcome, Entries
  <2> QED
    BY <2>1, <2>2
<1> QED
  BY <1>1, <1>2 DEF Evaluate

\* A rule that names a node releases the pod to it, and the node suits the pod.
LEMMA EvaluateNames ==
  ASSUME NEW rule, NEW nodes, NEW inflight, NEW demand, NEW c, NEW profile,
         NEW o \in Evaluate(rule, nodes, inflight, demand, c, profile)
  PROVE  \/ o.node = NoNode
         \/ /\ o.release
            /\ o.node \in DOMAIN nodes /\ NodeMatchesConstraints(nodes[o.node], c)
<1>1. CASE o \in WaitForWorkloadPacking(nodes, inflight, demand, c)
  <2>1. CASE DOMAIN demand = {} \/ FindFitExisting(nodes, demand, c) = {}
    BY <1>1, <2>1 DEF WaitForWorkloadPacking, Outcome
  <2>2. CASE DOMAIN demand # {} /\ FindFitExisting(nodes, demand, c) # {}
    <3>1. PICK n \in FindFitExisting(nodes, demand, c) :
            o = Outcome(TRUE, n, Reserve(nodes, n, demand), inflight)
      BY <1>1, <2>2 DEF WaitForWorkloadPacking
    <3>2. n \in DOMAIN nodes /\ NodeMatchesConstraints(nodes[n], c)
      BY DEF FindFitExisting, TightestFit, Candidates
    <3> QED
      BY <3>1, <3>2 DEF Outcome
  <2> QED
    BY <2>1, <2>2
<1>2. CASE o \in WaitForNodeReady(nodes, inflight, demand, c, profile)
  <2>1. CASE DOMAIN demand = {} \/ FindFit(nodes, inflight, demand, c) = {}
    BY <1>2, <2>1 DEF WaitForNodeReady, Outcome
  <2>2. CASE DOMAIN demand # {} /\ FindFit(nodes, inflight, demand, c) # {}
    <3>1. PICK n \in FindFit(nodes, inflight, demand, c) :
            o = IF n \in DOMAIN nodes
                THEN Outcome(TRUE, n, Reserve(nodes, n, demand), inflight)
                ELSE Outcome(FALSE, NoNode, nodes, Reserve(inflight, n, demand))
      BY <1>2, <2>2 DEF WaitForNodeReady
    <3>2. NodeMatchesConstraints(Entries(nodes, inflight)[n], c)
      BY DEF FindFit, TightestFit, Candidates
    <3>3. n \in DOMAIN nodes => Entries(nodes, inflight)[n] = nodes[n]
      BY DEF Entries
    <3> QED
      BY <3>1, <3>2, <3>3 DEF Outcome
  <2> QED
    BY <2>1, <2>2
<1> QED
  BY <1>1, <1>2 DEF Evaluate

\* WaitForNodeReady holds only for an in-flight node that suits the pod and has
\* room for it, or for one of the profile whose capacity is unknown.
LEMMA HoldsForInflight ==
  ASSUME NEW nodes, NEW inflight, NEW demand, NEW c, NEW profile,
         NEW o \in WaitForNodeReady(nodes, inflight, demand, c, profile), ~ o.release
  PROVE  \E key \in DOMAIN inflight :
           \/ NodeMatchesConstraints(inflight[key], c) /\ Fits(inflight[key], demand)
           \/ key[1] = profile /\ DOMAIN inflight[key].allocatable = {}
<1>1. CASE DOMAIN demand = {}
  BY <1>1 DEF WaitForNodeReady, Outcome
<1>2. CASE DOMAIN demand # {} /\ FindFit(nodes, inflight, demand, c) = {}
  <2>1. o = Outcome(~ HasInflightSignal(inflight, profile), NoNode, nodes, inflight)
    BY <1>2 DEF WaitForNodeReady
  <2>2. o.release = ~ HasInflightSignal(inflight, profile)
    BY <2>1 DEF Outcome
  <2>3. HasInflightSignal(inflight, profile)
    BY <2>2, Zenon
  <2> QED
    BY <2>3 DEF HasInflightSignal
<1>3. CASE DOMAIN demand # {} /\ FindFit(nodes, inflight, demand, c) # {}
  <2>1. PICK n \in FindFit(nodes, inflight, demand, c) :
          o = IF n \in DOMAIN nodes
              THEN Outcome(TRUE, n, Reserve(nodes, n, demand), inflight)
              ELSE Outcome(FALSE, NoNode, nodes, Reserve(inflight, n, demand))
    BY <1>3 DEF WaitForNodeReady
  <2>2. n \notin DOMAIN nodes
    BY <2>1 DEF Outcome
  <2>3. /\ n \in DOMAIN Entries(nodes, inflight)
        /\ NodeMatchesConstraints(Entries(nodes, inflight)[n], c)
        /\ Fits(Entries(nodes, inflight)[n], demand)
    BY DEF FindFit, TightestFit, Candidates
  <2>4. n \in DOMAIN inflight /\ Entries(nodes, inflight)[n] = inflight[n]
    BY <2>2, <2>3 DEF Entries
  <2> QED
    BY <2>3, <2>4
<1> QED
  BY <1>1, <1>2, <1>3

\* The loop of FindFit and FindFitExisting: it starts with nothing found, every
\* entry visited keeps the invariant, and once all entries have been visited the
\* best one is a result of FindFit, or nothing fits.  The order of the visits,
\* which Go leaves open, is arbitrary; the limit that the loop starts with must
\* exceed what all resources together can amount to.
THEOREM SearchFindsFit ==
  ASSUME NEW nodes, NEW inflight, NEW demand, NEW c, NEW limit \in Int,
         NoNode \notin DOMAIN Entries(nodes, inflight),
         IsQuantities(demand), Cardinality(Resource) * MaxQuantity < limit
  PROVE  /\ SearchInv(NothingFound(limit), {}, limit, nodes, inflight, demand, c)
         /\ \A best, seen : \A n \in DOMAIN Entries(nodes, inflight) :
               SearchInv(best, seen, limit, nodes, inflight, demand, c)
                 => SearchInv(Check(best, n, nodes, inflight, demand, c),
                              seen \cup {n}, limit, nodes, inflight, demand, c)
         /\ \A best :
               SearchInv(best, DOMAIN Entries(nodes, inflight), limit,
                         nodes, inflight, demand, c)
                 => IF best.name = NoNode
                    THEN FindFit(nodes, inflight, demand, c) = {}
                    ELSE best.name \in FindFit(nodes, inflight, demand, c)
<1> DEFINE entries == Entries(nodes, inflight)
           cand    == Candidates(entries, demand, c)
           S(n)    == Slack(entries[n], demand)
<1>1. /\ cand \subseteq DOMAIN entries
      /\ \A n \in DOMAIN entries : S(n) \in Nat /\ S(n) < limit
  <2>1. cand \subseteq DOMAIN entries
    BY DEF Candidates
  <2>2. ASSUME NEW n \in DOMAIN entries PROVE S(n) \in Nat /\ S(n) < limit
    <3> DEFINE w    == [r \in DOMAIN demand |-> Available(entries[n], r) - demand[r]]
               most == Cardinality(Resource) * MaxQuantity
    <3>1. DOMAIN demand \subseteq Resource /\ IsFiniteSet(DOMAIN demand)
      BY ResourceAssumption, FS_Subset DEF IsQuantities
    <3>2. S(n) = Tally(DOMAIN demand, w)
      BY DEF Slack
    <3> HIDE DEF w, S
    <3>3. Tally(DOMAIN demand, w) \in Nat /\ Tally(Resource, w) \in Nat
      BY <3>1, ResourceAssumption, TallyType
    <3>4. Tally(DOMAIN demand, w) <= Tally(Resource, w)
      BY <3>1, ResourceAssumption, TallyMonotone
    <3>5. most \in Nat /\ Tally(Resource, w) <= most /\ most < limit
      BY ResourceAssumption, TallyBounded
    <3> HIDE DEF most
    <3> QED
      BY <3>2, <3>3, <3>4, <3>5
  <2> QED
    BY <2>1, <2>2
<1>2. \A n \in DOMAIN entries :
         n \in cand <=> NodeMatchesConstraints(entries[n], c) /\ Fits(entries[n], demand)
  BY DEF Candidates
<1>3. DOMAIN nodes \subseteq DOMAIN entries
  BY DEF Entries
<1>4. SearchInv(NothingFound(limit), {}, limit, nodes, inflight, demand, c)
  BY DEF SearchInv
<1>5. ASSUME NEW best, NEW seen, NEW n \in DOMAIN entries,
             SearchInv(best, seen, limit, nodes, inflight, demand, c)
      PROVE  SearchInv(Check(best, n, nodes, inflight, demand, c),
                       seen \cup {n}, limit, nodes, inflight, demand, c)
  <2> DEFINE new == Check(best, n, nodes, inflight, demand, c)
             fit == cand \cap seen
  <2>1. \/ best = NothingFound(limit) /\ fit = {}
        \/ /\ best = [name |-> best.name, slack |-> S(best.name),
                      inflight |-> best.name \notin DOMAIN nodes]
           /\ best.name \in fit
           /\ \A m \in fit : /\ best.slack <= S(m)
                             /\ best.slack = S(m) /\ m \in DOMAIN nodes => ~ best.inflight
    BY <1>5 DEF SearchInv
  <2>2. CASE n \notin cand
    <3>1. new = best
      BY <1>2, <2>2 DEF Check
    <3>2. cand \cap (seen \cup {n}) = fit
      BY <2>2
    <3> QED
      BY <1>5, <3>1, <3>2 DEF SearchInv
  <2>3. CASE n \in cand
    <3>1. new = IF S(n) < best.slack \/ (S(n) = best.slack /\ n \in DOMAIN nodes /\ best.inflight)
                THEN [name |-> n, slack |-> S(n), inflight |-> n \notin DOMAIN nodes]
                ELSE best
      BY <1>2, <2>3 DEF Check
    <3>2. cand \cap (seen \cup {n}) = fit \cup {n}
      BY <2>3
    <3> HIDE DEF S, cand, entries, new, fit
    <3>3. \/ new = NothingFound(limit) /\ fit \cup {n} = {}
          \/ /\ new = [name |-> new.name, slack |-> S(new.name),
                       inflight |-> new.name \notin DOMAIN nodes]
             /\ new.name \in fit \cup {n}
             /\ \A m \in fit \cup {n} :
                   /\ new.slack <= S(m)
                   /\ new.slack = S(m) /\ m \in DOMAIN nodes => ~ new.inflight
      <4>0. \A m \in fit : m \in DOMAIN entries
        BY <1>1 DEF fit
      <4>1. CASE best = NothingFound(limit) /\ fit = {}
        <5>1. new = [name |-> n, slack |-> S(n), inflight |-> n \notin DOMAIN nodes]
          BY <1>1, <1>5, <3>1, <4>1 DEF NothingFound
        <5>2. new.name = n /\ new.slack = S(n) /\ new.inflight = (n \notin DOMAIN nodes)
          BY <5>1
        <5>3. S(n) <= S(n)
          BY <1>1, <1>5
        <5>4. new = [name |-> new.name, slack |-> S(new.name),
                     inflight |-> new.name \notin DOMAIN nodes]
          BY <5>1, <5>2, Zenon
        <5> QED
          BY <4>1, <5>2, <5>3, <5>4, Zenon
      <4>2. CASE /\ best = [name |-> best.name, slack |-> S(best.name),
                            inflight |-> best.name \notin DOMAIN nodes]
                 /\ best.name \in fit
                 /\ \A m \in fit :
                       /\ best.slack <= S(m)
                       /\ best.slack = S(m) /\ m \in DOMAIN nodes => ~ best.inflight
        <5>1. /\ best.slack = S(best.name) /\ best.slack \in Nat /\ S(n) \in Nat
              /\ best.inflight = (best.name \notin DOMAIN nodes)
          BY <1>1, <1>5, <4>0, <4>2
        <5>2. CASE S(n) < best.slack \/ (S(n) = best.slack /\ n \in DOMAIN nodes /\ best.inflight)
          <6>1. new = [name |-> n, slack |-> S(n), inflight |-> n \notin DOMAIN nodes]
            BY <3>1, <5>2
          <6>2. new.name = n /\ new.slack = S(n) /\ new.inflight = (n \notin DOMAIN nodes)
            BY <6>1
          <6>3. ASSUME NEW m \in fit
                PROVE  /\ new.slack <= S(m)
                       /\ new.slack = S(m) /\ m \in DOMAIN nodes => ~ new.inflight
            <7>1. S(m) \in Nat /\ best.slack <= S(m)
              BY <1>1, <4>0, <4>2
            <7>2. new.slack <= S(m)
              BY <5>1, <5>2, <6>2, <7>1
            <7>3. new.slack = S(m) => n \in DOMAIN nodes
              BY <5>1, <5>2, <6>2, <7>1
            <7>4. n \in DOMAIN nodes => ~ new.inflight
              BY <6>2, Zenon
            <7> QED
              BY <7>2, <7>3, <7>4, Zenon
          <6>4. new.slack <= S(n)
            BY <5>1, <6>2
          <6>5. n \in DOMAIN nodes => ~ new.inflight
            BY <6>2, Zenon
          <6>6. new = [name |-> new.name, slack |-> S(new.name),
                       inflight |-> new.name \notin DOMAIN nodes]
            BY <6>1, <6>2, Zenon
          <6> QED
            BY <6>2, <6>3, <6>4, <6>5, <6>6, Zenon
        <5>3. CASE ~ (S(n) < best.slack \/ (S(n) = best.slack /\ n \in DOMAIN nodes /\ best.inflight))
          <6>1. new = best
            BY <3>1, <5>3
          <6>2. /\ best.slack <= S(n)
                /\ best.slack = S(n) /\ n \in DOMAIN nodes => ~ best.inflight
            BY <5>1, <5>3
          <6> QED
            BY <4>2, <6>1, <6>2
        <5> QED
          BY <5>2, <5>3
      <4> QED
        BY <2>1, <4>1, <4>2
    <3> QED
      BY <3>2, <3>3 DEF SearchInv, S, cand, entries, new, fit
  <2> QED
    BY <2>2, <2>3
<1>6. ASSUME NEW best,
             SearchInv(best, DOMAIN entries, limit, nodes, inflight, demand, c)
      PROVE  IF best.name = NoNode
             THEN FindFit(nodes, inflight, demand, c) = {}
             ELSE best.name \in FindFit(nodes, inflight, demand, c)
  <2>1. cand \cap DOMAIN entries = cand
    BY <1>1
  <2>2. CASE best = NothingFound(limit) /\ cand = {}
    BY <2>2 DEF NothingFound, FindFit, TightestFit
  <2>3. CASE /\ best = [name |-> best.name, slack |-> S(best.name),
                        inflight |-> best.name \notin DOMAIN nodes]
             /\ best.name \in cand
             /\ \A m \in cand :
                   /\ best.slack <= S(m)
                   /\ best.slack = S(m) /\ m \in DOMAIN nodes => ~ best.inflight
    <3> DEFINE tight == TightestFit(entries, demand, c)
    <3>1. best.slack = S(best.name) /\ best.inflight = (best.name \notin DOMAIN nodes)
      BY <2>3
    <3>2. best.name # NoNode /\ best.name \in tight
      BY <1>1, <2>3, <3>1 DEF TightestFit
    <3>3. ASSUME NEW m \in tight, m \in DOMAIN nodes
          PROVE  best.name \in DOMAIN nodes
      <4>1. m \in cand /\ S(m) <= S(best.name) /\ best.slack <= S(m)
        BY <2>3, <3>3 DEF TightestFit
      <4>2. S(m) \in Nat /\ S(best.name) \in Nat
        BY <1>1, <2>3, <4>1
      <4> HIDE DEF S, cand
      <4>3. best.slack = S(m)
        BY <3>1, <4>1, <4>2
      <4> QED
        BY <2>3, <3>1, <3>3, <4>1, <4>3
    <3> QED
      BY <3>2, <3>3 DEF FindFit
  <2> QED
    BY <1>6, <2>1, <2>2, <2>3 DEF SearchInv
<1> QED
  BY <1>4, <1>5, <1>6
=============================================================================
