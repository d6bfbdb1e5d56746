------------------------------ MODULE FitSearch ------------------------------
(***************************************************************************)
(* The search loops of the ledger (FindFit and FindFitExisting) as the     *)
(* code runs them: entries are visited one after the other, in the order   *)
(* the Go map iteration happens to give, and the best entry seen so far is *)
(* kept with its slack.  Ledger's FindFit is the set of results that some  *)
(* order may give; LedgerProofs shows that a loop returns one of them in   *)
(* every order.                                                            *)
(***************************************************************************)
EXTENDS Rules

\* The best entry so far; limit is math.MaxInt64, the slack no entry reaches.
NothingFound(limit) == [name |-> NoNode, slack |-> limit, inflight |-> FALSE]

(***************************************************************************)
(* The function check of FindFit: the entry n replaces the best one when   *)
(* it is tighter, or when it exists already and the best one does not.     *)
(***************************************************************************)
Check(best, n, nodes, inflight, demand, c) ==
  LET e        == Entries(nodes, inflight)[n]
      slack    == Slack(e, demand)
      incoming == n \notin DOMAIN nodes
  IN  IF /\ NodeMatchesConstraints(e, c)
         /\ Fits(e, demand)
         /\ \/ slack < best.slack
            \/ slack = best.slack /\ ~ incoming /\ best.inflight
      THEN [name |-> n, slack |-> slack, inflight |-> incoming]
      ELSE best

(***************************************************************************)
(* The loop invariant, after the entries in seen have been visited: the    *)
(* best entry is one that fits, no entry seen fits more tightly, and one   *)
(* in flight is best only if no existing entry seen is as tight.           *)
(***************************************************************************)
SearchInv(best, seen, limit, nodes, inflight, demand, c) ==
  LET entries == Entries(nodes, inflight)
      fit     == Candidates(entries, demand, c) \cap seen
  IN  \/ best = NothingFound(limit) /\ fit = {}
      \/ /\ best = [name |-> best.name, slack |-> Slack(entries[best.name], demand),
                    inflight |-> best.name \notin DOMAIN nodes]
         /\ best.name \in fit
         /\ \A m \in fit : /\ best.slack <= Slack(entries[m], demand)
                           /\ best.slack = Slack(entries[m], demand) /\ m \in DOMAIN nodes
                                 => ~ best.inflight
=============================================================================
