------------------------------- MODULE MCGates -------------------------------
(* Instances of Gates for TLC. *)
EXTENDS Gates

\* A pod with the label, one without, an excluded one; with another system's
\* gate and no, one or two terms.
MCSubmission ==
  {[labelled |-> TRUE, excluded |-> FALSE, gates |-> {"g1"}, terms |-> {"t1", "t2"}],
   [labelled |-> TRUE, excluded |-> FALSE, gates |-> {}, terms |-> {}],
   [labelled |-> TRUE, excluded |-> TRUE, gates |-> {}, terms |-> {}]}

\* Two rules that have gates, and one of them beside a rule that has none.
MCRuleList ==
  {<<"WaitForWorkloadPacking", "WaitForNodeReady">>, <<"WaitForNodeReady", "Unknown">>}
=============================================================================
