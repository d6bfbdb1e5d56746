SPECIFICATION FairSpec
CONSTANTS
  OtherGate = {"g1"}
  Term = {"t1", "t2"}
  NewTerm = "new"
  Node = {"n1", "n2"}
  NoNode = "none"
  RuleList <- MCRuleList
  NoProfile = NoProfile
  Submission <- MCSubmission
  MaxLives = 2
  MaxFaults = 1
INVARIANTS TypeOK GatesAllOrNothing PinnedAsAnnotated GatesInv
PROPERTIES ImplementsGateLife NoneSlipThrough ForeignGatesKept GatedPodReleased
