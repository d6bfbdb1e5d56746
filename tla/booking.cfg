SPECIFICATION Spec
CONSTANTS
  p1 = p1  p2 = p2  p3 = p3  n1 = n1  n2 = n2  g1 = g1  t1 = t1  A = A  C = C
  NoNode = NoNode  NoPod = NoPod  NoProfile = NoProfile  NoRule = NoRule
  Resource = {"cpu"}
  MaxQuantity = 2
  Pod = {p1, p2, p3}
  Node = {n1}
  Group = {}
  MaxPending = 1
  Task = {}
  Profile = {A}
  PodSpec <- BookingPods
  NodeSpec <- BookingNodes
  ProfileSpec <- BookingProfiles
  InitialNodes = {n1}
  Faults = {"notready", "webhook"}
INVARIANTS TypeOK NeverOverbooked KeptInv
PROPERTIES ImplementsBooking
SYMMETRY Symmetry
CHECK_DEADLOCK FALSE
