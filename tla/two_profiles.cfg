SPECIFICATION Spec
CONSTANTS
  p1 = p1  p2 = p2  p3 = p3  n1 = n1  n2 = n2  g1 = g1  t1 = t1  A = A  C = C
  NoNode = NoNode  NoPod = NoPod  NoProfile = NoProfile  NoRule = NoRule
  Resource = {"cpu", "gpu"}
  MaxQuantity = 2
  Pod = {p1, p2, p3}
  Node = {n2}
  Group = {}
  MaxPending = 1
  Task = {}
  Profile = {A, C}
  PodSpec <- TwoProfilePods
  NodeSpec <- BookingNodes
  ProfileSpec <- TwoProfileProfiles
  InitialNodes = {n2}
  Faults = {}
INVARIANTS NeverOverbooked
CHECK_DEADLOCK FALSE
