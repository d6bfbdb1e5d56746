SPECIFICATION Spec
CONSTANTS
  p1 = p1  p2 = p2  p3 = p3  n1 = n1  n2 = n2  g1 = g1  t1 = t1  A = A  C = C
  NoNode = NoNode  NoPod = NoPod  NoProfile = NoProfile  NoRule = NoRule
  Resource = {"cpu"}
  MaxQuantity = 2
  Pod = {p1, p2}
  Node = {n2}
  Group = {}
  MaxPending = 1
  Task = {}
  Profile = {A}
  PodSpec <- BookingPods
  NodeSpec <- BookingNodes
  ProfileSpec <- PackingProfiles
  InitialNodes = {n2}
  Faults = {"drain"}
INVARIANTS BookingInv WakeupInv
SYMMETRY Symmetry
CHECK_DEADLOCK FALSE
