SPECIFICATION Spec
CONSTANTS
  p1 = p1  p2 = p2  p3 = p3  n1 = n1  n2 = n2  g1 = g1  t1 = t1  A = A  C = C
  NoNode = NoNode  NoPod = NoPod  NoProfile = NoProfile  NoRule = NoRule
  Resource = {"cpu"}
  MaxQuantity = 2
  Pod = {p1, p2}
  Node = {n1}
  Group = {}
  MaxPending = 1
  Task = {}
  Profile = {A}
  PodSpec <- UnequalPods
  NodeSpec <- BookingNodes
  ProfileSpec <- BookingProfiles
  InitialNodes = {n1}
  Faults = {"restart", "list", "patch", "reply", "end", "timeout", "status"}
INVARIANTS NoDoubleBooking BookingInv NoLostWakeup
CHECK_DEADLOCK FALSE
