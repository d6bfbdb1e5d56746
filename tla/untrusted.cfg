SPECIFICATION FairSpec
CONSTANTS
  r1 = r1  r2 = r2
  Replica = {r1}
  MaxFaults = 1
  MaxMade = 1
PROPERTIES ReadyMeansTrusted
