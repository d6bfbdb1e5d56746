SPECIFICATION FairSpec
CONSTANTS
  r1 = r1  r2 = r2
  Replica = {r1, r2}
  MaxFaults = 1
  MaxMade = 3
INVARIANTS TypeOK Provenance CABundleCurrent CertsInv FreshInv
PROPERTIES SecretNeverGoesBack RotatedWhenDue EveryReplicaServes
