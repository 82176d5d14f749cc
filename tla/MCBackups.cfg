SPECIFICATION FairSpec
CONSTANTS
  c1 = c1  c2 = c2
  Containers = {c1, c2}
  MaxOps = 3
  Kinds = {"backup", "restore", "reset", "prune", "remove"}
  Keep = 1
  MaxFaults = 1
CHECK_DEADLOCK FALSE
INVARIANTS BackupsInv VolumeKept
 
