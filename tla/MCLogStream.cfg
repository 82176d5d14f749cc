SPECIFICATION FairSpec
CONSTANTS
  v1 = v1  v2 = v2
  Viewers = {v1, v2}
  MaxLines = 2
  MaxAppends = 3
  MaxFaults = 1
CHECK_DEADLOCK FALSE
INVARIANTS LogInv
PROPERTIES ViewersEnd
