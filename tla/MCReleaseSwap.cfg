CONSTANTS
  Releases = {r1, r2, r3}
  Images = {i1, i2}
  Containers = {c1, c2, c3, c4}
  Callers = {p1, p2}
  Ops = {"deploy", "relaunch", "rollback", "stop", "startfails"}
  MaxCalls = 4
  MaxFaults = 0
  KeepImages = 1
  None = None
SPECIFICATION SwapSpec
SYMMETRY Symmetry

  
PROPERTIES
  GreenBeforeBlue
\* The requests are bounded: the system comes to rest.
CHECK_DEADLOCK FALSE
