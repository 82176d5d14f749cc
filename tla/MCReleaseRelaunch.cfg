CONSTANTS
  Releases = {r1, r2}
  Images = {i1}
  Containers = {c1, c2, c3}
  Callers = {p1}
  Ops = {"deploy", "relaunch"}
  MaxCalls = 2
  MaxFaults = 0
  KeepImages = 1
  None = None
SPECIFICATION Spec
PROPERTIES
  SwapKeepsServing
\* The requests are bounded: the system comes to rest.
CHECK_DEADLOCK FALSE
