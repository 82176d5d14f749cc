CONSTANTS
  Releases = {r1, r2}
  Images = {i1}
  i1 = i1  i2 = i2  p1 = p1
  Containers = {c1, c2, c3}
  Callers = {p1, p2}
  Ops = {"deploy", "relaunch", "rollback", "stop", "delete", "teardown"}
  CrashOps = {"deploy", "relaunch", "rollback", "crash", "reboot", "vanish", "pingfails"}
  MaxCalls = 3
  MaxFaults = 0
  KeepImages = 1
  None = None
SPECIFICATION SumSpec
INVARIANTS
  SettledWhenIdle
  
PROPERTIES
  
  CrashSettles
\* The requests and faults are bounded: the system comes to rest.
CHECK_DEADLOCK FALSE
