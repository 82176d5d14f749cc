SPECIFICATION Spec
CONSTANTS
  r1 = r1  r2 = r2  r3 = r3  web = web  store = store  c1 = c1
  Releases = {r1, r2, r3}
  Services = {web, store}
  Web = web
  Layouts <- Eligible1
  Callers = {c1}
  MaxCalls = 3
  MaxCrashes = 0
  Base = Base
  None = None
SYMMETRY Sym
CHECK_DEADLOCK FALSE
INVARIANTS TrafficReachesActive
