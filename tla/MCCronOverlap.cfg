CONSTANTS
  Runs = {r1, r2}
  Callers = {c1, c2}
  MaxJobs = 1
  MaxStarts = 0
  MaxCrashes = 0
  Racing = FALSE
SPECIFICATION Spec
SYMMETRY Symmetry
INVARIANTS
  NoOverlap
\* Runs and requests are bounded: the system comes to rest.
CHECK_DEADLOCK FALSE
