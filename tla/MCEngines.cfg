CONSTANTS
  Runs = {r1, r2, r3}
  Callers = {c1, c2}
  MaxJobs = 4
  MaxStarts = 2
  MaxCrashes = 1
  Racing = FALSE
  Com_Releases = {r1, r2, r3}
  Com_Services = {"web", "store"}
  Com_Web = "web"
  Com_Layouts <- Layouts
  Com_Callers = {"request"}
  Com_MaxCalls = 4
  Com_MaxCrashes = 1
  Com_Base = "base"
  Com_None = "none"
SPECIFICATION SumSpec
SYMMETRY Symmetry
INVARIANTS
  TypeOK
  NoLeak
  RowsMatch
  ScheduleFollowsState
  
PROPERTIES
  ComposeServes
\* Runs and requests are bounded: the system comes to rest.
CHECK_DEADLOCK FALSE
