CONSTANTS
  Keys <- MCKeys
  Jobs <- MCJobs
  KeyOf <- MCKeyOf
  MaxConcurrent = 2
  data = data
  data2 = data2
  Hlp_Volumes = {data, data2}
  Hlp_Named <- NamePrefix
  Hlp_MaxOps = 3
  Hlp_MaxDeaths = 1
  Hlp_None = None
SPECIFICATION SumSpec
INVARIANTS
  TypeOK
  SlotsAccounted
  HelpersCount
PROPERTIES
  NoBarging
  EveryJobSettles
  Implements
  HelpersEnd
\* Jobs and operations are finite: the system stops when all have settled, or when
\* the process has died.
CHECK_DEADLOCK FALSE
