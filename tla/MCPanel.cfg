CONSTANTS
  MaxOthers = 1
  MaxFaults = 1
  Btn_MaxClicks = 2
  Btn_MaxOthers = 1
  Ses_Callers = {"f1", "f2", "g"}
  Ses_TabOf <- TabOfCaller
  Ses_FirstTab = "A"
  Ses_MAX_ATTEMPTS = 2
  Ses_MaxTokens = 3
  Ses_MaxRare = 1
SPECIFICATION SumSpec
INVARIANTS
  QueryCacheInv
  
  SessionsInv
PROPERTIES
  QueuedWorkAppears
  
  LockoutEnds
\* Clicks, tokens and faults are bounded: the system comes to rest.
CHECK_DEADLOCK FALSE
