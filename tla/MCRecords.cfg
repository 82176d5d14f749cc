CONSTANTS
  Acc_Users = {"u1", "u2", "u3"}
  Acc_Emails = {"seed", "e2", "e3"}
  Acc_SeedEmail = "seed"
  Acc_Requests = {"r1", "r2"}
  Acc_MaxOps = 3
  Dom_Ids = {"d1", "d2", "d3"}
  Dom_Bindings = {"b1", "b2"}
  Dom_Ports = {1, 2}
  Dom_Requests = {"r1", "r2"}
  Dom_MaxOps = 5
  Dns_Names = {"a", "b"}
  Dns_Requests = {"r1", "r2"}
  Dns_MaxIds = 3
  Dns_MaxOps = 5
  Sec_EnvVars = {"a", "b"}
  Sec_Texts = {"x", "y"}
  Sec_Requests = {"q1", "q2"}
  Sec_MaxOps = 3
  Edi_Users = {"u1", "u2"}
  Edi_MaxOps = 3
  Del_Deliveries = {"d1", "d2"}
  Del_Requests = {"q1", "q2"}
  Del_MaxSends = 3
  Del_MaxFaults = 2
  Sch_Ids = {"s1", "s2"}
  Sch_Requests = {"q1", "q2"}
  Sch_MaxOps = 4
  Sch_MaxTicks = 2
  Sch_MaxFaults = 1
  Fil_Names = {"d", "f", "g"}
  Fil_Texts = {"", "x", "y"}
  Fil_Start <- StartVolume
  Fil_Slots = {1}
  Fil_MaxOps = 3
SPECIFICATION SumSpec
INVARIANTS
  AccountsInv
  DomainsInv
  
  SecretsInv
  EditsInv
  IntakeInv
  SchedulesInv
  
\* What users do and what fails is bounded: the system comes to rest.
CHECK_DEADLOCK FALSE
