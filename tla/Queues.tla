------------------------------- MODULE Queues -------------------------------
(***************************************************************************)
(* BuildQueue, and in a part of its own VolumeHelper: the two places of the  *)
(* backend where callers share and wait for one another in memory.  They     *)
(* share no state: in each behaviour one of them acts.  The constants and     *)
(* variables of VolumeHelper carry the name of its instance.                 *)
(***************************************************************************)
EXTENDS BuildQueue

CONSTANTS Hlp_MaxOps, Hlp_Volumes, Hlp_Named, Hlp_MaxDeaths, Hlp_None

VARIABLES
  part,  \* the component that acts
  Hlp_op, Hlp_entry, Hlp_helpers, Hlp_con, Hlp_reaping, Hlp_deaths

Hlp == INSTANCE VolumeHelper WITH MaxOps <- Hlp_MaxOps, Volumes <- Hlp_Volumes,
  Named <- Hlp_Named, MaxDeaths <- Hlp_MaxDeaths, None <- Hlp_None, op <- Hlp_op,
  entry <- Hlp_entry, helpers <- Hlp_helpers, con <- Hlp_con, reaping <- Hlp_reaping,
  deaths <- Hlp_deaths

ASSUME HelperConstants == Hlp!HelperAssumption

helperVars == <<Hlp_op, Hlp_entry, Hlp_helpers, Hlp_con, Hlp_reaping, Hlp_deaths>>
allVars == <<part, vars, helperVars>>

SumInit == part \in {"queue", "helper"} /\ Init /\ Hlp!Init
SumNext ==
  \/ part = "queue" /\ Next /\ UNCHANGED <<part, helperVars>>
  \/ part = "helper" /\ Hlp!Next /\ UNCHANGED <<part, vars>>
\* The fairness of the two modules; a job can do one of its three steps at a time.
SumFairness ==
  /\ \A j \in Jobs : WF_vars(part = "queue" /\ (Acquire(j) \/ Run(j) \/ Settle(j)))
  /\ \A o \in Hlp!Ops : WF_helperVars(part = "helper" /\
       (Hlp!Inspect(o) \/ Hlp!Alive(o) \/ Hlp!Dead(o) \/ Hlp!MakeHelper(o) \/ Hlp!Finish(o)))
  /\ \A v \in Hlp_Volumes : WF_helperVars(part = "helper" /\ Hlp!Reap(v))
  /\ WF_helperVars(part = "helper" /\ Hlp!ReapRemove)
  /\ WF_helperVars(part = "helper" /\ Hlp!Age)
SumSpec == SumInit /\ [][SumNext]_allVars /\ SumFairness

(* Module VolumeHelper: a cached helper counts no more operations than run on its volume, an entry *)
(* that is being acquired has its creation, and an operation works in a container of its volume. *)
HelpersCount == part = "helper" => Hlp!HelpersCount

(* Module VolumeHelper: every operation ends, and a helper that is not used leaves the cache. *)
HelpersEnd == Hlp!OpsEnd /\ Hlp!IdleIsReaped
=============================================================================
