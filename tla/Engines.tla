------------------------------ MODULE Engines ------------------------------
(***************************************************************************)
(* CronRunner, and in a part of its own ComposeRelease: the two kinds of       *)
(* deployment that module ReleaseLifecycle does not cover.  They share no       *)
(* state: in each behaviour one of them acts.  The constants and variables of    *)
(* ComposeRelease carry the name of its instance; what they are is said there.   *)
(***************************************************************************)
EXTENDS CronRunner

CONSTANTS
  Com_Releases, Com_Services, Com_Web, Com_Layouts, Com_Callers, Com_MaxCalls, Com_MaxCrashes,
  Com_Base, Com_None

(* The base project and "none" are no release; the routed service is one of the file's, and a     *)
(* layout is a set of them.                                                                       *)
ASSUME ComposeAssumption ==
  /\ Com_Base \notin Com_Releases /\ Com_None \notin Com_Releases /\ Com_Base # Com_None
  /\ Com_Web \in Com_Services /\ Com_Layouts \subseteq SUBSET Com_Services
  /\ Com_MaxCalls \in Nat /\ Com_MaxCrashes \in Nat

VARIABLES
  part,  \* the component that acts
  Com_state, Com_active, Com_rel, Com_copy, Com_order, Com_queue, Com_job, Com_pc, Com_call,
  Com_issued, Com_crashes

Com == INSTANCE ComposeRelease WITH Releases <- Com_Releases, Services <- Com_Services,
  Web <- Com_Web, Layouts <- Com_Layouts, Callers <- Com_Callers, MaxCalls <- Com_MaxCalls,
  MaxCrashes <- Com_MaxCrashes, Base <- Com_Base, None <- Com_None, state <- Com_state,
  active <- Com_active, rel <- Com_rel, copy <- Com_copy, order <- Com_order, queue <- Com_queue,
  job <- Com_job, pc <- Com_pc, call <- Com_call, issued <- Com_issued, crashes <- Com_crashes

composeVars == <<Com_state, Com_active, Com_rel, Com_copy, Com_order, Com_queue, Com_job, Com_pc,
  Com_call, Com_issued, Com_crashes>>
allVars == <<part, vars, composeVars>>

Parts == {"cron", "compose"}
SumInit == part \in Parts /\ Init /\ Com!Init
SumNext ==
  \/ part = "cron" /\ Next
     /\ UNCHANGED <<part, composeVars>>
  \/ part = "compose" /\ Com!Next
     /\ UNCHANGED <<part, vars>>
SumSpec == SumInit /\ [][SumNext]_allVars

(* Module ComposeRelease: the type invariant, RunningMeansWhole and NothingLeftUp. *)
ComposeInv == part = "compose" => Com!TypeOK /\ Com!RunningMeansWhole /\ Com!NothingLeftUp

(* Module ComposeRelease: a deploy spares the release that serves until the cut-over, and the      *)
(* routed service answers through every deploy that keeps its layout. *)
ComposeServes == Com!BlueKept /\ Com!WebThroughDeploy

=============================================================================
