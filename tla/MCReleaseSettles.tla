------------------------- MODULE MCReleaseSettles -------------------------
(***************************************************************************)
(* Two instances of ReleaseLifecycle over the same variables: requests of    *)
(* every kind that overlap (live), and one request at a time with crashes,    *)
(* reboots and removals behind Willy's back (crashing).  The invariants hold   *)
(* of both.                                                                   *)
(***************************************************************************)
EXTENDS ReleaseLifecycle

CONSTANTS i1, i2, p1, CrashOps

VARIABLE part  \* the instance that acts

Crashing == INSTANCE ReleaseLifecycle WITH
  Images <- {i1, i2}, Ops <- CrashOps, MaxCalls <- 2, MaxFaults <- 2

SumInit == \/ part = "live" /\ Init
           \/ part = "crashing" /\ Crashing!Init
SumNext ==
  \/ part = "live" /\ Next /\ UNCHANGED part
  \/ /\ part = "crashing" /\ Crashing!Next /\ UNCHANGED part
     /\ \A c \in Callers \ {p1} : call'[c] = NoCall
SumSpec ==
  /\ SumInit /\ [][SumNext]_<<part, vars>>
  /\ WF_vars(part = "live" /\ RunJob)
  /\ \A c \in Callers : WF_vars(part = "live" /\ Continue(c))
  /\ WF_vars(part = "crashing" /\ Crashing!RunJob)
  /\ WF_vars(part = "crashing" /\ Crashing!Continue(p1))
  /\ WF_vars(part = "crashing" /\ Crashing!Boot)

(* Without crashes DEPLOYING ends. *)
LiveDeployingEnds == part = "live" => DeployingEnds

(* After a crash every release reaches a final status, and boot brings the active one back. *)
CrashSettles == part = "crashing" => Crashing!ReleaseSettles /\ Crashing!BootRestores
=============================================================================
