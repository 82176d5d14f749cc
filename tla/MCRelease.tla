----------------------------- MODULE MCRelease ------------------------------
EXTENDS ReleaseLifecycle, TLC

\* The steps of deploy, restart, rollback and stop: no faults, and nothing works beside the queue.
SwapNext ==
  \/ \E c \in Callers :
       \/ DeployRead(c) \/ StartRead(c) \/ RollbackRead(c) \/ Stop(c)
       \/ DeployCreate(c) \/ Mark(c) \/ Enqueue(c)
  \/ RunJob
SwapSpec == Init /\ [][SwapNext]_vars

\* Ids are interchangeable in the runs that check no liveness property.
Symmetry == Permutations(Releases) \cup Permutations(Containers) \cup Permutations(Callers)
=============================================================================
