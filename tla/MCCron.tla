------------------------------- MODULE MCCron -------------------------------
EXTENDS CronRunner, TLC

\* Executions and start requests are interchangeable.
Symmetry == Permutations(Runs) \cup Permutations(Callers)
=============================================================================
