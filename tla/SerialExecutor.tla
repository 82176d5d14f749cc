--------------------------- MODULE SerialExecutor ---------------------------
(***************************************************************************)
(* What a caller of the work queue may rely on: the jobs of one key form a  *)
(* line, only the first of a line runs, at most MaxConcurrent run at once,  *)
(* and a job that ends leaves its line.  How slots are handed over, who     *)
(* waits where, and when promise callbacks run is of no concern here.       *)
(***************************************************************************)
EXTENDS Naturals, Sequences, FiniteSets

CONSTANTS Keys, Jobs, KeyOf, MaxConcurrent

VARIABLES
  line,      \* per key, the jobs submitted and not ended, oldest first
  running,   \* the jobs that have begun and not ended
  up

absVars == <<line, running, up>>

First(j) == line[KeyOf[j]] # <<>> /\ Head(line[KeyOf[j]]) = j

AbsInit ==
  /\ line = [k \in Keys |-> <<>>]
  /\ running = {}
  /\ up = TRUE

Submit(j) ==
  /\ up
  /\ line' = [line EXCEPT ![KeyOf[j]] = Append(@, j)]
  /\ UNCHANGED <<running, up>>

Begin(j) ==
  /\ up
  /\ First(j)
  /\ j \notin running
  /\ Cardinality(running) < MaxConcurrent
  /\ running' = running \union {j}
  /\ UNCHANGED <<line, up>>

End(j) ==
  /\ up
  /\ j \in running
  /\ running' = running \ {j}
  /\ line' = [line EXCEPT ![KeyOf[j]] = Tail(@)]
  /\ UNCHANGED up

Die ==
  /\ up
  /\ up' = FALSE
  /\ running' = {}
  /\ line' = [k \in Keys |-> <<>>]

AbsNext == Die \/ \E j \in Jobs : Submit(j) \/ Begin(j) \/ End(j)

\* The task of a running job ends, or takes the process down with it.
Conclude(j) == j \in running /\ (End(j) \/ Die)

\* The safety half, and the promise that a line never stands still.
Safety == AbsInit /\ [][AbsNext]_absVars

Spec ==
  /\ Safety
  /\ \A j \in Jobs : SF_absVars(Begin(j)) /\ WF_absVars(Conclude(j))
=============================================================================
