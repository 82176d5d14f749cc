----------------------------- MODULE BuildQueue -----------------------------
(***************************************************************************)
(* The in-process work queue of build/build-queue.ts (and, line for line,   *)
(* of backups/backup-queue.ts): jobs of one key run one after the other in  *)
(* the order they were enqueued, and at most MaxConcurrent jobs run at once. *)
(*                                                                         *)
(* The code keeps, per key, the tail of a promise chain, and a counting     *)
(* semaphore (active, waiters).  A job of the chain whose predecessor has   *)
(* settled calls acquire(); it gets a slot or parks a callback in waiters;  *)
(* release() frees the slot and hands it to the first waiter.  Between the  *)
(* settling of a job and the acquire() of its successor, and between the    *)
(* grant of a slot and the first line of the job, other promise callbacks   *)
(* run: these are separate actions here.                                    *)
(***************************************************************************)
EXTENDS Naturals, Sequences, FiniteSets

CONSTANTS
  Keys,           \* deployment ids (or backup targets)
  Jobs,           \* the calls of enqueue, each with its own task closure
  KeyOf,          \* the key each job is enqueued under
  MaxConcurrent   \* BUILD_CONCURRENCY / BACKUP_CONCURRENCY

ASSUME KeyOfAssumption == KeyOf \in [Jobs -> Keys]
ASSUME MaxConcurrentAssumption == MaxConcurrent \in Nat \ {0}

VARIABLES
  chain,     \* per key, the unsettled jobs of the promise chain, oldest first
  phase,     \* how far each job has got
  waiters,   \* jobs parked in acquire(), first come first
  active,    \* slots taken
  up         \* the process is alive

vars == <<chain, phase, waiters, active, up>>

Phases == {"new", "chained", "waiting", "granted", "running", "settled", "lost"}

TypeOK ==
  /\ chain \in [Keys -> Seq(Jobs)]
  /\ phase \in [Jobs -> Phases]
  /\ waiters \in Seq(Jobs)
  /\ active \in Nat
  /\ up \in BOOLEAN

Init ==
  /\ chain = [k \in Keys |-> <<>>]
  /\ phase = [j \in Jobs |-> "new"]
  /\ waiters = <<>>
  /\ active = 0
  /\ up = TRUE

\* Mutant: the previous tail is dropped instead of extended.
EnqueueDropsTail(j) ==
  /\ up
  /\ phase[j] = "new"
  /\ chain' = [chain EXCEPT ![KeyOf[j]] = <<j>>]
  /\ phase' = [phase EXCEPT ![j] = "chained"]
  /\ UNCHANGED <<waiters, active, up>>

(***************************************************************************)
(* enqueue: the job becomes the tail of its key's chain.                    *)
(***************************************************************************)
Enqueue(j) ==
  /\ up
  /\ phase[j] = "new"
  /\ chain' = [chain EXCEPT ![KeyOf[j]] = Append(@, j)]
  /\ phase' = [phase EXCEPT ![j] = "chained"]
  /\ UNCHANGED <<waiters, active, up>>

\* The predecessor of j has settled: j is the oldest unsettled job of its key.
ItsTurn(j) == chain[KeyOf[j]] # <<>> /\ Head(chain[KeyOf[j]]) = j

(***************************************************************************)
(* acquire: take a free slot, or park behind the jobs already waiting.      *)
(***************************************************************************)
TakeSlot(j) ==
  /\ active < MaxConcurrent
  /\ active' = active + 1
  /\ phase' = [phase EXCEPT ![j] = "granted"]
  /\ UNCHANGED waiters

Park(j) ==
  /\ active >= MaxConcurrent
  /\ waiters' = Append(waiters, j)
  /\ phase' = [phase EXCEPT ![j] = "waiting"]
  /\ UNCHANGED active

Acquire(j) ==
  /\ up
  /\ phase[j] = "chained"
  /\ ItsTurn(j)
  /\ TakeSlot(j) \/ Park(j)
  /\ UNCHANGED <<chain, up>>

\* The await in runWithLimit resumes and the task's first line runs.
Run(j) ==
  /\ up
  /\ phase[j] = "granted"
  /\ phase' = [phase EXCEPT ![j] = "running"]
  /\ UNCHANGED <<chain, waiters, active, up>>

\* Mutants of release: the slot is freed twice; the waiter's callback forgets
\* its own 1; the newest waiter is woken.
ReleaseSlotTwice(j) ==
  /\ active' = active - 2
  /\ phase' = [phase EXCEPT ![j] = "settled"]
  /\ UNCHANGED waiters

WakeWaiter(j, w, count, rest) ==
  IF waiters = <<>>
  THEN /\ active' = active - 1
       /\ phase' = [phase EXCEPT ![j] = "settled"]
       /\ UNCHANGED waiters
  ELSE /\ active' = count
       /\ phase' = [phase EXCEPT ![j] = "settled", ![w] = "granted"]
       /\ waiters' = rest

ReleaseSlotUncounted(j) == WakeWaiter(j, Head(waiters), active - 1, Tail(waiters))
ReleaseSlotNewest(j) ==
  WakeWaiter(j, waiters[Len(waiters)], active, SubSeq(waiters, 1, Len(waiters) - 1))

(***************************************************************************)
(* release: active - 1, then the first waiter's callback adds its own 1.    *)
(***************************************************************************)
ReleaseSlot(j) ==
  IF waiters = <<>>
  THEN /\ active' = active - 1
       /\ phase' = [phase EXCEPT ![j] = "settled"]
       /\ UNCHANGED waiters
  ELSE /\ active' = (active - 1) + 1
       /\ phase' = [phase EXCEPT ![j] = "settled", ![Head(waiters)] = "granted"]
       /\ waiters' = Tail(waiters)

Dequeue(j) == chain' = [chain EXCEPT ![KeyOf[j]] = Tail(@)]

\* The task's promise resolves.
Resolve(j) ==
  /\ up
  /\ phase[j] = "running"
  /\ ReleaseSlot(j)
  /\ Dequeue(j)
  /\ UNCHANGED up

\* Mutant: without the catch in enqueue the successors never start.
RejectBreaksChain(j) ==
  /\ up
  /\ phase[j] = "running"
  /\ Len(chain[KeyOf[j]]) > 1
  /\ ReleaseSlot(j)
  /\ UNCHANGED <<chain, up>>

\* The task's promise rejects and a successor has attached its catch.
RejectHandled(j) ==
  /\ up
  /\ phase[j] = "running"
  /\ Len(chain[KeyOf[j]]) > 1
  /\ ReleaseSlot(j)
  /\ Dequeue(j)
  /\ UNCHANGED up

\* The task rejects as the tail of its chain: nothing handles the rejection,
\* and Node ends the process, the queue's memory with it.
RejectUnhandled(j) ==
  /\ up
  /\ phase[j] = "running"
  /\ Len(chain[KeyOf[j]]) = 1
  /\ up' = FALSE
  /\ chain' = [k \in Keys |-> <<>>]
  /\ phase' = [i \in Jobs |->
                 IF i = j THEN "settled"
                 ELSE IF phase[i] \in {"new", "settled"} THEN phase[i] ELSE "lost"]
  /\ waiters' = <<>>
  /\ active' = 0

Settle(j) == Resolve(j) \/ RejectHandled(j) \/ RejectUnhandled(j)

Next ==
  \E j \in Jobs :
    \/ Enqueue(j)
    \/ Acquire(j)
    \/ Run(j)
    \/ Resolve(j)
    \/ RejectHandled(j)
    \/ RejectUnhandled(j)

Spec == Init /\ [][Next]_vars

(***************************************************************************)
(* Promise callbacks are always drained, and every task the code enqueues   *)
(* settles (its awaits end in a result, an error or a timeout).             *)
(***************************************************************************)
Fairness ==
  \A j \in Jobs : WF_vars(Acquire(j)) /\ WF_vars(Run(j)) /\ WF_vars(Settle(j))

FairSpec == Spec /\ Fairness

-----------------------------------------------------------------------------
Holders == {j \in Jobs : phase[j] \in {"granted", "running"}}
Running == {j \in Jobs : phase[j] = "running"}

\* "A deployment never builds concurrently with itself": two running jobs
\* never share a key (build-queue.ts:4).
OneRunnerPerKey ==
  \A i, j \in Running : KeyOf[i] = KeyOf[j] => i = j

\* "While capping total concurrency across deployments" (build-queue.ts:5).
CapRespected == Cardinality(Running) <= MaxConcurrent

\* No lost wake-up: a job is parked only while every slot is taken, and the
\* counter counts exactly the jobs that hold a slot (acquire and release are
\* two code paths that must agree about who adds the 1).
SlotsAccounted ==
  /\ active = Cardinality(Holders)
  /\ waiters # <<>> => active = MaxConcurrent

\* A waiter is never overtaken: a step that grants a slot to j while others
\* wait grants it to the first of them (acquire's fast path against release's
\* hand-over).
NoBarging ==
  [][\A j \in Jobs :
       (phase[j] \in {"chained", "waiting"} /\ phase'[j] = "granted"
          /\ waiters # <<>>) => j = Head(waiters)]_vars

\* Every job that is enqueued settles, whatever the jobs before it did, unless
\* an unhandled rejection takes the whole process down.  A job is enqueued once and
\* settled for good, so it is the same to say that again and again none is left.
Drained == \A j \in Jobs : phase[j] \in {"new", "settled"}
EveryJobSettles == []<>(Drained \/ ~up)

(***************************************************************************)
(* The inductive invariant behind these: a job beyond "chained" is the      *)
(* first of its chain, a chain holds each of its key's unsettled jobs once, *)
(* waiters holds each parked job once, and the slots are accounted for.     *)
(***************************************************************************)
InLine == {"chained", "waiting", "granted", "running"}

TurnInv ==
  \A j \in Jobs : phase[j] \in {"waiting", "granted", "running"} => ItsTurn(j)

ChainInv ==
  \A k \in Keys :
    /\ \A n \in 1..Len(chain[k]) :
         /\ KeyOf[chain[k][n]] = k
         /\ phase[chain[k][n]] \in InLine
         /\ n > 1 => phase[chain[k][n]] = "chained"
    /\ \A m, n \in 1..Len(chain[k]) : chain[k][m] = chain[k][n] => m = n

WaitersInv ==
  /\ \A n \in 1..Len(waiters) : phase[waiters[n]] = "waiting"
  /\ \A m, n \in 1..Len(waiters) : waiters[m] = waiters[n] => m = n

SlotInv ==
  /\ IsFiniteSet(Holders)
  /\ active = Cardinality(Holders)
  /\ active <= MaxConcurrent
  /\ waiters # <<>> => active = MaxConcurrent

\* Conjunction of the parts: what every reachable state of the queue satisfies,
\* and each step of build-queue.ts preserves.
QueueInv == TypeOK /\ TurnInv /\ ChainInv /\ WaitersInv /\ SlotInv

(***************************************************************************)
(* The queue implements the abstract executor.                              *)
(***************************************************************************)
Abs == INSTANCE SerialExecutor WITH line <- chain, running <- Running

Implements == Abs!Spec
=============================================================================
