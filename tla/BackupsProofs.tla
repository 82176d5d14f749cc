---------------------------- MODULE BackupsProofs ----------------------------
(***************************************************************************)
(* Proofs about Backups for every set of containers, any number of requests   *)
(* of every kind, any retention and any number of faults.                    *)
(***************************************************************************)
EXTENDS Backups, TLAPS, FiniteSetTheorems, SequenceTheorems, WellFoundedInduction

USE BackupsAssumption

(***************************************************************************)
(* The inductive invariant.  What each operation is at, by its progress.     *)
(***************************************************************************)
OpInv ==
  \A i \in Ops :
    /\ op[i].at = "new" => op[i].kind = "none" /\ op[i].task = "none" /\ helper[i] = "none"
    /\ op[i].kind = "backup" => op[i].of = i
    /\ op[i].kind \in {"restore", "remove"} => op[i].of \in Ops /\ op[op[i].of].kind = "backup"
    /\ op[i].at = "asked" => op[i].kind \in Tracked \cup {"remove"} /\ op[i].task = "none"
    /\ op[i].at = "unlinked" => op[i].kind = "remove"
    /\ op[i].at = "queued" =>
         \/ op[i].kind \in Tracked /\ op[i].task = "PENDING"
         \/ op[i].kind = "prune" /\ op[i].task = "none"
    /\ op[i].at = "running" =>
         \/ op[i].kind \in Tracked /\ op[i].task = "RUNNING"
         \/ op[i].kind = "prune" /\ op[i].task = "none"

\* The helper of an operation exists from its turn on.
HelperInv ==
  \A i \in Ops :
    /\ op[i].at \notin {"running", "over"} => helper[i] = "none"
    /\ helper[i] # "none" => op[i].kind \in Tracked
    /\ helper[i] = "wiping" => op[i].kind \in {"restore", "reset"}
    /\ helper[i] = "working" => op[i].kind \in {"backup", "restore"}

\* What waits has not begun, and waits once.
QueueInv ==
  /\ \A n \in 1..Len(queue) : op[queue[n]].at = "queued"
  /\ \A m, n \in 1..Len(queue) : queue[m] = queue[n] => m = n

\* Which operation the job that runs belongs to, and how its helper has ended.
JobInv ==
  /\ job.pc = "idle" => job.op = 0
  /\ job.pc # "idle" => job.op \in Ops /\ op[job.op].at = "running"
  /\ \A i \in Ops : op[i].at = "running" => job.op = i
  /\ job.pc \in {"mark", "record", "rowfailed"} => op[job.op].kind = "backup"
  /\ job.pc \in {"list", "stop", "start"} => op[job.op].kind \in {"restore", "reset"}
  /\ job.pc \in {"run", "wait", "settle"} => op[job.op].kind \in Tracked
  /\ job.pc \in {"select", "prune", "unlinked"} => op[job.op].kind = "prune"
  /\ job.pc \in {"mark", "list", "stop", "run"} => helper[job.op] = "none"
  /\ job.pc = "record" => helper[job.op] = "ok" /\ job.ok
  /\ job.pc = "start" /\ job.ok => helper[job.op] = "ok"
  /\ job.pc = "rowfailed" => ~job.ok
  /\ job.pc = "unlinked" => job.doomed # {}

\* The row of a backup follows its job; whoever finds it deleted leaves it so.
RowInv ==
  \A b \in Ops :
    /\ op[b].kind # "backup" <=> row[b] = "none"
    /\ op[b].kind = "backup" =>
         /\ op[b].at \in {"asked", "queued"} => row[b] \in {"PENDING", "deleted"}
         /\ op[b].at = "running" =>
              /\ job.pc = "mark" => row[b] \in {"PENDING", "deleted"}
              /\ job.pc \in {"run", "wait", "record", "rowfailed"} => row[b] \in {"RUNNING", "deleted"}
              /\ job.pc = "settle" /\ job.ok => row[b] \in {"SUCCESS", "deleted"}
              /\ job.pc = "settle" /\ ~job.ok => row[b] \in {"FAILED", "deleted"}
         /\ op[b].at = "over" =>
              /\ op[b].task = "SUCCESS" => row[b] \in {"SUCCESS", "deleted"}
              /\ row[b] = "SUCCESS" => op[b].task = "SUCCESS" \/ restarts # 0
              /\ row[b] = "FAILED" => op[b].task = "FAILED"

\* Only archives of finished backups are taken away, and a backup is finished with
\* its archive in place.
ChosenInv ==
  /\ \A i \in Ops : op[i].loc => op[i].kind = "remove" /\ row[op[i].of] \in {"SUCCESS", "deleted"}
  /\ \A b \in job.doomed : row[b] \in {"SUCCESS", "deleted"}

MadeInv == \A b \in Ops : row[b] = "RUNNING" /\ helper[b] = "ok" => art[b] \notin {"none", "partial"}

BookInv == TypeOK /\ restarts <= faults /\ OpInv /\ HelperInv /\ QueueInv /\ JobInv /\ RowInv
           /\ ChosenInv /\ MadeInv /\ SuccessHasArtifact

Held == job.pc \in {"run", "wait", "start"} /\ op[job.op].kind \in {"restore", "reset"}

\* Without a fault: from stopping to starting all containers are down, and the one
\* helper at work is that of the job.
VolumeInv ==
  faults = 0 =>
    /\ job.pc = "stop" => job.ids = Containers
    /\ Held => job.ids = Containers /\ \A c \in Containers : ~con[c].up
    /\ ~Held => \A c \in Containers : con[c].ran => con[c].up
    /\ \A i \in Ops : helper[i] \in {"wiping", "working"} => i = job.op /\ job.pc = "wait"
    /\ job.pc \in {"wait", "start"} /\ op[job.op].kind = "restore" /\ helper[job.op] = "ok" =>
         art[op[job.op].of] \in {vol, "none"}

\* A non-empty set of operations has a newest one.
LEMMA NewestExists ==
  ASSUME NEW S \in SUBSET Ops, S # {}
  PROVE  Newest(S) \in S
<1> DEFINE From(x) == {y \in S : x <= y}
           T == {From(x) : x \in S}
           R == StrictSubsetOrdering(S)
<1>1. T \subseteq FiniteSubsetsOf(S) /\ T # {}
  <2>1. IsFiniteSet(Ops)
    BY FS_Interval DEF Ops
  <2>2. IsFiniteSet(S)
    BY <2>1, FS_Subset
  <2>3. \A x \in S : IsFiniteSet(From(x)) /\ From(x) \subseteq S
    BY <2>2, FS_Subset
  <2>4. QED
    BY <2>3 DEF FiniteSubsetsOf
<1>2. IsWellFoundedOn(R, FiniteSubsetsOf(S))
  BY FS_StrictSubsetOrderingWellFounded
<1>3. PICK U \in T : \A V \in T : ~(<<V, U>> \in R)
  <2> HIDE DEF T, R
  <2>1. QED
    BY <1>1, <1>2, WFMin
<1>4. PICK b \in S : U = From(b)
  BY <1>3
<1>5. ASSUME NEW x \in S, ~(x <= b) PROVE FALSE
  <2>1. From(x) \in T
    OBVIOUS
  <2>2. \A y \in S : y \in Nat
    BY DEF Ops
  <2>3. b < x
    BY <1>5, <2>2
  <2>4. From(x) \subseteq From(b)
    BY <2>2, <2>3
  <2>5. b \in From(b) /\ b \notin From(x)
    BY <2>2, <2>3
  <2>6. <<From(x), U>> \in R
    BY <2>4, <2>5, <1>4 DEF StrictSubsetOrdering
  <2>7. QED
    BY <1>3, <2>1, <2>6
<1>6. QED
  BY <1>5 DEF Newest

\* The job at the head is queued, and what is left behind it is another's.
LEMMA HeadOfQueue ==
  ASSUME TypeOK, QueueInv, queue # <<>>
  PROVE  /\ Head(queue) \in Ops /\ op[Head(queue)].at = "queued"
         /\ Len(Tail(queue)) = Len(queue) - 1
         /\ \A n \in 1..Len(Tail(queue)) : Tail(queue)[n] = queue[n + 1] /\ Tail(queue)[n] # Head(queue)
<1> queue \in Seq(Ops)
  BY DEF TypeOK
<1>1. Len(queue) \in Nat /\ Len(queue) > 0 /\ Head(queue) = queue[1]
  BY EmptySeq
<1>2. \A n \in 1..Len(Tail(queue)) : Tail(queue)[n] = queue[n + 1]
  BY HeadTailProperties
<1>3. Len(Tail(queue)) = Len(queue) - 1
  BY HeadTailProperties
<1>4. queue[1] \in Ops
  BY <1>1
<1>5. QED
  BY <1>1, <1>2, <1>3, <1>4 DEF QueueInv

LEMMA AskPruneBook ==
  ASSUME BookInv, TypeOK', NEW i \in Ops, AskPrune(i)
  PROVE  BookInv'
<1> DEFINE o == [NoOp EXCEPT !.kind = "prune", !.of = 0, !.at = "queued",
                             !.loc = "prune" = "remove" /\ row[0] = "SUCCESS"]
<1>1. /\ op[i].at = "new" /\ UNCHANGED <<db, vol, con, job, helper, restarts, faults>>
      /\ queue' = Append(queue, i)
  BY DEF AskPrune, Ask
<1>2. /\ op'[i].kind = "prune" /\ op'[i].at = "queued" /\ op'[i].task = "none" /\ op'[i].loc = FALSE
      /\ \A j \in Ops \ {i} : op'[j] = op[j]
  <2>1. op' = [op EXCEPT ![i] = o]
    BY DEF AskPrune, Ask
  <2>2. o.kind = "prune" /\ o.at = "queued" /\ o.task = "none" /\ o.loc = FALSE
    BY DEF NoOp
  <2> HIDE DEF o
  <2>3. QED
    BY <2>1, <2>2 DEF BookInv, TypeOK
<1>3. OpInv' /\ HelperInv'
  BY <1>1, <1>2 DEF BookInv, OpInv, HelperInv, Tracked
<1>4. QueueInv'
  <2>1. queue \in Seq(Ops) /\ Len(queue) \in Nat
    BY DEF BookInv, TypeOK
  <2>2. Len(queue') = Len(queue) + 1 /\ queue'[Len(queue) + 1] = i
    BY <1>1, <2>1
  <2>3. \A n \in 1..Len(queue) : queue'[n] = queue[n] /\ queue[n] \in Ops /\ queue[n] # i
    BY <1>1, <2>1 DEF BookInv, QueueInv
  <2>4. \A n \in 1..Len(queue') : n = Len(queue) + 1 \/ n \in 1..Len(queue)
    BY <2>1, <2>2
  <2>5. QED
    BY <1>2, <2>2, <2>3, <2>4 DEF BookInv, QueueInv
<1>5. JobInv'
  BY <1>1, <1>2 DEF BookInv, JobInv
<1>6. RowInv'
  BY <1>1, <1>2 DEF BookInv, RowInv, OpInv, db
<1>7. ChosenInv' /\ MadeInv' /\ SuccessHasArtifact' /\ (restarts <= faults)'
  BY <1>1, <1>2 DEF BookInv, ChosenInv, MadeInv, SuccessHasArtifact, Removing, OpInv, db
<1> QED
  BY <1>3, <1>4, <1>5, <1>6, <1>7 DEF BookInv

LEMMA RemoveFileBook ==
  ASSUME BookInv, TypeOK', NEW i \in Ops, RemoveFile(i)
  PROVE  BookInv'
<1>1. /\ op[i].at = "asked" /\ op[i].kind = "remove"
      /\ art' = IF op[i].loc THEN [art EXCEPT ![op[i].of] = "none"] ELSE art
      /\ UNCHANGED <<row, vol, con, queue, job, helper, restarts, faults>>
  BY DEF RemoveFile
<1>2. /\ \A j \in Ops : /\ op'[j].kind = op[j].kind /\ op'[j].of = op[j].of
                        /\ op'[j].task = op[j].task /\ op'[j].loc = op[j].loc
      /\ op'[i].at = "unlinked" /\ \A j \in Ops \ {i} : op'[j].at = op[j].at
  BY DEF RemoveFile, BookInv, TypeOK
<1>3. \A b \in Ops : art'[b] = art[b] \/ (op[i].of = b /\ row[b] \in {"SUCCESS", "deleted"})
  BY <1>1 DEF BookInv, ChosenInv, TypeOK
<1>4. OpInv' /\ HelperInv' /\ JobInv' /\ RowInv' /\ ChosenInv' /\ (restarts <= faults)'
  BY <1>1, <1>2 DEF BookInv, OpInv, HelperInv, JobInv, RowInv, ChosenInv
<1>5. QueueInv'
  <2>1. \A n \in 1..Len(queue) : queue[n] \in Ops /\ queue[n] # i
    BY <1>1 DEF BookInv, QueueInv, TypeOK
  <2>2. QED
    BY <1>1, <1>2, <2>1 DEF BookInv, QueueInv
<1>6. MadeInv'
  BY <1>1, <1>3 DEF BookInv, MadeInv
<1>7. SuccessHasArtifact'
  <2> SUFFICES ASSUME NEW b \in Ops, row'[b] = "SUCCESS", ~Removing(b)', restarts' = 0
               PROVE  art'[b] \notin {"none", "partial"}
    BY DEF SuccessHasArtifact
  <2>1. ~Removing(b) /\ op[i].of # b
    BY <1>1, <1>2 DEF Removing
  <2>2. QED
    BY <1>1, <1>3, <2>1 DEF BookInv, SuccessHasArtifact
<1> QED
  BY <1>4, <1>5, <1>6, <1>7 DEF BookInv

LEMMA RemoveRowBook ==
  ASSUME BookInv, TypeOK', NEW i \in Ops, RemoveRow(i)
  PROVE  BookInv'
<1>1. /\ op[i].at = "unlinked" /\ op[i].kind = "remove" /\ op[i].of \in Ops
      /\ UNCHANGED <<art, vol, con, queue, job, helper, restarts, faults>>
  BY DEF RemoveRow, BookInv, OpInv
<1>2. /\ \A j \in Ops : /\ op'[j].kind = op[j].kind /\ op'[j].of = op[j].of
                        /\ op'[j].task = op[j].task /\ op'[j].loc = op[j].loc
      /\ op'[i].at = "over" /\ \A j \in Ops \ {i} : op'[j].at = op[j].at
  BY DEF RemoveRow, BookInv, TypeOK
<1>3. row'[op[i].of] = "deleted" /\ \A b \in Ops \ {op[i].of} : row'[b] = row[b]
  BY <1>1 DEF RemoveRow, BookInv, TypeOK
<1>4. op[op[i].of].kind = "backup"
  BY <1>1 DEF BookInv, OpInv
<1>5. OpInv' /\ HelperInv' /\ JobInv' /\ (restarts <= faults)'
  BY <1>1, <1>2 DEF BookInv, OpInv, HelperInv, JobInv, Tracked
<1>6. QueueInv'
  <2>1. \A n \in 1..Len(queue) : queue[n] \in Ops /\ queue[n] # i
    BY <1>1 DEF BookInv, QueueInv, TypeOK
  <2>2. QED
    BY <1>1, <1>2, <2>1 DEF BookInv, QueueInv
<1>7. RowInv'
  BY <1>1, <1>2, <1>3, <1>4 DEF BookInv, RowInv
<1>8. ChosenInv' /\ MadeInv'
  <2>1. \A b \in Ops : row'[b] \in {row[b], "deleted"}
    BY <1>3
  <2>2. \A j \in Ops : op'[j].loc => op'[j].kind = "remove" /\ row'[op'[j].of] \in {"SUCCESS", "deleted"}
    BY <1>2, <2>1 DEF BookInv, ChosenInv, OpInv
  <2>3. \A b \in job'.doomed : row'[b] \in {"SUCCESS", "deleted"}
    BY <1>1, <2>1 DEF BookInv, ChosenInv, TypeOK
  <2>4. QED
    BY <1>1, <2>1, <2>2, <2>3 DEF BookInv, ChosenInv, MadeInv
<1>9. SuccessHasArtifact'
  BY <1>1, <1>2, <1>3 DEF BookInv, SuccessHasArtifact, Removing
<1> QED
  BY <1>5, <1>6, <1>7, <1>8, <1>9 DEF BookInv

LEMMA TakeJobBook ==
  ASSUME BookInv, TypeOK', TakeJob
  PROVE  BookInv'
<1> DEFINE i == Head(queue)
<1>1. /\ job.pc = "idle" /\ queue # <<>> /\ queue' = Tail(queue)
      /\ job' = [NoJob EXCEPT !.op = i, !.pc = CASE op[i].kind = "backup" -> "mark"
                                                [] op[i].kind = "prune" -> "select"
                                                [] OTHER -> "list"]
      /\ op' = [op EXCEPT ![i].at = "running", ![i].task = IF @ = "none" THEN @ ELSE "RUNNING"]
      /\ UNCHANGED <<db, vol, con, helper, restarts, faults>>
  BY DEF TakeJob, At
<1>2. /\ i \in Ops /\ op[i].at = "queued"
      /\ Len(Tail(queue)) = Len(queue) - 1
      /\ \A n \in 1..Len(Tail(queue)) : Tail(queue)[n] = queue[n + 1] /\ Tail(queue)[n] # i
  BY <1>1, HeadOfQueue DEF BookInv
<1> HIDE DEF i
<1>3. /\ job'.op = i /\ job'.doomed = {} /\ job'.ok = TRUE
      /\ op[i].kind = "backup" => job'.pc = "mark"
      /\ op[i].kind = "prune" => job'.pc = "select"
      /\ op[i].kind \notin {"backup", "prune"} => job'.pc = "list"
  BY <1>1 DEF NoJob
<1>4. /\ \A j \in Ops : op'[j].kind = op[j].kind /\ op'[j].of = op[j].of /\ op'[j].loc = op[j].loc
      /\ op'[i].at = "running" /\ op'[i].task = IF op[i].task = "none" THEN "none" ELSE "RUNNING"
      /\ \A j \in Ops \ {i} : op'[j].at = op[j].at /\ op'[j].task = op[j].task
  BY <1>1, <1>2 DEF BookInv, TypeOK
<1>5. job.pc = "idle" /\ queue' = Tail(queue) /\ UNCHANGED <<row, art, helper, restarts, faults>>
  BY <1>1 DEF db
<1>6. \A j \in Ops : op[j].at # "running"
  BY <1>1 DEF BookInv, JobInv, Ops
<1>7. OpInv' /\ HelperInv'
  BY <1>5, <1>2, <1>4 DEF BookInv, OpInv, HelperInv, Tracked
<1>8. QueueInv'
  <2>1. queue \in Seq(Ops) /\ Len(queue) \in Nat
    BY DEF BookInv, TypeOK
  <2>2. \A n \in 1..Len(Tail(queue)) : n + 1 \in 1..Len(queue) /\ queue[n + 1] \in Ops
    BY <2>1, <1>2
  <2>3. ASSUME NEW n \in 1..Len(queue') PROVE op'[queue'[n]].at = "queued"
    <3>1. queue'[n] = queue[n + 1] /\ queue'[n] # i /\ n + 1 \in 1..Len(queue) /\ queue[n + 1] \in Ops
      BY <1>2, <1>5, <2>2
    <3>2. op[queue[n + 1]].at = "queued"
      BY <3>1 DEF BookInv, QueueInv
    <3>3. QED
      BY <1>4, <3>1, <3>2
  <2>4. ASSUME NEW m \in 1..Len(queue'), NEW n \in 1..Len(queue'), queue'[m] = queue'[n]
        PROVE  m = n
    <3>1. m + 1 = n + 1
      BY <1>5, <1>2, <2>2, <2>4 DEF BookInv, QueueInv
    <3>2. QED
      BY <3>1, <1>5, <1>2, <2>1
  <2>5. QED
    BY <2>3, <2>4 DEF QueueInv
<1>9. JobInv'
  <2>1. op[i].kind \in {"backup", "restore", "reset", "prune"} /\ helper[i] = "none"
    BY <1>2 DEF BookInv, OpInv, HelperInv, Tracked
  <2>2. job'.pc \in {"mark", "select", "list"}
    BY <1>3
  <2>3. QED
    BY <1>2, <1>3, <1>4, <1>6, <1>5, <2>1, <2>2 DEF JobInv
<1>10. RowInv'
  BY <1>5, <1>2, <1>3, <1>4, <1>6 DEF BookInv, RowInv
<1>11. ChosenInv' /\ MadeInv' /\ (restarts <= faults)'
  BY <1>5, <1>3, <1>4 DEF BookInv, ChosenInv, MadeInv
<1>12. SuccessHasArtifact'
  BY <1>2, <1>4, <1>5 DEF BookInv, SuccessHasArtifact, Removing
<1> QED
  BY <1>7, <1>8, <1>9, <1>10, <1>11, <1>12 DEF BookInv

LEMMA ListUsersBook ==
  ASSUME BookInv, TypeOK', ListUsers
  PROVE  BookInv'
<1>1. job.pc = "list" /\ UNCHANGED <<op, row, art, vol, con, queue, helper, restarts, faults>>
  BY DEF ListUsers, At, db
<1>2. job'.op = job.op /\ job'.doomed = job.doomed /\ job'.pc \in {"stop", "settle"}
  <2>1. job \in [op : 0..MaxOps, pc : Pcs, ids : SUBSET Containers, ok : BOOLEAN, doomed : SUBSET Ops]
    BY DEF BookInv, TypeOK
  <2>2. CASE job' = [job EXCEPT !.pc = "stop", !.ids = Containers]
    BY <2>1, <2>2
  <2>3. CASE job' = [job EXCEPT !.pc = "settle", !.ok = FALSE]
    BY <2>1, <2>3
  <2>4. QED
    BY <2>2, <2>3 DEF ListUsers
<1>3. op[job.op].kind \in {"restore", "reset"} /\ job.op \in Ops
  BY <1>1 DEF BookInv, JobInv
<1>4. OpInv' /\ HelperInv' /\ QueueInv' /\ MadeInv' /\ (restarts <= faults)'
  BY <1>1 DEF BookInv, OpInv, HelperInv, QueueInv, MadeInv
<1>5. JobInv' /\ ChosenInv'
  BY <1>1, <1>2, <1>3 DEF BookInv, JobInv, ChosenInv, Tracked
<1>6. RowInv'
  BY <1>1, <1>2, <1>3 DEF BookInv, RowInv, JobInv
<1>7. SuccessHasArtifact'
  BY <1>1, <1>2 DEF BookInv, SuccessHasArtifact, Removing
<1> QED
  BY <1>4, <1>5, <1>6, <1>7 DEF BookInv

LEMMA RunHelperBook ==
  ASSUME BookInv, TypeOK', RunHelper
  PROVE  BookInv'
<1>1. job.pc = "run" /\ job.op \in Ops /\ op[job.op].at = "running" /\ op[job.op].kind \in Tracked
  BY DEF RunHelper, At, BookInv, JobInv
<1>2. UNCHANGED <<op, row, vol, con, queue, restarts, faults>>
  BY DEF RunHelper
<1>3. job'.pc = "wait" /\ job'.op = job.op /\ job'.ok = job.ok /\ job'.doomed = job.doomed
  BY DEF RunHelper, Goto, BookInv, TypeOK
<1>4. /\ \A j \in Ops \ {job.op} : helper'[j] = helper[j] /\ art'[j] = art[j]
      /\ helper'[job.op] \in {"bad", IF op[job.op].kind = "backup" THEN "working" ELSE "wiping"}
  BY <1>1 DEF RunHelper, J, BookInv, TypeOK
<1>5. op[job.op].kind = "backup" => row[job.op] \in {"RUNNING", "deleted"}
  BY <1>1 DEF BookInv, RowInv
<1>6. op[job.op].kind # "backup" => row[job.op] = "none"
  BY <1>1 DEF BookInv, RowInv
<1>7. OpInv' /\ HelperInv' /\ QueueInv' /\ (restarts <= faults)'
  BY <1>1, <1>2, <1>4 DEF BookInv, OpInv, HelperInv, QueueInv, Tracked
<1>8. JobInv'
  BY <1>1, <1>2, <1>3 DEF BookInv, JobInv
<1>9. RowInv' /\ ChosenInv'
  BY <1>1, <1>2, <1>3, <1>5 DEF BookInv, RowInv, ChosenInv
<1>10. MadeInv'
  BY <1>2, <1>4 DEF BookInv, MadeInv
<1>11. SuccessHasArtifact'
  BY <1>1, <1>2, <1>3, <1>4, <1>5, <1>6 DEF BookInv, SuccessHasArtifact, Removing
<1> QED
  BY <1>7, <1>8, <1>9, <1>10, <1>11 DEF BookInv

LEMMA HelperEndedBook ==
  ASSUME BookInv, TypeOK', HelperEnded
  PROVE  BookInv'
<1>1. /\ job.pc = "wait" /\ job.op \in Ops /\ op[job.op].at = "running" /\ op[job.op].kind \in Tracked
      /\ helper[job.op] \in {"ok", "bad"}
      /\ UNCHANGED <<op, row, art, vol, con, queue, helper, restarts, faults>>
  BY DEF HelperEnded, At, J, db, BookInv, JobInv
<1>2. /\ job'.op = job.op /\ job'.doomed = job.doomed /\ job'.ok = (helper[job.op] = "ok")
      /\ job'.pc = IF op[job.op].kind # "backup" THEN "start"
                   ELSE IF helper[job.op] = "ok" THEN "record" ELSE "rowfailed"
  BY DEF HelperEnded, J, BookInv, TypeOK
<1>3. OpInv' /\ HelperInv' /\ QueueInv' /\ MadeInv' /\ (restarts <= faults)'
  BY <1>1 DEF BookInv, OpInv, HelperInv, QueueInv, MadeInv
<1>4. JobInv'
  BY <1>1, <1>2 DEF BookInv, JobInv, Tracked
<1>5. RowInv' /\ ChosenInv'
  BY <1>1, <1>2 DEF BookInv, RowInv, ChosenInv
<1>6. SuccessHasArtifact'
  BY <1>1, <1>2 DEF BookInv, SuccessHasArtifact, Removing
<1> QED
  BY <1>3, <1>4, <1>5, <1>6 DEF BookInv

LEMMA SelectBook ==
  ASSUME BookInv, TypeOK', Select
  PROVE  BookInv'
<1>1. job.pc = "select" /\ UNCHANGED <<op, row, art, vol, con, queue, helper, restarts, faults>>
  BY DEF Select, At, db
<1>2. /\ job'.op = job.op /\ job'.ok = job.ok /\ job'.pc = "prune"
      /\ \A b \in job'.doomed : row[b] = "SUCCESS"
  BY DEF Select, BookInv, TypeOK
<1>3. OpInv' /\ HelperInv' /\ QueueInv' /\ MadeInv' /\ (restarts <= faults)'
  BY <1>1 DEF BookInv, OpInv, HelperInv, QueueInv, MadeInv
<1>4. JobInv'
  BY <1>1, <1>2 DEF BookInv, JobInv
<1>5. RowInv' /\ ChosenInv'
  BY <1>1, <1>2 DEF BookInv, RowInv, ChosenInv
<1>6. SuccessHasArtifact'
  BY <1>1, <1>2 DEF BookInv, SuccessHasArtifact, Removing
<1> QED
  BY <1>3, <1>4, <1>5, <1>6 DEF BookInv

LEMMA PruneUnlinkBook ==
  ASSUME BookInv, TypeOK', PruneUnlink
  PROVE  BookInv'
<1> DEFINE b == Newest(job.doomed)
<1>1. /\ job.pc = "prune" /\ job.doomed # {}
      /\ UNCHANGED <<op, row, vol, con, queue, helper, restarts, faults>>
  BY DEF PruneUnlink, At
<1>2. \/ job' = [job EXCEPT !.pc = "unlinked"] /\ art' = [art EXCEPT ![b] = "none"]
      \/ job' = [job EXCEPT !.doomed = @ \ {b}] /\ UNCHANGED art
  BY DEF PruneUnlink, Goto
<1>3. b \in job.doomed /\ b \in Ops
  BY <1>1, NewestExists DEF BookInv, TypeOK
<1>4. row[b] \in {"SUCCESS", "deleted"}
  BY <1>3 DEF BookInv, ChosenInv
<1> HIDE DEF b
<1>5. job'.op = job.op /\ job'.ok = job.ok /\ job'.doomed \subseteq job.doomed
  <2>1. job \in [op : 0..MaxOps, pc : Pcs, ids : SUBSET Containers, ok : BOOLEAN, doomed : SUBSET Ops]
    BY DEF BookInv, TypeOK
  <2>2. CASE job' = [job EXCEPT !.pc = "unlinked"]
    BY <2>1, <2>2
  <2>3. CASE job' = [job EXCEPT !.doomed = @ \ {b}]
    BY <2>1, <2>3
  <2>4. QED
    BY <1>2, <2>2, <2>3
<1>6. \/ job'.pc = "unlinked" /\ job'.doomed = job.doomed /\ \A c \in Ops \ {b} : art'[c] = art[c]
      \/ job'.pc = "prune" /\ art' = art
  BY <1>1, <1>2 DEF BookInv, TypeOK
<1>7. OpInv' /\ HelperInv' /\ QueueInv' /\ (restarts <= faults)'
  BY <1>1 DEF BookInv, OpInv, HelperInv, QueueInv
<1>8. JobInv'
  BY <1>1, <1>5, <1>6 DEF BookInv, JobInv
<1>9. RowInv' /\ ChosenInv'
  BY <1>1, <1>5, <1>6 DEF BookInv, RowInv, ChosenInv
<1>10. MadeInv'
  BY <1>1, <1>4, <1>6 DEF BookInv, MadeInv
<1>11. SuccessHasArtifact'
  BY <1>1, <1>3, <1>6 DEF BookInv, SuccessHasArtifact, Removing, b
<1> QED
  BY <1>7, <1>8, <1>9, <1>10, <1>11 DEF BookInv

LEMMA PruneRowBook ==
  ASSUME BookInv, TypeOK', PruneRow
  PROVE  BookInv'
<1> DEFINE b == Newest(job.doomed)
<1>1. /\ job.pc = "unlinked" /\ row' = [row EXCEPT ![b] = "deleted"]
      /\ job' = [job EXCEPT !.pc = "prune", !.doomed = @ \ {b}]
      /\ UNCHANGED <<op, art, vol, con, queue, helper, restarts, faults>>
  BY DEF PruneRow, At
<1>2. b \in job.doomed /\ b \in Ops
  BY <1>1, NewestExists DEF BookInv, TypeOK, JobInv
<1>3. row[b] \in {"SUCCESS", "deleted"} /\ op[b].kind = "backup"
  BY <1>2 DEF BookInv, ChosenInv, RowInv
<1>4. job'.op = job.op /\ job'.ok = job.ok /\ job'.doomed \subseteq job.doomed /\ job'.pc = "prune"
  BY <1>1 DEF BookInv, TypeOK
<1>5. row'[b] = "deleted" /\ \A c \in Ops \ {b} : row'[c] = row[c]
  BY <1>1, <1>2 DEF BookInv, TypeOK
<1>6. SuccessHasArtifact'
  BY <1>1, <1>4, <1>5 DEF BookInv, SuccessHasArtifact, Removing
<1> HIDE DEF b
<1>7. OpInv' /\ HelperInv' /\ QueueInv' /\ (restarts <= faults)'
  BY <1>1 DEF BookInv, OpInv, HelperInv, QueueInv
<1>8. JobInv'
  BY <1>1, <1>4 DEF BookInv, JobInv
<1>9. RowInv'
  <2>1. op[b].at # "new"
    BY <1>2, <1>3 DEF BookInv, OpInv
  <2>2. QED
    BY <1>1, <1>2, <1>3, <1>4, <1>5 DEF BookInv, RowInv
<1>10. ChosenInv' /\ MadeInv'
  BY <1>1, <1>2, <1>4, <1>5 DEF BookInv, ChosenInv, MadeInv, TypeOK, OpInv
<1> QED
  BY <1>6, <1>7, <1>8, <1>9, <1>10 DEF BookInv

LEMMA WorkBook ==
  ASSUME BookInv, TypeOK', NEW i \in Ops, Work(i)
  PROVE  BookInv'
<1>1. helper[i] = "working" /\ UNCHANGED <<op, row, con, queue, job, restarts, faults>>
  BY DEF Work
<1>2. /\ helper'[i] \in {"ok", "bad"} /\ \A j \in Ops \ {i} : helper'[j] = helper[j]
      /\ \A j \in Ops \ {i} : art'[j] = art[j]
      /\ art'[i] \in {art[i], vol}
      /\ op[i].kind = "backup" /\ helper'[i] = "ok" => art'[i] = vol
  BY DEF Work, BookInv, TypeOK
<1>3. vol \notin {"none", "partial"}
  BY DEF BookInv, TypeOK, Contents
<1>4. OpInv' /\ HelperInv' /\ QueueInv' /\ RowInv' /\ ChosenInv' /\ (restarts <= faults)'
  BY <1>1, <1>2 DEF BookInv, OpInv, HelperInv, QueueInv, RowInv, ChosenInv
<1>5. JobInv'
  BY <1>1, <1>2 DEF BookInv, JobInv
<1>6. MadeInv'
  BY <1>1, <1>2, <1>3 DEF BookInv, MadeInv, RowInv
<1>7. SuccessHasArtifact'
  <2> SUFFICES ASSUME NEW b \in Ops, row'[b] = "SUCCESS", ~Removing(b)', restarts' = 0
               PROVE  art'[b] \notin {"none", "partial"}
    BY DEF SuccessHasArtifact
  <2>1. ~Removing(b)
    BY <1>1 DEF Removing
  <2>2. QED
    BY <1>1, <1>2, <1>3, <2>1 DEF BookInv, SuccessHasArtifact
<1> QED
  BY <1>4, <1>5, <1>6, <1>7 DEF BookInv

LEMMA RestartBook ==
  ASSUME BookInv, TypeOK', Restart
  PROVE  BookInv'
<1>1. /\ faults' = faults + 1 /\ restarts' = restarts + 1 /\ queue' = <<>> /\ job' = NoJob
      /\ UNCHANGED <<row, art, vol, con, helper>>
  BY DEF Restart, Fault, db
<1>2. ASSUME NEW j \in Ops
      PROVE  /\ op'[j].kind = op[j].kind /\ op'[j].of = op[j].of /\ op'[j].loc = op[j].loc
             /\ op'[j].at = IF op[j].at = "new" THEN "new" ELSE "over"
             /\ op[j].at = "new" => op'[j].task = op[j].task
             /\ op[j].at # "new" => op'[j].task = IF op[j].task \in {"PENDING", "RUNNING"} THEN "FAILED"
                                                  ELSE op[j].task
  <2>1. op[j] \in [kind : Tracked \cup {"none", "prune", "remove"}, of : 0..MaxOps,
                   at : {"new", "asked", "unlinked", "queued", "running", "over"},
                   task : {"none", "PENDING", "RUNNING", "SUCCESS", "FAILED"}, loc : BOOLEAN]
    BY DEF BookInv, TypeOK
  <2>2. op'[j] = IF op[j].at = "new" THEN op[j]
                 ELSE [op[j] EXCEPT !.at = "over",
                         !.task = IF @ \in {"PENDING", "RUNNING"} THEN "FAILED" ELSE @]
    BY DEF Restart
  <2>3. QED
    BY <2>1, <2>2
<1>3. job'.op = 0 /\ job'.pc = "idle" /\ job'.doomed = {}
  BY <1>1 DEF NoJob
<1>4. OpInv' /\ HelperInv'
  BY <1>1, <1>2 DEF BookInv, OpInv, HelperInv
<1>5. QueueInv'
  BY <1>1 DEF QueueInv
<1>6. JobInv'
  BY <1>2, <1>3 DEF JobInv
<1>7. restarts' # 0 /\ (restarts <= faults)'
  BY <1>1 DEF BookInv, TypeOK
<1>8. RowInv'
  <2> SUFFICES ASSUME NEW b \in Ops, op[b].kind = "backup", op[b].at # "new"
               PROVE  /\ op'[b].task = "SUCCESS" => row[b] \in {"SUCCESS", "deleted"}
                      /\ row[b] = "FAILED" => op'[b].task = "FAILED"
    BY <1>1, <1>2, <1>7 DEF BookInv, RowInv
  <2>1. op[b].at # "unlinked"
    BY DEF BookInv, OpInv
  <2>2. op[b].at \in {"asked", "queued", "running", "over"}
    BY <2>1 DEF BookInv, TypeOK
  <2>3. QED
    BY <1>2, <2>2 DEF BookInv, RowInv, OpInv, Tracked
<1>9. ChosenInv' /\ MadeInv' /\ SuccessHasArtifact'
  BY <1>1, <1>2, <1>3, <1>7 DEF BookInv, ChosenInv, MadeInv, SuccessHasArtifact
<1> QED
  BY <1>4, <1>5, <1>6, <1>7, <1>8, <1>9 DEF BookInv

LEMMA EnqueueBook ==
  ASSUME BookInv, TypeOK', NEW i \in Ops, Enqueue(i)
  PROVE  BookInv'
<1>1. /\ op[i].at = "asked" /\ op[i].kind \in Tracked /\ queue' = Append(queue, i)
      /\ UNCHANGED <<row, art, vol, con, job, helper, restarts, faults>>
  BY DEF Enqueue, db
<1>2. /\ \A j \in Ops : op'[j].kind = op[j].kind /\ op'[j].of = op[j].of /\ op'[j].loc = op[j].loc
      /\ op'[i].at = "queued" /\ op'[i].task = "PENDING"
      /\ \A j \in Ops \ {i} : op'[j].at = op[j].at /\ op'[j].task = op[j].task
  BY DEF Enqueue, BookInv, TypeOK
<1>3. OpInv' /\ HelperInv'
  BY <1>1, <1>2 DEF BookInv, OpInv, HelperInv
<1>4. QueueInv'
  <2>1. queue \in Seq(Ops) /\ Len(queue) \in Nat
    BY DEF BookInv, TypeOK
  <2>2. Len(queue') = Len(queue) + 1 /\ queue'[Len(queue) + 1] = i
    BY <1>1, <2>1
  <2>3. \A n \in 1..Len(queue) : queue'[n] = queue[n] /\ queue[n] \in Ops /\ queue[n] # i
    BY <1>1, <2>1 DEF BookInv, QueueInv
  <2>4. \A n \in 1..Len(queue') : n = Len(queue) + 1 \/ n \in 1..Len(queue)
    BY <2>1, <2>2
  <2>5. QED
    BY <1>2, <2>2, <2>3, <2>4 DEF BookInv, QueueInv
<1>5. JobInv' /\ RowInv'
  BY <1>1, <1>2 DEF BookInv, JobInv, RowInv
<1>6. ChosenInv' /\ MadeInv' /\ SuccessHasArtifact' /\ (restarts <= faults)'
  BY <1>1, <1>2 DEF BookInv, ChosenInv, MadeInv, SuccessHasArtifact, Removing
<1> QED
  BY <1>3, <1>4, <1>5, <1>6 DEF BookInv

LEMMA SettleBook ==
  ASSUME BookInv, TypeOK', Settle
  PROVE  BookInv'
<1> DEFINE i == job.op
<1>1. /\ job.pc = "settle" \/ job.pc = "prune"
      /\ job'.op = 0 /\ job'.pc = "idle" /\ job'.doomed = {}
      /\ UNCHANGED <<row, art, vol, con, queue, helper, restarts, faults>>
  BY DEF Settle, At, NoJob, db
<1>2. i \in Ops /\ op[i].at = "running" /\ \A j \in Ops : op[j].at = "running" => j = i
  BY <1>1 DEF BookInv, JobInv
<1>3. /\ op[i].kind \in Tracked => op[i].task = "RUNNING" /\ job.pc = "settle"
      /\ op[i].kind \notin Tracked => op[i].task = "none"
  BY <1>1, <1>2 DEF BookInv, OpInv, JobInv, Tracked
<1>4. op' = [op EXCEPT ![i].at = "over",
                       ![i].task = IF @ = "none" THEN @ ELSE IF job.ok THEN "SUCCESS" ELSE "FAILED"]
  BY DEF Settle, J
<1> HIDE DEF i
<1>5. /\ \A j \in Ops : op'[j].kind = op[j].kind /\ op'[j].of = op[j].of /\ op'[j].loc = op[j].loc
      /\ op'[i].at = "over"
      /\ op[i].task = "RUNNING" => op'[i].task = IF job.ok THEN "SUCCESS" ELSE "FAILED"
      /\ op[i].task = "none" => op'[i].task = "none"
      /\ \A j \in Ops \ {i} : op'[j].at = op[j].at /\ op'[j].task = op[j].task
  BY <1>2, <1>4 DEF BookInv, TypeOK
<1>6. OpInv' /\ HelperInv'
  BY <1>1, <1>2, <1>5 DEF BookInv, OpInv, HelperInv
<1>7. QueueInv'
  <2>1. \A n \in 1..Len(queue) : queue[n] \in Ops
    BY DEF BookInv, TypeOK
  <2>2. \A n \in 1..Len(queue) : queue[n] # i
    BY <1>2 DEF BookInv, QueueInv
  <2>3. QED
    BY <1>1, <1>5, <2>1, <2>2 DEF BookInv, QueueInv
<1>8. JobInv'
  <2>1. \A j \in Ops : op'[j].at # "running"
    BY <1>2, <1>5
  <2>2. QED
    BY <1>1, <2>1 DEF JobInv
<1>9. RowInv'
  <2>1. op[i].kind = "backup" => /\ job.ok => row[i] \in {"SUCCESS", "deleted"}
                                 /\ ~job.ok => row[i] \in {"FAILED", "deleted"}
    BY <1>2, <1>3 DEF BookInv, RowInv, Tracked
  <2>2. op[i].kind = "backup" => op'[i].task = IF job.ok THEN "SUCCESS" ELSE "FAILED"
    BY <1>3, <1>5 DEF Tracked
  <2>3. ASSUME NEW b \in Ops, b # i
        PROVE  op'[b].kind = op[b].kind /\ op'[b].at = op[b].at /\ op'[b].task = op[b].task /\ op[b].at # "running"
    BY <1>2, <1>5, <2>3
  <2>4. QED
    BY <1>1, <1>2, <1>5, <2>1, <2>2, <2>3 DEF BookInv, RowInv
<1>10. ChosenInv' /\ MadeInv' /\ (restarts <= faults)'
  BY <1>1, <1>5 DEF BookInv, ChosenInv, MadeInv
<1>11. SuccessHasArtifact'
  BY <1>1, <1>2, <1>5 DEF BookInv, SuccessHasArtifact, Removing
<1> QED
  BY <1>6, <1>7, <1>8, <1>9, <1>10, <1>11 DEF BookInv

LEMMA AskBackupBook ==
  ASSUME BookInv, TypeOK', NEW i \in Ops, AskBackup(i)
  PROVE  BookInv'
<1> USE DEF BookInv
<1>1. OpInv'
  BY DEF AskBackup, Ask, NoOp, TypeOK, Tracked, OpInv, JobInv, HelperInv, QueueInv, RowInv
<1>2. HelperInv'
  BY DEF AskBackup, Ask, NoOp, TypeOK, Tracked, HelperInv, OpInv, JobInv
<1>3. QueueInv'
  BY DEF AskBackup, Ask, NoOp, TypeOK, Tracked, QueueInv, OpInv, JobInv
<1>4. JobInv'
  BY DEF AskBackup, Ask, NoOp, TypeOK, Tracked, JobInv, OpInv, HelperInv, QueueInv, RowInv
<1>5. RowInv'
  BY DEF AskBackup, Ask, NoOp, TypeOK, Tracked, RowInv, OpInv, JobInv, ChosenInv
<1>6. ChosenInv'
  BY DEF AskBackup, Ask, NoOp, TypeOK, Tracked, ChosenInv, RowInv, OpInv, JobInv
<1>7. MadeInv'
  BY DEF AskBackup, Ask, NoOp, TypeOK, Tracked, MadeInv, ChosenInv, RowInv, JobInv, OpInv, HelperInv
<1>8. SuccessHasArtifact'
  BY DEF AskBackup, Ask, NoOp, TypeOK, Tracked, SuccessHasArtifact, Removing, MadeInv, RowInv,
     JobInv, OpInv, HelperInv, ChosenInv
<1>9. (restarts <= faults)'
  BY DEF AskBackup
<1> QED
  BY <1>1, <1>2, <1>3, <1>4, <1>5, <1>6, <1>7, <1>8, <1>9

LEMMA AskRestoreBook ==
  ASSUME BookInv, TypeOK', NEW i \in Ops, NEW b \in Ops, AskRestore(i, b)
  PROVE  BookInv'
<1> USE DEF BookInv
<1>1. MadeInv'
  BY DEF AskRestore, db, MadeInv
<1>2. OpInv'
  BY DEF AskRestore, Ask, db, NoOp, TypeOK, Tracked, OpInv, JobInv, HelperInv, QueueInv, RowInv
<1>3. HelperInv'
  BY DEF AskRestore, Ask, db, NoOp, TypeOK, Tracked, HelperInv, OpInv, JobInv
<1>4. QueueInv'
  BY DEF AskRestore, Ask, db, NoOp, TypeOK, Tracked, QueueInv, OpInv, JobInv
<1>5. JobInv'
  BY DEF AskRestore, Ask, db, NoOp, TypeOK, Tracked, JobInv, OpInv, HelperInv, QueueInv, RowInv
<1>6. RowInv'
  BY DEF AskRestore, Ask, db, NoOp, TypeOK, Tracked, RowInv, OpInv, JobInv, ChosenInv
<1>7. ChosenInv'
  BY DEF AskRestore, Ask, db, NoOp, TypeOK, Tracked, ChosenInv, RowInv, OpInv, JobInv
<1>8. SuccessHasArtifact'
  BY DEF AskRestore, Ask, db, NoOp, TypeOK, Tracked, SuccessHasArtifact, Removing, MadeInv, RowInv,
     JobInv, OpInv, HelperInv, ChosenInv
<1>9. (restarts <= faults)'
  BY DEF AskRestore, db
<1> QED
  BY <1>1, <1>2, <1>3, <1>4, <1>5, <1>6, <1>7, <1>8, <1>9

LEMMA AskResetBook ==
  ASSUME BookInv, TypeOK', NEW i \in Ops, AskReset(i)
  PROVE  BookInv'
<1> USE DEF BookInv
<1>1. MadeInv'
  BY DEF AskReset, db, MadeInv
<1>2. OpInv'
  BY DEF AskReset, Ask, db, NoOp, TypeOK, Tracked, OpInv, JobInv, HelperInv, QueueInv, RowInv
<1>3. HelperInv'
  BY DEF AskReset, Ask, db, NoOp, TypeOK, Tracked, HelperInv, OpInv, JobInv
<1>4. QueueInv'
  BY DEF AskReset, Ask, db, NoOp, TypeOK, Tracked, QueueInv, OpInv, JobInv
<1>5. JobInv'
  BY DEF AskReset, Ask, db, NoOp, TypeOK, Tracked, JobInv, OpInv, HelperInv, QueueInv, RowInv
<1>6. RowInv'
  BY DEF AskReset, Ask, db, NoOp, TypeOK, Tracked, RowInv, OpInv, JobInv, ChosenInv
<1>7. ChosenInv'
  BY DEF AskReset, Ask, db, NoOp, TypeOK, Tracked, ChosenInv, RowInv, OpInv, JobInv
<1>8. SuccessHasArtifact'
  BY DEF AskReset, Ask, db, NoOp, TypeOK, Tracked, SuccessHasArtifact, Removing, MadeInv, RowInv,
     JobInv, OpInv, HelperInv, ChosenInv
<1>9. (restarts <= faults)'
  BY DEF AskReset, db
<1> QED
  BY <1>1, <1>2, <1>3, <1>4, <1>5, <1>6, <1>7, <1>8, <1>9

LEMMA AskRemoveBook ==
  ASSUME BookInv, TypeOK', NEW i \in Ops, NEW b \in Ops, AskRemove(i, b)
  PROVE  BookInv'
<1> USE DEF BookInv
<1>1. MadeInv'
  BY DEF AskRemove, db, MadeInv
<1>2. OpInv'
  BY DEF AskRemove, Ask, db, Exists, NoOp, TypeOK, Tracked, OpInv, JobInv, HelperInv, QueueInv,
     RowInv
<1>3. HelperInv'
  BY DEF AskRemove, Ask, db, Exists, NoOp, TypeOK, Tracked, HelperInv, OpInv, JobInv
<1>4. QueueInv'
  BY DEF AskRemove, Ask, db, Exists, NoOp, TypeOK, Tracked, QueueInv, OpInv, JobInv
<1>5. JobInv'
  BY DEF AskRemove, Ask, db, Exists, NoOp, TypeOK, Tracked, JobInv, OpInv, HelperInv, QueueInv,
     RowInv
<1>6. RowInv'
  BY DEF AskRemove, Ask, db, Exists, NoOp, TypeOK, Tracked, RowInv, OpInv, JobInv, ChosenInv
<1>7. ChosenInv'
  BY DEF AskRemove, Ask, db, Exists, NoOp, TypeOK, Tracked, ChosenInv, RowInv, OpInv, JobInv
<1>8. SuccessHasArtifact'
  BY DEF AskRemove, Ask, db, Exists, NoOp, TypeOK, Tracked, SuccessHasArtifact, Removing, MadeInv,
     RowInv, JobInv, OpInv, HelperInv, ChosenInv
<1>9. (restarts <= faults)'
  BY DEF AskRemove, db
<1> QED
  BY <1>1, <1>2, <1>3, <1>4, <1>5, <1>6, <1>7, <1>8, <1>9

LEMMA MarkRunningBook ==
  ASSUME BookInv, TypeOK', MarkRunning
  PROVE  BookInv'
<1> USE DEF BookInv
<1>1. OpInv' /\ HelperInv' /\ QueueInv'
  BY DEF MarkRunning, db, OpInv, HelperInv, QueueInv
<1>2. JobInv'
  BY DEF MarkRunning, Goto, At, J, WithRow, Exists, TypeOK, Tracked, JobInv, OpInv, HelperInv,
     QueueInv, RowInv
<1>3. RowInv'
  BY DEF MarkRunning, Goto, At, J, WithRow, Exists, TypeOK, Tracked, RowInv, OpInv, JobInv,
     ChosenInv
<1>4. ChosenInv'
  BY DEF MarkRunning, Goto, At, J, WithRow, Exists, TypeOK, Tracked, ChosenInv, RowInv, OpInv,
     JobInv
<1>5. MadeInv'
  BY DEF MarkRunning, Goto, At, J, WithRow, Exists, TypeOK, Tracked, MadeInv, ChosenInv, RowInv,
     JobInv, OpInv, HelperInv
<1>6. SuccessHasArtifact'
  BY DEF MarkRunning, Goto, At, J, WithRow, Exists, TypeOK, Tracked, SuccessHasArtifact, Removing,
     MadeInv, RowInv, JobInv, OpInv, HelperInv, ChosenInv
<1>7. (restarts <= faults)'
  BY DEF MarkRunning
<1> QED
  BY <1>1, <1>2, <1>3, <1>4, <1>5, <1>6, <1>7

LEMMA StopUsersBook ==
  ASSUME BookInv, TypeOK', StopUsers
  PROVE  BookInv'
<1> USE DEF BookInv
<1>1. OpInv' /\ HelperInv' /\ QueueInv' /\ MadeInv'
  BY DEF StopUsers, db, OpInv, HelperInv, QueueInv, MadeInv
<1>2. JobInv'
  BY DEF StopUsers, Goto, At, db, Fault, TypeOK, Tracked, JobInv, OpInv, HelperInv, QueueInv, RowInv
<1>3. RowInv'
  BY DEF StopUsers, Goto, At, db, Fault, TypeOK, Tracked, RowInv, OpInv, JobInv, ChosenInv
<1>4. ChosenInv'
  BY DEF StopUsers, Goto, At, db, Fault, TypeOK, Tracked, ChosenInv, RowInv, OpInv, JobInv
<1>5. SuccessHasArtifact'
  BY DEF StopUsers, Goto, At, db, Fault, TypeOK, Tracked, SuccessHasArtifact, Removing, MadeInv,
     RowInv, JobInv, OpInv, HelperInv, ChosenInv
<1>6. (restarts <= faults)'
  BY DEF StopUsers, Fault, TypeOK, db
<1> QED
  BY <1>1, <1>2, <1>3, <1>4, <1>5, <1>6

LEMMA RecordBook ==
  ASSUME BookInv, TypeOK', Record
  PROVE  BookInv'
<1> USE DEF BookInv
<1>1. OpInv' /\ HelperInv' /\ QueueInv'
  BY DEF Record, db, OpInv, HelperInv, QueueInv
<1>2. JobInv'
  BY DEF Record, Goto, At, J, WithRow, Exists, TypeOK, Tracked, JobInv, OpInv, HelperInv, QueueInv,
     RowInv
<1>3. RowInv'
  BY DEF Record, Goto, At, J, WithRow, Exists, TypeOK, Tracked, RowInv, OpInv, JobInv, ChosenInv
<1>4. ChosenInv'
  BY DEF Record, Goto, At, J, WithRow, Exists, TypeOK, Tracked, ChosenInv, RowInv, OpInv, JobInv
<1>5. MadeInv'
  BY DEF Record, Goto, At, J, WithRow, Exists, TypeOK, Tracked, MadeInv, ChosenInv, RowInv, JobInv,
     OpInv, HelperInv
<1>6. SuccessHasArtifact'
  BY DEF Record, Goto, At, J, WithRow, Exists, TypeOK, Tracked, SuccessHasArtifact, Removing,
     MadeInv, RowInv, JobInv, OpInv, HelperInv, ChosenInv
<1>7. (restarts <= faults)'
  BY DEF Record
<1> QED
  BY <1>1, <1>2, <1>3, <1>4, <1>5, <1>6, <1>7

LEMMA MarkFailedBook ==
  ASSUME BookInv, TypeOK', MarkFailed
  PROVE  BookInv'
<1> USE DEF BookInv
<1>1. OpInv' /\ HelperInv' /\ QueueInv'
  BY DEF MarkFailed, db, OpInv, HelperInv, QueueInv
<1>2. JobInv'
  BY DEF MarkFailed, Goto, At, J, WithRow, Exists, TypeOK, Tracked, JobInv, OpInv, HelperInv,
     QueueInv, RowInv
<1>3. RowInv'
  BY DEF MarkFailed, Goto, At, J, WithRow, Exists, TypeOK, Tracked, RowInv, OpInv, JobInv, ChosenInv
<1>4. ChosenInv'
  BY DEF MarkFailed, Goto, At, J, WithRow, Exists, TypeOK, Tracked, ChosenInv, RowInv, OpInv, JobInv
<1>5. MadeInv'
  BY DEF MarkFailed, Goto, At, J, WithRow, Exists, TypeOK, Tracked, MadeInv, ChosenInv, RowInv,
     JobInv, OpInv, HelperInv
<1>6. SuccessHasArtifact'
  BY DEF MarkFailed, Goto, At, J, WithRow, Exists, TypeOK, Tracked, SuccessHasArtifact, Removing,
     MadeInv, RowInv, JobInv, OpInv, HelperInv, ChosenInv
<1>7. (restarts <= faults)'
  BY DEF MarkFailed
<1> QED
  BY <1>1, <1>2, <1>3, <1>4, <1>5, <1>6, <1>7

LEMMA StartUsersBook ==
  ASSUME BookInv, TypeOK', StartUsers
  PROVE  BookInv'
<1> USE DEF BookInv
<1>1. OpInv' /\ HelperInv' /\ QueueInv' /\ MadeInv'
  BY DEF StartUsers, db, OpInv, HelperInv, QueueInv, MadeInv
<1>2. JobInv'
  BY DEF StartUsers, Goto, At, db, Fault, TypeOK, Tracked, JobInv, OpInv, HelperInv, QueueInv,
     RowInv
<1>3. RowInv'
  BY DEF StartUsers, Goto, At, db, Fault, TypeOK, Tracked, RowInv, OpInv, JobInv, ChosenInv
<1>4. ChosenInv'
  BY DEF StartUsers, Goto, At, db, Fault, TypeOK, Tracked, ChosenInv, RowInv, OpInv, JobInv
<1>5. SuccessHasArtifact'
  BY DEF StartUsers, Goto, At, db, Fault, TypeOK, Tracked, SuccessHasArtifact, Removing, MadeInv,
     RowInv, JobInv, OpInv, HelperInv, ChosenInv
<1>6. (restarts <= faults)'
  BY DEF StartUsers, Fault, TypeOK, db
<1> QED
  BY <1>1, <1>2, <1>3, <1>4, <1>5, <1>6

LEMMA WipeBook ==
  ASSUME BookInv, TypeOK', NEW i \in Ops, Wipe(i)
  PROVE  BookInv'
<1> USE DEF BookInv
<1>1. QueueInv' /\ RowInv' /\ ChosenInv' /\ SuccessHasArtifact'
  BY DEF Wipe, db, QueueInv, RowInv, ChosenInv, SuccessHasArtifact, Removing
<1>2. OpInv'
  BY DEF Wipe, db, TypeOK, Tracked, OpInv, JobInv, HelperInv, QueueInv, RowInv
<1>3. HelperInv'
  BY DEF Wipe, db, TypeOK, Tracked, HelperInv, OpInv, JobInv
<1>4. JobInv'
  BY DEF Wipe, db, TypeOK, Tracked, JobInv, OpInv, HelperInv, QueueInv, RowInv
<1>5. MadeInv'
  BY DEF Wipe, db, TypeOK, Tracked, MadeInv, ChosenInv, RowInv, JobInv, OpInv, HelperInv
<1>6. (restarts <= faults)'
  BY DEF Wipe, db
<1> QED
  BY <1>1, <1>2, <1>3, <1>4, <1>5, <1>6

LEMMA AppWritesBook ==
  ASSUME BookInv, TypeOK', AppWrites
  PROVE  BookInv'
<1> USE DEF BookInv
<1>1. OpInv' /\ HelperInv' /\ QueueInv' /\ JobInv' /\ RowInv' /\ ChosenInv' /\ MadeInv' /\ SuccessHasArtifact'
  BY DEF AppWrites, db, OpInv, HelperInv, QueueInv, JobInv, RowInv, ChosenInv, MadeInv,
     SuccessHasArtifact, Removing
<1>2. (restarts <= faults)'
  BY DEF AppWrites, db
<1> QED
  BY <1>1, <1>2

(***************************************************************************)
(* Types.                                                                   *)
(***************************************************************************)
OpRecords == [kind : Tracked \cup {"none", "prune", "remove"}, of : 0..MaxOps,
              at : {"new", "asked", "unlinked", "queued", "running", "over"},
              task : {"none", "PENDING", "RUNNING", "SUCCESS", "FAILED"}, loc : BOOLEAN]
JobRecords == [op : 0..MaxOps, pc : Pcs, ids : SUBSET Containers, ok : BOOLEAN, doomed : SUBSET Ops]

LEMMA AskTypes ==
  ASSUME TypeOK, NEW i \in Ops, NEW k \in Tracked \cup {"prune", "remove"}, NEW b \in 0..MaxOps,
         NEW at \in {"asked", "queued"}, Ask(i, k, b, at)
  PROVE  op' \in [Ops -> OpRecords]
<1> DEFINE o == [NoOp EXCEPT !.kind = k, !.of = b, !.at = at, !.loc = k = "remove" /\ row[b] = "SUCCESS"]
<1>1. (k = "remove" /\ row[b] = "SUCCESS") \in BOOLEAN
  OBVIOUS
<1>2. o \in OpRecords
  BY <1>1 DEF NoOp, OpRecords
<1>3. op \in [Ops -> OpRecords] /\ op' = [op EXCEPT ![i] = o]
  BY DEF TypeOK, Ask, OpRecords
<1> HIDE DEF o
<1> QED
  BY <1>2, <1>3

\* What an await of the job leaves of it.
LEMMA JobTypes ==
  ASSUME TypeOK
  PROVE  /\ \A pc \in Pcs : [job EXCEPT !.pc = pc] \in JobRecords
         /\ \A pc \in Pcs, ids \in SUBSET Containers : [job EXCEPT !.pc = pc, !.ids = ids] \in JobRecords
         /\ \A pc \in Pcs, ok \in BOOLEAN : [job EXCEPT !.ok = ok, !.pc = pc] \in JobRecords
         /\ \A pc \in Pcs, D \in SUBSET Ops : [job EXCEPT !.pc = pc, !.doomed = D] \in JobRecords
         /\ \A D \in SUBSET Ops : [job EXCEPT !.doomed = D] \in JobRecords
         /\ job.doomed \in SUBSET Ops /\ job.op \in 0..MaxOps
BY DEF TypeOK, JobRecords

LEMMA ProgressTypes ==
  ASSUME TypeOK, NEW i, NEW at \in {"queued", "running", "over"},
         NEW task \in {"none", "PENDING", "RUNNING", "SUCCESS", "FAILED"}
  PROVE  [op EXCEPT ![i].at = at, ![i].task = task] \in [Ops -> OpRecords]
<1>1. op \in [Ops -> OpRecords]
  BY DEF TypeOK, OpRecords
<1>2. \A r \in OpRecords : [[r EXCEPT !.at = at] EXCEPT !.task = task] \in OpRecords
  BY DEF OpRecords
<1>3. [op EXCEPT ![i].at = at, ![i].task = task] =
        [op EXCEPT ![i] = [[op[i] EXCEPT !.at = at] EXCEPT !.task = task]]
  BY <1>1
<1>4. QED
  BY <1>1, <1>2, <1>3

LEMMA NoJobType == NoJob \in JobRecords
BY DEF NoJob, JobRecords, Pcs, Ops

LEMMA RequestTypes ==
  ASSUME BookInv, NEW i \in Ops, Request(i)
  PROVE  TypeOK'
<1> USE DEF BookInv
<1>1. TypeOK /\ op \in [Ops -> OpRecords] /\ 0 \in 0..MaxOps /\ Ops \subseteq 0..MaxOps
  BY DEF TypeOK, OpRecords, Ops
<1>2. CASE AskBackup(i)
  <2>1. op' \in [Ops -> OpRecords]
    BY <1>1, <1>2, AskTypes DEF AskBackup, Tracked
  <2>2. row' \in [Ops -> {"none", "PENDING", "RUNNING", "SUCCESS", "FAILED", "deleted"}]
    BY <1>2 DEF AskBackup, TypeOK
  <2>3. QED
    BY <2>1, <2>2, <1>2 DEF AskBackup, TypeOK, OpRecords
<1>3. CASE AskReset(i)
  <2>1. op' \in [Ops -> OpRecords]
    BY <1>1, <1>3, AskTypes DEF AskReset, Tracked
  <2>2. QED
    BY <2>1, <1>3 DEF AskReset, TypeOK, OpRecords, db
<1>4. CASE AskPrune(i)
  <2>1. op' \in [Ops -> OpRecords]
    BY <1>1, <1>4, AskTypes DEF AskPrune, Tracked
  <2>2. queue' \in Seq(Ops)
    BY <1>4 DEF AskPrune, TypeOK
  <2>3. QED
    BY <2>1, <2>2, <1>4 DEF AskPrune, TypeOK, OpRecords, db
<1>5. ASSUME NEW b \in Ops, AskRestore(i, b) \/ AskRemove(i, b) PROVE TypeOK'
  <2>1. op' \in [Ops -> OpRecords]
    BY <1>1, <1>5, AskTypes DEF AskRestore, AskRemove, Tracked
  <2>2. QED
    BY <2>1, <1>5 DEF AskRestore, AskRemove, TypeOK, OpRecords, db
<1>6. CASE Enqueue(i)
  <2>1. op' \in [Ops -> OpRecords]
    BY <1>1, <1>6, ProgressTypes DEF Enqueue
  <2>3. queue' \in Seq(Ops)
    BY <1>6 DEF Enqueue, TypeOK
  <2>2. QED
    BY <2>1, <2>3, <1>6 DEF Enqueue, TypeOK, OpRecords, db
<1>7. CASE RemoveFile(i)
  <2>1. op' \in [Ops -> OpRecords]
    BY <1>1, <1>7 DEF RemoveFile, OpRecords
  <2>2. art' \in [Ops -> Contents \cup {"none", "partial", "half"}]
    BY <1>7 DEF RemoveFile, TypeOK
  <2>3. QED
    BY <2>1, <2>2, <1>7 DEF RemoveFile, TypeOK, OpRecords
<1>8. CASE RemoveRow(i)
  <2>1. op' \in [Ops -> OpRecords]
    BY <1>1, <1>8 DEF RemoveRow, OpRecords
  <2>2. row' \in [Ops -> {"none", "PENDING", "RUNNING", "SUCCESS", "FAILED", "deleted"}]
    BY <1>8 DEF RemoveRow, TypeOK
  <2>3. QED
    BY <2>1, <2>2, <1>8 DEF RemoveRow, TypeOK, OpRecords
<1> QED
  BY <1>2, <1>3, <1>4, <1>5, <1>6, <1>7, <1>8 DEF Request

LEMMA HostTypes ==
  ASSUME BookInv, NEW i \in Ops, Host(i)
  PROVE  TypeOK'
<1> USE DEF BookInv
<1>1. CASE Wipe(i)
  <2>1. helper' \in [Ops -> {"none", "wiping", "working", "ok", "bad"}] /\ vol' \in Contents \cup {"half"}
    BY <1>1 DEF Wipe, TypeOK, Contents
  <2>2. QED
    BY <2>1, <1>1 DEF Wipe, TypeOK, db
<1>2. CASE Work(i)
  <2>1. helper' \in [Ops -> {"none", "wiping", "working", "ok", "bad"}]
    <3>1. helper' = [helper EXCEPT ![i] = "ok"] \/ helper' = [helper EXCEPT ![i] = "bad"]
      BY <1>2 DEF Work
    <3>2. QED
      BY <3>1 DEF TypeOK
  <2>2. op[i].kind # "backup" => op[i].of \in Ops
    BY <1>2 DEF Work, OpInv, HelperInv
  <2>3. vol' \in Contents \cup {"half"} /\ art' \in [Ops -> Contents \cup {"none", "partial", "half"}]
    <3>1. \/ art' = [art EXCEPT ![i] = vol] /\ vol' = vol
          \/ /\ op[i].of \in Ops /\ art[op[i].of] \notin {"none", "partial"}
             /\ vol' = art[op[i].of] /\ art' = art
          \/ art' = art /\ vol' = vol
      BY <1>2, <2>2 DEF Work
    <3>2. CASE art' = [art EXCEPT ![i] = vol] /\ vol' = vol
      BY <3>2 DEF TypeOK
    <3>3. CASE /\ op[i].of \in Ops /\ art[op[i].of] \notin {"none", "partial"}
               /\ vol' = art[op[i].of] /\ art' = art
      BY <3>3 DEF TypeOK
    <3>4. QED
      BY <3>1, <3>2, <3>3 DEF TypeOK
  <2>4. QED
    BY <2>1, <2>3, <1>2 DEF Work, TypeOK
<1> QED
  BY <1>1, <1>2 DEF Host

LEMMA RunJobTypes ==
  ASSUME BookInv, RunJob
  PROVE  TypeOK'
<1> USE DEF BookInv
<1>1. TypeOK /\ op \in [Ops -> OpRecords] /\ job \in JobRecords
  BY DEF TypeOK, OpRecords, JobRecords
<1>2. CASE TakeJob
  <2> DEFINE i == Head(queue)
  <2>1. i \in Ops /\ Tail(queue) \in Seq(Ops)
    BY <1>1, <1>2, HeadOfQueue DEF TakeJob, TypeOK
  <2> HIDE DEF i
  <2>2. op' = [op EXCEPT ![i].at = "running", ![i].task = IF @ = "none" THEN @ ELSE "RUNNING"]
    BY <1>2 DEF TakeJob, i
  <2>3. op' \in [Ops -> OpRecords]
    <3>1. PICK t \in {"none", "RUNNING"} : op' = [op EXCEPT ![i].at = "running", ![i].task = t]
      BY <2>2
    <3>2. QED
      BY <1>1, <3>1, ProgressTypes
  <2>4. PICK pc \in {"mark", "select", "list"} : job' = [NoJob EXCEPT !.op = i, !.pc = pc]
    BY <1>2 DEF TakeJob, i
  <2>5. job' \in JobRecords
    <3>1. i \in 0..MaxOps /\ pc \in Pcs
      BY <2>1 DEF Pcs, Ops
    <3>2. QED
      BY <2>4, <3>1, NoJobType DEF JobRecords
  <2>6. QED
    BY <2>1, <2>3, <2>5, <1>2 DEF TakeJob, TypeOK, OpRecords, JobRecords, db
<1>3. CASE MarkRunning \/ Record \/ MarkFailed
  <2>1. job' \in JobRecords
    BY <1>3, JobTypes DEF MarkRunning, Record, MarkFailed, Goto, Pcs
  <2>2. row' \in [Ops -> {"none", "PENDING", "RUNNING", "SUCCESS", "FAILED", "deleted"}]
    BY <1>3 DEF MarkRunning, Record, MarkFailed, WithRow, TypeOK
  <2>3. QED
    BY <2>1, <2>2, <1>3 DEF MarkRunning, Record, MarkFailed, TypeOK, JobRecords
<1>4. CASE ListUsers
  <2>1. job' \in JobRecords
    <3>1. "stop" \in Pcs /\ "settle" \in Pcs
      BY DEF Pcs
    <3>2. [job EXCEPT !.pc = "stop", !.ids = Containers] \in JobRecords
      BY <3>1, JobTypes
    <3>3. [job EXCEPT !.pc = "settle", !.ok = FALSE] \in JobRecords
      BY <3>1, <1>1 DEF JobRecords
    <3>4. QED
      BY <3>2, <3>3, <1>4 DEF ListUsers
  <2>2. QED
    BY <2>1, <1>4 DEF ListUsers, TypeOK, JobRecords, db
<1>5. CASE StopUsers \/ StartUsers
  <2>1. job' \in JobRecords
    BY <1>5, JobTypes DEF StopUsers, StartUsers, Goto, Pcs
  <2>2. con' \in [Containers -> [up : BOOLEAN, ran : BOOLEAN]]
    <3>1. con \in [Containers -> [up : BOOLEAN, ran : BOOLEAN]]
      BY DEF TypeOK
    <3>2. PICK u \in [Containers -> BOOLEAN] : con' = [c \in Containers |-> [con[c] EXCEPT !.up = u[c]]]
      <4>1. CASE con' = [c \in Containers |-> [con[c] EXCEPT !.up = FALSE]]
        <5>1. [c \in Containers |-> FALSE] \in [Containers -> BOOLEAN]
          OBVIOUS
        <5>2. QED
          BY <4>1, <5>1
      <4>2. ASSUME NEW c \in Containers,
                   con' = [d \in Containers |-> [con[d] EXCEPT !.up = d = c /\ @]]
            PROVE  \E u \in [Containers -> BOOLEAN] :
                     con' = [d \in Containers |-> [con[d] EXCEPT !.up = u[d]]]
        <5>1. [d \in Containers |-> d = c /\ con[d].up] \in [Containers -> BOOLEAN]
          BY <3>1
        <5>2. QED
          BY <4>2, <5>1
      <4>3. ASSUME NEW ids \in SUBSET Containers,
                   con' = [d \in Containers |-> [con[d] EXCEPT !.up = @ \/ d \in ids]]
            PROVE  \E u \in [Containers -> BOOLEAN] :
                     con' = [d \in Containers |-> [con[d] EXCEPT !.up = u[d]]]
        <5>1. [d \in Containers |-> con[d].up \/ d \in ids] \in [Containers -> BOOLEAN]
          BY <3>1
        <5>2. QED
          BY <4>3, <5>1
      <4>4. job.ids \in SUBSET Containers
        BY <1>1 DEF JobRecords
      <4>5. CASE StopUsers
        BY <4>1, <4>2, <4>5 DEF StopUsers
      <4>6. CASE StartUsers
        <5>1. \A c \in Containers : job.ids \ {c} \in SUBSET Containers
          BY <4>4
        <5>2. QED
          BY <4>3, <4>4, <4>6, <5>1 DEF StartUsers
      <4> QED
        BY <1>5, <4>5, <4>6
    <3>3. QED
      BY <3>1, <3>2
  <2>3. faults' \in 0..MaxFaults
    BY <1>5 DEF StopUsers, StartUsers, Fault, TypeOK
  <2>4. QED
    BY <2>1, <2>2, <2>3, <1>5 DEF StopUsers, StartUsers, TypeOK, JobRecords, db
<1>6. CASE RunHelper
  <2>1. job' \in JobRecords
    BY <1>6, JobTypes DEF RunHelper, Goto, Pcs
  <2>2. helper' \in [Ops -> {"none", "wiping", "working", "ok", "bad"}]
    BY <1>6 DEF RunHelper, TypeOK
  <2>3. art' \in [Ops -> Contents \cup {"none", "partial", "half"}]
    BY <1>6 DEF RunHelper, TypeOK
  <2>4. QED
    BY <2>1, <2>2, <2>3, <1>6 DEF RunHelper, TypeOK, JobRecords
<1>7. CASE HelperEnded
  <2>1. job' \in JobRecords
    BY <1>7, JobTypes DEF HelperEnded, Pcs
  <2>2. QED
    BY <2>1, <1>7 DEF HelperEnded, TypeOK, JobRecords, db
<1>8. CASE Select
  <2>1. job' \in JobRecords
    BY <1>8, JobTypes DEF Select, Pcs
  <2>2. QED
    BY <2>1, <1>8 DEF Select, TypeOK, JobRecords, db
<1>9. CASE PruneUnlink
  <2>1. job' \in JobRecords
    BY <1>9, JobTypes DEF PruneUnlink, Goto, Pcs
  <2>2. art' \in [Ops -> Contents \cup {"none", "partial", "half"}]
    BY <1>9 DEF PruneUnlink, TypeOK
  <2>3. QED
    BY <2>1, <2>2, <1>9 DEF PruneUnlink, TypeOK, JobRecords
<1>10. CASE PruneRow
  <2>1. job' \in JobRecords
    BY <1>10, JobTypes DEF PruneRow, Pcs
  <2>2. row' \in [Ops -> {"none", "PENDING", "RUNNING", "SUCCESS", "FAILED", "deleted"}]
    BY <1>10 DEF PruneRow, TypeOK
  <2>3. QED
    BY <2>1, <2>2, <1>10 DEF PruneRow, TypeOK, JobRecords
<1>11. CASE Settle
  <2>1. op' \in [Ops -> OpRecords]
    <3>1. PICK t \in {"none", "SUCCESS", "FAILED"} : op' = [op EXCEPT ![J].at = "over", ![J].task = t]
      BY <1>11 DEF Settle
    <3>2. QED
      BY <1>1, <3>1, ProgressTypes
  <2>2. job' \in JobRecords
    BY <1>11, NoJobType DEF Settle
  <2>3. QED
    BY <2>1, <2>2, <1>11 DEF Settle, TypeOK, OpRecords, JobRecords, db
<1> QED
  BY <1>2, <1>3, <1>4, <1>5, <1>6, <1>7, <1>8, <1>9, <1>10, <1>11 DEF RunJob

LEMMA RestartTypes ==
  ASSUME BookInv, Restart
  PROVE  TypeOK'
<1> USE DEF BookInv
<1>1. op \in [Ops -> OpRecords]
  BY DEF TypeOK, OpRecords
<1>2. op' \in [Ops -> OpRecords]
  <2>1. ASSUME NEW i \in Ops
        PROVE  [op[i] EXCEPT !.at = "over",
                  !.task = IF @ \in {"PENDING", "RUNNING"} THEN "FAILED" ELSE @] \in OpRecords
    BY <1>1 DEF OpRecords
  <2>2. QED
    BY <1>1, <2>1 DEF Restart
<1>3. job' \in JobRecords /\ queue' \in Seq(Ops)
  <2>1. job' = NoJob /\ queue' = <<>>
    BY DEF Restart
  <2>2. QED
    BY <2>1, NoJobType
<1>4. faults' \in 0..MaxFaults /\ restarts' \in 0..MaxFaults
  <2>1. faults < MaxFaults /\ faults' = faults + 1 /\ restarts' = restarts + 1
    BY DEF Restart, Fault
  <2>2. QED
    BY <2>1 DEF TypeOK
<1> QED
  BY <1>2, <1>3, <1>4 DEF Restart, TypeOK, OpRecords, JobRecords, db

LEMMA StepTypes ==
  ASSUME BookInv, [Next]_vars
  PROVE  TypeOK'
<1>1. CASE AppWrites
  BY <1>1 DEF AppWrites, BookInv, TypeOK, Contents, db
<1>2. CASE UNCHANGED vars
  BY <1>2 DEF vars, BookInv, TypeOK
<1> QED
  BY <1>1, <1>2, RequestTypes, HostTypes, RunJobTypes, RestartTypes DEF Next

LEMMA InitBook == Init => BookInv
<1> SUFFICES ASSUME Init PROVE BookInv
  OBVIOUS
<1>1. op \in [Ops -> OpRecords] /\ job \in JobRecords
  BY DEF Init, NoOp, NoJob, OpRecords, JobRecords, Pcs, Ops
<1>2. con \in [Containers -> [up : BOOLEAN, ran : BOOLEAN]]
  BY DEF Init
<1>3. TypeOK
  BY <1>1, <1>2 DEF Init, TypeOK, OpRecords, JobRecords, Contents
<1>4. OpInv /\ HelperInv /\ QueueInv /\ RowInv
  BY DEF Init, NoOp, OpInv, HelperInv, QueueInv, RowInv
<1>5. JobInv
  BY DEF Init, NoOp, NoJob, JobInv
<1>6. ChosenInv /\ MadeInv /\ SuccessHasArtifact
  BY DEF Init, NoOp, NoJob, ChosenInv, MadeInv, SuccessHasArtifact
<1>7. restarts <= faults
  BY DEF Init
<1> QED
  BY <1>3, <1>4, <1>5, <1>6, <1>7 DEF BookInv

LEMMA StepBook ==
  ASSUME BookInv, [Next]_vars
  PROVE  BookInv'
<1>1. TypeOK'
  BY StepTypes
<1>2. ASSUME NEW i \in Ops, Request(i) PROVE BookInv'
  BY <1>1, <1>2, AskBackupBook, AskResetBook, AskPruneBook, EnqueueBook, RemoveFileBook,
     RemoveRowBook,
     AskRestoreBook, AskRemoveBook DEF Request
<1>3. ASSUME NEW i \in Ops, Host(i) PROVE BookInv'
  BY <1>1, <1>3, WipeBook, WorkBook DEF Host
<1>4. CASE RunJob
  BY <1>1, <1>4, TakeJobBook, MarkRunningBook, ListUsersBook, StopUsersBook, RunHelperBook,
     HelperEndedBook, RecordBook, MarkFailedBook, StartUsersBook, SelectBook, PruneUnlinkBook,
     PruneRowBook, SettleBook DEF RunJob
<1>5. CASE AppWrites \/ Restart
  BY <1>1, <1>5, AppWritesBook, RestartBook
<1>6. CASE UNCHANGED vars
  BY <1>6 DEF vars, BookInv, TypeOK, OpInv, HelperInv, QueueInv, JobInv, RowInv, ChosenInv, MadeInv,
              SuccessHasArtifact, Removing
<1> QED
  BY <1>2, <1>3, <1>4, <1>5, <1>6 DEF Next

LEMMA BookHolds == Spec => []BookInv
BY InitBook, StepBook, PTL DEF Spec

\* Every row, archive, task and container keeps its type.
THEOREM TypeCorrect == Spec => []TypeOK
<1>1. BookInv => TypeOK
  BY DEF BookInv
<1> QED
  BY <1>1, BookHolds, PTL

\* What the panel says of a backup is so: its task, its row and its archive agree, through
\* removals and prunings beside the queue and restarts of the process at any await.
THEOREM Books == Spec => []BackupsInv
<1>1. BookInv => TaskTruth
  <2> SUFFICES ASSUME BookInv, NEW b \in Ops, op[b].kind = "backup"
               PROVE  /\ op[b].task = "SUCCESS" => row[b] \in {"SUCCESS", "deleted"}
                      /\ restarts = 0 => (row[b] = "SUCCESS" => op[b].task \in {"RUNNING", "SUCCESS"})
                      /\ row[b] = "FAILED" => op[b].task \in {"RUNNING", "FAILED"}
    BY DEF TaskTruth
  <2>1. op[b].at \in {"asked", "queued", "running", "over"}
    BY DEF BookInv, OpInv, TypeOK
  <2>2. QED
    BY <2>1 DEF BookInv, OpInv, RowInv, Tracked
<1>2. BookInv => BackupsInv
  BY <1>1 DEF BookInv, BackupsInv
<1> QED
  BY <1>2, BookHolds, PTL

(***************************************************************************)
(* The volume and its containers.                                           *)
(***************************************************************************)
LEMMA RequestVolume ==
  ASSUME BookInv, VolumeInv, NEW i \in Ops, Request(i)
  PROVE  VolumeInv'
<1>1. UNCHANGED <<vol, con, job, helper, faults>>
  BY DEF Request, AskBackup, AskReset, AskPrune, AskRestore, AskRemove, Enqueue, RemoveFile,
     RemoveRow
<1>2. \A b \in Ops : art'[b] \in {art[b], "none"}
  BY DEF Request, AskBackup, AskReset, AskPrune, AskRestore, AskRemove, Enqueue, RemoveFile,
     RemoveRow,
         db, BookInv, TypeOK
<1>3. \A j \in Ops : op[j].at # "new" => op'[j].kind = op[j].kind /\ op'[j].of = op[j].of
  <2>1. CASE AskBackup(i) \/ AskReset(i) \/ AskPrune(i) \/ \E b \in Ops : AskRestore(i, b) \/ AskRemove(i, b)
    <3>1. op[i].at = "new" /\ \A j \in Ops \ {i} : op'[j] = op[j]
      BY <2>1 DEF AskBackup, AskReset, AskPrune, AskRestore, AskRemove, Ask, BookInv, TypeOK
    <3>2. QED
      BY <3>1
  <2>2. CASE Enqueue(i) \/ RemoveFile(i) \/ RemoveRow(i)
    <3>1. CASE Enqueue(i)
      BY <3>1 DEF Enqueue, BookInv, TypeOK
    <3>2. CASE RemoveFile(i)
      BY <3>2 DEF RemoveFile, BookInv, TypeOK
    <3>3. CASE RemoveRow(i)
      BY <3>3 DEF RemoveRow, BookInv, TypeOK
    <3>4. QED
      BY <2>2, <3>1, <3>2, <3>3
  <2>3. QED
    BY <2>1, <2>2 DEF Request
<1>4. job.pc # "idle" => /\ job.op \in Ops /\ op[job.op].at = "running"
                         /\ op[job.op].kind = "restore" => op[job.op].of \in Ops
  BY DEF BookInv, JobInv, OpInv
<1> QED
  BY <1>1, <1>2, <1>3, <1>4 DEF VolumeInv, Held

LEMMA HostVolume ==
  ASSUME BookInv, VolumeInv, NEW i \in Ops, Host(i)
  PROVE  VolumeInv'
<1> SUFFICES ASSUME faults' = 0 PROVE VolumeInv'
  BY DEF VolumeInv
<1>1. UNCHANGED <<op, con, job, faults>> /\ helper[i] \in {"wiping", "working"}
  BY DEF Host, Wipe, Work
<1>2. i = job.op /\ job.pc = "wait" /\ faults = 0
  BY <1>1 DEF VolumeInv
<1>3. \A j \in Ops \ {i} : helper'[j] = helper[j]
  BY DEF Host, Wipe, Work, BookInv, TypeOK
<1>4. op[i].kind = "restore" /\ helper'[i] = "ok" => art'[op[i].of] = vol'
  <2>1. CASE Wipe(i)
    <3>1. helper'[i] = IF op[i].kind = "reset" THEN "ok"
                       ELSE IF op[i].kind = "restore" /\ art[op[i].of] = "none" THEN "bad" ELSE "working"
      BY <2>1 DEF Wipe, BookInv, TypeOK
    <3>2. QED
      BY <3>1
  <2>2. CASE Work(i)
    <3>1. helper'[i] = "ok" \/ helper'[i] = "bad"
      BY <2>2 DEF Work, BookInv, TypeOK
    <3>2. CASE helper' = [helper EXCEPT ![i] = "bad"]
      BY <3>2 DEF BookInv, TypeOK
    <3>3. CASE helper' # [helper EXCEPT ![i] = "bad"]
      BY <2>2, <3>3 DEF Work
    <3>4. QED
      BY <3>2, <3>3
  <2>3. QED
    BY <2>1, <2>2 DEF Host
<1> QED
  BY <1>1, <1>2, <1>3, <1>4 DEF VolumeInv, Held

LEMMA RunJobVolume ==
  ASSUME BookInv, VolumeInv, RunJob
  PROVE  VolumeInv'
<1> SUFFICES ASSUME faults' = 0 PROVE VolumeInv'
  BY DEF VolumeInv
<1> DEFINE Kept == UNCHANGED <<op, vol, faults>> /\ job'.op = job.op
<1> job \in JobRecords /\ \A c \in Containers : con[c] \in [up : BOOLEAN, ran : BOOLEAN]
  BY DEF BookInv, TypeOK, JobRecords
<1> job.pc # "idle" => job.op \in Ops
  BY DEF BookInv, JobInv
<1>1. CASE TakeJob
  <2> DEFINE i == Head(queue)
  <2>1. i \in Ops /\ job.pc = "idle" /\ UNCHANGED <<vol, con, helper, faults>>
    BY <1>1, HeadOfQueue DEF TakeJob, At, BookInv
  <2>2. job'.pc \in {"mark", "select", "list"}
    BY <1>1 DEF TakeJob, NoJob
  <2>3. QED
    BY <2>1, <2>2 DEF VolumeInv, Held
<1>2. CASE MarkRunning
  <2>1. job.pc = "mark" /\ job'.pc = "run" /\ Kept /\ UNCHANGED <<art, con, helper>>
    BY <1>2 DEF MarkRunning, Goto, At, JobRecords
  <2>2. op[job.op].kind = "backup"
    BY <2>1 DEF BookInv, JobInv
  <2>3. QED
    BY <2>1, <2>2 DEF VolumeInv, Held
<1>3. CASE ListUsers
  <2>1. job.pc = "list" /\ Kept /\ UNCHANGED <<art, con, helper>>
    BY <1>3 DEF ListUsers, At, JobRecords, db
  <2>2. (job'.pc = "stop" /\ job'.ids = Containers) \/ job'.pc = "settle"
    <3>1. CASE job' = [job EXCEPT !.pc = "stop", !.ids = Containers]
      BY <3>1 DEF JobRecords
    <3>2. CASE job' = [job EXCEPT !.pc = "settle", !.ok = FALSE]
      BY <3>2 DEF JobRecords
    <3>3. QED
      BY <1>3, <3>1, <3>2 DEF ListUsers
  <2>3. QED
    BY <2>1, <2>2 DEF VolumeInv, Held
<1>4. CASE StopUsers
  <2>1. /\ job.pc = "stop" /\ job'.pc = "run" /\ job'.op = job.op /\ job'.ids = job.ids
        /\ UNCHANGED <<op, vol, art, helper>>
    BY <1>4 DEF StopUsers, Goto, At, JobRecords, db
  <2>2. faults' = faults /\ \A c \in Containers : ~con'[c].up
    BY <1>4 DEF StopUsers, Fault, BookInv, TypeOK
  <2>3. job.ids = Containers /\ op[job.op].kind \in {"restore", "reset"}
    BY <2>1, <2>2 DEF VolumeInv, BookInv, JobInv
  <2>4. QED
    BY <2>1, <2>2, <2>3 DEF VolumeInv, Held
<1>5. CASE RunHelper
  <2>1. job.pc = "run" /\ job'.pc = "wait" /\ Kept /\ job'.ids = job.ids /\ con' = con
    BY <1>5 DEF RunHelper, Goto, At, JobRecords
  <2>2. /\ \A j \in Ops \ {job.op} : helper'[j] = helper[j] /\ art'[j] = art[j]
        /\ op[job.op].kind # "backup" => helper'[job.op] \in {"bad", "wiping"}
    BY <1>5, <2>1 DEF RunHelper, J, BookInv, TypeOK
  <2>3. QED
    BY <2>1, <2>2 DEF VolumeInv, Held
<1>6. CASE HelperEnded
  <2>1. /\ job.pc = "wait" /\ Kept /\ job'.ids = job.ids /\ UNCHANGED <<art, con, helper>>
        /\ helper[job.op] \in {"ok", "bad"}
    BY <1>6 DEF HelperEnded, At, J, JobRecords, db
  <2>2. IF op[job.op].kind # "backup" THEN job'.pc = "start" ELSE job'.pc \in {"record", "rowfailed"}
    BY <1>6 DEF HelperEnded, J, JobRecords
  <2>3. op[job.op].kind \in {"backup", "restore", "reset"}
    BY <2>1 DEF BookInv, JobInv, Tracked
  <2>4. QED
    BY <2>1, <2>2, <2>3 DEF VolumeInv, Held
<1>7. CASE Record \/ MarkFailed
  <2>1. /\ job.pc \in {"record", "rowfailed"} /\ job'.pc = "settle" /\ Kept /\ UNCHANGED <<art, con, helper>>
    BY <1>7 DEF Record, MarkFailed, Goto, At, JobRecords
  <2>2. QED
    BY <2>1 DEF VolumeInv, Held
<1>8. CASE StartUsers
  <2>1. /\ job.pc = "start" /\ job'.pc = "settle" /\ job'.op = job.op
        /\ UNCHANGED <<op, vol, art, helper>>
    BY <1>8 DEF StartUsers, Goto, At, JobRecords, db
  <2>2. /\ faults' = faults
        /\ con' = [c \in Containers |-> [con[c] EXCEPT !.up = @ \/ c \in job.ids]]
    BY <1>8 DEF StartUsers, Fault, BookInv, TypeOK
  <2>3. job.ids = Containers
    BY <2>1, <2>2 DEF VolumeInv, Held, BookInv, JobInv
  <2>4. \A c \in Containers : con'[c].up
    BY <2>2, <2>3
  <2>5. QED
    BY <2>1, <2>2, <2>4 DEF VolumeInv, Held
<1>9. CASE Select \/ PruneRow
  <2>1. job.pc \in {"select", "unlinked"} /\ job'.pc = "prune" /\ Kept /\ UNCHANGED <<art, con, helper>>
    BY <1>9 DEF Select, PruneRow, At, JobRecords, db
  <2>2. QED
    BY <2>1 DEF VolumeInv, Held
<1>10. CASE PruneUnlink
  <2>1. job.pc = "prune" /\ job'.pc \in {"prune", "unlinked"} /\ Kept /\ UNCHANGED <<con, helper>>
    BY <1>10 DEF PruneUnlink, Goto, At, JobRecords
  <2>2. QED
    BY <2>1 DEF VolumeInv, Held
<1>11. CASE Settle
  <2>1. job.pc \in {"settle", "prune"} /\ job'.pc = "idle" /\ UNCHANGED <<vol, con, helper, faults>>
    BY <1>11 DEF Settle, At, NoJob
  <2>2. QED
    BY <2>1 DEF VolumeInv, Held
<1> QED
  BY <1>1, <1>2, <1>3, <1>4, <1>5, <1>6, <1>7, <1>8, <1>9, <1>10, <1>11 DEF RunJob

LEMMA StepVolume ==
  ASSUME BookInv, VolumeInv, [Next]_vars
  PROVE  VolumeInv'
<1>1. CASE AppWrites
  <2>1. UNCHANGED <<op, art, con, job, helper, faults>> /\ \E c \in Containers : con[c].up
    BY <1>1 DEF AppWrites, db
  <2>2. QED
    BY <2>1 DEF VolumeInv, Held, BookInv, JobInv, Tracked
<1>2. CASE Restart
  <2>1. faults' = faults + 1
    BY <1>2 DEF Restart, Fault
  <2>2. QED
    BY <2>1 DEF VolumeInv, BookInv, TypeOK
<1>3. CASE UNCHANGED vars
  BY <1>3 DEF vars, VolumeInv, Held
<1> QED
  BY <1>1, <1>2, <1>3, RequestVolume, HostVolume, RunJobVolume DEF Next

\* A volume operation that ends, well or not, brings back the containers it stopped, and a
\* restore that went well leaves what was archived: until the first restart or container
\* that does not stop or start, whatever else is asked for meanwhile.
THEOREM VolumeIsKept == Spec => []VolumeKept
<1>1. Init => VolumeInv
  BY DEF Init, NoJob, VolumeInv, Held
<1>2. BookInv /\ VolumeInv => VolumeKept
  <2>1. BookInv /\ VolumeInv => ContainersBack
    BY DEF BookInv, JobInv, Ops, VolumeInv, Held, ContainersBack
  <2>2. BookInv /\ VolumeInv => RestoreWhole
    BY DEF BookInv, JobInv, VolumeInv, RestoreWhole, At, J
  <2>3. QED
    BY <2>1, <2>2 DEF VolumeKept
<1> QED
  BY <1>1, <1>2, StepVolume, BookHolds, PTL DEF Spec

=============================================================================
