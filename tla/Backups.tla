------------------------------- MODULE Backups -------------------------------
(***************************************************************************)
(* BackupsService for one volume: backups, restores, resets, pruning and      *)
(* removal, their rows, artifacts and activity tasks, the containers that use    *)
(* the volume, and the restart of the process.                                *)
(*                                                                         *)
(* Jobs of one volume run one at a time, in the order they were enqueued          *)
(* (BackupQueue is the algorithm of module BuildQueue).  What is done to the       *)
(* data is done by a one-shot container of the Docker host, which goes on when      *)
(* the backend dies.  Requests that are not queued interleave with the job.          *)
(***************************************************************************)
EXTENDS Naturals, Sequences, FiniteSets

CONSTANTS
  Containers, \* containers of the deployment that mount the volume
  MaxOps,     \* bound: requests and scheduled runs, numbered as they come
  Kinds,      \* the operations this instance exercises
  Keep,       \* retention of the schedule
  MaxFaults   \* bound: restarts, containers that do not stop or start

ASSUME BackupsAssumption == MaxOps \in Nat /\ MaxFaults \in Nat

Ops == 1..MaxOps
Contents == {"old", "new", "empty"}      \* what a whole volume may hold

VARIABLES
  op,      \* per operation: what it is, how far it is, its task
  row,     \* backups.status of the backup an operation makes
  art,     \* its file in BACKUPS_DIR
  vol,     \* the volume
  con,     \* run state of the containers, and whether they ran in the beginning
  queue,   \* operations enqueued and not begun
  job,     \* the one that runs, with the locals of its function
  helper,  \* per operation: its one-shot container
  restarts,
  faults

db == <<row, art>>
vars == <<op, row, art, vol, con, queue, job, helper, restarts, faults>>

NoOp == [kind |-> "none", of |-> 0, at |-> "new", task |-> "none", loc |-> FALSE]
NoJob == [op |-> 0, pc |-> "idle", ids |-> {}, ok |-> TRUE, doomed |-> {}]
Tracked == {"backup", "restore", "reset"}
Pcs == {"idle", "mark", "list", "stop", "run", "wait", "record", "rowfailed", "start", "settle", "select", "prune", "unlinked"}

TypeOK ==
  /\ op \in [Ops -> [kind : Tracked \cup {"none", "prune", "remove"}, of : 0..MaxOps,
                     at : {"new", "asked", "unlinked", "queued", "running", "over"},
                     task : {"none", "PENDING", "RUNNING", "SUCCESS", "FAILED"}, loc : BOOLEAN]]
  /\ row \in [Ops -> {"none", "PENDING", "RUNNING", "SUCCESS", "FAILED", "deleted"}]
  /\ art \in [Ops -> Contents \cup {"none", "partial", "half"}]
  /\ vol \in Contents \cup {"half"}
  /\ con \in [Containers -> [up : BOOLEAN, ran : BOOLEAN]]
  /\ queue \in Seq(Ops)
  /\ job \in [op : 0..MaxOps, pc : Pcs, ids : SUBSET Containers, ok : BOOLEAN, doomed : SUBSET Ops]
  /\ helper \in [Ops -> {"none", "wiping", "working", "ok", "bad"}]
  /\ restarts \in 0..MaxFaults /\ faults \in 0..MaxFaults

Init ==
  /\ op = [i \in Ops |-> NoOp] /\ row = [b \in Ops |-> "none"] /\ art = [b \in Ops |-> "none"]
  /\ vol = "old" /\ con \in {[c \in Containers |-> [up |-> u[c], ran |-> u[c]]] : u \in [Containers -> BOOLEAN]}
  /\ queue = <<>> /\ job = NoJob /\ helper = [i \in Ops |-> "none"]
  /\ restarts = 0 /\ faults = 0

Exists(b) == row[b] \notin {"none", "deleted"}
Fault == faults < MaxFaults /\ faults' = faults + 1

-----------------------------------------------------------------------------
(* Requests. *)

Ask(i, k, b, at) ==
  /\ op[i].at = "new" /\ (\A j \in 1..(i - 1) : op[j].at # "new") /\ k \in Kinds
  /\ op' = [op EXCEPT ![i] = [NoOp EXCEPT !.kind = k, !.of = b, !.at = at,
                              !.loc = k = "remove" /\ row[b] = "SUCCESS"]]

(* create: the row is PENDING before the task and the job exist. *)
AskBackup(i) ==
  /\ Ask(i, "backup", i, "asked") /\ row' = [row EXCEPT ![i] = "PENDING"]
  /\ UNCHANGED <<art, vol, con, queue, job, helper, restarts, faults>>

(* restore looks at the row now; its job looks at it no more. *)
AskRestore(i, b) ==
  /\ row[b] = "SUCCESS" /\ Ask(i, "restore", b, "asked")
  /\ UNCHANGED <<db, vol, con, queue, job, helper, restarts, faults>>

AskReset(i) ==
  /\ Ask(i, "reset", 0, "asked")
  /\ UNCHANGED <<db, vol, con, queue, job, helper, restarts, faults>>

(* schedulePrune has no row and no task. *)
AskPrune(i) ==
  /\ Ask(i, "prune", 0, "queued") /\ queue' = Append(queue, i)
  /\ UNCHANGED <<db, vol, con, job, helper, restarts, faults>>

(* The task is inserted, then the job is enqueued in the same step. *)
Enqueue(i) ==
  /\ op[i].at = "asked" /\ op[i].kind \in Tracked
  /\ op' = [op EXCEPT ![i].at = "queued", ![i].task = "PENDING"] /\ queue' = Append(queue, i)
  /\ UNCHANGED <<db, vol, con, job, helper, restarts, faults>>

(* remove, not queued: it reads the row, whose location only SUCCESS has, then takes the file *)
(* away, then the row, whatever their status by then. *)
AskRemove(i, b) ==
  /\ Exists(b) /\ Ask(i, "remove", b, "asked")
  /\ UNCHANGED <<db, vol, con, queue, job, helper, restarts, faults>>

RemoveFile(i) ==
  /\ op[i].at = "asked" /\ op[i].kind = "remove" /\ op' = [op EXCEPT ![i].at = "unlinked"]
  /\ art' = IF op[i].loc THEN [art EXCEPT ![op[i].of] = "none"] ELSE art
  /\ UNCHANGED <<row, vol, con, queue, job, helper, restarts, faults>>

RemoveRow(i) ==
  /\ op[i].at = "unlinked" /\ op' = [op EXCEPT ![i].at = "over"]
  /\ row' = [row EXCEPT ![op[i].of] = "deleted"]
  /\ UNCHANGED <<art, vol, con, queue, job, helper, restarts, faults>>

-----------------------------------------------------------------------------
(* Jobs. *)

J == job.op
Goto(pc) == job' = [job EXCEPT !.pc = pc]
At(pc) == job.pc = pc
WithRow(b, s) == IF Exists(b) THEN [row EXCEPT ![b] = s] ELSE row

(* The job at the head gets its turn; enqueueTracked marks the task RUNNING. *)
TakeJob ==
  /\ At("idle") /\ queue # <<>> /\ queue' = Tail(queue)
  /\ LET i == Head(queue) IN
     /\ job' = [NoJob EXCEPT !.op = i, !.pc = CASE op[i].kind = "backup" -> "mark"
                                                [] op[i].kind = "prune" -> "select"
                                                [] OTHER -> "list"]
     /\ op' = [op EXCEPT ![i].at = "running", ![i].task = IF @ = "none" THEN @ ELSE "RUNNING"]
  /\ UNCHANGED <<db, vol, con, helper, restarts, faults>>

(* runVolumeTar. *)
MarkRunning ==
  /\ At("mark") /\ Goto("run") /\ row' = WithRow(J, "RUNNING")
  /\ UNCHANGED <<op, art, vol, con, queue, helper, restarts, faults>>

(* runVolumeOp: whatever mounts the volume, running or not; Docker may not answer. *)
ListUsers ==
  /\ At("list")
  /\ job' \in {[job EXCEPT !.pc = "stop", !.ids = Containers], [job EXCEPT !.pc = "settle", !.ok = FALSE]}
  /\ UNCHANGED <<op, db, vol, con, queue, helper, restarts, faults>>

(* Mutant: Only the first container is stopped. *)
StopFirst ==
  /\ At("stop") /\ Goto("run")
  /\ \E c \in Containers : con' = [con EXCEPT ![c].up = FALSE]
  /\ UNCHANGED <<op, db, vol, queue, helper, restarts, faults>>

(* One container after the other; stopContainer takes every error for "already stopped". *)
StopUsers ==
  /\ At("stop") /\ Goto("run")
  /\ \/ con' = [c \in Containers |-> [con[c] EXCEPT !.up = FALSE]] /\ UNCHANGED faults
     \/ Fault /\ \E c \in Containers : con' = [d \in Containers |-> [con[d] EXCEPT !.up = d = c /\ @]]
  /\ UNCHANGED <<op, db, vol, queue, helper, restarts>>

(* runToCompletion: the container is created and started, or not; the tar leaves a file at once. *)
RunHelper ==
  /\ At("run")
  /\ \/ /\ helper' = [helper EXCEPT ![J] = IF op[J].kind = "backup" THEN "working" ELSE "wiping"]
        /\ art' = IF op[J].kind = "backup" THEN [art EXCEPT ![J] = "partial"] ELSE art
        /\ Goto("wait")
     \/ helper' = [helper EXCEPT ![J] = "bad"] /\ Goto("wait") /\ UNCHANGED art
  /\ UNCHANGED <<op, row, vol, con, queue, restarts, faults>>

(* The helper's end is awaited: an error or another exit code throws. *)
HelperEnded ==
  /\ At("wait") /\ helper[J] \in {"ok", "bad"}
  /\ job' = [job EXCEPT !.ok = helper[J] = "ok",
                        !.pc = IF op[J].kind # "backup" THEN "start"
                               ELSE IF helper[J] = "ok" THEN "record" ELSE "rowfailed"]
  /\ UNCHANGED <<op, db, vol, con, queue, helper, restarts, faults>>

(* measure reads the file, then the row becomes SUCCESS with its location. *)
Record ==
  /\ At("record") /\ Goto("settle") /\ row' = WithRow(J, "SUCCESS")
  /\ UNCHANGED <<op, art, vol, con, queue, helper, restarts, faults>>

(* Mutant: The error is not thrown on after the row is written. *)
MarkFailedQuiet ==
  /\ At("rowfailed") /\ job' = [job EXCEPT !.pc = "settle", !.ok = TRUE]
  /\ row' = WithRow(J, "FAILED")
  /\ UNCHANGED <<op, art, vol, con, queue, helper, restarts, faults>>

MarkFailed ==
  /\ At("rowfailed") /\ Goto("settle") /\ row' = WithRow(J, "FAILED")
  /\ UNCHANGED <<op, art, vol, con, queue, helper, restarts, faults>>

(* The finally: every container that was listed is started, errors ignored. *)
StartUsers ==
  /\ At("start") /\ Goto("settle")
  /\ \/ con' = [c \in Containers |-> [con[c] EXCEPT !.up = @ \/ c \in job.ids]] /\ UNCHANGED faults
     \/ Fault /\ \E c \in Containers :
          con' = [d \in Containers |-> [con[d] EXCEPT !.up = @ \/ d \in job.ids \ {c}]]
  /\ UNCHANGED <<op, db, vol, queue, helper, restarts>>

(* pruneTarget: all but the newest SUCCESS rows, newest first; then remove, row by row. *)
Select ==
  /\ At("select")
  /\ job' = [job EXCEPT !.pc = "prune",
       !.doomed = {b \in Ops : row[b] = "SUCCESS" /\ Cardinality({n \in Ops : n > b /\ row[n] = "SUCCESS"}) >= Keep}]
  /\ UNCHANGED <<op, db, vol, con, queue, helper, restarts, faults>>

Newest(S) == CHOOSE b \in S : \A n \in S : n <= b
PruneUnlink ==
  /\ At("prune") /\ job.doomed # {}
  /\ LET b == Newest(job.doomed) IN
     IF Exists(b) THEN Goto("unlinked") /\ art' = [art EXCEPT ![b] = "none"]
     ELSE job' = [job EXCEPT !.doomed = @ \ {b}] /\ UNCHANGED art
  /\ UNCHANGED <<op, row, vol, con, queue, helper, restarts, faults>>

PruneRow ==
  LET b == Newest(job.doomed) IN
  /\ At("unlinked") /\ row' = [row EXCEPT ![b] = "deleted"]
  /\ job' = [job EXCEPT !.pc = "prune", !.doomed = @ \ {b}]
  /\ UNCHANGED <<op, art, vol, con, queue, helper, restarts, faults>>

(* The job ends, well or not, and its task with it. *)
Settle ==
  /\ At("settle") \/ (At("prune") /\ job.doomed = {})
  /\ op' = [op EXCEPT ![J].at = "over",
                      ![J].task = IF @ = "none" THEN @ ELSE IF job.ok THEN "SUCCESS" ELSE "FAILED"]
  /\ job' = NoJob
  /\ UNCHANGED <<db, vol, con, queue, helper, restarts, faults>>

-----------------------------------------------------------------------------
(* The Docker host. *)

(* The volume is empty; a restore then unpacks into it, if the archive can be opened. *)
Wipe(i) ==
  LET missing == op[i].kind = "restore" /\ art[op[i].of] = "none" IN
  /\ helper[i] = "wiping"
  /\ vol' = IF op[i].kind = "reset" \/ missing THEN "empty" ELSE "half"
  /\ helper' = [helper EXCEPT ![i] = IF op[i].kind = "reset" THEN "ok" ELSE IF missing THEN "bad" ELSE "working"]
  /\ UNCHANGED <<op, db, con, queue, job, restarts, faults>>

(* The archive is complete, or unpacked; or the command fails half-way. *)
Work(i) ==
  LET b == op[i].of IN
  /\ helper[i] = "working"
  /\ \/ /\ helper' = [helper EXCEPT ![i] = "ok"]
        /\ IF op[i].kind = "backup" THEN art' = [art EXCEPT ![i] = vol] /\ UNCHANGED vol
           ELSE art[b] \notin {"none", "partial"} /\ vol' = art[b] /\ UNCHANGED art
     \/ helper' = [helper EXCEPT ![i] = "bad"] /\ UNCHANGED <<art, vol>>
  /\ UNCHANGED <<op, row, con, queue, job, restarts, faults>>

(* A running container changes what it finds in a whole volume. *)
AppWrites ==
  /\ \E c \in Containers : con[c].up
  /\ vol \in {"old", "empty"} /\ vol' = "new"
  /\ UNCHANGED <<op, db, con, queue, job, helper, restarts, faults>>

(* Mutant: Boot leaves the tasks as they are. *)
RestartKeepsTasks ==
  /\ Fault /\ restarts' = restarts + 1
  /\ queue' = <<>> /\ job' = NoJob
  /\ op' = [i \in Ops |-> IF op[i].at = "new" THEN op[i] ELSE [op[i] EXCEPT !.at = "over"]]
  /\ UNCHANGED <<db, vol, con, helper>>

(* The process dies, and boots: what was asked, queued or running is forgotten, and active tasks *)
(* are marked as interrupted.  Backup rows are left as they are. *)
Restart ==
  /\ Fault /\ restarts' = restarts + 1
  /\ queue' = <<>> /\ job' = NoJob
  /\ op' = [i \in Ops |-> IF op[i].at = "new" THEN op[i]
                          ELSE [op[i] EXCEPT !.at = "over",
                                  !.task = IF @ \in {"PENDING", "RUNNING"} THEN "FAILED" ELSE @]]
  /\ UNCHANGED <<db, vol, con, helper>>

Request(i) ==
  \/ AskBackup(i) \/ AskReset(i) \/ AskPrune(i) \/ Enqueue(i) \/ RemoveFile(i) \/ RemoveRow(i)
  \/ \E b \in Ops : AskRestore(i, b) \/ AskRemove(i, b)
RunJob ==
  \/ TakeJob \/ MarkRunning \/ ListUsers \/ StopUsers \/ RunHelper \/ HelperEnded \/ Record \/ MarkFailed
  \/ StartUsers \/ Select \/ PruneUnlink \/ PruneRow \/ Settle
Host(i) == Wipe(i) \/ Work(i)

Next == (\E i \in Ops : Request(i) \/ Host(i)) \/ RunJob \/ AppWrites \/ Restart

Spec == Init /\ [][Next]_vars

(* Awaits complete, the queue gives every job its turn, helpers end. *)
FairSpec ==
  /\ Spec
  /\ WF_vars(RunJob)
  /\ \A i \in Ops : WF_vars(Enqueue(i)) /\ WF_vars(RemoveFile(i) \/ RemoveRow(i)) /\ WF_vars(Host(i))

-----------------------------------------------------------------------------
(* The activity task of a backup and its row tell the same: SUCCESS only with a row that has its *)
(* archive (or was removed since), FAILED never with one, unless the process died in between *)
(* (enqueueTracked and runVolumeTar, which rethrows for it). *)
TaskTruth ==
  \A b \in Ops : op[b].kind = "backup" =>
    /\ op[b].task = "SUCCESS" => row[b] \in {"SUCCESS", "deleted"}
    /\ restarts = 0 => (row[b] = "SUCCESS" => op[b].task \in {"RUNNING", "SUCCESS"})
    /\ row[b] = "FAILED" => op[b].task \in {"RUNNING", "FAILED"}

Removing(b) ==
  \/ job.pc = "unlinked" /\ Newest(job.doomed) = b
  \/ \E i \in Ops : op[i].at = "unlinked" /\ op[i].of = b

(* A backup that the panel offers has a complete archive of what the volume held, except while it *)
(* is being removed. *)
SuccessHasArtifact ==
  \A b \in Ops : row[b] = "SUCCESS" /\ ~Removing(b) /\ restarts = 0 => art[b] \notin {"none", "partial"}

(* What the panel says of a backup is so. *)
BackupsInv == TypeOK /\ TaskTruth /\ SuccessHasArtifact

(* A volume operation that fails still brings back the containers it stopped: with no job running *)
(* and no fault so far, what ran in the beginning runs (the finally of runVolumeOp). *)
ContainersBack == job.op = 0 /\ faults = 0 => \A c \in Containers : con[c].ran => con[c].up

(* A restore that has gone well leaves exactly what was archived (unless the archive was removed *)
(* since), and no container has written to it before the containers are started again. *)
RestoreWhole ==
  At("start") /\ op[J].kind = "restore" /\ job.ok /\ faults = 0 => art[op[J].of] \in {vol, "none"}

(* Neither the containers nor the contents of a volume are left half way. *)
VolumeKept == ContainersBack /\ RestoreWhole

(* Every operation that was asked for ends, and so does its task. *)
TasksEnd == \A i \in Ops : op[i].at = "asked" ~> (op[i].at = "over" /\ op[i].task \notin {"PENDING", "RUNNING"})

(* "a live container never sees a half-written volume" (backups.service.ts:312). *)
HalfWrittenUnseen == vol = "half" => \A c \in Containers : ~con[c].up

(* A restore finds the archive it is going to replace the volume with. *)
WipeHasArchive == \A i \in Ops : helper[i] = "wiping" /\ op[i].kind = "restore" => art[op[i].of] # "none"

(* What did not run is not started by a volume operation. *)
StoppedStaysDown == \A c \in Containers : ~con[c].ran => ~con[c].up

(* Pruning leaves the newest Keep backups. *)
PruneSpares ==
  [][\A b \in Ops : At("unlinked") /\ row[b] = "SUCCESS" /\ row'[b] = "deleted" =>
       Cardinality({n \in Ops : n > b /\ row[n] = "SUCCESS"}) >= Keep]_vars

(* No archive is left behind without a row. *)
NoOrphanArchive == \A b \in Ops : row[b] = "deleted" => art[b] = "none"

(* No row is shown in progress when nothing works on it. *)
RowsSettle == job.op = 0 /\ queue = <<>> /\ (\A i \in Ops : op[i].at # "asked") =>
                \A b \in Ops : row[b] \notin {"PENDING", "RUNNING"}
=============================================================================
