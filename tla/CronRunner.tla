----------------------------- MODULE CronRunner -----------------------------
(***************************************************************************)
(* One CRON deployment: its schedule (CronService.sync, unregister), the     *)
(* executions that ticks and "run now" start (CronService.execute), the      *)
(* rows of cron_runs, and the deploys, stops and starts that arm and disarm  *)
(* the schedule.  Deploys and stops are jobs of the build queue, one at a     *)
(* time; a start runs in its request, beside the queue.                     *)
(***************************************************************************)
EXTENDS Naturals, Sequences, FiniteSets

CONSTANTS
  Runs,        \* executions: ticks and manual runs
  Callers,     \* start requests that can be in flight at the same time
  MaxJobs,     \* bound: deploys and stops enqueued
  MaxStarts,   \* bound: start requests
  MaxCrashes,  \* bound: restarts of the backend
  Racing       \* whether starts are issued while jobs are pending, and jobs while starts are

ASSUME CronAssumption ==
  MaxJobs \in Nat /\ MaxStarts \in Nat /\ MaxCrashes \in Nat /\ Racing \in BOOLEAN

VARIABLES
  state,     \* deployments.state
  active,    \* whether there is an active release (with an image)
  armed,     \* whether the registry holds the deployment's cron job
  running,   \* whether CronService.running has the deployment
  exec,      \* per execution: where it is
  row,       \* per execution: the status of its cron_runs row
  queue,     \* deploys and stops waiting for the build queue
  job,       \* the job that runs
  pc,        \* its next await
  call,      \* per start request: where it is, and the row it has read again
  jobs,      \* jobs enqueued so far
  starts,    \* start requests so far
  crashes    \* restarts so far

sched == <<state, active, armed>>
execution == <<running, exec, row>>
builds == <<queue, job, pc, jobs>>
requests == <<call, starts, crashes>>
vars == <<state, active, armed, running, exec, row, queue, job, pc, call, jobs, starts, crashes>>

States == {"CREATED", "DEPLOYING", "RUNNING", "DEGRADED", "ERROR", "STOPPED"}
Inside == {"insert", "container", "finish"}
NoCall == [at |-> "idle", read |-> "CREATED"]

TypeOK ==
  /\ state \in States /\ active \in BOOLEAN /\ armed \in BOOLEAN /\ running \in BOOLEAN
  /\ exec \in [Runs -> Inside \cup {"new", "deployment", "release", "lost", "unwritten", "dead", "done"}]
  /\ row \in [Runs -> {"none", "RUNNING", "SUCCESS", "FAILED"}]
  /\ queue \in Seq({"deploy", "stop"}) /\ job \in {"none", "deploy", "stop"}
  /\ pc \in {"idle", "begin", "live", "activate", "state", "sync", "failed", "stopped"}
  /\ call \in [Callers -> [at : {"idle", "state", "read", "sync"}, read : States]]
  /\ jobs \in 0..MaxJobs /\ starts \in 0..MaxStarts /\ crashes \in 0..MaxCrashes

Init ==
  /\ state = "CREATED" /\ active = FALSE /\ armed = FALSE
  /\ running = FALSE
  /\ exec = [r \in Runs |-> "new"] /\ row = [r \in Runs |-> "none"]
  /\ queue = <<>> /\ job = "none" /\ pc = "idle" /\ jobs = 0
  /\ call = [c \in Callers |-> NoCall] /\ starts = 0 /\ crashes = 0

-----------------------------------------------------------------------------
(***************************************************************************)
(* CronService.execute.                                                     *)
(***************************************************************************)
Goes(r, from, to) == exec[r] = from /\ exec' = [exec EXCEPT ![r] = to]

\* A tick of the armed job, or "run now", which needs no schedule.  The flag is
\* looked at here and set two awaits later.
Begin(r) ==
  /\ Goes(r, "new", IF running THEN "done" ELSE "deployment")
  /\ UNCHANGED <<running, row, sched, builds, requests>>

ReadDeployment(r) ==
  /\ Goes(r, "deployment", IF active THEN "release" ELSE "done")
  /\ UNCHANGED <<running, row, sched, builds, requests>>

ReadRelease(r) ==
  /\ Goes(r, "release", "insert")
  /\ running' = TRUE
  /\ UNCHANGED <<row, sched, builds, requests>>

\* runs.start is outside the try: when the insert throws, the flag stays.  (That
\* is for a manual run; a tick's rejection is unhandled and ends the process.)
InsertRun(r) ==
  /\ \/ Goes(r, "insert", "container") /\ row' = [row EXCEPT ![r] = "RUNNING"]
     \/ Goes(r, "insert", "lost") /\ UNCHANGED row
  /\ UNCHANGED <<running, sched, builds, requests>>

\* The container runs to completion, or Docker refuses it.
RunContainer(r) ==
  /\ Goes(r, "container", "finish")
  /\ UNCHANGED <<running, row, sched, builds, requests>>

\* Mutant: the flag is cleared only when the run succeeded.
FinishIfGood(r) ==
  /\ Goes(r, "finish", "done")
  /\ \/ row' = [row EXCEPT ![r] = "SUCCESS"] /\ running' = FALSE
     \/ row' = [row EXCEPT ![r] = "FAILED"] /\ UNCHANGED running
  /\ UNCHANGED <<sched, builds, requests>>

\* Mutant: a run whose container failed is not written back.
FinishGoodOnly(r) ==
  /\ Goes(r, "finish", "done")
  /\ \E s \in {"SUCCESS", "RUNNING"} : row' = [row EXCEPT ![r] = s]
  /\ running' = FALSE
  /\ UNCHANGED <<sched, builds, requests>>

\* Mutant: the row gets a word that is not a status.
FinishWord(r) ==
  /\ Goes(r, "finish", "done")
  /\ row' = [row EXCEPT ![r] = "DONE"]
  /\ running' = FALSE
  /\ UNCHANGED <<sched, builds, requests>>

\* finish, then the finally, which clears the flag also when the update throws.
FinishRun(r) ==
  /\ \/ Goes(r, "finish", "done") /\ \E s \in {"SUCCESS", "FAILED"} : row' = [row EXCEPT ![r] = s]
     \/ Goes(r, "finish", "unwritten") /\ UNCHANGED row
  /\ running' = FALSE
  /\ UNCHANGED <<sched, builds, requests>>

-----------------------------------------------------------------------------
(***************************************************************************)
(* Deploys and stops: jobs of the build queue.                              *)
(***************************************************************************)
\* sync registers or removes the job according to the row it is given.
SyncWith(s, isActive) == armed' = (isActive /\ s # "STOPPED")

StartsIdle == \A c \in Callers : call[c].at = "idle"
JobsIdle == job = "none" /\ queue = <<>>
MayEnqueue == Racing \/ StartsIdle
MayStart == Racing \/ JobsIdle

\* The awaits of the request are one step here; ReleaseLifecycle has them apart.
Deploy ==
  /\ MayEnqueue
  /\ jobs < MaxJobs /\ jobs' = jobs + 1
  /\ state' = "DEPLOYING"
  /\ queue' = Append(queue, "deploy")
  /\ UNCHANGED <<active, armed, execution, job, pc, requests>>

Stop ==
  /\ MayEnqueue
  /\ jobs < MaxJobs /\ jobs' = jobs + 1
  /\ queue' = Append(queue, "stop")
  /\ UNCHANGED <<sched, execution, job, pc, requests>>

TakeJob ==
  /\ job = "none" /\ queue # <<>>
  /\ job' = Head(queue) /\ queue' = Tail(queue) /\ pc' = "begin"
  /\ UNCHANGED <<sched, execution, jobs, requests>>

Step(p) == pc = p /\ UNCHANGED <<execution, queue, jobs, requests>>
Goto(p) == pc' = p /\ UNCHANGED job
Finish == pc' = "idle" /\ job' = "none"

\* Clone and build; the failure of either leaves schedule and releases alone.
BuildImage ==
  /\ Step("begin") /\ job = "deploy"
  /\ Goto("activate") \/ Goto("failed")
  /\ UNCHANGED sched

SetActive == Step("activate") /\ active' = TRUE /\ Goto("state") /\ UNCHANGED <<state, armed>>

SetRunning == Step("state") /\ state' = "RUNNING" /\ Goto("sync") /\ UNCHANGED <<active, armed>>

\* The row is read again for sync.
SyncDeployed == Step("sync") /\ SyncWith(state, active) /\ Finish /\ UNCHANGED <<state, active>>

DeployFailed ==
  /\ Step("failed")
  /\ state' \in {"DEGRADED", "ERROR"}
  /\ Finish
  /\ UNCHANGED <<active, armed>>

Unregister ==
  /\ Step("begin") /\ job = "stop"
  /\ armed' = FALSE
  /\ Goto("stopped")
  /\ UNCHANGED <<state, active>>

SetStopped == Step("stopped") /\ state' = "STOPPED" /\ Finish /\ UNCHANGED <<active, armed>>

-----------------------------------------------------------------------------
(***************************************************************************)
(* start of a CRON deployment: no job, three awaits in the request.         *)
(***************************************************************************)
StartRead(c) ==
  /\ MayStart
  /\ starts < MaxStarts /\ starts' = starts + 1
  /\ call[c].at = "idle" /\ active
  /\ call' = [call EXCEPT ![c].at = "state"]
  /\ UNCHANGED <<sched, execution, builds, crashes>>

StartSetRunning(c) ==
  /\ call[c].at = "state"
  /\ state' = "RUNNING"
  /\ call' = [call EXCEPT ![c].at = "read"]
  /\ UNCHANGED <<active, armed, execution, builds, starts, crashes>>

StartReadAgain(c) ==
  /\ call[c].at = "read"
  /\ call' = [call EXCEPT ![c] = [at |-> "sync", read |-> state]]
  /\ UNCHANGED <<sched, execution, builds, starts, crashes>>

StartSync(c) ==
  /\ call[c].at = "sync"
  /\ SyncWith(call[c].read, active)
  /\ call' = [call EXCEPT ![c] = NoCall]
  /\ UNCHANGED <<state, active, execution, builds, starts, crashes>>

-----------------------------------------------------------------------------
(***************************************************************************)
(* A restart.  What ran is gone: the flag, the queue and the requests, and    *)
(* the code that would have written the run's row.  On boot the schedules   *)
(* of all rows are synced, and reconcile starts whatever has no container,   *)
(* which a CRON deployment never has.                                       *)
(***************************************************************************)
Died == [r \in Runs |-> IF exec[r] \in {"new", "done", "unwritten"} THEN exec[r] ELSE "dead"]

MemoryLost ==
  /\ crashes < MaxCrashes /\ crashes' = crashes + 1
  /\ exec' = Died /\ running' = FALSE
  /\ queue' = <<>> /\ job' = "none" /\ pc' = "idle"
  /\ call' = [c \in Callers |-> NoCall]

\* Mutant: only the deployments shown as RUNNING are armed again.
RestartStarted ==
  /\ MemoryLost
  /\ state' = IF active /\ state # "STOPPED" THEN "RUNNING" ELSE state
  /\ armed' = (active /\ state = "RUNNING")
  /\ UNCHANGED <<active, row, jobs, starts>>

Restart ==
  /\ MemoryLost
  /\ state' = IF active /\ state # "STOPPED" THEN "RUNNING" ELSE state
  /\ SyncWith(state, active)
  /\ UNCHANGED <<active, row, jobs, starts>>

-----------------------------------------------------------------------------
Execute(r) ==
  ReadDeployment(r) \/ ReadRelease(r) \/ InsertRun(r) \/ RunContainer(r) \/ FinishRun(r)

RunJob ==
  \/ TakeJob \/ BuildImage \/ SetActive \/ SetRunning \/ SyncDeployed \/ DeployFailed
  \/ Unregister \/ SetStopped

Start(c) == StartSetRunning(c) \/ StartReadAgain(c) \/ StartSync(c)

Next ==
  \/ \E r \in Runs : Begin(r) \/ Execute(r)
  \/ Deploy \/ Stop \/ RunJob
  \/ \E c \in Callers : StartRead(c) \/ Start(c)
  \/ Restart

Spec == Init /\ [][Next]_vars

-----------------------------------------------------------------------------
(***************************************************************************)
(* Properties.                                                              *)
(***************************************************************************)
\* "Overlapping runs of the same deployment are skipped" (cron.service.ts:23).
NoOverlap == Cardinality({r \in Runs : exec[r] \in Inside}) <= 1

\* The flag is never left behind, so later ticks are not skipped for ever: it is
\* set only while an execution is inside, or after the insert of its row failed.
NoLeak == running => \E r \in Runs : exec[r] \in Inside \cup {"lost"}

\* The history tells what happened: a row is RUNNING exactly while its container
\* may run, unless a restart or a failed update left it; every execution that ended has its result.
RowsMatch ==
  \A r \in Runs :
    /\ exec[r] \in {"container", "finish"} => row[r] = "RUNNING"
    /\ row[r] = "RUNNING" => exec[r] \in {"container", "finish", "unwritten", "dead"}

\* At rest the schedule is what the state says: a RUNNING deployment is armed, a
\* STOPPED one is not, after any sequence of deploys, stops, starts and restarts.
ScheduleFollowsState ==
  StartsIdle /\ JobsIdle =>
    /\ state = "RUNNING" => armed
    /\ state = "STOPPED" => ~armed
=============================================================================
