---------------------------- MODULE EnginesProofs ----------------------------
(***************************************************************************)
(* Proofs about CronRunner for every set of executions and callers and all   *)
(* bounds, and about ComposeRelease, as the run of Engines checks it, for     *)
(* every set of releases, services, layouts and requests and all bounds.      *)
(***************************************************************************)
EXTENDS Engines, TLAPS, FiniteSetTheorems, SequenceTheorems, WellFoundedInduction

USE CronAssumption

(***************************************************************************)
(* The inductive invariant behind ScheduleFollowsState: what the jobs and     *)
(* the start requests know between their awaits.                            *)
(***************************************************************************)
TurnsInv ==
  /\ StartsIdle \/ JobsIdle
  /\ pc = "idle" <=> job = "none"

JobInv ==
  /\ pc = "sync" => active /\ state \in {"RUNNING", "DEPLOYING"}
  /\ pc = "state" => active
  /\ pc = "stopped" => ~armed

StartInv ==
  \A c \in Callers :
    /\ call[c].at # "idle" => active
    /\ call[c].at \in {"read", "sync"} => state = "RUNNING"
    /\ call[c].at = "sync" => call[c].read = "RUNNING"

\* Nobody is between the write of RUNNING and the sync that follows it, and no
\* stop between the two things it does.
NoSyncPending ==
  pc \notin {"sync", "stopped"} /\ \A c \in Callers : call[c].at \notin {"read", "sync"}

ArmedInv ==
  /\ state = "RUNNING" => active
  /\ state = "RUNNING" /\ NoSyncPending => armed
  /\ state = "STOPPED" => ~armed

ScheduleInv == TypeOK /\ TurnsInv /\ JobInv /\ StartInv /\ ArmedInv

(***************************************************************************)
(* Types.                                                                   *)
(***************************************************************************)
LEMMA InitTypes == Init => TypeOK
<1> SUFFICES ASSUME Init PROVE TypeOK
  OBVIOUS
<1>1. call \in [Callers -> [at : {"idle", "state", "read", "sync"}, read : States]]
  BY DEF Init, NoCall, States
<1>2. jobs \in 0..MaxJobs /\ starts \in 0..MaxStarts /\ crashes \in 0..MaxCrashes
  BY DEF Init
<1>3. queue \in Seq({"deploy", "stop"})
  BY DEF Init
<1>4. QED
  BY <1>1, <1>2, <1>3 DEF Init, TypeOK, States, Inside

LEMMA StepTypes == TypeOK /\ [Next]_vars => TypeOK'
<1> SUFFICES ASSUME TypeOK, [Next]_vars PROVE TypeOK'
  OBVIOUS
<1> USE DEF TypeOK, States, Inside
<1>1. ASSUME NEW r \in Runs, Begin(r)
  PROVE TypeOK'
  BY <1>1 DEF Begin, Goes, TypeOK, sched, execution, builds, requests
<1>2. ASSUME NEW r \in Runs, ReadDeployment(r)
  PROVE TypeOK'
  BY <1>2 DEF ReadDeployment, Goes, TypeOK, sched, execution, builds, requests
<1>3. ASSUME NEW r \in Runs, ReadRelease(r)
  PROVE TypeOK'
  BY <1>3 DEF ReadRelease, Goes, TypeOK, sched, execution, builds, requests
<1>4. ASSUME NEW r \in Runs, InsertRun(r)
  PROVE TypeOK'
  BY <1>4 DEF InsertRun, Goes, TypeOK, sched, execution, builds, requests
<1>5. ASSUME NEW r \in Runs, RunContainer(r)
  PROVE TypeOK'
  BY <1>5 DEF RunContainer, Goes, TypeOK, sched, execution, builds, requests
<1>6. ASSUME NEW r \in Runs, FinishRun(r)
  PROVE TypeOK'
  <2>1. row' \in [Runs -> {"none", "RUNNING", "SUCCESS", "FAILED"}]
    BY <1>6 DEF FinishRun
  <2>2. exec' \in [Runs -> Inside \cup {"new", "deployment", "release", "lost", "unwritten", "dead", "done"}]
    BY <1>6 DEF FinishRun, Goes
  <2>3. QED
    BY <1>6, <2>1, <2>2 DEF FinishRun, Goes, TypeOK, sched, execution, builds, requests
<1>7. CASE Deploy
  BY <1>7 DEF Deploy, MayEnqueue, TypeOK, sched, execution, builds, requests
<1>8. CASE Stop
  BY <1>8 DEF Stop, MayEnqueue, TypeOK, sched, execution, builds, requests
<1>9. CASE TakeJob
  BY <1>9 DEF TakeJob, TypeOK, sched, execution, builds, requests
<1>10. CASE BuildImage
  BY <1>10 DEF BuildImage, Step, Goto, TypeOK, sched, execution, builds, requests
<1>11. CASE SetActive
  BY <1>11 DEF SetActive, Step, Goto, TypeOK, sched, execution, builds, requests
<1>12. CASE SetRunning
  BY <1>12 DEF SetRunning, Step, Goto, TypeOK, sched, execution, builds, requests
<1>13. CASE SyncDeployed
  BY <1>13 DEF SyncDeployed, Step, Finish, SyncWith, TypeOK, sched, execution, builds, requests
<1>14. CASE DeployFailed
  BY <1>14 DEF DeployFailed, Step, Finish, TypeOK, sched, execution, builds, requests
<1>15. CASE Unregister
  BY <1>15 DEF Unregister, Step, Goto, TypeOK, sched, execution, builds, requests
<1>16. CASE SetStopped
  BY <1>16 DEF SetStopped, Step, Finish, TypeOK, sched, execution, builds, requests
<1>17. ASSUME NEW c \in Callers, StartRead(c)
  PROVE TypeOK'
  BY <1>17 DEF StartRead, MayStart, TypeOK, sched, execution, builds, requests
<1>18. ASSUME NEW c \in Callers, StartSetRunning(c)
  PROVE TypeOK'
  BY <1>18 DEF StartSetRunning, TypeOK, sched, execution, builds, requests
<1>19. ASSUME NEW c \in Callers, StartReadAgain(c)
  PROVE TypeOK'
  BY <1>19 DEF StartReadAgain, TypeOK, sched, execution, builds, requests
<1>20. ASSUME NEW c \in Callers, StartSync(c)
  PROVE TypeOK'
  BY <1>20 DEF StartSync, SyncWith, NoCall, TypeOK, sched, execution, builds, requests
<1>21. CASE Restart
  <2>1. exec' \in [Runs -> Inside \cup {"new", "deployment", "release", "lost", "unwritten",
          "dead", "done"}]
    BY <1>21 DEF Restart, MemoryLost, Died
  <2>2. call' \in [Callers -> [at : {"idle", "state", "read", "sync"}, read : States]]
    BY <1>21 DEF Restart, MemoryLost, NoCall
  <2>3. armed' \in BOOLEAN /\ running' \in BOOLEAN
    BY <1>21 DEF Restart, MemoryLost, SyncWith
  <2>4. crashes' \in 0..MaxCrashes
    BY <1>21 DEF Restart, MemoryLost
  <2>5. QED
    BY <1>21, <2>1, <2>2, <2>3, <2>4 DEF Restart, MemoryLost
<1>22. CASE UNCHANGED vars
  BY <1>22 DEF TypeOK, vars
<1>23. QED
  BY <1>1, <1>2, <1>3, <1>4, <1>5, <1>6, <1>7, <1>8, <1>9, <1>10, <1>11, <1>12, <1>13, <1>14, <1>15,
     <1>16, <1>17, <1>18, <1>19, <1>20, <1>21, <1>22 DEF Next, Execute, RunJob, Start

\* Every variable keeps its type, for any executions, callers and bounds.
THEOREM TypeCorrect == Spec => []TypeOK
<1>1. Init => TypeOK
  BY InitTypes
<1>2. TypeOK /\ [Next]_vars => TypeOK'
  BY StepTypes
<1>3. QED
  BY <1>1, <1>2, PTL DEF Spec

(***************************************************************************)
(* Executions: the flag and the rows.  Only steps of executions and restarts *)
(* touch them.                                                              *)
(***************************************************************************)
ExecutionStep == \E r \in Runs : Begin(r) \/ Execute(r)

\* Every step is one of an execution, a restart, or leaves executions alone.
LEMMA StepKinds == [Next]_vars => ExecutionStep \/ Restart \/ UNCHANGED execution
<1> SUFFICES ASSUME [Next]_vars PROVE ExecutionStep \/ Restart \/ UNCHANGED execution
  OBVIOUS
<1>1. CASE UNCHANGED vars
  BY <1>1 DEF vars, execution
<1>2. CASE Deploy \/ Stop
  BY <1>2 DEF Deploy, Stop
<1>3. CASE RunJob
  BY <1>3 DEF RunJob, TakeJob, BuildImage, SetActive, SetRunning, SyncDeployed, DeployFailed,
              Unregister, SetStopped, Step
<1>4. CASE \E c \in Callers : StartRead(c) \/ Start(c)
  BY <1>4 DEF StartRead, Start, StartSetRunning, StartReadAgain, StartSync
<1>5. QED
  BY <1>1, <1>2, <1>3, <1>4 DEF Next, ExecutionStep

LEMMA StepNoLeak == TypeOK /\ NoLeak /\ [Next]_vars => NoLeak'
<1> SUFFICES ASSUME TypeOK, NoLeak, [Next]_vars PROVE NoLeak'
  OBVIOUS
<1>1. CASE UNCHANGED execution
  BY <1>1 DEF execution, NoLeak
<1>2. CASE Restart
  BY <1>2 DEF Restart, MemoryLost, NoLeak
<1>3. ASSUME NEW r \in Runs, Begin(r) \/ Execute(r)
      PROVE  NoLeak'
  <2>1. CASE Begin(r)
    BY <2>1 DEF Begin, Goes, NoLeak, Inside, TypeOK
  <2>2. CASE ReadDeployment(r)
    BY <2>2 DEF ReadDeployment, Goes, NoLeak, Inside, TypeOK
  <2>3. CASE ReadRelease(r)
    BY <2>3 DEF ReadRelease, Goes, NoLeak, Inside, TypeOK
  <2>4. CASE InsertRun(r)
    BY <2>4 DEF InsertRun, Goes, NoLeak, Inside, TypeOK
  <2>5. CASE RunContainer(r)
    BY <2>5 DEF RunContainer, Goes, NoLeak, Inside, TypeOK
  <2>6. CASE FinishRun(r)
    BY <2>6 DEF FinishRun, Goes, NoLeak, Inside, TypeOK
  <2>7. QED
    BY <1>3, <2>1, <2>2, <2>3, <2>4, <2>5, <2>6 DEF Execute
<1>4. QED
  BY <1>1, <1>2, <1>3, StepKinds DEF ExecutionStep

LEMMA StepRowsMatch == TypeOK /\ RowsMatch /\ [Next]_vars => RowsMatch'
<1> SUFFICES ASSUME TypeOK, RowsMatch, [Next]_vars PROVE RowsMatch'
  OBVIOUS
<1>1. CASE UNCHANGED execution
  BY <1>1 DEF execution, RowsMatch
<1>2. CASE Restart
  BY <1>2 DEF Restart, MemoryLost, Died, RowsMatch
<1>3. ASSUME NEW r \in Runs, Begin(r) \/ Execute(r)
      PROVE  RowsMatch'
  <2>1. CASE Begin(r)
    BY <2>1 DEF Begin, Goes, RowsMatch, TypeOK
  <2>2. CASE ReadDeployment(r)
    BY <2>2 DEF ReadDeployment, Goes, RowsMatch, TypeOK
  <2>3. CASE ReadRelease(r)
    BY <2>3 DEF ReadRelease, Goes, RowsMatch, TypeOK
  <2>4. CASE InsertRun(r)
    BY <2>4 DEF InsertRun, Goes, RowsMatch, TypeOK
  <2>5. CASE RunContainer(r)
    BY <2>5 DEF RunContainer, Goes, RowsMatch, TypeOK
  <2>6. CASE FinishRun(r)
    BY <2>6 DEF FinishRun, Goes, RowsMatch, TypeOK
  <2>7. QED
    BY <1>3, <2>1, <2>2, <2>3, <2>4, <2>5, <2>6 DEF Execute
<1>4. QED
  BY <1>1, <1>2, <1>3, StepKinds DEF ExecutionStep

\* The flag is never left behind: when it is set an execution is inside, or the
\* insert of its row has failed.
THEOREM FlagNotLeaked == Spec => []NoLeak
<1>1. Init => NoLeak
  BY DEF Init, NoLeak
<1>2. QED
  BY <1>1, StepNoLeak, TypeCorrect, PTL DEF Spec

\* The run history tells what happened.
THEOREM HistoryTrue == Spec => []RowsMatch
<1>1. Init => RowsMatch
  BY DEF Init, RowsMatch
<1>2. QED
  BY <1>1, StepRowsMatch, TypeCorrect, PTL DEF Spec

(***************************************************************************)
(* The schedule, when starts do not race with jobs.                         *)
(***************************************************************************)
LEMMA InitSchedule == Init => ScheduleInv
<1> SUFFICES ASSUME Init PROVE ScheduleInv
  OBVIOUS
<1>1. TypeOK
  BY InitTypes
<1>2. \A c \in Callers : call[c].at = "idle"
  BY DEF Init, NoCall
<1>3. QED
  BY <1>1, <1>2 DEF Init, ScheduleInv, TurnsInv, StartsIdle, JobInv, StartInv, ArmedInv

\* Steps of executions touch nothing the schedule depends on.
LEMMA ExecutionKeepsSchedule ==
  ASSUME ScheduleInv, UNCHANGED <<state, active, armed, queue, job, pc, call>>
  PROVE  TurnsInv' /\ JobInv' /\ StartInv' /\ ArmedInv'
BY DEF ScheduleInv, TurnsInv, JobInv, StartInv, ArmedInv, NoSyncPending, StartsIdle, JobsIdle

LEMMA StepSchedule ==
  ASSUME Racing = FALSE, ScheduleInv, [Next]_vars
  PROVE  ScheduleInv'
<1>1. TypeOK'
  BY StepTypes DEF ScheduleInv
<1> SUFFICES TurnsInv' /\ JobInv' /\ StartInv' /\ ArmedInv'
  BY <1>1 DEF ScheduleInv
<1>2. ASSUME NEW r \in Runs, Begin(r) \/ Execute(r)
      PROVE  TurnsInv' /\ JobInv' /\ StartInv' /\ ArmedInv'
  BY <1>2, ExecutionKeepsSchedule
     DEF Execute, Begin, ReadDeployment, ReadRelease, InsertRun, RunContainer, FinishRun,
         sched, builds, requests
<1>3. CASE Deploy
  BY <1>3 DEF Deploy, MayEnqueue, ScheduleInv, TurnsInv, JobInv, StartInv, ArmedInv, NoSyncPending,
     StartsIdle, JobsIdle, TypeOK, sched, execution, builds, requests
<1>4. CASE Stop
  BY <1>4 DEF Stop, MayEnqueue, ScheduleInv, TurnsInv, JobInv, StartInv, ArmedInv, NoSyncPending,
     StartsIdle, JobsIdle, TypeOK, sched, execution, builds, requests
<1>5. CASE TakeJob
  BY <1>5 DEF TakeJob, ScheduleInv, TurnsInv, JobInv, StartInv, ArmedInv, NoSyncPending, StartsIdle,
     JobsIdle, TypeOK, sched, execution, builds, requests
<1>6. CASE BuildImage
  BY <1>6 DEF BuildImage, Step, Goto, ScheduleInv, TurnsInv, JobInv, StartInv, ArmedInv,
     NoSyncPending, StartsIdle, JobsIdle, TypeOK, sched, execution, builds, requests
<1>7. CASE SetActive
  BY <1>7 DEF SetActive, Step, Goto, ScheduleInv, TurnsInv, JobInv, StartInv, ArmedInv,
     NoSyncPending, StartsIdle, JobsIdle, TypeOK, sched, execution, builds, requests
<1>8. CASE SetRunning
  BY <1>8 DEF SetRunning, Step, Goto, ScheduleInv, TurnsInv, JobInv, StartInv, ArmedInv,
     NoSyncPending, StartsIdle, JobsIdle, TypeOK, sched, execution, builds, requests
<1>9. CASE SyncDeployed
  BY <1>9 DEF SyncDeployed, Step, Finish, SyncWith, ScheduleInv, TurnsInv, JobInv, StartInv,
     ArmedInv, NoSyncPending, StartsIdle, JobsIdle, TypeOK, sched, execution, builds, requests
<1>10. CASE DeployFailed
  BY <1>10 DEF DeployFailed, Step, Finish, ScheduleInv, TurnsInv, JobInv, StartInv, ArmedInv,
     NoSyncPending, StartsIdle, JobsIdle, TypeOK, sched, execution, builds, requests
<1>11. CASE Unregister
  BY <1>11 DEF Unregister, Step, Goto, ScheduleInv, TurnsInv, JobInv, StartInv, ArmedInv,
     NoSyncPending, StartsIdle, JobsIdle, TypeOK, sched, execution, builds, requests
<1>12. CASE SetStopped
  BY <1>12 DEF SetStopped, Step, Finish, ScheduleInv, TurnsInv, JobInv, StartInv, ArmedInv,
     NoSyncPending, StartsIdle, JobsIdle, TypeOK, sched, execution, builds, requests
<1>13. ASSUME NEW c \in Callers, StartRead(c)
      PROVE  TurnsInv' /\ JobInv' /\ StartInv' /\ ArmedInv'
  BY <1>13 DEF StartRead, MayStart, NoCall, ScheduleInv, TurnsInv, JobInv, StartInv, ArmedInv,
     NoSyncPending, StartsIdle, JobsIdle, TypeOK, sched, execution, builds, requests
<1>14. ASSUME NEW c \in Callers, StartSetRunning(c)
      PROVE  TurnsInv' /\ JobInv' /\ StartInv' /\ ArmedInv'
  BY <1>14 DEF StartSetRunning, NoCall, ScheduleInv, TurnsInv, JobInv, StartInv, ArmedInv,
     NoSyncPending, StartsIdle, JobsIdle, TypeOK, sched, execution, builds, requests
<1>15. ASSUME NEW c \in Callers, StartReadAgain(c)
      PROVE  TurnsInv' /\ JobInv' /\ StartInv' /\ ArmedInv'
  BY <1>15 DEF StartReadAgain, NoCall, ScheduleInv, TurnsInv, JobInv, StartInv, ArmedInv,
     NoSyncPending, StartsIdle, JobsIdle, TypeOK, sched, execution, builds, requests
<1>16. ASSUME NEW c \in Callers, StartSync(c)
      PROVE  TurnsInv' /\ JobInv' /\ StartInv' /\ ArmedInv'
  BY <1>16 DEF StartSync, SyncWith, NoCall, ScheduleInv, TurnsInv, JobInv, StartInv, ArmedInv,
     NoSyncPending, StartsIdle, JobsIdle, TypeOK, sched, execution, builds, requests
<1>17. CASE Restart
  BY <1>17 DEF Restart, MemoryLost, SyncWith, NoCall, ScheduleInv, TurnsInv, JobInv, StartInv,
     ArmedInv, NoSyncPending, StartsIdle, JobsIdle, TypeOK
<1>18. CASE UNCHANGED vars
  BY <1>18, ExecutionKeepsSchedule DEF vars
<1>19. QED
  BY <1>2, <1>3, <1>4, <1>5, <1>6, <1>7, <1>8, <1>9, <1>10, <1>11, <1>12, <1>13, <1>14, <1>15,
     <1>16, <1>17, <1>18 DEF Next, RunJob, Start

\* At rest a RUNNING deployment is armed and a STOPPED one is not, for any number
\* of jobs, starts, executions and restarts, if no start races with a job.
THEOREM ScheduleKept == Racing = FALSE => (Spec => []ScheduleFollowsState)
<1> SUFFICES ASSUME Racing = FALSE PROVE Spec => []ScheduleFollowsState
  OBVIOUS
<1>1. Init => ScheduleInv
  BY InitSchedule
<1>2. ScheduleInv /\ [Next]_vars => ScheduleInv'
  BY StepSchedule
<1>3. ScheduleInv => ScheduleFollowsState
  BY DEF ScheduleInv, TurnsInv, JobInv, StartInv, ArmedInv, NoSyncPending, StartsIdle, JobsIdle,
     ScheduleFollowsState
<1>4. QED
  BY <1>1, <1>2, <1>3, PTL DEF Spec

(***************************************************************************)
(* Compose releases: the inductive invariant behind ComposeInv and            *)
(* ComposeServes.                                                             *)
(***************************************************************************)
ReleaseOrNone == Com_Releases \cup {Com_None}
JobRecords ==
  [kind : {"none", "deploy", "stop"}, rel : ReleaseOrNone, prior : ReleaseOrNone,
   project : Com!Projects \cup {Com_None}, pinned : {{}} \cup Com_Layouts]
CallRecords ==
  [at : {"idle", "create", "mark", "enqueue"}, rel : ReleaseOrNone, prior : ReleaseOrNone]
Rows ==
  [status : Com!InProgress \cup {"none", "LIVE", "FAILED", "SUPERSEDED", "INTERRUPTED"},
   project : Com!Projects \cup {Com_None}]
Hosts == [Com!Projects -> [Com_Services -> {"absent", "up", "broken"}]]

ComposeTypes ==
  /\ Com_state \in {"CREATED", "DEPLOYING", "RUNNING", "DEGRADED", "ERROR", "STOPPED"}
  /\ Com_active \in ReleaseOrNone
  /\ Com_rel \in [Com_Releases -> Rows]
  /\ \A r \in Com_Releases : Com_rel[r].project \in {Com_None, Com_Base, r}
  /\ Com_copy \in Hosts
  /\ Com_queue \in Seq(JobRecords) /\ Com_job \in JobRecords
  /\ Com_call \in [Com_Callers -> CallRecords]
  /\ Com_issued \in 0..Com_MaxCalls /\ Com_crashes \in 0..Com_MaxCrashes

\* The routers of Web are those of the projects that have a container of it.
OrderInv ==
  /\ Com_order \in Seq(Com!Projects) /\ Com!IsInjective(Com_order)
  /\ \A p \in Com!Projects : Com_copy[p][Com_Web] # "absent" <=> p \in Com!ToSet(Com_order)

\* A release is QUEUED for one request, one waiting job or the job that begins.
Inserted(c) == Com_call[c].at \in {"mark", "enqueue"}
Deploys(i) == Com_queue[i].kind = "deploy"
Begins == Com_pc \in {"prior", "clone"}
QueuedOnce ==
  /\ \A i \in DOMAIN Com_queue :
       /\ Com_queue[i].kind \in {"deploy", "stop"}
       /\ Deploys(i) => Com_queue[i].rel \in Com_Releases /\
            Com_rel[Com_queue[i].rel].status = "QUEUED"
  /\ \A i, j \in DOMAIN Com_queue : Deploys(i) /\ Deploys(j) /\ i # j =>
       Com_queue[i].rel # Com_queue[j].rel
  /\ \A c \in Com_Callers :
       Inserted(c) => Com_call[c].rel \in Com_Releases /\ Com_rel[Com_call[c].rel].status = "QUEUED"
  /\ \A c, d \in Com_Callers : Inserted(c) /\ Inserted(d) /\ c # d =>
       Com_call[c].rel # Com_call[d].rel
  /\ \A c \in Com_Callers, i \in DOMAIN Com_queue :
       Inserted(c) /\ Deploys(i) => Com_call[c].rel # Com_queue[i].rel
  /\ Begins => /\ \A i \in DOMAIN Com_queue : Deploys(i) => Com_job.rel # Com_queue[i].rel
               /\ \A c \in Com_Callers : Inserted(c) => Com_job.rel # Com_call[c].rel

\* What the job that runs has written to its row.
Early == {"prior", "clone", "prepare", "upBase", "upBaseStart", "upRelease"}
Ended == {"failed", "failedState"}
Gated == {"live", "activate", "running", "cutover", "supersede"}
Deploying == Early \cup Ended \cup Gated \cup {"health", "gate", "removeFailed"}
Row == Com_rel[Com_job.rel].status
JobWritten ==
  /\ Com_pc \in Deploying \cup {"idle", "down", "stopped"}
  /\ Com_pc \in {"down", "stopped"} => Com_job.kind = "stop"
  /\ Com_pc \in Deploying => Com_job.rel \in Com_Releases
  /\ Com_pc \in {"prior", "clone"} => Row = "QUEUED"
  /\ Com_pc = "prepare" => Row = "CLONING"
  /\ Com_pc \in {"upBase", "upBaseStart", "upRelease", "health"} => Row = "BUILDING"
  /\ Com_pc \in {"gate", "live"} => Row = "HEALTHCHECKING"
  /\ Com_pc = "removeFailed" => Row \in {"BUILDING", "HEALTHCHECKING"}
  /\ Com_pc = "failed" => Row \in {"CLONING", "BUILDING", "HEALTHCHECKING"}
  /\ Com_pc = "failedState" => Row = "FAILED"
  /\ Com_pc \in Gated \ {"live"} => Row = "LIVE"

\* Which projects have no container: those of releases that have not started one, or
\* whose deploy failed.
Empty(p) == \A s \in Com_Services : Com_copy[p][s] = "absent"
NothingYet ==
  /\ \A r \in Com_Releases : Com_rel[r].status \in {"none", "QUEUED", "FAILED"} => Empty(r)
  /\ Com_pc \in Early \cup Ended => Empty(Com_job.rel)
  /\ Com_pc \in Deploying /\ Com!Eligible = {} => Empty(Com_job.rel)

\* A release that passed the gate runs whole, and is the active one from its activation.
GatePassed == \A s \in Com_Services :
  Com_copy[IF s \in Com_job.pinned THEN Com_Base ELSE Com_job.rel][s] = "up"
Serving ==
  /\ Com_active # Com_None => Com_rel[Com_active].status = "LIVE"
  /\ Com_pc \in {"running", "cutover", "supersede"} => Com_active = Com_job.rel
  /\ Com_pc \in Gated => GatePassed

\* The version that a deploy is to replace has served.
Served(r) == r # Com_None => Com_rel[r].status \in {"LIVE", "SUPERSEDED"}
PriorsServed ==
  /\ \A c \in Com_Callers : Served(Com_call[c].prior)
  /\ \A i \in DOMAIN Com_queue : Served(Com_queue[i].prior)
  /\ Served(Com_job.prior)

\* What the state of the deployment says of the host.
StateTrue ==
  /\ Com_pc \in {"cutover", "supersede"} => Com_state \in {"RUNNING", "DEPLOYING"}
  /\ Com_pc = "stopped" => \A p \in Com!Projects : Empty(p)
  /\ Com_pc = "idle" /\ Com_crashes = 0 /\ Com_state = "RUNNING" => Com!RunsWhole(Com_active)
  /\ Com_pc = "idle" /\ Com_crashes = 0 /\ Com_state = "STOPPED" => \A p \in Com!Projects : Empty(p)

ComposeIInv ==
  ComposeTypes /\ OrderInv /\ QueuedOnce /\ JobWritten /\ NothingYet /\ Serving /\ PriorsServed /\
       StateTrue

(***************************************************************************)
(* The routers of Web, first launch first.                                   *)
(***************************************************************************)
\* Removing a router leaves the others.
LEMMA RouterRemoved ==
  ASSUME NEW S, NEW s \in Seq(S), Com!IsInjective(s), NEW e \in S
  PROVE  LET t == Com!RemoveFirst(s, e)
         IN t \in Seq(S) /\ Com!IsInjective(t) /\ Com!ToSet(t) = Com!ToSet(s) \ {e}
<1>1. CASE \A i \in 1..Len(s) : s[i] # e
  <2>1. Com!RemoveFirst(s, e) = s
    BY <1>1 DEF Com!RemoveFirst
  <2>2. e \notin Com!ToSet(s)
    BY <1>1 DEF Com!ToSet
  <2>3. QED
    BY <2>1, <2>2
<1>2. ASSUME NEW k \in 1..Len(s), s[k] = e
      PROVE  LET t == Com!RemoveFirst(s, e)
             IN t \in Seq(S) /\ Com!IsInjective(t) /\ Com!ToSet(t) = Com!ToSet(s) \ {e}
  <2> DEFINE t == SubSeq(s, 1, k - 1) \o SubSeq(s, k + 1, Len(s))
  <2>1. {i \in 1..Len(s) : s[i] = e} = {k}
    BY <1>2 DEF Com!IsInjective
  <2>2. Com!Min({k}) = k
    BY DEF Com!Min
  <2>3. Com!RemoveFirst(s, e) = t
    BY <1>2, <2>1, <2>2 DEF Com!RemoveFirst, Com!SelectInSeq, Com!RemoveAt
  <2>4. t \in Seq(S) /\ Len(t) = Len(s) - 1
        /\ \A i \in 1..Len(s) - 1 : t[i] = IF i < k THEN s[i] ELSE s[i + 1]
    <3> DEFINE a == SubSeq(s, 1, k - 1)
               b == SubSeq(s, k + 1, Len(s))
    <3>1. k - 1 \in 1 - 1..Len(s) /\ 1 \in 1..Len(s) + 1
          /\ k + 1 \in 1..Len(s) + 1 /\ Len(s) \in k + 1 - 1..Len(s)
      OBVIOUS
    <3>2. a \in Seq(S) /\ Len(a) = k - 1 /\ \A i \in 1..k - 1 : a[i] = s[i]
      <4>1. a \in Seq(S) /\ Len(a) = k - 1 - 1 + 1 /\
              \A i \in 1..k - 1 - 1 + 1 : a[i] = s[1 + i - 1]
        BY <3>1, SubSeqProperties
      <4> HIDE DEF a
      <4>2. QED
        BY <4>1
    <3>3. b \in Seq(S) /\ Len(b) = Len(s) - k /\ \A i \in 1..Len(s) - k : b[i] = s[k + i]
      <4>1. /\ b \in Seq(S) /\ Len(b) = Len(s) - (k + 1) + 1
            /\ \A i \in 1..Len(s) - (k + 1) + 1 : b[i] = s[k + 1 + i - 1]
        BY <3>1, SubSeqProperties
      <4> HIDE DEF b
      <4>2. QED
        BY <4>1
    <3> HIDE DEF a, b
    <3>4. t = a \o b
      BY DEF a, b
    <3> HIDE DEF t
    <3>5. /\ t \in Seq(S) /\ Len(t) = Len(a) + Len(b)
          /\ \A i \in 1..Len(a) + Len(b) : t[i] = IF i <= Len(a) THEN a[i] ELSE b[i - Len(a)]
      BY <3>2, <3>3, <3>4, ConcatProperties
    <3>6. Len(t) = Len(s) - 1
      BY <3>2, <3>3, <3>5
    <3>7. ASSUME NEW i \in 1..Len(s) - 1 PROVE t[i] = IF i < k THEN s[i] ELSE s[i + 1]
      <4>1. i \in 1..Len(a) + Len(b) /\ (i <= Len(a) <=> i < k)
        BY <3>2, <3>3
      <4>2. CASE i < k
        BY <4>1, <4>2, <3>2, <3>5
      <4>3. CASE ~(i < k)
        <5>1. t[i] = b[i - (k - 1)] /\ i - (k - 1) \in 1..Len(s) - k
          BY <4>1, <4>3, <3>2, <3>5
        <5>2. b[i - (k - 1)] = s[k + (i - (k - 1))] /\ k + (i - (k - 1)) = i + 1
          BY <5>1, <3>3
        <5>3. QED
          BY <4>3, <5>1, <5>2
      <4>4. QED
        BY <4>2, <4>3
    <3>8. QED
      BY <3>5, <3>6, <3>7
  <2> HIDE DEF t
  <2>5. \A i \in 1..Len(s) - 1 : t[i] # e
    BY <1>2, <2>4 DEF Com!IsInjective
  <2>6. Com!IsInjective(t)
    <3>1. ASSUME NEW i \in 1..Len(s) - 1, NEW j \in 1..Len(s) - 1, i < j PROVE t[i] # t[j]
      <4> DEFINE At(n) == IF n < k THEN n ELSE n + 1
      <4>1. t[i] = s[At(i)] /\ t[j] = s[At(j)]
        BY <2>4
      <4>2. At(i) \in 1..Len(s) /\ At(j) \in 1..Len(s) /\ At(i) # At(j)
        BY <3>1
      <4> HIDE DEF At
      <4>3. QED
        BY <4>1, <4>2 DEF Com!IsInjective
    <3>2. QED
      BY <3>1, <2>4 DEF Com!IsInjective
  <2>7. ASSUME NEW x \in Com!ToSet(s) \ {e} PROVE x \in Com!ToSet(t)
    <3>1. PICK i \in 1..Len(s) : s[i] = x
      BY DEF Com!ToSet
    <3>2. CASE i < k
      BY <3>1, <3>2, <2>4 DEF Com!ToSet
    <3>3. CASE i > k
      <4>1. i - 1 \in 1..Len(s) - 1 /\ t[i - 1] = x
        BY <3>1, <3>3, <2>4, <1>2
      <4>2. QED
        BY <4>1, <2>4 DEF Com!ToSet
    <3>4. QED
      BY <3>1, <3>2, <3>3, <1>2
  <2>8. Com!ToSet(t) \subseteq Com!ToSet(s) \ {e}
    BY <2>4, <2>5 DEF Com!ToSet
  <2>9. QED
    BY <2>3, <2>4, <2>6, <2>7, <2>8
<1>3. QED
  BY <1>1, <1>2

\* A router that is launched goes last.
LEMMA RouterAdded ==
  ASSUME NEW S, NEW s \in Seq(S), Com!IsInjective(s), NEW e \in S, e \notin Com!ToSet(s)
  PROVE  LET t == Append(s, e)
         IN t \in Seq(S) /\ Com!IsInjective(t) /\ Com!ToSet(t) = Com!ToSet(s) \cup {e}
<1> DEFINE t == Append(s, e)
<1>1. t \in Seq(S) /\ Len(t) = Len(s) + 1 /\ t[Len(s) + 1] = e /\ \A i \in 1..Len(s) : t[i] = s[i]
  OBVIOUS
<1> HIDE DEF t
<1>2. \A i \in 1..Len(s) : s[i] # e
  BY DEF Com!ToSet
<1>3. Com!IsInjective(t)
  BY <1>1, <1>2 DEF Com!IsInjective
<1>4. Com!ToSet(t) \subseteq Com!ToSet(s) \cup {e}
  BY <1>1 DEF Com!ToSet
<1>5. Com!ToSet(s) \cup {e} \subseteq Com!ToSet(t)
  BY <1>1 DEF Com!ToSet
<1>6. QED
  BY <1>1, <1>3, <1>4, <1>5 DEF t

\* A non-empty set of positions has a first one.
LEMMA FirstExists ==
  ASSUME NEW n \in Nat, NEW S \in SUBSET (1..n), S # {}
  PROVE  Com!Min(S) \in S
<1> DEFINE Upto(x) == {y \in S : y <= x}
           T == {Upto(x) : x \in S}
           R == StrictSubsetOrdering(S)
<1>1. T \subseteq FiniteSubsetsOf(S) /\ T # {}
  <2>1. IsFiniteSet(S)
    <3>1. IsFiniteSet(1..n)
      BY FS_Interval
    <3>2. QED
      BY <3>1, FS_Subset
  <2>2. \A x \in S : IsFiniteSet(Upto(x)) /\ Upto(x) \subseteq S
    BY <2>1, FS_Subset
  <2>3. QED
    BY <2>2 DEF FiniteSubsetsOf
<1>2. IsWellFoundedOn(R, FiniteSubsetsOf(S))
  BY FS_StrictSubsetOrderingWellFounded
<1>3. PICK U \in T : \A V \in T : ~(<<V, U>> \in R)
  <2> HIDE DEF T, R
  <2>1. QED
    BY <1>1, <1>2, WFMin
<1>4. PICK b \in S : U = Upto(b)
  BY <1>3
<1>5. ASSUME NEW x \in S, ~(b <= x) PROVE FALSE
  <2>1. Upto(x) \in T
    OBVIOUS
  <2>2. x < b /\ \A y \in S : y \in Nat
    BY <1>5
  <2>3. Upto(x) \subseteq Upto(b)
    <3>1. \A y \in Nat : y <= x => y <= b
      BY <2>2
    <3>2. QED
      BY <2>2, <3>1
  <2>4. b \in Upto(b) /\ b \notin Upto(x)
    BY <2>2
  <2>5. <<Upto(x), U>> \in R
    BY <2>3, <2>4, <1>4 DEF StrictSubsetOrdering
  <2>6. QED
    BY <1>3, <2>1, <2>5
<1>6. QED
  BY <1>5 DEF Com!Min

\* The domain reaches a running copy of Web if there is one.
RoutedInv ==
  /\ Com!Routed # Com_None => Com!Routed \in Com!Projects /\ Com_copy[Com!Routed][Com_Web] = "up"
  /\ \A p \in Com!Projects : Com_copy[p][Com_Web] = "up" => Com!Routed # Com_None

LEMMA RoutedIfUp ==
  ASSUME ComposeAssumption, ComposeTypes, OrderInv
  PROVE  RoutedInv
<1> DEFINE U == {i \in DOMAIN Com_order : Com_copy[Com_order[i]][Com_Web] = "up"}
<1>1. Com!Routed = IF U = {} THEN Com_None ELSE Com_order[Com!Min(U)]
  BY DEF Com!Routed
<1>2. U \subseteq 1..Len(Com_order) /\ Len(Com_order) \in Nat
  BY DEF OrderInv
<1>3. ASSUME U # {}
      PROVE  /\ Com_order[Com!Min(U)] \in Com!Projects
             /\ Com_copy[Com_order[Com!Min(U)]][Com_Web] = "up"
  <2>1. Com!Min(U) \in U
    <3> HIDE DEF U
    <3>1. QED
      BY <1>2, <1>3, FirstExists
  <2>2. QED
    BY <2>1 DEF OrderInv
<1>4. ASSUME NEW p \in Com!Projects, Com_copy[p][Com_Web] = "up"
      PROVE  U # {}
  <2>1. p \in Com!ToSet(Com_order)
    BY <1>4 DEF OrderInv
  <2>2. PICK i \in DOMAIN Com_order : Com_order[i] = p
    BY <2>1 DEF Com!ToSet
  <2>3. QED
    BY <2>2, <1>4
<1>5. Com_None \notin Com!Projects
  BY DEF ComposeAssumption, Com!Projects
<1> HIDE DEF U
<1>6. QED
  BY <1>1, <1>3, <1>4, <1>5 DEF RoutedInv

(***************************************************************************)
(* The host: a project whose containers change.                              *)
(***************************************************************************)
Statuses == {"absent", "up", "broken"}

\* Only project p changes, and its router is in the right place.
LEMMA ProjectBecomes ==
  ASSUME ComposeAssumption, ComposeTypes, OrderInv, NEW p \in Com!Projects,
         NEW f \in [Com_Services -> Statuses], NEW launched \in BOOLEAN,
         Com!Become(p, f, launched),
         launched \/ (f[Com_Web] # "absent" => Com_copy[p][Com_Web] # "absent")
  PROVE  /\ Com_copy' \in Hosts /\ OrderInv'
         /\ \A q \in Com!Projects : Com_copy'[q] = IF q = p THEN f ELSE Com_copy[q]
<1> DEFINE rest == IF launched \/
      f[Com_Web] = "absent" THEN Com!RemoveFirst(Com_order, p) ELSE Com_order
<1>1. /\ Com_copy' = [Com_copy EXCEPT ![p] = f]
      /\ Com_order' = IF launched /\ f[Com_Web] # "absent" THEN Append(rest, p) ELSE rest
  BY DEF Com!Become
<1>2. Com_copy' \in Hosts /\ \A q \in Com!Projects : Com_copy'[q] = IF q = p THEN f ELSE Com_copy[q]
  BY <1>1 DEF ComposeTypes, Hosts, Statuses
<1>3. \A q \in Com!Projects \ {p} : Com_copy'[q][Com_Web] # "absent" <=> q \in Com!ToSet(Com_order)
  BY <1>2 DEF OrderInv
<1>4. Com_copy'[p][Com_Web] = f[Com_Web]
  BY <1>2
<1>5. CASE launched \/ f[Com_Web] = "absent"
  <2>1. /\ rest \in Seq(Com!Projects) /\ Com!IsInjective(rest)
        /\ Com!ToSet(rest) = Com!ToSet(Com_order) \ {p}
    BY <1>5, RouterRemoved DEF OrderInv
  <2> HIDE DEF rest
  <2>2. CASE launched /\ f[Com_Web] # "absent"
    <3>1. Com_order' = Append(rest, p)
      BY <1>1, <2>2
    <3>2. /\ Com_order' \in Seq(Com!Projects) /\ Com!IsInjective(Com_order')
          /\ Com!ToSet(Com_order') = Com!ToSet(Com_order) \cup {p}
      BY <2>1, <3>1, RouterAdded
    <3>3. QED
      BY <1>2, <1>3, <1>4, <2>2, <3>2 DEF OrderInv, Com!ToSet, Com!IsInjective
  <2>3. CASE ~(launched /\ f[Com_Web] # "absent")
    <3>1. Com_order' = rest /\ f[Com_Web] = "absent"
      BY <1>1, <1>5, <2>3
    <3>2. /\ Com_order' \in Seq(Com!Projects) /\ Com!IsInjective(Com_order')
          /\ Com!ToSet(Com_order') = Com!ToSet(Com_order) \ {p}
      BY <2>1, <3>1
    <3>3. QED
      BY <1>2, <1>3, <1>4, <3>1, <3>2 DEF OrderInv, Com!ToSet, Com!IsInjective
  <2>4. QED
    BY <2>2, <2>3
<1>6. CASE ~(launched \/ f[Com_Web] = "absent")
  <2>1. Com_order' = Com_order
    BY <1>1, <1>6
  <2>2. p \in Com!ToSet(Com_order)
    BY <1>6 DEF OrderInv
  <2>3. QED
    BY <1>2, <1>3, <1>4, <1>6, <2>1, <2>2 DEF OrderInv, Com!ToSet, Com!IsInjective
<1>7. QED
  BY <1>5, <1>6

\* A project that is taken down is empty, and the others are as they were.
LEMMA ProjectDown ==
  ASSUME ComposeAssumption, ComposeTypes, OrderInv, NEW p \in Com!Projects, Com!Down(p)
  PROVE  /\ Com_copy' \in Hosts /\ OrderInv' /\ \A s \in Com_Services : Com_copy'[p][s] = "absent"
         /\ \A q \in Com!Projects : q # p => Com_copy'[q] = Com_copy[q]
<1> DEFINE f == [s \in Com_Services |-> "absent"]
<1>1. Com!Become(p, f, FALSE) /\ f \in [Com_Services -> Statuses] /\ f[Com_Web] = "absent"
  BY DEF Com!Down, Statuses, ComposeAssumption
<1>2. \A s \in Com_Services : f[s] = "absent"
  OBVIOUS
<1> HIDE DEF f
<1>3. Com_copy' \in Hosts /\ OrderInv' /\
        \A q \in Com!Projects : Com_copy'[q] = IF q = p THEN f ELSE Com_copy[q]
  BY <1>1, ProjectBecomes
<1>4. QED
  BY <1>2, <1>3

LEMMA NoJobTyped == Com!NoJob \in JobRecords
BY DEF Com!NoJob, JobRecords, ReleaseOrNone

\* A version that has served keeps a status that says so.
LEMMA PriorsKept ==
  ASSUME ComposeTypes, PriorsServed, UNCHANGED <<Com_queue, Com_call>>,
         Com_job'.prior \in {Com_job.prior, Com_None},
         \A r \in Com_Releases : Com_rel[r].status \in {"LIVE", "SUPERSEDED"} =>
           Com_rel'[r].status \in {"LIVE", "SUPERSEDED"}
  PROVE  PriorsServed'
<1>1. \A r \in ReleaseOrNone : Served(r) => Served(r)'
  BY DEF Served, ReleaseOrNone
<1>2. \A c \in Com_Callers : Com_call[c].prior \in ReleaseOrNone
  BY DEF ComposeTypes, CallRecords
<1>3. \A i \in DOMAIN Com_queue : Com_queue[i].prior \in ReleaseOrNone
  <2>1. \A i \in DOMAIN Com_queue : Com_queue[i] \in JobRecords
    BY DEF ComposeTypes
  <2>2. QED
    BY <2>1 DEF JobRecords
<1>4. Com_job.prior \in ReleaseOrNone
  BY DEF ComposeTypes, JobRecords
<1>5. QED
  BY <1>1, <1>2, <1>3, <1>4 DEF PriorsServed, Served

\* A write of the job's row.
LEMMA StatusWritten ==
  ASSUME ComposeTypes, Com_job.rel \in Com_Releases,
         NEW s \in Com!InProgress \cup {"LIVE", "FAILED"}, Com!SetStatus(s)
  PROVE  /\ Com_rel' \in [Com_Releases -> Rows]
         /\ \A r \in Com_Releases : Com_rel'[r].project = Com_rel[r].project
         /\ \A r \in Com_Releases :
              Com_rel'[r].status = IF r = Com_job.rel THEN s ELSE Com_rel[r].status
BY DEF Com!SetStatus, ComposeTypes, Rows, Com!InProgress

(***************************************************************************)
(* One lemma per step: the invariant holds after it.  Those that touch the     *)
(* containers have a lemma of their own that says how (...Does).               *)
(***************************************************************************)
LEMMA CloneKeeps ==
  ASSUME ComposeAssumption, ComposeIInv, Com!Clone
  PROVE  ComposeIInv'
<1>1. /\ Com_pc = "clone" /\ Com_pc' \in {"prepare", "failed"} /\ Com_job' = Com_job
      /\ UNCHANGED <<Com_queue, Com_call, Com_issued, Com_crashes>>
      /\ UNCHANGED <<Com_state, Com_active, Com_copy, Com_order>>
      /\ Com_job.rel \in Com_Releases
      /\ \A r \in Com_Releases :
           Com_rel'[r].status = IF r = Com_job.rel THEN "CLONING" ELSE Com_rel[r].status
      /\ Com_rel' \in [Com_Releases -> Rows]
      /\ \A r \in Com_Releases : Com_rel'[r].project = Com_rel[r].project
  BY DEF Com!Clone, Com!Step, Com!Goto, Com!db, Com!host, Com!SetStatus, ComposeIInv, JobWritten,
     Deploying, Early, Ended, Gated, ComposeTypes, Rows, Com!InProgress
<1>2. ComposeTypes'
  BY <1>1, ComposeAssumption DEF ComposeIInv, ComposeTypes, Rows, JobRecords, CallRecords, Hosts,
     ReleaseOrNone, Com!Projects, Com!InProgress
<1>3. OrderInv'
  BY <1>1 DEF ComposeIInv, OrderInv, Com!ToSet, Com!IsInjective
<1>4. QueuedOnce'
  BY <1>1, ComposeAssumption DEF ComposeIInv, ComposeTypes, QueuedOnce, PriorsServed, Served,
     Inserted, Deploys, Begins, JobWritten, Row, Deploying, Early, Ended, Gated
<1>5. JobWritten'
  BY <1>1, ComposeAssumption DEF ComposeIInv, ComposeTypes, JobWritten, Row, Deploying, Early,
     Ended, Gated
<1>6. NothingYet'
  BY <1>1, ComposeAssumption DEF ComposeIInv, ComposeTypes, NothingYet, Empty, Com!Eligible,
     JobWritten, Row, Deploying, Early, Ended, Gated
<1>7. Serving'
  BY <1>1, ComposeAssumption DEF ComposeIInv, ComposeTypes, Serving, GatePassed, ReleaseOrNone,
     JobWritten, Row, Deploying, Early, Ended, Gated
<1>8. PriorsServed'
  BY <1>1, PriorsKept DEF Com!NoJob, ComposeIInv, JobWritten, Row, Deploying, Early, Ended, Gated
<1>9. StateTrue'
  BY <1>1, ComposeAssumption DEF ComposeIInv, ComposeTypes, StateTrue, Empty, Com!RunsWhole,
     JobWritten, Serving, GatePassed, Row, Deploying, Early, Ended, Gated
<1>10. QED
  BY <1>2, <1>3, <1>4, <1>5, <1>6, <1>7, <1>8, <1>9 DEF ComposeIInv

LEMMA SetLiveKeeps ==
  ASSUME ComposeAssumption, ComposeIInv, Com!SetLive
  PROVE  ComposeIInv'
<1>1. /\ Com_pc = "live" /\ Com_pc' = "activate" /\ Com_job' = Com_job
      /\ UNCHANGED <<Com_queue, Com_call, Com_issued, Com_crashes>>
      /\ UNCHANGED <<Com_state, Com_active, Com_copy, Com_order>>
      /\ Com_job.rel \in Com_Releases
      /\ \A r \in Com_Releases :
           Com_rel'[r].status = IF r = Com_job.rel THEN "LIVE" ELSE Com_rel[r].status
      /\ Com_rel' \in [Com_Releases -> Rows]
      /\ \A r \in Com_Releases : Com_rel'[r].project = Com_rel[r].project
  BY DEF Com!SetLive, Com!Step, Com!Goto, Com!db, Com!host, Com!SetStatus, ComposeIInv, JobWritten,
     Deploying, Early, Ended, Gated, ComposeTypes, Rows, Com!InProgress
<1>2. ComposeTypes'
  BY <1>1, ComposeAssumption DEF ComposeIInv, ComposeTypes, Rows, JobRecords, CallRecords, Hosts,
     ReleaseOrNone, Com!Projects, Com!InProgress
<1>3. OrderInv'
  BY <1>1 DEF ComposeIInv, OrderInv, Com!ToSet, Com!IsInjective
<1>4. QueuedOnce'
  BY <1>1, ComposeAssumption DEF ComposeIInv, ComposeTypes, QueuedOnce, PriorsServed, Served,
     Inserted, Deploys, Begins, JobWritten, Row, Deploying, Early, Ended, Gated
<1>5. JobWritten'
  BY <1>1, ComposeAssumption DEF ComposeIInv, ComposeTypes, JobWritten, Row, Deploying, Early,
     Ended, Gated
<1>6. NothingYet'
  BY <1>1, ComposeAssumption DEF ComposeIInv, ComposeTypes, NothingYet, Empty, Com!Eligible,
     JobWritten, Row, Deploying, Early, Ended, Gated
<1>7. Serving'
  BY <1>1, ComposeAssumption DEF ComposeIInv, ComposeTypes, Serving, GatePassed, ReleaseOrNone,
     JobWritten, Row, Deploying, Early, Ended, Gated
<1>8. PriorsServed'
  BY <1>1, PriorsKept DEF Com!NoJob, ComposeIInv, JobWritten, Row, Deploying, Early, Ended, Gated
<1>9. StateTrue'
  BY <1>1, ComposeAssumption DEF ComposeIInv, ComposeTypes, StateTrue, Empty, Com!RunsWhole,
     JobWritten, Serving, GatePassed, Row, Deploying, Early, Ended, Gated
<1>10. QED
  BY <1>2, <1>3, <1>4, <1>5, <1>6, <1>7, <1>8, <1>9 DEF ComposeIInv

LEMMA MarkFailedKeeps ==
  ASSUME ComposeAssumption, ComposeIInv, Com!MarkFailed
  PROVE  ComposeIInv'
<1>1. /\ Com_pc = "failed" /\ Com_pc' = "failedState" /\ Com_job' = Com_job
      /\ UNCHANGED <<Com_queue, Com_call, Com_issued, Com_crashes>>
      /\ UNCHANGED <<Com_state, Com_active, Com_copy, Com_order>>
      /\ Com_job.rel \in Com_Releases
      /\ \A r \in Com_Releases :
           Com_rel'[r].status = IF r = Com_job.rel THEN "FAILED" ELSE Com_rel[r].status
      /\ Com_rel' \in [Com_Releases -> Rows]
      /\ \A r \in Com_Releases : Com_rel'[r].project = Com_rel[r].project
  BY DEF Com!MarkFailed, Com!Step, Com!Goto, Com!db, Com!host, Com!SetStatus, ComposeIInv,
     JobWritten, Deploying, Early, Ended, Gated, ComposeTypes, Rows, Com!InProgress
<1>2. ComposeTypes'
  BY <1>1, ComposeAssumption DEF ComposeIInv, ComposeTypes, Rows, JobRecords, CallRecords, Hosts,
     ReleaseOrNone, Com!Projects, Com!InProgress
<1>3. OrderInv'
  BY <1>1 DEF ComposeIInv, OrderInv, Com!ToSet, Com!IsInjective
<1>4. QueuedOnce'
  BY <1>1, ComposeAssumption DEF ComposeIInv, ComposeTypes, QueuedOnce, PriorsServed, Served,
     Inserted, Deploys, Begins, JobWritten, Row, Deploying, Early, Ended, Gated
<1>5. JobWritten'
  BY <1>1, ComposeAssumption DEF ComposeIInv, ComposeTypes, JobWritten, Row, Deploying, Early,
     Ended, Gated
<1>6. NothingYet'
  BY <1>1, ComposeAssumption DEF ComposeIInv, ComposeTypes, NothingYet, Empty, Com!Eligible,
     JobWritten, Row, Deploying, Early, Ended, Gated
<1>7. Serving'
  BY <1>1, ComposeAssumption DEF ComposeIInv, ComposeTypes, Serving, GatePassed, ReleaseOrNone,
     JobWritten, Row, Deploying, Early, Ended, Gated
<1>8. PriorsServed'
  BY <1>1, PriorsKept DEF Com!NoJob, ComposeIInv, JobWritten, Row, Deploying, Early, Ended, Gated
<1>9. StateTrue'
  BY <1>1, ComposeAssumption DEF ComposeIInv, ComposeTypes, StateTrue, Empty, Com!RunsWhole,
     JobWritten, Serving, GatePassed, Row, Deploying, Early, Ended, Gated
<1>10. QED
  BY <1>2, <1>3, <1>4, <1>5, <1>6, <1>7, <1>8, <1>9 DEF ComposeIInv

LEMMA GateKeeps ==
  ASSUME ComposeAssumption, ComposeIInv, Com!Gate
  PROVE  ComposeIInv'
<1>1. /\ Com_pc = "gate" /\ Com_job' = Com_job
      /\ (Com_pc' = "removeFailed" \/ (Com_pc' = "live" /\ GatePassed))
      /\ UNCHANGED <<Com_queue, Com_call, Com_issued, Com_crashes>>
      /\ UNCHANGED <<Com_state, Com_active>>
      /\ UNCHANGED <<Com_rel, Com_copy, Com_order>>
  BY DEF Com!Gate, Com!Step, Com!Goto, Com!db, Com!host, GatePassed
<1>2. ComposeTypes'
  BY <1>1, ComposeAssumption DEF ComposeIInv, ComposeTypes, Rows, JobRecords, CallRecords, Hosts,
     ReleaseOrNone, Com!Projects, Com!InProgress
<1>3. OrderInv'
  BY <1>1 DEF ComposeIInv, OrderInv, Com!ToSet, Com!IsInjective
<1>4. QueuedOnce'
  BY <1>1, ComposeAssumption DEF ComposeIInv, ComposeTypes, QueuedOnce, PriorsServed, Served,
     Inserted, Deploys, Begins, JobWritten, Row, Deploying, Early, Ended, Gated
<1>5. JobWritten'
  BY <1>1, ComposeAssumption DEF ComposeIInv, ComposeTypes, JobWritten, Row, Deploying, Early,
     Ended, Gated
<1>6. NothingYet'
  BY <1>1, ComposeAssumption DEF ComposeIInv, ComposeTypes, NothingYet, Empty, Com!Eligible,
     JobWritten, Row, Deploying, Early, Ended, Gated
<1>7. Serving'
  BY <1>1, ComposeAssumption DEF ComposeIInv, ComposeTypes, Serving, GatePassed, ReleaseOrNone,
     JobWritten, Row, Deploying, Early, Ended, Gated
<1>8. PriorsServed'
  BY <1>1, ComposeAssumption DEF ComposeIInv, ComposeTypes, PriorsServed, Served, Serving,
     Com!NoJob, ReleaseOrNone, JobRecords, CallRecords, JobWritten, Row, Deploying, Early, Ended,
     Gated
<1>9. StateTrue'
  BY <1>1, ComposeAssumption DEF ComposeIInv, ComposeTypes, StateTrue, Empty, Com!RunsWhole,
     JobWritten, Serving, GatePassed, Row, Deploying, Early, Ended, Gated
<1>10. QED
  BY <1>2, <1>3, <1>4, <1>5, <1>6, <1>7, <1>8, <1>9 DEF ComposeIInv

LEMMA SetActiveKeeps ==
  ASSUME ComposeAssumption, ComposeIInv, Com!SetActive
  PROVE  ComposeIInv'
<1>1. /\ Com_pc = "activate" /\ Com_job' = Com_job /\ Com_pc' = "running"
      /\ Com_active' = Com_job.rel
      /\ UNCHANGED <<Com_queue, Com_call, Com_issued, Com_crashes>> /\ UNCHANGED <<Com_state>>
      /\ UNCHANGED <<Com_rel, Com_copy, Com_order>>
  BY DEF Com!SetActive, Com!Step, Com!Goto, Com!db, Com!host
<1>2. ComposeTypes'
  BY <1>1, ComposeAssumption DEF ComposeIInv, ComposeTypes, Rows, JobRecords, CallRecords, Hosts,
     ReleaseOrNone, Com!Projects, Com!InProgress
<1>3. OrderInv'
  BY <1>1 DEF ComposeIInv, OrderInv, Com!ToSet, Com!IsInjective
<1>4. QueuedOnce'
  BY <1>1, ComposeAssumption DEF ComposeIInv, ComposeTypes, QueuedOnce, PriorsServed, Served,
     Inserted, Deploys, Begins, JobWritten, Row, Deploying, Early, Ended, Gated
<1>5. JobWritten'
  BY <1>1, ComposeAssumption DEF ComposeIInv, ComposeTypes, JobWritten, Row, Deploying, Early,
     Ended, Gated
<1>6. NothingYet'
  BY <1>1, ComposeAssumption DEF ComposeIInv, ComposeTypes, NothingYet, Empty, Com!Eligible,
     JobWritten, Row, Deploying, Early, Ended, Gated
<1>7. Serving'
  BY <1>1, ComposeAssumption DEF ComposeIInv, ComposeTypes, Serving, GatePassed, ReleaseOrNone,
     JobWritten, Row, Deploying, Early, Ended, Gated
<1>8. PriorsServed'
  BY <1>1, ComposeAssumption DEF ComposeIInv, ComposeTypes, PriorsServed, Served, Serving,
     Com!NoJob, ReleaseOrNone, JobRecords, CallRecords, JobWritten, Row, Deploying, Early, Ended,
     Gated
<1>9. StateTrue'
  BY <1>1, ComposeAssumption DEF ComposeIInv, ComposeTypes, StateTrue, Empty, Com!RunsWhole,
     JobWritten, Serving, GatePassed, Row, Deploying, Early, Ended, Gated
<1>10. QED
  BY <1>2, <1>3, <1>4, <1>5, <1>6, <1>7, <1>8, <1>9 DEF ComposeIInv

LEMMA SetRunningKeeps ==
  ASSUME ComposeAssumption, ComposeIInv, Com!SetRunning
  PROVE  ComposeIInv'
<1>1. /\ Com_pc = "running" /\ Com_job' = Com_job /\ Com_pc' = "cutover" /\ Com_state' = "RUNNING"
      /\ UNCHANGED <<Com_queue, Com_call, Com_issued, Com_crashes>> /\ UNCHANGED <<Com_active>>
      /\ UNCHANGED <<Com_rel, Com_copy, Com_order>>
  BY DEF Com!SetRunning, Com!Step, Com!Goto, Com!db, Com!host
<1>2. ComposeTypes'
  BY <1>1, ComposeAssumption DEF ComposeIInv, ComposeTypes, Rows, JobRecords, CallRecords, Hosts,
     ReleaseOrNone, Com!Projects, Com!InProgress
<1>3. OrderInv'
  BY <1>1 DEF ComposeIInv, OrderInv, Com!ToSet, Com!IsInjective
<1>4. QueuedOnce'
  BY <1>1, ComposeAssumption DEF ComposeIInv, ComposeTypes, QueuedOnce, PriorsServed, Served,
     Inserted, Deploys, Begins, JobWritten, Row, Deploying, Early, Ended, Gated
<1>5. JobWritten'
  BY <1>1, ComposeAssumption DEF ComposeIInv, ComposeTypes, JobWritten, Row, Deploying, Early,
     Ended, Gated
<1>6. NothingYet'
  BY <1>1, ComposeAssumption DEF ComposeIInv, ComposeTypes, NothingYet, Empty, Com!Eligible,
     JobWritten, Row, Deploying, Early, Ended, Gated
<1>7. Serving'
  BY <1>1, ComposeAssumption DEF ComposeIInv, ComposeTypes, Serving, GatePassed, ReleaseOrNone,
     JobWritten, Row, Deploying, Early, Ended, Gated
<1>8. PriorsServed'
  BY <1>1, ComposeAssumption DEF ComposeIInv, ComposeTypes, PriorsServed, Served, Serving,
     Com!NoJob, ReleaseOrNone, JobRecords, CallRecords, JobWritten, Row, Deploying, Early, Ended,
     Gated
<1>9. StateTrue'
  BY <1>1, ComposeAssumption DEF ComposeIInv, ComposeTypes, StateTrue, Empty, Com!RunsWhole,
     JobWritten, Serving, GatePassed, Row, Deploying, Early, Ended, Gated
<1>10. QED
  BY <1>2, <1>3, <1>4, <1>5, <1>6, <1>7, <1>8, <1>9 DEF ComposeIInv

LEMMA ReadPriorKeeps ==
  ASSUME ComposeAssumption, ComposeIInv, Com!ReadPrior
  PROVE  ComposeIInv'
<1>1. /\ Com_pc = "prior" /\ Com_pc' = "clone"
      /\ UNCHANGED <<Com_queue, Com_call, Com_issued, Com_crashes>>
      /\ UNCHANGED <<Com_state, Com_active>>
      /\ UNCHANGED <<Com_rel, Com_copy, Com_order>>
      /\ Com_job'.rel = Com_job.rel /\ Com_job'.prior = Com_job.prior
      /\ Com_job'.pinned = Com_job.pinned
      /\ Com_job' \in JobRecords
  BY DEF Com!ReadPrior, Com!Step, Com!Goto, Com!db, Com!host, ComposeIInv, JobWritten, ComposeTypes,
     JobRecords, Rows, ReleaseOrNone, Com!Projects, Deploying, Early, Ended, Gated
<1>2. ComposeTypes'
  BY <1>1, ComposeAssumption DEF ComposeIInv, ComposeTypes, Rows, JobRecords, CallRecords, Hosts,
     ReleaseOrNone, Com!Projects, Com!InProgress
<1>3. OrderInv'
  BY <1>1 DEF ComposeIInv, OrderInv, Com!ToSet, Com!IsInjective
<1>4. QueuedOnce'
  BY <1>1, ComposeAssumption DEF ComposeIInv, ComposeTypes, QueuedOnce, PriorsServed, Served,
     Inserted, Deploys, Begins, JobWritten, Row, Deploying, Early, Ended, Gated
<1>5. JobWritten'
  BY <1>1, ComposeAssumption DEF ComposeIInv, ComposeTypes, JobWritten, Row, Deploying, Early,
     Ended, Gated
<1>6. NothingYet'
  BY <1>1, ComposeAssumption DEF ComposeIInv, ComposeTypes, NothingYet, Empty, Com!Eligible,
     JobWritten, Row, Deploying, Early, Ended, Gated
<1>7. Serving'
  BY <1>1, ComposeAssumption DEF ComposeIInv, ComposeTypes, Serving, GatePassed, ReleaseOrNone,
     JobWritten, Row, Deploying, Early, Ended, Gated
<1>8. PriorsServed'
  BY <1>1, ComposeAssumption DEF ComposeIInv, ComposeTypes, PriorsServed, Served, Serving,
     Com!NoJob, ReleaseOrNone, JobRecords, CallRecords, JobWritten, Row, Deploying, Early, Ended,
     Gated
<1>9. StateTrue'
  BY <1>1, ComposeAssumption DEF ComposeIInv, ComposeTypes, StateTrue, Empty, Com!RunsWhole,
     JobWritten, Serving, GatePassed, Row, Deploying, Early, Ended, Gated
<1>10. QED
  BY <1>2, <1>3, <1>4, <1>5, <1>6, <1>7, <1>8, <1>9 DEF ComposeIInv

LEMMA StateAfterFailureKeeps ==
  ASSUME ComposeAssumption, ComposeIInv, Com!StateAfterFailure
  PROVE  ComposeIInv'
<1>1. /\ Com_pc = "failedState" /\ Com_pc' = "idle" /\ Com_job' = Com!NoJob
      /\ Com_state' \in {"DEGRADED", "ERROR"}
      /\ UNCHANGED <<Com_queue, Com_call, Com_issued, Com_crashes>> /\ UNCHANGED <<Com_active>>
      /\ UNCHANGED <<Com_rel, Com_copy, Com_order>>
  BY DEF Com!StateAfterFailure, Com!Step, Com!Goto, Com!db, Com!host, Com!NoJob, JobRecords,
     ReleaseOrNone
<1>2. ComposeTypes'
  BY <1>1, ComposeAssumption, NoJobTyped DEF ComposeIInv, ComposeTypes, Rows, JobRecords,
     CallRecords, Hosts, ReleaseOrNone, Com!Projects, Com!InProgress
<1>3. OrderInv'
  BY <1>1 DEF ComposeIInv, OrderInv, Com!ToSet, Com!IsInjective
<1>4. QueuedOnce'
  BY <1>1, ComposeAssumption DEF ComposeIInv, ComposeTypes, QueuedOnce, PriorsServed, Served,
     Inserted, Deploys, Begins, JobWritten, Row, Deploying, Early, Ended, Gated
<1>5. JobWritten'
  BY <1>1, ComposeAssumption DEF ComposeIInv, ComposeTypes, JobWritten, Row, Deploying, Early,
     Ended, Gated
<1>6. NothingYet'
  BY <1>1, ComposeAssumption DEF ComposeIInv, ComposeTypes, NothingYet, Empty, Com!Eligible,
     JobWritten, Row, Deploying, Early, Ended, Gated
<1>7. Serving'
  BY <1>1, ComposeAssumption DEF ComposeIInv, ComposeTypes, Serving, GatePassed, ReleaseOrNone,
     JobWritten, Row, Deploying, Early, Ended, Gated
<1>8. PriorsServed'
  BY <1>1, ComposeAssumption DEF ComposeIInv, ComposeTypes, PriorsServed, Served, Serving,
     Com!NoJob, ReleaseOrNone, JobRecords, CallRecords, JobWritten, Row, Deploying, Early, Ended,
     Gated
<1>9. StateTrue'
  BY <1>1, ComposeAssumption DEF ComposeIInv, ComposeTypes, StateTrue, Empty, Com!RunsWhole,
     JobWritten, Serving, GatePassed, Row, Deploying, Early, Ended, Gated
<1>10. QED
  BY <1>2, <1>3, <1>4, <1>5, <1>6, <1>7, <1>8, <1>9 DEF ComposeIInv

LEMMA SetStoppedKeeps ==
  ASSUME ComposeAssumption, ComposeIInv, Com!SetStopped
  PROVE  ComposeIInv'
<1>1. /\ Com_pc = "stopped" /\ Com_pc' = "idle" /\ Com_job' = Com!NoJob /\ Com_state' = "STOPPED"
      /\ UNCHANGED <<Com_queue, Com_call, Com_issued, Com_crashes>> /\ UNCHANGED <<Com_active>>
      /\ UNCHANGED <<Com_rel, Com_copy, Com_order>>
  BY DEF Com!SetStopped, Com!Step, Com!Goto, Com!db, Com!host, Com!NoJob, JobRecords, ReleaseOrNone
<1>2. ComposeTypes'
  BY <1>1, ComposeAssumption, NoJobTyped DEF ComposeIInv, ComposeTypes, Rows, JobRecords,
     CallRecords, Hosts, ReleaseOrNone, Com!Projects, Com!InProgress
<1>3. OrderInv'
  BY <1>1 DEF ComposeIInv, OrderInv, Com!ToSet, Com!IsInjective
<1>4. QueuedOnce'
  BY <1>1, ComposeAssumption DEF ComposeIInv, ComposeTypes, QueuedOnce, PriorsServed, Served,
     Inserted, Deploys, Begins, JobWritten, Row, Deploying, Early, Ended, Gated
<1>5. JobWritten'
  BY <1>1, ComposeAssumption DEF ComposeIInv, ComposeTypes, JobWritten, Row, Deploying, Early,
     Ended, Gated
<1>6. NothingYet'
  BY <1>1, ComposeAssumption DEF ComposeIInv, ComposeTypes, NothingYet, Empty, Com!Eligible,
     JobWritten, Row, Deploying, Early, Ended, Gated
<1>7. Serving'
  BY <1>1, ComposeAssumption DEF ComposeIInv, ComposeTypes, Serving, GatePassed, ReleaseOrNone,
     JobWritten, Row, Deploying, Early, Ended, Gated
<1>8. PriorsServed'
  BY <1>1, ComposeAssumption DEF ComposeIInv, ComposeTypes, PriorsServed, Served, Serving,
     Com!NoJob, ReleaseOrNone, JobRecords, CallRecords, JobWritten, Row, Deploying, Early, Ended,
     Gated
<1>9. StateTrue'
  BY <1>1, ComposeAssumption DEF ComposeIInv, ComposeTypes, StateTrue, Empty, Com!RunsWhole,
     JobWritten, Serving, GatePassed, Row, Deploying, Early, Ended, Gated
<1>10. QED
  BY <1>2, <1>3, <1>4, <1>5, <1>6, <1>7, <1>8, <1>9 DEF ComposeIInv

LEMMA PrepareKeeps ==
  ASSUME ComposeAssumption, ComposeIInv, Com!Prepare
  PROVE  ComposeIInv'
<1>1. /\ Com_pc = "prepare" /\ Com_pc' \in {"upBase", "upRelease", "failed"}
      /\ UNCHANGED <<Com_queue, Com_call, Com_issued, Com_crashes>>
      /\ UNCHANGED <<Com_state, Com_active, Com_copy, Com_order>>
      /\ Com_job'.rel = Com_job.rel /\ Com_job'.prior = Com_job.prior /\ Com_job' \in JobRecords
      /\ Com_job.rel \in Com_Releases
      /\ \A r \in Com_Releases :
           Com_rel'[r].status = IF r = Com_job.rel THEN "BUILDING" ELSE Com_rel[r].status
      /\ Com_rel' \in [Com_Releases -> Rows]
      /\ \A r \in Com_Releases : Com_rel'[r].project = Com_rel[r].project
  <2>1. /\ Com_pc = "prepare" /\ Com!SetStatus("BUILDING")
        /\ UNCHANGED <<Com_queue, Com_call, Com_issued, Com_crashes>>
        /\ UNCHANGED <<Com_state, Com_active, Com_copy, Com_order>>
    BY DEF Com!Prepare, Com!Step, Com!host
  <2>2. Com_job.rel \in Com_Releases /\ Com_job \in JobRecords
    BY <2>1 DEF ComposeIInv, ComposeTypes, JobWritten, Deploying, Early
  <2>3. /\ Com_pc' \in {"upBase", "upRelease", "failed"}
        /\ Com_job'.rel = Com_job.rel /\ Com_job'.prior = Com_job.prior /\ Com_job' \in JobRecords
    <3>1. CASE Com!Goto("failed")
      BY <2>2, <3>1 DEF Com!Goto
    <3>2. CASE \E pinned \in Com_Layouts :
                 /\ Com_job' = [Com_job EXCEPT !.pinned = pinned]
                 /\ Com_pc' = IF pinned # {} THEN "upBase" ELSE "upRelease"
      BY <2>2, <3>2 DEF JobRecords
    <3>3. QED
      BY <3>1, <3>2 DEF Com!Prepare
  <2>4. QED
    BY <2>1, <2>2, <2>3, StatusWritten DEF ComposeIInv, Com!InProgress
<1>2. ComposeTypes'
  BY <1>1, ComposeAssumption DEF ComposeIInv, ComposeTypes, Rows, JobRecords, CallRecords, Hosts,
     ReleaseOrNone, Com!Projects, Com!InProgress
<1>3. OrderInv'
  BY <1>1 DEF ComposeIInv, OrderInv, Com!ToSet, Com!IsInjective
<1>4. QueuedOnce'
  BY <1>1, ComposeAssumption DEF ComposeIInv, ComposeTypes, QueuedOnce, PriorsServed, Served,
     Inserted, Deploys, Begins, JobWritten, Row, Deploying, Early, Ended, Gated
<1>5. JobWritten'
  BY <1>1, ComposeAssumption DEF ComposeIInv, ComposeTypes, JobWritten, Row, Deploying, Early,
     Ended, Gated
<1>6. NothingYet'
  BY <1>1, ComposeAssumption DEF ComposeIInv, ComposeTypes, NothingYet, Empty, Com!Eligible,
     JobWritten, Row, Deploying, Early, Ended, Gated
<1>7. Serving'
  BY <1>1, ComposeAssumption DEF ComposeIInv, ComposeTypes, Serving, GatePassed, ReleaseOrNone,
     JobWritten, Row, Deploying, Early, Ended, Gated
<1>8. PriorsServed'
  BY <1>1, PriorsKept DEF Com!NoJob, ComposeIInv, JobWritten, Row, Deploying, Early, Ended, Gated
<1>9. StateTrue'
  BY <1>1, ComposeAssumption DEF ComposeIInv, ComposeTypes, StateTrue, Empty, Com!RunsWhole,
     JobWritten, Serving, GatePassed, Row, Deploying, Early, Ended, Gated
<1>10. QED
  BY <1>2, <1>3, <1>4, <1>5, <1>6, <1>7, <1>8, <1>9 DEF ComposeIInv

LEMMA HealthCheckingKeeps ==
  ASSUME ComposeAssumption, ComposeIInv, Com!HealthChecking
  PROVE  ComposeIInv'
<1>1. /\ Com_pc = "health" /\ Com_pc' = "gate" /\ Com_job' = Com_job
      /\ UNCHANGED <<Com_queue, Com_call, Com_issued, Com_crashes>>
      /\ UNCHANGED <<Com_state, Com_active, Com_copy, Com_order>>
      /\ Com_job.rel \in Com_Releases
      /\ \A r \in Com_Releases :
           Com_rel'[r].status = IF r = Com_job.rel THEN "HEALTHCHECKING" ELSE Com_rel[r].status
      /\ Com_rel' \in [Com_Releases -> Rows]
      /\ \A r \in Com_Releases : Com_rel'[r].project \in {Com_rel[r].project, r, Com_Base}
  BY DEF Com!HealthChecking, Com!Step, Com!Goto, Com!db, Com!host, Com!Projects, Com!SetStatus,
     ComposeIInv, JobWritten, Deploying, Early, Ended, Gated, ComposeTypes, Rows, Com!InProgress
<1>2. ComposeTypes'
  BY <1>1, ComposeAssumption DEF ComposeIInv, ComposeTypes, Rows, JobRecords, CallRecords, Hosts,
     ReleaseOrNone, Com!Projects, Com!InProgress
<1>3. OrderInv'
  BY <1>1 DEF ComposeIInv, OrderInv, Com!ToSet, Com!IsInjective
<1>4. QueuedOnce'
  BY <1>1, ComposeAssumption DEF ComposeIInv, ComposeTypes, QueuedOnce, PriorsServed, Served,
     Inserted, Deploys, Begins, JobWritten, Row, Deploying, Early, Ended, Gated
<1>5. JobWritten'
  BY <1>1, ComposeAssumption DEF ComposeIInv, ComposeTypes, JobWritten, Row, Deploying, Early,
     Ended, Gated
<1>6. NothingYet'
  BY <1>1, ComposeAssumption DEF ComposeIInv, ComposeTypes, NothingYet, Empty, Com!Eligible,
     JobWritten, Row, Deploying, Early, Ended, Gated
<1>7. Serving'
  BY <1>1, ComposeAssumption DEF ComposeIInv, ComposeTypes, Serving, GatePassed, ReleaseOrNone,
     JobWritten, Row, Deploying, Early, Ended, Gated
<1>8. PriorsServed'
  BY <1>1, PriorsKept DEF Com!NoJob, ComposeIInv, JobWritten, Row, Deploying, Early, Ended, Gated
<1>9. StateTrue'
  BY <1>1, ComposeAssumption DEF ComposeIInv, ComposeTypes, StateTrue, Empty, Com!RunsWhole,
     JobWritten, Serving, GatePassed, Row, Deploying, Early, Ended, Gated
<1>10. QED
  BY <1>2, <1>3, <1>4, <1>5, <1>6, <1>7, <1>8, <1>9 DEF ComposeIInv

LEMMA SupersedeKeeps ==
  ASSUME ComposeAssumption, ComposeIInv, Com!Supersede
  PROVE  ComposeIInv'
<1>1. /\ Com_pc = "supersede" /\ Com_pc' = "idle" /\ Com_job' = Com!NoJob
      /\ UNCHANGED <<Com_queue, Com_call, Com_issued, Com_crashes>>
      /\ UNCHANGED <<Com_state, Com_active, Com_copy, Com_order>>
      /\ Com_job.rel \in Com_Releases
      /\ Com_rel' \in [Com_Releases -> Rows]
      /\ Com_rel'[Com_job.rel] = Com_rel[Com_job.rel]
      /\ \A r \in Com_Releases :
           /\ Com_rel'[r].project = Com_rel[r].project
           /\ \/ Com_rel'[r].status = Com_rel[r].status
              \/ Com_rel'[r].status = "SUPERSEDED" /\ Com_rel[r].status \in {"LIVE", "SUPERSEDED"}
  <2>1. /\ Com_pc = "supersede" /\ Com_pc' = "idle" /\ Com_job' = Com!NoJob
        /\ UNCHANGED <<Com_queue, Com_call, Com_issued, Com_crashes>>
        /\ UNCHANGED <<Com_state, Com_active, Com_copy, Com_order>>
        /\ Com_job.rel \in Com_Releases
    BY DEF Com!Supersede, Com!Step, Com!host, ComposeIInv, JobWritten, Deploying, Early, Ended,
       Gated
  <2>2. Com_rel \in [Com_Releases -> Rows]
    BY DEF ComposeIInv, ComposeTypes
  <2>3. CASE Com_job.prior \in Com_Releases \ {Com_job.rel}
    <3>1. PICK p \in Com_Releases \ {Com_job.rel} : p = Com_job.prior
      BY <2>3
    <3>2. Com_rel' = [Com_rel EXCEPT ![p].status = "SUPERSEDED"]
      BY <2>3, <3>1 DEF Com!Supersede
    <3>3. Com_rel[p].status \in {"LIVE", "SUPERSEDED"}
      BY <3>1, ComposeAssumption DEF ComposeIInv, PriorsServed, Served
    <3>4. QED
      BY <2>1, <2>2, <3>1, <3>2, <3>3, ComposeAssumption DEF Rows
  <2>4. CASE ~(Com_job.prior \in Com_Releases \ {Com_job.rel})
    <3>1. Com_rel' = Com_rel
      BY <2>4 DEF Com!Supersede
    <3>2. QED
      BY <2>1, <2>2, <3>1
  <2>5. QED
    BY <2>3, <2>4
<1>2. ComposeTypes'
  BY <1>1, ComposeAssumption, NoJobTyped DEF ComposeIInv, ComposeTypes, Rows, JobRecords,
     CallRecords, Hosts, ReleaseOrNone, Com!Projects, Com!InProgress
<1>3. OrderInv'
  BY <1>1 DEF ComposeIInv, OrderInv, Com!ToSet, Com!IsInjective
<1>4. QueuedOnce'
  BY <1>1, ComposeAssumption DEF ComposeIInv, ComposeTypes, QueuedOnce, PriorsServed, Served,
     Inserted, Deploys, Begins, JobWritten, Row, Deploying, Early, Ended, Gated
<1>5. JobWritten'
  BY <1>1, ComposeAssumption DEF ComposeIInv, ComposeTypes, JobWritten, Row, Deploying, Early,
     Ended, Gated
<1>6. NothingYet'
  BY <1>1, ComposeAssumption DEF ComposeIInv, ComposeTypes, NothingYet, Empty, Com!Eligible,
     JobWritten, Row, Deploying, Early, Ended, Gated
<1>7. Serving'
  BY <1>1, ComposeAssumption DEF ComposeIInv, ComposeTypes, Serving, GatePassed, ReleaseOrNone,
     JobWritten, Row, Deploying, Early, Ended, Gated
<1>8. PriorsServed'
  BY <1>1, PriorsKept DEF Com!NoJob, ComposeIInv, JobWritten, Row, Deploying, Early, Ended, Gated
<1>9. StateTrue'
  BY <1>1, ComposeAssumption DEF ComposeIInv, ComposeTypes, StateTrue, Empty, Com!RunsWhole,
     JobWritten, Serving, GatePassed, Row, Deploying, Early, Ended, Gated
<1>10. QED
  BY <1>2, <1>3, <1>4, <1>5, <1>6, <1>7, <1>8, <1>9 DEF ComposeIInv

LEMMA UpBaseDoes ==
  ASSUME ComposeAssumption, ComposeIInv, Com!UpBase
  PROVE  /\ Com_pc = "upBase" /\ Com_pc' \in {"upBaseStart", "failed"}
         /\ UNCHANGED <<Com_queue, Com_call, Com_issued, Com_crashes>>
         /\ UNCHANGED <<Com_state, Com_active, Com_rel, Com_job>>
         /\ Com_copy' \in Hosts /\ OrderInv'
         /\ \A r \in Com_Releases : Com_copy'[r] = Com_copy[r]
<1>1. /\ Com_pc = "upBase" /\ Com_pc' \in {"upBaseStart", "failed"}
      /\ UNCHANGED <<Com_queue, Com_call, Com_issued, Com_crashes>>
      /\ UNCHANGED <<Com_state, Com_active, Com_rel, Com_job>>
  BY DEF Com!UpBase, Com!Step, Com!Goto, Com!db
<1>2. /\ Com_copy' \in Hosts /\ OrderInv'
      /\ \A r \in Com_Releases : Com_copy'[r] = Com_copy[r]
  <2>1. CASE UNCHANGED Com!host
    BY <2>1 DEF Com!host, ComposeIInv, ComposeTypes, OrderInv, Com!ToSet, Com!IsInjective
  <2>2. ASSUME NEW gone \in SUBSET Com_job.pinned,
               Com!Become(Com_Base, [s \in Com_Services |->
                 IF s \in Com_job.pinned \ gone THEN Com_copy[Com_Base][s] ELSE "absent"], FALSE)
        PROVE  /\ Com_copy' \in Hosts /\ OrderInv'
               /\ \A r \in Com_Releases : Com_copy'[r] = Com_copy[r]
    <3> DEFINE f == [s \in Com_Services |->
                       IF s \in Com_job.pinned \ gone THEN Com_copy[Com_Base][s] ELSE "absent"]
    <3>1. Com_Base \in Com!Projects /\ Com_Web \in Com_Services /\ Com_Base \notin Com_Releases
      BY DEF Com!Projects, ComposeAssumption
    <3>2. f \in [Com_Services -> Statuses] /\
            (f[Com_Web] # "absent" => Com_copy[Com_Base][Com_Web] # "absent")
      BY <3>1 DEF Statuses, ComposeIInv, ComposeTypes, Hosts
    <3>3. Com!Become(Com_Base, f, FALSE)
      BY <2>2
    <3> HIDE DEF f
    <3>4. /\ Com_copy' \in Hosts /\ OrderInv'
          /\ \A q \in Com!Projects : Com_copy'[q] = IF q = Com_Base THEN f ELSE Com_copy[q]
      BY <3>1, <3>2, <3>3, ProjectBecomes DEF ComposeIInv
    <3>5. QED
      BY <3>1, <3>4 DEF Com!Projects
  <2>3. QED
    BY <2>1, <2>2 DEF Com!UpBase
<1>3. QED
  BY <1>1, <1>2

LEMMA UpBaseKeeps ==
  ASSUME ComposeAssumption, ComposeIInv, Com!UpBase
  PROVE  ComposeIInv'
<1>1. /\ Com_pc = "upBase" /\ Com_pc' \in {"upBaseStart", "failed"}
      /\ UNCHANGED <<Com_queue, Com_call, Com_issued, Com_crashes>>
      /\ UNCHANGED <<Com_state, Com_active, Com_rel, Com_job>>
      /\ Com_copy' \in Hosts /\ OrderInv'
      /\ \A r \in Com_Releases : Com_copy'[r] = Com_copy[r]
  BY UpBaseDoes
<1>2. ComposeTypes'
  BY <1>1, ComposeAssumption DEF ComposeIInv, ComposeTypes, Rows, JobRecords, CallRecords, Hosts,
     ReleaseOrNone, Com!Projects, Com!InProgress
<1>3. QueuedOnce'
  BY <1>1, ComposeAssumption DEF ComposeIInv, ComposeTypes, QueuedOnce, PriorsServed, Served,
     Inserted, Deploys, Begins, JobWritten, Row, Deploying, Early, Ended, Gated
<1>4. JobWritten'
  BY <1>1, ComposeAssumption DEF ComposeIInv, ComposeTypes, JobWritten, Row, Deploying, Early,
     Ended, Gated
<1>5. NothingYet'
  BY <1>1, ComposeAssumption DEF ComposeIInv, ComposeTypes, NothingYet, Empty, Com!Eligible,
     Com!Projects, JobWritten, Row, Deploying, Early, Ended, Gated
<1>6. Serving'
  BY <1>1, ComposeAssumption DEF ComposeIInv, ComposeTypes, Serving, GatePassed, ReleaseOrNone,
     JobWritten, Row, Deploying, Early, Ended, Gated
<1>7. PriorsServed'
  BY <1>1, PriorsKept DEF Com!NoJob, ComposeIInv, JobWritten, Row, Deploying, Early, Ended, Gated
<1>8. StateTrue'
  BY <1>1, ComposeAssumption DEF ComposeIInv, ComposeTypes, StateTrue, Empty, Com!RunsWhole,
     JobWritten, Serving, GatePassed, Row, Deploying, Early, Ended, Gated
<1>9. QED
  BY <1>2, <1>3, <1>4, <1>5, <1>6, <1>7, <1>8, <1>1 DEF ComposeIInv

LEMMA UpBaseStartDoes ==
  ASSUME ComposeAssumption, ComposeIInv, Com!UpBaseStart
  PROVE  /\ Com_pc = "upBaseStart" /\ Com_pc' \in {"upRelease", "health", "failed"}
         /\ UNCHANGED <<Com_queue, Com_call, Com_issued, Com_crashes>>
         /\ UNCHANGED <<Com_state, Com_active, Com_rel, Com_job>>
         /\ Com_copy' \in Hosts /\ OrderInv'
         /\ \A r \in Com_Releases : Com_copy'[r] = Com_copy[r]
         /\ \A s \in Com_Services : Com_copy[Com_Base][s] = "up" => Com_copy'[Com_Base][s] = "up"
<1>1. /\ Com_pc = "upBaseStart" /\ Com_pc' \in {"upRelease", "health", "failed"}
      /\ UNCHANGED <<Com_queue, Com_call, Com_issued, Com_crashes>>
      /\ UNCHANGED <<Com_state, Com_active, Com_rel, Com_job>>
  BY DEF Com!UpBaseStart, Com!Step, Com!Goto, Com!db
<1>2. /\ Com_copy' \in Hosts /\ OrderInv'
      /\ \A r \in Com_Releases : Com_copy'[r] = Com_copy[r]
      /\ \A s \in Com_Services : Com_copy[Com_Base][s] = "up" => Com_copy'[Com_Base][s] = "up"
  <2>1. PICK up \in SUBSET (Com_job.pinned \ Com!Has(Com_Base)) :
          \E broken \in SUBSET (Com_job.pinned \ Com!Has(Com_Base)) :
            Com!Become(Com_Base, [s \in Com_Services |-> IF s \in up THEN "up" ELSE
              IF s \in broken THEN "broken" ELSE Com_copy[Com_Base][s]], Com_Web \in up \cup broken)
    BY DEF Com!UpBaseStart
  <2>2. PICK broken \in SUBSET (Com_job.pinned \ Com!Has(Com_Base)) :
          Com!Become(Com_Base, [s \in Com_Services |-> IF s \in up THEN "up" ELSE
            IF s \in broken THEN "broken" ELSE Com_copy[Com_Base][s]], Com_Web \in up \cup broken)
    BY <2>1
  <2> DEFINE f == [s \in Com_Services |-> IF s \in up THEN "up" ELSE
                     IF s \in broken THEN "broken" ELSE Com_copy[Com_Base][s]]
             launched == Com_Web \in up \cup broken
  <2>3. Com_Base \in Com!Projects /\ Com_Web \in Com_Services /\ Com_Base \notin Com_Releases
    BY DEF Com!Projects, ComposeAssumption
  <2>4. /\ f \in [Com_Services -> Statuses] /\ launched \in BOOLEAN
        /\ \A s \in Com_Services : Com_copy[Com_Base][s] = "up" => f[s] = "up"
        /\ launched \/ (f[Com_Web] # "absent" => Com_copy[Com_Base][Com_Web] # "absent")
    BY <2>3 DEF Statuses, ComposeIInv, ComposeTypes, Hosts, Com!Has
  <2>5. Com!Become(Com_Base, f, launched)
    BY <2>2
  <2> HIDE DEF f, launched
  <2>6. /\ Com_copy' \in Hosts /\ OrderInv'
        /\ \A q \in Com!Projects : Com_copy'[q] = IF q = Com_Base THEN f ELSE Com_copy[q]
    BY <2>3, <2>4, <2>5, ProjectBecomes DEF ComposeIInv
  <2>7. QED
    BY <2>3, <2>4, <2>6 DEF Com!Projects
<1>3. QED
  BY <1>1, <1>2

LEMMA UpBaseStartKeeps ==
  ASSUME ComposeAssumption, ComposeIInv, Com!UpBaseStart
  PROVE  ComposeIInv'
<1>1. /\ Com_pc = "upBaseStart" /\ Com_pc' \in {"upRelease", "health", "failed"}
      /\ UNCHANGED <<Com_queue, Com_call, Com_issued, Com_crashes>>
      /\ UNCHANGED <<Com_state, Com_active, Com_rel, Com_job>>
      /\ Com_copy' \in Hosts /\ OrderInv'
      /\ \A r \in Com_Releases : Com_copy'[r] = Com_copy[r]
      /\ \A s \in Com_Services : Com_copy[Com_Base][s] = "up" => Com_copy'[Com_Base][s] = "up"
  BY UpBaseStartDoes
<1>2. ComposeTypes'
  BY <1>1, ComposeAssumption DEF ComposeIInv, ComposeTypes, Rows, JobRecords, CallRecords, Hosts,
     ReleaseOrNone, Com!Projects, Com!InProgress
<1>3. QueuedOnce'
  BY <1>1, ComposeAssumption DEF ComposeIInv, ComposeTypes, QueuedOnce, PriorsServed, Served,
     Inserted, Deploys, Begins, JobWritten, Row, Deploying, Early, Ended, Gated
<1>4. JobWritten'
  BY <1>1, ComposeAssumption DEF ComposeIInv, ComposeTypes, JobWritten, Row, Deploying, Early,
     Ended, Gated
<1>5. NothingYet'
  BY <1>1, ComposeAssumption DEF ComposeIInv, ComposeTypes, NothingYet, Empty, Com!Eligible,
     Com!Projects, JobWritten, Row, Deploying, Early, Ended, Gated
<1>6. Serving'
  BY <1>1, ComposeAssumption DEF ComposeIInv, ComposeTypes, Serving, GatePassed, ReleaseOrNone,
     JobWritten, Row, Deploying, Early, Ended, Gated
<1>7. PriorsServed'
  BY <1>1, PriorsKept DEF Com!NoJob, ComposeIInv, JobWritten, Row, Deploying, Early, Ended, Gated
<1>8. StateTrue'
  BY <1>1, ComposeAssumption DEF ComposeIInv, ComposeTypes, StateTrue, Empty, Com!RunsWhole,
     JobWritten, Serving, GatePassed, Row, Deploying, Early, Ended, Gated
<1>9. QED
  BY <1>2, <1>3, <1>4, <1>5, <1>6, <1>7, <1>8, <1>1 DEF ComposeIInv

LEMMA UpReleaseDoes ==
  ASSUME ComposeAssumption, ComposeIInv, Com!UpRelease
  PROVE  /\ Com_pc = "upRelease" /\ Com_pc' \in {"health", "removeFailed"}
         /\ UNCHANGED <<Com_queue, Com_call, Com_issued, Com_crashes>>
         /\ UNCHANGED <<Com_state, Com_active, Com_rel, Com_job>>
         /\ Com_job.rel \in Com_Releases
         /\ Com_copy' \in Hosts /\ OrderInv'
         /\ \A q \in Com!Projects \ {Com_job.rel} : Com_copy'[q] = Com_copy[q]
         /\ Com!Eligible = {} => \A s \in Com_Services : Com_copy'[Com_job.rel][s] = "absent"
<1>1. /\ Com_pc = "upRelease" /\ Com_pc' \in {"health", "removeFailed"}
      /\ UNCHANGED <<Com_queue, Com_call, Com_issued, Com_crashes>>
      /\ UNCHANGED <<Com_state, Com_active, Com_rel, Com_job>>
      /\ Com_job.rel \in Com_Releases
  BY DEF Com!UpRelease, Com!Step, Com!Goto, Com!db, ComposeIInv, JobWritten, Deploying, Early,
     Ended, Gated
<1>2. /\ Com_copy' \in Hosts /\ OrderInv'
      /\ \A q \in Com!Projects \ {Com_job.rel} : Com_copy'[q] = Com_copy[q]
      /\ Com!Eligible = {} => \A s \in Com_Services : Com_copy'[Com_job.rel][s] = "absent"
  <2>1. PICK up \in SUBSET Com!Eligible : \E broken \in SUBSET Com!Eligible :
          Com!Become(Com_job.rel, [s \in Com_Services |-> IF s \in up THEN "up" ELSE
            IF s \in broken THEN "broken" ELSE "absent"], TRUE)
    BY DEF Com!UpRelease
  <2>2. PICK broken \in SUBSET Com!Eligible :
          Com!Become(Com_job.rel, [s \in Com_Services |-> IF s \in up THEN "up" ELSE
            IF s \in broken THEN "broken" ELSE "absent"], TRUE)
    BY <2>1
  <2> DEFINE f == [s \in Com_Services |-> IF s \in up THEN "up" ELSE
                     IF s \in broken THEN "broken" ELSE "absent"]
  <2>3. Com_job.rel \in Com!Projects
    BY <1>1 DEF Com!Projects
  <2>4. /\ f \in [Com_Services -> Statuses]
        /\ Com!Eligible = {} => \A s \in Com_Services : f[s] = "absent"
    BY DEF Statuses
  <2>5. Com!Become(Com_job.rel, f, TRUE)
    BY <2>2
  <2> HIDE DEF f
  <2>6. /\ Com_copy' \in Hosts /\ OrderInv'
        /\ \A q \in Com!Projects : Com_copy'[q] = IF q = Com_job.rel THEN f ELSE Com_copy[q]
    BY <2>3, <2>4, <2>5, ProjectBecomes DEF ComposeIInv
  <2>7. QED
    BY <2>3, <2>4, <2>6
<1>3. QED
  BY <1>1, <1>2

LEMMA UpReleaseKeeps ==
  ASSUME ComposeAssumption, ComposeIInv, Com!UpRelease
  PROVE  ComposeIInv'
<1>1. /\ Com_pc = "upRelease" /\ Com_pc' \in {"health", "removeFailed"}
      /\ UNCHANGED <<Com_queue, Com_call, Com_issued, Com_crashes>>
      /\ UNCHANGED <<Com_state, Com_active, Com_rel, Com_job>>
      /\ Com_job.rel \in Com_Releases
      /\ Com_copy' \in Hosts /\ OrderInv'
      /\ \A q \in Com!Projects \ {Com_job.rel} : Com_copy'[q] = Com_copy[q]
      /\ Com!Eligible = {} => \A s \in Com_Services : Com_copy'[Com_job.rel][s] = "absent"
  BY UpReleaseDoes
<1>2. ComposeTypes'
  BY <1>1, ComposeAssumption DEF ComposeIInv, ComposeTypes, Rows, JobRecords, CallRecords, Hosts,
     ReleaseOrNone, Com!Projects, Com!InProgress
<1>3. QueuedOnce'
  BY <1>1, ComposeAssumption DEF ComposeIInv, ComposeTypes, QueuedOnce, PriorsServed, Served,
     Inserted, Deploys, Begins, JobWritten, Row, Deploying, Early, Ended, Gated
<1>4. JobWritten'
  BY <1>1, ComposeAssumption DEF ComposeIInv, ComposeTypes, JobWritten, Row, Deploying, Early,
     Ended, Gated
<1>5. NothingYet'
  BY <1>1, ComposeAssumption DEF ComposeIInv, ComposeTypes, NothingYet, Empty, Com!Eligible,
     Com!Projects, JobWritten, Row, Deploying, Early, Ended, Gated
<1>6. Serving'
  BY <1>1, ComposeAssumption DEF ComposeIInv, ComposeTypes, Serving, GatePassed, ReleaseOrNone,
     JobWritten, Row, Deploying, Early, Ended, Gated
<1>7. PriorsServed'
  BY <1>1, PriorsKept DEF Com!NoJob, ComposeIInv, JobWritten, Row, Deploying, Early, Ended, Gated
<1>8. StateTrue'
  BY <1>1, ComposeAssumption DEF ComposeIInv, ComposeTypes, StateTrue, Empty, Com!RunsWhole,
     JobWritten, Serving, GatePassed, Row, Deploying, Early, Ended, Gated
<1>9. QED
  BY <1>2, <1>3, <1>4, <1>5, <1>6, <1>7, <1>8, <1>1 DEF ComposeIInv

LEMMA RemoveFailedDoes ==
  ASSUME ComposeAssumption, ComposeIInv, Com!RemoveFailed
  PROVE  /\ Com_pc = "removeFailed" /\ Com_pc' \in {"failed"}
         /\ UNCHANGED <<Com_queue, Com_call, Com_issued, Com_crashes>>
         /\ UNCHANGED <<Com_state, Com_active, Com_rel, Com_job>>
         /\ Com_job.rel \in Com_Releases
         /\ Com_copy' \in Hosts /\ OrderInv'
         /\ \A q \in Com!Projects \ {Com_job.rel} : Com_copy'[q] = Com_copy[q]
         /\ \A s \in Com_Services : Com_copy'[Com_job.rel][s] = "absent"
<1>1. /\ Com_pc = "removeFailed" /\ Com_pc' \in {"failed"}
      /\ UNCHANGED <<Com_queue, Com_call, Com_issued, Com_crashes>>
      /\ UNCHANGED <<Com_state, Com_active, Com_rel, Com_job>>
      /\ Com_job.rel \in Com_Releases
  BY DEF Com!RemoveFailed, Com!Step, Com!Goto, Com!db, ComposeIInv, JobWritten, Deploying, Early,
     Ended, Gated
<1>2. /\ Com_copy' \in Hosts /\ OrderInv'
      /\ \A q \in Com!Projects \ {Com_job.rel} : Com_copy'[q] = Com_copy[q]
      /\ \A s \in Com_Services : Com_copy'[Com_job.rel][s] = "absent"
  <2>1. Com_job.rel \in Com!Projects
    BY <1>1 DEF Com!Projects
  <2>2. CASE Com!Eligible # {}
    <3>1. Com!Down(Com_job.rel)
      BY <2>2 DEF Com!RemoveFailed
    <3>2. QED
      BY <2>1, <3>1, ProjectDown DEF ComposeIInv
  <2>3. CASE Com!Eligible = {}
    <3>1. UNCHANGED <<Com_copy, Com_order>>
      BY <2>3 DEF Com!RemoveFailed, Com!host
    <3>2. \A s \in Com_Services : Com_copy[Com_job.rel][s] = "absent"
      BY <1>1, <2>3 DEF ComposeIInv, NothingYet, Empty, Deploying
    <3>3. QED
      BY <3>1, <3>2 DEF ComposeIInv, ComposeTypes, OrderInv, Com!ToSet, Com!IsInjective
  <2>4. QED
    BY <2>2, <2>3
<1>3. QED
  BY <1>1, <1>2

LEMMA RemoveFailedKeeps ==
  ASSUME ComposeAssumption, ComposeIInv, Com!RemoveFailed
  PROVE  ComposeIInv'
<1>1. /\ Com_pc = "removeFailed" /\ Com_pc' \in {"failed"}
      /\ UNCHANGED <<Com_queue, Com_call, Com_issued, Com_crashes>>
      /\ UNCHANGED <<Com_state, Com_active, Com_rel, Com_job>>
      /\ Com_job.rel \in Com_Releases
      /\ Com_copy' \in Hosts /\ OrderInv'
      /\ \A q \in Com!Projects \ {Com_job.rel} : Com_copy'[q] = Com_copy[q]
      /\ \A s \in Com_Services : Com_copy'[Com_job.rel][s] = "absent"
  BY RemoveFailedDoes
<1>2. ComposeTypes'
  BY <1>1, ComposeAssumption DEF ComposeIInv, ComposeTypes, Rows, JobRecords, CallRecords, Hosts,
     ReleaseOrNone, Com!Projects, Com!InProgress
<1>3. QueuedOnce'
  BY <1>1, ComposeAssumption DEF ComposeIInv, ComposeTypes, QueuedOnce, PriorsServed, Served,
     Inserted, Deploys, Begins, JobWritten, Row, Deploying, Early, Ended, Gated
<1>4. JobWritten'
  BY <1>1, ComposeAssumption DEF ComposeIInv, ComposeTypes, JobWritten, Row, Deploying, Early,
     Ended, Gated
<1>5. NothingYet'
  BY <1>1, ComposeAssumption DEF ComposeIInv, ComposeTypes, NothingYet, Empty, Com!Eligible,
     Com!Projects, JobWritten, Row, Deploying, Early, Ended, Gated
<1>6. Serving'
  BY <1>1, ComposeAssumption DEF ComposeIInv, ComposeTypes, Serving, GatePassed, ReleaseOrNone,
     JobWritten, Row, Deploying, Early, Ended, Gated
<1>7. PriorsServed'
  BY <1>1, PriorsKept DEF Com!NoJob, ComposeIInv, JobWritten, Row, Deploying, Early, Ended, Gated
<1>8. StateTrue'
  BY <1>1, ComposeAssumption DEF ComposeIInv, ComposeTypes, StateTrue, Empty, Com!RunsWhole,
     JobWritten, Serving, GatePassed, Row, Deploying, Early, Ended, Gated
<1>9. QED
  BY <1>2, <1>3, <1>4, <1>5, <1>6, <1>7, <1>8, <1>1 DEF ComposeIInv

LEMMA CutoverDoes ==
  ASSUME ComposeAssumption, ComposeIInv, Com!Cutover
  PROVE  /\ Com_pc = "cutover" /\ Com_pc' \in {"supersede"}
         /\ UNCHANGED <<Com_queue, Com_call, Com_issued, Com_crashes>>
         /\ UNCHANGED <<Com_state, Com_active, Com_rel, Com_job>>
         /\ Com_job.rel \in Com_Releases
         /\ Com_copy' \in Hosts /\ OrderInv'
         /\ Com_copy'[Com_job.rel] = Com_copy[Com_job.rel]
         /\ Com_copy'[Com_Base] = Com_copy[Com_Base]
         /\ \A q \in Com!Projects :
              Com_copy'[q] = Com_copy[q] \/ \A s \in Com_Services : Com_copy'[q][s] = "absent"
<1>1. /\ Com_pc = "cutover" /\ Com_pc' \in {"supersede"}
      /\ UNCHANGED <<Com_queue, Com_call, Com_issued, Com_crashes>>
      /\ UNCHANGED <<Com_state, Com_active, Com_rel, Com_job>>
      /\ Com_job.rel \in Com_Releases
  BY DEF Com!Cutover, Com!Step, Com!Goto, Com!db, ComposeIInv, JobWritten, Deploying, Early, Ended,
     Gated
<1>2. /\ Com_copy' \in Hosts /\ OrderInv'
      /\ Com_copy'[Com_job.rel] = Com_copy[Com_job.rel] /\ Com_copy'[Com_Base] = Com_copy[Com_Base]
      /\ \A q \in Com!Projects :
           Com_copy'[q] = Com_copy[q] \/ \A s \in Com_Services : Com_copy'[q][s] = "absent"
  <2>1. CASE Com_job.project \notin {Com_None, Com_Base, Com_job.rel}
    <3>1. Com!Down(Com_job.project)
      BY <2>1 DEF Com!Cutover
    <3>2. PICK p \in Com!Projects : p = Com_job.project
      BY <2>1 DEF ComposeIInv, ComposeTypes, JobRecords
    <3>3. /\ Com_copy' \in Hosts /\ OrderInv' /\ \A s \in Com_Services : Com_copy'[p][s] = "absent"
          /\ \A q \in Com!Projects : q # p => Com_copy'[q] = Com_copy[q]
      BY <3>1, <3>2, ProjectDown DEF ComposeIInv
    <3>4. p # Com_Base /\ p # Com_job.rel /\ Com_Base \in Com!Projects /\
            Com_job.rel \in Com!Projects
      BY <1>1, <2>1, <3>2 DEF Com!Projects
    <3>5. QED
      BY <3>3, <3>4
  <2>2. CASE ~(Com_job.project \notin {Com_None, Com_Base, Com_job.rel})
    <3>1. UNCHANGED <<Com_copy, Com_order>>
      BY <2>2 DEF Com!Cutover, Com!host
    <3>2. QED
      BY <3>1 DEF ComposeIInv, ComposeTypes, OrderInv, Com!ToSet, Com!IsInjective
  <2>3. QED
    BY <2>1, <2>2
<1>3. QED
  BY <1>1, <1>2

LEMMA CutoverKeeps ==
  ASSUME ComposeAssumption, ComposeIInv, Com!Cutover
  PROVE  ComposeIInv'
<1>1. /\ Com_pc = "cutover" /\ Com_pc' \in {"supersede"}
      /\ UNCHANGED <<Com_queue, Com_call, Com_issued, Com_crashes>>
      /\ UNCHANGED <<Com_state, Com_active, Com_rel, Com_job>>
      /\ Com_job.rel \in Com_Releases
      /\ Com_copy' \in Hosts /\ OrderInv'
      /\ Com_copy'[Com_job.rel] = Com_copy[Com_job.rel] /\ Com_copy'[Com_Base] = Com_copy[Com_Base]
      /\ \A q \in Com!Projects :
           Com_copy'[q] = Com_copy[q] \/ \A s \in Com_Services : Com_copy'[q][s] = "absent"
  BY CutoverDoes
<1>2. ComposeTypes'
  BY <1>1, ComposeAssumption DEF ComposeIInv, ComposeTypes, Rows, JobRecords, CallRecords, Hosts,
     ReleaseOrNone, Com!Projects, Com!InProgress
<1>3. QueuedOnce'
  BY <1>1, ComposeAssumption DEF ComposeIInv, ComposeTypes, QueuedOnce, PriorsServed, Served,
     Inserted, Deploys, Begins, JobWritten, Row, Deploying, Early, Ended, Gated
<1>4. JobWritten'
  BY <1>1, ComposeAssumption DEF ComposeIInv, ComposeTypes, JobWritten, Row, Deploying, Early,
     Ended, Gated
<1>5. NothingYet'
  BY <1>1, ComposeAssumption DEF ComposeIInv, ComposeTypes, NothingYet, Empty, Com!Eligible,
     Com!Projects, JobWritten, Row, Deploying, Early, Ended, Gated
<1>6. Serving'
  BY <1>1, ComposeAssumption DEF ComposeIInv, ComposeTypes, Serving, GatePassed, ReleaseOrNone,
     JobWritten, Row, Deploying, Early, Ended, Gated
<1>7. PriorsServed'
  BY <1>1, PriorsKept DEF Com!NoJob, ComposeIInv, JobWritten, Row, Deploying, Early, Ended, Gated
<1>8. StateTrue'
  BY <1>1, ComposeAssumption DEF ComposeIInv, ComposeTypes, StateTrue, Empty, Com!RunsWhole,
     JobWritten, Serving, GatePassed, Row, Deploying, Early, Ended, Gated
<1>9. QED
  BY <1>2, <1>3, <1>4, <1>5, <1>6, <1>7, <1>8, <1>1 DEF ComposeIInv

LEMMA DownAllDoes ==
  ASSUME ComposeAssumption, ComposeIInv, Com!DownAll
  PROVE  /\ Com_pc = "down" /\ Com_pc' \in {"stopped"}
         /\ UNCHANGED <<Com_queue, Com_call, Com_issued, Com_crashes>>
         /\ UNCHANGED <<Com_state, Com_active, Com_rel, Com_job>>
         /\ Com_copy' \in Hosts /\ Com_order' = <<>>
         /\ \A p \in Com!Projects, s \in Com_Services : Com_copy'[p][s] = "absent"
<1>1. /\ Com_pc = "down" /\ Com_pc' \in {"stopped"}
      /\ UNCHANGED <<Com_queue, Com_call, Com_issued, Com_crashes>>
      /\ UNCHANGED <<Com_state, Com_active, Com_rel, Com_job>>
  BY DEF Com!DownAll, Com!Step, Com!Goto, Com!db
<1>2. /\ Com_copy' \in Hosts /\ Com_order' = <<>>
      /\ \A p \in Com!Projects, s \in Com_Services : Com_copy'[p][s] = "absent"
  BY DEF Com!DownAll, Hosts
<1>3. QED
  BY <1>1, <1>2

LEMMA DownAllKeeps ==
  ASSUME ComposeAssumption, ComposeIInv, Com!DownAll
  PROVE  ComposeIInv'
<1>1. /\ Com_pc = "down" /\ Com_pc' \in {"stopped"}
      /\ UNCHANGED <<Com_queue, Com_call, Com_issued, Com_crashes>>
      /\ UNCHANGED <<Com_state, Com_active, Com_rel, Com_job>>
      /\ Com_copy' \in Hosts /\ Com_order' = <<>>
      /\ \A p \in Com!Projects, s \in Com_Services : Com_copy'[p][s] = "absent"
  BY DownAllDoes
<1>2. ComposeTypes'
  BY <1>1, ComposeAssumption DEF ComposeIInv, ComposeTypes, Rows, JobRecords, CallRecords, Hosts,
     ReleaseOrNone, Com!Projects, Com!InProgress
<1>3. OrderInv'
  BY <1>1, ComposeAssumption DEF ComposeIInv, ComposeTypes, OrderInv, Com!ToSet, Com!IsInjective
<1>4. QueuedOnce'
  BY <1>1, ComposeAssumption DEF ComposeIInv, ComposeTypes, QueuedOnce, PriorsServed, Served,
     Inserted, Deploys, Begins, JobWritten, Row, Deploying, Early, Ended, Gated
<1>5. JobWritten'
  BY <1>1, ComposeAssumption DEF ComposeIInv, ComposeTypes, JobWritten, Row, Deploying, Early,
     Ended, Gated
<1>6. NothingYet'
  BY <1>1, ComposeAssumption DEF ComposeIInv, ComposeTypes, NothingYet, Empty, Com!Eligible,
     Com!Projects, JobWritten, Row, Deploying, Early, Ended, Gated
<1>7. Serving'
  BY <1>1, ComposeAssumption DEF ComposeIInv, ComposeTypes, Serving, GatePassed, ReleaseOrNone,
     JobWritten, Row, Deploying, Early, Ended, Gated
<1>8. PriorsServed'
  BY <1>1, PriorsKept DEF Com!NoJob, ComposeIInv, JobWritten, Row, Deploying, Early, Ended, Gated
<1>9. StateTrue'
  BY <1>1, ComposeAssumption DEF ComposeIInv, ComposeTypes, StateTrue, Empty, Com!RunsWhole,
     JobWritten, Serving, GatePassed, Row, Deploying, Early, Ended, Gated
<1>10. QED
  BY <1>2, <1>3, <1>4, <1>5, <1>6, <1>7, <1>8, <1>9 DEF ComposeIInv

\* Requests.
LEMMA DeployReadKeeps ==
  ASSUME ComposeAssumption, ComposeIInv, NEW c \in Com_Callers, Com!DeployRead(c)
  PROVE  ComposeIInv'
<1>1. /\ UNCHANGED <<Com_state, Com_active, Com_rel, Com_copy, Com_order, Com_queue, Com_job,
           Com_pc, Com_crashes>>
      /\ Com_issued' \in 0..Com_MaxCalls
  BY DEF Com!DeployRead, Com!NewCall, Com!db, Com!host, ComposeIInv, ComposeTypes, ComposeAssumption
<1>2. /\ Com_call' \in [Com_Callers -> CallRecords]
      /\ \A d \in Com_Callers : d # c => Com_call'[d] = Com_call[d]
      /\ Com_call'[c].at = "create" /\ Com_call'[c].prior = Com_active
  BY DEF Com!DeployRead, Com!NoCall, ComposeIInv, ComposeTypes, CallRecords, ReleaseOrNone
<1>3. ComposeTypes'
  BY <1>1, <1>2, ComposeAssumption DEF ComposeIInv, ComposeTypes, Rows, JobRecords, CallRecords,
     Hosts, ReleaseOrNone, Com!Projects, Com!InProgress
<1>4. OrderInv'
  BY <1>1, <1>2, ComposeAssumption DEF ComposeIInv, ComposeTypes, OrderInv, Com!ToSet,
     Com!IsInjective
<1>5. QueuedOnce'
  BY <1>1, <1>2 DEF ComposeIInv, QueuedOnce, Inserted, Deploys, Begins
<1>6. JobWritten'
  BY <1>1, <1>2, ComposeAssumption DEF ComposeIInv, ComposeTypes, JobWritten, Row, Deploying, Early,
     Ended, Gated
<1>7. NothingYet'
  BY <1>1, <1>2, ComposeAssumption DEF ComposeIInv, ComposeTypes, NothingYet, Empty, Com!Eligible,
     Com!Projects, JobWritten, Row, Deploying, Early, Ended, Gated
<1>8. Serving'
  BY <1>1, <1>2, ComposeAssumption DEF ComposeIInv, ComposeTypes, Serving, GatePassed,
     ReleaseOrNone, JobWritten, Row, Deploying, Early, Ended, Gated
<1>9. PriorsServed'
  BY <1>1, <1>2 DEF ComposeIInv, ComposeTypes, PriorsServed, Served, Serving, CallRecords,
     JobRecords, ReleaseOrNone
<1>10. StateTrue'
  BY <1>1, <1>2, ComposeAssumption DEF ComposeIInv, ComposeTypes, StateTrue, Empty, Com!RunsWhole,
     JobWritten, Serving, GatePassed, Row, Deploying, Early, Ended, Gated
<1>11. QED
  BY <1>3, <1>4, <1>5, <1>6, <1>7, <1>8, <1>9, <1>10 DEF ComposeIInv

LEMMA DeployCreateKeeps ==
  ASSUME ComposeAssumption, ComposeIInv, NEW c \in Com_Callers, Com!DeployCreate(c)
  PROVE  ComposeIInv'
<1>1. /\ UNCHANGED <<Com_state, Com_active, Com_copy, Com_order, Com_queue, Com_job, Com_pc,
           Com_issued, Com_crashes>>
      /\ Com_call[c].at = "create"
  BY DEF Com!DeployCreate, Com!host
<1>2. PICK r \in Com_Releases :
        /\ Com_rel[r].status = "none"
        /\ Com_rel' = [Com_rel EXCEPT ![r].status = "QUEUED"]
        /\ Com_call' = [Com_call EXCEPT ![c].at = "mark", ![c].rel = r]
  BY DEF Com!DeployCreate
<1>3. /\ Com_rel' \in [Com_Releases -> Rows]
      /\ \A q \in Com_Releases : Com_rel'[q].status = IF q = r THEN "QUEUED" ELSE Com_rel[q].status
      /\ \A q \in Com_Releases : Com_rel'[q].project = Com_rel[q].project
  BY <1>2 DEF ComposeIInv, ComposeTypes, Rows, Com!InProgress
<1>4. /\ Com_call' \in [Com_Callers -> CallRecords]
      /\ \A d \in Com_Callers : d # c => Com_call'[d] = Com_call[d]
      /\ Com_call'[c].at = "mark" /\ Com_call'[c].rel = r /\ Com_call'[c].prior = Com_call[c].prior
  <2>1. Com_call[c] \in CallRecords /\ Com_call \in [Com_Callers -> CallRecords]
    BY DEF ComposeIInv, ComposeTypes
  <2>2. Com_call' = [Com_call EXCEPT ![c] = [Com_call[c] EXCEPT !.at = "mark", !.rel = r]]
    BY <1>2, <2>1
  <2>3. QED
    BY <2>1, <2>2 DEF CallRecords, ReleaseOrNone
<1>5. Com_rel[r].status = "none"
  BY <1>2
<1>6. ComposeTypes'
  BY <1>1, <1>3, <1>4, <1>5, ComposeAssumption DEF ComposeIInv, ComposeTypes, Rows, JobRecords,
     CallRecords, Hosts, ReleaseOrNone, Com!Projects, Com!InProgress
<1>7. OrderInv'
  BY <1>1, <1>3, <1>4, <1>5, ComposeAssumption DEF ComposeIInv, ComposeTypes, OrderInv, Com!ToSet,
     Com!IsInjective
<1>8. QueuedOnce'
  BY <1>1, <1>3, <1>4, <1>5 DEF ComposeIInv, QueuedOnce, Inserted, Deploys, Begins, JobWritten, Row,
     Deploying, Early, Ended, Gated
<1>9. JobWritten'
  BY <1>1, <1>3, <1>4, <1>5, ComposeAssumption DEF ComposeIInv, ComposeTypes, JobWritten, Row,
     Deploying, Early, Ended, Gated
<1>10. NothingYet'
  BY <1>1, <1>3, <1>4, <1>5, ComposeAssumption DEF ComposeIInv, ComposeTypes, NothingYet, Empty,
     Com!Eligible, Com!Projects, JobWritten, Row, Deploying, Early, Ended, Gated
<1>11. Serving'
  BY <1>1, <1>3, <1>4, <1>5, ComposeAssumption DEF ComposeIInv, ComposeTypes, Serving, GatePassed,
     ReleaseOrNone, JobWritten, Row, Deploying, Early, Ended, Gated
<1>12. PriorsServed'
  <2>1. \A q \in ReleaseOrNone : Served(q) => Served(q)'
    BY <1>3, <1>5 DEF Served, ReleaseOrNone
  <2>2. \A d \in Com_Callers : Com_call[d].prior \in ReleaseOrNone /\
          Com_call'[d].prior = Com_call[d].prior
    BY <1>4 DEF ComposeIInv, ComposeTypes, CallRecords
  <2>3. \A i \in DOMAIN Com_queue : Com_queue[i].prior \in ReleaseOrNone
    <3>1. \A i \in DOMAIN Com_queue : Com_queue[i] \in JobRecords
      BY DEF ComposeIInv, ComposeTypes
    <3>2. QED
      BY <3>1 DEF JobRecords
  <2>4. Com_job.prior \in ReleaseOrNone
    BY DEF ComposeIInv, ComposeTypes, JobRecords
  <2>5. QED
    BY <1>1, <2>1, <2>2, <2>3, <2>4 DEF ComposeIInv, PriorsServed, Served
<1>13. StateTrue'
  BY <1>1, <1>3, <1>4, <1>5, ComposeAssumption DEF ComposeIInv, ComposeTypes, StateTrue, Empty,
     Com!RunsWhole, JobWritten, Serving, GatePassed, Row, Deploying, Early, Ended, Gated
<1>14. QED
  BY <1>6, <1>7, <1>8, <1>9, <1>10, <1>11, <1>12, <1>13 DEF ComposeIInv

LEMMA MarkKeeps ==
  ASSUME ComposeAssumption, ComposeIInv, NEW c \in Com_Callers, Com!Mark(c)
  PROVE  ComposeIInv'
<1>1. /\ UNCHANGED <<Com_active, Com_rel, Com_copy, Com_order, Com_queue, Com_job, Com_pc,
           Com_issued, Com_crashes>>
      /\ Com_call[c].at = "mark" /\ Com_state' = "DEPLOYING"
  BY DEF Com!Mark, Com!host
<1>2. /\ Com_call' \in [Com_Callers -> CallRecords]
      /\ \A d \in Com_Callers : d # c => Com_call'[d] = Com_call[d]
      /\ Com_call'[c].at = "enqueue" /\ Com_call'[c].rel = Com_call[c].rel
      /\ Com_call'[c].prior = Com_call[c].prior
  BY DEF Com!Mark, ComposeIInv, ComposeTypes, CallRecords, ReleaseOrNone
<1>3. ComposeTypes'
  BY <1>1, <1>2, ComposeAssumption DEF ComposeIInv, ComposeTypes, Rows, JobRecords, CallRecords,
     Hosts, ReleaseOrNone, Com!Projects, Com!InProgress
<1>4. OrderInv'
  BY <1>1, <1>2, ComposeAssumption DEF ComposeIInv, ComposeTypes, OrderInv, Com!ToSet,
     Com!IsInjective
<1>5. QueuedOnce'
  BY <1>1, <1>2 DEF ComposeIInv, QueuedOnce, Inserted, Deploys, Begins
<1>6. JobWritten'
  BY <1>1, <1>2, ComposeAssumption DEF ComposeIInv, ComposeTypes, JobWritten, Row, Deploying, Early,
     Ended, Gated
<1>7. NothingYet'
  BY <1>1, <1>2, ComposeAssumption DEF ComposeIInv, ComposeTypes, NothingYet, Empty, Com!Eligible,
     Com!Projects, JobWritten, Row, Deploying, Early, Ended, Gated
<1>8. Serving'
  BY <1>1, <1>2, ComposeAssumption DEF ComposeIInv, ComposeTypes, Serving, GatePassed,
     ReleaseOrNone, JobWritten, Row, Deploying, Early, Ended, Gated
<1>9. PriorsServed'
  BY <1>1, <1>2 DEF ComposeIInv, ComposeTypes, PriorsServed, Served, Serving, CallRecords,
     JobRecords, ReleaseOrNone
<1>10. StateTrue'
  BY <1>1, <1>2, ComposeAssumption DEF ComposeIInv, ComposeTypes, StateTrue, Empty, Com!RunsWhole,
     JobWritten, Serving, GatePassed, Row, Deploying, Early, Ended, Gated
<1>11. QED
  BY <1>3, <1>4, <1>5, <1>6, <1>7, <1>8, <1>9, <1>10 DEF ComposeIInv

LEMMA EnqueueKeeps ==
  ASSUME ComposeAssumption, ComposeIInv, NEW c \in Com_Callers, Com!Enqueue(c)
  PROVE  ComposeIInv'
<1> DEFINE new == [Com!NoJob EXCEPT !.kind = "deploy", !.rel = Com_call[c].rel,
      !.prior = Com_call[c].prior]
<1>1. /\ UNCHANGED <<Com_state, Com_active, Com_rel, Com_copy, Com_order, Com_job, Com_pc,
           Com_issued, Com_crashes>>
      /\ Com_call[c].at = "enqueue" /\ Com_queue' = Append(Com_queue, new)
      /\ new \in JobRecords /\ new.kind = "deploy" /\ new.rel = Com_call[c].rel
      /\ new.prior = Com_call[c].prior
  BY DEF Com!Enqueue, Com!db, Com!host, Com!NoJob, JobRecords, ReleaseOrNone, CallRecords,
     ComposeIInv, ComposeTypes
<1> HIDE DEF new
<1>2. /\ Com_call' \in [Com_Callers -> CallRecords]
      /\ \A d \in Com_Callers : d # c => Com_call'[d] = Com_call[d]
      /\ Com_call'[c].at = "idle" /\ Com_call'[c].prior = Com_None
  BY DEF Com!Enqueue, Com!NoCall, ComposeIInv, ComposeTypes, CallRecords, ReleaseOrNone
<1>3. /\ Com_queue' \in Seq(JobRecords) /\ Len(Com_queue') = Len(Com_queue) + 1
      /\ DOMAIN Com_queue' = 1..Len(Com_queue) + 1
      /\ \A i \in DOMAIN Com_queue : i \in 1..Len(Com_queue) /\ Com_queue'[i] = Com_queue[i]
      /\ \A i \in 1..Len(Com_queue) + 1 : i \in DOMAIN Com_queue \/ i = Len(Com_queue) + 1
      /\ Len(Com_queue) \in Nat /\ Len(Com_queue) + 1 \notin DOMAIN Com_queue
      /\ Com_queue'[Len(Com_queue) + 1].kind = "deploy"
      /\ Com_queue'[Len(Com_queue) + 1].rel = Com_call[c].rel
      /\ Com_queue'[Len(Com_queue) + 1].prior = Com_call[c].prior
  BY <1>1 DEF ComposeIInv, ComposeTypes
<1>4. ComposeTypes'
  BY <1>1, <1>2, <1>3, ComposeAssumption DEF ComposeIInv, ComposeTypes, Rows, JobRecords,
     CallRecords, Hosts, ReleaseOrNone, Com!Projects, Com!InProgress
<1>5. OrderInv'
  BY <1>1, <1>2, <1>3, ComposeAssumption DEF ComposeIInv, ComposeTypes, OrderInv, Com!ToSet,
     Com!IsInjective
<1>6. QueuedOnce'
  <2> DEFINE n == Len(Com_queue) + 1
  <2>1. /\ \A i \in DOMAIN Com_queue' : i = n \/ (i \in DOMAIN Com_queue /\ Com_queue'[i] = Com_queue[i])
        /\ Com_queue'[n].kind = "deploy" /\ Com_queue'[n].rel = Com_call[c].rel
        /\ Inserted(c) /\ Com_call'[c].at = "idle"
        /\ \A d \in Com_Callers : d # c => Com_call'[d] = Com_call[d]
    BY <1>1, <1>2, <1>3 DEF Inserted
  <2>2. UNCHANGED <<Com_rel, Com_job, Com_pc>>
    BY <1>1
  <2> HIDE DEF n
  <2>3. \A i \in DOMAIN Com_queue' :
          /\ Com_queue'[i].kind \in {"deploy", "stop"}
          /\ Deploys(i)' => /\ Com_queue'[i].rel \in Com_Releases
                           /\ Com_rel'[Com_queue'[i].rel].status = "QUEUED"
    BY <2>1, <2>2 DEF ComposeIInv, QueuedOnce, Deploys
  <2>4. \A i, j \in DOMAIN Com_queue' :
          Deploys(i)' /\ Deploys(j)' /\ i # j => Com_queue'[i].rel # Com_queue'[j].rel
    BY <2>1 DEF ComposeIInv, QueuedOnce, Deploys
  <2>5. /\ \A d \in Com_Callers : Inserted(d)' =>
             /\ Com_call'[d].rel \in Com_Releases /\ Com_rel'[Com_call'[d].rel].status = "QUEUED"
        /\ \A d, e \in Com_Callers :
             Inserted(d)' /\ Inserted(e)' /\ d # e => Com_call'[d].rel # Com_call'[e].rel
    BY <2>1, <2>2 DEF ComposeIInv, QueuedOnce, Inserted
  <2>6. \A d \in Com_Callers, i \in DOMAIN Com_queue' :
          Inserted(d)' /\ Deploys(i)' => Com_call'[d].rel # Com_queue'[i].rel
    BY <2>1 DEF ComposeIInv, QueuedOnce, Inserted, Deploys
  <2>7. Begins' => /\ \A i \in DOMAIN Com_queue' : Deploys(i)' => Com_job'.rel # Com_queue'[i].rel
                   /\ \A d \in Com_Callers : Inserted(d)' => Com_job'.rel # Com_call'[d].rel
    BY <2>1, <2>2 DEF ComposeIInv, QueuedOnce, Inserted, Deploys, Begins
  <2>8. QED
    BY <2>3, <2>4, <2>5, <2>6, <2>7 DEF QueuedOnce, Inserted, Deploys, Begins
<1>7. JobWritten'
  BY <1>1, <1>2, <1>3, ComposeAssumption DEF ComposeIInv, ComposeTypes, JobWritten, Row, Deploying,
     Early, Ended, Gated
<1>8. NothingYet'
  BY <1>1, <1>2, <1>3, ComposeAssumption DEF ComposeIInv, ComposeTypes, NothingYet, Empty,
     Com!Eligible, Com!Projects, JobWritten, Row, Deploying, Early, Ended, Gated
<1>9. Serving'
  BY <1>1, <1>2, <1>3, ComposeAssumption DEF ComposeIInv, ComposeTypes, Serving, GatePassed,
     ReleaseOrNone, JobWritten, Row, Deploying, Early, Ended, Gated
<1>10. PriorsServed'
  <2> DEFINE n == Len(Com_queue) + 1
  <2>1. /\ \A i \in DOMAIN Com_queue' : i = n \/ (i \in DOMAIN Com_queue /\ Com_queue'[i] = Com_queue[i])
        /\ Com_queue'[n].prior = Com_call[c].prior /\ Com_call'[c].prior = Com_None
        /\ \A d \in Com_Callers : d # c => Com_call'[d] = Com_call[d]
    BY <1>2, <1>3
  <2>2. UNCHANGED <<Com_rel, Com_job>>
    BY <1>1
  <2> HIDE DEF n
  <2>3. QED
    BY <2>1, <2>2 DEF ComposeIInv, PriorsServed, Served
<1>11. StateTrue'
  BY <1>1, <1>2, <1>3, ComposeAssumption DEF ComposeIInv, ComposeTypes, StateTrue, Empty,
     Com!RunsWhole, JobWritten, Serving, GatePassed, Row, Deploying, Early, Ended, Gated
<1>12. QED
  BY <1>4, <1>5, <1>6, <1>7, <1>8, <1>9, <1>10, <1>11 DEF ComposeIInv

LEMMA StopKeeps ==
  ASSUME ComposeAssumption, ComposeIInv, NEW c \in Com_Callers, Com!Stop(c)
  PROVE  ComposeIInv'
<1> DEFINE new == [Com!NoJob EXCEPT !.kind = "stop"]
<1>1. /\ UNCHANGED <<Com_state, Com_active, Com_rel, Com_copy, Com_order, Com_job, Com_pc,
           Com_call, Com_crashes>>
      /\ Com_queue' = Append(Com_queue, new) /\ Com_issued' \in 0..Com_MaxCalls
      /\ new \in JobRecords /\ new.kind = "stop" /\ new.prior = Com_None
  <2>1. new \in JobRecords /\ new.kind = "stop" /\ new.prior = Com_None
    BY DEF Com!NoJob, JobRecords, ReleaseOrNone
  <2>2. Com_issued' \in 0..Com_MaxCalls
    BY DEF Com!Stop, Com!NewCall, ComposeIInv, ComposeTypes, ComposeAssumption
  <2>3. QED
    BY <2>1, <2>2 DEF Com!Stop, Com!NewCall, Com!db, Com!host
<1> HIDE DEF new
<1>2. /\ Com_queue' \in Seq(JobRecords) /\ Len(Com_queue') = Len(Com_queue) + 1
      /\ DOMAIN Com_queue' = 1..Len(Com_queue) + 1
      /\ \A i \in DOMAIN Com_queue : i \in 1..Len(Com_queue) /\ Com_queue'[i] = Com_queue[i]
      /\ \A i \in 1..Len(Com_queue) + 1 : i \in DOMAIN Com_queue \/ i = Len(Com_queue) + 1
      /\ Len(Com_queue) \in Nat /\ Len(Com_queue) + 1 \notin DOMAIN Com_queue
      /\ Com_queue'[Len(Com_queue) + 1].kind = "stop"
      /\ Com_queue'[Len(Com_queue) + 1].prior = Com_None
  BY <1>1 DEF ComposeIInv, ComposeTypes
<1>3. ComposeTypes'
  BY <1>1, <1>2, ComposeAssumption DEF ComposeIInv, ComposeTypes, Rows, JobRecords, CallRecords,
     Hosts, ReleaseOrNone, Com!Projects, Com!InProgress
<1>4. OrderInv'
  BY <1>1, <1>2, ComposeAssumption DEF ComposeIInv, ComposeTypes, OrderInv, Com!ToSet,
     Com!IsInjective
<1>5. QueuedOnce'
  BY <1>1, <1>2 DEF ComposeIInv, QueuedOnce, Inserted, Deploys, Begins
<1>6. JobWritten'
  BY <1>1, <1>2, ComposeAssumption DEF ComposeIInv, ComposeTypes, JobWritten, Row, Deploying, Early,
     Ended, Gated
<1>7. NothingYet'
  BY <1>1, <1>2, ComposeAssumption DEF ComposeIInv, ComposeTypes, NothingYet, Empty, Com!Eligible,
     Com!Projects, JobWritten, Row, Deploying, Early, Ended, Gated
<1>8. Serving'
  BY <1>1, <1>2, ComposeAssumption DEF ComposeIInv, ComposeTypes, Serving, GatePassed,
     ReleaseOrNone, JobWritten, Row, Deploying, Early, Ended, Gated
<1>9. PriorsServed'
  BY <1>1, <1>2 DEF ComposeIInv, ComposeTypes, PriorsServed, Served, Serving, CallRecords,
     JobRecords, ReleaseOrNone
<1>10. StateTrue'
  BY <1>1, <1>2, ComposeAssumption DEF ComposeIInv, ComposeTypes, StateTrue, Empty, Com!RunsWhole,
     JobWritten, Serving, GatePassed, Row, Deploying, Early, Ended, Gated
<1>11. QED
  BY <1>3, <1>4, <1>5, <1>6, <1>7, <1>8, <1>9, <1>10 DEF ComposeIInv

\* The queue.
LEMMA TakeJobKeeps ==
  ASSUME ComposeAssumption, ComposeIInv, Com!TakeJob
  PROVE  ComposeIInv'
<1>1. /\ Com_pc = "idle" /\ Com_queue # <<>> /\ Com_job' = Head(Com_queue)
      /\ Com_queue' = Tail(Com_queue)
      /\ Com_pc' = IF Head(Com_queue).kind = "stop" THEN "down" ELSE "prior"
      /\ UNCHANGED <<Com_state, Com_active, Com_rel, Com_copy, Com_order, Com_call, Com_issued,
           Com_crashes>>
  BY DEF Com!TakeJob, Com!db, Com!host
<1>2. /\ Com_job' = Com_queue[1] /\ 1 \in DOMAIN Com_queue /\ Com_job' \in JobRecords
      /\ Com_queue' \in Seq(JobRecords)
      /\ \A i \in DOMAIN Com_queue' : i \in Nat \ {0} /\ i + 1 \in DOMAIN Com_queue /\
           Com_queue'[i] = Com_queue[i + 1]
      /\ Com_pc' = IF Com_queue[1].kind = "stop" THEN "down" ELSE "prior"
  BY <1>1 DEF ComposeIInv, ComposeTypes
<1>3. /\ Com_pc = "idle"
      /\ UNCHANGED <<Com_state, Com_active, Com_rel, Com_copy, Com_order, Com_call, Com_issued,
           Com_crashes>>
  BY <1>1
<1>4. ComposeTypes'
  BY <1>2, <1>3, ComposeAssumption DEF ComposeIInv, ComposeTypes, Rows, JobRecords, CallRecords,
     Hosts, ReleaseOrNone, Com!Projects, Com!InProgress
<1>5. OrderInv'
  BY <1>2, <1>3, ComposeAssumption DEF ComposeIInv, ComposeTypes, OrderInv, Com!ToSet,
     Com!IsInjective
<1>6. QueuedOnce'
  BY <1>2, <1>3 DEF ComposeIInv, QueuedOnce, Inserted, Deploys, Begins
<1>7. JobWritten'
  BY <1>2, <1>3 DEF ComposeIInv, QueuedOnce, Inserted, Deploys, Begins, JobWritten, Row, Deploying,
     Early, Ended, Gated
<1>8. NothingYet'
  <2>1. Com_pc' = "prior" => Com_job'.rel \in Com_Releases /\
          Com_rel[Com_job'.rel].status = "QUEUED"
    BY <1>2 DEF ComposeIInv, QueuedOnce, Inserted, Deploys, Begins
  <2>2. QED
    BY <1>2, <1>3, <2>1 DEF ComposeIInv, NothingYet, Empty, Com!Eligible, Deploying, Early, Ended,
       Gated
<1>9. Serving'
  BY <1>2, <1>3, ComposeAssumption DEF ComposeIInv, ComposeTypes, Serving, GatePassed,
     ReleaseOrNone, JobWritten, Row, Deploying, Early, Ended, Gated
<1>10. PriorsServed'
  BY <1>2, <1>3 DEF ComposeIInv, ComposeTypes, PriorsServed, Served, Serving, CallRecords,
     JobRecords, ReleaseOrNone
<1>11. StateTrue'
  BY <1>2, <1>3, ComposeAssumption DEF ComposeIInv, ComposeTypes, StateTrue, Empty, Com!RunsWhole,
     JobWritten, Serving, GatePassed, Row, Deploying, Early, Ended, Gated
<1>12. QED
  BY <1>4, <1>5, <1>6, <1>7, <1>8, <1>9, <1>10, <1>11 DEF ComposeIInv

\* A restart.
LEMMA CrashKeeps ==
  ASSUME ComposeAssumption, ComposeIInv, Com!Crash
  PROVE  ComposeIInv'
<1> DEFINE marked == [r \in Com_Releases |->
      IF Com_rel[r].status \in Com!InProgress THEN [Com_rel[r] EXCEPT !.status = "INTERRUPTED"]
      ELSE Com_rel[r]]
    again(r) == [Com!NoJob EXCEPT !.kind = "deploy", !.rel = r, !.prior = Com_active]
<1>1. /\ UNCHANGED <<Com_active, Com_copy, Com_order, Com_issued>>
      /\ Com_job' = Com!NoJob /\ Com_pc' = "idle" /\ Com_crashes' \in 1..Com_MaxCrashes
      /\ Com_job'.prior = Com_None
  <2>1. Com_crashes < Com_MaxCrashes /\ Com_crashes' = Com_crashes + 1
    BY DEF Com!Crash
  <2>2. Com_crashes' \in 1..Com_MaxCrashes
    BY <2>1 DEF ComposeIInv, ComposeTypes, ComposeAssumption
  <2>3. QED
    BY <2>2 DEF Com!Crash, Com!host, Com!NoJob
<1>2. /\ Com_call' \in [Com_Callers -> CallRecords]
      /\ \A c \in Com_Callers : Com_call'[c].at = "idle" /\ Com_call'[c].prior = Com_None
  BY DEF Com!Crash, Com!NoCall, CallRecords, ReleaseOrNone
<1>3. /\ marked \in [Com_Releases -> Rows]
      /\ \A r \in Com_Releases : marked[r].project = Com_rel[r].project
      /\ \A r \in Com_Releases :
           /\ Com_rel[r].status \in Com!InProgress => marked[r].status = "INTERRUPTED"
           /\ Com_rel[r].status \notin Com!InProgress => marked[r].status = Com_rel[r].status
  BY DEF ComposeIInv, ComposeTypes, Rows, Com!InProgress
<1>4. ASSUME NEW r \in Com_Releases
      PROVE  again(r) \in JobRecords /\ again(r).kind = "deploy" /\ again(r).rel = r /\
               again(r).prior = Com_active
  BY DEF Com!NoJob, JobRecords, ReleaseOrNone, ComposeIInv, ComposeTypes
<1>5. \/ Com_rel' = marked /\ Com_queue' = <<>> /\ Com_state' = Com_state
      \/ \E r \in Com_Releases :
           /\ Com_rel[r].status = "none" /\ Com_rel' = [marked EXCEPT ![r].status = "QUEUED"]
           /\ Com_state' = "DEPLOYING" /\ Com_queue' = <<again(r)>>
  BY DEF Com!Crash
<1>6. /\ Com_rel' \in [Com_Releases -> Rows]
      /\ \A r \in Com_Releases : Com_rel'[r].project = Com_rel[r].project
      /\ \A r \in Com_Releases :
           Com_rel[r].status \in {"LIVE", "SUPERSEDED", "FAILED"} =>
                Com_rel'[r].status = Com_rel[r].status
      /\ \A r \in Com_Releases :
           Com_rel'[r].status \in {"none", "QUEUED", "FAILED"} =>
                Com_rel[r].status \in {"none", "QUEUED", "FAILED"}
      /\ Com_state' \in {Com_state, "DEPLOYING"} /\ Com_queue' \in Seq(JobRecords)
      /\ \A i \in DOMAIN Com_queue' :
           /\ i = 1 /\ Com_queue'[i].kind = "deploy" /\ Com_queue'[i].rel \in Com_Releases
           /\ Com_rel'[Com_queue'[i].rel].status = "QUEUED" /\ Com_queue'[i].prior = Com_active
  <2> HIDE DEF marked, again
  <2>1. CASE Com_rel' = marked /\ Com_queue' = <<>> /\ Com_state' = Com_state
    BY <1>3, <2>1 DEF Com!InProgress
  <2>2. CASE \E r \in Com_Releases :
                /\ Com_rel[r].status = "none" /\ Com_rel' = [marked EXCEPT ![r].status = "QUEUED"]
                /\ Com_state' = "DEPLOYING" /\ Com_queue' = <<again(r)>>
    <3> PICK r \in Com_Releases :
          /\ Com_rel[r].status = "none" /\ Com_rel' = [marked EXCEPT ![r].status = "QUEUED"]
          /\ Com_state' = "DEPLOYING" /\ Com_queue' = <<again(r)>>
      BY <2>2
    <3>1. /\ Com_rel' \in [Com_Releases -> Rows]
          /\ \A q \in Com_Releases : Com_rel'[q].project = Com_rel[q].project
          /\ \A q \in Com_Releases : Com_rel'[q].status = IF q = r THEN "QUEUED" ELSE marked[q].status
      BY <1>3 DEF Rows, Com!InProgress
    <3>2. Com_queue' \in Seq(JobRecords) /\ DOMAIN Com_queue' = {1} /\ Com_queue'[1] = again(r)
      BY <1>4
    <3>3. QED
      BY <1>3, <1>4, <3>1, <3>2 DEF Com!InProgress
  <2>3. QED
    BY <1>5, <2>1, <2>2
<1> HIDE DEF marked, again
<1>7. ComposeTypes'
  BY <1>1, <1>2, <1>6, NoJobTyped DEF ComposeIInv, ComposeTypes, ReleaseOrNone
<1>8. OrderInv'
  BY <1>1 DEF ComposeIInv, OrderInv, Com!ToSet, Com!IsInjective
<1>9. QueuedOnce'
  BY <1>1, <1>2, <1>6 DEF QueuedOnce, Inserted, Deploys, Begins
<1>10. JobWritten'
  BY <1>1 DEF JobWritten, Deploying, Early, Ended, Gated
<1>11. NothingYet'
  BY <1>1, <1>6 DEF ComposeIInv, NothingYet, Empty, Deploying, Early, Ended, Gated
<1>12. Serving'
  BY <1>1, <1>6 DEF ComposeIInv, Serving, Gated, ComposeTypes, ReleaseOrNone
<1>13. PriorsServed'
  <2>1. Served(Com_active)'
    BY <1>1, <1>6 DEF Served, ComposeIInv, Serving, ComposeTypes, ReleaseOrNone
  <2>2. QED
    BY <1>1, <1>2, <1>6, <2>1 DEF PriorsServed, Served
<1>14. StateTrue'
  BY <1>1, ComposeAssumption DEF StateTrue, ComposeAssumption
<1>15. QED
  BY <1>7, <1>8, <1>9, <1>10, <1>11, <1>12, <1>13, <1>14 DEF ComposeIInv

\* No step.
LEMMA ComposeStays ==
  ASSUME ComposeIInv, UNCHANGED composeVars
  PROVE  ComposeIInv'
<1>1. UNCHANGED <<Com_state, Com_active, Com_rel, Com_copy, Com_order, Com_queue, Com_job, Com_pc,
        Com_call,
                  Com_issued, Com_crashes>>
  BY DEF composeVars
<1>2. ComposeTypes' /\ OrderInv' /\ QueuedOnce'
  BY <1>1 DEF ComposeIInv, ComposeTypes, OrderInv, Com!ToSet, Com!IsInjective, QueuedOnce, Inserted,
     Deploys, Begins
<1>3. JobWritten' /\ NothingYet' /\ Serving' /\ PriorsServed' /\ StateTrue'
  BY <1>1 DEF ComposeIInv, JobWritten, Row, NothingYet, Empty, Com!Eligible, Serving, GatePassed,
     PriorsServed,
              Served, StateTrue, Com!RunsWhole
<1>4. QED
  BY <1>2, <1>3 DEF ComposeIInv

\* The start.
LEMMA ComposeStarts ==
  ASSUME ComposeAssumption, Com!Init
  PROVE  ComposeIInv
<1>1. /\ Com_copy \in Hosts /\ \A p \in Com!Projects : Empty(p)
      /\ \A p \in Com!Projects : Com_copy[p][Com_Web] = "absent"
  BY DEF Com!Init, Hosts, Empty, ComposeAssumption
<1>2. /\ Com_rel \in [Com_Releases -> Rows]
      /\ \A r \in Com_Releases : Com_rel[r].project = Com_None
  BY DEF Com!Init, Com!NoRow, Rows
<1>3. /\ Com_call \in [Com_Callers -> CallRecords]
      /\ \A c \in Com_Callers : Com_call[c].at = "idle" /\ Com_call[c].prior = Com_None
  BY DEF Com!Init, Com!NoCall, CallRecords, ReleaseOrNone
<1>4. /\ Com_job \in JobRecords /\ Com_job.prior = Com_None /\ Com_queue \in Seq(JobRecords)
      /\ DOMAIN Com_queue = {}
      /\ Com_state = "CREATED" /\ Com_active = Com_None /\ Com_pc = "idle" /\ Com_order = <<>>
      /\ Com_issued = 0 /\ Com_crashes = 0
  BY NoJobTyped DEF Com!Init, Com!NoJob
<1>5. ComposeTypes
  BY <1>1, <1>2, <1>3, <1>4, ComposeAssumption DEF ComposeTypes, ReleaseOrNone, ComposeAssumption
<1>6. OrderInv
  BY <1>1, <1>4 DEF OrderInv, Com!ToSet, Com!IsInjective
<1>7. QueuedOnce /\ JobWritten
  BY <1>3, <1>4 DEF QueuedOnce, Inserted, Deploys, Begins, JobWritten, Deploying, Early, Ended,
     Gated
<1>8. NothingYet
  BY <1>1, <1>4 DEF NothingYet, Com!Projects, Deploying, Early, Ended, Gated
<1>9. Serving /\ PriorsServed /\ StateTrue
  BY <1>3, <1>4 DEF Serving, PriorsServed, Served, StateTrue, Gated
<1>10. QED
  BY <1>5, <1>6, <1>7, <1>8, <1>9 DEF ComposeIInv

\* Every step.
LEMMA ComposeStep ==
  ASSUME ComposeAssumption, ComposeIInv, [Com!Next]_composeVars
  PROVE  ComposeIInv'
<1>1. CASE UNCHANGED composeVars
  BY <1>1, ComposeStays
<1>2. CASE Com!Crash
  BY <1>2, CrashKeeps
<1>3. ASSUME NEW c \in Com_Callers, Com!Request(c) PROVE ComposeIInv'
  BY <1>3, DeployReadKeeps, DeployCreateKeeps, MarkKeeps, EnqueueKeeps, StopKeeps DEF Com!Request
<1>4. CASE Com!RunJob
  BY <1>4, TakeJobKeeps, ReadPriorKeeps, CloneKeeps, PrepareKeeps, UpBaseKeeps, UpBaseStartKeeps,
     UpReleaseKeeps,
     HealthCheckingKeeps, GateKeeps, RemoveFailedKeeps, SetLiveKeeps, SetActiveKeeps,
          SetRunningKeeps, CutoverKeeps,
     SupersedeKeeps, MarkFailedKeeps, StateAfterFailureKeeps, DownAllKeeps, SetStoppedKeeps
     DEF Com!RunJob
<1>5. QED
  BY <1>1, <1>2, <1>3, <1>4 DEF Com!Next

\* What the run checks follows.
LEMMA ComposeImplied ==
  ASSUME ComposeAssumption, ComposeIInv
  PROVE  ComposeInv
<1>1. Com!TypeOK
  BY DEF ComposeIInv, ComposeTypes, OrderInv, Com!TypeOK, ReleaseOrNone, Rows, Hosts, JobRecords
<1>2. Com!RunningMeansWhole
  BY DEF ComposeIInv, StateTrue, Com!RunningMeansWhole, Com!Idle
<1>3. Com!FailedLeavesNothing
  BY DEF ComposeIInv, NothingYet, Empty, Com!FailedLeavesNothing, Com!Has
<1>4. Com!StoppedMeansDown
  BY DEF ComposeIInv, StateTrue, Empty, Com!StoppedMeansDown, Com!Idle, Com!Has
<1>5. QED
  BY <1>1, <1>2, <1>3, <1>4 DEF ComposeInv, Com!NothingLeftUp

\* For any releases, services, layouts and requests: RUNNING at rest means that every service
\* runs, STOPPED that nothing does, and a deploy that failed leaves nothing of its own behind.
THEOREM ComposeHolds == SumSpec => []ComposeInv
<1>1. SumInit => ComposeIInv
  BY ComposeAssumption, ComposeStarts DEF SumInit
<1>2. ComposeIInv /\ [SumNext]_allVars => ComposeIInv'
  <2>1. [SumNext]_allVars => [Com!Next]_composeVars
    BY DEF SumNext, allVars
  <2>2. QED
    BY <2>1, ComposeAssumption, ComposeStep
<1>3. ComposeIInv => ComposeInv
  BY ComposeAssumption, ComposeImplied
<1>4. QED
  BY <1>1, <1>2, <1>3, PTL DEF SumSpec

(***************************************************************************)
(* Compose releases: what a step never does.                                  *)
(***************************************************************************)
BlueStep ==
  \A r \in Com_Releases, s \in Com_Services :
    r = Com_active /\ Com_copy[r][s] = "up" /\ Com_copy'[r][s] # "up" => Com_job.kind = "stop"
WebStep ==
  Com!Routed # Com_None /\ Com!Routed' = Com_None =>
    Com_job.kind = "stop" \/ (Com_pc = "upBase" /\ Com!Routed = Com_Base) \/
         Com!Routed = Com_job.rel

\* The steps that touch the containers.
LEMMA HostSteps ==
  ASSUME [Com!Next]_composeVars
  PROVE  \/ UNCHANGED <<Com_copy, Com_order>>
         \/ Com!UpBase \/ Com!UpBaseStart \/ Com!UpRelease \/ Com!RemoveFailed \/ Com!Cutover \/
              Com!DownAll
<1>1. CASE UNCHANGED composeVars \/ Com!Crash \/ \E c \in Com_Callers : Com!Request(c)
  BY <1>1 DEF composeVars, Com!host, Com!Crash, Com!Request, Com!DeployRead, Com!DeployCreate,
     Com!Mark,
              Com!Enqueue, Com!Stop
<1>2. CASE Com!RunJob
  BY <1>2 DEF Com!RunJob, Com!host, Com!TakeJob, Com!ReadPrior, Com!Clone, Com!Prepare,
     Com!HealthChecking,
              Com!Gate, Com!SetLive, Com!SetActive, Com!SetRunning, Com!Supersede, Com!MarkFailed,
              Com!StateAfterFailure, Com!SetStopped
<1>3. QED
  BY <1>1, <1>2 DEF Com!Next

LEMMA ServesStep ==
  ASSUME ComposeAssumption, ComposeIInv, RoutedInv, RoutedInv', [Com!Next]_composeVars
  PROVE  BlueStep /\ WebStep
<1>1. CASE UNCHANGED <<Com_copy, Com_order>>
  BY <1>1 DEF BlueStep, WebStep, Com!Routed
<1>2. CASE Com!UpBase
  <2>1. Com_pc = "upBase" /\ \A r \in Com_Releases : Com_copy'[r] = Com_copy[r]
    BY <1>2, UpBaseDoes
  <2>2. QED
    BY <2>1 DEF BlueStep, WebStep, RoutedInv, Com!Projects
<1>3. CASE Com!UpBaseStart
  <2>1. /\ \A r \in Com_Releases : Com_copy'[r] = Com_copy[r]
        /\ \A s \in Com_Services : Com_copy[Com_Base][s] = "up" => Com_copy'[Com_Base][s] = "up"
    BY <1>3, UpBaseStartDoes
  <2>2. QED
    BY <2>1, ComposeAssumption DEF BlueStep, WebStep, RoutedInv, Com!Projects, ComposeAssumption
<1>4. CASE Com!UpRelease
  <2>1. /\ \A q \in Com!Projects \ {Com_job.rel} : Com_copy'[q] = Com_copy[q]
        /\ Com_pc = "upRelease"
    BY <1>4, UpReleaseDoes
  <2>2. Empty(Com_job.rel)
    BY <2>1 DEF ComposeIInv, NothingYet, Early
  <2>3. QED
    BY <2>1, <2>2, ComposeAssumption DEF BlueStep, WebStep, RoutedInv, Com!Projects, Empty,
       ComposeAssumption
<1>5. CASE Com!RemoveFailed
  <2>1. /\ \A q \in Com!Projects \ {Com_job.rel} : Com_copy'[q] = Com_copy[q]
        /\ Com_pc = "removeFailed"
    BY <1>5, RemoveFailedDoes
  <2>2. ASSUME NEW r \in Com_Releases, r = Com_active PROVE r # Com_job.rel
    BY <2>1, <2>2, ComposeAssumption DEF ComposeIInv, Serving, JobWritten, Row, ComposeAssumption
  <2>3. QED
    BY <2>1, <2>2 DEF BlueStep, WebStep, RoutedInv, Com!Projects
<1>6. CASE Com!Cutover
  <2>1. /\ Com_copy'[Com_job.rel] = Com_copy[Com_job.rel]
        /\ Com_copy'[Com_Base] = Com_copy[Com_Base]
        /\ Com_pc = "cutover" /\ Com_job.rel \in Com_Releases
    BY <1>6, CutoverDoes
  <2>2. Com_active = Com_job.rel /\ GatePassed
    BY <2>1 DEF ComposeIInv, Serving, Gated
  <2>3. Com_copy[Com_Base][Com_Web] = "up" \/ Com_copy[Com_job.rel][Com_Web] = "up"
    BY <2>2, ComposeAssumption DEF GatePassed, ComposeAssumption
  <2>4. QED
    BY <2>1, <2>2, <2>3 DEF BlueStep, WebStep, RoutedInv, Com!Projects
<1>7. CASE Com!DownAll
  <2>1. Com_job.kind = "stop"
    BY <1>7, DownAllDoes DEF ComposeIInv, JobWritten
  <2>2. QED
    BY <2>1 DEF BlueStep, WebStep
<1>8. QED
  BY <1>1, <1>2, <1>3, <1>4, <1>5, <1>6, <1>7, HostSteps

\* No deploy, failing or not, takes a container of the release that serves down before its
\* successor is in place, and the domain keeps reaching a running copy of Web through every
\* deploy that keeps Web where it is: for any releases, services, layouts and requests.
THEOREM ComposeServesAll == SumSpec => ComposeServes
<1>1. SumInit => ComposeIInv
  BY ComposeAssumption, ComposeStarts DEF SumInit
<1>2. ComposeIInv /\ [SumNext]_allVars => ComposeIInv'
  BY ComposeAssumption, ComposeStep DEF SumNext, allVars
<1>3. ComposeIInv => RoutedInv
  BY ComposeAssumption, RoutedIfUp DEF ComposeIInv
<1>4. ComposeIInv /\ RoutedInv /\ RoutedInv' /\ [SumNext]_allVars => [BlueStep]_(Com!vars) /\
        [WebStep]_(Com!vars)
  <2>1. [SumNext]_allVars => [Com!Next]_composeVars
    BY DEF SumNext, allVars
  <2>2. QED
    BY <2>1, ComposeAssumption, ServesStep
<1>5. QED
  BY <1>1, <1>2, <1>3, <1>4, PTL DEF SumSpec, ComposeServes, Com!BlueKept, Com!WebThroughDeploy,
     BlueStep, WebStep
=============================================================================
