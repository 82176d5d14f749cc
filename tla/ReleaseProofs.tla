---------------------------- MODULE ReleaseProofs ----------------------------
(***************************************************************************)
(* Proofs about ReleaseLifecycle, for any sets of releases, images,          *)
(* containers and requests and any bounds.  What a theorem asks of Ops says    *)
(* which operations and faults it allows; nothing else is assumed.             *)
(***************************************************************************)
EXTENDS ReleaseLifecycle, FiniteSetTheorems, TLAPS

USE NoneAssumption, BoundsAssumption

(***************************************************************************)
(* Types, with those of the locals of jobs and requests.                    *)
(***************************************************************************)
Pcs == {"idle", "find", "clone", "building", "build", "check", "removeByName", "create", "probe",
        "live", "activate", "running", "stale", "supersede", "cleanup", "catch", "failed",
        "removeAll", "stopped"}
Launches == {"deploy", "relaunch", "rollback"}
JobKinds == Launches \cup {"stop"}
Deleting == {"check", "dropContainer", "dropImage", "dropRow"}
TearingDown == {"teardown", "removeRow"}
Awaits == {"idle", "create", "mark", "enqueue"} \cup Deleting \cup TearingDown

Reads == Row \cup (SUBSET Containers) \cup {None}
Call == [at : Awaits, kind : {"none", "delete", "teardown"} \cup Launches,
         rel : Releases \cup {None}, prior : Releases \cup {None}, read : Reads]
Container == [st : {"absent", "created", "starting", "healthy", "stopped", "removed"},
              rel : Releases \cup {None}]

\* Jobs of these kinds name the release they are about when they are enqueued.
Named(kind, r) == kind \in {"deploy", "rollback"} => r \in Releases
EnqueuedJob == {j \in Job : j.kind \in JobKinds /\ Named(j.kind, j.rel)}

RowsOK ==
  state \in States /\ active \in Releases \cup {None} /\ rel \in [Releases -> Row]

HostOK == con \in [Containers -> Container] /\ images \in SUBSET Images

QueueOK == queue \in Seq(Job) /\ queue \in Seq(EnqueuedJob)

\* Which jobs reach which await, and when they know their release.
JobOK ==
  /\ job \in Job /\ pc \in Pcs
  /\ pc # "idle" => job.kind \in JobKinds /\ Named(job.kind, job.rel)
  /\ pc \in {"clone", "building", "build", "check", "failed", "cleanup"} => job.kind = "deploy"
  /\ pc \in {"live", "activate", "supersede"} => job.kind \in {"deploy", "rollback"}
  /\ pc \in {"removeByName", "create", "probe", "running", "stale"} =>
       job.kind \in Launches /\ job.rel \in Releases
  /\ pc \in {"removeAll", "stopped"} => job.kind = "stop"
  /\ pc = "build" => job.tag \in Images

CallsOK ==
  /\ call \in [Callers -> Call]
  /\ \A c \in Callers :
       /\ call[c].at = "create" => call[c].kind = "deploy"
       /\ call[c].at \in {"mark", "enqueue"} =>
            call[c].kind \in Launches /\ Named(call[c].kind, call[c].rel)

\* While the backend is down or repairs, it serves nobody.
ProcOK ==
  /\ proc \in {"down", "booting", "up", "unrepaired"}
  /\ proc \in {"down", "booting"} =>
       pc = "idle" /\ queue = <<>> /\ \A c \in Callers : call[c].at = "idle"
  /\ issued \in 0..MaxCalls /\ faults \in 0..MaxFaults

Types == RowsOK /\ HostOK /\ QueueOK /\ JobOK /\ CallsOK /\ ProcOK

(***************************************************************************)
(* Releases in progress: who works on them.                                 *)
(***************************************************************************)
BeforeLive == {"find", "clone", "building", "build", "check", "removeByName", "create", "probe",
               "live", "catch"}
AskedFor(c, r) == call[c].kind = "deploy" /\ call[c].at \in {"mark", "enqueue"} /\ call[c].rel = r
Queued(i, r) == queue[i].kind = "deploy" /\ queue[i].rel = r
WorkedOn(r) == job.kind = "deploy" /\ pc \in BeforeLive /\ job.rel = r
Pending(r) == (\E c \in Callers : AskedFor(c, r)) \/ (\E i \in 1..Len(queue) : Queued(i, r))

\* While the backend has not died, a release is in progress only with a request, a queued
\* job or the running job behind it.
OwnedInv ==
  proc \in {"up", "booting"} =>
    \A r \in Releases : rel[r].status \in InProgress => Pending(r) \/ WorkedOn(r)

(***************************************************************************)
(* Releases whose job has not begun: nothing has been built, started or      *)
(* activated for them, and one request or one job is about them.             *)
(***************************************************************************)
Untouched(r) == rel[r].tag = None /\ active # r /\ \A k \in Containers : con[k].rel # r

\* The running job holds a release: a deploy all along, others once they have found it.
Holding == \/ job.kind = "deploy" /\ pc # "idle"
           \/ job.kind \in {"relaunch", "rollback"} /\ pc \notin {"idle", "find", "catch"}

PendingInv ==
  /\ \A r \in Releases : rel[r].status = "none" => Untouched(r)
  /\ \A r \in Releases : Pending(r) => rel[r].status # "none" /\ Untouched(r)
  /\ Holding => rel[job.rel].status # "none" /\ ~Pending(job.rel)
  /\ job.kind = "deploy" /\ pc \in BeforeLive => active # job.rel
  /\ job.kind = "deploy" /\ pc \in BeforeLive \ {"probe", "live", "catch"} =>
       \A k \in Containers : con[k].rel # job.rel

UniqueInv ==
  /\ \A c, d \in Callers, r \in Releases : AskedFor(c, r) /\ AskedFor(d, r) => c = d
  /\ \A i, j \in 1..Len(queue), r \in Releases : Queued(i, r) /\ Queued(j, r) => i = j
  /\ \A c \in Callers, i \in 1..Len(queue), r \in Releases : ~(AskedFor(c, r) /\ Queued(i, r))

(***************************************************************************)
(* The active release, while deleteRelease has removed nothing.             *)
(***************************************************************************)
\* The job has made its release the active one.
Activated == pc \in {"running", "supersede", "cleanup"} \/ (pc = "stale" /\ job.kind = "deploy")

\* The job has a tag, and its row carries it; the image is there once a container was created.
Tagged == {"build", "check", "removeByName", "create", "probe", "live", "activate", "stale",
           "running", "supersede", "cleanup"}
Imaged == {"probe", "live", "activate", "stale", "running", "supersede", "cleanup"}

JobRowInv ==
  /\ pc = "activate" => rel[job.rel].status = "LIVE"
  /\ pc \in Tagged => rel[job.rel].tag = job.tag
  /\ Activated /\ job.kind # "relaunch" => active = job.rel

Dropping == {"dropContainer", "dropImage", "dropRow"}

\* What a deletion is about was inserted, and a deletion that has begun is still there to see.
DropInv ==
  \A c \in Callers :
    /\ call[c].at \in Dropping => call[c].rel \in Releases /\ rel[call[c].rel].status # "none"
    /\ "delete" \notin Ops => call[c].at \notin Deleting

ActiveInv ==
  /\ DropInv
  /\ state = "gone" => active = None
  /\ state # "gone" /\ NothingDropped =>
       /\ JobRowInv
       /\ pc \in Imaged => job.tag \in images
       /\ active # None => rel[active].status = "LIVE" /\ rel[active].tag \in images

(***************************************************************************)
(* Containers of the running job, when nothing is deleted beside the queue.  *)
(***************************************************************************)
NothingDeleted == \A c \in Callers : call[c].at \notin Deleting \cup TearingDown

Launched == pc \in {"live", "activate", "running", "stale", "supersede", "cleanup"}

NewInv ==
  /\ NothingDeleted
  /\ pc = "probe" => job.new \in Containers /\ con[job.new] = [st |-> "starting", rel |-> job.rel]
  /\ Launched => job.new \in Containers /\ con[job.new] = [st |-> "healthy", rel |-> job.rel]

(***************************************************************************)
(* What is left when a job has ended, when the backend does not die either.  *)
(***************************************************************************)
ServedOnly(r) == \E k \in Containers : Present = {k} /\ con[k].st = "healthy" /\ con[k].rel = r

\* The cut-over is over: the container of the job is the only one.
Alone == pc \in {"supersede", "cleanup"}
         \/ (pc \in {"live", "activate", "running"} /\ job.kind # "deploy")

RestInv ==
  /\ proc = "up" /\ state # "gone"
  /\ pc = "idle" /\ state = "RUNNING" => ServedOnly(active)
  /\ pc = "idle" /\ state = "STOPPED" => Present = {}
  /\ job.kind = "relaunch" /\ pc \notin {"idle", "find", "catch"} => active = job.rel
  /\ Activated => active = job.rel /\ (pc # "running" => state # "STOPPED")
  /\ Alone => Present = {job.new}
  /\ pc = "stopped" => Present = {}

(***************************************************************************)
(* Which steps write what.                                                  *)
(***************************************************************************)
LEMMA RowWriters ==
  [Next]_vars =>
    \/ UNCHANGED db
    \/ \E c \in Callers : DeployCreate(c) \/ Mark(c) \/ DeleteRow(c) \/ RemoveDeployment(c)
    \/ Clone \/ StartBuild \/ HealthChecking \/ SetLive \/ SetActive \/ SetRunning \/ Supersede
    \/ MarkReleaseFailed \/ StateAfterFailedDeploy \/ MarkActionFailed \/ SetStopped
    \/ BootMark \/ BootReconcile
<1> SUFFICES ASSUME [Next]_vars
             PROVE  \/ UNCHANGED db
                    \/ \E c \in Callers : DeployCreate(c) \/ Mark(c) \/ DeleteRow(c) \/ RemoveDeployment(c)
                    \/ Clone \/ StartBuild \/ HealthChecking \/ SetLive \/ SetActive \/ SetRunning
                    \/ Supersede \/ MarkReleaseFailed \/ StateAfterFailedDeploy \/ MarkActionFailed
                    \/ SetStopped \/ BootMark \/ BootReconcile
  OBVIOUS
<1>1. ASSUME NEW c \in Callers, Request(c) PROVE UNCHANGED db
  BY <1>1 DEF Request, DeployRead, StartRead, RollbackRead, Stop, DeleteRead, TeardownList
<1>2. ASSUME NEW c \in Callers,
             Enqueue(c) \/ DeleteCheck(c) \/ DeleteContainer(c) \/ DeleteImage(c) \/ TeardownContainers(c)
      PROVE  UNCHANGED db
  BY <1>2 DEF Enqueue, DeleteCheck, DeleteContainer, DeleteImage, TeardownContainers
<1>3. CASE \/ TakeJob \/ FindRelease \/ FindActive \/ FindTarget \/ FindDeployment \/ Build
           \/ RemoveByName \/ Create \/ Probe \/ RemoveStale \/ CleanupImages \/ StopRemoveAll
  BY <1>3 DEF TakeJob, FindRelease, FindActive, FindTarget, FindDeployment, Build,
              RemoveByName, Create, Probe, RemoveStale, CleanupImages, StopRemoveAll
<1>4. CASE Crash \/ Reboot \/ Vanish \/ BootUnrepaired \/ UNCHANGED vars
  BY <1>4 DEF Crash, Reboot, Vanish, BootUnrepaired, vars, db
<1>5. QED
  BY <1>1, <1>2, <1>3, <1>4 DEF Next, Continue, RunJob, Boot

LEMMA HostWriters ==
  [Next]_vars =>
    \/ UNCHANGED host
    \/ \E c \in Callers : DeleteContainer(c) \/ DeleteImage(c) \/ TeardownContainers(c)
    \/ Build \/ RemoveByName \/ Create \/ Probe \/ RemoveStale \/ CleanupImages \/ StopRemoveAll
    \/ Reboot \/ Vanish
<1> SUFFICES ASSUME [Next]_vars
             PROVE  \/ UNCHANGED host
                    \/ \E c \in Callers : DeleteContainer(c) \/ DeleteImage(c) \/ TeardownContainers(c)
                    \/ Build \/ RemoveByName \/ Create \/ Probe \/ RemoveStale \/ CleanupImages
                    \/ StopRemoveAll \/ Reboot \/ Vanish
  OBVIOUS
<1>1. ASSUME NEW c \in Callers, Request(c) PROVE UNCHANGED host
  BY <1>1 DEF Request, DeployRead, StartRead, RollbackRead, Stop, DeleteRead, TeardownList
<1>2. ASSUME NEW c \in Callers,
             DeployCreate(c) \/ Mark(c) \/ Enqueue(c) \/ DeleteCheck(c) \/ DeleteRow(c) \/ RemoveDeployment(c)
      PROVE  UNCHANGED host
  BY <1>2 DEF DeployCreate, Mark, Enqueue, DeleteCheck, DeleteRow, RemoveDeployment
<1>3. CASE \/ TakeJob \/ FindRelease \/ FindActive \/ FindTarget \/ FindDeployment \/ Clone \/ StartBuild
           \/ HealthChecking \/ SetLive \/ SetActive \/ SetRunning \/ Supersede
           \/ MarkReleaseFailed \/ StateAfterFailedDeploy \/ MarkActionFailed \/ SetStopped
  BY <1>3 DEF TakeJob, FindRelease, FindActive, FindTarget, FindDeployment, Clone, StartBuild,
              HealthChecking, SetLive, SetActive, SetRunning, Supersede,
              MarkReleaseFailed, StateAfterFailedDeploy, MarkActionFailed, SetStopped
<1>4. CASE Crash \/ Boot \/ UNCHANGED vars
  BY <1>4 DEF Crash, Boot, BootMark, BootUnrepaired, BootReconcile, vars, host
<1>5. QED
  BY <1>1, <1>2, <1>3, <1>4 DEF Next, Continue, RunJob

\* Only the runner, and the end of the process, touch the running job.
LEMMA JobWriters == [Next]_vars => RunJob \/ Crash \/ Reboot \/ UNCHANGED <<job, pc>>
<1> SUFFICES ASSUME [Next]_vars PROVE RunJob \/ Crash \/ Reboot \/ UNCHANGED <<job, pc>>
  OBVIOUS
<1>1. ASSUME NEW c \in Callers, Request(c) PROVE UNCHANGED <<job, pc>>
  BY <1>1 DEF Request, DeployRead, StartRead, RollbackRead, Stop, DeleteRead, TeardownList, runner
<1>2. ASSUME NEW c \in Callers, Continue(c) PROVE UNCHANGED <<job, pc>>
  BY <1>2 DEF Continue, DeployCreate, Mark, Enqueue, DeleteCheck, DeleteContainer, DeleteImage,
              DeleteRow, TeardownContainers, RemoveDeployment, runner
<1>3. CASE Vanish \/ Boot \/ UNCHANGED vars
  BY <1>3 DEF Vanish, Boot, BootMark, BootUnrepaired, BootReconcile, vars, runner
<1>4. QED
  BY <1>1, <1>2, <1>3 DEF Next

LEMMA QueueWriters ==
  [Next]_vars =>
    \/ UNCHANGED queue
    \/ \E c \in Callers : Enqueue(c) \/ Stop(c)
    \/ TakeJob \/ Crash \/ Reboot \/ BootReconcile
<1> SUFFICES ASSUME [Next]_vars
             PROVE  \/ UNCHANGED queue
                    \/ \E c \in Callers : Enqueue(c) \/ Stop(c)
                    \/ TakeJob \/ Crash \/ Reboot \/ BootReconcile
  OBVIOUS
<1>1. ASSUME NEW c \in Callers, Request(c), ~Stop(c) PROVE UNCHANGED queue
  BY <1>1 DEF Request, DeployRead, StartRead, RollbackRead, DeleteRead, TeardownList, runner
<1>2. ASSUME NEW c \in Callers, Continue(c), ~Enqueue(c) PROVE UNCHANGED queue
  BY <1>2 DEF Continue, DeployCreate, Mark, DeleteCheck, DeleteContainer, DeleteImage,
              DeleteRow, TeardownContainers, RemoveDeployment, runner
<1>3. CASE \/ FindRelease \/ FindActive \/ FindTarget \/ FindDeployment
           \/ Clone \/ StartBuild \/ Build \/ HealthChecking \/ RemoveByName \/ Create \/ Probe
           \/ SetLive \/ SetActive \/ SetRunning \/ RemoveStale \/ Supersede \/ CleanupImages
           \/ MarkReleaseFailed \/ StateAfterFailedDeploy \/ MarkActionFailed
           \/ StopRemoveAll \/ SetStopped
  BY <1>3 DEF FindRelease, FindActive, FindTarget, FindDeployment, Clone, StartBuild, Build,
              HealthChecking, RemoveByName, Create, Probe, SetLive, SetActive, SetRunning,
              RemoveStale, Supersede, CleanupImages, MarkReleaseFailed, StateAfterFailedDeploy,
              MarkActionFailed, StopRemoveAll, SetStopped, Step
<1>4. CASE Vanish \/ BootMark \/ BootUnrepaired \/ UNCHANGED vars
  BY <1>4 DEF Vanish, BootMark, BootUnrepaired, vars, runner
<1>5. QED
  BY <1>1, <1>2, <1>3, <1>4 DEF Next, RunJob, Boot

\* Only requests, and the end of the process, touch what requests know.
LEMMA CallWriters ==
  [Next]_vars => (\E c \in Callers : Request(c) \/ Continue(c)) \/ Crash \/ Reboot \/ UNCHANGED call
<1> SUFFICES ASSUME [Next]_vars
             PROVE  (\E c \in Callers : Request(c) \/ Continue(c)) \/ Crash \/ Reboot \/ UNCHANGED call
  OBVIOUS
<1>1. CASE RunJob
  BY <1>1 DEF RunJob, TakeJob, FindRelease, FindActive, FindTarget, FindDeployment, Clone, StartBuild, Build,
              HealthChecking, RemoveByName, Create, Probe, SetLive, SetActive, SetRunning,
              RemoveStale, Supersede, CleanupImages, MarkReleaseFailed, StateAfterFailedDeploy,
              MarkActionFailed, StopRemoveAll, SetStopped, Step
<1>2. CASE Vanish \/ Boot \/ UNCHANGED vars
  BY <1>2 DEF Vanish, Boot, BootMark, BootUnrepaired, BootReconcile, vars
<1>3. QED
  BY <1>1, <1>2 DEF Next

(***************************************************************************)
(* Types.                                                                   *)
(***************************************************************************)
LEMMA RemovedType ==
  ASSUME HostOK, NEW S
  PROVE  Removed(S) \in [Containers -> Container]
BY DEF HostOK, Removed, Container

LEMMA UpdatedType ==
  ASSUME RowsOK, NEW r, NEW row \in Row
  PROVE  Updated(r, row) \in [Releases -> Row]
BY DEF RowsOK, Updated

LEMMA WithStatusType ==
  ASSUME RowsOK, NEW r \in Releases \cup {None}, NEW s \in Statuses
  PROVE  WithStatus(r, s) \in Row
BY DEF RowsOK, WithStatus, RowExists, NoRow, Row, Statuses

LEMMA KnownStatuses ==
  {"none", "deleted", "QUEUED", "CLONING", "BUILDING", "HEALTHCHECKING", "LIVE", "FAILED",
   "SUPERSEDED", "INTERRUPTED"} = Statuses
BY DEF Statuses, InProgress, Settled

LEMMA StepRows == Types /\ [Next]_vars => RowsOK'
<1> SUFFICES ASSUME Types, [Next]_vars PROVE RowsOK'
  OBVIOUS
<1>1. state \in States /\ active \in Releases \cup {None} /\ rel \in [Releases -> Row]
  BY DEF Types, RowsOK
<1>2. \A s : s \in States => StateSetTo(s) \in States
  BY <1>1 DEF StateSetTo
<1>3. CASE UNCHANGED db
  BY <1>1, <1>3 DEF db, RowsOK
<1>4. ASSUME NEW c \in Callers, DeployCreate(c) PROVE RowsOK'
  <2>1. rel' \in [Releases -> Row]
    BY <1>1, <1>4, KnownStatuses DEF DeployCreate, Row
  <2>2. QED
    BY <1>1, <1>4, <2>1 DEF DeployCreate, RowsOK
<1>5. ASSUME NEW c \in Callers, Mark(c) PROVE RowsOK'
  BY <1>1, <1>2, <1>5 DEF Mark, RowsOK, States
<1>6. ASSUME NEW c \in Callers, DeleteRow(c) PROVE RowsOK'
  <2>1. [NoRow EXCEPT !.status = "deleted"] \in Row
    BY KnownStatuses DEF NoRow, Row
  <2>2. QED
    BY <1>1, <1>6, <2>1, UpdatedType DEF DeleteRow, RowsOK, Types
<1>7. ASSUME NEW c \in Callers, RemoveDeployment(c) PROVE RowsOK'
  <2>1. [NoRow EXCEPT !.status = "deleted"] \in Row
    BY KnownStatuses DEF NoRow, Row
  <2>2. QED
    BY <1>1, <1>7, <2>1 DEF RemoveDeployment, RowsOK, States
<1>8. job.rel \in Releases \cup {None} /\ job.prior \in Releases \cup {None} /\ job.new \in Containers \cup {None}
  BY DEF Types, JobOK, Job
<1>9. CASE Clone
  BY <1>1, <1>8, <1>9, UpdatedType, WithStatusType, KnownStatuses DEF Clone, RowsOK, Types
<1>10. CASE StartBuild
  <2>1. WithStatus(job.rel, "BUILDING") \in Row
    BY <1>8, WithStatusType, KnownStatuses DEF Types
  <2>2. \A i \in Images : [WithStatus(job.rel, "BUILDING") EXCEPT !.tag = i] \in Row
    BY <2>1 DEF Row
  <2>3. QED
    BY <1>1, <1>10, <2>2, UpdatedType DEF StartBuild, RowsOK, Types
<1>11. CASE HealthChecking
  BY <1>1, <1>8, <1>11, UpdatedType, WithStatusType, KnownStatuses DEF HealthChecking, RowsOK, Types
<1>12. CASE SetLive
  <2>1. WithStatus(job.rel, "LIVE") \in Row
    BY <1>8, WithStatusType, KnownStatuses DEF Types
  <2>2. [WithStatus(job.rel, "LIVE") EXCEPT !.cont = job.new] \in Row
    BY <1>8, <2>1 DEF Row
  <2>3. QED
    BY <1>1, <1>12, <2>2, UpdatedType DEF SetLive, RowsOK, Types
<1>13. CASE SetActive
  BY <1>1, <1>8, <1>13 DEF SetActive, RowsOK
<1>14. CASE SetRunning
  BY <1>1, <1>2, <1>14 DEF SetRunning, RowsOK, States
<1>15. CASE Supersede
  BY <1>1, <1>8, <1>15, UpdatedType, WithStatusType, KnownStatuses DEF Supersede, RowsOK, Types
<1>16. CASE MarkReleaseFailed
  BY <1>1, <1>8, <1>16, UpdatedType, WithStatusType, KnownStatuses DEF MarkReleaseFailed, RowsOK, Types
<1>17. CASE StateAfterFailedDeploy \/ MarkActionFailed \/ SetStopped
  BY <1>1, <1>2, <1>17 DEF StateAfterFailedDeploy, MarkActionFailed, SetStopped, RowsOK, States
<1>18. CASE BootMark
  BY <1>1, <1>18, KnownStatuses DEF BootMark, RowsOK, Row
<1>19. CASE BootReconcile
  BY <1>1, <1>19 DEF BootReconcile, RowsOK, States
<1>20. QED
  BY RowWriters, <1>3, <1>4, <1>5, <1>6, <1>7, <1>9, <1>10, <1>11, <1>12, <1>13, <1>14, <1>15,
     <1>16, <1>17, <1>18, <1>19

LEMMA StepHost == Types /\ [Next]_vars => HostOK'
<1> SUFFICES ASSUME Types, [Next]_vars PROVE HostOK'
  OBVIOUS
<1>1. con \in [Containers -> Container] /\ images \in SUBSET Images /\ job \in Job
  BY DEF Types, HostOK, JobOK
<1>2. \A S : Removed(S) \in [Containers -> Container]
  BY RemovedType DEF Types
<1>3. CASE UNCHANGED host
  BY <1>1, <1>3 DEF host, HostOK
<1>4. ASSUME NEW c \in Callers, DeleteContainer(c) \/ TeardownContainers(c) PROVE HostOK'
  BY <1>1, <1>2, <1>4 DEF DeleteContainer, TeardownContainers, HostOK
<1>5. ASSUME NEW c \in Callers, DeleteImage(c) PROVE HostOK'
  BY <1>1, <1>5 DEF DeleteImage, HostOK
<1>6. CASE Build
  <2>1. job.tag \in Images
    BY <1>6 DEF Types, JobOK, Build, Step
  <2>2. QED
    BY <1>1, <1>6, <2>1 DEF Build, HostOK
<1>7. CASE RemoveByName \/ RemoveStale \/ StopRemoveAll \/ Vanish
  BY <1>1, <1>2, <1>7 DEF RemoveByName, RemoveStale, StopRemoveAll, Vanish, HostOK
<1>8. CASE Create
  <2>1. [st |-> "starting", rel |-> job.rel] \in Container /\ [st |-> "created", rel |-> job.rel] \in Container
    BY <1>1 DEF Job, Container
  <2>2. QED
    BY <1>1, <1>8, <2>1 DEF Create, HostOK
<1>9. CASE Probe
  <2>1. [con EXCEPT ![job.new].st = "healthy"] \in [Containers -> Container]
    BY <1>1 DEF Container
  <2>2. QED
    BY <1>1, <1>2, <1>9, <2>1 DEF Probe, HostOK
<1>10. CASE CleanupImages
  BY <1>1, <1>10 DEF CleanupImages, HostOK
<1>11. CASE Reboot
  BY <1>1, <1>11 DEF Reboot, HostOK, Container
<1>12. QED
  BY HostWriters, <1>3, <1>4, <1>5, <1>6, <1>7, <1>8, <1>9, <1>10, <1>11

LEMMA StepQueue == Types /\ [Next]_vars => QueueOK'
<1> SUFFICES ASSUME Types, [Next]_vars PROVE QueueOK'
  OBVIOUS
<1>1. queue \in Seq(Job) /\ queue \in Seq(EnqueuedJob)
  BY DEF Types, QueueOK
<1>2. \A j : j \in EnqueuedJob => j \in Job
  BY DEF EnqueuedJob
<1>3. CASE UNCHANGED queue
  BY <1>1, <1>3 DEF QueueOK
<1>4. ASSUME NEW c \in Callers, Enqueue(c) PROVE QueueOK'
  <2>1. call[c] \in Call /\ call[c].kind \in Launches /\ Named(call[c].kind, call[c].rel)
    BY <1>4 DEF Types, CallsOK, Enqueue, At
  <2> DEFINE j == [NoJob EXCEPT !.kind = call[c].kind, !.rel = call[c].rel, !.prior = call[c].prior]
  <2>2. NoJob \in Job
    BY DEF NoJob, Job
  <2>3. j \in EnqueuedJob
    BY <2>1, <2>2 DEF EnqueuedJob, Job, JobKinds, Launches, Call
  <2>4. queue' = Append(queue, j)
    BY <1>4 DEF Enqueue, EnqueueJob
  <2> HIDE DEF j
  <2>5. QED
    BY <1>1, <1>2, <2>3, <2>4 DEF QueueOK
<1>5. [NoJob EXCEPT !.kind = "stop", !.rel = None, !.prior = None] \in EnqueuedJob
  BY DEF NoJob, EnqueuedJob, Job, JobKinds, Named
<1>6. [NoJob EXCEPT !.kind = "relaunch", !.rel = None, !.prior = None] \in EnqueuedJob
  BY DEF NoJob, EnqueuedJob, Job, JobKinds, Launches, Named
<1>7. ASSUME NEW c \in Callers, Stop(c) PROVE QueueOK'
  BY <1>1, <1>2, <1>5, <1>7 DEF Stop, EnqueueJob, QueueOK
<1>8. CASE TakeJob
  BY <1>1, <1>8 DEF TakeJob, QueueOK
<1>9. CASE Crash \/ Reboot
  <2>1. queue' = <<>>
    BY <1>9 DEF Crash, Reboot, ProcessGone
  <2>2. QED
    BY <2>1 DEF QueueOK
<1>10. CASE BootReconcile
  BY <1>1, <1>2, <1>6, <1>10 DEF BootReconcile, EnqueueJob, QueueOK, runner
<1>11. QED
  BY QueueWriters, <1>3, <1>4, <1>7, <1>8, <1>9, <1>10

LEMMA StepJob == Types /\ [Next]_vars => JobOK'
<1> SUFFICES ASSUME Types, [Next]_vars PROVE JobOK'
  OBVIOUS
<1> USE DEF Pcs, JobKinds, Launches, Named
<1>1. JobOK
  BY DEF Types
<1>2. job \in Job
  BY <1>1 DEF JobOK
<1>3. NoJob \in Job
  BY DEF NoJob, Job
<1>4. CASE UNCHANGED <<job, pc>>
  BY <1>1, <1>4 DEF JobOK
<1>5. CASE Crash \/ Reboot
  BY <1>3, <1>5 DEF Crash, Reboot, ProcessGone, JobOK
<1>6. CASE TakeJob
  <2>1. Head(queue) \in EnqueuedJob
    BY <1>6 DEF TakeJob, Types, QueueOK
  <2>2. QED
    BY <1>6, <2>1 DEF TakeJob, EnqueuedJob, JobOK
<1>7. CASE FindRelease \/ FindDeployment
  BY <1>1, <1>7 DEF FindRelease, FindDeployment, Step, Goto, Throw, JobOK
<1>8. CASE FindActive
  <2>1. rel \in [Releases -> Row] /\ active \in Releases \cup {None}
    BY DEF Types, RowsOK
  <2>2. RowExists(active) => active \in Releases /\ rel[active].tag \in Images \cup {None}
    BY <2>1 DEF RowExists, Row
  <2>3. RowExists(active) => [job EXCEPT !.rel = active, !.tag = rel[active].tag] \in Job
    BY <1>2, <2>2 DEF Job
  <2>4. QED
    BY <1>1, <1>8, <2>2, <2>3 DEF FindActive, Step, Goto, Throw, JobOK, Job
<1>9. CASE FindTarget
  <2>1. rel \in [Releases -> Row] /\ active \in Releases \cup {None}
    BY DEF Types, RowsOK
  <2>2. job.rel \in Releases
    BY <1>1, <1>9 DEF FindTarget, Step, JobOK
  <2>3. [job EXCEPT !.prior = active, !.tag = rel[job.rel].tag] \in Job
    BY <1>2, <2>1, <2>2 DEF Job, Row
  <2>4. QED
    BY <1>1, <1>9, <2>2, <2>3 DEF FindTarget, Step, Goto, Throw, JobOK, Job
<1>10. CASE Clone
  BY <1>1, <1>10 DEF Clone, Step, Goto, Throw, JobOK
<1>11. CASE StartBuild
  <2>1. \A i \in Images : [job EXCEPT !.tag = i] \in Job
    BY <1>2 DEF Job
  <2>2. QED
    BY <1>1, <1>11, <2>1 DEF StartBuild, Step, JobOK, Job
<1>12. CASE Build \/ HealthChecking
  BY <1>1, <1>12 DEF Build, HealthChecking, Step, Goto, Throw, JobOK
<1>13. CASE RemoveByName
  BY <1>1, <1>13 DEF RemoveByName, Step, Goto, JobOK
<1>14. CASE Create
  <2>1. \A k \in Containers : [job EXCEPT !.new = k] \in Job
    BY <1>2 DEF Job
  <2>2. QED
    BY <1>1, <1>14, <2>1 DEF Create, Step, Goto, Throw, JobOK, Job, Fresh
<1>15. CASE Probe
  BY <1>1, <1>15 DEF Probe, Step, Goto, Throw, JobOK
<1>16. CASE SetLive \/ SetActive \/ SetRunning \/ RemoveStale \/ Supersede
  BY <1>1, <1>3, <1>16 DEF SetLive, SetActive, SetRunning, RemoveStale, Supersede, Step, Goto, Finish, JobOK
<1>17. CASE CleanupImages \/ MarkReleaseFailed \/ StateAfterFailedDeploy \/ MarkActionFailed
  BY <1>1, <1>3, <1>17 DEF CleanupImages, MarkReleaseFailed, StateAfterFailedDeploy, MarkActionFailed,
                           Step, Goto, Finish, JobOK
<1>18. CASE StopRemoveAll \/ SetStopped
  BY <1>1, <1>3, <1>18 DEF StopRemoveAll, SetStopped, Step, Goto, Finish, JobOK
<1>19. QED
  BY JobWriters, <1>4, <1>5, <1>6, <1>7, <1>8, <1>9, <1>10, <1>11, <1>12, <1>13, <1>14, <1>15, <1>16,
     <1>17, <1>18 DEF RunJob

LEMMA NoCallType == NoCall \in Call
<1>1. None \in Reads
  BY DEF Reads
<1>2. QED
  BY <1>1 DEF NoCall, Call, Awaits

LEMMA StepCalls == Types /\ [Next]_vars => CallsOK'
<1> SUFFICES ASSUME Types, [Next]_vars PROVE CallsOK'
  OBVIOUS
<1> USE DEF Awaits, Deleting, TearingDown, Launches, Named
<1>1. CallsOK /\ call \in [Callers -> Call]
  BY DEF Types, CallsOK
<1>2. active \in Releases \cup {None} /\ rel \in [Releases -> Row]
  BY DEF Types, RowsOK
<1>3. NoCall \in Call
  BY NoCallType
\* It is enough to know the entry of the request that goes on.
<1>4. ASSUME NEW c \in Callers, NEW k \in Call, call' = [call EXCEPT ![c] = k],
             k.at = "create" => k.kind = "deploy",
             k.at \in {"mark", "enqueue"} => k.kind \in Launches /\ Named(k.kind, k.rel)
      PROVE  CallsOK'
  BY <1>1, <1>4 DEF CallsOK
<1>5. CASE UNCHANGED call
  BY <1>1, <1>5 DEF CallsOK
<1>6. CASE Crash \/ Reboot
  <2>1. call' = [c \in Callers |-> NoCall]
    BY <1>6 DEF Crash, Reboot, ProcessGone
  <2>2. QED
    BY <1>3, <2>1 DEF CallsOK, NoCall
<1>7. ASSUME NEW c \in Callers, Request(c) PROVE CallsOK'
  <2>1. CASE DeployRead(c)
    <3>1. [NoCall EXCEPT !.at = "create", !.kind = "deploy", !.prior = active] \in Call
      BY <1>2, <1>3 DEF Call
    <3>2. QED
      BY <1>4, <2>1, <3>1 DEF DeployRead, NoCall
  <2>2. CASE StartRead(c)
    <3>1. [NoCall EXCEPT !.at = "mark", !.kind = "relaunch"] \in Call
      BY <1>3 DEF Call
    <3>2. QED
      BY <1>4, <2>2, <3>1 DEF StartRead, NoCall
  <2>3. CASE RollbackRead(c)
    <3>1. PICK r \in Releases :
            call' = [call EXCEPT ![c] = [NoCall EXCEPT !.at = "mark", !.kind = "rollback", !.rel = r]]
      BY <2>3 DEF RollbackRead
    <3>2. [NoCall EXCEPT !.at = "mark", !.kind = "rollback", !.rel = r] \in Call
      BY <1>3 DEF Call
    <3>3. QED
      BY <1>4, <3>1, <3>2 DEF NoCall
  <2>4. CASE Stop(c)
    BY <1>1, <2>4 DEF Stop, CallsOK
  <2>5. CASE DeleteRead(c)
    <3>1. PICK r \in Releases :
            call' = [call EXCEPT ![c] =
                       [NoCall EXCEPT !.at = "check", !.kind = "delete", !.rel = r, !.prior = active]]
      BY <2>5 DEF DeleteRead
    <3>2. [NoCall EXCEPT !.at = "check", !.kind = "delete", !.rel = r, !.prior = active] \in Call
      BY <1>2, <1>3 DEF Call
    <3>3. QED
      BY <1>4, <3>1, <3>2 DEF NoCall
  <2>6. CASE TeardownList(c)
    <3>1. Present \in Reads
      BY DEF Present, Reads
    <3>2. [NoCall EXCEPT !.at = "teardown", !.kind = "teardown", !.read = Present] \in Call
      BY <1>3, <3>1 DEF Call
    <3>3. QED
      BY <1>4, <2>6, <3>2 DEF TeardownList, NoCall
  <2>7. QED
    BY <1>7, <2>1, <2>2, <2>3, <2>4, <2>5, <2>6 DEF Request
<1>8. ASSUME NEW c \in Callers, Continue(c) PROVE CallsOK'
  <2> DEFINE to(at) == [call[c] EXCEPT !.at = at]
  <2>1. call[c] \in Call
    BY <1>1
  <2>2. \A at \in Awaits : to(at) \in Call /\ to(at).at = at
    BY <2>1 DEF Call
  <2>3. CASE call' = [call EXCEPT ![c] = NoCall]
    BY <1>3, <1>4, <2>3 DEF NoCall
  <2>4. CASE DeployCreate(c)
    <3>1. CASE call' = [call EXCEPT ![c] = NoCall]
      BY <2>3, <3>1
    <3>2. CASE \E r \in Releases : call' = [call EXCEPT ![c].at = "mark", ![c].rel = r]
      <4>1. PICK r \in Releases : call' = [call EXCEPT ![c].at = "mark", ![c].rel = r]
        BY <3>2
      <4>2. [call[c] EXCEPT !.at = "mark", !.rel = r] \in Call
        BY <2>1 DEF Call
      <4>3. call' = [call EXCEPT ![c] = [call[c] EXCEPT !.at = "mark", !.rel = r]]
        BY <1>1, <4>1
      <4>4. call[c].kind = "deploy"
        BY <1>1, <2>4 DEF CallsOK, DeployCreate, At
      <4>5. QED
        BY <1>4, <2>1, <4>2, <4>3, <4>4 DEF Call
    <3>3. QED
      BY <2>4, <3>1, <3>2 DEF DeployCreate
  <2>5. CASE Mark(c)
    <3>1. call' = [call EXCEPT ![c] = to("enqueue")] /\ call[c].at = "mark"
      BY <1>1, <2>5 DEF Mark, At
    <3>2. QED
      BY <1>1, <1>4, <2>1, <2>2, <3>1 DEF CallsOK, Call
  <2>6. CASE DeleteCheck(c)
    <3>1. CASE RowExists(call[c].rel) /\ call[c].prior # call[c].rel
      <4>1. rel[call[c].rel] \in Reads
        BY <1>2, <2>1, <3>1 DEF RowExists, Call, Reads
      <4>2. [call[c] EXCEPT !.at = "dropContainer", !.read = rel[call[c].rel]] \in Call
        BY <2>1, <4>1 DEF Call
      <4>3. QED
        BY <1>4, <2>1, <2>6, <3>1, <4>2 DEF DeleteCheck, Call
    <3>2. QED
      BY <2>3, <2>6, <3>1 DEF DeleteCheck
  <2>7. CASE DeleteContainer(c)
    <3>1. call' = [call EXCEPT ![c] = to("dropImage")]
      BY <1>1, <2>7 DEF DeleteContainer
    <3>2. QED
      BY <1>4, <2>2, <3>1
  <2>8. CASE DeleteImage(c)
    <3>1. call' = [call EXCEPT ![c] = to("dropRow")]
      BY <1>1, <2>8 DEF DeleteImage
    <3>2. QED
      BY <1>4, <2>2, <3>1
  <2>9. CASE TeardownContainers(c)
    <3>1. [call[c] EXCEPT !.at = "removeRow", !.read = None] \in Call
      <4>1. None \in Reads
        BY DEF Reads
      <4>2. QED
        BY <2>1, <4>1 DEF Call
    <3>2. call' = [call EXCEPT ![c] = [call[c] EXCEPT !.at = "removeRow", !.read = None]]
      BY <1>1, <2>9 DEF TeardownContainers
    <3>3. QED
      BY <1>4, <2>1, <3>1, <3>2 DEF Call
  <2>10. QED
    BY <1>8, <2>3, <2>4, <2>5, <2>6, <2>7, <2>8, <2>9 DEF Continue, Enqueue, DeleteRow, RemoveDeployment
<1>9. QED
  BY CallWriters, <1>5, <1>6, <1>7, <1>8

LEMMA StepProc == Types /\ [Next]_vars => ProcOK'
<1> SUFFICES ASSUME Types, [Next]_vars PROVE ProcOK'
  OBVIOUS
<1>1. ProcOK
  BY DEF Types
<1>2. ASSUME Accepting, UNCHANGED proc, issued' \in 0..MaxCalls, UNCHANGED faults PROVE ProcOK'
  BY <1>1, <1>2 DEF ProcOK, Accepting
<1>3. ASSUME NEW c \in Callers, Request(c) PROVE ProcOK'
  <2>1. Accepting /\ issued' = issued + 1 /\ issued < MaxCalls /\ UNCHANGED <<proc, faults>>
    BY <1>3 DEF Request, DeployRead, StartRead, RollbackRead, Stop, DeleteRead, TeardownList, Asked
  <2>2. QED
    BY <1>1, <1>2, <2>1 DEF ProcOK
<1>4. ASSUME NEW c \in Callers, Continue(c) PROVE ProcOK'
  <2>1. Accepting /\ UNCHANGED <<proc, issued, faults>>
    BY <1>4 DEF Continue, DeployCreate, Mark, Enqueue, DeleteCheck, DeleteContainer, DeleteImage,
                DeleteRow, TeardownContainers, RemoveDeployment, At, bounds
  <2>2. QED
    BY <1>1, <1>2, <2>1 DEF ProcOK
<1>5. CASE RunJob
  <2>1. Accepting /\ UNCHANGED <<proc, issued, faults>>
    BY <1>5 DEF RunJob, TakeJob, FindRelease, FindActive, FindTarget, FindDeployment, Clone, StartBuild,
                Build, HealthChecking, RemoveByName, Create, Probe, SetLive, SetActive, SetRunning,
                RemoveStale, Supersede, CleanupImages, MarkReleaseFailed, StateAfterFailedDeploy,
                MarkActionFailed, StopRemoveAll, SetStopped, Step, bounds
  <2>2. QED
    BY <1>1, <1>2, <2>1 DEF ProcOK
<1>6. CASE Crash \/ Reboot
  BY <1>1, <1>6 DEF Crash, Reboot, Fault, ProcessGone, NoCall, ProcOK
<1>7. CASE Vanish
  BY <1>1, <1>7 DEF Vanish, Fault, ProcOK, runner
<1>8. CASE Boot
  BY <1>1, <1>8 DEF Boot, BootMark, BootUnrepaired, BootReconcile, ProcOK, runner, bounds
<1>9. CASE UNCHANGED vars
  BY <1>1, <1>9 DEF vars, ProcOK
<1>10. QED
  BY <1>3, <1>4, <1>5, <1>6, <1>7, <1>8, <1>9 DEF Next

LEMMA StepTypes == Types /\ [Next]_vars => Types'
BY StepRows, StepHost, StepQueue, StepJob, StepCalls, StepProc DEF Types

LEMMA InitTypes == Init => Types
<1> SUFFICES ASSUME Init PROVE Types
  OBVIOUS
<1>1. RowsOK
  BY KnownStatuses DEF Init, RowsOK, States, NoRow, Row
<1>2. HostOK
  BY DEF Init, HostOK, Container
<1>3. QueueOK
  BY DEF Init, QueueOK
<1>4. JobOK
  BY DEF Init, JobOK, NoJob, Job, Pcs
<1>5. CallsOK
  <2>1. call \in [Callers -> Call]
    BY NoCallType DEF Init
  <2>2. QED
    BY <2>1 DEF Init, CallsOK, NoCall
<1>6. ProcOK
  BY DEF Init, ProcOK, NoCall
<1>7. QED
  BY <1>1, <1>2, <1>3, <1>4, <1>5, <1>6 DEF Types

LEMMA TypesHold == Spec => []Types
BY InitTypes, StepTypes, PTL DEF Spec

\* Every row, container and job keeps its type, whatever is asked for and whatever fails.
THEOREM TypeCorrect == Spec => []TypeOK
<1>1. Types => TypeOK
  BY DEF Types, RowsOK, HostOK, QueueOK, JobOK, ProcOK, Container, TypeOK
<1>2. QED
  BY <1>1, TypesHold, PTL

(***************************************************************************)
(* How releases that are asked for move: from a request to the queue to the  *)
(* running job.                                                              *)
(***************************************************************************)
\* A request for a release is new only when it inserts the row.
LEMMA AskedFrom ==
  ASSUME Types, [Next]_vars, NEW c \in Callers, NEW r \in Releases, AskedFor(c, r)', ~AskedFor(c, r)
  PROVE  DeployCreate(c) /\ rel[r].status = "none" /\ rel' = [rel EXCEPT ![r].status = "QUEUED"]
<1>1. call \in [Callers -> Call] /\ call' \in [Callers -> Call]
  BY StepTypes DEF Types, CallsOK
<1>2. CASE UNCHANGED call
  BY <1>2 DEF AskedFor
<1>3. CASE Crash \/ Reboot
  BY <1>3 DEF Crash, Reboot, ProcessGone, NoCall, AskedFor
<1>4. ASSUME NEW d \in Callers, Request(d) PROVE FALSE
  <2>1. call' = call \/ \E n \in Call : call' = [call EXCEPT ![d] = n] /\ (n.kind # "deploy" \/ n.at = "create")
    <3>1. UNCHANGED call \/ call' = [call EXCEPT ![d] = call'[d]]
      BY <1>1, <1>4 DEF Request, DeployRead, StartRead, RollbackRead, Stop, DeleteRead, TeardownList
    <3>2. UNCHANGED call \/ call'[d].kind # "deploy" \/ call'[d].at = "create"
      BY <1>1, <1>4 DEF Request, DeployRead, StartRead, RollbackRead, Stop, DeleteRead, TeardownList, NoCall
    <3>3. call'[d] \in Call
      BY <1>1
    <3>4. QED
      BY <3>1, <3>2, <3>3
  <2>2. QED
    BY <1>1, <2>1 DEF AskedFor
<1>5. ASSUME NEW d \in Callers, Continue(d), ~DeployCreate(d) PROVE FALSE
  <2>1. call' = [call EXCEPT ![d] = call'[d]]
    BY <1>1, <1>5 DEF Continue, Mark, Enqueue, DeleteCheck, DeleteContainer, DeleteImage,
                      DeleteRow, TeardownContainers, RemoveDeployment
  <2>2. \/ call'[d].at \notin {"mark", "enqueue"}
        \/ Mark(d) /\ call[d].at = "mark" /\ call'[d].kind = call[d].kind /\ call'[d].rel = call[d].rel
    <3>1. CASE Mark(d)
      BY <1>1, <3>1 DEF Mark, At, Call
    <3>2. CASE call' = [call EXCEPT ![d] = NoCall]
      BY <1>1, <3>2 DEF NoCall
    <3>3. CASE DeleteCheck(d)
      BY <1>1, <3>2, <3>3 DEF DeleteCheck, Call
    <3>4. CASE DeleteContainer(d) \/ DeleteImage(d) \/ TeardownContainers(d)
      BY <1>1, <3>4 DEF DeleteContainer, DeleteImage, TeardownContainers, Call
    <3>5. QED
      BY <1>5, <3>1, <3>2, <3>3, <3>4 DEF Continue, Enqueue, DeleteRow, RemoveDeployment
  <2>3. QED
    BY <1>1, <2>1, <2>2 DEF AskedFor
<1>6. ASSUME NEW d \in Callers, DeployCreate(d)
      PROVE  DeployCreate(c) /\ rel[r].status = "none" /\ rel' = [rel EXCEPT ![r].status = "QUEUED"]
  <2>1. call' = [call EXCEPT ![d] = call'[d]]
    BY <1>1, <1>6 DEF DeployCreate
  <2>2. c = d
    BY <1>1, <2>1 DEF AskedFor
  <2>3. call'[c].at \in {"mark", "enqueue"} /\ call'[c].rel = r
    BY DEF AskedFor
  <2>4. call' # [call EXCEPT ![c] = NoCall]
    BY <1>1, <2>3 DEF NoCall
  <2>5. PICK q \in Releases : /\ rel[q].status = "none"
                              /\ rel' = [rel EXCEPT ![q].status = "QUEUED"]
                              /\ call' = [call EXCEPT ![c].at = "mark", ![c].rel = q]
    BY <1>6, <2>2, <2>4 DEF DeployCreate
  <2>6. q = r
    BY <1>1, <2>3, <2>5 DEF Call
  <2>7. QED
    BY <1>6, <2>2, <2>5, <2>6
<1>7. QED
  BY CallWriters, <1>2, <1>3, <1>4, <1>5, <1>6

\* How the queue moves, as far as deploys are concerned.
Enqueued(c) == queue' = Append(queue, [NoJob EXCEPT !.kind = call[c].kind, !.rel = call[c].rel,
                                                   !.prior = call[c].prior])

LEMMA QueueMoves ==
  ASSUME Types, [Next]_vars
  PROVE  \/ UNCHANGED queue
         \/ \E c \in Callers : Enqueue(c) /\ Enqueued(c)
         \/ \E j \in Job : queue' = Append(queue, j) /\ j.kind # "deploy"
         \/ TakeJob
         \/ queue' = <<>>
<1>1. ASSUME NEW c \in Callers, Enqueue(c) PROVE Enqueued(c)
  BY <1>1 DEF Enqueue, EnqueueJob, Enqueued
<1>2. ASSUME NEW kind \in {"stop", "relaunch"}, EnqueueJob(kind, None, None)
      PROVE  \E j \in Job : queue' = Append(queue, j) /\ j.kind # "deploy"
  <2> DEFINE j == [NoJob EXCEPT !.kind = kind, !.rel = None, !.prior = None]
  <2>1. j \in Job /\ j.kind = kind
    BY DEF NoJob, Job
  <2>2. queue' = Append(queue, j)
    BY <1>2 DEF EnqueueJob
  <2>3. QED
    BY <2>1, <2>2
<1>3. CASE \E c \in Callers : Stop(c)
  BY <1>2, <1>3 DEF Stop
<1>4. CASE BootReconcile
  BY <1>2, <1>4 DEF BootReconcile, runner
<1>5. CASE Crash \/ Reboot
  BY <1>5 DEF Crash, Reboot, ProcessGone
<1>6. QED
  BY QueueWriters, <1>1, <1>3, <1>4, <1>5

\* A queued deploy stood one place behind or where it stands, or was just enqueued.
LEMMA QueuedFrom ==
  ASSUME Types, [Next]_vars, NEW i \in 1..Len(queue'), NEW r \in Releases, Queued(i, r)'
  PROVE  \/ i \in 1..Len(queue) /\ Queued(i, r) /\ ~TakeJob
         \/ TakeJob /\ i + 1 \in 1..Len(queue) /\ Queued(i + 1, r)
         \/ i = Len(queue) + 1 /\ \E c \in Callers : Enqueue(c) /\ AskedFor(c, r)
<1>1. queue \in Seq(Job) /\ i \in Nat
  BY DEF Types, QueueOK
<1>2. CASE TakeJob
  <2>1. queue # <<>> /\ queue' = Tail(queue)
    BY <1>2 DEF TakeJob
  <2>2. i + 1 \in 1..Len(queue) /\ queue'[i] = queue[i + 1]
    BY <1>1, <2>1
  <2>3. QED
    BY <1>2, <2>2 DEF Queued
<1>3. CASE UNCHANGED queue /\ ~TakeJob
  BY <1>3 DEF Queued
<1>4. CASE queue' = <<>>
  BY <1>4
<1>5. ASSUME NEW j \in Job, queue' = Append(queue, j), j.kind # "deploy", ~TakeJob
      PROVE  i \in 1..Len(queue) /\ Queued(i, r)
  <2>1. Len(queue') = Len(queue) + 1 /\ queue'[Len(queue) + 1] = j
    BY <1>1, <1>5
  <2>2. i # Len(queue) + 1
    BY <1>5, <2>1 DEF Queued
  <2>3. i \in 1..Len(queue) /\ queue'[i] = queue[i]
    BY <1>1, <1>5, <2>1, <2>2
  <2>4. QED
    BY <2>3 DEF Queued
<1>6. ASSUME NEW c \in Callers, Enqueue(c), Enqueued(c), ~TakeJob
      PROVE  \/ i \in 1..Len(queue) /\ Queued(i, r)
             \/ i = Len(queue) + 1 /\ AskedFor(c, r)
  <2> DEFINE j == [NoJob EXCEPT !.kind = call[c].kind, !.rel = call[c].rel, !.prior = call[c].prior]
  <2>1. j.kind = call[c].kind /\ j.rel = call[c].rel
    BY DEF NoJob
  <2>2. queue' = Append(queue, j)
    BY <1>6 DEF Enqueued
  <2> HIDE DEF j
  <2>3. Len(queue') = Len(queue) + 1
    BY <1>1, <2>2
  <2>4. CASE i = Len(queue) + 1
    <3>1. queue'[i] = j
      BY <1>1, <2>2, <2>4
    <3>2. QED
      BY <1>6, <2>1, <2>4, <3>1 DEF Queued, AskedFor, Enqueue, At
  <2>5. CASE i # Len(queue) + 1
    <3>1. i \in 1..Len(queue) /\ queue'[i] = queue[i]
      BY <1>1, <2>2, <2>3, <2>5
    <3>2. QED
      BY <3>1 DEF Queued
  <2>6. QED
    BY <2>4, <2>5
<1>7. QED
  BY QueueMoves, <1>2, <1>3, <1>4, <1>5, <1>6

\* A release is pending because it was, or because its row was just inserted.
LEMMA PendingFrom ==
  ASSUME Types, [Next]_vars, NEW r \in Releases, Pending(r)', ~Pending(r)
  PROVE  rel[r].status = "none" /\ rel'[r].status = "QUEUED"
<1>1. CASE \E c \in Callers : AskedFor(c, r)'
  <2>1. PICK c \in Callers : AskedFor(c, r)'
    BY <1>1
  <2>2. ~AskedFor(c, r)
    BY DEF Pending
  <2>3. rel \in [Releases -> Row]
    BY DEF Types, RowsOK
  <2>4. QED
    BY <2>1, <2>2, <2>3, AskedFrom DEF Row
<1>2. ASSUME NEW i \in 1..Len(queue'), Queued(i, r)' PROVE FALSE
  BY <1>2, QueuedFrom DEF Pending
<1>3. QED
  BY <1>1, <1>2 DEF Pending

\* A pending release stays so until its job is taken.
LEMMA PendingStays ==
  ASSUME Types, [Next]_vars, NEW r \in Releases, Pending(r), proc' # "down"
  PROVE  Pending(r)' \/ (TakeJob /\ Queued(1, r))
<1>1. queue \in Seq(Job) /\ call \in [Callers -> Call]
  BY DEF Types, QueueOK, CallsOK
<1>2. ~Crash /\ ~Reboot
  BY DEF Crash, Reboot, ProcessGone
<1>3. ASSUME NEW c \in Callers, AskedFor(c, r) PROVE Pending(r)'
  <2>1. CASE Enqueue(c)
    <3> DEFINE j == [NoJob EXCEPT !.kind = call[c].kind, !.rel = call[c].rel, !.prior = call[c].prior]
    <3>1. j.kind = call[c].kind /\ j.rel = call[c].rel
      BY DEF NoJob
    <3>2. queue' = Append(queue, j)
      BY <2>1 DEF Enqueue, EnqueueJob
    <3> HIDE DEF j
    <3>3. Len(queue') = Len(queue) + 1 /\ queue'[Len(queue) + 1] = j /\ Len(queue) \in Nat
      BY <1>1, <3>2
    <3>4. PICK i \in 1..Len(queue') : queue'[i] = j
      BY <3>3
    <3>5. Queued(i, r)'
      BY <1>3, <3>1, <3>4 DEF Queued, AskedFor
    <3>6. QED
      BY <3>4, <3>5 DEF Pending
  <2>2. CASE ~Enqueue(c)
    <3>1. ASSUME NEW d \in Callers, Request(d) PROVE AskedFor(c, r)'
      <4>1. UNCHANGED call \/ (call[d].at = "idle" /\ call' = [call EXCEPT ![d] = call'[d]])
        BY <1>1, <3>1 DEF Request, DeployRead, StartRead, RollbackRead, Stop, DeleteRead, TeardownList, Asked
      <4>2. QED
        BY <1>1, <1>3, <4>1 DEF AskedFor
    <3>2. ASSUME NEW d \in Callers, Continue(d) PROVE AskedFor(c, r)'
      <4>1. call' = [call EXCEPT ![d] = call'[d]]
        BY <1>1, <3>2 DEF Continue, DeployCreate, Mark, Enqueue, DeleteCheck, DeleteContainer, DeleteImage,
                          DeleteRow, TeardownContainers, RemoveDeployment
      <4>2. CASE c = d
        <5>1. Mark(c)
          BY <1>3, <2>2, <3>2, <4>2 DEF AskedFor, Continue, DeployCreate, DeleteCheck, DeleteContainer,
                          DeleteImage, DeleteRow, TeardownContainers, RemoveDeployment, At
        <5>2. QED
          BY <1>1, <1>3, <5>1 DEF Mark, AskedFor, Call
      <4>3. QED
        BY <1>1, <1>3, <4>1, <4>2 DEF AskedFor
    <3>3. ASSUME UNCHANGED call PROVE AskedFor(c, r)'
      BY <1>3, <3>3 DEF AskedFor
    <3>4. AskedFor(c, r)'
      BY CallWriters, <1>2, <3>1, <3>2, <3>3
    <3>5. QED
      BY <3>4 DEF Pending
  <2>3. QED
    BY <2>1, <2>2
<1>4. ASSUME NEW i \in 1..Len(queue), Queued(i, r) PROVE Pending(r)' \/ (TakeJob /\ Queued(1, r))
  <2>1. ASSUME NEW j, queue' = Append(queue, j) PROVE Pending(r)'
    <3>1. i \in 1..Len(queue') /\ queue'[i] = queue[i]
      BY <1>1, <2>1
    <3>2. QED
      BY <1>4, <3>1 DEF Pending, Queued
  <2>2. CASE TakeJob
    <3>1. queue # <<>> /\ queue' = Tail(queue)
      BY <2>2 DEF TakeJob
    <3>2. CASE i = 1
      BY <1>4, <2>2, <3>2
    <3>3. CASE i # 1
      <4>1. i - 1 \in 1..Len(queue') /\ queue'[i - 1] = queue[i]
        BY <1>1, <3>1, <3>3
      <4>2. Queued(i - 1, r)'
        BY <1>4, <4>1 DEF Queued
      <4>3. QED
        BY <4>1, <4>2 DEF Pending
    <3>4. QED
      BY <3>2, <3>3
  <2>3. CASE UNCHANGED queue
    BY <1>4, <2>3 DEF Pending, Queued
  <2>4. CASE \E c \in Callers : Enqueue(c) \/ Stop(c)
    BY <2>1, <2>4 DEF Enqueue, Stop, EnqueueJob
  <2>5. CASE BootReconcile
    BY <2>1, <2>3, <2>5 DEF BootReconcile, EnqueueJob
  <2>6. QED
    BY QueueWriters, <1>2, <2>2, <2>3, <2>4, <2>5
<1>5. QED
  BY <1>3, <1>4 DEF Pending

(***************************************************************************)
(* How rows and containers of one release move.                             *)
(***************************************************************************)
\* What a step may do to the row of one release.
RowMove(r) ==
  \/ rel'[r] = rel[r]
  \/ /\ \E c \in Callers : AskedFor(c, r)'
     /\ rel[r].status = "none" /\ rel'[r].status = "QUEUED" /\ rel'[r].tag = rel[r].tag
  \/ /\ \E c \in Callers : DeleteRow(c) \/ RemoveDeployment(c)
     /\ RowExists(r) /\ rel'[r].status = "deleted" /\ rel'[r].tag = None
  \/ /\ job.rel = r /\ RowExists(r) /\ rel'[r].tag = rel[r].tag
     /\ \/ Clone /\ rel'[r].status = "CLONING"
        \/ HealthChecking /\ rel'[r].status = "HEALTHCHECKING"
        \/ SetLive /\ rel'[r].status = "LIVE"
        \/ MarkReleaseFailed /\ rel'[r].status = "FAILED"
  \/ /\ StartBuild /\ job.rel = r
     /\ RowExists(r) /\ rel'[r].status = "BUILDING" /\ rel'[r].tag = job'.tag
  \/ /\ Supersede /\ job.prior = r /\ job.rel # r
     /\ RowExists(r) /\ rel'[r].status = "SUPERSEDED" /\ rel'[r].tag = rel[r].tag
  \/ /\ BootMark /\ rel[r].status \in InProgress
     /\ rel'[r].status = "INTERRUPTED" /\ rel'[r].tag = rel[r].tag

LEMMA RowMoves ==
  ASSUME Types, [Next]_vars, NEW r \in Releases
  PROVE  RowMove(r)
<1>1. rel \in [Releases -> Row] /\ call \in [Callers -> Call] /\ job \in Job
  BY DEF Types, RowsOK, CallsOK, JobOK
<1>2. rel[r] \in Row
  BY <1>1
\* The row of one existing release is replaced.
<1>3. ASSUME NEW q, NEW row, rel' = Updated(q, row)
      PROVE  rel'[r] = rel[r] \/ (q = r /\ RowExists(r) /\ rel'[r] = row)
  BY <1>1, <1>3 DEF Updated
<1>4. ASSUME NEW q, NEW s, rel' = Updated(q, WithStatus(q, s))
      PROVE  rel'[r] = rel[r] \/ (q = r /\ RowExists(r) /\ rel'[r].status = s /\ rel'[r].tag = rel[r].tag)
  <2>1. RowExists(q) => Updated(q, WithStatus(q, s)) = [rel EXCEPT ![q] = [rel[q] EXCEPT !.status = s]]
    BY DEF Updated, WithStatus
  <2>2. ~RowExists(q) => rel' = rel
    BY <1>4 DEF Updated
  <2>3. q = r /\ RowExists(q) => rel'[r].status = s /\ rel'[r].tag = rel[r].tag
    BY <1>1, <1>2, <1>4, <2>1 DEF Row
  <2>4. q # r => rel'[r] = rel[r]
    BY <1>1, <1>4, <2>1, <2>2
  <2>5. QED
    BY <2>2, <2>3, <2>4
<1>5. CASE UNCHANGED rel
  BY <1>5 DEF RowMove
<1>6. ASSUME NEW c \in Callers, DeployCreate(c) PROVE RowMove(r)
  <2>1. CASE UNCHANGED rel
    BY <2>1 DEF RowMove
  <2>2. CASE ~UNCHANGED rel
    <3>1. PICK q \in Releases : /\ rel[q].status = "none"
                                /\ rel' = [rel EXCEPT ![q].status = "QUEUED"]
                                /\ call' = [call EXCEPT ![c].at = "mark", ![c].rel = q]
      BY <1>6, <2>2 DEF DeployCreate
    <3>2. CASE q = r
      <4>1. rel'[r].status = "QUEUED" /\ rel'[r].tag = rel[r].tag
        BY <1>1, <1>2, <3>1, <3>2 DEF Row
      <4>2. call[c].kind = "deploy"
        BY <1>6 DEF Types, CallsOK, DeployCreate, At
      <4>3. call'[c].at = "mark" /\ call'[c].rel = r /\ call'[c].kind = "deploy"
        BY <1>1, <3>1, <3>2, <4>2 DEF Call
      <4>4. AskedFor(c, r)'
        BY <4>3 DEF AskedFor
      <4>5. QED
        BY <3>1, <3>2, <4>1, <4>4 DEF RowMove
    <3>3. CASE q # r
      BY <1>1, <3>1, <3>3 DEF RowMove
    <3>4. QED
      BY <3>2, <3>3
  <2>3. QED
    BY <2>1, <2>2
<1>7. ASSUME NEW c \in Callers, DeleteRow(c) PROVE RowMove(r)
  <2>1. [NoRow EXCEPT !.status = "deleted"].status = "deleted" /\ [NoRow EXCEPT !.status = "deleted"].tag = None
    BY DEF NoRow
  <2>2. rel' = Updated(call[c].rel, [NoRow EXCEPT !.status = "deleted"])
    BY <1>7 DEF DeleteRow
  <2>3. rel'[r] = rel[r] \/ (RowExists(r) /\ rel'[r] = [NoRow EXCEPT !.status = "deleted"])
    BY <1>3, <2>2
  <2>4. QED
    BY <1>7, <2>1, <2>3 DEF RowMove
<1>8. ASSUME NEW c \in Callers, RemoveDeployment(c) PROVE RowMove(r)
  <2>1. [NoRow EXCEPT !.status = "deleted"].status = "deleted" /\ [NoRow EXCEPT !.status = "deleted"].tag = None
    BY DEF NoRow
  <2>2. rel'[r] = IF RowExists(r) THEN [NoRow EXCEPT !.status = "deleted"] ELSE rel[r]
    BY <1>8 DEF RemoveDeployment
  <2>3. QED
    BY <1>8, <2>1, <2>2 DEF RowMove
<1>9. CASE Clone
  BY <1>4, <1>9 DEF Clone, RowMove
<1>10. CASE StartBuild
  <2>1. PICK i \in Images : /\ rel' = Updated(job.rel, [WithStatus(job.rel, "BUILDING") EXCEPT !.tag = i])
                            /\ job' = [job EXCEPT !.tag = i]
    BY <1>10 DEF StartBuild
  <2>2. job.rel = r /\ RowExists(r) =>
          /\ [WithStatus(job.rel, "BUILDING") EXCEPT !.tag = i].status = "BUILDING"
          /\ [WithStatus(job.rel, "BUILDING") EXCEPT !.tag = i].tag = i
    BY <1>2 DEF WithStatus, Row
  <2>3. \/ rel'[r] = rel[r]
        \/ /\ job.rel = r /\ RowExists(r)
           /\ rel'[r] = [WithStatus(job.rel, "BUILDING") EXCEPT !.tag = i]
    BY <1>3, <2>1
  <2>4. job'.tag = i
    BY <1>1, <2>1 DEF Job
  <2>5. \/ rel'[r] = rel[r]
        \/ job.rel = r /\ RowExists(r) /\ rel'[r].status = "BUILDING" /\ rel'[r].tag = job'.tag
    BY <2>2, <2>3, <2>4
  <2>6. QED
    BY <1>10, <2>5 DEF RowMove
<1>11. CASE HealthChecking
  BY <1>4, <1>11 DEF HealthChecking, RowMove
<1>12. CASE SetLive
  <2>1. rel' = Updated(job.rel, [WithStatus(job.rel, "LIVE") EXCEPT !.cont = job.new])
    BY <1>12 DEF SetLive
  <2>2. job.rel = r /\ RowExists(r) =>
          /\ [WithStatus(job.rel, "LIVE") EXCEPT !.cont = job.new].status = "LIVE"
          /\ [WithStatus(job.rel, "LIVE") EXCEPT !.cont = job.new].tag = rel[r].tag
    BY <1>2 DEF WithStatus, Row
  <2>3. \/ rel'[r] = rel[r]
        \/ /\ job.rel = r /\ RowExists(r)
           /\ rel'[r] = [WithStatus(job.rel, "LIVE") EXCEPT !.cont = job.new]
    BY <1>3, <2>1
  <2>4. \/ rel'[r] = rel[r]
        \/ job.rel = r /\ RowExists(r) /\ rel'[r].status = "LIVE" /\ rel'[r].tag = rel[r].tag
    BY <2>2, <2>3
  <2>5. QED
    BY <1>12, <2>4 DEF RowMove
<1>13. CASE Supersede
  <2>1. \/ rel' = rel
        \/ job.prior # job.rel /\ rel' = Updated(job.prior, WithStatus(job.prior, "SUPERSEDED"))
    BY <1>13 DEF Supersede
  <2>2. \/ rel'[r] = rel[r]
        \/ /\ job.prior = r /\ job.rel # r /\ RowExists(r)
           /\ rel'[r].status = "SUPERSEDED" /\ rel'[r].tag = rel[r].tag
    BY <1>4, <2>1
  <2>3. QED
    BY <1>13, <2>2 DEF RowMove
<1>14. CASE MarkReleaseFailed
  BY <1>4, <1>14 DEF MarkReleaseFailed, RowMove
<1>15. CASE BootMark
  <2>1. rel'[r] = IF rel[r].status \in InProgress THEN [rel[r] EXCEPT !.status = "INTERRUPTED"] ELSE rel[r]
    BY <1>15 DEF BootMark
  <2>2. [rel[r] EXCEPT !.status = "INTERRUPTED"].status = "INTERRUPTED"
        /\ [rel[r] EXCEPT !.status = "INTERRUPTED"].tag = rel[r].tag
    BY <1>2 DEF Row
  <2>3. QED
    BY <1>15, <2>1, <2>2 DEF RowMove
<1>16. CASE \/ SetActive \/ SetRunning \/ StateAfterFailedDeploy \/ MarkActionFailed \/ SetStopped \/ BootReconcile
            \/ \E c \in Callers : Mark(c)
  BY <1>5, <1>16 DEF SetActive, SetRunning, StateAfterFailedDeploy, MarkActionFailed, SetStopped,
                     BootReconcile, Mark
<1>17. QED
  BY RowWriters, <1>5, <1>6, <1>7, <1>8, <1>9, <1>10, <1>11, <1>12, <1>13, <1>14, <1>15, <1>16 DEF db

\* No row becomes one that was never inserted, a tag is stored by StartBuild only, and a
\* release gets in progress by its insert or by its job.
LEMMA RowFacts ==
  ASSUME Types, [Next]_vars, NEW r \in Releases
  PROVE  /\ rel'[r].status = "none" => rel[r].status = "none"
         /\ rel'[r].tag # rel[r].tag => rel'[r].tag = None \/ (StartBuild /\ job.rel = r)
         /\ rel'[r].status \in InProgress /\ rel[r].status \notin InProgress =>
              \/ \E c \in Callers : AskedFor(c, r)'
              \/ job.rel = r /\ (Clone \/ StartBuild \/ HealthChecking)
<1>1. RowMove(r)
  BY RowMoves
<1>2. QED
  BY <1>1 DEF RowMove, RowExists, InProgress

\* Only SetActive makes a release the active one.
LEMMA ActiveMoves ==
  [Next]_vars /\ active' # active => active' = None \/ (SetActive /\ active' = job.rel)
BY RowWriters DEF db, DeployCreate, Mark, DeleteRow, RemoveDeployment, Clone, StartBuild, HealthChecking,
   SetLive, SetActive, SetRunning, Supersede, MarkReleaseFailed, StateAfterFailedDeploy, MarkActionFailed,
   SetStopped, BootMark, BootReconcile

\* Removal only changes how a container is; no container changes its release but a
\* created one.
LEMMA RemovedOne ==
  ASSUME HostOK, NEW S, NEW k \in Containers
  PROVE  /\ Removed(S)[k].rel = con[k].rel
         /\ k \in S /\ k \in Present => Removed(S)[k].st = "removed"
         /\ k \notin S \/ k \notin Present => Removed(S)[k] = con[k]
BY DEF HostOK, Removed, Container

LEMMA ConMoves ==
  ASSUME Types, [Next]_vars, NEW k \in Containers, con'[k].rel # con[k].rel
  PROVE  Create /\ con'[k].rel = job.rel
<1>1. con \in [Containers -> Container] /\ HostOK
  BY DEF Types, HostOK
<1>2. \A S : Removed(S)[k].rel = con[k].rel
  BY <1>1, RemovedOne
<1>3. CASE UNCHANGED con
  BY <1>3
<1>4. CASE \E c \in Callers : DeleteContainer(c) \/ DeleteImage(c) \/ TeardownContainers(c)
  BY <1>2, <1>3, <1>4 DEF DeleteContainer, DeleteImage, TeardownContainers
<1>5. CASE Build \/ RemoveByName \/ RemoveStale \/ CleanupImages \/ StopRemoveAll \/ Vanish
  BY <1>2, <1>3, <1>5 DEF Build, RemoveByName, RemoveStale, CleanupImages, StopRemoveAll, Vanish
<1>6. CASE Probe
  <2>1. [con EXCEPT ![job.new].st = "healthy"][k].rel = con[k].rel
    BY <1>1 DEF Container
  <2>2. QED
    BY <1>2, <1>6, <2>1 DEF Probe
<1>7. CASE Reboot
  BY <1>1, <1>7 DEF Reboot, Container
<1>8. CASE Create
  BY <1>1, <1>3, <1>8 DEF Create
<1>9. QED
  BY HostWriters, <1>3, <1>4, <1>5, <1>6, <1>7, <1>8 DEF host

\* Nothing happens to a release that is untouched before a job holds it.
LEMMA UntouchedStays ==
  ASSUME Types, [Next]_vars, NEW r \in Releases, Untouched(r), ~(Holding /\ job.rel = r)
  PROVE  Untouched(r)'
<1>1. StartBuild \/ SetActive \/ Create => Holding
  BY DEF Types, JobOK, StartBuild, SetActive, Create, Step, Holding, Launches
<1>2. rel'[r].tag = None
  BY <1>1, RowFacts DEF Untouched
<1>3. active' # r
  BY <1>1, ActiveMoves, NoneAssumption DEF Untouched
<1>4. ASSUME NEW k \in Containers PROVE con'[k].rel # r
  BY <1>1, ConMoves DEF Untouched
<1>5. QED
  BY <1>2, <1>3, <1>4 DEF Untouched

(***************************************************************************)
(* SettledWhenIdle.                                                         *)
(***************************************************************************)
LEMMA InitOwned == Init => OwnedInv
BY DEF Init, OwnedInv, NoRow, InProgress

\* The running deploy goes on with its release until the release is no longer in progress.
LEMMA WorkGoesOn ==
  ASSUME Types, [Next]_vars, NEW r \in Releases, WorkedOn(r), proc' # "down",
         rel'[r].status \in InProgress
  PROVE  WorkedOn(r)'
<1>1. ~Crash /\ ~Reboot
  BY DEF Crash, Reboot, ProcessGone
<1>2. job.kind = "deploy" /\ pc \in BeforeLive /\ job.rel = r /\ job \in Job /\ rel \in [Releases -> Row]
  BY DEF WorkedOn, Types, JobOK, RowsOK
<1>3. CASE UNCHANGED <<job, pc>>
  BY <1>2, <1>3 DEF WorkedOn
<1>4. CASE RunJob
  <2>1. ASSUME UNCHANGED job, pc' \in BeforeLive PROVE WorkedOn(r)'
    BY <1>2, <2>1 DEF WorkedOn
  <2>2. CASE FindRelease \/ Clone \/ Build \/ HealthChecking \/ RemoveByName \/ Probe
    BY <1>2, <2>1, <2>2 DEF FindRelease, Clone, Build, HealthChecking, RemoveByName, Probe,
                            Goto, Throw, BeforeLive
  <2>3. CASE StartBuild
    BY <1>2, <2>3 DEF StartBuild, Job, WorkedOn, BeforeLive
  <2>4. CASE Create
    BY <1>2, <2>4 DEF Create, Throw, Goto, Job, WorkedOn, BeforeLive
  <2>5. rel'[r].status # rel[r].status \/ RowExists(r)
    BY DEF RowExists, InProgress
  <2>6. CASE SetLive
    <3>1. rel' = Updated(r, [WithStatus(r, "LIVE") EXCEPT !.cont = job.new])
      BY <1>2, <2>6 DEF SetLive
    <3>2. RowExists(r) => rel'[r].status = "LIVE"
      BY <1>2, <3>1 DEF Updated, WithStatus, Row
    <3>3. ~RowExists(r) => rel' = rel
      BY <3>1 DEF Updated
    <3>4. QED
      BY <2>5, <3>2, <3>3 DEF InProgress
  <2>7. CASE MarkReleaseFailed
    <3>1. rel' = Updated(r, WithStatus(r, "FAILED"))
      BY <1>2, <2>7 DEF MarkReleaseFailed
    <3>2. RowExists(r) => rel'[r].status = "FAILED"
      BY <1>2, <3>1 DEF Updated, WithStatus, Row
    <3>3. ~RowExists(r) => rel' = rel
      BY <3>1 DEF Updated
    <3>4. QED
      BY <2>5, <3>2, <3>3 DEF InProgress
  <2>8. QED
    BY <1>2, <1>4, <2>2, <2>3, <2>4, <2>6, <2>7
       DEF RunJob, TakeJob, FindActive, FindTarget, FindDeployment, SetActive, SetRunning, RemoveStale,
           Supersede, CleanupImages, StateAfterFailedDeploy, MarkActionFailed, StopRemoveAll, SetStopped,
           Step, BeforeLive
<1>5. QED
  BY JobWriters, <1>1, <1>3, <1>4

LEMMA StepOwned == Types /\ OwnedInv /\ [Next]_vars => OwnedInv'
<1> SUFFICES ASSUME Types, OwnedInv, [Next]_vars, proc' \in {"up", "booting"},
                    NEW r \in Releases, rel'[r].status \in InProgress
             PROVE  Pending(r)' \/ WorkedOn(r)'
  BY DEF OwnedInv
<1>1. proc' # "down"
  OBVIOUS
<1>2. CASE rel[r].status \notin InProgress
  <2>1. ASSUME NEW c \in Callers, AskedFor(c, r)' PROVE Pending(r)'
    BY <2>1 DEF Pending
  <2>2. CASE job.rel = r /\ (Clone \/ StartBuild \/ HealthChecking)
    BY <2>2 DEF Types, JobOK, Job, Clone, StartBuild, HealthChecking, Step, Goto, Throw, WorkedOn, BeforeLive
  <2>3. QED
    BY <1>2, <2>1, <2>2, RowFacts
<1>3. CASE rel[r].status \in InProgress /\ proc \in {"up", "booting"}
  <2>1. Pending(r) \/ WorkedOn(r)
    BY <1>3 DEF OwnedInv
  <2>2. CASE Pending(r)
    <3>1. CASE Pending(r)'
      BY <3>1
    <3>2. CASE TakeJob /\ Queued(1, r)
      BY <3>2 DEF TakeJob, Queued, WorkedOn, BeforeLive
    <3>3. QED
      BY <1>1, <2>2, <3>1, <3>2, PendingStays
  <2>3. CASE WorkedOn(r)
    BY <1>1, <2>3, WorkGoesOn
  <2>4. QED
    BY <2>1, <2>2, <2>3
\* The backend comes up: markInterrupted has been there.
<1>4. CASE rel[r].status \in InProgress /\ proc \notin {"up", "booting"}
  <2>1. BootMark
    BY <1>1, <1>4 DEF Next, Request, Continue, RunJob, Crash, Reboot, Vanish, Boot, BootUnrepaired,
                      BootReconcile, vars, ProcessGone,
                      DeployRead, StartRead, RollbackRead, Stop, DeleteRead, TeardownList,
                      DeployCreate, Mark, Enqueue, DeleteCheck, DeleteContainer, DeleteImage, DeleteRow,
                      TeardownContainers, RemoveDeployment,
                      TakeJob, FindRelease, FindActive, FindTarget, FindDeployment, Clone, StartBuild, Build,
                      HealthChecking, RemoveByName, Create, Probe, SetLive, SetActive, SetRunning, RemoveStale,
                      Supersede, CleanupImages, MarkReleaseFailed, StateAfterFailedDeploy, MarkActionFailed,
                      StopRemoveAll, SetStopped, Step
  <2>2. rel'[r] = [rel[r] EXCEPT !.status = "INTERRUPTED"] /\ rel[r] \in Row
    BY <1>4, <2>1 DEF BootMark, Types, RowsOK
  <2>3. rel'[r].status = "INTERRUPTED"
    BY <2>2 DEF Row
  <2>4. QED
    BY <2>3 DEF InProgress
<1>5. QED
  BY <1>2, <1>3, <1>4

\* No release is shown in progress when nothing works on it: a crash leaves none that
\* markInterrupted does not repair, whatever requests and jobs were under way.
THEOREM Settles == Spec => []SettledWhenIdle
<1>1. Types /\ OwnedInv => SettledWhenIdle
  <2> SUFFICES ASSUME Types, OwnedInv, Idle, proc = "up", NEW r \in Releases
               PROVE  rel[r].status \notin InProgress
    BY DEF SettledWhenIdle
  <2>1. ~WorkedOn(r)
    BY DEF Idle, WorkedOn, BeforeLive
  <2>2. ~Pending(r)
    BY DEF Idle, Pending, AskedFor
  <2>3. QED
    BY <2>1, <2>2 DEF OwnedInv
<1>2. Init => Types /\ OwnedInv
  BY InitTypes, InitOwned
<1>3. Types /\ OwnedInv /\ [Next]_vars => Types' /\ OwnedInv'
  BY StepTypes, StepOwned
<1>4. QED
  BY <1>1, <1>2, <1>3, PTL DEF Spec

(***************************************************************************)
(* PendingInv and UniqueInv.                                                *)
(***************************************************************************)
LEMMA InitPending == Init => PendingInv /\ UniqueInv
<1> SUFFICES ASSUME Init PROVE PendingInv /\ UniqueInv
  OBVIOUS
<1>1. \A r \in Releases : Untouched(r) /\ ~Pending(r)
  BY DEF Init, Untouched, NoRow, Pending, AskedFor, NoCall
<1>2. ~Holding /\ job.kind # "deploy"
  BY DEF Init, Holding, NoJob
<1>3. PendingInv
  BY <1>1, <1>2 DEF PendingInv
<1>4. UniqueInv
  BY DEF Init, UniqueInv, AskedFor, NoCall
<1>5. QED
  BY <1>3, <1>4

\* A release was not held, or the running job held it already, or has just found it.
LEMMA HoldingMoves ==
  ASSUME Types, [Next]_vars, Holding'
  PROVE  \/ Holding /\ job'.rel = job.rel /\ job'.kind = job.kind
         \/ TakeJob /\ Queued(1, job'.rel) /\ job'.kind = "deploy"
         \/ FindActive /\ RowExists(active) /\ job'.rel = active /\ rel[active].tag # None
         \/ FindTarget /\ RowExists(job.rel) /\ job'.rel = job.rel /\ rel[job.rel].tag # None
<1>1. job \in Job /\ pc \in Pcs
  BY DEF Types, JobOK
<1>2. CASE UNCHANGED <<job, pc>>
  BY <1>2 DEF Holding
<1>3. CASE Crash \/ Reboot
  BY <1>3 DEF Crash, Reboot, ProcessGone, Holding, NoJob
<1>4. CASE TakeJob
  BY <1>4 DEF TakeJob, Holding, Queued
<1>5. CASE FindActive
  BY <1>1, <1>5 DEF FindActive, Step, Throw, Goto, Holding, Job
<1>6. CASE FindTarget
  BY <1>1, <1>6 DEF FindTarget, Step, Throw, Goto, Holding, Job
<1>7. CASE \/ FindRelease \/ FindDeployment \/ Clone \/ Build \/ HealthChecking \/ RemoveByName \/ Probe \/ SetLive
           \/ SetActive \/ RemoveStale \/ StopRemoveAll \/ MarkReleaseFailed
  BY <1>1, <1>7 DEF FindRelease, FindDeployment, Clone, Build, HealthChecking, RemoveByName, Probe, SetLive,
           SetActive, RemoveStale, StopRemoveAll, MarkReleaseFailed, Step, Throw, Goto, Holding
<1>8. CASE StartBuild \/ Create
  BY <1>1, <1>8 DEF StartBuild, Create, Step, Throw, Goto, Holding, Job
<1>9. CASE \/ SetRunning \/ Supersede \/ CleanupImages \/ StateAfterFailedDeploy \/ MarkActionFailed \/ SetStopped
  BY <1>1, <1>9 DEF SetRunning, Supersede, CleanupImages, StateAfterFailedDeploy, MarkActionFailed, SetStopped,
           Step, Goto, Finish, NoJob, Holding
<1>10. QED
  BY JobWriters, <1>2, <1>3, <1>4, <1>5, <1>6, <1>7, <1>8, <1>9 DEF RunJob

\* A deploy that has not gone live was there already, or has just been taken.
LEMMA BeforeLiveMoves ==
  ASSUME Types, [Next]_vars, job'.kind = "deploy", pc' \in BeforeLive
  PROVE  \/ job.kind = "deploy" /\ pc \in BeforeLive /\ job'.rel = job.rel /\ ~SetActive
            /\ (pc' \notin {"probe", "live", "catch"} => pc \notin {"probe", "live", "catch"} /\ ~Create)
         \/ TakeJob /\ Queued(1, job'.rel)
<1> USE DEF BeforeLive
<1>1. job \in Job /\ JobOK
  BY DEF Types, JobOK
<1>2. CASE UNCHANGED <<job, pc>>
  BY <1>2 DEF SetActive, Create, Step, Goto, Throw, Job
<1>3. CASE Crash \/ Reboot
  BY <1>3 DEF Crash, Reboot, ProcessGone, NoJob
<1>4. CASE TakeJob
  BY <1>4 DEF TakeJob, Queued
<1>5. CASE FindActive \/ FindTarget
  BY <1>1, <1>5 DEF FindActive, FindTarget, Step, Throw, Goto, Job
<1>6. CASE \/ FindRelease \/ FindDeployment \/ Clone \/ Build \/ HealthChecking \/ RemoveByName \/ Probe
           \/ SetLive \/ SetActive \/ RemoveStale \/ StopRemoveAll \/ MarkReleaseFailed
  BY <1>1, <1>6 DEF FindRelease, FindDeployment, Clone, Build, HealthChecking, RemoveByName, Probe, SetLive,
           SetActive, RemoveStale, StopRemoveAll, MarkReleaseFailed, Step, Throw, Goto, JobOK, SetActive, Create
<1>7. CASE StartBuild \/ Create
  BY <1>1, <1>7 DEF StartBuild, Create, SetActive, Step, Throw, Goto, Job, JobOK
<1>8. CASE \/ SetRunning \/ Supersede \/ CleanupImages \/ StateAfterFailedDeploy \/ MarkActionFailed \/ SetStopped
  BY <1>1, <1>8 DEF SetRunning, Supersede, CleanupImages, StateAfterFailedDeploy, MarkActionFailed, SetStopped,
           Step, Goto, Finish, NoJob
<1>9. QED
  BY JobWriters, <1>2, <1>3, <1>4, <1>5, <1>6, <1>7, <1>8 DEF RunJob

LEMMA TakenWasPending ==
  ASSUME Types, TakeJob, NEW r \in Releases, Queued(1, r)
  PROVE  Pending(r)
<1>1. queue \in Seq(Job) /\ queue # <<>>
  BY DEF Types, QueueOK, TakeJob
<1>2. 1 \in 1..Len(queue)
  BY <1>1
<1>3. QED
  BY <1>2 DEF Pending

LEMMA StepPending == Types /\ PendingInv /\ UniqueInv /\ [Next]_vars => PendingInv'
<1> SUFFICES ASSUME Types, PendingInv, UniqueInv, [Next]_vars PROVE PendingInv'
  OBVIOUS
<1>1. \A r \in Releases : rel[r].status = "none" => Untouched(r)
  BY DEF PendingInv
<1>2. \A r \in Releases : Pending(r) => rel[r].status # "none" /\ Untouched(r)
  BY DEF PendingInv
<1>3. Holding => rel[job.rel].status # "none" /\ ~Pending(job.rel)
  BY DEF PendingInv
<1>4. Types'
  BY StepTypes
<1>5. Holding => job.rel \in Releases
  BY DEF Types, JobOK, Holding, Named, Pcs, JobKinds, Launches
<1>6. Holding' => job'.rel \in Releases
  BY <1>4 DEF Types, JobOK, Holding, Named, Pcs, JobKinds, Launches
<1>7. ASSUME NEW r \in Releases, rel'[r].status = "none" PROVE Untouched(r)'
  <2>1. rel[r].status = "none"
    BY <1>7, RowFacts
  <2>2. Untouched(r) /\ ~(Holding /\ job.rel = r)
    BY <1>1, <1>3, <2>1
  <2>3. QED
    BY <2>2, UntouchedStays
<1>8. ASSUME NEW r \in Releases, Pending(r)' PROVE rel'[r].status # "none" /\ Untouched(r)'
  <2>1. CASE Pending(r)
    <3>1. rel[r].status # "none" /\ Untouched(r) /\ ~(Holding /\ job.rel = r)
      BY <1>2, <1>3, <2>1
    <3>2. Untouched(r)'
      BY <3>1, UntouchedStays
    <3>3. rel'[r].status # "none"
      BY <3>1, RowFacts
    <3>4. QED
      BY <3>2, <3>3
  <2>2. CASE ~Pending(r)
    <3>1. rel[r].status = "none" /\ rel'[r].status = "QUEUED"
      BY <1>8, <2>2, PendingFrom
    <3>2. Untouched(r) /\ ~(Holding /\ job.rel = r)
      BY <1>1, <1>3, <3>1
    <3>3. QED
      BY <3>1, <3>2, UntouchedStays
  <2>3. QED
    BY <2>1, <2>2
\* A release whose row was there and that nobody asked for is not asked for now.
<1>9. ASSUME NEW r \in Releases, rel[r].status # "none", ~Pending(r)
      PROVE  rel'[r].status # "none" /\ ~Pending(r)'
  BY <1>9, RowFacts, PendingFrom
<1>10. ASSUME NEW r \in Releases, TakeJob, Queued(1, r)
       PROVE  rel'[r].status # "none" /\ ~Pending(r)' /\ Untouched(r)' /\ active' # r
              /\ \A k \in Containers : con'[k].rel # r
  <2>1. Pending(r) /\ rel[r].status # "none" /\ Untouched(r)
    BY <1>2, <1>10, TakenWasPending
  <2>2. UNCHANGED <<rel, active, con, call>>
    BY <1>10 DEF TakeJob, db, host
  <2>3. Untouched(r)' /\ rel'[r].status # "none" /\ active' # r /\ \A k \in Containers : con'[k].rel # r
    BY <2>1, <2>2 DEF Untouched
  <2>4. queue \in Seq(Job) /\ queue # <<>> /\ 1 \in 1..Len(queue)
    BY <1>10 DEF Types, QueueOK, TakeJob
  <2>5. ASSUME NEW c \in Callers, AskedFor(c, r)' PROVE FALSE
    <3>1. AskedFor(c, r)
      BY <2>2, <2>5 DEF AskedFor
    <3>2. QED
      BY <1>10, <2>4, <3>1 DEF UniqueInv
  <2>6. ASSUME NEW i \in 1..Len(queue'), Queued(i, r)' PROVE FALSE
    <3>1. \/ i + 1 \in 1..Len(queue) /\ Queued(i + 1, r)
          \/ \E c \in Callers : Enqueue(c)
      BY <1>10, <2>6, QueuedFrom
    <3>2. ASSUME NEW c \in Callers, Enqueue(c) PROVE FALSE
      BY <1>10, <2>4, <3>2 DEF Enqueue, EnqueueJob, TakeJob
    <3>3. i + 1 # 1
      BY <2>6
    <3>4. QED
      BY <1>10, <2>4, <3>1, <3>2, <3>3 DEF UniqueInv
  <2>7. ~Pending(r)'
    BY <2>5, <2>6 DEF Pending
  <2>8. QED
    BY <2>3, <2>7
<1>11. Holding' => rel'[job'.rel].status # "none" /\ ~Pending(job.rel)'
  <2> SUFFICES ASSUME Holding' PROVE rel'[job'.rel].status # "none" /\ ~Pending(job.rel)'
    OBVIOUS
  <2>1. PICK r \in Releases : r = job'.rel
    BY <1>6
  <2>2. CASE Holding /\ job'.rel = job.rel
    BY <1>3, <1>9, <2>1, <2>2
  <2>3. CASE TakeJob /\ Queued(1, job'.rel)
    BY <1>10, <2>1, <2>3
  <2>4. CASE RowExists(r) /\ rel[r].tag # None
    <3>1. rel[r].status # "none" /\ ~Untouched(r)
      BY <2>4 DEF RowExists, Untouched
    <3>2. QED
      BY <1>2, <1>9, <2>1, <3>1
  <2>5. CASE RowExists(active) /\ r = active
    <3>1. rel[r].status # "none" /\ ~Untouched(r)
      BY <2>5 DEF RowExists, Untouched
    <3>2. QED
      BY <1>2, <1>9, <2>1, <3>1
  <2>6. QED
    BY <2>1, <2>2, <2>3, <2>4, <2>5, HoldingMoves
<1>12. job'.kind = "deploy" /\ pc' \in BeforeLive => active' # job'.rel
  <2> SUFFICES ASSUME job'.kind = "deploy", pc' \in BeforeLive PROVE active' # job'.rel
    OBVIOUS
  <2>1. job'.rel \in Releases
    BY <1>6 DEF Holding, BeforeLive
  <2>2. CASE TakeJob /\ Queued(1, job'.rel)
    BY <1>10, <2>1, <2>2
  <2>3. CASE job.kind = "deploy" /\ pc \in BeforeLive /\ job'.rel = job.rel /\ ~SetActive
    <3>1. active # job.rel
      BY <2>3 DEF PendingInv
    <3>2. QED
      BY <2>1, <2>3, <3>1, ActiveMoves
  <2>4. QED
    BY <2>2, <2>3, BeforeLiveMoves
<1>13. ASSUME job'.kind = "deploy", pc' \in BeforeLive \ {"probe", "live", "catch"}, NEW k \in Containers
       PROVE  con'[k].rel # job'.rel
  <2>1. job'.rel \in Releases
    BY <1>6, <1>13 DEF Holding, BeforeLive
  <2>2. CASE TakeJob /\ Queued(1, job'.rel)
    BY <1>10, <2>1, <2>2
  <2>3. CASE job.kind = "deploy" /\ pc \in BeforeLive \ {"probe", "live", "catch"} /\ job'.rel = job.rel /\ ~Create
    <3>1. con[k].rel # job.rel
      BY <2>3 DEF PendingInv
    <3>2. QED
      BY <2>3, <3>1, ConMoves
  <2>4. QED
    BY <1>13, <2>2, <2>3, BeforeLiveMoves
<1>14. QED
  BY <1>7, <1>8, <1>11, <1>12, <1>13 DEF PendingInv

LEMMA StepUnique == Types /\ PendingInv /\ UniqueInv /\ [Next]_vars => UniqueInv'
<1> SUFFICES ASSUME Types, PendingInv, UniqueInv, [Next]_vars PROVE UniqueInv'
  OBVIOUS
<1>1. queue \in Seq(Job) /\ queue' \in Seq(Job) /\ call \in [Callers -> Call]
  BY StepTypes DEF Types, QueueOK, CallsOK
<1>2. ASSUME NEW c \in Callers, NEW r \in Releases, AskedFor(c, r)', ~AskedFor(c, r)
      PROVE  DeployCreate(c) /\ ~Pending(r)
  <2>1. DeployCreate(c) /\ rel[r].status = "none"
    BY <1>2, AskedFrom
  <2>2. QED
    BY <2>1 DEF PendingInv
<1>3. ASSUME NEW c \in Callers, NEW d \in Callers, NEW r \in Releases, AskedFor(c, r)', AskedFor(d, r)'
      PROVE  c = d
  <2>1. CASE AskedFor(c, r) /\ AskedFor(d, r)
    BY <2>1 DEF UniqueInv
  <2>2. ASSUME NEW x \in Callers, NEW y \in Callers, AskedFor(x, r)', AskedFor(y, r)', ~AskedFor(x, r)
        PROVE  x = y
    <3>1. DeployCreate(x) /\ ~Pending(r)
      BY <1>2, <2>2
    <3>2. ~AskedFor(y, r)
      BY <3>1 DEF Pending
    <3>3. call' = [call EXCEPT ![x] = call'[x]]
      BY <1>1, <3>1 DEF DeployCreate
    <3>4. QED
      BY <1>1, <2>2, <3>2, <3>3 DEF AskedFor
  <2>3. QED
    BY <1>3, <2>1, <2>2
<1>4. ASSUME NEW i \in 1..Len(queue'), NEW j \in 1..Len(queue'), NEW r \in Releases,
             Queued(i, r)', Queued(j, r)'
      PROVE  i = j
  <2>1. ASSUME NEW x \in 1..Len(queue), Queued(x, r), NEW c \in Callers, AskedFor(c, r) PROVE FALSE
    BY <2>1 DEF UniqueInv
  <2>2. ASSUME NEW x \in 1..Len(queue), NEW y \in 1..Len(queue), Queued(x, r), Queued(y, r) PROVE x = y
    BY <2>2 DEF UniqueInv
  <2>3. \A x \in 1..Len(queue') : Queued(x, r)' =>
          \/ x \in 1..Len(queue) /\ Queued(x, r) /\ ~TakeJob
          \/ TakeJob /\ x + 1 \in 1..Len(queue) /\ Queued(x + 1, r)
          \/ x = Len(queue) + 1 /\ \E c \in Callers : Enqueue(c) /\ AskedFor(c, r)
    BY QueuedFrom
  <2>4. CASE TakeJob
    <3>1. ~\E c \in Callers : Enqueue(c)
      BY <1>1, <2>4 DEF Enqueue, EnqueueJob, TakeJob
    <3>2. i + 1 \in 1..Len(queue) /\ Queued(i + 1, r) /\ j + 1 \in 1..Len(queue) /\ Queued(j + 1, r)
      BY <1>4, <2>3, <2>4, <3>1
    <3>3. i + 1 = j + 1
      BY <2>2, <3>2
    <3>4. QED
      BY <3>3
  <2>5. CASE ~TakeJob
    BY <1>4, <2>1, <2>2, <2>3, <2>5
  <2>6. QED
    BY <2>4, <2>5
<1>5. ASSUME NEW c \in Callers, NEW i \in 1..Len(queue'), NEW r \in Releases, AskedFor(c, r)', Queued(i, r)'
      PROVE  FALSE
  <2>1. \/ i \in 1..Len(queue) /\ Queued(i, r)
        \/ i + 1 \in 1..Len(queue) /\ Queued(i + 1, r)
        \/ \E d \in Callers : Enqueue(d) /\ AskedFor(d, r)
    BY <1>5, QueuedFrom
  <2>2. Pending(r)
    BY <2>1 DEF Pending
  <2>3. AskedFor(c, r)
    BY <1>2, <1>5, <2>2
  <2>4. CASE \E d \in Callers : Enqueue(d) /\ AskedFor(d, r)
    <3>1. Enqueue(c)
      BY <2>3, <2>4 DEF UniqueInv
    <3>2. QED
      BY <1>1, <1>5, <3>1 DEF Enqueue, AskedFor, NoCall
  <2>5. QED
    BY <2>1, <2>3, <2>4 DEF UniqueInv
<1>6. QED
  BY <1>3, <1>4, <1>5 DEF UniqueInv

LEMMA PendingHolds == Spec => [](Types /\ PendingInv /\ UniqueInv)
<1>1. Init => Types /\ PendingInv /\ UniqueInv
  BY InitTypes, InitPending
<1>2. Types /\ PendingInv /\ UniqueInv /\ [Next]_vars => Types' /\ PendingInv' /\ UniqueInv'
  BY StepTypes, StepPending, StepUnique
<1>3. QED
  BY <1>1, <1>2, PTL DEF Spec

(***************************************************************************)
(* ActiveIsLive and ActiveImageKept, when deleteRelease is not used.        *)
(***************************************************************************)
LEMMA StateMoves ==
  [Next]_vars =>
    /\ state = "gone" => state' = "gone"
    /\ state' = "gone" /\ state # "gone" => \E c \in Callers : RemoveDeployment(c)
    /\ (\E c \in Callers : RemoveDeployment(c)) => state' = "gone" /\ active' = None
BY RowWriters DEF db, StateSetTo, DeployCreate, Mark, DeleteRow, RemoveDeployment, Clone, StartBuild,
   HealthChecking, SetLive, SetActive, SetRunning, Supersede, MarkReleaseFailed, StateAfterFailedDeploy,
   MarkActionFailed, SetStopped, BootMark, BootReconcile

\* Where the running job comes from, step by step.
LEMMA PcMoves ==
  ASSUME Types, [Next]_vars
  PROVE  /\ pc' = "activate" => (SetLive /\ UNCHANGED job) \/ (pc = "activate" /\ UNCHANGED <<job, pc>>)
         /\ pc' \in Tagged =>
              \/ StartBuild /\ job'.rel = job.rel
              \/ FindActive /\ job'.rel = active /\ RowExists(active) /\ job'.tag = rel[active].tag
              \/ FindTarget /\ job'.rel = job.rel /\ job'.tag = rel[job.rel].tag
              \/ pc \in Tagged /\ job'.tag = job.tag /\ job'.rel = job.rel /\ ~StartBuild
         /\ Activated' /\ job'.kind # "relaunch" =>
              (SetActive /\ UNCHANGED job) \/ (Activated /\ UNCHANGED job /\ ~SetActive)
         /\ pc' \in Imaged =>
              /\ job'.tag = job.tag /\ ~CleanupImages
              /\ pc \in Imaged \/ (Create /\ job.tag \in images)
<1> DEFINE P == /\ pc' = "activate" => (SetLive /\ UNCHANGED job) \/ (pc = "activate" /\ UNCHANGED <<job, pc>>)
                /\ pc' \in Tagged =>
                     \/ StartBuild /\ job'.rel = job.rel
                     \/ FindActive /\ job'.rel = active /\ RowExists(active) /\ job'.tag = rel[active].tag
                     \/ FindTarget /\ job'.rel = job.rel /\ job'.tag = rel[job.rel].tag
                     \/ pc \in Tagged /\ job'.tag = job.tag /\ job'.rel = job.rel /\ ~StartBuild
                /\ Activated' /\ job'.kind # "relaunch" =>
                     (SetActive /\ UNCHANGED job) \/ (Activated /\ UNCHANGED job /\ ~SetActive)
                /\ pc' \in Imaged =>
                     /\ job'.tag = job.tag /\ ~CleanupImages
                     /\ pc \in Imaged \/ (Create /\ job.tag \in images)
<1> USE DEF Tagged, Imaged, Activated
<1>1. job \in Job /\ pc \in Pcs /\ JobOK
  BY DEF Types, JobOK
<1>2. CASE UNCHANGED <<job, pc>>
  <2>1. ~SetActive /\ ~StartBuild /\ ~CleanupImages
    BY <1>2 DEF SetActive, StartBuild, CleanupImages, Step, Goto, Finish
  <2>2. QED
    BY <1>2, <2>1
<1>3. CASE Crash \/ Reboot
  BY <1>3 DEF Crash, Reboot, ProcessGone, NoJob
<1>4. CASE TakeJob
  BY <1>4 DEF TakeJob
<1>5. CASE FindActive
  BY <1>1, <1>5 DEF FindActive, Step, Throw, Goto, Job
<1>6. CASE FindTarget
  BY <1>1, <1>6 DEF FindTarget, Step, Throw, Goto, Job
<1>7. CASE FindRelease \/ FindDeployment \/ Clone \/ StopRemoveAll \/ MarkReleaseFailed
  BY <1>1, <1>7 DEF FindRelease, FindDeployment, Clone, StopRemoveAll, MarkReleaseFailed, Step, Throw, Goto
<1>8. CASE Build \/ HealthChecking \/ RemoveByName \/ Probe
  BY <1>1, <1>8 DEF Build, HealthChecking, RemoveByName, Probe, Step, Throw, Goto, JobOK, StartBuild,
                    SetActive, CleanupImages
<1>9. CASE StartBuild
  BY <1>1, <1>9 DEF StartBuild, Step, Job
<1>10. CASE Create
  BY <1>1, <1>10 DEF Create, Step, Throw, Goto, Job, StartBuild, CleanupImages, SetActive
<1>11. CASE SetLive \/ SetActive \/ RemoveStale
  BY <1>1, <1>11 DEF SetLive, SetActive, RemoveStale, Step, Throw, Goto, StartBuild, CleanupImages, JobOK
<1>12. CASE SetRunning \/ Supersede \/ CleanupImages \/ StateAfterFailedDeploy \/ MarkActionFailed \/ SetStopped
  BY <1>1, <1>12 DEF SetRunning, Supersede, CleanupImages, StateAfterFailedDeploy, MarkActionFailed, SetStopped,
           Step, Goto, Finish, StartBuild, SetActive
<1>13. QED
  BY JobWriters, <1>2, <1>3, <1>4, <1>5, <1>6, <1>7, <1>8, <1>9, <1>10, <1>11, <1>12 DEF RunJob

\* With nothing dropped, the row of an existing release stays until its deployment goes.
LEMMA RowStays ==
  ASSUME Types, [Next]_vars, NothingDropped, state' # "gone", NEW r \in Releases, rel[r].status # "none"
  PROVE  /\ rel'[r].tag = rel[r].tag \/ (StartBuild /\ job.rel = r /\ rel'[r].tag = job'.tag)
         /\ \/ rel'[r].status = rel[r].status
            \/ job.rel = r /\ SetLive /\ rel'[r].status = "LIVE"
            \/ job.rel = r /\ (Clone \/ StartBuild \/ HealthChecking \/ MarkReleaseFailed)
            \/ Supersede /\ job.prior = r /\ job.rel # r
            \/ BootMark /\ rel[r].status \in InProgress
<1>1. RowMove(r)
  BY RowMoves
<1>2. ~\E c \in Callers : DeleteRow(c) \/ RemoveDeployment(c)
  BY StateMoves DEF DeleteRow, At, NothingDropped
<1>3. QED
  BY <1>1, <1>2 DEF RowMove

\* How the requests of deleteRelease go on.
LEMMA DropMoves ==
  ASSUME Types, [Next]_vars, NEW c \in Callers
  PROVE  /\ call'[c].at \in Dropping =>
              \/ call[c].at \in Dropping /\ call'[c].rel = call[c].rel
              \/ DeleteCheck(c) /\ call'[c].rel = call[c].rel /\ RowExists(call[c].rel)
         /\ call[c].at \in Dropping =>
              call'[c].at \in Dropping \/ DeleteRow(c) \/ Crash \/ Reboot
         /\ call'[c].at \in Deleting => call[c].at \in Deleting \/ DeleteRead(c)
<1> DEFINE P == /\ call'[c].at \in Dropping =>
                     \/ call[c].at \in Dropping /\ call'[c].rel = call[c].rel
                     \/ DeleteCheck(c) /\ call'[c].rel = call[c].rel /\ RowExists(call[c].rel)
                /\ call[c].at \in Dropping =>
                     call'[c].at \in Dropping \/ DeleteRow(c) \/ Crash \/ Reboot
                /\ call'[c].at \in Deleting => call[c].at \in Deleting \/ DeleteRead(c)
<1> USE DEF Dropping, Deleting
<1>1. call \in [Callers -> Call] /\ call[c] \in Call
  BY DEF Types, CallsOK
<1>2. CASE Crash \/ Reboot
  BY <1>2 DEF Crash, Reboot, ProcessGone, NoCall
<1>3. CASE UNCHANGED call
  BY <1>3
<1>4. ASSUME NEW d \in Callers, call' = [call EXCEPT ![d] = call'[d]], d # c PROVE P
  <2>1. call'[c] = call[c]
    BY <1>1, <1>4
  <2>2. QED
    BY <2>1
<1>5. ASSUME NEW d \in Callers, Request(d) PROVE P
  <2>1. UNCHANGED call \/ call' = [call EXCEPT ![d] = call'[d]]
    BY <1>1, <1>5 DEF Request, DeployRead, StartRead, RollbackRead, Stop, DeleteRead, TeardownList
  <2>2. UNCHANGED call \/ (call[d].at = "idle" /\ call'[d].at \in {"create", "mark", "teardown", "check"})
    BY <1>1, <1>5 DEF Request, DeployRead, StartRead, RollbackRead, Stop, DeleteRead, TeardownList, Asked, NoCall
  <2>3. UNCHANGED call \/ call'[d].at # "check" \/ DeleteRead(d)
    BY <1>1, <1>5 DEF Request, DeployRead, StartRead, RollbackRead, Stop, TeardownList, NoCall
  <2>4. QED
    BY <1>3, <1>4, <2>1, <2>2, <2>3
<1>6. ASSUME NEW d \in Callers, Continue(d) PROVE P
  <2>1. call' = [call EXCEPT ![d] = call'[d]]
    BY <1>1, <1>6 DEF Continue, DeployCreate, Mark, Enqueue, DeleteCheck, DeleteContainer, DeleteImage,
                      DeleteRow, TeardownContainers, RemoveDeployment
  <2>2. CASE d = c
    <3>1. CASE DeployCreate(c) \/ Mark(c) \/ Enqueue(c) \/ TeardownContainers(c) \/ RemoveDeployment(c) \/ DeleteRow(c)
      BY <1>1, <3>1 DEF DeployCreate, Mark, Enqueue, TeardownContainers, RemoveDeployment, DeleteRow, At, NoCall, Call
    <3>2. CASE DeleteCheck(c)
      BY <1>1, <3>2 DEF DeleteCheck, At, NoCall, Call
    <3>3. CASE DeleteContainer(c) \/ DeleteImage(c)
      BY <1>1, <3>3 DEF DeleteContainer, DeleteImage, At, Call
    <3>4. QED
      BY <1>6, <2>2, <3>1, <3>2, <3>3 DEF Continue
  <2>3. QED
    BY <1>4, <2>1, <2>2
<1>7. QED
  BY CallWriters, <1>2, <1>3, <1>5, <1>6

LEMMA StepDrop == Types /\ DropInv /\ [Next]_vars => DropInv'
<1> SUFFICES ASSUME Types, DropInv, [Next]_vars, NEW c \in Callers
             PROVE  /\ call'[c].at \in Dropping => call'[c].rel \in Releases /\ rel'[call'[c].rel].status # "none"
                    /\ "delete" \notin Ops => call'[c].at \notin Deleting
  BY DEF DropInv
<1>1. ASSUME call'[c].at \in Dropping PROVE call'[c].rel \in Releases /\ rel'[call'[c].rel].status # "none"
  <2>1. call[c] \in Call
    BY DEF Types, CallsOK
  <2>2. PICK r \in Releases : call'[c].rel = r /\ rel[r].status # "none"
    BY <1>1, <2>1, DropMoves DEF DropInv, RowExists, Call
  <2>3. rel'[r].status # "none"
    BY <2>2, RowFacts
  <2>4. QED
    BY <2>2, <2>3
<1>2. "delete" \notin Ops => call'[c].at \notin Deleting
  BY DropMoves DEF DropInv, DeleteRead, Asked
<1>3. QED
  BY <1>1, <1>2

\* Unless the process dies half-way, what deleteRelease has begun ends with a deleted row.
Traceable == "delete" \notin Ops \/ ("crash" \notin Ops /\ "reboot" \notin Ops)

LEMMA NothingDroppedBefore ==
  ASSUME Traceable, Types, DropInv, [Next]_vars, state' # "gone", NothingDropped'
  PROVE  state # "gone" /\ NothingDropped
<1>1. state # "gone" /\ ~\E c \in Callers : RemoveDeployment(c)
  BY StateMoves
<1>2. ASSUME NEW r \in Releases PROVE rel[r].status # "deleted"
  <2>1. rel'[r].status # "deleted"
    BY DEF NothingDropped
  <2>2. QED
    BY <2>1, RowMoves DEF RowMove, RowExists, InProgress
<1>3. ASSUME NEW c \in Callers PROVE call[c].at \notin Dropping
  <2>1. CASE "delete" \notin Ops
    BY <2>1 DEF DropInv, Dropping, Deleting
  <2>2. CASE ~Crash /\ ~Reboot /\ call[c].at \in Dropping
    <3>1. DeleteRow(c)
      BY <2>2, DropMoves DEF NothingDropped, Dropping
    <3>2. call[c].rel \in Releases /\ rel[call[c].rel].status # "none" /\ rel \in [Releases -> Row]
      BY <2>2 DEF DropInv, Types, RowsOK
    <3>3. RowExists(call[c].rel)
      BY <1>2, <3>2 DEF RowExists
    <3>4. rel'[call[c].rel].status = "deleted"
      BY <3>1, <3>2, <3>3 DEF DeleteRow, Updated, NoRow
    <3>5. QED
      BY <3>2, <3>4 DEF NothingDropped
  <2>3. QED
    BY <2>1, <2>2 DEF Traceable, Crash, Reboot, Fault
<1>4. QED
  BY <1>1, <1>2, <1>3 DEF NothingDropped, Dropping

LEMMA InitActive == Init => ActiveInv
BY DEF Init, ActiveInv, DropInv, NoCall, Deleting, Dropping, JobRowInv, Tagged, Imaged, Activated

LEMMA StepActive ==
  ASSUME Traceable, Types, PendingInv, ActiveInv, [Next]_vars
  PROVE  ActiveInv'
<1>1. DropInv'
  BY StepDrop DEF ActiveInv
<1>2. /\ rel \in [Releases -> Row] /\ call \in [Callers -> Call]
      /\ active \in Releases \cup {None} /\ active' \in Releases \cup {None}
  BY StepTypes DEF Types, RowsOK, CallsOK
<1>3. Holding => job.rel \in Releases /\ rel[job.rel].status # "none"
  BY DEF PendingInv, Types, JobOK, Holding, Named, Pcs, JobKinds, Launches
<1>4. pc \in Tagged => Holding
  BY DEF Tagged, Holding, Types, JobOK, Launches
<1>5. state' = "gone" => active' = None
  <2>1. CASE \E c \in Callers : RemoveDeployment(c)
    BY <2>1, StateMoves
  <2>2. CASE state = "gone"
    <3>1. active = None
      BY <2>2 DEF ActiveInv
    <3>2. QED
      BY <2>2, <3>1, ActiveMoves DEF SetActive
  <2>3. QED
    BY <2>1, <2>2, StateMoves
<1> SUFFICES ASSUME state' # "gone", NothingDropped'
             PROVE  /\ JobRowInv'
                    /\ pc' \in Imaged => job'.tag \in images'
                    /\ active' # None => rel'[active'].status = "LIVE" /\ rel'[active'].tag \in images'
  BY <1>1, <1>5 DEF ActiveInv
<1>6. state # "gone" /\ NothingDropped
  BY NothingDroppedBefore DEF ActiveInv
<1>7. /\ JobRowInv
      /\ pc \in Imaged => job.tag \in images
      /\ active # None => rel[active].status = "LIVE" /\ rel[active].tag \in images
  BY <1>6 DEF ActiveInv
\* What the running job knows of its release is in the row.
<1>8. JobRowInv'
  <2>2. \A r \in Releases : rel[r].status # "deleted"
    BY <1>6 DEF NothingDropped
  <2>3. Holding => RowExists(job.rel)
    BY <1>3, <2>2, NoneAssumption DEF RowExists
  <2>4. ASSUME pc' = "activate" PROVE rel'[job'.rel].status = "LIVE"
    <3>1. CASE SetLive /\ UNCHANGED job
      <4>1. Holding
        BY <1>4, <3>1 DEF SetLive, Step, Tagged
      <4>2. rel' = [rel EXCEPT ![job.rel] = [WithStatus(job.rel, "LIVE") EXCEPT !.cont = job.new]]
        BY <2>3, <3>1, <4>1 DEF SetLive, Updated
      <4>3. WithStatus(job.rel, "LIVE") = [rel[job.rel] EXCEPT !.status = "LIVE"] /\ rel[job.rel] \in Row
        BY <1>2, <1>3, <2>3, <4>1 DEF WithStatus
      <4>4. [WithStatus(job.rel, "LIVE") EXCEPT !.cont = job.new].status = "LIVE"
        BY <4>3 DEF Row
      <4>5. QED
        BY <1>2, <1>3, <3>1, <4>1, <4>2, <4>4
    <3>2. CASE pc = "activate" /\ UNCHANGED <<job, pc>>
      <4>1. Holding /\ rel[job.rel].status = "LIVE"
        BY <1>4, <1>7, <3>2 DEF Tagged, JobRowInv
      <4>2. ~SetLive /\ ~Clone /\ ~StartBuild /\ ~HealthChecking /\ ~MarkReleaseFailed /\ ~Supersede
        BY <3>2 DEF SetLive, Clone, StartBuild, HealthChecking, MarkReleaseFailed, Supersede, Step
      <4>3. rel'[job.rel].status = "LIVE"
        BY <1>3, <1>6, <4>1, <4>2, RowStays DEF InProgress
      <4>4. QED
        BY <3>2, <4>3
    <3>3. QED
      BY <2>4, <3>1, <3>2, PcMoves
  <2>5. ASSUME pc' \in Tagged PROVE rel'[job'.rel].tag = job'.tag
    <3>1. CASE StartBuild /\ job'.rel = job.rel
      <4>1. Holding /\ rel' = Updated(job.rel, rel'[job.rel])
        <5>1. Holding
          BY <3>1 DEF StartBuild, Step, Holding, Types, JobOK
        <5>2. QED
          BY <1>2, <1>3, <2>3, <3>1, <5>1 DEF StartBuild, Updated
      <4>2. PICK i \in Images : /\ job' = [job EXCEPT !.tag = i]
                                /\ rel' = Updated(job.rel, [WithStatus(job.rel, "BUILDING") EXCEPT !.tag = i])
        BY <3>1 DEF StartBuild
      <4>3. rel'[job.rel] = [WithStatus(job.rel, "BUILDING") EXCEPT !.tag = i]
        BY <1>2, <1>3, <2>3, <4>1, <4>2 DEF Updated
      <4>4. WithStatus(job.rel, "BUILDING") = [rel[job.rel] EXCEPT !.status = "BUILDING"] /\ rel[job.rel] \in Row
        BY <1>2, <1>3, <2>3, <4>1 DEF WithStatus
      <4>5. [WithStatus(job.rel, "BUILDING") EXCEPT !.tag = i].tag = i
        BY <4>4 DEF Row
      <4>6. job'.tag = i
        BY <4>2 DEF Types, JobOK, Job
      <4>7. QED
        BY <3>1, <4>3, <4>5, <4>6
    <3>2. CASE FindActive /\ job'.rel = active /\ job'.tag = rel[active].tag
      BY <3>2 DEF FindActive, db
    <3>3. CASE FindTarget /\ job'.rel = job.rel /\ job'.tag = rel[job.rel].tag
      BY <3>3 DEF FindTarget, db
    <3>4. CASE pc \in Tagged /\ job'.tag = job.tag /\ job'.rel = job.rel /\ ~StartBuild
      <4>1. Holding /\ rel[job.rel].tag = job.tag
        BY <1>4, <1>7, <3>4 DEF JobRowInv
      <4>2. rel'[job.rel].tag = rel[job.rel].tag
        BY <1>3, <1>6, <3>4, <4>1, RowStays
      <4>3. QED
        BY <3>4, <4>1, <4>2
    <3>5. QED
      BY <2>5, <3>1, <3>2, <3>3, <3>4, PcMoves
  <2>6. ASSUME Activated', job'.kind # "relaunch" PROVE active' = job'.rel
    <3>1. CASE SetActive /\ UNCHANGED job
      BY <1>6, <3>1 DEF SetActive
    <3>2. CASE Activated /\ UNCHANGED job /\ ~SetActive
      <4>1. active = job.rel
        BY <1>7, <2>6, <3>2 DEF JobRowInv
      <4>2. active' = active
        <5>1. ~\E c \in Callers : RemoveDeployment(c)
          BY StateMoves
        <5>2. QED
          BY <3>2, <5>1, RowWriters DEF db, DeployCreate, Mark, DeleteRow, Clone, StartBuild, HealthChecking,
             SetLive, SetRunning, Supersede, MarkReleaseFailed, StateAfterFailedDeploy, MarkActionFailed,
             SetStopped, BootMark, BootReconcile
      <4>3. QED
        BY <3>2, <4>1, <4>2
    <3>3. QED
      BY <2>6, <3>1, <3>2, PcMoves
  <2>7. QED
    BY <2>4, <2>5, <2>6 DEF JobRowInv
\* Images go by cleanupImages only.
<1>9. \A i \in images : i \in images' \/ CleanupImages
  <2>1. ~\E c \in Callers : DeleteImage(c)
    BY <1>6 DEF DeleteImage, At, NothingDropped
  <2>2. QED
    BY <2>1, HostWriters DEF host, DeleteContainer, TeardownContainers, Build, RemoveByName, Create, Probe,
       RemoveStale, StopRemoveAll, Reboot, Vanish
<1>10. pc' \in Imaged => job'.tag \in images'
  BY <1>7, <1>9, PcMoves
<1>11. ASSUME active' # None PROVE rel'[active'].status = "LIVE" /\ rel'[active'].tag \in images'
  <2>2. CASE active' # active
    <3>1. SetActive /\ active' = job.rel
      BY <1>11, <2>2, ActiveMoves
    <3>2. rel[job.rel].status = "LIVE" /\ rel[job.rel].tag = job.tag /\ job.tag \in images
      BY <1>7, <3>1 DEF SetActive, Step, JobRowInv, Tagged, Imaged
    <3>3. UNCHANGED <<rel, images>>
      BY <3>1 DEF SetActive, host
    <3>4. QED
      BY <3>1, <3>2, <3>3
  <2>3. CASE active' = active
    <3>1. active \in Releases /\ rel[active].status = "LIVE" /\ rel[active].tag \in images
      BY <1>2, <1>7, <1>11, <2>3
    \* A deploy that is not live yet is about another release; so is a superseded one.
    <3>2. Clone \/ StartBuild \/ HealthChecking \/ MarkReleaseFailed => job.rel # active
      BY DEF Clone, StartBuild, HealthChecking, MarkReleaseFailed, Step, PendingInv, BeforeLive, Types, JobOK
    <3>3. Supersede => job.rel = active
      BY <1>7 DEF Supersede, Step, Types, JobOK, JobRowInv, Activated
    <3>4. rel'[active].status = "LIVE" /\ rel'[active].tag = rel[active].tag
      BY <1>6, <3>1, <3>2, <3>3, RowStays DEF InProgress
    <3>5. CASE CleanupImages
      <4>1. pc = "cleanup" /\ job.kind = "deploy"
        BY <3>5 DEF CleanupImages, Step, Types, JobOK
      <4>2. active = job.rel /\ rel[job.rel].tag = job.tag /\ job.tag \in images
        BY <1>7, <4>1 DEF JobRowInv, Activated, Tagged, Imaged
      <4>3. job.tag \in images'
        BY <3>5, <4>2 DEF CleanupImages
      <4>4. QED
        BY <2>3, <3>4, <4>2, <4>3
    <3>6. CASE ~CleanupImages
      BY <1>9, <2>3, <3>1, <3>4, <3>6
    <3>7. QED
      BY <3>5, <3>6
  <2>4. QED
    BY <2>2, <2>3
<1>12. QED
  BY <1>8, <1>10, <1>11

\* The active release is a LIVE one and its image is kept, also between the two writes of a
\* cut-over, after a crash between them, and whatever cleanupImages removes: as long as
\* deleteRelease has removed nothing, and unless a crash hides that it had begun to.
THEOREM ActiveReleaseKept ==
  ASSUME "delete" \notin Ops \/ ("crash" \notin Ops /\ "reboot" \notin Ops)
  PROVE  Spec => []ActiveKept
<1>1. Init => ActiveInv
  BY InitActive
<1>2. Types /\ PendingInv /\ ActiveInv /\ [Next]_vars => ActiveInv'
  BY StepActive DEF Traceable
<1>3. ActiveInv => ActiveKept
  BY DEF ActiveInv, ActiveKept, ActiveIsLive, ActiveImageKept
<1>4. QED
  BY <1>1, <1>2, <1>3, PendingHolds, PTL DEF Spec

(***************************************************************************)
(* GreenBeforeBlue, when nothing is deleted beside the queue.               *)
(***************************************************************************)
LEMMA InitNew == Init => NewInv
BY DEF Init, NewInv, NothingDeleted, NoCall, Deleting, TearingDown, Launched

\* The container of the running job is the one it created.
LEMMA NewMoves ==
  ASSUME Types, [Next]_vars
  PROVE  /\ pc' = "probe" => Create \/ UNCHANGED <<job, pc>>
         /\ Launched' => (Probe /\ UNCHANGED job) \/ (Launched /\ UNCHANGED job)
<1> USE DEF Launched
<1>1. JobOK
  BY DEF Types
<1>2. CASE UNCHANGED <<job, pc>>
  BY <1>2
<1>3. CASE Crash \/ Reboot
  BY <1>3 DEF Crash, Reboot, ProcessGone
<1>4. CASE TakeJob \/ FindActive \/ FindTarget \/ FindRelease \/ FindDeployment \/ Clone \/ StartBuild \/ Build
           \/ HealthChecking \/ RemoveByName \/ Create \/ Probe \/ StopRemoveAll \/ MarkReleaseFailed
  BY <1>4 DEF TakeJob, FindActive, FindTarget, FindRelease, FindDeployment, Clone, StartBuild, Build,
              HealthChecking, RemoveByName, Create, Probe, StopRemoveAll, MarkReleaseFailed, Throw, Goto
<1>5. CASE SetLive \/ SetActive \/ SetRunning \/ RemoveStale \/ Supersede \/ CleanupImages
           \/ StateAfterFailedDeploy \/ MarkActionFailed \/ SetStopped
  BY <1>5 DEF SetLive, SetActive, SetRunning, RemoveStale, Supersede, CleanupImages,
              StateAfterFailedDeploy, MarkActionFailed, SetStopped, Step, Goto, Finish
<1>6. QED
  BY JobWriters, <1>2, <1>3, <1>4, <1>5 DEF RunJob

LEMMA NothingDeletedStays ==
  ASSUME "delete" \notin Ops, "teardown" \notin Ops, Types, NothingDeleted, [Next]_vars
  PROVE  NothingDeleted'
<1> USE DEF Deleting, TearingDown
<1>1. call \in [Callers -> Call] /\ \A c \in Callers : call[c].at \notin Deleting \cup TearingDown
  BY DEF Types, CallsOK, NothingDeleted
<1>2. CASE Crash \/ Reboot
  BY <1>2 DEF Crash, Reboot, ProcessGone, NoCall, NothingDeleted
<1>3. CASE UNCHANGED call
  BY <1>1, <1>3 DEF NothingDeleted
<1>4. ASSUME NEW c \in Callers, Request(c) PROVE NothingDeleted'
  <2>1. UNCHANGED call \/ (call' = [call EXCEPT ![c] = call'[c]] /\ call'[c].at \in {"create", "mark"})
    BY <1>1, <1>4 DEF Request, DeployRead, StartRead, RollbackRead, Stop, DeleteRead, TeardownList, NoCall, Asked
  <2>2. QED
    BY <1>1, <2>1 DEF NothingDeleted
<1>5. ASSUME NEW c \in Callers, Continue(c) PROVE NothingDeleted'
  <2>1. DeployCreate(c) \/ Mark(c) \/ Enqueue(c)
    BY <1>1, <1>5 DEF Continue, DeleteCheck, DeleteContainer, DeleteImage, DeleteRow, TeardownContainers,
                      RemoveDeployment, At
  <2>2. call' = [call EXCEPT ![c] = call'[c]] /\ call'[c].at \in {"idle", "mark", "enqueue"}
    BY <1>1, <2>1 DEF DeployCreate, Mark, Enqueue, NoCall, Call
  <2>3. QED
    BY <1>1, <2>2 DEF NothingDeleted
<1>6. QED
  BY CallWriters, <1>2, <1>3, <1>4, <1>5

\* Then only jobs, reboots and an operator while the backend is down change containers.
LEMMA ConWriters ==
  ASSUME Types, NothingDeleted, [Next]_vars
  PROVE  \/ UNCHANGED con
         \/ RemoveByName \/ Create \/ Probe \/ RemoveStale \/ StopRemoveAll \/ Reboot \/ Vanish
BY HostWriters DEF host, NothingDeleted, Deleting, TearingDown, DeleteContainer, DeleteImage, TeardownContainers,
   At, Build, CleanupImages

LEMMA StepNew ==
  ASSUME "delete" \notin Ops, "teardown" \notin Ops, Types, NewInv, [Next]_vars
  PROVE  NewInv'
<1>1. con \in [Containers -> Container] /\ HostOK /\ NothingDeleted
  BY DEF Types, HostOK, NewInv
<1>2. NothingDeleted'
  BY <1>1, NothingDeletedStays
<1>3. ASSUME pc' = "probe"
      PROVE  job'.new \in Containers /\ con'[job'.new] = [st |-> "starting", rel |-> job'.rel]
  <2>1. CASE Create
    <3>1. PICK c \in Fresh : /\ con' = [con EXCEPT ![c] = [st |-> "starting", rel |-> job.rel]]
                             /\ job' = [job EXCEPT !.new = c]
      BY <1>3, <2>1 DEF Create, Throw, Goto
    <3>2. c \in Containers /\ job'.new = c /\ job'.rel = job.rel
      BY <3>1 DEF Fresh, Types, JobOK, Job
    <3>3. QED
      BY <1>1, <3>1, <3>2
  <2>2. CASE UNCHANGED <<job, pc>> /\ ~Create
    <3>1. UNCHANGED con
      BY <1>1, <1>3, <2>2, ConWriters DEF RemoveByName, Probe, RemoveStale, StopRemoveAll, Reboot, Vanish,
         ProcessGone, Step, Types, ProcOK, Goto, Throw
    <3>2. QED
      BY <1>3, <2>2, <3>1 DEF NewInv
  <2>3. QED
    BY <1>3, <2>1, <2>2, NewMoves
<1>4. ASSUME Launched'
      PROVE  job'.new \in Containers /\ con'[job'.new] = [st |-> "healthy", rel |-> job'.rel]
  <2>1. CASE Probe /\ UNCHANGED job
    <3>1. con[job.new] = [st |-> "starting", rel |-> job.rel] /\ job.new \in Containers
      BY <2>1 DEF Probe, Step, NewInv
    <3>2. con' = [con EXCEPT ![job.new].st = "healthy"]
      BY <1>4, <2>1 DEF Probe, Launched, Throw, Goto
    <3>3. QED
      BY <1>1, <2>1, <3>1, <3>2
  <2>2. CASE Launched /\ UNCHANGED job
    <3>1. job.new \in Containers /\ con[job.new] = [st |-> "healthy", rel |-> job.rel]
      BY <2>2 DEF NewInv
    <3>2. con'[job.new] = con[job.new]
      <4>1. CASE RemoveStale
        <5>1. UNCHANGED con \/ \E c \in Containers : c # job.new /\ con' = Removed({c})
          BY <4>1 DEF RemoveStale, Present
        <5>2. \A c \in Containers : c # job.new => Removed({c})[job.new] = con[job.new]
          BY <1>1, <3>1 DEF Removed
        <5>3. QED
          BY <5>1, <5>2
      <4>2. CASE ~RemoveStale
        BY <1>1, <1>4, <2>2, <4>2, ConWriters DEF RemoveByName, Create, Probe, StopRemoveAll, Reboot, Vanish,
           ProcessGone, Step, Types, ProcOK, Launched
      <4>3. QED
        BY <4>1, <4>2
    <3>3. QED
      BY <2>2, <3>1, <3>2
  <2>3. QED
    BY <1>4, <2>1, <2>2, NewMoves
<1>5. QED
  BY <1>2, <1>3, <1>4 DEF NewInv

LEMMA DeployStep ==
  ASSUME Types, PendingInv, NewInv, [Next]_vars, JobStep, job.kind = "deploy", Serving
  PROVE  Serving'
<1>1. con \in [Containers -> Container] /\ HostOK /\ NothingDeleted
  BY DEF Types, HostOK, NewInv
<1>2. PICK k \in Containers : con[k].st = "healthy"
  BY DEF Serving
<1>3. CASE UNCHANGED con
  BY <1>2, <1>3 DEF Serving
\* Nothing of this release is there before its container is created.
<1>4. CASE RemoveByName
  <2>1. con[k].rel # job.rel
    BY <1>4 DEF RemoveByName, Step, PendingInv, BeforeLive
  <2>2. con'[k] = con[k]
    BY <1>1, <1>4, <2>1, RemovedOne DEF RemoveByName
  <2>3. QED
    BY <1>2, <2>2 DEF Serving
<1>5. CASE Create
  BY <1>1, <1>2, <1>5 DEF Create, Fresh, Serving
\* The container whose health gate fails was not the one that served.
<1>6. CASE Probe
  <2>1. job.new \in Containers /\ con[job.new].st = "starting"
    BY <1>6 DEF Probe, Step, NewInv
  <2>2. con'[k] = con[k]
    BY <1>1, <1>2, <1>6, <2>1, RemovedOne DEF Probe
  <2>3. QED
    BY <1>2, <2>2 DEF Serving
\* The old containers go once the new one is healthy.
<1>7. CASE RemoveStale
  <2>1. job.new \in Containers /\ con[job.new].st = "healthy"
    BY <1>7 DEF RemoveStale, Step, NewInv, Launched
  <2>2. con'[job.new] = con[job.new]
    <3>1. UNCHANGED con \/ \E c \in Containers : c # job.new /\ con' = Removed({c})
      BY <1>7 DEF RemoveStale, Present
    <3>2. \A c \in Containers : c # job.new => Removed({c})[job.new] = con[job.new]
      BY <1>1, <2>1 DEF Removed
    <3>3. QED
      BY <3>1, <3>2
  <2>3. QED
    BY <2>1, <2>2 DEF Serving
<1>8. CASE StopRemoveAll
  BY <1>8 DEF StopRemoveAll, Step, Types, JobOK
<1>9. CASE Reboot \/ Vanish
  BY <1>9 DEF Reboot, Vanish, ProcessGone, JobStep, Types, ProcOK
<1>10. QED
  BY <1>1, <1>3, <1>4, <1>5, <1>6, <1>7, <1>8, <1>9, ConWriters

LEMMA CutoverStep ==
  ASSUME Types, NewInv, [Next]_vars, active' # active, active' # None
  PROVE  \E c \in Containers : con[c].st = "healthy" /\ con[c].rel = active'
<1>1. SetActive /\ active' = job.rel
  BY ActiveMoves
<1>2. job.new \in Containers /\ con[job.new] = [st |-> "healthy", rel |-> job.rel]
  BY <1>1 DEF SetActive, Step, NewInv, Launched
<1>3. QED
  BY <1>1, <1>2

LEMMA NewHolds ==
  ASSUME "delete" \notin Ops, "teardown" \notin Ops
  PROVE  Spec => []NewInv
<1>1. Init => NewInv
  BY InitNew
<1>2. Types /\ NewInv /\ [Next]_vars => NewInv'
  BY StepNew
<1>3. QED
  BY <1>1, <1>2, TypesHold, PTL DEF Spec

\* A deploy is a blue/green swap, with crashes, reboots and operators at the host: no step
\* of it takes the last healthy container away, and only a release whose container
\* passed its health gate becomes the active one.  (deleteRelease and the deletion of the
\* deployment do remove containers beside the queue.)
THEOREM BlueGreen ==
  ASSUME "delete" \notin Ops, "teardown" \notin Ops
  PROVE  Spec => GreenBeforeBlue
<1>1. Types /\ PendingInv /\ NewInv /\ [Next]_vars =>
        [JobStep /\ job.kind = "deploy" /\ Serving => Serving']_vars
  BY DeployStep
<1>2. Types /\ PendingInv /\ NewInv /\ [Next]_vars =>
        [active' # active /\ active' # None =>
           \E c \in Containers : con[c].st = "healthy" /\ con[c].rel = active']_vars
  BY CutoverStep
<1>3. Spec => DeployKeepsServing
  BY <1>1, PendingHolds, NewHolds, PTL DEF Spec, DeployKeepsServing
<1>4. Spec => CutoverToHealthy
  BY <1>2, PendingHolds, NewHolds, PTL DEF Spec, CutoverToHealthy
<1>5. QED
  BY <1>3, <1>4 DEF GreenBeforeBlue

(***************************************************************************)
(* SwapInv, when the backend and the host do not fail either.               *)
(***************************************************************************)
LEMMA InitRest == Init => RestInv
BY DEF Init, RestInv, NoJob, Activated, Alone

LEMMA StepRest ==
  ASSUME Ops \cap {"delete", "teardown", "crash", "reboot", "vanish"} = {},
         Types, NewInv, RestInv, [Next]_vars
  PROVE  RestInv'
<1> USE DEF Activated, Alone
<1>1. /\ con \in [Containers -> Container] /\ HostOK /\ NothingDeleted
      /\ JobOK /\ job \in Job /\ Types'
  BY StepTypes DEF Types, HostOK, NewInv, JobOK
<1>2. ~Crash /\ ~Reboot /\ ~Vanish /\ ~Boot /\ ~\E c \in Callers : RemoveDeployment(c)
  BY <1>1 DEF Crash, Reboot, Vanish, Fault, Boot, BootMark, BootUnrepaired, BootReconcile, RestInv,
              RemoveDeployment, At, NothingDeleted, TearingDown
<1>3. state' # "gone"
  BY <1>2, StateMoves DEF RestInv
<1>4. proc' = "up"
  <2>1. UNCHANGED proc
    BY <1>2 DEF Next, Request, Continue, RunJob, vars,
                      DeployRead, StartRead, RollbackRead, Stop, DeleteRead, TeardownList,
                      DeployCreate, Mark, Enqueue, DeleteCheck, DeleteContainer, DeleteImage, DeleteRow,
                      TeardownContainers, RemoveDeployment,
                      TakeJob, FindRelease, FindActive, FindTarget, FindDeployment, Clone, StartBuild, Build,
                      HealthChecking, RemoveByName, Create, Probe, SetLive, SetActive, SetRunning, RemoveStale,
                      Supersede, CleanupImages, MarkReleaseFailed, StateAfterFailedDeploy, MarkActionFailed,
                      StopRemoveAll, SetStopped, Step
  <2>2. QED
    BY <2>1 DEF RestInv
\* Requests: only Mark writes the deployment's row.
<1>5. CASE ~RunJob
  <2> UNCHANGED <<job, pc>>
    BY JobWriters, <1>2, <1>5
  <2>1. UNCHANGED con
    BY <1>1, <1>2, <1>5, ConWriters DEF RunJob
  <2>2. UNCHANGED Present
    BY <2>1 DEF Present
  <2>3. active' = active
    BY <1>2, <1>5, RowWriters DEF db, DeployCreate, Mark, DeleteRow, RemoveDeployment, Clone, StartBuild,
       HealthChecking, SetLive, SetActive, SetRunning, Supersede, MarkReleaseFailed, StateAfterFailedDeploy,
       MarkActionFailed, SetStopped, Boot, RunJob
  <2>4. state' = state \/ state' = "DEPLOYING"
    BY <1>2, <1>5, RowWriters DEF db, DeployCreate, Mark, StateSetTo, DeleteRow, RemoveDeployment, Clone, StartBuild,
       HealthChecking, SetLive, SetActive, SetRunning, Supersede, MarkReleaseFailed, StateAfterFailedDeploy,
       MarkActionFailed, SetStopped, Boot, RunJob, RestInv
  <2>5. QED
    BY <1>3, <1>4, <1>5, <2>1, <2>2, <2>3, <2>4 DEF RestInv, ServedOnly
<1>6. CASE RunJob
  \* The container of a launched job is present, and alone once it has removed the others.
  <2>1. Launched => job.new \in Present
    BY DEF NewInv, Present
  <2>2. UNCHANGED con => UNCHANGED Present
    BY DEF Present
  <2>3. CASE TakeJob \/ FindRelease \/ FindTarget \/ FindDeployment \/ Clone \/ Build \/ HealthChecking
             \/ RemoveByName \/ MarkReleaseFailed
    BY <1>1, <1>3, <1>4, <2>3 DEF TakeJob, FindRelease, FindTarget, FindDeployment, Clone, Build, HealthChecking,
       RemoveByName, MarkReleaseFailed, Step, Goto, Throw, db, RestInv, Job, JobOK
  <2>4. CASE FindActive \/ StartBuild \/ Create
    BY <1>1, <1>3, <1>4, <2>4 DEF FindActive, StartBuild, Create, Step, Goto, Throw, db, RestInv, Job, JobOK
  <2>5. CASE Probe
    BY <1>1, <1>3, <1>4, <2>5 DEF Probe, Step, Goto, Throw, db, RestInv, JobOK
  <2>6. CASE SetLive
    BY <1>1, <1>3, <1>4, <2>2, <2>6 DEF SetLive, Step, Goto, host, RestInv, JobOK
  <2>7. CASE SetActive
    BY <1>1, <1>3, <1>4, <2>2, <2>7 DEF SetActive, Step, Goto, host, RestInv, JobOK
  <2>8. CASE SetRunning
    <3>1. con[job.new] = [st |-> "healthy", rel |-> job.rel] /\ job.new \in Containers /\ UNCHANGED con
      BY <2>8 DEF SetRunning, Step, NewInv, Launched, host
    <3>2. CASE job.kind = "relaunch"
      <4>1. ServedOnly(active)'
        BY <2>2, <2>8, <3>1, <3>2 DEF SetRunning, Step, RestInv, ServedOnly
      <4>2. QED
        BY <1>3, <1>4, <2>8, <3>2, <4>1 DEF SetRunning, Step, Finish, NoJob, RestInv, StateSetTo
    <3>3. CASE job.kind # "relaunch"
      BY <1>1, <1>3, <1>4, <2>2, <2>8, <3>1, <3>3 DEF SetRunning, Step, Goto, RestInv, StateSetTo
    <3>4. QED
      BY <3>2, <3>3
  <2>9. CASE RemoveStale
    <3>1. Present \subseteq {job.new} => Present = {job.new}
      BY <2>1, <2>9 DEF RemoveStale, Step, Launched
    <3>2. QED
      BY <1>1, <1>3, <1>4, <2>2, <2>9, <3>1 DEF RemoveStale, Step, Goto, db, RestInv, JobOK
  <2>10. CASE Supersede \/ CleanupImages
    <3>1. con[job.new] = [st |-> "healthy", rel |-> job.rel] /\ job.new \in Containers /\ UNCHANGED con
      BY <2>10 DEF Supersede, CleanupImages, Step, NewInv, Launched, host
    <3>2. ServedOnly(active)' /\ state # "STOPPED" /\ UNCHANGED <<state, active>> /\ active = job.rel
      BY <2>2, <2>10, <3>1 DEF Supersede, CleanupImages, Step, RestInv, ServedOnly, db
    <3>3. QED
      BY <1>1, <1>3, <1>4, <2>2, <2>10, <3>1, <3>2 DEF Supersede, CleanupImages, Step, Goto, Finish, NoJob, RestInv
  <2>11. CASE StateAfterFailedDeploy \/ MarkActionFailed
    BY <1>3, <1>4, <2>11 DEF StateAfterFailedDeploy, MarkActionFailed, StateSetTo, Step, Finish, NoJob, RestInv
  <2>12. CASE StopRemoveAll
    BY <1>1, <1>3, <1>4, <2>2, <2>12 DEF StopRemoveAll, Step, Goto, db, RestInv, JobOK
  <2>13. CASE SetStopped
    BY <1>3, <1>4, <2>2, <2>13 DEF SetStopped, StateSetTo, Step, Finish, NoJob, RestInv, host
  <2>14. QED
    BY <1>6, <2>3, <2>4, <2>5, <2>6, <2>7, <2>8, <2>9, <2>10, <2>11, <2>12, <2>13 DEF RunJob
<1>7. QED
  BY <1>5, <1>6

\* Without failures of the backend or the host and without deletions, whatever deploys,
\* restarts, rollbacks and stops are queued and whatever fails in them: when nothing is
\* under way, RUNNING means that the active release serves from the only container left,
\* and STOPPED that none is left.
THEOREM Swap ==
  ASSUME Ops \cap {"delete", "teardown", "crash", "reboot", "vanish"} = {}
  PROVE  Spec => []SwapInv
<1>1. Init => RestInv
  BY InitRest
<1>2. Types /\ NewInv /\ RestInv /\ [Next]_vars => RestInv'
  BY StepRest
<1>3. TypeOK /\ RestInv => SwapInv
  <2> SUFFICES ASSUME TypeOK, RestInv PROVE SwapInv
    OBVIOUS
  <2>1. Idle /\ state = "RUNNING" => ServedOnly(active)
    BY DEF Idle, RestInv
  <2>2. RunningMeansServing
    BY <2>1 DEF RunningMeansServing, ServedOnly
  <2>3. \A k : Cardinality({k}) = 1
    BY FS_Singleton
  <2>4. NoLeftovers
    BY <2>1, <2>3 DEF NoLeftovers, ServedOnly
  <2>5. StoppedMeansDown
    BY DEF StoppedMeansDown, Idle, RestInv
  <2>6. QED
    BY <2>2, <2>4, <2>5 DEF SwapInv, NothingLeftOver
<1>4. "delete" \notin Ops /\ "teardown" \notin Ops
  OBVIOUS
<1>5. Spec => []NewInv
  BY <1>4, NewHolds
<1>6. QED
  BY <1>1, <1>2, <1>3, <1>5, TypesHold, TypeCorrect, PTL DEF Spec

=============================================================================
