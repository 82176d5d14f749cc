-------------------------- MODULE ReleaseLifecycle --------------------------
(***************************************************************************)
(* The life of one single-container deployment (strategy DOCKERFILE, types  *)
(* WEB and WORKER): requests to BuildOrchestrator, the jobs ReleaseRunner   *)
(* runs for them one at a time (module BuildQueue), the rows in Postgres,   *)
(* the containers and images on the Docker host, and the boot-time repair   *)
(* of ReconcileService.  An IMAGE deployment behaves the same, except that  *)
(* it skips Clone and its images are not cleaned up.                        *)
(*                                                                         *)
(* Every await of the code that reads or writes shared state is a step of   *)
(* its own, so a request, the running job, a crash and an operator at the   *)
(* host interleave as they do in the program.  A request works on the row   *)
(* it read when it began: deploy hands that snapshot to its queued job.     *)
(***************************************************************************)
EXTENDS Naturals, Sequences, FiniteSets

CONSTANTS
  Releases,      \* ids of the releases rows that can be inserted
  Images,        \* image tags a build can produce (one per commit)
  Containers,    \* ids the Docker daemon hands out, never twice
  Callers,       \* HTTP requests that can be in flight at the same time
  Ops,           \* which operations and faults this instance exercises
  MaxCalls,      \* bound: requests issued
  MaxFaults,     \* bound: crashes, reboots and removals behind Willy's back
  KeepImages,    \* KEEP_IMAGES of image-builder.service.ts
  None

ASSUME NoneAssumption == None \notin Releases \cup Images \cup Containers
ASSUME BoundsAssumption == MaxCalls \in Nat /\ MaxFaults \in Nat /\ KeepImages \in Nat

VARIABLES
  state,     \* deployments.state, or "gone" once the row is deleted
  active,    \* deployments.active_release_id
  rel,       \* the releases rows: status, imageTag, containerId
  con,       \* the labelled containers: run state and the release in their name
  images,    \* image tags present on the host
  proc,      \* the backend: down, booting (reconcile), up, or up without the repair
  queue,     \* jobs enqueued for this deployment and not started
  job,       \* the job being run, with the locals of its function
  pc,        \* the next await of that function
  call,      \* per request in flight, where it is and what it has read
  issued,    \* requests issued so far
  faults     \* faults so far

db == <<state, active, rel>>
host == <<con, images>>
runner == <<queue, job, pc>>
bounds == <<issued, faults>>
vars == <<state, active, rel, con, images, proc, queue, job, pc, call, issued, faults>>

States == {"CREATED", "DEPLOYING", "RUNNING", "DEGRADED", "ERROR", "STOPPED", "gone"}
InProgress == {"QUEUED", "CLONING", "BUILDING", "HEALTHCHECKING"}
Settled == {"LIVE", "FAILED", "SUPERSEDED", "INTERRUPTED"}
Statuses == {"none", "deleted"} \cup InProgress \cup Settled

NoRow == [status |-> "none", tag |-> None, cont |-> None]
NoJob == [kind |-> "none", rel |-> None, prior |-> None, tag |-> None, new |-> None]
NoCall == [at |-> "idle", kind |-> "none", rel |-> None, prior |-> None, read |-> None]

Row == [status : Statuses, tag : Images \cup {None}, cont : Containers \cup {None}]
Job == [kind : {"none", "deploy", "relaunch", "rollback", "stop"},
        rel : Releases \cup {None}, prior : Releases \cup {None},
        tag : Images \cup {None}, new : Containers \cup {None}]

TypeOK ==
  /\ state \in States
  /\ active \in Releases \cup {None}
  /\ rel \in [Releases -> Row]
  /\ con \in [Containers ->
               [st : {"absent", "created", "starting", "healthy", "stopped", "removed"},
                rel : Releases \cup {None}]]
  /\ images \in SUBSET Images
  /\ proc \in {"down", "booting", "up", "unrepaired"}
  /\ queue \in Seq(Job)
  /\ job \in Job
  /\ issued \in 0..MaxCalls /\ faults \in 0..MaxFaults

Init ==
  /\ state = "CREATED" /\ active = None
  /\ rel = [r \in Releases |-> NoRow]
  /\ con = [c \in Containers |-> [st |-> "absent", rel |-> None]]
  /\ images = {}
  /\ proc = "up"
  /\ queue = <<>> /\ job = NoJob /\ pc = "idle"
  /\ call = [c \in Callers |-> NoCall]
  /\ issued = 0 /\ faults = 0

-----------------------------------------------------------------------------
(***************************************************************************)
(* Rows and containers.  An UPDATE whose WHERE finds no row changes nothing.*)
(***************************************************************************)
RowExists(r) == r # None /\ rel[r].status \notin {"none", "deleted"}
StateSetTo(s) == IF state = "gone" THEN state ELSE s
Updated(r, row) == IF RowExists(r) THEN [rel EXCEPT ![r] = row] ELSE rel
WithStatus(r, s) == IF RowExists(r) THEN [rel[r] EXCEPT !.status = s] ELSE NoRow

\* listByLabel asks for all containers: created and stopped ones count.
Present == {c \in Containers : con[c].st \notin {"absent", "removed"}}
Fresh == {c \in Containers : con[c].st = "absent"}
Serving == \E c \in Containers : con[c].st = "healthy"

\* stopAndRemove never throws: a container that is already gone is only logged.
Removed(S) == [c \in Containers |->
                 IF c \in S /\ c \in Present THEN [con[c] EXCEPT !.st = "removed"] ELSE con[c]]

-----------------------------------------------------------------------------
(***************************************************************************)
(* Requests: BuildOrchestrator.                                             *)
(***************************************************************************)
\* Requests are served and jobs run.
Accepting == proc \in {"up", "unrepaired"}

\* requireDeployment: the row is there when a request of this kind begins.
Asked(c, kind) ==
  /\ Accepting /\ state # "gone"
  /\ kind \in Ops
  /\ call[c].at = "idle"
  /\ issued < MaxCalls /\ issued' = issued + 1
  /\ UNCHANGED faults

At(c, step) == Accepting /\ call[c].at = step /\ UNCHANGED bounds

\* deploy reads the deployment row: this is the snapshot its job will use.
DeployRead(c) ==
  /\ Asked(c, "deploy")
  /\ call' = [call EXCEPT ![c] = [NoCall EXCEPT !.at = "create", !.kind = "deploy", !.prior = active]]
  /\ UNCHANGED <<db, host, proc, runner>>

\* releases.create; the insert fails on the foreign key once the deployment is gone.
DeployCreate(c) ==
  /\ At(c, "create")
  /\ \/ /\ state # "gone"
        /\ \E r \in Releases :
             /\ rel[r].status = "none"
             /\ rel' = [rel EXCEPT ![r].status = "QUEUED"]
             /\ call' = [call EXCEPT ![c].at = "mark", ![c].rel = r]
     \/ /\ state = "gone"
        /\ call' = [call EXCEPT ![c] = NoCall]
        /\ UNCHANGED rel
  /\ UNCHANGED <<state, active, host, proc, runner>>

\* start and restart: refused without an active release.
StartRead(c) ==
  /\ Asked(c, "relaunch")
  /\ active # None
  /\ call' = [call EXCEPT ![c] = [NoCall EXCEPT !.at = "mark", !.kind = "relaunch"]]
  /\ UNCHANGED <<db, host, proc, runner>>

\* rollback: refused unless the release has an image tag, whatever its status.
RollbackRead(c) ==
  /\ Asked(c, "rollback")
  /\ \E r \in Releases :
       /\ RowExists(r) /\ rel[r].tag # None
       /\ call' = [call EXCEPT ![c] = [NoCall EXCEPT !.at = "mark", !.kind = "rollback", !.rel = r]]
  /\ UNCHANGED <<db, host, proc, runner>>

\* deploy, start and rollback show DEPLOYING before the job runs.
Mark(c) ==
  /\ At(c, "mark")
  /\ state' = StateSetTo("DEPLOYING")
  /\ call' = [call EXCEPT ![c].at = "enqueue"]
  /\ UNCHANGED <<active, rel, host, proc, runner>>

EnqueueJob(kind, r, prior) ==
  queue' = Append(queue, [NoJob EXCEPT !.kind = kind, !.rel = r, !.prior = prior])

Enqueue(c) ==
  /\ At(c, "enqueue")
  /\ EnqueueJob(call[c].kind, call[c].rel, call[c].prior)
  /\ call' = [call EXCEPT ![c] = NoCall]
  /\ UNCHANGED <<db, host, proc, job, pc>>

\* stop changes nothing before its job runs.
Stop(c) ==
  /\ Asked(c, "stop")
  /\ EnqueueJob("stop", None, None)
  /\ UNCHANGED <<db, host, proc, job, pc, call>>

(***************************************************************************)
(* deleteRelease and the deletion of a deployment run in the request, beside *)
(* the queue.                                                               *)
(***************************************************************************)
DeleteRead(c) ==
  /\ Asked(c, "delete")
  /\ \E r \in Releases :
       /\ RowExists(r)
       /\ call' = [call EXCEPT ![c] =
                     [NoCall EXCEPT !.at = "check", !.kind = "delete", !.rel = r, !.prior = active]]
  /\ UNCHANGED <<db, host, proc, runner>>

\* The release row is read after the deployment row it is compared with.
DeleteCheck(c) ==
  LET r == call[c].rel IN
  /\ At(c, "check")
  /\ call' = [call EXCEPT ![c] =
                IF RowExists(r) /\ call[c].prior # r
                THEN [call[c] EXCEPT !.at = "dropContainer", !.read = rel[r]]
                ELSE NoCall]
  /\ UNCHANGED <<db, host, proc, runner>>

DeleteContainer(c) ==
  /\ At(c, "dropContainer")
  /\ con' = Removed({call[c].read.cont})
  /\ call' = [call EXCEPT ![c].at = "dropImage"]
  /\ UNCHANGED <<db, images, proc, runner>>

\* Forced: the tag goes even while a container or another release uses it.
DeleteImage(c) ==
  /\ At(c, "dropImage")
  /\ images' = images \ {call[c].read.tag}
  /\ call' = [call EXCEPT ![c].at = "dropRow"]
  /\ UNCHANGED <<db, con, proc, runner>>

DeleteRow(c) ==
  /\ At(c, "dropRow")
  /\ rel' = Updated(call[c].rel, [NoRow EXCEPT !.status = "deleted"])
  /\ call' = [call EXCEPT ![c] = NoCall]
  /\ UNCHANGED <<state, active, host, proc, runner>>

\* DELETE /deployments/:id: teardown lists the containers, removes those, then
\* the row goes and cascades to its releases.
TeardownList(c) ==
  /\ Asked(c, "teardown")
  /\ call' = [call EXCEPT ![c] =
                [NoCall EXCEPT !.at = "teardown", !.kind = "teardown", !.read = Present]]
  /\ UNCHANGED <<db, host, proc, runner>>

TeardownContainers(c) ==
  /\ At(c, "teardown")
  /\ con' = Removed(call[c].read)
  /\ call' = [call EXCEPT ![c].at = "removeRow", ![c].read = None]
  /\ UNCHANGED <<db, images, proc, runner>>

RemoveDeployment(c) ==
  /\ At(c, "removeRow")
  /\ state' = "gone" /\ active' = None
  /\ rel' = [r \in Releases |->
               IF RowExists(r) THEN [NoRow EXCEPT !.status = "deleted"] ELSE rel[r]]
  /\ call' = [call EXCEPT ![c] = NoCall]
  /\ UNCHANGED <<host, proc, runner>>

-----------------------------------------------------------------------------
(***************************************************************************)
(* Jobs: ReleaseRunner.                                                     *)
(***************************************************************************)
Step(p) == Accepting /\ pc = p /\ UNCHANGED <<proc, queue, call, issued, faults>>
Goto(p) == pc' = p /\ UNCHANGED job
Finish == pc' = "idle" /\ job' = NoJob
Throw == Goto("catch")

TakeJob ==
  /\ Accepting /\ pc = "idle" /\ queue # <<>>
  /\ job' = Head(queue) /\ queue' = Tail(queue)
  /\ pc' = "find"
  /\ UNCHANGED <<db, host, proc, call, bounds>>

\* runRelease: only the release row is read again, the deployment is the snapshot.
FindRelease ==
  /\ Step("find") /\ job.kind = "deploy"
  /\ IF RowExists(job.rel) THEN Goto("clone") ELSE Throw
  /\ UNCHANGED <<db, host>>

\* runRelaunch: the active release of this moment, if it has an image tag.
FindActive ==
  /\ Step("find") /\ job.kind = "relaunch"
  /\ IF RowExists(active) /\ rel[active].tag # None
     THEN pc' = "removeByName" /\ job' = [job EXCEPT !.rel = active, !.tag = rel[active].tag]
     ELSE Throw
  /\ UNCHANGED <<db, host>>

\* runRollback: the target, and the active release of this moment as the prior one.
FindTarget ==
  /\ Step("find") /\ job.kind = "rollback"
  /\ IF RowExists(job.rel) /\ rel[job.rel].tag # None
     THEN pc' = "removeByName" /\ job' = [job EXCEPT !.prior = active, !.tag = rel[job.rel].tag]
     ELSE Throw
  /\ UNCHANGED <<db, host>>

\* runStop: the deployment has to be there still.
FindDeployment ==
  /\ Step("find") /\ job.kind = "stop"
  /\ IF state # "gone" THEN Goto("removeAll") ELSE Throw
  /\ UNCHANGED <<db, host>>

\* buildGitRelease: CLONING, then the clone, which may fail.
Clone ==
  /\ Step("clone")
  /\ rel' = Updated(job.rel, WithStatus(job.rel, "CLONING"))
  /\ Goto("building") \/ Throw
  /\ UNCHANGED <<state, active, host>>

\* BUILDING is stored with the image tag (the commit's) before the build; so is
\* the tag of an IMAGE deployment before its pull.
StartBuild ==
  /\ Step("building")
  /\ pc' = "build"
  /\ \E i \in Images :
       /\ job' = [job EXCEPT !.tag = i]
       /\ rel' = Updated(job.rel, [WithStatus(job.rel, "BUILDING") EXCEPT !.tag = i])
  /\ UNCHANGED <<state, active, host>>

\* The build (or pull) itself.
Build ==
  /\ Step("build")
  /\ \/ images' = images \cup {job.tag} /\ Goto("check")
     \/ Throw /\ UNCHANGED images
  /\ UNCHANGED <<db, con>>

HealthChecking ==
  /\ Step("check")
  /\ rel' = Updated(job.rel, WithStatus(job.rel, "HEALTHCHECKING"))
  /\ Goto("removeByName")
  /\ UNCHANGED <<state, active, host>>

\* Mutant: the launch clears every container that carries the owner label.
RemoveByLabel ==
  /\ Step("removeByName")
  /\ con' = Removed(Present)
  /\ Goto("create")
  /\ UNCHANGED <<db, images>>

\* launchAndHealthCheck: first clear the container name willy_<name>_<release>.
RemoveByName ==
  /\ Step("removeByName")
  /\ con' = Removed({c \in Containers : con[c].rel = job.rel})
  /\ Goto("create")
  /\ UNCHANGED <<db, images>>

\* Create and start: the image may be gone, a WEB deployment may have no domain,
\* the daemon may refuse; a container that was created but not started remains.
Create ==
  /\ Step("create")
  /\ \/ /\ job.tag \in images
        /\ \E c \in Fresh :
             \/ /\ con' = [con EXCEPT ![c] = [st |-> "starting", rel |-> job.rel]]
                /\ job' = [job EXCEPT !.new = c]
                /\ pc' = "probe"
             \/ /\ "startfails" \in Ops
                /\ con' = [con EXCEPT ![c] = [st |-> "created", rel |-> job.rel]]
                /\ Throw
     \/ Throw /\ UNCHANGED con
  /\ UNCHANGED <<db, images>>

\* The health gate: the new container becomes healthy in time, or is removed.
Probe ==
  /\ Step("probe")
  /\ \/ /\ con[job.new].st = "starting"
        /\ con' = [con EXCEPT ![job.new].st = "healthy"]
        /\ Goto(IF job.kind = "deploy" THEN "live" ELSE "stale")
     \/ /\ con' = Removed({job.new})
        /\ Throw
  /\ UNCHANGED <<db, images>>

SetLive ==
  /\ Step("live")
  /\ rel' = Updated(job.rel, [WithStatus(job.rel, "LIVE") EXCEPT !.cont = job.new])
  /\ Goto("activate")
  /\ UNCHANGED <<state, active, host>>

\* active_release_id has no foreign key: a deleted release can become active.
SetActive ==
  /\ Step("activate")
  /\ active' = IF state = "gone" THEN None ELSE job.rel
  /\ Goto("running")
  /\ UNCHANGED <<state, rel, host>>

SetRunning ==
  /\ Step("running")
  /\ state' = StateSetTo("RUNNING")
  /\ \/ job.kind = "deploy" /\ Goto("stale")
     \/ job.kind = "rollback" /\ Goto("supersede")
     \/ job.kind = "relaunch" /\ Finish
  /\ UNCHANGED <<active, rel, host>>

\* removeStaleContainers, one stopAndRemove at a time.
RemoveStale ==
  /\ Step("stale")
  /\ \/ /\ \E c \in Present \ {job.new} : con' = Removed({c})
        /\ Goto("stale")
     \/ /\ Present \subseteq {job.new}
        /\ \/ job.kind = "deploy" /\ Goto("supersede")
           \/ job.kind = "rollback" /\ Goto("live")
           \/ job.kind = "relaunch" /\ Goto("running")
        /\ UNCHANGED con
  /\ UNCHANGED <<db, images>>

\* Mutant: the prior release is superseded even when it is the one made active.
SupersedeAlways ==
  /\ Step("supersede")
  /\ rel' = Updated(job.prior, WithStatus(job.prior, "SUPERSEDED"))
  /\ IF job.kind = "deploy" THEN Goto("cleanup") ELSE Finish
  /\ UNCHANGED <<state, active, host>>

\* The prior release of a deploy is the one of the request's snapshot.
Supersede ==
  /\ Step("supersede")
  /\ rel' = IF job.prior # job.rel
            THEN Updated(job.prior, WithStatus(job.prior, "SUPERSEDED")) ELSE rel
  /\ IF job.kind = "deploy" THEN Goto("cleanup") ELSE Finish
  /\ UNCHANGED <<state, active, host>>

\* cleanupImages keeps the KeepImages newest tags and the one just deployed.
CleanupImages ==
  /\ Step("cleanup")
  /\ \E newest \in SUBSET images :
       /\ Cardinality(newest) = IF Cardinality(images) < KeepImages
                               THEN Cardinality(images) ELSE KeepImages
       /\ images' = newest \cup ({job.tag} \cap images)
  /\ Finish
  /\ UNCHANGED <<db, con>>

\* Mutant: only the deployment is told of the failure.
MarkDeploymentOnly ==
  /\ Step("catch") /\ job.kind = "deploy"
  /\ Goto("failed")
  /\ UNCHANGED <<db, host>>

\* The catch of runRelease: the release failed; the deployment is DEGRADED if
\* the snapshot had an active release.
MarkReleaseFailed ==
  /\ Step("catch") /\ job.kind = "deploy"
  /\ rel' = Updated(job.rel, WithStatus(job.rel, "FAILED"))
  /\ Goto("failed")
  /\ UNCHANGED <<state, active, host>>

StateAfterFailedDeploy ==
  /\ Step("failed")
  /\ state' = StateSetTo(IF job.prior # None THEN "DEGRADED" ELSE "ERROR")
  /\ Finish
  /\ UNCHANGED <<active, rel, host>>

\* Mutant: a failed action leaves the state it found.
IgnoreFailedAction ==
  /\ Step("catch") /\ job.kind \in {"relaunch", "rollback", "stop"}
  /\ Finish
  /\ UNCHANGED <<db, host>>

\* The catch of relaunch, rollback and stop: DEGRADED if any container is listed.
MarkActionFailed ==
  /\ Step("catch") /\ job.kind \in {"relaunch", "rollback", "stop"}
  /\ state' = StateSetTo(IF Present # {} THEN "DEGRADED" ELSE "ERROR")
  /\ Finish
  /\ UNCHANGED <<active, rel, host>>

\* Mutant: only one container is taken to belong to the deployment.
StopRemoveOne ==
  /\ Step("removeAll")
  /\ \/ \E c \in Present : con' = Removed({c})
     \/ Present = {} /\ UNCHANGED con
  /\ Goto("stopped")
  /\ UNCHANGED <<db, images>>

\* removeAllContainers, one stopAndRemove at a time.  (The list is read once; no
\* container of the deployment appears meanwhile, only jobs create them.)
StopRemoveAll ==
  /\ Step("removeAll")
  /\ \/ (\E c \in Present : con' = Removed({c})) /\ Goto("removeAll")
     \/ Present = {} /\ Goto("stopped") /\ UNCHANGED con
  /\ UNCHANGED <<db, images>>

SetStopped ==
  /\ Step("stopped")
  /\ state' = StateSetTo("STOPPED")
  /\ Finish
  /\ UNCHANGED <<active, rel, host>>

-----------------------------------------------------------------------------
(***************************************************************************)
(* Faults, and the repair on boot: ReconcileService.                        *)
(***************************************************************************)
Fault(kind) ==
  /\ kind \in Ops
  /\ faults < MaxFaults /\ faults' = faults + 1 /\ UNCHANGED issued

\* The process ends: the queue, the running job and the requests are gone.
ProcessGone ==
  /\ proc' = "down"
  /\ queue' = <<>> /\ job' = NoJob /\ pc' = "idle"
  /\ call' = [c \in Callers |-> NoCall]

Crash ==
  /\ Fault("crash") /\ proc # "down"
  /\ ProcessGone
  /\ UNCHANGED <<db, host>>

\* The host restarts: containers whose restart policy is NO or ON_FAILURE stay
\* stopped (those of the other policies the daemon starts again).
Reboot ==
  /\ Fault("reboot")
  /\ ProcessGone
  /\ con' = [c \in Containers |->
               IF con[c].st \in {"starting", "healthy"}
               THEN [con[c] EXCEPT !.st = "stopped"] ELSE con[c]]
  /\ UNCHANGED <<db, images>>

\* An operator removes a container at the host while Willy is down.
Vanish ==
  /\ Fault("vanish") /\ proc = "down"
  /\ \E c \in Present : con' = Removed({c})
  /\ UNCHANGED <<db, images, proc, runner, call>>

\* The first thing on boot: builds that were under way are marked INTERRUPTED.
BootMark ==
  /\ proc = "down"
  /\ rel' = [r \in Releases |->
               IF rel[r].status \in InProgress
               THEN [rel[r] EXCEPT !.status = "INTERRUPTED"] ELSE rel[r]]
  /\ proc' = "booting"
  /\ UNCHANGED <<state, active, host, runner, call, bounds>>

\* Docker does not answer the ping: no repair, the backend serves all the same.
BootUnrepaired ==
  /\ "pingfails" \in Ops
  /\ proc = "down" /\ proc' = "unrepaired"
  /\ UNCHANGED <<db, host, runner, call, bounds>>

\* Mutant: the row is marked, the job is not enqueued.
BootMarksOnly ==
  /\ proc = "booting" /\ proc' = "up"
  /\ IF state \in {"STOPPED", "gone"} \/ active = None \/ Present # {}
     THEN UNCHANGED state
     ELSE state' = "DEPLOYING"
  /\ UNCHANGED <<active, rel, host, runner, call, bounds>>

\* Relaunch the active release when no container is left; otherwise only the
\* log follows are attached again and the row stays as it is.
BootReconcile ==
  /\ proc = "booting" /\ proc' = "up"
  /\ IF state \in {"STOPPED", "gone"} \/ active = None \/ Present # {}
     THEN UNCHANGED <<state, queue>>
     ELSE state' = "DEPLOYING" /\ EnqueueJob("relaunch", None, None)
  /\ UNCHANGED <<active, rel, host, job, pc, call, bounds>>

-----------------------------------------------------------------------------
Request(c) ==
  \/ DeployRead(c) \/ StartRead(c) \/ RollbackRead(c) \/ Stop(c)
  \/ DeleteRead(c) \/ TeardownList(c)

Continue(c) ==
  \/ DeployCreate(c) \/ Mark(c) \/ Enqueue(c)
  \/ DeleteCheck(c) \/ DeleteContainer(c) \/ DeleteImage(c) \/ DeleteRow(c)
  \/ TeardownContainers(c) \/ RemoveDeployment(c)

RunJob ==
  \/ TakeJob \/ FindRelease \/ FindActive \/ FindTarget \/ FindDeployment
  \/ Clone \/ StartBuild \/ Build \/ HealthChecking
  \/ RemoveByName \/ Create \/ Probe
  \/ SetLive \/ SetActive \/ SetRunning
  \/ RemoveStale \/ Supersede \/ CleanupImages
  \/ MarkReleaseFailed \/ StateAfterFailedDeploy \/ MarkActionFailed
  \/ StopRemoveAll \/ SetStopped

Boot == BootMark \/ BootUnrepaired \/ BootReconcile

Next ==
  \/ \E c \in Callers : Request(c) \/ Continue(c)
  \/ RunJob
  \/ Crash \/ Reboot \/ Vanish
  \/ Boot

Spec == Init /\ [][Next]_vars

(***************************************************************************)
(* Awaits end, queued jobs get their turn (BuildQueue), the supervisor      *)
(* (docker compose, restart: unless-stopped) starts the backend again.      *)
(***************************************************************************)
Fairness ==
  /\ WF_vars(RunJob)
  /\ \A c \in Callers : WF_vars(Continue(c))
  /\ WF_vars(Boot)

FairSpec == Spec /\ Fairness

-----------------------------------------------------------------------------
(***************************************************************************)
(* Properties.                                                              *)
(***************************************************************************)
Idle == Accepting /\ pc = "idle" /\ queue = <<>> /\ \A c \in Callers : call[c].at = "idle"

\* A deployment shown as RUNNING is served by its active release.
RunningMeansServing ==
  Idle /\ state = "RUNNING" =>
    \E c \in Containers : con[c].st = "healthy" /\ con[c].rel = active

\* What the repair on boot guarantees of it: after crashes, and after containers
\* were removed while Willy was down, some container is there.
RunningHasContainer == Idle /\ proc = "up" /\ state = "RUNNING" => Present # {}

\* Nothing of an older version, a failed launch or a lost swap is left beside it
\* (removeStaleContainers after every cut-over, across queued jobs).
NoLeftovers ==
  Idle /\ state = "RUNNING" => Cardinality(Present) = 1

\* A deployment shown as STOPPED has no container left, however its jobs were
\* queued.
StoppedMeansDown == Idle /\ state = "STOPPED" => Present = {}

\* Both: no container is left that the state shown does not account for.
NothingLeftOver == NoLeftovers /\ StoppedMeansDown

\* What is up when nothing is under way is what the panel shows.
SwapInv == TypeOK /\ RunningMeansServing /\ NothingLeftOver

\* The release the deployment points at is a LIVE one, also between the two
\* writes of a cut-over and after a crash between them.
ActiveIsLive == active # None => rel[active].status = "LIVE"

\* The image of the active release stays on the host: it can be relaunched.
ActiveImageKept == active # None => rel[active].tag \in images

\* Both, as long as deleteRelease has removed nothing of a release: it takes the image tag
\* away while others use it, and compares with the active release of an earlier moment.
NothingDropped ==
  /\ \A c \in Callers : call[c].at \notin {"dropContainer", "dropImage", "dropRow"}
  /\ \A r \in Releases : rel[r].status # "deleted"
ActiveKept == NothingDropped => ActiveIsLive /\ ActiveImageKept

\* No release is shown in progress when nothing works on it (markInterrupted
\* repairs what a crash left, wherever the crash came, if Docker answers).
SettledWhenIdle == Idle /\ proc = "up" => \A r \in Releases : rel[r].status \notin InProgress

\* The step of a job leaves a healthy container when there was one.
JobStep == pc # "idle" /\ proc' = proc /\ call' = call

\* "The old version keeps running until the new one passes health-check"
\* (docs/plans/14-06-2026-willy.md:387), for new releases: no step of a deploy
\* takes the last healthy container away.
DeployKeepsServing ==
  [][JobStep /\ job.kind = "deploy" /\ Serving => Serving']_vars

\* The same for every job that starts a container.
SwapKeepsServing ==
  [][JobStep /\ job.kind \in {"deploy", "relaunch", "rollback"} /\ Serving => Serving']_vars

\* active_release_id only ever moves to a release whose container has passed
\* its health gate.
CutoverToHealthy ==
  [][active' # active /\ active' # None =>
       \E c \in Containers : con[c].st = "healthy" /\ con[c].rel = active']_vars

\* A deploy is a blue/green swap: the old version serves until the new one does, and
\* only a version that does is made the active one.
GreenBeforeBlue == DeployKeepsServing /\ CutoverToHealthy

\* deleteRelease is for "a non-active release" (build-orchestrator.service.ts:107):
\* the row of the active release is deleted only with its deployment.
DeleteSparesActive ==
  [][\A r \in Releases :
       r = active /\ active' = active /\ RowExists(r) => rel'[r].status # "deleted"]_vars

\* A cut-over supersedes the version it replaces: at rest one release is LIVE.
OneLiveRelease ==
  Idle => Cardinality({r \in Releases : rel[r].status = "LIVE"}) <= 1

\* DEGRADED "reflects that [the previous version] is still serving"
\* (release-runner.service.ts:214).
DegradedMeansServing == Idle /\ state = "DEGRADED" => Serving

\* ERROR is "nothing running" (release-runner.service.ts:133).
ErrorMeansDown == Idle /\ state = "ERROR" => ~Serving

\* Deleting a deployment "tears down the container and removes the deployment"
\* (src/frontend/src/components/DeployActions.tsx:207), whatever was queued.
GoneMeansDown == Idle /\ state = "gone" => Present = {}

\* The transitional state is left again.
DeployingEnds == state = "DEPLOYING" ~> state # "DEPLOYING"

\* Every release that is asked for reaches a final status, crashes or not, unless
\* a boot went without the repair.
ReleaseSettles ==
  \A r \in Releases :
    rel[r].status \in InProgress ~> (rel[r].status \notin InProgress \/ proc = "unrepaired")

\* A boot with no container left brings the active release back, or says so.
BootRestores ==
  (proc = "booting" /\ state \notin {"STOPPED", "gone"} /\ active # None /\ Present = {})
    ~> (Serving \/ state \in {"ERROR", "STOPPED", "gone"} \/ proc = "down")
=============================================================================
