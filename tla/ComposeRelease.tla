--------------------------- MODULE ComposeRelease ---------------------------
(***************************************************************************)
(* One deployment of strategy COMPOSE (type WEB): the blue-green release of   *)
(* ReleaseRunner.runComposeRelease over two kinds of compose projects.       *)
(*                                                                         *)
(* A compose file splits its services.  Those with state are pinned: they    *)
(* live in the base project, which every deploy recreates in place.  The     *)
(* others live in a project of the release, started beside the one that       *)
(* serves.  The split is the file's, and the next commit may change it.       *)
(* Traefik prefers the router that was launched first (writeOverride gives a   *)
(* later launch a lower priority), so a new copy gets no traffic before the    *)
(* old one is gone.                                                          *)
(***************************************************************************)
EXTENDS Naturals, Sequences, FiniteSets, SequencesExt, FiniteSetsExt

CONSTANTS
  Releases,    \* ids of the releases rows that can be inserted
  Services,    \* services of the compose file
  Web,         \* the service the domain routes to
  Layouts,     \* the sets of pinned services a commit may have
  Callers,     \* HTTP requests that can be in flight at the same time
  MaxCalls,    \* bound: requests issued
  MaxCrashes,  \* bound: restarts of the backend
  Base, None

VARIABLES
  state,    \* deployments.state
  active,   \* deployments.active_release_id
  rel,      \* the releases rows: status and compose_project
  copy,     \* per project and service: its container
  order,    \* the projects that route Web, first launch first
  queue,    \* jobs that wait
  job,      \* the job that runs, with its locals
  pc,       \* its next await
  call,     \* per request in flight: where it is and what it has read
  issued,   \* requests so far
  crashes   \* restarts so far

db == <<state, active, rel>>
host == <<copy, order>>
vars == <<state, active, rel, copy, order, queue, job, pc, call, issued, crashes>>

Projects == Releases \cup {Base}
InProgress == {"QUEUED", "CLONING", "BUILDING", "HEALTHCHECKING"}
NoRow == [status |-> "none", project |-> None]
NoJob == [kind |-> "none", rel |-> None, prior |-> None, project |-> None, pinned |-> {}]
NoCall == [at |-> "idle", rel |-> None, prior |-> None]

TypeOK ==
  /\ state \in {"CREATED", "DEPLOYING", "RUNNING", "DEGRADED", "ERROR", "STOPPED"}
  /\ active \in Releases \cup {None}
  /\ rel \in [Releases ->
       [status : InProgress \cup {"none", "LIVE", "FAILED", "SUPERSEDED", "INTERRUPTED"},
        project : Projects \cup {None}]]
  /\ \A r \in Releases : rel[r].project \in {None, Base, r}
  /\ copy \in [Projects -> [Services -> {"absent", "up", "broken"}]]
  /\ order \in Seq(Projects) /\ IsInjective(order)
  /\ \A p \in Projects : copy[p][Web] # "absent" <=> p \in ToSet(order)
  /\ job.pinned \in {{}} \cup Layouts /\ job.project \in Projects \cup {None}
  /\ issued \in 0..MaxCalls /\ crashes \in 0..MaxCrashes

Init ==
  /\ state = "CREATED" /\ active = None
  /\ rel = [r \in Releases |-> NoRow]
  /\ copy = [p \in Projects |-> [s \in Services |-> "absent"]] /\ order = <<>>
  /\ queue = <<>> /\ job = NoJob /\ pc = "idle"
  /\ call = [c \in Callers |-> NoCall]
  /\ issued = 0 /\ crashes = 0

-----------------------------------------------------------------------------
(***************************************************************************)
(* Projects on the host.                                                    *)
(***************************************************************************)
Has(p) == {s \in Services : copy[p][s] # "absent"}

\* The project whose copy of Web gets the traffic, if any: Traefik leaves out the
\* containers that have exited or report unhealthy.
Routed == LET up == {i \in DOMAIN order : copy[order[i]][Web] = "up"}
          IN IF up = {} THEN None ELSE order[Min(up)]

Eligible == Services \ job.pinned

\* Containers of project p become those of f; Web's router goes last when it is launched.
Become(p, f, launched) ==
  /\ copy' = [copy EXCEPT ![p] = f]
  /\ LET rest == IF launched \/ f[Web] = "absent" THEN RemoveFirst(order, p) ELSE order
     IN order' = IF launched /\ f[Web] # "absent" THEN Append(rest, p) ELSE rest

\* downRelease: the containers that carry the project's label, then its network.
Down(p) == Become(p, [s \in Services |-> "absent"], FALSE)

-----------------------------------------------------------------------------
(***************************************************************************)
(* Requests.  start and restart of a compose deployment are a deploy;        *)
(* rollback is refused.                                                      *)
(***************************************************************************)
NewCall(c) == call[c].at = "idle" /\ issued < MaxCalls /\ issued' = issued + 1

\* deploy reads the row: this is the snapshot its job will use.
DeployRead(c) ==
  /\ NewCall(c)
  /\ call' = [call EXCEPT ![c] = [NoCall EXCEPT !.at = "create", !.prior = active]]
  /\ UNCHANGED <<db, host, queue, job, pc, crashes>>

DeployCreate(c) ==
  /\ call[c].at = "create"
  /\ \E r \in Releases :
       /\ rel[r].status = "none"
       /\ rel' = [rel EXCEPT ![r].status = "QUEUED"]
       /\ call' = [call EXCEPT ![c].at = "mark", ![c].rel = r]
  /\ UNCHANGED <<state, active, host, queue, job, pc, issued, crashes>>

Mark(c) ==
  /\ call[c].at = "mark"
  /\ state' = "DEPLOYING"
  /\ call' = [call EXCEPT ![c].at = "enqueue"]
  /\ UNCHANGED <<active, rel, host, queue, job, pc, issued, crashes>>

Enqueue(c) ==
  /\ call[c].at = "enqueue"
  /\ queue' = Append(queue, [NoJob EXCEPT !.kind = "deploy", !.rel = call[c].rel, !.prior = call[c].prior])
  /\ call' = [call EXCEPT ![c] = NoCall]
  /\ UNCHANGED <<db, host, job, pc, issued, crashes>>

Stop(c) ==
  /\ NewCall(c)
  /\ queue' = Append(queue, [NoJob EXCEPT !.kind = "stop"])
  /\ UNCHANGED <<db, host, job, pc, call, crashes>>

-----------------------------------------------------------------------------
(***************************************************************************)
(* Jobs.                                                                    *)
(***************************************************************************)
Step(p) == pc = p /\ UNCHANGED <<queue, call, issued, crashes>>
Goto(p) == pc' = p /\ UNCHANGED job
SetStatus(s) == rel' = [rel EXCEPT ![job.rel].status = s]

TakeJob ==
  /\ pc = "idle" /\ queue # <<>>
  /\ job' = Head(queue) /\ queue' = Tail(queue)
  /\ pc' = IF Head(queue).kind = "stop" THEN "down" ELSE "prior"
  /\ UNCHANGED <<db, host, call, issued, crashes>>

\* The project of the version to replace is that of the snapshot's active release.
ReadPrior ==
  /\ Step("prior")
  /\ pc' = "clone"
  /\ job' = [job EXCEPT !.project = IF job.prior = None THEN None ELSE rel[job.prior].project]
  /\ UNCHANGED <<db, host>>

Clone ==
  /\ Step("clone")
  /\ SetStatus("CLONING")
  /\ Goto("prepare") \/ Goto("failed")
  /\ UNCHANGED <<state, active, host>>

\* BUILDING, then prepare splits the compose file of this commit, if it is a valid one.
Prepare ==
  /\ Step("prepare")
  /\ SetStatus("BUILDING")
  /\ \/ \E pinned \in Layouts :
          /\ job' = [job EXCEPT !.pinned = pinned]
          /\ pc' = IF pinned # {} THEN "upBase" ELSE "upRelease"
     \/ Goto("failed")
  /\ UNCHANGED <<state, active, host>>

\* upBase, first half: compose builds; then it removes the base containers that
\* are not pinned any more and those it recreates.  Web's labels hold the launch
\* time, so a pinned Web is always recreated.
UpBase ==
  /\ Step("upBase")
  /\ \/ \E gone \in SUBSET job.pinned :
          /\ {Web} \cap job.pinned \subseteq gone
          /\ Become(Base, [s \in Services |-> IF s \in job.pinned \ gone THEN copy[Base][s] ELSE "absent"], FALSE)
          /\ Goto("upBaseStart")
     \/ Goto("failed") /\ UNCHANGED host
  /\ UNCHANGED db

\* Second half: it starts them; a failure may leave any of them out.
UpBaseStart ==
  /\ Step("upBaseStart")
  /\ \E up, broken \in SUBSET (job.pinned \ Has(Base)) :
       /\ up \cap broken = {}
       /\ Become(Base, [s \in Services |-> IF s \in up THEN "up" ELSE
                                           IF s \in broken THEN "broken" ELSE copy[Base][s]], Web \in up \cup broken)
       /\ \/ job.pinned \ Has(Base) = up \cup broken /\ Goto(IF Eligible # {} THEN "upRelease" ELSE "health")
          \/ Goto("failed")
  /\ UNCHANGED db

\* upRelease: the project of this release, beside the one that serves.  When compose
\* fails, what it created is there until removeFailedRelease.
UpRelease ==
  /\ Step("upRelease")
  /\ \E up, broken \in SUBSET Eligible :
       /\ up \cap broken = {}
       /\ Become(job.rel, [s \in Services |-> IF s \in up THEN "up" ELSE
                                              IF s \in broken THEN "broken" ELSE "absent"], TRUE)
       /\ \/ Eligible = up \cup broken /\ Goto("health")
          \/ Goto("removeFailed")
  /\ UNCHANGED db

\* The project the release is tracked by: its own, or the base when all is pinned.
HealthChecking ==
  /\ Step("health")
  /\ rel' = [rel EXCEPT ![job.rel] =
               [status |-> "HEALTHCHECKING", project |-> IF Eligible # {} THEN job.rel ELSE Base]]
  /\ Goto("gate")
  /\ UNCHANGED <<state, active, host>>

\* composeHealthy and firstUnreachableRoute over the base and the new project;
\* either may also give up on time.
Gate ==
  /\ Step("gate")
  /\ \/ /\ \A s \in Services : copy[IF s \in job.pinned THEN Base ELSE job.rel][s] = "up"
        /\ Goto("live")
     \/ Goto("removeFailed")
  /\ UNCHANGED <<db, host>>

\* Mutant: the wrong project is torn down.
RemoveFailedPrior ==
  /\ Step("removeFailed")
  /\ IF job.project # None THEN Down(job.project) ELSE UNCHANGED host
  /\ Goto("failed")
  /\ UNCHANGED db

RemoveFailed ==
  /\ Step("removeFailed")
  /\ IF Eligible # {} THEN Down(job.rel) ELSE UNCHANGED host
  /\ Goto("failed")
  /\ UNCHANGED db

SetLive ==
  /\ Step("live")
  /\ SetStatus("LIVE") /\ Goto("activate")
  /\ UNCHANGED <<state, active, host>>

SetActive ==
  /\ Step("activate")
  /\ active' = job.rel /\ Goto("running")
  /\ UNCHANGED <<state, rel, host>>

SetRunning ==
  /\ Step("running")
  /\ state' = "RUNNING" /\ Goto("cutover")
  /\ UNCHANGED <<active, rel, host>>

\* Removing the prior release project lets Traefik route to the new one.
Cutover ==
  /\ Step("cutover")
  /\ IF job.project \notin {None, Base, job.rel} THEN Down(job.project) ELSE UNCHANGED host
  /\ Goto("supersede")
  /\ UNCHANGED db

Supersede ==
  /\ Step("supersede")
  /\ rel' = IF job.prior \in Releases \ {job.rel} THEN [rel EXCEPT ![job.prior].status = "SUPERSEDED"] ELSE rel
  /\ pc' = "idle" /\ job' = NoJob
  /\ UNCHANGED <<state, active, host>>

MarkFailed ==
  /\ Step("failed")
  /\ SetStatus("FAILED") /\ Goto("failedState")
  /\ UNCHANGED <<state, active, host>>

StateAfterFailure ==
  /\ Step("failedState")
  /\ state' = IF job.prior # None THEN "DEGRADED" ELSE "ERROR"
  /\ pc' = "idle" /\ job' = NoJob
  /\ UNCHANGED <<active, rel, host>>

\* Mutant: stop takes the projects of the active release only.
DownActive ==
  /\ Step("down")
  /\ IF active # None THEN Down(rel[active].project) ELSE UNCHANGED host
  /\ Goto("stopped")
  /\ UNCHANGED db

\* down: every container with the owner label, in whatever project.
DownAll ==
  /\ Step("down")
  /\ copy' = [p \in Projects |-> [s \in Services |-> "absent"]] /\ order' = <<>>
  /\ Goto("stopped")
  /\ UNCHANGED db

SetStopped ==
  /\ Step("stopped")
  /\ state' = "STOPPED" /\ pc' = "idle" /\ job' = NoJob
  /\ UNCHANGED <<active, rel, host>>

\* A restart: queue and requests are lost, releases in progress are INTERRUPTED.
\* A deployment that should run and has no container at all is deployed again.
Crash ==
  /\ crashes < MaxCrashes /\ crashes' = crashes + 1
  /\ LET marked == [r \in Releases |->
           IF rel[r].status \in InProgress THEN [rel[r] EXCEPT !.status = "INTERRUPTED"] ELSE rel[r]]
         lost == state # "STOPPED" /\ active # None /\ \A p \in Projects : Has(p) = {}
     IN IF lost
        THEN \E r \in Releases :
               /\ rel[r].status = "none"
               /\ rel' = [marked EXCEPT ![r].status = "QUEUED"]
               /\ state' = "DEPLOYING"
               /\ queue' = <<[NoJob EXCEPT !.kind = "deploy", !.rel = r, !.prior = active]>>
        ELSE rel' = marked /\ queue' = <<>> /\ UNCHANGED state
  /\ job' = NoJob /\ pc' = "idle" /\ call' = [c \in Callers |-> NoCall]
  /\ UNCHANGED <<active, host, issued>>

Request(c) == DeployRead(c) \/ DeployCreate(c) \/ Mark(c) \/ Enqueue(c) \/ Stop(c)
RunJob == \/ TakeJob \/ ReadPrior \/ Clone \/ Prepare \/ UpBase \/ UpBaseStart \/ UpRelease
          \/ HealthChecking \/ Gate \/ RemoveFailed \/ SetLive \/ SetActive \/ SetRunning \/ Cutover
          \/ Supersede \/ MarkFailed \/ StateAfterFailure \/ DownAll \/ SetStopped

Next == RunJob \/ Crash \/ \E c \in Callers : Request(c)
Spec == Init /\ [][Next]_vars

-----------------------------------------------------------------------------
(***************************************************************************)
(* Properties.                                                              *)
(***************************************************************************)
Idle == pc = "idle" /\ queue = <<>> /\ \A c \in Callers : call[c].at = "idle"
RunsWhole(r) == \A s \in Services : copy[Base][s] = "up" \/ copy[r][s] = "up"

\* The tier that serves is never taken down before its successor is in place: no
\* step, of a failing deploy either, removes a container of the active release's own
\* project, except a stop (upRelease and cutover beside the prior release).
BlueKept ==
  [][\A r \in Releases, s \in Services :
       r = active /\ copy[r][s] = "up" /\ copy'[r][s] # "up" => job.kind = "stop"]_vars

\* A request to the domain that found a running copy of Web keeps finding one through
\* every deploy, whatever was launched beside it or failed, with two exceptions: upBase
\* takes a Web of the base project down (to recreate it, or because the new split has it
\* elsewhere), and a first release that fails its gate is removed.
WebThroughDeploy ==
  [][Routed # None /\ Routed' = None =>
       job.kind = "stop" \/ (pc = "upBase" /\ Routed = Base) \/ Routed = job.rel]_vars

\* When nothing is under way and no restart cut a job off, RUNNING means that
\* every service of the file runs, in the base or in the active release's project.
RunningMeansWhole == Idle /\ state = "RUNNING" /\ crashes = 0 => RunsWhole(active)

\* A deploy that failed leaves nothing of its own project behind.
FailedLeavesNothing ==
  \A r \in Releases : rel[r].status = "FAILED" => Has(r) = {}

\* When nothing is under way and no restart cut a job off, STOPPED means that no
\* project runs, however many there were.
StoppedMeansDown ==
  Idle /\ state = "STOPPED" /\ crashes = 0 => \A p \in Projects : Has(p) = {}

\* Both: no project is left up that nothing accounts for.
NothingLeftUp == FailedLeavesNothing /\ StoppedMeansDown

\* The version the panel shows as active is the one that the domain reaches: its own
\* copy of Web or, if it has none, the one in the base (release-runner.service.ts:342:
\* removing the prior release lets Traefik route to green).
TrafficReachesActive ==
  Idle /\ state = "RUNNING" => Routed = IF copy[active][Web] # "absent" THEN active ELSE Base

=============================================================================
